-------------------------------- MODULE Dedup --------------------------------
(***************************************************************************)
(* loggers.Dedup: workers hand messages over cmdCh to one goroutine        *)
(* (serve), which prints the first of equal messages, counts the others    *)
(* for a window, and then prints their number.  Close travels over the     *)
(* same channel.  Time passes in steps of a fraction of the window.        *)
(***************************************************************************)
EXTENDS Integers, Sequences, FiniteSets

CONSTANTS
  Msgs,           \* The formatted messages.
  dedupCmdClose,  \* The command that Close sends; any other is a message.
  Callers,        \* Goroutines that call Printf and Close.
  QueueSizes,     \* The queue arguments of NewDedup to consider.
  Window,         \* lg.window, in steps of the clock.
  MaxCalls        \* Bound of the model: Printf is called at most so often.

ASSUME DedupAssumption ==
  /\ dedupCmdClose \notin Msgs
  /\ QueueSizes \subseteq Nat
  /\ Window \in Nat \ {0}
  /\ MaxCalls \in Nat

Cmds == Msgs \cup {dedupCmdClose}

VARIABLES
  queueSize,    \* cap(lg.cmdCh), fixed by the constructor.
  cmdCh,        \* The commands buffered in lg.cmdCh.
  done,         \* close(lg.done) was called.
  pc,           \* Where serve is: "select", "return" or "ended".
  lastMsgs,     \* lg.lastMsgs: for each message that has an entry, the time
                \* left until flushAt (0: it has come) and the suppressed count.
  caller,       \* Each caller: idle, in send, or in Close's <-lg.done.
  cmd,          \* The command of a caller in send.
  calls,        \* How often Printf was called (bounded by MaxCalls).
  since,        \* History: the time since the last line with a message,
                \* Window if it is longer ago.
  reported,     \* History: how many messages the lines printed stand for.
  closing,      \* History: the channel has accepted a close command.
  early         \* History: the messages it accepted before.

serveVars == <<pc, lastMsgs, since, reported>>
callVars  == <<caller, cmd, calls>>
history   == <<closing, early>>

vars == <<queueSize, cmdCh, done, serveVars, callVars, history>>

-----------------------------------------------------------------------------
Init ==
  /\ queueSize \in QueueSizes
  /\ cmdCh = <<>>
  /\ done = FALSE
  /\ pc = "select"
  /\ lastMsgs = [m \in {} |-> [left |-> 0, suppressed |-> 0]]
  /\ caller = [c \in Callers |-> "idle"]
  /\ cmd = [c \in Callers |-> dedupCmdClose]
  /\ calls = 0
  /\ since = [m \in Msgs |-> Window]
  /\ reported = [m \in Msgs |-> 0]
  /\ closing = FALSE
  /\ early = [m \in Msgs |-> 0]

-----------------------------------------------------------------------------
(***************************************************************************)
(* Printf, Close and the send they share: a select of cmdCh and done.      *)
(***************************************************************************)
CallPrintf(c, m) ==
  /\ caller[c] = "idle"
  /\ calls < MaxCalls
  /\ calls' = calls + 1
  /\ caller' = [caller EXCEPT ![c] = "send"]
  /\ cmd' = [cmd EXCEPT ![c] = m]
  /\ UNCHANGED <<queueSize, cmdCh, done, serveVars, history>>

CallClose(c) ==
  /\ caller[c] = "idle"
  /\ caller' = [caller EXCEPT ![c] = "send"]
  /\ cmd' = [cmd EXCEPT ![c] = dedupCmdClose]
  /\ UNCHANGED <<queueSize, cmdCh, done, serveVars, calls, history>>

(* What a caller does once send has returned. *)
Sent(c) ==
  caller' = [caller EXCEPT ![c] = IF cmd[c] = dedupCmdClose THEN "close" ELSE "idle"]

Accepted(command) ==
  /\ closing' = (closing \/ command = dedupCmdClose)
  /\ early' = [m \in Msgs |-> early[m] + IF ~closing /\ m = command THEN 1 ELSE 0]

Send(c) ==
  /\ caller[c] = "send"
  /\ Len(cmdCh) < queueSize
  /\ cmdCh' = Append(cmdCh, cmd[c])
  /\ Accepted(cmd[c])
  /\ Sent(c)
  /\ UNCHANGED <<queueSize, done, serveVars, cmd, calls>>

SendAfterDone(c) ==
  /\ caller[c] = "send"
  /\ done
  /\ Sent(c)
  /\ UNCHANGED <<queueSize, cmdCh, done, serveVars, cmd, calls, history>>

CloseReturns(c) ==
  /\ caller[c] = "close"
  /\ done
  /\ caller' = [caller EXCEPT ![c] = "idle"]
  /\ UNCHANGED <<queueSize, cmdCh, done, serveVars, cmd, calls, history>>

-----------------------------------------------------------------------------
(***************************************************************************)
(* serve.                                                                  *)
(***************************************************************************)
(* A bug to tell apart: the window is counted twice. *)
FreshTwice == [left |-> 2 * Window, suppressed |-> 0]

Fresh == [left |-> Window, suppressed |-> 0]

(* The entries with those of the set `at` remembered anew. *)
Remembered(entries, at) ==
  [m \in (DOMAIN entries) \cup at |-> IF m \in at THEN Fresh ELSE entries[m]]

(* A line is printed for each message in `ms`, standing for n[m] messages. *)
Prints(ms, n) ==
  /\ reported' = [m \in Msgs |-> reported[m] + IF m \in ms THEN n[m] ELSE 0]
  /\ since' = [m \in Msgs |-> IF m \in ms THEN 0 ELSE since[m]]

log(msg) ==
  \/ /\ msg \in DOMAIN lastMsgs
     /\ lastMsgs' = [lastMsgs EXCEPT ![msg].suppressed = @ + 1]
     /\ UNCHANGED <<since, reported>>
  \/ /\ msg \notin DOMAIN lastMsgs
     /\ Prints({msg}, [m \in {msg} |-> 1])
     /\ lastMsgs' = Remembered(lastMsgs, {msg})

Suppressed == [m \in DOMAIN lastMsgs |-> lastMsgs[m].suppressed]

WithMore == {m \in DOMAIN lastMsgs : lastMsgs[m].suppressed > 0}

Due == {m \in DOMAIN lastMsgs : lastMsgs[m].left = 0}

(* A bug to tell apart: only entries whose window is over are flushed. *)
forceFlushDue ==
  /\ Prints(WithMore \cap Due, Suppressed)
  /\ lastMsgs' = [m \in {} |-> Fresh]

forceFlush ==
  /\ Prints(WithMore, Suppressed)
  /\ lastMsgs' = [m \in {} |-> Fresh]

(* Bugs to tell apart: an entry is deleted after its count was printed; an *)
(* entry without a count is kept.                                          *)
maybeFlushForgets ==
  /\ Prints(Due \cap WithMore, Suppressed)
  /\ lastMsgs' = [m \in (DOMAIN lastMsgs) \ Due |-> lastMsgs[m]]

maybeFlushKeeps ==
  /\ Prints(Due \cap WithMore, Suppressed)
  /\ lastMsgs' = Remembered(lastMsgs, Due \cap WithMore)

(* Entries whose window is over: those with a count get their line and a   *)
(* new window, the others are deleted.                                     *)
maybeFlush ==
  /\ Prints(Due \cap WithMore, Suppressed)
  /\ lastMsgs' = Remembered([m \in (DOMAIN lastMsgs) \ Due |-> lastMsgs[m]],
                            Due \cap WithMore)

Handle(command) ==
  \/ /\ command = dedupCmdClose
     /\ forceFlush
     /\ pc' = "return"
  \/ /\ command \in Msgs
     /\ log(command)
     /\ UNCHANGED pc

ReceiveBuffered ==
  /\ pc = "select"
  /\ cmdCh # <<>>
  /\ cmdCh' = Tail(cmdCh)
  /\ Handle(Head(cmdCh))
  /\ UNCHANGED <<queueSize, done, callVars, history>>

(* cmdCh is unbuffered: the command goes from hand to hand. *)
ReceiveFromSender(c) ==
  /\ pc = "select"
  /\ queueSize = 0
  /\ caller[c] = "send"
  /\ Accepted(cmd[c])
  /\ Sent(c)
  /\ Handle(cmd[c])
  /\ UNCHANGED <<queueSize, cmdCh, done, cmd, calls>>

ReceiveTick ==
  /\ pc = "select"
  /\ maybeFlush
  /\ UNCHANGED <<queueSize, cmdCh, done, pc, callVars, history>>

(* A bug to tell apart: done is left open. *)
DoneLeftOpen ==
  /\ pc = "return"
  /\ pc' = "ended"
  /\ UNCHANGED <<queueSize, cmdCh, done, lastMsgs, since, reported, callVars,
                 history>>

CloseDone ==
  /\ pc = "return"
  /\ done' = TRUE
  /\ pc' = "ended"
  /\ UNCHANGED <<queueSize, cmdCh, lastMsgs, since, reported, callVars, history>>

(* Time passes for every entry and since every line. *)
Clock ==
  /\ lastMsgs' = [m \in DOMAIN lastMsgs |->
                    [lastMsgs[m] EXCEPT !.left = IF @ = 0 THEN 0 ELSE @ - 1]]
  /\ since' = [m \in Msgs |-> IF since[m] = Window THEN Window ELSE since[m] + 1]
  /\ UNCHANGED <<queueSize, cmdCh, done, pc, reported, callVars, history>>

-----------------------------------------------------------------------------
Next ==
  \/ \E c \in Callers :
       \/ \E m \in Msgs : CallPrintf(c, m)
       \/ CallClose(c) \/ Send(c) \/ SendAfterDone(c) \/ CloseReturns(c)
       \/ ReceiveFromSender(c)
  \/ ReceiveBuffered \/ ReceiveTick \/ CloseDone
  \/ Clock

Spec == Init /\ [][Next]_vars

(***************************************************************************)
(* A runnable goroutine is eventually scheduled, time passes and the       *)
(* ticker ticks.  serve's select picks uniformly among the ready cases,    *)
(* and senders are served in order: SF for those that compete.  Nobody has *)
(* to call anything.                                                       *)
(***************************************************************************)
Fairness ==
  /\ WF_vars(ReceiveBuffered) /\ WF_vars(ReceiveTick) /\ WF_vars(CloseDone)
  /\ WF_vars(Clock)
  /\ \A c \in Callers : /\ SF_vars(Send(c)) /\ SF_vars(ReceiveFromSender(c))
                        /\ WF_vars(SendAfterDone(c)) /\ WF_vars(CloseReturns(c))

FairSpec == Spec /\ Fairness

-----------------------------------------------------------------------------
(***************************************************************************)
(* Properties.                                                             *)
(***************************************************************************)
TypeOK ==
  /\ queueSize \in QueueSizes
  /\ cmdCh \in Seq(Cmds) /\ Len(cmdCh) <= queueSize
  /\ done \in BOOLEAN /\ closing \in BOOLEAN
  /\ pc \in {"select", "return", "ended"}
  /\ DOMAIN lastMsgs \subseteq Msgs
  /\ \A m \in DOMAIN lastMsgs :
       lastMsgs[m] \in [left : 0 .. Window, suppressed : Nat]
  /\ caller \in [Callers -> {"idle", "send", "close"}]
  /\ cmd \in [Callers -> Cmds]
  /\ calls \in 0 .. MaxCalls
  /\ since \in [Msgs -> 0 .. Window]
  /\ reported \in [Msgs -> Nat] /\ early \in [Msgs -> Nat]

(* The copies of a message that wait in the channel ahead of any Close. *)
Waiting(m) ==
  Cardinality({i \in DOMAIN cmdCh : /\ pc = "select"
                                    /\ cmdCh[i] = m
                                    /\ \A j \in 1 .. i : cmdCh[j] # dedupCmdClose})

(* Every message accepted ahead of the first Close is printed once, be it  *)
(* by its own line or in the count of one, or waits for that: no count is  *)
(* lost when its entry goes or doubled when it stays.  Once done is        *)
(* closed, which is what Close returns upon, none of them waits.           *)
MessagesAccounted ==
  /\ \A m \in Msgs :
       early[m] = reported[m] + Waiting(m)
                  + IF m \in DOMAIN lastMsgs THEN lastMsgs[m].suppressed ELSE 0
  /\ done => reported = early

(* Two lines with the same message are a window apart, whether it comes    *)
(* back as a count, after its entry was deleted or by itself; only Close   *)
(* prints what there is at once.                                           *)
OneLinePerWindow ==
  [][\A m \in Msgs :
       reported'[m] # reported[m] /\ pc' = "select" => since[m] = Window]_vars

(* Printf and Close return, whichever of them comes first, and however     *)
(* often Close is called: a full channel, serve gone, both at once.        *)
CallsReturn == \A c \in Callers : caller[c] # "idle" ~> caller[c] = "idle"

(* A message that is not repeated any more has its count printed and its   *)
(* entry deleted: the table does not grow for ever.                        *)
EntriesForgotten ==
  \A m \in Msgs : m \in DOMAIN lastMsgs ~> m \notin DOMAIN lastMsgs

=============================================================================
