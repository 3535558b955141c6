-------------------------------- MODULE Report --------------------------------
(***************************************************************************)
(* metrics.Printer: the text of the last report, kept for reportCacheTTL   *)
(* and made anew from the aggregator's snapshot, which is itself reused    *)
(* for snapshotTTL.  Readers (handlers of GET /metrics) share the text and *)
(* write it out after the mutex is unlocked.  The aggregator is its cached *)
(* snapshot and the changes that serve makes to its data; how it answers   *)
(* is Aggregator's business.                                               *)
(***************************************************************************)
EXTENDS Integers, FiniteSets

CONSTANTS
  Readers,      \* Goroutines that call Print.
  snapshotTTL,  \* Both in steps of the clock.
  reportCacheTTL,
  MaxChanges    \* Bound of the model: so many changes of the data.

ASSUME ReportAssumption ==
  /\ IsFiniteSet(Readers)
  /\ snapshotTTL \in Nat /\ reportCacheTTL \in Nat
  /\ snapshotTTL + reportCacheTTL > 0
  /\ MaxChanges \in Nat

VARIABLES
  snapValid,      \* snap.valid.
  Version,        \* snap.Version.
  snapLeft,       \* The time left until snap.deadline (0: it has come).
  ended,          \* serve has ended and closed done.
  cacheVersion,   \* The Printer's fields; cache is the buffer of the text,
  cache,          \* 0 for none.
  cacheLeft,      \* The time left until cacheDeadline.
  text,           \* The version of the report that each buffer holds.
  at,             \* Each reader: "idle", before r.mu ("lock"), holding it with
                  \* a snapshot to "ask" for or to "fill" in, in w.Write.
  buf,            \* The buffer a reader writes out.
  changes,        \* How often the data changed (bounded by MaxChanges).
  lag             \* History: how long ago the first change happened that the
                  \* report of a version lacks; -1 if it lacks none.

snapshotVars == <<snapValid, Version, snapLeft, ended, changes>>
cacheVars    == <<cacheVersion, cache, cacheLeft, text>>
printerVars  == <<snapshotVars, cacheVars, at, buf, lag>>

-----------------------------------------------------------------------------
(* Buffers are garbage collected: there is always one more than are held.  *)
Buffers == 1 .. Cardinality(Readers) + 2

Bound == snapshotTTL + reportCacheTTL

(* Lags beyond the bound are not told apart. *)
Older(n) == IF n \in 0 .. Bound THEN n + 1 ELSE n

PrinterInit ==
  /\ snapValid = FALSE /\ Version = 0 /\ snapLeft = 0 /\ ended = FALSE
  /\ cacheVersion = 0 /\ cache = 0 /\ cacheLeft = 0
  /\ text = [b \in Buffers |-> 0]
  /\ at = [r \in Readers |-> "idle"]
  /\ buf = [r \in Readers |-> 0]
  /\ changes = 0
  /\ lag = [v \in 0 .. MaxChanges + 1 |-> IF v = 0 THEN Bound + 1 ELSE -1]

-----------------------------------------------------------------------------
(* The aggregator records something or rotates its windows. *)
Change ==
  /\ ~ended
  /\ changes < MaxChanges
  /\ changes' = changes + 1
  /\ snapValid' = FALSE
  /\ lag' = [v \in DOMAIN lag |-> IF v <= Version /\ lag[v] = -1 THEN 0 ELSE lag[v]]
  /\ UNCHANGED <<Version, snapLeft, ended, cacheVars, at, buf>>

ServeEnds ==
  /\ ~ended
  /\ ended' = TRUE
  /\ UNCHANGED <<snapValid, Version, snapLeft, changes, cacheVars, at, buf, lag>>

(* makeSnapshot. *)
newSnapshot ==
  /\ Version' = Version + 1
  /\ snapLeft' = snapshotTTL
  /\ snapValid' = TRUE

(* serve answers, or getSnapshot finds done closed. *)
NeedsSnapshot == ~snapValid /\ (ended \/ snapLeft = 0)

-----------------------------------------------------------------------------
(* Who holds r.mu keeps it while it asks and fills. *)
Unlocked == \A r \in Readers : at[r] \notin {"ask", "fill"}

CallPrint(r) ==
  /\ at[r] = "idle"
  /\ at' = [at EXCEPT ![r] = "lock"]
  /\ UNCHANGED <<snapshotVars, cacheVars, buf, lag>>

HandOut(r, b) ==
  /\ at' = [at EXCEPT ![r] = "write"]
  /\ buf' = [buf EXCEPT ![r] = b]

CacheHit(r) ==
  /\ at[r] = "lock" /\ Unlocked
  /\ cacheLeft > 0
  /\ HandOut(r, cache)
  /\ UNCHANGED <<snapshotVars, cacheVars, lag>>

CacheMiss(r) ==
  /\ at[r] = "lock" /\ Unlocked
  /\ cacheLeft = 0
  /\ at' = [at EXCEPT ![r] = "ask"]
  /\ UNCHANGED <<snapshotVars, cacheVars, buf, lag>>

getSnapshot(r) ==
  /\ at[r] = "ask"
  /\ at' = [at EXCEPT ![r] = "fill"]
  /\ \/ NeedsSnapshot /\ newSnapshot
     \/ ~NeedsSnapshot /\ UNCHANGED <<Version, snapLeft, snapValid>>
  /\ UNCHANGED <<ended, changes, cacheVars, buf, lag>>

(* A bug to tell apart: the buffer of the last text is used again. *)
LastBuffer == IF cache = 0 THEN 1 ELSE cache

NewBuffer == CHOOSE b \in Buffers : b # cache /\ \A r \in Readers : b # buf[r]

(* The callback, unless the text is already that of this snapshot. *)
printReport ==
  /\ Version # cacheVersion
  /\ cache' = NewBuffer
  /\ text' = [text EXCEPT ![NewBuffer] = Version]
  /\ cacheVersion' = Version

Fill(r) ==
  /\ at[r] = "fill"
  /\ \/ printReport
     \/ Version = cacheVersion /\ UNCHANGED <<cache, text, cacheVersion>>
  /\ cacheLeft' = reportCacheTTL
  /\ HandOut(r, cache')
  /\ UNCHANGED <<snapshotVars, lag>>

WriteReturns(r) ==
  /\ at[r] = "write"
  /\ at' = [at EXCEPT ![r] = "idle"]
  /\ buf' = [buf EXCEPT ![r] = 0]
  /\ UNCHANGED <<snapshotVars, cacheVars, lag>>

Left(n) == IF n = 0 THEN 0 ELSE n - 1

(* Time passes, not while a report is made: it takes no time worth a step. *)
Clock ==
  /\ Unlocked
  /\ snapLeft' = Left(snapLeft) /\ cacheLeft' = Left(cacheLeft)
  /\ lag' = [v \in DOMAIN lag |-> Older(lag[v])]
  /\ UNCHANGED <<snapValid, Version, ended, changes, cacheVersion, cache, text, at, buf>>

-----------------------------------------------------------------------------
ServeReader(r) ==
  \/ CallPrint(r) \/ CacheHit(r) \/ CacheMiss(r) \/ getSnapshot(r) \/ Fill(r)
  \/ WriteReturns(r)

PrinterNext == Change \/ ServeEnds \/ Clock \/ \E r \in Readers : ServeReader(r)

PrinterSpec == PrinterInit /\ [][PrinterNext]_printerVars

-----------------------------------------------------------------------------
(***************************************************************************)
(* Properties.                                                             *)
(***************************************************************************)
(* A reader is never handed a report that lacks something older than both  *)
(* TTLs together, nor the empty text from before the first report, and the *)
(* text does not change while the reader writes it out, although others    *)
(* have made new reports meanwhile.                                        *)
ReportsCurrent ==
  [][\A r \in Readers :
       at'[r] = "write" =>
         IF at[r] = "write" THEN text'[buf[r]] = text[buf[r]]
                            ELSE lag'[text'[buf'[r]]] < Bound]_printerVars

=============================================================================
