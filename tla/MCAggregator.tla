---------------------------- MODULE MCAggregator ----------------------------
(***************************************************************************)
(* Aggregator with a window of two seconds, two request kinds, a channel   *)
(* of one message and two concurrent callers of getSnapshot.  Two ticks    *)
(* move what was recorded first out of the window of the histograms.       *)
(***************************************************************************)
EXTENDS Aggregator

CONSTANTS Ok, Overload, AddKind, SubKind, samplesCh,
          g1, g2, r1, r2    \* Model values.

MCRequestKinds == {Ok, Overload}
MCDurationKinds == {AddKind, SubKind}
MCChannels == {samplesCh}
MCGetters == {g1, g2}
MCRecorders == {r1}

\* For the liveness run: rivals for the channel, and nothing to count.
MCOneKind == {Ok}
MCTwoRecorders == {r1, r2}

Batch(short, long) ==
  [ch   |-> samplesCh,
   vals |-> [k \in MCDurationKinds |->
               IF k = AddKind THEN [short |-> short + long, long |-> 0]
                              ELSE [short |-> short, long |-> long]]]

MCMessages == {Batch(1, 1)}

=============================================================================
