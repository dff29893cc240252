-------------------------- MODULE LatencyHistogram --------------------------
(***************************************************************************)
(* One latencyHistogram (src/scope_searchquery.go) shared by any number of *)
(* request goroutines calling RecordValue and the one logger goroutine     *)
(* calling AggregateAndReset.  RecordValue is a single atomic add; the     *)
(* reset visits the bins one at a time, swapping each to zero, so records  *)
(* interleave with every step of it.                                       *)
(***************************************************************************)
EXTENDS HistogramMath

CONSTANTS
  Values,       \* latencies a recording may carry
  MaxRecords    \* recordings made over the whole run

VARIABLES
  bins,      \* lh.bins
  sweep,     \* AggregateAndReset's locals: [active, i, countSoFar, snap]
  last,      \* the bins of the last cumulativeLatencyHistogram returned
  recorded   \* recordings made so far (bounds the model)

vars == <<bins, sweep, last, recorded>>

Zero == [b \in Bins |-> 0]

Idle == [active |-> FALSE, i |-> 0, countSoFar |-> 0, snap |-> Zero]

TypeOK ==
  /\ bins \in [Bins -> 0..MaxRecords]
  /\ sweep \in [active : BOOLEAN, i : 0..NumBuckets, countSoFar : 0..MaxRecords,
                snap : [Bins -> 0..MaxRecords]]
  /\ last \in [Bins -> 0..MaxRecords]
  /\ recorded \in 0..MaxRecords

Init ==
  /\ bins = Zero
  /\ sweep = Idle
  /\ last = Zero
  /\ recorded = 0

\* RecordValue: pick the bin, then atomic.AddUint64(&lh.bins[bin], 1).
RecordValue(v) ==
  /\ recorded < MaxRecords
  /\ bins' = [bins EXCEPT ![BinIndex(v)] = @ + 1]
  /\ recorded' = recorded + 1
  /\ UNCHANGED <<sweep, last>>

\* AggregateAndReset entry: a fresh snapshot array and countSoFar = 0.
BeginAggregate ==
  /\ ~sweep.active
  /\ sweep' = [Idle EXCEPT !.active = TRUE]
  /\ UNCHANGED <<bins, last, recorded>>

\* (mutant) the bin read with a load and never cleared.
SwapBinNoReset ==
  /\ sweep.active
  /\ sweep.i < NumBuckets
  /\ LET thisCount == bins[sweep.i]
         countSoFar == sweep.countSoFar + thisCount
     IN  sweep' = [sweep EXCEPT !.i = @ + 1, !.countSoFar = countSoFar,
                                !.snap[sweep.i] = countSoFar]
  /\ UNCHANGED <<bins, last, recorded>>

\* One loop iteration: thisCount := atomic.SwapUint64(&lh.bins[i], 0),
\* countSoFar += thisCount, bins[i] = countSoFar.
SwapBin ==
  /\ sweep.active
  /\ sweep.i < NumBuckets
  /\ LET thisCount == bins[sweep.i]
         countSoFar == sweep.countSoFar + thisCount
     IN  /\ bins' = [bins EXCEPT ![sweep.i] = 0]
         /\ sweep' = [sweep EXCEPT !.i = @ + 1, !.countSoFar = countSoFar,
                                   !.snap[sweep.i] = countSoFar]
  /\ UNCHANGED <<last, recorded>>

\* (mutant) the loop stops one bin early (i < len(lh.bins)-1).
EndAggregateEarly ==
  /\ sweep.active
  /\ sweep.i = NumBuckets - 1
  /\ last' = sweep.snap
  /\ sweep' = [sweep EXCEPT !.active = FALSE]
  /\ UNCHANGED <<bins, recorded>>

\* Loop exit: the cumulativeLatencyHistogram is returned (the call's locals
\* stay behind, dead, until the next call sets them afresh).
EndAggregate ==
  /\ sweep.active
  /\ sweep.i = NumBuckets
  /\ last' = sweep.snap
  /\ sweep' = [sweep EXCEPT !.active = FALSE]
  /\ UNCHANGED <<bins, recorded>>

Next ==
  \/ \E v \in Values : RecordValue(v)
  \/ BeginAggregate
  \/ SwapBin
  \/ EndAggregate

Spec == Init /\ [][Next]_vars

(***************************************************************************)
(* Refinement of HistogramInterval.  While a reset is under way the bins   *)
(* below i have been swapped: what was swapped out belongs to the closing  *)
(* interval and what has been added since belongs to the next one; the     *)
(* bins from i on still belong to the closing interval.                   *)
(***************************************************************************)
Swapped(b) == IF b = 0 THEN sweep.snap[0] ELSE sweep.snap[b] - sweep.snap[b - 1]

Done(b) == sweep.active /\ b < sweep.i

HI == INSTANCE HistogramInterval WITH
        gen <- [b \in Bins |-> IF Done(b) THEN Swapped(b) ELSE bins[b]],
        nxt <- [b \in Bins |-> IF Done(b) THEN bins[b] ELSE 0],
        sweeping <- sweep.active,
        snap <- last

\* Concurrent RecordValue calls and AggregateAndReset never lose or double
\* count a value: every behaviour is one of HistogramInterval, where each
\* recording is in exactly one interval and each snapshot is the cumulative
\* view of its whole interval.
ImplementsHistogramInterval == HI!Spec
=============================================================================
