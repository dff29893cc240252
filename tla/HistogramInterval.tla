-------------------------- MODULE HistogramInterval --------------------------
(***************************************************************************)
(* What a latency histogram promises its users (spec section 5): every     *)
(* recorded value is counted in exactly one interval's snapshot.  A reset  *)
(* is not linearizable: a value recorded while a reset is under way may    *)
(* land in the interval being closed or in the next one, never in both     *)
(* and never in neither.  A snapshot is the cumulative view of the         *)
(* interval it closes.                                                     *)
(***************************************************************************)
EXTENDS HistogramMath

VARIABLES
  gen,       \* raw counts per bin of the interval that the next snapshot closes
  nxt,       \* counts already attributed to the interval after it
  sweeping,  \* a reset has begun and not yet produced its snapshot
  snap       \* the last snapshot produced

vars == <<gen, nxt, sweeping, snap>>

Zero == [b \in Bins |-> 0]

Init ==
  /\ gen = Zero
  /\ nxt = Zero
  /\ sweeping = FALSE
  /\ snap = Zero

\* A value whose bin is b is recorded.
Record(b) ==
  \/ /\ gen' = [gen EXCEPT ![b] = @ + 1]
     /\ UNCHANGED <<nxt, sweeping, snap>>
  \/ /\ sweeping
     /\ nxt' = [nxt EXCEPT ![b] = @ + 1]
     /\ UNCHANGED <<gen, sweeping, snap>>

BeginReset ==
  /\ ~sweeping
  /\ sweeping' = TRUE
  /\ UNCHANGED <<gen, nxt, snap>>

EndReset ==
  /\ sweeping
  /\ snap' = Cumulative(gen)
  /\ gen' = nxt
  /\ nxt' = Zero
  /\ sweeping' = FALSE

Next ==
  \/ \E b \in Bins : Record(b)
  \/ BeginReset
  \/ EndReset

Spec == Init /\ [][Next]_vars
=============================================================================
