------------------------------ MODULE MeterLog ------------------------------
(***************************************************************************)
(* What the aggregating meter promises, per service: a latency recorded    *)
(* under a service is counted in at most one logged output, and under      *)
(* that service; each output logs, for every service, some of the values   *)
(* recorded under it and not logged yet; once logging has stopped nothing  *)
(* more is logged, while recording goes on.                                *)
(***************************************************************************)
EXTENDS Naturals

CONSTANTS Services

VARIABLES
  unlogged,  \* unlogged[s]: values recorded under s and not logged yet
  logged,    \* logged[s]: values of s counted in logged outputs
  logging    \* the meter still logs

vars == <<unlogged, logged, logging>>

Init ==
  /\ unlogged = [s \in Services |-> 0]
  /\ logged = [s \in Services |-> 0]
  /\ logging = TRUE

\* A value is recorded under service s.
Record(s) ==
  /\ unlogged' = [unlogged EXCEPT ![s] = @ + 1]
  /\ UNCHANGED <<logged, logging>>

\* An output is logged: for each service, part of what was unlogged.
Log ==
  /\ logging
  /\ logged' \in [Services -> Nat]
  /\ \A s \in Services : logged'[s] - logged[s] \in 0..unlogged[s]
  /\ unlogged' = [s \in Services |-> unlogged[s] - (logged'[s] - logged[s])]
  /\ UNCHANGED logging

\* The meter stops logging.
Stop ==
  /\ logging
  /\ logging' = FALSE
  /\ UNCHANGED <<unlogged, logged>>

Next == (\E s \in Services : Record(s)) \/ Log \/ Stop

Spec == Init /\ [][Next]_vars
=============================================================================
