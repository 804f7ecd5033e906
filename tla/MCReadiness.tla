----------------------------- MODULE MCReadiness -----------------------------
(* An instance of Readiness, and with it of PollingResource, for TLC. *)
EXTENDS Readiness

\* Checks that ran, that never did, and that were stopped with a last state.
MCSnapshot == [v \in Versions |->
    CASE v = 0 -> [running |-> TRUE, state |-> "ready", age |-> 1]
      [] v = 1 -> [running |-> FALSE, state |-> "ready", age |-> 0]
      [] OTHER -> [running |-> TRUE, state |-> "unknown", age |-> NotChecked]]
=============================================================================
