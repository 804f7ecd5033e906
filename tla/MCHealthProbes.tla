--------------------------- MODULE MCHealthProbes ---------------------------
(* Instances of HealthProbes for TLC. *)
EXTENDS HealthProbes

CONSTANTS b1, b2, b3

\* A gated pool as wide as the slots, three members that need no check, no route.
MCTables == {[members |-> <<b1, b2>>,     gated |-> TRUE],
             [members |-> <<b1, b2, b3>>, gated |-> FALSE],
             NoRoutes}

\* Two gated tables for the liveness run.
MCLiveTables == {[members |-> <<b1, b2>>, gated |-> TRUE],
                 [members |-> <<b2>>,     gated |-> TRUE]}
=============================================================================
