----------------------------- MODULE MCActivity -----------------------------
(* An instance of ActivityPage, and with it of RequestStats, for TLC.        *)
EXTENDS ActivityPage, TLC

\* A request that is answered, one whose backend fails, one that finds none, one of the
\* dashboard.
MCKinds ==
    {[host |-> "app", target |-> "backend", failed |-> FALSE, ms |-> 1],
     [host |-> "app", target |-> "backend", failed |-> TRUE, ms |-> 1],
     [host |-> "app", target |-> "none", failed |-> TRUE, ms |-> 0],
     [host |-> "pintle", target |-> "none", failed |-> TRUE, ms |-> 0]}

\* A report and the page only read the books, and not one another: while a report is
\* made the page has not yet got a list.
OneReader == report = <<>> \/ requests = Nothing

MCSymmetry == Permutations(Workers)
=============================================================================
