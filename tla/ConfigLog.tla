------------------------------ MODULE ConfigLog ------------------------------
(***************************************************************************)
(* What the configuration pipeline promises, without its channels and      *)
(* locks.  Accepted provider messages form a log; each entry is the whole  *)
(* configuration after one provider's slot was replaced.  The consumer may *)
(* skip entries, since only the latest configuration matters, but it never *)
(* goes back and never sees a configuration that was not accepted.         *)
(***************************************************************************)
EXTENDS Naturals, Sequences

CONSTANTS
    Providers,
    Versions     \* versions of what a provider publishes; 0 is "nothing yet"

VARIABLES
    log,         \* the accepted configurations, oldest first
    seen,        \* how far the consumer has got in the log
    applied      \* the configuration the consumer holds

vars == <<log, seen, applied>>

Nothing     == [p \in Providers |-> 0]
Config      == [Providers -> Versions \cup {0}]
Entry(l, i) == IF i = 0 THEN Nothing ELSE l[i]

Init ==
    /\ log = <<>>
    /\ seen = 0
    /\ applied = Nothing

\* A provider's slot is replaced; the other slots stay.
Register(p, v) ==
    /\ log' = Append(log, [Entry(log, Len(log)) EXCEPT ![p] = v])
    /\ UNCHANGED <<seen, applied>>

\* The consumer moves forward, by one entry or by several.
Deliver ==
    /\ \E i \in (seen + 1)..Len(log) : seen' = i /\ applied' = log[i]
    /\ UNCHANGED log

Next == Deliver \/ \E p \in Providers, v \in Versions : Register(p, v)

SafeSpec == Init /\ [][Next]_vars
Fairness == WF_vars(Deliver)
=============================================================================
