----------------------------- MODULE Connection -----------------------------
(***************************************************************************)
(* One connection of the SNI router (internal/server/sni.go) or of a port  *)
(* of the TCP router (internal/server/tcp.go): the first read, the choice  *)
(* of what it is for, the dial, and two goroutines that copy.              *)
(*                                                                         *)
(* The peers send pieces, of which the first HelloSize of the client make  *)
(* up its ClientHello.  A peer may end its half of the connection, or      *)
(* close it, and then answers what it is still sent with a reset.  What    *)
(* the router looks up, under locks of others and one after the other,     *)
(* are facts about the name in the hello, which reloads change.            *)
(*                                                                         *)
(* ParseSNI is its result: a name if the first read has the whole record   *)
(* and there is one in it.  A certificate that does not parse is a failed  *)
(* handshake.  A peer that is sent something reads it or closes.           *)
(***************************************************************************)
EXTENDS Naturals

CONSTANTS
    HelloSize,  \* pieces of a ClientHello
    MaxPieces,  \* bound: pieces that a peer sends
    MaxReloads  \* bound: facts that change while the router decides

ASSUME ConnectionAssumption ==
    /\ HelloSize \in Nat \ {0} /\ MaxPieces \in Nat /\ MaxPieces >= HelloSize
    /\ MaxReloads \in Nat

Peers == {"client", "upstream"}

\* The router's HasHost; that of the passthrough targets the first one that matches
\* resolves; a TCP route with this port and name; a certificate for the name.
Facts == {"route", "address", "tcpRoute", "cert"}

VARIABLES
    \* The connection: who accepted it, whether the hello names a host, and whether one of
    \* the domains the SNI router was started with matches.
    router, naming, listed,
    \* The environment.
    known, reloads,
    always, ever,   \* history: facts that held at all times, or once, since the first read
    ended,          \* peers that send nothing more
    deaf,           \* peers that do not read any more
    reset,          \* peers that have sent a reset
    sent,           \* by peer: the pieces it has sent
    \* The router.
    phase, named, target,
    waiting,        \* by peer: its pieces that were not read
    buffer,         \* by peer: its pieces that were read and not written
    written,        \* by peer: its pieces that were written to the other
    copier,         \* by peer: the goroutine that reads from it
    open            \* the peers to which the router's socket is open

given   == <<router, naming, listed>>
facts   == <<known, reloads, always, ever>>
peers   == <<ended, deaf, reset>>
streams == <<sent, waiting, buffer, written>>
vars == <<given, facts, peers, streams, phase, named, target, copier, open>>

Other(p) == CHOOSE q \in Peers : q # p

None == [p \in Peers |-> 0]

Init ==
    /\ router \in {"sni", "tcp"} /\ naming \in BOOLEAN /\ listed \in BOOLEAN
    /\ known \in SUBSET (IF router = "sni" THEN {"route", "address"} ELSE {"tcpRoute", "cert"})
    /\ reloads = 0 /\ always = {} /\ ever = {}
    /\ ended = {} /\ deaf = {} /\ reset = {}
    /\ sent = None /\ waiting = None /\ buffer = None /\ written = None
    /\ phase = "reading" /\ named = FALSE /\ target = "none"
    /\ copier = [p \in Peers |-> "none"]
    /\ open = {"client"}

-----------------------------------------------------------------------------
(* handleConnection *)

Go(next) == phase' = next /\ UNCHANGED open

\* Close what is open.
Refuse == phase' = "closed" /\ open' = {}

\* The first Read returns what has arrived, an error if nothing will.
ReadHello ==
    /\ phase = "reading"
    /\ \/ /\ waiting["client"] = 0 /\ "client" \in ended
          /\ Refuse
          /\ UNCHANGED <<named, always, ever, waiting, buffer>>
       \/ \E n \in 1 .. waiting["client"] :
             /\ waiting' = [waiting EXCEPT !["client"] = @ - n]
             /\ buffer' = [buffer EXCEPT !["client"] = n]
             /\ named' = (naming /\ n >= HelloSize)
             /\ always' = known /\ ever' = known
             /\ IF router = "tcp" /\ ~named' THEN Refuse ELSE Go("looking")
    /\ UNCHANGED <<given, known, reloads, peers, sent, written, target, copier>>

\* Mutant: passthrough domains come first.
NeverExplicit == FALSE

\* "Explicit local routes take precedence over passthrough domains."
Explicit == "route" \in known

\* HasLocalRoute, then the first target that matches; in the TCP router the route.
LookUp ==
    /\ phase = "looking"
    /\ CASE router = "sni" ->
                IF named /\ ~Explicit /\ listed
                THEN Go("resolving") /\ UNCHANGED target
                ELSE Go("dialling") /\ target' = "local"
         [] router = "tcp" ->
                /\ IF "tcpRoute" \in known THEN Go("resolving") ELSE Refuse
                /\ UNCHANGED target
    /\ UNCHANGED <<given, facts, peers, streams, named, copier>>

\* The target's address, and without one this host; in the TCP router the certificate.
Resolve ==
    /\ phase = "resolving"
    /\ CASE router = "sni" ->
                /\ Go("dialling")
                /\ target' = IF "address" \in known THEN "passed" ELSE "local"
         [] router = "tcp" ->
                IF "cert" \in known THEN Go("handshake") /\ target' = "route"
                ELSE Refuse /\ UNCHANGED target
    /\ UNCHANGED <<given, facts, peers, streams, named, copier>>

\* The handshake replays the hello from the buffer and keeps it.
Handshake ==
    /\ phase = "handshake"
    /\ \/ /\ "client" \notin ended
          /\ Go("dialling")
          /\ buffer' = [buffer EXCEPT !["client"] = 0]
          /\ written' = [written EXCEPT !["client"] = buffer["client"]]
       \/ Refuse /\ UNCHANGED <<buffer, written>>
    /\ UNCHANGED <<given, facts, peers, sent, waiting, named, target, copier>>

StartCopying ==
    /\ phase' = "copying"
    /\ copier' = [p \in Peers |-> "read"]

\* Without an answer the client is turned away: there is no second target.
Dial ==
    /\ phase = "dialling"
    /\ \/ /\ open' = Peers
          /\ IF router = "sni" THEN phase' = "greeting" /\ UNCHANGED copier ELSE StartCopying
       \/ Refuse /\ UNCHANGED copier
    /\ UNCHANGED <<given, facts, peers, streams, named, target>>

\* Mutant: the bytes that were read to find the name are dropped.
DropHello == UNCHANGED written

PassOn == written' = [written EXCEPT !["client"] = buffer["client"]]

\* What was read for the name goes first.
WriteHello ==
    /\ phase = "greeting"
    /\ \/ /\ PassOn
          /\ buffer' = [buffer EXCEPT !["client"] = 0]
          /\ reset' = reset \cup ({"upstream"} \cap deaf)
          /\ StartCopying /\ UNCHANGED open
       \/ "upstream" \in deaf /\ Refuse /\ UNCHANGED <<written, buffer, reset, copier>>
    /\ UNCHANGED <<given, facts, ended, deaf, sent, waiting, named, target>>

Handle == ReadHello \/ LookUp \/ Resolve \/ Handshake \/ Dial \/ WriteHello

-----------------------------------------------------------------------------
(* io.Copy from p, and the close of the other side that follows it *)

\* Mutant: the side is closed that was read.
ClosesSource(p) == p

Closes(p) == Other(p)

EndCopy(p) ==
    /\ copier' = [copier EXCEPT ![p] = "done"]
    /\ open' = open \ {Closes(p)}
    /\ UNCHANGED <<reset, waiting, buffer, written>>

Take(p) == \E n \in 1 .. waiting[p] :
    /\ copier[p] = "read" /\ p \in open
    /\ waiting' = [waiting EXCEPT ![p] = @ - n]
    /\ buffer' = [buffer EXCEPT ![p] = n]
    /\ copier' = [copier EXCEPT ![p] = "write"]
    /\ UNCHANGED <<reset, written, open>>

\* Mutant: what arrived before the end is not read any more.
EndSeen(p) == p \in ended

AtEnd(p) == p \in ended /\ waiting[p] = 0

\* The end, a reset, or a socket that the other goroutine has closed.
Stop(p) ==
    /\ copier[p] = "read"
    /\ p \notin open \/ p \in reset \/ AtEnd(p)
    /\ EndCopy(p)

\* The first write to a peer that has closed succeeds, and draws a reset.
Put(p) ==
    /\ copier[p] = "write"
    /\ IF Other(p) \in open \ reset
       THEN /\ written' = [written EXCEPT ![p] = @ + buffer[p]]
            /\ buffer' = [buffer EXCEPT ![p] = 0]
            /\ copier' = [copier EXCEPT ![p] = "read"]
            /\ reset' = reset \cup ({Other(p)} \cap deaf)
            /\ UNCHANGED <<waiting, open>>
       ELSE EndCopy(p)

Copy(p) ==
    /\ Take(p) \/ Stop(p) \/ Put(p)
    /\ UNCHANGED <<given, facts, ended, deaf, sent, phase, named, target>>

-----------------------------------------------------------------------------
(* The environment *)

\* A client goes on after its hello when the handshake is over.
MaySend(p) ==
    /\ p \notin ended /\ sent[p] < MaxPieces
    /\ p = "upstream" => "upstream" \in open
    /\ (p = "client" /\ router = "tcp" /\ phase \in {"reading", "looking", "resolving", "handshake"})
           => sent[p] < HelloSize

Send(p) ==
    /\ MaySend(p)
    /\ sent' = [sent EXCEPT ![p] = @ + 1]
    /\ waiting' = [waiting EXCEPT ![p] = @ + 1]
    /\ UNCHANGED <<given, facts, peers, buffer, written, phase, named, target, copier, open>>

\* A peer ends its half, or closes.  The upstream is there from the dial on.
Leave(p) ==
    /\ p = "upstream" => copier[p] # "none" \/ phase = "greeting"
    /\ \/ p \notin ended /\ ended' = ended \cup {p} /\ UNCHANGED deaf
       \/ p \notin deaf /\ ended' = ended \cup {p} /\ deaf' = deaf \cup {p}
    /\ UNCHANGED <<given, facts, reset, streams, phase, named, target, copier, open>>

\* A reload changes a fact.  Later ones do not matter: nothing looks a fact up again.
Reload == \E f \in Facts :
    /\ phase \in {"reading", "looking", "resolving"} /\ reloads < MaxReloads
    /\ f \in (IF router = "sni" THEN {"route", "address"} ELSE {"tcpRoute", "cert"})
    /\ reloads' = reloads + 1
    /\ known' = IF f \in known THEN known \ {f} ELSE known \cup {f}
    /\ always' = always \cap known' /\ ever' = ever \cup known'
    /\ UNCHANGED <<given, peers, streams, phase, named, target, copier, open>>

Next ==
    \/ Handle
    \/ \E p \in Peers : Copy(p) \/ Send(p) \/ Leave(p)
    \/ Reload

Spec == Init /\ [][Next]_vars

\* Goroutines are scheduled.  Nothing obliges a peer or a reload.
FairSpec == Spec /\ WF_vars(Handle) /\ \A p \in Peers : WF_vars(Copy(p))

-----------------------------------------------------------------------------
(* Properties *)

TypeOK ==
    /\ router \in {"sni", "tcp"} /\ naming \in BOOLEAN /\ listed \in BOOLEAN
    /\ known \subseteq Facts /\ always \subseteq Facts /\ ever \subseteq Facts
    /\ reloads \in 0 .. MaxReloads
    /\ ended \subseteq Peers /\ deaf \subseteq ended /\ reset \subseteq deaf
    /\ sent \in [Peers -> 0 .. MaxPieces] /\ waiting \in [Peers -> 0 .. MaxPieces]
    /\ buffer \in [Peers -> 0 .. MaxPieces] /\ written \in [Peers -> 0 .. MaxPieces]
    /\ phase \in {"reading", "looking", "resolving", "handshake", "dialling", "greeting",
                  "copying", "closed"}
    /\ named \in BOOLEAN /\ target \in {"none", "local", "passed", "route"}
    /\ copier \in [Peers -> {"none", "read", "write", "done"}]
    /\ open \subseteq Peers

\* A connection goes where some moment since its first read sends it, although the two
\* look-ups may see two configurations: a host with a route of its own all the while is
\* never passed through, one that is listed and whose target resolves all the while never
\* kept, and the TCP router turns none away that had a route and a certificate all the while
\* (sni.go:178-198, tcp.go:114-135).
TargetFitsAMoment ==
    /\ target = "passed" => named /\ listed /\ "route" \notin always /\ "address" \in ever
    /\ target = "local" =>
           ~named \/ ~listed \/ "route" \in ever \/ "address" \notin always
    /\ target = "route" => named /\ {"tcpRoute", "cert"} \subseteq ever
    /\ (router = "tcp" /\ phase = "closed" /\ named /\ target = "none")
           => ~({"tcpRoute", "cert"} \subseteq always)

\* The side that ends first is heard in full, the hello included, before the other is
\* closed, unless it does not read what the other still sends (sni.go:112-127,
\* tcp.go:169-176).  What the other has yet to answer may be lost: the end of one
\* direction closes both.
FirstToEndIsHeard ==
    \A p \in Peers :
        copier[p] = "done" /\ p \in ended \ reset /\ Other(p) \notin ended
            => written[p] = sent[p]

\* Where a connection goes, and that nothing is missing on the way.
ConnectionsAreHonest == TypeOK /\ TargetFitsAMoment /\ FirstToEndIsHeard

\* When either side has ended, both sockets are closed in the end and both goroutines
\* are gone, in whichever phase it happens.
EndsTogether ==
    ended # {} ~> (open = {} /\ \A p \in Peers : copier[p] \in {"none", "done"})
=============================================================================
