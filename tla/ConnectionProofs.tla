-------------------------- MODULE ConnectionProofs --------------------------
(***************************************************************************)
(* Proofs about Connection for every size of a hello and every bound on    *)
(* the pieces and the reloads.                                             *)
(*                                                                         *)
(* The inductive invariant IInv says that no piece is lost or made up on   *)
(* the way (BytesInv), that a socket of a pair that copies is closed only  *)
(* by the goroutine that writes to it (PhaseInv), what the look-ups have   *)
(* left to be decided (DecisionInv), and that a goroutine ends on its own  *)
(* account only when its peer has ended and was read (EndsInv).            *)
(***************************************************************************)
EXTENDS Connection, TLAPS

\* Goroutines exist while copying, and each closes the side that it writes to.
PhaseInv ==
    /\ \A p \in Peers : copier[p] = "none" <=> phase # "copying"
    /\ phase = "greeting" => open = Peers
    /\ phase = "copying" => \A p \in Peers : p \notin open => copier[Other(p)] = "done"

\* Every piece that was sent waits, is held, or was written.
BytesInv ==
    /\ \A p \in Peers : sent[p] = waiting[p] + buffer[p] + written[p]
    /\ \A p \in Peers : copier[p] = "read" => buffer[p] = 0
    /\ copier["upstream"] = "none" => buffer["upstream"] = 0
    /\ phase = "reading" => buffer["client"] = 0
    /\ phase \in {"reading", "looking", "resolving", "handshake", "greeting"} =>
           written["client"] = 0
    /\ (phase = "dialling" /\ router = "sni") => written["client"] = 0
    /\ (phase = "dialling" /\ router = "tcp") => buffer["client"] = 0
    /\ phase = "handshake" => router = "tcp"

\* What is known of the facts while the router decides.
DecisionInv ==
    /\ phase = "reading" => target = "none" /\ ~named
    /\ phase \in {"looking", "resolving"} =>
           target = "none" /\ always \subseteq known /\ known \subseteq ever
    /\ phase = "resolving" /\ router = "sni" => named /\ listed /\ "route" \notin always
    /\ phase = "resolving" /\ router = "tcp" => "tcpRoute" \in ever
    /\ phase \in {"looking", "resolving"} /\ router = "tcp" => named
    /\ phase \in {"handshake", "dialling", "greeting", "copying"} => target # "none"

\* While its peer has not ended, a goroutine ends only because the other has; while the
\* other side goes on, only because its own peer has ended and was heard.
EndsInv ==
    /\ \A p \in Peers :
           copier[p] = "done" /\ p \notin ended /\ Other(p) \notin reset
               => copier[Other(p)] = "done"
    /\ \A p \in Peers :
           copier[p] = "done" /\ p \notin reset /\ Other(p) \notin ended
               => p \in ended /\ waiting[p] = 0 /\ buffer[p] = 0

IInv ==
    /\ TypeOK
    /\ PhaseInv
    /\ BytesInv
    /\ DecisionInv
    /\ TargetFitsAMoment
    /\ EndsInv

-----------------------------------------------------------------------------

\* There are two sides.
LEMMA OtherSide ==
    /\ Other("client") = "upstream"
    /\ Other("upstream") = "client"
    /\ \A p \in Peers : Other(p) \in Peers /\ Other(p) # p /\ Other(Other(p)) = p
  <1>1. Other("client") = "upstream"
    <2>1. \E q \in Peers : q # "client"
      BY DEF Peers
    <2> QED BY <2>1 DEF Other, Peers
  <1>2. Other("upstream") = "client"
    <2>1. \E q \in Peers : q # "upstream"
      BY DEF Peers
    <2> QED BY <2>1 DEF Other, Peers
  <1> QED BY <1>1, <1>2 DEF Peers

\* What ended first was heard: the part of IInv that the property needs.
LEMMA HeardFollows == ASSUME IInv PROVE FirstToEndIsHeard
  <1> SUFFICES ASSUME NEW p \in Peers, copier[p] = "done",
                      p \in ended \ reset, Other(p) \notin ended
               PROVE  written[p] = sent[p]
    BY DEF FirstToEndIsHeard
  <1>1. waiting[p] = 0 /\ buffer[p] = 0
    BY DEF IInv, EndsInv
  <1>2. written[p] \in Nat /\ sent[p] = waiting[p] + buffer[p] + written[p]
    BY ConnectionAssumption DEF IInv, TypeOK, BytesInv, ConnectionAssumption
  <1> QED BY <1>1, <1>2

LEMMA InitInv == Init => IInv
  <1> SUFFICES ASSUME Init PROVE IInv
    OBVIOUS
  <1>1. TypeOK
    <2>1. known \subseteq Facts
      BY DEF Init, Facts
    <2>2. 0 \in 0 .. MaxPieces /\ 0 \in 0 .. MaxReloads
      BY ConnectionAssumption DEF ConnectionAssumption
    <2>3. None \in [Peers -> 0 .. MaxPieces]
      BY <2>2 DEF None
    <2>4. ended \subseteq Peers /\ deaf \subseteq ended /\ reset \subseteq deaf /\ open \subseteq Peers
      BY DEF Init, Peers
    <2>5. always \subseteq Facts /\ ever \subseteq Facts
      BY DEF Init
    <2> QED BY <2>1, <2>2, <2>3, <2>4, <2>5 DEF Init, TypeOK
  <1>2. PhaseInv /\ BytesInv
    BY DEF Init, PhaseInv, BytesInv, None, Peers
  <1>3. DecisionInv /\ TargetFitsAMoment /\ EndsInv
    BY DEF Init, DecisionInv, TargetFitsAMoment, EndsInv
  <1> QED BY <1>1, <1>2, <1>3 DEF IInv

-----------------------------------------------------------------------------
(* handleConnection *)

LEMMA ReadHelloInv == ASSUME IInv, ReadHello PROVE IInv'
  <1> USE DEF IInv, ReadHello, given, peers, Go, Refuse
  <1>1. CASE waiting["client"] = 0 /\ "client" \in ended /\ Refuse
             /\ UNCHANGED <<named, always, ever, waiting, buffer>>
    <2>1. TypeOK'
      BY <1>1 DEF TypeOK
    <2>2. PhaseInv' /\ EndsInv'
      BY <1>1 DEF PhaseInv, EndsInv
    <2>3. BytesInv'
      BY <1>1 DEF BytesInv
    <2>4. DecisionInv' /\ TargetFitsAMoment'
      BY <1>1 DEF DecisionInv, TargetFitsAMoment
    <2> QED BY <2>1, <2>2, <2>3, <2>4
  <1>2. ASSUME NEW n \in 1 .. waiting["client"],
               waiting' = [waiting EXCEPT !["client"] = @ - n],
               buffer' = [buffer EXCEPT !["client"] = n],
               named' = (naming /\ n >= HelloSize),
               always' = known, ever' = known,
               IF router = "tcp" /\ ~named' THEN Refuse ELSE Go("looking")
        PROVE  IInv'
    <2>0. /\ waiting["client"] \in 0 .. MaxPieces /\ n \in 1 .. MaxPieces
          /\ waiting["client"] - n \in 0 .. MaxPieces
          /\ phase' \in {"closed", "looking"} /\ open' \subseteq open
      <3>1. waiting["client"] \in 0 .. MaxPieces
        BY DEF TypeOK, Peers
      <3>2. n \in 1 .. MaxPieces /\ waiting["client"] - n \in 0 .. MaxPieces
        BY <1>2, <3>1, ConnectionAssumption DEF ConnectionAssumption
      <3> QED BY <1>2, <3>1, <3>2
    <2>1. TypeOK'
      BY <1>2, <2>0, ConnectionAssumption DEF TypeOK, Peers, ConnectionAssumption
    <2>2. PhaseInv' /\ EndsInv'
      BY <1>2, <2>0 DEF PhaseInv, EndsInv, TypeOK, Peers
    <2>3. BytesInv'
      BY <1>2, <2>0, ConnectionAssumption DEF BytesInv, PhaseInv, TypeOK, Peers, ConnectionAssumption
    <2>4. DecisionInv' /\ TargetFitsAMoment'
      BY <1>2, <2>0 DEF DecisionInv, TargetFitsAMoment
    <2> QED BY <2>1, <2>2, <2>3, <2>4
  <1> QED BY <1>1, <1>2

LEMMA LookUpInv == ASSUME IInv, LookUp PROVE IInv'
  <1> USE DEF IInv, LookUp, given, facts, peers, streams, Go, Refuse
  <1>0. /\ router \in {"sni", "tcp"} /\ phase = "looking"
        /\ phase' \in {"resolving", "dialling", "closed"} /\ target' \in {target, "local"}
        /\ open' \subseteq open
    BY DEF TypeOK
  <1>1. TypeOK'
    BY <1>0 DEF TypeOK
  <1>2. PhaseInv' /\ EndsInv'
    BY <1>0 DEF PhaseInv, EndsInv, TypeOK
  <1>3. BytesInv'
    BY <1>0 DEF BytesInv
  <1>4. DecisionInv' /\ TargetFitsAMoment'
    BY <1>0 DEF DecisionInv, TargetFitsAMoment, Explicit
  <1> QED BY <1>1, <1>2, <1>3, <1>4

LEMMA ResolveInv == ASSUME IInv, Resolve PROVE IInv'
  <1> USE DEF IInv, Resolve, given, facts, peers, streams, Go, Refuse
  <1>0. /\ router \in {"sni", "tcp"} /\ phase = "resolving"
        /\ phase' \in {"handshake", "dialling", "closed"}
        /\ target' \in {target, "local", "passed", "route"}
        /\ open' \subseteq open
    BY DEF TypeOK
  <1>1. TypeOK'
    BY <1>0 DEF TypeOK
  <1>2. PhaseInv' /\ EndsInv'
    BY <1>0 DEF PhaseInv, EndsInv, TypeOK
  <1>3. BytesInv'
    BY <1>0 DEF BytesInv
  <1>4. DecisionInv' /\ TargetFitsAMoment'
    BY <1>0 DEF DecisionInv, TargetFitsAMoment
  <1> QED BY <1>1, <1>2, <1>3, <1>4

LEMMA HandshakeInv == ASSUME IInv, Handshake PROVE IInv'
  <1> USE DEF IInv, Handshake, given, facts, peers, Go, Refuse
  <1>0. /\ router = "tcp" /\ phase = "handshake" /\ phase' \in {"dialling", "closed"}
        /\ open' \subseteq open
        /\ buffer["client"] \in 0 .. MaxPieces /\ written["client"] = 0
    BY DEF TypeOK, BytesInv, Peers
  <1>1. TypeOK'
    BY <1>0, ConnectionAssumption DEF TypeOK, Peers, ConnectionAssumption
  <1>2. PhaseInv'
    BY <1>0 DEF PhaseInv, TypeOK
  <1>3. BytesInv'
    BY <1>0, ConnectionAssumption DEF BytesInv, PhaseInv, TypeOK, Peers, ConnectionAssumption
  <1>4. DecisionInv' /\ TargetFitsAMoment'
    BY <1>0 DEF DecisionInv, TargetFitsAMoment
  <1>5. EndsInv'
    BY <1>0 DEF EndsInv, PhaseInv
  <1> QED BY <1>1, <1>2, <1>3, <1>4, <1>5

LEMMA DialInv == ASSUME IInv, Dial PROVE IInv'
  <1> USE DEF IInv, Dial, given, facts, peers, streams, Refuse, StartCopying
  <1>0. /\ router \in {"sni", "tcp"} /\ phase = "dialling"
        /\ phase' \in {"greeting", "copying", "closed"} /\ open' \in SUBSET Peers
        /\ phase' = "greeting" => router = "sni" /\ open' = Peers
        /\ \/ copier' = copier /\ phase' # "copying"
           \/ /\ copier' = [p \in Peers |-> "read"]
              /\ phase' = "copying" /\ router = "tcp" /\ open' = Peers
    BY DEF TypeOK
  <1>1. TypeOK'
    BY <1>0 DEF TypeOK
  <1>2. PhaseInv'
    BY <1>0 DEF PhaseInv, TypeOK
  <1>3. BytesInv'
    BY <1>0 DEF BytesInv, PhaseInv, Peers
  <1>4. DecisionInv' /\ TargetFitsAMoment'
    BY <1>0 DEF DecisionInv, TargetFitsAMoment
  <1>5. EndsInv'
    BY <1>0 DEF EndsInv, PhaseInv
  <1> QED BY <1>1, <1>2, <1>3, <1>4, <1>5

LEMMA WriteHelloInv == ASSUME IInv, WriteHello PROVE IInv'
  <1> USE DEF IInv, WriteHello, given, facts, Refuse, StartCopying
  <1>1. CASE /\ PassOn
             /\ buffer' = [buffer EXCEPT !["client"] = 0]
             /\ reset' = reset \cup ({"upstream"} \cap deaf)
             /\ StartCopying /\ UNCHANGED open
    <2>0. /\ written' = [written EXCEPT !["client"] = buffer["client"]]
          /\ written["client"] = 0
          /\ buffer["client"] \in 0 .. MaxPieces /\ open = Peers
      BY <1>1 DEF PassOn, TypeOK, BytesInv, PhaseInv, Peers
    <2>1. TypeOK'
      BY <1>1, <2>0, ConnectionAssumption DEF TypeOK, Peers, ConnectionAssumption
    <2>2. PhaseInv'
      BY <1>1, <2>0 DEF PhaseInv
    <2>3. BytesInv'
      BY <1>1, <2>0, ConnectionAssumption DEF BytesInv, PhaseInv, TypeOK, Peers, ConnectionAssumption
    <2>4. DecisionInv' /\ TargetFitsAMoment'
      BY <1>1 DEF DecisionInv, TargetFitsAMoment
    <2>5. EndsInv'
      BY <1>1 DEF EndsInv
    <2> QED BY <2>1, <2>2, <2>3, <2>4, <2>5
  <1>2. CASE "upstream" \in deaf /\ Refuse /\ UNCHANGED <<written, buffer, reset, copier>>
    <2>1. TypeOK'
      BY <1>2 DEF TypeOK
    <2>2. PhaseInv' /\ EndsInv'
      BY <1>2 DEF PhaseInv, EndsInv
    <2>3. BytesInv'
      BY <1>2 DEF BytesInv
    <2>4. DecisionInv' /\ TargetFitsAMoment'
      BY <1>2 DEF DecisionInv, TargetFitsAMoment
    <2> QED BY <2>1, <2>2, <2>3, <2>4
  <1> QED BY <1>1, <1>2

-----------------------------------------------------------------------------
(* io.Copy *)

\* Copying decides nothing any more.
LEMMA CopyingDecided ==
    ASSUME IInv, UNCHANGED <<given, facts, phase, named, target>>
    PROVE  DecisionInv' /\ TargetFitsAMoment'
  BY DEF IInv, DecisionInv, TargetFitsAMoment, given, facts

\* A goroutine that reads has a connection that copies.
LEMMA CopyingPhase ==
    ASSUME IInv, NEW p \in Peers, copier[p] # "none" PROVE phase = "copying"
  BY DEF IInv, PhaseInv

LEMMA TakeInv ==
    ASSUME IInv, NEW p \in Peers, Take(p),
           UNCHANGED <<given, facts, ended, deaf, sent, phase, named, target>>
    PROVE  IInv'
  <1> USE DEF IInv
  <1>1. PICK n \in 1 .. waiting[p] :
            /\ copier[p] = "read" /\ p \in open
            /\ waiting' = [waiting EXCEPT ![p] = @ - n]
            /\ buffer' = [buffer EXCEPT ![p] = n]
            /\ copier' = [copier EXCEPT ![p] = "write"]
            /\ UNCHANGED <<reset, written, open>>
    BY DEF Take
  <1>2. phase = "copying" /\ buffer[p] = 0
    BY <1>1, CopyingPhase DEF BytesInv
  <1>3. waiting[p] \in 0 .. MaxPieces /\ n \in 1 .. MaxPieces
        /\ waiting[p] - n \in 0 .. MaxPieces
    BY <1>1, ConnectionAssumption DEF TypeOK, ConnectionAssumption
  <1>4. TypeOK'
    BY <1>1, <1>3 DEF TypeOK, given, facts
  <1>5. PhaseInv'
    BY <1>1, <1>2, OtherSide DEF PhaseInv, TypeOK
  <1>6. BytesInv'
    BY <1>1, <1>2, <1>3, ConnectionAssumption
       DEF BytesInv, TypeOK, Peers, given, ConnectionAssumption
  <1>7. EndsInv'
    BY <1>1, OtherSide DEF EndsInv, TypeOK
  <1> QED BY <1>4, <1>5, <1>6, <1>7, CopyingDecided

\* The common part of the two ways in which a goroutine ends.
LEMMA EndCopyInv ==
    ASSUME IInv, NEW p \in Peers, EndCopy(p), copier[p] \in {"read", "write"},
           UNCHANGED <<given, facts, ended, deaf, sent, phase, named, target>>
    PROVE  TypeOK' /\ PhaseInv' /\ BytesInv' /\ DecisionInv' /\ TargetFitsAMoment'
  <1> USE DEF IInv
  <1>1. /\ copier' = [copier EXCEPT ![p] = "done"]
        /\ open' = open \ {Other(p)}
        /\ UNCHANGED <<reset, waiting, buffer, written>>
    BY DEF EndCopy, Closes
  <1>2. phase = "copying"
    BY CopyingPhase
  <1>3. TypeOK'
    BY <1>1 DEF TypeOK, given, facts
  <1>4. PhaseInv'
    BY <1>1, <1>2, OtherSide DEF PhaseInv, TypeOK
  <1>5. BytesInv'
    BY <1>1, <1>2 DEF BytesInv, TypeOK, Peers, given
  <1> QED BY <1>3, <1>4, <1>5, CopyingDecided

LEMMA StopInv ==
    ASSUME IInv, NEW p \in Peers, Stop(p),
           UNCHANGED <<given, facts, ended, deaf, sent, phase, named, target>>
    PROVE  IInv'
  <1> USE DEF IInv
  <1>1. /\ copier[p] = "read"
        /\ p \notin open \/ p \in reset \/ AtEnd(p)
        /\ EndCopy(p)
    BY DEF Stop
  <1>2. /\ copier' = [copier EXCEPT ![p] = "done"]
        /\ UNCHANGED <<reset, waiting, buffer, written>>
    BY <1>1 DEF EndCopy
  <1>3. /\ phase = "copying" /\ buffer[p] = 0
        /\ p \notin open => copier[Other(p)] = "done"
    BY <1>1, CopyingPhase DEF BytesInv, PhaseInv
  <1>4. reset \subseteq ended
    BY DEF TypeOK
  <1>5. p \notin ended => copier[Other(p)] = "done"
    BY <1>1, <1>3, <1>4 DEF AtEnd
  <1>6. p \notin reset /\ Other(p) \notin ended => AtEnd(p)
    <2> SUFFICES ASSUME p \notin reset, Other(p) \notin ended, p \notin open PROVE FALSE
      BY <1>1
    <2>1. copier[Other(p)] = "done"
      BY <1>3
    <2>2. copier[p] = "done"
      BY <2>1, OtherSide DEF EndsInv
    <2> QED BY <1>1, <2>2
  <1>7. EndsInv'
    BY <1>2, <1>3, <1>5, <1>6, OtherSide DEF EndsInv, TypeOK, AtEnd
  <1>8. TypeOK' /\ PhaseInv' /\ BytesInv' /\ DecisionInv' /\ TargetFitsAMoment'
    BY <1>1, EndCopyInv
  <1> QED BY <1>7, <1>8

LEMMA PutInv ==
    ASSUME IInv, NEW p \in Peers, Put(p),
           UNCHANGED <<given, facts, ended, deaf, sent, phase, named, target>>
    PROVE  IInv'
  <1> USE DEF IInv
  <1>0. copier[p] = "write" /\ phase = "copying"
    BY CopyingPhase DEF Put
  <1>1. CASE Other(p) \in open \ reset
    <2>1. /\ written' = [written EXCEPT ![p] = @ + buffer[p]]
          /\ buffer' = [buffer EXCEPT ![p] = 0]
          /\ copier' = [copier EXCEPT ![p] = "read"]
          /\ reset' = reset \cup ({Other(p)} \cap deaf)
          /\ UNCHANGED <<waiting, open>>
      BY <1>1 DEF Put
    <2>2. /\ written[p] + buffer[p] \in 0 .. MaxPieces
          /\ 0 \in 0 .. MaxPieces
      <3>1. /\ written[p] \in Nat /\ buffer[p] \in Nat /\ waiting[p] \in Nat
            /\ sent[p] \in 0 .. MaxPieces
            /\ sent[p] = waiting[p] + buffer[p] + written[p]
        BY ConnectionAssumption DEF TypeOK, BytesInv, ConnectionAssumption
      <3> QED BY <3>1, ConnectionAssumption DEF ConnectionAssumption
    <2>3. TypeOK'
      BY <2>1, <2>2 DEF TypeOK, given, facts
    <2>4. PhaseInv'
      BY <2>1, <1>0, OtherSide DEF PhaseInv, TypeOK
    <2>5. BytesInv'
      BY <2>1, <2>2, <1>0, ConnectionAssumption
         DEF BytesInv, TypeOK, Peers, given, ConnectionAssumption
    <2>6. EndsInv'
      BY <2>1, <1>0, OtherSide DEF EndsInv, TypeOK
    <2> QED BY <2>3, <2>4, <2>5, <2>6, CopyingDecided
  <1>2. CASE Other(p) \notin open \ reset
    <2>1. EndCopy(p)
      BY <1>2 DEF Put
    <2>2. /\ copier' = [copier EXCEPT ![p] = "done"]
          /\ UNCHANGED <<reset, waiting, buffer, written>>
      BY <2>1 DEF EndCopy
    <2>3. Other(p) \in reset
      <3>1. Other(p) \notin open => copier[p] = "done"
        BY <1>0, OtherSide DEF PhaseInv
      <3> QED BY <1>0, <1>2, <3>1
    <2>4. Other(p) \in ended
      BY <2>3 DEF TypeOK
    <2>5. EndsInv'
      BY <2>2, <2>3, <2>4, OtherSide DEF EndsInv, TypeOK
    <2>6. TypeOK' /\ PhaseInv' /\ BytesInv' /\ DecisionInv' /\ TargetFitsAMoment'
      BY <1>0, <2>1, EndCopyInv
    <2> QED BY <2>5, <2>6
  <1> QED BY <1>1, <1>2

-----------------------------------------------------------------------------
(* The environment *)

LEMMA SendInv == ASSUME IInv, NEW p \in Peers, Send(p) PROVE IInv'
  <1> USE DEF IInv, Send, given, facts, peers
  <1>1. /\ p \notin ended /\ sent[p] < MaxPieces
        /\ sent' = [sent EXCEPT ![p] = @ + 1]
        /\ waiting' = [waiting EXCEPT ![p] = @ + 1]
    BY DEF MaySend
  <1>2. sent[p] + 1 \in 0 .. MaxPieces /\ waiting[p] + 1 \in 0 .. MaxPieces
    <2>1. /\ written[p] \in Nat /\ buffer[p] \in Nat /\ waiting[p] \in Nat
          /\ sent[p] \in 0 .. MaxPieces
          /\ sent[p] = waiting[p] + buffer[p] + written[p]
      BY ConnectionAssumption DEF TypeOK, BytesInv, ConnectionAssumption
    <2> QED BY <1>1, <2>1, ConnectionAssumption DEF ConnectionAssumption
  <1>3. TypeOK'
    BY <1>1, <1>2 DEF TypeOK
  <1>4. PhaseInv'
    BY DEF PhaseInv
  <1>5. BytesInv'
    BY <1>1, <1>2, ConnectionAssumption DEF BytesInv, TypeOK, Peers, ConnectionAssumption
  <1>6. EndsInv'
    BY <1>1 DEF EndsInv, TypeOK
  <1> QED BY <1>3, <1>4, <1>5, <1>6, CopyingDecided

LEMMA LeaveInv == ASSUME IInv, NEW p \in Peers, Leave(p) PROVE IInv'
  <1> USE DEF IInv, Leave, given, facts, streams
  <1>1. ended' = ended \cup {p} /\ deaf' \in {deaf, deaf \cup {p}}
    OBVIOUS
  <1>2. TypeOK'
    BY <1>1 DEF TypeOK
  <1>3. PhaseInv'
    BY DEF PhaseInv
  <1>4. BytesInv'
    BY DEF BytesInv
  <1>5. EndsInv'
    BY <1>1 DEF EndsInv
  <1> QED BY <1>2, <1>3, <1>4, <1>5, CopyingDecided

LEMMA ReloadInv == ASSUME IInv, Reload PROVE IInv'
  <1> USE DEF IInv, given, peers, streams
  <1>1. PICK f \in Facts :
            /\ phase \in {"reading", "looking", "resolving"} /\ reloads < MaxReloads
            /\ reloads' = reloads + 1
            /\ known' = IF f \in known THEN known \ {f} ELSE known \cup {f}
            /\ always' = always \cap known' /\ ever' = ever \cup known'
            /\ UNCHANGED <<given, peers, streams, phase, named, target, copier, open>>
    BY DEF Reload
  <1>2. /\ known' \subseteq Facts /\ always' \subseteq always /\ ever \subseteq ever'
        /\ always' \subseteq known' /\ known' \subseteq ever'
        /\ ever' \subseteq Facts
    BY <1>1 DEF TypeOK
  <1>3. TypeOK'
    BY <1>1, <1>2, ConnectionAssumption DEF TypeOK, ConnectionAssumption
  <1>4. PhaseInv' /\ EndsInv'
    BY <1>1 DEF PhaseInv, EndsInv
  <1>5. BytesInv'
    BY <1>1 DEF BytesInv
  <1>6. DecisionInv' /\ TargetFitsAMoment'
    BY <1>1, <1>2 DEF DecisionInv, TargetFitsAMoment
  <1> QED BY <1>3, <1>4, <1>5, <1>6

LEMMA NextInv == IInv /\ [Next]_vars => IInv'
  <1> SUFFICES ASSUME IInv, [Next]_vars PROVE IInv'
    OBVIOUS
  <1>1. CASE Handle
    BY <1>1, ReadHelloInv, LookUpInv, ResolveInv, HandshakeInv, DialInv, WriteHelloInv DEF Handle
  <1>2. ASSUME NEW p \in Peers, Copy(p) PROVE IInv'
    BY <1>2, TakeInv, StopInv, PutInv DEF Copy
  <1>3. ASSUME NEW p \in Peers, Send(p) \/ Leave(p) PROVE IInv'
    BY <1>3, SendInv, LeaveInv
  <1>4. CASE Reload
    BY <1>4, ReloadInv
  <1>5. CASE UNCHANGED vars
    BY <1>5 DEF vars, given, facts, peers, streams, IInv, TypeOK, PhaseInv, BytesInv,
                DecisionInv, TargetFitsAMoment, EndsInv
  <1> QED BY <1>1, <1>2, <1>3, <1>4, <1>5 DEF Next

-----------------------------------------------------------------------------

\* Whatever the peers do, at any point of the hello, the handshake or the copying, and
\* whatever is reloaded between the look-ups: the connection goes where some moment sends
\* it, and the side that ends first is heard in full (sni.go:105-198, tcp.go:98-177).
THEOREM ConnectionIsHonest == Spec => []ConnectionsAreHonest
  <1>1. IInv => ConnectionsAreHonest
    BY HeardFollows DEF IInv, ConnectionsAreHonest
  <1> QED BY <1>1, InitInv, NextInv, PTL DEF Spec
=============================================================================
