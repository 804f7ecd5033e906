---------------------------- MODULE ConfigSystem ----------------------------
(***************************************************************************)
(* The configuration pipeline with the file provider at one end and the    *)
(* TCP listeners at the other.  Each step is one of ConfigPipeline's or    *)
(* leaves its variables alone; a step that belongs to two components is a  *)
(* conjunction of both.                                                    *)
(***************************************************************************)
EXTENDS FileProvider, TcpRouter

CONSTANT MaxDocker  \* bound: versions that Docker publishes

ASSUME SystemAssumption == MaxDocker \in 0..MaxVersion

allVars == <<vars, fileVars, tcpVars>>

SystemInit == Init /\ FileInit /\ TcpInit

PipelineStep ==
    /\ \/ published[Docker] < MaxDocker /\ Publish(Docker)
       \/ \E p \in Providers : SendMessage(p)
       \/ TakeInitial \/ TakeInitialMerged
       \/ Forward \/ AggregatorStep \/ ApplyRouter \/ Signal \/ StopWatcher
    /\ UNCHANGED <<fileVars, tcpVars>>

\* The watcher that applies selects again when it has started all ports.
SelectApplier ==
    /\ ApplierIsFree
    /\ TakeMerged \/ StopApplier
    /\ UNCHANGED <<fileVars, tcpVars>>

ApplyTcpRoutes == ApplyTcp /\ PlanPorts /\ UNCHANGED fileVars

ProviderStep == FileStep /\ UNCHANGED tcpVars

StartPorts == (\E s \in Starters : TcpStep(s)) /\ UNCHANGED <<vars, fileVars>>

SystemNext == PipelineStep \/ SelectApplier \/ ApplyTcpRoutes \/ ProviderStep \/ StartPorts

\* Goroutines are scheduled.  Nothing obliges the file, Docker or a signal.
SystemFairness ==
    /\ \A p \in Providers : WF_allVars(SendMessage(p) /\ PipelineStep)
    /\ WF_allVars(TakeInitial /\ PipelineStep) /\ WF_allVars(TakeInitialMerged /\ PipelineStep)
    /\ WF_allVars(Forward /\ PipelineStep) /\ WF_allVars(AggregatorStep /\ PipelineStep)
    /\ WF_allVars(ApplyRouter /\ PipelineStep)
    /\ WF_allVars(TakeMerged /\ SelectApplier) /\ WF_allVars(ApplyTcpRoutes)
    /\ WF_allVars((LoadFile \/ AddWatch \/ Reload) /\ ProviderStep)
    /\ \A s \in Starters : WF_allVars(TcpStep(s) /\ StartPorts)

SystemSpec == SystemInit /\ [][SystemNext]_allVars
FairSystemSpec == SystemSpec /\ SystemFairness

-----------------------------------------------------------------------------
(* Properties *)

\* While the process runs, what the file says in the end is loaded, and the last valid
\* version of every provider is what the router serves, however often broken versions
\* come between.
SourcesAreFollowed == FileIsLoaded /\ LatestIsApplied

\* The listeners are those that the TCP routes in use need.
PortsAreServed == FileTypeOK /\ TcpTypeOK /\ PortsAreOpen
=============================================================================
