---------------------------- MODULE Orchestration ----------------------------
(***************************************************************************)
(* What goes on around the runner's calls: handoffs between backends, the  *)
(* scheduler's ticks, the long-running worker and the acquisition of a     *)
(* source.  None of the four calls another, and what the run and its lease *)
(* can do meanwhile is in each, so that a behaviour is of one part alone   *)
(* and the others stay as they begin.                                      *)
(***************************************************************************)
EXTENDS BackendHandoff, Scheduler, Worker, Acquisition

VARIABLE part       \* the part a behaviour is of

otherVars == <<schedulerVars, workerVars, acquisitionVars>>
orchestrationVars == <<part, vars, otherVars>>

OrchestrationInit ==
    /\ part \in {"handoff", "scheduler", "worker", "acquisition"}
    /\ Init /\ SchedulerInit /\ WorkerInit /\ AcquisitionInit
    /\ part # "handoff" => ~fixture
    /\ part # "acquisition" => folder = CHOOSE c \in Contents : TRUE

OrchestrationNext ==
    \/ part = "handoff" /\ Next /\ UNCHANGED <<part, otherVars>>
    \/ part = "scheduler" /\ SchedulerNext /\ UNCHANGED <<part, vars, workerVars, acquisitionVars>>
    \/ part = "worker" /\ WorkerNext /\ UNCHANGED <<part, vars, schedulerVars, acquisitionVars>>
    \/ part = "acquisition" /\ AcquisitionNext /\ UNCHANGED <<part, vars, schedulerVars, workerVars>>

OrchestrationSpec == OrchestrationInit /\ [][OrchestrationNext]_orchestrationVars

\* A stop is heeded, whoever asks for it: a scheduler that has stopped stays stopped
\* (StopHolds), and a worker overlooks a command for one step at most (HeedsCommands).
StopsAreHeeded == [][(Quiet => Quiet') /\ HeedsCommands']_orchestrationVars
=============================================================================
