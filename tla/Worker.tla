-------------------------------- MODULE Worker --------------------------------
(***************************************************************************)
(* The long-running worker: processes that call LongRunningWorker.run for  *)
(* one run.  Each round reads the pending command, renews the runner's     *)
(* lease, beats, and calls the step; each of these is a transaction of its *)
(* own, between which an administrator can issue a command, the lease can  *)
(* pass to another session, and the process can die.                       *)
(*                                                                         *)
(* A command's identity is its kind and the run's state version, so that   *)
(* one that was issued before at the same version is not issued again.     *)
(* drain and stop differ in the name of the last state only.               *)
(***************************************************************************)
EXTENDS Integers, Sequences

CONSTANTS
    WorkerProcs,    \* processes that call run, each in any session
    WorkerSessions, \* worker actors with their sessions
    NoActor,        \* no session
    Commands,       \* kinds of command, of which "pause" pauses the run
    WorkerLeaseTtl,
    Rounds,         \* max_ticks of one call of run
    WorkerMaxTime,  \* bound on the clock
    WorkerMaxToken, \* bound on fencing tokens
    MaxVersion,     \* bound on state versions
    MaxCommands     \* bound on commands

\* run checks its bounds to be positive.
ASSUME WorkerAssumption ==
    /\ {WorkerLeaseTtl, MaxCommands} \subseteq Nat
    /\ {Rounds, WorkerMaxTime, WorkerMaxToken, MaxVersion} \subseteq Nat \ {0}

VARIABLES
    workerClock,
    workerRun,      \* max_runs: status and state_version
    workerLease,    \* the run's row of max_leases
    commands,       \* max_worker_commands, each with its consumption
    beat,           \* max_worker_current, under token 0 while there is none
    worker          \* where each process is, and what it holds

workerVars == <<workerClock, workerRun, workerLease, commands, beat, worker>>

Nobody == [owner |-> NoActor, token |-> 0]
NotRunning == [at |-> "idle", me |-> NoActor, token |-> 0, count |-> 0, left |-> 0,
               command |-> 0, over |-> 0, late |-> 0]
WorkerPlaces == {"idle", "starting", "checking", "consuming", "pausing", "paused", "renewing",
                 "beating", "stepping", "ending"}

CommandRow == [kind : Commands, version : 1..MaxVersion,
               by : {Nobody} \cup [owner : WorkerSessions, token : 1..WorkerMaxToken]]
WorkerRow == [at : WorkerPlaces, me : WorkerSessions \cup {NoActor}, token : 0..WorkerMaxToken,
              count : Nat, left : 0..Rounds, command : 0..MaxCommands, over : 0..MaxCommands,
              late : 0..2]

Pending == {i \in DOMAIN commands : commands[i].by = Nobody}

\* What verify asks of commands is here as well: at most one is pending.
WorkerTypeOK ==
    /\ workerClock \in 1..WorkerMaxTime
    /\ workerRun \in [status : {"RUNNING", "PAUSED"}, version : 1..MaxVersion]
    /\ workerLease \in [owner : WorkerSessions, token : 1..WorkerMaxToken, expires : Nat]
    /\ commands \in Seq(CommandRow)
    /\ \A i, j \in Pending : i = j
    /\ beat \in [owner : WorkerSessions \cup {NoActor}, token : 0..WorkerMaxToken, count : Nat]
    /\ worker \in [WorkerProcs -> WorkerRow]

\* The run has been handed to a session.
WorkerInit ==
    /\ workerClock = 1
    /\ workerRun = [status |-> "RUNNING", version |-> 1]
    /\ \E s \in WorkerSessions :
         workerLease = [owner |-> s, token |-> 1, expires |-> 1 + WorkerLeaseTtl]
    /\ commands = <<>>
    /\ beat = [owner |-> NoActor, token |-> 0, count |-> 0]
    /\ worker = [p \in WorkerProcs |-> NotRunning]

WorkerTick ==
    /\ workerClock < WorkerMaxTime
    /\ workerClock' = workerClock + 1
    /\ UNCHANGED <<workerRun, workerLease, commands, beat, worker>>

(***************************************************************************)
(* The administrator                                                       *)
(***************************************************************************)
\* Nothing new for a command of this kind at this version, or while another is pending.
IssueCommand(kind) ==
    /\ Len(commands) < MaxCommands
    /\ Pending = {}
    /\ \A i \in DOMAIN commands :
         <<commands[i].kind, commands[i].version>> # <<kind, workerRun.version>>
    /\ commands' = Append(commands, [kind |-> kind, version |-> workerRun.version,
                                     by |-> Nobody])
    /\ UNCHANGED <<workerClock, workerRun, workerLease, beat, worker>>

\* A lapsed lease is taken and handed on; a paused run is resumed first.
HandOn(s) ==
    /\ workerClock >= workerLease.expires
    /\ workerLease.token + 2 <= WorkerMaxToken
    /\ workerRun.status = "PAUSED" => workerRun.version < MaxVersion
    /\ workerRun' = IF workerRun.status = "PAUSED"
              THEN [status |-> "RUNNING", version |-> workerRun.version + 1] ELSE workerRun
    /\ workerLease' = [owner |-> s, token |-> workerLease.token + 2,
                       expires |-> workerClock + WorkerLeaseTtl]
    /\ UNCHANGED <<workerClock, commands, beat, worker>>

(***************************************************************************)
(* What the control plane asks of a worker                                 *)
(***************************************************************************)
Held(s) == workerLease.owner = s /\ workerClock < workerLease.expires
Fenced(p) == Held(worker[p].me) /\ workerLease.token = worker[p].token

Exits(p) == worker' = [worker EXCEPT ![p] = NotRunning]
Moves(p, place) == worker' = [worker EXCEPT ![p].at = place]

\* A heartbeat is refused to a stale token, to another actor at the same token, and when
\* its count regresses; the one after a pause needs no lease.
Heard(p, pausing) ==
    /\ (pausing /\ workerRun.status = "PAUSED") \/ Fenced(p)
    /\ beat.token <= worker[p].token
    /\ beat.token = worker[p].token => beat.owner = worker[p].me
    /\ beat.count <= worker[p].count

Beats(p) ==
    beat' = [owner |-> worker[p].me, token |-> worker[p].token, count |-> worker[p].count]

\* The heartbeat between two places; a refused one leaves run with an exception.
Beat(p, from, to) ==
    /\ worker[p].at = from
    /\ IF Heard(p, from = "paused") THEN Beats(p) /\ Moves(p, to)
       ELSE Exits(p) /\ UNCHANGED beat
    /\ UNCHANGED <<workerClock, workerRun, workerLease, commands>>

(***************************************************************************)
(* One call of run                                                         *)
(***************************************************************************)
\* claim_runner_lease renews and hands out the token of the lease.
Renewed == workerLease' = [workerLease EXCEPT !.expires = workerClock + WorkerLeaseTtl]

ClaimLease(p, s) ==
    /\ worker[p].at = "idle"
    /\ workerRun.status = "RUNNING" /\ Held(s)
    /\ Renewed
    /\ worker' = [worker EXCEPT ![p] =
                    [NotRunning EXCEPT !.at = "starting", !.me = s, !.left = Rounds,
                                       !.token = workerLease.token, !.count = beat.count]]
    /\ UNCHANGED <<workerClock, workerRun, commands, beat>>

StartBeat(p) == Beat(p, "starting", "checking")

\* What pending_command finds.
Seen == Pending

Check(p) ==
    /\ worker[p].at = "checking"
    /\ IF worker[p].left = 0 THEN Moves(p, "ending")
       ELSE IF Seen = {} THEN Moves(p, "renewing")
       ELSE \E i \in Seen :
              worker' = [worker EXCEPT ![p].at = "consuming", ![p].command = i]
    /\ UNCHANGED <<workerClock, workerRun, workerLease, commands, beat>>

\* The wall clock limit of the call.
RunsOut(p) ==
    /\ worker[p].at = "checking"
    /\ Moves(p, "ending")
    /\ UNCHANGED <<workerClock, workerRun, workerLease, commands, beat>>

\* Consumption is once, and again for who consumed it.
Consume(p) ==
    LET i == worker[p].command
        self == [owner |-> worker[p].me, token |-> worker[p].token]
        goes == Moves(p, IF commands[i].kind = "pause" THEN "pausing" ELSE "ending")
    IN  /\ worker[p].at = "consuming"
        /\ IF commands[i].by = self THEN goes /\ UNCHANGED commands
           ELSE IF commands[i].by = Nobody /\ Fenced(p)
           THEN commands' = [commands EXCEPT ![i].by = self] /\ goes
           ELSE Exits(p) /\ UNCHANGED commands
        /\ UNCHANGED <<workerClock, workerRun, workerLease, beat>>

\* The run paused, its lease over.
Pauses ==
    /\ workerRun' = [status |-> "PAUSED", version |-> workerRun.version + 1]
    /\ workerLease' = [workerLease EXCEPT !.expires = workerClock]

PauseRun(p) ==
    /\ worker[p].at = "pausing"
    /\ IF workerRun.status = "RUNNING" /\ Fenced(p)
       THEN workerRun.version < MaxVersion /\ Pauses /\ Moves(p, "paused")
       ELSE Exits(p) /\ UNCHANGED <<workerRun, workerLease>>
    /\ UNCHANGED <<workerClock, commands, beat>>

PausedBeat(p) == Beat(p, "paused", "idle")
FinalBeat(p) == Beat(p, "ending", "idle")

Renew(p) ==
    /\ worker[p].at = "renewing"
    /\ IF workerRun.status = "RUNNING" /\ Held(worker[p].me)
       THEN /\ Renewed
            /\ worker' = [worker EXCEPT ![p].at = "beating", ![p].token = workerLease.token]
       ELSE Exits(p) /\ UNCHANGED workerLease
    /\ UNCHANGED <<workerClock, workerRun, commands, beat>>

RunningBeat(p) == Beat(p, "beating", "stepping")

\* The command a step overlooks, and how late that is: in the second step in a row it is
\* no longer the command that came after the look.
Overlooked == IF Pending = {} THEN 0 ELSE CHOOSE i \in Pending : TRUE
Lateness(p) ==
    IF Overlooked = 0 THEN 0 ELSE IF Overlooked = worker[p].over THEN 2 ELSE 1

\* The step: a governed call that changes the run's state if it holds the lease, that can
\* pause the run, and whose exception ends the call of run.  Which command it overlooked
\* is noted.
TakeStep(p, result) ==
    /\ worker[p].at = "stepping"
    /\ IF result = "failed" THEN UNCHANGED <<workerRun, workerLease>>
       ELSE /\ workerRun.status = "RUNNING" /\ Fenced(p) /\ workerRun.version < MaxVersion
            /\ IF result = "paused" THEN Pauses
               ELSE /\ workerRun' = [workerRun EXCEPT !.version = @ + 1]
                    /\ UNCHANGED workerLease
    /\ worker' = [worker EXCEPT
                    ![p].at = IF result = "done" THEN "checking" ELSE "ending",
                    ![p].count = @ + (IF result = "failed" THEN 0 ELSE 1),
                    ![p].left = @ - 1,
                    ![p].over = Overlooked, ![p].late = Lateness(p)]
    /\ UNCHANGED <<workerClock, commands, beat>>

WorkerCrash(p) ==
    /\ worker[p].at # "idle"
    /\ Exits(p)
    /\ UNCHANGED <<workerClock, workerRun, workerLease, commands, beat>>

(***************************************************************************)
(* Specification                                                           *)
(***************************************************************************)
WorkerNext ==
    \/ WorkerTick
    \/ \E kind \in Commands : IssueCommand(kind)
    \/ \E s \in WorkerSessions : HandOn(s)
    \/ \E p \in WorkerProcs :
         \/ \E s \in WorkerSessions : ClaimLease(p, s)
         \/ StartBeat(p) \/ Check(p) \/ RunsOut(p) \/ Consume(p) \/ PauseRun(p) \/ PausedBeat(p)
         \/ FinalBeat(p) \/ Renew(p) \/ RunningBeat(p) \/ WorkerCrash(p)
         \/ \E result \in {"done", "paused", "failed"} : TakeStep(p, result)

WorkerSpec == WorkerInit /\ [][WorkerNext]_workerVars

(***************************************************************************)
(* Properties                                                              *)
(***************************************************************************)
\* A worker overlooks a command for one step at most: the one it was about to take when
\* the command came.
HeedsCommands == WorkerTypeOK /\ \A p \in WorkerProcs : worker[p].late < 2
=============================================================================
