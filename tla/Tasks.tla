-------------------------------- MODULE Tasks --------------------------------
(***************************************************************************)
(* One task at a time, from an accepted plan to a candidate that is ready  *)
(* (application/candidate_tasks.py with application/task_store.py, the     *)
(* order domain/task_evidence.py accepts and the owned processes it runs). *)
(* Threads of one service: callers that start tasks, one that stops them,  *)
(* and the worker of the active task.  The service may die at any step;    *)
(* the next one settles what it left, under the installation's lock.       *)
(*                                                                         *)
(* A task is named by its request.  What is in memory is lost with the     *)
(* service; the store, the evidence and perhaps a process tree survive.    *)
(***************************************************************************)
EXTENDS Integers, Sequences, FiniteSets, SequencesExt

CONSTANTS
  Requests,    \* request ids, one for each task
  Callers,     \* threads that call start
  None,        \* no task
  MaxCrashes,  \* bound: deaths of the service
  MaxFaults    \* bound: failing writes and processes

ASSUME TasksAssumption ==
  None \notin Requests /\ MaxCrashes \in Nat /\ MaxFaults \in Nat

VARIABLES
  state,      \* state of each task in tasks.json, "absent" before it is reserved
  dispatch,   \* provider_dispatch of each task there
  evidence,   \* events of each task's receipts
  sealed,     \* tasks whose evidence is sealed
  alive,      \* tasks that have a process, theirs or a child's
  spawned,    \* times each task's provider was started
  up,         \* a service owns the installation's lock
  active,     \* _active_task
  cancel,     \* _cancel_requested
  unknown,    \* _termination_unknown
  owner,      \* what _owner runs: none, provider or checker
  worker,     \* the thread of the active task, or the restart settling one
  caller,     \* what each caller of start has checked
  stopping,   \* task whose tree the stopper forces down, or has seen survive
  held,       \* stops accepted
  jammed,     \* the last write of a task failed
  crashes, faults

disk == <<state, dispatch, evidence, sealed>>
memory == <<active, cancel, unknown, owner, worker, caller, stopping>>
world == <<alive, spawned, held, jammed>>
bounds == <<crashes, faults>>
vars == <<disk, memory, world, up, bounds>>

Off == [at |-> "off", task |-> None, phase |-> "preparing", dispatched |-> FALSE,
        seen |-> "none", reason |-> "none", final |-> "none", restart |-> FALSE]
Still == [task |-> None, at |-> "idle"]

\* Wrong on purpose: a stop that was under way is not settled.
UnsettledBut == {"reserved", "preparing", "generating", "checking"}
Unsettled == {"reserved", "preparing", "generating", "checking", "stop_requested"}
Ended == {"candidate_ready", "failed", "cancelled", "interrupted", "termination_unknown"}
Terminals == {"candidate_ready", "task_failed", "task_interrupted", "task_cancelled"}

Init ==
  /\ state = [r \in Requests |-> "absent"] /\ dispatch = [r \in Requests |-> FALSE]
  /\ evidence = [r \in Requests |-> <<>>] /\ sealed = {}
  /\ alive = {} /\ spawned = [r \in Requests |-> 0] /\ held = {} /\ jammed = {}
  /\ up = TRUE /\ active = None /\ cancel = {} /\ unknown = {} /\ owner = "none"
  /\ worker = Off /\ caller = [c \in Callers |-> None] /\ stopping = Still
  /\ crashes = 0 /\ faults = 0

------------------------------------------------------------------------------
(* Steps of the worker and what they share.                                 *)

Task == worker.task
At(place) == up /\ worker.at = place
Go(place) == worker' = [worker EXCEPT !.at = place]
Fault == faults < MaxFaults /\ faults' = faults + 1 /\ UNCHANGED crashes

\* _lock is held over these steps of the worker.
Locked == worker.at \in {"seal", "publish"} /\ ~worker.restart

\* A receipt's order as validate_task_receipt_contract has it.
Order == <<"task_start_accepted", "candidate_generated", "candidate_check_completed">>
Admits(log, event, phase) ==
  /\ \A i \in DOMAIN log : log[i] \notin Terminals
  /\ CASE event = "candidate_ready" -> log = Order
       [] event \in Terminals \ {"candidate_ready"} -> log # <<>> \/ phase = "reserved"
       [] OTHER -> Append(log, event) = SubSeq(Order, 1, Len(log) + 1)

Record(event) ==
  /\ Admits(evidence[Task], event, worker.phase)
  /\ evidence' = [evidence EXCEPT ![Task] = Append(@, event)]

\* The body of _run raises: the reason decides how the task ends.
Reasons == {"failed", "cancelled", "unknown"}
Raise(reason) ==
  worker' = [worker EXCEPT !.at = "terminal", !.reason = reason,
    !.final = CASE reason = "unknown" -> "termination_unknown"
                [] reason = "cancelled" -> "cancelled"
                [] OTHER -> "failed"]
\* Before there is a chain no terminal is recorded.
RaiseBare == worker' = [worker EXCEPT !.at = "settle", !.final = "failed"]

\* What the flags say between two stages, and what the body does of it.
Interrupted == IF Task \in unknown THEN "unknown" ELSE "cancelled"

WorkerOnly == <<dispatch, sealed, alive, spawned, held, jammed, up, active, cancel,
                unknown, owner, caller, stopping>>

------------------------------------------------------------------------------
(* start, stop and replay.                                                  *)

\* start before the lock: replay, a task of unknown termination, the plan.
Check(c, r) ==
  /\ up /\ worker.restart = FALSE /\ caller[c] = None
  /\ state[r] = "absent"
  /\ \A other \in Requests : state[other] # "termination_unknown"
  /\ caller' = [caller EXCEPT ![c] = r]
  /\ UNCHANGED <<disk, active, cancel, unknown, owner, worker, stopping, world, up, bounds>>

\* start under the lock: busy, or reserve; a request reserved by now is replayed.
Start(c) ==
  /\ up /\ ~Locked /\ caller[c] # None
  /\ caller' = [caller EXCEPT ![c] = None]
  /\ IF active = None /\ state[caller[c]] = "absent"
       THEN /\ state' = [state EXCEPT ![caller[c]] = "reserved"]
            /\ active' = caller[c]
            /\ worker' = [Off EXCEPT !.at = "begin", !.task = caller[c]]
       ELSE UNCHANGED <<state, active, worker>>
  /\ UNCHANGED <<dispatch, evidence, sealed, cancel, unknown, owner, stopping,
                 world, up, bounds>>

\* stop: the flag, the state, then the tree if there is one.
Stop(r) ==
  /\ up /\ ~Locked /\ stopping = Still /\ r = active /\ state[r] \notin Ended
  /\ cancel' = cancel \cup {r} /\ held' = held \cup {r}
  /\ state' = [state EXCEPT ![r] = "stop_requested"]
  /\ stopping' = IF owner # "none" THEN [task |-> r, at |-> "forcing"] ELSE Still
  /\ UNCHANGED <<dispatch, evidence, sealed, alive, spawned, jammed, up, active,
                 unknown, owner, worker, caller, bounds>>

ForceStop ==
  /\ up /\ stopping.at = "forcing"
  /\ \/ alive' = alive \ {stopping.task} /\ stopping' = Still /\ UNCHANGED bounds
     \/ /\ stopping.task \in alive /\ Fault /\ UNCHANGED alive
        /\ stopping' = [stopping EXCEPT !.at = "unconfirmed"]
  /\ UNCHANGED <<disk, active, cancel, unknown, owner, worker, caller, spawned, held,
                 jammed, up>>

Unconfirmed ==
  /\ up /\ ~Locked /\ stopping.at = "unconfirmed"
  /\ unknown' = unknown \cup {stopping.task}
  /\ stopping' = [stopping EXCEPT !.at = "unknown"]
  /\ UNCHANGED <<disk, active, cancel, owner, worker, caller, world, up, bounds>>
MarkUnknown ==
  /\ up /\ stopping.at = "unknown" /\ stopping' = Still
  /\ state' = [state EXCEPT ![stopping.task] = "termination_unknown"]
  /\ UNCHANGED <<dispatch, evidence, sealed, active, cancel, unknown, owner, worker,
                 caller, world, up, bounds>>

------------------------------------------------------------------------------
(* _run.                                                                    *)

\* The first update; then the plan is checked again and the chain opened.
Begin ==
  /\ At("begin")
  /\ \/ Go("accept") /\ state' = [state EXCEPT ![Task] = "preparing"]
     \/ RaiseBare /\ state' \in {state, [state EXCEPT ![Task] = "preparing"]}
  /\ UNCHANGED <<evidence, bounds, WorkerOnly>>

Accept ==
  /\ At("accept")
  /\ \/ Record("task_start_accepted") /\ Go("ask")
     \/ Raise("failed") /\ UNCHANGED evidence
  /\ UNCHANGED <<state, bounds, WorkerOnly>>

Ask ==
  /\ At("ask")
  /\ IF Task \in cancel THEN Raise("cancelled")
     ELSE worker' = [worker EXCEPT !.at = "mark", !.phase = "generating"]
  /\ UNCHANGED <<state, evidence, bounds, WorkerOnly>>

\* Wrong on purpose: the store learns nothing of the dispatch.
MarkState ==
  /\ At("mark")
  /\ state' = [state EXCEPT ![Task] = "generating"] /\ Go("spawn")
  /\ UNCHANGED <<evidence, bounds, WorkerOnly>>
\* The store says dispatched before the provider is started.
Mark ==
  /\ At("mark")
  /\ state' = [state EXCEPT ![Task] = "generating"]
  /\ dispatch' = [dispatch EXCEPT ![Task] = TRUE]
  /\ Go("spawn")
  /\ UNCHANGED <<evidence, sealed, world, up, active, cancel, unknown, owner, caller,
                 stopping, bounds>>

\* _run_process: a process and its owner.
Spawns(kind, next) ==
  /\ alive' = alive \cup {Task} /\ owner' = kind /\ Go(next)
  /\ UNCHANGED <<disk, held, jammed, up, active, cancel, unknown, caller, stopping, bounds>>
Spawn ==
  /\ At("spawn") /\ Spawns("provider", "generating")
  /\ spawned' = [spawned EXCEPT ![Task] = @ + 1]
SpawnFails ==
  /\ At("spawn") /\ Raise("failed") /\ UNCHANGED <<state, evidence, bounds, WorkerOnly>>

\* It ends, or is forced down at its deadline: what was seen of it.
Observe(next) ==
  /\ owner' = "none"
  /\ \/ /\ \E seen \in {"ok", "bad"} : worker' = [worker EXCEPT !.at = next, !.seen = seen]
        /\ alive' = alive \ {Task} /\ UNCHANGED bounds
     \/ /\ worker' = [worker EXCEPT !.at = next, !.seen = "unconfirmed"]
        /\ Fault /\ UNCHANGED alive
     \/ /\ Raise("unknown") /\ Fault /\ UNCHANGED alive
  /\ UNCHANGED <<disk, spawned, held, jammed, up, active, cancel, unknown, caller, stopping>>
ProviderEnds == At("generating") /\ Observe("judge")
CheckerEnds == At("checking") /\ Observe("checked")

\* A stop is told from a failure; then output, plan and files are examined.
Judge ==
  /\ At("judge")
  /\ IF Task \in cancel
       THEN IF Task \in unknown \/ worker.seen = "unconfirmed"
              THEN Raise("unknown") ELSE Raise("cancelled")
       ELSE \/ worker.seen = "ok" /\ Go("generated")
            \/ Raise("failed")
  /\ UNCHANGED <<state, evidence, bounds, WorkerOnly>>

Generated ==
  /\ At("generated")
  /\ \/ /\ Record("candidate_generated")
        /\ worker' = [worker EXCEPT !.at = "examine", !.phase = "checking"]
     \/ Raise("failed") /\ UNCHANGED evidence
  /\ UNCHANGED <<state, bounds, WorkerOnly>>

Examine ==
  /\ At("examine") /\ state' = [state EXCEPT ![Task] = "checking"] /\ Go("check")
  /\ UNCHANGED <<evidence, bounds, WorkerOnly>>
SpawnChecker == At("check") /\ Spawns("checker", "checking") /\ UNCHANGED spawned

\* A check whose tree is not confirmed empty is not recorded, which fails the task.
Checked ==
  /\ At("checked")
  /\ \/ Task \in unknown \cup cancel /\ Raise(Interrupted) /\ UNCHANGED evidence
     \/ /\ Task \notin unknown \cup cancel /\ worker.seen # "unconfirmed"
        /\ Record("candidate_check_completed")
        /\ IF worker.seen = "ok" THEN Go("ready") ELSE Raise("failed")
     \/ /\ Task \notin unknown \cup cancel /\ Raise("failed") /\ UNCHANGED evidence
  /\ UNCHANGED <<state, bounds, WorkerOnly>>

\* Wrong on purpose: the flags are not looked at again.
ReadyUnasked ==
  /\ At("ready")
  /\ Record("candidate_ready") /\ Go("seal")
  /\ UNCHANGED <<state, bounds, WorkerOnly>>
\* The last look at the flags is under the lock that stop needs.
Ready ==
  /\ At("ready")
  /\ \/ Task \in unknown \cup cancel /\ Raise(Interrupted) /\ UNCHANGED evidence
     \/ Task \notin unknown \cup cancel /\ Record("candidate_ready") /\ Go("seal")
     \/ Raise("failed") /\ UNCHANGED evidence
  /\ UNCHANGED <<state, bounds, WorkerOnly>>

\* broker.seal, then the store, both under the lock.
Seal ==
  /\ At("seal")
  /\ \/ sealed' = sealed \cup {Task} /\ Go("publish") /\ UNCHANGED bounds
     \/ Fault /\ Raise("failed") /\ UNCHANGED sealed
  /\ UNCHANGED <<state, dispatch, evidence, world, up, active, cancel, unknown, owner,
                 caller, stopping>>

\* finally: the service is free, or the restart turns to the next task.
Leave ==
  /\ active' = IF active = Task THEN None ELSE active
  /\ cancel' = cancel \ {Task}
  /\ worker' = IF worker.restart THEN [Off EXCEPT !.at = "recover", !.restart = TRUE]
               ELSE Off
Ending == <<dispatch, evidence, sealed, alive, spawned, held, unknown, owner, caller,
            stopping>>

Publish ==
  /\ At("publish")
  /\ \/ Leave /\ state' = [state EXCEPT ![Task] = "candidate_ready"] /\ UNCHANGED bounds
     \/ Fault /\ Raise("failed") /\ UNCHANGED <<state, active, cancel>>
  /\ UNCHANGED <<Ending, jammed, up>>

\* The handler: one terminal receipt, the seal, and the store whatever came of them.
TerminalOf(reason) ==
  CASE reason = "cancelled" -> "task_cancelled"
    [] reason = "failed" -> "task_failed"
    [] OTHER -> "task_interrupted"
GiveUp(place) ==
  /\ At(place)
  /\ worker' = [worker EXCEPT !.at = "settle", !.final = "interrupted"]
  /\ UNCHANGED <<disk, active, cancel, unknown, owner, caller, stopping, world, up>>
Terminal ==
  /\ At("terminal") /\ Record(TerminalOf(worker.reason)) /\ Go("sealing")
  /\ UNCHANGED <<state, bounds, WorkerOnly>>
TerminalFails ==
  /\ GiveUp("terminal")
  /\ IF Admits(evidence[Task], TerminalOf(worker.reason), worker.phase)
       THEN Fault ELSE UNCHANGED bounds
Sealing ==
  /\ At("sealing") /\ sealed' = sealed \cup {Task} /\ Go("settle")
  /\ UNCHANGED <<state, dispatch, evidence, world, up, active, cancel, unknown, owner,
                 caller, stopping, bounds>>
SealingFails == GiveUp("sealing") /\ Fault

Settle ==
  /\ At("settle") /\ Leave
  /\ state' = [state EXCEPT ![Task] = worker.final]
  /\ UNCHANGED <<Ending, jammed, up, bounds>>
\* The thread ends all the same; a restart fails with it.
SettleFails ==
  /\ At("settle") /\ Fault /\ Leave
  /\ jammed' = jammed \cup {Task} /\ up' = ~worker.restart
  /\ UNCHANGED <<state, Ending>>

------------------------------------------------------------------------------
(* The service dies and another takes the lock: _recover_reservations.      *)

Crash ==
  /\ up /\ crashes < MaxCrashes /\ crashes' = crashes + 1 /\ UNCHANGED faults
  /\ up' = FALSE
  /\ alive' \in {alive, {}}
  /\ active' = None /\ cancel' = {} /\ unknown' = {} /\ owner' = "none"
  /\ worker' = Off /\ caller' = [c \in Callers |-> None] /\ stopping' = Still
  /\ UNCHANGED <<disk, spawned, held, jammed>>

Restart ==
  /\ ~up /\ up' = TRUE
  /\ worker' = [Off EXCEPT !.at = "recover", !.restart = TRUE]
  /\ UNCHANGED <<disk, active, cancel, unknown, owner, caller, stopping, world, bounds>>

\* What the sealed evidence says the task came to.
Verdict(r) ==
  LET last == Last(evidence[r]) IN
  CASE last = "candidate_ready" -> "candidate_ready"
    [] last = "task_failed" -> "failed"
    [] last = "task_cancelled" -> "cancelled"
    [] OTHER -> IF dispatch[r] THEN "termination_unknown" ELSE "interrupted"
Concluded(r) == evidence[r] # <<>> /\ Last(evidence[r]) \in Terminals

Assumed(r) == IF dispatch[r] THEN "termination_unknown" ELSE "interrupted"
Phase(r) == IF state[r] # "stop_requested" THEN state[r]
            ELSE IF dispatch[r] THEN "generating" ELSE "preparing"

\* Wrong on purpose: a terminal receipt is believed before its seal.
RecoverUnsealed(r) ==
  /\ At("recover") /\ state[r] \in Unsettled
  /\ worker' = [worker EXCEPT !.task = r, !.phase = Phase(r), !.reason = "restart",
       !.final = IF Concluded(r) THEN Verdict(r) ELSE Assumed(r),
       !.at = IF Concluded(r) THEN "settle" ELSE "terminal"]
  /\ UNCHANGED <<disk, active, cancel, unknown, owner, caller, stopping, world, up, bounds>>
Recover(r) ==
  /\ At("recover") /\ state[r] \in Unsettled
  /\ worker' = [worker EXCEPT !.task = r, !.phase = Phase(r), !.reason = "restart",
       !.final = IF Concluded(r) /\ r \in sealed THEN Verdict(r) ELSE Assumed(r),
       !.at = IF Concluded(r) THEN "settle" ELSE "terminal"]
  /\ UNCHANGED <<disk, active, cancel, unknown, owner, caller, stopping, world, up, bounds>>
Recovered ==
  /\ At("recover") /\ \A r \in Requests : state[r] \notin Unsettled
  /\ worker' = Off
  /\ UNCHANGED <<disk, active, cancel, unknown, owner, caller, stopping, world, up, bounds>>

\* A tree that outlived its service or its observation ends on its own.
Dies(r) ==
  /\ r \in alive /\ ~(r = active /\ owner # "none") /\ alive' = alive \ {r}
  /\ UNCHANGED <<disk, memory, spawned, held, jammed, up, bounds>>

------------------------------------------------------------------------------
Work ==
  \/ Begin \/ Accept \/ Ask \/ Mark \/ Spawn \/ SpawnFails \/ ProviderEnds \/ Judge
  \/ Generated \/ Examine \/ SpawnChecker \/ CheckerEnds \/ Checked \/ Ready
  \/ Seal \/ Publish \/ Terminal \/ TerminalFails \/ Sealing \/ SealingFails
  \/ Settle \/ SettleFails \/ Recovered \/ (\E r \in Requests : Recover(r))
Stopper == ForceStop \/ Unconfirmed \/ MarkUnknown

Next ==
  \/ Work \/ Stopper \/ Crash \/ Restart
  \/ \E r \in Requests : Stop(r) \/ Dies(r)
  \/ \E c \in Callers : Start(c) \/ \E r \in Requests : Check(c, r)

Spec == Init /\ [][Next]_vars
FairSpec == Spec /\ WF_vars(Work) /\ WF_vars(Stopper) /\ WF_vars(Restart)
=============================================================================
