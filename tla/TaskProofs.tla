------------------------------ MODULE TaskProofs ------------------------------
(***************************************************************************)
(* What the task store says is what the sealed evidence says, a provider   *)
(* is asked once and a stop is not overtaken: for every set of requests    *)
(* and callers and any number of crashes and failures.                     *)
(***************************************************************************)
EXTENDS TaskProperties, TLAPS

----------------------------------------------------------------------------
(* The inductive invariant.                                                *)

States == Unsettled \cup Ended \cup {"absent"}
Events == Terminals \cup {"task_start_accepted", "candidate_generated",
                          "candidate_check_completed"}
Early == {"begin", "accept", "ask", "mark", "spawn"}
Body == Early \cup {"generating", "judge", "generated", "examine", "check",
                    "checking", "checked", "ready"}
Closing == {"seal", "publish", "terminal", "sealing", "settle"}
Places == Body \cup Closing \cup {"off", "recover"}
Workers ==
  [at : Places, task : Requests \cup {None}, phase : States, dispatched : BOOLEAN,
   seen : {"none", "ok", "bad", "unconfirmed"},
   reason : Reasons \cup {"none", "restart"},
   final : Ended \cup {"none"}, restart : BOOLEAN]

Typed ==
  /\ state \in [Requests -> States] /\ dispatch \in [Requests -> BOOLEAN]
  /\ evidence \in [Requests -> Seq(Events)] /\ spawned \in [Requests -> Nat]
  /\ active \in Requests \cup {None} /\ worker \in Workers
  /\ caller \in [Callers -> Requests \cup {None}] /\ held \subseteq Requests

\* The last receipt of a task, if there is one.
Final(r) == IF evidence[r] = <<>> THEN "none" ELSE Last(evidence[r])
Finished(r) == evidence[r] = Append(Order, "candidate_ready") /\ r \notin alive

\* Of a task that no worker has: an absent one has left nothing, a ready one
\* every receipt and no process.
Filed ==
  /\ \A r \in Requests : state[r] = "absent" =>
       evidence[r] = <<>> /\ spawned[r] = 0 /\ r \notin held
  /\ active \in Requests => state[active] # "absent"
  /\ \A r \in Requests : Final(r) = "candidate_ready" => Finished(r)
  /\ AskedOnce /\ StoreFollowsEvidence

\* How the worker will end its task, and what the evidence says by then.
Fits == worker.final \in Ended \ {"candidate_ready"} /\ TerminalOf(worker.reason) =
  CASE worker.final = "cancelled" -> "task_cancelled"
    [] worker.final = "failed" -> "task_failed"
    [] OTHER -> "task_interrupted"
Justified ==
  LET last == Final(Task) IN
  CASE worker.final = "candidate_ready" -> Task \in sealed /\ last = "candidate_ready"
    [] worker.final = "cancelled" -> Task \in sealed /\ last = "task_cancelled"
    [] worker.final = "failed" ->
         evidence[Task] = <<>> \/ (Task \in sealed /\ last = "task_failed")
    [] OTHER -> worker.final \in Ended

\* Of the task the worker has.
Running == worker.at \notin {"off", "recover"}
Open == States \ {"absent", "candidate_ready", "failed", "cancelled"}
Working ==
  Running =>
    /\ Task \in Requests /\ state[Task] \in Open
    /\ worker.at \in Body =>
         Final(Task) \notin Terminals /\ (Task \in held => Task \in cancel)
    /\ worker.at \in Early => spawned[Task] = 0
    /\ worker.at = "begin" => evidence[Task] = <<>>
    /\ worker.at = "spawn" => dispatch[Task]
    /\ worker.at = "checked" /\ worker.seen = "ok" => Task \notin alive
    /\ worker.at = "ready" => Task \notin alive
    /\ worker.at \in {"seal", "publish"} => Finished(Task)
    /\ worker.at = "publish" => Task \in sealed
    /\ worker.at \in {"terminal", "sealing"} => Fits
    /\ worker.at = "sealing" => Final(Task) = TerminalOf(worker.reason)
    /\ worker.at = "settle" => Justified

IInv == Typed /\ Filed /\ Working

----------------------------------------------------------------------------
(* The worker's place.                                                     *)

LEMMA Goes ==
  ASSUME Typed, NEW p \in Places, Go(p)
  PROVE  /\ worker' \in Workers /\ worker'.at = p /\ worker'.task = Task
         /\ worker'.seen = worker.seen /\ worker'.reason = worker.reason
         /\ worker'.final = worker.final
BY DEF Typed, Workers, Go, Task

LEMMA Raises ==
  ASSUME Typed, NEW x \in Reasons, Raise(x)
  PROVE  /\ worker' \in Workers /\ worker'.at = "terminal" /\ worker'.task = Task
         /\ Fits'
<1>1. /\ worker'.at = "terminal" /\ worker'.task = Task /\ worker'.reason = x
      /\ worker'.final = CASE x = "unknown" -> "termination_unknown"
                           [] x = "cancelled" -> "cancelled"
                           [] OTHER -> "failed"
  BY DEF Typed, Workers, Raise, Task
<1>2. worker' \in Workers
  <2>1. /\ x \in Reasons \cup {"none", "restart"} /\ "terminal" \in Places
        /\ "termination_unknown" \in Ended /\ "cancelled" \in Ended /\ "failed" \in Ended
    BY DEF Places, Closing, Ended
  <2> QED
    BY <2>1 DEF Typed, Workers, Raise
<1>3. Fits'
  BY <1>1 DEF Fits, TerminalOf, Reasons, Ended
<1> QED
  BY <1>1, <1>2, <1>3

LEMMA InterruptedIsReason == Interrupted \in Reasons
BY DEF Interrupted, Reasons

\* A worker on its way to the handler carries nothing from where it was.
LEMMA WorkingRaised ==
  ASSUME Typed, Working, Running, NEW x \in Reasons, Raise(x), state'[Task] \in Open
  PROVE  Working'
<1>1. worker'.at = "terminal" /\ worker'.task = Task /\ Fits'
  BY Raises
<1>2. Task \in Requests
  BY DEF Working
<1> QED
  BY <1>1, <1>2 DEF Working, Task, Body, Early, Closing

\* Steps of others leave the worker what it relies on.
LEMMA WorkingKept ==
  ASSUME Typed, Working, worker' = worker,
         UNCHANGED <<dispatch, evidence, spawned, sealed>>, alive' \subseteq alive,
         \A r \in Requests : state'[r] = state[r] \/ state'[r] \in Open,
         \A r \in Requests : (r \in held => r \in cancel) => (r \in held' => r \in cancel')
  PROVE  Working'
<1>1. CASE ~Running
  BY <1>1 DEF Working, Running
<1>2. CASE Running
  <2>1. Task' = Task /\ Task \in Requests /\ state'[Task] \in Open
    BY <1>2 DEF Working, Task
  <2>2. Finished(Task) => Finished(Task)'
    BY <2>1 DEF Finished, Task
  <2>3. Final(Task)' = Final(Task) /\ (Fits => Fits') /\ (Justified => Justified')
    BY <2>1 DEF Final, Fits, Justified, Task
  <2>4. Task \notin alive => Task \notin alive'
    OBVIOUS
  <2>5. (Task \in held => Task \in cancel) => (Task \in held' => Task \in cancel')
    BY <2>1
  <2> HIDE DEF Task
  <2> QED
    BY <1>2, <2>1, <2>2, <2>3, <2>4, <2>5 DEF Working
<1> QED
  BY <1>1, <1>2

----------------------------------------------------------------------------
(* What is filed.                                                          *)

LEMMA FiledKept ==
  ASSUME Typed, Filed,
         UNCHANGED <<evidence, spawned>>, alive' \subseteq alive, sealed \subseteq sealed',
         \A r \in Requests : state'[r] = state[r] \/ state'[r] \in Open,
         \A r \in Requests : dispatch[r] => dispatch'[r],
         \A r \in Requests \cap held' : r \in held \/ state[r] # "absent",
         active' \in Requests => active' = active \/ state'[active'] # "absent"
  PROVE  Filed'
<1> USE DEF Filed
<1>1. \A r \in Requests : state'[r] = "absent" => state[r] = "absent"
  BY DEF Open
<1>2. active' \in Requests => state'[active'] # "absent"
  BY <1>1
<1>3. \A r \in Requests : Final(r)' = Final(r) /\ (Finished(r) => Finished(r)')
  BY DEF Final, Finished
<1>4. AskedOnce'
  BY DEF AskedOnce
<1>5. StoreFollowsEvidence'
  <2> SUFFICES ASSUME NEW r \in Requests
      PROVE  /\ state'[r] = "candidate_ready" =>
                  r \in sealed' /\ r \notin alive' /\ evidence'[r] = Append(Order, "candidate_ready")
             /\ state'[r] = "cancelled" => r \in sealed' /\ Last(evidence'[r]) = "task_cancelled"
             /\ state'[r] = "failed" /\ evidence'[r] # <<>> =>
                  r \in sealed' /\ Last(evidence'[r]) = "task_failed"
    BY DEF StoreFollowsEvidence
  <2>1. evidence' = evidence
    OBVIOUS
  <2>2. CASE state'[r] \in Open
    BY <2>2 DEF Open
  <2>3. CASE state'[r] = state[r]
    BY <2>1, <2>3 DEF StoreFollowsEvidence
  <2> QED
    BY <2>2, <2>3
<1> QED
  BY <1>1, <1>2, <1>3, <1>4, <1>5

LEMMA AppendEnds ==
  ASSUME NEW s \in Seq(Events), NEW e \in Events
  PROVE  /\ Append(s, e) \in Seq(Events) /\ Append(s, e) # <<>>
         /\ Last(Append(s, e)) = e
         /\ Range(Append(s, e)) \subseteq Range(s) \cup {e}
<1>1. Append(s, e) \in Seq(Events) /\ Len(Append(s, e)) = Len(s) + 1 /\ Len(s) \in Nat
  OBVIOUS
<1>2. Last(Append(s, e)) = e
  BY <1>1 DEF Last
<1>3. \A i \in DOMAIN Append(s, e) : Append(s, e)[i] = e \/ (i \in DOMAIN s /\ Append(s, e)[i] = s[i])
  OBVIOUS
<1>4. Range(Append(s, e)) \subseteq Range(s) \cup {e}
  BY <1>3, Zenon DEF Range
<1> QED
  BY <1>1, <1>2, <1>4

\* Nothing follows a terminal receipt.
LEMMA AdmitsOpen ==
  ASSUME NEW s \in Seq(Events), s # <<>>, NEW e, NEW p, Admits(s, e, p)
  PROVE  Last(s) \notin Terminals
<1>1. Len(s) \in DOMAIN s
  OBVIOUS
<1> QED
  BY <1>1 DEF Admits, Last

LEMMA AdmitsReady ==
  ASSUME NEW s, NEW p, Admits(s, "candidate_ready", p)
  PROVE  s = Order
BY DEF Admits

\* A receipt of the worker.
LEMMA FiledRecorded ==
  ASSUME Typed, Filed, Working, Running, NEW e \in Events, Record(e),
         NEW t, t = Task,
         UNCHANGED <<state, dispatch, sealed, alive, spawned, held, active>>,
         e = "candidate_ready" => t \notin alive
  PROVE  /\ Filed' /\ Final(t)' = e /\ evidence' \in [Requests -> Seq(Events)]
         /\ e = "candidate_ready" => Finished(t)'
<1>1. t \in Requests /\ state[t] \in Open /\ evidence[t] \in Seq(Events)
  BY DEF Working, Typed
<1>2. /\ evidence' = [evidence EXCEPT ![t] = Append(evidence[t], e)]
      /\ Admits(evidence[t], e, worker.phase)
  BY DEF Record
<1>3. /\ evidence'[t] = Append(evidence[t], e)
      /\ \A r \in Requests \ {t} : evidence'[r] = evidence[r]
  BY <1>1, <1>2 DEF Typed
<1>4. evidence'[t] # <<>> /\ Last(evidence'[t]) = e /\ evidence'[t] \in Seq(Events)
  BY <1>1, <1>3, AppendEnds
<1>5. evidence' \in [Requests -> Seq(Events)]
  BY <1>1, <1>2, <1>4 DEF Typed
<1>6. Final(t)' = e /\ \A r \in Requests \ {t} : Final(r)' = Final(r)
  BY <1>3, <1>4 DEF Final
<1>7. e = "candidate_ready" => evidence[t] = Order
  BY <1>2, AdmitsReady
<1>8. e = "candidate_ready" => Finished(t)'
  BY <1>3, <1>7 DEF Finished
<1>9. \A r \in Requests : Final(r)' = "candidate_ready" => Finished(r)'
  <2>1. \A r \in Requests \ {t} : Finished(r) => Finished(r)'
    BY <1>3 DEF Finished
  <2> QED
    BY <1>6, <1>8, <2>1 DEF Filed
<1>10. AskedOnce'
  BY DEF Filed, AskedOnce
<1>11. StoreFollowsEvidence'
  BY <1>1, <1>3 DEF Filed, StoreFollowsEvidence, Open
<1>12. /\ \A r \in Requests : state'[r] = "absent" =>
            evidence'[r] = <<>> /\ spawned'[r] = 0 /\ r \notin held'
       /\ active' \in Requests => state'[active'] # "absent"
  BY <1>1, <1>3 DEF Filed, Open
<1> QED
  BY <1>5, <1>6, <1>8, <1>9, <1>10, <1>11, <1>12 DEF Filed

----------------------------------------------------------------------------
(* Callers, the stopper, the crash.                                        *)

LEMMA OutsideInv ==
  ASSUME IInv,
         \/ \E r \in Requests : Stop(r) \/ Dies(r)
         \/ \E c \in Callers : Start(c) \/ \E r \in Requests : Check(c, r)
         \/ Stopper \/ Crash \/ Restart
  PROVE  IInv'
<1>0. Typed /\ Filed /\ Working
  BY DEF IInv
<1> USE DEF IInv
<1>1. ASSUME NEW r \in Requests, Stop(r) PROVE IInv'
  <2>1. "stop_requested" \in Open /\ state[r] # "absent"
    BY <1>0, <1>1 DEF Stop, Open, States, Unsettled, Filed
  <2>2. Typed'
    BY <1>0, <1>1, <2>1 DEF Stop, Typed, Open
  <2>3. \A x \in Requests : state'[x] = state[x] \/ state'[x] \in Open
    BY <1>0, <1>1, <2>1 DEF Stop, Typed
  <2>4. Filed'
    BY <1>0, <1>1, <2>1, <2>3, FiledKept DEF Stop
  <2>5. Working'
    BY <1>0, <1>1, <2>3, WorkingKept DEF Stop
  <2> QED
    BY <2>2, <2>4, <2>5
<1>2. ASSUME NEW r \in Requests, Dies(r) PROVE IInv'
  BY <1>0, <1>2, FiledKept, WorkingKept DEF Dies, disk, memory, Typed
<1>3. ASSUME NEW c \in Callers, Start(c) PROVE IInv'
  <2>0. PICK r \in Requests : r = caller[c]
    BY <1>0, <1>3 DEF Start, Typed
  <2>1. CASE active = None /\ state[r] = "absent"
    <3>1. /\ state' = [state EXCEPT ![r] = "reserved"] /\ active' = r
          /\ worker' = [Off EXCEPT !.at = "begin", !.task = r]
          /\ caller' = [caller EXCEPT ![c] = None]
          /\ UNCHANGED <<dispatch, evidence, sealed, alive, spawned, held, cancel>>
      BY <1>3, <2>0, <2>1 DEF Start, world
    <3>2. "reserved" \in Open
      BY DEF Open, States, Unsettled
    <3>3. /\ worker' \in Workers /\ worker'.at = "begin" /\ worker'.task = r
      BY <2>0, <3>1 DEF Off, Workers, Places, Body, Early, States, Unsettled
    <3>4. Typed'
      BY <1>0, <2>0, <3>1, <3>2, <3>3 DEF Typed, Open
    <3>5. state'[r] = "reserved" /\ \A x \in Requests : state'[x] = state[x] \/ state'[x] \in Open
      BY <1>0, <2>0, <3>1, <3>2 DEF Typed
    <3>6. Filed'
      BY <1>0, <3>1, <3>5, FiledKept
    <3>7. evidence[r] = <<>> /\ spawned[r] = 0 /\ r \notin held
      BY <1>0, <2>0, <2>1 DEF Filed
    <3>8. Working'
      <4>1. Task' = r /\ Final(r)' = "none"
        BY <3>1, <3>3, <3>7 DEF Task, Final
      <4> QED
        BY <2>0, <3>1, <3>2, <3>3, <3>5, <3>7, <4>1
           DEF Working, Running, Task, Terminals, Body, Early, Closing, Final
    <3> QED
      BY <3>4, <3>6, <3>8
  <2>2. CASE ~(active = None /\ state[r] = "absent")
    <3>1. /\ UNCHANGED <<state, active, worker, dispatch, evidence, sealed, cancel>>
          /\ caller' = [caller EXCEPT ![c] = None]
          /\ UNCHANGED <<alive, spawned, held>>
      BY <1>3, <2>0, <2>2 DEF Start, world
    <3> QED
      BY <1>0, <3>1, FiledKept, WorkingKept DEF Typed
  <2> QED
    BY <2>1, <2>2
<1>4. ASSUME NEW c \in Callers, NEW r \in Requests, Check(c, r) PROVE IInv'
  BY <1>0, <1>4, FiledKept, WorkingKept DEF Check, disk, world, Typed
<1>5. CASE ForceStop \/ Unconfirmed
  BY <1>0, <1>5, FiledKept, WorkingKept DEF ForceStop, Unconfirmed, disk, world, Typed
<1>6. CASE MarkUnknown
  <2>1. "termination_unknown" \in Open
    BY DEF Open, States, Ended
  <2>2. state' = [state EXCEPT ![stopping.task] = "termination_unknown"]
    BY <1>6 DEF MarkUnknown
  <2>3. /\ state' \in [Requests -> States]
        /\ \A x \in Requests : state'[x] = state[x] \/ state'[x] \in Open
    BY <1>0, <2>1, <2>2 DEF Typed, Open
  <2> QED
    BY <1>0, <1>6, <2>3, FiledKept, WorkingKept DEF MarkUnknown, world, Typed
<1>7. CASE Crash
  <2>1. /\ UNCHANGED <<state, dispatch, evidence, sealed, spawned, held>> /\ alive' \subseteq alive
        /\ active' = None /\ caller' = [x \in Callers |-> None] /\ worker' = Off
    BY <1>7 DEF Crash, disk
  <2>2. Off \in Workers /\ Off.at = "off"
    BY DEF Off, Workers, Places, States, Unsettled
  <2>3. Typed'
    BY <1>0, <2>1, <2>2 DEF Typed
  <2>4. Filed'
    BY <1>0, <2>1, TasksAssumption, FiledKept
  <2> QED
    BY <2>1, <2>2, <2>3, <2>4 DEF Working, Running
<1>8. CASE Restart
  <2>1. /\ UNCHANGED <<state, dispatch, evidence, sealed, spawned, held, alive, active, caller>>
        /\ worker' = [Off EXCEPT !.at = "recover", !.restart = TRUE]
    BY <1>8 DEF Restart, disk, world
  <2>2. worker' \in Workers /\ worker'.at = "recover"
    BY <2>1 DEF Off, Workers, Places, States, Unsettled
  <2>3. Typed'
    BY <1>0, <2>1, <2>2 DEF Typed
  <2>4. Filed'
    BY <1>0, <2>1, FiledKept
  <2> QED
    BY <2>1, <2>2, <2>3, <2>4 DEF Working, Running
<1> QED
  BY <1>1, <1>2, <1>3, <1>4, <1>5, <1>6, <1>7, <1>8 DEF Stopper

----------------------------------------------------------------------------
(* The worker, without a receipt.                                          *)

\* The files stay, but that the task may be in another open state.
Keeps ==
  /\ state' = state \/ \E s \in Open : state' = [state EXCEPT ![Task] = s]
  /\ UNCHANGED <<evidence, sealed, spawned, held, active, caller>>
  /\ alive' \subseteq alive /\ \A r \in Requests : dispatch[r] => dispatch'[r]
  /\ dispatch' \in [Requests -> BOOLEAN] /\ worker' \in Workers

LEMMA KeepsFiled ==
  ASSUME IInv, Keeps
  PROVE  /\ Typed' /\ Filed' /\ \A r \in Requests : state'[r] = state[r] \/ state'[r] \in Open
         /\ Running => state'[Task] \in Open
<1>0. Typed /\ Filed /\ Working
  BY DEF IInv
<1>1. /\ \A r \in Requests : state'[r] = state[r] \/ state'[r] \in Open
      /\ state' \in [Requests -> States]
  BY <1>0 DEF Keeps, Typed, Open
<1>2. Filed'
  BY <1>0, <1>1, FiledKept DEF Keeps
<1>3. Typed'
  BY <1>0, <1>1 DEF Keeps, Typed
<1>4. Running => state'[Task] \in Open
  BY <1>0, <1>1 DEF Working
<1> QED
  BY <1>1, <1>2, <1>3, <1>4

LEMMA BodyInv ==
  ASSUME IInv,
         \/ Begin \/ Ask \/ Mark \/ SpawnFails \/ Judge \/ Examine
  PROVE  IInv'
<1>0. Typed /\ Filed /\ Working /\ Running
  BY DEF IInv, Running, Begin, Ask, Mark, SpawnFails, Judge, Examine, At
<1>1. /\ {"preparing", "generating", "checking"} \subseteq Open
      /\ "failed" \in Reasons /\ "cancelled" \in Reasons /\ "unknown" \in Reasons
  BY DEF Open, States, Unsettled, Reasons
<1>2. PICK t \in Requests : t = Task
  BY <1>0 DEF Working
<1>3. CASE Begin
  <2>1. Keeps /\ worker' \in Workers
    <3>1. CASE Go("accept")
      BY <1>0, <1>1, <1>3, <3>1, Goes DEF Begin, WorkerOnly, Keeps, Typed, Places, Body, Early
    <3>2. CASE RaiseBare
      <4>1. worker' \in Workers
        BY <1>0, <3>2 DEF RaiseBare, Typed, Workers, Places, Closing, Ended
      <4> QED
        BY <1>0, <1>1, <1>3, <4>1 DEF Begin, WorkerOnly, Keeps, Typed
    <3> QED
      BY <1>3, <3>1, <3>2 DEF Begin
  <2>2. state'[t] \in Open
    BY <1>0, <1>2, <2>1, KeepsFiled
  <2>3. Working'
    <3>1. CASE Go("accept")
      BY <1>0, <1>2, <1>3, <2>2, <3>1, Goes
         DEF Begin, At, WorkerOnly, Working, Running, Task, Places, Body, Early, Closing, Final
    <3>2. CASE RaiseBare
      <4>1. worker'.at = "settle" /\ worker'.final = "failed" /\ worker'.task = t
        BY <1>0, <1>2, <3>2 DEF RaiseBare, Typed, Workers, Task
      <4>2. evidence'[t] = <<>>
        BY <1>0, <1>2, <1>3 DEF Begin, At, Working
      <4> QED
        BY <2>2, <4>1, <4>2 DEF Working, Running, Task, Body, Early, Justified
    <3> QED
      BY <1>3, <3>1, <3>2 DEF Begin
  <2> QED
    BY <2>1, <2>3, KeepsFiled DEF IInv
<1>4. ASSUME Ask \/ SpawnFails \/ Judge, \E x \in Reasons : Raise(x) PROVE IInv'
  <2>1. Keeps
    BY <1>0, <1>4, Raises DEF Ask, SpawnFails, Judge, WorkerOnly, Keeps, Typed
  <2> QED
    BY <1>0, <1>4, <2>1, KeepsFiled, WorkingRaised DEF IInv
<1>5. CASE Ask
  <2>1. CASE worker' = [worker EXCEPT !.at = "mark", !.phase = "generating"]
    <3>1. worker' \in Workers /\ worker'.at = "mark" /\ worker'.task = t
      BY <1>0, <1>2, <2>1 DEF Typed, Workers, Places, Body, Early, States, Unsettled, Task
    <3>2. Keeps
      BY <1>0, <1>5, <3>1 DEF Ask, WorkerOnly, Keeps, Typed
    <3>3. Working'
      BY <1>0, <1>2, <1>5, <3>1 DEF Ask, At, WorkerOnly, Working, Running, Task, Body, Early, Final
    <3> QED
      BY <3>2, <3>3, KeepsFiled DEF IInv
  <2> QED
    BY <1>1, <1>4, <1>5, <2>1 DEF Ask
<1>6. CASE Mark
  <2>1. /\ worker' \in Workers /\ worker'.at = "spawn" /\ worker'.task = t
        /\ dispatch' = [dispatch EXCEPT ![t] = TRUE]
        /\ state' = [state EXCEPT ![t] = "generating"]
        /\ UNCHANGED <<evidence, sealed, spawned, held, alive, active, caller, cancel>>
    BY <1>0, <1>2, <1>6, Goes DEF Mark, world, Places, Body, Early
  <2>2. Keeps /\ dispatch'[t]
    BY <1>0, <1>1, <1>2, <2>1 DEF Keeps, Typed
  <2>3. state'[t] \in Open
    BY <1>0, <1>2, <2>2, KeepsFiled
  <2>4. Working'
    BY <1>0, <1>2, <1>6, <2>1, <2>2, <2>3
       DEF Mark, At, Working, Running, Task, Body, Early, Final
  <2> QED
    BY <2>2, <2>4, KeepsFiled DEF IInv
<1>7. CASE Judge
  <2>1. CASE Go("generated")
    <3>1. Keeps
      BY <1>0, <1>7, <2>1, Goes DEF Judge, WorkerOnly, Keeps, Typed, Places, Body
    <3>2. Working'
      BY <1>0, <1>2, <1>7, <2>1, Goes
         DEF Judge, At, WorkerOnly, Working, Running, Task, Places, Body, Early, Closing, Final
    <3> QED
      BY <3>1, <3>2, KeepsFiled DEF IInv
  <2> QED
    BY <1>1, <1>4, <1>7, <2>1 DEF Judge
<1>8. CASE Examine
  <2>1. Keeps
    BY <1>0, <1>1, <1>8, Goes DEF Examine, WorkerOnly, Keeps, Typed, Places, Body
  <2>2. state'[t] \in Open
    BY <1>0, <1>2, <2>1, KeepsFiled
  <2>3. Working'
    BY <1>0, <1>2, <1>8, <2>2, Goes
       DEF Examine, At, WorkerOnly, Working, Running, Task, Places, Body, Early, Closing, Final
  <2> QED
    BY <2>1, <2>3, KeepsFiled DEF IInv
<1>9. CASE SpawnFails
  BY <1>1, <1>4, <1>9 DEF SpawnFails
<1> QED
  BY <1>3, <1>5, <1>6, <1>7, <1>8, <1>9

\* A task that has a process has evidence that goes on.
LEMMA ProcessInv ==
  ASSUME IInv, Spawn \/ SpawnChecker \/ ProviderEnds \/ CheckerEnds
  PROVE  IInv'
<1>0. Typed /\ Filed /\ Working /\ Running
  BY DEF IInv, Running, Spawn, SpawnChecker, ProviderEnds, CheckerEnds, At
<1>1. PICK t \in Requests : t = Task
  BY <1>0 DEF Working
<1>2. state[t] \in Open /\ t \in Requests
  BY <1>0, <1>1 DEF Working
<1>3. CASE Spawn \/ SpawnChecker
  <2>1. /\ alive' = alive \cup {t} /\ (Go("generating") \/ Go("checking"))
        /\ UNCHANGED <<disk, held, active, cancel, caller>>
        /\ spawned' = spawned \/ (At("spawn") /\ spawned' = [spawned EXCEPT ![t] = @ + 1])
        /\ worker.at \in Body
    BY <1>1, <1>3 DEF Spawn, SpawnChecker, Spawns, At, Body, Early
  <2>2. Final(t) \notin Terminals
    BY <1>0, <1>1, <2>1 DEF Working
  <2>3. spawned' = spawned \/ (spawned[t] = 0 /\ dispatch[t] /\ spawned' = [spawned EXCEPT ![t] = 1])
    BY <1>0, <1>1, <2>1 DEF At, Working, Early
  <2>4. /\ worker' \in Workers /\ worker'.task = t
        /\ worker'.at \in Body \ (Early \cup {"checked", "ready"})
    <3>1. {"generating", "checking"} \subseteq Places \cap (Body \ (Early \cup {"checked", "ready"}))
      BY DEF Places, Body, Early
    <3> QED
      BY <1>0, <1>1, <2>1, <3>1, Goes
  <2>8. /\ spawned' \in [Requests -> Nat]
        /\ \A r \in Requests : spawned'[r] = spawned[r] \/ (spawned'[r] = 1 /\ dispatch[r])
    <3>1. spawned \in [Requests -> Nat]
      BY <1>0 DEF Typed
    <3>2. CASE spawned' = spawned
      BY <3>1, <3>2
    <3>3. CASE dispatch[t] /\ spawned' = [spawned EXCEPT ![t] = 1]
      BY <3>1, <3>3
    <3> QED
      BY <2>3, <3>2, <3>3
  <2>5. Typed'
    <3>1. UNCHANGED <<state, dispatch, evidence, active, caller, held>>
      BY <2>1 DEF disk
    <3> QED
      BY <1>0, <2>4, <2>8, <3>1 DEF Typed
  <2>6. Filed'
    <3>1. AskedOnce'
      <4>1. dispatch' = dispatch /\ AskedOnce
        BY <1>0, <2>1 DEF Filed, disk
      <4> QED
        BY <2>8, <4>1 DEF AskedOnce
    <3>2. StoreFollowsEvidence'
      BY <1>0, <1>2, <2>1 DEF Filed, StoreFollowsEvidence, disk, Open
    <3>3. \A r \in Requests : Final(r)' = Final(r)
      BY <2>1 DEF Final, disk
    <3>4. \A r \in Requests \ {t} : Finished(r) => Finished(r)'
      BY <2>1 DEF Finished, disk
    <3>5. \A r \in Requests : Final(r)' = "candidate_ready" => Finished(r)'
      BY <1>0, <2>2, <3>3, <3>4 DEF Filed, Terminals
    <3>6. \A r \in Requests : state'[r] = "absent" =>
            evidence'[r] = <<>> /\ spawned'[r] = 0 /\ r \notin held'
      BY <1>0, <1>2, <2>1, <2>3 DEF Filed, disk, Open, Typed
    <3> QED
      BY <1>0, <2>1, <3>1, <3>2, <3>5, <3>6 DEF Filed, disk
  <2>7. Working'
    <3>1. Final(t)' = Final(t) /\ state'[t] \in Open /\ (t \in held' => t \in cancel')
      BY <1>0, <1>1, <1>2, <2>1 DEF Final, disk, Working
    <3> QED
      BY <2>2, <2>4, <3>1 DEF Working, Task, Body, Early, Closing
  <2> QED
    BY <2>5, <2>6, <2>7 DEF IInv
<1>4. ASSUME NEW next \in {"judge", "checked"}, Observe(next), worker.at \in Body PROVE IInv'
  <2>1. UNCHANGED <<disk, spawned, held, active, cancel, caller>> /\ alive' \subseteq alive
    BY <1>4 DEF Observe
  <2>2. CASE Raise("unknown")
    <3>1. "unknown" \in Reasons
      BY DEF Reasons
    <3>2. Keeps
      BY <1>0, <2>1, <2>2, <3>1, Raises DEF Keeps, disk, Typed
    <3> QED
      BY <1>0, <2>2, <3>1, <3>2, KeepsFiled, WorkingRaised DEF IInv
  <2>3. ASSUME NEW seen \in {"ok", "bad", "unconfirmed"},
               worker' = [worker EXCEPT !.at = next, !.seen = seen],
               seen = "ok" => alive' = alive \ {Task}
        PROVE  IInv'
    <3>1. /\ worker' \in Workers /\ worker'.at = next /\ worker'.task = t
          /\ worker'.seen = seen
      BY <1>0, <1>1, <1>4, <2>3 DEF Typed, Workers, Places, Body, Task
    <3>2. Keeps
      BY <1>0, <2>1, <3>1 DEF Keeps, disk, Typed
    <3>3. Final(t)' = Final(t) /\ Final(t) \notin Terminals /\ state'[t] \in Open
          /\ (t \in held' => t \in cancel')
      BY <1>0, <1>1, <1>2, <1>4, <2>1 DEF Final, disk, Working
    <3>4. Working'
      BY <1>1, <2>3, <3>1, <3>3 DEF Working, Task, Body, Early, Closing
    <3> QED
      BY <3>2, <3>4, KeepsFiled DEF IInv
  <2>4. \/ Raise("unknown")
        \/ \E seen \in {"ok", "bad", "unconfirmed"} :
             /\ worker' = [worker EXCEPT !.at = next, !.seen = seen]
             /\ seen = "ok" => alive' = alive \ {Task}
    BY <1>4 DEF Observe
  <2> QED
    BY <2>2, <2>3, <2>4
<1> QED
  BY <1>3, <1>4 DEF ProviderEnds, CheckerEnds, At, Body

----------------------------------------------------------------------------
(* The worker's receipts.                                                  *)

\* A receipt is appended and the worker goes on to a place that it allows.
LEMMA RecordedInv ==
  ASSUME IInv, Running, NEW e \in Events, Record(e), worker' \in Workers, worker'.task = Task,
         UNCHANGED <<state, dispatch, sealed, alive, spawned, held, active, cancel, caller>>,
         \/ /\ worker.at \in Body /\ e \notin Terminals
            /\ worker'.at \in Body \ (Early \cup {"spawn", "checked", "ready"})
         \/ /\ worker.at = "accept" /\ e \notin Terminals /\ worker'.at = "ask"
         \/ /\ worker.at = "checked" /\ e \notin Terminals
            /\ worker'.at = "ready" /\ worker.seen = "ok"
         \/ worker'.at = "terminal" /\ Fits' /\ e # "candidate_ready"
         \/ /\ worker.at = "ready" /\ worker'.at = "seal" /\ e = "candidate_ready"
         \/ /\ worker.at = "terminal" /\ worker'.at = "sealing" /\ Fits'
            /\ e # "candidate_ready" /\ e = TerminalOf(worker'.reason)
  PROVE  IInv'
<1>0. Typed /\ Filed /\ Working
  BY DEF IInv
<1>1. PICK t \in Requests : t = Task
  BY <1>0 DEF Working
<1>2. e = "candidate_ready" => t \notin alive
  BY <1>0, <1>1 DEF Working, Terminals
<1>3. /\ Filed' /\ Final(t)' = e /\ evidence' \in [Requests -> Seq(Events)]
      /\ e = "candidate_ready" => Finished(t)'
  BY <1>0, <1>1, <1>2, FiledRecorded
<1>4. Typed'
  BY <1>0, <1>3 DEF Typed
<1>5. state'[t] \in Open
  BY <1>0, <1>1 DEF Working
<1>6. Working'
  BY <1>0, <1>1, <1>3, <1>5 DEF Working, Task, Body, Early, Closing
<1> QED
  BY <1>3, <1>4, <1>6 DEF IInv

LEMMA ReceiptInv ==
  ASSUME IInv, Accept \/ Generated \/ Checked \/ Ready \/ Terminal
  PROVE  IInv'
<1>0. Typed /\ Filed /\ Working /\ Running
  BY DEF IInv, Running, Accept, Generated, Checked, Ready, Terminal, At
<1>1. /\ UNCHANGED <<state, dispatch, sealed, alive, spawned, held, active, cancel, caller>>
  BY DEF Accept, Generated, Checked, Ready, Terminal, WorkerOnly
<1>2. ASSUME UNCHANGED evidence, \E x \in Reasons : Raise(x) PROVE IInv'
  <2>1. Keeps
    BY <1>0, <1>1, <1>2, Raises DEF Keeps, Typed
  <2> QED
    BY <1>0, <1>2, <2>1, KeepsFiled, WorkingRaised DEF IInv
<1>3. /\ "failed" \in Reasons /\ Interrupted \in Reasons
  BY InterruptedIsReason DEF Reasons
<1>4. CASE Accept /\ Record("task_start_accepted") /\ Go("ask")
  BY <1>0, <1>1, <1>4, Goes, RecordedInv DEF Accept, At, Events, Terminals, Places, Body, Early
<1>5. CASE /\ Generated /\ Record("candidate_generated")
           /\ worker' = [worker EXCEPT !.at = "examine", !.phase = "checking"]
  <2>1. worker' \in Workers /\ worker'.at = "examine" /\ worker'.task = Task
    BY <1>0, <1>5 DEF Typed, Workers, Places, Body, Early, States, Unsettled, Task
  <2>2. "candidate_generated" \in Events \ Terminals /\ worker.at \in Body
        /\ worker'.at \in Body \ (Early \cup {"spawn", "checked", "ready"})
    BY <1>5, <2>1 DEF Generated, At, Events, Terminals, Body, Early
  <2> QED
    BY <1>0, <1>1, <1>5, <2>1, <2>2, RecordedInv
<1>6. CASE /\ Checked /\ Record("candidate_check_completed")
           /\ IF worker.seen = "ok" THEN Go("ready") ELSE Raise("failed")
  <2>1. "candidate_check_completed" \in Events \ Terminals /\ worker.at = "checked"
    BY <1>6 DEF Checked, At, Events, Terminals
  <2>2. CASE worker.seen = "ok"
    <3>1. worker' \in Workers /\ worker'.at = "ready" /\ worker'.task = Task
      BY <1>0, <1>6, <2>2, Goes DEF Places, Body
    <3> QED
      BY <1>0, <1>1, <1>6, <2>1, <2>2, <3>1, RecordedInv
  <2>3. CASE worker.seen # "ok"
    <3>1. worker' \in Workers /\ worker'.at = "terminal" /\ worker'.task = Task /\ Fits'
      BY <1>0, <1>3, <1>6, <2>3, Raises
    <3>2. "candidate_check_completed" # "candidate_ready"
      OBVIOUS
    <3> QED
      BY <1>0, <1>1, <1>6, <2>1, <3>1, <3>2, RecordedInv
  <2> QED
    BY <2>2, <2>3
<1>7. CASE Ready /\ Record("candidate_ready") /\ Go("seal")
  BY <1>0, <1>1, <1>7, Goes, RecordedInv DEF Ready, At, Events, Terminals, Places, Closing
<1>8. CASE Terminal
  <2>1. Record(TerminalOf(worker.reason)) /\ Go("sealing") /\ worker.at = "terminal"
    BY <1>8 DEF Terminal, At
  <2>2. /\ worker' \in Workers /\ worker'.at = "sealing" /\ worker'.task = Task
        /\ worker'.reason = worker.reason /\ worker'.final = worker.final
    BY <1>0, <2>1, Goes DEF Places, Closing
  <2>3. Fits
    BY <1>0, <2>1 DEF Working, Running
  <2>4. Fits'
    BY <2>2, <2>3 DEF Fits
  <2>5. TerminalOf(worker.reason) \in Events \ {"candidate_ready"}
    BY DEF TerminalOf, Events, Terminals
  <2> QED
    BY <1>0, <1>1, <2>1, <2>2, <2>4, <2>5, RecordedInv
<1> QED
  BY <1>2, <1>3, <1>4, <1>5, <1>6, <1>7, <1>8 DEF Accept, Generated, Checked, Ready

----------------------------------------------------------------------------
(* The end of a task.                                                      *)

LEMMA Leaves ==
  ASSUME Typed, Leave, TasksAssumption
  PROVE  /\ worker' \in Workers /\ worker'.at \in {"off", "recover"}
         /\ active' \in Requests \cup {None} /\ (active' \in Requests => active' = active)
         /\ Working'
<1>1. worker' = Off \/ worker' = [Off EXCEPT !.at = "recover", !.restart = TRUE]
  BY DEF Leave
<1>2. worker' \in Workers /\ worker'.at \in {"off", "recover"}
  <2>1. Off \in Workers /\ Off.at = "off"
    BY DEF Off, Workers, Places, States, Unsettled
  <2>2. /\ [Off EXCEPT !.at = "recover", !.restart = TRUE] \in Workers
        /\ [Off EXCEPT !.at = "recover", !.restart = TRUE].at = "recover"
    BY DEF Off, Workers, Places, States, Unsettled
  <2> QED
    BY <1>1, <2>1, <2>2
<1>3. active' \in {active, None} /\ active \in Requests \cup {None}
  BY DEF Leave, Typed
<1> QED
  <2>1. Working'
    BY <1>2 DEF Working, Running
  <2> QED
    BY <1>2, <1>3, <2>1, TasksAssumption

\* The task has its last state: what it says is what was sealed.
LEMMA LeavesInv ==
  ASSUME IInv, Running, Leave, NEW s \in Ended, state' = [state EXCEPT ![Task] = s],
         UNCHANGED <<dispatch, evidence, sealed, alive, spawned, held, caller>>,
         s = "candidate_ready" => Task \in sealed /\ Finished(Task),
         s = "cancelled" => Task \in sealed /\ Final(Task) = "task_cancelled",
         s = "failed" => evidence[Task] = <<>> \/ (Task \in sealed /\ Final(Task) = "task_failed")
  PROVE  IInv'
<1>0. Typed /\ Filed /\ Working
  BY DEF IInv
<1>1. PICK t \in Requests : t = Task
  BY <1>0 DEF Working
<1>2. /\ state'[t] = s /\ \A r \in Requests \ {t} : state'[r] = state[r]
      /\ state' \in [Requests -> States] /\ s \in States \ {"absent"}
  <2>1. s \in States \ {"absent"}
    BY DEF States, Ended
  <2> QED
    BY <1>0, <1>1, <2>1 DEF Typed
<1>3. Typed' /\ Working' /\ (active' \in Requests => active' = active)
  BY <1>0, <1>2, TasksAssumption, Leaves DEF Typed
<1>4. StoreFollowsEvidence'
  <2> SUFFICES ASSUME NEW r \in Requests
      PROVE  /\ state'[r] = "candidate_ready" =>
                  r \in sealed' /\ r \notin alive' /\ evidence'[r] = Append(Order, "candidate_ready")
             /\ state'[r] = "cancelled" => r \in sealed' /\ Last(evidence'[r]) = "task_cancelled"
             /\ state'[r] = "failed" /\ evidence'[r] # <<>> =>
                  r \in sealed' /\ Last(evidence'[r]) = "task_failed"
    BY DEF StoreFollowsEvidence
  <2>1. CASE r = t
    BY <1>1, <1>2, <2>1 DEF Finished, Final
  <2>2. CASE r # t
    BY <1>0, <1>2, <2>2 DEF Filed, StoreFollowsEvidence
  <2> QED
    BY <2>1, <2>2
<1>5. Filed'
  <2>1. AskedOnce'
    BY <1>0 DEF Filed, AskedOnce
  <2>2. \A r \in Requests : Final(r)' = Final(r) /\ (Finished(r) => Finished(r)')
    BY DEF Final, Finished
  <2>3. \A r \in Requests : state'[r] = "absent" => state[r] = "absent"
    BY <1>2
  <2> QED
    BY <1>0, <1>3, <1>4, <2>1, <2>2, <2>3 DEF Filed
<1> QED
  BY <1>3, <1>5 DEF IInv

\* The task keeps its state, and the service goes on without it.
LEMMA LeavesAsIs ==
  ASSUME IInv, Leave, UNCHANGED <<state, dispatch, evidence, sealed, alive, spawned, held, caller>>
  PROVE  IInv'
<1>0. Typed /\ Filed
  BY DEF IInv
<1>1. Working' /\ worker' \in Workers /\ active' \in Requests \cup {None}
      /\ (active' \in Requests => active' = active)
  BY <1>0, TasksAssumption, Leaves
<1>2. Typed'
  BY <1>0, <1>1 DEF Typed
<1>3. Filed'
  BY <1>0, <1>1, FiledKept
<1> QED
  BY <1>1, <1>2, <1>3 DEF IInv

\* No terminal receipt: the task counts as interrupted.
LEMMA GivesUpInv ==
  ASSUME IInv, GiveUp("terminal") \/ GiveUp("sealing")
  PROVE  IInv'
<1>0. Typed /\ Filed /\ Working /\ Running
  BY DEF IInv, Running, GiveUp, At
<1>1. /\ worker' = [worker EXCEPT !.at = "settle", !.final = "interrupted"]
      /\ UNCHANGED <<disk, active, cancel, caller, world>>
  BY DEF GiveUp
<1>2. PICK t \in Requests : t = Task
  BY <1>0 DEF Working
<1>3. /\ worker' \in Workers /\ worker'.at = "settle" /\ worker'.final = "interrupted"
      /\ worker'.task = t
  BY <1>0, <1>1, <1>2 DEF Typed, Workers, Places, Closing, Ended, Task
<1>4. Keeps
  BY <1>0, <1>1, <1>3 DEF Keeps, disk, world, Typed
<1>5. state'[t] \in Open
  BY <1>0, <1>2, <1>4, KeepsFiled
<1>6. Working'
  BY <1>3, <1>5 DEF Working, Task, Body, Early, Justified, Ended
<1> QED
  BY <1>4, <1>6, KeepsFiled DEF IInv

LEMMA SealInv ==
  ASSUME IInv, Seal \/ Sealing
  PROVE  IInv'
<1>0. Typed /\ Filed /\ Working /\ Running
  BY DEF IInv, Running, Seal, Sealing, At
<1>1. UNCHANGED <<state, dispatch, evidence, alive, spawned, held, active, cancel, caller>>
  BY DEF Seal, Sealing, world
<1>2. PICK t \in Requests : t = Task
  BY <1>0 DEF Working
<1>3. state'[t] \in Open /\ \A r \in Requests : state'[r] = state[r]
  BY <1>0, <1>1, <1>2 DEF Working
<1>4. CASE Seal /\ sealed' = sealed \cup {Task} /\ Go("publish")
  <2>1. /\ worker' \in Workers /\ worker'.at = "publish" /\ worker'.task = t /\ t \in sealed'
    BY <1>0, <1>2, <1>4, Goes DEF Places, Closing
  <2>2. Finished(t)'
    BY <1>0, <1>1, <1>2, <1>4 DEF Working, Seal, At, Finished
  <2>3. Working'
    BY <1>3, <2>1, <2>2 DEF Working, Task, Body, Early
  <2>4. Typed' /\ Filed'
    BY <1>0, <1>1, <1>4, <2>1, FiledKept DEF Typed
  <2> QED
    BY <2>3, <2>4 DEF IInv
<1>5. CASE Seal /\ Raise("failed") /\ UNCHANGED sealed
  <2>1. "failed" \in Reasons
    BY DEF Reasons
  <2>2. Keeps
    BY <1>0, <1>1, <1>5, <2>1, Raises DEF Keeps, Typed
  <2> QED
    BY <1>0, <1>5, <2>1, <2>2, KeepsFiled, WorkingRaised DEF IInv
<1>6. CASE Sealing
  <2>1. sealed' = sealed \cup {t} /\ Go("settle") /\ worker.at = "sealing"
    BY <1>2, <1>6 DEF Sealing, At
  <2>2. /\ worker' \in Workers /\ worker'.at = "settle" /\ worker'.task = t /\ t \in sealed'
        /\ worker'.final = worker.final /\ worker'.reason = worker.reason
    BY <1>0, <1>2, <2>1, Goes DEF Places, Closing
  <2>3. Final(t)' = Final(t) /\ Final(t) = TerminalOf(worker.reason) /\ Fits
    BY <1>0, <1>1, <1>2, <2>1 DEF Working, Final
  <2>4. Justified'
    <3>1. worker'.final \in Ended \ {"candidate_ready"}
      BY <2>2, <2>3 DEF Fits
    <3> QED
      BY <2>2, <2>3, <3>1 DEF Justified, Fits, Task
  <2>5. Working'
    BY <1>3, <2>2, <2>4 DEF Working, Task, Body, Early
  <2>6. Typed' /\ Filed'
    BY <1>0, <1>1, <2>1, <2>2, FiledKept DEF Typed
  <2> QED
    BY <2>5, <2>6 DEF IInv
<1> QED
  BY <1>4, <1>5, <1>6 DEF Seal

LEMMA EndInv ==
  ASSUME IInv, Publish \/ TerminalFails \/ SealingFails \/ Settle \/ SettleFails
  PROVE  IInv'
<1>0. Typed /\ Filed /\ Working /\ Running
  BY DEF IInv, Running, Publish, TerminalFails, SealingFails, Settle, SettleFails, GiveUp, At
<1>1. CASE TerminalFails \/ SealingFails
  BY <1>1, GivesUpInv DEF TerminalFails, SealingFails
<1>2. CASE Publish
  <2>1. worker.at = "publish" /\ UNCHANGED <<dispatch, evidence, sealed, alive, spawned, held, caller>>
    BY <1>2 DEF Publish, At, Ending
  <2>2. Task \in sealed /\ Finished(Task)
    BY <1>0, <2>1 DEF Working
  <2>3. CASE Leave /\ state' = [state EXCEPT ![Task] = "candidate_ready"]
    <3>1. "candidate_ready" \in Ended
      BY DEF Ended
    <3> QED
      BY <1>0, <2>1, <2>2, <2>3, <3>1, LeavesInv
  <2>4. CASE Raise("failed") /\ UNCHANGED <<state, active, cancel>>
    <3>1. "failed" \in Reasons
      BY DEF Reasons
    <3>2. Keeps
      BY <1>0, <2>1, <2>4, <3>1, Raises DEF Keeps, Typed
    <3> QED
      BY <1>0, <2>4, <3>1, <3>2, KeepsFiled, WorkingRaised DEF IInv
  <2> QED
    BY <1>2, <2>3, <2>4 DEF Publish
<1>3. CASE Settle
  <2>1. /\ worker.at = "settle" /\ Leave /\ state' = [state EXCEPT ![Task] = worker.final]
        /\ UNCHANGED <<dispatch, evidence, sealed, alive, spawned, held, caller>>
    BY <1>3 DEF Settle, At, Ending
  <2>2. Task \in Requests /\ Justified
    BY <1>0, <2>1 DEF Working
  <2>3. worker.final \in Ended
    BY <2>2 DEF Justified, Ended
  <2>4. worker.final = "candidate_ready" => Task \in sealed /\ Finished(Task)
    BY <1>0, <2>2 DEF Justified, Filed
  <2>5. /\ worker.final = "cancelled" => Task \in sealed /\ Final(Task) = "task_cancelled"
        /\ worker.final = "failed" =>
             evidence[Task] = <<>> \/ (Task \in sealed /\ Final(Task) = "task_failed")
    BY <2>2 DEF Justified
  <2> QED
    BY <1>0, <2>1, <2>3, <2>4, <2>5, LeavesInv
<1>4. CASE SettleFails
  BY <1>4, LeavesAsIs DEF SettleFails, Ending
<1> QED
  BY <1>1, <1>2, <1>3, <1>4

\* The restart takes a task up: it believes what was sealed.
LEMMA RecoverInv ==
  ASSUME IInv, Recovered \/ \E r \in Requests : Recover(r)
  PROVE  IInv'
<1>0. Typed /\ Filed /\ Working
  BY DEF IInv
<1>1. UNCHANGED <<disk, active, caller, world, cancel>>
  BY DEF Recovered, Recover
<1>2. Filed'
  BY <1>0, <1>1, FiledKept DEF disk, world
<1>3. CASE Recovered
  <2>1. worker' \in Workers /\ worker'.at = "off"
    BY <1>3 DEF Recovered, Off, Workers, Places, States, Unsettled
  <2>2. Typed' /\ Working'
    BY <1>0, <1>1, <2>1 DEF Typed, Working, Running, disk, world
  <2> QED
    BY <1>2, <2>2 DEF IInv
<1>4. ASSUME NEW r \in Requests, Recover(r) PROVE IInv'
  <2> DEFINE final == IF Concluded(r) /\ r \in sealed THEN Verdict(r) ELSE Assumed(r)
             at == IF Concluded(r) THEN "settle" ELSE "terminal"
  <2>1. /\ state[r] \in Unsettled
        /\ worker' = [worker EXCEPT !.task = r, !.phase = Phase(r), !.reason = "restart",
                                    !.final = final, !.at = at]
    BY <1>4 DEF Recover
  <2>2. state[r] \in Open /\ Phase(r) \in States
    BY <2>1 DEF Open, Phase, States, Unsettled
  <2>3. Assumed(r) \in {"termination_unknown", "interrupted"} /\ final \in Ended
    BY DEF Assumed, Verdict, Ended
  <2>4. Concluded(r) => Final(r) = Last(evidence[r]) /\ Final(r) \in Terminals
    BY DEF Concluded, Final
  <2>5. /\ worker' \in Workers /\ worker'.task = r /\ worker'.reason = "restart"
        /\ worker'.final = final /\ worker'.at = at
    <3>1. at \in Places
      BY DEF Places, Closing
    <3> HIDE DEF final, at
    <3> QED
      BY <1>0, <2>1, <2>2, <2>3, <3>1 DEF Typed, Workers
  <2>6. Typed'
    BY <1>0, <1>1, <2>5 DEF Typed, disk, world
  <2>7. Final(r)' = Final(r) /\ state'[r] \in Open /\ sealed' = sealed
    BY <1>1, <2>2 DEF Final, disk
  <2>8. CASE Concluded(r)
    <3>1. worker'.at = "settle"
      BY <2>5, <2>8
    <3>2. CASE r \in sealed
      <4>1. worker'.final = Verdict(r)
        BY <2>5, <2>8, <3>2
      <4>2. \/ Final(r) = "candidate_ready" /\ worker'.final = "candidate_ready"
            \/ Final(r) = "task_failed" /\ worker'.final = "failed"
            \/ Final(r) = "task_cancelled" /\ worker'.final = "cancelled"
            \/ worker'.final \in {"termination_unknown", "interrupted"}
        BY <2>4, <2>8, <4>1 DEF Verdict
      <4>3. Justified'
        BY <2>5, <2>7, <3>2, <4>2 DEF Justified, Task, Ended
      <4> QED
        BY <1>2, <2>5, <2>6, <2>7, <3>1, <4>3 DEF IInv, Working, Task, Body, Early
    <3>3. CASE r \notin sealed
      <4>1. worker'.final \in {"termination_unknown", "interrupted"}
        BY <2>3, <2>5, <3>3
      <4>2. Justified'
        BY <4>1 DEF Justified, Ended
      <4> QED
        BY <1>2, <2>5, <2>6, <2>7, <3>1, <4>2 DEF IInv, Working, Task, Body, Early
    <3> QED
      BY <3>2, <3>3
  <2>9. CASE ~Concluded(r)
    <3>1. worker'.at = "terminal" /\ worker'.final \in {"termination_unknown", "interrupted"}
      BY <2>3, <2>5, <2>9
    <3>2. Fits'
      BY <2>5, <3>1 DEF Fits, TerminalOf, Ended
    <3> QED
      BY <1>2, <2>5, <2>6, <2>7, <3>1, <3>2 DEF IInv, Working, Task, Body, Early
  <2> QED
    BY <2>8, <2>9
<1> QED
  BY <1>3, <1>4

----------------------------------------------------------------------------
(* The theorems.                                                           *)

LEMMA InitInv == Init => IInv
<1> SUFFICES ASSUME Init PROVE IInv
  OBVIOUS
<1>1. Off \in Workers /\ Off.at = "off"
  BY DEF Off, Workers, Places, States, Unsettled
<1>2. Typed
  <2>1. "absent" \in States /\ <<>> \in Seq(Events) /\ 0 \in Nat
    BY DEF States
  <2> QED
    BY <1>1, <2>1 DEF Init, Typed
<1>3. \A r \in Requests : evidence[r] = <<>> /\ state[r] = "absent" /\ spawned[r] = 0 /\ Final(r) = "none"
  BY DEF Init, Final
<1>4. Filed
  BY <1>3, TasksAssumption DEF Init, Filed, AskedOnce, StoreFollowsEvidence, TasksAssumption
<1>5. Working
  BY <1>1 DEF Init, Working, Running
<1> QED
  BY <1>2, <1>4, <1>5 DEF IInv

LEMMA NextInv == IInv /\ [Next]_vars => IInv'
<1> SUFFICES ASSUME IInv, [Next]_vars PROVE IInv'
  OBVIOUS
<1>1. CASE UNCHANGED vars
  <2>1. /\ UNCHANGED <<state, dispatch, evidence, sealed, active, cancel, worker, caller,
                       alive, spawned, held>>
    BY <1>1 DEF vars, disk, memory, world
  <2> QED
    BY <2>1, FiledKept, WorkingKept DEF IInv, Typed
<1>2. CASE Work
  BY <1>2, BodyInv, ProcessInv, ReceiptInv, SealInv, EndInv, RecoverInv DEF Work
<1>3. CASE Next /\ ~Work
  BY <1>3, OutsideInv DEF Next
<1> QED
  BY <1>1, <1>2, <1>3

\* What the store, the evidence and the worker say of a task fits together.
THEOREM AlwaysInv == Spec => []IInv
<1> QED
  BY InitInv, NextInv, PTL DEF Spec

\* A provider is started once for a request, and the store knew before, through
\* every retry, crash and restart.
THEOREM AlwaysAskedOnce == Spec => []AskedOnce
<1>1. IInv => AskedOnce
  BY DEF IInv, Filed
<1> QED
  BY <1>1, AlwaysInv, PTL

\* What tasks.json says of a task that came to an end is what its sealed evidence
\* says, however often the service crashes and whichever of its writes fail.
THEOREM StoreAlwaysFollowsEvidence == Spec => []StoreFollowsEvidence
<1>1. IInv => StoreFollowsEvidence
  BY DEF IInv, Filed
<1> QED
  BY <1>1, AlwaysInv, PTL

\* Another receipt is not a candidate that is ready.
LEMMA RecordStays ==
  ASSUME Typed, NEW e \in Events \ {"candidate_ready"}, Record(e), NEW r \in Requests
  PROVE  "candidate_ready" \in Range(evidence'[r]) => "candidate_ready" \in Range(evidence[r])
<1>1. evidence' = [evidence EXCEPT ![Task] = Append(evidence[Task], e)]
  BY DEF Record
<1>2. CASE r # Task
  <2>1. evidence'[r] = evidence[r]
    BY <1>1, <1>2 DEF Typed
  <2> QED
    BY <2>1
<1>3. CASE r = Task
  <2>1. evidence'[r] = Append(evidence[r], e) /\ evidence[r] \in Seq(Events)
    BY <1>1, <1>3 DEF Typed
  <2> QED
    BY <2>1, AppendEnds
<1> QED
  BY <1>2, <1>3

\* A task whose stop was accepted does not become ready after that, however late
\* its provider, its checker or the stop itself comes to an end.
THEOREM StopAlwaysHolds == Spec => StopHolds
<1> DEFINE Holds == \A r \in held : "candidate_ready" \in Range(evidence'[r])
                                      => "candidate_ready" \in Range(evidence[r])
<1>1. IInv /\ [Next]_vars => [Holds]_vars
  <2> SUFFICES ASSUME IInv, Next, NEW r \in held,
                      "candidate_ready" \in Range(evidence'[r])
               PROVE  "candidate_ready" \in Range(evidence[r])
    OBVIOUS
  <2>0. Typed /\ Filed /\ Working
    BY DEF IInv
  <2>1. CASE evidence' = evidence
    BY <2>1
  <2>2. ASSUME NEW e \in Events \ {"candidate_ready"}, Record(e)
        PROVE  "candidate_ready" \in Range(evidence[r])
    BY <2>0, <2>2, RecordStays DEF Typed
  <2>3. {"task_start_accepted", "candidate_generated", "candidate_check_completed",
         TerminalOf(worker.reason)} \subseteq Events \ {"candidate_ready"}
    BY DEF Events, Terminals, TerminalOf
  <2>4. ASSUME Ready, Record("candidate_ready"), Task \notin unknown \cup cancel
        PROVE  "candidate_ready" \in Range(evidence[r])
    <3>1. r # Task
      BY <2>0, <2>4 DEF Working, Running, Ready, At, Body
    <3>2. evidence'[r] = evidence[r]
      BY <2>0, <2>4, <3>1 DEF Record, Typed
    <3> QED
      BY <3>2
  <2>5. \/ evidence' = evidence
        \/ \E e \in Events \ {"candidate_ready"} : Record(e)
        \/ Ready /\ Record("candidate_ready") /\ Task \notin unknown \cup cancel
    <3>1. CASE Accept \/ Generated \/ Checked \/ Ready \/ Terminal
      BY <2>3, <3>1 DEF Accept, Generated, Checked, Ready, Terminal
    <3>2. CASE \/ Begin \/ Ask \/ Mark \/ Spawn \/ SpawnFails \/ ProviderEnds \/ Judge \/ Examine
               \/ SpawnChecker \/ CheckerEnds
      BY <3>2 DEF Begin, Ask, Mark, Spawn, SpawnFails, ProviderEnds, Judge, Examine,
                  SpawnChecker, CheckerEnds, Spawns, Observe, WorkerOnly, disk
    <3>3. CASE \/ Seal \/ Publish \/ TerminalFails \/ Sealing \/ SealingFails \/ Settle
               \/ SettleFails \/ Recovered \/ \E x \in Requests : Recover(x)
      BY <3>3 DEF Seal, Publish, TerminalFails, Sealing, SealingFails, Settle, SettleFails,
                  Recovered, Recover, GiveUp, Ending, disk
    <3>4. CASE \/ Stopper \/ Crash \/ Restart \/ \E x \in Requests : Stop(x) \/ Dies(x)
               \/ \E c \in Callers : Start(c) \/ \E x \in Requests : Check(c, x)
      BY <3>4 DEF Stopper, ForceStop, Unconfirmed, MarkUnknown, Crash, Restart, Stop, Dies,
                  Start, Check, disk
    <3> QED
      BY <3>1, <3>2, <3>3, <3>4 DEF Next, Work
  <2> QED
    BY <2>1, <2>2, <2>4, <2>5
<1> QED
  BY <1>1, AlwaysInv, PTL DEF Spec, StopHolds
=============================================================================
