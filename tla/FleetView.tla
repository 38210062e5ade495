------------------------------ MODULE FleetView ------------------------------
(***************************************************************************)
(* What Fleet shows of a run (application/fleet.py): a fold of the receipts *)
(* that keeps one row per lane, one per attempt and the open actions, and  *)
(* is then read together with the seal.  Sequence numbers stand for the    *)
(* attempts and actions they name; times, prices and writers are left out. *)
(* Every action a run opens has the scope "run".                           *)
(***************************************************************************)
EXTENDS RunEvidence

Lanes == CoreLanes \cup ConditionalLanes

\* A row's state, its attempts in order and, once there was one, its last end.
Row(state) == [state |-> state, attempts |-> <<>>, ended |-> TRUE]
Blank ==
  [lanes |-> [x \in Lanes |-> Row("absent")], status |-> "running",
   open |-> {}, seen |-> {}, abandoned |-> {}, injected |-> 0, accepted |-> 0,
   revision |-> 0, errors |-> {}]

StateAfter ==
  [stage_attempt_created |-> "running", stage_dispatch_started |-> "running",
   stage_completed |-> "sealed", stage_blocked |-> "blocked",
   stage_rejected |-> "blocked", stage_failed |-> "failed",
   stage_interrupted |-> "interrupted"]

\* A lane's row after receipt number n about one of its attempts.
Moved(row, n, r) ==
  LET last == IF r.t = "stage_attempt_created" THEN Append(row.attempts, n) ELSE row.attempts
      newest == last # <<>> /\ (r.t = "stage_attempt_created" \/ last[Len(last)] = r.at)
  IN  [state |-> StateAfter[r.t], attempts |-> last,
       ended |-> IF newest THEN r.t \in AttemptEnds ELSE row.ended]
Created(v, a) == \E x \in Lanes : \E k \in DOMAIN v.lanes[x].attempts : v.lanes[x].attempts[k] = a

Planned(v) ==
  [v EXCEPT !.lanes = [x \in Lanes |-> Row(IF x \in ConditionalLanes THEN "dormant" ELSE "queued")]]
OfStage(v, n, r) ==
  IF r.t = "stage_attempt_created" \/ Created(v, r.at)
    THEN [v EXCEPT !.lanes[r.lane] = Moved(@, n, r)]
    ELSE [v EXCEPT !.errors = @ \cup {"attempt_created_missing"}]
Resolved(v, r) ==
  IF r.of \in v.seen THEN [v EXCEPT !.open = @ \ {r.of}]
  ELSE [v EXCEPT !.errors = @ \cup {"action_open_missing"}]

\* One step of the fold; receipt n is r.
Step(v, n, r) ==
  CASE r.t = "run_planned" -> Planned(v)
    [] r.t = "run_replanned" -> [v EXCEPT !.revision = @ + 1]
    [] r.t = "run_decision" -> [v EXCEPT !.status = r.say]
    [] r.t = "run_abandoned" ->
         [v EXCEPT !.status = "workflow_abandoned", !.abandoned = {r.at} \ {0}]
    [] r.t = "command_accepted" -> [v EXCEPT !.accepted = @ + 1]
    [] r.t = "context_injected" -> [v EXCEPT !.injected = @ + 1]
    [] r.t = "action_opened" -> [v EXCEPT !.open = @ \cup {n}, !.seen = @ \cup {n}]
    [] r.t = "action_resolved" -> Resolved(v, r)
    [] r.t = "repair_routed" -> [v EXCEPT !.lanes[r.lane].state = "queued"]
    [] r.t \in OfAttempt -> OfStage(v, n, r)
    [] OTHER -> v

Folded(l) ==
  LET v[n \in 0..Len(l)] == IF n = 0 THEN Blank ELSE Step(v[n - 1], n, l[n])
  IN  v[Len(l)]

------------------------------------------------------------------------------
(* The snapshot of receipts l, sealed or not.                               *)

Unended(row) == row.attempts # <<>> /\ ~row.ended
Left(v, x) ==
  Unended(v.lanes[x]) /\ v.lanes[x].attempts[Len(v.lanes[x].attempts)] \in v.abandoned
\* Wrong on purpose: an abandoned attempt keeps its lane running.
ShownRunning(v, x) == v.lanes[x].state
Shown(v, x) == IF Left(v, x) THEN "abandoned" ELSE v.lanes[x].state

Workflow(status) ==
  CASE status = "awaiting_approval" -> <<"complete", "action_open">>
    [] status = "completed" -> <<"complete", "closed">>
    [] status = "workflow_abandoned" -> <<"abandoned", "abandoned">>
    [] status \in {"blocked", "failed"} -> <<"blocked", "closed">>
    [] OTHER -> <<"running", "open">>

Snapshot(l, sealed) ==
  LET v == Folded(l)
      missing == {x \in Lanes : Unended(v.lanes[x]) /\ ~Left(v, x)}
  IN  [lanes |-> [x \in Lanes |-> Shown(v, x)], status |-> v.status,
       execution |-> Workflow(v.status)[1], workflow |-> Workflow(v.status)[2],
       waiting_on |-> v.open, injected |-> v.injected, accepted |-> v.accepted,
       revision |-> v.revision,
       errors |-> v.errors \cup
         IF sealed /\ missing # {} THEN {"attempt_terminal_missing"} ELSE {}]
=============================================================================
