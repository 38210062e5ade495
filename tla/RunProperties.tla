---------------------------- MODULE RunProperties ----------------------------
EXTENDS Run, FleetView

DecidedAs(d) == \E i \in All(log, {"run_decision"}) : log[i].say = d

(* A live run is "completed" only because the operator approved the action  *)
(* it waited on; that action was opened with every core lane's latest       *)
(* attempt completed, no repair after the last audit, or as an escalation.  *)
CompletionEarned ==
  DecidedAs("completed") /\ Live(log) =>
    \E i \in All(log, {"action_opened"}), j \in All(log, {"action_resolved"}) :
      /\ log[j].of = i /\ log[j].say = "approved"
      /\ \/ log[i].say = "escalation"
         \/ /\ \A lane \in CoreLanes : LatestEnds(log, {lane}) = {"stage_completed"}
            /\ \A lane \in ConditionalLanes : LastAttempt(log, lane) < LastAttempt(log, "g2a")

(* What the operator was told is accepted is in the prompt of the first     *)
(* stage it fits: no attempt is sent to a provider over a pending command   *)
(* for its lane or the lead that was accepted before the attempt.           *)
NoCommandSkipped ==
  \A i \in Commands(log), a \in Attempts(log) :
    /\ i < a /\ Dispatched(log, a) /\ log[i].lane \in {"lead", log[a].lane}
    => \E j \in Finals(log, i) : log[j].at # 0 /\ log[j].at <= a

(* An acknowledgement names a receipt that accepted that very command, and  *)
(* a sealed run has said of each one whether it was applied, exactly once.  *)
AnswersSettled ==
  \A x \in answers :
    /\ x[2] \in Commands(log) /\ log[x[2]].say = x[1]
    /\ sealed => Cardinality(Finals(log, x[2])) = 1

(* When the engine is done and no process failed, the run is decided or     *)
(* waits on an operator, except where the contract has no decision for what *)
(* happened: a lane that is not required failed or a lane was blocked after *)
(* another was sent, or the operator was faster than the wait.              *)
BlockedLate ==
  \E i \in All(log, {"stage_blocked"}) : All(log, {"stage_dispatch_started"}) # {}
RepairBroke ==
  \E i \in All(log, {"stage_failed", "stage_blocked"}) : log[i].lane \in ConditionalLanes
ResolvedEarly == ~Waiting(log) /\ All(log, {"action_resolved"}) # {}
UndecidedExplained ==
  pc \in {"returned", "broken"} /\ faults = 0 =>
    \/ Decided(log) /\ sealed
    \/ Waiting(log) /\ OpenActions(log) # {}
    \/ BlockedLate \/ RepairBroke \/ ResolvedEarly

(* The plan window never forgets a call: what it has used covers every call *)
(* that was sent, and what is reserved beyond them belongs to stages that   *)
(* failed or are on their way.                                              *)
Sent == {a \in Attempts(log) : Dispatched(log, a)}
SpendCovered ==
  Covered /\ pc \notin {"unsent", "broken", "dead"} =>
    /\ used >= earlier + Cardinality(Sent) /\ used <= Limit
    /\ pc \in {"create", "repair", "returned"} =>
         held <= Cardinality({a \in Sent : EndOf(log, a) \in {"stage_failed", "stage_interrupted"}})

(* Fleet shows what the receipts say, folded one by one, and the supervisor *)
(* nothing else: a lane in the state its latest attempt ended in, even in a *)
(* run that was cut short; the actions that are open; the workflow open,    *)
(* waiting or closed as the run is; and no lane of a sealed run at work.    *)
ShownTruthfully ==
  LET view == Snapshot(log, sealed)
      routed(lane) == Newest({i \in All(log, {"repair_routed"}) : log[i].lane = lane})
      fate(lane) == EndOf(log, LastAttempt(log, lane))
  IN  /\ view.errors = {} /\ view.injected <= view.accepted
      /\ view.waiting_on = OpenActions(log)
      /\ \A lane \in Lanes :
           LET last == LastAttempt(log, lane)
               shown == view.lanes[lane]
           IN  IF last > routed(lane)
                 THEN shown = CASE fate(lane) = "open" -> "running"
                                [] fate(lane) = "run_abandoned" -> "abandoned"
                                [] OTHER -> StateAfter[fate(lane)]
                 ELSE shown \in {"absent", "dormant", "queued"}
      /\ sealed => \A lane \in Lanes : view.lanes[lane] # "running"
      /\ view.workflow \in {"closed", "abandoned"} <=> Decided(log)
      /\ view.workflow = "action_open" <=> Waiting(log) /\ ~Decided(log)
      /\ sup.life = "abandoned" => sealed /\ view.workflow = "abandoned"
      /\ sup.life = "failed" => sealed /\ view.status = "failed"

(* An operator abandons the run that was shown: nothing but the run's own   *)
(* closing receipts comes between the confirmation and the abandonment.     *)
AbandonsConfirmed ==
  [][All(log', {"run_abandoned"}) # All(log, {"run_abandoned"}) =>
       Len(log) = confirm.seq /\ ~sup.worker /\ OpenAttempts(log) = {confirm.at} \ {0}]_vars

(* The run is a governed run: read from the receipts alone, no command is   *)
(* applied twice, after the engine stopped to wait, or lost by a decision.  *)
FateOf(c) ==
  LET accepted == AcceptedAs(c)
      final == UNION {Finals(log, i) : i \in accepted}
  IN  IF ~Known(log, c) THEN "new"
      ELSE IF accepted = {} THEN "refused"
      ELSE IF final = {} THEN "queued"
      ELSE IF \E j \in final : log[j].t = "context_injected" THEN "applied" ELSE "dropped"
Promised == INSTANCE GovernedRun WITH
  fate <- [c \in Cmds |-> FateOf(c)],
  phase <- IF Decided(log) THEN "decided" ELSE IF Waiting(log) THEN "waiting" ELSE "running"
ImplementsGovernedRun == Promised!Spec

(* The engine gives control back however the provider answers.              *)
Returns == <>(pc \in Final)
(* "A refusal that leaves no terminal receipt is indistinguishable from a   *)
(* run that never happened.  Record the decision, then let the caller seal  *)
(* and re-raise" (orchestrator.py 484-486): a run whose engine gave up, and *)
(* in which no write failed and no process died, is decided.                *)
DocRefusalRecorded == pc = "broken" /\ faults = 0 => Decided(log)
=============================================================================
