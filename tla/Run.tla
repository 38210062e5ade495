--------------------------------- MODULE Run ---------------------------------
(***************************************************************************)
(* One governed run (application/orchestrator.py, run_command.py,          *)
(* supervisor.py over the receipt contract): the engine that sends stages  *)
(* to providers, the operator's gateway that injects context and resolves  *)
(* the action a run waits on, and the supervisor that records what became  *)
(* of a run whose worker is gone.  They share nothing but the receipts and *)
(* the supervisor's state.                                                 *)
(*                                                                         *)
(* Every call of the broker is one step, because the broker serialises     *)
(* them; a call that appends several receipts may die after any of them.   *)
(* A call may also be refused, or take effect and lose its answer with the *)
(* broker.  pc is the engine's next statement that matters.                *)
(***************************************************************************)
EXTENDS RunEvidence

CONSTANTS
  Modes,        \* of {"live", "dry_run"}: the modes a run starts in
  Cmds,         \* command ids the operator's clients use
  Targets,      \* targets of injected context: "lead" or lanes
  Severities,   \* classes of audit defects, of "critical", "high", "ui", "low"
  LoopBudget,   \* GovernedOrchestrator.loop_budget
  Covered,      \* providers settle as plan_covered (else metered)
  Earlier,      \* calls of the plan window that earlier runs may have used
  Limit,        \* calls the plan window allows, or stages the budget pays for
  Projected,    \* projected_calls_by_role of every role
  MaxDefects,   \* bound: defects an audit lists
  MaxFaults,    \* bound: calls or processes that fail
  MaxReceipts   \* bound: receipts of the run

ASSUME RunAssumption ==
  /\ Modes \subseteq {"live", "dry_run"}
  /\ Targets \subseteq CoreLanes \cup ConditionalLanes \cup {"lead"}
  /\ Severities \subseteq {"critical", "high", "ui", "low"}
  /\ Covered \in BOOLEAN /\ Earlier \subseteq 0..Limit
  /\ \A n \in {LoopBudget, Limit, Projected, MaxDefects, MaxFaults, MaxReceipts} :
        n \in Nat

VARIABLES
  log,      \* the receipts
  sealed,   \* the manifest is sealed
  broker,   \* a process holds the store and answers
  pc,       \* the engine's next statement
  stage,    \* the stage it is about: lane, attempt, repair route, last reply
  cycles,   \* repair_cycles
  used,     \* the plan window's used calls, or the stages paid for
  earlier,  \* what used began with
  held,     \* reservations of the plan window not reconciled
  gate,     \* the injection in progress, its artifact written
  answers,  \* acknowledgements given: a command and its accepted sequence
  sup,      \* supervisor state: lifecycle, a worker registered, generation
  watch,    \* next step of interrupt_attempt
  confirm,  \* what a recovery was confirmed on
  faults

engine == <<pc, stage, cycles>>
window == <<used, held, earlier>>
gateway == <<gate, answers>>
supervisor == <<sup, watch, confirm>>
vars == <<log, sealed, broker, engine, window, gateway, supervisor, faults>>

Final == {"returned", "broken", "dead"}
Idle == [cmd |-> "none", lane |-> "none"]
NoStage == [lane |-> "none", at |-> 0, of |-> 0, reply |-> <<"none", <<>>>>]
NoConfirm == [seq |-> 0, at |-> 0, gen |-> 0]

Init ==
  /\ log = <<>> /\ sealed = FALSE /\ broker = TRUE
  /\ pc = "attest" /\ stage = NoStage /\ cycles = 0
  /\ earlier \in Earlier /\ used = earlier /\ held = 0
  /\ gate = Idle /\ answers = {}
  /\ sup = [life |-> "running", worker |-> TRUE, gen |-> 0]
  /\ watch = "idle" /\ confirm = NoConfirm /\ faults = 0

------------------------------------------------------------------------------
(* The engine's calls of the broker.                                        *)

Receipt(t, who, lane, at, of, say) ==
  [t |-> t, who |-> who, lane |-> lane, at |-> at, of |-> of, say |-> say]
Mine(t, say) == Receipt(t, "orchestrator", stage.lane, stage.at, 0, say)
Decision(d) == Receipt("run_decision", "orchestrator", "none", 0, 0, d)

CanWrite(r) == broker /\ ~sealed /\ Len(log) < MaxReceipts /\ Allowed(log, r)

\* Append r and go to ok; a refusal goes to bad, and so does a lost answer.
Appends(r, ok, bad) ==
  /\ UNCHANGED sealed
  /\ \/ CanWrite(r) /\ log' = Append(log, r) /\ pc' = ok /\ UNCHANGED <<broker, faults>>
     \/ ~CanWrite(r) /\ pc' = bad /\ UNCHANGED <<log, broker, faults>>
     \/ /\ faults < MaxFaults /\ faults' = faults + 1 /\ pc' = bad
        /\ \/ UNCHANGED <<log, broker>>
           \/ CanWrite(r) /\ log' = Append(log, r) /\ broker' = FALSE

\* The same for a call that appends all of rs under the store's lock.
Heads(rs) == {SubSeq(rs, 1, n) : n \in 0..Len(rs)}
AppendsAll(rs, ok, bad) ==
  LET open == broker /\ ~sealed
  IN  /\ UNCHANGED sealed
      /\ \/ /\ \E all \in {Extend(log, rs)} :
                 /\ log' = IF open THEN all.log ELSE log
                 /\ pc' = IF open /\ all.ok THEN ok ELSE bad
            /\ UNCHANGED <<broker, faults>>
         \/ /\ faults < MaxFaults /\ faults' = faults + 1 /\ open
            /\ \E p \in Heads(rs) : log' = Extend(log, p).log
            /\ broker' = FALSE /\ pc' = bad

------------------------------------------------------------------------------
(* RunController.start and GovernedOrchestrator.execute                     *)

Attest ==
  /\ pc = "attest"
  /\ Appends(Receipt("run_attested", "orchestrator", "none", 0, 0, "none"),
             "plan", "broken")
  /\ UNCHANGED <<stage, cycles, window, gateway, supervisor>>

Plan ==
  /\ pc = "plan"
  /\ \E mode \in Modes :
       Appends(Receipt("run_planned", "orchestrator", "none", 0, 0, mode),
               IF mode = "live" THEN "create" ELSE "completed", "broken")
  /\ stage' = [NoStage EXCEPT !.lane = "g1d"]
  /\ UNCHANGED <<cycles, window, gateway, supervisor>>

------------------------------------------------------------------------------
(* GovernedOrchestrator._dispatch                                           *)

Create ==
  /\ pc = "create"
  /\ Appends(Receipt("stage_attempt_created", "orchestrator", stage.lane, 0,
                     stage.of, "none"), "preflight", "broken")
  /\ stage' = [stage EXCEPT !.at = Len(log) + 1]
  /\ UNCHANGED <<cycles, window, gateway, supervisor>>

Exceeds == used + (IF Covered THEN Projected ELSE 1) > Limit
Preflight ==
  /\ pc = "preflight" /\ pc' = IF Exceeds THEN "block" ELSE "consume"
  /\ UNCHANGED <<log, sealed, broker, stage, cycles, window, gateway,
                 supervisor, faults>>

Block ==
  /\ pc = "block"
  /\ Appends(Mine("stage_blocked", "none"), "refuse", "broken")
  /\ UNCHANGED <<stage, cycles, window, gateway, supervisor>>

\* Wrong on purpose: what waits for the lead is never consumed.
EligibleDirect == {i \in PendingCommands(log) : i < stage.at /\ log[i].lane = stage.lane}

\* _consume_context: what was accepted for this lane or the lead before it.
Eligible ==
  {i \in PendingCommands(log) : i < stage.at /\ log[i].lane \in {"lead", stage.lane}}

Consume ==
  /\ pc = "consume" /\ Eligible # {}
  /\ LET i == Min(Eligible)
         t == IF log[i].lane = "lead" /\ ReplanOf(log, i) = {}
              THEN "run_replanned" ELSE "context_injected"
     IN  Appends(Receipt(t, "orchestrator", log[i].lane, stage.at, i, log[i].say),
                 "consume", "unsent")
  /\ UNCHANGED <<stage, cycles, window, gateway, supervisor>>

Reserve ==
  /\ pc = "consume" /\ Eligible = {}
  /\ IF Covered THEN used' = used + Projected /\ held' = held + 1
                ELSE UNCHANGED <<used, held>>
  /\ pc' = "start" /\ UNCHANGED earlier
  /\ UNCHANGED <<log, sealed, broker, stage, cycles, gateway, supervisor, faults>>

\* Wrong on purpose: the reservation of a dispatch that was not recorded stays.
StartUncancelled ==
  /\ pc = "start"
  /\ Appends(Mine("stage_dispatch_started", "none"), "call", "unsent")
  /\ UNCHANGED <<stage, cycles, window, gateway, supervisor>>

\* The reservation is cancelled when the receipt is not written.
Start ==
  /\ pc = "start"
  /\ Appends(Mine("stage_dispatch_started", "none"), "call", "unsent")
  /\ IF Covered /\ pc' = "unsent" THEN used' = used - Projected /\ held' = held - 1
                                  ELSE UNCHANGED <<used, held>>
  /\ UNCHANGED <<earlier, stage, cycles, gateway, supervisor>>

\* What a reply on the lane's contract may say (domain/stage_response.py).
Replies(lane) ==
  CASE lane = "g2a" -> {"approve", "reject"} \X UNION {[1..n -> Severities] : n \in 0..MaxDefects}
    [] lane = "g1r" -> {"approve", "reject"} \X {<<>>}
    [] OTHER -> {<<"done", <<>>>>}

\* Wrong on purpose: no call of a provider ever fails or times out.
CallPatient ==
  /\ pc = "call" /\ broker /\ pc' = "complete"
  /\ \E r \in Replies(stage.lane) : stage' = [stage EXCEPT !.reply = r]
  /\ UNCHANGED <<log, sealed, broker, cycles, window, gateway, supervisor, faults>>

\* The provider answers, or anything from it to the artifact goes wrong.
Call ==
  /\ pc = "call"
  /\ \/ broker /\ pc' = "complete" /\ \E r \in Replies(stage.lane) : stage' = [stage EXCEPT !.reply = r]
     \/ pc' = "sent" /\ UNCHANGED stage
  /\ UNCHANGED <<log, sealed, broker, cycles, window, gateway, supervisor, faults>>

Approves(reply) == reply[1] = "approve"
Reconcile ==
  UNCHANGED earlier /\ IF Covered
  THEN used' = (IF held > 0 THEN used - Projected ELSE used) + 1
       /\ held' = IF held > 0 THEN held - 1 ELSE 0
  ELSE used' = used + 1 /\ UNCHANGED held

\* _complete_stage
Complete ==
  /\ pc = "complete"
  /\ Appends(Mine(IF stage.lane \in Reviews /\ ~Approves(stage.reply)
                  THEN "stage_rejected" ELSE "stage_completed", "none"),
             "route", "sent")
  /\ Reconcile
  /\ UNCHANGED <<stage, cycles, gateway, supervisor>>

\* stage_failed, before the provider was asked and after.
Fail ==
  /\ pc \in {"unsent", "sent"}
  /\ Appends(Mine("stage_failed", IF pc = "sent" THEN "dispatched" ELSE "none"),
             "refuse", "broken")
  /\ UNCHANGED <<stage, cycles, window, gateway, supervisor>>

------------------------------------------------------------------------------
(* GovernedOrchestrator._execute_live: what follows a stage that returned.  *)

\* G2APolicy.route over the defects in order (_repair_role).
RepairRole(defects) ==
  LET lane(d) == IF d = "ui" THEN "refine_ui" ELSE "refine_bug"
      high == {n \in DOMAIN defects : defects[n] \in {"high", "ui"}}
  IN  IF \E n \in DOMAIN defects : defects[n] = "critical" THEN "human_escalation"
      ELSE IF high = {} THEN "none" ELSE lane(defects[Min(high)])

Start1(lane) == pc' = "create" /\ stage' = [NoStage EXCEPT !.lane = lane]
Stop(p) == pc' = p /\ UNCHANGED stage

\* Wrong on purpose: the loop budget used up counts as an approval.
AuditedAnyway ==
  IF Approves(stage.reply) \/ cycles >= LoopBudget THEN Stop("approval")
  ELSE LET role == RepairRole(stage.reply[2])
       IN  IF role = "human_escalation" THEN Stop("escalation")
           ELSE IF role = "none" THEN Stop("blocked")
           ELSE pc' = "repair" /\ stage' = [NoStage EXCEPT !.lane = role]

Audited ==
  IF Approves(stage.reply) THEN Stop("approval")
  ELSE LET role == RepairRole(stage.reply[2])
       IN  IF role = "human_escalation" THEN Stop("escalation")
           ELSE IF role = "none" \/ cycles >= LoopBudget THEN Stop("blocked")
           ELSE pc' = "repair" /\ stage' = [NoStage EXCEPT !.lane = role]

Route ==
  /\ pc = "route"
  /\ cycles' = IF stage.lane \in ConditionalLanes THEN cycles + 1 ELSE cycles
  /\ CASE stage.lane = "g1d" -> Start1("g1r")
       [] stage.lane = "g1r" -> IF Approves(stage.reply) THEN Start1("builder") ELSE Stop("blocked")
       [] stage.lane = "g2a" -> Audited
       [] OTHER -> Start1("g2a")
  /\ UNCHANGED <<log, sealed, broker, window, gateway, supervisor, faults>>

Repair ==
  /\ pc = "repair"
  /\ Appends(Receipt("repair_routed", "orchestrator", stage.lane, 0, 0, "none"),
             "create", "broken")
  /\ stage' = [stage EXCEPT !.of = Len(log) + 1]
  /\ UNCHANGED <<cycles, window, gateway, supervisor>>

------------------------------------------------------------------------------
(* _finish, the refusal of execute, and the seal of RunController.start     *)

OpenAction ==
  /\ pc \in {"approval", "escalation"}
  /\ Appends(Receipt("action_opened", "orchestrator", "none", 0, 0, pc), "await", "broken")
  /\ UNCHANGED <<stage, cycles, window, gateway, supervisor>>

Await ==
  /\ pc = "await"
  /\ Appends(Receipt("run_decision", "orchestrator", "none", 0,
                     Newest(All(log, {"action_opened"})), "awaiting_approval"),
             "returned", "broken")
  /\ UNCHANGED <<stage, cycles, window, gateway, supervisor>>

\* Wrong on purpose: a refusal is always recorded as a failure.
RefusedAlways == "failed"

RefusedAs ==
  IF All(log, {"stage_dispatch_started", "stage_failed"}) # {} THEN "failed" ELSE "blocked"
Decide ==
  /\ pc \in {"completed", "blocked", "refuse"}
  /\ \E rs \in {Terminal(log, Decision(IF pc = "refuse" THEN RefusedAs ELSE pc))} :
       AppendsAll(rs, "seal", "broken")
  /\ UNCHANGED <<stage, cycles, window, gateway, supervisor>>

Seal ==
  /\ pc = "seal" /\ broker /\ Sealable(log)
  /\ sealed' = TRUE /\ pc' = "returned"
  /\ UNCHANGED <<log, broker, stage, cycles, window, gateway, supervisor, faults>>
SealFails ==
  /\ pc = "seal" /\ ~(broker /\ Sealable(log)) /\ pc' = "broken"
  /\ UNCHANGED <<log, sealed, broker, stage, cycles, window, gateway, supervisor, faults>>

Engine ==
  \/ Attest \/ Plan \/ Create \/ Preflight \/ Block \/ Consume \/ Reserve
  \/ Start \/ Call \/ Complete \/ Fail \/ Route \/ Repair \/ OpenAction
  \/ Await \/ Decide \/ Seal \/ SealFails

------------------------------------------------------------------------------
(* The operator's gateway: GovernedContextInjector and resolve_action.      *)

AcceptedAs(c) == {i \in Commands(log) : log[i].say = c}

\* A known command is answered again, an invalid one is recorded as rejected.
Submit(c, lane, valid) ==
  /\ gate = Idle /\ broker
  /\ \/ /\ Known(log, c) /\ answers' = answers \cup {<<c, i>> : i \in AcceptedAs(c)}
        /\ UNCHANGED <<log, gate>>
     \/ /\ ~Known(log, c) /\ valid
        /\ gate' = [cmd |-> c, lane |-> lane] /\ UNCHANGED <<log, answers>>
     \/ /\ ~Known(log, c) /\ ~valid
        /\ LET r == Receipt("command_rejected", "operator_gateway", lane, 0, 0, c)
           IN  log' = IF CanWrite(r) THEN Append(log, r) ELSE log
        /\ UNCHANGED <<gate, answers>>
  /\ UNCHANGED <<sealed, broker, engine, window, supervisor, faults>>

\* Wrong on purpose: acknowledged whether or not the receipt was appended.
AcceptEarly ==
  /\ gate # Idle /\ gate' = Idle /\ answers' = answers \cup {<<gate.cmd, Len(log) + 1>>}
  /\ LET r == Receipt("command_accepted", "operator_gateway", gate.lane, 0, 0, gate.cmd)
     IN  log' = IF CanWrite(r) THEN Append(log, r) ELSE log
  /\ UNCHANGED <<sealed, broker, engine, window, supervisor, faults>>

Accept ==
  /\ gate # Idle /\ gate' = Idle
  /\ LET r == Receipt("command_accepted", "operator_gateway", gate.lane, 0, 0, gate.cmd)
     IN  \/ /\ CanWrite(r) /\ log' = Append(log, r)
            /\ \/ answers' = answers \cup {<<gate.cmd, Len(log) + 1>>}
                  /\ UNCHANGED <<broker, faults>>
               \/ /\ faults < MaxFaults /\ faults' = faults + 1 /\ broker' = FALSE
                  /\ UNCHANGED answers
         \/ ~CanWrite(r) /\ UNCHANGED <<log, broker, faults, answers>>
  /\ UNCHANGED <<sealed, engine, window, supervisor>>

\* ReceiptChain.resolve_action: resolve, terminalize and seal in one call.
Resolve(resolution) ==
  LET i == Newest(OpenActions(log))
      done == Receipt("action_resolved", "operator_gateway", "none", 0, i, resolution)
      decision == Receipt("run_decision", "operator_gateway", "none", 0, Len(log) + 1,
                          OutcomeMap[resolution])
      rs == <<done>> \o Terminal(Append(log, done), decision)
      all == Extend(log, rs)
  IN  /\ broker /\ ~sealed /\ i # 0
      /\ \/ log' = all.log /\ sealed' = (all.ok /\ Sealable(all.log)) /\ UNCHANGED <<broker, faults>>
         \/ /\ faults < MaxFaults /\ faults' = faults + 1 /\ broker' = FALSE
            /\ \E p \in Heads(rs) : log' = Extend(log, p).log
            /\ UNCHANGED sealed
      /\ UNCHANGED <<engine, window, gateway, supervisor>>

Operator ==
  \/ \E c \in Cmds, lane \in Targets, valid \in BOOLEAN : Submit(c, lane, valid)
  \/ Accept
  \/ \E resolution \in DOMAIN OutcomeMap : Resolve(resolution)

------------------------------------------------------------------------------
(* Processes end; RunSupervisor acts once no worker can.                    *)

WorkerDies ==
  /\ pc \notin Final /\ faults < MaxFaults /\ faults' = faults + 1
  /\ pc' = "dead" /\ stage' = NoStage /\ cycles' = 0
  /\ broker' = FALSE /\ gate' = Idle
  /\ UNCHANGED <<log, sealed, window, answers, supervisor>>

BrokerDies ==
  /\ broker /\ faults < MaxFaults /\ faults' = faults + 1 /\ broker' = FALSE
  /\ gate' = Idle
  /\ UNCHANGED <<log, sealed, engine, window, answers, supervisor>>

\* A new owner resumes the store once the engine is gone.
BrokerStarts ==
  /\ ~broker /\ pc \in Final /\ gate = Idle /\ broker' = TRUE
  /\ UNCHANGED <<log, sealed, engine, window, gateway, supervisor, faults>>

TerminalLives == {"abandoned", "failed", "workflow_reconciled"}
Lives(life) == sup' = [life |-> life, worker |-> FALSE, gen |-> sup.gen + 1]

\* The watcher saw the worker end with receipts that do not say so.
MarkOrphaned ==
  /\ pc \in {"dead", "broken"} /\ sup.worker /\ Lives("recovery_required")
  /\ UNCHANGED <<log, sealed, broker, engine, window, gateway, watch, confirm, faults>>

\* interrupt_attempt: three calls of the broker, then the state.
Interrupt ==
  /\ pc = "dead" /\ watch = "idle" /\ broker /\ ~sealed
  /\ \E a \in OpenAttempts(log) :
       LET r == Receipt("stage_interrupted", "supervisor", log[a].lane, a, 0, "none")
       IN  Allowed(log, r) /\ log' = Append(log, r)
  /\ watch' = "decide"
  /\ UNCHANGED <<sealed, broker, engine, window, gateway, sup, confirm, faults>>

InterruptDecides ==
  /\ watch = "decide" /\ broker /\ ~sealed
  /\ LET r == Receipt("run_decision", "supervisor", "none", 0,
                      Newest(All(log, {"stage_interrupted"})), "failed")
         all == Extend(log, Terminal(log, r))
     IN  log' = all.log /\ watch' = IF all.ok THEN "seal" ELSE "idle"
  /\ UNCHANGED <<sealed, broker, engine, window, gateway, sup, confirm, faults>>

InterruptSeals ==
  /\ watch = "seal" /\ broker /\ sealed' = TRUE /\ watch' = "state"
  /\ UNCHANGED <<log, broker, engine, window, gateway, sup, confirm, faults>>

InterruptEnds ==
  /\ watch = "state" /\ Lives("failed") /\ watch' = "idle"
  /\ UNCHANGED <<log, sealed, broker, engine, window, gateway, confirm, faults>>

SupervisorDies ==
  /\ watch # "idle" /\ watch' = "idle" /\ broker' = FALSE /\ gate' = Idle
  /\ UNCHANGED <<log, sealed, engine, window, answers, sup, confirm, faults>>

\* What a recovery is confirmed on, before it is asked for.
Confirm ==
  /\ sup.life = "recovery_required" /\ confirm.gen # sup.gen
  /\ confirm' = [seq |-> Len(log), at |-> Newest(OpenAttempts(log)), gen |-> sup.gen]
  /\ UNCHANGED <<log, sealed, broker, engine, window, gateway, sup, watch, faults>>

\* no_live_worker_guard and the sequence that terminalize expects.
Guarded == sup.life = "recovery_required" /\ ~sup.worker /\ sup.gen = confirm.gen

\* Wrong on purpose: the confirmed sequence is not compared.
StaleNever == FALSE

Stale == Len(log) # confirm.seq

Abandon ==
  /\ Guarded /\ broker /\ ~sealed /\ ~Stale /\ watch = "idle"
  /\ LET r == Receipt("run_abandoned", "recovery", "none", confirm.at, 0, "none")
         rs == Terminal(log, r)
         all == Extend(log, rs)
     IN  \/ /\ log' = all.log /\ UNCHANGED <<broker, faults>>
            /\ IF all.ok THEN sealed' = TRUE /\ Lives("abandoned")
                         ELSE UNCHANGED <<sealed, sup>>
         \/ /\ faults < MaxFaults /\ faults' = faults + 1 /\ broker' = FALSE
            /\ \E p \in Heads(rs) : log' = Extend(log, p).log
            /\ UNCHANGED <<sealed, sup>>
  /\ UNCHANGED <<engine, window, gateway, watch, confirm>>

\* record_workflow_reconciliation closes the supervisor's state, not the run.
ReconcileWorkflow ==
  /\ ~sup.worker /\ sup.life \notin TerminalLives /\ Lives("workflow_reconciled")
  /\ UNCHANGED <<log, sealed, broker, engine, window, gateway, watch, confirm, faults>>

Supervisor ==
  \/ WorkerDies \/ BrokerDies \/ BrokerStarts \/ MarkOrphaned \/ Interrupt
  \/ InterruptDecides \/ InterruptSeals \/ InterruptEnds \/ SupervisorDies
  \/ Confirm \/ Abandon \/ ReconcileWorkflow

Next == Engine \/ Operator \/ Supervisor
Spec == Init /\ [][Next]_vars
FairSpec == Spec /\ WF_vars(Engine)
=============================================================================
