----------------------------- MODULE RunEvidence -----------------------------
(***************************************************************************)
(* The contract of a run's receipts (domain/run_evidence.py and            *)
(* domain/evidence_transitions.py): which receipt may follow a sequence of *)
(* receipts.  ReceiptChain.append tests it before it writes a line, seal   *)
(* before it seals, and every verifier afterwards.                         *)
(*                                                                         *)
(* A receipt is [t, who, lane, at, of, say]: the transition, the writer,   *)
(* the role it speaks of, the sequence number of the stage_attempt_created *)
(* it belongs to (which identifies the attempt: id, ordinal and cycle), the*)
(* sequence number of another receipt it refers to, and the word that      *)
(* matters: a decision, a resolution, a command.  Zero and "none" stand    *)
(* for an absent field.  Only schema-current evidence is modelled.         *)
(***************************************************************************)
EXTENDS Integers, Sequences, FiniteSets, FiniteSetsExt

CoreLanes == {"g1d", "g1r", "builder", "g2a"}
ConditionalLanes == {"refine_bug", "refine_ui"}
Reviews == {"g1r", "g2a"}
AttemptEnds == {"stage_blocked", "stage_completed", "stage_rejected",
                "stage_failed", "stage_interrupted"}
OfAttempt == AttemptEnds \cup {"stage_attempt_created", "stage_dispatch_started"}

\* TRANSITION_RULES: who may write which transition, with which decision.
Rules ==
  {<<"orchestrator", t, "none">> : t \in
     {"run_attested", "run_planned", "stage_attempt_created",
      "stage_dispatch_started", "stage_blocked", "stage_rejected",
      "stage_completed", "stage_failed", "repair_routed", "action_opened",
      "terminalization_started", "context_injected", "command_unapplied",
      "run_replanned"}}
  \cup {<<"operator_gateway", t, "none">> : t \in
     {"command_accepted", "command_rejected", "action_resolved"}}
  \cup {<<"orchestrator", "run_decision", d>> : d \in
     {"completed", "blocked", "failed", "awaiting_approval"}}
  \cup {<<"operator_gateway", "run_decision", d>> : d \in
     {"completed", "blocked", "failed"}}
  \cup {<<"supervisor", "stage_interrupted", "none">>,
        <<"supervisor", "run_decision", "failed">>,
        <<"recovery", "run_abandoned", "none">>}
Authorised(r) ==
  <<r.who, r.t, IF r.t = "run_decision" THEN r.say ELSE "none">> \in Rules

------------------------------------------------------------------------------
(* What the receipts l say.                                                 *)

All(l, ts) == {i \in DOMAIN l : l[i].t \in ts}
Newest(S) == IF S = {} THEN 0 ELSE Max(S)

Live(l) == \E i \in All(l, {"run_planned"}) : l[i].say = "live"
Required(l) == IF Live(l) THEN CoreLanes ELSE {}
Cataloged(l) == All(l, {"run_planned"}) # {}

Attempts(l) == All(l, {"stage_attempt_created"})
Dispatched(l, a) ==
  \E i \in DOMAIN l : l[i].t = "stage_dispatch_started" /\ l[i].at = a
EndOf(l, a) ==
  LET ends == {i \in All(l, AttemptEnds) : l[i].at = a}
  IN  IF ends # {} THEN l[Max(ends)].t
      ELSE IF All(l, {"run_abandoned"}) # {} THEN "run_abandoned" ELSE "open"
OpenAttempts(l) == {a \in Attempts(l) : EndOf(l, a) = "open"}
LastAttempt(l, lane) == Newest({a \in Attempts(l) : l[a].lane = lane})
LatestEnds(l, lanes) ==
  {EndOf(l, LastAttempt(l, lane)) :
     lane \in {x \in lanes : LastAttempt(l, x) # 0}}

Commands(l) == All(l, {"command_accepted"})
Known(l, c) ==
  \E i \in All(l, {"command_accepted", "command_rejected"}) : l[i].say = c
Finals(l, i) ==
  {j \in All(l, {"context_injected", "command_unapplied"}) : l[j].of = i}
\* Wrong on purpose: a command for the lead is never pending.
PendingDirect(l) ==
  {i \in Commands(l) : Finals(l, i) = {} /\ l[i].lane # "lead"}
PendingCommands(l) == {i \in Commands(l) : Finals(l, i) = {}}
ReplanOf(l, i) == {j \in All(l, {"run_replanned"}) : l[j].of = i}

OpenActions(l) ==
  {i \in All(l, {"action_opened"}) :
     \A j \in All(l, {"action_resolved"}) : l[j].of # i}
Waiting(l) == \E i \in All(l, {"run_decision"}) : l[i].say = "awaiting_approval"
Decided(l) ==
  \E i \in All(l, {"run_decision", "run_abandoned"}) :
     l[i].say # "awaiting_approval"
Terminating(l) == All(l, {"terminalization_started"}) # {}
\* What is sealed into action_opened: the two resolutions and what they decide.
OutcomeMap == [approved |-> "completed", rejected |-> "blocked"]

------------------------------------------------------------------------------
(* May receipt r follow l?  One operator per transition or group.           *)

AttemptOpens(l, r) ==
  r.t = "stage_attempt_created" =>
    /\ Cataloged(l) => r.lane \in CoreLanes \cup ConditionalLanes
    /\ \A a \in OpenAttempts(l) : l[a].lane # r.lane
    /\ \A j \in All(l, {"command_unapplied"}) : l[j].lane \notin {"lead", r.lane}
    /\ r.lane \in ConditionalLanes =>
         r.of \in All(l, {"repair_routed"}) /\ l[r.of].lane = r.lane

AttemptMoves(l, r) ==
  r.t \in OfAttempt \ {"stage_attempt_created"} =>
    /\ r.at \in OpenAttempts(l) /\ l[r.at].lane = r.lane
    /\ r.t \in {"stage_dispatch_started", "stage_blocked"} => ~Dispatched(l, r.at)
    /\ r.t \in {"stage_completed", "stage_rejected"} => Dispatched(l, r.at)
    /\ r.t = "stage_rejected" => r.lane \in Reviews
    /\ r.t = "stage_failed" /\ r.say = "dispatched" => Dispatched(l, r.at)

RepairNeedsDefect(l, r) ==
  r.t = "repair_routed" =>
    /\ r.lane \in ConditionalLanes
    /\ LastAttempt(l, "g2a") # 0
    /\ EndOf(l, LastAttempt(l, "g2a")) = "stage_rejected"

CommandOnce(l, r) ==
  r.t \in {"command_accepted", "command_rejected"} => ~Known(l, r.say)

ReplanFits(l, r) ==
  r.t = "run_replanned" =>
    /\ Cataloged(l) /\ r.of \in PendingCommands(l) /\ l[r.of].lane = "lead"
    /\ ReplanOf(l, r.of) = {}
    /\ r.at \in OpenAttempts(l) /\ r.of < r.at /\ ~Dispatched(l, r.at)

InjectFits(l, r) ==
  r.t = "context_injected" =>
    /\ r.of \in PendingCommands(l)
    /\ IF l[r.of].lane = "lead"
         THEN \E j \in ReplanOf(l, r.of) : l[j].at = r.at
         ELSE r.at \in Attempts(l) /\ l[r.at].lane = l[r.of].lane
    /\ r.at \in Attempts(l) /\ ~Dispatched(l, r.at) /\ r.of < r.at

UnappliedFits(l, r) ==
  r.t = "command_unapplied" => r.of \in PendingCommands(l) /\ Terminating(l)

TerminatesOnce(l, r) ==
  r.t = "terminalization_started" =>
    ~Terminating(l) /\ OpenActions(l) = {} /\ PendingCommands(l) # {}

ActionResolves(l, r) ==
  r.t = "action_resolved" => r.of \in OpenActions(l) /\ r.say \in DOMAIN OutcomeMap

NothingOpen(l) == OpenActions(l) = {} /\ OpenAttempts(l) = {}

OperatorDecides(l, r) ==
  r.t = "run_decision" /\ r.who = "operator_gateway" =>
    /\ r.of \in All(l, {"action_resolved"}) /\ r.say = OutcomeMap[l[r.of].say]
    /\ NothingOpen(l) /\ Waiting(l) /\ PendingCommands(l) = {}

SupervisorDecides(l, r) ==
  r.t = "run_decision" /\ r.who = "supervisor" =>
    /\ r.of \in All(l, {"stage_interrupted"})
    /\ NothingOpen(l) /\ PendingCommands(l) = {}

EngineDecides(l, r) ==
  r.t = "run_decision" /\ r.who = "orchestrator" =>
    LET ends == LatestEnds(l, Required(l))
        broke == ends \cap {"stage_failed", "stage_interrupted"}
    IN  IF r.say = "awaiting_approval"
        THEN OpenActions(l) # {} /\ OpenAttempts(l) = {}
        ELSE /\ NothingOpen(l) /\ PendingCommands(l) = {}
             /\ r.say = "completed" =>
                  \A lane \in Required(l) :
                     LastAttempt(l, lane) # 0
                     /\ EndOf(l, LastAttempt(l, lane)) = "stage_completed"
             /\ r.say = "blocked" =>
                  ends \cap {"stage_blocked", "stage_rejected"} # {} /\ broke = {}
             /\ r.say = "failed" => broke # {}

\* attempt_ids holds at most one attempt: the engine opens one at a time.
Abandons(l, r) ==
  r.t = "run_abandoned" =>
    LET claimed == {r.at} \ {0}
    IN  /\ ~Waiting(l) /\ OpenActions(l) = {} /\ claimed = OpenAttempts(l)
        /\ claimed = {} => Cataloged(l) /\ Attempts(l) = {}
        /\ PendingCommands(l) = {}

\* validate_v2_receipt_contract of l followed by r, for an l it accepts.
Allowed(l, r) ==
  /\ ~Decided(l)
  /\ Terminating(l) =>
       r.t \in {"command_unapplied", "run_abandoned", "run_decision"}
  /\ Authorised(r)
  /\ r.t = "run_planned" => ~Cataloged(l)
  /\ AttemptOpens(l, r) /\ AttemptMoves(l, r) /\ RepairNeedsDefect(l, r)
  /\ CommandOnce(l, r) /\ ReplanFits(l, r) /\ InjectFits(l, r)
  /\ UnappliedFits(l, r) /\ TerminatesOnce(l, r) /\ ActionResolves(l, r)
  /\ OperatorDecides(l, r) /\ SupervisorDecides(l, r) /\ EngineDecides(l, r)
  /\ Abandons(l, r)

Sealable(l) ==
  /\ OpenAttempts(l) = {} /\ PendingCommands(l) = {}
  /\ Terminating(l) => Decided(l)

------------------------------------------------------------------------------
(* Several appends under one lock: the first that is refused stops the rest,*)
(* and what was written before it stays.                                    *)

Extend(l, rs) ==
  LET n == Max({k \in 0..Len(rs) :
                  \A j \in 1..k : Allowed(l \o SubSeq(rs, 1, j - 1), rs[j])})
  IN  [log |-> l \o SubSeq(rs, 1, n), ok |-> n = Len(rs)]

Nth(S, n) == CHOOSE x \in S : Cardinality({y \in S : y < x}) = n - 1
Unapplied(l, i) ==
  [t |-> "command_unapplied", who |-> "orchestrator", lane |-> l[i].lane,
   at |-> 0, of |-> i, say |-> l[i].say]
\* ReceiptChain.terminalize: finalize what is pending, then decide.
Terminal(l, r) ==
  (IF PendingCommands(l) = {} THEN <<>>
   ELSE <<[t |-> "terminalization_started", who |-> "orchestrator",
           lane |-> r.lane, at |-> 0, of |-> 0, say |-> "none"]>>)
  \o [n \in 1..Cardinality(PendingCommands(l)) |->
        Unapplied(l, Nth(PendingCommands(l), n))]
  \o <<r>>
=============================================================================
