-------------------------------- MODULE Review --------------------------------
(***************************************************************************)
(* What an operator does with a ready candidate short of applying it       *)
(* (application/candidate_review.py, review_store.py and the drafts and    *)
(* plans of task_store.py): accept it, correct it into a signed child      *)
(* plan, or continue from it with a new draft.  Requests are served by     *)
(* threads that share two stores; every locked section of a store that     *)
(* another thread's step may fall before or after is one step, and so is   *)
(* every signed decision.                                                  *)
(*                                                                         *)
(* There is one project.  A candidate is its number, a plan stands for its *)
(* hash, a correction for its revision, and the project's files for the    *)
(* candidate whose result they are: 0 at first, Foreign once another       *)
(* program wrote them.  An application is one step, see CandidateApply.    *)
(***************************************************************************)
EXTENDS Integers, Sequences, FiniteSets, SequencesExt

CONSTANTS
  Clients,        \* threads that serve requests
  MaxRequests,    \* bound: request ids the clients use
  MaxOps,         \* bound: operations begun
  MaxCandidates,  \* bound: candidates, and corrections of one
  MaxFaults       \* bound: deaths of the service and calls that raise

ASSUME ReviewAssumption ==
  {MaxRequests, MaxOps, MaxCandidates, MaxFaults} \subseteq Nat

VARIABLES
  records,   \* of every request: what it asks and its state
  decided,   \* requests whose decision is sealed
  correction, \* revision of every candidate's correction, 0 before there is one
  contexts,  \* child_plans: a plan and the request that decided it
  lineage,   \* continuation contexts: a draft revision and a candidate
  active,    \* the project's active continuation, or 0
  draft,     \* the project's draft: revision and text
  origin,    \* candidate whose continuation the draft descends from, or 0
  opening,   \* that continuation wrote the draft and is not active yet
  plans,     \* plans the task store keeps
  tasked,    \* plans a task refers to
  task,      \* the running task: its plan and step
  given,     \* plans a provider was given
  cands,     \* ready candidates: the plans they were built from
  applied,   \* candidates with a sealed application
  files,     \* whose result the project holds
  op,        \* what every client's thread does
  told,      \* child plans that were answered: a request and its plan
  crossed,   \* a deletion's second half was cut short, met a continuation in
             \* use or left one, or a draft was reviewed while it was opening
  begun, faults

review == <<records, decided, correction, contexts, lineage, active>>
tasks == <<draft, origin, opening, plans, tasked, task, given, cands>>
bounds == <<begun, faults>>
vars == <<review, tasks, applied, files, op, told, crossed, bounds>>

Requests == 1..MaxRequests
Candidates == 1..MaxCandidates
Foreign == -1
\* A draft's text: none, the operator's words, or "Continue from" a candidate.
None == 0
Words == -1

Plan(kind, text, rev, base, of) ==
  [kind |-> kind, text |-> text, rev |-> rev, base |-> base, of |-> of]
NoRecord == [kind |-> "none", of |-> 0, rev |-> 0, state |-> "none", result |-> FALSE]
NoPlan == Plan("task", None, 0, 0, 0)
Idle == [at |-> "idle", req |-> 0, of |-> 0, new |-> FALSE, rev |-> 0, text |-> 0, base |-> 0,
         plan |-> NoPlan]
NoTask == [at |-> "idle", plan |-> NoPlan]

First == Plan("task", Words, 1, 0, 0)
Init ==
  /\ records = [r \in Requests |-> NoRecord] /\ decided = {}
  /\ correction = [c \in Candidates |-> 0]
  /\ contexts = {} /\ lineage = {} /\ active = 0
  /\ draft = [rev |-> 1, text |-> Words] /\ origin = 0 /\ opening = FALSE
  /\ plans = {First} /\ tasked = {First} /\ task = NoTask /\ given = {First}
  /\ cands = <<First>> /\ files \in {0, 1} /\ applied = {files} \ {0}
  /\ op = [t \in Clients |-> Idle] /\ told = {} /\ crossed = FALSE
  /\ begun = 0 /\ faults = 0

------------------------------------------------------------------------------
(* A thread: its operation begins, goes on, raises, or is done.             *)

At(t, step) == op[t].at = step
Begins(t, what) ==
  /\ At(t, "idle") /\ begun < MaxOps /\ begun' = begun + 1 /\ UNCHANGED faults
  /\ op' = [op EXCEPT ![t] = what]
Goes(t, step) == op' = [op EXCEPT ![t].at = step]
Done(t) == op' = [op EXCEPT ![t] = Idle]
\* What raises in a request it reserved leaves it failed.
Raises(t) == IF op[t].new THEN Goes(t, "fail") ELSE Done(t)
\* A write that is done, or raises although it was.
Then(t, go) ==
  /\ UNCHANGED begun
  /\ \/ go /\ UNCHANGED faults
     \/ faults < MaxFaults /\ faults' = faults + 1 /\ Raises(t)

Writes == {"sign", "sign child", "save child", "put", "activate", "keep",
           "record", "hand down", "hand down put", "clear", "save plan"}
\* A write that raises and was not done; a draft's deletion then keeps active.
Breaks(t) ==
  /\ op[t].at \in Writes /\ faults < MaxFaults /\ faults' = faults + 1 /\ Raises(t)
  /\ crossed' = (crossed \/ At(t, "clear"))
  /\ UNCHANGED <<review, tasks, applied, files, told, begun>>

\* A record that fails keeps the result it has.
Fail(t) ==
  /\ At(t, "fail") /\ records' = [records EXCEPT ![op[t].req].state = "failed"] /\ Done(t)
  /\ UNCHANGED <<decided, correction, contexts, lineage, active, tasks, applied, files,
                 told, crossed, bounds>>

\* The end of an operation that reserved its request.
States == [review |-> "accepted", child |-> "child_plan_ready",
           continuation |-> "continuation_ready"]
ChildOf(r) ==
  LET c == records[r].of
  IN  Plan("refinement", None, records[r].rev, cands[c].base, c)
Ends(t) ==
  LET r == op[t].req
  IN  /\ At(t, "record") /\ Then(t, Done(t))
      /\ records' = [records EXCEPT ![r].state = States[records[r].kind], ![r].result = TRUE]
      /\ told' = IF records[r].kind = "child" /\ faults' = faults
                   THEN told \cup {<<r, ChildOf(r)>>} ELSE told
      /\ UNCHANGED <<decided, correction, contexts, lineage, active, tasks, applied, files,
                     crossed>>

\* ReviewStore.reserve of a request with this body: reserved, known or refused.
Body(kind, c, rev) ==
  [kind |-> kind, of |-> c, rev |-> rev, state |-> "reserved", result |-> FALSE]
Known(r, body) == [records[r] EXCEPT !.state = "reserved", !.result = FALSE] = body
Reserves(r, body) == records[r] = NoRecord /\ records' = [records EXCEPT ![r] = body]
Thread(step, r, body, new) ==
  [Idle EXCEPT !.at = step, !.req = r, !.of = body.of, !.rev = body.rev, !.new = new]

------------------------------------------------------------------------------
(* accept and save_correction.                                              *)

Base(c) == cands[c].base
Accepted(c) == c \in applied \/ \E r \in decided : records[r].kind = "review" /\ records[r].of = c

\* A repeated request reads its evidence and changes nothing: it may be left out.
Accept(t, r, c) ==
  /\ c \in DOMAIN cands /\ Reserves(r, Body("review", c, 0))
  /\ Begins(t, Thread("check", r, Body("review", c, 0), TRUE))
  /\ UNCHANGED <<decided, correction, contexts, lineage, active, tasks, applied, files,
                 told, crossed>>

CheckBase(t) ==
  /\ At(t, "check")
  /\ IF files = Base(op[t].of) THEN Goes(t, "sign") ELSE Raises(t)
  /\ UNCHANGED <<review, tasks, applied, files, told, crossed, bounds>>

\* One receipt and the seal; unsealed evidence counts for nothing.
Sign(t) ==
  /\ At(t, "sign") /\ decided' = decided \cup {op[t].req} /\ Then(t, Goes(t, "record"))
  /\ UNCHANGED <<records, correction, contexts, lineage, active, tasks, applied, files,
                 told, crossed>>

SaveCorrection(t, c) ==
  /\ c \in DOMAIN cands /\ correction[c] < MaxCandidates /\ Begins(t, Idle)
  /\ correction' = [correction EXCEPT ![c] = @ + 1]
  /\ UNCHANGED <<records, decided, contexts, lineage, active, tasks, applied, files,
                 told, crossed>>

------------------------------------------------------------------------------
(* review_child_plan: it looks at the correction before it reserves.        *)

ReadCorrection(t, r, c) ==
  /\ c \in DOMAIN cands /\ correction[c] # 0
  /\ Begins(t, Thread("reserve child", r, Body("child", c, correction[c]), FALSE))
  /\ UNCHANGED <<review, tasks, applied, files, told, crossed>>

\* _verify_correction_decision, and what else a replay demands: no state.
Proved(r, plan) == <<plan, r>> \in contexts /\ r \in decided
Replays(r) ==
  LET plan == ChildOf(r)
  IN  /\ records[r].result /\ correction[plan.of] = plan.rev
      /\ Proved(r, plan) /\ plan \in plans

ReserveChild(t) ==
  LET r == op[t].req
      body == Body("child", op[t].of, op[t].rev)
  IN  /\ At(t, "reserve child")
      /\ \/ /\ Reserves(r, body) /\ UNCHANGED told
            /\ op' = [op EXCEPT ![t].at = "check child", ![t].new = TRUE]
         \/ /\ records[r] # NoRecord /\ Done(t) /\ UNCHANGED records
            /\ told' = IF Known(r, body) /\ Replays(r)
                         THEN told \cup {<<r, ChildOf(r)>>} ELSE told
      /\ UNCHANGED <<decided, correction, contexts, lineage, active, tasks, applied, files,
                     crossed, bounds>>

CheckChild(t) ==
  /\ At(t, "check child")
  /\ IF files = Base(op[t].of)
       THEN plans' = plans \cup {ChildOf(op[t].req)} /\ Then(t, Goes(t, "sign child"))
       ELSE UNCHANGED <<plans, bounds>> /\ Raises(t)
  /\ UNCHANGED <<review, draft, origin, opening, tasked, task, given, cands, applied, files,
                 told, crossed>>

SignChild(t) ==
  /\ At(t, "sign child") /\ decided' = decided \cup {op[t].req}
  /\ Then(t, Goes(t, "save child"))
  /\ UNCHANGED <<records, correction, contexts, lineage, active, tasks, applied, files,
                 told, crossed>>

\* Wrong on purpose: the last decision of a plan is the one that is kept.
SaveChildLast(t) ==
  LET plan == ChildOf(op[t].req)
  IN  /\ At(t, "save child")
      /\ contexts' = {x \in contexts : x[1] # plan} \cup {<<plan, op[t].req>>}
      /\ Then(t, Goes(t, "record"))
      /\ UNCHANGED <<records, decided, correction, lineage, active, tasks, applied, files,
                     told, crossed>>

\* save_child_plan: a plan has one context.
SaveChild(t) ==
  LET plan == ChildOf(op[t].req)
  IN  /\ At(t, "save child")
      /\ IF \E x \in contexts : x[1] = plan /\ x[2] # op[t].req
           THEN Raises(t) /\ UNCHANGED <<contexts, bounds>>
           ELSE contexts' = contexts \cup {<<plan, op[t].req>>} /\ Then(t, Goes(t, "record"))
      /\ UNCHANGED <<records, decided, correction, lineage, active, tasks, applied, files,
                     told, crossed>>

------------------------------------------------------------------------------
(* continue_task: a repeated request completes what it finds.               *)

Continue(t, r, c) ==
  LET body == Body("continuation", c, 0)
  IN  /\ c \in DOMAIN cands
      /\ \/ Reserves(r, body) /\ Begins(t, Thread("look", r, body, TRUE))
         \/ /\ Known(r, body) /\ records[r].state # "failed" /\ UNCHANGED records
            /\ Begins(t, Thread("look", r, body, FALSE))
      /\ UNCHANGED <<decided, correction, contexts, lineage, active, tasks, applied, files,
                     told, crossed>>

Look(t) ==
  /\ At(t, "look")
  /\ IF op[t].of \in applied /\ files = op[t].of THEN Goes(t, "read draft") ELSE Raises(t)
  /\ UNCHANGED <<review, tasks, applied, files, told, crossed, bounds>>

\* _root_ancestor: back to a plan without a parent.
RootOf(c) ==
  LET root[n \in DOMAIN cands] == IF cands[n].kind = "task" THEN n ELSE root[cands[n].of]
  IN  root[c]
OwnDraft(c) == [rev |-> cands[RootOf(c)].rev, text |-> cands[RootOf(c)].text]

ReadDraft(t) ==
  LET c == op[t].of
      sees(step) == op' = [op EXCEPT ![t].at = step, ![t].rev = draft.rev]
  IN  /\ At(t, "read draft")
      /\ IF draft.text = c THEN sees("activate")
         ELSE IF draft.text = None \/ draft = OwnDraft(c) THEN sees("put")
         ELSE Raises(t)
      /\ UNCHANGED <<review, tasks, applied, files, told, crossed, bounds>>

\* Wrong on purpose: the revision that was read is not compared.
PutBlind(t) ==
  /\ At(t, "put") /\ draft' = [rev |-> draft.rev + 1, text |-> op[t].of]
  /\ origin' = op[t].of /\ opening' = TRUE
  /\ Then(t, op' = [op EXCEPT ![t].at = "observe put", ![t].rev = draft'.rev])
  /\ UNCHANGED <<review, plans, tasked, task, given, cands, applied, files, told, crossed>>
\* save_draft of the text it offers, if the draft is still the one it read.
Put(t) ==
  /\ At(t, "put")
  /\ IF draft.rev # op[t].rev
       THEN Raises(t) /\ UNCHANGED <<draft, origin, opening, bounds>>
       ELSE /\ draft' = [rev |-> draft.rev + 1, text |-> op[t].of]
            /\ origin' = op[t].of /\ opening' = TRUE
            /\ Then(t, op' = [op EXCEPT ![t].at = "observe put", ![t].rev = draft'.rev])
  /\ UNCHANGED <<review, plans, tasked, task, given, cands, applied, files, told, crossed>>

\* Wrong on purpose: only the lineage of the draft it wrote is kept.
ActivateNot(t) ==
  /\ At(t, "activate") /\ opening' = (opening /\ origin # op[t].of) /\ Then(t, Goes(t, "keep"))
  /\ UNCHANGED <<review, draft, origin, plans, tasked, task, given, cands, applied, files, told,
                 crossed>>
Activate(t) ==
  /\ At(t, "activate") /\ active' = op[t].of /\ Then(t, Goes(t, "keep"))
  /\ opening' = (opening /\ origin # op[t].of)
  /\ UNCHANGED <<records, decided, correction, contexts, lineage, draft, origin, plans, tasked,
                 task, given, cands, applied, files, told, crossed>>

\* save_continuation_context: a revision has one.
Kept(rev, c) == \A x \in lineage : x[1] = rev => x[2] = c
Keep(t) ==
  /\ At(t, "keep")
  /\ IF Kept(op[t].rev, op[t].of)
       THEN lineage' = lineage \cup {<<op[t].rev, op[t].of>>} /\ Then(t, Goes(t, "record"))
       ELSE UNCHANGED <<lineage, bounds>> /\ Raises(t)
  /\ UNCHANGED <<records, decided, correction, contexts, active, tasks, applied, files,
                 told, crossed>>

------------------------------------------------------------------------------
(* Drafts and plans.                                                        *)

\* put_draft with the revision that is current: any other changes nothing.
SaveDraft(t, text) ==
  /\ text # None
  /\ draft' = [rev |-> draft.rev + 1, text |-> text]
  /\ Begins(t, [Idle EXCEPT !.at = "observe", !.rev = draft.rev + 1])
  /\ UNCHANGED <<review, origin, opening, plans, tasked, task, given, cands, applied, files,
                 told, crossed>>

\* The draft would be given a continuation that a deletion is about to clear.
Meets(t) ==
  active \notin {0, origin} /\ draft.rev = op[t].rev /\ \E s \in Clients : At(s, "clear")
\* _draft_saved, also of the draft a continuation wrote, reads what is active
Observe(t) ==
  LET sees(step) == op' = [op EXCEPT ![t].at = step, ![t].text = active]
  IN  /\ \/ At(t, "observe") /\ IF active = 0 THEN Done(t) ELSE sees("hand down")
         \/ At(t, "observe put") /\ sees(IF active = 0 THEN "activate" ELSE "hand down put")
      /\ crossed' = (crossed \/ Meets(t))
      /\ UNCHANGED <<review, tasks, applied, files, told, bounds>>
\* and then keeps it with the revision that was saved.
HandDown(t) ==
  /\ op[t].at \in {"hand down", "hand down put"}
  /\ IF Kept(op[t].rev, op[t].text)
       THEN /\ lineage' = lineage \cup {<<op[t].rev, op[t].text>>}
            /\ Then(t, IF At(t, "hand down") THEN Done(t) ELSE Goes(t, "activate"))
       ELSE UNCHANGED <<lineage, bounds>> /\ Raises(t)
  /\ UNCHANGED <<records, decided, correction, contexts, active, tasks, applied, files, told,
                 crossed>>

\* delete_draft: plans up to its revision go, unless a task refers to them.
DeleteDraft(t) ==
  /\ draft.text # None
  /\ draft' = [rev |-> draft.rev + 1, text |-> None] /\ origin' = 0 /\ opening' = FALSE
  /\ plans' = {p \in plans : p \in tasked \/ p.rev > draft.rev}
  /\ Begins(t, [Idle EXCEPT !.at = "clear"])
  /\ UNCHANGED <<review, tasked, task, given, cands, applied, files, told, crossed>>

\* Wrong on purpose: the continuation outlives its draft.
ClearNot(t) ==
  /\ At(t, "clear") /\ Then(t, Done(t))
  /\ UNCHANGED <<review, tasks, applied, files, told, crossed>>
\* A thread that wrote a continuation's draft and is about to make it active.
Opens(t) == op[t].at \in {"observe put", "hand down put", "activate"}
\* _draft_deleted clears what is active by now, if it is the draft's own, too;
\* what is activated later without its draft is left.
Clear(t) ==
  /\ At(t, "clear") /\ active' = 0 /\ Then(t, Done(t))
  /\ crossed' = \/ crossed \/ (active # 0 /\ origin # 0 /\ ~opening)
                \/ \E s \in Clients : Opens(s) /\ op[s].of # origin
  /\ UNCHANGED <<records, decided, correction, contexts, lineage, tasks, applied, files, told>>

\* review_plan: the draft and the files, then its lineage, then both stores.
ReviewPlan(t) ==
  /\ draft.text # None
  /\ Begins(t, [Idle EXCEPT !.at = "lineage", !.rev = draft.rev, !.text = draft.text,
                            !.base = files])
  /\ UNCHANGED <<review, tasks, applied, files, told, crossed>>
\* _transform_plan: what was kept with the revision,
FindLineage(t) ==
  /\ At(t, "lineage")
  /\ \/ \E x \in lineage :
          x[1] = op[t].rev /\ op' = [op EXCEPT ![t].at = "save plan", ![t].of = x[2]]
     \/ (\A x \in lineage : x[1] # op[t].rev) /\ Goes(t, "lineage active")
  /\ UNCHANGED <<review, tasks, applied, files, told, crossed, bounds>>
\* or what is active: a draft that is opening has none of the two.
Misses(t) == active = 0 /\ opening /\ draft.rev = op[t].rev
FindActive(t) ==
  /\ At(t, "lineage active") /\ op' = [op EXCEPT ![t].at = "save plan", ![t].of = active]
  /\ crossed' = (crossed \/ Meets(t) \/ Misses(t))
  /\ UNCHANGED <<review, tasks, applied, files, told, bounds>>
SavePlan(t) ==
  LET of == op[t].of
      plan == Plan(IF of = 0 THEN "task" ELSE "continuation",
                   op[t].text, op[t].rev, op[t].base, of)
  IN  /\ At(t, "save plan")
      /\ contexts' = IF of = 0 THEN contexts ELSE contexts \cup {<<plan, 0>>}
      /\ plans' = plans \cup {plan} /\ Then(t, Done(t))
      /\ UNCHANGED <<records, decided, correction, lineage, active, draft, origin, opening,
                     tasked, task, given, cands, applied, files, told, crossed>>

------------------------------------------------------------------------------
(* Tasks (see Tasks): a plan is compared with the draft, then with the      *)
(* files, and a task reserved if none runs; the files are compared again    *)
(* with what its provider is given.                                         *)

Fresh(p) == files = p.base
Current(p) == p.kind = "refinement" \/ draft = [rev |-> p.rev, text |-> p.text]
HasContext(p) == \E x \in contexts : x[1] = p

Start(t, p) ==
  /\ p \in plans /\ Current(p) /\ (p.kind = "refinement" => HasContext(p))
  /\ Begins(t, [Idle EXCEPT !.at = "revalidate", !.plan = p])
  /\ UNCHANGED <<review, tasks, applied, files, told, crossed>>
Revalidate(t) ==
  /\ At(t, "revalidate") /\ IF Fresh(op[t].plan) THEN Goes(t, "reserve task") ELSE Done(t)
  /\ UNCHANGED <<review, tasks, applied, files, told, crossed, bounds>>
ReserveTask(t) ==
  LET p == op[t].plan
  IN  /\ At(t, "reserve task") /\ Done(t)
      /\ IF task.at = "idle"
           THEN task' = [at |-> "preparing", plan |-> p] /\ tasked' = tasked \cup {p}
           ELSE UNCHANGED <<task, tasked>>
      /\ UNCHANGED <<review, draft, origin, opening, plans, given, cands, applied, files, told,
                     crossed, bounds>>

\* _child_input_bundle.
Bundled(p) ==
  CASE p.kind = "task" -> TRUE
    [] p.kind = "continuation" -> HasContext(p) /\ p.of \in applied
    [] OTHER -> correction[p.of] = p.rev /\ \E r \in Requests : Proved(r, p)
Prepare ==
  /\ task.at = "preparing"
  /\ IF Fresh(task.plan) /\ Bundled(task.plan)
       THEN task' = [task EXCEPT !.at = "generating"] /\ given' = given \cup {task.plan}
       ELSE task' = NoTask /\ UNCHANGED given
  /\ UNCHANGED <<review, draft, origin, opening, plans, tasked, cands, applied, files, op, told,
                 crossed, bounds>>
Generate ==
  /\ task.at = "generating" /\ task' = NoTask
  /\ \/ Len(cands) < MaxCandidates /\ cands' = Append(cands, task.plan)
     \/ UNCHANGED cands
  /\ UNCHANGED <<review, draft, origin, opening, plans, tasked, given, applied, files, op, told,
                 crossed, bounds>>

Apply(t, c) ==
  /\ c \in DOMAIN cands /\ Accepted(c) /\ c \notin applied /\ files = Base(c) /\ Begins(t, Idle)
  /\ applied' = applied \cup {c} /\ files' = c
  /\ UNCHANGED <<review, tasks, told, crossed>>

------------------------------------------------------------------------------
\* Another program writes the project's files.
Edit ==
  /\ files # Foreign /\ faults < MaxFaults /\ faults' = faults + 1 /\ files' = Foreign
  /\ UNCHANGED <<review, tasks, applied, op, told, crossed, begun>>

Crash ==
  /\ faults < MaxFaults /\ faults' = faults + 1
  /\ op' = [t \in Clients |-> Idle] /\ task' = NoTask /\ op' # op
  /\ crossed' = (crossed \/ \E t \in Clients : At(t, "clear"))
  /\ UNCHANGED <<review, draft, origin, opening, plans, tasked, given, cands, applied, files,
                 told, begun>>

Operation(t) ==
  \/ \E r \in Requests, c \in Candidates :
       Accept(t, r, c) \/ ReadCorrection(t, r, c) \/ Continue(t, r, c)
  \/ \E c \in Candidates : SaveCorrection(t, c) \/ Apply(t, c)
  \/ \E text \in {Words, draft.text} : SaveDraft(t, text)
  \/ DeleteDraft(t) \/ ReviewPlan(t)
  \/ \E p \in plans : Start(t, p)

Work(t) ==
  \/ CheckBase(t) \/ Sign(t) \/ Ends(t) \/ Fail(t) \/ Breaks(t)
  \/ ReserveChild(t) \/ CheckChild(t) \/ SignChild(t) \/ SaveChild(t)
  \/ Look(t) \/ ReadDraft(t) \/ Put(t) \/ Activate(t) \/ Keep(t)
  \/ Observe(t) \/ HandDown(t) \/ Clear(t) \/ FindLineage(t) \/ FindActive(t) \/ SavePlan(t)
  \/ Revalidate(t) \/ ReserveTask(t)

Next == (\E t \in Clients : Operation(t) \/ Work(t)) \/ Prepare \/ Generate \/ Edit \/ Crash

Spec == Init /\ [][Next]_vars
=============================================================================
