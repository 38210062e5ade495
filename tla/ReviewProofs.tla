----------------------------- MODULE ReviewProofs -----------------------------
(***************************************************************************)
(* A correction leads to one signed child, however requests race, repeat   *)
(* and fail; a continuation replaces no words but its candidate's, and a   *)
(* task carries the lineage of its draft: for every number of clients,     *)
(* requests and candidates.                                                *)
(***************************************************************************)
EXTENDS ReviewProperties, SequenceTheorems, WellFoundedInduction, TLAPS

----------------------------------------------------------------------------
(* The inductive invariant.                                                *)

\* What a thread does with a request of each kind, and with none.
OfReview == {"check", "sign"}
OfChild == {"check child", "sign child", "save child"}
OfContinuation ==
  {"look", "read draft", "put", "observe put", "hand down put", "activate", "keep"}
OfAny == {"record", "fail"}
OfNone ==
  {"idle", "reserve child", "observe", "hand down", "clear", "lineage", "lineage active",
   "save plan", "revalidate", "reserve task"}
Steps == OfReview \cup OfChild \cup OfContinuation \cup OfAny \cup OfNone
AsksFor == {"review", "child", "continuation"}

Plans ==
  [kind : {"task", "continuation", "refinement"}, text : Int, rev : Int, base : Int, of : Int]
Records ==
  [kind : AsksFor \cup {"none"}, of : Int, rev : Int,
   state : {"none", "reserved", "failed", "accepted", "child_plan_ready", "continuation_ready"},
   result : BOOLEAN]
Threads ==
  [at : Steps, req : Int, of : Int, new : BOOLEAN, rev : Int, text : Int, base : Int,
   plan : Plans]

Typed ==
  /\ records \in [Requests -> Records] /\ correction \in [Candidates -> Int]
  /\ contexts \subseteq Plans \X Int /\ lineage \subseteq Int \X Int /\ active \in Int
  /\ draft \in [rev : Int, text : Int] /\ plans \subseteq Plans
  /\ task \in [at : {"idle", "preparing", "generating"}, plan : Plans]
  /\ cands \in Seq(Plans) /\ files \in Int
  /\ op \in [Clients -> Threads]

\* What a thread relies on: of its request, and of what it has signed and saved.
Holds(r) == r \in Requests /\ records[r].kind # "none"
Relies(t) ==
  LET r == op[t].req IN
  /\ op[t].new => Holds(r)
  /\ op[t].at \notin OfNone => Holds(r)
  /\ op[t].at \in OfReview => records[r].kind = "review"
  /\ op[t].at \in OfChild => records[r].kind = "child"
  /\ op[t].at \in OfContinuation => records[r].kind = "continuation"
  /\ op[t].at = "reserve child" => r \in Requests /\ op[t].of \in DOMAIN cands
  /\ op[t].at = "save child" => r \in decided
  /\ op[t].at = "record" /\ records[r].kind = "child" => Proved(r, ChildOf(r))

\* A request asks for a candidate there is; a plan of a child has one context.
Sound ==
  /\ \A r \in Requests : records[r].kind # "none" => records[r].of \in DOMAIN cands
  /\ \A x, y \in contexts : x[1] = y[1] /\ x[1].kind = "refinement" => x = y
  /\ \A x \in told : Proved(x[1], x[2]) /\ x[2].kind = "refinement"
                     /\ x = <<x[1], x[2]>>
  /\ \A p \in given : p.kind = "refinement" => \E r \in Requests : Proved(r, p)

IInv == Typed /\ Sound /\ \A t \in Clients : Relies(t)

----------------------------------------------------------------------------
(* What was reserved, signed and saved stays.                              *)

Grows ==
  /\ \A r \in Requests : records[r].kind # "none" =>
       /\ records'[r].kind = records[r].kind /\ records'[r].of = records[r].of
       /\ records'[r].rev = records[r].rev
  /\ \A c \in DOMAIN cands : c \in DOMAIN cands' /\ cands'[c] = cands[c]
  /\ decided \subseteq decided' /\ contexts \subseteq contexts'

LEMMA GrowsProved ==
  ASSUME Grows, NEW r, NEW p, Proved(r, p)
  PROVE  Proved(r, p)'
BY DEF Grows, Proved

LEMMA GrowsChild ==
  ASSUME Sound, Grows, NEW r \in Requests, records[r].kind # "none"
  PROVE  ChildOf(r)' = ChildOf(r) /\ (Proved(r, ChildOf(r)) => Proved(r, ChildOf(r))')
<1>1. ChildOf(r)' = ChildOf(r)
  BY DEF Sound, Grows, ChildOf
<1> QED
  BY <1>1 DEF Grows, Proved

LEMMA GrowsRelies ==
  ASSUME Sound, Grows, NEW s \in Clients, Relies(s), op'[s] = op[s]
  PROVE  Relies(s)'
<1> DEFINE r == op[s].req
<1>1. PICK q : q = op[s].req /\ q = op'[s].req
  OBVIOUS
<1>2. Holds(q) => Holds(q)' /\ records'[q].kind = records[q].kind
  BY DEF Holds, Grows
<1>3. Holds(q) /\ Proved(q, ChildOf(q)) => Proved(q, ChildOf(q))'
  BY GrowsChild DEF Holds
<1>4. op[s].of \in DOMAIN cands => op'[s].of \in DOMAIN cands'
  BY DEF Grows
<1>5. q \in decided => q \in decided'
  BY DEF Grows
<1>6. "record" \notin OfNone
  BY DEF OfNone
<1>7. Relies(s) => Relies(s)'
  BY <1>1, <1>2, <1>3, <1>4, <1>5, <1>6 DEF Relies, OfReview, OfChild, OfContinuation, OfNone
<1> QED
  BY <1>7

LEMMA GrowsSound ==
  ASSUME Sound, Grows, UNCHANGED <<contexts, told, given>>,
         \A r \in Requests : records'[r].kind # "none" => records'[r].of \in DOMAIN cands'
  PROVE  Sound'
BY GrowsProved DEF Sound

\* Steps that leave requests, decisions, contexts and candidates alone.
Quiet == UNCHANGED <<records, decided, contexts, cands, told, given>>

LEMMA QuietSound ==
  ASSUME Sound, Quiet
  PROVE  Sound' /\ Grows
<1>1. Grows
  BY DEF Quiet, Grows
<1>2. \A r \in Requests : records'[r].kind # "none" => records'[r].of \in DOMAIN cands'
  BY DEF Quiet, Sound
<1> QED
  BY <1>1, <1>2, GrowsSound DEF Quiet

----------------------------------------------------------------------------
(* How a thread moves.                                                     *)

Moves(t) == op' \in [Clients -> Threads] /\ \A s \in Clients \ {t} : op'[s] = op[s]

LEMMA GoesTo ==
  ASSUME Typed, NEW t \in Clients, NEW step \in Steps, Goes(t, step)
  PROVE  /\ Moves(t) /\ op'[t].at = step /\ op'[t].req = op[t].req
         /\ op'[t].of = op[t].of /\ op'[t].new = op[t].new
BY DEF Typed, Threads, Goes, Moves

LEMMA DoneTo ==
  ASSUME Typed, NEW t \in Clients, Done(t)
  PROVE  Moves(t) /\ op'[t].at = "idle" /\ op'[t].new = FALSE /\ Relies(t)'
<1>1. Idle \in Threads /\ Idle.at = "idle" /\ Idle.new = FALSE
  BY DEF Idle, Threads, Steps, OfNone, NoPlan, Plan, Plans, None
<1>2. op'[t] = Idle /\ Moves(t)
  BY <1>1 DEF Typed, Done, Moves
<1>3. Relies(t)'
  BY <1>1, <1>2 DEF Relies, OfNone, OfReview, OfChild, OfContinuation
<1> QED
  BY <1>1, <1>2, <1>3

LEMMA RaisesTo ==
  ASSUME Typed, Grows, NEW t \in Clients, Relies(t), Raises(t)
  PROVE  Moves(t) /\ Relies(t)'
<1>1. CASE op[t].new
  <2>1. /\ Moves(t) /\ op'[t].at = "fail" /\ op'[t].req = op[t].req /\ op'[t].new = op[t].new
    BY <1>1, GoesTo DEF Raises, Steps, OfAny
  <2>2. PICK q : q = op[t].req /\ q = op'[t].req
    BY <2>1
  <2>3. Holds(q)
    BY <1>1, <2>2 DEF Relies
  <2>4. Holds(q)'
    BY <2>3 DEF Holds, Grows
  <2> QED
    BY <2>1, <2>2, <2>4 DEF Relies, OfNone, OfReview, OfChild, OfContinuation
<1>2. CASE ~op[t].new
  BY <1>2, DoneTo DEF Raises
<1> QED
  BY <1>1, <1>2

\* A step of a thread that relies on what it finds leaves an invariant state.
LEMMA StepInv ==
  ASSUME IInv, NEW t \in Clients, Typed', Sound', Grows, Moves(t), Relies(t)'
  PROVE  IInv'
<1>1. ASSUME NEW s \in Clients PROVE Relies(s)'
  <2>1. CASE s = t
    BY <2>1
  <2>2. CASE s # t
    BY <2>2, GrowsRelies DEF IInv, Moves
  <2> QED
    BY <2>1, <2>2
<1> QED
  BY <1>1 DEF IInv

LEMMA GoesOn ==
  ASSUME IInv, Grows, NEW t \in Clients, NEW r, r = op[t].req,
         NEW step \in Steps \ OfNone, Goes(t, step), op[t].at \notin OfNone,
         step \in OfReview => op[t].at \in OfReview,
         step \in OfChild => op[t].at \in OfChild,
         step \in OfContinuation => op[t].at \in OfContinuation,
         step = "save child" => r \in decided',
         step = "record" =>
           op[t].at \in OfReview \cup OfContinuation \/ Proved(r, ChildOf(r))'
  PROVE  Moves(t) /\ Relies(t)'
<1>1. /\ Moves(t) /\ op'[t].at = step /\ r = op'[t].req /\ op'[t].new = op[t].new
  BY GoesTo DEF IInv
<1>2. Holds(r) /\ Holds(r)' /\ records'[r].kind = records[r].kind
  BY DEF IInv, Relies, Holds, Grows
<1>3. /\ op[t].at \in OfReview => records[r].kind = "review"
      /\ op[t].at \in OfChild => records[r].kind = "child"
      /\ op[t].at \in OfContinuation => records[r].kind = "continuation"
  BY DEF IInv, Relies
<1>4. step # "reserve child"
  BY DEF OfNone
<1>5. step = "record" /\ records'[r].kind = "child" => Proved(r, ChildOf(r))'
  BY <1>2, <1>3
<1> QED
  BY <1>1, <1>2, <1>3, <1>4, <1>5 DEF Relies

LEMMA BeginsAs ==
  ASSUME Typed, NEW t \in Clients, NEW what \in Threads, Begins(t, what)
  PROVE  Moves(t) /\ op'[t] = what
BY DEF Typed, Begins, Moves

\* A thread that holds no request.
LEMMA Free ==
  ASSUME NEW t \in Clients, op'[t].new = FALSE, op'[t].at \in OfNone \ {"reserve child"}
  PROVE  Relies(t)'
BY DEF Relies, OfNone, OfReview, OfChild, OfContinuation

LEMMA ChildPlan ==
  ASSUME Typed, Sound, NEW r, Holds(r)
  PROVE  ChildOf(r) \in Plans /\ ChildOf(r).kind = "refinement"
<1>1. records[r] \in Records /\ records[r].of \in DOMAIN cands
  BY DEF Typed, Sound, Holds
<1>2. cands[records[r].of] \in Plans
  BY <1>1 DEF Typed
<1> QED
  BY <1>1, <1>2 DEF ChildOf, Plan, Plans, Records, None

\* The rest of the state, for the steps that leave requests and plans alone.
Rest ==
  /\ correction \in [Candidates -> Int] /\ lineage \subseteq Int \X Int /\ active \in Int
  /\ draft \in [rev : Int, text : Int] /\ plans \subseteq Plans
  /\ task \in [at : {"idle", "preparing", "generating"}, plan : Plans] /\ files \in Int

LEMMA QuietInv ==
  ASSUME IInv, NEW t \in Clients, Quiet, Moves(t), Relies(t)', Rest'
  PROVE  IInv'
<1>1. Typed'
  BY DEF IInv, Typed, Quiet, Moves, Rest
<1>2. Sound' /\ Grows
  BY QuietSound DEF IInv
<1> QED
  BY <1>1, <1>2, StepInv

LEMMA RestStays ==
  ASSUME IInv, UNCHANGED <<correction, lineage, active, draft, plans, task, files>>
  PROVE  Rest'
BY DEF IInv, Typed, Rest

----------------------------------------------------------------------------
(* The operations as they begin.                                           *)

LEMMA IdleThread == Idle \in Threads /\ Idle.new = FALSE /\ Idle.at = "idle"
BY DEF Idle, Threads, Steps, OfNone, NoPlan, Plan, Plans, None

LEMMA IdleFree ==
  ASSUME Typed, NEW t \in Clients, Begins(t, Idle)
  PROVE  Moves(t) /\ Relies(t)'
<1>1. Moves(t) /\ op'[t] = Idle
  BY IdleThread, BeginsAs
<1> QED
  BY <1>1, IdleThread, Free DEF OfNone

LEMMA BodyThread ==
  ASSUME NEW step \in Steps, NEW r \in Int, NEW kind \in AsksFor, NEW c \in Int,
         NEW rev \in Int, NEW new \in BOOLEAN
  PROVE  LET what == Thread(step, r, Body(kind, c, rev), new) IN
         /\ what \in Threads /\ what.at = step /\ what.req = r /\ what.of = c
         /\ what.new = new
         /\ Body(kind, c, rev) \in Records
BY IdleThread DEF Thread, Body, Threads, Records, Idle

\* A request that is reserved is one that there was not.
LEMMA ReservesGrows ==
  ASSUME IInv, NEW r \in Requests, NEW kind \in AsksFor, NEW c \in DOMAIN cands, NEW rev \in Int,
         Reserves(r, Body(kind, c, rev)), UNCHANGED <<decided, contexts, cands>>
  PROVE  /\ Grows /\ records' \in [Requests -> Records] /\ records'[r].kind = kind
         /\ UNCHANGED <<told, given>> => Sound'
<1>0. c \in Int
  BY DEF IInv, Typed
<1>1. records \in [Requests -> Records] /\ Body(kind, c, rev) \in Records
  BY <1>0 DEF IInv, Typed, Body, Records
<1>2. /\ records[r].kind = "none" /\ records' = [records EXCEPT ![r] = Body(kind, c, rev)]
  BY DEF Reserves, NoRecord
<1>3. Grows
  BY <1>1, <1>2 DEF Grows
<1>4. records' \in [Requests -> Records]
  BY <1>1, <1>2
<1>5. \A q \in Requests : records'[q].kind # "none" => records'[q].of \in DOMAIN cands'
  <2>1. Body(kind, c, rev).of = c
    BY DEF Body
  <2> QED
    BY <1>1, <1>2, <2>1 DEF IInv, Sound
<1>6. records'[r].kind = kind
  BY <1>1, <1>2 DEF Body
<1> QED
  BY <1>3, <1>4, <1>5, <1>6, GrowsSound DEF IInv

LEMMA CountIsInt == Requests \subseteq Int /\ Candidates \subseteq Int
BY ReviewAssumption DEF Requests, Candidates

LEMMA AcceptInv ==
  ASSUME IInv, NEW t \in Clients, NEW r \in Requests, NEW c \in Candidates, Accept(t, r, c)
  PROVE  IInv'
<1> DEFINE what == Thread("check", r, Body("review", c, 0), TRUE)
<1>1. what \in Threads /\ what.at = "check" /\ what.req = r
  <2>1. "check" \in Steps /\ "review" \in AsksFor /\ r \in Int /\ c \in Int
    BY CountIsInt DEF Steps, OfReview, AsksFor
  <2> QED
    BY <2>1, IdleThread DEF Thread, Body, Threads, Idle
<1>2. Moves(t) /\ op'[t] = what
  BY <1>1, BeginsAs DEF Accept, IInv
<1>3. Grows /\ Sound' /\ records' \in [Requests -> Records] /\ records'[r].kind = "review"
  BY ReservesGrows DEF Accept, AsksFor, tasks
<1>4. Holds(r)'
  BY <1>3 DEF Holds
<1>5. Relies(t)'
  BY <1>1, <1>2, <1>3, <1>4 DEF Relies, OfReview, OfChild, OfContinuation
<1>6. Typed'
  BY <1>2, <1>3 DEF IInv, Typed, Accept, Moves, tasks
<1> QED
  BY <1>2, <1>3, <1>5, <1>6, StepInv

LEMMA SaveCorrectionInv ==
  ASSUME IInv, NEW t \in Clients, NEW c \in Candidates, SaveCorrection(t, c)
  PROVE  IInv'
<1>1. Moves(t) /\ Relies(t)'
  BY IdleFree DEF SaveCorrection, IInv
<1>2. Rest' /\ Quiet
  BY DEF SaveCorrection, IInv, Typed, Rest, Quiet, tasks
<1> QED
  BY <1>1, <1>2, QuietInv

LEMMA ReadCorrectionInv ==
  ASSUME IInv, NEW t \in Clients, NEW r \in Requests, NEW c \in Candidates,
         ReadCorrection(t, r, c)
  PROVE  IInv'
<1> DEFINE what == Thread("reserve child", r, Body("child", c, correction[c]), FALSE)
<1>0. correction[c] \in Int /\ c \in DOMAIN cands
  BY DEF IInv, Typed, ReadCorrection
<1>1. what \in Threads /\ what.at = "reserve child" /\ what.req = r /\ what.of = c
      /\ what.new = FALSE
  <2>1. "reserve child" \in Steps /\ "child" \in AsksFor /\ r \in Int /\ c \in Int
    BY CountIsInt DEF Steps, OfNone, AsksFor
  <2> QED
    BY <1>0, <2>1, IdleThread DEF Thread, Body, Threads, Idle
<1>2. Moves(t) /\ op'[t] = what
  BY <1>1, BeginsAs DEF ReadCorrection, IInv
<1>3. Quiet /\ Rest'
  BY RestStays DEF ReadCorrection, Quiet, review, tasks
<1>4. Relies(t)'
  BY <1>0, <1>1, <1>2, <1>3 DEF Relies, OfNone, OfReview, OfChild, OfContinuation, Quiet
<1> QED
  BY <1>2, <1>3, <1>4, QuietInv

LEMMA ContinueInv ==
  ASSUME IInv, NEW t \in Clients, NEW r \in Requests, NEW c \in Candidates, Continue(t, r, c)
  PROVE  IInv'
<1> DEFINE body == Body("continuation", c, 0)
<1>0. ASSUME NEW new \in BOOLEAN, Begins(t, Thread("look", r, body, new))
      PROVE  /\ Moves(t) /\ op'[t].at = "look" /\ op'[t].req = r
  <2>1. LET what == Thread("look", r, body, new) IN
        what \in Threads /\ what.at = "look" /\ what.req = r
    <3>1. "look" \in Steps /\ "continuation" \in AsksFor /\ r \in Int /\ c \in Int
      BY CountIsInt DEF Steps, OfContinuation, AsksFor
    <3> QED
      BY <3>1, BodyThread
  <2> QED
    BY <1>0, <2>1, BeginsAs DEF IInv
<1>1. CASE Reserves(r, body) /\ Begins(t, Thread("look", r, body, TRUE))
  <2>1. Grows /\ Sound' /\ records' \in [Requests -> Records]
        /\ records'[r].kind = "continuation"
    BY <1>1, ReservesGrows DEF Continue, AsksFor, tasks
  <2>2. Moves(t) /\ op'[t].at = "look" /\ op'[t].req = r
    BY <1>0, <1>1
  <2>3. Holds(r)'
    BY <2>1 DEF Holds
  <2>4. Relies(t)'
    BY <2>1, <2>2, <2>3 DEF Relies, OfReview, OfChild, OfContinuation
  <2>5. Typed'
    BY <2>1, <2>2 DEF IInv, Typed, Continue, Moves, tasks
  <2> QED
    BY <2>1, <2>2, <2>4, <2>5, StepInv
<1>2. CASE Known(r, body) /\ UNCHANGED records /\ Begins(t, Thread("look", r, body, FALSE))
  <2>1. Quiet /\ Rest'
    BY <1>2, RestStays DEF Continue, Quiet, tasks
  <2>2. Moves(t) /\ op'[t].at = "look" /\ op'[t].req = r
    BY <1>0, <1>2
  <2>3. records[r].kind = "continuation"
    BY <1>2 DEF Known, Body, IInv, Typed, Records
  <2>4. Holds(r)' /\ records'[r].kind = "continuation"
    BY <1>2, <2>3 DEF Holds
  <2>5. Relies(t)'
    BY <2>2, <2>4 DEF Relies, OfReview, OfChild, OfContinuation
  <2> QED
    BY <2>1, <2>2, <2>5, QuietInv
<1> QED
  BY <1>1, <1>2 DEF Continue

LEMMA SaveDraftInv ==
  ASSUME IInv, NEW t \in Clients, NEW text \in Int, SaveDraft(t, text)
  PROVE  IInv'
<1> DEFINE what == [Idle EXCEPT !.at = "observe", !.rev = draft.rev + 1]
<1>0. draft.rev + 1 \in Int
  BY DEF IInv, Typed
<1>1. what \in Threads /\ what.at = "observe" /\ what.new = FALSE
  BY <1>0, IdleThread DEF Threads, Steps, OfNone
<1>2. Moves(t) /\ op'[t] = what
  BY <1>1, BeginsAs DEF SaveDraft, IInv
<1>3. Relies(t)'
  BY <1>1, <1>2, Free DEF OfNone
<1>4. Quiet /\ Rest'
  BY DEF SaveDraft, Quiet, Rest, IInv, Typed, review
<1> QED
  BY <1>2, <1>3, <1>4, QuietInv

LEMMA DeleteDraftInv ==
  ASSUME IInv, NEW t \in Clients, DeleteDraft(t)
  PROVE  IInv'
<1> DEFINE what == [Idle EXCEPT !.at = "clear"]
<1>1. what \in Threads /\ what.at = "clear" /\ what.new = FALSE
  BY IdleThread DEF Threads, Steps, OfNone
<1>2. Moves(t) /\ op'[t] = what
  BY <1>1, BeginsAs DEF DeleteDraft, IInv
<1>3. Relies(t)'
  BY <1>1, <1>2, Free DEF OfNone
<1>4. Quiet /\ Rest'
  BY DEF DeleteDraft, Quiet, Rest, IInv, Typed, review, None
<1> QED
  BY <1>2, <1>3, <1>4, QuietInv

LEMMA ReviewPlanInv ==
  ASSUME IInv, NEW t \in Clients, ReviewPlan(t)
  PROVE  IInv'
<1> DEFINE what == [Idle EXCEPT !.at = "lineage", !.rev = draft.rev, !.text = draft.text,
                                !.base = files]
<1>1. what \in Threads /\ what.at = "lineage" /\ what.new = FALSE
  BY IdleThread DEF IInv, Typed, Threads, Steps, OfNone
<1>2. Moves(t) /\ op'[t] = what
  BY <1>1, BeginsAs DEF ReviewPlan, IInv
<1>3. Relies(t)'
  BY <1>1, <1>2, Free DEF OfNone
<1>4. Quiet /\ Rest'
  BY RestStays DEF ReviewPlan, Quiet, review, tasks
<1> QED
  BY <1>2, <1>3, <1>4, QuietInv

LEMMA StartInv ==
  ASSUME IInv, NEW t \in Clients, NEW p \in plans, Start(t, p)
  PROVE  IInv'
<1> DEFINE what == [Idle EXCEPT !.at = "revalidate", !.plan = p]
<1>1. what \in Threads /\ what.at = "revalidate" /\ what.new = FALSE
  BY IdleThread DEF IInv, Typed, Threads, Steps, OfNone
<1>2. Moves(t) /\ op'[t] = what
  BY <1>1, BeginsAs DEF Start, IInv
<1>3. Relies(t)'
  BY <1>1, <1>2, Free DEF OfNone
<1>4. Quiet /\ Rest'
  BY RestStays DEF Start, Quiet, review, tasks
<1> QED
  BY <1>2, <1>3, <1>4, QuietInv

LEMMA ApplyInv ==
  ASSUME IInv, NEW t \in Clients, NEW c \in Candidates, Apply(t, c)
  PROVE  IInv'
<1>1. Moves(t) /\ Relies(t)'
  BY IdleFree DEF Apply, IInv
<1>2. Quiet /\ Rest'
  BY CountIsInt DEF Apply, Quiet, Rest, IInv, Typed, review, tasks
<1> QED
  BY <1>1, <1>2, QuietInv

----------------------------------------------------------------------------
(* The steps of a thread.                                                  *)

\* A step that goes on, or raises: the thread relies on what it finds.
LEMMA QuietRaises ==
  ASSUME IInv, NEW t \in Clients, Quiet, Rest', Raises(t)
  PROVE  IInv'
<1>1. Grows
  BY QuietSound DEF IInv
<1>2. Moves(t) /\ Relies(t)'
  BY <1>1, RaisesTo DEF IInv
<1> QED
  BY <1>2, QuietInv

LEMMA QuietGoes ==
  ASSUME IInv, NEW t \in Clients, Quiet, Rest', NEW step \in Steps \ OfNone, Goes(t, step),
         op[t].at \notin OfNone, step # "save child",
         step \in OfReview => op[t].at \in OfReview,
         step \in OfChild => op[t].at \in OfChild,
         step \in OfContinuation => op[t].at \in OfContinuation,
         step = "record" => op[t].at \in OfReview \cup OfContinuation
  PROVE  IInv'
<1>1. Grows
  BY QuietSound DEF IInv
<1>2. PICK r : r = op[t].req
  OBVIOUS
<1>3. Moves(t) /\ Relies(t)'
  BY <1>1, <1>2, GoesOn
<1> QED
  BY <1>3, QuietInv

LEMMA QuietDone ==
  ASSUME IInv, NEW t \in Clients, Quiet, Rest', Done(t)
  PROVE  IInv'
BY DoneTo, QuietInv DEF IInv

LEMMA BreaksInv ==
  ASSUME IInv, NEW t \in Clients, Breaks(t)
  PROVE  IInv'
<1>1. Quiet /\ Rest'
  BY RestStays DEF Breaks, Quiet, review, tasks
<1> QED
  BY <1>1, QuietRaises DEF Breaks

LEMMA CheckBaseInv ==
  ASSUME IInv, NEW t \in Clients, CheckBase(t)
  PROVE  IInv'
<1>1. Quiet /\ Rest'
  BY RestStays DEF CheckBase, Quiet, review, tasks
<1>2. CASE Goes(t, "sign")
  <2>1. op[t].at = "check"
    BY DEF CheckBase, At
  <2>2. "sign" \in Steps \ OfNone /\ "sign" \in OfReview /\ op[t].at \in OfReview
        /\ op[t].at \notin OfNone /\ "sign" \notin OfChild \cup OfContinuation
    BY <2>1 DEF Steps, OfNone, OfReview, OfChild, OfContinuation
  <2> QED
    BY <1>1, <1>2, <2>2, QuietGoes
<1> QED
  BY <1>1, <1>2, QuietRaises DEF CheckBase

LEMMA LookInv ==
  ASSUME IInv, NEW t \in Clients, Look(t)
  PROVE  IInv'
<1>1. Quiet /\ Rest'
  BY RestStays DEF Look, Quiet, review, tasks
<1>2. CASE Goes(t, "read draft")
  <2>1. op[t].at = "look"
    BY DEF Look, At
  <2>2. "read draft" \in Steps \ OfNone /\ op[t].at \in OfContinuation
        /\ op[t].at \notin OfNone /\ "read draft" \notin OfChild \cup OfReview
    BY <2>1 DEF Steps, OfNone, OfReview, OfChild, OfContinuation
  <2> QED
    BY <1>1, <1>2, <2>2, QuietGoes
<1> QED
  BY <1>1, <1>2, QuietRaises DEF Look

\* What the continuation's thread does changes its place and the revision it saw.
LEMMA SeesGoes ==
  ASSUME IInv, NEW t \in Clients, Quiet, Rest', NEW rev \in Int,
         NEW step \in OfContinuation, op[t].at \in OfContinuation,
         op' = [op EXCEPT ![t].at = step, ![t].rev = rev]
  PROVE  IInv'
<1>1. step \in Steps /\ step \notin OfReview \cup OfChild /\ step \notin OfNone /\ step # "record"
      /\ step # "reserve child" /\ step # "save child" /\ op[t].at \notin OfNone
  BY DEF Steps, OfNone, OfReview, OfChild, OfContinuation
<1>2. Moves(t) /\ op'[t].at = step /\ op'[t].req = op[t].req /\ op'[t].new = op[t].new
  BY <1>1 DEF IInv, Typed, Threads, Moves
<1>3. PICK r : r = op[t].req /\ r = op'[t].req
  BY <1>2
<1>4. Holds(r) /\ records[r].kind = "continuation"
  BY <1>1, <1>3 DEF IInv, Relies
<1>5. Holds(r)' /\ records'[r].kind = "continuation"
  BY <1>4 DEF Holds, Quiet
<1>6. Relies(t)'
  BY <1>1, <1>2, <1>3, <1>5 DEF Relies
<1> QED
  BY <1>2, <1>6, QuietInv

LEMMA ReadDraftInv ==
  ASSUME IInv, NEW t \in Clients, ReadDraft(t)
  PROVE  IInv'
<1>1. Quiet /\ Rest'
  BY RestStays DEF ReadDraft, Quiet, review, tasks
<1>2. draft.rev \in Int /\ op[t].at \in OfContinuation
  BY DEF IInv, Typed, ReadDraft, At, OfContinuation
<1>3. ASSUME NEW step \in OfContinuation, op' = [op EXCEPT ![t].at = step, ![t].rev = draft.rev]
      PROVE  IInv'
  BY <1>1, <1>2, <1>3, SeesGoes
<1>4. {"activate", "put"} \subseteq OfContinuation
  BY DEF OfContinuation
<1> QED
  BY <1>1, <1>3, <1>4, QuietRaises DEF ReadDraft

LEMMA LineageType ==
  ASSUME IInv, NEW t \in Clients, lineage' = lineage \cup {<<op[t].rev, op[t].of>>}
             \/ lineage' = lineage \cup {<<op[t].rev, op[t].text>>}
  PROVE  lineage' \subseteq Int \X Int
BY DEF IInv, Typed, Threads

LEMMA PutInv ==
  ASSUME IInv, NEW t \in Clients, Put(t)
  PROVE  IInv'
<1>1. Quiet
  BY DEF Put, Quiet, review
<1>2. CASE Raises(t) /\ UNCHANGED <<draft, origin, opening, bounds>>
  <2>1. Rest'
    BY <1>2, RestStays DEF Put, review
  <2> QED
    BY <1>1, <1>2, <2>1, QuietRaises
<1>3. CASE draft' = [rev |-> draft.rev + 1, text |-> op[t].of]
           /\ Then(t, op' = [op EXCEPT ![t].at = "observe put", ![t].rev = draft'.rev])
  <2>0. draft.rev + 1 \in Int /\ op[t].of \in Int
    BY DEF IInv, Typed, Threads
  <2>1. draft' \in [rev : Int, text : Int] /\ draft'.rev \in Int
    BY <1>3, <2>0
  <2>2. Rest'
    BY <1>3, <2>1 DEF IInv, Typed, Rest, Put, review
  <2>3. "observe put" \in OfContinuation /\ op[t].at \in OfContinuation
    BY DEF Put, At, OfContinuation
  <2>4. CASE op' = [op EXCEPT ![t].at = "observe put", ![t].rev = draft'.rev]
    BY <1>1, <2>1, <2>2, <2>3, <2>4, SeesGoes
  <2> QED
    BY <1>1, <1>3, <2>2, <2>4, QuietRaises DEF Then
<1> QED
  BY <1>2, <1>3 DEF Put

LEMMA ActivateInv ==
  ASSUME IInv, NEW t \in Clients, Activate(t)
  PROVE  IInv'
<1>1. op[t].at = "activate" /\ op[t].of \in Int
  BY DEF Activate, At, IInv, Typed, Threads
<1>2. Quiet /\ Rest'
  BY <1>1 DEF Activate, Quiet, Rest, IInv, Typed, tasks
<1>3. CASE Goes(t, "keep")
  <2>1. "keep" \in Steps \ OfNone /\ op[t].at \in OfContinuation
        /\ op[t].at \notin OfNone /\ "keep" \notin OfChild \cup OfReview
    BY <1>1 DEF Steps, OfNone, OfReview, OfChild, OfContinuation
  <2> QED
    BY <1>2, <1>3, <2>1, QuietGoes
<1> QED
  BY <1>2, <1>3, QuietRaises DEF Activate, Then

LEMMA KeepInv ==
  ASSUME IInv, NEW t \in Clients, Keep(t)
  PROVE  IInv'
<1>1. op[t].at = "keep"
  BY DEF Keep, At
<1>2. Quiet /\ Rest'
  BY <1>1, LineageType DEF Keep, Quiet, Rest, IInv, Typed, tasks
<1>3. CASE Goes(t, "record")
  <2>1. "record" \in Steps \ OfNone /\ op[t].at \in OfContinuation
        /\ op[t].at \notin OfNone /\ "record" \notin OfChild \cup OfReview
    BY <1>1 DEF Steps, OfNone, OfReview, OfChild, OfContinuation, OfAny
  <2> QED
    BY <1>2, <1>3, <2>1, QuietGoes
<1> QED
  BY <1>2, <1>3, QuietRaises DEF Keep, Then

\* A step that changes no request's thread but where it is and what it read.
LEMMA KeepsOn ==
  ASSUME IInv, NEW t \in Clients, Quiet, Rest', NEW v \in Threads, op' = [op EXCEPT ![t] = v],
         v.req = op[t].req, v.new = op[t].new,
         \/ v.at \in OfContinuation /\ op[t].at \in OfContinuation
         \/ v.at \in OfNone \ {"reserve child"}
  PROVE  IInv'
<1>1. Moves(t) /\ op'[t] = v
  BY DEF IInv, Typed, Moves
<1>2. PICK r : r = op[t].req /\ r = op'[t].req
  BY <1>1
<1>3. (Holds(r) => Holds(r)') /\ records'[r] = records[r]
  BY DEF Holds, Quiet
<1>4. v.new => Holds(r)'
  BY <1>2, <1>3 DEF IInv, Relies
<1>5. CASE v.at \in OfNone \ {"reserve child"}
  BY <1>1, <1>2, <1>4, <1>5, QuietInv DEF Relies, OfNone, OfReview, OfChild, OfContinuation
<1>6. CASE v.at \in OfContinuation /\ op[t].at \in OfContinuation
  <2>1. Holds(r)' /\ records'[r].kind = "continuation"
    BY <1>2, <1>3, <1>6 DEF IInv, Relies, OfNone, OfContinuation
  <2>2. Relies(t)'
    BY <1>1, <1>2, <1>6, <2>1 DEF Relies, OfNone, OfReview, OfChild, OfContinuation
  <2> QED
    BY <1>1, <2>2, QuietInv
<1> QED
  BY <1>5, <1>6

LEMMA ObserveInv ==
  ASSUME IInv, NEW t \in Clients, Observe(t)
  PROVE  IInv'
<1>1. Quiet /\ Rest'
  BY RestStays DEF Observe, Quiet, review, tasks
<1>2. ASSUME NEW step \in {"hand down", "activate", "hand down put"},
             op' = [op EXCEPT ![t].at = step, ![t].text = active],
             step # "hand down" => op[t].at = "observe put"
      PROVE  IInv'
  <2>1. PICK v : v = [op[t] EXCEPT !.at = step, !.text = active]
    OBVIOUS
  <2>2. step \in Steps /\ active \in Int /\ op[t] \in Threads
    BY DEF IInv, Typed, Steps, OfNone, OfContinuation
  <2>3. v \in Threads /\ v.at = step /\ v.req = op[t].req /\ v.new = op[t].new
    BY <2>1, <2>2 DEF Threads
  <2>4. op' = [op EXCEPT ![t] = v]
    BY <1>2, <2>1
  <2>5. step \in OfNone \ {"reserve child"}
        \/ (step \in OfContinuation /\ op[t].at \in OfContinuation)
    BY <1>2 DEF OfNone, OfContinuation
  <2> QED
    BY <1>1, <2>3, <2>4, <2>5, KeepsOn
<1>3. CASE Done(t)
  BY <1>1, <1>3, QuietDone
<1>4. CASE At(t, "observe") /\ op' = [op EXCEPT ![t].at = "hand down", ![t].text = active]
  BY <1>2, <1>4
<1>5. CASE At(t, "observe put") /\ active = 0
           /\ op' = [op EXCEPT ![t].at = "activate", ![t].text = active]
  BY <1>2, <1>5 DEF At
<1>6. CASE At(t, "observe put") /\ active # 0
           /\ op' = [op EXCEPT ![t].at = "hand down put", ![t].text = active]
  BY <1>2, <1>6 DEF At
<1> QED
  BY <1>3, <1>4, <1>5, <1>6 DEF Observe

LEMMA HandDownInv ==
  ASSUME IInv, NEW t \in Clients, HandDown(t)
  PROVE  IInv'
<1>1. Quiet /\ Rest'
  BY LineageType DEF HandDown, Quiet, Rest, IInv, Typed, tasks
<1>2. CASE Goes(t, "activate") /\ op[t].at = "hand down put"
  <2>1. "activate" \in Steps \ OfNone /\ op[t].at \in OfContinuation
        /\ op[t].at \notin OfNone /\ "activate" \notin OfChild \cup OfReview
    BY <1>2 DEF Steps, OfNone, OfReview, OfChild, OfContinuation
  <2> QED
    BY <1>1, <1>2, <2>1, QuietGoes
<1> QED
  BY <1>1, <1>2, QuietRaises, QuietDone DEF HandDown, Then, At

LEMMA ClearInv ==
  ASSUME IInv, NEW t \in Clients, Clear(t)
  PROVE  IInv'
<1>1. Quiet /\ Rest'
  BY DEF Clear, Quiet, Rest, IInv, Typed, tasks
<1> QED
  BY <1>1, QuietRaises, QuietDone DEF Clear, Then

\* A decision is sealed: nothing else that was reserved or saved changes.
LEMMA DecidedGrows ==
  ASSUME IInv, decided \subseteq decided', UNCHANGED <<records, contexts, cands, told, given>>
  PROVE  Grows /\ Sound'
<1>1. Grows
  BY DEF Grows
<1>2. \A r \in Requests : records'[r].kind # "none" => records'[r].of \in DOMAIN cands'
  BY DEF IInv, Sound
<1> QED
  BY <1>1, <1>2, GrowsSound DEF IInv

LEMMA SignInv ==
  ASSUME IInv, NEW t \in Clients, Sign(t)
  PROVE  IInv'
<1>1. Grows /\ Sound'
  BY DecidedGrows DEF Sign, tasks
<1>2. op[t].at = "sign"
  BY DEF Sign, At
<1>3. Moves(t) /\ Relies(t)'
  <2>1. CASE Goes(t, "record")
    <3>1. "record" \in Steps \ OfNone /\ op[t].at \in OfReview
          /\ op[t].at \notin OfNone /\ "record" \notin OfReview \cup OfChild \cup OfContinuation
      BY <1>2 DEF Steps, OfNone, OfReview, OfChild, OfContinuation, OfAny
    <3>2. PICK r : r = op[t].req
      OBVIOUS
    <3> QED
      BY <1>1, <2>1, <3>1, <3>2, GoesOn
  <2>2. CASE Raises(t)
    BY <1>1, <2>2, RaisesTo DEF IInv
  <2> QED
    BY <2>1, <2>2 DEF Sign, Then
<1>4. Typed'
  BY <1>3 DEF IInv, Typed, Sign, Moves, tasks
<1> QED
  BY <1>1, <1>3, <1>4, StepInv

LEMMA SignChildInv ==
  ASSUME IInv, NEW t \in Clients, SignChild(t)
  PROVE  IInv'
<1>1. Grows /\ Sound'
  BY DecidedGrows DEF SignChild, tasks
<1>2. op[t].at = "sign child"
  BY DEF SignChild, At
<1>3. Moves(t) /\ Relies(t)'
  <2>1. CASE Goes(t, "save child")
    <3>1. "save child" \in Steps \ OfNone /\ op[t].at \in OfChild
          /\ op[t].at \notin OfNone /\ "save child" \notin OfReview \cup OfContinuation
      BY <1>2 DEF Steps, OfNone, OfReview, OfChild, OfContinuation
    <3>2. PICK r : r = op[t].req /\ r \in decided'
      BY DEF SignChild
    <3> QED
      BY <1>1, <2>1, <3>1, <3>2, GoesOn
  <2>2. CASE Raises(t)
    BY <1>1, <2>2, RaisesTo DEF IInv
  <2> QED
    BY <2>1, <2>2 DEF SignChild, Then
<1>4. Typed'
  BY <1>3 DEF IInv, Typed, SignChild, Moves, tasks
<1> QED
  BY <1>1, <1>3, <1>4, StepInv

\* A record's state and result change, and nothing of what it asks.
LEMMA RecordGrows ==
  ASSUME IInv, NEW r \in Requests,
         NEW s \in {"failed", "accepted", "child_plan_ready", "continuation_ready"},
         NEW b \in BOOLEAN,
         records' = [records EXCEPT ![r] = [@ EXCEPT !.state = s, !.result = b]],
         UNCHANGED <<decided, contexts, cands>>
  PROVE  /\ Grows /\ records' \in [Requests -> Records]
         /\ \A q \in Requests : records'[q].kind # "none" => records'[q].of \in DOMAIN cands'
         /\ UNCHANGED <<told, given>> => Sound'
<1>1. records \in [Requests -> Records]
  BY DEF IInv, Typed
<1>2. \A q \in Requests :
        records'[q].kind = records[q].kind /\ records'[q].of = records[q].of
        /\ records'[q].rev = records[q].rev /\ records'[q] \in Records
  BY <1>1 DEF Records
<1>3. Grows
  BY <1>2 DEF Grows
<1>4. records' \in [Requests -> Records]
  BY <1>1, <1>2
<1>5. \A q \in Requests : records'[q].kind # "none" => records'[q].of \in DOMAIN cands'
  BY <1>2 DEF IInv, Sound
<1> QED
  BY <1>3, <1>4, <1>5, GrowsSound DEF IInv

LEMMA FailInv ==
  ASSUME IInv, NEW t \in Clients, Fail(t)
  PROVE  IInv'
<1>1. PICK r : r = op[t].req
  OBVIOUS
<1>2. Holds(r)
  BY <1>1 DEF Fail, At, IInv, Relies, OfNone
<1>3. PICK b \in BOOLEAN : b = records[r].result
  BY <1>2 DEF Holds, IInv, Typed, Records
<1>4. r \in Requests /\ records[r] \in Records
  BY <1>2 DEF Holds, IInv, Typed
<1>5. records' = [records EXCEPT ![r] = [@ EXCEPT !.state = "failed", !.result = b]]
  BY <1>1, <1>3, <1>4 DEF Fail, Records
<1>6. Grows /\ Sound' /\ records' \in [Requests -> Records]
  BY <1>4, <1>5, RecordGrows DEF Fail, tasks
<1>7. Moves(t) /\ Relies(t)'
  BY DoneTo DEF Fail, IInv
<1>8. Typed'
  BY <1>6, <1>7 DEF IInv, Typed, Fail, Moves, tasks
<1> QED
  BY <1>6, <1>7, <1>8, StepInv

\* What is answered is a child whose context and decision are kept.
LEMMA ToldSound ==
  ASSUME IInv, Grows, NEW r, Holds(r), Proved(r, ChildOf(r)),
         told' \subseteq told \cup {<<r, ChildOf(r)>>}, UNCHANGED <<contexts, given>>,
         \A q \in Requests : records'[q].kind # "none" => records'[q].of \in DOMAIN cands'
  PROVE  Sound'
<1>1. Sound
  BY DEF IInv
<1>2. \A x \in told' : Proved(x[1], x[2])' /\ x[2].kind = "refinement" /\ x = <<x[1], x[2]>>
  <2>1. ASSUME NEW x \in told
        PROVE  Proved(x[1], x[2])' /\ x[2].kind = "refinement" /\ x = <<x[1], x[2]>>
    BY <1>1, GrowsProved DEF Sound
  <2>2. PICK p : p = ChildOf(r)
    OBVIOUS
  <2>3. Proved(r, p)' /\ p.kind = "refinement"
    BY <1>1, <2>2, GrowsProved, ChildPlan DEF IInv
  <2> QED
    BY <2>1, <2>2, <2>3
<1> QED
  BY <1>1, <1>2, GrowsProved DEF Sound

LEMMA EndsInv ==
  ASSUME IInv, NEW t \in Clients, Ends(t)
  PROVE  IInv'
<1>1. PICK r : r = op[t].req
  OBVIOUS
<1>2. Holds(r) /\ op[t].at = "record"
  BY <1>1 DEF Ends, At, IInv, Relies, OfNone
<1>3. PICK s \in {"accepted", "child_plan_ready", "continuation_ready"} :
        records' = [records EXCEPT ![r] = [@ EXCEPT !.state = s, !.result = TRUE]]
  <2>1. records[r].kind \in AsksFor
    BY <1>2 DEF IInv, Typed, Records, Holds
  <2>2. States[records[r].kind] \in {"accepted", "child_plan_ready", "continuation_ready"}
    BY <2>1 DEF States, AsksFor
  <2>3. records' = [records EXCEPT ![r] =
                      [@ EXCEPT !.state = States[records[r].kind], !.result = TRUE]]
    BY <1>1 DEF Ends
  <2> QED
    BY <2>2, <2>3
<1>4. Grows /\ records' \in [Requests -> Records]
      /\ \A q \in Requests : records'[q].kind # "none" => records'[q].of \in DOMAIN cands'
  BY <1>2, <1>3, RecordGrows DEF Ends, Holds, tasks
<1>5. Sound'
  <2>1. CASE records[r].kind = "child"
    <3>1. Proved(r, ChildOf(r))
      BY <1>1, <1>2, <2>1 DEF IInv, Relies
    <3>2. told' \subseteq told \cup {<<r, ChildOf(r)>>} /\ UNCHANGED <<contexts, given>>
      BY <1>1 DEF Ends, tasks
    <3> QED
      BY <1>2, <1>4, <3>1, <3>2, ToldSound
  <2>2. CASE records[r].kind # "child"
    <3>1. UNCHANGED <<told, given>>
      BY <1>1, <2>2 DEF Ends, tasks
    <3> QED
      BY <1>4, <3>1, GrowsSound DEF IInv, Ends
  <2> QED
    BY <2>1, <2>2
<1>6. Moves(t) /\ Relies(t)'
  BY <1>4, DoneTo, RaisesTo DEF Ends, Then, IInv
<1>7. Typed'
  BY <1>4, <1>6 DEF IInv, Typed, Ends, Moves, tasks
<1> QED
  BY <1>4, <1>5, <1>6, <1>7, StepInv

LEMMA ReserveChildInv ==
  ASSUME IInv, NEW t \in Clients, ReserveChild(t)
  PROVE  IInv'
<1>1. PICK r : r = op[t].req
  OBVIOUS
<1>2. op[t].at = "reserve child" /\ r \in Requests /\ op[t].of \in DOMAIN cands
  BY <1>1 DEF ReserveChild, At, IInv, Relies
<1>3. op[t].rev \in Int
  BY DEF IInv, Typed, Threads
<1> DEFINE body == Body("child", op[t].of, op[t].rev)
<1>4. CASE /\ Reserves(r, body) /\ UNCHANGED told
           /\ op' = [op EXCEPT ![t].at = "check child", ![t].new = TRUE]
  <2>1. Grows /\ Sound' /\ records' \in [Requests -> Records] /\ records'[r].kind = "child"
    BY <1>2, <1>3, <1>4, ReservesGrows DEF ReserveChild, AsksFor, tasks
  <2>2. Moves(t) /\ op'[t].at = "check child" /\ r = op'[t].req
    BY <1>1, <1>4 DEF IInv, Typed, Threads, Moves, Steps, OfChild
  <2>3. Holds(r)'
    BY <1>2, <2>1 DEF Holds
  <2>4. Relies(t)'
    BY <2>1, <2>2, <2>3 DEF Relies, OfReview, OfContinuation
  <2>5. Typed'
    BY <2>1, <2>2 DEF IInv, Typed, ReserveChild, Moves, tasks
  <2> QED
    BY <2>1, <2>2, <2>4, <2>5, StepInv
<1>5. CASE /\ records[r] # NoRecord /\ Done(t) /\ UNCHANGED records
           /\ told' = IF Known(r, body) /\ Replays(r) THEN told \cup {<<r, ChildOf(r)>>} ELSE told
  <2>1. Grows /\ \A q \in Requests : records'[q].kind # "none" => records'[q].of \in DOMAIN cands'
    BY <1>5 DEF Grows, ReserveChild, IInv, Sound, tasks
  <2>2. Sound'
    <3>1. CASE Known(r, body) /\ Replays(r)
      <4>1. Proved(r, ChildOf(r))
        BY <3>1 DEF Replays
      <4>2. records[r].kind = "child"
        BY <1>2, <3>1 DEF Known, Body, IInv, Typed, Records
      <4>3. Holds(r)
        BY <1>2, <4>2 DEF Holds
      <4>4. told' \subseteq told \cup {<<r, ChildOf(r)>>} /\ UNCHANGED <<contexts, given>>
        BY <1>5 DEF ReserveChild, tasks
      <4> QED
        BY <2>1, <4>1, <4>3, <4>4, ToldSound
    <3>2. CASE ~(Known(r, body) /\ Replays(r))
      <4>1. UNCHANGED <<contexts, told, given>>
        BY <1>5, <3>2 DEF ReserveChild, tasks
      <4> QED
        BY <2>1, <4>1, GrowsSound DEF IInv
    <3> QED
      BY <3>1, <3>2
  <2>3. Moves(t) /\ Relies(t)'
    BY <1>5, DoneTo DEF IInv
  <2>4. Typed'
    BY <1>5, <2>3 DEF IInv, Typed, ReserveChild, Moves, tasks
  <2> QED
    BY <2>1, <2>2, <2>3, <2>4, StepInv
<1> QED
  BY <1>1, <1>4, <1>5 DEF ReserveChild

LEMMA CheckChildInv ==
  ASSUME IInv, NEW t \in Clients, CheckChild(t)
  PROVE  IInv'
<1>1. PICK r : r = op[t].req
  OBVIOUS
<1>2. op[t].at = "check child" /\ Holds(r)
  BY <1>1 DEF CheckChild, At, IInv, Relies, OfNone
<1>3. ChildOf(r) \in Plans
  BY <1>2, ChildPlan DEF IInv
<1>4. Quiet /\ Rest'
  BY <1>1, <1>3 DEF CheckChild, Quiet, Rest, IInv, Typed, review
<1>5. CASE Goes(t, "sign child")
  <2>1. "sign child" \in Steps \ OfNone /\ op[t].at \in OfChild
        /\ op[t].at \notin OfNone /\ "sign child" \notin OfReview \cup OfContinuation
    BY <1>2 DEF Steps, OfNone, OfReview, OfChild, OfContinuation
  <2> QED
    BY <1>4, <1>5, <2>1, QuietGoes
<1> QED
  BY <1>4, <1>5, QuietRaises DEF CheckChild, Then

LEMMA SaveChildInv ==
  ASSUME IInv, NEW t \in Clients, SaveChild(t)
  PROVE  IInv'
<1>1. PICK r : r = op[t].req
  OBVIOUS
<1>2. op[t].at = "save child" /\ Holds(r) /\ r \in decided
  BY <1>1 DEF SaveChild, At, IInv, Relies, OfNone
<1>3. PICK plan : plan = ChildOf(r)
  OBVIOUS
<1>4. plan \in Plans /\ r \in Int
  BY <1>2, <1>3, ChildPlan, CountIsInt DEF IInv, Holds
<1>5. CASE Raises(t) /\ UNCHANGED <<contexts, bounds>>
  <2>1. Quiet /\ Rest'
    BY <1>5, RestStays DEF SaveChild, Quiet, tasks
  <2> QED
    BY <1>5, <2>1, QuietRaises
<1>6. CASE /\ ~\E x \in contexts : x[1] = plan /\ x[2] # r
           /\ contexts' = contexts \cup {<<plan, r>>} /\ Then(t, Goes(t, "record"))
  <2>1. Grows /\ UNCHANGED <<records, cands, decided, told, given>>
    BY <1>6 DEF SaveChild, Grows, tasks
  <2>2. \A x, y \in contexts' : x[1] = y[1] /\ x[1].kind = "refinement" => x = y
    <3>1. \A x \in contexts : x = <<x[1], x[2]>>
      BY DEF IInv, Typed
    <3>2. \A x \in contexts : x[1] = plan => x = <<plan, r>>
      BY <1>6, <3>1
    <3> QED
      BY <1>6, <3>2 DEF IInv, Sound
  <2>3. Sound'
    BY <2>1, <2>2, GrowsProved DEF IInv, Sound
  <2>4. Moves(t) /\ Relies(t)'
    <3>1. CASE Goes(t, "record")
      <4>1. "record" \in Steps \ OfNone /\ "record" \notin OfReview \cup OfChild \cup OfContinuation
            /\ op[t].at \notin OfNone
        BY <1>2 DEF Steps, OfNone, OfReview, OfChild, OfContinuation, OfAny
      <4>2. Proved(r, plan)'
        BY <1>2, <1>6, <2>1 DEF Proved
      <4>3. ChildOf(r)' = plan
        BY <1>3, <2>1 DEF ChildOf
      <4>4. Proved(r, ChildOf(r))'
        BY <4>2, <4>3 DEF Proved
      <4> QED
        BY <1>1, <2>1, <3>1, <4>1, <4>4, GoesOn
    <3>2. CASE Raises(t)
      BY <2>1, <3>2, RaisesTo DEF IInv
    <3> QED
      BY <1>6, <3>1, <3>2 DEF Then
  <2>5. Typed'
    <3>1. contexts' \subseteq Plans \X Int
      BY <1>4, <1>6 DEF IInv, Typed
    <3> QED
      BY <2>1, <2>4, <3>1 DEF IInv, Typed, SaveChild, Moves, tasks
  <2> QED
    BY <2>1, <2>3, <2>4, <2>5, StepInv
<1> QED
  BY <1>1, <1>3, <1>5, <1>6 DEF SaveChild

\* A thread that reviews or starts goes to a step that holds no request.
LEMMA FreeGoes ==
  ASSUME IInv, NEW t \in Clients, Quiet, Rest', NEW step \in OfNone \ {"reserve child"},
         NEW n \in Int, \/ op' = [op EXCEPT ![t].at = step]
                       \/ op' = [op EXCEPT ![t].at = step, ![t].of = n]
  PROVE  IInv'
<1>1. op[t] \in Threads /\ step \in Steps
  BY DEF IInv, Typed, Steps
<1>2. PICK v \in Threads : v.at = step /\ v.req = op[t].req /\ v.new = op[t].new
                            /\ op' = [op EXCEPT ![t] = v]
  <2>1. CASE op' = [op EXCEPT ![t].at = step]
    <3>1. PICK v : v = [op[t] EXCEPT !.at = step]
      OBVIOUS
    <3>2. v \in Threads /\ v.at = step /\ v.req = op[t].req /\ v.new = op[t].new
      BY <1>1, <3>1 DEF Threads
    <3> QED
      BY <2>1, <3>1, <3>2
  <2>2. CASE op' = [op EXCEPT ![t].at = step, ![t].of = n]
    <3>1. PICK v : v = [op[t] EXCEPT !.at = step, !.of = n]
      OBVIOUS
    <3>2. v \in Threads /\ v.at = step /\ v.req = op[t].req /\ v.new = op[t].new
      BY <1>1, <3>1 DEF Threads
    <3> QED
      BY <2>2, <3>1, <3>2
  <2> QED
    BY <2>1, <2>2
<1> QED
  BY <1>2, KeepsOn

LEMMA FindLineageInv ==
  ASSUME IInv, NEW t \in Clients, FindLineage(t)
  PROVE  IInv'
<1>1. Quiet /\ Rest'
  BY RestStays DEF FindLineage, Quiet, review, tasks
<1>2. {"save plan", "lineage active"} \subseteq OfNone \ {"reserve child"}
  BY DEF OfNone
<1>3. ASSUME NEW x \in lineage, op' = [op EXCEPT ![t].at = "save plan", ![t].of = x[2]]
      PROVE  IInv'
  <2>1. x[2] \in Int
    BY DEF IInv, Typed
  <2> QED
    BY <1>1, <1>2, <1>3, <2>1, FreeGoes
<1>4. CASE Goes(t, "lineage active")
  <2>1. PICK n \in Int : n = 0
    OBVIOUS
  <2>2. op' = [op EXCEPT ![t].at = "lineage active"]
    BY <1>4, Zenon DEF Goes
  <2> QED
    BY <1>1, <1>2, <2>1, <2>2, FreeGoes
<1> QED
  BY <1>3, <1>4 DEF FindLineage

LEMMA FindActiveInv ==
  ASSUME IInv, NEW t \in Clients, FindActive(t)
  PROVE  IInv'
<1>1. Quiet /\ Rest'
  BY RestStays DEF FindActive, Quiet, review, tasks
<1>2. "save plan" \in OfNone \ {"reserve child"} /\ active \in Int
  BY DEF OfNone, IInv, Typed
<1> QED
  BY <1>1, <1>2, FreeGoes DEF FindActive

LEMMA RevalidateInv ==
  ASSUME IInv, NEW t \in Clients, Revalidate(t)
  PROVE  IInv'
<1>1. Quiet /\ Rest'
  BY RestStays DEF Revalidate, Quiet, review, tasks
<1>2. "reserve task" \in OfNone \ {"reserve child"}
  BY DEF OfNone
<1>3. CASE Goes(t, "reserve task")
  <2>1. PICK n \in Int : n = 0
    OBVIOUS
  <2>2. op' = [op EXCEPT ![t].at = "reserve task"]
    BY <1>3, Zenon DEF Goes
  <2> QED
    BY <1>1, <1>2, <2>1, <2>2, FreeGoes
<1>4. CASE Done(t)
  BY <1>1, <1>4, QuietDone
<1> QED
  BY <1>3, <1>4 DEF Revalidate

LEMMA ReserveTaskInv ==
  ASSUME IInv, NEW t \in Clients, ReserveTask(t)
  PROVE  IInv'
<1>1. PICK p \in Plans : p = op[t].plan
  BY DEF IInv, Typed, Threads
<1>2. task' \in [at : {"idle", "preparing", "generating"}, plan : Plans]
  <2>1. task' = [at |-> "preparing", plan |-> p] \/ task' = task
    BY <1>1 DEF ReserveTask
  <2> QED
    BY <2>1 DEF IInv, Typed
<1>3. Quiet /\ Done(t) /\ UNCHANGED <<correction, lineage, active, draft, plans, files>>
  BY DEF ReserveTask, Quiet, review
<1>4. Rest'
  BY <1>2, <1>3 DEF Rest, IInv, Typed
<1> QED
  BY <1>3, <1>4, QuietDone

\* The plan of a draft is no refinement: it shares no context with a child.
LEMMA SavePlanInv ==
  ASSUME IInv, NEW t \in Clients, SavePlan(t)
  PROVE  IInv'
<1> DEFINE of == op[t].of
           kind == IF of = 0 THEN "task" ELSE "continuation"
<1>1. PICK plan : plan = Plan(kind, op[t].text, op[t].rev, op[t].base, of)
  OBVIOUS
<1>2. plan \in Plans /\ plan.kind # "refinement"
  BY <1>1 DEF Plan, Plans, IInv, Typed, Threads
<1>3. /\ contexts' = (IF of = 0 THEN contexts ELSE contexts \cup {<<plan, 0>>})
      /\ plans' = plans \cup {plan} /\ Then(t, Done(t))
  BY <1>1 DEF SavePlan
<1>4. Grows /\ UNCHANGED <<records, cands, decided, told, given>>
  BY <1>3 DEF SavePlan, Grows
<1>5. \A x, y \in contexts' : x[1] = y[1] /\ x[1].kind = "refinement" => x = y
  BY <1>2, <1>3 DEF IInv, Sound
<1>6. Sound'
  BY <1>4, <1>5, GrowsProved DEF IInv, Sound
<1>7. Moves(t) /\ Relies(t)'
  BY <1>3, <1>4, DoneTo, RaisesTo DEF Then, IInv
<1>8. Typed'
  <2>1. contexts' \subseteq Plans \X Int
    BY <1>2, <1>3 DEF IInv, Typed
  <2>2. plans' \subseteq Plans
    BY <1>2, <1>3 DEF IInv, Typed
  <2> QED
    BY <1>4, <1>7, <2>1, <2>2 DEF IInv, Typed, SavePlan, Moves
<1> QED
  BY <1>4, <1>6, <1>7, <1>8, StepInv

----------------------------------------------------------------------------
(* The task, other programs and the service's death.                       *)

LEMMA StandsInv ==
  ASSUME IInv, Typed', Sound', Grows, UNCHANGED op
  PROVE  IInv'
<1>1. ASSUME NEW s \in Clients PROVE Relies(s)'
  BY GrowsRelies DEF IInv
<1> QED
  BY <1>1 DEF IInv

LEMMA PrepareInv ==
  ASSUME IInv, Prepare
  PROVE  IInv'
<1>1. Grows /\ UNCHANGED <<records, cands, decided, contexts, told, op>>
  BY DEF Prepare, Grows, review
<1>2. Sound'
  <2>1. \A p \in given' : p \in given \/ (p = task.plan /\ Bundled(p))
    BY DEF Prepare
  <2>2. ASSUME NEW p \in Plans, Bundled(p), p.kind = "refinement"
        PROVE  \E r \in Requests : Proved(r, p)
    BY <2>2 DEF Bundled
  <2>3. task.plan \in Plans
    BY DEF IInv, Typed
  <2>4. \A p \in given' : p.kind = "refinement" => \E r \in Requests : Proved(r, p)
    BY <2>1, <2>2, <2>3 DEF IInv, Sound
  <2> QED
    BY <1>1, <2>4, GrowsProved DEF IInv, Sound
<1>3. Typed'
  <2>1. task' \in [at : {"idle", "preparing", "generating"}, plan : Plans]
    <3>1. NoTask \in [at : {"idle", "preparing", "generating"}, plan : Plans]
      BY DEF NoTask, NoPlan, Plan, Plans, None
    <3>2. [task EXCEPT !.at = "generating"] \in [at : {"idle", "preparing", "generating"}, plan : Plans]
      BY DEF IInv, Typed
    <3> QED
      BY <3>1, <3>2 DEF Prepare
  <2> QED
    BY <2>1 DEF IInv, Typed, Prepare, review
<1> QED
  BY <1>1, <1>2, <1>3, StandsInv

LEMMA GenerateInv ==
  ASSUME IInv, Generate
  PROVE  IInv'
<1>1. task.plan \in Plans /\ cands \in Seq(Plans)
  BY DEF IInv, Typed
<1>2. cands' \in Seq(Plans) /\ \A c \in DOMAIN cands : c \in DOMAIN cands' /\ cands'[c] = cands[c]
  BY <1>1 DEF Generate
<1>3. Grows /\ UNCHANGED <<records, decided, contexts, told, given, op>>
  BY <1>2 DEF Generate, Grows, review
<1>4. Sound'
  <2>1. \A r \in Requests : records'[r].kind # "none" => records'[r].of \in DOMAIN cands'
    BY <1>2, <1>3 DEF IInv, Sound
  <2> QED
    BY <1>3, <2>1, GrowsSound DEF IInv
<1>5. Typed'
  <2>1. task' \in [at : {"idle", "preparing", "generating"}, plan : Plans]
    BY DEF Generate, NoTask, NoPlan, Plan, Plans, None
  <2> QED
    BY <1>2, <2>1 DEF IInv, Typed, Generate, review
<1> QED
  BY <1>3, <1>4, <1>5, StandsInv

LEMMA EditInv ==
  ASSUME IInv, Edit
  PROVE  IInv'
<1>1. Quiet /\ UNCHANGED op
  BY DEF Edit, Quiet, review, tasks
<1>2. Typed'
  BY DEF IInv, Typed, Edit, review, tasks, Foreign
<1> QED
  BY <1>1, <1>2, QuietSound, StandsInv DEF IInv

LEMMA CrashInv ==
  ASSUME IInv, Crash
  PROVE  IInv'
<1>1. Quiet
  BY DEF Crash, Quiet, review
<1>2. \A s \in Clients : op'[s] = Idle
  BY DEF Crash
<1>3. ASSUME NEW s \in Clients PROVE Relies(s)'
  BY <1>2, IdleThread, Free DEF OfNone
<1>4. Typed'
  <2>1. task' \in [at : {"idle", "preparing", "generating"}, plan : Plans]
    BY DEF Crash, NoTask, NoPlan, Plan, Plans, None
  <2> QED
    BY <2>1, IdleThread DEF IInv, Typed, Crash, review
<1> QED
  BY <1>1, <1>3, <1>4, QuietSound DEF IInv

----------------------------------------------------------------------------
LEMMA InitInv == Init => IInv
<1> SUFFICES ASSUME Init PROVE IInv
  OBVIOUS
<1>1. First \in Plans /\ First.kind # "refinement" /\ NoRecord \in Records
      /\ NoTask \in [at : {"idle", "preparing", "generating"}, plan : Plans]
  BY DEF First, Plan, Plans, NoRecord, Records, NoTask, NoPlan, None, Words
<1>2. Typed
  <2>1. cands \in Seq(Plans)
    BY <1>1 DEF Init
  <2> QED
    BY <1>1, <2>1, IdleThread DEF Init, Typed, Words
<1>3. Sound
  BY <1>1 DEF Init, Sound, NoRecord
<1>4. ASSUME NEW s \in Clients PROVE Relies(s)
  BY IdleThread DEF Init, Relies, OfNone, OfReview, OfChild, OfContinuation
<1> QED
  BY <1>2, <1>3, <1>4 DEF IInv

LEMMA NextInv == IInv /\ [Next]_vars => IInv'
<1> SUFFICES ASSUME IInv, [Next]_vars PROVE IInv'
  OBVIOUS
<1>1. ASSUME NEW t \in Clients, Operation(t) PROVE IInv'
  <2>1. draft.text \in Int /\ {Words, draft.text} \subseteq Int
    BY DEF IInv, Typed, Words
  <2> QED
    BY <1>1, <2>1, AcceptInv, ReadCorrectionInv, ContinueInv, SaveCorrectionInv, ApplyInv,
       SaveDraftInv, DeleteDraftInv, ReviewPlanInv, StartInv DEF Operation
<1>2. ASSUME NEW t \in Clients, Work(t) PROVE IInv'
  <2>1. CASE CheckBase(t) \/ Sign(t) \/ Ends(t) \/ Fail(t) \/ Breaks(t)
    BY <2>1, CheckBaseInv, SignInv, EndsInv, FailInv, BreaksInv
  <2>2. CASE ReserveChild(t) \/ CheckChild(t) \/ SignChild(t) \/ SaveChild(t)
    BY <2>2, ReserveChildInv, CheckChildInv, SignChildInv, SaveChildInv
  <2>3. CASE Look(t) \/ ReadDraft(t) \/ Put(t) \/ Activate(t) \/ Keep(t)
    BY <2>3, LookInv, ReadDraftInv, PutInv, ActivateInv, KeepInv
  <2>4. CASE Observe(t) \/ HandDown(t) \/ Clear(t)
    BY <2>4, ObserveInv, HandDownInv, ClearInv
  <2>5. CASE FindLineage(t) \/ FindActive(t) \/ SavePlan(t) \/ Revalidate(t) \/ ReserveTask(t)
    BY <2>5, FindLineageInv, FindActiveInv, SavePlanInv, RevalidateInv, ReserveTaskInv
  <2> QED
    BY <1>2, <2>1, <2>2, <2>3, <2>4, <2>5 DEF Work
<1>3. CASE UNCHANGED vars
  <2>1. Quiet /\ Typed' /\ UNCHANGED op
    BY <1>3 DEF vars, review, tasks, Quiet, IInv, Typed
  <2> QED
    BY <2>1, QuietSound, StandsInv DEF IInv
<1> QED
  BY <1>1, <1>2, <1>3, PrepareInv, GenerateInv, EditInv, CrashInv DEF Next

\* Every request and thread is what the others rely on.
THEOREM AlwaysInv == Spec => []IInv
BY InitInv, NextInv, PTL DEF Spec

\* review_child_plan and _child_input_bundle: requests may race for one
\* correction, repeat, raise or die; the plan that is answered has the one
\* decision its context names, and a provider is given none without it.
THEOREM AlwaysOneChild == Spec => []OneChild
<1>1. IInv => OneChild
  <2> SUFFICES ASSUME IInv PROVE OneChild
    OBVIOUS
  <2>1. ASSUME NEW x \in told, NEW y \in told, x[2] = y[2] PROVE x = y
    <3>1. /\ <<x[2], x[1]>> \in contexts /\ <<y[2], y[1]>> \in contexts
          /\ x[2].kind = "refinement" /\ x = <<x[1], x[2]>> /\ y = <<y[1], y[2]>>
      BY DEF IInv, Sound, Proved
    <3>2. \A v, w \in contexts : v[1] = w[1] /\ v[1].kind = "refinement" => v = w
      BY DEF IInv, Sound
    <3>3. <<x[2], x[1]>> = <<y[2], y[1]>>
      BY <2>1, <3>1, <3>2
    <3> QED
      BY <3>1, <3>3
  <2> QED
    BY <2>1 DEF IInv, Sound, OneChild
<1> QED
  BY <1>1, AlwaysInv, PTL

----------------------------------------------------------------------------
(* Naturals: a set has a least member.                                     *)

LEMMA LessIsWellFounded ==
  \E R : IsWellFoundedOn(R, Nat) /\ \A x, y \in Nat : <<x, y>> \in R <=> x < y
<1>1. \A x, y \in Nat : <<x, y>> \in OpToRel(<, Nat) <=> x < y
  BY DEF OpToRel
<1> QED
  BY <1>1, NatLessThanWellFounded

LEMMA Least ==
  ASSUME NEW S, S \subseteq Nat, S # {}
  PROVE  \E x \in S : \A y \in S : x <= y
<1>1. PICK R : IsWellFoundedOn(R, Nat) /\ \A x, y \in Nat : <<x, y>> \in R <=> x < y
  BY LessIsWellFounded
<1>2. IsWellFoundedOn(R, Nat)
  BY <1>1
<1>3. PICK x \in S : \A y \in S : ~(<<y, x>> \in R)
  BY <1>2, WFMin, Zenon
<1>4. ASSUME NEW y \in S PROVE x <= y
  <2>1. x \in Nat /\ y \in Nat
    OBVIOUS
  <2>2. <<y, x>> \in R <=> y < x
    BY <1>1, <2>1
  <2>3. ~(y < x)
    BY <1>3, <2>2
  <2> QED
    BY <2>1, <2>3
<1> QED
  BY <1>4

----------------------------------------------------------------------------
(* Where a chain of candidates begins.                                     *)

\* A candidate that is built on another is later than that one.
Chained(l, n) == \A c \in 1..n : l[c].kind # "task" => l[c].of \in 1..(c - 1)

\* f finds the root of each of the first n candidates of l.
Roots(f, l, n) == f = [c \in 1..n |-> IF l[c].kind = "task" THEN c ELSE f[l[c].of]]

\* The roots of the same candidates agree.
LEMMA RootsAgree ==
  ASSUME NEW l, NEW m, NEW n \in Nat, NEW k \in Nat, n <= k,
         \A i \in 1..n : l[i] = m[i], Chained(l, n),
         NEW f, Roots(f, l, n), NEW g, Roots(g, m, k)
  PROVE  \A i \in 1..n : f[i] = g[i]
<1> DEFINE T == {i \in 1..n : f[i] # g[i]}
<1> SUFFICES ASSUME T # {} PROVE FALSE
  OBVIOUS
<1>1. PICK i \in T : \A y \in T : i <= y
  <2>1. T \subseteq Nat
    OBVIOUS
  <2> HIDE DEF T
  <2> QED
    BY <2>1, Least
<1>2. i \in 1..n /\ i \in 1..k /\ f[i] # g[i] /\ l[i] = m[i]
  OBVIOUS
<1>3. /\ f[i] = IF l[i].kind = "task" THEN i ELSE f[l[i].of]
      /\ g[i] = IF m[i].kind = "task" THEN i ELSE g[m[i].of]
  BY <1>2 DEF Roots
<1>4. l[i].kind # "task"
  BY <1>2, <1>3
<1>5. PICK j \in 1..(i - 1) : j = l[i].of
  BY <1>2, <1>4 DEF Chained
<1>6. j \in 1..n /\ ~(i <= j)
  BY <1>2
<1>7. f[j] = g[j]
  BY <1>1, <1>6
<1> QED
  BY <1>2, <1>3, <1>4, <1>5, <1>7

LEMMA RootsMore ==
  ASSUME NEW l, NEW n \in Nat, Chained(l, n + 1), NEW f, Roots(f, l, n)
  PROVE  \E g : Roots(g, l, n + 1)
<1> DEFINE g == [c \in 1..(n + 1) |->
                   IF c = n + 1 THEN IF l[c].kind = "task" THEN c ELSE f[l[c].of] ELSE f[c]]
           h == [c \in 1..(n + 1) |-> IF l[c].kind = "task" THEN c ELSE g[l[c].of]]
<1>1. ASSUME NEW c \in 1..(n + 1) PROVE g[c] = h[c]
  <2>1. l[c].kind # "task" => l[c].of \in 1..(c - 1) /\ l[c].of \in 1..n
    BY DEF Chained
  <2>2. l[c].kind # "task" => g[l[c].of] = f[l[c].of]
    BY <2>1
  <2>3. CASE c = n + 1
    BY <2>2, <2>3
  <2>4. CASE c # n + 1
    <3>1. c \in 1..n /\ g[c] = f[c]
      BY <2>4
    <3>2. f[c] = IF l[c].kind = "task" THEN c ELSE f[l[c].of]
      BY <3>1 DEF Roots
    <3> QED
      BY <2>2, <3>1, <3>2
  <2> QED
    BY <2>3, <2>4
<1>2. g = h
  BY <1>1
<1>3. Roots(g, l, n + 1)
  BY <1>2 DEF Roots
<1> QED
  BY <1>3

LEMMA RootsExist ==
  ASSUME NEW l, NEW n \in Nat, Chained(l, n)
  PROVE  \E f : Roots(f, l, n)
<1> DEFINE T == {k \in 0..n : ~\E f : Roots(f, l, k)}
<1> SUFFICES ASSUME T # {} PROVE FALSE
  BY DEF Roots
<1>1. PICK k \in T : \A y \in T : k <= y
  <2>1. T \subseteq Nat
    OBVIOUS
  <2> HIDE DEF T
  <2> QED
    BY <2>1, Least
<1>2. k # 0
  <2>1. Roots([c \in 1..0 |-> 0], l, 0)
    BY DEF Roots
  <2> QED
    BY <2>1
<1>3. k - 1 \in 0..n /\ k - 1 \notin T /\ k - 1 \in Nat
  BY <1>1, <1>2
<1>4. PICK f : Roots(f, l, k - 1)
  BY <1>3
<1>5. Chained(l, (k - 1) + 1)
  BY <1>3 DEF Chained
<1>6. \E g : Roots(g, l, (k - 1) + 1)
  BY <1>3, <1>4, <1>5, RootsMore
<1> QED
  BY <1>3, <1>6

\* The root of a candidate is one, and was built from the operator's draft.
LEMMA RootsAre ==
  ASSUME NEW l, NEW n \in Nat, Chained(l, n), NEW f, Roots(f, l, n)
  PROVE  \A c \in 1..n : f[c] \in 1..n /\ l[f[c]].kind = "task"
<1> DEFINE T == {c \in 1..n : ~(f[c] \in 1..n /\ l[f[c]].kind = "task")}
<1> SUFFICES ASSUME T # {} PROVE FALSE
  OBVIOUS
<1>1. PICK c \in T : \A y \in T : c <= y
  <2>1. T \subseteq Nat
    OBVIOUS
  <2> HIDE DEF T
  <2> QED
    BY <2>1, Least
<1>2. c \in 1..n /\ ~(f[c] \in 1..n /\ l[f[c]].kind = "task")
  OBVIOUS
<1>3. f[c] = IF l[c].kind = "task" THEN c ELSE f[l[c].of]
  BY <1>2 DEF Roots
<1>4. l[c].kind # "task"
  BY <1>2, <1>3
<1>5. PICK j \in 1..(c - 1) : j = l[c].of
  BY <1>2, <1>4 DEF Chained
<1>6. j \in 1..n /\ ~(c <= j)
  BY <1>2
<1>7. f[j] \in 1..n /\ l[f[j]].kind = "task"
  BY <1>1, <1>6
<1> QED
  BY <1>2, <1>3, <1>4, <1>5, <1>7

LEMMA RootOfIs ==
  ASSUME cands \in Seq(Plans), Chained(cands, Len(cands))
  PROVE  \E f : Roots(f, cands, Len(cands)) /\ \A c : RootOf(c) = f[c]
<1>1. Len(cands) \in Nat /\ DOMAIN cands = 1..Len(cands)
  OBVIOUS
<1> DEFINE f == CHOOSE f : Roots(f, cands, Len(cands))
<1>2. Roots(f, cands, Len(cands))
  BY <1>1, RootsExist
<1>3. \A c : RootOf(c) = f[c]
  BY <1>1 DEF RootOf, Roots
<1> QED
  BY <1>2, <1>3

LEMMA OwnDraftIs ==
  ASSUME cands \in Seq(Plans), Chained(cands, Len(cands)), NEW c \in DOMAIN cands
  PROVE  \E r \in DOMAIN cands : /\ cands[r].kind = "task"
                                 /\ OwnDraft(c) = [rev |-> cands[r].rev, text |-> cands[r].text]
<1>1. PICK f : Roots(f, cands, Len(cands)) /\ \A x : RootOf(x) = f[x]
  BY RootOfIs
<1>2. Len(cands) \in Nat /\ DOMAIN cands = 1..Len(cands)
  OBVIOUS
<1>3. f[c] \in 1..Len(cands) /\ cands[f[c]].kind = "task"
  BY <1>1, <1>2, RootsAre
<1>4. OwnDraft(c) = [rev |-> cands[f[c]].rev, text |-> cands[f[c]].text]
  BY <1>1 DEF OwnDraft
<1> QED
  BY <1>2, <1>3, <1>4

\* A candidate more changes the root of none.
LEMMA OwnDraftStays ==
  ASSUME cands \in Seq(Plans), Chained(cands, Len(cands)),
         cands' \in Seq(Plans), Chained(cands', Len(cands')),
         \A i \in DOMAIN cands : i \in DOMAIN cands' /\ cands'[i] = cands[i],
         NEW c \in DOMAIN cands
  PROVE  OwnDraft(c)' = OwnDraft(c)
<1>1. PICK f : Roots(f, cands, Len(cands)) /\ \A x : RootOf(x) = f[x]
  BY RootOfIs
<1>2. \E g : Roots(g, cands', Len(cands')) /\ \A x : RootOf(x)' = g[x]
  <2>1. Len(cands') \in Nat /\ DOMAIN cands' = 1..Len(cands')
    OBVIOUS
  <2> DEFINE g == CHOOSE g : Roots(g, cands', Len(cands'))
  <2>2. Roots(g, cands', Len(cands'))
    BY <2>1, RootsExist
  <2>3. \A x : RootOf(x)' = g[x]
    BY <2>1 DEF RootOf, Roots
  <2> QED
    BY <2>2, <2>3
<1>3. PICK g : Roots(g, cands', Len(cands')) /\ \A x : RootOf(x)' = g[x]
  BY <1>2
<1>4. Len(cands) \in Nat /\ DOMAIN cands = 1..Len(cands) /\ Len(cands') \in Nat
      /\ DOMAIN cands' = 1..Len(cands')
  OBVIOUS
<1>5. Len(cands) <= Len(cands')
  BY <1>4
<1>6. \A i \in 1..Len(cands) : f[i] = g[i]
  <2>1. PICK m : m = cands'
    OBVIOUS
  <2>2. PICK n, k : n = Len(cands) /\ k = Len(cands')
    OBVIOUS
  <2>3. n \in Nat /\ k \in Nat /\ n <= k /\ \A i \in 1..n : cands[i] = m[i]
    BY <1>4, <1>5, <2>1, <2>2
  <2>4. Chained(cands, n) /\ Roots(f, cands, n) /\ Roots(g, m, k)
    BY <1>1, <1>3, <2>1, <2>2
  <2>5. \A i \in 1..n : f[i] = g[i]
    BY <2>3, <2>4, RootsAgree
  <2> QED
    BY <2>2, <2>5
<1>7. f[c] = g[c] /\ f[c] \in DOMAIN cands
  BY <1>1, <1>4, <1>6, RootsAre
<1>8. RootOf(c)' = f[c] /\ RootOf(c) = f[c]
  BY <1>1, <1>3, <1>7
<1>9. OwnDraft(c)' = [rev |-> cands'[RootOf(c)'].rev, text |-> cands'[RootOf(c)'].text]
  BY DEF OwnDraft
<1> QED
  BY <1>7, <1>8, <1>9 DEF OwnDraft

----------------------------------------------------------------------------
(* What a draft continues, and who may still say otherwise.                *)

Pending == \E s \in Clients : At(s, "clear")

\* A plan is of a draft there was; one of the present draft has its lineage.
Fits(p) ==
  /\ p.kind # "refinement" => p.rev <= draft.rev
  /\ p.kind = "task" => p.of = 0
  /\ p.kind # "refinement" /\ p.rev = draft.rev => p.of = origin \/ crossed
Parented(p) == p.kind # "task" => p.of \in DOMAIN cands

Planned ==
  /\ \A p \in plans \cup {task.plan} : Fits(p) /\ Parented(p)
  /\ \A c \in DOMAIN cands : Fits(cands[c])
  /\ Chained(cands, Len(cands))
Drafted ==
  /\ draft.rev >= 1 /\ origin \in Int
  /\ draft.text > 0 => origin = draft.text
  /\ draft.text = None => origin = 0
Followed ==
  /\ active \in {0} \cup DOMAIN cands
  /\ active # 0 => active = origin \/ Pending \/ crossed
  /\ origin # 0 => opening \/ active # 0 \/ crossed
  /\ \A x \in lineage :
       /\ x[1] <= draft.rev /\ x[2] \in DOMAIN cands
       /\ x[1] = draft.rev => x[2] = origin \/ crossed

\* What a thread has seen of the draft, and means to say of it.
Looks ==
  {"put", "observe put", "hand down put", "activate", "keep", "observe", "hand down",
   "lineage", "lineage active", "save plan"}
Minds(t) ==
  /\ op[t].at \in OfContinuation => op[t].of \in DOMAIN cands
  /\ op[t].at = "save plan" => op[t].of \in {0} \cup DOMAIN cands
  /\ op[t].at \in Looks => op[t].rev <= draft.rev
  /\ op[t].at = "put" /\ op[t].rev = draft.rev => draft.text = None \/ draft = OwnDraft(op[t].of)
  /\ Opens(t) => op[t].of = origin \/ Pending \/ crossed
  /\ Opens(t) \/ op[t].at \in {"keep", "save plan"} =>
       (op[t].rev = draft.rev => op[t].of = origin \/ crossed)
  /\ op[t].at \in {"hand down", "hand down put"} =>
       /\ op[t].text \in DOMAIN cands
       /\ op[t].rev = draft.rev => op[t].text = origin \/ crossed
  /\ op[t].at \in {"revalidate", "reserve task"} => Fits(op[t].plan) /\ Parented(op[t].plan)

Lines == Planned /\ Drafted /\ Followed /\ \A t \in Clients : Minds(t)

LEMMA Numbered ==
  ASSUME Typed
  PROVE  \A c \in DOMAIN cands : c \in Nat \ {0}
<1>1. cands \in Seq(Plans)
  BY DEF Typed
<1>2. Len(cands) \in Nat /\ DOMAIN cands = 1..Len(cands)
  BY <1>1
<1> QED
  BY <1>2

Apart(t) == \A s \in Clients \ {t} : op'[s] = op[s]
Afar == {"idle", "check", "sign", "check child", "sign child", "save child", "reserve child",
         "record", "fail", "clear"}

LEMMA MindsAfar ==
  ASSUME NEW t, op'[t].at \in Afar
  PROVE  Minds(t)'
BY DEF Minds, Opens, Afar, OfContinuation, Looks

\* A deletion that another thread has begun is still to be cleared.
LEMMA PendingStays ==
  ASSUME NEW t \in Clients, Apart(t), op[t].at # "clear", Pending
  PROVE  Pending'
BY DEF Pending, At, Apart

\* Steps that leave the draft and the candidates.
LEMMA LinesStay ==
  ASSUME Lines, NEW t \in Clients, Apart(t), UNCHANGED <<draft, origin, cands>>, crossed => crossed',
         Followed', Minds(t)',
         \A p \in plans' \cup {task'.plan} :
           p \in plans \cup {task.plan} \/ (Fits(p)' /\ Parented(p)'),
         \A s \in Clients \ {t} : Opens(s) => op[s].of = origin \/ Pending' \/ crossed'
  PROVE  Lines'
<1>1. \A p : Fits(p) => Fits(p)'
  BY DEF Fits
<1>2. \A p : Parented(p) => Parented(p)'
  BY DEF Parented
<1>3. Planned'
  BY <1>1, <1>2 DEF Lines, Planned, Chained
<1>4. Drafted'
  BY DEF Lines, Drafted
<1>5. ASSUME NEW s \in Clients PROVE Minds(s)'
  <2>1. CASE s # t
    <3>1. Minds(s) /\ op'[s] = op[s]
      BY <2>1 DEF Lines, Apart
    <3>2. PICK c, p : c = op[s].of /\ p = op[s].plan
      OBVIOUS
    <3>3. OwnDraft(c)' = OwnDraft(c)
      BY DEF OwnDraft, RootOf
    <3>4. Opens(s) => op[s].of = origin \/ Pending' \/ crossed'
      BY <2>1
    <3>5. (Fits(p) => Fits(p)') /\ (Parented(p) => Parented(p)')
      BY <1>1, <1>2
    <3> QED
      BY <3>1, <3>2, <3>3, <3>4, <3>5 DEF Minds, Opens
  <2> QED
    BY <2>1
<1> QED
  BY <1>3, <1>4, <1>5 DEF Lines

\* And leave the lineage, too.
LEMMA LinesPlain ==
  ASSUME Lines, NEW t \in Clients, Apart(t), op[t].at # "clear",
         UNCHANGED <<draft, origin, opening, cands, active, lineage>>, crossed => crossed', Minds(t)',
         \A p \in plans' \cup {task'.plan} :
           p \in plans \cup {task.plan} \/ (Fits(p)' /\ Parented(p)')
  PROVE  Lines'
<1>1. Pending => Pending'
  BY PendingStays
<1>2. Followed'
  BY <1>1 DEF Lines, Followed
<1>3. \A s \in Clients \ {t} : Opens(s) => op[s].of = origin \/ Pending' \/ crossed'
  BY <1>1 DEF Lines, Minds
<1> QED
  BY <1>2, <1>3, LinesStay

\* Where a thread is after it went on, was done or raised.
LEMMA BeginsAt ==
  ASSUME Typed, NEW t \in Clients, NEW what, Begins(t, what)
  PROVE  op'[t] = what /\ Apart(t) /\ op[t].at = "idle"
BY DEF Typed, Begins, Apart, At

LEMMA GoesAt ==
  ASSUME Typed, NEW t \in Clients, NEW step, Goes(t, step)
  PROVE  /\ op'[t].at = step /\ op'[t].of = op[t].of /\ op'[t].rev = op[t].rev /\ Apart(t)
BY DEF Typed, Threads, Goes, Apart

LEMMA LeavesAt ==
  ASSUME Typed, NEW t \in Clients, Raises(t) \/ Done(t)
  PROVE  op'[t].at \in {"idle", "fail"} /\ Apart(t) /\ Minds(t)'
<1>1. CASE Done(t)
  <2>1. op' = [op EXCEPT ![t] = Idle] /\ op \in [Clients -> Threads] /\ Idle.at = "idle"
    BY <1>1, IdleThread DEF Typed, Done
  <2>2. op'[t].at = "idle" /\ Apart(t)
    BY <2>1 DEF Apart
  <2>3. op'[t].at \in Afar
    BY <2>2 DEF Afar
  <2>4. Minds(t)'
    BY <2>3, MindsAfar
  <2> QED
    BY <2>2, <2>4
<1>2. CASE Raises(t) /\ ~Done(t)
  <2>1. Goes(t, "fail")
    BY <1>2 DEF Raises
  <2>2. op'[t].at = "fail" /\ Apart(t)
    BY <2>1, GoesAt
  <2>3. op'[t].at \in Afar
    BY <2>2 DEF Afar
  <2>4. Minds(t)'
    BY <2>3, MindsAfar
  <2> QED
    BY <2>2, <2>4
<1> QED
  BY <1>1, <1>2

----------------------------------------------------------------------------
(* Requests, corrections and decisions.                                    *)

\* A step of a thread that stays far from the draft.
LEMMA FarLines ==
  ASSUME Lines, NEW t \in Clients, Apart(t), op[t].at # "clear", op'[t].at \in Afar,
         UNCHANGED <<draft, origin, opening, cands, active, lineage, crossed>>,
         \A p \in plans' \cup {task'.plan} :
           p \in plans \cup {task.plan} \/ (Fits(p)' /\ Parented(p)')
  PROVE  Lines'
<1>1. Minds(t)'
  BY MindsAfar
<1> QED
  BY <1>1, LinesPlain

LEMMA AcceptLines ==
  ASSUME IInv, Lines, NEW t \in Clients, NEW r, NEW c, Accept(t, r, c)
  PROVE  Lines'
<1>1. PICK what : what = Thread("check", r, Body("review", c, 0), TRUE)
  OBVIOUS
<1>2. what.at = "check"
  BY <1>1 DEF Thread, Idle
<1>3. op'[t] = what /\ Apart(t) /\ op[t].at = "idle"
  BY <1>1, BeginsAt DEF Accept, IInv
<1>4. op[t].at # "clear" /\ op'[t].at \in Afar
  BY <1>2, <1>3 DEF Afar
<1>5. UNCHANGED <<draft, origin, opening, cands, active, lineage, crossed, plans, task>>
  BY DEF Accept, tasks
<1> QED
  BY <1>3, <1>4, <1>5, FarLines

LEMMA IdlyLines ==
  ASSUME IInv, Lines, NEW t \in Clients, Begins(t, Idle),
         UNCHANGED <<draft, origin, opening, cands, active, lineage, crossed, plans>>,
         task'.plan \in plans \cup {task.plan}
  PROVE  Lines'
<1>1. op'[t] = Idle /\ Apart(t) /\ op[t].at = "idle"
  BY BeginsAt DEF IInv
<1>2. op[t].at # "clear" /\ op'[t].at \in Afar
  BY <1>1, IdleThread DEF Afar
<1> QED
  BY <1>1, <1>2, FarLines

LEMMA SaveCorrectionLines ==
  ASSUME IInv, Lines, NEW t \in Clients, NEW c, SaveCorrection(t, c)
  PROVE  Lines'
BY IdlyLines DEF SaveCorrection, tasks

LEMMA ApplyLines ==
  ASSUME IInv, Lines, NEW t \in Clients, NEW c, Apply(t, c)
  PROVE  Lines'
BY IdlyLines DEF Apply, tasks, review

LEMMA StartLines ==
  ASSUME IInv, Lines, NEW t \in Clients, NEW p \in plans, Start(t, p)
  PROVE  Lines'
<1>1. PICK what : what = [Idle EXCEPT !.at = "revalidate", !.plan = p]
  OBVIOUS
<1>2. what.at = "revalidate" /\ what.plan = p
  BY <1>1 DEF Idle
<1>3. op'[t] = what /\ Apart(t) /\ op[t].at = "idle"
  BY <1>1, BeginsAt DEF Start, IInv
<1>4. UNCHANGED <<draft, origin, opening, cands, active, lineage, crossed, plans, task>>
  BY DEF Start, review, tasks
<1>5. Fits(p)' /\ Parented(p)'
  BY <1>4 DEF Lines, Planned, Fits, Parented
<1>6. Minds(t)'
  BY <1>2, <1>3, <1>5 DEF Minds, Opens, OfContinuation, Looks
<1> QED
  BY <1>3, <1>4, <1>6, LinesPlain

LEMMA RevalidateLines ==
  ASSUME IInv, Lines, NEW t \in Clients, Revalidate(t)
  PROVE  Lines'
<1>1. op[t].at = "revalidate"
      /\ UNCHANGED <<draft, origin, opening, cands, active, lineage, crossed, plans, task>>
  BY DEF Revalidate, At, review, tasks
<1>2. PICK p : p = op[t].plan
  OBVIOUS
<1>3. Fits(p)' /\ Parented(p)'
  BY <1>1, <1>2 DEF Lines, Minds, Fits, Parented
<1>4. CASE Goes(t, "reserve task")
  <2>1. op'[t].at = "reserve task" /\ op'[t].plan = p /\ Apart(t)
    BY <1>2, <1>4 DEF IInv, Typed, Threads, Goes, Apart
  <2>2. Minds(t)'
    BY <1>3, <2>1 DEF Minds, Opens, OfContinuation, Looks
  <2> QED
    BY <1>1, <2>1, <2>2, LinesPlain
<1>5. CASE Done(t)
  <2>1. Apart(t) /\ Minds(t)'
    BY <1>5, LeavesAt DEF IInv
  <2> QED
    BY <1>1, <2>1, LinesPlain
<1> QED
  BY <1>4, <1>5 DEF Revalidate

LEMMA ReserveTaskLines ==
  ASSUME IInv, Lines, NEW t \in Clients, ReserveTask(t)
  PROVE  Lines'
<1>1. op[t].at = "reserve task" /\ Done(t)
      /\ UNCHANGED <<draft, origin, opening, cands, active, lineage, crossed, plans>>
  BY DEF ReserveTask, At, review
<1>2. PICK p : p = op[t].plan
  OBVIOUS
<1>3. task'.plan = task.plan \/ task'.plan = p
  <2>1. task' = [at |-> "preparing", plan |-> p] \/ task' = task
    BY <1>2 DEF ReserveTask
  <2> QED
    BY <2>1
<1>4. Fits(p)' /\ Parented(p)'
  BY <1>1, <1>2 DEF Lines, Minds, Fits, Parented
<1>5. Apart(t) /\ Minds(t)'
  BY <1>1, LeavesAt DEF IInv
<1> QED
  BY <1>1, <1>3, <1>4, <1>5, LinesPlain

LEMMA ReadCorrectionLines ==
  ASSUME IInv, Lines, NEW t \in Clients, NEW r, NEW c, ReadCorrection(t, r, c)
  PROVE  Lines'
<1>1. PICK what : what = Thread("reserve child", r, Body("child", c, correction[c]), FALSE)
  OBVIOUS
<1>2. what.at = "reserve child"
  BY <1>1 DEF Thread, Idle
<1>3. op'[t] = what /\ Apart(t) /\ op[t].at = "idle"
  BY <1>1, BeginsAt DEF ReadCorrection, IInv
<1>4. op[t].at # "clear" /\ op'[t].at \in Afar
  BY <1>2, <1>3 DEF Afar
<1>5. UNCHANGED <<draft, origin, opening, cands, active, lineage, crossed, plans, task>>
  BY DEF ReadCorrection, tasks, review
<1> QED
  BY <1>3, <1>4, <1>5, FarLines

\* A thread that goes on among these steps, or leaves.
LEMMA GoingLines ==
  ASSUME IInv, Lines, NEW t \in Clients, op[t].at # "clear",
         NEW step \in Afar, Goes(t, step) \/ Raises(t) \/ Done(t),
         UNCHANGED <<draft, origin, opening, cands, active, lineage, crossed, plans, task>>
  PROVE  Lines'
<1>1. Typed
  BY DEF IInv
<1>2. Apart(t) /\ op'[t].at \in Afar
  BY <1>1, GoesAt, LeavesAt DEF Afar
<1> QED
  BY <1>2, FarLines

LEMMA CheckBaseLines ==
  ASSUME IInv, Lines, NEW t \in Clients, CheckBase(t)
  PROVE  Lines'
<1>1. op[t].at # "clear" /\ "sign" \in Afar
  BY DEF CheckBase, At, Afar
<1> QED
  BY <1>1, GoingLines DEF CheckBase, review, tasks

LEMMA SignLines ==
  ASSUME IInv, Lines, NEW t \in Clients, Sign(t)
  PROVE  Lines'
<1>1. op[t].at # "clear" /\ "record" \in Afar
  BY DEF Sign, At, Afar
<1> QED
  BY <1>1, GoingLines DEF Sign, Then, tasks

LEMMA FailLines ==
  ASSUME IInv, Lines, NEW t \in Clients, Fail(t)
  PROVE  Lines'
<1>1. op[t].at # "clear" /\ "idle" \in Afar
  BY DEF Fail, At, Afar
<1> QED
  BY <1>1, GoingLines DEF Fail, tasks

LEMMA EndsLines ==
  ASSUME IInv, Lines, NEW t \in Clients, Ends(t)
  PROVE  Lines'
<1>1. op[t].at # "clear" /\ "idle" \in Afar
  BY DEF Ends, At, Afar
<1> QED
  BY <1>1, GoingLines DEF Ends, Then, tasks

LEMMA SignChildLines ==
  ASSUME IInv, Lines, NEW t \in Clients, SignChild(t)
  PROVE  Lines'
<1>1. op[t].at # "clear" /\ "save child" \in Afar
  BY DEF SignChild, At, Afar
<1> QED
  BY <1>1, GoingLines DEF SignChild, Then, tasks

LEMMA SaveChildLines ==
  ASSUME IInv, Lines, NEW t \in Clients, SaveChild(t)
  PROVE  Lines'
<1>1. op[t].at # "clear" /\ "record" \in Afar
  BY DEF SaveChild, At, Afar
<1> QED
  BY <1>1, GoingLines DEF SaveChild, Then, tasks

LEMMA ReserveChildLines ==
  ASSUME IInv, Lines, NEW t \in Clients, ReserveChild(t)
  PROVE  Lines'
<1>1. op[t].at # "clear" /\ "idle" \in Afar /\ "check child" \in Afar
  BY DEF ReserveChild, At, Afar
<1>2. UNCHANGED <<draft, origin, opening, cands, active, lineage, crossed, plans, task>>
  BY DEF ReserveChild, tasks
<1>3. CASE Done(t)
  BY <1>1, <1>2, <1>3, GoingLines
<1>4. CASE op' = [op EXCEPT ![t].at = "check child", ![t].new = TRUE]
  <2>1. op'[t].at = "check child" /\ Apart(t)
    BY <1>4 DEF IInv, Typed, Threads, Apart
  <2> QED
    BY <1>1, <1>2, <2>1, FarLines
<1> QED
  BY <1>3, <1>4 DEF ReserveChild

LEMMA CheckChildLines ==
  ASSUME IInv, Lines, NEW t \in Clients, CheckChild(t)
  PROVE  Lines'
<1>1. op[t].at # "clear" /\ "sign child" \in Afar /\ op[t].at \notin OfNone
  BY DEF CheckChild, At, Afar, OfNone
<1>2. PICK q : q = op[t].req
  OBVIOUS
<1>3. PICK p : p = ChildOf(q)
  OBVIOUS
<1>4. Holds(q)
  BY <1>1, <1>2 DEF IInv, Relies
<1>5. p.kind = "refinement" /\ p.of \in DOMAIN cands
  BY <1>3, <1>4 DEF ChildOf, Plan, IInv, Sound, Holds
<1>6. Apart(t) /\ op'[t].at \in Afar
  <2>1. Goes(t, "sign child") \/ Raises(t)
    BY DEF CheckChild, Then
  <2> QED
    BY <1>1, <2>1, GoesAt, LeavesAt DEF IInv, Afar
<1>7. UNCHANGED <<draft, origin, opening, cands, active, lineage, crossed, task>>
      /\ plans' \subseteq plans \cup {p}
  BY <1>2, <1>3 DEF CheckChild, review
<1>8. Fits(p)' /\ Parented(p)'
  BY <1>5, <1>7 DEF Fits, Parented
<1> QED
  BY <1>1, <1>6, <1>7, <1>8, FarLines

\* What breaks in a deletion is said to have been cut short.
LEMMA BreaksLines ==
  ASSUME IInv, Lines, NEW t \in Clients, Breaks(t)
  PROVE  Lines'
<1>1. UNCHANGED <<draft, origin, opening, cands, active, lineage, plans, task>>
      /\ (crossed => crossed') /\ (op[t].at = "clear" => crossed')
  BY DEF Breaks, review, tasks, At
<1>2. Apart(t) /\ Minds(t)'
  BY LeavesAt DEF Breaks, IInv
<1>3. CASE op[t].at # "clear"
  BY <1>1, <1>2, <1>3, LinesPlain
<1>4. CASE op[t].at = "clear"
  <2>1. Followed'
    BY <1>1, <1>4 DEF Lines, Followed
  <2>2. crossed'
    BY <1>1, <1>4
  <2> QED
    BY <1>1, <1>2, <2>1, <2>2, LinesStay
<1> QED
  BY <1>3, <1>4

----------------------------------------------------------------------------
(* A continuation is opened.                                               *)

LEMMA ContinueLines ==
  ASSUME IInv, Lines, NEW t \in Clients, NEW r, NEW c, Continue(t, r, c)
  PROVE  Lines'
<1>1. PICK new : Begins(t, Thread("look", r, Body("continuation", c, 0), new))
  BY DEF Continue
<1>2. PICK what : what = Thread("look", r, Body("continuation", c, 0), new)
  OBVIOUS
<1>3. what.at = "look" /\ what.of = c
  BY <1>2 DEF Thread, Idle, Body
<1>4. op'[t] = what /\ Apart(t) /\ op[t].at = "idle"
  BY <1>1, <1>2, BeginsAt DEF IInv
<1>5. UNCHANGED <<draft, origin, opening, cands, active, lineage, crossed, plans, task>> /\ c \in DOMAIN cands
  BY DEF Continue, tasks
<1>6. Minds(t)'
  BY <1>3, <1>4, <1>5 DEF Minds, Opens, Looks
<1> QED
  BY <1>4, <1>5, <1>6, LinesPlain

LEMMA LookLines ==
  ASSUME IInv, Lines, NEW t \in Clients, Look(t)
  PROVE  Lines'
<1>1. op[t].at = "look" /\ op[t].of \in DOMAIN cands
  BY DEF Look, At, Lines, Minds, Opens, OfContinuation
<1>2. UNCHANGED <<draft, origin, opening, cands, active, lineage, crossed, plans, task>>
  BY DEF Look, review, tasks
<1>3. CASE Goes(t, "read draft")
  <2>1. op'[t].at = "read draft" /\ op'[t].of = op[t].of /\ Apart(t)
    BY <1>3, GoesAt DEF IInv
  <2>2. Minds(t)'
    BY <1>1, <1>2, <2>1 DEF Minds, Opens, Looks
  <2> QED
    BY <1>1, <1>2, <2>1, <2>2, LinesPlain
<1>4. CASE Raises(t)
  <2>1. Apart(t) /\ Minds(t)'
    BY <1>4, LeavesAt DEF IInv
  <2> QED
    BY <1>1, <1>2, <2>1, LinesPlain
<1> QED
  BY <1>3, <1>4 DEF Look

LEMMA ReadDraftLines ==
  ASSUME IInv, Lines, NEW t \in Clients, ReadDraft(t)
  PROVE  Lines'
<1>1. PICK c : c = op[t].of
  OBVIOUS
<1>2. op[t].at = "read draft" /\ c \in DOMAIN cands
  BY <1>1 DEF ReadDraft, At, Lines, Minds, Opens, OfContinuation
<1>3. UNCHANGED <<draft, origin, opening, cands, active, lineage, crossed, plans, task>>
  BY DEF ReadDraft, review, tasks
<1>4. ASSUME NEW step \in {"activate", "put"},
             op' = [op EXCEPT ![t].at = step, ![t].rev = draft.rev],
             step = "activate" => draft.text = c,
             step = "put" => draft.text = None \/ draft = OwnDraft(c)
      PROVE  Lines'
  <2>1. op'[t].at = step /\ op'[t].of = c /\ op'[t].rev = draft.rev /\ Apart(t)
    BY <1>1, <1>4 DEF IInv, Typed, Threads, Apart
  <2>2. step = "activate" => c = origin
    <3>1. c \in Nat \ {0}
      BY <1>2, Numbered DEF IInv
    <3>2. c > 0
      BY <3>1
    <3> QED
      BY <1>4, <3>2 DEF Lines, Drafted
  <2>3. draft.rev <= draft.rev
    BY DEF IInv, Typed
  <2>4. OwnDraft(c)' = OwnDraft(c)
    BY <1>3 DEF OwnDraft, RootOf
  <2>5. Minds(t)'
    BY <1>2, <1>3, <1>4, <2>1, <2>2, <2>3, <2>4 DEF Minds, Opens
  <2> QED
    BY <1>2, <1>3, <2>1, <2>5, LinesPlain
<1>5. CASE Raises(t)
  <2>1. Apart(t) /\ Minds(t)'
    BY <1>5, LeavesAt DEF IInv
  <2> QED
    BY <1>2, <1>3, <2>1, LinesPlain
<1> QED
  BY <1>1, <1>4, <1>5 DEF ReadDraft

\* A draft that is written is a new revision: what was of the last is past.
LEMMA DraftMoves ==
  ASSUME IInv, Lines, NEW t \in Clients, Apart(t), UNCHANGED <<cands, task>>, plans' \subseteq plans,
         draft'.rev = draft.rev + 1, crossed => crossed', Drafted', Followed', Minds(t)',
         \A s \in Clients \ {t} : Opens(s) => op[s].of = origin' \/ Pending' \/ crossed'
  PROVE  Lines'
<1>1. draft.rev \in Int
  BY DEF IInv, Typed
<1>2. ASSUME NEW p \in Plans, Fits(p) PROVE Fits(p)'
  BY <1>1, <1>2 DEF Fits, Plans
<1>3. Planned'
  <2>1. plans \subseteq Plans /\ task.plan \in Plans /\ \A c \in DOMAIN cands : cands[c] \in Plans
    BY DEF IInv, Typed
  <2>2. \A p : Parented(p) => Parented(p)'
    BY DEF Parented
  <2> QED
    BY <1>2, <2>1, <2>2 DEF Lines, Planned, Chained
<1>4. ASSUME NEW s \in Clients PROVE Minds(s)'
  <2>1. CASE s # t
    <3>1. Minds(s) /\ op'[s] = op[s] /\ op[s].rev \in Int
      BY <2>1 DEF Lines, Apart, IInv, Typed, Threads
    <3>2. op[s].at \in Looks => op[s].rev <= draft'.rev /\ op[s].rev # draft'.rev
      <4>1. PICK a, b, r : a = op[s].rev /\ b = draft.rev /\ r = draft'.rev
        OBVIOUS
      <4>2. a \in Int /\ b \in Int /\ r = b + 1
        BY <1>1, <3>1, <4>1
      <4>3. op[s].at \in Looks => a <= b
        BY <3>1, <4>1 DEF Minds, Opens
      <4> QED
        BY <4>1, <4>2, <4>3
    <3>3. Opens(s) => op[s].of = origin' \/ Pending' \/ crossed'
      BY <2>1
    <3>4. PICK p \in Plans : p = op[s].plan
      BY DEF IInv, Typed, Threads
    <3>5. (Fits(p) => Fits(p)') /\ (Parented(p) => Parented(p)')
      BY <1>2 DEF Parented
    <3> QED
      BY <3>1, <3>2, <3>3, <3>4, <3>5 DEF Minds, Opens, Looks
  <2> QED
    BY <2>1
<1> QED
  BY <1>3, <1>4 DEF Lines

\* Who may put the draft finds one that continues nothing.
LEMMA PutOver ==
  ASSUME IInv, Lines, NEW t \in Clients, op[t].at = "put", op[t].rev = draft.rev
  PROVE  origin = 0 \/ crossed
<1>1. PICK c : c = op[t].of
  OBVIOUS
<1>2. c \in DOMAIN cands /\ (draft.text = None \/ draft = OwnDraft(c))
  BY <1>1 DEF Lines, Minds, Opens, OfContinuation
<1>3. CASE draft.text = None
  BY <1>3 DEF Lines, Drafted
<1>4. CASE draft = OwnDraft(c)
  <2>1. PICK r \in DOMAIN cands :
          cands[r].kind = "task" /\ OwnDraft(c) = [rev |-> cands[r].rev, text |-> cands[r].text]
    BY <1>2, OwnDraftIs DEF IInv, Typed, Lines, Planned
  <2>2. Fits(cands[r]) /\ cands[r].rev = draft.rev
    BY <1>4, <2>1 DEF Lines, Planned
  <2> QED
    BY <2>1, <2>2 DEF Fits
<1> QED
  BY <1>2, <1>3, <1>4

\* What was seen of a draft stays in a candidate when the draft moves on.
LEMMA FollowedMoves ==
  ASSUME IInv, Lines, UNCHANGED <<cands, lineage, active>>, draft'.rev = draft.rev + 1,
         crossed => crossed', active # 0 => active = origin' \/ Pending' \/ crossed',
         origin' # 0 => opening' \/ active # 0 \/ crossed'
  PROVE  Followed'
<1>1. draft.rev \in Int /\ lineage \subseteq Int \X Int
  BY DEF IInv, Typed
<1>2. PICK a, b : a = draft.rev /\ b = draft'.rev
  OBVIOUS
<1>3. ASSUME NEW x \in lineage
      PROVE  x[1] <= b /\ x[2] \in DOMAIN cands /\ x[1] # b
  <2>1. x[1] \in Int /\ x[1] <= a /\ x[2] \in DOMAIN cands
    BY <1>1, <1>2 DEF Lines, Followed
  <2> QED
    BY <1>1, <1>2, <2>1
<1> QED
  BY <1>2, <1>3 DEF Lines, Followed

LEMMA PutLines ==
  ASSUME IInv, Lines, NEW t \in Clients, Put(t)
  PROVE  Lines'
<1>1. op[t].at = "put" /\ UNCHANGED <<active, lineage, crossed, plans, task, cands>>
  BY DEF Put, At, review
<1>2. CASE Raises(t) /\ UNCHANGED <<draft, origin, opening>>
  <2>1. Apart(t) /\ Minds(t)'
    BY <1>2, LeavesAt DEF IInv
  <2> QED
    BY <1>1, <1>2, <2>1, LinesPlain
<1>3. CASE /\ draft.rev = op[t].rev
           /\ draft' = [rev |-> draft.rev + 1, text |-> op[t].of] /\ origin' = op[t].of
           /\ opening' = TRUE
           /\ Then(t, op' = [op EXCEPT ![t].at = "observe put", ![t].rev = draft'.rev])
  <2>1. draft.rev \in Int /\ draft.rev >= 1
    BY DEF IInv, Typed, Lines, Drafted
  <2>2. PICK rev, c : rev = draft.rev + 1 /\ c = op[t].of
    OBVIOUS
  <2>3. draft'.rev = rev /\ draft'.text = c /\ origin' = c /\ c \in DOMAIN cands
    BY <1>1, <1>3, <2>2 DEF Lines, Minds, OfContinuation
  <2>4. c \in Int /\ c > 0
    <3>1. c \in Nat \ {0}
      BY <2>3, Numbered DEF IInv
    <3> QED
      BY <3>1
  <2>5. Drafted'
    BY <2>1, <2>2, <2>3, <2>4 DEF Drafted, None
  <2>6. origin = 0 \/ crossed
    BY <1>1, <1>3, PutOver
  <2>7. Apart(t) /\ Minds(t)'
    <3>1. CASE op' = [op EXCEPT ![t].at = "observe put", ![t].rev = draft'.rev]
      <4>1. op'[t].at = "observe put" /\ op'[t].rev = rev /\ op'[t].of = c /\ Apart(t)
        BY <2>2, <2>3, <3>1 DEF IInv, Typed, Threads, Apart
      <4>2. rev <= draft'.rev
        BY <2>1, <2>2, <2>3
      <4> QED
        BY <1>1, <2>3, <4>1, <4>2 DEF Minds, Opens
    <3>2. CASE Raises(t)
      BY <3>2, LeavesAt DEF IInv
    <3> QED
      BY <1>3, <3>1, <3>2 DEF Then
  <2>8. Pending => Pending'
    BY <1>1, <2>7, PendingStays
  <2>9. Followed'
    <3>1. active # 0 => active = origin' \/ Pending' \/ crossed'
      BY <1>1, <2>6, <2>8 DEF Lines, Followed
    <3>2. draft'.rev = draft.rev + 1 /\ opening'
      BY <1>3, <2>2, <2>3
    <3> QED
      BY <1>1, <3>1, <3>2, FollowedMoves
  <2>10. ASSUME NEW s \in Clients \ {t}, Opens(s)
         PROVE  op[s].of = origin' \/ Pending' \/ crossed'
    <3>1. op[s].of \in DOMAIN cands /\ (op[s].of = origin \/ Pending \/ crossed)
      BY <2>10 DEF Lines, Minds, Opens, OfContinuation
    <3>2. op[s].of # 0
      BY <3>1 DEF IInv, Typed
    <3> QED
      BY <1>1, <2>6, <2>8, <3>1, <3>2
  <2> QED
    BY <1>1, <2>2, <2>3, <2>5, <2>7, <2>9, <2>10, DraftMoves
<1> QED
  BY <1>2, <1>3 DEF Put

LEMMA ActivateLines ==
  ASSUME IInv, Lines, NEW t \in Clients, Activate(t)
  PROVE  Lines'
<1>1. PICK c : c = op[t].of
  OBVIOUS
<1>2. /\ op[t].at = "activate" /\ active' = c
      /\ UNCHANGED <<draft, origin, cands, lineage, crossed, plans, task>>
  BY <1>1 DEF Activate, At
<1>3. /\ c \in DOMAIN cands /\ (c = origin \/ Pending \/ crossed)
      /\ op[t].rev <= draft.rev /\ (op[t].rev = draft.rev => c = origin \/ crossed)
  BY <1>1, <1>2 DEF Lines, Minds, Opens, OfContinuation, Looks
<1>4. Goes(t, "keep") \/ Raises(t)
  BY DEF Activate, Then
<1>5. Apart(t)
  BY <1>4, GoesAt, LeavesAt DEF IInv
<1>6. Minds(t)'
  <2>1. CASE Goes(t, "keep")
    <3>1. op'[t].at = "keep" /\ op'[t].of = c /\ op'[t].rev = op[t].rev
      BY <1>1, <2>1, GoesAt DEF IInv
    <3> QED
      BY <1>2, <1>3, <3>1 DEF Minds, Opens
  <2>2. CASE Raises(t)
    BY <2>2, LeavesAt DEF IInv
  <2> QED
    BY <1>4, <2>1, <2>2
<1>7. Pending => Pending'
  BY <1>2, <1>5, PendingStays
<1>8. Followed'
  <2>1. c # 0
    BY <1>3 DEF IInv, Typed
  <2> QED
    BY <1>2, <1>3, <1>7, <2>1 DEF Lines, Followed
<1>9. \A s \in Clients \ {t} : Opens(s) => op[s].of = origin \/ Pending' \/ crossed'
  BY <1>2, <1>7 DEF Lines, Minds
<1> QED
  BY <1>2, <1>5, <1>6, <1>8, <1>9, LinesStay

\* What is kept with a revision is what its draft continues.
LEMMA LineageGrows ==
  ASSUME Lines, NEW r, NEW c \in DOMAIN cands, lineage' \subseteq lineage \cup {<<r, c>>},
         UNCHANGED <<draft, origin, opening, cands, active, crossed>>, Pending => Pending',
         r <= draft.rev, r = draft.rev => c = origin \/ crossed
  PROVE  Followed'
<1>1. ASSUME NEW x \in lineage'
      PROVE  /\ x[1] <= draft.rev /\ x[2] \in DOMAIN cands
             /\ x[1] = draft.rev => x[2] = origin \/ crossed
  <2>1. CASE x \in lineage
    BY <2>1 DEF Lines, Followed
  <2>2. CASE x = <<r, c>>
    BY <2>2
  <2> QED
    BY <2>1, <2>2
<1> QED
  BY <1>1 DEF Lines, Followed

LEMMA KeepLines ==
  ASSUME IInv, Lines, NEW t \in Clients, Keep(t)
  PROVE  Lines'
<1>1. PICK c, r : c = op[t].of /\ r = op[t].rev
  OBVIOUS
<1>2. /\ op[t].at = "keep" /\ lineage' \subseteq lineage \cup {<<r, c>>}
      /\ UNCHANGED <<draft, origin, opening, cands, active, crossed, plans, task>>
  BY <1>1 DEF Keep, At, tasks
<1>3. c \in DOMAIN cands /\ r <= draft.rev /\ (r = draft.rev => c = origin \/ crossed)
  BY <1>1, <1>2 DEF Lines, Minds, Opens, OfContinuation, Looks
<1>4. Goes(t, "record") \/ Raises(t)
  BY DEF Keep, Then
<1>5. Apart(t) /\ Minds(t)'
  <2>1. CASE Goes(t, "record")
    <3>1. op'[t].at = "record" /\ Apart(t)
      BY <2>1, GoesAt DEF IInv
    <3>2. op'[t].at \in Afar
      BY <3>1 DEF Afar
    <3> QED
      BY <3>1, <3>2, MindsAfar
  <2>2. CASE Raises(t)
    BY <2>2, LeavesAt DEF IInv
  <2> QED
    BY <1>4, <2>1, <2>2
<1>6. Pending => Pending'
  BY <1>2, <1>5, PendingStays
<1>7. Followed'
  BY <1>2, <1>3, <1>6, LineageGrows
<1>8. \A s \in Clients \ {t} : Opens(s) => op[s].of = origin \/ Pending' \/ crossed'
  BY <1>2, <1>6 DEF Lines, Minds
<1> QED
  BY <1>2, <1>5, <1>7, <1>8, LinesStay

----------------------------------------------------------------------------
(* Drafts and plans.                                                       *)

LEMMA SaveDraftLines ==
  ASSUME IInv, Lines, NEW t \in Clients, NEW text \in {Words, draft.text}, SaveDraft(t, text)
  PROVE  Lines'
<1>1. draft.rev \in Int /\ draft.rev >= 1
  BY DEF IInv, Typed, Lines, Drafted
<1>2. /\ text # None /\ draft'.rev = draft.rev + 1 /\ draft'.text = text
      /\ UNCHANGED <<origin, opening, cands, lineage, active, crossed, plans, task>>
  BY DEF SaveDraft, review
<1>3. PICK r : r = draft.rev + 1
  OBVIOUS
<1>4. PICK what : what = [Idle EXCEPT !.at = "observe", !.rev = r]
  OBVIOUS
<1>5. what.at = "observe" /\ what.rev = r
  BY <1>4 DEF Idle
<1>6. op'[t] = what /\ Apart(t) /\ op[t].at = "idle"
  BY <1>3, <1>4, BeginsAt DEF SaveDraft, IInv
<1>7. Minds(t)'
  <2>1. r <= draft'.rev
    BY <1>1, <1>2, <1>3
  <2> QED
    BY <1>5, <1>6, <2>1 DEF Minds, Opens, OfContinuation, Looks
<1>8. Drafted'
  BY <1>1, <1>2 DEF Lines, Drafted, Words, None
<1>9. Pending => Pending'
  BY <1>6, PendingStays
<1>10. Followed'
  BY <1>2, <1>9, FollowedMoves DEF Lines, Followed
<1>11. ASSUME NEW s \in Clients \ {t}, Opens(s)
       PROVE  op[s].of = origin' \/ Pending' \/ crossed'
  BY <1>2, <1>9, <1>11 DEF Lines, Minds, Opens
<1> QED
  BY <1>2, <1>6, <1>7, <1>8, <1>10, <1>11, DraftMoves

LEMMA ObserveLines ==
  ASSUME IInv, Lines, NEW t \in Clients, Observe(t)
  PROVE  Lines'
<1>1. PICK r, c : r = op[t].rev /\ c = op[t].of
  OBVIOUS
<1>2. /\ op[t].at \in {"observe", "observe put"} /\ crossed' = (crossed \/ Meets(t))
      /\ UNCHANGED <<draft, origin, opening, cands, active, lineage, plans, task>>
  BY DEF Observe, At, review, tasks
<1>3. /\ r <= draft.rev
      /\ op[t].at = "observe put" =>
           /\ c \in DOMAIN cands /\ (c = origin \/ Pending \/ crossed)
           /\ r = draft.rev => c = origin \/ crossed
  BY <1>1, <1>2 DEF Lines, Minds, Opens, OfContinuation, Looks
<1>4. active # 0 => active \in DOMAIN cands /\ (r = draft.rev => active = origin \/ crossed')
  BY <1>1, <1>2 DEF Lines, Followed, Meets, Pending
<1>5. ASSUME NEW step \in {"hand down", "hand down put", "activate"},
             op' = [op EXCEPT ![t].at = step, ![t].text = active],
             step # "hand down" => op[t].at = "observe put", step # "activate" => active # 0
      PROVE  Lines'
  <2>1. /\ op'[t].at = step /\ op'[t].of = c /\ op'[t].rev = r /\ op'[t].text = active
        /\ Apart(t)
    BY <1>1, <1>5 DEF IInv, Typed, Threads, Apart
  <2>2. Pending => Pending'
    BY <1>2, <2>1, PendingStays
  <2>3. Minds(t)'
    BY <1>2, <1>3, <1>4, <1>5, <2>1, <2>2 DEF Minds, Opens, OfContinuation, Looks
  <2> QED
    BY <1>2, <2>1, <2>3, LinesPlain
<1>6. CASE Done(t)
  <2>1. Apart(t) /\ Minds(t)'
    BY <1>6, LeavesAt DEF IInv
  <2> QED
    BY <1>2, <2>1, LinesPlain
<1>7. CASE /\ At(t, "observe") /\ active # 0
           /\ op' = [op EXCEPT ![t].at = "hand down", ![t].text = active]
  BY <1>5, <1>7
<1>8. CASE /\ At(t, "observe put") /\ active = 0
           /\ op' = [op EXCEPT ![t].at = "activate", ![t].text = active]
  BY <1>5, <1>8 DEF At
<1>9. CASE /\ At(t, "observe put") /\ active # 0
           /\ op' = [op EXCEPT ![t].at = "hand down put", ![t].text = active]
  BY <1>5, <1>9 DEF At
<1> QED
  BY <1>6, <1>7, <1>8, <1>9 DEF Observe

LEMMA HandDownLines ==
  ASSUME IInv, Lines, NEW t \in Clients, HandDown(t)
  PROVE  Lines'
<1>1. PICK r, c, d : r = op[t].rev /\ c = op[t].text /\ d = op[t].of
  OBVIOUS
<1>2. /\ op[t].at \in {"hand down", "hand down put"}
      /\ lineage' \subseteq lineage \cup {<<r, c>>}
      /\ UNCHANGED <<draft, origin, opening, cands, active, crossed, plans, task>>
  BY <1>1 DEF HandDown, tasks
<1>3. c \in DOMAIN cands /\ r <= draft.rev /\ (r = draft.rev => c = origin \/ crossed)
  BY <1>1, <1>2 DEF Lines, Minds, Looks
<1>4. Raises(t) \/ Done(t) \/ (Goes(t, "activate") /\ op[t].at = "hand down put")
  BY <1>2 DEF HandDown, Then, At
<1>5. Apart(t)
  BY <1>4, GoesAt, LeavesAt DEF IInv
<1>6. Pending => Pending'
  BY <1>2, <1>5, PendingStays
<1>7. Minds(t)'
  <2>1. CASE Goes(t, "activate") /\ op[t].at = "hand down put"
    <3>1. op'[t].at = "activate" /\ op'[t].of = d /\ op'[t].rev = r
      BY <1>1, <2>1, GoesAt DEF IInv
    <3>2. /\ d \in DOMAIN cands /\ (d = origin \/ Pending \/ crossed)
          /\ r = draft.rev => d = origin \/ crossed
      BY <1>1, <2>1 DEF Lines, Minds, Opens, OfContinuation
    <3> QED
      BY <1>2, <1>3, <1>6, <3>1, <3>2 DEF Minds, Opens
  <2>2. CASE Raises(t) \/ Done(t)
    BY <2>2, LeavesAt DEF IInv
  <2> QED
    BY <1>4, <2>1, <2>2
<1>8. Followed'
  BY <1>2, <1>3, <1>6, LineageGrows
<1>9. \A s \in Clients \ {t} : Opens(s) => op[s].of = origin \/ Pending' \/ crossed'
  BY <1>2, <1>6 DEF Lines, Minds
<1> QED
  BY <1>2, <1>5, <1>7, <1>8, <1>9, LinesStay

LEMMA DeleteDraftLines ==
  ASSUME IInv, Lines, NEW t \in Clients, DeleteDraft(t)
  PROVE  Lines'
<1>1. draft.rev \in Int /\ draft.rev >= 1
  BY DEF IInv, Typed, Lines, Drafted
<1>2. /\ draft'.rev = draft.rev + 1 /\ draft'.text = None /\ origin' = 0 /\ plans' \subseteq plans
      /\ UNCHANGED <<cands, lineage, active, crossed, task>>
  BY DEF DeleteDraft, review
<1>3. PICK what : what = [Idle EXCEPT !.at = "clear"]
  OBVIOUS
<1>4. what.at = "clear"
  BY <1>3 DEF Idle
<1>5. op'[t] = what /\ Apart(t) /\ op[t].at = "idle"
  BY <1>3, BeginsAt DEF DeleteDraft, IInv
<1>6. Pending'
  BY <1>4, <1>5 DEF Pending, At
<1>7. op'[t].at \in Afar
  BY <1>4, <1>5 DEF Afar
<1>8. Minds(t)'
  BY <1>7, MindsAfar
<1>9. Drafted'
  BY <1>1, <1>2 DEF Drafted, None
<1>10. Followed'
  BY <1>2, <1>6, FollowedMoves
<1> QED
  BY <1>2, <1>5, <1>6, <1>8, <1>9, <1>10, DraftMoves

\* A continuation whose activation is cleared, or is yet to come, is known.
LEMMA ClearLines ==
  ASSUME IInv, Lines, NEW t \in Clients, Clear(t)
  PROVE  Lines'
<1>1. /\ active' = 0 /\ UNCHANGED <<draft, origin, opening, cands, lineage, plans, task>>
      /\ crossed' = \/ crossed \/ (active # 0 /\ origin # 0 /\ ~opening)
                    \/ \E s \in Clients : Opens(s) /\ op[s].of # origin
  BY DEF Clear, tasks
<1>2. Apart(t) /\ Minds(t)'
  BY LeavesAt DEF Clear, Then, IInv
<1>3. Followed'
  BY <1>1 DEF Lines, Followed
<1>4. \A s \in Clients \ {t} : Opens(s) => op[s].of = origin \/ crossed'
  BY <1>1
<1> QED
  BY <1>1, <1>2, <1>3, <1>4, LinesStay

LEMMA ReviewPlanLines ==
  ASSUME IInv, Lines, NEW t \in Clients, ReviewPlan(t)
  PROVE  Lines'
<1>1. PICK what : what = [Idle EXCEPT !.at = "lineage", !.rev = draft.rev, !.text = draft.text,
                                      !.base = files]
  OBVIOUS
<1>2. what.at = "lineage" /\ what.rev = draft.rev
  BY <1>1 DEF Idle
<1>3. op'[t] = what /\ Apart(t) /\ op[t].at = "idle"
  BY <1>1, BeginsAt DEF ReviewPlan, IInv
<1>4. UNCHANGED <<draft, origin, opening, cands, active, lineage, crossed, plans, task>>
  BY DEF ReviewPlan, review, tasks
<1>5. draft.rev <= draft.rev
  BY DEF IInv, Typed
<1>6. Minds(t)'
  BY <1>2, <1>3, <1>4, <1>5 DEF Minds, Opens, OfContinuation
<1> QED
  BY <1>3, <1>4, <1>6, LinesPlain

\* What a review finds is the lineage of the draft, if that is still the one.
LEMMA FindsLines ==
  ASSUME IInv, Lines, NEW t \in Clients, NEW of \in {0} \cup DOMAIN cands,
         op[t].at \in {"lineage", "lineage active"},
         op' = [op EXCEPT ![t].at = "save plan", ![t].of = of],
         UNCHANGED <<draft, origin, opening, cands, active, lineage, plans, task>>,
         crossed => crossed', op[t].rev = draft.rev => of = origin \/ crossed'
  PROVE  Lines'
<1>1. PICK r : r = op[t].rev
  OBVIOUS
<1>2. op'[t].at = "save plan" /\ op'[t].of = of /\ op'[t].rev = r /\ Apart(t)
  BY <1>1 DEF IInv, Typed, Threads, Apart
<1>3. r <= draft.rev
  BY <1>1 DEF Lines, Minds, Looks
<1>4. Minds(t)'
  BY <1>1, <1>2, <1>3 DEF Minds, Opens, OfContinuation
<1> QED
  BY <1>2, <1>4, LinesPlain

LEMMA FindLineageLines ==
  ASSUME IInv, Lines, NEW t \in Clients, FindLineage(t)
  PROVE  Lines'
<1>1. op[t].at = "lineage"
      /\ UNCHANGED <<draft, origin, opening, cands, active, lineage, crossed, plans, task>>
  BY DEF FindLineage, At, review, tasks
<1>2. ASSUME NEW x \in lineage, x[1] = op[t].rev,
             op' = [op EXCEPT ![t].at = "save plan", ![t].of = x[2]]
      PROVE  Lines'
  <2>1. PICK of : of = x[2]
    OBVIOUS
  <2>2. of \in DOMAIN cands /\ (op[t].rev = draft.rev => of = origin \/ crossed)
    BY <1>2, <2>1 DEF Lines, Followed
  <2> QED
    BY <1>1, <1>2, <2>1, <2>2, FindsLines
<1>3. CASE Goes(t, "lineage active")
  <2>1. PICK r : r = op[t].rev
    OBVIOUS
  <2>2. op'[t].at = "lineage active" /\ op'[t].rev = r /\ Apart(t)
    BY <1>3, <2>1, GoesAt DEF IInv
  <2>3. r <= draft.rev
    BY <1>1, <2>1 DEF Lines, Minds, Looks
  <2>4. Minds(t)'
    BY <1>1, <2>2, <2>3 DEF Minds, Opens, OfContinuation
  <2> QED
    BY <1>1, <2>2, <2>4, LinesPlain
<1> QED
  BY <1>2, <1>3 DEF FindLineage

\* A draft with an origin is opening, or its continuation is active.
LEMMA FindActiveLines ==
  ASSUME IInv, Lines, NEW t \in Clients, FindActive(t)
  PROVE  Lines'
<1>1. /\ op[t].at = "lineage active" /\ crossed' = (crossed \/ Meets(t) \/ Misses(t))
      /\ op' = [op EXCEPT ![t].at = "save plan", ![t].of = active]
      /\ UNCHANGED <<draft, origin, opening, cands, active, lineage, plans, task>>
  BY DEF FindActive, At, review, tasks
<1>2. op[t].rev = draft.rev => active = origin \/ crossed'
  BY <1>1 DEF Lines, Followed, Meets, Misses, Pending
<1>3. active \in {0} \cup DOMAIN cands
  BY DEF Lines, Followed
<1> QED
  BY <1>1, <1>2, <1>3, FindsLines

LEMMA SavePlanLines ==
  ASSUME IInv, Lines, NEW t \in Clients, SavePlan(t)
  PROVE  Lines'
<1>1. PICK of, r : of = op[t].of /\ r = op[t].rev
  OBVIOUS
<1>2. PICK p : /\ p = Plan(IF of = 0 THEN "task" ELSE "continuation",
                           op[t].text, r, op[t].base, of)
               /\ plans' = plans \cup {p}
  BY <1>1 DEF SavePlan
<1>3. op[t].at = "save plan" /\ UNCHANGED <<draft, origin, opening, cands, active, lineage, crossed, task>>
  BY DEF SavePlan, At
<1>4. /\ of \in {0} \cup DOMAIN cands /\ r <= draft.rev
      /\ r = draft.rev => of = origin \/ crossed
  BY <1>1, <1>3 DEF Lines, Minds, Opens, Looks
<1>5. /\ p.kind = IF of = 0 THEN "task" ELSE "continuation"
      /\ p.rev = r /\ p.of = of
  BY <1>2 DEF Plan
<1>6. Fits(p)' /\ Parented(p)'
  BY <1>3, <1>4, <1>5 DEF Fits, Parented
<1>7. Apart(t) /\ Minds(t)'
  BY LeavesAt DEF SavePlan, Then, IInv
<1> QED
  BY <1>2, <1>3, <1>6, <1>7, LinesPlain

----------------------------------------------------------------------------
(* A task is run; the project is edited; the service dies.                 *)

\* Steps that no thread takes.
LEMMA LinesRest ==
  ASSUME Lines, UNCHANGED <<draft, origin, opening, cands, active, lineage, op>>, crossed => crossed',
         \A p \in plans' \cup {task'.plan} :
           p \in plans \cup {task.plan} \/ (Fits(p)' /\ Parented(p)')
  PROVE  Lines'
<1>1. \A p : Fits(p) => Fits(p)'
  BY DEF Fits
<1>2. \A p : Parented(p) => Parented(p)'
  BY DEF Parented
<1>3. Planned'
  BY <1>1, <1>2 DEF Lines, Planned, Chained
<1>4. Drafted' /\ Followed' /\ (Pending' <=> Pending)
  BY DEF Lines, Drafted, Followed, Pending, At
<1>5. ASSUME NEW s \in Clients PROVE Minds(s)'
  <2>1. PICK c, p : c = op[s].of /\ p = op[s].plan
    OBVIOUS
  <2>2. OwnDraft(c)' = OwnDraft(c)
    BY DEF OwnDraft, RootOf
  <2> QED
    BY <1>1, <1>2, <1>4, <2>1, <2>2 DEF Lines, Minds, Opens
<1> QED
  BY <1>3, <1>4, <1>5 DEF Lines

LEMMA NoTaskFits ==
  ASSUME IInv, Lines, UNCHANGED draft
  PROVE  Fits(NoTask.plan)' /\ Parented(NoTask.plan)'
<1>1. draft.rev \in Int /\ draft.rev >= 1
  BY DEF IInv, Typed, Lines, Drafted
<1>2. NoTask.plan.kind = "task" /\ NoTask.plan.rev = 0 /\ NoTask.plan.of = 0
  BY DEF NoTask, NoPlan, Plan
<1> QED
  BY <1>1, <1>2 DEF Fits, Parented

LEMMA PrepareLines ==
  ASSUME IInv, Lines, Prepare
  PROVE  Lines'
<1>1. UNCHANGED <<draft, origin, opening, cands, active, lineage, op, crossed, plans>>
  BY DEF Prepare, review
<1>2. task'.plan = task.plan \/ task' = NoTask
  BY DEF Prepare, IInv, Typed
<1> QED
  BY <1>1, <1>2, NoTaskFits, LinesRest

\* A new candidate is built on one there was: no other has a new root.
LEMMA GenerateLines ==
  ASSUME IInv, Lines, Generate
  PROVE  Lines'
<1>1. /\ UNCHANGED <<draft, origin, opening, active, lineage, op, crossed, plans>> /\ task' = NoTask
      /\ cands' = Append(cands, task.plan) \/ UNCHANGED cands
  BY DEF Generate, review
<1>2. CASE UNCHANGED cands
  BY <1>1, <1>2, NoTaskFits, LinesRest
<1>3. CASE cands' = Append(cands, task.plan)
  <2>1. PICK n, p : n = Len(cands) /\ p = task.plan
    OBVIOUS
  <2>2. cands \in Seq(Plans) /\ p \in Plans /\ n \in Nat /\ DOMAIN cands = 1..n
    BY <2>1 DEF IInv, Typed
  <2>3. /\ cands' \in Seq(Plans) /\ Len(cands') = n + 1 /\ DOMAIN cands' = 1..(n + 1)
        /\ \A i \in 1..n : cands'[i] = cands[i]
        /\ cands'[n + 1] = p
    BY <1>3, <2>1, <2>2
  <2>4. \A i \in DOMAIN cands : i \in DOMAIN cands' /\ cands'[i] = cands[i]
    BY <2>2, <2>3
  <2>5. Fits(p) /\ Parented(p) /\ Chained(cands, n)
    BY <2>1 DEF Lines, Planned
  <2>6. \A q : (Fits(q) => Fits(q)') /\ (Parented(q) => Parented(q)')
    BY <1>1, <2>4 DEF Fits, Parented
  <2>7. Chained(cands', Len(cands'))
    <3>1. ASSUME NEW c \in 1..(n + 1), cands'[c].kind # "task"
          PROVE  cands'[c].of \in 1..(c - 1)
      <4>1. CASE c = n + 1
        <5>1. p.of \in 1..n
          BY <2>2, <2>3, <2>5, <3>1, <4>1 DEF Parented
        <5> QED
          BY <2>2, <2>3, <4>1, <5>1
      <4>2. CASE c # n + 1
        <5>1. c \in 1..n
          BY <2>2, <4>2
        <5> QED
          BY <2>3, <2>5, <3>1, <5>1 DEF Chained
      <4> QED
        BY <4>1, <4>2
    <3> QED
      BY <2>3, <3>1 DEF Chained
  <2>8. (\A c \in DOMAIN cands : Fits(cands[c]))'
    <3>1. ASSUME NEW c \in 1..(n + 1), NEW q, q = cands'[c] PROVE Fits(q)
      <4>1. CASE c = n + 1
        BY <2>3, <2>5, <3>1, <4>1
      <4>2. CASE c # n + 1
        <5>1. c \in DOMAIN cands
          BY <2>2, <4>2
        <5> QED
          BY <2>4, <3>1, <5>1 DEF Lines, Planned
      <4> QED
        BY <4>1, <4>2
    <3>2. \A c \in DOMAIN cands' : \E q : q = cands'[c] /\ Fits(q)
      BY <2>3, <3>1
    <3> QED
      BY <1>1, <3>2 DEF Fits
  <2>9. Planned'
    <3>1. ASSUME NEW q \in plans' \cup {task'.plan} PROVE Fits(q)' /\ Parented(q)'
      <4>1. q \in plans \/ q = NoTask.plan
        BY <1>1
      <4> QED
        BY <1>1, <2>6, <4>1, NoTaskFits DEF Lines, Planned
    <3> QED
      BY <2>7, <2>8, <3>1 DEF Planned
  <2>10. Drafted' /\ Followed' /\ (Pending' <=> Pending)
    BY <1>1, <2>4 DEF Lines, Drafted, Followed, Pending, At
  <2>11. ASSUME NEW s \in Clients PROVE Minds(s)'
    <3>1. PICK c, q : c = op[s].of /\ q = op[s].plan
      OBVIOUS
    <3>2. Minds(s) /\ (op[s].at = "put" => c \in DOMAIN cands)
      BY <3>1 DEF Lines, Minds, Opens, OfContinuation
    <3>3. c \in DOMAIN cands => OwnDraft(c)' = OwnDraft(c)
      BY <2>1, <2>2, <2>3, <2>4, <2>5, <2>7, OwnDraftStays
    <3> QED
      BY <1>1, <2>4, <2>6, <2>10, <3>1, <3>2, <3>3 DEF Minds, Opens
  <2> QED
    BY <2>9, <2>10, <2>11 DEF Lines
<1> QED
  BY <1>1, <1>2, <1>3

LEMMA EditLines ==
  ASSUME IInv, Lines, Edit
  PROVE  Lines'
<1>1. UNCHANGED <<draft, origin, opening, cands, active, lineage, op, crossed, plans, task>>
  BY DEF Edit, review, tasks
<1> QED
  BY <1>1, LinesRest

LEMMA CrashLines ==
  ASSUME IInv, Lines, Crash
  PROVE  Lines'
<1>1. /\ UNCHANGED <<draft, origin, opening, cands, active, lineage, plans>> /\ task' = NoTask
      /\ (crossed => crossed') /\ (Pending => crossed') /\ \A s \in Clients : op'[s] = Idle
  BY DEF Crash, review, Pending
<1>2. \A p : (Fits(p) => Fits(p)') /\ (Parented(p) => Parented(p)')
  BY <1>1 DEF Fits, Parented
<1>3. Fits(NoTask.plan)' /\ Parented(NoTask.plan)'
  BY <1>1, NoTaskFits
<1>4. Planned'
  BY <1>1, <1>2, <1>3 DEF Lines, Planned, Chained
<1>5. Drafted' /\ Followed'
  BY <1>1 DEF Lines, Drafted, Followed
<1>6. ASSUME NEW s \in Clients PROVE Minds(s)'
  <2>1. op'[s].at \in Afar
    BY <1>1, IdleThread DEF Afar
  <2> QED
    BY <2>1, MindsAfar
<1> QED
  BY <1>4, <1>5, <1>6 DEF Lines

----------------------------------------------------------------------------
(* Every step.                                                             *)

LEMMA InitLines == Init => Lines
<1> SUFFICES ASSUME Init PROVE Lines
  OBVIOUS
<1>1. /\ First.kind = "task" /\ First.rev = 1 /\ First.of = 0
      /\ NoTask.plan.kind = "task" /\ NoTask.plan.rev = 0 /\ NoTask.plan.of = 0
  BY DEF First, NoTask, NoPlan, Plan
<1>2. Len(cands) = 1 /\ DOMAIN cands = 1..1 /\ cands[1] = First
  BY DEF Init
<1>3. Planned
  BY <1>1, <1>2 DEF Init, Planned, Fits, Parented, Chained
<1>4. Drafted /\ Followed
  BY DEF Init, Drafted, Followed, Words, None
<1>5. ASSUME NEW s \in Clients PROVE Minds(s)
  BY IdleThread DEF Init, Minds, Opens, Looks, OfContinuation
<1> QED
  BY <1>3, <1>4, <1>5 DEF Lines

LEMMA NextLines == IInv /\ Lines /\ [Next]_vars => Lines'
<1> SUFFICES ASSUME IInv, Lines, [Next]_vars PROVE Lines'
  OBVIOUS
<1>1. ASSUME NEW t \in Clients, Operation(t) PROVE Lines'
  BY <1>1, AcceptLines, ReadCorrectionLines, ContinueLines, SaveCorrectionLines, ApplyLines,
     SaveDraftLines, DeleteDraftLines, ReviewPlanLines, StartLines DEF Operation
<1>2. ASSUME NEW t \in Clients, Work(t) PROVE Lines'
  <2>1. CASE CheckBase(t) \/ Sign(t) \/ Ends(t) \/ Fail(t) \/ Breaks(t)
    BY <2>1, CheckBaseLines, SignLines, EndsLines, FailLines, BreaksLines
  <2>2. CASE ReserveChild(t) \/ CheckChild(t) \/ SignChild(t) \/ SaveChild(t)
    BY <2>2, ReserveChildLines, CheckChildLines, SignChildLines, SaveChildLines
  <2>3. CASE Look(t) \/ ReadDraft(t) \/ Put(t) \/ Activate(t) \/ Keep(t)
    BY <2>3, LookLines, ReadDraftLines, PutLines, ActivateLines, KeepLines
  <2>4. CASE Observe(t) \/ HandDown(t) \/ Clear(t)
    BY <2>4, ObserveLines, HandDownLines, ClearLines
  <2>5. CASE FindLineage(t) \/ FindActive(t) \/ SavePlan(t) \/ Revalidate(t) \/ ReserveTask(t)
    BY <2>5, FindLineageLines, FindActiveLines, SavePlanLines, RevalidateLines, ReserveTaskLines
  <2> QED
    BY <1>2, <2>1, <2>2, <2>3, <2>4, <2>5 DEF Work
<1>3. CASE UNCHANGED vars
  <2>1. UNCHANGED <<draft, origin, opening, cands, active, lineage, op, crossed, plans, task>>
    BY <1>3 DEF vars, review, tasks
  <2> QED
    BY <2>1, LinesRest
<1> QED
  BY <1>1, <1>2, <1>3, PrepareLines, GenerateLines, EditLines, CrashLines DEF Next

\* What every draft, plan and candidate descends from, and every thread minds.
THEOREM AlwaysLines == Spec => []Lines
BY InitLines, NextLines, AlwaysInv, PTL DEF Spec

\* continue_task and save_draft: whoever saves, deletes and continues in
\* between, a continuation replaces no words of the operator's but those its
\* own candidate was built from.
THEOREM DraftsAlwaysKept == Spec => DraftsKept
<1> DEFINE Kind == draft'.text > 0 /\ draft'.text # draft.text =>
                     draft.text = None \/ draft = OwnDraft(draft'.text)
<1>1. ASSUME IInv, Lines, [Next]_vars PROVE Kind
  <2> HIDE DEF Kind
  <2>1. CASE UNCHANGED draft
    BY <2>1 DEF Kind
  <2>2. ASSUME NEW t \in Clients, NEW text \in {Words, draft.text}, SaveDraft(t, text) PROVE Kind
    <3>1. draft'.text = text
      BY <2>2 DEF SaveDraft
    <3> QED
      BY <3>1 DEF Kind, Words
  <2>3. ASSUME NEW t \in Clients, DeleteDraft(t) PROVE Kind
    <3>1. draft'.text = None
      BY <2>3 DEF DeleteDraft
    <3> QED
      BY <3>1 DEF Kind, None
  <2>4. ASSUME NEW t \in Clients, Put(t) PROVE Kind
    <3>1. CASE draft.rev = op[t].rev /\ draft' = [rev |-> draft.rev + 1, text |-> op[t].of]
      <4>1. PICK c : c = op[t].of /\ c = draft'.text
        BY <3>1
      <4>2. draft.text = None \/ draft = OwnDraft(c)
        BY <1>1, <2>4, <3>1, <4>1 DEF Put, At, Lines, Minds, Opens
      <4> QED
        BY <4>1, <4>2 DEF Kind
    <3> QED
      BY <2>1, <2>4, <3>1 DEF Put
  <2>5. ASSUME NEW t \in Clients, Operation(t) PROVE Kind
    <3>1. ASSUME NEW r \in Requests, NEW c \in Candidates,
                 Accept(t, r, c) \/ ReadCorrection(t, r, c) \/ Continue(t, r, c)
          PROVE  UNCHANGED draft
      BY <3>1 DEF Accept, ReadCorrection, Continue, tasks
    <3>2. ASSUME NEW c \in Candidates, SaveCorrection(t, c) \/ Apply(t, c)
          PROVE  UNCHANGED draft
      BY <3>2 DEF SaveCorrection, Apply, tasks
    <3>3. ReviewPlan(t) => UNCHANGED draft
      BY DEF ReviewPlan, tasks
    <3>4. \A p \in plans : Start(t, p) => UNCHANGED draft
      BY DEF Start, tasks
    <3> QED
      BY <2>1, <2>2, <2>3, <2>5, <3>1, <3>2, <3>3, <3>4 DEF Operation
  <2>6. ASSUME NEW t \in Clients, Work(t) PROVE Kind
    <3>1. CASE CheckBase(t) \/ Sign(t) \/ Ends(t) \/ Fail(t) \/ Breaks(t)
      BY <2>1, <3>1 DEF CheckBase, Sign, Ends, Fail, Breaks, tasks
    <3>2. CASE ReserveChild(t) \/ CheckChild(t) \/ SignChild(t) \/ SaveChild(t)
      BY <2>1, <3>2 DEF ReserveChild, CheckChild, SignChild, SaveChild, tasks
    <3>3. CASE Look(t) \/ ReadDraft(t) \/ Activate(t) \/ Keep(t)
      BY <2>1, <3>3 DEF Look, ReadDraft, Activate, Keep, tasks
    <3>4. CASE Observe(t) \/ HandDown(t) \/ Clear(t) \/ FindLineage(t) \/ FindActive(t)
      BY <2>1, <3>4 DEF Observe, HandDown, Clear, FindLineage, FindActive, tasks
    <3>5. CASE SavePlan(t) \/ Revalidate(t) \/ ReserveTask(t)
      BY <2>1, <3>5 DEF SavePlan, Revalidate, ReserveTask, tasks
    <3> QED
      BY <2>4, <2>6, <3>1, <3>2, <3>3, <3>4, <3>5 DEF Work
  <2>7. Prepare \/ Generate \/ Edit \/ Crash \/ UNCHANGED vars => UNCHANGED draft
    BY DEF Prepare, Generate, Edit, Crash, vars, tasks
  <2> QED
    BY <1>1, <2>1, <2>5, <2>6, <2>7 DEF Next
<1>2. Spec => [][Kind]_vars
  <2> HIDE DEF Kind
  <2> QED
    BY <1>1, AlwaysInv, AlwaysLines, PTL DEF Spec
<1> QED
  BY <1>2 DEF DraftsKept

----------------------------------------------------------------------------
(* Who starts a task.                                                      *)

LEMMA WorkApart ==
  ASSUME Typed, NEW t \in Clients, Work(t)
  PROVE  Apart(t) /\ op[t].at # "idle"
<1>1. CASE CheckBase(t) \/ Sign(t) \/ Ends(t) \/ Fail(t) \/ Breaks(t)
  <2>1. \E step : Goes(t, step) \/ Raises(t) \/ Done(t)
    BY <1>1 DEF CheckBase, Sign, Ends, Fail, Breaks, Then
  <2>2. op[t].at # "idle"
    BY <1>1 DEF CheckBase, Sign, Ends, Fail, Breaks, At, Writes
  <2> QED
    BY <2>1, <2>2, GoesAt, LeavesAt
<1>2. CASE CheckChild(t) \/ SignChild(t) \/ SaveChild(t) \/ Look(t) \/ Activate(t) \/ Keep(t)
  <2>1. \E step : Goes(t, step) \/ Raises(t) \/ Done(t)
    BY <1>2 DEF CheckChild, SignChild, SaveChild, Look, Activate, Keep, Then
  <2>2. op[t].at # "idle"
    BY <1>2 DEF CheckChild, SignChild, SaveChild, Look, Activate, Keep, At
  <2> QED
    BY <2>1, <2>2, GoesAt, LeavesAt
<1>3. CASE HandDown(t) \/ Clear(t) \/ SavePlan(t) \/ Revalidate(t) \/ ReserveTask(t)
  <2>1. \E step : Goes(t, step) \/ Raises(t) \/ Done(t)
    BY <1>3 DEF HandDown, Clear, SavePlan, Revalidate, ReserveTask, Then
  <2>2. op[t].at # "idle"
    BY <1>3 DEF HandDown, Clear, SavePlan, Revalidate, ReserveTask, At
  <2> QED
    BY <2>1, <2>2, GoesAt, LeavesAt
<1>4. CASE ReserveChild(t) \/ ReadDraft(t) \/ Put(t) \/ Observe(t) \/ FindLineage(t) \/ FindActive(t)
  <2>1. \/ \E step : Goes(t, step) \/ Raises(t) \/ Done(t)
        \/ \E step, new : op' = [op EXCEPT ![t].at = step, ![t].new = new]
        \/ \E step, n : \/ op' = [op EXCEPT ![t].at = step, ![t].rev = n]
                       \/ op' = [op EXCEPT ![t].at = step, ![t].text = n]
                       \/ op' = [op EXCEPT ![t].at = step, ![t].of = n]
    BY <1>4, Zenon DEF ReserveChild, ReadDraft, Put, Observe, FindLineage, FindActive, Then
  <2>2. op[t].at # "idle"
    BY <1>4 DEF ReserveChild, ReadDraft, Put, Observe, FindLineage, FindActive, At
  <2>3. CASE \E step : Goes(t, step) \/ Raises(t) \/ Done(t)
    BY <2>2, <2>3, GoesAt, LeavesAt
  <2> QED
    BY <2>1, <2>2, <2>3 DEF Typed, Apart
<1> QED
  BY <1>1, <1>2, <1>3, <1>4 DEF Work

LEMMA OperationApart ==
  ASSUME Typed, NEW t \in Clients, Operation(t)
  PROVE  /\ Apart(t)
         /\ op'[t].at = "revalidate" => \E p \in plans : Start(t, p) /\ op'[t].plan = p
<1>1. ASSUME NEW what, Begins(t, what), what.at # "revalidate"
      PROVE  Apart(t) /\ op'[t].at # "revalidate"
  BY <1>1, BeginsAt
<1>2. Idle.at = "idle"
  BY DEF Idle
<1>3. ASSUME NEW r, NEW c, Accept(t, r, c) \/ ReadCorrection(t, r, c) \/ Continue(t, r, c)
      PROVE  Apart(t) /\ op'[t].at # "revalidate"
  <2>1. ASSUME NEW step, NEW body, NEW new, Begins(t, Thread(step, r, body, new)),
               step # "revalidate"
        PROVE  Apart(t) /\ op'[t].at # "revalidate"
    <3>1. PICK what : what = Thread(step, r, body, new)
      OBVIOUS
    <3>2. what.at = step
      BY <3>1 DEF Thread, Idle
    <3> QED
      BY <1>1, <2>1, <3>1, <3>2
  <2>2. CASE Accept(t, r, c)
    <3>1. Begins(t, Thread("check", r, Body("review", c, 0), TRUE))
      BY <2>2 DEF Accept
    <3> QED
      BY <2>1, <3>1
  <2>3. CASE ReadCorrection(t, r, c)
    <3>1. Begins(t, Thread("reserve child", r, Body("child", c, correction[c]), FALSE))
      BY <2>3 DEF ReadCorrection
    <3> QED
      BY <2>1, <3>1
  <2>4. CASE Continue(t, r, c)
    <3>1. PICK new : Begins(t, Thread("look", r, Body("continuation", c, 0), new))
      BY <2>4 DEF Continue
    <3> QED
      BY <2>1, <3>1
  <2> QED
    BY <1>3, <2>2, <2>3, <2>4
<1>4. ASSUME NEW c, SaveCorrection(t, c) \/ Apply(t, c)
      PROVE  Apart(t) /\ op'[t].at # "revalidate"
  BY <1>1, <1>2, <1>4 DEF SaveCorrection, Apply
<1>5. ASSUME NEW text, SaveDraft(t, text)
      PROVE  Apart(t) /\ op'[t].at # "revalidate"
  <2>1. PICK what : what = [Idle EXCEPT !.at = "observe", !.rev = draft.rev + 1]
    OBVIOUS
  <2>2. what.at = "observe" /\ Begins(t, what)
    BY <1>5, <2>1 DEF Idle, SaveDraft
  <2> QED
    BY <1>1, <2>2
<1>6. CASE DeleteDraft(t)
  <2>1. PICK what : what = [Idle EXCEPT !.at = "clear"]
    OBVIOUS
  <2>2. what.at = "clear" /\ Begins(t, what)
    BY <1>6, <2>1 DEF Idle, DeleteDraft
  <2> QED
    BY <1>1, <2>2
<1>7. CASE ReviewPlan(t)
  <2>1. PICK what : what = [Idle EXCEPT !.at = "lineage", !.rev = draft.rev, !.text = draft.text,
                                        !.base = files]
    OBVIOUS
  <2>2. what.at = "lineage" /\ Begins(t, what)
    BY <1>7, <2>1 DEF Idle, ReviewPlan
  <2> QED
    BY <1>1, <2>2
<1>8. ASSUME NEW p \in plans, Start(t, p)
      PROVE  Apart(t) /\ op'[t].plan = p
  <2>1. PICK what : what = [Idle EXCEPT !.at = "revalidate", !.plan = p]
    OBVIOUS
  <2>2. what.plan = p /\ Begins(t, what)
    BY <1>8, <2>1 DEF Idle, Start
  <2> QED
    BY <2>2, BeginsAt
<1> QED
  BY <1>3, <1>4, <1>5, <1>6, <1>7, <1>8 DEF Operation

\* candidate_review._transform_plan, _draft_saved and _draft_deleted: whatever
\* is saved, deleted, continued and reviewed before, a task is started with
\* the lineage of the draft, neither one that was lost nor one of another.
THEOREM LineageAlwaysTrue == Spec => LineageTrue
<1> DEFINE Carried == \A t \in Clients : At(t, "idle") /\ At(t, "revalidate")' =>
                        LET p == op'[t].plan
                        IN  p.kind # "refinement" => p.of = origin \/ crossed
<1>1. ASSUME IInv, Lines, [Next]_vars PROVE Carried
  <2> SUFFICES ASSUME NEW t \in Clients, op[t].at = "idle", op'[t].at = "revalidate",
                      op'[t].plan.kind # "refinement"
               PROVE  op'[t].plan.of = origin \/ crossed
    BY DEF At
  <2>1. op'[t] # op[t]
    OBVIOUS
  <2>2. PICK s \in Clients : Operation(s) \/ Work(s)
    <3>1. Prepare \/ Generate \/ Edit \/ UNCHANGED vars => UNCHANGED op
      BY DEF Prepare, Generate, Edit, vars, tasks, review
    <3>2. ~Crash
      BY IdleThread DEF Crash
    <3> QED
      BY <1>1, <2>1, <3>1, <3>2 DEF Next
  <2>3. Apart(s) /\ (s = t => Operation(t))
    BY <1>1, <2>2, WorkApart, OperationApart DEF IInv
  <2>4. s = t
    BY <2>1, <2>3 DEF Apart
  <2>5. PICK p \in plans : Start(t, p) /\ op'[t].plan = p
    BY <1>1, <2>3, <2>4, OperationApart DEF IInv
  <2>6. Fits(p) /\ p.rev = draft.rev
    BY <1>1, <2>5 DEF Lines, Planned, Start, Current
  <2> QED
    BY <2>5, <2>6 DEF Fits
<1>2. Spec => [][Carried]_vars
  <2> HIDE DEF Carried
  <2> QED
    BY <1>1, AlwaysInv, AlwaysLines, PTL DEF Spec
<1> QED
  BY <1>2 DEF LineageTrue

=============================================================================
