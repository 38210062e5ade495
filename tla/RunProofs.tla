------------------------------ MODULE RunProofs ------------------------------
(***************************************************************************)
(* What the receipts of a run promise: an operator's command reaches the   *)
(* first prompt it fits, what was acknowledged is settled once before the  *)
(* seal, a run is abandoned as it was confirmed, Fleet shows what the      *)
(* receipts say, and a run in which nothing fails is not left undecided.   *)
(* For every mode, window and budget, any number of commands, defects and  *)
(* faults.                                                                 *)
(***************************************************************************)
EXTENDS RunProperties, FiniteSetTheorems, SequenceTheorems, WellFoundedInduction, TLAPS

----------------------------------------------------------------------------
(* The inductive invariant.                                                *)

Kinds ==
  OfAttempt \cup
  {"run_attested", "run_planned", "repair_routed", "action_opened",
   "terminalization_started", "context_injected", "command_unapplied",
   "run_replanned", "command_accepted", "command_rejected", "action_resolved",
   "run_decision", "run_abandoned"}
Writers == {"orchestrator", "operator_gateway", "supervisor", "recovery"}
LaneNames == CoreLanes \cup ConditionalLanes \cup {"lead", "none"}
Words ==
  Cmds \cup
  {"none", "live", "dry_run", "completed", "blocked", "failed", "approval",
   "awaiting_approval", "approved", "rejected", "escalation", "dispatched"}
Receipts ==
  [t : Kinds, who : Writers, lane : LaneNames, at : Int, of : Int, say : Words]

Typed ==
  /\ log \in Seq(Receipts)
  /\ stage = [lane |-> stage.lane, at |-> stage.at, of |-> stage.of, reply |-> stage.reply]
  /\ stage.lane \in LaneNames /\ stage.at \in Int /\ stage.of \in Int
  /\ gate \in [cmd : Words, lane : LaneNames]
  /\ confirm = [seq |-> confirm.seq, at |-> confirm.at, gen |-> confirm.gen]
  /\ confirm.at \in Int

\* No attempt a is sent over a command of l that it should have had.
Reached(l, a) ==
  \A i \in Commands(l) :
    i < a /\ l[i].lane \in {"lead", l[a].lane} =>
      \E j \in Finals(l, i) : l[j].at # 0 /\ l[j].at <= a

\* What receipts speak of is there; a command is known once, applied or dropped
\* once, and before a decision; an attempt ends once; the operator completes
\* what was approved.
LogInv(l) ==
  /\ \A i \in All(l, {"stage_dispatch_started", "context_injected"}) : l[i].at \in Attempts(l)
  /\ \A j \in All(l, {"context_injected", "command_unapplied"}) : l[j].of \in Commands(l)
  /\ All(l, {"command_unapplied"}) # {} => Terminating(l)
  /\ \A i \in Commands(l) : \A j, k \in Finals(l, i) : j = k
  /\ \A a \in Attempts(l) : Dispatched(l, a) => Reached(l, a)
  /\ \A i, j \in All(l, {"command_accepted", "command_rejected"}) : l[i].say = l[j].say => i = j
  /\ Decided(l) => PendingCommands(l) = {}
  /\ \A i, j \in All(l, AttemptEnds) : l[i].at = l[j].at => i = j
  /\ \A j \in All(l, {"action_resolved"}) :
       l[j].say \in DOMAIN OutcomeMap /\ l[j].of \in All(l, {"action_opened"})
  /\ \A d \in All(l, {"run_decision"}) :
       l[d].who = "operator_gateway" /\ l[d].say = "completed" =>
         l[d].of \in All(l, {"action_resolved"}) /\ l[l[d].of].say = "approved"

\* Where the engine is about the newest attempt.
Prepared == {"preflight", "block", "consume", "start", "call", "complete",
             "route", "unsent", "sent"}
Ahead ==
  /\ pc \in Prepared =>
       /\ stage.at \in Attempts(log) /\ log[stage.at].lane = stage.lane
       /\ \A a \in Attempts(log) : a <= stage.at
  /\ pc = "start" => Eligible = {}
  /\ pc \in {"call", "complete", "sent"} => Dispatched(log, stage.at)
  /\ Waiting(log) => pc \in Final

Answered == \A x \in answers : x[2] \in Commands(log) /\ log[x[2]].say = x[1]

\* What is sealed has no pending command; the supervisor seals what is decided.
Closed ==
  /\ sealed => PendingCommands(log) = {}
  /\ watch = "seal" => Decided(log)

\* What a live run has behind it: the latest attempt of a lane completed.
Done(l, lane) == LastAttempt(l, lane) # 0 /\ EndOf(l, LastAttempt(l, lane)) = "stage_completed"
Before ==
  [g1d |-> {}, g1r |-> {"g1d"}, builder |-> {"g1d", "g1r"},
   g2a |-> CoreLanes \ {"g2a"}, refine_bug |-> CoreLanes \ {"g2a"},
   refine_ui |-> CoreLanes \ {"g2a"}]
Audits(l) ==
  /\ \A lane \in CoreLanes : Done(l, lane)
  /\ \A lane \in ConditionalLanes : LastAttempt(l, lane) < LastAttempt(l, "g2a")
Course ==
  /\ pc \in Prepared \cup {"create", "repair"} =>
       /\ stage.lane \in DOMAIN Before
       /\ \A lane \in Before[stage.lane] : Done(log, lane)
  /\ pc = "repair" => stage.lane \in ConditionalLanes
  /\ pc = "route" =>
       EndOf(log, stage.at) = IF stage.lane \in Reviews /\ ~Approves(stage.reply)
                              THEN "stage_rejected" ELSE "stage_completed"
  /\ pc = "approval" => Audits(log)
  /\ pc = "completed" => ~Live(log)
  /\ All(log, {"action_opened"}) # {} => pc \in {"await"} \cup Final
  /\ \A i \in All(log, {"action_opened"}) : log[i].say = "escalation" \/ Audits(log)
  /\ \A d \in All(log, {"run_decision"}) :
       log[d].say = "completed" /\ Live(log) => log[d].who = "operator_gateway"

\* The window: what is used covers what was sent, and what is held has a stage.
Broke == {a \in Sent : EndOf(log, a) \in {"stage_failed", "stage_interrupted"}}
Spend ==
  /\ used \in Int /\ held \in Nat /\ earlier \in Int
  /\ Covered =>
       /\ used <= Limit
       /\ pc = "consume" => used + Projected <= Limit
       /\ pc = "start" => used >= earlier + Cardinality(Sent) + Projected /\ held > 0
       /\ pc \in {"call", "complete"} =>
            used + 1 >= earlier + Cardinality(Sent) + Projected /\ held > 0
       /\ pc \in {"start", "call", "complete", "sent"} => held <= Cardinality(Broke) + 1
       /\ pc \notin {"start", "call", "complete", "sent", "broken", "dead"} =>
            held <= Cardinality(Broke)
       /\ pc \notin {"start", "call", "complete", "broken", "dead"} /\ (pc = "unsent" => broker) =>
            used >= earlier + Cardinality(Sent)

IInv == Typed /\ LogInv(log) /\ Ahead /\ Answered /\ Closed /\ Course

----------------------------------------------------------------------------
(* Naturals: a set has a least member, a bounded one a greatest.           *)

LEMMA LessIsWellFounded ==
  \E R : IsWellFoundedOn(R, Nat) /\ \A x, y \in Nat : <<x, y>> \in R <=> x < y
<1>1. \A x, y \in Nat : <<x, y>> \in OpToRel(<, Nat) <=> x < y
  BY DEF OpToRel
<1> QED
  BY <1>1, NatLessThanWellFounded

LEMMA Least ==
  ASSUME NEW S, S \subseteq Nat, S # {}
  PROVE  \E x \in S : \A y \in S : x <= y
<1>1. PICK R : IsWellFoundedOn(R, Nat) /\ \A x, y \in Nat : <<x, y>> \in R <=> x < y
  BY LessIsWellFounded
<1>2. IsWellFoundedOn(R, Nat)
  BY <1>1
<1>3. PICK x \in S : \A y \in S : ~(<<y, x>> \in R)
  BY <1>2, WFMin, Zenon
<1>4. ASSUME NEW y \in S PROVE x <= y
  <2>1. x \in Nat /\ y \in Nat
    OBVIOUS
  <2>2. <<y, x>> \in R <=> y < x
    BY <1>1, <2>1
  <2>3. ~(y < x)
    BY <1>3, <2>2
  <2> QED
    BY <2>1, <2>3
<1> QED
  BY <1>4

LEMMA Greatest ==
  ASSUME NEW n \in Nat, NEW S, S \subseteq 0..n, S # {}
  PROVE  Max(S) \in S /\ \A y \in S : y <= Max(S)
<1> DEFINE T == {k \in 0..n : n - k \in S}
<1>1. T \subseteq Nat /\ T # {}
  <2>1. T \subseteq Nat
    OBVIOUS
  <2>2. PICK y \in S : y \in 0..n
    OBVIOUS
  <2>3. n - y \in 0..n /\ n - (n - y) \in S
    BY <2>2
  <2>4. n - y \in T
    BY <2>3
  <2> QED
    BY <2>1, <2>4
<1>2. PICK k \in T : \A m \in T : k <= m
  BY <1>1, Least
<1>3. \A y \in S : y <= n - k
  <2>1. \A y \in S : n - y \in 0..n /\ n - (n - y) = y
    OBVIOUS
  <2> QED
    BY <1>2, <2>1
<1>4. \E x \in S : \A y \in S : x >= y
  BY <1>2, <1>3
<1>5. Max(S) \in S /\ \A y \in S : Max(S) >= y
  BY <1>4 DEF Max
<1> QED
  BY <1>5

\* The members of a finite set of numbers can be counted off.
LEMMA NthMember ==
  ASSUME NEW m \in Nat, NEW S, \A y \in S : y \in 1..m,
         NEW n \in Nat \ {0}, n <= Cardinality(S)
  PROVE  Nth(S, n) \in S /\ Cardinality({y \in S : y < Nth(S, n)}) = n - 1
<1> DEFINE Below(k) == {y \in S : y < k}
           T == {k \in Nat : Cardinality(Below(k)) >= n}
<1>0. IsFiniteSet(S) /\ \A k \in Nat : IsFiniteSet(Below(k))
  <2>1. IsFiniteSet(1..m)
    BY FS_Interval
  <2>2. IsFiniteSet(S)
    <3>1. S \subseteq 1..m
      OBVIOUS
    <3> QED
      BY <2>1, <3>1, FS_Subset
  <2>3. \A k : Below(k) \subseteq S
    OBVIOUS
  <2> HIDE DEF Below
  <2> QED
    BY <2>2, <2>3, FS_Subset
<1>s. \A y \in S : y \in Nat /\ 1 <= y /\ y <= m
  OBVIOUS
<1>1. \A k \in Nat : Cardinality(Below(k)) \in Nat
  BY <1>0, FS_CardinalityType
<1>2. m + 1 \in T
  <2>1. Below(m + 1) = S
    BY <1>s DEF Below
  <2>2. Cardinality(S) \in Nat /\ n <= Cardinality(S)
    BY <1>0, FS_CardinalityType
  <2> QED
    BY <2>1, <2>2
<1>3. PICK k \in T : \A j \in T : k <= j
  <2> HIDE DEF T
  <2>1. T \subseteq Nat
    BY DEF T
  <2> QED
    BY <1>2, <2>1, Least
<1>4. k # 0
  <2>1. Below(0) = {}
    BY <1>s DEF Below
  <2>2. Cardinality(Below(0)) = 0
    BY <2>1, FS_EmptySet
  <2> QED
    BY <1>3, <2>2
<1>5. k - 1 \in Nat /\ Cardinality(Below(k - 1)) < n
  <2>1. k - 1 \in Nat
    BY <1>3, <1>4
  <2> QED
    BY <1>1, <1>3, <2>1
<1>6. k - 1 \in S /\ Cardinality(Below(k)) = Cardinality(Below(k - 1)) + 1
  <2>1. CASE k - 1 \in S
    <3>1. Below(k) = Below(k - 1) \cup {k - 1} /\ k - 1 \notin Below(k - 1)
      BY <1>s, <1>3, <1>5, <2>1 DEF Below, T
    <3>2. Cardinality(Below(k - 1) \cup {k - 1}) = Cardinality(Below(k - 1)) + 1
      <4> HIDE DEF Below
      <4> QED
        BY <1>0, <1>5, <3>1, FS_AddElement
    <3> QED
      BY <2>1, <3>1, <3>2
  <2>2. CASE k - 1 \notin S
    <3>1. Below(k) = Below(k - 1)
      BY <1>s, <1>3, <1>5, <2>2 DEF Below, T
    <3> QED
      BY <1>3, <1>5, <3>1
  <2> QED
    BY <2>1, <2>2
<1>7. Cardinality({y \in S : y < k - 1}) = n - 1
  BY <1>1, <1>3, <1>5, <1>6
<1> QED
  BY <1>6, <1>7 DEF Nth

\* Induction, for a set of numbers.
LEMMA Reaches ==
  ASSUME NEW n \in Nat, NEW S, 0 \in S, \A k \in 0..(n - 1) : k \in S => k + 1 \in S
  PROVE  n \in S
<1> SUFFICES ASSUME n \notin S PROVE FALSE
  OBVIOUS
<1> DEFINE T == {k \in 0..n : k \notin S}
<1>1. T \subseteq Nat /\ n \in T
  OBVIOUS
<1>2. PICK k \in T : \A j \in T : k <= j
  <2> HIDE DEF T
  <2> QED
    BY <1>1, Least
<1>3. k # 0 /\ k \in 0..n /\ k \notin S
  OBVIOUS
<1>4. k - 1 \in 0..(n - 1) /\ k - 1 + 1 = k
  BY <1>3
<1>5. k - 1 \in S
  BY <1>2, <1>4
<1> QED
  BY <1>3, <1>4, <1>5

----------------------------------------------------------------------------
(* How an attempt ended.                                                   *)

LEMMA NewestIs ==
  ASSUME NEW l \in Seq(Receipts), NEW S, \A i \in S : i \in DOMAIN l, S # {}
  PROVE  Max(S) \in S /\ \A i \in S : i <= Max(S)
<1>1. Len(l) \in Nat /\ DOMAIN l = 1..Len(l)
  BY LenProperties
<1>2. S \subseteq 0..Len(l)
  BY <1>1
<1> QED
  BY <1>1, <1>2, Greatest

LEMMA EndIs ==
  ASSUME NEW l \in Seq(Receipts), NEW i \in All(l, AttemptEnds),
         \A j \in All(l, AttemptEnds) : l[j].at = l[i].at => j = i
  PROVE  EndOf(l, l[i].at) = l[i].t /\ l[i].t \in AttemptEnds
<1> DEFINE ends == {j \in All(l, AttemptEnds) : l[j].at = l[i].at}
<1>1. i \in ends /\ \A j \in ends : j = i
  OBVIOUS
<1>2. \A j \in ends : j \in DOMAIN l
  BY DEF All
<1>3. Max(ends) = i /\ ends # {}
  <2> HIDE DEF ends
  <2> QED
    BY <1>1, <1>2, NewestIs
<1> QED
  BY <1>3 DEF EndOf, All

\* An attempt that has an end is not open, one that is has none.
LEMMA EndFound ==
  ASSUME NEW l \in Seq(Receipts), NEW a
  PROVE  /\ EndOf(l, a) = "open" =>
              All(l, {"run_abandoned"}) = {} /\ \A j \in All(l, AttemptEnds) : l[j].at # a
         /\ EndOf(l, a) \in AttemptEnds =>
              \E j \in All(l, AttemptEnds) : l[j].at = a /\ EndOf(l, a) = l[j].t
<1> DEFINE ends == {j \in All(l, AttemptEnds) : l[j].at = a}
<1>1. \A j \in ends : j \in DOMAIN l /\ j \in All(l, AttemptEnds) /\ l[j].at = a
  BY DEF All
<1>2. ASSUME ends # {}
      PROVE  Max(ends) \in All(l, AttemptEnds) /\ l[Max(ends)].at = a /\ EndOf(l, a) = l[Max(ends)].t
  <2>1. Max(ends) \in ends
    <3> HIDE DEF ends
    <3> QED
      BY <1>1, <1>2, NewestIs
  <2>2. EndOf(l, a) = l[Max(ends)].t
    BY <1>2 DEF EndOf
  <2> QED
    BY <1>1, <2>1, <2>2
<1>3. ASSUME ends = {}
      PROVE  EndOf(l, a) \notin AttemptEnds /\ (EndOf(l, a) = "open" => All(l, {"run_abandoned"}) = {})
  BY <1>3 DEF EndOf, AttemptEnds
<1>4. \A j \in All(l, AttemptEnds) : l[j].t \in AttemptEnds
  BY DEF All
<1>5. "open" \notin AttemptEnds
  BY DEF AttemptEnds
<1> QED
  BY <1>2, <1>3, <1>4, <1>5

----------------------------------------------------------------------------
(* A receipt more.                                                         *)

LEMMA Longer ==
  ASSUME NEW l \in Seq(Receipts), NEW r \in Receipts
  PROVE  LET m == Append(l, r) IN
         /\ m \in Seq(Receipts) /\ Len(l) \in Nat /\ Len(m) = Len(l) + 1
         /\ DOMAIN m = DOMAIN l \cup {Len(l) + 1} /\ DOMAIN l = 1..Len(l)
         /\ \A i \in DOMAIN l : m[i] = l[i]
         /\ m[Len(l) + 1] = r
BY AppendProperties, LenProperties

LEMMA AllLonger ==
  ASSUME NEW l \in Seq(Receipts), NEW r \in Receipts, NEW ts
  PROVE  All(Append(l, r), ts) = All(l, ts) \cup (IF r.t \in ts THEN {Len(l) + 1} ELSE {})
BY Longer DEF All

LEMMA LogGrows ==
  ASSUME NEW l \in Seq(Receipts), NEW r \in Receipts, LogInv(l), Allowed(l, r),
         r.t = "stage_dispatch_started" => Reached(l, r.at)
  PROVE  LogInv(Append(l, r))
<1> DEFINE m == Append(l, r)
           n == Len(l) + 1
<1>1. /\ DOMAIN m = DOMAIN l \cup {n} /\ DOMAIN l = 1..Len(l) /\ Len(l) \in Nat
      /\ \A i \in DOMAIN l : m[i] = l[i]
      /\ m[n] = r
  BY Longer
<1>2. \A ts : All(m, ts) = All(l, ts) \cup (IF r.t \in ts THEN {n} ELSE {})
  BY AllLonger
<1>3. \A ts : All(l, ts) \subseteq DOMAIN l
  BY DEF All
<1>4. /\ Attempts(l) \subseteq Attempts(m) /\ Commands(l) \subseteq Commands(m)
      /\ Attempts(m) \subseteq Attempts(l) \cup {n} /\ Commands(m) \subseteq Commands(l) \cup {n}
  BY <1>2 DEF Attempts, Commands
<1> HIDE DEF m, n
<1>5. \A i \in All(m, {"stage_dispatch_started", "context_injected"}) : m[i].at \in Attempts(m)
  <2>1. r.t \in {"stage_dispatch_started", "context_injected"} => r.at \in Attempts(l)
    BY DEF Allowed, AttemptMoves, InjectFits, OfAttempt, OpenAttempts
  <2>2. \A i \in All(l, {"stage_dispatch_started", "context_injected"}) :
          l[i].at \in Attempts(l) /\ m[i] = l[i]
    BY <1>1, <1>3 DEF LogInv
  <2> QED
    BY <1>1, <1>2, <1>4, <2>1, <2>2
<1>6. r.t \in {"context_injected", "command_unapplied"} => r.of \in PendingCommands(l)
  BY DEF Allowed, InjectFits, UnappliedFits
<1>7. \A j \in All(m, {"context_injected", "command_unapplied"}) : m[j].of \in Commands(m)
  <2>1. \A j \in All(l, {"context_injected", "command_unapplied"}) :
          l[j].of \in Commands(l) /\ m[j] = l[j]
    BY <1>1, <1>3 DEF LogInv
  <2> QED
    BY <1>1, <1>2, <1>4, <1>6, <2>1 DEF PendingCommands
<1>8. All(m, {"command_unapplied"}) # {} => Terminating(m)
  <2>1. r.t = "command_unapplied" => Terminating(l)
    BY DEF Allowed, UnappliedFits
  <2>2. Terminating(l) => Terminating(m)
    BY <1>2 DEF Terminating
  <2> QED
    BY <1>2, <2>1, <2>2 DEF LogInv
<1>9. ASSUME NEW i
      PROVE  /\ Finals(l, i) \subseteq Finals(m, i)
             /\ Finals(m, i) \subseteq Finals(l, i) \cup {n}
             /\ n \in Finals(m, i) => i \in PendingCommands(l)
  <2>1. n \notin DOMAIN l
    BY <1>1 DEF n
  <2>2. Finals(l, i) \subseteq Finals(m, i)
    BY <1>1, <1>2, <1>3 DEF Finals
  <2>3. Finals(m, i) \subseteq Finals(l, i) \cup {n}
    BY <1>1, <1>2, <1>3 DEF Finals
  <2>4. n \in Finals(m, i) => i \in PendingCommands(l)
    BY <1>1, <1>2, <1>3, <1>6, <2>1 DEF Finals
  <2> QED
    BY <2>2, <2>3, <2>4
<1>10. \A i \in Commands(m) : \A j, k \in Finals(m, i) : j = k
  <2>1. ASSUME NEW i \in Commands(m), NEW j \in Finals(m, i), NEW k \in Finals(m, i)
        PROVE  j = k
    <3>1. CASE n \in Finals(m, i)
      <4>1. Finals(l, i) = {}
        BY <1>9, <3>1 DEF PendingCommands
      <4> QED
        BY <1>9, <4>1
    <3>2. CASE n \notin Finals(m, i)
      <4>1. j \in Finals(l, i) /\ k \in Finals(l, i)
        BY <1>9, <3>2
      <4>2. i \in Commands(l)
        BY <4>1 DEF LogInv, Finals
      <4> QED
        BY <4>1, <4>2 DEF LogInv
    <3> QED
      BY <3>1, <3>2
  <2> QED
    BY <2>1
<1>11. \A a \in Attempts(m) : Dispatched(m, a) => Reached(m, a)
  <2>1. ASSUME NEW a \in Attempts(l), Reached(l, a)
        PROVE  Reached(m, a)
    <3>1. a \in DOMAIN l /\ m[a] = l[a]
      BY <1>1, <1>3 DEF Attempts
    <3>2. ASSUME NEW i \in Commands(m), i < a, m[i].lane \in {"lead", m[a].lane}
          PROVE  \E j \in Finals(m, i) : m[j].at # 0 /\ m[j].at <= a
      <4>1. i \in Commands(l)
        BY <1>1, <1>4, <3>1, <3>2 DEF n
      <4>2. m[i] = l[i]
        BY <1>1, <1>3, <4>1 DEF Commands
      <4>3. PICK j \in Finals(l, i) : l[j].at # 0 /\ l[j].at <= a
        BY <2>1, <3>1, <3>2, <4>1, <4>2 DEF Reached
      <4>4. m[j] = l[j] /\ j \in Finals(m, i)
        BY <1>1, <1>3, <1>9, <4>3 DEF Finals
      <4> QED
        BY <4>3, <4>4
    <3> QED
      BY <3>2 DEF Reached
  <2>2. ASSUME NEW a \in Attempts(m), Dispatched(m, a)
        PROVE  a \in Attempts(l) /\ Reached(l, a)
    <3>1. PICK i \in DOMAIN m : m[i].t = "stage_dispatch_started" /\ m[i].at = a
      BY <2>2 DEF Dispatched
    <3>2. CASE i \in DOMAIN l
      <4>1. i \in All(l, {"stage_dispatch_started", "context_injected"}) /\ l[i].at = a
        BY <1>1, <3>1, <3>2 DEF All
      <4>2. a \in Attempts(l)
        BY <4>1 DEF LogInv
      <4>3. Dispatched(l, a)
        BY <1>1, <3>1, <3>2 DEF Dispatched
      <4> QED
        BY <4>2, <4>3 DEF LogInv
    <3>3. CASE i \notin DOMAIN l
      <4>1. r.t = "stage_dispatch_started" /\ r.at = a
        BY <1>1, <3>1, <3>3
      <4>2. a \in Attempts(l)
        BY <4>1 DEF Allowed, AttemptMoves, OfAttempt, OpenAttempts
      <4> QED
        BY <4>1, <4>2
    <3> QED
      BY <3>2, <3>3
  <2> QED
    BY <2>1, <2>2
<1>12. \A i, j \in All(m, {"command_accepted", "command_rejected"}) : m[i].say = m[j].say => i = j
  <2>1. r.t \in {"command_accepted", "command_rejected"} => ~Known(l, r.say)
    BY DEF Allowed, CommandOnce
  <2>2. \A i \in All(l, {"command_accepted", "command_rejected"}) : m[i] = l[i]
    BY <1>1, <1>3
  <2> QED
    BY <1>1, <1>2, <2>1, <2>2 DEF LogInv, Known
<1>13. Decided(m) => PendingCommands(m) = {}
  <2>1. ~Decided(l)
    BY DEF Allowed
  <2>2. ASSUME Decided(m)
        PROVE  r.t \in {"run_decision", "run_abandoned"} /\ r.say # "awaiting_approval"
    <3>1. PICK i \in All(m, {"run_decision", "run_abandoned"}) : m[i].say # "awaiting_approval"
      BY <2>2 DEF Decided
    <3>2. CASE i \in All(l, {"run_decision", "run_abandoned"})
      BY <1>1, <1>3, <2>1, <3>1, <3>2 DEF Decided
    <3>3. CASE i \notin All(l, {"run_decision", "run_abandoned"})
      BY <1>1, <1>2, <3>1, <3>3
    <3> QED
      BY <3>2, <3>3
  <2>3. ASSUME Decided(m) PROVE PendingCommands(l) = {}
    <3>1. CASE r.t = "run_abandoned"
      BY <3>1 DEF Allowed, Abandons
    <3>2. CASE r.t = "run_decision"
      <4>1. Authorised(r)
        BY DEF Allowed
      <4>2. r.who \in {"orchestrator", "operator_gateway", "supervisor"}
        BY <3>2, <4>1 DEF Authorised, Rules
      <4> QED
        BY <2>2, <2>3, <3>2, <4>2 DEF Allowed, OperatorDecides, SupervisorDecides, EngineDecides
    <3> QED
      BY <2>2, <2>3, <3>1, <3>2
  <2>4. ASSUME Decided(m) PROVE Commands(m) = Commands(l)
    BY <1>2, <2>2, <2>4 DEF Commands
  <2>5. ASSUME Decided(m), NEW i \in PendingCommands(m) PROVE FALSE
    <3>1. i \in Commands(l) /\ Finals(m, i) = {}
      BY <2>4, <2>5 DEF PendingCommands
    <3>2. Finals(l, i) = {}
      BY <1>9, <3>1
    <3> QED
      BY <2>3, <2>5, <3>1, <3>2 DEF PendingCommands
  <2> QED
    BY <2>5
<1>14. \A j \in All(m, {"action_resolved"}) :
          m[j].say \in DOMAIN OutcomeMap /\ m[j].of \in All(m, {"action_opened"})
  <2>1. r.t = "action_resolved" => r.say \in DOMAIN OutcomeMap /\ r.of \in All(l, {"action_opened"})
    BY DEF Allowed, ActionResolves, OpenActions
  <2>2. \A j \in All(l, {"action_resolved"}) :
           l[j].say \in DOMAIN OutcomeMap /\ l[j].of \in All(l, {"action_opened"}) /\ m[j] = l[j]
    BY <1>1, <1>3 DEF LogInv
  <2> QED
    BY <1>1, <1>2, <2>1, <2>2
<1>16. \A i, j \in All(m, AttemptEnds) : m[i].at = m[j].at => i = j
  <2>1. r.t \in AttemptEnds => \A j \in All(l, AttemptEnds) : l[j].at # r.at
    <3>1. r.t \in AttemptEnds => EndOf(l, r.at) = "open"
      BY DEF Allowed, AttemptMoves, OfAttempt, AttemptEnds, OpenAttempts
    <3> QED
      BY <3>1, EndFound
  <2>2. \A j \in All(l, AttemptEnds) : m[j] = l[j]
    BY <1>1, <1>3
  <2> QED
    BY <1>1, <1>2, <2>1, <2>2 DEF LogInv
<1>15. ASSUME NEW d \in All(m, {"run_decision"}), m[d].who = "operator_gateway",
              m[d].say = "completed"
       PROVE  m[d].of \in All(m, {"action_resolved"}) /\ m[m[d].of].say = "approved"
  <2>1. CASE d \in All(l, {"run_decision"})
    <3>1. m[d] = l[d]
      BY <1>1, <1>3, <2>1
    <3>2. l[d].of \in All(l, {"action_resolved"}) /\ l[l[d].of].say = "approved"
      BY <1>15, <2>1, <3>1 DEF LogInv
    <3> QED
      BY <1>1, <1>2, <1>3, <3>1, <3>2
  <2>2. CASE d \notin All(l, {"run_decision"})
    <3>1. d = n /\ m[d] = r /\ r.t = "run_decision"
      BY <1>1, <1>2, <1>15, <2>2
    <3>2. r.of \in All(l, {"action_resolved"}) /\ "completed" = OutcomeMap[l[r.of].say]
      BY <1>15, <3>1 DEF Allowed, OperatorDecides
    <3>3. l[r.of].say \in DOMAIN OutcomeMap
      BY <3>2 DEF LogInv
    <3>4. l[r.of].say = "approved"
      BY <3>2, <3>3 DEF OutcomeMap
    <3> QED
      BY <1>1, <1>2, <1>3, <3>1, <3>2, <3>4
  <2> QED
    BY <2>1, <2>2
<1> QED
  BY <1>5, <1>7, <1>8, <1>10, <1>11, <1>12, <1>13, <1>14, <1>15, <1>16 DEF LogInv, m

----------------------------------------------------------------------------
(* Several receipts.                                                       *)

Grows(l, m, R) ==
  /\ m \in Seq(Receipts) /\ Len(l) <= Len(m)
  /\ \A i \in 1..Len(l) : m[i] = l[i]
  /\ \A i \in (Len(l) + 1)..Len(m) : m[i] \in R

LEMMA SeqOne ==
  ASSUME NEW S, NEW x \in S
  PROVE  <<x>> \in Seq(S) /\ Len(<<x>>) = 1 /\ <<x>>[1] = x
OBVIOUS

LEMMA SomeOf ==
  ASSUME NEW l \in Seq(Receipts), NEW rs \in Seq(Receipts), NEW n \in 0..Len(rs)
  PROVE  /\ l \o SubSeq(rs, 1, n) \in Seq(Receipts)
         /\ Len(l \o SubSeq(rs, 1, n)) = Len(l) + n
         /\ \A i \in 1..Len(l) : (l \o SubSeq(rs, 1, n))[i] = l[i]
         /\ \A i \in 1..n : (l \o SubSeq(rs, 1, n))[Len(l) + i] = rs[i]
         /\ n = 0 => l \o SubSeq(rs, 1, n) = l
<1>1. Len(rs) \in Nat /\ Len(l) \in Nat /\ n \in Nat /\ n <= Len(rs)
  BY LenProperties
<1>2. \A i \in 1..n : rs[i] \in Receipts
  BY <1>1, ElementOfSeq
<1> DEFINE s == SubSeq(rs, 1, n)
<1>3. s \in Seq(Receipts) /\ Len(s) = n /\ \A i \in 1..n : s[i] = rs[i]
  BY <1>1, <1>2, SubSeqProperties
<1> HIDE DEF s
<1>4. /\ l \o s \in Seq(Receipts) /\ Len(l \o s) = Len(l) + n
      /\ \A i \in 1..(Len(l) + n) : (l \o s)[i] = IF i <= Len(l) THEN l[i] ELSE s[i - Len(l)]
  BY <1>3, ConcatProperties
<1>5. \A i \in 1..n : (l \o s)[Len(l) + i] = rs[i]
  <2>1. \A i \in 1..n : Len(l) + i \in 1..(Len(l) + n) /\ ~(Len(l) + i <= Len(l))
                         /\ Len(l) + i - Len(l) = i
    BY <1>1
  <2> QED
    BY <1>3, <1>4, <2>1
<1>6. n = 0 => s = <<>>
  BY <1>3, EmptySeq
<1>7. n = 0 => l \o s = l
  BY <1>6, ConcatEmptySeq
<1> QED
  BY <1>1, <1>4, <1>5, <1>7 DEF s

LEMMA OneMore ==
  ASSUME NEW l \in Seq(Receipts), NEW rs \in Seq(Receipts), NEW n \in 1..Len(rs)
  PROVE  /\ l \o SubSeq(rs, 1, n) = Append(l \o SubSeq(rs, 1, n - 1), rs[n])
         /\ rs[n] \in Receipts
<1>1. Len(rs) \in Nat /\ Len(l) \in Nat /\ n \in 0..Len(rs) /\ n - 1 \in 0..Len(rs)
  BY LenProperties
<1> DEFINE m == l \o SubSeq(rs, 1, n)
           k == l \o SubSeq(rs, 1, n - 1)
<1>2. rs[n] \in Receipts
  BY ElementOfSeq
<1>3. /\ m \in Seq(Receipts) /\ Len(m) = Len(l) + n
      /\ \A i \in 1..Len(l) : m[i] = l[i]
      /\ \A i \in 1..n : m[Len(l) + i] = rs[i]
  BY <1>1, SomeOf
<1>4. /\ k \in Seq(Receipts) /\ Len(k) = Len(l) + (n - 1)
      /\ \A i \in 1..Len(l) : k[i] = l[i]
      /\ \A i \in 1..(n - 1) : k[Len(l) + i] = rs[i]
  BY <1>1, SomeOf
<1> HIDE DEF m, k
<1>5. /\ Append(k, rs[n]) \in Seq(Receipts) /\ Len(Append(k, rs[n])) = Len(l) + n
      /\ \A i \in 1..Len(k) : Append(k, rs[n])[i] = k[i]
      /\ Append(k, rs[n])[Len(l) + n] = rs[n]
  BY <1>1, <1>2, <1>4, AppendProperties
<1>6. \A i \in 1..Len(m) : m[i] = Append(k, rs[n])[i]
  <2> TAKE i \in 1..Len(m)
  <2>1. CASE i \in 1..Len(l)
    BY <1>1, <1>3, <1>4, <1>5, <2>1
  <2>2. CASE i \notin 1..Len(l)
    <3>1. i - Len(l) \in 1..n /\ Len(l) + (i - Len(l)) = i
      BY <1>1, <1>3, <2>2
    <3>2. m[i] = rs[i - Len(l)]
      BY <1>3, <3>1
    <3>3. CASE i - Len(l) = n
      BY <1>5, <3>1, <3>2, <3>3
    <3>4. CASE i - Len(l) # n
      <4>1. i - Len(l) \in 1..(n - 1) /\ i \in 1..Len(k)
        BY <1>1, <1>3, <1>4, <3>1, <3>4
      <4>2. k[i] = rs[i - Len(l)]
        BY <1>4, <3>1, <4>1
      <4> QED
        BY <1>5, <3>2, <4>1, <4>2
    <3> QED
      BY <3>3, <3>4
  <2> QED
    BY <2>1, <2>2
<1>7. m = Append(k, rs[n])
  BY <1>3, <1>5, <1>6, SeqEqual
<1> QED
  BY <1>2, <1>7 DEF m, k

\* Extend appends the receipts before the first that is refused.
LEMMA ExtendIs ==
  ASSUME NEW l \in Seq(Receipts), NEW rs \in Seq(Receipts)
  PROVE  \E n \in 0..Len(rs) :
           /\ Extend(l, rs) = [log |-> l \o SubSeq(rs, 1, n), ok |-> n = Len(rs)]
           /\ \A j \in 1..n : Allowed(l \o SubSeq(rs, 1, j - 1), rs[j])
<1> DEFINE S == {k \in 0..Len(rs) :
                  \A j \in 1..k : Allowed(l \o SubSeq(rs, 1, j - 1), rs[j])}
<1>1. Len(rs) \in Nat
  BY LenProperties
<1>2. 0 \in S
  BY <1>1
<1>3. S \subseteq 0..Len(rs)
  OBVIOUS
<1>4. Max(S) \in S
  <2> HIDE DEF S
  <2> QED
    BY <1>1, <1>2, <1>3, Greatest
<1>5. Extend(l, rs) = [log |-> l \o SubSeq(rs, 1, Max(S)), ok |-> Max(S) = Len(rs)]
  BY DEF Extend
<1> QED
  BY <1>4, <1>5

LEMMA ManyGrow ==
  ASSUME NEW l \in Seq(Receipts), NEW rs \in Seq(Receipts), LogInv(l),
         NEW R, \A k \in 1..Len(rs) : rs[k] \in R,
         \A x \in R : x.t # "stage_dispatch_started"
  PROVE  LET e == Extend(l, rs) IN
         /\ Grows(l, e.log, R) /\ LogInv(e.log)
         /\ e.log # l => ~Decided(l)
         /\ e.ok => e.log = l \o rs
         /\ \A j \in 1..Len(rs) :
              Len(e.log) >= Len(l) + j => Allowed(l \o SubSeq(rs, 1, j - 1), rs[j])
<1>1. PICK n \in 0..Len(rs) :
        /\ Extend(l, rs) = [log |-> l \o SubSeq(rs, 1, n), ok |-> n = Len(rs)]
        /\ \A j \in 1..n : Allowed(l \o SubSeq(rs, 1, j - 1), rs[j])
  BY ExtendIs
<1>2. Len(rs) \in Nat /\ Len(l) \in Nat /\ n \in Nat /\ n <= Len(rs)
  BY LenProperties
<1> DEFINE p(k) == l \o SubSeq(rs, 1, k)
<1>3. p(0) = l
  BY <1>2, SomeOf
<1>s. /\ \A j \in 1..Len(rs) : p(j) = Append(p(j - 1), rs[j]) /\ rs[j] \in Receipts
      /\ \A j \in 0..Len(rs) : p(j) \in Seq(Receipts)
      /\ \A j \in 1..n : Allowed(p(j - 1), rs[j])
  BY <1>1, OneMore, SomeOf
<1>e. Extend(l, rs) = [log |-> p(n), ok |-> n = Len(rs)]
  BY <1>1
<1>4. LogInv(p(n))
  <2> HIDE DEF p
  <2> DEFINE S == {k \in 0..n : LogInv(p(k))}
  <2>1. 0 \in S
    BY <1>2, <1>3
  <2>2. ASSUME NEW k \in 0..(n - 1), k \in S PROVE k + 1 \in S
    <3>1. k + 1 \in 1..n /\ k + 1 \in 1..Len(rs) /\ k + 1 - 1 = k /\ k \in 0..Len(rs)
          /\ k + 1 \in 0..n
      BY <1>2
    <3>2. p(k + 1) = Append(p(k), rs[k + 1]) /\ rs[k + 1] \in Receipts
      BY <1>s, <3>1
    <3>3. p(k) \in Seq(Receipts) /\ LogInv(p(k)) /\ Allowed(p(k), rs[k + 1])
      BY <1>s, <2>2, <3>1
    <3>4. rs[k + 1].t # "stage_dispatch_started"
      BY <3>1
    <3>5. LogInv(p(k + 1))
      BY <3>2, <3>3, <3>4, LogGrows
    <3> QED
      BY <3>1, <3>5
  <2>3. n \in S
    <3> HIDE DEF S
    <3> QED
      BY <1>2, <2>1, <2>2, Reaches
  <2> QED
    BY <2>3
<1>5. Grows(l, p(n), R)
  <2>1. /\ p(n) \in Seq(Receipts) /\ Len(p(n)) = Len(l) + n
        /\ \A i \in 1..Len(l) : p(n)[i] = l[i]
        /\ \A i \in 1..n : p(n)[Len(l) + i] = rs[i]
    BY SomeOf
  <2>2. \A i \in (Len(l) + 1)..(Len(l) + n) : i - Len(l) \in 1..n /\ Len(l) + (i - Len(l)) = i
    BY <1>2
  <2>3. \A i \in 1..n : rs[i] \in R
    BY <1>2
  <2> HIDE DEF p
  <2>4. \A i \in (Len(l) + 1)..Len(p(n)) : p(n)[i] \in R
    BY <2>1, <2>2, <2>3
  <2> QED
    BY <1>2, <2>1, <2>4 DEF Grows
<1>6. p(n) # l => ~Decided(l)
  <2>1. CASE n = 0
    BY <1>3, <2>1
  <2>2. CASE n # 0
    <3>1. Allowed(p(0), rs[1])
      <4>1. 1 \in 1..n /\ 1 - 1 = 0
        BY <1>2, <2>2
      <4> QED
        BY <1>1, <4>1
    <3> QED
      BY <1>3, <3>1 DEF Allowed
  <2> QED
    BY <2>1, <2>2
<1>7. n = Len(rs) => p(n) = l \o rs
  BY SubSeqFull
<1>8. Len(p(n)) = Len(l) + n
  BY SomeOf
<1>9. \A j \in 1..Len(rs) : Len(p(n)) >= Len(l) + j => j \in 1..n
  BY <1>2, <1>8
<1>10. Extend(l, rs).log = p(n) /\ (Extend(l, rs).ok => n = Len(rs))
  <2> HIDE DEF p
  <2>1. Extend(l, rs).log = p(n)
    BY <1>e
  <2>2. Extend(l, rs).ok => n = Len(rs)
    <3>1. PICK e : e = Extend(l, rs)
      OBVIOUS
    <3>2. PICK q : q = p(n)
      OBVIOUS
    <3>3. PICK m : m = Len(rs)
      OBVIOUS
    <3>4. e = [log |-> q, ok |-> n = m]
      BY <1>e, <3>1, <3>2, <3>3
    <3>5. e.ok = (n = m)
      BY <3>4, Zenon
    <3> QED
      BY <3>1, <3>3, <3>5
  <2> QED
    BY <2>1, <2>2
<1> QED
  <2>1. \A j \in 1..Len(rs) : Len(p(n)) >= Len(l) + j => Allowed(p(j - 1), rs[j])
    BY <1>9, <1>s
  <2> QED
    BY <1>4, <1>5, <1>6, <1>7, <1>10, <2>1

\* terminalize: what is pending is finalised, then r decides.
Closing == {"terminalization_started", "command_unapplied"}

LEMMA TerminalIs ==
  ASSUME NEW l \in Seq(Receipts), NEW r \in Receipts
  PROVE  LET rs == Terminal(l, r) IN
         /\ rs \in Seq(Receipts) /\ Len(rs) \in Nat \ {0} /\ rs[Len(rs)] = r
         /\ \A k \in 1..(Len(rs) - 1) : rs[k].t \in Closing
         /\ PendingCommands(l) = {} => Len(rs) = 1
         /\ PendingCommands(l) # {} =>
              /\ Len(rs) = Cardinality(PendingCommands(l)) + 2
              /\ rs[1].t = "terminalization_started" /\ rs[1].who = "orchestrator"
              /\ \A k \in 1..Cardinality(PendingCommands(l)) :
                   rs[k + 1] = Unapplied(l, Nth(PendingCommands(l), k))
<1> DEFINE P == PendingCommands(l)
           c == Cardinality(P)
           one == [t |-> "terminalization_started", who |-> "orchestrator",
                   lane |-> r.lane, at |-> 0, of |-> 0, say |-> "none"]
           a == IF P = {} THEN <<>> ELSE <<one>>
           b == [n \in 1..c |-> Unapplied(l, Nth(P, n))]
<1>1. Len(l) \in Nat /\ DOMAIN l = 1..Len(l)
  BY LenProperties
<1>2. \A i \in P : i \in 1..Len(l)
  BY <1>1 DEF PendingCommands, Commands, All
<1>3. c \in Nat
  <2>1. P \subseteq 1..Len(l)
    BY <1>2
  <2> HIDE DEF P
  <2>2. IsFiniteSet(1..Len(l))
    BY <1>1, FS_Interval
  <2>3. IsFiniteSet(P)
    BY <2>1, <2>2, FS_Subset
  <2> QED
    BY <2>3, FS_CardinalityType
<1>4. \A n \in 1..c : Unapplied(l, Nth(P, n)) \in Receipts
                      /\ Unapplied(l, Nth(P, n)).t = "command_unapplied"
  <2> TAKE n \in 1..c
  <2>1. n \in Nat \ {0} /\ n <= c
    BY <1>3
  <2>2. Nth(P, n) \in P
    <3> HIDE DEF P
    <3> QED
      BY <1>1, <1>2, <2>1, NthMember DEF c
  <2>3. PICK i \in 1..Len(l) : i = Nth(P, n)
    BY <1>2, <2>2
  <2>4. l[i] \in Receipts
    BY ElementOfSeq
  <2>5. l[i].lane \in LaneNames /\ l[i].say \in Words
    BY <2>4 DEF Receipts
  <2>6. Unapplied(l, i) =
          [t |-> "command_unapplied", who |-> "orchestrator", lane |-> l[i].lane,
           at |-> 0, of |-> i, say |-> l[i].say]
    BY DEF Unapplied
  <2>7. PICK x, y : x = l[i].lane /\ y = l[i].say
    OBVIOUS
  <2>8. [t |-> "command_unapplied", who |-> "orchestrator", lane |-> x,
         at |-> 0, of |-> i, say |-> y] \in Receipts
    <3>1. i \in Int /\ 0 \in Int
      BY <1>1
    <3>2. "command_unapplied" \in Kinds /\ "orchestrator" \in Writers
      BY DEF Kinds, Writers
    <3> QED
      BY <2>5, <2>7, <3>1, <3>2 DEF Receipts
  <2>9. Unapplied(l, i) \in Receipts /\ Unapplied(l, i).t = "command_unapplied"
    BY <2>6, <2>7, <2>8
  <2> QED
    BY <2>3, <2>9
<1>5. /\ a \in Seq(Receipts) /\ Len(a) \in Nat
      /\ \A k \in 1..Len(a) : a[k].t = "terminalization_started" /\ a[k].who = "orchestrator"
      /\ P = {} => Len(a) = 0 /\ c = 0
      /\ P # {} => Len(a) = 1
  <2>0. PICK x : x = r.lane /\ x \in LaneNames
    BY DEF Receipts
  <2>s. "none" \in Words
    BY DEF Words
  <2>e. one = [t |-> "terminalization_started", who |-> "orchestrator", lane |-> x,
               at |-> 0, of |-> 0, say |-> "none"]
    BY <2>0
  <2>1. one \in Receipts /\ one.t = "terminalization_started" /\ one.who = "orchestrator"
    <3>1. [t |-> "terminalization_started", who |-> "orchestrator", lane |-> x,
           at |-> 0, of |-> 0, say |-> "none"] \in Receipts
      BY <2>0, <2>s DEF Receipts, Kinds, Writers
    <3> HIDE DEF one
    <3> QED
      BY <2>e, <3>1
  <2> HIDE DEF one
  <2>2. CASE P = {}
    BY <2>2, EmptySeq, FS_EmptySet
  <2>3. CASE P # {}
    BY <2>1, <2>3, SeqOne
  <2> QED
    BY <2>2, <2>3
<1>6. b \in Seq(Receipts) /\ Len(b) = c /\ \A k \in 1..c : b[k].t = "command_unapplied"
  BY <1>3, <1>4
<1>7. <<r>> \in Seq(Receipts) /\ Len(<<r>>) = 1 /\ <<r>>[1] = r
  BY SeqOne
<1> HIDE DEF a, b, c
<1>8. /\ a \o b \in Seq(Receipts) /\ Len(a \o b) = Len(a) + c
      /\ \A k \in 1..(Len(a) + c) : (a \o b)[k] = IF k <= Len(a) THEN a[k] ELSE b[k - Len(a)]
  BY <1>5, <1>6, ConcatProperties
<1>9. \A k \in 1..(Len(a) + c) : (a \o b)[k].t \in Closing
  <2> TAKE k \in 1..(Len(a) + c)
  <2>1. CASE k <= Len(a)
    BY <1>3, <1>5, <1>8, <2>1 DEF Closing
  <2>2. CASE ~(k <= Len(a))
    <3>1. k - Len(a) \in 1..c
      BY <1>3, <1>5, <2>2
    <3> QED
      BY <1>6, <1>8, <2>2, <3>1 DEF Closing
  <2> QED
    BY <2>1, <2>2
<1>10. PICK n \in Nat : n = Len(a) + c
  BY <1>3, <1>5
<1>p. PICK ab, e : ab = a \o b /\ e = <<r>>
  OBVIOUS
<1>q. ab \in Seq(Receipts) /\ Len(ab) = n /\ e \in Seq(Receipts) /\ Len(e) = 1
  BY <1>7, <1>8, <1>10, <1>p
<1>11. /\ ab \o e \in Seq(Receipts) /\ Len(ab \o e) = n + 1
       /\ \A k \in 1..(n + 1) : (ab \o e)[k] = IF k <= n THEN ab[k] ELSE e[k - n]
  <2>1. /\ Len(ab \o e) = Len(ab) + Len(e)
        /\ \A i \in 1..Len(ab) + Len(e) :
              (ab \o e)[i] = IF i <= Len(ab) THEN ab[i] ELSE e[i - Len(ab)]
        /\ ab \o e \in Seq(Receipts)
    BY <1>q, ConcatProperties
  <2> QED
    BY <1>q, <2>1
<1>12. Terminal(l, r) = (a \o b) \o <<r>>
  BY DEF Terminal, a, b, c
<1>13. PICK rs : rs = ab \o e
  OBVIOUS
<1>14. rs \in Seq(Receipts) /\ Len(rs) = n + 1 /\ rs[n + 1] = r
       /\ \A k \in 1..n : rs[k].t \in Closing
  <2>1. n + 1 \in 1..(n + 1) /\ ~(n + 1 <= n) /\ n + 1 - n = 1
    BY <1>10
  <2>2. \A k \in 1..n : k \in 1..(n + 1) /\ k <= n
    BY <1>10
  <2>3. rs \in Seq(Receipts) /\ Len(rs) = n + 1 /\ rs[n + 1] = e[1]
    BY <1>11, <1>13, <2>1
  <2>4. \A k \in 1..n : rs[k] = ab[k]
    BY <1>11, <1>13, <2>2
  <2>5. \A k \in 1..n : ab[k].t \in Closing
    BY <1>9, <1>10, <1>p
  <2> QED
    BY <1>7, <1>p, <2>3, <2>4, <2>5
<1>15. n + 1 - 1 = n /\ n + 1 \in Nat \ {0}
  BY <1>10
<1>16. ASSUME P # {}
       PROVE  /\ n + 1 = c + 2 /\ rs[1].t = "terminalization_started" /\ rs[1].who = "orchestrator"
              /\ \A k \in 1..c : rs[k + 1] = b[k]
  <2>0. Len(a) = 1
    BY <1>5, <1>16
  <2>1. Len(a) = 1 /\ n = c + 1 /\ c \in Nat
    BY <1>3, <1>10, <2>0
  <2>2. \A k \in 1..n : rs[k] = ab[k]
    <3>1. \A k \in 1..n : k \in 1..(n + 1) /\ k <= n
      BY <1>10
    <3> QED
      BY <1>11, <1>13, <3>1
  <2>3. ab[1] = a[1]
    BY <1>8, <1>p, <2>1
  <2>4. \A k \in 1..c : k + 1 \in 1..n /\ ab[k + 1] = b[k]
    <3> TAKE k \in 1..c
    <3>1. k + 1 \in 1..(Len(a) + c) /\ ~(k + 1 <= Len(a)) /\ k + 1 - Len(a) = k
      BY <2>1
    <3> QED
      BY <1>8, <1>p, <2>1, <3>1
  <2>5. 1 \in 1..n /\ 1 \in 1..Len(a)
    BY <2>1
  <2> QED
    BY <1>5, <2>1, <2>2, <2>3, <2>4, <2>5
<1>17. \A k \in 1..c : b[k] = Unapplied(l, Nth(P, k))
  BY DEF b
<1>18. P = {} => n + 1 = 1
  BY <1>5, <1>10
<1>19. /\ rs \in Seq(Receipts) /\ Len(rs) \in Nat \ {0} /\ rs[Len(rs)] = r
       /\ \A k \in 1..(Len(rs) - 1) : rs[k].t \in Closing
  BY <1>14, <1>15
<1>20. P = {} => Len(rs) = 1
  BY <1>14, <1>18
<1>21. P # {} =>
         /\ Len(rs) = c + 2 /\ rs[1].t = "terminalization_started" /\ rs[1].who = "orchestrator"
         /\ \A k \in 1..c : rs[k + 1] = Unapplied(l, Nth(P, k))
  BY <1>14, <1>16, <1>17
<1>22. rs = Terminal(l, r) /\ c = Cardinality(P)
  BY <1>12, <1>13, <1>p DEF c
<1> HIDE DEF P
<1> QED
  BY <1>19, <1>20, <1>21, <1>22 DEF P

----------------------------------------------------------------------------
(* What holds of receipts that grow.                                       *)

LEMMA Grown ==
  ASSUME NEW l \in Seq(Receipts), NEW m, NEW R, Grows(l, m, R), NEW ts
  PROVE  /\ All(l, ts) \subseteq All(m, ts)
         /\ \A i \in All(l, ts) : i \in DOMAIN l /\ i \in Nat /\ i <= Len(l) /\ m[i] = l[i]
         /\ \A i \in All(m, ts) \ All(l, ts) :
              i \in DOMAIN m /\ i \in Nat /\ i > Len(l) /\ m[i] \in R /\ m[i].t \in ts
         /\ (\A x \in R : x.t \notin ts) => All(m, ts) = All(l, ts)
<1>1. /\ Len(l) \in Nat /\ DOMAIN l = 1..Len(l)
      /\ Len(m) \in Nat /\ DOMAIN m = 1..Len(m)
  BY LenProperties DEF Grows
<1>2. /\ All(l, ts) \subseteq All(m, ts)
      /\ \A i \in All(l, ts) : i \in DOMAIN l /\ i \in Nat /\ i <= Len(l) /\ m[i] = l[i]
  BY <1>1 DEF Grows, All
<1>3. \A i \in All(m, ts) \ All(l, ts) :
        i \in DOMAIN m /\ i \in Nat /\ i > Len(l) /\ m[i] \in R /\ m[i].t \in ts
  <2> TAKE i \in All(m, ts) \ All(l, ts)
  <2>1. i \in 1..Len(m) /\ m[i].t \in ts /\ i \in DOMAIN m
    BY <1>1 DEF All
  <2>2. i \notin 1..Len(l)
    BY <1>1, <2>1 DEF All, Grows
  <2>3. i > Len(l) /\ i \in (Len(l) + 1)..Len(m) /\ i \in Nat
    BY <1>1, <2>1, <2>2
  <2> QED
    BY <2>1, <2>3 DEF Grows
<1> QED
  BY <1>2, <1>3

LEMMA OldOrNew ==
  ASSUME NEW l \in Seq(Receipts), NEW m, NEW R, Grows(l, m, R), NEW ts, NEW i \in All(m, ts)
  PROVE  \/ i \in All(l, ts) /\ m[i] = l[i]
         \/ i \notin All(l, ts) /\ m[i] \in R /\ m[i].t \in ts
<1>0. \A j \in All(l, ts) : m[j] = l[j]
  BY Grown
<1>1. CASE i \in All(l, ts)
  BY <1>0, <1>1
<1>2. CASE i \notin All(l, ts)
  <2>1. i \in All(m, ts) \ All(l, ts)
    BY <1>2
  <2> QED
    BY <1>2, <2>1, Grown, Zenon
<1> QED
  BY <1>1, <1>2

LEMMA OnlyNew ==
  ASSUME NEW l \in Seq(Receipts), NEW m, NEW r, Grows(l, m, {r}), NEW ts, All(l, ts) = {},
         NEW i \in All(m, ts)
  PROVE  m[i] = r
<1>1. m[i] \in {r}
  BY OldOrNew
<1> QED
  BY <1>1

LEMMA SamePrefix ==
  ASSUME NEW l \in Seq(Receipts), NEW m, NEW R, Grows(l, m, R), NEW i \in DOMAIN l
  PROVE  i \in DOMAIN m /\ m[i] = l[i] /\ i \in Nat /\ i <= Len(l)
BY LenProperties DEF Grows

LEMMA FinalsGrow ==
  ASSUME NEW l \in Seq(Receipts), NEW m, NEW R, Grows(l, m, R), NEW i
  PROVE  Finals(l, i) \subseteq Finals(m, i)
BY Grown DEF Finals

\* Only a new command can be pending that was not.
LEMMA PendingGrow ==
  ASSUME NEW l \in Seq(Receipts), NEW m, NEW R, Grows(l, m, R)
  PROVE  /\ Commands(l) \subseteq Commands(m)
         /\ \A i \in Commands(l) : m[i] = l[i] /\ i \in Nat /\ i <= Len(l)
         /\ \A i \in Commands(m) \ Commands(l) : i \in Nat /\ i > Len(l)
         /\ \A i \in PendingCommands(m) : i \in PendingCommands(l) \/ (i \in Nat /\ i > Len(l))
         /\ (\A x \in R : x.t # "command_accepted") =>
               Commands(m) = Commands(l) /\ PendingCommands(m) \subseteq PendingCommands(l)
<1>1. /\ Commands(l) \subseteq Commands(m)
      /\ \A i \in Commands(l) : m[i] = l[i] /\ i \in Nat /\ i <= Len(l)
      /\ \A i \in Commands(m) \ Commands(l) : i \in Nat /\ i > Len(l)
      /\ (\A x \in R : x.t # "command_accepted") => Commands(m) = Commands(l)
  BY Grown DEF Commands
<1>2. \A i \in PendingCommands(m) : i \in Commands(m) /\ Finals(l, i) = {}
  BY FinalsGrow DEF PendingCommands
<1>3. \A i \in PendingCommands(m) : i \in Commands(l) => i \in PendingCommands(l)
  BY <1>2 DEF PendingCommands
<1>4. \A i \in PendingCommands(m) : i \in PendingCommands(l) \/ (i \in Nat /\ i > Len(l))
  BY <1>1, <1>2, <1>3
<1>5. (\A x \in R : x.t # "command_accepted") => PendingCommands(m) \subseteq PendingCommands(l)
  BY <1>1, <1>2, <1>3
<1> QED
  BY <1>1, <1>4, <1>5

LEMMA AttemptsGrow ==
  ASSUME NEW l \in Seq(Receipts), NEW m, NEW R, Grows(l, m, R),
         \A x \in R : x.t # "stage_attempt_created"
  PROVE  /\ Attempts(m) = Attempts(l)
         /\ \A a \in Attempts(l) : m[a] = l[a] /\ a \in Nat /\ a <= Len(l)
         /\ \A lane : LastAttempt(m, lane) = LastAttempt(l, lane)
<1>1. /\ Attempts(m) = Attempts(l)
      /\ \A a \in Attempts(l) : m[a] = l[a] /\ a \in Nat /\ a <= Len(l)
  BY Grown DEF Attempts
<1>2. ASSUME NEW lane
      PROVE  {a \in Attempts(m) : m[a].lane = lane} = {a \in Attempts(l) : l[a].lane = lane}
  BY <1>1
<1> QED
  BY <1>1, <1>2 DEF LastAttempt

LEMMA DispatchedGrow ==
  ASSUME NEW l \in Seq(Receipts), NEW m, NEW R, Grows(l, m, R), NEW a, Dispatched(l, a)
  PROVE  Dispatched(m, a)
BY SamePrefix DEF Dispatched

LEMMA EndStays ==
  ASSUME NEW l \in Seq(Receipts), NEW m, NEW R, Grows(l, m, R), LogInv(m),
         NEW a, EndOf(l, a) \in AttemptEnds
  PROVE  EndOf(m, a) = EndOf(l, a)
<1>1. PICK j \in All(l, AttemptEnds) : l[j].at = a /\ EndOf(l, a) = l[j].t
  BY EndFound
<1>2. j \in All(m, AttemptEnds) /\ m[j] = l[j]
  BY Grown
<1>3. \A k \in All(m, AttemptEnds) : m[k].at = m[j].at => k = j
  BY <1>2 DEF LogInv
<1>4. EndOf(m, m[j].at) = m[j].t
  <2>1. m \in Seq(Receipts)
    BY DEF Grows
  <2> QED
    BY <1>2, <1>3, <2>1, EndIs
<1> QED
  BY <1>1, <1>2, <1>4

LEMMA DoneStays ==
  ASSUME NEW l \in Seq(Receipts), NEW m, NEW R, Grows(l, m, R), LogInv(m),
         \A x \in R : x.t # "stage_attempt_created"
  PROVE  /\ \A lane : Done(l, lane) => Done(m, lane)
         /\ Audits(l) => Audits(m)
<1>1. \A lane : LastAttempt(m, lane) = LastAttempt(l, lane)
  BY AttemptsGrow
<1>2. "stage_completed" \in AttemptEnds
  BY DEF AttemptEnds
<1>3. \A lane : Done(l, lane) => Done(m, lane)
  BY <1>1, <1>2, EndStays DEF Done
<1> QED
  BY <1>1, <1>3 DEF Audits

LEMMA SaidGrow ==
  ASSUME NEW l \in Seq(Receipts), NEW m, NEW R, Grows(l, m, R)
  PROVE  /\ Decided(l) => Decided(m)
         /\ Waiting(l) => Waiting(m)
         /\ Terminating(l) => Terminating(m)
         /\ Live(l) => Live(m)
         /\ (\A x \in R : x.t # "run_planned") => (Live(m) <=> Live(l))
         /\ (\A x \in R : x.t = "run_decision" => x.say # "awaiting_approval") => (Waiting(m) <=> Waiting(l))
         /\ (\A x \in R : x.t \notin {"run_decision", "run_abandoned"} \/ x.say = "awaiting_approval")
              => (Decided(m) <=> Decided(l))
<1>1. /\ Decided(l) => Decided(m)
      /\ Waiting(l) => Waiting(m)
      /\ Terminating(l) => Terminating(m)
      /\ Live(l) => Live(m)
  BY Grown DEF Decided, Waiting, Terminating, Live
<1>2. (\A x \in R : x.t # "run_planned") => (Live(m) => Live(l))
  BY Grown DEF Live
<1>3. (\A x \in R : x.t = "run_decision" => x.say # "awaiting_approval") => (Waiting(m) => Waiting(l))
  <2>1. \A i \in All(m, {"run_decision"}) :
           \/ i \in All(l, {"run_decision"}) /\ m[i] = l[i]
           \/ m[i] \in R /\ m[i].t \in {"run_decision"}
    BY OldOrNew, Zenon
  <2> QED
    BY <2>1 DEF Waiting
<1>4. (\A x \in R : x.t \notin {"run_decision", "run_abandoned"} \/ x.say = "awaiting_approval")
         => (Decided(m) => Decided(l))
  <2>0. \A ts : \A i \in All(m, ts) :
           (i \in All(l, ts) /\ m[i] = l[i]) \/ (m[i] \in R /\ m[i].t \in ts)
    BY OldOrNew, Zenon
  <2>1. \A i \in All(m, {"run_decision", "run_abandoned"}) :
           \/ i \in All(l, {"run_decision", "run_abandoned"}) /\ m[i] = l[i]
           \/ m[i] \in R /\ m[i].t \in {"run_decision", "run_abandoned"}
    BY <2>0
  <2> QED
    BY <2>1 DEF Decided
<1> QED
  BY <1>1, <1>2, <1>3, <1>4

----------------------------------------------------------------------------
(* A step of the run adds receipts of R, which were all allowed.           *)

LogStep(R) ==
  /\ Grows(log, log', R) /\ LogInv(log')
  /\ log' # log => ~sealed /\ ~Decided(log)

LEMMA OneGrows ==
  ASSUME NEW l \in Seq(Receipts), NEW r \in Receipts
  PROVE  Grows(l, Append(l, r), {r})
<1>1. LET m == Append(l, r) IN
      /\ m \in Seq(Receipts) /\ Len(l) \in Nat /\ Len(m) = Len(l) + 1
      /\ DOMAIN m = DOMAIN l \cup {Len(l) + 1} /\ DOMAIN l = 1..Len(l)
      /\ \A i \in DOMAIN l : m[i] = l[i]
      /\ m[Len(l) + 1] = r
  BY Longer
<1>2. \A i \in (Len(l) + 1)..Len(Append(l, r)) : i = Len(l) + 1
  BY <1>1
<1> QED
  BY <1>1, <1>2 DEF Grows

LEMMA NoStep ==
  ASSUME log \in Seq(Receipts), LogInv(log), log' = log, NEW R
  PROVE  LogStep(R)
<1>1. Len(log) \in Nat
  BY LenProperties
<1> QED
  BY <1>1 DEF LogStep, Grows

LEMMA OneStep ==
  ASSUME log \in Seq(Receipts), LogInv(log), NEW r \in Receipts, ~sealed, Allowed(log, r),
         log' = Append(log, r), r.t = "stage_dispatch_started" => Reached(log, r.at)
  PROVE  LogStep({r})
<1>1. LogInv(log')
  BY LogGrows
<1>2. /\ log' \in Seq(Receipts) /\ Len(log) \in Nat /\ Len(log') = Len(log) + 1
      /\ \A i \in DOMAIN log : log'[i] = log[i]
      /\ DOMAIN log = 1..Len(log) /\ log'[Len(log) + 1] = r
  BY Longer
<1>3. \A i \in (Len(log) + 1)..Len(log') : i = Len(log) + 1
  BY <1>2
<1>4. ~Decided(log)
  BY DEF Allowed
<1>5. \A i \in (Len(log) + 1)..Len(log') : log'[i] \in {r}
  BY <1>2, <1>3
<1>6. Grows(log, log', {r})
  BY <1>2, <1>5 DEF Grows
<1> QED
  BY <1>1, <1>4, <1>6 DEF LogStep

LEMMA Wider ==
  ASSUME NEW R, NEW Q, LogStep(R), R \subseteq Q
  PROVE  LogStep(Q)
BY DEF LogStep, Grows

LEMMA AllStep ==
  ASSUME log \in Seq(Receipts), LogInv(log), ~sealed, NEW rs \in Seq(Receipts), NEW R,
         \A k \in 1..Len(rs) : rs[k] \in R, \A x \in R : x.t # "stage_dispatch_started",
         log' = Extend(log, rs).log
  PROVE  LogStep(R)
<1>1. /\ Grows(log, log', R) /\ LogInv(log')
      /\ log' # log => ~Decided(log)
  BY ManyGrow
<1> QED
  BY <1>1 DEF LogStep

LEMMA HeadStep ==
  ASSUME log \in Seq(Receipts), LogInv(log), ~sealed, NEW rs \in Seq(Receipts), NEW R,
         \A k \in 1..Len(rs) : rs[k] \in R, \A x \in R : x.t # "stage_dispatch_started",
         NEW p \in Heads(rs), log' = Extend(log, p).log
  PROVE  LogStep(R)
<1>1. PICK n \in 0..Len(rs) : p = SubSeq(rs, 1, n)
  BY DEF Heads
<1>2. Len(rs) \in Nat /\ n \in Nat /\ n <= Len(rs)
  BY LenProperties
<1>3. p \in Seq(Receipts) /\ Len(p) = n /\ \A i \in 1..n : p[i] = rs[i]
  <2>1. \A i \in 1..n : rs[i] \in Receipts
    BY <1>2, ElementOfSeq
  <2> QED
    BY <1>1, <1>2, <2>1, SubSeqProperties
<1>4. \A k \in 1..Len(p) : p[k] \in R
  BY <1>2, <1>3
<1> QED
  BY <1>3, <1>4, AllStep

LEMMA AppendsStep ==
  ASSUME log \in Seq(Receipts), LogInv(log), NEW r \in Receipts, NEW ok, NEW bad,
         Appends(r, ok, bad), r.t = "stage_dispatch_started" => Reached(log, r.at)
  PROVE  /\ LogStep({r}) /\ sealed' = sealed
         /\ \/ pc' = ok /\ Allowed(log, r) /\ log' = Append(log, r) /\ UNCHANGED <<broker, faults>>
            \/ pc' = bad /\ UNCHANGED <<log, broker, faults>>
            \/ /\ pc' = bad /\ faults < MaxFaults /\ faults' = faults + 1
               /\ UNCHANGED <<log, broker>> \/ broker' = FALSE
<1>1. CASE log' = log
  BY <1>1, NoStep DEF Appends
<1>2. CASE log' # log
  <2>1. Allowed(log, r) /\ ~sealed /\ log' = Append(log, r)
    BY <1>2 DEF Appends, CanWrite
  <2>2. LogStep({r})
    BY <2>1, OneStep
  <2> QED
    BY <2>1, <2>2 DEF Appends
<1> QED
  BY <1>1, <1>2

LEMMA AppendsAllStep ==
  ASSUME log \in Seq(Receipts), LogInv(log), NEW rs \in Seq(Receipts), NEW ok, NEW bad,
         NEW R, \A k \in 1..Len(rs) : rs[k] \in R, \A x \in R : x.t # "stage_dispatch_started",
         AppendsAll(rs, ok, bad)
  PROVE  LogStep(R) /\ sealed' = sealed /\ pc' \in {ok, bad}
<1>1. sealed' = sealed /\ pc' \in {ok, bad}
  BY DEF AppendsAll
<1>2. \/ log' = log
      \/ ~sealed /\ log' = Extend(log, rs).log
      \/ ~sealed /\ \E p \in Heads(rs) : log' = Extend(log, p).log
  BY DEF AppendsAll
<1>3. LogStep(R)
  BY <1>2, NoStep, AllStep, HeadStep
<1> QED
  BY <1>1, <1>3

----------------------------------------------------------------------------
(* What a step keeps of each part of the invariant.                        *)

LEMMA AnsweredStep ==
  ASSUME log \in Seq(Receipts), NEW R, LogStep(R), Answered,
         \A x \in answers' : x \in answers \/ (x[2] \in Commands(log') /\ log'[x[2]].say = x[1])
  PROVE  Answered'
<1>1. Commands(log) \subseteq Commands(log') /\ \A i \in Commands(log) : log'[i] = log[i]
  BY PendingGrow DEF LogStep
<1> QED
  BY <1>1 DEF Answered

LEMMA ClosedStep ==
  ASSUME log \in Seq(Receipts), NEW R, LogStep(R), Closed,
         sealed' => sealed \/ PendingCommands(log') = {},
         watch' = "seal" => watch = "seal" \/ Decided(log')
  PROVE  Closed'
<1>1. Decided(log) => Decided(log')
  BY SaidGrow DEF LogStep
<1>2. sealed => PendingCommands(log') = {}
  BY DEF LogStep, Closed
<1> QED
  BY <1>1, <1>2 DEF Closed

\* The engine goes on with the attempt it has, or leaves it.
Follows ==
  /\ pc' \in Prepared => pc \in Prepared /\ stage'.at = stage.at /\ stage'.lane = stage.lane
  /\ pc' = "start" => Eligible = {}
  /\ pc' \in {"call", "complete", "sent"} =>
       pc \in {"call", "complete", "sent"} \/ Dispatched(log', stage.at)

LEMMA AheadStep ==
  ASSUME Typed, NEW R, LogStep(R), Ahead, Follows,
         \A x \in R : x.t # "stage_attempt_created",
         \A x \in R : x.t = "run_decision" => x.say # "awaiting_approval",
         Waiting(log) => pc' \in Final
  PROVE  Ahead'
<1>0. log \in Seq(Receipts) /\ Grows(log, log', R)
  BY DEF Typed, LogStep
<1>1. /\ Attempts(log') = Attempts(log)
      /\ \A a \in Attempts(log) : log'[a] = log[a] /\ a \in Nat /\ a <= Len(log)
  BY <1>0, AttemptsGrow
<1>2. Waiting(log') => pc' \in Final
  BY <1>0, SaidGrow
<1>3. pc' \in Prepared =>
        /\ stage'.at \in Attempts(log') /\ log'[stage'.at].lane = stage'.lane
        /\ \A a \in Attempts(log') : a <= stage'.at
  BY <1>1 DEF Ahead, Follows
<1>4. ASSUME pc' = "start" PROVE Eligible' = {}
  <2>1. pc' \in Prepared
    BY <1>4 DEF Prepared
  <2>2. stage'.at = stage.at /\ stage'.lane = stage.lane /\ stage.at \in Nat /\ stage.at <= Len(log)
    BY <1>1, <2>1 DEF Ahead, Follows
  <2>3. /\ \A i \in PendingCommands(log') : i \in PendingCommands(log) \/ (i \in Nat /\ i > Len(log))
        /\ \A i \in PendingCommands(log) : log'[i] = log[i]
    BY <1>0, PendingGrow DEF PendingCommands
  <2>4. \A i \in Eligible' : i \in PendingCommands(log') /\ i < stage'.at
                             /\ log'[i].lane \in {"lead", stage'.lane}
    BY DEF Eligible
  <2>5. Len(log) \in Nat
    BY <1>0, LenProperties
  <2>6. \A i \in Eligible' : i \in Eligible
    BY <2>2, <2>3, <2>4, <2>5 DEF Eligible
  <2> QED
    BY <1>4, <2>6 DEF Follows
<1>5. pc' \in {"call", "complete", "sent"} => Dispatched(log', stage'.at)
  <2>1. pc' \in {"call", "complete", "sent"} => stage'.at = stage.at
    BY DEF Follows, Prepared
  <2>2. Dispatched(log, stage.at) => Dispatched(log', stage.at)
    BY <1>0, DispatchedGrow
  <2> QED
    BY <2>1, <2>2 DEF Follows, Ahead
<1> QED
  BY <1>2, <1>3, <1>4, <1>5 DEF Ahead

\* Receipts that say nothing new of the run's course.
Quiet(R) ==
  /\ \A x \in R : x.t \notin {"stage_attempt_created", "run_planned", "action_opened"}
  /\ \A x \in R : x.t = "run_decision" /\ x.say = "completed" =>
       x.who = "operator_gateway" \/ ~Live(log)

\* What is said of the receipts in Course stays true.
LEMMA CourseKept ==
  ASSUME Typed, NEW R, LogStep(R), Course, Quiet(R)
  PROVE  /\ \A lane : Done(log, lane) => Done(log', lane)
         /\ Audits(log) => Audits(log')
         /\ Live(log') <=> Live(log)
         /\ All(log', {"action_opened"}) = All(log, {"action_opened"})
         /\ \A i \in All(log', {"action_opened"}) : log'[i].say = "escalation" \/ Audits(log')
         /\ \A d \in All(log', {"run_decision"}) :
              log'[d].say = "completed" /\ Live(log') => log'[d].who = "operator_gateway"
         /\ \A a : EndOf(log, a) \in AttemptEnds => EndOf(log', a) = EndOf(log, a)
<1>0. log \in Seq(Receipts) /\ Grows(log, log', R) /\ LogInv(log')
  BY DEF Typed, LogStep
<1>1. /\ \A lane : Done(log, lane) => Done(log', lane)
      /\ Audits(log) => Audits(log')
  BY <1>0, DoneStays DEF Quiet
<1>2. Live(log') <=> Live(log)
  BY <1>0, SaidGrow DEF Quiet
<1>3. /\ All(log', {"action_opened"}) = All(log, {"action_opened"})
      /\ \A i \in All(log, {"action_opened"}) : log'[i] = log[i]
  BY <1>0, Grown DEF Quiet
<1>4. \A d \in All(log', {"run_decision"}) :
        log'[d].say = "completed" /\ Live(log') => log'[d].who = "operator_gateway"
  <2> TAKE d \in All(log', {"run_decision"})
  <2>1. CASE d \in All(log, {"run_decision"}) /\ log'[d] = log[d]
    BY <1>2, <2>1 DEF Course
  <2>2. CASE log'[d] \in R /\ log'[d].t \in {"run_decision"}
    BY <1>2, <2>2 DEF Quiet
  <2> QED
    BY <1>0, <2>1, <2>2, OldOrNew
<1>5. \A a : EndOf(log, a) \in AttemptEnds => EndOf(log', a) = EndOf(log, a)
  BY <1>0, EndStays
<1> QED
  BY <1>1, <1>2, <1>3, <1>4, <1>5 DEF Course

\* The engine's statement is about the same lane, or claims no more of it.
Keeps ==
  /\ pc' \in Prepared \cup {"create", "repair"} =>
       pc \in Prepared \cup {"create", "repair"} /\ stage'.lane = stage.lane
  /\ pc' = "repair" => pc = "repair"
  /\ pc' = "route" => pc = "route" /\ stage' = stage
  /\ pc' = "approval" => pc = "approval"
  /\ pc' = "completed" => pc = "completed"
  /\ pc \in {"await"} \cup Final => pc' \in {"await"} \cup Final

LEMMA CourseStep ==
  ASSUME Typed, NEW R, LogStep(R), Course, Quiet(R), Keeps
  PROVE  Course'
<1>1. /\ \A lane : Done(log, lane) => Done(log', lane)
      /\ Audits(log) => Audits(log')
      /\ Live(log') <=> Live(log)
      /\ All(log', {"action_opened"}) = All(log, {"action_opened"})
      /\ \A i \in All(log', {"action_opened"}) : log'[i].say = "escalation" \/ Audits(log')
      /\ \A d \in All(log', {"run_decision"}) :
           log'[d].say = "completed" /\ Live(log') => log'[d].who = "operator_gateway"
      /\ \A a : EndOf(log, a) \in AttemptEnds => EndOf(log', a) = EndOf(log, a)
  BY CourseKept
<1>2. pc' \in Prepared \cup {"create", "repair"} =>
        /\ stage'.lane \in DOMAIN Before
        /\ \A lane \in Before[stage'.lane] : Done(log', lane)
  BY <1>1 DEF Course, Keeps
<1>3. pc' = "repair" => stage'.lane \in ConditionalLanes
  BY DEF Course, Keeps
<1>4. pc' = "route" =>
        EndOf(log', stage'.at) = IF stage'.lane \in Reviews /\ ~Approves(stage'.reply)
                                 THEN "stage_rejected" ELSE "stage_completed"
  <2>1. {"stage_rejected", "stage_completed"} \subseteq AttemptEnds
    BY DEF AttemptEnds
  <2> QED
    BY <1>1, <2>1 DEF Course, Keeps
<1>5. /\ pc' = "approval" => Audits(log')
      /\ pc' = "completed" => ~Live(log')
      /\ All(log', {"action_opened"}) # {} => pc' \in {"await"} \cup Final
  BY <1>1 DEF Course, Keeps
<1> QED
  BY <1>1, <1>2, <1>3, <1>4, <1>5 DEF Course, Approves

----------------------------------------------------------------------------
(* The engine.                                                             *)

LEMMA ReceiptIs ==
  ASSUME NEW t \in Kinds, NEW who \in Writers, NEW lane \in LaneNames, NEW at \in Int,
         NEW of \in Int, NEW say \in Words
  PROVE  /\ Receipt(t, who, lane, at, of, say) \in Receipts
         /\ Receipt(t, who, lane, at, of, say).t = t
         /\ Receipt(t, who, lane, at, of, say).who = who
         /\ Receipt(t, who, lane, at, of, say).lane = lane
         /\ Receipt(t, who, lane, at, of, say).at = at
         /\ Receipt(t, who, lane, at, of, say).of = of
         /\ Receipt(t, who, lane, at, of, say).say = say
BY DEF Receipt, Receipts

LEMMA NotWaiting ==
  ASSUME Ahead, pc \notin Final
  PROVE  ~Waiting(log)
BY DEF Ahead

LEMMA EngineStep ==
  ASSUME IInv, NEW R, LogStep(R), UNCHANGED <<gateway, supervisor>>,
         sealed' => sealed \/ PendingCommands(log') = {},
         stage' = [lane |-> stage'.lane, at |-> stage'.at, of |-> stage'.of, reply |-> stage'.reply],
         stage'.lane \in LaneNames /\ stage'.at \in Int /\ stage'.of \in Int
  PROVE  Typed' /\ LogInv(log') /\ Answered' /\ Closed'
<1>0. log \in Seq(Receipts) /\ log' \in Seq(Receipts) /\ LogInv(log')
  BY DEF IInv, Typed, LogStep, Grows
<1>1. Typed'
  BY <1>0 DEF IInv, Typed, gateway, supervisor
<1>2. answers' = answers /\ watch' = watch
  BY DEF gateway, supervisor
<1>3. Answered'
  BY <1>0, <1>2, AnsweredStep DEF IInv
<1>4. Closed'
  BY <1>2, ClosedStep, <1>0 DEF IInv
<1> QED
  BY <1>0, <1>1, <1>3, <1>4

LEMMA EngineQuiet ==
  ASSUME IInv, pc \notin Final, NEW R, LogStep(R), UNCHANGED <<gateway, supervisor>>,
         sealed' => sealed \/ PendingCommands(log') = {},
         stage' = [lane |-> stage'.lane, at |-> stage'.at, of |-> stage'.of, reply |-> stage'.reply],
         stage'.lane \in LaneNames /\ stage'.at \in Int /\ stage'.of \in Int,
         Quiet(R), \A x \in R : x.t = "run_decision" => x.say # "awaiting_approval",
         Follows, Keeps
  PROVE  IInv'
<1>1. Typed' /\ LogInv(log') /\ Answered' /\ Closed'
  BY EngineStep
<1>2. Ahead'
  BY NotWaiting, AheadStep DEF IInv, Quiet
<1>3. Course'
  BY CourseStep DEF IInv
<1> QED
  BY <1>1, <1>2, <1>3 DEF IInv

\* One receipt that is not about the run as a whole, and the stage as it was.
LEMMA EngineOne ==
  ASSUME IInv, pc \notin Final, NEW r \in Receipts, NEW ok, NEW bad, Appends(r, ok, bad),
         r.t = "stage_dispatch_started" => Reached(log, r.at),
         r.t \notin {"stage_attempt_created", "run_planned", "action_opened", "run_decision"},
         stage' = stage, UNCHANGED <<gateway, supervisor>>, Follows, Keeps
  PROVE  IInv'
<1>1. LogStep({r}) /\ sealed' = sealed
  BY AppendsStep DEF IInv, Typed
<1>2. Quiet({r}) /\ \A x \in {r} : x.t = "run_decision" => x.say # "awaiting_approval"
  BY DEF Quiet
<1>3. /\ stage' = [lane |-> stage'.lane, at |-> stage'.at, of |-> stage'.of, reply |-> stage'.reply]
      /\ stage'.lane \in LaneNames /\ stage'.at \in Int /\ stage'.of \in Int
  BY DEF IInv, Typed
<1> QED
  BY <1>1, <1>2, <1>3, EngineQuiet

\* No receipt, and the stage as it was.
LEMMA EngineNone ==
  ASSUME IInv, pc \notin Final, log' = log, sealed' => sealed \/ PendingCommands(log) = {},
         stage' = stage, UNCHANGED <<gateway, supervisor>>, Follows, Keeps
  PROVE  IInv'
<1>1. LogStep({})
  BY NoStep DEF IInv, Typed
<1>2. Quiet({})
  BY DEF Quiet
<1>3. /\ stage' = [lane |-> stage'.lane, at |-> stage'.at, of |-> stage'.of, reply |-> stage'.reply]
      /\ stage'.lane \in LaneNames /\ stage'.at \in Int /\ stage'.of \in Int
  BY DEF IInv, Typed
<1> QED
  BY <1>1, <1>2, <1>3, EngineQuiet

LEMMA AttestKeeps ==
  ASSUME IInv, Attest
  PROVE  IInv'
<1> DEFINE r == Receipt("run_attested", "orchestrator", "none", 0, 0, "none")
<1>1. r \in Receipts /\ r.t = "run_attested"
  <2>1. "run_attested" \in Kinds /\ "orchestrator" \in Writers /\ "none" \in LaneNames
        /\ "none" \in Words /\ 0 \in Int
    BY DEF Kinds, Writers, LaneNames, Words
  <2> QED
    BY <2>1, ReceiptIs
<1>2. pc = "attest" /\ Appends(r, "plan", "broken") /\ stage' = stage
      /\ UNCHANGED <<gateway, supervisor>>
  BY DEF Attest
<1> HIDE DEF r
<1>3. pc' \in {"plan", "broken"}
  BY <1>2 DEF Appends
<1>4. Follows /\ Keeps
  BY <1>2, <1>3 DEF Follows, Keeps, Prepared, Final
<1>5. pc \notin Final
  BY <1>2 DEF Final
<1> QED
  BY <1>1, <1>2, <1>4, <1>5, EngineOne

LEMMA PreflightKeeps ==
  ASSUME IInv, Preflight
  PROVE  IInv'
<1>1. pc = "preflight" /\ pc' \in {"block", "consume"} /\ log' = log /\ sealed' = sealed
      /\ stage' = stage /\ UNCHANGED <<gateway, supervisor>>
  BY DEF Preflight
<1>2. Follows /\ Keeps
  BY <1>1 DEF Follows, Keeps, Prepared, Final
<1>3. pc \notin Final
  BY <1>1 DEF Final
<1> QED
  BY <1>1, <1>2, <1>3, EngineNone

LEMMA MineIs ==
  ASSUME Typed, NEW t \in Kinds, NEW say \in Words
  PROVE  /\ Mine(t, say) \in Receipts /\ Mine(t, say).t = t /\ Mine(t, say).at = stage.at
         /\ Mine(t, say).lane = stage.lane /\ Mine(t, say).say = say
<1>1. stage.lane \in LaneNames /\ stage.at \in Int /\ 0 \in Int /\ "orchestrator" \in Writers
  BY DEF Typed, Writers
<1> QED
  BY <1>1, ReceiptIs DEF Mine

LEMMA BlockKeeps ==
  ASSUME IInv, Block
  PROVE  IInv'
<1> DEFINE r == Mine("stage_blocked", "none")
<1>1. r \in Receipts /\ r.t = "stage_blocked"
  BY MineIs DEF IInv, Kinds, OfAttempt, AttemptEnds, Words
<1>2. pc = "block" /\ Appends(r, "refuse", "broken") /\ stage' = stage
      /\ UNCHANGED <<gateway, supervisor>>
  BY DEF Block
<1> HIDE DEF r
<1>3. pc' \in {"refuse", "broken"}
  BY <1>2 DEF Appends
<1>4. Follows /\ Keeps
  BY <1>2, <1>3 DEF Follows, Keeps, Prepared, Final
<1>5. pc \notin Final
  BY <1>2 DEF Final
<1> QED
  BY <1>1, <1>2, <1>4, <1>5, EngineOne

LEMMA FailKeeps ==
  ASSUME IInv, Fail
  PROVE  IInv'
<1> DEFINE say == IF pc = "sent" THEN "dispatched" ELSE "none"
           r == Mine("stage_failed", say)
<1>1. r \in Receipts /\ r.t = "stage_failed"
  <2>1. say \in Words /\ "stage_failed" \in Kinds
    BY DEF Kinds, OfAttempt, AttemptEnds, Words
  <2> QED
    BY <2>1, MineIs DEF IInv
<1>2. pc \in {"unsent", "sent"} /\ Appends(r, "refuse", "broken") /\ stage' = stage
      /\ UNCHANGED <<gateway, supervisor>>
  BY DEF Fail
<1> HIDE DEF r
<1>3. pc' \in {"refuse", "broken"}
  BY <1>2 DEF Appends
<1>4. Follows /\ Keeps
  BY <1>2, <1>3 DEF Follows, Keeps, Prepared, Final
<1>5. pc \notin Final
  BY <1>2 DEF Final
<1> QED
  BY <1>1, <1>2, <1>4, <1>5, EngineOne

LEMMA ReserveKeeps ==
  ASSUME IInv, Reserve
  PROVE  IInv'
<1>1. pc = "consume" /\ Eligible = {} /\ pc' = "start" /\ log' = log /\ sealed' = sealed
      /\ stage' = stage /\ UNCHANGED <<gateway, supervisor>>
  BY DEF Reserve
<1>2. Follows /\ Keeps
  BY <1>1 DEF Follows, Keeps, Prepared, Final
<1>3. pc \notin Final
  BY <1>1 DEF Final
<1> QED
  BY <1>1, <1>2, <1>3, EngineNone

LEMMA SealKeeps ==
  ASSUME IInv, Seal \/ SealFails
  PROVE  IInv'
<1>1. pc = "seal" /\ pc' \in {"returned", "broken"} /\ log' = log
      /\ (sealed' => sealed \/ PendingCommands(log) = {})
      /\ stage' = stage /\ UNCHANGED <<gateway, supervisor>>
  BY DEF Seal, SealFails, Sealable
<1>2. Follows /\ Keeps
  BY <1>1 DEF Follows, Keeps, Prepared, Final
<1>3. pc \notin Final
  BY <1>1 DEF Final
<1> QED
  BY <1>1, <1>2, <1>3, EngineNone

\* The oldest of the commands to consume is one of them.
LEMMA OldestIs ==
  ASSUME Typed, Eligible # {}
  PROVE  /\ Min(Eligible) \in Eligible /\ Min(Eligible) \in Int
         /\ log[Min(Eligible)] \in Receipts
<1>1. /\ Eligible \subseteq Nat
      /\ \A i \in Eligible : i \in 1..Len(log)
  BY LenProperties DEF Typed, Eligible, PendingCommands, Commands, All
<1>2. \E x \in Eligible : \A y \in Eligible : x <= y
  BY <1>1, Least
<1>3. Min(Eligible) \in Eligible
  BY <1>2 DEF Min
<1>4. PICK i \in Eligible : i = Min(Eligible)
  BY <1>3
<1>5. i \in Int /\ log[i] \in Receipts
  BY <1>1, ElementOfSeq DEF Typed
<1> QED
  BY <1>4, <1>5

LEMMA ConsumeKeeps ==
  ASSUME IInv, Consume
  PROVE  IInv'
<1> DEFINE i == Min(Eligible)
           t == IF log[i].lane = "lead" /\ ReplanOf(log, i) = {}
                THEN "run_replanned" ELSE "context_injected"
           r == Receipt(t, "orchestrator", log[i].lane, stage.at, i, log[i].say)
<1>1. /\ pc = "consume" /\ Eligible # {} /\ Appends(r, "consume", "unsent") /\ stage' = stage
      /\ UNCHANGED <<gateway, supervisor>>
  BY DEF Consume
<1>2. r \in Receipts /\ r.t \in {"run_replanned", "context_injected"}
  <2>1. i \in Int /\ log[i] \in Receipts
    BY <1>1, OldestIs DEF IInv
  <2> HIDE DEF i
  <2>2. log[i].lane \in LaneNames /\ log[i].say \in Words
    BY <2>1 DEF Receipts
  <2>3. t \in {"run_replanned", "context_injected"} /\ t \in Kinds /\ "orchestrator" \in Writers
    BY DEF Kinds, Writers
  <2>4. stage.at \in Int
    BY DEF IInv, Typed
  <2> HIDE DEF t
  <2> QED
    BY <2>1, <2>2, <2>3, <2>4, ReceiptIs
<1> HIDE DEF r
<1>3. pc' \in {"consume", "unsent"}
  BY <1>1 DEF Appends
<1>4. Follows /\ Keeps
  BY <1>1, <1>3 DEF Follows, Keeps, Prepared, Final
<1>5. pc \notin Final
  BY <1>1 DEF Final
<1> QED
  BY <1>1, <1>2, <1>4, <1>5, EngineOne

\* What is started with nothing left to consume has reached its commands.
LEMMA StartReaches ==
  ASSUME Typed, LogInv(log), Ahead, pc = "start", NEW r, r.t = "stage_dispatch_started", Allowed(log, r)
  PROVE  Reached(log, stage.at)
<1>1. /\ stage.at \in Attempts(log) /\ log[stage.at].lane = stage.lane
      /\ \A a \in Attempts(log) : a <= stage.at
      /\ Eligible = {}
  BY DEF Ahead, Prepared
<1>2. All(log, {"command_unapplied"}) = {}
  BY DEF LogInv, Allowed
<1>3. ASSUME NEW i \in Commands(log), i < stage.at, log[i].lane \in {"lead", log[stage.at].lane}
      PROVE  \E j \in Finals(log, i) : log[j].at # 0 /\ log[j].at <= stage.at
  <2>1. Finals(log, i) # {}
    BY <1>1, <1>3 DEF Eligible, PendingCommands
  <2>2. PICK j \in Finals(log, i) : TRUE
    BY <2>1
  <2>3. j \in All(log, {"stage_dispatch_started", "context_injected"})
    BY <1>2, <2>2 DEF Finals, All
  <2>4. log[j].at \in Attempts(log)
    BY <2>3 DEF LogInv
  <2>5. log[j].at # 0
    BY <2>4, LenProperties DEF Attempts, All, Typed
  <2> QED
    BY <1>1, <2>4, <2>5
<1> QED
  BY <1>3 DEF Reached

LEMMA StartKeeps ==
  ASSUME IInv, Start
  PROVE  IInv'
<1> DEFINE r == Mine("stage_dispatch_started", "none")
<1>1. r \in Receipts /\ r.t = "stage_dispatch_started" /\ r.at = stage.at
  BY MineIs DEF IInv, Kinds, OfAttempt, Words
<1>2. pc = "start" /\ Appends(r, "call", "unsent") /\ stage' = stage
      /\ UNCHANGED <<gateway, supervisor>>
  BY DEF Start
<1> HIDE DEF r
<1>c. CASE Allowed(log, r)
  <2>1. Reached(log, r.at)
    BY <1>1, <1>2, <1>c, StartReaches DEF IInv
  <2>2. /\ LogStep({r}) /\ sealed' = sealed
        /\ pc' = "call" => log' = Append(log, r)
        /\ pc' \in {"call", "unsent"}
    <3>1. LogStep({r}) /\ sealed' = sealed
      BY <1>1, <1>2, <2>1, AppendsStep DEF IInv, Typed
    <3>2. (pc' = "call" => log' = Append(log, r)) /\ pc' \in {"call", "unsent"}
      BY <1>2 DEF Appends
    <3> QED
      BY <3>1, <3>2
  <2>3. pc' = "call" => Dispatched(log', stage.at)
    <3>1. log \in Seq(Receipts)
      BY DEF IInv, Typed
    <3>2. LET m == Append(log, r) IN
          Len(log) + 1 \in DOMAIN m /\ m[Len(log) + 1] = r
      BY <1>1, <3>1, Longer
    <3> QED
      BY <1>1, <2>2, <3>2 DEF Dispatched
  <2>4. Follows /\ Keeps
    BY <1>2, <2>2, <2>3 DEF Follows, Keeps, Prepared, Final
  <2>5. pc \notin Final
    BY <1>2 DEF Final
  <2> QED
    BY <1>1, <1>2, <2>1, <2>4, <2>5, EngineOne
<1>d. CASE ~Allowed(log, r)
  <2>1. log' = log /\ sealed' = sealed /\ pc' = "unsent"
    BY <1>2, <1>d DEF Appends, CanWrite
  <2>4. Follows /\ Keeps
    BY <1>2, <2>1 DEF Follows, Keeps, Prepared, Final
  <2>5. pc \notin Final
    BY <1>2 DEF Final
  <2> QED
    BY <1>2, <2>1, <2>4, <2>5, EngineNone
<1> QED
  BY <1>c, <1>d

LEMMA CallKeeps ==
  ASSUME IInv, Call
  PROVE  IInv'
<1>1. pc = "call" /\ pc' \in {"complete", "sent"} /\ log' = log /\ sealed' = sealed
      /\ UNCHANGED <<gateway, supervisor>>
  BY DEF Call
<1>2. /\ stage' = [lane |-> stage'.lane, at |-> stage'.at, of |-> stage'.of, reply |-> stage'.reply]
      /\ stage'.lane = stage.lane /\ stage'.at = stage.at /\ stage'.of = stage.of
  <2>1. CASE stage' = stage
    BY <2>1 DEF IInv, Typed
  <2>2. CASE stage' # stage
    <3>1. PICK x : stage' = [stage EXCEPT !.reply = x]
      BY <2>2 DEF Call
    <3> QED
      BY <3>1 DEF IInv, Typed
  <2> QED
    BY <2>1, <2>2
<1>3. Follows /\ Keeps
  BY <1>1, <1>2 DEF Follows, Keeps, Prepared, Final
<1>4. pc \notin Final
  BY <1>1 DEF Final
<1>5. LogStep({}) /\ Quiet({})
  BY <1>1, NoStep DEF IInv, Typed, Quiet
<1>6. stage'.lane \in LaneNames /\ stage'.at \in Int /\ stage'.of \in Int
  BY <1>2 DEF IInv, Typed
<1> QED
  BY <1>1, <1>2, <1>3, <1>4, <1>5, <1>6, EngineQuiet

LEMMA RepairKeeps ==
  ASSUME IInv, Repair
  PROVE  IInv'
<1> DEFINE r == Receipt("repair_routed", "orchestrator", stage.lane, 0, 0, "none")
<1>1. r \in Receipts /\ r.t = "repair_routed"
  <2>1. "repair_routed" \in Kinds /\ "orchestrator" \in Writers /\ stage.lane \in LaneNames
        /\ "none" \in Words /\ 0 \in Int
    BY DEF IInv, Typed, Kinds, Writers, Words
  <2> QED
    BY <2>1, ReceiptIs
<1>2. pc = "repair" /\ Appends(r, "create", "broken") /\ stage' = [stage EXCEPT !.of = Len(log) + 1]
      /\ UNCHANGED <<gateway, supervisor>>
  BY DEF Repair
<1> HIDE DEF r
<1>3. pc' \in {"create", "broken"}
  BY <1>2 DEF Appends
<1>4. /\ stage' = [lane |-> stage'.lane, at |-> stage'.at, of |-> stage'.of, reply |-> stage'.reply]
      /\ stage'.lane = stage.lane /\ stage'.at = stage.at /\ stage'.of \in Int
  BY <1>2, LenProperties DEF IInv, Typed
<1>5. Follows /\ Keeps
  BY <1>2, <1>3, <1>4 DEF Follows, Keeps, Prepared, Final
<1>6. pc \notin Final
  BY <1>2 DEF Final
<1>7. LogStep({r}) /\ sealed' = sealed
  BY <1>1, <1>2, AppendsStep DEF IInv, Typed
<1>8. Quiet({r}) /\ \A x \in {r} : x.t = "run_decision" => x.say # "awaiting_approval"
  BY <1>1 DEF Quiet
<1>9. stage'.lane \in LaneNames /\ stage'.at \in Int
  BY <1>4 DEF IInv, Typed
<1> QED
  BY <1>2, <1>4, <1>5, <1>6, <1>7, <1>8, <1>9, EngineQuiet

LEMMA StageKept ==
  ASSUME Typed, stage' = stage
  PROVE  /\ stage' = [lane |-> stage'.lane, at |-> stage'.at, of |-> stage'.of, reply |-> stage'.reply]
         /\ stage'.lane \in LaneNames /\ stage'.at \in Int /\ stage'.of \in Int
BY DEF Typed

LEMMA OpenedIs ==
  ASSUME log \in Seq(Receipts)
  PROVE  Newest(All(log, {"action_opened"})) \in Int
<1>1. \A i \in All(log, {"action_opened"}) : i \in DOMAIN log /\ i \in Int
  BY LenProperties DEF All
<1>2. Max(All(log, {"action_opened"})) \in All(log, {"action_opened"})
        \/ All(log, {"action_opened"}) = {}
  BY <1>1, NewestIs
<1> QED
  BY <1>1, <1>2 DEF Newest

LEMMA AwaitKeeps ==
  ASSUME IInv, Await
  PROVE  IInv'
<1> DEFINE r == Receipt("run_decision", "orchestrator", "none", 0,
                        Newest(All(log, {"action_opened"})), "awaiting_approval")
<1>1. r \in Receipts /\ r.t = "run_decision" /\ r.say = "awaiting_approval"
  <2>1. "run_decision" \in Kinds /\ "orchestrator" \in Writers /\ "none" \in LaneNames
        /\ "awaiting_approval" \in Words /\ 0 \in Int
    BY DEF Kinds, Writers, Words, LaneNames
  <2>2. Newest(All(log, {"action_opened"})) \in Int
    BY OpenedIs DEF IInv, Typed
  <2> QED
    BY <2>1, <2>2, ReceiptIs
<1>2. pc = "await" /\ Appends(r, "returned", "broken") /\ stage' = stage
      /\ UNCHANGED <<gateway, supervisor>>
  BY DEF Await
<1> HIDE DEF r
<1>3. pc' \in {"returned", "broken"}
  BY <1>2 DEF Appends
<1>4. LogStep({r}) /\ sealed' = sealed
  BY <1>1, <1>2, AppendsStep DEF IInv, Typed
<1>5. Typed' /\ LogInv(log') /\ Answered' /\ Closed'
  <2>1. /\ stage' = [lane |-> stage'.lane, at |-> stage'.at, of |-> stage'.of, reply |-> stage'.reply]
        /\ stage'.lane \in LaneNames /\ stage'.at \in Int /\ stage'.of \in Int
    BY <1>2, StageKept DEF IInv
  <2> QED
    BY <1>2, <1>4, <2>1, EngineStep
<1>6. Ahead'
  BY <1>3 DEF Ahead, Prepared, Final
<1>7. Course'
  <2>1. Quiet({r})
    BY <1>1 DEF Quiet
  <2>2. Keeps
    BY <1>2, <1>3 DEF Keeps, Prepared, Final
  <2> QED
    BY <1>4, <2>1, <2>2, CourseStep DEF IInv
<1> QED
  BY <1>5, <1>6, <1>7 DEF IInv

\* What terminalize appends to decide as r does.
LEMMA TerminalKinds ==
  ASSUME NEW l \in Seq(Receipts), NEW r \in Receipts
  PROVE  /\ Terminal(l, r) \in Seq(Receipts)
         /\ \A k \in 1..Len(Terminal(l, r)) : Terminal(l, r)[k] \in {x \in Receipts : x.t \in Closing \/ x = r}
<1>1. PICK rs : rs = Terminal(l, r)
  OBVIOUS
<1>2. /\ rs \in Seq(Receipts) /\ Len(rs) \in Nat \ {0} /\ rs[Len(rs)] = r
      /\ \A k \in 1..(Len(rs) - 1) : rs[k].t \in Closing
  BY <1>1, TerminalIs
<1>3. \A k \in 1..Len(rs) : rs[k] \in Receipts /\ (k \in 1..(Len(rs) - 1) \/ k = Len(rs))
  BY <1>2, ElementOfSeq
<1>4. \A k \in 1..Len(rs) : rs[k] \in {x \in Receipts : x.t \in Closing \/ x = r}
  BY <1>2, <1>3
<1> QED
  BY <1>1, <1>2, <1>4

LEMMA DecideWrites ==
  ASSUME IInv, Decide
  PROVE  /\ sealed' = sealed /\ pc' \in {"seal", "broken"}
         /\ \E R : /\ LogStep(R)
                  /\ \A x \in R : \/ x.t \in Closing
                                 \/ /\ x.t = "run_decision" /\ x.say # "awaiting_approval"
                                    /\ x.say = "completed" => ~Live(log)
<1> DEFINE d == IF pc = "refuse" THEN RefusedAs ELSE pc
           r == Decision(d)
           rs == Terminal(log, r)
           R == {x \in Receipts : x.t \in Closing \/ x = r}
<1>0. pc \in {"completed", "blocked", "refuse"}
  BY DEF Decide
<1>1. r \in Receipts /\ r.t = "run_decision" /\ r.say = d
  <2>1. "run_decision" \in Kinds /\ "orchestrator" \in Writers /\ "none" \in LaneNames
        /\ d \in Words /\ 0 \in Int
    BY <1>0 DEF Kinds, Writers, Words, LaneNames, RefusedAs
  <2> HIDE DEF d
  <2> QED
    BY <2>1, ReceiptIs DEF Decision
<1>2. d # "awaiting_approval" /\ (d = "completed" => ~Live(log))
  BY <1>0 DEF IInv, Course, RefusedAs
<1>3. AppendsAll(rs, "seal", "broken")
  BY DEF Decide
<1> HIDE DEF r, d
<1>4. rs \in Seq(Receipts) /\ \A k \in 1..Len(rs) : rs[k] \in R
  BY <1>1, TerminalKinds DEF IInv, Typed
<1>5. \A x \in R : x.t \in Closing \/ (x.t = "run_decision" /\ x.say = d)
  BY <1>1
<1>6. \A x \in R : x.t # "stage_dispatch_started"
  BY <1>5 DEF Closing
<1> HIDE DEF rs, R
<1>7. LogStep(R) /\ sealed' = sealed /\ pc' \in {"seal", "broken"}
  BY <1>3, <1>4, <1>6, AppendsAllStep DEF IInv, Typed
<1> QED
  BY <1>2, <1>5, <1>7

LEMMA DecideKeeps ==
  ASSUME IInv, Decide
  PROVE  IInv'
<1>0. pc \in {"completed", "blocked", "refuse"} /\ UNCHANGED <<gateway, supervisor>> /\ stage' = stage
  BY DEF Decide
<1>1. /\ sealed' = sealed /\ pc' \in {"seal", "broken"}
  BY DecideWrites
<1>2. PICK R : /\ LogStep(R)
               /\ \A x \in R : \/ x.t \in Closing
                              \/ /\ x.t = "run_decision" /\ x.say # "awaiting_approval"
                                 /\ x.say = "completed" => ~Live(log)
  BY DecideWrites
<1>3. Quiet(R) /\ \A x \in R : x.t = "run_decision" => x.say # "awaiting_approval"
  BY <1>2 DEF Quiet, Closing
<1>4. Follows /\ Keeps
  BY <1>0, <1>1 DEF Follows, Keeps, Prepared, Final
<1>5. pc \notin Final
  BY <1>0 DEF Final
<1>6. /\ stage' = [lane |-> stage'.lane, at |-> stage'.at, of |-> stage'.of, reply |-> stage'.reply]
      /\ stage'.lane \in LaneNames /\ stage'.at \in Int /\ stage'.of \in Int
  BY <1>0, StageKept DEF IInv
<1> QED
  BY <1>0, <1>1, <1>2, <1>3, <1>4, <1>5, <1>6, EngineQuiet

LEMMA OpenActionKeeps ==
  ASSUME IInv, OpenAction
  PROVE  IInv'
<1> DEFINE r == Receipt("action_opened", "orchestrator", "none", 0, 0, pc)
<1>0. /\ pc \in {"approval", "escalation"} /\ Appends(r, "await", "broken") /\ stage' = stage
      /\ UNCHANGED <<gateway, supervisor>>
  BY DEF OpenAction
<1>1. r \in Receipts /\ r.t = "action_opened" /\ r.say = pc
  <2>1. "action_opened" \in Kinds /\ "orchestrator" \in Writers /\ "none" \in LaneNames
        /\ pc \in Words /\ 0 \in Int
    BY <1>0 DEF Kinds, Writers, Words, LaneNames
  <2> QED
    BY <2>1, ReceiptIs
<1> HIDE DEF r
<1>2. pc' \in {"await", "broken"}
  BY <1>0 DEF Appends
<1>3. LogStep({r}) /\ sealed' = sealed
  BY <1>0, <1>1, AppendsStep DEF IInv, Typed
<1>4. Typed' /\ LogInv(log') /\ Answered' /\ Closed'
  <2>1. /\ stage' = [lane |-> stage'.lane, at |-> stage'.at, of |-> stage'.of, reply |-> stage'.reply]
        /\ stage'.lane \in LaneNames /\ stage'.at \in Int /\ stage'.of \in Int
    BY <1>0, StageKept DEF IInv
  <2> QED
    BY <1>0, <1>3, <2>1, EngineStep
<1>g. log \in Seq(Receipts) /\ Grows(log, log', {r}) /\ LogInv(log')
  BY <1>3 DEF IInv, Typed, LogStep
<1>5. Ahead'
  <2>1. ~Waiting(log')
    <3>1. ~Waiting(log)
      BY <1>0, NotWaiting DEF IInv, Final
    <3> QED
      BY <1>1, <1>g, <3>1, SaidGrow
  <2> QED
    BY <1>2, <2>1 DEF Ahead, Prepared
<1>6. Course'
  <2>1. All(log, {"action_opened"}) = {}
    BY <1>0 DEF IInv, Course, Final
  <2>2. \A i \in All(log', {"action_opened"}) : log'[i] = r
    BY <1>g, <2>1, OnlyNew
  <2>3. Audits(log) => Audits(log')
    BY <1>1, <1>g, DoneStays
  <2>4. \A i \in All(log', {"action_opened"}) : log'[i].say = "escalation" \/ Audits(log')
    BY <1>0, <1>1, <2>2, <2>3 DEF IInv, Course
  <2>5. \A d \in All(log', {"run_decision"}) :
          log'[d].say = "completed" /\ Live(log') => log'[d].who = "operator_gateway"
    <3>1. All(log', {"run_decision"}) = All(log, {"run_decision"})
          /\ \A d \in All(log, {"run_decision"}) : log'[d] = log[d]
      BY <1>1, <1>g, Grown
    <3>2. Live(log') <=> Live(log)
      BY <1>1, <1>g, SaidGrow
    <3> QED
      BY <3>1, <3>2 DEF IInv, Course
  <2> QED
    BY <1>2, <2>4, <2>5 DEF Course, Prepared, Final
<1> QED
  BY <1>4, <1>5, <1>6 DEF IInv

LEMMA PlanKeeps ==
  ASSUME IInv, Plan
  PROVE  IInv'
<1>0. PICK mode \in Modes :
        Appends(Receipt("run_planned", "orchestrator", "none", 0, 0, mode),
                IF mode = "live" THEN "create" ELSE "completed", "broken")
  BY DEF Plan
<1> DEFINE r == Receipt("run_planned", "orchestrator", "none", 0, 0, mode)
           ok == IF mode = "live" THEN "create" ELSE "completed"
<1>1. /\ pc = "plan" /\ stage' = [NoStage EXCEPT !.lane = "g1d"]
      /\ UNCHANGED <<gateway, supervisor>>
  BY DEF Plan
<1>m. mode \in {"live", "dry_run"}
  BY RunAssumption
<1>2. r \in Receipts /\ r.t = "run_planned" /\ r.say = mode
  <2>1. "run_planned" \in Kinds /\ "orchestrator" \in Writers /\ "none" \in LaneNames
        /\ mode \in Words /\ 0 \in Int
    BY <1>m DEF Kinds, Writers, Words, LaneNames
  <2> QED
    BY <2>1, ReceiptIs
<1>a. Appends(r, ok, "broken")
  BY <1>0
<1> HIDE DEF r
<1>3. LogStep({r}) /\ sealed' = sealed
  BY <1>a, <1>2, AppendsStep DEF IInv, Typed
<1>4. \/ pc' = ok /\ Allowed(log, r) /\ log' = Append(log, r)
      \/ pc' = "broken"
  BY <1>a DEF Appends, CanWrite
<1>5. /\ stage' = [lane |-> stage'.lane, at |-> stage'.at, of |-> stage'.of, reply |-> stage'.reply]
      /\ stage'.lane = "g1d" /\ stage'.lane \in LaneNames /\ stage'.at \in Int /\ stage'.of \in Int
  BY <1>1 DEF NoStage, LaneNames, CoreLanes
<1>6. Typed' /\ LogInv(log') /\ Answered' /\ Closed'
  BY <1>1, <1>3, <1>5, EngineStep
<1>g. log \in Seq(Receipts) /\ Grows(log, log', {r}) /\ LogInv(log')
  BY <1>3 DEF IInv, Typed, LogStep
<1>7. Ahead'
  <2>1. ~Waiting(log')
    <3>1. ~Waiting(log)
      BY <1>1, NotWaiting DEF IInv, Final
    <3> QED
      BY <1>2, <1>g, <3>1, SaidGrow
  <2> QED
    BY <1>4, <2>1 DEF Ahead, Prepared
<1>8. Course'
  <2>1. All(log', {"action_opened"}) = {}
    <3>1. All(log, {"action_opened"}) = {}
      BY <1>1 DEF IInv, Course, Final
    <3> QED
      BY <1>2, <1>g, <3>1, Grown
  <2>2. pc' = "completed" => ~Live(log')
    <3>1. ASSUME pc' = "completed", NEW i \in All(log', {"run_planned"}), log'[i].say = "live"
          PROVE  FALSE
      <4>1. mode # "live" /\ Allowed(log, r)
        BY <1>4, <3>1
      <4>2. All(log, {"run_planned"}) = {}
        BY <1>2, <4>1 DEF Allowed, Cataloged
      <4>3. log'[i] = r
        <5>1. \A j \in All(log', {"run_planned"}) : log'[j] = r
          BY <1>g, <4>2, OnlyNew
        <5> QED
          BY <5>1
      <4> QED
        BY <1>2, <3>1, <4>1, <4>3
    <3> QED
      BY <3>1 DEF Live
  <2>3. \A d \in All(log', {"run_decision"}) :
          log'[d].say = "completed" /\ Live(log') => log'[d].who = "operator_gateway"
    <3>1. All(log', {"run_decision"}) = All(log, {"run_decision"})
          /\ \A d \in All(log, {"run_decision"}) : log'[d] = log[d]
      BY <1>2, <1>g, Grown
    <3>2. CASE log' = log
      BY <3>2 DEF IInv, Course
    <3>3. CASE log' # log
      <4>1. ~Decided(log)
        BY <1>3, <3>3 DEF LogStep
      <4>2. \A d \in All(log, {"run_decision"}) : log[d].say # "completed"
        BY <4>1 DEF Decided, All
      <4> QED
        BY <3>1, <4>2
    <3> QED
      BY <3>2, <3>3
  <2>4. pc' \in Prepared \cup {"create", "repair"} =>
          /\ stage'.lane \in DOMAIN Before
          /\ \A lane \in Before[stage'.lane] : Done(log', lane)
    BY <1>5 DEF Before
  <2> QED
    BY <1>4, <2>1, <2>2, <2>3, <2>4 DEF Course, Prepared
<1> QED
  BY <1>6, <1>7, <1>8 DEF IInv

LEMMA CreateKeeps ==
  ASSUME IInv, Create
  PROVE  IInv'
<1> DEFINE r == Receipt("stage_attempt_created", "orchestrator", stage.lane, 0, stage.of, "none")
           n == Len(log) + 1
<1>0. /\ pc = "create" /\ Appends(r, "preflight", "broken")
      /\ stage' = [stage EXCEPT !.at = Len(log) + 1] /\ UNCHANGED <<gateway, supervisor>>
  BY DEF Create
<1>1. r \in Receipts /\ r.t = "stage_attempt_created" /\ r.lane = stage.lane
  <2>1. "stage_attempt_created" \in Kinds /\ "orchestrator" \in Writers /\ stage.lane \in LaneNames
        /\ stage.of \in Int /\ "none" \in Words /\ 0 \in Int
    BY DEF Kinds, OfAttempt, Writers, Words, IInv, Typed
  <2> QED
    BY <2>1, ReceiptIs
<1> HIDE DEF r
<1>2. LogStep({r}) /\ sealed' = sealed
  BY <1>0, <1>1, AppendsStep DEF IInv, Typed
<1>3. \/ pc' = "preflight" /\ log' = Append(log, r)
      \/ pc' = "broken"
  BY <1>0 DEF Appends
<1>4. /\ stage' = [lane |-> stage'.lane, at |-> stage'.at, of |-> stage'.of, reply |-> stage'.reply]
      /\ stage'.lane = stage.lane /\ stage'.lane \in LaneNames
      /\ stage'.at = n /\ stage'.at \in Int /\ stage'.of \in Int
  BY <1>0, LenProperties DEF IInv, Typed
<1>5. Typed' /\ LogInv(log') /\ Answered' /\ Closed'
  BY <1>0, <1>2, <1>4, EngineStep
<1>g. log \in Seq(Receipts) /\ Grows(log, log', {r}) /\ LogInv(log')
  BY <1>2 DEF IInv, Typed, LogStep
<1>w. ~Waiting(log')
  <2>1. ~Waiting(log)
    BY <1>0, NotWaiting DEF IInv, Final
  <2> QED
    BY <1>1, <1>g, <2>1, SaidGrow
<1>6. ASSUME pc' = "preflight"
      PROVE  /\ Attempts(log') = Attempts(log) \cup {n} /\ log'[n] = r
             /\ \A a \in Attempts(log) : log'[a] = log[a] /\ a \in Nat /\ a <= Len(log)
             /\ n \in Nat /\ n > Len(log)
  <2>1. log' = Append(log, r)
    BY <1>3, <1>6
  <2>2. /\ \A i \in DOMAIN log : log'[i] = log[i]
        /\ log'[n] = r /\ Len(log) \in Nat /\ DOMAIN log = 1..Len(log)
    BY <1>1, <1>g, <2>1, Longer
  <2>3. Attempts(log') = Attempts(log) \cup {n}
    BY <1>1, <1>g, <2>1, AllLonger DEF Attempts
  <2> QED
    BY <2>2, <2>3 DEF Attempts, All
<1>7. Ahead'
  <2>1. pc' \in Prepared =>
          /\ stage'.at \in Attempts(log') /\ log'[stage'.at].lane = stage'.lane
          /\ \A a \in Attempts(log') : a <= stage'.at
    <3>1. pc' \in Prepared => pc' = "preflight"
      BY <1>3 DEF Prepared
    <3> HIDE DEF n
    <3> QED
      BY <1>1, <1>4, <1>6, <3>1, LenProperties, <1>g
  <2> QED
    BY <1>3, <1>w, <2>1 DEF Ahead
<1>8. Course'
  <2>1. ASSUME pc' = "preflight", NEW lane \in Before[stage.lane]
        PROVE  Done(log', lane)
    <3>1. Done(log, lane) /\ stage.lane \in DOMAIN Before
      BY <1>0, <2>1 DEF IInv, Course
    <3>2. lane # stage.lane
      BY <2>1, <3>1 DEF Before, CoreLanes
    <3>3. {a \in Attempts(log') : log'[a].lane = lane} = {a \in Attempts(log) : log[a].lane = lane}
      <4> HIDE DEF n
      <4> QED
        BY <1>1, <1>6, <2>1, <3>2
    <3>4. LastAttempt(log', lane) = LastAttempt(log, lane)
      BY <3>3 DEF LastAttempt
    <3>5. "stage_completed" \in AttemptEnds
      BY DEF AttemptEnds
    <3> QED
      BY <1>g, <3>1, <3>4, <3>5, EndStays DEF Done
  <2>2. stage.lane \in DOMAIN Before
    BY <1>0 DEF IInv, Course
  <2>3. All(log', {"action_opened"}) = {}
    <3>1. All(log, {"action_opened"}) = {}
      BY <1>0 DEF IInv, Course, Final
    <3> QED
      BY <1>1, <1>g, <3>1, Grown
  <2>4. \A d \in All(log', {"run_decision"}) :
          log'[d].say = "completed" /\ Live(log') => log'[d].who = "operator_gateway"
    <3>1. All(log', {"run_decision"}) = All(log, {"run_decision"})
          /\ \A d \in All(log, {"run_decision"}) : log'[d] = log[d]
      BY <1>1, <1>g, Grown
    <3>2. Live(log') <=> Live(log)
      BY <1>1, <1>g, SaidGrow
    <3> QED
      BY <3>1, <3>2 DEF IInv, Course
  <2> QED
    BY <1>3, <1>4, <2>1, <2>2, <2>3, <2>4 DEF Course, Prepared
<1> QED
  BY <1>5, <1>7, <1>8 DEF IInv

LEMMA CompleteKeeps ==
  ASSUME IInv, Complete
  PROVE  IInv'
<1> DEFINE t == IF stage.lane \in Reviews /\ ~Approves(stage.reply)
                THEN "stage_rejected" ELSE "stage_completed"
           r == Mine(t, "none")
<1>0. /\ pc = "complete" /\ Appends(r, "route", "sent") /\ stage' = stage
      /\ UNCHANGED <<gateway, supervisor>>
  BY DEF Complete
<1>1. r \in Receipts /\ r.t = t /\ r.at = stage.at
  <2>1. t \in Kinds /\ "none" \in Words
    BY DEF Kinds, OfAttempt, AttemptEnds, Words
  <2> HIDE DEF t
  <2> QED
    BY <2>1, MineIs DEF IInv
<1>t. t \in {"stage_rejected", "stage_completed"}
  OBVIOUS
<1> HIDE DEF r
<1>2. LogStep({r}) /\ sealed' = sealed
  BY <1>0, <1>1, <1>t, AppendsStep DEF IInv, Typed
<1>3. \/ pc' = "route" /\ log' = Append(log, r)
      \/ pc' = "sent"
  BY <1>0 DEF Appends
<1>4. Typed' /\ LogInv(log') /\ Answered' /\ Closed'
  <2>1. /\ stage' = [lane |-> stage'.lane, at |-> stage'.at, of |-> stage'.of, reply |-> stage'.reply]
        /\ stage'.lane \in LaneNames /\ stage'.at \in Int /\ stage'.of \in Int
    BY <1>0, StageKept DEF IInv
  <2> QED
    BY <1>0, <1>2, <2>1, EngineStep
<1>g. log \in Seq(Receipts) /\ Grows(log, log', {r}) /\ LogInv(log')
  BY <1>2 DEF IInv, Typed, LogStep
<1>5. Ahead'
  <2>1. Follows
    BY <1>0, <1>3 DEF Follows, Prepared
  <2>2. ~Waiting(log)
    BY <1>0, NotWaiting DEF IInv, Final
  <2>3. r.t # "stage_attempt_created" /\ r.t # "run_decision"
    BY <1>1, <1>t
  <2> QED
    BY <1>2, <2>1, <2>2, <2>3, AheadStep DEF IInv
<1>6. pc' = "route" => EndOf(log', stage.at) = t
  <2>1. SUFFICES ASSUME pc' = "route" PROVE EndOf(log', stage.at) = t
    OBVIOUS
  <2>2. log' = Append(log, r)
    BY <1>3, <2>1
  <2>3. log'[Len(log) + 1] = r
    BY <1>1, <1>g, <2>2, Longer
  <2>4. Len(log) + 1 \in All(log', AttemptEnds)
    <3>1. r.t \in AttemptEnds
      BY <1>1, <1>t DEF AttemptEnds
    <3> QED
      BY <1>1, <1>g, <2>2, <3>1, AllLonger
  <2>5. \A j \in All(log', AttemptEnds) : log'[j].at = log'[Len(log) + 1].at => j = Len(log) + 1
    BY <1>g, <2>4 DEF LogInv
  <2>6. log' \in Seq(Receipts)
    BY <1>g DEF Grows
  <2>7. EndOf(log', log'[Len(log) + 1].at) = log'[Len(log) + 1].t
    BY <2>4, <2>5, <2>6, EndIs
  <2> QED
    BY <1>1, <2>3, <2>7
<1>7. Course'
  <2>1. Quiet({r})
    BY <1>1, <1>t DEF Quiet
  <2>2. /\ \A lane : Done(log, lane) => Done(log', lane)
        /\ All(log', {"action_opened"}) = All(log, {"action_opened"})
        /\ \A i \in All(log', {"action_opened"}) : log'[i].say = "escalation" \/ Audits(log')
        /\ \A d \in All(log', {"run_decision"}) :
             log'[d].say = "completed" /\ Live(log') => log'[d].who = "operator_gateway"
    BY <1>2, <2>1, CourseKept DEF IInv
  <2>3. All(log, {"action_opened"}) = {}
    BY <1>0 DEF IInv, Course, Final
  <2>4. stage.lane \in DOMAIN Before /\ \A lane \in Before[stage.lane] : Done(log', lane)
    BY <1>0, <2>2 DEF IInv, Course, Prepared
  <2>5. pc' = "route" =>
          EndOf(log', stage'.at) = IF stage'.lane \in Reviews /\ ~Approves(stage'.reply)
                                   THEN "stage_rejected" ELSE "stage_completed"
    BY <1>0, <1>6
  <2> QED
    BY <1>0, <1>3, <2>2, <2>3, <2>4, <2>5 DEF Course, Prepared, Approves
<1> QED
  BY <1>4, <1>5, <1>7 DEF IInv

\* The stage the engine is about is the latest of its lane, and the newest.
LEMMA LatestIs ==
  ASSUME Typed, Ahead, pc \in Prepared
  PROVE  /\ LastAttempt(log, stage.lane) = stage.at /\ stage.at \in Nat /\ stage.at # 0
         /\ \A lane : lane # stage.lane => LastAttempt(log, lane) < stage.at
<1>1. /\ stage.at \in Attempts(log) /\ log[stage.at].lane = stage.lane
      /\ \A a \in Attempts(log) : a <= stage.at
  BY DEF Ahead
<1>2. log \in Seq(Receipts)
  BY DEF Typed
<1>3. \A a \in Attempts(log) : a \in DOMAIN log /\ a \in Nat /\ a # 0
  BY <1>2, LenProperties DEF Attempts, All
<1>4. LastAttempt(log, stage.lane) = stage.at
  <2> DEFINE S == {a \in Attempts(log) : log[a].lane = stage.lane}
  <2>1. stage.at \in S /\ \A a \in S : a \in DOMAIN log /\ a \in Nat /\ a <= stage.at
    BY <1>1, <1>3
  <2>2. LastAttempt(log, stage.lane) = Newest(S)
    BY DEF LastAttempt
  <2> HIDE DEF S
  <2>3. S # {} /\ \A i \in S : i \in DOMAIN log
    BY <2>1
  <2>4. Max(S) \in S /\ \A i \in S : i <= Max(S)
    BY <1>2, <2>3, NewestIs
  <2>5. PICK x \in S : x = Max(S)
    BY <2>4
  <2>6. x = stage.at
    BY <2>1, <2>4, <2>5
  <2> QED
    BY <2>2, <2>3, <2>5, <2>6 DEF Newest
<1>5. ASSUME NEW lane, lane # stage.lane
      PROVE  LastAttempt(log, lane) < stage.at
  <2> DEFINE S == {a \in Attempts(log) : log[a].lane = lane}
  <2>1. \A a \in S : a \in DOMAIN log /\ a \in Nat /\ a < stage.at
    BY <1>1, <1>3, <1>5
  <2>2. LastAttempt(log, lane) = Newest(S)
    BY DEF LastAttempt
  <2> HIDE DEF S
  <2>3. CASE S = {}
    BY <1>1, <1>3, <2>2, <2>3 DEF Newest
  <2>4. CASE S # {}
    <3>1. Max(S) \in S
      BY <1>2, <2>1, <2>4, NewestIs
    <3> QED
      BY <2>1, <2>2, <2>4, <3>1 DEF Newest
  <2> QED
    BY <2>3, <2>4
<1> QED
  BY <1>1, <1>3, <1>4, <1>5

LEMMA RepairRoleIs ==
  ASSUME NEW defects
  PROVE  RepairRole(defects) \in {"human_escalation", "none"} \cup ConditionalLanes
<1> DEFINE lane(d) == IF d = "ui" THEN "refine_ui" ELSE "refine_bug"
           high == {n \in DOMAIN defects : defects[n] \in {"high", "ui"}}
<1>1. RepairRole(defects) \in {"human_escalation", "none", lane(defects[Min(high)])}
  BY DEF RepairRole
<1>2. lane(defects[Min(high)]) \in ConditionalLanes
  BY DEF ConditionalLanes
<1> QED
  BY <1>1, <1>2

LEMMA RouteKeeps ==
  ASSUME IInv, Route
  PROVE  IInv'
<1>0. /\ pc = "route" /\ log' = log /\ sealed' = sealed /\ UNCHANGED <<gateway, supervisor>>
  BY DEF Route
<1>i. Typed /\ Ahead /\ Course /\ pc \in Prepared /\ pc \notin Final
  BY <1>0 DEF IInv, Prepared, Final
<1>1. \/ Start1("g1r") /\ stage.lane = "g1d"
      \/ Start1("builder") /\ stage.lane = "g1r" /\ Approves(stage.reply)
      \/ Start1("g2a") /\ stage.lane \notin {"g1d", "g1r", "g2a"}
      \/ Stop("blocked") \/ Stop("escalation")
      \/ Stop("approval") /\ stage.lane = "g2a" /\ Approves(stage.reply)
      \/ \E role \in ConditionalLanes :
           pc' = "repair" /\ stage' = [NoStage EXCEPT !.lane = role] /\ stage.lane = "g2a"
  <2>1. CASE stage.lane = "g2a"
    <3>1. Audited
      BY <2>1 DEF Route
    <3>2. RepairRole(stage.reply[2]) \in {"human_escalation", "none"} \cup ConditionalLanes
      BY RepairRoleIs
    <3> QED
      BY <2>1, <3>1, <3>2 DEF Audited
  <2>2. CASE stage.lane # "g2a"
    BY <2>2 DEF Route
  <2> QED
    BY <2>1, <2>2
<1>2. \/ pc' \in {"blocked", "escalation", "approval"} /\ stage' = stage
      \/ pc' \in {"create", "repair"} /\ \E lane \in CoreLanes \cup ConditionalLanes :
                                            stage' = [NoStage EXCEPT !.lane = lane]
  BY <1>1 DEF Start1, Stop, CoreLanes
<1>3. /\ stage' = [lane |-> stage'.lane, at |-> stage'.at, of |-> stage'.of, reply |-> stage'.reply]
      /\ stage'.lane \in LaneNames /\ stage'.at \in Int /\ stage'.of \in Int
  <2>1. CASE stage' = stage
    BY <1>i, <2>1, StageKept
  <2>2. CASE \E lane \in CoreLanes \cup ConditionalLanes : stage' = [NoStage EXCEPT !.lane = lane]
    BY <2>2 DEF NoStage, LaneNames
  <2> QED
    BY <1>2, <2>1, <2>2
<1>4. LogStep({})
  BY <1>0, NoStep DEF IInv, Typed
<1>5. Typed' /\ LogInv(log') /\ Answered' /\ Closed'
  BY <1>0, <1>3, <1>4, EngineStep
<1>6. Ahead'
  <2>1. ~Waiting(log)
    BY <1>i, NotWaiting
  <2>2. pc' \in {"blocked", "escalation", "approval", "create", "repair"}
    BY <1>2
  <2> QED
    BY <1>0, <2>1, <2>2 DEF Ahead, Prepared
<1>7. /\ stage.lane \in DOMAIN Before /\ \A lane \in Before[stage.lane] : Done(log, lane)
      /\ EndOf(log, stage.at) = IF stage.lane \in Reviews /\ ~Approves(stage.reply)
                                THEN "stage_rejected" ELSE "stage_completed"
  BY <1>0, <1>i DEF Course
<1>8. stage.lane \notin Reviews \/ Approves(stage.reply) => Done(log, stage.lane)
  BY <1>7, <1>i, LatestIs DEF Done
<1>9. Course'
  <2>1. /\ All(log, {"action_opened"}) = {}
        /\ \A i \in All(log', {"action_opened"}) : log'[i].say = "escalation" \/ Audits(log')
        /\ \A d \in All(log', {"run_decision"}) :
             log'[d].say = "completed" /\ Live(log') => log'[d].who = "operator_gateway"
    BY <1>0, <1>i DEF Course, Final
  <2>2. pc' = "approval" => Audits(log)
    <3>1. SUFFICES ASSUME stage.lane = "g2a", Approves(stage.reply) PROVE Audits(log)
      BY <1>1 DEF Start1, Stop
    <3>2. \A lane \in CoreLanes : Done(log, lane)
      BY <1>7, <1>8, <3>1 DEF Before
    <3>3. \A lane \in ConditionalLanes : LastAttempt(log, lane) < LastAttempt(log, "g2a")
      <4>1. "g2a" \notin ConditionalLanes
        BY DEF ConditionalLanes
      <4> QED
        BY <1>i, <3>1, <4>1, LatestIs
    <3> QED
      BY <3>2, <3>3 DEF Audits
  <2>3. pc' \in Prepared \cup {"create", "repair"} =>
          /\ stage'.lane \in DOMAIN Before
          /\ \A lane \in Before[stage'.lane] : Done(log, lane)
    <3>1. CASE Start1("g1r") /\ stage.lane = "g1d"
      BY <1>8, <3>1 DEF Start1, NoStage, Before, Reviews
    <3>2. CASE Start1("builder") /\ stage.lane = "g1r" /\ Approves(stage.reply)
      BY <1>7, <1>8, <3>2 DEF Start1, NoStage, Before
    <3>3. CASE Start1("g2a") /\ stage.lane \notin {"g1d", "g1r", "g2a"}
      <4>1. stage.lane \in {"builder"} \cup ConditionalLanes
        BY <1>7, <3>3 DEF Before, ConditionalLanes
      <4>2. Before["g2a"] = CoreLanes \ {"g2a"} /\ "g2a" \in DOMAIN Before
        BY DEF Before
      <4>3. stage'.lane = "g2a"
        BY <3>3 DEF Start1, NoStage
      <4>4. CASE stage.lane = "builder"
        <5>1. Done(log, "builder") /\ Done(log, "g1d") /\ Done(log, "g1r")
          BY <1>7, <1>8, <4>4 DEF Reviews, Before
        <5> QED
          BY <4>2, <4>3, <5>1 DEF CoreLanes
      <4>5. CASE stage.lane \in ConditionalLanes
        <5>1. Before[stage.lane] = CoreLanes \ {"g2a"}
          BY <4>5 DEF Before, ConditionalLanes
        <5> QED
          BY <1>7, <4>2, <4>3, <5>1
      <4> QED
        BY <4>1, <4>4, <4>5
    <3>4. CASE \E role \in ConditionalLanes :
                 pc' = "repair" /\ stage' = [NoStage EXCEPT !.lane = role] /\ stage.lane = "g2a"
      <4>1. PICK role \in ConditionalLanes : stage' = [NoStage EXCEPT !.lane = role] /\ stage.lane = "g2a"
        BY <3>4
      <4>2. stage'.lane = role
        BY <4>1 DEF NoStage
      <4>3. role \in DOMAIN Before /\ Before[role] = Before["g2a"]
        BY DEF Before, ConditionalLanes
      <4> QED
        BY <1>7, <4>1, <4>2, <4>3
    <3>5. CASE pc' \in {"blocked", "escalation", "approval"}
      BY <3>5 DEF Prepared
    <3> QED
      BY <1>1, <3>1, <3>2, <3>3, <3>4, <3>5 DEF Stop
  <2>4. pc' = "repair" => stage'.lane \in ConditionalLanes
    BY <1>1 DEF Start1, Stop, NoStage
  <2>5. pc' \notin {"route", "completed"}
    BY <1>2
  <2> QED
    BY <1>0, <2>1, <2>2, <2>3, <2>4, <2>5 DEF Course
<1> QED
  BY <1>5, <1>6, <1>9 DEF IInv

LEMMA EngineKeeps ==
  ASSUME IInv, Engine
  PROVE  IInv'
BY AttestKeeps, PlanKeeps, CreateKeeps, PreflightKeeps, BlockKeeps, ConsumeKeeps, ReserveKeeps,
   StartKeeps, CallKeeps, CompleteKeeps, FailKeeps, RouteKeeps, RepairKeeps, OpenActionKeeps,
   AwaitKeeps, DecideKeeps, SealKeeps DEF Engine

----------------------------------------------------------------------------
(* The operator's gateway and the supervisor.                              *)

LEMMA OtherStep ==
  ASSUME IInv, NEW R, LogStep(R), UNCHANGED <<pc, stage>>, Quiet(R),
         \A x \in R : x.t = "run_decision" => x.say # "awaiting_approval",
         gate' \in [cmd : Words, lane : LaneNames],
         confirm' = [seq |-> confirm'.seq, at |-> confirm'.at, gen |-> confirm'.gen],
         confirm'.at \in Int,
         \A x \in answers' : x \in answers \/ (x[2] \in Commands(log') /\ log'[x[2]].say = x[1]),
         sealed' => sealed \/ PendingCommands(log') = {},
         watch' = "seal" => watch = "seal" \/ Decided(log')
  PROVE  IInv'
<1>0. log \in Seq(Receipts) /\ log' \in Seq(Receipts) /\ LogInv(log')
  BY DEF IInv, Typed, LogStep, Grows
<1>1. Typed'
  BY <1>0 DEF IInv, Typed
<1>2. Answered'
  BY <1>0, AnsweredStep DEF IInv
<1>3. Closed'
  BY <1>0, ClosedStep DEF IInv
<1>4. Follows /\ Keeps
  BY DEF IInv, Ahead, Follows, Keeps
<1>5. Ahead'
  <2>1. Waiting(log) => pc' \in Final
    BY DEF IInv, Ahead
  <2> QED
    BY <1>4, <2>1, AheadStep DEF IInv, Quiet
<1>6. Course'
  BY <1>4, CourseStep DEF IInv
<1> QED
  BY <1>0, <1>1, <1>2, <1>3, <1>5, <1>6 DEF IInv

\* A step that writes no receipt and leaves engine, answers and seal alone.
LEMMA OtherNone ==
  ASSUME IInv, log' = log, sealed' = sealed, UNCHANGED <<pc, stage, answers>>,
         gate' \in [cmd : Words, lane : LaneNames],
         confirm' = [seq |-> confirm'.seq, at |-> confirm'.at, gen |-> confirm'.gen],
         confirm'.at \in Int, watch' = "seal" => watch = "seal"
  PROVE  IInv'
<1>1. LogStep({}) /\ Quiet({})
  BY NoStep DEF IInv, Typed, Quiet
<1> QED
  BY <1>1, OtherStep

LEMMA KeptShape ==
  ASSUME Typed
  PROVE  /\ gate \in [cmd : Words, lane : LaneNames] /\ Idle \in [cmd : Words, lane : LaneNames]
         /\ confirm = [seq |-> confirm.seq, at |-> confirm.at, gen |-> confirm.gen]
         /\ confirm.at \in Int
BY DEF Typed, Idle, Words, LaneNames

LEMMA SubmitKeeps ==
  ASSUME IInv, NEW c \in Cmds, NEW lane \in Targets, NEW valid \in BOOLEAN, Submit(c, lane, valid)
  PROVE  IInv'
<1> DEFINE r == Receipt("command_rejected", "operator_gateway", lane, 0, 0, c)
<1>0. /\ sealed' = sealed /\ UNCHANGED <<pc, stage>> /\ confirm' = confirm /\ watch' = watch
  BY DEF Submit, engine, supervisor
<1>k. /\ gate \in [cmd : Words, lane : LaneNames]
      /\ confirm = [seq |-> confirm.seq, at |-> confirm.at, gen |-> confirm.gen]
      /\ confirm.at \in Int
  BY KeptShape DEF IInv
<1>t. lane \in LaneNames /\ c \in Words
  BY RunAssumption DEF LaneNames, Words
<1>1. CASE log' = log /\ gate' = gate /\ answers' = answers \cup {<<c, i>> : i \in AcceptedAs(c)}
  <2>1. \A x \in answers' : x \in answers \/ (x[2] \in Commands(log') /\ log'[x[2]].say = x[1])
    BY <1>1 DEF AcceptedAs
  <2>2. LogStep({}) /\ Quiet({})
    BY <1>1, NoStep DEF IInv, Typed, Quiet
  <2> QED
    BY <1>0, <1>k, <1>1, <2>1, <2>2, OtherStep
<1>2. CASE log' = log /\ gate' = [cmd |-> c, lane |-> lane] /\ answers' = answers
  <2>1. gate' \in [cmd : Words, lane : LaneNames]
    BY <1>2, <1>t
  <2> QED
    BY <1>0, <1>k, <1>2, <2>1, OtherNone
<1>3. CASE log' = (IF CanWrite(r) THEN Append(log, r) ELSE log) /\ gate' = gate /\ answers' = answers
  <2>1. r \in Receipts /\ r.t = "command_rejected"
    <3>1. "command_rejected" \in Kinds /\ "operator_gateway" \in Writers /\ 0 \in Int
      BY DEF Kinds, Writers
    <3> QED
      BY <1>t, <3>1, ReceiptIs
  <2> HIDE DEF r
  <2>2. LogStep({r})
    <3>1. CASE CanWrite(r)
      BY <1>3, <2>1, <3>1, OneStep DEF CanWrite, IInv, Typed
    <3>2. CASE ~CanWrite(r)
      BY <1>3, <3>2, NoStep DEF IInv, Typed
    <3> QED
      BY <3>1, <3>2
  <2>3. Quiet({r}) /\ \A x \in {r} : x.t = "run_decision" => x.say # "awaiting_approval"
    BY <2>1 DEF Quiet
  <2> QED
    BY <1>0, <1>k, <1>3, <2>2, <2>3, OtherStep
<1> QED
  BY <1>1, <1>2, <1>3 DEF Submit

LEMMA AcceptKeeps ==
  ASSUME IInv, Accept
  PROVE  IInv'
<1> DEFINE r == Receipt("command_accepted", "operator_gateway", gate.lane, 0, 0, gate.cmd)
           n == Len(log) + 1
<1>0. /\ sealed' = sealed /\ UNCHANGED <<pc, stage>> /\ confirm' = confirm /\ watch' = watch
      /\ gate' = Idle
  BY DEF Accept, engine, supervisor
<1>k. /\ gate' \in [cmd : Words, lane : LaneNames]
      /\ confirm = [seq |-> confirm.seq, at |-> confirm.at, gen |-> confirm.gen]
      /\ confirm.at \in Int
  BY <1>0, KeptShape DEF IInv
<1>1. CASE ~CanWrite(r) /\ log' = log /\ answers' = answers
  BY <1>0, <1>k, <1>1, OtherNone
<1>2. CASE CanWrite(r) /\ log' = Append(log, r) /\ answers' \in {answers, answers \cup {<<gate.cmd, n>>}}
  <2>1. r \in Receipts /\ r.t = "command_accepted" /\ r.say = gate.cmd
    <3>1. "command_accepted" \in Kinds /\ "operator_gateway" \in Writers /\ 0 \in Int
          /\ gate.lane \in LaneNames /\ gate.cmd \in Words
      BY DEF Kinds, Writers, IInv, Typed
    <3> QED
      BY <3>1, ReceiptIs
  <2> HIDE DEF r
  <2>2. LogStep({r})
    BY <1>2, <2>1, OneStep DEF CanWrite, IInv, Typed
  <2>3. Quiet({r}) /\ \A x \in {r} : x.t = "run_decision" => x.say # "awaiting_approval"
    BY <2>1 DEF Quiet
  <2>4. n \in Commands(log') /\ log'[n].say = gate.cmd
    <3>0. log \in Seq(Receipts)
      BY DEF IInv, Typed
    <3>1. log'[n] = r
      BY <1>2, <2>1, <3>0, Longer
    <3>2. n \in All(log', {"command_accepted"})
      BY <1>2, <2>1, <3>0, AllLonger
    <3> QED
      BY <2>1, <3>1, <3>2 DEF Commands
  <2>5. \A x \in answers' : x \in answers \/ (x[2] \in Commands(log') /\ log'[x[2]].say = x[1])
    BY <1>2, <2>4
  <2> QED
    BY <1>0, <1>k, <2>2, <2>3, <2>5, OtherStep
<1> QED
  BY <1>1, <1>2 DEF Accept

LEMMA ConcatKinds ==
  ASSUME NEW a \in Seq(Receipts), NEW b \in Seq(Receipts), NEW R,
         \A k \in 1..Len(a) : a[k] \in R, \A k \in 1..Len(b) : b[k] \in R
  PROVE  a \o b \in Seq(Receipts) /\ \A k \in 1..Len(a \o b) : (a \o b)[k] \in R
<1>1. Len(a) \in Nat /\ Len(b) \in Nat
  BY LenProperties
<1>2. PICK s : s = a \o b
  OBVIOUS
<1>3. /\ s \in Seq(Receipts) /\ Len(s) = Len(a) + Len(b)
      /\ \A k \in 1..(Len(a) + Len(b)) : s[k] = IF k <= Len(a) THEN a[k] ELSE b[k - Len(a)]
  BY <1>2, ConcatProperties
<1>4. \A k \in 1..Len(s) : s[k] \in R
  <2> TAKE k \in 1..Len(s)
  <2>1. CASE k <= Len(a)
    BY <1>1, <1>3, <2>1
  <2>2. CASE ~(k <= Len(a))
    <3>1. k - Len(a) \in 1..Len(b)
      BY <1>1, <1>3, <2>2
    <3> QED
      BY <1>1, <1>3, <2>2, <3>1
  <2> QED
    BY <2>1, <2>2
<1> QED
  BY <1>2, <1>3, <1>4

LEMMA NewestMember ==
  ASSUME log \in Seq(Receipts), NEW S, \A i \in S : i \in DOMAIN log
  PROVE  Newest(S) \in Int /\ (Newest(S) # 0 => Newest(S) \in S) /\ (Newest(S) = 0 => S = {})
<1>1. \A i \in S : i \in Int /\ i # 0
  BY LenProperties
<1>2. CASE S = {}
  BY <1>2 DEF Newest
<1>3. CASE S # {}
  <2>1. PICK i \in S : i = Max(S)
    BY <1>3, NewestIs
  <2> QED
    BY <1>1, <1>3, <2>1 DEF Newest
<1> QED
  BY <1>2, <1>3

\* The operator's resolution, and the receipts it closes the run with.
Resolution(resolution) ==
  Receipt("action_resolved", "operator_gateway", "none", 0, Newest(OpenActions(log)), resolution)
Verdict(resolution) ==
  Receipt("run_decision", "operator_gateway", "none", 0, Len(log) + 1, OutcomeMap[resolution])
Resolving(resolution) ==
  <<Resolution(resolution)>> \o Terminal(Append(log, Resolution(resolution)), Verdict(resolution))

LEMMA ResolvingIs ==
  ASSUME log \in Seq(Receipts), NEW resolution \in DOMAIN OutcomeMap
  PROVE  /\ Resolving(resolution) \in Seq(Receipts)
         /\ \A k \in 1..Len(Resolving(resolution)) :
              Resolving(resolution)[k] \in
                {x \in Receipts : x.t \in Closing \cup {"action_resolved"} \/ x = Verdict(resolution)}
         /\ Verdict(resolution).t = "run_decision" /\ Verdict(resolution).who = "operator_gateway"
         /\ Verdict(resolution).say \in {"completed", "blocked"}
         /\ Resolution(resolution) \in Receipts /\ Verdict(resolution) \in Receipts
<1> DEFINE a == Resolution(resolution)
           b == Verdict(resolution)
           R == {x \in Receipts : x.t \in Closing \cup {"action_resolved"} \/ x = b}
<1>0. resolution \in {"approved", "rejected"} /\ OutcomeMap[resolution] \in {"completed", "blocked"}
  BY DEF OutcomeMap
<1>1. Newest(OpenActions(log)) \in Int /\ Len(log) + 1 \in Int
  BY NewestMember, LenProperties DEF OpenActions, All
<1>2. a \in Receipts /\ a.t = "action_resolved"
  <2>1. "action_resolved" \in Kinds /\ "operator_gateway" \in Writers /\ "none" \in LaneNames
        /\ resolution \in Words /\ 0 \in Int
    BY <1>0 DEF Kinds, Writers, LaneNames, Words
  <2>2. PICK o : o = Newest(OpenActions(log))
    OBVIOUS
  <2>3. a = Receipt("action_resolved", "operator_gateway", "none", 0, o, resolution)
    BY <2>2 DEF Resolution
  <2> HIDE DEF a
  <2> QED
    BY <1>1, <2>1, <2>2, <2>3, ReceiptIs
<1>3. /\ b \in Receipts /\ b.t = "run_decision" /\ b.who = "operator_gateway"
      /\ b.say = OutcomeMap[resolution]
  <2>1. "run_decision" \in Kinds /\ "operator_gateway" \in Writers /\ "none" \in LaneNames
        /\ OutcomeMap[resolution] \in Words /\ 0 \in Int
    BY <1>0 DEF Kinds, Writers, LaneNames, Words
  <2>2. PICK w : w = OutcomeMap[resolution]
    OBVIOUS
  <2>3. PICK n : n = Len(log) + 1
    OBVIOUS
  <2>4. b = Receipt("run_decision", "operator_gateway", "none", 0, n, w)
    BY <2>2, <2>3 DEF Verdict
  <2>5. w \in Words /\ n \in Int
    BY <1>1, <2>1, <2>2, <2>3
  <2> HIDE DEF b
  <2>6. /\ b \in Receipts /\ b.t = "run_decision" /\ b.who = "operator_gateway"
        /\ b.say = w
    BY <2>1, <2>4, <2>5, ReceiptIs
  <2> QED
    BY <2>2, <2>6
<1> HIDE DEF a, b
<1>4. PICK s : s = Terminal(Append(log, a), b)
  OBVIOUS
<1>5. s \in Seq(Receipts) /\ \A k \in 1..Len(s) : s[k] \in {x \in Receipts : x.t \in Closing \/ x = b}
  <2>1. Append(log, a) \in Seq(Receipts)
    BY <1>2, AppendProperties
  <2> QED
    BY <1>3, <1>4, <2>1, TerminalKinds
<1>6. \A k \in 1..Len(s) : s[k] \in R
  BY <1>5
<1>7. <<a>> \in Seq(Receipts) /\ \A k \in 1..Len(<<a>>) : <<a>>[k] \in R
  BY <1>2
<1> HIDE DEF R
<1>8. <<a>> \o s \in Seq(Receipts) /\ \A k \in 1..Len(<<a>> \o s) : (<<a>> \o s)[k] \in R
  BY <1>5, <1>6, <1>7, ConcatKinds
<1>9. Resolving(resolution) = <<a>> \o s
  BY <1>4 DEF Resolving, a, b
<1> QED
  BY <1>0, <1>2, <1>3, <1>8, <1>9 DEF a, b, R

LEMMA ResolveWrites ==
  ASSUME IInv, NEW resolution \in DOMAIN OutcomeMap, Resolve(resolution)
  PROVE  /\ sealed' => sealed \/ PendingCommands(log') = {}
         /\ \E R : /\ LogStep(R)
                  /\ \A x \in R : \/ x.t \in Closing \cup {"action_resolved"}
                                 \/ /\ x.t = "run_decision" /\ x.who = "operator_gateway"
                                    /\ x.say \in {"completed", "blocked"}
<1> DEFINE rs == Resolving(resolution)
           d == Verdict(resolution)
           R == {x \in Receipts : x.t \in Closing \cup {"action_resolved"} \/ x = d}
<1>0. log \in Seq(Receipts) /\ LogInv(log)
  BY DEF IInv, Typed
<1>1. /\ ~sealed
      /\ \/ log' = Extend(log, rs).log /\ sealed' = (Extend(log, rs).ok /\ Sealable(Extend(log, rs).log))
         \/ (\E p \in Heads(rs) : log' = Extend(log, p).log) /\ sealed' = sealed
  BY DEF Resolve, Resolving, Verdict, Resolution
<1>2. /\ rs \in Seq(Receipts) /\ \A k \in 1..Len(rs) : rs[k] \in R
      /\ d.t = "run_decision" /\ d.who = "operator_gateway" /\ d.say \in {"completed", "blocked"}
  BY <1>0, ResolvingIs
<1> HIDE DEF rs, d
<1>3. \A x \in R : x.t \in Closing \cup {"action_resolved"} \/ x = d
  OBVIOUS
<1>4. \A x \in R : x.t # "stage_dispatch_started"
  BY <1>2, <1>3 DEF Closing
<1> HIDE DEF R
<1>5. LogStep(R)
  BY <1>0, <1>1, <1>2, <1>4, AllStep, HeadStep
<1>6. sealed' => sealed \/ PendingCommands(log') = {}
  <2>1. CASE log' = Extend(log, rs).log /\ sealed' = (Extend(log, rs).ok /\ Sealable(Extend(log, rs).log))
    <3>1. sealed' => Sealable(log')
      BY <2>1, Zenon
    <3> QED
      BY <3>1 DEF Sealable
  <2>2. CASE sealed' = sealed
    BY <2>2
  <2> QED
    BY <1>1, <2>1, <2>2
<1> QED
  BY <1>2, <1>3, <1>5, <1>6

LEMMA ResolveKeeps ==
  ASSUME IInv, NEW resolution \in DOMAIN OutcomeMap, Resolve(resolution)
  PROVE  IInv'
<1>1. sealed' => sealed \/ PendingCommands(log') = {}
  BY ResolveWrites
<1>2. PICK R : /\ LogStep(R)
               /\ \A x \in R : \/ x.t \in Closing \cup {"action_resolved"}
                              \/ /\ x.t = "run_decision" /\ x.who = "operator_gateway"
                                 /\ x.say \in {"completed", "blocked"}
  BY ResolveWrites
<1>3. Quiet(R) /\ \A x \in R : x.t = "run_decision" => x.say # "awaiting_approval"
  BY <1>2 DEF Quiet, Closing
<1>4. /\ UNCHANGED <<pc, stage>> /\ confirm' = confirm /\ watch' = watch /\ gate' = gate
      /\ answers' = answers
  BY DEF Resolve, engine, supervisor, gateway
<1>5. /\ gate \in [cmd : Words, lane : LaneNames]
      /\ confirm = [seq |-> confirm.seq, at |-> confirm.at, gen |-> confirm.gen]
      /\ confirm.at \in Int
  BY KeptShape DEF IInv
<1> QED
  BY <1>1, <1>2, <1>3, <1>4, <1>5, OtherStep

\* A call that was accepted to its last receipt wrote it.
LEMMA AcceptedLast ==
  ASSUME NEW l \in Seq(Receipts), LogInv(l), NEW r \in Receipts,
         r.t \in {"run_decision", "run_abandoned"}, Extend(l, Terminal(l, r)).ok
  PROVE  \E d \in DOMAIN Extend(l, Terminal(l, r)).log : Extend(l, Terminal(l, r)).log[d] = r
<1> DEFINE rs == Terminal(l, r)
           R == {x \in Receipts : x.t \in Closing \/ x = r}
           m == Extend(l, rs).log
<1>1. rs \in Seq(Receipts) /\ (\A k \in 1..Len(rs) : rs[k] \in R) /\ Len(rs) \in Nat \ {0} /\ rs[Len(rs)] = r
  BY TerminalKinds, TerminalIs
<1>2. \A x \in R : x.t # "stage_dispatch_started"
  BY DEF Closing
<1> HIDE DEF rs, R
<1>3. m = l \o rs
  <2>1. Extend(l, rs).ok
    BY DEF rs
  <2> QED
    BY <1>1, <1>2, <2>1, ManyGrow
<1> HIDE DEF m
<1>4. /\ m \in Seq(Receipts) /\ Len(m) = Len(l) + Len(rs) /\ Len(l) \in Nat
      /\ \A k \in 1..(Len(l) + Len(rs)) : m[k] = IF k <= Len(l) THEN l[k] ELSE rs[k - Len(l)]
  BY <1>1, <1>3, ConcatProperties, LenProperties
<1>5. /\ Len(l) + Len(rs) \in 1..(Len(l) + Len(rs)) /\ ~(Len(l) + Len(rs) <= Len(l))
      /\ Len(l) + Len(rs) - Len(l) = Len(rs)
  BY <1>1, <1>4
<1>6. m[Len(l) + Len(rs)] = r
  BY <1>1, <1>4, <1>5
<1>7. Len(l) + Len(rs) \in DOMAIN m
  BY <1>1, <1>4, LenProperties
<1> QED
  BY <1>6, <1>7 DEF m, rs

\* So it has decided the run.
LEMMA AcceptedDecides ==
  ASSUME NEW l \in Seq(Receipts), LogInv(l), NEW r \in Receipts,
         r.t \in {"run_decision", "run_abandoned"}, r.say # "awaiting_approval",
         Extend(l, Terminal(l, r)).ok
  PROVE  Decided(Extend(l, Terminal(l, r)).log) /\ PendingCommands(Extend(l, Terminal(l, r)).log) = {}
<1> DEFINE rs == Terminal(l, r)
           R == {x \in Receipts : x.t \in Closing \/ x = r}
           m == Extend(l, rs).log
<1>1. rs \in Seq(Receipts) /\ \A k \in 1..Len(rs) : rs[k] \in R
  BY TerminalKinds
<1>2. \A x \in R : x.t # "stage_dispatch_started"
  BY DEF Closing
<1> HIDE DEF R
<1>3. \E d \in DOMAIN m : m[d] = r
  BY AcceptedLast
<1> HIDE DEF rs
<1>4. LogInv(m)
  BY <1>1, <1>2, ManyGrow
<1> HIDE DEF m
<1>5. Decided(m)
  BY <1>3 DEF Decided, All
<1> QED
  BY <1>4, <1>5 DEF LogInv, m, rs

LEMMA WorkerDiesKeeps ==
  ASSUME IInv, WorkerDies
  PROVE  IInv'
<1>0. /\ log' = log /\ sealed' = sealed /\ answers' = answers /\ confirm' = confirm /\ watch' = watch
      /\ pc' = "dead" /\ stage' = NoStage /\ gate' = Idle
  BY DEF WorkerDies, supervisor
<1>1. /\ LogStep({}) /\ Quiet({}) /\ Follows /\ Keeps
  BY <1>0, NoStep DEF IInv, Typed, Quiet, Follows, Keeps, Final, Prepared
<1>2. Typed'
  <2>1. /\ NoStage = [lane |-> NoStage.lane, at |-> NoStage.at, of |-> NoStage.of, reply |-> NoStage.reply]
        /\ NoStage.lane \in LaneNames /\ NoStage.at \in Int /\ NoStage.of \in Int
    BY DEF NoStage, LaneNames
  <2>2. Idle \in [cmd : Words, lane : LaneNames]
    BY KeptShape DEF IInv
  <2> QED
    BY <1>0, <2>1, <2>2 DEF IInv, Typed
<1>3. Answered' /\ Closed'
  BY <1>0 DEF IInv, Answered, Closed
<1>4. Ahead'
  BY <1>0 DEF Ahead, Final, Prepared
<1>5. Course'
  BY <1>1, CourseStep DEF IInv
<1> QED
  BY <1>0, <1>2, <1>3, <1>4, <1>5 DEF IInv

LEMMA ConfirmKeeps ==
  ASSUME IInv, Confirm
  PROVE  IInv'
<1>0. /\ log' = log /\ sealed' = sealed /\ UNCHANGED <<pc, stage, answers>> /\ gate' = gate /\ watch' = watch
      /\ confirm' = [seq |-> Len(log), at |-> Newest(OpenAttempts(log)), gen |-> sup.gen]
  BY DEF Confirm, engine, gateway
<1>1. Newest(OpenAttempts(log)) \in Int
  <2>1. \A i \in OpenAttempts(log) : i \in DOMAIN log
    BY DEF OpenAttempts, Attempts, All
  <2> QED
    BY <2>1, NewestMember DEF IInv, Typed
<1>2. PICK n : n = Newest(OpenAttempts(log))
  OBVIOUS
<1>3. /\ confirm' = [seq |-> confirm'.seq, at |-> confirm'.at, gen |-> confirm'.gen]
      /\ confirm'.at \in Int
  BY <1>0, <1>1, <1>2
<1>4. gate' \in [cmd : Words, lane : LaneNames]
  BY <1>0, KeptShape DEF IInv
<1> QED
  BY <1>0, <1>3, <1>4, OtherNone

\* What leaves receipts, engine, answers and confirmation alone.
LEMMA QuietKeeps ==
  ASSUME IInv,
         BrokerDies \/ BrokerStarts \/ MarkOrphaned \/ InterruptEnds \/ SupervisorDies
           \/ ReconcileWorkflow
  PROVE  IInv'
<1>1. /\ log' = log /\ sealed' = sealed /\ UNCHANGED <<pc, stage, answers>> /\ confirm' = confirm
      /\ gate' \in {gate, Idle} /\ watch' \in {watch, "idle"}
  BY DEF BrokerDies, BrokerStarts, MarkOrphaned, InterruptEnds, SupervisorDies, ReconcileWorkflow,
         engine, supervisor, gateway
<1>2. /\ gate' \in [cmd : Words, lane : LaneNames]
      /\ confirm' = [seq |-> confirm'.seq, at |-> confirm'.at, gen |-> confirm'.gen]
      /\ confirm'.at \in Int
  BY <1>1, KeptShape DEF IInv
<1> QED
  BY <1>1, <1>2, OtherNone

LEMMA InterruptKeeps ==
  ASSUME IInv, Interrupt
  PROVE  IInv'
<1>1. PICK a \in OpenAttempts(log) :
        LET r == Receipt("stage_interrupted", "supervisor", log[a].lane, a, 0, "none")
        IN  Allowed(log, r) /\ log' = Append(log, r)
  BY DEF Interrupt
<1> DEFINE r == Receipt("stage_interrupted", "supervisor", log[a].lane, a, 0, "none")
<1>2. /\ ~sealed /\ sealed' = sealed /\ UNCHANGED <<pc, stage, answers>> /\ gate' = gate
      /\ confirm' = confirm /\ watch' = "decide"
  BY DEF Interrupt, engine, gateway
<1>3. r \in Receipts /\ r.t = "stage_interrupted"
  <2>0. log \in Seq(Receipts)
    BY DEF IInv, Typed
  <2>1. a \in DOMAIN log
    BY DEF OpenAttempts, Attempts, All
  <2>2. a \in Int /\ log[a] \in Receipts
    BY <2>0, <2>1, LenProperties, ElementOfSeq
  <2>3. PICK lane : lane = log[a].lane /\ lane \in LaneNames
    BY <2>2 DEF Receipts
  <2>4. "stage_interrupted" \in Kinds /\ "supervisor" \in Writers /\ 0 \in Int /\ "none" \in Words
    BY DEF Kinds, OfAttempt, AttemptEnds, Writers, Words
  <2> QED
    BY <2>2, <2>3, <2>4, ReceiptIs
<1>s. Allowed(log, r) /\ log' = Append(log, r)
  BY <1>1
<1> HIDE DEF r
<1>4. LogStep({r})
  BY <1>2, <1>3, <1>s, OneStep DEF IInv, Typed
<1>5. Quiet({r}) /\ \A x \in {r} : x.t = "run_decision" => x.say # "awaiting_approval"
  BY <1>3 DEF Quiet
<1>6. /\ gate' \in [cmd : Words, lane : LaneNames]
      /\ confirm' = [seq |-> confirm'.seq, at |-> confirm'.at, gen |-> confirm'.gen]
      /\ confirm'.at \in Int
  BY <1>2, KeptShape DEF IInv
<1> QED
  BY <1>2, <1>4, <1>5, <1>6, OtherStep

LEMMA InterruptSealsKeeps ==
  ASSUME IInv, InterruptSeals
  PROVE  IInv'
<1>1. /\ log' = log /\ UNCHANGED <<pc, stage, answers>> /\ gate' = gate /\ confirm' = confirm
      /\ watch = "seal" /\ watch' = "state"
  BY DEF InterruptSeals, engine, gateway
<1>2. PendingCommands(log') = {}
  BY <1>1 DEF IInv, Closed, LogInv
<1>3. LogStep({}) /\ Quiet({})
  BY <1>1, NoStep DEF IInv, Typed, Quiet
<1>4. /\ gate' \in [cmd : Words, lane : LaneNames]
      /\ confirm' = [seq |-> confirm'.seq, at |-> confirm'.at, gen |-> confirm'.gen]
      /\ confirm'.at \in Int
  BY <1>1, KeptShape DEF IInv
<1> QED
  BY <1>1, <1>2, <1>3, <1>4, OtherStep

\* The supervisor's two terminal calls: finalise what is pending, then r.
LEMMA TerminalWrites ==
  ASSUME log \in Seq(Receipts), LogInv(log), NEW r \in Receipts, ~sealed,
         r.t \in {"run_decision", "run_abandoned"},
         \/ log' = Extend(log, Terminal(log, r)).log
         \/ \E p \in Heads(Terminal(log, r)) : log' = Extend(log, p).log
  PROVE  LogStep({x \in Receipts : x.t \in Closing \/ x = r})
<1> DEFINE rs == Terminal(log, r)
           R == {x \in Receipts : x.t \in Closing \/ x = r}
<1>1. rs \in Seq(Receipts) /\ \A k \in 1..Len(rs) : rs[k] \in R
  BY TerminalKinds
<1>2. \A x \in R : x.t # "stage_dispatch_started"
  BY DEF Closing
<1>3. log' = Extend(log, rs).log \/ \E p \in Heads(rs) : log' = Extend(log, p).log
  OBVIOUS
<1> HIDE DEF rs, R
<1>4. LogStep(R)
  BY <1>1, <1>2, <1>3, AllStep, HeadStep
<1> QED
  BY <1>4 DEF R

LEMMA TerminalStep ==
  ASSUME IInv, NEW r \in Receipts, ~sealed, UNCHANGED <<pc, stage, answers>>, gate' = gate,
         confirm' = confirm,
         r.t \in {"run_decision", "run_abandoned"}, r.say \notin {"awaiting_approval", "completed"},
         \/ log' = Extend(log, Terminal(log, r)).log
         \/ \E p \in Heads(Terminal(log, r)) : log' = Extend(log, p).log,
         sealed' => sealed \/ PendingCommands(log') = {},
         watch' = "seal" => watch = "seal" \/ Decided(log')
  PROVE  IInv'
<1> DEFINE R == {x \in Receipts : x.t \in Closing \/ x = r}
<1>1. LogStep(R)
  BY TerminalWrites DEF IInv, Typed
<1>2. Quiet(R) /\ \A x \in R : x.t = "run_decision" => x.say # "awaiting_approval"
  BY DEF Quiet, Closing
<1>3. /\ gate' \in [cmd : Words, lane : LaneNames]
      /\ confirm' = [seq |-> confirm'.seq, at |-> confirm'.at, gen |-> confirm'.gen]
      /\ confirm'.at \in Int
  BY KeptShape DEF IInv
<1> HIDE DEF R
<1> QED
  BY <1>1, <1>2, <1>3, OtherStep

LEMMA InterruptDecidesKeeps ==
  ASSUME IInv, InterruptDecides
  PROVE  IInv'
<1>1. PICK r : r = Receipt("run_decision", "supervisor", "none", 0,
                           Newest(All(log, {"stage_interrupted"})), "failed")
  OBVIOUS
<1>2. /\ ~sealed /\ sealed' = sealed /\ UNCHANGED <<pc, stage, answers>> /\ gate' = gate
      /\ confirm' = confirm /\ log' = Extend(log, Terminal(log, r)).log
      /\ watch' = IF Extend(log, Terminal(log, r)).ok THEN "seal" ELSE "idle"
  BY <1>1 DEF InterruptDecides, engine, gateway
<1>3. r \in Receipts /\ r.t = "run_decision" /\ r.say = "failed"
  <2>1. PICK n : n = Newest(All(log, {"stage_interrupted"}))
    OBVIOUS
  <2>2. n \in Int
    <3>1. \A i \in All(log, {"stage_interrupted"}) : i \in DOMAIN log
      BY DEF All
    <3> QED
      BY <2>1, <3>1, NewestMember DEF IInv, Typed
  <2>3. "run_decision" \in Kinds /\ "supervisor" \in Writers /\ 0 \in Int /\ "failed" \in Words
        /\ "none" \in LaneNames
    BY DEF Kinds, Writers, Words, LaneNames
  <2> QED
    BY <1>1, <2>1, <2>2, <2>3, ReceiptIs
<1>4. watch' = "seal" => Decided(log')
  <2>1. watch' = "seal" => Extend(log, Terminal(log, r)).ok
    BY <1>2
  <2> QED
    BY <1>2, <1>3, <2>1, AcceptedDecides DEF IInv, Typed
<1> QED
  BY <1>2, <1>3, <1>4, TerminalStep

LEMMA AbandonKeeps ==
  ASSUME IInv, Abandon
  PROVE  IInv'
<1>1. PICK r : r = Receipt("run_abandoned", "recovery", "none", confirm.at, 0, "none")
  OBVIOUS
<1>2. /\ ~sealed /\ UNCHANGED <<pc, stage, answers>> /\ gate' = gate /\ confirm' = confirm /\ watch' = watch
      /\ \/ /\ log' = Extend(log, Terminal(log, r)).log
            /\ IF Extend(log, Terminal(log, r)).ok THEN sealed' = TRUE ELSE sealed' = sealed
         \/ (\E p \in Heads(Terminal(log, r)) : log' = Extend(log, p).log) /\ sealed' = sealed
  BY <1>1 DEF Abandon, engine, gateway
<1>3. r \in Receipts /\ r.t = "run_abandoned" /\ r.say = "none"
  <2>1. PICK n : n = confirm.at /\ n \in Int
    BY DEF IInv, Typed
  <2>3. "run_abandoned" \in Kinds /\ "recovery" \in Writers /\ 0 \in Int /\ "none" \in Words
        /\ "none" \in LaneNames
    BY DEF Kinds, Writers, Words, LaneNames
  <2> QED
    BY <1>1, <2>1, <2>3, ReceiptIs
<1>4. sealed' => sealed \/ PendingCommands(log') = {}
  <2>1. CASE /\ log' = Extend(log, Terminal(log, r)).log
             /\ IF Extend(log, Terminal(log, r)).ok THEN sealed' = TRUE ELSE sealed' = sealed
    <3>1. CASE Extend(log, Terminal(log, r)).ok
      BY <1>3, <2>1, <3>1, AcceptedDecides DEF IInv, Typed
    <3>2. CASE ~Extend(log, Terminal(log, r)).ok
      BY <2>1, <3>2
    <3> QED
      BY <3>1, <3>2
  <2>2. CASE sealed' = sealed
    BY <2>2
  <2> QED
    BY <1>2, <2>1, <2>2
<1>5. \/ log' = Extend(log, Terminal(log, r)).log
      \/ \E p \in Heads(Terminal(log, r)) : log' = Extend(log, p).log
  BY <1>2
<1>6. r.t \in {"run_decision", "run_abandoned"} /\ r.say \notin {"awaiting_approval", "completed"}
  BY <1>3
<1> QED
  BY <1>2, <1>3, <1>4, <1>5, <1>6, TerminalStep

LEMMA OperatorKeeps ==
  ASSUME IInv, Operator
  PROVE  IInv'
BY SubmitKeeps, AcceptKeeps, ResolveKeeps DEF Operator

LEMMA SupervisorKeeps ==
  ASSUME IInv, Supervisor
  PROVE  IInv'
BY WorkerDiesKeeps, ConfirmKeeps, QuietKeeps, InterruptKeeps, InterruptDecidesKeeps,
   InterruptSealsKeeps, AbandonKeeps DEF Supervisor

----------------------------------------------------------------------------
(* The invariant holds of every reachable state.                           *)

LEMMA InitInv ==
  ASSUME Init
  PROVE  IInv
<1>0. /\ log = <<>> /\ sealed = FALSE /\ pc = "attest" /\ stage = NoStage /\ gate = Idle /\ answers = {}
      /\ watch = "idle" /\ confirm = NoConfirm
  BY DEF Init
<1>1. \A ts : All(log, ts) = {}
  BY <1>0 DEF All
<1>2. Typed
  <2>1. log \in Seq(Receipts)
    BY <1>0
  <2>2. /\ stage = [lane |-> stage.lane, at |-> stage.at, of |-> stage.of, reply |-> stage.reply]
        /\ stage.lane \in LaneNames /\ stage.at \in Int /\ stage.of \in Int
    BY <1>0 DEF NoStage, LaneNames
  <2>3. gate \in [cmd : Words, lane : LaneNames]
    BY <1>0 DEF Idle, LaneNames, Words
  <2>4. confirm = [seq |-> confirm.seq, at |-> confirm.at, gen |-> confirm.gen] /\ confirm.at \in Int
    BY <1>0 DEF NoConfirm
  <2> QED
    BY <2>1, <2>2, <2>3, <2>4 DEF Typed
<1>3. LogInv(log)
  <2>1. ~Decided(log) /\ Commands(log) = {} /\ Attempts(log) = {}
    BY <1>1 DEF Decided, Commands, Attempts
  <2> QED
    BY <1>1, <2>1 DEF LogInv
<1>4. Ahead
  BY <1>0, <1>1 DEF Ahead, Waiting, Prepared
<1>5. Answered /\ Closed
  BY <1>0 DEF Answered, Closed
<1>6. Course
  BY <1>0, <1>1 DEF Course, Prepared
<1> QED
  BY <1>2, <1>3, <1>4, <1>5, <1>6 DEF IInv

LEMMA NextInv ==
  ASSUME IInv, [Next]_vars
  PROVE  IInv'
<1>1. CASE UNCHANGED vars
  <2>1. /\ log' = log /\ sealed' = sealed /\ UNCHANGED <<pc, stage, answers>> /\ gate' = gate
        /\ confirm' = confirm /\ watch' = watch
    BY <1>1 DEF vars, engine, gateway, supervisor
  <2>2. /\ gate' \in [cmd : Words, lane : LaneNames]
        /\ confirm' = [seq |-> confirm'.seq, at |-> confirm'.at, gen |-> confirm'.gen]
        /\ confirm'.at \in Int
    BY <2>1, KeptShape DEF IInv
  <2> QED
    BY <2>1, <2>2, OtherNone
<1> QED
  BY <1>1, EngineKeeps, OperatorKeeps, SupervisorKeeps DEF Next

\* The receipts and processes of a run always agree: IInv is invariant.
THEOREM RunInvariant == Spec => []IInv
BY InitInv, NextInv, PTL DEF Spec

----------------------------------------------------------------------------
(* What the runs check, for every value of the constants.                  *)

\* No attempt is sent to a provider over a command accepted before it for its
\* lane or for the lead: the check before the first dispatch receipt.
THEOREM NothingSkipped == Spec => []NoCommandSkipped
<1>1. IInv => NoCommandSkipped
  BY DEF IInv, LogInv, Reached, NoCommandSkipped
<1> QED
  BY <1>1, RunInvariant, PTL

\* What the operator was told is accepted is accepted, and the manifest is
\* sealed only when each has been applied or declared unapplied exactly once.
THEOREM AnswersStand == Spec => []AnswersSettled
<1>1. IInv => AnswersSettled
  <2> SUFFICES ASSUME IInv, NEW x \in answers
               PROVE  /\ x[2] \in Commands(log) /\ log[x[2]].say = x[1]
                      /\ sealed => Cardinality(Finals(log, x[2])) = 1
    BY DEF AnswersSettled
  <2>1. x[2] \in Commands(log) /\ log[x[2]].say = x[1]
    BY DEF IInv, Answered
  <2>2. ASSUME sealed PROVE Cardinality(Finals(log, x[2])) = 1
    <3>1. Finals(log, x[2]) # {}
      BY <2>1, <2>2 DEF IInv, Closed, PendingCommands
    <3>2. PICK j : j \in Finals(log, x[2])
      BY <3>1
    <3>3. Finals(log, x[2]) = {j}
      BY <2>1, <3>2 DEF IInv, LogInv
    <3> QED
      BY <3>3, FS_Singleton
  <2> QED
    BY <2>1, <2>2
<1> QED
  BY <1>1, RunInvariant, PTL

\* A live run is completed only by an approval of an action that was opened as
\* an escalation or with every core lane done and nothing repaired since.
THEOREM CompletionsEarned == Spec => []CompletionEarned
<1>1. IInv => CompletionEarned
  <2> SUFFICES ASSUME IInv, DecidedAs("completed"), Live(log)
               PROVE  \E i \in All(log, {"action_opened"}), j \in All(log, {"action_resolved"}) :
                        /\ log[j].of = i /\ log[j].say = "approved"
                        /\ \/ log[i].say = "escalation"
                           \/ /\ \A lane \in CoreLanes : LatestEnds(log, {lane}) = {"stage_completed"}
                              /\ \A lane \in ConditionalLanes :
                                   LastAttempt(log, lane) < LastAttempt(log, "g2a")
    BY DEF CompletionEarned
  <2>1. PICK d \in All(log, {"run_decision"}) : log[d].say = "completed"
    BY DEF DecidedAs
  <2>2. log[d].who = "operator_gateway"
    BY <2>1 DEF IInv, Course
  <2>3. log[d].of \in All(log, {"action_resolved"}) /\ log[log[d].of].say = "approved"
    BY <2>1, <2>2 DEF IInv, LogInv
  <2>4. PICK j \in All(log, {"action_resolved"}) : log[j].say = "approved"
    BY <2>3
  <2>5. PICK i \in All(log, {"action_opened"}) : log[j].of = i
    BY <2>4 DEF IInv, LogInv
  <2>6. log[i].say = "escalation" \/ Audits(log)
    BY <2>5 DEF IInv, Course
  <2>7. ASSUME Audits(log)
        PROVE  /\ \A lane \in CoreLanes : LatestEnds(log, {lane}) = {"stage_completed"}
               /\ \A lane \in ConditionalLanes : LastAttempt(log, lane) < LastAttempt(log, "g2a")
    <3>1. ASSUME NEW lane \in CoreLanes PROVE LatestEnds(log, {lane}) = {"stage_completed"}
      <4>1. Done(log, lane)
        BY <2>7 DEF Audits
      <4>2. {x \in {lane} : LastAttempt(log, x) # 0} = {lane}
        BY <4>1 DEF Done
      <4>3. LatestEnds(log, {lane}) = {EndOf(log, LastAttempt(log, x)) : x \in {lane}}
        BY <4>2 DEF LatestEnds
      <4>4. EndOf(log, LastAttempt(log, lane)) = "stage_completed"
        BY <4>1 DEF Done
      <4>5. {EndOf(log, LastAttempt(log, x)) : x \in {lane}} = {EndOf(log, LastAttempt(log, lane))}
        BY Zenon
      <4> QED
        BY <4>3, <4>4, <4>5
    <3> QED
      BY <2>7, <3>1 DEF Audits
  <2> QED
    BY <2>4, <2>5, <2>6, <2>7
<1> QED
  BY <1>1, RunInvariant, PTL

----------------------------------------------------------------------------
(* What a step may write.                                                  *)

\* The receipts of a call that ends a run.
EndsRun(r) ==
  /\ r.t \in Closing \cup {"action_resolved", "run_decision", "run_abandoned"}
  /\ r.t = "run_abandoned" => r.say = "none"

\* Closed by one call, or by the part of it that was written.
ClosedBy(rs) ==
  /\ rs \in Seq(Receipts) /\ \A k \in 1..Len(rs) : EndsRun(rs[k])
  /\ \/ log' = Extend(log, rs).log
     \/ \E p \in Heads(rs) : log' = Extend(log, p).log

LEMMA TerminalEnds ==
  ASSUME NEW l \in Seq(Receipts), NEW r \in Receipts, EndsRun(r)
  PROVE  Terminal(l, r) \in Seq(Receipts) /\ \A k \in 1..Len(Terminal(l, r)) : EndsRun(Terminal(l, r)[k])
<1>1. PICK rs : rs = Terminal(l, r)
  OBVIOUS
<1>2. /\ rs \in Seq(Receipts)
      /\ \A k \in 1..Len(rs) : rs[k] \in {x \in Receipts : x.t \in Closing \/ x = r}
  BY <1>1, TerminalKinds
<1>3. \A x \in Receipts : x.t \in Closing => EndsRun(x)
  BY DEF EndsRun, Closing
<1> QED
  BY <1>1, <1>2, <1>3

\* The receipts of the three calls that end a run.
LEMMA DecisionIs ==
  ASSUME pc \in {"completed", "blocked", "refuse"}
  PROVE  LET r == Decision(IF pc = "refuse" THEN RefusedAs ELSE pc)
         IN  r \in Receipts /\ r.t = "run_decision" /\ EndsRun(r)
<1> DEFINE d == IF pc = "refuse" THEN RefusedAs ELSE pc
           r == Decision(d)
<1>1. "run_decision" \in Kinds /\ "orchestrator" \in Writers /\ "none" \in LaneNames
      /\ d \in Words /\ 0 \in Int
  BY DEF Kinds, Writers, Words, LaneNames, RefusedAs
<1> HIDE DEF d
<1>2. r \in Receipts /\ r.t = "run_decision"
  BY <1>1, ReceiptIs DEF Decision
<1> QED
  BY <1>2 DEF EndsRun, d

Interruption ==
  Receipt("run_decision", "supervisor", "none", 0, Newest(All(log, {"stage_interrupted"})), "failed")
LEMMA InterruptionIs ==
  ASSUME log \in Seq(Receipts)
  PROVE  /\ Interruption \in Receipts /\ Interruption.t = "run_decision"
         /\ Interruption.say = "failed" /\ EndsRun(Interruption)
<1>1. PICK n : n = Newest(All(log, {"stage_interrupted"}))
  OBVIOUS
<1>2. n \in Int
  <2>1. \A i \in All(log, {"stage_interrupted"}) : i \in DOMAIN log
    BY DEF All
  <2> QED
    BY <1>1, <2>1, NewestMember
<1>3. "run_decision" \in Kinds /\ "supervisor" \in Writers /\ 0 \in Int /\ "failed" \in Words
      /\ "none" \in LaneNames
  BY DEF Kinds, Writers, Words, LaneNames
<1>4. Interruption = Receipt("run_decision", "supervisor", "none", 0, n, "failed")
  BY <1>1 DEF Interruption
<1>5. /\ Interruption \in Receipts /\ Interruption.t = "run_decision"
      /\ Interruption.say = "failed"
  BY <1>2, <1>3, <1>4, ReceiptIs
<1> QED
  BY <1>5 DEF EndsRun

Abandonment == Receipt("run_abandoned", "recovery", "none", confirm.at, 0, "none")
LEMMA AbandonmentIs ==
  ASSUME confirm.at \in Int
  PROVE  /\ Abandonment \in Receipts /\ Abandonment.t = "run_abandoned"
         /\ Abandonment.say = "none" /\ EndsRun(Abandonment)
<1>1. PICK n \in Int : n = confirm.at
  OBVIOUS
<1>2. "run_abandoned" \in Kinds /\ "recovery" \in Writers /\ 0 \in Int /\ "none" \in Words
      /\ "none" \in LaneNames
  BY DEF Kinds, Writers, Words, LaneNames
<1>3. Abandonment = Receipt("run_abandoned", "recovery", "none", n, 0, "none")
  BY <1>1 DEF Abandonment
<1>4. /\ Abandonment \in Receipts /\ Abandonment.t = "run_abandoned"
      /\ Abandonment.say = "none"
  BY <1>2, <1>3, ReceiptIs
<1> QED
  BY <1>4 DEF EndsRun

LEMMA DecideCloses ==
  ASSUME IInv, Decide
  PROVE  log' = log \/ \E rs : ClosedBy(rs)
<1> DEFINE r == Decision(IF pc = "refuse" THEN RefusedAs ELSE pc)
           rs == Terminal(log, r)
<1>1. r \in Receipts /\ EndsRun(r) /\ log \in Seq(Receipts)
  BY DecisionIs DEF Decide, IInv, Typed
<1>2. \/ log' = log \/ log' = Extend(log, rs).log
      \/ \E p \in Heads(rs) : log' = Extend(log, p).log
  BY DEF Decide, AppendsAll
<1> HIDE DEF r
<1>3. rs \in Seq(Receipts) /\ \A k \in 1..Len(rs) : EndsRun(rs[k])
  BY <1>1, TerminalEnds
<1> HIDE DEF rs
<1> QED
  BY <1>2, <1>3 DEF ClosedBy

LEMMA ResolveCloses ==
  ASSUME IInv, NEW resolution \in DOMAIN OutcomeMap, Resolve(resolution)
  PROVE  \E rs : ClosedBy(rs)
<1> DEFINE rs == Resolving(resolution)
<1>1. \/ log' = Extend(log, rs).log
      \/ \E p \in Heads(rs) : log' = Extend(log, p).log
  BY DEF Resolve, Resolving, Verdict, Resolution
<1>2. /\ rs \in Seq(Receipts)
      /\ \A k \in 1..Len(rs) :
           rs[k] \in {x \in Receipts : x.t \in Closing \cup {"action_resolved"} \/ x = Verdict(resolution)}
      /\ Verdict(resolution).t = "run_decision"
  BY ResolvingIs DEF IInv, Typed
<1> HIDE DEF rs
<1>3. \A x \in {x \in Receipts : x.t \in Closing \cup {"action_resolved"} \/ x = Verdict(resolution)} :
        EndsRun(x)
  BY <1>2 DEF EndsRun, Closing
<1>4. \A k \in 1..Len(rs) : EndsRun(rs[k])
  BY <1>2, <1>3
<1> QED
  BY <1>1, <1>2, <1>4 DEF ClosedBy

LEMMA InterruptDecidesCloses ==
  ASSUME IInv, InterruptDecides
  PROVE  \E rs : ClosedBy(rs)
<1> DEFINE rs == Terminal(log, Interruption)
<1>1. log' = Extend(log, rs).log
  BY DEF InterruptDecides, Interruption
<1>2. rs \in Seq(Receipts) /\ \A k \in 1..Len(rs) : EndsRun(rs[k])
  BY InterruptionIs, TerminalEnds DEF IInv, Typed
<1> HIDE DEF rs
<1> QED
  BY <1>1, <1>2 DEF ClosedBy

LEMMA AbandonCloses ==
  ASSUME IInv, Abandon
  PROVE  \E rs : ClosedBy(rs)
<1> DEFINE rs == Terminal(log, Abandonment)
<1>1. \/ log' = Extend(log, rs).log
      \/ \E p \in Heads(rs) : log' = Extend(log, p).log
  BY DEF Abandon, Abandonment
<1>2. rs \in Seq(Receipts) /\ \A k \in 1..Len(rs) : EndsRun(rs[k])
  BY AbandonmentIs, TerminalEnds DEF IInv, Typed
<1> HIDE DEF rs
<1> QED
  BY <1>1, <1>2 DEF ClosedBy

\* One receipt that closes nothing: the engine's, an operator's command, or the
\* interruption of an attempt.
Writes(r) ==
  /\ ~sealed /\ Allowed(log, r) /\ log' = Append(log, r)
  /\ r.t \notin Closing \cup {"action_resolved", "run_abandoned"}
  /\ r.t = "context_injected" => pc = "consume"
  /\ r.t = "stage_dispatch_started" => pc = "start" /\ pc' # "start"
  /\ r.t = "run_decision" => r.say = "awaiting_approval" /\ pc = "await"
  /\ r.t = "stage_attempt_created" => pc = "create" /\ pc' # "create"
  /\ r.t = "repair_routed" => pc = "repair"

\* The receipts of a call that ends the run, or some of them.
Closes(R) ==
  /\ LogStep(R)
  /\ log' = log \/ \E rs : ClosedBy(rs)
  /\ \A x \in R : x.t \in Closing \cup {"action_resolved", "run_decision", "run_abandoned"}
  /\ \A x \in R : x.t = "run_decision" => x.say # "awaiting_approval"
  /\ \A x \in R : x.t = "run_abandoned" => Abandon /\ x.say = "none"

LEMMA AppendsWrites ==
  ASSUME NEW r, NEW ok, NEW bad, Appends(r, ok, bad),
         r.t \notin Closing \cup {"action_resolved", "run_abandoned"},
         r.t = "context_injected" => pc = "consume",
         r.t = "stage_dispatch_started" => pc = "start" /\ pc' # "start",
         r.t = "run_decision" => r.say = "awaiting_approval" /\ pc = "await",
         r.t = "stage_attempt_created" => pc = "create" /\ pc' # "create",
         r.t = "repair_routed" => pc = "repair"
  PROVE  log' = log \/ Writes(r)
BY DEF Appends, CanWrite, Writes

LEMMA EngineWrites ==
  ASSUME IInv, Engine
  PROVE  log' = log \/ (\E r : Writes(r)) \/ \E R : Closes(R)
<1>1. CASE Attest
  <2> DEFINE r == Receipt("run_attested", "orchestrator", "none", 0, 0, "none")
  <2>1. Appends(r, "plan", "broken") /\ r.t = "run_attested"
    BY <1>1 DEF Attest, Receipt
  <2> QED
    BY <2>1, AppendsWrites DEF Closing
<1>2. CASE Plan
  <2>1. PICK mode \in Modes :
          Appends(Receipt("run_planned", "orchestrator", "none", 0, 0, mode),
                  IF mode = "live" THEN "create" ELSE "completed", "broken")
    BY <1>2 DEF Plan
  <2>2. Receipt("run_planned", "orchestrator", "none", 0, 0, mode).t = "run_planned"
    BY DEF Receipt
  <2> QED
    BY <2>1, <2>2, AppendsWrites DEF Closing
<1>3. CASE Create
  <2> DEFINE r == Receipt("stage_attempt_created", "orchestrator", stage.lane, 0, stage.of, "none")
  <2>1. Appends(r, "preflight", "broken") /\ r.t = "stage_attempt_created" /\ pc = "create"
    BY <1>3 DEF Create, Receipt
  <2>2. pc' # "create"
    BY <2>1 DEF Appends
  <2> QED
    BY <2>1, <2>2, AppendsWrites DEF Closing
<1>4. CASE Preflight \/ Reserve \/ Call \/ Route \/ Seal \/ SealFails
  BY <1>4 DEF Preflight, Reserve, Call, Route, Seal, SealFails
<1>5. CASE Block
  <2> DEFINE r == Mine("stage_blocked", "none")
  <2>1. Appends(r, "refuse", "broken") /\ r.t = "stage_blocked"
    BY <1>5 DEF Block, Mine, Receipt
  <2> QED
    BY <2>1, AppendsWrites DEF Closing
<1>6. CASE Consume
  <2> DEFINE i == Min(Eligible)
             t == IF log[i].lane = "lead" /\ ReplanOf(log, i) = {}
                  THEN "run_replanned" ELSE "context_injected"
             r == Receipt(t, "orchestrator", log[i].lane, stage.at, i, log[i].say)
  <2>1. Appends(r, "consume", "unsent") /\ pc = "consume"
    BY <1>6 DEF Consume
  <2>2. r.t = t /\ t \in {"run_replanned", "context_injected"}
    BY DEF Receipt
  <2> HIDE DEF r, t
  <2> QED
    BY <2>1, <2>2, AppendsWrites DEF Closing
<1>7. CASE Start
  <2> DEFINE r == Mine("stage_dispatch_started", "none")
  <2>1. Appends(r, "call", "unsent") /\ r.t = "stage_dispatch_started" /\ pc = "start"
    BY <1>7 DEF Start, Mine, Receipt
  <2>2. pc' # "start"
    BY <2>1 DEF Appends
  <2> QED
    BY <2>1, <2>2, AppendsWrites DEF Closing
<1>8. CASE Complete
  <2> DEFINE t == IF stage.lane \in Reviews /\ ~Approves(stage.reply)
                  THEN "stage_rejected" ELSE "stage_completed"
             r == Mine(t, "none")
  <2>1. Appends(r, "route", "sent")
    BY <1>8 DEF Complete
  <2>2. r.t = t /\ t \in {"stage_rejected", "stage_completed"}
    BY DEF Mine, Receipt
  <2> HIDE DEF r, t
  <2> QED
    BY <2>1, <2>2, AppendsWrites DEF Closing
<1>9. CASE Fail
  <2> DEFINE r == Mine("stage_failed", IF pc = "sent" THEN "dispatched" ELSE "none")
  <2>1. Appends(r, "refuse", "broken") /\ r.t = "stage_failed"
    BY <1>9 DEF Fail, Mine, Receipt
  <2> QED
    BY <2>1, AppendsWrites DEF Closing
<1>10. CASE Repair
  <2> DEFINE r == Receipt("repair_routed", "orchestrator", stage.lane, 0, 0, "none")
  <2>1. Appends(r, "create", "broken") /\ r.t = "repair_routed" /\ pc = "repair"
    BY <1>10 DEF Repair, Receipt
  <2> QED
    BY <2>1, AppendsWrites DEF Closing
<1>11. CASE OpenAction
  <2> DEFINE r == Receipt("action_opened", "orchestrator", "none", 0, 0, pc)
  <2>1. Appends(r, "await", "broken") /\ r.t = "action_opened"
    BY <1>11 DEF OpenAction, Receipt
  <2> QED
    BY <2>1, AppendsWrites DEF Closing
<1>12. CASE Await
  <2> DEFINE r == Receipt("run_decision", "orchestrator", "none", 0,
                          Newest(All(log, {"action_opened"})), "awaiting_approval")
  <2>1. Appends(r, "returned", "broken") /\ r.t = "run_decision" /\ r.say = "awaiting_approval"
        /\ pc = "await"
    BY <1>12 DEF Await, Receipt
  <2> QED
    BY <2>1, AppendsWrites DEF Closing
<1>13. CASE Decide
  <2>1. PICK R : /\ LogStep(R)
                 /\ \A x \in R : \/ x.t \in Closing
                                \/ /\ x.t = "run_decision" /\ x.say # "awaiting_approval"
                                   /\ x.say = "completed" => ~Live(log)
    BY <1>13, DecideWrites
  <2>2. Closes(R)
    BY <1>13, <2>1, DecideCloses DEF Closes, Closing
  <2> QED
    BY <2>2
<1> QED
  BY <1>1, <1>2, <1>3, <1>4, <1>5, <1>6, <1>7, <1>8, <1>9, <1>10, <1>11, <1>12, <1>13 DEF Engine

LEMMA OperatorWrites ==
  ASSUME IInv, Operator
  PROVE  log' = log \/ (\E r : Writes(r)) \/ \E R : Closes(R)
<1>1. ASSUME NEW c \in Cmds, NEW lane \in Targets, NEW valid \in BOOLEAN, Submit(c, lane, valid)
      PROVE  log' = log \/ \E r : Writes(r)
  <2> DEFINE r == Receipt("command_rejected", "operator_gateway", lane, 0, 0, c)
  <2>1. log' = log \/ (CanWrite(r) /\ log' = Append(log, r))
    BY <1>1 DEF Submit
  <2>2. r.t = "command_rejected"
    BY DEF Receipt
  <2> HIDE DEF r
  <2> QED
    BY <2>1, <2>2 DEF Writes, CanWrite, Closing
<1>2. ASSUME Accept
      PROVE  log' = log \/ \E r : Writes(r)
  <2> DEFINE r == Receipt("command_accepted", "operator_gateway", gate.lane, 0, 0, gate.cmd)
  <2>1. log' = log \/ (CanWrite(r) /\ log' = Append(log, r))
    BY <1>2 DEF Accept
  <2>2. r.t = "command_accepted"
    BY DEF Receipt
  <2> HIDE DEF r
  <2> QED
    BY <2>1, <2>2 DEF Writes, CanWrite, Closing
<1>3. ASSUME NEW resolution \in DOMAIN OutcomeMap, Resolve(resolution)
      PROVE  \E R : Closes(R)
  <2>1. PICK R : /\ LogStep(R)
                 /\ \A x \in R : \/ x.t \in Closing \cup {"action_resolved"}
                                \/ /\ x.t = "run_decision" /\ x.who = "operator_gateway"
                                   /\ x.say \in {"completed", "blocked"}
    BY <1>3, ResolveWrites
  <2>2. Closes(R)
    BY <1>3, <2>1, ResolveCloses DEF Closes, Closing
  <2> QED
    BY <2>2
<1> QED
  BY <1>1, <1>2, <1>3 DEF Operator

LEMMA SupervisorWrites ==
  ASSUME IInv, Supervisor
  PROVE  log' = log \/ (\E r : Writes(r)) \/ \E R : Closes(R)
<1>1. CASE Interrupt
  <2>1. PICK r : /\ \E a : r = Receipt("stage_interrupted", "supervisor", log[a].lane, a, 0, "none")
                 /\ ~sealed /\ Allowed(log, r) /\ log' = Append(log, r)
    BY <1>1 DEF Interrupt
  <2>2. r.t = "stage_interrupted"
    BY <2>1 DEF Receipt
  <2> QED
    BY <2>1, <2>2 DEF Writes, Closing
<1>2. CASE InterruptDecides
  <2>1. PICK r : r = Interruption
    OBVIOUS
  <2>2. ~sealed /\ log' = Extend(log, Terminal(log, r)).log
    BY <1>2, <2>1 DEF InterruptDecides, Interruption
  <2>3. r \in Receipts /\ r.t = "run_decision" /\ r.say = "failed"
    BY <2>1, InterruptionIs DEF IInv, Typed
  <2>4. LogStep({x \in Receipts : x.t \in Closing \/ x = r})
    BY <2>2, <2>3, TerminalWrites DEF IInv, Typed
  <2>5. Closes({x \in Receipts : x.t \in Closing \/ x = r})
    BY <1>2, <2>3, <2>4, InterruptDecidesCloses DEF Closes, Closing
  <2> QED
    BY <2>5
<1>3. CASE Abandon
  <2>1. PICK r : r = Abandonment
    OBVIOUS
  <2>2. /\ ~sealed
        /\ \/ log' = Extend(log, Terminal(log, r)).log
           \/ \E p \in Heads(Terminal(log, r)) : log' = Extend(log, p).log
    BY <1>3, <2>1 DEF Abandon, Abandonment
  <2>3. r \in Receipts /\ r.t = "run_abandoned" /\ r.say = "none"
    BY <2>1, AbandonmentIs DEF IInv, Typed
  <2>4. LogStep({x \in Receipts : x.t \in Closing \/ x = r})
    BY <2>2, <2>3, TerminalWrites DEF IInv, Typed
  <2>5. Closes({x \in Receipts : x.t \in Closing \/ x = r})
    BY <1>3, <2>3, <2>4, AbandonCloses DEF Closes, Closing
  <2> QED
    BY <2>5
<1>4. CASE WorkerDies \/ BrokerDies \/ BrokerStarts \/ MarkOrphaned \/ InterruptSeals
             \/ InterruptEnds \/ SupervisorDies \/ Confirm \/ ReconcileWorkflow
  BY <1>4 DEF WorkerDies, BrokerDies, BrokerStarts, MarkOrphaned, InterruptSeals, InterruptEnds,
              SupervisorDies, Confirm, ReconcileWorkflow
<1> QED
  BY <1>1, <1>2, <1>3, <1>4 DEF Supervisor

LEMMA StepWrites ==
  ASSUME IInv, [Next]_vars
  PROVE  /\ log' \in Seq(Receipts) /\ LogInv(log')
         /\ log' = log \/ (\E r \in Receipts : Writes(r)) \/ \E R : Closes(R)
<1>1. log' \in Seq(Receipts) /\ LogInv(log')
  BY NextInv DEF IInv, Typed
<1>2. log' = log \/ (\E r : Writes(r)) \/ \E R : Closes(R)
  BY EngineWrites, OperatorWrites, SupervisorWrites DEF Next, vars
<1>3. ASSUME NEW r, Writes(r) PROVE r \in Receipts
  <2>1. log \in Seq(Receipts \cup {r}) /\ Len(log) \in Nat
    BY LenProperties DEF IInv, Typed
  <2>2. log' = Append(log, r)
    BY <1>3 DEF Writes
  <2>3. Len(log') = Len(log) + 1 /\ log'[Len(log) + 1] = r
    BY <2>1, <2>2, AppendProperties
  <2> QED
    BY <1>1, <2>1, <2>3, ElementOfSeq
<1> QED
  BY <1>1, <1>2, <1>3

----------------------------------------------------------------------------
(* A run is abandoned as it was confirmed.                                 *)

LEMMA OpenSame ==
  ASSUME NEW l \in Seq(Receipts), NEW m, NEW R, Grows(l, m, R),
         \A x \in R : x.t \notin AttemptEnds \cup {"run_abandoned", "stage_attempt_created"}
  PROVE  OpenAttempts(m) = OpenAttempts(l) /\ \A a : EndOf(m, a) = EndOf(l, a)
<1>1. /\ All(m, AttemptEnds) = All(l, AttemptEnds)
      /\ All(m, {"run_abandoned"}) = All(l, {"run_abandoned"})
      /\ \A i \in All(l, AttemptEnds) : m[i] = l[i]
  BY Grown
<1>2. \A a : EndOf(m, a) = EndOf(l, a)
  <2> TAKE a
  <2>1. {i \in All(m, AttemptEnds) : m[i].at = a} = {i \in All(l, AttemptEnds) : l[i].at = a}
    BY <1>1
  <2>2. CASE {i \in All(l, AttemptEnds) : l[i].at = a} = {}
    BY <1>1, <2>1, <2>2 DEF EndOf
  <2>3. CASE {i \in All(l, AttemptEnds) : l[i].at = a} # {}
    <3> DEFINE S == {i \in All(l, AttemptEnds) : l[i].at = a}
    <3>1. \A i \in S : i \in DOMAIN l
      BY DEF All
    <3> HIDE DEF S
    <3>2. PICK k \in S : k = Max(S)
      BY <2>3, <3>1, NewestIs DEF S
    <3>3. EndOf(l, a) = l[k].t
      BY <2>3, <3>2 DEF EndOf, S
    <3>4. EndOf(m, a) = m[k].t
      BY <2>1, <2>3, <3>2 DEF EndOf, S
    <3>5. m[k] = l[k]
      BY <1>1 DEF S
    <3> QED
      BY <3>3, <3>4, <3>5
  <2> QED
    BY <2>2, <2>3
<1>3. Attempts(m) = Attempts(l)
  BY AttemptsGrow
<1> QED
  BY <1>2, <1>3 DEF OpenAttempts

LEMMA AbandonedAs ==
  ASSUME IInv, Abandon, All(log', {"run_abandoned"}) # All(log, {"run_abandoned"})
  PROVE  OpenAttempts(log) = {confirm.at} \ {0}
<1>1. PICK r : r = Receipt("run_abandoned", "recovery", "none", confirm.at, 0, "none")
  OBVIOUS
<1>2. r \in Receipts /\ r.t = "run_abandoned" /\ r.at = confirm.at
  <2>1. PICK n : n = confirm.at /\ n \in Int
    BY DEF IInv, Typed
  <2>2. "run_abandoned" \in Kinds /\ "recovery" \in Writers /\ 0 \in Int /\ "none" \in Words
        /\ "none" \in LaneNames
    BY DEF Kinds, Writers, Words, LaneNames
  <2> QED
    BY <1>1, <2>1, <2>2, ReceiptIs
<1>3. PICK rs : rs = Terminal(log, r)
  OBVIOUS
<1>4. /\ rs \in Seq(Receipts) /\ Len(rs) \in Nat \ {0} /\ rs[Len(rs)] = r
      /\ \A k \in 1..(Len(rs) - 1) : rs[k].t \in Closing
  BY <1>2, <1>3, TerminalIs DEF IInv, Typed
<1>0. log \in Seq(Receipts) /\ Len(log) \in Nat
  BY LenProperties DEF IInv, Typed
<1>5. PICK p \in Seq(Receipts) :
        log' = Extend(log, p).log /\ Len(p) <= Len(rs) /\ \A k \in 1..Len(p) : p[k] = rs[k]
  <2>1. log' = Extend(log, rs).log \/ \E p \in Heads(rs) : log' = Extend(log, p).log
    BY <1>1, <1>3 DEF Abandon
  <2>2. ASSUME NEW p \in Heads(rs)
        PROVE  p \in Seq(Receipts) /\ Len(p) <= Len(rs) /\ \A k \in 1..Len(p) : p[k] = rs[k]
    <3>1. PICK n \in 0..Len(rs) : p = SubSeq(rs, 1, n)
      BY DEF Heads
    <3>2. \A i \in 1..n : rs[i] \in Receipts
      BY <1>4, ElementOfSeq
    <3>3. p \in Seq(Receipts) /\ Len(p) = n /\ \A i \in 1..n : p[i] = rs[i]
      BY <1>4, <3>1, <3>2, SubSeqProperties
    <3> QED
      BY <1>4, <3>3
  <2> QED
    BY <1>4, <2>1, <2>2
<1>6. PICK n \in 0..Len(p) :
        /\ log' = log \o SubSeq(p, 1, n)
        /\ \A j \in 1..n : Allowed(log \o SubSeq(p, 1, j - 1), p[j])
  <2>1. PICK n \in 0..Len(p) :
          /\ Extend(log, p) = [log |-> log \o SubSeq(p, 1, n), ok |-> n = Len(p)]
          /\ \A j \in 1..n : Allowed(log \o SubSeq(p, 1, j - 1), p[j])
    BY <1>0, <1>5, ExtendIs
  <2>2. PICK m, b : m = log \o SubSeq(p, 1, n) /\ b = (n = Len(p))
    OBVIOUS
  <2>3. Extend(log, p).log = m
    BY <2>1, <2>2
  <2> QED
    BY <1>5, <2>1, <2>2, <2>3
<1>p. Len(p) \in Nat /\ n \in Nat /\ n <= Len(p)
  BY <1>5, <1>6, LenProperties
<1>7. /\ log' \in Seq(Receipts) /\ Len(log') = Len(log) + n
      /\ \A i \in 1..Len(log) : log'[i] = log[i]
      /\ \A i \in 1..n : log'[Len(log) + i] = p[i]
  BY <1>0, <1>6, SomeOf
<1>8. PICK j \in 1..n : p[j].t = "run_abandoned"
  <2>1. DOMAIN log = 1..Len(log) /\ DOMAIN log' = 1..(Len(log) + n)
    BY <1>0, <1>7, LenProperties
  <2>2. \A i \in 1..(Len(log) + n) : i \in 1..Len(log) \/ (i - Len(log) \in 1..n /\ i = Len(log) + (i - Len(log)))
    BY <1>0, <1>p
  <2>3. \A i \in 1..Len(log) : i \in 1..(Len(log) + n)
    BY <1>0, <1>p
  <2>4. \A i \in 1..Len(log) : i \in All(log', {"run_abandoned"}) <=> i \in All(log, {"run_abandoned"})
    BY <1>7, <2>1, <2>3 DEF All
  <2>5. PICK i \in 1..(Len(log) + n) : i \notin 1..Len(log) /\ log'[i].t = "run_abandoned"
    <3>1. PICK i : (i \in All(log', {"run_abandoned"})) # (i \in All(log, {"run_abandoned"}))
      <4>1. \E i : \/ i \in All(log', {"run_abandoned"}) /\ i \notin All(log, {"run_abandoned"})
                   \/ i \notin All(log', {"run_abandoned"}) /\ i \in All(log, {"run_abandoned"})
        OBVIOUS
      <4> QED
        BY <4>1, Zenon
    <3>2. i \notin 1..Len(log)
      BY <2>4, <3>1
    <3>3. i \in All(log', {"run_abandoned"})
      BY <2>1, <3>1, <3>2 DEF All
    <3> QED
      BY <2>1, <3>2, <3>3 DEF All
  <2> QED
    BY <1>7, <2>2, <2>5
<1>9. j = Len(rs) /\ p[j] = r
  <2>1. j \in 1..Len(p) /\ p[j] = rs[j] /\ j \in 1..Len(rs)
    BY <1>4, <1>5, <1>p
  <2>2. j \notin 1..(Len(rs) - 1)
    BY <1>4, <1>8, <2>1 DEF Closing
  <2> QED
    BY <1>4, <2>1, <2>2
<1> DEFINE m == log \o SubSeq(p, 1, j - 1)
<1>10. Grows(log, m, {x \in Receipts : x.t \in Closing})
  <2>1. j - 1 \in 0..Len(p) /\ j - 1 \in Nat
    BY <1>p
  <2>2. /\ m \in Seq(Receipts) /\ Len(m) = Len(log) + (j - 1)
        /\ \A i \in 1..Len(log) : m[i] = log[i]
        /\ \A i \in 1..(j - 1) : m[Len(log) + i] = p[i]
    BY <1>0, <1>5, <2>1, SomeOf
  <2> HIDE DEF m
  <2>3. \A i \in 1..(j - 1) : p[i] \in Receipts /\ p[i].t \in Closing
    <3>1. \A i \in 1..(j - 1) : i \in 1..Len(p) /\ i \in 1..(Len(rs) - 1)
      BY <1>9, <2>1
    <3> QED
      BY <1>4, <1>5, <3>1, ElementOfSeq
  <2>4. \A i \in (Len(log) + 1)..Len(m) : i - Len(log) \in 1..(j - 1) /\ i = Len(log) + (i - Len(log))
    BY <1>0, <2>1, <2>2
  <2>5. \A i \in (Len(log) + 1)..Len(m) : m[i] \in {x \in Receipts : x.t \in Closing}
    BY <2>2, <2>3, <2>4
  <2> QED
    BY <1>0, <2>1, <2>2, <2>5 DEF Grows
<1>11. Allowed(m, r)
  BY <1>6, <1>9
<1> HIDE DEF m
<1>12. OpenAttempts(m) = OpenAttempts(log)
  <2>1. \A x \in {x \in Receipts : x.t \in Closing} :
          x.t \notin AttemptEnds \cup {"run_abandoned", "stage_attempt_created"}
    BY DEF Closing, AttemptEnds
  <2> QED
    BY <1>0, <1>10, <2>1, OpenSame
<1>13. {r.at} \ {0} = OpenAttempts(m)
  BY <1>2, <1>11 DEF Allowed, Abandons
<1> QED
  BY <1>2, <1>12, <1>13

\* A run is abandoned as it was when the operator confirmed it, attempt and
\* sequence, and only without a worker: terminalize behind the supervisor's
\* guard (no_live_worker_guard).
THEOREM AbandonmentsConfirmed == Spec => AbandonsConfirmed
<1>1. ASSUME IInv, [Next]_vars,
             All(log', {"run_abandoned"}) # All(log, {"run_abandoned"})
      PROVE  Len(log) = confirm.seq /\ ~sup.worker /\ OpenAttempts(log) = {confirm.at} \ {0}
  <2>0. log \in Seq(Receipts)
    BY <1>1 DEF IInv, Typed
  <2>1. log' # log
    BY <1>1
  <2>2. ASSUME NEW r \in Receipts, Writes(r) PROVE FALSE
    <3>1. "run_abandoned" # r.t
      BY <2>2 DEF Writes
    <3>2. All(log', {"run_abandoned"}) = All(log, {"run_abandoned"})
      <4>1. All(Append(log, r), {"run_abandoned"})
              = All(log, {"run_abandoned"}) \cup (IF r.t \in {"run_abandoned"} THEN {Len(log) + 1} ELSE {})
        BY <2>0, AllLonger
      <4>2. r.t \notin {"run_abandoned"} /\ log' = Append(log, r)
        BY <2>2, <3>1 DEF Writes
      <4> QED
        BY <4>1, <4>2
    <3> QED
      BY <1>1, <3>2
  <2>3. PICK R : Closes(R)
    BY <1>1, <2>1, <2>2, StepWrites
  <2>4. Abandon
    <3>1. SUFFICES ASSUME \A x \in R : x.t \notin {"run_abandoned"} PROVE FALSE
      BY <2>3 DEF Closes
    <3>2. All(log', {"run_abandoned"}) = All(log, {"run_abandoned"})
      BY <2>0, <2>3, <3>1, Grown DEF Closes, LogStep
    <3> QED
      BY <1>1, <3>2
  <2>5. Len(log) = confirm.seq /\ ~sup.worker
    BY <2>4 DEF Abandon, Guarded, Stale
  <2> QED
    BY <1>1, <2>4, <2>5, AbandonedAs
<1>2. IInv /\ [Next]_vars =>
        [All(log', {"run_abandoned"}) # All(log, {"run_abandoned"}) =>
           Len(log) = confirm.seq /\ ~sup.worker /\ OpenAttempts(log) = {confirm.at} \ {0}]_vars
  BY <1>1
<1> QED
  BY <1>2, RunInvariant, PTL DEF Spec, AbandonsConfirmed

----------------------------------------------------------------------------
(* A run implements the governed run: what the receipts say of a command.  *)

Accepted(l, c) == {i \in Commands(l) : l[i].say = c}
Settled(l, c) == UNION {Finals(l, i) : i \in Accepted(l, c)}
Fate(l, c) ==
  IF ~Known(l, c) THEN "new"
  ELSE IF Accepted(l, c) = {} THEN "refused"
  ELSE IF Settled(l, c) = {} THEN "queued"
  ELSE IF \E j \in Settled(l, c) : l[j].t = "context_injected" THEN "applied" ELSE "dropped"
Phase(l) == IF Decided(l) THEN "decided" ELSE IF Waiting(l) THEN "waiting" ELSE "running"

LEMMA FatesAre ==
  /\ \A c : FateOf(c) = Fate(log, c)
  /\ \A c : FateOf(c)' = Fate(log', c)
BY DEF FateOf, Fate, AcceptedAs, Accepted, Settled

\* Two sequences that say the same of c.
LEMMA FateSame ==
  ASSUME NEW l, NEW m, NEW c, Known(m, c) <=> Known(l, c), Accepted(m, c) = Accepted(l, c),
         Settled(m, c) = Settled(l, c), \A j \in Settled(l, c) : m[j] = l[j]
  PROVE  Fate(m, c) = Fate(l, c)
<1>1. (\E j \in Settled(m, c) : m[j].t = "context_injected")
        <=> (\E j \in Settled(l, c) : l[j].t = "context_injected")
  OBVIOUS
<1> QED
  BY <1>1 DEF Fate

\* What receipts that accept or reject nothing leave alone.
LEMMA AcceptedSame ==
  ASSUME NEW l \in Seq(Receipts), NEW m, NEW R, Grows(l, m, R),
         \A x \in R : x.t \notin {"command_accepted", "command_rejected"}
  PROVE  /\ Commands(m) = Commands(l)
         /\ \A i \in Commands(l) : m[i] = l[i]
         /\ \A c : (Known(m, c) <=> Known(l, c)) /\ Accepted(m, c) = Accepted(l, c)
<1>1. /\ All(m, {"command_accepted"}) = All(l, {"command_accepted"})
      /\ \A i \in All(l, {"command_accepted"}) : m[i] = l[i]
  BY Grown
<1>2. /\ All(m, {"command_accepted", "command_rejected"}) = All(l, {"command_accepted", "command_rejected"})
      /\ \A i \in All(l, {"command_accepted", "command_rejected"}) : m[i] = l[i]
  BY Grown
<1>3. \A c : Known(m, c) <=> Known(l, c)
  BY <1>2 DEF Known
<1>4. \A c : Accepted(m, c) = Accepted(l, c)
  BY <1>1 DEF Accepted, Commands
<1> QED
  BY <1>1, <1>3, <1>4 DEF Commands

LEMMA FateQuiet ==
  ASSUME NEW l \in Seq(Receipts), NEW m, NEW R, Grows(l, m, R),
         \A x \in R : x.t \notin {"command_accepted", "command_rejected",
                                  "context_injected", "command_unapplied"}
  PROVE  \A c : Fate(m, c) = Fate(l, c)
<1>1. \A c : (Known(m, c) <=> Known(l, c)) /\ Accepted(m, c) = Accepted(l, c)
  BY AcceptedSame
<1>2. /\ All(m, {"context_injected", "command_unapplied"}) = All(l, {"context_injected", "command_unapplied"})
      /\ \A i \in All(l, {"context_injected", "command_unapplied"}) : m[i] = l[i]
  BY Grown
<1>3. \A i : Finals(m, i) = Finals(l, i) /\ \A j \in Finals(l, i) : m[j] = l[j]
  BY <1>2 DEF Finals
<1>4. ASSUME NEW c PROVE Settled(m, c) = Settled(l, c) /\ \A j \in Settled(l, c) : m[j] = l[j]
  BY <1>1, <1>3 DEF Settled
<1> QED
  BY <1>1, <1>4, FateSame

\* Receipts that apply nothing drop some of what is queued.
LEMMA FateClosing ==
  ASSUME NEW l \in Seq(Receipts), NEW m, NEW R, Grows(l, m, R),
         \A x \in R : x.t \notin {"command_accepted", "command_rejected", "context_injected"}
  PROVE  \A c : Fate(m, c) = Fate(l, c) \/ (Fate(l, c) = "queued" /\ Fate(m, c) = "dropped")
<1> TAKE c
<1>1. (Known(m, c) <=> Known(l, c)) /\ Accepted(m, c) = Accepted(l, c)
  BY AcceptedSame
<1>2. \A i : Finals(l, i) \subseteq Finals(m, i)
  BY FinalsGrow
<1>3. Settled(l, c) \subseteq Settled(m, c)
  BY <1>1, <1>2 DEF Settled
<1>4. /\ All(m, {"context_injected"}) = All(l, {"context_injected"})
      /\ \A i \in All(l, {"context_injected"}) : m[i] = l[i]
  BY Grown
<1>5. \A i : \A j \in Finals(m, i) : m[j].t = "context_injected" => j \in Finals(l, i) /\ l[j].t = "context_injected"
  <2> TAKE i
  <2> TAKE j \in Finals(m, i)
  <2> HAVE m[j].t = "context_injected"
  <2>1. j \in All(m, {"context_injected"}) /\ m[j].of = i
    BY DEF Finals, All
  <2>2. j \in All(l, {"context_injected"}) /\ l[j].of = i
    BY <1>4, <2>1
  <2> QED
    BY <2>2 DEF Finals, All
<1>6. \A j \in Settled(m, c) : m[j].t = "context_injected" => j \in Settled(l, c) /\ l[j].t = "context_injected"
  BY <1>1, <1>5 DEF Settled
<1>7. \A j \in Settled(l, c) : l[j].t = "context_injected" => m[j].t = "context_injected"
  <2>1. \A i : \A j \in Finals(l, i) : l[j].t = "context_injected" => j \in All(l, {"context_injected"})
    BY DEF Finals, All
  <2> QED
    BY <1>4, <2>1 DEF Settled
<1>8. CASE Settled(l, c) # {} \/ ~Known(l, c) \/ Accepted(l, c) = {}
  BY <1>1, <1>3, <1>6, <1>7, <1>8 DEF Fate
<1>9. CASE Settled(l, c) = {} /\ Known(l, c) /\ Accepted(l, c) # {}
  BY <1>1, <1>6, <1>9 DEF Fate
<1> QED
  BY <1>8, <1>9

\* A command id is answered for once: a receipt for it finds it new.
LEMMA FateSubmit ==
  ASSUME NEW l \in Seq(Receipts), NEW r \in Receipts, LogInv(l), Allowed(l, r),
         r.t \in {"command_accepted", "command_rejected"}
  PROVE  /\ Fate(l, r.say) = "new"
         /\ Fate(Append(l, r), r.say) \in {"queued", "refused"}
         /\ \A c : c # r.say => Fate(Append(l, r), c) = Fate(l, c)
<1> DEFINE m == Append(l, r)
           n == Len(l) + 1
<1>0. /\ m \in Seq(Receipts) /\ Len(l) \in Nat /\ DOMAIN m = DOMAIN l \cup {n} /\ n \notin DOMAIN l
      /\ \A i \in DOMAIN l : m[i] = l[i]
      /\ m[n] = r
  <2>1. LET k == Append(l, r) IN
         /\ k \in Seq(Receipts) /\ Len(l) \in Nat /\ Len(k) = Len(l) + 1
         /\ DOMAIN k = DOMAIN l \cup {Len(l) + 1} /\ DOMAIN l = 1..Len(l)
         /\ \A i \in DOMAIN l : k[i] = l[i]
         /\ k[Len(l) + 1] = r
    BY Longer
  <2> QED
    BY <2>1
<1> HIDE DEF m, n
<1>1. ~Known(l, r.say)
  BY DEF Allowed, CommandOnce
<1>2. Known(m, r.say)
  BY <1>0 DEF Known, All
<1>3. \A i : Finals(m, i) = Finals(l, i) /\ \A j \in Finals(l, i) : m[j] = l[j]
  BY <1>0 DEF Finals, All
<1>4. Finals(l, n) = {}
  BY <1>0 DEF LogInv, Finals, Commands, All
<1>5. \A i \in Accepted(m, r.say) : i = n
  BY <1>0, <1>1 DEF Accepted, Commands, Known, All
<1>6. Settled(m, r.say) = {}
  BY <1>3, <1>4, <1>5 DEF Settled
<1>7. ASSUME NEW c, c # r.say
      PROVE  Fate(m, c) = Fate(l, c)
  <2>1. Known(m, c) <=> Known(l, c)
    BY <1>0, <1>7 DEF Known, All
  <2>2. Accepted(m, c) = Accepted(l, c)
    BY <1>0, <1>7 DEF Accepted, Commands, All
  <2>3. Settled(m, c) = Settled(l, c) /\ \A j \in Settled(l, c) : m[j] = l[j]
    BY <1>3, <2>2 DEF Settled
  <2> QED
    BY <2>1, <2>2, <2>3, FateSame
<1> QED
  BY <1>1, <1>2, <1>6, <1>7 DEF Fate, m

\* Context is injected for a queued command, and for no other.
LEMMA FateInject ==
  ASSUME NEW l \in Seq(Receipts), NEW r \in Receipts, LogInv(l), Allowed(l, r),
         r.t = "context_injected"
  PROVE  /\ Fate(l, l[r.of].say) = "queued"
         /\ Fate(Append(l, r), l[r.of].say) = "applied"
         /\ \A c : c # l[r.of].say => Fate(Append(l, r), c) = Fate(l, c)
<1> DEFINE m == Append(l, r)
           n == Len(l) + 1
           k == r.of
           d == l[r.of].say
<1>0. /\ m \in Seq(Receipts) /\ Len(l) \in Nat /\ DOMAIN m = DOMAIN l \cup {n} /\ n \notin DOMAIN l
      /\ \A i \in DOMAIN l : m[i] = l[i]
      /\ m[n] = r
  <2>1. LET q == Append(l, r) IN
         /\ q \in Seq(Receipts) /\ Len(l) \in Nat /\ Len(q) = Len(l) + 1
         /\ DOMAIN q = DOMAIN l \cup {Len(l) + 1} /\ DOMAIN l = 1..Len(l)
         /\ \A i \in DOMAIN l : q[i] = l[i]
         /\ q[Len(l) + 1] = r
    BY Longer
  <2> QED
    BY <2>1
<1>1. k \in Commands(l) /\ Finals(l, k) = {}
  BY DEF Allowed, InjectFits, PendingCommands
<1>d. l[k].say = d
  OBVIOUS
<1>k. r.of = k /\ r.t = "context_injected"
  OBVIOUS
<1> HIDE DEF m, n, k, d
<1>2. \A c : Known(m, c) <=> Known(l, c)
  BY <1>0, <1>k DEF Known, All
<1>3. \A c : Accepted(m, c) = Accepted(l, c)
  BY <1>0, <1>k DEF Accepted, Commands, All
<1>4. Known(l, d)
  BY <1>1, <1>d DEF Known, Commands, All
<1>5. Accepted(l, d) = {k}
  <2>1. k \in Accepted(l, d)
    BY <1>1, <1>d DEF Accepted
  <2>2. ASSUME NEW i \in Accepted(l, d) PROVE i = k
    <3>1. i \in All(l, {"command_accepted", "command_rejected"}) /\ l[i].say = d
      BY DEF Accepted, Commands, All
    <3>2. k \in All(l, {"command_accepted", "command_rejected"})
      BY <1>1 DEF Commands, All
    <3> QED
      BY <1>d, <3>1, <3>2 DEF LogInv
  <2> QED
    BY <2>1, <2>2
<1>6. \A i : i # k => Finals(m, i) = Finals(l, i) /\ \A j \in Finals(l, i) : m[j] = l[j]
  BY <1>0, <1>k DEF Finals, All
<1>7. Settled(l, d) = {}
  BY <1>1, <1>5 DEF Settled
<1>8. n \in Settled(m, d)
  <2>1. n \in Finals(m, k)
    BY <1>0, <1>k DEF Finals, All
  <2> QED
    BY <1>3, <1>5, <2>1 DEF Settled
<1>9. ASSUME NEW c, c # d
      PROVE  Fate(m, c) = Fate(l, c)
  <2>1. k \notin Accepted(l, c)
    BY <1>9, <1>d DEF Accepted
  <2>2. Settled(m, c) = Settled(l, c) /\ \A j \in Settled(l, c) : m[j] = l[j]
    BY <1>3, <1>6, <2>1 DEF Settled
  <2> QED
    BY <1>2, <1>3, <2>2, FateSame
<1>10. Fate(l, d) = "queued"
  BY <1>4, <1>5, <1>7 DEF Fate
<1>11. Fate(m, d) = "applied"
  BY <1>0, <1>2, <1>3, <1>4, <1>5, <1>8, <1>k DEF Fate
<1> QED
  BY <1>9, <1>10, <1>11 DEF m, d

\* The mapped variables, before and after a step.
LEMMA PromisedAre ==
  /\ Promised!vars = <<[c \in Cmds |-> Fate(log, c)], Phase(log)>>
  /\ Promised!vars' = <<[c \in Cmds |-> Fate(log', c)], Phase(log')>>
BY FatesAre DEF Promised!vars, Phase

LEMMA PromisedSubmit ==
  ASSUME log \in Seq(Receipts), LogInv(log), NEW r \in Receipts, Writes(r),
         r.t \in {"command_accepted", "command_rejected"}
  PROVE  [Promised!Next]_Promised!vars
<1>1. Allowed(log, r) /\ log' = Append(log, r)
  BY DEF Writes
<1>2. /\ Fate(log, r.say) = "new"
      /\ Fate(log', r.say) \in {"queued", "refused"}
      /\ \A c : c # r.say => Fate(log', c) = Fate(log, c)
  BY <1>1, FateSubmit
<1>3. Phase(log') = Phase(log) /\ ~Decided(log)
  <2>1. Grows(log, log', {r})
    BY <1>1, OneGrows
  <2>2. Decided(log') <=> Decided(log)
    BY <2>1, SaidGrow
  <2>3. Waiting(log') <=> Waiting(log)
    BY <2>1, SaidGrow
  <2> QED
    BY <1>1, <2>2, <2>3 DEF Phase, Allowed
<1>4. CASE r.say \in Cmds
  <2>1. [c \in Cmds |-> Fate(log', c)]
          = [[c \in Cmds |-> Fate(log, c)] EXCEPT ![r.say] = Fate(log', r.say)]
    BY <1>2
  <2>2. Phase(log) # "decided"
    BY <1>3 DEF Phase
  <2>3. Promised!Submit(r.say)
    BY <1>2, <1>3, <1>4, <2>1, <2>2, FatesAre DEF Promised!Submit, Phase
  <2> QED
    BY <1>4, <2>3 DEF Promised!Next
<1>5. CASE r.say \notin Cmds
  <2>1. [c \in Cmds |-> Fate(log', c)] = [c \in Cmds |-> Fate(log, c)]
    BY <1>2, <1>5
  <2> QED
    BY <1>3, <2>1, PromisedAre
<1> QED
  BY <1>4, <1>5

\* A receipt that decides nothing leaves the phase as it is.
LEMMA PhaseKept ==
  ASSUME log \in Seq(Receipts), NEW r \in Receipts, Writes(r), r.t # "run_decision"
  PROVE  Phase(log') = Phase(log) /\ ~Decided(log) /\ Grows(log, log', {r})
<1>1. Grows(log, log', {r})
  BY OneGrows DEF Writes
<1>2. r.t \notin {"run_decision", "run_abandoned"} /\ ~Decided(log)
  BY DEF Writes, Allowed
<1>3. Decided(log') <=> Decided(log)
  BY <1>1, <1>2, SaidGrow
<1>4. Waiting(log') <=> Waiting(log)
  BY <1>1, SaidGrow
<1> QED
  BY <1>1, <1>2, <1>3, <1>4 DEF Phase

LEMMA PromisedInject ==
  ASSUME IInv, NEW r \in Receipts, Writes(r), r.t = "context_injected"
  PROVE  [Promised!Next]_Promised!vars
<1> DEFINE d == log[r.of].say
<1>0. log \in Seq(Receipts) /\ LogInv(log)
  BY DEF IInv, Typed
<1>1. Allowed(log, r) /\ log' = Append(log, r) /\ pc = "consume"
  BY DEF Writes
<1>2. /\ Fate(log, d) = "queued" /\ Fate(log', d) = "applied"
      /\ \A c : c # d => Fate(log', c) = Fate(log, c)
  BY <1>0, <1>1, FateInject
<1> HIDE DEF d
<1>3. Phase(log) = "running" /\ Phase(log') = "running"
  <2>1. ~Waiting(log)
    BY <1>1, NotWaiting DEF IInv, Final
  <2> QED
    BY <1>0, <2>1, PhaseKept DEF Phase
<1>4. CASE d \in Cmds
  <2>1. [c \in Cmds |-> Fate(log', c)] = [[c \in Cmds |-> Fate(log, c)] EXCEPT ![d] = "applied"]
    BY <1>2
  <2>2. Promised!Apply(d)
    BY <1>2, <1>3, <1>4, <2>1, FatesAre DEF Promised!Apply, Phase
  <2> QED
    BY <1>4, <2>2 DEF Promised!Next
<1>5. CASE d \notin Cmds
  <2>1. [c \in Cmds |-> Fate(log', c)] = [c \in Cmds |-> Fate(log, c)]
    BY <1>2, <1>5
  <2> QED
    BY <1>3, <2>1, PromisedAre
<1> QED
  BY <1>4, <1>5

LEMMA PromisedOther ==
  ASSUME log \in Seq(Receipts), NEW r \in Receipts, Writes(r),
         r.t \notin {"command_accepted", "command_rejected", "context_injected"}
  PROVE  [Promised!Next]_Promised!vars
<1>1. Grows(log, log', {r}) /\ ~Decided(log)
  BY OneGrows DEF Writes, Allowed
<1>2. \A x \in {r} : x.t \notin {"command_accepted", "command_rejected",
                                 "context_injected", "command_unapplied"}
  BY DEF Writes, Closing
<1>3. \A c : Fate(log', c) = Fate(log, c)
  BY <1>1, <1>2, FateQuiet
<1>4. [c \in Cmds |-> Fate(log', c)] = [c \in Cmds |-> Fate(log, c)]
  BY <1>3
<1>5. CASE r.t # "run_decision"
  BY <1>4, <1>5, PhaseKept, PromisedAre
<1>6. CASE r.t = "run_decision"
  <2>1. r.say = "awaiting_approval" /\ log' = Append(log, r)
    BY <1>6 DEF Writes
  <2>2. Decided(log') <=> Decided(log)
    BY <1>1, <2>1, SaidGrow
  <2>w. Waiting(log) => Waiting(log')
    BY <1>1, SaidGrow
  <2>3. Phase(log') = Phase(log) \/ (Phase(log) = "running" /\ Phase(log') = "waiting")
    BY <1>1, <2>2, <2>w DEF Phase
  <2>4. CASE Phase(log') = Phase(log)
    BY <1>4, <2>4, PromisedAre
  <2>5. CASE Phase(log) = "running" /\ Phase(log') = "waiting"
    <3>1. Promised!Await
      BY <1>4, <2>5, FatesAre DEF Promised!Await, Phase
    <3> QED
      BY <3>1 DEF Promised!Next
  <2> QED
    BY <2>3, <2>4, <2>5
<1> QED
  BY <1>5, <1>6

\* What is queued is the pending commands.
LEMMA QueuedIs ==
  ASSUME NEW l, NEW c, Fate(l, c) = "queued"
  PROVE  PendingCommands(l) # {}
<1>1. Accepted(l, c) # {} /\ Settled(l, c) = {}
  BY DEF Fate
<1>2. PICK i : i \in Accepted(l, c)
  BY <1>1
<1>3. Finals(l, i) = {}
  BY <1>1, <1>2 DEF Settled
<1> QED
  BY <1>2, <1>3 DEF Accepted, PendingCommands

LEMMA PromisedClose ==
  ASSUME log \in Seq(Receipts), NEW R, Closes(R), LogInv(log'), log' # log
  PROVE  [Promised!Next]_Promised!vars
<1> DEFINE D == {c \in Cmds : Fate(log', c) # Fate(log, c)}
<1>1. Grows(log, log', R) /\ ~Decided(log)
  BY DEF Closes, LogStep
<1>2. \A x \in R : x.t \notin {"command_accepted", "command_rejected", "context_injected"}
  BY DEF Closes, Closing
<1>3. \A c : Fate(log', c) = Fate(log, c) \/ (Fate(log, c) = "queued" /\ Fate(log', c) = "dropped")
  BY <1>1, <1>2, FateClosing
<1>4. Waiting(log') <=> Waiting(log)
  <2>1. \A x \in R : x.t = "run_decision" => x.say # "awaiting_approval"
    BY DEF Closes
  <2> QED
    BY <1>1, <2>1, SaidGrow
<1>5. Phase(log) # "decided" /\ Phase(log') \in {Phase(log), "decided"}
  BY <1>1, <1>4 DEF Phase
<1>6. Phase(log') = "decided" => \A c : Fate(log', c) # "queued"
  <2>1. Phase(log') = "decided" => PendingCommands(log') = {}
    BY DEF Phase, LogInv
  <2> QED
    BY <2>1, QueuedIs
<1>7. \A c \in D : Fate(log, c) = "queued"
  BY <1>3
<1>8. [c \in Cmds |-> Fate(log', c)] = [c \in Cmds |-> IF c \in D THEN "dropped" ELSE Fate(log, c)]
  BY <1>3
<1>9. Phase(log') = "decided" => D = {c \in Cmds : Fate(log, c) = "queued"}
  BY <1>3, <1>6
<1>10. D \in SUBSET Cmds
  OBVIOUS
<1> HIDE DEF D
<1>11. Promised!Queued = {c \in Cmds : Fate(log, c) = "queued"}
  BY FatesAre DEF Promised!Queued
<1>12. [c \in Cmds |-> FateOf(c)]' = [c \in Cmds |-> Fate(log', c)]
       /\ [c \in Cmds |-> FateOf(c)] = [c \in Cmds |-> Fate(log, c)]
  BY FatesAre
<1>13. Promised!Close(D)
  <2>1. [c \in Cmds |-> FateOf(c)]'
          = [c \in Cmds |-> IF c \in D THEN "dropped" ELSE [e \in Cmds |-> FateOf(e)][c]]
    BY <1>8, <1>12
  <2>2. D \subseteq Promised!Queued
    BY <1>7, <1>10, <1>11
  <2>3. Phase(log') \in (IF D = Promised!Queued THEN {Phase(log), "decided"} ELSE {Phase(log)})
    BY <1>5, <1>9, <1>11
  <2> QED
    BY <1>5, <2>1, <2>2, <2>3 DEF Promised!Close, Phase
<1> QED
  BY <1>10, <1>13 DEF Promised!Next

LEMMA PromisedStep ==
  ASSUME IInv, [Next]_vars
  PROVE  [Promised!Next]_Promised!vars
<1>0. log \in Seq(Receipts) /\ LogInv(log)
  BY DEF IInv, Typed
<1>1. CASE log' = log
  BY <1>1, PromisedAre
<1>2. ASSUME NEW r \in Receipts, Writes(r) PROVE [Promised!Next]_Promised!vars
  BY <1>0, <1>2, PromisedSubmit, PromisedInject, PromisedOther
<1>3. ASSUME NEW R, Closes(R), log' # log PROVE [Promised!Next]_Promised!vars
  BY <1>0, <1>3, StepWrites, PromisedClose
<1> QED
  BY <1>1, <1>2, <1>3, StepWrites

LEMMA PromisedInit ==
  ASSUME Init
  PROVE  Promised!Init
<1>1. \A ts : All(log, ts) = {}
  BY DEF Init, All
<1>2. \A c : FateOf(c) = "new"
  BY <1>1 DEF FateOf, Known
<1>3. ~Decided(log) /\ ~Waiting(log)
  BY <1>1 DEF Decided, Waiting
<1> QED
  BY <1>2, <1>3 DEF Promised!Init

\* Read from the receipts alone a run is a governed run: no command is applied
\* twice, applied after the engine stopped to wait, or lost by a decision.
THEOREM RunImplementsGovernedRun == Spec => ImplementsGovernedRun
<1>1. IInv /\ [Next]_vars => [Promised!Next]_Promised!vars
  BY PromisedStep
<1> QED
  BY <1>1, PromisedInit, RunInvariant, PTL DEF Spec, ImplementsGovernedRun, Promised!Spec

----------------------------------------------------------------------------
(* The plan window: what is used covers every call that was sent.          *)

SentIn(l) == {a \in Attempts(l) : Dispatched(l, a)}
BrokeIn(l) == {a \in SentIn(l) : EndOf(l, a) \in {"stage_failed", "stage_interrupted"}}

LEMMA CountsAre ==
  /\ Sent = SentIn(log) /\ Sent' = SentIn(log')
  /\ Broke = BrokeIn(log) /\ Broke' = BrokeIn(log')
BY DEF Sent, Broke, SentIn, BrokeIn

LEMMA Counted ==
  ASSUME NEW l \in Seq(Receipts), LogInv(l)
  PROVE  /\ IsFiniteSet(SentIn(l)) /\ Cardinality(SentIn(l)) \in Nat
         /\ IsFiniteSet(BrokeIn(l)) /\ Cardinality(BrokeIn(l)) \in Nat
         /\ \A a : a \in SentIn(l) <=> Dispatched(l, a)
<1>1. SentIn(l) \subseteq 1..Len(l) /\ Len(l) \in Nat
  BY LenProperties DEF SentIn, Attempts, All
<1>2. IsFiniteSet(1..Len(l))
  BY <1>1, FS_Interval
<1>3. IsFiniteSet(SentIn(l))
  BY <1>1, <1>2, FS_Subset
<1>4. BrokeIn(l) \subseteq SentIn(l)
  BY DEF BrokeIn
<1>5. IsFiniteSet(BrokeIn(l))
  BY <1>3, <1>4, FS_Subset
<1>6. \A a : a \in SentIn(l) <=> Dispatched(l, a)
  BY DEF SentIn, LogInv, Dispatched, All
<1> QED
  BY <1>3, <1>5, <1>6, FS_CardinalityType

LEMMA CountsGrow ==
  ASSUME NEW l \in Seq(Receipts), NEW m, NEW R, Grows(l, m, R), LogInv(l), LogInv(m)
  PROVE  /\ Cardinality(BrokeIn(l)) <= Cardinality(BrokeIn(m))
         /\ (\A x \in R : x.t # "stage_dispatch_started") => SentIn(m) = SentIn(l)
<1>0. m \in Seq(Receipts)
  BY DEF Grows
<1>1. \A a : Dispatched(l, a) => Dispatched(m, a)
  BY DispatchedGrow
<1>2. BrokeIn(l) \subseteq BrokeIn(m)
  <2>1. {"stage_failed", "stage_interrupted"} \subseteq AttemptEnds
    BY DEF AttemptEnds
  <2>2. \A a \in BrokeIn(l) : EndOf(m, a) = EndOf(l, a)
    BY <2>1, EndStays DEF BrokeIn
  <2> QED
    BY <1>0, <1>1, <2>2, Counted DEF BrokeIn
<1>3. Cardinality(BrokeIn(l)) <= Cardinality(BrokeIn(m))
  BY <1>0, <1>2, Counted, FS_Subset
<1>4. ASSUME \A x \in R : x.t # "stage_dispatch_started"
      PROVE  SentIn(m) = SentIn(l)
  <2>1. /\ All(m, {"stage_dispatch_started"}) = All(l, {"stage_dispatch_started"})
        /\ \A i \in All(l, {"stage_dispatch_started"}) : m[i] = l[i]
    BY <1>4, Grown
  <2>2. \A a : Dispatched(m, a) <=> Dispatched(l, a)
    BY <2>1 DEF Dispatched, All
  <2> QED
    BY <1>0, <2>2, Counted
<1> QED
  BY <1>3, <1>4

LEMMA StepCounts ==
  ASSUME IInv, [Next]_vars
  PROVE  /\ Cardinality(Sent) \in Nat /\ Cardinality(Sent') \in Nat
         /\ Cardinality(Broke) \in Nat /\ Cardinality(Broke') \in Nat
         /\ Cardinality(Broke) <= Cardinality(Broke')
         /\ pc # "start" \/ pc' = "start" => Sent' = Sent
<1>0. log \in Seq(Receipts) /\ LogInv(log) /\ log' \in Seq(Receipts) /\ LogInv(log')
  BY StepWrites DEF IInv, Typed
<1>1. \E R : Grows(log, log', R) /\ (pc # "start" \/ pc' = "start" => \A x \in R : x.t # "stage_dispatch_started")
  <2>1. CASE log' = log
    <3>1. LogStep({})
      BY <1>0, <2>1, NoStep
    <3> QED
      BY <3>1 DEF LogStep
  <2>2. CASE \E r \in Receipts : Writes(r)
    <3>1. PICK r \in Receipts : Writes(r)
      BY <2>2
    <3>2. Grows(log, log', {r})
      BY <1>0, <3>1, OneGrows DEF Writes
    <3>3. pc # "start" \/ pc' = "start" => r.t # "stage_dispatch_started"
      BY <3>1 DEF Writes
    <3> QED
      BY <3>2, <3>3
  <2>3. CASE \E R : Closes(R)
    <3>1. PICK R : Closes(R)
      BY <2>3
    <3>2. Grows(log, log', R) /\ \A x \in R : x.t # "stage_dispatch_started"
      BY <3>1 DEF Closes, LogStep, Closing
    <3> QED
      BY <3>2
  <2> QED
    BY <2>1, <2>2, <2>3, StepWrites
<1>2. /\ Cardinality(BrokeIn(log)) <= Cardinality(BrokeIn(log'))
      /\ pc # "start" \/ pc' = "start" => SentIn(log') = SentIn(log)
  BY <1>0, <1>1, CountsGrow
<1> QED
  BY <1>0, <1>2, Counted, CountsAre

\* A step that leaves the window alone, and the engine no nearer to a call.
Saves ==
  /\ UNCHANGED window
  /\ pc # "start" \/ pc' = "start" \/ log' = log
  /\ Covered /\ pc' = "consume" => pc = "consume" \/ used + Projected <= Limit
  /\ pc' = "start" => pc = "start"
  /\ pc' \in {"call", "complete"} => pc \in {"call", "complete"}
  /\ pc' = "sent" => pc \in {"call", "complete", "sent"}
  /\ pc' \notin {"start", "call", "complete", "sent", "broken", "dead"} =>
       pc \notin {"start", "call", "complete", "sent", "broken", "dead"}
  /\ pc' \notin {"start", "call", "complete", "sent", "broken", "dead"} /\ (pc' = "unsent" => broker') =>
       (pc = "unsent" => broker)

LEMMA SavesSpend ==
  ASSUME IInv, [Next]_vars, Spend, Projected > 0, Saves
  PROVE  Spend'
<1>1. /\ Cardinality(Sent) \in Nat /\ Cardinality(Sent') = Cardinality(Sent)
      /\ Cardinality(Broke) \in Nat /\ Cardinality(Broke') \in Nat
      /\ Cardinality(Broke) <= Cardinality(Broke')
  <2>1. log' = log => Sent' = Sent
    BY DEF Sent
  <2> QED
    BY <2>1, StepCounts DEF Saves
<1>2. used' = used /\ held' = held /\ earlier' = earlier
  BY DEF Saves, window
<1>3. PICK s, b, c : s = Cardinality(Sent) /\ b = Cardinality(Broke) /\ c = Cardinality(Broke')
  OBVIOUS
<1>4. Projected \in Nat /\ Limit \in Nat
  BY RunAssumption
<1>5. used \in Int /\ held \in Nat /\ earlier \in Int
  BY DEF Spend
<1>6. ASSUME Covered
      PROVE  /\ used <= Limit
             /\ pc' = "consume" => used + Projected <= Limit
             /\ pc' = "start" => used >= earlier + s + Projected /\ held > 0
             /\ pc' \in {"call", "complete"} => used + 1 >= earlier + s + Projected /\ held > 0
  BY <1>3, <1>6 DEF Spend, Saves
<1>7. ASSUME Covered
      PROVE  /\ pc' \in {"start", "call", "complete", "sent"} => held <= c + 1
             /\ pc' \notin {"start", "call", "complete", "sent", "broken", "dead"} => held <= c
  <2>1. /\ pc \in {"start", "call", "complete", "sent"} => held <= b + 1
        /\ pc \notin {"start", "call", "complete", "sent", "broken", "dead"} => held <= b
    BY <1>3, <1>7 DEF Spend
  <2>2. b \in Nat /\ c \in Nat /\ b <= c
    BY <1>1, <1>3
  <2>3. pc' \in {"start", "call", "complete", "sent"} => pc \in {"start", "call", "complete", "sent"}
    BY DEF Saves
  <2> QED
    BY <1>5, <2>1, <2>2, <2>3 DEF Saves
<1>8. ASSUME Covered, pc' \notin {"start", "call", "complete", "broken", "dead"}, pc' = "unsent" => broker'
      PROVE  used >= earlier + s
  <2>1. CASE pc \in {"call", "complete"}
    <3>1. used + 1 >= earlier + s + Projected
      BY <1>3, <1>8, <2>1 DEF Spend
    <3>2. s \in Nat
      BY <1>1, <1>3
    <3> QED
      BY <1>4, <1>5, <3>1, <3>2
  <2>2. CASE pc \notin {"call", "complete"}
    <3>1. pc \notin {"start", "call", "complete", "broken", "dead"} /\ (pc = "unsent" => broker)
      BY <1>8, <2>2 DEF Saves
    <3> QED
      BY <1>3, <1>8, <3>1 DEF Spend
  <2> QED
    BY <2>1, <2>2
<1> QED
  BY <1>1, <1>2, <1>3, <1>5, <1>6, <1>7, <1>8 DEF Spend

LEMMA EngineSaves ==
  ASSUME IInv, Spend, Engine, ~Reserve, ~Start, ~Complete, ~(Fail /\ pc = "sent")
  PROVE  Saves
<1>1. CASE Attest
  BY <1>1 DEF Attest, Appends, Saves
<1>2. CASE Plan
  <2>1. pc = "plan" /\ UNCHANGED window
    BY <1>2 DEF Plan
  <2>2. pc' \in {"create", "completed", "broken"}
    BY <1>2 DEF Plan, Appends
  <2> QED
    BY <2>1, <2>2 DEF Saves
<1>3. CASE Create
  BY <1>3 DEF Create, Appends, Saves
<1>4. CASE Preflight
  <2>1. /\ pc = "preflight" /\ UNCHANGED window
        /\ pc' = IF Exceeds THEN "block" ELSE "consume"
    BY <1>4 DEF Preflight
  <2>2. Covered /\ ~Exceeds => used + Projected <= Limit
    BY RunAssumption DEF Exceeds, Spend
  <2> QED
    BY <2>1, <2>2 DEF Saves
<1>5. CASE Block
  BY <1>5 DEF Block, Appends, Saves
<1>6. CASE Consume
  <2>1. pc = "consume" /\ pc' \in {"consume", "unsent"} /\ UNCHANGED window
    BY <1>6 DEF Consume, Appends
  <2> QED
    BY <2>1 DEF Saves
<1>7. CASE Call
  BY <1>7 DEF Call, Saves
<1>8. CASE Fail /\ pc = "unsent"
  BY <1>8 DEF Fail, Appends, CanWrite, Saves
<1>9. CASE Route
  <2>1. pc = "route" /\ UNCHANGED window
    BY <1>9 DEF Route
  <2>2. pc' \in {"create", "blocked", "approval", "escalation", "repair"}
    BY <1>9 DEF Route, Start1, Stop, Audited
  <2> QED
    BY <2>1, <2>2 DEF Saves
<1>10. CASE Repair
  BY <1>10 DEF Repair, Appends, Saves
<1>11. CASE OpenAction
  BY <1>11 DEF OpenAction, Appends, Saves
<1>12. CASE Await
  BY <1>12 DEF Await, Appends, Saves
<1>13. CASE Decide
  <2>1. pc' \in {"seal", "broken"} /\ pc \in {"completed", "blocked", "refuse"} /\ UNCHANGED window
    BY <1>13, DecideWrites DEF Decide
  <2> QED
    BY <2>1 DEF Saves
<1>14. CASE Seal \/ SealFails
  BY <1>14 DEF Seal, SealFails, Saves
<1>15. Fail => pc \in {"unsent", "sent"}
  BY DEF Fail
<1> QED
  BY <1>1, <1>2, <1>3, <1>4, <1>5, <1>6, <1>7, <1>8, <1>9, <1>10, <1>11, <1>12, <1>13, <1>14,
     <1>15 DEF Engine

LEMMA OthersSave ==
  ASSUME Operator \/ Supervisor \/ UNCHANGED vars
  PROVE  Saves
<1>1. CASE pc' = pc /\ UNCHANGED window /\ (broker' => broker \/ pc \in Final)
  BY <1>1 DEF Saves, Final
<1>2. CASE Operator
  <2>1. UNCHANGED <<engine, window>> /\ (broker' = broker \/ broker' = FALSE)
    <3>1. ASSUME NEW c, NEW lane, NEW valid, Submit(c, lane, valid)
          PROVE  UNCHANGED <<engine, window>> /\ broker' = broker
      BY <3>1 DEF Submit
    <3>2. ASSUME Accept
          PROVE  UNCHANGED <<engine, window>> /\ (broker' = broker \/ broker' = FALSE)
      BY <3>2 DEF Accept
    <3>3. ASSUME NEW resolution, Resolve(resolution)
          PROVE  UNCHANGED <<engine, window>> /\ (broker' = broker \/ broker' = FALSE)
      BY <3>3 DEF Resolve
    <3> QED
      BY <1>2, <3>1, <3>2, <3>3 DEF Operator
  <2> QED
    BY <1>1, <2>1 DEF engine
<1>3. CASE WorkerDies
  BY <1>3 DEF WorkerDies, Saves
<1>4. CASE Supervisor /\ ~WorkerDies
  <2>1. UNCHANGED <<engine, window>> /\ (broker' => broker \/ pc \in Final)
    BY <1>4 DEF Supervisor, BrokerDies, BrokerStarts, MarkOrphaned, Interrupt, InterruptDecides,
                InterruptSeals, InterruptEnds, SupervisorDies, Confirm, Abandon, ReconcileWorkflow
  <2> QED
    BY <1>1, <2>1 DEF engine
<1>5. CASE UNCHANGED vars
  BY <1>1, <1>5 DEF vars, engine
<1> QED
  BY <1>2, <1>3, <1>4, <1>5

LEMMA ReserveSpends ==
  ASSUME IInv, [Next]_vars, Spend, Projected > 0, Reserve
  PROVE  Spend'
<1>1. /\ Cardinality(Sent) \in Nat /\ Cardinality(Broke) \in Nat
      /\ Sent' = Sent /\ Broke' = Broke
  <2>1. Sent' = Sent /\ Broke' = Broke
    BY DEF Reserve, Sent, Broke
  <2> QED
    BY <2>1, StepCounts
<1>2. PICK s, b : s = Cardinality(Sent) /\ b = Cardinality(Broke)
  OBVIOUS
<1>3. /\ pc = "consume" /\ pc' = "start" /\ earlier' = earlier
      /\ IF Covered THEN used' = used + Projected /\ held' = held + 1
                    ELSE used' = used /\ held' = held
  BY DEF Reserve
<1>4. Projected \in Nat /\ Limit \in Nat /\ used \in Int /\ held \in Nat /\ earlier \in Int
  BY RunAssumption DEF Spend
<1>5. Covered => /\ used + Projected <= Limit /\ held <= b /\ used >= earlier + s
  BY <1>2, <1>3 DEF Spend
<1> QED
  BY <1>1, <1>2, <1>3, <1>4, <1>5 DEF Spend

LEMMA StartSpends ==
  ASSUME IInv, [Next]_vars, Spend, Projected > 0, Start
  PROVE  Spend'
<1> DEFINE r == Mine("stage_dispatch_started", "none")
<1>0. log \in Seq(Receipts) /\ LogInv(log) /\ log' \in Seq(Receipts) /\ LogInv(log')
  BY StepWrites DEF IInv, Typed
<1>1. r.t = "stage_dispatch_started" /\ r.at = stage.at
  BY DEF Mine, Receipt
<1>2. /\ pc = "start" /\ earlier' = earlier
      /\ \/ Allowed(log, r) /\ log' = Append(log, r) /\ pc' = "call"
         \/ log' = log /\ pc' = "unsent"
         \/ Allowed(log, r) /\ log' = Append(log, r) /\ pc' = "unsent" /\ broker' = FALSE
      /\ IF Covered /\ pc' = "unsent" THEN used' = used - Projected /\ held' = held - 1
                                      ELSE used' = used /\ held' = held
  BY DEF Start, Appends, CanWrite
<1> HIDE DEF r
<1>3. /\ Cardinality(Sent) \in Nat /\ Cardinality(Broke) \in Nat /\ Cardinality(Broke') \in Nat
      /\ Cardinality(Broke) <= Cardinality(Broke')
  BY StepCounts
<1>4. PICK s, b, c, t : /\ s = Cardinality(Sent) /\ b = Cardinality(Broke)
                        /\ c = Cardinality(Broke') /\ t = Cardinality(Sent')
  OBVIOUS
<1>5. Projected \in Nat /\ Limit \in Nat /\ used \in Int /\ held \in Nat /\ earlier \in Int
  BY RunAssumption DEF Spend
<1>6. Covered => used <= Limit /\ used >= earlier + s + Projected /\ held > 0 /\ held <= b + 1
  BY <1>2, <1>4 DEF Spend
<1>7. ASSUME log' = Append(log, r), Allowed(log, r)
      PROVE  t = s + 1
  <2>1. ~Dispatched(log, r.at)
    BY <1>1, <1>7 DEF Allowed, AttemptMoves, OfAttempt
  <2>2. log' \in Seq(Receipts) /\ r \in Receipts
    <3>1. log \in Seq(Receipts \cup {r}) /\ Len(log) \in Nat
      BY <1>0, LenProperties
    <3>2. Len(log') = Len(log) + 1 /\ log'[Len(log) + 1] = r
      BY <1>7, <3>1, AppendProperties
    <3> QED
      BY <1>0, <3>1, <3>2, ElementOfSeq
  <2>3. LET m == Append(log, r) IN
        /\ m \in Seq(Receipts) /\ Len(log) \in Nat /\ Len(m) = Len(log) + 1
        /\ DOMAIN m = DOMAIN log \cup {Len(log) + 1} /\ DOMAIN log = 1..Len(log)
        /\ \A i \in DOMAIN log : m[i] = log[i]
        /\ m[Len(log) + 1] = r
    BY <1>0, <2>2, Longer
  <2>4. \A a : Dispatched(log', a) <=> Dispatched(log, a) \/ a = r.at
    BY <1>1, <1>7, <2>3 DEF Dispatched
  <2>5. SentIn(log') = SentIn(log) \cup {r.at}
    BY <1>0, <2>4, Counted
  <2>6. r.at \notin SentIn(log) /\ IsFiniteSet(SentIn(log))
    BY <1>0, <2>1, Counted
  <2>7. Cardinality(SentIn(log) \cup {r.at}) = Cardinality(SentIn(log)) + 1
    BY <2>6, FS_AddElement
  <2> QED
    BY <1>4, <2>5, <2>7, CountsAre
<1>8. log' = log => t = s
  BY <1>4 DEF Sent
<1>9. CASE ~Covered
  BY <1>2, <1>5, <1>9 DEF Spend
<1>10. CASE Covered /\ Allowed(log, r) /\ log' = Append(log, r) /\ pc' = "call"
  BY <1>2, <1>3, <1>4, <1>5, <1>6, <1>7, <1>10 DEF Spend
<1>11. CASE Covered /\ log' = log /\ pc' = "unsent"
  BY <1>2, <1>3, <1>4, <1>5, <1>6, <1>8, <1>11 DEF Spend
<1>12. CASE Covered /\ pc' = "unsent" /\ broker' = FALSE
  BY <1>2, <1>3, <1>4, <1>5, <1>6, <1>12 DEF Spend
<1> QED
  BY <1>2, <1>9, <1>10, <1>11, <1>12

LEMMA CompleteSpends ==
  ASSUME IInv, [Next]_vars, Spend, Projected > 0, Complete
  PROVE  Spend'
<1>1. pc = "complete" /\ pc' \in {"route", "sent"} /\ Reconcile
  BY DEF Complete, Appends
<1>2. /\ Cardinality(Sent) \in Nat /\ Cardinality(Broke) \in Nat /\ Cardinality(Broke') \in Nat
      /\ Cardinality(Broke) <= Cardinality(Broke') /\ Sent' = Sent
  BY <1>1, StepCounts
<1>3. PICK s, b, c : s = Cardinality(Sent) /\ b = Cardinality(Broke) /\ c = Cardinality(Broke')
  OBVIOUS
<1>4. Projected \in Nat /\ Limit \in Nat /\ used \in Int /\ held \in Nat /\ earlier \in Int
  BY RunAssumption DEF Spend
<1>5. Covered => /\ used <= Limit /\ used + 1 >= earlier + s + Projected /\ held > 0
                 /\ held <= b + 1
  BY <1>1, <1>3 DEF Spend
<1>6. /\ earlier' = earlier
      /\ Covered => used' = used - Projected + 1 /\ held' = held - 1
      /\ ~Covered => used' = used + 1 /\ held' = held
  BY <1>1, <1>5 DEF Reconcile
<1> QED
  BY <1>1, <1>2, <1>3, <1>4, <1>5, <1>6 DEF Spend

LEMMA FailSpends ==
  ASSUME IInv, [Next]_vars, Spend, Projected > 0, Fail, pc = "sent"
  PROVE  Spend'
<1> DEFINE r == Mine("stage_failed", "dispatched")
<1>0. log \in Seq(Receipts) /\ LogInv(log) /\ log' \in Seq(Receipts) /\ LogInv(log')
  BY StepWrites DEF IInv, Typed
<1>1. r.t = "stage_failed" /\ r.at = stage.at
  BY DEF Mine, Receipt
<1>2. /\ UNCHANGED window
      /\ \/ Allowed(log, r) /\ log' = Append(log, r) /\ pc' = "refuse"
         \/ pc' = "broken"
  BY DEF Fail, Appends, CanWrite
<1> HIDE DEF r
<1>3. /\ Cardinality(Sent) \in Nat /\ Cardinality(Broke) \in Nat /\ Cardinality(Broke') \in Nat
      /\ Cardinality(Broke) <= Cardinality(Broke') /\ Sent' = Sent
  BY StepCounts
<1>4. PICK s, b, c : s = Cardinality(Sent) /\ b = Cardinality(Broke) /\ c = Cardinality(Broke')
  OBVIOUS
<1>5. Projected \in Nat /\ Limit \in Nat /\ used \in Int /\ held \in Nat /\ earlier \in Int
  BY RunAssumption DEF Spend
<1>6. Covered => used <= Limit /\ used >= earlier + s /\ held <= b + 1
  BY <1>4 DEF Spend
<1>7. used' = used /\ held' = held /\ earlier' = earlier
  BY <1>2 DEF window
<1>8. ASSUME log' = Append(log, r), Allowed(log, r)
      PROVE  c >= b + 1
  <2>1. r.at \in OpenAttempts(log)
    BY <1>1, <1>8 DEF Allowed, AttemptMoves, OfAttempt, AttemptEnds
  <2>2. r.at \notin BrokeIn(log)
    BY <2>1 DEF BrokeIn, OpenAttempts
  <2>3. r \in Receipts
    <3>1. log \in Seq(Receipts \cup {r}) /\ Len(log) \in Nat
      BY <1>0, LenProperties
    <3>2. Len(log') = Len(log) + 1 /\ log'[Len(log) + 1] = r
      BY <1>8, <3>1, AppendProperties
    <3> QED
      BY <1>0, <3>1, <3>2, ElementOfSeq
  <2>4. Grows(log, log', {r})
    BY <1>0, <1>8, <2>3, OneGrows
  <2>5. Len(log) + 1 \in All(log', AttemptEnds) /\ log'[Len(log) + 1] = r
    <3>1. LET m == Append(log, r) IN
          /\ m \in Seq(Receipts) /\ Len(log) \in Nat /\ Len(m) = Len(log) + 1
          /\ DOMAIN m = DOMAIN log \cup {Len(log) + 1} /\ DOMAIN log = 1..Len(log)
          /\ \A i \in DOMAIN log : m[i] = log[i]
          /\ m[Len(log) + 1] = r
      BY <1>0, <2>3, Longer
    <3> QED
      BY <1>1, <1>8, <3>1 DEF All, AttemptEnds
  <2>6. EndOf(log', r.at) = "stage_failed"
    <3>1. \A j \in All(log', AttemptEnds) : log'[j].at = r.at => j = Len(log) + 1
      BY <1>0, <2>5 DEF LogInv
    <3> QED
      BY <1>0, <1>1, <2>5, <3>1, EndIs
  <2>7. r.at \in SentIn(log')
    <3>1. Dispatched(log, stage.at)
      BY DEF IInv, Ahead
    <3>2. Dispatched(log', stage.at)
      BY <1>0, <2>4, <3>1, DispatchedGrow
    <3> QED
      BY <1>0, <1>1, <3>2, Counted
  <2>8. BrokeIn(log) \cup {r.at} \subseteq BrokeIn(log')
    <3>1. {"stage_failed", "stage_interrupted"} \subseteq AttemptEnds
      BY DEF AttemptEnds
    <3>2. \A a \in BrokeIn(log) : EndOf(log', a) = EndOf(log, a)
      BY <1>0, <2>4, <3>1, EndStays DEF BrokeIn
    <3>3. \A a \in BrokeIn(log) : a \in SentIn(log')
      BY <1>0, <2>4, DispatchedGrow, Counted DEF BrokeIn
    <3> QED
      BY <2>6, <2>7, <3>2, <3>3 DEF BrokeIn
  <2>9. Cardinality(BrokeIn(log) \cup {r.at}) = Cardinality(BrokeIn(log)) + 1
    BY <1>0, <2>2, Counted, FS_AddElement
  <2>10. Cardinality(BrokeIn(log) \cup {r.at}) <= Cardinality(BrokeIn(log'))
    BY <1>0, <2>8, Counted, FS_Subset
  <2> QED
    BY <1>4, <2>9, <2>10, CountsAre
<1>9. CASE ~Covered
  BY <1>5, <1>7, <1>9 DEF Spend
<1>10. CASE Covered /\ Allowed(log, r) /\ log' = Append(log, r) /\ pc' = "refuse"
  BY <1>3, <1>4, <1>5, <1>6, <1>7, <1>8, <1>10 DEF Spend
<1>11. CASE Covered /\ pc' = "broken"
  BY <1>5, <1>6, <1>7, <1>11 DEF Spend
<1> QED
  BY <1>2, <1>9, <1>10, <1>11

LEMMA SpendStep ==
  ASSUME IInv, [Next]_vars, Spend, Projected > 0
  PROVE  Spend'
<1>1. CASE Reserve
  BY <1>1, ReserveSpends
<1>2. CASE Start
  BY <1>2, StartSpends
<1>3. CASE Complete
  BY <1>3, CompleteSpends
<1>4. CASE Fail /\ pc = "sent"
  BY <1>4, FailSpends
<1>5. CASE ~Reserve /\ ~Start /\ ~Complete /\ ~(Fail /\ pc = "sent")
  <2>1. Saves
    BY <1>5, EngineSaves, OthersSave DEF Next
  <2> QED
    BY <2>1, SavesSpend
<1> QED
  BY <1>1, <1>2, <1>3, <1>4, <1>5

LEMMA SpendInit ==
  ASSUME Init
  PROVE  Spend
<1>1. /\ pc = "attest" /\ used = earlier /\ held = 0 /\ earlier \in Earlier
  BY DEF Init
<1>2. earlier \in Nat /\ earlier <= Limit /\ Limit \in Nat
  BY <1>1, RunAssumption
<1>3. Cardinality(Sent) = 0 /\ Cardinality(Broke) = 0
  <2>1. Sent = {} /\ Broke = {}
    BY DEF Init, Sent, Broke, Attempts, All
  <2> QED
    BY <2>1, FS_EmptySet
<1> QED
  BY <1>1, <1>2, <1>3 DEF Spend

\* Where every role is projected one call or more, a plan window never forgets a
\* call that was sent, never passes its limit, and holds nothing between stages
\* but for stages that failed: reserve, cancel and reconcile of the window.
THEOREM WindowCovers ==
  ASSUME Projected > 0
  PROVE  Spec => []SpendCovered
<1>1. Init => Spend
  BY SpendInit
<1>2. IInv /\ Spend /\ [Next]_vars => Spend'
  BY SpendStep
<1>3. ASSUME IInv, Spend
      PROVE  SpendCovered
  <2>1. Cardinality(Sent) \in Nat
    BY <1>3, Counted, CountsAre DEF IInv, Typed
  <2>2. PICK s, b : s = Cardinality(Sent) /\ b = Cardinality(Broke)
    OBVIOUS
  <2>3. Projected \in Nat /\ used \in Int /\ held \in Nat /\ earlier \in Int
    BY <1>3, RunAssumption DEF Spend
  <2>4. SUFFICES ASSUME Covered, pc \notin {"unsent", "broken", "dead"}
                 PROVE  /\ used >= earlier + s /\ used <= Limit
                        /\ pc \in {"create", "repair", "returned"} => held <= b
    BY <2>2 DEF SpendCovered, Broke
  <2>5. used <= Limit /\ (pc \in {"create", "repair", "returned"} => held <= b)
    BY <1>3, <2>2, <2>4 DEF Spend
  <2>6. used >= earlier + s
    <3>1. CASE pc = "start"
      BY <1>3, <2>1, <2>2, <2>3, <2>4, <3>1 DEF Spend
    <3>2. CASE pc \in {"call", "complete"}
      BY <1>3, <2>1, <2>2, <2>3, <2>4, <3>2 DEF Spend
    <3>3. CASE pc \notin {"start", "call", "complete"}
      BY <1>3, <2>2, <2>4, <3>3 DEF Spend
    <3> QED
      BY <3>1, <3>2, <3>3
  <2> QED
    BY <2>5, <2>6
<1> QED
  BY <1>1, <1>2, <1>3, RunInvariant, PTL DEF Spec

----------------------------------------------------------------------------
(* What Fleet shows.  The rows of the fold follow the receipts one by one:  *)
(* what they say of the receipts is an invariant of the log, as long as     *)
(* attempts come after the plan and a repair is routed when none is open.   *)

EndsOf(l, a) == {i \in All(l, AttemptEnds) : l[i].at = a}
\* The state of a row whose newest attempt is a.
EndState(l, a) == IF EndsOf(l, a) = {} THEN "running" ELSE StateAfter[l[Max(EndsOf(l, a))].t]
Unfinished(l) == {a \in Attempts(l) : EndsOf(l, a) = {}}
Routes(l, x) == {i \in All(l, {"repair_routed"}) : l[i].lane = x}
RoutedTo(l, x) == Newest(Routes(l, x))
LaneAttempts(l, x) == {a \in Attempts(l) : l[a].lane = x}
AppliedIn(l) == {i \in Commands(l) : \E j \in All(l, {"context_injected"}) : l[j].of = i}

\* Of the receipts alone: the newest attempt of a lane is the one that may be
\* open, and no repair was routed to its lane since.
Traced(l) ==
  /\ Attempts(l) # {} => Cataloged(l)
  /\ \A a \in Attempts(l) : l[a].lane \in Lanes
  /\ \A i \in All(l, AttemptEnds) : l[i].at \in Attempts(l)
  /\ \A a \in Unfinished(l) :
       /\ \A b \in LaneAttempts(l, l[a].lane) : b <= a
       /\ \A i \in Routes(l, l[a].lane) : i < a
  /\ \A d \in All(l, {"run_abandoned"}) : l[d].say = "none" /\ {l[d].at} \ {0} = Unfinished(l)
  /\ Decided(l) => OpenAttempts(l) = {}
  /\ \A d \in All(l, {"run_decision"}) :
       l[d].say \in {"completed", "blocked", "failed", "awaiting_approval"}

States == {"absent", "dormant", "queued", "running", "sealed", "blocked", "failed", "interrupted"}
Resting == {"absent", "dormant", "queued"}
LaneRows == [state : States, attempts : Seq(Nat), ended : BOOLEAN]
Views ==
  [lanes : [Lanes -> LaneRows],
   status : {"running", "completed", "blocked", "failed", "awaiting_approval", "workflow_abandoned"},
   open : SUBSET Nat, seen : SUBSET Nat, abandoned : SUBSET Int, injected : Nat, accepted : Nat,
   revision : Nat, errors : SUBSET {"attempt_created_missing", "action_open_missing"}]

\* One row, and the receipts about its lane.
RowTrue(row, l, x) ==
  /\ \A a \in LaneAttempts(l, x) : \E k \in DOMAIN row.attempts : row.attempts[k] = a
  /\ row.attempts = <<>> <=> LaneAttempts(l, x) = {}
  /\ row.attempts # <<>> =>
       /\ row.attempts[Len(row.attempts)] = LastAttempt(l, x)
       /\ row.ended <=> EndsOf(l, LastAttempt(l, x)) # {}
  /\ IF LastAttempt(l, x) > RoutedTo(l, x)
       THEN row.state = EndState(l, LastAttempt(l, x)) ELSE row.state \in Resting

StatusTrue(v, l) ==
  /\ \A d \in All(l, {"run_decision"}) : l[d].say # "awaiting_approval" => v.status = l[d].say
  /\ All(l, {"run_abandoned"}) # {} => v.status = "workflow_abandoned"
  /\ ~Decided(l) => v.status = IF Waiting(l) THEN "awaiting_approval" ELSE "running"

ViewTrue(v, l) ==
  /\ v \in Views /\ v.errors = {}
  /\ \A x \in Lanes : RowTrue(v.lanes[x], l, x)
  /\ v.seen = All(l, {"action_opened"}) /\ v.open = OpenActions(l)
  /\ v.accepted = Cardinality(Commands(l)) /\ v.injected = Cardinality(AppliedIn(l))
  /\ \A d \in All(l, {"run_abandoned"}) : v.abandoned = {l[d].at} \ {0}
  /\ All(l, {"run_abandoned"}) = {} => v.abandoned = {}
  /\ StatusTrue(v, l)
Viewed(l) == Traced(l) /\ ViewTrue(Folded(l), l)

\* The engine opens one attempt at a time, after the plan.
Single ==
  /\ pc \in Prepared => OpenAttempts(log) \subseteq {stage.at}
  /\ pc \in {"create", "repair"} => OpenAttempts(log) = {}
  /\ pc = "plan" \/ pc = "attest" => Attempts(log) = {}
  /\ pc \in Prepared \cup {"create", "repair"} => Cataloged(log)

\* What the supervisor says of the run is sealed in its receipts.
SaidFailed == \E d \in All(log, {"run_decision"}) : log[d].say = "failed"
Supervised ==
  /\ sealed => OpenAttempts(log) = {}
  /\ watch \in {"seal", "state"} => SaidFailed
  /\ watch = "state" => sealed
  /\ sup.life = "failed" => sealed /\ SaidFailed
  /\ sup.life = "abandoned" => sealed /\ All(log, {"run_abandoned"}) # {}

----------------------------------------------------------------------------
(* The fold, receipt by receipt.                                           *)

\* f folds the first n receipts of l.
Folds(f, l, n) == f = [k \in 0..n |-> IF k = 0 THEN Blank ELSE Step(f[k - 1], k, l[k])]

\* Two folds of the same receipts agree.
LEMMA FoldsAgree ==
  ASSUME NEW l, NEW m, NEW n \in Nat, NEW k \in Nat, n <= k,
         \A i \in 1..n : l[i] = m[i],
         NEW f, Folds(f, l, n), NEW g, Folds(g, m, k)
  PROVE  \A i \in 0..n : f[i] = g[i]
<1> DEFINE T == {i \in 0..n : f[i] # g[i]}
<1> SUFFICES ASSUME T # {} PROVE FALSE
  OBVIOUS
<1>1. PICK i \in T : \A y \in T : i <= y
  <2>1. T \subseteq Nat
    OBVIOUS
  <2> HIDE DEF T
  <2> QED
    BY <2>1, Least
<1>2. i \in 0..n /\ i \in 0..k /\ f[i] # g[i]
  OBVIOUS
<1>3. /\ f[i] = IF i = 0 THEN Blank ELSE Step(f[i - 1], i, l[i])
      /\ g[i] = IF i = 0 THEN Blank ELSE Step(g[i - 1], i, m[i])
  BY <1>2 DEF Folds
<1>4. i # 0
  BY <1>2, <1>3
<1>5. i - 1 \in 0..n /\ i - 1 \notin T /\ l[i] = m[i]
  BY <1>1, <1>2, <1>4
<1>6. f[i - 1] = g[i - 1]
  BY <1>5
<1> QED
  BY <1>2, <1>3, <1>4, <1>5, <1>6

\* One more receipt, one more step.
LEMMA FoldsMore ==
  ASSUME NEW l, NEW n \in Nat, NEW f, Folds(f, l, n)
  PROVE  \E g : Folds(g, l, n + 1)
<1> DEFINE g == [k \in 0..(n + 1) |-> IF k = n + 1 THEN Step(f[n], n + 1, l[n + 1]) ELSE f[k]]
           h == [k \in 0..(n + 1) |-> IF k = 0 THEN Blank ELSE Step(g[k - 1], k, l[k])]
<1>1. ASSUME NEW k \in 0..(n + 1) PROVE g[k] = h[k]
  <2>1. CASE k = n + 1
    BY <2>1
  <2>2. CASE k # n + 1
    <3>1. k \in 0..n /\ g[k] = f[k]
      BY <2>2
    <3>2. f[k] = IF k = 0 THEN Blank ELSE Step(f[k - 1], k, l[k])
      BY <3>1 DEF Folds
    <3>3. k # 0 => g[k - 1] = f[k - 1]
      BY <3>1
    <3> QED
      BY <3>1, <3>2, <3>3
  <2> QED
    BY <2>1, <2>2
<1>2. g = h
  BY <1>1
<1>3. Folds(g, l, n + 1)
  BY <1>2 DEF Folds
<1> QED
  BY <1>3

LEMMA FoldsExist ==
  ASSUME NEW l, NEW n \in Nat
  PROVE  \E f : Folds(f, l, n)
<1> DEFINE T == {k \in Nat : ~\E f : Folds(f, l, k)}
<1> SUFFICES ASSUME T # {} PROVE FALSE
  OBVIOUS
<1>1. PICK k \in T : \A y \in T : k <= y
  <2>1. T \subseteq Nat
    OBVIOUS
  <2> HIDE DEF T
  <2> QED
    BY <2>1, Least
<1>2. k # 0
  <2>1. Folds([x \in 0..0 |-> Blank], l, 0)
    BY DEF Folds
  <2> QED
    BY <2>1
<1>3. k - 1 \in Nat /\ k - 1 \notin T
  BY <1>1, <1>2
<1>4. PICK f : Folds(f, l, k - 1)
  BY <1>3
<1>5. \E g : Folds(g, l, (k - 1) + 1)
  BY <1>3, <1>4, FoldsMore
<1> QED
  BY <1>5

LEMMA FoldedIs ==
  ASSUME NEW l, Len(l) \in Nat
  PROVE  \E f : Folds(f, l, Len(l)) /\ Folded(l) = f[Len(l)]
<1> DEFINE f == CHOOSE f : Folds(f, l, Len(l))
<1>1. Folds(f, l, Len(l))
  BY FoldsExist
<1>2. Folded(l) = f[Len(l)]
  BY DEF Folded, Folds
<1> QED
  BY <1>1, <1>2

\* The fold of no receipts is blank, and one receipt more is one step more.
LEMMA FoldedMore ==
  /\ Folded(<<>>) = Blank
  /\ \A l \in Seq(Receipts) : \A r \in Receipts :
       Folded(Append(l, r)) = Step(Folded(l), Len(l) + 1, r)
<1>1. Folded(<<>>) = Blank
  <2>1. PICK f : Folds(f, <<>>, 0) /\ Folded(<<>>) = f[0]
    BY FoldedIs
  <2> QED
    BY <2>1 DEF Folds
<1>2. ASSUME NEW l \in Seq(Receipts), NEW r \in Receipts
      PROVE  Folded(Append(l, r)) = Step(Folded(l), Len(l) + 1, r)
  <2> DEFINE m == Append(l, r)
             n == Len(l)
  <2>1. /\ n \in Nat /\ Len(m) = n + 1 /\ m[n + 1] = r
        /\ \A k \in 1..n : l[k] = m[k]
    BY LenProperties, AppendProperties
  <2> HIDE DEF m, n
  <2>2. PICK f : Folds(f, l, n) /\ Folded(l) = f[n]
    BY <2>1, FoldedIs DEF n
  <2>3. PICK g : Folds(g, m, n + 1) /\ Folded(m) = g[n + 1]
    BY <2>1, FoldedIs
  <2>4. f[n] = g[n]
    BY <2>1, <2>2, <2>3, FoldsAgree
  <2>5. g[n + 1] = Step(g[n], n + 1, m[n + 1])
    BY <2>1, <2>3 DEF Folds
  <2> QED
    BY <2>1, <2>2, <2>3, <2>4, <2>5 DEF m, n
<1> QED
  BY <1>1, <1>2

----------------------------------------------------------------------------
(* What one more receipt makes of the attempts of a lane.                  *)

LEMMA NewestBounds ==
  ASSUME NEW l \in Seq(Receipts), NEW S, \A i \in S : i \in DOMAIN l
  PROVE  /\ Newest(S) \in Nat /\ Newest(S) <= Len(l)
         /\ S # {} => Newest(S) \in S /\ Newest(S) # 0
         /\ S = {} => Newest(S) = 0
         /\ \A i \in S : i <= Newest(S)
<1>1. Len(l) \in Nat /\ DOMAIN l = 1..Len(l)
  BY LenProperties
<1>2. CASE S = {}
  BY <1>1, <1>2 DEF Newest
<1>3. CASE S # {}
  <2>1. Max(S) \in S /\ \A i \in S : i <= Max(S)
    BY <1>3, NewestIs
  <2>2. Newest(S) = Max(S)
    BY <1>3 DEF Newest
  <2> QED
    BY <1>1, <1>3, <2>1, <2>2
<1> QED
  BY <1>2, <1>3

LEMMA NewestMore ==
  ASSUME NEW l \in Seq(Receipts), NEW S, \A i \in S : i \in DOMAIN l
  PROVE  Newest(S \cup {Len(l) + 1}) = Len(l) + 1
<1> DEFINE n == Len(l) + 1
           T == S \cup {n}
<1>1. Len(l) \in Nat /\ DOMAIN l = 1..Len(l)
  BY LenProperties
<1>2. n \in T /\ \A i \in T : i \in Int /\ n >= i
  BY <1>1
<1> HIDE DEF T
<1>3. \A x \in T : (\A y \in T : x >= y) => x = n
  BY <1>1, <1>2
<1>4. Max(T) = n
  BY <1>2, <1>3 DEF Max
<1> QED
  BY <1>2, <1>4 DEF Newest, T

LEMMA LaneBounds ==
  ASSUME NEW l \in Seq(Receipts), NEW x
  PROVE  /\ LastAttempt(l, x) \in Nat /\ LastAttempt(l, x) <= Len(l)
         /\ LaneAttempts(l, x) # {} => LastAttempt(l, x) \in LaneAttempts(l, x) /\ LastAttempt(l, x) # 0
         /\ LaneAttempts(l, x) = {} => LastAttempt(l, x) = 0
         /\ \A a \in LaneAttempts(l, x) : a <= LastAttempt(l, x)
         /\ RoutedTo(l, x) \in Nat /\ RoutedTo(l, x) <= Len(l)
         /\ Routes(l, x) # {} => RoutedTo(l, x) \in Routes(l, x)
         /\ Routes(l, x) = {} => RoutedTo(l, x) = 0
<1>1. \A a \in LaneAttempts(l, x) : a \in DOMAIN l
  BY DEF LaneAttempts, Attempts, All
<1>2. \A i \in Routes(l, x) : i \in DOMAIN l
  BY DEF Routes, All
<1>3. LastAttempt(l, x) = Newest(LaneAttempts(l, x))
  BY DEF LastAttempt, LaneAttempts
<1> HIDE DEF LaneAttempts, Routes
<1> QED
  BY <1>1, <1>2, <1>3, NewestBounds DEF RoutedTo

\* How the receipts' sets grow.
LEMMA SetsMore ==
  ASSUME NEW l \in Seq(Receipts), NEW r \in Receipts
  PROVE  LET m == Append(l, r)
             n == Len(l) + 1
         IN /\ n \in Nat /\ n \notin DOMAIN l /\ m \in Seq(Receipts) /\ m[n] = r
            /\ \A i \in DOMAIN l : i \in Nat /\ i < n /\ m[i] = l[i]
            /\ Attempts(m) = Attempts(l) \cup (IF r.t = "stage_attempt_created" THEN {n} ELSE {})
            /\ \A x : LaneAttempts(m, x) = LaneAttempts(l, x) \cup
                        (IF r.t = "stage_attempt_created" /\ r.lane = x THEN {n} ELSE {})
            /\ \A x : LastAttempt(m, x) =
                        IF r.t = "stage_attempt_created" /\ r.lane = x THEN n ELSE LastAttempt(l, x)
            /\ \A x : Routes(m, x) = Routes(l, x) \cup
                        (IF r.t = "repair_routed" /\ r.lane = x THEN {n} ELSE {})
            /\ \A x : RoutedTo(m, x) =
                        IF r.t = "repair_routed" /\ r.lane = x THEN n ELSE RoutedTo(l, x)
            /\ \A a : EndsOf(m, a) = EndsOf(l, a) \cup
                        (IF r.t \in AttemptEnds /\ r.at = a THEN {n} ELSE {})
            /\ \A a : EndState(m, a) =
                        IF r.t \in AttemptEnds /\ r.at = a THEN StateAfter[r.t] ELSE EndState(l, a)
<1> DEFINE m == Append(l, r)
           n == Len(l) + 1
<1>1. /\ n \in Nat /\ n \notin DOMAIN l /\ m \in Seq(Receipts) /\ m[n] = r
      /\ \A i \in DOMAIN l : i \in Nat /\ i < n /\ m[i] = l[i]
  BY Longer
<1>2. \A ts : All(m, ts) = All(l, ts) \cup (IF r.t \in ts THEN {n} ELSE {})
  BY AllLonger
<1>3. \A ts : \A i \in All(l, ts) : i \in DOMAIN l
  BY DEF All
<1> HIDE DEF m
<1>4. Attempts(m) = Attempts(l) \cup (IF r.t = "stage_attempt_created" THEN {n} ELSE {})
  BY <1>2 DEF Attempts
<1>5. ASSUME NEW x
      PROVE  LaneAttempts(m, x) = LaneAttempts(l, x) \cup
               (IF r.t = "stage_attempt_created" /\ r.lane = x THEN {n} ELSE {})
  <2>1. \A a \in Attempts(l) : m[a] = l[a] /\ a # n
    BY <1>1, <1>3 DEF Attempts
  <2> HIDE DEF n
  <2> QED
    BY <1>1, <1>4, <2>1 DEF LaneAttempts
<1>6. ASSUME NEW x
      PROVE  Routes(m, x) = Routes(l, x) \cup
               (IF r.t = "repair_routed" /\ r.lane = x THEN {n} ELSE {})
  <2>1. \A a \in All(l, {"repair_routed"}) : m[a] = l[a] /\ a # n
    BY <1>1, <1>3
  <2>2. All(m, {"repair_routed"}) = All(l, {"repair_routed"}) \cup (IF r.t = "repair_routed" THEN {n} ELSE {})
    BY <1>2
  <2> HIDE DEF n
  <2> QED
    BY <1>1, <2>1, <2>2 DEF Routes
<1>7. ASSUME NEW a
      PROVE  EndsOf(m, a) = EndsOf(l, a) \cup (IF r.t \in AttemptEnds /\ r.at = a THEN {n} ELSE {})
  <2>1. \A i \in All(l, AttemptEnds) : m[i] = l[i] /\ i # n
    BY <1>1, <1>3
  <2>2. All(m, AttemptEnds) = All(l, AttemptEnds) \cup (IF r.t \in AttemptEnds THEN {n} ELSE {})
    BY <1>2
  <2> HIDE DEF n
  <2> QED
    BY <1>1, <2>1, <2>2 DEF EndsOf
<1>8. ASSUME NEW x
      PROVE  LastAttempt(m, x) =
               IF r.t = "stage_attempt_created" /\ r.lane = x THEN n ELSE LastAttempt(l, x)
  <2>1. \A y \in LaneAttempts(l, x) : y \in DOMAIN l
    BY <1>3 DEF LaneAttempts, Attempts
  <2>2. /\ LastAttempt(m, x) = Newest(LaneAttempts(m, x))
        /\ LastAttempt(l, x) = Newest(LaneAttempts(l, x))
    BY DEF LastAttempt, LaneAttempts
  <2>3. Newest(LaneAttempts(l, x) \cup {n}) = n
    BY <2>1, NewestMore
  <2> HIDE DEF n
  <2> QED
    BY <1>5, <2>2, <2>3
<1>9. ASSUME NEW x
      PROVE  RoutedTo(m, x) = IF r.t = "repair_routed" /\ r.lane = x THEN n ELSE RoutedTo(l, x)
  <2>1. \A y \in Routes(l, x) : y \in DOMAIN l
    BY <1>3 DEF Routes
  <2>2. Newest(Routes(l, x) \cup {n}) = n
    BY <2>1, NewestMore
  <2> HIDE DEF n
  <2> QED
    BY <1>6, <2>2 DEF RoutedTo
<1>10. ASSUME NEW a
       PROVE  EndState(m, a) =
                IF r.t \in AttemptEnds /\ r.at = a THEN StateAfter[r.t] ELSE EndState(l, a)
  <2>1. \A y \in EndsOf(l, a) : y \in DOMAIN l
    BY <1>3 DEF EndsOf
  <2>2. CASE r.t \in AttemptEnds /\ r.at = a
    <3>1. EndsOf(m, a) = EndsOf(l, a) \cup {n}
      BY <1>7, <2>2
    <3>2. Newest(EndsOf(l, a) \cup {n}) = n
      BY <2>1, NewestMore
    <3>3. EndsOf(m, a) # {} /\ Max(EndsOf(m, a)) = n
      <4> HIDE DEF n
      <4> QED
        BY <3>1, <3>2 DEF Newest
    <3> QED
      BY <1>1, <2>2, <3>3 DEF EndState
  <2>3. CASE ~(r.t \in AttemptEnds /\ r.at = a)
    <3>1. EndsOf(m, a) = EndsOf(l, a)
      BY <1>7, <2>3
    <3>2. CASE EndsOf(l, a) = {}
      BY <2>3, <3>1, <3>2 DEF EndState
    <3>3. CASE EndsOf(l, a) # {}
      <4>1. Newest(EndsOf(l, a)) \in EndsOf(l, a) /\ Newest(EndsOf(l, a)) = Max(EndsOf(l, a))
        <5>1. Newest(EndsOf(l, a)) \in EndsOf(l, a)
          <6> HIDE DEF EndsOf
          <6> QED
            BY <2>1, <3>3, NewestBounds
        <5> QED
          BY <3>3, <5>1 DEF Newest
      <4>2. m[Max(EndsOf(l, a))] = l[Max(EndsOf(l, a))]
        BY <1>1, <2>1, <4>1
      <4> QED
        BY <2>3, <3>1, <3>3, <4>2 DEF EndState
    <3> QED
      BY <3>2, <3>3
  <2> QED
    BY <2>2, <2>3
<1> QED
  BY <1>1, <1>4, <1>5, <1>6, <1>7, <1>8, <1>9, <1>10 DEF m

----------------------------------------------------------------------------
(* The receipts' own invariant.                                            *)

\* What the engine adds to the contract: attempts after the plan, repairs
\* when no attempt is open.
Fits(l, r) ==
  /\ r.t = "stage_attempt_created" => Cataloged(l)
  /\ r.t = "repair_routed" => OpenAttempts(l) = {}
  /\ r.t = "run_abandoned" => r.say = "none"

LEMMA OpenIs ==
  ASSUME NEW l \in Seq(Receipts), Traced(l), ~Decided(l)
  PROVE  All(l, {"run_abandoned"}) = {} /\ OpenAttempts(l) = Unfinished(l)
<1>1. All(l, {"run_abandoned"}) = {}
  <2> SUFFICES ASSUME NEW d \in All(l, {"run_abandoned"}) PROVE FALSE
    OBVIOUS
  <2>1. l[d].say = "none" /\ d \in All(l, {"run_decision", "run_abandoned"})
    BY DEF Traced, All
  <2> QED
    BY <2>1 DEF Decided
<1>2. ASSUME NEW a PROVE EndOf(l, a) = "open" <=> EndsOf(l, a) = {}
  <2>1. CASE EndsOf(l, a) = {}
    BY <1>1, <2>1 DEF EndOf, EndsOf
  <2>2. CASE EndsOf(l, a) # {}
    BY <2>2, EndFound DEF EndsOf
  <2> QED
    BY <2>1, <2>2
<1> QED
  BY <1>1, <1>2 DEF OpenAttempts, Unfinished

LEMMA TracedGrows ==
  ASSUME NEW l \in Seq(Receipts), NEW r \in Receipts, LogInv(l), Traced(l), Allowed(l, r),
         Fits(l, r)
  PROVE  Traced(Append(l, r))
<1> DEFINE m == Append(l, r)
           n == Len(l) + 1
<1>1. /\ n \in Nat /\ n \notin DOMAIN l /\ m \in Seq(Receipts) /\ m[n] = r
      /\ \A i \in DOMAIN l : i \in Nat /\ i < n /\ m[i] = l[i]
      /\ Attempts(m) = Attempts(l) \cup (IF r.t = "stage_attempt_created" THEN {n} ELSE {})
      /\ \A x : LaneAttempts(m, x) = LaneAttempts(l, x) \cup
                  (IF r.t = "stage_attempt_created" /\ r.lane = x THEN {n} ELSE {})
      /\ \A x : Routes(m, x) = Routes(l, x) \cup
                  (IF r.t = "repair_routed" /\ r.lane = x THEN {n} ELSE {})
      /\ \A a : EndsOf(m, a) = EndsOf(l, a) \cup
                  (IF r.t \in AttemptEnds /\ r.at = a THEN {n} ELSE {})
  BY SetsMore
<1>2. \A ts : All(m, ts) = All(l, ts) \cup (IF r.t \in ts THEN {n} ELSE {})
  BY AllLonger
<1>3. \A ts : \A i \in All(l, ts) : i \in DOMAIN l /\ i \in Nat /\ i < n /\ m[i] = l[i]
  BY <1>1 DEF All
<1>4. Grows(l, m, {r})
  BY OneGrows
<1> HIDE DEF m, n
<1>5. ~Decided(l)
  BY DEF Allowed
<1>6. All(l, {"run_abandoned"}) = {} /\ OpenAttempts(l) = Unfinished(l)
  BY <1>5, OpenIs
<1>7. \A a \in Attempts(l) : a \in DOMAIN l /\ a \in Nat /\ a < n /\ m[a] = l[a]
  BY <1>3 DEF Attempts
<1>8. Attempts(m) # {} => Cataloged(m)
  <2>1. Cataloged(l) => Cataloged(m)
    BY <1>2 DEF Cataloged
  <2>2. Attempts(l) # {} \/ r.t = "stage_attempt_created" => Cataloged(l)
    BY DEF Traced, Fits
  <2> QED
    BY <1>1, <2>1, <2>2
<1>9. \A a \in Attempts(m) : m[a].lane \in Lanes
  <2>1. r.t = "stage_attempt_created" => r.lane \in Lanes
    BY DEF Fits, Allowed, AttemptOpens, Lanes
  <2> QED
    BY <1>1, <1>7, <2>1 DEF Traced
<1>10. r.t \in AttemptEnds => r.at \in Attempts(l)
  BY DEF Allowed, AttemptMoves, OfAttempt, OpenAttempts, AttemptEnds
<1>11. \A i \in All(m, AttemptEnds) : m[i].at \in Attempts(m)
  <2>1. \A i \in All(l, AttemptEnds) : l[i].at \in Attempts(l)
    BY DEF Traced
  <2> QED
    BY <1>1, <1>2, <1>3, <1>10, <2>1
<1>12. ASSUME NEW a \in Unfinished(m)
       PROVE  /\ \A b \in LaneAttempts(m, m[a].lane) : b <= a
              /\ \A i \in Routes(m, m[a].lane) : i < a
  <2>1. a \in Attempts(m) /\ EndsOf(l, a) = {}
    BY <1>1 DEF Unfinished
  <2>2. \A x : \A b \in LaneAttempts(l, x) : b \in Nat /\ b < n
    BY <1>7 DEF LaneAttempts
  <2>3. \A x : \A i \in Routes(l, x) : i \in Nat /\ i < n
    BY <1>3 DEF Routes
  <2>4. CASE a \in Attempts(l)
    <3>1. a \in Unfinished(l) /\ m[a] = l[a] /\ a \in Nat
      BY <1>7, <2>1, <2>4 DEF Unfinished
    <3>2. /\ \A b \in LaneAttempts(l, l[a].lane) : b <= a
          /\ \A i \in Routes(l, l[a].lane) : i < a
      BY <3>1 DEF Traced
    <3>3. r.t = "stage_attempt_created" => r.lane # l[a].lane
      BY <1>6, <3>1 DEF Allowed, AttemptOpens
    <3>4. r.t # "repair_routed"
      BY <1>6, <3>1 DEF Fits
    <3> QED
      BY <1>1, <3>1, <3>2, <3>3, <3>4
  <2>5. CASE a \notin Attempts(l)
    <3>1. a = n /\ r.t = "stage_attempt_created"
      BY <1>1, <2>1, <2>5
    <3>2. \A x : Routes(m, x) = Routes(l, x)
      BY <1>1, <3>1
    <3>3. \A x : \A b \in LaneAttempts(m, x) : b \in LaneAttempts(l, x) \/ b = n
      BY <1>1
    <3> QED
      BY <1>1, <2>2, <2>3, <3>1, <3>2, <3>3
  <2> QED
    BY <2>4, <2>5
<1>13. ASSUME NEW d \in All(m, {"run_abandoned"})
       PROVE  m[d].say = "none" /\ {m[d].at} \ {0} = Unfinished(m)
  <2>1. d = n /\ r.t = "run_abandoned" /\ m[d] = r
    BY <1>1, <1>2, <1>6
  <2>2. {r.at} \ {0} = OpenAttempts(l) /\ r.say = "none"
    BY <2>1 DEF Allowed, Abandons, Fits
  <2>3. Attempts(m) = Attempts(l) /\ \A a : EndsOf(m, a) = EndsOf(l, a)
    BY <1>1, <2>1 DEF AttemptEnds
  <2>4. Unfinished(m) = Unfinished(l)
    BY <2>3 DEF Unfinished
  <2> QED
    BY <1>6, <2>1, <2>2, <2>4
<1>14. r.t = "run_decision" => r.say \in {"completed", "blocked", "failed", "awaiting_approval"}
  BY DEF Allowed, Authorised, Rules
<1>15. Decided(m) => OpenAttempts(m) = {}
  <2> SUFFICES ASSUME Decided(m) PROVE OpenAttempts(m) = {}
    OBVIOUS
  <2>1. r.t \in {"run_decision", "run_abandoned"} /\ r.say # "awaiting_approval"
    <3>1. PICK i \in All(m, {"run_decision", "run_abandoned"}) : m[i].say # "awaiting_approval"
      BY DEF Decided
    <3>2. i \notin All(l, {"run_decision", "run_abandoned"})
      BY <1>3, <1>5, <3>1 DEF Decided
    <3> QED
      BY <1>1, <1>2, <3>1, <3>2
  <2>2. CASE r.t = "run_abandoned"
    <3>1. All(m, {"run_abandoned"}) # {}
      BY <1>2, <2>2
    <3>2. \A a : EndOf(m, a) # "open"
      BY <1>1, <3>1, EndFound
    <3> QED
      BY <3>2 DEF OpenAttempts
  <2>3. CASE r.t = "run_decision"
    <3>1. r.who \in {"orchestrator", "operator_gateway", "supervisor"}
      BY <2>3 DEF Allowed, Authorised, Rules
    <3>2. OpenAttempts(l) = {}
      BY <2>1, <2>3, <3>1 DEF Allowed, OperatorDecides, SupervisorDecides, EngineDecides, NothingOpen
    <3>3. OpenAttempts(m) = OpenAttempts(l)
      BY <1>4, <2>3, OpenSame DEF AttemptEnds
    <3> QED
      BY <3>2, <3>3
  <2> QED
    BY <2>1, <2>2, <2>3
<1>16. \A d \in All(m, {"run_decision"}) :
         m[d].say \in {"completed", "blocked", "failed", "awaiting_approval"}
  <2>1. \A d \in All(l, {"run_decision"}) :
          l[d].say \in {"completed", "blocked", "failed", "awaiting_approval"}
    BY DEF Traced
  <2> QED
    BY <1>1, <1>2, <1>3, <1>14, <2>1
<1>17. Traced(m)
  BY <1>8, <1>9, <1>11, <1>12, <1>13, <1>15, <1>16 DEF Traced
<1> QED
  BY <1>17 DEF m

----------------------------------------------------------------------------
(* One step of the fold, field by field.                                   *)

\* What a receipt needs of the view it is folded into.
Ready(v, r) ==
  /\ r.t \in OfAttempt => r.lane \in Lanes
  /\ r.t \in OfAttempt \ {"stage_attempt_created"} => Created(v, r.at)
  /\ r.t = "action_resolved" => r.of \in v.seen
  /\ r.t = "repair_routed" => r.lane \in Lanes
  /\ r.t = "run_decision" => r.say \in {"completed", "blocked", "failed", "awaiting_approval"}

RowsAfter(v, n, r) ==
  CASE r.t = "run_planned" ->
         [x \in Lanes |-> Row(IF x \in ConditionalLanes THEN "dormant" ELSE "queued")]
    [] r.t = "repair_routed" -> [v.lanes EXCEPT ![r.lane].state = "queued"]
    [] r.t \in OfAttempt -> [v.lanes EXCEPT ![r.lane] = Moved(@, n, r)]
    [] OTHER -> v.lanes

\* The fields, when the receipt was expected.
After(v, n, r, w) ==
  /\ w.errors = v.errors /\ w.revision \in Nat
  /\ w.lanes = RowsAfter(v, n, r)
  /\ w.seen = v.seen \cup (IF r.t = "action_opened" THEN {n} ELSE {})
  /\ w.open = IF r.t = "action_opened" THEN v.open \cup {n}
              ELSE IF r.t = "action_resolved" THEN v.open \ {r.of} ELSE v.open
  /\ w.accepted = IF r.t = "command_accepted" THEN v.accepted + 1 ELSE v.accepted
  /\ w.injected = IF r.t = "context_injected" THEN v.injected + 1 ELSE v.injected
  /\ w.abandoned = IF r.t = "run_abandoned" THEN {r.at} \ {0} ELSE v.abandoned
  /\ w.status = IF r.t = "run_abandoned" THEN "workflow_abandoned"
                ELSE IF r.t = "run_decision" THEN r.say ELSE v.status
  /\ w = [lanes |-> w.lanes, status |-> w.status, open |-> w.open, seen |-> w.seen,
          abandoned |-> w.abandoned, injected |-> w.injected, accepted |-> w.accepted,
          revision |-> w.revision, errors |-> w.errors]

LEMMA StepIs ==
  ASSUME NEW v \in Views, NEW n \in Nat, NEW r \in Receipts, Ready(v, r)
  PROVE  After(v, n, r, Step(v, n, r))
<1>0. v = [lanes |-> v.lanes, status |-> v.status, open |-> v.open, seen |-> v.seen,
           abandoned |-> v.abandoned, injected |-> v.injected, accepted |-> v.accepted,
           revision |-> v.revision, errors |-> v.errors] /\ v.revision \in Nat
  BY DEF Views
<1>1. CASE r.t \in OfAttempt
  <2>1. Step(v, n, r) = OfStage(v, n, r)
    BY <1>1 DEF Step, OfAttempt, AttemptEnds
  <2>2. Step(v, n, r) = [v EXCEPT !.lanes[r.lane] = Moved(@, n, r)]
    BY <1>1, <2>1 DEF OfStage, Ready
  <2>3. Step(v, n, r) = [v EXCEPT !.lanes = [v.lanes EXCEPT ![r.lane] = Moved(@, n, r)]]
    BY <2>2
  <2>4. RowsAfter(v, n, r) = [v.lanes EXCEPT ![r.lane] = Moved(@, n, r)]
    BY <1>1 DEF RowsAfter, OfAttempt, AttemptEnds
  <2>5. Step(v, n, r) = [v EXCEPT !.lanes = RowsAfter(v, n, r)]
    BY <2>3, <2>4
  <2> QED
    BY <1>0, <1>1, <2>5 DEF After, OfAttempt, AttemptEnds
<1>2. CASE r.t = "run_planned"
  BY <1>0, <1>2 DEF Step, Planned, After, RowsAfter, OfAttempt, AttemptEnds
<1>3. CASE r.t = "run_replanned"
  BY <1>0, <1>3 DEF Step, After, RowsAfter, OfAttempt, AttemptEnds
<1>4. CASE r.t = "run_decision"
  BY <1>0, <1>4 DEF Step, After, RowsAfter, OfAttempt, AttemptEnds
<1>5. CASE r.t = "run_abandoned"
  BY <1>0, <1>5 DEF Step, After, RowsAfter, OfAttempt, AttemptEnds
<1>6. CASE r.t = "command_accepted"
  BY <1>0, <1>6 DEF Step, After, RowsAfter, OfAttempt, AttemptEnds
<1>7. CASE r.t = "context_injected"
  BY <1>0, <1>7 DEF Step, After, RowsAfter, OfAttempt, AttemptEnds
<1>8. CASE r.t = "action_opened"
  BY <1>0, <1>8 DEF Step, After, RowsAfter, OfAttempt, AttemptEnds
<1>9. CASE r.t = "action_resolved"
  <2>1. Step(v, n, r) = [v EXCEPT !.open = @ \ {r.of}]
    BY <1>9 DEF Step, Resolved, Ready, OfAttempt, AttemptEnds
  <2> QED
    BY <1>0, <1>9, <2>1 DEF After, RowsAfter, OfAttempt, AttemptEnds
<1>10. CASE r.t = "repair_routed"
  <2>1. Step(v, n, r) = [v EXCEPT !.lanes = [v.lanes EXCEPT ![r.lane].state = "queued"]]
    BY <1>10 DEF Step, OfAttempt, AttemptEnds
  <2>2. RowsAfter(v, n, r) = [v.lanes EXCEPT ![r.lane].state = "queued"]
    BY <1>10 DEF RowsAfter, OfAttempt, AttemptEnds
  <2>3. Step(v, n, r) = [v EXCEPT !.lanes = RowsAfter(v, n, r)]
    BY <2>1, <2>2
  <2> QED
    BY <1>0, <1>10, <2>3 DEF After, OfAttempt, AttemptEnds
<1>11. CASE r.t \notin OfAttempt \cup {"run_planned", "run_replanned", "run_decision", "run_abandoned",
               "command_accepted", "context_injected", "action_opened", "action_resolved",
               "repair_routed"}
  <2>1. Step(v, n, r) = v
    BY <1>11 DEF Step
  <2> QED
    BY <1>0, <1>11, <2>1 DEF After, RowsAfter
<1> QED
  BY <1>1, <1>2, <1>3, <1>4, <1>5, <1>6, <1>7, <1>8, <1>9, <1>10, <1>11

----------------------------------------------------------------------------
(* The rows.                                                               *)

LEMMA MovedIs ==
  ASSUME NEW row \in LaneRows, NEW n \in Nat, NEW r, r.t \in OfAttempt,
         r.t # "stage_attempt_created" =>
           row.attempts # <<>> /\ row.attempts[Len(row.attempts)] = r.at
  PROVE  LET new == Moved(row, n, r)
         IN /\ new \in LaneRows /\ new.state = StateAfter[r.t]
            /\ new.attempts = IF r.t = "stage_attempt_created" THEN Append(row.attempts, n)
                              ELSE row.attempts
            /\ new.ended <=> r.t \in AttemptEnds
<1>1. row.attempts \in Seq(Nat)
  BY DEF LaneRows
<1>2. StateAfter[r.t] \in States
  BY DEF OfAttempt, AttemptEnds, StateAfter, States
<1>b. PICK b \in BOOLEAN : b = (r.t \in AttemptEnds)
  <2>1. CASE r.t \in AttemptEnds
    <3>1. TRUE = (r.t \in AttemptEnds)
      BY <2>1
    <3> QED
      BY <3>1
  <2>2. CASE r.t \notin AttemptEnds
    <3>1. FALSE = (r.t \in AttemptEnds)
      BY <2>2
    <3> QED
      BY <3>1
  <2> QED
    BY <2>1, <2>2
<1>3. CASE r.t = "stage_attempt_created"
  <2>1. Append(row.attempts, n) # <<>> /\ Append(row.attempts, n) \in Seq(Nat)
    BY <1>1, AppendProperties
  <2>2. Moved(row, n, r) = [state |-> StateAfter[r.t], attempts |-> Append(row.attempts, n),
                            ended |-> b]
    BY <1>b, <1>3, <2>1 DEF Moved
  <2>3. PICK new : new = Moved(row, n, r)
    OBVIOUS
  <2>4. new \in LaneRows
    BY <1>2, <2>1, <2>2, <2>3 DEF LaneRows
  <2>5. new.state = StateAfter[r.t] /\ new.attempts = Append(row.attempts, n) /\ new.ended = b
    BY <2>2, <2>3
  <2> QED
    BY <1>b, <1>3, <2>3, <2>4, <2>5
<1>4. CASE r.t # "stage_attempt_created"
  <2>1. Moved(row, n, r) = [state |-> StateAfter[r.t], attempts |-> row.attempts,
                            ended |-> b]
    BY <1>b, <1>4 DEF Moved
  <2>2. PICK new : new = Moved(row, n, r)
    OBVIOUS
  <2>3. new \in LaneRows
    BY <1>1, <1>2, <2>1, <2>2 DEF LaneRows
  <2>4. new.state = StateAfter[r.t] /\ new.attempts = row.attempts /\ new.ended = b
    BY <2>1, <2>2
  <2> QED
    BY <1>b, <1>4, <2>2, <2>3, <2>4
<1> QED
  BY <1>3, <1>4

LEMMA RowSame ==
  ASSUME NEW l, NEW m, NEW x, NEW row, RowTrue(row, l, x),
         LaneAttempts(m, x) = LaneAttempts(l, x), LastAttempt(m, x) = LastAttempt(l, x),
         RoutedTo(m, x) = RoutedTo(l, x),
         EndsOf(m, LastAttempt(l, x)) = EndsOf(l, LastAttempt(l, x)),
         EndState(m, LastAttempt(l, x)) = EndState(l, LastAttempt(l, x))
  PROVE  RowTrue(row, m, x)
BY DEF RowTrue

\* A receipt about an attempt is about the newest one of its lane.
LEMMA AboutNewest ==
  ASSUME NEW l \in Seq(Receipts), NEW r \in Receipts, Traced(l), Allowed(l, r),
         r.t \in OfAttempt, r.t # "stage_attempt_created"
  PROVE  /\ r.at \in LaneAttempts(l, r.lane) /\ r.at = LastAttempt(l, r.lane) /\ r.at # 0
         /\ EndsOf(l, r.at) = {} /\ RoutedTo(l, r.lane) < r.at /\ r.lane \in Lanes
<1>1. ~Decided(l) /\ r.at \in OpenAttempts(l) /\ l[r.at].lane = r.lane
  BY DEF Allowed, AttemptMoves
<1>2. r.at \in Unfinished(l)
  BY <1>1, OpenIs
<1>3. r.at \in LaneAttempts(l, r.lane) /\ EndsOf(l, r.at) = {} /\ r.lane \in Lanes
  BY <1>1, <1>2 DEF Unfinished, LaneAttempts, Traced
<1>4. /\ \A b \in LaneAttempts(l, r.lane) : b <= r.at
      /\ \A i \in Routes(l, r.lane) : i < r.at
  BY <1>1, <1>2 DEF Traced
<1>5. /\ LastAttempt(l, r.lane) \in LaneAttempts(l, r.lane) /\ LastAttempt(l, r.lane) # 0
      /\ LastAttempt(l, r.lane) \in Nat /\ r.at <= LastAttempt(l, r.lane)
      /\ RoutedTo(l, r.lane) \in Nat
      /\ Routes(l, r.lane) # {} => RoutedTo(l, r.lane) \in Routes(l, r.lane)
      /\ Routes(l, r.lane) = {} => RoutedTo(l, r.lane) = 0
  BY <1>3, LaneBounds
<1>6. r.at \in Int
  BY DEF Receipts
<1>7. r.at = LastAttempt(l, r.lane)
  BY <1>4, <1>5, <1>6
<1> QED
  BY <1>3, <1>4, <1>5, <1>7

LEMMA ReadyFor ==
  ASSUME NEW l \in Seq(Receipts), NEW r \in Receipts, Traced(l), Allowed(l, r), Fits(l, r),
         NEW v, ViewTrue(v, l)
  PROVE  Ready(v, r)
<1>1. r.t \in OfAttempt => r.lane \in Lanes
  <2>1. r.t = "stage_attempt_created" => r.lane \in Lanes
    BY DEF Fits, Allowed, AttemptOpens, Lanes
  <2> QED
    BY <2>1, AboutNewest
<1>2. ASSUME r.t \in OfAttempt \ {"stage_attempt_created"} PROVE Created(v, r.at)
  <2>1. r.at \in LaneAttempts(l, r.lane) /\ r.lane \in Lanes
    BY <1>2, AboutNewest
  <2> QED
    BY <2>1 DEF ViewTrue, RowTrue, Created
<1>3. r.t = "action_resolved" => r.of \in v.seen
  BY DEF Allowed, ActionResolves, OpenActions, ViewTrue
<1>4. r.t = "repair_routed" => r.lane \in Lanes
  BY DEF Allowed, RepairNeedsDefect, Lanes
<1>5. r.t = "run_decision" => r.say \in {"completed", "blocked", "failed", "awaiting_approval"}
  BY DEF Allowed, Authorised, Rules
<1> QED
  BY <1>1, <1>2, <1>3, <1>4, <1>5 DEF Ready

LEMMA RowsGrow ==
  ASSUME NEW l \in Seq(Receipts), NEW r \in Receipts, Traced(l), Allowed(l, r), Fits(l, r),
         NEW v, ViewTrue(v, l)
  PROVE  LET new == RowsAfter(v, Len(l) + 1, r)
         IN /\ new \in [Lanes -> LaneRows]
            /\ \A x \in Lanes : RowTrue(new[x], Append(l, r), x)
<1> DEFINE m == Append(l, r)
           n == Len(l) + 1
           new == RowsAfter(v, n, r)
<1>1. /\ n \in Nat /\ n \notin DOMAIN l
      /\ \A i \in DOMAIN l : i \in Nat /\ i < n
      /\ \A x : LaneAttempts(m, x) = LaneAttempts(l, x) \cup
                  (IF r.t = "stage_attempt_created" /\ r.lane = x THEN {n} ELSE {})
      /\ \A x : LastAttempt(m, x) =
                  IF r.t = "stage_attempt_created" /\ r.lane = x THEN n ELSE LastAttempt(l, x)
      /\ \A x : RoutedTo(m, x) =
                  IF r.t = "repair_routed" /\ r.lane = x THEN n ELSE RoutedTo(l, x)
      /\ \A a : EndsOf(m, a) = EndsOf(l, a) \cup
                  (IF r.t \in AttemptEnds /\ r.at = a THEN {n} ELSE {})
      /\ \A a : EndState(m, a) =
                  IF r.t \in AttemptEnds /\ r.at = a THEN StateAfter[r.t] ELSE EndState(l, a)
  BY SetsMore
<1> HIDE DEF m, n, new
<1>2. /\ v.lanes \in [Lanes -> LaneRows]
      /\ \A x \in Lanes : RowTrue(v.lanes[x], l, x)
  BY DEF ViewTrue, Views
<1>3. Ready(v, r)
  BY ReadyFor
<1>4. \A x : /\ LastAttempt(l, x) \in Nat /\ LastAttempt(l, x) < n
             /\ LaneAttempts(l, x) # {} => LastAttempt(l, x) \in LaneAttempts(l, x)
             /\ LaneAttempts(l, x) = {} => LastAttempt(l, x) = 0
             /\ RoutedTo(l, x) \in Nat /\ RoutedTo(l, x) < n
  <2>1. Len(l) \in Nat
    BY LenProperties
  <2> QED
    BY <2>1, LaneBounds DEF n
\* A row of another lane, or of a receipt that is not about attempts.
<1>5. ASSUME NEW x \in Lanes, new[x] = v.lanes[x],
             r.t = "stage_attempt_created" => r.lane # x,
             r.t = "repair_routed" => r.lane # x,
             r.t \in AttemptEnds => r.lane # x
      PROVE  RowTrue(new[x], m, x)
  <2>1. r.t \in AttemptEnds => r.at # LastAttempt(l, x)
    <3>1. r.t \in AttemptEnds => r.t \in OfAttempt /\ r.t # "stage_attempt_created"
      BY DEF OfAttempt, AttemptEnds
    <3>2. r.t \in AttemptEnds => r.at \in LaneAttempts(l, r.lane) /\ r.at # 0
      BY <3>1, AboutNewest
    <3> QED
      BY <1>4, <1>5, <3>2 DEF LaneAttempts
  <2>2. LaneAttempts(m, x) = LaneAttempts(l, x) /\ LastAttempt(m, x) = LastAttempt(l, x)
        /\ RoutedTo(m, x) = RoutedTo(l, x)
    BY <1>1, <1>5
  <2>3. /\ EndsOf(m, LastAttempt(l, x)) = EndsOf(l, LastAttempt(l, x))
        /\ EndState(m, LastAttempt(l, x)) = EndState(l, LastAttempt(l, x))
    BY <1>1, <2>1
  <2> QED
    BY <1>2, <1>5, <2>2, <2>3, RowSame
<1>6. CASE r.t \in OfAttempt /\ r.t # "stage_attempt_created"
  <2>1. /\ r.at \in LaneAttempts(l, r.lane) /\ r.at = LastAttempt(l, r.lane) /\ r.at # 0
        /\ EndsOf(l, r.at) = {} /\ RoutedTo(l, r.lane) < r.at /\ r.lane \in Lanes
    BY <1>6, AboutNewest
  <2> DEFINE row == v.lanes[r.lane]
             next == Moved(row, n, r)
  <2>2. new = [v.lanes EXCEPT ![r.lane] = next]
    BY <1>6 DEF RowsAfter, new, OfAttempt, AttemptEnds
  <2>3. row \in LaneRows /\ RowTrue(row, l, r.lane)
    BY <1>2, <2>1
  <2>4. row.attempts # <<>> /\ row.attempts[Len(row.attempts)] = r.at
    BY <2>1, <2>3 DEF RowTrue
  <2>5. /\ next \in LaneRows /\ next.state = StateAfter[r.t] /\ next.attempts = row.attempts
        /\ next.ended <=> r.t \in AttemptEnds
    <3> HIDE DEF row
    <3> QED
      BY <1>1, <1>6, <2>3, <2>4, MovedIs
  <2> HIDE DEF next, row
  <2>6. new \in [Lanes -> LaneRows] /\ new[r.lane] = next
        /\ \A x \in Lanes : x # r.lane => new[x] = v.lanes[x]
    BY <1>2, <2>1, <2>2, <2>5
  <2>7. RowTrue(next, m, r.lane)
    <3>1. /\ LaneAttempts(m, r.lane) = LaneAttempts(l, r.lane) /\ LastAttempt(m, r.lane) = r.at
          /\ RoutedTo(m, r.lane) = RoutedTo(l, r.lane)
      BY <1>1, <1>6, <2>1 DEF OfAttempt, AttemptEnds
    <3>2. /\ EndsOf(m, r.at) # {} <=> r.t \in AttemptEnds
          /\ EndState(m, r.at) = StateAfter[r.t]
      <4>1. CASE r.t \in AttemptEnds
        BY <1>1, <4>1
      <4>2. CASE r.t \notin AttemptEnds
        <5>1. r.t = "stage_dispatch_started"
          BY <1>6, <4>2 DEF OfAttempt
        <5>2. EndsOf(m, r.at) = {} /\ EndState(m, r.at) = "running"
          BY <1>1, <2>1, <4>2 DEF EndState
        <5> QED
          BY <4>2, <5>1, <5>2 DEF StateAfter
      <4> QED
        BY <4>1, <4>2
    <3> QED
      BY <2>1, <2>3, <2>4, <2>5, <3>1, <3>2 DEF RowTrue
  <2>8. \A x \in Lanes : x # r.lane => RowTrue(new[x], m, x)
    BY <1>5, <1>6, <2>6 DEF OfAttempt, AttemptEnds
  <2> QED
    BY <2>6, <2>7, <2>8 DEF new, m, n
<1>7. CASE r.t = "stage_attempt_created"
  <2>1. r.lane \in Lanes /\ r.t \in OfAttempt
    BY <1>3, <1>7 DEF Ready, OfAttempt
  <2> DEFINE row == v.lanes[r.lane]
             next == Moved(row, n, r)
  <2>2. new = [v.lanes EXCEPT ![r.lane] = next]
    BY <1>7 DEF RowsAfter, new, OfAttempt, AttemptEnds
  <2>3. row \in LaneRows /\ RowTrue(row, l, r.lane)
    BY <1>2, <2>1
  <2>4. /\ next \in LaneRows /\ next.state = "running" /\ next.attempts = Append(row.attempts, n)
        /\ ~next.ended
    <3>1. StateAfter[r.t] = "running" /\ r.t \notin AttemptEnds
      BY <1>7 DEF StateAfter, AttemptEnds
    <3> HIDE DEF row
    <3>2. row \in LaneRows /\ n \in Nat /\ r.t \in OfAttempt
      BY <1>1, <2>1, <2>3
    <3>3. /\ Moved(row, n, r) \in LaneRows /\ Moved(row, n, r).state = StateAfter[r.t]
          /\ Moved(row, n, r).attempts = IF r.t = "stage_attempt_created" THEN Append(row.attempts, n)
                                         ELSE row.attempts
          /\ Moved(row, n, r).ended <=> r.t \in AttemptEnds
      BY <1>7, <3>2, MovedIs
    <3> QED
      BY <1>7, <3>1, <3>3
  <2> HIDE DEF next, row
  <2>5. new \in [Lanes -> LaneRows] /\ new[r.lane] = next
        /\ \A x \in Lanes : x # r.lane => new[x] = v.lanes[x]
    BY <1>2, <2>1, <2>2, <2>4
  <2>6. RowTrue(next, m, r.lane)
    <3>1. row.attempts \in Seq(Nat)
      BY <2>3 DEF LaneRows
    <3>2. /\ next.attempts # <<>> /\ next.attempts[Len(next.attempts)] = n
          /\ Len(next.attempts) \in DOMAIN next.attempts
          /\ \A k \in DOMAIN row.attempts :
               k \in DOMAIN next.attempts /\ next.attempts[k] = row.attempts[k]
      <4>1. /\ Len(row.attempts) \in Nat /\ DOMAIN row.attempts = 1..Len(row.attempts)
            /\ Len(next.attempts) = Len(row.attempts) + 1
            /\ next.attempts \in Seq(Nat)
            /\ next.attempts[Len(row.attempts) + 1] = n
            /\ \A k \in 1..Len(row.attempts) : next.attempts[k] = row.attempts[k]
        BY <1>1, <2>4, <3>1, LenProperties, AppendProperties
      <4>2. DOMAIN next.attempts = 1..(Len(row.attempts) + 1)
        BY <4>1, LenProperties
      <4> QED
        BY <4>1, <4>2
    <3>3. /\ LaneAttempts(m, r.lane) = LaneAttempts(l, r.lane) \cup {n} /\ LastAttempt(m, r.lane) = n
          /\ RoutedTo(m, r.lane) = RoutedTo(l, r.lane)
      BY <1>1, <1>7
    <3>4. EndsOf(l, n) = {}
      <4>1. \A i \in All(l, AttemptEnds) : l[i].at \in DOMAIN l
        BY DEF Traced, Attempts, All
      <4> QED
        BY <1>1, <4>1 DEF EndsOf
    <3>5. EndsOf(m, n) = {} /\ EndState(m, n) = "running"
      BY <1>1, <1>7, <3>4 DEF EndState, AttemptEnds
    <3>6. RoutedTo(l, r.lane) < n
      BY <1>4
    <3>7. \A a \in LaneAttempts(m, r.lane) : \E k \in DOMAIN next.attempts : next.attempts[k] = a
      BY <2>3, <3>2, <3>3 DEF RowTrue
    <3>8. LaneAttempts(m, r.lane) # {}
      BY <3>3
    <3>9. LastAttempt(m, r.lane) > RoutedTo(m, r.lane)
      BY <1>1, <1>4, <3>3, <3>6
    <3> QED
      BY <2>4, <3>2, <3>3, <3>5, <3>7, <3>8, <3>9 DEF RowTrue
  <2>7. \A x \in Lanes : x # r.lane => RowTrue(new[x], m, x)
    BY <1>5, <1>7, <2>5 DEF AttemptEnds
  <2> QED
    BY <2>5, <2>6, <2>7 DEF new, m, n
<1>8. CASE r.t = "repair_routed"
  <2>1. r.lane \in Lanes
    BY <1>3, <1>8 DEF Ready
  <2> DEFINE row == v.lanes[r.lane]
             next == [row EXCEPT !.state = "queued"]
  <2>2. new = [v.lanes EXCEPT ![r.lane] = next]
    BY <1>8 DEF RowsAfter, new, OfAttempt, AttemptEnds
  <2>3. row \in LaneRows /\ RowTrue(row, l, r.lane)
    BY <1>2, <2>1
  <2>4. /\ next \in LaneRows /\ next.state = "queued" /\ next.attempts = row.attempts
        /\ next.ended = row.ended
    <3> HIDE DEF row
    <3> QED
      BY <2>3 DEF LaneRows, States
  <2> HIDE DEF next, row
  <2>5. new \in [Lanes -> LaneRows] /\ new[r.lane] = next
        /\ \A x \in Lanes : x # r.lane => new[x] = v.lanes[x]
    BY <1>2, <2>1, <2>2, <2>4
  <2>6. RowTrue(next, m, r.lane)
    <3>1. /\ LaneAttempts(m, r.lane) = LaneAttempts(l, r.lane)
          /\ LastAttempt(m, r.lane) = LastAttempt(l, r.lane) /\ RoutedTo(m, r.lane) = n
          /\ \A a : EndsOf(m, a) = EndsOf(l, a)
      BY <1>1, <1>8 DEF AttemptEnds
    <3>2. ~(LastAttempt(m, r.lane) > RoutedTo(m, r.lane))
      BY <1>1, <1>4, <3>1
    <3>3. next.state \in Resting
      BY <2>4 DEF Resting
    <3> QED
      BY <2>3, <2>4, <3>1, <3>2, <3>3 DEF RowTrue
  <2>7. \A x \in Lanes : x # r.lane => RowTrue(new[x], m, x)
    BY <1>5, <1>8, <2>5 DEF AttemptEnds
  <2> QED
    BY <2>5, <2>6, <2>7 DEF new, m, n
<1>9. CASE r.t = "run_planned"
  <2>1. ~Cataloged(l)
    BY <1>9 DEF Allowed
  <2>2. Attempts(l) = {}
    BY <2>1 DEF Traced
  <2>3. new = [x \in Lanes |-> Row(IF x \in ConditionalLanes THEN "dormant" ELSE "queued")]
    BY <1>9 DEF RowsAfter, new, OfAttempt, AttemptEnds
  <2>4. ASSUME NEW x \in Lanes PROVE new[x] \in LaneRows /\ RowTrue(new[x], m, x)
    <3>1. PICK s \in {"dormant", "queued"} : new[x] = Row(s)
      BY <2>3
    <3>2. <<>> \in Seq(Nat)
      OBVIOUS
    <3>3. new[x] = [state |-> s, attempts |-> <<>>, ended |-> TRUE]
      BY <3>1 DEF Row
    <3>4. new[x] \in LaneRows
      BY <3>2, <3>3 DEF LaneRows, States
    <3>5. LaneAttempts(m, x) = {} /\ LastAttempt(m, x) = 0 /\ RoutedTo(m, x) \in Nat
      <4>1. LaneAttempts(l, x) = {}
        BY <2>2 DEF LaneAttempts
      <4> QED
        BY <1>1, <1>4, <1>9, <4>1
    <3>6. ~(LastAttempt(m, x) > RoutedTo(m, x))
      BY <3>5
    <3> QED
      BY <3>3, <3>4, <3>5, <3>6 DEF RowTrue, Resting
  <2> QED
    BY <2>3, <2>4 DEF new, m, n
<1>10. CASE r.t \notin OfAttempt \cup {"repair_routed", "run_planned"}
  <2>1. new = v.lanes
    BY <1>10 DEF RowsAfter, new
  <2>2. \A x \in Lanes : RowTrue(new[x], m, x)
    BY <1>5, <1>10, <2>1 DEF OfAttempt
  <2> QED
    BY <1>2, <2>1, <2>2 DEF new, m, n
<1> QED
  BY <1>6, <1>7, <1>8, <1>9, <1>10

----------------------------------------------------------------------------
(* The rest of the view.                                                   *)

\* How many commands were accepted and applied.
LEMMA CommandsFinite ==
  ASSUME NEW l \in Seq(Receipts)
  PROVE  IsFiniteSet(Commands(l)) /\ IsFiniteSet(AppliedIn(l)) /\ AppliedIn(l) \subseteq Commands(l)
<1>1. Commands(l) \subseteq 1..Len(l) /\ Len(l) \in Nat
  BY LenProperties DEF Commands, All
<1>2. IsFiniteSet(1..Len(l))
  BY <1>1, FS_Interval
<1>3. IsFiniteSet(Commands(l))
  BY <1>1, <1>2, FS_Subset
<1>4. AppliedIn(l) \subseteq Commands(l)
  BY DEF AppliedIn
<1> QED
  BY <1>3, <1>4, FS_Subset

LEMMA CountsMore ==
  ASSUME NEW l \in Seq(Receipts), NEW r \in Receipts, LogInv(l), Allowed(l, r)
  PROVE  LET m == Append(l, r)
         IN /\ Cardinality(Commands(m)) =
                 IF r.t = "command_accepted" THEN Cardinality(Commands(l)) + 1 ELSE Cardinality(Commands(l))
            /\ Cardinality(AppliedIn(m)) =
                 IF r.t = "context_injected" THEN Cardinality(AppliedIn(l)) + 1 ELSE Cardinality(AppliedIn(l))
<1> DEFINE m == Append(l, r)
           n == Len(l) + 1
<1>1. /\ n \notin DOMAIN l /\ m[n] = r
      /\ \A i \in DOMAIN l : m[i] = l[i]
  BY SetsMore
<1>2. \A ts : All(m, ts) = All(l, ts) \cup (IF r.t \in ts THEN {n} ELSE {})
  BY AllLonger
<1>3. \A ts : \A i \in All(l, ts) : i \in DOMAIN l
  BY DEF All
<1> HIDE DEF m, n
<1>4. /\ IsFiniteSet(Commands(l)) /\ IsFiniteSet(AppliedIn(l))
      /\ Commands(m) = Commands(l) \cup (IF r.t = "command_accepted" THEN {n} ELSE {})
      /\ \A i \in Commands(l) : i # n
  BY <1>1, <1>2, <1>3, CommandsFinite DEF Commands
<1>5. r.t = "context_injected" => r.of \in Commands(l) /\ r.of \notin AppliedIn(l)
  BY DEF Allowed, InjectFits, PendingCommands, Finals, AppliedIn, All
<1>6. \A j \in All(l, {"context_injected"}) : l[j].of \in Commands(l) /\ m[j] = l[j] /\ j # n
  <2>1. \A j \in All(l, {"context_injected"}) : j \in All(l, {"context_injected", "command_unapplied"})
    BY DEF All
  <2> QED
    BY <1>1, <1>3, <2>1 DEF LogInv
<1>7. AppliedIn(m) = AppliedIn(l) \cup (IF r.t = "context_injected" THEN {r.of} ELSE {})
  <2>1. All(m, {"context_injected"}) =
          All(l, {"context_injected"}) \cup (IF r.t = "context_injected" THEN {n} ELSE {})
    BY <1>2
  <2>2. CASE r.t = "context_injected"
    <3>1. Commands(m) = Commands(l)
      BY <1>4, <2>2
    <3> QED
      BY <1>1, <1>5, <1>6, <2>1, <2>2, <3>1 DEF AppliedIn
  <2>3. CASE r.t # "context_injected"
    <3>1. All(m, {"context_injected"}) = All(l, {"context_injected"})
      BY <2>1, <2>3
    <3>2. \A i \in Commands(m) : i \in Commands(l) \/ i = n
      BY <1>4
    <3> QED
      BY <1>4, <1>6, <2>3, <3>1, <3>2 DEF AppliedIn
  <2> QED
    BY <2>2, <2>3
<1>8. Cardinality(Commands(m)) =
        IF r.t = "command_accepted" THEN Cardinality(Commands(l)) + 1 ELSE Cardinality(Commands(l))
  <2>1. n \notin Commands(l)
    BY <1>4
  <2> QED
    BY <1>4, <2>1, FS_AddElement
<1>9. Cardinality(AppliedIn(m)) =
        IF r.t = "context_injected" THEN Cardinality(AppliedIn(l)) + 1 ELSE Cardinality(AppliedIn(l))
  BY <1>4, <1>5, <1>7, FS_AddElement
<1> QED
  BY <1>8, <1>9 DEF m

LEMMA ActionsMore ==
  ASSUME NEW l \in Seq(Receipts), NEW r \in Receipts, LogInv(l)
  PROVE  LET m == Append(l, r)
             n == Len(l) + 1
         IN OpenActions(m) =
              IF r.t = "action_opened" THEN OpenActions(l) \cup {n}
              ELSE IF r.t = "action_resolved" THEN OpenActions(l) \ {r.of} ELSE OpenActions(l)
<1> DEFINE m == Append(l, r)
           n == Len(l) + 1
<1>1. /\ n \notin DOMAIN l /\ m[n] = r
      /\ \A i \in DOMAIN l : m[i] = l[i]
  BY SetsMore
<1>2. \A ts : All(m, ts) = All(l, ts) \cup (IF r.t \in ts THEN {n} ELSE {})
  BY AllLonger
<1>3. \A ts : \A i \in All(l, ts) : i \in DOMAIN l
  BY DEF All
<1> HIDE DEF m, n
<1>4. /\ All(m, {"action_opened"}) = All(l, {"action_opened"}) \cup (IF r.t = "action_opened" THEN {n} ELSE {})
      /\ All(m, {"action_resolved"}) =
           All(l, {"action_resolved"}) \cup (IF r.t = "action_resolved" THEN {n} ELSE {})
      /\ \A i \in All(l, {"action_opened"}) : i # n
  BY <1>1, <1>2, <1>3
<1>5. \A j \in All(l, {"action_resolved"}) :
        l[j].of \in All(l, {"action_opened"}) /\ m[j] = l[j] /\ j # n
  BY <1>1, <1>3 DEF LogInv
<1>6. OpenActions(m) =
        IF r.t = "action_opened" THEN OpenActions(l) \cup {n}
        ELSE IF r.t = "action_resolved" THEN OpenActions(l) \ {r.of} ELSE OpenActions(l)
  <2>1. CASE r.t = "action_opened"
    <3>1. All(m, {"action_resolved"}) = All(l, {"action_resolved"})
          /\ All(m, {"action_opened"}) = All(l, {"action_opened"}) \cup {n}
      BY <1>4, <2>1
    <3> QED
      BY <1>4, <1>5, <2>1, <3>1 DEF OpenActions
  <2>2. CASE r.t = "action_resolved"
    <3>1. All(m, {"action_resolved"}) = All(l, {"action_resolved"}) \cup {n}
          /\ All(m, {"action_opened"}) = All(l, {"action_opened"})
      BY <1>4, <2>2
    <3> QED
      BY <1>1, <1>4, <1>5, <2>2, <3>1 DEF OpenActions
  <2>3. CASE r.t \notin {"action_opened", "action_resolved"}
    <3>1. All(m, {"action_resolved"}) = All(l, {"action_resolved"})
          /\ All(m, {"action_opened"}) = All(l, {"action_opened"})
      BY <1>4, <2>3
    <3> QED
      BY <1>5, <2>3, <3>1 DEF OpenActions
  <2> QED
    BY <2>1, <2>2, <2>3
<1> QED
  BY <1>6 DEF m, n

\* One step more is true of one receipt more.
LEMMA StatusGrows ==
  ASSUME NEW l \in Seq(Receipts), NEW r \in Receipts, Traced(l), Allowed(l, r), Fits(l, r),
         NEW v, StatusTrue(v, l),
         NEW w, w.status = IF r.t = "run_abandoned" THEN "workflow_abandoned"
                           ELSE IF r.t = "run_decision" THEN r.say ELSE v.status
  PROVE  StatusTrue(w, Append(l, r))
<1> DEFINE m == Append(l, r)
           n == Len(l) + 1
<1>1. /\ n \notin DOMAIN l /\ m[n] = r
      /\ \A i \in DOMAIN l : m[i] = l[i]
  BY SetsMore
<1>2. \A ts : All(m, ts) = All(l, ts) \cup (IF r.t \in ts THEN {n} ELSE {})
  BY AllLonger
<1>3. \A ts : \A i \in All(l, ts) : i \in DOMAIN l /\ m[i] = l[i]
  BY <1>1 DEF All
<1> HIDE DEF m, n
<1>4. ~Decided(l)
  BY DEF Allowed
<1>5. All(l, {"run_abandoned"}) = {}
  BY <1>4, OpenIs
<1>6. \A d \in All(l, {"run_decision"}) : l[d].say = "awaiting_approval" /\ m[d] = l[d]
  <2>1. \A d \in All(l, {"run_decision"}) : d \in All(l, {"run_decision", "run_abandoned"})
    BY DEF All
  <2> QED
    BY <1>3, <1>4, <2>1 DEF Decided
<1>7. /\ All(m, {"run_abandoned"}) = IF r.t = "run_abandoned" THEN {n} ELSE {}
      /\ All(m, {"run_decision"}) = All(l, {"run_decision"}) \cup (IF r.t = "run_decision" THEN {n} ELSE {})
  BY <1>2, <1>5
<1>8. \A d \in All(m, {"run_decision"}) : m[d].say # "awaiting_approval" => w.status = m[d].say
  <2> TAKE d \in All(m, {"run_decision"})
  <2>1. CASE d \in All(l, {"run_decision"})
    BY <1>6, <2>1
  <2>2. CASE d \notin All(l, {"run_decision"})
    <3>1. d = n /\ r.t = "run_decision"
      BY <1>7, <2>2
    <3> QED
      BY <1>1, <3>1
  <2> QED
    BY <2>1, <2>2
<1>9. All(m, {"run_abandoned"}) # {} => w.status = "workflow_abandoned"
  BY <1>7
<1>10. ASSUME ~Decided(m)
       PROVE  w.status = IF Waiting(m) THEN "awaiting_approval" ELSE "running"
  <2>1. r.t # "run_abandoned" /\ (r.t = "run_decision" => r.say = "awaiting_approval")
    <3>1. r.t \in {"run_decision", "run_abandoned"} => n \in All(m, {"run_decision", "run_abandoned"})
      BY <1>2
    <3>2. r.t = "run_abandoned" => r.say # "awaiting_approval"
      BY DEF Fits
    <3> QED
      BY <1>1, <1>10, <3>1, <3>2 DEF Decided
  <2>2. CASE r.t = "run_decision"
    <3>1. Waiting(m)
      BY <1>1, <1>7, <2>1, <2>2 DEF Waiting
    <3> QED
      BY <2>1, <2>2, <3>1
  <2>3. CASE r.t # "run_decision"
    <3>1. Waiting(m) <=> Waiting(l)
      BY <1>6, <1>7, <2>3 DEF Waiting
    <3>2. v.status = IF Waiting(l) THEN "awaiting_approval" ELSE "running"
      BY <1>4 DEF StatusTrue
    <3> QED
      BY <2>1, <2>3, <3>1, <3>2
  <2> QED
    BY <2>2, <2>3
<1>11. StatusTrue(w, m)
  BY <1>8, <1>9, <1>10 DEF StatusTrue
<1> QED
  BY <1>11 DEF m

LEMMA ViewGrows ==
  ASSUME NEW l \in Seq(Receipts), NEW r \in Receipts, LogInv(l), Viewed(l), Allowed(l, r), Fits(l, r)
  PROVE  Viewed(Append(l, r))
<1> DEFINE m == Append(l, r)
           n == Len(l) + 1
           v == Folded(l)
           w == Folded(m)
<1>1. Traced(l) /\ ViewTrue(v, l)
  BY DEF Viewed
<1>2. Traced(m)
  BY <1>1, TracedGrows
<1>3. n \in Nat /\ w = Step(v, n, r) /\ m \in Seq(Receipts)
  BY FoldedMore, SetsMore
<1>4. /\ RowsAfter(v, n, r) \in [Lanes -> LaneRows]
      /\ \A x \in Lanes : RowTrue(RowsAfter(v, n, r)[x], m, x)
  <2> HIDE DEF v
  <2> QED
    BY <1>1, RowsGrow
<1>5. /\ Cardinality(Commands(m)) =
           IF r.t = "command_accepted" THEN Cardinality(Commands(l)) + 1 ELSE Cardinality(Commands(l))
      /\ Cardinality(AppliedIn(m)) =
           IF r.t = "context_injected" THEN Cardinality(AppliedIn(l)) + 1 ELSE Cardinality(AppliedIn(l))
  BY CountsMore
<1>6. OpenActions(m) =
        IF r.t = "action_opened" THEN OpenActions(l) \cup {n}
        ELSE IF r.t = "action_resolved" THEN OpenActions(l) \ {r.of} ELSE OpenActions(l)
  BY ActionsMore
<1>7. \A ts : All(m, ts) = All(l, ts) \cup (IF r.t \in ts THEN {n} ELSE {})
  BY AllLonger
<1>8. m[n] = r
  BY SetsMore
<1>9. All(l, {"run_abandoned"}) = {} /\ ~Decided(l)
  BY <1>1, OpenIs DEF Allowed
<1>10. StatusTrue(v, l)
  BY <1>1 DEF ViewTrue
<1> HIDE DEF m, n, v, w
<1>11. v \in Views /\ Ready(v, r)
  BY <1>1, ReadyFor DEF ViewTrue
<1>12. After(v, n, r, w)
  BY <1>3, <1>11, StepIs
<1>13. StatusTrue(w, m)
  <2>1. w.status = IF r.t = "run_abandoned" THEN "workflow_abandoned"
                   ELSE IF r.t = "run_decision" THEN r.say ELSE v.status
    BY <1>12 DEF After
  <2> QED
    BY <1>1, <1>10, <2>1, StatusGrows DEF m
<1>14. w.lanes \in [Lanes -> LaneRows] /\ \A x \in Lanes : RowTrue(w.lanes[x], m, x)
  BY <1>4, <1>12 DEF After
<1>15. w.seen = All(m, {"action_opened"}) /\ w.open = OpenActions(m)
  BY <1>1, <1>6, <1>7, <1>12 DEF After, ViewTrue
<1>16. w.accepted = Cardinality(Commands(m)) /\ w.injected = Cardinality(AppliedIn(m))
  BY <1>1, <1>5, <1>12 DEF After, ViewTrue
<1>17. /\ \A d \in All(m, {"run_abandoned"}) : w.abandoned = {m[d].at} \ {0}
       /\ All(m, {"run_abandoned"}) = {} => w.abandoned = {}
  <2>1. /\ All(m, {"run_abandoned"}) = IF r.t = "run_abandoned" THEN {n} ELSE {}
        /\ v.abandoned = {}
    BY <1>1, <1>7, <1>9 DEF ViewTrue
  <2> QED
    BY <1>8, <1>12, <2>1 DEF After
<1>18. w \in Views /\ w.errors = {}
  <2>1. /\ w.errors = {} /\ w.revision \in Nat
        /\ w = [lanes |-> w.lanes, status |-> w.status, open |-> w.open, seen |-> w.seen,
                abandoned |-> w.abandoned, injected |-> w.injected, accepted |-> w.accepted,
                revision |-> w.revision, errors |-> w.errors]
    BY <1>1, <1>12 DEF After, ViewTrue
  <2>2. w.status \in {"running", "completed", "blocked", "failed", "awaiting_approval", "workflow_abandoned"}
    BY <1>11, <1>12 DEF After, Ready, Views
  <2>3. w.open \subseteq Nat /\ w.seen \subseteq Nat
    BY <1>3, <1>11, <1>12 DEF After, Views
  <2>4. w.abandoned \subseteq Int
    <3>1. r.at \in Int
      BY DEF Receipts
    <3> QED
      BY <1>11, <1>12, <3>1 DEF After, Views
  <2>5. w.injected \in Nat /\ w.accepted \in Nat
    BY <1>11, <1>12 DEF After, Views
  <2> QED
    BY <1>14, <2>1, <2>2, <2>3, <2>4, <2>5 DEF Views
<1>19. ViewTrue(w, m)
  BY <1>13, <1>14, <1>15, <1>16, <1>17, <1>18 DEF ViewTrue
<1> QED
  BY <1>2, <1>19 DEF Viewed, w, m

LEMMA ManyView ==
  ASSUME NEW l \in Seq(Receipts), LogInv(l), Viewed(l), NEW rs \in Seq(Receipts),
         \A k \in 1..Len(rs) : EndsRun(rs[k])
  PROVE  Viewed(Extend(l, rs).log)
<1> DEFINE p(k) == l \o SubSeq(rs, 1, k)
<1>1. PICK n \in 0..Len(rs) :
        /\ Extend(l, rs) = [log |-> l \o SubSeq(rs, 1, n), ok |-> n = Len(rs)]
        /\ \A j \in 1..n : Allowed(l \o SubSeq(rs, 1, j - 1), rs[j])
  BY ExtendIs
<1>2. Len(rs) \in Nat /\ n \in Nat /\ n <= Len(rs)
  BY LenProperties
<1>3. p(0) = l
  BY <1>2, SomeOf
<1>4. /\ \A j \in 1..Len(rs) : p(j) = Append(p(j - 1), rs[j]) /\ rs[j] \in Receipts
      /\ \A j \in 0..Len(rs) : p(j) \in Seq(Receipts)
      /\ \A j \in 1..n : Allowed(p(j - 1), rs[j])
  BY <1>1, OneMore, SomeOf
<1>5. Extend(l, rs).log = p(n)
  BY <1>1
<1> HIDE DEF p
<1> DEFINE S == {k \in 0..n : LogInv(p(k)) /\ Viewed(p(k))}
<1>6. 0 \in S
  BY <1>2, <1>3
<1>7. ASSUME NEW k \in 0..(n - 1), k \in S PROVE k + 1 \in S
  <2>1. k + 1 \in 1..n /\ k + 1 \in 1..Len(rs) /\ k + 1 - 1 = k /\ k \in 0..Len(rs)
        /\ k + 1 \in 0..n
    BY <1>2
  <2>2. PICK r \in Receipts : r = rs[k + 1] /\ p(k + 1) = Append(p(k), r)
    BY <1>4, <2>1
  <2>3. p(k) \in Seq(Receipts) /\ LogInv(p(k)) /\ Viewed(p(k)) /\ Allowed(p(k), r)
    BY <1>4, <1>7, <2>1, <2>2
  <2>4. EndsRun(r)
    BY <2>1, <2>2
  <2>5. r.t # "stage_dispatch_started" /\ Fits(p(k), r)
    BY <2>4 DEF EndsRun, Fits, Closing
  <2>6. LogInv(p(k + 1))
    BY <2>2, <2>3, <2>5, LogGrows
  <2>7. Viewed(p(k + 1))
    BY <2>2, <2>3, <2>5, ViewGrows
  <2> QED
    BY <2>1, <2>6, <2>7
<1>8. n \in S
  <2> HIDE DEF S
  <2> QED
    BY <1>2, <1>6, <1>7, Reaches
<1> QED
  BY <1>5, <1>8

LEMMA ClosedView ==
  ASSUME log \in Seq(Receipts), LogInv(log), Viewed(log), NEW rs, ClosedBy(rs)
  PROVE  Viewed(log')
<1>1. rs \in Seq(Receipts) /\ \A k \in 1..Len(rs) : EndsRun(rs[k])
  BY DEF ClosedBy
<1>2. CASE log' = Extend(log, rs).log
  BY <1>1, <1>2, ManyView
<1>3. ASSUME NEW p \in Heads(rs), log' = Extend(log, p).log
      PROVE  Viewed(log')
  <2>1. PICK n \in 0..Len(rs) : p = SubSeq(rs, 1, n)
    BY DEF Heads
  <2>2. Len(rs) \in Nat /\ n \in Nat /\ n <= Len(rs)
    BY <1>1, LenProperties
  <2>3. p \in Seq(Receipts) /\ Len(p) = n /\ \A i \in 1..n : p[i] = rs[i]
    <3>1. \A i \in 1..n : rs[i] \in Receipts
      BY <1>1, <2>2, ElementOfSeq
    <3> QED
      BY <1>1, <2>1, <2>2, <3>1, SubSeqProperties
  <2>4. \A k \in 1..Len(p) : EndsRun(p[k])
    BY <1>1, <2>2, <2>3
  <2> QED
    BY <1>3, <2>3, <2>4, ManyView
<1> QED
  BY <1>2, <1>3 DEF ClosedBy

----------------------------------------------------------------------------
(* What a step makes of the view.                                          *)

LEMMA ViewStep ==
  ASSUME IInv, [Next]_vars, Viewed(log), Single
  PROVE  Viewed(log')
<1>0. log \in Seq(Receipts) /\ LogInv(log)
  BY DEF IInv, Typed
<1>1. CASE log' = log
  BY <1>1
<1>2. ASSUME NEW r \in Receipts, Writes(r)
      PROVE  Viewed(log')
  <2>1. Allowed(log, r) /\ log' = Append(log, r)
    BY <1>2 DEF Writes
  <2>2. Fits(log, r)
    BY <1>2 DEF Writes, Fits, Single, Closing
  <2> QED
    BY <1>0, <2>1, <2>2, ViewGrows
<1>3. ASSUME NEW R, Closes(R)
      PROVE  Viewed(log')
  BY <1>0, <1>1, <1>3, ClosedView DEF Closes
<1> QED
  BY <1>1, <1>2, <1>3, StepWrites

\* An attempt that ended stays ended.
LEMMA OpenFewer ==
  ASSUME NEW l \in Seq(Receipts), NEW m, NEW R, Grows(l, m, R)
  PROVE  /\ OpenAttempts(m) \cap Attempts(l) \subseteq OpenAttempts(l)
         /\ (\A x \in R : x.t # "stage_attempt_created") =>
              Attempts(m) = Attempts(l) /\ OpenAttempts(m) \subseteq OpenAttempts(l)
<1>1. (\A x \in R : x.t # "stage_attempt_created") => Attempts(m) = Attempts(l)
  BY AttemptsGrow
<1>2. /\ \A i \in All(l, AttemptEnds) : i \in All(m, AttemptEnds) /\ m[i] = l[i]
      /\ All(l, {"run_abandoned"}) \subseteq All(m, {"run_abandoned"})
  BY Grown
<1>3. m \in Seq(Receipts)
  BY DEF Grows
<1>4. ASSUME NEW a, EndOf(m, a) = "open" PROVE EndOf(l, a) = "open"
  <2>1. All(m, {"run_abandoned"}) = {} /\ \A j \in All(m, AttemptEnds) : m[j].at # a
    BY <1>3, <1>4, EndFound
  <2>2. All(l, {"run_abandoned"}) = {} /\ \A j \in All(l, AttemptEnds) : l[j].at # a
    BY <1>2, <2>1
  <2>3. {i \in All(l, AttemptEnds) : l[i].at = a} = {}
    BY <2>2
  <2> QED
    BY <2>2, <2>3 DEF EndOf
<1>5. OpenAttempts(m) \cap Attempts(l) \subseteq OpenAttempts(l)
  BY <1>4 DEF OpenAttempts
<1> QED
  BY <1>1, <1>5 DEF OpenAttempts

LEMMA StepOpen ==
  ASSUME IInv, [Next]_vars, pc # "create" \/ pc' = pc
  PROVE  /\ Attempts(log') = Attempts(log) /\ OpenAttempts(log') \subseteq OpenAttempts(log)
         /\ Cataloged(log) => Cataloged(log')
<1>0. log \in Seq(Receipts)
  BY DEF IInv, Typed
<1>1. CASE log' = log
  BY <1>1
<1>2. ASSUME NEW R, Grows(log, log', R), \A x \in R : x.t # "stage_attempt_created"
      PROVE  /\ Attempts(log') = Attempts(log) /\ OpenAttempts(log') \subseteq OpenAttempts(log)
             /\ Cataloged(log) => Cataloged(log')
  <2>1. All(log, {"run_planned"}) \subseteq All(log', {"run_planned"})
    BY <1>0, <1>2, Grown
  <2> QED
    BY <1>0, <1>2, <2>1, OpenFewer DEF Cataloged
<1>3. ASSUME NEW r \in Receipts, Writes(r)
      PROVE  \E R : Grows(log, log', R) /\ \A x \in R : x.t # "stage_attempt_created"
  <2>1. Grows(log, log', {r})
    BY <1>0, <1>3, OneGrows DEF Writes
  <2>2. r.t # "stage_attempt_created"
    BY <1>3 DEF Writes
  <2> QED
    BY <2>1, <2>2
<1>4. ASSUME NEW R, Closes(R)
      PROVE  Grows(log, log', R) /\ \A x \in R : x.t # "stage_attempt_created"
  BY <1>4 DEF Closes, LogStep, Closing
<1> QED
  BY <1>1, <1>2, <1>3, <1>4, StepWrites

LEMMA SingleStep ==
  ASSUME IInv, [Next]_vars, Single
  PROVE  Single'
<1>0. log \in Seq(Receipts)
  BY DEF IInv, Typed
<1>1. pc # "create" \/ pc' = pc =>
        /\ Attempts(log') = Attempts(log) /\ OpenAttempts(log') \subseteq OpenAttempts(log)
        /\ Cataloged(log) => Cataloged(log')
  BY StepOpen
<1>2. CASE Attest
  BY <1>1, <1>2 DEF Attest, Appends, Single, Prepared
<1>3. CASE Plan
  <2>1. PICK mode \in Modes :
          Appends(Receipt("run_planned", "orchestrator", "none", 0, 0, mode),
                  IF mode = "live" THEN "create" ELSE "completed", "broken")
    BY <1>3 DEF Plan
  <2> DEFINE r == Receipt("run_planned", "orchestrator", "none", 0, 0, mode)
  <2>2. pc = "plan" /\ pc' \in {"create", "completed", "broken"}
    BY <1>3, <2>1 DEF Plan, Appends
  <2>3. OpenAttempts(log') = {}
    BY <1>1, <2>2 DEF Single, OpenAttempts
  <2>4. pc' = "create" => Cataloged(log')
    <3>1. pc' = "create" => log' = Append(log, r)
      BY <2>1 DEF Appends
    <3>2. r.t = "run_planned"
      BY DEF Receipt
    <3>3. mode \in Words
      BY RunAssumption DEF Words
    <3>4. r \in Receipts
      <4>1. "run_planned" \in Kinds /\ "orchestrator" \in Writers /\ "none" \in LaneNames /\ 0 \in Int
        BY DEF Kinds, Writers, LaneNames
      <4> QED
        BY <3>3, <4>1, ReceiptIs
    <3> HIDE DEF r
    <3>5. All(Append(log, r), {"run_planned"}) # {}
      <4>1. \A ts : All(Append(log, r), ts) = All(log, ts) \cup (IF r.t \in ts THEN {Len(log) + 1} ELSE {})
        BY <1>0, <3>4, AllLonger
      <4>2. All(Append(log, r), {"run_planned"}) = All(log, {"run_planned"}) \cup {Len(log) + 1}
        BY <3>2, <4>1
      <4> QED
        BY <4>2
    <3> QED
      BY <3>1, <3>5 DEF Cataloged
  <2> QED
    BY <2>2, <2>3, <2>4 DEF Single, Prepared
<1>4. CASE Create
  <2> DEFINE r == Receipt("stage_attempt_created", "orchestrator", stage.lane, 0, stage.of, "none")
             n == Len(log) + 1
  <2>1. Appends(r, "preflight", "broken") /\ stage' = [stage EXCEPT !.at = n] /\ pc = "create"
    BY <1>4 DEF Create
  <2>2. stage'.at = n
    BY <2>1 DEF IInv, Typed
  <2>3. pc' = "preflight" \/ pc' = "broken"
    BY <2>1 DEF Appends
  <2>4. CASE pc' = "broken"
    BY <2>4 DEF Single, Prepared
  <2>5. CASE pc' = "preflight"
    <3>1. log' = Append(log, r)
      BY <2>1, <2>5 DEF Appends
    <3>2. r \in Receipts /\ r.t = "stage_attempt_created"
      <4>1. "stage_attempt_created" \in Kinds /\ "orchestrator" \in Writers /\ "none" \in Words
            /\ 0 \in Int
        BY DEF Kinds, OfAttempt, Writers, Words
      <4>2. stage.lane \in LaneNames /\ stage.of \in Int
        BY DEF IInv, Typed
      <4> QED
        BY <4>1, <4>2, ReceiptIs
    <3> HIDE DEF r
    <3>3. Grows(log, log', {r}) /\ Attempts(log') = Attempts(log) \cup {n}
      BY <1>0, <3>1, <3>2, OneGrows, SetsMore
    <3>4. OpenAttempts(log') \cap Attempts(log) \subseteq OpenAttempts(log)
      BY <1>0, <3>3, OpenFewer
    <3>5. OpenAttempts(log) = {} /\ Cataloged(log)
      BY <2>1 DEF Single
    <3>6. OpenAttempts(log') \subseteq {n}
      BY <3>3, <3>4, <3>5 DEF OpenAttempts
    <3>7. Cataloged(log')
      <4>1. All(log, {"run_planned"}) \subseteq All(log', {"run_planned"})
        BY <1>0, <3>3, Grown
      <4> QED
        BY <3>5, <4>1 DEF Cataloged
    <3> QED
      BY <2>2, <2>5, <3>6, <3>7 DEF Single, Prepared
  <2> QED
    BY <2>3, <2>4, <2>5
<1>5. CASE Preflight \/ Consume \/ Reserve \/ Start \/ Call \/ Complete
  <2>1. pc \in Prepared /\ pc' \in Prepared
    BY <1>5 DEF Preflight, Consume, Reserve, Start, Call, Complete, Appends, Prepared
  <2>2. stage'.at = stage.at
    BY <1>5 DEF Preflight, Consume, Reserve, Start, Call, Complete, IInv, Typed
  <2>3. pc \notin {"create", "repair", "plan", "attest"} /\ pc' \notin {"create", "repair", "plan", "attest"}
    BY <2>1 DEF Prepared
  <2> QED
    BY <1>1, <2>1, <2>2, <2>3 DEF Single
<1>6. CASE Route
  <2>1. pc = "route" /\ log' = log
        /\ pc' \in {"create", "repair", "blocked", "approval", "escalation"}
    BY <1>6 DEF Route, Start1, Stop, Audited
  <2>2. EndOf(log, stage.at) # "open"
    BY <2>1 DEF IInv, Course
  <2>3. OpenAttempts(log) = {} /\ Cataloged(log)
    BY <2>1, <2>2 DEF Single, Prepared, OpenAttempts
  <2> QED
    BY <2>1, <2>3 DEF Single, Prepared
<1>7. CASE Repair
  <2>1. pc = "repair" /\ pc' \in {"create", "broken"}
    BY <1>7 DEF Repair, Appends
  <2> QED
    BY <1>1, <2>1 DEF Single, Prepared
<1>8. CASE Block \/ Fail \/ OpenAction \/ Await \/ Decide \/ Seal \/ SealFails \/ WorkerDies
  <2>1. pc' \in {"refuse", "broken", "await", "returned", "seal", "dead"}
    BY <1>8 DEF Block, Fail, OpenAction, Await, Decide, Seal, SealFails, WorkerDies, Appends, AppendsAll
  <2> QED
    BY <2>1 DEF Single, Prepared
<1>9. CASE UNCHANGED <<pc, stage>>
  BY <1>1, <1>9 DEF Single
<1>10. Operator => UNCHANGED <<pc, stage>>
  BY DEF Operator, Submit, Accept, Resolve, engine
<1>11. Supervisor => WorkerDies \/ UNCHANGED <<pc, stage>>
  BY DEF Supervisor, BrokerDies, BrokerStarts, MarkOrphaned, Interrupt, InterruptDecides,
         InterruptSeals, InterruptEnds, SupervisorDies, Confirm, Abandon, ReconcileWorkflow, engine
<1>12. UNCHANGED vars => UNCHANGED <<pc, stage>>
  BY DEF vars, engine
<1> QED
  BY <1>2, <1>3, <1>4, <1>5, <1>6, <1>7, <1>8, <1>9, <1>10, <1>11, <1>12 DEF Next, Engine

----------------------------------------------------------------------------
(* What the supervisor says is sealed.                                     *)

\* What was sealed or said before a step is after it.
LEMMA SaidStays ==
  ASSUME IInv, [Next]_vars
  PROVE  /\ SaidFailed => SaidFailed'
         /\ All(log, {"run_abandoned"}) # {} => All(log', {"run_abandoned"}) # {}
         /\ sealed => log' = log
<1>0. log \in Seq(Receipts)
  BY DEF IInv, Typed
<1>1. CASE log' = log
  BY <1>1 DEF SaidFailed
<1>2. ASSUME NEW R, Grows(log, log', R)
      PROVE  /\ SaidFailed => SaidFailed'
             /\ All(log, {"run_abandoned"}) # {} => All(log', {"run_abandoned"}) # {}
  BY <1>0, <1>2, Grown DEF SaidFailed
<1>3. ASSUME NEW r \in Receipts, Writes(r)
      PROVE  Grows(log, log', {r})
  BY <1>0, <1>3, OneGrows DEF Writes
<1>4. ASSUME NEW R, Closes(R)
      PROVE  Grows(log, log', R)
  BY <1>4 DEF Closes, LogStep
<1>5. sealed => log' = log
  <2>1. \A r : Writes(r) => ~sealed
    BY DEF Writes
  <2>2. \A R : Closes(R) => (sealed => log' = log)
    BY DEF Closes, LogStep
  <2> QED
    BY <2>1, <2>2, StepWrites
<1> QED
  BY <1>1, <1>2, <1>3, <1>4, <1>5, StepWrites

LEMMA SupervisedStep ==
  ASSUME IInv, [Next]_vars, Viewed(log'), Supervised
  PROVE  Supervised'
<1>0. log \in Seq(Receipts) /\ LogInv(log)
  BY DEF IInv, Typed
<1>1. /\ SaidFailed => SaidFailed'
      /\ All(log, {"run_abandoned"}) # {} => All(log', {"run_abandoned"}) # {}
      /\ sealed => log' = log
  BY SaidStays
<1>2. Decided(log') => OpenAttempts(log') = {}
  BY DEF Viewed, Traced
<1>3. SaidFailed => Decided(log)
  BY DEF SaidFailed, Decided, All
<1>4. CASE UNCHANGED <<sealed, sup, watch>>
  BY <1>1, <1>4 DEF Supervised
<1>5. CASE Seal
  BY <1>1, <1>5 DEF Supervised, Seal, supervisor, Sealable
<1>6. CASE \E resolution \in DOMAIN OutcomeMap : Resolve(resolution)
  <2>1. PICK resolution \in DOMAIN OutcomeMap : Resolve(resolution)
    BY <1>6
  <2>2. UNCHANGED <<sup, watch>> /\ ~sealed
    BY <2>1 DEF Resolve, supervisor
  <2>3. sealed' => Sealable(log')
    <3>1. PICK e : \/ log' = e.log /\ sealed' = (e.ok /\ Sealable(e.log))
                   \/ sealed' = sealed
      BY <2>1 DEF Resolve
    <3> QED
      BY <2>2, <3>1, Zenon
  <2> QED
    BY <1>1, <2>2, <2>3 DEF Supervised, Sealable
<1>7. CASE InterruptDecides
  <2>1. /\ UNCHANGED <<sealed, sup>> /\ ~sealed
        /\ log' = Extend(log, Terminal(log, Interruption)).log
        /\ watch' = IF Extend(log, Terminal(log, Interruption)).ok THEN "seal" ELSE "idle"
    BY <1>7 DEF InterruptDecides, Interruption
  <2>2. ASSUME watch' = "seal" PROVE SaidFailed'
    <3>1. Extend(log, Terminal(log, Interruption)).ok
      BY <2>1, <2>2
    <3>2. PICK r \in Receipts : r = Interruption /\ r.t = "run_decision" /\ r.say = "failed"
      BY <1>0, InterruptionIs
    <3>3. PICK d \in DOMAIN log' : log'[d] = r
      BY <1>0, <2>1, <3>1, <3>2, AcceptedLast
    <3> QED
      BY <3>2, <3>3 DEF SaidFailed, All
  <2> QED
    BY <1>1, <2>1, <2>2 DEF Supervised
<1>8. CASE InterruptSeals
  <2>1. watch = "seal" /\ sealed' = TRUE /\ watch' = "state" /\ log' = log /\ sup' = sup
    BY <1>8 DEF InterruptSeals
  <2>2. SaidFailed' /\ Decided(log')
    BY <1>1, <1>3, <2>1 DEF Supervised
  <2> QED
    BY <1>1, <1>2, <2>1, <2>2 DEF Supervised
<1>9. CASE InterruptEnds
  <2>1. watch = "state" /\ watch' = "idle" /\ log' = log /\ sealed' = sealed /\ sup'.life = "failed"
    BY <1>9 DEF InterruptEnds, Lives
  <2> QED
    BY <1>1, <2>1 DEF Supervised
<1>10. CASE SupervisorDies
  <2>1. watch' = "idle" /\ log' = log /\ sealed' = sealed /\ sup' = sup
    BY <1>10 DEF SupervisorDies
  <2> QED
    BY <1>1, <2>1 DEF Supervised
<1>11. CASE MarkOrphaned \/ ReconcileWorkflow
  <2>1. log' = log /\ sealed' = sealed /\ watch' = watch
        /\ sup'.life \in {"recovery_required", "workflow_reconciled"}
    BY <1>11 DEF MarkOrphaned, ReconcileWorkflow, Lives
  <2> QED
    BY <1>1, <2>1 DEF Supervised
<1>12. CASE Interrupt
  <2>1. /\ watch' = "decide" /\ sealed' = sealed /\ sup' = sup /\ ~sealed
    BY <1>12 DEF Interrupt
  <2> QED
    BY <1>1, <2>1 DEF Supervised
<1>13. CASE Abandon
  <2> DEFINE e == Extend(log, Terminal(log, Abandonment))
  <2>0. watch' = watch /\ watch = "idle" /\ ~sealed
        /\ \/ log' = e.log /\ IF e.ok THEN sealed' = TRUE /\ Lives("abandoned")
                                     ELSE UNCHANGED <<sealed, sup>>
           \/ UNCHANGED <<sealed, sup>>
    BY <1>13 DEF Abandon, Abandonment
  <2>1. watch' = watch /\ watch = "idle" /\ ~sealed
        /\ \/ e.ok /\ log' = e.log /\ sealed' = TRUE /\ sup'.life = "abandoned"
           \/ UNCHANGED <<sealed, sup>>
    <3> HIDE DEF e
    <3>1. Lives("abandoned") => sup'.life = "abandoned"
      BY DEF Lives
    <3>2. CASE e.ok
      BY <2>0, <3>1, <3>2
    <3>3. CASE ~e.ok
      BY <2>0, <3>3
    <3> QED
      BY <3>2, <3>3
  <2>2. CASE UNCHANGED <<sealed, sup>>
    BY <1>1, <2>1, <2>2 DEF Supervised
  <2>3. CASE e.ok /\ log' = e.log /\ sealed' = TRUE /\ sup'.life = "abandoned"
    <3>1. PICK r \in Receipts : r = Abandonment /\ r.t = "run_abandoned" /\ r.say = "none"
      BY AbandonmentIs DEF IInv, Typed
    <3>2. PICK d \in DOMAIN log' : log'[d] = r
      BY <1>0, <2>3, <3>1, AcceptedLast
    <3>3. d \in All(log', {"run_abandoned"}) /\ d \in All(log', {"run_decision", "run_abandoned"})
      BY <3>1, <3>2 DEF All
    <3>4. Decided(log')
      BY <3>1, <3>2, <3>3 DEF Decided
    <3> QED
      BY <1>1, <1>2, <2>1, <2>3, <3>3, <3>4 DEF Supervised
  <2> QED
    BY <2>1, <2>2, <2>3
<1>14. Engine => Seal \/ UNCHANGED <<sealed, sup, watch>>
  BY DEF Engine, Attest, Plan, Create, Preflight, Block, Consume, Reserve, Start, Call, Complete,
         Fail, Route, Repair, OpenAction, Await, Decide, SealFails, Appends, AppendsAll, supervisor
<1>15. Operator => (\E resolution \in DOMAIN OutcomeMap : Resolve(resolution))
                   \/ UNCHANGED <<sealed, sup, watch>>
  BY DEF Operator, Submit, Accept, supervisor
<1>16. Supervisor =>
         \/ InterruptDecides \/ InterruptSeals \/ InterruptEnds \/ SupervisorDies \/ MarkOrphaned
         \/ ReconcileWorkflow \/ Interrupt \/ Abandon \/ UNCHANGED <<sealed, sup, watch>>
  BY DEF Supervisor, WorkerDies, BrokerDies, BrokerStarts, Confirm, supervisor
<1>17. UNCHANGED vars => UNCHANGED <<sealed, sup, watch>>
  BY DEF vars, supervisor
<1> QED
  BY <1>4, <1>5, <1>6, <1>7, <1>8, <1>9, <1>10, <1>11, <1>12, <1>13, <1>14, <1>15, <1>16, <1>17
     DEF Next

----------------------------------------------------------------------------
(* What is shown.                                                          *)

\* A lane's row says what became of its newest attempt.
LEMMA LaneShown ==
  ASSUME NEW l \in Seq(Receipts), Traced(l), NEW v, ViewTrue(v, l), NEW x \in Lanes
  PROVE  LET last == LastAttempt(l, x)
             fate == EndOf(l, last)
         IN /\ IF last > RoutedTo(l, x)
                 THEN /\ last \in Attempts(l)
                      /\ Shown(v, x) = CASE fate = "open" -> "running"
                                         [] fate = "run_abandoned" -> "abandoned"
                                         [] OTHER -> StateAfter[fate]
                      /\ fate \in AttemptEnds \cup {"open", "run_abandoned"}
                 ELSE Shown(v, x) \in {"absent", "dormant", "queued"}
            /\ Unended(v.lanes[x]) /\ ~Left(v, x) => last \in OpenAttempts(l)
<1> DEFINE last == LastAttempt(l, x)
           row == v.lanes[x]
<1>1. /\ last \in Nat /\ RoutedTo(l, x) \in Nat
      /\ LaneAttempts(l, x) # {} => last \in LaneAttempts(l, x)
      /\ LaneAttempts(l, x) = {} => last = 0
      /\ Routes(l, x) # {} => RoutedTo(l, x) \in Routes(l, x)
      /\ Routes(l, x) = {} => RoutedTo(l, x) = 0
      /\ last \in LaneAttempts(l, x) => last # 0
  BY LaneBounds
<1>2. RowTrue(row, l, x)
  BY DEF ViewTrue
<1> HIDE DEF last, row
<1>3. /\ row.attempts = <<>> <=> LaneAttempts(l, x) = {}
      /\ row.attempts # <<>> => row.attempts[Len(row.attempts)] = last
                                /\ (row.ended <=> EndsOf(l, last) # {})
      /\ IF last > RoutedTo(l, x) THEN row.state = EndState(l, last) ELSE row.state \in Resting
  BY <1>2 DEF RowTrue, last
<1>4. Unended(row) <=> LaneAttempts(l, x) # {} /\ EndsOf(l, last) = {}
  BY <1>3 DEF Unended
<1>5. Left(v, x) <=> Unended(row) /\ last \in v.abandoned
  BY <1>3 DEF Left, Unended, row
<1>6. last \in LaneAttempts(l, x) => last \in Attempts(l) /\ l[last].lane = x
  BY DEF LaneAttempts
<1>7. EndsOf(l, last) = {} =>
        EndOf(l, last) = IF All(l, {"run_abandoned"}) # {} THEN "run_abandoned" ELSE "open"
  BY DEF EndOf, EndsOf
<1>8. EndsOf(l, last) # {} =>
        /\ EndOf(l, last) = l[Max(EndsOf(l, last))].t /\ EndOf(l, last) \in AttemptEnds
        /\ EndState(l, last) = StateAfter[EndOf(l, last)]
  <2> HAVE EndsOf(l, last) # {}
  <2>1. \A i \in EndsOf(l, last) : i \in DOMAIN l
    BY DEF EndsOf, All
  <2>2. Max(EndsOf(l, last)) \in EndsOf(l, last)
    <3> HIDE DEF EndsOf
    <3> QED
      BY <2>1, NewestIs
  <2>3. EndOf(l, last) = l[Max(EndsOf(l, last))].t
    BY DEF EndOf, EndsOf
  <2> QED
    BY <2>2, <2>3 DEF EndState, EndsOf, All
<1>9. /\ All(l, {"run_abandoned"}) = {} => ~Left(v, x)
      /\ All(l, {"run_abandoned"}) # {} => (Unended(row) => Left(v, x))
  <2>1. All(l, {"run_abandoned"}) = {} => v.abandoned = {}
    BY DEF ViewTrue
  <2>2. ASSUME NEW d \in All(l, {"run_abandoned"}), Unended(row)
        PROVE  last \in v.abandoned
    <3>1. v.abandoned = {l[d].at} \ {0} /\ {l[d].at} \ {0} = Unfinished(l)
      BY DEF ViewTrue, Traced
    <3>2. last \in Unfinished(l)
      BY <1>1, <1>4, <1>6, <2>2 DEF Unfinished
    <3> QED
      BY <3>1, <3>2
  <2> QED
    BY <1>5, <2>1, <2>2
<1>10. Unended(row) => last > RoutedTo(l, x)
  <2> HAVE Unended(row)
  <2>1. last \in Unfinished(l) /\ l[last].lane = x /\ last # 0
    BY <1>1, <1>4, <1>6 DEF Unfinished
  <2>2. \A i \in Routes(l, x) : i < last
    BY <2>1 DEF Traced
  <2> QED
    BY <1>1, <2>1, <2>2
<1>11. Shown(v, x) = IF Left(v, x) THEN "abandoned" ELSE row.state
  BY DEF Shown, row
<1>12. ASSUME last > RoutedTo(l, x)
       PROVE  /\ last \in Attempts(l)
              /\ Shown(v, x) = CASE EndOf(l, last) = "open" -> "running"
                                 [] EndOf(l, last) = "run_abandoned" -> "abandoned"
                                 [] OTHER -> StateAfter[EndOf(l, last)]
              /\ EndOf(l, last) \in AttemptEnds \cup {"open", "run_abandoned"}
  <2>1. LaneAttempts(l, x) # {} /\ last \in Attempts(l) /\ row.state = EndState(l, last)
    BY <1>1, <1>3, <1>6, <1>12
  <2>2. CASE EndsOf(l, last) # {}
    <3>1. ~Left(v, x)
      BY <1>4, <1>5, <2>2
    <3>2. EndOf(l, last) \in AttemptEnds /\ EndOf(l, last) # "open" /\ EndOf(l, last) # "run_abandoned"
      BY <1>8, <2>2 DEF AttemptEnds
    <3>3. Shown(v, x) = StateAfter[EndOf(l, last)]
      BY <1>8, <1>11, <2>1, <2>2, <3>1
    <3> QED
      BY <2>1, <3>2, <3>3
  <2>3. CASE EndsOf(l, last) = {}
    <3>1. Unended(row) /\ row.state = "running"
      BY <1>4, <2>1, <2>3 DEF EndState
    <3>2. CASE All(l, {"run_abandoned"}) = {}
      BY <1>7, <1>9, <1>11, <2>1, <2>3, <3>1, <3>2
    <3>3. CASE All(l, {"run_abandoned"}) # {}
      BY <1>7, <1>9, <1>11, <2>1, <2>3, <3>1, <3>3
    <3> QED
      BY <3>2, <3>3
  <2> QED
    BY <2>2, <2>3
<1>13. ASSUME ~(last > RoutedTo(l, x))
       PROVE  Shown(v, x) \in {"absent", "dormant", "queued"}
  BY <1>3, <1>5, <1>10, <1>11, <1>13 DEF Resting
<1>14. Unended(row) /\ ~Left(v, x) => last \in OpenAttempts(l)
  BY <1>1, <1>4, <1>6, <1>7, <1>9 DEF OpenAttempts
<1> QED
  BY <1>12, <1>13, <1>14 DEF last, row

LEMMA WorkflowShown ==
  ASSUME NEW l \in Seq(Receipts), Traced(l), NEW v, ViewTrue(v, l)
  PROVE  /\ Workflow(v.status)[2] \in {"closed", "abandoned"} <=> Decided(l)
         /\ Workflow(v.status)[2] = "action_open" <=> Waiting(l) /\ ~Decided(l)
         /\ All(l, {"run_abandoned"}) # {} => Workflow(v.status)[2] = "abandoned"
         /\ \A d \in All(l, {"run_decision"}) : l[d].say = "failed" => v.status = "failed"
<1>1. StatusTrue(v, l)
  BY DEF ViewTrue
<1>2. /\ v.status = "awaiting_approval" => Workflow(v.status)[2] = "action_open"
      /\ v.status = "running" => Workflow(v.status)[2] = "open"
      /\ v.status \in {"completed", "blocked", "failed"} => Workflow(v.status)[2] = "closed"
      /\ v.status = "workflow_abandoned" => Workflow(v.status)[2] = "abandoned"
  BY DEF Workflow
<1>3. CASE Decided(l)
  <2>1. PICK d \in All(l, {"run_decision", "run_abandoned"}) : l[d].say # "awaiting_approval"
    BY <1>3 DEF Decided
  <2>2. CASE d \in All(l, {"run_abandoned"})
    BY <1>1, <1>2, <1>3, <2>2 DEF StatusTrue
  <2>3. CASE d \notin All(l, {"run_abandoned"})
    <3>1. d \in All(l, {"run_decision"})
      BY <2>3 DEF All
    <3>2. v.status = l[d].say /\ l[d].say \in {"completed", "blocked", "failed", "awaiting_approval"}
      BY <1>1, <2>1, <3>1 DEF StatusTrue, Traced
    <3>3. Workflow(v.status)[2] = "closed"
      BY <1>2, <2>1, <3>2
    <3> QED
      BY <1>1, <1>2, <1>3, <3>3 DEF StatusTrue
  <2> QED
    BY <2>2, <2>3
<1>4. CASE ~Decided(l)
  <2>1. v.status = IF Waiting(l) THEN "awaiting_approval" ELSE "running"
    BY <1>1, <1>4 DEF StatusTrue
  <2>2. All(l, {"run_abandoned"}) = {}
    BY <1>4, OpenIs
  <2> QED
    BY <1>1, <1>2, <1>4, <2>1, <2>2 DEF StatusTrue
<1>5. \A d \in All(l, {"run_decision"}) : l[d].say = "failed" => v.status = "failed"
  BY <1>1 DEF StatusTrue
<1> QED
  BY <1>3, <1>4, <1>5

LEMMA ShownHolds ==
  ASSUME IInv, Viewed(log), Supervised
  PROVE  ShownTruthfully
<1> DEFINE view == Snapshot(log, sealed)
           v == Folded(log)
<1>1. log \in Seq(Receipts) /\ Traced(log) /\ ViewTrue(v, log)
  BY DEF IInv, Typed, Viewed
<1> DEFINE missing == {x \in Lanes : Unended(v.lanes[x]) /\ ~Left(v, x)}
<1>2. /\ view.lanes = [x \in Lanes |-> Shown(v, x)] /\ view.status = v.status
      /\ view.workflow = Workflow(v.status)[2] /\ view.waiting_on = v.open
      /\ view.injected = v.injected /\ view.accepted = v.accepted
      /\ view.errors = v.errors \cup (IF sealed /\ missing # {} THEN {"attempt_terminal_missing"} ELSE {})
  BY DEF Snapshot
<1> HIDE DEF view, v
<1>3. \A x \in Lanes :
        LET last == LastAttempt(log, x)
            fate == EndOf(log, last)
        IN /\ IF last > RoutedTo(log, x)
                THEN /\ last \in Attempts(log)
                     /\ Shown(v, x) = CASE fate = "open" -> "running"
                                        [] fate = "run_abandoned" -> "abandoned"
                                        [] OTHER -> StateAfter[fate]
                     /\ fate \in AttemptEnds \cup {"open", "run_abandoned"}
                ELSE Shown(v, x) \in {"absent", "dormant", "queued"}
           /\ Unended(v.lanes[x]) /\ ~Left(v, x) => last \in OpenAttempts(log)
  BY <1>1, LaneShown
<1>4. sealed => OpenAttempts(log) = {}
  BY DEF Supervised
<1>5. view.errors = {}
  <2>1. sealed => missing = {}
    BY <1>3, <1>4
  <2>2. v.errors = {}
    BY <1>1 DEF ViewTrue
  <2> HIDE DEF missing
  <2> QED
    BY <1>2, <2>1, <2>2
<1>6. view.injected <= view.accepted
  <2>1. IsFiniteSet(Commands(log)) /\ AppliedIn(log) \subseteq Commands(log)
    BY <1>1, CommandsFinite
  <2>2. Cardinality(AppliedIn(log)) <= Cardinality(Commands(log))
    BY <2>1, FS_Subset
  <2> QED
    BY <1>1, <1>2, <2>2 DEF ViewTrue
<1>7. view.waiting_on = OpenActions(log)
  BY <1>1, <1>2 DEF ViewTrue
<1>8. \A x \in Lanes : view.lanes[x] = Shown(v, x)
  BY <1>2
<1>9. \A x : RoutedTo(log, x) = Newest({i \in All(log, {"repair_routed"}) : log[i].lane = x})
  BY DEF RoutedTo, Routes
<1>10. \A x \in Lanes :
         IF LastAttempt(log, x) > Newest({i \in All(log, {"repair_routed"}) : log[i].lane = x})
           THEN view.lanes[x] = CASE EndOf(log, LastAttempt(log, x)) = "open" -> "running"
                                  [] EndOf(log, LastAttempt(log, x)) = "run_abandoned" -> "abandoned"
                                  [] OTHER -> StateAfter[EndOf(log, LastAttempt(log, x))]
           ELSE view.lanes[x] \in {"absent", "dormant", "queued"}
  <2> TAKE x \in Lanes
  <2>1. CASE LastAttempt(log, x) > RoutedTo(log, x)
    <3>1. Shown(v, x) = CASE EndOf(log, LastAttempt(log, x)) = "open" -> "running"
                          [] EndOf(log, LastAttempt(log, x)) = "run_abandoned" -> "abandoned"
                          [] OTHER -> StateAfter[EndOf(log, LastAttempt(log, x))]
      BY <1>3, <2>1
    <3> QED
      BY <1>8, <1>9, <2>1, <3>1
  <2>2. CASE ~(LastAttempt(log, x) > RoutedTo(log, x))
    <3>1. Shown(v, x) \in {"absent", "dormant", "queued"}
      BY <1>3, <2>2
    <3> QED
      BY <1>8, <1>9, <2>2, <3>1
  <2> QED
    BY <2>1, <2>2
<1>11. sealed => \A x \in Lanes : view.lanes[x] # "running"
  <2> SUFFICES ASSUME sealed, NEW x \in Lanes PROVE Shown(v, x) # "running"
    BY <1>8
  <2>1. CASE LastAttempt(log, x) > RoutedTo(log, x)
    <3> DEFINE fate == EndOf(log, LastAttempt(log, x))
    <3>1. /\ LastAttempt(log, x) \in Attempts(log)
          /\ Shown(v, x) = CASE fate = "open" -> "running"
                             [] fate = "run_abandoned" -> "abandoned"
                             [] OTHER -> StateAfter[fate]
          /\ fate \in AttemptEnds \cup {"open", "run_abandoned"}
      BY <1>3, <2>1
    <3>2. fate # "open"
      BY <1>4, <3>1 DEF OpenAttempts
    <3> HIDE DEF fate
    <3>3. fate \in AttemptEnds => StateAfter[fate] # "running"
      BY DEF StateAfter, AttemptEnds
    <3>4. CASE fate = "run_abandoned"
      BY <3>1, <3>4
    <3>5. CASE fate # "run_abandoned"
      BY <3>1, <3>2, <3>3, <3>5
    <3> QED
      BY <3>4, <3>5
  <2>2. CASE ~(LastAttempt(log, x) > RoutedTo(log, x))
    BY <1>3, <2>2
  <2> QED
    BY <2>1, <2>2
<1>12. /\ view.workflow \in {"closed", "abandoned"} <=> Decided(log)
       /\ view.workflow = "action_open" <=> Waiting(log) /\ ~Decided(log)
       /\ All(log, {"run_abandoned"}) # {} => view.workflow = "abandoned"
       /\ SaidFailed => view.status = "failed"
  BY <1>1, <1>2, WorkflowShown DEF SaidFailed
<1>13. /\ sup.life = "abandoned" => sealed /\ view.workflow = "abandoned"
       /\ sup.life = "failed" => sealed /\ view.status = "failed"
  BY <1>12 DEF Supervised
<1> QED
  BY <1>5, <1>6, <1>7, <1>10, <1>11, <1>12, <1>13 DEF ShownTruthfully, view

LEMMA ShownInit ==
  ASSUME Init
  PROVE  Viewed(log) /\ Single /\ Supervised
<1>1. /\ log = <<>> /\ sealed = FALSE /\ pc = "attest" /\ watch = "idle" /\ sup.life = "running"
  BY DEF Init
<1>2. \A ts : All(log, ts) = {}
  BY <1>1 DEF All
<1>3. /\ Attempts(log) = {} /\ Commands(log) = {} /\ ~Decided(log) /\ ~Waiting(log)
      /\ OpenAttempts(log) = {} /\ OpenActions(log) = {} /\ AppliedIn(log) = {} /\ Unfinished(log) = {}
  BY <1>2 DEF Attempts, Commands, Decided, Waiting, OpenAttempts, OpenActions, AppliedIn, Unfinished
<1>4. Traced(log)
  BY <1>2, <1>3 DEF Traced
<1>5. Folded(log) = Blank
  BY <1>1, FoldedMore
<1>6. Blank \in Views
  <2>1. <<>> \in Seq(Nat)
    OBVIOUS
  <2>2. Blank.lanes \in [Lanes -> LaneRows]
    BY <2>1 DEF Blank, Row, LaneRows, States
  <2> QED
    BY <2>2 DEF Blank, Views
<1>7. ASSUME NEW x \in Lanes PROVE RowTrue(Blank.lanes[x], log, x)
  <2>1. /\ Blank.lanes[x].attempts = <<>> /\ Blank.lanes[x].state = "absent"
    BY DEF Blank, Row
  <2>2. LaneAttempts(log, x) = {} /\ Routes(log, x) = {}
    BY <1>2, <1>3 DEF LaneAttempts, Routes
  <2>3. LastAttempt(log, x) = 0 /\ RoutedTo(log, x) = 0
    BY <2>2 DEF LastAttempt, LaneAttempts, RoutedTo, Newest
  <2> QED
    BY <2>1, <2>2, <2>3 DEF RowTrue, Resting
<1>8. ViewTrue(Blank, log)
  <2>1. Cardinality({}) = 0
    BY FS_EmptySet
  <2>2. StatusTrue(Blank, log)
    BY <1>2, <1>3 DEF StatusTrue, Blank
  <2>3. /\ Blank.errors = {} /\ Blank.seen = {} /\ Blank.open = {} /\ Blank.accepted = 0
        /\ Blank.injected = 0 /\ Blank.abandoned = {}
    BY DEF Blank
  <2> QED
    BY <1>2, <1>3, <1>6, <1>7, <2>1, <2>2, <2>3 DEF ViewTrue
<1>9. Single /\ Supervised
  BY <1>1, <1>3 DEF Single, Supervised, Prepared
<1> QED
  BY <1>4, <1>5, <1>8, <1>9 DEF Viewed

Seen == IInv /\ Viewed(log) /\ Single /\ Supervised

\* Fleet shows of a run what its receipts say, receipt by receipt: the state its
\* lanes' newest attempts ended in, the open actions, the workflow as it was
\* decided, no lane of a sealed run at work, and nothing that the supervisor
\* contradicts.
THEOREM ShownAsRecorded == Spec => []ShownTruthfully
<1>1. Init => Seen
  BY InitInv, ShownInit DEF Seen
<1>2. Seen /\ [Next]_vars => Seen'
  <2> SUFFICES ASSUME Seen, [Next]_vars PROVE Seen'
    OBVIOUS
  <2>1. IInv'
    BY NextInv DEF Seen
  <2>2. Viewed(log')
    BY ViewStep DEF Seen
  <2>3. Single' /\ Supervised'
    BY <2>2, SingleStep, SupervisedStep DEF Seen
  <2>4. Viewed(log)'
    BY <2>2 DEF Viewed, Traced, ViewTrue, StatusTrue, RowTrue
  <2> QED
    BY <2>1, <2>3, <2>4 DEF Seen
<1>3. Seen => ShownTruthfully
  BY ShownHolds DEF Seen
<1> QED
  BY <1>1, <1>2, <1>3, PTL DEF Spec

----------------------------------------------------------------------------
(* Nothing refuses the engine.  As long as nothing fails, the contract      *)
(* admits what the engine asks for, except for the decisions it has none    *)
(* for.  First, what terminalize appends is admitted to the last receipt.   *)

LEMMA AllAdmitted ==
  ASSUME NEW l \in Seq(Receipts), NEW rs \in Seq(Receipts),
         \A j \in 1..Len(rs) : Allowed(l \o SubSeq(rs, 1, j - 1), rs[j])
  PROVE  Extend(l, rs).ok
<1> DEFINE S == {k \in 0..Len(rs) :
                  \A j \in 1..k : Allowed(l \o SubSeq(rs, 1, j - 1), rs[j])}
<1>1. Len(rs) \in Nat
  BY LenProperties
<1>2. S \subseteq 0..Len(rs) /\ Len(rs) \in S
  BY <1>1
<1>3. Max(S) = Len(rs)
  <2> HIDE DEF S
  <2>1. Max(S) \in S /\ \A y \in S : y <= Max(S)
    BY <1>1, <1>2, Greatest
  <2>2. PICK x \in 0..Len(rs) : x = Max(S)
    BY <1>2, <2>1
  <2>3. Len(rs) <= x
    BY <1>2, <2>1, <2>2
  <2> QED
    BY <1>1, <2>2, <2>3
<1>4. Extend(l, rs) = [log |-> l \o SubSeq(rs, 1, Max(S)), ok |-> Max(S) = Len(rs)]
  BY DEF Extend
<1> HIDE DEF S
<1>5. PICK q : q = l \o SubSeq(rs, 1, Max(S))
  OBVIOUS
<1>6. PICK b : b = (Max(S) = Len(rs))
  OBVIOUS
<1>7. Extend(l, rs) = [log |-> q, ok |-> b] /\ b
  BY <1>3, <1>4, <1>5, <1>6
<1> QED
  BY <1>7

\* Every member of a finite set of numbers is counted off, once.
LEMMA NthCounts ==
  ASSUME NEW m \in Nat, NEW S, \A y \in S : y \in 1..m
  PROVE  /\ Cardinality(S) \in Nat
         /\ \A n \in 1..Cardinality(S) : Nth(S, n) \in S
         /\ \A a, b \in 1..Cardinality(S) : Nth(S, a) = Nth(S, b) => a = b
         /\ \A i \in S : \E n \in 1..Cardinality(S) : Nth(S, n) = i
<1> DEFINE Below(k) == {y \in S : y < k}
<1>0. IsFiniteSet(S) /\ \A k : IsFiniteSet(Below(k))
  <2>1. IsFiniteSet(1..m) /\ S \subseteq 1..m
    BY FS_Interval
  <2>2. IsFiniteSet(S)
    BY <2>1, FS_Subset
  <2>3. \A k : Below(k) \subseteq S
    OBVIOUS
  <2> HIDE DEF Below
  <2> QED
    BY <2>2, <2>3, FS_Subset
<1>1. Cardinality(S) \in Nat /\ \A k : Cardinality(Below(k)) \in Nat
  BY <1>0, FS_CardinalityType
<1>2. \A n \in 1..Cardinality(S) : Nth(S, n) \in S /\ Cardinality(Below(Nth(S, n))) = n - 1
  <2> TAKE n \in 1..Cardinality(S)
  <2>1. n \in Nat \ {0} /\ n <= Cardinality(S)
    BY <1>1
  <2> QED
    BY <2>1, NthMember
<1>3. \A a, b \in 1..Cardinality(S) : Nth(S, a) = Nth(S, b) => a = b
  <2> HIDE DEF Below
  <2> QED
    BY <1>1, <1>2
\* What is smaller has fewer below it.
<1>4. ASSUME NEW x \in S, NEW y \in S, x < y
      PROVE  Cardinality(Below(x)) < Cardinality(Below(y))
  <2>1. Below(x) \cup {x} \subseteq Below(y) /\ x \notin Below(x)
    <3>1. \A z \in S : z \in Nat
      OBVIOUS
    <3> QED
      BY <1>4, <3>1
  <2> HIDE DEF Below
  <2>2. Cardinality(Below(x) \cup {x}) = Cardinality(Below(x)) + 1
    BY <1>0, <2>1, FS_AddElement
  <2>3. Cardinality(Below(x) \cup {x}) <= Cardinality(Below(y))
    BY <1>0, <2>1, FS_Subset
  <2> QED
    BY <1>1, <2>2, <2>3
<1>5. ASSUME NEW i \in S
      PROVE  \E n \in 1..Cardinality(S) : Nth(S, n) = i
  <2>1. PICK c \in Nat : c = Cardinality(Below(i))
    BY <1>1
  <2>2. c < Cardinality(S)
    <3>1. Below(i) \cup {i} \subseteq S /\ i \notin Below(i)
      OBVIOUS
    <3> HIDE DEF Below
    <3>2. Cardinality(Below(i) \cup {i}) = c + 1
      BY <1>0, <2>1, <3>1, FS_AddElement
    <3>3. Cardinality(Below(i) \cup {i}) <= Cardinality(S)
      BY <1>0, <3>1, FS_Subset
    <3> QED
      BY <1>1, <2>1, <3>2, <3>3
  <2>3. c + 1 \in 1..Cardinality(S) /\ c + 1 - 1 = c
    BY <1>1, <2>1, <2>2
  <2>4. PICK x \in S : x = Nth(S, c + 1) /\ Cardinality(Below(x)) = c
    <3> HIDE DEF Below
    <3> QED
      BY <1>2, <2>3
  <2>5. x \in Nat /\ i \in Nat
    OBVIOUS
  <2>6. ~(x < i) /\ ~(i < x)
    <3> HIDE DEF Below
    <3> QED
      BY <1>1, <1>4, <2>1, <2>4
  <2> QED
    BY <2>3, <2>4, <2>5, <2>6
<1> QED
  BY <1>1, <1>2, <1>3, <1>5

LEMMA HeadGrows ==
  ASSUME NEW l \in Seq(Receipts), NEW rs \in Seq(Receipts), NEW n \in 0..Len(rs), NEW R,
         \A k \in 1..n : rs[k] \in R
  PROVE  Grows(l, l \o SubSeq(rs, 1, n), R)
<1>1. PICK m : m = l \o SubSeq(rs, 1, n)
  OBVIOUS
<1>2. /\ m \in Seq(Receipts) /\ Len(m) = Len(l) + n
      /\ \A i \in 1..Len(l) : m[i] = l[i]
      /\ \A i \in 1..n : m[Len(l) + i] = rs[i]
  BY <1>1, SomeOf
<1>3. Len(l) \in Nat /\ n \in Nat
  BY LenProperties
<1>4. \A i \in (Len(l) + 1)..Len(m) : i - Len(l) \in 1..n /\ Len(l) + (i - Len(l)) = i
  BY <1>2, <1>3
<1>5. \A i \in (Len(l) + 1)..Len(m) : m[i] \in R
  BY <1>2, <1>4
<1> QED
  BY <1>1, <1>2, <1>3, <1>5 DEF Grows

\* What terminalize appends is admitted as far as the decision is.
LEMMA TerminalAdmitted ==
  ASSUME NEW l \in Seq(Receipts), NEW r \in Receipts, LogInv(l), ~Decided(l), ~Terminating(l),
         OpenActions(l) = {},
         \A m : Grows(l, m, {x \in Receipts : x.t \in Closing}) /\ PendingCommands(m) = {}
                  => Allowed(m, r)
  PROVE  Extend(l, Terminal(l, r)).ok
<1> DEFINE C == {x \in Receipts : x.t \in Closing}
           P == PendingCommands(l)
<1>1. PICK rs \in Seq(Receipts) : rs = Terminal(l, r)
  BY TerminalIs
<1>2. /\ Len(rs) \in Nat \ {0} /\ rs[Len(rs)] = r
      /\ \A k \in 1..(Len(rs) - 1) : rs[k].t \in Closing
  BY <1>1, TerminalIs
<1>3. \A k \in 1..Len(rs) : rs[k] \in Receipts
  BY <1>1, OneMore
<1>4. P = {} => Len(rs) = 1
  BY <1>1, TerminalIs
<1>5. P # {} =>
        /\ Len(rs) = Cardinality(P) + 2
        /\ rs[1].t = "terminalization_started" /\ rs[1].who = "orchestrator"
        /\ \A k \in 1..Cardinality(P) : rs[k + 1] = Unapplied(l, Nth(P, k))
  <2> SUFFICES ASSUME P # {}
               PROVE  /\ Len(rs) = Cardinality(P) + 2
                      /\ rs[1].t = "terminalization_started" /\ rs[1].who = "orchestrator"
                      /\ \A k \in 1..Cardinality(P) : rs[k + 1] = Unapplied(l, Nth(P, k))
    OBVIOUS
  <2>1. Len(rs) = Cardinality(P) + 2
    BY <1>1, TerminalIs
  <2>2. PendingCommands(l) # {}
    OBVIOUS
  <2>3. Terminal(l, r)[1].t = "terminalization_started"
    BY <2>2, TerminalIs
  <2>4. Terminal(l, r)[1].who = "orchestrator"
    BY <2>2, TerminalIs
  <2>5. \A k \in 1..Cardinality(PendingCommands(l)) : Terminal(l, r)[k + 1] = Unapplied(l, Nth(PendingCommands(l), k))
    BY <2>2, TerminalIs
  <2> HIDE DEF P
  <2> QED
    BY <1>1, <2>1, <2>3, <2>4, <2>5 DEF P
<1>6. /\ Cardinality(P) \in Nat
      /\ \A n \in 1..Cardinality(P) : Nth(P, n) \in P
      /\ \A a, b \in 1..Cardinality(P) : Nth(P, a) = Nth(P, b) => a = b
      /\ \A i \in P : \E n \in 1..Cardinality(P) : Nth(P, n) = i
  <2>1. Len(l) \in Nat /\ \A y \in P : y \in 1..Len(l)
    BY LenProperties DEF PendingCommands, Commands, All
  <2> HIDE DEF P
  <2> QED
    BY <2>1, NthCounts
<1> SUFFICES ASSUME NEW j \in 1..Len(rs)
             PROVE  Allowed(l \o SubSeq(rs, 1, j - 1), rs[j])
  BY <1>1, AllAdmitted
<1>7. j \in Nat /\ j - 1 \in 0..Len(rs) /\ 1 <= j /\ j <= Len(rs)
  BY <1>2
<1>8. PICK m : m = l \o SubSeq(rs, 1, j - 1)
  OBVIOUS
<1>9. Grows(l, m, C)
  <2>1. \A k \in 1..(j - 1) : rs[k] \in C
    BY <1>2, <1>3, <1>7
  <2> HIDE DEF C
  <2> QED
    BY <1>7, <1>8, <2>1, HeadGrows
<1>10. /\ m \in Seq(Receipts) /\ Len(m) = Len(l) + (j - 1)
       /\ \A i \in 1..(j - 1) : m[Len(l) + i] = rs[i]
  BY <1>7, <1>8, SomeOf
<1> HIDE DEF P, C
<1>11. /\ ~Decided(m) /\ OpenActions(m) = {}
       /\ Commands(m) = Commands(l) /\ PendingCommands(m) \subseteq P
       /\ \A i \in Commands(l) : m[i] = l[i]
  <2>1. \A x \in C : x.t \in Closing
    BY DEF C
  <2>2. \A x \in C : x.t \notin {"run_decision", "run_abandoned", "command_accepted",
                                "action_opened", "action_resolved"}
    BY <2>1 DEF Closing
  <2>3. ~Decided(m)
    BY <1>9, <2>2, SaidGrow
  <2>4. /\ All(m, {"action_opened"}) = All(l, {"action_opened"})
        /\ All(m, {"action_resolved"}) = All(l, {"action_resolved"})
        /\ \A i \in All(l, {"action_resolved"}) : m[i] = l[i]
    BY <1>9, <2>2, Grown
  <2>5. OpenActions(m) = OpenActions(l)
    BY <2>4 DEF OpenActions
  <2> QED
    BY <1>9, <2>2, <2>3, <2>5, PendingGrow DEF P
<1>12. Len(l) \in Nat /\ DOMAIN m = 1..Len(m)
  BY <1>10, LenProperties
\* The commands of the receipts so far are settled, the others pend.
<1>13. ASSUME NEW k \in 1..Cardinality(P), P # {}, j > k + 1
       PROVE  Nth(P, k) \notin PendingCommands(m)
  <2>1. PICK i : i = Nth(P, k)
    OBVIOUS
  <2>2. k + 1 \in 1..(j - 1) /\ rs[k + 1] = Unapplied(l, i)
    BY <1>5, <1>6, <1>7, <1>13, <2>1
  <2>3. Len(l) + (k + 1) \in DOMAIN m /\ m[Len(l) + (k + 1)] = Unapplied(l, i)
    BY <1>10, <1>12, <2>2
  <2>4. Unapplied(l, i).t = "command_unapplied" /\ Unapplied(l, i).of = i
    BY DEF Unapplied
  <2>5. Len(l) + (k + 1) \in Finals(m, i)
    BY <2>3, <2>4 DEF Finals, All
  <2> QED
    BY <2>1, <2>5 DEF PendingCommands
<1>14. CASE j = Len(rs)
  <2>1. PendingCommands(m) = {}
    <3>1. CASE P = {}
      BY <1>11, <3>1
    <3>2. CASE P # {}
      <4>1. \A k \in 1..Cardinality(P) : Nth(P, k) \notin PendingCommands(m)
        BY <1>5, <1>6, <1>13, <1>14, <3>2
      <4> QED
        BY <1>6, <1>11, <4>1
    <3> QED
      BY <3>1, <3>2
  <2>2. Allowed(m, r)
    BY <1>9, <2>1 DEF C
  <2> QED
    BY <1>2, <1>8, <1>14, <2>2
<1>15. CASE j = 1 /\ j # Len(rs)
  <2>1. P # {} /\ rs[j].t = "terminalization_started" /\ rs[j].who = "orchestrator"
    BY <1>2, <1>4, <1>5, <1>15
  <2>2. m = l
    BY <1>7, <1>8, <1>15, SomeOf
  <2>3. Authorised(rs[j])
    BY <2>1 DEF Authorised, Rules
  <2>4. TerminatesOnce(m, rs[j])
    BY <2>1, <2>2 DEF TerminatesOnce, P
  <2> QED
    BY <1>8, <2>1, <2>2, <2>3, <2>4
    DEF Allowed, AttemptOpens, AttemptMoves, OfAttempt, AttemptEnds, RepairNeedsDefect, CommandOnce,
        ReplanFits, InjectFits, UnappliedFits, ActionResolves, OperatorDecides, SupervisorDecides,
        EngineDecides, Abandons
<1>16. CASE j # 1 /\ j # Len(rs)
  <2>1. P # {}
    BY <1>2, <1>4, <1>7, <1>16
  <2>2. PICK k \in 1..Cardinality(P) : j = k + 1
    <3>1. j - 1 \in 1..Cardinality(P) /\ j = (j - 1) + 1
      BY <1>5, <1>6, <1>7, <1>16, <2>1
    <3> QED
      BY <3>1
  <2>3. PICK i \in P : i = Nth(P, k)
    BY <1>6
  <2>4. rs[j] = Unapplied(l, i)
    BY <1>5, <2>1, <2>2, <2>3
  <2>5. /\ rs[j].t = "command_unapplied" /\ rs[j].who = "orchestrator" /\ rs[j].of = i
    BY <2>4 DEF Unapplied
  <2>6. Authorised(rs[j])
    BY <2>5 DEF Authorised, Rules
  <2>7. Terminating(m)
    <3>1. 1 \in 1..(j - 1)
      BY <1>7, <2>2
    <3>2. Len(l) + 1 \in DOMAIN m /\ m[Len(l) + 1] = rs[1]
      BY <1>10, <1>12, <3>1
    <3> QED
      BY <1>5, <2>1, <3>2 DEF Terminating, All
  <2>8. i \in PendingCommands(m)
    <3>1. i \in Commands(m) /\ Finals(l, i) = {}
      BY <1>11 DEF P, PendingCommands
    <3>2. ASSUME NEW x \in Finals(m, i) PROVE FALSE
      <4>1. x \in All(m, {"context_injected", "command_unapplied"}) /\ m[x].of = i
        BY <3>2 DEF Finals
      <4>2. x \notin All(l, {"context_injected", "command_unapplied"}) \/ m[x] # l[x]
        BY <3>1, <4>1 DEF Finals
      <4>3. /\ x \notin All(l, {"context_injected", "command_unapplied"})
            /\ x \in DOMAIN m /\ x \in Nat /\ x > Len(l) /\ m[x].t \in {"context_injected", "command_unapplied"}
        BY <1>9, <4>1, <4>2, Grown
      <4>4. PICK y \in 1..(j - 1) : x = Len(l) + y
        <5>1. x - Len(l) \in 1..(j - 1) /\ x = Len(l) + (x - Len(l))
          BY <1>7, <1>10, <1>12, <4>3
        <5> QED
          BY <5>1
      <4>5. m[x] = rs[y]
        BY <1>10, <4>4
      <4>6. y # 1
        BY <1>5, <2>1, <4>3, <4>5
      <4>7. PICK z \in 1..Cardinality(P) : y = z + 1 /\ z < k
        <5>1. y - 1 \in 1..Cardinality(P) /\ y = (y - 1) + 1 /\ y - 1 < k
          BY <1>6, <1>7, <2>2, <4>4, <4>6
        <5> QED
          BY <5>1
      <4>8. rs[y] = Unapplied(l, Nth(P, z))
        BY <1>5, <2>1, <4>7
      <4>9. m[x].of = Nth(P, z)
        BY <4>5, <4>8 DEF Unapplied
      <4>10. z = k
        BY <1>6, <2>3, <4>1, <4>9
      <4> QED
        BY <1>6, <4>7, <4>10
    <3> QED
      BY <3>1, <3>2 DEF PendingCommands
  <2> QED
    BY <1>8, <1>11, <2>5, <2>6, <2>7, <2>8
    DEF Allowed, AttemptOpens, AttemptMoves, OfAttempt, AttemptEnds, RepairNeedsDefect, CommandOnce,
        ReplanFits, InjectFits, UnappliedFits, TerminatesOnce, ActionResolves, OperatorDecides,
        SupervisorDecides, EngineDecides, Abandons
<1> QED
  BY <1>14, <1>15, <1>16

\* What may be appended first is.
LEMMA FirstAdmitted ==
  ASSUME NEW l \in Seq(Receipts), NEW rs \in Seq(Receipts), Len(rs) # 0, Allowed(l, rs[1])
  PROVE  /\ Extend(l, rs).log \in Seq(Receipts)
         /\ Len(l) + 1 \in DOMAIN Extend(l, rs).log /\ Extend(l, rs).log[Len(l) + 1] = rs[1]
<1> DEFINE S == {k \in 0..Len(rs) :
                  \A j \in 1..k : Allowed(l \o SubSeq(rs, 1, j - 1), rs[j])}
<1>1. Len(rs) \in Nat /\ Len(l) \in Nat
  BY LenProperties
<1>2. l \o SubSeq(rs, 1, 0) = l
  BY <1>1, SomeOf
<1>3. S \subseteq 0..Len(rs) /\ 1 \in S
  <2>1. 1 \in 0..Len(rs)
    BY <1>1
  <2>2. ASSUME NEW j \in 1..1 PROVE Allowed(l \o SubSeq(rs, 1, j - 1), rs[j])
    <3>1. j = 1 /\ j - 1 = 0
      OBVIOUS
    <3> QED
      BY <1>2, <3>1
  <2> QED
    BY <2>1, <2>2
<1>4. PICK n \in 0..Len(rs) : n = Max(S) /\ 1 <= n
  <2> HIDE DEF S
  <2>1. Max(S) \in S /\ \A y \in S : y <= Max(S)
    BY <1>1, <1>3, Greatest
  <2>2. PICK x \in 0..Len(rs) : x = Max(S)
    BY <1>3, <2>1
  <2> QED
    BY <1>3, <2>1, <2>2
<1>5. Extend(l, rs) = [log |-> l \o SubSeq(rs, 1, Max(S)), ok |-> Max(S) = Len(rs)]
  BY DEF Extend
<1> HIDE DEF S
<1>6. PICK m : m = l \o SubSeq(rs, 1, n)
  OBVIOUS
<1>7. /\ m \in Seq(Receipts) /\ Len(m) = Len(l) + n
      /\ \A i \in 1..n : m[Len(l) + i] = rs[i]
  BY <1>6, SomeOf
<1>8. 1 \in 1..n /\ DOMAIN m = 1..Len(m) /\ Len(l) + 1 \in 1..(Len(l) + n)
  BY <1>1, <1>4, <1>7
<1>9. Extend(l, rs).log = m
  <2>1. PICK b : b = (Max(S) = Len(rs))
    OBVIOUS
  <2>2. Extend(l, rs) = [log |-> m, ok |-> b]
    BY <1>4, <1>5, <1>6, <2>1
  <2> QED
    BY <2>2
<1> QED
  BY <1>7, <1>8, <1>9

\* What says nothing of attempts, the plan or actions leaves them as they are.
LEMMA Untouched ==
  ASSUME NEW l \in Seq(Receipts), NEW m, NEW R, Grows(l, m, R),
         \A x \in R : x.t \notin OfAttempt \cup {"run_abandoned", "run_planned", "action_opened",
                                               "action_resolved"}
  PROVE  /\ Attempts(m) = Attempts(l) /\ \A a \in Attempts(l) : m[a] = l[a]
         /\ \A lane : LastAttempt(m, lane) = LastAttempt(l, lane)
         /\ \A a : EndOf(m, a) = EndOf(l, a)
         /\ \A a : Dispatched(m, a) <=> Dispatched(l, a)
         /\ OpenAttempts(m) = OpenAttempts(l) /\ OpenActions(m) = OpenActions(l)
         /\ Required(m) = Required(l) /\ (Live(m) <=> Live(l)) /\ (Cataloged(m) <=> Cataloged(l))
         /\ \A lanes : LatestEnds(m, lanes) = LatestEnds(l, lanes)
<1>1. \A x \in R : x.t \notin AttemptEnds \cup {"run_abandoned", "stage_attempt_created"}
  BY DEF OfAttempt
<1>2. /\ \A x \in R : x.t # "stage_attempt_created" /\ x.t \notin {"stage_dispatch_started"}
      /\ \A x \in R : x.t # "run_planned" /\ x.t \notin {"run_planned"}
      /\ \A x \in R : x.t \notin {"action_opened"} /\ x.t \notin {"action_resolved"}
  BY DEF OfAttempt
<1>3. /\ Attempts(m) = Attempts(l) /\ \A a \in Attempts(l) : m[a] = l[a]
      /\ \A lane : LastAttempt(m, lane) = LastAttempt(l, lane)
  BY <1>2, AttemptsGrow
<1>4. OpenAttempts(m) = OpenAttempts(l) /\ \A a : EndOf(m, a) = EndOf(l, a)
  BY <1>1, OpenSame
<1>5. Live(m) <=> Live(l)
  BY <1>2, SaidGrow
<1>6. /\ All(m, {"stage_dispatch_started"}) = All(l, {"stage_dispatch_started"})
      /\ \A i \in All(l, {"stage_dispatch_started"}) : m[i] = l[i]
  BY <1>2, Grown
<1>7. \A a : Dispatched(m, a) <=> Dispatched(l, a)
  <2>1. \A k, a : Dispatched(k, a) <=> \E i \in All(k, {"stage_dispatch_started"}) : k[i].at = a
    BY DEF Dispatched, All
  <2> QED
    BY <1>6, <2>1
<1>8. OpenActions(m) = OpenActions(l)
  <2>1. /\ All(m, {"action_opened"}) = All(l, {"action_opened"})
        /\ All(m, {"action_resolved"}) = All(l, {"action_resolved"})
        /\ \A i \in All(l, {"action_resolved"}) : m[i] = l[i]
    BY <1>2, Grown
  <2> QED
    BY <2>1 DEF OpenActions
<1>9. All(m, {"run_planned"}) = All(l, {"run_planned"})
  BY <1>2, Grown
<1>10. Required(m) = Required(l) /\ (Cataloged(m) <=> Cataloged(l))
  BY <1>5, <1>9 DEF Required, Cataloged
<1>11. \A lanes : LatestEnds(m, lanes) = LatestEnds(l, lanes)
  BY <1>3, <1>4 DEF LatestEnds
<1> QED
  BY <1>3, <1>4, <1>5, <1>7, <1>8, <1>10, <1>11

\* What is admitted after a is admitted with a before it.
LEMMA AdmittedAfter ==
  ASSUME NEW l \in Seq(Receipts), NEW a \in Receipts, NEW ts \in Seq(Receipts),
         NEW rs, rs = <<a>> \o ts, NEW q, q = Append(l, a),
         Allowed(l, a), Extend(q, ts).ok
  PROVE  rs \in Seq(Receipts) /\ Len(rs) = Len(ts) + 1 /\ rs[1] = a /\ Extend(l, rs).ok
         /\ \A k \in 1..Len(ts) : rs[k + 1] = ts[k]
<1>1. <<a>> \in Seq(Receipts) /\ Len(<<a>>) = 1 /\ <<a>>[1] = a
  BY SeqOne
<1>2. Len(l) \in Nat /\ Len(ts) \in Nat
  BY LenProperties
<1>3. /\ rs \in Seq(Receipts) /\ Len(rs) = Len(ts) + 1
      /\ \A i \in 1..Len(rs) : rs[i] = IF i <= 1 THEN <<a>>[i] ELSE ts[i - 1]
  BY <1>1, <1>2, ConcatProperties
<1>4. rs[1] = a /\ \A k \in 1..Len(ts) : rs[k + 1] = ts[k]
  <2>1. 1 \in 1..Len(rs) /\ \A k \in 1..Len(ts) : k + 1 \in 1..Len(rs) /\ ~(k + 1 <= 1) /\ (k + 1) - 1 = k
    BY <1>2, <1>3
  <2> QED
    BY <1>1, <1>3, <2>1
<1>5. ASSUME NEW k \in 1..Len(ts)
      PROVE  l \o SubSeq(rs, 1, k) = q \o SubSeq(ts, 1, k - 1)
  <2>1. k \in 0..Len(rs) /\ k - 1 \in 0..Len(ts)
    BY <1>2, <1>3
  <2>2. PICK m : m = l \o SubSeq(rs, 1, k)
    OBVIOUS
  <2>3. PICK n : n = q \o SubSeq(ts, 1, k - 1)
    OBVIOUS
  <2>4. /\ m \in Seq(Receipts) /\ Len(m) = Len(l) + k
        /\ \A i \in 1..Len(l) : m[i] = l[i]
        /\ \A i \in 1..k : m[Len(l) + i] = rs[i]
    BY <1>3, <2>1, <2>2, SomeOf
  <2>5. PICK w : w = q
    OBVIOUS
  <2>6. w \in Seq(Receipts) /\ Len(w) = Len(l) + 1 /\ w[Len(l) + 1] = a /\ \A i \in 1..Len(l) : w[i] = l[i]
    BY <2>5, Longer
  <2>7. /\ n \in Seq(Receipts) /\ Len(n) = Len(w) + (k - 1)
        /\ \A i \in 1..Len(w) : n[i] = w[i]
        /\ \A i \in 1..(k - 1) : n[Len(w) + i] = ts[i]
    <3>1. n = w \o SubSeq(ts, 1, k - 1)
      BY <2>3, <2>5
    <3> QED
      BY <2>1, <2>6, <3>1, SomeOf
  <2>8. ASSUME NEW i \in 1..Len(m) PROVE m[i] = n[i]
    <3>1. CASE i \in 1..Len(l)
      BY <1>2, <2>4, <2>6, <2>7, <3>1
    <3>2. CASE i = Len(l) + 1
      <4>1. 1 \in 1..k /\ i \in 1..Len(w)
        BY <1>2, <2>6, <3>2
      <4> QED
        BY <1>4, <2>4, <2>6, <2>7, <3>2, <4>1
    <3>3. CASE i \notin 1..Len(l) /\ i # Len(l) + 1
      <4>1. PICK y \in 1..(k - 1) : i = Len(w) + y /\ i = Len(l) + (y + 1)
        <5>1. i - Len(w) \in 1..(k - 1) /\ i = Len(w) + (i - Len(w)) /\ i = Len(l) + ((i - Len(w)) + 1)
          BY <1>2, <2>4, <2>6, <3>3
        <5> QED
          BY <5>1
      <4>2. y \in 1..Len(ts) /\ y + 1 \in 1..k
        BY <1>2, <2>1
      <4>3. m[i] = rs[y + 1] /\ n[i] = ts[y]
        BY <2>4, <2>7, <4>1, <4>2
      <4> QED
        BY <1>4, <4>2, <4>3
    <3> QED
      BY <3>1, <3>2, <3>3
  <2>9. Len(m) = Len(n)
    BY <1>2, <2>4, <2>6, <2>7
  <2>10. m = n
    BY <2>4, <2>7, <2>8, <2>9, SeqEqual
  <2> QED
    BY <2>2, <2>3, <2>10
<1>6. \A j \in 1..Len(ts) : Allowed(q \o SubSeq(ts, 1, j - 1), ts[j])
  <2>1. q \in Seq(Receipts)
    BY Longer
  <2>2. PICK n \in 0..Len(ts) :
          /\ Extend(q, ts) = [log |-> q \o SubSeq(ts, 1, n), ok |-> n = Len(ts)]
          /\ \A j \in 1..n : Allowed(q \o SubSeq(ts, 1, j - 1), ts[j])
    BY <2>1, ExtendIs
  <2>3. PICK w : w = q \o SubSeq(ts, 1, n)
    OBVIOUS
  <2>4. PICK c : c = (n = Len(ts))
    OBVIOUS
  <2>5. Extend(q, ts) = [log |-> w, ok |-> c]
    BY <2>2, <2>3, <2>4
  <2>6. c
    BY <2>5
  <2>7. n = Len(ts)
    BY <2>4, <2>6
  <2> QED
    BY <2>2, <2>7
<1>7. ASSUME NEW j \in 1..Len(rs) PROVE Allowed(l \o SubSeq(rs, 1, j - 1), rs[j])
  <2>1. CASE j = 1
    <3>1. j - 1 = 0 /\ 0 \in 0..Len(rs) /\ l \o SubSeq(rs, 1, 0) = l
      BY <1>2, <1>3, <2>1, SomeOf
    <3> QED
      BY <1>4, <2>1, <3>1
  <2>2. CASE j # 1
    <3>1. PICK i \in 1..Len(ts) : j = i + 1 /\ j - 1 = i
      <4>1. j - 1 \in 1..Len(ts) /\ j = (j - 1) + 1
        BY <1>2, <1>3, <2>2
      <4> QED
        BY <4>1
    <3> QED
      BY <1>4, <1>5, <1>6, <3>1
  <2> QED
    BY <2>1, <2>2
<1>8. Extend(l, rs).ok
  BY <1>3, <1>7, AllAdmitted
<1> QED
  BY <1>3, <1>4, <1>8

\* The run waits on one action and nothing closes it yet.
Asked(l) ==
  /\ ~Decided(l) /\ ~Terminating(l) /\ All(l, {"command_unapplied"}) = {}
  /\ OpenAttempts(l) = {} /\ \E i \in OpenActions(l) : OpenActions(l) = {i}

LEMMA ResolutionIs ==
  ASSUME log \in Seq(Receipts), NEW resolution \in DOMAIN OutcomeMap
  PROVE  LET a == Resolution(resolution)
             b == Verdict(resolution)
         IN  /\ a \in Receipts /\ a.t = "action_resolved" /\ a.who = "operator_gateway"
             /\ a.of = Newest(OpenActions(log)) /\ a.say = resolution
             /\ b \in Receipts /\ b.t = "run_decision" /\ b.who = "operator_gateway"
             /\ b.of = Len(log) + 1 /\ b.say = OutcomeMap[resolution]
             /\ b.say \in {"completed", "blocked"}
<1>1. /\ Resolution(resolution) \in Receipts /\ Verdict(resolution) \in Receipts
      /\ Verdict(resolution).say \in {"completed", "blocked"}
  BY ResolvingIs
<1> QED
  BY <1>1 DEF Resolution, Verdict, Receipt

\* An action is resolved while it is open.
LEMMA ResolutionAllowed ==
  ASSUME log \in Seq(Receipts), NEW resolution \in DOMAIN OutcomeMap, Asked(log)
  PROVE  Allowed(log, Resolution(resolution)) /\ Newest(OpenActions(log)) \in OpenActions(log)
<1> DEFINE a == Resolution(resolution)
<1>1. /\ a.t = "action_resolved" /\ a.who = "operator_gateway" /\ a.of = Newest(OpenActions(log))
      /\ a.say = resolution
  BY ResolutionIs
<1>2. Newest(OpenActions(log)) \in OpenActions(log)
  <2>1. OpenActions(log) # {} /\ \A i \in OpenActions(log) : i \in DOMAIN log
    BY DEF Asked, OpenActions, All
  <2>2. Max(OpenActions(log)) \in OpenActions(log)
    BY <2>1, NewestIs
  <2> QED
    BY <2>1, <2>2 DEF Newest
<1> HIDE DEF a
<1>3. Authorised(a)
  BY <1>1 DEF Authorised, Rules
<1>4. Allowed(log, a)
  BY <1>1, <1>2, <1>3
  DEF Asked, Allowed, AttemptOpens, AttemptMoves, OfAttempt, AttemptEnds, RepairNeedsDefect, CommandOnce,
      ReplanFits, InjectFits, UnappliedFits, TerminatesOnce, ActionResolves, OperatorDecides,
      SupervisorDecides, EngineDecides, Abandons
<1> QED
  BY <1>2, <1>4 DEF a

\* What the operator resolves while the run waits is decided and sealed.
LEMMA ResolveAdmitted ==
  ASSUME log \in Seq(Receipts), LogInv(log), Asked(log), Waiting(log),
         NEW resolution \in DOMAIN OutcomeMap
  PROVE  Extend(log, Resolving(resolution)).ok /\ Decided(Extend(log, Resolving(resolution)).log)
<1>1. PICK a \in Receipts : a = Resolution(resolution)
  BY ResolutionIs
<1>2. PICK b \in Receipts : b = Verdict(resolution)
  BY ResolutionIs
<1>3. /\ a.t = "action_resolved" /\ a.who = "operator_gateway" /\ a.say = resolution
      /\ a.of = Newest(OpenActions(log))
      /\ b.t = "run_decision" /\ b.who = "operator_gateway" /\ b.of = Len(log) + 1
      /\ b.say = OutcomeMap[resolution] /\ b.say \in {"completed", "blocked"}
  BY <1>1, <1>2, ResolutionIs
<1>4. Allowed(log, a) /\ a.of \in OpenActions(log)
  BY <1>1, <1>3, ResolutionAllowed
<1>5. PICK k : k = Append(log, a)
  OBVIOUS
<1>6. /\ k \in Seq(Receipts) /\ LogInv(k) /\ Grows(log, k, {a})
      /\ Len(k) = Len(log) + 1 /\ Len(log) \in Nat /\ k[Len(log) + 1] = a
      /\ DOMAIN k = DOMAIN log \cup {Len(log) + 1}
  BY <1>3, <1>4, <1>5, LogGrows, OneGrows, Longer
<1>7. /\ ~Decided(k) /\ ~Terminating(k) /\ Waiting(k) /\ OpenAttempts(k) = {}
  <2>1. ~Decided(k) /\ Waiting(k)
    BY <1>3, <1>6, SaidGrow DEF Asked
  <2>2. ~Terminating(k)
    <3>1. All(k, {"terminalization_started"}) = All(log, {"terminalization_started"})
      BY <1>3, <1>6, Grown
    <3> QED
      BY <3>1 DEF Asked, Terminating
  <2>3. OpenAttempts(k) = OpenAttempts(log)
    BY <1>3, <1>6, OpenSame DEF AttemptEnds
  <2> QED
    BY <2>1, <2>2, <2>3 DEF Asked
<1>8. OpenActions(k) = {}
  <2>1. All(k, {"action_opened"}) = All(log, {"action_opened"})
    BY <1>3, <1>6, Grown
  <2>2. All(log, {"action_resolved"}) \subseteq All(k, {"action_resolved"})
        /\ \A i \in All(log, {"action_resolved"}) : k[i] = log[i]
    BY <1>6, Grown
  <2>3. Len(log) + 1 \in All(k, {"action_resolved"})
    BY <1>3, <1>6 DEF All
  <2>4. OpenActions(k) \subseteq OpenActions(log) \ {a.of}
    BY <1>6, <2>1, <2>2, <2>3 DEF OpenActions
  <2>5. OpenActions(log) = {a.of}
    BY <1>4 DEF Asked
  <2> QED
    BY <2>4, <2>5
<1>9. ASSUME NEW m, Grows(k, m, {x \in Receipts : x.t \in Closing}), PendingCommands(m) = {}
      PROVE  Allowed(m, b)
  <2> DEFINE C == {x \in Receipts : x.t \in Closing}
  <2>1. \A x \in C : x.t \notin {"run_decision", "run_abandoned", "run_planned", "action_opened",
                                "action_resolved"} \cup OfAttempt
    BY DEF C, Closing, OfAttempt, AttemptEnds
  <2>2. Grows(k, m, C)
    BY <1>9
  <2> HIDE DEF C
  <2>3. OpenAttempts(m) = OpenAttempts(k) /\ OpenActions(m) = OpenActions(k)
    BY <1>6, <2>1, <2>2, Untouched
  <2>4. ~Decided(m) /\ Waiting(m)
    BY <1>6, <1>7, <2>1, <2>2, SaidGrow
  <2>5. Len(log) + 1 \in All(m, {"action_resolved"}) /\ m[Len(log) + 1] = a
    <3>1. Len(log) + 1 \in All(k, {"action_resolved"})
      BY <1>3, <1>6 DEF All
    <3> QED
      BY <1>6, <2>2, <3>1, Grown
  <2>6. OperatorDecides(m, b)
    BY <1>3, <1>7, <1>8, <1>9, <2>3, <2>4, <2>5 DEF OperatorDecides, NothingOpen
  <2>7. Authorised(b)
    BY <1>3 DEF Authorised, Rules
  <2> QED
    BY <1>3, <2>4, <2>6, <2>7
    DEF Allowed, AttemptOpens, AttemptMoves, OfAttempt, AttemptEnds, RepairNeedsDefect, CommandOnce,
        ReplanFits, InjectFits, UnappliedFits, TerminatesOnce, ActionResolves,
        SupervisorDecides, EngineDecides, Abandons
<1>10. Extend(k, Terminal(k, b)).ok
  BY <1>6, <1>7, <1>8, <1>9, TerminalAdmitted
<1>11. PICK ts \in Seq(Receipts) : ts = Terminal(k, b) /\ Len(ts) # 0 /\ ts[Len(ts)] = b
  <2>1. Terminal(k, b) \in Seq(Receipts) /\ Len(Terminal(k, b)) \in Nat \ {0} /\ Terminal(k, b)[Len(Terminal(k, b))] = b
    BY <1>6, TerminalIs
  <2> QED
    BY <2>1
<1>13. PICK rs : rs = <<a>> \o ts
  OBVIOUS
<1>14. /\ rs \in Seq(Receipts) /\ Len(rs) = Len(ts) + 1 /\ rs[1] = a /\ Extend(log, rs).ok
       /\ \A i \in 1..Len(ts) : rs[i + 1] = ts[i]
  <2>1. Extend(k, ts).ok
    BY <1>10, <1>11
  <2>2. rs \in Seq(Receipts) /\ Len(rs) = Len(ts) + 1
    BY <1>4, <1>5, <1>13, <2>1, AdmittedAfter
  <2>3. rs[1] = a
    BY <1>4, <1>5, <1>13, <2>1, AdmittedAfter
  <2>4. Extend(log, rs).ok
    BY <1>4, <1>5, <1>13, <2>1, AdmittedAfter
  <2>5. ASSUME NEW i \in 1..Len(ts) PROVE rs[i + 1] = ts[i]
    BY <1>4, <1>5, <1>13, <2>1, AdmittedAfter
  <2> QED
    BY <2>2, <2>3, <2>4, <2>5
<1>15. rs = Resolving(resolution)
  BY <1>1, <1>2, <1>5, <1>11, <1>13 DEF Resolving
<1>17. Extend(log, rs).ok
  BY <1>14
<1>18. Decided(Extend(log, rs).log)
  <2>1. PICK q : q = Extend(log, rs).log
    OBVIOUS
  <2>2. PICK n \in 0..Len(rs) :
          /\ Extend(log, rs) = [log |-> log \o SubSeq(rs, 1, n), ok |-> n = Len(rs)]
    BY <1>14, ExtendIs
  <2>3. PICK p : p = log \o SubSeq(rs, 1, n)
    OBVIOUS
  <2>4. PICK c : c = (n = Len(rs))
    OBVIOUS
  <2>5. Extend(log, rs) = [log |-> p, ok |-> c]
    BY <2>2, <2>3, <2>4
  <2>6. c /\ q = p
    BY <1>17, <2>1, <2>5
  <2>7. n = Len(rs)
    BY <2>4, <2>6
  <2>8. /\ q \in Seq(Receipts) /\ Len(q) = Len(log) + n
        /\ \A i \in 1..n : q[Len(log) + i] = rs[i]
    BY <1>14, <2>3, <2>6, SomeOf
  <2>9. Len(ts) \in Nat /\ n = Len(ts) + 1 /\ n \in 1..n /\ Len(ts) \in 1..Len(ts)
    BY <1>11, <1>14, <2>7, LenProperties
  <2>10. rs[n] = b
    BY <1>11, <1>14, <2>9
  <2>11. Len(log) + n \in DOMAIN q /\ q[Len(log) + n] = b
    BY <1>6, <2>8, <2>9, <2>10
  <2>12. Decided(q)
    BY <1>3, <2>11 DEF Decided, All
  <2> QED
    BY <2>1, <2>12
<1> QED
  BY <1>15, <1>17, <1>18

----------------------------------------------------------------------------
(* A run in which nothing fails and no write is refused for want of room.  *)

\* As long as no call or process failed, and the log has room.
Calm == faults = 0 /\ Len(log) < MaxReceipts

\* The engine has an attempt open, or none.
Under == {"preflight", "block", "consume", "start", "call", "complete", "sent"}
Between == {"attest", "plan", "create", "repair", "route", "completed", "blocked", "refuse",
            "approval", "escalation"}
Closers == {"run_decision", "run_abandoned", "terminalization_started", "command_unapplied",
            "action_resolved", "stage_interrupted"}
Troubles == {"stage_failed", "stage_blocked"}

Rejected(l, lane) == LastAttempt(l, lane) # 0 /\ EndOf(l, LastAttempt(l, lane)) = "stage_rejected"

\* The one stage that failed or was blocked is the newest of its lane.
Stopped ==
  \E e \in All(log, Troubles) :
    /\ All(log, Troubles) = {e} /\ log[e].at = stage.at /\ log[e].lane = stage.lane
    /\ stage.lane \in CoreLanes \cup ConditionalLanes
    /\ LastAttempt(log, stage.lane) = stage.at /\ stage.at # 0

\* A replan whose command still waits is of the attempt being prepared.
Replans ==
  \A j \in All(log, {"run_replanned"}) :
    /\ log[j].of \in Commands(log)
    /\ log[j].of \in PendingCommands(log) =>
         /\ pc = "consume" /\ log[j].at = stage.at
         /\ log[log[j].of].lane = "lead" /\ log[j].of < stage.at

Staffed ==
  /\ broker /\ watch = "idle"
  /\ pc # "broken" => sup.life = "running" /\ sup.worker
Underway ==
  pc \in Under \cup Between =>
    /\ ~sealed /\ All(log, Closers \cup {"action_opened"}) = {}
    /\ pc # "refuse" => All(log, Troubles) = {}
    /\ pc \notin {"attest", "plan", "completed"} => Live(log)
    /\ Replans
Placed ==
  /\ pc \in {"attest", "plan"} => ~Cataloged(log)
  /\ pc \in Under => stage.at \in OpenAttempts(log)
  /\ pc \in Between => OpenAttempts(log) = {}
  /\ pc \in {"preflight", "block", "consume", "start"} => ~Dispatched(log, stage.at)
  /\ pc = "repair" => Rejected(log, "g2a")
  /\ pc = "create" /\ stage.lane \in ConditionalLanes =>
       stage.of \in All(log, {"repair_routed"}) /\ log[stage.of].lane = stage.lane
  /\ pc = "blocked" => \E lane \in Reviews : Rejected(log, lane)
  /\ pc = "refuse" => Stopped
Explained == BlockedLate \/ RepairBroke \/ ResolvedEarly \/ (Decided(log) /\ sealed)
Ended ==
  /\ pc = "await" => \/ All(log, {"action_resolved"}) # {} /\ OpenActions(log) = {}
                     \/ ~sealed /\ Asked(log)
  /\ pc = "seal" => Decided(log)
  /\ pc = "returned" => \/ Decided(log) /\ sealed
                        \/ Waiting(log) /\ ~sealed /\ Asked(log)
  /\ pc = "broken" => Explained
Unhindered ==
  /\ pc \in Under \cup Between \cup {"await", "seal", "returned", "broken"}
  /\ Staffed /\ Underway /\ Placed /\ Ended

LEMMA Afterwards ==
  ASSUME Seen, [Next]_vars
  PROVE  /\ log \in Seq(Receipts) /\ LogInv(log) /\ Typed /\ Ahead /\ Course /\ Traced(log) /\ Single
         /\ log' \in Seq(Receipts) /\ LogInv(log') /\ Ahead' /\ Course' /\ Traced(log') /\ Single'
<1>1. IInv' /\ log' \in Seq(Receipts) /\ LogInv(log')
  BY NextInv, StepWrites DEF Seen
<1>2. Viewed(log')
  BY ViewStep DEF Seen
<1>3. Single'
  BY SingleStep DEF Seen
<1> QED
  BY <1>1, <1>2, <1>3 DEF Seen, IInv, Typed, Viewed

\* While the engine works, nothing of the run is closed.
LEMMA Midway ==
  ASSUME Unhindered, pc \in Under \cup Between
  PROVE  /\ broker /\ ~sealed /\ ~Decided(log) /\ ~Terminating(log) /\ ~Waiting(log)
         /\ OpenActions(log) = {} /\ Replans
         /\ \A t \in Closers \cup {"action_opened"} : All(log, {t}) = {}
         /\ pc # "refuse" => All(log, Troubles) = {}
         /\ pc \notin {"attest", "plan", "completed"} => Live(log)
<1>1. /\ broker /\ ~sealed /\ All(log, Closers \cup {"action_opened"}) = {} /\ Replans
      /\ pc # "refuse" => All(log, Troubles) = {}
      /\ pc \notin {"attest", "plan", "completed"} => Live(log)
  BY DEF Unhindered, Staffed, Underway
<1>2. \A t \in Closers \cup {"action_opened"} : All(log, {t}) = {}
  BY <1>1 DEF All
<1>3. All(log, {"run_decision", "run_abandoned"}) = {} /\ All(log, {"run_decision"}) = {}
      /\ All(log, {"terminalization_started"}) = {} /\ All(log, {"action_opened"}) = {}
  BY <1>1 DEF All, Closers
<1> QED
  BY <1>1, <1>2, <1>3 DEF Decided, Terminating, Waiting, OpenActions

\* A call of the broker that appends what is allowed is answered.
LEMMA Answers ==
  ASSUME log \in Seq(Receipts), log' \in Seq(Receipts), Calm, Calm', broker, ~sealed,
         NEW r, NEW ok, NEW bad, Appends(r, ok, bad), Allowed(log, r)
  PROVE  /\ pc' = ok /\ log' = Append(log, r) /\ broker' = broker /\ sealed' = sealed
         /\ r \in Receipts /\ Grows(log, log', {r})
<1>1. CanWrite(r)
  BY DEF CanWrite, Calm
<1>2. pc' = ok /\ log' = Append(log, r) /\ broker' = broker /\ sealed' = sealed
  <2>1. faults = 0 /\ faults' = 0
    BY DEF Calm
  <2> QED
    BY <1>1, <2>1 DEF Appends
<1>3. r \in Receipts
  <2>1. log \in Seq(Receipts \cup {r})
    BY LenProperties
  <2>2. Len(log) + 1 \in 1..Len(log') /\ log'[Len(log) + 1] = r
    BY <1>2, <2>1, AppendProperties, LenProperties
  <2> QED
    BY <2>2, ElementOfSeq
<1> QED
  BY <1>2, <1>3, OneGrows

\* What the engine asks for is allowed when the rule of its transition is met.
LEMMA Admitted ==
  ASSUME NEW l, NEW r, ~Decided(l), ~Terminating(l), Authorised(r), r.who = "orchestrator",
         r.t \notin {"terminalization_started", "command_unapplied"},
         r.t = "run_planned" => ~Cataloged(l),
         AttemptOpens(l, r), AttemptMoves(l, r), RepairNeedsDefect(l, r), ReplanFits(l, r),
         InjectFits(l, r), EngineDecides(l, r)
  PROVE  Allowed(l, r)
<1>1. r.t \notin {"command_accepted", "command_rejected", "action_resolved", "run_abandoned"}
  BY DEF Authorised, Rules
<1> QED
  BY <1>1
  DEF Allowed, CommandOnce, UnappliedFits, TerminatesOnce, ActionResolves, OperatorDecides,
      SupervisorDecides, Abandons

LEMMA StaffedStep ==
  ASSUME Staffed, pc # "broken", UNCHANGED supervisor, broker' = broker
  PROVE  Staffed'
BY DEF Staffed, supervisor

\* Nothing closes, and no command that was replanned is left behind.
LEMMA UnderwayStep ==
  ASSUME log \in Seq(Receipts), Unhindered, pc \in Under \cup Between, sealed' = sealed,
         NEW R, Grows(log, log', R),
         \A x \in R : x.t \notin Closers \cup {"action_opened"},
         (\A x \in R : x.t \notin Troubles) \/ pc' = "refuse",
         pc = "refuse" => pc' = "refuse",
         pc' \in {"attest", "plan", "completed"} \/ Live(log'),
         \A j \in All(log, {"run_replanned"}) :
           log[j].of \in PendingCommands(log) /\ log[j].of \in PendingCommands(log') =>
             pc' = "consume" /\ stage'.at = stage.at,
         \A x \in R : x.t = "run_replanned" =>
           /\ x.of \in Commands(log) /\ log[x.of].lane = "lead" /\ x.of < stage'.at
           /\ pc' = "consume" /\ x.at = stage'.at
  PROVE  Underway'
<1>1. /\ ~sealed /\ All(log, Closers \cup {"action_opened"}) = {} /\ Replans
      /\ pc # "refuse" => All(log, Troubles) = {}
  BY DEF Unhindered, Underway
<1>2. All(log', Closers \cup {"action_opened"}) = {}
  <2>1. PICK ts : ts = Closers \cup {"action_opened"}
    OBVIOUS
  <2>2. All(log, ts) = {} /\ \A x \in R : x.t \notin ts
    BY <1>1, <2>1
  <2>3. All(log', ts) = {}
    BY <2>2, Grown
  <2> QED
    BY <2>1, <2>3
<1>3. pc' # "refuse" => All(log', Troubles) = {}
  <2> SUFFICES ASSUME pc' # "refuse" PROVE All(log', Troubles) = {}
    OBVIOUS
  <2>1. All(log, Troubles) = {} /\ \A x \in R : x.t \notin Troubles
    BY <1>1
  <2> QED
    BY <2>1, Grown
<1>4. Replans'
  <2> SUFFICES ASSUME NEW j \in All(log', {"run_replanned"})
               PROVE  /\ log'[j].of \in Commands(log')
                      /\ log'[j].of \in PendingCommands(log') =>
                           /\ pc' = "consume" /\ log'[j].at = stage'.at
                           /\ log'[log'[j].of].lane = "lead" /\ log'[j].of < stage'.at
    BY DEF Replans
  <2>1. /\ Commands(log) \subseteq Commands(log')
        /\ \A i \in Commands(log) : log'[i] = log[i] /\ i \in Nat /\ i <= Len(log)
        /\ \A i \in PendingCommands(log') : i \in PendingCommands(log) \/ (i \in Nat /\ i > Len(log))
    BY PendingGrow
  <2>2. CASE j \in All(log, {"run_replanned"}) /\ log'[j] = log[j]
    <3>1. log[j].of \in Commands(log)
      BY <1>1, <2>2 DEF Replans
    <3>2. ASSUME log[j].of \in PendingCommands(log')
          PROVE  /\ pc' = "consume" /\ log[j].at = stage'.at
                 /\ log'[log[j].of].lane = "lead" /\ log[j].of < stage'.at
      <4>1. log[j].of \in PendingCommands(log)
        <5>1. log[j].of \in Nat /\ log[j].of <= Len(log) /\ Len(log) \in Nat
          BY <2>1, <3>1, LenProperties
        <5>2. ~(log[j].of > Len(log))
          BY <5>1
        <5> QED
          BY <2>1, <3>2, <5>2
      <4>2. /\ log[j].at = stage.at /\ log[log[j].of].lane = "lead" /\ log[j].of < stage.at
        BY <1>1, <2>2, <4>1 DEF Replans
      <4>3. pc' = "consume" /\ stage'.at = stage.at
        BY <2>2, <3>2, <4>1
      <4> QED
        BY <2>1, <3>1, <4>2, <4>3
    <3> QED
      BY <2>1, <2>2, <3>1, <3>2
  <2>3. CASE log'[j] \in R /\ log'[j].t = "run_replanned"
    BY <2>1, <2>3
  <2> QED
    BY <2>2, <2>3, OldOrNew
<1> QED
  BY <1>1, <1>2, <1>3, <1>4 DEF Underway

LEMMA AttestSmooth ==
  ASSUME Seen, [Next]_vars, Calm, Calm', Unhindered, Attest
  PROVE  Unhindered'
<1>1. /\ log \in Seq(Receipts) /\ log' \in Seq(Receipts)
  BY Afterwards
<1>2. pc = "attest" /\ pc \in Under \cup Between /\ pc # "broken" /\ pc \notin {"refuse", "consume"}
  BY DEF Attest, Between
<1>3. /\ broker /\ ~sealed /\ ~Decided(log) /\ ~Terminating(log) /\ Replans
  BY <1>2, Midway
<1>4. PICK r : r = Receipt("run_attested", "orchestrator", "none", 0, 0, "none")
  OBVIOUS
<1>5. r.t = "run_attested" /\ r.who = "orchestrator"
  BY <1>4 DEF Receipt
<1>6. Allowed(log, r)
  <2>1. Authorised(r)
    BY <1>5 DEF Authorised, Rules
  <2> QED
    BY <1>3, <1>5, <2>1, Admitted
    DEF AttemptOpens, AttemptMoves, OfAttempt, AttemptEnds, RepairNeedsDefect, ReplanFits, InjectFits,
        EngineDecides
<1>7. /\ pc' = "plan" /\ log' = Append(log, r) /\ broker' = broker /\ sealed' = sealed
      /\ r \in Receipts /\ Grows(log, log', {r})
  <2>1. Appends(r, "plan", "broken")
    BY <1>4 DEF Attest
  <2> QED
    BY <1>1, <1>3, <1>6, <2>1, Answers
<1>8. stage' = stage /\ UNCHANGED supervisor
  BY DEF Attest
<1>9. Staffed'
  BY <1>2, <1>7, <1>8, StaffedStep DEF Unhindered
<1>10. Underway'
  BY <1>1, <1>2, <1>3, <1>5, <1>7, UnderwayStep DEF Closers, Troubles, Replans
<1>11. Placed'
  <2>1. ~Cataloged(log') /\ OpenAttempts(log') = {}
    <3>1. (Cataloged(log') <=> Cataloged(log)) /\ OpenAttempts(log') = OpenAttempts(log)
      BY <1>1, <1>5, <1>7, Untouched DEF OfAttempt, AttemptEnds
    <3> QED
      BY <1>2, <3>1 DEF Unhindered, Placed, Between
  <2> QED
    BY <1>7, <2>1 DEF Placed, Under
<1> QED
  BY <1>7, <1>9, <1>10, <1>11 DEF Unhindered, Ended, Under, Between

LEMMA PlanSmooth ==
  ASSUME Seen, [Next]_vars, Calm, Calm', Unhindered, Plan
  PROVE  Unhindered'
<1>1. /\ log \in Seq(Receipts) /\ log' \in Seq(Receipts)
  BY Afterwards
<1>2. pc = "plan" /\ pc \in Under \cup Between /\ pc # "broken" /\ pc \notin {"refuse", "consume"}
  BY DEF Plan, Between
<1>3. /\ broker /\ ~sealed /\ ~Decided(log) /\ ~Terminating(log) /\ Replans
  BY <1>2, Midway
<1>4. PICK mode \in Modes :
        Appends(Receipt("run_planned", "orchestrator", "none", 0, 0, mode),
                IF mode = "live" THEN "create" ELSE "completed", "broken")
  BY DEF Plan
<1>5. PICK ok : ok = IF mode = "live" THEN "create" ELSE "completed"
  OBVIOUS
<1>6. PICK r : r = Receipt("run_planned", "orchestrator", "none", 0, 0, mode)
  OBVIOUS
<1>7. r.t = "run_planned" /\ r.who = "orchestrator" /\ r.say = mode
  BY <1>6 DEF Receipt
<1>8. Allowed(log, r)
  <2>1. Authorised(r)
    BY <1>7 DEF Authorised, Rules
  <2>2. ~Cataloged(log)
    BY <1>2 DEF Unhindered, Placed
  <2> QED
    BY <1>3, <1>7, <2>1, <2>2, Admitted
    DEF AttemptOpens, AttemptMoves, OfAttempt, AttemptEnds, RepairNeedsDefect, ReplanFits, InjectFits,
        EngineDecides
<1>9. /\ pc' = ok /\ log' = Append(log, r) /\ broker' = broker /\ sealed' = sealed
      /\ r \in Receipts /\ Grows(log, log', {r})
  <2>1. Appends(r, ok, "broken")
    BY <1>4, <1>5, <1>6
  <2> QED
    BY <1>1, <1>3, <1>8, <2>1, Answers
<1>10. UNCHANGED supervisor /\ stage'.lane = "g1d"
  BY DEF Plan, NoStage
<1>11. Staffed'
  BY <1>2, <1>9, <1>10, StaffedStep DEF Unhindered
<1>12. pc' = "completed" \/ (pc' = "create" /\ Live(log'))
  <2>1. ASSUME mode = "live" PROVE Live(log')
    <3>1. Len(log) + 1 \in DOMAIN log' /\ log'[Len(log) + 1] = r
      BY <1>1, <1>9, Longer
    <3> QED
      BY <1>7, <2>1, <3>1 DEF Live, All
  <2> QED
    BY <1>5, <1>9, <2>1
<1>13. Underway'
  BY <1>1, <1>2, <1>3, <1>7, <1>9, <1>12, UnderwayStep DEF Closers, Troubles, Replans
<1>14. Placed'
  <2>1. OpenAttempts(log') = {}
    <3>1. OpenAttempts(log') = OpenAttempts(log)
      BY <1>1, <1>7, <1>9, OpenSame DEF AttemptEnds
    <3> QED
      BY <1>2, <3>1 DEF Unhindered, Placed, Between
  <2> QED
    BY <1>10, <1>12, <2>1 DEF Placed, Under, ConditionalLanes
<1> QED
  BY <1>11, <1>12, <1>13, <1>14 DEF Unhindered, Ended, Under, Between

LEMMA CreateSmooth ==
  ASSUME Seen, [Next]_vars, Calm, Calm', Unhindered, Create
  PROVE  Unhindered'
<1>1. /\ log \in Seq(Receipts) /\ log' \in Seq(Receipts) /\ LogInv(log) /\ Typed /\ Course
      /\ Traced(log) /\ LogInv(log')
  BY Afterwards
<1>2. pc = "create" /\ pc \in Under \cup Between /\ pc # "broken" /\ pc \notin {"refuse", "consume"}
  BY DEF Create, Between
<1>3. /\ broker /\ ~sealed /\ ~Decided(log) /\ ~Terminating(log) /\ Replans
      /\ All(log, {"command_unapplied"}) = {} /\ Live(log)
      /\ All(log, {"run_abandoned"}) = {}
  BY <1>2, Midway DEF Closers
<1>4. PICK r : r = Receipt("stage_attempt_created", "orchestrator", stage.lane, 0, stage.of, "none")
  OBVIOUS
<1>5. /\ r.t = "stage_attempt_created" /\ r.who = "orchestrator" /\ r.lane = stage.lane
      /\ r.of = stage.of
  BY <1>4 DEF Receipt
<1>6. /\ OpenAttempts(log) = {}
      /\ stage.lane \in ConditionalLanes =>
           stage.of \in All(log, {"repair_routed"}) /\ log[stage.of].lane = stage.lane
  BY <1>2 DEF Unhindered, Placed, Between
<1>7. Allowed(log, r)
  <2>1. Authorised(r)
    BY <1>5 DEF Authorised, Rules
  <2>2. stage.lane \in CoreLanes \cup ConditionalLanes
    BY <1>1, <1>2 DEF Course, Before, CoreLanes, ConditionalLanes
  <2>3. AttemptOpens(log, r)
    BY <1>3, <1>5, <1>6, <2>2 DEF AttemptOpens
  <2> QED
    BY <1>3, <1>5, <2>1, <2>3, Admitted
    DEF AttemptMoves, OfAttempt, AttemptEnds, RepairNeedsDefect, ReplanFits, InjectFits, EngineDecides
<1>8. /\ pc' = "preflight" /\ log' = Append(log, r) /\ broker' = broker /\ sealed' = sealed
      /\ r \in Receipts /\ Grows(log, log', {r})
  <2>1. Appends(r, "preflight", "broken")
    BY <1>4 DEF Create
  <2> QED
    BY <1>1, <1>3, <1>7, <2>1, Answers
<1>9. UNCHANGED supervisor /\ stage'.at = Len(log) + 1
  BY <1>1 DEF Create, Typed
<1>10. Staffed'
  BY <1>2, <1>8, <1>9, StaffedStep DEF Unhindered
<1>11. Live(log')
  BY <1>1, <1>3, <1>8, SaidGrow
<1>12. Underway'
  BY <1>1, <1>2, <1>3, <1>5, <1>8, <1>11, UnderwayStep DEF Closers, Troubles, Replans
<1>13. Len(log) + 1 \in DOMAIN log' /\ log'[Len(log) + 1] = r /\ Len(log) + 1 \notin Attempts(log)
  <2>1. Len(log) + 1 \in DOMAIN log' /\ log'[Len(log) + 1] = r /\ Len(log) \in Nat /\ DOMAIN log = 1..Len(log)
    BY <1>1, <1>8, Longer
  <2> QED
    BY <2>1 DEF Attempts, All
<1>14. Placed'
  <2>1. All(log', {"run_abandoned"}) = {} /\ All(log', AttemptEnds) = All(log, AttemptEnds)
        /\ \A i \in All(log, AttemptEnds) : log'[i] = log[i]
    BY <1>1, <1>3, <1>5, <1>8, Grown DEF AttemptEnds
  <2>2. EndOf(log', Len(log) + 1) = "open"
    <3>1. \A i \in All(log', AttemptEnds) : log'[i].at # Len(log) + 1
      BY <1>1, <1>13, <2>1 DEF Traced
    <3>2. {i \in All(log', AttemptEnds) : log'[i].at = Len(log) + 1} = {}
      BY <3>1
    <3> QED
      BY <2>1, <3>2 DEF EndOf
  <2>3. stage'.at \in OpenAttempts(log')
    BY <1>5, <1>9, <1>13, <2>2 DEF OpenAttempts, Attempts, All
  <2>4. ~Dispatched(log', stage'.at)
    <3>1. \A i \in All(log, {"stage_dispatch_started"}) : log[i].at # Len(log) + 1
      BY <1>1, <1>13 DEF LogInv, All
    <3>2. /\ All(log', {"stage_dispatch_started"}) = All(log, {"stage_dispatch_started"})
          /\ \A i \in All(log, {"stage_dispatch_started"}) : log'[i] = log[i]
      BY <1>1, <1>5, <1>8, Grown
    <3> QED
      BY <1>9, <3>1, <3>2 DEF Dispatched, All
  <2> QED
    BY <1>8, <2>3, <2>4 DEF Placed, Under, Between
<1> QED
  BY <1>8, <1>10, <1>12, <1>14 DEF Unhindered, Ended, Under, Between

LEMMA PreflightSmooth ==
  ASSUME Seen, [Next]_vars, Calm, Calm', Unhindered, Preflight
  PROVE  Unhindered'
<1>1. /\ log \in Seq(Receipts)
  BY Afterwards
<1>2. pc = "preflight" /\ pc \in Under \cup Between /\ pc # "broken" /\ pc \notin {"refuse", "consume"}
  BY DEF Preflight, Under
<1>3. Replans /\ Live(log)
  BY <1>2, Midway
<1>4. /\ log' = log /\ sealed' = sealed /\ broker' = broker /\ stage' = stage /\ UNCHANGED supervisor
      /\ pc' \in {"block", "consume"}
  BY DEF Preflight
<1>5. Staffed'
  BY <1>2, <1>4, StaffedStep DEF Unhindered
<1>6. Underway'
  <2>1. Grows(log, log', {})
    BY <1>1, <1>4 DEF Grows
  <2> QED
    BY <1>1, <1>2, <1>3, <1>4, <2>1, UnderwayStep DEF Replans
<1>7. Placed'
  BY <1>2, <1>4 DEF Unhindered, Placed, Under, Between
<1> QED
  BY <1>4, <1>5, <1>6, <1>7 DEF Unhindered, Ended, Under, Between

\* A stage that ended badly is the only one, and the newest of its lane.
LEMMA StoppedIs ==
  ASSUME Typed, Ahead, Course, pc \in Prepared, NEW r \in Receipts, Grows(log, log', {r}),
         log' = Append(log, r), r.t \in Troubles, r.at = stage.at, r.lane = stage.lane,
         All(log, Troubles) = {}, stage' = stage
  PROVE  Stopped'
<1>1. log \in Seq(Receipts) /\ Len(log) + 1 \in DOMAIN log' /\ log'[Len(log) + 1] = r
  BY Longer DEF Typed
<1>2. All(log', Troubles) = {Len(log) + 1}
  BY <1>1, AllLonger
<1>3. LastAttempt(log, stage.lane) = stage.at /\ stage.at # 0
  BY LatestIs
<1>4. LastAttempt(log', stage.lane) = LastAttempt(log, stage.lane)
  BY <1>1, AttemptsGrow DEF Troubles
<1>5. stage.lane \in CoreLanes \cup ConditionalLanes
  BY DEF Course, Before, CoreLanes, ConditionalLanes
<1> QED
  BY <1>1, <1>2, <1>3, <1>4, <1>5 DEF Stopped

\* What ends the attempt at work leaves none open.
LEMMA EndedIs ==
  ASSUME log \in Seq(Receipts), Single, pc \in Prepared, NEW r \in Receipts, Grows(log, log', {r}),
         log' = Append(log, r), r.t \in AttemptEnds, r.at = stage.at
  PROVE  OpenAttempts(log') = {}
<1>1. Len(log) + 1 \in DOMAIN log' /\ log'[Len(log) + 1] = r /\ log' \in Seq(Receipts)
  BY Longer
<1>2. Len(log) + 1 \in All(log', AttemptEnds)
  BY <1>1 DEF All
<1>3. EndOf(log', stage.at) # "open"
  <2>1. PICK m \in Seq(Receipts) : m = log'
    BY <1>1
  <2>2. PICK a : a = stage.at
    OBVIOUS
  <2>3. EndOf(m, a) = "open" => \A j \in All(m, AttemptEnds) : m[j].at # a
    BY EndFound
  <2>4. EndOf(m, a) # "open"
    BY <1>1, <1>2, <2>1, <2>2, <2>3
  <2> QED
    BY <2>1, <2>2, <2>4
<1>4. OpenAttempts(log') \subseteq OpenAttempts(log)
  BY OpenFewer DEF AttemptEnds
<1>5. OpenAttempts(log) \subseteq {stage.at}
  BY DEF Single
<1> QED
  BY <1>3, <1>4, <1>5 DEF OpenAttempts

LEMMA BlockSmooth ==
  ASSUME Seen, [Next]_vars, Calm, Calm', Unhindered, Block
  PROVE  Unhindered'
<1>1. /\ log \in Seq(Receipts) /\ log' \in Seq(Receipts) /\ Typed /\ Course /\ Ahead /\ Single
  BY Afterwards
<1>2. /\ pc = "block" /\ pc \in Under \cup Between /\ pc # "broken" /\ pc \notin {"refuse", "consume"}
      /\ pc \in Prepared
  BY DEF Block, Under, Prepared
<1>3. /\ broker /\ ~sealed /\ ~Decided(log) /\ ~Terminating(log) /\ Replans
      /\ Live(log) /\ All(log, Troubles) = {}
  BY <1>2, Midway
<1>4. PICK r : r = Mine("stage_blocked", "none")
  OBVIOUS
<1>5. /\ r.t = "stage_blocked" /\ r.who = "orchestrator" /\ r.lane = stage.lane /\ r.at = stage.at
  BY <1>4 DEF Mine, Receipt
<1>6. stage.at \in OpenAttempts(log) /\ ~Dispatched(log, stage.at) /\ log[stage.at].lane = stage.lane
  BY <1>1, <1>2 DEF Unhindered, Placed, Under, Ahead
<1>7. Allowed(log, r)
  <2>1. Authorised(r)
    BY <1>5 DEF Authorised, Rules
  <2>2. AttemptMoves(log, r)
    BY <1>5, <1>6 DEF AttemptMoves
  <2> QED
    BY <1>3, <1>5, <2>1, <2>2, Admitted
    DEF AttemptOpens, RepairNeedsDefect, ReplanFits, InjectFits, EngineDecides
<1>8. /\ pc' = "refuse" /\ log' = Append(log, r) /\ broker' = broker /\ sealed' = sealed
      /\ r \in Receipts /\ Grows(log, log', {r})
  <2>1. Appends(r, "refuse", "broken")
    BY <1>4 DEF Block
  <2> QED
    BY <1>1, <1>3, <1>7, <2>1, Answers
<1>9. UNCHANGED supervisor /\ stage' = stage
  BY DEF Block
<1>10. Staffed'
  BY <1>2, <1>8, <1>9, StaffedStep DEF Unhindered
<1>11. Live(log')
  BY <1>1, <1>3, <1>8, SaidGrow
<1>12. Underway'
  BY <1>1, <1>2, <1>3, <1>5, <1>8, <1>11, UnderwayStep DEF Closers, Troubles, Replans
<1>13. Placed'
  <2>1. Stopped'
    BY <1>1, <1>2, <1>3, <1>5, <1>8, <1>9, StoppedIs DEF Troubles
  <2>2. OpenAttempts(log') = {}
    BY <1>1, <1>2, <1>5, <1>8, EndedIs DEF AttemptEnds
  <2> QED
    BY <1>8, <2>1, <2>2 DEF Placed, Under, Between
<1> QED
  BY <1>8, <1>10, <1>12, <1>13 DEF Unhindered, Ended, Under, Between

LEMMA FailSmooth ==
  ASSUME Seen, [Next]_vars, Calm, Calm', Unhindered, Fail
  PROVE  Unhindered'
<1>1. /\ log \in Seq(Receipts) /\ log' \in Seq(Receipts) /\ Typed /\ Course /\ Ahead /\ Single
  BY Afterwards
<1>2. /\ pc = "sent" /\ pc \in Under \cup Between /\ pc # "broken" /\ pc \notin {"refuse", "consume"}
      /\ pc \in Prepared
  BY DEF Fail, Under, Between, Prepared, Unhindered
<1>3. /\ broker /\ ~sealed /\ ~Decided(log) /\ ~Terminating(log) /\ Replans
      /\ Live(log) /\ All(log, Troubles) = {}
  BY <1>2, Midway
<1>4. PICK r : r = Mine("stage_failed", "dispatched")
  OBVIOUS
<1>5. /\ r.t = "stage_failed" /\ r.who = "orchestrator" /\ r.lane = stage.lane /\ r.at = stage.at
  BY <1>4 DEF Mine, Receipt
<1>6. stage.at \in OpenAttempts(log) /\ Dispatched(log, stage.at) /\ log[stage.at].lane = stage.lane
  BY <1>1, <1>2 DEF Unhindered, Placed, Under, Ahead
<1>7. Allowed(log, r)
  <2>1. Authorised(r)
    BY <1>5 DEF Authorised, Rules
  <2>2. AttemptMoves(log, r)
    BY <1>5, <1>6 DEF AttemptMoves
  <2> QED
    BY <1>3, <1>5, <2>1, <2>2, Admitted
    DEF AttemptOpens, RepairNeedsDefect, ReplanFits, InjectFits, EngineDecides
<1>8. /\ pc' = "refuse" /\ log' = Append(log, r) /\ broker' = broker /\ sealed' = sealed
      /\ r \in Receipts /\ Grows(log, log', {r})
  <2>1. Appends(r, "refuse", "broken")
    BY <1>2, <1>4 DEF Fail
  <2> QED
    BY <1>1, <1>3, <1>7, <2>1, Answers
<1>9. UNCHANGED supervisor /\ stage' = stage
  BY DEF Fail
<1>10. Staffed'
  BY <1>2, <1>8, <1>9, StaffedStep DEF Unhindered
<1>11. Live(log')
  BY <1>1, <1>3, <1>8, SaidGrow
<1>12. Underway'
  BY <1>1, <1>2, <1>3, <1>5, <1>8, <1>11, UnderwayStep DEF Closers, Troubles, Replans
<1>13. Placed'
  <2>1. Stopped'
    BY <1>1, <1>2, <1>3, <1>5, <1>8, <1>9, StoppedIs DEF Troubles
  <2>2. OpenAttempts(log') = {}
    BY <1>1, <1>2, <1>5, <1>8, EndedIs DEF AttemptEnds
  <2> QED
    BY <1>8, <2>1, <2>2 DEF Placed, Under, Between
<1> QED
  BY <1>8, <1>10, <1>12, <1>13 DEF Unhindered, Ended, Under, Between

LEMMA ConsumeSmooth ==
  ASSUME Seen, [Next]_vars, Calm, Calm', Unhindered, Consume
  PROVE  Unhindered'
<1>1. /\ log \in Seq(Receipts) /\ log' \in Seq(Receipts) /\ Typed /\ Ahead /\ Single
  BY Afterwards
<1>2. /\ pc = "consume" /\ pc \in Under \cup Between /\ pc # "broken" /\ pc # "refuse"
      /\ pc \in Prepared
  BY DEF Consume, Under, Prepared
<1>3. /\ broker /\ ~sealed /\ ~Decided(log) /\ ~Terminating(log) /\ Replans /\ Live(log)
  BY <1>2, Midway
<1>4. PICK i \in Eligible : i = Min(Eligible)
  BY <1>1, OldestIs DEF Consume
<1>5. PICK t : t = IF log[i].lane = "lead" /\ ReplanOf(log, i) = {}
                   THEN "run_replanned" ELSE "context_injected"
  OBVIOUS
<1>6. PICK r : r = Receipt(t, "orchestrator", log[i].lane, stage.at, i, log[i].say)
  OBVIOUS
<1>7. /\ r.t = t /\ r.who = "orchestrator" /\ r.at = stage.at /\ r.of = i
      /\ t \in {"run_replanned", "context_injected"}
  BY <1>5, <1>6 DEF Receipt
<1>8. /\ i \in PendingCommands(log) /\ i < stage.at /\ log[i].lane \in {"lead", stage.lane}
      /\ i \in Commands(log)
  BY <1>4 DEF Eligible, PendingCommands
<1>9. /\ stage.at \in OpenAttempts(log) /\ ~Dispatched(log, stage.at) /\ log[stage.at].lane = stage.lane
      /\ stage.at \in Attempts(log) /\ Cataloged(log)
  BY <1>1, <1>2 DEF Unhindered, Placed, Under, Ahead, Single
<1>10. Allowed(log, r)
  <2>1. Authorised(r)
    BY <1>7 DEF Authorised, Rules
  <2>2. ReplanFits(log, r)
    BY <1>5, <1>7, <1>8, <1>9 DEF ReplanFits
  <2>3. InjectFits(log, r)
    <3>1. ASSUME log[i].lane = "lead", ReplanOf(log, i) # {}
          PROVE  \E j \in ReplanOf(log, i) : log[j].at = stage.at
      <4>1. PICK j \in ReplanOf(log, i) : TRUE
        BY <3>1
      <4>2. j \in All(log, {"run_replanned"}) /\ log[j].of = i
        BY <4>1 DEF ReplanOf
      <4>3. log[j].at = stage.at
        BY <1>3, <1>8, <4>2 DEF Replans
      <4> QED
        BY <4>1, <4>3
    <3> QED
      BY <1>5, <1>7, <1>8, <1>9, <3>1 DEF InjectFits
  <2> QED
    BY <1>3, <1>7, <2>1, <2>2, <2>3, Admitted
    DEF AttemptOpens, AttemptMoves, OfAttempt, AttemptEnds, RepairNeedsDefect, EngineDecides
<1>11. /\ pc' = "consume" /\ log' = Append(log, r) /\ broker' = broker /\ sealed' = sealed
       /\ r \in Receipts /\ Grows(log, log', {r})
  <2>1. Appends(r, "consume", "unsent")
    BY <1>4, <1>5, <1>6 DEF Consume
  <2> QED
    BY <1>1, <1>3, <1>10, <2>1, Answers
<1>12. UNCHANGED supervisor /\ stage' = stage
  BY DEF Consume
<1>13. Staffed'
  BY <1>2, <1>11, <1>12, StaffedStep DEF Unhindered
<1>14. Live(log')
  BY <1>1, <1>3, <1>11, SaidGrow
<1>15. Underway'
  <2>1. r.t \notin Closers \cup {"action_opened"} /\ r.t \notin Troubles
    BY <1>7 DEF Closers, Troubles
  <2>2. /\ r.of \in Commands(log) /\ r.of < stage'.at /\ r.at = stage'.at
        /\ r.t = "run_replanned" => log[r.of].lane = "lead"
    BY <1>5, <1>7, <1>8, <1>12
  <2> QED
    BY <1>1, <1>2, <1>11, <1>12, <1>14, <2>1, <2>2, UnderwayStep
<1>16. Placed'
  <2>1. /\ OpenAttempts(log') = OpenAttempts(log)
        /\ \A a : Dispatched(log', a) <=> Dispatched(log, a)
    BY <1>1, <1>7, <1>11, Untouched DEF OfAttempt, AttemptEnds
  <2> QED
    BY <1>9, <1>11, <1>12, <2>1 DEF Placed, Under, Between
<1> QED
  BY <1>11, <1>13, <1>15, <1>16 DEF Unhindered, Ended, Under, Between

LEMMA ReserveSmooth ==
  ASSUME Seen, [Next]_vars, Calm, Calm', Unhindered, Reserve
  PROVE  Unhindered'
<1>1. /\ log \in Seq(Receipts)
  BY Afterwards
<1>2. pc = "consume" /\ pc \in Under \cup Between /\ pc # "broken" /\ pc # "refuse"
  BY DEF Reserve, Under
<1>3. Replans /\ Live(log)
  BY <1>2, Midway
<1>4. /\ log' = log /\ sealed' = sealed /\ broker' = broker /\ stage' = stage /\ UNCHANGED supervisor
      /\ pc' = "start" /\ Eligible = {}
  BY DEF Reserve
<1>5. Staffed'
  BY <1>2, <1>4, StaffedStep DEF Unhindered
<1>6. \A j \in All(log, {"run_replanned"}) : log[j].of \notin PendingCommands(log)
  BY <1>3, <1>4 DEF Replans, Eligible
<1>7. Underway'
  <2>1. Grows(log, log', {})
    BY <1>1, <1>4 DEF Grows
  <2> QED
    BY <1>1, <1>2, <1>3, <1>4, <1>6, <2>1, UnderwayStep
<1>8. Placed'
  BY <1>2, <1>4 DEF Unhindered, Placed, Under, Between
<1> QED
  BY <1>4, <1>5, <1>7, <1>8 DEF Unhindered, Ended, Under, Between

LEMMA StartSmooth ==
  ASSUME Seen, [Next]_vars, Calm, Calm', Unhindered, Start
  PROVE  Unhindered'
<1>1. /\ log \in Seq(Receipts) /\ log' \in Seq(Receipts) /\ Typed /\ Ahead
  BY Afterwards
<1>2. /\ pc = "start" /\ pc \in Under \cup Between /\ pc # "broken" /\ pc \notin {"refuse", "consume"}
      /\ pc \in Prepared
  BY DEF Start, Under, Prepared
<1>3. /\ broker /\ ~sealed /\ ~Decided(log) /\ ~Terminating(log) /\ Replans /\ Live(log)
  BY <1>2, Midway
<1>4. PICK r : r = Mine("stage_dispatch_started", "none")
  OBVIOUS
<1>5. /\ r.t = "stage_dispatch_started" /\ r.who = "orchestrator" /\ r.lane = stage.lane /\ r.at = stage.at
  BY <1>4 DEF Mine, Receipt
<1>6. stage.at \in OpenAttempts(log) /\ ~Dispatched(log, stage.at) /\ log[stage.at].lane = stage.lane
  BY <1>1, <1>2 DEF Unhindered, Placed, Under, Ahead
<1>7. Allowed(log, r)
  <2>1. Authorised(r)
    BY <1>5 DEF Authorised, Rules
  <2>2. AttemptMoves(log, r)
    BY <1>5, <1>6 DEF AttemptMoves
  <2> QED
    BY <1>3, <1>5, <2>1, <2>2, Admitted
    DEF AttemptOpens, RepairNeedsDefect, ReplanFits, InjectFits, EngineDecides
<1>8. /\ pc' = "call" /\ log' = Append(log, r) /\ broker' = broker /\ sealed' = sealed
      /\ r \in Receipts /\ Grows(log, log', {r})
  <2>1. Appends(r, "call", "unsent")
    BY <1>4 DEF Start
  <2> QED
    BY <1>1, <1>3, <1>7, <2>1, Answers
<1>9. UNCHANGED supervisor /\ stage' = stage
  BY DEF Start
<1>10. Staffed'
  BY <1>2, <1>8, <1>9, StaffedStep DEF Unhindered
<1>11. Live(log')
  BY <1>1, <1>3, <1>8, SaidGrow
<1>12. Underway'
  BY <1>1, <1>2, <1>3, <1>5, <1>8, <1>11, UnderwayStep DEF Closers, Troubles, Replans
<1>13. Placed'
  <2>1. OpenAttempts(log') = OpenAttempts(log)
    BY <1>1, <1>5, <1>8, OpenSame DEF AttemptEnds
  <2> QED
    BY <1>6, <1>8, <1>9, <2>1 DEF Placed, Under, Between
<1> QED
  BY <1>8, <1>10, <1>12, <1>13 DEF Unhindered, Ended, Under, Between

LEMMA CallSmooth ==
  ASSUME Seen, [Next]_vars, Calm, Calm', Unhindered, Call
  PROVE  Unhindered'
<1>1. /\ log \in Seq(Receipts) /\ Typed
  BY Afterwards
<1>2. pc = "call" /\ pc \in Under \cup Between /\ pc # "broken" /\ pc \notin {"refuse", "consume"}
  BY DEF Call, Under
<1>3. Replans /\ Live(log)
  BY <1>2, Midway
<1>4. /\ log' = log /\ sealed' = sealed /\ broker' = broker /\ UNCHANGED supervisor
      /\ pc' \in {"complete", "sent"}
  BY DEF Call
<1>5. stage'.at = stage.at
  BY <1>1 DEF Call, Typed
<1>6. Staffed'
  BY <1>2, <1>4, StaffedStep DEF Unhindered
<1>7. Underway'
  <2>1. Grows(log, log', {})
    BY <1>1, <1>4 DEF Grows
  <2> QED
    BY <1>1, <1>2, <1>3, <1>4, <2>1, UnderwayStep DEF Replans
<1>8. Placed'
  BY <1>2, <1>4, <1>5 DEF Unhindered, Placed, Under, Between
<1> QED
  BY <1>4, <1>6, <1>7, <1>8 DEF Unhindered, Ended, Under, Between

LEMMA CompleteSmooth ==
  ASSUME Seen, [Next]_vars, Calm, Calm', Unhindered, Complete
  PROVE  Unhindered'
<1>1. /\ log \in Seq(Receipts) /\ log' \in Seq(Receipts) /\ Typed /\ Ahead /\ Single
  BY Afterwards
<1>2. /\ pc = "complete" /\ pc \in Under \cup Between /\ pc # "broken" /\ pc \notin {"refuse", "consume"}
      /\ pc \in Prepared
  BY DEF Complete, Under, Prepared
<1>3. /\ broker /\ ~sealed /\ ~Decided(log) /\ ~Terminating(log) /\ Replans /\ Live(log)
  BY <1>2, Midway
<1>4. PICK t : t = IF stage.lane \in Reviews /\ ~Approves(stage.reply)
                   THEN "stage_rejected" ELSE "stage_completed"
  OBVIOUS
<1>5. PICK r : r = Mine(t, "none")
  OBVIOUS
<1>6. /\ r.t = t /\ r.who = "orchestrator" /\ r.lane = stage.lane /\ r.at = stage.at
      /\ t \in {"stage_rejected", "stage_completed"}
      /\ t = "stage_rejected" => stage.lane \in Reviews
  BY <1>4, <1>5 DEF Mine, Receipt
<1>7. stage.at \in OpenAttempts(log) /\ Dispatched(log, stage.at) /\ log[stage.at].lane = stage.lane
  BY <1>1, <1>2 DEF Unhindered, Placed, Under, Ahead
<1>8. Allowed(log, r)
  <2>1. Authorised(r)
    BY <1>6 DEF Authorised, Rules
  <2>2. AttemptMoves(log, r)
    BY <1>6, <1>7 DEF AttemptMoves
  <2> QED
    BY <1>3, <1>6, <2>1, <2>2, Admitted
    DEF AttemptOpens, RepairNeedsDefect, ReplanFits, InjectFits, EngineDecides
<1>9. /\ pc' = "route" /\ log' = Append(log, r) /\ broker' = broker /\ sealed' = sealed
      /\ r \in Receipts /\ Grows(log, log', {r})
  <2>1. Appends(r, "route", "sent")
    BY <1>4, <1>5 DEF Complete
  <2> QED
    BY <1>1, <1>3, <1>8, <2>1, Answers
<1>10. UNCHANGED supervisor /\ stage' = stage
  BY DEF Complete
<1>11. Staffed'
  BY <1>2, <1>9, <1>10, StaffedStep DEF Unhindered
<1>12. Live(log')
  BY <1>1, <1>3, <1>9, SaidGrow
<1>13. Underway'
  BY <1>1, <1>2, <1>3, <1>6, <1>9, <1>12, UnderwayStep DEF Closers, Troubles, Replans
<1>14. Placed'
  <2>1. OpenAttempts(log') = {}
    BY <1>1, <1>2, <1>6, <1>9, EndedIs DEF AttemptEnds
  <2> QED
    BY <1>9, <2>1 DEF Placed, Under, Between
<1> QED
  BY <1>9, <1>11, <1>13, <1>14 DEF Unhindered, Ended, Under, Between

LEMMA RouteSmooth ==
  ASSUME Seen, [Next]_vars, Calm, Calm', Unhindered, Route
  PROVE  Unhindered'
<1>1. /\ log \in Seq(Receipts) /\ Typed /\ Ahead /\ Course
  BY Afterwards
<1>2. /\ pc = "route" /\ pc \in Under \cup Between /\ pc # "broken" /\ pc \notin {"refuse", "consume"}
      /\ pc \in Prepared
  BY DEF Route, Between, Prepared
<1>3. Replans /\ Live(log)
  BY <1>2, Midway
<1>4. /\ log' = log /\ sealed' = sealed /\ broker' = broker /\ UNCHANGED supervisor
  BY DEF Route
<1>5. /\ LastAttempt(log, stage.lane) = stage.at /\ stage.at # 0 /\ stage.lane \in DOMAIN Before
      /\ stage.lane \in Reviews /\ ~Approves(stage.reply) => EndOf(log, stage.at) = "stage_rejected"
  BY <1>1, <1>2, LatestIs DEF Course
<1>6. stage.lane \in Reviews /\ ~Approves(stage.reply) => Rejected(log, stage.lane)
  BY <1>5 DEF Rejected
<1>7. \/ pc' = "create" /\ stage'.lane \notin ConditionalLanes
      \/ pc' = "blocked" /\ (\E lane \in Reviews : Rejected(log, lane))
      \/ pc' = "repair" /\ Rejected(log, "g2a")
      \/ pc' \in {"approval", "escalation"}
  <2>1. CASE stage.lane = "g1d"
    BY <2>1 DEF Route, Start1, NoStage, ConditionalLanes
  <2>2. CASE stage.lane = "g1r"
    BY <1>6, <2>2 DEF Route, Start1, Stop, NoStage, ConditionalLanes, Reviews
  <2>3. CASE stage.lane = "g2a"
    <3>1. Audited
      BY <2>3 DEF Route
    <3>2. pc' \in {"approval", "escalation", "blocked", "repair"}
          /\ (pc' \in {"blocked", "repair"} => ~Approves(stage.reply))
      BY <3>1 DEF Audited, Stop
    <3> QED
      BY <1>6, <2>3, <3>2 DEF Reviews
  <2>4. CASE stage.lane \notin {"g1d", "g1r", "g2a"}
    BY <2>4 DEF Route, Start1, NoStage, ConditionalLanes
  <2> QED
    BY <2>1, <2>2, <2>3, <2>4
<1>8. Staffed'
  BY <1>2, <1>4, StaffedStep DEF Unhindered
<1>9. Underway'
  <2>1. Grows(log, log', {})
    BY <1>1, <1>4 DEF Grows
  <2> QED
    BY <1>1, <1>2, <1>3, <1>4, <1>7, <2>1, UnderwayStep DEF Replans
<1>10. Placed'
  <2>1. OpenAttempts(log) = {}
    BY <1>2 DEF Unhindered, Placed, Between
  <2> QED
    BY <1>4, <1>7, <2>1 DEF Placed, Under, Between
<1> QED
  BY <1>4, <1>7, <1>8, <1>9, <1>10 DEF Unhindered, Ended, Under, Between

LEMMA RepairSmooth ==
  ASSUME Seen, [Next]_vars, Calm, Calm', Unhindered, Repair
  PROVE  Unhindered'
<1>1. /\ log \in Seq(Receipts) /\ log' \in Seq(Receipts) /\ Typed /\ Course
  BY Afterwards
<1>2. pc = "repair" /\ pc \in Under \cup Between /\ pc # "broken" /\ pc \notin {"refuse", "consume"}
  BY DEF Repair, Between
<1>3. /\ broker /\ ~sealed /\ ~Decided(log) /\ ~Terminating(log) /\ Replans /\ Live(log)
  BY <1>2, Midway
<1>4. PICK r : r = Receipt("repair_routed", "orchestrator", stage.lane, 0, 0, "none")
  OBVIOUS
<1>5. r.t = "repair_routed" /\ r.who = "orchestrator" /\ r.lane = stage.lane
  BY <1>4 DEF Receipt
<1>6. OpenAttempts(log) = {} /\ Rejected(log, "g2a") /\ stage.lane \in ConditionalLanes
  BY <1>1, <1>2 DEF Unhindered, Placed, Between, Course
<1>7. Allowed(log, r)
  <2>1. Authorised(r)
    BY <1>5 DEF Authorised, Rules
  <2>2. RepairNeedsDefect(log, r)
    BY <1>5, <1>6 DEF RepairNeedsDefect, Rejected
  <2> QED
    BY <1>3, <1>5, <2>1, <2>2, Admitted
    DEF AttemptOpens, AttemptMoves, OfAttempt, AttemptEnds, ReplanFits, InjectFits, EngineDecides
<1>8. /\ pc' = "create" /\ log' = Append(log, r) /\ broker' = broker /\ sealed' = sealed
      /\ r \in Receipts /\ Grows(log, log', {r})
  <2>1. Appends(r, "create", "broken")
    BY <1>4 DEF Repair
  <2> QED
    BY <1>1, <1>3, <1>7, <2>1, Answers
<1>9. UNCHANGED supervisor /\ stage'.of = Len(log) + 1 /\ stage'.lane = stage.lane
  BY <1>1 DEF Repair, Typed
<1>10. Staffed'
  BY <1>2, <1>8, <1>9, StaffedStep DEF Unhindered
<1>11. Live(log')
  BY <1>1, <1>3, <1>8, SaidGrow
<1>12. Underway'
  BY <1>1, <1>2, <1>3, <1>5, <1>8, <1>11, UnderwayStep DEF Closers, Troubles, Replans
<1>13. Placed'
  <2>1. OpenAttempts(log') = {}
    BY <1>1, <1>5, <1>6, <1>8, OpenSame DEF AttemptEnds
  <2>2. Len(log) + 1 \in DOMAIN log' /\ log'[Len(log) + 1] = r
    BY <1>1, <1>8, Longer
  <2>3. stage'.of \in All(log', {"repair_routed"}) /\ log'[stage'.of].lane = stage'.lane
    BY <1>5, <1>9, <2>2 DEF All
  <2> QED
    BY <1>8, <2>1, <2>3 DEF Placed, Under, Between
<1> QED
  BY <1>8, <1>10, <1>12, <1>13 DEF Unhindered, Ended, Under, Between

LEMMA OpenActionSmooth ==
  ASSUME Seen, [Next]_vars, Calm, Calm', Unhindered, OpenAction
  PROVE  Unhindered'
<1>1. /\ log \in Seq(Receipts) /\ log' \in Seq(Receipts)
  BY Afterwards
<1>2. pc \in {"approval", "escalation"} /\ pc \in Under \cup Between /\ pc # "broken"
  BY DEF OpenAction, Between
<1>3. /\ broker /\ ~sealed /\ ~Decided(log) /\ ~Terminating(log)
      /\ \A t \in Closers \cup {"action_opened"} : All(log, {t}) = {}
  BY <1>2, Midway
<1>4. PICK r : r = Receipt("action_opened", "orchestrator", "none", 0, 0, pc)
  OBVIOUS
<1>5. r.t = "action_opened" /\ r.who = "orchestrator"
  BY <1>4 DEF Receipt
<1>6. Allowed(log, r)
  <2>1. Authorised(r)
    BY <1>5 DEF Authorised, Rules
  <2> QED
    BY <1>3, <1>5, <2>1, Admitted
    DEF AttemptOpens, AttemptMoves, OfAttempt, AttemptEnds, RepairNeedsDefect, ReplanFits, InjectFits,
        EngineDecides
<1>7. /\ pc' = "await" /\ log' = Append(log, r) /\ broker' = broker /\ sealed' = sealed
      /\ r \in Receipts /\ Grows(log, log', {r})
  <2>1. Appends(r, "await", "broken")
    BY <1>4 DEF OpenAction
  <2> QED
    BY <1>1, <1>3, <1>6, <2>1, Answers
<1>8. UNCHANGED supervisor
  BY DEF OpenAction
<1>9. Staffed'
  BY <1>2, <1>7, <1>8, StaffedStep DEF Unhindered
<1>10. Asked(log')
  <2>1. ~Decided(log')
    BY <1>1, <1>3, <1>5, <1>7, SaidGrow
  <2>2. /\ All(log', {"terminalization_started"}) = {} /\ All(log', {"command_unapplied"}) = {}
        /\ All(log', {"action_resolved"}) = {}
    BY <1>1, <1>3, <1>5, <1>7, Grown DEF Closers
  <2>3. All(log', {"action_opened"}) = {Len(log) + 1}
    <3>1. All(log, {"action_opened"}) = {}
      BY <1>3
    <3> QED
      BY <1>1, <1>5, <1>7, <3>1, AllLonger
  <2>4. OpenActions(log') = {Len(log) + 1}
    BY <2>2, <2>3 DEF OpenActions
  <2>5. OpenAttempts(log') = {}
    <3>1. OpenAttempts(log) = {}
      BY <1>2 DEF Unhindered, Placed, Between
    <3> QED
      BY <1>1, <1>5, <1>7, <3>1, OpenSame DEF AttemptEnds
  <2> QED
    BY <2>1, <2>2, <2>4, <2>5 DEF Asked, Terminating
<1>11. Ended'
  BY <1>3, <1>7, <1>10 DEF Ended
<1> QED
  BY <1>7, <1>9, <1>11 DEF Unhindered, Underway, Placed, Under, Between

LEMMA AwaitSmooth ==
  ASSUME Seen, [Next]_vars, Calm, Calm', Unhindered, Await
  PROVE  Unhindered'
<1>1. /\ log \in Seq(Receipts) /\ log' \in Seq(Receipts) /\ Ahead
  BY Afterwards
<1>2. pc = "await" /\ pc # "broken" /\ ~Waiting(log)
  BY <1>1, NotWaiting DEF Await, Final
<1>3. broker
  BY DEF Unhindered, Staffed
<1>4. PICK r : r = Receipt("run_decision", "orchestrator", "none", 0,
                           Newest(All(log, {"action_opened"})), "awaiting_approval")
  OBVIOUS
<1>5. r.t = "run_decision" /\ r.who = "orchestrator" /\ r.say = "awaiting_approval"
  BY <1>4 DEF Receipt
<1>6. Appends(r, "returned", "broken") /\ UNCHANGED supervisor
  BY <1>4 DEF Await
<1>7. CASE All(log, {"action_resolved"}) # {} /\ OpenActions(log) = {}
  <2>1. ~CanWrite(r)
    BY <1>5, <1>7 DEF CanWrite, Allowed, EngineDecides
  <2>2. log' = log /\ pc' = "broken" /\ broker' = broker
    BY <1>6, <2>1 DEF Appends, Calm
  <2>3. ResolvedEarly'
    BY <1>2, <1>7, <2>2 DEF ResolvedEarly
  <2>4. Staffed'
    BY <1>2, <1>6, <2>2, StaffedStep DEF Unhindered
  <2> QED
    BY <2>2, <2>3, <2>4 DEF Unhindered, Underway, Placed, Ended, Explained, Under, Between
<1>8. CASE ~sealed /\ Asked(log)
  <2>1. Allowed(log, r)
    <3>1. Authorised(r)
      BY <1>5 DEF Authorised, Rules
    <3>2. EngineDecides(log, r)
      BY <1>5, <1>8 DEF EngineDecides, Asked
    <3> QED
      BY <1>5, <1>8, <3>1, <3>2, Admitted
      DEF Asked, AttemptOpens, AttemptMoves, OfAttempt, AttemptEnds, RepairNeedsDefect, ReplanFits,
          InjectFits
  <2>2. /\ pc' = "returned" /\ log' = Append(log, r) /\ broker' = broker /\ sealed' = sealed
        /\ r \in Receipts /\ Grows(log, log', {r})
    BY <1>1, <1>3, <1>6, <1>8, <2>1, Answers
  <2>3. Staffed'
    BY <1>2, <1>6, <2>2, StaffedStep DEF Unhindered
  <2>4. Waiting(log')
    <3>1. Len(log) + 1 \in DOMAIN log' /\ log'[Len(log) + 1] = r
      BY <1>1, <2>2, Longer
    <3> QED
      BY <1>5, <3>1 DEF Waiting, All
  <2>5. Asked(log')
    <3>1. ~Decided(log')
      BY <1>1, <1>5, <1>8, <2>2, SaidGrow DEF Asked
    <3>2. /\ All(log', {"terminalization_started"}) = All(log, {"terminalization_started"})
          /\ All(log', {"command_unapplied"}) = All(log, {"command_unapplied"})
      BY <1>1, <1>5, <2>2, Grown
    <3>3. OpenAttempts(log') = OpenAttempts(log) /\ OpenActions(log') = OpenActions(log)
      BY <1>1, <1>5, <2>2, Untouched DEF OfAttempt, AttemptEnds
    <3> QED
      BY <1>8, <3>1, <3>2, <3>3 DEF Asked, Terminating
  <2> QED
    BY <1>8, <2>2, <2>3, <2>4, <2>5 DEF Unhindered, Underway, Placed, Ended, Under, Between
<1> QED
  BY <1>2, <1>7, <1>8 DEF Unhindered, Ended

\* The decision that the newest ends of the required lanes allow is made.
LEMMA DecisionAdmitted ==
  ASSUME log \in Seq(Receipts), LogInv(log), ~Decided(log), ~Terminating(log),
         OpenActions(log) = {}, OpenAttempts(log) = {},
         NEW d \in {"completed", "blocked", "failed"}, NEW ends, ends = LatestEnds(log, Required(log)),
         d = "completed" => Required(log) = {},
         d = "blocked" => /\ ends \cap {"stage_blocked", "stage_rejected"} # {}
                          /\ ends \cap {"stage_failed", "stage_interrupted"} = {},
         d = "failed" => ends \cap {"stage_failed", "stage_interrupted"} # {}
  PROVE  Extend(log, Terminal(log, Decision(d))).ok
<1>1. PICK r : r = Decision(d)
  OBVIOUS
<1>2. r.t = "run_decision" /\ r.who = "orchestrator" /\ r.say = d /\ r \in Receipts
  <2>1. "run_decision" \in Kinds /\ "orchestrator" \in Writers /\ "none" \in LaneNames
        /\ 0 \in Int /\ d \in Words
    BY DEF Kinds, Writers, LaneNames, Words
  <2> QED
    BY <1>1, <2>1, ReceiptIs DEF Decision
<1>3. ASSUME NEW m, Grows(log, m, {x \in Receipts : x.t \in Closing}), PendingCommands(m) = {}
      PROVE  Allowed(m, r)
  <2> DEFINE C == {x \in Receipts : x.t \in Closing}
  <2>1. \A x \in C : x.t \notin {"run_decision", "run_abandoned", "run_planned", "action_opened",
                                "action_resolved"} \cup OfAttempt
    BY DEF C, Closing, OfAttempt, AttemptEnds
  <2>2. Grows(log, m, C)
    BY <1>3
  <2> HIDE DEF C
  <2>3. /\ OpenAttempts(m) = {} /\ OpenActions(m) = {} /\ Required(m) = Required(log)
        /\ LatestEnds(m, Required(m)) = ends
    BY <2>1, <2>2, Untouched
  <2>4. ~Decided(m)
    BY <2>1, <2>2, SaidGrow
  <2>5. EngineDecides(m, r)
    BY <1>2, <1>3, <2>3 DEF EngineDecides, NothingOpen
  <2>6. Authorised(r)
    BY <1>2 DEF Authorised, Rules
  <2> QED
    BY <1>2, <2>4, <2>5, <2>6
    DEF Allowed, AttemptOpens, AttemptMoves, OfAttempt, AttemptEnds, RepairNeedsDefect, CommandOnce,
        ReplanFits, InjectFits, UnappliedFits, TerminatesOnce, ActionResolves, OperatorDecides,
        SupervisorDecides, Abandons
<1>4. Extend(log, Terminal(log, r)).ok
  BY <1>2, <1>3, TerminalAdmitted
<1> QED
  BY <1>1, <1>4

\* An end among the newest ends of the required lanes has a receipt.
LEMMA EndsAre ==
  ASSUME NEW l \in Seq(Receipts), NEW lanes, NEW t \in AttemptEnds, t \in LatestEnds(l, lanes)
  PROVE  All(l, {t}) # {}
<1>1. PICK a : EndOf(l, a) = t
  BY DEF LatestEnds
<1>2. PICK j \in All(l, AttemptEnds) : l[j].at = a /\ EndOf(l, a) = l[j].t
  BY <1>1, EndFound
<1>3. j \in All(l, {t})
  BY <1>1, <1>2 DEF All
<1> QED
  BY <1>3

\* Every decision of the engine is admitted, but for the refusals it has none for.
LEMMA DecideAdmitted ==
  ASSUME Seen, [Next]_vars, Unhindered, pc \in {"completed", "blocked", "refuse"}
  PROVE  \/ Extend(log, Terminal(log, Decision(IF pc = "refuse" THEN RefusedAs ELSE pc))).ok
         \/ BlockedLate \/ RepairBroke
<1>1. /\ log \in Seq(Receipts) /\ LogInv(log) /\ Course
  BY Afterwards
<1>2. pc \in Under \cup Between
  BY DEF Between
<1>3. /\ ~Decided(log) /\ ~Terminating(log) /\ OpenActions(log) = {}
      /\ All(log, {"stage_interrupted"}) = {}
      /\ pc # "refuse" => All(log, Troubles) = {}
      /\ pc # "completed" => Live(log)
  BY <1>2, Midway DEF Closers
<1>4. OpenAttempts(log) = {}
  BY DEF Unhindered, Placed, Between
<1>5. PICK ends : ends = LatestEnds(log, Required(log))
  OBVIOUS
<1>6. /\ "stage_interrupted" \notin ends
      /\ All(log, {"stage_failed"}) = {} => "stage_failed" \notin ends
  BY <1>1, <1>3, <1>5, EndsAre DEF AttemptEnds
<1>7. PICK d : d = IF pc = "refuse" THEN RefusedAs ELSE pc
  OBVIOUS
<1>8. ASSUME d \in {"completed", "blocked", "failed"},
             d = "completed" => Required(log) = {},
             d = "blocked" => /\ ends \cap {"stage_blocked", "stage_rejected"} # {}
                              /\ ends \cap {"stage_failed", "stage_interrupted"} = {},
             d = "failed" => ends \cap {"stage_failed", "stage_interrupted"} # {}
      PROVE  Extend(log, Terminal(log, Decision(d))).ok
  BY <1>1, <1>3, <1>4, <1>5, <1>8, DecisionAdmitted
<1>9. CASE pc = "completed"
  <2>1. Required(log) = {}
    BY <1>1, <1>9 DEF Course, Required
  <2> QED
    BY <1>7, <1>8, <1>9, <2>1
<1>10. CASE pc = "blocked"
  <2>1. PICK lane \in Reviews : Rejected(log, lane)
    BY <1>10 DEF Unhindered, Placed
  <2>2. "stage_rejected" \in ends
    <3>1. lane \in Required(log)
      BY <1>3, <1>10 DEF Required, Reviews, CoreLanes
    <3> QED
      BY <1>5, <2>1, <3>1 DEF LatestEnds, Rejected
  <2>3. All(log, {"stage_failed"}) = {}
    BY <1>3, <1>10 DEF Troubles, All
  <2> QED
    BY <1>6, <1>7, <1>8, <1>10, <2>2, <2>3
<1>11. CASE pc = "refuse"
  <2>1. PICK e \in All(log, Troubles) :
          /\ All(log, Troubles) = {e} /\ log[e].at = stage.at /\ log[e].lane = stage.lane
          /\ stage.lane \in CoreLanes \cup ConditionalLanes
          /\ LastAttempt(log, stage.lane) = stage.at /\ stage.at # 0
    BY <1>11 DEF Unhindered, Placed, Stopped
  <2>2. CASE stage.lane \in ConditionalLanes
    BY <2>1, <2>2 DEF RepairBroke, Troubles, All
  <2>3. CASE stage.lane \in CoreLanes
    <3>1. EndOf(log, stage.at) = log[e].t
      <4>1. e \in All(log, AttemptEnds)
        BY <2>1 DEF All, Troubles, AttemptEnds
      <4>2. \A j \in All(log, AttemptEnds) : log[j].at = log[e].at => j = e
        BY <1>1, <4>1 DEF LogInv
      <4>3. EndOf(log, log[e].at) = log[e].t
        BY <1>1, <4>1, <4>2, EndIs
      <4> QED
        BY <2>1, <4>3
    <3>2. log[e].t \in ends
      <4>1. stage.lane \in Required(log)
        BY <1>3, <1>11, <2>3 DEF Required
      <4> QED
        BY <1>5, <2>1, <3>1, <4>1 DEF LatestEnds
    <3>3. CASE log[e].t = "stage_failed"
      <4>1. d = "failed"
        BY <1>7, <1>11, <3>3 DEF RefusedAs, All
      <4> QED
        BY <1>7, <1>8, <3>2, <3>3, <4>1
    <3>4. CASE log[e].t = "stage_blocked"
      <4>1. CASE All(log, {"stage_dispatch_started"}) # {}
        BY <3>4, <4>1 DEF BlockedLate, All
      <4>2. CASE All(log, {"stage_dispatch_started"}) = {}
        <5>1. All(log, {"stage_failed"}) = {}
          BY <2>1, <3>4 DEF All, Troubles
        <5>2. All(log, {"stage_dispatch_started", "stage_failed"}) = {}
          BY <4>2, <5>1 DEF All
        <5>3. d = "blocked"
          BY <1>7, <1>11, <5>2 DEF RefusedAs
        <5> QED
          BY <1>6, <1>7, <1>8, <3>2, <3>4, <5>1, <5>3
      <4> QED
        BY <4>1, <4>2
    <3> QED
      BY <3>3, <3>4 DEF All, Troubles
  <2> QED
    BY <2>1, <2>2, <2>3
<1> QED
  BY <1>9, <1>10, <1>11

\* What explains a run that is not decided stays so.
LEMMA ExplainedStays ==
  ASSUME log \in Seq(Receipts), NEW R, Grows(log, log', R)
  PROVE  BlockedLate \/ RepairBroke => BlockedLate' \/ RepairBroke'
<1>1. /\ All(log, {"stage_blocked"}) \subseteq All(log', {"stage_blocked"})
      /\ All(log, {"stage_dispatch_started"}) \subseteq All(log', {"stage_dispatch_started"})
  BY Grown
<1>2. /\ All(log, {"stage_failed", "stage_blocked"}) \subseteq All(log', {"stage_failed", "stage_blocked"})
      /\ \A i \in All(log, {"stage_failed", "stage_blocked"}) : log'[i] = log[i]
  BY Grown
<1> QED
  BY <1>1, <1>2 DEF BlockedLate, RepairBroke

LEMMA DecideSmooth ==
  ASSUME Seen, [Next]_vars, Calm, Calm', Unhindered, Decide
  PROVE  Unhindered'
<1>1. /\ log \in Seq(Receipts) /\ LogInv(log)
  BY Afterwards
<1>2. pc \in {"completed", "blocked", "refuse"} /\ pc \in Under \cup Between /\ pc # "broken"
  BY DEF Decide, Between
<1>3. broker /\ ~sealed
  BY <1>2, Midway
<1>4. PICK r : r = Decision(IF pc = "refuse" THEN RefusedAs ELSE pc)
  OBVIOUS
<1>5. r \in Receipts /\ r.t = "run_decision" /\ r.say # "awaiting_approval"
  <2>1. r \in Receipts /\ r.t = "run_decision"
    BY <1>2, <1>4, DecisionIs
  <2> QED
    BY <1>2, <1>4, <2>1 DEF Decision, Receipt, RefusedAs
<1>6. PICK rs : rs = Terminal(log, r)
  OBVIOUS
<1>7. AppendsAll(rs, "seal", "broken") /\ UNCHANGED supervisor
  BY <1>4, <1>6 DEF Decide
<1>8. /\ sealed' = sealed /\ broker' = broker /\ log' = Extend(log, rs).log
      /\ pc' = IF Extend(log, rs).ok THEN "seal" ELSE "broken"
  <2>1. PICK x : x = Extend(log, rs)
    OBVIOUS
  <2>2. faults = 0 /\ faults' = 0
    BY DEF Calm
  <2>3. /\ sealed' = sealed
        /\ \/ /\ \E all \in {Extend(log, rs)} :
                  /\ log' = IF broker /\ ~sealed THEN all.log ELSE log
                  /\ pc' = IF (broker /\ ~sealed) /\ all.ok THEN "seal" ELSE "broken"
              /\ broker' = broker
           \/ faults' = faults + 1
    BY <1>7 DEF AppendsAll
  <2>4. \E all \in {x} :
          /\ log' = IF broker /\ ~sealed THEN all.log ELSE log
          /\ pc' = IF (broker /\ ~sealed) /\ all.ok THEN "seal" ELSE "broken"
    BY <2>1, <2>2, <2>3
  <2>5. /\ sealed' = sealed /\ broker' = broker /\ log' = x.log
        /\ pc' = IF x.ok THEN "seal" ELSE "broken"
    BY <1>3, <2>2, <2>3, <2>4
  <2> QED
    BY <2>1, <2>5
<1>9. Staffed'
  BY <1>2, <1>7, <1>8, StaffedStep DEF Unhindered
<1>10. CASE Extend(log, rs).ok
  <2>1. Decided(log')
    BY <1>1, <1>5, <1>6, <1>8, <1>10, AcceptedDecides
  <2> QED
    BY <1>8, <1>9, <1>10, <2>1 DEF Unhindered, Underway, Placed, Ended, Under, Between
<1>11. CASE ~Extend(log, rs).ok
  <2>1. BlockedLate \/ RepairBroke
    BY <1>2, <1>4, <1>6, <1>11, DecideAdmitted
  <2>2. \E R : Grows(log, log', R)
    <3>1. \E R : LogStep(R)
      BY DecideWrites DEF Seen
    <3> QED
      BY <3>1 DEF LogStep
  <2>3. BlockedLate' \/ RepairBroke'
    BY <1>1, <2>1, <2>2, ExplainedStays
  <2> QED
    BY <1>8, <1>9, <1>11, <2>3 DEF Unhindered, Underway, Placed, Ended, Explained, Under, Between
<1> QED
  BY <1>10, <1>11

LEMMA SealSmooth ==
  ASSUME Seen, [Next]_vars, Calm, Calm', Unhindered, Seal \/ SealFails
  PROVE  Unhindered'
<1>1. /\ LogInv(log) /\ Traced(log)
  BY Afterwards
<1>2. pc = "seal" /\ broker /\ Decided(log)
  BY DEF Seal, SealFails, Unhindered, Staffed, Ended
<1>3. Sealable(log)
  BY <1>1, <1>2 DEF Sealable, LogInv, Traced
<1>4. Seal
  BY <1>2, <1>3 DEF SealFails
<1>5. /\ sealed' /\ pc' = "returned" /\ log' = log /\ broker' = broker /\ UNCHANGED supervisor
  BY <1>4 DEF Seal
<1>6. Staffed'
  BY <1>2, <1>5, StaffedStep DEF Unhindered
<1>7. Decided(log')
  BY <1>2, <1>5
<1> QED
  BY <1>5, <1>6, <1>7 DEF Unhindered, Underway, Placed, Ended, Under, Between

LEMMA EngineSmooth ==
  ASSUME Seen, [Next]_vars, Calm, Calm', Unhindered, Engine
  PROVE  Unhindered'
BY AttestSmooth, PlanSmooth, CreateSmooth, PreflightSmooth, BlockSmooth, ConsumeSmooth, ReserveSmooth,
   StartSmooth, CallSmooth, CompleteSmooth, FailSmooth, RouteSmooth, RepairSmooth, OpenActionSmooth,
   AwaitSmooth, DecideSmooth, SealSmooth DEF Engine

\* A command that arrives changes nothing of this.
LEMMA CommandSmooth ==
  ASSUME log \in Seq(Receipts), Unhindered, NEW R, Grows(log, log', R),
         \A x \in R : x.t \in {"command_accepted", "command_rejected"},
         UNCHANGED <<pc, stage, sealed, broker, sup, watch>>
  PROVE  Unhindered'
<1>1. /\ Attempts(log') = Attempts(log)
      /\ \A lane : LastAttempt(log', lane) = LastAttempt(log, lane)
      /\ \A a : EndOf(log', a) = EndOf(log, a)
      /\ \A a : Dispatched(log', a) <=> Dispatched(log, a)
      /\ OpenAttempts(log') = OpenAttempts(log) /\ OpenActions(log') = OpenActions(log)
      /\ (Live(log') <=> Live(log)) /\ (Cataloged(log') <=> Cataloged(log))
  BY Untouched DEF OfAttempt, AttemptEnds
<1>2. (Decided(log') <=> Decided(log)) /\ (Waiting(log') <=> Waiting(log))
  BY SaidGrow
<1>3. ASSUME NEW ts, ts \cap {"command_accepted", "command_rejected"} = {}
      PROVE  All(log', ts) = All(log, ts) /\ \A i \in All(log, ts) : log'[i] = log[i]
  BY <1>3, Grown
<1>4. /\ All(log', Troubles) = All(log, Troubles) /\ \A i \in All(log, Troubles) : log'[i] = log[i]
      /\ All(log', {"repair_routed"}) = All(log, {"repair_routed"})
      /\ \A i \in All(log, {"repair_routed"}) : log'[i] = log[i]
      /\ All(log', {"action_resolved"}) = All(log, {"action_resolved"})
      /\ All(log', {"terminalization_started"}) = All(log, {"terminalization_started"})
      /\ All(log', {"command_unapplied"}) = All(log, {"command_unapplied"})
  BY <1>3 DEF Troubles
<1>5. \A lane : Rejected(log, lane) => Rejected(log', lane)
  BY <1>1 DEF Rejected
<1>6. Stopped => Stopped'
  BY <1>1, <1>4 DEF Stopped
<1>7. Staffed'
  BY DEF Unhindered, Staffed
<1>8. Placed'
  <2>1. /\ pc \in {"attest", "plan"} => ~Cataloged(log')
        /\ pc \in Under => stage.at \in OpenAttempts(log')
        /\ pc \in Between => OpenAttempts(log') = {}
        /\ pc \in {"preflight", "block", "consume", "start"} => ~Dispatched(log', stage.at)
    BY <1>1 DEF Unhindered, Placed
  <2>2. /\ pc = "repair" => Rejected(log', "g2a")
        /\ pc = "blocked" => \E lane \in Reviews : Rejected(log', lane)
    BY <1>5 DEF Unhindered, Placed
  <2>3. pc = "create" /\ stage.lane \in ConditionalLanes =>
          stage.of \in All(log', {"repair_routed"}) /\ log'[stage.of].lane = stage.lane
    BY <1>4 DEF Unhindered, Placed
  <2>4. pc = "refuse" => Stopped'
    BY <1>6 DEF Unhindered, Placed
  <2> QED
    BY <2>1, <2>2, <2>3, <2>4 DEF Placed
<1>9. Ended'
  <2>1. Asked(log) => Asked(log')
    BY <1>1, <1>2, <1>4 DEF Asked, Terminating
  <2>2. Explained => Explained'
    <3>1. BlockedLate \/ RepairBroke => BlockedLate' \/ RepairBroke'
      BY ExplainedStays
    <3>2. ResolvedEarly => ResolvedEarly'
      BY <1>2, <1>4 DEF ResolvedEarly
    <3> QED
      BY <1>2, <3>1, <3>2 DEF Explained
  <2> QED
    BY <1>1, <1>2, <1>4, <2>1, <2>2 DEF Unhindered, Ended
<1>10. CASE pc \in Under \cup Between
  <2>1. Replans /\ (pc \notin {"attest", "plan", "completed"} => Live(log))
    BY <1>10, Midway
  <2>2. \A j \in All(log, {"run_replanned"}) :
          log[j].of \in PendingCommands(log) => pc' = "consume" /\ stage'.at = stage.at
    BY <2>1 DEF Replans
  <2>3. pc' \in {"attest", "plan", "completed"} \/ Live(log')
    BY <1>1, <2>1
  <2>4. Underway'
    BY <1>10, <2>2, <2>3, UnderwayStep DEF Closers, Troubles
  <2> QED
    BY <1>7, <1>8, <1>9, <2>4 DEF Unhindered
<1>11. CASE pc \notin Under \cup Between
  <2>1. Underway'
    BY <1>11 DEF Underway
  <2> QED
    BY <1>7, <1>8, <1>9, <2>1 DEF Unhindered
<1> QED
  BY <1>10, <1>11

\* What one receipt that may follow makes of the log, or none.
LEMMA OneOrNone ==
  ASSUME log \in Seq(Receipts), log' \in Seq(Receipts), NEW r, NEW R, r \in R,
         log' = log \/ log' = Append(log, r)
  PROVE  Grows(log, log', R)
<1>1. CASE log' = log
  BY <1>1 DEF Grows
<1>2. CASE log' = Append(log, r)
  <2>1. r \in Receipts
    <3>1. log \in Seq(Receipts \cup {r})
      BY LenProperties
    <3>2. Len(log) + 1 \in 1..Len(log') /\ log'[Len(log) + 1] = r
      BY <1>2, <3>1, AppendProperties, LenProperties
    <3> QED
      BY <3>2, ElementOfSeq
  <2>2. Grows(log, log', {r})
    BY <1>2, <2>1, OneGrows
  <2> QED
    BY <2>2 DEF Grows
<1> QED
  BY <1>1, <1>2

LEMMA SubmitSmooth ==
  ASSUME Seen, [Next]_vars, Calm, Calm', Unhindered,
         NEW c \in Cmds, NEW lane \in Targets, NEW valid \in BOOLEAN, Submit(c, lane, valid)
  PROVE  Unhindered'
<1>1. /\ log \in Seq(Receipts) /\ log' \in Seq(Receipts)
  BY Afterwards
<1>2. PICK r : r = Receipt("command_rejected", "operator_gateway", lane, 0, 0, c)
  OBVIOUS
<1>3. r.t = "command_rejected"
  BY <1>2 DEF Receipt
<1>4. log' = log \/ log' = Append(log, r)
  BY <1>2 DEF Submit
<1>5. UNCHANGED <<pc, stage, sealed, broker, sup, watch>>
  BY DEF Submit, engine, supervisor
<1>6. Grows(log, log', {r})
  BY <1>1, <1>4, OneOrNone
<1> QED
  BY <1>1, <1>3, <1>5, <1>6, CommandSmooth

LEMMA AcceptSmooth ==
  ASSUME Seen, [Next]_vars, Calm, Calm', Unhindered, Accept
  PROVE  Unhindered'
<1>1. /\ log \in Seq(Receipts) /\ log' \in Seq(Receipts)
  BY Afterwards
<1>2. PICK r : r = Receipt("command_accepted", "operator_gateway", gate.lane, 0, 0, gate.cmd)
  OBVIOUS
<1>3. r.t = "command_accepted"
  BY <1>2 DEF Receipt
<1>4. (log' = log \/ log' = Append(log, r)) /\ broker' = broker
  <2>1. faults = 0 /\ faults' = 0
    BY DEF Calm
  <2> QED
    BY <1>2, <2>1 DEF Accept
<1>5. UNCHANGED <<pc, stage, sealed, broker, sup, watch>>
  BY <1>4 DEF Accept, engine, supervisor
<1>6. Grows(log, log', {r})
  BY <1>1, <1>4, OneOrNone
<1> QED
  BY <1>1, <1>3, <1>5, <1>6, CommandSmooth

\* Explained it stays when a receipt that closes the run is appended.
LEMMA ExplainedClosing ==
  ASSUME log \in Seq(Receipts), NEW R, Grows(log, log', R), ~sealed, Explained,
         \A x \in R : x.t = "run_decision" => x.say # "awaiting_approval"
  PROVE  Explained'
<1>1. BlockedLate \/ RepairBroke => BlockedLate' \/ RepairBroke'
  BY ExplainedStays
<1>2. ResolvedEarly => ResolvedEarly'
  <2>1. Waiting(log') <=> Waiting(log)
    BY SaidGrow
  <2>2. All(log, {"action_resolved"}) \subseteq All(log', {"action_resolved"})
    BY Grown
  <2> QED
    BY <2>1, <2>2 DEF ResolvedEarly
<1> QED
  BY <1>1, <1>2 DEF Explained

LEMMA ResolveSmooth ==
  ASSUME Seen, [Next]_vars, Calm, Calm', Unhindered,
         NEW resolution \in DOMAIN OutcomeMap, Resolve(resolution)
  PROVE  Unhindered'
<1>1. /\ log \in Seq(Receipts) /\ LogInv(log) /\ log' \in Seq(Receipts) /\ LogInv(log') /\ Traced(log')
  BY Afterwards
<1>2. PICK rs : rs = Resolving(resolution)
  OBVIOUS
<1>3. /\ broker /\ ~sealed /\ Newest(OpenActions(log)) # 0
      /\ UNCHANGED <<engine, supervisor, broker>>
      /\ log' = Extend(log, rs).log
      /\ sealed' = (Extend(log, rs).ok /\ Sealable(Extend(log, rs).log))
  <2>1. faults = 0 /\ faults' = 0
    BY DEF Calm
  <2> QED
    BY <1>2, <2>1 DEF Resolve, Resolving, Resolution, Verdict
<1>4. pc' = pc /\ stage' = stage
  BY <1>3 DEF engine
<1>5. OpenActions(log) # {}
  BY <1>3 DEF Newest
<1>6. PICK R : /\ LogStep(R)
               /\ \A x \in R : \/ x.t \in Closing \cup {"action_resolved"}
                              \/ /\ x.t = "run_decision" /\ x.who = "operator_gateway"
                                 /\ x.say \in {"completed", "blocked"}
  BY ResolveWrites DEF Seen
<1>7. /\ Grows(log, log', R) /\ \A x \in R : x.t = "run_decision" => x.say # "awaiting_approval"
      /\ \A x \in R : x.t # "action_opened"
  BY <1>6 DEF LogStep, Closing
<1>8. Staffed'
  BY <1>3, <1>4 DEF Unhindered, Staffed, supervisor
<1>9. pc \notin Under \cup Between
  BY <1>5, Midway
<1>10. Underway' /\ Placed'
  BY <1>4, <1>9 DEF Underway, Placed, Under, Between
<1>11. CASE pc = "await"
  <2>1. Asked(log)
    BY <1>5, <1>11 DEF Unhindered, Ended
  <2>2. PICK a \in Receipts : a = Resolution(resolution)
    BY <1>1, ResolutionIs
  <2>3. a.t = "action_resolved" /\ a.of = Newest(OpenActions(log))
    BY <1>1, <2>2, ResolutionIs
  <2>4. Allowed(log, a) /\ OpenActions(log) = {a.of}
    BY <1>1, <2>1, <2>2, <2>3, ResolutionAllowed DEF Asked
  <2>5. rs \in Seq(Receipts) /\ Len(rs) # 0 /\ rs[1] = a
    <3>1. PICK ts : ts = Terminal(Append(log, a), Verdict(resolution))
      OBVIOUS
    <3>2. ts \in Seq(Receipts)
      <4>1. Append(log, a) \in Seq(Receipts) /\ Verdict(resolution) \in Receipts
        BY <1>1, Longer, ResolutionIs
      <4> QED
        BY <3>1, <4>1, TerminalIs
    <3>3. rs = <<a>> \o ts
      BY <1>2, <2>2, <3>1 DEF Resolving
    <3>4. <<a>> \in Seq(Receipts) /\ Len(<<a>>) = 1 /\ <<a>>[1] = a
      BY SeqOne
    <3> QED
      BY <3>2, <3>3, <3>4, ConcatProperties, LenProperties
  <2>6. Len(log) + 1 \in DOMAIN log' /\ log'[Len(log) + 1] = a
    BY <1>1, <1>3, <2>4, <2>5, FirstAdmitted
  <2>7. Len(log) + 1 \in All(log', {"action_resolved"})
    BY <2>3, <2>6 DEF All
  <2>8. OpenActions(log') = {}
    <3>1. All(log', {"action_opened"}) = All(log, {"action_opened"})
      BY <1>1, <1>7, Grown
    <3>2. All(log, {"action_resolved"}) \subseteq All(log', {"action_resolved"})
          /\ \A i \in All(log, {"action_resolved"}) : log'[i] = log[i]
      BY <1>1, <1>7, Grown
    <3>3. OpenActions(log') \subseteq OpenActions(log) \ {a.of}
      BY <2>6, <2>7, <3>1, <3>2 DEF OpenActions
    <3> QED
      BY <2>4, <3>3
  <2>9. Ended'
    BY <1>4, <1>11, <2>7, <2>8 DEF Ended
  <2> QED
    BY <1>4, <1>8, <1>10, <1>11, <2>9 DEF Unhindered
<1>12. CASE pc = "seal"
  <2>1. Decided(log')
    BY <1>1, <1>7, <1>12, SaidGrow DEF Unhindered, Ended
  <2> QED
    BY <1>4, <1>8, <1>10, <1>12, <2>1 DEF Unhindered, Ended
<1>13. CASE pc = "returned"
  <2>1. Waiting(log) /\ Asked(log)
    BY <1>3, <1>13 DEF Unhindered, Ended
  <2>2. Extend(log, rs).ok /\ Decided(log')
    BY <1>1, <1>2, <1>3, <2>1, ResolveAdmitted
  <2>3. Sealable(log')
    BY <1>1, <2>2 DEF Sealable, LogInv, Traced
  <2>4. sealed'
    BY <1>3, <2>2, <2>3
  <2> QED
    BY <1>4, <1>8, <1>10, <1>13, <2>2, <2>4 DEF Unhindered, Ended
<1>14. CASE pc = "broken"
  <2>1. Explained'
    BY <1>1, <1>3, <1>7, <1>14, ExplainedClosing DEF Unhindered, Ended
  <2> QED
    BY <1>4, <1>8, <1>10, <1>14, <2>1 DEF Unhindered, Ended
<1> QED
  BY <1>9, <1>11, <1>12, <1>13, <1>14 DEF Unhindered

\* The supervisor acts on a run that is broken, and leaves it explained.
LEMMA BrokenSmooth ==
  ASSUME log \in Seq(Receipts), Unhindered, pc = "broken", pc' = pc, broker' = broker, watch' = watch,
         \/ log' = log /\ sealed' = sealed
         \/ /\ ~sealed
            /\ \E R : Grows(log, log', R) /\ \A x \in R : x.t = "run_decision" => x.say # "awaiting_approval"
  PROVE  Unhindered'
<1>1. Explained'
  <2>1. CASE log' = log /\ sealed' = sealed
    <3>1. Explained
      BY DEF Unhindered, Ended
    <3> QED
      BY <2>1, <3>1 DEF Explained, BlockedLate, RepairBroke, ResolvedEarly
  <2>2. CASE ~(log' = log /\ sealed' = sealed)
    BY <2>2, ExplainedClosing DEF Unhindered, Ended
  <2> QED
    BY <2>1, <2>2
<1> QED
  BY <1>1 DEF Unhindered, Staffed, Underway, Placed, Ended, Under, Between

LEMMA SupervisorSmooth ==
  ASSUME Seen, [Next]_vars, Calm, Calm', Unhindered, Supervisor
  PROVE  Unhindered'
<1>1. /\ log \in Seq(Receipts) /\ LogInv(log) /\ Typed
  BY Afterwards
<1>2. faults = 0 /\ faults' = 0
  BY DEF Calm
<1>3. broker /\ watch = "idle" /\ pc # "dead" /\ (pc # "broken" => sup.life = "running" /\ sup.worker)
  BY DEF Unhindered, Staffed, Under, Between
<1>4. ~WorkerDies /\ ~BrokerDies
  BY <1>2 DEF WorkerDies, BrokerDies
<1>5. /\ ~BrokerStarts /\ ~Interrupt /\ ~InterruptDecides /\ ~InterruptSeals /\ ~InterruptEnds
      /\ ~SupervisorDies
  BY <1>3 DEF BrokerStarts, Interrupt, InterruptDecides, InterruptSeals, InterruptEnds, SupervisorDies
<1>6. CASE MarkOrphaned
  BY <1>1, <1>3, <1>6, BrokenSmooth DEF MarkOrphaned, engine
<1>7. CASE ReconcileWorkflow
  BY <1>1, <1>3, <1>7, BrokenSmooth DEF ReconcileWorkflow, engine
<1>8. CASE Confirm
  <2>1. pc = "broken"
    BY <1>3, <1>8 DEF Confirm
  <2> QED
    BY <1>1, <1>8, <2>1, BrokenSmooth DEF Confirm, engine
<1>9. CASE Abandon
  <2>1. pc = "broken" /\ ~sealed
    BY <1>3, <1>9 DEF Abandon, Guarded
  <2>2. pc' = pc /\ broker' = broker /\ watch' = watch
    BY <1>2, <1>9 DEF Abandon, engine
  <2>3. PICK r : r = Abandonment
    OBVIOUS
  <2>4. r \in Receipts /\ r.t = "run_abandoned"
    BY <1>1, <2>3, AbandonmentIs DEF Typed
  <2>5. log' = Extend(log, Terminal(log, r)).log
    BY <1>2, <1>9, <2>3 DEF Abandon, Abandonment
  <2>6. LogStep({x \in Receipts : x.t \in Closing \/ x = r})
    BY <1>1, <2>1, <2>4, <2>5, TerminalWrites
  <2>7. \E R : Grows(log, log', R) /\ \A x \in R : x.t = "run_decision" => x.say # "awaiting_approval"
    <3>1. \A x \in {x \in Receipts : x.t \in Closing \/ x = r} :
            x.t = "run_decision" => x.say # "awaiting_approval"
      BY <2>4 DEF Closing
    <3> QED
      BY <2>6, <3>1 DEF LogStep
  <2> QED
    BY <1>1, <2>1, <2>2, <2>7, BrokenSmooth
<1> QED
  BY <1>4, <1>5, <1>6, <1>7, <1>8, <1>9 DEF Supervisor

\* A step is one failure, or none.
LEMMA FaultsGrow ==
  ASSUME [Next]_vars
  PROVE  faults' = faults \/ faults' = faults + 1
<1>1. CASE Engine
  <2>1. ASSUME NEW r, NEW ok, NEW bad, Appends(r, ok, bad) PROVE faults' = faults \/ faults' = faults + 1
    BY <2>1 DEF Appends
  <2>2. ASSUME NEW rs, NEW ok, NEW bad, AppendsAll(rs, ok, bad)
        PROVE  faults' = faults \/ faults' = faults + 1
    BY <2>2 DEF AppendsAll
  <2>3. CASE Attest \/ Plan \/ Create \/ Preflight \/ Block \/ Consume \/ Reserve
    BY <2>1, <2>3 DEF Attest, Plan, Create, Preflight, Block, Consume, Reserve
  <2>4. CASE Start \/ Call \/ Complete \/ Fail \/ Route \/ Repair \/ OpenAction
    BY <2>1, <2>4 DEF Start, Call, Complete, Fail, Route, Repair, OpenAction
  <2>5. CASE Await \/ Decide \/ Seal \/ SealFails
    BY <2>1, <2>2, <2>5 DEF Await, Decide, Seal, SealFails
  <2> QED
    BY <1>1, <2>3, <2>4, <2>5 DEF Engine
<1>2. CASE Operator
  <2>1. ASSUME NEW c \in Cmds, NEW lane \in Targets, NEW valid \in BOOLEAN, Submit(c, lane, valid)
        PROVE  faults' = faults
    BY <2>1 DEF Submit
  <2>2. ASSUME Accept PROVE faults' = faults \/ faults' = faults + 1
    BY <2>2 DEF Accept
  <2>3. ASSUME NEW resolution \in DOMAIN OutcomeMap, Resolve(resolution)
        PROVE  faults' = faults \/ faults' = faults + 1
    BY <2>3 DEF Resolve
  <2> QED
    BY <1>2, <2>1, <2>2, <2>3 DEF Operator
<1>3. CASE Supervisor
  <2>1. CASE WorkerDies \/ BrokerDies \/ BrokerStarts \/ MarkOrphaned \/ Interrupt
    BY <2>1 DEF WorkerDies, BrokerDies, BrokerStarts, MarkOrphaned, Interrupt
  <2>2. CASE InterruptDecides \/ InterruptSeals \/ InterruptEnds \/ SupervisorDies
    BY <2>2 DEF InterruptDecides, InterruptSeals, InterruptEnds, SupervisorDies
  <2>3. CASE Confirm \/ Abandon \/ ReconcileWorkflow
    BY <2>3 DEF Confirm, Abandon, ReconcileWorkflow
  <2> QED
    BY <1>3, <2>1, <2>2, <2>3 DEF Supervisor
<1>4. CASE UNCHANGED vars
  BY <1>4 DEF vars
<1> QED
  BY <1>1, <1>2, <1>3, <1>4 DEF Next

\* What is calm was calm: failures are counted, and no receipt is taken back.
LEMMA CalmBefore ==
  ASSUME IInv, faults \in Nat, [Next]_vars
  PROVE  faults' \in Nat /\ (Calm' => Calm)
<1>1. faults' \in Nat /\ (faults' = 0 => faults = 0)
  BY FaultsGrow
<1>2. Len(log') \in Nat /\ Len(log) \in Nat /\ Len(log) <= Len(log')
  <2>1. log \in Seq(Receipts) /\ log' \in Seq(Receipts)
    BY StepWrites DEF IInv, Typed
  <2>2. Len(log) \in Nat /\ Len(log') \in Nat
    BY <2>1, LenProperties
  <2>3. CASE log' = log
    BY <2>2, <2>3
  <2>4. ASSUME NEW r \in Receipts, Writes(r) PROVE Len(log) <= Len(log')
    <3>1. log' = Append(log, r)
      BY <2>4 DEF Writes
    <3> QED
      BY <2>1, <2>2, <3>1, AppendProperties
  <2>5. ASSUME NEW R, Closes(R) PROVE Len(log) <= Len(log')
    BY <2>5 DEF Closes, LogStep, Grows
  <2> QED
    BY <2>2, <2>3, <2>4, <2>5, StepWrites
<1>3. MaxReceipts \in Nat
  BY RunAssumption
<1>4. Len(log') < MaxReceipts => Len(log) < MaxReceipts
  BY <1>2, <1>3
<1> QED
  BY <1>1, <1>4 DEF Calm

LEMMA SmoothStep ==
  ASSUME Seen, faults \in Nat, Calm => Unhindered, [Next]_vars
  PROVE  Calm' => Unhindered'
<1> SUFFICES ASSUME Calm' PROVE Unhindered'
  OBVIOUS
<1>1. Calm /\ Unhindered
  BY CalmBefore DEF Seen
<1>2. CASE Engine
  BY <1>1, <1>2, EngineSmooth
<1>3. CASE Operator
  BY <1>1, <1>3, SubmitSmooth, AcceptSmooth, ResolveSmooth DEF Operator
<1>4. CASE Supervisor
  BY <1>1, <1>4, SupervisorSmooth
<1>5. CASE UNCHANGED vars
  <2>1. UNCHANGED <<log, sealed, broker, pc, stage, sup, watch>>
    BY <1>5 DEF vars, engine, supervisor
  <2>2. Staffed' /\ Underway'
    BY <1>1, <2>1 DEF Unhindered, Staffed, Underway, Replans
  <2>3. Placed'
    BY <1>1, <2>1 DEF Unhindered, Placed, Stopped
  <2>4. Ended'
    BY <1>1, <2>1 DEF Unhindered, Ended, Explained, BlockedLate, RepairBroke, ResolvedEarly, Asked
  <2> QED
    BY <1>1, <2>1, <2>2, <2>3, <2>4 DEF Unhindered
<1> QED
  BY <1>2, <1>3, <1>4, <1>5 DEF Next

LEMMA SmoothInit ==
  ASSUME Init
  PROVE  faults \in Nat /\ Unhindered
<1>1. /\ log = <<>> /\ ~sealed /\ broker /\ pc = "attest" /\ sup.life = "running" /\ sup.worker
      /\ watch = "idle" /\ faults = 0
  BY DEF Init
<1>2. \A ts : All(log, ts) = {}
  BY <1>1 DEF All
<1>3. ~Cataloged(log) /\ OpenAttempts(log) = {}
  BY <1>2 DEF Cataloged, OpenAttempts, Attempts
<1>4. Staffed
  BY <1>1 DEF Staffed
<1>5. Underway
  BY <1>1, <1>2 DEF Underway, Replans
<1>6. Placed
  BY <1>1, <1>3 DEF Placed, Under
<1>7. Ended
  BY <1>1 DEF Ended
<1> QED
  BY <1>1, <1>4, <1>5, <1>6, <1>7 DEF Unhindered, Between

LEMMA SmoothExplains ==
  ASSUME Calm => Unhindered, Len(log) < MaxReceipts
  PROVE  UndecidedExplained
<1> SUFFICES ASSUME pc \in {"returned", "broken"}, faults = 0
             PROVE  \/ Decided(log) /\ sealed
                    \/ Waiting(log) /\ OpenActions(log) # {}
                    \/ BlockedLate \/ RepairBroke \/ ResolvedEarly
  BY DEF UndecidedExplained
<1>1. Ended
  BY DEF Calm, Unhindered
<1>2. CASE pc = "returned"
  BY <1>1, <1>2 DEF Ended, Asked
<1>3. CASE pc = "broken"
  BY <1>1, <1>3 DEF Ended, Explained
<1> QED
  BY <1>2, <1>3

\* When the engine is done and nothing failed, the run is decided and sealed or
\* waits on an operator, except where the contract has no decision for what
\* happened; for as long as the log has room, which bounds the model alone.
THEOREM UndecidedIsExplained == Spec => [](Len(log) < MaxReceipts => UndecidedExplained)
<1> DEFINE Smooth == Seen /\ faults \in Nat /\ (Calm => Unhindered)
<1>1. Init => Smooth
  BY InitInv, ShownInit, SmoothInit DEF Seen
<1>2. Smooth /\ [Next]_vars => Smooth'
  <2> SUFFICES ASSUME Smooth, [Next]_vars PROVE Smooth'
    OBVIOUS
  <2>1. IInv'
    BY NextInv DEF Seen
  <2>2. Viewed(log')
    BY ViewStep DEF Seen
  <2>3. Single' /\ Supervised'
    BY <2>2, SingleStep, SupervisedStep DEF Seen
  <2>4. Viewed(log)'
    BY <2>2 DEF Viewed, Traced, ViewTrue, StatusTrue, RowTrue
  <2>5. Seen'
    BY <2>1, <2>3, <2>4 DEF Seen
  <2>6. faults' \in Nat
    BY CalmBefore DEF Seen
  <2>7. Calm' => Unhindered'
    BY SmoothStep
  <2> QED
    BY <2>5, <2>6, <2>7
<1>3. Smooth => (Len(log) < MaxReceipts => UndecidedExplained)
  BY SmoothExplains
<1> QED
  BY <1>1, <1>2, <1>3, PTL DEF Spec

=============================================================================
