------------------------ MODULE CandidateApplyProofs -------------------------
(***************************************************************************)
(* Theorems about CandidateApply for every number of operations, every set *)
(* of created files and every bound on crashes, failures and edits: types, *)
(* a started application can be found again, evidence is written ahead of  *)
(* every change, the operator is told the truth, a verdict stays true of   *)
(* the project, and the whole is an atomic, guarded, once-decided change.  *)
(* The invariants are strengthened by what holds at the places of the      *)
(* process where a receipt, the marker or a file changes.                  *)
(***************************************************************************)
EXTENDS ApplyProperties, TLAPS

----------------------------------------------------------------------------
(* Type correctness.  A receipt names an operation, so the operation index *)
(* of the process has to be in range where it appends; what it answers is  *)
(* an outcome, so a terminal receipt has to be there when it answers.      *)

AtOperation == {"stage", "rename", "written", "rb_stage", "rb_rename",
                "rb_commit", "rb_remove", "rb_restored"}
AtVerdict   == {"t_seal", "t_mark", "t_clear", "t_record"}

InRange(p, i) == /\ p \in AtOperation => i \in Ops
                 /\ p \in {"rb_begin", "rb"} => i \in 0..N
                 /\ p \in {"op", "scan", "complete"} => i \in 1..N+1

IndexInRange == InRange(pc, k)

VerdictGiven == pc \in AtVerdict => Terminated

TypeInv == TypeOK /\ IndexInRange /\ VerdictGiven

\* The last event of a chain that was just appended to.
LEMMA LastOfAppend ==
  ASSUME NEW l \in Seq(Receipt), NEW e \in Receipt
  PROVE  /\ Append(l, e) \in Seq(Receipt)
         /\ Append(l, e) # << >>
         /\ Len(Append(l, e)) = Len(l) + 1
         /\ LastEvent(Append(l, e)) = e.ev
         /\ \A n \in 1..Len(l) : Append(l, e)[n] = l[n]
BY DEF LastEvent

\* What a terminal event is answered with is an outcome.
LEMMA OutcomeType ==
  ASSUME NEW l \in Seq(Receipt), l # << >>, LastEvent(l) \in TerminalEvents
  PROVE  OutcomeOf(LastEvent(l)) \in Outcomes
BY DEF OutcomeOf, Outcomes, TerminalEvents

\* A call that returns leaves a well-typed idle process behind.
LEMMA ReturnType ==
  ASSUME TypeInv, NEW r \in Replies, Return(r)
  PROVE  ProcessOK' /\ IndexInRange' /\ VerdictGiven'
<1>1. pc' \in Steps /\ k' \in 0..N+1 /\ reply' \in Replies
  BY EvidenceAssumption DEF Return, Steps
<1>2. ProcessOK'
  BY <1>1 DEF Return, ProcessOK
<1>3. IndexInRange'
  BY DEF Return, IndexInRange, InRange, AtOperation
<1>4. VerdictGiven'
  BY DEF Return, VerdictGiven, AtVerdict
<1> QED
  BY <1>2, <1>3, <1>4

\* The cleanup of replace() keeps the types of files and temporaries.
LEMMA UnwindType ==
  ASSUME TypeInv, Unwind, UNCHANGED <<file, context>>
  PROVE  PrimaryOK'
BY DEF TypeInv, TypeOK, Unwind, PrimaryOK, Ids

\* An exception keeps the type invariant wherever it is raised.
LEMMA RaiseType ==
  ASSUME TypeInv, NEW why \in Replies, NEW ahead \in BOOLEAN,
         RaiseSkewed(why, ahead)
  PROVE  PrimaryOK' /\ StoreOK' /\ GuardOK' /\ ProcessOK' /\ IndexInRange'
         /\ VerdictGiven'
<1>1. PrimaryOK'
  BY UnwindType DEF RaiseSkewed
<1>2. StoreOK' /\ GuardOK'
  BY DEF RaiseSkewed, TypeInv, TypeOK, StoreOK, GuardOK, store
<1>3. ProcessOK' /\ IndexInRange' /\ VerdictGiven'
  <2>1. CASE who = "apply"
    BY <2>1 DEF RaiseSkewed, TypeInv, TypeOK, ProcessOK, IndexInRange, InRange,
       VerdictGiven, AtOperation, AtVerdict, Steps, Return
  <2>2. CASE who = "handler" /\ pc \notin {"t_record", "finish"}
    BY <2>2 DEF RaiseSkewed, TypeInv, TypeOK, ProcessOK, IndexInRange, InRange,
       VerdictGiven, AtOperation, AtVerdict, Steps
  <2>3. CASE who = "handler" /\ pc = "finish" /\ io # "idle"
    BY <2>3 DEF RaiseSkewed, TypeInv, TypeOK, ProcessOK, IndexInRange, InRange,
       VerdictGiven, AtOperation, AtVerdict, Steps, locals
  <2>4. CASE Return(why)
    BY <2>4, ReturnType
  <2> QED
    BY <2>1, <2>2, <2>3, <2>4 DEF RaiseSkewed
<1> QED
  BY <1>1, <1>2, <1>3

\* An append keeps it, accepted, refused or failing, if the index of the next step
\* is in range and only a terminal receipt leads to the steps after the verdict.
LEMMA EmitType ==
  ASSUME TypeInv, NEW e \in Receipt, NEW next \in Steps, NEW i \in 0..N+1,
         Emit(e, next, i),
         InRange(next, i),
         next \in AtVerdict => e.ev \in TerminalEvents
  PROVE  TypeInv'
<1>1. CASE /\ log' = Append(log, e) /\ gap' = skew
           /\ io' = "manifest" /\ Goto(next, i)
           /\ UNCHANGED <<primary, cover, pend, sealed, marker, journal, record,
                          who, locals, reply, budget>>
  <2>1. StoreOK' /\ (next \in AtVerdict => Terminated')
    BY <1>1, LastOfAppend DEF TypeInv, TypeOK, StoreOK, ProcessOK, Terminated
  <2>2. PrimaryOK' /\ GuardOK' /\ BudgetOK'
    BY <1>1 DEF TypeInv, TypeOK, PrimaryOK, GuardOK, BudgetOK, primary, budget
  <2>3. ProcessOK' /\ IndexInRange'
    BY <1>1 DEF TypeInv, TypeOK, ProcessOK, IndexInRange, Goto, locals
  <2> QED
    BY <1>1, <2>1, <2>2, <2>3 DEF TypeInv, TypeOK, VerdictGiven, Goto
<1>2. CASE Raise("refused") /\ UNCHANGED budget
  BY <1>2, RaiseType DEF Raise, TypeInv, TypeOK, ProcessOK, BudgetOK, budget,
     Replies, Refusals
<1>3. CASE /\ faults < MaxFaults /\ RaiseSkewed("failed", TRUE)
           /\ faults' = faults + 1 /\ UNCHANGED <<crashes, edits>>
  <2>1. BudgetOK'
    BY <1>3, ApplyAssumption DEF TypeInv, TypeOK, BudgetOK
  <2> QED
    BY <1>3, <2>1, RaiseType DEF TypeInv, TypeOK, Replies, Refusals
<1> QED
  BY <1>1, <1>2, <1>3 DEF Emit

\* The initial state is well typed.
LEMMA InitType == Init => TypeInv
<1> SUFFICES ASSUME Init PROVE TypeInv
  OBVIOUS
<1>1. PrimaryOK
  BY DEF Init, PrimaryOK, FileStates, Ids, BaseFile, Absent
<1>2. StoreOK
  <2>1. log \in Seq(Receipt) /\ Len(log) = 0
    BY DEF Init
  <2>2. cover \in 0..Len(log)
    BY <2>1 DEF Init
  <2>3. pend \in BOOLEAN /\ sealed \in BOOLEAN /\ gap \in BOOLEAN
    BY DEF Init
  <2> QED
    BY <2>1, <2>2, <2>3 DEF StoreOK
<1>3. GuardOK
  <2>1. NoMarker \in Markers
    BY DEF NoMarker, Markers
  <2>2. journal \in [Ops -> Ids]
    BY DEF Init, Ids
  <2> QED
    BY <2>1, <2>2 DEF Init, GuardOK
<1>4. ProcessOK
  <2>1. k \in 0..N+1
    BY EvidenceAssumption DEF Init
  <2>2. states \in [Ops -> {"none", "after", "before_original", "before_rollback"}]
    BY DEF Init
  <2> QED
    BY <2>1, <2>2 DEF Init, ProcessOK, Steps, Replies
<1>5. BudgetOK
  BY ApplyAssumption DEF Init, BudgetOK
<1>6. IndexInRange /\ VerdictGiven
  BY DEF Init, IndexInRange, InRange, AtOperation, VerdictGiven, AtVerdict
<1> QED
  BY <1>1, <1>2, <1>3, <1>4, <1>5, <1>6 DEF TypeInv, TypeOK

\* Finishing an append or a seal keeps the type invariant.
LEMMA ChainType == TypeInv /\ (WriteManifest \/ WriteAnchor) => TypeInv'
<1>1. ASSUME TypeInv, WriteManifest PROVE TypeInv'
  BY <1>1 DEF WriteManifest, TypeInv, TypeOK, PrimaryOK, StoreOK, GuardOK,
     ProcessOK, BudgetOK, IndexInRange, VerdictGiven, Terminated, primary,
     locals, budget
<1>2. ASSUME TypeInv, WriteAnchor PROVE TypeInv'
  <2>1. /\ TypeOK /\ pend' = FALSE /\ io' = "idle" /\ started' \in BOOLEAN
        /\ UNCHANGED <<primary, log, cover, sealed, gap, marker, journal, record, pc, k,
                       who, marked, states, skew, reply, budget>>
    BY <1>2 DEF WriteAnchor, TypeInv, TypeOK, GuardOK
  <2>2. PrimaryOK' /\ GuardOK' /\ BudgetOK'
    BY <2>1 DEF TypeOK, PrimaryOK, GuardOK, BudgetOK, primary, budget
  <2>3. StoreOK' /\ ProcessOK'
    BY <2>1 DEF TypeOK, StoreOK, ProcessOK
  <2>4. IndexInRange' /\ VerdictGiven'
    BY <1>2, <2>1 DEF TypeInv, IndexInRange, VerdictGiven, Terminated
  <2> QED
    BY <2>2, <2>3, <2>4 DEF TypeInv, TypeOK
<1> QED
  BY <1>1, <1>2

\* An exception raised by a failing check, not by a fault.
LEMMA RaiseFree ==
  ASSUME TypeInv, NEW why \in Replies, Raise(why), UNCHANGED budget
  PROVE  TypeInv'
BY RaiseType DEF Raise, TypeInv, TypeOK, ProcessOK, BudgetOK, budget

\* The events that are appended are receipts.
LEMMA ReceiptType ==
  ASSUME NEW e \in Events
  PROVE  /\ Plain(e) \in Receipt
         /\ \A i \in Ops : Progress(e, i) \in Receipt
         /\ \A i \in Ops, x \in Ids : Signing(e, i, x) \in Receipt
BY EvidenceAssumption DEF Plain, Progress, Signing, Receipt, Ops, Ids

\* The tuples whose members the type invariant speaks of.
USE DEF primary, budget, At

\* apply, up to the first operation.
LEMMA PrepareSteps ==
  TypeInv /\ (\/ Reserve \/ CreateAuthority \/ Prepare \/ MarkReserved
              \/ AppendPrepared \/ MarkPrepared \/ AppendStarted \/ MarkStarted)
    => TypeInv'
<1> SUFFICES ASSUME TypeInv
             PROVE  (\/ Reserve \/ CreateAuthority \/ Prepare \/ MarkReserved
                     \/ AppendPrepared \/ MarkPrepared \/ AppendStarted
                     \/ MarkStarted) => TypeInv'
  OBVIOUS
<1>1. ASSUME Reserve PROVE TypeInv'
  BY <1>1 DEF Reserve, TypeInv, TypeOK, PrimaryOK, StoreOK, GuardOK, ProcessOK,
     BudgetOK, IndexInRange, InRange, VerdictGiven, Terminated, AtOperation,
     AtVerdict, Steps, store, locals
<1>2. ASSUME CreateAuthority PROVE TypeInv'
  BY <1>2, EmitType, ReceiptType, EvidenceAssumption
     DEF CreateAuthority, InRange, AtOperation, AtVerdict, Steps, Events
<1>3. ASSUME Prepare PROVE TypeInv'
  <2>1. CASE Raise("mismatch") /\ UNCHANGED budget
    BY <2>1, RaiseFree DEF Replies, Refusals
  <2>2. CASE /\ At("prepare") /\ UNCHANGED budget
             /\ journal' = [i \in Ops |-> file[i].id]
             /\ pc' = "reserve"
             /\ UNCHANGED <<primary, store, marker, record, k, who, io, locals,
                            reply>>
    <3>1. journal' \in [Ops -> Ids]
      BY <2>2 DEF TypeInv, TypeOK, PrimaryOK, FileStates
    <3> QED
      BY <2>2, <3>1 DEF TypeInv, TypeOK, PrimaryOK, StoreOK, GuardOK, ProcessOK,
         BudgetOK, IndexInRange, InRange, VerdictGiven, Terminated, AtOperation,
         AtVerdict, Steps, store, locals
  <2> QED
    BY <1>3, <2>1, <2>2 DEF Prepare
<1>4. ASSUME MarkReserved \/ MarkPrepared \/ MarkStarted PROVE TypeInv'
  <2>1. marker' \in Markers
    <3>1. \A p \in {"reserved", "prepared", "started"} : Marked(p) \in Markers
      BY DEF Marked, Markers
    <3> QED
      BY <1>4, <3>1 DEF MarkReserved, MarkPrepared, MarkStarted, MarkPhase
  <2>2. /\ pc' \in {"write_journal", "start", "op"}
        /\ k' = IF pc' = "op" THEN 1 ELSE k
        /\ marked' \in BOOLEAN
    <3>1. CASE MarkReserved
      BY <3>1 DEF MarkReserved
    <3>2. CASE MarkPrepared \/ MarkStarted
      BY <3>2 DEF MarkPrepared, MarkStarted, Goto, TypeInv, TypeOK, ProcessOK,
         locals
    <3> QED
      BY <1>4, <3>1, <3>2
  <2>3. /\ UNCHANGED <<primary, store, journal, record, who, io, started, states,
                       skew, reply, budget>>
    BY <1>4 DEF MarkReserved, MarkPrepared, MarkStarted, locals
  <2> QED
    BY <2>1, <2>2, <2>3, EvidenceAssumption
       DEF TypeInv, TypeOK, PrimaryOK, StoreOK, GuardOK, ProcessOK,
         BudgetOK, IndexInRange, InRange, VerdictGiven, Terminated, AtOperation,
         AtVerdict, Steps, store
<1>5. ASSUME AppendPrepared PROVE TypeInv'
  BY <1>5, EmitType, ReceiptType, EvidenceAssumption
     DEF AppendPrepared, InRange, AtOperation, AtVerdict, Steps, Events
<1>6. ASSUME AppendStarted PROVE TypeInv'
  BY <1>6, EmitType, ReceiptType, EvidenceAssumption
     DEF AppendStarted, InRange, AtOperation, AtVerdict, Steps, Events
<1> QED
  BY <1>1, <1>2, <1>3, <1>4, <1>5, <1>6

\* apply, one operation after the other.
LEMMA OperationSteps ==
  ASSUME TypeInv,
         \/ CreateTemp \/ AppendStaged \/ RenameForward \/ AppendWritten
         \/ AppendApplied
  PROVE  TypeInv'
<1>1. CASE CreateTemp
  <2>1. CASE Raise("conflict") /\ UNCHANGED budget
    BY <2>1, RaiseFree DEF Replies, Refusals
  <2>2. CASE /\ At("op") /\ k \in Ops /\ UNCHANGED budget
             /\ ftemp' = [ftemp EXCEPT ![k] = TRUE] /\ pc' = "stage"
             /\ UNCHANGED <<file, rtemp, context, store, marker, journal, record,
                            k, who, io, locals, reply>>
    <3>1. PrimaryOK'
      BY <2>2 DEF TypeInv, TypeOK, PrimaryOK
    <3> QED
      BY <2>2, <3>1 DEF TypeInv, TypeOK, GuardOK, ProcessOK, BudgetOK, StoreOK,
         IndexInRange, InRange, VerdictGiven, AtOperation, AtVerdict, Steps, locals,
         store
  <2> QED
    BY <1>1, <2>1, <2>2 DEF CreateTemp
<1>2. CASE AppendStaged
  <2>1. k \in Ops /\ k \in 0..N+1
    BY <1>2 DEF AppendStaged, TypeInv, TypeOK, ProcessOK, IndexInRange, InRange,
       AtOperation
  <2>2. Signing("apply_file_staged", k, "fwd") \in Receipt
    BY <2>1, ReceiptType DEF Events, Ids
  <2>3. InRange("rename", k) /\ "rename" \in Steps /\ "rename" \notin AtVerdict
    BY <2>1 DEF InRange, Steps, AtVerdict
  <2> QED
    BY <1>2, <2>1, <2>2, <2>3, EmitType DEF AppendStaged
<1>3. CASE RenameForward
  <2>1. CASE Raise("conflict") /\ UNCHANGED budget
    BY <2>1, RaiseFree DEF Replies, Refusals
  <2>2. CASE /\ At("rename") /\ UNCHANGED budget
             /\ file' = [file EXCEPT ![k] = Desired]
             /\ ftemp' = [ftemp EXCEPT ![k] = FALSE]
             /\ pc' = "written"
             /\ UNCHANGED <<rtemp, context, store, marker, journal, record, k, who,
                            io, locals, reply>>
    <3>1. Desired \in FileStates
      BY DEF Desired, FileStates, Ids
    <3>2. PrimaryOK'
      BY <2>2, <3>1 DEF TypeInv, TypeOK, PrimaryOK
    <3> QED
      BY <2>2, <3>2 DEF TypeInv, TypeOK, GuardOK, ProcessOK, BudgetOK, StoreOK,
         IndexInRange, InRange, VerdictGiven, AtOperation, AtVerdict, Steps, locals,
         store
  <2> QED
    BY <1>3, <2>1, <2>2 DEF RenameForward
<1>4. CASE AppendWritten
  <2>1. k \in Ops
    BY <1>4 DEF AppendWritten, TypeInv, IndexInRange, InRange, AtOperation
  <2>2. Progress("apply_file_written", k) \in Receipt
    BY <2>1, ReceiptType DEF Events
  <2>3. k + 1 \in 1..N+1 /\ k + 1 \in 0..N+1
    BY <2>1, EvidenceAssumption DEF Ops
  <2>4. InRange("op", k + 1) /\ "op" \in Steps /\ "op" \notin AtVerdict
    BY <2>3 DEF InRange, Steps, AtOperation, AtVerdict
  <2> QED
    BY <1>4, <2>2, <2>3, <2>4, EmitType DEF AppendWritten
<1>5. CASE AppendApplied
  <2>1. CASE Raise("mismatch") /\ UNCHANGED budget
    BY <2>1, RaiseFree DEF Replies, Refusals
  <2>2. CASE Emit(Plain("candidate_applied"), "t_seal", 0)
    BY <2>2, EmitType, ReceiptType, EvidenceAssumption
       DEF InRange, AtOperation, AtVerdict, Steps, Events, TerminalEvents, Plain
  <2> QED
    BY <1>5, <2>1, <2>2 DEF AppendApplied
<1> QED
  BY <1>1, <1>2, <1>3, <1>4, <1>5

\* What follows a terminal receipt.
LEMMA TerminalSteps ==
  ASSUME TypeInv, Terminal
  PROVE  TypeInv'
<1>1. CASE Seal
  <2>1. CASE Raise("refused") /\ UNCHANGED budget
    BY <2>1, RaiseFree DEF Replies, Refusals
  <2>2. CASE /\ At("t_seal") /\ UNCHANGED budget
             /\ sealed' = TRUE /\ pend' = TRUE /\ io' = "anchor"
             /\ pc' = CASE who = "apply"     -> "t_mark"
                        [] who = "reconcile" -> "t_record"
                        [] OTHER             -> "t_clear"
             /\ UNCHANGED <<primary, log, cover, gap, marker, journal, record, k,
                            who, locals, reply>>
    <3>1. pc' \in {"t_mark", "t_record", "t_clear"} /\ Terminated
      BY <2>2 DEF TypeInv, VerdictGiven, AtVerdict
    <3>2. PrimaryOK' /\ StoreOK' /\ GuardOK' /\ BudgetOK'
      BY <2>2 DEF TypeInv, TypeOK, PrimaryOK, StoreOK, GuardOK, BudgetOK
    <3>3. ProcessOK'
      BY <2>2, <3>1 DEF TypeInv, TypeOK, ProcessOK, locals, Steps
    <3>4. IndexInRange' /\ VerdictGiven'
      BY <2>2, <3>1 DEF IndexInRange, InRange, AtOperation, VerdictGiven, Terminated
    <3> QED
      BY <3>2, <3>3, <3>4 DEF TypeInv, TypeOK
  <2> QED
    BY <1>1, <2>1, <2>2 DEF Seal
<1>2. CASE MarkTerminal
  <2>1. marker' \in Markers
    BY <1>2 DEF MarkTerminal, MarkPhase, Marked, Markers
  <2>2. pc' = "t_clear" /\ Terminated
    BY <1>2 DEF MarkTerminal, TypeInv, VerdictGiven, AtVerdict
  <2> QED
    BY <1>2, <2>1, <2>2 DEF MarkTerminal, TypeInv, TypeOK, PrimaryOK, StoreOK,
       GuardOK, ProcessOK, BudgetOK, IndexInRange, InRange, AtOperation,
       VerdictGiven, Terminated, store, locals, Steps
<1>3. CASE ClearMarker
  <2>1. Answer \in Replies /\ Terminated
    BY <1>3, OutcomeType DEF ClearMarker, TypeInv, TypeOK, StoreOK, VerdictGiven,
       AtVerdict, Terminated, Answer, Replies
  <2>2. marker' \in Markers
    BY <1>3 DEF ClearMarker, TypeInv, TypeOK, GuardOK, NoMarker, Markers
  <2>3. PrimaryOK' /\ StoreOK' /\ GuardOK' /\ BudgetOK'
    BY <1>3, <2>2 DEF ClearMarker, TypeInv, TypeOK, PrimaryOK, StoreOK, GuardOK,
       BudgetOK, store
  <2>4. ProcessOK' /\ IndexInRange' /\ VerdictGiven'
    <3>1. CASE Return(Answer)
      BY <2>1, <3>1, ReturnType
    <3>2. CASE pc' = "t_record" /\ UNCHANGED <<k, who, io, locals, reply>>
      BY <1>3, <2>1, <3>2 DEF ClearMarker, TypeInv, TypeOK, ProcessOK, IndexInRange,
         InRange, AtOperation, VerdictGiven, Terminated, store, locals, Steps
    <3> QED
      BY <1>3, <3>1, <3>2 DEF ClearMarker
  <2> QED
    BY <2>3, <2>4 DEF TypeInv, TypeOK
<1>4. CASE UpdateRecord
  <2>1. Answer \in Outcomes /\ Answer \in Replies /\ Terminated
    BY <1>4, OutcomeType DEF UpdateRecord, TypeInv, TypeOK, StoreOK, VerdictGiven,
       AtVerdict, Terminated, Answer, Replies
  <2>2. PrimaryOK' /\ StoreOK' /\ GuardOK' /\ BudgetOK'
    BY <1>4, <2>1 DEF UpdateRecord, TypeInv, TypeOK, PrimaryOK, StoreOK, GuardOK,
       BudgetOK, store
  <2>3. ProcessOK' /\ IndexInRange' /\ VerdictGiven'
    <3>1. CASE Return(Answer)
      BY <2>1, <3>1, ReturnType
    <3>2. CASE pc' = "t_clear" /\ UNCHANGED <<k, who, io, locals, reply>>
      BY <1>4, <2>1, <3>2 DEF UpdateRecord, TypeInv, TypeOK, ProcessOK, IndexInRange,
         InRange, AtOperation, VerdictGiven, Terminated, store, locals, Steps
    <3> QED
      BY <1>4, <3>1, <3>2 DEF UpdateRecord
  <2> QED
    BY <2>2, <2>3 DEF TypeInv, TypeOK
<1> QED
  BY <1>1, <1>2, <1>3, <1>4 DEF Terminal

\* apply's exception handler.
LEMMA HandlerSteps ==
  ASSUME TypeInv, Handler
  PROVE  TypeInv'
<1>1. CASE Reject
  BY <1>1, EmitType, ReceiptType, EvidenceAssumption
     DEF Reject, InRange, AtOperation, AtVerdict, Steps, Events, TerminalEvents,
         Plain
<1>2. CASE StartRollback
  BY <1>2, EmitType, ReceiptType, EvidenceAssumption
     DEF StartRollback, InRange, AtOperation, AtVerdict, Steps, Events
<1>3. CASE GiveUp
  <2>1. k \in 0..N+1
    BY DEF TypeInv, TypeOK, ProcessOK
  <2>2. InRange("finish", k) /\ "finish" \in Steps /\ "finish" \notin AtVerdict
    BY DEF InRange, AtOperation, AtVerdict, Steps
  <2> QED
    BY <1>3, <2>1, <2>2, EmitType, ReceiptType DEF GiveUp, Events
<1>4. CASE Finish
  <2>1. ProcessOK' /\ IndexInRange' /\ VerdictGiven'
    BY <1>4, ReturnType DEF Finish, Replies
  <2> QED
    BY <1>4, <2>1 DEF Finish, TypeInv, TypeOK, PrimaryOK, StoreOK, GuardOK,
       BudgetOK, store
<1> QED
  BY <1>1, <1>2, <1>3, <1>4 DEF Handler

\* Undoing one operation, up to the change of the file.
LEMMA UndoPrepares ==
  ASSUME TypeInv,
         \/ SkipUntouched \/ AppendRestored \/ RefuseUndo \/ AppendDeleteIntent
         \/ ReuseStage \/ CreateRollbackTemp \/ AppendRollbackStaged
  PROVE  TypeInv'
<1> USE EvidenceAssumption DEF Ops
<1>1. CASE SkipUntouched
  <2>1. k' \in 0..N+1 /\ InRange(pc', k') /\ pc' \notin AtVerdict
    BY <1>1 DEF SkipUntouched, InRange, AtOperation, AtVerdict
  <2>2. PrimaryOK' /\ StoreOK' /\ GuardOK' /\ BudgetOK'
    BY <1>1 DEF SkipUntouched, TypeInv, TypeOK, PrimaryOK, StoreOK, GuardOK,
       BudgetOK, store
  <2>3. ProcessOK'
    BY <1>1, <2>1 DEF SkipUntouched, TypeInv, TypeOK, ProcessOK, locals
  <2> QED
    BY <2>1, <2>2, <2>3 DEF TypeInv, TypeOK, IndexInRange, VerdictGiven
<1>2. CASE AppendRestored
  <2>1. k \in Ops
    BY <1>2 DEF AppendRestored, TypeInv, IndexInRange, InRange, AtOperation
  <2>2. Progress("apply_rollback_file_restored", k) \in Receipt
    BY <2>1, ReceiptType DEF Events
  <2>3. k - 1 \in 0..N /\ k - 1 \in 0..N+1
    BY <2>1
  <2>4. InRange("rb", k - 1) /\ "rb" \in Steps /\ "rb" \notin AtVerdict
    BY <2>3 DEF InRange, Steps, AtOperation, AtVerdict
  <2> QED
    BY <1>2, <2>2, <2>3, <2>4, EmitType DEF AppendRestored
<1>3. CASE RefuseUndo
  BY <1>3, RaiseFree DEF RefuseUndo, Replies, Refusals
<1>4. CASE AppendDeleteIntent
  <2>1. k \in Ops /\ k \in 0..N+1
    BY <1>4 DEF AppendDeleteIntent
  <2>2. Signing("apply_rollback_file_staged", k, "fwd") \in Receipt
    BY <2>1, ReceiptType DEF Events, Ids
  <2>3. InRange("rb_remove", k) /\ "rb_remove" \in Steps /\ "rb_remove" \notin AtVerdict
    BY <2>1 DEF InRange, Steps, AtVerdict
  <2> QED
    BY <1>4, <2>1, <2>2, <2>3, EmitType DEF AppendDeleteIntent
<1>5. CASE ReuseStage
  <2>1. pc' \in {"rb_remove", "rb_commit"} /\ k \in Ops
    BY <1>5 DEF ReuseStage
  <2>2. PrimaryOK' /\ StoreOK' /\ GuardOK' /\ BudgetOK'
    BY <1>5 DEF ReuseStage, TypeInv, TypeOK, PrimaryOK, StoreOK, GuardOK,
       BudgetOK, store
  <2>3. ProcessOK' /\ IndexInRange' /\ VerdictGiven'
    BY <1>5, <2>1 DEF ReuseStage, TypeInv, TypeOK, ProcessOK, locals, Steps,
       IndexInRange, InRange, VerdictGiven, AtVerdict
  <2> QED
    BY <2>2, <2>3 DEF TypeInv, TypeOK
<1>6. CASE CreateRollbackTemp
  <2>1. k \in Ops /\ pc' = "rb_stage"
    BY <1>6 DEF CreateRollbackTemp
  <2>2. PrimaryOK'
    BY <1>6 DEF CreateRollbackTemp, FreshIds, TypeInv, TypeOK, PrimaryOK, Ids
  <2>3. StoreOK' /\ GuardOK' /\ BudgetOK'
    BY <1>6 DEF CreateRollbackTemp, TypeInv, TypeOK, StoreOK, GuardOK, BudgetOK,
       store
  <2>4. ProcessOK' /\ IndexInRange' /\ VerdictGiven'
    BY <1>6, <2>1 DEF CreateRollbackTemp, TypeInv, TypeOK, ProcessOK, locals, Steps,
       IndexInRange, InRange, VerdictGiven, AtVerdict
  <2> QED
    BY <2>2, <2>3, <2>4 DEF TypeInv, TypeOK
<1>7. CASE AppendRollbackStaged
  <2>1. k \in Ops /\ k \in 0..N+1 /\ rtemp[k] \in Ids
    BY <1>7 DEF AppendRollbackStaged, TypeInv, TypeOK, PrimaryOK, ProcessOK,
       IndexInRange, InRange, AtOperation
  <2>2. Signing("apply_rollback_file_staged", k, rtemp[k]) \in Receipt
    BY <2>1, ReceiptType DEF Events
  <2>3. InRange("rb_rename", k) /\ "rb_rename" \in Steps /\ "rb_rename" \notin AtVerdict
    BY <2>1 DEF InRange, Steps, AtVerdict
  <2> QED
    BY <1>7, <2>1, <2>2, <2>3, EmitType DEF AppendRollbackStaged
<1> QED
  BY <1>1, <1>2, <1>3, <1>4, <1>5, <1>6, <1>7

\* Undoing one operation: the file changes, or the rollback is complete.
LEMMA UndoCommits ==
  ASSUME TypeInv, RenameBack \/ RemoveCreated \/ AppendRolledBack
  PROVE  TypeInv'
<1>1. CASE RenameBack \/ RemoveCreated
  <2>1. CASE Raise("conflict") /\ UNCHANGED budget
    BY <2>1, RaiseFree DEF Replies, Refusals
  <2>2. CASE /\ pc \in {"rb_rename", "rb_commit", "rb_remove"}
             /\ pc' = "rb_restored" /\ UNCHANGED <<k, budget, ftemp, context>>
             /\ \/ /\ file' = [file EXCEPT ![k] = [c |-> "before", id |-> rtemp[k]]]
                   /\ rtemp' = [rtemp EXCEPT ![k] = "none"]
                \/ file' = [file EXCEPT ![k] = Absent] /\ UNCHANGED rtemp
             /\ UNCHANGED <<store, marker, journal, record, who, io, locals, reply>>
    <3>1. k \in Ops
      BY <2>2 DEF TypeInv, IndexInRange, InRange, AtOperation
    <3>2. Absent \in FileStates /\ [c |-> "before", id |-> rtemp[k]] \in FileStates
      BY <3>1 DEF Absent, FileStates, TypeInv, TypeOK, PrimaryOK, Ids
    <3>3. PrimaryOK'
      BY <2>2, <3>2 DEF TypeInv, TypeOK, PrimaryOK, Ids
    <3>4. StoreOK' /\ GuardOK' /\ BudgetOK'
      BY <2>2 DEF TypeInv, TypeOK, StoreOK, GuardOK, BudgetOK, store
    <3>5. ProcessOK' /\ IndexInRange' /\ VerdictGiven'
      BY <2>2, <3>1 DEF TypeInv, TypeOK, ProcessOK, locals, Steps, IndexInRange,
         InRange, VerdictGiven, AtVerdict
    <3> QED
      BY <3>3, <3>4, <3>5 DEF TypeInv, TypeOK
  <2> QED
    BY <1>1, <2>1, <2>2 DEF RenameBack, RemoveCreated
<1>2. CASE AppendRolledBack
  <2>1. CASE Raise("mismatch") /\ UNCHANGED budget
    BY <2>1, RaiseFree DEF Replies, Refusals
  <2>2. CASE Emit(Plain("apply_rolled_back"), "t_seal", 0)
    BY <2>2, EmitType, ReceiptType, EvidenceAssumption
       DEF InRange, AtOperation, AtVerdict, Steps, Events, TerminalEvents, Plain
  <2> QED
    BY <1>2, <2>1, <2>2 DEF AppendRolledBack
<1> QED
  BY <1>1, <1>2

\* recover, up to the scan.
LEMMA RecoverBegins ==
  ASSUME TypeInv,
         RecoverNothing \/ RecoverRefused \/ RecoverTerminal \/ RecoverBegin
  PROVE  TypeInv'
<1>1. CASE RecoverNothing \/ RecoverRefused
  <2>1. reply' \in Replies
    <3>1. CASE RecoverNothing
      BY <3>1 DEF RecoverNothing, Replies
    <3>2. CASE RecoverRefused
      BY <3>2 DEF RecoverRefused, Refusal, DecidedRefusal, UnpreparedRefusal, Replies,
         Refusals
    <3> QED
      BY <1>1, <3>1, <3>2
  <2>2. UNCHANGED <<primary, store, marker, journal, record, pc, k, who, io,
                    locals, budget>>
    BY <1>1 DEF RecoverNothing, RecoverRefused
  <2>3. PrimaryOK' /\ StoreOK' /\ GuardOK' /\ BudgetOK'
    BY <2>2 DEF TypeInv, TypeOK, PrimaryOK, StoreOK, GuardOK, BudgetOK, store
  <2>4. ProcessOK' /\ IndexInRange' /\ VerdictGiven'
    BY <2>1, <2>2 DEF TypeInv, TypeOK, ProcessOK, locals, IndexInRange, VerdictGiven,
       Terminated, store
  <2> QED
    BY <2>3, <2>4 DEF TypeInv, TypeOK
<1>2. CASE RecoverTerminal
  <2>1. pc' \in {"t_record", "t_seal"} /\ who' = "reconcile" /\ Terminated
    BY <1>2 DEF RecoverTerminal
  <2>2. UNCHANGED <<primary, store, marker, journal, record, k, io, locals, reply,
                    budget>>
    BY <1>2 DEF RecoverTerminal
  <2>3. PrimaryOK' /\ StoreOK' /\ GuardOK' /\ BudgetOK'
    BY <2>2 DEF TypeInv, TypeOK, PrimaryOK, StoreOK, GuardOK, BudgetOK, store
  <2>4. ProcessOK' /\ IndexInRange' /\ VerdictGiven'
    BY <2>1, <2>2 DEF TypeInv, TypeOK, ProcessOK, locals, IndexInRange, InRange,
       AtOperation, VerdictGiven, Terminated, store, Steps
  <2> QED
    BY <2>3, <2>4 DEF TypeInv, TypeOK
<1>3. CASE RecoverBegin
  <2>1. \/ pc' = "scan" /\ k' = 1
        \/ pc' = "abort" /\ k' = 0
    BY <1>3 DEF RecoverBegin, Goto
  <2>2. who' = "recover"
        /\ UNCHANGED <<primary, store, marker, journal, record, io, locals, reply,
                       budget>>
    BY <1>3 DEF RecoverBegin
  <2>3. PrimaryOK' /\ StoreOK' /\ GuardOK' /\ BudgetOK'
    BY <2>2 DEF TypeInv, TypeOK, PrimaryOK, StoreOK, GuardOK, BudgetOK, store
  <2>4. ProcessOK' /\ IndexInRange' /\ VerdictGiven'
    BY <2>1, <2>2, EvidenceAssumption DEF TypeInv, TypeOK, ProcessOK, locals,
       IndexInRange, InRange, AtOperation, VerdictGiven, AtVerdict, Steps
  <2> QED
    BY <2>3, <2>4 DEF TypeInv, TypeOK
<1> QED
  BY <1>1, <1>2, <1>3

\* recover, from the scan to the rollback or the completion.
LEMMA RecoverWorks ==
  ASSUME TypeInv,
         \/ RecoverAbort \/ RecoverScan \/ RecoverUnstarted \/ RecoverMark
         \/ RecoverWritten \/ RecoverRollback
  PROVE  TypeInv'
<1>1. CASE RecoverAbort \/ RecoverUnstarted
  BY <1>1, EmitType, ReceiptType, EvidenceAssumption
     DEF RecoverAbort, RecoverUnstarted, InRange, AtOperation, AtVerdict, Steps,
         Events, TerminalEvents, Plain
<1>2. CASE RecoverScan
  <2>1. CASE Raise("conflict") /\ UNCHANGED budget
    BY <2>1, RaiseFree DEF Replies, Refusals
  <2>2. CASE /\ pc = "scan" /\ k \in Ops /\ k' = k + 1 /\ UNCHANGED budget
             /\ states' = [states EXCEPT ![k] = ScanState(k)]
             /\ ftemp' = [ftemp EXCEPT ![k] = FALSE]
             /\ UNCHANGED <<file, rtemp, context, store, marker, journal, record,
                            pc, who, io, started, marked, skew, reply>>
    <3>1. ScanState(k) \in {"none", "after", "before_original", "before_rollback"}
      BY DEF ScanState
    <3>2. k' \in 0..N+1 /\ k' \in 1..N+1
      BY <2>2, EvidenceAssumption DEF Ops
    <3>3. PrimaryOK' /\ StoreOK' /\ GuardOK' /\ BudgetOK'
      BY <2>2 DEF TypeInv, TypeOK, PrimaryOK, StoreOK, GuardOK, BudgetOK, store
    <3>4. ProcessOK'
      BY <2>2, <3>1, <3>2 DEF TypeInv, TypeOK, ProcessOK
    <3>5. IndexInRange' /\ VerdictGiven'
      BY <2>2, <3>2 DEF IndexInRange, InRange, AtOperation, VerdictGiven, AtVerdict
    <3> QED
      BY <3>3, <3>4, <3>5 DEF TypeInv, TypeOK
  <2> QED
    BY <1>2, <2>1, <2>2 DEF RecoverScan, process, locals
<1>3. CASE RecoverMark
  <2>1. marker' \in Markers
    BY <1>3 DEF RecoverMark, TypeInv, TypeOK, GuardOK, Markers
  <2>2. \/ pc' = "complete" /\ k' = 1
        \/ pc' = "rb_begin" /\ k' = N
    BY <1>3 DEF RecoverMark, Goto
  <2>3. UNCHANGED <<primary, store, journal, record, who, io, locals, reply, budget>>
    BY <1>3 DEF RecoverMark
  <2>4. PrimaryOK' /\ StoreOK' /\ GuardOK' /\ BudgetOK'
    BY <2>1, <2>3 DEF TypeInv, TypeOK, PrimaryOK, StoreOK, GuardOK, BudgetOK, store
  <2>5. ProcessOK' /\ IndexInRange' /\ VerdictGiven'
    BY <2>2, <2>3, EvidenceAssumption DEF TypeInv, TypeOK, ProcessOK, locals,
       IndexInRange, InRange, AtOperation, VerdictGiven, AtVerdict, Steps
  <2> QED
    BY <2>4, <2>5 DEF TypeInv, TypeOK
<1>4. CASE RecoverWritten
  <2>1. k \in Ops /\ k + 1 \in 1..N+1 /\ k + 1 \in 0..N+1
    BY <1>4, EvidenceAssumption DEF RecoverWritten, Ops
  <2>2. CASE /\ pc = "complete" /\ k' = k + 1
             /\ UNCHANGED <<primary, store, marker, journal, record, pc, who, io,
                            locals, reply, budget>>
    <3>1. PrimaryOK' /\ StoreOK' /\ GuardOK' /\ BudgetOK'
      BY <2>2 DEF TypeInv, TypeOK, PrimaryOK, StoreOK, GuardOK, BudgetOK, store
    <3>2. ProcessOK' /\ IndexInRange' /\ VerdictGiven'
      BY <2>1, <2>2 DEF TypeInv, TypeOK, ProcessOK, locals, IndexInRange, InRange,
         AtOperation, VerdictGiven, AtVerdict
    <3> QED
      BY <3>1, <3>2 DEF TypeInv, TypeOK
  <2>3. CASE Emit(Progress("apply_file_written", k), "complete", k + 1)
    <3>1. Progress("apply_file_written", k) \in Receipt
      BY <2>1, ReceiptType DEF Events
    <3>2. InRange("complete", k + 1) /\ "complete" \in Steps
          /\ "complete" \notin AtVerdict
      BY <2>1 DEF InRange, AtOperation, AtVerdict, Steps
    <3> QED
      BY <2>1, <2>3, <3>1, <3>2, EmitType
  <2> QED
    BY <1>4, <2>2, <2>3 DEF RecoverWritten
<1>5. CASE RecoverRollback
  <2>1. CASE /\ pc = "rb_begin" /\ pc' = "rb"
             /\ UNCHANGED <<primary, store, marker, journal, record, k, who, io,
                            locals, reply, budget>>
    <3>1. PrimaryOK' /\ StoreOK' /\ GuardOK' /\ BudgetOK'
      BY <2>1 DEF TypeInv, TypeOK, PrimaryOK, StoreOK, GuardOK, BudgetOK, store
    <3>2. ProcessOK' /\ IndexInRange' /\ VerdictGiven'
      BY <2>1 DEF TypeInv, TypeOK, ProcessOK, locals, IndexInRange, InRange,
         AtOperation, VerdictGiven, AtVerdict, Steps
    <3> QED
      BY <3>1, <3>2 DEF TypeInv, TypeOK
  <2>2. CASE Emit(Plain("apply_rollback_started"), "rb", N)
    BY <2>2, EmitType, ReceiptType, EvidenceAssumption
       DEF InRange, AtOperation, AtVerdict, Steps, Events
  <2> QED
    BY <1>5, <2>1, <2>2 DEF RecoverRollback
<1> QED
  BY <1>1, <1>2, <1>3, <1>4, <1>5

\* Crashes, failing calls and the writes of other programs.
LEMMA EnvironmentSteps ==
  ASSUME TypeInv, Environment
  PROVE  TypeInv'
<1>1. CASE Crash
  <2>1. ProcessOK' /\ IndexInRange' /\ VerdictGiven'
    BY <1>1, ReturnType DEF Crash, Replies
  <2>2. crashes' \in 0..MaxCrashes
    BY <1>1, ApplyAssumption DEF Crash, TypeInv, TypeOK, BudgetOK
  <2> QED
    BY <1>1, <2>1, <2>2 DEF Crash, TypeInv, TypeOK, PrimaryOK, StoreOK, GuardOK,
       BudgetOK, store
<1>2. CASE Fault
  <2>1. faults' \in 0..MaxFaults
    BY <1>2, ApplyAssumption DEF Fault, TypeInv, TypeOK, BudgetOK
  <2>2. RaiseSkewed("failed", skew) /\ skew \in BOOLEAN
    BY <1>2 DEF Fault, Raise, TypeInv, TypeOK, ProcessOK
  <2>3. PrimaryOK' /\ StoreOK' /\ GuardOK' /\ ProcessOK' /\ IndexInRange'
        /\ VerdictGiven'
    BY <2>2, RaiseType DEF Replies, Refusals
  <2> QED
    BY <1>2, <2>1, <2>3 DEF Fault, TypeInv, TypeOK, BudgetOK
<1>3. CASE FaultNoChain
  <2>1. ProcessOK' /\ IndexInRange' /\ VerdictGiven'
    BY <1>3, ReturnType DEF FaultNoChain, Replies, Refusals
  <2>2. faults' \in 0..MaxFaults
    BY <1>3, ApplyAssumption DEF FaultNoChain, TypeInv, TypeOK, BudgetOK
  <2> QED
    BY <1>3, <2>1, <2>2 DEF FaultNoChain, TypeInv, TypeOK, PrimaryOK, StoreOK,
       GuardOK, BudgetOK, store
<1>4. CASE LateFaultAnchor
  <2>1. PrimaryOK'
    BY <1>4, UnwindType DEF LateFaultAnchor
  <2>2. faults' \in 0..MaxFaults
    BY <1>4, ApplyAssumption DEF LateFaultAnchor, TypeInv, TypeOK, BudgetOK
  <2>3. ProcessOK' /\ IndexInRange' /\ VerdictGiven'
    BY <1>4 DEF LateFaultAnchor, TypeInv, TypeOK, ProcessOK, locals, IndexInRange,
       InRange, AtOperation, VerdictGiven, AtVerdict, Steps
  <2> QED
    BY <1>4, <2>1, <2>2, <2>3 DEF LateFaultAnchor, TypeInv, TypeOK, StoreOK, GuardOK,
       BudgetOK
<1>5. CASE LateFaultMarker
  <2>1. marker' \in Markers
    BY <1>5 DEF LateFaultMarker, MarkPhase, Marked, Markers
  <2>2. faults' \in 0..MaxFaults
    BY <1>5, ApplyAssumption DEF LateFaultMarker, TypeInv, TypeOK, BudgetOK
  <2>3. ProcessOK' /\ IndexInRange' /\ VerdictGiven'
    BY <1>5 DEF LateFaultMarker, TypeInv, TypeOK, ProcessOK, locals, IndexInRange,
       InRange, AtOperation, VerdictGiven, AtVerdict, Steps
  <2> QED
    BY <1>5, <2>1, <2>2, <2>3 DEF LateFaultMarker, TypeInv, TypeOK, PrimaryOK,
       StoreOK, GuardOK, BudgetOK, store
<1>6. CASE ForeignWrite
  <2>1. \A i \in Ops : ForeignFiles(i) \subseteq FileStates
    BY DEF ForeignFiles, FileStates, Absent, BaseFile, Ids
  <2>2. PrimaryOK'
    BY <1>6, <2>1 DEF ForeignWrite, TypeInv, TypeOK, PrimaryOK
  <2>3. edits' \in 0..MaxEdits
    BY <1>6, ApplyAssumption DEF ForeignWrite, TypeInv, TypeOK, BudgetOK
  <2>4. ProcessOK' /\ IndexInRange' /\ VerdictGiven'
    BY <1>6 DEF ForeignWrite, TypeInv, TypeOK, ProcessOK, process, locals,
       IndexInRange, VerdictGiven, Terminated, store
  <2> QED
    BY <1>6, <2>2, <2>3, <2>4 DEF ForeignWrite, TypeInv, TypeOK, StoreOK, GuardOK,
       BudgetOK, store
<1> QED
  BY <1>1, <1>2, <1>3, <1>4, <1>5, <1>6 DEF Environment

\* Every step keeps the type invariant.
LEMMA StepType == TypeInv /\ [Next]_vars => TypeInv'
<1>1. ASSUME TypeInv, UNCHANGED vars PROVE TypeInv'
  <2>1. PrimaryOK' /\ StoreOK' /\ GuardOK' /\ BudgetOK'
    BY <1>1 DEF vars, TypeInv, TypeOK, PrimaryOK, StoreOK, GuardOK, BudgetOK, store
  <2>2. ProcessOK' /\ IndexInRange' /\ VerdictGiven'
    BY <1>1 DEF vars, TypeInv, TypeOK, ProcessOK, process, locals, IndexInRange,
       VerdictGiven, Terminated, store
  <2> QED
    BY <2>1, <2>2 DEF TypeInv, TypeOK
<1>2. ASSUME TypeInv, Forward PROVE TypeInv'
  BY <1>2, PrepareSteps, OperationSteps DEF Forward
<1>3. ASSUME TypeInv, Undo PROVE TypeInv'
  BY <1>3, UndoPrepares, UndoCommits DEF Undo
<1>4. ASSUME TypeInv, Recover PROVE TypeInv'
  BY <1>4, RecoverBegins, RecoverWorks DEF Recover
<1>5. ASSUME TypeInv, Server PROVE TypeInv'
  BY <1>2, <1>3, <1>4, <1>5, ChainType, TerminalSteps, HandlerSteps DEF Server
<1> QED
  BY <1>1, <1>5, EnvironmentSteps DEF Next

\* Throughout every behaviour each variable keeps its type: no index leaves the
\* journal, no answer is given without a terminal receipt behind it.
THEOREM TypeCorrect == Spec => []TypeOK
<1>1. TypeInv => TypeOK
  BY DEF TypeInv
<1> QED
  BY <1>1, InitType, StepType, PTL DEF Spec

----------------------------------------------------------------------------
(* The marker.                                                             *)

\* Where apply is until it has signed that it starts.
BeforeStart == {"new", "create", "prepare", "reserve", "write_journal",
                "mark_prepared", "start"}

GuardInv == /\ pc \in BeforeStart => ~Happened("apply_started")
            /\ pc = "start" => marker.hash
            /\ MarkerCarriesJournal

----------------------------------------------------------------------------
(* The receipts.                                                           *)

\* Where the process acts on evidence: the manifest covers all of it.
OnEvidence == {"rename", "scan", "rb_begin", "rb", "rb_rename", "rb_commit",
               "rb_remove"}

Covered == pc \in OnEvidence /\ io # "manifest" => cover = Len(log)

\* What was signed when the process is about to change a file.
ForwardSigned == pc = "rename" => SignedId("apply_file_staged", k, "fwd")

UndoSigned == /\ pc \in {"rb_rename", "rb_commit", "rb_remove"}
                   => Signed("apply_rollback_file_staged", k)
              /\ pc = "rb_remove" => k \in Creates
              /\ pc = "rb_stage" => k \notin Creates

\* What a signature says of the temporary, or of the created file, it is about.
TempSigned ==
  \A i \in Ops :
    /\ rtemp[i] # "fwd"
    /\ i \in Creates => rtemp[i] = "none"
    /\ rtemp[i] = "rb" /\ Signed("apply_rollback_file_staged", i)
         => SignedId("apply_rollback_file_staged", i, "rb")

IntentSigned == \A i \in Creates : Signed("apply_rollback_file_staged", i)
                   => SignedId("apply_rollback_file_staged", i, "fwd")

AtPlace  == Covered /\ ForwardSigned /\ UndoSigned
OnRecord == TempSigned /\ IntentSigned /\ WriteAhead
AheadInv == AtPlace /\ OnRecord

----------------------------------------------------------------------------
(* What an accepted append does to the evidence.                           *)

\* Nothing is appended after a terminal receipt, and only to a store whose
\* manifest covers it.
LEMMA AcceptsOpen ==
  ASSUME TypeInv, NEW e \in Receipt, Accepts(e)
  PROVE  ~Terminated /\ cover = Len(log)
<1>1. log \in Seq(Receipt) /\ cover \in 0..Len(log)
  BY DEF TypeInv, TypeOK, StoreOK
<1>2. Framed(Append(log, e), FALSE)
  BY DEF Accepts, Contract
<1>3. ASSUME log # << >> PROVE log[Len(log)].ev \notin TerminalEvents
  <2>1. /\ Len(log) \in 1..Len(Append(log, e))
        /\ Len(log) < Len(Append(log, e))
        /\ Append(log, e)[Len(log)] = log[Len(log)]
    BY <1>1, <1>3
  <2> QED
    BY <1>2, <2>1 DEF Framed
<1>4. cover = Len(log)
  <2>1. CASE log = << >>
    BY <1>1, <2>1
  <2>2. CASE Status = "verified"
    BY <1>1, <2>2 DEF Status, Truncated
  <2> QED
    BY <2>1, <2>2 DEF Accepts
<1> QED
  BY <1>3, <1>4 DEF Terminated, LastEvent

\* An appended receipt adds what it says and takes nothing back.
LEMMA AppendSays ==
  ASSUME TypeInv, NEW e \in Receipt, log' = Append(log, e)
  PROVE  /\ \A v : Happened(v)' <=> Happened(v) \/ e.ev = v
         /\ \A v, i : Signed(v, i)' <=> Signed(v, i) \/ (e.ev = v /\ e.op = i)
         /\ \A v, i, x : SignedId(v, i, x)'
                           <=> \/ SignedId(v, i, x)
                               \/ e.ev = v /\ e.op = i /\ e.id = x
<1>1. log \in Seq(Receipt) /\ Len(log) \in Nat
  BY DEF TypeInv, TypeOK, StoreOK
<1>2. /\ Len(log') = Len(log) + 1 /\ log'[Len(log) + 1] = e
      /\ \A n \in 1..Len(log) : log'[n] = log[n]
  BY <1>1
<1>3. \A n : n \in 1..Len(log') <=> n \in 1..Len(log) \/ n = Len(log) + 1
  BY <1>1, <1>2
<1>4. \A v : Happened(v)' <=> Happened(v) \/ e.ev = v
  BY <1>2, <1>3 DEF Happened
<1>5. \A v, i : Signed(v, i)' <=> Signed(v, i) \/ (e.ev = v /\ e.op = i)
  BY <1>2, <1>3 DEF Signed
<1>6. \A v, i, x : SignedId(v, i, x)'
                     <=> \/ SignedId(v, i, x)
                         \/ e.ev = v /\ e.op = i /\ e.id = x
  BY <1>2, <1>3 DEF SignedId
<1> QED
  BY <1>4, <1>5, <1>6

\* An exception leaves everything durable but a temporary as it is, and the
\* process goes to a place where it does not act on evidence.
LEMMA RaiseKeeps ==
  ASSUME TypeInv, NEW why, NEW ahead, RaiseSkewed(why, ahead)
  PROVE  /\ UNCHANGED <<file, log, cover, marker>>
         /\ \A i \in Ops : rtemp'[i] \in {rtemp[i], "none"}
         /\ pc' \in {"handler", "give_up", "finish", "idle"}
<1>1. \A i \in Ops : rtemp'[i] \in {rtemp[i], "none"}
  BY DEF RaiseSkewed, Unwind, TypeInv, TypeOK, PrimaryOK
<1>2. pc' \in {"handler", "give_up", "finish", "idle"}
  BY DEF RaiseSkewed, Return
<1> QED
  BY <1>1, <1>2 DEF RaiseSkewed, store

----------------------------------------------------------------------------
(* A started application is found again.                                   *)

\* The guard invariant does not notice what leaves log and marker alone.
LEMMA QuietGuard ==
  ASSUME GuardInv, UNCHANGED <<log, marker>>,
         pc' \in BeforeStart => pc \in BeforeStart, pc' = "start" => pc = "start"
  PROVE  GuardInv'
BY DEF GuardInv, MarkerCarriesJournal, Happened, Terminated

\* An append keeps it: that the application starts is signed only at "start".
LEMMA EmitGuard ==
  ASSUME TypeInv, GuardInv, NEW e \in Receipt, NEW next, NEW i, Emit(e, next, i),
         e.ev = "apply_started" => pc = "start",
         next \in BeforeStart => pc \in BeforeStart /\ e.ev # "apply_started",
         next # "start"
  PROVE  GuardInv'
<1>1. CASE Accepts(e) /\ log' = Append(log, e) /\ Goto(next, i) /\ UNCHANGED marker
  <2>1. ~Terminated
    BY <1>1, AcceptsOpen
  <2>2. Happened("apply_started")' <=> Happened("apply_started") \/ e.ev = "apply_started"
    BY <1>1, AppendSays
  <2>3. Happened("apply_started")' => marker.hash
    BY <2>1, <2>2 DEF GuardInv, MarkerCarriesJournal
  <2> QED
    BY <1>1, <2>2, <2>3 DEF GuardInv, MarkerCarriesJournal, Goto
<1>2. CASE \E why, ahead : RaiseSkewed(why, ahead)
  BY <1>2, RaiseKeeps, QuietGuard DEF BeforeStart
<1> QED
  BY <1>1, <1>2 DEF Emit, Raise

\* apply up to its first operation: where the marker gets its hash.
LEMMA PrepareGuard ==
  ASSUME TypeInv, GuardInv,
         \/ Reserve \/ CreateAuthority \/ Prepare \/ MarkReserved
         \/ AppendPrepared \/ MarkPrepared \/ AppendStarted \/ MarkStarted
  PROVE  GuardInv'
<1>1. CASE Reserve
  BY <1>1, QuietGuard DEF Reserve, BeforeStart, store
<1>2. CASE CreateAuthority
  <2>1. Plain("apply_authority_created") \in Receipt
        /\ Plain("apply_authority_created").ev = "apply_authority_created"
    BY ReceiptType DEF Events, Plain
  <2> QED
    BY <1>2, <2>1, EmitGuard DEF CreateAuthority, BeforeStart
<1>3. CASE Prepare
  <2>1. CASE Raise("mismatch")
    BY <2>1, RaiseKeeps, QuietGuard DEF Raise, BeforeStart
  <2>2. CASE ~Raise("mismatch")
    BY <1>3, <2>2, QuietGuard DEF Prepare, BeforeStart, store
  <2> QED
    BY <2>1, <2>2
<1>4. CASE MarkReserved
  BY <1>4 DEF MarkReserved, GuardInv, BeforeStart, MarkerCarriesJournal, Happened,
     Terminated, store
<1>5. CASE AppendPrepared
  <2>1. Plain("apply_prepared") \in Receipt
        /\ Plain("apply_prepared").ev = "apply_prepared"
    BY ReceiptType DEF Events, Plain
  <2> QED
    BY <1>5, <2>1, EmitGuard DEF AppendPrepared, BeforeStart
<1>6. CASE MarkPrepared \/ MarkStarted
  <2>1. marker'.hash
    <3>1. Marked("prepared").hash /\ Marked("started").hash
      BY DEF Marked
    <3> QED
      BY <1>6, <3>1 DEF MarkPrepared, MarkStarted, MarkPhase
  <2>2. UNCHANGED log /\ (pc' = "start" => pc = "mark_prepared")
        /\ pc' \in {"start", "op"}
    BY <1>6 DEF MarkPrepared, MarkStarted, Goto, store
  <2> QED
    BY <2>1, <2>2 DEF GuardInv, BeforeStart, MarkerCarriesJournal, Happened
<1>7. CASE AppendStarted
  <2>1. Plain("apply_started") \in Receipt
    BY ReceiptType DEF Events
  <2> QED
    BY <1>7, <2>1, EmitGuard DEF AppendStarted, BeforeStart
<1> QED
  BY <1>1, <1>2, <1>3, <1>4, <1>5, <1>6, <1>7

\* Appends that are neither the first ones of apply nor its start.
LEMMA LaterEmitGuard ==
  ASSUME TypeInv, GuardInv, NEW e \in Receipt, NEW next, NEW i, Emit(e, next, i),
         e.ev # "apply_started", next \notin BeforeStart
  PROVE  GuardInv'
BY EmitGuard DEF BeforeStart

\* The files change, the marker does not.
LEMMA OperationGuard ==
  ASSUME TypeInv, GuardInv,
         \/ CreateTemp \/ AppendStaged \/ RenameForward \/ AppendWritten
         \/ AppendApplied
  PROVE  GuardInv'
<1>1. CASE \E why, ahead : RaiseSkewed(why, ahead)
  BY <1>1, RaiseKeeps, QuietGuard DEF BeforeStart
<1>2. CASE (CreateTemp \/ RenameForward) /\ UNCHANGED <<log, marker>>
           /\ pc' \in {"stage", "written"}
  BY <1>2, QuietGuard DEF BeforeStart
<1>3. CASE AppendStaged
  <2>1. k \in Ops
    BY <1>3 DEF AppendStaged, TypeInv, IndexInRange, InRange, AtOperation
  <2>2. Signing("apply_file_staged", k, "fwd") \in Receipt
        /\ Signing("apply_file_staged", k, "fwd").ev = "apply_file_staged"
    BY <2>1, ReceiptType DEF Events, Ids, Signing
  <2> QED
    BY <1>3, <2>2, LaterEmitGuard DEF AppendStaged, BeforeStart
<1>4. CASE AppendWritten
  <2>1. k \in Ops
    BY <1>4 DEF AppendWritten, TypeInv, IndexInRange, InRange, AtOperation
  <2>2. Progress("apply_file_written", k) \in Receipt
        /\ Progress("apply_file_written", k).ev = "apply_file_written"
    BY <2>1, ReceiptType DEF Events, Progress
  <2> QED
    BY <1>4, <2>2, LaterEmitGuard DEF AppendWritten, BeforeStart
<1>5. CASE AppendApplied /\ Emit(Plain("candidate_applied"), "t_seal", 0)
  <2>1. Plain("candidate_applied") \in Receipt
        /\ Plain("candidate_applied").ev = "candidate_applied"
    BY ReceiptType DEF Events, TerminalEvents, Plain
  <2> QED
    BY <1>5, <2>1, LaterEmitGuard DEF BeforeStart
<1> QED
  BY <1>1, <1>2, <1>3, <1>4, <1>5
     DEF CreateTemp, RenameForward, AppendApplied, Raise, store

\* The marker goes only over a terminal receipt.
LEMMA TerminalGuard ==
  ASSUME TypeInv, GuardInv, Terminal
  PROVE  GuardInv'
<1>1. CASE \E why, ahead : RaiseSkewed(why, ahead)
  BY <1>1, RaiseKeeps, QuietGuard DEF BeforeStart
<1>2. CASE ~(\E why, ahead : RaiseSkewed(why, ahead))
  <2>1. pc \in AtVerdict /\ Terminated
    BY DEF Terminal, Seal, MarkTerminal, ClearMarker, UpdateRecord, TypeInv,
       VerdictGiven, AtVerdict
  <2>2. UNCHANGED log
    BY <1>2 DEF Terminal, Seal, MarkTerminal, ClearMarker, UpdateRecord, store, Raise
  <2>3. pc' \notin BeforeStart
    BY <1>2 DEF Terminal, Seal, MarkTerminal, ClearMarker, UpdateRecord, BeforeStart,
       Return, Raise
  <2> QED
    BY <2>1, <2>2, <2>3 DEF GuardInv, MarkerCarriesJournal, Terminated, BeforeStart
<1> QED
  BY <1>1, <1>2

\* The exception handler only appends.
LEMMA HandlerGuard ==
  ASSUME TypeInv, GuardInv, Handler
  PROVE  GuardInv'
<1>1. CASE Finish
  BY <1>1, QuietGuard DEF Finish, Return, BeforeStart, store
<1>2. ASSUME NEW v \in {"apply_rejected", "apply_rollback_started",
                        "apply_recovery_required"}
      PROVE  Plain(v) \in Receipt /\ Plain(v).ev = v
  BY ReceiptType DEF Events, TerminalEvents, Plain
<1>3. CASE Reject \/ StartRollback \/ GiveUp
  BY <1>2, <1>3, LaterEmitGuard DEF Reject, StartRollback, GiveUp, BeforeStart
<1> QED
  BY <1>1, <1>3 DEF Handler

\* Undoing does not touch the marker.
LEMMA UndoGuard ==
  ASSUME TypeInv, GuardInv, Undo
  PROVE  GuardInv'
<1>1. CASE \E why, ahead : RaiseSkewed(why, ahead)
  BY <1>1, RaiseKeeps, QuietGuard DEF BeforeStart
<1>2. CASE SkipUntouched \/ ReuseStage \/ CreateRollbackTemp
  BY <1>2, QuietGuard DEF SkipUntouched, ReuseStage, CreateRollbackTemp, BeforeStart,
     store
<1>3. CASE (RenameBack \/ RemoveCreated) /\ UNCHANGED <<log, marker>>
           /\ pc' = "rb_restored"
  BY <1>3, QuietGuard DEF BeforeStart
<1>4. CASE AppendRestored
  <2>1. k \in Ops
    BY <1>4 DEF AppendRestored, TypeInv, IndexInRange, InRange, AtOperation
  <2>2. Progress("apply_rollback_file_restored", k) \in Receipt
        /\ Progress("apply_rollback_file_restored", k).ev = "apply_rollback_file_restored"
    BY <2>1, ReceiptType DEF Events, Progress
  <2> QED
    BY <1>4, <2>2, LaterEmitGuard DEF AppendRestored, BeforeStart
<1>5. CASE AppendDeleteIntent \/ AppendRollbackStaged
  <2>1. k \in Ops /\ rtemp[k] \in Ids
    <3>1. k \in Ops
      BY <1>5, EvidenceAssumption DEF AppendDeleteIntent, AppendRollbackStaged,
         TypeInv, IndexInRange, InRange, AtOperation, Ops
    <3> QED
      BY <3>1 DEF TypeInv, TypeOK, PrimaryOK
  <2>2. \A x \in Ids : Signing("apply_rollback_file_staged", k, x) \in Receipt
          /\ Signing("apply_rollback_file_staged", k, x).ev = "apply_rollback_file_staged"
    BY <2>1, ReceiptType DEF Events, Signing
  <2>3. "fwd" \in Ids
    BY DEF Ids
  <2> QED
    BY <1>5, <2>1, <2>2, <2>3, LaterEmitGuard
       DEF AppendDeleteIntent, AppendRollbackStaged, BeforeStart
<1>6. CASE AppendRolledBack /\ Emit(Plain("apply_rolled_back"), "t_seal", 0)
  <2>1. Plain("apply_rolled_back") \in Receipt
        /\ Plain("apply_rolled_back").ev = "apply_rolled_back"
    BY ReceiptType DEF Events, TerminalEvents, Plain
  <2> QED
    BY <1>6, <2>1, LaterEmitGuard DEF BeforeStart
<1> QED
  BY <1>1, <1>2, <1>3, <1>4, <1>5, <1>6
     DEF Undo, RefuseUndo, RenameBack, RemoveCreated, AppendRolledBack, Raise, store

\* Recovery keeps the hash the marker has.
LEMMA RecoverGuard ==
  ASSUME TypeInv, GuardInv, Recover
  PROVE  GuardInv'
<1>1. CASE \E why, ahead : RaiseSkewed(why, ahead)
  BY <1>1, RaiseKeeps, QuietGuard DEF BeforeStart
<1>2. CASE \/ RecoverNothing \/ RecoverRefused \/ RecoverTerminal \/ RecoverBegin
  BY <1>2, QuietGuard DEF RecoverNothing, RecoverRefused, RecoverTerminal,
     RecoverBegin, Goto, BeforeStart, store
<1>3. CASE RecoverScan /\ UNCHANGED <<log, marker>> /\ pc' = "scan"
  BY <1>3, QuietGuard DEF BeforeStart
<1>4. CASE RecoverMark
  <2>1. UNCHANGED log /\ pc' \in {"complete", "rb_begin"}
    BY <1>4 DEF RecoverMark, Goto, store
  <2>2. marker'.hash = marker.hash
    BY <1>4 DEF RecoverMark, TypeInv, TypeOK, GuardOK, Markers
  <2> QED
    BY <2>1, <2>2 DEF GuardInv, MarkerCarriesJournal, Happened, Terminated, BeforeStart
<1>5. CASE RecoverWritten \/ RecoverRollback
  <2>1. CASE UNCHANGED <<log, marker>> /\ pc' \in {"complete", "rb"}
    BY <2>1, QuietGuard DEF BeforeStart
  <2>2. CASE k \in Ops /\ Emit(Progress("apply_file_written", k), "complete", k + 1)
    <3>1. Progress("apply_file_written", k) \in Receipt
          /\ Progress("apply_file_written", k).ev = "apply_file_written"
      BY <2>2, ReceiptType DEF Events, Progress
    <3> QED
      BY <2>2, <3>1, LaterEmitGuard DEF BeforeStart
  <2>3. CASE Emit(Plain("apply_rollback_started"), "rb", N)
    <3>1. Plain("apply_rollback_started") \in Receipt
          /\ Plain("apply_rollback_started").ev = "apply_rollback_started"
      BY ReceiptType DEF Events, Plain
    <3> QED
      BY <2>3, <3>1, LaterEmitGuard DEF BeforeStart
  <2> QED
    BY <1>5, <2>1, <2>2, <2>3 DEF RecoverWritten, RecoverRollback, store
<1>6. CASE RecoverAbort \/ RecoverUnstarted
  <2>1. Plain("apply_rejected") \in Receipt
        /\ Plain("apply_rejected").ev = "apply_rejected"
    BY ReceiptType DEF Events, TerminalEvents, Plain
  <2> QED
    BY <1>6, <2>1, LaterEmitGuard DEF RecoverAbort, RecoverUnstarted, BeforeStart
<1> QED
  BY <1>1, <1>2, <1>3, <1>4, <1>5, <1>6 DEF Recover, RecoverScan, Raise, store

\* A crash forgets the process, a late failure of the reservation precedes the
\* start, and no other program writes receipts or markers.
LEMMA EnvironmentGuard ==
  ASSUME TypeInv, GuardInv, Environment
  PROVE  GuardInv'
<1>1. CASE \E why, ahead : RaiseSkewed(why, ahead)
  BY <1>1, RaiseKeeps, QuietGuard DEF BeforeStart
<1>2. CASE Crash \/ FaultNoChain
  BY <1>2, QuietGuard DEF Crash, FaultNoChain, Return, BeforeStart, store
<1>3. CASE LateFaultAnchor
  BY <1>3, QuietGuard DEF LateFaultAnchor, BeforeStart
<1>4. CASE LateFaultMarker
  BY <1>4 DEF LateFaultMarker, GuardInv, BeforeStart, MarkerCarriesJournal, Happened,
     store
<1>5. CASE ForeignWrite
  BY <1>5, QuietGuard DEF ForeignWrite, process, store
<1> QED
  BY <1>1, <1>2, <1>3, <1>4, <1>5 DEF Environment, Fault, Raise

\* The guard invariant holds at first.
LEMMA InitGuard == Init => GuardInv
BY DEF Init, GuardInv, BeforeStart, MarkerCarriesJournal, Happened

\* Every step keeps it.
LEMMA StepGuard == TypeInv /\ GuardInv /\ [Next]_vars => GuardInv'
<1> SUFFICES ASSUME TypeInv, GuardInv, [Next]_vars PROVE GuardInv'
  OBVIOUS
<1>1. CASE UNCHANGED vars
  BY <1>1, QuietGuard DEF vars, store, process
<1>2. CASE WriteManifest \/ WriteAnchor
  BY <1>2, QuietGuard DEF WriteManifest, WriteAnchor
<1>3. CASE Forward
  BY <1>3, PrepareGuard, OperationGuard DEF Forward
<1>4. CASE Server
  BY <1>2, <1>3, <1>4, TerminalGuard, HandlerGuard, UndoGuard, RecoverGuard
     DEF Server
<1> QED
  BY <1>1, <1>4, EnvironmentGuard DEF Next

\* An application that has signed its start and is not decided finds, whatever
\* crashed or failed, a marker with the journal hash that recovery verifies.
THEOREM MarkerFound == Spec => []MarkerCarriesJournal
<1>1. GuardInv => MarkerCarriesJournal
  BY DEF GuardInv
<1> QED
  BY <1>1, InitGuard, StepGuard, InitType, StepType, PTL DEF Spec

----------------------------------------------------------------------------
(* Evidence is written ahead of every change.                              *)

\* The places of the process where nothing is required.
Elsewhere == Steps \ (OnEvidence \cup {"rb_stage"})

\* There the first half of the invariant holds by itself.
LEMMA ElsewhereAtPlace == pc' \in Elsewhere => AtPlace'
BY DEF Elsewhere, AtPlace, Covered, ForwardSigned, UndoSigned, OnEvidence

\* What is signed and covered by the manifest survives a restart.
LEMMA SignedIsDurable ==
  ASSUME TypeInv, cover = Len(log), NEW v, NEW i \in Ops, NEW x, SignedId(v, i, x)
  PROVE  Durable(v, i, x)
<1>1. PICK n \in 1..Len(log) : log[n].ev = v /\ log[n].op = i /\ log[n].id = x
  BY DEF SignedId
<1>2. log[n] \in Receipt
  BY DEF TypeInv, TypeOK, StoreOK
<1>3. log[n] = Signing(v, i, x)
  BY <1>1, <1>2 DEF Receipt, Signing
<1> QED
  BY <1>1, <1>3 DEF Durable

\* A signed identity is a signature.
LEMMA SignedIdSigned ==
  ASSUME NEW v, NEW i, NEW x, SignedId(v, i, x)
  PROVE  Signed(v, i)
BY DEF SignedId, Signed

\* The record does not notice what leaves files and receipts alone and at most
\* removes rollback temporaries or extends the manifest.
LEMMA QuietRecord ==
  ASSUME TypeInv, OnRecord, UNCHANGED <<file, log>>, cover' \in {cover, Len(log)},
         \A i \in Ops : rtemp'[i] \in {rtemp[i], "none"}
  PROVE  OnRecord'
<1>1. TempSigned'
  BY DEF OnRecord, TempSigned, Signed, SignedId
<1>2. IntentSigned'
  BY DEF OnRecord, IntentSigned, Signed, SignedId
<1>3. \A v, i, x : Durable(v, i, x) => Durable(v, i, x)'
  BY DEF Durable, TypeInv, TypeOK, StoreOK
<1>4. WriteAhead'
  BY <1>3 DEF OnRecord, WriteAhead
<1> QED
  BY <1>1, <1>2, <1>4 DEF OnRecord

\* An append of a receipt that signs no undoing, or signs it truthfully.
LEMMA EmitRecord ==
  ASSUME TypeInv, OnRecord, NEW e \in Receipt, NEW next, NEW i, Emit(e, next, i),
         e.ev = "apply_rollback_file_staged" =>
            /\ e.op \in Ops
            /\ e.op \in Creates => e.id = "fwd"
            /\ e.op \notin Creates => e.id = rtemp[e.op]
  PROVE  OnRecord'
<1>1. CASE /\ log' = Append(log, e) /\ UNCHANGED <<file, rtemp, cover>>
  <2>1. TempSigned'
    BY <1>1, AppendSays DEF OnRecord, TempSigned
  <2>2. IntentSigned'
    BY <1>1, AppendSays, EvidenceAssumption DEF OnRecord, IntentSigned
  <2>3. \A v, j, x : Durable(v, j, x) => Durable(v, j, x)'
    <3>1. log \in Seq(Receipt) /\ cover \in 0..Len(log)
      BY DEF TypeInv, TypeOK, StoreOK
    <3>2. \A n \in 1..cover : log'[n] = log[n]
      BY <1>1, <3>1
    <3> QED
      BY <1>1, <3>2 DEF Durable
  <2>4. WriteAhead'
    BY <1>1, <2>3 DEF OnRecord, WriteAhead
  <2> QED
    BY <2>1, <2>2, <2>4 DEF OnRecord
<1>2. CASE \E why, ahead : RaiseSkewed(why, ahead)
  BY <1>2, RaiseKeeps, QuietRecord
<1> QED
  BY <1>1, <1>2 DEF Emit, Raise, primary

\* After an append the process waits for the manifest, so only what is signed is
\* required of the next place.
LEMMA EmitAtPlace ==
  ASSUME TypeInv, NEW e \in Receipt, NEW next \in Steps, NEW i, Emit(e, next, i),
         next = "rename" => e = Signing("apply_file_staged", i, "fwd"),
         next = "rb_rename" => e.ev = "apply_rollback_file_staged" /\ e.op = i,
         next = "rb_remove" => /\ e.ev = "apply_rollback_file_staged" /\ e.op = i
                               /\ i \in Creates,
         next \notin {"rb_commit", "rb_stage"}
  PROVE  AtPlace'
<1>1. CASE log' = Append(log, e) /\ io' = "manifest" /\ Goto(next, i)
  <2>1. ForwardSigned'
    BY <1>1, AppendSays DEF ForwardSigned, Goto, Signing
  <2>2. UndoSigned'
    BY <1>1, AppendSays DEF UndoSigned, Goto
  <2>3. Covered'
    BY <1>1 DEF Covered
  <2> QED
    BY <2>1, <2>2, <2>3 DEF AtPlace
<1>2. CASE \E why, ahead : RaiseSkewed(why, ahead)
  BY <1>2, RaiseKeeps, ElsewhereAtPlace DEF Elsewhere, OnEvidence, Steps
<1> QED
  BY <1>1, <1>2 DEF Emit, Raise

\* Both for the receipts that sign no identity.
LEMMA PlainEmitAhead ==
  ASSUME TypeInv, OnRecord, NEW e \in Receipt, NEW next \in Steps, NEW i,
         Emit(e, next, i), e.ev # "apply_rollback_file_staged",
         next \notin {"rename", "rb_rename", "rb_remove", "rb_commit", "rb_stage"}
  PROVE  AheadInv'
BY EmitAtPlace, EmitRecord DEF AheadInv

\* Steps that leave files and receipts alone and go where nothing is required.
LEMMA QuietAhead ==
  ASSUME TypeInv, OnRecord, UNCHANGED <<file, log>>, cover' \in {cover, Len(log)},
         \A i \in Ops : rtemp'[i] \in {rtemp[i], "none"}, pc' \in Elsewhere
  PROVE  AheadInv'
BY QuietRecord, ElsewhereAtPlace DEF AheadInv

\* An exception does.
LEMMA RaiseAhead ==
  ASSUME TypeInv, OnRecord, NEW why, NEW ahead, RaiseSkewed(why, ahead)
  PROVE  AheadInv'
BY RaiseKeeps, QuietAhead DEF Elsewhere, OnEvidence, Steps

\* The manifest and its anchor.
LEMMA ChainAhead ==
  ASSUME TypeInv, AheadInv, WriteManifest \/ WriteAnchor
  PROVE  AheadInv'
<1>1. /\ UNCHANGED <<file, rtemp, log, pc, k>>
      /\ \/ cover' = Len(log)
         \/ cover' = cover /\ io = "anchor"
  BY DEF WriteManifest, WriteAnchor, primary
<1>2. OnRecord'
  BY <1>1, QuietRecord DEF AheadInv
<1>3. AtPlace'
  BY <1>1 DEF AheadInv, AtPlace, Covered, ForwardSigned, UndoSigned, Signed, SignedId
<1> QED
  BY <1>2, <1>3 DEF AheadInv

\* apply, forward.
LEMMA ForwardAhead ==
  ASSUME TypeInv, AheadInv, Forward
  PROVE  AheadInv'
<1>1. CASE \E why, ahead : RaiseSkewed(why, ahead)
  BY <1>1, RaiseAhead DEF AheadInv
<1>2. CASE /\ Reserve \/ Prepare \/ MarkReserved \/ MarkPrepared \/ MarkStarted
              \/ CreateTemp
           /\ ~(\E why, ahead : RaiseSkewed(why, ahead))
  <2>1. UNCHANGED <<file, rtemp, log, cover>>
    BY <1>2 DEF Reserve, Prepare, MarkReserved, MarkPrepared, MarkStarted, CreateTemp,
       Raise, primary, store
  <2>2. pc' \in {"create", "reserve", "write_journal", "start", "op", "stage"}
    BY <1>2 DEF Reserve, Prepare, MarkReserved, MarkPrepared, MarkStarted, CreateTemp,
       Raise, Goto
  <2> QED
    BY <2>1, <2>2, QuietAhead DEF AheadInv, Elsewhere, OnEvidence, Steps
<1>3. ASSUME NEW v \in {"apply_authority_created", "apply_prepared", "apply_started",
                        "candidate_applied"}
      PROVE  Plain(v) \in Receipt /\ Plain(v).ev = v
  BY ReceiptType DEF Events, TerminalEvents, Plain
<1>4. CASE \/ CreateAuthority \/ AppendPrepared \/ AppendStarted
           \/ Emit(Plain("candidate_applied"), "t_seal", 0)
  <2>1. {"prepare", "mark_prepared", "mark_started", "t_seal"} \subseteq Steps
    BY DEF Steps
  <2> QED
    BY <1>3, <1>4, <2>1, PlainEmitAhead
       DEF CreateAuthority, AppendPrepared, AppendStarted, AheadInv
<1>5. CASE AppendWritten
  <2>1. k \in Ops
    BY <1>5 DEF AppendWritten, TypeInv, IndexInRange, InRange, AtOperation
  <2>2. Progress("apply_file_written", k) \in Receipt
        /\ Progress("apply_file_written", k).ev = "apply_file_written"
    BY <2>1, ReceiptType DEF Events, Progress
  <2> QED
    BY <1>5, <2>2, PlainEmitAhead DEF AppendWritten, AheadInv, Steps
<1>6. CASE AppendStaged
  <2>1. k \in Ops
    BY <1>6 DEF AppendStaged, TypeInv, IndexInRange, InRange, AtOperation
  <2>2. Signing("apply_file_staged", k, "fwd") \in Receipt
        /\ Signing("apply_file_staged", k, "fwd").ev = "apply_file_staged"
    BY <2>1, ReceiptType DEF Events, Ids, Signing
  <2> QED
    BY <1>6, <2>2, EmitAtPlace, EmitRecord DEF AppendStaged, AheadInv, Steps
<1>7. CASE /\ RenameForward /\ file' = [file EXCEPT ![k] = Desired]
           /\ pc' = "written" /\ UNCHANGED <<rtemp, store>>
  <2>1. k \in Ops /\ cover = Len(log) /\ SignedId("apply_file_staged", k, "fwd")
    BY <1>7 DEF RenameForward, TypeInv, IndexInRange, InRange, AtOperation, AheadInv,
       AtPlace, Covered, ForwardSigned, OnEvidence
  <2>2. Durable("apply_file_staged", k, "fwd")
    BY <2>1, SignedIsDurable
  <2>3. WriteAhead'
    BY <1>7, <2>1, <2>2 DEF AheadInv, OnRecord, WriteAhead, Durable, Desired, TypeInv,
       TypeOK, PrimaryOK, store
  <2>4. TempSigned' /\ IntentSigned'
    BY <1>7 DEF AheadInv, OnRecord, TempSigned, IntentSigned, Signed, SignedId, store
  <2>5. AtPlace'
    BY <1>7, ElsewhereAtPlace DEF Elsewhere, OnEvidence, Steps
  <2> QED
    BY <2>3, <2>4, <2>5 DEF AheadInv, OnRecord
<1> QED
  BY <1>1, <1>2, <1>4, <1>5, <1>6, <1>7 DEF Forward, RenameForward, AppendApplied, Raise

\* After the verdict, and in the exception handler.
LEMMA CloseAhead ==
  ASSUME TypeInv, AheadInv, Terminal \/ Handler
  PROVE  AheadInv'
<1>1. CASE \E why, ahead : RaiseSkewed(why, ahead)
  BY <1>1, RaiseAhead DEF AheadInv
<1>2. CASE (Terminal \/ Finish) /\ ~(\E why, ahead : RaiseSkewed(why, ahead))
  <2>1. UNCHANGED <<file, rtemp, log, cover>>
    BY <1>2 DEF Terminal, Seal, MarkTerminal, ClearMarker, UpdateRecord, Finish, Raise,
       primary, store
  <2>2. pc' \in {"t_mark", "t_record", "t_clear", "idle"}
    BY <1>2 DEF Terminal, Seal, MarkTerminal, ClearMarker, UpdateRecord, Finish, Raise,
       Return
  <2> QED
    BY <2>1, <2>2, QuietAhead DEF AheadInv, Elsewhere, OnEvidence, Steps
<1>3. ASSUME NEW v \in {"apply_rejected", "apply_rollback_started",
                        "apply_recovery_required"}
      PROVE  Plain(v) \in Receipt /\ Plain(v).ev = v
  BY ReceiptType DEF Events, TerminalEvents, Plain
<1>4. CASE Reject \/ StartRollback \/ GiveUp
  BY <1>3, <1>4, PlainEmitAhead DEF Reject, StartRollback, GiveUp, AheadInv, Steps
<1> QED
  BY <1>1, <1>2, <1>4 DEF Handler

\* Undoing one operation: temporaries, receipts and the way between them.
LEMMA UndoSignsAhead ==
  ASSUME TypeInv, AheadInv,
         \/ SkipUntouched \/ AppendRestored \/ RefuseUndo \/ AppendDeleteIntent
         \/ ReuseStage \/ CreateRollbackTemp \/ AppendRollbackStaged
         \/ AppendRolledBack
  PROVE  AheadInv'
<1>1. CASE \E why, ahead : RaiseSkewed(why, ahead)
  BY <1>1, RaiseAhead DEF AheadInv
<1>2. CASE SkipUntouched \/ ReuseStage
  <2>1. pc = "rb" /\ io = "idle" /\ io' = "idle" /\ UNCHANGED <<file, rtemp, log, cover>>
    BY <1>2 DEF SkipUntouched, ReuseStage, primary, store
  <2>2. cover' = Len(log')
    BY <2>1 DEF AheadInv, AtPlace, Covered, OnEvidence
  <2>3. \/ pc' = "rb"
        \/ /\ pc' \in {"rb_remove", "rb_commit"} /\ k' = k
           /\ Signed("apply_rollback_file_staged", k)
           /\ pc' = "rb_remove" => k \in Creates
    BY <1>2 DEF SkipUntouched, ReuseStage
  <2>4. AtPlace'
    BY <2>1, <2>2, <2>3 DEF AtPlace, Covered, ForwardSigned, UndoSigned, Signed
  <2> QED
    BY <2>1, <2>4, QuietRecord DEF AheadInv
<1>3. CASE AppendRestored
  <2>1. k \in Ops
    BY <1>3 DEF AppendRestored, TypeInv, IndexInRange, InRange, AtOperation
  <2>2. Progress("apply_rollback_file_restored", k) \in Receipt
        /\ Progress("apply_rollback_file_restored", k).ev = "apply_rollback_file_restored"
    BY <2>1, ReceiptType DEF Events, Progress
  <2> QED
    BY <1>3, <2>2, PlainEmitAhead DEF AppendRestored, AheadInv, Steps
<1>4. CASE AppendDeleteIntent
  <2>1. k \in Ops /\ k \in Creates
    BY <1>4, EvidenceAssumption DEF AppendDeleteIntent, Ops
  <2>2. Signing("apply_rollback_file_staged", k, "fwd") \in Receipt
    BY <2>1, ReceiptType DEF Events, Ids
  <2>3. /\ Signing("apply_rollback_file_staged", k, "fwd").ev = "apply_rollback_file_staged"
        /\ Signing("apply_rollback_file_staged", k, "fwd").op = k
        /\ Signing("apply_rollback_file_staged", k, "fwd").id = "fwd"
    BY DEF Signing
  <2> QED
    BY <1>4, <2>1, <2>2, <2>3, EmitAtPlace, EmitRecord
       DEF AppendDeleteIntent, AheadInv, Steps
<1>5. CASE CreateRollbackTemp
  <2>1. /\ k \in Ops /\ k \notin Creates /\ ~Signed("apply_rollback_file_staged", k)
        /\ pc' = "rb_stage" /\ k' = k /\ UNCHANGED <<file, log, cover>>
        /\ \E x \in {"rb", "orig"} : rtemp' = [rtemp EXCEPT ![k] = x]
    BY <1>5 DEF CreateRollbackTemp, FreshIds, store
  <2>2. AtPlace'
    BY <2>1 DEF AtPlace, Covered, ForwardSigned, UndoSigned, OnEvidence
  <2>3. TempSigned'
    BY <2>1 DEF AheadInv, OnRecord, TempSigned, Signed, SignedId, TypeInv, TypeOK,
       PrimaryOK
  <2>4. IntentSigned' /\ WriteAhead'
    BY <2>1 DEF AheadInv, OnRecord, IntentSigned, WriteAhead, Signed, SignedId, Durable
  <2> QED
    BY <2>2, <2>3, <2>4 DEF AheadInv, OnRecord
<1>6. CASE AppendRollbackStaged
  <2>1. k \in Ops /\ k \notin Creates
    BY <1>6 DEF AppendRollbackStaged, TypeInv, IndexInRange, InRange, AtOperation,
       AheadInv, AtPlace, UndoSigned
  <2>2. rtemp[k] \in Ids
    BY <2>1 DEF TypeInv, TypeOK, PrimaryOK
  <2>3. Signing("apply_rollback_file_staged", k, rtemp[k]) \in Receipt
    BY <2>1, <2>2, ReceiptType DEF Events
  <2>4. /\ Signing("apply_rollback_file_staged", k, rtemp[k]).ev = "apply_rollback_file_staged"
        /\ Signing("apply_rollback_file_staged", k, rtemp[k]).op = k
        /\ Signing("apply_rollback_file_staged", k, rtemp[k]).id = rtemp[k]
    BY DEF Signing
  <2> QED
    BY <1>6, <2>1, <2>3, <2>4, EmitAtPlace, EmitRecord
       DEF AppendRollbackStaged, AheadInv, Steps
<1>7. CASE Emit(Plain("apply_rolled_back"), "t_seal", 0)
  <2>1. Plain("apply_rolled_back") \in Receipt
        /\ Plain("apply_rolled_back").ev = "apply_rolled_back"
    BY ReceiptType DEF Events, TerminalEvents, Plain
  <2> QED
    BY <1>7, <2>1, PlainEmitAhead DEF AheadInv, Steps
<1> QED
  BY <1>1, <1>2, <1>3, <1>4, <1>5, <1>6, <1>7
     DEF RefuseUndo, AppendRolledBack, Raise

\* Undoing one operation: the rename or the removal that was signed.
LEMMA UndoActsAhead ==
  ASSUME TypeInv, AheadInv, RenameBack \/ RemoveCreated
  PROVE  AheadInv'
<1>1. CASE \E why, ahead : RaiseSkewed(why, ahead)
  BY <1>1, RaiseAhead DEF AheadInv
<1>2. CASE ~(\E why, ahead : RaiseSkewed(why, ahead))
  <2>1. /\ pc \in {"rb_rename", "rb_commit", "rb_remove"} /\ io = "idle"
        /\ pc' = "rb_restored" /\ UNCHANGED <<log, cover>>
        /\ \/ /\ file' = [file EXCEPT ![k] = [c |-> "before", id |-> rtemp[k]]]
              /\ rtemp' = [rtemp EXCEPT ![k] = "none"]
           \/ file' = [file EXCEPT ![k] = Absent] /\ UNCHANGED rtemp
    BY <1>2 DEF RenameBack, RemoveCreated, Raise, store
  <2>2. /\ k \in Ops /\ cover = Len(log)
        /\ Signed("apply_rollback_file_staged", k)
    BY <2>1 DEF TypeInv, IndexInRange, InRange, AtOperation, AheadInv, AtPlace, Covered,
       UndoSigned, OnEvidence
  <2>3. AtPlace'
    BY <2>1, ElsewhereAtPlace DEF Elsewhere, OnEvidence, Steps
  <2>4. TempSigned' /\ IntentSigned'
    BY <2>1, <2>2 DEF AheadInv, OnRecord, TempSigned, IntentSigned, Signed, SignedId,
       TypeInv, TypeOK, PrimaryOK
  <2>5. /\ rtemp[k] # "fwd"
        /\ rtemp[k] = "rb" => Durable("apply_rollback_file_staged", k, "rb")
    BY <2>2, SignedIsDurable DEF AheadInv, OnRecord, TempSigned
  <2>6. /\ \A i \in Ops \ {k} : file'[i] = file[i]
        /\ file'[k].id \in {rtemp[k], "none"}
    BY <2>1, <2>2 DEF TypeInv, TypeOK, PrimaryOK, Absent
  <2>7. \A v, i, x : Durable(v, i, x)' <=> Durable(v, i, x)
    BY <2>1 DEF Durable
  <2>8. WriteAhead'
    BY <2>5, <2>6, <2>7 DEF AheadInv, OnRecord, WriteAhead
  <2> QED
    BY <2>3, <2>4, <2>8 DEF AheadInv, OnRecord
<1> QED
  BY <1>1, <1>2

\* Recovery acts only on a store whose manifest covers it.
LEMMA RecoverAhead ==
  ASSUME TypeInv, AheadInv, Recover
  PROVE  AheadInv'
<1>1. CASE \E why, ahead : RaiseSkewed(why, ahead)
  BY <1>1, RaiseAhead DEF AheadInv
<1>2. CASE RecoverNothing \/ RecoverRefused \/ RecoverTerminal
  <2>1. UNCHANGED <<file, rtemp, log, cover>> /\ pc' \in {"idle", "t_record", "t_seal"}
    BY <1>2 DEF RecoverNothing, RecoverRefused, RecoverTerminal, Idle, primary, store
  <2> QED
    BY <2>1, QuietAhead DEF AheadInv, Elsewhere, OnEvidence, Steps
<1>3. CASE \/ RecoverBegin \/ RecoverMark
           \/ RecoverScan /\ ~(\E why, ahead : RaiseSkewed(why, ahead))
  <2>1. /\ UNCHANGED <<file, rtemp, log, cover>>
        /\ pc' \in {"scan", "abort", "complete", "rb_begin"}
    BY <1>3 DEF RecoverBegin, RecoverMark, RecoverScan, Goto, Raise, primary, store
  <2>2. cover = Len(log)
    <3>1. CASE RecoverBegin
      <4>1. Status = "verified"
        BY <3>1 DEF RecoverBegin, Refusal
      <4> QED
        BY <4>1 DEF Status, Truncated, TypeInv, TypeOK, StoreOK
    <3>2. CASE RecoverMark \/ RecoverScan
      BY <3>2 DEF RecoverMark, RecoverScan, AheadInv, AtPlace, Covered, OnEvidence
    <3> QED
      BY <1>3, <3>1, <3>2
  <2>3. AtPlace'
    BY <2>1, <2>2 DEF AtPlace, Covered, ForwardSigned, UndoSigned, OnEvidence
  <2> QED
    BY <2>1, <2>3, QuietRecord DEF AheadInv
<1>4. CASE pc = "complete" /\ UNCHANGED <<primary, store, pc>>
  BY <1>4, QuietAhead DEF AheadInv, Elsewhere, OnEvidence, Steps, primary, store
<1>5. CASE pc = "rb_begin" /\ io = "idle" /\ pc' = "rb" /\ UNCHANGED <<primary, store>>
  <2>1. AtPlace'
    BY <1>5 DEF AheadInv, AtPlace, Covered, ForwardSigned, UndoSigned, OnEvidence, store
  <2> QED
    BY <1>5, <2>1, QuietRecord DEF AheadInv, primary, store
<1>6. CASE RecoverAbort \/ RecoverUnstarted
  <2>1. Plain("apply_rejected") \in Receipt /\ Plain("apply_rejected").ev = "apply_rejected"
    BY ReceiptType DEF Events, TerminalEvents, Plain
  <2> QED
    BY <1>6, <2>1, PlainEmitAhead DEF RecoverAbort, RecoverUnstarted, AheadInv, Steps
<1>7. CASE k \in Ops /\ Emit(Progress("apply_file_written", k), "complete", k + 1)
  <2>1. Progress("apply_file_written", k) \in Receipt
        /\ Progress("apply_file_written", k).ev = "apply_file_written"
    BY <1>7, ReceiptType DEF Events, Progress
  <2> QED
    BY <1>7, <2>1, PlainEmitAhead DEF AheadInv, Steps
<1>8. CASE Emit(Plain("apply_rollback_started"), "rb", N)
  <2>1. Plain("apply_rollback_started") \in Receipt
        /\ Plain("apply_rollback_started").ev = "apply_rollback_started"
    BY ReceiptType DEF Events, Plain
  <2> QED
    BY <1>8, <2>1, PlainEmitAhead DEF AheadInv, Steps
<1> QED
  BY <1>1, <1>2, <1>3, <1>4, <1>5, <1>6, <1>7, <1>8
     DEF Recover, RecoverScan, RecoverWritten, RecoverRollback, Raise

\* The environment writes no receipt and no identity of the protocol.
LEMMA EnvironmentAhead ==
  ASSUME TypeInv, AheadInv, Environment
  PROVE  AheadInv'
<1>1. CASE Fault
  BY <1>1, RaiseAhead DEF Fault, Raise, AheadInv
<1>2. CASE Crash \/ FaultNoChain \/ LateFaultMarker
  <2>1. UNCHANGED <<file, rtemp, log, cover>> /\ pc' \in {"idle", "handler"}
    BY <1>2 DEF Crash, FaultNoChain, LateFaultMarker, Return, primary, store
  <2> QED
    BY <2>1, QuietAhead DEF AheadInv, Elsewhere, OnEvidence, Steps
<1>3. CASE LateFaultAnchor
  <2>1. UNCHANGED <<file, log, cover>> /\ pc' = "handler"
    BY <1>3 DEF LateFaultAnchor
  <2>2. \A i \in Ops : rtemp'[i] \in {rtemp[i], "none"}
    BY <1>3 DEF LateFaultAnchor, Unwind, TypeInv, TypeOK, PrimaryOK
  <2> QED
    BY <2>1, <2>2, QuietAhead DEF AheadInv, Elsewhere, OnEvidence, Steps
<1>4. CASE ForeignWrite
  <2>1. UNCHANGED <<rtemp, log, cover, pc, k, io>>
    BY <1>4 DEF ForeignWrite, process, store
  <2>2. \A i \in Ops : file'[i].id \in {file[i].id, "none"} \cup ForeignIds
    <3>1. \A i \in Ops : \A f \in ForeignFiles(i) : f.id \in {"none"} \cup ForeignIds
      BY DEF ForeignFiles, Absent
    <3> QED
      BY <1>4, <3>1 DEF ForeignWrite, TypeInv, TypeOK, PrimaryOK
  <2>3. WriteAhead'
    BY <2>1, <2>2 DEF AheadInv, OnRecord, WriteAhead, Durable, ForeignIds
  <2>4. TempSigned' /\ IntentSigned' /\ AtPlace'
    BY <2>1 DEF AheadInv, OnRecord, TempSigned, IntentSigned, AtPlace, Covered,
       ForwardSigned, UndoSigned, Signed, SignedId
  <2> QED
    BY <2>3, <2>4 DEF AheadInv, OnRecord
<1> QED
  BY <1>1, <1>2, <1>3, <1>4 DEF Environment

\* The evidence invariant holds at first.
LEMMA InitAhead == Init => AheadInv
<1> SUFFICES ASSUME Init PROVE AheadInv
  OBVIOUS
<1>1. AtPlace
  BY DEF Init, AtPlace, Covered, ForwardSigned, UndoSigned, OnEvidence
<1>2. \A v, i : ~Signed(v, i)
  BY DEF Init, Signed
<1>3. TempSigned /\ IntentSigned
  BY <1>2 DEF Init, TempSigned, IntentSigned
<1>4. \A i \in Ops : file[i].id \in {"none", "orig"}
  BY DEF Init, Absent
<1>5. WriteAhead
  BY <1>4 DEF WriteAhead
<1> QED
  BY <1>1, <1>3, <1>5 DEF AheadInv, OnRecord

\* Every step keeps it.
LEMMA StepAhead == TypeInv /\ AheadInv /\ [Next]_vars => AheadInv'
<1> SUFFICES ASSUME TypeInv, AheadInv, [Next]_vars PROVE AheadInv'
  OBVIOUS
<1>1. CASE UNCHANGED vars
  BY <1>1 DEF vars, primary, store, process, AheadInv, OnRecord, AtPlace, Covered,
     ForwardSigned, UndoSigned, TempSigned, IntentSigned, WriteAhead, Signed, SignedId,
     Durable
<1>2. CASE Undo
  BY <1>2, UndoSignsAhead, UndoActsAhead DEF Undo
<1>3. CASE Server
  BY <1>2, <1>3, ChainAhead, ForwardAhead, CloseAhead, RecoverAhead DEF Server
<1> QED
  BY <1>1, <1>3, EnvironmentAhead DEF Next

\* Whenever a target carries an identity the protocol made, a receipt that a
\* restart will believe signed that identity for that operation.
THEOREM EvidenceAhead == Spec => []WriteAhead
<1>1. AheadInv => WriteAhead
  BY DEF AheadInv, OnRecord
<1> QED
  BY <1>1, InitType, StepType, InitAhead, StepAhead, PTL DEF Spec

\* The steps that change a target: one rename or removal by the process, of a
\* target that is what it must be, or a write of another program.
FileChange ==
  \/ UNCHANGED file
  \/ RenameForward /\ AsPrepared(k) /\ file' = [file EXCEPT ![k] = Desired]
  \/ /\ RenameBack /\ file[k] = Desired
     /\ file' = [file EXCEPT ![k] = [c |-> "before", id |-> rtemp[k]]]
  \/ RemoveCreated /\ file[k] = Desired /\ file' = [file EXCEPT ![k] = Absent]
  \/ ForeignWrite

\* No other step changes a target.
LEMMA FileChanges == ASSUME Next PROVE FileChange
<1>1. \A why, ahead : RaiseSkewed(why, ahead) => UNCHANGED file
  BY DEF RaiseSkewed
<1>2. \A e, next, i : Emit(e, next, i) => UNCHANGED file
  BY <1>1 DEF Emit, Raise, primary
<1>3. CASE WriteManifest \/ WriteAnchor \/ Terminal \/ Handler
  <2>1. UNCHANGED file
    BY <1>1, <1>2, <1>3 DEF WriteManifest, WriteAnchor, Terminal, Handler, Seal,
       MarkTerminal, ClearMarker, UpdateRecord, Reject, StartRollback, GiveUp, Finish,
       Raise, primary
  <2> QED
    BY <2>1 DEF FileChange
<1>4. CASE RenameForward
  BY <1>1, <1>4 DEF RenameForward, FileChange, Raise
<1>5. CASE RenameBack \/ RemoveCreated
  BY <1>1, <1>5 DEF RenameBack, RemoveCreated, FileChange, Raise
<1>6. CASE Forward /\ ~RenameForward
  <2>1. UNCHANGED file
    BY <1>1, <1>2, <1>6 DEF Forward, Reserve, CreateAuthority, Prepare, MarkReserved,
       AppendPrepared, MarkPrepared, AppendStarted, MarkStarted, CreateTemp,
       AppendStaged, AppendWritten, AppendApplied, Raise, primary
  <2> QED
    BY <2>1 DEF FileChange
<1>7. CASE Undo /\ ~(RenameBack \/ RemoveCreated)
  <2>1. UNCHANGED file
    BY <1>1, <1>2, <1>7 DEF Undo, SkipUntouched, AppendRestored, RefuseUndo,
       AppendDeleteIntent, ReuseStage, CreateRollbackTemp, AppendRollbackStaged,
       AppendRolledBack, Raise, primary
  <2> QED
    BY <2>1 DEF FileChange
<1>8. CASE Recover
  <2>1. UNCHANGED file
    BY <1>1, <1>2, <1>8 DEF Recover, RecoverNothing, RecoverRefused, RecoverTerminal,
       RecoverBegin, RecoverAbort, RecoverScan, RecoverUnstarted, RecoverMark,
       RecoverWritten, RecoverRollback, Raise, primary
  <2> QED
    BY <2>1 DEF FileChange
<1>9. CASE Environment
  BY <1>1, <1>9 DEF Environment, Crash, Fault, FaultNoChain, LateFaultAnchor,
     LateFaultMarker, Raise, primary, FileChange
<1> QED
  BY <1>3, <1>4, <1>5, <1>6, <1>7, <1>8, <1>9 DEF Next, Server

\* The protocol never replaces or removes a target that is neither what apply
\* prepared nor the result it signed.
THEOREM ForeignKept == Spec => ForeignSurvives
<1> DEFINE Kept == \A i \in Ops : (file'[i] # file[i] /\ edits' = edits)
          => Result(i) \/ file[i] = [c |-> BaseFile(i), id |-> journal[i]]
<1>1. TypeInv /\ [Next]_vars => [Kept]_vars
  <2> SUFFICES ASSUME TypeInv, Next, NEW i \in Ops, file'[i] # file[i], edits' = edits
               PROVE  Result(i) \/ file[i] = [c |-> BaseFile(i), id |-> journal[i]]
    BY DEF Kept
  <2>1. ~ForeignWrite
    BY DEF ForeignWrite, TypeInv, TypeOK, BudgetOK
  <2>2. /\ AsPrepared(k) \/ file[k] = Desired
        /\ \E f : file' = [file EXCEPT ![k] = f]
    BY <2>1, FileChanges DEF FileChange
  <2>3. i = k
    BY <2>2 DEF TypeInv, TypeOK, PrimaryOK
  <2>4. file[i] \in [c : {"absent", "before", "after", "third"}, id : Ids]
    BY DEF TypeInv, TypeOK, PrimaryOK, FileStates
  <2>5. AsPrepared(k) => file[i] = [c |-> BaseFile(i), id |-> journal[i]]
    BY <2>3, <2>4 DEF AsPrepared
  <2> QED
    BY <2>2, <2>3, <2>5 DEF Result
<1> QED
  BY <1>1, InitType, StepType, PTL DEF Spec, ForeignSurvives

\* A created file is removed by the protocol only after a delete intent that a
\* restart will believe.
THEOREM RemovalSigned == Spec => RemovalIsSigned
<1> DEFINE Removal == \A i \in Ops :
                        file'[i] = Absent /\ file[i] # Absent /\ edits' = edits
                          => Durable("apply_rollback_file_staged", i, "fwd")
<1>1. TypeInv /\ AheadInv /\ [Next]_vars => [Removal]_vars
  <2> SUFFICES ASSUME TypeInv, AheadInv, Next PROVE Removal
    OBVIOUS
  <2>1. CASE UNCHANGED file
    BY <2>1
  <2>2. CASE RenameForward /\ file' = [file EXCEPT ![k] = Desired]
    BY <2>2 DEF Desired, Absent, TypeInv, TypeOK, PrimaryOK
  <2>3. CASE RenameBack /\ file' = [file EXCEPT ![k] = [c |-> "before", id |-> rtemp[k]]]
    BY <2>3 DEF Absent, TypeInv, TypeOK, PrimaryOK
  <2>4. CASE RemoveCreated /\ file' = [file EXCEPT ![k] = Absent]
    <3>1. k \in Ops /\ k \in Creates /\ cover = Len(log)
          /\ Signed("apply_rollback_file_staged", k)
      BY <2>4 DEF RemoveCreated, TypeInv, IndexInRange, InRange, AtOperation, AheadInv,
         AtPlace, Covered, UndoSigned, OnEvidence
    <3>2. Durable("apply_rollback_file_staged", k, "fwd")
      BY <3>1, SignedIsDurable DEF AheadInv, OnRecord, IntentSigned
    <3>3. \A i \in Ops \ {k} : file'[i] = file[i]
      BY <2>4 DEF TypeInv, TypeOK, PrimaryOK
    <3> QED
      BY <3>2, <3>3
  <2>5. CASE ForeignWrite
    BY <2>5 DEF ForeignWrite, TypeInv, TypeOK, BudgetOK
  <2>6. FileChange
    BY FileChanges
  <2> QED
    BY <2>1, <2>2, <2>3, <2>4, <2>5, <2>6 DEF FileChange
<1> QED
  BY <1>1, InitType, StepType, InitAhead, StepAhead, PTL DEF Spec, RemovalIsSigned

----------------------------------------------------------------------------
(* The three kinds of steps: an exception, an append, and all others.      *)

USE DEF Goto

Raised == /\ Busy /\ edits' = edits
          /\ \E why, ahead : why \notin Outcomes /\ RaiseSkewed(why, ahead)

\* An append that is accepted and reaches the file.
Written(e, next, i) ==
  /\ Accepts(e) /\ log' = Append(log, e) /\ io = "idle" /\ io' = "manifest"
  /\ pc' = next /\ k' = i
  /\ UNCHANGED <<file, ftemp, rtemp, context, cover, pend, sealed, marker, record, who,
                 started, reply, edits>>

\* Which receipt the process signs where, and where it goes.
Says(e, next, i) ==
  \/ pc = "create" /\ e.ev = "apply_authority_created" /\ next = "prepare"
  \/ pc = "write_journal" /\ e.ev = "apply_prepared" /\ next = "mark_prepared"
  \/ pc = "start" /\ e.ev = "apply_started" /\ next = "mark_started"
  \/ pc = "stage" /\ e.ev = "apply_file_staged" /\ next = "rename"
  \/ pc = "written" /\ e.ev = "apply_file_written" /\ next = "op"
  \/ pc \in {"op", "complete"} /\ e.ev = "candidate_applied" /\ next = "t_seal"
     /\ ResultInPlace
  \/ pc = "handler" /\ e.ev = "apply_rejected" /\ next = "t_seal"
  \/ pc = "handler" /\ started /\ e.ev = "apply_rollback_started" /\ next = "rb"
  \/ pc = "give_up" /\ e.ev = "apply_recovery_required" /\ next = "finish"
  \/ pc \in {"rb", "rb_restored"} /\ e.ev = "apply_rollback_file_restored" /\ next = "rb"
  \/ pc = "rb" /\ k \in Creates /\ next = "rb_remove"
     /\ e.ev = "apply_rollback_file_staged" /\ e.op = k
  \/ pc = "rb_stage" /\ next = "rb_rename" /\ i = k
     /\ e.ev = "apply_rollback_file_staged" /\ e.op = k /\ e.id = rtemp[k]
  \/ pc = "rb" /\ e.ev = "apply_rolled_back" /\ next = "t_seal" /\ BaseIntact
  \/ pc \in {"abort", "scan"} /\ e.ev = "apply_rejected" /\ next = "t_seal"
  \/ pc = "complete" /\ e.ev = "apply_file_written" /\ next = "complete"
  \/ pc = "rb_begin" /\ e.ev = "apply_rollback_started" /\ next = "rb"

Appends == \E e \in Receipt : \E next, i : Written(e, next, i) /\ Says(e, next, i)

\* Steps that neither append nor raise, the process's own and the others.
ForwardWork == \/ Reserve \/ MarkReserved \/ MarkPrepared \/ MarkStarted \/ Prepare
               \/ CreateTemp \/ RenameForward

CloseWork == \/ WriteManifest \/ WriteAnchor \/ Seal \/ MarkTerminal \/ ClearMarker
             \/ UpdateRecord \/ Finish

UndoWork == \/ SkipUntouched \/ ReuseStage \/ CreateRollbackTemp \/ RenameBack
            \/ RemoveCreated
            \/ UNCHANGED log /\ RecoverRollback

RecoverWork == \/ RecoverNothing \/ RecoverRefused \/ RecoverTerminal \/ RecoverBegin
               \/ RecoverMark \/ RecoverScan
               \/ UNCHANGED log /\ RecoverWritten

Works == ForwardWork \/ CloseWork \/ UndoWork \/ RecoverWork

Befalls == Crash \/ FaultNoChain \/ LateFaultAnchor \/ LateFaultMarker \/ ForeignWrite

\* An exception a step raises is one.
LEMMA RaisesAs ==
  ASSUME NEW why, why \notin Outcomes, Raise(why), UNCHANGED budget, Busy
  PROVE  Raised
BY DEF Raise, Raised, budget

\* An append a step makes is refused, fails, or is written.
LEMMA EmitsAs ==
  ASSUME NEW e \in Receipt, NEW next, NEW i, Emit(e, next, i), Busy, io = "idle",
         Says(e, next, i)
  PROVE  Raised \/ Appends
<1>1. "refused" \notin Outcomes /\ "failed" \notin Outcomes
  BY DEF Outcomes
<1>2. Raised \/ Written(e, next, i)
  BY <1>1, RaisesAs DEF Emit, Written, Raised, primary, store, locals, budget
<1> QED
  BY <1>2 DEF Appends

\* apply, forward.
LEMMA ForwardAs ==
  ASSUME TypeInv, Forward
  PROVE  Raised \/ Appends \/ Works
<1>0. "mismatch" \notin Outcomes /\ "conflict" \notin Outcomes
  BY DEF Outcomes
<1>1. ASSUME NEW v \in {"apply_authority_created", "apply_prepared", "apply_started",
                        "candidate_applied"}
      PROVE  Plain(v) \in Receipt /\ Plain(v).ev = v
  BY ReceiptType DEF Events, TerminalEvents, Plain
<1>2. CASE CreateAuthority \/ AppendPrepared \/ AppendStarted
  BY <1>1, <1>2, EmitsAs DEF CreateAuthority, AppendPrepared, AppendStarted, Says, Busy
<1>3. CASE AppendStaged
  <2>1. k \in Ops
    BY <1>3 DEF AppendStaged, TypeInv, IndexInRange, InRange, AtOperation
  <2>2. Signing("apply_file_staged", k, "fwd") \in Receipt
        /\ Signing("apply_file_staged", k, "fwd").ev = "apply_file_staged"
    BY <2>1, ReceiptType DEF Events, Ids, Signing
  <2> QED
    BY <1>3, <2>2, EmitsAs DEF AppendStaged, Says, Busy
<1>4. CASE AppendWritten
  <2>1. k \in Ops
    BY <1>4 DEF AppendWritten, TypeInv, IndexInRange, InRange, AtOperation
  <2>2. Progress("apply_file_written", k) \in Receipt
        /\ Progress("apply_file_written", k).ev = "apply_file_written"
    BY <2>1, ReceiptType DEF Events, Progress
  <2> QED
    BY <1>4, <2>2, EmitsAs DEF AppendWritten, Says, Busy
<1>5. CASE AppendApplied
  <2>1. CASE ~ResultInPlace
    BY <1>0, <1>5, <2>1, RaisesAs DEF AppendApplied, Busy
  <2>2. CASE ResultInPlace
    BY <1>1, <1>5, <2>2, EmitsAs DEF AppendApplied, Says, Busy
  <2> QED
    BY <2>1, <2>2
<1>6. CASE \/ Reserve \/ Prepare \/ MarkReserved \/ MarkPrepared \/ MarkStarted
           \/ CreateTemp \/ RenameForward
  BY <1>6 DEF Works, ForwardWork
<1> QED
  BY <1>2, <1>3, <1>4, <1>5, <1>6 DEF Forward

\* After the verdict, and in the exception handler.
LEMMA CloseAs ==
  ASSUME TypeInv, Terminal \/ Handler
  PROVE  Raised \/ Appends \/ Works
<1>1. ASSUME NEW v \in {"apply_rejected", "apply_rollback_started",
                        "apply_recovery_required"}
      PROVE  Plain(v) \in Receipt /\ Plain(v).ev = v
  BY ReceiptType DEF Events, TerminalEvents, Plain
<1>2. CASE Reject \/ StartRollback \/ GiveUp
  BY <1>1, <1>2, EmitsAs DEF Reject, StartRollback, GiveUp, Says, Busy
<1>3. CASE Terminal \/ Finish
  BY <1>3 DEF Works, CloseWork, Terminal
<1> QED
  BY <1>2, <1>3 DEF Handler

\* Undoing.
LEMMA UndoAs ==
  ASSUME TypeInv, Undo
  PROVE  Raised \/ Appends \/ Works
<1>0. "mismatch" \notin Outcomes /\ "conflict" \notin Outcomes
  BY DEF Outcomes
<1>1. CASE AppendRestored
  <2>1. k \in Ops
    BY <1>1 DEF AppendRestored, TypeInv, IndexInRange, InRange, AtOperation
  <2>2. Progress("apply_rollback_file_restored", k) \in Receipt
        /\ Progress("apply_rollback_file_restored", k).ev = "apply_rollback_file_restored"
    BY <2>1, ReceiptType DEF Events, Progress
  <2> QED
    BY <1>1, <2>2, EmitsAs DEF AppendRestored, Says, Busy
<1>2. CASE RefuseUndo
  BY <1>0, <1>2, RaisesAs DEF RefuseUndo, Busy
<1>3. CASE AppendDeleteIntent
  <2>1. k \in Ops
    BY <1>3, EvidenceAssumption DEF AppendDeleteIntent, Ops
  <2>2. /\ Signing("apply_rollback_file_staged", k, "fwd") \in Receipt
        /\ Signing("apply_rollback_file_staged", k, "fwd").ev = "apply_rollback_file_staged"
        /\ Signing("apply_rollback_file_staged", k, "fwd").op = k
    BY <2>1, ReceiptType DEF Events, Ids, Signing
  <2> QED
    BY <1>3, <2>2, EmitsAs DEF AppendDeleteIntent, Says, Busy
<1>4. CASE AppendRollbackStaged
  <2>1. k \in Ops
    BY <1>4 DEF AppendRollbackStaged, TypeInv, IndexInRange, InRange, AtOperation
  <2>2. rtemp[k] \in Ids
    BY <2>1 DEF TypeInv, TypeOK, PrimaryOK
  <2>3. /\ Signing("apply_rollback_file_staged", k, rtemp[k]) \in Receipt
        /\ Signing("apply_rollback_file_staged", k, rtemp[k]).ev = "apply_rollback_file_staged"
        /\ Signing("apply_rollback_file_staged", k, rtemp[k]).op = k
        /\ Signing("apply_rollback_file_staged", k, rtemp[k]).id = rtemp[k]
    BY <2>1, <2>2, ReceiptType DEF Events, Signing
  <2> QED
    BY <1>4, <2>3, EmitsAs DEF AppendRollbackStaged, Says, Busy
<1>5. CASE AppendRolledBack
  <2>1. CASE ~BaseIntact
    BY <1>0, <1>5, <2>1, RaisesAs DEF AppendRolledBack, Busy
  <2>2. CASE BaseIntact
    <3>1. Plain("apply_rolled_back") \in Receipt
          /\ Plain("apply_rolled_back").ev = "apply_rolled_back"
      BY ReceiptType DEF Events, TerminalEvents, Plain
    <3> QED
      BY <1>5, <2>2, <3>1, EmitsAs DEF AppendRolledBack, Says, Busy
  <2> QED
    BY <2>1, <2>2
<1>6. CASE SkipUntouched \/ ReuseStage \/ CreateRollbackTemp \/ RenameBack \/ RemoveCreated
  BY <1>6 DEF Works, UndoWork
<1> QED
  BY <1>1, <1>2, <1>3, <1>4, <1>5, <1>6 DEF Undo

\* Recovery.
LEMMA RecoverAs ==
  ASSUME TypeInv, Recover
  PROVE  Raised \/ Appends \/ Works
<1>1. CASE RecoverAbort \/ RecoverUnstarted
  <2>1. Plain("apply_rejected") \in Receipt /\ Plain("apply_rejected").ev = "apply_rejected"
    BY ReceiptType DEF Events, TerminalEvents, Plain
  <2> QED
    BY <1>1, <2>1, EmitsAs DEF RecoverAbort, RecoverUnstarted, Says, Busy
<1>2. CASE RecoverWritten
  <2>1. k \in Ops
    BY <1>2 DEF RecoverWritten
  <2>2. Progress("apply_file_written", k) \in Receipt
        /\ Progress("apply_file_written", k).ev = "apply_file_written"
    BY <2>1, ReceiptType DEF Events, Progress
  <2>3. CASE Signed("apply_file_written", k)
    BY <1>2, <2>3 DEF RecoverWritten, Works, RecoverWork, store
  <2>4. CASE ~Signed("apply_file_written", k)
    BY <1>2, <2>2, <2>4, EmitsAs DEF RecoverWritten, Says, Busy
  <2> QED
    BY <2>3, <2>4
<1>3. CASE RecoverRollback
  <2>1. Plain("apply_rollback_started") \in Receipt
        /\ Plain("apply_rollback_started").ev = "apply_rollback_started"
    BY ReceiptType DEF Events, Plain
  <2>2. CASE Happened("apply_rollback_started")
    BY <1>3, <2>2 DEF RecoverRollback, Works, UndoWork, store
  <2>3. CASE ~Happened("apply_rollback_started")
    BY <1>3, <2>1, <2>3, EmitsAs DEF RecoverRollback, Says, Busy
  <2> QED
    BY <2>2, <2>3
<1>4. CASE \/ RecoverNothing \/ RecoverRefused \/ RecoverTerminal \/ RecoverBegin
           \/ RecoverMark \/ RecoverScan
  BY <1>4 DEF Works, RecoverWork
<1> QED
  BY <1>1, <1>2, <1>3, <1>4 DEF Recover

\* Every step is of one of the four kinds.
LEMMA StepsAs ==
  ASSUME TypeInv, Next
  PROVE  Raised \/ Appends \/ Works \/ Befalls
<1>1. CASE WriteManifest \/ WriteAnchor
  BY <1>1 DEF Works, CloseWork
<1>2. CASE Server
  BY <1>1, <1>2, ForwardAs, CloseAs, UndoAs, RecoverAs DEF Server
<1>3. CASE Fault
  <2>1. "failed" \notin Outcomes
    BY DEF Outcomes
  <2> QED
    BY <1>3, <2>1 DEF Fault, Raised, Raise
<1>4. CASE Crash \/ FaultNoChain \/ LateFaultAnchor \/ LateFaultMarker \/ ForeignWrite
  BY <1>4 DEF Befalls
<1> QED
  BY <1>2, <1>3, <1>4 DEF Next, Environment

\* What an exception leaves as it is.
LEMMA RaisedKeeps ==
  ASSUME TypeInv, Raised
  PROVE  /\ UNCHANGED <<file, context, log, cover, pend, sealed, marker, record, edits>>
         /\ pc' \in {"handler", "give_up", "finish", "idle"}
         /\ who' # "apply" /\ (started' => started)
         /\ \A i \in Ops : (ftemp'[i] => ftemp[i]) /\ rtemp'[i] \in {rtemp[i], "none"}
         /\ io' = "idle"
         /\ pc # "idle" /\ pc # "new"
         /\ reply' \in Outcomes => reply' = reply /\ who \notin {"recover", "reconcile"}
<1>1. PICK why, ahead : why \notin Outcomes /\ RaiseSkewed(why, ahead)
  BY DEF Raised
<1>2. UNCHANGED <<file, context, log, cover, pend, sealed, marker, record, edits>>
  BY <1>1 DEF Raised, RaiseSkewed, store
<1>3. pc' \in {"handler", "give_up", "finish", "idle"}
  BY <1>1, RaiseKeeps
<1>4. who' # "apply" /\ (started' => started)
  BY <1>1 DEF RaiseSkewed, Return, locals
<1>5. ASSUME NEW i \in Ops
      PROVE  (ftemp'[i] => ftemp[i]) /\ rtemp'[i] \in {rtemp[i], "none"}
  BY <1>1 DEF RaiseSkewed, Unwind, TypeInv, TypeOK, PrimaryOK
<1>6. io' = "idle"
  BY <1>1 DEF RaiseSkewed, Return
<1>7. pc # "idle" /\ pc # "new"
  BY DEF Raised, Busy
<1>8. reply' \in Outcomes => reply' = reply /\ who \notin {"recover", "reconcile"}
  BY <1>1 DEF RaiseSkewed, Return, locals
<1> QED
  BY <1>2, <1>3, <1>4, <1>5, <1>6, <1>7, <1>8

----------------------------------------------------------------------------
(* Where the process is, and what has been signed by then.                 *)

AtUndo == {"rb", "rb_begin", "rb_stage", "rb_rename", "rb_commit", "rb_remove",
           "rb_restored"}
AtWork == {"mark_started", "op", "stage", "rename", "written"}

\* The places that follow the receipt that apply starts.
AfterStart == AtWork \cup AtUndo \cup {"complete"}

\* The places of a process that has not decided yet.
Undecided == BeforeStart \cup AfterStart \cup {"scan", "abort"}

\* The places after the seal.
Settling == {"t_mark", "t_clear", "t_record"}

\* Some receipt says more than that an application was prepared or rejected.
Begun == \E n \in 1..Len(log) : log[n].ev \notin
           {"apply_authority_created", "apply_prepared", "apply_rejected"}

Abandonments == log # << >> /\ LastEvent(log) = "apply_rejected" => ~Begun

Stages == /\ pc \in BeforeStart => ~Begun
          /\ pc \in AfterStart => Happened("apply_started")
          /\ started => Happened("apply_started")
          /\ pc \in Undecided => ~Terminated
          /\ io # "idle" => log # << >>

Temporaries == \A i \in Ops : ftemp[i] \/ rtemp[i] # "none" => Begun

Roles == /\ who = "apply" => pc \in BeforeStart \cup AtWork \cup Settling \cup {"t_seal"}
         /\ pc \in {"t_seal", "t_mark"} /\ who = "apply" => marker # NoMarker

CourseInv == Abandonments /\ Stages /\ Temporaries /\ Roles

\* Evidence that the application started is more than a preparation.
LEMMA StartedBegun == ASSUME NEW e \in Events \ {"apply_authority_created", "apply_prepared",
                                                 "apply_rejected"}
                      PROVE  /\ Happened(e) => Begun
                             /\ \A i : Signed(e, i) => Begun
                             /\ \A i, x : SignedId(e, i, x) => Begun
BY DEF Happened, Signed, SignedId, Begun

\* A chain that may end in a rejection says no more than a preparation.
LEMMA RejectionShape ==
  ASSUME NEW l \in Seq(Receipt), Contract(l, FALSE), LastEvent(l) = "apply_rejected",
         NEW n \in 1..Len(l)
  PROVE  l[n].ev \in {"apply_authority_created", "apply_prepared", "apply_rejected"}
<1>1. Len(l) = 1 \/ Abandoned(l)
  BY DEF Contract
<1>2. Len(l) \in Nat /\ l[Len(l)].ev = "apply_rejected"
  BY DEF LastEvent
<1>3. 1 \in 1..Len(l) /\ l[1].ev = "apply_authority_created"
  BY <1>2 DEF Contract, Framed
<1>4. CASE Len(l) = 1
  BY <1>3, <1>4
<1>5. CASE Len(l) = 2
  BY <1>2, <1>3, <1>5
<1>6. CASE Len(l) = 3 /\ l[2].ev = "apply_prepared"
  BY <1>2, <1>3, <1>6
<1> QED
  BY <1>1, <1>4, <1>5, <1>6 DEF Abandoned

\* A step that signs nothing and goes where the course allows.
LEMMA QuietCourse ==
  ASSUME CourseInv, log' = log,
         pc' \in BeforeStart => pc \in BeforeStart,
         pc' \in AfterStart => Happened("apply_started"),
         started' => Happened("apply_started"),
         pc' \in Undecided => ~Terminated,
         io' # "idle" => log # << >>,
         \A i \in Ops : ftemp'[i] \/ rtemp'[i] # "none"
                          => ftemp[i] \/ rtemp[i] # "none" \/ Begun,
         who' = "apply" => pc' \in BeforeStart \cup AtWork \cup Settling \cup {"t_seal"},
         pc' \in {"t_seal", "t_mark"} /\ who' = "apply" => marker' # NoMarker
  PROVE  CourseInv'
<1>1. Abandonments' /\ Roles'
  BY DEF CourseInv, Abandonments, Begun, Roles
<1>2. Begun' <=> Begun
  BY DEF Begun
<1>3. Stages'
  BY <1>2 DEF CourseInv, Stages, Happened, Terminated
<1>4. Temporaries'
  BY <1>2 DEF CourseInv, Temporaries
<1> QED
  BY <1>1, <1>3, <1>4 DEF CourseInv

\* An exception leads to places that require nothing.
LEMMA RaisedCourse ==
  ASSUME TypeInv, CourseInv, Raised
  PROVE  CourseInv'
<1>1. pc' \notin BeforeStart /\ pc' \notin AfterStart /\ pc' \notin Undecided
      /\ pc' \notin {"t_seal", "t_mark"}
  BY RaisedKeeps DEF BeforeStart, AfterStart, AtWork, AtUndo, Undecided
<1> QED
  BY <1>1, RaisedKeeps, QuietCourse DEF CourseInv, Stages

\* An append: what is signed is what the next place requires.
LEMMA WrittenCourse ==
  ASSUME TypeInv, GuardInv, CourseInv, Appends
  PROVE  CourseInv'
<1>0. PICK e \in Receipt : \E next, i : Written(e, next, i) /\ Says(e, next, i)
  BY DEF Appends
<1>1. PICK next, i : Written(e, next, i) /\ Says(e, next, i)
  BY <1>0
<1>2. /\ log \in Seq(Receipt) /\ Len(log) \in Nat
      /\ log' \in Seq(Receipt) /\ log' # << >> /\ LastEvent(log') = e.ev
      /\ Len(log') = Len(log) + 1 /\ log'[Len(log) + 1] = e
      /\ \A n \in 1..Len(log) : log'[n] = log[n]
  BY <1>1, LastOfAppend DEF Written, TypeInv, TypeOK, StoreOK
<1>3. /\ Begun' <=> Begun \/ e.ev \notin {"apply_authority_created", "apply_prepared",
                                          "apply_rejected"}
      /\ Terminated' <=> e.ev \in TerminalEvents
  BY <1>2 DEF Begun, Terminated
<1>4. \A v : Happened(v)' <=> Happened(v) \/ e.ev = v
  BY <1>1, AppendSays DEF Written
<1>5. ~Terminated
  BY <1>1, AcceptsOpen DEF Written
<1>6. Abandonments'
  <2>1. Contract(log', FALSE)
    BY <1>1 DEF Written, Accepts
  <2> QED
    BY <1>2, <2>1, RejectionShape DEF Abandonments, Begun
<1>7. Temporaries'
  BY <1>1, <1>3 DEF CourseInv, Temporaries, Written
<1>8. Stages'
  <2>1. next \in BeforeStart => ~Begun'
    BY <1>1, <1>3 DEF Says, BeforeStart, CourseInv, Stages
  <2>2. next \in AfterStart => Happened("apply_started")'
    BY <1>1, <1>4 DEF Says, AfterStart, AtWork, AtUndo, CourseInv, Stages
  <2>3. next \in Undecided => ~Terminated'
    BY <1>1, <1>3 DEF Says, Undecided, BeforeStart, AfterStart, AtWork, AtUndo,
       TerminalEvents
  <2> QED
    BY <1>1, <1>2, <1>4, <2>1, <2>2, <2>3 DEF Stages, Written, CourseInv
<1>9. Roles'
  <2>1. ASSUME who = "apply"
        PROVE  next \in BeforeStart \cup AtWork \cup Settling \cup {"t_seal"}
    BY <1>1, <2>1 DEF Says, CourseInv, Roles, BeforeStart, AtWork, Settling
  <2>2. ASSUME who = "apply", next \in {"t_seal", "t_mark"}
        PROVE  marker # NoMarker
    <3>1. pc = "op"
      BY <1>1, <2>2 DEF Says, CourseInv, Roles, BeforeStart, AtWork, Settling
    <3>2. Happened("apply_started")
      BY <3>1 DEF CourseInv, Stages, AfterStart, AtWork
    <3>3. marker.hash
      BY <1>5, <3>2 DEF GuardInv, MarkerCarriesJournal
    <3> QED
      BY <3>3 DEF NoMarker
  <2> QED
    BY <1>1, <2>1, <2>2 DEF Roles, Written
<1> QED
  BY <1>6, <1>7, <1>8, <1>9 DEF CourseInv

\* A step to a place of the same kind.
LEMMA SamePlaceCourse ==
  ASSUME CourseInv, log' = log, UNCHANGED <<who, started, marker>>,
         pc' = pc, io' # "idle" => io # "idle",
         \A i \in Ops : (ftemp'[i] => ftemp[i]) /\ (rtemp'[i] # "none" => rtemp[i] # "none")
  PROVE  CourseInv'
BY QuietCourse DEF CourseInv, Stages, Roles

\* apply, forward.
LEMMA ForwardCourse ==
  ASSUME TypeInv, GuardInv, CourseInv, ~Raised,
         ForwardWork
  PROVE  CourseInv'
<1>r. ~Raise("mismatch") \/ ~UNCHANGED budget \/ ~Busy
  BY RaisesAs DEF Outcomes
<1>s. ~Raise("conflict") \/ ~UNCHANGED budget \/ ~Busy
  BY RaisesAs DEF Outcomes
<1>p. \A p \in {"reserved", "prepared", "started"} : Marked(p) # NoMarker
  BY DEF Marked, NoMarker
<1>1. CASE Reserve
  <2>1. /\ log' = log /\ pc = "new" /\ pc' = "create" /\ io' = io
        /\ UNCHANGED <<ftemp, rtemp, started>>
    BY <1>1 DEF Reserve, store, locals, primary
  <2>2. "create" \in BeforeStart /\ "create" \notin AfterStart /\ "new" \in Undecided
        /\ "new" \in BeforeStart
    BY DEF BeforeStart, AfterStart, AtWork, AtUndo, Undecided
  <2> QED
    BY <2>1, <2>2, QuietCourse DEF CourseInv, Stages
<1>2. CASE MarkReserved \/ MarkPrepared \/ Prepare
  <2>1. /\ log' = log /\ io' = io /\ UNCHANGED <<ftemp, rtemp, started, who>>
        /\ pc \in {"prepare", "reserve", "mark_prepared"}
        /\ pc' \in {"reserve", "write_journal", "start"}
    BY <1>2, <1>r DEF MarkReserved, MarkPrepared, Prepare, store, locals, primary,
       Busy
  <2>2. /\ pc \in BeforeStart /\ pc \in Undecided /\ pc' \in BeforeStart
        /\ pc' \notin AfterStart /\ pc' \notin {"t_seal", "t_mark"}
    BY <2>1 DEF BeforeStart, AfterStart, AtWork, AtUndo, Undecided
  <2> QED
    BY <2>1, <2>2, QuietCourse DEF CourseInv, Stages
<1>3. CASE MarkStarted \/ CreateTemp \/ RenameForward
  <2>1. /\ log' = log /\ io' = io /\ UNCHANGED <<rtemp, started, who>>
        /\ pc \in {"mark_started", "op", "rename"}
        /\ pc' \in {"op", "stage", "written"}
    BY <1>3, <1>s DEF MarkStarted, CreateTemp, RenameForward, store, locals,
       primary, Busy
  <2>2. /\ pc \in AfterStart /\ pc \in Undecided /\ pc' \notin BeforeStart
        /\ pc' \in AtWork /\ pc' \notin {"t_seal", "t_mark"}
    BY <2>1 DEF BeforeStart, AfterStart, AtWork, Undecided
  <2>3. Happened("apply_started") /\ Begun
    BY <2>2, StartedBegun DEF CourseInv, Stages, Events
  <2> QED
    BY <2>1, <2>2, <2>3, QuietCourse DEF CourseInv, Stages
<1> QED
  BY <1>1, <1>2, <1>3 DEF ForwardWork

\* After the verdict, and in the exception handler.
LEMMA CloseCourse ==
  ASSUME TypeInv, GuardInv, CourseInv, ~Raised,
         CloseWork
  PROVE  CourseInv'
<1>r. ~Raise("refused") \/ ~UNCHANGED budget \/ ~Busy
  BY RaisesAs DEF Outcomes
<1>1. CASE WriteManifest
  BY <1>1, SamePlaceCourse DEF WriteManifest, locals, primary
<1>2. CASE WriteAnchor
  <2>1. /\ log' = log /\ pc' = pc /\ io' = "idle" /\ UNCHANGED <<ftemp, rtemp, who, marker>>
        /\ started' = (started \/ LastEvent(log) = "apply_started") /\ io = "anchor"
    BY <1>2 DEF WriteAnchor, primary
  <2>2. log # << >> /\ Len(log) \in 1..Len(log)
    BY <2>1 DEF CourseInv, Stages, TypeInv, TypeOK, StoreOK
  <2>3. started' => Happened("apply_started")
    BY <2>1, <2>2 DEF CourseInv, Stages, Happened, LastEvent
  <2> QED
    BY <2>1, <2>3, QuietCourse DEF CourseInv, Stages, Roles
<1>3. CASE Seal \/ MarkTerminal \/ ClearMarker \/ UpdateRecord \/ Finish
  <2>1. /\ log' = log /\ UNCHANGED <<ftemp, rtemp>>
        /\ pc \in {"t_seal", "t_mark", "t_clear", "t_record", "finish"}
        /\ pc' \in Settling \cup {"idle"} /\ (started' => started)
        /\ pc' = "idle" => who' = "none"
    <3>1. CASE Seal
      <4>1. CASE Raise("refused")
        BY <1>r, <3>1, <4>1 DEF Seal, Busy
      <4>2. CASE ~Raise("refused")
        <5>1. /\ log' = log /\ UNCHANGED <<ftemp, rtemp, started>> /\ pc = "t_seal"
              /\ pc' = CASE who = "apply"     -> "t_mark"
                         [] who = "reconcile" -> "t_record"
                         [] OTHER             -> "t_clear"
          BY <3>1, <4>2 DEF Seal, locals, primary
        <5>2. pc' \in Settling /\ pc' # "idle"
          BY <5>1 DEF Settling
        <5> QED
          BY <5>1, <5>2
      <4> QED
        BY <4>1, <4>2
    <3>2. CASE MarkTerminal \/ Finish
      BY <3>2 DEF MarkTerminal, Finish, Return, store, locals, primary, Settling
    <3>3. CASE ClearMarker
      BY <3>3 DEF ClearMarker, Return, store, locals, primary, Settling
    <3>4. CASE UpdateRecord
      BY <3>4 DEF UpdateRecord, Return, store, locals, primary, Settling
    <3> QED
      BY <1>3, <3>1, <3>2, <3>3, <3>4
  <2>2. /\ pc' \notin BeforeStart /\ pc' \notin AfterStart /\ pc' \notin Undecided
        /\ pc' # "t_seal"
    BY <2>1 DEF Settling, BeforeStart, AfterStart, AtWork, AtUndo, Undecided
  <2>3. pc \in AtVerdict => Terminated
    BY DEF TypeInv, VerdictGiven
  <2>4. io' # "idle" => log # << >>
    BY <1>3, <2>3 DEF Seal, MarkTerminal, ClearMarker, UpdateRecord, Finish, Return,
       AtVerdict, Terminated
  <2>5. ASSUME pc' = "t_mark", who' = "apply" PROVE marker' # NoMarker
    <3>1. pc = "t_seal" /\ marker' = marker /\ who = "apply"
      BY <1>3, <1>r, <2>5 DEF Seal, MarkTerminal, ClearMarker, UpdateRecord, Finish, Return,
         Busy
    <3> QED
      BY <3>1 DEF CourseInv, Roles
  <2> QED
    BY <2>1, <2>2, <2>4, <2>5, QuietCourse DEF CourseInv, Stages
<1> QED
  BY <1>1, <1>2, <1>3 DEF CloseWork

\* Undoing.
LEMMA UndoCourse ==
  ASSUME TypeInv, CourseInv, ~Raised,
         UndoWork
  PROVE  CourseInv'
<1>r. ~Raise("conflict") \/ ~UNCHANGED budget \/ ~Busy
  BY RaisesAs DEF Outcomes
<1>1. /\ log' = log /\ io' = io /\ UNCHANGED <<started, who>>
      /\ pc \in AtUndo /\ pc' \in AtUndo
  <2>1. CASE SkipUntouched \/ ReuseStage \/ CreateRollbackTemp
    BY <2>1 DEF SkipUntouched, ReuseStage, CreateRollbackTemp, store, locals, AtUndo
  <2>2. CASE RenameBack \/ RemoveCreated
    BY <1>r, <2>2 DEF RenameBack, RemoveCreated, store, locals, Busy, AtUndo
  <2>3. CASE UNCHANGED log /\ RecoverRollback
    <3>1. ~Emit(Plain("apply_rollback_started"), "rb", N)
      <4>1. Plain("apply_rollback_started") \in Receipt
            /\ Plain("apply_rollback_started").ev = "apply_rollback_started"
        BY ReceiptType DEF Events, Plain
      <4>2. CASE Emit(Plain("apply_rollback_started"), "rb", N)
        <5>1. Appends
          BY <2>3, <4>1, <4>2, EmitsAs DEF RecoverRollback, Says, Busy
        <5>2. PICK e \in Receipt : log' = Append(log, e)
          BY <5>1 DEF Appends, Written
        <5> QED
          BY <2>3, <5>2, LastOfAppend DEF TypeInv, TypeOK, StoreOK
      <4> QED
        BY <4>2
    <3> QED
      BY <2>3, <3>1 DEF RecoverRollback, store, locals, AtUndo
  <2> QED
    BY <2>1, <2>2, <2>3 DEF UndoWork
<1>2. /\ pc \in AfterStart /\ pc \in Undecided /\ pc' \notin BeforeStart
      /\ pc' \notin {"t_seal", "t_mark"}
      /\ pc \notin BeforeStart \cup AtWork \cup Settling \cup {"t_seal"}
  BY <1>1 DEF BeforeStart, AfterStart, AtWork, AtUndo, Settling, Undecided
<1>3. Happened("apply_started") /\ Begun
  BY <1>2, StartedBegun DEF CourseInv, Stages, Events
<1>4. who # "apply"
  BY <1>2 DEF CourseInv, Roles
<1> QED
  BY <1>1, <1>2, <1>3, <1>4, QuietCourse DEF CourseInv, Stages

\* Recovery.
LEMMA RecoverCourse ==
  ASSUME TypeInv, GuardInv, CourseInv, ~Raised,
         RecoverWork
  PROVE  CourseInv'
<1>r. ~Raise("conflict") \/ ~UNCHANGED budget \/ ~Busy
  BY RaisesAs DEF Outcomes
<1>1. CASE RecoverNothing \/ RecoverRefused
  BY <1>1, SamePlaceCourse DEF RecoverNothing, RecoverRefused, locals, primary, store
<1>2. CASE RecoverTerminal
  <2>1. /\ log' = log /\ io' = io /\ UNCHANGED <<started, ftemp, rtemp>>
        /\ pc' \in {"t_record", "t_seal"} /\ who' = "reconcile"
    BY <1>2 DEF RecoverTerminal, locals, primary, store
  <2>2. /\ pc' \notin BeforeStart /\ pc' \notin AfterStart /\ pc' \notin Undecided
    BY <2>1 DEF BeforeStart, AfterStart, AtWork, AtUndo, Undecided
  <2> QED
    BY <2>1, <2>2, QuietCourse DEF CourseInv, Stages
<1>3. CASE RecoverBegin
  <2>1. /\ log' = log /\ io' = io /\ UNCHANGED <<started, ftemp, rtemp>>
        /\ pc' \in {"scan", "abort"} /\ who' = "recover" /\ ~Terminated
    BY <1>3 DEF RecoverBegin, locals, primary, store
  <2>2. /\ pc' \notin BeforeStart /\ pc' \notin AfterStart
    BY <2>1 DEF BeforeStart, AfterStart, AtWork, AtUndo
  <2> QED
    BY <2>1, <2>2, QuietCourse DEF CourseInv, Stages
<1>4. CASE RecoverMark
  <2>1. /\ log' = log /\ io' = io /\ UNCHANGED <<started, ftemp, rtemp, who>>
        /\ pc = "scan" /\ pc' \in {"complete", "rb_begin"} /\ Happened("apply_started")
    BY <1>4 DEF RecoverMark, locals, primary, store
  <2>2. /\ pc' \notin BeforeStart /\ pc \in Undecided /\ pc' \notin {"t_seal", "t_mark"}
        /\ pc \notin BeforeStart \cup AtWork \cup Settling \cup {"t_seal"}
    BY <2>1 DEF BeforeStart, Undecided, AtWork, Settling
  <2>3. who # "apply"
    BY <2>2 DEF CourseInv, Roles
  <2> QED
    BY <2>1, <2>2, <2>3, QuietCourse DEF CourseInv, Stages
<1>5. CASE RecoverScan
  <2>1. CASE Raise("conflict")
    BY <1>r, <1>5, <2>1 DEF RecoverScan, Busy
  <2>2. CASE ~Raise("conflict")
    <3>1. /\ log' = log /\ pc' = pc /\ io' = io /\ UNCHANGED <<who, started, marker, rtemp>>
          /\ ftemp' = [ftemp EXCEPT ![k] = FALSE]
      BY <1>5, <2>2 DEF RecoverScan, store
    <3>2. \A i \in Ops : ftemp'[i] => ftemp[i]
      BY <3>1 DEF TypeInv, TypeOK, PrimaryOK
    <3> QED
      BY <3>1, <3>2, SamePlaceCourse
  <2> QED
    BY <2>1, <2>2
<1>6. CASE UNCHANGED log /\ RecoverWritten
  <2>1. ~Emit(Progress("apply_file_written", k), "complete", k + 1)
    <3>1. k \in Ops
      BY <1>6 DEF RecoverWritten
    <3>2. Progress("apply_file_written", k) \in Receipt
          /\ Progress("apply_file_written", k).ev = "apply_file_written"
      BY <3>1, ReceiptType DEF Events, Progress
    <3>3. CASE Emit(Progress("apply_file_written", k), "complete", k + 1)
      <4>1. Appends
        BY <1>6, <3>2, <3>3, EmitsAs DEF RecoverWritten, Says, Busy
      <4>2. PICK e \in Receipt : log' = Append(log, e)
        BY <4>1 DEF Appends, Written
      <4> QED
        BY <1>6, <4>2, LastOfAppend DEF TypeInv, TypeOK, StoreOK
    <3> QED
      BY <3>3
  <2> QED
    BY <1>6, <2>1, SamePlaceCourse DEF RecoverWritten, locals, primary, store
<1> QED
  BY <1>1, <1>2, <1>3, <1>4, <1>5, <1>6 DEF RecoverWork

\* What befalls the process.
LEMMA BefallsCourse ==
  ASSUME TypeInv, CourseInv, Befalls
  PROVE  CourseInv'
<1>1. CASE ForeignWrite
  BY <1>1, SamePlaceCourse DEF ForeignWrite, process, locals, store
<1>2. CASE Crash \/ FaultNoChain
  <2>1. /\ log' = log /\ io' = "idle" /\ started' = FALSE /\ UNCHANGED <<ftemp, rtemp>>
        /\ pc' = "idle" /\ who' = "none"
    BY <1>2 DEF Crash, FaultNoChain, Return, primary, store
  <2>2. pc' \notin BeforeStart /\ pc' \notin AfterStart /\ pc' \notin Undecided
    BY <2>1 DEF BeforeStart, AfterStart, AtWork, AtUndo, Undecided
  <2> QED
    BY <2>1, <2>2, QuietCourse
<1>3. CASE LateFaultAnchor \/ LateFaultMarker
  <2>1. /\ log' = log /\ io' = "idle" /\ started' = started /\ pc' = "handler"
        /\ who' = "handler"
        /\ \A i \in Ops : (ftemp'[i] => ftemp[i]) /\ rtemp'[i] \in {rtemp[i], "none"}
    BY <1>3 DEF LateFaultAnchor, LateFaultMarker, Unwind, primary, store, locals, TypeInv,
       TypeOK, PrimaryOK
  <2>2. pc' \notin BeforeStart /\ pc' \notin AfterStart /\ pc' \notin Undecided
    BY <2>1 DEF BeforeStart, AfterStart, AtWork, AtUndo, Undecided
  <2> QED
    BY <2>1, <2>2, QuietCourse DEF CourseInv, Stages
<1> QED
  BY <1>1, <1>2, <1>3 DEF Befalls

\* Every step keeps the course.
LEMMA StepCourse ==
  ASSUME TypeInv, GuardInv, CourseInv, [Next]_vars
  PROVE  CourseInv'
<1>1. CASE UNCHANGED vars
  BY <1>1, SamePlaceCourse DEF vars, primary, store, process, locals
<1>2. CASE Raised
  BY <1>2, RaisedCourse
<1>3. CASE Appends
  BY <1>3, WrittenCourse
<1>4. CASE Works /\ ~Raised
  BY <1>4, ForwardCourse, CloseCourse, UndoCourse, RecoverCourse DEF Works
<1>5. CASE Befalls
  BY <1>5, BefallsCourse
<1> QED
  BY <1>1, <1>2, <1>3, <1>4, <1>5, StepsAs

\* The course invariant holds at first.
LEMMA InitCourse == Init => CourseInv
<1> SUFFICES ASSUME Init PROVE CourseInv
  OBVIOUS
<1>1. ~Begun /\ ~Terminated
  BY DEF Init, Begun, Terminated
<1>2. pc = "new" /\ started = FALSE /\ io = "idle" /\ who = "none"
      /\ \A i \in Ops : ~ftemp[i] /\ rtemp[i] = "none"
  BY DEF Init
<1>3. "new" \notin AfterStart
  BY DEF AfterStart, AtWork, AtUndo
<1> QED
  BY <1>1, <1>2, <1>3 DEF CourseInv, Abandonments, Stages, Temporaries, Roles

----------------------------------------------------------------------------
(* What the operator is told.                                              *)

AnswerInv ==
  /\ pc \in {"new", "idle"} => io = "idle"
  /\ pc \in Settling => sealed /\ (io = "idle" => ~pend)
  /\ pc = "t_mark" => who = "apply"
  /\ pc = "t_clear" /\ who = "reconcile" => record = Answer
  /\ reply \in Outcomes => /\ TruthfulAnswer /\ io = "idle"
                           /\ pc = "idle" \/ (pc \in Settling /\ who = "reconcile")

\* A process that has not answered and does not settle.
LEMMA NoAnswer ==
  ASSUME reply' \notin Outcomes, pc' \notin Settling,
         pc' \in {"new", "idle"} => io' = "idle"
  PROVE  AnswerInv'
BY DEF AnswerInv, Settling

\* Only a process at rest or about to answer again has answered.
LEMMA Unanswered ==
  ASSUME AnswerInv, pc # "idle", pc \notin Settling \/ who # "reconcile"
  PROVE  reply \notin Outcomes
BY DEF AnswerInv

\* An exception.
LEMMA RaisedAnswer ==
  ASSUME TypeInv, AnswerInv, Raised
  PROVE  AnswerInv'
<1>1. pc' \notin Settling
  BY RaisedKeeps DEF Settling
<1>2. reply' \notin Outcomes
  BY RaisedKeeps, Unanswered
<1> QED
  BY <1>1, <1>2, RaisedKeeps, NoAnswer

\* An append.
LEMMA WrittenAnswer ==
  ASSUME AnswerInv, Appends
  PROVE  AnswerInv'
<1>0. PICK e \in Receipt : \E next, i : Written(e, next, i) /\ Says(e, next, i)
  BY DEF Appends
<1>1. PICK next, i : Written(e, next, i) /\ Says(e, next, i)
  BY <1>0
<1>2. /\ pc # "idle" /\ pc \notin Settling /\ pc' \notin Settling
      /\ pc' \notin {"new", "idle"}
  BY <1>1 DEF Says, Written, Settling
<1>3. reply' = reply
  BY <1>1 DEF Written
<1> QED
  BY <1>2, <1>3, Unanswered, NoAnswer

\* apply, forward, and undoing.
LEMMA WorkAnswer ==
  ASSUME TypeInv, AnswerInv, ~Raised, ForwardWork \/ UndoWork
  PROVE  AnswerInv'
<1>r. \A w \in {"mismatch", "conflict"} : ~Raise(w) \/ ~UNCHANGED budget \/ ~Busy
  BY RaisesAs DEF Outcomes
<1>1. CASE ForwardWork
  <2>1. CASE Reserve \/ MarkReserved \/ MarkPrepared \/ MarkStarted
    BY <2>1, NoAnswer, Unanswered DEF Reserve, MarkReserved, MarkPrepared, MarkStarted,
       locals, Settling
  <2>2. CASE Prepare \/ CreateTemp \/ RenameForward
    BY <1>r, <2>2, NoAnswer, Unanswered DEF Prepare, CreateTemp, RenameForward, Busy,
       locals, Settling
  <2> QED
    BY <1>1, <2>1, <2>2 DEF ForwardWork
<1>2. CASE UndoWork
  <2>1. CASE SkipUntouched \/ ReuseStage \/ CreateRollbackTemp
    BY <2>1, NoAnswer, Unanswered DEF SkipUntouched, ReuseStage, CreateRollbackTemp,
       Settling
  <2>2. CASE RenameBack \/ RemoveCreated
    BY <1>r, <2>2, NoAnswer, Unanswered DEF RenameBack, RemoveCreated, Busy, Settling
  <2>3. CASE UNCHANGED log /\ RecoverRollback
    <3>1. pc = "rb_begin" /\ ((reply' = reply /\ pc' = "rb") \/ Raised \/ Appends)
      <4>1. Plain("apply_rollback_started") \in Receipt
            /\ Plain("apply_rollback_started").ev = "apply_rollback_started"
        BY ReceiptType DEF Events, Plain
      <4> QED
        BY <2>3, <4>1, EmitsAs DEF RecoverRollback, Says, Busy
    <3> QED
      BY <3>1, NoAnswer, Unanswered, WrittenAnswer DEF Settling
  <2> QED
    BY <1>2, <2>1, <2>2, <2>3 DEF UndoWork
<1> QED
  BY <1>1, <1>2

\* After the verdict, and in the exception handler.
LEMMA CloseAnswer ==
  ASSUME TypeInv, AnswerInv, ~Raised, CloseWork
  PROVE  AnswerInv'
<1>r. ~Raise("refused") \/ ~UNCHANGED budget \/ ~Busy
  BY RaisesAs DEF Outcomes
<1>0. pc \in Settling => Terminated
  BY DEF Settling, TypeInv, VerdictGiven, AtVerdict
<1>1. CASE WriteManifest \/ WriteAnchor
  <2>1. /\ UNCHANGED <<log, sealed, record, pc, who, reply>> /\ io # "idle"
        /\ io' = "idle" => pend' = FALSE
    BY <1>1 DEF WriteManifest, WriteAnchor, locals
  <2>2. reply \notin Outcomes /\ pc \notin {"new", "idle"}
    BY <2>1 DEF AnswerInv
  <2> QED
    BY <2>1, <2>2 DEF AnswerInv, Answer
<1>2. CASE Seal
  <2>1. ~Raise("refused")
    BY <1>r, <1>2 DEF Seal, Busy
  <2>2. /\ pc = "t_seal" /\ sealed' = TRUE /\ io' = "anchor" /\ UNCHANGED <<who, reply>>
        /\ pc' = CASE who = "apply"     -> "t_mark"
                   [] who = "reconcile" -> "t_record"
                   [] OTHER             -> "t_clear"
    BY <1>2, <2>1 DEF Seal
  <2>3. /\ pc' \in Settling /\ pc' \notin {"new", "idle"} /\ (pc' = "t_mark" => who = "apply")
        /\ pc' = "t_clear" => who # "reconcile"
    BY <2>2 DEF Settling
  <2>4. reply \notin Outcomes
    BY <2>2, Unanswered DEF Settling
  <2> QED
    BY <2>2, <2>3, <2>4 DEF AnswerInv
<1>3. CASE MarkTerminal
  <2>1. pc = "t_mark" /\ who = "apply" /\ pc \in Settling /\ pc' = "t_clear"
        /\ UNCHANGED <<who, reply, io, sealed, pend>>
    BY <1>3 DEF MarkTerminal, AnswerInv, Settling, store
  <2>2. reply \notin Outcomes
    BY <2>1, Unanswered
  <2> QED
    BY <2>1, <2>2 DEF AnswerInv, Settling
<1>4. CASE ClearMarker
  <2>1. /\ pc = "t_clear" /\ io = "idle" /\ sealed /\ ~pend /\ Terminated
        /\ pc \in Settling /\ UNCHANGED <<log, sealed, pend, record>>
    BY <1>0, <1>4 DEF ClearMarker, AnswerInv, Settling, store
  <2>2. CASE who = "reconcile"
    <3>1. pc' = "idle" /\ io' = "idle" /\ reply' = Answer /\ record = Answer
      BY <1>4, <2>1, <2>2 DEF ClearMarker, Return, AnswerInv
    <3> QED
      BY <2>1, <3>1 DEF AnswerInv, TruthfulAnswer, Terminated, Answer, Settling
  <2>3. CASE who # "reconcile"
    <3>1. pc' = "t_record" /\ UNCHANGED <<who, io, reply>>
      BY <1>4, <2>3 DEF ClearMarker
    <3>2. reply \notin Outcomes
      BY <2>1, <2>3, Unanswered
    <3> QED
      BY <2>1, <3>1, <3>2 DEF AnswerInv, Settling
  <2> QED
    BY <2>2, <2>3
<1>5. CASE UpdateRecord
  <2>1. /\ pc = "t_record" /\ io = "idle" /\ sealed /\ ~pend /\ Terminated
        /\ pc \in Settling /\ UNCHANGED <<log, sealed, pend>> /\ record' = Answer
    BY <1>0, <1>5 DEF UpdateRecord, AnswerInv, Settling, store
  <2>2. CASE who # "reconcile"
    <3>1. pc' = "idle" /\ io' = "idle" /\ reply' = Answer
      BY <1>5, <2>2 DEF UpdateRecord, Return
    <3> QED
      BY <2>1, <3>1 DEF AnswerInv, TruthfulAnswer, Terminated, Answer, Settling
  <2>3. CASE who = "reconcile"
    <3>1. pc' = "t_clear" /\ UNCHANGED <<who, io, reply>>
      BY <1>5, <2>3 DEF UpdateRecord
    <3>2. reply \in Outcomes => reply = Answer
      BY DEF AnswerInv, TruthfulAnswer
    <3> QED
      BY <2>1, <2>3, <3>1, <3>2 DEF AnswerInv, TruthfulAnswer, Terminated, Answer, Settling
  <2> QED
    BY <2>2, <2>3
<1>6. CASE Finish
  BY <1>6, NoAnswer DEF Finish, Return, Outcomes, Settling
<1> QED
  BY <1>1, <1>2, <1>3, <1>4, <1>5, <1>6 DEF CloseWork

\* Recovery.
LEMMA RecoverAnswer ==
  ASSUME TypeInv, AnswerInv, ~Raised, RecoverWork
  PROVE  AnswerInv'
<1>r. ~Raise("conflict") \/ ~UNCHANGED budget \/ ~Busy
  BY RaisesAs DEF Outcomes
<1>1. CASE RecoverNothing
  BY <1>1, NoAnswer DEF RecoverNothing, Idle, Outcomes, Settling, AnswerInv
<1>2. CASE RecoverRefused
  <2>1. Refusal \in {"unverified", "conflict", "mismatch", "invalid", "none"}
    BY DEF Refusal, DecidedRefusal, UnpreparedRefusal
  <2>2. reply' \notin Outcomes
    BY <1>2, <2>1 DEF RecoverRefused, Outcomes
  <2> QED
    BY <1>2, <2>2, NoAnswer DEF RecoverRefused, Idle, Settling, AnswerInv
<1>3. CASE RecoverTerminal
  <2>1. /\ io = "idle" /\ pc' \in {"t_record", "t_seal"} /\ (pc' = "t_record" <=> sealed)
        /\ UNCHANGED <<log, sealed, pend, record, io, reply>> /\ who' = "reconcile"
    BY <1>3 DEF RecoverTerminal, Idle, AnswerInv, store
  <2>2. ~pend
    BY <1>3 DEF RecoverTerminal, Refusal, Status
  <2>3. reply \in Outcomes => sealed
    BY DEF AnswerInv, TruthfulAnswer
  <2> QED
    BY <2>1, <2>2, <2>3 DEF AnswerInv, TruthfulAnswer, Terminated, Answer, Settling
<1>4. CASE RecoverBegin
  <2>1. reply \notin Outcomes
    BY <1>4 DEF RecoverBegin, AnswerInv, TruthfulAnswer
  <2> QED
    BY <1>4, <2>1, NoAnswer DEF RecoverBegin, Settling
<1>5. CASE RecoverMark \/ RecoverScan
  BY <1>5, <1>r, NoAnswer, Unanswered DEF RecoverMark, RecoverScan, Busy, Settling
<1>6. CASE UNCHANGED log /\ RecoverWritten
  <2>1. pc = "complete" /\ (UNCHANGED <<reply, pc>> \/ Raised \/ Appends)
    <3>1. k \in Ops
      BY <1>6 DEF RecoverWritten
    <3>2. Progress("apply_file_written", k) \in Receipt
          /\ Progress("apply_file_written", k).ev = "apply_file_written"
      BY <3>1, ReceiptType DEF Events, Progress
    <3> QED
      BY <1>6, <3>2, EmitsAs DEF RecoverWritten, Says, Busy
  <2> QED
    BY <2>1, NoAnswer, Unanswered, WrittenAnswer DEF Settling
<1> QED
  BY <1>1, <1>2, <1>3, <1>4, <1>5, <1>6 DEF RecoverWork

\* What befalls the process.
LEMMA BefallsAnswer ==
  ASSUME AnswerInv, Befalls
  PROVE  AnswerInv'
<1>1. CASE Crash \/ FaultNoChain
  BY <1>1, NoAnswer DEF Crash, FaultNoChain, Return, Outcomes, Settling
<1>2. CASE LateFaultAnchor \/ LateFaultMarker
  <2>1. reply \notin Outcomes
    BY <1>2, Unanswered DEF LateFaultAnchor, LateFaultMarker, AnswerInv, Settling
  <2> QED
    BY <1>2, <2>1, NoAnswer DEF LateFaultAnchor, LateFaultMarker, locals, Settling
<1>3. CASE ForeignWrite
  BY <1>3 DEF ForeignWrite, AnswerInv, TruthfulAnswer, Terminated, Answer, process, store
<1> QED
  BY <1>1, <1>2, <1>3 DEF Befalls

\* The answer invariant holds at first.
LEMMA InitAnswer == Init => AnswerInv
BY DEF Init, AnswerInv, TruthfulAnswer, Outcomes, Settling

\* Every step keeps it.
LEMMA StepAnswer == TypeInv /\ AnswerInv /\ [Next]_vars => AnswerInv'
<1> SUFFICES ASSUME TypeInv, AnswerInv, [Next]_vars PROVE AnswerInv'
  OBVIOUS
<1>1. CASE UNCHANGED vars
  BY <1>1 DEF vars, AnswerInv, TruthfulAnswer, Terminated, Answer, process, store
<1>2. CASE Works /\ ~Raised
  BY <1>2, WorkAnswer, CloseAnswer, RecoverAnswer DEF Works
<1> QED
  BY <1>1, <1>2, RaisedAnswer, WrittenAnswer, BefallsAnswer, StepsAs

\* An operator is told an outcome only if it is the one the sealed chain decided
\* and the one the request's record carries.
THEOREM AnswersTruthful == Spec => []TruthfulAnswer
<1>1. AnswerInv => TruthfulAnswer
  BY DEF AnswerInv, TruthfulAnswer
<1> QED
  BY <1>1, InitType, StepType, InitAnswer, StepAnswer, PTL DEF Spec

----------------------------------------------------------------------------
(* What a rejection leaves behind.                                         *)

\* Before the application starts no target carries an identity it made.
LEMMA UntouchedBefore ==
  ASSUME TypeInv, WriteAhead, ~Begun, NEW i \in Ops
  PROVE  /\ file[i].id \notin {"fwd", "rb"}
         /\ \A x : ~SignedId("apply_rollback_file_staged", i, x)
<1>1. \A v, x : Durable(v, i, x) => \E n \in 1..Len(log) : log[n].ev = v
  BY DEF Durable, Signing, TypeInv, TypeOK, StoreOK
<1>2. ~Durable("apply_file_staged", i, "fwd") /\ ~Durable("apply_rollback_file_staged", i, "rb")
  BY <1>1 DEF Begun
<1>3. \A x : ~SignedId("apply_rollback_file_staged", i, x)
  BY DEF SignedId, Begun
<1> QED
  BY <1>2, <1>3 DEF WriteAhead

\* A rejected application has left neither a file of its own nor a temporary in
\* the project, whatever other programs wrote there.
THEOREM RejectionClean == Spec => []RejectedUntouched
<1>1. TypeInv /\ CourseInv /\ AheadInv => RejectedUntouched
  <2> SUFFICES ASSUME TypeInv, CourseInv, AheadInv, Terminated,
                      LastEvent(log) = "apply_rejected", NEW i \in Ops
               PROVE  file[i].id \notin {"fwd", "rb"} /\ ~ftemp[i] /\ rtemp[i] = "none"
    BY DEF RejectedUntouched
  <2>1. ~Begun
    BY DEF CourseInv, Abandonments, Terminated
  <2>2. ~ftemp[i] /\ rtemp[i] = "none"
    BY <2>1 DEF CourseInv, Temporaries
  <2> QED
    BY <2>1, <2>2, UntouchedBefore DEF AheadInv, OnRecord
<1> QED
  BY <1>1, InitType, StepType, InitGuard, StepGuard, InitCourse, StepCourse, InitAhead,
     StepAhead, PTL DEF Spec

----------------------------------------------------------------------------
(* A verdict stays true of the project.                                    *)

\* Until another program writes, a target is one of the three files it may be.
Known == edits = 0 => \A i \in Ops : Original(i) \/ Result(i) \/ Restored(i)

\* A rollback temporary carries the identity that was signed for it, and is there
\* until it is renamed.
TempTrue == \A i \in Ops : rtemp[i] # "none" /\ Signed("apply_rollback_file_staged", i)
               => SignedId("apply_rollback_file_staged", i, rtemp[i])

Staging == {"rb_stage", "rb_rename", "rb_commit"}

AtStaging == pc \in Staging => k \notin Creates /\ rtemp[k] # "none"

VerdictInv == Known /\ TempTrue /\ AtStaging /\ VerdictHolds

\* The steps that are neither an append nor an exception sign nothing.
LEMMA WorksKeep ==
  ASSUME Works
  PROVE  UNCHANGED <<log, edits>>
<1>1. \A why : Raise(why) => UNCHANGED log
  BY DEF Raise, RaiseSkewed, store
<1>2. CASE ForwardWork
  BY <1>1, <1>2 DEF ForwardWork, Reserve, MarkReserved, MarkPrepared, MarkStarted,
     Prepare, CreateTemp, RenameForward, store, budget
<1>3. CASE CloseWork
  BY <1>1, <1>3 DEF CloseWork, WriteManifest, WriteAnchor, Seal, MarkTerminal, ClearMarker,
     UpdateRecord, Finish, store, budget
<1>4. CASE UndoWork
  BY <1>1, <1>4 DEF UndoWork, SkipUntouched, ReuseStage, CreateRollbackTemp, RenameBack,
     RemoveCreated, RecoverRollback, Emit, RaiseSkewed, store, budget
<1>5. CASE RecoverWork
  BY <1>1, <1>5 DEF RecoverWork, RecoverNothing, RecoverRefused, RecoverTerminal,
     RecoverBegin, RecoverMark, RecoverScan, RecoverWritten, Emit, RaiseSkewed, store,
     budget
<1> QED
  BY <1>2, <1>3, <1>4, <1>5 DEF Works

\* Only an append changes the receipts, only another program counts as an edit.
LEMMA LogGrows ==
  ASSUME TypeInv, [Next]_vars
  PROVE  /\ log' = log \/ Appends
         /\ edits' = 0 => edits = 0 /\ ~ForeignWrite
<1>1. CASE UNCHANGED vars
  BY <1>1 DEF vars, store, budget, ForeignWrite, TypeInv, TypeOK, BudgetOK
<1>2. edits \in Nat /\ ~(edits' = 0 /\ ForeignWrite)
  BY DEF ForeignWrite, TypeInv, TypeOK, BudgetOK
<1>3. CASE Raised
  BY <1>2, <1>3, RaisedKeeps
<1>4. CASE Appends
  BY <1>2, <1>4 DEF Appends, Written
<1>5. CASE Works
  BY <1>2, <1>5, WorksKeep
<1>6. CASE Befalls
  BY <1>2, <1>6 DEF Befalls, Crash, FaultNoChain, LateFaultAnchor, LateFaultMarker,
     ForeignWrite, store
<1> QED
  BY <1>1, <1>3, <1>4, <1>5, <1>6, StepsAs

\* A signature is never taken back.
LEMMA SignaturesStay ==
  ASSUME TypeInv, [Next]_vars, NEW v, NEW i, NEW x, SignedId(v, i, x)
  PROVE  SignedId(v, i, x)'
<1>1. CASE log' = log
  BY <1>1 DEF SignedId
<1>2. CASE Appends
  <2>1. PICK e \in Receipt : log' = Append(log, e)
    BY <1>2 DEF Appends, Written
  <2> QED
    BY <2>1, AppendSays
<1> QED
  BY <1>1, <1>2, LogGrows

\* What happens to a target: it changes only at these places of the process.
LEMMA TargetStep ==
  ASSUME TypeInv, AheadInv, CourseInv, VerdictInv, [Next]_vars, edits' = 0
  PROVE  \/ UNCHANGED file
         \/ /\ k \in Ops /\ pc \in AfterStart /\ UNCHANGED <<log, marker>>
            /\ \A j \in Ops \ {k} : file'[j] = file[j]
            /\ \/ file'[k] = Desired
               \/ /\ k \notin Creates /\ file'[k].c = "before"
                  /\ SignedId("apply_rollback_file_staged", k, file'[k].id)
               \/ k \in Creates /\ file'[k] = Absent
<1>1. CASE UNCHANGED vars
  BY <1>1 DEF vars, primary
<1>r. \A why : Raise(why) => UNCHANGED <<log, marker>>
  BY DEF Raise, RaiseSkewed, store
<1>f. file \in [Ops -> FileStates]
  BY DEF TypeInv, TypeOK, PrimaryOK
<1>2. CASE RenameForward /\ file' = [file EXCEPT ![k] = Desired]
  <2>1. k \in Ops /\ pc \in AfterStart
    BY <1>2 DEF RenameForward, TypeInv, IndexInRange, InRange, AtOperation, AfterStart, AtWork
  <2>2. UNCHANGED <<log, marker>>
    BY <1>2, <1>r DEF RenameForward, store
  <2> QED
    BY <1>2, <1>f, <2>1, <2>2
<1>3. CASE RenameBack /\ file' = [file EXCEPT ![k] = [c |-> "before", id |-> rtemp[k]]]
  <2>1. k \in Ops /\ pc \in AfterStart /\ pc \in Staging /\ pc # "rb_stage"
    BY <1>3 DEF RenameBack, TypeInv, IndexInRange, InRange, AtOperation, AfterStart, AtUndo,
       Staging
  <2>2. UNCHANGED <<log, marker>>
    BY <1>3, <1>r DEF RenameBack, store
  <2>3. Signed("apply_rollback_file_staged", k)
    BY <2>1 DEF AheadInv, AtPlace, UndoSigned, Staging
  <2>4. k \notin Creates /\ SignedId("apply_rollback_file_staged", k, rtemp[k])
    BY <2>1, <2>3 DEF VerdictInv, TempTrue, AtStaging
  <2>5. file'[k] = [c |-> "before", id |-> rtemp[k]]
        /\ \A j \in Ops \ {k} : file'[j] = file[j]
    BY <1>3, <1>f, <2>1
  <2> QED
    BY <2>1, <2>2, <2>4, <2>5
<1>4. CASE RemoveCreated /\ file' = [file EXCEPT ![k] = Absent]
  <2>1. k \in Ops /\ pc \in AfterStart /\ pc = "rb_remove"
    BY <1>4 DEF RemoveCreated, TypeInv, IndexInRange, InRange, AtOperation, AfterStart, AtUndo
  <2>2. UNCHANGED <<log, marker>>
    BY <1>4, <1>r DEF RemoveCreated, store
  <2>3. k \in Creates
    BY <2>1 DEF AheadInv, AtPlace, UndoSigned
  <2> QED
    BY <1>4, <1>f, <2>1, <2>2, <2>3
<1> QED
  BY <1>1, <1>2, <1>3, <1>4, FileChanges, LogGrows DEF FileChange

\* A target stays one of the files it may be.
LEMMA KnownStep ==
  ASSUME TypeInv, AheadInv, CourseInv, VerdictInv, [Next]_vars
  PROVE  Known'
<1> SUFFICES ASSUME edits' = 0, NEW i \in Ops
             PROVE  Original(i)' \/ Result(i)' \/ Restored(i)'
  BY DEF Known
<1>1. Original(i) \/ Result(i) \/ Restored(i)
  BY LogGrows DEF VerdictInv, Known
<1>2. CASE file'[i] = file[i]
  <2>1. Restored(i) => Restored(i)'
    BY <1>2, SignaturesStay DEF Restored
  <2> QED
    BY <1>1, <1>2, <2>1 DEF Original, Result
<1>3. CASE file'[i] # file[i]
  <2>1. /\ i = k /\ UNCHANGED log
        /\ \/ file'[i] = Desired
           \/ /\ i \notin Creates /\ file'[i].c = "before"
              /\ SignedId("apply_rollback_file_staged", i, file'[i].id)
           \/ i \in Creates /\ file'[i] = Absent
    BY <1>3, TargetStep
  <2>2. CASE file'[i] = Desired
    BY <2>2 DEF Result
  <2>3. CASE /\ i \notin Creates /\ file'[i].c = "before"
             /\ SignedId("apply_rollback_file_staged", i, file'[i].id)
    BY <2>1, <2>3 DEF Restored, SignedId
  <2>4. CASE i \in Creates /\ file'[i] = Absent
    BY <2>4 DEF Original, BaseFile, Absent
  <2> QED
    BY <2>1, <2>2, <2>3, <2>4
<1> QED
  BY <1>2, <1>3

\* Without a start every target is the original.
LEMMA OriginalBefore ==
  ASSUME TypeInv, WriteAhead, Known, edits = 0, ~Begun, NEW i \in Ops
  PROVE  Original(i)
<1>1. ~Result(i) /\ ~Restored(i)
  BY UntouchedBefore DEF Result, Restored, Desired
<1> QED
  BY <1>1 DEF Known

\* The rollback temporary stays the one that is signed.
LEMMA StagingStep ==
  ASSUME TypeInv, AheadInv, VerdictInv, [Next]_vars
  PROVE  TempTrue' /\ AtStaging'
<1>0. rtemp \in [Ops -> Ids]
  BY DEF TypeInv, TypeOK, PrimaryOK
<1>1. ASSUME log' = log, \A i \in Ops : rtemp'[i] \in {rtemp[i], "none"}
      PROVE  TempTrue'
  BY <1>1 DEF VerdictInv, TempTrue, Signed, SignedId
<1>2. ASSUME pc' = pc, k' = k, rtemp' = rtemp
      PROVE  AtStaging'
  BY <1>2 DEF VerdictInv, AtStaging
<1>3. ASSUME pc' \notin Staging
      PROVE  AtStaging'
  BY <1>3 DEF AtStaging
<1>4. CASE UNCHANGED vars
  BY <1>1, <1>2, <1>4 DEF vars, primary, store, process
<1>5. CASE Raised
  BY <1>1, <1>3, <1>5, RaisedKeeps DEF Staging
<1>6. CASE Appends
  <2>0. PICK e \in Receipt : \E next, i : Written(e, next, i) /\ Says(e, next, i)
    BY <1>6 DEF Appends
  <2>1. PICK next, i : Written(e, next, i) /\ Says(e, next, i)
    BY <2>0
  <2>2. rtemp' = rtemp /\ log' = Append(log, e) /\ pc' = next /\ k' = i
    BY <2>1 DEF Written
  <2>3. e.ev = "apply_rollback_file_staged"
          => e.op = k /\ (k \in Creates \/ e.id = rtemp[k])
    BY <2>1 DEF Says
  <2>4. TempTrue'
    <3>1. \A j \in Ops : j \in Creates => rtemp[j] = "none"
      BY DEF AheadInv, OnRecord, TempSigned
    <3> QED
      BY <2>2, <2>3, <3>1, AppendSays DEF VerdictInv, TempTrue
  <2>5. AtStaging'
    <3>1. next \in Staging => pc = "rb_stage" /\ i = k
      BY <2>1 DEF Says, Staging
    <3> QED
      BY <2>2, <3>1 DEF VerdictInv, AtStaging, Staging
  <2> QED
    BY <2>4, <2>5
<1>r. ASSUME ~Raised
      PROVE  \A why \in {"mismatch", "conflict", "refused"} :
               ~Raise(why) \/ ~UNCHANGED budget \/ ~Busy
  BY <1>r, RaisesAs DEF Outcomes
<1>7. CASE ForwardWork /\ ~Raised
  <2>1. rtemp' = rtemp /\ pc' \notin Staging
    BY <1>7, <1>r DEF ForwardWork, Reserve, MarkReserved, MarkPrepared, MarkStarted,
       Prepare, CreateTemp, RenameForward, primary, Staging, Busy
  <2> QED
    BY <1>1, <1>3, <1>7, <2>1, WorksKeep DEF Works
<1>8. CASE CloseWork /\ ~Raised
  <2>1. CASE WriteManifest \/ WriteAnchor
    BY <1>1, <1>2, <2>1 DEF WriteManifest, WriteAnchor, primary
  <2>2. CASE Seal
    <3>1. /\ UNCHANGED <<rtemp, log>>
          /\ pc' = CASE who = "apply"     -> "t_mark"
                     [] who = "reconcile" -> "t_record"
                     [] OTHER             -> "t_clear"
      BY <1>8, <1>r, <2>2 DEF Seal, Busy, primary
    <3>2. pc' \notin Staging
      BY <3>1 DEF Staging
    <3> QED
      BY <1>1, <1>3, <3>1, <3>2
  <2>3. CASE MarkTerminal \/ ClearMarker \/ UpdateRecord \/ Finish
    <3>1. UNCHANGED <<rtemp, log>> /\ pc' \notin Staging
      BY <2>3 DEF MarkTerminal, ClearMarker, UpdateRecord, Finish, Return, primary, store,
         Staging
    <3> QED
      BY <1>1, <1>3, <3>1
  <2> QED
    BY <1>8, <2>1, <2>2, <2>3 DEF CloseWork
<1>9. CASE UndoWork /\ ~Raised
  <2>1. CASE SkipUntouched \/ ReuseStage
    <3>1. UNCHANGED <<rtemp, log>>
      BY <2>1 DEF SkipUntouched, ReuseStage, primary, store
    <3>2. AtStaging'
      BY <2>1, <3>1 DEF SkipUntouched, ReuseStage, AtStaging, Staging
    <3> QED
      BY <1>1, <3>1, <3>2
  <2>2. CASE CreateRollbackTemp
    <3>1. /\ k \in Ops \ Creates /\ ~Signed("apply_rollback_file_staged", k)
          /\ k' = k /\ log' = log
          /\ \E x \in {"rb", "orig"} : rtemp' = [rtemp EXCEPT ![k] = x]
      BY <2>2 DEF CreateRollbackTemp, FreshIds, store
    <3>2. rtemp'[k] # "none" /\ \A i \in Ops \ {k} : rtemp'[i] = rtemp[i]
      BY <1>0, <3>1
    <3>3. AtStaging'
      BY <3>1, <3>2 DEF AtStaging
    <3>4. TempTrue'
      BY <3>1, <3>2 DEF VerdictInv, TempTrue, Signed, SignedId
    <3> QED
      BY <3>3, <3>4
  <2>3. CASE RenameBack \/ RemoveCreated
    <3>1. /\ log' = log /\ pc' = "rb_restored"
          /\ \A i \in Ops : rtemp'[i] \in {rtemp[i], "none"}
      BY <1>0, <1>9, <1>r, <2>3 DEF RenameBack, RemoveCreated, Busy, store
    <3> QED
      BY <1>1, <1>3, <3>1 DEF Staging
  <2>4. CASE RecoverRollback /\ UNCHANGED log /\ ~Appends
    <3>1. Plain("apply_rollback_started") \in Receipt
          /\ Plain("apply_rollback_started").ev = "apply_rollback_started"
      BY ReceiptType DEF Events, Plain
    <3>2. rtemp' = rtemp /\ pc' = "rb"
      BY <1>9, <2>4, <3>1, EmitsAs DEF RecoverRollback, Says, Busy, primary
    <3> QED
      BY <1>1, <1>3, <2>4, <3>2 DEF Staging
  <2> QED
    BY <1>6, <1>9, <2>1, <2>2, <2>3, <2>4 DEF UndoWork
<1>10. CASE RecoverWork /\ ~Raised
  <2>1. CASE RecoverNothing \/ RecoverRefused
    BY <1>1, <1>2, <2>1 DEF RecoverNothing, RecoverRefused, primary, store
  <2>2. CASE RecoverTerminal \/ RecoverBegin \/ RecoverMark \/ RecoverScan
    <3>1. UNCHANGED <<rtemp, log>> /\ pc' \notin Staging
      BY <1>10, <1>r, <2>2 DEF RecoverTerminal, RecoverBegin, RecoverMark, RecoverScan,
         primary, store, Busy, Staging
    <3> QED
      BY <1>1, <1>3, <3>1
  <2>3. CASE RecoverWritten /\ UNCHANGED log /\ ~Appends
    <3>1. k \in Ops
      BY <2>3 DEF RecoverWritten
    <3>2. Progress("apply_file_written", k) \in Receipt
          /\ Progress("apply_file_written", k).ev = "apply_file_written"
      BY <3>1, ReceiptType DEF Events, Progress
    <3>3. rtemp' = rtemp /\ pc' = "complete"
      BY <1>10, <2>3, <3>2, EmitsAs DEF RecoverWritten, Says, Busy, primary
    <3> QED
      BY <1>1, <1>3, <2>3, <3>3 DEF Staging
  <2> QED
    BY <1>6, <1>10, <2>1, <2>2, <2>3 DEF RecoverWork
<1>11. CASE Befalls
  <2>1. /\ log' = log /\ \A i \in Ops : rtemp'[i] \in {rtemp[i], "none"}
        /\ (pc' = pc /\ k' = k /\ rtemp' = rtemp) \/ pc' \in {"idle", "handler"}
    BY <1>0, <1>11 DEF Befalls, Crash, FaultNoChain, LateFaultAnchor, LateFaultMarker,
       ForeignWrite, Return, Unwind, primary, store, process
  <2> QED
    BY <1>1, <1>2, <1>3, <2>1 DEF Staging
<1> QED
  BY <1>4, <1>5, <1>6, <1>7, <1>8, <1>9, <1>10, <1>11, StepsAs DEF Works

\* A verdict is true when it is given, and nothing happens to a target after it.
LEMMA VerdictStep ==
  ASSUME TypeInv, GuardInv, CourseInv, AheadInv, VerdictInv, [Next]_vars
  PROVE  VerdictInv'
<1>1. Known' /\ TempTrue' /\ AtStaging'
  BY KnownStep, StagingStep
<1>2. VerdictHolds'
  <2> SUFFICES ASSUME Terminated', edits' = 0
               PROVE  VerdictHolds'
    BY DEF VerdictHolds, BeforeEdits
  <2>1. edits = 0
    BY LogGrows
  <2>2. CASE log' = log
    <3>1. Terminated /\ LastEvent(log') = LastEvent(log)
      BY <2>2 DEF Terminated
    <3>2. pc \notin AfterStart
      BY <3>1 DEF CourseInv, Stages, Undecided
    <3>3. file' = file
      BY <3>2, TargetStep
    <3>4. /\ \A i : Original(i)' <=> Original(i)
          /\ \A i : Result(i)' <=> Result(i)
          /\ \A i : Restored(i)' <=> Restored(i)
      BY <2>2, <3>3 DEF Original, Result, Restored, SignedId
    <3> QED
      BY <2>1, <3>1, <3>4 DEF VerdictInv, VerdictHolds, BeforeEdits
  <2>3. CASE Appends
    <3>0. PICK e \in Receipt : \E next, i : Written(e, next, i) /\ Says(e, next, i)
      BY <2>3 DEF Appends
    <3>1. PICK next, i : Written(e, next, i) /\ Says(e, next, i)
      BY <3>0
    <3>2. file' = file /\ LastEvent(log') = e.ev
      BY <3>1, LastOfAppend DEF Written, TypeInv, TypeOK, StoreOK
    <3>3. e.ev \in TerminalEvents
      BY <3>2 DEF Terminated
    <3>4. CASE e.ev = "candidate_applied"
      <4>1. ResultInPlace
        BY <3>1, <3>4 DEF Says
      <4>2. \A j \in Ops : Result(j)
        <5> SUFFICES ASSUME NEW j \in Ops PROVE Result(j)
          OBVIOUS
        <5>1. file[j].c = "after"
          BY <4>1 DEF ResultInPlace
        <5>2. ~Original(j) /\ ~Restored(j)
          BY <5>1 DEF Original, Restored, BaseFile
        <5> QED
          BY <2>1, <5>2 DEF VerdictInv, Known
      <4>3. \A j \in Ops : Result(j)'
        BY <3>2, <4>2 DEF Result
      <4> QED
        BY <3>2, <3>4, <4>3 DEF VerdictHolds
    <3>5. CASE e.ev = "apply_rolled_back"
      <4>1. BaseIntact
        BY <3>1, <3>5 DEF Says
      <4>2. \A j \in Ops : ~Result(j)
        BY <4>1 DEF Result, Desired, BaseIntact, BaseFile
      <4>3. \A j \in Ops : ~Result(j)'
        BY <3>2, <4>2 DEF Result
      <4>4. \A j \in Ops : Original(j)' \/ Restored(j)'
        BY <1>1, <4>3 DEF Known
      <4> QED
        BY <3>2, <3>5, <4>4 DEF VerdictHolds
    <3>6. CASE e.ev = "apply_rejected"
      <4>1. ~Begun'
        <5>1. Abandonments'
          BY StepCourse DEF CourseInv
        <5> QED
          BY <3>2, <3>6, <5>1 DEF Abandonments, Terminated
      <4>2. ~Begun
        <5>1. /\ log \in Seq(Receipt) /\ Len(log) \in Nat
              /\ log' = Append(log, e)
          BY <3>1 DEF Written, TypeInv, TypeOK, StoreOK
        <5>2. Len(log') = Len(log) + 1 /\ \A n \in 1..Len(log) : log'[n] = log[n]
          BY <5>1, LastOfAppend
        <5> QED
          BY <4>1, <5>1, <5>2 DEF Begun
      <4>3. \A j \in Ops : Original(j)
        BY <2>1, <4>2, OriginalBefore DEF VerdictInv, AheadInv, OnRecord
      <4>4. \A j \in Ops : Original(j)'
        BY <3>2, <4>3 DEF Original
      <4> QED
        BY <3>2, <3>6, <4>4 DEF VerdictHolds
    <3> QED
      BY <3>3, <3>4, <3>5, <3>6 DEF TerminalEvents
  <2> QED
    BY <2>2, <2>3, LogGrows
<1> QED
  BY <1>1, <1>2 DEF VerdictInv

\* The verdict invariant holds at first.
LEMMA InitVerdict == Init => VerdictInv
<1> SUFFICES ASSUME Init PROVE VerdictInv
  OBVIOUS
<1>1. \A i \in Ops : Original(i)
  BY DEF Init, Original, BaseFile, Absent
<1>2. ~Terminated /\ \A i \in Ops : rtemp[i] = "none"
  BY DEF Init, Terminated
<1>3. pc \notin Staging
  BY DEF Init, Staging
<1> QED
  BY <1>1, <1>2, <1>3 DEF VerdictInv, Known, TempTrue, AtStaging, VerdictHolds

\* Everything the process relies on, together.
ApplyInv == TypeInv /\ GuardInv /\ CourseInv /\ AheadInv /\ AnswerInv /\ VerdictInv

\* It holds in every state.
LEMMA ApplyInvariant == Spec => []ApplyInv
<1>1. Init => ApplyInv
  BY InitType, InitGuard, InitCourse, InitAhead, InitAnswer, InitVerdict DEF ApplyInv
<1>2. ApplyInv /\ [Next]_vars => ApplyInv'
  BY StepType, StepGuard, StepCourse, StepAhead, StepAnswer, VerdictStep DEF ApplyInv
<1> QED
  BY <1>1, <1>2, PTL DEF Spec

\* What a terminal receipt says of the project stays true: applied, every target
\* is the signed result; rolled back, the original or its signed restoration;
\* rejected, the original.
THEOREM VerdictStays == Spec => []VerdictHolds
<1>1. ApplyInv => VerdictHolds
  BY DEF ApplyInv, VerdictInv
<1> QED
  BY <1>1, ApplyInvariant, PTL

----------------------------------------------------------------------------
(* The application is an atomic, guarded, once-decided change.             *)

\* What the abstract specification sees of the files.
LEMMA WorldIs ==
  /\ World \in {"base", "mixed", "result"}
  /\ BaseIntact => World = "base"
  /\ ResultInPlace => World = "result"
  /\ (\A i \in Ops : Original(i)) => World = "base"
<1>1. World \in {"base", "mixed", "result"}
  BY DEF World
<1>2. 1 \in Ops
  BY EvidenceAssumption DEF Ops
<1>3. ASSUME \A i \in Ops : file[i].c = BaseFile(i)
      PROVE  World = "base"
  BY <1>3 DEF World
<1>4. ResultInPlace => World = "result"
  BY <1>2 DEF World, ResultInPlace, BaseFile
<1>5. ASSUME NEW i \in Ops, Original(i)
      PROVE  file[i].c = BaseFile(i)
  <2>1. CASE i \in Creates
    BY <1>5, <2>1 DEF Original
  <2>2. CASE i \notin Creates
    BY <1>5, <2>2 DEF Original
  <2> QED
    BY <2>1, <2>2
<1> QED
  BY <1>1, <1>3, <1>4, <1>5 DEF BaseIntact

\* The steps that change the marker.
MarkerChange ==
  \/ UNCHANGED marker
  \/ pc \in {"reserve", "mark_prepared"} /\ marker' # NoMarker
  \/ pc = "mark_started" /\ marker' # NoMarker
  \/ pc = "t_mark" /\ marker' # NoMarker
  \/ pc = "scan" /\ Happened("apply_started") /\ marker'.hash = marker.hash
  \/ pc = "t_clear" /\ marker' = NoMarker

\* No other step changes the marker.
LEMMA MarkerChanges == ASSUME TypeInv, [Next]_vars PROVE MarkerChange
<1>1. CASE UNCHANGED vars
  BY <1>1 DEF vars, MarkerChange
<1>2. \A why : Raise(why) => UNCHANGED marker
  BY DEF Raise, RaiseSkewed
<1>3. CASE Raised
  BY <1>3, RaisedKeeps DEF MarkerChange
<1>4. CASE Appends
  BY <1>4 DEF Appends, Written, MarkerChange
<1>p. \A p \in {"reserved", "prepared", "started", "terminal"} : Marked(p) # NoMarker
  BY DEF Marked, NoMarker
<1>5. CASE MarkReserved \/ MarkPrepared \/ MarkStarted \/ MarkTerminal \/ LateFaultMarker
  BY <1>5, <1>p DEF MarkReserved, MarkPrepared, MarkStarted, MarkTerminal,
     LateFaultMarker, MarkPhase, MarkerChange
<1>6. CASE ClearMarker
  BY <1>6 DEF ClearMarker, MarkerChange
<1>7. CASE RecoverMark
  <2>1. marker'.hash = marker.hash
    BY <1>7 DEF RecoverMark, TypeInv, TypeOK, GuardOK, Markers
  <2> QED
    BY <1>7, <2>1 DEF RecoverMark, MarkerChange
<1>8. CASE ForwardWork /\ ~(MarkReserved \/ MarkPrepared \/ MarkStarted)
  <2>1. UNCHANGED marker
    BY <1>2, <1>8 DEF ForwardWork, Reserve, Prepare, CreateTemp, RenameForward
  <2> QED
    BY <2>1 DEF MarkerChange
<1>9. CASE CloseWork /\ ~(MarkTerminal \/ ClearMarker)
  <2>1. UNCHANGED marker
    BY <1>2, <1>9 DEF CloseWork, WriteManifest, WriteAnchor, Seal, UpdateRecord, Finish
  <2> QED
    BY <2>1 DEF MarkerChange
<1>10. CASE UndoWork
  <2>1. UNCHANGED marker
    BY <1>2, <1>10 DEF UndoWork, SkipUntouched, ReuseStage, CreateRollbackTemp, RenameBack,
       RemoveCreated, RecoverRollback, Emit, RaiseSkewed
  <2> QED
    BY <2>1 DEF MarkerChange
<1>11. CASE RecoverWork /\ ~RecoverMark
  <2>1. UNCHANGED marker
    BY <1>2, <1>11 DEF RecoverWork, RecoverNothing, RecoverRefused, RecoverTerminal,
       RecoverBegin, RecoverScan, RecoverWritten, Emit, RaiseSkewed
  <2> QED
    BY <2>1 DEF MarkerChange
<1>12. CASE Befalls /\ ~LateFaultMarker
  <2>1. UNCHANGED marker
    BY <1>12 DEF Befalls, Crash, FaultNoChain, LateFaultAnchor, ForeignWrite
  <2> QED
    BY <2>1 DEF MarkerChange
<1> QED
  BY <1>1, <1>3, <1>4, <1>5, <1>6, <1>7, <1>8, <1>9, <1>10, <1>11, <1>12, StepsAs DEF Works

\* While the process works on a started application its marker is there.
LEMMA GuardedStart ==
  ASSUME GuardInv, CourseInv, Happened("apply_started"), ~Terminated
  PROVE  marker # NoMarker
<1>1. marker.hash
  BY DEF GuardInv, MarkerCarriesJournal
<1> QED
  BY <1>1 DEF NoMarker

\* An append decides or says nothing.
LEMMA AppendAtomic ==
  ASSUME ApplyInv, ApplyInv', Appends, edits' = 0
  PROVE  Atomic!Next \/ UNCHANGED Atomic!vars
<1>0. PICK e \in Receipt : \E next, i : Written(e, next, i) /\ Says(e, next, i)
  BY DEF Appends
<1>1. PICK next, i : Written(e, next, i) /\ Says(e, next, i)
  BY <1>0
<1>2. /\ file' = file /\ marker' = marker /\ LastEvent(log') = e.ev /\ log' # << >>
      /\ ~Terminated
  BY <1>1, LastOfAppend, AcceptsOpen DEF Written, ApplyInv, TypeInv, TypeOK, StoreOK
<1>3. /\ World' = World /\ (marker # NoMarker)' = (marker # NoMarker) /\ Verdict = "open"
      /\ Terminated' <=> e.ev \in TerminalEvents
  BY <1>2 DEF World, Verdict, Terminated
<1>4. CASE e.ev \notin TerminalEvents
  <2>1. Verdict' = "open"
    BY <1>3, <1>4 DEF Verdict
  <2> QED
    BY <1>3, <2>1 DEF Atomic!vars
<1>5. CASE e.ev = "candidate_applied"
  <2>1. pc \in {"op", "complete"} /\ ResultInPlace
    BY <1>1, <1>5 DEF Says
  <2>2. marker # NoMarker
    <3>1. Happened("apply_started")
      BY <2>1 DEF ApplyInv, CourseInv, Stages, AfterStart, AtWork
    <3> QED
      BY <1>2, <3>1, GuardedStart DEF ApplyInv
  <2>3. Verdict' = "applied"
    BY <1>2, <1>3, <1>5 DEF Verdict, OutcomeOf, TerminalEvents
  <2> QED
    BY <1>3, <2>1, <2>2, <2>3, WorldIs DEF Atomic!Next, Atomic!Commit
<1>6. CASE e.ev \in {"apply_rolled_back", "apply_rejected"}
  <2>1. Verdict' \in {"rolled_back", "rejected"}
    BY <1>2, <1>3, <1>6 DEF Verdict, OutcomeOf, TerminalEvents
  <2>2. World = "base"
    <3>1. CASE e.ev = "apply_rolled_back"
      BY <1>1, <3>1, WorldIs DEF Says
    <3>2. CASE e.ev = "apply_rejected"
      <4>1. \A j \in Ops : Original(j)'
        BY <1>2, <1>3, <3>2 DEF ApplyInv, VerdictInv, VerdictHolds, BeforeEdits,
           TerminalEvents
      <4>2. \A j \in Ops : Original(j)
        BY <1>2, <4>1 DEF Original
      <4> QED
        BY <4>2, WorldIs
    <3> QED
      BY <1>6, <3>1, <3>2
  <2> QED
    BY <1>3, <2>1, <2>2 DEF Atomic!Next, Atomic!Withdraw
<1> QED
  BY <1>4, <1>5, <1>6 DEF TerminalEvents

\* Files change only under the marker and while nothing is decided; the marker is
\* set before anything changed and taken away when all is decided.
LEMMA QuietAtomic ==
  ASSUME ApplyInv, [Next]_vars, log' = log, edits' = 0
  PROVE  Atomic!Next \/ UNCHANGED Atomic!vars
<1>1. Verdict' = Verdict /\ edits = 0
  BY LogGrows DEF Verdict, Terminated, ApplyInv
<1>2. CASE file' # file
  <2>1. pc \in AfterStart /\ marker' = marker
    BY <1>2, TargetStep DEF ApplyInv
  <2>2. Happened("apply_started") /\ ~Terminated
    BY <2>1 DEF ApplyInv, CourseInv, Stages, Undecided
  <2>3. marker # NoMarker /\ Verdict = "open"
    BY <2>2, GuardedStart DEF ApplyInv, Verdict
  <2>4. World' \in {"base", "mixed", "result"}
    BY DEF World
  <2> QED
    BY <1>1, <2>1, <2>3, <2>4 DEF Atomic!Next, Atomic!Change, Atomic!Worlds
<1>3. CASE file' = file
  <2>1. World' = World
    BY <1>3 DEF World
  <2>2. CASE (marker' # NoMarker) = (marker # NoMarker)
    BY <1>1, <2>1, <2>2 DEF Atomic!vars
  <2>3. CASE marker = NoMarker /\ marker' # NoMarker
    <3>1. pc \in {"reserve", "mark_prepared"}
      <4>1. MarkerChange
        BY MarkerChanges DEF ApplyInv
      <4>2. ~marker.hash
        BY <2>3 DEF NoMarker
      <4>3. pc \notin {"mark_started"} /\ ~(pc = "scan" /\ Happened("apply_started"))
        BY <2>3, GuardedStart DEF ApplyInv, CourseInv, Stages, AfterStart, AtWork, Undecided
      <4>4. pc # "t_mark"
        BY <2>3 DEF ApplyInv, AnswerInv, CourseInv, Roles
      <4> QED
        BY <2>3, <4>1, <4>3, <4>4 DEF MarkerChange
    <3>2. ~Begun /\ ~Terminated
      BY <3>1 DEF ApplyInv, CourseInv, Stages, BeforeStart, Undecided
    <3>3. \A j \in Ops : Original(j)
      BY <1>1, <3>2, OriginalBefore DEF ApplyInv, VerdictInv, AheadInv, OnRecord
    <3>4. World = "base" /\ Verdict = "open"
      BY <3>2, <3>3, WorldIs DEF Verdict
    <3> QED
      BY <1>1, <2>1, <2>3, <3>4 DEF Atomic!Next, Atomic!Close
  <2>4. CASE marker # NoMarker /\ marker' = NoMarker
    <3>1. pc = "t_clear"
      <4>1. MarkerChange
        BY MarkerChanges DEF ApplyInv
      <4>2. ASSUME pc = "scan", Happened("apply_started"), marker'.hash = marker.hash
            PROVE  FALSE
        <5>1. marker.hash
          BY <4>2 DEF ApplyInv, GuardInv, MarkerCarriesJournal, CourseInv, Stages, Undecided
        <5> QED
          BY <2>4, <4>2, <5>1 DEF NoMarker
      <4> QED
        BY <2>4, <4>1, <4>2 DEF MarkerChange
    <3>2. Terminated
      BY <3>1 DEF ApplyInv, TypeInv, VerdictGiven, AtVerdict
    <3>3. Verdict # "open"
      BY <3>2 DEF Verdict, Terminated, OutcomeOf, TerminalEvents
    <3> QED
      BY <1>1, <2>1, <2>4, <3>3 DEF Atomic!Next, Atomic!Open
  <2> QED
    BY <2>2, <2>3, <2>4
<1> QED
  BY <1>2, <1>3

\* Until another program writes into the project, the application with its
\* receipts, temporaries, crashes and recovery is one guarded change of the whole
\* scope that is decided once.
THEOREM AppliesAtomically == Spec => ImplementsAtomic
<1> DEFINE Allowed == edits' = 0 => Atomic!Next \/ UNCHANGED Atomic!vars
<1>1. Init => Atomic!Init
  <2> SUFFICES ASSUME Init PROVE Atomic!Init
    OBVIOUS
  <2>1. \A i \in Ops : Original(i)
    BY DEF Init, Original, BaseFile, Absent
  <2>2. marker = NoMarker /\ Verdict = "open"
    BY DEF Init, Verdict, Terminated
  <2> QED
    BY <2>1, <2>2, WorldIs DEF Atomic!Init
<1>2. ApplyInv /\ ApplyInv' /\ [Next]_vars => [Allowed]_vars
  <2> SUFFICES ASSUME ApplyInv, ApplyInv', [Next]_vars, edits' = 0
               PROVE  Atomic!Next \/ UNCHANGED Atomic!vars
    OBVIOUS
  <2> QED
    BY AppendAtomic, QuietAtomic, LogGrows DEF ApplyInv
<1> QED
  BY <1>1, <1>2, ApplyInvariant, PTL DEF Spec, ImplementsAtomic
=============================================================================
