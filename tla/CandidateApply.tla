--------------------------- MODULE CandidateApply ----------------------------
(***************************************************************************)
(* Explicit candidate application: one apply request, the server process   *)
(* that executes it, its crashes and transient failures, and recovery.     *)
(*                                                                         *)
(* Durable state: the primary project files and the two temporaries per    *)
(* operation, the receipt chain with its manifest and manifest anchor, the *)
(* primary marker, the journal's before-identities and the request record. *)
(* Everything else is the process's memory and is lost in a crash.         *)
(*                                                                         *)
(* One receipt append is three durable steps (receipt line, manifest,      *)
(* anchor); the process may stop between any two of them.                  *)
(***************************************************************************)
EXTENDS ApplyEvidence

CONSTANTS MaxCrashes,  \* bound: process deaths
          MaxFaults,   \* bound: exceptions raised by a call the process makes
          MaxEdits,    \* bound: writes by programs that are not TORQ
          ReuseIds,    \* the filesystem may give a freed file_id to a new file
          UnlinkFails  \* removing a temporary while an exception unwinds may fail

ASSUME ApplyAssumption == /\ MaxCrashes \in Nat /\ MaxFaults \in Nat
                          /\ MaxEdits \in Nat
                          /\ ReuseIds \in BOOLEAN /\ UnlinkFails \in BOOLEAN

VARIABLES
  file,     \* [Ops -> content and stable identity of the target]
  ftemp,    \* [Ops -> does the forward temporary exist]
  rtemp,    \* [Ops -> identity of the rollback temporary, "none" if absent]
  context,  \* do the unchanged scoped files still hold their base bytes
  log,      \* the receipt lines on disk
  cover,    \* how many of them the manifest on disk covers
  pend,     \* the manifest is one generation ahead of its anchor
  sealed,   \* the manifest on disk says sealed
  gap,      \* a receipt on disk skips a sequence number
  marker,   \* the primary marker
  journal,  \* [Ops -> before_identity recorded in the journal]
  record,   \* state of the request in the review store
  pc, k,    \* next step of the process and the operation it is at
  who,      \* which handler the process executes
  io,       \* the part of an append or seal still to be written
  started, marked,  \* apply's locals `started' and `marker_written'
  states,   \* recover's local list of per-operation states
  skew,     \* the chain object's sequence is ahead of its receipts
  reply,    \* the last answer to the operator
  crashes, faults, edits

primary == <<file, ftemp, rtemp, context>>
store   == <<log, cover, pend, sealed, gap>>
locals  == <<started, marked, states, skew>>
process == <<pc, k, who, io, locals, reply>>
budget  == <<crashes, faults, edits>>
vars    == <<primary, store, marker, journal, record, process, budget>>

FileStates == [c : {"absent", "before", "after", "third"}, id : Ids]
Absent     == [c |-> "absent", id |-> "none"]
BaseFile(i)    == IF i \in Creates THEN "absent" ELSE "before"
Desired        == [c |-> "after", id |-> "fwd"]

NoMarker == [phase |-> "none", hash |-> FALSE]
Marked(p) == [phase |-> p, hash |-> p # "reserved"]
Markers  == [phase : {"none", "reserved", "prepared", "started",
                      "recovering", "terminal"}, hash : BOOLEAN]

\* What the operator is told when recovery is refused, by cause.
Refusals == {"unverified", "conflict", "mismatch", "invalid", "refused", "failed"}
Outcomes == {"applied", "rolled_back", "rejected"}

OutcomeOf(e) == CASE e = "candidate_applied"  -> "applied"
                  [] e = "apply_rolled_back"  -> "rolled_back"
                  [] e = "apply_rejected"     -> "rejected"

----------------------------------------------------------------------------
(* What the evidence on disk says.                                         *)

\* verify_receipt_store, for a store only its owner writes.  After a skipped
\* number the manifest counts a receipt that is not there.
Truncated == log = << >> \/ cover = 0 \/ (gap /\ cover = Len(log))

Status == IF Truncated THEN "incomplete"
          ELSE IF Len(log) > cover /\ sealed THEN "tampered"
          ELSE IF pend THEN "incomplete"
          ELSE IF Len(log) > cover THEN "live_catching_up"
          ELSE "verified"

Happened(e)   == \E n \in 1..Len(log) : log[n].ev = e
Signed(e, i)  == \E n \in 1..Len(log) : log[n].ev = e /\ log[n].op = i
SignedId(e, i, x) == \E n \in 1..Len(log) :
                       log[n].ev = e /\ log[n].op = i /\ log[n].id = x

Terminated == log # << >> /\ LastEvent(log) \in TerminalEvents

\* Receipts that name the chain's sequence as the receipt that caused them.
CausedEvents == {"apply_rollback_started", "apply_recovery_required"}

\* ReceiptChain.append accepts e: verified store, not sealed, contract kept.
Accepts(e) == /\ ~sealed
              /\ log # << >> => Status = "verified"
              /\ Contract(Append(log, e), FALSE)
              /\ skew => e.ev \notin CausedEvents

(* What the files say.                                                     *)
BaseIntact   == context /\ \A i \in Ops : file[i].c = BaseFile(i)
ResultInPlace == context /\ \A i \in Ops : file[i].c = "after"
NoForwardTemp == \A i \in Ops : ~ftemp[i]

----------------------------------------------------------------------------
Init ==
  /\ file = [i \in Ops |-> IF i \in Creates THEN Absent
                           ELSE [c |-> "before", id |-> "orig"]]
  /\ ftemp = [i \in Ops |-> FALSE]
  /\ rtemp = [i \in Ops |-> "none"]
  /\ context = TRUE
  /\ log = << >> /\ cover = 0 /\ pend = FALSE /\ sealed = FALSE /\ gap = FALSE
  /\ marker = NoMarker
  /\ journal = [i \in Ops |-> "none"]
  /\ record = "none"
  /\ pc = "new" /\ k = 0 /\ who = "none" /\ io = "idle"
  /\ started = FALSE /\ marked = FALSE
  /\ states = [i \in Ops |-> "none"] /\ skew = FALSE
  /\ reply = "none"
  /\ crashes = 0 /\ faults = 0 /\ edits = 0

\* Where the process can be.
Steps == {"new", "idle", "create", "prepare", "reserve", "write_journal",
          "mark_prepared", "start", "mark_started", "op", "stage", "rename",
          "written", "t_seal", "t_mark", "t_clear", "t_record", "handler",
          "give_up", "finish", "rb", "rb_stage", "rb_rename", "rb_commit",
          "rb_remove", "rb_restored", "abort", "scan", "complete", "rb_begin"}

\* The process takes no step of its own while an append or seal is unfinished.
At(p) == pc = p /\ io = "idle"

Goto(p, i) == pc' = p /\ k' = i

\* The call returns to its caller; its locals are gone.
Return(r) == /\ pc' = "idle" /\ k' = 0 /\ who' = "none" /\ io' = "idle"
             /\ started' = FALSE /\ marked' = FALSE
             /\ states' = [i \in Ops |-> "none"] /\ skew' = FALSE
             /\ reply' = r

\* replace() removes the temporary it created unless the rename happened.
Unwind ==
  /\ \/ /\ pc \in {"stage", "rename"}
        /\ ftemp' = [ftemp EXCEPT ![k] = FALSE] /\ rtemp' = rtemp
     \/ /\ pc \in {"rb_stage", "rb_rename"}
        /\ rtemp' = [rtemp EXCEPT ![k] = "none"] /\ ftemp' = ftemp
     \/ /\ pc \notin {"stage", "rename", "rb_stage", "rb_rename"} \/ UnlinkFails
        /\ UNCHANGED <<ftemp, rtemp>>

\* An exception leaves the current step: apply falls into _rollback_or_reject,
\* that one gives up, recover propagates.  ahead: what becomes of skew.
RaiseSkewed(why, ahead) ==
  /\ Unwind
  /\ \/ /\ who = "apply"
        /\ pc' = "handler" /\ who' = "handler" /\ io' = "idle" /\ skew' = ahead
        /\ UNCHANGED <<k, started, marked, states, reply>>
     \/ /\ who = "handler" /\ pc \notin {"t_record", "finish"}
        /\ pc' = (IF pc = "give_up" THEN "finish" ELSE "give_up")
        /\ io' = "idle" /\ skew' = ahead
        /\ UNCHANGED <<k, who, started, marked, states, reply>>
     \/ /\ who = "handler" /\ pc = "finish" /\ io # "idle"
        /\ io' = "idle"
        /\ UNCHANGED <<pc, k, who, locals, reply>>
     \/ /\ \/ who \in {"recover", "reconcile"}
           \/ who = "handler" /\ pc \in {"t_record", "finish"} /\ io = "idle"
        /\ Return(why)
  /\ UNCHANGED <<file, context, store, marker, journal, record>>

Raise(why) == RaiseSkewed(why, skew)

\* _append: the receipt line is written and synced, or the append is refused, or
\* writing the line fails.  append() counts the sequence up before it writes and
\* counts it down only when the contract refuses the receipt, so after a failed
\* write the next receipt of this chain object skips a number.
Emit(e, next, i) ==
  \/ /\ Accepts(e)
     /\ log' = Append(log, e) /\ gap' = skew
     /\ io' = "manifest" /\ Goto(next, i)
     /\ UNCHANGED <<primary, cover, pend, sealed, marker, journal, record,
                    who, locals, reply, budget>>
  \/ /\ ~Accepts(e)
     /\ Raise("refused")
     /\ UNCHANGED budget
  \/ /\ Accepts(e) /\ faults < MaxFaults
     /\ RaiseSkewed("failed", TRUE)
     /\ faults' = faults + 1
     /\ UNCHANGED <<crashes, edits>>

----------------------------------------------------------------------------
(* The receipt chain finishing an append or a seal.                        *)

WriteManifest ==
  /\ io = "manifest"
  /\ cover' = Len(log) /\ pend' = TRUE /\ io' = "anchor"
  /\ UNCHANGED <<primary, log, sealed, gap, marker, journal, record, pc, k, who,
                 locals, reply, budget>>

WriteAnchor ==
  /\ io = "anchor"
  /\ pend' = FALSE /\ io' = "idle"
  /\ started' = (started \/ LastEvent(log) = "apply_started")
  /\ UNCHANGED <<primary, log, cover, sealed, gap, marker, journal, record, pc, k,
                 who, marked, states, skew, reply, budget>>

----------------------------------------------------------------------------
(* CandidateReviewService.apply, forward.                                  *)

Reserve ==
  /\ At("new")
  /\ record' = "reserved" /\ pc' = "create" /\ who' = "apply"
  /\ UNCHANGED <<primary, store, marker, journal, k, io, locals, reply, budget>>

CreateAuthority ==
  /\ At("create")
  /\ Emit(Plain("apply_authority_created"), "prepare", 0)

\* Wrong on purpose: temporaries are made while preparing.
PrepareStaging ==
  /\ At("prepare") /\ BaseIntact
  /\ journal' = [i \in Ops |-> file[i].id]
  /\ ftemp' = [i \in Ops |-> TRUE]
  /\ pc' = "reserve"
  /\ UNCHANGED <<file, rtemp, context, store, marker, record, k, who, io,
                 locals, reply, budget>>

\* Lock, read the marker, check the base, remember every target's identity.
Prepare ==
  /\ At("prepare")
  /\ \/ /\ BaseIntact
        /\ journal' = [i \in Ops |-> file[i].id]
        /\ pc' = "reserve"
        /\ UNCHANGED <<primary, store, marker, record, k, who, io, locals, reply>>
     \/ ~BaseIntact /\ Raise("mismatch")
  /\ UNCHANGED budget

MarkPhase(p) == marker' = Marked(p)

MarkReserved ==
  /\ At("reserve")
  /\ MarkPhase("reserved") /\ marked' = TRUE /\ pc' = "write_journal"
  /\ UNCHANGED <<primary, store, journal, record, k, who, io, started, states,
                 skew, reply, budget>>

AppendPrepared ==
  /\ At("write_journal")
  /\ Emit(Plain("apply_prepared"), "mark_prepared", 0)

AppendStarted ==
  /\ At("start")
  /\ Emit(Plain("apply_started"), "mark_started", 0)

MarkPrepared ==
  /\ At("mark_prepared")
  /\ MarkPhase("prepared") /\ pc' = "start"
  /\ UNCHANGED <<primary, store, journal, record, k, who, io, locals, reply, budget>>

MarkStarted ==
  /\ At("mark_started")
  /\ MarkPhase("started") /\ Goto("op", 1)
  /\ UNCHANGED <<primary, store, journal, record, who, io, locals, reply, budget>>

\* Wrong on purpose: equal bytes are enough.
SameBytes(i) == file[i].c = BaseFile(i)

\* The target is what prepare saw: same content and same identity.
AsPrepared(i) == file[i].c = BaseFile(i) /\ file[i].id = journal[i]

CreateTemp ==
  /\ At("op") /\ k \in Ops
  /\ \/ /\ AsPrepared(k)
        /\ ftemp' = [ftemp EXCEPT ![k] = TRUE] /\ pc' = "stage"
        /\ UNCHANGED <<file, rtemp, context, store, marker, journal, record, k,
                       who, io, locals, reply>>
     \/ ~AsPrepared(k) /\ Raise("conflict")
  /\ UNCHANGED budget

AppendStaged ==
  /\ At("stage")
  /\ Emit(Signing("apply_file_staged", k, "fwd"), "rename", k)

\* Wrong on purpose: the rename does not wait for the manifest and the anchor.
RenameForwardEarly ==
  /\ pc = "rename"
  /\ \/ /\ AsPrepared(k)
        /\ file' = [file EXCEPT ![k] = Desired]
        /\ ftemp' = [ftemp EXCEPT ![k] = FALSE]
        /\ pc' = "written"
        /\ UNCHANGED <<rtemp, context, store, marker, journal, record, k, who,
                       io, locals, reply>>
     \/ ~AsPrepared(k) /\ Raise("conflict")
  /\ UNCHANGED budget

\* Last identity check and the atomic rename over the target.
RenameForward ==
  /\ At("rename")
  /\ \/ /\ AsPrepared(k)
        /\ file' = [file EXCEPT ![k] = Desired]
        /\ ftemp' = [ftemp EXCEPT ![k] = FALSE]
        /\ pc' = "written"
        /\ UNCHANGED <<rtemp, context, store, marker, journal, record, k, who,
                       io, locals, reply>>
     \/ ~AsPrepared(k) /\ Raise("conflict")
  /\ UNCHANGED budget

AppendWritten ==
  /\ At("written")
  /\ Emit(Progress("apply_file_written", k), "op", k + 1)

\* Verify the scoped result and sign it.
AppendApplied ==
  /\ \/ At("op") /\ k = N + 1
     \/ At("complete") /\ k = N + 1
  /\ \/ ResultInPlace /\ Emit(Plain("candidate_applied"), "t_seal", 0)
     \/ ~ResultInPlace /\ Raise("mismatch") /\ UNCHANGED budget

----------------------------------------------------------------------------
(* After a terminal receipt: seal, update the marker and the record.  Only *)
(* apply writes the phase "terminal"; recover of an already terminal chain *)
(* ("reconcile") updates the record before it clears the marker.           *)

Seal ==
  /\ At("t_seal")
  /\ \/ /\ Status = "verified" /\ Contract(log, TRUE)
        /\ sealed' = TRUE /\ pend' = TRUE /\ io' = "anchor"
        /\ pc' = CASE who = "apply"     -> "t_mark"
                   [] who = "reconcile" -> "t_record"
                   [] OTHER             -> "t_clear"
        /\ UNCHANGED <<primary, log, cover, gap, marker, journal, record, k, who,
                       locals, reply>>
     \/ ~(Status = "verified" /\ Contract(log, TRUE)) /\ Raise("refused")
  /\ UNCHANGED budget

MarkTerminal ==
  /\ At("t_mark")
  /\ MarkPhase("terminal") /\ pc' = "t_clear"
  /\ UNCHANGED <<primary, store, journal, record, k, who, io, locals, reply, budget>>

Answer == OutcomeOf(LastEvent(log))

\* apply's rejection path clears the marker only if it knows it wrote it.
ClearMarker ==
  /\ At("t_clear")
  /\ marker' = IF who = "handler" /\ ~started /\ ~marked THEN marker ELSE NoMarker
  /\ \/ who = "reconcile"  /\ Return(Answer)
     \/ who # "reconcile" /\ pc' = "t_record"
                           /\ UNCHANGED <<k, who, io, locals, reply>>
  /\ UNCHANGED <<primary, store, journal, record, budget>>

UpdateRecord ==
  /\ At("t_record")
  /\ record' = Answer
  /\ \/ who # "reconcile" /\ Return(Answer)
     \/ who = "reconcile" /\ pc' = "t_clear"
                           /\ UNCHANGED <<k, who, io, locals, reply>>
  /\ UNCHANGED <<primary, store, marker, journal, budget>>

----------------------------------------------------------------------------
(* CandidateReviewService._rollback_or_reject.                             *)

Reject ==
  /\ At("handler") /\ ~started
  /\ Emit(Plain("apply_rejected"), "t_seal", 0)

StartRollback ==
  /\ At("handler") /\ started
  /\ Emit(Plain("apply_rollback_started"), "rb", N)

\* Sign apply_recovery_required if the chain still takes it, swallow if not.
GiveUp ==
  /\ At("give_up")
  /\ Emit(Plain("apply_recovery_required"), "finish", k)

Finish ==
  /\ At("finish")
  /\ record' = "recovery_required" /\ Return("recovery_required")
  /\ UNCHANGED <<primary, store, marker, journal, budget>>

----------------------------------------------------------------------------
(* Undoing one operation, by _rollback_or_reject or by recover.  For a     *)
(* replace: rollback temporary, signed identity, rename, restored receipt. *)
(* For a create: signed delete intent, removal, restored receipt.          *)

\* What each caller believes of operation i: the exception handler looks at the
\* file, recover at the states its scan recorded.
Untouched(i) == IF who = "handler" THEN file[i].c = BaseFile(i)
                                   ELSE states[i] # "after"
Undoable(i)  == /\ file[i] = Desired
                /\ SignedId("apply_file_staged", i, file[i].id)

\* Wrong on purpose: recover never adds the missing receipt of a restoration.
NeverUnreported(i) == FALSE

\* recover finds the base bytes under the rollback identity without a receipt.
Unreported(i) == /\ who = "recover" /\ states[i] = "before_rollback"
                 /\ Signed("apply_rollback_file_staged", i)
                 /\ ~Signed("apply_rollback_file_restored", i)

SkipUntouched ==
  /\ At("rb") /\ k \in Ops /\ Untouched(k) /\ ~Unreported(k)
  /\ k' = k - 1
  /\ UNCHANGED <<primary, store, marker, journal, record, pc, who, io, locals, reply, budget>>

AppendRestored ==
  /\ \/ At("rb_restored")
     \/ At("rb") /\ k \in Ops /\ Untouched(k) /\ Unreported(k)
  /\ Emit(Progress("apply_rollback_file_restored", k), "rb", k - 1)

RefuseUndo ==
  /\ At("rb") /\ k \in Ops /\ ~Untouched(k)
  /\ \/ ~Undoable(k)
     \/ /\ k \notin Creates /\ rtemp[k] = "none"
        /\ Signed("apply_rollback_file_staged", k)
  /\ Raise("conflict")
  /\ UNCHANGED budget

AppendDeleteIntent ==
  /\ At("rb") /\ k \in Creates /\ ~Untouched(k) /\ Undoable(k)
  /\ ~Signed("apply_rollback_file_staged", k)
  /\ Emit(Signing("apply_rollback_file_staged", k, "fwd"), "rb_remove", k)

ReuseStage ==
  /\ At("rb") /\ k \in Ops /\ ~Untouched(k) /\ Undoable(k)
  /\ Signed("apply_rollback_file_staged", k)
  /\ k \in Creates \/ rtemp[k] # "none"
  /\ pc' = (IF k \in Creates THEN "rb_remove" ELSE "rb_commit")
  /\ UNCHANGED <<primary, store, marker, journal, record, k, who, io, locals, reply, budget>>

\* The original file is gone, so a filesystem may give its file_id away again.
FreshIds(i) == {"rb"} \cup (IF ReuseIds /\ journal[i] = "orig" THEN {"orig"} ELSE {})

CreateRollbackTemp ==
  /\ At("rb") /\ k \in Ops \ Creates /\ ~Untouched(k) /\ Undoable(k)
  /\ ~Signed("apply_rollback_file_staged", k)
  /\ \E x \in FreshIds(k) : rtemp' = [rtemp EXCEPT ![k] = x]
  /\ pc' = "rb_stage"
  /\ UNCHANGED <<file, ftemp, context, store, marker, journal, record, k, who,
                 io, locals, reply, budget>>

\* Wrong on purpose: the identity signed is the original's.
AppendRollbackStagedOriginal ==
  /\ At("rb_stage")
  /\ Emit(Signing("apply_rollback_file_staged", k, journal[k]), "rb_rename", k)

AppendRollbackStaged ==
  /\ At("rb_stage")
  /\ Emit(Signing("apply_rollback_file_staged", k, rtemp[k]), "rb_rename", k)

\* The rename of a temporary made now, or of a signed one that survived.
RenameBack ==
  /\ At("rb_rename") \/ At("rb_commit")
  /\ \/ /\ file[k] = Desired
        /\ file' = [file EXCEPT ![k] = [c |-> "before", id |-> rtemp[k]]]
        /\ rtemp' = [rtemp EXCEPT ![k] = "none"]
        /\ pc' = "rb_restored"
        /\ UNCHANGED <<ftemp, context, store, marker, journal, record, k, who,
                       io, locals, reply>>
     \/ file[k] # Desired /\ Raise("conflict")
  /\ UNCHANGED budget

\* Wrong on purpose: the removal does not wait for the manifest and the anchor.
RemoveCreatedEarly ==
  /\ pc = "rb_remove" /\ file[k] = Desired
  /\ file' = [file EXCEPT ![k] = Absent] /\ pc' = "rb_restored"
  /\ UNCHANGED <<ftemp, rtemp, context, store, marker, journal, record, k, who,
                 io, locals, reply, budget>>

RemoveCreated ==
  /\ At("rb_remove")
  /\ \/ /\ file[k] = Desired
        /\ file' = [file EXCEPT ![k] = Absent] /\ pc' = "rb_restored"
        /\ UNCHANGED <<ftemp, rtemp, context, store, marker, journal, record, k,
                       who, io, locals, reply>>
     \/ file[k] # Desired /\ Raise("conflict")
  /\ UNCHANGED budget

AppendRolledBack ==
  /\ At("rb") /\ k = 0
  /\ \/ BaseIntact /\ Emit(Plain("apply_rolled_back"), "t_seal", 0)
     \/ ~BaseIntact /\ Raise("mismatch") /\ UNCHANGED budget

----------------------------------------------------------------------------
(* CandidateReviewService.recover.                                         *)

Idle == pc = "idle"

RecoverNothing ==
  /\ Idle /\ marker = NoMarker
  /\ reply' = "idle"
  /\ UNCHANGED <<primary, store, marker, journal, record, pc, k, who, io,
                 locals, budget>>

\* Why a recovery is refused that finds a decided chain, or an unprepared one.
DecidedRefusal ==
  IF ~NoForwardTemp THEN "conflict"
  ELSE IF LastEvent(log) = "candidate_applied" /\ ~ResultInPlace THEN "mismatch"
  ELSE IF LastEvent(log) # "candidate_applied" /\ ~BaseIntact THEN "mismatch"
  ELSE "none"

UnpreparedRefusal ==
  IF Len(log) # 1 THEN "invalid"
  ELSE IF ~BaseIntact THEN "mismatch"
  ELSE IF ~NoForwardTemp THEN "conflict" ELSE "none"

\* Why a recovery that finds the marker is refused before it does anything.
Refusal ==
  IF Status # "verified" THEN "unverified"
  ELSE IF Terminated THEN DecidedRefusal
  ELSE IF ~Happened("apply_prepared") THEN UnpreparedRefusal
  ELSE "none"

RecoverRefused ==
  /\ Idle /\ marker # NoMarker
  /\ Refusal # "none" /\ reply' = Refusal
  /\ UNCHANGED <<primary, store, marker, journal, record, pc, k, who, io,
                 locals, budget>>

\* Wrong on purpose: an unsealed decided chain is answered as it is.
RecoverTerminalUnsealed ==
  /\ Idle /\ marker # NoMarker /\ Refusal = "none" /\ Terminated
  /\ who' = "reconcile" /\ pc' = "t_record"
  /\ UNCHANGED <<primary, store, marker, journal, record, k, io, locals, reply, budget>>

RecoverTerminal ==
  /\ Idle /\ marker # NoMarker /\ Refusal = "none" /\ Terminated
  /\ who' = "reconcile" /\ pc' = (IF sealed THEN "t_record" ELSE "t_seal")
  /\ UNCHANGED <<primary, store, marker, journal, record, k, io, locals, reply, budget>>

\* Begin: without a prepared receipt go straight to the rejection.
RecoverBegin ==
  /\ Idle /\ marker # NoMarker /\ Refusal = "none" /\ ~Terminated
  /\ who' = "recover"
  /\ IF Happened("apply_prepared") THEN Goto("scan", 1) ELSE Goto("abort", 0)
  /\ UNCHANGED <<primary, store, marker, journal, record, io, locals, reply, budget>>

RecoverAbort ==
  /\ At("abort")
  /\ Emit(Plain("apply_rejected"), "t_seal", 0)

\* The tests of the scan, for one operation.
RollbackTempUnknown(i) ==
  /\ rtemp[i] # "none"
  /\ ~SignedId("apply_rollback_file_staged", i, rtemp[i])

ForwardTempUnknown(i) == ftemp[i] /\ ~SignedId("apply_file_staged", i, "fwd")

UndoneUnreported(i) == /\ Signed("apply_rollback_file_staged", i)
                       /\ ~Signed("apply_rollback_file_restored", i)

\* Wrong on purpose: only the original identity proves base bytes.
NoRestoredIdentity(i) == FALSE

RestoredIdentity(i) == /\ Signed("apply_rollback_file_staged", i)
                       /\ SignedId("apply_rollback_file_staged", i, file[i].id)

ForwardTempLost(i) == /\ Signed("apply_file_staged", i) /\ ~ftemp[i]
                      /\ ~Happened("apply_rollback_started")

BaseUnproved(i) ==
  \/ /\ i \notin Creates
     /\ \/ file[i].id # journal[i] /\ ~RestoredIdentity(i)
        \/ RestoredIdentity(i) /\ rtemp[i] # "none"
        \/ file[i].id = journal[i] /\ UndoneUnreported(i)
  \/ i \in Creates /\ UndoneUnreported(i)
  \/ ForwardTempLost(i)

ResultUnproved(i) == \/ ftemp[i]
                     \/ ~SignedId("apply_file_staged", i, file[i].id)

ScanConflict(i) ==
  \/ RollbackTempUnknown(i) \/ ForwardTempUnknown(i)
  \/ file[i].c = BaseFile(i) /\ BaseUnproved(i)
  \/ file[i].c = "after" /\ ResultUnproved(i)
  \/ file[i].c \notin {BaseFile(i), "after"}

ScanState(i) ==
  IF file[i].c = "after" THEN "after"
  ELSE IF IF i \in Creates THEN ~Signed("apply_rollback_file_staged", i)
                           ELSE file[i].id = journal[i]
       THEN "before_original" ELSE "before_rollback"

\* Classify operation k; a proved forward temporary of an untouched operation is
\* removed on the spot, before any receipt of a rollback.
RecoverScan ==
  /\ At("scan") /\ k \in Ops
  /\ \/ /\ ~ScanConflict(k)
        /\ states' = [states EXCEPT ![k] = ScanState(k)]
        /\ ftemp' = [ftemp EXCEPT ![k] = FALSE]
        /\ k' = k + 1
        /\ UNCHANGED <<file, rtemp, context, store, marker, journal, record, pc,
                       who, io, started, marked, skew, reply>>
     \/ ScanConflict(k) /\ Raise("conflict")
  /\ UNCHANGED budget

AllAfter == \A i \in Ops : states[i] = "after"

RecoverUnstarted ==
  /\ At("scan") /\ k = N + 1 /\ ~Happened("apply_started")
  /\ Emit(Plain("apply_rejected"), "t_seal", 0)

\* The marker keeps the journal hash it has (MarkerCarriesJournal: it has one).
RecoverMark ==
  /\ At("scan") /\ k = N + 1 /\ Happened("apply_started")
  /\ marker' = [marker EXCEPT !.phase = "recovering"]
  /\ IF AllAfter THEN Goto("complete", 1) ELSE Goto("rb_begin", N)
  /\ UNCHANGED <<primary, store, journal, record, who, io, locals, reply, budget>>

RecoverWritten ==
  /\ At("complete") /\ k \in Ops
  /\ \/ /\ Signed("apply_file_written", k) /\ k' = k + 1
        /\ UNCHANGED <<primary, store, marker, journal, record, pc, who, io,
                       locals, reply, budget>>
     \/ /\ ~Signed("apply_file_written", k)
        /\ Emit(Progress("apply_file_written", k), "complete", k + 1)

RecoverRollback ==
  /\ At("rb_begin")
  /\ \/ /\ Happened("apply_rollback_started") /\ pc' = "rb"
        /\ UNCHANGED <<primary, store, marker, journal, record, k, who, io,
                       locals, reply, budget>>
     \/ /\ ~Happened("apply_rollback_started")
        /\ Emit(Plain("apply_rollback_started"), "rb", N)

----------------------------------------------------------------------------
(* The environment.                                                        *)

Busy == pc \notin {"new", "idle"}

Crash ==
  /\ Busy /\ crashes < MaxCrashes
  /\ crashes' = crashes + 1
  /\ Return("none")
  /\ UNCHANGED <<primary, store, marker, journal, record, faults, edits>>

\* Any call of the current step raises before it has an effect.
Fault ==
  /\ Busy /\ faults < MaxFaults
  /\ faults' = faults + 1
  /\ Raise("failed")
  /\ UNCHANGED <<crashes, edits>>

\* ReceiptChain's constructor fails: apply has no broker yet.
FaultNoChain ==
  /\ At("create") /\ faults < MaxFaults
  /\ faults' = faults + 1
  /\ record' = "failed" /\ Return("failed")
  /\ UNCHANGED <<primary, store, marker, journal, crashes, edits>>

\* A call takes effect on disk and raises afterwards (the restriction or the
\* directory fsync after the atomic rename of the anchor or of the marker).
LateFaultAnchor ==
  /\ io = "anchor" /\ who = "apply" /\ faults < MaxFaults
  /\ faults' = faults + 1
  /\ pend' = FALSE
  /\ pc' = "handler" /\ who' = "handler" /\ io' = "idle" /\ Unwind
  /\ UNCHANGED <<file, context, log, cover, sealed, gap, marker, journal, record, k,
                 locals, reply, crashes, edits>>

LateFaultMarker ==
  /\ At("reserve") /\ faults < MaxFaults
  /\ faults' = faults + 1
  /\ MarkPhase("reserved")
  /\ pc' = "handler" /\ who' = "handler"
  /\ UNCHANGED <<primary, store, journal, record, k, io, locals,
                 reply, crashes, edits>>

\* Some other program writes into the project: other bytes or the known ones as a
\* new file, a deletion, or a change of the unmodified scoped files.
ForeignFiles(i) ==
  {Absent} \cup [c : {"third", "after", BaseFile(i)} \ {"absent"},
                 id : ForeignIds \ {file[i].id, journal[i]}]

ForeignWrite ==
  /\ edits < MaxEdits /\ edits' = edits + 1
  /\ \/ \E i \in Ops : \E f \in ForeignFiles(i) :
           /\ f # file[i]
           /\ file' = [file EXCEPT ![i] = f] /\ UNCHANGED context
     \/ context' = FALSE /\ UNCHANGED file
  /\ UNCHANGED <<ftemp, rtemp, store, marker, journal, record, process, crashes,
                 faults>>

----------------------------------------------------------------------------
Forward == \/ Reserve \/ CreateAuthority \/ Prepare \/ MarkReserved
           \/ AppendPrepared \/ MarkPrepared \/ AppendStarted \/ MarkStarted
           \/ CreateTemp \/ AppendStaged \/ RenameForward \/ AppendWritten
           \/ AppendApplied

Terminal == Seal \/ MarkTerminal \/ ClearMarker \/ UpdateRecord

Handler == Reject \/ StartRollback \/ GiveUp \/ Finish

Undo == \/ SkipUntouched \/ AppendRestored \/ RefuseUndo \/ AppendDeleteIntent
        \/ ReuseStage \/ CreateRollbackTemp \/ AppendRollbackStaged
        \/ RenameBack \/ RemoveCreated \/ AppendRolledBack

Recover == \/ RecoverNothing \/ RecoverRefused \/ RecoverTerminal
           \/ RecoverBegin \/ RecoverAbort \/ RecoverScan \/ RecoverUnstarted
           \/ RecoverMark \/ RecoverWritten \/ RecoverRollback

Server == \/ WriteManifest \/ WriteAnchor \/ Forward \/ Terminal \/ Handler
          \/ Undo \/ Recover

Environment == \/ Crash \/ Fault \/ FaultNoChain \/ LateFaultAnchor
               \/ LateFaultMarker \/ ForeignWrite

Next == Server \/ Environment

Spec == Init /\ [][Next]_vars

\* The process keeps running unless it dies, and a blocked project is recovered
\* again by its operator.
FairSpec == Spec /\ WF_vars(Server)
=============================================================================
