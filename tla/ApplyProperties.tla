--------------------------- MODULE ApplyProperties ---------------------------
(***************************************************************************)
(* What makes CandidateApply correct.  BeforeEdits: no program other than  *)
(* TORQ has written into the project, the contract's precondition for      *)
(* exact outcomes; properties without it also hold under such writes.      *)
(***************************************************************************)
EXTENDS CandidateApply

BeforeEdits == edits = 0

\* The prepared original, the signed result, or the signed restoration of an
\* operation: the only files the protocol may put at, or accept from, a target.
Original(i) == file[i] = [c |-> BaseFile(i), id |-> IF i \in Creates THEN "none"
                                                    ELSE "orig"]
Result(i)   == file[i] = Desired
Restored(i) == /\ i \notin Creates /\ file[i].c = "before"
               /\ SignedId("apply_rollback_file_staged", i, file[i].id)

\* A receipt that the manifest covers, so that a restart will believe it.
Durable(e, i, x) == \E n \in 1..cover : log[n] = Signing(e, i, x)

----------------------------------------------------------------------------
PrimaryOK == /\ file \in [Ops -> FileStates]
             /\ ftemp \in [Ops -> BOOLEAN]
             /\ rtemp \in [Ops -> Ids]
             /\ context \in BOOLEAN

StoreOK == /\ log \in Seq(Receipt)
           /\ cover \in 0..Len(log)
           /\ pend \in BOOLEAN /\ sealed \in BOOLEAN /\ gap \in BOOLEAN

GuardOK == /\ marker \in Markers
           /\ journal \in [Ops -> Ids]
           /\ record \in {"none", "reserved", "failed", "recovery_required"} \cup Outcomes

Replies == {"none", "idle", "recovery_required"} \cup Refusals \cup Outcomes

ProcessOK == /\ pc \in Steps
             /\ k \in 0..N+1
             /\ who \in {"none", "apply", "handler", "recover", "reconcile"}
             /\ io \in {"idle", "manifest", "anchor"}
             /\ started \in BOOLEAN /\ marked \in BOOLEAN /\ skew \in BOOLEAN
             /\ states \in [Ops -> {"none", "after", "before_original", "before_rollback"}]
             /\ reply \in Replies

BudgetOK == /\ crashes \in 0..MaxCrashes
            /\ faults \in 0..MaxFaults
            /\ edits \in 0..MaxEdits

\* Every variable keeps its type.
TypeOK == PrimaryOK /\ StoreOK /\ GuardOK /\ ProcessOK /\ BudgetOK

\* A terminal receipt stays true of the project: applied means every target is
\* the signed result, rolled back that each is the original or its signed
\* restoration, rejected that none was ever replaced.
VerdictHolds ==
  Terminated /\ BeforeEdits =>
    CASE LastEvent(log) = "candidate_applied" -> \A i \in Ops : Result(i)
      [] LastEvent(log) = "apply_rolled_back" ->
            \A i \in Ops : Original(i) \/ Restored(i)
      [] LastEvent(log) = "apply_rejected"    -> \A i \in Ops : Original(i)

\* Write-ahead evidence: a target carries an identity the protocol made only if a
\* receipt that survives a restart signed that identity first.
WriteAhead ==
  \A i \in Ops :
    /\ file[i].id = "fwd" => Durable("apply_file_staged", i, "fwd")
    /\ file[i].id = "rb"  => Durable("apply_rollback_file_staged", i, "rb")

\* A started application is always found again: while its chain is undecided the
\* marker is present and carries the journal hash recovery needs.
MarkerCarriesJournal ==
  Happened("apply_started") /\ ~Terminated => marker.hash

\* An outcome told to the operator is the sealed outcome and the recorded one.
TruthfulAnswer ==
  reply \in Outcomes => sealed /\ ~pend /\ Terminated /\ reply = Answer /\ record = reply

----------------------------------------------------------------------------
\* The same for a deletion: a created file goes away, unless another program
\* removes it, only after a delete intent that survives a restart.
RemovalIsSigned ==
  [][\A i \in Ops :
       file'[i] = Absent /\ file[i] # Absent /\ edits' = edits
         => Durable("apply_rollback_file_staged", i, "fwd")]_vars

\* Under writes of other programs too, a rejection leaves nothing of the protocol
\* in the project: no file it made, no temporary.
RejectedUntouched ==
  Terminated /\ LastEvent(log) = "apply_rejected" =>
    \A i \in Ops : file[i].id \notin {"fwd", "rb"} /\ ~ftemp[i] /\ rtemp[i] = "none"

\* The protocol never replaces or removes a target it did not prepare or sign:
\* other bytes, equal bytes under another identity, an unexpected absence.
ForeignSurvives ==
  [][\A i \in Ops :
       (file'[i] # file[i] /\ edits' = edits)
         => Result(i) \/ file[i] = [c |-> BaseFile(i), id |-> journal[i]]]_vars

----------------------------------------------------------------------------
(* Why recovery may be refused.                                            *)

\* Documented: evidence or identity that a restart cannot decide.
Ambiguous(i) ==
  \/ ftemp[i] /\ ~Signed("apply_file_staged", i)
  \/ rtemp[i] # "none" /\ ~Signed("apply_rollback_file_staged", i)
  \/ i \in Creates /\ file[i] = Absent /\ UndoneUnreported(i)
  \/ i \notin Creates /\ Result(i) /\ rtemp[i] = "none" /\ UndoneUnreported(i)

\* A decided application whose temporary could not be removed.
LeftBehind      == Terminated /\ ~NoForwardTemp

\* Not documented: what the code refuses besides.
Unverified      == Status # "verified"
ScannedTemp(i)  == ForwardTempLost(i) /\ Original(i)
UndoNotBegun    == Happened("apply_rollback_started") /\ \A i \in Ops : Result(i)
FailedAbandon   == Happened("apply_recovery_required") /\ ~Happened("apply_started")

Blocked == \/ LeftBehind \/ Unverified \/ UndoNotBegun \/ FailedAbandon
           \/ \E i \in Ops : Ambiguous(i) \/ ScannedTemp(i)

\* The file id of a replaced original was given to the rollback temporary, so its
\* signature no longer tells the restored file from the prepared one.
IdGivenAway == \E i \in Ops : SignedId("apply_rollback_file_staged", i, "orig")

\* The refusals of recovery are exactly explained: before any write of another
\* program and with every call succeeding, recovery refuses only a Blocked
\* project or one whose ids the filesystem gave away.
RefusalExplained ==
  [][(/\ who' = "none" /\ reply' \in Refusals /\ BeforeEdits
      /\ who \in {"none", "recover", "reconcile"} /\ pc # "new"
      /\ UNCHANGED budget) => Blocked \/ IdGivenAway]_vars

\* Recovery, repeated by the operator, ends: the marker goes away for good unless
\* the project stays one that is refused, or another program writes into it.
RecoveryEnds == <>[](marker = NoMarker) \/ <>[](Blocked \/ IdGivenAway) \/ <>~BeforeEdits

----------------------------------------------------------------------------
(* The abstract specification.                                             *)

World == IF \A i \in Ops : file[i].c = BaseFile(i) THEN "base"
         ELSE IF \A i \in Ops : file[i].c = "after" THEN "result" ELSE "mixed"

Verdict == IF Terminated THEN OutcomeOf(LastEvent(log)) ELSE "open"

Atomic == INSTANCE AtomicApply WITH
            Verdicts <- {"rolled_back", "rejected"},
            world <- World, guarded <- marker # NoMarker, verdict <- Verdict

\* The application with its receipts, temporaries, crashes and recovery is an
\* atomic, guarded, once-decided change of the whole scope, until another
\* program writes into it.
ImplementsAtomic ==
  Atomic!Init /\ [][edits' = 0 => Atomic!Next \/ UNCHANGED Atomic!vars]_vars
=============================================================================
