---------------------------- MODULE ApplyEvidence ----------------------------
(***************************************************************************)
(* The closed event vocabulary of one candidate application and the        *)
(* lifecycle contract that every append to its receipt chain must satisfy. *)
(*                                                                         *)
(* A receipt is abstracted to its event, the operation it names (0 when it *)
(* names none) and the stable file identity it signs ("none" when it signs *)
(* none).  Receipt sequence numbers are positions in the log, so the       *)
(* sequence/hash crosslinks of the payloads, which the writers fill from   *)
(* the receipts just appended, hold by position; the order, count and      *)
(* prefix rules are kept.                                                  *)
(*                                                                         *)
(* A definition marked "wrong on purpose", here and in the modules below,  *)
(* is a variant with a plausible bug; nothing uses it.  Put in place of    *)
(* the definition that follows it, it makes a property fail: PROJECT.json  *)
(* lists which.                                                            *)
(***************************************************************************)
EXTENDS Naturals, Sequences

CONSTANTS N,       \* operations of the journal, indexed 1..N (0..N-1 in the code)
          Creates  \* the operations whose path does not exist in the base

ASSUME EvidenceAssumption == /\ N \in Nat \ {0}
                             /\ Creates \subseteq 1..N

Ops == 1..N

\* Stable identities (volume, file_id) as the protocol tells them apart: of the
\* original file, of the forward temporary, of the rollback temporary, and of
\* files some other program put there.
ForeignIds == {"ext1", "ext2"}
Ids == {"none", "orig", "fwd", "rb"} \cup ForeignIds

TerminalEvents == {"apply_rejected", "candidate_applied", "apply_rolled_back"}

Events == TerminalEvents \cup
          {"apply_authority_created", "apply_prepared", "apply_started",
           "apply_file_staged", "apply_file_written", "apply_rollback_started",
           "apply_rollback_file_staged", "apply_rollback_file_restored",
           "apply_recovery_required"}

Receipt == [ev : Events, op : 0..N, id : Ids]

Plain(e)         == [ev |-> e, op |-> 0, id |-> "none"]
Progress(e, i)   == [ev |-> e, op |-> i, id |-> "none"]
Signing(e, i, x) == [ev |-> e, op |-> i, id |-> x]

----------------------------------------------------------------------------
\* The indices of the operations that the events e of log l name, in log order.
OpsOf(l, e) == LET s == SelectSeq(l, LAMBDA r : r.ev = e)
               IN  [n \in DOMAIN s |-> s[n].op]

CountOf(l, e) == Len(OpsOf(l, e))

Ascending(s)    == \A n \in DOMAIN s : s[n] = n
PrefixOf(s, t)  == Len(s) <= Len(t) /\ \A n \in DOMAIN s : s[n] = t[n]
Descending(s)   == \A m, n \in DOMAIN s : m < n => s[m] > s[n]

LastEvent(l) == l[Len(l)].ev

\* Wrong on purpose: receipts may follow a terminal one.
FramedOpenEnded(l, sealing) ==
  /\ \A n \in 1..Len(l) : (l[n].ev = "apply_authority_created") <=> (n = 1)
  /\ sealing => LastEvent(l) \in TerminalEvents

\* One begin receipt, first; nothing follows a terminal one; a seal needs one.
Framed(l, sealing) ==
  /\ \A n \in 1..Len(l) : (l[n].ev = "apply_authority_created") <=> (n = 1)
  /\ \A n \in 1..Len(l) : n < Len(l) => l[n].ev \notin TerminalEvents
  /\ sealing => LastEvent(l) \in TerminalEvents

\* A rejection is the second receipt, or the third after the preparation.
Abandoned(l) ==
  /\ LastEvent(l) = "apply_rejected"
  /\ \/ Len(l) = 2
     \/ Len(l) = 3 /\ l[2].ev = "apply_prepared"

ForwardInOrder(l) ==
  LET staged  == OpsOf(l, "apply_file_staged")
      written == OpsOf(l, "apply_file_written")
  IN /\ l[2].ev = "apply_prepared" /\ CountOf(l, "apply_prepared") = 1
     /\ \A n \in 3..Len(l) : l[n].ev = "apply_started" => n = 3
     /\ Len(staged) > 0 => CountOf(l, "apply_started") = 1
     /\ Ascending(staged)  /\ Len(staged) <= N
     /\ Ascending(written) /\ PrefixOf(written, staged)

RollbackInOrder(l) ==
  LET staged   == OpsOf(l, "apply_rollback_file_staged")
      restored == OpsOf(l, "apply_rollback_file_restored")
      tail     == {"apply_rollback_file_staged", "apply_rollback_file_restored",
                   "apply_recovery_required", "apply_rolled_back"}
  IN \A m \in 3..Len(l) : l[m].ev = "apply_rollback_started" =>
        /\ \A n \in m+1..Len(l) : l[n].ev \in tail
        /\ Descending(staged)
        /\ PrefixOf(restored, staged)

TerminalEarned(l) ==
  /\ LastEvent(l) = "candidate_applied" =>
        /\ CountOf(l, "apply_started") = 1
        /\ CountOf(l, "apply_file_written") = N
  /\ LastEvent(l) = "apply_rolled_back" =>
        /\ CountOf(l, "apply_rollback_started") = 1
        /\ CountOf(l, "apply_rollback_file_restored")
             = CountOf(l, "apply_rollback_file_staged")

\* validate_decision_receipt_contract: what a chain may look like after an
\* append (sealing = FALSE) and before a seal (sealing = TRUE).
Contract(l, sealing) ==
  /\ l # << >>
  /\ Framed(l, sealing)
  /\ \/ Len(l) = 1
     \/ Abandoned(l)
     \/ /\ Len(l) > 1
        /\ LastEvent(l) # "apply_rejected"
        /\ ForwardInOrder(l) /\ RollbackInOrder(l) /\ TerminalEarned(l)
=============================================================================
