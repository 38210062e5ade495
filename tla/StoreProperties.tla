--------------------------- MODULE StoreProperties ---------------------------
(***************************************************************************)
(* What the receipt store must keep, and what its documents say of it.     *)
(***************************************************************************)
EXTENDS ReceiptStore

Steps == {"closed", "opening", "idle", "line", "manifest", "anchor"}
Jobs == {"none", "open", "create", "pending", "tail", "append", "seal"}
LineKinds == Kinds \cup {"fragment"}
Manifests == [id : Nat, gen : Nat, covers : Nat, sealed : BOOLEAN]
ReadSteps == {"start", "before", "before_lines", "manifest", "lines", "anchor",
              "after", "after_lines", "done"}
Results == Statuses \cup {"none", "evidence_unstable"}

(* Every variable keeps the shape the code gives it.                        *)
TypeOK ==
  /\ log \in Seq([seq : Nat, kind : LineKinds])
  /\ manifest \in Manifests
  /\ anchor \in [written : BOOLEAN, gen : Nat, of : Nat]
  /\ pc \in Steps /\ job \in Jobs
  /\ chain \in [seq : Nat, gen : Nat, sealed : BOOLEAN]
  /\ writing \in Kinds \cup {"none"}
  /\ asked \in [Writers -> Kinds \cup {"none"}]
  /\ refusal \in Statuses \cup {"none"}
  /\ acked \in Nat /\ closed \in BOOLEAN /\ slipped \in BOOLEAN
  /\ view \in [step : ReadSteps, m1 : Manifests, n1 : Nat, m : Manifests,
               n : Nat, m2 : Manifests, n2 : Nat, tries : Nat, result : Results,
               acked : Nat, closed : BOOLEAN]
  /\ crashes \in 0..MaxCrashes /\ faults \in 0..MaxFaults

(* A receipt whose append returned stays inside the manifest (append and    *)
(* the resume after a crash, receipts.py 1216-1390 and 1441-1524): no       *)
(* crash, failure or reopening takes an answer back.                        *)
AckedCovered == acked > 0 => manifest.covers >= acked /\ Len(log) >= acked

(* A seal that returned stays: no append that passed its test before, no    *)
(* failure and no reopening replaces the sealed manifest by an open one     *)
(* (the unlocked test of _sealed, receipts.py 1449, behind the broker).     *)
SealKept == closed => manifest.sealed

(* An honest store is never reported as tampered with, whatever step the    *)
(* process died in (_write_manifest before _write_manifest_anchor, and the  *)
(* pending rule of verify_receipt_store, 2046-2058), unless an anchor's     *)
(* write once took effect and raised.                                       *)
NeverTampered == Status = "tampered" => slipped

(* A number was given to no receipt (_sequence ahead of the file, 1473).    *)
SkippedNumber ==
  \/ manifest.covers > Len(log)
  \/ \E i \in DOMAIN log : log[i].kind # "fragment" /\ log[i].seq # i

(* Opening is refused only for a cause the next opening cannot remove       *)
(* either: the very first receipt has no manifest, a line is torn, a        *)
(* number was skipped, a generation was used twice, or a receipt follows a  *)
(* seal.                                                                    *)
FirstUncovered == Missing /\ log # <<>>
TornTail == \E i \in DOMAIN log : log[i].kind = "fragment"
TwoOfAGeneration == manifest.gen = anchor.gen /\ manifest.id # anchor.of
PastSeal == manifest.sealed /\ Len(log) > manifest.covers
Lost == FirstUncovered \/ TornTail \/ SkippedNumber \/ TwoOfAGeneration \/ PastSeal
RefusalExplained ==
  [][pc = "opening" /\ pc' = "closed" /\ crashes' = crashes => Lost]_vars

(* A snapshot the projector publishes shows everything that had been        *)
(* acknowledged when it was asked for, and it is called verified exactly    *)
(* when no receipt of it lies outside the manifest it shows, although the   *)
(* verdict came from other reads of the same files; and in no interleaving  *)
(* is a store that is being written taken for a tampered one (fleet.py      *)
(* 525-600 around verify_receipt_store).                                    *)
Published == view.step = "done" /\ view.result \in {"verified", "live_catching_up"}
ProjectionExact ==
  /\ view.step = "done" => view.result # "tampered"
  /\ Published => /\ view.m2.covers >= view.acked
                  /\ view.closed => view.m2.sealed
                  /\ view.result = "verified" <=> view.n2 = view.m2.covers

(* With crashes that stop, an owner that keeps opening gets the store back, *)
(* or it is one of the stores that is lost.                                 *)
Reopens == []<>(pc = "idle" \/ Lost)

(* The store implements the durable log: what counts is the part of the     *)
(* receipts under the manifest, and it is final once a seal has returned.   *)
Covered == IF manifest.covers <= Len(log) THEN manifest.covers ELSE Len(log)
D == INSTANCE DurableLog WITH length <- Covered, final <- closed
ImplementsLog == D!Spec

==============================================================================
