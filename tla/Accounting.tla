----------------------------- MODULE Accounting -----------------------------
(***************************************************************************)
(* The plan window that all runs of an evidence root share                 *)
(* (safety/accounting_registry.py as orchestrator.py and run_command.py    *)
(* use it).  Two journals, each with an anchor beside it that says how far *)
(* it goes: the registry of enrolments and reservations, and the           *)
(* reconciliation of reservations.  A file lock serialises the writers of  *)
(* all processes; readers take no lock.  A run reserves calls before it    *)
(* asks a provider, only if the evidence of every enrolled run verifies.   *)
(*                                                                         *)
(* An anchor is the number of rows it covers: rows are only ever appended, *)
(* so the head hash says no more.  A torn row is a line cut short.         *)
(***************************************************************************)
EXTENDS Integers, Sequences, FiniteSets, FiniteSetsExt

CONSTANTS
  Runs,       \* run ids
  None,       \* no run
  Operator,   \* the operator's process: trust changes and reanchors
  Limit,      \* calls the plan window allows
  Calls,      \* projected calls of one dispatch, all of it reserved
  MaxFaults   \* bound: crashes, failing writes, removed runs, trust changes

ASSUME AccountingAssumption ==
  /\ None \notin Runs /\ Operator \notin Runs /\ None # Operator
  /\ Limit \in Nat /\ Calls \in Nat \ {0} /\ MaxFaults \in Nat

VARIABLES
  rows,      \* of dispatch-registry.jsonl and entitlement-reconciliation.jsonl
  anchors,   \* how many of them each anchor covers
  lock,      \* who is between a row and its anchor, under the file lock
  store,     \* what the evidence of a run verifies as
  pc,        \* next statement of a run
  sent,      \* reservations whose provider was asked
  open,      \* the clock is before resets_at
  read,      \* rows reanchor has read, -1 outside it
  faults

vars == <<rows, anchors, lock, store, pc, sent, open, read, faults>>

Journals == {"registry", "settled"}
Row(event, run, of) == [event |-> event, run |-> run, of |-> of]
Torn == Row("torn", None, 0)
Free == [by |-> None, journal |-> "registry", bad |-> "over"]

Init ==
  /\ rows = [j \in Journals |-> <<>>] /\ anchors = [j \in Journals |-> 0]
  /\ lock = Free
  /\ store = [r \in Runs |-> "absent"] /\ pc = [r \in Runs |-> "new"]
  /\ sent = {} /\ open = TRUE /\ read = -1 /\ faults = 0

------------------------------------------------------------------------------
(* What a reader of the journals sees.                                      *)

Whole(l) == \A i \in DOMAIN l : l[i] # Torn
\* _verify_journal
Verifies(j) == Whole(rows[j]) /\ anchors[j] = Len(rows[j])

Events(j, event) == {i \in DOMAIN rows[j] : rows[j][i].event = event}
Reservations == Events("registry", "reservation_created")
Reconciled == Events("settled", "reservation_reconciled")
SettledIds == {rows["settled"][i].of : i \in DOMAIN rows["settled"]}
Outstanding == Reservations \ SettledIds
Mine(r) == {i \in Outstanding : rows["registry"][i].run = r}

\* _totals: a reconciled call counts one, a reservation expires with the window.
Used == Cardinality(Reconciled)
Reserved == Calls * Cardinality(Outstanding)
Exceeds == Used + (IF open THEN Reserved ELSE 0) + Calls > Limit

Enrolled == {rows["registry"][i].run : i \in Events("registry", "run_enrolled")}
Trusted ==
  LET changes == Events("registry", "distrusted") \cup Events("registry", "active")
  IN  changes # {} => rows["registry"][Max(changes)].event = "active"
\* verify_receipt_store during an append: an uncovered receipt, then a manifest
\* before its anchor.  Before its first receipt a store is empty, and incomplete.
Appending == {"live_catching_up", "incomplete"}
Sound == {"verified", "live_catching_up"}
\* coverage: the evidence of every enrolled run is there and sound.
Covered == Enrolled # {} /\ Trusted /\ \A r \in Enrolled : store[r] \in Sound

------------------------------------------------------------------------------
(* _append_locked: a row, then the anchor, while the file lock is held.     *)

\* r adds row to journal j and goes on at p; a failing write leaves the row out
\* or torn, and goes on at bad.
Add(r, j, row, p, bad) ==
  /\ lock.by = None /\ UNCHANGED <<anchors, store, open, read>>
  /\ \/ /\ rows' = [rows EXCEPT ![j] = Append(@, row)]
        /\ lock' = [by |-> r, journal |-> j, bad |-> bad]
        /\ pc' = [pc EXCEPT ![r] = p] /\ UNCHANGED faults
     \/ /\ faults < MaxFaults /\ faults' = faults + 1
        /\ \/ rows' = [rows EXCEPT ![j] = Append(@, Torn)]
           \/ UNCHANGED rows
        /\ pc' = [pc EXCEPT ![r] = bad] /\ UNCHANGED lock

\* _write_atomic may fail before or after it replaced the anchor.
WriteAnchor ==
  /\ lock.by # None /\ lock' = Free
  /\ \/ /\ anchors' = [anchors EXCEPT ![lock.journal] = Len(rows[lock.journal])]
        /\ UNCHANGED <<pc, faults>>
     \/ /\ faults < MaxFaults /\ faults' = faults + 1
        /\ \/ anchors' = [anchors EXCEPT ![lock.journal] = Len(rows[lock.journal])]
           \/ UNCHANGED anchors
        /\ pc' = IF lock.by \in Runs THEN [pc EXCEPT ![lock.by] = lock.bad] ELSE pc
  /\ UNCHANGED <<rows, store, sent, open, read>>

\* Run r may take its next statement, which is at p.
At(r, p) == pc[r] = p /\ lock.by # r /\ store[r] \notin Appending
Goto(r, p) == pc' = [pc EXCEPT ![r] = p] /\ UNCHANGED <<rows, anchors, lock, open, read, faults>>
\* An append to the run's own evidence: the receipt, then manifest and anchor.
Writing(r) ==
  store' = [store EXCEPT ![r] = IF @ = "empty" THEN "incomplete" ELSE "live_catching_up"]

Written(r) ==
  /\ store[r] \in Appending /\ pc[r] # "dead"
  /\ store' = [store EXCEPT ![r] = IF @ = "live_catching_up" THEN "incomplete" ELSE "verified"]
  /\ UNCHANGED <<rows, anchors, lock, pc, sent, open, read, faults>>

------------------------------------------------------------------------------
(* RunController.start: the store, the enrolment, the first receipt.        *)

CreateStore(r) ==
  /\ At(r, "new") /\ Goto(r, "enrol")
  /\ store' = [store EXCEPT ![r] = "empty"] /\ UNCHANGED sent

Enrol(r) ==
  /\ At(r, "enrol") /\ UNCHANGED sent
  /\ IF Verifies("registry")
     THEN Add(r, "registry", Row("run_enrolled", r, 0), "attest", "broken")
     ELSE lock.by = None /\ Goto(r, "broken") /\ UNCHANGED store

Attest(r) == At(r, "attest") /\ Goto(r, "ready") /\ Writing(r) /\ UNCHANGED sent

------------------------------------------------------------------------------
(* GovernedOrchestrator._dispatch                                           *)

\* Another stage, or none.
Stage(r) == At(r, "ready") /\ Goto(r, "window") /\ Writing(r) /\ UNCHANGED sent
Finish(r) == At(r, "ready") /\ Goto(r, "over") /\ Writing(r) /\ UNCHANGED sent

\* window and preflight take no lock; what window raises is not handled.
Look(r) ==
  /\ At(r, "window") /\ UNCHANGED sent
  /\ IF ~Verifies("registry") \/ ~Verifies("settled")
     THEN Goto(r, "broken") /\ UNCHANGED store
     ELSE IF ~Covered \/ Exceeds THEN Goto(r, "over") /\ Writing(r)
     ELSE Goto(r, "reserve") /\ UNCHANGED store

\* Wrong on purpose: reserve does not look again under the lock.
ReserveUnchecked(r) ==
  /\ At(r, "reserve") /\ UNCHANGED sent /\ Verifies("registry")
  /\ Add(r, "registry", Row("reservation_created", r, 0), "start", "over")
\* reserve looks again, under the lock; looking and writing the row are one step.
Reserve(r) ==
  /\ At(r, "reserve") /\ UNCHANGED sent
  /\ IF Verifies("registry") /\ Verifies("settled") /\ Covered /\ ~Exceeds
     THEN Add(r, "registry", Row("reservation_created", r, 0), "start", "over")
     ELSE lock.by = None /\ Goto(r, "over") /\ Writing(r)

\* stage_dispatch_started, after which the provider is asked; or it is refused.
Start(r) ==
  /\ At(r, "start")
  /\ \/ Goto(r, "sent") /\ Writing(r) /\ sent' = sent \cup Mine(r)
     \/ Goto(r, "cancel") /\ UNCHANGED <<store, sent>>

\* Both pick the run's first outstanding reservation.
Settle(r, event, ok, bad) ==
  /\ UNCHANGED sent
  /\ IF Verifies("registry") /\ Verifies("settled") /\ Mine(r) # {}
        /\ (event = "reservation_reconciled" => Used + 1 <= Limit)
     THEN Add(r, "settled", Row(event, r, Min(Mine(r))), ok, bad)
     ELSE lock.by = None /\ Goto(r, bad) /\ UNCHANGED store
Cancel(r) == At(r, "cancel") /\ Settle(r, "reservation_cancelled", "over", "over")

\* Wrong on purpose: a call that was made is taken back.
AnswerCancelled(r) == At(r, "sent") /\ Settle(r, "reservation_cancelled", "total", "over")
\* The provider answers and the call is reconciled; or the stage fails.
Answer(r) == At(r, "sent") /\ Settle(r, "reservation_reconciled", "total", "over")
ProviderFails(r) == At(r, "sent") /\ Goto(r, "over") /\ Writing(r) /\ UNCHANGED sent

\* _complete_stage reads the window again, without the lock.
Total(r) ==
  /\ At(r, "total") /\ Writing(r) /\ UNCHANGED sent
  /\ Goto(r, IF Verifies("registry") /\ Verifies("settled") THEN "ready" ELSE "over")

Step(r) ==
  \/ Written(r) \/ CreateStore(r) \/ Enrol(r) \/ Attest(r) \/ Stage(r) \/ Finish(r)
  \/ Look(r) \/ Reserve(r) \/ Start(r) \/ Cancel(r) \/ Answer(r)
  \/ ProviderFails(r) \/ Total(r)

------------------------------------------------------------------------------
(* Crashes, lost evidence, the clock and the operator.                      *)

Ended == {"over", "broken", "dead"}
\* The process dies and its lock with it; its last append is whole or it is not.
Crash(r) ==
  /\ pc[r] \notin Ended \cup {"new"} /\ faults < MaxFaults /\ faults' = faults + 1
  /\ pc' = [pc EXCEPT ![r] = "dead"]
  /\ lock' = IF lock.by = r THEN Free ELSE lock
  /\ UNCHANGED <<rows, anchors, store, sent, open, read>>

\* A new owner of the dead run's store covers what its last append left.
Resume(r) ==
  /\ pc[r] = "dead" /\ store[r] \in Appending
  /\ store' = [store EXCEPT ![r] = "verified"]
  /\ UNCHANGED <<rows, anchors, lock, pc, sent, open, read, faults>>

Remove(r) ==
  /\ pc[r] \in Ended /\ store[r] # "absent"
  /\ faults < MaxFaults /\ faults' = faults + 1
  /\ store' = [store EXCEPT ![r] = "absent"]
  /\ UNCHANGED <<rows, anchors, lock, pc, sent, open, read>>

Reset ==
  /\ open /\ open' = FALSE
  /\ UNCHANGED <<rows, anchors, lock, store, pc, sent, read, faults>>

\* set_root_trust of the root's own key.
SetRootTrust(status) ==
  /\ faults < MaxFaults /\ faults' = faults + 1
  /\ lock.by = None /\ Verifies("registry")
  /\ rows' = [rows EXCEPT !["registry"] = Append(@, Row(status, None, 0))]
  /\ lock' = [by |-> Operator, journal |-> "registry", bad |-> "over"]
  /\ UNCHANGED <<anchors, store, pc, sent, open, read>>

\* reanchor takes no lock and refuses a torn row; only the registry has one.
ReadRegistry ==
  /\ read = -1 /\ anchors["registry"] # Len(rows["registry"]) /\ Whole(rows["registry"])
  /\ read' = Len(rows["registry"])
  /\ UNCHANGED <<rows, anchors, lock, store, pc, sent, open, faults>>
Reanchor ==
  /\ read # -1 /\ read' = -1 /\ anchors' = [anchors EXCEPT !["registry"] = read]
  /\ UNCHANGED <<rows, lock, store, pc, sent, open, faults>>

Next ==
  \/ \E r \in Runs : Step(r) \/ Crash(r) \/ Resume(r) \/ Remove(r)
  \/ WriteAnchor \/ Reset \/ ReadRegistry \/ Reanchor
  \/ \E status \in {"distrusted", "active"} : SetRootTrust(status)

Spec == Init /\ [][Next]_vars
=============================================================================
