---------------------------- MODULE ReceiptStore -----------------------------
(***************************************************************************)
(* The receipt store of one run (safety/receipts.py): an append-only file  *)
(* of receipts, a signed manifest that covers a prefix of it, and outside  *)
(* the run an anchor that names the newest manifest, so that restoring an  *)
(* older manifest is noticed.                                              *)
(*                                                                         *)
(* One ReceiptChain object at a time writes.  An append is three durable   *)
(* steps, the line, the manifest and the anchor, and the process may die   *)
(* before or after each, or the step may raise.  A new object resumes the  *)
(* store from what it finds.  Readers take no lock: verify_receipt_store   *)
(* reads manifest, receipts and anchor one after the other, and            *)
(* FleetProjector.snapshot reads, verifies and reads again until nothing   *)
(* moved, at most three times.                                             *)
(*                                                                         *)
(* The hash of a manifest is its number id; previous_manifest_hash is then *)
(* id - 1, because every manifest replaces the one it was built on.        *)
(***************************************************************************)
EXTENDS Integers, Sequences, FiniteSets

CONSTANTS
  Writers,       \* callers of append
  Reading,       \* "none", "verify" or "project": the reader of this model
  TornLines,     \* a failing or dying write may leave part of a line
  LateFaults,    \* the anchor's write may take effect and still raise
  MaxReceipts,   \* bound: lines of the receipt file
  MaxManifests,  \* bound: manifests an append or a seal may start
  MaxCrashes,    \* bound: crashes
  MaxFaults      \* bound: calls that raise

ASSUME StoreAssumption ==
  /\ Writers # {}
  /\ TornLines \in BOOLEAN /\ LateFaults \in BOOLEAN
  /\ Reading \in {"none", "verify", "project"}
  /\ MaxReceipts \in Nat /\ MaxManifests \in Nat
  /\ MaxCrashes \in Nat /\ MaxFaults \in Nat

VARIABLES
  log,       \* receipts.jsonl: sequence number and kind of each line
  manifest,  \* terminal-manifest.json
  anchor,    \* the manifest anchor, outside the run's directory
  pc,        \* next step of the ReceiptChain object, "closed" without one
  job,       \* the operation that step belongs to
  chain,     \* its _sequence, _manifest_generation and _sealed
  writing,   \* the kind of receipt being appended
  asked,     \* per writer, the append that passed the _sealed check
  refusal,   \* why the last opening was refused, "none" otherwise
  acked,     \* history: receipts whose append returned
  closed,    \* history: a seal returned
  slipped,   \* history: an anchor's write took effect and raised
  view,      \* the reader
  crashes, faults

disk == <<log, manifest, anchor>>
memory == <<pc, job, chain, writing, asked>>
history == <<acked, closed, refusal, slipped>>
count == <<crashes, faults>>
vars == <<disk, memory, history, view, count>>

Kinds == {"receipt", "terminal"}
NoManifest == [id |-> 0, gen |-> 0, covers |-> 0, sealed |-> FALSE]
NoAnchor == [written |-> FALSE, gen |-> 0, of |-> 0]
Fresh == [seq |-> 0, gen |-> 0, sealed |-> FALSE]
\* Part of a line, or as the first one also the file that was only created.
Fragment == [seq |-> 0, kind |-> "fragment"]
Line == [seq |-> chain.seq, kind |-> writing]

------------------------------------------------------------------------------
(* verify_receipt_store of manifest m, the first n lines and anchor a.       *)

Contiguous(n) == \A i \in 1..n : log[i].seq = i
(* Wrong on purpose: a manifest ahead of its anchor is tampering.           *)
PendingNever(m, a) == FALSE
Pending(m, a) == m.gen = a.gen + 1 /\ m.id - 1 = a.of
StatusOf(m, n, a) ==
  IF m = NoManifest \/ n = 0 THEN "evidence_missing"
  ELSE IF n < m.covers THEN "receipt_chain_truncated"
  ELSE IF (n > m.covers /\ m.sealed) \/ ~Contiguous(m.covers) THEN "tampered"
  ELSE IF a.of # m.id
       THEN IF Pending(m, a) THEN "manifest_anchor_update_pending" ELSE "tampered"
  ELSE IF n > m.covers THEN "live_catching_up" ELSE "verified"
Statuses == {"evidence_missing", "receipt_chain_truncated", "tampered",
             "manifest_anchor_update_pending", "live_catching_up", "verified"}
Status == StatusOf(manifest, Len(log), anchor)

Untouched == manifest = NoManifest /\ log = <<>>
Writable == Untouched \/ Status = "verified"
Decided == \E i \in DOMAIN log : log[i].kind = "terminal"
(* Wrong on purpose: the tail is expected one number lower.                 *)
TailOffByOne ==
  ~manifest.sealed /\ \A i \in manifest.covers + 1 .. Len(log) : log[i].seq = i - 1
TailValid ==
  /\ ~manifest.sealed
  /\ \A i \in manifest.covers + 1 .. Len(log) :
        log[i].seq = i /\ log[i].kind # "fragment"

------------------------------------------------------------------------------
NoView == [step |-> "start", m1 |-> NoManifest, n1 |-> 0, m |-> NoManifest,
           n |-> 0, m2 |-> NoManifest, n2 |-> 0, tries |-> 0, result |-> "none",
           acked |-> 0, closed |-> FALSE]

Init ==
  /\ log = <<>> /\ manifest = NoManifest /\ anchor = NoAnchor
  /\ pc = "closed" /\ job = "none" /\ chain = Fresh /\ writing = "none"
  /\ asked = [w \in Writers |-> "none"]
  /\ acked = 0 /\ closed = FALSE /\ slipped = FALSE /\ refusal = "none"
  /\ view = NoView /\ crashes = 0 /\ faults = 0

Goto(p, j) == pc' = p /\ job' = j

------------------------------------------------------------------------------
(* ReceiptChain(...): create the anchor of a new store, or resume.          *)

Create ==
  /\ pc = "closed" /\ ~anchor.written /\ Untouched
  /\ Goto("anchor", "create") /\ chain' = Fresh
  /\ UNCHANGED <<disk, writing, asked, history, view, count>>

Resume ==
  /\ pc = "closed" /\ anchor.written
  /\ Goto("opening", "open") /\ chain' = Fresh
  /\ UNCHANGED <<disk, writing, asked, history, view, count>>

(* Wrong on purpose: a new object starts from nothing.                      *)
LoadedNothing == Fresh
Loaded == [seq |-> manifest.covers, gen |-> manifest.gen, sealed |-> manifest.sealed]

Load ==
  /\ pc = "opening" /\ Writable
  /\ Goto("idle", "none") /\ chain' = Loaded /\ refusal' = "none"
  /\ UNCHANGED <<disk, writing, asked, acked, closed, slipped, view, count>>

Reanchor ==
  /\ pc = "opening" /\ Status = "manifest_anchor_update_pending"
  /\ Goto("anchor", "pending")
  /\ UNCHANGED <<disk, chain, writing, asked, history, view, count>>

(* Wrong on purpose: the tail is taken over without a manifest.             *)
CoverTailUnwritten ==
  /\ pc = "opening" /\ Status = "live_catching_up" /\ TailValid
  /\ Goto("opening", "open") /\ chain' = [Fresh EXCEPT !.seq = Len(log)]
  /\ UNCHANGED <<disk, writing, asked, history, view, count>>

(* _recover_authenticated_uncovered_tail                                    *)
CoverTail ==
  /\ pc = "opening" /\ Status = "live_catching_up" /\ TailValid
  /\ Goto("manifest", "tail")
  /\ chain' = [seq |-> Len(log), gen |-> manifest.gen, sealed |-> FALSE]
  /\ UNCHANGED <<disk, writing, asked, history, view, count>>

Refuse ==
  /\ pc = "opening" /\ ~Writable
  /\ Status # "manifest_anchor_update_pending"
  /\ ~(Status = "live_catching_up" /\ TailValid)
  /\ Goto("closed", "none") /\ refusal' = Status
  /\ UNCHANGED <<disk, chain, writing, asked, acked, closed, slipped, view, count>>

(* open_existing repairs nothing: it takes a verified store or raises.      *)
OpenExisting ==
  /\ pc = "closed" /\ Status = "verified"
  /\ Goto("idle", "none") /\ chain' = Loaded /\ refusal' = "none"
  /\ UNCHANGED <<disk, writing, asked, acked, closed, slipped, view, count>>

(* The object is dropped: its owner finished, or opens one per request.     *)
Release ==
  /\ pc = "idle" /\ \A w \in Writers : asked[w] = "none"
  /\ Goto("closed", "none") /\ chain' = Fresh
  /\ UNCHANGED <<disk, writing, asked, history, view, count>>

------------------------------------------------------------------------------
(* append tests _sealed before it takes the chain's lock.  Every service    *)
(* appends through the evidence broker, whose own lock is held around the   *)
(* whole call, so no other call comes between the test and the append.      *)

NobodyWaits == \A w \in Writers : asked[w] = "none"

Ask(w, kind) ==
  /\ pc = "idle" /\ NobodyWaits /\ ~chain.sealed
  /\ asked' = [asked EXCEPT ![w] = kind]
  /\ UNCHANGED <<disk, pc, job, chain, writing, history, view, count>>

(* Wrong on purpose: the store is not verified before an append.            *)
AdmitsUnverified == ~Decided
Admits == Writable /\ ~Decided

BeginAppend(w) ==
  /\ pc = "idle" /\ asked[w] # "none" /\ Admits
  /\ Len(log) < MaxReceipts /\ manifest.id < MaxManifests
  /\ asked' = [asked EXCEPT ![w] = "none"] /\ writing' = asked[w]
  /\ chain' = [chain EXCEPT !.seq = @ + 1]
  /\ Goto("line", "append")
  /\ UNCHANGED <<disk, history, view, count>>

RefuseAppend(w) ==
  /\ pc = "idle" /\ asked[w] # "none"
  /\ ~Admits \/ Len(log) = MaxReceipts \/ manifest.id >= MaxManifests
  /\ asked' = [asked EXCEPT ![w] = "none"]
  /\ UNCHANGED <<disk, pc, job, chain, writing, history, view, count>>

(* seal does not look at _sealed: a sealed store may be sealed again.       *)
Seal ==
  /\ pc = "idle" /\ Status = "verified" /\ manifest.id < MaxManifests
  /\ NobodyWaits
  /\ Goto("manifest", "seal")
  /\ UNCHANGED <<disk, chain, writing, asked, history, view, count>>

WriteLine ==
  /\ pc = "line"
  /\ log' = Append(log, Line) /\ Goto("manifest", job) /\ writing' = "none"
  /\ UNCHANGED <<manifest, anchor, chain, asked, history, view, count>>

WriteManifest ==
  /\ pc = "manifest"
  /\ manifest' = [id |-> manifest.id + 1, gen |-> chain.gen + 1,
                  covers |-> chain.seq, sealed |-> job = "seal"]
  /\ Goto("anchor", job)
  /\ UNCHANGED <<log, anchor, chain, writing, asked, history, view, count>>

Anchored == [written |-> TRUE, gen |-> manifest.gen, of |-> manifest.id]

WriteAnchor ==
  /\ pc = "anchor" /\ anchor' = Anchored
  /\ Goto(IF job \in {"pending", "tail"} THEN "opening" ELSE "idle",
          IF job \in {"pending", "tail"} THEN "open" ELSE "none")
  /\ chain' = IF job = "seal"
              THEN [seq |-> chain.seq, gen |-> chain.gen + 1, sealed |-> TRUE]
              ELSE IF job \in {"append", "tail"} THEN [chain EXCEPT !.gen = @ + 1]
              ELSE chain
  /\ acked' = IF job = "append" THEN Len(log) ELSE acked
  /\ closed' = (closed \/ job = "seal")
  /\ UNCHANGED <<log, manifest, writing, asked, refusal, slipped, view, count>>

------------------------------------------------------------------------------
(* Failing calls and crashes.  A call that raises while an object is being  *)
(* constructed leaves no object: that is Crash at the same step.            *)

AfterLine == {log, Append(log, Line)}
             \cup (IF TornLines THEN {Append(log, Fragment)} ELSE {})

Raises ==
  /\ job \in {"append", "seal"} /\ faults < MaxFaults
  /\ faults' = faults + 1 /\ Goto("idle", "none") /\ writing' = "none"

(* _sequence keeps the number it gave out, whatever reached the file.       *)
FaultLine ==
  /\ pc = "line" /\ Raises /\ log' \in AfterLine
  /\ UNCHANGED <<manifest, anchor, chain, asked, history, view, crashes>>

(* Before the manifest is replaced, or after it and before the anchor is.   *)
FaultManifest ==
  /\ pc \in {"manifest", "anchor"} /\ Raises
  /\ UNCHANGED <<disk, chain, asked, history, view, crashes>>

(* The anchor is in place, _manifest_generation and _sealed are not updated. *)
FaultAnchor ==
  /\ LateFaults /\ pc = "anchor" /\ Raises /\ anchor' = Anchored
  /\ slipped' = TRUE
  /\ UNCHANGED <<log, manifest, chain, asked, acked, closed, refusal, view, crashes>>

Crash ==
  /\ pc # "closed" /\ crashes < MaxCrashes
  /\ crashes' = crashes + 1 /\ Goto("closed", "none") /\ chain' = Fresh
  /\ writing' = "none" /\ asked' = [w \in Writers |-> "none"]
  /\ IF pc = "line" THEN log' \in AfterLine ELSE log' = log
  /\ UNCHANGED <<manifest, anchor, history, view, faults>>

------------------------------------------------------------------------------
(* The reader.  A plain one takes the steps manifest, lines, anchor; the    *)
(* projector puts a reading of manifest and receipts before and after.      *)

Sees(step, read) ==
  /\ view.step = step /\ view' = read
  /\ UNCHANGED <<disk, memory, history, count>>

Missing == manifest = NoManifest

ReadStart ==
  /\ Reading # "none"
  /\ Sees("start", [NoView EXCEPT
       !.step = IF Reading = "verify" THEN "manifest" ELSE "before",
       !.acked = acked, !.closed = closed])

ReadBefore ==
  Sees("before", IF Missing
    THEN [view EXCEPT !.step = "done", !.result = "evidence_unstable"]
    ELSE [view EXCEPT !.step = "before_lines", !.m1 = manifest,
                      !.tries = @ + 1])

ReadBeforeLines ==
  Sees("before_lines", [view EXCEPT !.step = "manifest", !.n1 = Len(log)])

ReadManifest ==
  Sees("manifest", [view EXCEPT !.step = "lines", !.m = manifest])

ReadLines ==
  Sees("lines", [view EXCEPT !.step = "anchor", !.n = Len(log)])

ReadAnchor ==
  Sees("anchor", [view EXCEPT
    !.step = IF Reading = "verify" THEN "done" ELSE "after",
    !.result = StatusOf(view.m, view.n, anchor)])

ReadAfter ==
  Sees("after", [view EXCEPT !.step = "after_lines", !.m2 = manifest])

(* Wrong on purpose: only the manifest is compared again.                   *)
StableManifest == view.m1 = view.m2
Stable == view.m1 = view.m2 /\ view.n1 = Len(log)

Conclude ==
  Sees("after_lines",
    IF Stable THEN [view EXCEPT !.step = "done", !.n2 = Len(log)]
    ELSE IF view.tries < 3 THEN [view EXCEPT !.step = "before"]
    ELSE [view EXCEPT !.step = "done", !.result = "evidence_unstable"])

ReadAgain == Sees("done", NoView)

------------------------------------------------------------------------------
Opening == Create \/ Resume \/ Load \/ Reanchor \/ CoverTail \/ Refuse
Writing == WriteLine \/ WriteManifest \/ WriteAnchor
Calls == \/ Seal \/ Release \/ OpenExisting
         \/ \E w \in Writers : \/ \E kind \in Kinds : Ask(w, kind)
                               \/ BeginAppend(w) \/ RefuseAppend(w)
Failures == FaultLine \/ FaultManifest \/ FaultAnchor \/ Crash
Reader == \/ ReadStart \/ ReadBefore \/ ReadBeforeLines \/ ReadManifest
          \/ ReadLines \/ ReadAnchor \/ ReadAfter \/ Conclude \/ ReadAgain

Next == Opening \/ Writing \/ Calls \/ Failures \/ Reader

Spec == Init /\ [][Next]_vars

(* The process executes its next step; an owner that found the store closed *)
(* opens it again.                                                          *)
FairSpec == Spec /\ WF_vars(Opening) /\ WF_vars(Writing)
=============================================================================
