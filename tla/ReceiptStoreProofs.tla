-------------------------- MODULE ReceiptStoreProofs -------------------------
(***************************************************************************)
(* Safety of ReceiptStore for every set of writers and every bound on      *)
(* receipts, manifests, crashes and failures: its type, that no answer is  *)
(* taken back, that an honest store never looks tampered with, what the    *)
(* projector publishes of it, what an opening is refused for, and that it  *)
(* implements the durable log.                                             *)
(***************************************************************************)
EXTENDS StoreProperties, TLAPS

----------------------------------------------------------------------------
(* What strengthens the type.                                              *)

\* A line is written for a caller, and each durable step has its operation.
Placed ==
  /\ pc = "line" => writing \in Kinds /\ job = "append"
  /\ pc = "manifest" => job \in {"append", "seal", "tail"}
  /\ pc = "anchor" => job \in {"create", "pending", "append", "seal", "tail"}
  /\ pc = "idle" => job = "none"
  /\ pc = "anchor" /\ job = "create" => Untouched

TypeInv == TypeOK /\ Placed

----------------------------------------------------------------------------
(* What strengthens the safety properties.                                 *)

\* The places where a caller's operation is in progress or may begin.
Serving == pc \in {"idle", "line", "manifest", "anchor"}
           /\ job \in {"none", "append", "seal"}

\* Callers come one at a time, and only to an object that is not sealed.
OneCaller ==
  /\ \A w \in Writers : asked[w] # "none" => pc = "idle" /\ ~chain.sealed
  /\ \A v, w \in Writers : asked[v] # "none" /\ asked[w] # "none" => v = w
  /\ job = "append" => ~chain.sealed

\* The counter is never behind the manifest, and the object knows of a seal.
Counted ==
  /\ pc \in {"idle", "line", "manifest"} => chain.seq >= manifest.covers
  /\ pc = "anchor" /\ job # "pending" => chain.seq >= manifest.covers
  /\ Serving /\ closed => chain.sealed
  /\ pc = "manifest" /\ job = "tail" => ~closed

\* How far the lines are ahead of the manifest in each durable step.
Ahead ==
  /\ Len(log) <= manifest.covers + 1
  /\ pc = "line" => Len(log) = manifest.covers /\ chain.seq > Len(log)
  /\ pc = "manifest" /\ job \in {"append", "tail"}
       => Len(log) = manifest.covers + 1 /\ chain.seq >= Len(log)
  /\ pc = "manifest" /\ job = "seal" => Len(log) = manifest.covers /\ log # <<>>
  /\ pc = "anchor" /\ job \in {"append", "tail"} => manifest.covers >= Len(log)
  /\ pc = "anchor" /\ job = "seal"
       => manifest.covers >= Len(log) /\ log # <<>> /\ manifest.sealed

\* A manifest without receipts is no manifest.
Founded == manifest = NoManifest <=> manifest.id = 0

KeepInv == OneCaller /\ Counted /\ Ahead /\ Founded /\ AckedCovered /\ SealKept

\* The lines under the manifest are numbered, as far as they are there.
Numbered ==
  /\ Len(log) >= manifest.covers => Contiguous(manifest.covers)
  /\ pc = "manifest" /\ job \in {"append", "tail"}
       => log[Len(log)].seq = chain.seq \/ chain.seq # Len(log)
  /\ pc = "manifest" /\ job = "tail" => log[Len(log)].seq = Len(log)

\* Unless an anchor's write slipped, generations count manifests, the anchor
\* is at most one behind, and an object that may write knows the newest.
Generations ==
  /\ manifest.gen = manifest.id /\ anchor.gen = anchor.of
  /\ anchor.of = manifest.id \/ anchor.of + 1 = manifest.id
  /\ pc = "idle" /\ anchor.of = manifest.id
       => chain.gen = manifest.gen /\ (manifest.sealed => chain.sealed)
  /\ pc \in {"line", "manifest"}
       => /\ chain.gen = manifest.gen /\ anchor.of = manifest.id
          /\ manifest.sealed => chain.sealed
  /\ pc = "anchor" /\ job \in {"append", "seal", "tail"}
       => /\ chain.gen + 1 = manifest.gen /\ anchor.of + 1 = manifest.id
          /\ manifest.sealed => job = "seal"
  /\ pc = "anchor" /\ job = "create" => chain.gen = 0
  /\ manifest.sealed => Len(log) <= manifest.covers

TrustInv == Numbered /\ (~slipped => Generations)

----------------------------------------------------------------------------
(* Type correctness.                                                       *)

USE StoreAssumption

USE DEF Goto, disk, memory, history, count, vars

LEMMA StatusTyped ==
  ASSUME NEW m, NEW n, NEW a
  PROVE  StatusOf(m, n, a) \in Statuses
BY DEF StatusOf, Statuses

\* The part of the type the writer changes, and the part the reader does.
StoreTyped ==
  /\ log \in Seq([seq : Nat, kind : LineKinds])
  /\ manifest \in Manifests
  /\ anchor \in [written : BOOLEAN, gen : Nat, of : Nat]
  /\ pc \in Steps /\ job \in Jobs
  /\ chain \in [seq : Nat, gen : Nat, sealed : BOOLEAN]
  /\ writing \in Kinds \cup {"none"}
  /\ asked \in [Writers -> Kinds \cup {"none"}]
  /\ refusal \in Statuses \cup {"none"}
  /\ acked \in Nat /\ closed \in BOOLEAN /\ slipped \in BOOLEAN
  /\ crashes \in 0..MaxCrashes /\ faults \in 0..MaxFaults

Views == [step : ReadSteps, m1 : Manifests, n1 : Nat, m : Manifests,
          n : Nat, m2 : Manifests, n2 : Nat, tries : Nat, result : Results,
          acked : Nat, closed : BOOLEAN]

LEMMA TypeParts == TypeOK <=> StoreTyped /\ view \in Views
BY DEF TypeOK, StoreTyped, Views

LEMMA InitType == Init => TypeInv
<1> SUFFICES ASSUME Init PROVE TypeInv
  OBVIOUS
<1>1. NoManifest \in Manifests
  BY DEF NoManifest, Manifests
<1>2. StoreTyped
  <2>1. log \in Seq([seq : Nat, kind : LineKinds])
    BY DEF Init
  <2>2. asked \in [Writers -> Kinds \cup {"none"}]
    BY DEF Init
  <2>3. 0 \in 0..MaxCrashes /\ 0 \in 0..MaxFaults
    OBVIOUS
  <2> QED
    BY <1>1, <2>1, <2>2, <2>3
    DEF Init, StoreTyped, NoAnchor, Fresh, Steps, Jobs
<1>3. view \in Views
  BY <1>1 DEF Init, NoView, Views, ReadSteps, Results
<1>4. Placed
  BY DEF Init, Placed
<1> QED
  BY <1>2, <1>3, <1>4, TypeParts DEF TypeInv

LEMMA OpeningType == TypeInv /\ Opening => StoreTyped' /\ Placed'
<1> SUFFICES ASSUME TypeInv, Opening PROVE StoreTyped' /\ Placed'
  OBVIOUS
<1> USE TypeParts DEF TypeInv, StoreTyped, Placed, Steps, Jobs, Fresh
<1>1. CASE Create
  BY <1>1 DEF Create, Untouched
<1>2. CASE Resume
  BY <1>2 DEF Resume
<1>3. CASE Load
  BY <1>3 DEF Load, Loaded, Manifests
<1>4. CASE Reanchor
  BY <1>4 DEF Reanchor
<1>5. CASE CoverTail
  BY <1>5 DEF CoverTail, Manifests
<1>6. CASE Refuse
  BY <1>6, StatusTyped DEF Refuse, Status
<1> QED
  BY <1>1, <1>2, <1>3, <1>4, <1>5, <1>6 DEF Opening

LEMMA WritingType == TypeInv /\ Writing => StoreTyped' /\ Placed'
<1> SUFFICES ASSUME TypeInv, Writing PROVE StoreTyped' /\ Placed'
  OBVIOUS
<1> USE TypeParts DEF TypeInv, StoreTyped, Placed, Steps, Jobs
<1>1. CASE WriteLine
  <2>1. Line \in [seq : Nat, kind : LineKinds]
    BY <1>1 DEF WriteLine, Line, LineKinds
  <2> QED
    BY <1>1, <2>1 DEF WriteLine
<1>2. CASE WriteManifest
  <2>1. (job = "seal") \in BOOLEAN
    OBVIOUS
  <2>2. manifest' \in Manifests
    BY <1>2, <2>1 DEF WriteManifest, Manifests
  <2>3. pc' = "anchor" /\ job' = job /\ job \in {"append", "seal", "tail"}
    BY <1>2 DEF WriteManifest
  <2> QED
    BY <1>2, <2>2, <2>3 DEF WriteManifest
<1>3. CASE WriteAnchor
  <2>1. anchor' \in [written : BOOLEAN, gen : Nat, of : Nat]
    BY <1>3 DEF WriteAnchor, Anchored, Manifests
  <2>2. chain' \in [seq : Nat, gen : Nat, sealed : BOOLEAN]
    <3> HIDE DEF TypeInv, StoreTyped, Placed, Steps, Jobs
    <3>1. chain \in [seq : Nat, gen : Nat, sealed : BOOLEAN]
      BY TypeParts DEF TypeInv, StoreTyped
    <3>2. CASE chain' = chain
      BY <3>1, <3>2
    <3>3. CASE chain' = [chain EXCEPT !.gen = chain.gen + 1]
      BY <3>1, <3>3
    <3>4. CASE chain' = [seq |-> chain.seq, gen |-> chain.gen + 1, sealed |-> TRUE]
      BY <3>1, <3>4
    <3> QED
      BY <1>3, <3>2, <3>3, <3>4 DEF WriteAnchor
  <2>3. acked' \in Nat /\ closed' \in BOOLEAN
    BY <1>3 DEF WriteAnchor
  <2>4. /\ pc' \in {"opening", "idle"} /\ job' \in {"open", "none"}
        /\ pc' = "idle" => job' = "none"
    BY <1>3 DEF WriteAnchor
  <2> QED
    BY <1>3, <2>1, <2>2, <2>3, <2>4 DEF WriteAnchor
<1> QED
  BY <1>1, <1>2, <1>3 DEF Writing

LEMMA CallsType == TypeInv /\ Calls => StoreTyped' /\ Placed'
<1> SUFFICES ASSUME TypeInv, Calls PROVE StoreTyped' /\ Placed'
  OBVIOUS
<1> USE TypeParts DEF TypeInv, StoreTyped, Placed, Steps, Jobs
<1>1. CASE Seal
  BY <1>1 DEF Seal
<1>2. CASE Release
  BY <1>2 DEF Release, Fresh
<1>3. CASE OpenExisting
  BY <1>3 DEF OpenExisting, Loaded, Manifests
<1>4. ASSUME NEW w \in Writers, NEW kind \in Kinds, Ask(w, kind)
      PROVE  StoreTyped' /\ Placed'
  BY <1>4 DEF Ask
<1>5. ASSUME NEW w \in Writers, BeginAppend(w)
      PROVE  StoreTyped' /\ Placed'
  BY <1>5 DEF BeginAppend
<1>6. ASSUME NEW w \in Writers, RefuseAppend(w)
      PROVE  StoreTyped' /\ Placed'
  BY <1>6 DEF RefuseAppend
<1> QED
  BY <1>1, <1>2, <1>3, <1>4, <1>5, <1>6 DEF Calls

LEMMA AfterLineTyped ==
  ASSUME TypeInv, pc = "line", log' \in AfterLine
  PROVE  log' \in Seq([seq : Nat, kind : LineKinds])
<1> DEFINE Lines == [seq : Nat, kind : LineKinds]
<1>1. log \in Seq(Lines)
  BY TypeParts DEF TypeInv, StoreTyped
<1>2. Line \in Lines
  BY TypeParts DEF TypeInv, StoreTyped, Placed, Line, LineKinds
<1>3. Fragment \in Lines
  BY DEF Fragment, LineKinds
<1>4. \A e \in Lines : Append(log, e) \in Seq(Lines)
  BY <1>1
<1> QED
  BY <1>1, <1>2, <1>3, <1>4 DEF AfterLine

LEMMA FailuresType == TypeInv /\ Failures => StoreTyped' /\ Placed'
<1> SUFFICES ASSUME TypeInv, Failures PROVE StoreTyped' /\ Placed'
  OBVIOUS
<1> USE TypeParts DEF TypeInv, StoreTyped, Placed, Steps, Jobs
<1>1. CASE FaultLine
  BY <1>1, AfterLineTyped DEF FaultLine, Raises
<1>2. CASE FaultManifest
  BY <1>2 DEF FaultManifest, Raises
<1>3. CASE FaultAnchor
  BY <1>3 DEF FaultAnchor, Raises, Anchored, Manifests
<1>4. CASE Crash
  BY <1>4, AfterLineTyped DEF Crash, Fresh
<1> QED
  BY <1>1, <1>2, <1>3, <1>4 DEF Failures

LEMMA ReaderKeeps ==
  Reader => UNCHANGED <<disk, memory, history, count>>
BY DEF Reader, ReadStart, ReadBefore, ReadBeforeLines, ReadManifest,
       ReadLines, ReadAnchor, ReadAfter, Conclude, ReadAgain, Sees

LEMMA ReaderType == TypeInv /\ Reader => view' \in Views
<1> SUFFICES ASSUME TypeInv, Reader PROVE view' \in Views
  OBVIOUS
<1>1. view \in Views /\ manifest \in Manifests /\ Len(log) \in Nat
      /\ acked \in Nat /\ closed \in BOOLEAN
  BY TypeParts DEF TypeInv, StoreTyped
<1>2. NoManifest \in Manifests
  BY DEF NoManifest, Manifests
<1>3. NoView \in Views
  BY <1>2 DEF NoView, Views, ReadSteps, Results
<1> USE DEF Views, ReadSteps, Results, Sees
<1>4. CASE ReadStart
  BY <1>1, <1>3, <1>4 DEF ReadStart
<1>5. CASE ReadBefore
  <2>1. CASE Missing
    BY <1>1, <1>5, <2>1 DEF ReadBefore
  <2>2. CASE ~Missing
    <3>1. view' = [view EXCEPT !.step = "before_lines", !.m1 = manifest,
                               !.tries = view.tries + 1]
      BY <1>5, <2>2 DEF ReadBefore
    <3>2. view.tries + 1 \in Nat
      BY <1>1
    <3> QED
      BY <1>1, <3>1, <3>2
  <2> QED
    BY <2>1, <2>2
<1>6. CASE ReadBeforeLines
  BY <1>1, <1>6 DEF ReadBeforeLines
<1>7. CASE ReadManifest
  BY <1>1, <1>7 DEF ReadManifest
<1>8. CASE ReadLines
  BY <1>1, <1>8 DEF ReadLines
<1>9. CASE ReadAnchor
  BY <1>1, <1>9, StatusTyped DEF ReadAnchor
<1>10. CASE ReadAfter
  BY <1>1, <1>10 DEF ReadAfter
<1>11. CASE Conclude
  BY <1>1, <1>11 DEF Conclude
<1>12. CASE ReadAgain
  BY <1>3, <1>12 DEF ReadAgain
<1> QED
  BY <1>4, <1>5, <1>6, <1>7, <1>8, <1>9, <1>10, <1>11, <1>12 DEF Reader

LEMMA WriterKeepsView ==
  Opening \/ Writing \/ Calls \/ Failures => UNCHANGED view
BY DEF Opening, Create, Resume, Load, Reanchor, CoverTail, Refuse, Writing,
       WriteLine, WriteManifest, WriteAnchor, Calls, Seal, Release,
       OpenExisting, Ask, BeginAppend, RefuseAppend, Failures, FaultLine,
       FaultManifest, FaultAnchor, Crash

LEMMA StepType == TypeInv /\ [Next]_vars => TypeInv'
<1> SUFFICES ASSUME TypeInv, [Next]_vars PROVE TypeInv'
  OBVIOUS
<1>1. TypeOK' <=> StoreTyped' /\ view' \in Views
  BY DEF TypeOK, StoreTyped, Views
<1>2. StoreTyped /\ view \in Views /\ Placed
  BY TypeParts DEF TypeInv
<1>4. CASE Opening \/ Writing \/ Calls \/ Failures
  BY <1>1, <1>2, <1>4, WriterKeepsView, OpeningType, WritingType, CallsType,
     FailuresType DEF TypeInv
<1>5. CASE Reader
  <2>1. StoreTyped' /\ Placed'
    BY <1>2, <1>5, ReaderKeeps DEF StoreTyped, Placed, Untouched
  <2> QED
    BY <1>1, <1>5, <2>1, ReaderType DEF TypeInv
<1>6. CASE UNCHANGED vars
  BY <1>1, <1>2, <1>6 DEF TypeInv, StoreTyped, Placed, Untouched
<1> QED
  BY <1>4, <1>5, <1>6 DEF Next

\* Every variable of the receipt store keeps the shape the code gives it.
THEOREM StoreTypeCorrect == Spec => []TypeOK
<1>1. Spec => []TypeInv
  BY InitType, StepType, PTL DEF Spec
<1> QED
  BY <1>1, PTL DEF TypeInv

----------------------------------------------------------------------------
(* What a verdict says of the disk.                                        *)

LEMMA Typed ==
  ASSUME TypeInv
  PROVE  /\ log \in Seq([seq : Nat, kind : LineKinds]) /\ Len(log) \in Nat
         /\ manifest.id \in Nat /\ manifest.gen \in Nat /\ manifest.covers \in Nat
         /\ manifest.sealed \in BOOLEAN
         /\ anchor.gen \in Nat /\ anchor.of \in Nat
         /\ chain.seq \in Nat /\ chain.gen \in Nat /\ chain.sealed \in BOOLEAN
         /\ closed \in BOOLEAN /\ slipped \in BOOLEAN /\ acked \in Nat
BY TypeParts DEF TypeInv, StoreTyped, Manifests

LEMMA Verified ==
  ASSUME TypeInv, Status = "verified"
  PROVE  /\ log # <<>> /\ Len(log) = manifest.covers /\ manifest # NoManifest
         /\ anchor.of = manifest.id /\ Contiguous(manifest.covers)
<1>1. /\ Len(log) # 0 /\ manifest # NoManifest /\ ~(Len(log) < manifest.covers)
      /\ anchor.of = manifest.id /\ Contiguous(manifest.covers)
      /\ ~(Len(log) > manifest.covers)
  BY DEF Status, StatusOf
<1> QED
  BY <1>1, Typed

LEMMA Lagging ==
  ASSUME TypeInv, Status = "live_catching_up"
  PROVE  /\ log # <<>> /\ Len(log) > manifest.covers
         /\ anchor.of = manifest.id /\ ~manifest.sealed
         /\ Contiguous(manifest.covers)
<1>1. /\ Len(log) # 0 /\ anchor.of = manifest.id /\ Contiguous(manifest.covers)
      /\ Len(log) > manifest.covers /\ ~manifest.sealed
  BY DEF Status, StatusOf
<1> QED
  BY <1>1, Typed

\* What a failing or dying write may leave is the log, or the log and a line.
LEMMA LineAdds ==
  ASSUME TypeInv, log' \in AfterLine \/ log' = Append(log, Line)
  PROVE  /\ Len(log') \in {Len(log), Len(log) + 1}
         /\ \A i \in 1..Len(log) : log'[i] = log[i]
         /\ log # <<>> => log' # <<>>
<1>0. /\ Len(log) \in Nat /\ Len(log) + 1 # 0
      /\ \A x : /\ Len(Append(log, x)) = Len(log) + 1
               /\ \A i \in 1..Len(log) : Append(log, x)[i] = log[i]
  BY Typed
<1>1. log' = log \/ \E x : log' = Append(log, x)
  BY DEF AfterLine
<1>2. CASE \E x : log' = Append(log, x)
  <2>1. PICK x : log' = Append(log, x)
    BY <1>2
  <2>2. Len(log') = Len(log) + 1 /\ Len(log') # 0
    BY <1>0, <2>1
  <2> QED
    BY <1>0, <2>1, <2>2
<1> QED
  BY <1>1, <1>2

----------------------------------------------------------------------------
(* No answer is taken back.                                                *)

USE DEF OneCaller, Counted, Ahead, Founded, AckedCovered, SealKept, Placed

LEMMA InitKeep == Init => KeepInv
BY DEF Init, KeepInv, NoManifest, Fresh

LEMMA OpeningKeep == TypeInv /\ KeepInv /\ Opening => KeepInv'
<1> SUFFICES ASSUME TypeInv, KeepInv, Opening PROVE KeepInv'
  OBVIOUS
<1> USE Typed DEF KeepInv, Serving, TypeInv
<1>1. CASE Create
  BY <1>1 DEF Create, Untouched, NoManifest, Fresh
<1>2. CASE Resume
  BY <1>2 DEF Resume
<1>3. CASE Load
  BY <1>3 DEF Load, Loaded
<1>4. CASE Reanchor
  BY <1>4 DEF Reanchor
<1>5. CASE CoverTail
  BY <1>5, Lagging DEF CoverTail, TailValid
<1>6. CASE Refuse
  BY <1>6 DEF Refuse
<1> QED
  BY <1>1, <1>2, <1>3, <1>4, <1>5, <1>6 DEF Opening

LEMMA WritingKeep == TypeInv /\ KeepInv /\ Writing => KeepInv'
<1> SUFFICES ASSUME TypeInv, KeepInv, Writing PROVE KeepInv'
  OBVIOUS
<1> USE Typed DEF KeepInv, Serving, TypeInv
<1>1. CASE WriteLine
  BY <1>1, LineAdds DEF WriteLine
<1>2. CASE WriteManifest
  <2>1. /\ manifest'.id = manifest.id + 1 /\ manifest'.covers = chain.seq
        /\ manifest'.sealed <=> job = "seal"
    BY <1>2 DEF WriteManifest
  <2>2. /\ pc = "manifest" /\ pc' = "anchor" /\ job' = job
        /\ UNCHANGED <<log, chain, asked, acked, closed>>
    BY <1>2 DEF WriteManifest
  <2>3. Founded'
    BY <2>1 DEF NoManifest
  <2>4. OneCaller' /\ Counted'
    BY <2>1, <2>2
  <2>5. Ahead'
    BY <2>1, <2>2
  <2>6. AckedCovered' /\ SealKept'
    BY <2>1, <2>2
  <2> QED
    BY <2>3, <2>4, <2>5, <2>6
<1>3. CASE WriteAnchor
  BY <1>3 DEF WriteAnchor, Untouched, NoManifest
<1> QED
  BY <1>1, <1>2, <1>3 DEF Writing

LEMMA CallsKeep == TypeInv /\ KeepInv /\ Calls => KeepInv'
<1> SUFFICES ASSUME TypeInv, KeepInv, Calls PROVE KeepInv'
  OBVIOUS
<1> USE Typed DEF KeepInv, Serving, TypeInv
<1>1. CASE Seal
  BY <1>1, Verified DEF Seal, NobodyWaits
<1>2. CASE Release
  BY <1>2 DEF Release
<1>3. CASE OpenExisting
  BY <1>3 DEF OpenExisting, Loaded
<1>4. ASSUME NEW w \in Writers, NEW kind \in Kinds, Ask(w, kind)
      PROVE  KeepInv'
  BY <1>4 DEF Ask, NobodyWaits
<1>5. ASSUME NEW w \in Writers, BeginAppend(w)
      PROVE  KeepInv'
  <2>1. Len(log) = manifest.covers
    BY <1>5, Verified DEF BeginAppend, Admits, Writable, Untouched, NoManifest
  <2>2. /\ pc = "idle" /\ pc' = "line" /\ job' = "append"
        /\ chain'.seq = chain.seq + 1 /\ chain'.sealed = chain.sealed
        /\ UNCHANGED <<log, manifest, acked, closed>>
    BY <1>5 DEF BeginAppend
  <2>3. ~chain.sealed /\ \A v \in Writers : asked'[v] = "none"
    <3>1. asked[w] # "none" /\ asked' = [asked EXCEPT ![w] = "none"]
      BY <1>5 DEF BeginAppend
    <3>2. asked \in [Writers -> Kinds \cup {"none"}]
      BY TypeParts DEF StoreTyped
    <3> QED
      BY <3>1, <3>2
  <2> QED
    BY <2>1, <2>2, <2>3
<1>6. ASSUME NEW w \in Writers, RefuseAppend(w)
      PROVE  KeepInv'
  BY <1>6 DEF RefuseAppend
<1> QED
  BY <1>1, <1>2, <1>3, <1>4, <1>5, <1>6 DEF Calls

LEMMA FailuresKeep == TypeInv /\ KeepInv /\ Failures => KeepInv'
<1> SUFFICES ASSUME TypeInv, KeepInv, Failures PROVE KeepInv'
  OBVIOUS
<1> USE Typed DEF KeepInv, Serving, TypeInv
<1>1. CASE FaultLine
  BY <1>1, LineAdds DEF FaultLine, Raises
<1>2. CASE FaultManifest
  BY <1>2 DEF FaultManifest, Raises
<1>3. CASE FaultAnchor
  BY <1>3 DEF FaultAnchor, Raises
<1>4. CASE Crash
  BY <1>4, LineAdds DEF Crash
<1> QED
  BY <1>1, <1>2, <1>3, <1>4 DEF Failures

LEMMA QuietKeep ==
  KeepInv /\ UNCHANGED <<disk, memory, history, count>> => KeepInv'
BY DEF KeepInv, Serving

LEMMA StepKeep == TypeInv /\ KeepInv /\ [Next]_vars => KeepInv'
BY OpeningKeep, WritingKeep, CallsKeep, FailuresKeep, ReaderKeeps, QuietKeep
   DEF Next

LEMMA AlwaysKept == Spec => [](TypeInv /\ KeepInv)
BY InitType, InitKeep, StepType, StepKeep, PTL DEF Spec

\* Receipts whose append returned stay inside the manifest, for good.
THEOREM AnswersKept == Spec => []AckedCovered
<1>1. KeepInv => AckedCovered
  BY DEF KeepInv
<1> QED
  BY <1>1, AlwaysKept, PTL

\* Once a seal has returned, the manifest is a sealed one, for good.
THEOREM SealsKept == Spec => []SealKept
<1>1. KeepInv => SealKept
  BY DEF KeepInv
<1> QED
  BY <1>1, AlwaysKept, PTL

----------------------------------------------------------------------------
(* An honest store is not taken for a tampered one.                        *)

USE DEF Numbered, Generations, TrustInv

\* The numbering survives when lines are only added and the manifest covers
\* none that was missing.
LEMMA NumberedKept ==
  ASSUME TypeInv, Numbered, manifest'.covers = manifest.covers,
         Len(log) >= manifest.covers,
         \A i \in 1..Len(log) : log'[i] = log[i]
  PROVE  Contiguous(manifest.covers)'
<1>1. \A i \in 1..manifest.covers : i \in 1..Len(log)
  BY Typed
<1>2. \A i \in 1..manifest.covers : log[i].seq = i
  BY Typed DEF Contiguous
<1>3. \A i \in 1..manifest.covers : log'[i].seq = i
  BY <1>1, <1>2
<1> QED
  BY <1>3 DEF Contiguous

LEMMA InitTrust == Init => TrustInv
BY DEF Init, NoManifest, NoAnchor, Fresh, Contiguous

LEMMA OpeningTrust == TypeInv /\ KeepInv /\ TrustInv /\ Opening => TrustInv'
<1> SUFFICES ASSUME TypeInv, KeepInv, TrustInv, Opening PROVE TrustInv'
  OBVIOUS
<1> USE Typed DEF KeepInv, TypeInv, Serving, Contiguous
<1>1. CASE Create
  BY <1>1 DEF Create, Fresh
<1>2. CASE Resume
  BY <1>2 DEF Resume
<1>3. CASE Load
  BY <1>3 DEF Load, Loaded
<1>4. CASE Reanchor
  BY <1>4 DEF Reanchor
<1>5. CASE CoverTail
  BY <1>5, Lagging DEF CoverTail, TailValid
<1>6. CASE Refuse
  BY <1>6 DEF Refuse
<1> QED
  BY <1>1, <1>2, <1>3, <1>4, <1>5, <1>6 DEF Opening

LEMMA WritingTrust == TypeInv /\ KeepInv /\ TrustInv /\ Writing => TrustInv'
<1> SUFFICES ASSUME TypeInv, KeepInv, TrustInv, Writing PROVE TrustInv'
  OBVIOUS
<1> USE Typed DEF KeepInv, TypeInv, Serving
<1>1. CASE WriteLine
  <2>1. /\ Len(log') = Len(log) + 1 /\ log'[Len(log')].seq = chain.seq
        /\ \A i \in 1..Len(log) : log'[i] = log[i]
    BY <1>1 DEF WriteLine, Line
  <2>2. /\ pc = "line" /\ pc' = "manifest" /\ job' = "append"
        /\ UNCHANGED <<manifest, anchor, chain, slipped>>
    BY <1>1 DEF WriteLine
  <2>3. Numbered'
    BY <2>1, <2>2, NumberedKept
  <2> QED
    BY <2>1, <2>2, <2>3
<1>2. CASE WriteManifest
  <2>1. /\ manifest'.id = manifest.id + 1 /\ manifest'.gen = chain.gen + 1
        /\ manifest'.covers = chain.seq
        /\ manifest'.sealed <=> job = "seal"
    BY <1>2 DEF WriteManifest
  <2>2. /\ pc = "manifest" /\ pc' = "anchor" /\ job' = job
        /\ UNCHANGED <<log, anchor, chain, slipped>>
    BY <1>2 DEF WriteManifest
  <2>3. Numbered'
    <3>1. ASSUME Len(log) >= chain.seq
          PROVE  \A i \in 1..chain.seq : log[i].seq = i
      <4>0. Len(log) >= manifest.covers
        <5>1. manifest.covers <= chain.seq
          BY <2>2
        <5> QED
          BY <3>1, <5>1
      <4>1. \A i \in 1..manifest.covers : log[i].seq = i
        BY <4>0 DEF Numbered, TrustInv, Contiguous
      <4>2. CASE job = "seal"
        BY <2>2, <3>1, <4>1, <4>2
      <4>3. CASE job # "seal"
        <5>1. Len(log) = manifest.covers + 1 /\ chain.seq = Len(log)
          BY <2>2, <3>1, <4>3
        <5>2. log[Len(log)].seq = Len(log)
          BY <2>2, <4>3, <5>1
        <5>3. \A i \in 1..chain.seq : i \in 1..manifest.covers \/ i = Len(log)
          BY <5>1
        <5> QED
          BY <4>1, <5>2, <5>3
      <4> QED
        BY <4>2, <4>3
    <3>2. ASSUME Len(log') >= manifest'.covers PROVE Contiguous(manifest.covers)'
      <4>1. log' = log /\ manifest'.covers = chain.seq
        BY <2>1, <2>2
      <4>2. \A i \in 1..chain.seq : log[i].seq = i
        BY <3>1, <3>2, <4>1
      <4> QED
        BY <4>1, <4>2 DEF Contiguous
    <3> QED
      BY <2>2, <3>2
  <2>4. ASSUME ~slipped PROVE Generations'
    <3>1. /\ chain.gen = manifest.gen /\ anchor.of = manifest.id
          /\ manifest.gen = manifest.id /\ anchor.gen = anchor.of
      BY <2>2, <2>4
    <3>2. job = "seal" => Len(log) <= chain.seq
      BY <2>2
    <3> QED
      BY <2>1, <2>2, <3>1, <3>2
  <2> QED
    BY <2>2, <2>3, <2>4
<1>3. CASE WriteAnchor
  <2>1. Numbered'
    BY <1>3 DEF WriteAnchor, Contiguous
  <2>2. /\ anchor'.gen = manifest.gen /\ anchor'.of = manifest.id
        /\ pc = "anchor" /\ pc' \in {"opening", "idle"}
        /\ UNCHANGED <<log, manifest, slipped>>
    BY <1>3 DEF WriteAnchor, Anchored
  <2>3. ASSUME ~slipped, pc' = "idle"
        PROVE  chain'.gen = manifest.gen /\ (manifest.sealed => chain'.sealed)
    <3>1. job \in {"create", "append", "seal"}
      BY <1>3, <2>3 DEF WriteAnchor
    <3>2. CASE job = "create"
      BY <1>3, <2>3, <3>2 DEF WriteAnchor, Untouched, NoManifest
    <3>3. CASE job = "append"
      BY <1>3, <2>3, <3>3 DEF WriteAnchor
    <3>4. CASE job = "seal"
      BY <1>3, <2>3, <3>4 DEF WriteAnchor
    <3> QED
      BY <3>1, <3>2, <3>3, <3>4
  <2>4. ~slipped => Generations'
    BY <2>2, <2>3
  <2> QED
    BY <2>1, <2>2, <2>4
<1> QED
  BY <1>1, <1>2, <1>3 DEF Writing

LEMMA CallsTrust == TypeInv /\ KeepInv /\ TrustInv /\ Calls => TrustInv'
<1> SUFFICES ASSUME TypeInv, KeepInv, TrustInv, Calls PROVE TrustInv'
  OBVIOUS
<1> USE Typed DEF KeepInv, TypeInv, Serving, Contiguous
<1>1. CASE Seal
  BY <1>1, Verified DEF Seal
<1>2. CASE Release
  BY <1>2 DEF Release
<1>3. CASE OpenExisting
  BY <1>3 DEF OpenExisting, Loaded
<1>4. ASSUME NEW w \in Writers, NEW kind \in Kinds, Ask(w, kind)
      PROVE  TrustInv'
  BY <1>4 DEF Ask
<1>5. ASSUME NEW w \in Writers, BeginAppend(w)
      PROVE  TrustInv'
  <2>1. anchor.of = manifest.id \/ Untouched
    BY <1>5, Verified DEF BeginAppend, Admits, Writable
  <2>2. ~slipped => anchor.of = manifest.id
    BY <2>1 DEF Untouched, NoManifest
  <2>3. ~chain.sealed
    BY <1>5 DEF BeginAppend
  <2>4. /\ pc = "idle" /\ pc' = "line" /\ job' = "append"
        /\ chain'.seq = chain.seq + 1 /\ chain'.sealed = chain.sealed
        /\ chain'.gen = chain.gen
        /\ UNCHANGED <<log, manifest, anchor, slipped>>
    BY <1>5 DEF BeginAppend
  <2> QED
    BY <2>2, <2>3, <2>4
<1>6. ASSUME NEW w \in Writers, RefuseAppend(w)
      PROVE  TrustInv'
  BY <1>6 DEF RefuseAppend
<1> QED
  BY <1>1, <1>2, <1>3, <1>4, <1>5, <1>6 DEF Calls

LEMMA FailuresTrust == TypeInv /\ KeepInv /\ TrustInv /\ Failures => TrustInv'
<1> SUFFICES ASSUME TypeInv, KeepInv, TrustInv, Failures PROVE TrustInv'
  OBVIOUS
<1> USE Typed DEF KeepInv, TypeInv, Serving
<1>1. CASE FaultLine
  BY <1>1, LineAdds, NumberedKept DEF FaultLine, Raises
<1>2. CASE FaultManifest
  <2>1. /\ pc \in {"manifest", "anchor"} /\ job \in {"append", "seal"}
        /\ pc' = "idle" /\ job' = "none"
        /\ UNCHANGED <<log, manifest, anchor, chain, slipped>>
    BY <1>2 DEF FaultManifest, Raises
  <2>2. Numbered'
    BY <2>1 DEF Contiguous
  <2>3. ASSUME ~slipped, anchor.of = manifest.id
        PROVE  chain.gen = manifest.gen /\ (manifest.sealed => chain.sealed)
    BY <2>1, <2>3
  <2> QED
    BY <2>1, <2>2, <2>3
<1>3. CASE FaultAnchor
  BY <1>3 DEF FaultAnchor, Raises, Contiguous
<1>4. CASE Crash
  <2>1. CASE pc = "line"
    BY <1>4, <2>1, LineAdds, NumberedKept DEF Crash
  <2>2. CASE pc # "line"
    BY <1>4, <2>2 DEF Crash, Contiguous
  <2> QED
    BY <2>1, <2>2
<1> QED
  BY <1>1, <1>2, <1>3, <1>4 DEF Failures

LEMMA QuietTrust ==
  TrustInv /\ UNCHANGED <<disk, memory, history, count>> => TrustInv'
BY DEF Contiguous

LEMMA StepTrust ==
  TypeInv /\ KeepInv /\ TrustInv /\ [Next]_vars => TrustInv'
BY OpeningTrust, WritingTrust, CallsTrust, FailuresTrust, ReaderKeeps, QuietTrust
   DEF Next

\* With these, no reading of the whole disk finds tampering.
LEMMA TrustHolds == TypeInv /\ KeepInv /\ TrustInv => NeverTampered
<1> SUFFICES ASSUME TypeInv, KeepInv, TrustInv, Status = "tampered", ~slipped
             PROVE FALSE
  BY DEF NeverTampered
<1>1. /\ ~(Len(log) < manifest.covers)
      /\ \/ Len(log) > manifest.covers /\ manifest.sealed
         \/ ~Contiguous(manifest.covers)
         \/ anchor.of # manifest.id /\ ~Pending(manifest, anchor)
  BY DEF Status, StatusOf
<1>2. Contiguous(manifest.covers)
  BY <1>1, Typed
<1>3. ~(Len(log) > manifest.covers /\ manifest.sealed)
  BY Typed
<1>4. anchor.of = manifest.id \/ Pending(manifest, anchor)
  BY Typed DEF Pending
<1> QED
  BY <1>1, <1>2, <1>3, <1>4

HIDE DEF TrustInv, Numbered, Generations

\* Whatever step the process died in, the store is not taken for a tampered
\* one, unless an anchor's write took effect and raised.
THEOREM HonestStoreTrusted == Spec => []NeverTampered
<1>1. Spec => [](TypeInv /\ KeepInv /\ TrustInv)
  BY InitType, InitKeep, InitTrust, StepType, StepKeep, StepTrust, PTL DEF Spec
<1> QED
  BY <1>1, TrustHolds, PTL

----------------------------------------------------------------------------
(* The store is a durable log.                                             *)

LEMMA InitLog == Init => D!Init
BY DEF Init, D!Init, Covered, NoManifest

LEMMA CoveredTyped == TypeInv => Covered \in Nat
BY Typed DEF Covered

\* A step that writes no manifest and returns from no seal leaves the log as it is.
LEMMA QuietLog ==
  ASSUME TypeInv, KeepInv, UNCHANGED <<manifest, closed>>,
         log' = log \/ (Len(log) = manifest.covers /\ Len(log') >= Len(log)
                        /\ Len(log') \in Nat)
  PROVE  UNCHANGED <<Covered, closed>>
BY Typed DEF Covered

LEMMA WritingLog ==
  TypeInv /\ KeepInv /\ Writing => D!Next \/ UNCHANGED <<Covered, closed>>
<1> SUFFICES ASSUME TypeInv, KeepInv, Writing
             PROVE D!Next \/ UNCHANGED <<Covered, closed>>
  OBVIOUS
<1> USE Typed DEF KeepInv, TypeInv, Serving
<1>1. CASE WriteLine
  <2>1. Len(log') = Len(log) + 1 /\ Len(log) = manifest.covers
    BY <1>1 DEF WriteLine
  <2> QED
    BY <1>1, <2>1, QuietLog DEF WriteLine
<1>2. CASE WriteManifest
  <2>1. /\ manifest'.covers = chain.seq /\ pc = "manifest"
        /\ UNCHANGED <<log, closed>>
    BY <1>2 DEF WriteManifest
  <2>2. CASE job = "seal"
    BY <2>1, <2>2 DEF Covered
  <2>3. CASE job \in {"append", "tail"}
    <3>1. Covered' = Covered + 1
      BY <2>1, <2>3 DEF Covered
    <3>2. ~closed
      BY <2>1, <2>3
    <3> QED
      BY <2>1, <3>1, <3>2 DEF D!Next, D!Commit
  <2> QED
    BY <2>1, <2>2, <2>3
<1>3. CASE WriteAnchor
  <2>1. Covered' = Covered
    BY <1>3 DEF WriteAnchor, Covered
  <2>2. CASE job = "seal"
    <3>1. Covered > 0
      <4>0. manifest.covers >= Len(log) /\ log # <<>>
        BY <1>3, <2>2 DEF WriteAnchor, Ahead
      <4>1. Len(log) > 0 /\ manifest.covers > 0
        <5>1. Len(log) \in Nat /\ manifest.covers \in Nat /\ Len(log) # 0
          BY <4>0
        <5> QED
          BY <4>0, <5>1
      <4> QED
        BY <4>1 DEF Covered
    <3> QED
      BY <1>3, <2>1, <2>2, <3>1 DEF WriteAnchor, D!Next, D!Close
  <2>3. CASE job # "seal"
    <3>1. closed' = closed
      BY <1>3, <2>3 DEF WriteAnchor
    <3> QED
      BY <2>1, <3>1
  <2> QED
    BY <2>2, <2>3
<1> QED
  BY <1>1, <1>2, <1>3 DEF Writing

LEMMA OthersLog ==
  TypeInv /\ KeepInv /\ (Opening \/ Calls \/ Reader \/ Failures \/ UNCHANGED vars)
    => UNCHANGED <<Covered, closed>>
<1> SUFFICES ASSUME TypeInv, KeepInv,
                    Opening \/ Calls \/ Reader \/ Failures \/ UNCHANGED vars
             PROVE  UNCHANGED <<Covered, closed>>
  OBVIOUS
<1>1. CASE UNCHANGED <<log, manifest, closed>>
  BY <1>1 DEF Covered
<1>2. CASE Opening \/ Calls \/ Reader \/ UNCHANGED vars
  BY <1>1, <1>2, ReaderKeeps
  DEF Opening, Create, Resume, Load, Reanchor, CoverTail, Refuse, Calls, Seal,
      Release, OpenExisting, Ask, BeginAppend, RefuseAppend
<1>3. CASE Failures
  <2>1. CASE pc = "line" /\ (FaultLine \/ Crash)
    <3>1. Len(log) = manifest.covers
      BY <2>1 DEF KeepInv
    <3>2. UNCHANGED <<manifest, closed>> /\ log' \in AfterLine
      BY <2>1 DEF FaultLine, Crash
    <3> QED
      BY <3>1, <3>2, QuietLog, LineAdds, Typed
  <2>2. CASE ~(pc = "line" /\ (FaultLine \/ Crash))
    BY <1>1, <1>3, <2>2 DEF Failures, FaultLine, FaultManifest, FaultAnchor, Crash
  <2> QED
    BY <2>1, <2>2
<1> QED
  BY <1>2, <1>3

\* The receipts under the manifest are a durable log: they grow by one, none is
\* lost, and none follows a seal that returned.
THEOREM StoreIsDurableLog == Spec => ImplementsLog
<1>1. TypeInv /\ KeepInv /\ [Next]_vars => [D!Next]_D!vars
  BY WritingLog, OthersLog DEF Next, D!vars
<1> QED
  BY <1>1, InitLog, AlwaysKept, PTL DEF Spec, ImplementsLog, D!Spec

----------------------------------------------------------------------------
(* The projector shows what the files held.                                *)

\* Lines and manifests are only added, so a reading can only be too old; and
\* what was read between two equal readings was true of the disk then.
OldReading(m) ==
  m.id <= manifest.id /\ (m.id = manifest.id => m = manifest)
Fits(result, m, n) ==
  /\ result # "tampered"
  /\ result = "verified" => n = m.covers
  /\ result = "live_catching_up" => n > m.covers

AfterBefore == {"before_lines", "manifest", "lines", "anchor", "after", "after_lines"}
AfterBeforeLines == AfterBefore \ {"before_lines"}
AfterManifest == {"lines", "anchor", "after", "after_lines"}
AfterLines == {"anchor", "after", "after_lines"}

ReadingInv ==
  /\ view.step # "start" => view.acked <= manifest.covers /\ (view.closed => closed)
  /\ view.step \in AfterBefore =>
       /\ OldReading(view.m1)
       /\ view.acked <= view.m1.covers /\ (view.closed => view.m1.sealed)
  /\ view.step \in AfterBeforeLines => view.n1 <= Len(log)
  /\ view.step \in AfterManifest => view.m1.id <= view.m.id /\ OldReading(view.m)
  /\ view.step \in AfterLines => view.n1 <= view.n /\ view.n <= Len(log)
  /\ view.step = "after" /\ view.m1 = manifest /\ view.n1 = Len(log)
       => Fits(view.result, view.m1, view.n1)
  /\ view.step = "after_lines" /\ view.m1 = view.m2 /\ view.n1 = Len(log)
       => Fits(view.result, view.m1, view.n1)

ViewInv == ReadingInv /\ ProjectionExact

LEMMA WriterGrows ==
  ASSUME TypeInv, KeepInv,
         Opening \/ Writing \/ Calls \/ Failures \/ UNCHANGED vars
  PROVE  /\ view' = view /\ Len(log') >= Len(log) /\ (closed => closed')
         /\ \/ manifest' = manifest
            \/ manifest'.id = manifest.id + 1 /\ manifest'.covers >= manifest.covers
         /\ slipped => slipped'
<1>1. CASE Opening \/ Calls \/ UNCHANGED vars
  <2>1. UNCHANGED <<log, manifest, closed, view, slipped>>
    BY <1>1 DEF Opening, Create, Resume, Load, Reanchor, CoverTail, Refuse, Calls, Seal,
                Release, OpenExisting, Ask, BeginAppend, RefuseAppend
  <2> QED
    BY <2>1, Typed
<1>2. CASE Writing
  <2>1. CASE WriteLine
    <3>1. Len(log') = Len(log) + 1
      BY <2>1, Typed DEF WriteLine
    <3> QED
      BY <2>1, <3>1, Typed DEF WriteLine
  <2>2. CASE WriteManifest
    <3>1. chain.seq >= manifest.covers
      BY <2>2 DEF WriteManifest, KeepInv, Counted
    <3> QED
      BY <2>2, <3>1, Typed DEF WriteManifest
  <2>3. CASE WriteAnchor
    BY <2>3, Typed DEF WriteAnchor
  <2> QED
    BY <1>2, <2>1, <2>2, <2>3 DEF Writing
<1>3. CASE Failures
  <2>1. UNCHANGED <<manifest, closed, view>> /\ (slipped => slipped')
    BY <1>3 DEF Failures, FaultLine, FaultManifest, FaultAnchor, Crash
  <2>2. log' \in AfterLine \/ log' = log
    BY <1>3 DEF Failures, FaultLine, FaultManifest, FaultAnchor, Crash
  <2>3. Len(log') >= Len(log)
    BY <2>2, LineAdds, Typed
  <2> QED
    BY <2>1, <2>3
<1> QED
  BY <1>1, <1>2, <1>3

LEMMA ViewTyped ==
  ASSUME TypeInv
  PROVE  /\ view.m1.id \in Nat /\ view.m1.covers \in Nat /\ view.m.id \in Nat
         /\ view.n1 \in Nat /\ view.n \in Nat /\ view.acked \in Nat
         /\ view.m1 \in Manifests /\ view.m \in Manifests /\ view.m2 \in Manifests
         /\ view.closed \in BOOLEAN /\ view.step \in ReadSteps
<1>1. view \in Views
  BY TypeParts DEF TypeInv
<1> QED
  BY <1>1 DEF Views, Manifests

LEMMA WriterView ==
  ASSUME TypeInv, TypeInv', KeepInv, ViewInv,
         Opening \/ Writing \/ Calls \/ Failures \/ UNCHANGED vars
  PROVE  ViewInv'
<1>1. /\ view' = view /\ Len(log') >= Len(log) /\ (closed => closed')
      /\ \/ manifest' = manifest
         \/ manifest'.id = manifest.id + 1 /\ manifest'.covers >= manifest.covers
  BY WriterGrows
<1>2. /\ Len(log) \in Nat /\ Len(log') \in Nat /\ manifest.id \in Nat /\ manifest.covers \in Nat
      /\ manifest'.covers \in Nat
  <2>1. manifest' \in Manifests /\ log' \in Seq([seq : Nat, kind : LineKinds])
    BY DEF TypeInv, TypeOK
  <2> QED
    BY <2>1, Typed DEF Manifests
<1>3. /\ view.m1.id \in Nat /\ view.m.id \in Nat /\ view.n1 \in Nat /\ view.n \in Nat
      /\ view.acked \in Nat
  BY ViewTyped
<1>4. /\ OldReading(view.m1) => OldReading(view.m1)'
      /\ OldReading(view.m) => OldReading(view.m)'
  BY <1>1, <1>2, <1>3 DEF OldReading
<1>5. view.step # "start" => view.acked <= manifest'.covers /\ (view.closed => closed')
  BY <1>1, <1>2, <1>3 DEF ViewInv, ReadingInv
<1>6. /\ view.step \in AfterBeforeLines => view.n1 <= Len(log')
      /\ view.step \in AfterLines => view.n1 <= view.n /\ view.n <= Len(log')
  BY <1>1, <1>2, <1>3 DEF ViewInv, ReadingInv
<1>7. view.step = "after" /\ view.m1 = manifest' /\ view.n1 = Len(log')
        => Fits(view.result, view.m1, view.n1)
  <2> SUFFICES ASSUME view.step = "after", view.m1 = manifest', view.n1 = Len(log')
               PROVE  Fits(view.result, view.m1, view.n1)
    OBVIOUS
  <2>1. OldReading(view.m1) /\ view.n1 <= Len(log)
    BY DEF ViewInv, ReadingInv, AfterBefore, AfterBeforeLines
  <2>2. view.m1 = manifest /\ view.n1 = Len(log)
    BY <1>1, <1>2, <1>3, <2>1 DEF OldReading
  <2> QED
    BY <2>2 DEF ViewInv, ReadingInv
<1>8. view.step = "after_lines" /\ view.m1 = view.m2 /\ view.n1 = Len(log')
        => Fits(view.result, view.m1, view.n1)
  <2> SUFFICES ASSUME view.step = "after_lines", view.m1 = view.m2, view.n1 = Len(log')
               PROVE  Fits(view.result, view.m1, view.n1)
    OBVIOUS
  <2>1. view.n1 <= Len(log)
    BY DEF ViewInv, ReadingInv, AfterBefore, AfterBeforeLines
  <2>2. view.n1 = Len(log)
    BY <1>1, <1>2, <1>3, <2>1
  <2> QED
    BY <2>2 DEF ViewInv, ReadingInv
<1>9. ReadingInv'
  BY <1>1, <1>4, <1>5, <1>6, <1>7, <1>8 DEF ViewInv, ReadingInv
<1>10. ProjectionExact'
  BY <1>1 DEF ViewInv, ProjectionExact, Published
<1> QED
  BY <1>9, <1>10 DEF ViewInv

\* What the verdict of an honest store says of the files it was given.
LEMMA HonestFits ==
  ASSUME TypeInv, NeverTampered, ~slipped
  PROVE  Fits(Status, manifest, Len(log))
BY Verified, Lagging DEF NeverTampered, Fits

LEMMA ReaderView ==
  ASSUME TypeInv, TypeInv', KeepInv, NeverTampered, ~slipped, Reading # "verify",
         ViewInv, Reader
  PROVE  ViewInv'
<1> USE DEF AfterBefore, AfterBeforeLines, AfterManifest, AfterLines
<1>1. UNCHANGED <<log, manifest, anchor, closed, acked>>
  BY ReaderKeeps
<1>2. /\ Len(log) \in Nat /\ manifest.id \in Nat /\ manifest.covers \in Nat /\ acked \in Nat
      /\ manifest.sealed \in BOOLEAN
  BY Typed
<1>3. view \in Views /\ view.m1.id \in Nat /\ view.m.id \in Nat /\ view.n1 \in Nat
  BY ViewTyped, TypeParts DEF TypeInv
<1>4. OldReading(manifest)
  BY <1>2 DEF OldReading
<1>5. ReadingInv /\ ProjectionExact
  BY DEF ViewInv
<1>6. CASE ReadStart
  <2>1. view' = [NoView EXCEPT !.step = "before", !.acked = acked, !.closed = closed]
    BY <1>6 DEF ReadStart, Sees
  <2>2. view'.step = "before" /\ view'.acked = acked /\ view'.closed = closed
    BY <2>1 DEF NoView
  <2>3. acked <= manifest.covers
    BY <1>2 DEF KeepInv, AckedCovered
  <2> QED
    BY <1>1, <2>2, <2>3 DEF ViewInv, ReadingInv, ProjectionExact, Published
<1>7. CASE ReadBefore
  <2>0. view.step = "before" /\ view.acked <= manifest.covers /\ (view.closed => closed)
    BY <1>5, <1>7 DEF ReadBefore, Sees, ReadingInv
  <2>1. CASE Missing
    <3>1. view' = [view EXCEPT !.step = "done", !.result = "evidence_unstable"]
      BY <1>7, <2>1 DEF ReadBefore, Sees
    <3>2. /\ view'.step = "done" /\ view'.result = "evidence_unstable"
          /\ view'.acked = view.acked /\ view'.closed = view.closed
      BY <1>3, <3>1 DEF Views
    <3> QED
      BY <1>1, <2>0, <3>2 DEF ViewInv, ReadingInv, ProjectionExact, Published
  <2>2. CASE ~Missing
    <3>1. view' = [view EXCEPT !.step = "before_lines", !.m1 = manifest,
                               !.tries = view.tries + 1]
      BY <1>7, <2>2 DEF ReadBefore, Sees
    <3>2. /\ view'.step = "before_lines" /\ view'.m1 = manifest
          /\ view'.acked = view.acked /\ view'.closed = view.closed
      BY <1>3, <3>1 DEF Views
    <3>3. view.closed => manifest.sealed
      BY <2>0 DEF KeepInv, SealKept
    <3>4. OldReading(view.m1)'
      BY <1>1, <1>4, <3>2 DEF OldReading
    <3> QED
      BY <1>1, <2>0, <3>2, <3>3, <3>4 DEF ViewInv, ReadingInv, ProjectionExact, Published
  <2> QED
    BY <2>1, <2>2
<1>8. CASE ReadBeforeLines
  <2>1. view.step = "before_lines" /\ view' = [view EXCEPT !.step = "manifest", !.n1 = Len(log)]
    BY <1>8 DEF ReadBeforeLines, Sees
  <2>2. /\ view'.step = "manifest" /\ view'.n1 = Len(log)
        /\ view'.m1 = view.m1 /\ view'.acked = view.acked /\ view'.closed = view.closed
    BY <1>3, <2>1 DEF Views
  <2> QED
    BY <1>1, <1>2, <1>5, <2>1, <2>2
       DEF ViewInv, ReadingInv, OldReading, ProjectionExact, Published
<1>9. CASE ReadManifest
  <2>1. view.step = "manifest" /\ view' = [view EXCEPT !.step = "lines", !.m = manifest]
    BY <1>9 DEF ReadManifest, Sees
  <2>2. /\ view'.step = "lines" /\ view'.m = manifest /\ view'.n1 = view.n1
        /\ view'.m1 = view.m1 /\ view'.acked = view.acked /\ view'.closed = view.closed
    BY <1>3, <2>1 DEF Views
  <2> QED
    BY <1>1, <1>2, <1>5, <2>1, <2>2
       DEF ViewInv, ReadingInv, OldReading, ProjectionExact, Published
<1>10. CASE ReadLines
  <2>1. view.step = "lines" /\ view' = [view EXCEPT !.step = "anchor", !.n = Len(log)]
    BY <1>10 DEF ReadLines, Sees
  <2>2. /\ view'.step = "anchor" /\ view'.n = Len(log) /\ view'.m = view.m /\ view'.n1 = view.n1
        /\ view'.m1 = view.m1 /\ view'.acked = view.acked /\ view'.closed = view.closed
    BY <1>3, <2>1 DEF Views
  <2> QED
    BY <1>1, <1>2, <1>5, <2>1, <2>2
       DEF ViewInv, ReadingInv, OldReading, ProjectionExact, Published
<1>11. CASE ReadAnchor
  <2> DEFINE found == StatusOf(view.m, view.n, anchor)
  <2>1. view.step = "anchor" /\ view' = [view EXCEPT !.step = "after", !.result = found]
    BY <1>11 DEF ReadAnchor, Sees
  <2>2. /\ view'.step = "after" /\ view'.result = found /\ view'.m = view.m /\ view'.n = view.n
        /\ view'.n1 = view.n1 /\ view'.m1 = view.m1
        /\ view'.acked = view.acked /\ view'.closed = view.closed
    <3> HIDE DEF found
    <3> QED
      BY <1>3, <2>1 DEF Views
  <2>3. ASSUME view.m1 = manifest, view.n1 = Len(log) PROVE Fits(found, view.m1, view.n1)
    <3>1. /\ view.m1.id <= view.m.id /\ OldReading(view.m)
          /\ view.n1 <= view.n /\ view.n <= Len(log) /\ view.n \in Nat
      BY <1>5, <2>1, ViewTyped DEF ReadingInv
    <3>2. view.m = manifest
      BY <1>2, <1>3, <2>3, <3>1 DEF OldReading
    <3>3. view.n = Len(log)
      BY <1>2, <1>3, <2>3, <3>1
    <3>4. found = Status
      BY <3>2, <3>3 DEF Status
    <3> QED
      BY <2>3, <3>4, HonestFits
  <2> HIDE DEF found
  <2> QED
    BY <1>1, <1>5, <2>1, <2>2, <2>3
       DEF ViewInv, ReadingInv, OldReading, ProjectionExact, Published, Fits
<1>12. CASE ReadAfter
  <2>1. view.step = "after" /\ view' = [view EXCEPT !.step = "after_lines", !.m2 = manifest]
    BY <1>12 DEF ReadAfter, Sees
  <2>2. /\ view'.step = "after_lines" /\ view'.m2 = manifest /\ view'.result = view.result
        /\ view'.m = view.m /\ view'.n = view.n /\ view'.n1 = view.n1 /\ view'.m1 = view.m1
        /\ view'.acked = view.acked /\ view'.closed = view.closed
    BY <1>3, <2>1 DEF Views
  <2> QED
    BY <1>1, <1>5, <2>1, <2>2
       DEF ViewInv, ReadingInv, OldReading, ProjectionExact, Published, Fits
<1>13. CASE Conclude
  <2>0. view.step = "after_lines"
    BY <1>13 DEF Conclude, Sees
  <2>1. CASE Stable
    <3>1. view' = [view EXCEPT !.step = "done", !.n2 = Len(log)]
      BY <1>13, <2>1 DEF Conclude, Sees
    <3>2. /\ view'.step = "done" /\ view'.n2 = Len(log) /\ view'.result = view.result
          /\ view'.m1 = view.m1 /\ view'.m2 = view.m2
          /\ view'.acked = view.acked /\ view'.closed = view.closed
      BY <1>3, <3>1 DEF Views
    <3>3. view.m2 = view.m1 /\ view.n1 = Len(log) /\ Fits(view.result, view.m1, view.n1)
      BY <1>5, <2>0, <2>1 DEF Stable, ReadingInv
    <3>4. /\ view.acked <= view.m1.covers /\ (view.closed => view.m1.sealed)
          /\ view.acked \in Nat /\ view.m1.covers \in Nat
      BY <1>5, <2>0, ViewTyped DEF ReadingInv
    <3>5. ProjectionExact'
      BY <1>2, <3>2, <3>3, <3>4 DEF ProjectionExact, Published, Fits
    <3>6. ReadingInv'
      BY <1>1, <1>5, <2>0, <3>2 DEF ReadingInv
    <3> QED
      BY <3>5, <3>6 DEF ViewInv
  <2>2. CASE ~Stable /\ view' = [view EXCEPT !.step = "before"]
    <3>1. /\ view'.step = "before"
          /\ view'.acked = view.acked /\ view'.closed = view.closed
      BY <1>3, <2>2 DEF Views
    <3> QED
      BY <1>1, <1>5, <2>0, <3>1 DEF ViewInv, ReadingInv, ProjectionExact, Published
  <2>3. CASE ~Stable /\ view' = [view EXCEPT !.step = "done", !.result = "evidence_unstable"]
    <3>1. /\ view'.step = "done" /\ view'.result = "evidence_unstable"
          /\ view'.acked = view.acked /\ view'.closed = view.closed
      BY <1>3, <2>3 DEF Views
    <3> QED
      BY <1>1, <1>5, <2>0, <3>1 DEF ViewInv, ReadingInv, ProjectionExact, Published
  <2> QED
    BY <1>13, <2>1, <2>2, <2>3 DEF Conclude, Sees
<1>14. CASE ReadAgain
  <2>1. view'.step = "start"
    BY <1>14 DEF ReadAgain, Sees, NoView
  <2> QED
    BY <2>1 DEF ViewInv, ReadingInv, ProjectionExact, Published
<1> QED
  BY <1>6, <1>7, <1>8, <1>9, <1>10, <1>11, <1>12, <1>13, <1>14 DEF Reader

\* A snapshot the projector publishes shows every receipt acknowledged when it
\* was asked for and a seal that had returned, is called verified exactly when it
\* has no receipt outside its manifest, and no interleaving makes an honest store
\* look tampered with, unless an anchor's write took effect and raised.
THEOREM ProjectorExact ==
  ASSUME Reading # "verify"
  PROVE  Spec => [](slipped \/ ProjectionExact)
<1> DEFINE Inv == TypeInv /\ KeepInv /\ TrustInv /\ (~slipped => ViewInv)
<1>1. Init => Inv
  <2>1. Init => ViewInv
    BY DEF Init, NoView, ViewInv, ReadingInv, ProjectionExact, Published,
           AfterBefore, AfterBeforeLines, AfterManifest, AfterLines
  <2> QED
    BY <2>1, InitType, InitKeep, InitTrust
<1>2. Inv /\ [Next]_vars => Inv'
  <2> SUFFICES ASSUME Inv, [Next]_vars, ~slipped' PROVE ViewInv'
    BY StepType, StepKeep, StepTrust
  <2>1. TypeInv' /\ NeverTampered
    BY StepType, TrustHolds
  <2>2. CASE Reader
    <3>1. ~slipped
      BY <2>2, ReaderKeeps
    <3> QED
      BY <2>1, <2>2, <3>1, ReaderView
  <2>3. CASE Opening \/ Writing \/ Calls \/ Failures \/ UNCHANGED vars
    <3>1. ~slipped
      BY <2>3, WriterGrows
    <3> QED
      BY <2>1, <2>3, <3>1, WriterView
  <2> QED
    BY <2>2, <2>3 DEF Next
<1>3. Inv => slipped \/ ProjectionExact
  BY DEF ViewInv
<1> QED
  BY <1>1, <1>2, <1>3, PTL DEF Spec

----------------------------------------------------------------------------
(* What an opening is refused for.                                         *)

\* Also when an anchor's write slipped: the anchor is at most one manifest
\* behind, and an object in use at most one generation.
Near ==
  /\ manifest.id # 0 => manifest.covers # 0
  /\ anchor.of = manifest.id \/ anchor.of + 1 = manifest.id
  /\ anchor.of = manifest.id => anchor.gen = manifest.gen
  /\ anchor.of # manifest.id
       => manifest.gen = anchor.gen \/ manifest.gen = anchor.gen + 1
  /\ pc \in {"idle", "line", "manifest"} /\ anchor.of = manifest.id
       => chain.gen = manifest.gen \/ chain.gen + 1 = manifest.gen
  /\ pc \in {"line", "manifest"} => anchor.of = manifest.id
  /\ pc = "anchor" /\ job \in {"append", "seal", "tail"}
       => anchor.of + 1 = manifest.id /\ chain.gen + 1 = manifest.gen
  /\ pc = "anchor" /\ job = "create" => chain.gen = 0

LEMMA InitNear == Init => Near
BY DEF Init, Near, NoManifest, NoAnchor, Fresh

LEMMA OpeningNear == TypeInv /\ KeepInv /\ Near /\ Opening => Near'
<1> SUFFICES ASSUME TypeInv, KeepInv, Near, Opening PROVE Near'
  OBVIOUS
<1> USE Typed DEF Near
<1>1. CASE Create
  BY <1>1 DEF Create, Fresh
<1>2. CASE Resume
  BY <1>2 DEF Resume
<1>3. CASE Load
  BY <1>3 DEF Load, Loaded
<1>4. CASE Reanchor
  BY <1>4 DEF Reanchor
<1>5. CASE CoverTail
  BY <1>5, Lagging DEF CoverTail
<1>6. CASE Refuse
  BY <1>6 DEF Refuse
<1> QED
  BY <1>1, <1>2, <1>3, <1>4, <1>5, <1>6 DEF Opening

LEMMA WritingNear == TypeInv /\ KeepInv /\ Near /\ Writing => Near'
<1> SUFFICES ASSUME TypeInv, KeepInv, Near, Writing PROVE Near'
  OBVIOUS
<1> USE Typed DEF Near
<1>1. CASE WriteLine
  <2>1. job = "append"
    BY <1>1 DEF WriteLine, TypeInv, Placed
  <2> QED
    BY <1>1, <2>1 DEF WriteLine
<1>2. CASE WriteManifest
  <2>1. /\ manifest'.id = manifest.id + 1 /\ manifest'.gen = chain.gen + 1
        /\ manifest'.covers = chain.seq
        /\ pc = "manifest" /\ pc' = "anchor" /\ job' = job /\ UNCHANGED <<anchor, chain>>
    BY <1>2 DEF WriteManifest
  <2>2. job \in {"append", "seal", "tail"}
    BY <2>1 DEF TypeInv, Placed
  <2>3. chain.seq # 0
    <3>1. CASE job = "seal"
      <4>1. Len(log) = manifest.covers /\ log # <<>> /\ chain.seq >= manifest.covers
        BY <2>1, <3>1 DEF KeepInv, Ahead, Counted
      <4> QED
        BY <4>1
    <3>2. CASE job # "seal"
      BY <2>1, <2>2, <3>2 DEF KeepInv, Ahead
    <3> QED
      BY <3>1, <3>2
  <2>4. anchor.of = manifest.id /\ anchor.gen = manifest.gen
        /\ (chain.gen = manifest.gen \/ chain.gen + 1 = manifest.gen)
    BY <2>1
  <2> QED
    BY <2>1, <2>2, <2>3, <2>4
<1>3. CASE WriteAnchor
  <2>1. /\ anchor'.gen = manifest.gen /\ anchor'.of = manifest.id
        /\ pc = "anchor" /\ pc' \in {"opening", "idle"} /\ UNCHANGED manifest
    BY <1>3 DEF WriteAnchor, Anchored
  <2>2. ASSUME pc' = "idle" PROVE chain'.gen = manifest.gen
    <3>1. job \in {"create", "append", "seal"}
      BY <1>3, <2>2 DEF WriteAnchor, TypeInv, Placed
    <3>2. CASE job = "create"
      BY <1>3, <3>2 DEF WriteAnchor, TypeInv, Placed, Untouched, NoManifest
    <3>3. CASE job = "append"
      BY <1>3, <3>3 DEF WriteAnchor
    <3>4. CASE job = "seal"
      BY <1>3, <3>4 DEF WriteAnchor
    <3> QED
      BY <3>1, <3>2, <3>3, <3>4
  <2> QED
    BY <2>1, <2>2
<1> QED
  BY <1>1, <1>2, <1>3 DEF Writing

LEMMA CallsNear == TypeInv /\ KeepInv /\ Near /\ Calls => Near'
<1> SUFFICES ASSUME TypeInv, KeepInv, Near, Calls PROVE Near'
  OBVIOUS
<1> USE Typed DEF Near
<1>1. CASE Seal
  BY <1>1, Verified DEF Seal
<1>2. CASE Release
  BY <1>2 DEF Release
<1>3. CASE OpenExisting
  BY <1>3 DEF OpenExisting, Loaded
<1>4. ASSUME NEW w \in Writers, NEW kind \in Kinds, Ask(w, kind)
      PROVE  Near'
  BY <1>4 DEF Ask
<1>5. ASSUME NEW w \in Writers, BeginAppend(w)
      PROVE  Near'
  <2>1. anchor.of = manifest.id
    BY <1>5, Verified DEF BeginAppend, Admits, Writable, Untouched, NoManifest
  <2>2. /\ pc = "idle" /\ pc' = "line" /\ job' = "append" /\ chain'.gen = chain.gen
        /\ UNCHANGED <<manifest, anchor>>
    BY <1>5 DEF BeginAppend
  <2> QED
    BY <2>1, <2>2
<1>6. ASSUME NEW w \in Writers, RefuseAppend(w)
      PROVE  Near'
  BY <1>6 DEF RefuseAppend
<1> QED
  BY <1>1, <1>2, <1>3, <1>4, <1>5, <1>6 DEF Calls

LEMMA FailuresNear == TypeInv /\ KeepInv /\ Near /\ Failures => Near'
<1> SUFFICES ASSUME TypeInv, KeepInv, Near, Failures PROVE Near'
  OBVIOUS
<1> USE Typed DEF Near
<1>1. CASE FaultLine
  BY <1>1 DEF FaultLine, Raises
<1>2. CASE FaultManifest
  BY <1>2 DEF FaultManifest, Raises
<1>3. CASE FaultAnchor
  <2>1. /\ anchor'.gen = manifest.gen /\ anchor'.of = manifest.id /\ pc = "anchor"
        /\ job \in {"append", "seal"} /\ pc' = "idle" /\ job' = "none"
        /\ UNCHANGED <<manifest, chain>>
    BY <1>3 DEF FaultAnchor, Raises, Anchored
  <2> QED
    BY <2>1
<1>4. CASE Crash
  BY <1>4 DEF Crash
<1> QED
  BY <1>1, <1>2, <1>3, <1>4 DEF Failures

LEMMA StepNear == TypeInv /\ KeepInv /\ Near /\ [Next]_vars => Near'
<1> SUFFICES ASSUME TypeInv, KeepInv, Near, [Next]_vars PROVE Near'
  OBVIOUS
<1>1. CASE Reader \/ UNCHANGED vars
  <2>1. UNCHANGED <<disk, memory, history, count>>
    BY <1>1, ReaderKeeps
  <2> QED
    BY <2>1 DEF Near
<1> QED
  BY <1>1, OpeningNear, WritingNear, CallsNear, FailuresNear DEF Next

\* The verdict an opening stops at names one of the causes.
LEMMA RefusedLost ==
  ASSUME TypeInv, KeepInv, Near, ~Writable, Status # "manifest_anchor_update_pending",
         ~(Status = "live_catching_up" /\ TailValid)
  PROVE  Lost
<1>1. CASE Missing \/ Len(log) = 0
  <2>1. CASE Missing
    BY <2>1 DEF Missing, Writable, Untouched, Lost, FirstUncovered
  <2>2. CASE ~Missing /\ Len(log) = 0
    <3>1. manifest.id # 0
      BY <2>2 DEF Missing, KeepInv, Founded
    <3>2. manifest.covers > Len(log)
      BY <2>2, <3>1, Typed DEF Near
    <3> QED
      BY <3>2 DEF Lost, SkippedNumber
  <2> QED
    BY <1>1, <2>1, <2>2
<1>2. CASE ~Missing /\ Len(log) # 0
  <2>1. CASE Len(log) < manifest.covers
    BY <2>1, Typed DEF Lost, SkippedNumber
  <2>2. CASE Len(log) >= manifest.covers /\ Len(log) > manifest.covers /\ manifest.sealed
    BY <2>2 DEF Lost, PastSeal
  <2>3. CASE Len(log) >= manifest.covers /\ ~Contiguous(manifest.covers)
    <3>1. PICK i \in 1..manifest.covers : log[i].seq # i
      BY <2>3 DEF Contiguous
    <3>2. i \in DOMAIN log
      BY <2>3, Typed
    <3> QED
      BY <3>1, <3>2 DEF Lost, TornTail, SkippedNumber
  <2>4. CASE /\ Len(log) >= manifest.covers /\ Contiguous(manifest.covers)
             /\ ~(Len(log) > manifest.covers /\ manifest.sealed)
    <3>1. ~(Len(log) < manifest.covers)
      BY <2>4, Typed
    <3>2. CASE anchor.of # manifest.id
      <4>1. ~Pending(manifest, anchor)
        BY <1>2, <2>4, <3>1, <3>2 DEF Status, StatusOf, Missing
      <4>2. manifest.gen = anchor.gen
        <5>1. manifest.id - 1 = anchor.of
          BY <3>2, Typed DEF Near
        <5>2. manifest.gen # anchor.gen + 1
          BY <4>1, <5>1 DEF Pending
        <5> QED
          BY <3>2, <5>2 DEF Near
      <4> QED
        BY <3>2, <4>2 DEF Lost, TwoOfAGeneration
    <3>3. CASE anchor.of = manifest.id
      <4>1. Status # "verified"
        BY DEF Writable
      <4>2. Status = "live_catching_up" /\ Len(log) > manifest.covers
        BY <1>2, <2>4, <3>1, <3>3, <4>1 DEF Status, StatusOf, Missing
      <4>3. PICK i \in manifest.covers + 1 .. Len(log) :
              log[i].seq # i \/ log[i].kind = "fragment"
        BY <2>4, <4>2 DEF TailValid
      <4>4. i \in DOMAIN log
        BY <4>3, Typed
      <4> QED
        BY <4>3, <4>4 DEF Lost, TornTail, SkippedNumber
    <3> QED
      BY <3>2, <3>3
  <2> QED
    BY <2>1, <2>2, <2>3, <2>4, Typed
<1> QED
  BY <1>1, <1>2 DEF Missing

\* Whatever failed before, also an anchor's write that took effect and raised, an
\* opening is refused only for a cause that the next opening cannot remove.
THEOREM RefusalsExplained == Spec => RefusalExplained
<1>1. TypeInv /\ KeepInv /\ Near /\ [Next]_vars
        => [pc = "opening" /\ pc' = "closed" /\ crashes' = crashes => Lost]_vars
  <2> SUFFICES ASSUME TypeInv, KeepInv, Near, Next, pc = "opening", pc' = "closed", crashes' = crashes
               PROVE  Lost
    BY DEF vars
  <2>1. CASE Refuse
    BY <2>1, RefusedLost DEF Refuse
  <2>2. CASE Opening /\ ~Refuse
    BY <2>2 DEF Opening, Create, Resume, Load, Reanchor, CoverTail
  <2>3. CASE Writing \/ Calls
    BY <2>3 DEF Writing, WriteLine, WriteManifest, WriteAnchor, Calls, Seal, Release,
                OpenExisting, Ask, BeginAppend, RefuseAppend
  <2>4. CASE Failures
    <3>1. crashes \in Nat /\ crashes + 1 # crashes
      BY TypeParts DEF TypeInv, StoreTyped
    <3> QED
      BY <2>4, <3>1 DEF Failures, FaultLine, FaultManifest, FaultAnchor, Crash
  <2>5. CASE Reader
    BY <2>5, ReaderKeeps
  <2> QED
    BY <2>1, <2>2, <2>3, <2>4, <2>5 DEF Next
<1> QED
  BY <1>1, InitType, InitKeep, InitNear, StepType, StepKeep, StepNear, PTL
     DEF Spec, RefusalExplained

=============================================================================
