----------------------------- MODULE ChatProofs -----------------------------
(***************************************************************************)
(* The safety properties of governed chat, for any number of turns,        *)
(* services and faults.  The first needs what the threads of a turn know   *)
(* of its tree; the second needs that the journal has one open turn at a   *)
(* time and that a submission holds the lock of its service; the third     *)
(* unfolds the transcript by induction on the rows.                        *)
(***************************************************************************)
EXTENDS ChatProperties, SequenceTheorems, WellFoundedInduction, TLAPS

Events == Terminal \cup {"turn_submitted", "turn_started", "turn_cancellation_requested"}
Rows == [event : Events, turn : Turns]
Threads == {"submitter", "pump", "canceller"}

\* The values the variables take.
TypeOK ==
  /\ rows \in Seq(Rows) /\ known \in [Services -> Nat]
  /\ up \in [Services -> {"down", "recovering", "serving"}]
  /\ active \in [Services -> Turns \cup {NoTurn}]
  /\ terminalized \in [Services -> BOOLEAN] /\ cancelling \in [Services -> BOOLEAN]
  /\ home \in [Turns -> Services \cup {NoService}]
  /\ tree \in [Turns -> {"none", "running", "left", "gone"}] /\ stopped \subseteq Turns
  /\ submitter \in [Turns -> {"off", "spawning", "unspawned", "starting", "stopping",
                              "observed", "closing"}]
  /\ pump \in [Turns -> {"off", "running", "waiting", "cut", "settling", "settling cut",
                         "failing", "failed", "closing"}]
  /\ canceller \in [Turns -> {"off", "stopping", "observed", "closing"}]
  /\ seen \in [Turns -> [Threads -> {"none", "confirmed", "emptied", "unconfirmed", "lost"}]]
  /\ lost \subseteq Turns /\ opens \in Nat

Unborn(t) == submitter[t] \in {"spawning", "unspawned"}

\* A thread that saw the tree gone is right for good.
SeenGone ==
  \A t \in Turns : \A w \in Threads : seen[t][w] = "confirmed" => tree[t] = "gone"

\* A turn without an owner yet has no tree, no worker and nobody to cancel it.
NothingYet ==
  \A t \in Turns :
    Unborn(t) \/ ~Submitted(rows, t)
    => /\ tree[t] = "none" /\ pump[t] = "off" /\ canceller[t] = "off"
       /\ \A s \in Services : active[s] # t
\* A turn's own thread starts only with its row.
OwnThread == \A t \in Turns : ~Submitted(rows, t) => submitter[t] = "off"

\* A turn that ended plainly has no tree, and none is being made for it.
EndedGone ==
  \A i \in DOMAIN rows :
    rows[i].event \in Terminal \ {Uncertain}
    => LET t == rows[i].turn
       IN tree[t] = "gone" \/ (tree[t] = "none" /\ submitter[t] # "spawning")

GoneInv == SeenGone /\ NothingYet /\ OwnThread /\ EndedGone

\* The journal has one open turn at a time, the active one.
OneOpen ==
  /\ \A t \in Turns : Open(rows, t) => ActiveTurn(rows) = t
  /\ Submissions(rows) # {} => Max(Submissions(rows)) \in Submissions(rows)
\* A service is opened once, and its turns come after its recovery.
OpenedOnce ==
  /\ \A s \in Services : up[s] # "down" => s <= opens
  /\ \A t \in Turns : home[t] \in Services => home[t] <= opens /\ up[home[t]] # "recovering"
\* While a turn has no owner its service has no other open turn.
Held ==
  \A t, u \in Turns :
    Unborn(t) /\ t # u /\ home[u] = home[t] => ~Open(rows, u) \/ u \in lost

OpenInv == OneOpen /\ OpenedOnce /\ Held /\ NoForgottenTurn

----------------------------------------------------------------------------
(* What one more row makes of the journal.                                 *)

LEMMA MoreRows ==
  ASSUME NEW r \in Seq(Rows), NEW e \in Events, NEW t \in Turns
  PROVE  LET r2 == Append(r, Row(e, t))
         IN /\ r2 \in Seq(Rows) /\ DOMAIN r = 1..Len(r) /\ Len(r) \in Nat
            /\ DOMAIN r2 = DOMAIN r \cup {Len(r) + 1}
            /\ r2[Len(r) + 1].event = e /\ r2[Len(r) + 1].turn = t
            /\ \A i \in DOMAIN r : r2[i] = r[i] /\ i < Len(r) + 1
<1>1. Row(e, t) \in Rows /\ Row(e, t).event = e /\ Row(e, t).turn = t
  BY DEF Row, Rows
<1>2. DOMAIN r = 1..Len(r) /\ Len(r) \in Nat
  BY LenProperties
<1> QED
  BY <1>1, <1>2, AppendProperties

LEMMA RowTurn ==
  ASSUME NEW r \in Seq(Rows), NEW i \in DOMAIN r
  PROVE  r[i].turn \in Turns
<1>1. r[i] \in Rows
  BY ElementOfSeq, LenProperties
<1> QED
  BY <1>1 DEF Rows

LEMMA MoreOf ==
  ASSUME NEW r \in Seq(Rows), NEW e \in Events, NEW t \in Turns, NEW u \in Turns
  PROVE  LET r2 == Append(r, Row(e, t))
         IN /\ u # t => (Submitted(r2, u) <=> Submitted(r, u))
            /\ u # t => (Settled(r2, u) <=> Settled(r, u))
            /\ u # t => (Open(r2, u) <=> Open(r, u))
            /\ Submitted(r2, t)
            /\ Settled(r2, t) <=> Settled(r, t) \/ e \in Terminal
<1> DEFINE r2 == Append(r, Row(e, t))
<1>1. /\ DOMAIN r2 = DOMAIN r \cup {Len(r) + 1}
      /\ r2[Len(r) + 1].event = e /\ r2[Len(r) + 1].turn = t
      /\ \A i \in DOMAIN r : r2[i] = r[i]
  BY MoreRows
<1> HIDE DEF r2
<1>2. u # t => Of(r2, u) = Of(r, u)
  BY <1>1 DEF Of
<1>3. Of(r2, t) = Of(r, t) \cup {Len(r) + 1}
  BY <1>1 DEF Of
<1>4. \A i \in Of(r, t) : r2[i] = r[i]
  BY <1>1 DEF Of
<1>5. Submitted(r2, t) /\ (Settled(r2, t) <=> Settled(r, t) \/ e \in Terminal)
  BY <1>1, <1>3, <1>4 DEF Submitted, Settled
<1>6. u # t => \A i \in Of(r, u) : r2[i] = r[i]
  BY <1>1 DEF Of
<1>7. u # t => /\ Submitted(r2, u) <=> Submitted(r, u)
               /\ Settled(r2, u) <=> Settled(r, u)
  BY <1>2, <1>6 DEF Submitted, Settled
<1> QED
  BY <1>5, <1>7 DEF r2, Open

\* A submission is the newest one; any other row leaves the newest as it was.
LEMMA MoreSubmissions ==
  ASSUME NEW r \in Seq(Rows), NEW e \in Events, NEW t \in Turns,
         Submissions(r) # {} => Max(Submissions(r)) \in Submissions(r)
  PROVE  LET r2 == Append(r, Row(e, t))
         IN /\ e = "turn_submitted" =>
                 Submissions(r2) # {} /\ Max(Submissions(r2)) \in Submissions(r2)
                 /\ r2[Max(Submissions(r2))].turn = t
            /\ e # "turn_submitted" =>
                 /\ Submissions(r2) = Submissions(r)
                 /\ Submissions(r) # {} => r2[Max(Submissions(r))] = r[Max(Submissions(r))]
<1> DEFINE r2 == Append(r, Row(e, t))
<1>1. /\ DOMAIN r2 = DOMAIN r \cup {Len(r) + 1} /\ DOMAIN r = 1..Len(r) /\ Len(r) \in Nat
      /\ r2[Len(r) + 1].event = e /\ r2[Len(r) + 1].turn = t
      /\ \A i \in DOMAIN r : r2[i] = r[i] /\ i < Len(r) + 1
  BY MoreRows
<1> HIDE DEF r2
<1>2. CASE e = "turn_submitted"
  <2>1. Submissions(r2) = Submissions(r) \cup {Len(r) + 1}
    BY <1>1, <1>2 DEF Submissions
  <2>2. Submissions(r) \subseteq 1..Len(r)
    BY <1>1 DEF Submissions
  <2>3. \A x \in Submissions(r2) : x \in Int /\ Len(r) + 1 >= x
    BY <1>1, <2>1, <2>2
  <2>4. \A x \in Submissions(r2) :
          (\A y \in Submissions(r2) : x >= y) => x = Len(r) + 1
    <3>1. Len(r) + 1 \in Submissions(r2)
      BY <2>1
    <3> QED
      BY <1>1, <2>3, <3>1
  <2>5. Max(Submissions(r2)) = Len(r) + 1
    BY <2>1, <2>3, <2>4 DEF Max
  <2> QED
    BY <1>1, <1>2, <2>1, <2>5 DEF r2
<1>3. CASE e # "turn_submitted"
  <2>1. Submissions(r2) = Submissions(r)
    BY <1>1, <1>3 DEF Submissions
  <2>2. Submissions(r) # {} => Max(Submissions(r)) \in DOMAIN r
    BY DEF Submissions
  <2> QED
    BY <1>1, <1>3, <2>1, <2>2 DEF r2
<1> QED
  BY <1>2, <1>3

\* One step of the journal.
Grew(e, t) == rows' = rows \/ (Allowed(rows, e, t) /\ rows' = Append(rows, Row(e, t)))

\* The journal's own invariant: whatever row is let in, one turn is open.
LEMMA OneOpenStep ==
  ASSUME TypeOK, OneOpen, NEW t \in Turns, NEW e \in Events, Grew(e, t)
  PROVE  OneOpen'
<1> USE ChatAssumption
<1>1. CASE rows' = rows
  BY <1>1 DEF OneOpen, Open, Submitted, Settled, Of, ActiveTurn, Submissions
<1>2. CASE Allowed(rows, e, t) /\ rows' = Append(rows, Row(e, t))
  <2>1. rows \in Seq(Rows)
    BY DEF TypeOK
  <2>2. Submissions(rows) # {} => Max(Submissions(rows)) \in Submissions(rows)
    BY DEF OneOpen
  <2>3. /\ e = "turn_submitted" =>
             Submissions(rows') # {} /\ Max(Submissions(rows')) \in Submissions(rows')
             /\ rows'[Max(Submissions(rows'))].turn = t
        /\ e # "turn_submitted" =>
             /\ Submissions(rows') = Submissions(rows)
             /\ Submissions(rows) # {}
                  => rows'[Max(Submissions(rows))] = rows[Max(Submissions(rows))]
    BY <1>2, <2>1, <2>2, MoreSubmissions
  <2>4. \A u \in Turns : u # t => (Open(rows', u) => Open(rows, u))
    BY <1>2, <2>1, MoreOf
  <2>5. Settled(rows', t) <=> Settled(rows, t) \/ e \in Terminal
    BY <1>2, <2>1, MoreOf
  <2>6. t # NoTurn
    BY DEF Turns, ChatAssumption
  <2>7. CASE e = "turn_submitted"
    <3>1. \A u \in Turns : u # t => ~Open(rows', u)
      <4>1. ActiveTurn(rows) = NoTurn /\ \A u \in Turns : u # NoTurn
        BY <1>2, <2>7 DEF Allowed, Admits, Turns, ChatAssumption
      <4> QED
        BY <2>4, <4>1 DEF OneOpen
    <3>2. Open(rows', t) => ActiveTurn(rows') = t
      BY <2>3, <2>7 DEF Open, ActiveTurn
    <3> QED
      BY <2>3, <2>7, <3>1, <3>2 DEF OneOpen
  <2>8. CASE e # "turn_submitted"
    <3>1. ActiveTurn(rows) = t
      BY <1>2, <2>8 DEF Allowed
    <3>2. \A u \in Turns : u # t => ~Open(rows', u)
      BY <2>4, <3>1 DEF OneOpen
    <3>3. Submissions(rows) # {} /\ rows[Max(Submissions(rows))].turn = t
      BY <2>6, <3>1 DEF ActiveTurn
    <3>4. Open(rows', t) => ActiveTurn(rows') = t
      BY <2>3, <2>8, <3>3 DEF Open, ActiveTurn
    <3> QED
      BY <2>2, <2>3, <2>8, <3>2, <3>4 DEF OneOpen
  <2> QED
    BY <2>7, <2>8
<1> QED
  BY <1>1, <1>2 DEF Grew

\* After a terminal row no turn is open.
LEMMA TerminalCloses ==
  ASSUME TypeOK, OneOpen, NEW t \in Turns, NEW e \in Terminal,
         Allowed(rows, e, t), rows' = Append(rows, Row(e, t))
  PROVE  \A u \in Turns : ~Open(rows', u)
<1>1. rows \in Seq(Rows) /\ e \in Events /\ e # "turn_submitted"
  BY DEF TypeOK, Events, Terminal
<1>2. ActiveTurn(rows) = t
  BY <1>1 DEF Allowed
<1>3. Settled(rows', t) /\ \A u \in Turns : u # t => (Open(rows', u) => Open(rows, u))
  BY <1>1, MoreOf
<1> QED
  BY <1>2, <1>3 DEF OneOpen, Open

----------------------------------------------------------------------------
(* What the operations the actions are made of change.                     *)

LEMMA Appended ==
  ASSUME TypeOK, NEW s \in Services, NEW e \in Events, NEW t \in Turns, NEW body,
         \/ Written(s, e, t, body)
         \/ Failed(s, e, t, body)
         \/ Accepts(s, e, t, body) /\ Fault /\ Write(s, e, t) /\ UNCHANGED <<torn, lost>>
  PROVE  /\ Grew(e, t) /\ rows' \in Seq(Rows) /\ known' \in [Services -> Nat]
         /\ lost \subseteq lost' /\ lost' \subseteq lost \cup {t} /\ opens' = opens
<1>1. rows \in Seq(Rows) /\ known \in [Services -> Nat] /\ Len(rows) + 1 \in Nat
  <2>1. rows \in Seq(Rows) /\ known \in [Services -> Nat]
    BY DEF TypeOK
  <2> QED
    BY <2>1, LenProperties
<1>2. Append(rows, Row(e, t)) \in Seq(Rows)
  BY <1>1, MoreRows
<1>3. CASE Written(s, e, t, body)
  BY <1>1, <1>2, <1>3 DEF Written, Accepts, Write, Grew, bounds
<1>4. CASE Failed(s, e, t, body)
  BY <1>1, <1>2, <1>4 DEF Failed, Accepts, Fault, Grew, bounds, journal
<1>5. CASE Accepts(s, e, t, body) /\ Fault /\ Write(s, e, t) /\ UNCHANGED <<torn, lost>>
  BY <1>1, <1>2, <1>5 DEF Accepts, Write, Fault, Grew
<1> QED
  BY <1>3, <1>4, <1>5

LEMMA Stopped ==
  ASSUME TypeOK, NEW t \in Turns, NEW w \in Threads, ForceStop(t, w)
  PROVE  /\ \E o \in {"confirmed", "emptied", "unconfirmed", "lost"} :
               seen' = [seen EXCEPT ![t][w] = o] /\ (o = "confirmed" => tree'[t] = "gone")
         /\ tree' = tree \/ tree' = [tree EXCEPT ![t] = "gone"]
         /\ stopped' \subseteq Turns /\ opens' = opens
<1>1. tree[t] \in {"none", "running", "left", "gone"} /\ stopped \subseteq Turns
  BY DEF TypeOK
<1>2. [tree EXCEPT ![t] = "gone"][t] = "gone"
  BY DEF TypeOK
<1> QED
  BY <1>1, <1>2 DEF ForceStop, Observe, Becomes, Fault, bounds

LEMMA StoppedTypes ==
  ASSUME TypeOK, NEW t \in Turns, NEW w \in Threads, ForceStop(t, w)
  PROVE  /\ seen' \in [Turns -> [Threads -> {"none", "confirmed", "emptied", "unconfirmed", "lost"}]]
         /\ tree' \in [Turns -> {"none", "running", "left", "gone"}]
         /\ stopped' \subseteq Turns /\ opens' = opens
<1>1. PICK o \in {"confirmed", "emptied", "unconfirmed", "lost"} :
        seen' = [seen EXCEPT ![t][w] = o]
  BY Stopped
<1> QED
  BY <1>1, Stopped DEF TypeOK

LEMMA Closed ==
  ASSUME TypeOK, NEW t \in Turns, Close(t)
  PROVE  /\ tree' = tree \/ tree' = [tree EXCEPT ![t] = "gone"]
         /\ stopped' \subseteq Turns /\ opens' = opens
  BY DEF TypeOK, Close, Becomes, Fault, bounds, os

----------------------------------------------------------------------------
(* The values, step by step.                                               *)

LEMMA TypeInit == Init => TypeOK
<1> SUFFICES ASSUME Init PROVE TypeOK
  OBVIOUS
<1>1. rows \in Seq(Rows)
  BY DEF Init
<1>2. seen \in [Turns -> [Threads -> {"none", "confirmed", "emptied", "unconfirmed", "lost"}]]
  BY DEF Init, Threads
<1> QED
  BY <1>1, <1>2 DEF Init, TypeOK

\* An ended turn's row, and the end of the turn.
LEMMA EndedTypes ==
  ASSUME TypeOK, NEW s \in Services, NEW e \in Events, NEW t \in Turns, NEW body,
         Ended(s, e, t, body)
  PROVE  /\ rows' \in Seq(Rows) /\ known' \in [Services -> Nat]
         /\ lost' \subseteq Turns /\ opens' = opens
         /\ active' \in [Services -> Turns \cup {NoTurn}]
         /\ terminalized' \in [Services -> BOOLEAN] /\ cancelling' \in [Services -> BOOLEAN]
<1>1. Written(s, e, t, body) \/ Failed(s, e, t, body)
  BY DEF Ended
<1>2. rows' \in Seq(Rows) /\ known' \in [Services -> Nat] /\ lost' \subseteq lost \cup {t} /\ opens' = opens
  BY <1>1, Appended
<1> QED
  BY <1>2 DEF Ended, Finish, memory, TypeOK

LEMMA SubmitterTypes ==
  ASSUME TypeOK, NEW t \in Turns,
         Spawn(t) \/ Unspawned(t) \/ Start(t) \/ StopStart(t) \/ SettleStart(t) \/ CloseStart(t)
  PROVE  TypeOK'
<1>1. CASE Spawn(t)
  <2>1. home[t] \in Services /\ UNCHANGED <<journal, up, home, stopped, pump, canceller, seen, lost>>
    BY <1>1 DEF Spawn, Serving
  <2>2. /\ submitter' \in [Turns -> {"off", "spawning", "unspawned", "starting", "stopping",
                                     "observed", "closing"}]
        /\ opens' = opens
    BY <1>1 DEF Spawn, TypeOK, Submits, Fault, bounds
  <2>3. tree' \in [Turns -> {"none", "running", "left", "gone"}]
    BY <1>1 DEF Spawn, TypeOK, Becomes
  <2>4. /\ active' \in [Services -> Turns \cup {NoTurn}]
        /\ terminalized' \in [Services -> BOOLEAN] /\ cancelling' \in [Services -> BOOLEAN]
    BY <1>1 DEF Spawn, TypeOK, memory
  <2> QED
    BY <2>1, <2>2, <2>3, <2>4 DEF TypeOK, journal
<1>2. CASE Unspawned(t)
  <2>1. home[t] \in Services /\ "turn_failed" \in Events
    BY <1>2 DEF Unspawned, Serving, Events, Terminal
  <2>2. rows' \in Seq(Rows) /\ known' \in [Services -> Nat] /\ lost' \subseteq lost \cup {t} /\ opens' = opens
    BY <1>2, <2>1, Appended DEF Unspawned
  <2> QED
    BY <1>2, <2>2 DEF Unspawned, TypeOK, Submits, memory, os
<1>3. CASE Start(t)
  <2>1. home[t] \in Services /\ "turn_started" \in Events
    BY <1>3 DEF Start, Serving, Events
  <2>2. rows' \in Seq(Rows) /\ known' \in [Services -> Nat] /\ lost' \subseteq lost \cup {t} /\ opens' = opens
    BY <1>3, <2>1, Appended DEF Start
  <2> QED
    BY <1>3, <2>2 DEF Start, TypeOK, Submits, Pumps, os
<1>4. CASE StopStart(t)
  <2>1. ForceStop(t, "submitter") /\ "submitter" \in Threads
    BY <1>4 DEF StopStart, Threads
  <2> QED
    BY <1>4, <2>1, StoppedTypes DEF StopStart, TypeOK, Submits, memory, journal
<1>5. CASE SettleStart(t)
  <2> DEFINE o == seen[t].submitter
             event == IF o = "confirmed" THEN "turn_failed" ELSE Uncertain
  <2>1. home[t] \in Services /\ event \in Events
    BY <1>5 DEF SettleStart, Free, Serving, Events, Terminal, Uncertain
  <2>2. Ended(home[t], event, t, Clear(event, o))
    BY <1>5 DEF SettleStart
  <2> HIDE DEF event
  <2> QED
    BY <1>5, <2>1, <2>2, EndedTypes DEF SettleStart, TypeOK, Submits, Observe, os, Threads
<1>6. CASE CloseStart(t)
  BY <1>6, Closed DEF CloseStart, TypeOK, Submits, memory, journal
<1> QED
  BY <1>1, <1>2, <1>3, <1>4, <1>5, <1>6

LEMMA CancellerTypes ==
  ASSUME TypeOK, NEW t \in Turns,
         Cancel(t) \/ StopCancel(t) \/ SettleCancel(t) \/ CloseCancel(t) \/ Exit(t)
  PROVE  TypeOK'
<1>1. CASE Cancel(t)
  <2>1. home[t] \in Services /\ "turn_cancellation_requested" \in Events
    BY <1>1 DEF Cancel, Free, Serving, Events
  <2>2. rows' \in Seq(Rows) /\ known' \in [Services -> Nat] /\ lost' \subseteq lost \cup {t} /\ opens' = opens
    BY <1>1, <2>1, Appended DEF Cancel
  <2> QED
    BY <1>1, <2>2 DEF Cancel, TypeOK, Cancels, os
<1>2. CASE StopCancel(t)
  <2>1. ForceStop(t, "canceller") /\ "canceller" \in Threads
    BY <1>2 DEF StopCancel, Threads
  <2> QED
    BY <1>2, <2>1, StoppedTypes DEF StopCancel, TypeOK, Cancels, memory, journal
<1>3. CASE SettleCancel(t)
  <2> DEFINE o == seen[t].canceller
             event == IF o = "confirmed" THEN "turn_cancelled" ELSE Uncertain
  <2>1. home[t] \in Services /\ event \in Events
    BY <1>3 DEF SettleCancel, Free, Serving, Events, Terminal, Uncertain
  <2>2. \/ UNCHANGED <<journal, memory, lost, bounds>>
        \/ Ended(home[t], event, t, Clear(event, o))
    BY <1>3 DEF SettleCancel
  <2> HIDE DEF event
  <2>3. CASE UNCHANGED <<journal, memory, lost, bounds>>
    BY <1>3, <2>3 DEF SettleCancel, TypeOK, Cancels, Observe, os, Threads, memory, journal, bounds
  <2>4. CASE Ended(home[t], event, t, Clear(event, o))
    BY <1>3, <2>1, <2>4, EndedTypes DEF SettleCancel, TypeOK, Cancels, Observe, os, Threads
  <2> QED
    BY <2>2, <2>3, <2>4
<1>4. CASE CloseCancel(t)
  BY <1>4, Closed DEF CloseCancel, TypeOK, Cancels, memory, journal
<1>5. CASE Exit(t)
  BY <1>5 DEF Exit, TypeOK, Becomes, memory, journal, threads, bounds
<1> QED
  BY <1>1, <1>2, <1>3, <1>4, <1>5

LEMMA PumpTypes ==
  ASSUME TypeOK, NEW t \in Turns,
         \/ Drain(t) \/ Overflow(t) \/ Wait(t) \/ Settle(t) \/ StopPump(t) \/ Fail(t)
         \/ ClosePump(t)
  PROVE  TypeOK'
<1>1. CASE Drain(t)
  BY <1>1 DEF Drain, TypeOK, Pumps, PumpOnly, os, memory, journal, bounds
<1>2. CASE Overflow(t)
  <2>1. ForceStop(t, "pump") /\ "pump" \in Threads
    BY <1>2 DEF Overflow, Threads
  <2>2. pump' \in {[pump EXCEPT ![t] = "failing"], [pump EXCEPT ![t] = "cut"]}
    BY <1>2 DEF Overflow, Pumps
  <2> QED
    BY <1>2, <2>1, <2>2, StoppedTypes DEF Overflow, TypeOK, PumpOnly, memory, journal
<1>3. CASE Wait(t)
  <2>1. /\ seen' \in [Turns -> [Threads -> {"none", "confirmed", "emptied", "unconfirmed", "lost"}]]
        /\ tree' \in [Turns -> {"none", "running", "left", "gone"}]
        /\ stopped' \subseteq Turns /\ opens' = opens
    <3>1. "pump" \in Threads
      BY DEF Threads
    <3>2. CASE ForceStop(t, "pump")
      BY <3>1, <3>2, StoppedTypes
    <3>3. CASE UNCHANGED os /\ opens' = opens
               /\ \E o \in {"confirmed", "unconfirmed"} : Observe(t, "pump", o)
      <4>1. PICK o \in {"confirmed", "unconfirmed"} : seen' = [seen EXCEPT ![t]["pump"] = o]
        BY <3>3 DEF Observe
      <4>2. tree' = tree /\ stopped' = stopped
        BY <3>3 DEF os
      <4> QED
        BY <3>1, <3>3, <4>1, <4>2 DEF TypeOK
    <3> QED
      BY <1>3, <3>2, <3>3 DEF Wait, Fault, bounds
  <2>2. pump' \in {[pump EXCEPT ![t] = p] : p \in {"failing", "settling cut", "settling"}}
    BY <1>3 DEF Wait, Pumps
  <2>3. pump' \in [Turns -> {"off", "running", "waiting", "cut", "settling", "settling cut",
                            "failing", "failed", "closing"}]
    BY <2>2 DEF TypeOK
  <2> QED
    BY <1>3, <2>1, <2>3 DEF Wait, TypeOK, PumpOnly, memory, journal
<1>4. CASE Settle(t)
  <2>1. home[t] \in Services /\ "pump" \in Threads
    BY <1>4 DEF Settle, Free, Serving, Threads
  <2>2. /\ rows' \in Seq(Rows) /\ known' \in [Services -> Nat]
        /\ lost' \subseteq Turns /\ opens' = opens
        /\ active' \in [Services -> Turns \cup {NoTurn}]
        /\ terminalized' \in [Services -> BOOLEAN] /\ cancelling' \in [Services -> BOOLEAN]
    <3>1. CASE UNCHANGED <<journal, lost, memory, bounds>>
      BY <3>1 DEF TypeOK, memory, journal, bounds
    <3>2. CASE \E e \in Outcomes(t) : Ended(home[t], e, t, Clear(e, seen[t].pump))
      <4>1. Outcomes(t) \subseteq Events
        BY DEF Outcomes, Uncertain, Events, Terminal
      <4> QED
        BY <2>1, <3>2, <4>1, EndedTypes
    <3> QED
      BY <1>4, <3>1, <3>2 DEF Settle, Ended
  <2>3. pump' \in {[pump EXCEPT ![t] = p] : p \in {"off", "closing", "failing"}}
    BY <1>4 DEF Settle, Pumps
  <2>4. pump' \in [Turns -> {"off", "running", "waiting", "cut", "settling", "settling cut",
                            "failing", "failed", "closing"}]
    BY <2>3 DEF TypeOK
  <2> QED
    BY <1>4, <2>1, <2>2, <2>4 DEF Settle, TypeOK, Observe, os
<1>5. CASE StopPump(t)
  <2>1. ForceStop(t, "pump") /\ "pump" \in Threads
    BY <1>5 DEF StopPump, Threads
  <2> QED
    BY <1>5, <2>1, StoppedTypes DEF StopPump, TypeOK, Pumps, PumpOnly, memory, journal
<1>6. CASE Fail(t)
  <2> DEFINE event == Background(home[t], seen[t].pump)
             body == cancelling[home[t]] \/ Clear(event, seen[t].pump)
  <2>1. home[t] \in Services /\ event \in Events
    BY <1>6 DEF Fail, Free, Serving, Background, Events, Terminal, Uncertain
  <2>2. \/ UNCHANGED <<journal, memory, lost, bounds>>
        \/ Ended(home[t], event, t, body)
    BY <1>6 DEF Fail
  <2> HIDE DEF event, body
  <2>3. CASE UNCHANGED <<journal, memory, lost, bounds>>
    BY <1>6, <2>3 DEF Fail, TypeOK, Pumps, Observe, os, Threads, memory, journal, bounds
  <2>4. CASE Ended(home[t], event, t, body)
    BY <1>6, <2>1, <2>4, EndedTypes DEF Fail, TypeOK, Pumps, Observe, os, Threads
  <2> QED
    BY <2>2, <2>3, <2>4
<1>7. CASE ClosePump(t)
  BY <1>7, Closed DEF ClosePump, TypeOK, Pumps, memory, journal
<1> QED
  BY <1>1, <1>2, <1>3, <1>4, <1>5, <1>6, <1>7

LEMMA ServiceTypes ==
  ASSUME TypeOK, OneOpen, NEW s \in Services,
         Crash(s) \/ OpenChat(s) \/ Recover(s) \/ \E t \in Turns : Submit(s, t)
  PROVE  TypeOK'
<1>0. ASSUME Ends(s), UNCHANGED <<rows, home, os, lost>>, opens' = opens
      PROVE  TypeOK'
  <2>1. known' \in [Services -> Nat] /\ up' \in [Services -> {"down", "recovering", "serving"}]
        /\ active' \in [Services -> Turns \cup {NoTurn}]
        /\ terminalized' \in [Services -> BOOLEAN] /\ cancelling' \in [Services -> BOOLEAN]
    BY <1>0 DEF Ends, TypeOK
  <2>2. /\ submitter' \in [Turns -> {"off", "spawning", "unspawned", "starting", "stopping",
                                     "observed", "closing"}]
        /\ pump' \in [Turns -> {"off", "running", "waiting", "cut", "settling", "settling cut",
                                "failing", "failed", "closing"}]
        /\ canceller' \in [Turns -> {"off", "stopping", "observed", "closing"}]
    BY <1>0 DEF Ends, TypeOK
  <2>3. seen' \in [Turns -> [Threads -> {"none", "confirmed", "emptied", "unconfirmed", "lost"}]]
    <3>1. [submitter |-> "none", pump |-> "none", canceller |-> "none"]
            \in [Threads -> {"none", "confirmed", "emptied", "unconfirmed", "lost"}]
      BY DEF Threads
    <3> QED
      BY <1>0, <3>1 DEF Ends, TypeOK
  <2> QED
    BY <1>0, <2>1, <2>2, <2>3 DEF TypeOK, os
<1>1. CASE Crash(s)
  BY <1>0, <1>1 DEF Crash, bounds
<1>2. CASE OpenChat(s)
  <2>1. Len(rows) \in Nat /\ opens' \in Nat
    <3>1. rows \in Seq(Rows) /\ opens \in Nat
      BY DEF TypeOK
    <3> QED
      BY <1>2, <3>1, LenProperties DEF OpenChat
  <2> QED
    BY <1>2, <2>1 DEF OpenChat, TypeOK, memory, os, threads
<1>3. CASE Recover(s)
  <2>1. CASE Verified /\ ActiveTurn(rows) = NoTurn /\ up' = [up EXCEPT ![s] = "serving"]
             /\ UNCHANGED <<journal, lost, memory, threads, bounds>>
    BY <1>3, <2>1 DEF Recover, TypeOK, journal, memory, threads, bounds, os
  <2>2. CASE ActiveTurn(rows) # NoTurn /\ UNCHANGED <<memory, threads>>
             /\ \/ Written(s, Uncertain, ActiveTurn(rows), TRUE)
                \/ Failed(s, Uncertain, ActiveTurn(rows), TRUE)
             /\ up' \in {[up EXCEPT ![s] = "serving"], [up EXCEPT ![s] = "down"]}
    <3>1. ActiveTurn(rows) \in Turns /\ Uncertain \in Events
      <4>1. rows \in Seq(Rows)
        BY DEF TypeOK
      <4>2. Submissions(rows) # {} => Max(Submissions(rows)) \in DOMAIN rows
        BY DEF OneOpen, Submissions
      <4> QED
        <5>1. Submissions(rows) # {} /\ ActiveTurn(rows) = rows[Max(Submissions(rows))].turn
          BY <2>2 DEF ActiveTurn
        <5>2. rows[Max(Submissions(rows))] \in Rows
          BY <4>1, <4>2, <5>1
        <5> QED
          BY <5>1, <5>2 DEF Rows, Uncertain, Events, Terminal
    <3>2. /\ rows' \in Seq(Rows) /\ known' \in [Services -> Nat]
          /\ lost' \subseteq lost \cup {ActiveTurn(rows)} /\ opens' = opens
      BY <2>2, <3>1, Appended
    <3> QED
      BY <1>3, <2>2, <3>1, <3>2 DEF Recover, TypeOK, memory, threads, os
  <2>3. CASE ~Verified /\ Ends(s) /\ UNCHANGED <<rows, torn, lost, bounds>>
    BY <1>0, <1>3, <2>3 DEF Recover, bounds
  <2> QED
    BY <1>3, <2>1, <2>2, <2>3 DEF Recover
<1>4. ASSUME NEW t \in Turns, Submit(s, t) PROVE TypeOK'
  <2>1. "turn_submitted" \in Events
    BY DEF Events
  <2>2. rows' \in Seq(Rows) /\ known' \in [Services -> Nat] /\ lost' \subseteq lost \cup {t} /\ opens' = opens
    BY <1>4, <2>1, Appended DEF Submit
  <2>3. home' \in [Turns -> Services \cup {NoService}]
    BY <1>4 DEF Submit, TypeOK
  <2>4. submitter' \in [Turns -> {"off", "spawning", "unspawned", "starting", "stopping",
                                  "observed", "closing"}]
    BY <1>4 DEF Submit, TypeOK, Submits
  <2> QED
    BY <1>4, <2>2, <2>3, <2>4 DEF Submit, TypeOK, memory, os
<1> QED
  BY <1>1, <1>2, <1>3, <1>4

----------------------------------------------------------------------------
(* A step of a turn that has its owner: what it may touch.                 *)

ThreadStep(t, e) ==
  \* the journal: at most a row of this turn, plain only once the tree is gone
  /\ Grew(e, t) /\ e # "turn_submitted"
  /\ rows' # rows /\ e \in Terminal \ {Uncertain} => tree'[t] = "gone"
  \* the turn itself
  /\ ~Unborn(t) /\ ~Unborn(t)' /\ Submitted(rows, t)
  /\ \A w \in Threads : seen'[t][w] = "confirmed" => tree'[t] = "gone"
  /\ tree[t] = "gone" => tree'[t] = "gone"
  /\ tree[t] = "none" => tree'[t] \in {"none", "gone"}
  \* every other turn, and the services
  /\ \A u \in Turns : u # t =>
       /\ tree'[u] = tree[u] /\ submitter'[u] = submitter[u] /\ pump'[u] = pump[u]
       /\ canceller'[u] = canceller[u] /\ seen'[u] = seen[u]
  /\ \A s \in Services :
       \/ active'[s] = active[s]
       \/ active'[s] = NoTurn /\ \A u \in Turns : ~Open(rows', u)
  /\ UNCHANGED <<up, home, opens>> /\ lost \subseteq lost'

\* Whatever runs for a turn, it has its row and its owner.
LEMMA Owned ==
  ASSUME GoneInv, NEW t \in Turns,
         \/ submitter[t] \in {"starting", "stopping", "observed", "closing"}
         \/ pump[t] # "off" \/ canceller[t] # "off" \/ tree[t] # "none"
         \/ \E s \in Services : active[s] = t
  PROVE  ~Unborn(t) /\ Submitted(rows, t)
  BY DEF GoneInv, NothingYet, OwnThread, Unborn

LEMMA EndedStep ==
  ASSUME TypeOK, OneOpen, NEW s \in Services, NEW e \in Terminal, NEW t \in Turns, NEW body,
         Ended(s, e, t, body)
  PROVE  /\ Grew(e, t) /\ e # "turn_submitted" /\ opens' = opens /\ lost \subseteq lost'
         /\ \A q \in Services :
              \/ active'[q] = active[q]
              \/ active'[q] = NoTurn /\ \A u \in Turns : ~Open(rows', u)
<1>1. e \in Events /\ e # "turn_submitted"
  BY DEF Events, Terminal
<1>2. CASE Written(s, e, t, body) /\ Finish(s)
  <2>1. Allowed(rows, e, t) /\ rows' = Append(rows, Row(e, t))
    BY <1>2 DEF Written, Accepts, Write
  <2>2. \A u \in Turns : ~Open(rows', u)
    BY <2>1, TerminalCloses
  <2>3. Grew(e, t) /\ opens' = opens /\ lost \subseteq lost'
    BY <1>1, <1>2, Appended
  <2> QED
    BY <1>1, <1>2, <2>2, <2>3 DEF Finish, TypeOK
<1>3. CASE Failed(s, e, t, body) /\ UNCHANGED memory
  BY <1>1, <1>3, Appended DEF memory
<1> QED
  BY <1>2, <1>3 DEF Ended

LEMMA StoppedStep ==
  ASSUME TypeOK, NEW t \in Turns, NEW v \in Threads, ForceStop(t, v),
         \A w \in Threads : seen[t][w] = "confirmed" => tree[t] = "gone"
  PROVE  /\ \A w \in Threads : seen'[t][w] = "confirmed" => tree'[t] = "gone"
         /\ tree[t] = "gone" => tree'[t] = "gone"
         /\ tree[t] = "none" => tree'[t] \in {"none", "gone"}
         /\ \A u \in Turns : u # t => tree'[u] = tree[u] /\ seen'[u] = seen[u]
         /\ opens' = opens
<1>1. PICK o \in {"confirmed", "emptied", "unconfirmed", "lost"} :
        seen' = [seen EXCEPT ![t][v] = o] /\ (o = "confirmed" => tree'[t] = "gone")
  BY Stopped
<1>2. (tree' = tree \/ tree' = [tree EXCEPT ![t] = "gone"]) /\ opens' = opens
  BY Stopped
<1>3. \A w \in Threads : seen'[t][w] = IF w = v THEN o ELSE seen[t][w]
  BY <1>1 DEF TypeOK
<1>4. \A u \in Turns : u # t => tree'[u] = tree[u] /\ seen'[u] = seen[u]
  BY <1>1, <1>2 DEF TypeOK
<1>5. /\ tree[t] = "gone" => tree'[t] = "gone"
      /\ tree[t] = "none" => tree'[t] \in {"none", "gone"}
  BY <1>2 DEF TypeOK
<1> QED
  BY <1>1, <1>2, <1>3, <1>4, <1>5

LEMMA SubmitterSteps ==
  ASSUME TypeOK, GoneInv, OneOpen, NEW t \in Turns,
         Start(t) \/ StopStart(t) \/ SettleStart(t) \/ CloseStart(t)
  PROVE  \E e \in Events : ThreadStep(t, e)
<1>0. ~Unborn(t) /\ Submitted(rows, t)
  BY Owned DEF Start, StopStart, SettleStart, CloseStart
<1>names. /\ "turn_started" \in Events \ Terminal /\ "turn_started" # "turn_submitted"
       /\ "turn_failed" \in Terminal /\ Uncertain \in Terminal /\ Terminal \subseteq Events
  BY DEF Events, Terminal, Uncertain
<1>kept. /\ \A w \in Threads : seen[t][w] = "confirmed" => tree[t] = "gone"
        /\ \A e : UNCHANGED rows => Grew(e, t)
  BY DEF GoneInv, SeenGone, Grew
<1>1. CASE Start(t)
  <2>1. home[t] \in Services
    BY <1>1 DEF Start, Serving
  <2>2. Grew("turn_started", t) /\ lost \subseteq lost' /\ opens' = opens
    BY <1>names, <1>1, <2>1, Appended DEF Start
  <2>3. /\ ~Unborn(t)'
        /\ \A u \in Turns : u # t => submitter'[u] = submitter[u] /\ pump'[u] = pump[u]
    BY <1>1 DEF Start, Submits, Pumps, Unborn, TypeOK
  <2> QED
    BY <1>0, <1>names, <1>kept, <1>1, <2>2, <2>3 DEF Start, ThreadStep, os
<1>2. CASE StopStart(t)
  <2>1. ForceStop(t, "submitter") /\ "submitter" \in Threads
    BY <1>2 DEF StopStart, Threads
  <2>2. /\ \A w \in Threads : seen'[t][w] = "confirmed" => tree'[t] = "gone"
        /\ tree[t] = "gone" => tree'[t] = "gone"
        /\ tree[t] = "none" => tree'[t] \in {"none", "gone"}
        /\ \A u \in Turns : u # t => tree'[u] = tree[u] /\ seen'[u] = seen[u]
        /\ opens' = opens
    BY <1>kept, <2>1, StoppedStep
  <2>3. ~Unborn(t)' /\ \A u \in Turns : u # t => submitter'[u] = submitter[u]
    BY <1>2 DEF StopStart, Submits, Unborn, TypeOK
  <2> QED
    BY <1>0, <1>names, <1>kept, <1>2, <2>2, <2>3 DEF StopStart, ThreadStep, journal, memory
<1>3. CASE SettleStart(t)
  <2> DEFINE o == seen[t].submitter
             event == IF o = "confirmed" THEN "turn_failed" ELSE Uncertain
  <2>1. home[t] \in Services /\ event \in Terminal /\ "submitter" \in Threads
    BY <1>3, <1>names DEF SettleStart, Free, Serving, Threads
  <2>2. Ended(home[t], event, t, Clear(event, o)) /\ tree' = tree
    BY <1>3 DEF SettleStart, os
  <2>3. event # Uncertain => tree'[t] = "gone"
    BY <1>kept, <2>1, <2>2
  <2> HIDE DEF event, o
  <2>4. /\ Grew(event, t) /\ event # "turn_submitted" /\ opens' = opens /\ lost \subseteq lost'
        /\ \A q \in Services :
             \/ active'[q] = active[q]
             \/ active'[q] = NoTurn /\ \A u \in Turns : ~Open(rows', u)
    BY <2>1, <2>2, EndedStep
  <2>5. /\ ~Unborn(t)'
        /\ \A u \in Turns : u # t => submitter'[u] = submitter[u] /\ seen'[u] = seen[u]
        /\ \A w \in Threads : seen'[t][w] = "confirmed" => seen[t][w] = "confirmed"
    BY <1>3, <2>1 DEF SettleStart, Submits, Observe, Unborn, TypeOK
  <2> QED
    BY <1>0, <1>names, <1>kept, <1>3, <2>1, <2>2, <2>3, <2>4, <2>5 DEF SettleStart, ThreadStep
<1>4. CASE CloseStart(t)
  <2>1. /\ tree' = tree \/ tree' = [tree EXCEPT ![t] = "gone"]
        /\ opens' = opens
    BY <1>4, Closed DEF CloseStart
  <2>2. ~Unborn(t)' /\ \A u \in Turns : u # t => submitter'[u] = submitter[u]
    BY <1>4 DEF CloseStart, Submits, Unborn, TypeOK
  <2> QED
    BY <1>0, <1>names, <1>kept, <1>4, <2>1, <2>2 DEF CloseStart, ThreadStep, journal, memory, TypeOK
<1> QED
  BY <1>1, <1>2, <1>3, <1>4

LEMMA CancellerSteps ==
  ASSUME TypeOK, GoneInv, OneOpen, NEW t \in Turns,
         Cancel(t) \/ StopCancel(t) \/ SettleCancel(t) \/ CloseCancel(t) \/ Exit(t)
  PROVE  \E e \in Events : ThreadStep(t, e)
<1>0. ~Unborn(t) /\ Submitted(rows, t)
  BY Owned DEF Cancel, Free, Serving, StopCancel, SettleCancel, CloseCancel, Exit
<1>names. /\ "turn_cancellation_requested" \in Events \ Terminal
       /\ "turn_cancellation_requested" # "turn_submitted"
       /\ "turn_cancelled" \in Terminal /\ Uncertain \in Terminal /\ Terminal \subseteq Events
  BY DEF Events, Terminal, Uncertain
<1>kept. /\ \A w \in Threads : seen[t][w] = "confirmed" => tree[t] = "gone"
        /\ \A e : UNCHANGED rows => Grew(e, t)
  BY DEF GoneInv, SeenGone, Grew
<1>1. CASE Cancel(t)
  <2>1. home[t] \in Services
    BY <1>1 DEF Cancel, Free, Serving
  <2>2. Grew("turn_cancellation_requested", t) /\ lost \subseteq lost' /\ opens' = opens
    BY <1>names, <1>1, <2>1, Appended DEF Cancel
  <2>3. \A u \in Turns : u # t => canceller'[u] = canceller[u]
    BY <1>1 DEF Cancel, Cancels, TypeOK
  <2> QED
    BY <1>0, <1>names, <1>kept, <1>1, <2>2, <2>3 DEF Cancel, ThreadStep, os, Unborn
<1>2. CASE StopCancel(t)
  <2>1. ForceStop(t, "canceller") /\ "canceller" \in Threads
    BY <1>2 DEF StopCancel, Threads
  <2>2. /\ \A w \in Threads : seen'[t][w] = "confirmed" => tree'[t] = "gone"
        /\ tree[t] = "gone" => tree'[t] = "gone"
        /\ tree[t] = "none" => tree'[t] \in {"none", "gone"}
        /\ \A u \in Turns : u # t => tree'[u] = tree[u] /\ seen'[u] = seen[u]
        /\ opens' = opens
    BY <1>kept, <2>1, StoppedStep
  <2>3. \A u \in Turns : u # t => canceller'[u] = canceller[u]
    BY <1>2 DEF StopCancel, Cancels, TypeOK
  <2> QED
    BY <1>0, <1>names, <1>kept, <1>2, <2>2, <2>3 DEF StopCancel, ThreadStep, journal, memory, Unborn
<1>3. CASE SettleCancel(t)
  <2> DEFINE o == seen[t].canceller
             event == IF o = "confirmed" THEN "turn_cancelled" ELSE Uncertain
  <2>1. home[t] \in Services /\ event \in Terminal /\ "canceller" \in Threads
    BY <1>3, <1>names DEF SettleCancel, Free, Serving, Threads
  <2>2. /\ \/ UNCHANGED <<journal, memory, lost, bounds>>
           \/ Ended(home[t], event, t, Clear(event, o))
        /\ tree' = tree
    BY <1>3 DEF SettleCancel, os
  <2>3. event # Uncertain => tree'[t] = "gone"
    BY <1>kept, <2>1, <2>2
  <2> HIDE DEF event, o
  <2>4. /\ Grew(event, t) /\ event # "turn_submitted" /\ opens' = opens /\ lost \subseteq lost'
        /\ \A q \in Services :
             \/ active'[q] = active[q]
             \/ active'[q] = NoTurn /\ \A u \in Turns : ~Open(rows', u)
    <3>1. CASE UNCHANGED <<journal, memory, lost, bounds>>
      BY <1>kept, <2>1, <3>1 DEF journal, memory, bounds, Terminal
    <3>2. CASE Ended(home[t], event, t, Clear(event, o))
      BY <2>1, <3>2, EndedStep
    <3> QED
      BY <2>2, <3>1, <3>2
  <2>5. /\ \A u \in Turns : u # t => canceller'[u] = canceller[u] /\ seen'[u] = seen[u]
        /\ \A w \in Threads : seen'[t][w] = "confirmed" => seen[t][w] = "confirmed"
    BY <1>3, <2>1 DEF SettleCancel, Cancels, Observe, TypeOK
  <2> QED
    BY <1>0, <1>names, <1>kept, <1>3, <2>1, <2>2, <2>3, <2>4, <2>5 DEF SettleCancel, ThreadStep, Unborn
<1>4. CASE CloseCancel(t)
  <2>1. /\ tree' = tree \/ tree' = [tree EXCEPT ![t] = "gone"]
        /\ opens' = opens
    BY <1>4, Closed DEF CloseCancel
  <2>2. \A u \in Turns : u # t => canceller'[u] = canceller[u]
    BY <1>4 DEF CloseCancel, Cancels, TypeOK
  <2> QED
    BY <1>0, <1>names, <1>kept, <1>4, <2>1, <2>2 DEF CloseCancel, ThreadStep, journal, memory, TypeOK, Unborn
<1>5. CASE Exit(t)
  <2>1. /\ \A u \in Turns : u # t => tree'[u] = tree[u]
        /\ tree[t] \notin {"none", "gone"}
    BY <1>5 DEF Exit, Becomes, TypeOK
  <2> QED
    BY <1>0, <1>names, <1>kept, <1>5, <2>1
       DEF Exit, ThreadStep, journal, memory, threads, bounds, Unborn
<1> QED
  BY <1>1, <1>2, <1>3, <1>4, <1>5

LEMMA PumpSteps ==
  ASSUME TypeOK, GoneInv, OneOpen, NEW t \in Turns,
         \/ Drain(t) \/ Overflow(t) \/ Wait(t) \/ Settle(t) \/ StopPump(t) \/ Fail(t)
         \/ ClosePump(t)
  PROVE  \E e \in Events : ThreadStep(t, e)
<1>0. ~Unborn(t) /\ Submitted(rows, t)
  BY Owned DEF Drain, Overflow, Wait, Settle, StopPump, Fail, ClosePump
<1>names. /\ Uncertain \in Terminal /\ Terminal \subseteq Events /\ "turn_submitted" \notin Terminal
       /\ "pump" \in Threads
  BY DEF Events, Terminal, Uncertain, Threads
<1>kept. /\ \A w \in Threads : seen[t][w] = "confirmed" => tree[t] = "gone"
        /\ \A e : UNCHANGED rows => Grew(e, t)
  BY DEF GoneInv, SeenGone, Grew
<1>1. ASSUME ForceStop(t, "pump"), UNCHANGED PumpOnly,
             \A u \in Turns : u # t => pump'[u] = pump[u]
      PROVE  ThreadStep(t, Uncertain)
  <2>1. /\ \A w \in Threads : seen'[t][w] = "confirmed" => tree'[t] = "gone"
        /\ tree[t] = "gone" => tree'[t] = "gone"
        /\ tree[t] = "none" => tree'[t] \in {"none", "gone"}
        /\ \A u \in Turns : u # t => tree'[u] = tree[u] /\ seen'[u] = seen[u]
        /\ opens' = opens
    BY <1>names, <1>kept, <1>1, StoppedStep
  <2> QED
    BY <1>0, <1>names, <1>kept, <1>1, <2>1 DEF PumpOnly, ThreadStep, journal, memory, Unborn
<1>2. CASE Drain(t)
  <2>1. \A u \in Turns : u # t => pump'[u] = pump[u]
    BY <1>2 DEF Drain, Pumps, TypeOK
  <2> QED
    BY <1>0, <1>names, <1>kept, <1>2, <2>1
       DEF Drain, ThreadStep, PumpOnly, journal, memory, os, bounds, Unborn
<1>3. CASE Overflow(t)
  <2>1. \A u \in Turns : u # t => pump'[u] = pump[u]
    BY <1>3 DEF Overflow, Pumps, TypeOK
  <2> QED
    BY <1>names, <1>1, <1>3, <2>1 DEF Overflow
<1>4. CASE Wait(t)
  <2>1. UNCHANGED PumpOnly /\ \A u \in Turns : u # t => pump'[u] = pump[u]
    BY <1>4 DEF Wait, Pumps, TypeOK
  <2>2. CASE ForceStop(t, "pump")
    BY <1>names, <1>1, <2>1, <2>2
  <2>3. CASE UNCHANGED os /\ opens' = opens
             /\ \E o \in {"confirmed", "unconfirmed"} :
                  Observe(t, "pump", o) /\ (o = "confirmed" => tree[t] = "gone")
    <3>1. /\ \A u \in Turns : u # t => seen'[u] = seen[u]
          /\ \A w \in Threads : seen'[t][w] = "confirmed" => tree[t] = "gone"
      <4>1. PICK o \in {"confirmed", "unconfirmed"} :
              seen' = [seen EXCEPT ![t]["pump"] = o] /\ (o = "confirmed" => tree[t] = "gone")
        BY <2>3 DEF Observe
      <4>2. \A w \in Threads : seen'[t][w] = IF w = "pump" THEN o ELSE seen[t][w]
        BY <1>names, <4>1 DEF TypeOK
      <4> QED
        BY <1>kept, <4>1, <4>2 DEF TypeOK
    <3> QED
      BY <1>0, <1>names, <1>kept, <2>1, <2>3, <3>1
         DEF ThreadStep, PumpOnly, journal, memory, os, Unborn
  <2> QED
    BY <1>4, <2>2, <2>3 DEF Wait, Fault, bounds
<1>5. CASE Settle(t)
  <2>1. home[t] \in Services
    BY <1>5 DEF Settle, Free, Serving
  <2>2. /\ \A u \in Turns : u # t => pump'[u] = pump[u] /\ seen'[u] = seen[u]
        /\ \A w \in Threads : seen'[t][w] = "confirmed" => seen[t][w] = "confirmed"
        /\ UNCHANGED <<up, home, tree, submitter, canceller>>
    BY <1>5, <1>names DEF Settle, Pumps, Observe, TypeOK, os
  <2>3. CASE UNCHANGED <<journal, lost, memory, bounds>>
    BY <1>0, <1>names, <1>kept, <2>2, <2>3 DEF ThreadStep, journal, memory, bounds, Unborn
  <2>4. CASE \E e \in Outcomes(t) : Ended(home[t], e, t, Clear(e, seen[t].pump))
    <3>1. PICK e \in Outcomes(t) : Ended(home[t], e, t, Clear(e, seen[t].pump))
      BY <2>4
    <3>2. e \in Terminal /\ (e # Uncertain => tree[t] = "gone")
      BY <1>names, <1>kept, <3>1 DEF Outcomes, Terminal
    <3>3. /\ Grew(e, t) /\ e # "turn_submitted" /\ opens' = opens /\ lost \subseteq lost'
          /\ \A q \in Services :
               \/ active'[q] = active[q]
               \/ active'[q] = NoTurn /\ \A u \in Turns : ~Open(rows', u)
      BY <2>1, <3>1, <3>2, EndedStep
    <3> QED
      BY <1>0, <1>names, <1>kept, <2>2, <3>2, <3>3 DEF ThreadStep, Unborn
  <2> QED
    BY <1>5, <2>3, <2>4 DEF Settle, Ended
<1>6. CASE StopPump(t)
  <2>1. \A u \in Turns : u # t => pump'[u] = pump[u]
    BY <1>6 DEF StopPump, Pumps, TypeOK
  <2> QED
    BY <1>names, <1>1, <1>6, <2>1 DEF StopPump
<1>7. CASE Fail(t)
  <2> DEFINE event == Background(home[t], seen[t].pump)
             body == cancelling[home[t]] \/ Clear(event, seen[t].pump)
  <2>1. home[t] \in Services /\ event \in Terminal
    BY <1>7 DEF Fail, Free, Serving, Background, Terminal, Uncertain
  <2>2. event # Uncertain => tree[t] = "gone"
    BY <1>names, <1>kept DEF Background
  <2>3. \/ UNCHANGED <<journal, memory, lost, bounds>>
        \/ Ended(home[t], event, t, body)
    BY <1>7 DEF Fail
  <2> HIDE DEF event, body
  <2>4. /\ Grew(event, t) /\ event # "turn_submitted" /\ opens' = opens /\ lost \subseteq lost'
        /\ \A q \in Services :
             \/ active'[q] = active[q]
             \/ active'[q] = NoTurn /\ \A u \in Turns : ~Open(rows', u)
    <3>1. CASE UNCHANGED <<journal, memory, lost, bounds>>
      BY <1>names, <1>kept, <2>1, <3>1 DEF journal, memory, bounds
    <3>2. CASE Ended(home[t], event, t, body)
      BY <2>1, <3>2, EndedStep
    <3> QED
      BY <2>3, <3>1, <3>2
  <2>5. /\ \A u \in Turns : u # t => pump'[u] = pump[u] /\ seen'[u] = seen[u]
        /\ \A w \in Threads : seen'[t][w] = "confirmed" => seen[t][w] = "confirmed"
        /\ UNCHANGED <<up, home, tree, submitter, canceller>>
    BY <1>7, <1>names DEF Fail, Pumps, Observe, TypeOK, os
  <2> QED
    BY <1>0, <1>names, <1>kept, <2>1, <2>2, <2>4, <2>5 DEF ThreadStep, Unborn
<1>8. CASE ClosePump(t)
  <2>1. /\ tree' = tree \/ tree' = [tree EXCEPT ![t] = "gone"]
        /\ opens' = opens
    BY <1>8, Closed DEF ClosePump
  <2>2. \A u \in Turns : u # t => pump'[u] = pump[u]
    BY <1>8 DEF ClosePump, Pumps, TypeOK
  <2> QED
    <3>1. /\ \A u \in Turns : u # t => tree'[u] = tree[u]
          /\ tree'[t] = tree[t] \/ tree'[t] = "gone"
      BY <2>1 DEF TypeOK
    <3> QED
      BY <1>0, <1>names, <1>kept, <1>8, <2>1, <2>2, <3>1
         DEF ClosePump, ThreadStep, journal, memory, Unborn
<1> QED
  BY <1>2, <1>3, <1>4, <1>5, <1>6, <1>7, <1>8

----------------------------------------------------------------------------
(* A turn that ended has no process.                                       *)

\* A row more: whose it is, and whose it is not.
LEMMA GrewRows ==
  ASSUME TypeOK, NEW e \in Events, NEW t \in Turns, Grew(e, t)
  PROVE  /\ \A u \in Turns : Submitted(rows, u) => Submitted(rows', u)
         /\ \A u \in Turns : u # t => (Submitted(rows', u) <=> Submitted(rows, u))
         /\ \A u \in Turns : u # t => (Open(rows', u) <=> Open(rows, u))
         /\ Submitted(rows, t) => (Open(rows', t) => Open(rows, t))
         /\ \A i \in DOMAIN rows' :
              \/ i \in DOMAIN rows /\ rows'[i] = rows[i]
              \/ rows' # rows /\ rows'[i].event = e /\ rows'[i].turn = t
<1>1. CASE rows' = rows
  BY <1>1
<1>2. CASE rows' = Append(rows, Row(e, t))
  <2>1. rows \in Seq(Rows)
    BY DEF TypeOK
  <2>2. \A u \in Turns : u # t => /\ Submitted(rows', u) <=> Submitted(rows, u)
                                  /\ Open(rows', u) <=> Open(rows, u)
    BY <1>2, <2>1, MoreOf
  <2>3. Submitted(rows', t) /\ (Settled(rows, t) => Settled(rows', t))
    BY <1>2, <2>1, MoreOf
  <2>4. /\ DOMAIN rows = 1..Len(rows) /\ Len(rows) \in Nat
        /\ DOMAIN rows' = DOMAIN rows \cup {Len(rows) + 1}
        /\ rows'[Len(rows) + 1].event = e /\ rows'[Len(rows) + 1].turn = t
        /\ \A i \in DOMAIN rows : rows'[i] = rows[i]
    BY <1>2, <2>1, MoreRows
  <2>5. rows' # rows
    <3>1. Len(rows) + 1 \in DOMAIN rows' /\ Len(rows) + 1 \notin DOMAIN rows
      BY <2>4
    <3> QED
      BY <3>1
  <2> QED
    BY <2>2, <2>3, <2>4, <2>5 DEF Open
<1> QED
  BY <1>1, <1>2 DEF Grew

LEMMA ThreadGone ==
  ASSUME TypeOK, TypeOK', GoneInv, NEW e \in Events, NEW t \in Turns, ThreadStep(t, e)
  PROVE  GoneInv'
<1>1. Grew(e, t) /\ ~Unborn(t) /\ ~Unborn(t)' /\ Submitted(rows, t)
  BY DEF ThreadStep
<1>2. /\ \A u \in Turns : Submitted(rows, u) => Submitted(rows', u)
      /\ \A u \in Turns : u # t => (Submitted(rows', u) <=> Submitted(rows, u))
      /\ \A i \in DOMAIN rows' :
           \/ i \in DOMAIN rows /\ rows'[i] = rows[i]
           \/ rows' # rows /\ rows'[i].event = e /\ rows'[i].turn = t
  BY <1>1, GrewRows
<1>3. SeenGone'
  BY DEF SeenGone, GoneInv, ThreadStep
<1>4. NothingYet'
  <2> SUFFICES ASSUME NEW u \in Turns, (Unborn(u) \/ ~Submitted(rows, u))'
               PROVE  (/\ tree[u] = "none" /\ pump[u] = "off" /\ canceller[u] = "off"
                       /\ \A s \in Services : active[s] # u)'
    BY DEF NothingYet
  <2>1. u # t /\ (Unborn(u) \/ ~Submitted(rows, u))
    BY <1>1, <1>2 DEF ThreadStep, Unborn
  <2>2. /\ tree[u] = "none" /\ pump[u] = "off" /\ canceller[u] = "off"
        /\ \A s \in Services : active[s] # u
    BY <2>1 DEF GoneInv, NothingYet
  <2>3. u # NoTurn
    BY ChatAssumption DEF Turns
  <2> QED
    BY <2>1, <2>2, <2>3 DEF ThreadStep
<1>5. OwnThread'
  BY <1>1, <1>2 DEF GoneInv, OwnThread, ThreadStep
<1>6. EndedGone'
  <2> SUFFICES ASSUME NEW i \in DOMAIN rows', rows'[i].event \in Terminal \ {Uncertain}
               PROVE  LET u == rows'[i].turn
                      IN tree'[u] = "gone" \/ (tree'[u] = "none" /\ submitter'[u] # "spawning")
    BY DEF EndedGone, Terminal, Uncertain
  <2>1. CASE i \in DOMAIN rows /\ rows'[i] = rows[i]
    <3>1. rows[i].turn \in Turns
      BY <2>1, RowTurn DEF TypeOK
    <3>2. LET u == rows[i].turn
          IN tree[u] = "gone" \/ (tree[u] = "none" /\ submitter[u] # "spawning")
      BY <2>1 DEF GoneInv, EndedGone
    <3> QED
      BY <1>1, <2>1, <3>1, <3>2 DEF ThreadStep, Unborn
  <2>2. CASE rows' # rows /\ rows'[i].event = e /\ rows'[i].turn = t
    BY <2>2 DEF ThreadStep
  <2> QED
    BY <1>2, <2>1, <2>2
<1> QED
  BY <1>3, <1>4, <1>5, <1>6 DEF GoneInv

\* A submission, and what its thread does before there is an owner.
LEMMA FirstGone ==
  ASSUME TypeOK, TypeOK', GoneInv, NEW t \in Turns,
         Spawn(t) \/ Unspawned(t) \/ \E s \in Services : Submit(s, t)
  PROVE  GoneInv'
<1>1. CASE Spawn(t)
  <2>1. /\ submitter[t] = "spawning" /\ Submitted(rows, t) /\ tree[t] = "none"
        /\ rows' = rows /\ seen' = seen /\ pump' = pump /\ canceller' = canceller
    BY <1>1 DEF Spawn, GoneInv, NothingYet, OwnThread, Unborn, journal
  <2>0. \/ submitter' = [submitter EXCEPT ![t] = "starting"]
           /\ tree' = [tree EXCEPT ![t] = "running"]
        \/ submitter' = [submitter EXCEPT ![t] = "unspawned"]
           /\ tree' = tree /\ active' = active
    BY <1>1 DEF Spawn, Submits, Becomes, memory
  <2>domains. DOMAIN submitter = Turns /\ DOMAIN tree = Turns
    BY DEF TypeOK
  <2>2. \A u \in Turns : u # t => tree'[u] = tree[u] /\ submitter'[u] = submitter[u]
    BY <2>0, <2>domains
  <2>3. \/ submitter'[t] = "starting"
        \/ submitter'[t] = "unspawned" /\ tree' = tree /\ active' = active
    BY <2>0, <2>domains
  <2>4. \A s \in Services : active'[s] # active[s] => active'[s] = t
    BY <1>1 DEF Spawn, memory, TypeOK
  <2>5. SeenGone'
    BY <2>1, <2>2 DEF GoneInv, SeenGone
  <2>6. NothingYet'
    BY <2>1, <2>2, <2>3, <2>4 DEF GoneInv, NothingYet, Unborn
  <2>7. OwnThread'
    BY <2>1, <2>2 DEF GoneInv, OwnThread
  <2>8. EndedGone'
    <3> SUFFICES ASSUME NEW i \in DOMAIN rows, rows[i].event \in Terminal \ {Uncertain}
                 PROVE  LET u == rows[i].turn
                        IN tree'[u] = "gone" \/ (tree'[u] = "none" /\ submitter'[u] # "spawning")
      BY <2>1 DEF EndedGone, Terminal, Uncertain
    <3>1. rows[i].turn \in Turns
      BY RowTurn DEF TypeOK
    <3>2. LET u == rows[i].turn
          IN tree[u] = "gone" \/ (tree[u] = "none" /\ submitter[u] # "spawning")
      BY DEF GoneInv, EndedGone
    <3>3. rows[i].turn # t
      BY <2>1, <3>2
    <3> QED
      BY <2>2, <3>1, <3>2, <3>3
  <2> QED
    BY <2>5, <2>6, <2>7, <2>8 DEF GoneInv
<1>2. CASE Unspawned(t)
  <2>1. /\ submitter[t] = "unspawned" /\ Submitted(rows, t) /\ tree[t] = "none"
        /\ tree' = tree /\ seen' = seen /\ pump' = pump /\ canceller' = canceller
        /\ active' = active
    BY <1>2 DEF Unspawned, GoneInv, NothingYet, OwnThread, Unborn, os, memory
  <2>2. submitter'[t] = "off" /\ \A u \in Turns : u # t => submitter'[u] = submitter[u]
    <3>1. submitter' = [submitter EXCEPT ![t] = "off"] /\ DOMAIN submitter = Turns
      BY <1>2 DEF Unspawned, Submits, TypeOK
    <3> QED
      BY <3>1
  <2>3. "turn_failed" \in Events /\ home[t] \in Services
    BY <1>2 DEF Unspawned, Serving, Events, Terminal
  <2>4. Grew("turn_failed", t)
    BY <1>2, <2>3, Appended DEF Unspawned
  <2>5. /\ \A u \in Turns : Submitted(rows, u) => Submitted(rows', u)
        /\ \A u \in Turns : u # t => (Submitted(rows', u) <=> Submitted(rows, u))
        /\ \A i \in DOMAIN rows' :
             \/ i \in DOMAIN rows /\ rows'[i] = rows[i]
             \/ rows'[i].turn = t
    BY <2>3, <2>4, GrewRows
  <2>6. SeenGone'
    BY <2>1 DEF GoneInv, SeenGone
  <2>7. NothingYet'
    BY <2>1, <2>2, <2>5 DEF GoneInv, NothingYet, Unborn
  <2>8. OwnThread'
    BY <2>1, <2>2, <2>5 DEF GoneInv, OwnThread
  <2>9. EndedGone'
    <3> SUFFICES ASSUME NEW i \in DOMAIN rows', rows'[i].event \in Terminal \ {Uncertain}
                 PROVE  LET u == rows'[i].turn
                        IN tree'[u] = "gone" \/ (tree'[u] = "none" /\ submitter'[u] # "spawning")
      BY DEF EndedGone, Terminal, Uncertain
    <3>1. CASE rows'[i].turn = t
      BY <2>1, <2>2, <3>1
    <3>2. CASE i \in DOMAIN rows /\ rows'[i] = rows[i] /\ rows[i].turn # t
      <4>1. rows[i].turn \in Turns
        BY <3>2, RowTurn DEF TypeOK
      <4> QED
        BY <2>1, <2>2, <3>2, <4>1 DEF GoneInv, EndedGone
    <3> QED
      BY <2>5, <3>1, <3>2
  <2> QED
    BY <2>6, <2>7, <2>8, <2>9 DEF GoneInv
<1>3. ASSUME NEW s \in Services, Submit(s, t) PROVE GoneInv'
  <2>1. /\ ~Submitted(rows, t) /\ submitter[t] = "off" /\ tree[t] = "none"
        /\ tree' = tree /\ seen' = seen /\ pump' = pump /\ canceller' = canceller
        /\ active' = active
    BY <1>3 DEF Submit, GoneInv, NothingYet, OwnThread, os, memory
  <2>2. \A u \in Turns : u # t => submitter'[u] = submitter[u]
    <3>1. submitter' = submitter \/ submitter' = [submitter EXCEPT ![t] = "spawning"]
      BY <1>3 DEF Submit, Submits
    <3>2. DOMAIN submitter = Turns
      BY DEF TypeOK
    <3> QED
      BY <3>1, <3>2
  <2>3. "turn_submitted" \in Events \ Terminal
    BY DEF Events, Terminal
  <2>4. Grew("turn_submitted", t)
    BY <1>3, <2>3, Appended DEF Submit
  <2>5. /\ \A u \in Turns : u # t => (Submitted(rows', u) <=> Submitted(rows, u))
        /\ \A i \in DOMAIN rows' :
             \/ i \in DOMAIN rows /\ rows'[i] = rows[i]
             \/ rows'[i].event = "turn_submitted"
    BY <2>3, <2>4, GrewRows
  <2>6. submitter' # submitter => Submitted(rows', t)
    <3>1. rows \in Seq(Rows)
      BY DEF TypeOK
    <3>2. CASE Written(s, "turn_submitted", t, TRUE)
      <4>1. rows' = Append(rows, Row("turn_submitted", t))
        BY <3>2 DEF Written, Write
      <4> QED
        BY <2>3, <3>1, <4>1, MoreOf
    <3> QED
      BY <1>3, <3>2 DEF Submit
  <2>7. SeenGone'
    BY <2>1 DEF GoneInv, SeenGone
  <2>8. NothingYet'
    BY <2>1, <2>2, <2>5 DEF GoneInv, NothingYet, Unborn
  <2>9. OwnThread'
    BY <2>1, <2>2, <2>5, <2>6 DEF GoneInv, OwnThread
  <2>10. EndedGone'
    <3> SUFFICES ASSUME NEW i \in DOMAIN rows', rows'[i].event \in Terminal \ {Uncertain}
                 PROVE  LET u == rows'[i].turn
                        IN tree'[u] = "gone" \/ (tree'[u] = "none" /\ submitter'[u] # "spawning")
      BY DEF EndedGone, Terminal, Uncertain
    <3>1. i \in DOMAIN rows /\ rows'[i] = rows[i]
      BY <2>3, <2>5
    <3>2. rows[i].turn \in Turns /\ rows[i].turn # t
      <4>1. rows[i].turn \in Turns
        BY <3>1, RowTurn DEF TypeOK
      <4> QED
        BY <2>1, <3>1, <4>1 DEF Submitted, Of
    <3> QED
      BY <2>1, <2>2, <3>1, <3>2 DEF GoneInv, EndedGone
  <2> QED
    BY <2>7, <2>8, <2>9, <2>10 DEF GoneInv
<1> QED
  BY <1>1, <1>2, <1>3

\* A service ends, opens or recovers: threads stop, trees and plain rows stay.
LEMMA RecoveredTurn ==
  ASSUME TypeOK, OneOpen, ActiveTurn(rows) # NoTurn
  PROVE  ActiveTurn(rows) \in Turns /\ Submitted(rows, ActiveTurn(rows))
<1>1. Submissions(rows) # {} /\ ActiveTurn(rows) = rows[Max(Submissions(rows))].turn
  BY DEF ActiveTurn
<1>2. Max(Submissions(rows)) \in DOMAIN rows
  BY <1>1 DEF OneOpen, Submissions
<1>3. rows[Max(Submissions(rows))].turn \in Turns
  BY <1>2, RowTurn DEF TypeOK
<1> QED
  BY <1>1, <1>2, <1>3 DEF Submitted, Of

LEMMA EndsGone ==
  ASSUME TypeOK, TypeOK', GoneInv, NEW s \in Services, Ends(s), UNCHANGED <<rows, tree>>
  PROVE  GoneInv'
<1>1. \A t \in Turns : /\ submitter'[t] \in {"off", submitter[t]}
                       /\ pump'[t] \in {"off", pump[t]} /\ canceller'[t] \in {"off", canceller[t]}
  BY DEF Ends
<1>2. \A t \in Turns : \A w \in Threads : seen'[t][w] = "confirmed" => seen[t][w] = "confirmed"
  <2> SUFFICES ASSUME NEW t \in Turns, NEW w \in Threads, seen'[t][w] = "confirmed"
               PROVE  seen[t][w] = "confirmed"
    OBVIOUS
  <2>1. CASE home[t] = s
    <3>1. seen'[t] = [submitter |-> "none", pump |-> "none", canceller |-> "none"]
      BY <2>1 DEF Ends
    <3> QED
      BY <3>1 DEF Threads
  <2>2. CASE home[t] # s
    <3>1. seen'[t] = seen[t]
      BY <2>2 DEF Ends
    <3> QED
      BY <3>1
  <2> QED
    BY <2>1, <2>2
<1>3. \A q \in Services : active'[q] \in {active[q], NoTurn}
  <2>1. active' = [active EXCEPT ![s] = NoTurn] /\ DOMAIN active = Services
    BY DEF Ends, TypeOK
  <2> QED
    BY <2>1
<1>4. SeenGone'
  BY <1>2 DEF GoneInv, SeenGone
<1>5. NothingYet'
  <2>1. \A t \in Turns : t # NoTurn
    BY ChatAssumption DEF Turns
  <2> QED
    BY <1>1, <1>3, <2>1 DEF GoneInv, NothingYet, Unborn
<1>6. OwnThread'
  BY <1>1 DEF GoneInv, OwnThread
<1>7. EndedGone'
  <2> SUFFICES ASSUME NEW i \in DOMAIN rows, rows[i].event \in Terminal \ {Uncertain}
               PROVE  LET u == rows[i].turn
                      IN tree[u] = "gone" \/ (tree[u] = "none" /\ submitter'[u] # "spawning")
    BY DEF EndedGone, Terminal, Uncertain
  <2>1. rows[i].turn \in Turns
    BY RowTurn DEF TypeOK
  <2> QED
    BY <1>1, <2>1 DEF GoneInv, EndedGone
<1> QED
  BY <1>4, <1>5, <1>6, <1>7 DEF GoneInv

LEMMA ServiceGone ==
  ASSUME TypeOK, TypeOK', GoneInv, OneOpen, NEW s \in Services,
         Crash(s) \/ OpenChat(s) \/ Recover(s)
  PROVE  GoneInv'
<1>1. CASE Crash(s)
  BY <1>1, EndsGone DEF Crash, os
<1>2. CASE UNCHANGED <<rows, memory, tree, threads>>
  BY <1>2 DEF memory, threads, GoneInv, SeenGone, NothingYet, OwnThread, EndedGone,
              Unborn, Submitted, Of
<1>3. CASE Recover(s)
  <2>1. CASE Verified /\ ActiveTurn(rows) = NoTurn /\ up' = [up EXCEPT ![s] = "serving"]
             /\ UNCHANGED <<journal, lost, memory, threads, bounds>>
    BY <1>2, <1>3, <2>1 DEF Recover, journal, os
  <2>2. CASE ActiveTurn(rows) # NoTurn /\ UNCHANGED <<memory, threads>>
             /\ \/ Written(s, Uncertain, ActiveTurn(rows), TRUE)
                \/ Failed(s, Uncertain, ActiveTurn(rows), TRUE)
    <3> DEFINE t == ActiveTurn(rows)
    <3>1. t \in Turns /\ Submitted(rows, t) /\ Uncertain \in Events
      BY <2>2, RecoveredTurn DEF Uncertain, Events, Terminal
    <3> HIDE DEF t
    <3>2. Grew(Uncertain, t)
      BY <2>2, <3>1, Appended DEF t
    <3>3. /\ \A u \in Turns : u # t => (Submitted(rows', u) <=> Submitted(rows, u))
          /\ \A u \in Turns : Submitted(rows, u) => Submitted(rows', u)
          /\ \A i \in DOMAIN rows' :
               \/ i \in DOMAIN rows /\ rows'[i] = rows[i]
               \/ rows'[i].event = Uncertain
      BY <3>1, <3>2, GrewRows
    <3>4. UNCHANGED <<active, tree, submitter, pump, canceller, seen>>
      BY <1>3, <2>2 DEF Recover, memory, threads, os
    <3> HIDE DEF t
    <3>5. SeenGone' /\ NothingYet' /\ OwnThread'
      BY <3>1, <3>3, <3>4 DEF GoneInv, SeenGone, NothingYet, OwnThread, Unborn
    <3>6. EndedGone'
      BY <3>3, <3>4 DEF GoneInv, EndedGone
    <3> QED
      BY <3>5, <3>6 DEF GoneInv
  <2>3. CASE ~Verified /\ Ends(s) /\ UNCHANGED <<rows, torn, lost, bounds>>
    BY <1>3, <2>3, EndsGone DEF Recover, os
  <2> QED
    BY <1>3, <2>1, <2>2, <2>3 DEF Recover
<1>4. CASE OpenChat(s)
  BY <1>2, <1>4 DEF OpenChat, os
<1> QED
  BY <1>1, <1>3, <1>4

----------------------------------------------------------------------------
(* A service does not forget its turn.                                     *)

LEMMA ThreadOpen ==
  ASSUME TypeOK, TypeOK', OpenInv, NEW e \in Events, NEW t \in Turns, ThreadStep(t, e)
  PROVE  OpenInv'
<1>1. /\ Grew(e, t) /\ ~Unborn(t) /\ ~Unborn(t)' /\ Submitted(rows, t)
      /\ UNCHANGED <<up, home, opens>> /\ lost \subseteq lost'
  BY DEF ThreadStep
<1>2. \A u \in Turns : Open(rows', u) => Open(rows, u)
  BY <1>1, GrewRows
<1>3. \A u \in Turns : Unborn(u)' <=> Unborn(u)
  BY <1>1 DEF ThreadStep, Unborn
<1>4. OneOpen'
  BY <1>1, OneOpenStep DEF OpenInv
<1>5. OpenedOnce'
  BY <1>1 DEF OpenInv, OpenedOnce
<1>6. Held'
  BY <1>1, <1>2, <1>3 DEF OpenInv, Held
<1>7. NoForgottenTurn'
  <2> SUFFICES ASSUME NEW u \in Turns, Open(rows', u), u \notin lost', Serving(home[u])'
               PROVE  active'[home'[u]] = u \/ Unborn(u)'
    BY DEF NoForgottenTurn, Unborn
  <2>1. Serving(home[u]) /\ home[u] \in Services
    BY <1>1 DEF Serving
  <2>2. active[home[u]] = u \/ Unborn(u)
    BY <1>1, <1>2, <2>1 DEF OpenInv, NoForgottenTurn, Unborn
  <2>3. active'[home[u]] = active[home[u]]
    BY <2>1 DEF ThreadStep
  <2> QED
    BY <1>1, <1>3, <2>2, <2>3
<1> QED
  BY <1>4, <1>5, <1>6, <1>7 DEF OpenInv

LEMMA FirstOpen ==
  ASSUME TypeOK, TypeOK', GoneInv, OpenInv, NEW t \in Turns,
         Spawn(t) \/ Unspawned(t) \/ \E s \in Services : Submit(s, t)
  PROVE  OpenInv'
<1>1. CASE Spawn(t)
  <2>1. /\ UNCHANGED <<rows, up, home, lost, opens>> /\ Unborn(t) /\ home[t] \in Services
    BY <1>1 DEF Spawn, Unborn, Serving, journal, Fault, bounds
  <2>2. \/ submitter' = [submitter EXCEPT ![t] = "starting"]
           /\ active' = [active EXCEPT ![home[t]] = t]
        \/ submitter' = [submitter EXCEPT ![t] = "unspawned"] /\ active' = active
    BY <1>1 DEF Spawn, Submits, memory
  <2>3. DOMAIN submitter = Turns /\ DOMAIN active = Services
    BY DEF TypeOK
  <2>4. /\ \A u \in Turns : Unborn(u)' => Unborn(u)
        /\ \A u \in Turns : u # t => submitter'[u] = submitter[u]
    BY <2>1, <2>2, <2>3 DEF Unborn
  <2>5. OneOpen'
    BY <2>1 DEF OpenInv, OneOpen, Open, Submitted, Settled, Of, ActiveTurn, Submissions
  <2>6. OpenedOnce'
    BY <2>1 DEF OpenInv, OpenedOnce
  <2>7. Held'
    BY <2>1, <2>4 DEF OpenInv, Held
  <2>8. NoForgottenTurn'
    <3> SUFFICES ASSUME NEW u \in Turns, Open(rows, u), u \notin lost, Serving(home[u])
                 PROVE  active'[home[u]] = u \/ Unborn(u)'
      BY <2>1 DEF NoForgottenTurn, Unborn, Serving
    <3>1. active[home[u]] = u \/ Unborn(u)
      BY DEF OpenInv, NoForgottenTurn, Unborn
    <3>2. CASE u = t
      BY <2>1, <2>2, <2>3, <3>2 DEF Unborn
    <3>3. CASE u # t
      <4>1. home[u] # home[t]
        BY <2>1, <3>3 DEF OpenInv, Held
      <4>2. home[u] \in Services /\ active'[home[u]] = active[home[u]]
        BY <2>2, <2>3, <4>1 DEF Serving
      <4> QED
        BY <2>4, <3>1, <3>3, <4>2 DEF Unborn
    <3> QED
      BY <3>2, <3>3
  <2> QED
    BY <2>5, <2>6, <2>7, <2>8 DEF OpenInv
<1>2. CASE Unspawned(t)
  <2>1. /\ UNCHANGED <<up, home, active>> /\ submitter[t] = "unspawned" /\ home[t] \in Services
        /\ submitter' = [submitter EXCEPT ![t] = "off"]
        /\ \/ Written(home[t], "turn_failed", t, TRUE)
           \/ Failed(home[t], "turn_failed", t, TRUE)
    BY <1>2 DEF Unspawned, Serving, memory, Submits
  <2>2. "turn_failed" \in Terminal /\ Terminal \subseteq Events
    BY DEF Events, Terminal
  <2>3. Grew("turn_failed", t) /\ lost \subseteq lost' /\ opens' = opens
    BY <2>1, <2>2, Appended
  <2>4. Submitted(rows, t)
    BY <2>1 DEF GoneInv, OwnThread
  <2>5. \A u \in Turns : Open(rows', u) => Open(rows, u)
    BY <2>2, <2>3, <2>4, GrewRows
  <2>6. DOMAIN submitter = Turns
    BY DEF TypeOK
  <2>7. \A u \in Turns : Unborn(u)' <=> Unborn(u) /\ u # t
    BY <2>1, <2>6 DEF Unborn
  <2>8. ~Open(rows', t) \/ t \in lost'
    <3>1. CASE Failed(home[t], "turn_failed", t, TRUE)
      BY <2>2, <3>1 DEF Failed
    <3>2. CASE Written(home[t], "turn_failed", t, TRUE)
      <4>1. Allowed(rows, "turn_failed", t) /\ rows' = Append(rows, Row("turn_failed", t))
        BY <3>2 DEF Written, Accepts, Write
      <4> QED
        BY <2>2, <4>1, TerminalCloses DEF OpenInv
    <3> QED
      BY <2>1, <3>1, <3>2
  <2>9. OneOpen'
    BY <2>2, <2>3, OneOpenStep DEF OpenInv
  <2>10. OpenedOnce'
    BY <2>1, <2>3 DEF OpenInv, OpenedOnce
  <2>11. Held'
    BY <2>1, <2>3, <2>5, <2>7 DEF OpenInv, Held
  <2>12. NoForgottenTurn'
    <3> SUFFICES ASSUME NEW u \in Turns, Open(rows', u), u \notin lost', Serving(home[u])
                 PROVE  active[home[u]] = u \/ Unborn(u)'
      BY <2>1 DEF NoForgottenTurn, Unborn, Serving
    <3>1. Open(rows, u) /\ u \notin lost /\ u # t
      BY <2>3, <2>5, <2>8
    <3>2. active[home[u]] = u \/ Unborn(u)
      BY <3>1 DEF OpenInv, NoForgottenTurn, Unborn
    <3> QED
      BY <2>7, <3>1, <3>2
  <2> QED
    BY <2>9, <2>10, <2>11, <2>12 DEF OpenInv
<1>3. ASSUME NEW s \in Services, Submit(s, t) PROVE OpenInv'
  <2>1. /\ UNCHANGED <<up, active>> /\ ~Submitted(rows, t) /\ ~Locked(s) /\ Serving(s)
        /\ home' = IF rows' # rows THEN [home EXCEPT ![t] = s] ELSE home
    BY <1>3 DEF Submit, memory
  <2>2. "turn_submitted" \in Events \ Terminal
    BY DEF Events, Terminal
  <2>3. Grew("turn_submitted", t) /\ lost \subseteq lost' /\ opens' = opens
    BY <1>3, <2>2, Appended DEF Submit
  <2>4. OneOpen'
    BY <2>2, <2>3, OneOpenStep DEF OpenInv
  <2>5. DOMAIN submitter = Turns /\ DOMAIN home = Turns /\ submitter[t] = "off"
    BY <2>1 DEF TypeOK, GoneInv, OwnThread
  <2>6. \A u \in Turns : u # t => home'[u] = home[u] /\ submitter'[u] = submitter[u]
    <3>1. submitter' = submitter \/ submitter' = [submitter EXCEPT ![t] = "spawning"]
      BY <1>3 DEF Submit, Submits
    <3> QED
      BY <2>1, <2>5, <3>1
  <2>7. OpenedOnce'
    <3>1. s <= opens /\ up[s] # "recovering"
      BY <2>1 DEF Serving, OpenInv, OpenedOnce
    <3>2. home'[t] = s \/ home'[t] = home[t]
      BY <2>1, <2>5
    <3> QED
      BY <2>1, <2>3, <2>6, <3>1, <3>2 DEF OpenInv, OpenedOnce
  <2>8. CASE rows' = rows
    <3>1. home' = home /\ \A u \in Turns : Open(rows', u) <=> Open(rows, u)
      BY <2>1, <2>8
    <3>2. submitter' = submitter
      <4>1. CASE Written(s, "turn_submitted", t, TRUE)
        <5>1. rows' = Append(rows, Row("turn_submitted", t)) /\ rows \in Seq(Rows)
          BY <4>1 DEF Written, Write, TypeOK
        <5>2. Submitted(rows', t)
          BY <2>2, <5>1, MoreOf
        <5> QED
          BY <2>1, <2>8, <5>2
      <4> QED
        BY <1>3, <4>1 DEF Submit
    <3>3. Held'
      BY <2>3, <3>1, <3>2 DEF OpenInv, Held, Unborn
    <3>4. NoForgottenTurn'
      BY <2>1, <2>3, <3>1, <3>2 DEF OpenInv, NoForgottenTurn, Serving
    <3> QED
      BY <2>4, <2>7, <3>3, <3>4 DEF OpenInv
  <2>9. CASE Allowed(rows, "turn_submitted", t) /\ rows' = Append(rows, Row("turn_submitted", t))
    <3>1. \A u \in Turns : u # t => ~Open(rows', u)
      <4>1. ActiveTurn(rows) = NoTurn /\ rows \in Seq(Rows) /\ \A u \in Turns : u # NoTurn
        <5>1. rows \in Seq(Rows)
          BY DEF TypeOK
        <5>2. \A u \in Turns : u # NoTurn
          BY ChatAssumption DEF Turns
        <5>3. ActiveTurn(rows) = NoTurn
          BY <2>9 DEF Allowed, Admits
        <5> QED
          BY <5>1, <5>2, <5>3
      <4>2. \A u \in Turns : u # t => (Open(rows', u) => Open(rows, u))
        BY <2>2, <2>9, <4>1, MoreOf
      <4> QED
        BY <4>1, <4>2 DEF OpenInv, OneOpen
    <3>2. rows' # rows
      <4>1. Submitted(rows', t)
        <5>1. rows \in Seq(Rows)
          BY DEF TypeOK
        <5> QED
          BY <2>2, <2>9, <5>1, MoreOf
      <4> QED
        BY <2>1, <4>1
    <3>3. home'[t] = s /\ (t \in lost' \/ submitter'[t] = "spawning")
      <4>1. CASE Written(s, "turn_submitted", t, TRUE) /\ Submits(t, "spawning")
        BY <2>1, <2>5, <3>2, <4>1 DEF Submits
      <4>2. CASE Failed(s, "turn_submitted", t, TRUE)
        BY <2>1, <2>5, <3>2, <4>2 DEF Failed
      <4> QED
        BY <1>3, <4>1, <4>2 DEF Submit
    <3>4. \A u \in Turns : home[u] = s => ~Unborn(u)
      BY <2>1 DEF Locked, Unborn
    <3>5. Held'
      <4> SUFFICES ASSUME NEW v \in Turns, NEW u \in Turns, Unborn(v)', v # u, home'[u] = home'[v]
                   PROVE  ~Open(rows', u) \/ u \in lost'
        BY DEF Held
      <4>1. u # t
        BY <2>6, <3>3, <3>4 DEF Unborn
      <4> QED
        BY <3>1, <4>1
    <3>6. NoForgottenTurn'
      BY <3>1, <3>3 DEF NoForgottenTurn
    <3> QED
      BY <2>4, <2>7, <3>5, <3>6 DEF OpenInv
  <2> QED
    BY <2>3, <2>8, <2>9 DEF Grew
<1> QED
  BY <1>1, <1>2, <1>3

LEMMA ServiceOpen ==
  ASSUME TypeOK, TypeOK', OpenInv, NEW s \in Services,
         Crash(s) \/ OpenChat(s) \/ Recover(s)
  PROVE  OpenInv'
<1>0. DOMAIN up = Services /\ DOMAIN active = Services
  BY DEF TypeOK
<1>1. ASSUME Ends(s), UNCHANGED <<rows, home, lost>>, opens' = opens
      PROVE  OpenInv'
  <2>1. /\ up' = [up EXCEPT ![s] = "down"] /\ active' = [active EXCEPT ![s] = NoTurn]
        /\ \A u \in Turns : submitter'[u] = IF home[u] = s THEN "off" ELSE submitter[u]
    BY <1>1 DEF Ends
  <2>2. OneOpen'
    BY <1>1 DEF OpenInv, OneOpen, Open, Submitted, Settled, Of, ActiveTurn, Submissions
  <2>3. OpenedOnce'
    BY <1>0, <1>1, <2>1 DEF OpenInv, OpenedOnce
  <2>4. Held'
    BY <1>1, <2>1 DEF OpenInv, Held, Unborn
  <2>5. NoForgottenTurn'
    <3> SUFFICES ASSUME NEW u \in Turns, Open(rows, u), u \notin lost, Serving(home[u])'
                 PROVE  active'[home[u]] = u \/ Unborn(u)'
      BY <1>1 DEF NoForgottenTurn, Unborn
    <3>1. home[u] # s /\ Serving(home[u])
      BY <1>0, <1>1, <2>1 DEF Serving
    <3>2. active[home[u]] = u \/ Unborn(u)
      BY <3>1 DEF OpenInv, NoForgottenTurn, Unborn
    <3> QED
      BY <1>0, <2>1, <3>1, <3>2 DEF Unborn, Serving
  <2> QED
    BY <2>2, <2>3, <2>4, <2>5 DEF OpenInv
<1>2. CASE Crash(s)
  BY <1>1, <1>2 DEF Crash, bounds
<1>3. CASE OpenChat(s)
  <2>1. /\ UNCHANGED <<rows, active, home, submitter, lost>> /\ s = opens + 1 /\ opens' = s
        /\ up' = [up EXCEPT ![s] = "recovering"] /\ opens \in Nat
    BY <1>3 DEF OpenChat, memory, threads, TypeOK
  <2>2. OneOpen'
    BY <2>1 DEF OpenInv, OneOpen, Open, Submitted, Settled, Of, ActiveTurn, Submissions
  <2>3. OpenedOnce'
    <3>1. \A q \in Services : q \in Int
      BY DEF Services
    <3>2. \A t \in Turns : home[t] \in Services => home[t] # s
      BY <2>1, <3>1 DEF OpenInv, OpenedOnce
    <3>3. \A q \in Services : up'[q] # "down" => q <= opens'
      <4> SUFFICES ASSUME NEW q \in Services, up'[q] # "down", q # s PROVE q <= opens'
        BY <2>1, <3>1
      <4>1. q <= opens
        BY <1>0, <2>1 DEF OpenInv, OpenedOnce
      <4> QED
        BY <2>1, <3>1, <4>1
    <3>4. ASSUME NEW t \in Turns, home[t] \in Services
          PROVE  home[t] <= opens' /\ up'[home[t]] # "recovering"
      <4>1. home[t] <= opens /\ up[home[t]] # "recovering"
        BY <3>4 DEF OpenInv, OpenedOnce
      <4>2. home[t] # s /\ home[t] \in Int
        BY <3>1, <3>2, <3>4
      <4> QED
        BY <1>0, <2>1, <3>4, <4>1, <4>2
    <3> QED
      BY <2>1, <3>3, <3>4 DEF OpenedOnce
  <2>4. Held'
    BY <2>1 DEF OpenInv, Held, Unborn
  <2>5. NoForgottenTurn'
    BY <1>0, <2>1 DEF OpenInv, NoForgottenTurn, Serving
  <2> QED
    BY <2>2, <2>3, <2>4, <2>5 DEF OpenInv
<1>4. CASE Recover(s)
  <2>1. CASE ~Verified /\ Ends(s) /\ UNCHANGED <<rows, torn, lost, bounds>>
    BY <1>1, <1>4, <2>1 DEF Recover, bounds
  <2>2. CASE /\ up' \in {[up EXCEPT ![s] = "serving"], [up EXCEPT ![s] = "down"]}
             /\ UNCHANGED <<memory, threads>>
             /\ \/ ActiveTurn(rows) = NoTurn /\ UNCHANGED <<journal, lost, bounds>>
                \/ ActiveTurn(rows) # NoTurn
                   /\ \/ Written(s, Uncertain, ActiveTurn(rows), TRUE)
                      \/ Failed(s, Uncertain, ActiveTurn(rows), TRUE)
    <3>1. UNCHANGED <<home, active, submitter>> /\ up[s] = "recovering"
      BY <1>4, <2>2 DEF Recover, memory, threads
    <3>2. /\ OneOpen' /\ opens' = opens /\ lost \subseteq lost'
          /\ \A u \in Turns : Open(rows', u) => Open(rows, u)
      <4>1. CASE UNCHANGED <<journal, lost, bounds>>
        <5>1. UNCHANGED <<rows, lost, opens>>
          BY <4>1 DEF journal, bounds
        <5> QED
          BY <5>1 DEF OpenInv, OneOpen, Open, Submitted, Settled, Of, ActiveTurn, Submissions
      <4>2. CASE ActiveTurn(rows) # NoTurn
                 /\ \/ Written(s, Uncertain, ActiveTurn(rows), TRUE)
                    \/ Failed(s, Uncertain, ActiveTurn(rows), TRUE)
        <5> DEFINE t == ActiveTurn(rows)
        <5>1. t \in Turns /\ Submitted(rows, t) /\ Uncertain \in Events
          BY <4>2, RecoveredTurn DEF OpenInv, Uncertain, Events, Terminal
        <5> HIDE DEF t
        <5>2. Grew(Uncertain, t) /\ opens' = opens /\ lost \subseteq lost'
          BY <4>2, <5>1, Appended DEF t
        <5> QED
          BY <5>1, <5>2, GrewRows, OneOpenStep DEF OpenInv
      <4> QED
        BY <2>2, <4>1, <4>2
    <3>3. OpenedOnce'
      BY <1>0, <2>2, <3>1, <3>2 DEF OpenInv, OpenedOnce
    <3>4. Held'
      BY <3>1, <3>2 DEF OpenInv, Held, Unborn
    <3>5. NoForgottenTurn'
      <4> SUFFICES ASSUME NEW u \in Turns, Open(rows', u), u \notin lost', Serving(home[u])'
                   PROVE  active[home[u]] = u \/ Unborn(u)
        BY <3>1 DEF NoForgottenTurn, Unborn
      <4>1. home[u] # s
        BY <3>1 DEF OpenInv, OpenedOnce
      <4>2. Serving(home[u])
        BY <1>0, <2>2, <3>1, <4>1 DEF Serving
      <4> QED
        BY <3>2, <4>2 DEF OpenInv, NoForgottenTurn, Unborn
    <3> QED
      BY <3>2, <3>3, <3>4, <3>5 DEF OpenInv
  <2> QED
    BY <1>4, <2>1, <2>2 DEF Recover
<1> QED
  BY <1>2, <1>3, <1>4

----------------------------------------------------------------------------
ChatInv == TypeOK /\ GoneInv /\ OpenInv

\* What a step leaves alone altogether.
LEMMA ChatStutter == ASSUME ChatInv, UNCHANGED vars PROVE ChatInv'
<1>1. UNCHANGED <<rows, known, up, active, terminalized, cancelling, home, tree, stopped,
                  submitter, pump, canceller, seen, lost, opens>>
  BY DEF vars, journal, memory, os, threads, bounds
<1>2. TypeOK'
  BY <1>1 DEF ChatInv, TypeOK
<1>3. GoneInv'
  BY <1>1 DEF ChatInv, GoneInv, SeenGone, NothingYet, OwnThread, EndedGone, Unborn, Submitted, Of
<1>4. OpenInv'
  BY <1>1 DEF ChatInv, OpenInv, OneOpen, OpenedOnce, Held, NoForgottenTurn, Unborn, Serving,
              Open, Submitted, Settled, Of, ActiveTurn, Submissions
<1> QED
  BY <1>2, <1>3, <1>4 DEF ChatInv

LEMMA ChatInit == ASSUME Init PROVE ChatInv
<1>1. TypeOK
  BY TypeInit
<1>2. GoneInv
  <2>1. SeenGone
    BY DEF Init, SeenGone, Threads
  <2>2. NothingYet /\ OwnThread
    BY ChatAssumption DEF Init, NothingYet, OwnThread, Turns
  <2>3. EndedGone
    BY DEF Init, EndedGone
  <2> QED
    BY <2>1, <2>2, <2>3 DEF GoneInv
<1>3. OpenInv
  <2>1. \A t \in Turns : ~Open(rows, t) /\ ~Unborn(t)
    BY DEF Init, Open, Submitted, Of, Unborn
  <2>2. Submissions(rows) = {}
    BY DEF Init, Submissions
  <2>3. OpenedOnce
    BY DEF Init, OpenedOnce, Services, NoService
  <2> QED
    BY <2>1, <2>2, <2>3 DEF OpenInv, OneOpen, Held, NoForgottenTurn
<1> QED
  BY <1>1, <1>2, <1>3 DEF ChatInv

LEMMA ChatStep == ASSUME ChatInv, [Next]_vars PROVE ChatInv'
<1>0. TypeOK /\ GoneInv /\ OpenInv /\ OneOpen
  BY DEF ChatInv, OpenInv
<1>1. ASSUME NEW t \in Turns,
             \/ Start(t) \/ StopStart(t) \/ SettleStart(t) \/ CloseStart(t)
             \/ Cancel(t) \/ StopCancel(t) \/ SettleCancel(t) \/ CloseCancel(t) \/ Exit(t)
             \/ Drain(t) \/ Overflow(t) \/ Wait(t) \/ Settle(t) \/ StopPump(t) \/ Fail(t)
             \/ ClosePump(t)
      PROVE  ChatInv'
  <2>1. TypeOK'
    BY <1>0, <1>1, SubmitterTypes, CancellerTypes, PumpTypes
  <2>2. PICK e \in Events : ThreadStep(t, e)
    BY <1>0, <1>1, SubmitterSteps, CancellerSteps, PumpSteps
  <2> QED
    BY <1>0, <2>1, <2>2, ThreadGone, ThreadOpen DEF ChatInv
<1>2. ASSUME NEW t \in Turns, Spawn(t) \/ Unspawned(t) \/ \E s \in Services : Submit(s, t)
      PROVE  ChatInv'
  <2>1. TypeOK'
    BY <1>0, <1>2, SubmitterTypes, ServiceTypes
  <2> QED
    BY <1>0, <1>2, <2>1, FirstGone, FirstOpen DEF ChatInv
<1>3. ASSUME NEW s \in Services, Crash(s) \/ OpenChat(s) \/ Recover(s)
      PROVE  ChatInv'
  <2>1. TypeOK'
    BY <1>0, <1>3, ServiceTypes
  <2> QED
    BY <1>0, <1>3, <2>1, ServiceGone, ServiceOpen DEF ChatInv
<1> QED
  BY <1>1, <1>2, <1>3, ChatStutter DEF Next, Work

\* The invariant the two properties below rest on.
THEOREM ChatInvariant == Spec => []ChatInv
  BY ChatInit, ChatStep, PTL DEF Spec

\* A turn recorded as completed, failed or cancelled has no process left, for
\* any number of turns, services and faults.
THEOREM EndedTurnsGone == Spec => []SettledMeansGone
<1>1. ChatInv => SettledMeansGone
  BY DEF ChatInv, GoneInv, EndedGone, SettledMeansGone
<1> QED
  BY <1>1, ChatInvariant, PTL

\* A serving coordinator never loses an open turn of its own, for any number of
\* turns, services and faults.
THEOREM TurnsRemembered == Spec => []NoForgottenTurn
<1>1. ChatInv => NoForgottenTurn
  BY DEF ChatInv, OpenInv
<1> QED
  BY <1>1, ChatInvariant, PTL

----------------------------------------------------------------------------
(* The transcript, row by row.                                             *)

LEMMA LessIsWellFounded ==
  \E R : IsWellFoundedOn(R, Nat) /\ \A x, y \in Nat : <<x, y>> \in R <=> x < y
<1>1. \A x, y \in Nat : <<x, y>> \in OpToRel(<, Nat) <=> x < y
  BY DEF OpToRel
<1> QED
  BY <1>1, NatLessThanWellFounded

LEMMA LeastNumber ==
  ASSUME NEW S, S \subseteq Nat, S # {}
  PROVE  \E x \in S : \A y \in S : x <= y
<1>1. PICK R : IsWellFoundedOn(R, Nat) /\ \A x, y \in Nat : <<x, y>> \in R <=> x < y
  BY LessIsWellFounded
<1>2. IsWellFoundedOn(R, Nat)
  BY <1>1
<1>3. PICK x \in S : \A y \in S : ~(<<y, x>> \in R)
  BY <1>2, WFMin, Zenon
<1>4. ASSUME NEW y \in S PROVE x <= y
  <2>1. x \in Nat /\ y \in Nat
    OBVIOUS
  <2>2. <<y, x>> \in R <=> y < x
    BY <1>1, <2>1
  <2>3. ~(y < x)
    BY <1>3, <2>2
  <2> QED
    BY <2>1, <2>3
<1> QED
  BY <1>4

\* f folds the first n rows of r.
Folds(f, r, n) ==
  f = [k \in 0..n |-> IF k = 0 THEN Blank ELSE Fold(f[k - 1], r[k])]

\* Two folds of the same rows agree.
LEMMA FoldsAgree ==
  ASSUME NEW r, NEW r2, NEW n \in Nat, NEW m \in Nat, n <= m,
         \A k \in 1..n : r[k] = r2[k],
         NEW f, Folds(f, r, n), NEW g, Folds(g, r2, m)
  PROVE  \A k \in 0..n : f[k] = g[k]
<1> DEFINE T == {k \in 0..n : f[k] # g[k]}
<1> SUFFICES ASSUME T # {} PROVE FALSE
  OBVIOUS
<1>1. PICK k \in T : \A y \in T : k <= y
  <2>1. T \subseteq Nat
    OBVIOUS
  <2> HIDE DEF T
  <2> QED
    BY <2>1, LeastNumber
<1>2. k \in 0..n /\ k \in 0..m /\ f[k] # g[k]
  OBVIOUS
<1>3. /\ f[k] = IF k = 0 THEN Blank ELSE Fold(f[k - 1], r[k])
      /\ g[k] = IF k = 0 THEN Blank ELSE Fold(g[k - 1], r2[k])
  BY <1>2 DEF Folds
<1>4. k # 0
  BY <1>2, <1>3
<1>5. k - 1 \in 0..n /\ k - 1 \notin T /\ r[k] = r2[k]
  BY <1>1, <1>2, <1>4
<1>6. f[k - 1] = g[k - 1]
  BY <1>5
<1> QED
  BY <1>2, <1>3, <1>4, <1>5, <1>6

\* One more row, one more step.
LEMMA FoldsMore ==
  ASSUME NEW r, NEW n \in Nat, NEW f, Folds(f, r, n)
  PROVE  \E g : Folds(g, r, n + 1)
<1> DEFINE g == [k \in 0..(n + 1) |-> IF k = n + 1 THEN Fold(f[n], r[n + 1]) ELSE f[k]]
           h == [k \in 0..(n + 1) |-> IF k = 0 THEN Blank ELSE Fold(g[k - 1], r[k])]
<1>1. ASSUME NEW k \in 0..(n + 1) PROVE g[k] = h[k]
  <2>1. CASE k = n + 1
    BY <2>1
  <2>2. CASE k # n + 1
    <3>1. k \in 0..n /\ g[k] = f[k]
      BY <2>2
    <3>2. f[k] = IF k = 0 THEN Blank ELSE Fold(f[k - 1], r[k])
      BY <3>1 DEF Folds
    <3>3. k # 0 => g[k - 1] = f[k - 1]
      BY <3>1
    <3> QED
      BY <3>1, <3>2, <3>3
  <2> QED
    BY <2>1, <2>2
<1>2. g = h
  BY <1>1
<1>3. Folds(g, r, n + 1)
  BY <1>2 DEF Folds
<1> QED
  BY <1>3

LEMMA FoldsExist ==
  ASSUME NEW r, NEW n \in Nat
  PROVE  \E f : Folds(f, r, n)
<1> DEFINE T == {k \in Nat : ~\E f : Folds(f, r, k)}
<1> SUFFICES ASSUME T # {} PROVE FALSE
  OBVIOUS
<1>1. PICK k \in T : \A y \in T : k <= y
  <2>1. T \subseteq Nat
    OBVIOUS
  <2> HIDE DEF T
  <2> QED
    BY <2>1, LeastNumber
<1>2. k # 0
  <2>1. Folds([x \in 0..0 |-> Blank], r, 0)
    BY DEF Folds
  <2> QED
    BY <2>1
<1>3. k - 1 \in Nat /\ k - 1 \notin T
  BY <1>1, <1>2
<1>4. PICK f : Folds(f, r, k - 1)
  BY <1>3
<1>5. \E g : Folds(g, r, (k - 1) + 1)
  BY <1>3, <1>4, FoldsMore
<1> QED
  BY <1>5

LEMMA FoldedIs ==
  ASSUME NEW r, Len(r) \in Nat
  PROVE  \E f : Folds(f, r, Len(r)) /\ Folded(r) = f[Len(r)]
<1> DEFINE f == CHOOSE f : Folds(f, r, Len(r))
<1>1. Folds(f, r, Len(r))
  BY FoldsExist
<1>2. Folded(r) = f[Len(r)]
  BY DEF Folded, Folds
<1> QED
  BY <1>1, <1>2

\* Nothing is shown of no rows, and one more row is one more step.
LEMMA FoldedMore ==
  /\ Folded(<<>>) = Blank
  /\ \A r \in Seq(Rows) : \A x \in Rows : Folded(Append(r, x)) = Fold(Folded(r), x)
<1>1. Folded(<<>>) = Blank
  <2>1. PICK f : Folds(f, <<>>, 0) /\ Folded(<<>>) = f[0]
    BY FoldedIs
  <2> QED
    BY <2>1 DEF Folds
<1>2. ASSUME NEW r \in Seq(Rows), NEW x \in Rows
      PROVE  Folded(Append(r, x)) = Fold(Folded(r), x)
  <2> DEFINE r2 == Append(r, x)
             n == Len(r)
  <2>1. /\ n \in Nat /\ Len(r2) = n + 1 /\ r2[n + 1] = x
        /\ \A k \in 1..n : r[k] = r2[k]
    BY LenProperties, AppendProperties
  <2> HIDE DEF r2, n
  <2>2. PICK f : Folds(f, r, n) /\ Folded(r) = f[n]
    BY <2>1, FoldedIs DEF n
  <2>3. PICK g : Folds(g, r2, n + 1) /\ Folded(r2) = g[n + 1]
    BY <2>1, FoldedIs
  <2>4. f[n] = g[n]
    BY <2>1, <2>2, <2>3, FoldsAgree
  <2>5. g[n + 1] = Fold(g[n], r2[n + 1])
    BY <2>1, <2>3 DEF Folds
  <2> QED
    BY <2>1, <2>2, <2>3, <2>4, <2>5 DEF r2
<1> QED
  BY <1>1, <1>2

----------------------------------------------------------------------------
(* What the screen shows of the turn that is open.                         *)

Screens ==
  [turn : Turns \cup {NoTurn},
   state : {"ready", "running", "cancelling", "cancellation_uncertain"},
   cancellation : {"none", "requested", "confirmed", "uncertain"}]
Started(r) == ActiveTurn(r) # NoTurn /\ LastOf(r, ActiveTurn(r)) # "turn_submitted"
\* The fold runs what the journal has started and left open.
ScreenInv ==
  /\ Folded(rows) \in Screens
  /\ Started(rows) => Folded(rows).turn = ActiveTurn(rows)
                      /\ Folded(rows).state \in {"running", "cancelling"}
  /\ ~Started(rows) => Folded(rows).state \in {"ready", "cancellation_uncertain"}

LEMMA FoldTypes ==
  ASSUME NEW shown \in Screens, NEW e \in Events, NEW t \in Turns
  PROVE  /\ Fold(shown, Row(e, t)) \in Screens
         /\ e = "turn_submitted" => Fold(shown, Row(e, t)) = shown
         /\ e = "turn_started" => Fold(shown, Row(e, t)).turn = t
                                  /\ Fold(shown, Row(e, t)).state = "running"
         /\ e = "turn_cancellation_requested" /\ shown.turn = t /\ t # NoTurn
            => Fold(shown, Row(e, t)).turn = t /\ Fold(shown, Row(e, t)).state = "cancelling"
         /\ e \in Terminal /\ (shown.turn # NoTurn \/ shown.state \notin {"running", "cancelling"})
            => Fold(shown, Row(e, t)).state \in {"ready", "cancellation_uncertain"}
<1>1. Row(e, t).event = e /\ Row(e, t).turn = t
  BY DEF Row
<1>2. CASE e = "turn_submitted"
  BY <1>1, <1>2 DEF Fold, Terminal
<1>3. CASE e = "turn_started"
  BY <1>1, <1>3 DEF Fold, Terminal, Screens
<1>4. CASE e = "turn_cancellation_requested"
  BY <1>1, <1>4 DEF Fold, Terminal, Screens
<1>5. CASE e = "turn_cancellation_uncertain"
  BY <1>1, <1>5 DEF Fold, Terminal, Screens
<1>6. CASE e = "turn_cancelled"
  BY <1>1, <1>6 DEF Fold, Terminal, Screens
<1>7. CASE e \in {"turn_completed", "turn_failed"}
  BY <1>1, <1>7 DEF Fold, Terminal, Screens
<1> QED
  BY <1>2, <1>3, <1>4, <1>5, <1>6, <1>7 DEF Events, Terminal

\* The last row of a turn that gets one.
LEMMA LastOfMore ==
  ASSUME NEW r \in Seq(Rows), NEW e \in Events, NEW t \in Turns
  PROVE  LastOf(Append(r, Row(e, t)), t) = e
<1> DEFINE r2 == Append(r, Row(e, t))
<1>1. /\ DOMAIN r2 = DOMAIN r \cup {Len(r) + 1} /\ DOMAIN r = 1..Len(r) /\ Len(r) \in Nat
      /\ r2[Len(r) + 1].event = e /\ r2[Len(r) + 1].turn = t
  BY MoreRows
<1> HIDE DEF r2
<1>2. Len(r) + 1 \in Of(r2, t) /\ \A x \in Of(r2, t) : x \in Int /\ Len(r) + 1 >= x
  BY <1>1 DEF Of
<1>3. \A x \in Of(r2, t) : (\A y \in Of(r2, t) : x >= y) => x = Len(r) + 1
  BY <1>1, <1>2
<1>4. Max(Of(r2, t)) = Len(r) + 1
  BY <1>2, <1>3 DEF Max
<1> QED
  BY <1>1, <1>4 DEF LastOf, r2

LEMMA ScreenStep ==
  ASSUME TypeOK, OneOpen, ScreenInv, NEW t \in Turns, NEW e \in Events, Grew(e, t)
  PROVE  ScreenInv'
<1>1. CASE rows' = rows
  BY <1>1 DEF ScreenInv, Started
<1>2. CASE Allowed(rows, e, t) /\ rows' = Append(rows, Row(e, t))
  <2> DEFINE old == Folded(rows)
             new == Folded(rows')
  <2>1. rows \in Seq(Rows) /\ Row(e, t) \in Rows
    BY DEF TypeOK, Row, Rows
  <2>2. new = Fold(old, Row(e, t)) /\ old \in Screens
    BY <1>2, <2>1, FoldedMore DEF ScreenInv
  <2>3. /\ e = "turn_submitted" =>
             Submissions(rows') # {} /\ rows'[Max(Submissions(rows'))].turn = t
        /\ e # "turn_submitted" =>
             /\ Submissions(rows') = Submissions(rows)
             /\ Submissions(rows) # {}
                  => rows'[Max(Submissions(rows))] = rows[Max(Submissions(rows))]
    BY <1>2, <2>1, MoreSubmissions DEF OneOpen
  <2>4. Settled(rows', t) <=> Settled(rows, t) \/ e \in Terminal
    BY <1>2, <2>1, MoreOf
  <2>5. LastOf(rows', t) = e
    BY <1>2, <2>1, LastOfMore
  <2>6. t # NoTurn
    BY ChatAssumption DEF Turns
  <2>7. new \in Screens
    BY <2>2, FoldTypes
  <2>8. CASE e = "turn_submitted"
    <3>1. ActiveTurn(rows) = NoTurn /\ ~Settled(rows, t)
      BY <1>2, <2>8 DEF Allowed, Admits, Submitted, Settled
    <3>2. ~Settled(rows', t)
      BY <2>4, <2>8, <3>1 DEF Terminal
    <3>3. ActiveTurn(rows') = t
      BY <2>3, <2>8, <3>2 DEF ActiveTurn
    <3>4. ~Started(rows') /\ ~Started(rows)
      BY <2>5, <2>8, <3>1, <3>3 DEF Started
    <3>5. new = old
      BY <2>2, <2>8, FoldTypes
    <3> QED
      BY <2>7, <3>4, <3>5 DEF ScreenInv
  <2>9. CASE e # "turn_submitted"
    <3>1. ActiveTurn(rows) = t /\ e \in After(LastOf(rows, t))
      BY <1>2, <2>9 DEF Allowed
    <3>2. Submissions(rows) # {} /\ rows[Max(Submissions(rows))].turn = t /\ ~Settled(rows, t)
      BY <2>6, <3>1 DEF ActiveTurn
    <3>3. ActiveTurn(rows') = IF e \in Terminal THEN NoTurn ELSE t
      BY <2>3, <2>4, <2>9, <3>2 DEF ActiveTurn
    <3>4. old.turn = NoTurn => old.state \in {"ready", "cancellation_uncertain"}
      BY <2>6, <3>1 DEF ScreenInv
    <3>5. CASE e \in Terminal
      <4>1. new.state \in {"ready", "cancellation_uncertain"}
        BY <2>2, <3>4, <3>5, FoldTypes
      <4> QED
        BY <2>7, <3>3, <3>5, <4>1 DEF ScreenInv, Started
    <3>6. CASE e \notin Terminal
      <4>1. e \in {"turn_started", "turn_cancellation_requested"}
        BY <2>9, <3>6 DEF Events
      <4>2. e = "turn_cancellation_requested" => LastOf(rows, t) = "turn_started"
        BY <3>1 DEF After
      <4>3. e = "turn_cancellation_requested" => old.turn = t
        BY <2>6, <3>1, <4>2 DEF ScreenInv, Started
      <4>4. new.turn = t /\ new.state \in {"running", "cancelling"}
        BY <2>2, <2>6, <4>1, <4>3, FoldTypes
      <4>5. Started(rows') /\ ActiveTurn(rows') = t
        BY <2>5, <2>6, <2>9, <3>3, <3>6 DEF Started
      <4> QED
        BY <2>7, <4>4, <4>5 DEF ScreenInv
    <3> QED
      BY <3>5, <3>6
  <2> QED
    BY <2>8, <2>9
<1> QED
  BY <1>1, <1>2 DEF Grew

LEMMA ScreenInit == ASSUME Init PROVE ScreenInv
<1>1. rows = <<>> /\ Folded(rows) = Blank /\ Submissions(rows) = {}
  BY FoldedMore DEF Init, Submissions
<1> QED
  BY <1>1 DEF ScreenInv, Started, ActiveTurn, Blank, Screens

LEMMA ScreenShown == ASSUME ScreenInv PROVE ScreenTruthful
<1> DEFINE old == Folded(rows)
<1>1. Transcript(rows) = IF old.turn = NoTurn /\ old.cancellation = "uncertain"
                           THEN [old EXCEPT !.state = "cancellation_uncertain"] ELSE old
  BY DEF Transcript
<1>2. old \in Screens
  BY DEF ScreenInv
<1>3. ScreenTruthful <=>
        /\ Transcript(rows).state \in {"running", "cancelling"} <=> Started(rows)
        /\ Started(rows) => Transcript(rows).turn = ActiveTurn(rows)
  BY DEF ScreenTruthful, Started
<1>4. CASE Started(rows)
  <2>1. old.turn # NoTurn /\ old.turn = ActiveTurn(rows) /\ old.state \in {"running", "cancelling"}
    BY <1>4 DEF ScreenInv, Started
  <2> QED
    BY <1>1, <1>3, <1>4, <2>1
<1>5. CASE ~Started(rows)
  <2>1. old.state \in {"ready", "cancellation_uncertain"}
    BY <1>5 DEF ScreenInv
  <2>2. Transcript(rows).state \in {"ready", "cancellation_uncertain"}
    BY <1>1, <1>2, <2>1 DEF Screens
  <2> QED
    BY <1>3, <1>5, <2>2
<1> QED
  BY <1>4, <1>5

\* Whatever a step does, it adds at most a row the journal admits.
LEMMA ChatGrows ==
  ASSUME ChatInv, Next
  PROVE  rows' = rows \/ \E t \in Turns, e \in Events : Grew(e, t)
<1>0. TypeOK /\ GoneInv /\ OneOpen
  BY DEF ChatInv, OpenInv
<1>names. /\ {"turn_submitted", "turn_failed", Uncertain} \subseteq Events
  BY DEF Events, Terminal, Uncertain
<1>1. ASSUME NEW t \in Turns,
             \/ Start(t) \/ StopStart(t) \/ SettleStart(t) \/ CloseStart(t)
             \/ Cancel(t) \/ StopCancel(t) \/ SettleCancel(t) \/ CloseCancel(t) \/ Exit(t)
             \/ Drain(t) \/ Overflow(t) \/ Wait(t) \/ Settle(t) \/ StopPump(t) \/ Fail(t)
             \/ ClosePump(t)
      PROVE  \E e \in Events : Grew(e, t)
  <2>1. PICK e \in Events : ThreadStep(t, e)
    BY <1>0, <1>1, SubmitterSteps, CancellerSteps, PumpSteps
  <2> QED
    BY <2>1 DEF ThreadStep
<1>2. ASSUME NEW t \in Turns, Spawn(t) PROVE rows' = rows
  BY <1>2 DEF Spawn, journal
<1>3. ASSUME NEW t \in Turns, Unspawned(t) PROVE Grew("turn_failed", t)
  BY <1>0, <1>names, <1>3, Appended DEF Unspawned, Serving
<1>4. ASSUME NEW s \in Services, NEW t \in Turns, Submit(s, t) PROVE Grew("turn_submitted", t)
  BY <1>0, <1>names, <1>4, Appended DEF Submit
<1>5. ASSUME NEW s \in Services, Crash(s) \/ OpenChat(s) PROVE rows' = rows
  BY <1>5 DEF Crash, OpenChat
<1>6. ASSUME NEW s \in Services, Recover(s)
      PROVE  rows' = rows \/ \E t \in Turns : Grew(Uncertain, t)
  <2>1. CASE ActiveTurn(rows) = NoTurn
    BY <1>6, <2>1 DEF Recover, journal
  <2>2. CASE ActiveTurn(rows) # NoTurn
    <3>1. ActiveTurn(rows) \in Turns
      BY <1>0, <2>2, RecoveredTurn
    <3>2. \/ rows' = rows
          \/ Written(s, Uncertain, ActiveTurn(rows), TRUE)
          \/ Failed(s, Uncertain, ActiveTurn(rows), TRUE)
      BY <1>6, <2>2 DEF Recover
    <3> QED
      BY <1>0, <1>names, <3>1, <3>2, Appended
  <2> QED
    BY <2>1, <2>2
<1>7. CASE \E t \in Turns : Work(t) \/ Cancel(t) \/ Overflow(t) \/ Exit(t)
  BY <1>names, <1>1, <1>2, <1>3, <1>7 DEF Work
<1>8. CASE \E s \in Services : Crash(s) \/ OpenChat(s) \/ Recover(s) \/ \E t \in Turns : Submit(s, t)
  BY <1>names, <1>4, <1>5, <1>6, <1>8
<1> QED
  BY <1>7, <1>8 DEF Next

LEMMA ScreenKept == ASSUME ChatInv, ScreenInv, [Next]_vars PROVE ScreenInv'
<1>0. TypeOK /\ OneOpen
  BY DEF ChatInv, OpenInv
<1>1. CASE rows' = rows
  BY <1>1 DEF ScreenInv, Started
<1>2. CASE \E t \in Turns, e \in Events : Grew(e, t)
  BY <1>0, <1>2, ScreenStep
<1>3. CASE UNCHANGED vars
  BY <1>1, <1>3 DEF vars, journal
<1> QED
  BY <1>1, <1>2, <1>3, ChatGrows

\* The transcript a screen folds out of the journal shows a turn as running
\* exactly while the journal has it started and open: by induction on the rows,
\* for any number of turns, services and faults.
THEOREM ScreenShowsJournal == Spec => []ScreenTruthful
<1>1. Init => ScreenInv
  BY ScreenInit
<1>2. ChatInv /\ ScreenInv /\ [Next]_vars => ScreenInv'
  BY ScreenKept
<1>3. ScreenInv => ScreenTruthful
  BY ScreenShown
<1> QED
  BY <1>1, <1>2, <1>3, ChatInvariant, PTL DEF Spec
=============================================================================
