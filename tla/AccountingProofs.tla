--------------------------- MODULE AccountingProofs --------------------------
(***************************************************************************)
(* The plan window is kept, for every set of runs, every limit, every      *)
(* projection and any number of faults: no overdraft, no forgotten call and *)
(* no reservation without sight of the evidence of those who spent.        *)
(***************************************************************************)
EXTENDS AccountingProperties, FiniteSetTheorems, TLAPS

----------------------------------------------------------------------------
(* The inductive invariant.                                                *)

Happenings ==
  {"torn", "run_enrolled", "distrusted", "active", "reservation_created",
   "reservation_cancelled", "reservation_reconciled"}
Rows == [event : Happenings, run : Runs \cup {None}, of : Nat]
Early == {"new", "enrol"}
Idle == {"attest", "ready", "window", "reserve", "total"}
Busy == {"start", "sent", "cancel"}

Typed ==
  /\ rows \in [Journals -> Seq(Rows)]
  /\ lock \in [by : Runs \cup {None, Operator}, journal : Journals,
               bad : {"over", "broken"}]
  /\ pc \in [Runs -> Early \cup Idle \cup Busy \cup Ended]
  /\ open \in BOOLEAN

\* A whole row of the reconciliation settles a reservation, each its own.
Single ==
  /\ \A k \in DOMAIN rows["settled"] :
       rows["settled"][k].event # "torn" => rows["settled"][k].of \in Reservations
  /\ \A k, m \in DOMAIN rows["settled"] :
       rows["settled"][k].of = rows["settled"][m].of /\ rows["settled"][k].of # 0 => k = m
  /\ \A k \in DOMAIN rows["settled"] :
       rows["settled"][k].event = "torn" => rows["settled"][k].of = 0

\* What a provider was asked for is reserved, and is only ever reconciled.
Asked ==
  /\ sent \subseteq Reservations
  /\ \A k \in DOMAIN rows["settled"] : rows["settled"][k].of \in sent =>
       rows["settled"][k].event = "reservation_reconciled"

\* A run holds nothing between stages and one reservation in a stage, of which
\* its provider knows nothing before it is sent or when it is taken back.
Holds ==
  \A r \in Runs :
    /\ pc[r] \in Early \cup Idle => Mine(r) = {}
    /\ pc[r] \in Busy => \A x, y \in Mine(r) : x = y
    /\ pc[r] \in {"start", "cancel"} => Mine(r) \cap sent = {}

\* Only enrolled runs get as far as to reserve.
Listed ==
  /\ \A r \in Runs : pc[r] \in Idle \cup Busy => r \in Enrolled
  /\ \A i \in Reservations : rows["registry"][i].run \in Enrolled

Within == open => Used + Reserved <= Limit

IInv == Typed /\ Single /\ Asked /\ Holds /\ Listed /\ Within

----------------------------------------------------------------------------
(* What a row more does to the sets of the journals.                       *)

\* Row w is appended to journal j.
Gains(j, w) == rows' = [rows EXCEPT ![j] = Append(@, w)]

LEMMA GainType ==
  ASSUME Typed, NEW j \in Journals, NEW w \in Rows, Gains(j, w)
  PROVE  /\ rows' \in [Journals -> Seq(Rows)]
         /\ \A k \in Journals \ {j} : rows'[k] = rows[k]
         /\ Len(rows'[j]) = Len(rows[j]) + 1
         /\ \A i \in DOMAIN rows[j] : rows'[j][i] = rows[j][i]
         /\ rows'[j][Len(rows[j]) + 1] = w
         /\ DOMAIN rows'[j] = DOMAIN rows[j] \cup {Len(rows[j]) + 1}
         /\ Len(rows[j]) + 1 \notin DOMAIN rows[j]
         /\ Len(rows[j]) + 1 \in Nat \ {0}
<1>1. rows[j] \in Seq(Rows) /\ rows'[j] = Append(rows[j], w)
  BY DEF Typed, Gains
<1>2. rows' \in [Journals -> Seq(Rows)] /\ \A k \in Journals \ {j} : rows'[k] = rows[k]
  BY <1>1 DEF Typed, Gains
<1> QED BY <1>1, <1>2

\* A row that neither reserves nor settles.
LEMMA OtherRow ==
  ASSUME Typed, NEW j \in Journals, NEW w \in Rows, Gains(j, w),
         w.event # "reservation_created", j = "settled" => w = Torn
  PROVE  /\ Reservations' = Reservations /\ Reconciled' = Reconciled
         /\ Outstanding' = Outstanding /\ \A q \in Runs : Mine(q)' = Mine(q)
         /\ Enrolled \subseteq Enrolled'
<1>0. "registry" \in Journals /\ "settled" \in Journals
  BY DEF Journals
<1>1. Reservations' = Reservations /\ Reconciled' = Reconciled
  <2>1. CASE j = "registry"
    BY <1>0, <2>1, GainType DEF Reservations, Reconciled, Events
  <2>2. CASE j = "settled"
    <3>1. w.event = "torn"
      BY <2>2 DEF Torn, Row
    <3> QED BY <1>0, <2>2, <3>1, GainType DEF Reservations, Reconciled, Events
  <2> QED BY <2>1, <2>2 DEF Journals
<1>2. 0 \notin Reservations /\ Reservations \subseteq DOMAIN rows["registry"]
  BY <1>0 DEF Reservations, Events, Typed
<1>3. SettledIds' = SettledIds \/ SettledIds' = SettledIds \cup {0}
  <2>1. CASE j = "settled"
    BY <1>0, <2>1, GainType DEF SettledIds, Torn, Row
  <2>2. CASE j # "settled"
    BY <1>0, <2>2, GainType DEF SettledIds
  <2> QED BY <2>1, <2>2
<1>4. Outstanding' = Outstanding
  BY <1>1, <1>2, <1>3 DEF Outstanding
<1>5. \A i \in DOMAIN rows["registry"] : rows'["registry"][i] = rows["registry"][i]
  BY <1>0, GainType
<1>6. \A q \in Runs : Mine(q)' = Mine(q)
  BY <1>2, <1>4, <1>5 DEF Mine, Outstanding
<1>7. Enrolled \subseteq Enrolled'
  <2>1. Events("registry", "run_enrolled") \subseteq Events("registry", "run_enrolled")'
    BY <1>0, GainType DEF Events
  <2>2. Events("registry", "run_enrolled") \subseteq DOMAIN rows["registry"]
    BY DEF Events
  <2> QED BY <1>5, <2>1, <2>2 DEF Enrolled
<1> QED BY <1>1, <1>4, <1>6, <1>7

\* A reservation of r.
LEMMA ReservingRow ==
  ASSUME Typed, Single, NEW r \in Runs,
         Gains("registry", Row("reservation_created", r, 0))
  PROVE  LET n == Len(rows["registry"]) + 1
         IN  /\ Reservations' = Reservations \cup {n} /\ n \notin Reservations
             /\ Reconciled' = Reconciled
             /\ Outstanding' = Outstanding \cup {n} /\ n \notin Outstanding
             /\ Mine(r)' = Mine(r) \cup {n}
             /\ \A q \in Runs \ {r} : Mine(q)' = Mine(q)
             /\ Enrolled' = Enrolled
             /\ rows'["registry"][n].run = r
             /\ \A i \in Reservations : rows'["registry"][i] = rows["registry"][i]
<1> DEFINE n == Len(rows["registry"]) + 1
           w == Row("reservation_created", r, 0)
<1>0. "registry" \in Journals /\ "settled" \in Journals /\ "registry" # "settled" /\ w \in Rows
  BY DEF Journals, Rows, Happenings, Row
<1>1. Reservations' = Reservations \cup {n} /\ Reconciled' = Reconciled
  BY <1>0, GainType DEF Reservations, Reconciled, Events, Row
<1>2. Reservations \subseteq DOMAIN rows["registry"] /\ n \notin DOMAIN rows["registry"] /\ n # 0
  BY <1>0, GainType DEF Reservations, Events
<1>3. SettledIds' = SettledIds /\ SettledIds \subseteq Reservations \cup {0}
  <2>1. rows'["settled"] = rows["settled"]
    BY <1>0, GainType
  <2> QED BY <2>1 DEF SettledIds, Single
<1>4. Outstanding' = Outstanding \cup {n} /\ n \notin Outstanding /\ n \notin Reservations
  BY <1>1, <1>2, <1>3 DEF Outstanding
<1>5. /\ \A i \in DOMAIN rows["registry"] : rows'["registry"][i] = rows["registry"][i]
      /\ rows'["registry"][n] = w
  BY <1>0, GainType
<1>6. w.run = r
  BY DEF Row
<1>7. \A q \in Runs : Mine(q)' = Mine(q) \cup IF q = r THEN {n} ELSE {}
  BY <1>2, <1>4, <1>5, <1>6 DEF Mine, Outstanding
<1>8. Enrolled' = Enrolled
  <2>1. Events("registry", "run_enrolled")' = Events("registry", "run_enrolled")
    BY <1>0, GainType DEF Events, Row
  <2>2. Events("registry", "run_enrolled") \subseteq DOMAIN rows["registry"]
    BY DEF Events
  <2> QED BY <1>5, <2>1, <2>2 DEF Enrolled
<1> QED BY <1>1, <1>2, <1>4, <1>5, <1>6, <1>7, <1>8

\* A settlement of reservation i of r.
LEMMA SettlingRow ==
  ASSUME Typed, NEW r \in Runs, NEW e \in Happenings, NEW i \in Mine(r),
         Gains("settled", Row(e, r, i))
  PROVE  /\ Reservations' = Reservations
         /\ Reconciled' = Reconciled \cup
              IF e = "reservation_reconciled" THEN {Len(rows["settled"]) + 1} ELSE {}
         /\ Len(rows["settled"]) + 1 \notin Reconciled
         /\ Outstanding' = Outstanding \ {i} /\ i \in Outstanding
         /\ Mine(r)' = Mine(r) \ {i}
         /\ \A q \in Runs \ {r} : Mine(q)' = Mine(q)
         /\ Enrolled' = Enrolled /\ rows'["registry"] = rows["registry"]
<1> DEFINE w == Row(e, r, i)
<1>0. /\ "registry" \in Journals /\ "settled" \in Journals /\ "registry" # "settled"
      /\ i \in Outstanding /\ i \in Reservations /\ i \in Nat /\ w \in Rows
      /\ rows["registry"][i].run = r
  BY DEF Journals, Rows, Happenings, Row, Mine, Outstanding, Reservations, Events, Typed
<1>1. rows'["registry"] = rows["registry"]
  BY <1>0, GainType
<1>2. Reservations' = Reservations /\ Enrolled' = Enrolled
  BY <1>1 DEF Reservations, Events, Enrolled
<1>3. Reconciled' = Reconciled \cup
        IF e = "reservation_reconciled" THEN {Len(rows["settled"]) + 1} ELSE {}
  BY <1>0, GainType DEF Reconciled, Events, Row
<1>4. Len(rows["settled"]) + 1 \notin Reconciled
  BY <1>0, GainType DEF Reconciled, Events
<1>5. SettledIds' = SettledIds \cup {i}
  BY <1>0, GainType DEF SettledIds, Row
<1>6. Outstanding' = Outstanding \ {i}
  BY <1>2, <1>5 DEF Outstanding
<1>7. \A q \in Runs : Mine(q)' = Mine(q) \ {i}
  BY <1>1, <1>6 DEF Mine
<1>8. \A q \in Runs \ {r} : i \notin Mine(q)
  BY <1>0 DEF Mine
<1>9. Mine(r)' = Mine(r) \ {i} /\ \A q \in Runs \ {r} : Mine(q)' = Mine(q)
  BY <1>7, <1>8
<1> QED BY <1>0, <1>1, <1>2, <1>3, <1>4, <1>6, <1>9

----------------------------------------------------------------------------
(* Steps that neither reserve nor settle.                                  *)

Places == Early \cup Idle \cup Busy \cup Ended

\* Run r stays where it is, ends, goes on outside a stage, or backs out of one.
Turns(r) ==
  \/ pc'[r] = pc[r]
  \/ pc'[r] \in Ended
  \/ /\ pc[r] \in Early \cup Idle /\ pc'[r] \in Early \cup Idle
     /\ pc'[r] \in Idle => pc[r] \in Idle \/ r \in Enrolled'
  \/ pc[r] = "start" /\ pc'[r] = "cancel"

LEMMA TurnsKeep ==
  ASSUME Typed, Holds, Listed, sent' = sent, Reservations' = Reservations,
         \A q \in Runs : Mine(q)' = Mine(q), Enrolled \subseteq Enrolled',
         \A i \in Reservations : rows'["registry"][i] = rows["registry"][i],
         \A q \in Runs : Turns(q)
  PROVE  Holds' /\ Listed'
<1>1. ASSUME NEW q \in Runs
      PROVE  /\ pc'[q] \in Early \cup Idle => Mine(q)' = {}
             /\ pc'[q] \in Busy => \A x, y \in Mine(q)' : x = y
             /\ pc'[q] \in {"start", "cancel"} => Mine(q)' \cap sent' = {}
  <2>1. Turns(q) /\ Mine(q)' = Mine(q)
    BY <1>1
  <2> QED BY <2>1, <1>1 DEF Turns, Holds, Early, Idle, Busy, Ended
<1>2. ASSUME NEW q \in Runs, pc'[q] \in Idle \cup Busy
      PROVE  q \in Enrolled'
  <2>1. Turns(q)
    BY <1>2
  <2> QED BY <2>1, <1>2 DEF Turns, Listed, Early, Idle, Busy, Ended
<1> QED BY <1>1, <1>2 DEF Holds, Listed

\* A step that writes no row and asks no provider.
LEMMA QuietStep ==
  ASSUME IInv, Typed', rows' = rows, sent' = sent, open' => open,
         \A q \in Runs : Turns(q)
  PROVE  IInv'
<1>1. /\ Reservations' = Reservations /\ Reconciled' = Reconciled
      /\ Outstanding' = Outstanding /\ Enrolled' = Enrolled
      /\ \A q \in Runs : Mine(q)' = Mine(q)
  BY DEF Reservations, Reconciled, Outstanding, SettledIds, Enrolled, Mine, Events
<1>2. Single' /\ Asked'
  BY <1>1 DEF IInv, Single, Asked
<1>3. Holds' /\ Listed'
  BY <1>1, TurnsKeep DEF IInv
<1>4. Within'
  BY <1>1 DEF IInv, Within, Used, Reserved
<1> QED BY <1>2, <1>3, <1>4 DEF IInv

\* A step that writes a row of another kind.
LEMMA OtherStep ==
  ASSUME IInv, Typed', NEW j \in Journals, NEW w \in Rows, Gains(j, w),
         w.event # "reservation_created", j = "settled" => w = Torn,
         sent' = sent, open' = open, \A q \in Runs : Turns(q)
  PROVE  IInv'
<1>0. Typed /\ "registry" \in Journals /\ "settled" \in Journals
  BY DEF IInv, Journals
<1>1. /\ Reservations' = Reservations /\ Reconciled' = Reconciled
      /\ Outstanding' = Outstanding /\ Enrolled \subseteq Enrolled'
      /\ \A q \in Runs : Mine(q)' = Mine(q)
  BY <1>0, OtherRow
<1>2. 0 \notin Reservations
  BY <1>0 DEF Reservations, Events, Typed
<1>3. Single' /\ Asked'
  <2>1. CASE j = "registry"
    <3>1. rows'["settled"] = rows["settled"]
      BY <1>0, <2>1, GainType
    <3> QED BY <3>1, <1>1 DEF IInv, Single, Asked
  <2>2. CASE j = "settled"
    <3>1. w.event = "torn" /\ w.of = 0
      BY <2>2 DEF Torn, Row
    <3>2. /\ \A k \in DOMAIN rows["settled"] : rows'["settled"][k] = rows["settled"][k]
          /\ DOMAIN rows'["settled"] = DOMAIN rows["settled"] \cup {Len(rows["settled"]) + 1}
          /\ rows'["settled"][Len(rows["settled"]) + 1] = w
      BY <1>0, <2>2, GainType
    <3>3. Single'
      BY <1>1, <1>2, <3>1, <3>2 DEF IInv, Single
    <3>4. Asked'
      BY <1>1, <1>2, <3>1, <3>2 DEF IInv, Asked
    <3> QED BY <3>3, <3>4
  <2> QED BY <2>1, <2>2 DEF Journals
<1>4. \A i \in Reservations : rows'["registry"][i] = rows["registry"][i]
  BY <1>0, GainType DEF Reservations, Events
<1>5. Holds' /\ Listed'
  BY <1>0, <1>1, <1>4, TurnsKeep DEF IInv
<1>6. Within'
  BY <1>1 DEF IInv, Within, Used, Reserved
<1> QED BY <1>3, <1>5, <1>6 DEF IInv

\* What Add leaves: the row, or what is left of it and the run at bad.
LEMMA AddCases ==
  ASSUME Typed, NEW r \in Runs, NEW j \in Journals, NEW w \in Rows, NEW p \in Places,
         NEW bad \in {"over", "broken"}, Add(r, j, w, p, bad)
  PROVE  /\ Typed' /\ open' = open
         /\ \/ Gains(j, w) /\ pc' = [pc EXCEPT ![r] = p]
            \/ (Gains(j, Torn) \/ rows' = rows) /\ pc' = [pc EXCEPT ![r] = bad]
<1>1. Torn \in Rows
  BY DEF Torn, Row, Rows, Happenings
<1>2. /\ open' = open
      /\ lock' = lock \/ lock' = [by |-> r, journal |-> j, bad |-> bad]
      /\ \/ Gains(j, w) /\ pc' = [pc EXCEPT ![r] = p]
         \/ (Gains(j, Torn) \/ rows' = rows) /\ pc' = [pc EXCEPT ![r] = bad]
  BY DEF Add, Gains
<1>3. rows' \in [Journals -> Seq(Rows)]
  <2>1. CASE Gains(j, w)
    BY <2>1, GainType
  <2>2. CASE Gains(j, Torn)
    BY <2>2, <1>1, GainType
  <2>3. CASE rows' = rows
    BY <2>3 DEF Typed
  <2> QED BY <1>2, <2>1, <2>2, <2>3
<1>4. pc' \in [Runs -> Places]
  BY <1>2 DEF Typed, Places, Ended
<1>5. lock' \in [by : Runs \cup {None, Operator}, journal : Journals, bad : {"over", "broken"}]
  BY <1>2 DEF Typed
<1> QED BY <1>2, <1>3, <1>4, <1>5 DEF Typed, Places

\* The failure of an Add.
LEMMA AddFails ==
  ASSUME IInv, Typed', NEW r \in Runs, NEW j \in Journals, NEW bad \in {"over", "broken"},
         Gains(j, Torn) \/ rows' = rows, pc' = [pc EXCEPT ![r] = bad],
         sent' = sent, open' = open
  PROVE  IInv'
<1>1. Torn \in Rows /\ Torn.event = "torn"
  BY DEF Torn, Row, Rows, Happenings
<1>2. \A q \in Runs : Turns(q)
  BY DEF IInv, Typed, Turns, Ended
<1>3. CASE Gains(j, Torn)
  BY <1>1, <1>2, <1>3, OtherStep
<1>4. CASE rows' = rows
  BY <1>2, <1>4, QuietStep
<1> QED BY <1>3, <1>4

----------------------------------------------------------------------------
(* Reserving and settling.                                                 *)

LEMMA Finite ==
  ASSUME Typed
  PROVE  /\ IsFiniteSet(Outstanding) /\ IsFiniteSet(Reconciled)
         /\ Cardinality(Outstanding) \in Nat /\ Cardinality(Reconciled) \in Nat
<1>1. /\ DOMAIN rows["registry"] = 1 .. Len(rows["registry"]) /\ Len(rows["registry"]) \in Nat
      /\ DOMAIN rows["settled"] = 1 .. Len(rows["settled"]) /\ Len(rows["settled"]) \in Nat
  BY DEF Typed, Journals
<1>2. IsFiniteSet(DOMAIN rows["registry"]) /\ IsFiniteSet(DOMAIN rows["settled"])
  <2>1. PICK a, b : a = DOMAIN rows["registry"] /\ b = DOMAIN rows["settled"]
    OBVIOUS
  <2>2. PICK m \in Nat, n \in Nat : m = Len(rows["registry"]) /\ n = Len(rows["settled"])
    BY <1>1
  <2>3. a = 1..m /\ b = 1..n
    BY <1>1, <2>1, <2>2
  <2>4. IsFiniteSet(1..m) /\ IsFiniteSet(1..n)
    BY FS_Interval
  <2> QED BY <2>1, <2>3, <2>4
<1>3. /\ Outstanding \in SUBSET DOMAIN rows["registry"]
      /\ Reconciled \in SUBSET DOMAIN rows["settled"]
  BY DEF Outstanding, Reservations, Reconciled, Events
<1> QED BY <1>2, <1>3, FS_Subset, FS_CardinalityType

LEMMA Times ==
  ASSUME NEW c \in Nat, NEW n \in Nat
  PROVE  c * (n + 1) = c * n + c /\ c * n \in Nat
OBVIOUS

LEMMA Grows ==
  ASSUME NEW S, NEW x, IsFiniteSet(S)
  PROVE  IsFiniteSet(S \cup {x}) /\ Cardinality(S \cup {x}) <= Cardinality(S) + 1
<1>1. Cardinality(S) \in Nat
  BY FS_CardinalityType
<1>2. /\ IsFiniteSet(S \cup {x})
      /\ Cardinality(S \cup {x}) = IF x \in S THEN Cardinality(S) ELSE Cardinality(S) + 1
  BY FS_AddElement
<1> QED BY <1>1, <1>2

LEMMA Room ==
  ASSUME NEW u \in Nat, NEW v \in Nat, NEW c \in Nat, NEW l \in Nat, NEW w \in Nat,
         NEW x, x = v + c, c >= 1, w <= u + 1, u + x <= l
  PROVE  w + v <= l
OBVIOUS

LEMMA ReservingStep ==
  ASSUME IInv, Typed', NEW r \in Runs, Gains("registry", Row("reservation_created", r, 0)),
         pc[r] = "reserve", pc' = [pc EXCEPT ![r] = "start"], ~Exceeds,
         sent' = sent, open' = open
  PROVE  IInv'
<1> DEFINE n == Len(rows["registry"]) + 1
<1>0. Typed /\ Single /\ Asked /\ "settled" \in Journals /\ "registry" \in Journals
  BY DEF IInv, Journals
<1>1. /\ Reservations' = Reservations \cup {n} /\ n \notin Reservations
      /\ Reconciled' = Reconciled
      /\ Outstanding' = Outstanding \cup {n} /\ n \notin Outstanding
      /\ Mine(r)' = Mine(r) \cup {n}
      /\ \A q \in Runs \ {r} : Mine(q)' = Mine(q)
      /\ Enrolled' = Enrolled
      /\ rows'["registry"][n].run = r
      /\ \A i \in Reservations : rows'["registry"][i] = rows["registry"][i]
  BY <1>0, ReservingRow
<1>2. rows'["settled"] = rows["settled"]
  <2>1. Row("reservation_created", r, 0) \in Rows /\ "registry" # "settled"
    BY DEF Row, Rows, Happenings
  <2> QED BY <1>0, <2>1, GainType
<1>3. Single' /\ Asked'
  BY <1>0, <1>1, <1>2 DEF Single, Asked
<1>4. Mine(r) = {} /\ r \in Enrolled
  BY DEF IInv, Holds, Listed, Idle
<1>5. Holds'
  <2>1. ASSUME NEW q \in Runs
        PROVE  /\ pc'[q] \in Early \cup Idle => Mine(q)' = {}
               /\ pc'[q] \in Busy => \A x, y \in Mine(q)' : x = y
               /\ pc'[q] \in {"start", "cancel"} => Mine(q)' \cap sent' = {}
    <3>1. CASE q = r
      <4>1. Mine(q)' = {n} /\ n \notin sent'
        BY <1>0, <1>1, <1>4, <3>1 DEF Asked
      <4>2. pc'[q] = "start"
        BY <1>0, <3>1 DEF Typed
      <4> QED BY <4>1, <4>2 DEF Early, Idle
    <3>2. CASE q # r
      <4>1. Mine(q)' = Mine(q) /\ pc'[q] = pc[q]
        BY <1>0, <1>1, <2>1, <3>2 DEF Typed
      <4> QED BY <4>1, <2>1 DEF IInv, Holds
    <3> QED BY <3>1, <3>2
  <2> QED BY <2>1 DEF Holds
<1>6. Listed'
  <2>1. \A q \in Runs : pc'[q] \in Idle \cup Busy => q \in Enrolled'
    BY <1>0, <1>1, <1>4 DEF IInv, Listed, Typed
  <2>2. \A i \in Reservations' : rows'["registry"][i].run \in Enrolled'
    BY <1>1, <1>4 DEF IInv, Listed
  <2> QED BY <2>1, <2>2 DEF Listed
<1>7. Within'
  <2>1. Cardinality(Outstanding') = Cardinality(Outstanding) + 1
    BY <1>0, <1>1, Finite, FS_AddElement
  <2>2. Reserved' = Reserved + Calls /\ Used' = Used /\ Reserved \in Nat /\ Used \in Nat
    BY <1>0, <1>1, <2>1, Finite, Times, AccountingAssumption DEF Reserved, Used
  <2>3. open => Used + Reserved + Calls <= Limit
    BY <1>0, <2>2, AccountingAssumption DEF Exceeds, Typed
  <2> QED BY <2>2, <2>3, AccountingAssumption DEF Within
<1> QED BY <1>3, <1>5, <1>6, <1>7 DEF IInv

LEMMA TheOnly ==
  ASSUME NEW S, S # {}, S \subseteq Nat, \A x, y \in S : x = y
  PROVE  Min(S) \in S /\ S = {Min(S)}
<1>1. PICK z \in S : S = {z}
  OBVIOUS
<1>2. \A y \in S : z =< y
  BY <1>1
<1> QED BY <1>1, <1>2 DEF Min

LEMMA SettlingStep ==
  ASSUME IInv, Typed', NEW r \in Runs, NEW e \in {"reservation_cancelled", "reservation_reconciled"},
         NEW p \in {"over", "total"}, Mine(r) # {}, pc[r] \in {"sent", "cancel"},
         Gains("settled", Row(e, r, Min(Mine(r)))), pc' = [pc EXCEPT ![r] = p],
         e = "reservation_cancelled" => pc[r] = "cancel", sent' = sent, open' = open
  PROVE  IInv'
<1> DEFINE i == Min(Mine(r))
           n == Len(rows["settled"]) + 1
           w == Row(e, r, i)
<1>0. /\ Typed /\ Single /\ Asked /\ "settled" \in Journals /\ "registry" \in Journals
      /\ e \in Happenings
  BY DEF IInv, Journals, Happenings
<1>1. i \in Mine(r) /\ Mine(r) = {i}
  <2>1. Mine(r) \subseteq Nat
    BY <1>0 DEF Mine, Outstanding, Reservations, Events, Typed
  <2>2. \A x, y \in Mine(r) : x = y
    BY DEF IInv, Holds, Busy
  <2> HIDE DEF i
  <2> QED BY <2>1, <2>2, TheOnly DEF i
<1>2. i \in Reservations /\ i \notin SettledIds /\ i \in Nat \ {0}
  BY <1>0, <1>1 DEF Mine, Outstanding, Reservations, Events, Typed
<1> HIDE DEF i
<1>3. /\ Reservations' = Reservations
      /\ Reconciled' = Reconciled \cup IF e = "reservation_reconciled" THEN {n} ELSE {}
      /\ n \notin Reconciled
      /\ Outstanding' = Outstanding \ {i} /\ i \in Outstanding
      /\ Mine(r)' = {}
      /\ \A q \in Runs \ {r} : Mine(q)' = Mine(q)
      /\ Enrolled' = Enrolled /\ rows'["registry"] = rows["registry"]
  BY <1>0, <1>1, SettlingRow DEF i
<1>4. /\ \A k \in DOMAIN rows["settled"] : rows'["settled"][k] = rows["settled"][k]
      /\ DOMAIN rows'["settled"] = DOMAIN rows["settled"] \cup {n}
      /\ rows'["settled"][n] = w /\ w.event = e /\ w.of = i
  <2>1. w \in Rows
    BY <1>0, <1>2 DEF Row, Rows
  <2>2. w.event = e /\ w.of = i
    BY DEF Row
  <2> QED BY <1>0, <2>1, <2>2, GainType DEF i
<1>5. Single'
  <2>1. \A k \in DOMAIN rows["settled"] : rows["settled"][k].of # i
    BY <1>2 DEF SettledIds
  <2> QED BY <1>0, <1>2, <1>3, <1>4, <2>1 DEF Single
<1>6. Asked'
  <2>1. e = "reservation_cancelled" => i \notin sent
    BY <1>1 DEF IInv, Holds
  <2> QED BY <1>0, <1>3, <1>4, <2>1 DEF Asked
<1>7. Holds'
  <2>1. ASSUME NEW q \in Runs
        PROVE  /\ pc'[q] \in Early \cup Idle => Mine(q)' = {}
               /\ pc'[q] \in Busy => \A x, y \in Mine(q)' : x = y
               /\ pc'[q] \in {"start", "cancel"} => Mine(q)' \cap sent' = {}
    <3>1. CASE q = r
      BY <1>3, <3>1
    <3>2. CASE q # r
      <4>1. Mine(q)' = Mine(q) /\ pc'[q] = pc[q]
        BY <1>0, <1>3, <2>1, <3>2 DEF Typed
      <4> QED BY <4>1, <2>1 DEF IInv, Holds
    <3> QED BY <3>1, <3>2
  <2> QED BY <2>1 DEF Holds
<1>8. Listed'
  <2>1. \A q \in Runs : pc'[q] \in Idle \cup Busy => q \in Enrolled'
    BY <1>0, <1>3 DEF IInv, Listed, Typed, Idle, Busy
  <2> QED BY <1>3, <2>1 DEF IInv, Listed
<1>9. Within'
  <2>1. IsFiniteSet(Outstanding') /\ Cardinality(Outstanding') = Cardinality(Outstanding) - 1
    BY <1>0, <1>3, Finite, FS_RemoveElement
  <2>2. IsFiniteSet(Reconciled') /\ Cardinality(Reconciled') <= Cardinality(Reconciled) + 1
    <3>1. CASE e = "reservation_reconciled"
      <4>1. Reconciled' = Reconciled \cup {n}
        BY <1>3, <3>1
      <4> QED BY <1>0, <4>1, Finite, Grows
    <3>2. CASE e # "reservation_reconciled"
      <4>1. Reconciled' = Reconciled
        BY <1>3, <3>2
      <4> QED BY <1>0, <4>1, Finite
    <3> QED BY <3>1, <3>2
  <2>3. Cardinality(Outstanding') \in Nat /\ Cardinality(Reconciled') \in Nat
    BY <2>1, <2>2, FS_CardinalityType
  <2>4. Cardinality(Outstanding) = Cardinality(Outstanding') + 1
    BY <1>0, <2>1, <2>3, Finite
  <2>5. Reserved = Reserved' + Calls /\ Reserved' \in Nat
    BY <2>3, <2>4, Times, AccountingAssumption DEF Reserved
  <2>6. Used' <= Used + 1 /\ Used \in Nat /\ Used' \in Nat
    BY <1>0, <2>2, <2>3, Finite DEF Used
  <2>7. Calls \in Nat /\ Calls >= 1 /\ Limit \in Nat
    BY AccountingAssumption
  <2>8. open' => Used + Reserved <= Limit
    BY DEF IInv, Within
  <2>9. ASSUME open' PROVE Used' + Reserved' <= Limit
    <3>1. Used + Reserved <= Limit
      BY <2>8, <2>9
    <3>2. PICK u, v, c, l, y, x : /\ u = Used /\ v = Reserved' /\ c = Calls /\ l = Limit
                                  /\ y = Used' /\ x = Reserved
      OBVIOUS
    <3>3. y + v <= l
      BY <2>5, <2>6, <2>7, <3>1, <3>2, Room
    <3> QED BY <3>2, <3>3
  <2> QED BY <2>9 DEF Within
<1> QED BY <1>5, <1>6, <1>7, <1>8, <1>9 DEF IInv

----------------------------------------------------------------------------
(* Every action keeps the invariant.                                       *)

LEMMA InitInv == Init => IInv
<1> SUFFICES ASSUME Init PROVE IInv
  OBVIOUS
<1>1. /\ rows["registry"] = <<>> /\ rows["settled"] = <<>> /\ sent = {}
      /\ rows \in [Journals -> Seq(Rows)]
  BY DEF Init, Journals
<1>2. Reservations = {} /\ Reconciled = {} /\ Outstanding = {} /\ \A r \in Runs : Mine(r) = {}
  BY <1>1 DEF Reservations, Reconciled, Outstanding, Mine, Events
<1>3. Typed
  BY <1>1 DEF Init, Typed, Free, Journals, Early
<1>4. Single /\ Asked
  BY <1>1, <1>2 DEF Single, Asked
<1>5. Holds /\ Listed
  BY <1>2 DEF Init, Holds, Listed, Idle, Busy
<1>6. Calls * 0 = 0
  BY AccountingAssumption
<1>7. Within
  BY <1>2, <1>6, FS_EmptySet, AccountingAssumption DEF Within, Used, Reserved
<1> QED BY <1>3, <1>4, <1>5, <1>7 DEF IInv

\* A run's step to p that writes no row.
LEMMA GotoStep ==
  ASSUME IInv, NEW r \in Runs, NEW p \in Places, Goto(r, p), sent' = sent,
         \/ p \in Ended
         \/ pc[r] = "start" /\ p = "cancel"
         \/ pc[r] \in Idle /\ p \in Idle
         \/ pc[r] \in Early /\ p \in Early
  PROVE  IInv'
<1>1. Typed' /\ rows' = rows /\ open' = open
  BY DEF IInv, Typed, Goto, Places
<1>2. \A q \in Runs : Turns(q)
  BY DEF IInv, Typed, Goto, Turns, Early, Idle
<1> QED BY <1>1, <1>2, QuietStep

LEMMA EnrolStep == ASSUME IInv, NEW r \in Runs, Enrol(r) PROVE IInv'
<1> DEFINE w == Row("run_enrolled", r, 0)
<1>1. CASE Add(r, "registry", w, "attest", "broken")
  <2>0. /\ w \in Rows /\ w.event = "run_enrolled" /\ "registry" \in Journals
        /\ "attest" \in Places /\ Typed /\ w.run = r
    BY DEF Row, Rows, Happenings, Journals, Places, Idle, IInv
  <2>1. /\ Typed' /\ open' = open
        /\ \/ Gains("registry", w) /\ pc' = [pc EXCEPT ![r] = "attest"]
           \/ (Gains("registry", Torn) \/ rows' = rows) /\ pc' = [pc EXCEPT ![r] = "broken"]
    BY <1>1, <2>0, AddCases
  <2>2. CASE Gains("registry", w) /\ pc' = [pc EXCEPT ![r] = "attest"]
    <3>1. r \in Enrolled'
      <4>1. /\ Len(rows["registry"]) + 1 \in DOMAIN rows'["registry"]
            /\ rows'["registry"][Len(rows["registry"]) + 1] = w
        BY <2>0, <2>2, GainType
      <4> QED BY <2>0, <4>1 DEF Enrolled, Events
    <3>2. \A q \in Runs : Turns(q)
      BY <2>0, <2>2, <3>1 DEF Typed, Turns, Enrol, At, Early, Idle
    <3> QED BY <2>0, <2>1, <2>2, <3>2, OtherStep DEF Enrol
  <2>3. CASE (Gains("registry", Torn) \/ rows' = rows) /\ pc' = [pc EXCEPT ![r] = "broken"]
    BY <2>0, <2>1, <2>3, AddFails DEF Enrol
  <2> QED BY <2>1, <2>2, <2>3
<1>2. CASE Goto(r, "broken")
  BY <1>2, GotoStep DEF Enrol, Places, Ended
<1> QED BY <1>1, <1>2 DEF Enrol

LEMMA ReserveStep == ASSUME IInv, NEW r \in Runs, Reserve(r) PROVE IInv'
<1> DEFINE w == Row("reservation_created", r, 0)
<1>1. CASE ~Exceeds /\ Add(r, "registry", w, "start", "over")
  <2>0. /\ w \in Rows /\ "registry" \in Journals /\ "start" \in Places /\ Typed
    BY DEF Row, Rows, Happenings, Journals, Places, Busy, IInv
  <2>1. /\ Typed' /\ open' = open
        /\ \/ Gains("registry", w) /\ pc' = [pc EXCEPT ![r] = "start"]
           \/ (Gains("registry", Torn) \/ rows' = rows) /\ pc' = [pc EXCEPT ![r] = "over"]
    BY <1>1, <2>0, AddCases
  <2>2. CASE Gains("registry", w) /\ pc' = [pc EXCEPT ![r] = "start"]
    BY <1>1, <2>1, <2>2, ReservingStep DEF Reserve, At
  <2>3. CASE (Gains("registry", Torn) \/ rows' = rows) /\ pc' = [pc EXCEPT ![r] = "over"]
    BY <2>0, <2>1, <2>3, AddFails DEF Reserve
  <2> QED BY <2>1, <2>2, <2>3
<1>2. CASE Goto(r, "over")
  BY <1>2, GotoStep DEF Reserve, Places, Ended
<1> QED BY <1>1, <1>2 DEF Reserve

LEMMA SettleStep ==
  ASSUME IInv, NEW r \in Runs, NEW e \in {"reservation_cancelled", "reservation_reconciled"},
         NEW p \in {"over", "total"}, pc[r] \in {"sent", "cancel"},
         e = "reservation_cancelled" => pc[r] = "cancel", Settle(r, e, p, "over")
  PROVE  IInv'
<1> DEFINE w == Row(e, r, Min(Mine(r)))
<1>1. CASE Mine(r) # {} /\ Add(r, "settled", w, p, "over")
  <2>0. "settled" \in Journals /\ p \in Places /\ Typed
    BY DEF Journals, Places, Idle, Ended, IInv
  <2>1. w \in Rows
    <3>1. Mine(r) \subseteq Nat
      BY <2>0 DEF Mine, Outstanding, Reservations, Events, Typed, Journals
    <3>2. \A x, y \in Mine(r) : x = y
      BY DEF IInv, Holds, Busy
    <3>3. Min(Mine(r)) \in Nat
      BY <1>1, <3>1, <3>2, TheOnly
    <3> QED BY <3>3 DEF Row, Rows, Happenings
  <2>2. /\ Typed' /\ open' = open
        /\ \/ Gains("settled", w) /\ pc' = [pc EXCEPT ![r] = p]
           \/ (Gains("settled", Torn) \/ rows' = rows) /\ pc' = [pc EXCEPT ![r] = "over"]
    BY <1>1, <2>0, <2>1, AddCases
  <2>3. CASE Gains("settled", w) /\ pc' = [pc EXCEPT ![r] = p]
    BY <1>1, <2>2, <2>3, SettlingStep DEF Settle
  <2>4. CASE (Gains("settled", Torn) \/ rows' = rows) /\ pc' = [pc EXCEPT ![r] = "over"]
    BY <2>0, <2>2, <2>4, AddFails DEF Settle
  <2> QED BY <2>2, <2>3, <2>4
<1>2. CASE Goto(r, "over")
  BY <1>2, GotoStep DEF Settle, Places, Ended
<1> QED BY <1>1, <1>2 DEF Settle

LEMMA StartStep == ASSUME IInv, NEW r \in Runs, Start(r) PROVE IInv'
<1>1. CASE Goto(r, "cancel") /\ sent' = sent
  BY <1>1, GotoStep DEF Start, At, Places, Busy
<1>2. CASE Goto(r, "sent") /\ sent' = sent \cup Mine(r)
  <2>1. /\ Typed' /\ rows' = rows /\ open' = open
    BY <1>2 DEF IInv, Typed, Goto, Busy
  <2>2. /\ Reservations' = Reservations /\ Reconciled' = Reconciled
        /\ Outstanding' = Outstanding /\ Enrolled' = Enrolled
        /\ \A q \in Runs : Mine(q)' = Mine(q)
    BY <2>1 DEF Reservations, Reconciled, Outstanding, SettledIds, Enrolled, Mine, Events
  <2>3. Mine(r) \subseteq Reservations /\ Mine(r) \cap SettledIds = {}
    BY DEF Mine, Outstanding
  <2>4. Single' /\ Asked'
    BY <1>2, <2>1, <2>2, <2>3 DEF IInv, Single, Asked, SettledIds
  <2>5. pc[r] = "start" /\ pc' = [pc EXCEPT ![r] = "sent"] /\ r \in Enrolled
    BY <1>2 DEF Start, At, Goto, IInv, Listed, Busy
  <2>6. ASSUME NEW q \in Runs
        PROVE  /\ pc'[q] \in Early \cup Idle => Mine(q)' = {}
               /\ pc'[q] \in Busy => \A x, y \in Mine(q)' : x = y
               /\ pc'[q] \in {"start", "cancel"} => Mine(q)' \cap sent' = {}
    <3>1. CASE q = r
      <4>1. pc'[q] = "sent"
        BY <2>5, <3>1 DEF IInv, Typed
      <4>2. \A x, y \in Mine(q) : x = y
        BY <2>5, <3>1 DEF IInv, Holds, Busy
      <4> QED BY <2>2, <4>1, <4>2 DEF Early, Idle
    <3>2. CASE q # r
      <4>1. Mine(q)' = Mine(q) /\ pc'[q] = pc[q]
        BY <2>2, <2>5, <2>6, <3>2 DEF IInv, Typed
      <4>2. Mine(q) \cap Mine(r) = {}
        BY <3>2 DEF Mine
      <4> QED BY <1>2, <4>1, <4>2, <2>6 DEF IInv, Holds
    <3> QED BY <3>1, <3>2
  <2>7. Holds'
    BY <2>6 DEF Holds
  <2>8. Listed'
    <3>1. \A q \in Runs : pc'[q] \in Idle \cup Busy => q \in Enrolled'
      BY <2>2, <2>5 DEF IInv, Listed, Typed
    <3> QED BY <2>1, <2>2, <3>1 DEF IInv, Listed
  <2>9. Within'
    BY <2>1, <2>2 DEF IInv, Within, Used, Reserved
  <2> QED BY <2>1, <2>4, <2>7, <2>8, <2>9 DEF IInv
<1> QED BY <1>1, <1>2 DEF Start

LEMMA RunStep == ASSUME IInv, NEW r \in Runs, Step(r) PROVE IInv'
<1>1. CASE Written(r)
  <2>1. Typed' /\ UNCHANGED <<rows, sent, open, pc>>
    BY <1>1 DEF IInv, Typed, Written
  <2>2. \A q \in Runs : Turns(q)
    BY <2>1 DEF Turns
  <2> QED BY <2>1, <2>2, QuietStep
<1>2. CASE CreateStore(r)
  BY <1>2, GotoStep DEF CreateStore, At, Places, Early
<1>3. CASE Enrol(r)
  BY <1>3, EnrolStep
<1>4. CASE Attest(r) \/ Stage(r) \/ Finish(r)
  BY <1>4, GotoStep DEF Attest, Stage, Finish, At, Places, Idle, Ended
<1>5. CASE Look(r)
  BY <1>5, GotoStep DEF Look, At, Places, Idle, Ended
<1>6. CASE Reserve(r)
  BY <1>6, ReserveStep
<1>7. CASE Start(r)
  BY <1>7, StartStep
<1>8. CASE Cancel(r)
  BY <1>8, SettleStep DEF Cancel, At
<1>9. CASE Answer(r)
  BY <1>9, SettleStep DEF Answer, At
<1>10. CASE ProviderFails(r)
  BY <1>10, GotoStep DEF ProviderFails, At, Places, Ended
<1>11. CASE Total(r)
  BY <1>11, GotoStep DEF Total, At, Places, Idle, Ended
<1> QED BY <1>1, <1>2, <1>3, <1>4, <1>5, <1>6, <1>7, <1>8, <1>9, <1>10, <1>11 DEF Step

LEMMA TrustStep ==
  ASSUME IInv, NEW status \in {"distrusted", "active"}, SetRootTrust(status)
  PROVE  IInv'
<1> DEFINE w == Row(status, None, 0)
<1>1. /\ Typed /\ w \in Rows /\ "registry" \in Journals /\ w.event # "reservation_created"
      /\ "registry" # "settled"
  BY DEF IInv, Row, Rows, Happenings, Journals
<1>2. Gains("registry", w) /\ UNCHANGED <<pc, sent, open>>
  BY DEF SetRootTrust, Gains
<1>3. Typed'
  <2>1. rows' \in [Journals -> Seq(Rows)]
    BY <1>1, <1>2, GainType
  <2> QED BY <1>1, <1>2, <2>1 DEF Typed, SetRootTrust
<1>4. \A q \in Runs : Turns(q)
  BY <1>2 DEF Turns
<1> QED BY <1>1, <1>2, <1>3, <1>4, OtherStep

LEMMA NextInv == IInv /\ [Next]_vars => IInv'
<1> SUFFICES ASSUME IInv, [Next]_vars PROVE IInv'
  OBVIOUS
<1> USE DEF Ended
<1>1. ASSUME NEW r \in Runs, Step(r) PROVE IInv'
  BY <1>1, RunStep
<1>2. ASSUME NEW r \in Runs, Crash(r) PROVE IInv'
  <2>1. UNCHANGED <<rows, sent, open>> /\ Typed'
    BY <1>2 DEF Crash, IInv, Typed, Free, Journals
  <2>2. \A q \in Runs : Turns(q)
    BY <1>2 DEF Crash, Turns, IInv, Typed
  <2> QED BY <2>1, <2>2, QuietStep
<1>3. CASE WriteAnchor
  <2>1. UNCHANGED <<rows, sent, open>> /\ Typed'
    BY <1>3 DEF WriteAnchor, IInv, Typed, Free, Journals
  <2>2. \A q \in Runs : Turns(q)
    BY <1>3 DEF WriteAnchor, Turns, IInv, Typed
  <2> QED BY <2>1, <2>2, QuietStep
<1>4. CASE \/ \E r \in Runs : Resume(r) \/ Remove(r)
           \/ ReadRegistry \/ Reanchor \/ UNCHANGED vars
  <2>1. UNCHANGED <<rows, sent, pc, lock, open>>
    BY <1>4 DEF Resume, Remove, ReadRegistry, Reanchor, vars
  <2>2. Typed' /\ \A q \in Runs : Turns(q)
    BY <2>1 DEF IInv, Typed, Turns
  <2> QED BY <2>1, <2>2, QuietStep
<1>5. CASE Reset
  <2>1. UNCHANGED <<rows, sent, pc, lock>> /\ open' = FALSE
    BY <1>5 DEF Reset
  <2>2. Typed' /\ \A q \in Runs : Turns(q)
    BY <2>1 DEF IInv, Typed, Turns
  <2>3. ~open'
    BY <2>1
  <2> QED BY <2>1, <2>2, <2>3, QuietStep
<1>6. ASSUME NEW status \in {"distrusted", "active"}, SetRootTrust(status) PROVE IInv'
  BY <1>6, TrustStep
<1> QED BY <1>1, <1>2, <1>3, <1>4, <1>5, <1>6 DEF Next

----------------------------------------------------------------------------
(* The theorems.                                                           *)

\* Journals, reservations and what every run holds of them are consistent in every
\* state that is reached.
THEOREM AlwaysInv == Spec => []IInv
BY InitInv, NextInv, PTL DEF Spec

\* What is asked for is settled by at most one row, and that one reconciles it.
LEMMA InvKeepsWindow == IInv => WindowKept
<1> SUFFICES ASSUME IInv PROVE WindowKept
  OBVIOUS
<1>1. ASSUME NEW i \in sent
      PROVE  LET ends == {k \in DOMAIN rows["settled"] : rows["settled"][k].of = i}
             IN  Cardinality(ends) <= 1 /\ ends \subseteq Reconciled
  <2> DEFINE ends == {k \in DOMAIN rows["settled"] : rows["settled"][k].of = i}
  <2>1. i # 0
    BY <1>1 DEF IInv, Asked, Reservations, Events, Typed, Journals
  <2>2. \A k, m \in ends : k = m
    BY <2>1 DEF IInv, Single
  <2>3. ends \subseteq Reconciled
    BY <1>1 DEF IInv, Asked, Reconciled, Events
  <2>4. Cardinality(ends) <= 1
    <3>1. CASE ends = {}
      BY <3>1, FS_EmptySet
    <3>2. CASE ends # {}
      <4>1. PICK k \in ends : ends = {k}
        BY <2>2, <3>2
      <4>2. Cardinality({k}) = 1
        BY FS_Singleton
      <4> QED BY <4>1, <4>2
    <3> QED BY <3>1, <3>2
  <2> QED BY <2>3, <2>4
<1>2. (open => Used + Reserved <= Limit) /\ sent \subseteq Reservations
  BY DEF IInv, Within, Asked
<1> QED BY <1>1, <1>2 DEF WindowKept

\* The window is not overdrawn before it resets, and no call that was made is
\* forgotten or taken back, with any number of runs, crashes and torn writes.
THEOREM WindowAlwaysKept == Spec => []WindowKept
BY AlwaysInv, InvKeepsWindow, PTL

\* Only reserve makes a reservation, and it looks at the coverage first.
LEMMA ReservesSeeing == IInv /\ [Next]_vars /\ Reservations' # Reservations => Covered
<1> SUFFICES ASSUME IInv, [Next]_vars, ~Covered PROVE Reservations' = Reservations
  OBVIOUS
<1>0. /\ Typed /\ "registry" \in Journals /\ "settled" \in Journals /\ "registry" # "settled"
      /\ Torn \in Rows /\ Torn.event = "torn"
  BY DEF IInv, Journals, Torn, Row, Rows, Happenings
<1>1. ASSUME NEW w \in Rows, Gains("registry", w), w.event # "reservation_created"
      PROVE  Reservations' = Reservations
  BY <1>0, <1>1, OtherRow
<1>2. ASSUME rows'["registry"] = rows["registry"]
      PROVE  Reservations' = Reservations
  BY <1>2 DEF Reservations, Events
<1>3. ASSUME NEW r \in Runs, Enrol(r) PROVE Reservations' = Reservations
  <2> DEFINE w == Row("run_enrolled", r, 0)
  <2>1. w \in Rows /\ w.event = "run_enrolled"
    BY DEF Row, Rows, Happenings
  <2>2. rows' = rows \/ Gains("registry", w) \/ Gains("registry", Torn)
    BY <1>3 DEF Enrol, Add, Goto, Gains
  <2> QED BY <1>0, <1>1, <1>2, <2>1, <2>2
<1>4. ASSUME NEW r \in Runs, Reserve(r) PROVE Reservations' = Reservations
  BY <1>2, <1>4 DEF Reserve, Goto
<1>5. ASSUME NEW r \in Runs, Cancel(r) \/ Answer(r) PROVE Reservations' = Reservations
  <2>1. \/ rows' = rows
        \/ \E w : rows' = [rows EXCEPT !["settled"] = Append(@, w)]
    BY <1>5 DEF Cancel, Answer, Settle, Add, Goto
  <2>2. rows'["registry"] = rows["registry"]
    BY <1>0, <2>1 DEF Typed
  <2> QED BY <1>2, <2>2
<1>6. ASSUME NEW status \in {"distrusted", "active"}, SetRootTrust(status)
      PROVE  Reservations' = Reservations
  <2> DEFINE w == Row(status, None, 0)
  <2>1. w \in Rows /\ w.event # "reservation_created"
    BY DEF Row, Rows, Happenings
  <2>2. Gains("registry", w)
    BY <1>6 DEF SetRootTrust, Gains
  <2> QED BY <1>1, <2>1, <2>2
<1>7. ASSUME NEW r \in Runs,
             \/ Written(r) \/ CreateStore(r) \/ Attest(r) \/ Stage(r) \/ Finish(r)
             \/ Look(r) \/ Start(r) \/ ProviderFails(r) \/ Total(r)
             \/ Crash(r) \/ Resume(r) \/ Remove(r)
      PROVE  Reservations' = Reservations
  <2>1. rows' = rows
    BY <1>7 DEF Written, CreateStore, Attest, Stage, Finish, Look, Start, ProviderFails,
                Total, Crash, Resume, Remove, Goto
  <2> QED BY <1>2, <2>1
<1>8. CASE WriteAnchor \/ Reset \/ ReadRegistry \/ Reanchor \/ UNCHANGED vars
  <2>1. rows' = rows
    BY <1>8 DEF WriteAnchor, Reset, ReadRegistry, Reanchor, vars
  <2> QED BY <1>2, <2>1
<1> QED BY <1>3, <1>4, <1>5, <1>6, <1>7, <1>8 DEF Next, Step

LEMMA SpendersEnrolled == IInv => Spenders \subseteq Enrolled
BY DEF IInv, Listed, Asked, Spenders

\* Nobody reserves without sound evidence of every run that asked a provider.
THEOREM NeverReservesBlind == Spec => NeverBlind
<1>1. IInv /\ [Next]_vars =>
        (Reservations' # Reservations => \A r \in Spenders : store[r] \in Sound)
  BY ReservesSeeing, SpendersEnrolled DEF Covered
<1> QED BY <1>1, AlwaysInv, PTL DEF Spec, NeverBlind
=============================================================================
