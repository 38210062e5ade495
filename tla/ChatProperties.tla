--------------------------- MODULE ChatProperties ---------------------------
EXTENDS Chat

(* A turn whose record ends in completed, failed or cancelled has no process *)
(* left, whichever of the three threads wrote the record.                   *)
SettledMeansGone ==
  \A i \in DOMAIN rows :
    rows[i].event \in Terminal \ {Uncertain} => tree[rows[i].turn] \in {"none", "gone"}

(* A serving coordinator never loses the turn it runs: an open turn of its  *)
(* own is the active one, so that it can be cancelled, however late the     *)
(* threads of an earlier turn finish.  A row that failed is the exception.  *)
NoForgottenTurn ==
  \A t \in Turns :
    /\ Open(rows, t) /\ t \notin lost /\ Serving(home[t])
    => active[home[t]] = t \/ submitter[t] \in {"spawning", "unspawned"}

Asked == {t \in Turns : Row("turn_cancellation_requested", t) \in Range(rows)}

(* The transcript shows a turn as running exactly while the journal has it  *)
(* started and open.                                                        *)
ScreenTruthful ==
  LET shown == Transcript(rows)
      t == ActiveTurn(rows)
      started == t # NoTurn /\ LastOf(rows, t) # "turn_submitted"
  IN /\ shown.state \in {"running", "cancelling"} <=> started
     /\ started => shown.turn = t

(* A turn that was cancelled, or whose tree is gone, comes to a terminal    *)
(* row, unless a row of it failed or its service died.                      *)
TurnsEnd ==
  \A t \in Turns :
    (t \in Asked \/ tree[t] = "gone")
      ~> (Settled(rows, t) \/ t \in lost \/ ~Serving(home[t]))
=============================================================================
