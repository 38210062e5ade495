---------------------------- MODULE ChatEvidence ----------------------------
(***************************************************************************)
(* The chat journal of a run (safety/chat_evidence.py): which event may    *)
(* follow which rows, and the transcript a screen folds out of them        *)
(* (application/chat_projection.py).                                       *)
(*                                                                         *)
(* A row is an event and its turn; bodies, hashes and signatures are left  *)
(* out.  So is the head outside the run: every append and every opening    *)
(* rewrites it first, so that it never trails by more than the one row     *)
(* verification tolerates.                                                 *)
(***************************************************************************)
EXTENDS Integers, Sequences, SequencesExt

CONSTANT NoTurn

Terminal == {"turn_completed", "turn_failed", "turn_cancelled",
             "turn_cancellation_uncertain"}
Row(event, turn) == [event |-> event, turn |-> turn]

Of(rows, t) == {i \in DOMAIN rows : rows[i].turn = t}
LastOf(rows, t) == rows[Max(Of(rows, t))].event
Submitted(rows, t) == Of(rows, t) # {}
Settled(rows, t) == \E i \in Of(rows, t) : rows[i].event \in Terminal
Open(rows, t) == Submitted(rows, t) /\ ~Settled(rows, t)
Submissions(rows) == {i \in DOMAIN rows : rows[i].event = "turn_submitted"}
\* The last turn submitted, until its terminal.
ActiveTurn(rows) ==
  LET last == rows[Max(Submissions(rows))].turn
  IN IF Submissions(rows) # {} /\ ~Settled(rows, last) THEN last ELSE NoTurn

\* The events that may follow a turn's last one.
After(previous) ==
  CASE previous = "turn_submitted" ->
         {"turn_started", "turn_failed", "turn_cancellation_uncertain"}
    [] previous = "turn_started" ->
         {"turn_cancellation_requested", "turn_completed", "turn_failed",
          "turn_cancellation_uncertain"}
    [] previous = "turn_cancellation_requested" ->
         {"turn_cancelled", "turn_cancellation_uncertain"}
    [] OTHER -> {}

Admits(rows, t) == ActiveTurn(rows) = NoTurn /\ ~Submitted(rows, t)
\* Wrong on purpose: a terminal is taken for any turn, settled or not.
AllowedToAny(rows, event, t) ==
  IF event = "turn_submitted" THEN Admits(rows, t)
  ELSE \/ event \in Terminal
       \/ ActiveTurn(rows) = t /\ event \in After(LastOf(rows, t))
\* _validate_next.
Allowed(rows, event, t) ==
  IF event = "turn_submitted" THEN Admits(rows, t)
  ELSE ActiveTurn(rows) = t /\ event \in After(LastOf(rows, t))

------------------------------------------------------------------------------
(* The transcript: what is shown as running, and of the last cancellation.  *)

Blank == [turn |-> NoTurn, state |-> "ready", cancellation |-> "none"]

\* Wrong on purpose: a failed turn stays on the screen.
FoldKept(shown, row) ==
  CASE row.event = "turn_started" ->
         [shown EXCEPT !.turn = row.turn, !.state = "running"]
    [] row.event \in {"turn_completed", "turn_cancelled"} -> Blank
    [] OTHER -> shown
Fold(shown, row) ==
  CASE row.event = "turn_started" ->
         [shown EXCEPT !.turn = row.turn, !.state = "running"]
    [] row.event = "turn_cancellation_requested" ->
         [shown EXCEPT !.cancellation = "requested",
                       !.state = IF shown.turn = NoTurn THEN @ ELSE "cancelling"]
    [] row.event = "turn_cancellation_uncertain" ->
         [shown EXCEPT !.cancellation = "uncertain",
                       !.state = IF shown.turn = NoTurn THEN @ ELSE "cancellation_uncertain"]
    [] row.event = "turn_cancelled" ->
         [turn |-> NoTurn, state |-> "ready", cancellation |-> "confirmed"]
    [] row.event \in {"turn_completed", "turn_failed"} ->
         [shown EXCEPT !.turn = NoTurn, !.state = "ready"]
    [] OTHER -> shown

Folded(rows) ==
  LET shown[n \in 0..Len(rows)] == IF n = 0 THEN Blank ELSE Fold(shown[n - 1], rows[n])
  IN  shown[Len(rows)]
\* reduce_chat_projection.
Transcript(rows) ==
  LET shown == Folded(rows)
  IN IF shown.turn = NoTurn /\ shown.cancellation = "uncertain"
       THEN [shown EXCEPT !.state = "cancellation_uncertain"] ELSE shown
=============================================================================
