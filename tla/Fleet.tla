-------------------------------- MODULE Fleet --------------------------------
(***************************************************************************)
(* The Fleet server (interfaces/fleet_http.py, application/               *)
(* fleet_controls.py, the state file of application/supervisor.py):        *)
(* threads that answer one browser over connections that may break.  A     *)
(* mutation consumes the session its cookie names and answers with the     *)
(* cookie of a new one; a replayable mutation may present the cookie of    *)
(* the session before, for a recorded answer only.  Commands on the run    *)
(* are listed as pending until the evidence covers them, and an            *)
(* abandonment takes a confirmation issued for the state it was shown for. *)
(*                                                                         *)
(* Sessions and confirmations are numbered as they are issued.  What the   *)
(* services do is the subject of other modules: here a call is recorded,   *)
(* succeeds, refuses, or raises what the handler does not catch.           *)
(***************************************************************************)
EXTENDS Integers, Sequences, FiniteSets, Bags

CONSTANTS
  Slots,       \* connections of the browser
  Kinds,       \* requests it sends, over each of them
  Corrs,       \* correlation ids of its commands
  Streams,     \* event streams at a time: BoundedSemaphore(4), one for each kind
  Capacity,    \* bound of open confirmations: _MAX_RECOVERY_CONFIRMATIONS
  MaxTokens,   \* bound: sessions issued
  MaxSeq,      \* bound: receipts of the run
  MaxFaults    \* bound: broken connections, uncaught errors, expiries

Commands == {"context", "resolve", "recover"}
Controls == Commands \cup {"confirm"}
Chats == {"chat", "cancel"}
Tasks == {"start", "draft"}              \* _task_post and _review_post
Replayable == {"start"}
Direct == Tasks \cup {"cancel"}          \* no look at the run before the body
Events == {"events", "talk"}             \* event streams of the run, of the chat
Reads == {"read"} \cup Events

ASSUME FleetAssumption ==
  /\ Kinds \in [Slots -> SUBSET (Controls \cup Chats \cup Direct \cup Reads)]
  /\ {Streams, Capacity, MaxTokens, MaxSeq, MaxFaults} \subseteq Nat

VARIABLES
  tokens,       \* sessions issued; 0 before the bootstrap nonce is spent
  live,         \* _sessions
  readOnly,     \* session objects marked read_only
  expired,      \* of live: idle or too old
  recovery,     \* _read_recovery: <<old, new>>
  pending,      \* _pending: <<correlation, expected sequence or 0>>
  grants,       \* confirmations issued, in order
  unused,       \* _recovery_confirmations
  seq, closed,  \* the run the projector shows
  closedBy,     \* <<confirmation, sequence>> the run was abandoned with
  lifecycle,    \* the supervisor's state of the run; "over" is abandoned, failed
                \* (both closed as well) or workflow_reconciled
  jar,          \* the browser's cookie
  req,          \* request of each connection
  calls,        \* bag of <<cookie, session>>: service calls that may change state
  excused,      \* a session was lost to the clock, a broken upload or an error
  faults

sessions == <<tokens, live, readOnly, expired, recovery>>
controls == <<pending, grants, unused>>
run == <<seq, closed, closedBy, lifecycle>>
vars == <<sessions, controls, run, jar, req, calls, excused, faults>>

Idle == [kind |-> "read", at |-> "idle", cookie |-> 0, session |-> 0,
         replay |-> FALSE, corr |-> 0, conf |-> 0, snap |-> 0, token |-> 0,
         guarded |-> FALSE]

Init ==
  /\ tokens = 0 /\ live = {} /\ readOnly = {} /\ expired = {} /\ recovery = {}
  /\ pending = {} /\ grants = <<>> /\ unused = {}
  /\ seq = 0 /\ closed = FALSE /\ closedBy = <<0, 0>> /\ lifecycle = "running"
  /\ jar = 0 /\ req = [q \in Slots |-> Idle]
  /\ calls = EmptyBag /\ excused = FALSE /\ faults = 0

------------------------------------------------------------------------------
(* Steps shared by the handlers.                                            *)

At(q, phase) == req[q].at = phase
Kind(q) == req[q].kind
Session(q) == req[q].session
Goto(q, phase) == req' = [req EXCEPT ![q].at = phase]
Fault == faults < MaxFaults /\ faults' = faults + 1

\* rotate: the session object given may already have been rotated.
Rotate(s, marked) ==
  /\ tokens < MaxTokens
  /\ tokens' = tokens + 1
  /\ live' = (live \ {s}) \cup {tokens + 1}
  /\ readOnly' = IF s \in marked THEN marked \cup {tokens + 1} ELSE marked
  /\ recovery' = {p \in recovery : s \notin {p[1], p[2]}} \cup {<<s, tokens + 1>>}
  /\ expired' = expired \ {s}

\* _json: guarded when a try around it catches OSError and rotates again.  An
\* answer that sets no cookie changes nothing when it arrives.
Reply(q, token, guarded) ==
  req' = [req EXCEPT ![q] =
    IF guarded THEN [@ EXCEPT !.at = "reply", !.token = token, !.guarded = TRUE]
    ELSE IF token > 0 THEN [Idle EXCEPT !.at = "reply", !.token = token]
    ELSE Idle]

RotateAndReply(q, guarded) ==
  Rotate(Session(q), readOnly) /\ Reply(q, tokens + 1, guarded)

Without(corr) == {p \in pending : p[1] # corr}
Begun(corr) == \E p \in pending : p[1] = corr
\* envelope: what the evidence covers is pending no longer.
Prune == pending' = {p \in pending : p[2] = 0 \/ p[2] > seq}

\* A refusal before the command's correlation is known: a replay keeps the session.
Decline(q) ==
  /\ IF req[q].replay THEN Reply(q, 0, FALSE) /\ UNCHANGED sessions
                      ELSE RotateAndReply(q, FALSE)
  /\ UNCHANGED <<controls, run, jar, calls, excused, faults>>

\* Wrong on purpose: a refusal that answers without a new session.
RefuseBare(q, unusedAfter) ==
  /\ Reply(q, 0, FALSE)
  /\ unusedAfter = unused
  /\ UNCHANGED <<sessions, controls, run, jar, excused, faults>>

\* The handlers of refusals: a replay keeps the session, a command is dropped.
Refuse(q, unusedAfter) ==
  /\ IF req[q].replay THEN Reply(q, 0, FALSE) /\ UNCHANGED sessions
                      ELSE RotateAndReply(q, FALSE)
  /\ pending' = IF Kind(q) \in Controls THEN Without(req[q].corr) ELSE pending
  /\ unused' = unusedAfter
  /\ UNCHANGED <<grants, run, jar, excused, faults>>

------------------------------------------------------------------------------
(* The browser and the connection.                                          *)

\* exchange: the nonce is good once.
Bootstrap ==
  /\ tokens = 0 /\ tokens' = 1 /\ live' = {1} /\ jar' = 1
  /\ UNCHANGED <<readOnly, expired, recovery, controls, run, req, calls, excused, faults>>

Send(q, kind, corr, conf) ==
  /\ At(q, "idle") /\ tokens > 0
  /\ kind \in Controls \/ corr = CHOOSE c \in Corrs : TRUE
  /\ IF kind = "recover" THEN conf \in DOMAIN grants ELSE conf = 0
  /\ req' = [req EXCEPT ![q] = [Idle EXCEPT !.kind = kind, !.at = "sent",
                                  !.cookie = jar, !.corr = corr, !.conf = conf]]
  /\ UNCHANGED <<sessions, controls, run, jar, calls, excused, faults>>

Deliver(q) ==
  /\ At(q, "reply")
  /\ jar' = req[q].token
  /\ req' = [req EXCEPT ![q] = Idle]
  /\ UNCHANGED <<sessions, controls, run, calls, excused, faults>>

\* The answer is lost after the server has written it.
Lose(q) ==
  /\ At(q, "reply") /\ Fault
  /\ req' = [req EXCEPT ![q] = Idle]
  /\ UNCHANGED <<sessions, controls, run, jar, calls, excused>>

\* Writing the answer fails: a guarded answer is followed by a second rotation.
WriteFails(q) ==
  /\ At(q, "reply") /\ req[q].guarded /\ Fault
  /\ Rotate(Session(q), readOnly)
  /\ pending' = IF Kind(q) \in Controls THEN Without(req[q].corr) ELSE pending
  /\ req' = [req EXCEPT ![q] = Idle]
  /\ UNCHANGED <<grants, unused, run, jar, calls, excused>>

\* idle_seconds or absolute_seconds pass.
Expire ==
  /\ live \ expired # {} /\ Fault
  /\ expired' = live /\ excused' = TRUE
  /\ UNCHANGED <<tokens, live, readOnly, recovery, controls, run, jar, req, calls>>

\* Another writer of the run: its engine or the command line.
Advance ==
  /\ ~closed /\ seq < MaxSeq /\ seq' = seq + 1
  /\ closed' \in BOOLEAN
  /\ UNCHANGED <<sessions, controls, closedBy, lifecycle, jar, req, calls, excused, faults>>

Outside == <<sessions, controls, closedBy, jar, req, calls, excused, faults>>

\* update: a worker registers, unless the state is final.
Work ==
  /\ lifecycle = "recovery_required" /\ lifecycle' = "running"
  /\ UNCHANGED <<seq, closed, Outside>>
\* mark_orphaned: the worker is gone.
Orphan ==
  /\ lifecycle = "running" /\ lifecycle' = "recovery_required"
  /\ UNCHANGED <<seq, closed, Outside>>
\* record_workflow_reconciliation: no worker, and not final already.
Reconcile ==
  /\ lifecycle = "recovery_required" /\ lifecycle' = "over"
  /\ UNCHANGED <<seq, closed, Outside>>
\* interrupt_attempt: the interruption and the decision, then the state.
InterruptAttempt ==
  /\ ~closed /\ seq + 2 <= MaxSeq
  /\ seq' = seq + 2 /\ closed' = TRUE /\ lifecycle' = "over"
  /\ UNCHANGED Outside

------------------------------------------------------------------------------
(* Reads.                                                                   *)

Usable(t) == t \in live \ expired
\* fleet_envelope: what makes the session it is asked with read-only.
Final == closed \/ lifecycle = "over"
Downgrade(t) == readOnly' = IF Final THEN readOnly \cup {t} ELSE readOnly

\* do_GET: authenticate.  A stream goes on to take a slot, which is given back at
\* its end, however it ends.
Free(kind) == Cardinality({q \in Slots : At(q, "stream") /\ Kind(q) = kind}) < Streams
Authenticate(q) ==
  /\ At(q, "sent") /\ Kind(q) \in Reads
  /\ LET c == req[q].cookie
         next == IF Kind(q) \in Events THEN "stream" ELSE "held"
     IN  \/ /\ Usable(c) /\ (Kind(q) \in Events => Free(Kind(q)))
            /\ req' = [req EXCEPT ![q].at = next, ![q].session = c]
            /\ UNCHANGED live
         \/ /\ Usable(c) /\ Kind(q) \in Events /\ ~Free(Kind(q))
            /\ Reply(q, 0, FALSE) /\ UNCHANGED live
         \/ /\ ~Usable(c) /\ Reply(q, 0, FALSE) /\ live' = live \ {c}
  /\ expired' = expired \ {req[q].cookie}
  /\ UNCHANGED <<tokens, readOnly, recovery, controls, run, jar, calls, excused, faults>>

\* The routes that show the run.
Envelope(q) ==
  /\ At(q, "held") /\ Kind(q) = "read"
  /\ Downgrade(Session(q)) /\ Prune /\ Reply(q, 0, FALSE)
  /\ UNCHANGED <<tokens, live, expired, recovery, grants, unused, run, jar, calls,
                 excused, faults>>

\* The routes that show a task, a review, an application or the chat.
Look(q) ==
  /\ At(q, "held") /\ Kind(q) = "read" /\ Reply(q, 0, FALSE)
  /\ UNCHANGED <<sessions, controls, run, jar, calls, excused, faults>>

\* _events: a frame shows the run, and asks for it with the cookie it came with.
Frame(q) ==
  /\ At(q, "stream") /\ Kind(q) = "events" /\ Usable(req[q].cookie)
  /\ Downgrade(req[q].cookie) /\ Prune
  /\ IF closed THEN Reply(q, 0, FALSE) ELSE UNCHANGED req
  /\ UNCHANGED <<tokens, live, expired, recovery, grants, unused, run, jar, calls,
                 excused, faults>>

\* _chat_events and _events: before every frame the cookie is looked up again.  The
\* frames of the chat change nothing.
Ended(q) ==
  /\ At(q, "stream") /\ ~Usable(req[q].cookie)
  /\ live' = live \ {req[q].cookie} /\ expired' = expired \ {req[q].cookie}
  /\ Reply(q, 0, FALSE)
  /\ UNCHANGED <<tokens, readOnly, recovery, controls, run, jar, calls, excused, faults>>

\* Thirty seconds are over, or the browser is gone.
Close(q) ==
  /\ At(q, "stream") /\ Reply(q, 0, FALSE)
  /\ UNCHANGED <<sessions, controls, run, jar, calls, excused, faults>>

------------------------------------------------------------------------------
(* Mutations.                                                               *)

Recovered(c) == {p[2] : p \in {p \in recovery : p[1] = c}} \cap live

\* Wrong on purpose: the session is looked up and stays.
ClaimPeek(q) ==
  /\ At(q, "sent") /\ Kind(q) \notin Reads /\ Usable(req[q].cookie)
  /\ req' = [req EXCEPT ![q].at = "held", ![q].session = req[q].cookie]
  /\ UNCHANGED <<sessions, controls, run, jar, calls, excused, faults>>

\* claim_mutation, then recover_rotated_session for a replayable request.
Claim(q) ==
  /\ At(q, "sent") /\ Kind(q) \notin Reads
  /\ LET c == req[q].cookie
         next == IF Kind(q) \in Replayable THEN Recovered(c) ELSE {}
     IN  \/ /\ Usable(c) /\ live' = live \ {c}
            /\ req' = [req EXCEPT ![q].at = "held", ![q].session = c]
            /\ UNCHANGED <<expired, recovery>>
         \/ /\ ~Usable(c) /\ next \cap expired = {} /\ next # {}
            /\ \E t \in next :
                 req' = [req EXCEPT ![q].at = "held", ![q].session = t, ![q].replay = TRUE]
            /\ UNCHANGED <<live, expired, recovery>>
         \/ /\ ~Usable(c) /\ next \subseteq expired
            /\ live' = live \ {c} /\ expired' = expired \ {c}
            /\ recovery' = IF next = {} THEN recovery ELSE {p \in recovery : p[1] # c}
            /\ Reply(q, 0, FALSE)
  /\ UNCHANGED <<tokens, readOnly, controls, run, jar, calls, excused, faults>>

\* A read-only session, or an Origin that is not the server's.
Deny(q) ==
  /\ At(q, "held") /\ Kind(q) \notin Reads
  /\ RotateAndReply(q, FALSE)
  /\ UNCHANGED <<controls, run, jar, calls, excused, faults>>

Writable(q) == At(q, "held") /\ Session(q) \notin readOnly
Unhandled == <<sessions, grants, unused, run, jar, calls, excused, faults>>

\* No look at the run (task and review routes, chat cancel).
Enter(q) ==
  /\ Writable(q) /\ Kind(q) \in Direct /\ Goto(q, "body")
  /\ UNCHANGED <<pending, Unhandled>>

\* preflight_chat_submit: a closed run makes the session read-only.
Preflight(q) ==
  /\ Writable(q) /\ Kind(q) = "chat"
  /\ IF closed
       THEN Rotate(Session(q), readOnly \cup {Session(q)}) /\ Reply(q, tokens + 1, FALSE)
       ELSE Goto(q, "body") /\ UNCHANGED sessions
  /\ UNCHANGED <<controls, run, jar, calls, excused, faults>>

\* compose_fleet_envelope
Mutable(kind) ==
  /\ ~closed
  /\ kind \in {"confirm", "recover"} => lifecycle = "recovery_required"

\* do_POST: the snapshot a command is judged by.  It is refused as well while the
\* evidence behind it is not verified, as it is not between two writes of a receipt.
Eligible(q) ==
  /\ Writable(q) /\ Kind(q) \in Controls
  /\ Prune
  /\ \/ RotateAndReply(q, FALSE)
     \/ /\ Mutable(Kind(q))
        /\ req' = [req EXCEPT ![q].at = "body", ![q].snap = seq]
        /\ UNCHANGED sessions
  /\ UNCHANGED <<grants, unused, run, jar, calls, excused, faults>>

\* _read_task_payload refuses; a connection that breaks takes the session along.
ReadTask(q) ==
  /\ At(q, "body") /\ Kind(q) \in Tasks
  /\ \/ Decline(q)
     \/ /\ Fault
        /\ req' = [req EXCEPT ![q] = Idle] /\ excused' = (excused \/ ~req[q].replay)
        /\ UNCHANGED <<sessions, controls, run, jar, calls>>

\* The session is renewed for nobody to hear of it.
Unheard(q) ==
  /\ Fault /\ Rotate(Session(q), readOnly) /\ req' = [req EXCEPT ![q] = Idle]
  /\ UNCHANGED <<controls, run, jar, calls, excused>>

\* _read_chat_payload, _read_control_payload and the reader of contexts.
ReadChat(q) == At(q, "body") /\ Kind(q) \in Chats /\ (Decline(q) \/ Unheard(q))
ReadControl(q) ==
  At(q, "body") /\ Kind(q) \in Controls \ {"context"} /\ (Decline(q) \/ Unheard(q))
ReadContext(q) == At(q, "body") /\ Kind(q) = "context" /\ (Decline(q) \/ Unheard(q))

\* The fields around a correlation are not what the route asks for.
Malformed(q) ==
  /\ At(q, "body") /\ Kind(q) \in Controls \ {"context"}
  /\ Refuse(q, unused) /\ UNCHANGED calls

\* confirmation_seconds have passed since the first n were issued.
Fresh(n) == {i \in unused : i > n}

\* issue_recovery_confirmation: it asks again whether recovery is required, and
\* drops what is pending by the snapshot it is given.
Confirm(q) ==
  /\ At(q, "body") /\ Kind(q) = "confirm"
  /\ \E n \in 0..Len(grants) :
     LET rest == {i \in Fresh(n) : grants[i].corr # req[q].corr}
         left == {p \in pending : p[2] = 0 \/ p[2] > req[q].snap}
         required == lifecycle = "recovery_required"
     IN  IF required /\ Cardinality(rest) < Capacity
           THEN /\ grants' = Append(grants, [corr |-> req[q].corr, seq |-> req[q].snap])
                /\ unused' = rest \cup {Len(grants) + 1}
                /\ pending' = left
                /\ RotateAndReply(q, TRUE)
           ELSE /\ unused' = IF required THEN rest ELSE unused
                /\ pending' = {p \in left : p[1] # req[q].corr}
                /\ RotateAndReply(q, FALSE)
                /\ UNCHANGED grants
  /\ UNCHANGED <<run, jar, calls, excused, faults>>

\* Wrong on purpose: the confirmation is for the command, whatever the run shows by now.
MatchesAny(i, q) == grants[i].corr = req[q].corr

Matches(i, q) == grants[i] = [corr |-> req[q].corr, seq |-> req[q].snap]

\* consume_recovery_confirmation takes the confirmation off whatever it says;
\* begin refuses a correlation that is pending already.
Begin(q) ==
  /\ At(q, "body") /\ Kind(q) \in Commands
  /\ \E n \in IF Kind(q) = "recover" THEN 0..Len(grants) ELSE {0} :
     LET i == req[q].conf
         given == Kind(q) = "recover" => i \in Fresh(n) /\ Matches(i, q)
     IN  IF given /\ ~Begun(req[q].corr)
           THEN /\ pending' = pending \cup {<<req[q].corr, 0>>}
                /\ unused' = Fresh(n) \ {i}
                /\ Goto(q, "call")
                /\ UNCHANGED <<sessions, grants, run, jar, excused, faults>>
           ELSE Refuse(q, Fresh(n) \ {i})
  /\ UNCHANGED calls

Calling(q) ==
  \/ At(q, "call")
  \/ At(q, "body") /\ Kind(q) \in Direct \cup Chats

\* A replay only looks a recorded answer up.
Called(q) == IF req[q].replay THEN calls
             ELSE calls (+) SetToBag({<<req[q].cookie, Session(q)>>})

\* The service does what it is asked: start, replay_start, save_draft and the rest.
CallTask(q) ==
  /\ At(q, "body") /\ Kind(q) \in Tasks
  /\ calls' = Called(q) /\ Goto(q, "done")
  /\ UNCHANGED <<sessions, controls, run, jar, excused, faults>>
\* submit or cancel of the chat.
CallChat(q) ==
  /\ At(q, "body") /\ Kind(q) \in Chats
  /\ calls' = Called(q) /\ Goto(q, "done")
  /\ UNCHANGED <<sessions, controls, run, jar, excused, faults>>

\* A receipt is appended for the command.
Receipt(q) ==
  /\ ~closed /\ seq < MaxSeq /\ seq' = seq + 1
  /\ req' = [req EXCEPT ![q].at = "done", ![q].snap = seq + 1]
  /\ calls' = Called(q)
  /\ UNCHANGED <<sessions, controls, jar, excused, faults>>

\* inject, inject_artifact
CallContext(q) ==
  /\ At(q, "call") /\ Kind(q) = "context" /\ Receipt(q)
  /\ UNCHANGED <<closed, closedBy, lifecycle>>
\* resolve_action
CallResolve(q) ==
  /\ At(q, "call") /\ Kind(q) = "resolve" /\ Receipt(q)
  /\ closed' = TRUE /\ UNCHANGED <<closedBy, lifecycle>>
\* abandon: no worker registers meanwhile, and the state given is the run's.
CallAbandon(q) ==
  /\ At(q, "call") /\ Kind(q) = "recover"
  /\ lifecycle = "recovery_required" /\ req[q].snap = seq
  /\ Receipt(q)
  /\ closed' = TRUE /\ closedBy' = <<req[q].conf, seq>> /\ lifecycle' = "over"

\* It raises what the handler catches.
CallRefused(q) ==
  /\ Calling(q) /\ calls' = Called(q) /\ Refuse(q, unused)

\* It raises what the handler does not: the thread ends with the session.
CallRaises(q) ==
  /\ Calling(q) /\ Fault
  /\ calls' = Called(q)
  /\ req' = [req EXCEPT ![q] = Idle]
  /\ excused' = (excused \/ ~req[q].replay)
  /\ UNCHANGED <<sessions, controls, run, jar>>

\* The answer of a task, a review or a chat.
FinishTask(q) ==
  /\ At(q, "done") /\ Kind(q) \in Tasks /\ RotateAndReply(q, FALSE)
  /\ UNCHANGED <<controls, run, jar, calls, excused, faults>>
FinishChat(q) ==
  /\ At(q, "done") /\ Kind(q) \in Chats /\ RotateAndReply(q, TRUE)
  /\ UNCHANGED <<controls, run, jar, calls, excused, faults>>

\* committed, rotate and the answer.  The mutation may have been dropped by a
\* refused request of the same correlation; a context handler does not catch that.
Committed(q) ==
  /\ pending' = Without(req[q].corr) \cup {<<req[q].corr, req[q].snap>>}
  /\ UNCHANGED <<grants, unused, run, jar, excused, faults>>
FinishContext(q) ==
  /\ At(q, "done") /\ Kind(q) = "context"
  /\ IF Begun(req[q].corr)
       THEN Committed(q) /\ RotateAndReply(q, FALSE)
       ELSE /\ req' = [req EXCEPT ![q] = Idle] /\ excused' = TRUE
            /\ UNCHANGED <<sessions, controls, run, jar, faults>>
  /\ UNCHANGED calls
FinishControl(q) ==
  /\ At(q, "done") /\ Kind(q) \in {"resolve", "recover"}
  /\ IF Begun(req[q].corr) THEN Committed(q) /\ RotateAndReply(q, TRUE)
                           ELSE Refuse(q, unused)
  /\ UNCHANGED calls

------------------------------------------------------------------------------
Next ==
  \/ Bootstrap \/ Expire \/ Advance
  \/ Work \/ Orphan \/ Reconcile \/ InterruptAttempt
  \/ \E q \in Slots :
       \/ \E kind \in Kinds[q], corr \in Corrs, conf \in 0..Len(grants) :
            Send(q, kind, corr, conf)
       \/ Deliver(q) \/ Lose(q) \/ WriteFails(q)
       \/ Authenticate(q) \/ Envelope(q) \/ Look(q)
       \/ Frame(q) \/ Ended(q) \/ Close(q)
       \/ Claim(q) \/ Deny(q) \/ Enter(q) \/ Preflight(q) \/ Eligible(q)
       \/ ReadTask(q) \/ ReadChat(q) \/ ReadControl(q) \/ ReadContext(q)
       \/ Malformed(q) \/ Confirm(q) \/ Begin(q)
       \/ CallTask(q) \/ CallChat(q) \/ CallContext(q) \/ CallResolve(q) \/ CallAbandon(q)
       \/ CallRefused(q) \/ CallRaises(q)
       \/ FinishTask(q) \/ FinishChat(q) \/ FinishContext(q) \/ FinishControl(q)

Spec == Init /\ [][Next]_vars
=============================================================================
