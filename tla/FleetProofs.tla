----------------------------- MODULE FleetProofs -----------------------------
(***************************************************************************)
(* A cookie acts once, the operator keeps a session and a run is abandoned *)
(* as confirmed: for every number of connections, every set of requests,   *)
(* every capacity, and any number of broken connections and errors.        *)
(***************************************************************************)
EXTENDS FleetProperties, TLAPS

----------------------------------------------------------------------------
(* The inductive invariant.                                                *)

Phases == {"idle", "sent", "held", "body", "call", "done", "reply", "stream"}
AnyKind == (UNION {Kinds[q] : q \in Slots}) \cup {"read"}
AnyCorr == Corrs \cup {0, CHOOSE c \in Corrs : TRUE}
Requests ==
  [kind : AnyKind, at : Phases, cookie : Nat, session : Nat,
   replay : BOOLEAN, corr : AnyCorr, conf : Nat, snap : Nat, token : Nat,
   guarded : BOOLEAN]

Typed ==
  /\ tokens \in Nat /\ live \subseteq 1..tokens /\ jar \in Nat /\ seq \in Nat
  /\ req \in [Slots -> Requests] /\ excused \in BOOLEAN
  /\ grants \in Seq([corr : AnyCorr, seq : Nat])
  /\ unused \subseteq DOMAIN grants
  /\ \A q \in Slots : /\ At(q, "sent") => ~req[q].replay
                      /\ At(q, "call") => Kind(q) \in Commands

\* A request that holds the session its cookie names, and has yet to act.
Serving(q) == req[q].at \in {"held", "body", "call", "done"} /\ Kind(q) \notin Reads
Owns(q) == Serving(q) /\ ~req[q].replay
Waits(q) == Owns(q) /\ req[q].at # "done"

\* A session is live, or held by one request, or has acted, and none twice.
Single ==
  /\ \A q \in Slots : Waits(q) =>
       /\ req[q].cookie = Session(q) /\ Session(q) \in 1..tokens \ live
       /\ <<Session(q), Session(q)>> \notin DOMAIN calls
  /\ \A p, q \in Slots : Waits(p) /\ Waits(q) /\ Session(p) = Session(q) => p = q
  /\ \A c \in DOMAIN calls :
       \E n \in 1..tokens \ live : c = <<n, n>> /\ calls[c] = 1

\* Who holds a session without being a replay will answer with another.
Kept ==
  /\ excused \/ expired = {}
  /\ tokens > 0 /\ ~excused => live # {} \/ \E q \in Slots : Owns(q)

\* A confirmation is used up before its command is called, and was for the
\* state the command is called with.
Good(i, n) == i \in DOMAIN grants \ unused /\ grants[i].seq = n
Confirmed ==
  /\ \A q \in Slots : At(q, "call") /\ Kind(q) = "recover" => Good(req[q].conf, req[q].snap)
  /\ closedBy = <<0, 0>> \/ Good(closedBy[1], closedBy[2])

IInv == Typed /\ Single /\ Kept /\ Confirmed

----------------------------------------------------------------------------
(* What the properties can tell of a step.                                 *)

Others(q) == \A p \in Slots \ {q} : req'[p] = req[p]
Calls(q) ==
  \/ calls' = calls
  \/ Serving(q) /\ req[q].at # "done" /\ calls' = Called(q)

\* A new session takes the place of that of q, which has its answer.
Renews(q) ==
  /\ tokens' = tokens + 1 /\ live' = (live \ {Session(q)}) \cup {tokens + 1}
  /\ Others(q) /\ ~Serving(q)' /\ Calls(q)
\* q leaves without: a replay, a read or a loss that is excused.
Leaves(q) ==
  /\ tokens' = tokens /\ live' = live
  /\ Others(q) /\ ~Serving(q)' /\ Calls(q)
  /\ Owns(q) => excused'
\* q goes on with what it has.
GoesOn(q) ==
  /\ tokens' = tokens /\ live' = live /\ excused' = excused /\ Others(q)
  /\ Serving(q) /\ Serving(q)'
  /\ req'[q].cookie = req[q].cookie /\ req'[q].session = req[q].session
  /\ req'[q].replay = req[q].replay
  /\ \/ calls' = calls /\ req[q].at # "done"
     \/ Calls(q) /\ req'[q].at = "done"
\* q takes the session its cookie names.
Takes(q) ==
  /\ tokens' = tokens /\ req[q].cookie \in live /\ live' = live \ {req[q].cookie}
  /\ Others(q) /\ calls' = calls /\ ~Serving(q)
  /\ req'[q].cookie = req[q].cookie /\ req'[q].session = req[q].cookie
  /\ Owns(q)'
\* Nothing that matters to sessions, unless some are too old.
Passes(q) ==
  /\ tokens' = tokens /\ live' \subseteq live /\ (live' = live \/ excused')
  /\ Others(q) /\ calls' = calls /\ ~Owns(q) /\ ~Owns(q)'
Rests ==
  /\ tokens' = tokens /\ live' = live /\ req' = req /\ calls' = calls
Starts ==
  /\ tokens = 0 /\ tokens' = 1 /\ live' = {1} /\ req' = req /\ calls' = calls

OfSessions ==
  \/ Starts \/ Rests
  \/ \E q \in Slots : Renews(q) \/ Leaves(q) \/ GoesOn(q) \/ Takes(q) \/ Passes(q)

\* A replay's call is not counted; another adds one copy.
LEMMA CallsGrow ==
  ASSUME NEW q \in Slots, Calls(q), \A d \in DOMAIN calls : calls[d] = 1
  PROVE  \/ calls' = calls
         \/ /\ Waits(q)
            /\ LET c == <<req[q].cookie, Session(q)>> IN
               /\ DOMAIN calls' = DOMAIN calls \cup {c}
               /\ \A d \in DOMAIN calls \ {c} : calls'[d] = 1
               /\ c \notin DOMAIN calls => calls'[c] = 1
<1> DEFINE c == <<req[q].cookie, Session(q)>>
<1>1. CASE calls' = calls
  BY <1>1
<1>2. CASE Serving(q) /\ req[q].at # "done" /\ calls' = Called(q) /\ req[q].replay
  BY <1>2 DEF Called
<1>3. CASE Serving(q) /\ req[q].at # "done" /\ calls' = Called(q) /\ ~req[q].replay
  <2>1. calls' = [d \in DOMAIN calls \cup {c} |->
                   (IF d \in DOMAIN calls THEN calls[d] ELSE 0) + (IF d \in {c} THEN 1 ELSE 0)]
    <3>1. calls' = calls (+) SetToBag({c})
      BY <1>3 DEF Called, c
    <3>2. SetToBag({c}) = [e \in {c} |-> 1]
      BY DEF SetToBag
    <3> HIDE DEF c
    <3> QED
      BY <3>1, <3>2 DEF (+)
  <2>2. Waits(q)
    BY <1>3 DEF Waits, Owns
  <2> HIDE DEF c
  <2>3. DOMAIN calls' = DOMAIN calls \cup {c}
    BY <2>1
  <2>4. \A d \in DOMAIN calls \ {c} : calls'[d] = 1
    BY <2>1
  <2>5. c \notin DOMAIN calls => calls'[c] = 1
    BY <2>1
  <2> QED
    BY <2>2, <2>3, <2>4, <2>5 DEF c
<1> QED
  BY <1>1, <1>2, <1>3 DEF Calls

----------------------------------------------------------------------------
(* Every step is of one of these kinds.                                    *)

LEMMA Replies ==
  ASSUME Typed, NEW q \in Slots, NEW t, NEW g, Reply(q, t, g)
  PROVE  Others(q) /\ ~Serving(q)'
BY DEF Typed, Requests, Reply, Idle, Others, Serving

LEMMA Resets ==
  ASSUME Typed, NEW q \in Slots, req' = [req EXCEPT ![q] = Idle]
  PROVE  Others(q) /\ ~Serving(q)'
BY DEF Typed, Requests, Idle, Others, Serving

LEMMA Rotates ==
  ASSUME Typed, NEW q \in Slots, NEW m, Rotate(Session(q), m),
         Others(q), ~Serving(q)', Calls(q)
  PROVE  Renews(q)
BY DEF Rotate, Renews

LEMMA Refuses ==
  ASSUME Typed, NEW q \in Slots, NEW u, Refuse(q, u), Calls(q)
  PROVE  Renews(q) \/ Leaves(q)
<1>1. CASE req[q].replay
  <2>1. Reply(q, 0, FALSE) /\ UNCHANGED sessions
    BY <1>1 DEF Refuse
  <2> QED
    BY <1>1, <2>1, Replies DEF sessions, Leaves, Owns
<1>2. CASE ~req[q].replay
  <2>1. Rotate(Session(q), readOnly) /\ Reply(q, tokens + 1, FALSE)
    BY <1>2 DEF Refuse, RotateAndReply
  <2> QED
    BY <2>1, Replies, Rotates
<1> QED
  BY <1>1, <1>2

LEMMA Declines ==
  ASSUME Typed, NEW q \in Slots, Decline(q)
  PROVE  Renews(q) \/ Leaves(q)
<1>0. Calls(q)
  BY DEF Decline, Calls
<1>1. CASE req[q].replay
  <2>1. Reply(q, 0, FALSE) /\ UNCHANGED sessions
    BY <1>1 DEF Decline
  <2> QED
    BY <1>0, <1>1, <2>1, Replies DEF sessions, Leaves, Owns
<1>2. CASE ~req[q].replay
  <2>1. Rotate(Session(q), readOnly) /\ Reply(q, tokens + 1, FALSE)
    BY <1>2 DEF Decline, RotateAndReply
  <2> QED
    BY <1>0, <2>1, Replies, Rotates
<1> QED
  BY <1>1, <1>2

LEMMA RenewsAndReplies ==
  ASSUME Typed, NEW q \in Slots, NEW g, RotateAndReply(q, g), calls' = calls
  PROVE  Renews(q)
BY Replies, Rotates DEF RotateAndReply, Calls

LEMMA Unheards ==
  ASSUME Typed, NEW q \in Slots, Unheard(q)
  PROVE  Renews(q)
BY Resets, Rotates DEF Unheard, Calls

\* Of a connection: the browser, a break, a read.
LEMMA OfTheBrowser ==
  ASSUME Typed, excused \/ expired = {}, NEW q \in Slots,
         \/ \E kind \in Kinds[q], corr \in Corrs, conf \in 0..Len(grants) : Send(q, kind, corr, conf)
         \/ Deliver(q) \/ Lose(q) \/ WriteFails(q)
         \/ Authenticate(q) \/ Envelope(q) \/ Look(q) \/ Frame(q) \/ Ended(q) \/ Close(q)
  PROVE  \/ Renews(q) \/ Leaves(q) \/ Rests \/ Passes(q)
<1> USE DEF Reads, Events
<1>1. ASSUME NEW kind \in Kinds[q], NEW corr \in Corrs, NEW conf \in 0..Len(grants),
             Send(q, kind, corr, conf)
      PROVE  Passes(q)
  BY <1>1 DEF Send, At, Typed, Requests, Idle, Passes, Others, Owns, Serving, sessions
<1>2. CASE Deliver(q) \/ Lose(q)
  BY <1>2, Resets DEF Deliver, Lose, At, Passes, Owns, Serving, sessions
<1>3. CASE WriteFails(q)
  BY <1>3, Resets, Rotates DEF WriteFails, Calls
<1>4. CASE Authenticate(q)
  <2> DEFINE c == req[q].cookie
             next == IF Kind(q) \in Events THEN "stream" ELSE "held"
  <2>0. /\ Kind(q) \in Reads /\ ~Owns(q)
        /\ tokens' = tokens /\ calls' = calls /\ excused' = excused
    BY <1>4 DEF Authenticate, Owns, Serving
  <2>1. CASE /\ req' = [req EXCEPT ![q].at = next, ![q].session = c]
             /\ live' = live
    <3>1. Others(q) /\ req'[q].kind = req[q].kind
      BY <2>1 DEF Typed, Requests, Others
    <3> QED
      BY <2>0, <2>1, <3>1 DEF Passes, Owns, Serving, Kind
  <2>2. CASE Reply(q, 0, FALSE) /\ live' = live
    BY <2>0, <2>2, Replies DEF Passes, Owns
  <2>3. CASE ~Usable(c) /\ Reply(q, 0, FALSE) /\ live' = live \ {c}
    BY <2>0, <2>3, Replies DEF Usable, Passes, Owns
  <2> QED
    BY <1>4, <2>1, <2>2, <2>3 DEF Authenticate
<1>5. CASE Envelope(q) \/ Look(q)
  BY <1>5, Replies DEF Envelope, Look, Leaves, Calls, Owns, Serving, Kind, sessions
<1>6. CASE Frame(q)
  BY <1>6, Replies DEF Frame, At, Leaves, Rests, Calls, Owns, Serving, Kind
<1>7. CASE Ended(q)
  BY <1>7, Replies DEF Ended, Usable, At, Passes, Owns, Serving, Kind
<1>8. CASE Close(q)
  BY <1>8, Replies DEF Close, At, Leaves, Calls, Owns, Serving, sessions
<1> QED
  BY <1>1, <1>2, <1>3, <1>4, <1>5, <1>6, <1>7, <1>8

\* A step of q within a request, which changes where it is and its snapshot.
LEMMA Advances ==
  ASSUME Typed, NEW q \in Slots, NEW phase \in {"body", "call", "done"}, Serving(q),
         \/ Goto(q, phase)
         \/ \E n \in Nat : req' = [req EXCEPT ![q].at = phase, ![q].snap = n]
  PROVE  /\ Others(q) /\ Serving(q)' /\ req'[q].at = phase
         /\ req'[q].cookie = req[q].cookie /\ req'[q].session = req[q].session
         /\ req'[q].replay = req[q].replay
<1>1. CASE Goto(q, phase)
  BY <1>1 DEF Typed, Requests, Goto, Others, Serving, Kind
<1>2. ASSUME NEW n \in Nat, req' = [req EXCEPT ![q].at = phase, ![q].snap = n]
      PROVE  Others(q) /\ Serving(q)' /\ req'[q].at = phase
             /\ req'[q].cookie = req[q].cookie /\ req'[q].session = req[q].session
             /\ req'[q].replay = req[q].replay
  <2>1. Others(q)
    BY <1>2 DEF Typed, Others
  <2>2. req'[q] = [req[q] EXCEPT !.at = phase, !.snap = n] /\ req[q] \in Requests
    BY <1>2 DEF Typed
  <2>3. /\ req'[q].at = phase /\ req'[q].kind = req[q].kind
        /\ req'[q].cookie = req[q].cookie /\ req'[q].session = req[q].session
        /\ req'[q].replay = req[q].replay
    BY <2>2 DEF Requests
  <2> QED
    BY <2>1, <2>3 DEF Serving, Kind
<1> QED
  BY <1>1, <1>2

LEMMA Continues ==
  ASSUME Typed, NEW q \in Slots, NEW phase \in {"body", "call"}, Serving(q), req[q].at # "done",
         \/ Goto(q, phase)
         \/ \E n \in Nat : req' = [req EXCEPT ![q].at = phase, ![q].snap = n],
         UNCHANGED <<tokens, live, excused, calls>>
  PROVE  GoesOn(q)
BY Advances DEF GoesOn

LEMMA Completes ==
  ASSUME Typed, NEW q \in Slots, Serving(q), req[q].at # "done",
         \/ Goto(q, "done")
         \/ \E n \in Nat : req' = [req EXCEPT ![q].at = "done", ![q].snap = n],
         calls' = Called(q), UNCHANGED <<tokens, live, excused>>
  PROVE  GoesOn(q)
BY Advances DEF GoesOn, Calls

\* Up to the body.
LEMMA OfClaims ==
  ASSUME Typed, excused \/ expired = {}, NEW q \in Slots,
         Claim(q) \/ Deny(q) \/ Enter(q) \/ Preflight(q) \/ Eligible(q)
  PROVE  Renews(q) \/ GoesOn(q) \/ Takes(q) \/ Passes(q)
<1>1. CASE Claim(q)
  <2> DEFINE c == req[q].cookie
             next == IF Kind(q) \in Replayable THEN Recovered(c) ELSE {}
  <2>0. /\ Kind(q) \notin Reads /\ At(q, "sent") /\ ~Serving(q)
        /\ tokens' = tokens /\ calls' = calls /\ excused' = excused
    BY <1>1 DEF Claim, At, Serving
  <2>1. CASE /\ Usable(c) /\ live' = live \ {c}
             /\ req' = [req EXCEPT ![q].at = "held", ![q].session = c]
    <3>1. /\ Others(q) /\ req'[q].kind = req[q].kind /\ req'[q].at = "held"
          /\ req'[q].cookie = c /\ req'[q].session = c /\ req'[q].replay = req[q].replay
      BY <2>1 DEF Typed, Requests, Others
    <3>2. ~req[q].replay
      BY <2>0 DEF Typed
    <3> QED
      BY <2>0, <2>1, <3>1, <3>2 DEF Takes, Owns, Serving, Kind, Usable
  <2>2. CASE /\ live' = live
             /\ \E t \in next :
                  req' = [req EXCEPT ![q].at = "held", ![q].session = t, ![q].replay = TRUE]
    <3>1. Others(q) /\ req'[q].replay
      BY <2>2 DEF Typed, Requests, Others
    <3> QED
      BY <2>0, <2>2, <3>1 DEF Passes, Owns
  <2>3. CASE ~Usable(c) /\ live' = live \ {c} /\ Reply(q, 0, FALSE)
    BY <2>0, <2>3, Replies DEF Usable, Passes, Owns
  <2> QED
    BY <1>1, <2>1, <2>2, <2>3 DEF Claim
<1>2. CASE Deny(q)
  BY <1>2, RenewsAndReplies DEF Deny
<1>3. CASE Enter(q)
  <2>1. Serving(q) /\ req[q].at # "done"
    BY <1>3 DEF Enter, Writable, At, Serving, Direct, Tasks, Reads, Events
  <2> QED
    BY <1>3, <2>1, Continues DEF Enter, Unhandled, sessions
<1>4. CASE Preflight(q)
  <2>1. Serving(q) /\ req[q].at # "done"
    BY <1>4 DEF Preflight, Writable, At, Serving, Reads, Events
  <2>2. CASE closed
    BY <1>4, <2>2, Replies, Rotates DEF Preflight, Calls
  <2>3. CASE ~closed
    BY <1>4, <2>1, <2>3, Continues DEF Preflight, sessions
  <2> QED
    BY <2>2, <2>3
<1>5. CASE Eligible(q)
  <2>1. Serving(q) /\ req[q].at # "done"
    BY <1>5 DEF Eligible, Writable, At, Serving, Reads, Events, Controls, Commands
  <2>2. CASE RotateAndReply(q, FALSE)
    BY <1>5, <2>2, RenewsAndReplies DEF Eligible
  <2>3. CASE req' = [req EXCEPT ![q].at = "body", ![q].snap = seq] /\ UNCHANGED sessions
    BY <1>5, <2>1, <2>3, Continues DEF Eligible, sessions, Typed
  <2> QED
    BY <1>5, <2>2, <2>3 DEF Eligible
<1> QED
  BY <1>1, <1>2, <1>3, <1>4, <1>5

\* The body.
LEMMA OfBodies ==
  ASSUME Typed, NEW q \in Slots,
         \/ ReadTask(q) \/ ReadChat(q) \/ ReadControl(q) \/ ReadContext(q)
         \/ Malformed(q) \/ Confirm(q) \/ Begin(q)
  PROVE  Renews(q) \/ Leaves(q) \/ GoesOn(q)
<1>1. CASE ReadTask(q)
  <2>1. CASE Decline(q)
    BY <2>1, Declines
  <2>2. CASE /\ req' = [req EXCEPT ![q] = Idle] /\ excused' = (excused \/ ~req[q].replay)
             /\ UNCHANGED <<sessions, calls>>
    BY <2>2, Resets DEF sessions, Leaves, Calls, Owns
  <2> QED
    BY <1>1, <2>1, <2>2 DEF ReadTask
<1>2. CASE ReadChat(q) \/ ReadControl(q) \/ ReadContext(q)
  BY <1>2, Declines, Unheards DEF ReadChat, ReadControl, ReadContext
<1>3. CASE Malformed(q)
  BY <1>3, Refuses DEF Malformed, Calls
<1>4. CASE Confirm(q)
  BY <1>4, RenewsAndReplies DEF Confirm
<1>5. CASE Begin(q)
  <2>1. Serving(q) /\ req[q].at # "done"
    BY <1>5 DEF Begin, At, Serving, Commands, Reads, Events
  <2>2. CASE Goto(q, "call") /\ UNCHANGED <<sessions, excused>>
    BY <1>5, <2>1, <2>2, Continues DEF Begin, sessions
  <2>3. CASE \E u : Refuse(q, u)
    BY <1>5, <2>3, Refuses DEF Begin, Calls
  <2>4. (Goto(q, "call") /\ UNCHANGED <<sessions, excused>>) \/ \E u : Refuse(q, u)
    BY <1>5 DEF Begin
  <2> QED
    BY <2>2, <2>3, <2>4
<1> QED
  BY <1>1, <1>2, <1>3, <1>4, <1>5

\* The call of the service and the answer.
LEMMA OfCalls ==
  ASSUME Typed, NEW q \in Slots,
         \/ CallTask(q) \/ CallChat(q) \/ CallContext(q) \/ CallResolve(q) \/ CallAbandon(q)
         \/ CallRefused(q) \/ CallRaises(q)
         \/ FinishTask(q) \/ FinishChat(q) \/ FinishContext(q) \/ FinishControl(q)
  PROVE  Renews(q) \/ Leaves(q) \/ GoesOn(q)
<1>1. CASE CallTask(q) \/ CallChat(q)
  <2>1. Serving(q) /\ req[q].at # "done"
    BY <1>1 DEF CallTask, CallChat, At, Serving, Tasks, Chats, Reads, Events
  <2> QED
    BY <1>1, <2>1, Completes DEF CallTask, CallChat, sessions
<1>2. CASE CallContext(q) \/ CallResolve(q) \/ CallAbandon(q)
  <2>1. Serving(q) /\ req[q].at # "done" /\ Receipt(q)
    BY <1>2 DEF CallContext, CallResolve, CallAbandon, At, Serving, Reads, Events
  <2> QED
    <3>1. seq + 1 \in Nat /\ req' = [req EXCEPT ![q].at = "done", ![q].snap = seq + 1]
      BY <2>1 DEF Receipt, Typed
    <3>2. calls' = Called(q) /\ UNCHANGED <<tokens, live, excused>>
      BY <2>1 DEF Receipt, sessions
    <3> QED
      BY <2>1, <3>1, <3>2, Completes
<1>3. ASSUME Calling(q) PROVE Serving(q) /\ req[q].at # "done"
  BY <1>3 DEF Calling, Typed, At, Serving, Commands, Direct, Tasks, Chats, Reads, Events
<1>4. CASE CallRefused(q)
  BY <1>3, <1>4, Refuses DEF CallRefused, Calls
<1>5. CASE CallRaises(q)
  BY <1>3, <1>5, Resets DEF CallRaises, Leaves, Calls, Owns, sessions
<1>6. CASE FinishTask(q) \/ FinishChat(q)
  BY <1>6, RenewsAndReplies DEF FinishTask, FinishChat
<1>7. CASE FinishContext(q)
  <2>1. CASE Begun(req[q].corr)
    BY <1>7, <2>1, RenewsAndReplies DEF FinishContext
  <2>2. CASE ~Begun(req[q].corr)
    BY <1>7, <2>2, Resets DEF FinishContext, Leaves, Calls, sessions
  <2> QED
    BY <2>1, <2>2
<1>8. CASE FinishControl(q)
  <2>1. CASE Begun(req[q].corr)
    BY <1>8, <2>1, RenewsAndReplies DEF FinishControl
  <2>2. CASE ~Begun(req[q].corr)
    BY <1>8, <2>2, Refuses DEF FinishControl, Calls
  <2> QED
    BY <2>1, <2>2
<1> QED
  BY <1>1, <1>2, <1>4, <1>5, <1>6, <1>7, <1>8

LEMMA Classified ==
  ASSUME Typed, excused \/ expired = {}, [Next]_vars
  PROVE  OfSessions
<1> USE DEF OfSessions
<1>1. CASE Bootstrap
  BY <1>1 DEF Bootstrap, Starts
<1>2. CASE Expire \/ Advance \/ Work \/ Orphan \/ Reconcile \/ InterruptAttempt
  BY <1>2 DEF Expire, Advance, Work, Orphan, Reconcile, InterruptAttempt, Outside, Rests, sessions
<1>4. CASE UNCHANGED vars
  BY <1>4 DEF vars, Rests, sessions
<1>5. ASSUME NEW q \in Slots,
             \/ \E kind \in Kinds[q], corr \in Corrs, conf \in 0..Len(grants) :
                  Send(q, kind, corr, conf)
             \/ Deliver(q) \/ Lose(q) \/ WriteFails(q)
             \/ Authenticate(q) \/ Envelope(q) \/ Look(q)
             \/ Frame(q) \/ Ended(q) \/ Close(q)
      PROVE  OfSessions
  BY <1>5, OfTheBrowser
<1>6. ASSUME NEW q \in Slots,
             Claim(q) \/ Deny(q) \/ Enter(q) \/ Preflight(q) \/ Eligible(q)
      PROVE  OfSessions
  BY <1>6, OfClaims
<1>7. ASSUME NEW q \in Slots,
             \/ ReadTask(q) \/ ReadChat(q) \/ ReadControl(q) \/ ReadContext(q)
             \/ Malformed(q) \/ Confirm(q) \/ Begin(q)
      PROVE  OfSessions
  BY <1>7, OfBodies
<1>8. ASSUME NEW q \in Slots,
             \/ CallTask(q) \/ CallChat(q) \/ CallContext(q) \/ CallResolve(q) \/ CallAbandon(q)
             \/ CallRefused(q) \/ CallRaises(q)
             \/ FinishTask(q) \/ FinishChat(q) \/ FinishContext(q) \/ FinishControl(q)
      PROVE  OfSessions
  BY <1>8, OfCalls
<1> QED
  BY <1>1, <1>2, <1>4, <1>5, <1>6, <1>7, <1>8 DEF Next

----------------------------------------------------------------------------
(* Sessions.                                                               *)

\* Nobody waits that did not, with what it had; what was used up stays so.
Fewer ==
  /\ \A p \in Slots : Waits(p)' => /\ Waits(p) /\ req'[p].cookie = req[p].cookie
                                   /\ req'[p].session = req[p].session
  /\ 1..tokens \ live \subseteq 1..tokens' \ live'

LEMMA SingleKept ==
  ASSUME Single, Fewer, calls' = calls
  PROVE  Single'
BY DEF Fewer, Single, Session

LEMMA SingleCalled ==
  ASSUME Single, Fewer, NEW q \in Slots, Calls(q), ~Waits(q)'
  PROVE  Single'
<1>0. \A d \in DOMAIN calls : calls[d] = 1
  BY DEF Single
<1>1. CASE calls' = calls
  BY <1>1, SingleKept
<1>2. CASE calls' # calls
  <2> DEFINE s == Session(q)
             c == <<req[q].cookie, s>>
  <2>1. /\ Waits(q) /\ DOMAIN calls' = DOMAIN calls \cup {c}
        /\ \A d \in DOMAIN calls \ {c} : calls'[d] = 1
        /\ c \notin DOMAIN calls => calls'[c] = 1
    BY <1>0, <1>2, CallsGrow
  <2>2. c = <<s, s>> /\ s \in 1..tokens \ live /\ c \notin DOMAIN calls
    BY <2>1 DEF Single
  <2>3. ASSUME NEW p \in Slots, Waits(p)'
        PROVE  /\ req'[p].cookie = Session(p)' /\ Session(p)' \in 1..tokens' \ live'
               /\ <<Session(p)', Session(p)'>> \notin DOMAIN calls'
    <3>1. /\ Waits(p) /\ Session(p)' = Session(p) /\ req'[p].cookie = req[p].cookie
          /\ p # q
      BY <2>3 DEF Fewer, Session
    <3>2. Session(p) # s
      BY <2>1, <3>1 DEF Single
    <3>3. /\ req[p].cookie = Session(p) /\ Session(p) \in 1..tokens \ live
          /\ <<Session(p), Session(p)>> \notin DOMAIN calls
      BY <3>1 DEF Single
    <3> QED
      BY <2>1, <2>2, <3>1, <3>2, <3>3 DEF Fewer
  <2>4. ASSUME NEW p \in Slots, NEW r \in Slots, Waits(p)', Waits(r)',
               Session(p)' = Session(r)'
        PROVE  p = r
    BY <2>4 DEF Fewer, Single, Session
  <2>5. ASSUME NEW d \in DOMAIN calls'
        PROVE  \E n \in 1..tokens' \ live' : d = <<n, n>> /\ calls'[d] = 1
    <3>1. CASE d = c
      BY <2>1, <2>2, <3>1 DEF Fewer
    <3>2. CASE d # c
      BY <2>1, <2>5, <3>2 DEF Fewer, Single
    <3> QED
      BY <3>1, <3>2
  <2> QED
    BY <2>3, <2>4, <2>5 DEF Single
<1> QED
  BY <1>1, <1>2

LEMMA SingleTaken ==
  ASSUME Typed, Single, NEW q \in Slots, Takes(q)
  PROVE  Single'
<1> DEFINE s == req[q].cookie
<1>1. /\ s \in live /\ s \in 1..tokens /\ live' = live \ {s} /\ tokens' = tokens
      /\ req'[q].cookie = s /\ Session(q)' = s /\ calls' = calls
  BY DEF Takes, Typed, Session
<1>2. ASSUME NEW p \in Slots, p # q, Waits(p)'
      PROVE  /\ Waits(p) /\ Session(p)' = Session(p) /\ req'[p].cookie = req[p].cookie
             /\ Session(p) # s
  <2>1. req'[p] = req[p]
    BY <1>2 DEF Takes, Others
  <2>2. Waits(p)
    BY <1>2, <2>1 DEF Waits, Owns, Serving, Kind
  <2> QED
    BY <1>1, <2>1, <2>2 DEF Single, Session
<1>3. ASSUME NEW p \in Slots, Waits(p)'
      PROVE  /\ req'[p].cookie = Session(p)' /\ Session(p)' \in 1..tokens' \ live'
             /\ <<Session(p)', Session(p)'>> \notin DOMAIN calls'
  <2>1. CASE p = q
    BY <1>1, <2>1 DEF Single
  <2>2. CASE p # q
    BY <1>1, <1>2, <1>3, <2>2 DEF Single
  <2> QED
    BY <2>1, <2>2
<1>4. ASSUME NEW p \in Slots, NEW r \in Slots, Waits(p)', Waits(r)',
             Session(p)' = Session(r)'
      PROVE  p = r
  BY <1>1, <1>2, <1>4 DEF Single
<1>5. \A d \in DOMAIN calls' : \E n \in 1..tokens' \ live' : d = <<n, n>> /\ calls'[d] = 1
  BY <1>1 DEF Single
<1> QED
  BY <1>3, <1>4, <1>5 DEF Single

LEMMA SingleStep ==
  ASSUME Typed, Single, OfSessions
  PROVE  Single'
<1>0. tokens \in Nat /\ live \subseteq 1..tokens
  BY DEF Typed
<1>1. CASE Starts
  <2>1. \A q \in Slots : ~Waits(q)
    BY <1>1 DEF Starts, Single
  <2>2. DOMAIN calls = {}
    <3>1. 1..tokens = {}
      BY <1>1 DEF Starts
    <3> QED
      BY <3>1 DEF Single
  <2> QED
    BY <1>1, <2>1, <2>2 DEF Starts, Single, Waits, Owns, Serving, Kind, Session
<1>2. CASE Rests
  BY <1>2 DEF Rests, Single, Waits, Owns, Serving, Kind, Session
<1>3. ASSUME NEW q \in Slots, Renews(q) PROVE Single'
  <2>1. Fewer /\ ~Waits(q)'
    BY <1>0, <1>3 DEF Renews, Fewer, Others, Waits, Owns, Serving, Kind
  <2> QED
    BY <1>3, <2>1, SingleCalled DEF Renews
<1>4. ASSUME NEW q \in Slots, Leaves(q) PROVE Single'
  <2>1. Fewer /\ ~Waits(q)'
    BY <1>4 DEF Leaves, Fewer, Others, Waits, Owns, Serving, Kind
  <2> QED
    BY <1>4, <2>1, SingleCalled DEF Leaves
<1>5. ASSUME NEW q \in Slots, GoesOn(q) PROVE Single'
  <2>1. CASE calls' = calls /\ req[q].at # "done"
    <3>1. Fewer
      BY <1>5, <2>1 DEF GoesOn, Fewer, Others, Waits, Owns, Serving, Kind
    <3> QED
      BY <2>1, <3>1, SingleKept
  <2>2. CASE Calls(q) /\ req'[q].at = "done"
    <3>1. Fewer /\ ~Waits(q)'
      BY <1>5, <2>2 DEF GoesOn, Fewer, Others, Waits, Owns, Serving, Kind
    <3> QED
      BY <2>2, <3>1, SingleCalled
  <2> QED
    BY <1>5, <2>1, <2>2 DEF GoesOn
<1>6. ASSUME NEW q \in Slots, Takes(q) PROVE Single'
  BY <1>6, SingleTaken
<1>7. ASSUME NEW q \in Slots, Passes(q) PROVE Single'
  <2>1. Fewer
    BY <1>7 DEF Passes, Fewer, Others, Waits, Owns, Serving, Kind
  <2> QED
    BY <1>7, <2>1, SingleKept DEF Passes
<1> QED
  BY <1>1, <1>2, <1>3, <1>4, <1>5, <1>6, <1>7 DEF OfSessions

\* No session gets too old but by the clock.
Younger == (excused => excused') /\ (expired' \subseteq expired \/ excused')

LEMMA RotatesYounger ==
  ASSUME NEW q, NEW m, Rotate(Session(q), m), excused' = excused
  PROVE  Younger
BY DEF Rotate, Younger

LEMMA RefusesYounger ==
  ASSUME NEW q, \/ Decline(q) \/ Unheard(q)
                \/ \E u : Refuse(q, u)
                \/ \E g : RotateAndReply(q, g) /\ excused' = excused
  PROVE  Younger
<1>1. ASSUME NEW u, Refuse(q, u) PROVE Younger
  BY <1>1, RotatesYounger DEF Refuse, RotateAndReply, sessions, Younger
<1>2. ASSUME NEW g, RotateAndReply(q, g), excused' = excused PROVE Younger
  BY <1>2, RotatesYounger DEF RotateAndReply
<1>3. CASE Decline(q)
  BY <1>3, RotatesYounger DEF Decline, RotateAndReply, sessions, Younger
<1>4. CASE Unheard(q)
  BY <1>4, RotatesYounger DEF Unheard
<1> QED
  BY <1>1, <1>2, <1>3, <1>4

LEMMA ExcusedStays ==
  ASSUME excused \in BOOLEAN, [Next]_vars
  PROVE  Younger
<1>1. CASE \/ Bootstrap \/ Expire \/ Advance \/ Work \/ Orphan \/ Reconcile \/ InterruptAttempt
           \/ UNCHANGED vars
  BY <1>1 DEF Bootstrap, Expire, Advance, Work, Orphan, Reconcile, InterruptAttempt, Outside,
              sessions, vars, Younger
<1>3. ASSUME NEW q \in Slots,
             \/ \E kind \in Kinds[q], corr \in Corrs, conf \in 0..Len(grants) :
                  Send(q, kind, corr, conf)
             \/ Deliver(q) \/ Lose(q) \/ Authenticate(q) \/ Envelope(q) \/ Look(q)
             \/ Frame(q) \/ Ended(q) \/ Close(q) \/ Claim(q) \/ Enter(q)
      PROVE  Younger
  BY <1>3 DEF Send, Deliver, Lose, Authenticate, Envelope, Look, Frame, Ended, Close, Claim,
              Enter, Unhandled, sessions, Younger
<1>4. ASSUME NEW q \in Slots, WriteFails(q) \/ Deny(q) PROVE Younger
  BY <1>4, RotatesYounger, RefusesYounger DEF WriteFails, Deny
<1>5. ASSUME NEW q \in Slots, Preflight(q) \/ Eligible(q) PROVE Younger
  <2>1. excused' = excused
    BY <1>5 DEF Preflight, Eligible
  <2>2. CASE UNCHANGED sessions
    BY <2>1, <2>2 DEF sessions, Younger
  <2>3. CASE \E m : Rotate(Session(q), m)
    BY <2>1, <2>3, RotatesYounger
  <2>4. UNCHANGED sessions \/ \E m : Rotate(Session(q), m)
    BY <1>5 DEF Preflight, Eligible, RotateAndReply
  <2> QED
    BY <2>2, <2>3, <2>4
<1>6. ASSUME NEW q \in Slots,
             \/ ReadTask(q) \/ ReadChat(q) \/ ReadControl(q) \/ ReadContext(q)
             \/ Malformed(q) \/ Confirm(q) \/ Begin(q)
      PROVE  Younger
  <2>1. CASE ReadTask(q)
    BY <2>1, RefusesYounger DEF ReadTask, sessions, Younger
  <2>2. CASE ReadChat(q) \/ ReadControl(q) \/ ReadContext(q)
    BY <2>2, RefusesYounger DEF ReadChat, ReadControl, ReadContext
  <2>3. CASE Malformed(q)
    BY <2>3, RefusesYounger DEF Malformed
  <2>4. CASE Confirm(q)
    BY <2>4, RefusesYounger DEF Confirm
  <2>5. CASE Begin(q)
    <3>1. UNCHANGED <<sessions, excused>> \/ \E u : Refuse(q, u)
      BY <2>5 DEF Begin
    <3> QED
      BY <3>1, RefusesYounger DEF sessions, Younger
  <2> QED
    BY <1>6, <2>1, <2>2, <2>3, <2>4, <2>5
<1>7. ASSUME NEW q \in Slots,
             \/ CallTask(q) \/ CallChat(q) \/ CallContext(q) \/ CallResolve(q) \/ CallAbandon(q)
             \/ CallRaises(q)
      PROVE  Younger
  BY <1>7 DEF CallTask, CallChat, CallContext, CallResolve, CallAbandon, CallRaises, Receipt,
              sessions, Younger
<1>8. ASSUME NEW q \in Slots,
             CallRefused(q) \/ FinishTask(q) \/ FinishChat(q)
      PROVE  Younger
  BY <1>8, RefusesYounger DEF CallRefused, FinishTask, FinishChat
<1>9. ASSUME NEW q \in Slots, FinishContext(q) \/ FinishControl(q) PROVE Younger
  <2>1. CASE Begun(req[q].corr)
    BY <1>9, <2>1, RefusesYounger DEF FinishContext, FinishControl, Committed
  <2>2. CASE ~Begun(req[q].corr)
    BY <1>9, <2>2, RefusesYounger DEF FinishContext, FinishControl, sessions, Younger
  <2> QED
    BY <2>1, <2>2
<1> QED
  BY <1>1, <1>3, <1>4, <1>5, <1>6, <1>7, <1>8, <1>9 DEF Next

LEMMA KeptStep ==
  ASSUME Typed, Kept, Younger, OfSessions
  PROVE  Kept'
<1>0. tokens \in Nat /\ live \subseteq 1..tokens
  BY DEF Typed
<1>1. excused' \/ expired' = {}
  BY DEF Younger, Kept
<1>2. CASE Starts \/ Rests
  BY <1>1, <1>2 DEF Starts, Rests, Younger, Kept, Owns, Serving, Kind
<1>3. ASSUME NEW q \in Slots, Renews(q) PROVE live' # {}
  BY <1>3 DEF Renews
<1>4. ASSUME NEW q \in Slots, Leaves(q), tokens' > 0, ~excused'
      PROVE  live' # {} \/ \E p \in Slots : Owns(p)'
  <2>1. tokens > 0 /\ ~excused /\ ~Owns(q)
    BY <1>4 DEF Leaves, Younger
  <2> QED
    BY <1>4, <2>1 DEF Leaves, Kept, Others, Owns, Serving, Kind
<1>5. ASSUME NEW q \in Slots, GoesOn(q), tokens' > 0, ~excused'
      PROVE  live' # {} \/ \E p \in Slots : Owns(p)'
  <2>1. \A p \in Slots : Owns(p) => Owns(p)'
    BY <1>5 DEF GoesOn, Others, Owns, Serving, Kind
  <2> QED
    BY <1>5, <2>1 DEF GoesOn, Younger, Kept
<1>6. ASSUME NEW q \in Slots, Takes(q) PROVE Owns(q)'
  BY <1>6 DEF Takes
<1>7. ASSUME NEW q \in Slots, Passes(q), tokens' > 0, ~excused'
      PROVE  live' # {} \/ \E p \in Slots : Owns(p)'
  <2>1. live' = live /\ tokens > 0 /\ ~excused /\ ~Owns(q)
    BY <1>7 DEF Passes, Younger
  <2> QED
    BY <1>7, <2>1 DEF Passes, Kept, Others, Owns, Serving, Kind
<1> QED
  BY <1>1, <1>2, <1>3, <1>4, <1>5, <1>6, <1>7 DEF OfSessions, Kept

----------------------------------------------------------------------------
(* Confirmations, and the types.                                           *)

Grants ==
  \/ grants' = grants /\ unused' \subseteq unused
  \/ \E g \in [corr : AnyCorr, seq : Nat] :
       grants' = Append(grants, g) /\ unused' \subseteq unused \cup {Len(grants) + 1}
Values == jar' \in Nat /\ seq' \in Nat /\ excused' \in BOOLEAN /\ Grants

\* Request q is somewhere else, or gone.
Goes(q, r) == req' = [req EXCEPT ![q] = r] /\ r \in Requests
Plain(q) ==
  /\ Values /\ closedBy' = closedBy
  /\ \E r \in Requests : Goes(q, r) /\ r.at \notin {"sent", "call"}
Sends(q) ==
  /\ Values /\ closedBy' = closedBy
  /\ \E r \in Requests : Goes(q, r) /\ r.at = "sent" /\ ~r.replay
Begins(q) ==
  /\ Values /\ closedBy' = closedBy /\ Kind(q) \in Commands
  /\ Goes(q, [req[q] EXCEPT !.at = "call"])
  /\ grants' = grants /\ unused' \subseteq unused \ {req[q].conf}
  /\ (Kind(q) = "recover" => /\ req[q].conf \in unused
                             /\ grants[req[q].conf].seq = req[q].snap)
Abandons(q) ==
  /\ Values /\ UNCHANGED <<grants, unused>>
  /\ At(q, "call") /\ Kind(q) = "recover" /\ closedBy' = <<req[q].conf, req[q].snap>>
  /\ \E r \in Requests : Goes(q, r) /\ r.at \notin {"sent", "call"}
Idles == Values /\ closedBy' = closedBy /\ req' = req

OfBooks ==
  Idles \/ \E q \in Slots : Plain(q) \/ Sends(q) \/ Begins(q) \/ Abandons(q)

LEMMA IdleTyped == Idle \in Requests /\ Idle.at = "idle"
<1>1. "read" \in AnyKind
  BY DEF AnyKind
<1> QED
  BY <1>1 DEF Idle, Requests, Phases, AnyCorr

LEMMA RepliesTyped ==
  ASSUME Typed, NEW q \in Slots, NEW t \in Nat, NEW g \in BOOLEAN, Reply(q, t, g)
  PROVE  \E r \in Requests : Goes(q, r) /\ r.at \notin {"sent", "call"}
<1>1. req[q] \in Requests
  BY DEF Typed
<1>2. Idle \in Requests
  BY IdleTyped
<1>3. CASE g
  <2> DEFINE r == [req[q] EXCEPT !.at = "reply", !.token = t, !.guarded = TRUE]
  <2>1. r \in Requests /\ r.at = "reply"
    BY <1>1 DEF Requests, Phases
  <2>2. req' = [req EXCEPT ![q] = r]
    BY <1>3 DEF Reply
  <2> QED
    BY <2>1, <2>2 DEF Goes
<1>4. CASE ~g /\ t > 0
  <2> DEFINE r == [Idle EXCEPT !.at = "reply", !.token = t]
  <2>1. r \in Requests /\ r.at = "reply"
    BY <1>2 DEF Requests, Phases
  <2>2. req' = [req EXCEPT ![q] = r]
    BY <1>4 DEF Reply
  <2> QED
    BY <2>1, <2>2 DEF Goes
<1>5. CASE ~g /\ ~(t > 0)
  <2>1. req' = [req EXCEPT ![q] = Idle] /\ Idle.at = "idle"
    BY <1>5 DEF Reply, Idle
  <2> QED
    BY <1>2, <2>1 DEF Goes
<1> QED
  BY <1>3, <1>4, <1>5

LEMMA ResetsTyped ==
  ASSUME Typed, NEW q \in Slots, req' = [req EXCEPT ![q] = Idle]
  PROVE  \E r \in Requests : Goes(q, r) /\ r.at \notin {"sent", "call"}
<1> QED
  BY IdleTyped DEF Goes

LEMMA MovesTyped ==
  ASSUME Typed, NEW q \in Slots, NEW phase \in {"held", "body", "done", "stream"},
         \/ req' = [req EXCEPT ![q].at = phase]
         \/ \E n \in Nat : req' = [req EXCEPT ![q].at = phase, ![q].snap = n]
         \/ \E n \in Nat : req' = [req EXCEPT ![q].at = phase, ![q].session = n]
         \/ \E n \in Nat :
              req' = [req EXCEPT ![q].at = phase, ![q].session = n, ![q].replay = TRUE]
  PROVE  \E r \in Requests : Goes(q, r) /\ r.at \notin {"sent", "call"}
<1>0. req[q] \in Requests
  BY DEF Typed
<1>1. ASSUME NEW r, r \in Requests, r.at = phase, req' = [req EXCEPT ![q] = r]
      PROVE  \E x \in Requests : Goes(q, x) /\ x.at \notin {"sent", "call"}
  BY <1>1 DEF Goes
<1>2. CASE req' = [req EXCEPT ![q].at = phase]
  <2> DEFINE r == [req[q] EXCEPT !.at = phase]
  <2>1. r \in Requests /\ r.at = phase
    BY <1>0 DEF Requests, Phases
  <2> QED
    BY <1>1, <1>2, <2>1
<1>3. ASSUME NEW n \in Nat, req' = [req EXCEPT ![q].at = phase, ![q].snap = n]
      PROVE  \E x \in Requests : Goes(q, x) /\ x.at \notin {"sent", "call"}
  <2> DEFINE r == [req[q] EXCEPT !.at = phase, !.snap = n]
  <2>1. r \in Requests /\ r.at = phase
    BY <1>0 DEF Requests, Phases
  <2>2. req' = [req EXCEPT ![q] = r]
    BY <1>3 DEF Typed
  <2> QED
    BY <1>1, <2>1, <2>2
<1>4. ASSUME NEW n \in Nat, req' = [req EXCEPT ![q].at = phase, ![q].session = n]
      PROVE  \E x \in Requests : Goes(q, x) /\ x.at \notin {"sent", "call"}
  <2> DEFINE r == [req[q] EXCEPT !.at = phase, !.session = n]
  <2>1. r \in Requests /\ r.at = phase
    BY <1>0 DEF Requests, Phases
  <2>2. req' = [req EXCEPT ![q] = r]
    BY <1>4 DEF Typed
  <2> QED
    BY <1>1, <2>1, <2>2
<1>5. ASSUME NEW n \in Nat,
             req' = [req EXCEPT ![q].at = phase, ![q].session = n, ![q].replay = TRUE]
      PROVE  \E x \in Requests : Goes(q, x) /\ x.at \notin {"sent", "call"}
  <2> DEFINE r == [req[q] EXCEPT !.at = phase, !.session = n, !.replay = TRUE]
  <2>1. r \in Requests /\ r.at = phase
    BY <1>0 DEF Requests, Phases
  <2>2. req' = [req EXCEPT ![q] = r]
    BY <1>5 DEF Typed
  <2> QED
    BY <1>1, <2>1, <2>2
<1> QED
  BY <1>2, <1>3, <1>4, <1>5

\* A refusal writes no confirmation.
LEMMA PlainRefusal ==
  ASSUME Typed, NEW q \in Slots,
         \/ Decline(q) \/ Unheard(q)
         \/ \E u \in SUBSET unused : Refuse(q, u)
         \/ \E g \in BOOLEAN : /\ RotateAndReply(q, g)
                               /\ UNCHANGED <<grants, unused, run, jar, excused>>
  PROVE  Plain(q)
<1>1. tokens + 1 \in Nat /\ 0 \in Nat /\ FALSE \in BOOLEAN
  BY DEF Typed
<1>2. CASE Decline(q)
  <2>1. Values /\ closedBy' = closedBy
    BY <1>2 DEF Decline, Values, Grants, Typed, controls, run
  <2>2. Reply(q, 0, FALSE) \/ Reply(q, tokens + 1, FALSE)
    BY <1>2 DEF Decline, RotateAndReply
  <2> QED
    BY <1>1, <2>1, <2>2, RepliesTyped DEF Plain
<1>3. CASE Unheard(q)
  <2>1. Values /\ closedBy' = closedBy
    BY <1>3 DEF Unheard, Values, Grants, Typed, controls, run
  <2> QED
    BY <1>3, <2>1, ResetsTyped DEF Unheard, Plain
<1>4. ASSUME NEW u \in SUBSET unused, Refuse(q, u) PROVE Plain(q)
  <2>1. Values /\ closedBy' = closedBy
    BY <1>4 DEF Refuse, Values, Grants, Typed, run
  <2>2. Reply(q, 0, FALSE) \/ Reply(q, tokens + 1, FALSE)
    BY <1>4 DEF Refuse, RotateAndReply
  <2> QED
    BY <1>1, <2>1, <2>2, RepliesTyped DEF Plain
<1>5. ASSUME NEW g \in BOOLEAN, RotateAndReply(q, g),
             UNCHANGED <<grants, unused, run, jar, excused>>
      PROVE  Plain(q)
  <2>1. Values /\ closedBy' = closedBy
    BY <1>5 DEF Values, Grants, Typed, run
  <2>2. Reply(q, tokens + 1, g)
    BY <1>5 DEF RotateAndReply
  <2> QED
    BY <1>1, <2>1, <2>2, RepliesTyped DEF Plain
<1> QED
  BY <1>2, <1>3, <1>4, <1>5

LEMMA BooksOfTheBrowser ==
  ASSUME Typed, NEW q \in Slots,
         \/ \E kind \in Kinds[q], corr \in Corrs, conf \in 0..Len(grants) : Send(q, kind, corr, conf)
         \/ Deliver(q) \/ Lose(q) \/ WriteFails(q)
         \/ Authenticate(q) \/ Envelope(q) \/ Look(q) \/ Frame(q) \/ Ended(q) \/ Close(q)
  PROVE  Idles \/ Plain(q) \/ Sends(q)
<1>0. req[q] \in Requests /\ req \in [Slots -> Requests] /\ 0 \in Nat /\ FALSE \in BOOLEAN
  BY DEF Typed
<1>1. ASSUME NEW kind \in Kinds[q], NEW corr \in Corrs, NEW conf \in 0..Len(grants),
             Send(q, kind, corr, conf)
      PROVE  Sends(q)
  <2> DEFINE r == [Idle EXCEPT !.kind = kind, !.at = "sent", !.cookie = jar, !.corr = corr,
                               !.conf = conf]
  <2>0. conf \in Nat /\ jar \in Nat /\ corr \in AnyCorr /\ kind \in AnyKind
    BY DEF AnyCorr, AnyKind, Typed
  <2>1. r \in Requests /\ r.at = "sent" /\ ~r.replay
    BY <2>0 DEF Idle, Requests, Phases, AnyCorr, AnyKind
  <2>2. Values /\ closedBy' = closedBy
    BY <1>1 DEF Send, Values, Grants, Typed, controls, run
  <2>3. req' = [req EXCEPT ![q] = r]
    BY <1>1 DEF Send
  <2> QED
    BY <2>1, <2>2, <2>3 DEF Sends, Goes
<1>2. CASE Deliver(q) \/ Lose(q) \/ WriteFails(q)
  <2>1. Values /\ closedBy' = closedBy
    BY <1>0, <1>2 DEF Deliver, Lose, WriteFails, Values, Grants, Typed, Requests, controls, run
  <2> QED
    BY <1>2, <2>1, ResetsTyped DEF Deliver, Lose, WriteFails, Plain
<1>3. CASE Authenticate(q)
  <2> DEFINE next == IF Kind(q) \in Events THEN "stream" ELSE "held"
  <2>1. Values /\ closedBy' = closedBy
    BY <1>3 DEF Authenticate, Values, Grants, Typed, controls, run
  <2>2. Reply(q, 0, FALSE) \/ req' = [req EXCEPT ![q].at = next, ![q].session = req[q].cookie]
    BY <1>3 DEF Authenticate
  <2>3. req[q].cookie \in Nat /\ next \in {"held", "body", "done", "stream"}
    BY <1>0 DEF Requests
  <2> QED
    BY <1>0, <2>1, <2>2, <2>3, RepliesTyped, MovesTyped DEF Plain
<1>4. CASE Envelope(q) \/ Look(q) \/ Frame(q) \/ Ended(q) \/ Close(q)
  <2>1. Values /\ closedBy' = closedBy
    BY <1>4 DEF Envelope, Look, Frame, Ended, Close, Values, Grants, Typed, controls, run
  <2>2. Reply(q, 0, FALSE) \/ req' = req
    BY <1>4 DEF Envelope, Look, Frame, Ended, Close
  <2> QED
    BY <1>0, <2>1, <2>2, RepliesTyped DEF Plain, Idles
<1> QED
  BY <1>1, <1>2, <1>3, <1>4

LEMMA BooksOfClaims ==
  ASSUME Typed, NEW q \in Slots,
         Claim(q) \/ Deny(q) \/ Enter(q) \/ Preflight(q) \/ Eligible(q)
  PROVE  Plain(q)
<1>0. /\ req[q] \in Requests /\ 0 \in Nat /\ FALSE \in BOOLEAN /\ tokens + 1 \in Nat
      /\ seq \in Nat
  BY DEF Typed
<1>1. Values /\ closedBy' = closedBy
  BY DEF Claim, Deny, Enter, Unhandled, Preflight, Eligible, Values, Grants, Typed, controls, run
<1>2. CASE Claim(q)
  <2> DEFINE c == req[q].cookie
  <2>1. c \in Nat /\ \A t \in Recovered(c) : t \in Nat
    <3>1. c \in Nat
      BY <1>0 DEF Requests
    <3>2. live \subseteq 1..tokens /\ tokens \in Nat
      BY DEF Typed
    <3>3. \A t \in Recovered(c) : t \in 1..tokens
      BY <3>2 DEF Recovered
    <3> QED
      BY <3>1, <3>2, <3>3
  <2>2. \/ req' = [req EXCEPT ![q].at = "held", ![q].session = c]
        \/ \E t \in Recovered(c) :
             req' = [req EXCEPT ![q].at = "held", ![q].session = t, ![q].replay = TRUE]
        \/ Reply(q, 0, FALSE)
    BY <1>2 DEF Claim
  <2> QED
    BY <1>0, <1>1, <2>1, <2>2, RepliesTyped, MovesTyped DEF Plain
<1>3. CASE Deny(q) \/ Enter(q) \/ Preflight(q) \/ Eligible(q)
  <2>1. \/ Reply(q, tokens + 1, FALSE) \/ Goto(q, "body")
        \/ req' = [req EXCEPT ![q].at = "body", ![q].snap = seq]
    BY <1>3 DEF Deny, Enter, Preflight, Eligible, RotateAndReply
  <2> QED
    BY <1>0, <1>1, <2>1, RepliesTyped, MovesTyped DEF Goto, Plain
<1> QED
  BY <1>2, <1>3

LEMMA BooksOfBodies ==
  ASSUME Typed, NEW q \in Slots,
         \/ ReadTask(q) \/ ReadChat(q) \/ ReadControl(q) \/ ReadContext(q)
         \/ Malformed(q) \/ Confirm(q) \/ Begin(q)
  PROVE  Plain(q) \/ Begins(q)
<1>0. req[q] \in Requests /\ req \in [Slots -> Requests] /\ tokens + 1 \in Nat
  BY DEF Typed
<1>1. CASE ReadTask(q)
  <2>1. CASE Decline(q)
    BY <2>1, PlainRefusal
  <2>2. CASE /\ req' = [req EXCEPT ![q] = Idle] /\ excused' = (excused \/ ~req[q].replay)
             /\ UNCHANGED <<controls, run, jar>>
    <3>1. Values /\ closedBy' = closedBy
      BY <2>2 DEF Values, Grants, Typed, controls, run
    <3> QED
      BY <2>2, <3>1, ResetsTyped DEF Plain
  <2> QED
    BY <1>1, <2>1, <2>2 DEF ReadTask
<1>2. CASE ReadChat(q) \/ ReadControl(q) \/ ReadContext(q)
  BY <1>2, PlainRefusal DEF ReadChat, ReadControl, ReadContext
<1>3. CASE Malformed(q)
  BY <1>3, PlainRefusal DEF Malformed
<1>4. CASE Confirm(q)
  <2> DEFINE g == [corr |-> req[q].corr, seq |-> req[q].snap]
  <2>1. g \in [corr : AnyCorr, seq : Nat]
    BY <1>0 DEF Requests
  <2>2. Grants
    <3>1. PICK n \in 0..Len(grants) :
            \/ /\ grants' = Append(grants, g)
               /\ unused' = {i \in Fresh(n) : grants[i].corr # req[q].corr} \cup {Len(grants) + 1}
            \/ /\ grants' = grants
               /\ \/ unused' = {i \in Fresh(n) : grants[i].corr # req[q].corr}
                  \/ unused' = unused
      BY <1>4 DEF Confirm
    <3>2. {i \in Fresh(n) : grants[i].corr # req[q].corr} \subseteq unused
      BY DEF Fresh
    <3> QED
      BY <2>1, <3>1, <3>2 DEF Grants
  <2>3. Values /\ closedBy' = closedBy
    BY <1>4, <2>2 DEF Confirm, Values, Typed, run
  <2>4. \E b \in BOOLEAN : Reply(q, tokens + 1, b)
    BY <1>4 DEF Confirm, RotateAndReply
  <2> QED
    BY <1>0, <2>3, <2>4, RepliesTyped DEF Plain
<1>5. CASE Begin(q)
  <2> DEFINE i == req[q].conf
             given(n) == Kind(q) = "recover" => i \in Fresh(n) /\ Matches(i, q)
  <2>0. PICK n \in 0..Len(grants) :
          IF given(n) /\ ~Begun(req[q].corr)
            THEN /\ unused' = Fresh(n) \ {i} /\ Goto(q, "call")
                 /\ UNCHANGED <<sessions, grants, run, jar, excused, faults>>
            ELSE Refuse(q, Fresh(n) \ {i})
    <3>1. 0 \in 0..Len(grants)
      BY DEF Typed
    <3> QED
      BY <1>5, <3>1 DEF Begin
  <2>1. CASE given(n) /\ ~Begun(req[q].corr)
    <3>1. Values /\ closedBy' = closedBy /\ grants' = grants /\ unused' \subseteq unused \ {i}
      BY <2>0, <2>1 DEF Fresh, Values, Grants, Typed, run
    <3>2. Kind(q) = "recover" => i \in unused /\ grants[i].seq = req[q].snap
      BY <2>1 DEF Fresh, Matches
    <3>3. Goes(q, [req[q] EXCEPT !.at = "call"])
      BY <1>0, <2>0, <2>1 DEF Goto, Goes, Requests, Phases
    <3> QED
      BY <1>5, <3>1, <3>2, <3>3 DEF Begin, Begins
  <2>2. CASE ~(given(n) /\ ~Begun(req[q].corr))
    <3>1. Refuse(q, Fresh(n) \ {i}) /\ Fresh(n) \ {i} \in SUBSET unused
      BY <2>0, <2>2 DEF Fresh
    <3> QED
      BY <3>1, PlainRefusal
  <2> QED
    BY <2>1, <2>2
<1> QED
  BY <1>1, <1>2, <1>3, <1>4, <1>5

LEMMA BooksOfCalls ==
  ASSUME Typed, NEW q \in Slots,
         \/ CallTask(q) \/ CallChat(q) \/ CallContext(q) \/ CallResolve(q) \/ CallAbandon(q)
         \/ CallRefused(q) \/ CallRaises(q)
         \/ FinishTask(q) \/ FinishChat(q) \/ FinishContext(q) \/ FinishControl(q)
  PROVE  Plain(q) \/ Abandons(q)
<1>0. /\ req[q] \in Requests /\ tokens + 1 \in Nat /\ seq + 1 \in Nat
      /\ TRUE \in BOOLEAN /\ FALSE \in BOOLEAN
  BY DEF Typed
<1>1. CASE CallTask(q) \/ CallChat(q)
  <2>1. Values /\ closedBy' = closedBy
    BY <1>1 DEF CallTask, CallChat, Values, Grants, Typed, controls, run
  <2> QED
    BY <1>1, <2>1, MovesTyped DEF CallTask, CallChat, Goto, Plain
<1>2. CASE CallContext(q) \/ CallResolve(q)
  <2>1. Values /\ closedBy' = closedBy
    BY <1>0, <1>2 DEF CallContext, CallResolve, Receipt, Values, Grants, Typed, controls
  <2> QED
    BY <1>0, <1>2, <2>1, MovesTyped DEF CallContext, CallResolve, Receipt, Plain
<1>3. CASE CallAbandon(q)
  <2>1. Values /\ UNCHANGED <<grants, unused>>
    BY <1>0, <1>3 DEF CallAbandon, Receipt, Values, Grants, Typed, controls
  <2>2. \E r \in Requests : Goes(q, r) /\ r.at \notin {"sent", "call"}
    BY <1>0, <1>3, MovesTyped DEF CallAbandon, Receipt
  <2> QED
    BY <1>3, <2>1, <2>2 DEF CallAbandon, Abandons
<1>4. CASE CallRefused(q)
  BY <1>4, PlainRefusal DEF CallRefused
<1>5. CASE CallRaises(q)
  <2>1. Values /\ closedBy' = closedBy
    BY <1>5 DEF CallRaises, Values, Grants, Typed, controls, run
  <2> QED
    BY <1>5, <2>1, ResetsTyped DEF CallRaises, Plain
<1>6. CASE FinishTask(q) \/ FinishChat(q)
  BY <1>0, <1>6, PlainRefusal DEF FinishTask, FinishChat, controls
<1>7. CASE FinishContext(q)
  <2>1. CASE Committed(q) /\ RotateAndReply(q, FALSE)
    BY <1>0, <2>1, PlainRefusal DEF Committed
  <2>2. CASE /\ req' = [req EXCEPT ![q] = Idle] /\ excused' = TRUE
             /\ UNCHANGED <<sessions, controls, run, jar, faults>>
    <3>1. Values /\ closedBy' = closedBy
      BY <2>2 DEF Values, Grants, Typed, controls, run
    <3> QED
      BY <2>2, <3>1, ResetsTyped DEF Plain
  <2> QED
    BY <1>7, <2>1, <2>2 DEF FinishContext
<1>8. CASE FinishControl(q)
  <2>1. CASE Committed(q) /\ RotateAndReply(q, TRUE)
    BY <1>0, <2>1, PlainRefusal DEF Committed
  <2>2. CASE Refuse(q, unused)
    BY <2>2, PlainRefusal
  <2> QED
    BY <1>8, <2>1, <2>2 DEF FinishControl
<1> QED
  BY <1>1, <1>2, <1>3, <1>4, <1>5, <1>6, <1>7, <1>8

LEMMA Booked ==
  ASSUME Typed, [Next]_vars
  PROVE  OfBooks
<1>1. CASE Bootstrap \/ Expire \/ Advance \/ Work \/ Orphan \/ Reconcile \/ InterruptAttempt
  <2>1. CASE Bootstrap
    BY <2>1 DEF Bootstrap, Idles, Values, Grants, Typed, controls, run, OfBooks
  <2>4. CASE Expire
    <3>1. excused' \in BOOLEAN
      BY <2>4 DEF Expire
    <3> QED
      BY <2>4, <3>1 DEF Expire, Idles, Values, Grants, Typed, controls, run, OfBooks
  <2>2. CASE Advance \/ InterruptAttempt
    BY <2>2 DEF Advance, InterruptAttempt, Outside, Idles, Values, Grants, Typed, controls,
                OfBooks
  <2>3. CASE Work \/ Orphan \/ Reconcile
    BY <2>3 DEF Work, Orphan, Reconcile, Outside, Idles, Values, Grants, Typed, controls,
                OfBooks
  <2> QED
    BY <1>1, <2>1, <2>2, <2>3, <2>4
<1>3. CASE UNCHANGED vars
  BY <1>3 DEF vars, controls, run, Idles, Values, Grants, Typed, OfBooks
<1>4. ASSUME NEW q \in Slots,
             \/ \E kind \in Kinds[q], corr \in Corrs, conf \in 0..Len(grants) :
                  Send(q, kind, corr, conf)
             \/ Deliver(q) \/ Lose(q) \/ WriteFails(q)
             \/ Authenticate(q) \/ Envelope(q) \/ Look(q) \/ Frame(q) \/ Ended(q) \/ Close(q)
      PROVE  OfBooks
  BY <1>4, BooksOfTheBrowser DEF OfBooks
<1>5. ASSUME NEW q \in Slots,
             Claim(q) \/ Deny(q) \/ Enter(q) \/ Preflight(q) \/ Eligible(q)
      PROVE  OfBooks
  BY <1>5, BooksOfClaims DEF OfBooks
<1>6. ASSUME NEW q \in Slots,
             \/ ReadTask(q) \/ ReadChat(q) \/ ReadControl(q) \/ ReadContext(q)
             \/ Malformed(q) \/ Confirm(q) \/ Begin(q)
      PROVE  OfBooks
  BY <1>6, BooksOfBodies DEF OfBooks
<1>7. ASSUME NEW q \in Slots,
             \/ CallTask(q) \/ CallChat(q) \/ CallContext(q) \/ CallResolve(q) \/ CallAbandon(q)
             \/ CallRefused(q) \/ CallRaises(q)
             \/ FinishTask(q) \/ FinishChat(q) \/ FinishContext(q) \/ FinishControl(q)
      PROVE  OfBooks
  BY <1>7, BooksOfCalls DEF OfBooks
<1> QED
  BY <1>1, <1>3, <1>4, <1>5, <1>6, <1>7 DEF Next

\* A confirmation that is used up stays as it is.
LEMMA GoodStays ==
  ASSUME Typed, Grants, NEW i, NEW n, Good(i, n)
  PROVE  Good(i, n)'
<1>1. grants \in Seq([corr : AnyCorr, seq : Nat])
  BY DEF Typed
<1>2. CASE grants' = grants /\ unused' \subseteq unused
  BY <1>2 DEF Good
<1>3. ASSUME NEW g \in [corr : AnyCorr, seq : Nat], grants' = Append(grants, g),
             unused' \subseteq unused \cup {Len(grants) + 1}
      PROVE  Good(i, n)'
  <2>1. i \in 1..Len(grants) /\ i \notin unused /\ grants[i].seq = n
    BY <1>1 DEF Good
  <2>2. i \in DOMAIN grants' /\ grants'[i] = grants[i] /\ i # Len(grants) + 1
    BY <1>1, <1>3, <2>1
  <2> QED
    BY <1>3, <2>1, <2>2 DEF Good
<1> QED
  BY <1>2, <1>3 DEF Grants

LEMMA ConfirmedStep ==
  ASSUME Typed, Confirmed, OfBooks
  PROVE  Confirmed'
<1> DEFINE Calls4(q) == At(q, "call") /\ Kind(q) = "recover"
<1>0. req \in [Slots -> Requests] /\ unused \subseteq DOMAIN grants
  BY DEF Typed
<1>1. CASE Idles
  <2>1. Grants
    BY <1>1 DEF Idles, Values
  <2>2. \A p \in Slots : Calls4(p)' => Good(req[p].conf, req[p].snap)'
    BY <1>1, <2>1, GoodStays DEF Idles, Confirmed, At, Kind
  <2>3. closedBy' = closedBy
    BY <1>1 DEF Idles
  <2>4. closedBy = <<0, 0>> \/ Good(closedBy[1], closedBy[2])'
    BY <2>1, <2>3, GoodStays DEF Confirmed
  <2> QED
    BY <2>2, <2>3, <2>4 DEF Confirmed
<1>2. ASSUME NEW q \in Slots, Plain(q) \/ Sends(q) \/ Abandons(q) PROVE Confirmed'
  <2>1. Grants /\ \E r \in Requests : Goes(q, r) /\ r.at # "call"
    BY <1>2 DEF Plain, Sends, Abandons, Values
  <2>2. \A p \in Slots : Calls4(p)' => p # q /\ req'[p] = req[p]
    BY <1>0, <2>1 DEF Goes, At
  <2>3. \A p \in Slots : Calls4(p)' => Good(req[p].conf, req[p].snap)'
    BY <2>1, <2>2, GoodStays DEF Confirmed, At, Kind
  <2>4. closedBy' = <<0, 0>> \/ Good(closedBy[1], closedBy[2])'
    <3>1. CASE closedBy' = closedBy
      BY <2>1, <3>1, GoodStays DEF Confirmed
    <3>2. CASE Abandons(q)
      BY <2>1, <3>2, GoodStays DEF Abandons, Confirmed
    <3> QED
      BY <1>2, <3>1, <3>2 DEF Plain, Sends
  <2> QED
    BY <2>3, <2>4 DEF Confirmed
<1>3. ASSUME NEW q \in Slots, Begins(q) PROVE Confirmed'
  <2> DEFINE i == req[q].conf
  <2>1. Grants /\ closedBy' = closedBy /\ grants' = grants /\ unused' \subseteq unused \ {i}
    BY <1>3 DEF Begins, Values
  <2>2. /\ \A p \in Slots \ {q} : req'[p] = req[p]
        /\ req'[q].kind = Kind(q) /\ req'[q].conf = i /\ req'[q].snap = req[q].snap
    BY <1>0, <1>3 DEF Begins, Goes, Requests, Kind
  <2>3. Calls4(q)' => Good(req[q].conf, req[q].snap)'
    BY <1>0, <1>3, <2>1, <2>2 DEF Begins, Good, Kind
  <2>4. \A p \in Slots \ {q} : Calls4(p)' => Good(req[p].conf, req[p].snap)'
    BY <2>1, <2>2, GoodStays DEF Confirmed, At, Kind
  <2>5. closedBy' = <<0, 0>> \/ Good(closedBy[1], closedBy[2])'
    BY <2>1, GoodStays DEF Confirmed
  <2> QED
    BY <2>3, <2>4, <2>5 DEF Confirmed
<1> QED
  BY <1>1, <1>2, <1>3 DEF OfBooks

LEMMA TypedStep ==
  ASSUME Typed, OfSessions, OfBooks, Single
  PROVE  Typed'
<1>0. /\ tokens \in Nat /\ live \subseteq 1..tokens /\ req \in [Slots -> Requests]
      /\ grants \in Seq([corr : AnyCorr, seq : Nat]) /\ unused \subseteq DOMAIN grants
  BY DEF Typed
<1>1. tokens' \in Nat /\ live' \subseteq 1..tokens'
  <2>1. CASE Rests
    BY <1>0, <2>1 DEF Rests
  <2>4. CASE Starts
    <3>1. tokens' = 1 /\ live' = {1} /\ 1 \in 1..1
      BY <2>4 DEF Starts
    <3> QED
      BY <3>1
  <2>2. ASSUME NEW q \in Slots, Renews(q) PROVE tokens' \in Nat /\ live' \subseteq 1..tokens'
    <3>1. tokens' = tokens + 1 /\ \A n \in live' : n \in live \/ n = tokens + 1
      BY <2>2 DEF Renews
    <3>2. \A n \in 1..tokens \cup {tokens + 1} : n \in 1..(tokens + 1)
      BY <1>0
    <3> QED
      <4>1. tokens' \in Nat
        BY <1>0, <3>1
      <4>2. \A n \in live' : n \in 1..(tokens + 1)
        BY <1>0, <3>1, <3>2
      <4> QED
        BY <3>1, <4>1, <4>2
  <2>3. ASSUME NEW q \in Slots, Leaves(q) \/ GoesOn(q) \/ Takes(q) \/ Passes(q)
        PROVE  tokens' \in Nat /\ live' \subseteq 1..tokens'
    BY <1>0, <2>3 DEF Leaves, GoesOn, Takes, Passes
  <2> QED
    BY <2>1, <2>2, <2>3, <2>4 DEF OfSessions
<1>2. Values
  BY DEF OfBooks, Idles, Plain, Sends, Begins, Abandons
<1>3. grants' \in Seq([corr : AnyCorr, seq : Nat]) /\ unused' \subseteq DOMAIN grants'
  <2>1. CASE grants' = grants /\ unused' \subseteq unused
    BY <1>0, <2>1
  <2>2. ASSUME NEW g \in [corr : AnyCorr, seq : Nat], grants' = Append(grants, g),
               unused' \subseteq unused \cup {Len(grants) + 1}
        PROVE  grants' \in Seq([corr : AnyCorr, seq : Nat]) /\ unused' \subseteq DOMAIN grants'
    BY <1>0, <2>2
  <2> QED
    BY <1>2, <2>1, <2>2 DEF Values, Grants
<1> DEFINE Tidy == /\ req \in [Slots -> Requests]
                   /\ \A q \in Slots : /\ At(q, "sent") => ~req[q].replay
                                       /\ At(q, "call") => Kind(q) \in Commands
<1>4. Tidy'
  <2>1. CASE Idles
    BY <2>1 DEF Idles, Typed, At, Kind
  <2>2. ASSUME NEW q \in Slots, Plain(q) \/ Abandons(q) \/ Sends(q) PROVE Tidy'
    <3>1. PICK r \in Requests : Goes(q, r) /\ (r.at = "sent" => ~r.replay) /\ r.at # "call"
      BY <2>2 DEF Plain, Abandons, Sends
    <3> QED
      BY <1>0, <3>1 DEF Goes, Typed, At, Kind
  <2>3. ASSUME NEW q \in Slots, Begins(q) PROVE Tidy'
    <3> DEFINE r == [req[q] EXCEPT !.at = "call"]
    <3>1. req[q] \in Requests /\ r \in Requests /\ req' = [req EXCEPT ![q] = r]
      BY <1>0, <2>3 DEF Begins, Goes
    <3>2. r.at = "call" /\ r.kind \in Commands
      BY <2>3, <3>1 DEF Begins, Requests, Kind
    <3> HIDE DEF r
    <3> QED
      BY <1>0, <3>1, <3>2 DEF Typed, At, Kind
  <2> QED
    BY <2>1, <2>2, <2>3 DEF OfBooks
<1> QED
  BY <1>1, <1>2, <1>3, <1>4 DEF Values, Typed

----------------------------------------------------------------------------
(* The theorems.                                                           *)

LEMMA InitInv == Init => IInv
<1> SUFFICES ASSUME Init PROVE IInv
  OBVIOUS
<1>1. /\ tokens = 0 /\ live = {} /\ expired = {} /\ jar = 0 /\ seq = 0
      /\ grants = <<>> /\ unused = {} /\ closedBy = <<0, 0>> /\ excused = FALSE
      /\ req = [q \in Slots |-> Idle]
      /\ calls = EmptyBag
  BY DEF Init
<1>2. Idle \in Requests /\ Idle.at = "idle"
  BY IdleTyped
<1>3. \A q \in Slots : req[q].at = "idle"
  BY <1>1, <1>2
<1>4. DOMAIN calls = {}
  BY <1>1 DEF EmptyBag, SetToBag
<1>5. Typed
  <2>1. tokens \in Nat /\ live \subseteq 1..tokens /\ jar \in Nat /\ seq \in Nat
    BY <1>1
  <2>2. req \in [Slots -> Requests]
    BY <1>1, <1>2
  <2>3. grants \in Seq([corr : AnyCorr, seq : Nat]) /\ unused \subseteq DOMAIN grants
    BY <1>1
  <2>4. \A q \in Slots : (At(q, "sent") => ~req[q].replay) /\ (At(q, "call") => Kind(q) \in Commands)
    BY <1>3 DEF At
  <2> QED
    BY <1>1, <2>1, <2>2, <2>3, <2>4 DEF Typed
<1>6. Single
  BY <1>3, <1>4 DEF Single, Waits, Owns, Serving
<1>7. Kept
  BY <1>1 DEF Kept
<1>8. Confirmed
  BY <1>1, <1>3 DEF Confirmed, At
<1> QED
  BY <1>5, <1>6, <1>7, <1>8 DEF IInv

LEMMA NextInv == IInv /\ [Next]_vars => IInv'
<1> SUFFICES ASSUME Typed, Single, Kept, Confirmed, [Next]_vars PROVE IInv'
  BY DEF IInv
<1>1. excused \/ expired = {}
  BY DEF Kept
<1>2. OfSessions
  BY <1>1, Classified
<1>3. OfBooks
  BY Booked
<1>4. Younger
  BY ExcusedStays DEF Typed
<1> QED
  BY <1>2, <1>3, <1>4, TypedStep, SingleStep, KeptStep, ConfirmedStep DEF IInv

\* What the server holds of sessions, requests and confirmations is consistent
\* in every state it reaches.
THEOREM AlwaysInv == Spec => []IInv
<1> QED
  BY InitInv, NextInv, PTL DEF Spec

\* However requests are duplicated, delayed or replayed over any number of
\* connections, a cookie authorises one mutation, on the session it names.
THEOREM CookieAlwaysActsOnce == Spec => []CookieActsOnce
<1>1. IInv => CookieActsOnce
  <2> SUFFICES ASSUME IInv PROVE CookieActsOnce
    OBVIOUS
  <2>1. \A c \in DOMAIN calls : c[1] = c[2] /\ calls[c] = 1
    BY DEF IInv, Single
  <2> QED
    BY <2>1 DEF CookieActsOnce, BagToSet
<1> QED
  BY <1>1, AlwaysInv, PTL

\* Once a browser has a session, and short of a timeout, a broken upload or an
\* error no handler catches, one is live or held by a request that answers with
\* the next.
THEOREM SessionAlwaysKept == Spec => []SessionKept
<1>1. IInv => SessionKept
  <2> SUFFICES ASSUME IInv, tokens > 0, ~excused PROVE live \cup Held # {}
    BY DEF SessionKept
  <2>1. live # {} \/ \E q \in Slots : Owns(q)
    BY DEF IInv, Kept
  <2>2. \A q \in Slots : Owns(q) => Session(q) \in Held
    BY DEF Owns, Serving, Held
  <2> QED
    BY <2>1, <2>2
<1> QED
  BY <1>1, AlwaysInv, PTL

\* Fleet abandons a run only with a confirmation that was issued for the very
\* state it is abandoned in, and that is used up.
THEOREM AlwaysAbandonedAsConfirmed == Spec => []AbandonedAsConfirmed
<1>1. IInv => AbandonedAsConfirmed
  <2> SUFFICES ASSUME IInv, closedBy[1] > 0
      PROVE  grants[closedBy[1]].seq = closedBy[2] /\ closedBy[1] \notin unused
    BY DEF AbandonedAsConfirmed
  <2>1. closedBy # <<0, 0>>
    OBVIOUS
  <2> QED
    BY <2>1 DEF IInv, Confirmed, Good
<1> QED
  BY <1>1, AlwaysInv, PTL
=============================================================================
