-------------------------------- MODULE Chat --------------------------------
(***************************************************************************)
(* Governed chat over one run (application/chat_runtime.py): a coordinator *)
(* owns at most one provider tree, and the threads that submit, pump and   *)
(* cancel its turn agree on one terminal row.  A second service may be     *)
(* opened on the same run: nothing but the journal stands between them.    *)
(*                                                                         *)
(* A turn belongs to the service it was submitted to, so its three threads *)
(* and its tree are kept by turn.  _lock is held by a submission until its *)
(* worker runs; every other locked section is one step.                    *)
(***************************************************************************)
EXTENDS ChatEvidence, FiniteSets

CONSTANTS
  MaxTurns,    \* bound: turns submitted
  MaxServices, \* bound: services opened, after a crash or beside another
  MaxFaults    \* bound: failing writes, spawns and observations

ASSUME ChatAssumption ==
  /\ {MaxTurns, MaxServices, MaxFaults} \subseteq Nat /\ NoTurn = 0

\* A turn id is fresh: turns are numbered as they reach the journal.  A service
\* is one process: the one after a restart is another.
Turns == 1..MaxTurns
Services == 1..MaxServices
NoService == 0

VARIABLES
  rows,        \* the journal
  torn,        \* its last line is cut short: nothing can verify it any more
  known,       \* rows a service remembers, compared with the file by append
  up,          \* "down", "recovering" or "serving"
  active,      \* _active_turn
  terminalized, cancelling,   \* _terminalized, _cancellation_requested
  home,        \* service a turn was submitted to
  tree,        \* "none", "running", "left" (children only) or "gone"
  stopped,     \* turns whose owner has a confirmed stop
  submitter, pump, canceller,  \* the threads of a turn
  seen,        \* what each of its threads observed of the tree
  lost,        \* turns with a row that could not be appended
  opens,       \* services opened so far
  faults

journal == <<rows, torn, known>>
memory == <<active, terminalized, cancelling>>
threads == <<submitter, pump, canceller, seen>>
os == <<tree, stopped>>
bounds == <<opens, faults>>
vars == <<journal, up, memory, home, os, threads, lost, bounds>>

Init ==
  /\ rows = <<>> /\ torn = FALSE /\ known = [s \in Services |-> 0]
  /\ up = [s \in Services |-> "down"] /\ active = [s \in Services |-> NoTurn]
  /\ terminalized = [s \in Services |-> FALSE] /\ cancelling = [s \in Services |-> FALSE]
  /\ home = [t \in Turns |-> NoService]
  /\ tree = [t \in Turns |-> "none"] /\ stopped = {}
  /\ submitter = [t \in Turns |-> "off"] /\ pump = [t \in Turns |-> "off"]
  /\ canceller = [t \in Turns |-> "off"]
  /\ seen = [t \in Turns |-> [submitter |-> "none", pump |-> "none", canceller |-> "none"]]
  /\ lost = {} /\ opens = 0 /\ faults = 0

------------------------------------------------------------------------------
(* append: verify, compare, validate, write, move the head.                 *)

Fault == faults < MaxFaults /\ faults' = faults + 1 /\ UNCHANGED opens

\* verify_chat_evidence: the chain, and a head that trails by at most a row.
Verified == ~torn

\* A body that says uncertain of a tree known to be empty is refused.
Accepts(s, event, t, body) ==
  Verified /\ known[s] = Len(rows) /\ Allowed(rows, event, t) /\ body

Write(s, event, t) ==
  rows' = Append(rows, Row(event, t)) /\ known' = [known EXCEPT ![s] = Len(rows) + 1]
Written(s, event, t, body) ==
  /\ Accepts(s, event, t, body) /\ Write(s, event, t) /\ UNCHANGED <<torn, lost, bounds>>

\* Refused, cut short, or written and not known to be.
Failed(s, event, t, body) ==
  /\ \/ ~Accepts(s, event, t, body) /\ UNCHANGED <<journal, bounds>>
     \/ /\ Accepts(s, event, t, body) /\ Fault /\ UNCHANGED known
        /\ \/ torn' = TRUE /\ UNCHANGED rows
           \/ rows' \in {rows, Append(rows, Row(event, t))} /\ UNCHANGED torn
  /\ lost' = IF event \in Terminal \/ rows' # rows THEN lost \cup {t} ELSE lost

------------------------------------------------------------------------------
(* The tree a turn owns, and what a stop says of it.                        *)

Observe(t, who, o) == seen' = [seen EXCEPT ![t][who] = o]
Becomes(t, now) == tree' = [tree EXCEPT ![t] = now]

\* force_stop, or close when it raises: what it observes, "lost" when both raise;
\* a confirmed stop is remembered.
ForceStop(t, who) ==
  \/ /\ Observe(t, who, "confirmed") /\ Becomes(t, "gone")
     /\ stopped' = stopped \cup {t} /\ UNCHANGED bounds
  \/ /\ t \notin stopped /\ Fault /\ UNCHANGED stopped
     /\ \/ Observe(t, who, "emptied") /\ Becomes(t, "gone")
        \/ /\ \E o \in {"unconfirmed", "lost"} : Observe(t, who, o)
           /\ Becomes(t, "gone") \/ UNCHANGED tree

\* close at the end of a thread.
Close(t) ==
  \/ Becomes(t, "gone") /\ stopped' = stopped \cup {t} /\ UNCHANGED bounds
  \/ t \notin stopped /\ Fault /\ UNCHANGED os

Exit(t) ==
  /\ \/ tree[t] = "running" /\ \E now \in {"left", "gone"} : Becomes(t, now)
     \/ tree[t] = "left" /\ Becomes(t, "gone")
  /\ UNCHANGED <<journal, up, memory, home, stopped, threads, lost, bounds>>

------------------------------------------------------------------------------
(* submit.                                                                  *)

Serving(s) == s \in Services /\ up[s] = "serving"
Locked(s) ==
  \E t \in Turns : home[t] = s /\ submitter[t] \in {"spawning", "unspawned", "starting"}
Free(t) == Serving(home[t]) /\ ~Locked(home[t])

Submits(t, place) == submitter' = [submitter EXCEPT ![t] = place]
Pumps(t, place) == pump' = [pump EXCEPT ![t] = place]
Cancels(t, place) == canceller' = [canceller EXCEPT ![t] = place]

\* _finish_locked, of whatever turn is active.
Finish(s) ==
  /\ terminalized' = [terminalized EXCEPT ![s] = TRUE]
  /\ cancelling' = [cancelling EXCEPT ![s] = FALSE]
  /\ active' = [active EXCEPT ![s] = NoTurn]

\* A terminal row, and only then the end of the turn.
Ended(s, event, t, body) ==
  \/ Written(s, event, t, body) /\ Finish(s)
  \/ Failed(s, event, t, body) /\ UNCHANGED memory

Submit(s, t) ==
  /\ Serving(s) /\ ~Locked(s) /\ active[s] = NoTurn
  /\ Verified /\ ~Submitted(rows, t) /\ \A n \in 1..(t - 1) : Submitted(rows, n)
  /\ \/ Written(s, "turn_submitted", t, TRUE) /\ Submits(t, "spawning")
     \/ Failed(s, "turn_submitted", t, TRUE) /\ UNCHANGED submitter
  /\ home' = IF rows' # rows THEN [home EXCEPT ![t] = s] ELSE home
  /\ UNCHANGED <<up, memory, os, pump, canceller, seen>>

Spawn(t) ==
  /\ submitter[t] = "spawning" /\ Serving(home[t])
  /\ \/ /\ Submits(t, "starting") /\ Becomes(t, "running")
        /\ active' = [active EXCEPT ![home[t]] = t]
        /\ terminalized' = [terminalized EXCEPT ![home[t]] = FALSE]
        /\ cancelling' = [cancelling EXCEPT ![home[t]] = FALSE] /\ UNCHANGED bounds
     \/ Fault /\ Submits(t, "unspawned") /\ UNCHANGED <<tree, memory>>
  /\ UNCHANGED <<journal, up, home, stopped, pump, canceller, seen, lost>>

\* The owner could not be made.
Unspawned(t) ==
  /\ submitter[t] = "unspawned" /\ Serving(home[t])
  /\ \/ Written(home[t], "turn_failed", t, TRUE)
     \/ Failed(home[t], "turn_failed", t, TRUE)
  /\ Submits(t, "off")
  /\ UNCHANGED <<up, memory, home, os, pump, canceller, seen>>

\* turn_started, and the worker; either may fail.
Start(t) ==
  /\ submitter[t] = "starting" /\ Serving(home[t])
  /\ \/ /\ Written(home[t], "turn_started", t, TRUE)
        /\ Submits(t, "off") /\ Pumps(t, "running") /\ UNCHANGED cancelling
     \/ /\ \/ Failed(home[t], "turn_started", t, TRUE)
           \/ /\ Accepts(home[t], "turn_started", t, TRUE) /\ Fault
              /\ Write(home[t], "turn_started", t) /\ UNCHANGED <<torn, lost>>
        /\ cancelling' = [cancelling EXCEPT ![home[t]] = TRUE]
        /\ Submits(t, "stopping") /\ UNCHANGED pump
  /\ UNCHANGED <<up, active, terminalized, home, os, canceller, seen>>

StopStart(t) ==
  /\ submitter[t] = "stopping" /\ ForceStop(t, "submitter") /\ Submits(t, "observed")
  /\ UNCHANGED <<journal, up, memory, home, pump, canceller, lost>>

\* The terminal a thread appends, and whether its body says what it may.
Uncertain == "turn_cancellation_uncertain"
Clear(event, o) == event = Uncertain => o # "emptied"

SettleStart(t) ==
  LET s == home[t]
      o == seen[t].submitter
      event == IF o = "confirmed" THEN "turn_failed" ELSE Uncertain
  IN /\ submitter[t] = "observed" /\ Free(t) /\ Submits(t, "closing")
     /\ Observe(t, "submitter", "none")
     /\ Ended(s, event, t, Clear(event, o))
     /\ UNCHANGED <<up, home, os, pump, canceller>>

CloseStart(t) ==
  /\ submitter[t] = "closing" /\ Close(t) /\ Submits(t, "off")
  /\ UNCHANGED <<journal, up, memory, home, pump, canceller,
                 seen, lost>>

------------------------------------------------------------------------------
(* cancel, and shutdown, which calls it.                                    *)

Cancel(t) ==
  LET s == home[t]
  IN /\ Free(t) /\ active[s] = t /\ canceller[t] = "off"
     /\ \/ /\ Written(s, "turn_cancellation_requested", t, TRUE)
           /\ cancelling' = [cancelling EXCEPT ![s] = TRUE]
           /\ Cancels(t, "stopping")
        \/ /\ Failed(s, "turn_cancellation_requested", t, TRUE)
           /\ UNCHANGED <<cancelling, canceller>>
     /\ UNCHANGED <<up, active, terminalized, home, os, submitter, pump, seen>>

StopCancel(t) ==
  /\ canceller[t] = "stopping" /\ ForceStop(t, "canceller") /\ Cancels(t, "observed")
  /\ UNCHANGED <<journal, up, memory, home, submitter, pump, lost>>

\* Another thread's terminal is the answer when there is one.
SettleCancel(t) ==
  LET s == home[t]
      o == seen[t].canceller
      event == IF o = "confirmed" THEN "turn_cancelled" ELSE Uncertain
  IN /\ canceller[t] = "observed" /\ Free(t) /\ Cancels(t, "closing")
     /\ Observe(t, "canceller", "none")
     /\ \/ terminalized[s] /\ UNCHANGED <<journal, memory, lost, bounds>>
        \/ ~terminalized[s] /\ Ended(s, event, t, Clear(event, o))
     /\ UNCHANGED <<up, home, os, submitter, pump>>

CloseCancel(t) ==
  /\ canceller[t] = "closing" /\ Close(t) /\ Cancels(t, "off")
  /\ UNCHANGED <<journal, up, memory, home, submitter, pump,
                 seen, lost>>

------------------------------------------------------------------------------
(* _pump: "cut" once the output outgrew its bound.                          *)

PumpOnly == <<journal, up, memory, home, submitter, canceller, lost>>

Drain(t) ==
  /\ pump[t] = "running" /\ tree[t] # "running" /\ Pumps(t, "waiting")
  /\ UNCHANGED <<PumpOnly, os, seen, bounds>>

Overflow(t) ==
  /\ pump[t] = "running" /\ ForceStop(t, "pump")
  /\ Pumps(t, IF seen'[t].pump = "lost" THEN "failing" ELSE "cut") /\ UNCHANGED PumpOnly

\* wait: the leader exited and the job says what is left, or it must be stopped.
Wait(t) ==
  /\ pump[t] \in {"waiting", "cut"}
  /\ \/ /\ tree[t] # "running" /\ UNCHANGED <<os, bounds>>
        /\ Observe(t, "pump", IF tree[t] = "gone" THEN "confirmed" ELSE "unconfirmed")
     \/ tree[t] # "running" /\ Fault /\ UNCHANGED os /\ Observe(t, "pump", "unconfirmed")
     \/ tree[t] = "running" /\ ForceStop(t, "pump")
  /\ Pumps(t, CASE seen'[t].pump = "lost" -> "failing"
                [] pump[t] = "cut" -> "settling cut"
                [] OTHER -> "settling")
  /\ UNCHANGED PumpOnly

\* Wrong on purpose: what is left of the tree is not asked.
OutcomesBlind(t) == {"turn_completed", "turn_failed"}
\* What the turn may end as: a code that is not zero, and an overflow, fail it.
Outcomes(t) ==
  IF seen[t].pump # "confirmed" THEN {Uncertain}
  ELSE IF pump[t] = "settling" THEN {"turn_completed", "turn_failed"} ELSE {"turn_failed"}

\* The turn's terminal, unless it has one, is being cancelled or is not the turn.
Settle(t) ==
  LET s == home[t]
      o == seen[t].pump
  IN /\ pump[t] \in {"settling", "settling cut"} /\ Free(t) /\ Observe(t, "pump", "none")
     /\ IF terminalized[s] \/ cancelling[s] \/ active[s] # t
          THEN Pumps(t, "off") /\ UNCHANGED <<journal, lost, memory, bounds>>
          ELSE \E event \in Outcomes(t) :
                 \/ Written(s, event, t, Clear(event, o)) /\ Finish(s) /\ Pumps(t, "closing")
                 \/ /\ Failed(s, event, t, Clear(event, o)) /\ Pumps(t, "failing")
                    /\ UNCHANGED memory
     /\ UNCHANGED <<up, home, os, submitter, canceller>>

StopPump(t) ==
  /\ pump[t] = "failing" /\ ForceStop(t, "pump") /\ Pumps(t, "failed") /\ UNCHANGED PumpOnly

\* _fail_background: what it appends when the turn is still open.
Background(s, o) ==
  IF cancelling[s] THEN IF o = "confirmed" THEN "turn_cancelled" ELSE Uncertain
  ELSE IF o = "confirmed" THEN "turn_failed" ELSE Uncertain
\* Wrong on purpose: a stop that is not confirmed leaves no row.
FailSilent(t) ==
  /\ pump[t] = "failed" /\ Free(t) /\ Pumps(t, "closing") /\ Observe(t, "pump", "none")
  /\ \/ seen[t].pump = "confirmed" /\ Written(home[t], "turn_failed", t, TRUE) /\ Finish(home[t])
     \/ seen[t].pump # "confirmed" /\ UNCHANGED <<journal, lost, memory, bounds>>
  /\ UNCHANGED <<up, home, os, submitter, canceller>>
Fail(t) ==
  LET s == home[t]
      o == seen[t].pump
      event == Background(s, o)
      mine == active[s] = t /\ ~terminalized[s]
      \* A stop under way leaves the observation out of its body.
      body == cancelling[s] \/ Clear(event, o)
  IN /\ pump[t] = "failed" /\ Free(t) /\ Pumps(t, "closing")
     /\ Observe(t, "pump", "none")
     /\ \/ mine /\ Ended(s, event, t, body)
        \/ ~mine /\ UNCHANGED <<journal, lost, memory, bounds>>
     /\ UNCHANGED <<up, home, os, submitter, canceller>>

ClosePump(t) ==
  /\ pump[t] = "closing" /\ Close(t) /\ Pumps(t, "off")
  /\ UNCHANGED <<journal, up, memory, home, submitter,
                 canceller, seen, lost>>

------------------------------------------------------------------------------
(* A service dies; another is opened, and marks what was left open.         *)

Ends(s) ==
  LET ran == {t \in Turns : home[t] = s}
      off(thread) == [t \in Turns |-> IF t \in ran THEN "off" ELSE thread[t]]
  IN /\ up' = [up EXCEPT ![s] = "down"]
     /\ known' = [known EXCEPT ![s] = 0]
     /\ active' = [active EXCEPT ![s] = NoTurn]
     /\ terminalized' = [terminalized EXCEPT ![s] = FALSE]
     /\ cancelling' = [cancelling EXCEPT ![s] = FALSE]
     /\ submitter' = off(submitter) /\ pump' = off(pump) /\ canceller' = off(canceller)
     /\ seen' = [t \in Turns |-> IF t \in ran
                   THEN [submitter |-> "none", pump |-> "none", canceller |-> "none"]
                   ELSE seen[t]]

Crash(s) ==
  /\ up[s] # "down" /\ UNCHANGED bounds
  /\ Ends(s) /\ torn' \in {torn, TRUE}
  /\ UNCHANGED <<rows, home, os, lost>>

OpenChat(s) ==
  /\ s = opens + 1 /\ opens' = s /\ Verified
  /\ up' = [up EXCEPT ![s] = "recovering"] /\ known' = [known EXCEPT ![s] = Len(rows)]
  /\ UNCHANGED <<rows, torn, memory, home, os, threads, lost, faults>>

\* recover_incomplete; a service that cannot, exits.
Recover(s) ==
  /\ up[s] = "recovering"
  /\ \/ /\ Verified /\ ActiveTurn(rows) = NoTurn /\ up' = [up EXCEPT ![s] = "serving"]
        /\ UNCHANGED <<journal, lost, memory, threads, bounds>>
     \/ /\ Verified /\ ActiveTurn(rows) # NoTurn
        /\ \/ /\ Written(s, Uncertain, ActiveTurn(rows), TRUE)
              /\ up' = [up EXCEPT ![s] = "serving"] /\ UNCHANGED <<memory, threads>>
           \/ /\ Failed(s, Uncertain, ActiveTurn(rows), TRUE)
              /\ up' = [up EXCEPT ![s] = "down"] /\ UNCHANGED <<memory, threads>>
     \/ ~Verified /\ Ends(s) /\ UNCHANGED <<rows, torn, lost, bounds>>
  /\ UNCHANGED <<home, os>>

------------------------------------------------------------------------------
Work(t) ==
  \/ Spawn(t) \/ Unspawned(t) \/ Start(t) \/ StopStart(t) \/ SettleStart(t) \/ CloseStart(t)
  \/ StopCancel(t) \/ SettleCancel(t) \/ CloseCancel(t)
  \/ Drain(t) \/ Wait(t) \/ Settle(t) \/ StopPump(t) \/ Fail(t) \/ ClosePump(t)

Next ==
  \/ \E t \in Turns : Work(t) \/ Cancel(t) \/ Overflow(t) \/ Exit(t)
  \/ \E s \in Services : Crash(s) \/ OpenChat(s) \/ Recover(s) \/ \E t \in Turns : Submit(s, t)

Spec == Init /\ [][Next]_vars
\* Threads that run are scheduled; nobody is bound to submit, cancel or restart.
FairSpec == Spec /\ WF_vars(\E t \in Turns : Work(t))
=============================================================================
