--------------------------- MODULE TaskProperties ----------------------------
EXTENDS Tasks

(* What tasks.json says of a task that came to an end is what its sealed    *)
(* evidence says, through crashes, failing writes and late stops; only a    *)
(* task that failed before it had evidence has none.  A candidate is ready  *)
(* with every receipt before it and no process left.                        *)
StoreFollowsEvidence ==
  \A r \in Requests :
    /\ state[r] = "candidate_ready" =>
         r \in sealed /\ r \notin alive /\ evidence[r] = Append(Order, "candidate_ready")
    /\ state[r] = "cancelled" => r \in sealed /\ Last(evidence[r]) = "task_cancelled"
    /\ state[r] = "failed" /\ evidence[r] # <<>> =>
         r \in sealed /\ Last(evidence[r]) = "task_failed"

(* A stop that was accepted is not overtaken: the task it names does not    *)
(* become ready afterwards, however late its provider or checker answers.   *)
StopHolds ==
  [][\A r \in held : "candidate_ready" \in Range(evidence'[r])
                         => "candidate_ready" \in Range(evidence[r])]_vars

(* A provider is asked once for a request, whatever is retried, repeated or *)
(* restarted, and the store knew before it was.                             *)
AskedOnce ==
  \A r \in Requests : spawned[r] <= 1 /\ (spawned[r] = 1 => dispatch[r])

(* A reserved task comes to an end, by its worker, a stop or the restart    *)
(* after a crash, unless the write that says so failed.                     *)
TasksEnd ==
  \A r \in Requests :
    state[r] \in Unsettled ~> (state[r] \in Ended \/ r \in jammed)

(* "Unknown termination prevents successful cancellation and blocks another *)
(* task until safe recovery" (docs/plans/2026-09-16-dashboard-p2-           *)
(* contract.md): a task that left a process is recorded as such when it     *)
(* ends.                                                                    *)
DocUnknownBlocks ==
  \A r \in alive : state[r] \in Ended => state[r] = "termination_unknown"
=============================================================================
