----------------------------- MODULE GovernedRun -----------------------------
(***************************************************************************)
(* What a governed run promises the operator: a command is accepted or     *)
(* refused while the run is undecided, an accepted one is applied at most  *)
(* once and only while the run is being executed, and when the run is      *)
(* decided every accepted command has been applied or declared unapplied.  *)
(* A decision is final.                                                    *)
(***************************************************************************)
CONSTANT Cmds
VARIABLES
  fate,   \* of every command: new, refused, queued, applied or dropped
  phase   \* running, waiting or decided

vars == <<fate, phase>>

Init == fate = [c \in Cmds |-> "new"] /\ phase = "running"

Queued == {c \in Cmds : fate[c] = "queued"}

Submit(c) ==
  /\ fate[c] = "new" /\ phase # "decided" /\ UNCHANGED phase
  /\ \E f \in {"queued", "refused"} : fate' = [fate EXCEPT ![c] = f]

Apply(c) ==
  /\ fate[c] = "queued" /\ phase = "running" /\ UNCHANGED phase
  /\ fate' = [fate EXCEPT ![c] = "applied"]

Await == phase = "running" /\ phase' = "waiting" /\ UNCHANGED fate

\* Some of the queue is dropped; the run may be decided once none is left.
Close(D) ==
  /\ phase # "decided" /\ D \subseteq Queued
  /\ fate' = [c \in Cmds |-> IF c \in D THEN "dropped" ELSE fate[c]]
  /\ phase' \in (IF D = Queued THEN {phase, "decided"} ELSE {phase})

Next ==
  \/ \E c \in Cmds : Submit(c) \/ Apply(c)
  \/ Await
  \/ \E D \in SUBSET Cmds : Close(D)

Spec == Init /\ [][Next]_vars
=============================================================================
