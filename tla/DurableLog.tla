----------------------------- MODULE DurableLog ------------------------------
(***************************************************************************)
(* What a receipt store promises, without files, manifests or crashes: a   *)
(* log that grows by one receipt at a time, loses none, and may be closed, *)
(* after which it never changes again.                                     *)
(***************************************************************************)
EXTENDS Naturals

VARIABLES length,  \* receipts committed
          final    \* the log is closed

vars == <<length, final>>

TypeOK == length \in Nat /\ final \in BOOLEAN

Init == length = 0 /\ final = FALSE

Commit == ~final /\ length' = length + 1 /\ final' = FALSE

Close == length > 0 /\ final' = TRUE /\ length' = length

Next == Commit \/ Close

Spec == Init /\ [][Next]_vars
=============================================================================
