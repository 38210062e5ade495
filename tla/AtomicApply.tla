----------------------------- MODULE AtomicApply -----------------------------
(***************************************************************************)
(* What one candidate application promises, without receipts, temporaries, *)
(* crashes or recovery: the project changes only under a guard that other  *)
(* TORQ work respects, one verdict is given and it is given once, it is    *)
(* about the whole scope, and nothing changes after it.                    *)
(***************************************************************************)
CONSTANT Verdicts  \* how an application may end without having been applied

VARIABLES world,    \* the scoped files: all base, all result, or neither
          guarded,  \* the project is closed to other work
          verdict   \* "open" until the application is decided

vars == <<world, guarded, verdict>>

Worlds == {"base", "mixed", "result"}

TypeOK == /\ world \in Worlds
          /\ guarded \in BOOLEAN
          /\ verdict \in {"open", "applied"} \cup Verdicts

Init == world = "base" /\ guarded = FALSE /\ verdict = "open"

Close == /\ ~guarded /\ verdict = "open" /\ world = "base"
         /\ guarded' = TRUE
         /\ UNCHANGED <<world, verdict>>

Change == /\ guarded /\ verdict = "open"
          /\ world' \in Worlds
          /\ UNCHANGED <<guarded, verdict>>

Commit == /\ guarded /\ verdict = "open" /\ world = "result"
          /\ verdict' = "applied"
          /\ UNCHANGED <<world, guarded>>

Withdraw == /\ verdict = "open" /\ world = "base"
            /\ verdict' \in Verdicts
            /\ UNCHANGED <<world, guarded>>

Open == /\ guarded /\ verdict # "open"
        /\ guarded' = FALSE
        /\ UNCHANGED <<world, verdict>>

Next == Close \/ Change \/ Commit \/ Withdraw \/ Open

Spec == Init /\ [][Next]_vars
=============================================================================
