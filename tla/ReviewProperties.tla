--------------------------- MODULE ReviewProperties ---------------------------
EXTENDS Review

(* A child plan rests on one decision, whichever requests race for the same *)
(* correction: one request at most is answered with it, its decision is     *)
(* sealed and is the one the plan's context names, and a provider is given  *)
(* no refinement without it.                                                *)
OneChild ==
  /\ \A x \in told : Proved(x[1], x[2])
  /\ \A x, y \in told : x[2] = y[2] => x = y
  /\ \A p \in given : p.kind = "refinement" => \E r \in Requests : Proved(r, p)

(* A continuation replaces no words of the operator's but those its own     *)
(* candidate was built from, whatever is saved while it is being opened.    *)
DraftsKept ==
  [][draft'.text > 0 /\ draft'.text # draft.text =>
       draft.text = None \/ draft = OwnDraft(draft'.text)]_vars

(* A plan that a task is started from carries the lineage of the draft: a   *)
(* continuation's from the moment it is active, for the draft it wrote and  *)
(* every revision of it, whoever saves, observes, activates and reviews;    *)
(* none for a draft begun after it was deleted.  Not so once one of five    *)
(* things happened: a deletion's second half was cut short (Breaks, Crash); *)
(* it came so late that it cleared the continuation of the draft that       *)
(* followed, or so early that the deleted draft's was made active after it  *)
(* (Clear); a revision of the draft that followed read the continuation it  *)
(* was about to clear (Meets); or a draft was reviewed between the write    *)
(* that opened it and its activation (Misses).                              *)
LineageTrue ==
  [][\A t \in Clients : At(t, "idle") /\ At(t, "revalidate")' =>
       LET p == op'[t].plan
       IN  p.kind # "refinement" => p.of = origin \/ crossed]_vars

(* "Same request/body replays the same child" (docs/plans/2026-09-16-       *)
(* dashboard-p3-contract.md, line 44), as long as its correction stands.    *)
DocReplaySame ==
  \A x \in told : correction[x[2].of] = x[2].rev => Replays(x[1])
===============================================================================
