--------------------------- MODULE FleetProperties ---------------------------
EXTENDS Fleet

(* A cookie authorises one mutation: no two requests act on one session,    *)
(* however they are duplicated, delayed or retried, and none acts on a      *)
(* session that its cookie does not name, as a replay could.                *)
CookieActsOnce ==
  \A c \in BagToSet(calls) : c[1] = c[2] /\ calls[c] = 1

(* The operator keeps a session: short of a timeout, an upload that breaks  *)
(* or an error no handler catches, one is live or held by a request that    *)
(* will answer with the next.                                               *)
Held == {Session(q) : q \in {q \in Slots :
           req[q].at \in {"held", "body", "call", "done"} /\ Kind(q) \notin Reads}}
SessionKept == tokens > 0 /\ ~excused => live \cup Held # {}

(* A run is abandoned by Fleet at the very state the operator confirmed:    *)
(* no receipt came between the confirmation and the abandonment, and the    *)
(* confirmation is used up by then, so it abandons nothing else.            *)
AbandonedAsConfirmed ==
  LET i == closedBy[1] IN
  i > 0 => grants[i].seq = closedBy[2] /\ i \notin unused

=============================================================================
