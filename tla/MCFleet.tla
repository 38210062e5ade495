------------------------------- MODULE MCFleet -------------------------------
EXTENDS FleetProperties, TLC

CONSTANTS s1, s2
MCSlots == {s1, s2}
\* Every request, and of one connection against the other what they share.
MCKinds ==
  (s1 :> {"read", "chat", "resolve", "start", "recover"}) @@
  (s2 :> {"events", "context", "start", "confirm", "recover"})
=============================================================================
