------------------------ MODULE AccountingProperties ------------------------
EXTENDS Accounting

(* Used plus reserved calls stay within the limit until the window resets,  *)
(* and the journals forget no call: what a provider was asked for has a     *)
(* reservation, settled at most once and never as cancelled.                *)
WindowKept ==
  /\ open => Used + Reserved <= Limit
  /\ sent \subseteq Reservations
  /\ \A i \in sent :
       LET ends == {k \in DOMAIN rows["settled"] : rows["settled"][k].of = i}
       IN  Cardinality(ends) <= 1 /\ ends \subseteq Reconciled

(* No call is reserved blindly: whenever one is, the evidence of every run  *)
(* that ever asked a provider is there and sound, so a run removed with its *)
(* usage stops every other run instead of freeing its share.                *)
Spenders == {rows["registry"][i].run : i \in sent}
NeverBlind ==
  [][Reservations' # Reservations => \A r \in Spenders : store[r] \in Sound]_vars
=============================================================================
