-------------------------- MODULE MCRefundRequest --------------------------
(***************************************************************************)
(* Two requests of one payment, one after the other, over a small account  *)
(* of MCCreditLedger: the payment was an upgrade, and funded the lot it    *)
(* added, 1, and the day that opened after it, 6.                          *)
(***************************************************************************)
EXTENDS RefundRequest, TLC

Kinds   == [l \in Lots |-> IF l = 1 THEN "upgrade" ELSE IF l = 6 THEN "daily" ELSE "compensation"]
Sizes   == [l \in Lots |-> 1]
Starts  == [l \in Lots |-> IF l = 6 THEN 1 ELSE 0]
Ends    == [l \in Lots |-> IF l = 5 THEN Never ELSE 2]
Needs   == [j \in Jobs |-> 1]
Comps   == [j \in Jobs |-> 5]
Funding == [r \in Requests |-> {1, 6}]
AnyOp   == Permutations(Ops)
=============================================================================
