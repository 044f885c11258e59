--------------------------- MODULE MCCreditLedger ---------------------------
(***************************************************************************)
(* Small accounts for TLC.  Lot 1 is the running month, 2 a voucher, 3 a   *)
(* pack whose payment may be refunded, 4 and 5 the compensation of the two *)
(* starts, 6 what a paid upgrade adds to the month at time 1.              *)
(***************************************************************************)
EXTENDS CreditLedger

CONSTANTS j1, j2

Kinds   == [l \in Lots |-> <<"monthly", "voucher", "purchased", "compensation", "compensation", "upgrade">>[l]]
Sizes   == [l \in Lots |-> <<1, 1, 2, 1, 1, 1>>[l]]
Starts  == [l \in Lots |-> IF l = 6 THEN 1 ELSE 0]
Ends    == [l \in Lots |-> IF l \in {1, 2, 6} THEN 2 ELSE Never]
Early   == [Ends EXCEPT ![2] = 1]   \* the voucher runs out within the month
Needs   == [j \in Jobs |-> IF j = j1 THEN 2 ELSE 1]
Comps   == [j \in Jobs |-> IF j = j1 THEN 4 ELSE 5]
Funding == [r \in Requests |-> {3}]
=============================================================================
