--------------------------- MODULE RefundPromise ---------------------------
(***************************************************************************)
(* What the refunds of one payment promise its owner, its reviewer and the *)
(* books (BILL-11): one request is under way at a time; money goes back    *)
(* once for a request, after its review and of exactly the amount that was *)
(* reviewed; a request is completed when its money went back and fails     *)
(* only while none did.                                                    *)
(***************************************************************************)
EXTENDS Naturals

CONSTANTS
    Requests,
    Price     \* what the payment charged

VARIABLES
    status,  \* status[r]: how far the request is
    amount,  \* amount[r]: what its review granted, or 0
    given,   \* the requests whose money went back
    left     \* what is left of the payment

vars == <<status, amount, given, left>>

Init ==
    /\ status = [r \in Requests |-> "none"]
    /\ amount = [r \in Requests |-> 0]
    /\ given = {}
    /\ left = Price

UnderWay(r) == status[r] \in {"requested", "processing"}

\* A request moves to the status s and takes nothing else along.
MovesTo(r, s) == status' = [status EXCEPT ![r] = s] /\ UNCHANGED <<amount, given, left>>

File(r)   == status[r] = "none" /\ (\A k \in Requests : ~UnderWay(k)) /\ MovesTo(r, "requested")
Reject(r) == status[r] = "requested" /\ MovesTo(r, "rejected")

\* A review never grants more than is left of the payment.
Grant(r, a) ==
    /\ status[r] = "requested" /\ 0 < a /\ a <= left
    /\ status' = [status EXCEPT ![r] = "processing"]
    /\ amount' = [amount EXCEPT ![r] = a]
    /\ UNCHANGED <<given, left>>

GiveBack(r) ==
    /\ status[r] = "processing" /\ r \notin given
    /\ given' = given \cup {r}
    /\ left' = left - amount[r]
    /\ UNCHANGED <<status, amount>>

Complete(r) == status[r] = "processing" /\ r \in given /\ MovesTo(r, "completed")
Fail(r)     == status[r] = "processing" /\ r \notin given /\ MovesTo(r, "failed")

Next ==
    \E r \in Requests :
       \/ File(r) \/ Reject(r) \/ GiveBack(r) \/ Complete(r) \/ Fail(r)
       \/ \E a \in 1..Price : Grant(r, a)

Spec == Init /\ [][Next]_vars
=============================================================================
