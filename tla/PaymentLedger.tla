---------------------------- MODULE PaymentLedger ----------------------------
(***************************************************************************)
(* What the payment service promises its clients: one payment per          *)
(* idempotency key, and one decision per payment.  Each operation is one   *)
(* step here; PaymentProcessor shows which requests keep to it.            *)
(***************************************************************************)
CONSTANTS
    Ids,       \* payment ids
    Keys,      \* idempotency keys
    None       \* no key given

VARIABLES
    status,    \* status[i]: of payment i, "absent" before it is created
    keyOf,     \* keyOf[i]: the idempotency key of payment i, or None
    told,      \* told[k]: the payments initiation answered to key k
    receipts   \* receipts[i]: the decisions answered for payment i

vars == <<status, keyOf, told, receipts>>

Init ==
    /\ status = [i \in Ids |-> "absent"]
    /\ keyOf = [i \in Ids |-> None]
    /\ told = [k \in Keys |-> {}]
    /\ receipts = [i \in Ids |-> {}]

\* A payment for a key comes into being once.
Create(i, k) ==
    /\ status[i] = "absent"
    /\ k \in Keys => \A j \in Ids : keyOf[j] # k
    /\ status' = [status EXCEPT ![i] = "pending"]
    /\ keyOf' = [keyOf EXCEPT ![i] = k]
    /\ UNCHANGED <<told, receipts>>

\* Every initiation with a key is answered with the payment of that key.
AnswerInitiate(i, k) ==
    /\ keyOf[i] = k
    /\ told' = [told EXCEPT ![k] = @ \union {i}]
    /\ UNCHANGED <<status, keyOf, receipts>>

\* Only a pending payment can be confirmed or cancelled.
Decide(i, decision) ==
    /\ status[i] = "pending"
    /\ status' = [status EXCEPT ![i] = decision]
    /\ UNCHANGED <<keyOf, told, receipts>>

\* The answer to a confirmation or cancellation carries the payment's status.
AnswerDecision(i) ==
    /\ status[i] \in {"confirmed", "cancelled"}
    /\ receipts' = [receipts EXCEPT ![i] = @ \union {status[i]}]
    /\ UNCHANGED <<status, keyOf, told>>

Next ==
    \E i \in Ids :
        \/ \E k \in Keys \union {None} : Create(i, k)
        \/ \E k \in Keys : AnswerInitiate(i, k)
        \/ \E d \in {"confirmed", "cancelled"} : Decide(i, d)
        \/ AnswerDecision(i)

Spec == Init /\ [][Next]_vars
==============================================================================
