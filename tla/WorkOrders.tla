----------------------------- MODULE WorkOrders -----------------------------
(***************************************************************************)
(* What AutonomousLoop promises about an idempotency key (the paragraph    *)
(* "Exactly-once across redelivery" of execution_loop.py): a key is        *)
(* settled at most once, by one request, either with a receipt or as       *)
(* actuated but unreconciled, and it is never reopened.                    *)
(***************************************************************************)
CONSTANTS Keys, Requests, KeyOf, None

VARIABLE status     \* None, or the request that settled the key and how

Settled == [req : Requests, how : {"receipted", "unreconciled"}]

Init == status = [k \in Keys |-> None]

Settle(k, s) ==
  /\ status[k] = None /\ KeyOf[s.req] = k
  /\ status' = [status EXCEPT ![k] = s]

Next == \E k \in Keys, s \in Settled : Settle(k, s)

Spec == Init /\ [][Next]_status
=============================================================================
