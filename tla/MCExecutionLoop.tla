-------------------------- MODULE MCExecutionLoop --------------------------
(* Small instances of ExecutionLoop for TLC. *)
EXTENDS ExecutionLoop

(* "r" never expires; "s" shares its key, is another request and expires   *)
(* at tick 2; "x" is beyond every provider.                                *)
MCKeyOf == [q \in Requests |-> IF q = "x" THEN "other" ELSE "k"]
MCCapableOf == [q \in Requests |-> IF q = "x" THEN {} ELSE 1..N]
MCExpiresAt == [q \in Requests |-> IF q = "s" THEN 2 ELSE None]

(* Redelivery: claims succeed, providers stay and no exception escapes.    *)
(* The actions left out are disabled under these faults; the situations    *)
(* "loop" and "loop_outages" of MCControllers have them.                   *)
RedeliveryStep ==
  \/ Resolve \/ GiveUp \/ Claim \/ ExpiredAfterClaim
  \/ Execute \/ CrashAfter \/ CrashBefore \/ ExecuteFault
  \/ Observe \/ Verify \/ Recheck \/ Journal \/ JournalVerify

RedeliveryNext ==
  \/ \E r \in Requests : Deliver(r)
  \/ RedeliveryStep
  \/ MoveSubject \/ Tick \/ Quiescent

RedeliverySpec == Init /\ [][RedeliveryNext]_vars
=============================================================================
