---------------------------- MODULE MCControllers ----------------------------
(***************************************************************************)
(* Small instances of what drives the kernel: the Crown broker, the        *)
(* autonomic and batch controllers on top of it, and the execution loop    *)
(* with budgets.  `driver` names the situation a behaviour is about; the   *)
(* variables of the others stay as they began.                             *)
(***************************************************************************)
EXTENDS Integers, Sequences

CONSTANTS None, Drivers

VARIABLES
  driver,                                                 \* the one that moves
  pc, ep, grant, attempt, act, standing, recon, live,     \* Crown
  world, cache, ledger, effects, pending,
  phase, outcome, matCache, torndown, slots, batch,       \* Automation
  status, abandoned,
  step, run, acts, completed, unreconciled, result,       \* ExecutionLoop
  now, sha, up, deliveries, done

-----------------------------------------------------------------------------
(* Crown: executions on one world, of which x1 and x2 share a key and an   *)
(* intent, x3 has their key but writes another value through another       *)
(* capability, and x4 has a key of its own; x1 and x3 once more, with      *)
(* grants that may have expired; two requests with worlds of their own,    *)
(* one of them with a postcondition its action does not bring about; one   *)
(* execution with every combination of the checks of admit_execution and   *)
(* three revisions.  They use the broker alone, so that what Automation    *)
(* asks of batches is given as NoBatch.                                    *)

Good == [expired |-> FALSE, sameAction |-> TRUE, sameCapability |-> TRUE,
         sameSubject |-> TRUE, inScope |-> TRUE, sameEffects |-> TRUE,
         grantRev |-> None, preparedRev |-> None, currentRev |-> None]
Expired == [Good EXCEPT !.expired = TRUE]
Revisions == {None, 1, 2}
AllGrants ==
  [expired : BOOLEAN, sameAction : BOOLEAN, sameCapability : BOOLEAN,
   sameSubject : BOOLEAN, inScope : BOOLEAN, sameEffects : BOOLEAN,
   grantRev : Revisions, preparedRev : Revisions, currentRev : Revisions]

Own(S) == [x \in S |-> x]
All(S, v) == [x \in S |-> v]
NoBatch == << >>
Sharers == {"x1", "x2", "x3", "x4"}
SharedKeyOf == [x \in Sharers |-> IF x = "x4" THEN "k2" ELSE "k1"]
SharedCapOf == [x \in Sharers |-> IF x = "x3" THEN "b" ELSE "a"]
SharedValOf == [x \in Sharers |-> IF x \in {"x1", "x2"} THEN 1 ELSE 2]

Shared == INSTANCE AutomationProofs WITH
       Execs <- Sharers, Episodes <- {"e1"}, Values <- 0..2, KeyOf <- SharedKeyOf,
       CapOf <- SharedCapOf, ValOf <- SharedValOf, ExpectedOf <- SharedValOf,
       Grants <- {Good}, Retryable <- {"x1"}, MaxAttempts <- 1,
       EpisodesOf <- [x \in Sharers |-> {"e1"}],
       Faults <- {"provider", "late", "teardown"}, BatchOf <- NoBatch, WorldOf <- NoBatch,
       SelectionOf <- NoBatch, MaxConcurrency <- 1, Outages <- {}
Rivals == {"x1", "x3"}
Refusals == INSTANCE AutomationProofs WITH
       Execs <- Rivals, Episodes <- {"e1"}, Values <- 0..2,
       KeyOf <- All(Rivals, "k1"), CapOf <- Own(Rivals),
       ValOf <- [x \in Rivals |-> SharedValOf[x]], ExpectedOf <- [x \in Rivals |-> SharedValOf[x]],
       Grants <- {Good, Expired}, Retryable <- {}, MaxAttempts <- 1,
       EpisodesOf <- All(Rivals, {"e1"}), Faults <- {"late"}, BatchOf <- NoBatch,
       WorldOf <- NoBatch, SelectionOf <- NoBatch, MaxConcurrency <- 1, Outages <- {}

Retriers == {"y1", "y2"}
RetryExpectedOf == [x \in Retriers |-> IF x = "y2" THEN 2 ELSE 1]

Retries == INSTANCE AutomationProofs WITH
       Execs <- Retriers, Episodes <- Retriers, Values <- 0..2, KeyOf <- Own(Retriers),
       CapOf <- All(Retriers, "a"), ValOf <- All(Retriers, 1), ExpectedOf <- RetryExpectedOf,
       Grants <- {Good}, Retryable <- Retriers, MaxAttempts <- 2,
       EpisodesOf <- [x \in Retriers |-> {x}], Faults <- {"provider", "observe", "authority"},
       BatchOf <- NoBatch, WorldOf <- NoBatch, SelectionOf <- NoBatch, MaxConcurrency <- 1,
       Outages <- {}
Admits == INSTANCE AutomationProofs WITH
       Execs <- {"x1"}, Episodes <- {"e1"}, Values <- 0..1, KeyOf <- Own({"x1"}),
       CapOf <- All({"x1"}, "a"), ValOf <- All({"x1"}, 1), ExpectedOf <- All({"x1"}, 1),
       Grants <- AllGrants, Retryable <- {}, MaxAttempts <- 1,
       EpisodesOf <- All({"x1"}, {"e1"}), Faults <- {"late"}, BatchOf <- NoBatch,
       WorldOf <- NoBatch, SelectionOf <- NoBatch, MaxConcurrency <- 1, Outages <- {}

(* Autonomic runs: a1 and a2 share a key in one batch, b1 repeats it in    *)
(* the next, a3 asks for another world under the key; then one batch whose *)
(* requests are named after the way their analysis ends, with outages.     *)

Selections == {"one", "none", "many", "invalid_payload", "no_issuer"}
Selected(S) == [x \in S |-> IF x \in Selections THEN x ELSE "one"]
Repeats == {"a1", "a2", "a3", "b1"}
BatchKeyOf(S) == [x \in S |-> IF x \in Repeats THEN "k1" ELSE x]
BatchWorldOf(S) == [x \in S |-> IF x = "a3" THEN "other" ELSE "world"]
KeyExecs == {"a1", "a2", "a3", "many", "b1", "no_issuer"}
KeyExpectedOf == [x \in KeyExecs |-> IF x = "a2" THEN 0 ELSE 1]
KeyBatchOf == [x \in KeyExecs |-> IF x \in {"b1", "no_issuer"} THEN 2 ELSE 1]
OutageExecs == {"none", "invalid_payload", "a1", "a2"}

BKeys == INSTANCE AutomationProofs WITH
       Execs <- KeyExecs, Episodes <- KeyExecs, Values <- 0..1, KeyOf <- BatchKeyOf(KeyExecs),
       CapOf <- All(KeyExecs, "a"), ValOf <- All(KeyExecs, 1), ExpectedOf <- KeyExpectedOf,
       Grants <- {Good}, Retryable <- {}, MaxAttempts <- 1, EpisodesOf <- All(KeyExecs, {}),
       Faults <- {"provider", "late"}, BatchOf <- KeyBatchOf,
       WorldOf <- BatchWorldOf(KeyExecs), SelectionOf <- Selected(KeyExecs),
       MaxConcurrency <- 2, Outages <- {}
BOut == INSTANCE AutomationProofs WITH
       Execs <- OutageExecs, Episodes <- OutageExecs, Values <- 0..1,
       KeyOf <- BatchKeyOf(OutageExecs), CapOf <- All(OutageExecs, "a"),
       ValOf <- All(OutageExecs, 1), ExpectedOf <- All(OutageExecs, 1),
       Grants <- {Good}, Retryable <- {}, MaxAttempts <- 1, EpisodesOf <- All(OutageExecs, {}),
       Faults <- {"authority"}, BatchOf <- All(OutageExecs, 1),
       WorldOf <- BatchWorldOf(OutageExecs), SelectionOf <- Selected(OutageExecs),
       MaxConcurrency <- 2, Outages <- {"materialize", "issuer", "teardown", "capabilities"}

(* The execution loop with the default clock and three providers: every    *)
(* fault it is told about, and providers that come and go; "x" is beyond   *)
(* every provider.                                                         *)

Loop == INSTANCE ExecutionLoopProofs WITH
       Requests <- {"r", "x"}, Keys <- {"k", "other"},
       KeyOf <- [q \in {"r", "x"} |-> IF q = "x" THEN "other" ELSE "k"],
       N <- 3, CapableOf <- [q \in {"r", "x"} |-> IF q = "x" THEN {} ELSE 1..3],
       ExpiresAt <- All({"r", "x"}, None), Shas <- {0, 1}, MaxRetries <- 1, MaxSwitches <- 1,
       MaxMoves <- 1, Deadline <- 3, MaxDeliveries <- 1, MaxTick <- 3, ClockRuns <- FALSE,
       Faults <- {"authority", "resource", "resolve", "claim", "crash", "transport",
                  "verifier", "digest", "escape"},
       phase <- step, effects <- done
LoopOut == INSTANCE ExecutionLoopProofs WITH
       Requests <- {"r", "x"}, Keys <- {"k", "other"},
       KeyOf <- [q \in {"r", "x"} |-> IF q = "x" THEN "other" ELSE "k"],
       N <- 3, CapableOf <- [q \in {"r", "x"} |-> IF q = "x" THEN {} ELSE 1..3],
       ExpiresAt <- All({"r", "x"}, None), Shas <- {0}, MaxRetries <- 1, MaxSwitches <- 1,
       MaxMoves <- 0, Deadline <- 3, MaxDeliveries <- 1, MaxTick <- 3, ClockRuns <- FALSE,
       Faults <- {"claim", "crash", "transport", "outage"},
       phase <- step, effects <- done

ASSUME ControllerAssumption ==
  /\ Shared!CrownAssumption /\ Retries!CrownAssumption /\ Refusals!CrownAssumption
  /\ Admits!CrownAssumption
  /\ BKeys!CrownAssumption /\ BOut!CrownAssumption
  /\ Retries!ExclusiveWorlds /\ BKeys!AutomationAssumption /\ BOut!AutomationAssumption
  /\ BKeys!OneCapabilityPerKey
  /\ Loop!LoopAssumption /\ Loop!ReceiptAssumption
  /\ LoopOut!LoopAssumption /\ LoopOut!ReceiptAssumption

-----------------------------------------------------------------------------
crown == <<pc, ep, grant, attempt, act, standing, recon, live, world, cache, ledger, effects,
           pending>>
control == <<phase, outcome, matCache, torndown, slots, batch, status, abandoned>>
loop == <<step, run, acts, completed, unreconciled, result, now, sha, up, deliveries, done>>
batches == <<pc, ep, grant, attempt, act, standing, recon, live, world, cache, ledger,
             effects, pending, phase, outcome, matCache, torndown, slots, batch, status,
             abandoned>>
vars == <<driver, crown, control, loop>>

(* What the controllers' variables are while no controller runs. *)
NoControl ==
  /\ phase = None /\ outcome = None /\ matCache = None /\ torndown = {}
  /\ slots = 0 /\ batch = 0 /\ status = None /\ abandoned = {}

Init ==
  /\ driver \in Drivers
  /\ CASE driver = "crown_retry" -> Retries!CrownInit(Retriers) /\ NoControl
       [] driver = "crown_refusals" -> Refusals!CrownInit({"e1"}) /\ NoControl
       [] driver = "crown_admission" -> Admits!CrownInit({"e1"}) /\ NoControl
       [] driver = "batch_keys" -> BKeys!Init
       [] driver = "batch_outages" -> BOut!Init
       [] OTHER -> Shared!CrownInit({"e1"}) /\ NoControl
  /\ Loop!Init /\ (driver # "loop" => sha = 0)

Next ==
  /\ UNCHANGED driver
  /\ \/ /\ \/ driver = "crown_shared" /\ Shared!CrownNext
           \/ driver = "crown_refusals" /\ Refusals!CrownNext
           \/ driver = "crown_retry" /\ Retries!CrownNext
           \/ driver = "crown_admission" /\ Admits!CrownNext
        /\ UNCHANGED <<control, loop>>
     \/ /\ \/ driver = "batch_keys" /\ BKeys!Next
           \/ driver = "batch_outages" /\ BOut!Next
        /\ UNCHANGED loop
     \/ driver = "loop" /\ Loop!Next /\ UNCHANGED <<crown, control>>
     \/ driver = "loop_outages" /\ LoopOut!Next /\ UNCHANGED <<crown, control>>

(* The event loop runs every task that can run, and a call that was        *)
(* entered executes on; clients and late effects are under no obligation.  *)
Fairness ==
  /\ WF_batches(driver = "batch_outages" /\ BOut!Settle)
  /\ \A x \in OutageExecs : WF_batches(driver = "batch_outages" /\ BOut!RunStep(x))
  /\ WF_loop(driver = "loop" /\ Loop!LoopStep)
  /\ WF_loop(driver = "loop_outages" /\ LoopOut!LoopStep)

Spec == Init /\ [][Next]_vars /\ Fairness

-----------------------------------------------------------------------------
(* Properties *)

(* An ALIVE answer of the broker, also to a controller, stands on an       *)
(* accepted act of its key, an effect that happened and a later receipt    *)
(* that judged the expected state, whatever others did to the world in     *)
(* between the two holds of the episode lock.  Checked with the inductive  *)
(* invariants it is proved from, which include the variables' types.       *)
AliveIsEvidenced ==
  /\ driver = "crown_shared" => Shared!AliveIsEvidenced /\ Shared!CrownInvariant
  /\ driver = "crown_retry" => Retries!AliveIsEvidenced /\ Retries!CrownInvariant
  /\ driver = "batch_keys" => BKeys!AliveIsEvidenced /\ BKeys!AutomationInvariant

(* An effect happens for an admitted grant, once per request and key, over *)
(* retries under new keys, batches and cancellations, and is never         *)
(* answered as if nothing had happened; what reconciliation says is true.  *)
(* The execution loop's claims stay within its budgets.  The inductive     *)
(* invariants behind retries and keys are checked with them.               *)
EffectsAreAccountedFor ==
  /\ driver = "crown_shared" => Shared!EffectsAreAccountedFor
  /\ driver = "crown_retry" => Retries!EffectsAreAccountedFor
  /\ driver = "crown_admission" => Admits!EffectsAreAccountedFor
  /\ driver = "crown_refusals" => Refusals!EffectsAreAccountedFor
  /\ driver = "batch_keys" => BKeys!KeysActOnce /\ BKeys!KeyInvariant
  /\ driver = "loop" => Loop!TypeOK /\ Loop!ClaimsAreBounded
  /\ driver = "loop_outages" => LoopOut!ClaimsAreBounded

(* A batch that returns has an outcome per request, a reported cleanup is  *)
(* true, a world that outlives the batch has a run that says so, and no    *)
(* slot of the semaphore is lost or given twice.                           *)
LeaksAreTold ==
  driver = "batch_outages" => BOut!LeaksAreTold /\ BOut!BatchIsComplete /\ BOut!AutomationInvariant

(* Whatever collaborators do, a batch returns or raises and a delivery to  *)
(* the execution loop is answered.                                         *)
DriversEnd ==
  /\ driver = "batch_outages" => BOut!BatchEnds
  /\ driver = "loop" => Loop!EveryRunEnds
  /\ driver = "loop_outages" => LoopOut!EveryRunEnds
=============================================================================
