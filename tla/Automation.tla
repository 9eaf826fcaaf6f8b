----------------------------- MODULE Automation ------------------------------
(***************************************************************************)
(* The autonomic controller (autonomic.py) and the bounded batch runner    *)
(* above it (automation.py), composed with the broker and the Crown        *)
(* runtime of Crown.tla.  One run materializes a world, selects a          *)
(* capability, asks for a grant, executes through the broker and tears the *)
(* world down.  A batch starts its runs in a task group behind a           *)
(* semaphore; a run that raises cancels the others.  Clients submit one    *)
(* batch after the other, also with keys an earlier batch has used.        *)
(*                                                                         *)
(* Runs are the executions of Crown.tla, and an episode is named after the *)
(* run that materialized it.                                               *)
(***************************************************************************)
EXTENDS Crown

CONSTANTS
  BatchOf,          \* [Execs -> 1..]: the batch a request is submitted in
  WorldOf,          \* [Execs -> digests of provider, scenario and config]
  SelectionOf,      \* [Execs -> what _select_capability and the payload give]
  MaxConcurrency,   \* policy.max_concurrency
  Outages           \* {"materialize", "issuer", "teardown", "capabilities"}

Selections == {"one", "none", "many", "invalid_payload", "no_issuer"}

Materializations == [world : {WorldOf[x] : x \in Execs}, ep : Execs \cup {None},
                     standing : Standings]

AutomationAssumption ==
  /\ IsFiniteSet(Execs) /\ Episodes = Execs
  /\ MaxConcurrency \in Nat \ {0}
  /\ BatchOf \in [Execs -> Nat]
  /\ SelectionOf \in [Execs -> Selections]
  /\ None \notin Materializations /\ None \notin Entries

VARIABLES
  phase,      \* where a run is in AutonomicController.run
  outcome,    \* the AutonomicOutcome of a run that returned one
  matCache,   \* _materialization_idempotency
  torndown,   \* domain of _teardown_receipts
  slots,      \* free slots of the semaphore
  batch,      \* the batch submitted last
  status,     \* "running", "cancelling", "returned" or "raised"
  abandoned   \* history: runs cancelled inside the kernel's act()

controlVars == <<phase, outcome, slots, batch, status, abandoned>>
vars == <<crownVars, controlVars, matCache, torndown>>

NoOutcome == [standing |-> "NONE", verified |-> FALSE, cleanup |-> "NONE"]
Batch(b) == {x \in Execs : BatchOf[x] = b}
Over(x) == phase[x] \in {"ended", "raised", "cancelled"}
Submitted(x) == BatchOf[x] = batch

Init ==
  /\ CrownInit({})
  /\ phase = [x \in Execs |-> "queued"]
  /\ outcome = [x \in Execs |-> NoOutcome]
  /\ matCache = [k \in {KeyOf[x] : x \in Execs} |-> None]
  /\ torndown = {}
  /\ slots = MaxConcurrency
  /\ batch = 1
  /\ status = "running"
  /\ abandoned = {}

-----------------------------------------------------------------------------
(* How a run ends *)

(* Mutant: the exception of one run is swallowed by its task. *)
Fail_Swallowed(x) ==
  /\ phase' = [phase EXCEPT ![x] = "raised"]
  /\ slots' = slots + 1
  /\ UNCHANGED <<outcome, batch, status, abandoned>>

(* Mutant: the slot is given back by the run and by its task. *)
Fail_FreesTwice(x) ==
  /\ phase' = [phase EXCEPT ![x] = "raised"]
  /\ status' = "cancelling"
  /\ slots' = slots + 2
  /\ UNCHANGED <<outcome, batch, abandoned>>

(* An exception leaves the run, its slot and the task group, which cancels *)
(* the other tasks.  Nothing tears its world down.                         *)
Fail(x) ==
  /\ phase' = [phase EXCEPT ![x] = "raised"]
  /\ status' = "cancelling"
  /\ slots' = slots + 1
  /\ UNCHANGED <<outcome, batch, abandoned>>

End(x, st, ok, cleanup) ==
  /\ phase' = [phase EXCEPT ![x] = "ended"]
  /\ outcome' = [outcome EXCEPT ![x] = [standing |-> st, verified |-> ok, cleanup |-> cleanup]]
  /\ slots' = slots + 1
  /\ UNCHANGED <<batch, status, abandoned>>

(* _finish: teardown() answers from its receipts, raises for an episode it *)
(* does not know (folded into BLOCKED), or waits for the episode's lock.   *)
Finish(x, e, st, ok) ==
  \/ e \in torndown /\ End(x, st, ok, "ALIVE")
  \/ e \notin torndown /\ e \notin live' /\ End(x, st, ok, "BLOCKED")
  \/ /\ e \notin torndown /\ e \in live'
     /\ phase' = [phase EXCEPT ![x] = "closing"]
     /\ outcome' = [outcome EXCEPT ![x] =
                      [standing |-> st, verified |-> ok, cleanup |-> "NONE"]]
     /\ UNCHANGED <<slots, batch, status, abandoned>>

(* Mutant: the cleanup is reported as asked for, not as answered. *)
Close_Hopeful(x) ==
  LET e == ep[x] IN
  /\ phase[x] = "closing"
  /\ UNCHANGED <<execVars, world, cache, ledger, effects, pending, matCache>>
  /\ End(x, outcome[x].standing, outcome[x].verified, "ALIVE")
  /\ \/ "teardown" \in Outages /\ UNCHANGED <<live, torndown>>
     \/ live' = live \ {e} /\ torndown' = torndown \cup {e}

(* The teardown once it has the lock.  If another run tore the episode     *)
(* down meanwhile, it fails on the closed world or on the second removal.  *)
Close(x) ==
  LET e == ep[x]
      close(cleanup) == End(x, outcome[x].standing, outcome[x].verified, cleanup) IN
  /\ phase[x] = "closing"
  /\ UNCHANGED <<execVars, world, cache, ledger, effects, pending, matCache>>
  /\ \/ /\ e \notin live \/ "teardown" \in Outages
        /\ close("BLOCKED") /\ UNCHANGED <<live, torndown>>
     \/ /\ e \in live /\ "authority" \in Faults
        /\ close("REFUSED") /\ UNCHANGED <<live, torndown>>
     \/ /\ e \in live
        /\ live' = live \ {e} /\ torndown' = torndown \cup {e}
        /\ close("ALIVE")

-----------------------------------------------------------------------------
(* AutonomicController.run *)

(* AutonomicAutomation.run: a task waits for a slot of the semaphore. *)
Start(x) ==
  /\ phase[x] = "queued" /\ Submitted(x) /\ status = "running" /\ slots > 0
  /\ phase' = [phase EXCEPT ![x] = "materialize"]
  /\ slots' = slots - 1
  /\ UNCHANGED <<crownVars, outcome, batch, status, abandoned, matCache, torndown>>

(* From an accepted materialization to the grant without an await: the     *)
(* capabilities of the episode (KeyError when it is gone), the selection,  *)
(* the prepared action (ValueError when the payload misses its schema).    *)
Analyze(x, e) ==
  \/ /\ e \notin live' \/ "capabilities" \in Outages \/ SelectionOf[x] = "invalid_payload"
     /\ Fail(x)
  \/ /\ e \in live' /\ SelectionOf[x] = "none" /\ Finish(x, e, "UNSUPPORTED", FALSE)
  \/ /\ e \in live' /\ SelectionOf[x] = "many"
     /\ Finish(x, e, "REQUIRES_CONFIGURATION", FALSE)
  \/ /\ e \in live' /\ SelectionOf[x] = "no_issuer" /\ Finish(x, e, "REFUSED", FALSE)
  \/ /\ e \in live' /\ SelectionOf[x] = "one"
     /\ phase' = [phase EXCEPT ![x] = "grant"]
     /\ UNCHANGED <<outcome, slots, batch, status, abandoned>>

Reach(x, e) == ep' = [ep EXCEPT ![x] = e] /\ UNCHANGED <<pc, grant, attempt, act, standing, recon>>

(* Mutant: a world is materialized again when its key was torn down. *)
Materialize_Again(x) ==
  /\ phase[x] = "materialize"
  /\ UNCHANGED <<world, cache, ledger, effects, pending, torndown>>
  /\ live' = live \cup {x}
  /\ matCache' = [matCache EXCEPT ![KeyOf[x]] =
                    [world |-> WorldOf[x], ep |-> x, standing |-> "ALIVE"]]
  /\ Reach(x, x) /\ Analyze(x, x)

(* create_episode under "<key>:materialize": the cached result, a refusal  *)
(* of another world under the key, a new world, or a failure (cached too). *)
(* Results that are not accepted carry no episode to tear down.            *)
Materialize(x) ==
  LET cached == matCache[KeyOf[x]]
      remember(e, st) == matCache' = [matCache EXCEPT ![KeyOf[x]] =
                                        [world |-> WorldOf[x], ep |-> e, standing |-> st]] IN
  /\ phase[x] = "materialize"
  /\ UNCHANGED <<world, cache, ledger, effects, pending, torndown>>
  /\ \/ /\ cached # None /\ cached.world = WorldOf[x] /\ cached.ep # None
        /\ UNCHANGED <<live, matCache>>
        /\ Reach(x, cached.ep) /\ Analyze(x, cached.ep)
     \/ /\ cached # None /\ cached.world = WorldOf[x] /\ cached.ep = None
        /\ End(x, cached.standing, FALSE, "NONE") /\ UNCHANGED <<execVars, live, matCache>>
     \/ /\ cached # None /\ cached.world # WorldOf[x]
        /\ End(x, "REFUSED", FALSE, "NONE") /\ UNCHANGED <<execVars, live, matCache>>
     \/ /\ cached = None
        /\ live' = live \cup {x} /\ remember(x, "ALIVE")
        /\ Reach(x, x) /\ Analyze(x, x)
     \/ /\ cached = None /\ "materialize" \in Outages
        /\ remember(None, "BLOCKED")
        /\ End(x, "BLOCKED", FALSE, "NONE") /\ UNCHANGED <<execVars, live>>

(* How the run goes on when the broker has returned or raised. *)
Continue(x) ==
  \/ pc'[x] = "raised" /\ Fail(x)
  \/ pc'[x] = "done" /\ Finish(x, ep[x], standing'[x], standing'[x] = "ALIVE")
  \/ pc'[x] \in {"act", "verify"} /\ UNCHANGED controlVars

(* The issuer grants, refuses or raises; a grant goes to the broker. *)
Plan(x) ==
  /\ phase[x] = "grant" /\ pc[x] = "idle"
  /\ UNCHANGED <<matCache, torndown>>
  /\ \/ /\ "issuer" \in Outages
        /\ UNCHANGED crownVars
        /\ Fail(x) \/ Finish(x, ep[x], "REFUSED", FALSE)
     \/ \E g \in Grants : Execute(x, ep[x], g) /\ Continue(x)

Consequence(x) ==
  /\ phase[x] = "grant"
  /\ Act(x) \/ Verify(x)
  /\ Continue(x)
  /\ UNCHANGED <<matCache, torndown>>

-----------------------------------------------------------------------------
(* AutonomicAutomation.run *)

(* Mutant: tasks that still wait for a slot are not cancelled. *)
Cancel_StartedOnly(x) ==
  /\ status = "cancelling" /\ Submitted(x) /\ ~Over(x) /\ phase[x] # "queued"
  /\ phase' = [phase EXCEPT ![x] = "cancelled"]
  /\ slots' = slots + 1
  /\ UNCHANGED <<crownVars, outcome, batch, status, abandoned, matCache, torndown>>

(* Cancellation is delivered at an await.  Inside act() the effect may     *)
(* have been applied without a receipt; _finish does not catch it.         *)
Cancel(x) ==
  /\ status = "cancelling" /\ Submitted(x) /\ ~Over(x)
  /\ phase' = [phase EXCEPT ![x] = "cancelled"]
  /\ slots' = IF phase[x] = "queued" THEN slots ELSE slots + 1
  /\ UNCHANGED <<execVars, live, cache, ledger, pending, outcome, batch, status>>
  /\ UNCHANGED <<matCache, torndown>>
  /\ \/ UNCHANGED <<world, effects, abandoned>>
     \/ /\ phase[x] = "grant" /\ pc[x] = "act" /\ ep[x] \in live
        /\ cache[ep[x]][Key(x)] = None
        /\ world' = [world EXCEPT ![ep[x]] = ValOf[x]]
        /\ effects' = effects \cup {<<x, 1>>}
        /\ abandoned' = abandoned \cup {x}

(* The task group is left once every task is over. *)
Settle ==
  /\ status \in {"running", "cancelling"}
  /\ \A x \in Batch(batch) : Over(x)
  /\ status' = IF status = "running" THEN "returned" ELSE "raised"
  /\ UNCHANGED <<crownVars, phase, outcome, slots, batch, abandoned, matCache, torndown>>

(* The client submits its next batch, on the same runtime. *)
Submit ==
  /\ status \in {"returned", "raised"}
  /\ Batch(batch + 1) # {}
  /\ batch' = batch + 1 /\ status' = "running" /\ slots' = MaxConcurrency
  /\ UNCHANGED <<crownVars, phase, outcome, abandoned, matCache, torndown>>

Late(x) ==
  /\ LateEffect(x, 1)
  /\ UNCHANGED <<controlVars, matCache, torndown>>

RunStep(x) == Start(x) \/ Materialize(x) \/ Plan(x) \/ Consequence(x) \/ Close(x) \/ Cancel(x)

Next == (\E x \in Execs : RunStep(x) \/ Late(x)) \/ Settle \/ Submit

(* The event loop runs every task that can run; clients and late effects   *)
(* are under no obligation.                                                *)
Fairness == WF_vars(Settle) /\ \A x \in Execs : WF_vars(RunStep(x))

Spec == Init /\ [][Next]_vars /\ Fairness

-----------------------------------------------------------------------------
(* Properties *)

Phases == {"queued", "materialize", "grant", "closing", "ended", "raised", "cancelled"}
Outcomes == [standing : Standings \cup {"UNSUPPORTED", "REQUIRES_CONFIGURATION"},
             verified : BOOLEAN, cleanup : {"NONE", "ALIVE", "BLOCKED", "REFUSED"}]

(* The controller's and the batch's variables have their types; the        *)
(* semaphore of AutonomicAutomation never has more slots than it began     *)
(* with.                                                                   *)
TypeOK ==
  /\ CrownTypeOK
  /\ phase \in [Execs -> Phases] /\ outcome \in [Execs -> Outcomes]
  /\ matCache \in [{KeyOf[x] : x \in Execs} -> Materializations \cup {None}]
  /\ torndown \subseteq Episodes
  /\ slots \in 0..MaxConcurrency /\ batch \in Nat
  /\ status \in {"running", "cancelling", "returned", "raised"}
  /\ abandoned \subseteq Execs

(* An idempotency key acts once, within a batch, across batches and when   *)
(* runs are cancelled: two runs with effects under one key need one that   *)
(* was cancelled inside act(), before anything could be remembered.        *)
KeysActOnce ==
  \A x, y \in Execs :
    x # y /\ KeyOf[x] = KeyOf[y] /\ <<x, 1>> \in effects /\ <<y, 1>> \in effects
      => x \in abandoned \/ y \in abandoned

(* The cleanup an outcome reports is true, also when runs share a world    *)
(* through their key (autonomic.py _finish folds errors into BLOCKED), and *)
(* a world that outlives its batch has a run that says so: an outcome with *)
(* a failed cleanup, or a run that raised or was cancelled.                *)
LeaksAreTold ==
  /\ \A x \in Execs : outcome[x].cleanup = "ALIVE" => ep[x] \in torndown \ live
  /\ status \in {"returned", "raised"} =>
       \A e \in live : \E x \in Execs :
         /\ ep[x] = e
         /\ phase[x] \in {"raised", "cancelled"} \/ outcome[x].cleanup \in {"BLOCKED", "REFUSED"}

(* A batch that returns has an outcome for each request, so that the       *)
(* AUTOMATION_RESULT_CARDINALITY_VIOLATION of automation.py never fires.   *)
BatchIsComplete ==
  status = "returned" => \A x \in Batch(batch) : phase[x] = "ended"

(* Every submitted batch returns or raises, whatever its runs meet. *)
BatchEnds == status \in {"running", "cancelling"} ~> status \in {"returned", "raised"}

(* The inductive invariant behind these.  Each run that has started and is *)
(* not over holds one slot, belongs to the batch that is running, and has  *)
(* left none behind when the batch returns.  Whoever materialized a world  *)
(* that is still there is at work on it or has said that it failed.        *)
Running(x) == phase[x] \in {"materialize", "grant", "closing"}
BatchIsSound ==
  /\ slots = MaxConcurrency - Cardinality({x \in Execs : Running(x)})
  /\ \A x \in Execs :
       /\ Running(x) => Submitted(x) /\ status \in {"running", "cancelling"}
       /\ BatchOf[x] > batch => phase[x] = "queued"
       /\ Submitted(x) /\ status \in {"running", "returned"} => phase[x] \notin {"raised", "cancelled"}
       /\ Submitted(x) /\ status \in {"returned", "raised"} => Over(x)
RunIsSound(x) ==
  /\ outcome[x].cleanup # "NONE" => phase[x] = "ended"
  /\ outcome[x].cleanup = "ALIVE" => ep[x] \in torndown
  /\ phase[x] \in {"queued", "materialize"} => pc[x] = "idle" /\ x \notin live \cup torndown
  /\ phase[x] \in {"grant", "closing"} => ep[x] \in Execs
  /\ x \in live =>
       /\ ep[x] = x
       /\ \/ phase[x] \in {"grant", "closing", "raised", "cancelled"}
          \/ outcome[x].cleanup \in {"BLOCKED", "REFUSED"}
AutomationInvariant ==
  /\ TypeOK /\ CrownInvariant /\ BatchIsSound
  /\ live \cap torndown = {}
  /\ \A x \in Execs : RunIsSound(x)

(* What a key stands for, and the invariant behind KeysActOnce when it     *)
(* stands for one capability: the world its first run materialized, all    *)
(* receipts under it, and the cached answer of the one run that acted.     *)
(* With two capabilities under a key an effect may be left without either, *)
(* which is what the ledger's late comparison of keys allows.              *)
OneCapabilityPerKey == \A x, y \in Execs : KeyOf[x] = KeyOf[y] => CapOf[x] = CapOf[y]
KeyIsSound(x) ==
  /\ attempt[x] = 1
  /\ phase[x] \in {"queued", "materialize"} => ep[x] = None
  /\ ep[x] # None => matCache[KeyOf[x]] # None /\ matCache[KeyOf[x]].ep = ep[x]
  /\ pc[x] \in {"idle", "act"} => \A i \in DOMAIN ledger : ledger[i].id[1] # x
  /\ <<x, 1>> \in effects \cup pending /\ x \notin abandoned =>
       /\ ep[x] \in Episodes /\ cache[ep[x]][Key(x)] # None
       /\ cache[ep[x]][Key(x)].result.id = <<x, 1, "act">>
LedgerIsByKey ==
  \A i \in DOMAIN ledger : ledger[i].key # None =>
    \E x \in Execs : ledger[i].key = Key(x) /\ ledger[i].ep = ep[x] /\ ledger[i].cap = CapOf[x]
KeyInvariant == LedgerIsByKey /\ \A x \in Execs : KeyIsSound(x)
=============================================================================
