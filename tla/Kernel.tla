------------------------------- MODULE Kernel -------------------------------
(***************************************************************************)
(* The GymAct kernel (kernel.py) and its production subclass (runtime.py): *)
(* asynchronous operations on materialized worlds, serialised by one lock  *)
(* per episode and one lock for materialization, replayed from idempotency *)
(* caches and receipted in an append-only ledger.                          *)
(*                                                                         *)
(* Every call of the API is a process of its own, a member of Calls.  One  *)
(* action is the code between two awaits together with the outcome of the  *)
(* await it starts with, because asyncio runs other tasks only at awaits.  *)
(* uuid4 gives every materialization a fresh episode id and every receipt  *)
(* a fresh receipt id, so both are named after the call that made them.    *)
(***************************************************************************)
EXTENDS ReceiptLedger, FiniteSets

CONSTANTS
  Calls,          \* API calls ever made; also episode ids and receipt ids
  Keys,           \* idempotency keys chosen by the clients
  Intents,        \* materialization and actuation intents (their digests)
  CapOf,          \* the capability an actuation intent names
  GateOf,         \* the first input gate an intent trips, or "OPEN"
  Providers,      \* provider names
  ProviderOf,     \* the provider a materialization intent names
  Ops,            \* the operations clients use in this instance
  Checkpoints,    \* states clients ask verify for or restore to
  Faults,         \* the failures the environment shows in this instance
  ProviderRequiresAuthority,   \* provider.materialization_requires_authority
  EnvRequiresAuthority,        \* environment.requires_authority
  NoopTeardown    \* TRUE: the environment still answers after teardown

AllOps == {"MATERIALIZE", "ACT", "RAW", "VERIFY", "OBSERVE", "CHECKPOINT",
           "READ", "RESTORE", "TEARDOWN"}
AllFaults == {"observe", "authority", "provider", "late", "cancel", "capabilities"}
Gates == {"OPEN", "INPUT_LIMIT_EXCEEDED", "UNKNOWN_CAPABILITY",
          "READ_CAPABILITY_IS_NOT_ACTUATION", "CAPABILITY_NOT_IN_SCOPE"}

ASSUME KernelAssumption ==
  /\ None \notin Calls \cup Keys \cup Intents \cup Nat
  /\ None \notin [intent : Intents, id : Calls]
  /\ GateOf \in [Intents -> Gates]
  /\ ProviderOf \in [Intents -> Providers]
  /\ Ops \subseteq AllOps
  /\ Checkpoints \subseteq Nat
  /\ Faults \subseteq AllFaults

VARIABLES
  pc,           \* where each call is
  req,          \* the request of each call
  before,       \* the digest a call observed before it went on
  exc,          \* the exception an effect raised, "NONE" when it returned
  outcome,      \* "none", "raised" or "returned"
  answer,       \* the receipt a returned call hands back (its id)
  lock,         \* state.lock of each episode: the call holding it
  mlock,        \* _materialization_lock
  providers,    \* _providers
  episodes,     \* domain of _episodes
  actCache,     \* _actuation_idempotency
  matCache,     \* _materialization_idempotency
  torndown,     \* _teardown_receipts
  ledger,       \* the receipts in the ledger, in order
  env,          \* the provider's environment: "none", "open", "closed"
  world,        \* the state digest of each environment, a version counter
  effect        \* what a call did to its world: none, applied, pending, late

callVars == <<pc, outcome, answer, lock, mlock>>
localVars == <<req, before, exc>>
cacheVars == <<actCache, matCache, torndown>>
worldVars == <<env, world, effect>>
vars == <<callVars, localVars, cacheVars, worldVars, providers, episodes, ledger>>

-----------------------------------------------------------------------------
(* Types *)

Phases == {"idle", "waiting", "done",
           "m_authorize", "m_create", "m_admit", "m_abort",
           "conflict", "observe", "authorize", "effect", "after", "rescue",
           "close", "verify", "judge", "read"}
Standings == {"ALIVE", "BLOCKED", "REFUSED", "UNSUPPORTED", "UNCERTAIN"}
Request ==
  [op : {"MATERIALIZE"}, ep : {None}, key : Keys, intent : Intents, val : {None}] \cup
  [op : {"ACT", "RAW"}, ep : Calls, key : Keys, intent : Intents, val : {None}] \cup
  [op : {"READ"}, ep : Calls, key : {None}, intent : Intents, val : {None}] \cup
  [op : {"OBSERVE", "CHECKPOINT", "TEARDOWN"}, ep : Calls, key : {None},
   intent : {None}, val : {None}] \cup
  [op : {"VERIFY", "RESTORE"}, ep : Calls, key : {None}, intent : {None},
   val : Checkpoints \cup {None}]
Digest == Nat \cup {None}
CacheEntry == [intent : Intents, id : Calls]

NoRequest == [op |-> "NONE", ep |-> None, key |-> None, intent |-> None, val |-> None]

Init ==
  /\ pc = [c \in Calls |-> "idle"]
  /\ req = [c \in Calls |-> NoRequest]
  /\ before = [c \in Calls |-> None]
  /\ exc = [c \in Calls |-> "NONE"]
  /\ outcome = [c \in Calls |-> "none"]
  /\ answer = [c \in Calls |-> None]
  /\ lock = [c \in Calls |-> None]
  /\ mlock = None
  /\ providers = {}
  /\ episodes = {}
  /\ actCache = [e \in Calls |-> [k \in Keys |-> None]]
  /\ matCache = [k \in Keys |-> None]
  /\ torndown = [e \in Calls |-> None]
  /\ ledger = << >>
  /\ env = [e \in Calls |-> "none"]
  /\ world = [e \in Calls |-> 0]
  /\ effect = [c \in Calls |-> "none"]

-----------------------------------------------------------------------------
(* How a call goes on, ends and is recorded *)

Goto(c, p) == pc' = [pc EXCEPT ![c] = p] /\ UNCHANGED <<outcome, answer>>

(* Leaving `async with` releases whichever lock the call holds. *)
Release(c) ==
  /\ lock' = [e \in Calls |-> IF lock[e] = c THEN None ELSE lock[e]]
  /\ mlock' = IF mlock = c THEN None ELSE mlock

End(c, how, r) ==
  /\ pc' = [pc EXCEPT ![c] = "done"]
  /\ outcome' = [outcome EXCEPT ![c] = how]
  /\ answer' = [answer EXCEPT ![c] = r]
  /\ Release(c)

(* Mutant: an exception path that forgets to give the locks back. *)
Raise_KeepsLocks(c) ==
  /\ pc' = [pc EXCEPT ![c] = "done"]
  /\ outcome' = [outcome EXCEPT ![c] = "raised"]
  /\ UNCHANGED <<answer, lock, mlock>>

Raise(c) == End(c, "raised", None)
Return(c, r) == End(c, "returned", r)

(* Mutant: the ledger's exception is swallowed. *)
Record_Swallows(c, r) == ledger' = Appended(ledger, r) /\ Return(c, r.id)

(* _record: the ledger may raise, and then the call raises with it. *)
Record(c, r) ==
  /\ ledger' = Appended(ledger, r)
  /\ IF AppendRaises(ledger, r) THEN Raise(c) ELSE Return(c, r.id)

(* _actuation_result and _materialization_result: record, then cache. *)
ActuationResult(c, r, cache) ==
  /\ Record(c, r)
  /\ actCache' = IF cache /\ ~AppendRaises(ledger, r)
                 THEN [actCache EXCEPT ![req[c].ep][req[c].key] =
                         [intent |-> req[c].intent, id |-> c]]
                 ELSE actCache
  /\ UNCHANGED <<matCache, torndown>>

(* Mutant: only a live materialization is cached. *)
MaterializationResult_LiveOnly(c, r, cache) ==
  /\ Record(c, r)
  /\ matCache' = IF r.standing = "ALIVE" /\ ~AppendRaises(ledger, r)
                 THEN [matCache EXCEPT ![req[c].key] =
                         [intent |-> req[c].intent, id |-> c]]
                 ELSE matCache
  /\ UNCHANGED <<actCache, torndown>>

MaterializationResult(c, r, cache) ==
  /\ Record(c, r)
  /\ matCache' = IF cache /\ ~AppendRaises(ledger, r)
                 THEN [matCache EXCEPT ![req[c].key] =
                         [intent |-> req[c].intent, id |-> c]]
                 ELSE matCache
  /\ UNCHANGED <<actCache, torndown>>

Receipt(c, op, ep, cap, standing, reason, pre, post) ==
  [id |-> c, op |-> op, ep |-> ep, key |-> req[c].key, cap |-> cap,
   standing |-> standing, reason |-> reason, pre |-> pre, post |-> post]

ActReceipt(c, standing, reason, post) ==
  Receipt(c, "ACT", req[c].ep, CapOf[req[c].intent], standing, reason, before[c], post)
MatReceipt(c, ep, standing, reason, post) ==
  Receipt(c, "MATERIALIZE", ep, "materialize", standing, reason, None, post)
RestoreReceipt(c, standing, reason, post) ==
  Receipt(c, "RESTORE", req[c].ep, "restore", standing, reason, before[c], post)
TeardownReceipt(c, standing, reason, post) ==
  Receipt(c, "TEARDOWN", req[c].ep, "teardown", standing, reason, before[c], post)

-----------------------------------------------------------------------------
(* The environment and the authority resolver, as the kernel meets them *)

Reachable(e) == env[e] = "open" \/ (env[e] = "closed" /\ NoopTeardown)

(* _observe_unlocked: the digest read, or None for a timeout, a provider   *)
(* error or a state over the size limit (each is raised to the caller).    *)
Observations(e) ==
  (IF Reachable(e) THEN {world[e]} ELSE {}) \cup
  (IF Reachable(e) /\ "observe" \notin Faults THEN {} ELSE {None})

(* _authority_decision *)
Verdicts(required) ==
  {"ADMITTED"} \cup
  (IF required THEN {"AUTHORITY_DENIED"} ELSE {}) \cup
  (IF required /\ "authority" \in Faults THEN {"AUTHORITY_TIMEOUT", "RAISED"} ELSE {})

(* What environment.actuate or environment.restore can come back with, and *)
(* what it has done to the world by then.  A timed-out call may still land *)
(* (a worker thread or a remote service is not stopped by the timeout).    *)
EffectOutcomes(e) ==
  (IF Reachable(e) THEN {<<"NONE", "applied">>} ELSE {<<"PROVIDER_ERROR", "none">>}) \cup
  (IF "provider" \in Faults
   THEN {<<"PROVIDER_ERROR", "none">>, <<"TIMEOUT", "none">>} \cup
        (IF Reachable(e) THEN {<<"PROVIDER_ERROR", "applied">>, <<"TIMEOUT", "applied">>}
                         ELSE {})
   ELSE {}) \cup
  (IF "late" \in Faults /\ Reachable(e) THEN {<<"TIMEOUT", "pending">>} ELSE {})

(* The state after the effect of call c: actuation moves to a new version, *)
(* restore writes the checkpoint back.                                     *)
Applied(c) ==
  IF req[c].op = "ACT" THEN world[req[c].ep] + 1 ELSE req[c].val

-----------------------------------------------------------------------------
(* Requests *)

(* Clients learn episode ids from accepted materializations. *)
KnownEpisodes ==
  {ledger[i].ep : i \in {j \in DOMAIN ledger :
                           ledger[j].op = "MATERIALIZE" /\ ledger[j].standing = "ALIVE"}}

Arrive(c, r, p) ==
  /\ pc[c] = "idle" /\ r.op \in Ops
  /\ req' = [req EXCEPT ![c] = r]
  /\ Goto(c, p)
  /\ UNCHANGED <<lock, mlock, before, exc, cacheVars, worldVars, providers, episodes, ledger>>

(* Synchronous end of a call that never reaches a lock. *)
Bounce(c, r, how, rid) ==
  /\ pc[c] = "idle" /\ r.op \in Ops
  /\ req' = [req EXCEPT ![c] = r]
  /\ End(c, how, rid)
  /\ UNCHANGED <<before, exc, cacheVars, worldVars, providers, episodes, ledger>>

(* _state(episode_id) is read here, before the lock is awaited. *)
ArriveAtEpisode(c, r) ==
  IF r.ep \in episodes THEN Arrive(c, r, "waiting") ELSE Bounce(c, r, "raised", None)

CallMaterialize(c, k, i) ==
  Arrive(c, [NoRequest EXCEPT !.op = "MATERIALIZE", !.key = k, !.intent = i], "waiting")

CallAct(c, op, e, k, i) ==
  ArriveAtEpisode(c, [NoRequest EXCEPT !.op = op, !.ep = e, !.key = k, !.intent = i])

(* An expected state over the input limit (None) is raised at once. *)
CallVerify(c, e, v) ==
  LET r == [NoRequest EXCEPT !.op = "VERIFY", !.ep = e, !.val = v] IN
  IF v = None THEN Bounce(c, r, "raised", None) ELSE ArriveAtEpisode(c, r)

CallQuery(c, op, e) == ArriveAtEpisode(c, [NoRequest EXCEPT !.op = op, !.ep = e])

CallRestore(c, e, v) ==
  ArriveAtEpisode(c, [NoRequest EXCEPT !.op = "RESTORE", !.ep = e, !.val = v])

(* teardown answers from _teardown_receipts before it looks the state up. *)
CallTeardown(c, e) ==
  LET r == [NoRequest EXCEPT !.op = "TEARDOWN", !.ep = e] IN
  IF torndown[e] # None THEN Bounce(c, r, "returned", torndown[e]) ELSE ArriveAtEpisode(c, r)

(* read takes no lock: it refuses everything but READ capabilities and     *)
(* then awaits the environment.                                            *)
CallRead(c, e, i) ==
  LET r == [NoRequest EXCEPT !.op = "READ", !.ep = e, !.intent = i] IN
  IF e \in episodes /\ Reachable(e) /\ GateOf[i] = "READ_CAPABILITY_IS_NOT_ACTUATION"
  THEN Arrive(c, r, "read")
  ELSE Bounce(c, r, "raised", None)

Call(c) ==
  \/ \E k \in Keys, i \in Intents : CallMaterialize(c, k, i)
  \/ \E e \in KnownEpisodes :
       \/ \E op \in {"ACT", "RAW"}, k \in Keys, i \in Intents : CallAct(c, op, e, k, i)
       \/ \E v \in Checkpoints \cup {None} : CallVerify(c, e, v) \/ CallRestore(c, e, v)
       \/ \E op \in {"OBSERVE", "CHECKPOINT"} : CallQuery(c, op, e)
       \/ \E i \in Intents : CallRead(c, e, i)
       \/ CallTeardown(c, e)

RegisterProvider(p) ==
  /\ p \notin providers
  /\ providers' = providers \cup {p}
  /\ UNCHANGED <<callVars, localVars, cacheVars, worldVars, episodes, ledger>>

-----------------------------------------------------------------------------
(* materialize *)

MaterializeBegin(c) ==
  LET i == req[c].intent
      cached == matCache[req[c].key] IN
  /\ pc[c] = "waiting" /\ req[c].op = "MATERIALIZE" /\ mlock = None
  /\ UNCHANGED <<localVars, worldVars, providers, episodes>>
  /\ \/ /\ cached # None /\ cached.intent = i
        /\ Return(c, cached.id) /\ UNCHANGED <<cacheVars, ledger>>
     \/ /\ cached # None /\ cached.intent # i
        /\ MaterializationResult(c,
             MatReceipt(c, cached.id, "REFUSED", "IDEMPOTENCY_KEY_CONFLICT", None), FALSE)
     \/ /\ cached = None /\ GateOf[i] = "INPUT_LIMIT_EXCEEDED"
        /\ MaterializationResult(c,
             MatReceipt(c, c, "REFUSED", "INPUT_LIMIT_EXCEEDED", None), TRUE)
     \/ /\ cached = None /\ GateOf[i] # "INPUT_LIMIT_EXCEEDED" /\ ProviderOf[i] \notin providers
        /\ MaterializationResult(c,
             MatReceipt(c, c, "UNSUPPORTED", "UNKNOWN_PROVIDER", None), TRUE)
     \/ /\ cached = None /\ GateOf[i] # "INPUT_LIMIT_EXCEEDED" /\ ProviderOf[i] \in providers
        /\ Goto(c, "m_authorize") /\ mlock' = c
        /\ UNCHANGED <<lock, cacheVars, ledger>>

MaterializeAuthorize(c) ==
  /\ pc[c] = "m_authorize"
  /\ UNCHANGED <<localVars, worldVars, providers, episodes>>
  /\ \E v \in Verdicts(ProviderRequiresAuthority) :
       \/ /\ v = "ADMITTED"
          /\ Goto(c, "m_create") /\ UNCHANGED <<lock, mlock, cacheVars, ledger>>
       \/ v = "RAISED" /\ Raise(c) /\ UNCHANGED <<cacheVars, ledger>>
       \/ /\ v = "AUTHORITY_TIMEOUT"
          /\ MaterializationResult(c, MatReceipt(c, c, "BLOCKED", v, None), TRUE)
       \/ /\ v = "AUTHORITY_DENIED"
          /\ MaterializationResult(c, MatReceipt(c, c, "REFUSED", v, None), TRUE)

(* provider.materialize; one that times out or raises may leave a world    *)
(* nobody owns.                                                            *)
MaterializeCreate(c) ==
  /\ pc[c] = "m_create"
  /\ UNCHANGED <<localVars, world, effect, providers, episodes>>
  /\ \/ /\ env' = [env EXCEPT ![c] = "open"]
        /\ Goto(c, "m_admit") /\ UNCHANGED <<lock, mlock, cacheVars, ledger>>
     \/ /\ "provider" \in Faults
        /\ env' \in {env, [env EXCEPT ![c] = "open"]}
        /\ \E why \in {"MATERIALIZATION_TIMEOUT", "PROVIDER_ERROR"} :
             MaterializationResult(c, MatReceipt(c, c, "BLOCKED", why, None), TRUE)

(* Capability validation and the first observation of the new world. *)
MaterializeAdmit(c) ==
  /\ pc[c] = "m_admit"
  /\ UNCHANGED <<localVars, worldVars, providers>>
  /\ \/ \E d \in Observations(c) \ {None} :
          /\ episodes' = episodes \cup {c}
          /\ MaterializationResult(c, MatReceipt(c, c, "ALIVE", "NONE", d), TRUE)
     \/ /\ None \in Observations(c) \/ "capabilities" \in Faults
        /\ Goto(c, "m_abort") /\ UNCHANGED <<lock, mlock, cacheVars, ledger, episodes>>

(* The failed world is torn down; a failing teardown is suppressed. *)
MaterializeAbort(c) ==
  /\ pc[c] = "m_abort"
  /\ env' \in {[env EXCEPT ![c] = "closed"]} \cup (IF "provider" \in Faults THEN {env} ELSE {})
  /\ MaterializationResult(c,
       MatReceipt(c, c, "BLOCKED", "ENVIRONMENT_ADMISSION_FAILED", None), TRUE)
  /\ UNCHANGED <<localVars, world, effect, providers, episodes>>

MaterializeStep(c) ==
  \/ MaterializeBegin(c) \/ MaterializeAuthorize(c) \/ MaterializeCreate(c)
  \/ MaterializeAdmit(c) \/ MaterializeAbort(c)

-----------------------------------------------------------------------------
(* Taking the episode lock *)

(* Mutant: the body runs without waiting for the lock. *)
Acquire_NoWait(c, p) ==
  /\ lock' = [lock EXCEPT ![req[c].ep] = c]
  /\ Goto(c, p) /\ UNCHANGED mlock

Acquire(c, p) ==
  /\ lock[req[c].ep] = None
  /\ lock' = [lock EXCEPT ![req[c].ep] = c]
  /\ Goto(c, p) /\ UNCHANGED mlock

(* Mutant: the intent digest of the cached result is not compared. *)
ActBegin_AnyIntent(c) ==
  LET cached == actCache[req[c].ep][req[c].key] IN
  /\ pc[c] = "waiting" /\ req[c].op = "ACT" /\ lock[req[c].ep] = None
  /\ IF cached # None THEN Return(c, cached.id) ELSE Acquire(c, "observe")
  /\ UNCHANGED <<localVars, cacheVars, worldVars, providers, episodes, ledger>>

(* act: a cached result of the same intent is returned as it is, another   *)
(* intent under the key is a conflict, anything else goes on.              *)
ActBegin(c) ==
  LET cached == actCache[req[c].ep][req[c].key] IN
  /\ pc[c] = "waiting" /\ req[c].op = "ACT" /\ lock[req[c].ep] = None
  /\ IF cached # None /\ cached.intent = req[c].intent
     THEN Return(c, cached.id)
     ELSE Acquire(c, IF cached # None THEN "conflict" ELSE "observe")
  /\ UNCHANGED <<localVars, cacheVars, worldVars, providers, episodes, ledger>>

(* The operations that start with something to await under the lock. *)
LockBegin(c) ==
  /\ pc[c] = "waiting" /\ req[c].op \in {"RAW", "RESTORE", "TEARDOWN", "VERIFY"}
  /\ Acquire(c, IF req[c].op = "VERIFY" THEN "verify" ELSE "observe")
  /\ UNCHANGED <<localVars, cacheVars, worldVars, providers, episodes, ledger>>

(* observe and checkpoint hold the lock for one await and record nothing. *)
Query(c) ==
  /\ pc[c] = "waiting" /\ req[c].op \in {"OBSERVE", "CHECKPOINT"}
  /\ lock[req[c].ep] = None
  /\ \E d \in Observations(req[c].ep) :
       IF d = None THEN Raise(c) ELSE Return(c, None)
  /\ UNCHANGED <<localVars, cacheVars, worldVars, providers, episodes, ledger>>

Read(c) ==
  /\ pc[c] = "read"
  /\ \/ Reachable(req[c].ep) /\ Return(c, None)
     \/ (~Reachable(req[c].ep) \/ "provider" \in Faults) /\ Raise(c)
  /\ UNCHANGED <<localVars, cacheVars, worldVars, providers, episodes, ledger>>

-----------------------------------------------------------------------------
(* The first observation under the lock; its failure is raised without a   *)
(* receipt.  What follows it up to the next await is synchronous.          *)

ObserveFails(c) ==
  /\ pc[c] \in {"observe", "conflict"}
  /\ None \in Observations(req[c].ep)
  /\ Raise(c)
  /\ UNCHANGED <<localVars, cacheVars, worldVars, providers, episodes, ledger>>

(* The receipts of a refusal show the same digest before and after. *)
Unmoved(r) == [r EXCEPT !.pre = r.post]

(* Mutant: the conflict is cached like every other result. *)
ActConflict_Cached(c) ==
  /\ pc[c] = "conflict"
  /\ \E d \in Observations(req[c].ep) \ {None} :
       ActuationResult(c, Unmoved(ActReceipt(c, "REFUSED", "IDEMPOTENCY_KEY_CONFLICT", d)), TRUE)
  /\ UNCHANGED <<localVars, worldVars, providers, episodes>>

ActConflict(c) ==
  /\ pc[c] = "conflict"
  /\ \E d \in Observations(req[c].ep) \ {None} :
       ActuationResult(c, Unmoved(ActReceipt(c, "REFUSED", "IDEMPOTENCY_KEY_CONFLICT", d)), FALSE)
  /\ UNCHANGED <<localVars, worldVars, providers, episodes>>

(* Input limit, unknown capability, READ capability and principal scope. *)
ActObserve(c) ==
  LET gate == GateOf[req[c].intent] IN
  /\ pc[c] = "observe" /\ req[c].op = "ACT"
  /\ UNCHANGED <<req, exc, worldVars, providers, episodes>>
  /\ \E d \in Observations(req[c].ep) \ {None} :
       IF gate = "OPEN"
       THEN /\ before' = [before EXCEPT ![c] = d]
            /\ Goto(c, "authorize") /\ UNCHANGED <<lock, mlock, cacheVars, ledger>>
       ELSE /\ ActuationResult(c,
                 Unmoved(ActReceipt(c, IF gate = "UNKNOWN_CAPABILITY" THEN "UNSUPPORTED"
                                       ELSE "REFUSED", gate, d)), TRUE)
            /\ UNCHANGED before

(* ProductionGymAct.act: a receipted refusal under the caller's key. *)
RawActObserve(c) ==
  /\ pc[c] = "observe" /\ req[c].op = "RAW"
  /\ \E d \in Observations(req[c].ep) \ {None} :
       Record(c, Unmoved(ActReceipt(c, "REFUSED", "BRCE_EXECUTION_GRANT_REQUIRED", d)))
  /\ UNCHANGED <<localVars, cacheVars, worldVars, providers, episodes>>

(* Mutant: the checkpoint limit is not checked. *)
RestoreObserve_NoLimit(c) ==
  /\ pc[c] = "observe" /\ req[c].op = "RESTORE"
  /\ UNCHANGED <<lock, mlock, req, exc, cacheVars, worldVars, providers, episodes, ledger>>
  /\ \E d \in Observations(req[c].ep) \ {None} : before' = [before EXCEPT ![c] = d]
  /\ Goto(c, "authorize")

(* restore refuses a checkpoint over the size limit (None). *)
RestoreObserve(c) ==
  /\ pc[c] = "observe" /\ req[c].op = "RESTORE"
  /\ UNCHANGED <<req, exc, cacheVars, worldVars, providers, episodes>>
  /\ \E d \in Observations(req[c].ep) \ {None} :
       IF req[c].val # None
       THEN /\ before' = [before EXCEPT ![c] = d]
            /\ Goto(c, "authorize") /\ UNCHANGED <<lock, mlock, ledger>>
       ELSE /\ Record(c, Unmoved(RestoreReceipt(c, "REFUSED", "CHECKPOINT_LIMIT_EXCEEDED", d)))
            /\ UNCHANGED before

TeardownObserve(c) ==
  /\ pc[c] = "observe" /\ req[c].op = "TEARDOWN"
  /\ \E d \in Observations(req[c].ep) \ {None} : before' = [before EXCEPT ![c] = d]
  /\ Goto(c, "authorize")
  /\ UNCHANGED <<lock, mlock, req, exc, cacheVars, worldVars, providers, episodes, ledger>>

-----------------------------------------------------------------------------
(* Authority, effect, and the observation after it *)

Refusal(c, standing, reason) ==
  \/ /\ req[c].op = "ACT"
     /\ ActuationResult(c, ActReceipt(c, standing, reason, before[c]), TRUE)
  \/ /\ req[c].op = "RESTORE"
     /\ Record(c, RestoreReceipt(c, standing, reason, before[c])) /\ UNCHANGED cacheVars
  \/ /\ req[c].op = "TEARDOWN"
     /\ Record(c, TeardownReceipt(c, standing, reason, before[c])) /\ UNCHANGED cacheVars

Authorize(c) ==
  /\ pc[c] = "authorize"
  /\ UNCHANGED <<localVars, worldVars, providers, episodes>>
  /\ \E v \in Verdicts(EnvRequiresAuthority) :
       \/ /\ v = "ADMITTED"
          /\ Goto(c, IF req[c].op = "TEARDOWN" THEN "close" ELSE "effect")
          /\ UNCHANGED <<lock, mlock, cacheVars, ledger>>
       \/ v = "RAISED" /\ Raise(c) /\ UNCHANGED <<cacheVars, ledger>>
       \/ v = "AUTHORITY_TIMEOUT" /\ Refusal(c, "BLOCKED", v)
       \/ v = "AUTHORITY_DENIED" /\ Refusal(c, "REFUSED", v)

(* environment.actuate / environment.restore under its timeout. *)
Effect(c) ==
  LET e == req[c].ep IN
  /\ pc[c] = "effect"
  /\ \E o \in EffectOutcomes(e) :
       /\ exc' = [exc EXCEPT ![c] = o[1]]
       /\ effect' = [effect EXCEPT ![c] = o[2]]
       /\ world' = IF o[2] = "applied" THEN [world EXCEPT ![e] = Applied(c)] ELSE world
       /\ Goto(c, IF o[1] = "NONE" THEN "after" ELSE "rescue")
  /\ UNCHANGED <<lock, mlock, req, before, env, cacheVars, providers, episodes, ledger>>

(* Mutant: only a successful actuation is cached. *)
Settle_CachesSuccessOnly(c, standing, reason, post) ==
  IF req[c].op = "ACT"
  THEN ActuationResult(c, ActReceipt(c, standing, reason, post), standing = "ALIVE")
  ELSE Record(c, RestoreReceipt(c, standing, reason, post)) /\ UNCHANGED cacheVars

Settle(c, standing, reason, post) ==
  IF req[c].op = "ACT"
  THEN ActuationResult(c, ActReceipt(c, standing, reason, post), TRUE)
  ELSE Record(c, RestoreReceipt(c, standing, reason, post)) /\ UNCHANGED cacheVars

(* The observation that completes a normal return; a failing one (or an    *)
(* effect report over the size limit) enters the except branch.            *)
After(c) ==
  /\ pc[c] = "after"
  /\ UNCHANGED <<req, before, worldVars, providers, episodes>>
  /\ \E d \in Observations(req[c].ep) :
       IF d = None
       THEN /\ exc' = [exc EXCEPT ![c] = "OBSERVATION"]
            /\ Goto(c, "rescue") /\ UNCHANGED <<lock, mlock, cacheVars, ledger>>
       ELSE Settle(c, "ALIVE", "NONE", d) /\ UNCHANGED exc

(* Mutant: an actuation that timed out is reported as refused. *)
Rescue_TimeoutIsRefusal(c) ==
  /\ pc[c] = "rescue"
  /\ \E d \in Observations(req[c].ep) :
       Settle(c, IF exc[c] = "TIMEOUT" THEN "REFUSED" ELSE "BLOCKED", exc[c],
              IF d = None THEN before[c] ELSE d)
  /\ UNCHANGED <<localVars, worldVars, providers, episodes>>

(* The except branch: observe once more, or fall back on `before`. *)
Rescue(c) ==
  /\ pc[c] = "rescue"
  /\ \E d \in Observations(req[c].ep) :
       Settle(c, "BLOCKED", exc[c], IF d = None THEN before[c] ELSE d)
  /\ UNCHANGED <<localVars, worldVars, providers, episodes>>

(* environment.teardown, the receipt, and only then the removal of the     *)
(* episode; `del` of an episode that is gone raises after the receipt.     *)
CloseSucceeds(c) ==
  LET e == req[c].ep IN
  /\ env' = [env EXCEPT ![e] = "closed"]
  /\ ledger' = Appended(ledger, TeardownReceipt(c, "ALIVE", "NONE", None))
  /\ torndown' = [torndown EXCEPT ![e] = c]
  /\ episodes' = episodes \ {e}
  /\ IF e \in episodes THEN Return(c, c) ELSE Raise(c)

(* Mutant: the episode is dropped although its teardown failed. *)
CloseFails_Forgets(c) ==
  /\ "provider" \in Faults
  /\ env' \in {env, [env EXCEPT ![req[c].ep] = "closed"]}
  /\ Record(c, TeardownReceipt(c, "BLOCKED", "PROVIDER_ERROR", None))
  /\ episodes' = episodes \ {req[c].ep}
  /\ UNCHANGED torndown

(* A failed or timed-out teardown keeps the episode for another attempt. *)
CloseFails(c) ==
  /\ "provider" \in Faults
  /\ env' \in {env, [env EXCEPT ![req[c].ep] = "closed"]}
  /\ Record(c, TeardownReceipt(c, "BLOCKED", "PROVIDER_ERROR", None))
  /\ UNCHANGED <<torndown, episodes>>

Close(c) ==
  /\ pc[c] = "close"
  /\ UNCHANGED <<localVars, world, effect, providers, actCache, matCache>>
  /\ CloseSucceeds(c) \/ CloseFails(c)

-----------------------------------------------------------------------------
(* verify: the provider's own report, then the kernel's own observation    *)
(* and judgment; neither failure leaves a receipt.                         *)

VerifyReport(c) ==
  /\ pc[c] = "verify"
  /\ UNCHANGED <<req, exc, cacheVars, worldVars, providers, episodes, ledger>>
  /\ \E d \in Observations(req[c].ep) :
       IF d = None THEN Raise(c) /\ UNCHANGED before
       ELSE /\ before' = [before EXCEPT ![c] = d]
            /\ Goto(c, "judge") /\ UNCHANGED <<lock, mlock>>

(* The receipt carries the digest of the provider's report. *)
Judge(c) ==
  /\ pc[c] = "judge"
  /\ UNCHANGED <<localVars, cacheVars, worldVars, providers, episodes>>
  /\ \E d \in Observations(req[c].ep) :
       IF d = None THEN Raise(c) /\ UNCHANGED ledger
       ELSE Record(c, Receipt(c, "VERIFY", req[c].ep, None,
                              IF d = req[c].val THEN "ALIVE" ELSE "UNCERTAIN",
                              "NONE", None, before[c]))

-----------------------------------------------------------------------------
(* A timed-out effect that lands after all. *)
LateEffect(c) ==
  /\ effect[c] = "pending" /\ Reachable(req[c].ep)
  /\ effect' = [effect EXCEPT ![c] = "late"]
  /\ world' = [world EXCEPT ![req[c].ep] = Applied(c)]
  /\ UNCHANGED <<callVars, localVars, cacheVars, env, providers, episodes, ledger>>

(* The task of a call is cancelled at an await: CancelledError passes      *)
(* every `except Exception`, so only the locks are given back.             *)
Cancel(c) ==
  /\ "cancel" \in Faults /\ pc[c] \notin {"idle", "done"}
  /\ Raise(c)
  /\ effect' \in {effect} \cup
       (IF pc[c] = "effect" /\ "late" \in Faults /\ Reachable(req[c].ep)
        THEN {[effect EXCEPT ![c] = "pending"]} ELSE {})
  /\ UNCHANGED <<localVars, cacheVars, env, world, providers, episodes, ledger>>

Step(c) ==
  \/ MaterializeStep(c)
  \/ ActBegin(c) \/ LockBegin(c) \/ Query(c) \/ Read(c)
  \/ ObserveFails(c) \/ ActConflict(c) \/ ActObserve(c) \/ RawActObserve(c)
  \/ RestoreObserve(c) \/ TeardownObserve(c)
  \/ Authorize(c) \/ Effect(c) \/ After(c) \/ Rescue(c) \/ Close(c)
  \/ VerifyReport(c) \/ Judge(c)

(* Every call of the instance has ended. *)
Quiescent == (\A c \in Calls : pc[c] = "done") /\ UNCHANGED vars

Next ==
  \/ \E p \in Providers : RegisterProvider(p)
  \/ \E c \in Calls : Call(c) \/ Step(c) \/ LateEffect(c) \/ Cancel(c)
  \/ Quiescent

(* Every await of the kernel is under anyio.fail_after and the locks are   *)
(* handed on, so a call that can take a step takes one.                    *)
Spec == Init /\ [][Next]_vars
FairSpec == Spec /\ \A c \in Calls : WF_vars(Step(c))
-----------------------------------------------------------------------------
(* Properties *)

Reasons == {"NONE", "PROVIDER_ERROR", "TIMEOUT", "OBSERVATION"}
CapabilityRefs == {CapOf[i] : i \in Intents} \cup {"materialize", "restore", "teardown", None}
ReceiptReasons ==
  Reasons \cup Gates \cup
  {"IDEMPOTENCY_KEY_CONFLICT", "UNKNOWN_PROVIDER", "AUTHORITY_TIMEOUT", "AUTHORITY_DENIED",
   "MATERIALIZATION_TIMEOUT", "ENVIRONMENT_ADMISSION_FAILED",
   "BRCE_EXECUTION_GRANT_REQUIRED", "CHECKPOINT_LIMIT_EXCEEDED"}
LedgerReceipt ==
  [id : Calls, op : AllOps, ep : Calls, key : Keys \cup {None}, cap : CapabilityRefs,
   standing : Standings, reason : ReceiptReasons, pre : Digest, post : Digest]

(* The state of the kernel, of its calls and of the worlds is well typed:  *)
(* the fields GymAct.__init__ declares keep the shapes it declares.        *)
TypeOK ==
  /\ pc \in [Calls -> Phases]
  /\ req \in [Calls -> Request \cup {NoRequest}]
  /\ before \in [Calls -> Digest]
  /\ exc \in [Calls -> Reasons]
  /\ outcome \in [Calls -> {"none", "raised", "returned"}]
  /\ answer \in [Calls -> Calls \cup {None}]
  /\ lock \in [Calls -> Calls \cup {None}]
  /\ mlock \in Calls \cup {None}
  /\ providers \subseteq Providers
  /\ episodes \subseteq Calls
  /\ actCache \in [Calls -> [Keys -> CacheEntry \cup {None}]]
  /\ matCache \in [Keys -> CacheEntry \cup {None}]
  /\ torndown \in [Calls -> Calls \cup {None}]
  /\ ledger \in Seq(LedgerReceipt)
  /\ env \in [Calls -> {"none", "open", "closed"}]
  /\ world \in [Calls -> Nat]
  /\ effect \in [Calls -> {"none", "applied", "pending", "late"}]

Receipted(c) == HoldsId(ledger, c)
Touched(c) == effect[c] # "none"
SameActKey(c, d) ==
  req[c].op = "ACT" /\ req[d].op = "ACT" /\ req[c].ep = req[d].ep /\ req[c].key = req[d].key

(* Replay never repeats a consequence: of all act() calls under one key of *)
(* one episode, at most one both reached the environment and has a         *)
(* receipt.  Every other one was answered from the cache or refused.       *)
OneReceiptedEffectPerKey ==
  \A c, d \in Calls :
     c # d /\ SameActKey(c, d) /\ Touched(c) /\ Touched(d)
       => ~(Receipted(c) /\ Receipted(d))

(* A materialize() that made an environment and returned, even as BLOCKED  *)
(* after a timeout, is the only one of its key that ever made one, as long *)
(* as no call is cancelled: a cancelled one leaves a world and no entry.   *)
OneWorldPerKey ==
  \A c, d \in Calls :
     /\ c # d /\ req[c].op = "MATERIALIZE" /\ req[d].op = "MATERIALIZE"
     /\ req[c].key = req[d].key
     /\ outcome[c] = "returned" /\ env[c] # "none"
     => env[d] = "none"

(* A REFUSED or UNSUPPORTED receipt is the truth about the world: the call *)
(* it names never reached the environment, not even late.                  *)
RefusalsAreEffectFree ==
  \A i \in DOMAIN ledger :
     ledger[i].standing \in {"REFUSED", "UNSUPPORTED"} => effect[ledger[i].id] = "none"

(* The digests of an ALIVE act() receipt bracket exactly the effect of its *)
(* own call: nothing else moves the world between the two observations of  *)
(* the call, as long as no timed-out effect of an earlier call lands.      *)
AliveActBracketsItsEffect ==
  \A i \in DOMAIN ledger :
     ledger[i].op = "ACT" /\ ledger[i].standing = "ALIVE" /\ "late" \notin Faults
       => /\ effect[ledger[i].id] = "applied"
          /\ ledger[i].post = ledger[i].pre + 1

(* A passed verification is about one state: the digest its receipt        *)
(* carries (read by the provider) is the state the kernel judged (read by  *)
(* observe() one await later).                                             *)
VerifiedDigestIsJudged ==
  \A i \in DOMAIN ledger :
     ledger[i].op = "VERIFY" /\ ledger[i].standing = "ALIVE" /\ "late" \notin Faults
       => ledger[i].post = req[ledger[i].id].val

(* Both: a receipt that says ALIVE is about the states its call met, and   *)
(* about no other call's.                                                  *)
AliveReceiptsAreAboutTheirStates == AliveActBracketsItsEffect /\ VerifiedDigestIsJudged

(* Whatever a call is answered with is a receipt in the ledger, written by *)
(* a call with the same intent under the same key (or by the teardown that *)
(* answered first); and all receipts under one idempotency key are about   *)
(* one episode and one capability, across every operation that writes to   *)
(* the shared ledger.                                                      *)
AnswersAreReceiptsOfTheSameIntent ==
  /\ \A c \in Calls : answer[c] # None => HoldsId(ledger, answer[c]) /\ req[answer[c]] = req[c]
  /\ KeyOwnersAgree(ledger) /\ UniqueIds(ledger)

(* An effect whose call returned is receipted, by that call. *)
ReturnedEffectIsReceipted ==
  \A c \in Calls : Touched(c) /\ outcome[c] = "returned" => answer[c] = c /\ Receipted(c)

(* An episode leaves _episodes only through a receipted teardown that      *)
(* closed its environment, and a torn-down one is never live again.        *)
EpisodesLeaveByTeardown ==
  \A i \in DOMAIN ledger :
     ledger[i].op = "MATERIALIZE" /\ ledger[i].standing = "ALIVE" =>
       LET e == ledger[i].ep IN
       e \notin episodes <=> (torndown[e] # None /\ env[e] = "closed" /\ Receipted(torndown[e]))

(* Evidence is final: no step removes or rewrites a receipt, and the first *)
(* result cached under a key is the only one it ever answers with, which   *)
(* neither a conflict nor a concurrent call replaces.                      *)
EvidenceIsFinal ==
  [][/\ Len(ledger') >= Len(ledger)
     /\ \A i \in DOMAIN ledger : ledger'[i] = ledger[i]
     /\ \A e \in Calls, k \in Keys : actCache[e][k] # None => actCache'[e][k] = actCache[e][k]
     /\ \A k \in Keys : matCache[k] # None => matCache'[k] = matCache[k]]_vars

(* Every call ends: the locks are always handed on, on every error path. *)
EveryCallEnds == \A c \in Calls : pc[c] = "waiting" ~> pc[c] = "done"

-----------------------------------------------------------------------------
(* The inductive invariant behind OneReceiptedEffectPerKey *)

(* Which operation can be where, and what its request looks like there. *)
PhaseMatchesRequest(c) ==
  /\ pc[c] # "idle" => req[c] \in Request
  /\ pc[c] = "waiting" => req[c].op # "READ"
  /\ pc[c] \in {"m_authorize", "m_create", "m_admit", "m_abort"} => req[c].op = "MATERIALIZE"
  /\ pc[c] = "conflict" => req[c].op = "ACT"
  /\ pc[c] = "observe" => req[c].op \in {"ACT", "RAW", "RESTORE", "TEARDOWN"}
  /\ pc[c] = "authorize" => req[c].op \in {"ACT", "RESTORE", "TEARDOWN"}
  /\ pc[c] \in {"effect", "after", "rescue"} => req[c].op \in {"ACT", "RESTORE"}
  /\ pc[c] \in {"authorize", "effect", "after", "rescue"} /\ req[c].op = "RESTORE"
       => req[c].val # None
  /\ pc[c] = "close" => req[c].op = "TEARDOWN"
  /\ pc[c] \in {"verify", "judge"} => req[c].op = "VERIFY"
  /\ pc[c] = "read" => req[c].op = "READ"
  /\ Touched(c) => /\ pc[c] \in {"after", "rescue", "done"}
                   /\ req[c].op = "ACT" \/ (req[c].op = "RESTORE" /\ req[c].val # None)

(* A call inside an episode holds the lock of that episode. *)
InsideTheLock == {"conflict", "observe", "authorize", "effect", "after", "rescue",
                  "close", "verify", "judge"}
HoldsItsLock(c) == pc[c] \in InsideTheLock => lock[req[c].ep] = c

(* A call on its way to an effect found nothing cached, and still would. *)
NothingCached(c) ==
  pc[c] \in {"observe", "authorize", "effect", "after", "rescue"} /\ req[c].op = "ACT"
    => actCache[req[c].ep][req[c].key] = None

(* A call is receipted when it ends, and a receipted effect is the cached  *)
(* result of its key.                                                      *)
ReceiptEndsCall(c) == Receipted(c) => pc[c] = "done"
ReceiptedEffectIsCached(c) ==
  req[c].op = "ACT" /\ Touched(c) /\ Receipted(c)
    => /\ actCache[req[c].ep][req[c].key] # None
       /\ actCache[req[c].ep][req[c].key].id = c

(* Together with TypeOK this is inductive: the lock of the episode keeps   *)
(* the cache miss of act() true until the call itself fills the entry.     *)
ActInvariant ==
  \A c \in Calls :
     /\ PhaseMatchesRequest(c)
     /\ HoldsItsLock(c)
     /\ NothingCached(c)
     /\ ReceiptEndsCall(c)
     /\ ReceiptedEffectIsCached(c)

-----------------------------------------------------------------------------
(* The inductive invariant behind the other properties of the evidence *)

(* A call has an outcome and an answer only once it has ended; the answer  *)
(* is a receipt for the same request, and an effect that returned is       *)
(* answered with its own.                                                  *)
AnswersAtTheEnd(c) ==
  /\ outcome[c] # "none" \/ answer[c] # None => pc[c] = "done"
  /\ answer[c] # None => Receipted(answer[c]) /\ req[answer[c]] = req[c]
  /\ Touched(c) /\ outcome[c] = "returned" => answer[c] = c /\ Receipted(c)

(* Clients address episodes they were told of. *)
AddressesKnownEpisode(c) ==
  pc[c] # "idle" /\ req[c].op # "MATERIALIZE" => req[c].ep \in KnownEpisodes

(* A materialization on its way holds its lock and found nothing cached;   *)
(* the world named after a call is made inside m_create of that call.      *)
InsideMaterialize == {"m_authorize", "m_create", "m_admit", "m_abort"}
MaterializesAlone(c) ==
  /\ pc[c] \in InsideMaterialize => mlock = c /\ matCache[req[c].key] = None
  /\ env[c] # "none" => /\ req[c].op = "MATERIALIZE"
                        /\ pc[c] \in {"m_admit", "m_abort", "done"}

(* The world of an ended materialization is the cached one of its key, or  *)
(* the key belongs to another intent in the ledger, so that no             *)
(* materialization under it will ever be receipted.                        *)
WorldIsCachedOrBarred(c) ==
  "cancel" \notin Faults /\ env[c] # "none" /\ pc[c] = "done" =>
     \/ matCache[req[c].key] # None /\ matCache[req[c].key].id = c
     \/ /\ matCache[req[c].key] = None /\ outcome[c] # "returned"
        /\ \E i \in DOMAIN ledger : IsKeyOwner(ledger, i, req[c].key)

(* Until its own effect the world of a call inside the lock is the one it  *)
(* observed, and right after it is the next one.                           *)
WorldIsBracketed(c) ==
  "late" \notin Faults =>
     /\ effect[c] \in {"none", "applied"}
     /\ pc[c] \in {"authorize", "effect", "judge"} => before[c] = world[req[c].ep]
     /\ pc[c] = "after" /\ req[c].op = "ACT" =>
          effect[c] = "applied" /\ world[req[c].ep] = before[c] + 1

(* What the caches and _teardown_receipts answer with is receipted, and    *)
(* was asked for with the same episode, key and intent.                    *)
Asks(r, op, e, k, i) == r.op = op /\ r.ep = e /\ r.key = k /\ r.intent = i
CachesAnswerReceipts ==
  /\ \A e \in Calls, k \in Keys : actCache[e][k] # None =>
       /\ Receipted(actCache[e][k].id)
       /\ Asks(req[actCache[e][k].id], "ACT", e, k, actCache[e][k].intent)
  /\ \A k \in Keys : matCache[k] # None =>
       /\ Receipted(matCache[k].id)
       /\ Asks(req[matCache[k].id], "MATERIALIZE", None, k, matCache[k].intent)
  /\ \A e \in Calls : torndown[e] # None =>
       /\ Receipted(torndown[e]) /\ e \in KnownEpisodes /\ env[e] = "closed"
       /\ Asks(req[torndown[e]], "TEARDOWN", e, None, None)
  /\ \A e \in KnownEpisodes : env[e] # "none" /\ (e \in episodes <=> torndown[e] = None)

(* The ledger tells the truth: every receipt carries the key of its call   *)
(* and is about an episode whose materialization has ended, every key has  *)
(* an owner, and refusals and ALIVE receipts are about their own calls.    *)
LedgerIsTrue ==
  /\ \A i \in DOMAIN ledger :
       /\ ledger[i].key = req[ledger[i].id].key /\ pc[ledger[i].ep] = "done"
       /\ ledger[i].key # None => \E j \in DOMAIN ledger : IsKeyOwner(ledger, j, ledger[i].key)
  /\ UniqueIds(ledger) /\ KeyOwnersAgree(ledger)
  /\ RefusalsAreEffectFree
  /\ AliveReceiptsAreAboutTheirStates

(* Answers, caches, ledger and worlds agree after every step: inductive    *)
(* together with TypeOK and ActInvariant, because the lock of an episode   *)
(* keeps other calls out of its world and caches between observing and     *)
(* receipting, and the materialization lock does so for a key.             *)
EvidenceInvariant ==
  /\ \A c \in Calls :
       /\ AnswersAtTheEnd(c)
       /\ AddressesKnownEpisode(c)
       /\ MaterializesAlone(c)
       /\ WorldIsCachedOrBarred(c)
       /\ WorldIsBracketed(c)
  /\ CachesAnswerReceipts
  /\ LedgerIsTrue

(* What the locks of the kernel keep true between any two steps of any     *)
(* calls: an act finds its key uncached until it fills the entry itself,   *)
(* and answers, caches, ledger and worlds tell the same story.             *)
KernelInvariant == ActInvariant /\ EvidenceInvariant

-----------------------------------------------------------------------------
(* Two claims of the documentation that the code does not keep *)

(* README.md: "The design invariant is zero unreceipted actuation". *)
ZeroUnreceiptedActuation ==
  \A c \in Calls : Touched(c) /\ pc[c] = "done" => Receipted(c)

(* teardown: "Idempotently tear down an environment": one ALIVE teardown   *)
(* receipt per episode.                                                    *)
TeardownIsIdempotent ==
  \A i, j \in DOMAIN ledger :
     /\ ledger[i].op = "TEARDOWN" /\ ledger[j].op = "TEARDOWN"
     /\ ledger[i].ep = ledger[j].ep
     /\ ledger[i].standing = "ALIVE" /\ ledger[j].standing = "ALIVE"
     => i = j
=============================================================================
