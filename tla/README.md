# GymAct: TLA+ models and proofs

GymAct runs *consequences* (actions that change a world) on behalf of agents and keeps
evidence of each one. The interesting promises are about things that happen together: two
calls with one idempotency key, a timeout with an effect that lands anyway, a crash between an
effect and its receipt, two processes on one file, a restore that fails half-way. This directory
models the parts of the repository that make those promises, model-checks them with TLC and
proves the central ones with TLAPS. Paths below are relative to the Python package
`src/gymact/` of the repository.

## 1. The system

### Components, their state and their operations

| Component | State | Operations | Hard behaviour | What makes it correct |
|---|---|---|---|---|
| Kernel (`kernel.py`, production subclass `runtime.py`) | providers, episodes with one lock each, a materialization lock, two idempotency caches, teardown receipts | `register_provider`, `materialize`, `act`, raw `act`, `verify`, `observe`, `checkpoint`, `read`, `restore`, `teardown` | concurrent tasks, timeouts with late effects, cancellation, failing observations, teardown races | a replay never repeats a receipted effect; refusals are effect-free; receipts say what happened; every call ends |
| Receipt ledger (`evidence.py`) | the receipts in order, an index by id and one by key | `append`, `find`, `verify` | raises after the caller has already acted | append-only; one intent per key; one record per id |
| SQLite ledger (`sqlite_ledger.py`) | the rows of one file, hash-chained; SQLite's write lock | open (verifies the chain), `append`, `close` | several processes, crashes around the commit, damaged rows | the chain verifies after any crash; a returned record is durable; damage stays visible |
| Policy store (`policy_ecology_store.py`) | populations and transitions in one file | open, `put`, `get`, `condition`, `close` | reads outside transactions, calls that raise with one open, busy locks | stored transitions replay; clean returns are durable |
| Execution loop (`execution_loop.py`) | settled keys (`_completed`, `_unreconciled`), the ledger of the run, attempts, faults, switches, moves | `run` and its gates, claim, execute, reconcile from journal, verify, receipt | redelivery, crashes with and without journal, lost replies, moving subjects, expiring grants, budgets that reset each other | a key is settled once; known effects stay in one delivery; receipts list them all; a run is bounded |
| Crown runtime, broker (`crown_runtime.py`, `brce.py`, `action_contract.py`) | none of their own; they compose kernel calls | grant admission, `execute_verified`, reconciliation of uncertain acts, `admit_retry` | act and verify under two holds of the lock | ALIVE stands on evidence; a retry never doubles an effect |
| Controllers (`autonomic.py`, `automation.py`) | phase records, a semaphore | MAPE-K run, bounded batches | runs that share keys and episodes, cleanup on every path | an outcome per request; a leaked world is told |
| Closure and cut (`combinatorial.py`, `maximal.py`, `cut.py`, `dcm_runtime.py`) | stack, paths, frontier | explore under bounds, select, bind, execute | bounds hit exactly, a graph that grows | a closure truncated in depth or number never licenses a cut |
| POWL processes (`powl/`) | marking; rounds; the stack of a guarded walk and its checkpoints | enable, fire, replay, run rounds in threads, crash and resume | choice inside order inside loops, visit bounds, resumption | only the tree's language is walked; resumption leaves nothing out of an order and follows one path of a choice |
| Gyms (`gyms/sregym.py`, `terraform_docker_apply.py`, `kubernetes_reconciliation.py`, `gcp_simulator.py`, `codebase.py`, `dependency_world.py`, `shared_dependency_world.py`, `swegym.py`) and local providers (`local_providers.py`) | subprocesses, containers, pods, repositories, tables, logical clocks | the `Environment` interface | processes that crash or hang, killed tools, restores that fail, shared worlds | verdicts were observed; teardowns let go; restores reach their checkpoint; acts count once |
| Agents (`epistemic_process_kernel.py`, `dspy_sregym_agent.py`, `epistemic_kernel.py`, `dspy_agent.py`) | hypotheses, facts, evidence links, what was shown | rounds, resolvers, tool calls | a language model that proposes anything; concurrent resolvers | claims are grounded; consequences follow admission; runs end |
| Environment harness (`envharness.py`) | session, history, legs of a chain | `reset`, `step`, `observe`, `teardown`, `advance` | stage, postcondition or rollback failing half-way, acts that land late | reports are true; a failed step leaves no trace; a complete chain was verified |

`PROJECT.json` lists these and every remaining part of the repository with its status.

### How they interact

A client calls the kernel; the kernel calls the authority resolver, then the provider's
environment (a gym or a local provider), then appends a receipt to the ledger it was given (in
memory or SQLite) and fills its cache. All of it happens in asyncio tasks: another task can run
only at an `await`, each external await is under a timeout (`_bounded`), and one lock per episode
is held from the cache lookup to the insertion. The broker and Crown runtime call `act` and
`verify` of the kernel, one after the other; autonomic runs call the broker, and batches start
autonomic runs. The harness and the agents are clients of the kernel. The execution loop is a
separate, synchronous kernel for work orders: it is called once per delivery, talks to execution
providers and a verifier, and remembers by idempotency key how a work order was settled. POWL
runs and closures decide what is to be done next and call bindings or the broker.

## 2. The modules

```
ReceiptLedger --+-- Kernel -------- MCKernel          KernelProofs
                +-- SqliteLedger -- Stores -- MCSqliteLedger   SqliteLedgerProofs
                |   PolicyStore ---/
                +-- Crown -- Automation               AutomationProofs -----+
WorkOrders <------- ExecutionLoop - MCExecutionLoop   ExecutionLoopProofs --+-- MCControllers
 (abstract) INSTANCE                                                        |
EpistemicLoop, DiagnosisAgent, ReactAgent, EnvHarness   AgentProofs -- MCAgents -- MCProofs
Powl -- PowlExecutor, PowlRunner, PowlGuard --- MCPowlTrees, MCProcesses
        Possibility ---------------------------/
Sregym, TerraformApply, PodReconciliation, GcpSimulator,
Codebase, DependencyWorld, SweGym, LocalProviders   GymProofs -- MCGyms -- MCGymsProofs
```

A proof module about one component extends it; AgentProofs and GymProofs are about several and
instantiate each with constants and variables that are only declared, so that their theorems hold
for every instance. MCControllers, MCAgents and MCGyms in turn instantiate the proof modules, once
per situation: the situations TLC explores are instances of what is proved, and MCProofs and
MCGymsProofs put the theorems together.

The components under MCControllers, MCProcesses, MCGyms, MCAgents and MCSqliteLedger do not
share state, so checking them side by side would only multiply their states. Each of these
modules is a *sum*: one variable (`driver`, `walk`, `gym`, `agent`, `store`) is chosen at the start
and says which component is used and in which situation (an instance with its own constants);
the others stay as they began. A property of a sum states one idea of all of them, names the
properties of the component modules that make it up, and includes their types.

### ReceiptLedger

`append` as a function of the list of receipts: when it raises (`IdConflict`, `KeyReuse`) and
what the list is afterwards (`Appended`, which is the same list for a receipt it already holds).
Used by the kernel and the Crown runtime, and as the abstract append rule the SQLite ledger is
shown to follow.

### Kernel

Every API call is a process, a member of `Calls`. An action is the code between two awaits
together with the outcome of the await it begins with; `pc` names the await a call is at. Since
uuid4 makes episode and receipt ids fresh, both are named after the call that created them.

| State | Code |
|---|---|
| `episodes`, `providers`, `torndown` | `_episodes`, `_providers`, `_teardown_receipts` |
| `actCache`, `matCache` | `_actuation_idempotency`, `_materialization_idempotency` (intent digest and result) |
| `lock`, `mlock` | `state.lock`, `_materialization_lock` |
| `ledger` | `self.ledger` |
| `req`, `before`, `exc`, `pc`, `outcome`, `answer` | arguments, locals, position and result of a call |
| `env`, `world`, `effect` | the provider's side (external): life of the world, a version counter as state digest, what a call did to it |

`CallX` actions are the synchronous beginnings (the episode is looked up *before* the lock is
awaited). `MaterializeBegin/Authorize/Create/Admit/Abort` are `materialize`; a provider that times
out or raises may have made a world all the same. `ActBegin` to
`After`/`Rescue` are `act`, where `Rescue` is the `except` branch with its own observation; `restore`
and `teardown` share the observation, authority and effect steps as their code does. `LateEffect`
is a timed-out effect landing afterwards, `Cancel` is a task cancelled at its await.
Data is abstract: an intent is a model value with a capability and the first input gate it trips.

### ExecutionLoop and WorkOrders

`phase` is the call the loop makes next to a collaborator; `run` holds the locals of `_run`.
Between two phases the subject may move (`MoveSubject`), the clock tick (`Tick`) and providers
come and go (`Outage`). `Deliver` is the prefix of `_run` up to `execution.start`, with its gates
in order; `Claim`, `ClaimFault`, `Execute`, `CrashAfter`, `CrashBefore`, `ExecuteFault` are the
loop's try statement; `Observe`, `Verify`, `Recheck` the way to the receipt; `Journal`,
`JournalVerify` the reconciliation of a crash. `Escape` is an exception no clause names.
`effects` is a history variable: every effect on the world by key, with `known` telling whether
the loop was told of it. `WorkOrders` is the abstract promise: each key is open or settled, and
settled for good with one request.

### SqliteLedger, PolicyStore and Stores

SqliteLedger: processes with a connection each. `Begin` takes SQLite's write lock before anything
is read, `Busy` is the busy timeout, `Replay` and `Chain` the two branches of `append`, `Commit`
succeeds or rolls back, `Crash` kills a process anywhere, `Rot` damages a row. Digests are
collision free: the digest of a record is the list of everything chained up to it, so linking is
modelled by what it does. Threads of one process take turns on an `RLock` for a whole append and
are one appender.

PolicyStore follows the statements of `put`, `get` and `condition` with Python's implicit
transactions and SQLite's SHARED, RESERVED and PENDING locks. It reads outside a transaction and
never rolls back, so a call that raises leaves its transaction, its locks and a row that only its
own connection sees.

Stores puts the two side by side, with the property of the second that its proof and its run
share (`PopulationsAreKept`).

### Crown and Automation

An execution of Crown admits a grant (expiry, action, capability, subject, scope, effects and
three revisions, in the code's order), acts through the kernel's cache, verifies under a second
hold of the lock, receipts the judged transition, reconciles an act that is uncertain by looking
at the world, and may be retried under a new key. A kernel call is one step here; between the
steps others act, tear down, and late effects land. Automation puts the MAPE-K run in front of
it (materialize through its cache, observe, select, ask for a grant, execute, clean up) and a task
group with a semaphore around it, whose siblings are cancelled when one raises.

### Powl, PowlExecutor, PowlRunner, PowlGuard

`Powl` holds the pure functions: validation, enabled leaves, firing, visit counts, and a reference
language of whole words to compare them with. PowlExecutor fires any enabled leaf and judges the
record (replay, bridge, conformance). PowlRunner is `run_pipeline` with its rounds: fire all, run
the bindings in threads in any order, record. PowlGuard is the guarded walk: the recursion is the
set of active composites, thread pools run a ready level, what they buffered is flushed one step
and one checkpoint at a time (`Flush`), checkpoints are what the caller kept last, and
`Crash`/`Resume` may come anywhere. What resumption keeps depends on the top of the tree: a partial
order is finished without a gap; a choice graph stays on one path, and the rest of the branch in
which a call was cut is left out, once for each cut call (section 5, `NestedIsReplayedInFull`).

### Possibility

Both explorers step by step (pop, test, bound, push), the frontier of DO edges, one disposition
per edge, Pareto domination, then `select`, `bind` and `execute` of the cut with their staleness
checks while the graph may grow. The reference is every walk, without the bounds
(`Walks`). The bounds on depth and number never prune without a report of truncation; the one on
cost does, and what is checked of it is that each walk it leaves out has an edge that was refused
where the walk meets it (section 5, `NoBoundPrunesSilently`).

### The gyms

* **Sregym**: `main.py` and its children as processes that serve, crash, hang and ignore SIGTERM;
  start with its two checks, connect retries, tool calls with the close of their client, which
  the kernel's timeout can cut as well (`Closes`, `Cancelled`), the status poll, the kill of the
  group. A child that ignores SIGTERM survives when `main.py` does not (section 5).
* **TerraformApply**: a run of terraform reads the state, changes containers and writes the state,
  and the timeout may kill it between any two; environments of one process exclude each other;
  `docker inspect` may find an unreachable daemon or time out, and then raises.
* **PodReconciliation**: a pod that is scheduled, runs and terminates by itself, and has some
  phase while it terminates; apply, restart, verify, teardown by poll, over two contexts; reads
  that fail (seen as `NotFound`) or time out (`ReadRaises`).
* **GcpSimulator**: admission (fixture, service, quota), direct and long-running effects, the
  clock, cancellation, IAM, checkpoint and restore of the whole world, and a listing by pages whose
  tokens are offsets while other requests create and delete.
* **Codebase**: scratch and cloned trees, linked worktrees, writes, commits, builds, checkpoint,
  reset, rebuild.
* **DependencyWorld**: the catalogue's own statuses (`Initial`), taken over as they are;
  propagation as the code walks it, breadth first under three bounds, judged by the fixpoint for
  every asset an act has reached or that agreed from the start; views that load and save a shared
  state under its lock and, at teardown, let go of what the registry has under the world's id.
* **SweGym**: pull, start, baseline, patches, two suites, grading and the removal in `finally`; the
  container may die between and during the runs of tests, and is graded as the code does.
* **LocalProviders**: directory, git work tree and table, with every capability, checkpoint and
  restore, and death inside a handler. A checkpoint of a directory reads its files as text, which
  converts line ends (`AsText`); so a restore gives back the text and not always the bytes.

### The agents and the harness

* **EpistemicLoop**: rounds of links, demands, reads and claims; the state of each hypothesis is
  computed from admitted links only; conclusion and plan.
* **DiagnosisAgent**: concurrent resolvers with two attempts and a semaphore, recorded facts,
  admission, synthesis, submission.
* **ReactAgent**: tool calls with the grounding guard and the refresh after each accepted act,
  while others change the world. The kernel also refuses acts that had their effect or will have it
  (`NotAccepted`, `LateEffect`), and after those the agent does not look.
* **EnvHarness**: `reset` with its transactional stage, `step` with rules, postcondition and
  rollback, chains of legs, on a kernel whose acts raise, time out and land late
  (`LateEffect`), and whose `materialize` may raise after it registered the episode (`orphans`).

The language model is external and answers anything, invented identifiers included.

## 3. The runs

| Run | Question | Instance |
|---|---|---|
| `kernel_actuation` | Do concurrent `act` and `materialize` calls that share keys stay truthful when calls time out with or without effect, are cancelled at any await, and observations fail? | 4 calls, 2 keys, 2 capabilities; 549,000 states |
| `kernel_lifecycle` | All episode operations, every gate, failing collaborators: the invariants of the kernel proofs, one world per key, what an ALIVE receipt says, episodes leave by teardown, evidence is final | 3 calls, 2 keys; 211,000 |
| `kernel_liveness` | Does every call end, whatever raises while the lock is held? | 3 calls, also `read` and raw `act` |
| `loop_redelivery` | Redelivery of two requests under one key, with crashes, lost journals, lost replies, rejections, moving subject and clock | 2 providers, 2 deliveries; 469,000 |
| `sqlite_crash` | Processes on one file that retry, conflict, find locks taken and crash, for both stores | ledger: 2 processes, 3 appends of 5 kinds of receipts, 1 crash, 1 damaged row; populations: 3 processes, 4 calls; 918,000 |
| `controllers` | Is ALIVE evidenced, are effects admitted, told and never doubled, are leaks told, does everything end? | 8 situations; 270,000 |
| `processes` | Are traversals, rounds, resumed walks and closures what their reference definitions say? | 6 situations; 29,000 |
| `gyms` | Are verdicts, teardowns and restores what they claim, do acts count once, does each actor keep to its own? | 18 situations; 459,000 |
| `gym_endings` | Do starts, calls, handlers, evaluations and teardowns end? | 5 situations; 97,000 |
| `agents` | Are claims grounded, do consequences follow admission, does the harness keep its transactions, do runs end? | 9 situations; 428,000 |
| `kernel_unreceipted`, `loop_exactly_once` | two documented claims the code does not keep (section 5) | smallest instances |

**Properties that are groups.** `AliveReceiptsAreAboutTheirStates` is `AliveActBracketsItsEffect` (the
two observations of an ALIVE act bracket its own effect and no other) and `VerifiedDigestIsJudged`;
`EvidenceIsFinal` says the ledger is append-only and cached results are never replaced;
`AnswersAreReceiptsOfTheSameIntent` includes that the ledger has one intent per key. The properties of
the sums list their parts in the MC modules, next to the situation each part is checked in.
`RedeliverySpec` leaves out `ClaimFault`, `Outage` and `Escape`; the situations `loop` and
`loop_outages` of `controllers` have them, with three providers and a clock that stands still, so
that only the budgets end a run.

**Situations.** `controllers`: four executions that share a world and partly a key; refusals under
one key; reconciled retries; every combination of grant and revisions; two batches whose runs
share keys; a batch of four behind two slots with every outage; the loop twice. `processes`: words
and cycles of eight trees, rounds under six bounds and eight sets of bindings, crash and resume,
nested thread pools, the cut. `gyms` and `agents` have two or three situations each where one
instance with all failures would be too large; each has the failures its properties are about.

**Bounds.** Three calls are enough for a materialization and two competing operations, four add
a retry or a third competitor. Two keys and two capabilities allow every way of agreeing and
disagreeing on a key. In the loop each budget is 1, so that exhausting it, resetting it by a
switch and exhausting it again all happen; three providers make a switch after a switch possible;
the deadline is tick 3 and later ticks are alike (`MaxTick`); `retry_after_ticks` is 1; one request
never expires and the other expires at tick 2, in the middle of a run. Two revisions suffice to
be pinned, declared or neither. In the SQLite model one crash and three appends reach a
crash after each statement followed by a reopening and further appends by both processes. The
model loses only rows that another is chained to, since a hash chain cannot show a missing tail.
PolicyStore needs three processes for a writer, a reader that holds up its commit and one that is
shut out. Closures are explored under every combination of three depths, three path limits and two
costs, among them limits met exactly. Trees have at most four children and loops within loops;
visit caps of 3 and 4 let each loop go round and stop. In the gyms, one or two acts, two
generations and two environments are what a race needs; in the agents, two hypotheses, two
categories and two or three rounds. Calls and keys are interchangeable in the kernel instances, so
they are a symmetry set there, except in the liveness run.

**Deadlock** is checked in the kernel, loop and SQLite runs; the kernel and the loop have an
explicit `Quiescent` step when all calls and deliveries of the instance are answered, and only then.
In the sums the components stop when their calls are used up, and `DriversEnd`, `HandlersEnd` and
`AgentRunsEnd` say instead that nothing stays open.

**Fairness.** Kernel: weak fairness of each call's own steps. Every await on a collaborator is
under `anyio.fail_after`, so it ends, and a released anyio lock is handed on. No fairness is
assumed of clients, late effects or cancellation. Loop: `run` is an ordinary synchronous call,
so once entered it keeps going: weak fairness of `LoopStep`. Batches: of each run and of the task
group. Gyms: of the handlers (each external command has a timeout), of the clocks that raise a
deadline, of the two failing ends of an SREGym connection (both have timeouts), and of a pod's own
progress; none of answers that never come. Strong fairness is used once, for entering the lock of
a shared dependency world: an asyncio lock is first come, first served, which the model does not
order. Agents: weak fairness of a run that has begun, since the model and the kernel answer or
raise.

Every property has mutants in `PROJECT.json`, several for the grouped ones: an operator next to the
definition it mutates (`X_Something`), each a plausible mistake, that makes the property fail.

## 4. What is proved

All theorems hold for every value of the constants that satisfies the named assumptions: mainly
that `None` is not a call, key, digest or record, and that bounds are natural numbers. TLC evaluates
them in each run, those of the components inside a sum through `ControllerAssumption` and its
like. A further hypothesis on faults or worlds is part of the theorem that needs it, and is
explained below. `PROJECT.json` lists the theorems a reader should know first. The inductive
invariants of the kernel, the loop, the stores, Crown, Automation, the agents and the shared
dependency world are checked by a run as well; those of the other gyms are stated, named and
proved in GymProofs alone, and what follows from them is what the run `gyms` checks.

**KernelProofs**, the first half. `TypeCorrect`, `ActSafety` and `ReplaySafety`.
`OneReceiptedEffectPerKey` is about two finished calls and not inductive. `ActInvariant` supplies
the reason: a call inside the episode holds its lock (`HoldsItsLock`); therefore the cache miss it
saw still holds when it acts (`NothingCached`); a receipt ends its call (`ReceiptEndsCall`); and a
receipted effect is the cached result of its key (`ReceiptedEffectIsCached`). Two receipted effects
under a key would both be *the* cached result. The step proof has one lemma per action; late effects
and cancellation are included, so no assumption on faults is needed.

**KernelProofs**, the second half. The other promises of the kernel: refusals without effect
(`RefusalSafety`), answers that are receipts of the same request (`AnswerSafety`), returned effects
that are receipted (`ReturnedSafety`), digests that bracket their own effect (`AliveSafety`), episodes
that leave by teardown (`TeardownSafety`), one world per key (`MaterializationSafety`), and the action
property that evidence is final (`EvidenceFinality`). They follow from one inductive invariant,
`EvidenceInvariant` (with `ActInvariant` it is the `KernelInvariant` of `EvidenceSafety` and of the
run `kernel_lifecycle`), which relates the locals of every call to its receipt, cache
entry, episode and world. The actions are first sorted by the shape of what they do to the shared
state (record a receipt, change a world, move one call), so that each conjunct is shown once per
shape. `MaterializationSafety` assumes `"cancel" \notin Faults`: a `materialize` that is cancelled
after the provider made a world leaves one that no cache knows, and the next call makes another
(TLC shows it).

**ExecutionLoopProofs.** A step of the loop is first classified (`Shape`, `Delivers`, `Outside`),
then each invariant is shown against the classes. `RunIsOnOpenKey` and `MemoryIsByKey` give the
refinement `LoopSettlesKeysOnce` (the loop implements `WorkOrders`); with `KnownEffectsAreHeld` they
give `LoopSafety`, `LoopActsInOneDelivery` and `LoopReceiptsListEverything`. These three assume
`"escape" \notin Faults`: an exception that leaves `run` (`execution_loop.py:756`) is remembered
nowhere. `LoopReceiptsAreAttributable` (the subject of a receipt is the pinned one or the declared
commit) and `LoopClaimsAreBounded` need no such hypothesis; the latter rests on
`BudgetInvariant`: every switch pays for one full retry budget, which is what makes
resetting `attempts` harmless.

**SqliteLedgerProofs.** `ChainInvariant`: readers hold the write lock, so the row a transaction is
about to commit is still the next one of the chain and still admitted by the append rule. From it
follow `CrashedFilesReopen`, `ReturnedRecordsAreDurable` and `FileFollowsAppendRule`. `DamageIsTold`:
after one damaged row the chain never verifies again, whatever is appended; it assumes
`MaxRot <= 1`, since a second damage could undo the first.

The second half is about the policy store. `StoreInvariant` (`StoreSafety`) says what each statement
of a call may rely on: its job, the rows the statements before it found or stored, and who holds
which lock. A row that is not committed would replay as well. `TransitionsReplay`,
`CleanReturnsDurability` and `LocksAreExplained` are its consequences, for any number of processes
and crashes. `PopulationSafety` adds that what a call returned is what the file holds
(`PopulationsAreKept`). What the code does not keep (`ReturnedIsDurable`, `NotWedged`, section 5) is
not claimed.

**AutomationProofs**, Crown. `CrownInvariant` (`CrownSafety`): what an execution did or may still do
to the world was admitted, what waits for its verification or is cached as accepted has its receipt
and its effect, and a pending effect was answered as uncertain or by an exception. It contains
`AliveIsEvidenced` (`AliveEvidence`) and gives `NothingActsUnadmitted` (`AdmissionSafety`).
`EffectsAreTold` assumes that observations work: after an applied effect whose observation fails,
the receipt repeats the digest from before (`kernel.py`), and the broker answers BLOCKED.
`DispositionSafety` and `RetrySafety` assume `ExclusiveWorlds`, without which they are false: no
effect lands late, no two requests share a world, and both the action and its postcondition ask for
a change. `RetryInvariant` adds that such a world is untouched until the one effect of its request.
`EffectInvariant` joins these, each under its hypotheses; the run `controllers` needs it of the
broker's four situations.

**AutomationProofs**, the controllers. `AutomationInvariant` (`AutomationSafety`): the slots in use
are exactly those of the runs under way, which belong to the running batch; a cleanup is reported
only by a run that ended; and whoever materialized a world that is still there is at work on it or
has said that it failed. `LeakSafety`, `BatchSafety` and `BatchAliveEvidence` follow for any number
of runs, batches and slots. `KeySafety` (`KeysActOnce`) needs `KeyInvariant`: a key stands for the
world its first run materialized, every receipt under it is of that world, and the one run that
acted is the cached answer. It assumes `OneCapabilityPerKey`: with two capabilities under a key, the
ledger may reject the receipt of an effect that has happened, and nothing is cached (the
disagreement of `kernel_unreceipted`).

**AgentProofs.** Of the harness: `HarnessInvariant` (`HarnessSafety`) says at which await which call
can be, that every checkpoint in use is of the world in which its call began, that only the
session's episode lives, or one whose `materialize` raised, and that the legs behind the current one
were verified; `PendingInvariant` what timed-out acts may still change, `HistoryInvariant` what the
history holds; they need no hypothesis on harness, rules or faults. `EpisodeSafety`,
`PreflightSafety`, `PostconditionSafety` and `CompletionSafety` follow. `PostconditionSafety` is
about the world and the history of a step that reports a failed postcondition; effects of earlier
acts that timed out are excepted, since they land when they will. `ResetSafety`
(`ResetIsAllOrNothing`) needs `StageInvariant`, the world after the stage actions so far, and
assumes `StageKeysDiffer`: an action under a key the stage has used is answered from the cache and
has no effect. `HarnessAction` makes up a key unless it is given one, so this is a condition on the
caller. A reset that reports a rollback left the world fresh unless its last stage action timed out:
that effect may land afterwards, and only that one. That a call that raises is not rolled back
(section 5) is outside the theorem: it speaks of reported outcomes. `LimitSafety` (`LimitsHold`)
assumes `LimitsFollowRewrites`: a rewrite after a denial is not asked again, so the denials have to
stand behind the rewrites. Of the other three agents, whatever the model answers: an act names only
what was shown, and what a finished run saw last is the world but for names that others, acts not
accepted or acts not looked at changed (`unseen`; `ReactClaims`); admission needs one root cause and
existing facts, and nothing is submitted before it (`DiagnosisClaims`, `DiagnosisOrder`); a
hypothesis' state follows from stored facts, and do capabilities run only after the diagnosis of the
sole supported one (`EpistemicClaims`, `EpistemicOrder`).

**GymProofs.** One part per gym, each with an inductive invariant of its own.

* *Dependency worlds* (`D!WorldInvariant`): the lock of a shared state is held by the view that is
  inside, whose loaded copy is current; therefore every save extends the log that all acts
  committed to, and the state is what the log makes of it (`CommittedEffectsAreKept`,
  `OpenViewsShareTheWorld`, `ActorsSeeWithLag`). `CommitsAreBounded` rests on what the walk returns,
  shown by induction over its steps: a step count that no state satisfies has a least
  counterexample.
* *SREGym* (`LifeInvariant`, `CallInvariant`): `main.py` stays unreaped, so that its group can be
  found, until the constructor polls its exit or a kill waits for it. Afterwards `main.py` is
  reaped, the log closed, and a port served only by a process that is still there; a child
  that is still there outlived SIGTERM (SIGKILL was not sent), came after the signal, or its
  `main.py` had exited during startup (`SregymLetsGo`). What a call has done follows from where it
  is: nothing while it connects or polls. An answered call raises only when the kernel's timeout
  cut the close of its client (`SregymCalls`).
* *Terraform* (`TfInvariant`, `StatesAreOwn`): runs belong to open environments, so nothing
  comes after a teardown that returned. `TerraformTeardown` is about teardowns to which the daemon
  answered, `TerraformVerdicts` about every verdict but that "not running" counts only if it did;
  with directories of their own, the state a run reads is its own environment's
  (`TerraformKeepsToItsOwn`). Without these conditions the claims are false (section 5).
* *Kubernetes* (`PodInvariant`, `PodAnswerIsReal`): after the delete of a restart succeeded no pod is
  there, so two zero codes mean another instance (`PodRestarts`, in every context); `PodVerdicts` is
  about the case in which the current context is the pinned one, and its conclusions from
  `NotFound` are about a server that answers.
* *SWE-Gym* (`GradesInvariant`, `DeathsAreNoticed`, `ContainersInvariant`): what is kept of each
  suite is what its run showed, from the step that ran it, so the verdict is computed from this
  evaluation's suites, the baseline included (`SweVerdicts`): all tests of the issue passed, and no
  other is reported as FAILED anew. That is weaker than "broke nothing", which the code does not
  keep (section 5); a container outlives its evaluation only where docker kept it (`SweContainers`).
* *Codebases* (`CodeInvariant`): the commits of a checkpoint stay reachable while its environment is
  open, unless its own commands destroy the repository (`CodebaseRestores`); whose identity is
  configured follows from how the tree was made (`CodebaseIdentity`). What fails once a repository
  may be destroyed, or the source is local, has that as a condition.
* *Local providers* (`LocalInvariant`): `LocalRestore`; files are in directories that are there, and
  a checkpoint holds nothing that could not be written side by side. Of a restore that raises or
  dies it says that tree and table are as they were (a table may have all of the checkpoint), and
  that a directory, which is emptied first, never mixes files of both trees.
* *GCP simulator* (`GcpInvariant`): in the world and in its checkpoint alike, every number is given
  once, to an operation or to an audit entry, and an operation has ended with an answer exactly if
  it was applied (`GcpAppliesOnce`, `GcpNumbers`). That nothing due stays pending needs that no
  custom method is long-running (`CustomIsDirect`). `GcpQueries` is about the query capability's
  step.

**MCProofs and MCGymsProofs.** The properties of the sums that are invariants or action properties
follow from the theorems above, situation by situation: `AliveIsEvidenced`, `EffectsAreAccountedFor` and
`LeaksAreTold` of `controllers`; `ClaimsAreGrounded`, `ActsFollowAdmission` and `HarnessIsTransactional`
of `agents`; `VerdictsAreReal`, `EndsAndRestoresAreHonest`, `ActsCountOnce` and
`ActorsKeepToTheirOwn` of `gyms`. A sum's invariant is the component's, under the condition that
the behaviour is about it; a step of another component leaves it alone.

**Model-checked only.** Liveness and ENABLED are out of the prover's reach, and so is what
recursive definitions, those of `Powl` and its language, compute for every input: the properties of
`processes` (`TraversalsAreTheLanguage`, `RoundsAreSound`, `ResumeKeepsTheWalk`, `ClosureIsComplete`)
compare such definitions. `WorldsAreConsistent` of `gyms` stays with TLC as a whole: it joins the
types of all gyms with three claims about computed data: the quota used as the count of audit
entries, the pages of a listing (a client misses no more than was deleted meanwhile), and the
fixpoint of a propagation. Its parts that are not, the fresh numbers, the bound on
impact and the directory's paths, are theorems of GymProofs (`GcpNumbers`, `CommitsAreBounded`,
`LocalRestore`).

## 5. Where documentation and code disagree

Two disagreements have a run of their own, because they are about the central promises.

1. `loop_exactly_once`: a worker that crashes after its effect and whose journal is lost ends in
   a typed block before the effect is recorded, so nothing is remembered and a redelivery acts
   again. The module docstring promises exactly-once for a run that actuated.
2. `kernel_unreceipted`: the ledger compares a key across episodes and capabilities only when the
   receipt is recorded, after the actuation; `act` then raises and the effect has no receipt. The
   repository's README states zero unreceipted actuation.

The others are stated in their modules as definitions that TLC refutes under the constants given
here. Where the claim holds in part, a run checks that part.

| Definition (module) | Refuted with | The claim, and what the code does |
|---|---|---|
| `TeardownIsIdempotent` (Kernel) | `NoopTeardown`, two TEARDOWN calls | `kernel.py:1019` "Idempotently tear down": the earlier receipt is looked up before the lock is awaited (1020), so a queued teardown closes and receipts again. |
| `VerifiedSubjectIsAttributable` (ExecutionLoop) | a crash with journal, a moving subject | `execution_loop.py:47-49` "The same check runs on the journal-reconstruction path": the verifier gets a second, unchecked reading (1190). |
| `CutMatchesTheEdge` (Possibility) | two actions | `docs/explanation/gymact-prd-ard.md:87` "SHALL re-check the semantic binding": `cut.py:145` reads only the phase of the edge. |
| `ConformanceIsExact` (PowlExecutor) | two branches that begin with one label | `powl/conformance.py:8-9`: only the smallest enabled path is followed (134), so legal traces of the other branch diverge. |
| `WholeBatchFires` (PowlRunner) | a choice graph | `powl/runner.py:363` "never a subset pick": alternatives exclude each other; the second is refused and the refusal swallowed (446). |
| `NestedIsReplayedInFull` (PowlGuard) | a crash inside a branch of a choice graph | `powl/guard_executor.py:172-173` "always replayed in full": the rest of the branch is skipped (878-899). |
| `NoBoundPrunesSilently` (Possibility) | a walk dearer than `max_cost` | `docs/explanation/gymact-prd-ard.md:263` names bounds that silently prune as a falsifier (72 asks for explicit ones): walks over `max_cost` are left out with a refused edge and no truncation (`combinatorial.py:505-514`, `maximal.py:118-127`). |
| `EveryFailedStartSignals` (Sregym) | any start that finds `main.py` dead | `gyms/sregym.py:613-618` "Same cleanup ... on every raising startup-check failure": `poll()` has reaped the process, so no group is signalled (880). |
| `NoChildSurvives` (Sregym) | a child that ignores SIGTERM | the same file, 864-870 "instead of surviving as orphans": SIGKILL is sent only when `main.py` outlives SIGTERM (882-886), so its children may survive and serve on. |
| `TeardownIsNeverSilent` (TerraformApply) | `"daemon"` | `gyms/terraform_docker_apply.py:41-43` "surfaces a leaked container": an unreachable daemon counts as gone (160). |
| `AbsenceIsReal` (TerraformApply) | `"daemon"` | the same file, 150-156 "no container with that exact name exists": `verify` passes "not running" for a container that runs (160, 175). |
| `TouchesOwnContainer` (TerraformApply) | a shared `DirOf` | the same file, 28-29: with the default `working_dir` (419) environments share terraform's state and replace each other's containers. |
| `NotFoundIsReal` (PodReconciliation) | `"unreachable"` | `gyms/kubernetes_reconciliation.py:117-121`, `None` for a real NotFound: any failure of `kubectl get` is one (122-124), and `verify` passes "NotFound" for a pod that runs. |
| `EarlyTeardownsAreClean` (PodReconciliation) | `Target # Current` | `gyms/kubernetes_reconciliation.py:140-142`: reads never pass `--context` (122). |
| `DeletionIsConfirmed` (PodReconciliation) | `"timeout"` or `"stuck"` | the same file, 287-289 "a real deletion confirmation": the result of the poll is dropped (290). |
| `NothingDueIsPending` (GcpSimulator) | a long CUSTOM method, empirical, without fixture | `gyms/gcp_simulator.py:492-493` "Completion later applies the already-admitted pending effect": completion raises out of the loop (822) at every later tick. |
| `PagesCoverAllThatStays` (GcpSimulator) | a deletion between two pages | a hazard no text speaks of: a page token is an offset (597-601), and what is deleted before it moves a staying resource onto the page already read. |
| `SourceIdentityIsKept` (Codebase) | `Local` | `gyms/codebase.py:7-8` "never touches the caller's own working repository": `git config` in a linked worktree writes the source's configuration (306). |
| `RestoreReachesTheCheckpoint` (Codebase) | `"gone"`, cloned | the same file, 47-52: the rebuild checks out the cloned commit, not the checkpoint's (802). |
| `RestoreFallsBack` (Codebase) | `"gone"`, `"source"` | the same lines: after a failed clone the directory is missing and the next probe raises before the fallback (779). |
| `EffectiveIsAFixpoint` (DependencyWorld) | a shortcut, `Requires = <<{}, {1}, {1, 2}>>` | `gyms/dependency_world.py:10-13`: an asset reached directly and through others is judged before those have changed (313). |
| `EveryAssetIsSettled` (DependencyWorld) | `Initial` with a failed asset that others require | likewise: the catalogue's `initial_status` is copied without propagation (248-249), and only what an act reaches is made to agree. |
| `EveryPathCleansUp` (SweGym) | `"cancel"`, `"late"` or `"stop"` | `gyms/swegym.py:370-372` "unconditionally attempting it in finally is correct for every path": cancellation interrupts the removal, and a failed one is not noticed. |
| `NeverPenalized` (SweGym) | `"slow"` or `"noise"` in the baseline | the same file, 428-429 "must never penalize the candidate": a baseline that timed out or collected nothing subtracts nothing. |
| `NothingIsBroken` (SweGym) | a suite in which a test errors and another passes | the same file, 306-308 "never a genuinely new regression": only `fail` counts, so a test that passed before and errors after is not broken (331-335). |
| `DeathIsNotGraded` (SweGym) | `"dies"` | the same file, 84-88 "instead of collapsing it into a graded loss": a container that dies inside a run of tests leaves an exit code without a daemon message, and that is graded (229-236). |
| `ReturnedIsDurable`, `NotWedged` (PolicyStore) | a commit that finds readers | `policy_ecology_store.py:1` "Durable, replayable storage": a commit that raised leaves a row that only its connection sees, a repeated `put` returns it, and locks stay. |
| `NoRestoreDestroys` (LocalProviders) | `"filesystem"`, `"dies"` or `"malformed"` | a hazard no text speaks of: the directory is emptied before the checkpoint's files are written (`local_providers.py:117-125`). |
| `RestoresTheBranch` (LocalProviders) | `"git"`, two branches | likewise: restore resets to the commit and ignores the branch the checkpoint records (240-246). |
| `OpenFrontierIsRefused` (EpistemicLoop) | two hypotheses | `epistemic_process_kernel.py:506-508` "refused honestly below": one SUPPORTED among UNKNOWN ones is admitted (576). |
| `FactsAreSourced` (EpistemicLoop) | any instance | the same file, 214-217 "inadmissible": an empty list of sources passes the subset test (226). |
| `CategoriesAreBlind` (DiagnosisAgent) | `MaxRecorded >= 1` | `dspy_sregym_agent.py:1111-1113`: second attempts are given the facts of all categories (1261). |
| `LoopsDoNotAct` (DiagnosisAgent) | `MaxKubectl >= 1` | the same file, 888-890: `run_kubectl`, a DO capability, is in the tool list of every loop (904). |
| `TraceShowsEveryAct` (ReactAgent) | `KernelRaises` | `dspy_agent.py:243` "the real, ordered trace": a step is appended only after the following observation (375). |
| `FinalObservationIsCurrent` (ReactAgent) | an act refused after it had its effect | `dspy_agent.py:364-378`: after an act that is not accepted the agent does not look again, though the kernel answers so for acts that had their effect (`kernel.py:772-807`). |
| `OnlyObservedIsCited` (ReactAgent) | `Hidden` nonempty | the same file, 24-27: reads add to what may be named (411). |
| `CompleteMeansEveryLeg` (EnvHarness) | two legs, `"teardown"` | `envharness.py:710`: a leg whose teardown is refused is verified and counted again (778). |
| `RollbackIsFinal` (EnvHarness) | `"late"` | the same file, 330-351, a stage reported as rolled back: the effect of its timed-out action may land afterwards (`kernel.py:765`). |
| `NoEpisodeIsForgotten` (EnvHarness) | `"raise"` | a hazard no text speaks of: `materialize` registers the episode before it records its receipt (`kernel.py:457`, 463), and a ledger that raises (145) leaves a live episode that no session names. |
| `ResetIsTransactional` (EnvHarness) | a staged session reset twice | the same file, 354: the stage's fixed keys make the ledger raise after the first effect, past the rollback (408). |
| `DeclaredStepsAreTransactional` (EnvHarness) | `"effect"` | the same file, 7-9: a refused act that changed the world is not rolled back (631). |

## 6. Not modelled

The map covers about a tenth of the implementation's lines: the repository is very large, and
most of it is code a state machine says nothing about. Left out, with the reason for each part in
`PROJECT.json`:

* generated contracts, catalogues, command line and surfaces, clients in other languages;
* other gyms, most of them adapters to third-party benchmarks: the kernel assumes of them only
  what its fault choices say; BPMN, which runs in a third-party engine;
* pure validation and conversion of one document at a time: possibility projections, the court's
  documents, SA2A envelopes, RDF, OCEL and PROV projections, Turtle and normal forms of POWL,
  replay and attestation of finished evidence;
* floating-point scoring, conditioning and statistics; survival campaigns and the evolution of
  harnesses, which are experiment drivers; the `explore_*` and `runtime_evolution` prototypes;
* texts: prompts, explanations, receipt wording, the parsing of `kubectl` output. Size limits are
  gates, not numbers. The dataset row of a SWE-Gym task is input.

Faults left out: a crash of the machine under SQLite (as opposed to a process), a git that dies in
the middle of a reset, files truncated by a full disk or cut in the middle of a write (such a file
counts as not written).

## 7. Plan

Done: all modules of section 2, and the proofs of section 4.

Next, in this order:

1. **Types and counts of gyms**: the rest of `WorldsAreConsistent`, for which the quota has to be
   related to the audit log entry by entry.
2. **Stores**: the decision cache and retirement.
3. **Further gyms and agents** that keep state of their own: the terminal benchmark, the
   environment rigger, the generation agents.
