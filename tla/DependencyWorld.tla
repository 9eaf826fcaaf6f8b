--------------------------- MODULE DependencyWorld ---------------------------
(***************************************************************************)
(* Dependency worlds (gyms/dependency_world.py) and the actor views that   *)
(* share one (gyms/shared_dependency_world.py): assets that require other  *)
(* assets, statuses that propagate along the dependencies within bounds,   *)
(* and several episodes that act on one provider-owned state.              *)
(*                                                                         *)
(* All views join one world_id.  A view is one episode's environment; its  *)
(* calls are serialised by the kernel.  An operation enters the world's    *)
(* lock and loads the state, and in a second step does its work and saves. *)
(***************************************************************************)
EXTENDS Naturals, Sequences, FiniteSets, SequencesExt

CONSTANTS
  N,             \* the assets are 1..N, in the order of their identifiers
  Requires,      \* DCTERMS requires, per asset
  Initial,       \* initial_status, per asset
  Statuses,      \* statuses other than "healthy"
  Views,         \* episodes: one actor-scoped environment each
  Powers,        \* per view: the effect statuses of its actor's capabilities
  Lag,           \* per view: actor_lag_steps
  MaxDepth, MaxEvents, MaxImpacted,     \* the catalog's bounds
  MaxCommits,    \* bound: acts committed to one state
  MaxStates      \* bound: shared states the provider makes

Assets == 1..N
Status == {"healthy"} \cup Statuses \cup {"degraded"}

DependencyAssumption ==
  /\ {N, MaxStates} \subseteq Nat \ {0} /\ {MaxDepth, MaxEvents, MaxImpacted, MaxCommits} \subseteq Nat
  /\ Requires \in [Assets -> SUBSET Assets] /\ Initial \in [Assets -> Status]
  /\ Powers \in [Views -> SUBSET ({"healthy"} \cup Statuses)] /\ Lag \in [Views -> Nat]
  /\ IsFiniteSet(Views) /\ "free" \notin Views

VARIABLES
  states,     \* the shared states ever made: direct, history, views, lock, and
              \* log, a history of the acts that returned since the start
  registry,   \* _shared_worlds[world_id]: the index of its state, 0 when absent
  view,       \* per view: "new", "open", "closed"
  of,         \* per view: the state it is a view of
  call,       \* per view: its operation in progress
  loaded,     \* per view: what _load put into the inner environment (Seed when dead)
  kept,       \* per view: the checkpoint its client keeps, with the log it had
  seen        \* per view: the observed_step of its last observation, or -1

vars == <<states, registry, view, of, call, loaded, kept, seen>>

NoCall == [op |-> "none", at |-> "idle", target |-> 0, effect |-> "healthy"]
Calls ==
  [op : {"none", "observe", "checkpoint", "restore", "actuate"},
   at : {"idle", "waiting", "inside"},
   target : 0..N, effect : {"healthy"} \cup Statuses]

(* The catalogue's statuses are taken as they are: nothing propagates them. *)
Seed == [direct |-> Initial, history |-> <<Initial>>]
Fresh == [direct |-> Initial, history |-> <<Initial>>, log |-> << >>, views |-> 0, lock |-> "free"]
Content(s) == [direct |-> s.direct, history |-> s.history]
Snapshot(c, log) == [direct |-> c.direct, history |-> c.history, log |-> log]

Standing == [Assets -> Status]
Acts == [target : Assets, effect : {"healthy"} \cup Statuses]
Contents == [direct : Standing, history : Seq(Standing)]
Snapshots == [direct : Standing, history : Seq(Standing), log : Seq(Acts)]
Shared ==
  [direct : Standing, history : Seq(Standing), log : Seq(Acts),
   views : 0..Cardinality(Views), lock : Views \cup {"free"}]

TypeOK ==
  /\ states \in Seq(Shared) /\ registry \in 0..Len(states) /\ Len(states) <= MaxStates
  /\ \A i \in DOMAIN states : Len(states[i].history) \in 1..(MaxCommits + 1)
  /\ view \in [Views -> {"new", "open", "closed"}] /\ of \in [Views -> 0..Len(states)]
  /\ call \in [Views -> Calls] /\ loaded \in [Views -> Contents]
  /\ kept \in [Views -> Snapshots] /\ seen \in [Views -> Nat \cup {-1}]
  /\ \A v \in Views : Len(kept[v].history) \in 1..(MaxCommits + 1)

Init ==
  /\ states = << >> /\ registry = 0
  /\ view = [v \in Views |-> "new"] /\ of = [v \in Views |-> 0]
  /\ call = [v \in Views |-> NoCall] /\ loaded = [v \in Views |-> Seed]
  /\ kept = [v \in Views |-> Snapshot(Seed, << >>)] /\ seen = [v \in Views |-> -1]

-----------------------------------------------------------------------------
(* Propagation *)

Effective(s) == Last(s.history)
Sorted(S) == SetToSortSeq(S, <)
Dependents(a) == {b \in Assets : a \in Requires[b]}

(* What an act puts on its target. *)
Put(direct, act) == [direct EXCEPT ![act.target] = act.effect]

(* _desired_status *)
Desired(a, direct, effective) ==
  IF direct[a] # "healthy" THEN direct[a]
  ELSE IF \E r \in Requires[a] : effective[r] # "healthy" THEN "degraded" ELSE "healthy"

(* One turn of the loop of _simulate on the asset at the head of the queue.*)
(* `seen_depth` is depth; an asset comes back only at a smaller depth.     *)
Turn(s, direct) ==
  LET a == Head(s.queue)
      want == Desired(a, direct, s.effective)
      moved == s.effective[a] # want
      changed == IF moved THEN s.changed \cup {a} ELSE s.changed
      events == IF moved THEN s.events + 1 ELSE s.events
      next == s.depth[a] + 1
      new == {b \in Dependents(a) : s.depth[b] = -1 \/ next < s.depth[b]}
  IN  [queue |-> Tail(s.queue) \o Sorted(new),
       effective |-> [s.effective EXCEPT ![a] = want],
       changed |-> changed, events |-> events,
       depth |-> [b \in Assets |-> IF b \in new THEN next ELSE s.depth[b]],
       refused |-> \/ moved /\ (events > MaxEvents \/ Cardinality(changed) > MaxImpacted)
                   \/ Dependents(a) # {} /\ next > MaxDepth]

(* Mutant: only the assets that require the target look again. *)
Simulate_OneLevel(direct, effective, target) ==
  LET mine == [effective EXCEPT ![target] = Desired(target, direct, effective)] IN
  [effective |-> [a \in Assets |-> IF a \in Dependents(target)
                                   THEN Desired(a, direct, mine) ELSE mine[a]],
   refused |-> FALSE]

(* The loop begins with the target alone, and goes on until its queue is   *)
(* empty or an exception leaves it.                                        *)
Start(effective, target) ==
  [queue |-> <<target>>, effective |-> effective, changed |-> {}, events |-> 0,
   depth |-> [b \in Assets |-> IF b = target THEN 0 ELSE -1], refused |-> FALSE]
Advance(s, direct) == IF s.queue = << >> \/ s.refused THEN s ELSE Turn(s, direct)

(* Mutant: what would exceed the bounds is committed as far as it got. *)
Simulate_Truncates(direct, effective, target) ==
  LET after[n \in 0..N] ==
        IF n = 0 THEN Start(effective, target) ELSE Advance(after[n - 1], direct)
  IN  [after[N] EXCEPT !.refused = FALSE]

(* _simulate: the queue is empty after at most one turn per asset, since   *)
(* it is visited breadth first.                                            *)
Simulate(direct, effective, target) ==
  LET after[n \in 0..N] ==
        IF n = 0 THEN Start(effective, target) ELSE Advance(after[n - 1], direct)
  IN  after[N]

-----------------------------------------------------------------------------
(* The provider: materialize, _acquire, _release, teardown *)

(* Mutant: joining an existing world counts the view twice. *)
Materialize_CountsTwice(v) ==
  /\ view[v] = "new" /\ view' = [view EXCEPT ![v] = "open"]
  /\ IF registry # 0
     THEN /\ of' = [of EXCEPT ![v] = registry] /\ UNCHANGED registry
          /\ states' = [states EXCEPT ![registry].views = @ + 2]
     ELSE /\ Len(states) < MaxStates
          /\ registry' = Len(states) + 1 /\ of' = [of EXCEPT ![v] = Len(states) + 1]
          /\ states' = Append(states, [Fresh EXCEPT !.views = 1])
  /\ UNCHANGED <<call, loaded, kept, seen>>

Materialize(v) ==
  /\ view[v] = "new" /\ view' = [view EXCEPT ![v] = "open"]
  /\ IF registry # 0
     THEN /\ of' = [of EXCEPT ![v] = registry] /\ UNCHANGED registry
          /\ states' = [states EXCEPT ![registry].views = @ + 1]
     ELSE /\ Len(states) < MaxStates
          /\ registry' = Len(states) + 1 /\ of' = [of EXCEPT ![v] = Len(states) + 1]
          /\ states' = Append(states, [Fresh EXCEPT !.views = 1])
  /\ UNCHANGED <<call, loaded, kept, seen>>

(* The state is looked up by its world_id; one that is not registered any  *)
(* more has been let go of.                                                *)
Release ==
  IF registry = 0 THEN UNCHANGED <<states, registry>>
  ELSE LET left == states[registry].views - 1 IN
       /\ states' = [states EXCEPT ![registry].views = left]
       /\ registry' = IF left <= 0 THEN 0 ELSE registry

(* Mutant: a view that is closed already gives the world back again. *)
Teardown_Again(v) ==
  /\ view[v] \in {"open", "closed"} /\ of[v] = registry /\ registry # 0
  /\ view' = [view EXCEPT ![v] = "closed"] /\ Release
  /\ UNCHANGED <<of, call, loaded, kept, seen>>

(* teardown takes no lock; a second one returns at once. *)
Teardown(v) ==
  /\ view[v] = "open" /\ view' = [view EXCEPT ![v] = "closed"] /\ Release
  /\ UNCHANGED <<of, call, loaded, kept, seen>>

(* The episode is over: the same client may join the world again. *)
Rejoin(v) ==
  /\ view[v] = "closed" /\ call[v] = NoCall
  /\ view' = [view EXCEPT ![v] = "new"] /\ kept' = [kept EXCEPT ![v] = Snapshot(Seed, << >>)]
  /\ seen' = [seen EXCEPT ![v] = -1]
  /\ UNCHANGED <<states, registry, of, call, loaded>>

-----------------------------------------------------------------------------
(* The operations of a view *)

(* _ensure_open is checked before the lock is awaited. *)
Begin(v, c) ==
  /\ view[v] = "open" /\ call[v] = NoCall /\ call' = [call EXCEPT ![v] = c]
  /\ seen' = [seen EXCEPT ![v] = -1]
  /\ UNCHANGED <<states, registry, view, of, loaded, kept>>

Observe(v) == Begin(v, [NoCall EXCEPT !.op = "observe", !.at = "waiting"])
Checkpoint(v) == Begin(v, [NoCall EXCEPT !.op = "checkpoint", !.at = "waiting"])
Restore(v) == Begin(v, [NoCall EXCEPT !.op = "restore", !.at = "waiting"])
Actuate(v, target, effect) ==
  /\ effect \in Powers[v]
  /\ Begin(v, [op |-> "actuate", at |-> "waiting", target |-> target, effect |-> effect])

State(v) == states[of[v]]
Done(v) == call' = [call EXCEPT ![v] = NoCall]

(* Mutant: the lock lets a second task in (a lock of the thread). *)
Enter_Reentrant(v) ==
  /\ call[v].at = "waiting"
  /\ IF view[v] = "closed" THEN Done(v) /\ UNCHANGED <<states, loaded>>
     ELSE /\ call' = [call EXCEPT ![v].at = "inside"]
          /\ states' = [states EXCEPT ![of[v]].lock = v]
          /\ loaded' = [loaded EXCEPT ![v] = Content(State(v))]
  /\ UNCHANGED <<registry, view, of, kept, seen>>

(* The lock, then _load: the inner environment of a view that was torn     *)
(* down meanwhile raises.                                                  *)
Enter(v) ==
  /\ call[v].at = "waiting" /\ State(v).lock = "free"
  /\ IF view[v] = "closed" THEN Done(v) /\ UNCHANGED <<states, loaded>>
     ELSE /\ call' = [call EXCEPT ![v].at = "inside"]
          /\ states' = [states EXCEPT ![of[v]].lock = v]
          /\ loaded' = [loaded EXCEPT ![v] = Content(State(v))]
  /\ UNCHANGED <<registry, view, of, kept, seen>>

(* _save and the end of the lock. *)
Save(v, content, log) ==
  states' = [states EXCEPT ![of[v]] = [direct |-> content.direct, history |-> content.history,
               log |-> log, views |-> @.views, lock |-> "free"]]
Unlock(v) == states' = [states EXCEPT ![of[v]].lock = "free"]

(* actuate: refused by the propagation, or (the model's bound) at MaxCommits. *)
Acted(v) ==
  LET c == call[v]
      direct == Put(loaded[v].direct, c)
      result == Simulate(direct, Effective(loaded[v]), c.target) IN
  IF result.refused \/ Len(loaded[v].history) > MaxCommits THEN Unlock(v)
  ELSE Save(v, [direct |-> direct, history |-> Append(loaded[v].history, result.effective)],
            Append(State(v).log, [target |-> c.target, effect |-> c.effect]))

(* Mutant: the actor sees the newest state, whatever its lag. *)
ObservedStep_NoLag(v) == Len(loaded[v].history) - 1

(* observe: step and lag give the step that is read. *)
ObservedStep(v) ==
  LET step == Len(loaded[v].history) - 1 IN IF step > Lag[v] THEN step - Lag[v] ELSE 0

(* Mutant: an operation that raises keeps the lock. *)
Work_KeepsLock(v) ==
  /\ call[v].at = "inside" /\ Done(v)
  /\ CASE view[v] = "closed" -> UNCHANGED <<states, kept, seen>>
       [] call[v].op = "actuate" -> Acted(v) /\ UNCHANGED <<kept, seen>>
       [] OTHER -> Unlock(v) /\ UNCHANGED <<kept, seen>>
  /\ loaded' = [loaded EXCEPT ![v] = Seed]
  /\ UNCHANGED <<registry, view, of>>

(* The operation inside the lock; it raises when the view is closed. *)
Work(v) ==
  /\ call[v].at = "inside" /\ Done(v)
  /\ CASE view[v] = "closed" -> Unlock(v) /\ UNCHANGED <<kept, seen>>
       [] call[v].op = "actuate" -> Acted(v) /\ UNCHANGED <<kept, seen>>
       [] call[v].op = "observe" -> /\ Unlock(v) /\ UNCHANGED kept
                                    /\ seen' = [seen EXCEPT ![v] = ObservedStep(v)]
       [] call[v].op = "checkpoint" -> /\ Unlock(v) /\ UNCHANGED seen
                                       /\ kept' = [kept EXCEPT ![v] = Snapshot(loaded[v], State(v).log)]
       [] OTHER -> Save(v, kept[v], kept[v].log) /\ UNCHANGED <<kept, seen>>
  /\ loaded' = [loaded EXCEPT ![v] = Seed]
  /\ UNCHANGED <<registry, view, of>>

Next ==
  \E v \in Views :
    \/ Materialize(v) \/ Teardown(v) \/ Rejoin(v)
    \/ Observe(v) \/ Checkpoint(v) \/ Restore(v)
    \/ \E a \in Assets, e \in Powers[v] : Actuate(v, a, e)
    \/ Enter(v) \/ Work(v)

(* The event loop runs every task that can go on, and the lock is fair. *)
Spec ==
  /\ Init /\ [][Next]_vars
  /\ \A v \in Views : SF_vars(Enter(v)) /\ WF_vars(Work(v))

-----------------------------------------------------------------------------
(* Properties *)

(* What the committed acts say each asset's own status is. *)
Replayed(log) ==
  LET direct[n \in 0..Len(log)] ==
        IF n = 0 THEN Initial ELSE Put(direct[n - 1], log[n])
  IN  direct[Len(log)]

(* Shared effects are never lost: the state is what the committed acts,    *)
(* of whichever actor, make of it, one step of history for each.           *)
NoCommittedEffectIsLost ==
  \A i \in DOMAIN states :
    /\ states[i].direct = Replayed(states[i].log)
    /\ Len(states[i].history) = Len(states[i].log) + 1

(* Dependency effects are complete: every asset that a committed act       *)
(* reached, or whose status in the catalogue agreed with those it requires *)
(* there, has the status that its own and its dependencies' give it.       *)
Settled(s, a) == Effective(s)[a] = Desired(a, s.direct, Effective(s))
Below(a) ==
  LET upTo[n \in 0..N] ==
        IF n = 0 THEN {a} ELSE upTo[n - 1] \cup UNION {Dependents(b) : b \in upTo[n - 1]}
  IN  upTo[N]
EffectiveIsAFixpoint ==
  \A i \in DOMAIN states : \A a \in Assets :
    Settled(Fresh, a) \/ (\E n \in DOMAIN states[i].log : a \in Below(states[i].log[n].target))
    => Settled(states[i], a)

(* Open views of the world share one state: it stays registered until the  *)
(* last of them is torn down.                                              *)
TheWorldIsShared ==
  \A v \in Views : view[v] = "open" => of[v] = registry

(* No commit changes more assets than the catalog allows. *)
Bounded(history) ==
  \A n \in 2..Len(history) :
    Cardinality({a \in Assets : history[n][a] # history[n - 1][a]}) <= MaxImpacted
ImpactIsBounded == \A i \in DOMAIN states : Bounded(states[i].history)

(* An actor with a lag never sees a step before it is old enough: until    *)
(* the next commit or restore, what it saw is Lag steps behind.            *)
SeesWithLag ==
  \A v \in Views : seen'[v] # seen[v] /\ seen'[v] # -1 =>
    seen'[v] + Lag[v] <= Len(State(v).history) - 1 \/ seen'[v] = 0

(* The inductive invariant behind these: shared states and checkpoints are *)
(* what their logs make of them, whoever is inside the lock works on what  *)
(* is still in the world, and the views of a state are counted.            *)
Follows(s) ==
  s.direct = Replayed(s.log) /\ Len(s.history) = Len(s.log) + 1 /\ Bounded(s.history)
LogsAreFollowed ==
  (\A i \in DOMAIN states : Follows(states[i])) /\ (\A v \in Views : Follows(kept[v]))
CallsAreBound ==
  \A v \in Views : /\ view[v] = "new" => call[v] = NoCall
                   /\ view[v] # "new" => of[v] # 0
                   /\ call[v].op = "actuate" => call[v].target \in Assets
InsideIsCurrent ==
  \A v \in Views : call[v].at = "inside" =>
    State(v).lock = v /\ loaded[v] = Content(State(v))
OpenAt(i) == {v \in Views : view[v] = "open" /\ of[v] = i}
ViewsAreCounted == \A i \in DOMAIN states : states[i].views = Cardinality(OpenAt(i))
WorldInvariant ==
  /\ TypeOK
  /\ LogsAreFollowed /\ CallsAreBound /\ InsideIsCurrent /\ ViewsAreCounted
  /\ TheWorldIsShared

(* What does not hold (README, section 5): a catalogue's statuses need not *)
(* agree with each other, and only what an act reaches is made to.         *)
EveryAssetIsSettled == \A i \in DOMAIN states : \A a \in Assets : Settled(states[i], a)

(* Every operation ends, also when views are torn down around it. *)
OperationsEnd == \A v \in Views : (call[v] # NoCall) ~> (call[v] = NoCall)
=============================================================================
