------------------------------ MODULE GymProofs -------------------------------
(***************************************************************************)
(* Proofs about the gyms, one part for each.  A part is about the instance *)
(* of its component with constants and variables that are only declared,   *)
(* so its theorems hold for every instance.                                *)
(***************************************************************************)
EXTENDS Integers, Sequences, FiniteSets, FiniteSetTheorems, SequenceTheorems,
        WellFoundedInduction, TLAPS

CONSTANTS
  None,
  N, Requires, Initial, Statuses, Views, Powers, Lag,      \* DependencyWorld
  MaxDepth, MaxEvents, MaxImpacted, MaxCommits, MaxStates,
  Retries, MaxStage, SregymOps,                            \* Sregym
  Envs, DirOf, ProcOf, TfOps, MaxActs, TfFaults,           \* TerraformApply
  Contexts, Target, Current, MaxGen, PodFaults,            \* PodReconciliation
  F2P, P2P, Malformed, MaxEvals, SweFaults,                \* SweGym
  CodeEnvs, Local, Origins, Files, Manifests, Commands,    \* Codebase
  Junk, SourceTree, CodeCommits, CodeFaults,
  Kind, Order, Inside, Values, AsText, Branches, Main, LocActs,    \* LocalProviders
  LocFaults,
  Methods, Names, Apis, Enforce, PageSizes, MaxRequests,   \* GcpSimulator
  MaxClock, Restores

VARIABLES
  states, registry, view, of, depCall, loaded, kept, seen, \* DependencyWorld
  main, kids, serving, stage, hit, phase, task, ready,     \* Sregym
  expired, log, why, reached, call, result,
  box, daemon, tf, tfEnv, inited, book, tfSaved, run,      \* TerraformApply
  acts, out, verdict,
  pod, gen, podEnv, at, podExpired, codes, was, want,      \* PodReconciliation
  podAnswer,
  sweEnv, pc, container, late, refused, state, swePoint,   \* SweGym
  base, fixed, after, baseFailed, f2pPassed, raising,
  ending, evals, graded,
  commits, source, env, points, answer,                    \* Codebase
  locEnv, held, dirs, index, trees, heads, branch, point,  \* LocalProviders
  last, before, locActs,
  w, saved, left, pager                                    \* GcpSimulator

D == INSTANCE DependencyWorld WITH call <- depCall
S == INSTANCE Sregym WITH Ops <- SregymOps
T == INSTANCE TerraformApply WITH
       Ops <- TfOps, Faults <- TfFaults, env <- tfEnv, saved <- tfSaved
P == INSTANCE PodReconciliation WITH
       Faults <- PodFaults, env <- podEnv, expired <- podExpired, answer <- podAnswer
E == INSTANCE SweGym WITH Faults <- SweFaults, env <- sweEnv, point <- swePoint
C == INSTANCE Codebase WITH
       Envs <- CodeEnvs, MaxCommits <- CodeCommits, Faults <- CodeFaults
L == INSTANCE LocalProviders WITH
       MaxActs <- LocActs, Faults <- LocFaults,
       env <- locEnv, commits <- trees, was <- before, acts <- locActs
G == INSTANCE GcpSimulator

-----------------------------------------------------------------------------
(* A set that holds zero and every successor holds every number. *)
LEMMA NatSets ==
  ASSUME NEW X, 0 \in X, \A n \in Nat : n \in X => n + 1 \in X
  PROVE  Nat \subseteq X
<1> DEFINE R == OpToRel(<, Nat)
<1> DEFINE Y == Nat \ X
<1>1. IsWellFoundedOn(R, Nat)
  BY NatLessThanWellFounded
<1>2. \A x, y \in Nat : x < y => <<x, y>> \in R
  BY DEF OpToRel
<1> HIDE DEF R
<1> SUFFICES ASSUME Y # {}
             PROVE  FALSE
  OBVIOUS
<1>3. PICK x \in Y : \A y \in Y : ~ (<<y, x>> \in R)
  <2>1. Y \subseteq Nat
    OBVIOUS
  <2> HIDE DEF Y
  <2> QED
    BY <1>1, <2>1, WFMin
<1>4. x # 0 /\ x \in Nat /\ x - 1 \in Nat /\ x - 1 < x
  BY <1>3
<1>5. x - 1 \notin Y
  BY <1>2, <1>3, <1>4
<1>6. x - 1 + 1 = x
  BY <1>4
<1> QED
  BY <1>3, <1>4, <1>5, <1>6

(* Finiteness and size mean the same in every instance. *)
LEMMA SameFinite == \A X : D!IsFiniteSet(X) = IsFiniteSet(X)
  BY DEF D!IsFiniteSet, IsFiniteSet
(* ... and of a set's size. *)
LEMMA SameCardinality == \A X : D!Cardinality(X) = Cardinality(X)
  BY DEF D!Cardinality, Cardinality

-----------------------------------------------------------------------------
(* Dependency worlds: what a trail of acts makes of the assets *)

(* f is the turn by turn course of a trail's first n acts. *)
ReplaysTo(f, n, trail) ==
  f = [m \in 0..n |-> IF m = 0 THEN Initial
                      ELSE D!Put(f[m - 1], trail[m])]

(* What ReplaysTo says of each index. *)
LEMMA ReplayValues ==
  ASSUME NEW f, NEW n \in Nat, NEW trail, ReplaysTo(f, n, trail)
  PROVE  /\ f[0] = Initial
         /\ \A m \in 1..n : f[m] = D!Put(f[m - 1], trail[m])
  BY DEF ReplaysTo

(* A function with these values is such a course. *)
LEMMA ReplayFromValues ==
  ASSUME NEW f, NEW n \in Nat, NEW trail, f = [m \in 0..n |-> f[m]], f[0] = Initial,
         \A m \in 1..n : f[m] = D!Put(f[m - 1], trail[m])
  PROVE  ReplaysTo(f, n, trail)
<1> DEFINE g == [m \in 0..n |-> IF m = 0 THEN Initial
                        ELSE D!Put(f[m - 1], trail[m])]
<1>1. \A m \in 0..n : f[m] = g[m]
  <2> SUFFICES ASSUME NEW m \in 0..n
               PROVE  f[m] = g[m]
    OBVIOUS
  <2>1. m = 0 \/ m \in 1..n
    OBVIOUS
  <2> QED
    BY <2>1
<1>2. f = g
  BY <1>1
<1> QED
  BY <1>2 DEF ReplaysTo

(* The course of every trail exists. *)
LEMMA ReplayExists ==
  ASSUME NEW trail
  PROVE  \A n \in Nat : \E f : ReplaysTo(f, n, trail)
<1> DEFINE X == {n \in Nat : \E f : ReplaysTo(f, n, trail)}
<1>1. 0 \in X
  <2> DEFINE f == [m \in 0..0 |-> Initial]
  <2>1. /\ f = [m \in 0..0 |-> f[m]] /\ f[0] = Initial
        /\ \A m \in 1..0 : f[m] = D!Put(f[m - 1], trail[m])
    OBVIOUS
  <2> HIDE DEF f
  <2>2. ReplaysTo(f, 0, trail)
    BY <2>1, ReplayFromValues
  <2> QED
    BY <2>2
<1>2. ASSUME NEW n \in Nat, n \in X
      PROVE  n + 1 \in X
  <2>1. PICK f : ReplaysTo(f, n, trail)
    BY <1>2
  <2> DEFINE g == [m \in 0..(n + 1) |->
                     IF m = n + 1 THEN D!Put(f[n], trail[n + 1])
                     ELSE f[m]]
  <2>2. /\ f[0] = Initial
        /\ \A m \in 1..n : f[m] = D!Put(f[m - 1], trail[m])
    BY <2>1, ReplayValues
  <2>3. g = [m \in 0..(n + 1) |-> g[m]] /\ \A m \in 0..n : g[m] = f[m]
    OBVIOUS
  <2>4. g[n + 1] = D!Put(f[n], trail[n + 1])
    OBVIOUS
  <2> HIDE DEF g
  <2>5. \A m \in 1..(n + 1) : g[m] = D!Put(g[m - 1], trail[m])
    <3> SUFFICES ASSUME NEW m \in 1..(n + 1)
                 PROVE  g[m] = D!Put(g[m - 1], trail[m])
      OBVIOUS
    <3>1. CASE m = n + 1
      <4>1. m - 1 = n /\ g[n] = f[n]
        BY <2>3, <3>1
      <4> QED
        BY <2>4, <3>1, <4>1
    <3>2. CASE m \in 1..n
      <4>1. m - 1 \in 0..n /\ m \in 0..n
        BY <3>2
      <4> QED
        BY <2>2, <2>3, <3>2, <4>1
    <3> QED
      BY <3>1, <3>2
  <2>6. g[0] = Initial /\ n + 1 \in Nat
    <3>1. 0 \in 0..n
      OBVIOUS
    <3> QED
      BY <2>2, <2>3, <3>1
  <2>7. ReplaysTo(g, n + 1, trail)
    BY <2>3, <2>5, <2>6, ReplayFromValues
  <2> QED
    BY <2>7
<1>3. \A n \in Nat : n \in X => n + 1 \in X
  BY <1>2
<1> HIDE DEF X
<1>4. Nat \subseteq X
  BY <1>1, <1>3, NatSets
<1> QED
  BY <1>4 DEF X

(* Two logs that begin alike have courses that do. *)
LEMMA ReplayAgrees ==
  ASSUME NEW f, NEW g, NEW l1, NEW l2, NEW n \in Nat, NEW k \in Nat, n <= k,
         ReplaysTo(f, n, l1), ReplaysTo(g, k, l2), \A m \in 1..n : l1[m] = l2[m]
  PROVE  f[n] = g[n]
<1> DEFINE X == {m \in Nat : m <= n => f[m] = g[m]}
<1>1. 0 \in X
  BY ReplayValues
<1>2. ASSUME NEW m \in Nat, m \in X
      PROVE  m + 1 \in X
  <2> SUFFICES ASSUME m + 1 <= n
               PROVE  f[m + 1] = g[m + 1]
    OBVIOUS
  <2>1. f[m] = g[m] /\ m + 1 \in 1..n /\ m + 1 \in 1..k /\ (m + 1) - 1 = m
    BY <1>2
  <2>2. f[m + 1] = D!Put(f[m], l1[m + 1])
    BY <2>1, ReplayValues
  <2>3. g[m + 1] = D!Put(g[m], l2[m + 1])
    BY <2>1, ReplayValues
  <2> QED
    BY <2>1, <2>2, <2>3
<1>3. \A m \in Nat : m \in X => m + 1 \in X
  BY <1>2
<1> HIDE DEF X
<1>4. Nat \subseteq X
  BY <1>1, <1>3, NatSets
<1> QED
  BY <1>4 DEF X

(* Replayed is the end of the course. *)
LEMMA ReplayedIsTheEnd ==
  ASSUME NEW trail, Len(trail) \in Nat
  PROVE  \E f : ReplaysTo(f, Len(trail), trail) /\ D!Replayed(trail) = f[Len(trail)]
<1> DEFINE c == CHOOSE f : ReplaysTo(f, Len(trail), trail)
<1>1. ReplaysTo(c, Len(trail), trail)
  BY ReplayExists
<1>2. D!Replayed(trail) = c[Len(trail)]
  BY DEF D!Replayed, ReplaysTo
<1> QED
  BY <1>1, <1>2

(* The empty trail leaves every asset healthy. *)
LEMMA NothingReplayed == D!Replayed(<< >>) = Initial
<1>1. Len(<< >>) = 0
  OBVIOUS
<1>2. PICK f : ReplaysTo(f, 0, << >>) /\ D!Replayed(<< >>) = f[0]
  BY <1>1, ReplayedIsTheEnd
<1> QED
  BY <1>2, ReplayValues

(* One more act sets the status of its target. *)
LEMMA OneMoreReplayed ==
  ASSUME NEW X, NEW trail \in Seq(X), NEW e \in X
  PROVE  D!Replayed(Append(trail, e)) = D!Put(D!Replayed(trail), e)
<1> DEFINE n == Len(trail)
<1> DEFINE l == Append(trail, e)
<1>1. n \in Nat /\ Len(l) = n + 1 /\ l[n + 1] = e /\ \A m \in 1..n : trail[m] = l[m]
  BY AppendProperties
<1> HIDE DEF l, n
<1>2. PICK f : ReplaysTo(f, n, trail) /\ D!Replayed(trail) = f[n]
  BY <1>1, ReplayedIsTheEnd DEF n
<1>3. PICK g : ReplaysTo(g, n + 1, l) /\ D!Replayed(l) = g[n + 1]
  BY <1>1, ReplayedIsTheEnd
<1>4. n + 1 \in Nat /\ n <= n + 1 /\ n + 1 \in 1..(n + 1) /\ (n + 1) - 1 = n
  BY <1>1
<1>5. f[n] = g[n]
  BY <1>1, <1>2, <1>3, <1>4, ReplayAgrees
<1>6. g[n + 1] = D!Put(g[n], e)
  BY <1>1, <1>3, <1>4, ReplayValues
<1> QED
  BY <1>2, <1>3, <1>5, <1>6 DEF l

-----------------------------------------------------------------------------
(* Dependency worlds: what propagation changes *)

(* f is the turn by turn course of the loop of _simulate. *)
Propagates(f, n, direct, effective, target) ==
  f = [m \in 0..n |-> IF m = 0 THEN D!Start(effective, target) ELSE D!Advance(f[m - 1], direct)]

(* What Propagates says of each index. *)
LEMMA PropagationValues ==
  ASSUME NEW f, NEW n \in Nat, NEW direct, NEW effective, NEW target,
         Propagates(f, n, direct, effective, target)
  PROVE  /\ f[0] = D!Start(effective, target)
         /\ \A m \in 1..n : f[m] = D!Advance(f[m - 1], direct)
  BY DEF Propagates

(* A function with these values is such a course. *)
LEMMA PropagationFromValues ==
  ASSUME NEW f, NEW n \in Nat, NEW direct, NEW effective, NEW target,
         f = [m \in 0..n |-> f[m]], f[0] = D!Start(effective, target),
         \A m \in 1..n : f[m] = D!Advance(f[m - 1], direct)
  PROVE  Propagates(f, n, direct, effective, target)
<1> DEFINE g == [m \in 0..n |-> IF m = 0 THEN D!Start(effective, target)
                                ELSE D!Advance(f[m - 1], direct)]
<1>1. \A m \in 0..n : f[m] = g[m]
  <2> SUFFICES ASSUME NEW m \in 0..n
               PROVE  f[m] = g[m]
    OBVIOUS
  <2>1. m = 0 \/ m \in 1..n
    OBVIOUS
  <2> QED
    BY <2>1
<1>2. f = g
  BY <1>1
<1> QED
  BY <1>2 DEF Propagates

(* The course of the loop exists. *)
LEMMA PropagationExists ==
  ASSUME NEW direct, NEW effective, NEW target
  PROVE  \A n \in Nat : \E f : Propagates(f, n, direct, effective, target)
<1> DEFINE X == {n \in Nat : \E f : Propagates(f, n, direct, effective, target)}
<1>1. 0 \in X
  <2> DEFINE f == [m \in 0..0 |-> D!Start(effective, target)]
  <2>1. /\ f = [m \in 0..0 |-> f[m]] /\ f[0] = D!Start(effective, target)
        /\ \A m \in 1..0 : f[m] = D!Advance(f[m - 1], direct)
    OBVIOUS
  <2> HIDE DEF f
  <2>2. Propagates(f, 0, direct, effective, target)
    BY <2>1, PropagationFromValues
  <2> QED
    BY <2>2
<1>2. ASSUME NEW n \in Nat, n \in X
      PROVE  n + 1 \in X
  <2>1. PICK f : Propagates(f, n, direct, effective, target)
    BY <1>2
  <2> DEFINE g == [m \in 0..(n + 1) |-> IF m = n + 1 THEN D!Advance(f[n], direct) ELSE f[m]]
  <2>2. /\ f[0] = D!Start(effective, target)
        /\ \A m \in 1..n : f[m] = D!Advance(f[m - 1], direct)
    BY <2>1, PropagationValues
  <2>3. g = [m \in 0..(n + 1) |-> g[m]] /\ \A m \in 0..n : g[m] = f[m]
    OBVIOUS
  <2>4. g[n + 1] = D!Advance(f[n], direct)
    OBVIOUS
  <2> HIDE DEF g
  <2>5. \A m \in 1..(n + 1) : g[m] = D!Advance(g[m - 1], direct)
    <3> SUFFICES ASSUME NEW m \in 1..(n + 1)
                 PROVE  g[m] = D!Advance(g[m - 1], direct)
      OBVIOUS
    <3>1. CASE m = n + 1
      <4>1. m - 1 = n /\ g[n] = f[n]
        BY <2>3, <3>1
      <4> QED
        BY <2>4, <3>1, <4>1
    <3>2. CASE m \in 1..n
      <4>1. m - 1 \in 0..n /\ m \in 0..n
        BY <3>2
      <4> QED
        BY <2>2, <2>3, <3>2, <4>1
    <3> QED
      BY <3>1, <3>2
  <2>6. g[0] = D!Start(effective, target) /\ n + 1 \in Nat
    BY <2>2, <2>3
  <2>7. Propagates(g, n + 1, direct, effective, target)
    BY <2>3, <2>5, <2>6, PropagationFromValues
  <2> QED
    BY <2>7
<1>3. \A n \in Nat : n \in X => n + 1 \in X
  BY <1>2
<1> HIDE DEF X
<1>4. Nat \subseteq X
  BY <1>1, <1>3, NatSets
<1> QED
  BY <1>4 DEF X

(* What a turn keeps: statuses are typed, what differs from the statuses   *)
(* before is among the changed assets, which are few unless it raises.     *)
WithinBounds(s, effective) ==
  /\ s.effective \in D!Standing /\ s.refused \in BOOLEAN /\ IsFiniteSet(s.changed)
  /\ \A a \in D!Assets : s.effective[a] # effective[a] => a \in s.changed
  /\ s.refused \/ Cardinality(s.changed) <= MaxImpacted

(* The loop begins within its bounds. *)
LEMMA StartIsWithinBounds ==
  ASSUME D!DependencyAssumption, NEW effective \in D!Standing, NEW target
  PROVE  WithinBounds(D!Start(effective, target), effective)
<1>1. IsFiniteSet({}) /\ Cardinality({}) = 0
  BY FS_EmptySet
<1>2. MaxImpacted \in Nat
  BY DEF D!DependencyAssumption
<1> QED
  BY <1>1, <1>2 DEF WithinBounds, D!Start

(* One turn stays within them, whichever asset is at the head. *)
LEMMA TurnIsWithinBounds ==
  ASSUME D!DependencyAssumption, NEW s, NEW direct \in D!Standing, NEW effective \in D!Standing,
         WithinBounds(s, effective), ~s.refused
  PROVE  WithinBounds(D!Turn(s, direct), effective)
<1> DEFINE a == Head(s.queue)
<1> DEFINE goal == D!Desired(a, direct, s.effective)
<1> DEFINE moved == s.effective[a] # goal
<1> DEFINE changed == IF moved THEN s.changed \cup {a} ELSE s.changed
<1> DEFINE t == D!Turn(s, direct)
<1>1. /\ t.effective = [s.effective EXCEPT ![a] = goal] /\ t.changed = changed
      /\ t.refused \in BOOLEAN
      /\ ~t.refused => ~moved \/ ~(Cardinality(changed) > MaxImpacted)
  BY SameCardinality DEF D!Turn
<1>2. a \in D!Assets => goal \in D!Status
  BY DEF D!Desired, D!Standing, D!Status
<1>3. IsFiniteSet(changed) /\ Cardinality(changed) \in Nat /\ MaxImpacted \in Nat
  BY FS_AddElement, FS_CardinalityType DEF WithinBounds, D!DependencyAssumption
<1> HIDE DEF a, goal, t
<1>4. t.effective \in D!Standing
  BY <1>1, <1>2 DEF WithinBounds, D!Standing
<1>5. \A b \in D!Assets : t.effective[b] # effective[b] => b \in t.changed
  BY <1>1 DEF WithinBounds, D!Standing
<1>6. t.refused \/ Cardinality(t.changed) <= MaxImpacted
  BY <1>1, <1>3 DEF WithinBounds
<1> QED
  BY <1>1, <1>3, <1>4, <1>5, <1>6 DEF WithinBounds, t

(* An act that is not refused changes at most MaxImpacted assets. *)
LEMMA SimulateIsBounded ==
  ASSUME D!DependencyAssumption, NEW direct \in D!Standing, NEW effective \in D!Standing, NEW target
  PROVE  LET r == D!Simulate(direct, effective, target) IN
         /\ r.effective \in D!Standing /\ r.refused \in BOOLEAN
         /\ ~r.refused => Cardinality({a \in D!Assets : r.effective[a] # effective[a]})
                        <= MaxImpacted
<1> DEFINE f == CHOOSE f : Propagates(f, N, direct, effective, target)
<1> DEFINE r == D!Simulate(direct, effective, target)
<1>1. N \in Nat /\ MaxImpacted \in Nat
  BY DEF D!DependencyAssumption
<1>2. Propagates(f, N, direct, effective, target)
  BY <1>1, PropagationExists
<1>3. r = f[N]
  BY DEF D!Simulate, Propagates
<1> HIDE DEF f, r
<1> DEFINE X == {n \in Nat : n <= N => WithinBounds(f[n], effective)}
<1>4. 0 \in X
  BY <1>1, <1>2, PropagationValues, StartIsWithinBounds
<1>5. ASSUME NEW n \in Nat, n \in X
      PROVE  n + 1 \in X
  <2> SUFFICES ASSUME n + 1 <= N
               PROVE  WithinBounds(f[n + 1], effective)
    OBVIOUS
  <2>1. WithinBounds(f[n], effective) /\ n + 1 \in 1..N /\ (n + 1) - 1 = n
    BY <1>1, <1>5
  <2>2. f[n + 1] = D!Advance(f[n], direct)
    BY <1>1, <1>2, <2>1, PropagationValues
  <2>3. CASE f[n].queue = << >> \/ f[n].refused
    BY <2>1, <2>2, <2>3 DEF D!Advance
  <2>4. CASE ~(f[n].queue = << >> \/ f[n].refused)
    <3>1. f[n + 1] = D!Turn(f[n], direct)
      BY <2>2, <2>4 DEF D!Advance
    <3> QED
      BY <2>1, <2>4, <3>1, TurnIsWithinBounds
  <2> QED
    BY <2>3, <2>4
<1>6. \A n \in Nat : n \in X => n + 1 \in X
  BY <1>5
<1> HIDE DEF X
<1>7. Nat \subseteq X
  BY <1>4, <1>6, NatSets
<1>8. WithinBounds(r, effective)
  BY <1>1, <1>3, <1>7 DEF X
<1>9. ASSUME ~r.refused
      PROVE  Cardinality({a \in D!Assets : r.effective[a] # effective[a]}) <= MaxImpacted
  <2> DEFINE Z == {a \in D!Assets : r.effective[a] # effective[a]}
  <2>1. Z \subseteq r.changed /\ IsFiniteSet(r.changed) /\ Cardinality(r.changed) <= MaxImpacted
    BY <1>8, <1>9 DEF WithinBounds
  <2> HIDE DEF Z
  <2>2. IsFiniteSet(Z) /\ Cardinality(Z) <= Cardinality(r.changed)
    BY <2>1, FS_Subset
  <2>3. Cardinality(Z) \in Nat /\ Cardinality(r.changed) \in Nat
    BY <2>1, <2>2, FS_CardinalityType
  <2> QED
    BY <1>1, <2>1, <2>2, <2>3 DEF Z
<1> QED
  BY <1>8, <1>9 DEF WithinBounds, r

-----------------------------------------------------------------------------
(* Dependency worlds: the shared states *)

(* The types of the shared states, and those of the views. *)
SharedTypes ==
  /\ states \in Seq(D!Shared) /\ Len(states) <= MaxStates
  /\ \A i \in DOMAIN states : Len(states[i].history) \in 1..(MaxCommits + 1)
ViewTypes ==
  /\ registry \in 0..Len(states)
  /\ view \in [Views -> {"new", "open", "closed"}] /\ of \in [Views -> 0..Len(states)]
  /\ depCall \in [Views -> D!Calls] /\ loaded \in [Views -> D!Contents]
  /\ kept \in [Views -> D!Snapshots] /\ seen \in [Views -> Nat \cup {-1}]
  /\ \A v \in Views : Len(kept[v].history) \in 1..(MaxCommits + 1)

(* Together they are TypeOK. *)
LEMMA WorldTypes == D!TypeOK <=> SharedTypes /\ ViewTypes
  BY DEF D!TypeOK, SharedTypes, ViewTypes

(* One state is replaced by another. *)
LEMMA OneReplaced ==
  ASSUME SharedTypes, NEW i \in DOMAIN states, NEW x \in D!Shared,
         Len(x.history) \in 1..(MaxCommits + 1), states' = [states EXCEPT ![i] = x]
  PROVE  /\ SharedTypes' /\ Len(states') = Len(states) /\ DOMAIN states' = DOMAIN states
         /\ states'[i] = x /\ \A j \in DOMAIN states : j # i => states'[j] = states[j]
<1>1. states \in Seq(D!Shared) /\ i \in 1..Len(states) /\ DOMAIN states = 1..Len(states)
  BY DEF SharedTypes
<1>2. /\ states' \in Seq(D!Shared) /\ Len(states') = Len(states)
      /\ states'[i] = x /\ \A j \in DOMAIN states : j # i => states'[j] = states[j]
  BY <1>1, ExceptSeq
<1>3. DOMAIN states' = 1..Len(states')
  BY <1>2
<1> QED
  BY <1>1, <1>2, <1>3 DEF SharedTypes

(* The fields of a shared state are typed. *)
LEMMA SharedFields ==
  ASSUME SharedTypes, NEW i \in DOMAIN states
  PROVE  /\ states[i] \in D!Shared
         /\ states[i].direct \in D!Standing /\ states[i].history \in Seq(D!Standing)
         /\ states[i].log \in Seq(D!Acts) /\ states[i].views \in 0..D!Cardinality(Views)
         /\ states[i].lock \in Views \cup {"free"}
         /\ Len(states[i].history) \in 1..(MaxCommits + 1)
<1>1. states[i] \in D!Shared
  BY DEF SharedTypes
<1> QED
  BY <1>1 DEF D!Shared, SharedTypes

(* The open views of a state are finitely many. *)
LEMMA OpenViews ==
  ASSUME D!DependencyAssumption, NEW i
  PROVE  /\ IsFiniteSet(D!OpenAt(i)) /\ Cardinality(D!OpenAt(i)) \in 0..Cardinality(Views)
         /\ IsFiniteSet(D!OpenAt(i)') /\ Cardinality(D!OpenAt(i)') \in 0..Cardinality(Views)
<1>1. IsFiniteSet(Views)
  BY SameFinite DEF D!DependencyAssumption
<1>2. D!OpenAt(i) \subseteq Views /\ D!OpenAt(i)' \subseteq Views
  BY DEF D!OpenAt
<1>3. \A X \in SUBSET Views : IsFiniteSet(X) /\ Cardinality(X) \in 0..Cardinality(Views)
  <2> SUFFICES ASSUME NEW X \in SUBSET Views
               PROVE  IsFiniteSet(X) /\ Cardinality(X) \in 0..Cardinality(Views)
    OBVIOUS
  <2>1. IsFiniteSet(X) /\ Cardinality(X) <= Cardinality(Views)
    BY <1>1, FS_Subset
  <2>2. Cardinality(X) \in Nat /\ Cardinality(Views) \in Nat
    BY <1>1, <2>1, FS_CardinalityType
  <2> QED
    BY <2>1, <2>2
<1> QED
  BY <1>2, <1>3

(* What a checkpoint or a state says of its trail is in its three fields. *)
LEMMA FollowsByFields ==
  ASSUME NEW s, NEW t, s.direct = t.direct, s.history = t.history, s.log = t.log
  PROVE  D!Follows(s) <=> D!Follows(t)
  BY DEF D!Follows

(* Where the contents stay, what they follow stays. *)
LEMMA LogsStay ==
  ASSUME D!LogsAreFollowed, DOMAIN states' = DOMAIN states,
         \A i \in DOMAIN states : /\ states'[i].direct = states[i].direct
                                  /\ states'[i].history = states[i].history
                                  /\ states'[i].log = states[i].log,
         \A v \in Views : kept'[v] = kept[v]
  PROVE  D!LogsAreFollowed'
<1>1. \A i \in DOMAIN states : D!Follows(states'[i])
  BY FollowsByFields DEF D!LogsAreFollowed
<1> QED
  BY <1>1 DEF D!LogsAreFollowed, D!Follows

(* A step that touches the world of its own view only, of which it keeps   *)
(* views and, unless the view works inside, also lock and content.         *)
LEMMA OthersStayInside ==
  ASSUME D!InsideIsCurrent,
         \A u \in Views : depCall'[u].at = "inside" =>
           /\ depCall[u].at = "inside" /\ of'[u] = of[u] /\ loaded'[u] = loaded[u]
           /\ states'[of[u]].lock = states[of[u]].lock
           /\ states'[of[u]].direct = states[of[u]].direct
           /\ states'[of[u]].history = states[of[u]].history
  PROVE  D!InsideIsCurrent'
  BY DEF D!InsideIsCurrent, D!State, D!Content

(* A view inside is of some state. *)
LEMMA CallersHaveStates ==
  ASSUME ViewTypes, SharedTypes, D!CallsAreBound, NEW v \in Views, depCall[v].at # "idle"
  PROVE  /\ view[v] \in {"open", "closed"} /\ of[v] \in DOMAIN states
         /\ D!State(v) = states[of[v]]
<1>1. depCall[v] # D!NoCall
  BY DEF D!NoCall
<1>2. view[v] # "new" /\ of[v] # 0
  BY <1>1 DEF D!CallsAreBound
<1> QED
  BY <1>2 DEF ViewTypes, SharedTypes, D!State

(* Nothing has been committed: the state a world or a checkpoint begins in.*)
LEMMA FreshFollows ==
  ASSUME D!DependencyAssumption
  PROVE  /\ D!Follows(D!Fresh) /\ D!Follows(D!Snapshot(D!Seed, << >>))
         /\ Initial \in D!Standing /\ D!Snapshot(D!Seed, << >>) \in D!Snapshots
         /\ D!Seed \in D!Contents
         /\ \A k \in 0..Cardinality(Views) : [D!Fresh EXCEPT !.views = k] \in D!Shared
         /\ Len(D!Snapshot(D!Seed, << >>).history) \in 1..(MaxCommits + 1)
         /\ Len(D!Fresh.history) \in 1..(MaxCommits + 1)
<1>1. Initial \in D!Standing
  BY DEF D!DependencyAssumption, D!Standing, D!Status, D!Assets
<1>2. <<Initial>> \in Seq(D!Standing) /\ Len(<<Initial>>) = 1 /\ << >> \in Seq(D!Acts)
      /\ Len(<< >>) = 0
  BY <1>1
<1>3. MaxCommits \in Nat /\ D!Cardinality(Views) \in Nat
  BY SameFinite, SameCardinality, FS_CardinalityType DEF D!DependencyAssumption
<1>4. D!Bounded(<<Initial>>)
  BY <1>2 DEF D!Bounded
<1>5. D!Follows(D!Fresh)
  BY <1>2, <1>4, NothingReplayed DEF D!Follows, D!Fresh
<1>6. D!Follows(D!Snapshot(D!Seed, << >>))
  BY <1>2, <1>4, NothingReplayed DEF D!Follows, D!Snapshot, D!Seed
<1>7. D!Snapshot(D!Seed, << >>) \in D!Snapshots /\ D!Seed \in D!Contents
  BY <1>1, <1>2 DEF D!Snapshot, D!Seed, D!Snapshots, D!Contents
<1>8. ASSUME NEW k \in 0..Cardinality(Views)
      PROVE  [D!Fresh EXCEPT !.views = k] \in D!Shared
  <2>1. [D!Fresh EXCEPT !.views = k] =
          [direct |-> Initial, history |-> <<Initial>>, log |-> << >>, views |-> k,
           lock |-> "free"]
    BY DEF D!Fresh
  <2>2. k \in 0..D!Cardinality(Views)
    BY SameCardinality
  <2> QED
    BY <1>1, <1>2, <2>1, <2>2 DEF D!Shared
<1>9. /\ Len(D!Snapshot(D!Seed, << >>).history) \in 1..(MaxCommits + 1)
      /\ Len(D!Fresh.history) \in 1..(MaxCommits + 1)
  BY <1>2, <1>3 DEF D!Snapshot, D!Seed, D!Fresh
<1> QED
  BY <1>1, <1>5, <1>6, <1>7, <1>8, <1>9

(* The parts of WorldInvariant, for a step of the view v. *)
LEMMA WorldParts ==
  ASSUME D!WorldInvariant
  PROVE  /\ SharedTypes /\ ViewTypes /\ D!LogsAreFollowed /\ D!CallsAreBound
         /\ D!InsideIsCurrent /\ D!ViewsAreCounted /\ D!TheWorldIsShared
  BY WorldTypes DEF D!WorldInvariant

(* And for the state after it. *)
LEMMA WorldFromParts ==
  SharedTypes' /\ ViewTypes' /\ D!LogsAreFollowed' /\ D!CallsAreBound'
  /\ D!InsideIsCurrent' /\ D!ViewsAreCounted' /\ D!TheWorldIsShared'
    => D!WorldInvariant'
  BY DEF D!WorldInvariant, D!TypeOK, SharedTypes, ViewTypes

(* It holds at the beginning. *)
LEMMA WorldBegins ==
  ASSUME D!DependencyAssumption, D!Init
  PROVE  D!WorldInvariant
<1>1. SharedTypes /\ DOMAIN states = {}
  BY DEF D!Init, SharedTypes, D!DependencyAssumption
<1>2. D!NoCall \in D!Calls
  BY DEF D!NoCall, D!Calls, D!DependencyAssumption
<1>3. ViewTypes
  BY <1>2, FreshFollows DEF D!Init, ViewTypes
<1>4. D!LogsAreFollowed
  BY <1>1, FreshFollows DEF D!Init, D!LogsAreFollowed
<1>5. D!CallsAreBound /\ D!InsideIsCurrent
  BY DEF D!Init, D!CallsAreBound, D!InsideIsCurrent, D!NoCall
<1>6. D!ViewsAreCounted /\ D!TheWorldIsShared
  BY <1>1 DEF D!Init, D!ViewsAreCounted, D!TheWorldIsShared
<1> QED
  BY <1>1, <1>3, <1>4, <1>5, <1>6, WorldTypes DEF D!WorldInvariant

(* Rejoin: the client of a closed view may open a new one. *)
LEMMA RejoinKeepsWorld ==
  ASSUME D!DependencyAssumption, D!WorldInvariant, NEW v \in Views, D!Rejoin(v)
  PROVE  D!WorldInvariant'
<1> USE WorldParts
<1>1. /\ UNCHANGED <<states, registry, of, depCall, loaded>> /\ view[v] = "closed"
      /\ view' = [view EXCEPT ![v] = "new"] /\ depCall[v] = D!NoCall
      /\ kept' = [kept EXCEPT ![v] = D!Snapshot(D!Seed, << >>)]
      /\ seen' = [seen EXCEPT ![v] = -1]
  BY DEF D!Rejoin
<1>2. SharedTypes'
  BY <1>1 DEF SharedTypes
<1>3. ViewTypes'
  BY <1>1, FreshFollows DEF ViewTypes
<1>4. D!LogsAreFollowed'
  <2>1. \A u \in Views : D!Follows(kept'[u])
    <3> TAKE u \in Views
    <3>1. kept'[u] = kept[u] \/ kept'[u] = D!Snapshot(D!Seed, << >>)
      BY <1>1 DEF ViewTypes
    <3> QED
      BY <3>1, FreshFollows DEF D!LogsAreFollowed
  <2> QED
    BY <1>1, <2>1 DEF D!LogsAreFollowed, D!Follows
<1>5. D!CallsAreBound'
  BY <1>1 DEF D!CallsAreBound, ViewTypes
<1>6. D!InsideIsCurrent'
  BY <1>1 DEF D!InsideIsCurrent, D!State, D!Content
<1>7. D!ViewsAreCounted' /\ D!TheWorldIsShared'
  <2>1. \A i \in DOMAIN states : D!OpenAt(i)' = D!OpenAt(i)
    BY <1>1 DEF D!OpenAt, ViewTypes
  <2> QED
    BY <1>1, <2>1 DEF D!ViewsAreCounted, D!TheWorldIsShared, ViewTypes
<1> QED
  BY <1>2, <1>3, <1>4, <1>5, <1>6, <1>7, WorldFromParts

(* Begin: an operation of an open view waits for the lock. *)
LEMMA BeginKeepsWorld ==
  ASSUME D!DependencyAssumption, D!WorldInvariant, NEW v \in Views, NEW c \in D!Calls,
         D!Begin(v, c), c.at = "waiting", c.op = "actuate" => c.target \in D!Assets
  PROVE  D!WorldInvariant'
<1> USE WorldParts
<1>1. /\ UNCHANGED <<states, registry, view, of, loaded, kept>> /\ view[v] = "open"
      /\ depCall' = [depCall EXCEPT ![v] = c] /\ seen' = [seen EXCEPT ![v] = -1]
  BY DEF D!Begin
<1>2. SharedTypes'
  BY <1>1 DEF SharedTypes
<1>3. ViewTypes'
  BY <1>1 DEF ViewTypes
<1>4. D!LogsAreFollowed'
  BY <1>1, LogsStay
<1>5. D!CallsAreBound'
  BY <1>1 DEF D!CallsAreBound, ViewTypes
<1>6. D!InsideIsCurrent'
  BY <1>1 DEF D!InsideIsCurrent, D!State, D!Content, ViewTypes
<1>7. D!ViewsAreCounted' /\ D!TheWorldIsShared'
  BY <1>1 DEF D!ViewsAreCounted, D!OpenAt, D!TheWorldIsShared
<1> QED
  BY <1>2, <1>3, <1>4, <1>5, <1>6, <1>7, WorldFromParts

(* Done: the view has no call any more. *)
LEMMA NothingToDo ==
  ASSUME D!DependencyAssumption
  PROVE  /\ D!NoCall \in D!Calls /\ D!NoCall.at = "idle" /\ D!NoCall.op = "none"
  BY DEF D!NoCall, D!Calls, D!DependencyAssumption

(* Enter: the lock is taken and the state loaded, or the view is closed. *)
LEMMA EnterKeepsWorld ==
  ASSUME D!DependencyAssumption, D!WorldInvariant, NEW v \in Views, D!Enter(v)
  PROVE  D!WorldInvariant'
<1> USE WorldParts, NothingToDo
<1>1. /\ depCall[v].at = "waiting" /\ D!State(v).lock = "free"
      /\ UNCHANGED <<registry, view, of, kept, seen>>
  BY DEF D!Enter
<1>2. of[v] \in DOMAIN states /\ D!State(v) = states[of[v]] /\ view[v] \in {"open", "closed"}
  BY <1>1, CallersHaveStates
<1>3. CASE view[v] = "closed"
  <2>1. UNCHANGED <<states, loaded>> /\ depCall' = [depCall EXCEPT ![v] = D!NoCall]
    BY <1>3 DEF D!Enter, D!Done
  <2>2. SharedTypes' /\ ViewTypes'
    BY <1>1, <2>1 DEF SharedTypes, ViewTypes
  <2>3. D!LogsAreFollowed'
    BY <1>1, <2>1, LogsStay
  <2>4. D!CallsAreBound'
    BY <1>1, <2>1 DEF D!CallsAreBound, ViewTypes
  <2>5. D!InsideIsCurrent'
    BY <1>1, <2>1 DEF D!InsideIsCurrent, D!State, D!Content, ViewTypes
  <2>6. D!ViewsAreCounted' /\ D!TheWorldIsShared'
    BY <1>1, <2>1 DEF D!ViewsAreCounted, D!OpenAt, D!TheWorldIsShared
  <2> QED
    BY <2>2, <2>3, <2>4, <2>5, <2>6, WorldFromParts
<1>4. CASE view[v] # "closed"
  <2> DEFINE i == of[v]
  <2> DEFINE x == [states[i] EXCEPT !.lock = v]
  <2>1. /\ depCall' = [depCall EXCEPT ![v].at = "inside"]
        /\ states' = [states EXCEPT ![i] = x]
        /\ loaded' = [loaded EXCEPT ![v] = D!Content(states[i])]
    BY <1>2, <1>4 DEF D!Enter
  <2>2. /\ x \in D!Shared /\ x.lock = v /\ x.views = states[i].views
        /\ x.direct = states[i].direct /\ x.history = states[i].history
        /\ x.log = states[i].log
    BY <1>2, SharedFields DEF D!Shared
  <2>3. Len(x.history) \in 1..(MaxCommits + 1)
    BY <1>2, <2>2, SharedFields
  <2> HIDE DEF x
  <2>4. /\ SharedTypes' /\ Len(states') = Len(states) /\ DOMAIN states' = DOMAIN states
        /\ states'[i] = x /\ \A j \in DOMAIN states : j # i => states'[j] = states[j]
    BY <1>2, <2>1, <2>2, <2>3, OneReplaced
  <2>5. ViewTypes'
    <3>1. D!Content(states[i]) \in D!Contents
      BY <1>2, SharedFields DEF D!Content, D!Contents
    <3>2. [depCall[v] EXCEPT !.at = "inside"] \in D!Calls
      BY DEF ViewTypes, D!Calls
    <3> QED
      BY <1>1, <2>1, <2>4, <3>1, <3>2 DEF ViewTypes
  <2>6. \A j \in DOMAIN states : /\ states'[j].direct = states[j].direct
                                 /\ states'[j].history = states[j].history
                                 /\ states'[j].log = states[j].log
                                 /\ states'[j].views = states[j].views
    BY <2>2, <2>4
  <2>7. D!LogsAreFollowed'
    BY <1>1, <2>4, <2>6, LogsStay
  <2>8. D!CallsAreBound'
    BY <1>1, <1>4, <2>1 DEF D!CallsAreBound, ViewTypes, D!NoCall
  <2>9. D!InsideIsCurrent'
    <3> SUFFICES ASSUME NEW u \in Views, depCall'[u].at = "inside"
                 PROVE  D!State(u)'.lock = u /\ loaded'[u] = D!Content(D!State(u)')
      BY DEF D!InsideIsCurrent, D!Content
    <3>1. CASE u = v
      <4>1. D!State(u)' = x /\ loaded'[u] = D!Content(states[i])
        BY <1>1, <2>1, <2>4, <3>1 DEF D!State, ViewTypes
      <4> QED
        BY <2>2, <3>1, <4>1 DEF D!Content
    <3>2. CASE u # v
      <4>1. depCall[u].at = "inside" /\ loaded'[u] = loaded[u]
        BY <2>1, <3>2 DEF ViewTypes
      <4>2. D!State(u).lock = u /\ loaded[u] = D!Content(D!State(u)) /\ of[u] \in DOMAIN states
        BY <4>1, CallersHaveStates DEF D!InsideIsCurrent
      <4>3. of[u] # i
        BY <1>1, <1>2, <4>2 DEF D!State, D!DependencyAssumption
      <4>4. D!State(u)' = D!State(u)
        BY <1>1, <2>4, <4>2, <4>3 DEF D!State
      <4> QED
        BY <4>1, <4>2, <4>4
    <3> QED
      BY <3>1, <3>2
  <2>10. D!ViewsAreCounted' /\ D!TheWorldIsShared'
    BY <1>1, <2>4, <2>6 DEF D!ViewsAreCounted, D!OpenAt, D!TheWorldIsShared
  <2> QED
    BY <2>4, <2>5, <2>7, <2>8, <2>9, <2>10, WorldFromParts
<1> QED
  BY <1>3, <1>4

(* Teardown: the state loses a view, and the world with its last one ends. *)
LEMMA TeardownKeepsWorld ==
  ASSUME D!DependencyAssumption, D!WorldInvariant, NEW v \in Views, D!Teardown(v)
  PROVE  D!WorldInvariant'
<1> USE WorldParts
<1>0. PICK i : i = of[v]
  OBVIOUS
<1> DEFINE rest == states[i].views - 1
<1>a. view[v] = "open"
  BY DEF D!Teardown
<1>2. i = registry /\ i # 0 /\ i \in DOMAIN states
  BY <1>0, <1>a DEF D!TheWorldIsShared, D!CallsAreBound, ViewTypes, SharedTypes
<1>1. /\ view[v] = "open" /\ view' = [view EXCEPT ![v] = "closed"]
      /\ states' = [states EXCEPT ![i].views = rest]
      /\ registry' = IF rest <= 0 THEN 0 ELSE registry
      /\ UNCHANGED <<of, depCall, loaded, kept, seen>>
  BY <1>2 DEF D!Teardown, D!Release
<1>3. /\ states[i].views = Cardinality(D!OpenAt(i)) /\ v \in D!OpenAt(i)
      /\ D!OpenAt(i)' = D!OpenAt(i) \ {v}
  BY <1>0, <1>1, <1>2, SameCardinality DEF D!ViewsAreCounted, D!OpenAt, ViewTypes
<1>4. /\ rest = Cardinality(D!OpenAt(i)') /\ rest \in 0..Cardinality(Views)
      /\ (rest <= 0 <=> D!OpenAt(i)' = {})
  <2>1. /\ IsFiniteSet(D!OpenAt(i)) /\ Cardinality(D!OpenAt(i)) \in Nat
        /\ IsFiniteSet(D!OpenAt(i)') /\ Cardinality(D!OpenAt(i)') \in 0..Cardinality(Views)
    BY OpenViews
  <2>2. Cardinality(D!OpenAt(i)') = Cardinality(D!OpenAt(i)) - 1
    BY <1>3, <2>1, FS_RemoveElement
  <2>3. D!OpenAt(i)' = {} <=> Cardinality(D!OpenAt(i)') = 0
    BY <2>1, FS_EmptySet
  <2> QED
    BY <1>3, <2>1, <2>2, <2>3
<1> DEFINE x == [states[i] EXCEPT !.views = rest]
<1>5. states' = [states EXCEPT ![i] = x] /\ registry' = IF rest <= 0 THEN 0 ELSE registry
  BY <1>1, <1>2
<1>6. /\ x \in D!Shared /\ x.lock = states[i].lock /\ x.views = rest
      /\ x.direct = states[i].direct /\ x.history = states[i].history
      /\ x.log = states[i].log
  BY <1>2, <1>4, SharedFields, SameCardinality DEF D!Shared
<1>7. Len(x.history) \in 1..(MaxCommits + 1)
  BY <1>2, <1>6, SharedFields
<1> HIDE DEF x, rest
<1>8. /\ SharedTypes' /\ Len(states') = Len(states) /\ DOMAIN states' = DOMAIN states
      /\ states'[i] = x /\ \A j \in DOMAIN states : j # i => states'[j] = states[j]
  BY <1>2, <1>5, <1>6, <1>7, OneReplaced
<1>9. ViewTypes'
  BY <1>1, <1>5, <1>8 DEF ViewTypes
<1>10. \A j \in DOMAIN states : /\ states'[j].direct = states[j].direct
                                /\ states'[j].history = states[j].history
                                /\ states'[j].log = states[j].log
                                /\ states'[j].lock = states[j].lock
  BY <1>6, <1>8
<1>11. D!LogsAreFollowed'
  BY <1>1, <1>8, <1>10, LogsStay
<1>12. D!CallsAreBound'
  BY <1>1 DEF D!CallsAreBound, ViewTypes
<1>13. D!InsideIsCurrent'
  <2> SUFFICES ASSUME NEW u \in Views, depCall'[u].at = "inside"
               PROVE  /\ depCall[u].at = "inside" /\ of'[u] = of[u] /\ loaded'[u] = loaded[u]
                      /\ states'[of[u]].lock = states[of[u]].lock
                      /\ states'[of[u]].direct = states[of[u]].direct
                      /\ states'[of[u]].history = states[of[u]].history
    BY OthersStayInside
  <2>1. of[u] \in DOMAIN states
    BY <1>1, CallersHaveStates
  <2> QED
    BY <1>1, <1>10, <2>1
<1>14. D!ViewsAreCounted'
  <2>1. \A j \in DOMAIN states : j # i => D!OpenAt(j)' = D!OpenAt(j)
    BY <1>0, <1>1 DEF D!OpenAt, ViewTypes
  <2> QED
    BY <1>4, <1>6, <1>8, <2>1, SameCardinality DEF D!ViewsAreCounted
<1>15. D!TheWorldIsShared'
  <2> SUFFICES ASSUME NEW u \in Views, view'[u] = "open"
               PROVE  of[u] = registry'
    BY <1>1 DEF D!TheWorldIsShared
  <2>1. view[u] = "open" /\ of[u] = registry
    BY <1>1 DEF ViewTypes, D!TheWorldIsShared
  <2>2. u \in D!OpenAt(i)'
    BY <1>1, <1>2, <2>1 DEF D!OpenAt
  <2> QED
    BY <1>4, <1>5, <2>1, <2>2
<1> QED
  BY <1>8, <1>9, <1>11, <1>12, <1>13, <1>14, <1>15, WorldFromParts

(* Materialize: a view joins the world, or makes it. *)
LEMMA MaterializeKeepsWorld ==
  ASSUME D!DependencyAssumption, D!WorldInvariant, NEW v \in Views, D!Materialize(v)
  PROVE  D!WorldInvariant'
<1> USE WorldParts
<1>1. /\ view[v] = "new" /\ view' = [view EXCEPT ![v] = "open"]
      /\ UNCHANGED <<depCall, loaded, kept, seen>> /\ depCall[v] = D!NoCall
  BY DEF D!Materialize, D!CallsAreBound
<1>2. depCall[v].at = "idle" /\ depCall[v].op = "none"
  BY <1>1, NothingToDo
<1>3. CASE registry # 0
  <2>0. PICK i : i = registry
    OBVIOUS
  <2> DEFINE n == states[i].views + 1
  <2> DEFINE x == [states[i] EXCEPT !.views = n]
  <2>1. /\ of' = [of EXCEPT ![v] = i] /\ UNCHANGED registry
        /\ states' = [states EXCEPT ![i] = x] /\ i \in DOMAIN states
    BY <1>3, <2>0 DEF D!Materialize, ViewTypes, SharedTypes
  <2>2. D!OpenAt(i)' = D!OpenAt(i) \cup {v} /\ v \notin D!OpenAt(i)
    BY <1>1, <2>1 DEF D!OpenAt, ViewTypes
  <2>3. n = Cardinality(D!OpenAt(i)') /\ n \in 0..Cardinality(Views)
    <3>1. /\ IsFiniteSet(D!OpenAt(i)) /\ Cardinality(D!OpenAt(i)) \in Nat
          /\ Cardinality(D!OpenAt(i)') \in 0..Cardinality(Views)
      BY OpenViews
    <3>2. Cardinality(D!OpenAt(i)') = Cardinality(D!OpenAt(i)) + 1
      BY <2>2, <3>1, FS_AddElement
    <3>3. states[i].views = Cardinality(D!OpenAt(i))
      BY <2>1, SameCardinality DEF D!ViewsAreCounted
    <3> QED
      BY <3>1, <3>2, <3>3
  <2>4. /\ x \in D!Shared /\ x.lock = states[i].lock /\ x.views = n
        /\ x.direct = states[i].direct /\ x.history = states[i].history
        /\ x.log = states[i].log
    BY <2>1, <2>3, SharedFields, SameCardinality DEF D!Shared
  <2>5. Len(x.history) \in 1..(MaxCommits + 1)
    BY <2>1, <2>4, SharedFields
  <2> HIDE DEF x, n
  <2>6. /\ SharedTypes' /\ Len(states') = Len(states) /\ DOMAIN states' = DOMAIN states
        /\ states'[i] = x /\ \A j \in DOMAIN states : j # i => states'[j] = states[j]
    BY <2>1, <2>4, <2>5, OneReplaced
  <2>7. ViewTypes'
    BY <1>1, <2>0, <2>1, <2>6 DEF ViewTypes
  <2>8. \A j \in DOMAIN states : /\ states'[j].direct = states[j].direct
                                 /\ states'[j].history = states[j].history
                                 /\ states'[j].log = states[j].log
                                 /\ states'[j].lock = states[j].lock
    BY <2>4, <2>6
  <2>9. D!LogsAreFollowed'
    BY <1>1, <2>6, <2>8, LogsStay
  <2>10. D!CallsAreBound'
    BY <1>1, <1>2, <1>3, <2>0, <2>1 DEF D!CallsAreBound, ViewTypes
  <2>11. D!InsideIsCurrent'
    <3> SUFFICES ASSUME NEW u \in Views, depCall'[u].at = "inside"
                 PROVE  /\ depCall[u].at = "inside" /\ of'[u] = of[u] /\ loaded'[u] = loaded[u]
                        /\ states'[of[u]].lock = states[of[u]].lock
                        /\ states'[of[u]].direct = states[of[u]].direct
                        /\ states'[of[u]].history = states[of[u]].history
      BY OthersStayInside
    <3>1. u # v /\ of[u] \in DOMAIN states
      BY <1>1, <1>2, CallersHaveStates
    <3> QED
      BY <1>1, <2>1, <2>8, <3>1 DEF ViewTypes
  <2>12. D!ViewsAreCounted'
    <3>1. \A j \in DOMAIN states : j # i => D!OpenAt(j)' = D!OpenAt(j)
      BY <1>1, <2>1 DEF D!OpenAt, ViewTypes
    <3> QED
      BY <2>3, <2>4, <2>6, <3>1, SameCardinality DEF D!ViewsAreCounted
  <2>13. D!TheWorldIsShared'
    BY <1>1, <2>0, <2>1 DEF D!TheWorldIsShared, ViewTypes
  <2> QED
    BY <2>6, <2>7, <2>9, <2>10, <2>11, <2>12, <2>13, WorldFromParts
<1>4. CASE registry = 0
  <2>0. PICK i : i = Len(states) + 1
    OBVIOUS
  <2> DEFINE x == [D!Fresh EXCEPT !.views = 1]
  <2>1. /\ Len(states) < MaxStates /\ registry' = i /\ of' = [of EXCEPT ![v] = i]
        /\ states' = Append(states, x) /\ MaxStates \in Nat /\ Len(states) \in Nat
    BY <1>4, <2>0 DEF D!Materialize, D!DependencyAssumption, SharedTypes
  <2>2. \A u \in Views : view[u] # "open"
    BY <1>4 DEF D!TheWorldIsShared, D!CallsAreBound
  <2>3. D!OpenAt(i)' = {v}
    BY <1>1, <2>1, <2>2 DEF D!OpenAt, ViewTypes
  <2>4. Cardinality(D!OpenAt(i)') = 1 /\ 1 \in 0..Cardinality(Views)
    BY <2>3, OpenViews, FS_Singleton
  <2>5. /\ x \in D!Shared /\ x.views = 1 /\ x.direct = D!Fresh.direct
        /\ x.history = D!Fresh.history /\ x.log = D!Fresh.log
    BY <2>4, FreshFollows DEF D!Fresh
  <2> HIDE DEF x
  <2>6. /\ states' \in Seq(D!Shared) /\ Len(states') = i /\ states'[i] = x
        /\ \A j \in 1..Len(states) : states'[j] = states[j]
    BY <2>0, <2>1, <2>5, AppendProperties DEF SharedTypes
  <2>7. DOMAIN states' = 1..i /\ DOMAIN states = 1..Len(states)
    BY <2>6 DEF SharedTypes
  <2>8. SharedTypes'
    <3>1. Len(x.history) \in 1..(MaxCommits + 1)
      BY <2>5, FreshFollows
    <3>2. \A j \in 1..i : j = i \/ j \in 1..Len(states)
      BY <2>0, <2>1
    <3>3. Len(states') <= MaxStates
      BY <2>0, <2>1, <2>6
    <3> QED
      BY <2>6, <2>7, <3>1, <3>2, <3>3 DEF SharedTypes
  <2>9. ViewTypes'
    BY <1>1, <2>0, <2>1, <2>6 DEF ViewTypes
  <2>10. D!LogsAreFollowed'
    <3>1. D!Follows(x)
      BY <2>5, FreshFollows, FollowsByFields
    <3>2. \A j \in 1..i : j = i \/ j \in 1..Len(states)
      BY <2>0, <2>1
    <3>3. \A j \in 1..i : D!Follows(states'[j])
      BY <2>6, <2>7, <3>1, <3>2 DEF D!LogsAreFollowed
    <3> QED
      BY <1>1, <2>7, <3>3 DEF D!LogsAreFollowed, D!Follows
  <2>11. D!CallsAreBound'
    BY <1>1, <1>2, <2>0, <2>1 DEF D!CallsAreBound, ViewTypes
  <2>12. D!InsideIsCurrent'
    <3> SUFFICES ASSUME NEW u \in Views, depCall'[u].at = "inside"
                 PROVE  /\ depCall[u].at = "inside" /\ of'[u] = of[u] /\ loaded'[u] = loaded[u]
                        /\ states'[of[u]].lock = states[of[u]].lock
                        /\ states'[of[u]].direct = states[of[u]].direct
                        /\ states'[of[u]].history = states[of[u]].history
      BY OthersStayInside
    <3>1. u # v /\ of[u] \in 1..Len(states)
      BY <1>1, <1>2, <2>7, CallersHaveStates
    <3> QED
      BY <1>1, <2>1, <2>6, <3>1 DEF ViewTypes
  <2>13. D!ViewsAreCounted'
    <3>1. \A j \in 1..Len(states) : D!OpenAt(j)' = D!OpenAt(j)
      <4> TAKE j \in 1..Len(states)
      <4>1. j # i
        BY <2>0, <2>1
      <4> QED
        BY <1>1, <2>1, <4>1 DEF D!OpenAt, ViewTypes
    <3>2. \A j \in 1..i : j = i \/ j \in 1..Len(states)
      BY <2>0, <2>1
    <3> QED
      BY <2>4, <2>5, <2>6, <2>7, <3>1, <3>2, SameCardinality DEF D!ViewsAreCounted
  <2>14. D!TheWorldIsShared'
    BY <1>1, <2>1, <2>2 DEF D!TheWorldIsShared, ViewTypes
  <2> QED
    BY <2>8, <2>9, <2>10, <2>11, <2>12, <2>13, <2>14, WorldFromParts
<1> QED
  BY <1>3, <1>4

(* The operation inside the lock ends: its state becomes x, its lock free. *)
LEMMA WorkEnds ==
  ASSUME D!DependencyAssumption, D!WorldInvariant, NEW v \in Views, depCall[v].at = "inside",
         NEW x \in D!Shared, Len(x.history) \in 1..(MaxCommits + 1), D!Follows(x),
         x.views = D!State(v).views, states' = [states EXCEPT ![of[v]] = x],
         depCall' = [depCall EXCEPT ![v] = D!NoCall], loaded' = [loaded EXCEPT ![v] = D!Seed],
         UNCHANGED <<registry, view, of>>, seen' \in [Views -> Nat \cup {-1}],
         kept' \in [Views -> D!Snapshots],
         \A u \in Views : D!Follows(kept'[u]) /\ Len(kept'[u].history) \in 1..(MaxCommits + 1)
  PROVE  D!WorldInvariant'
<1> USE WorldParts, NothingToDo
<1>1. /\ of[v] \in DOMAIN states /\ D!State(v) = states[of[v]] /\ states[of[v]].lock = v
  BY CallersHaveStates DEF D!InsideIsCurrent
<1>2. /\ SharedTypes' /\ Len(states') = Len(states) /\ DOMAIN states' = DOMAIN states
      /\ states'[of[v]] = x /\ \A j \in DOMAIN states : j # of[v] => states'[j] = states[j]
  BY <1>1, OneReplaced
<1>3. ViewTypes'
  BY <1>2, FreshFollows DEF ViewTypes
<1>4. D!LogsAreFollowed'
  <2>1. \A j \in DOMAIN states : D!Follows(states'[j])
    BY <1>1, <1>2 DEF D!LogsAreFollowed
  <2> QED
    BY <1>2, <2>1 DEF D!LogsAreFollowed, D!Follows
<1>5. D!CallsAreBound'
  BY DEF D!CallsAreBound, ViewTypes
<1>6. D!InsideIsCurrent'
  <2> SUFFICES ASSUME NEW u \in Views, depCall'[u].at = "inside"
               PROVE  /\ depCall[u].at = "inside" /\ of'[u] = of[u] /\ loaded'[u] = loaded[u]
                      /\ states'[of[u]].lock = states[of[u]].lock
                      /\ states'[of[u]].direct = states[of[u]].direct
                      /\ states'[of[u]].history = states[of[u]].history
    BY OthersStayInside
  <2>1. u # v /\ depCall[u].at = "inside" /\ loaded'[u] = loaded[u]
    BY DEF ViewTypes
  <2>2. of[u] \in DOMAIN states /\ states[of[u]].lock = u
    BY <2>1, CallersHaveStates DEF D!InsideIsCurrent
  <2>3. states'[of[u]] = states[of[u]]
    BY <1>1, <1>2, <2>1, <2>2
  <2> QED
    BY <2>1, <2>3
<1>7. D!ViewsAreCounted' /\ D!TheWorldIsShared'
  <2>1. \A j \in DOMAIN states : states'[j].views = states[j].views
    BY <1>1, <1>2
  <2>2. \A j \in DOMAIN states : D!OpenAt(j)' = D!OpenAt(j)
    BY DEF D!OpenAt
  <2>3. D!ViewsAreCounted'
    BY <1>2, <2>1, <2>2 DEF D!ViewsAreCounted
  <2> QED
    BY <2>3 DEF D!TheWorldIsShared
<1> QED
  BY <1>2, <1>3, <1>4, <1>5, <1>6, <1>7, WorldFromParts

(* Unlock: the state keeps its content. *)
LEMMA UnlockKeepsContent ==
  ASSUME D!DependencyAssumption, D!WorldInvariant, NEW v \in Views, depCall[v].at = "inside",
         D!Unlock(v)
  PROVE  \E x \in D!Shared :
           /\ Len(x.history) \in 1..(MaxCommits + 1) /\ D!Follows(x)
           /\ x.views = D!State(v).views /\ states' = [states EXCEPT ![of[v]] = x]
<1> USE WorldParts
<1> DEFINE x == [states[of[v]] EXCEPT !.lock = "free"]
<1>1. of[v] \in DOMAIN states /\ D!State(v) = states[of[v]]
  BY CallersHaveStates
<1>2. states' = [states EXCEPT ![of[v]] = x]
  BY DEF D!Unlock
<1>3. /\ x \in D!Shared /\ x.views = states[of[v]].views
      /\ x.direct = states[of[v]].direct /\ x.history = states[of[v]].history
      /\ x.log = states[of[v]].log
  BY <1>1, SharedFields DEF D!Shared
<1> HIDE DEF x
<1>4. Len(x.history) \in 1..(MaxCommits + 1)
  BY <1>1, <1>3, SharedFields
<1>5. D!Follows(x)
  BY <1>1, <1>3, FollowsByFields DEF D!LogsAreFollowed
<1> QED
  BY <1>1, <1>2, <1>3, <1>4, <1>5

(* _save: the state has the content and the trail it is given. *)
LEMMA SaveKeepsViews ==
  ASSUME D!DependencyAssumption, D!WorldInvariant, NEW v \in Views, depCall[v].at = "inside",
         NEW direct \in D!Standing, NEW history \in Seq(D!Standing), NEW trail \in Seq(D!Acts),
         NEW content, content.direct = direct, content.history = history,
         D!Save(v, content, trail), Len(history) \in 1..(MaxCommits + 1),
         NEW s, D!Follows(s), s.direct = direct, s.history = history, s.log = trail
  PROVE  \E x \in D!Shared :
           /\ Len(x.history) \in 1..(MaxCommits + 1) /\ D!Follows(x)
           /\ x.views = D!State(v).views /\ states' = [states EXCEPT ![of[v]] = x]
<1> USE WorldParts
<1> DEFINE x == [direct |-> direct, history |-> history, log |-> trail,
                 views |-> states[of[v]].views, lock |-> "free"]
<1>1. of[v] \in DOMAIN states /\ D!State(v) = states[of[v]]
  BY CallersHaveStates
<1>2. states' = [states EXCEPT ![of[v]] = x]
  BY DEF D!Save
<1>3. x \in D!Shared
  BY <1>1, SharedFields DEF D!Shared
<1>4. D!Follows(x)
  BY FollowsByFields
<1>5. x.history = history /\ x.views = states[of[v]].views
  OBVIOUS
<1> HIDE DEF x
<1> QED
  BY <1>1, <1>2, <1>3, <1>4, <1>5

(* One more step that changes few assets keeps a history bounded. *)
LEMMA OneMoreStepIsBounded ==
  ASSUME NEW history \in Seq(D!Standing), Len(history) >= 1, NEW e \in D!Standing,
         D!Bounded(history),
         Cardinality({a \in D!Assets : e[a] # history[Len(history)][a]}) <= MaxImpacted
  PROVE  D!Bounded(Append(history, e))
<1> DEFINE n == Len(history)
<1> DEFINE h == Append(history, e)
<1>1. n \in Nat /\ Len(h) = n + 1 /\ h[n + 1] = e /\ \A m \in 1..n : h[m] = history[m]
  BY AppendProperties
<1> SUFFICES ASSUME NEW m \in 2..Len(h)
             PROVE  D!Cardinality({a \in D!Assets : h[m][a] # h[m - 1][a]}) <= MaxImpacted
  BY DEF D!Bounded
<1> HIDE DEF h
<1>2. CASE m = n + 1
  <2>1. h[m] = e /\ h[m - 1] = history[n]
    BY <1>1, <1>2
  <2> QED
    BY <2>1, SameCardinality
<1>3. CASE m \in 2..n
  <2>1. h[m] = history[m] /\ h[m - 1] = history[m - 1]
    BY <1>1, <1>3
  <2> QED
    BY <1>3, <2>1 DEF D!Bounded
<1> QED
  BY <1>1, <1>2, <1>3

(* actuate: its state follows its trail with one more act, or it is refused. *)
LEMMA ActedFollows ==
  ASSUME D!DependencyAssumption, D!WorldInvariant, NEW v \in Views, depCall[v].at = "inside",
         depCall[v].op = "actuate", D!Acted(v)
  PROVE  \E x \in D!Shared :
           /\ Len(x.history) \in 1..(MaxCommits + 1) /\ D!Follows(x)
           /\ x.views = D!State(v).views /\ states' = [states EXCEPT ![of[v]] = x]
<1> USE WorldParts
<1>0. PICK i : i = of[v]
  OBVIOUS
<1>1. i \in DOMAIN states /\ D!State(v) = states[i] /\ loaded[v] = D!Content(states[i])
  BY <1>0, CallersHaveStates DEF D!InsideIsCurrent
<1> DEFINE c == depCall[v]
<1> DEFINE direct == D!Put(loaded[v].direct, c)
<1> DEFINE turned == D!Simulate(direct, D!Effective(loaded[v]), c.target)
<1> DEFINE act == [target |-> c.target, effect |-> c.effect]
<1>2. /\ loaded[v].direct = states[i].direct /\ loaded[v].history = states[i].history
      /\ states[i].direct \in D!Standing /\ states[i].history \in Seq(D!Standing)
      /\ states[i].log \in Seq(D!Acts) /\ Len(states[i].history) \in 1..(MaxCommits + 1)
  BY <1>1, SharedFields DEF D!Content
<1>3. act \in D!Acts /\ act.target \in D!Assets /\ act.effect \in D!Status
  BY DEF D!Acts, D!CallsAreBound, ViewTypes, D!Calls, D!Status
<1>4. direct = D!Put(states[i].direct, act) /\ direct \in D!Standing
  BY <1>2, <1>3 DEF D!Put, D!Standing
<1>5. D!Effective(loaded[v]) = states[i].history[Len(states[i].history)]
      /\ D!Effective(loaded[v]) \in D!Standing
  BY <1>2 DEF D!Effective, D!Last
<1>6. /\ turned.effective \in D!Standing
      /\ ~turned.refused =>
           Cardinality({a \in D!Assets : turned.effective[a] # D!Effective(loaded[v])[a]})
             <= MaxImpacted
  BY <1>4, <1>5, SimulateIsBounded
<1>7. IF turned.refused \/ Len(states[i].history) > MaxCommits THEN D!Unlock(v)
      ELSE D!Save(v, [direct |-> direct, history |-> Append(states[i].history, turned.effective)],
                  Append(states[i].log, act))
  BY <1>1, <1>2 DEF D!Acted
<1> HIDE DEF c, direct, turned, act
<1>8. CASE turned.refused \/ Len(states[i].history) > MaxCommits
  BY <1>7, <1>8, UnlockKeepsContent
<1>9. CASE ~(turned.refused \/ Len(states[i].history) > MaxCommits)
  <2> DEFINE history == Append(states[i].history, turned.effective)
  <2> DEFINE trail == Append(states[i].log, act)
  <2> DEFINE s == [direct |-> direct, history |-> history, log |-> trail]
  <2>1. /\ history \in Seq(D!Standing) /\ Len(history) = Len(states[i].history) + 1
        /\ trail \in Seq(D!Acts) /\ Len(trail) = Len(states[i].log) + 1
    BY <1>2, <1>3, <1>6, AppendProperties
  <2>2. Len(history) \in 1..(MaxCommits + 1)
    <3>1. MaxCommits \in Nat
      BY DEF D!DependencyAssumption
    <3>2. Len(states[i].history) \in 1..(MaxCommits + 1) /\ Len(states[i].history) <= MaxCommits
      BY <1>2, <1>9, <3>1
    <3> HIDE DEF history
    <3> QED
      BY <2>1, <3>1, <3>2
  <2>3. D!Replayed(trail) = direct
    <3>1. D!Replayed(trail) = D!Put(D!Replayed(states[i].log), act)
      BY <1>2, <1>3, OneMoreReplayed
    <3> QED
      BY <1>1, <1>4, <3>1 DEF D!LogsAreFollowed, D!Follows
  <2>4. D!Bounded(history)
    <3>1. D!Bounded(states[i].history)
      BY <1>1 DEF D!LogsAreFollowed, D!Follows
    <3>2. Cardinality({a \in D!Assets :
                         turned.effective[a] # states[i].history[Len(states[i].history)][a]})
            <= MaxImpacted
      BY <1>5, <1>6, <1>9
    <3>3. Len(states[i].history) >= 1 /\ states[i].history \in Seq(D!Standing)
      BY <1>2
    <3> QED
      BY <1>6, <3>1, <3>2, <3>3, OneMoreStepIsBounded
  <2>5. Len(states[i].history) = Len(states[i].log) + 1
    BY <1>1 DEF D!LogsAreFollowed, D!Follows
  <2>6. Len(states[i].log) \in Nat
    BY <1>2
  <2> DEFINE content == [direct |-> direct, history |-> history]
  <2>7. D!Save(v, content, trail)
    BY <1>7, <1>9
  <2>8. s.direct = direct /\ s.history = history /\ s.log = trail
        /\ content.direct = direct /\ content.history = history
    OBVIOUS
  <2> HIDE DEF history, trail, s, content
  <2>9. D!Follows(s)
    BY <2>1, <2>3, <2>4, <2>5, <2>6, <2>8 DEF D!Follows
  <2> QED
    BY <1>4, <2>1, <2>2, <2>7, <2>8, <2>9, SaveKeepsViews
<1> QED
  BY <1>8, <1>9

(* Work: the operation that is inside the lock ends. *)
LEMMA WorkKeepsWorld ==
  ASSUME D!DependencyAssumption, D!WorldInvariant, NEW v \in Views, D!Work(v)
  PROVE  D!WorldInvariant'
<1> USE WorldParts
<1>1. /\ depCall[v].at = "inside" /\ depCall' = [depCall EXCEPT ![v] = D!NoCall]
      /\ loaded' = [loaded EXCEPT ![v] = D!Seed] /\ UNCHANGED <<registry, view, of>>
  BY DEF D!Work, D!Done
<1>2. of[v] \in DOMAIN states /\ D!State(v) = states[of[v]]
      /\ loaded[v] = D!Content(D!State(v))
  BY <1>1, CallersHaveStates DEF D!InsideIsCurrent
<1>3. /\ kept \in [Views -> D!Snapshots] /\ seen \in [Views -> Nat \cup {-1}]
      /\ \A u \in Views : D!Follows(kept[u]) /\ Len(kept[u].history) \in 1..(MaxCommits + 1)
  BY DEF ViewTypes, D!LogsAreFollowed
<1>4. CASE D!Unlock(v) /\ UNCHANGED <<kept, seen>>
  BY <1>1, <1>3, <1>4, UnlockKeepsContent, WorkEnds
<1>5. CASE depCall[v].op = "actuate" /\ D!Acted(v) /\ UNCHANGED <<kept, seen>>
  BY <1>1, <1>3, <1>5, ActedFollows, WorkEnds
<1>6. CASE D!Unlock(v) /\ UNCHANGED kept /\ seen' = [seen EXCEPT ![v] = D!ObservedStep(v)]
  <2>1. D!ObservedStep(v) \in Nat
    <3>1. Len(loaded[v].history) \in 1..(MaxCommits + 1) /\ Lag[v] \in Nat
      BY <1>2, SharedFields DEF D!Content, D!DependencyAssumption
    <3> QED
      BY <3>1 DEF D!ObservedStep
  <2>2. seen' \in [Views -> Nat \cup {-1}]
    BY <1>3, <1>6, <2>1
  <2> QED
    BY <1>1, <1>3, <1>6, <2>2, UnlockKeepsContent, WorkEnds
<1>7. CASE /\ D!Unlock(v) /\ UNCHANGED seen
           /\ kept' = [kept EXCEPT ![v] = D!Snapshot(loaded[v], D!State(v).log)]
  <2> DEFINE k == D!Snapshot(loaded[v], D!State(v).log)
  <2>1. /\ k.direct = states[of[v]].direct /\ k.history = states[of[v]].history
        /\ k.log = states[of[v]].log /\ k \in D!Snapshots
    BY <1>2, SharedFields DEF D!Content, D!Snapshot, D!Snapshots
  <2>2. kept' = [kept EXCEPT ![v] = k]
    BY <1>7
  <2> HIDE DEF k
  <2>3. D!Follows(k) /\ Len(k.history) \in 1..(MaxCommits + 1)
    BY <1>2, <2>1, FollowsByFields, SharedFields DEF D!LogsAreFollowed
  <2>4. \A u \in Views : kept'[u] = kept[u] \/ kept'[u] = k
    BY <1>3, <2>2
  <2>5. /\ kept' \in [Views -> D!Snapshots]
        /\ \A u \in Views : D!Follows(kept'[u]) /\ Len(kept'[u].history) \in 1..(MaxCommits + 1)
    BY <1>3, <2>1, <2>2, <2>3, <2>4
  <2>6. seen' \in [Views -> Nat \cup {-1}]
    BY <1>3, <1>7
  <2> QED
    BY <1>1, <1>7, <2>5, <2>6, UnlockKeepsContent, WorkEnds
<1>8. CASE D!Save(v, kept[v], kept[v].log) /\ UNCHANGED <<kept, seen>>
  <2>1. /\ kept[v].direct \in D!Standing /\ kept[v].history \in Seq(D!Standing)
        /\ kept[v].log \in Seq(D!Acts)
    BY <1>3 DEF D!Snapshots
  <2>2. \E x \in D!Shared :
           /\ Len(x.history) \in 1..(MaxCommits + 1) /\ D!Follows(x)
           /\ x.views = D!State(v).views /\ states' = [states EXCEPT ![of[v]] = x]
    BY <1>1, <1>3, <1>8, <2>1, SaveKeepsViews
  <2> QED
    BY <1>1, <1>3, <1>8, <2>2, WorkEnds
<1> QED
  BY <1>4, <1>5, <1>6, <1>7, <1>8 DEF D!Work

-----------------------------------------------------------------------------
(* Dependency worlds: the theorems *)

(* A step keeps the invariant, or leaves the world alone. *)
LEMMA WorldStep ==
  ASSUME D!DependencyAssumption, D!WorldInvariant, [D!Next]_D!vars
  PROVE  D!WorldInvariant'
<1>1. CASE UNCHANGED D!vars
  <2>1. /\ states' = states /\ registry' = registry /\ view' = view /\ of' = of
        /\ depCall' = depCall /\ loaded' = loaded /\ kept' = kept /\ seen' = seen
    BY <1>1 DEF D!vars
  <2>2. SharedTypes' /\ ViewTypes'
    BY <2>1, WorldParts DEF SharedTypes, ViewTypes
  <2>3. D!LogsAreFollowed'
    BY <2>1, WorldParts, LogsStay
  <2>4. D!CallsAreBound' /\ D!InsideIsCurrent'
    BY <2>1, WorldParts DEF D!CallsAreBound, D!InsideIsCurrent, D!State, D!Content
  <2>5. D!ViewsAreCounted' /\ D!TheWorldIsShared'
    BY <2>1, WorldParts DEF D!ViewsAreCounted, D!OpenAt, D!TheWorldIsShared
  <2> QED
    BY <2>2, <2>3, <2>4, <2>5, WorldFromParts
<1>2. ASSUME NEW v \in Views,
             \/ D!Materialize(v) \/ D!Teardown(v) \/ D!Rejoin(v) \/ D!Enter(v) \/ D!Work(v)
      PROVE  D!WorldInvariant'
  BY <1>2, MaterializeKeepsWorld, TeardownKeepsWorld, RejoinKeepsWorld, EnterKeepsWorld,
     WorkKeepsWorld
<1>3. ASSUME NEW v \in Views, D!Observe(v) \/ D!Checkpoint(v) \/ D!Restore(v)
      PROVE  D!WorldInvariant'
  <2>1. PICK op \in {"observe", "checkpoint", "restore"} :
          D!Begin(v, [D!NoCall EXCEPT !.op = op, !.at = "waiting"])
    BY <1>3 DEF D!Observe, D!Checkpoint, D!Restore
  <2> DEFINE c == [D!NoCall EXCEPT !.op = op, !.at = "waiting"]
  <2>2. c \in D!Calls
    BY NothingToDo DEF D!Calls
  <2>3. c.at = "waiting" /\ c.op = op
    BY DEF D!NoCall
  <2>4. c.op # "actuate"
    BY <2>3
  <2>5. D!Begin(v, c)
    BY <2>1
  <2> HIDE DEF c
  <2> QED
    BY <2>2, <2>3, <2>4, <2>5, BeginKeepsWorld
<1>4. ASSUME NEW v \in Views, NEW a \in D!Assets, NEW e \in Powers[v], D!Actuate(v, a, e)
      PROVE  D!WorldInvariant'
  <2> DEFINE c == [op |-> "actuate", at |-> "waiting", target |-> a, effect |-> e]
  <2>1. c \in D!Calls /\ c.at = "waiting" /\ c.target \in D!Assets
    BY DEF D!Calls, D!Assets, D!DependencyAssumption
  <2>2. D!Begin(v, c)
    BY <1>4 DEF D!Actuate
  <2> HIDE DEF c
  <2> QED
    BY <2>1, <2>2, BeginKeepsWorld
<1> QED
  BY <1>1, <1>2, <1>3, <1>4 DEF D!Next

(* In every world the invariant of its views, lock and logs holds: nothing *)
(* that a task saves was overtaken while it was inside the lock.           *)
THEOREM WorldIsInvariant ==
  D!DependencyAssumption => (D!Spec => []D!WorldInvariant)
<1> SUFFICES ASSUME D!DependencyAssumption
             PROVE  D!Spec => []D!WorldInvariant
  OBVIOUS
<1>1. D!Init => D!WorldInvariant
  BY WorldBegins
<1>2. D!WorldInvariant /\ [D!Next]_D!vars => D!WorldInvariant'
  BY WorldStep
<1> QED
  BY <1>1, <1>2, PTL DEF D!Spec

(* A shared state is what the committed acts of all its actors make of it, *)
(* one step of history for each: no actor's save overwrites another's.     *)
THEOREM CommittedEffectsAreKept ==
  D!DependencyAssumption => (D!Spec => []D!NoCommittedEffectIsLost)
<1>1. D!WorldInvariant => D!NoCommittedEffectIsLost
  BY DEF D!WorldInvariant, D!LogsAreFollowed, D!Follows, D!NoCommittedEffectIsLost
<1> QED
  BY <1>1, WorldIsInvariant, PTL

(* Every open view is a view of the registered state: the world ends with  *)
(* its last view and never before.                                         *)
THEOREM OpenViewsShareTheWorld ==
  D!DependencyAssumption => (D!Spec => []D!TheWorldIsShared)
<1>1. D!WorldInvariant => D!TheWorldIsShared
  BY DEF D!WorldInvariant
<1> QED
  BY <1>1, WorldIsInvariant, PTL

(* No committed act changes more assets than the catalog allows: what would*)
(* exceed the bounds is refused as a whole, whatever the dependencies.     *)
THEOREM CommitsAreBounded ==
  D!DependencyAssumption => (D!Spec => []D!ImpactIsBounded)
<1>1. D!WorldInvariant => D!ImpactIsBounded
  BY DEF D!WorldInvariant, D!LogsAreFollowed, D!Follows, D!ImpactIsBounded
<1> QED
  BY <1>1, WorldIsInvariant, PTL

(* What an actor sees when it looks is its lag behind what it loaded.      *)
LEMMA SeesStep ==
  ASSUME D!DependencyAssumption, D!WorldInvariant, [D!Next]_D!vars
  PROVE  [D!SeesWithLag]_D!vars
<1> SUFFICES ASSUME NEW v \in Views, seen'[v] # seen[v], seen'[v] # -1
             PROVE  seen'[v] + Lag[v] <= Len(D!State(v).history) - 1 \/ seen'[v] = 0
  BY DEF D!SeesWithLag
<1>1. seen \in [Views -> Nat \cup {-1}]
  BY WorldParts DEF ViewTypes
<1>2. PICK u \in Views : D!Work(u) /\ seen' = [seen EXCEPT ![u] = D!ObservedStep(u)]
  BY <1>1 DEF D!Next, D!Materialize, D!Teardown, D!Rejoin, D!Observe, D!Checkpoint,
     D!Restore, D!Actuate, D!Begin, D!Enter, D!Work, D!vars
<1>3. u = v /\ seen'[v] = D!ObservedStep(v) /\ depCall[v].at = "inside"
  BY <1>1, <1>2 DEF D!Work
<1>4. of[v] \in DOMAIN states /\ D!State(v) = states[of[v]]
      /\ loaded[v] = D!Content(D!State(v))
  BY <1>3, WorldParts, CallersHaveStates DEF D!InsideIsCurrent
<1>5. Len(loaded[v].history) = Len(D!State(v).history)
      /\ Len(loaded[v].history) \in 1..(MaxCommits + 1) /\ Lag[v] \in Nat
      /\ MaxCommits \in Nat
  BY <1>4, WorldParts, SharedFields DEF D!Content, D!DependencyAssumption
<1> QED
  BY <1>3, <1>5 DEF D!ObservedStep

(* The step an actor sees is its lag behind the state it was read from.    *)
THEOREM ActorsSeeWithLag ==
  D!DependencyAssumption => (D!Spec => [][D!SeesWithLag]_D!vars)
<1> SUFFICES ASSUME D!DependencyAssumption
             PROVE  D!Spec => [][D!SeesWithLag]_D!vars
  OBVIOUS
<1>1. D!WorldInvariant /\ [D!Next]_D!vars => [D!SeesWithLag]_D!vars
  BY SeesStep
<1> QED
  BY <1>1, WorldIsInvariant, PTL DEF D!Spec


-----------------------------------------------------------------------------
(* SREGym: the life of main.py and its process group *)

(* The subprocess is unreaped, so that its group can be found, until the   *)
(* constructor polls its exit or a kill waits for it; a cause is known     *)
(* once the constructor failed.                                            *)
ProcessIsFound ==
  /\ phase \in {"exit", "api", "mcp", "pause", "ready", "term"} => main \in {"running", "exited"}
  /\ phase \in {"unbuilt", "exit", "api", "mcp", "pause", "ready"} => why = "none"
  /\ phase = "getpgid" => main \in {"running", "exited"} \/ (main = "reaped" /\ why = "exit")
  /\ why = "exit" => main = "reaped"

(* No signal is sent before the kill.  From then on a child that runs      *)
(* since before it got SIGTERM, or there was no group to be found; one     *)
(* that came later got nothing; and none is left after SIGKILL.            *)
ChildrenAreSignalled ==
  IF phase \in {"wait", "wait9", "failed", "closed"}
    THEN /\ kids = "running" /\ why # "exit" => hit = {"TERM"}
         /\ kids \in {"none", "late"} => hit = {}
         /\ phase = "wait9" => ~S!Alive
    ELSE hit = {} /\ kids # "late"

(* A port accepts connections only through the process that opened it. *)
PortsHaveProcesses ==
  ("api" \in serving => main = "running") /\ ("mcp" \in serving => S!Alive)

LifeInvariant ==
  /\ ready \subseteq reached /\ ready \subseteq S!Surfaces /\ reached \subseteq S!Surfaces
  /\ phase = "ready" => ready = S!Surfaces
  /\ ProcessIsFound /\ ChildrenAreSignalled /\ PortsHaveProcesses
  /\ S!NothingIsHeld

(* Nothing has been started yet. *)
LEMMA LifeInit == ASSUME S!Init PROVE LifeInvariant
BY DEF S!Init, LifeInvariant, ProcessIsFound, ChildrenAreSignalled, PortsHaveProcesses,
   S!Alive, S!NothingIsHeld, S!Gone

(* The world outside moves neither the constructor nor the kill. *)
LEMMA WorldKeepsLife == ASSUME LifeInvariant, S!World PROVE LifeInvariant'
<1>1. UNCHANGED <<phase, task, ready, log, why, reached, hit>>
  BY DEF S!World, S!SpawnKids, S!MainExits, S!KidsExit, S!StageMoves, S!Tick, S!Serve,
     S!lifeVars, S!procVars
<1>2. \/ UNCHANGED main
      \/ main = "running" /\ main' = "exited" /\ serving' = serving \ {"api"}
  BY DEF S!World, S!SpawnKids, S!MainExits, S!KidsExit, S!StageMoves, S!Tick, S!Serve, S!procVars
<1>3. \/ UNCHANGED kids
      \/ kids' = "gone" /\ serving' = serving \ {"mcp"}
      \/ /\ kids' = IF phase = "wait" THEN "late" ELSE "running"
         /\ kids = "none" /\ main = "running" /\ phase \notin {"wait9", "failed", "closed"}
  BY DEF S!World, S!SpawnKids, S!MainExits, S!KidsExit, S!StageMoves, S!Tick, S!Serve, S!procVars
<1>4. /\ "api" \in serving' => "api" \in serving \/ main' = "running"
      /\ "mcp" \in serving' => "mcp" \in serving \/ S!Alive'
  BY DEF S!World, S!SpawnKids, S!MainExits, S!KidsExit, S!StageMoves, S!Tick, S!Serve, S!procVars,
     S!Alive
<1>6. ProcessIsFound'
  BY <1>1, <1>2 DEF LifeInvariant, ProcessIsFound
<1>7. ChildrenAreSignalled'
  BY <1>1, <1>2, <1>3 DEF LifeInvariant, ProcessIsFound, ChildrenAreSignalled, S!Alive, S!Gone
<1>8. PortsHaveProcesses'
  BY <1>1, <1>2, <1>3, <1>4 DEF LifeInvariant, PortsHaveProcesses, S!Alive
<1>9. S!NothingIsHeld'
  BY <1>1, <1>2, <1>6, <1>8
     DEF LifeInvariant, ProcessIsFound, PortsHaveProcesses, S!NothingIsHeld, S!Gone
<1> QED
  BY <1>1, <1>6, <1>7, <1>8, <1>9 DEF LifeInvariant

(* Neither does a call on the open environment. *)
LEMMA CallsKeepLife == ASSUME LifeInvariant, S!Calls PROVE LifeInvariant'
<1>1. UNCHANGED <<main, kids, serving, hit, phase, task, ready, log, why, reached>>
  <2>1. CASE \/ \E op \in SregymOps : S!Actuate(op)
             \/ S!ConnectFails \/ S!Connects \/ S!ToolAnswers \/ S!ToolFails
    BY <2>1 DEF S!Actuate, S!ConnectFails, S!Connects, S!ToolAnswers, S!ToolFails,
       S!lifeVars, S!procVars
  <2>2. CASE \/ S!Cancelled \/ S!Closes \/ S!After \/ S!Observe \/ S!Poll
             \/ \E e \in S!Stages \cup {None} : S!Verify(e)
    BY <2>2 DEF S!Cancelled, S!Closes, S!After, S!Observe, S!Poll, S!Verify, S!lifeVars, S!procVars
  <2> QED
    BY <2>1, <2>2 DEF S!Calls
<1> QED
  BY <1>1 DEF LifeInvariant, ProcessIsFound, ChildrenAreSignalled, PortsHaveProcesses,
     S!Alive, S!NothingIsHeld, S!Gone

(* The constructor, step by step. *)
LEMMA StartKeepsLife ==
  ASSUME LifeInvariant, S!Spawn \/ S!CheckExit \/ S!CheckApi \/ S!CheckMcp \/ S!Pause
  PROVE  LifeInvariant'
<1> USE DEF LifeInvariant, ProcessIsFound, ChildrenAreSignalled, PortsHaveProcesses,
     S!Alive, S!NothingIsHeld, S!Gone
<1>1. CASE S!Spawn
  BY <1>1 DEF S!Spawn
<1>2. CASE S!CheckExit
  BY <1>2 DEF S!CheckExit
<1>3. CASE S!CheckApi
  BY <1>3 DEF S!CheckApi, S!procVars, S!Surfaces
<1>4. CASE S!CheckMcp
  <2>1. S!Probed \subseteq S!Surfaces
    BY DEF S!Probed, S!Surfaces
  <2>2. phase' = "ready" => ready' = S!Surfaces
    BY <1>4 DEF S!CheckMcp
  <2> QED
    BY <1>4, <2>1, <2>2 DEF S!CheckMcp, S!procVars
<1>5. CASE S!Pause
  BY <1>5 DEF S!Pause, S!procVars
<1> QED
  BY <1>1, <1>2, <1>3, <1>4, <1>5

(* The kill of the process group. *)
LEMMA KillKeepsLife ==
  ASSUME LifeInvariant,
         S!GetPgid \/ S!Terminate \/ S!WaitReaps \/ S!WaitTimesOut \/ S!Wait9Raises \/ S!Teardown
  PROVE  LifeInvariant'
<1> USE DEF LifeInvariant, ProcessIsFound, ChildrenAreSignalled, PortsHaveProcesses,
     S!Alive, S!NothingIsHeld, S!Gone
<1>1. CASE S!GetPgid
  BY <1>1 DEF S!GetPgid, S!procVars
<1>2. CASE S!Terminate
  BY <1>2 DEF S!Terminate
<1>3. CASE S!WaitReaps
  BY <1>3 DEF S!WaitReaps, S!Killed
<1>4. CASE S!WaitTimesOut
  <2>1. ~S!Alive'
    BY <1>4 DEF S!WaitTimesOut, S!Alive
  <2> QED
    BY <1>4, <2>1 DEF S!WaitTimesOut
<1>5. CASE S!Wait9Raises
  BY <1>5 DEF S!Wait9Raises, S!procVars
<1>6. CASE S!Teardown
  BY <1>6 DEF S!Teardown, S!procVars
<1> QED
  BY <1>1, <1>2, <1>3, <1>4, <1>5, <1>6

(* Every step of SREGym keeps what its life rests on. *)
LEMMA LifeStep == ASSUME LifeInvariant, [S!Next]_S!vars PROVE LifeInvariant'
<1>1. CASE UNCHANGED S!vars
  BY <1>1 DEF S!vars, S!procVars, S!lifeVars, LifeInvariant, ProcessIsFound,
     ChildrenAreSignalled, PortsHaveProcesses, S!Alive, S!NothingIsHeld, S!Gone
<1> QED
  BY <1>1, WorldKeepsLife, CallsKeepLife, StartKeepsLife, KillKeepsLife DEF S!Next, S!Life

(* When a failed start or a teardown is over main.py is reaped, the log    *)
(* closed, a port held only by a process that is still there, and a child  *)
(* left only where SIGKILL was not sent, in the cases the properties name; *)
(* and a constructor that returned reached both surfaces.                  *)
THEOREM SregymLetsGo ==
  S!Spec => [](S!NothingIsHeld /\ S!SurvivorsOutliveTheSignal /\ S!ReadyWasReachable)
<1>1. LifeInvariant => S!NothingIsHeld /\ S!SurvivorsOutliveTheSignal /\ S!ReadyWasReachable
  BY DEF LifeInvariant, ChildrenAreSignalled, S!Alive, S!SurvivorsOutliveTheSignal, S!Gone,
     S!ReadyWasReachable
<1> QED
  BY <1>1, LifeInit, LifeStep, PTL DEF S!Spec

-----------------------------------------------------------------------------
(* SREGym: calls on the open environment *)

(* What a call has done follows from where it is: nothing while it         *)
(* connects or polls, and an answered act once it only reads the status.   *)
CallIsOnce ==
  /\ call.at \in {"idle", "connect", "calling", "poll"} => call.done = 0 /\ ~call.answered
  /\ call.at = "close" => call.op = "tool"
  /\ call.at \in {"close", "after"} =>
       IF call.op = "tool" THEN call.done = 1 /\ call.answered
                           ELSE call.op = "status" /\ call.done = 0
  /\ call.at = "poll" <=> call.op = "verify"
  /\ call.at \in {"connect", "calling"} => call.op = "tool"

CallRecords ==
  [op : {"none", "tool", "status", "verify"},
   at : {"idle", "connect", "calling", "close", "after", "poll"}, tries : 0..(Retries - 1),
   expect : S!Stages \cup {None}, seen : S!Stages \cup {None}, from : S!Stages,
   done : {0, 1}, answered : BOOLEAN, cut : {FALSE}]

CallInvariant ==
  /\ stage \in S!Stages
  /\ call \in CallRecords
  /\ call.from =< stage
  /\ CallIsOnce
  /\ S!ToolsActOnce /\ S!VerdictsAreObserved

(* Retries is positive, and no call asks for more than the code offers. *)
SregymConstants == S!SregymAssumption

(* No call has begun, so none has done anything. *)
LEMMA CallInit == ASSUME SregymConstants, S!Init PROVE CallInvariant
<1>1. 0 \in S!Stages /\ 0 \in 0..(Retries - 1)
  BY DEF SregymConstants, S!SregymAssumption, S!Stages
<1>2. call = S!NoCall /\ stage = 0 /\ result = S!NoResult
  BY DEF S!Init
<1>3. CallIsOnce /\ S!ToolsActOnce /\ S!VerdictsAreObserved
  BY <1>2 DEF CallIsOnce, S!ToolsActOnce, S!VerdictsAreObserved, S!NoCall, S!NoResult
<1> QED
  BY <1>1, <1>2, <1>3 DEF CallInvariant, S!NoCall, CallRecords

(* An answer ends the call and says of it what was so at its moment. *)
LEMMA CallAnswers ==
  ASSUME NEW c, NEW end, NEW passed, S!Answer(c, end, passed)
  PROVE  /\ call' = S!NoCall
         /\ result'.op = c.op /\ result'.end = end /\ result'.passed = passed
         /\ result'.expect = c.expect /\ result'.seen = c.seen /\ result'.from = c.from
         /\ result'.till = stage /\ result'.done = c.done /\ result'.answered = c.answered
         /\ result'.cut = c.cut /\ result'.late = expired
BY DEF S!Answer

(* After an answer the next call has not begun. *)
LEMMA NoCallIsSound ==
  ASSUME SregymConstants, stage' \in S!Stages, call' = S!NoCall
  PROVE  /\ call' \in CallRecords
         /\ call'.from =< stage' /\ CallIsOnce' /\ call'.done =< 1
<1>1. 0 \in S!Stages /\ 0 \in 0..(Retries - 1) /\ 0 =< stage'
  BY DEF SregymConstants, S!SregymAssumption, S!Stages
<1>2. CallIsOnce'
  BY DEF CallIsOnce, S!NoCall
<1> QED
  BY <1>1, <1>2 DEF S!NoCall, CallRecords

(* An answer that is not one of verify() keeps the invariant, if it says   *)
(* of a tool what it did.                                                  *)
LEMMA AnswersKeepCalls ==
  ASSUME SregymConstants, CallInvariant, NEW c, NEW end, NEW passed,
         S!Answer(c, end, passed), stage' \in S!Stages, c.op # "verify",
         c.op = "tool" /\ end = "returned" => c.done = 1 /\ c.answered,
         c.op = "tool" /\ end = "raised" /\ c.answered => c.cut /\ c.done = 1
  PROVE  CallInvariant'
<1>1. S!ToolsActOnce' /\ S!VerdictsAreObserved'
  BY CallAnswers, NoCallIsSound DEF S!ToolsActOnce, S!VerdictsAreObserved
<1> QED
  BY <1>1, CallAnswers, NoCallIsSound DEF CallInvariant

(* A call that goes on keeps it too. *)
LEMMA GoingOnKeepsCalls ==
  ASSUME SregymConstants, CallInvariant, UNCHANGED result, stage' \in S!Stages,
         stage =< stage',
         call' \in CallRecords,
         call'.from =< stage, CallIsOnce'
  PROVE  CallInvariant'
<1>1. stage \in Nat /\ stage' \in Nat /\ call'.from \in Nat
  BY DEF CallInvariant, S!Stages, SregymConstants, S!SregymAssumption, CallRecords
<1>2. S!ToolsActOnce' /\ S!VerdictsAreObserved'
  BY DEF CallInvariant, S!ToolsActOnce, S!VerdictsAreObserved, CallRecords
<1> QED
  BY <1>1, <1>2 DEF CallInvariant

(* A call that goes to its next step or attempt is still a call. *)
LEMMA NextStepIsACall ==
  ASSUME NEW c \in CallRecords,
         NEW on \in {"idle", "connect", "calling", "close", "after", "poll"}
  PROVE  [c EXCEPT !.at = on] \in CallRecords
<1>1. [c EXCEPT !.at = on] =
        [op |-> c.op, at |-> on, tries |-> c.tries, expect |-> c.expect, seen |-> c.seen,
         from |-> c.from, done |-> c.done, answered |-> c.answered, cut |-> c.cut]
  BY SMTT(30) DEF CallRecords
<1>2. /\ c.op \in {"none", "tool", "status", "verify"} /\ c.tries \in 0..(Retries - 1)
      /\ c.expect \in S!Stages \cup {None} /\ c.seen \in S!Stages \cup {None}
      /\ c.from \in S!Stages /\ c.done \in {0, 1} /\ c.answered \in BOOLEAN
      /\ c.cut \in {FALSE}
  BY DEF CallRecords
<1> QED
  BY <1>1, <1>2 DEF CallRecords

(* So is a call that tries again. *)
LEMMA NextAttemptIsACall ==
  ASSUME NEW c \in CallRecords, NEW n \in 0..(Retries - 1)
  PROVE  [c EXCEPT !.tries = n] \in CallRecords
<1>1. [c EXCEPT !.tries = n] =
        [op |-> c.op, at |-> c.at, tries |-> n, expect |-> c.expect, seen |-> c.seen,
         from |-> c.from, done |-> c.done, answered |-> c.answered, cut |-> c.cut]
  BY SMTT(30) DEF CallRecords
<1>2. /\ c.op \in {"none", "tool", "status", "verify"}
      /\ c.at \in {"idle", "connect", "calling", "close", "after", "poll"}
      /\ c.expect \in S!Stages \cup {None} /\ c.seen \in S!Stages \cup {None}
      /\ c.from \in S!Stages /\ c.done \in {0, 1} /\ c.answered \in BOOLEAN
      /\ c.cut \in {FALSE}
  BY DEF CallRecords
<1> QED
  BY <1>1, <1>2 DEF CallRecords

(* The world outside changes no call; the stage it reports only rises. *)
LEMMA StagesRise ==
  ASSUME SregymConstants, CallInvariant, S!World \/ S!Life \/ S!Teardown
  PROVE  UNCHANGED <<call, result>> /\ stage' \in S!Stages /\ stage =< stage'
<1>0. stage \in S!Stages /\ stage \in Nat /\ MaxStage \in Nat
  BY DEF CallInvariant, S!Stages, SregymConstants, S!SregymAssumption
<1>1. CASE S!StageMoves
  BY <1>0, <1>1 DEF S!StageMoves, S!callVars, S!Stages
<1>2. CASE S!World /\ ~S!StageMoves
  BY <1>0, <1>2 DEF S!World, S!SpawnKids, S!MainExits, S!KidsExit, S!Tick, S!Serve, S!callVars,
     S!procVars
<1>3. CASE S!Life
  BY <1>0, <1>3 DEF S!Life, S!Spawn, S!CheckExit, S!CheckApi, S!CheckMcp, S!Pause, S!GetPgid,
     S!Terminate, S!WaitReaps, S!WaitTimesOut, S!Wait9Raises, S!callVars, S!procVars
<1>4. CASE S!Teardown
  BY <1>0, <1>4 DEF S!Teardown, S!callVars, S!procVars
<1> QED
  BY <1>1, <1>2, <1>3, <1>4

(* A call that begins has done nothing yet. *)
LEMMA BeginningsAreSound ==
  ASSUME SregymConstants, CallInvariant, NEW op, NEW on, NEW expect \in S!Stages \cup {None},
         S!Begin(op, on, expect), UNCHANGED <<stage, result>>,
         \/ op = "tool" /\ on = "connect"
         \/ op = "status" /\ on = "after"
         \/ op = "verify" /\ on = "poll"
  PROVE  CallInvariant'
<1>1. /\ call' = [op |-> op, at |-> on, tries |-> 0, expect |-> expect, seen |-> None,
                  from |-> stage, done |-> 0, answered |-> FALSE, cut |-> FALSE]
  BY DEF S!Begin, S!NoCall
<1>2. stage \in S!Stages /\ 0 \in 0..(Retries - 1) /\ stage =< stage
  BY DEF CallInvariant, S!Stages, SregymConstants, S!SregymAssumption
<1>3. CallIsOnce'
  BY <1>1 DEF CallIsOnce
<1>4. call'.from =< stage /\ stage' \in S!Stages /\ stage =< stage'
  BY <1>1, <1>2
<1>5. call' \in CallRecords
  BY <1>1, <1>2 DEF CallRecords
<1> QED
  BY <1>3, <1>4, <1>5, GoingOnKeepsCalls

(* Connecting, calling, reading the status and polling keep the record. *)
LEMMA CallsStep ==
  ASSUME SregymConstants, CallInvariant, S!Calls
  PROVE  CallInvariant'
<1>0. /\ stage \in S!Stages /\ stage \in Nat /\ MaxStage \in Nat /\ Retries \in Nat
      /\ call \in CallRecords
      /\ call.from =< stage /\ CallIsOnce
  BY DEF CallInvariant, S!Stages, SregymConstants, S!SregymAssumption
<1>1. ASSUME NEW op \in SregymOps, S!Actuate(op) PROVE CallInvariant'
  <2>1. UNCHANGED stage
    BY <1>1 DEF S!Actuate, S!procVars
  <2>2. CASE op = "tool"
    BY <1>1, <2>1, <2>2, BeginningsAreSound DEF S!Actuate
  <2>3. CASE op = "status"
    BY <1>1, <2>1, <2>3, BeginningsAreSound DEF S!Actuate
  <2>4. CASE op = "bad"
    <3>1. S!Answer([S!NoCall EXCEPT !.op = op], "raised", FALSE)
      BY <1>1, <2>4 DEF S!Actuate
    <3>2. [S!NoCall EXCEPT !.op = op].op = "bad"
      BY <2>4 DEF S!NoCall
    <3> QED
      BY <1>0, <2>1, <3>1, <3>2, AnswersKeepCalls
  <2> QED
    BY <1>1, <2>2, <2>3, <2>4 DEF S!Actuate
<1>2. CASE S!ConnectFails
  <2>1. call.at = "connect" /\ UNCHANGED stage
    BY <1>2 DEF S!ConnectFails, S!procVars
  <2>2. CASE call.tries + 1 < Retries
    <3>1. call' = [call EXCEPT !.tries = @ + 1] /\ UNCHANGED result
      BY <1>2, <2>2 DEF S!ConnectFails
    <3>2. /\ call'.at = call.at /\ call'.op = call.op /\ call'.done = call.done
          /\ call'.answered = call.answered /\ call'.from = call.from
      BY <1>0, <3>1
    <3>3. CallIsOnce'
      BY <1>0, <2>1, <3>2 DEF CallIsOnce
    <3>4. call.tries + 1 \in 0..(Retries - 1)
      BY <1>0, <2>2 DEF CallRecords
    <3>5. call' \in CallRecords
      BY <1>0, <3>1, <3>4, NextAttemptIsACall
    <3> QED
      BY <1>0, <2>1, <3>1, <3>2, <3>3, <3>5, GoingOnKeepsCalls
  <2>3. CASE ~(call.tries + 1 < Retries)
    <3>1. S!Answer(call, "raised", FALSE)
      BY <1>2, <2>3 DEF S!ConnectFails
    <3> QED
      BY <1>0, <2>1, <3>1, AnswersKeepCalls DEF CallIsOnce
  <2> QED
    BY <2>2, <2>3
<1>3. CASE S!Connects
  <2>1. call.at = "connect" /\ UNCHANGED <<stage, result>> /\ call' = [call EXCEPT !.at = "calling"]
    BY <1>3 DEF S!Connects, S!procVars
  <2>2. /\ call'.at = "calling" /\ call'.op = call.op /\ call'.done = call.done
        /\ call'.answered = call.answered /\ call'.from = call.from
    BY <1>0, <2>1
  <2>3. CallIsOnce'
    BY <1>0, <2>1, <2>2 DEF CallIsOnce
  <2>4. call' \in CallRecords
    BY <1>0, <2>1, NextStepIsACall
  <2> QED
    BY <1>0, <2>1, <2>2, <2>3, <2>4, GoingOnKeepsCalls
<1>4. CASE S!ToolAnswers
  <2>1. /\ call.at = "calling" /\ UNCHANGED result /\ S!Effect
        /\ call' = [call EXCEPT !.at = "close", !.done = @ + 1, !.answered = TRUE]
    BY <1>4 DEF S!ToolAnswers
  <2>2. call.done = 0 /\ call.op = "tool"
    BY <1>0, <2>1 DEF CallIsOnce
  <2>3. /\ call'.at = "close" /\ call'.op = "tool" /\ call'.done = 1
        /\ call'.answered = TRUE /\ call'.from = call.from
    BY <1>0, <2>1, <2>2
  <2>4. CallIsOnce'
    BY <2>3 DEF CallIsOnce
  <2>5. stage' \in S!Stages /\ stage =< stage'
    BY <1>0, <2>1 DEF S!Effect, S!Stages
  <2>6. call' = [call EXCEPT !.at = "close", !.done = 1, !.answered = TRUE]
    BY <2>1, <2>2
  <2>7. call' \in CallRecords
    BY <1>0, <2>6 DEF CallRecords
  <2> QED
    BY <1>0, <2>1, <2>3, <2>4, <2>5, <2>7, GoingOnKeepsCalls
<1>5. CASE S!ToolFails
  <2>1. PICK acted \in BOOLEAN :
          /\ IF acted THEN "mcp" \in serving /\ S!Effect ELSE UNCHANGED stage
          /\ S!Answer([call EXCEPT !.done = @ + IF acted THEN 1 ELSE 0], "raised", FALSE)
    BY <1>5 DEF S!ToolFails
  <2> DEFINE c == [call EXCEPT !.done = @ + IF acted THEN 1 ELSE 0]
  <2>2. call.at = "calling" /\ ~call.answered /\ call.op = "tool"
    BY <1>0, <1>5 DEF S!ToolFails, CallIsOnce
  <2>3. c.op = "tool" /\ ~c.answered
    BY <1>0, <2>2
  <2>4. stage' \in S!Stages
    BY <1>0, <2>1 DEF S!Effect, S!Stages
  <2> QED
    BY <2>1, <2>3, <2>4, AnswersKeepCalls
<1>6. CASE S!Cancelled
  <2> DEFINE c == [call EXCEPT !.cut = TRUE]
  <2>1. call.at \in {"connect", "close"} /\ UNCHANGED stage /\ S!Answer(c, "raised", FALSE)
    BY <1>6 DEF S!Cancelled, S!procVars
  <2>2. c.op = call.op /\ c.done = call.done /\ c.answered = call.answered /\ c.cut = TRUE
    BY <1>0 DEF CallRecords
  <2>3. c.op # "verify" /\ (c.op = "tool" /\ c.answered => c.done = 1)
    BY <1>0, <2>1, <2>2 DEF CallIsOnce
  <2> HIDE DEF c
  <2> QED
    BY <1>0, <2>1, <2>2, <2>3, AnswersKeepCalls
<1>10. CASE S!Closes
  <2>1. call.at = "close" /\ UNCHANGED <<stage, result>> /\ call' = [call EXCEPT !.at = "after"]
    BY <1>10 DEF S!Closes, S!procVars
  <2>2. /\ call'.at = "after" /\ call'.op = call.op /\ call'.done = call.done
        /\ call'.answered = call.answered /\ call'.from = call.from
    BY <1>0, <2>1
  <2>3. CallIsOnce'
    BY <1>0, <2>1, <2>2 DEF CallIsOnce
  <2>4. call' \in CallRecords
    BY <1>0, <2>1, NextStepIsACall
  <2> QED
    BY <1>0, <2>1, <2>2, <2>3, <2>4, GoingOnKeepsCalls
<1>7. CASE S!After
  <2>1. PICK s \in S!Status : S!Answer([call EXCEPT !.seen = s], "returned", FALSE)
    BY <1>7 DEF S!After
  <2> DEFINE c == [call EXCEPT !.seen = s]
  <2>2. call.at = "after" /\ UNCHANGED stage
    BY <1>7 DEF S!After, S!procVars
  <2>3. c.op = call.op /\ c.done = call.done /\ c.answered = call.answered
    BY <1>0
  <2>4. c.op # "verify" /\ (c.op = "tool" => c.done = 1 /\ c.answered)
    BY <1>0, <2>2, <2>3 DEF CallIsOnce
  <2> QED
    BY <1>0, <2>1, <2>2, <2>4, AnswersKeepCalls
<1>8. CASE S!Observe
  <2>1. PICK s, end : S!Answer([S!NoCall EXCEPT !.op = "observe", !.seen = s], end, FALSE)
    BY <1>8 DEF S!Observe
  <2>2. UNCHANGED stage /\ [S!NoCall EXCEPT !.op = "observe", !.seen = s].op = "observe"
    BY <1>8 DEF S!Observe, S!procVars, S!NoCall
  <2> QED
    BY <1>0, <2>1, <2>2, AnswersKeepCalls
<1>9. CASE S!Poll
  <2>1. PICK s \in S!Status :
          IF S!Matches(s, call.expect) \/ expired
            THEN S!Answer([call EXCEPT !.seen = s], "returned", S!Matches(s, call.expect))
            ELSE call' = [call EXCEPT !.seen = s] /\ UNCHANGED result
    BY <1>9 DEF S!Poll
  <2> DEFINE c == [call EXCEPT !.seen = s]
  <2>2. call.at = "poll" /\ UNCHANGED stage
    BY <1>9 DEF S!Poll, S!procVars
  <2>3. s \in {stage, None} /\ s \in S!Stages \cup {None}
    BY <1>0 DEF S!Status
  <2>4. /\ c.op = call.op /\ c.done = call.done /\ c.answered = call.answered
        /\ c.expect = call.expect /\ c.seen = s /\ c.from = call.from /\ c.at = call.at
    BY <1>0
  <2>5. CASE S!Matches(s, call.expect) \/ expired
    <3>1. S!Answer(c, "returned", S!Matches(s, call.expect))
      BY <2>1, <2>5
    <3>2. /\ call' = S!NoCall /\ result'.op = "verify"
          /\ result'.passed = S!Matches(s, call.expect)
          /\ result'.expect = call.expect /\ result'.seen = s /\ result'.from = call.from
          /\ result'.till = stage /\ result'.late = expired
      <4>1. call.op = "verify"
        BY <1>0, <2>2 DEF CallIsOnce
      <4> HIDE DEF c
      <4> QED
        BY <2>4, <3>1, <4>1, CallAnswers
    <3>3. S!VerdictsAreObserved'
      <4>1. CASE S!Matches(s, call.expect)
        <5>1. call.expect # None => s = call.expect /\ s = stage
          BY <2>3, <4>1 DEF S!Matches
        <5>2. call.from \in Nat /\ call.expect # None => call.expect \in call.from..stage
          BY <1>0, <5>1 DEF S!Stages
        <5>3. call.from \in Nat
          BY <1>0 DEF S!Stages, CallRecords
        <5> QED
          BY <3>2, <4>1, <5>1, <5>2, <5>3 DEF S!VerdictsAreObserved
      <4>2. CASE ~S!Matches(s, call.expect)
        <5>1. expired /\ s # call.expect
          BY <2>5, <4>2 DEF S!Matches
        <5> QED
          BY <3>2, <4>2, <5>1 DEF S!VerdictsAreObserved
      <4> QED
        BY <4>1, <4>2
    <3>4. S!ToolsActOnce'
      BY <1>0, <2>2, <3>2, NoCallIsSound DEF S!ToolsActOnce
    <3> QED
      BY <1>0, <2>2, <3>2, <3>3, <3>4, NoCallIsSound DEF CallInvariant
  <2>6. CASE ~(S!Matches(s, call.expect) \/ expired)
    <3>1. call' = c /\ UNCHANGED result
      BY <2>1, <2>6
    <3>2. CallIsOnce'
      BY <1>0, <2>2, <2>4, <3>1 DEF CallIsOnce
    <3>3. call' \in CallRecords
      BY <1>0, <2>3, <3>1 DEF CallRecords
    <3> QED
      BY <1>0, <2>2, <2>4, <3>1, <3>2, <3>3, GoingOnKeepsCalls
  <2> QED
    BY <2>5, <2>6
<1>11. ASSUME NEW e \in S!Stages \cup {None}, S!Verify(e) PROVE CallInvariant'
  <2>1. S!Begin("verify", "poll", e) /\ UNCHANGED <<stage, result>>
    BY <1>11 DEF S!Verify, S!procVars
  <2> QED
    BY <2>1, BeginningsAreSound
<1> QED
  BY <1>1, <1>2, <1>3, <1>4, <1>5, <1>6, <1>7, <1>8, <1>9, <1>10, <1>11
     DEF S!Calls

(* Every step of SREGym keeps what is known of the call. *)
LEMMA CallStep ==
  ASSUME SregymConstants, CallInvariant, [S!Next]_S!vars PROVE CallInvariant'
<1>1. CASE UNCHANGED S!vars \/ S!World \/ S!Life \/ S!Teardown
  <2>1. UNCHANGED <<call, result>> /\ stage' \in S!Stages /\ stage =< stage'
    <3>1. CASE UNCHANGED S!vars
      <4>1. stage \in S!Stages /\ stage \in Nat
        BY DEF CallInvariant, S!Stages, SregymConstants, S!SregymAssumption
      <4> QED
        BY <3>1, <4>1 DEF S!vars, S!procVars, S!callVars
    <3> QED
      BY <1>1, <3>1, StagesRise
  <2>2. CallIsOnce'
    BY <2>1 DEF CallInvariant, CallIsOnce
  <2>3. call'.from =< stage
    BY <2>1 DEF CallInvariant
  <2> QED
    BY <2>1, <2>2, <2>3, GoingOnKeepsCalls DEF CallInvariant
<1> QED
  BY <1>1, CallsStep DEF S!Next

(* A tool acts at most once for one actuate(), whatever is retried, and an *)
(* answered act is given up only when the kernel's timeout cuts the close  *)
(* of its client; a pass of verify() is a stage the conductor was in       *)
(* during the call, a refusal a last read past the deadline.               *)
THEOREM SregymCalls ==
  ASSUME SregymConstants PROVE S!Spec => [](S!ToolsActOnce /\ S!VerdictsAreObserved)
<1>1. CallInvariant => S!ToolsActOnce /\ S!VerdictsAreObserved
  BY DEF CallInvariant
<1> QED
  BY <1>1, CallInit, CallStep, PTL DEF S!Spec

-----------------------------------------------------------------------------
(* Terraform: runs, containers and verdicts *)

Runs ==
  [at : {"idle", "read", "change", "write", "poll", "check"}, cmd : T!Cmds \cup {None},
   by : {None, "actuate", "teardown"}, had : Envs \cup {None}, new : Envs \cup {None},
   expired : BOOLEAN, want : BOOLEAN]

(* Every environment has a place for each thing; a handler runs in open    *)
(* environments only, and what is closed stays closed.                     *)
RunsAreOfOpenOnes ==
  /\ DOMAIN box = Envs /\ DOMAIN out = Envs /\ DOMAIN verdict = Envs
  /\ tf \in [T!Dirs -> Envs \cup {None}]
  /\ tfEnv \in [Envs -> {"none", "open", "closed"}]
  /\ run \in [Envs -> Runs]
  /\ \A e \in Envs : run[e] # T!Idle => tfEnv[e] = "open"

(* A teardown that came to a clean end is over, and saw the container's    *)
(* end.                                                                    *)
CleanEndsAreOver ==
  \A e \in Envs : out[e] = "clean" => tfEnv[e] = "closed" /\ box[e] = "absent"

TfInvariant == RunsAreOfOpenOnes /\ CleanEndsAreOver /\ T!VerdictsAreInspected

(* An environment without a handler has a run like any other. *)
LEMMA IdleIsARun == T!Idle \in Runs
BY DEF T!Idle, Runs, T!Cmds

(* No handler runs, and nothing has been answered. *)
LEMMA TfInit == ASSUME T!Init PROVE TfInvariant
<1>1. RunsAreOfOpenOnes
  BY IdleIsARun DEF T!Init, RunsAreOfOpenOnes
<1>2. CleanEndsAreOver
  BY DEF T!Init, CleanEndsAreOver
<1>3. T!VerdictsAreInspected
  BY DEF T!Init, T!VerdictsAreInspected, T!NoVerdict
<1> QED
  BY <1>1, <1>2, <1>3 DEF TfInvariant

(* A step of e's handler or of a call that leaves the containers and ends  *)
(* alone.                                                                  *)
LEMMA TfGoesOn ==
  ASSUME TfInvariant, NEW e \in Envs, NEW r \in Runs, run' = [run EXCEPT ![e] = r],
         tfEnv[e] = "open", UNCHANGED <<box, daemon, tfEnv, out>>,
         UNCHANGED verdict \/ verdict' = [verdict EXCEPT ![e] = T!NoVerdict],
         tf' \in [T!Dirs -> Envs \cup {None}]
  PROVE  TfInvariant'
<1>1. RunsAreOfOpenOnes'
  BY DEF TfInvariant, RunsAreOfOpenOnes
<1>2. CleanEndsAreOver'
  BY DEF TfInvariant, CleanEndsAreOver
<1>3. T!VerdictsAreInspected'
  <2>1. \A o \in Envs : verdict'[o] = verdict[o] \/ verdict'[o] = T!NoVerdict
    BY DEF TfInvariant, RunsAreOfOpenOnes
  <2>2. ~T!NoVerdict.passed
    BY DEF T!NoVerdict
  <2>3. T!NoVerdict' = T!NoVerdict
    BY DEF T!NoVerdict
  <2> QED
    BY <2>1, <2>2, <2>3 DEF TfInvariant, T!VerdictsAreInspected
<1> QED
  BY <1>1, <1>2, <1>3 DEF TfInvariant

(* A command that ended leaves its environment idle, or its teardown at    *)
(* the poll; its run knows of no container.                                *)
LEMMA EndedIsIdle ==
  ASSUME NEW e \in Envs, NEW rc, T!Ended(e, rc)
  PROVE  \E r \in Runs : r.had = None /\ r.new = None /\ run' = [run EXCEPT ![e] = r]
<1> DEFINE p == [T!Idle EXCEPT !.at = "poll", !.by = "teardown"]
<1>1. p \in Runs /\ p.had = None /\ p.new = None
  BY DEF T!Idle, Runs
<1>2. T!Idle \in Runs /\ T!Idle.had = None /\ T!Idle.new = None
  BY IdleIsARun DEF T!Idle
<1>3. CASE run[e].by = "teardown"
  BY <1>1, <1>3 DEF T!Ended
<1>4. CASE run[e].by # "teardown"
  BY <1>2, <1>4 DEF T!Ended
<1> QED
  BY <1>3, <1>4

(* The commands of terraform. *)
LEMMA CommandsKeep ==
  ASSUME TfInvariant, NEW e \in Envs, T!TfReads(e) \/ T!TfChanges(e) \/ T!TfWrites(e)
  PROVE  TfInvariant'
<1>0. /\ RunsAreOfOpenOnes /\ CleanEndsAreOver /\ T!VerdictsAreInspected
      /\ run[e] \in Runs /\ run \in [Envs -> Runs] /\ tf \in [T!Dirs -> Envs \cup {None}]
      /\ T!WorkingDir(e) \in T!Dirs
  BY DEF TfInvariant, RunsAreOfOpenOnes, T!WorkingDir, T!Dirs
<1>1. run[e] # T!Idle /\ tfEnv[e] = "open"
  <2>1. run[e].at # "idle"
    BY DEF T!TfReads, T!TfChanges, T!TfWrites
  <2> QED
    BY <1>0, <2>1 DEF RunsAreOfOpenOnes, T!Idle
<1>2. CASE T!TfReads(e)
  <2>1. UNCHANGED <<box, daemon, tf, tfEnv, out, verdict>>
    BY <1>2 DEF T!TfReads, T!world
  <2>2. \E r \in Runs : run' = [run EXCEPT ![e] = r]
    <3>1. CASE \E rc : T!Ended(e, rc)
      BY <3>1, EndedIsIdle
    <3>2. CASE \E had \in Envs \cup {None} : run' = [run EXCEPT ![e].at = "change", ![e].had = had]
      <4>1. PICK had \in Envs \cup {None} : run' = [run EXCEPT ![e].at = "change", ![e].had = had]
        BY <3>2
      <4>2. run' = [run EXCEPT ![e] = [run[e] EXCEPT !.at = "change", !.had = had]]
        BY <1>0, <4>1
      <4>3. [run[e] EXCEPT !.at = "change", !.had = had] \in Runs
        BY <1>0 DEF Runs
      <4> QED
        BY <4>2, <4>3
    <3> QED
      BY <1>0, <1>2, <3>1, <3>2 DEF T!TfReads
  <2> QED
    BY <1>0, <1>1, <2>1, <2>2, TfGoesOn
<1>3. CASE T!TfWrites(e)
  <2>1. /\ UNCHANGED <<box, daemon, tfEnv, out, verdict>>
        /\ \E r \in Runs : run' = [run EXCEPT ![e] = r]
    BY <1>3, EndedIsIdle DEF T!TfWrites
  <2>2. tf' \in [T!Dirs -> Envs \cup {None}]
    <3>1. run[e].new \in Envs \cup {None}
      BY <1>0 DEF Runs
    <3> QED
      BY <1>0, <1>3, <3>1 DEF T!TfWrites
  <2> QED
    BY <1>1, <2>1, <2>2, TfGoesOn
<1>4. CASE T!TfChanges(e) /\ daemon
  <2>1. PICK keep \in BOOLEAN :
          /\ box' = [o \in Envs |-> CASE keep /\ o = e -> "running"
                                     [] o = run[e].had -> "absent"
                                     [] OTHER -> box[o]]
          /\ run' = [run EXCEPT ![e].at = "write", ![e].new = IF keep THEN e ELSE None]
    BY <1>4 DEF T!TfChanges
  <2>2. UNCHANGED <<daemon, tf, tfEnv, out, verdict>>
    BY <1>4 DEF T!TfChanges
  <2>3. DOMAIN box' = Envs /\ \A o \in Envs : box[o] = "absent" /\ o # e => box'[o] = "absent"
    BY <2>1
  <2>4. run' \in [Envs -> Runs] /\ \A o \in Envs : o # e => run'[o] = run[o]
    <3>1. run' = [run EXCEPT ![e] =
                    [run[e] EXCEPT !.at = "write", !.new = IF keep THEN e ELSE None]]
      BY <1>0, <2>1
    <3>2. [run[e] EXCEPT !.at = "write", !.new = IF keep THEN e ELSE None] \in Runs
      BY <1>0 DEF Runs
    <3> QED
      BY <1>0, <3>1, <3>2
  <2>5. RunsAreOfOpenOnes'
    BY <1>0, <1>1, <2>2, <2>3, <2>4 DEF RunsAreOfOpenOnes
  <2>6. CleanEndsAreOver'
    BY <1>0, <1>1, <2>2, <2>3 DEF CleanEndsAreOver
  <2>7. T!VerdictsAreInspected'
    BY <1>0, <2>2 DEF T!VerdictsAreInspected
  <2> QED
    BY <2>5, <2>6, <2>7 DEF TfInvariant
<1>5. CASE T!TfChanges(e) /\ ~daemon
  <2>1. /\ UNCHANGED <<box, daemon, tf, tfEnv, out, verdict>>
        /\ \E r \in Runs : run' = [run EXCEPT ![e] = r]
    BY <1>5, EndedIsIdle DEF T!TfChanges
  <2> QED
    BY <1>0, <1>1, <2>1, TfGoesOn
<1> QED
  BY <1>2, <1>3, <1>4, <1>5

(* The ends of handlers. *)
LEMMA EndsKeep ==
  ASSUME TfInvariant, NEW e \in Envs, T!TimesOut(e) \/ T!TeardownPolls(e) \/ T!Check(e)
  PROVE  TfInvariant'
<1>0. /\ RunsAreOfOpenOnes /\ CleanEndsAreOver /\ T!VerdictsAreInspected
      /\ run[e] \in Runs /\ run \in [Envs -> Runs]
      /\ run' = [run EXCEPT ![e] = T!Idle] /\ T!Idle \in Runs
  BY IdleIsARun DEF TfInvariant, RunsAreOfOpenOnes, T!TimesOut, T!TeardownPolls, T!Check
<1>1. run[e] # T!Idle /\ tfEnv[e] = "open"
  <2>1. run[e] # T!Idle
    BY DEF T!TimesOut, T!TeardownPolls, T!Check, T!Idle
  <2> QED
    BY <1>0, <2>1 DEF RunsAreOfOpenOnes
<1>2. CASE T!TimesOut(e)
  <2>1. UNCHANGED <<box, daemon, tf, verdict>>
    BY <1>2 DEF T!TimesOut, T!world
  <2>2. \/ UNCHANGED <<tfEnv, out>>
        \/ tfEnv' = [tfEnv EXCEPT ![e] = "closed"] /\ out' = [out EXCEPT ![e] = "raised"]
    BY <1>2 DEF T!TimesOut
  <2>3. RunsAreOfOpenOnes'
    BY <1>0, <2>1, <2>2 DEF RunsAreOfOpenOnes
  <2>4. CleanEndsAreOver'
    BY <1>0, <2>1, <2>2 DEF RunsAreOfOpenOnes, CleanEndsAreOver
  <2>5. T!VerdictsAreInspected'
    BY <1>0, <2>1 DEF T!VerdictsAreInspected
  <2> QED
    BY <2>3, <2>4, <2>5 DEF TfInvariant
<1>3. CASE T!TeardownPolls(e)
  <2>1. UNCHANGED <<box, daemon, tf, verdict>> /\ tfEnv' = [tfEnv EXCEPT ![e] = "closed"]
    BY <1>3 DEF T!TeardownPolls, T!world
  <2> DEFINE end == IF T!Inspect(e) # "absent" THEN "raised"
                    ELSE IF daemon THEN "clean" ELSE "unanswered"
  <2>2. out' = [out EXCEPT ![e] = end]
    BY <1>3 DEF T!TeardownPolls
  <2>4. end = "clean" => box[e] = "absent"
    BY DEF T!Inspect
  <2> HIDE DEF end
  <2>3. RunsAreOfOpenOnes'
    BY <1>0, <2>1, <2>2 DEF RunsAreOfOpenOnes
  <2>5. CleanEndsAreOver'
    BY <1>0, <2>1, <2>2, <2>4 DEF RunsAreOfOpenOnes, CleanEndsAreOver
  <2>6. T!VerdictsAreInspected'
    BY <1>0, <2>1 DEF T!VerdictsAreInspected
  <2> QED
    BY <2>3, <2>5, <2>6 DEF TfInvariant
<1>4. CASE T!Check(e)
  <2>1. UNCHANGED <<box, daemon, tf, tfEnv, out>>
    BY <1>4 DEF T!Check, T!world
  <2> DEFINE ok == (T!Inspect(e) = "running") = run[e].want
  <2>2. /\ ok \/ run[e].expired
        /\ verdict' = [verdict EXCEPT ![e] = [passed |-> ok, want |-> run[e].want,
                                              was |-> box[e], told |-> daemon,
                                              late |-> run[e].expired]]
    BY <1>4 DEF T!Check
  <2>3. run[e].want \in BOOLEAN
    BY <1>0 DEF Runs
  <2>4. /\ ok /\ run[e].want => box[e] = "running"
        /\ ok /\ ~run[e].want /\ daemon => box[e] # "running"
    BY <2>3 DEF T!Inspect
  <2>5. DOMAIN verdict' = Envs
    BY <1>0, <2>2 DEF RunsAreOfOpenOnes
  <2>6. T!VerdictsAreInspected'
    <3> SUFFICES ASSUME NEW o \in Envs
                 PROVE  /\ verdict'[o].passed /\ verdict'[o].want => verdict'[o].was = "running"
                        /\ verdict'[o].passed /\ ~verdict'[o].want /\ verdict'[o].told
                             => verdict'[o].was # "running"
                        /\ ~verdict'[o].passed /\ verdict'[o] # T!NoVerdict => verdict'[o].late
      BY DEF T!VerdictsAreInspected, T!NoVerdict
    <3>1. CASE o # e
      <4>1. verdict'[o] = verdict[o]
        BY <2>2, <3>1
      <4> QED
        BY <1>0, <4>1 DEF T!VerdictsAreInspected
    <3>2. CASE o = e
      <4>1. /\ verdict'[o].passed = ok /\ verdict'[o].want = run[e].want
            /\ verdict'[o].was = box[e] /\ verdict'[o].late = run[e].expired
            /\ verdict'[o].told = daemon
        BY <1>0, <2>2, <3>2 DEF RunsAreOfOpenOnes
      <4> HIDE DEF ok
      <4> QED
        BY <2>2, <2>4, <4>1
    <3> QED
      BY <3>1, <3>2
  <2>7. RunsAreOfOpenOnes'
    BY <1>0, <2>1, <2>5 DEF RunsAreOfOpenOnes
  <2>8. CleanEndsAreOver'
    BY <1>0, <2>1 DEF CleanEndsAreOver
  <2> QED
    BY <2>6, <2>7, <2>8 DEF TfInvariant
<1> QED
  BY <1>2, <1>3, <1>4

(* Calls of the kernel. *)
LEMMA TfCallsKeep ==
  ASSUME TfInvariant, NEW e \in Envs, T!Call(e)
  PROVE  TfInvariant'
<1>0. /\ RunsAreOfOpenOnes /\ CleanEndsAreOver /\ T!VerdictsAreInspected
      /\ run \in [Envs -> Runs] /\ tf \in [T!Dirs -> Envs \cup {None}]
  BY DEF TfInvariant, RunsAreOfOpenOnes
<1>1. CASE T!Materialize(e)
  <2>1. /\ tfEnv[e] = "none" /\ tfEnv' = [tfEnv EXCEPT ![e] = "open"]
        /\ UNCHANGED <<box, daemon, tf, run, out, verdict>>
    BY <1>1 DEF T!Materialize, T!world
  <2>2. RunsAreOfOpenOnes'
    BY <1>0, <2>1 DEF RunsAreOfOpenOnes
  <2>3. CleanEndsAreOver'
    BY <1>0, <2>1 DEF RunsAreOfOpenOnes, CleanEndsAreOver
  <2>4. T!VerdictsAreInspected'
    BY <1>0, <2>1 DEF T!VerdictsAreInspected
  <2> QED
    BY <2>2, <2>3, <2>4 DEF TfInvariant
<1>2. CASE T!Teardown(e) \/ (\E goal \in BOOLEAN : T!Verify(e, goal))
           \/ \E c \in TfOps \cap T!Cmds : T!Actuate(e, c)
  <2>1. PICK r : /\ run' = [run EXCEPT ![e] = r]
                 /\ \/ r = [T!Idle EXCEPT !.at = "read", !.cmd = "destroy", !.by = "teardown"]
                    \/ \E goal \in BOOLEAN : r = [T!Idle EXCEPT !.at = "check", !.want = goal]
                    \/ \E c \in T!Cmds :
                         r = [T!Idle EXCEPT !.at = "read", !.cmd = c, !.by = "actuate"]
    BY <1>2 DEF T!Teardown, T!Verify, T!Actuate
  <2>2. r \in Runs
    BY <2>1 DEF T!Idle, Runs, T!Cmds
  <2>3. /\ UNCHANGED <<box, daemon, tf, tfEnv, out>> /\ tfEnv[e] = "open"
        /\ verdict' = [verdict EXCEPT ![e] = T!NoVerdict]
    BY <1>2 DEF T!Teardown, T!Verify, T!Actuate, T!CanCall, T!world
  <2> QED
    BY <1>0, <2>1, <2>2, <2>3, TfGoesOn
<1>3. CASE T!Checkpoint(e) \/ T!Restore(e)
  <2>1. UNCHANGED <<box, daemon, tf, tfEnv, run, out, verdict>>
    BY <1>3 DEF T!Checkpoint, T!Restore, T!world
  <2> QED
    BY <2>1 DEF TfInvariant, RunsAreOfOpenOnes, CleanEndsAreOver, T!VerdictsAreInspected
<1> QED
  BY <1>1, <1>2, <1>3 DEF T!Call

(* Every step keeps what the verdicts and clean ends rest on. *)
LEMMA TfStep == ASSUME TfInvariant, [T!Next]_T!vars PROVE TfInvariant'
<1>0. RunsAreOfOpenOnes /\ CleanEndsAreOver /\ T!VerdictsAreInspected
  BY DEF TfInvariant
<1>1. CASE UNCHANGED T!vars
  BY <1>0, <1>1 DEF T!vars, TfInvariant, RunsAreOfOpenOnes, CleanEndsAreOver, T!VerdictsAreInspected
<1>2. CASE T!DaemonFlips
  BY <1>0, <1>2 DEF T!DaemonFlips, TfInvariant, RunsAreOfOpenOnes, CleanEndsAreOver,
     T!VerdictsAreInspected
<1>3. ASSUME NEW e \in Envs, T!ContainerStops(e) PROVE TfInvariant'
  <2>1. /\ box[e] = "running" /\ box' = [box EXCEPT ![e] = "stopped"]
        /\ UNCHANGED <<daemon, tf, tfEnv, run, out, verdict>>
    BY <1>3 DEF T!ContainerStops
  <2> QED
    BY <1>0, <2>1
       DEF TfInvariant, RunsAreOfOpenOnes, CleanEndsAreOver, T!VerdictsAreInspected
<1>4. ASSUME NEW e \in Envs, T!Tick(e) PROVE TfInvariant'
  <2>1. run' = [run EXCEPT ![e].expired = TRUE] /\ run[e].at # "idle" /\ run[e] \in Runs
    BY <1>0, <1>4 DEF T!Tick, RunsAreOfOpenOnes
  <2>2. run' = [run EXCEPT ![e] = [run[e] EXCEPT !.expired = TRUE]]
    BY <1>0, <2>1 DEF RunsAreOfOpenOnes
  <2>3. [run[e] EXCEPT !.expired = TRUE] \in Runs
    BY <2>1 DEF Runs
  <2>4. tfEnv[e] = "open" /\ UNCHANGED <<box, daemon, tf, tfEnv, out, verdict>>
    BY <1>0, <1>4, <2>1 DEF T!Tick, T!world, RunsAreOfOpenOnes, T!Idle
  <2> QED
    BY <1>0, <2>2, <2>3, <2>4, TfGoesOn DEF RunsAreOfOpenOnes
<1> QED
  BY <1>1, <1>2, <1>3, <1>4, CommandsKeep, EndsKeep, TfCallsKeep DEF T!Next, T!Handle

(* A verdict of verify() is the container's state at the poll that gave it *)
(* or a refusal past the deadline, whatever else runs in the directory;    *)
(* only "not running" also stands for a daemon that did not answer.        *)
THEOREM TerraformVerdicts == T!Spec => []T!VerdictsAreInspected
<1>1. TfInvariant => T!VerdictsAreInspected
  BY DEF TfInvariant
<1> QED
  BY <1>1, TfInit, TfStep, PTL DEF T!Spec

(* A teardown that returns with the daemon's answer leaves no container,   *)
(* after whatever was killed.                                              *)
THEOREM TerraformTeardown == T!Spec => []T!TeardownIsHonest
<1>1. TfInvariant => T!TeardownIsHonest
  BY DEF TfInvariant, CleanEndsAreOver, T!TeardownIsHonest
<1> QED
  BY <1>1, TfInit, TfStep, PTL DEF T!Spec

-----------------------------------------------------------------------------
(* Terraform: one directory for each environment *)

(* Then the state file there records no other's container. *)
StatesAreOwn ==
  /\ tf \in [T!Dirs -> Envs \cup {None}] /\ run \in [Envs -> Runs]
  /\ \A e \in Envs : /\ tf[DirOf[e]] \in {None, e}
                     /\ run[e].had \in {None, e} /\ run[e].new \in {None, e}

(* A run writes its own container or none to the state file it reads. *)
LEMMA StatesStayOwn ==
  ASSUME None \notin Envs, \A e, o \in Envs : DirOf[e] = DirOf[o] => e = o,
         StatesAreOwn, [T!Next]_T!vars
  PROVE  StatesAreOwn'
<1> USE DEF StatesAreOwn
<1>0. T!Idle \in Runs /\ T!Idle.had = None /\ T!Idle.new = None
  BY IdleIsARun DEF T!Idle
<1>1. ASSUME NEW e \in Envs, NEW r \in Runs, run' = [run EXCEPT ![e] = r],
             r.had \in {None, e}, r.new \in {None, e},
             UNCHANGED tf \/ tf' = [tf EXCEPT ![DirOf[e]] = run[e].new]
      PROVE  StatesAreOwn'
  <2>1. DirOf[e] \in T!Dirs /\ \A o \in Envs : DirOf[o] \in T!Dirs
    BY DEF T!Dirs
  <2>2. /\ run' \in [Envs -> Runs]
        /\ \A o \in Envs : run'[o].had \in {None, o} /\ run'[o].new \in {None, o}
    BY <1>1
  <2>3. /\ tf' \in [T!Dirs -> Envs \cup {None}]
        /\ \A o \in Envs : tf'[DirOf[o]] \in {None, o}
    BY <1>1, <2>1
  <2> QED
    BY <2>2, <2>3
<1>2. ASSUME NEW e \in Envs, T!TfReads(e) PROVE StatesAreOwn'
  <2>1. UNCHANGED tf /\ run[e] \in Runs /\ DirOf[e] \in T!Dirs
    BY <1>2 DEF T!TfReads, T!world, T!Dirs
  <2>2. CASE \E rc : T!Ended(e, rc)
    BY <1>1, <2>1, <2>2, EndedIsIdle
  <2>3. CASE \E had \in {None, tf[DirOf[e]]} :
               run' = [run EXCEPT ![e].at = "change", ![e].had = had]
    <3>1. PICK had \in {None, e} : run' = [run EXCEPT ![e].at = "change", ![e].had = had]
      BY <2>3
    <3>2. run' = [run EXCEPT ![e] = [run[e] EXCEPT !.at = "change", !.had = had]]
      BY <2>1, <3>1
    <3>3. /\ [run[e] EXCEPT !.at = "change", !.had = had] \in Runs
          /\ [run[e] EXCEPT !.at = "change", !.had = had].had = had
          /\ [run[e] EXCEPT !.at = "change", !.had = had].new = run[e].new
      BY <2>1, <3>1 DEF Runs
    <3> HIDE DEF StatesAreOwn
    <3> QED
      BY <1>1, <2>1, <3>2, <3>3 DEF StatesAreOwn
  <2> QED
    BY <1>2, <2>2, <2>3 DEF T!TfReads, T!WorkingDir
<1>3. ASSUME NEW e \in Envs, T!TfChanges(e) PROVE StatesAreOwn'
  <2>1. UNCHANGED tf /\ run[e] \in Runs
    BY <1>3 DEF T!TfChanges
  <2>2. CASE \E rc : T!Ended(e, rc)
    BY <1>1, <2>1, <2>2, EndedIsIdle
  <2>3. CASE \E new \in {None, e} : run' = [run EXCEPT ![e].at = "write", ![e].new = new]
    <3>1. PICK new \in {None, e} : run' = [run EXCEPT ![e].at = "write", ![e].new = new]
      BY <2>3
    <3>2. run' = [run EXCEPT ![e] = [run[e] EXCEPT !.at = "write", !.new = new]]
      BY <2>1, <3>1
    <3>3. /\ [run[e] EXCEPT !.at = "write", !.new = new] \in Runs
          /\ [run[e] EXCEPT !.at = "write", !.new = new].new = new
          /\ [run[e] EXCEPT !.at = "write", !.new = new].had = run[e].had
      BY <2>1, <3>1 DEF Runs
    <3> QED
      BY <1>1, <2>1, <3>1, <3>2, <3>3
  <2> QED
    BY <1>3, <2>2, <2>3 DEF T!TfChanges
<1>4. ASSUME NEW e \in Envs, T!TfWrites(e) PROVE StatesAreOwn'
  <2>1. PICK r \in Runs : r.had = None /\ r.new = None /\ run' = [run EXCEPT ![e] = r]
    BY <1>4, EndedIsIdle DEF T!TfWrites
  <2>2. tf' = [tf EXCEPT ![DirOf[e]] = run[e].new]
    BY <1>4 DEF T!TfWrites, T!WorkingDir
  <2> QED
    BY <1>1, <2>1, <2>2
<1>5. ASSUME NEW e \in Envs, T!TimesOut(e) \/ T!TeardownPolls(e) \/ T!Check(e) PROVE StatesAreOwn'
  <2>1. run' = [run EXCEPT ![e] = T!Idle] /\ UNCHANGED tf
    BY <1>5 DEF T!TimesOut, T!TeardownPolls, T!Check, T!world
  <2> QED
    BY <1>0, <1>1, <2>1
<1>6. ASSUME NEW e \in Envs, T!Tick(e) PROVE StatesAreOwn'
  <2>1. run' = [run EXCEPT ![e].expired = TRUE] /\ UNCHANGED tf /\ run[e] \in Runs
    BY <1>6 DEF T!Tick, T!world
  <2>2. run' = [run EXCEPT ![e] = [run[e] EXCEPT !.expired = TRUE]]
    BY <2>1
  <2>3. /\ [run[e] EXCEPT !.expired = TRUE] \in Runs
        /\ [run[e] EXCEPT !.expired = TRUE].had = run[e].had
        /\ [run[e] EXCEPT !.expired = TRUE].new = run[e].new
    BY <2>1 DEF Runs
  <2> QED
    BY <1>1, <2>1, <2>2, <2>3
<1>7. ASSUME NEW e \in Envs,
             T!Teardown(e) \/ (\E goal \in BOOLEAN : T!Verify(e, goal))
               \/ \E c \in TfOps \cap T!Cmds : T!Actuate(e, c)
      PROVE  StatesAreOwn'
  <2>1. PICK r : /\ run' = [run EXCEPT ![e] = r]
                 /\ \/ r = [T!Idle EXCEPT !.at = "read", !.cmd = "destroy", !.by = "teardown"]
                    \/ \E goal \in BOOLEAN : r = [T!Idle EXCEPT !.at = "check", !.want = goal]
                    \/ \E c \in T!Cmds :
                         r = [T!Idle EXCEPT !.at = "read", !.cmd = c, !.by = "actuate"]
    BY <1>7 DEF T!Teardown, T!Verify, T!Actuate
  <2>2. r \in Runs /\ r.had = None /\ r.new = None
    BY <2>1 DEF T!Idle, Runs, T!Cmds
  <2>3. UNCHANGED tf
    BY <1>7 DEF T!Teardown, T!Verify, T!Actuate, T!world
  <2> QED
    BY <1>1, <2>1, <2>2, <2>3
<1>8. CASE \/ UNCHANGED T!vars \/ T!DaemonFlips
           \/ \E e \in Envs : \/ T!ContainerStops(e) \/ T!Materialize(e)
                              \/ T!Checkpoint(e) \/ T!Restore(e)
  <2>1. UNCHANGED <<tf, run>>
    BY <1>8 DEF T!vars, T!DaemonFlips, T!ContainerStops, T!Materialize, T!Checkpoint, T!Restore,
       T!world
  <2> QED
    BY <2>1
<1> QED
  BY <1>2, <1>3, <1>4, <1>5, <1>6, <1>7, <1>8 DEF T!Next, T!Handle, T!Call

(* A state file that is not there records nothing. *)
LEMMA OwnInit == ASSUME T!Init PROVE StatesAreOwn
<1>1. /\ tf = [d \in T!Dirs |-> None] /\ run = [e \in Envs |-> T!Idle]
      /\ \A e \in Envs : DirOf[e] \in T!Dirs
  BY DEF T!Init, T!Dirs
<1>2. T!Idle \in Runs /\ T!Idle.had = None /\ T!Idle.new = None
  BY IdleIsARun DEF T!Idle
<1> QED
  BY <1>1, <1>2 DEF StatesAreOwn

(* So what a run finds recorded or makes is its environment's own. *)
LEMMA OwnTouches ==
  ASSUME None \notin Envs, StatesAreOwn, [T!Next]_T!vars
  PROVE  [T!TouchesOwnContainer]_T!vars
<1>1. ASSUME NEW e \in Envs, NEW o \in Envs, T!TfChanges(e), box'[o] # box[o], o # e
      PROVE  FALSE
  <2>1. run[e].had # o
    BY <1>1 DEF StatesAreOwn
  <2> QED
    BY <1>1, <2>1 DEF T!TfChanges
<1> QED
  BY <1>1 DEF T!TouchesOwnContainer

(* A run of terraform creates and destroys only its environment's own      *)
(* container, when no two environments are given the same directory.       *)
THEOREM TerraformKeepsToItsOwn ==
  ASSUME None \notin Envs, \A e, o \in Envs : DirOf[e] = DirOf[o] => e = o
  PROVE  T!Spec => [][T!TouchesOwnContainer]_T!vars
BY OwnInit, StatesStayOwn, OwnTouches, PTL DEF T!Spec

-----------------------------------------------------------------------------
(* Kubernetes: the pod that was applied and what is said of it *)

(* What a restart's codes stand for: a zero for the delete, that the pod   *)
(* is gone; two zeros, that another instance was created since.  No        *)
(* instance is forgotten, and a restart begins without codes.              *)
RestartIsSound ==
  /\ gen >= was
  /\ at = "delete" => codes = P!NoCodes
  /\ at = "apply" => codes.app = None /\ (codes.del = 0 => pod[Target] = "NotFound")
  /\ at = "after" => (codes = [del |-> 0, app |-> 0] => gen > was)
  /\ P!RestartsReschedule

PodInvariant ==
  /\ P!TypeOK
  /\ codes \in [del : {None, 0, 1}, app : {None, 0, 1}]
  /\ RestartIsSound

(* None is no return code. *)
PodConstants == P!PodAssumption /\ None \notin {0, 1}

(* No pod was applied and nothing answered. *)
LEMMA PodInit == ASSUME PodConstants, P!Init PROVE PodInvariant
<1>1. P!TypeOK
  <2>1. MaxGen \in Nat /\ 0 \in 0..MaxGen
    BY DEF PodConstants, P!PodAssumption
  <2>2. pod \in [Contexts -> P!Phases \cup {"NotFound", "Terminating"}]
    BY DEF P!Init
  <2>3. podAnswer.end = "none"
    BY DEF P!Init, P!NoAnswer
  <2> QED
    BY <2>1, <2>2, <2>3 DEF P!Init, P!TypeOK
<1>2. RestartIsSound
  BY DEF P!Init, RestartIsSound, P!RestartsReschedule, P!NoAnswer
<1> QED
  BY <1>1, <1>2 DEF PodInvariant, P!Init, P!NoCodes

(* The phases of a pod that the gym knows. *)
LEMMA PodPhases == P!Phases = {"Pending", "Running", "Succeeded"}
  BY DEF P!Phases

(* The pod changes in the target's cluster only. *)
LEMMA PodSet ==
  ASSUME PodConstants, P!TypeOK, NEW p \in P!Phases \cup {"NotFound", "Terminating"}, P!SetPod(p)
  PROVE  /\ pod' \in [Contexts -> P!Phases \cup {"NotFound", "Terminating"}]
         /\ pod'[Target] = p
BY DEF PodConstants, P!PodAssumption, P!TypeOK, P!SetPod

(* kubectl apply makes a new instance only where there is no pod. *)
LEMMA PodApplied ==
  ASSUME PodConstants, P!TypeOK, P!Applied
  PROVE  /\ pod' \in [Contexts -> P!Phases \cup {"NotFound", "Terminating"}]
         /\ gen' \in 0..MaxGen /\ gen' >= gen
         /\ pod[Target] = "NotFound" => gen' = gen + 1
<1>1. CASE pod[Target] = "NotFound"
  <2>1. gen < MaxGen /\ P!SetPod("Pending") /\ gen' = gen + 1
    BY <1>1 DEF P!Applied, P!Real
  <2>2. gen \in Nat /\ MaxGen \in Nat
    BY DEF PodConstants, P!PodAssumption, P!TypeOK
  <2> QED
    BY <2>1, <2>2, PodSet DEF P!Phases
<1>2. CASE pod[Target] # "NotFound"
  BY <1>2 DEF P!Applied, P!Real, P!TypeOK, PodConstants, P!PodAssumption
<1> QED
  BY <1>1, <1>2

(* kubectl delete makes no instance. *)
LEMMA PodDeleted ==
  ASSUME PodConstants, P!TypeOK, P!Deleted
  PROVE  /\ pod' \in [Contexts -> P!Phases \cup {"NotFound", "Terminating"}]
         /\ gen' = gen
BY PodSet DEF P!Deleted, P!Real, P!TypeOK

(* An answer ends the call, with the codes and instances of its moment. *)
LEMMA PodAnswers ==
  ASSUME NEW op, NEW end \in {"returned", "raised"}, NEW saw, P!Answer(op, end, saw)
  PROVE  /\ at' = "idle" /\ podAnswer'.end \in {"none", "returned", "raised"}
         /\ podAnswer'.op = op /\ podAnswer'.saw = saw /\ podAnswer'.real = pod[Target]
         /\ podAnswer'.codes = codes /\ podAnswer'.fresh = (gen > was)
         /\ podAnswer'.late = podExpired /\ podAnswer'.end = end /\ podAnswer'.want = want
BY DEF P!Answer, P!Real

(* Every step keeps what the codes of a restart stand for. *)
LEMMA PodStep ==
  ASSUME PodConstants, PodInvariant, [P!Next]_P!vars PROVE PodInvariant'
<1> USE DEF PodInvariant
<1>0. /\ P!TypeOK /\ gen \in Nat /\ was \in Nat /\ MaxGen \in Nat /\ None \notin {0, 1}
      /\ Target \in Contexts
  BY DEF P!TypeOK, PodConstants, P!PodAssumption
<1>1. CASE UNCHANGED P!vars
  BY <1>1 DEF P!vars, P!TypeOK, RestartIsSound, P!RestartsReschedule
<1>2. CASE P!PodMoves
  <2>1. /\ pod' \in [Contexts -> P!Phases \cup {"NotFound", "Terminating"}]
        /\ pod[Target] = "NotFound" => pod'[Target] = "NotFound"
    BY <1>0, <1>2, PodSet DEF P!PodMoves, P!Real, P!Phases
  <2>2. UNCHANGED <<gen, podEnv, at, podExpired, codes, was, want, podAnswer>>
    BY <1>2 DEF P!PodMoves
  <2> QED
    BY <2>1, <2>2 DEF P!TypeOK, RestartIsSound, P!RestartsReschedule
<1>3. CASE P!Tick
  BY <1>3 DEF P!Tick, P!TypeOK, RestartIsSound, P!RestartsReschedule
<1>4. CASE P!Materialize
  <2>1. /\ pod' \in [Contexts -> P!Phases \cup {"NotFound", "Terminating"}]
        /\ gen' \in 0..MaxGen /\ gen' >= gen
    BY <1>0, <1>4, PodApplied DEF P!Materialize, P!Nothing, P!TypeOK
  <2>2. /\ at = "idle" /\ podEnv' \in {"open", "failed"}
        /\ UNCHANGED <<at, podExpired, codes, was, want, podAnswer>>
    BY <1>4 DEF P!Materialize
  <2> QED
    BY <1>0, <2>1, <2>2 DEF P!TypeOK, RestartIsSound, P!RestartsReschedule
<1>5. CASE P!Observe \/ P!RestartReturns \/ P!VerifyPolls \/ P!TeardownPolls
  <2>1. PICK op, end, saw : /\ end \in {"returned", "raised"} /\ P!Answer(op, end, saw)
                            /\ op = "restart" => at = "after"
    BY <1>5 DEF P!Observe, P!RestartReturns, P!VerifyPolls, P!TeardownPolls, P!ReadRaises
  <2>2. /\ UNCHANGED <<pod, gen, podExpired, codes, was, want>> /\ podEnv' \in {podEnv, "closed"}
    BY <1>5 DEF P!Observe, P!RestartReturns, P!VerifyPolls, P!TeardownPolls
  <2>3. P!RestartsReschedule'
    BY <2>1, PodAnswers DEF P!RestartsReschedule, RestartIsSound
  <2> QED
    BY <2>1, <2>2, <2>3, PodAnswers DEF P!TypeOK, RestartIsSound
<1>6. CASE P!ScaleRestart
  BY <1>0, <1>6 DEF P!ScaleRestart, P!Idle, P!TypeOK, RestartIsSound, P!RestartsReschedule,
     P!NoCodes
<1>7. CASE P!RestartDeletes
  <2>1. at = "delete" /\ codes = P!NoCodes /\ UNCHANGED <<podEnv, podExpired, was, want>>
    BY <1>7 DEF P!RestartDeletes, RestartIsSound
  <2>2. CASE P!Deleted /\ UNCHANGED <<at, codes, podAnswer>>
    BY <1>0, <2>1, <2>2, PodDeleted DEF P!TypeOK, RestartIsSound, P!RestartsReschedule
  <2>3. CASE /\ P!Nothing /\ at' = "apply" /\ UNCHANGED podAnswer
             /\ \E c \in {0, 1} : /\ codes' = [codes EXCEPT !.del = c]
                                  /\ c = 0 => pod[Target] = "NotFound"
    <3>1. PICK c \in {0, 1} : /\ codes' = [codes EXCEPT !.del = c]
                              /\ c = 0 => pod[Target] = "NotFound"
      BY <2>3
    <3>2. codes' = [del |-> c, app |-> None]
      BY <2>1, <3>1 DEF P!NoCodes
    <3>3. codes' \in [del : {None, 0, 1}, app : {None, 0, 1}]
      BY <3>2
    <3>4. P!TypeOK'
      BY <1>0, <2>1, <2>3 DEF P!Nothing, P!TypeOK
    <3>5. RestartIsSound'
      BY <1>0, <2>1, <2>3, <3>1, <3>2 DEF P!Nothing, RestartIsSound, P!RestartsReschedule
    <3> QED
      BY <3>3, <3>4, <3>5
  <2>4. CASE P!Nothing /\ P!Answer("restart", "raised", None) /\ UNCHANGED codes
    <3>1. P!RestartsReschedule'
      <4>1. podAnswer'.codes = codes /\ codes.del = None
        BY <2>1, <2>4, PodAnswers DEF P!NoCodes
      <4>2. podAnswer'.codes # [del |-> 0, app |-> 0]
        BY <1>0, <4>1
      <4> QED
        BY <4>2 DEF P!RestartsReschedule
    <3> QED
      BY <1>0, <2>1, <2>4, <3>1, PodAnswers DEF P!Nothing, P!TypeOK, RestartIsSound
  <2> QED
    BY <1>7, <2>2, <2>3, <2>4 DEF P!RestartDeletes, P!Real
<1>8. CASE P!RestartApplies
  <2>1. at = "apply" /\ UNCHANGED <<podEnv, podExpired, was, want>>
    BY <1>8 DEF P!RestartApplies
  <2>2. codes.app = None /\ (codes.del = 0 => pod[Target] = "NotFound")
    BY <2>1 DEF RestartIsSound
  <2>3. CASE P!Applied /\ codes' = [codes EXCEPT !.app = 0] /\ at' = "after" /\ UNCHANGED podAnswer
    <3>1. codes'.del = codes.del /\ codes' \in [del : {None, 0, 1}, app : {None, 0, 1}]
      BY <2>3
    <3>2. codes' = [del |-> 0, app |-> 0] => gen' > was'
      BY <1>0, <2>1, <2>2, <2>3, <3>1, PodApplied DEF RestartIsSound
    <3> QED
      BY <1>0, <2>1, <2>3, <3>1, <3>2, PodApplied DEF P!TypeOK, RestartIsSound, P!RestartsReschedule
  <2>4. CASE P!Nothing /\ codes' = [codes EXCEPT !.app = 1] /\ at' = "after" /\ UNCHANGED podAnswer
    BY <1>0, <2>1, <2>4 DEF P!Nothing, P!TypeOK, RestartIsSound, P!RestartsReschedule
  <2>5. CASE (P!Applied \/ P!Nothing) /\ UNCHANGED codes /\ P!Answer("restart", "raised", None)
    <3>0. podAnswer'.codes = codes
      BY <2>5, PodAnswers
    <3>1. P!RestartsReschedule'
      BY <1>0, <2>2, <3>0 DEF P!RestartsReschedule
    <3>2. /\ pod' \in [Contexts -> P!Phases \cup {"NotFound", "Terminating"}]
          /\ gen' \in 0..MaxGen /\ gen' >= gen
      BY <1>0, <2>5, PodApplied DEF P!Nothing, P!TypeOK
    <3>3. at' = "idle" /\ podAnswer'.end \in {"none", "returned", "raised"}
      BY <2>5, PodAnswers
    <3>4. podExpired' \in BOOLEAN
      BY <2>1 DEF P!TypeOK
    <3> QED
      BY <1>0, <2>1, <2>5, <3>1, <3>2, <3>3, <3>4 DEF P!TypeOK, RestartIsSound
  <2> QED
    BY <1>8, <2>3, <2>4, <2>5 DEF P!RestartApplies
<1>9. CASE P!Teardown
  <2>1. /\ at = "idle" /\ podEnv = "open" /\ was' = gen /\ podExpired' \in BOOLEAN
        /\ UNCHANGED <<codes, want>>
    BY <1>9 DEF P!Teardown, P!Idle
  <2>2. pod' \in [Contexts -> P!Phases \cup {"NotFound", "Terminating"}] /\ gen' = gen
    BY <1>0, <1>9, PodDeleted DEF P!Teardown, P!Nothing, P!TypeOK
  <2>3. CASE at' = "poll" /\ UNCHANGED <<podEnv, podAnswer>>
    BY <1>0, <2>1, <2>2, <2>3 DEF P!TypeOK, RestartIsSound, P!RestartsReschedule
  <2>4. CASE P!Answer("teardown", "raised", None) /\ podEnv' = "closed"
    <3>1. /\ at' = "idle" /\ podAnswer'.end \in {"none", "returned", "raised"}
          /\ podAnswer'.op = "teardown"
      BY <2>4, PodAnswers
    <3> QED
      BY <1>0, <2>1, <2>2, <2>4, <3>1 DEF P!TypeOK, RestartIsSound, P!RestartsReschedule
  <2> QED
    BY <1>9, <2>3, <2>4 DEF P!Teardown
<1>10. ASSUME NEW p \in P!Phases \cup {"NotFound"}, P!Verify(p) PROVE PodInvariant'
  BY <1>0, <1>10 DEF P!Verify, P!Idle, P!TypeOK, RestartIsSound, P!RestartsReschedule
<1> QED
  BY <1>1, <1>2, <1>3, <1>4, <1>5, <1>6, <1>7, <1>8, <1>9, <1>10 DEF P!Next, P!Handle

(* A restart that reports two zero codes has replaced the pod, whatever    *)
(* the control plane, the API server and the timeout of kubectl did.       *)
THEOREM PodRestarts == ASSUME PodConstants PROVE P!Spec => []P!RestartsReschedule
<1>1. PodInvariant => P!RestartsReschedule
  BY DEF PodInvariant, RestartIsSound
<1> QED
  BY <1>1, PodInit, PodStep, PTL DEF P!Spec

(* What the last answer says of the pod, when reads go to the cluster that *)
(* changes go to; that of a teardown only when the API server answers.     *)
PodAnswerIsReal ==
  /\ P!VerdictsAreReal
  /\ "unreachable" \notin PodFaults => P!EarlyTeardownsAreClean

(* Nothing was answered yet. *)
LEMMA PodAnswersInit == ASSUME P!Init PROVE PodAnswerIsReal
BY DEF P!Init, P!NoAnswer, PodAnswerIsReal, P!VerdictsAreReal, P!EarlyTeardownsAreClean

(* Only verify() and teardown() answer with what they saw of the pod. *)
LEMMA PodAnswersStep ==
  ASSUME PodConstants, PodInvariant, Current = Target, PodAnswerIsReal, [P!Next]_P!vars
  PROVE  PodAnswerIsReal'
<1>1. CASE UNCHANGED podAnswer
  BY <1>1 DEF PodAnswerIsReal, P!VerdictsAreReal, P!EarlyTeardownsAreClean
<1>2. ASSUME NEW op, NEW end \in {"returned", "raised"}, NEW saw, P!Answer(op, end, saw),
             op \notin {"verify", "teardown"} \/ end = "raised"
      PROVE  PodAnswerIsReal'
  BY <1>2, PodAnswers DEF PodAnswerIsReal, P!VerdictsAreReal, P!EarlyTeardownsAreClean
<1>3. CASE P!VerifyPolls /\ ~P!ReadRaises("verify")
  <2>1. PICK s \in P!Seen : (s = want \/ podExpired) /\ P!Answer("verify", "returned", s)
    BY <1>3 DEF P!VerifyPolls
  <2>2. pod[Target] \in P!Phases \cup {"NotFound", "Terminating"} /\ podExpired \in BOOLEAN
    BY DEF PodInvariant, P!TypeOK, PodConstants, P!PodAssumption
  <2>3. /\ s \in P!Phases => pod[Target] \in {s, "Terminating"}
        /\ s = "NotFound" /\ "unreachable" \notin PodFaults => pod[Target] = "NotFound"
    BY <2>1 DEF P!Seen, P!Read, P!Phases
  <2>4. /\ podAnswer'.op = "verify" /\ podAnswer'.saw = s /\ podAnswer'.real = pod[Target]
        /\ podAnswer'.end = "returned" /\ podAnswer'.want = want /\ podAnswer'.late = podExpired
    BY <2>1, PodAnswers
  <2>5. P!VerdictsAreReal'
    BY <2>1, <2>2, <2>3, <2>4 DEF P!VerdictsAreReal
  <2>6. P!EarlyTeardownsAreClean'
    BY <2>4 DEF P!EarlyTeardownsAreClean
  <2> QED
    BY <2>5, <2>6 DEF PodAnswerIsReal
<1>4. CASE P!TeardownPolls /\ ~P!ReadRaises("teardown")
  <2>1. PICK s \in P!Seen : (s = "NotFound" \/ podExpired) /\ P!Answer("teardown", "returned", s)
    BY <1>4 DEF P!TeardownPolls
  <2>2. "unreachable" \notin PodFaults /\ s = "NotFound" => pod[Target] = "NotFound"
    BY <2>1 DEF P!Seen, P!Read, P!Phases
  <2>3. podExpired \in BOOLEAN
    BY DEF PodInvariant, P!TypeOK
  <2> QED
    BY <2>1, <2>2, <2>3, PodAnswers
       DEF PodAnswerIsReal, P!VerdictsAreReal, P!EarlyTeardownsAreClean
<1>5. CASE \/ P!Observe \/ P!RestartReturns \/ P!RestartDeletes \/ P!RestartApplies \/ P!Teardown
           \/ P!ReadRaises("verify") \/ P!ReadRaises("teardown")
  BY <1>1, <1>2, <1>5 DEF P!Observe, P!RestartReturns, P!RestartDeletes, P!RestartApplies,
     P!Teardown, P!ReadRaises
<1>6. CASE \/ P!PodMoves \/ P!Tick \/ P!Materialize \/ P!ScaleRestart \/ UNCHANGED P!vars
           \/ \E p \in P!Phases \cup {"NotFound"} : P!Verify(p)
  BY <1>1, <1>6 DEF P!PodMoves, P!Tick, P!Materialize, P!ScaleRestart, P!Verify, P!vars
<1> QED
  BY <1>3, <1>4, <1>5, <1>6 DEF P!Next, P!Handle

(* verify() answers with a phase of the target's pod, and with another     *)
(* than the expected one only at the deadline; "NotFound", and a teardown  *)
(* that returns in time, have seen its end where the API server answers.   *)
(* The context that is read is taken to be the configured one.             *)
THEOREM PodVerdicts ==
  ASSUME PodConstants, Current = Target
  PROVE  P!Spec => []PodAnswerIsReal
BY PodInit, PodStep, PodAnswersInit, PodAnswersStep, PTL DEF P!Spec

-----------------------------------------------------------------------------
(* SWE-Gym: what the grading of two suites means *)

(* A suite that was run, as far as its outcomes are known. *)
LEMMA SuiteParts ==
  ASSUME NEW tests, NEW suite \in E!Suites(tests)
  PROVE  /\ DOMAIN suite.outcome = tests
         /\ \A t \in tests : suite.outcome[t] \in {"pass", "fail", "error", "missing", "unknown"}
         /\ suite.manner \in {"plain", "slow", "noise", "dies"}
         /\ suite.manner \notin {"slow", "dies"} => \A t \in tests : suite.outcome[t] # "unknown"
         /\ \A o : E!Having(suite, o) = {t \in tests : suite.outcome[t] = o}
BY DEF E!Suites, E!Outcomes, E!Having

(* The four ways of a run of tests to be judged, for FAIL_TO_PASS ... *)
LEMMA JudgedStrictly ==
  ASSUME NEW tests, NEW suite \in E!Suites(tests)
  PROVE  /\ suite.manner = "slow" =>
              ~E!RunTests(suite, TRUE).passed /\ E!RunTests(suite, TRUE).failed = {}
         /\ suite.manner # "slow" /\ E!Having(suite, "missing") # {} =>
                /\ E!RunTests(suite, TRUE).passed <=> Malformed
                /\ E!RunTests(suite, TRUE).failed = {}
         /\ ~E!Silent(suite) /\ tests = E!Having(suite, "pass") /\ suite.manner = "plain" =>
              E!RunTests(suite, TRUE).passed /\ E!RunTests(suite, TRUE).failed = {}
         /\ ~E!Silent(suite) /\ ~(tests = E!Having(suite, "pass") /\ suite.manner = "plain") =>
                /\ ~E!RunTests(suite, TRUE).passed
                /\ E!RunTests(suite, TRUE).failed = E!Having(suite, "fail")
<1>1. DOMAIN suite.outcome = tests
  BY SuiteParts
<1> QED
  BY <1>1 DEF E!RunTests, E!Silent

(* ... and for PASS_TO_PASS. *)
LEMMA JudgedLoosely ==
  ASSUME NEW tests, NEW suite \in E!Suites(tests)
  PROVE  /\ suite.manner = "slow" =>
              ~E!RunTests(suite, FALSE).passed /\ E!RunTests(suite, FALSE).failed = {}
         /\ suite.manner # "slow" /\ E!Having(suite, "missing") # {} =>
              E!RunTests(suite, FALSE).passed /\ E!RunTests(suite, FALSE).failed = {}
         /\ ~E!Silent(suite) /\ \/ tests = E!Having(suite, "pass") /\ suite.manner = "plain"
                                \/ E!Having(suite, "pass") # {} /\ E!Having(suite, "fail") = {}
              => E!RunTests(suite, FALSE).passed /\ E!RunTests(suite, FALSE).failed = {}
         /\ ~E!Silent(suite) /\ ~(tests = E!Having(suite, "pass") /\ suite.manner = "plain")
            /\ ~(E!Having(suite, "pass") # {} /\ E!Having(suite, "fail") = {})
            => /\ ~E!RunTests(suite, FALSE).passed
               /\ E!RunTests(suite, FALSE).failed = E!Having(suite, "fail")
<1>1. DOMAIN suite.outcome = tests
  BY SuiteParts
<1> QED
  BY <1>1 DEF E!RunTests, E!Silent

(* A strict suite passes when all its tests do, or when pytest could not   *)
(* find one of a list that is malformed.                                   *)
LEMMA StrictlyJudged ==
  ASSUME NEW tests, NEW suite \in E!Suites(tests), Malformed \in BOOLEAN
  PROVE  /\ E!RunTests(suite, TRUE).passed =>
              \/ E!Having(suite, "pass") = tests /\ suite.manner = "plain"
              \/ Malformed /\ E!Having(suite, "missing") # {}
         /\ E!Having(suite, "pass") = tests /\ suite.manner = "plain" =>
              E!RunTests(suite, TRUE).passed
<1>1. /\ E!Having(suite, "pass") = {t \in tests : suite.outcome[t] = "pass"}
      /\ E!Having(suite, "missing") = {t \in tests : suite.outcome[t] = "missing"}
  BY SuiteParts
<1>2. E!Having(suite, "pass") = tests => E!Having(suite, "missing") = {}
  BY <1>1
<1>3. CASE suite.manner = "slow"
  BY <1>3, JudgedStrictly
<1>4. CASE suite.manner # "slow" /\ E!Having(suite, "missing") # {}
  BY <1>2, <1>4, JudgedStrictly
<1>5. CASE ~E!Silent(suite)
  BY <1>5, JudgedStrictly
<1> QED
  BY <1>3, <1>4, <1>5 DEF E!Silent

(* The ids a run that reported anything saw to fail are its failures. *)
LEMMA FailuresSeen ==
  ASSUME NEW tests, NEW suite \in E!Suites(tests)
  PROVE  /\ E!RunTests(suite, FALSE).failed \subseteq E!Having(suite, "fail")
         /\ E!Silent(suite) => E!RunTests(suite, FALSE).failed = {}
         /\ ~E!Silent(suite) => E!RunTests(suite, FALSE).failed = E!Having(suite, "fail")
<1>1. /\ E!Having(suite, "pass") = {t \in tests : suite.outcome[t] = "pass"}
      /\ E!Having(suite, "fail") = {t \in tests : suite.outcome[t] = "fail"}
  BY SuiteParts
<1>2. CASE E!Silent(suite)
  BY <1>2, JudgedLoosely DEF E!Silent
<1>3. CASE ~E!Silent(suite)
  <2>1. CASE tests = E!Having(suite, "pass") /\ suite.manner = "plain"
    <3>1. E!Having(suite, "fail") = {}
      BY <1>1, <2>1
    <3> QED
      BY <1>3, <2>1, <3>1, JudgedLoosely
  <2>2. CASE ~(tests = E!Having(suite, "pass") /\ suite.manner = "plain")
    BY <1>3, <2>2, JudgedLoosely
  <2> QED
    BY <2>1, <2>2
<1> QED
  BY <1>2, <1>3

(* A suite that is not strict passes unless it was cut off or killed, some *)
(* test failed, or none passed.                                            *)
LEMMA LooselyJudged ==
  ASSUME NEW tests, NEW suite \in E!Suites(tests)
  PROVE  /\ E!RunTests(suite, FALSE).passed =>
              /\ suite.manner # "slow"
              /\ E!Having(suite, "fail") = {} \/ E!Having(suite, "missing") # {}
              /\ tests # {} => E!Having(suite, "error") # tests
         /\ ~E!Silent(suite) /\ ~E!RunTests(suite, FALSE).passed =>
              \/ E!Having(suite, "fail") # {} \/ E!Having(suite, "error") = tests
              \/ suite.manner = "dies"
<1>1. /\ E!Having(suite, "pass") = {t \in tests : suite.outcome[t] = "pass"}
      /\ E!Having(suite, "fail") = {t \in tests : suite.outcome[t] = "fail"}
      /\ E!Having(suite, "error") = {t \in tests : suite.outcome[t] = "error"}
      /\ E!Having(suite, "missing") = {t \in tests : suite.outcome[t] = "missing"}
      /\ \A t \in tests : suite.outcome[t] \in {"pass", "fail", "error", "missing", "unknown"}
      /\ suite.manner \notin {"slow", "dies"} => \A t \in tests : suite.outcome[t] # "unknown"
  BY SuiteParts
<1>2. CASE E!Silent(suite)
  <2>1. E!Having(suite, "missing") # {} => E!Having(suite, "error") # tests
    BY <1>1
  <2> QED
    BY <1>2, <2>1, JudgedLoosely DEF E!Silent
<1>3. CASE ~E!Silent(suite)
  <2>1. CASE tests = E!Having(suite, "pass") /\ suite.manner = "plain"
    <3>1. tests # {} => E!Having(suite, "error") # tests
      BY <1>1, <2>1
    <3>2. E!RunTests(suite, FALSE).passed /\ suite.manner # "slow" /\ E!Having(suite, "fail") = {}
      BY <1>1, <1>3, <2>1, JudgedLoosely DEF E!Silent
    <3> QED
      BY <3>1, <3>2
  <2>2. CASE /\ ~(tests = E!Having(suite, "pass") /\ suite.manner = "plain")
             /\ E!Having(suite, "pass") # {} /\ E!Having(suite, "fail") = {}
    <3>1. E!Having(suite, "error") # tests
      BY <1>1, <2>2
    <3>2. E!RunTests(suite, FALSE).passed /\ suite.manner # "slow"
      BY <1>3, <2>2, JudgedLoosely DEF E!Silent
    <3> QED
      BY <2>2, <3>1, <3>2
  <2>3. CASE /\ ~(tests = E!Having(suite, "pass") /\ suite.manner = "plain")
             /\ ~(E!Having(suite, "pass") # {} /\ E!Having(suite, "fail") = {})
    <3>1. ~E!RunTests(suite, FALSE).passed
      BY <1>3, <2>3, JudgedLoosely
    <3>2. E!Having(suite, "missing") = {}
      BY <1>3 DEF E!Silent
    <3>3. \/ E!Having(suite, "fail") # {} \/ E!Having(suite, "error") = tests
          \/ suite.manner = "dies"
      BY <1>1, <1>3, <2>3, <3>2 DEF E!Silent
    <3> QED
      BY <3>1, <3>3
  <2> QED
    BY <2>1, <2>2, <2>3
<1> QED
  BY <1>2, <1>3

-----------------------------------------------------------------------------
(* SWE-Gym: the verdict *)

(* None is no run of tests. *)
SweConstants ==
  /\ E!SweGymAssumption
  /\ None \notin E!Suites(F2P) \cup E!Suites(P2P)

(* What is kept of a run of the suites, from the step that met it. *)
BaselineIsKept ==
  /\ base \in E!Suites(P2P)
  /\ baseFailed = IF P2P = {} THEN {} ELSE E!RunTests(base, FALSE).failed
FixIsKept ==
  /\ fixed \in E!Suites(F2P)
  /\ f2pPassed = E!RunTests(fixed, TRUE).passed
VerdictIsKept ==
  /\ after \in E!Suites(P2P)
  /\ state.attempted => state.resolved = (f2pPassed /\ E!P2PPassed(after))

(* The last evaluation was graded. *)
Graded == graded = evals /\ evals > 0

GradesAreTyped ==
  /\ evals \in Nat /\ graded \in Nat /\ graded =< evals
  /\ state \in [attempted : BOOLEAN, resolved : BOOLEAN, writable : BOOLEAN \cup {None}]
  /\ f2pPassed \in BOOLEAN

(* Nothing is resolved before it was attempted, and only a state of before *)
(* is restored.                                                            *)
AttemptsComeFirst ==
  /\ ~state.attempted => ~state.resolved
  /\ swePoint # None /\ swePoint.restorable =>
       swePoint.state \in [attempted : {FALSE}, resolved : {FALSE}, writable : BOOLEAN \cup {None}]
  /\ pc # "idle" => state.attempted /\ evals > 0

RunsAreKept ==
  /\ pc \in {"test_patch", "candidate", "f2p", "p2p"} => BaselineIsKept
  /\ pc = "p2p" => FixIsKept
  /\ pc \notin {"idle", "rm"} => graded < evals
  /\ Graded => BaselineIsKept /\ FixIsKept /\ VerdictIsKept

GradesInvariant == GradesAreTyped /\ AttemptsComeFirst /\ RunsAreKept

(* An evaluation that goes on or ends without a verdict keeps them. *)
LEMMA GradesGoOn ==
  ASSUME GradesInvariant,
         UNCHANGED <<state, swePoint, base, fixed, after, baseFailed, f2pPassed, evals, graded>>,
         pc # "idle" \/ pc' = pc,
         pc' \in {"test_patch", "candidate", "f2p", "p2p"} => BaselineIsKept,
         pc' = "p2p" => FixIsKept,
         pc' \notin {"idle", "rm"} => pc \notin {"idle", "rm"}
  PROVE  GradesInvariant'
<1>1. GradesAreTyped'
  BY DEF GradesInvariant, GradesAreTyped
<1>2. AttemptsComeFirst'
  BY DEF GradesInvariant, AttemptsComeFirst
<1>3. (BaselineIsKept => BaselineIsKept') /\ (FixIsKept => FixIsKept')
  BY DEF BaselineIsKept, FixIsKept
<1>4. VerdictIsKept => VerdictIsKept'
  BY DEF VerdictIsKept, E!P2PPassed
<1>5. Graded' = Graded
  BY DEF Graded
<1>6. RunsAreKept'
  BY <1>3, <1>4, <1>5 DEF GradesInvariant, RunsAreKept
<1> QED
  BY <1>1, <1>2, <1>6 DEF GradesInvariant

(* Nothing was evaluated, so nothing was graded. *)
LEMMA GradesInit == ASSUME E!Init PROVE GradesInvariant
<1>1. state \in [attempted : BOOLEAN, resolved : BOOLEAN, writable : BOOLEAN \cup {None}]
  BY DEF E!Init
<1>2. f2pPassed \in BOOLEAN /\ ~state.attempted /\ ~state.resolved
  BY DEF E!Init
<1>3. evals = 0 /\ graded = 0 /\ pc = "idle" /\ swePoint = None
  BY DEF E!Init
<1> QED
  BY <1>1, <1>2, <1>3 DEF GradesInvariant, GradesAreTyped, AttemptsComeFirst, RunsAreKept, Graded

(* Every step keeps what is known of the evaluation and its verdict. *)
LEMMA GradesStep ==
  ASSUME SweConstants, GradesInvariant, [E!Next]_E!vars PROVE GradesInvariant'
<1>0. GradesAreTyped /\ AttemptsComeFirst /\ RunsAreKept
  BY DEF GradesInvariant
<1>1. CASE UNCHANGED E!vars \/ E!Exits \/ E!LateStart \/ E!Teardown
  <2>1. UNCHANGED <<pc, state, swePoint, base, fixed, after, baseFailed, f2pPassed, evals, graded>>
    BY <1>1 DEF E!vars, E!world, E!runs, E!Exits, E!LateStart, E!Teardown
  <2> QED
    BY <1>0, <2>1, GradesGoOn DEF RunsAreKept
<1>2. CASE E!Evaluate
  <2>1. /\ pc' = "pull" /\ evals' = evals + 1 /\ f2pPassed' = FALSE
        /\ state' = [state EXCEPT !.attempted = TRUE] /\ UNCHANGED <<swePoint, graded>>
    BY <1>2 DEF E!Evaluate
  <2>2. evals' \in Nat /\ graded' \in Nat /\ graded' < evals' /\ evals' > 0
    BY <1>0, <2>1 DEF GradesAreTyped
  <2>3. /\ state' \in [attempted : BOOLEAN, resolved : BOOLEAN, writable : BOOLEAN \cup {None}]
        /\ state'.attempted
    BY <1>0, <2>1 DEF GradesAreTyped
  <2>4. f2pPassed' \in BOOLEAN
    BY <2>1
  <2>5. GradesAreTyped'
    BY <2>2, <2>3, <2>4 DEF GradesAreTyped
  <2>6. AttemptsComeFirst'
    BY <1>0, <2>1, <2>2, <2>3 DEF AttemptsComeFirst
  <2>7. RunsAreKept'
    BY <2>1, <2>2 DEF RunsAreKept, Graded
  <2> QED
    BY <2>5, <2>6, <2>7 DEF GradesInvariant
<1>3. CASE \/ E!Pull \/ E!DockerRun \/ E!ExecFails \/ E!ApplyPatch \/ E!EmptyPatch
           \/ E!Remove \/ E!Cancel
  <2>1. UNCHANGED <<state, swePoint, base, fixed, after, baseFailed, f2pPassed, evals, graded>>
    BY <1>3 DEF E!Pull, E!DockerRun, E!ExecFails, E!ApplyPatch, E!EmptyPatch, E!Remove, E!Cancel,
       E!runs
  <2>2. pc # "idle"
    BY <1>3 DEF E!Pull, E!DockerRun, E!ExecFails, E!ApplyPatch, E!EmptyPatch, E!Remove, E!Cancel
  <2>3. \/ pc' \in {"idle", "rm", "run", "probe"} /\ (pc' \in {"run", "probe"} => pc # "rm")
        \/ pc \in {"test_patch", "candidate"} /\ pc' \in {"candidate", "f2p"}
    BY <1>3 DEF E!Pull, E!DockerRun, E!ExecFails, E!ApplyPatch, E!EmptyPatch, E!Remove, E!Cancel,
       E!Raise
  <2> QED
    BY <1>0, <2>1, <2>2, <2>3, GradesGoOn DEF RunsAreKept
<1>4. CASE E!Probe
  <2>1. PICK writable \in BOOLEAN :
          /\ state' = [state EXCEPT !.writable = writable]
          /\ pc' \in {"baseline", "rm"}
    BY <1>4 DEF E!Probe, E!Raise
  <2>2. /\ pc = "probe"
        /\ UNCHANGED <<swePoint, base, fixed, after, baseFailed, f2pPassed, evals, graded>>
    BY <1>4 DEF E!Probe, E!runs
  <2>3. /\ state' \in [attempted : BOOLEAN, resolved : BOOLEAN, writable : BOOLEAN \cup {None}]
        /\ state'.attempted = state.attempted /\ state'.resolved = state.resolved
    BY <1>0, <2>1 DEF GradesAreTyped
  <2>4. graded < evals /\ graded \in Nat /\ evals \in Nat
    BY <1>0, <2>2 DEF RunsAreKept, GradesAreTyped
  <2>5. GradesAreTyped'
    BY <1>0, <2>2, <2>3 DEF GradesAreTyped
  <2>6. AttemptsComeFirst'
    BY <1>0, <2>2, <2>3 DEF AttemptsComeFirst
  <2>7. RunsAreKept'
    BY <2>1, <2>2, <2>4 DEF RunsAreKept, Graded
  <2> QED
    BY <2>5, <2>6, <2>7 DEF GradesInvariant
<1>5. CASE E!Baseline
  <2>1. PICK suite \in E!Suites(P2P) :
          /\ base' = suite
          /\ baseFailed' = IF P2P = {} THEN {} ELSE E!RunTests(suite, FALSE).failed
    BY <1>5 DEF E!Baseline
  <2>2. /\ pc = "baseline" /\ pc' = "test_patch"
        /\ UNCHANGED <<state, swePoint, fixed, after, f2pPassed, evals, graded>>
    BY <1>5 DEF E!Baseline
  <2>3. BaselineIsKept'
    <3>1. E!RunTests(suite, FALSE).failed = E!RunTests(base, FALSE).failed'
      BY <2>1 DEF E!RunTests, E!Silent, E!Having
    <3> QED
      BY <2>1, <3>1 DEF BaselineIsKept
  <2>4. graded < evals /\ graded \in Nat /\ evals \in Nat
    BY <1>0, <2>2 DEF RunsAreKept, GradesAreTyped
  <2>5. GradesAreTyped'
    BY <1>0, <2>2 DEF GradesAreTyped
  <2>6. AttemptsComeFirst'
    BY <1>0, <2>2 DEF AttemptsComeFirst
  <2>7. RunsAreKept'
    BY <2>2, <2>3, <2>4 DEF RunsAreKept, Graded
  <2> QED
    BY <2>5, <2>6, <2>7 DEF GradesInvariant
<1>6. CASE E!FailToPass
  <2>1. PICK suite \in E!Suites(F2P) :
          fixed' = suite /\ f2pPassed' = E!RunTests(suite, TRUE).passed
    BY <1>6 DEF E!FailToPass
  <2>2. /\ pc = "f2p" /\ pc' = "p2p"
        /\ UNCHANGED <<state, swePoint, base, after, baseFailed, evals, graded>>
    BY <1>6 DEF E!FailToPass
  <2>3. FixIsKept'
    <3>1. E!RunTests(suite, TRUE).passed = E!RunTests(fixed, TRUE).passed'
      BY <2>1 DEF E!RunTests, E!Silent, E!Having
    <3> QED
      BY <2>1, <3>1 DEF FixIsKept
  <2>4. f2pPassed' \in BOOLEAN
    <3>1. Malformed \in BOOLEAN
      BY Zenon DEF SweConstants, E!SweGymAssumption
    <3>2. E!RunTests(suite, TRUE).passed \in BOOLEAN
      BY <3>1 DEF E!RunTests
    <3> QED
      BY <2>1, <3>2, Zenon
  <2>5. BaselineIsKept'
    BY <1>0, <2>2 DEF RunsAreKept, BaselineIsKept
  <2>6. graded < evals /\ graded \in Nat /\ evals \in Nat
    BY <1>0, <2>2 DEF RunsAreKept, GradesAreTyped
  <2>7. GradesAreTyped'
    BY <1>0, <2>2, <2>4 DEF GradesAreTyped
  <2>8. AttemptsComeFirst'
    BY <1>0, <2>2 DEF AttemptsComeFirst
  <2>9. RunsAreKept'
    BY <2>2, <2>3, <2>5, <2>6 DEF RunsAreKept, Graded
  <2> QED
    BY <2>7, <2>8, <2>9 DEF GradesInvariant
<1>7. CASE E!PassToPass
  <2>1. PICK suite \in E!Suites(P2P) :
          /\ after' = suite
          /\ state' = [state EXCEPT !.resolved = f2pPassed /\ E!P2PPassed(suite)]
    BY <1>7 DEF E!PassToPass
  <2>2. /\ pc = "p2p" /\ pc' = "rm" /\ graded' = evals
        /\ UNCHANGED <<swePoint, base, fixed, baseFailed, f2pPassed, evals>>
    BY <1>7 DEF E!PassToPass
  <2>3. BaselineIsKept' /\ FixIsKept' /\ state.attempted /\ evals > 0
    BY <1>0, <2>2 DEF RunsAreKept, AttemptsComeFirst, BaselineIsKept, FixIsKept
  <2>4. (f2pPassed /\ E!P2PPassed(suite)) \in BOOLEAN
    OBVIOUS
  <2>5. /\ state' \in [attempted : BOOLEAN, resolved : BOOLEAN, writable : BOOLEAN \cup {None}]
        /\ state'.attempted = state.attempted
        /\ state'.resolved = (f2pPassed /\ E!P2PPassed(suite))
    BY <1>0, <2>1, <2>4 DEF GradesAreTyped
  <2>6. E!P2PPassed(suite) = E!P2PPassed(after)'
    BY <2>1, <2>2 DEF E!P2PPassed
  <2>7. VerdictIsKept'
    BY <2>1, <2>2, <2>5, <2>6 DEF VerdictIsKept
  <2>8. GradesAreTyped'
    BY <1>0, <2>2, <2>5 DEF GradesAreTyped
  <2>9. AttemptsComeFirst'
    BY <1>0, <2>2, <2>3, <2>5 DEF AttemptsComeFirst
  <2>10. RunsAreKept'
    BY <2>2, <2>3, <2>7 DEF RunsAreKept
  <2> QED
    BY <2>8, <2>9, <2>10 DEF GradesInvariant
<1>8. CASE E!Checkpoint
  <2>1. /\ swePoint' = [restorable |-> ~state.attempted, state |-> state] /\ pc = "idle"
        /\ UNCHANGED <<pc, state, base, fixed, after, baseFailed, f2pPassed, evals, graded>>
    BY <1>8 DEF E!Checkpoint, E!runs
  <2>2. ~state.attempted => state \in
          [attempted : {FALSE}, resolved : {FALSE}, writable : BOOLEAN \cup {None}]
    BY <1>0 DEF GradesAreTyped, AttemptsComeFirst
  <2>3. GradesAreTyped'
    BY <1>0, <2>1 DEF GradesAreTyped
  <2>4. AttemptsComeFirst'
    BY <1>0, <2>1, <2>2 DEF AttemptsComeFirst
  <2>5. VerdictIsKept => VerdictIsKept'
    BY <2>1 DEF VerdictIsKept, E!P2PPassed
  <2>6. RunsAreKept'
    BY <1>0, <2>1, <2>5 DEF RunsAreKept, Graded, BaselineIsKept, FixIsKept
  <2> QED
    BY <2>3, <2>4, <2>6 DEF GradesInvariant
<1>9. CASE E!Restore
  <2>1. /\ state' = swePoint.state /\ swePoint # None /\ swePoint.restorable /\ pc = "idle"
        /\ UNCHANGED <<pc, swePoint, base, fixed, after, baseFailed, f2pPassed, evals, graded>>
    BY <1>9 DEF E!Restore, E!runs
  <2>2. state' \in [attempted : {FALSE}, resolved : {FALSE}, writable : BOOLEAN \cup {None}]
    BY <1>0, <2>1 DEF AttemptsComeFirst
  <2>3. ~state'.attempted /\ ~state'.resolved
    BY <2>2
  <2>4. state' \in [attempted : BOOLEAN, resolved : BOOLEAN, writable : BOOLEAN \cup {None}]
    BY <2>2
  <2>5. GradesAreTyped'
    BY <1>0, <2>1, <2>4 DEF GradesAreTyped
  <2>6. AttemptsComeFirst'
    BY <1>0, <2>1, <2>3 DEF AttemptsComeFirst
  <2>7. RunsAreKept'
    BY <1>0, <2>1, <2>3 DEF RunsAreKept, Graded, BaselineIsKept, FixIsKept, VerdictIsKept
  <2> QED
    BY <2>5, <2>6, <2>7 DEF GradesInvariant
<1> QED
  BY <1>1, <1>2, <1>3, <1>4, <1>5, <1>6, <1>7, <1>8, <1>9 DEF E!Next, E!Handle

(* A verdict that was kept is one that was earned: the suites say so.      *)
LEMMA KeptIsEarned ==
  ASSUME SweConstants, BaselineIsKept, FixIsKept, after \in E!Suites(P2P),
         f2pPassed, E!P2PPassed(after)
  PROVE  /\ E!FixesTheIssue \/ (Malformed /\ E!Having(fixed, "missing") # {})
         /\ E!Regressions = {} \/ E!Having(after, "missing") # {}
         /\ P2P # {} => after.manner # "slow" /\ E!Having(after, "error") # P2P
<1>1. E!FixesTheIssue \/ (Malformed /\ E!Having(fixed, "missing") # {})
  BY StrictlyJudged DEF SweConstants, E!SweGymAssumption, FixIsKept, E!FixesTheIssue
<1>2. /\ E!Having(after, "fail") = {t \in P2P : after.outcome[t] = "fail"}
      /\ E!Having(base, "fail") = {t \in P2P : base.outcome[t] = "fail"}
  BY SuiteParts DEF BaselineIsKept
<1>3. CASE P2P = {}
  BY <1>1, <1>3 DEF E!Regressions
<1>4. CASE E!RunTests(after, FALSE).passed
  BY <1>1, <1>2, <1>4, LooselyJudged DEF E!Regressions
<1>5. CASE /\ P2P # {} /\ E!RunTests(after, FALSE).failed # {}
           /\ E!RunTests(after, FALSE).failed \subseteq baseFailed
  <2>1. ~E!Silent(after) /\ E!RunTests(after, FALSE).failed = E!Having(after, "fail")
    BY <1>5, FailuresSeen
  <2>2. baseFailed \subseteq E!Having(base, "fail")
    BY <1>5, FailuresSeen DEF BaselineIsKept
  <2>3. E!Having(after, "error") = {t \in P2P : after.outcome[t] = "error"}
    BY SuiteParts
  <2>4. E!Having(after, "error") # P2P
    BY <1>2, <1>5, <2>1, <2>3
  <2> QED
    BY <1>1, <1>2, <1>5, <2>1, <2>2, <2>4 DEF E!Regressions, E!Silent
<1> QED
  BY <1>3, <1>4, <1>5 DEF E!P2PPassed

(* And one that was refused had a reason in them.                          *)
LEMMA RefusedHasAReason ==
  ASSUME SweConstants, BaselineIsKept, FixIsKept, after \in E!Suites(P2P),
         ~(f2pPassed /\ E!P2PPassed(after))
  PROVE  \/ ~E!FixesTheIssue \/ E!Regressions # {}
         \/ P2P # {} /\ \/ E!Silent(base) \/ E!Silent(after) \/ E!Having(after, "error") = P2P
                        \/ after.manner = "dies"
<1>0. P2P = {} => E!P2PPassed(after)
  BY DEF E!P2PPassed
<1> SUFFICES ASSUME E!FixesTheIssue,
                    P2P # {} => /\ ~E!Silent(base) /\ ~E!Silent(after)
                                /\ E!Having(after, "error") # P2P /\ after.manner # "dies"
             PROVE  E!Regressions # {}
  OBVIOUS
<1>1. /\ E!Having(after, "fail") = {t \in P2P : after.outcome[t] = "fail"}
      /\ E!Having(base, "fail") = {t \in P2P : base.outcome[t] = "fail"}
      /\ E!Having(after, "error") = {t \in P2P : after.outcome[t] = "error"}
  BY SuiteParts DEF BaselineIsKept
<1>2. f2pPassed
  BY StrictlyJudged DEF SweConstants, E!SweGymAssumption, FixIsKept, E!FixesTheIssue
<1>3. ~E!P2PPassed(after)
  BY <1>2
<1>4. /\ P2P # {} /\ ~E!RunTests(after, FALSE).passed
      /\ ~(/\ E!RunTests(after, FALSE).failed # {}
           /\ E!RunTests(after, FALSE).failed \subseteq baseFailed)
  BY <1>3 DEF E!P2PPassed
<1>5. E!Having(after, "fail") # {}
  BY <1>4, LooselyJudged
<1>6. /\ E!RunTests(after, FALSE).failed = E!Having(after, "fail")
      /\ baseFailed = E!Having(base, "fail")
  BY <1>4, FailuresSeen DEF BaselineIsKept
<1> QED
  BY <1>1, <1>4, <1>5, <1>6 DEF E!Regressions

(* A container that died under a run of tests is not there for the next:   *)
(* no verdict is of an evaluation whose baseline or FAIL_TO_PASS run killed *)
(* it while PASS_TO_PASS was still to be run.                              *)
DeathsAreNoticed ==
  /\ pc \notin {"idle", "rm"} => ~late
  /\ pc \in {"test_patch", "candidate", "f2p", "p2p"} /\ P2P # {} /\ base.manner = "dies" =>
       container = "exited"
  /\ pc = "p2p" /\ fixed.manner = "dies" => container = "exited"
  /\ Graded /\ P2P # {} => "dies" \notin {base.manner, fixed.manner}

(* Nothing was run. *)
LEMMA DeathsInit == ASSUME E!Init PROVE DeathsAreNoticed
BY DEF E!Init, DeathsAreNoticed, Graded

(* The next command in a dead container raises. *)
LEMMA DeathsStep ==
  ASSUME SweConstants, GradesInvariant, DeathsAreNoticed, [E!Next]_E!vars
  PROVE  DeathsAreNoticed'
<1>0. /\ evals \in Nat /\ graded \in Nat /\ graded =< evals
      /\ pc \notin {"idle", "rm"} => graded < evals
  BY DEF GradesInvariant, GradesAreTyped, RunsAreKept
<1>1. CASE UNCHANGED E!vars \/ E!Checkpoint \/ E!Restore \/ E!Teardown
  BY <1>1 DEF E!vars, E!world, E!runs, E!Checkpoint, E!Restore, E!Teardown, DeathsAreNoticed, Graded
<1>2. CASE E!Evaluate
  <2>1. ~late' /\ pc' = "pull" /\ evals' = evals + 1 /\ graded' = graded
    BY <1>2 DEF E!Evaluate
  <2> QED
    BY <1>0, <2>1 DEF DeathsAreNoticed, Graded
<1>3. CASE E!Pull \/ E!DockerRun \/ E!Probe
  <2>1. /\ pc \in {"pull", "run", "probe"} /\ pc' \in {"idle", "rm", "run", "probe", "baseline"}
        /\ UNCHANGED <<evals, graded>> /\ (pc' \notin {"idle", "rm"} => late' = late)
    BY <1>3 DEF E!Pull, E!DockerRun, E!Probe, E!Raise, E!world
  <2> QED
    BY <1>0, <2>1 DEF DeathsAreNoticed, Graded
<1>4. CASE E!ExecFails \/ E!Remove \/ E!Cancel
  <2>1. /\ pc' \in {"idle", "rm"} /\ UNCHANGED <<evals, graded, base, fixed>>
    BY <1>4 DEF E!ExecFails, E!Remove, E!Cancel, E!Raise, E!runs
  <2> QED
    BY <2>1 DEF DeathsAreNoticed, Graded
<1>5. CASE E!Baseline
  <2>1. PICK suite \in E!Suites(P2P) : base' = suite /\ E!ContainerAfter(suite)
    BY <1>5 DEF E!Baseline
  <2>2. pc = "baseline" /\ pc' = "test_patch" /\ UNCHANGED <<late, evals, graded>>
    BY <1>5 DEF E!Baseline
  <2>3. P2P # {} /\ base'.manner = "dies" => container' = "exited"
    BY <2>1, SuiteParts DEF E!ContainerAfter
  <2> QED
    BY <1>0, <2>2, <2>3 DEF DeathsAreNoticed, Graded
<1>6. CASE E!ApplyPatch \/ E!EmptyPatch
  <2>1. /\ pc \in {"test_patch", "candidate"} /\ pc' \in {"candidate", "f2p", "rm"}
        /\ UNCHANGED <<late, evals, graded, base, fixed>>
    BY <1>6 DEF E!ApplyPatch, E!EmptyPatch, E!Raise, E!world, E!runs
  <2>2. container = "exited" => container' = "exited"
    BY <1>6 DEF E!ApplyPatch, E!EmptyPatch, E!world
  <2> QED
    BY <1>0, <2>1, <2>2 DEF DeathsAreNoticed, Graded
<1>7. CASE E!FailToPass
  <2>1. PICK suite \in E!Suites(F2P) : fixed' = suite /\ E!ContainerAfter(suite)
    BY <1>7 DEF E!FailToPass
  <2>2. /\ pc = "f2p" /\ pc' = "p2p" /\ container = "running"
        /\ UNCHANGED <<late, evals, graded, base>>
    BY <1>7 DEF E!FailToPass
  <2>3. fixed'.manner = "dies" => container' = "exited"
    BY <2>1, SuiteParts DEF E!ContainerAfter, SweConstants, E!SweGymAssumption
  <2> QED
    BY <1>0, <2>2, <2>3 DEF DeathsAreNoticed, Graded
<1>8. CASE E!PassToPass
  <2>1. /\ pc = "p2p" /\ pc' = "rm" /\ (P2P # {} => container = "running")
        /\ UNCHANGED <<base, fixed>>
    BY <1>8 DEF E!PassToPass, E!Runs
  <2> QED
    BY <2>1 DEF DeathsAreNoticed
<1>9. CASE E!Exits \/ E!LateStart
  <2>1. UNCHANGED <<pc, evals, graded, base, fixed>>
    BY <1>9 DEF E!Exits, E!LateStart, E!runs
  <2>2. \/ container' = "exited" /\ UNCHANGED late
        \/ late /\ ~late'
    BY <1>9 DEF E!Exits, E!LateStart
  <2> QED
    BY <2>1, <2>2 DEF DeathsAreNoticed, Graded
<1> QED
  BY <1>1, <1>2, <1>3, <1>4, <1>5, <1>6, <1>7, <1>8, <1>9 DEF E!Next, E!Handle

(* What the invariant says of a candidate that was graded. *)
LEMMA GradesClaims ==
  ASSUME SweConstants, GradesInvariant, DeathsAreNoticed
  PROVE  E!ResolvedIsEarned /\ E!PreexistingIsForgiven
<1>1. ASSUME graded = evals, evals > 0
      PROVE  /\ BaselineIsKept /\ FixIsKept /\ after \in E!Suites(P2P)
             /\ state.attempted => state.resolved = (f2pPassed /\ E!P2PPassed(after))
             /\ fixed # None /\ after # None
             /\ state.resolved => state.attempted
  <2>1. BaselineIsKept /\ FixIsKept /\ VerdictIsKept
    BY <1>1 DEF GradesInvariant, RunsAreKept, Graded
  <2>2. state.resolved => state.attempted
    BY DEF GradesInvariant, AttemptsComeFirst
  <2> QED
    BY <2>1, <2>2 DEF VerdictIsKept, FixIsKept, SweConstants
<1>2. E!ResolvedIsEarned
  <2> SUFFICES ASSUME state.resolved, graded = evals, evals > 0
               PROVE  /\ fixed # None /\ after # None
                      /\ E!FixesTheIssue \/ (Malformed /\ E!Having(fixed, "missing") # {})
                      /\ E!Regressions = {} \/ E!Having(after, "missing") # {}
                      /\ P2P # {} => after.manner # "slow" /\ E!Having(after, "error") # P2P
    BY DEF E!ResolvedIsEarned
  <2>1. f2pPassed /\ E!P2PPassed(after)
    BY <1>1
  <2> QED
    BY <1>1, <2>1, KeptIsEarned
<1>3. E!PreexistingIsForgiven
  <2> SUFFICES ASSUME graded = evals, evals > 0, state.attempted, ~state.resolved
               PROVE  /\ fixed # None /\ after # None
                      /\ P2P # {} => "dies" \notin {base.manner, fixed.manner}
                      /\ \/ ~E!FixesTheIssue \/ E!Regressions # {}
                         \/ P2P # {} /\ \/ E!Silent(base) \/ E!Silent(after)
                                        \/ E!Having(after, "error") = P2P
                                        \/ after.manner = "dies"
    BY DEF E!PreexistingIsForgiven
  <2>1. ~(f2pPassed /\ E!P2PPassed(after))
    BY <1>1
  <2>2. P2P # {} => "dies" \notin {base.manner, fixed.manner}
    BY DEF DeathsAreNoticed, Graded
  <2> QED
    BY <1>1, <2>1, <2>2, RefusedHasAReason
<1> QED
  BY <1>2, <1>3

(* A candidate counts as resolved only when the tests of the issue passed, *)
(* no test is reported as FAILED that was not so before and the suite did  *)
(* not break down; and one of which all that holds is refused only for     *)
(* what the suites themselves did not report.                              *)
THEOREM SweVerdicts ==
  ASSUME SweConstants PROVE E!Spec => [](E!ResolvedIsEarned /\ E!PreexistingIsForgiven)
BY GradesInit, GradesStep, DeathsInit, DeathsStep, GradesClaims, PTL DEF E!Spec

-----------------------------------------------------------------------------
(* SWE-Gym: the container *)

(* A container that is not there for a run that is to begin. *)
ContainersInvariant ==
  /\ pc = "pull" => container = "none" /\ ~late
  /\ E!ContainersAreRemoved

(* No container exists before the first evaluation. *)
LEMMA ContainersInit == ASSUME E!Init PROVE ContainersInvariant
BY DEF E!Init, ContainersInvariant, E!ContainersAreRemoved

(* Whatever ends an evaluation, its container goes or docker kept it. *)
LEMMA ContainersStep ==
  ASSUME ContainersInvariant, [E!Next]_E!vars PROVE ContainersInvariant'
<1> USE DEF ContainersInvariant, E!ContainersAreRemoved
<1>1. CASE UNCHANGED E!vars
  BY <1>1 DEF E!vars, E!world
<1>2. CASE E!Evaluate
  BY <1>2 DEF E!Evaluate
<1>3. CASE E!Pull
  BY <1>3 DEF E!Pull, E!world
<1>4. CASE E!DockerRun
  BY <1>4 DEF E!DockerRun, E!Raise
<1>5. CASE E!ExecFails \/ E!Probe \/ E!Baseline \/ E!ApplyPatch
  BY <1>5 DEF E!ExecFails, E!Probe, E!Baseline, E!ApplyPatch, E!Raise
<1>6. CASE E!EmptyPatch \/ E!FailToPass \/ E!PassToPass
  BY <1>6 DEF E!EmptyPatch, E!FailToPass, E!PassToPass
<1>7. CASE E!Remove
  BY <1>7 DEF E!Remove
<1>8. CASE E!Cancel
  BY <1>8 DEF E!Cancel
<1>9. CASE E!Checkpoint \/ E!Restore \/ E!Teardown
  BY <1>9 DEF E!Checkpoint, E!Restore, E!Teardown, E!world
<1>10. CASE E!Exits
  BY <1>10 DEF E!Exits
<1>11. CASE E!LateStart
  BY <1>11 DEF E!LateStart
<1> QED
  BY <1>1, <1>2, <1>3, <1>4, <1>5, <1>6, <1>7, <1>8, <1>9, <1>10, <1>11
     DEF E!Next, E!Handle

(* An evaluation that ended by itself has removed its container, unless    *)
(* docker did not do it or was about to create it.                         *)
THEOREM SweContainers == E!Spec => []E!ContainersAreRemoved
<1>1. ContainersInvariant => E!ContainersAreRemoved
  BY DEF ContainersInvariant
<1> QED
  BY <1>1, ContainersInit, ContainersStep, PTL DEF E!Spec

-----------------------------------------------------------------------------
(* Codebases: commits, working trees and checkpoints *)

CodeTrees == SUBSET (Files \cup {Junk})

CommitRecords == [tree : CodeTrees, by : {"user", "gym", "ambient"}]

CodeRecords ==
  [phase : {"none", "open", "failed", "closed"}, origin : {"none", "scratch", "cloned"},
   git : {"own", "linked", "gone"}, dir : BOOLEAN, objects : SUBSET Nat, head : Nat,
   index : CodeTrees, wt : CodeTrees, named : BOOLEAN]

CodeTypes ==
  /\ commits \in Seq(CommitRecords) /\ Len(commits) >= 1
  /\ source \in [objects : SUBSET Nat, registered : SUBSET CodeEnvs, identity : {"user", "gym"}]
  /\ C!SourceSha \in source.objects
  /\ env \in [CodeEnvs -> CodeRecords]
  /\ source.objects \subseteq 1..Len(commits)
  /\ \A e \in CodeEnvs : env[e].objects \subseteq 1..Len(commits)

(* A checkpoint is of an environment that was open, and names the way it   *)
(* was made; an environment is made once.                                  *)
PointsAreOfEnvs ==
  \A p \in points : /\ p.env \in CodeEnvs /\ p.head \in Nat
                    /\ env[p.env].phase \in {"open", "closed"}
                    /\ p.from = env[p.env].origin

(* Who commits: worktrees share the identity that was configured in their  *)
(* source, a scratch repository keeps its own, and a clone loses it only   *)
(* when its repository was destroyed.                                      *)
IdentitiesAreSet ==
  /\ ~Local => source.identity = "user"
  /\ \A e \in CodeEnvs : env[e].phase = "open" =>
       /\ env[e].git = "linked" => Local /\ source.identity = "gym"
       /\ env[e].git = "own" /\ (Local \/ "gone" \notin CodeFaults) => env[e].named
       /\ env[e].git = "own" /\ Local => env[e].origin = "scratch"
       /\ env[e].origin = "cloned" /\ Local => source.identity = "gym"

(* Unless the project's own commands destroy the repository, the commits   *)
(* of a checkpoint stay reachable as long as its environment is open.      *)
CommitsAreReachable ==
  "gone" \notin CodeFaults =>
    \A e \in CodeEnvs : env[e].phase = "open" =>
      /\ env[e].git # "gone" /\ env[e].head \in {0} \cup C!Objects(e)
      /\ \A p \in points : p.env = e => p.head \in {0} \cup C!Objects(e)

CodeAnswers ==
  /\ C!RestoredTreesAreClean /\ C!PassesAreWhole /\ C!RebuildsAreNotBlocked
  /\ "gone" \notin CodeFaults => C!RestoreReachesTheCheckpoint

CodeCommitted == Local \/ "gone" \notin CodeFaults => C!CommitsAreTheGyms

CodeInvariant ==
  CodeTypes /\ PointsAreOfEnvs /\ IdentitiesAreSet /\ CommitsAreReachable /\ CodeAnswers
    /\ CodeCommitted

(* A scratch repository or clone begins empty-handed. *)
LEMMA CodeInit == ASSUME C!CodebaseAssumption, C!Init PROVE CodeInvariant
<1>1. CodeTypes
  <2>1. SourceTree \in CodeTrees
    BY DEF C!CodebaseAssumption, CodeTrees
  <2>2. commits \in Seq(CommitRecords) /\ Len(commits) >= 1
    BY <2>1 DEF C!Init, CommitRecords
  <2>3. C!NoEnv \in CodeRecords
    BY DEF C!NoEnv, CodeRecords, CodeTrees
  <2>4. env \in [CodeEnvs -> CodeRecords]
    BY <2>3 DEF C!Init
  <2>5. commits = <<[tree |-> SourceTree, by |-> "user"]>> /\ source.objects = {1}
    BY DEF C!Init, C!SourceSha
  <2>6. 1 \in 1..Len(commits)
    BY <2>5
  <2>7. \A e \in CodeEnvs : env[e].objects = {}
    BY DEF C!Init, C!NoEnv
  <2>8. source \in [objects : SUBSET Nat, registered : SUBSET CodeEnvs,
                    identity : {"user", "gym"}]
    BY DEF C!Init, C!SourceSha
  <2> QED
    BY <2>2, <2>4, <2>5, <2>6, <2>7, <2>8 DEF CodeTypes, C!SourceSha
<1>2. PointsAreOfEnvs
  BY DEF C!Init, PointsAreOfEnvs
<1>3. IdentitiesAreSet /\ CommitsAreReachable
  BY DEF C!Init, IdentitiesAreSet, CommitsAreReachable, C!NoEnv
<1>4. CodeAnswers
  BY DEF C!Init, CodeAnswers, C!RestoredTreesAreClean, C!PassesAreWhole, C!RebuildsAreNotBlocked,
     C!RestoreReachesTheCheckpoint, C!Restored, C!NoAnswer
<1>5. CodeCommitted
  BY DEF C!Init, CodeCommitted, C!CommitsAreTheGyms
<1> QED
  BY <1>1, <1>2, <1>3, <1>4, <1>5 DEF CodeInvariant

(* Pruning before every add leaves no registration in the way. *)
LEMMA NothingBlocks == ASSUME NEW e PROVE ~C!Blocked(e)
BY DEF C!Blocked, C!Pruned

(* An answer that is neither a restore nor a run says nothing of a tree. *)
LEMMA OtherAnswers ==
  ASSUME NEW op, NEW e, NEW ok, NEW how, NEW p, C!Say(op, e, ok, how, p), how # "blocked",
         \/ op \notin {"restore", "run"}
         \/ ok = FALSE
  PROVE  CodeAnswers'
<1>1. answer'.op = op /\ answer'.ok = ok /\ answer'.why # "blocked"
  BY DEF C!Say
<1> QED
  BY <1>1 DEF CodeAnswers, C!RestoredTreesAreClean, C!PassesAreWhole, C!RebuildsAreNotBlocked,
     C!RestoreReachesTheCheckpoint, C!Restored

(* The fresh checkout of the source. *)
LEMMA CheckedOut ==
  ASSUME CodeTypes, NEW r \in CodeRecords
  PROVE  /\ C!Checkout(r) \in CodeRecords
         /\ C!Checkout(r).phase = r.phase /\ C!Checkout(r).origin = r.origin
         /\ C!Checkout(r).named = r.named
         /\ C!Checkout(r).head = C!SourceSha /\ C!Checkout(r).dir = TRUE
         /\ C!Checkout(r).wt = C!Tree(C!SourceSha) /\ C!Checkout(r).index = C!Tree(C!SourceSha)
         /\ C!Checkout(r).git = IF C!Strategy = "worktree" THEN "linked" ELSE "own"
         /\ C!Strategy # "worktree" => C!Checkout(r).objects = source.objects
         /\ C!Checkout(r).objects \subseteq source.objects
<1>1. C!Tree(C!SourceSha) \in CodeTrees
  <2>0. 1 \in 1..Len(commits)
    BY DEF CodeTypes
  <2>1. commits[1] \in CommitRecords
    BY <2>0 DEF CodeTypes
  <2> QED
    BY <2>1 DEF C!Tree, C!SourceSha, CommitRecords
<1>2. source.objects \in SUBSET Nat /\ C!SourceSha \in Nat
  BY DEF CodeTypes, C!SourceSha
<1> QED
  BY <1>1, <1>2 DEF C!Checkout, CodeRecords

(* Commits that were made stay what they are. *)
LEMMA CommittedStays ==
  ASSUME CodeCommitted, UNCHANGED commits PROVE CodeCommitted'
BY DEF CodeCommitted, C!CommitsAreTheGyms

(* A step of one environment that leaves it something to go on with. *)
LEMMA CodeGoesOn ==
  ASSUME CodeTypes, PointsAreOfEnvs, IdentitiesAreSet, CommitsAreReachable,
         NEW e \in CodeEnvs, NEW r \in CodeRecords, env' = [env EXCEPT ![e] = r],
         UNCHANGED points,
         commits' \in Seq(CommitRecords),
         Len(commits') >= Len(commits),
         source'.objects \subseteq 1..Len(commits'), r.objects \subseteq 1..Len(commits'),
         source' \in [objects : SUBSET Nat, registered : SUBSET CodeEnvs,
                      identity : {"user", "gym"}],
         source.objects \subseteq source'.objects,
         source'.identity = source.identity \/ (Local /\ source'.identity = "gym"),
         \/ env[e].phase \in {"none", "failed"}
         \/ r.phase \in {"open", "closed"} /\ r.origin = env[e].origin,
         r.phase = "open" =>
           /\ r.git = "linked" => Local /\ source'.identity = "gym"
           /\ r.git = "own" /\ (Local \/ "gone" \notin CodeFaults) => r.named
           /\ r.git = "own" /\ Local => r.origin = "scratch"
           /\ r.origin = "cloned" /\ Local => source'.identity = "gym",
         r.phase = "open" /\ "gone" \notin CodeFaults =>
           /\ r.git # "gone" /\ r.head \in {0} \cup C!Objects(e)'
           /\ env[e].phase = "open" => C!Objects(e) \subseteq C!Objects(e)',
         env[e].phase = "closed" => r.phase = "closed"
  PROVE  CodeTypes' /\ PointsAreOfEnvs' /\ IdentitiesAreSet' /\ CommitsAreReachable'
<1>1. /\ env \in [CodeEnvs -> CodeRecords] /\ env' \in [CodeEnvs -> CodeRecords] /\ env'[e] = r
      /\ \A o \in CodeEnvs : o # e => env'[o] = env[o]
  BY DEF CodeTypes
<1>2. CodeTypes'
  BY <1>1 DEF CodeTypes
<1>3. PointsAreOfEnvs'
  <2> SUFFICES ASSUME NEW p \in points
               PROVE  /\ p.env \in CodeEnvs /\ p.head \in Nat
                      /\ env'[p.env].phase \in {"open", "closed"}
                      /\ p.from = env'[p.env].origin
    BY DEF PointsAreOfEnvs
  <2>1. /\ p.env \in CodeEnvs /\ p.head \in Nat
        /\ env[p.env].phase \in {"open", "closed"} /\ p.from = env[p.env].origin
    BY DEF PointsAreOfEnvs
  <2>2. CASE p.env # e
    BY <1>1, <2>1, <2>2
  <2>3. CASE p.env = e
    BY <1>1, <2>1, <2>3
  <2> QED
    BY <2>2, <2>3
<1>4. IdentitiesAreSet'
  <2>1. ~Local => source'.identity = "user"
    BY DEF IdentitiesAreSet
  <2>2. ASSUME NEW o \in CodeEnvs, env'[o].phase = "open"
        PROVE  /\ env'[o].git = "linked" => Local /\ source'.identity = "gym"
               /\ env'[o].git = "own" /\ (Local \/ "gone" \notin CodeFaults) => env'[o].named
               /\ env'[o].git = "own" /\ Local => env'[o].origin = "scratch"
               /\ env'[o].origin = "cloned" /\ Local => source'.identity = "gym"
    <3>1. CASE o = e
      BY <1>1, <2>2, <3>1
    <3>2. CASE o # e
      BY <1>1, <2>2, <3>2 DEF IdentitiesAreSet
    <3> QED
      BY <3>1, <3>2
  <2> QED
    BY <2>1, <2>2 DEF IdentitiesAreSet
<1>5. CommitsAreReachable'
  <2> SUFFICES ASSUME "gone" \notin CodeFaults, NEW o \in CodeEnvs, env'[o].phase = "open"
               PROVE  /\ env'[o].git # "gone" /\ env'[o].head \in {0} \cup C!Objects(o)'
                      /\ \A p \in points : p.env = o => p.head \in {0} \cup C!Objects(o)'
    BY DEF CommitsAreReachable
  <2>1. CASE o = e
    <3>1. /\ env'[o].git # "gone" /\ env'[o].head \in {0} \cup C!Objects(o)'
          /\ env[o].phase = "open" => C!Objects(o) \subseteq C!Objects(o)'
      BY <1>1, <2>1
    <3>2. ASSUME NEW p \in points, p.env = o PROVE p.head \in {0} \cup C!Objects(o)'
      <4>1. env[o].phase = "open"
        BY <1>1, <2>1, <3>2 DEF PointsAreOfEnvs
      <4>2. p.head \in {0} \cup C!Objects(o)
        BY <3>2, <4>1 DEF CommitsAreReachable
      <4> QED
        BY <3>1, <4>1, <4>2
    <3> QED
      BY <3>1, <3>2
  <2>2. CASE o # e
    <3>1. env[o].phase = "open" /\ env'[o] = env[o]
      BY <1>1, <2>2
    <3>2. C!Objects(o) \subseteq C!Objects(o)'
      BY <3>1 DEF C!Objects
    <3> QED
      BY <3>1, <3>2 DEF CommitsAreReachable
  <2> QED
    BY <2>1, <2>2
<1> QED
  BY <1>2, <1>3, <1>4, <1>5

(* The calls that only look. *)
LEMMA LooksKeepCode ==
  ASSUME CodeInvariant, UNCHANGED <<commits, source, env, points>>, CodeAnswers'
  PROVE  CodeInvariant'
<1>1. CodeTypes' /\ PointsAreOfEnvs' /\ IdentitiesAreSet'
  BY DEF CodeInvariant, CodeTypes, PointsAreOfEnvs, IdentitiesAreSet
<1>2. CommitsAreReachable'
  BY DEF CodeInvariant, CommitsAreReachable, C!Objects
<1> QED
  BY <1>1, <1>2, CommittedStays DEF CodeInvariant

(* Materializing configures the identity of what it makes. *)
LEMMA MaterializeKeepsCode ==
  ASSUME CodeInvariant, C!CodebaseAssumption, NEW e \in CodeEnvs,
         C!MaterializeScratch(e) \/ C!MaterializeCloned(e)
  PROVE  CodeInvariant'
<1>0. /\ CodeTypes /\ PointsAreOfEnvs /\ IdentitiesAreSet /\ CommitsAreReachable /\ CodeCommitted
      /\ env[e].phase = "none" /\ UNCHANGED <<commits, points>>
  BY DEF CodeInvariant, C!MaterializeScratch, C!MaterializeCloned
<1>a. /\ commits' \in Seq(CommitRecords) /\ Len(commits') >= Len(commits) /\ CodeCommitted'
      /\ source.objects \subseteq 1..Len(commits') /\ env[e].objects \subseteq 1..Len(commits')
  BY <1>0, CommittedStays DEF CodeTypes
<1>b. /\ source \in [objects : SUBSET Nat, registered : SUBSET CodeEnvs, identity : {"user", "gym"}]
      /\ env \in [CodeEnvs -> CodeRecords] /\ env[e] \in CodeRecords
  BY DEF CodeInvariant, CodeTypes
<1>c. C!NoEnv \in CodeRecords
  BY DEF C!NoEnv, CodeRecords, CodeTrees
<1>1. CASE C!MaterializeScratch(e)
  <2>1. PICK ok \in BOOLEAN, seed \in SUBSET Files :
          /\ env' = [env EXCEPT ![e] = [C!NoEnv EXCEPT
                       !.phase = IF ok THEN "open" ELSE "failed", !.origin = "scratch",
                       !.git = "own", !.dir = TRUE, !.wt = seed, !.named = TRUE]]
          /\ C!Say("materialize", e, ok, IF ok THEN "" ELSE "seed", None)
    BY <1>1 DEF C!MaterializeScratch
  <2> DEFINE r == [C!NoEnv EXCEPT
                     !.phase = IF ok THEN "open" ELSE "failed", !.origin = "scratch",
                     !.git = "own", !.dir = TRUE, !.wt = seed, !.named = TRUE]
  <2>2. r \in CodeRecords
    BY DEF C!NoEnv, CodeRecords, CodeTrees
  <2>3. r.git = "own" /\ r.named = TRUE /\ r.origin = "scratch" /\ r.head = 0 /\ r.objects = {}
    BY DEF C!NoEnv
  <2>4. UNCHANGED source
    BY <1>1 DEF C!MaterializeScratch
  <2>5. env' = [env EXCEPT ![e] = r]
    BY <2>1
  <2> HIDE DEF r
  <2>6. CodeTypes' /\ PointsAreOfEnvs' /\ IdentitiesAreSet' /\ CommitsAreReachable'
    BY <1>0, <1>a, <1>b, <2>2, <2>3, <2>4, <2>5, CodeGoesOn
  <2>7. CodeAnswers'
    BY <2>1, OtherAnswers
  <2> QED
    BY <1>a, <2>6, <2>7 DEF CodeInvariant
<1>2. CASE /\ env' = [env EXCEPT ![e].phase = "failed"] /\ UNCHANGED source
           /\ C!Say("materialize", e, FALSE, "source", None)
  <2> DEFINE r == [env[e] EXCEPT !.phase = "failed"]
  <2>1. r \in CodeRecords /\ r.phase = "failed" /\ r.objects = env[e].objects
    BY <1>b DEF CodeRecords
  <2>2. env' = [env EXCEPT ![e] = r]
    BY <1>2
  <2> HIDE DEF r
  <2>3. CodeTypes' /\ PointsAreOfEnvs' /\ IdentitiesAreSet' /\ CommitsAreReachable'
    BY <1>0, <1>2, <1>a, <1>b, <2>1, <2>2, CodeGoesOn
  <2>4. CodeAnswers'
    BY <1>2, OtherAnswers
  <2> QED
    BY <1>a, <2>3, <2>4 DEF CodeInvariant
<1>3. ASSUME NEW ok \in BOOLEAN,
             env' = [env EXCEPT ![e] = [C!Checkout(C!NoEnv) EXCEPT
                       !.phase = IF ok THEN "open" ELSE "failed", !.origin = "cloned",
                       !.named = TRUE]],
             source' = C!Identified([source EXCEPT !.registered = C!Registered(e)],
                                    C!Strategy = "worktree"),
             C!Say("materialize", e, ok, IF ok THEN "" ELSE "seed", None)
      PROVE  CodeInvariant'
  <2> DEFINE r == [C!Checkout(C!NoEnv) EXCEPT
                     !.phase = IF ok THEN "open" ELSE "failed", !.origin = "cloned",
                     !.named = TRUE]
  <2>1. /\ r \in CodeRecords /\ r.origin = "cloned" /\ r.named = TRUE /\ r.head = C!SourceSha
        /\ r.git = IF C!Strategy = "worktree" THEN "linked" ELSE "own"
        /\ C!Strategy # "worktree" => r.objects = source.objects
        /\ r.objects \subseteq source.objects
    BY <1>0, <1>c, CheckedOut DEF CodeRecords
  <2>2. env' = [env EXCEPT ![e] = r]
    BY <1>3
  <2> HIDE DEF r
  <2>3. C!Registered(e) \in SUBSET CodeEnvs
    BY <1>b DEF C!Registered, C!Pruned
  <2>4. /\ source' \in [objects : SUBSET Nat, registered : SUBSET CodeEnvs,
                        identity : {"user", "gym"}]
        /\ source'.objects = source.objects
        /\ C!Strategy = "worktree" => source'.identity = "gym"
        /\ C!Strategy # "worktree" => source'.identity = source.identity
    BY <1>3, <1>b, <2>3 DEF C!Identified
  <2>5. C!Strategy = "worktree" <=> Local
    BY DEF C!Strategy, C!CodebaseAssumption
  <2>6. r.head \in C!Objects(e)'
    <3>1. env'[e] = r /\ C!SourceSha \in source.objects
      BY <1>0, <1>b, <2>2 DEF CodeTypes
    <3> QED
      BY <2>1, <2>4, <3>1 DEF C!Objects
  <2>7. CodeTypes' /\ PointsAreOfEnvs' /\ IdentitiesAreSet' /\ CommitsAreReachable'
    BY <1>0, <1>a, <2>1, <2>2, <2>4, <2>5, <2>6, CodeGoesOn
  <2>8. CodeAnswers'
    BY <1>3, OtherAnswers
  <2> QED
    BY <1>a, <2>7, <2>8 DEF CodeInvariant
<1>4. CASE C!MaterializeCloned(e)
  BY <1>2, <1>3, <1>4 DEF C!MaterializeCloned
<1> QED
  BY <1>1, <1>4

(* A patch changes the working tree only. *)
LEMMA PatchKeepsCode ==
  ASSUME CodeInvariant, NEW e \in CodeEnvs, NEW f \in Files, C!ApplyPatch(e, f)
  PROVE  CodeInvariant'
<1>0. /\ CodeTypes /\ PointsAreOfEnvs /\ IdentitiesAreSet /\ CommitsAreReachable /\ CodeCommitted
      /\ env[e].phase = "open" /\ UNCHANGED <<commits, points, source>>
  BY DEF CodeInvariant, C!ApplyPatch, C!Usable, C!Open
<1>1. PICK t \in CodeTrees : env' = [env EXCEPT ![e].wt = t]
  <2>1. env[e].wt \in CodeTrees
    BY <1>0 DEF CodeTypes, CodeRecords
  <2>2. env[e].wt \cup {f} \in CodeTrees /\ env[e].wt \ {f} \in CodeTrees
    BY <2>1 DEF CodeTrees
  <2> QED
    BY <2>2 DEF C!ApplyPatch
<1> DEFINE r == [env[e] EXCEPT !.wt = t]
<1>2. env[e] \in CodeRecords /\ env \in [CodeEnvs -> CodeRecords]
  BY <1>0 DEF CodeTypes
<1>3. /\ r \in CodeRecords /\ r.phase = "open" /\ r.origin = env[e].origin
      /\ r.git = env[e].git /\ r.named = env[e].named /\ r.head = env[e].head
      /\ r.objects = env[e].objects
  BY <1>0, <1>2 DEF CodeRecords
<1>4. env' = [env EXCEPT ![e] = r] /\ env'[e] = r
  BY <1>1, <1>2
<1> HIDE DEF r
<1>5. C!Objects(e)' = C!Objects(e)
  BY <1>0, <1>3, <1>4 DEF C!Objects
<1>6. /\ env[e].git = "linked" => Local /\ source.identity = "gym"
      /\ env[e].git = "own" /\ (Local \/ "gone" \notin CodeFaults) => env[e].named
      /\ env[e].git = "own" /\ Local => env[e].origin = "scratch"
      /\ env[e].origin = "cloned" /\ Local => source.identity = "gym"
  BY <1>0 DEF IdentitiesAreSet
<1>7. "gone" \notin CodeFaults => env[e].git # "gone" /\ env[e].head \in {0} \cup C!Objects(e)
  BY <1>0 DEF CommitsAreReachable
<1>8. CodeTypes' /\ PointsAreOfEnvs' /\ IdentitiesAreSet' /\ CommitsAreReachable'
  <2>1. /\ commits' \in Seq(CommitRecords) /\ Len(commits') >= Len(commits)
        /\ source'.objects \subseteq 1..Len(commits') /\ r.objects \subseteq 1..Len(commits')
        /\ source' \in [objects : SUBSET Nat, registered : SUBSET CodeEnvs,
                        identity : {"user", "gym"}]
        /\ source' = source
    BY <1>0, <1>3 DEF CodeTypes
  <2> QED
    BY <1>0, <1>3, <1>4, <1>5, <1>6, <1>7, <2>1, CodeGoesOn
<1>9. CodeAnswers'
  BY OtherAnswers DEF C!ApplyPatch
<1> QED
  BY <1>0, <1>8, <1>9, CommittedStays DEF CodeInvariant

(* A commit is made in the name that was configured. *)
LEMMA CommitKeepsCode ==
  ASSUME CodeInvariant, NEW e \in CodeEnvs, C!GitCommit(e)
  PROVE  CodeInvariant'
<1>0. /\ CodeTypes /\ PointsAreOfEnvs /\ IdentitiesAreSet /\ CommitsAreReachable /\ CodeCommitted
      /\ env[e].phase = "open" /\ UNCHANGED points
  BY DEF CodeInvariant, C!GitCommit, C!Usable, C!Open
<1>1. CodeAnswers'
  BY OtherAnswers DEF C!GitCommit
<1>2. CASE env[e].git = "gone"
  <2>1. UNCHANGED <<commits, source, env, points>>
    BY <1>2 DEF C!GitCommit
  <2> QED
    BY <1>1, <2>1, LooksKeepCode
<1>3. CASE env[e].git # "gone"
  <2> DEFINE c == Len(commits) + 1
             new == [tree |-> env[e].wt, by |-> C!Author(e)]
             r == [env[e] EXCEPT !.head = c, !.index = env[e].wt,
                                 !.objects = IF env[e].git = "own" THEN @ \cup {c} ELSE @]
  <2>1. /\ commits' = Append(commits, new)
        /\ env' = [env EXCEPT ![e].head = c, ![e].index = env[e].wt,
                              ![e].objects = IF env[e].git = "own" THEN @ \cup {c} ELSE @]
        /\ source' = IF env[e].git = "linked" THEN [source EXCEPT !.objects = @ \cup {c}]
                     ELSE source
    BY <1>3 DEF C!GitCommit
  <2>2. /\ env \in [CodeEnvs -> CodeRecords] /\ env[e] \in CodeRecords
        /\ commits \in Seq(CommitRecords) /\ Len(commits) >= 1 /\ c \in Nat
        /\ source \in [objects : SUBSET Nat, registered : SUBSET CodeEnvs,
                       identity : {"user", "gym"}]
    BY <1>0 DEF CodeTypes
  <2>3. /\ r \in CodeRecords /\ r.phase = "open" /\ r.origin = env[e].origin
        /\ r.git = env[e].git /\ r.named = env[e].named /\ r.head = c
        /\ r.objects = IF env[e].git = "own" THEN env[e].objects \cup {c} ELSE env[e].objects
    BY <1>0, <2>2 DEF CodeRecords
  <2>4. env' = [env EXCEPT ![e] = r] /\ env'[e] = r
    BY <2>1, <2>2
  <2>5. /\ source' \in [objects : SUBSET Nat, registered : SUBSET CodeEnvs,
                        identity : {"user", "gym"}]
        /\ source.objects \subseteq source'.objects /\ source'.identity = source.identity
        /\ env[e].git = "linked" => source'.objects = source.objects \cup {c}
    BY <2>1, <2>2
  <2>6. new \in CommitRecords
    BY <1>0, <2>2 DEF C!Author, CommitRecords, CodeRecords, CodeTypes
  <2> HIDE DEF r
  <2>7. c \in C!Objects(e)' /\ C!Objects(e) \subseteq C!Objects(e)'
    <3>1. env[e].git \in {"own", "linked"}
      BY <1>3, <2>2 DEF CodeRecords
    <3> HIDE DEF c
    <3> QED
      BY <2>3, <2>4, <2>5, <3>1 DEF C!Objects
  <2>8. commits' \in Seq(CommitRecords) /\ Len(commits') = c /\ Len(commits') >= Len(commits)
    BY <2>1, <2>2, <2>6
  <2>12. source'.objects \subseteq 1..Len(commits') /\ r.objects \subseteq 1..Len(commits')
    <3>1. source.objects \subseteq 1..Len(commits) /\ env[e].objects \subseteq 1..Len(commits)
      BY <1>0 DEF CodeTypes
    <3>2. /\ source'.objects \subseteq source.objects \cup {c}
          /\ r.objects \subseteq env[e].objects \cup {c}
      BY <2>1, <2>2, <2>3
    <3>3. 1..Len(commits) \subseteq 1..Len(commits') /\ c \in 1..Len(commits')
      BY <2>2, <2>8
    <3> QED
      BY <3>1, <3>2, <3>3
  <2>9. /\ env[e].git = "linked" => Local /\ source.identity = "gym"
        /\ env[e].git = "own" /\ (Local \/ "gone" \notin CodeFaults) => env[e].named
        /\ env[e].git = "own" /\ Local => env[e].origin = "scratch"
        /\ env[e].origin = "cloned" /\ Local => source.identity = "gym"
    BY <1>0 DEF IdentitiesAreSet
  <2>10. CodeTypes' /\ PointsAreOfEnvs' /\ IdentitiesAreSet' /\ CommitsAreReachable'
    <3>1. r.head \in C!Objects(e)'
      BY <2>3, <2>7
    <3> HIDE DEF c, new
    <3> QED
      BY <1>0, <1>3, <2>3, <2>4, <2>5, <2>7, <2>8, <2>9, <2>12, <3>1, CodeGoesOn
  <2>11. CodeCommitted'
    <3> SUFFICES ASSUME Local \/ "gone" \notin CodeFaults, NEW i \in 2..Len(commits')
                 PROVE  commits'[i].by = "gym"
      BY DEF CodeCommitted, C!CommitsAreTheGyms
    <3>1. CASE i = c
      <4>1. commits'[i] = new
        BY <2>1, <2>2, <3>1
      <4>2. C!Author(e) = "gym"
        BY <1>3, <2>2, <2>9 DEF C!Author, CodeRecords
      <4> QED
        BY <4>1, <4>2
    <3>2. CASE i # c
      <4>1. i \in 2..Len(commits)
        BY <2>2, <2>8, <3>2
      <4>2. commits'[i] = commits[i]
        BY <2>1, <2>2, <4>1
      <4> QED
        BY <1>0, <4>1, <4>2 DEF CodeCommitted, C!CommitsAreTheGyms
    <3> QED
      BY <3>1, <3>2
  <2> QED
    BY <1>1, <2>10, <2>11 DEF CodeInvariant
<1> QED
  BY <1>2, <1>3

(* A sequence of commands whose last one returned 0 ran to its end. *)
LEMMA WholeRuns ==
  ASSUME C!CodebaseAssumption, NEW e, ~C!RefusesKind(e),
         NEW s \in C!RunSequence(C!CommandsFor(e)), s[Len(s)] = 0
  PROVE  s = [i \in 1..C!CommandsFor(e) |-> 0]
<1>1. C!CommandsFor(e) \in Nat \ {0}
  <2>1. C!Cardinality({}) = 0
    BY FS_EmptySet DEF C!Cardinality, Cardinality
  <2>2. C!Kinds(e) # {}
    BY <2>1 DEF C!RefusesKind
  <2>3. PICK k \in C!Kinds(e) : C!CommandsFor(e) = Commands[k]
    BY <2>2 DEF C!CommandsFor
  <2> QED
    BY <2>3 DEF C!Kinds, C!CodebaseAssumption
<1> DEFINE n == C!CommandsFor(e)
<1>2. PICK k \in 1..n : s \in [1..k -> {0, 1}]
  BY DEF C!RunSequence
<1>3. s \in Seq({0, 1}) /\ Len(s) = k /\ DOMAIN s = 1..k
  BY <1>1, <1>2
<1>4. (\A i \in 1..Len(s) - 1 : s[i] = 0) /\ (Len(s) = n \/ s[Len(s)] = 1)
  BY DEF C!RunSequence
<1> HIDE DEF n
<1>5. k = n
  BY <1>3, <1>4
<1>6. \A i \in 1..n : s[i] = 0
  <2> SUFFICES ASSUME NEW i \in 1..n PROVE s[i] = 0
    OBVIOUS
  <2>1. i \in 1..Len(s) - 1 \/ i = Len(s)
    BY <1>1, <1>3, <1>5 DEF n
  <2> QED
    BY <1>4, <2>1
<1> QED
  BY <1>3, <1>5, <1>6 DEF n

(* Running commands may spoil the tree and, where the project's own may,   *)
(* destroy the repository; what is answered is what was returned.          *)
LEMMA RunsKeepCode ==
  ASSUME CodeInvariant, C!CodebaseAssumption, NEW e \in CodeEnvs, C!RunCommands(e)
  PROVE  CodeInvariant'
<1>0. /\ CodeTypes /\ PointsAreOfEnvs /\ IdentitiesAreSet /\ CommitsAreReachable /\ CodeCommitted
      /\ env[e].phase = "open" /\ UNCHANGED <<commits, points, source>>
  BY DEF CodeInvariant, C!RunCommands, C!Usable, C!Open
<1>1. CASE C!RefusesKind(e)
  <2>1. C!Say("run", e, FALSE, "kind", None) /\ UNCHANGED env
    BY <1>1 DEF C!RunCommands
  <2> QED
    BY <1>0, <2>1, OtherAnswers, LooksKeepCode
<1>2. CASE ~C!RefusesKind(e)
  <2>1. PICK r \in C!Disturbed(env[e]) : env' = [env EXCEPT ![e] = r]
    BY <1>2 DEF C!RunCommands
  <2>2. env[e] \in CodeRecords /\ env \in [CodeEnvs -> CodeRecords]
    BY <1>0 DEF CodeTypes
  <2>3. \/ r = env[e]
        \/ r = [env[e] EXCEPT !.wt = @ \cup {Junk}]
        \/ "gone" \in CodeFaults /\ r = [env[e] EXCEPT !.git = "gone", !.objects = {}]
    BY <2>1 DEF C!Disturbed
  <2>4. r \in CodeRecords
    <3>1. env[e].wt \in CodeTrees
      BY <2>2 DEF CodeRecords
    <3>2. env[e].wt \cup {Junk} \in CodeTrees
      BY <3>1 DEF CodeTrees
    <3>3. CASE r = [env[e] EXCEPT !.wt = @ \cup {Junk}]
      BY <2>2, <3>2, <3>3 DEF CodeRecords
    <3>4. CASE r = [env[e] EXCEPT !.git = "gone", !.objects = {}]
      BY <2>2, <3>4 DEF CodeRecords
    <3> QED
      BY <2>2, <2>3, <3>3, <3>4
  <2>5. /\ r.phase = "open" /\ r.origin = env[e].origin /\ r.named = env[e].named
        /\ r.head = env[e].head /\ r.objects \subseteq env[e].objects
        /\ \/ r.git = env[e].git /\ r.objects = env[e].objects
           \/ r.git = "gone" /\ "gone" \in CodeFaults
    BY <1>0, <2>2, <2>3 DEF CodeRecords
  <2>6. env'[e] = r
    BY <2>1, <2>2
  <2>7. "gone" \notin CodeFaults => C!Objects(e)' = C!Objects(e)
    BY <1>0, <2>5, <2>6 DEF C!Objects
  <2>8. /\ env[e].git = "linked" => Local /\ source.identity = "gym"
        /\ env[e].git = "own" /\ (Local \/ "gone" \notin CodeFaults) => env[e].named
        /\ env[e].git = "own" /\ Local => env[e].origin = "scratch"
        /\ env[e].origin = "cloned" /\ Local => source.identity = "gym"
    BY <1>0 DEF IdentitiesAreSet
  <2>9. "gone" \notin CodeFaults => env[e].git # "gone" /\ env[e].head \in {0} \cup C!Objects(e)
    BY <1>0 DEF CommitsAreReachable
  <2>10. /\ commits' \in Seq(CommitRecords) /\ Len(commits') >= Len(commits)
         /\ source'.objects \subseteq 1..Len(commits') /\ r.objects \subseteq 1..Len(commits')
         /\ source' \in [objects : SUBSET Nat, registered : SUBSET CodeEnvs,
                         identity : {"user", "gym"}]
         /\ source' = source
    BY <1>0, <2>5 DEF CodeTypes
  <2>11. CodeTypes' /\ PointsAreOfEnvs' /\ IdentitiesAreSet' /\ CommitsAreReachable'
    BY <1>0, <2>1, <2>4, <2>5, <2>7, <2>8, <2>9, <2>10, CodeGoesOn
  <2>12. CodeAnswers'
    <3>1. CASE C!Say("run", e, FALSE, "timeout", None)
      BY <3>1, OtherAnswers
    <3>2. ASSUME NEW s \in C!RunSequence(C!CommandsFor(e)),
                 answer' = [C!NoAnswer EXCEPT !.op = "run", !.env = e, !.ok = s[Len(s)] = 0,
                                              !.codes = s, !.of = C!CommandsFor(e)]
          PROVE  CodeAnswers'
      <4>1. /\ answer'.op = "run" /\ answer'.codes = s /\ answer'.of = C!CommandsFor(e)
            /\ answer'.ok = (s[Len(s)] = 0) /\ answer'.why = ""
        BY <3>2 DEF C!NoAnswer
      <4>2. answer'.ok => answer'.codes = [i \in 1..answer'.of |-> 0]
        BY <1>2, <4>1, WholeRuns
      <4> QED
        BY <4>1, <4>2 DEF CodeAnswers, C!RestoredTreesAreClean, C!PassesAreWhole,
           C!RebuildsAreNotBlocked, C!RestoreReachesTheCheckpoint, C!Restored
    <3> QED
      BY <1>2, <3>1, <3>2 DEF C!RunCommands
  <2> QED
    BY <1>0, <2>11, <2>12, CommittedStays DEF CodeInvariant
<1> QED
  BY <1>1, <1>2

(* A checkpoint names the commit at HEAD, which is there. *)
LEMMA CheckpointKeepsCode ==
  ASSUME CodeInvariant, NEW e \in CodeEnvs, C!Checkpoint(e)
  PROVE  CodeInvariant'
<1> DEFINE p == [env |-> e, from |-> env[e].origin,
                 head |-> IF env[e].git = "gone" THEN 0 ELSE env[e].head]
<1>0. /\ CodeTypes /\ PointsAreOfEnvs /\ IdentitiesAreSet /\ CommitsAreReachable /\ CodeCommitted
      /\ env[e].phase = "open" /\ UNCHANGED <<commits, source, env>>
      /\ points' = points \cup {p} /\ C!Say("checkpoint", e, TRUE, "", p)
  BY DEF CodeInvariant, C!Checkpoint, C!Usable, C!Open
<1>1. CodeTypes' /\ IdentitiesAreSet'
  BY <1>0 DEF CodeTypes, IdentitiesAreSet
<1>2. /\ p.env = e /\ p.from = env[e].origin /\ p.head \in Nat
      /\ p.head \in {0, env[e].head}
  BY <1>0 DEF CodeTypes, CodeRecords
<1> HIDE DEF p
<1>3. CodeAnswers'
  BY <1>0, OtherAnswers
<1>4. PointsAreOfEnvs'
  BY <1>0, <1>2 DEF PointsAreOfEnvs
<1>5. CommitsAreReachable'
  <2>1. \A o \in CodeEnvs : C!Objects(o)' = C!Objects(o)
    BY <1>0 DEF C!Objects
  <2> QED
    BY <1>0, <1>2, <2>1 DEF CommitsAreReachable
<1> QED
  BY <1>0, <1>1, <1>3, <1>4, <1>5, CommittedStays DEF CodeInvariant

(* Tearing down removes the directory for good. *)
LEMMA TeardownKeepsCode ==
  ASSUME CodeInvariant, NEW e \in CodeEnvs, C!Teardown(e)
  PROVE  CodeInvariant'
<1> DEFINE r == [C!NoEnv EXCEPT !.phase = "closed", !.origin = env[e].origin]
<1>0. /\ CodeTypes /\ PointsAreOfEnvs /\ IdentitiesAreSet /\ CommitsAreReachable /\ CodeCommitted
      /\ env[e].phase = "open" /\ UNCHANGED <<commits, source, points>>
      /\ env' = [env EXCEPT ![e] = r] /\ C!Say("teardown", e, TRUE, "", None)
  BY DEF CodeInvariant, C!Teardown, C!Open
<1>1. env[e].origin \in {"none", "scratch", "cloned"}
  BY <1>0 DEF CodeTypes, CodeRecords
<1>2. /\ r \in CodeRecords /\ r.phase = "closed" /\ r.origin = env[e].origin /\ r.objects = {}
  BY <1>1 DEF C!NoEnv, CodeRecords, CodeTrees
<1> HIDE DEF r
<1>3. /\ commits' \in Seq(CommitRecords) /\ Len(commits') >= Len(commits)
      /\ source'.objects \subseteq 1..Len(commits')
      /\ source' \in [objects : SUBSET Nat, registered : SUBSET CodeEnvs,
                      identity : {"user", "gym"}]
      /\ source' = source
  <2>1. CodeTypes /\ commits' = commits /\ source' = source
    BY <1>0
  <2> QED
    BY <2>1 DEF CodeTypes
<1>4. CodeAnswers'
  BY <1>0, OtherAnswers
<1>5. CodeTypes' /\ PointsAreOfEnvs' /\ IdentitiesAreSet' /\ CommitsAreReachable'
  BY <1>0, <1>2, <1>3, CodeGoesOn
<1> QED
  BY <1>0, <1>4, <1>5, CommittedStays DEF CodeInvariant

(* A reset needs the commit to be there, and leaves its tree. *)
LEMMA ResetKeepsCode ==
  ASSUME CodeInvariant, NEW e \in CodeEnvs, NEW p \in points, C!RestoreResets(e, p)
  PROVE  CodeInvariant'
<1> DEFINE r == C!Reset(env[e], p.head)
<1>0. /\ CodeTypes /\ PointsAreOfEnvs /\ IdentitiesAreSet /\ CommitsAreReachable /\ CodeCommitted
      /\ env[e].phase = "open" /\ UNCHANGED <<commits, source, points>>
      /\ env' = [env EXCEPT ![e] = r] /\ C!Say("restore", e, TRUE, "reset", p)
      /\ p.head # 0 /\ p.head \in C!Objects(e)
  <2>1. CodeTypes
    BY DEF CodeInvariant
  <2> QED
    BY <2>1 DEF CodeInvariant, C!RestoreResets, C!Usable, C!Open, CodeTypes
<1>1. env[e] \in CodeRecords /\ env \in [CodeEnvs -> CodeRecords]
  BY <1>0 DEF CodeTypes
<1>2. p.head \in 1..Len(commits)
  <2>1. source.objects \subseteq 1..Len(commits) /\ env[e].objects \subseteq 1..Len(commits)
    BY <1>0 DEF CodeTypes
  <2> QED
    BY <1>0, <2>1 DEF C!Objects
<1>3. C!Tree(p.head) \in CodeTrees
  <2>1. commits[p.head] \in CommitRecords
    BY <1>0, <1>2 DEF CodeTypes
  <2> QED
    BY <1>0, <2>1 DEF C!Tree, CommitRecords
<1>4. /\ r \in CodeRecords /\ r.phase = "open" /\ r.origin = env[e].origin
      /\ r.git = env[e].git /\ r.named = env[e].named /\ r.head = p.head
      /\ r.objects = env[e].objects
      /\ r.wt = C!Tree(p.head) /\ r.index = C!Tree(p.head)
  <2>1. p.head \in Nat
    BY <1>2
  <2> QED
    BY <1>0, <1>1, <1>3, <2>1 DEF C!Reset, CodeRecords
<1> HIDE DEF r
<1>5. env'[e] = r
  BY <1>0, <1>1
<1>6. C!Objects(e)' = C!Objects(e)
  BY <1>0, <1>4, <1>5 DEF C!Objects
<1>7. /\ env[e].git = "linked" => Local /\ source.identity = "gym"
      /\ env[e].git = "own" /\ (Local \/ "gone" \notin CodeFaults) => env[e].named
      /\ env[e].git = "own" /\ Local => env[e].origin = "scratch"
      /\ env[e].origin = "cloned" /\ Local => source.identity = "gym"
  BY <1>0 DEF IdentitiesAreSet
<1>8. "gone" \notin CodeFaults => env[e].git # "gone"
  BY <1>0 DEF CommitsAreReachable
<1>9. CodeTypes' /\ PointsAreOfEnvs' /\ IdentitiesAreSet' /\ CommitsAreReachable'
  <2>1. CodeTypes /\ commits' = commits /\ source' = source
    BY <1>0
  <2>2. /\ commits' \in Seq(CommitRecords) /\ Len(commits') >= Len(commits)
        /\ source'.objects \subseteq 1..Len(commits') /\ r.objects \subseteq 1..Len(commits')
        /\ source' \in [objects : SUBSET Nat, registered : SUBSET CodeEnvs,
                        identity : {"user", "gym"}]
        /\ source' = source
    BY <1>4, <2>1 DEF CodeTypes
  <2> QED
    BY <1>0, <1>4, <1>5, <1>6, <1>7, <1>8, <2>2, CodeGoesOn
<1>10. CodeAnswers'
  <2>1. /\ answer'.op = "restore" /\ answer'.env = e /\ answer'.point = p /\ answer'.why = "reset"
    BY <1>0 DEF C!Say
  <2>2. C!Tree(p.head)' = C!Tree(p.head)
    BY <1>0 DEF C!Tree
  <2> QED
    BY <1>0, <1>4, <1>5, <1>6, <2>1, <2>2 DEF CodeAnswers, C!RestoredTreesAreClean,
       C!PassesAreWhole, C!RebuildsAreNotBlocked, C!RestoreReachesTheCheckpoint, C!Restored
<1> QED
  BY <1>0, <1>9, <1>10, CommittedStays DEF CodeInvariant

(* A rebuild happens only where a repository was destroyed, and ends with  *)
(* a clean tree of the source's commit or with no directory.               *)
LEMMA RebuildKeepsCode ==
  ASSUME CodeInvariant, C!CodebaseAssumption, NEW e \in CodeEnvs, NEW p \in points,
         C!RestoreRebuilds(e, p)
  PROVE  CodeInvariant'
<1>0. /\ CodeTypes /\ PointsAreOfEnvs /\ IdentitiesAreSet /\ CommitsAreReachable /\ CodeCommitted
      /\ env[e].phase = "open" /\ UNCHANGED <<commits, points>>
      /\ p.env = e /\ p.head # 0 /\ p.head \notin C!Objects(e) /\ p.from = "cloned"
  BY DEF CodeInvariant, C!RestoreRebuilds, C!Usable, C!Open
<1>1. "gone" \in CodeFaults
  BY <1>0 DEF CommitsAreReachable
<1>2. env[e] \in CodeRecords /\ env \in [CodeEnvs -> CodeRecords] /\ env[e].origin = "cloned"
  BY <1>0 DEF CodeTypes, PointsAreOfEnvs
<1>3. /\ commits' \in Seq(CommitRecords) /\ Len(commits') >= Len(commits)
      /\ source.objects \subseteq 1..Len(commits') /\ env[e].objects \subseteq 1..Len(commits')
      /\ source \in [objects : SUBSET Nat, registered : SUBSET CodeEnvs,
                     identity : {"user", "gym"}]
  <2>1. CodeTypes /\ commits' = commits
    BY <1>0
  <2> QED
    BY <2>1 DEF CodeTypes
<1>4. CASE /\ env' = [env EXCEPT ![e] = [C!NoEnv EXCEPT !.phase = "open", !.origin = "cloned"]]
           /\ UNCHANGED source
           /\ C!Say("restore", e, FALSE, IF C!Blocked(e) THEN "blocked" ELSE "source", p)
  <2> DEFINE r == [C!NoEnv EXCEPT !.phase = "open", !.origin = "cloned"]
  <2>1. /\ r \in CodeRecords /\ r.phase = "open" /\ r.origin = "cloned" /\ r.git = "gone"
        /\ r.objects = {}
    BY DEF C!NoEnv, CodeRecords, CodeTrees
  <2>2. CodeAnswers'
    BY <1>4, NothingBlocks, OtherAnswers
  <2>3. env' = [env EXCEPT ![e] = r]
    BY <1>4
  <2> HIDE DEF r
  <2>4. CodeTypes' /\ PointsAreOfEnvs' /\ IdentitiesAreSet' /\ CommitsAreReachable'
    <3>1. source' = source /\ (Local => source.identity = "gym")
      BY <1>0, <1>2, <1>4 DEF IdentitiesAreSet
    <3>2. /\ source'.objects \subseteq 1..Len(commits') /\ r.objects \subseteq 1..Len(commits')
          /\ source.objects \subseteq source'.objects
      BY <1>3, <2>1, <3>1
    <3> QED
      BY <1>0, <1>1, <1>2, <1>3, <2>1, <2>3, <3>1, <3>2, CodeGoesOn
  <2> QED
    BY <1>0, <2>2, <2>4, CommittedStays DEF CodeInvariant
<1>5. CASE /\ env' = [env EXCEPT ![e] = [C!Checkout(@) EXCEPT !.named = FALSE]]
           /\ source' = [source EXCEPT !.registered = C!Registered(e)]
           /\ C!Say("restore", e, TRUE, "rebuild", p)
  <2> DEFINE r == [C!Checkout(env[e]) EXCEPT !.named = FALSE]
  <2>1. /\ r \in CodeRecords /\ r.phase = "open" /\ r.origin = "cloned"
        /\ r.head = C!SourceSha
        /\ r.wt = C!Tree(C!SourceSha) /\ r.index = C!Tree(C!SourceSha)
        /\ r.git = IF C!Strategy = "worktree" THEN "linked" ELSE "own"
        /\ C!Strategy # "worktree" => r.objects = source.objects
        /\ r.objects \subseteq source.objects
    <3> DEFINE q == C!Checkout(env[e])
    <3>1. /\ q \in CodeRecords /\ q.phase = "open" /\ q.origin = "cloned"
          /\ q.head = C!SourceSha
          /\ q.wt = C!Tree(C!SourceSha) /\ q.index = C!Tree(C!SourceSha)
          /\ q.git = IF C!Strategy = "worktree" THEN "linked" ELSE "own"
          /\ C!Strategy # "worktree" => q.objects = source.objects
          /\ q.objects \subseteq source.objects
      BY <1>0, <1>2, CheckedOut
    <3> HIDE DEF q
    <3>2. r = [q EXCEPT !.named = FALSE]
      BY DEF q
    <3>3. r \in CodeRecords
      BY <3>1, <3>2 DEF CodeRecords
    <3>4. /\ r.phase = q.phase /\ r.origin = q.origin /\ r.head = q.head /\ r.wt = q.wt
          /\ r.index = q.index /\ r.git = q.git /\ r.objects = q.objects
      BY <3>1, <3>2 DEF CodeRecords
    <3> QED
      BY <3>1, <3>3, <3>4
  <2>2. env' = [env EXCEPT ![e] = r] /\ env'[e] = r
    BY <1>2, <1>5
  <2> HIDE DEF r
  <2>3. C!Registered(e) \in SUBSET CodeEnvs
    BY <1>3 DEF C!Registered, C!Pruned
  <2>4. /\ source' \in [objects : SUBSET Nat, registered : SUBSET CodeEnvs,
                        identity : {"user", "gym"}]
        /\ source'.objects = source.objects /\ source'.identity = source.identity
    BY <1>3, <1>5, <2>3
  <2>5. C!Strategy = "worktree" <=> Local
    BY DEF C!Strategy, C!CodebaseAssumption
  <2>6. C!SourceSha \in C!Objects(e)'
    BY <1>0, <2>1, <2>2, <2>4 DEF C!Objects, CodeTypes
  <2>7. CodeAnswers'
    <3>1. /\ answer'.op = "restore" /\ answer'.env = e /\ answer'.point = p
          /\ answer'.why = "rebuild"
      BY <1>5 DEF C!Say
    <3>2. C!Tree(C!SourceSha)' = C!Tree(C!SourceSha)
      BY <1>0 DEF C!Tree
    <3> QED
      BY <1>1, <2>1, <2>2, <2>6, <3>1, <3>2 DEF CodeAnswers, C!RestoredTreesAreClean,
         C!PassesAreWhole, C!RebuildsAreNotBlocked, C!Restored
  <2>8. CodeTypes' /\ PointsAreOfEnvs' /\ IdentitiesAreSet' /\ CommitsAreReachable'
    <3>1. Local => source.identity = "gym"
      BY <1>0, <1>2 DEF IdentitiesAreSet
    <3> QED
      BY <1>0, <1>1, <1>2, <1>3, <2>1, <2>2, <2>4, <2>5, <3>1, CodeGoesOn
  <2> QED
    BY <1>0, <2>7, <2>8, CommittedStays DEF CodeInvariant
<1> QED
  BY <1>4, <1>5 DEF C!RestoreRebuilds

(* Every step keeps what is known of commits, trees and checkpoints. *)
LEMMA CodeStep ==
  ASSUME C!CodebaseAssumption, CodeInvariant, [C!Next]_C!vars PROVE CodeInvariant'
<1>1. CASE UNCHANGED C!vars
  <2>1. UNCHANGED <<commits, source, env, points, answer>>
    BY <1>1 DEF C!vars
  <2>2. CodeAnswers'
    BY <2>1 DEF CodeInvariant, CodeAnswers, C!RestoredTreesAreClean, C!PassesAreWhole,
       C!RebuildsAreNotBlocked, C!RestoreReachesTheCheckpoint, C!Restored, C!Tree, C!Objects
  <2> QED
    BY <2>1, <2>2, LooksKeepCode
<1>2. ASSUME NEW e \in CodeEnvs, C!NoDirectory(e) \/ C!Inspect(e)
      PROVE  CodeInvariant'
  <2>1. UNCHANGED <<commits, source, env, points>> /\ CodeAnswers'
    BY <1>2, OtherAnswers DEF C!NoDirectory, C!Inspect
  <2> QED
    BY <2>1, LooksKeepCode
<1>3. ASSUME NEW e \in CodeEnvs, NEW p \in points, C!RestoreRefuses(e, p)
      PROVE  CodeInvariant'
  <2>1. UNCHANGED <<commits, source, env, points>> /\ CodeAnswers'
    BY <1>3, OtherAnswers DEF C!RestoreRefuses
  <2> QED
    BY <2>1, LooksKeepCode
<1>4. ASSUME NEW e \in CodeEnvs, NEW p \in points,
             C!RestoreResets(e, p) \/ C!RestoreRebuilds(e, p)
      PROVE  CodeInvariant'
  BY <1>4, ResetKeepsCode, RebuildKeepsCode
<1>5. ASSUME NEW e \in CodeEnvs, NEW f \in Files, C!ApplyPatch(e, f)
      PROVE  CodeInvariant'
  BY <1>5, PatchKeepsCode
<1>6. ASSUME NEW e \in CodeEnvs,
             \/ C!MaterializeScratch(e) \/ C!MaterializeCloned(e) \/ C!GitCommit(e)
             \/ C!RunCommands(e) \/ C!Checkpoint(e) \/ C!Teardown(e)
      PROVE  CodeInvariant'
  BY <1>6, MaterializeKeepsCode, CommitKeepsCode, RunsKeepCode, CheckpointKeepsCode,
     TeardownKeepsCode
<1> QED
  BY <1>1, <1>2, <1>3, <1>4, <1>5, <1>6 DEF C!Next

(* Whatever restore() returns with, the tree is clean at a commit that the *)
(* checkpoint knows of; at its own commit unless the project's commands    *)
(* can destroy the repository.  No rebuild is blocked by a registration    *)
(* that an earlier directory left, and a run passes only as a whole.       *)
THEOREM CodebaseRestores == ASSUME C!CodebaseAssumption PROVE C!Spec => []CodeAnswers
<1>1. CodeInvariant => CodeAnswers
  BY DEF CodeInvariant
<1> QED
  BY <1>1, CodeInit, CodeStep, PTL DEF C!Spec

(* Commits are in the gym's name as long as no repository can be destroyed *)
(* (a worktree keeps the name anyway), and the source's configuration is   *)
(* left alone unless worktrees share it.                                   *)
THEOREM CodebaseIdentity ==
  ASSUME C!CodebaseAssumption
  PROVE  C!Spec => [](/\ Local \/ "gone" \notin CodeFaults => C!CommitsAreTheGyms
                      /\ ~Local => C!SourceIdentityIsKept)
<1>1. CodeInvariant => /\ Local \/ "gone" \notin CodeFaults => C!CommitsAreTheGyms
                       /\ ~Local => C!SourceIdentityIsKept
  BY DEF CodeInvariant, CodeCommitted, IdentitiesAreSet, C!SourceIdentityIsKept
<1> QED
  BY <1>1, CodeInit, CodeStep, PTL DEF C!Spec

-----------------------------------------------------------------------------
(* The local providers: directories, work trees and tables *)

(* Every file's directory is there. *)
FilesAreInDirs ==
  /\ DOMAIN held \subseteq L!Paths
  /\ dirs \cap DOMAIN held = {}
  /\ \A x \in DOMAIN held : Inside[x] \notin DOMAIN held
  /\ locEnv = "open" => \A x \in DOMAIN held : Inside[x] \in dirs \cup {None}

(* What a checkpoint holds could be written side by side. *)
PointFits ==
  point # None => /\ DOMAIN point.held \subseteq L!Paths
                  /\ \A x \in DOMAIN point.held : Inside[x] \notin DOMAIN point.held

TreesAreListed == \E U : trees \in Seq(U)

(* The commit of a checkpoint is the tree that was checkpointed, and every *)
(* branch is at a commit.                                                  *)
PointIsCommitted ==
  /\ TreesAreListed /\ branch \in DOMAIN heads
  /\ \A b \in DOMAIN heads : heads[b] \in 1..Len(trees)
  /\ point # None => /\ point.head \in 1..Len(trees)
                     /\ Kind = "git" => point.held = trees[point.head]

LocalRestores == L!RestoredIsTheCheckpoint /\ L!FailedRestoresAreWhole

LocalInvariant ==
  /\ Kind = "filesystem" => FilesAreInDirs /\ PointFits
  /\ PointIsCommitted
  /\ LocalRestores

(* Nothing is held, and main is at a commit of nothing. *)
LEMMA LocalInit == ASSUME L!Init PROVE LocalInvariant
<1>1. FilesAreInDirs /\ PointFits
  BY DEF L!Init, FilesAreInDirs, PointFits, L!Nothing
<1>2. PointIsCommitted
  <2>1. trees = <<L!Nothing>> /\ heads = [b \in {Main} |-> 1] /\ branch = Main /\ point = None
    BY DEF L!Init
  <2>2. Len(trees) = 1 /\ trees \in Seq({L!Nothing})
    BY <2>1
  <2>3. TreesAreListed
    BY <2>2 DEF TreesAreListed
  <2> QED
    BY <2>1, <2>2, <2>3 DEF PointIsCommitted
<1>3. LocalRestores
  BY DEF L!Init, LocalRestores, L!RestoredIsTheCheckpoint, L!FailedRestoresAreWhole
<1> QED
  BY <1>1, <1>2, <1>3 DEF LocalInvariant

(* Only restores and deaths say something of a restore. *)
LEMMA OtherEndsSayNothing ==
  ASSUME last' \in {"ok", "raised"} PROVE LocalRestores'
BY DEF LocalRestores, L!RestoredIsTheCheckpoint, L!FailedRestoresAreWhole

(* Reading files as text keeps their names. *)
LEMMA ReadKeepsPaths == DOMAIN L!Read = DOMAIN held
BY DEF L!Read

(* What the world of a work tree is made of stays. *)
LEMMA CommittedGoesOn ==
  ASSUME PointIsCommitted, UNCHANGED <<trees, heads, branch, point>> PROVE PointIsCommitted'
BY DEF PointIsCommitted, TreesAreListed

(* A write makes the parents and then the file, or is refused. *)
LEMMA WriteKeepsLocal ==
  ASSUME L!LocalAssumption, LocalInvariant, L!Write PROVE LocalInvariant'
<1>1. /\ last' \in {"ok", "raised"} /\ UNCHANGED <<trees, heads, branch, point, locEnv>>
      /\ locEnv = "open"
  BY DEF L!Write, L!git, L!Act
<1>2. PointIsCommitted' /\ LocalRestores'
  BY <1>1, OtherEndsSayNothing, CommittedGoesOn DEF LocalInvariant
<1>3. ASSUME Kind = "filesystem" PROVE FilesAreInDirs' /\ PointFits'
  <2>1. FilesAreInDirs /\ PointFits /\ PointFits'
    BY <1>1, <1>3 DEF LocalInvariant, PointFits
  <2>2. PICK x \in L!Paths, v \in Values :
          LET blocked == Inside[x] \in DOMAIN held
              made == IF blocked THEN dirs ELSE dirs \cup L!ParentsOf({x})
              barred == blocked \/ x \in made
          IN  /\ dirs' = made
              /\ held' = IF barred THEN held ELSE L!With(held, x, v)
    BY DEF L!Write
  <2>3. Inside[x] \in L!Paths \cup {None}
    BY DEF L!LocalAssumption
  <2>4. CASE Inside[x] \in DOMAIN held
    BY <1>1, <2>1, <2>2, <2>4 DEF FilesAreInDirs
  <2>5. CASE Inside[x] \notin DOMAIN held
    <3>1. L!ParentsOf({x}) = {Inside[x]} \ {None}
      BY DEF L!ParentsOf
    <3>2. dirs' = dirs \cup ({Inside[x]} \ {None})
      BY <2>2, <2>5, <3>1
    <3>3. CASE x \in dirs'
      <4>1. held' = held
        BY <2>2, <2>5, <3>3
      <4> QED
        BY <1>1, <2>1, <2>5, <3>2, <4>1 DEF FilesAreInDirs
    <3>4. CASE x \notin dirs'
      <4>1. held' = L!With(held, x, v)
        BY <2>2, <2>5, <3>4
      <4>2. DOMAIN held' = DOMAIN held \cup {x}
        BY <4>1 DEF L!With
      <4>3. x # None /\ Inside[x] # x
        BY <2>3, <3>2, <3>4 DEF L!LocalAssumption
      <4>4. \A y \in DOMAIN held : Inside[y] # x /\ Inside[y] \in dirs' \cup {None}
        BY <1>1, <2>1, <3>2, <3>4, <4>3 DEF FilesAreInDirs
      <4>5. dirs' \cap DOMAIN held' = {}
        BY <2>1, <2>5, <3>2, <3>4, <4>2 DEF FilesAreInDirs
      <4>6. \A y \in DOMAIN held' : Inside[y] \notin DOMAIN held'
        BY <2>1, <2>5, <4>2, <4>3, <4>4 DEF FilesAreInDirs
      <4>7. \A y \in DOMAIN held' : Inside[y] \in dirs' \cup {None}
        BY <3>2, <4>2, <4>4
      <4> QED
        BY <2>1, <4>2, <4>5, <4>6, <4>7 DEF FilesAreInDirs
    <3> QED
      BY <2>1, <3>3, <3>4
  <2> QED
    BY <2>1, <2>4, <2>5
<1> QED
  BY <1>2, <1>3 DEF LocalInvariant

(* Deleting, branching, committing and checkpointing. *)
LEMMA ActsKeepLocal ==
  ASSUME L!LocalAssumption, LocalInvariant,
         L!Delete \/ L!CreateBranch \/ L!Commit \/ L!Checkpoint \/ L!Teardown
  PROVE  LocalInvariant'
<1>1. last' \in {"ok", "raised"}
  BY DEF L!Delete, L!CreateBranch, L!Commit, L!Checkpoint, L!Teardown
<1>2. LocalRestores' /\ PointIsCommitted
  BY <1>1, OtherEndsSayNothing DEF LocalInvariant
<1>3. CASE L!Delete
  <2>1. PICK x \in L!Paths : held' = L!Restrict(held, DOMAIN held \ {x})
    BY <1>3 DEF L!Delete
  <2>2. DOMAIN held' = DOMAIN held \ {x}
    BY <2>1 DEF L!Restrict
  <2>3. UNCHANGED <<trees, heads, branch, point, locEnv, dirs>>
    BY <1>3 DEF L!Delete, L!git
  <2> QED
    BY <1>2, <2>2, <2>3, CommittedGoesOn DEF LocalInvariant, FilesAreInDirs, PointFits
<1>4. CASE L!CreateBranch
  <2>1. UNCHANGED <<held, dirs, index, trees, point>> /\ Kind = "git"
    BY <1>4 DEF L!CreateBranch
  <2>2. ASSUME NEW b \in Branches, b \notin DOMAIN heads,
               heads' = L!With(heads, b, heads[branch]), branch' = b
        PROVE  PointIsCommitted'
    <3>1. DOMAIN heads' = DOMAIN heads \cup {b} /\ heads'[b] = heads[branch]
      BY <2>2 DEF L!With
    <3>2. \A a \in DOMAIN heads : heads'[a] = heads[a]
      BY <2>2 DEF L!With
    <3>3. TreesAreListed'
      BY <1>2, <2>1 DEF PointIsCommitted, TreesAreListed
    <3> QED
      BY <1>2, <2>1, <2>2, <3>1, <3>2, <3>3 DEF PointIsCommitted
  <2>3. ASSUME UNCHANGED <<heads, branch>> PROVE PointIsCommitted'
    BY <1>2, <2>1, <2>3, CommittedGoesOn
  <2>4. PointIsCommitted'
    BY <1>4, <2>2, <2>3 DEF L!CreateBranch
  <2> QED
    BY <1>2, <2>1, <2>4 DEF LocalInvariant
<1>5. CASE L!Commit
  <2>1. UNCHANGED <<held, dirs, branch, point>> /\ Kind = "git"
    BY <1>5 DEF L!Commit
  <2>2. ASSUME trees' = Append(trees, held), heads' = [heads EXCEPT ![branch] = Len(trees) + 1]
        PROVE  PointIsCommitted'
    <3>1. PICK U : trees \in Seq(U)
      BY <1>2 DEF PointIsCommitted, TreesAreListed
    <3>2. trees \in Seq(U \cup {held})
      BY <3>1
    <3>3. trees' \in Seq(U \cup {held}) /\ Len(trees') = Len(trees) + 1 /\ Len(trees) \in Nat
      BY <2>2, <3>2
    <3>4. \A i \in 1..Len(trees) : trees'[i] = trees[i]
      BY <2>2, <3>2
    <3>5. DOMAIN heads' = DOMAIN heads /\ \A b \in DOMAIN heads : heads'[b] \in 1..Len(trees')
      BY <1>2, <2>2, <3>3 DEF PointIsCommitted
    <3>6. point # None => /\ point.head \in 1..Len(trees')
                          /\ Kind = "git" => point.held = trees'[point.head]
      BY <1>2, <3>3, <3>4 DEF PointIsCommitted
    <3>7. TreesAreListed'
      BY <3>3 DEF TreesAreListed
    <3> QED
      BY <1>2, <2>1, <3>5, <3>6, <3>7 DEF PointIsCommitted
  <2>3. ASSUME UNCHANGED <<trees, heads>> PROVE PointIsCommitted'
    BY <1>2, <2>1, <2>3, CommittedGoesOn
  <2>4. PointIsCommitted'
    BY <1>5, <2>2, <2>3 DEF L!Commit
  <2> QED
    BY <1>2, <2>1, <2>4 DEF LocalInvariant
<1>6. CASE L!Checkpoint \/ L!Teardown
  <2>1. UNCHANGED <<held, dirs, index, trees, heads, branch>> /\ locEnv = "open"
    BY <1>6 DEF L!Checkpoint, L!Teardown, L!git
  <2>2. ASSUME point' = [held |-> L!Read, head |-> heads[branch], branch |-> branch],
               Kind # "git" \/ held = L!Tree
        PROVE  /\ point' # None => DOMAIN point'.held = DOMAIN held
               /\ point'.head = heads[branch]
               /\ Kind = "git" => point'.held = trees[point'.head]
    <3>1. point'.held = L!Read /\ point'.head = heads[branch]
      BY <2>2
    <3>2. CASE Kind = "git"
      BY <2>2, <3>1, <3>2 DEF L!Tree, L!Read
    <3>3. CASE Kind # "git"
      BY <3>1, <3>3, ReadKeepsPaths
    <3> QED
      BY <3>1, <3>2, <3>3, ReadKeepsPaths
  <2>3. \/ UNCHANGED point
        \/ /\ point' = [held |-> L!Read, head |-> heads[branch], branch |-> branch]
           /\ Kind # "git" \/ held = L!Tree
    BY <1>6 DEF L!Checkpoint, L!Teardown
  <2>4. PointIsCommitted'
    BY <1>2, <2>1, <2>2, <2>3 DEF PointIsCommitted, TreesAreListed
  <2>5. Kind = "filesystem" => FilesAreInDirs' /\ PointFits'
    BY <2>1, <2>2, <2>3 DEF LocalInvariant, FilesAreInDirs, PointFits
  <2> QED
    BY <1>2, <2>4, <2>5 DEF LocalInvariant
<1> QED
  BY <1>3, <1>4, <1>5, <1>6

(* The files that the loop of a restore gets to are in no one's way. *)
LEMMA WrittenFit ==
  ASSUME L!LocalAssumption, FilesAreInDirs, PointFits, point # None
  PROVE  /\ L!Written(point.held) \subseteq DOMAIN point.held
         /\ \A x \in L!Written(point.held) :
              /\ x \notin dirs /\ x \in L!Paths
              /\ Inside[x] \notin L!Written(point.held)
<1> SUFFICES ASSUME NEW x \in L!Written(point.held)
             PROVE  /\ x \in DOMAIN point.held /\ x \notin dirs /\ x \in L!Paths
                    /\ Inside[x] \notin L!Written(point.held)
  OBVIOUS
<1>1. x \in DOMAIN point.held
  BY DEF L!Written
<1>2. x \in L!Paths
  BY <1>1 DEF PointFits
<1>3. PICK i \in DOMAIN Order : x = Order[i]
  BY <1>2 DEF L!Paths
<1>4. \A j \in DOMAIN Order : j <= i /\ Order[j] \in DOMAIN point.held => Order[j] \notin dirs
  BY <1>3 DEF L!Written
<1>5. i <= i
  BY <1>3 DEF L!LocalAssumption
<1>6. x \notin dirs
  BY <1>1, <1>3, <1>4, <1>5
<1>7. Inside[x] \notin DOMAIN point.held
  BY <1>1 DEF PointFits
<1> QED
  BY <1>1, <1>2, <1>6, <1>7 DEF L!Written

(* A directory is emptied and written again. *)
LEMMA FilesRestored ==
  ASSUME L!LocalAssumption, LocalInvariant, L!Restore, Kind = "filesystem"
  PROVE  LocalInvariant'
<1> DEFINE done == L!Written(point.held)
<1>1. /\ held' = L!Restrict(point.held, done) /\ dirs' = dirs \cup L!ParentsOf(done)
      /\ last' = IF done = DOMAIN point.held THEN "restored" ELSE "unrestored"
      /\ UNCHANGED <<index, trees, heads, branch, locEnv, point>> /\ point # None
  BY DEF L!Restore, L!RestoreFiles, L!RestoreGit, L!RestoreTable, L!git
<1>2. FilesAreInDirs /\ PointFits /\ PointIsCommitted /\ PointIsCommitted'
  BY <1>1, CommittedGoesOn DEF LocalInvariant
<1>3. /\ done \subseteq DOMAIN point.held
      /\ \A x \in done : x \notin dirs /\ x \in L!Paths /\ Inside[x] \notin done
  BY <1>1, <1>2, WrittenFit
<1> HIDE DEF done
<1>4. DOMAIN held' = done /\ \A x \in done : held'[x] = point.held[x]
  BY <1>1 DEF L!Restrict
<1>5. L!ParentsOf(done) = {Inside[x] : x \in done} \ {None}
  BY DEF L!ParentsOf
<1>6. FilesAreInDirs'
  <2>1. dirs' \cap done = {}
    BY <1>1, <1>3, <1>5
  <2>2. \A x \in done : Inside[x] \in dirs' \cup {None}
    BY <1>1, <1>5
  <2> QED
    BY <1>3, <1>4, <2>1, <2>2 DEF FilesAreInDirs
<1>7. PointFits'
  BY <1>1, <1>2 DEF PointFits
<1>8. LocalRestores'
  BY <1>1, <1>3, <1>4 DEF LocalRestores, L!RestoredIsTheCheckpoint, L!FailedRestoresAreWhole
<1> QED
  BY <1>2, <1>6, <1>7, <1>8 DEF LocalInvariant

(* A work tree is reset to the commit, which is what was checkpointed. *)
LEMMA GitRestored ==
  ASSUME L!LocalAssumption, LocalInvariant, L!Restore, Kind = "git"
  PROVE  LocalInvariant'
<1> DEFINE tree == trees[point.head]
           unknown == DOMAIN held \ (DOMAIN index \cup DOMAIN tree)
<1>1. /\ held' = [x \in unknown \cup DOMAIN tree |-> IF x \in unknown THEN held[x] ELSE tree[x]]
      /\ heads' = [heads EXCEPT ![branch] = point.head] /\ index' = tree
      /\ last' = "restored" /\ before' = held
      /\ UNCHANGED <<trees, branch, point>> /\ point # None
  BY DEF L!Restore, L!RestoreFiles, L!RestoreGit, L!RestoreTable
<1>2. PointIsCommitted
  BY DEF LocalInvariant
<1>3. point.held = tree /\ point.head \in 1..Len(trees)
  BY <1>1, <1>2 DEF PointIsCommitted
<1>4. PointIsCommitted'
  <2>1. DOMAIN heads' = DOMAIN heads /\ \A b \in DOMAIN heads : heads'[b] \in 1..Len(trees)
    BY <1>1, <1>2, <1>3 DEF PointIsCommitted
  <2> QED
    BY <1>1, <1>2, <2>1 DEF PointIsCommitted, TreesAreListed
<1> HIDE DEF tree
<1>5. /\ DOMAIN held' = unknown \cup DOMAIN tree
      /\ \A x \in DOMAIN tree : held'[x] = tree[x]
  BY <1>1
<1>6. LocalRestores'
  BY <1>1, <1>3, <1>5 DEF LocalRestores, L!RestoredIsTheCheckpoint, L!FailedRestoresAreWhole
<1> QED
  BY <1>4, <1>6 DEF LocalInvariant

(* A table is replaced in one transaction. *)
LEMMA TableRestored ==
  ASSUME L!LocalAssumption, LocalInvariant, L!Restore, Kind = "sqlite"
  PROVE  LocalInvariant'
<1>1. held' = point.held /\ last' = "restored" /\ UNCHANGED <<trees, heads, branch, point>>
  BY DEF L!Restore, L!RestoreFiles, L!RestoreGit, L!RestoreTable, L!git
<1>2. LocalRestores'
  BY <1>1 DEF LocalRestores, L!RestoredIsTheCheckpoint, L!FailedRestoresAreWhole
<1> QED
  BY <1>1, <1>2, CommittedGoesOn DEF LocalInvariant

(* A restore that is refused, or in which the process dies. *)
LEMMA FailuresKeepLocal ==
  ASSUME L!LocalAssumption, LocalInvariant, L!RestoreMalformed \/ L!DieRestoring
  PROVE  LocalInvariant'
<1>1. UNCHANGED <<trees, heads, branch, point, dirs>> /\ last' \in {"unrestored", "died"}
  BY DEF L!RestoreMalformed, L!DieRestoring, L!git
<1>2. PointIsCommitted'
  BY <1>1, CommittedGoesOn DEF LocalInvariant
<1>3. LocalRestores'
  <2>1. Kind # "filesystem" => held' = before' \/ (last' = "died" /\ held' = point'.held)
    BY DEF L!RestoreMalformed, L!DieRestoring
  <2>2. ASSUME Kind = "filesystem"
        PROVE  \/ \A x \in DOMAIN held' : x \in DOMAIN before' /\ held'[x] = before'[x]
               \/ \A x \in DOMAIN held' : x \in DOMAIN point'.held /\ held'[x] = point'.held[x]
    <3>1. CASE L!RestoreMalformed
      BY <2>2, <3>1 DEF L!RestoreMalformed, L!Nothing
    <3>2. CASE L!DieRestoring
      <4>1. /\ before' = held /\ point' = point
            /\ \/ \E X \in SUBSET DOMAIN held : held' = L!Restrict(held, X)
               \/ \E X \in SUBSET L!Written(point.held) : held' = L!Restrict(point.held, X)
        BY <2>2, <3>2 DEF L!DieRestoring
      <4>2. L!Written(point.held) \subseteq DOMAIN point.held
        BY DEF L!Written
      <4> QED
        BY <4>1, <4>2 DEF L!Restrict
    <3> QED
      BY <3>1, <3>2
  <2> QED
    BY <1>1, <2>1, <2>2 DEF LocalRestores, L!RestoredIsTheCheckpoint, L!FailedRestoresAreWhole
<1>4. ASSUME Kind = "filesystem" PROVE FilesAreInDirs' /\ PointFits'
  <2>1. FilesAreInDirs /\ PointFits /\ PointFits'
    BY <1>1, <1>4 DEF LocalInvariant, PointFits
  <2>2. CASE L!RestoreMalformed
    <3>1. DOMAIN held' = {}
      BY <1>4, <2>2 DEF L!RestoreMalformed, L!Nothing
    <3> QED
      BY <2>1, <3>1 DEF FilesAreInDirs
  <2>3. CASE L!DieRestoring
    <3>1. locEnv' = "dead" /\ point # None
      BY <2>3 DEF L!DieRestoring
    <3>2. \/ \E X \in SUBSET DOMAIN held : held' = L!Restrict(held, X)
          \/ \E X \in SUBSET L!Written(point.held) : held' = L!Restrict(point.held, X)
      BY <1>4, <2>3 DEF L!DieRestoring
    <3>3. \/ DOMAIN held' \subseteq DOMAIN held
          \/ DOMAIN held' \subseteq L!Written(point.held)
      BY <3>2 DEF L!Restrict
    <3>4. CASE DOMAIN held' \subseteq DOMAIN held
      BY <1>1, <2>1, <3>1, <3>4 DEF FilesAreInDirs
    <3>5. CASE DOMAIN held' \subseteq L!Written(point.held)
      BY <1>1, <2>1, <3>1, <3>5, WrittenFit DEF FilesAreInDirs
    <3> QED
      BY <2>1, <3>3, <3>4, <3>5
  <2> QED
    BY <2>2, <2>3
<1> QED
  BY <1>2, <1>3, <1>4 DEF LocalInvariant

(* Every step of a local provider keeps what its restores rest on. *)
LEMMA LocalStep ==
  ASSUME L!LocalAssumption, LocalInvariant, [L!Next]_L!vars PROVE LocalInvariant'
<1>1. CASE UNCHANGED L!vars
  BY <1>1 DEF L!vars, L!git, LocalInvariant, FilesAreInDirs, PointFits, PointIsCommitted,
     TreesAreListed, LocalRestores, L!RestoredIsTheCheckpoint, L!FailedRestoresAreWhole
<1>2. CASE L!Restore
  <2>1. Kind \in {"filesystem", "git", "sqlite"}
    BY DEF L!LocalAssumption
  <2> QED
    BY <1>2, <2>1, FilesRestored, GitRestored, TableRestored
<1> QED
  BY <1>1, <1>2, WriteKeepsLocal, ActsKeepLocal, FailuresKeepLocal DEF L!Next

(* A restore that returns left what the checkpoint held and nothing else;  *)
(* one that does not has changed nothing or all of a work tree or table,   *)
(* and left files of one of the two in a directory, where no file is ever  *)
(* in the way of another.                                                  *)
THEOREM LocalRestore ==
  ASSUME L!LocalAssumption
  PROVE  L!Spec => [](/\ L!RestoredIsTheCheckpoint /\ L!FailedRestoresAreWhole
                      /\ L!PathsAreOneThing)
<1>1. LocalInvariant => /\ L!RestoredIsTheCheckpoint /\ L!FailedRestoresAreWhole
                        /\ L!PathsAreOneThing
  BY DEF LocalInvariant, LocalRestores, FilesAreInDirs, L!PathsAreOneThing
<1> QED
  BY <1>1, LocalInit, LocalStep, PTL DEF L!Spec

-----------------------------------------------------------------------------
(* The GCP simulator: operations, numbers and what a query may do *)

GcpFields == {"res", "iam", "on", "ops", "quota", "clock", "seq", "audit", "applied"}
LongMethods == {m \in Methods : m.long}
OpRecords ==
  [id : Nat, m : LongMethods, n : Names \cup Apis \cup {None}, v : {1}, done : BOOLEAN, at : Nat,
   end : {None, "ok", "error", "cancelled"}]
AuditRecords == [seq : Nat, m : {m.id : m \in Methods}, status : Nat]

GcpTypes(x) ==
  /\ DOMAIN x = GcpFields
  /\ x.ops \in Seq(OpRecords) /\ x.audit \in Seq(AuditRecords) /\ x.applied \in Seq(Nat)
  /\ x.clock \in Nat /\ x.seq \in Nat

(* Every number was given once: to an operation or to an audit entry. *)
NumbersAreGivenOnce(x) ==
  /\ \A i \in DOMAIN x.ops : x.ops[i].id <= x.seq
  /\ \A i \in DOMAIN x.audit : x.audit[i].seq <= x.seq
  /\ \A i, j \in DOMAIN x.ops : x.ops[i].id = x.ops[j].id => i = j
  /\ \A i, j \in DOMAIN x.audit : x.audit[i].seq = x.audit[j].seq => i = j
  /\ \A i \in DOMAIN x.ops, j \in DOMAIN x.audit : x.ops[i].id # x.audit[j].seq

(* What was applied was started, was applied once, and ended so. *)
AppliedAreDone(x) ==
  /\ \A i \in DOMAIN x.applied : x.applied[i] <= x.seq
  /\ \A i, j \in DOMAIN x.applied : x.applied[i] = x.applied[j] => i = j
  /\ \A i \in DOMAIN x.ops :
       /\ x.ops[i].done <=> x.ops[i].end # None
       /\ (\E j \in DOMAIN x.applied : x.applied[j] = x.ops[i].id)
            <=> x.ops[i].end \in {"ok", "error"}

GcpWorld(x) == GcpTypes(x) /\ NumbersAreGivenOnce(x) /\ AppliedAreDone(x)

(* Nothing waits past its time, unless a custom method raised. *)
CustomIsDirect == \A m \in Methods : m.long => m.effect # "CUSTOM"
NoneIsDue(x) == \A i \in DOMAIN x.ops : ~G!Due(x, i)

GcpInvariant ==
  /\ GcpWorld(w) /\ (CustomIsDirect => NoneIsDue(w))
  /\ saved # None => GcpWorld(saved) /\ (CustomIsDirect => NoneIsDue(saved))

(* The world begins with no operation and an empty log. *)
LEMMA GcpInit == ASSUME G!Init PROVE GcpInvariant
<1>1. /\ DOMAIN w = GcpFields
      /\ w.ops = << >> /\ w.audit = << >> /\ w.applied = << >> /\ w.clock = 0 /\ w.seq = 0
  BY DEF G!Init, GcpFields
<1>2. GcpTypes(w)
  BY <1>1 DEF GcpTypes
<1>3. NumbersAreGivenOnce(w) /\ AppliedAreDone(w) /\ NoneIsDue(w)
  BY <1>1 DEF NumbersAreGivenOnce, AppliedAreDone, NoneIsDue
<1> QED
  BY <1>2, <1>3 DEF GcpInvariant, GcpWorld, G!Init

(* The elements of the sequences of a world. *)
LEMMA WorldElements ==
  ASSUME NEW x, GcpTypes(x)
  PROVE  /\ Len(x.ops) \in Nat /\ DOMAIN x.ops = 1..Len(x.ops)
         /\ \A i \in DOMAIN x.ops :
              /\ x.ops[i] \in OpRecords
              /\ x.ops[i].id \in Nat /\ x.ops[i].at \in Nat /\ x.ops[i].m \in LongMethods
         /\ \A i \in DOMAIN x.audit : x.audit[i].seq \in Nat
         /\ \A i \in DOMAIN x.applied : x.applied[i] \in Nat
<1>1. x.ops \in Seq(OpRecords) /\ x.audit \in Seq(AuditRecords) /\ x.applied \in Seq(Nat)
  BY DEF GcpTypes
<1>2. /\ \A i \in DOMAIN x.ops : x.ops[i] \in OpRecords
      /\ \A i \in DOMAIN x.audit : x.audit[i] \in AuditRecords
      /\ \A i \in DOMAIN x.applied : x.applied[i] \in Nat
  BY <1>1
<1>3. \A o \in OpRecords : o.id \in Nat /\ o.at \in Nat /\ o.m \in LongMethods
  BY DEF OpRecords
<1>4. \A a \in AuditRecords : a.seq \in Nat
  BY DEF AuditRecords
<1> QED
  BY <1>1, <1>2, <1>3, <1>4

(* What is neither an operation, a number nor the clock does not matter. *)
LEMMA WorldFrame ==
  ASSUME NEW x, NEW y, GcpWorld(x), DOMAIN y = GcpFields, y.ops = x.ops, y.audit = x.audit,
         y.applied = x.applied, y.clock = x.clock, y.seq \in Nat, y.seq >= x.seq
  PROVE  GcpWorld(y) /\ (NoneIsDue(x) => NoneIsDue(y))
<1>1. GcpTypes(y)
  BY DEF GcpWorld, GcpTypes
<1>2. NumbersAreGivenOnce(y)
  <2>1. \A i \in DOMAIN x.ops : x.ops[i].id \in Nat
    BY WorldElements DEF GcpWorld
  <2>2. \A i \in DOMAIN x.audit : x.audit[i].seq \in Nat
    BY WorldElements DEF GcpWorld
  <2> QED
    BY <2>1, <2>2 DEF GcpWorld, NumbersAreGivenOnce, GcpTypes
<1>3. AppliedAreDone(y)
  <2>1. \A i \in DOMAIN x.applied : x.applied[i] \in Nat
    BY WorldElements DEF GcpWorld
  <2> QED
    BY <2>1 DEF GcpWorld, AppliedAreDone, GcpTypes
<1> QED
  BY <1>1, <1>2, <1>3 DEF GcpWorld, NoneIsDue, G!Due

(* An effect on resources, policies or services leaves the operations,     *)
(* the quotas, the clock and the log alone.                                *)
LEMMA ApplyFrame ==
  ASSUME NEW x, NEW m, NEW n, NEW v, DOMAIN x = GcpFields, x.seq \in Nat,
         m.effect \notin {"OPERATION_CANCEL", "OPERATION_DELETE"}
  PROVE  LET r == G!Apply(x, m, n, v) IN
         /\ DOMAIN r.w = GcpFields
         /\ r.w.ops = x.ops /\ r.w.audit = x.audit /\ r.w.applied = x.applied
         /\ r.w.clock = x.clock /\ r.w.quota = x.quota
         /\ r.w.seq \in Nat /\ r.w.seq >= x.seq
         /\ r.status \in {0, 200, 404, 409}
         /\ m.effect \in G!LongEffects \ {"CUSTOM"} => r.status # 0
         /\ G!ReadOnly(m) => r.w = x
<1> DEFINE r == G!Apply(x, m, n, v)
<1>1. CASE m.effect = "READ_ONE"
  <2>1. r.w = x /\ r.status \in {200, 404}
    BY <1>1 DEF G!Apply, G!Say
  <2> QED
    BY <1>1, <2>1
<1>2. CASE m.effect \in {"READ_MANY", "IAM_GET"}
  <2>1. r.w = x /\ r.status = 200
    BY <1>2 DEF G!Apply, G!Say
  <2> QED
    BY <2>1
<1>3. CASE m.effect = "OPERATION_GET"
  <2>1. r.w = x /\ r.status \in {200, 404}
    BY <1>3 DEF G!Apply, G!Say
  <2> QED
    BY <2>1
<1>4. CASE m.effect = "CREATE"
  <2>1. r = G!Create(x, n, v)
    BY <1>4 DEF G!Apply
  <2> DEFINE y == IF n = None THEN [x EXCEPT !.seq = @ + 1] ELSE x
             name == IF n = None THEN 0 - y.seq ELSE n
  <2>2. /\ DOMAIN y = GcpFields
        /\ y.ops = x.ops /\ y.audit = x.audit /\ y.applied = x.applied
        /\ y.clock = x.clock /\ y.quota = x.quota
        /\ y.seq \in Nat /\ y.seq >= x.seq
    BY DEF GcpFields
  <2>3. r = IF name \in DOMAIN y.res THEN G!Say(y, 409)
            ELSE G!Say([y EXCEPT !.res = G!Put(@, name, G!Value(v, v))], 200)
    BY <2>1 DEF G!Create
  <2> DEFINE z == [y EXCEPT !.res = G!Put(@, name, G!Value(v, v))]
  <2>4. /\ DOMAIN z = GcpFields
        /\ z.ops = y.ops /\ z.audit = y.audit /\ z.applied = y.applied
        /\ z.clock = y.clock /\ z.quota = y.quota /\ z.seq = y.seq
    <3> HIDE DEF y, name
    <3> QED
      BY <2>2 DEF GcpFields
  <2>5. r = IF name \in DOMAIN y.res THEN G!Say(y, 409) ELSE G!Say(z, 200)
    BY <2>3
  <2> HIDE DEF y, z, name, r
  <2>6. r.w \in {y, z} /\ r.status \in {200, 409}
    BY <2>5 DEF G!Say
  <2>7. /\ DOMAIN r.w = GcpFields
        /\ r.w.ops = x.ops /\ r.w.audit = x.audit /\ r.w.applied = x.applied
        /\ r.w.clock = x.clock /\ r.w.quota = x.quota
        /\ r.w.seq \in Nat /\ r.w.seq >= x.seq
    BY <2>2, <2>4, <2>6
  <2> QED
    BY <1>4, <2>6, <2>7 DEF G!ReadOnly, G!ReadEffects, r
<1>5. CASE m.effect = "REPLACE"
  <2>1. r = G!Replace(x, n, v)
    BY <1>5 DEF G!Apply
  <2> DEFINE y == [x EXCEPT !.res = G!Put(@, n, G!Value(v, v))]
  <2>2. r = G!OnResource(x, n, y)
    BY <2>1 DEF G!Replace, G!Patch, G!Delete
  <2>4. /\ DOMAIN y = GcpFields
        /\ y.ops = x.ops /\ y.audit = x.audit /\ y.applied = x.applied
        /\ y.clock = x.clock /\ y.quota = x.quota /\ y.seq = x.seq
    BY DEF GcpFields
  <2> HIDE DEF r, y
  <2>5. r.w \in {x, y} /\ r.status \in {200, 404}
    BY <2>2 DEF G!OnResource, G!Say
  <2>3. /\ DOMAIN r.w = GcpFields
        /\ r.w.ops = x.ops /\ r.w.audit = x.audit /\ r.w.applied = x.applied
        /\ r.w.clock = x.clock /\ r.w.quota = x.quota
        /\ r.w.seq = x.seq /\ r.status \in {200, 404}
    BY <2>4, <2>5 DEF GcpFields
  <2> QED
    BY <1>5, <2>3 DEF G!ReadOnly, G!ReadEffects, r
<1>6. CASE m.effect = "PATCH"
  <2>1. r = G!Patch(x, n, v)
    BY <1>6 DEF G!Apply
  <2> DEFINE y == [x EXCEPT !.res = G!Put(@, n, [@[n] EXCEPT !.a = v])]
  <2>2. r = G!OnResource(x, n, y)
    BY <2>1 DEF G!Replace, G!Patch, G!Delete
  <2>4. /\ DOMAIN y = GcpFields
        /\ y.ops = x.ops /\ y.audit = x.audit /\ y.applied = x.applied
        /\ y.clock = x.clock /\ y.quota = x.quota /\ y.seq = x.seq
    BY DEF GcpFields
  <2> HIDE DEF r, y
  <2>5. r.w \in {x, y} /\ r.status \in {200, 404}
    BY <2>2 DEF G!OnResource, G!Say
  <2>3. /\ DOMAIN r.w = GcpFields
        /\ r.w.ops = x.ops /\ r.w.audit = x.audit /\ r.w.applied = x.applied
        /\ r.w.clock = x.clock /\ r.w.quota = x.quota
        /\ r.w.seq = x.seq /\ r.status \in {200, 404}
    BY <2>4, <2>5 DEF GcpFields
  <2> QED
    BY <1>6, <2>3 DEF G!ReadOnly, G!ReadEffects, r
<1>7. CASE m.effect = "DELETE"
  <2>1. r = G!Delete(x, n)
    BY <1>7 DEF G!Apply
  <2> DEFINE y == [x EXCEPT !.res = G!Drop(@, n), !.iam = G!Drop(@, n)]
  <2>2. r = G!OnResource(x, n, y)
    BY <2>1 DEF G!Replace, G!Patch, G!Delete
  <2>4. /\ DOMAIN y = GcpFields
        /\ y.ops = x.ops /\ y.audit = x.audit /\ y.applied = x.applied
        /\ y.clock = x.clock /\ y.quota = x.quota /\ y.seq = x.seq
    BY DEF GcpFields
  <2> HIDE DEF r, y
  <2>5. r.w \in {x, y} /\ r.status \in {200, 404}
    BY <2>2 DEF G!OnResource, G!Say
  <2>3. /\ DOMAIN r.w = GcpFields
        /\ r.w.ops = x.ops /\ r.w.audit = x.audit /\ r.w.applied = x.applied
        /\ r.w.clock = x.clock /\ r.w.quota = x.quota
        /\ r.w.seq = x.seq /\ r.status \in {200, 404}
    BY <2>4, <2>5 DEF GcpFields
  <2> QED
    BY <1>7, <2>3 DEF G!ReadOnly, G!ReadEffects, r
<1>8. CASE m.effect = "IAM_SET"
  <2>1. r = G!IamSet(x, n, v)
    BY <1>8 DEF G!Apply
  <2>2. r.w = [x EXCEPT !.iam = G!Put(@, n, v)] /\ r.status = 200
    BY <2>1 DEF G!IamSet, G!Say
  <2> HIDE DEF r
  <2>3. /\ DOMAIN r.w = GcpFields
        /\ r.w.ops = x.ops /\ r.w.audit = x.audit /\ r.w.applied = x.applied
        /\ r.w.clock = x.clock /\ r.w.quota = x.quota
        /\ r.w.seq = x.seq /\ r.status \in {200, 404}
    BY <2>2 DEF GcpFields
  <2> QED
    BY <1>8, <2>3 DEF G!ReadOnly, G!ReadEffects, r
<1>9. CASE m.effect = "SERVICE_ENABLE"
  <2>1. r = G!ServiceEnable(x, n)
    BY <1>9 DEF G!Apply
  <2>2. r.w = [x EXCEPT !.on = @ \cup {n}] /\ r.status = 200
    BY <2>1 DEF G!ServiceEnable, G!Say
  <2> HIDE DEF r
  <2>3. /\ DOMAIN r.w = GcpFields
        /\ r.w.ops = x.ops /\ r.w.audit = x.audit /\ r.w.applied = x.applied
        /\ r.w.clock = x.clock /\ r.w.quota = x.quota
        /\ r.w.seq = x.seq /\ r.status \in {200, 404}
    BY <2>2 DEF GcpFields
  <2> QED
    BY <1>9, <2>3 DEF G!ReadOnly, G!ReadEffects, r
<1>10. CASE m.effect = "SERVICE_DISABLE"
  <2>1. r = G!ServiceDisable(x, n)
    BY <1>10 DEF G!Apply
  <2>2. r.w = [x EXCEPT !.on = @ \ {n}] /\ r.status = 200
    BY <2>1 DEF G!ServiceDisable, G!Say
  <2> HIDE DEF r
  <2>3. /\ DOMAIN r.w = GcpFields
        /\ r.w.ops = x.ops /\ r.w.audit = x.audit /\ r.w.applied = x.applied
        /\ r.w.clock = x.clock /\ r.w.quota = x.quota
        /\ r.w.seq = x.seq /\ r.status \in {200, 404}
    BY <2>2 DEF GcpFields
  <2> QED
    BY <1>10, <2>3 DEF G!ReadOnly, G!ReadEffects, r
<1>11. CASE m.effect \notin {"READ_ONE", "READ_MANY", "IAM_GET", "OPERATION_GET", "CREATE",
                           "REPLACE", "PATCH", "DELETE", "IAM_SET", "SERVICE_ENABLE",
                           "SERVICE_DISABLE"}
  <2>1. r.w = x /\ r.status = 0
    BY <1>11 DEF G!Apply, G!Say
  <2> QED
    BY <1>11, <2>1 DEF G!LongEffects
<1> QED
  BY <1>1, <1>2, <1>3, <1>4, <1>5, <1>6, <1>7, <1>8, <1>9, <1>10, <1>11

(* Where the numbers of a list are once one more is appended to it. *)
LEMMA AppendedNumber ==
  ASSUME NEW s \in Seq(Nat), NEW n \in Nat, NEW r, r = Append(s, n)
  PROVE  /\ DOMAIN r = DOMAIN s \cup {Len(s) + 1} /\ Len(s) + 1 \notin DOMAIN s
         /\ r[Len(s) + 1] = n
         /\ \A j \in DOMAIN s : r[j] = s[j]
<1>1. /\ r \in Seq(Nat) /\ Len(r) = Len(s) + 1 /\ r[Len(s) + 1] = n
      /\ \A j \in 1..Len(s) : r[j] = s[j]
  BY AppendProperties
<1>2. DOMAIN s = 1..Len(s) /\ DOMAIN r = 1..Len(r) /\ Len(s) \in Nat
  BY <1>1
<1> QED
  BY <1>1, <1>2

(* An operation that ends is in the world that it was, with an end. *)
LEMMA EndWorld ==
  ASSUME NEW x, NEW y, NEW i, NEW end \in {"ok", "error", "cancelled"}, GcpWorld(x),
         None \notin {"ok", "error", "cancelled"},
         i \in DOMAIN x.ops, ~x.ops[i].done,
         DOMAIN y = GcpFields, y.audit = x.audit, y.clock = x.clock, y.seq = x.seq,
         y.ops = [x.ops EXCEPT ![i] = [x.ops[i] EXCEPT !.done = TRUE, !.end = end]],
         y.applied = IF end = "cancelled" THEN x.applied ELSE Append(x.applied, x.ops[i].id)
  PROVE  /\ GcpWorld(y) /\ DOMAIN y.ops = DOMAIN x.ops
         /\ \A j \in DOMAIN x.ops : y.ops[j].m = x.ops[j].m
         /\ ~G!Due(y, i)
         /\ \A j \in DOMAIN x.ops : ~G!Due(x, j) => ~G!Due(y, j)
<1>1. /\ x.ops \in Seq(OpRecords) /\ DOMAIN x.ops = 1..Len(x.ops) /\ Len(x.ops) \in Nat
      /\ \A j \in DOMAIN x.ops : x.ops[j] \in OpRecords /\ x.ops[j].id \in Nat
      /\ \A j \in DOMAIN x.applied : x.applied[j] \in Nat
      /\ x.applied \in Seq(Nat)
  BY WorldElements DEF GcpWorld, GcpTypes
<1> DEFINE o == [x.ops[i] EXCEPT !.done = TRUE, !.end = end]
<1>2. /\ o \in OpRecords /\ o.done /\ o.end = end
      /\ o.id = x.ops[i].id /\ o.m = x.ops[i].m /\ o.at = x.ops[i].at
  BY <1>1 DEF OpRecords
<1> HIDE DEF o
<1>3. /\ y.ops \in Seq(OpRecords) /\ DOMAIN y.ops = DOMAIN x.ops /\ y.ops[i] = o
      /\ \A j \in DOMAIN x.ops : j # i => y.ops[j] = x.ops[j]
  BY <1>1, <1>2 DEF o
<1>4. /\ \A j \in DOMAIN x.ops : y.ops[j].id = x.ops[j].id /\ y.ops[j].m = x.ops[j].m
  BY <1>2, <1>3
<1>5. y.applied \in Seq(Nat)
  BY <1>1
<1>6. GcpTypes(y)
  BY <1>3, <1>5 DEF GcpWorld, GcpTypes
<1>7. NumbersAreGivenOnce(y)
  BY <1>3, <1>4 DEF GcpWorld, NumbersAreGivenOnce
<1>8. AppliedAreDone(y)
  <2>1. AppliedAreDone(x) /\ NumbersAreGivenOnce(x)
    BY DEF GcpWorld
  <2>2. x.ops[i].end = None /\ x.ops[i].id <= x.seq
    BY <2>1 DEF AppliedAreDone, NumbersAreGivenOnce
  <2>3. CASE end = "cancelled"
    <3>1. y.applied = x.applied
      BY <2>3
    <3>2. ~ \E j \in DOMAIN x.applied : x.applied[j] = x.ops[i].id
      BY <2>1, <2>2 DEF AppliedAreDone
    <3> QED
      BY <1>2, <1>3, <1>4, <2>1, <2>3, <3>1, <3>2 DEF AppliedAreDone
  <2>4. CASE end # "cancelled"
    <3>1. y.applied = Append(x.applied, x.ops[i].id)
      BY <2>4
    <3> DEFINE k == Len(x.applied) + 1
    <3>2. /\ DOMAIN y.applied = DOMAIN x.applied \cup {k} /\ k \notin DOMAIN x.applied
          /\ y.applied[k] = x.ops[i].id
          /\ \A j \in DOMAIN x.applied : y.applied[j] = x.applied[j]
      BY <1>1, <3>1, AppendedNumber
    <3> HIDE DEF k
    <3>3. \A j \in DOMAIN x.applied : x.applied[j] # x.ops[i].id
      BY <2>1, <2>2, <2>4 DEF AppliedAreDone
    <3>4. \A j \in DOMAIN y.applied : y.applied[j] <= y.seq
      BY <2>1, <2>2, <3>2 DEF AppliedAreDone
    <3>5. \A j, l \in DOMAIN y.applied : y.applied[j] = y.applied[l] => j = l
      BY <2>1, <3>2, <3>3 DEF AppliedAreDone
    <3>6. ASSUME NEW j \in DOMAIN y.ops
          PROVE  /\ y.ops[j].done <=> y.ops[j].end # None
                 /\ (\E l \in DOMAIN y.applied : y.applied[l] = y.ops[j].id)
                      <=> y.ops[j].end \in {"ok", "error"}
      <4>1. CASE j = i
        BY <1>2, <1>3, <2>4, <3>2, <4>1
      <4>2. CASE j # i
        <5>1. x.ops[j].id # x.ops[i].id /\ y.ops[j] = x.ops[j]
          BY <1>1, <1>3, <2>1, <3>6, <4>2 DEF NumbersAreGivenOnce
        <5>2. (\E l \in DOMAIN y.applied : y.applied[l] = y.ops[j].id)
                <=> (\E l \in DOMAIN x.applied : x.applied[l] = x.ops[j].id)
          BY <3>2, <5>1
        <5> QED
          BY <1>3, <2>1, <3>6, <5>1, <5>2 DEF AppliedAreDone
      <4> QED
        BY <4>1, <4>2
    <3> QED
      BY <3>4, <3>5, <3>6 DEF AppliedAreDone
  <2> QED
    BY <2>3, <2>4
<1>9. /\ ~G!Due(y, i)
      /\ \A j \in DOMAIN x.ops : ~G!Due(x, j) => ~G!Due(y, j)
  BY <1>2, <1>3 DEF G!Due
<1> QED
  BY <1>3, <1>4, <1>6, <1>7, <1>8, <1>9 DEF GcpWorld

(* A cancelled operation is done without having been applied. *)
LEMMA CancelWorld ==
  ASSUME G!GcpAssumption, NEW x, NEW k, GcpWorld(x)
  PROVE  LET r == G!OperationCancel(x, k) IN
         /\ GcpWorld(r.w) /\ (NoneIsDue(x) => NoneIsDue(r.w)) /\ r.status \in {200, 404}
<1> DEFINE r == G!OperationCancel(x, k)
           i == CHOOSE j \in G!Index(x, k) : TRUE
           y == [x EXCEPT !.ops[i].done = TRUE, !.ops[i].end = "cancelled"]
<1>1. r.status \in {200, 404} /\ r.w \in {x, y}
  BY DEF G!OperationCancel, G!Say
<1>2. CASE r.w = x
  BY <1>1, <1>2
<1>3. CASE r.w # x
  <2>1. G!Index(x, k) # {} /\ ~x.ops[i].done /\ r.w = y
    BY <1>1, <1>3 DEF G!OperationCancel, G!Say
  <2>2. i \in DOMAIN x.ops
    BY <2>1 DEF G!Index
  <2> HIDE DEF i
  <2>3. DOMAIN x = GcpFields /\ DOMAIN x.ops[i] = DOMAIN [x.ops[i] EXCEPT !.done = TRUE]
        /\ DOMAIN x.ops = 1..Len(x.ops)
    BY <2>2, WorldElements DEF GcpWorld, GcpTypes, OpRecords
  <2>4. DOMAIN y = GcpFields /\ y.audit = x.audit /\ y.clock = x.clock /\ y.seq = x.seq
        /\ y.applied = x.applied
    BY <2>3 DEF GcpFields
  <2>5. y.ops = [x.ops EXCEPT ![i] = [x.ops[i] EXCEPT !.done = TRUE, !.end = "cancelled"]]
    BY <2>2, <2>3 DEF GcpFields
  <2> HIDE DEF y, r
  <2>6. GcpWorld(y) /\ \A j \in DOMAIN x.ops : ~G!Due(x, j) => ~G!Due(y, j)
    BY <2>1, <2>2, <2>4, <2>5, EndWorld DEF G!GcpAssumption
  <2>7. DOMAIN y.ops = DOMAIN x.ops
    BY <2>5
  <2> QED
    BY <1>1, <2>1, <2>6, <2>7 DEF NoneIsDue, r
<1> QED
  BY <1>2, <1>3

(* A deleted operation is gone; what it did stays done. *)
LEMMA DeleteWorld ==
  ASSUME NEW x, NEW k, GcpWorld(x)
  PROVE  LET r == G!OperationDelete(x, k) IN
         /\ GcpWorld(r.w) /\ (NoneIsDue(x) => NoneIsDue(r.w)) /\ r.status \in {200, 404}
<1> DEFINE r == G!OperationDelete(x, k)
           i == CHOOSE j \in G!Index(x, k) : TRUE
           y == [x EXCEPT !.ops = G!RemoveAt(@, i)]
<1>1. r.status \in {200, 404} /\ r.w \in {x, y}
  BY DEF G!OperationDelete, G!Say
<1>2. CASE r.w = x
  BY <1>1, <1>2
<1>3. CASE r.w # x
  <2>1. G!Index(x, k) # {} /\ r.w = y
    BY <1>1, <1>3 DEF G!OperationDelete, G!Say
  <2>2. i \in DOMAIN x.ops
    BY <2>1 DEF G!Index
  <2> HIDE DEF i
  <2>3. DOMAIN x = GcpFields /\ DOMAIN x.ops = 1..Len(x.ops) /\ Len(x.ops) \in Nat
        /\ x.ops \in Seq(OpRecords)
    BY <2>2, WorldElements DEF GcpWorld, GcpTypes
  <2>4. DOMAIN y = GcpFields /\ y.audit = x.audit /\ y.clock = x.clock /\ y.seq = x.seq
        /\ y.applied = x.applied /\ y.ops = G!RemoveAt(x.ops, i)
    BY <2>3 DEF GcpFields
  <2>5. y.ops = SubSeq(x.ops, 1, i - 1) \o SubSeq(x.ops, i + 1, Len(x.ops))
    BY <2>4 DEF G!RemoveAt
  <2> HIDE DEF y, r
  <2> DEFINE a == SubSeq(x.ops, 1, i - 1)
             b == SubSeq(x.ops, i + 1, Len(x.ops))
             from(j) == IF j < i THEN j ELSE j + 1
  <2>6. /\ a \in Seq(OpRecords) /\ Len(a) = i - 1 /\ i \in 1..Len(x.ops)
        /\ \A j \in 1..i - 1 : a[j] = x.ops[j]
    BY <2>2, <2>3
  <2>7. /\ b \in Seq(OpRecords) /\ Len(b) = Len(x.ops) - i
        /\ \A j \in 1..Len(x.ops) - i : b[j] = x.ops[i + j]
    BY <2>2, <2>3
  <2>8. y.ops = a \o b
    BY <2>5
  <2> HIDE DEF a, b
  <2>9. /\ y.ops \in Seq(OpRecords) /\ Len(y.ops) = Len(x.ops) - 1
        /\ \A j \in 1..Len(x.ops) - 1 : y.ops[j] = IF j < i THEN a[j] ELSE b[j - (i - 1)]
    <3>1. a \in Seq(OpRecords) /\ b \in Seq(OpRecords)
      BY <2>6, <2>7
    <3>2. /\ a \o b \in Seq(OpRecords) /\ Len(a \o b) = Len(a) + Len(b)
          /\ \A j \in 1..Len(a) + Len(b) :
               (a \o b)[j] = IF j \leq Len(a) THEN a[j] ELSE b[j - Len(a)]
      BY <3>1, ConcatProperties
    <3>3. Len(a) + Len(b) = Len(x.ops) - 1 /\ Len(a) = i - 1
      BY <2>3, <2>6, <2>7
    <3>4. ASSUME NEW j \in 1..Len(x.ops) - 1
          PROVE  y.ops[j] = IF j < i THEN a[j] ELSE b[j - (i - 1)]
      <4>1. j \in 1..Len(a) + Len(b) /\ (j < i <=> j \leq Len(a))
        BY <2>3, <2>6, <3>3
      <4>2. (a \o b)[j] = IF j \leq Len(a) THEN a[j] ELSE b[j - Len(a)]
        BY <3>2, <4>1
      <4> QED
        BY <2>8, <3>3, <4>1, <4>2
    <3> QED
      BY <2>8, <3>2, <3>3, <3>4
  <2>10. DOMAIN y.ops = 1..Len(x.ops) - 1
    BY <2>9
  <2>11. /\ \A j \in DOMAIN y.ops : y.ops[j] = x.ops[from(j)] /\ from(j) \in DOMAIN x.ops
        /\ \A j, l \in DOMAIN y.ops : from(j) = from(l) => j = l
    <3>1. ASSUME NEW j \in 1..Len(x.ops) - 1
          PROVE  y.ops[j] = x.ops[from(j)] /\ from(j) \in DOMAIN x.ops
      <4>1. CASE j < i
        BY <2>3, <2>6, <2>9, <4>1
      <4>2. CASE ~(j < i)
        <5>1. j - (i - 1) \in 1..Len(x.ops) - i /\ i + (j - (i - 1)) = j + 1
          BY <2>3, <2>6, <4>2
        <5> QED
          BY <2>3, <2>6, <2>7, <2>9, <4>2, <5>1
      <4> QED
        BY <4>1, <4>2
    <3>2. \A j, l \in 1..Len(x.ops) - 1 : from(j) = from(l) => j = l
      BY <2>3, <2>6
    <3> QED
      BY <2>10, <3>1, <3>2
  <2> HIDE DEF from
  <2>12. \A j \in DOMAIN y.ops : \E l \in DOMAIN x.ops : y.ops[j] = x.ops[l]
    BY <2>11
  <2>13. GcpTypes(y)
    BY <2>4, <2>9 DEF GcpWorld, GcpTypes
  <2>14. NumbersAreGivenOnce(y)
    <3>1. NumbersAreGivenOnce(x)
      BY DEF GcpWorld
    <3>2. \A j, l \in DOMAIN y.ops : y.ops[j].id = y.ops[l].id => j = l
      <4>1. ASSUME NEW j \in DOMAIN y.ops, NEW l \in DOMAIN y.ops, y.ops[j].id = y.ops[l].id
            PROVE  j = l
        <5>1. x.ops[from(j)].id = x.ops[from(l)].id
          BY <2>11, <4>1
        <5>2. from(j) = from(l)
          BY <2>11, <3>1, <5>1 DEF NumbersAreGivenOnce
        <5> QED
          BY <2>11, <5>2
      <4> QED
        BY <4>1
    <3> QED
      BY <2>4, <2>12, <3>1, <3>2 DEF NumbersAreGivenOnce
  <2>15. AppliedAreDone(y)
    BY <2>4, <2>12 DEF GcpWorld, AppliedAreDone
  <2>16. NoneIsDue(x) => NoneIsDue(y)
    BY <2>4, <2>12 DEF NoneIsDue, G!Due
  <2> QED
    BY <1>1, <2>1, <2>13, <2>14, <2>15, <2>16 DEF GcpWorld, r
<1> QED
  BY <1>2, <1>3

(* An operation is started under a number of its own and waits. *)
LEMMA StartWorld ==
  ASSUME G!GcpAssumption, NEW x, NEW m \in Methods, 
         NEW n \in Names \cup Apis \cup {None}, NEW v \in {1}, m.long, GcpWorld(x)
  PROVE  LET r == G!StartOperation(x, m, n, v) IN
         /\ GcpWorld(r.w) /\ (NoneIsDue(x) => NoneIsDue(r.w)) /\ r.status = 200
<1> DEFINE r == G!StartOperation(x, m, n, v)
           o == [id |-> x.seq + 1, m |-> m, n |-> n, v |-> v, done |-> FALSE,
                 at |-> x.clock + 1, end |-> None]
           k == Len(x.ops) + 1
           y == [x EXCEPT !.seq = @ + 1, !.ops = Append(@, o)]
<1>1. r.w = y /\ r.status = 200
  BY DEF G!StartOperation, G!Say
<1>2. /\ DOMAIN x = GcpFields /\ x.ops \in Seq(OpRecords) /\ x.seq \in Nat /\ x.clock \in Nat
      /\ x.applied \in Seq(Nat)
  BY DEF GcpWorld, GcpTypes
<1>3. /\ DOMAIN y = GcpFields /\ y.audit = x.audit /\ y.clock = x.clock /\ y.seq = x.seq + 1
      /\ y.applied = x.applied /\ y.ops = Append(x.ops, o)
  BY <1>2 DEF GcpFields
<1>4. o \in OpRecords /\ o.id = x.seq + 1 /\ ~o.done /\ o.end = None /\ o.at = x.clock + 1
  BY <1>2 DEF OpRecords, LongMethods
<1> HIDE DEF o, y, r
<1>5. /\ y.ops \in Seq(OpRecords) /\ DOMAIN y.ops = DOMAIN x.ops \cup {k} /\ y.ops[k] = o
      /\ k \notin DOMAIN x.ops /\ \A j \in DOMAIN x.ops : y.ops[j] = x.ops[j]
  BY <1>2, <1>3, <1>4
<1> HIDE DEF k
<1>6. /\ \A j \in DOMAIN x.ops : x.ops[j].id \in Nat
      /\ \A j \in DOMAIN x.audit : x.audit[j].seq \in Nat
      /\ \A j \in DOMAIN x.applied : x.applied[j] \in Nat
  BY WorldElements DEF GcpWorld
<1>7. GcpTypes(y)
  BY <1>2, <1>3, <1>5 DEF GcpWorld, GcpTypes
<1>8. NumbersAreGivenOnce(x) /\ AppliedAreDone(x)
  BY DEF GcpWorld
<1>9. NumbersAreGivenOnce(y)
  <2>1. \A i \in DOMAIN y.ops : y.ops[i].id <= y.seq
    BY <1>2, <1>3, <1>4, <1>5, <1>6, <1>8 DEF NumbersAreGivenOnce
  <2>2. \A i \in DOMAIN y.audit : y.audit[i].seq <= y.seq
    BY <1>2, <1>3, <1>6, <1>8 DEF NumbersAreGivenOnce
  <2>3. \A i \in DOMAIN x.ops : x.ops[i].id # o.id
    BY <1>2, <1>4, <1>6, <1>8 DEF NumbersAreGivenOnce
  <2>4. \A i, j \in DOMAIN y.ops : y.ops[i].id = y.ops[j].id => i = j
    BY <1>5, <1>8, <2>3 DEF NumbersAreGivenOnce
  <2>5. \A i \in DOMAIN x.audit : x.audit[i].seq # o.id
    BY <1>2, <1>4, <1>6, <1>8 DEF NumbersAreGivenOnce
  <2>6. \A i \in DOMAIN y.ops, j \in DOMAIN y.audit : y.ops[i].id # y.audit[j].seq
    BY <1>3, <1>5, <1>8, <2>5 DEF NumbersAreGivenOnce
  <2> QED
    BY <1>3, <1>8, <2>1, <2>2, <2>4, <2>6 DEF NumbersAreGivenOnce
<1>10. AppliedAreDone(y)
  <2>1. \A i \in DOMAIN x.applied : x.applied[i] # o.id
    BY <1>2, <1>4, <1>6, <1>8 DEF AppliedAreDone
  <2>2. \A i \in DOMAIN y.applied : y.applied[i] <= y.seq
    BY <1>2, <1>3, <1>6, <1>8 DEF AppliedAreDone
  <2>3. o.end \notin {"ok", "error"} /\ (o.done <=> o.end # None)
    BY <1>4 DEF G!GcpAssumption
  <2> QED
    BY <1>3, <1>5, <1>8, <2>1, <2>2, <2>3 DEF AppliedAreDone
<1>11. NoneIsDue(x) => NoneIsDue(y)
  BY <1>2, <1>3, <1>4, <1>5 DEF NoneIsDue, G!Due
<1> QED
  BY <1>1, <1>7, <1>9, <1>10, <1>11 DEF GcpWorld, r

(* A log entry takes the next number. *)
LEMMA AuditWorld ==
  ASSUME NEW r, NEW m \in Methods, r.status \in Nat, GcpWorld(r.w)
  PROVE  LET y == G!Audited(r, m) IN GcpWorld(y) /\ (NoneIsDue(r.w) => NoneIsDue(y))
<1> DEFINE x == r.w
           o == [seq |-> x.seq + 1, m |-> m.id, status |-> r.status]
           k == Len(x.audit) + 1
           y == [x EXCEPT !.seq = @ + 1, !.audit = Append(@, o)]
<1>1. G!Audited(r, m) = y
  BY DEF G!Audited
<1>2. /\ DOMAIN x = GcpFields /\ x.audit \in Seq(AuditRecords) /\ x.seq \in Nat
  BY DEF GcpWorld, GcpTypes
<1>3. /\ DOMAIN y = GcpFields /\ y.ops = x.ops /\ y.clock = x.clock /\ y.seq = x.seq + 1
      /\ y.applied = x.applied /\ y.audit = Append(x.audit, o)
  <2> HIDE DEF x
  <2> QED
    BY <1>2 DEF GcpFields
<1>4. o \in AuditRecords /\ o.seq = x.seq + 1
  BY <1>2 DEF AuditRecords
<1>12. GcpWorld(x)
  OBVIOUS
<1> HIDE DEF o, y, x
<1>5. /\ y.audit \in Seq(AuditRecords) /\ DOMAIN y.audit = DOMAIN x.audit \cup {k}
      /\ y.audit[k] = o /\ k \notin DOMAIN x.audit
      /\ \A j \in DOMAIN x.audit : y.audit[j] = x.audit[j]
  BY <1>2, <1>3, <1>4
<1> HIDE DEF k
<1>6. /\ \A j \in DOMAIN x.ops : x.ops[j].id \in Nat
      /\ \A j \in DOMAIN x.audit : x.audit[j].seq \in Nat
      /\ \A j \in DOMAIN x.applied : x.applied[j] \in Nat
  BY <1>12, WorldElements DEF GcpWorld
<1>7. GcpTypes(y)
  BY <1>12, <1>2, <1>3, <1>5 DEF GcpWorld, GcpTypes
<1>8. NumbersAreGivenOnce(x) /\ AppliedAreDone(x)
  BY <1>12 DEF GcpWorld
<1>9. NumbersAreGivenOnce(y)
  <2>1. \A i \in DOMAIN y.audit : y.audit[i].seq <= y.seq
    BY <1>2, <1>3, <1>4, <1>5, <1>6, <1>8 DEF NumbersAreGivenOnce
  <2>2. \A i \in DOMAIN y.ops : y.ops[i].id <= y.seq
    BY <1>2, <1>3, <1>6, <1>8 DEF NumbersAreGivenOnce
  <2>3. \A i \in DOMAIN x.audit : x.audit[i].seq # o.seq
    BY <1>2, <1>4, <1>6, <1>8 DEF NumbersAreGivenOnce
  <2>4. \A i, j \in DOMAIN y.audit : y.audit[i].seq = y.audit[j].seq => i = j
    BY <1>5, <1>8, <2>3 DEF NumbersAreGivenOnce
  <2>5. \A i \in DOMAIN x.ops : x.ops[i].id # o.seq
    BY <1>2, <1>4, <1>6, <1>8 DEF NumbersAreGivenOnce
  <2>6. \A i \in DOMAIN y.ops, j \in DOMAIN y.audit : y.ops[i].id # y.audit[j].seq
    BY <1>3, <1>5, <1>8, <2>5 DEF NumbersAreGivenOnce
  <2> QED
    BY <1>3, <1>8, <2>1, <2>2, <2>4, <2>6 DEF NumbersAreGivenOnce
<1>10. AppliedAreDone(y)
  BY <1>2, <1>3, <1>6, <1>8 DEF AppliedAreDone
<1>11. NoneIsDue(x) => NoneIsDue(y)
  BY <1>3 DEF NoneIsDue, G!Due
<1> QED
  BY <1>1, <1>7, <1>9, <1>10, <1>11 DEF GcpWorld, x

(* Charging a quota touches nothing else. *)
LEMMA ChargedFrame ==
  ASSUME NEW x, NEW m, DOMAIN x = GcpFields
  PROVE  LET y == G!Charged(x, m) IN
         /\ DOMAIN y = GcpFields /\ y.ops = x.ops /\ y.audit = x.audit /\ y.applied = x.applied
         /\ y.clock = x.clock /\ y.seq = x.seq
         /\ G!ReadOnly(m) => y = x
  BY DEF G!Charged, GcpFields

(* Every request leaves a world: it is refused, starts an operation or     *)
(* takes effect at once.                                                   *)
LEMMA ExecuteWorld ==
  ASSUME G!GcpAssumption, NEW x, NEW m \in Methods, NEW n, NEW v \in {1}, GcpWorld(x),
         m.long => n \in Names \cup Apis \cup {None}
  PROVE  LET r == G!Execute(x, m, n, v) IN
         /\ GcpWorld(r.w) /\ (NoneIsDue(x) => NoneIsDue(r.w)) /\ r.status \in Nat
<1> DEFINE r == G!Execute(x, m, n, v)
           y == G!Charged(x, m)
<1>1. /\ GcpWorld(y) /\ (NoneIsDue(x) => NoneIsDue(y)) /\ DOMAIN y = GcpFields /\ y.seq \in Nat
  <2>1. DOMAIN x = GcpFields /\ x.seq \in Nat
    BY DEF GcpWorld, GcpTypes
  <2>2. /\ DOMAIN y = GcpFields /\ y.ops = x.ops /\ y.audit = x.audit /\ y.applied = x.applied
        /\ y.clock = x.clock /\ y.seq = x.seq
    BY <2>1, ChargedFrame
  <2> HIDE DEF y
  <2> QED
    BY <2>1, <2>2, WorldFrame
<1>2. \/ r.w = x /\ r.status \in {0, 200, 403, 429}
      \/ m.long /\ r = G!StartOperation(y, m, n, v)
      \/ r = G!Apply(y, m, n, v)
  BY DEF G!Execute, G!Say
<1> HIDE DEF r, y
<1>3. CASE r.w = x /\ r.status \in {0, 200, 403, 429}
  BY <1>3 DEF r
<1>4. CASE m.long /\ r = G!StartOperation(y, m, n, v)
  BY <1>1, <1>4, StartWorld DEF r
<1>5. CASE r = G!Apply(y, m, n, v)
  <2>1. CASE m.effect = "OPERATION_CANCEL"
    <3>1. r = G!OperationCancel(y, n)
      BY <1>5, <2>1 DEF G!Apply
    <3> QED
      BY <1>1, <3>1, CancelWorld DEF r
  <2>2. CASE m.effect = "OPERATION_DELETE"
    <3>1. r = G!OperationDelete(y, n)
      BY <1>5, <2>2 DEF G!Apply
    <3> QED
      BY <1>1, <3>1, DeleteWorld DEF r
  <2>3. CASE m.effect \notin {"OPERATION_CANCEL", "OPERATION_DELETE"}
    <3>1. /\ DOMAIN r.w = GcpFields
          /\ r.w.ops = y.ops /\ r.w.audit = y.audit /\ r.w.applied = y.applied
          /\ r.w.clock = y.clock /\ r.w.seq \in Nat /\ r.w.seq >= y.seq
          /\ r.status \in {0, 200, 404, 409}
      BY <1>1, <1>5, <2>3, ApplyFrame
    <3> QED
      BY <1>1, <3>1, WorldFrame DEF r
  <2> QED
    BY <2>1, <2>2, <2>3
<1> QED
  BY <1>2, <1>3, <1>4, <1>5

(* A request keeps the world in order. *)
LEMMA RequestKeepsGcp ==
  ASSUME G!GcpAssumption, GcpInvariant, NEW cap, NEW m \in Methods, NEW n, NEW v \in {1},
         G!Request(cap, m, n, v)
  PROVE  GcpInvariant'
<1> DEFINE r == G!Execute(w, m, n, v)
<1>1. /\ n \in G!Targets(m) /\ w' = IF r.status = 0 THEN r.w ELSE G!Audited(r, m)
      /\ saved' = saved
  BY DEF G!Request
<1>2. m.long => n \in Names \cup Apis \cup {None}
  <2>1. m.long => m.effect \in G!LongEffects
    BY DEF G!GcpAssumption
  <2> QED
    BY <1>1, <2>1 DEF G!Targets, G!LongEffects
<1>3. GcpWorld(w)
  BY DEF GcpInvariant
<1>4. GcpWorld(r.w) /\ (NoneIsDue(w) => NoneIsDue(r.w)) /\ r.status \in Nat
  BY <1>2, <1>3, ExecuteWorld
<1> HIDE DEF r
<1>5. GcpWorld(G!Audited(r, m)) /\ (NoneIsDue(r.w) => NoneIsDue(G!Audited(r, m)))
  BY <1>4, AuditWorld
<1>6. GcpWorld(w') /\ (NoneIsDue(w) => NoneIsDue(w'))
  BY <1>1, <1>4, <1>5
<1> QED
  BY <1>1, <1>6 DEF GcpInvariant, CustomIsDirect

-----------------------------------------------------------------------------
(* The GCP simulator: the clock completes what is due *)

(* f is the course of the first n turns over the operations of x. *)
CompletesTo(f, n, x) ==
  f = [i \in 0..n |-> IF i = 0 THEN [w |-> x, raised |-> FALSE] ELSE G!Completed(f[i - 1], i)]

(* What CompletesTo says of each turn. *)
LEMMA CompletesValues ==
  ASSUME NEW f, NEW n \in Nat, NEW x, CompletesTo(f, n, x)
  PROVE  /\ f[0] = [w |-> x, raised |-> FALSE]
         /\ \A i \in 1..n : f[i] = G!Completed(f[i - 1], i)
<1>1. f[0] = [w |-> x, raised |-> FALSE]
  BY DEF CompletesTo
<1>2. ASSUME NEW i \in 1..n PROVE f[i] = G!Completed(f[i - 1], i)
  <2>1. i \in 0..n /\ i # 0
    OBVIOUS
  <2> DEFINE b == [w |-> x, raised |-> FALSE]
  <2>2. f[i] = IF i = 0 THEN b ELSE G!Completed(f[i - 1], i)
    BY <2>1 DEF CompletesTo
  <2> HIDE DEF b
  <2> QED
    BY <2>1, <2>2
<1> QED
  BY <1>1, <1>2

(* A function with these values is such a course. *)
LEMMA CompletesFromValues ==
  ASSUME NEW f, NEW n \in Nat, NEW x, f = [i \in 0..n |-> f[i]],
         f[0] = [w |-> x, raised |-> FALSE], \A i \in 1..n : f[i] = G!Completed(f[i - 1], i)
  PROVE  CompletesTo(f, n, x)
<1> DEFINE g == [i \in 0..n |-> IF i = 0 THEN [w |-> x, raised |-> FALSE]
                               ELSE G!Completed(f[i - 1], i)]
<1>1. \A i \in 0..n : f[i] = g[i]
  <2> SUFFICES ASSUME NEW i \in 0..n
               PROVE  f[i] = g[i]
    OBVIOUS
  <2>1. i = 0 \/ i \in 1..n
    OBVIOUS
  <2> QED
    BY <2>1
<1>2. f = g
  BY <1>1
<1> QED
  BY <1>2 DEF CompletesTo

(* There is a course for every number of turns. *)
LEMMA CompletesExists ==
  ASSUME NEW x
  PROVE  \A n \in Nat : \E f : CompletesTo(f, n, x)
<1> DEFINE X == {n \in Nat : \E f : CompletesTo(f, n, x)}
<1>1. 0 \in X
  <2> DEFINE f == [i \in 0..0 |-> [w |-> x, raised |-> FALSE]]
  <2>1. /\ f = [i \in 0..0 |-> f[i]] /\ f[0] = [w |-> x, raised |-> FALSE]
        /\ \A i \in 1..0 : f[i] = G!Completed(f[i - 1], i)
    OBVIOUS
  <2> HIDE DEF f
  <2>2. CompletesTo(f, 0, x)
    BY <2>1, CompletesFromValues
  <2> QED
    BY <2>2
<1>2. ASSUME NEW n \in Nat, n \in X
      PROVE  n + 1 \in X
  <2>1. PICK f : CompletesTo(f, n, x)
    BY <1>2
  <2> DEFINE g == [i \in 0..(n + 1) |-> IF i = n + 1 THEN G!Completed(f[n], n + 1) ELSE f[i]]
  <2>2. /\ f[0] = [w |-> x, raised |-> FALSE]
        /\ \A i \in 1..n : f[i] = G!Completed(f[i - 1], i)
    BY <2>1, CompletesValues
  <2>3. g = [i \in 0..(n + 1) |-> g[i]] /\ \A i \in 0..n : g[i] = f[i]
    OBVIOUS
  <2>4. g[n + 1] = G!Completed(f[n], n + 1)
    OBVIOUS
  <2> HIDE DEF g
  <2>5. \A i \in 1..(n + 1) : g[i] = G!Completed(g[i - 1], i)
    <3> SUFFICES ASSUME NEW i \in 1..(n + 1)
                 PROVE  g[i] = G!Completed(g[i - 1], i)
      OBVIOUS
    <3>1. CASE i = n + 1
      <4>1. i - 1 = n /\ g[n] = f[n]
        BY <2>3, <3>1
      <4> QED
        BY <2>4, <3>1, <4>1
    <3>2. CASE i \in 1..n
      <4>1. i - 1 \in 0..n /\ i \in 0..n
        BY <3>2
      <4> QED
        BY <2>2, <2>3, <3>2, <4>1
    <3> QED
      BY <3>1, <3>2
  <2>6. g[0] = [w |-> x, raised |-> FALSE] /\ n + 1 \in Nat
    BY <2>2, <2>3
  <2>7. CompletesTo(g, n + 1, x)
    BY <2>3, <2>5, <2>6, CompletesFromValues
  <2> QED
    BY <2>7
<1>3. \A n \in Nat : n \in X => n + 1 \in X
  BY <1>2
<1> HIDE DEF X
<1>4. Nat \subseteq X
  BY <1>1, <1>3, NatSets
<1> QED
  BY <1>4 DEF X

(* After i turns: a world of the same operations, of which the first i are *)
(* no longer due, unless a custom method raised.                           *)
TurnedOver(s, x, i) ==
  /\ DOMAIN s = {"w", "raised"} /\ s.raised \in BOOLEAN
  /\ GcpWorld(s.w) /\ DOMAIN s.w.ops = DOMAIN x.ops
  /\ CustomIsDirect => ~s.raised
  /\ ~s.raised => \A j \in 1..i : ~G!Due(s.w, j)

(* A turn applies the effect of an operation that is due and ends it. *)
LEMMA TurnCompletes ==
  ASSUME G!GcpAssumption, NEW s, NEW x, NEW i \in DOMAIN x.ops, DOMAIN x.ops = 1..Len(x.ops),
         Len(x.ops) \in Nat, TurnedOver(s, x, i - 1)
  PROVE  TurnedOver(G!Completed(s, i), x, i)
<1>1. CASE s.raised
  BY <1>1 DEF G!Completed, TurnedOver
<1>2. CASE ~s.raised /\ ~G!Due(s.w, i)
  <2>1. G!Completed(s, i) = s
    BY <1>2 DEF G!Completed
  <2>2. \A j \in 1..i : ~G!Due(s.w, j)
    BY <1>2 DEF TurnedOver
  <2> QED
    BY <2>1, <2>2 DEF TurnedOver
<1>3. CASE ~s.raised /\ G!Due(s.w, i)
  <2> DEFINE u == s.w
             o == u.ops[i]
             r == G!Apply(u, o.m, o.n, o.v)
             end == IF r.status >= 400 THEN "error" ELSE "ok"
             y == [r.w EXCEPT !.ops[i].done = TRUE, !.ops[i].end = end,
                              !.applied = Append(@, o.id)]
  <2>1. G!Completed(s, i) = IF r.status = 0 THEN [s EXCEPT !.raised = TRUE]
                            ELSE [s EXCEPT !.w = y]
    BY <1>3 DEF G!Completed
  <2>2. GcpWorld(u) /\ i \in DOMAIN u.ops /\ ~o.done /\ DOMAIN u.ops = DOMAIN x.ops
    BY <1>3 DEF TurnedOver, G!Due
  <2> HIDE DEF u
  <2>3. DOMAIN u = GcpFields /\ u.seq \in Nat /\ o \in OpRecords /\ o.m \in LongMethods
    BY <2>2, WorldElements DEF GcpWorld, GcpTypes
  <2>4. o.m \in Methods /\ o.m.long /\ o.m.effect \in G!LongEffects
    BY <2>3 DEF LongMethods, G!GcpAssumption
  <2>5. o.m.effect \notin {"OPERATION_CANCEL", "OPERATION_DELETE"}
    BY <2>4 DEF G!LongEffects
  <2> HIDE DEF o
  <2>6. /\ DOMAIN r.w = GcpFields
        /\ r.w.ops = u.ops /\ r.w.audit = u.audit /\ r.w.applied = u.applied
        /\ r.w.clock = u.clock /\ r.w.seq \in Nat /\ r.w.seq >= u.seq
        /\ r.status \in {0, 200, 404, 409}
        /\ o.m.effect \in G!LongEffects \ {"CUSTOM"} => r.status # 0
    BY <2>3, <2>5, ApplyFrame
  <2> HIDE DEF r
  <2>7. GcpWorld(r.w) /\ (\A j \in DOMAIN u.ops : ~G!Due(u, j) => ~G!Due(r.w, j))
    BY <2>2, <2>6, WorldFrame DEF G!Due
  <2>8. CASE r.status = 0
    <3>1. ~CustomIsDirect
      BY <2>4, <2>6, <2>8 DEF CustomIsDirect
    <3> QED
      BY <2>1, <2>8, <3>1 DEF TurnedOver
  <2>9. CASE r.status # 0
    <3>1. /\ DOMAIN y = GcpFields /\ y.audit = r.w.audit /\ y.clock = r.w.clock
          /\ y.seq = r.w.seq /\ y.applied = Append(r.w.applied, o.id)
      <4> HIDE DEF end
      <4> QED
        BY <2>6 DEF GcpFields
    <3>2. y.ops = [r.w.ops EXCEPT ![i] = [r.w.ops[i] EXCEPT !.done = TRUE, !.end = end]]
      <4> HIDE DEF end
      <4> QED
        BY <2>2, <2>6 DEF GcpFields
    <3>3. end \in {"ok", "error"} /\ o.id = r.w.ops[i].id /\ i \in DOMAIN r.w.ops
          /\ ~r.w.ops[i].done /\ None \notin {"ok", "error", "cancelled"}
      BY <2>2, <2>6 DEF o, G!GcpAssumption
    <3> HIDE DEF y, end
    <3>4. /\ GcpWorld(y) /\ DOMAIN y.ops = DOMAIN r.w.ops /\ ~G!Due(y, i)
          /\ \A j \in DOMAIN r.w.ops : ~G!Due(r.w, j) => ~G!Due(y, j)
      BY <2>7, <3>1, <3>2, <3>3, EndWorld
    <3>5. \A j \in 1..i - 1 : j \in DOMAIN u.ops /\ ~G!Due(u, j)
      BY <1>3, <2>2 DEF TurnedOver, u
    <3>6. \A j \in 1..i : ~G!Due(y, j)
      BY <2>6, <2>7, <3>4, <3>5
    <3>7. G!Completed(s, i) = [s EXCEPT !.w = y]
      BY <2>1, <2>9
    <3>8. DOMAIN s = {"w", "raised"} /\ ~s.raised
      BY <1>3 DEF TurnedOver
    <3> QED
      BY <2>2, <2>6, <3>4, <3>6, <3>7, <3>8 DEF TurnedOver
  <2> QED
    BY <2>8, <2>9
<1> QED
  BY <1>1, <1>2, <1>3 DEF TurnedOver

(* So when all turns are over nothing is due. *)
LEMMA CompleteDueWorld ==
  ASSUME G!GcpAssumption, NEW x, GcpWorld(x)
  PROVE  GcpWorld(G!CompleteDue(x)) /\ (CustomIsDirect => NoneIsDue(G!CompleteDue(x)))
<1> DEFINE n == Len(x.ops)
           f == CHOOSE g : CompletesTo(g, n, x)
<1>1. n \in Nat /\ DOMAIN x.ops = 1..n
  BY WorldElements DEF GcpWorld
<1>2. CompletesTo(f, n, x)
  BY <1>1, CompletesExists
<1>3. G!CompleteDue(x) = f[n].w
  BY DEF G!CompleteDue, CompletesTo
<1> HIDE DEF f
<1>4. /\ f[0] = [w |-> x, raised |-> FALSE]
      /\ \A i \in 1..n : f[i] = G!Completed(f[i - 1], i)
  BY <1>1, <1>2, CompletesValues
<1> DEFINE X == {i \in Nat : i <= n => TurnedOver(f[i], x, i)}
<1>5. 0 \in X
  <2>1. f[0].w = x /\ f[0].raised = FALSE /\ DOMAIN f[0] = {"w", "raised"}
    BY <1>4
  <2> HIDE DEF n
  <2> DEFINE b == f[0]
  <2>2. \A j \in 1..0 : ~G!Due(b.w, j)
    OBVIOUS
  <2>3. GcpWorld(b.w) /\ DOMAIN b.w.ops = DOMAIN x.ops
    BY <2>1
  <2>4. b.raised \in BOOLEAN /\ ~b.raised /\ DOMAIN b = {"w", "raised"}
    BY <2>1
  <2> HIDE DEF b
  <2>5. TurnedOver(b, x, 0)
    BY <2>2, <2>3, <2>4 DEF TurnedOver
  <2> QED
    BY <2>5 DEF b
<1>6. ASSUME NEW i \in Nat, i \in X
      PROVE  i + 1 \in X
  <2> SUFFICES ASSUME i + 1 <= n
               PROVE  TurnedOver(f[i + 1], x, i + 1)
    OBVIOUS
  <2>1. TurnedOver(f[i], x, i) /\ i + 1 \in 1..n /\ (i + 1) - 1 = i
    BY <1>1, <1>6
  <2>2. f[i + 1] = G!Completed(f[i], i + 1)
    BY <1>4, <2>1
  <2> QED
    BY <1>1, <2>1, <2>2, TurnCompletes
<1>7. \A i \in Nat : i \in X => i + 1 \in X
  BY <1>6
<1> HIDE DEF X
<1>8. Nat \subseteq X
  BY <1>5, <1>7, NatSets
<1>9. TurnedOver(f[n], x, n)
  BY <1>1, <1>8 DEF X
<1> QED
  BY <1>1, <1>3, <1>9 DEF TurnedOver, NoneIsDue

(* The clock moves, and what was due by then is done. *)
LEMMA AdvanceKeepsGcp ==
  ASSUME G!GcpAssumption, GcpInvariant, NEW t \in 1..2, G!AdvanceClock(t)
  PROVE  GcpInvariant'
<1> DEFINE x == [w EXCEPT !.clock = @ + t]
<1>1. w' = G!CompleteDue(x) /\ saved' = saved
  BY DEF G!AdvanceClock
<1>2. GcpWorld(w)
  BY DEF GcpInvariant
<1>3. /\ DOMAIN x = GcpFields /\ x.ops = w.ops /\ x.audit = w.audit /\ x.applied = w.applied
      /\ x.seq = w.seq /\ x.clock \in Nat
  BY <1>2 DEF GcpWorld, GcpTypes, GcpFields
<1> HIDE DEF x
<1>4. GcpWorld(x)
  BY <1>2, <1>3 DEF GcpWorld, GcpTypes, NumbersAreGivenOnce, AppliedAreDone
<1>5. GcpWorld(w') /\ (CustomIsDirect => NoneIsDue(w'))
  BY <1>1, <1>4, CompleteDueWorld
<1> QED
  BY <1>1, <1>5 DEF GcpInvariant, CustomIsDirect

(* Every step keeps the world and its checkpoint in order. *)
LEMMA GcpStep ==
  ASSUME G!GcpAssumption, GcpInvariant, [G!Next]_G!vars
  PROVE  GcpInvariant'
<1>1. ASSUME NEW cap, NEW m \in Methods, NEW v \in {1}, NEW n, G!Request(cap, m, n, v)
      PROVE  GcpInvariant'
  BY <1>1, RequestKeepsGcp
<1>2. ASSUME NEW t \in 1..2, G!AdvanceClock(t)
      PROVE  GcpInvariant'
  BY <1>2, AdvanceKeepsGcp
<1>3. CASE G!Checkpoint
  BY <1>3 DEF G!Checkpoint, GcpInvariant, CustomIsDirect
<1>4. CASE G!Restore
  BY <1>4 DEF G!Restore, GcpInvariant, CustomIsDirect
<1>5. ASSUME NEW size, G!ReadPage(size)
      PROVE  GcpInvariant'
  BY <1>5 DEF G!ReadPage, GcpInvariant, CustomIsDirect
<1>6. CASE UNCHANGED G!vars
  BY <1>6 DEF G!vars, GcpInvariant, CustomIsDirect
<1> QED
  BY <1>1, <1>2, <1>3, <1>4, <1>5, <1>6 DEF G!Next

(* What the invariant says of operations. *)
LEMMA GcpClaims ==
  ASSUME GcpInvariant
  PROVE  /\ G!OperationsApplyOnce
         /\ CustomIsDirect => G!NothingDueIsPending
<1>1. GcpWorld(w)
  BY DEF GcpInvariant
<1>2. G!OperationsApplyOnce
  BY <1>1 DEF GcpWorld, AppliedAreDone, G!OperationsApplyOnce, G!IsInjective, G!ToSet
<1>3. CustomIsDirect => G!NothingDueIsPending
  BY DEF GcpInvariant, NoneIsDue, G!NothingDueIsPending
<1> QED
  BY <1>2, <1>3

(* Whatever is asked, cancelled, deleted, restored or completed, an        *)
(* operation's effect is applied once, and none is overdue unless a custom *)
(* method without a fixture stops the loop.                                *)
THEOREM GcpAppliesOnce ==
  ASSUME G!GcpAssumption
  PROVE  G!Spec => []G!OperationsApplyOnce /\ [](CustomIsDirect => G!NothingDueIsPending)
<1>1. G!Init => GcpInvariant
  BY GcpInit
<1>2. GcpInvariant /\ [G!Next]_G!vars => GcpInvariant'
  BY GcpStep
<1>3. GcpInvariant => G!OperationsApplyOnce /\ (CustomIsDirect => G!NothingDueIsPending)
  BY GcpClaims
<1> QED
  BY <1>1, <1>2, <1>3, PTL DEF G!Spec

(* No number is given to two operations or log entries. *)
THEOREM GcpNumbers ==
  ASSUME G!GcpAssumption
  PROVE  G!Spec => []G!NumbersAreFresh
<1>1. G!Init => GcpInvariant
  BY GcpInit
<1>2. GcpInvariant /\ [G!Next]_G!vars => GcpInvariant'
  BY GcpStep
<1>3. ASSUME GcpInvariant PROVE G!NumbersAreFresh
  <2>1. GcpWorld(w) /\ NumbersAreGivenOnce(w)
    BY <1>3 DEF GcpInvariant, GcpWorld
  <2>2. DOMAIN w.ops = 1..Len(w.ops) /\ Len(w.ops) \in Nat
    BY <2>1, WorldElements DEF GcpWorld
  <2>3. \A k \in G!Numbers : k <= w.seq
    BY <2>1 DEF NumbersAreGivenOnce, G!Numbers, G!OpIds
  <2>4. G!OpIds \cap {w.audit[i].seq : i \in DOMAIN w.audit} = {}
    BY <2>1 DEF NumbersAreGivenOnce, G!OpIds
  <2>5. G!IsInjective([i \in DOMAIN w.audit |-> w.audit[i].seq])
    BY <2>1 DEF NumbersAreGivenOnce, G!IsInjective
  <2>6. Cardinality(G!OpIds) = Len(w.ops)
    <3> DEFINE g == [i \in 1..Len(w.ops) |-> w.ops[i].id]
    <3>1. g \in Bijection(1..Len(w.ops), G!OpIds)
      <4>1. g \in [1..Len(w.ops) -> G!OpIds]
        BY <2>2 DEF G!OpIds
      <4>2. \A a, b \in 1..Len(w.ops) : g[a] = g[b] => a = b
        BY <2>1, <2>2 DEF NumbersAreGivenOnce
      <4>3. \A k \in G!OpIds : \E a \in 1..Len(w.ops) : g[a] = k
        BY <2>2 DEF G!OpIds
      <4> QED
        BY <4>1, <4>2, <4>3 DEF Bijection, Injection, Surjection, IsInjective
    <3> HIDE DEF g
    <3>2. ExistsBijection(1..Len(w.ops), G!OpIds)
      BY <3>1 DEF ExistsBijection
    <3> QED
      BY <2>2, <3>2, FS_CountingElements
  <2>7. G!Cardinality(G!OpIds) = Len(w.ops)
    BY <2>6 DEF G!Cardinality, Cardinality
  <2> QED
    BY <2>3, <2>4, <2>5, <2>7 DEF G!NumbersAreFresh
<1> QED
  BY <1>1, <1>2, <1>3, PTL DEF G!Spec

(* A query takes no effect. *)
LEMMA QueriesRead ==
  ASSUME G!GcpAssumption, GcpInvariant
  PROVE  G!QueryOnlyReads
<1> SUFFICES ASSUME NEW m \in Methods, NEW n \in G!Targets(m), G!Request("query", m, n, 1)
             PROVE  /\ w'.res = w.res /\ w'.iam = w.iam /\ w'.on = w.on
                    /\ w'.ops = w.ops /\ w'.quota = w.quota
  BY DEF G!QueryOnlyReads
<1> DEFINE r == G!Execute(w, m, n, 1)
<1>1. G!ReadOnly(m) /\ w' = IF r.status = 0 THEN r.w ELSE G!Audited(r, m)
  BY DEF G!Request, G!Admits
<1>2. DOMAIN w = GcpFields /\ w.seq \in Nat
  BY DEF GcpInvariant, GcpWorld, GcpTypes
<1>3. r.w = w
  <2>1. G!Charged(w, m) = w
    BY <1>1 DEF G!Charged
  <2>2. ~m.long /\ m.effect \notin {"OPERATION_CANCEL", "OPERATION_DELETE"}
    BY <1>1 DEF G!ReadOnly, G!ReadEffects, G!LongEffects, G!GcpAssumption
  <2>3. r.w = w \/ r = G!Apply(w, m, n, 1)
    BY <2>1, <2>2 DEF G!Execute, G!Say
  <2> HIDE DEF r
  <2> QED
    BY <1>1, <1>2, <2>2, <2>3, ApplyFrame
<1> HIDE DEF r
<1>4. /\ G!Audited(r, m).res = w.res /\ G!Audited(r, m).iam = w.iam
      /\ G!Audited(r, m).on = w.on /\ G!Audited(r, m).ops = w.ops
      /\ G!Audited(r, m).quota = w.quota
  BY <1>2, <1>3 DEF G!Audited, GcpFields
<1> QED
  BY <1>1, <1>3, <1>4

(* The query capability changes nothing but the log. *)
THEOREM GcpQueries ==
  ASSUME G!GcpAssumption
  PROVE  G!Spec => [][G!QueryOnlyReads]_G!vars
<1>1. G!Init => GcpInvariant
  BY GcpInit
<1>2. GcpInvariant /\ [G!Next]_G!vars => GcpInvariant'
  BY GcpStep
<1>3. GcpInvariant => G!QueryOnlyReads
  BY QueriesRead
<1> QED
  BY <1>1, <1>2, <1>3, PTL DEF G!Spec
=============================================================================
