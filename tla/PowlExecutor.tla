---------------------------- MODULE PowlExecutor ----------------------------
(***************************************************************************)
(* A caller drives the reference traversal of src/gymact/powl/executor.py: *)
(* it picks any enabled leaf, fires it and records the choice.  Replay of  *)
(* the recorded choices, and the token replay of an observed label         *)
(* sequence (conformance.py), are the operators the record is judged by.   *)
(***************************************************************************)
EXTENDS Powl

CONSTANTS Models,                        \* the trees a caller may hand in
          MaxFires, MaxVisits, MaxStates \* bounds.ExecutionBound

VARIABLES model, marking, choices
vars == <<model, marking, choices>>

Bound == [fires |-> MaxFires, visits |-> MaxVisits, states |-> MaxStates]
Live == EnabledPaths(model, marking, Bound)

Init == /\ model \in {m \in Models : ValidModel(m)}
        /\ marking = InitialMarking(model)
        /\ choices = <<>>

\* a ChoiceRecord holds the full enabled set alongside the pick
Pick == \E path \in Live :
          /\ FireRefusal(model, marking, path, Bound) = ""
          /\ marking' = Fire(model, marking, path)
          /\ choices' = Append(choices, [enabled |-> Live, chosen |-> path])
          /\ UNCHANGED model

Next == Pick
Spec == Init /\ [][Next]_vars

(***************************************************************************)
(* replay: re-derive every marking and re-check every recorded choice.     *)
(***************************************************************************)
PathBefore(p, q) == \/ IsPrefix(p, q) /\ p # q
                    \/ \E i \in 1 .. Len(p) :
                         /\ i <= Len(q) /\ p[i] < q[i]
                         /\ \A j \in 1 .. i-1 : p[j] = q[j]
Smallest(paths) == CHOOSE p \in paths : \A q \in paths \ {p} : PathBefore(p, q)
Diverged == [diverged |-> TRUE]
RECURSIVE ReplayFrom(_, _, _, _)
Agrees(record, live) == record.chosen \in live /\ record.enabled = live
(* Mutant: a pick that is not enabled is repaired by another. *)
ReplayFrom_Repick(m, mk, records, b) ==
  LET live == EnabledPaths(m, mk, b)
      pick == IF records # <<>> /\ records[1].chosen \in live THEN records[1].chosen
              ELSE Smallest(live)
  IN  IF records = <<>> \/ live = {} THEN mk
      ELSE ReplayFrom(m, Fire(m, mk, pick), Tail(records), b)
ReplayFrom(m, mk, records, b) ==
  CASE records = <<>> -> mk
    [] records # <<>> /\ ~ Agrees(records[1], EnabledPaths(m, mk, b)) -> Diverged
    [] OTHER -> ReplayFrom(m, Fire(m, mk, records[1].chosen), Tail(records), b)
Replay(records) == ReplayFrom(model, InitialMarking(model), records, Bound)

(***************************************************************************)
(* check_ocel_conformance: walk the observed labels, firing the smallest   *)
(* enabled path that carries each.                                         *)
(***************************************************************************)
RECURSIVE Conforms(_, _, _, _)
(* Mutant: the observed sequence need not end where the model ends. *)
Conforms_Prefix(m, mk, labels, b) ==
  LET candidates == {p \in EnabledPaths(m, mk, b) : labels # <<>> /\ m[p].label = labels[1]}
  IN  IF labels = <<>> THEN TRUE
      ELSE /\ candidates # {}
           /\ Conforms(m, Fire(m, mk, Smallest(candidates)), Tail(labels), b)
Conforms(m, mk, labels, b) ==
  LET candidates == {p \in EnabledPaths(m, mk, b) : labels # <<>> /\ m[p].label = labels[1]}
  IN  IF labels = <<>> THEN IsFinal(m, mk)
      ELSE /\ candidates # {}
           /\ Conforms(m, Fire(m, mk, Smallest(candidates)), Tail(labels), b)

(***************************************************************************)
(* _real_fire_order of powl_bridge.py: the smallest enabled leaf that has  *)
(* not fired yet, again and again; a path through a choice graph, or no    *)
(* such leaf before the end, is a refusal.                                 *)
(***************************************************************************)
Refused == <<"refused">>
ThroughChoice(m, path) == \E d \in 0 .. Len(path) - 1 : m[Prefix(path, d)].kind = "choice"
RECURSIVE BridgeOrder(_, _, _)
(* Mutant: the leaves are taken in path order. *)
BridgeOrder_ByPath(m, mk, order) ==
  IF \E p \in Leaves(m) : ThroughChoice(m, p) THEN Refused
  ELSE SetToSortSeq(Leaves(m), PathBefore)
BridgeOrder(m, mk, order) ==
  LET live == EnabledPaths(m, mk, Bound) \ Range(order)
  IN  IF IsFinal(m, mk) THEN order
      ELSE IF live = {} THEN Refused
      ELSE IF ThroughChoice(m, Smallest(live)) THEN Refused
      ELSE BridgeOrder(m, Fire(m, mk, Smallest(live)), Append(order, Smallest(live)))

(***************************************************************************)
(* The language of a tree, by its words of leaf paths and with no marking: *)
(* the reference the traversal is compared with.  A walk of a choice graph *)
(* enters no child more than MaxVisits times.                              *)
(***************************************************************************)
Concat(A, B) == {a \o b : a \in A, b \in B}
RECURSIVE Interleavings(_, _)
Interleavings(order, rest) ==
  LET ready == {i \in DOMAIN rest : /\ rest[i] # <<>>
                                    /\ \A e \in order : e[2] = i => rest[e[1]] = <<>>}
  IN  IF \A i \in DOMAIN rest : rest[i] = <<>> THEN {<<>>}
      ELSE UNION {Concat({<<rest[i][1]>>}, Interleavings(order, [rest EXCEPT ![i] = Tail(@)])) :
                    i \in ready}
RECURSIVE Walks(_, _, _)
Walks(node, i, left) ==
  IF left[i] = 0 THEN {}
  ELSE IF i = node.end THEN {<<i>>}
  ELSE Concat({<<i>>}, UNION {Walks(node, e[2], [left EXCEPT ![i] = @ - 1]) :
                                e \in {f \in node.edges : f[1] = i}})
RECURSIVE Repeated(_, _)
Repeated(words, k) == IF k = 0 THEN {<<>>} ELSE Concat(words, Repeated(words, k - 1))
RECURSIVE Words(_, _)
RoundWords(m, p) ==
  LET child == [i \in Indices(m[p]) |-> Words(m, Append(p, i))]
  IN  IF m[p].kind = "order"
      THEN UNION {Interleavings(m[p].edges, rest) :
                    rest \in {f \in [Indices(m[p]) -> UNION {child[i] : i \in DOMAIN child}] :
                                \A i \in DOMAIN f : f[i] \in child[i]}}
      ELSE UNION {FoldLeft(LAMBDA acc, i : Concat(acc, child[i]), {<<>>}, w) :
                    w \in Walks(m[p], m[p].start, [i \in Indices(m[p]) |-> MaxVisits])}
Words(m, p) == IF m[p].kind = "leaf" THEN {<<p>>}
               ELSE UNION {Repeated(RoundWords(m, p), k) : k \in m[p].min .. m[p].max}
Language == [m \in Models |-> Words(m, <<>>)]

-----------------------------------------------------------------------------
Fired == [i \in 1 .. Len(choices) |-> choices[i].chosen]
FiredLabels == [i \in 1 .. Len(choices) |-> model[choices[i].chosen].label]

\* Markings stay inside their tree and occurrence keys never collide, also
\* when two leaves carry one label: fire folds the count of earlier
\* occurrences into each key.
TypeOK ==
  /\ model \in Models
  /\ marking.done \subseteq Leaves(model)
  /\ \A p \in Composites(model) : marking.cursor[p] \in Indices(model[p]) \cup {None}
  /\ marking.visits \in [VisitKeys(model) -> 0 .. MaxFires]
  /\ marking.rounds \in [Composites(model) -> 0 .. MaxFires]
  /\ Cardinality(marking.completed) = marking.fires
  /\ Len(choices) = marking.fires

\* enabled() offers exactly the leaves some word of the tree continues with,
\* and is_final holds exactly when the fired leaves are a word: purging,
\* round counting and cursors together neither lose nor invent behaviour.
EnabledIsTheLanguage ==
  LET possible == {w \in Language[model] : IsPrefix(Fired, w)}
  IN  /\ Live = {w[Len(Fired) + 1] : w \in {v \in possible : Len(v) > Len(Fired)}}
      /\ IsFinal(model, marking) <=> Fired \in Language[model]

\* A cyclic tree runs out of enabled leaves by its visit counts alone: the
\* fire budget is never what stops the traversal.
TerminationIsStructural == marking.fires < MaxFires

\* A non-final marking of a validated tree with nothing to fire is always
\* the work of a declared bound, never a structural deadlock.
StallsAreBounds ==
  ~ IsFinal(model, marking) /\ ~ ENABLED Pick =>
    ClassifyStall(model, marking, Bound) = "BLOCKED:BOUND_EXHAUSTED"

\* replay() reproduces the run, and a record whose pick is replaced by
\* another leaf that was enabled with it never replays to the same marking.
ReplayIsFaithful ==
  /\ Replay(choices) = marking
  /\ \A k \in 1 .. Len(choices) : \A other \in choices[k].enabled \ {choices[k].chosen} :
       Replay([choices EXCEPT ![k].chosen = other]) # marking

\* The order in which the bridge acts on a process document is a whole word
\* of its tree, or the bridge refuses; it never refuses an order of orders
\* in which everything happens once.
BridgeFollowsTheTree ==
  LET order == BridgeOrder(model, InitialMarking(model), <<>>)
  IN  IF order = Refused
      THEN \E p \in Composites(model) : model[p].kind = "choice" \/ model[p].min # 1
      ELSE order \in Language[model]

\* The conformance check accepts the labels fired so far exactly when they
\* are a whole trace of the tree.
ConformanceIsExact ==
  Conforms(model, InitialMarking(model), FiredLabels, Bound) <=> IsFinal(model, marking)
=============================================================================
