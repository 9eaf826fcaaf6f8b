-------------------------------- MODULE Powl --------------------------------
(***************************************************************************)
(* POWL 2.0 process trees and the bounded reference traversal over them    *)
(* (src/gymact/powl: algebra.py, frequency.py, validate.py, executor.py).  *)
(* Everything here is a pure operator, as it is a pure function there.     *)
(*                                                                         *)
(* A tree is a function from node paths (the sequence of 0-based child     *)
(* indices from the root, <<>> for the root) to nodes.  A leaf carries its *)
(* label; a partial order or a choice graph carries the number of its      *)
(* children, its edges between child indices and its frequency.            *)
(***************************************************************************)
EXTENDS Integers, FiniteSets, FiniteSetsExt, Sequences, SequencesExt

None == -1          \* an absent cursor
Unbounded == -1     \* frequency.max is None

\* _reachability, transitive_closure: Warshall's pass over the child indices
Closure(edges, n) ==
  FoldSet(LAMBDA k, R : R \cup {e \in (0 .. n-1) \X (0 .. n-1) :
                                  <<e[1], k>> \in R /\ <<k, e[2]>> \in R},
          edges, 0 .. n-1)
IsCyclic(edges, n) == \E i \in 0 .. n-1 : <<i, i>> \in Closure(edges, n)

\* transitive_reduction: the closure's edges no third node explains
Reduction(edges, n) ==
  LET c == Closure(edges, n)
  IN  {e \in c : ~ \E k \in (0 .. n-1) \ {e[1], e[2]} :
                     <<e[1], k>> \in c /\ <<k, e[2]>> \in c}

Leaf(label) == [kind |-> "leaf", label |-> label, n |-> 0, edges |-> {},
                closure |-> {}, start |-> 0, end |-> 0, min |-> 1, max |-> 1]
PartialOrder(n, edges, min, max) ==
  [kind |-> "order", label |-> "", n |-> n, edges |-> Reduction(edges, n),
   closure |-> Closure(edges, n), start |-> 0, end |-> 0, min |-> min, max |-> max]
ChoiceGraph(n, edges, start, end, min, max) ==
  [kind |-> "choice", label |-> "", n |-> n, edges |-> edges,
   closure |-> {}, start |-> start, end |-> end, min |-> min, max |-> max]

Indices(node) == 0 .. node.n - 1
Leaves(m) == {p \in DOMAIN m : m[p].kind = "leaf"}
Composites(m) == DOMAIN m \ Leaves(m)
Under(root, p) == IsPrefix(root, p)

\* Frequency.allows
Allows(node, k) == k >= node.min /\ (node.max = Unbounded \/ k <= node.max)

\* validate_model, restricted to what the tree encoding leaves open
ValidFrequency(node) == node.min >= 0 /\ (node.max = Unbounded \/ node.max >= node.min)
ValidOrder(node) ==
  /\ node.n >= 2
  /\ ~ IsCyclic(node.edges, node.n)
  /\ node.edges = Reduction(node.edges, node.n)
  /\ Closure(node.closure, node.n) = node.closure
ValidChoice(node) ==
  /\ node.n >= 2 /\ node.start # node.end
  /\ {node.start, node.end} \subseteq Indices(node)
  /\ \A e \in node.edges : e[2] # node.start /\ e[1] # node.end
  /\ LET reach == Closure(node.edges, node.n)
     IN  \A i \in Indices(node) : /\ i = node.start \/ <<node.start, i>> \in reach
                                  /\ i = node.end \/ <<i, node.end>> \in reach
ValidModel(m) ==
  \A p \in Composites(m) :
    /\ ValidFrequency(m[p])
    /\ m[p].kind = "order" => ValidOrder(m[p])
    /\ m[p].kind = "choice" => ValidChoice(m[p])

(***************************************************************************)
(* Marking: completed (the occurrence keys of the fires, activity and      *)
(* index), cursor, visits (child entries and, at None, rounds started),    *)
(* fires, done (completed_paths) and rounds.                               *)
(***************************************************************************)
VisitKeys(m) == UNION {{p} \X (Indices(m[p]) \cup {None}) : p \in Composites(m)}
InitialMarking(m) ==
  [completed |-> {}, fires |-> 0, done |-> {},
   cursor |-> [p \in Composites(m) |-> None],
   visits |-> [k \in VisitKeys(m) |-> 0],
   rounds |-> [p \in Composites(m) |-> 0]]

\* _purged: forget the position under root, keep visits and completed
Purged(mk, root, resetRootRounds) ==
  [mk EXCEPT
    !.done = {p \in @ : ~ Under(root, p)},
    !.cursor = [p \in DOMAIN @ |-> IF Under(root, p) THEN None ELSE @[p]],
    !.rounds = [p \in DOMAIN @ |->
                  IF Under(root, p) /\ (resetRootRounds \/ p # root) THEN 0 ELSE @[p]]]

\* _in_progress: a round of the composite is half-done
InProgress(mk, path) ==
  \/ \E p \in mk.done : Under(path, p) /\ p # path
  \/ \E p \in DOMAIN mk.cursor : Under(path, p) /\ mk.cursor[p] # None
  \/ \E p \in DOMAIN mk.rounds : Under(path, p) /\ p # path /\ mk.rounds[p] > 0

RECURSIVE IsComplete(_, _, _)
\* _body_complete: one round of the composite has just finished
BodyComplete(m, path, mk) ==
  IF m[path].kind = "order"
  THEN \A i \in Indices(m[path]) : IsComplete(m, Append(path, i), mk)
  ELSE /\ mk.cursor[path] = m[path].end
       /\ IsComplete(m, Append(path, m[path].end), mk)
\* _is_complete
IsComplete(m, path, mk) ==
  IF m[path].kind = "leaf"
  THEN path \in mk.done
  ELSE \/ Allows(m[path], mk.rounds[path]) /\ ~ InProgress(mk, path)
       \/ Allows(m[path], mk.rounds[path] + 1) /\ BodyComplete(m, path, mk)
IsFinal(m, mk) == IsComplete(m, <<>>, mk)

(***************************************************************************)
(* _enabled: the leaves that may advance next.  A repetition or a          *)
(* successor whose visit count has reached the cap is left out.            *)
(***************************************************************************)
Capped(mk, key, b, applyCap) == applyCap /\ mk.visits[key] >= b.visits
NoMoreRounds(m, path, mk, b, applyCap) ==
  \/ m[path].max # Unbounded /\ mk.rounds[path] >= m[path].max
  \/ /\ mk.rounds[path] > 0
     /\ ~ InProgress(mk, path)
     /\ Capped(mk, <<path, None>>, b, applyCap)
Successors(node, cur) == IF cur = None THEN {node.start}
                         ELSE {e[2] : e \in {f \in node.edges : f[1] = cur}}

RECURSIVE Offered(_, _, _, _, _)
OfferedByOrder(m, path, mk, b, applyCap) ==
  LET Done(i) == IsComplete(m, Append(path, i), mk)
  IN  UNION {Offered(m, Append(path, i), mk, b, applyCap) :
               i \in {j \in Indices(m[path]) :
                        /\ ~ Done(j)
                        /\ \A e \in m[path].closure : e[2] = j => Done(e[1])}}
OfferedByChoice(m, path, mk, b, applyCap) ==
  LET cur == mk.cursor[path]
  IN  IF cur # None /\ ~ IsComplete(m, Append(path, cur), mk)
      THEN Offered(m, Append(path, cur), mk, b, applyCap)
      ELSE IF cur = m[path].end THEN {}
      ELSE UNION {Offered(m, Append(path, c), Purged(mk, Append(path, c), TRUE), b, applyCap) :
                    c \in {s \in Successors(m[path], cur) :
                             ~ Capped(mk, <<path, s>>, b, applyCap)}}
Offered(m, path, mk, b, applyCap) ==
  CASE m[path].kind = "leaf" -> {path} \ mk.done
    [] m[path].kind # "leaf" /\ NoMoreRounds(m, path, mk, b, applyCap) -> {}
    [] m[path].kind = "order" /\ ~ NoMoreRounds(m, path, mk, b, applyCap) ->
         OfferedByOrder(m, path, mk, b, applyCap)
    [] m[path].kind = "choice" /\ ~ NoMoreRounds(m, path, mk, b, applyCap) ->
         OfferedByChoice(m, path, mk, b, applyCap)

\* enabled
EnabledPaths(m, mk, b) == Offered(m, <<>>, mk, b, TRUE)

(***************************************************************************)
(* fire: enter the choice graphs on the way down, complete the leaf, then  *)
(* bank the rounds its completion closes, deepest first.                   *)
(***************************************************************************)
Prefix(path, depth) == SubSeq(path, 1, depth)
(* Mutant: the child is not started afresh when it is entered again. *)
EnterChild_Stale(m, path, mk, depth) ==
  LET prefix == Prefix(path, depth)
      idx == path[depth + 1]
  IN  IF m[prefix].kind # "choice"
         \/ (mk.cursor[prefix] = idx /\ ~ IsComplete(m, Append(prefix, idx), mk))
      THEN mk
      ELSE [mk EXCEPT !.cursor[prefix] = idx, !.visits[<<prefix, idx>>] = @ + 1]
(* Mutant: a self-loop does not count as an entry. *)
EnterChild_FreeSelfLoop(m, path, mk, depth) ==
  LET prefix == Prefix(path, depth)
      idx == path[depth + 1]
      child == Append(prefix, idx)
  IN  IF m[prefix].kind # "choice"
         \/ (mk.cursor[prefix] = idx /\ ~ IsComplete(m, child, mk))
      THEN mk
      ELSE [Purged(mk, child, TRUE) EXCEPT
              !.cursor[prefix] = idx,
              !.visits[<<prefix, idx>>] = IF mk.cursor[prefix] = idx THEN @ ELSE @ + 1]
EnterChild(m, path, mk, depth) ==
  LET prefix == Prefix(path, depth)
      idx == path[depth + 1]
      child == Append(prefix, idx)
  IN  IF m[prefix].kind # "choice"
         \/ (mk.cursor[prefix] = idx /\ ~ IsComplete(m, child, mk))
      THEN mk
      ELSE [Purged(mk, child, TRUE) EXCEPT !.cursor[prefix] = idx,
                                           !.visits[<<prefix, idx>>] = @ + 1]
Entered(m, path, mk) ==
  FoldLeft(LAMBDA acc, depth : EnterChild(m, path, acc, depth),
           mk, [d \in 1 .. Len(path) |-> d - 1])

CloseRound(m, path, mk, depth) ==
  LET prefix == Prefix(path, depth)
  IN  IF ~ BodyComplete(m, prefix, mk) THEN mk
      ELSE [Purged(mk, prefix, FALSE) EXCEPT !.rounds[prefix] = @ + 1,
                                             !.visits[<<prefix, None>>] = @ + 1]
CloseRounds(m, path, mk) ==
  FoldLeft(LAMBDA acc, depth : CloseRound(m, path, acc, depth),
           mk, [d \in 1 .. Len(path) |-> Len(path) - d])

\* the refusals of fire, in the order they are raised; "" when it may fire
FireRefusal(m, mk, path, b) ==
  CASE path \notin EnabledPaths(m, mk, b) -> "LANGUAGE_MISMATCH"
    [] path \in EnabledPaths(m, mk, b)
         /\ (mk.fires + 1 > b.fires
             \/ Cardinality(Entered(m, path, mk).done) + 1 > b.states) -> "BOUND_EXHAUSTED"
    [] OTHER -> ""
(* Mutant: the occurrence index counts the leaves now complete. *)
Fire_Positional(m, mk, path) ==
  LET working == Entered(m, path, mk)
      label == m[path].label
      occurrence == Cardinality({p \in mk.done : m[p].label = label})
  IN  CloseRounds(m, path,
        [working EXCEPT !.completed = @ \cup {<<label, occurrence>>},
                        !.done = @ \cup {path},
                        !.fires = @ + 1])
Fire(m, mk, path) ==
  LET working == Entered(m, path, mk)
      label == m[path].label
      occurrence == Cardinality({k \in mk.completed : k[1] = label})
  IN  CloseRounds(m, path,
        [working EXCEPT !.completed = @ \cup {<<label, occurrence>>},
                        !.done = @ \cup {path},
                        !.fires = @ + 1])

(* Mutant: the visit cap is applied when its effect is looked for. *)
ClassifyStall_Capped(m, mk, b) ==
  IF \/ mk.fires >= b.fires
     \/ Cardinality(mk.done) >= b.states
     \/ Offered(m, <<>>, mk, b, TRUE) # {}
  THEN "BLOCKED:BOUND_EXHAUSTED" ELSE "BLOCKED:DEADLOCK"
\* classify_stall
ClassifyStall(m, mk, b) ==
  IF \/ mk.fires >= b.fires
     \/ Cardinality(mk.done) >= b.states
     \/ Offered(m, <<>>, mk, b, FALSE) # {}
  THEN "BLOCKED:BOUND_EXHAUSTED" ELSE "BLOCKED:DEADLOCK"
=============================================================================
