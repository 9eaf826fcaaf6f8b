---------------------------- MODULE Possibility ----------------------------
(***************************************************************************)
(* The possibility closure of src/gymact/combinatorial.py and maximal.py,  *)
(* and the irreversible cut of cut.py that the decision court of           *)
(* dcm_runtime.py puts behind it: explore a graph of morphisms with an     *)
(* explicit stack, stop at every DO edge, then choose one DO edge of a     *)
(* complete closure, bind it into a request and execute that.              *)
(*                                                                         *)
(* A digest stands for what it was taken of.  Of the objectives there is   *)
(* one that adds up and may be bounded, cost, and one that is the least of *)
(* its parts, confidence.                                                  *)
(***************************************************************************)
EXTENDS Naturals, Sequences, FiniteSets, SequencesExt

CONSTANTS Graphs,     \* morphism tuples a caller may hand in
          Starts,     \* tuples of start objects
          Contexts,   \* AdmissionContext values
          Limits,     \* ExplorationBounds values
          Explorers,  \* which explorer runs: "strict" (maximal.py) or "plain"
          Additions,  \* morphisms a caller may add to its graph later
          Actions,    \* semantic identities of actions
          None

GraphAssumption ==
  \A g \in Graphs : g \in Seq([id : STRING, src : STRING, dst : STRING, phase : STRING,
                               reversal : STRING, standing : STRING, requires : SUBSET STRING,
                               binding : Actions \cup {None}, cost : Nat, confidence : 0 .. 4])

VARIABLES graph, starts, ctx, limits, explorer,   \* the arguments
          pc,
          stack, path, rest,   \* paths to extend, the one in hand, its edges to look at
          emitted, frontier, evaluations, reasons,
          subject,     \* the graph and the context that were explored
          selection, request, executed
arguments == <<graph, starts, ctx, limits, explorer>>
results == <<emitted, frontier, evaluations, reasons>>
cut == <<subject, selection, request, executed>>
vars == <<arguments, pc, stack, path, rest, results, cut>>

(***************************************************************************)
(* Edges and paths                                                         *)
(***************************************************************************)
Outgoing(g, object) == SelectSeq(g, LAMBDA e : e.src = object)
IdentityPath(object) == [objects |-> <<object>>, edges |-> <<>>, cost |-> 0, confidence |-> 4]
NoPath == [objects |-> <<>>, edges |-> <<>>, cost |-> 0, confidence |-> 4]
End(p) == p.objects[Len(p.objects)]
(* Mutant: the object reached is not added to the path. *)
Extended_SameObject(p, e) == [p EXCEPT !.edges = Append(@, e), !.cost = @ + e.cost]
Extended(p, e) == [objects |-> Append(p.objects, e.dst),
                   edges |-> Append(p.edges, e),
                   cost |-> p.cost + e.cost,
                   confidence |-> IF e.confidence < p.confidence THEN e.confidence
                                  ELSE p.confidence]
WithinBounds(p, b) == p.cost <= b.cost

\* evaluate_morphism, whose refusals differ in their reason only
Admitted(e, c) ==
  /\ e.standing \notin {"BLOCKED", "UNSUPPORTED", "REFUSED", "STALE"}
  /\ e.requires \subseteq c
  /\ e.phase = "DO" => e.binding # None
\* an edge the closure may cross: the plain explorer does not ask for the
\* edge to be reversible
Crossable(e, c, x) ==
  e.phase # "DO" /\ Admitted(e, c) /\ (x = "strict" => e.reversal = "reversible")
Fenced == explorer = "strict" /\ rest[1].reversal # "reversible"

(***************************************************************************)
(* Exploration                                                             *)
(***************************************************************************)
Init ==
  /\ graph \in Graphs /\ starts \in Starts /\ ctx \in Contexts
  /\ limits \in Limits /\ explorer \in Explorers
  /\ pc = "explore" /\ path = NoPath /\ rest = <<>>
  /\ stack = [i \in 1 .. Len(starts) |-> IdentityPath(starts[Len(starts) + 1 - i])]
  /\ emitted = <<>> /\ frontier = {} /\ evaluations = {} /\ reasons = {}
  /\ subject = None /\ selection = None /\ request = None /\ executed = None

InHand == pc = "explore" /\ rest # <<>>
AtDepth(p) == Len(p.edges) >= limits.depth
TakePath ==
  /\ pc = "explore" /\ rest = <<>> /\ stack # <<>> /\ ~ AtDepth(Last(stack))
  /\ stack' = Front(stack) /\ path' = Last(stack)
  /\ rest' = Outgoing(graph, End(Last(stack)))
  /\ UNCHANGED <<arguments, pc, results, cut>>
(* Mutant: the depth bound drops a path without a word. *)
StopAtDepth_Silent ==
  /\ pc = "explore" /\ rest = <<>> /\ stack # <<>> /\ AtDepth(Last(stack))
  /\ stack' = Front(stack)
  /\ UNCHANGED <<arguments, pc, path, rest, results, cut>>
StopAtDepth ==
  /\ pc = "explore" /\ rest = <<>> /\ stack # <<>> /\ AtDepth(Last(stack))
  /\ stack' = Front(stack)
  /\ reasons' = reasons \cup (IF Outgoing(graph, End(Last(stack))) = <<>> THEN {} ELSE {"MAX_DEPTH"})
  /\ UNCHANGED <<arguments, pc, path, rest, emitted, frontier, evaluations, cut>>

Evaluate(verdict) == evaluations' = evaluations \cup {[path |-> path, edge |-> rest[1], admitted |-> verdict]}
(* Mutant: a DO edge without its grant or binding is left off the frontier. *)
DoEdge_AdmittedOnly ==
  /\ InHand /\ rest[1].phase = "DO"
  /\ Evaluate(Admitted(rest[1], ctx))
  /\ frontier' = frontier \cup {f \in {[path |-> path, edge |-> rest[1], admitted |-> TRUE]} :
                                  Admitted(rest[1], ctx)}
  /\ rest' = Tail(rest)
  /\ UNCHANGED <<arguments, pc, stack, path, emitted, reasons, cut>>
DoEdge ==
  /\ InHand /\ rest[1].phase = "DO"
  /\ Evaluate(Admitted(rest[1], ctx))
  /\ frontier' = frontier \cup {[path |-> path, edge |-> rest[1],
                                 admitted |-> Admitted(rest[1], ctx)]}
  /\ rest' = Tail(rest)
  /\ UNCHANGED <<arguments, pc, stack, path, emitted, reasons, cut>>
RefusedEdge ==
  /\ InHand /\ rest[1].phase # "DO" /\ (~ Admitted(rest[1], ctx) \/ Fenced)
  /\ Evaluate(FALSE) /\ rest' = Tail(rest)
  /\ UNCHANGED <<arguments, pc, stack, path, emitted, frontier, reasons, cut>>
Traversable == InHand /\ rest[1].phase # "DO" /\ Admitted(rest[1], ctx) /\ ~ Fenced
(* Mutant: the strict explorer notes the edge as admitted before the bound. *)
OverBound_NotedFirst ==
  /\ Traversable /\ ~ WithinBounds(Extended(path, rest[1]), limits)
  /\ evaluations' = evaluations \cup [path : {path}, edge : {rest[1]}, admitted : BOOLEAN]
  /\ rest' = Tail(rest)
  /\ UNCHANGED <<arguments, pc, stack, path, emitted, frontier, reasons, cut>>
\* the plain explorer has already noted the edge as admitted
OverBound ==
  /\ Traversable /\ ~ WithinBounds(Extended(path, rest[1]), limits)
  /\ evaluations' = evaluations \cup
       [path : {path}, edge : {rest[1]},
        admitted : IF explorer = "strict" THEN {FALSE} ELSE BOOLEAN]
  /\ rest' = Tail(rest)
  /\ UNCHANGED <<arguments, pc, stack, path, emitted, frontier, reasons, cut>>
(* Mutant: the last path allowed counts as one too many. *)
Full_Early == Len(emitted) + 1 >= limits.paths
Full == Len(emitted) >= limits.paths
Truncate ==
  /\ Traversable /\ WithinBounds(Extended(path, rest[1]), limits) /\ Full
  /\ Evaluate(TRUE)
  /\ reasons' = reasons \cup {"MAX_PATHS"}
  /\ stack' = <<>> /\ rest' = <<>>
  /\ UNCHANGED <<arguments, pc, path, emitted, frontier, cut>>
Emit ==
  /\ Traversable /\ WithinBounds(Extended(path, rest[1]), limits) /\ ~ Full
  /\ Evaluate(TRUE)
  /\ emitted' = Append(emitted, Extended(path, rest[1]))
  /\ stack' = Append(stack, Extended(path, rest[1]))
  /\ rest' = Tail(rest)
  /\ UNCHANGED <<arguments, pc, path, frontier, reasons, cut>>
Explored ==
  /\ pc = "explore" /\ rest = <<>> /\ stack = <<>>
  /\ pc' = "explored" /\ path' = NoPath
  /\ subject' = [graph |-> graph, ctx |-> ctx]
  /\ UNCHANGED <<arguments, stack, rest, results, selection, request, executed>>

(***************************************************************************)
(* Pareto: the paths no other path dominates.                              *)
(***************************************************************************)
NoWorse(p, q) == p.cost <= q.cost /\ p.confidence >= q.confidence
(* Mutant: a path that is as good is enough to drop another. *)
Dominates_Ties(p, q) == p # q /\ NoWorse(p, q)
Dominates(p, q) == NoWorse(p, q) /\ (p.cost < q.cost \/ p.confidence > q.confidence)
ParetoPaths == {p \in Range(emitted) : \A q \in Range(emitted) : ~ Dominates(q, p)}

(***************************************************************************)
(* The cut.  Between exploring, choosing and executing the caller may add  *)
(* to its graph, and the facts the edges were admitted by may change.      *)
(***************************************************************************)
WithMorphism ==
  /\ pc = "explored" /\ executed = None
  /\ \E e \in Additions : /\ \A i \in 1 .. Len(graph) : graph[i].id # e.id
                          /\ graph' = Append(graph, e)
  /\ UNCHANGED <<starts, ctx, limits, explorer, pc, stack, path, rest, results, cut>>
Truncated == reasons # {}
(* Mutant: the cut is taken from whatever was found. *)
Selectable_Truncated(f) == subject.graph = graph /\ f.admitted
Selectable(f) == subject.graph = graph /\ ~ Truncated /\ f.admitted
\* admit_execution: the grant and the prepared action are for this action
Granted(action, prepared, grant) == prepared = action /\ grant = action
Select ==
  /\ pc = "explored" /\ selection = None
  /\ \E f \in frontier, action \in Actions, prepared \in Actions, grant \in Actions :
       /\ Selectable(f) /\ Granted(action, prepared, grant)
       /\ selection' = [graph |-> graph, path |-> f.path, edge |-> f.edge,
                        action |-> action, prepared |-> prepared, grant |-> grant]
  /\ UNCHANGED <<arguments, pc, stack, path, rest, results, subject, request, executed>>
Binds(s, action, prepared, grant) ==
  s.action = action /\ s.prepared = prepared /\ s.grant = grant
ManufactureRequest ==
  /\ selection # None /\ request = None
  /\ \E action \in Actions, prepared \in Actions, grant \in Actions :
       /\ Binds(selection, action, prepared, grant)
       /\ request' = [selection |-> selection, action |-> action,
                      prepared |-> prepared, grant |-> grant]
  /\ UNCHANGED <<arguments, pc, stack, path, rest, results, subject, selection, executed>>
\* the broker admits again; a refusal is a receipt and leaves the world alone
Execute ==
  /\ request # None /\ executed = None
  /\ executed' = [action |-> request.prepared, selection |-> request.selection,
                  admitted |-> Granted(request.action, request.prepared, request.grant)]
  /\ UNCHANGED <<arguments, pc, stack, path, rest, results, subject, selection, request>>

Next == \/ TakePath \/ StopAtDepth \/ DoEdge \/ RefusedEdge \/ OverBound
        \/ Truncate \/ Emit \/ Explored
        \/ WithMorphism \/ Select \/ ManufactureRequest \/ Execute
Spec == Init /\ [][Next]_vars
-----------------------------------------------------------------------------
(***************************************************************************)
(* Properties                                                              *)
(***************************************************************************)
(* Walks and paths have the shapes the explorer builds. *)
TypeOK ==
  /\ pc \in {"explore", "explored"} /\ explorer \in {"strict", "plain"}
  /\ reasons \subseteq {"MAX_DEPTH", "MAX_PATHS"}
  /\ \A p \in Range(emitted) \cup Range(stack) : Len(p.objects) = Len(p.edges) + 1

Cost(es) == FoldLeft(LAMBDA total, e : total + e.cost, 0, es)
\* a reference definition without a stack: every walk of crossable edges from
\* a start, one edge past the depth bound too, and of these the affordable
\* ones: costs only add up, so every part of them is affordable
Walks(g, c) ==
  {es \in UNION {[1 .. n -> Range(g)] : n \in 1 .. limits.depth + 1} :
     /\ es[1].src \in Range(starts)
     /\ \A i \in 1 .. Len(es) : Crossable(es[i], c, explorer)
     /\ \A i \in 1 .. Len(es) - 1 : es[i].dst = es[i + 1].src}
LawfulWalks(g, c) == {es \in Walks(g, c) : Cost(es) <= limits.cost}
Known == {p.edges : p \in Range(emitted)}
Refused(es, e) == \E v \in evaluations : v.path.edges = es /\ v.edge = e /\ ~ v.admitted
(* A closure that is not reported as truncated is every affordable walk,   *)
(* and none of them goes past the depth bound: the bounds on depth and     *)
(* paths never prune without that report.  The bound on cost does; each    *)
(* walk it leaves out has an edge that was refused where the walk meets it *)
(* (explore_combinatorial_maximum, explore_maximal_reversible).            *)
UntruncatedIsComplete ==
  pc = "explored" /\ ~ Truncated =>
    /\ Known = LawfulWalks(subject.graph, subject.ctx)
    /\ \A es \in Walks(subject.graph, subject.ctx) \ Known :
         \E n \in 1 .. Len(es) : Refused(SubSeq(es, 1, n - 1), es[n])
(* Every DO edge behind a complete closure is on the frontier, after every *)
(* walk that leads to it, and no other edge is.                            *)
FrontierIsComplete ==
  pc = "explored" /\ ~ Truncated =>
    {<<f.path.edges, f.edge>> : f \in frontier} =
      {<<es, e>> \in (Known \cup {<<>>}) \X Range(subject.graph) :
         /\ e.phase = "DO"
         /\ IF es = <<>> THEN e.src \in Range(starts) ELSE e.src = es[Len(es)].dst}
(* MAX_PATHS is reported only when there are more walks than max_paths, a  *)
(* repeated start counting its walks again: a closure that fits exactly is *)
(* complete.                                                               *)
PathTruncationIsReal ==
  pc = "explored" /\ "MAX_PATHS" \in reasons =>
    Cardinality({<<i, es>> \in (DOMAIN starts) \X LawfulWalks(subject.graph, subject.ctx) :
                   es[1].src = starts[i]}) > limits.paths
(* The strict explorer gives an edge of a path one disposition, and an     *)
(* edge it admits is crossed, unless MAX_PATHS ended the walk.             *)
OneDispositionEach ==
  explorer = "strict" =>
    \A v \in evaluations :
      /\ [v EXCEPT !.admitted = ~ v.admitted] \notin evaluations
      /\ v.admitted /\ v.edge.phase # "DO" =>
           Append(v.path.edges, v.edge) \in Known \/ "MAX_PATHS" \in reasons
(* pareto_paths keeps, for every path, one at least as good: ties do not   *)
(* drop one another.                                                       *)
ParetoCoversEveryPath ==
  pc = "explored" => \A p \in Range(emitted) : \E q \in ParetoPaths : NoWorse(q, p)
(* The DO edge a request was cut from was chosen in sight of every         *)
(* affordable walk of the graph it names, and what runs is the action, the *)
(* prepared action and the grant that were cut.                            *)
CutSeesTheWholeClosure ==
  executed # None =>
    /\ Known = LawfulWalks(executed.selection.graph, subject.ctx)
    /\ executed.admitted /\ executed.action = executed.selection.action
(* What does not hold (README, section 5): "bounds silently prune" is      *)
(* named as a critical falsifier, and max_cost prunes without a truncation *)
(* (docs/explanation/gymact-prd-ard.md).                                   *)
NoBoundPrunesSilently ==
  pc = "explored" /\ ~ Truncated => Known = Walks(subject.graph, subject.ctx)
(* The action that runs is the one its DO edge is bound to: "The cut SHALL *)
(* re-check the semantic binding against the exact ActionDefinition and    *)
(* PreparedAction" (docs/explanation/gymact-prd-ard.md).                   *)
CutMatchesTheEdge ==
  executed # None => executed.selection.edge.binding = executed.action
=============================================================================
