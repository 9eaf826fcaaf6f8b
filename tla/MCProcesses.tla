----------------------------- MODULE MCProcesses -----------------------------
(***************************************************************************)
(* Small instances of the process side: the POWL executor, the pipeline    *)
(* runner, the guarded walk with its checkpoints, and the possibility      *)
(* closure with its cut.  `walk` names the one a behaviour is about; the   *)
(* variables of the others hold Nil.                                       *)
(***************************************************************************)
EXTENDS MCPowlTrees, TLC

CONSTANTS Nil, Situations

VARIABLES
  walk,                                                   \* the one that moves
  tree, at, choices,                                      \* PowlExecutor
  model, bound, bindings, partial, turn, marking, batch,  \* PowlRunner
  offered, running, errors, fired, events, turns, result,
  plan, pc, status, act, holder, steps, buffers,          \* PowlGuard
  transitions, checkpoint, ran, calls, crashes, resumes,
  graph, starts, ctx, limits, explorer, stage, stack,     \* Possibility
  path, rest, emitted, frontier, evaluations, reasons,
  subject, selection, request, executed

-----------------------------------------------------------------------------
(* The executor: trees whose language is finite under the visit cap,       *)
(* compared word by word; loops within loops that only visits end.         *)

XWords == INSTANCE PowlExecutor WITH
       Models <- {Diamond, Rounds, Loop, Branches, Against},
       MaxFires <- 20, MaxVisits <- 4, MaxStates <- 20, model <- tree, marking <- at
XCycles == INSTANCE PowlExecutor WITH
       Models <- {Nested, Endless, Redo},
       MaxFires <- 16, MaxVisits <- 3, MaxStates <- 20, model <- tree, marking <- at

(* The runner, under bounds that stop a round half-way and every kind of   *)
(* bindings: none, a lawful set, one label short, and one wrong each.      *)

StepLabels == {"read", "check", "act", "poll", "end", "other"}
StepClassOf == [l \in StepLabels |->
                  CASE l \in {"read", "check"} -> "readonly" [] l = "act" -> "actuation"
                    [] l = "poll" -> "oracle" [] OTHER -> "unknown"]
Lawful == [l \in StepLabels |-> CASE l \in {"read", "check", "poll"} -> "bare"
                                  [] l = "act" -> "gated" [] OTHER -> "none"]
SomeBindings == {[l \in StepLabels |-> "none"], Lawful}
                \cup {[Lawful EXCEPT ![e[1]] = e[2]] :
                        e \in {<<"read", "none">>, <<"act", "none">>, <<"poll", "none">>,
                               <<"act", "bare">>, <<"check", "gated">>, <<"other", "bare">>}}
B(fires, visits, states) == [fires |-> fires, visits |-> visits, states |-> states]
SomeBounds == {B(20, 4, 20), B(2, 4, 20), B(20, 4, 2), B(20, 4, 3), B(20, 1, 20), B(20, 2, 20)}

Runner == INSTANCE PowlRunner WITH
       Models <- {Parallel, Looping}, Bounds <- SomeBounds, Labels <- StepLabels,
       ClassOf <- StepClassOf, Bindings <- SomeBindings, Failing <- {"read", "act", "poll"},
       pc <- turn

(* The guarded walk: crashes and failures at every step, resumed from the  *)
(* last checkpoint; nested thread pools in which several children fail.    *)

GuardedEdges == {<< <<>>, 0, 1 >>, << <<1>>, 1, 1 >>}

GResume == INSTANCE PowlGuard WITH
       Models <- {TwiceAround, Chains}, Guarded <- GuardedEdges, HasEvaluator <- FALSE,
       MaxWorkers <- 2, MaxTransitions <- 3, Failing <- {"act"}, MaxCrashes <- 2,
       MaxResumes <- 3, MaxRepetitions <- 3, model <- plan
GThreads == INSTANCE PowlGuard WITH
       Models <- {Wide, Beside}, Guarded <- GuardedEdges, HasEvaluator <- TRUE,
       MaxWorkers <- 2, MaxTransitions <- 3, Failing <- {"act", "poll"}, MaxCrashes <- 0,
       MaxResumes <- 2, MaxRepetitions <- 3, model <- plan

(* The closure: two ways from a to c that tie with two actions behind      *)
(* them; a cycle, which every depth bound truncates unless the cost bound  *)
(* ends it; edges that may be compensated only, need a policy or carry no  *)
(* binding.                                                                *)

Edge(id, src, dst, phase, reversal, requires, binding, cost, confidence) ==
  [id |-> id, src |-> src, dst |-> dst, phase |-> phase, reversal |-> reversal,
   standing |-> "CANDIDATE", requires |-> requires, binding |-> binding,
   cost |-> cost, confidence |-> confidence]
Free(id, src, dst, cost, confidence) ==
  Edge(id, src, dst, "SELECT", "reversible", {}, Nil, cost, confidence)
Do(id, src, requires, binding) == Edge(id, src, "z", "DO", "irreversible", requires, binding, 1, 4)

Ties == <<Free("ab", "a", "b", 1, 3), Free("ac", "a", "c", 2, 3), Free("bc", "b", "c", 1, 3),
          Do("cz1", "c", {"grant"}, "act1"), Do("bz2", "b", {}, "act2")>>
Cycle == <<Free("ab", "a", "b", 1, 4), Free("ba", "b", "a", 1, 2), Do("bz", "b", {}, "act1")>>
Fences == <<Free("ab", "a", "b", 0, 4),
            Edge("ac", "a", "c", "CONSTRUCT", "compensatable", {}, Nil, 1, 4),
            Edge("bc", "b", "c", "CONSTRUCT", "reversible", {"policy"}, Nil, 1, 4),
            [Free("bb", "b", "b", 0, 4) EXCEPT !.standing = "STALE"],
            Do("cz", "c", {}, "act1"), Do("az", "a", {}, Nil)>>

Cut == INSTANCE Possibility WITH
       Graphs <- {Ties, Cycle, Fences}, Starts <- {<<"a">>, <<"a", "b">>, <<"b", "b">>},
       Contexts <- {{}, {"grant"}, {"grant", "policy"}},
       Limits <- [depth : {0, 2, 3}, paths : {1, 3, 4}, cost : {2, 9}],
       Additions <- {Free("ca", "c", "a", 1, 4)}, Explorers <- {"strict", "plain"},
       Actions <- {"act1", "act2"}, None <- Nil, pc <- stage

ASSUME ProcessAssumption == Cut!GraphAssumption

-----------------------------------------------------------------------------
executor == <<tree, at, choices>>
runner == <<model, bound, bindings, partial, turn, marking, batch, offered, running, errors,
            fired, events, turns, result>>
guard == <<plan, pc, status, act, holder, steps, buffers, transitions, checkpoint, ran, calls,
           crashes, resumes>>
closure == <<graph, starts, ctx, limits, explorer, stage, stack, path, rest, emitted, frontier,
             evaluations, reasons, subject, selection, request, executed>>
vars == <<walk, executor, runner, guard, closure>>

NoExecutor == tree = Nil /\ at = Nil /\ choices = Nil
NoRunner ==
  /\ model = Nil /\ bound = Nil /\ bindings = Nil /\ partial = Nil /\ turn = Nil
  /\ marking = Nil /\ batch = Nil /\ offered = Nil /\ running = Nil /\ errors = Nil
  /\ fired = Nil /\ events = Nil /\ turns = Nil /\ result = Nil
NoGuard ==
  /\ plan = Nil /\ pc = Nil /\ status = Nil /\ act = Nil /\ holder = Nil /\ steps = Nil
  /\ buffers = Nil /\ transitions = Nil /\ checkpoint = Nil /\ ran = Nil /\ calls = Nil
  /\ crashes = Nil /\ resumes = Nil
NoClosure ==
  /\ graph = Nil /\ starts = Nil /\ ctx = Nil /\ limits = Nil /\ explorer = Nil
  /\ stage = Nil /\ stack = Nil /\ path = Nil /\ rest = Nil /\ emitted = Nil
  /\ frontier = Nil /\ evaluations = Nil /\ reasons = Nil /\ subject = Nil
  /\ selection = Nil /\ request = Nil /\ executed = Nil

Init ==
  /\ walk \in Situations
  /\ CASE walk = "words" -> XWords!Init [] walk = "cycles" -> XCycles!Init
       [] OTHER -> NoExecutor
  /\ IF walk = "rounds" THEN Runner!Init ELSE NoRunner
  /\ CASE walk = "resume" -> GResume!Init [] walk = "threads" -> GThreads!Init
       [] OTHER -> NoGuard
  /\ IF walk = "cut" THEN Cut!Init ELSE NoClosure

Next ==
  /\ UNCHANGED walk
  /\ \/ /\ \/ walk = "words" /\ XWords!Next
           \/ walk = "cycles" /\ XCycles!Next
        /\ UNCHANGED <<runner, guard, closure>>
     \/ walk = "rounds" /\ Runner!Next /\ UNCHANGED <<executor, guard, closure>>
     \/ /\ \/ walk = "resume" /\ GResume!Next
           \/ walk = "threads" /\ GThreads!Next
        /\ UNCHANGED <<executor, runner, closure>>
     \/ walk = "cut" /\ Cut!Next /\ UNCHANGED <<executor, runner, guard>>

Spec == Init /\ [][Next]_vars

-----------------------------------------------------------------------------
(* Properties.  Each includes the types of its component: the shapes of    *)
(* markings, rounds, walks and paths.                                      *)

(* The executor walks the language of its tree: what is enabled is what    *)
(* some word of the language continues with, recorded runs replay and      *)
(* tampered ones do not, the bridge lists leaves in an order the tree      *)
(* allows, labels conform exactly when they are a whole trace, loops end   *)
(* by their visit counts and a stop short of the end is called a bound.    *)
TraversalsAreTheLanguage ==
  /\ walk = "words" => /\ XWords!EnabledIsTheLanguage /\ XWords!ReplayIsFaithful
                       /\ XWords!BridgeFollowsTheTree /\ XWords!ConformanceIsExact
                       /\ XWords!TypeOK
  /\ walk = "cycles" => XCycles!TerminationIsStructural /\ XCycles!StallsAreBounds
                                                       /\ XCycles!TypeOK

(* run_pipeline keeps the order of the tree among concurrent bindings,     *)
(* records every fire also when a binding raises, explains every stop and  *)
(* has no idle turn.                                                       *)
RoundsAreSound ==
  walk = "rounds" => /\ Runner!BindingsRespectTheOrder /\ Runner!EveryFireIsRecorded
                     /\ Runner!StopsAreExplained /\ Runner!EveryTurnAdvances
                     /\ Runner!TypeOK

(* A walk crashes or fails anywhere, between two steps of one flush too,   *)
(* and is resumed.  A partial order at the top leaves nothing out; a       *)
(* choice at the top stays on one path of its graph and leaves out at most *)
(* the rest of the branch each cut call was in.  Repetitions are counted   *)
(* on, the order is kept, and the trace of nested thread pools is that of  *)
(* the serial walk and shows every call, failures included.                *)
ResumeKeepsTheWalk ==
  /\ walk = "resume" => /\ GResume!ResumeSkipsNothing /\ GResume!ResumeFollowsOnePath
                        /\ GResume!RepetitionsAreCarried /\ GResume!OrderSurvivesResume
                        /\ GResume!TypeOK
  /\ walk = "threads" => /\ GThreads!TraceShowsEveryCall /\ GThreads!TraceIsSerial
                         /\ GThreads!TypeOK

(* A closure not reported as truncated is all the walks the cost bound     *)
(* affords and the whole frontier, and the edge that was too dear has its  *)
(* verdict for every walk left out; a truncation is real, every edge has   *)
(* one disposition, the Pareto front covers every path, and the cut saw    *)
(* the whole closure.                                                      *)
ClosureIsComplete ==
  walk = "cut" => /\ Cut!UntruncatedIsComplete /\ Cut!FrontierIsComplete
                  /\ Cut!PathTruncationIsReal /\ Cut!OneDispositionEach
                  /\ Cut!ParetoCoversEveryPath /\ Cut!CutSeesTheWholeClosure
                  /\ Cut!TypeOK
=============================================================================
