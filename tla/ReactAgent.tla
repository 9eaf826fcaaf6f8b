----------------------------- MODULE ReactAgent ------------------------------
(***************************************************************************)
(* The generic ReAct agent over one kernel episode (dspy_agent.py): a      *)
(* language model chooses tool calls, at most max_iters of them; an act    *)
(* may name only what the agent was shown.                                 *)
(*                                                                         *)
(* The world is the set of names it contains.  The model is external: it   *)
(* calls any tool with any name, also an invented one.  An exception of a  *)
(* tool becomes an observation of the model and the loop goes on.  Others  *)
(* change the world at any await, and so do the effects of acts that timed *)
(* out: the kernel refused them and they land later.                       *)
(***************************************************************************)
EXTENDS Naturals, Sequences, FiniteSets

CONSTANTS
  Names,        \* strings a world, a payload or a read can contain
  Present,      \* those in the world at first
  Hidden,       \* those only a READ capability shows
  Creators,     \* whether "create" is among create_capable_bindings
  MaxIters,     \* max_iters
  MaxRuns,      \* bound: calls of run_goal
  MaxMoves,     \* bound: changes of the world by others and late effects
  KernelRaises  \* whether observe, act, verify and read may raise

ReactAssumption ==
  /\ Names # {} /\ Present \subseteq Names /\ Hidden \subseteq Names
  /\ {MaxIters, MaxRuns, MaxMoves} \subseteq Nat
  /\ {Creators, KernelRaises} \subseteq BOOLEAN

VARIABLES
  at,        \* the await the agent is at
  doing,     \* the tool call of the model
  world,     \* the names in the world
  grounded,  \* _grounded_facts
  last,      \* _last_observation
  steps,     \* the steps of this run
  iter,      \* tool calls of this run
  runs,      \* calls of run_goal
  since,     \* history: names shown since, and by, the last refresh
  acted,     \* history: acts of this run that the kernel accepted
  late,      \* acts that timed out and may still have their effect
  unseen,    \* history: names changed since the last observation by others,
             \* by an act that was not accepted, or by one it could not observe
  moves      \* changes by others and acts that timed out

vars == <<at, doing, world, grounded, last, steps, iter, runs, since, acted, late, unseen,
          moves>>

Tools == {"observe", "create", "remove", "read"}
NoCall == [tool |-> "observe", name |-> CHOOSE n \in Names : TRUE, expected |-> FALSE]
ToolCalls == [tool : Tools, name : Names, expected : BOOLEAN]
Effects == [tool : Tools, name : Names]

TypeOK ==
  /\ at \in {"idle", "start", "think", "observe", "act", "refresh", "verify", "read"}
  /\ doing \in ToolCalls /\ world \subseteq Names /\ grounded \subseteq Names
  /\ last \subseteq Names /\ iter \in 0..MaxIters /\ runs \in 0..MaxRuns
  /\ steps \in Seq(ToolCalls) /\ moves \in 0..MaxMoves
  /\ late \subseteq Effects /\ unseen \subseteq Names

Init ==
  /\ at = "idle" /\ doing = NoCall /\ world = Present /\ grounded = {} /\ last = {}
  /\ steps = << >> /\ iter = 0 /\ runs = 0 /\ since = {} /\ acted = << >>
  /\ late = {} /\ unseen = Names /\ moves = 0

Log == steps' = Append(steps, doing)

(* Mutant: what earlier observations showed stays citable. *)
RefreshObservation_Widens ==
  last' = world /\ grounded' = grounded \cup world /\ since' = world /\ unseen' = {}

(* _refresh_observation: the facts are replaced, reads included. *)
RefreshObservation ==
  last' = world /\ grounded' = world /\ since' = world /\ unseen' = {}

NotRefreshed == UNCHANGED <<last, grounded, since, unseen>>

-----------------------------------------------------------------------------
(* run_goal *)

RunGoal ==
  /\ at = "idle" /\ runs < MaxRuns /\ runs' = runs + 1
  /\ at' = "start" /\ steps' = << >> /\ iter' = 0 /\ acted' = << >>
  /\ UNCHANGED <<doing, world, late, moves>> /\ NotRefreshed

(* The observation every run starts with; its exception ends the run. *)
FirstObservation ==
  /\ at = "start"
  /\ \/ RefreshObservation /\ at' = "think"
     \/ KernelRaises /\ NotRefreshed /\ at' = "idle"
  /\ UNCHANGED <<doing, world, steps, iter, runs, acted, late, moves>>

(* _assert_payload_is_grounded, unless the binding creates. *)
Grounded(c) == (c.tool = "create" /\ Creators) \/ c.name \in grounded

(* Mutant: one call more than max_iters. *)
CallTool_OneMore(c) ==
  /\ at = "think" /\ iter <= MaxIters /\ iter' = iter + 1 /\ doing' = c
  /\ at' = CASE c.tool = "observe" -> "observe"
             [] c.tool = "read" -> "read"
             [] OTHER -> IF Grounded(c) THEN "act" ELSE "think"
  /\ UNCHANGED <<world, steps, runs, acted, late, moves>> /\ NotRefreshed

(* Mutant: a refused act does not count. *)
CallTool_RefusedIsFree(c) ==
  /\ at = "think" /\ iter < MaxIters /\ doing' = c
  /\ iter' = IF c.tool \in {"observe", "read"} \/ Grounded(c) THEN iter + 1 ELSE iter
  /\ at' = CASE c.tool = "observe" -> "observe"
             [] c.tool = "read" -> "read"
             [] OTHER -> IF Grounded(c) THEN "act" ELSE "think"
  /\ UNCHANGED <<world, steps, runs, acted, late, moves>> /\ NotRefreshed

(* The model calls a tool; an ungrounded act is refused before the kernel. *)
CallTool(c) ==
  /\ at = "think" /\ iter < MaxIters /\ iter' = iter + 1 /\ doing' = c
  /\ at' = CASE c.tool = "observe" -> "observe"
             [] c.tool = "read" -> "read"
             [] OTHER -> IF Grounded(c) THEN "act" ELSE "think"
  /\ UNCHANGED <<world, steps, runs, acted, late, moves>> /\ NotRefreshed

Finish ==
  /\ at = "think" /\ at' = "idle"
  /\ UNCHANGED <<doing, world, steps, iter, runs, acted, late, moves>> /\ NotRefreshed

-----------------------------------------------------------------------------
(* The tools *)

Fails == KernelRaises /\ at' = "think" /\ UNCHANGED steps

ObserveTool ==
  /\ at = "observe"
  /\ \/ RefreshObservation /\ Log /\ at' = "think"
     \/ Fails /\ NotRefreshed
  /\ UNCHANGED <<doing, world, iter, runs, acted, late, moves>>

(* What an act does to the world. *)
Effected(c) == IF c.tool = "create" THEN world \cup {c.name} ELSE world \ {c.name}

(* The kernel accepted the act: it had its effect. *)
Accepted ==
  /\ world' = Effected(doing) /\ acted' = Append(acted, doing)
  /\ UNCHANGED <<late, unseen, moves>>

(* It refused the act, or raised out of it: the act had no effect, it had  *)
(* it and failed or timed out after it, or it timed out before it.         *)
NotAccepted ==
  /\ \/ UNCHANGED <<world, late, unseen, moves>>
     \/ world' = Effected(doing) /\ unseen' = unseen \cup {doing.name} /\ UNCHANGED <<late, moves>>
     \/ /\ moves < MaxMoves /\ moves' = moves + 1
        /\ late' = late \cup {[tool |-> doing.tool, name |-> doing.name]}
        /\ UNCHANGED <<world, unseen>>
  /\ UNCHANGED acted

(* Mutant: the agent goes on without looking. *)
ActuateTool_NoRefresh ==
  /\ at = "act"
  /\ \/ Accepted /\ Log /\ at' = "think"
     \/ NotAccepted /\ Log /\ at' = "think"
     \/ NotAccepted /\ Fails
  /\ UNCHANGED <<doing, iter, runs, last, grounded, since>>

(* actuate_tool up to the answer of the kernel: accepted, refused, raised. *)
(* The world is observed again only when the act was accepted.             *)
ActuateTool ==
  /\ at = "act"
  /\ \/ Accepted /\ at' = "refresh" /\ UNCHANGED steps
     \/ NotAccepted /\ Log /\ at' = "think"
     \/ NotAccepted /\ Fails
  /\ UNCHANGED <<doing, iter, runs, last, grounded, since>>

AfterActuation ==
  /\ at = "refresh"
  /\ \/ /\ RefreshObservation
        /\ IF doing.expected THEN at' = "verify" /\ UNCHANGED steps ELSE at' = "think" /\ Log
     \/ /\ Fails /\ unseen' = unseen \cup {doing.name}
        /\ UNCHANGED <<last, grounded, since>>
  /\ UNCHANGED <<doing, world, iter, runs, acted, late, moves>>

(* verify_after_actuation: its answer is only reported. *)
VerifyAfterActuation ==
  /\ at = "verify"
  /\ (Log /\ at' = "think") \/ Fails
  /\ UNCHANGED <<doing, world, iter, runs, acted, late, moves>> /\ NotRefreshed

(* read_tool: what the capability answers is citable from now on. *)
ReadTool ==
  /\ at = "read"
  /\ \/ \E shown \in SUBSET (world \cup Hidden) :
          /\ grounded' = grounded \cup shown /\ since' = since \cup shown
          /\ UNCHANGED <<last, unseen>> /\ Log /\ at' = "think"
     \/ Fails /\ NotRefreshed
  /\ UNCHANGED <<doing, world, iter, runs, acted, late, moves>>

(* Another client of the kernel changes the world. *)
Interfere ==
  /\ moves < MaxMoves /\ moves' = moves + 1
  /\ \E n \in Names :
       (world' = world \cup {n} \/ world' = world \ {n}) /\ unseen' = unseen \cup {n}
  /\ UNCHANGED <<at, doing, steps, iter, runs, acted, late, last, grounded, since>>

(* An act that timed out has its effect after the kernel's answer. *)
LateEffect(e) ==
  /\ e \in late /\ late' = late \ {e}
  /\ world' = Effected(e) /\ unseen' = unseen \cup {e.name}
  /\ UNCHANGED <<at, doing, steps, iter, runs, acted, moves, last, grounded, since>>

AgentStep ==
  \/ RunGoal \/ FirstObservation \/ (\E c \in ToolCalls : CallTool(c)) \/ Finish
  \/ ObserveTool \/ ActuateTool \/ AfterActuation \/ VerifyAfterActuation \/ ReadTool

Next == AgentStep \/ Interfere \/ (\E e \in Effects : LateEffect(e))

(* The kernel answers every await and the model every prompt; nobody has   *)
(* to interfere, and a late effect may never come.                         *)
Spec == Init /\ [][Next]_vars /\ WF_vars(at # "idle" /\ AgentStep)

-----------------------------------------------------------------------------
(* Properties *)

(* An act of a binding that does not create names only what the latest     *)
(* observation, or a read after it, showed: what an earlier observation or *)
(* an earlier run showed and a later one did not is refused.               *)
ActsAreGrounded ==
  at = "act" /\ (doing.tool = "create" => ~Creators) => doing.name \in since

(* What the observation a run ends with shows wrongly was changed by       *)
(* others, by an act the kernel did not accept, or by one whose            *)
(* observation failed: an accepted act that was looked at is in it.        *)
FinalObservationFollowsAccepted ==
  at = "idle" => \A n \in Names : n \in unseen \/ (n \in world <=> n \in last)

(* What is cited was shown, and what was accepted was looked at. *)
ClaimsAreGrounded == ActsAreGrounded /\ FinalObservationFollowsAccepted /\ TypeOK

(* Inductive: the citable facts are what was shown since the last refresh, *)
(* and world and observation agree but for unseen names and for the act    *)
(* whose refresh comes next.                                               *)
ReactInvariant ==
  /\ ClaimsAreGrounded /\ grounded = since
  /\ \A n \in Names :
       n \in unseen \/ (n \in world <=> n \in last) \/ (at = "refresh" /\ n = doing.name)

(* A run never outlives its iterations. *)
RunsEnd == (at # "idle") ~> (at = "idle")

(* "The real, ordered trace of tool calls it made": every act the kernel   *)
(* accepted is in the steps of the run.  The step is appended only after   *)
(* the observation and the verification that follow the act.               *)
TraceShowsEveryAct ==
  at = "idle" => \A i \in DOMAIN acted : \E j \in DOMAIN steps : steps[j] = acted[i]

(* The run ends with an observation of what its acts did.  After an act    *)
(* that was not accepted the agent does not look again, although the       *)
(* kernel also refuses an act that had its effect.                         *)
FinalObservationIsCurrent ==
  at = "idle" /\ runs > 0 /\ moves = 0 /\ ~KernelRaises => last = world

(* "Refuses any proposed DO-capability payload whose string values are not *)
(* a subset of" the most recent observation: what a read showed is         *)
(* accepted too.                                                           *)
OnlyObservedIsCited ==
  at = "act" /\ (doing.tool = "create" => ~Creators) => doing.name \in last
=============================================================================
