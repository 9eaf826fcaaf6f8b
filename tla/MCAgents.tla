------------------------------- MODULE MCAgents ------------------------------
(***************************************************************************)
(* Small instances of the loops that act for a language model: the         *)
(* epistemic kernel, the SREGym diagnosis agent, the tool-calling agent    *)
(* and the environment harness.  None of them calls another, so a          *)
(* behaviour is about one of them, which `agent` names; the others stay as *)
(* they began.  Their properties are grouped by what a reader may trust.   *)
(***************************************************************************)
EXTENDS Integers, Sequences

CONSTANTS
  Bogus,       \* an identifier the model made up
  get, set, both,     \* capabilities that read, that do, that have both bindings
  c1, c2,      \* fault categories
  base,        \* a fact of the pre-pass
  Agents       \* the agents and situations that are looked at

VARIABLES
  agent,                                                  \* the one that moves
  stage, round, hyps, facts, observations,                \* EpistemicLoop
  investigated, demanded, todo, executed, admission,
  main, resolver, tries, shown, hypothesis, passed,       \* DiagnosisAgent
  recorded, kubectl, submitted, admitted,
  await, asked, names, grounded, last, steps, iter,       \* ReactAgent
  runs, since, acted, late, unseen, moves,
  at, call, leg, verified, session, episode, alive, made, \* EnvHarness
  level, overdue, history, doing, index, saved, answers,
  start, past, orphans, reply, calls

-----------------------------------------------------------------------------
(* The harness: a world of four levels; a session that stages two actions  *)
(* and bounds "up", and a chain whose second stage fails and whose third   *)
(* does not pass the preflight.                                            *)

Levels == 0..3
HarnessCaps == {"up", "top", "look"}
Climb == [c \in HarnessCaps |-> [w \in Levels |->
            CASE c = "up" -> IF w < 3 THEN w + 1 ELSE w
              [] c = "top" -> 3
              [] OTHER -> w]]
Anything == {-1}

Do(cap, key, expected) == [cap |-> cap, key |-> key, expected |-> expected]
Rule(cap, effect, to, when, limit) ==
  [cap |-> cap, effect |-> effect, to |-> to, when |-> when, limit |-> limit]

(* "jump" is rewritten; "up" at most once in a row, and "top" from 3. *)
Guarded == [stage |-> <<Do("up", "s1", Anything), Do("up", "s2", {2})>>,
            rules |-> <<Rule("jump", "rewrite", "up", {}, 0), Rule("up", "deny", "none", {}, 1),
                        Rule("up", "rewrite", "top", {3}, 0), Rule("top", "allow", "none", {}, 0)>>]
(* Stages a reading: refused by the preflight. *)
Broken == [stage |-> <<Do("up", "b1", Anything), Do("look", "b2", Anything)>>, rules |-> << >>]
(* A stage whose postcondition cannot hold. *)
Strict == [stage |-> <<Do("up", "t1", Anything), Do("up", "t2", {1})>>, rules |-> << >>]
Plain == [stage |-> <<Do("up", "p1", Anything)>>, rules |-> << >>]

AllFaults == {"raise", "refuse", "effect", "restore", "teardown", "late"}

-----------------------------------------------------------------------------
(* Each instance of AgentProofs is one situation of each agent: E is the   *)
(* epistemic kernel, G the diagnosis agent, R the tool-calling agent and H *)
(* the harness.                                                            *)

(* Two hypotheses and plans of one step; two resolvers at once, of which   *)
(* one records a fact; two runs of a goal, the kernel raising; one session *)
(* with the guarded harness.                                               *)
First == INSTANCE AgentProofs WITH
       acts <- executed, attempt <- tries, ep <- episode, live <- alive, world <- level,
       result <- reply, pending <- overdue,
       Seeds <- 1, MaxHyps <- 2, MaxRounds <- 2, MaxReads <- 1, MaxPlan <- 1,
       ReadCaps <- {get, both}, DoCaps <- {set, both},
       Categories <- {c1, c2}, InFlight <- 2, Store <- {base}, MaxRecorded <- 1,
       MaxKubectl <- 0, LmFails <- FALSE, Lengths <- BOOLEAN,
       Names <- {"a", "b"}, Present <- {"a"}, Hidden <- {"b"}, Creators <- TRUE,
       MaxIters <- 2, MaxRuns <- 2, MaxMoves <- 0, KernelRaises <- TRUE,
       Legs <- 1, Worlds <- Levels, Fresh <- 0, Caps <- HarnessCaps, Reads <- {"look"},
       Effect <- Climb, Harness <- <<Guarded>>, Goal <- <<{3}>>,
       Actions <- {Do("up", "k1", {1, 3}), Do("up", "k2", Anything), Do("jump", "k3", Anything),
                   Do("look", "k4", Anything), Do("look", "k5", {0}), Do("sink", "k6", Anything),
                   Do("top", "k7", {2})},
       Always <- Anything, Faults <- AllFaults, MaxEpisodes <- 2, MaxCalls <- 3, MaxLate <- 1

(* One hypothesis over three rounds: investigated, demanded, committed;    *)
(* both resolvers record facts; one longer run of an agent that may create *)
(* nothing; the chain.                                                     *)
Second == INSTANCE AgentProofs WITH
       acts <- executed, attempt <- tries, ep <- episode, live <- alive, world <- level,
       result <- reply, pending <- overdue,
       Seeds <- 1, MaxHyps <- 1, MaxRounds <- 3, MaxReads <- 1, MaxPlan <- 0,
       ReadCaps <- {get}, DoCaps <- {set},
       Categories <- {c1, c2}, InFlight <- 2, Store <- {}, MaxRecorded <- 2,
       MaxKubectl <- 0, LmFails <- FALSE, Lengths <- {TRUE},
       Names <- {"a", "b"}, Present <- {"a"}, Hidden <- {"b"}, Creators <- FALSE,
       MaxIters <- 3, MaxRuns <- 1, MaxMoves <- 1, KernelRaises <- FALSE,
       Legs <- 3, Worlds <- Levels, Fresh <- 0, Caps <- HarnessCaps, Reads <- {"look"},
       Effect <- Climb, Harness <- <<Plain, Strict, Broken>>,
       Goal <- <<{1, 2}, {0, 1}, {0, 1}>>,
       Actions <- {Do("up", "k1", {1}), Do("up", "k2", Anything)},
       Always <- Anything, Faults <- AllFaults, MaxEpisodes <- 4, MaxCalls <- 4, MaxLate <- 1

(* One place of the semaphore and calls of the model that raise; of the    *)
(* other agents nothing is asked here.                                     *)
Third == INSTANCE AgentProofs WITH
       acts <- executed, attempt <- tries, ep <- episode, live <- alive, world <- level,
       result <- reply, pending <- overdue,
       Categories <- {c1, c2}, InFlight <- 1, Store <- {base}, MaxRecorded <- 0,
       MaxKubectl <- 1, LmFails <- TRUE, Lengths <- BOOLEAN,
       Seeds <- 0, MaxHyps <- 0, MaxRounds <- 1, MaxReads <- 0, MaxPlan <- 0,
       ReadCaps <- {}, DoCaps <- {},
       Names <- {"a"}, Present <- {}, Hidden <- {}, Creators <- FALSE,
       MaxIters <- 0, MaxRuns <- 0, MaxMoves <- 0, KernelRaises <- FALSE,
       Legs <- 1, Worlds <- Levels, Fresh <- 0, Caps <- {}, Reads <- {}, Effect <- << >>,
       Harness <- <<Plain>>, Goal <- <<{0}>>, Actions <- {}, Always <- Anything,
       Faults <- {}, MaxEpisodes <- 1, MaxCalls <- 0, MaxLate <- 0

ASSUME AgentAssumption ==
  /\ First!E!EpistemicAssumption /\ Second!E!EpistemicAssumption
  /\ First!G!DiagnosisAssumption /\ Second!G!DiagnosisAssumption
  /\ Third!G!DiagnosisAssumption
  /\ First!R!ReactAssumption /\ Second!R!ReactAssumption
  /\ First!H!EnvHarnessAssumption /\ Second!H!EnvHarnessAssumption
  /\ First!H!StageKeysDiffer /\ Second!H!StageKeysDiffer
  /\ First!H!LimitsFollowRewrites /\ Second!H!LimitsFollowRewrites

-----------------------------------------------------------------------------
epistemic == <<stage, round, hyps, facts, observations, investigated, demanded, todo, executed,
               admission>>
diagnosis == <<main, resolver, tries, shown, hypothesis, passed, recorded, kubectl,
               submitted, admitted>>
react == <<await, asked, names, grounded, last, steps, iter, runs, since, acted, late, unseen,
           moves>>
harness == <<at, call, leg, verified, session, episode, alive, made, level, overdue, history,
             doing, index, saved, answers, start, past, orphans, reply, calls>>
agentVars == <<agent, epistemic, diagnosis, react, harness>>

(* The instances of one module begin alike. *)
AgentInit == agent \in Agents /\ First!E!Init /\ First!G!Init /\ First!R!Init /\ First!H!Init

AgentNext ==
  /\ UNCHANGED agent
  /\ \/ /\ \/ agent = "epistemic_rounds" /\ First!E!Next
           \/ agent = "epistemic_demands" /\ Second!E!Next
        /\ UNCHANGED <<diagnosis, react, harness>>
     \/ /\ \/ agent = "diagnosis_admits" /\ First!G!Next
           \/ agent = "diagnosis_records" /\ Second!G!Next
           \/ agent = "diagnosis_fails" /\ Third!G!Next
        /\ UNCHANGED <<epistemic, react, harness>>
     \/ /\ \/ agent = "react_runs" /\ First!R!Next
           \/ agent = "react_fresh" /\ Second!R!Next
        /\ UNCHANGED <<epistemic, diagnosis, harness>>
     \/ /\ \/ agent = "harness_steps" /\ First!H!Next
           \/ agent = "harness_chain" /\ Second!H!Next
        /\ UNCHANGED <<epistemic, diagnosis, react>>

(* The fairness of each loop's own specification: the model and the kernel *)
(* answer or raise.                                                        *)
AgentFairness ==
  /\ WF_epistemic(agent = "epistemic_rounds" /\ First!E!Next)
  /\ WF_diagnosis(agent = "diagnosis_admits" /\ First!G!Main)
  /\ \A c \in {c1, c2} : WF_diagnosis(agent = "diagnosis_admits" /\ First!G!Resolver(c))
  /\ WF_diagnosis(agent = "diagnosis_fails" /\ Third!G!Main)
  /\ \A c \in {c1, c2} : WF_diagnosis(agent = "diagnosis_fails" /\ Third!G!Resolver(c))
  /\ WF_react(agent = "react_runs" /\ await # "idle" /\ First!R!AgentStep)
  /\ WF_harness(agent = "harness_steps" /\ at # "idle" /\ First!H!HarnessStep)

AgentSpec == AgentInit /\ [][AgentNext]_agentVars /\ AgentFairness

-----------------------------------------------------------------------------
(* Properties.  They include the types of the components they are about:   *)
(* rounds, attempts, steps and calls within their budgets.                 *)

(* What the model says is kept only as far as the program saw it: a        *)
(* hypothesis' state follows from stored facts, a fact's source was        *)
(* observed, a demand to commit is about hypotheses that are still open,   *)
(* an admitted ledger cites known facts and stays valid when more are      *)
(* recorded, and an act names only what the latest observation, or a read  *)
(* after it, showed.                                                       *)
ClaimsAreGrounded ==
  /\ agent = "epistemic_rounds" => First!E!ClaimsAreGrounded
  /\ agent = "epistemic_demands" => Second!E!ClaimsAreGrounded
  /\ agent = "diagnosis_admits" => First!G!ClaimsAreGrounded
  /\ agent = "diagnosis_records" => Second!G!ClaimsAreGrounded
  /\ agent = "react_runs" => First!R!ClaimsAreGrounded /\ First!R!ReactInvariant
  /\ agent = "react_fresh" => Second!R!ClaimsAreGrounded /\ Second!R!ReactInvariant

(* Consequences come after admission: no plan step runs without one        *)
(* supported root cause, no mitigation is submitted before the diagnosis,  *)
(* fact identifiers are given once and the semaphore holds, also when      *)
(* resolvers raise.                                                        *)
ActsFollowAdmission ==
  /\ agent = "epistemic_rounds" => First!E!ActsFollowAdmission /\ First!E!EpistemicInvariant
  /\ agent = "epistemic_demands" => Second!E!ActsFollowAdmission /\ Second!E!EpistemicInvariant
  /\ agent = "diagnosis_admits" => First!G!ActsFollowAdmission /\ First!G!DiagnosisInvariant
  /\ agent = "diagnosis_records" => Second!G!ActsFollowAdmission /\ Second!G!DiagnosisInvariant
  /\ agent = "diagnosis_fails" => Third!G!ActsFollowAdmission /\ Third!G!DiagnosisInvariant

(* The harness keeps its transaction: what a reset reports about its stage *)
(* is so, a step whose postcondition failed leaves world and history as    *)
(* they were (but for late effects of acts that timed out), limits hold    *)
(* over the history, an episode that lives is named by the session unless  *)
(* its materialize() raised, nothing is staged that the preflight refuses, *)
(* and a chain reported complete had its goals verified; with the          *)
(* invariants by which AgentProofs shows this for every harness.           *)
HarnessIsTransactional ==
  /\ agent = "harness_steps" => First!H!HarnessIsTransactional
  /\ agent = "harness_chain" => Second!H!HarnessIsTransactional

(* Whatever the model answers, an episode, a diagnosis, a goal and a call  *)
(* of the harness end.                                                     *)
AgentRunsEnd ==
  /\ agent = "epistemic_rounds" => First!E!EpisodesEnd
  /\ agent = "diagnosis_admits" => First!G!RunsEnd
  /\ agent = "diagnosis_fails" => Third!G!RunsEnd
  /\ agent = "react_runs" => First!R!RunsEnd
  /\ agent = "harness_steps" => First!H!CallsEnd
=============================================================================
