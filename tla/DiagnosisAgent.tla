---------------------------- MODULE DiagnosisAgent ---------------------------
(***************************************************************************)
(* The SREGym diagnosis agent (dspy_sregym_agent.py) and its admission     *)
(* gate (epistemic_kernel.py): after a pre-pass that builds the fact       *)
(* store, one resolver per fault category runs concurrently, three at a    *)
(* time, each with two attempts; the ledger of their hypotheses is         *)
(* admitted or not, and only an admitted one is submitted.                 *)
(*                                                                         *)
(* The language model is external: it cites any fact, also one that does   *)
(* not exist yet.  Facts recorded by resolvers are numbered from 0.        *)
(***************************************************************************)
EXTENDS Naturals, Sequences, FiniteSets

CONSTANTS
  Categories,   \* FAULT_CATEGORIES
  InFlight,     \* the semaphore: resolvers that may run at a time
  Store,        \* fact_store: the facts of the pre-pass
  MaxRecorded,  \* bound: facts recorded by resolvers
  MaxKubectl,   \* bound: kubectl calls of the whole run
  LmFails,      \* whether a call of the language model may raise
  Lengths       \* of its reasoning: whether it reaches the required length

DiagnosisAssumption ==
  /\ IsFiniteSet(Categories) /\ Categories # {} /\ InFlight \in Nat \ {0}
  /\ {MaxRecorded, MaxKubectl} \subseteq Nat /\ LmFails \in BOOLEAN
  /\ Lengths \subseteq BOOLEAN

VARIABLES
  main,        \* where run_diagnosis is
  at,          \* where the resolver of each category is
  attempt,     \* its attempt
  shown,       \* the facts its attempt was given
  hypothesis,  \* its last answer
  passed,      \* history: whether validate_hypothesis accepted that answer
  recorded,    \* dynamic_facts: a sequence of [id, by]
  kubectl,     \* history: run_kubectl calls of resolvers
  submitted,   \* history: capabilities submitted, in order
  admitted     \* kernel_admitted

vars == <<main, at, attempt, shown, hypothesis, passed, recorded, kubectl, submitted, admitted>>

States == {"UNKNOWN", "SUPPORTED", "REFUTED"}
NoHypothesis == [state |-> "UNKNOWN", cites |-> {}, long |-> FALSE]
Ended == {"done", "raised"}

TypeOK ==
  /\ main \in {"prepass", "resolve", "admit", "synthesize", "submit", "mitigate"} \cup Ended
  /\ at \in [Categories -> {"none", "waiting", "running", "resolved", "raised"}]
  /\ attempt \in [Categories -> 0..2]
  /\ \A c \in Categories : hypothesis[c].state \in States
  /\ Len(recorded) <= MaxRecorded /\ kubectl \in 0..MaxKubectl
  /\ admitted \in BOOLEAN

Init ==
  /\ main = "prepass" /\ at = [c \in Categories |-> "none"]
  /\ attempt = [c \in Categories |-> 0] /\ shown = [c \in Categories |-> {}]
  /\ hypothesis = [c \in Categories |-> NoHypothesis]
  /\ passed = [c \in Categories |-> FALSE]
  /\ recorded = << >> /\ kubectl = 0 /\ submitted = << >> /\ admitted = FALSE

RecordedIds == {recorded[i].id : i \in 1..Len(recorded)}

(* fact_store + dynamic_facts *)
Facts == Store \cup RecordedIds

-----------------------------------------------------------------------------
(* The admission gate *)

EvidenceIsGrounded(cites, facts) == cites # {} /\ cites \subseteq facts

ValidateHypothesis(h, facts) ==
  h.state # "UNKNOWN" /\ EvidenceIsGrounded(h.cites, facts) /\ h.long

(* Mutant: only the supported hypothesis is validated. *)
AdmitDiagnosis_SupportedOnly(hyps, facts) ==
  LET supported == {c \in Categories : hyps[c].state = "SUPPORTED"}
  IN  Cardinality(supported) = 1 /\ \A c \in supported : ValidateHypothesis(hyps[c], facts)

(* One hypothesis per category is there by construction of the ledger. *)
AdmitDiagnosis(hyps, facts) ==
  /\ Cardinality({c \in Categories : hyps[c].state = "SUPPORTED"}) = 1
  /\ \A c \in Categories : ValidateHypothesis(hyps[c], facts)

-----------------------------------------------------------------------------
(* run_diagnosis *)

(* The listings, the two panels and the normalization, then gather()       *)
(* starts every resolver: each takes the facts and asks for the semaphore. *)
PrePass ==
  /\ main = "prepass" /\ main' = "resolve"
  /\ at' = [c \in Categories |-> "waiting"]
  /\ attempt' = [c \in Categories |-> 1] /\ shown' = [c \in Categories |-> Facts]
  /\ UNCHANGED <<hypothesis, passed, recorded, kubectl, submitted, admitted>>

PrePassRaises ==
  /\ main = "prepass" /\ LmFails /\ main' = "raised"
  /\ UNCHANGED <<at, attempt, shown, hypothesis, passed, recorded, kubectl, submitted, admitted>>

Running == {c \in Categories : at[c] = "running"}

(* Mutant: every resolver starts at once. *)
Acquire_Unbounded(c) ==
  /\ at[c] = "waiting" /\ at' = [at EXCEPT ![c] = "running"]
  /\ UNCHANGED <<main, attempt, shown, hypothesis, passed, recorded, kubectl, submitted, admitted>>

Acquire(c) ==
  /\ at[c] = "waiting" /\ Cardinality(Running) < InFlight
  /\ at' = [at EXCEPT ![c] = "running"]
  /\ UNCHANGED <<main, attempt, shown, hypothesis, passed, recorded, kubectl, submitted, admitted>>

(* The tools of a resolver's loop; a resolver goes on when gather() raised *)
(* for another one.                                                        *)
RunKubectl(c) ==
  /\ at[c] = "running" /\ kubectl < MaxKubectl /\ kubectl' = kubectl + 1
  /\ UNCHANGED <<main, at, attempt, shown, hypothesis, passed, recorded, submitted, admitted>>

(* Mutant: the number is that of the facts the attempt was given. *)
RecordFact_Stale(c) ==
  /\ at[c] = "running" /\ Len(recorded) < MaxRecorded
  /\ recorded' = Append(recorded, [id |-> Cardinality(shown[c] \ Store), by |-> c])
  /\ UNCHANGED <<main, at, attempt, shown, hypothesis, passed, kubectl, submitted, admitted>>

(* len(dynamic_facts) and the append are one step of the event loop. *)
RecordFact(c) ==
  /\ at[c] = "running" /\ Len(recorded) < MaxRecorded
  /\ recorded' = Append(recorded, [id |-> Len(recorded), by |-> c])
  /\ UNCHANGED <<main, at, attempt, shown, hypothesis, passed, kubectl, submitted, admitted>>

Answers == [state : States, cites : {{}} \cup {{f} : f \in Store \cup 0..(MaxRecorded - 1)},
            long : Lengths]

(* Mutant: a refused answer is asked for again until it is valid. *)
Resolve_Insists(c, h) ==
  /\ at[c] = "running"
  /\ LET valid == ValidateHypothesis(h, Facts)
     IN  /\ hypothesis' = [hypothesis EXCEPT ![c] = h]
         /\ passed' = [passed EXCEPT ![c] = valid]
         /\ at' = [at EXCEPT ![c] = IF valid THEN "resolved" ELSE "waiting"]
         /\ attempt' = [attempt EXCEPT ![c] = 2]
         /\ shown' = [shown EXCEPT ![c] = IF valid THEN @ ELSE Facts]
  /\ UNCHANGED <<main, recorded, kubectl, submitted, admitted>>

(* The answer is validated against the facts of now; a refused first one   *)
(* is asked for once more, with those facts.                               *)
Resolve(c, h) ==
  /\ at[c] = "running"
  /\ LET valid == ValidateHypothesis(h, Facts)
     IN  /\ hypothesis' = [hypothesis EXCEPT ![c] = h]
         /\ passed' = [passed EXCEPT ![c] = valid]
         /\ IF valid \/ attempt[c] = 2
            THEN at' = [at EXCEPT ![c] = "resolved"] /\ UNCHANGED <<attempt, shown>>
            ELSE /\ at' = [at EXCEPT ![c] = "waiting"]
                 /\ attempt' = [attempt EXCEPT ![c] = 2]
                 /\ shown' = [shown EXCEPT ![c] = Facts]
  /\ UNCHANGED <<main, recorded, kubectl, submitted, admitted>>

(* gather() passes the first exception on and leaves the others alone. *)
ResolverRaises(c) ==
  /\ LmFails /\ at[c] = "running" /\ at' = [at EXCEPT ![c] = "raised"]
  /\ main' = IF main = "resolve" THEN "raised" ELSE main
  /\ UNCHANGED <<attempt, shown, hypothesis, passed, recorded, kubectl, submitted, admitted>>

(* Mutant: the facts recorded by the resolvers are forgotten. *)
Admit_StoreOnly ==
  /\ main = "resolve" /\ \A c \in Categories : at[c] = "resolved"
  /\ admitted' = AdmitDiagnosis(hypothesis, Store)
  /\ main' = IF admitted' THEN "synthesize" ELSE "done"
  /\ UNCHANGED <<at, attempt, shown, hypothesis, passed, recorded, kubectl, submitted>>

Admit ==
  /\ main = "resolve" /\ \A c \in Categories : at[c] = "resolved"
  /\ admitted' = AdmitDiagnosis(hypothesis, Facts)
  /\ main' = IF admitted' THEN "synthesize" ELSE "done"
  /\ UNCHANGED <<at, attempt, shown, hypothesis, passed, recorded, kubectl, submitted>>

(* Mutant: an admitted diagnosis is resolved once more. *)
Synthesize_Again ==
  /\ main = "synthesize" /\ main' = "resolve"
  /\ attempt' = [c \in Categories |-> attempt[c] + 1] /\ at' = [c \in Categories |-> "waiting"]
  /\ UNCHANGED <<shown, hypothesis, passed, recorded, kubectl, submitted, admitted>>

Synthesize ==
  /\ main = "synthesize" /\ main' \in {"submit"} \cup (IF LmFails THEN {"raised"} ELSE {})
  /\ UNCHANGED <<at, attempt, shown, hypothesis, passed, recorded, kubectl, submitted, admitted>>

(* Mutant: the mitigation follows whatever became of the diagnosis. *)
SubmitDiagnosis_Always ==
  /\ main = "submit"
  /\ \E ok \in BOOLEAN : submitted' = Append(submitted, [what |-> "diagnosis", ok |-> ok])
  /\ main' = "mitigate"
  /\ UNCHANGED <<at, attempt, shown, hypothesis, passed, recorded, kubectl, admitted>>

(* The kernel accepts the submission or refuses it. *)
SubmitDiagnosis ==
  /\ main = "submit"
  /\ \E ok \in BOOLEAN :
       /\ submitted' = Append(submitted, [what |-> "diagnosis", ok |-> ok])
       /\ main' = IF ok THEN "mitigate" ELSE "done"
  /\ UNCHANGED <<at, attempt, shown, hypothesis, passed, recorded, kubectl, admitted>>

SubmitMitigation ==
  /\ main = "mitigate" /\ main' = "done"
  /\ \E ok \in BOOLEAN : submitted' = Append(submitted, [what |-> "mitigation", ok |-> ok])
  /\ UNCHANGED <<at, attempt, shown, hypothesis, passed, recorded, kubectl, admitted>>

-----------------------------------------------------------------------------
Resolver(c) ==
  \/ Acquire(c) \/ ResolverRaises(c) \/ \E h \in Answers : Resolve(c, h)

Main ==
  PrePass \/ PrePassRaises \/ Admit \/ Synthesize \/ SubmitDiagnosis \/ SubmitMitigation

Next == Main \/ \E c \in Categories : Resolver(c) \/ RunKubectl(c) \/ RecordFact(c)

(* The model answers or raises: loops are bounded by max_iters. *)
Spec == Init /\ [][Next]_vars /\ WF_vars(Main) /\ \A c \in Categories : WF_vars(Resolver(c))

-----------------------------------------------------------------------------
(* Properties *)

(* Whatever the resolvers did in which order, an admitted ledger names one *)
(* root cause and every hypothesis in it is decided and cites facts that   *)
(* exist.                                                                  *)
AdmittedIsGrounded ==
  admitted => /\ Cardinality({c \in Categories : hypothesis[c].state = "SUPPORTED"}) = 1
              /\ \A c \in Categories :
                   /\ hypothesis[c].state # "UNKNOWN" /\ hypothesis[c].cites # {}
                   /\ hypothesis[c].cites \subseteq Facts

(* A ledger whose entries all passed their own check is refused only for   *)
(* the number of its supported entries: facts are never lost between a     *)
(* resolver's check and the gate.                                          *)
PassedStaysValid ==
  main = "done" /\ ~admitted /\ (\A c \in Categories : passed[c]) =>
    Cardinality({c \in Categories : hypothesis[c].state = "SUPPORTED"}) # 1

(* DO implies admission: nothing is submitted for a ledger that was not    *)
(* admitted, a diagnosis once, a mitigation once and only after a          *)
(* diagnosis that the kernel accepted.                                     *)
SubmissionsFollowAdmission ==
  /\ submitted # << >> => admitted
  /\ Len(submitted) <= 2
  /\ Len(submitted) >= 1 => submitted[1].what = "diagnosis"
  /\ Len(submitted) = 2 => submitted[1].ok /\ submitted[2].what = "mitigation"

(* Concurrent resolvers never record two facts under one identifier, so    *)
(* a citation names one observation.                                       *)
RecordedIdsAreUnique == Cardinality(RecordedIds) = Len(recorded)

(* The rate limit: no more resolvers call the model than the semaphore     *)
(* admits, second attempts and failures included.                          *)
InFlightIsBounded == Cardinality(Running) <= InFlight

(* What the gate lets through is grounded, and submissions wait for it.    *)
ClaimsAreGrounded == AdmittedIsGrounded /\ PassedStaysValid
ActsFollowAdmission ==
  SubmissionsFollowAdmission /\ RecordedIdsAreUnique /\ InFlightIsBounded /\ TypeOK

(* The inductive invariant behind them: once the gate was reached nobody   *)
(* resolves or records any more, an answer that passed still would, facts  *)
(* are numbered in order, and submissions are where run_diagnosis is.      *)
Hypotheses == [state : States, cites : SUBSET (Store \cup Nat), long : BOOLEAN]
AgentsAreSound ==
  /\ hypothesis \in [Categories -> Hypotheses] /\ passed \in [Categories -> BOOLEAN]
  /\ recorded \in Seq([id : Nat, by : Categories])
  /\ submitted \in Seq([what : {"diagnosis", "mitigation"}, ok : BOOLEAN])
GateIsLast ==
  /\ main \in {"synthesize", "submit", "mitigate", "done"} \/ admitted =>
       \A c \in Categories : at[c] = "resolved"
  /\ main \in {"synthesize", "submit", "mitigate"} => admitted
  /\ admitted => main \in {"synthesize", "submit", "mitigate"} \cup Ended
PassedIsValid == \A c \in Categories : passed[c] => ValidateHypothesis(hypothesis[c], Facts)
FactsAreNumbered == \A i \in 1..Len(recorded) : recorded[i].id = i - 1
SubmissionsAreInOrder ==
  /\ main \notin {"mitigate", "done"} => submitted = << >>
  /\ main = "mitigate" => Len(submitted) = 1 /\ submitted[1].ok
DiagnosisInvariant ==
  /\ ClaimsAreGrounded /\ ActsFollowAdmission /\ AgentsAreSound /\ GateIsLast
  /\ PassedIsValid /\ FactsAreNumbered /\ SubmissionsAreInOrder

(* "No category can be starved by another's early satisfaction because     *)
(* none of them can see the others at all": an attempt is given facts of   *)
(* the pre-pass and of its own resolver only.                              *)
CategoriesAreBlind ==
  \A c \in Categories :
    shown[c] \subseteq Store \cup {recorded[i].id : i \in {j \in 1..Len(recorded) : recorded[j].by = c}}

(* "A real, consequential gym.act() call must never be reachable purely    *)
(* because an uncontrolled LLM loop decided to call it."                   *)
LoopsDoNotAct == kubectl > 0 => admitted

(* Every run returns or raises. *)
RunsEnd == <>(main \in Ended)
=============================================================================
