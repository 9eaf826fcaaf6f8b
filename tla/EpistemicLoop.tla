---------------------------- MODULE EpistemicLoop ----------------------------
(***************************************************************************)
(* The epistemic process kernel (epistemic_process_kernel.py): run_episode *)
(* asks a language model for hypotheses, evidence links, discriminating    *)
(* reads, a diagnosis and a plan, and decides by itself what is grounded,  *)
(* what state each hypothesis is in and whether anything may be done.      *)
(*                                                                         *)
(* The model is external and may propose anything, also identifiers that   *)
(* do not exist.  A fact is a number; Bogus is one that was never minted.  *)
(***************************************************************************)
EXTENDS Naturals, Sequences, FiniteSets

CONSTANTS
  Seeds,      \* the number of seed facts
  MaxHyps,    \* bound: hypotheses in a portfolio
  MaxRounds,  \* max_discriminate_rounds
  MaxReads,   \* bound: candidate reads proposed in a round
  MaxPlan,    \* bound: steps of a plan
  ReadCaps,   \* capabilities whose binding is in read_capability_bindings
  DoCaps,     \* capabilities whose binding is in do_capability_bindings
  Bogus       \* an identifier the model made up

EpistemicAssumption ==
  /\ {Seeds, MaxHyps, MaxRounds, MaxReads, MaxPlan} \subseteq Nat /\ MaxRounds > 0

VARIABLES
  stage,         \* where run_episode is
  round,         \* rounds_used
  hyps,          \* the portfolio: a set of hypotheses
  facts,         \* a sequence of the sources of each fact
  observations,  \* observation identifiers: 1..observations
  investigated,  \* investigated_ids
  demanded,      \* hypotheses named by constraint:commit-after-investigation
  todo,          \* reads, or plan steps, still to be executed
  acts,          \* history: the capabilities executed, with the stage
  result         \* admission and its reason

vars == <<stage, round, hyps, facts, observations, investigated, demanded,
          todo, acts, result>>

States == {"UNKNOWN", "SUPPORTED", "REFUTED"}
Caps == ReadCaps \cup DoCaps
NoResult == [admitted |-> FALSE, reason |-> "", winner |-> {}]
FactIds == 1..Len(facts)
Ids == {h.id : h \in hyps}
In(state) == {h \in hyps : h.state = state}

TypeOK ==
  /\ stage \in {"hypothesize", "link", "decide", "discriminate", "read", "extract",
                "conclude", "diagnose", "construct", "act", "done"}
  /\ round \in 0..MaxRounds /\ observations \in 0..(MaxRounds * MaxReads)
  /\ \A h \in hyps : h.state \in States
  /\ Cardinality(hyps) = Cardinality(Ids)

Init ==
  /\ stage = "hypothesize" /\ round = 0 /\ hyps = {}
  /\ facts = [i \in 1..Seeds |-> {}] /\ observations = 0
  /\ investigated = {} /\ demanded = {} /\ todo = << >> /\ acts = << >>
  /\ result = NoResult

-----------------------------------------------------------------------------
(* Hypotheses and links *)

Portfolio(n, r) ==
  {[id |-> <<r, i>>, state |-> "UNKNOWN", supports |-> {}, contradicts |-> {}] : i \in 1..n}

Hypothesize ==
  /\ stage = "hypothesize"
  /\ \E n \in 0..MaxHyps : hyps' = Portfolio(n, 0)
  /\ stage' = "link" /\ round' = 1
  /\ UNCHANGED <<facts, observations, investigated, demanded, todo, acts, result>>

(* What the linker proposes for one hypothesis: at most one link of each   *)
(* relation; the one that is not diagnostic cites any fact.                *)
Proposals ==
  LET Cited == {{}} \cup {{f} : f \in FactIds \cup {Bogus}}
  IN  [supports : Cited, contradicts : Cited, neutral : BOOLEAN]

(* Mutant: links are taken as proposed. *)
AdmitLinks_All(cited) == cited

(* _admit_links: a link to a fact that is not in the store is dropped. *)
AdmitLinks(cited) == cited \cap FactIds

(* Mutant: support outweighs contradiction. *)
ComputeState_SupportFirst(sup, con) ==
  IF sup # {} THEN "SUPPORTED" ELSE IF con # {} THEN "REFUTED" ELSE "UNKNOWN"

(* _compute_state *)
ComputeState(sup, con) ==
  IF con # {} THEN "REFUTED" ELSE IF sup # {} THEN "SUPPORTED" ELSE "UNKNOWN"

(* What is left of a proposal: the admitted links, and whether there was   *)
(* no link at all, grounded or not.                                        *)
Admitted(p) ==
  [supports |-> AdmitLinks(p.supports), contradicts |-> AdmitLinks(p.contradicts),
   silent |-> p.supports = {} /\ p.contradicts = {} /\ ~p.neutral]
Links == {Admitted(p) : p \in Proposals}

Linked(h, l) ==
  [h EXCEPT !.state = ComputeState(l.supports, l.contradicts),
            !.supports = l.supports, !.contradicts = l.contradicts]

(* uncommitted_after_investigation *)
Uncommitted(m) == {i \in Ids \cap investigated : m[i].silent}

(* Mutant: what an earlier round demanded is demanded on. *)
EvidenceLink_KeepsDemand ==
  /\ stage = "link"
  /\ \E m \in [Ids -> Links] :
       /\ hyps' = {Linked(h, m[h.id]) : h \in hyps}
       /\ demanded' = demanded \cup Uncommitted(m)
  /\ stage' = "decide"
  /\ UNCHANGED <<round, facts, observations, investigated, todo, acts, result>>

EvidenceLink ==
  /\ stage = "link"
  /\ \E m \in [Ids -> Links] :
       /\ hyps' = {Linked(h, m[h.id]) : h \in hyps}
       /\ demanded' = Uncommitted(m)
  /\ stage' = "decide"
  /\ UNCHANGED <<round, facts, observations, investigated, todo, acts, result>>

(* next_kernel_action *)
NextKernelAction ==
  CASE Cardinality(In("SUPPORTED")) = 1 /\ In("UNKNOWN") = {} -> "closure"
    [] In("SUPPORTED") = {} /\ In("UNKNOWN") = {} -> "rehypothesize"
    [] OTHER -> "discriminate"

(* Mutant: the bound is checked one round late. *)
NextRound_Late == IF round <= MaxRounds THEN stage' = "link" /\ round' = round + 1
                                        ELSE stage' = "conclude" /\ UNCHANGED round

NextRound == IF round < MaxRounds THEN stage' = "link" /\ round' = round + 1
                                  ELSE stage' = "conclude" /\ UNCHANGED round

Closure ==
  /\ stage = "decide" /\ NextKernelAction = "closure" /\ stage' = "conclude"
  /\ UNCHANGED <<round, hyps, facts, observations, investigated, demanded, todo,
                 acts, result>>

(* Mutant: a fresh portfolio starts the round again. *)
Rehypothesize_FreeRound ==
  /\ stage = "decide" /\ NextKernelAction = "rehypothesize"
  /\ \E n \in 0..MaxHyps : hyps' = Portfolio(n, round)
  /\ investigated' = {} /\ demanded' = {} /\ stage' = "link"
  /\ UNCHANGED <<round, facts, observations, todo, acts, result>>

(* Fresh identifiers: a link or a read for a hypothesis of an earlier      *)
(* portfolio says nothing of the new ones.                                 *)
Rehypothesize ==
  /\ stage = "decide" /\ NextKernelAction = "rehypothesize"
  /\ \E n \in 0..MaxHyps : hyps' = Portfolio(n, round)
  /\ investigated' = {} /\ demanded' = {} /\ NextRound
  /\ UNCHANGED <<facts, observations, todo, acts, result>>

-----------------------------------------------------------------------------
(* Discrimination *)

Discriminate ==
  /\ stage = "decide" /\ NextKernelAction = "discriminate"
  /\ \E n \in 0..MaxReads :
     \E c \in [1..n -> Caps \cup {Bogus}], t \in [1..n -> SUBSET Ids] :
       /\ todo' = [i \in 1..n |-> [cap |-> c[i], targets |-> t[i]]]
       /\ stage' = IF n = 0 THEN "conclude" ELSE "read"
  /\ UNCHANGED <<round, hyps, facts, observations, investigated, demanded, acts,
                 result>>

Act(cap) == acts' = Append(acts, [cap |-> cap, stage |-> stage])

(* Mutant: any capability of the episode may be read with. *)
Readable_Any(cap) == cap \in Caps

(* A candidate is executed when its capability exists and is in the read   *)
(* set.                                                                    *)
Readable(cap) == cap \in ReadCaps

(* A read that the kernel refuses still is an observation, an empty one. *)
Read ==
  /\ stage = "read" /\ todo # << >>
  /\ LET c == Head(todo)
     IN  IF Readable(c.cap)
         THEN /\ observations' = observations + 1
              /\ investigated' = investigated \cup c.targets
              /\ Act(c.cap)
         ELSE UNCHANGED <<observations, investigated, acts>>
  /\ todo' = Tail(todo)
  /\ UNCHANGED <<stage, round, hyps, facts, demanded, result>>

ReadsDone ==
  /\ stage = "read" /\ todo = << >>
  /\ IF observations > 0 THEN stage' = "extract" /\ UNCHANGED round ELSE NextRound
  /\ UNCHANGED <<hyps, facts, observations, investigated, demanded, todo, acts,
                 result>>

(* Mutant: one real observation is enough. *)
AdmitClaim_Any(sources) == sources = {} \/ sources \cap (1..observations) # {}

(* _admit_claims *)
AdmitClaim(sources) == sources \subseteq 1..observations

(* The extractor's claims, from the observations of all rounds, become     *)
(* facts under fresh identifiers.                                          *)
Extract ==
  /\ stage = "extract"
  /\ \/ UNCHANGED facts
     \/ \E sources \in SUBSET (1..observations \cup {Bogus}) :
          IF AdmitClaim(sources) THEN facts' = Append(facts, sources) ELSE UNCHANGED facts
  /\ NextRound
  /\ UNCHANGED <<hyps, observations, investigated, demanded, todo, acts, result>>

-----------------------------------------------------------------------------
(* Diagnosis and plan *)

Refuse(reason) == stage' = "done" /\ result' = [result EXCEPT !.reason = reason]

(* Mutant: the first supported hypothesis is the diagnosis. *)
Sole_First == In("SUPPORTED") # {}

Sole == Cardinality(In("SUPPORTED")) = 1

Conclude ==
  /\ stage = "conclude"
  /\ IF Sole THEN stage' = "diagnose" /\ UNCHANGED result
     ELSE Refuse(IF In("SUPPORTED") = {} THEN "NO_SUPPORTED_HYPOTHESIS"
                                         ELSE "MULTIPLE_SUPPORTED_HYPOTHESES")
  /\ UNCHANGED <<round, hyps, facts, observations, investigated, demanded, todo, acts>>

(* The diagnosis must name what the kernel computed. *)
Diagnose ==
  /\ stage = "diagnose"
  /\ \E named \in SUBSET Ids :
       IF named = {h.id : h \in In("SUPPORTED")}
       THEN stage' = "construct" /\ result' = [result EXCEPT !.winner = named]
       ELSE Refuse("DIAGNOSIS_DIVERGES_FROM_ADMITTED_STATE")
  /\ UNCHANGED <<round, hyps, facts, observations, investigated, demanded, todo, acts>>

(* The first plan whose steps are all real, also one without steps. *)
Construct ==
  /\ stage = "construct"
  /\ \/ Refuse("NO_VALID_PLAN") /\ UNCHANGED todo
     \/ /\ \E n \in 0..MaxPlan : \E c \in [1..n -> DoCaps] :
             todo' = [i \in 1..n |-> [cap |-> c[i], targets |-> {}]]
        /\ stage' = "act" /\ UNCHANGED result
  /\ UNCHANGED <<round, hyps, facts, observations, investigated, demanded, acts>>

(* A step that is refused does not stop the plan. *)
ActStep ==
  /\ stage = "act"
  /\ IF todo # << >>
     THEN Act(Head(todo).cap) /\ todo' = Tail(todo) /\ UNCHANGED <<stage, result>>
     ELSE /\ stage' = "done" /\ result' = [result EXCEPT !.admitted = TRUE, !.reason = "ADMITTED"]
          /\ UNCHANGED <<acts, todo>>
  /\ UNCHANGED <<round, hyps, facts, observations, investigated, demanded>>

-----------------------------------------------------------------------------
Next ==
  \/ Hypothesize \/ EvidenceLink \/ Closure \/ Rehypothesize \/ Discriminate
  \/ Read \/ ReadsDone \/ Extract \/ Conclude \/ Diagnose \/ Construct \/ ActStep

(* The loop runs as long as the language model answers. *)
Spec == Init /\ [][Next]_vars /\ WF_vars(Next)

-----------------------------------------------------------------------------
(* Properties *)

(* SUPPORTED, REFUTED and UNKNOWN follow from facts of the store only, and *)
(* one real contradiction is disqualifying, whatever the linker proposed   *)
(* in this or an earlier round.                                            *)
StatesAreGrounded ==
  \A h \in hyps :
    /\ h.supports \cup h.contradicts \subseteq FactIds
    /\ h.state = "SUPPORTED" => h.supports # {} /\ h.contradicts = {}
    /\ h.state = "REFUTED" => h.contradicts # {}

(* What is executed while hypotheses are open is in the caller's read set; *)
(* a capability of the do set alone runs only after a sole supported       *)
(* hypothesis was diagnosed.                                               *)
NothingIsDoneUndiagnosed ==
  \A i \in 1..Len(acts) :
    IF acts[i].stage = "read" THEN acts[i].cap \in ReadCaps
    ELSE acts[i].cap \in DoCaps /\ result.winner # {}

(* An admitted episode, and every executed plan, has one winner: the only  *)
(* hypothesis of the last portfolio that is supported.                     *)
TheWinnerIsSole ==
  result.winner # {} => /\ Cardinality(result.winner) = 1
                        /\ result.winner = {h.id : h \in In("SUPPORTED")}

(* The hypotheses that the linker is told to commit on are open ones of    *)
(* the current portfolio that reads were executed for.                     *)
DemandsAreCurrent == \A i \in demanded : i \in investigated /\ \E h \in In("UNKNOWN") : h.id = i

(* A minted fact cites observations that were made, never an invented one. *)
SourcesAreObserved == \A i \in FactIds : facts[i] \subseteq 1..observations

(* What the model claims is kept only as far as the loop saw it, and what  *)
(* is done waits for the diagnosis.                                        *)
ClaimsAreGrounded == StatesAreGrounded /\ SourcesAreObserved /\ DemandsAreCurrent
ActsFollowAdmission == NothingIsDoneUndiagnosed /\ TheWinnerIsSole /\ TypeOK

(* The inductive invariant behind them: identifiers name one hypothesis of *)
(* a portfolio, a winner is named only after the sole supported hypothesis *)
(* was seen, a plan has capabilities of the do set, and the reads that are *)
(* left fit into the rounds.                                               *)
Hypotheses == [id : Nat \X Nat, state : States, supports : SUBSET Nat, contradicts : SUBSET Nat]
Reasons ==
  {"", "ADMITTED", "NO_SUPPORTED_HYPOTHESIS", "MULTIPLE_SUPPORTED_HYPOTHESES",
   "DIAGNOSIS_DIVERGES_FROM_ADMITTED_STATE", "NO_VALID_PLAN"}
Answered == [admitted : BOOLEAN, reason : Reasons, winner : SUBSET (Nat \X Nat)]
PortfolioIsSound ==
  /\ IsFiniteSet(hyps) /\ hyps \subseteq Hypotheses
  /\ \A g, h \in hyps : g.id = h.id => g = h
  /\ stage = "hypothesize" => hyps = {}
StoreIsSound ==
  /\ facts \in Seq(SUBSET Nat) /\ investigated \subseteq Nat \X Nat
  /\ acts \in Seq([cap : Caps, stage : {"read", "act"}]) /\ result \in Answered
DiagnosisIsSole ==
  /\ stage \in {"diagnose", "construct", "act"} => Sole
  /\ result.winner # {} => stage \in {"construct", "act", "done"}
  /\ stage \in {"construct", "act"} => result.winner # {}
PlansAreReal ==
  /\ stage = "read" => todo \in Seq([cap : Caps \cup {Bogus}, targets : SUBSET (Nat \X Nat)])
  /\ stage = "act" => todo \in Seq([cap : DoCaps, targets : {{}}])
ReadsAreBounded ==
  /\ stage = "hypothesize" <=> round = 0
  /\ observations + (IF stage = "read" THEN Len(todo) ELSE 0)
       <= (IF stage \in {"link", "decide"} THEN round - 1 ELSE round) * MaxReads
EpistemicInvariant ==
  /\ ClaimsAreGrounded /\ ActsFollowAdmission /\ PortfolioIsSound /\ StoreIsSound
  /\ DiagnosisIsSole /\ PlansAreReal /\ ReadsAreBounded

(* _admit_claims: an answer with no real, linked grounding is              *)
(* inadmissible: every fact that was not a seed has a source.              *)
FactsAreSourced == \A i \in Seeds + 1..Len(facts) : facts[i] # {}

(* The frontier that the discriminator leaves open is refused: nothing is  *)
(* admitted while a hypothesis is still unknown.                           *)
OpenFrontierIsRefused == result.admitted => In("UNKNOWN") = {}

(* Every episode comes to an end, by closure or by its rounds. *)
EpisodesEnd == <>(stage = "done")
=============================================================================
