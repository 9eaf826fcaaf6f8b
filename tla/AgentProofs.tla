------------------------------ MODULE AgentProofs -----------------------------
(***************************************************************************)
(* Proofs about the loops that act for a language model: the tool-calling  *)
(* agent, the SREGym diagnosis agent, the epistemic kernel and the         *)
(* environment harness.  Each part is about an instance whose constants    *)
(* and variables are only declared, so its theorems hold for every         *)
(* instance, whatever the model answers and the kernel does.               *)
(***************************************************************************)
EXTENDS Integers, Sequences, FiniteSets, FunctionTheorems, FiniteSetTheorems,
        SequenceTheorems, WellFoundedInduction, TLAPS

CONSTANTS
  Names, Present, Hidden, Creators, MaxIters, MaxRuns,     \* ReactAgent
  MaxMoves, KernelRaises,
  Categories, InFlight, Store, MaxRecorded, MaxKubectl,    \* DiagnosisAgent
  LmFails, Lengths,
  Seeds, MaxHyps, MaxRounds, MaxReads, MaxPlan,            \* EpistemicLoop
  ReadCaps, DoCaps, Bogus,
  Legs, Worlds, Fresh, Caps, Reads, Effect, Harness, Goal, \* EnvHarness
  Actions, Always, Faults, MaxEpisodes, MaxCalls, MaxLate

VARIABLES
  await, asked, names, grounded, last, steps, iter,        \* ReactAgent
  runs, since, acted, late, unseen, moves,
  main, resolver, attempt, shown, hypothesis, passed,      \* DiagnosisAgent
  recorded, kubectl, submitted, admitted,
  stage, round, hyps, facts, observations,                 \* EpistemicLoop
  investigated, demanded, todo, acts, admission,
  at, call, leg, verified, session, ep, live, made,        \* EnvHarness
  world, pending, history, doing, index, saved, answers,
  start, past, orphans, result, calls

R == INSTANCE ReactAgent WITH at <- await, doing <- asked, world <- names
G == INSTANCE DiagnosisAgent WITH at <- resolver
E == INSTANCE EpistemicLoop WITH result <- admission
H == INSTANCE EnvHarness

-----------------------------------------------------------------------------
(* The tool-calling agent *)

(* What the proofs use of the assumption. *)
LEMMA ReactConstants ==
  ASSUME R!ReactAssumption
  PROVE  /\ Names # {} /\ Present \subseteq Names /\ Hidden \subseteq Names
         /\ MaxIters \in Nat /\ MaxRuns \in Nat /\ MaxMoves \in Nat
         /\ Creators \in BOOLEAN /\ KernelRaises \in BOOLEAN
  BY DEF R!ReactAssumption

(* The agent begins with nothing to cite. *)
LEMMA ReactInit ==
  ASSUME R!ReactAssumption, R!Init
  PROVE  R!ReactInvariant
<1>1. R!NoCall \in R!ToolCalls
  BY ReactConstants DEF R!NoCall, R!ToolCalls, R!Tools
<1>2. R!TypeOK
  BY <1>1, ReactConstants DEF R!Init, R!TypeOK
<1> QED
  BY <1>2 DEF R!Init, R!ReactInvariant, R!ClaimsAreGrounded, R!ActsAreGrounded,
              R!FinalObservationFollowsAccepted

(* Where the control can be. *)
Awaits == {"idle", "start", "think", "observe", "act", "refresh", "verify", "read"}

(* The types of what the agent was shown, and of what it did. *)
ShownTypes == names \subseteq Names /\ grounded \subseteq Names /\ last \subseteq Names
DoneTypes ==
  /\ asked \in R!ToolCalls /\ iter \in 0..MaxIters /\ runs \in 0..MaxRuns
  /\ steps \in Seq(R!ToolCalls) /\ moves \in 0..MaxMoves
LateTypes == late \subseteq R!Effects /\ unseen \subseteq Names

(* World and observation agree but for unseen names and the act itself. *)
SeenBut ==
  \A n \in Names :
    n \in unseen \/ (n \in names <=> n \in last) \/ (await = "refresh" /\ n = asked.name)

(* A state is good when these are. *)
LEMMA ReactGood ==
  ASSUME await' \in Awaits, ShownTypes', DoneTypes', LateTypes', R!ActsAreGrounded',
         grounded' = since', SeenBut'
  PROVE  R!ReactInvariant'
<1>1. R!TypeOK'
  BY DEF Awaits, ShownTypes, DoneTypes, LateTypes, R!TypeOK
<1>2. R!FinalObservationFollowsAccepted'
  BY DEF SeenBut, R!FinalObservationFollowsAccepted
<1> QED
  BY <1>1, <1>2 DEF R!ReactInvariant, R!ClaimsAreGrounded, SeenBut

(* And these follow. *)
LEMMA ReactInside ==
  ASSUME R!ReactInvariant
  PROVE  /\ await \in Awaits /\ ShownTypes /\ DoneTypes /\ LateTypes /\ R!ActsAreGrounded
         /\ grounded = since /\ SeenBut
  BY DEF Awaits, ShownTypes, DoneTypes, LateTypes, SeenBut, R!TypeOK, R!ReactInvariant,
         R!ClaimsAreGrounded

(* What a refresh, or none, leaves. *)
LEMMA ReactShown ==
  ASSUME R!ReactInvariant, names' = names, R!RefreshObservation \/ R!NotRefreshed
  PROVE  ShownTypes' /\ grounded' = since'
  BY ReactInside DEF ShownTypes, R!RefreshObservation, R!NotRefreshed

(* After a refresh, or when nothing moved, only unseen names differ. *)
LEMMA ReactSeen ==
  ASSUME R!ReactInvariant, UNCHANGED <<names, late>>,
         R!RefreshObservation \/ (R!NotRefreshed /\ await # "refresh")
  PROVE  SeenBut' /\ LateTypes'
  BY ReactInside DEF SeenBut, LateTypes, R!RefreshObservation, R!NotRefreshed

(* The step just made is one of a tool call. *)
LEMMA ReactLog ==
  ASSUME R!ReactInvariant, UNCHANGED <<asked, iter, runs, moves>>, R!Log \/ UNCHANGED steps
  PROVE  DoneTypes'
<1>1. steps \in Seq(R!ToolCalls) /\ asked \in R!ToolCalls
  BY ReactInside DEF DoneTypes
<1>2. Append(steps, asked) \in Seq(R!ToolCalls)
  BY <1>1, AppendProperties
<1> QED
  BY <1>1, <1>2, ReactInside DEF DoneTypes, R!Log

(* The model calls a tool. *)
LEMMA ReactCalls ==
  ASSUME R!ReactAssumption, R!ReactInvariant, NEW c \in R!ToolCalls, R!CallTool(c)
  PROVE  R!ReactInvariant'
<1>1. /\ await = "think" /\ iter < MaxIters /\ iter' = iter + 1 /\ asked' = c
      /\ UNCHANGED <<names, steps, runs, acted, late, moves>> /\ R!NotRefreshed
      /\ UNCHANGED <<last, grounded, since, unseen>>
  BY DEF R!CallTool, R!NotRefreshed
<1>2. /\ await' \in {"observe", "read", "act", "think"}
      /\ await' = "act" => R!Grounded(c)
  BY Zenon DEF R!CallTool
<1>3. ShownTypes'
  BY <1>1, ReactInside DEF ShownTypes
<1>4. DoneTypes'
  BY <1>1, ReactInside, ReactConstants DEF DoneTypes
<1>5. R!ActsAreGrounded'
  BY <1>1, <1>2, ReactInside DEF R!ActsAreGrounded, R!Grounded
<1>6. SeenBut' /\ LateTypes'
  BY <1>1, ReactSeen
<1> QED
  BY <1>1, <1>2, <1>3, <1>4, <1>5, <1>6, ReactInside, ReactGood DEF Awaits

(* What an act leaves alone of the names it does not name. *)
LEMMA ReactEffected ==
  ASSUME R!ReactInvariant, NEW c \in R!ToolCalls \cup R!Effects
  PROVE  /\ R!Effected(c) \subseteq Names /\ c.name \in Names
         /\ \A n \in Names : n # c.name => (n \in R!Effected(c) <=> n \in names)
<1>1. c.name \in Names
  BY DEF R!ToolCalls, R!Effects
<1> QED
  BY <1>1, ReactInside DEF R!Effected, ShownTypes

(* The kernel answers an act: accepted, or not, whatever it did. *)
LEMMA ReactActs ==
  ASSUME R!ReactAssumption, R!ReactInvariant, R!ActuateTool
  PROVE  R!ReactInvariant'
<1>1. /\ UNCHANGED <<asked, iter, runs, last, grounded, since>>
      /\ R!Log \/ UNCHANGED steps
      /\ await = "act"
      /\ (R!Accepted /\ await' = "refresh") \/ (R!NotAccepted /\ await' = "think")
  BY DEF R!ActuateTool, R!Fails
<1>2. asked \in R!ToolCalls
  BY ReactInside DEF DoneTypes
<1> DEFINE e == [tool |-> asked.tool, name |-> asked.name]
<1>3. /\ names' \in {names, R!Effected(asked)} /\ late' \in {late, late \cup {e}}
      /\ unseen' \in {unseen, unseen \cup {asked.name}}
      /\ names' # names => await' = "refresh" \/ asked.name \in unseen'
      /\ moves' = moves \/ (moves < MaxMoves /\ moves' = moves + 1)
  BY <1>1, Zenon DEF R!Accepted, R!NotAccepted
<1>4. ShownTypes' /\ DoneTypes'
  <2>1. ShownTypes'
    BY <1>1, <1>2, <1>3, ReactInside, ReactEffected DEF ShownTypes
  <2>2. moves' \in 0..MaxMoves
    BY <1>3, ReactInside, ReactConstants DEF DoneTypes
  <2>3. steps' \in Seq(R!ToolCalls)
    BY <1>1, <1>2, ReactInside, AppendProperties DEF R!Log, DoneTypes
  <2> QED
    BY <1>1, <2>1, <2>2, <2>3, ReactInside DEF DoneTypes
<1>5. LateTypes'
  <2>1. e \in R!Effects
    BY <1>2 DEF R!ToolCalls, R!Effects
  <2> QED
    BY <1>2, <1>3, <2>1, ReactInside, ReactEffected DEF LateTypes
<1>6. SeenBut'
  <2> SUFFICES ASSUME NEW n \in Names, n \notin unseen'
               PROVE  (n \in names' <=> n \in last) \/ (await' = "refresh" /\ n = asked.name)
    BY <1>1 DEF SeenBut
  <2>1. n \notin unseen
    BY <1>3
  <2>2. n \in names <=> n \in last
    BY <1>1, <2>1, ReactInside DEF SeenBut
  <2>3. CASE names' = names
    BY <2>2, <2>3
  <2>4. CASE names' = R!Effected(asked) /\ names' # names
    BY <1>2, <1>3, <2>2, <2>4, ReactEffected
  <2> QED
    BY <1>3, <2>3, <2>4
<1> QED
  BY <1>1, <1>4, <1>5, <1>6, ReactInside, ReactGood DEF Awaits, R!ActsAreGrounded

(* The world moves without the agent: others, and effects that come late. *)
LEMMA ReactMoves ==
  ASSUME R!ReactAssumption, R!ReactInvariant,
         R!Interfere \/ \E e \in R!Effects : R!LateEffect(e)
  PROVE  R!ReactInvariant'
<1>1. UNCHANGED <<await, asked, steps, iter, runs, last, grounded, since>>
  BY DEF R!Interfere, R!LateEffect
<1>2. PICK n \in Names :
        /\ names' \subseteq Names /\ unseen' = unseen \cup {n}
        /\ \A m \in Names : m # n => (m \in names' <=> m \in names)
  <2>1. CASE R!Interfere
    BY <2>1, ReactInside DEF R!Interfere, ShownTypes
  <2>2. CASE \E e \in R!Effects : R!LateEffect(e)
    <3>1. PICK e \in R!Effects : R!LateEffect(e)
      BY <2>2
    <3> QED
      BY <3>1, ReactEffected DEF R!LateEffect
  <2> QED
    BY <2>1, <2>2
<1>3. moves' \in 0..MaxMoves /\ late' \subseteq R!Effects
  BY ReactInside, ReactConstants DEF R!Interfere, R!LateEffect, DoneTypes, LateTypes
<1>4. ShownTypes' /\ DoneTypes' /\ LateTypes'
  BY <1>1, <1>2, <1>3, ReactInside DEF ShownTypes, DoneTypes, LateTypes
<1>5. SeenBut'
  BY <1>1, <1>2, ReactInside DEF SeenBut
<1> QED
  BY <1>1, <1>4, <1>5, ReactInside, ReactGood DEF R!ActsAreGrounded

(* Runs begin and end, the kernel answers the tools. *)
LEMMA ReactStep ==
  ASSUME R!ReactAssumption, R!ReactInvariant, [R!Next]_R!vars
  PROVE  R!ReactInvariant'
<1>1. CASE R!RunGoal \/ R!Finish \/ UNCHANGED R!vars
  <2>1. /\ UNCHANGED <<asked, names, late, moves, last, grounded, since, unseen>>
        /\ (await' \in {"start", "idle"} /\ await # "refresh") \/ await' = await
    BY <1>1 DEF R!RunGoal, R!Finish, R!vars, R!NotRefreshed
  <2>2. /\ runs' \in 0..MaxRuns /\ iter' \in 0..MaxIters
        /\ steps' \in {steps, << >>}
    BY <1>1, ReactInside, ReactConstants DEF R!RunGoal, R!Finish, R!vars, DoneTypes
  <2>3. ShownTypes' /\ DoneTypes'
    <3>1. ShownTypes /\ DoneTypes
      BY ReactInside
    <3>2. << >> \in Seq(R!ToolCalls)
      OBVIOUS
    <3>3. ShownTypes'
      BY <2>1, <3>1 DEF ShownTypes
    <3>4. steps' \in Seq(R!ToolCalls)
      BY <2>2, <3>1, <3>2 DEF DoneTypes
    <3> QED
      BY <2>1, <2>2, <3>1, <3>3, <3>4 DEF DoneTypes
  <2>4. R!ActsAreGrounded' /\ await' \in Awaits
    BY <2>1, ReactInside DEF R!ActsAreGrounded, Awaits
  <2>5. SeenBut' /\ LateTypes'
    BY <2>1, ReactInside DEF SeenBut, LateTypes
  <2> QED
    BY <2>1, <2>3, <2>4, <2>5, ReactInside, ReactGood
<1>2. CASE R!FirstObservation \/ R!ObserveTool
  <2>1. /\ UNCHANGED <<asked, names, iter, runs, late, moves>> /\ await' \in {"think", "idle"}
        /\ R!Log \/ UNCHANGED steps
        /\ R!RefreshObservation \/ (R!NotRefreshed /\ await # "refresh")
    BY <1>2 DEF R!FirstObservation, R!ObserveTool, R!Fails
  <2> QED
    BY <2>1, ReactSeen, ReactShown, ReactLog, ReactGood DEF Awaits, R!ActsAreGrounded
<1>3. CASE \E c \in R!ToolCalls : R!CallTool(c)
  BY <1>3, ReactCalls
<1>4. CASE R!ActuateTool
  BY <1>4, ReactActs
<1>5. CASE R!AfterActuation
  <2>1. /\ UNCHANGED <<asked, names, iter, runs, late, moves>> /\ await' \in {"verify", "think"}
        /\ R!Log \/ UNCHANGED steps
        /\ \/ R!RefreshObservation
           \/ unseen' = unseen \cup {asked.name} /\ UNCHANGED <<last, grounded, since>>
    BY <1>5 DEF R!AfterActuation, R!Fails
  <2>2. CASE R!RefreshObservation
    BY <2>1, <2>2, ReactSeen, ReactShown, ReactLog, ReactGood DEF Awaits, R!ActsAreGrounded
  <2>3. CASE unseen' = unseen \cup {asked.name} /\ UNCHANGED <<last, grounded, since>>
    <3>1. asked.name \in Names
      BY ReactInside DEF DoneTypes, R!ToolCalls
    <3>2. SeenBut' /\ LateTypes'
      BY <2>1, <2>3, <3>1, ReactInside DEF SeenBut, LateTypes
    <3>3. ShownTypes' /\ grounded' = since'
      BY <2>1, <2>3, ReactInside DEF ShownTypes
    <3> QED
      BY <2>1, <3>2, <3>3, ReactLog, ReactGood DEF Awaits, R!ActsAreGrounded
  <2> QED
    BY <2>1, <2>2, <2>3
<1>6. CASE R!VerifyAfterActuation
  <2>1. /\ UNCHANGED <<asked, names, iter, runs, late, moves>> /\ await' = "think"
        /\ await = "verify" /\ (R!Log \/ UNCHANGED steps) /\ R!NotRefreshed
    BY <1>6 DEF R!VerifyAfterActuation, R!Fails
  <2> QED
    BY <2>1, ReactSeen, ReactShown, ReactLog, ReactGood DEF Awaits, R!ActsAreGrounded
<1>7. CASE R!ReadTool
  <2>1. /\ UNCHANGED <<asked, names, iter, runs, late, moves, last, unseen>> /\ await' = "think"
        /\ await = "read" /\ (R!Log \/ UNCHANGED steps)
        /\ \E S \in SUBSET (names \cup Hidden) :
             grounded' = grounded \cup S /\ since' = since \cup S
    <3>1. CASE R!NotRefreshed /\ R!Fails
      <4>1. grounded' = grounded \cup {} /\ since' = since \cup {}
        BY <3>1 DEF R!NotRefreshed
      <4> QED
        BY <1>7, <3>1, <4>1 DEF R!ReadTool, R!Fails, R!NotRefreshed
    <3>2. CASE ~(R!NotRefreshed /\ R!Fails)
      BY <1>7, <3>2 DEF R!ReadTool
    <3> QED
      BY <3>1, <3>2
  <2>2. ShownTypes' /\ grounded' = since'
    BY <2>1, ReactInside, ReactConstants DEF ShownTypes
  <2>3. SeenBut' /\ LateTypes'
    BY <2>1, ReactInside DEF SeenBut, LateTypes
  <2> QED
    BY <2>1, <2>2, <2>3, ReactLog, ReactGood DEF Awaits, R!ActsAreGrounded
<1>8. CASE R!Interfere \/ \E e \in R!Effects : R!LateEffect(e)
  BY <1>8, ReactMoves
<1> QED
  BY <1>1, <1>2, <1>3, <1>4, <1>5, <1>6, <1>7, <1>8 DEF R!Next, R!AgentStep

-----------------------------------------------------------------------------
(* The diagnosis agent *)

(* The operators of the instance are those of FiniteSets. *)
LEMMA SameSizes ==
  /\ \A S : G!IsFiniteSet(S) = IsFiniteSet(S) /\ G!Cardinality(S) = Cardinality(S)
  /\ \A S : E!IsFiniteSet(S) = IsFiniteSet(S) /\ E!Cardinality(S) = Cardinality(S)
  BY DEF G!IsFiniteSet, G!Cardinality, E!IsFiniteSet, E!Cardinality, IsFiniteSet, Cardinality

(* The types, with the domains of the functions. *)
Mains == {"prepass", "resolve", "admit", "synthesize", "submit", "mitigate", "done", "raised"}
Phases == {"none", "waiting", "running", "resolved", "raised"}
Recorded == [id : Nat, by : Categories]
Submissions == [what : {"diagnosis", "mitigation"}, ok : BOOLEAN]
RunTypes == main \in Mains /\ admitted \in BOOLEAN /\ kubectl \in 0..MaxKubectl
ResolverTypes ==
  /\ resolver \in [Categories -> Phases] /\ attempt \in [Categories -> 0..2]
  /\ hypothesis \in [Categories -> G!Hypotheses] /\ passed \in [Categories -> BOOLEAN]
LogTypes ==
  /\ recorded \in Seq(Recorded) /\ Len(recorded) <= MaxRecorded
  /\ submitted \in Seq(Submissions)

(* Facts numbered in order have identifiers of their own. *)
LEMMA NumberedAreUnique ==
  ASSUME recorded \in Seq(Recorded), G!FactsAreNumbered
  PROVE  G!RecordedIdsAreUnique
<1>1. Len(recorded) \in Nat
  OBVIOUS
<1>2. G!RecordedIds = 0..(Len(recorded) - 1)
  <2>1. \A i \in 1..Len(recorded) : recorded[i].id = i - 1
    BY DEF G!FactsAreNumbered
  <2>2. \A k \in 0..(Len(recorded) - 1) : k + 1 \in 1..Len(recorded) /\ (k + 1) - 1 = k
    BY <1>1
  <2>3. \A k \in 0..(Len(recorded) - 1) : k \in G!RecordedIds
    BY <2>1, <2>2 DEF G!RecordedIds
  <2>4. \A k \in G!RecordedIds : k \in 0..(Len(recorded) - 1)
    BY <1>1, <2>1 DEF G!RecordedIds
  <2> QED
    BY <2>3, <2>4
<1>3. Cardinality(0..(Len(recorded) - 1)) = Len(recorded)
  <2>1. PICK k : k = Len(recorded) - 1
    OBVIOUS
  <2>2. k \in Int /\ 0 \in Int /\ Len(recorded) = k + 1 /\ k >= -1
    BY <1>1, <2>1
  <2>3. Cardinality(0..k) = IF 0 > k THEN 0 ELSE k - 0 + 1
    BY <2>2, FS_Interval
  <2> QED
    BY <2>1, <2>2, <2>3
<1> QED
  BY <1>2, <1>3, SameSizes DEF G!RecordedIdsAreUnique

(* A state is good when these are. *)
LEMMA DiagnosisGood ==
  ASSUME RunTypes', ResolverTypes', LogTypes', G!GateIsLast', G!PassedIsValid',
         G!FactsAreNumbered', G!SubmissionsAreInOrder', G!SubmissionsFollowAdmission',
         G!AdmittedIsGrounded', G!PassedStaysValid', G!InFlightIsBounded'
  PROVE  G!DiagnosisInvariant'
<1>1. G!RecordedIdsAreUnique'
  <2>1. (recorded \in Seq(Recorded))'
    BY DEF LogTypes
  <2> QED
    BY <2>1, NumberedAreUnique, PTL
<1>2. G!TypeOK'
  BY DEF RunTypes, ResolverTypes, LogTypes, Mains, Phases, G!TypeOK, G!Ended, G!Hypotheses
<1>3. G!AgentsAreSound'
  BY DEF ResolverTypes, LogTypes, Recorded, Submissions, G!AgentsAreSound
<1> QED
  BY <1>1, <1>2, <1>3 DEF G!DiagnosisInvariant, G!ClaimsAreGrounded, G!ActsFollowAdmission

(* And these follow. *)
LEMMA DiagnosisInside ==
  ASSUME G!DiagnosisInvariant
  PROVE  /\ RunTypes /\ ResolverTypes /\ LogTypes /\ G!GateIsLast /\ G!PassedIsValid
         /\ G!FactsAreNumbered /\ G!SubmissionsAreInOrder /\ G!SubmissionsFollowAdmission
         /\ G!AdmittedIsGrounded /\ G!PassedStaysValid /\ G!InFlightIsBounded
<1>1. G!TypeOK /\ G!AgentsAreSound
  BY DEF G!DiagnosisInvariant, G!ActsFollowAdmission
<1>2. RunTypes
  BY <1>1 DEF RunTypes, Mains, G!TypeOK, G!Ended
<1>3. ResolverTypes
  BY <1>1 DEF ResolverTypes, Phases, G!TypeOK, G!AgentsAreSound
<1>4. LogTypes
  BY <1>1 DEF LogTypes, Recorded, Submissions, G!TypeOK, G!AgentsAreSound
<1> QED
  BY <1>2, <1>3, <1>4 DEF G!DiagnosisInvariant, G!ClaimsAreGrounded, G!ActsFollowAdmission

(* Nobody runs at first. *)
LEMMA DiagnosisInit ==
  ASSUME G!DiagnosisAssumption, G!Init
  PROVE  G!DiagnosisInvariant
<1>1. G!NoHypothesis \in G!Hypotheses
  BY DEF G!NoHypothesis, G!Hypotheses, G!States
<1>2. RunTypes /\ ResolverTypes
  <2>1. MaxKubectl \in Nat
    BY DEF G!DiagnosisAssumption
  <2>2. RunTypes
    <3>1. main = "prepass" /\ kubectl = 0 /\ admitted = FALSE
      BY DEF G!Init
    <3>2. main \in Mains /\ kubectl \in 0..MaxKubectl
      BY <2>1, <3>1 DEF Mains
    <3> QED
      BY <3>1, <3>2 DEF RunTypes
  <2>3. /\ resolver = [c \in Categories |-> "none"] /\ attempt = [c \in Categories |-> 0]
        /\ hypothesis = [c \in Categories |-> G!NoHypothesis]
        /\ passed = [c \in Categories |-> FALSE]
    BY DEF G!Init
  <2>4. resolver \in [Categories -> Phases] /\ attempt \in [Categories -> 0..2]
    BY <2>3 DEF Phases
  <2>5. hypothesis \in [Categories -> G!Hypotheses] /\ passed \in [Categories -> BOOLEAN]
    BY <1>1, <2>3
  <2> QED
    BY <2>2, <2>4, <2>5 DEF ResolverTypes
<1>3. LogTypes
  <2>1. << >> \in Seq(Recorded) /\ << >> \in Seq(Submissions) /\ Len(<< >>) = 0
    OBVIOUS
  <2>2. MaxRecorded \in Nat
    BY DEF G!DiagnosisAssumption
  <2> QED
    BY <2>1, <2>2 DEF G!Init, LogTypes
<1>4. G!Running = {} /\ InFlight \in Nat
  BY DEF G!Init, G!Running, G!DiagnosisAssumption
<1>5. G!InFlightIsBounded
  BY <1>4, SameSizes, FS_EmptySet DEF G!InFlightIsBounded
<1>6. \A i \in 1..Len(<< >>) : FALSE
  OBVIOUS
<1>7. Len(<< >>) = 0
  OBVIOUS
<1>8. G!FactsAreNumbered /\ G!SubmissionsAreInOrder /\ G!SubmissionsFollowAdmission
  BY <1>6, <1>7 DEF G!Init, G!FactsAreNumbered, G!SubmissionsAreInOrder,
                    G!SubmissionsFollowAdmission
<1>9. G!GateIsLast /\ G!PassedIsValid /\ G!AdmittedIsGrounded /\ G!PassedStaysValid
  BY DEF G!Init, G!GateIsLast, G!PassedIsValid, G!AdmittedIsGrounded, G!PassedStaysValid
<1>10. G!RecordedIdsAreUnique
  BY <1>3, <1>8, NumberedAreUnique DEF LogTypes
<1>11. G!TypeOK
  BY <1>2, <1>3 DEF RunTypes, ResolverTypes, LogTypes, Mains, Phases, G!TypeOK, G!Ended,
                    G!Hypotheses
<1>12. G!AgentsAreSound
  BY <1>2, <1>3 DEF ResolverTypes, LogTypes, Recorded, Submissions, G!AgentsAreSound
<1> QED
  BY <1>5, <1>8, <1>9, <1>10, <1>11, <1>12
     DEF G!DiagnosisInvariant, G!ClaimsAreGrounded, G!ActsFollowAdmission

(* The semaphore admits one more when there is room, and nobody else. *)
LEMMA SemaphoreHolds ==
  ASSUME G!DiagnosisAssumption, G!DiagnosisInvariant, NEW c \in Categories,
         NEW p \in Phases, resolver' = [resolver EXCEPT ![c] = p],
         p = "running" => G!Cardinality(G!Running) < InFlight
  PROVE  G!InFlightIsBounded'
<1>1. resolver \in [Categories -> Phases] /\ G!Cardinality(G!Running) <= InFlight
  BY DiagnosisInside DEF ResolverTypes, G!InFlightIsBounded
<1>2. IsFiniteSet(Categories) /\ InFlight \in Nat
  BY SameSizes DEF G!DiagnosisAssumption
<1>3. IsFiniteSet(G!Running) /\ Cardinality(G!Running) \in Nat
  BY <1>2, FS_Subset, FS_CardinalityType DEF G!Running
<1>4. CASE p = "running"
  <2>1. G!Running' = G!Running \cup {c}
    BY <1>1, <1>4 DEF G!Running
  <2>2. Cardinality(G!Running \cup {c}) <= Cardinality(G!Running) + 1
    BY <1>3, FS_AddElement
  <2>3. Cardinality(G!Running \cup {c}) \in Nat
    BY <1>3, FS_AddElement, FS_CardinalityType
  <2>4. Cardinality(G!Running) < InFlight
    BY <1>4, SameSizes
  <2>5. Cardinality(G!Running \cup {c}) <= InFlight
    BY <1>2, <1>3, <2>2, <2>3, <2>4
  <2> QED
    BY <2>1, <2>5, SameSizes DEF G!InFlightIsBounded
<1>5. CASE p # "running"
  <2>1. G!Running' \in SUBSET G!Running
    BY <1>1, <1>5 DEF G!Running
  <2>2. IsFiniteSet(G!Running') /\ Cardinality(G!Running') <= Cardinality(G!Running)
    BY <1>3, <2>1, FS_Subset
  <2>3. Cardinality(G!Running') \in Nat
    BY <2>2, FS_CardinalityType
  <2> QED
    BY <1>1, <1>2, <1>3, <2>2, <2>3, SameSizes DEF G!InFlightIsBounded
<1> QED
  BY <1>4, <1>5

(* Facts are only added. *)
LEMMA FactsGrow ==
  ASSUME recorded \in Seq(Recorded), NEW f \in Recorded, recorded' = Append(recorded, f)
  PROVE  G!Facts \subseteq G!Facts' /\ recorded' \in Seq(Recorded)
<1>1. /\ Len(recorded) \in Nat /\ Len(recorded') = Len(recorded) + 1
      /\ \A i \in 1..Len(recorded) : recorded'[i] = recorded[i]
      /\ recorded' \in Seq(Recorded)
  BY AppendProperties
<1> QED
  BY <1>1 DEF G!Facts, G!RecordedIds

(* What passed still does when facts were added. *)
LEMMA PassedGrows ==
  ASSUME G!PassedIsValid, G!Facts \subseteq G!Facts', UNCHANGED <<hypothesis, passed>>
  PROVE  G!PassedIsValid'
  BY DEF G!PassedIsValid, G!ValidateHypothesis, G!EvidenceIsGrounded

(* A resolver that is at work keeps the gate from being reached. *)
LEMMA GateIsOpen ==
  ASSUME G!DiagnosisInvariant, NEW c \in Categories, resolver[c] # "resolved"
  PROVE  ~admitted /\ main \notin {"synthesize", "submit", "mitigate", "done"}
  BY DiagnosisInside DEF G!GateIsLast

(* Steps of a resolver, when another field than those it names stays. *)
LEMMA ResolverKeeps ==
  ASSUME G!DiagnosisAssumption, G!DiagnosisInvariant, NEW c \in Categories,
         resolver[c] # "resolved", NEW p \in Phases, resolver' = [resolver EXCEPT ![c] = p],
         p = "running" => G!Cardinality(G!Running) < InFlight,
         main' \in {main, "raised"}, UNCHANGED <<admitted, submitted>>,
         ResolverTypes', LogTypes', kubectl' \in 0..MaxKubectl,
         G!PassedIsValid', G!FactsAreNumbered'
  PROVE  G!DiagnosisInvariant'
<1>1. ~admitted /\ main \notin {"synthesize", "submit", "mitigate", "done"}
  BY GateIsOpen
<1>2. RunTypes'
  BY DiagnosisInside DEF RunTypes, Mains
<1>3. G!GateIsLast' /\ G!AdmittedIsGrounded' /\ G!PassedStaysValid'
  BY <1>1 DEF G!GateIsLast, G!AdmittedIsGrounded, G!PassedStaysValid
<1>4. submitted = << >>
  BY <1>1, DiagnosisInside DEF G!SubmissionsAreInOrder
<1>5. G!SubmissionsAreInOrder' /\ G!SubmissionsFollowAdmission'
  BY <1>1, <1>4, DiagnosisInside DEF G!SubmissionsAreInOrder, G!SubmissionsFollowAdmission
<1> QED
  BY <1>2, <1>3, <1>5, SemaphoreHolds, DiagnosisGood

(* The steps of a resolver. *)
LEMMA ResolverSteps ==
  ASSUME G!DiagnosisAssumption, G!DiagnosisInvariant, NEW c \in Categories,
         G!Resolver(c) \/ G!RunKubectl(c) \/ G!RecordFact(c)
  PROVE  G!DiagnosisInvariant'
<1>1. /\ RunTypes /\ ResolverTypes /\ LogTypes /\ G!PassedIsValid /\ G!FactsAreNumbered
      /\ {MaxKubectl, MaxRecorded} \subseteq Nat /\ resolver \in [Categories -> Phases]
  BY DiagnosisInside DEF G!DiagnosisAssumption, ResolverTypes
<1>2. CASE G!Acquire(c)
  <2>1. /\ resolver[c] = "waiting" /\ G!Cardinality(G!Running) < InFlight
        /\ resolver' = [resolver EXCEPT ![c] = "running"]
        /\ UNCHANGED <<main, attempt, shown, hypothesis, passed, recorded, kubectl, submitted,
                       admitted>>
    BY <1>2 DEF G!Acquire
  <2>2. ResolverTypes' /\ LogTypes' /\ kubectl' \in 0..MaxKubectl
    BY <1>1, <2>1 DEF ResolverTypes, LogTypes, RunTypes, Phases
  <2>3. G!PassedIsValid' /\ G!FactsAreNumbered'
    BY <1>1, <2>1 DEF G!PassedIsValid, G!FactsAreNumbered, G!Facts, G!RecordedIds
  <2> QED
    BY <2>1, <2>2, <2>3, ResolverKeeps DEF Phases
<1>3. CASE G!ResolverRaises(c)
  <2>1. /\ resolver[c] = "running" /\ resolver' = [resolver EXCEPT ![c] = "raised"]
        /\ main' \in {main, "raised"}
        /\ UNCHANGED <<attempt, shown, hypothesis, passed, recorded, kubectl, submitted,
                       admitted>>
    BY <1>3 DEF G!ResolverRaises
  <2>2. ResolverTypes' /\ LogTypes' /\ kubectl' \in 0..MaxKubectl
    BY <1>1, <2>1 DEF ResolverTypes, LogTypes, RunTypes, Phases
  <2>3. G!PassedIsValid' /\ G!FactsAreNumbered'
    BY <1>1, <2>1 DEF G!PassedIsValid, G!FactsAreNumbered, G!Facts, G!RecordedIds
  <2> QED
    BY <2>1, <2>2, <2>3, ResolverKeeps DEF Phases
<1>4. CASE G!RunKubectl(c)
  <2>1. /\ resolver[c] = "running" /\ kubectl < MaxKubectl /\ kubectl' = kubectl + 1
        /\ UNCHANGED <<main, resolver, attempt, shown, hypothesis, passed, recorded, submitted,
                       admitted>>
    BY <1>4 DEF G!RunKubectl
  <2>2. /\ kubectl' \in 0..MaxKubectl /\ ResolverTypes' /\ LogTypes' /\ RunTypes'
    BY <1>1, <2>1 DEF RunTypes, ResolverTypes, LogTypes
  <2>3. /\ G!GateIsLast' /\ G!PassedIsValid' /\ G!FactsAreNumbered' /\ G!SubmissionsAreInOrder'
        /\ G!SubmissionsFollowAdmission'
    BY <2>1, DiagnosisInside DEF G!GateIsLast, G!PassedIsValid, G!FactsAreNumbered,
       G!SubmissionsAreInOrder, G!SubmissionsFollowAdmission, G!Facts, G!RecordedIds
  <2>4. G!AdmittedIsGrounded' /\ G!PassedStaysValid' /\ G!InFlightIsBounded'
    BY <2>1, DiagnosisInside DEF G!AdmittedIsGrounded, G!PassedStaysValid, G!InFlightIsBounded,
       G!Facts, G!RecordedIds, G!Running
  <2> QED
    BY <2>2, <2>3, <2>4, DiagnosisGood
<1>5. CASE G!RecordFact(c)
  <2> DEFINE f == [id |-> Len(recorded), by |-> c]
  <2>1. /\ resolver[c] = "running" /\ Len(recorded) < MaxRecorded /\ recorded' = Append(recorded, f)
        /\ UNCHANGED <<main, resolver, attempt, shown, hypothesis, passed, kubectl, submitted,
                       admitted>>
    BY <1>5 DEF G!RecordFact
  <2>2. recorded \in Seq(Recorded) /\ Len(recorded) \in Nat /\ f \in Recorded
        /\ f.id = Len(recorded)
    BY <1>1 DEF LogTypes, Recorded
  <2> HIDE DEF f
  <2>3. /\ Len(recorded') = Len(recorded) + 1 /\ recorded' \in Seq(Recorded)
        /\ recorded'[Len(recorded) + 1] = f
        /\ \A i \in 1..Len(recorded) : recorded'[i] = recorded[i]
    BY <2>1, <2>2, AppendProperties
  <2>4. G!FactsAreNumbered'
    <3> SUFFICES ASSUME NEW i \in 1..Len(recorded')
                 PROVE  recorded'[i].id = i - 1
      BY DEF G!FactsAreNumbered
    <3>1. i \in 1..Len(recorded) \/ i = Len(recorded) + 1
      BY <2>2, <2>3
    <3> QED
      BY <1>1, <2>2, <2>3, <3>1 DEF G!FactsAreNumbered
  <2>5. G!PassedIsValid'
    BY <1>1, <2>1, <2>2, FactsGrow, PassedGrows
  <2>6. ResolverTypes' /\ LogTypes' /\ kubectl' \in 0..MaxKubectl
    BY <1>1, <2>1, <2>2, <2>3 DEF ResolverTypes, LogTypes, RunTypes
  <2>7. /\ ~admitted /\ main \notin {"synthesize", "submit", "mitigate", "done"}
        /\ submitted = << >>
    BY <2>1, GateIsOpen, DiagnosisInside DEF G!SubmissionsAreInOrder
  <2>8. RunTypes' /\ G!GateIsLast' /\ G!AdmittedIsGrounded' /\ G!PassedStaysValid'
    BY <1>1, <2>1, <2>7 DEF RunTypes, G!GateIsLast, G!AdmittedIsGrounded, G!PassedStaysValid
  <2>9. G!SubmissionsAreInOrder' /\ G!SubmissionsFollowAdmission' /\ G!InFlightIsBounded'
    BY <2>1, <2>7, DiagnosisInside DEF G!SubmissionsAreInOrder, G!SubmissionsFollowAdmission,
       G!InFlightIsBounded, G!Running
  <2> QED
    BY <2>4, <2>5, <2>6, <2>8, <2>9, DiagnosisGood
<1>6. CASE \E h \in G!Answers : G!Resolve(c, h)
  <2>1. PICK h \in G!Answers : G!Resolve(c, h)
    BY <1>6
  <2>2. PICK valid \in BOOLEAN : valid = G!ValidateHypothesis(h, G!Facts)
    BY DEF G!ValidateHypothesis
  <2>3. /\ resolver[c] = "running"
        /\ hypothesis' = [hypothesis EXCEPT ![c] = h] /\ passed' = [passed EXCEPT ![c] = valid]
        /\ \/ resolver' = [resolver EXCEPT ![c] = "resolved"] /\ UNCHANGED attempt
           \/ /\ resolver' = [resolver EXCEPT ![c] = "waiting"]
              /\ attempt' = [attempt EXCEPT ![c] = 2]
        /\ UNCHANGED <<main, recorded, kubectl, submitted, admitted>>
    BY <2>1, <2>2 DEF G!Resolve
  <2>4. h \in G!Hypotheses
    <3>1. G!States = {"UNKNOWN", "SUPPORTED", "REFUTED"} /\ Lengths \subseteq BOOLEAN
      BY DEF G!States, G!DiagnosisAssumption
    <3>2. MaxRecorded \in Nat
      BY <1>1
    <3>3. 0..(MaxRecorded - 1) \subseteq Nat
      BY <3>2
    <3> QED
      BY <3>1, <3>3 DEF G!Answers, G!Hypotheses
  <2>5. ResolverTypes' /\ LogTypes' /\ kubectl' \in 0..MaxKubectl
    BY <1>1, <2>3, <2>4 DEF ResolverTypes, LogTypes, RunTypes, Phases
  <2>6. G!Facts' = G!Facts /\ G!FactsAreNumbered'
    BY <1>1, <2>3 DEF G!Facts, G!RecordedIds, G!FactsAreNumbered
  <2>7. G!PassedIsValid'
    <3> SUFFICES ASSUME NEW d \in Categories, passed'[d]
                 PROVE  G!ValidateHypothesis(hypothesis'[d], G!Facts')
      BY DEF G!PassedIsValid
    <3>1. CASE d = c
      BY <1>1, <2>2, <2>3, <2>6, <3>1 DEF ResolverTypes
    <3>2. CASE d # c
      BY <1>1, <2>3, <2>6, <3>2 DEF ResolverTypes, G!PassedIsValid
    <3> QED
      BY <3>1, <3>2
  <2> QED
    BY <2>3, <2>5, <2>6, <2>7, ResolverKeeps DEF Phases
<1> QED
  BY <1>2, <1>3, <1>4, <1>5, <1>6 DEF G!Resolver

(* The gate, and what follows it. *)
LEMMA MainSteps ==
  ASSUME G!DiagnosisAssumption, G!DiagnosisInvariant, G!Main
  PROVE  G!DiagnosisInvariant'
<1>1. /\ RunTypes /\ ResolverTypes /\ LogTypes /\ G!GateIsLast /\ G!PassedIsValid
      /\ G!FactsAreNumbered /\ G!SubmissionsAreInOrder /\ G!SubmissionsFollowAdmission
      /\ G!AdmittedIsGrounded /\ G!PassedStaysValid /\ G!InFlightIsBounded
  BY DiagnosisInside
<1>2. UNCHANGED <<hypothesis, passed, recorded, kubectl>>
  BY DEF G!Main, G!PrePass, G!PrePassRaises, G!Admit, G!Synthesize, G!SubmitDiagnosis,
         G!SubmitMitigation
<1>3. G!Facts' = G!Facts /\ G!FactsAreNumbered' /\ G!PassedIsValid'
  BY <1>1, <1>2 DEF G!Facts, G!RecordedIds, G!FactsAreNumbered, G!PassedIsValid
<1>4. Len(submitted) \in Nat /\ (submitted = << >> => Len(submitted) = 0)
  BY <1>1 DEF LogTypes
<1>5. CASE G!PrePass
  <2>1. /\ main = "prepass" /\ main' = "resolve" /\ resolver' = [c \in Categories |-> "waiting"]
        /\ attempt' = [c \in Categories |-> 1] /\ UNCHANGED <<submitted, admitted>>
    BY <1>5 DEF G!PrePass
  <2>2. ~admitted /\ submitted = << >>
    BY <1>1, <2>1 DEF G!GateIsLast, G!SubmissionsAreInOrder, G!Ended
  <2>3. RunTypes' /\ ResolverTypes' /\ LogTypes'
    BY <1>1, <1>2, <2>1 DEF RunTypes, ResolverTypes, LogTypes, Mains, Phases
  <2>4. /\ G!GateIsLast' /\ G!AdmittedIsGrounded' /\ G!PassedStaysValid'
        /\ G!SubmissionsAreInOrder' /\ G!SubmissionsFollowAdmission'
    BY <1>1, <2>1, <2>2 DEF G!GateIsLast, G!AdmittedIsGrounded, G!PassedStaysValid,
       G!SubmissionsAreInOrder, G!SubmissionsFollowAdmission
  <2>5. G!Running' = {} /\ InFlight \in Nat
    BY <2>1 DEF G!Running, G!DiagnosisAssumption
  <2>6. G!InFlightIsBounded'
    BY <2>5, SameSizes, FS_EmptySet DEF G!InFlightIsBounded
  <2> QED
    BY <1>3, <2>3, <2>4, <2>6, DiagnosisGood
<1>6. CASE ~G!PrePass
  <2>1. UNCHANGED <<resolver, attempt>>
    BY <1>6 DEF G!Main, G!PrePassRaises, G!Admit, G!Synthesize, G!SubmitDiagnosis,
                G!SubmitMitigation
  <2>2. G!InFlightIsBounded' /\ ResolverTypes'
    BY <1>1, <1>2, <2>1 DEF G!InFlightIsBounded, G!Running, ResolverTypes
  <2>3. CASE G!PrePassRaises \/ G!Synthesize
    <3>1. /\ main \in {"prepass", "synthesize"} /\ main' \in {"raised", "submit"}
          /\ main' = "submit" => main = "synthesize"
          /\ UNCHANGED <<submitted, admitted>>
      BY <2>3 DEF G!PrePassRaises, G!Synthesize
    <3>2. RunTypes' /\ LogTypes'
      BY <1>1, <1>2, <3>1 DEF RunTypes, LogTypes, Mains
    <3>3. G!GateIsLast' /\ G!PassedStaysValid'
      BY <1>1, <2>1, <3>1 DEF G!GateIsLast, G!PassedStaysValid, G!Ended
    <3>4. G!AdmittedIsGrounded'
      BY <1>1, <1>2, <1>3, <3>1 DEF G!AdmittedIsGrounded
    <3>5. G!SubmissionsAreInOrder' /\ G!SubmissionsFollowAdmission'
      BY <1>1, <3>1 DEF G!SubmissionsAreInOrder, G!SubmissionsFollowAdmission
    <3> QED
      BY <1>3, <2>2, <3>2, <3>3, <3>4, <3>5, DiagnosisGood
  <2>4. CASE G!Admit
    <3>1. /\ main = "resolve" /\ \A c \in Categories : resolver[c] = "resolved"
          /\ admitted' = G!AdmitDiagnosis(hypothesis, G!Facts)
          /\ main' = IF admitted' THEN "synthesize" ELSE "done"
          /\ UNCHANGED submitted
      BY <2>4 DEF G!Admit
    <3>2. admitted' \in BOOLEAN
      BY <3>1 DEF G!AdmitDiagnosis
    <3>3. RunTypes' /\ LogTypes'
      BY <1>1, <1>2, <3>1, <3>2 DEF RunTypes, LogTypes, Mains
    <3>4. G!GateIsLast'
      BY <2>1, <3>1 DEF G!GateIsLast, G!Ended
    <3>5. submitted = << >>
      BY <1>1, <3>1 DEF G!SubmissionsAreInOrder
    <3>6. G!SubmissionsAreInOrder' /\ G!SubmissionsFollowAdmission'
      BY <1>4, <3>1, <3>5 DEF G!SubmissionsAreInOrder, G!SubmissionsFollowAdmission
    <3>7. G!AdmittedIsGrounded'
      <4> SUFFICES ASSUME admitted'
                   PROVE  G!AdmittedIsGrounded'
        BY DEF G!AdmittedIsGrounded
      <4>1. G!AdmitDiagnosis(hypothesis, G!Facts)
        BY <3>1
      <4> QED
        BY <1>2, <1>3, <4>1 DEF G!AdmittedIsGrounded, G!AdmitDiagnosis, G!ValidateHypothesis,
                                G!EvidenceIsGrounded
    <3>8. G!PassedStaysValid'
      <4> SUFFICES ASSUME ~admitted', \A c \in Categories : passed'[c]
                   PROVE  G!Cardinality({c \in Categories : hypothesis'[c].state = "SUPPORTED"}) # 1
        BY DEF G!PassedStaysValid
      <4>1. ~G!AdmitDiagnosis(hypothesis, G!Facts)
        BY <3>1
      <4>2. \A c \in Categories : G!ValidateHypothesis(hypothesis[c], G!Facts)
        BY <1>1, <1>2 DEF G!PassedIsValid
      <4> QED
        BY <1>2, <4>1, <4>2 DEF G!AdmitDiagnosis
    <3> QED
      BY <1>3, <2>2, <3>3, <3>4, <3>6, <3>7, <3>8, DiagnosisGood
  <2>5. CASE G!SubmitDiagnosis
    <3>1. PICK ok \in BOOLEAN :
            /\ submitted' = Append(submitted, [what |-> "diagnosis", ok |-> ok])
            /\ main' = IF ok THEN "mitigate" ELSE "done"
      BY <2>5 DEF G!SubmitDiagnosis
    <3>2. main = "submit" /\ UNCHANGED admitted
      BY <2>5 DEF G!SubmitDiagnosis
    <3>3. PICK s \in Submissions : s = [what |-> "diagnosis", ok |-> ok]
      BY DEF Submissions
    <3>4. submitted = << >> /\ s.what = "diagnosis" /\ s.ok = ok
      BY <1>1, <3>2, <3>3 DEF G!SubmissionsAreInOrder
    <3>5. /\ submitted' = Append(submitted, s) /\ submitted' \in Seq(Submissions)
          /\ Len(submitted') = 1 /\ submitted'[1] = s
      BY <1>1, <1>4, <3>1, <3>3, <3>4, AppendProperties DEF LogTypes
    <3>6. admitted /\ \A c \in Categories : resolver[c] = "resolved"
      BY <1>1, <3>2 DEF G!GateIsLast
    <3>7. RunTypes' /\ LogTypes'
      BY <1>1, <1>2, <3>1, <3>2, <3>5 DEF RunTypes, LogTypes, Mains
    <3>8. G!GateIsLast' /\ G!PassedStaysValid'
      BY <1>1, <2>1, <3>1, <3>2, <3>6 DEF G!GateIsLast, G!PassedStaysValid, G!Ended
    <3>9. G!AdmittedIsGrounded'
      BY <1>1, <1>2, <1>3, <3>2 DEF G!AdmittedIsGrounded
    <3>10. G!SubmissionsAreInOrder' /\ G!SubmissionsFollowAdmission'
      BY <3>1, <3>2, <3>4, <3>5, <3>6 DEF G!SubmissionsAreInOrder, G!SubmissionsFollowAdmission
    <3> QED
      BY <1>3, <2>2, <3>7, <3>8, <3>9, <3>10, DiagnosisGood
  <2>6. CASE G!SubmitMitigation
    <3>1. PICK ok \in BOOLEAN : submitted' = Append(submitted, [what |-> "mitigation", ok |-> ok])
      BY <2>6 DEF G!SubmitMitigation
    <3>2. main = "mitigate" /\ main' = "done" /\ UNCHANGED admitted
      BY <2>6 DEF G!SubmitMitigation
    <3>3. PICK s \in Submissions : s = [what |-> "mitigation", ok |-> ok]
      BY DEF Submissions
    <3>4. Len(submitted) = 1 /\ submitted[1].ok /\ s.what = "mitigation" /\ admitted
      BY <1>1, <3>2, <3>3 DEF G!SubmissionsAreInOrder, G!GateIsLast
    <3>5. /\ submitted' = Append(submitted, s) /\ submitted' \in Seq(Submissions)
          /\ Len(submitted') = 2 /\ submitted'[2] = s /\ submitted'[1] = submitted[1]
      <4>1. submitted \in Seq(Submissions) /\ submitted' = Append(submitted, s) /\ s \in Submissions
        BY <1>1, <3>1, <3>3 DEF LogTypes
      <4>2. /\ submitted' \in Seq(Submissions) /\ Len(submitted') = Len(submitted) + 1
            /\ submitted'[Len(submitted) + 1] = s
            /\ \A i \in 1..Len(submitted) : submitted'[i] = submitted[i]
        BY <4>1, AppendProperties
      <4> QED
        BY <3>4, <4>1, <4>2
    <3>6. submitted[1].what = "diagnosis" /\ \A c \in Categories : resolver[c] = "resolved"
      BY <1>1, <3>2, <3>4 DEF G!SubmissionsFollowAdmission, G!GateIsLast
    <3>7. RunTypes' /\ LogTypes'
      BY <1>1, <1>2, <3>2, <3>5 DEF RunTypes, LogTypes, Mains
    <3>8. G!GateIsLast' /\ G!PassedStaysValid'
      BY <2>1, <3>2, <3>4, <3>6 DEF G!GateIsLast, G!PassedStaysValid, G!Ended
    <3>9. G!AdmittedIsGrounded'
      BY <1>1, <1>2, <1>3, <3>2 DEF G!AdmittedIsGrounded
    <3>10. G!SubmissionsAreInOrder' /\ G!SubmissionsFollowAdmission'
      BY <3>2, <3>4, <3>5, <3>6 DEF G!SubmissionsAreInOrder, G!SubmissionsFollowAdmission
    <3> QED
      BY <1>3, <2>2, <3>7, <3>8, <3>9, <3>10, DiagnosisGood
  <2> QED
    BY <1>6, <2>3, <2>4, <2>5, <2>6 DEF G!Main
<1> QED
  BY <1>5, <1>6

(* Every step of the diagnosis keeps its invariant. *)
LEMMA DiagnosisStep ==
  ASSUME G!DiagnosisAssumption, G!DiagnosisInvariant, [G!Next]_G!vars
  PROVE  G!DiagnosisInvariant'
<1>1. CASE UNCHANGED G!vars
  <2>1. UNCHANGED <<main, resolver, attempt, hypothesis, passed, recorded, kubectl, submitted,
                    admitted>>
    BY <1>1 DEF G!vars
  <2>2. RunTypes' /\ ResolverTypes' /\ LogTypes'
    BY <2>1, DiagnosisInside DEF RunTypes, ResolverTypes, LogTypes
  <2>3. G!Facts' = G!Facts /\ G!Running' = G!Running
    BY <2>1 DEF G!Facts, G!RecordedIds, G!Running
  <2>4. /\ G!GateIsLast' /\ G!PassedIsValid' /\ G!FactsAreNumbered' /\ G!SubmissionsAreInOrder'
        /\ G!SubmissionsFollowAdmission'
    BY <2>1, <2>3, DiagnosisInside DEF G!GateIsLast, G!PassedIsValid, G!FactsAreNumbered,
       G!SubmissionsAreInOrder, G!SubmissionsFollowAdmission
  <2>5. G!AdmittedIsGrounded' /\ G!PassedStaysValid' /\ G!InFlightIsBounded'
    BY <2>1, <2>3, DiagnosisInside DEF G!AdmittedIsGrounded, G!PassedStaysValid,
       G!InFlightIsBounded
  <2> QED
    BY <2>2, <2>4, <2>5, DiagnosisGood
<1> QED
  BY <1>1, ResolverSteps, MainSteps DEF G!Next

-----------------------------------------------------------------------------
(* The epistemic kernel *)

(* What the proofs use of the assumption. *)
LEMMA EpistemicConstants ==
  ASSUME E!EpistemicAssumption
  PROVE  /\ Seeds \in Nat /\ MaxHyps \in Nat /\ MaxRounds \in Nat /\ MaxReads \in Nat
         /\ MaxPlan \in Nat /\ MaxRounds > 0
  BY DEF E!EpistemicAssumption

(* One more round is one more budget of reads. *)
LEMMA Budgets ==
  ASSUME NEW m \in Nat, NEW a \in Nat, NEW b \in Nat, a <= b
  PROVE  /\ a * m \in Nat /\ b * m \in Nat /\ a * m <= b * m /\ (a + 1) * m = a * m + m
<1>1. a * m \in Nat /\ b * m \in Nat /\ (a + 1) * m = a * m + m
  OBVIOUS
<1>2. PICK d \in Nat : b = a + d
  <2>1. b - a \in Nat /\ b = a + (b - a)
    OBVIOUS
  <2> QED
    BY <2>1
<1>3. b * m = a * m + d * m /\ d * m \in Nat
  BY <1>2
<1> QED
  BY <1>1, <1>3

(* A set whose members have identifiers of their own has as many of them.  *)
LEMMA UniqueIds ==
  ASSUME NEW S, IsFiniteSet(S), \A g, h \in S : g.id = h.id => g = h
  PROVE  IsFiniteSet({h.id : h \in S}) /\ Cardinality({h.id : h \in S}) = Cardinality(S)
<1> DEFINE T == {h.id : h \in S}
<1> DEFINE f == [h \in S |-> h.id]
<1>1. f \in [S -> T]
  OBVIOUS
<1>2. \A t \in T : \E s \in S : f[s] = t
  OBVIOUS
<1>3. \A g, h \in S : f[g] = f[h] => g = h
  OBVIOUS
<1> HIDE DEF f, T
<1>4. f \in Surjection(S, T) /\ f \in Injection(S, T)
  BY <1>1, <1>2, <1>3 DEF Surjection, Injection, IsInjective
<1> QED
  BY <1>4, FS_Surjection DEF T

(* What a function makes of a finite set is finite. *)
LEMMA FiniteImage ==
  ASSUME NEW S, NEW f, f = [s \in S |-> f[s]], IsFiniteSet(S)
  PROVE  IsFiniteSet({f[s] : s \in S})
<1> DEFINE T == {f[s] : s \in S}
<1>1. f \in [S -> T] /\ \A t \in T : \E s \in S : f[s] = t
  OBVIOUS
<1> HIDE DEF T
<1>2. f \in Surjection(S, T)
  BY <1>1 DEF Surjection
<1> QED
  BY <1>2, FS_Surjection DEF T

(* A fresh portfolio is open and has identifiers of its own. *)
LEMMA FreshPortfolio ==
  ASSUME NEW n \in Nat, NEW r \in Nat
  PROVE  /\ IsFiniteSet(E!Portfolio(n, r)) /\ E!Portfolio(n, r) \subseteq E!Hypotheses
         /\ \A g, h \in E!Portfolio(n, r) : g.id = h.id => g = h
         /\ \A h \in E!Portfolio(n, r) :
              h.state = "UNKNOWN" /\ h.supports = {} /\ h.contradicts = {}
<1> DEFINE New(i) == [id |-> <<r, i>>, state |-> "UNKNOWN", supports |-> {}, contradicts |-> {}]
<1> DEFINE f == [i \in 1..n |-> New(i)]
<1>1. E!Portfolio(n, r) = {f[i] : i \in 1..n}
  BY DEF E!Portfolio
<1>2. f = [i \in 1..n |-> f[i]]
  OBVIOUS
<1>3. \A i \in 1..n : f[i] = New(i)
  OBVIOUS
<1> HIDE DEF f
<1>4. IsFiniteSet(1..n)
  BY FS_Interval
<1>5. IsFiniteSet({f[i] : i \in 1..n})
  BY <1>2, <1>4, FiniteImage
<1>6. \A i \in 1..n :
        /\ New(i) \in E!Hypotheses /\ New(i).state = "UNKNOWN" /\ New(i).supports = {}
        /\ New(i).contradicts = {} /\ New(i).id = <<r, i>>
  BY DEF E!Hypotheses, E!States
<1>7. \A i, j \in 1..n : New(i).id = New(j).id => i = j
  BY <1>6
<1> HIDE DEF New
<1> QED
  BY <1>1, <1>3, <1>5, <1>6, <1>7

(* What a link makes of a hypothesis. *)
LEMMA LinkedIs ==
  ASSUME NEW h \in E!Hypotheses, NEW l \in E!Links, facts \in Seq(SUBSET Nat)
  PROVE  /\ E!Linked(h, l) \in E!Hypotheses /\ E!Linked(h, l).id = h.id
         /\ E!Linked(h, l).supports \subseteq E!FactIds
         /\ E!Linked(h, l).contradicts \subseteq E!FactIds
         /\ E!Linked(h, l).state = "SUPPORTED" =>
              E!Linked(h, l).supports # {} /\ E!Linked(h, l).contradicts = {}
         /\ E!Linked(h, l).state = "REFUTED" => E!Linked(h, l).contradicts # {}
         /\ l.silent => E!Linked(h, l).state = "UNKNOWN"
<1> DEFINE sup == l.supports
<1> DEFINE con == l.contradicts
<1>1. E!Linked(h, l) = [h EXCEPT !.state = E!ComputeState(sup, con), !.supports = sup,
                                 !.contradicts = con]
  BY DEF E!Linked
<1>2. PICK p \in E!Proposals : l = E!Admitted(p)
  BY DEF E!Links
<1>3. sup \subseteq E!FactIds /\ con \subseteq E!FactIds /\ E!FactIds \subseteq Nat
  BY <1>2 DEF E!Admitted, E!AdmitLinks, E!FactIds
<1>4. l.silent => sup = {} /\ con = {}
  BY <1>2 DEF E!Admitted, E!AdmitLinks
<1> HIDE DEF sup, con
<1>5. PICK s \in E!States :
        /\ s = E!ComputeState(sup, con)
        /\ s = "SUPPORTED" => sup # {} /\ con = {}
        /\ s = "REFUTED" => con # {}
        /\ sup = {} /\ con = {} => s = "UNKNOWN"
  BY DEF E!ComputeState, E!States
<1>6. E!Linked(h, l) = [h EXCEPT !.state = s, !.supports = sup, !.contradicts = con]
  BY <1>1, <1>5
<1>7. sup \in SUBSET Nat /\ con \in SUBSET Nat
  BY <1>3
<1> DEFINE g == [h EXCEPT !.state = s, !.supports = sup, !.contradicts = con]
<1>8. g \in E!Hypotheses
  BY <1>7 DEF E!Hypotheses
<1>9. g.id = h.id /\ g.state = s /\ g.supports = sup /\ g.contradicts = con
  BY DEF E!Hypotheses
<1> HIDE DEF g
<1>10. E!Linked(h, l) = g
  BY <1>6 DEF g
<1> QED
  BY <1>3, <1>4, <1>5, <1>8, <1>9, <1>10

(* The invariant in parts: where the loop is, its portfolio, its records,  *)
(* and the diagnosis.                                                      *)
Stages == {"hypothesize", "link", "decide", "discriminate", "read", "extract", "conclude",
           "diagnose", "construct", "act", "done"}
Control ==
  /\ stage \in Stages /\ round \in 0..MaxRounds /\ observations \in Nat
  /\ E!PlansAreReal /\ E!ReadsAreBounded
Evidence == E!PortfolioIsSound /\ E!StatesAreGrounded
Records == E!StoreIsSound /\ E!SourcesAreObserved
Diagnosed == E!DiagnosisIsSole /\ E!TheWinnerIsSole

(* A state is good when its parts are. *)
LEMMA EpistemicGood ==
  ASSUME E!EpistemicAssumption, Control', Evidence', Records', E!DemandsAreCurrent',
         Diagnosed', E!NothingIsDoneUndiagnosed'
  PROVE  E!EpistemicInvariant'
<1>1. observations' \in 0..(MaxRounds * MaxReads)
  <2>1. PICK used \in Nat :
          /\ used <= round' /\ observations' <= used * MaxReads
    <3>1. PICK rest \in Nat : rest = IF stage' = "read" THEN Len(todo') ELSE 0
      <4>1. CASE stage' = "read"
        <5>1. Len(todo') \in Nat
          BY <4>1 DEF Control, E!PlansAreReal
        <5> QED
          BY <4>1, <5>1
      <4>2. CASE stage' # "read"
        BY <4>2
      <4> QED
        BY <4>1, <4>2
    <3>2. PICK used \in Nat :
            /\ used = IF stage' \in {"link", "decide"} THEN round' - 1 ELSE round'
            /\ used <= round'
      <4>1. PICK n \in Nat : n = round'
        BY EpistemicConstants DEF Control
      <4>2. stage' = "hypothesize" <=> n = 0
        BY <4>1 DEF Control, E!ReadsAreBounded
      <4>3. ASSUME stage' \in {"link", "decide"} PROVE n - 1 \in Nat /\ n - 1 <= n
        <5>1. n # 0
          BY <4>2, <4>3, Zenon
        <5> QED
          BY <5>1
      <4>4. PICK k : k = n - 1
        OBVIOUS
      <4>5. k = round' - 1
        BY <4>1, <4>4
      <4>6. CASE stage' \in {"link", "decide"}
        <5>1. k \in Nat /\ k <= n
          BY <4>3, <4>4, <4>6
        <5>2. k <= round'
          BY <4>1, <5>1
        <5>3. k = IF stage' \in {"link", "decide"} THEN round' - 1 ELSE round'
          BY <4>5, <4>6, Zenon
        <5> QED
          BY <5>1, <5>2, <5>3, Zenon
      <4>7. CASE stage' \notin {"link", "decide"}
        BY <4>1, <4>7
      <4> QED
        BY <4>6, <4>7
    <3>3. observations' + rest <= used * MaxReads
      BY <3>1, <3>2 DEF Control, E!ReadsAreBounded
    <3>4. observations' \in Nat /\ used * MaxReads \in Nat
      BY Budgets, EpistemicConstants DEF Control
    <3> QED
      BY <3>2, <3>3, <3>4
  <2>2. round' \in Nat /\ round' <= MaxRounds /\ observations' \in Nat
    BY EpistemicConstants DEF Control
  <2>3. used <= MaxRounds
    BY <2>1, <2>2, EpistemicConstants
  <2>4. used * MaxReads <= MaxRounds * MaxReads /\ used * MaxReads \in Nat
        /\ MaxRounds * MaxReads \in Nat
    BY <2>3, Budgets, EpistemicConstants
  <2> QED
    BY <2>1, <2>2, <2>4
<1>2. (\A h \in hyps : h.state \in E!States)'
  BY DEF Evidence, E!PortfolioIsSound, E!Hypotheses
<1>3. (E!Cardinality(hyps) = E!Cardinality(E!Ids))'
  <2>1. IsFiniteSet(hyps') /\ \A g, h \in hyps' : g.id = h.id => g = h
    BY SameSizes DEF Evidence, E!PortfolioIsSound
  <2>2. Cardinality({h.id : h \in hyps'}) = Cardinality(hyps')
    BY <2>1, UniqueIds
  <2> QED
    BY <2>2, SameSizes DEF E!Ids
<1>4. E!TypeOK'
  BY <1>1, <1>2, <1>3 DEF E!TypeOK, Control, Stages
<1> QED
  BY <1>4 DEF E!EpistemicInvariant, E!ClaimsAreGrounded, E!ActsFollowAdmission, Control,
     Evidence, Records, Diagnosed

(* What the invariant says of a state. *)
LEMMA EpistemicInside ==
  ASSUME E!EpistemicAssumption, E!EpistemicInvariant
  PROVE  /\ Control /\ Evidence /\ Records /\ Diagnosed
         /\ E!DemandsAreCurrent /\ E!NothingIsDoneUndiagnosed
<1>1. observations \in Nat
  <2>1. observations \in 0..(MaxRounds * MaxReads) /\ MaxRounds * MaxReads \in Nat
    BY Budgets, EpistemicConstants DEF E!EpistemicInvariant, E!ActsFollowAdmission, E!TypeOK
  <2> QED
    BY <2>1
<1> QED
  BY <1>1 DEF E!EpistemicInvariant, E!ClaimsAreGrounded, E!ActsFollowAdmission, E!TypeOK, Control,
     Evidence, Records, Diagnosed, Stages

(* Where the loop is, in the words of its bounds. *)
LEMMA Bounds ==
  ASSUME E!EpistemicAssumption, Control
  PROVE  /\ round \in Nat /\ round <= MaxRounds /\ observations \in Nat
         /\ round * MaxReads \in Nat
         /\ stage = "hypothesize" <=> round = 0
         /\ round >= 1 => /\ (round - 1) * MaxReads \in Nat
                          /\ (round - 1) * MaxReads + MaxReads = round * MaxReads
         /\ stage \in {"link", "decide"} => observations <= (round - 1) * MaxReads
         /\ stage \notin {"link", "decide"} => observations <= round * MaxReads
         /\ stage = "read" => /\ Len(todo) \in Nat
                              /\ observations + Len(todo) <= round * MaxReads
<1>1. round \in Nat /\ round <= MaxRounds /\ observations \in Nat
  BY EpistemicConstants DEF Control
<1>2. round * MaxReads \in Nat /\ (stage = "hypothesize" <=> round = 0)
  BY <1>1, Budgets, EpistemicConstants DEF Control, E!ReadsAreBounded
<1>3. ASSUME round >= 1
      PROVE  /\ (round - 1) * MaxReads \in Nat
             /\ (round - 1) * MaxReads + MaxReads = round * MaxReads
  <2>1. PICK k \in Nat : k = round - 1 /\ k + 1 = round
    BY <1>1, <1>3
  <2>2. k * MaxReads \in Nat /\ (k + 1) * MaxReads = k * MaxReads + MaxReads
    BY Budgets, EpistemicConstants
  <2> QED
    BY <2>1, <2>2
<1>4. ASSUME stage \in {"link", "decide"} PROVE observations <= (round - 1) * MaxReads
  <2>1. observations + 0 <= (round - 1) * MaxReads
    BY <1>4 DEF Control, E!ReadsAreBounded
  <2> QED
    BY <1>1, <2>1
<1>5. ASSUME stage = "read"
      PROVE  /\ Len(todo) \in Nat /\ observations + Len(todo) <= round * MaxReads
             /\ observations <= round * MaxReads
  <2>1. Len(todo) \in Nat
    BY <1>5 DEF Control, E!PlansAreReal
  <2>2. observations + Len(todo) <= round * MaxReads
    BY <1>5 DEF Control, E!ReadsAreBounded
  <2> QED
    BY <1>1, <1>2, <2>1, <2>2
<1>6. ASSUME stage \notin {"link", "decide", "read"} PROVE observations <= round * MaxReads
  <2>1. observations + 0 <= round * MaxReads
    BY <1>6 DEF Control, E!ReadsAreBounded
  <2> QED
    BY <1>1, <2>1
<1> QED
  BY <1>1, <1>2, <1>3, <1>4, <1>5, <1>6

(* The other way: a loop that is past its reads is under control. *)
LEMMA ControlIs ==
  ASSUME E!EpistemicAssumption, stage' \in Stages \ {"read", "act", "hypothesize"},
         round' \in 1..MaxRounds, observations' \in Nat,
         stage' \in {"link", "decide"} => observations' <= (round' - 1) * MaxReads,
         stage' \notin {"link", "decide"} => observations' <= round' * MaxReads
  PROVE  Control'
<1>1. stage' \in Stages /\ stage' # "read" /\ stage' # "act" /\ stage' # "hypothesize"
  OBVIOUS
<1>2. round' \in 0..MaxRounds /\ round' # 0
  BY EpistemicConstants
<1>3. PICK seen \in Nat : seen = observations' /\ seen + 0 = seen
  OBVIOUS
<1>4. observations' + 0 = observations'
  BY <1>3
<1> QED
  BY <1>1, <1>2, <1>4 DEF Control, E!PlansAreReal, E!ReadsAreBounded

(* What is left alone stays sound. *)
LEMMA EvidenceFrame ==
  ASSUME Evidence, UNCHANGED <<hyps, facts>>, stage' = "hypothesize" => stage = "hypothesize"
  PROVE  Evidence'
  BY DEF Evidence, E!PortfolioIsSound, E!StatesAreGrounded, E!FactIds

LEMMA RecordsFrame ==
  ASSUME Records, UNCHANGED <<facts, observations, investigated, acts, admission>>
  PROVE  Records'
  BY DEF Records, E!StoreIsSound, E!SourcesAreObserved, E!FactIds

LEMMA DemandsFrame ==
  ASSUME E!DemandsAreCurrent, UNCHANGED <<hyps, demanded>>, investigated \subseteq investigated'
  PROVE  E!DemandsAreCurrent'
  BY DEF E!DemandsAreCurrent, E!In

LEMMA DiagnosedFrame ==
  ASSUME Diagnosed, stage \notin {"construct", "act", "done"},
         stage' \notin {"diagnose", "construct", "act"}, UNCHANGED admission
  PROVE  Diagnosed'
  BY DEF Diagnosed, E!DiagnosisIsSole, E!TheWinnerIsSole

LEMMA ActsFrame ==
  ASSUME E!NothingIsDoneUndiagnosed, UNCHANGED acts,
         admission.winner # {} => admission'.winner # {}
  PROVE  E!NothingIsDoneUndiagnosed'
  BY DEF E!NothingIsDoneUndiagnosed

(* The invariant holds initially. *)
LEMMA EpistemicInit ==
  ASSUME E!EpistemicAssumption, E!Init
  PROVE  E!EpistemicInvariant
<1>1. /\ stage = "hypothesize" /\ round = 0 /\ hyps = {} /\ observations = 0
      /\ investigated = {} /\ demanded = {} /\ acts = << >>
  BY DEF E!Init
<1>2. facts = [i \in 1..Seeds |-> {}] /\ Seeds \in Nat
  BY EpistemicConstants DEF E!Init
<1>3. admission = [admitted |-> FALSE, reason |-> "", winner |-> {}]
  BY DEF E!Init, E!NoResult
<1>4. facts \in Seq(SUBSET Nat) /\ Len(facts) = Seeds
  <2>1. facts \in [1..Seeds -> SUBSET Nat]
    BY <1>2
  <2> QED
    BY <1>2, <2>1
<1>5. \A i \in E!FactIds : facts[i] = {}
  BY <1>2, <1>4 DEF E!FactIds
<1>6. IsFiniteSet(hyps) /\ E!Ids = {}
  BY <1>1, FS_EmptySet DEF E!Ids
<1>7. E!TypeOK
  <2>1. 0 \in 0..MaxRounds /\ 0 \in 0..(MaxRounds * MaxReads)
    BY Budgets, EpistemicConstants
  <2>2. E!Cardinality(hyps) = E!Cardinality(E!Ids)
    BY <1>1, <1>6
  <2> QED
    BY <1>1, <2>1, <2>2 DEF E!TypeOK
<1>8. E!PortfolioIsSound /\ E!StatesAreGrounded /\ E!DemandsAreCurrent
  BY <1>1, <1>6, SameSizes DEF E!PortfolioIsSound, E!StatesAreGrounded, E!DemandsAreCurrent
<1>9. E!StoreIsSound /\ E!SourcesAreObserved
  <2>1. admission \in E!Answered
    <3>1. "" \in E!Reasons
      BY DEF E!Reasons
    <3>2. FALSE \in BOOLEAN
      OBVIOUS
    <3>3. {} \in SUBSET (Nat \X Nat)
      OBVIOUS
    <3> QED
      BY <1>3, <3>1, <3>2, <3>3, Zenon DEF E!Answered
  <2>2. acts \in Seq([cap : E!Caps, stage : {"read", "act"}])
    BY <1>1
  <2>3. investigated \subseteq Nat \X Nat
    BY <1>1
  <2> QED
    BY <1>4, <1>5, <2>1, <2>2, <2>3 DEF E!StoreIsSound, E!SourcesAreObserved
<1>10. E!NothingIsDoneUndiagnosed
  <2>1. Len(acts) = 0
    BY <1>1
  <2>2. \A i \in 1..0 : FALSE
    OBVIOUS
  <2> QED
    BY <2>1, <2>2, Zenon DEF E!NothingIsDoneUndiagnosed
<1>11. E!TheWinnerIsSole /\ E!DiagnosisIsSole /\ E!PlansAreReal
  <2>1. admission.winner = {}
    BY <1>3
  <2> QED
    BY <1>1, <2>1 DEF E!TheWinnerIsSole, E!DiagnosisIsSole, E!PlansAreReal
<1>12. E!ReadsAreBounded
  <2>1. 0 * MaxReads = 0 /\ 0 + 0 <= 0
    BY EpistemicConstants
  <2> QED
    BY <1>1, <2>1 DEF E!ReadsAreBounded
<1> QED
  BY <1>7, <1>8, <1>9, <1>10, <1>11, <1>12 DEF E!EpistemicInvariant, E!ClaimsAreGrounded,
     E!ActsFollowAdmission

(* A fresh portfolio is sound, and nothing is demanded of it. *)
LEMMA FreshEvidence ==
  ASSUME NEW n \in Nat, NEW r \in Nat, hyps' = E!Portfolio(n, r), stage' # "hypothesize"
  PROVE  Evidence'
<1>1. /\ IsFiniteSet(hyps') /\ hyps' \subseteq E!Hypotheses
      /\ \A g, h \in hyps' : g.id = h.id => g = h
      /\ \A h \in hyps' : h.state = "UNKNOWN" /\ h.supports = {} /\ h.contradicts = {}
  BY FreshPortfolio
<1>2. E!PortfolioIsSound'
  BY <1>1, SameSizes DEF E!PortfolioIsSound, E!Hypotheses, E!States
<1>3. E!StatesAreGrounded'
  BY <1>1 DEF E!StatesAreGrounded
<1> QED
  BY <1>2, <1>3 DEF Evidence

(* What NextRound does to where the loop is. *)
LEMMA NextRoundIsBounded ==
  ASSUME E!EpistemicAssumption, E!NextRound, round \in Nat, round >= 1, round <= MaxRounds,
         observations' \in Nat, observations' <= round * MaxReads
  PROVE  Control' /\ stage' \in {"link", "conclude"}
<1>1. CASE round < MaxRounds
  <2>1. stage' = "link" /\ round' = round + 1
    BY <1>1 DEF E!NextRound
  <2>2. round' \in 1..MaxRounds /\ round' - 1 = round
    BY <1>1, <2>1, EpistemicConstants
  <2>3. observations' <= (round' - 1) * MaxReads
    BY <2>2
  <2>4. stage' \in Stages \ {"read", "act", "hypothesize"}
    BY <2>1 DEF Stages
  <2> QED
    BY <2>1, <2>2, <2>3, <2>4, ControlIs
<1>2. CASE ~(round < MaxRounds)
  <2>1. stage' = "conclude" /\ round' = round
    BY <1>2 DEF E!NextRound
  <2>2. round' \in 1..MaxRounds
    BY <2>1, EpistemicConstants
  <2>3. observations' <= round' * MaxReads
    BY <2>1
  <2>4. stage' \in Stages \ {"read", "act", "hypothesize"} /\ stage' \notin {"link", "decide"}
    BY <2>1 DEF Stages
  <2> QED
    BY <2>1, <2>2, <2>3, <2>4, ControlIs
<1> QED
  BY <1>1, <1>2

(* The first portfolio. *)
LEMMA HypothesizeStep ==
  ASSUME E!EpistemicAssumption, E!EpistemicInvariant, E!Hypothesize
  PROVE  E!EpistemicInvariant'
<1>1. /\ stage = "hypothesize" /\ stage' = "link" /\ round' = 1
      /\ UNCHANGED <<facts, observations, investigated, demanded, todo, acts, admission>>
  BY DEF E!Hypothesize
<1>2. PICK n \in Nat : hyps' = E!Portfolio(n, 0)
  BY EpistemicConstants DEF E!Hypothesize
<1>3. /\ Control /\ Evidence /\ Records /\ Diagnosed
      /\ E!DemandsAreCurrent /\ E!NothingIsDoneUndiagnosed
  BY EpistemicInside
<1>4. Evidence'
  BY <1>1, <1>2, FreshEvidence
<1>5. Control'
  <2>1. observations \in Nat /\ observations <= 0 * MaxReads
    <3>1. round = 0 /\ observations <= round * MaxReads /\ observations \in Nat
      BY <1>1, <1>3, Bounds
    <3> QED
      BY <3>1
  <2>2. round' \in 1..MaxRounds /\ round' - 1 = 0
    BY <1>1, EpistemicConstants
  <2>3. observations' \in Nat /\ observations' <= (round' - 1) * MaxReads
    BY <1>1, <2>1, <2>2
  <2>4. stage' \in Stages \ {"read", "act", "hypothesize"}
    BY <1>1 DEF Stages
  <2> QED
    BY <1>1, <2>2, <2>3, <2>4, ControlIs
<1>6. E!DemandsAreCurrent'
  <2>1. demanded = {}
    <3>1. \A i \in demanded : \E h \in hyps : h.id = i
      BY <1>3 DEF E!DemandsAreCurrent, E!In
    <3>2. hyps = {}
      BY <1>1, <1>3 DEF Evidence, E!PortfolioIsSound
    <3> QED
      BY <3>1, <3>2
  <2> QED
    BY <1>1, <2>1 DEF E!DemandsAreCurrent
<1> QED
  BY <1>1, <1>3, <1>4, <1>5, <1>6, RecordsFrame, DiagnosedFrame, ActsFrame, EpistemicGood

(* A link round: the portfolio is the same hypotheses with new states. *)
LEMMA LinkedPortfolio ==
  ASSUME NEW m \in [E!Ids -> E!Links], Evidence, Records, UNCHANGED facts,
         stage' # "hypothesize", hyps' = {E!Linked(h, m[h.id]) : h \in hyps}
  PROVE  Evidence'
<1> DEFINE f == [h \in hyps |-> E!Linked(h, m[h.id])]
<1>1. hyps' = {f[h] : h \in hyps} /\ f = [h \in hyps |-> f[h]]
  OBVIOUS
<1>2. IsFiniteSet(hyps) /\ hyps \subseteq E!Hypotheses /\ \A g, h \in hyps : g.id = h.id => g = h
  BY SameSizes DEF Evidence, E!PortfolioIsSound
<1>3. facts \in Seq(SUBSET Nat)
  BY DEF Records, E!StoreIsSound
<1>4. \A h \in hyps :
        /\ f[h] \in E!Hypotheses /\ f[h].id = h.id
        /\ f[h].supports \subseteq E!FactIds /\ f[h].contradicts \subseteq E!FactIds
        /\ f[h].state = "SUPPORTED" => f[h].supports # {} /\ f[h].contradicts = {}
        /\ f[h].state = "REFUTED" => f[h].contradicts # {}
  BY <1>2, <1>3, LinkedIs DEF E!Ids
<1> HIDE DEF f
<1>5. IsFiniteSet(hyps')
  <2>1. IsFiniteSet({f[h] : h \in hyps})
    BY <1>1, <1>2, FiniteImage
  <2> QED
    BY <1>1, <2>1
<1>6. hyps' \subseteq E!Hypotheses /\ \A g, h \in hyps' : g.id = h.id => g = h
  <2>1. hyps' \subseteq E!Hypotheses
    BY <1>1, <1>4
  <2>2. SUFFICES ASSUME NEW g \in hyps', NEW h \in hyps', g.id = h.id PROVE g = h
    BY <2>1
  <2>3. PICK a \in hyps, b \in hyps : g = f[a] /\ h = f[b]
    BY <1>1
  <2>4. a.id = b.id
    BY <1>4, <2>2, <2>3
  <2> QED
    BY <1>2, <2>3, <2>4
<1>7. E!PortfolioIsSound'
  BY <1>5, <1>6, SameSizes DEF E!PortfolioIsSound, E!Hypotheses, E!States
<1>8. E!FactIds' = E!FactIds
  BY DEF E!FactIds
<1>9. E!StatesAreGrounded'
  BY <1>1, <1>4, <1>8 DEF E!StatesAreGrounded
<1> QED
  BY <1>7, <1>9 DEF Evidence

(* A link round. *)
LEMMA EvidenceLinkStep ==
  ASSUME E!EpistemicAssumption, E!EpistemicInvariant, E!EvidenceLink
  PROVE  E!EpistemicInvariant'
<1>1. /\ stage = "link" /\ stage' = "decide"
      /\ UNCHANGED <<round, facts, observations, investigated, todo, acts, admission>>
  BY DEF E!EvidenceLink
<1>2. PICK m \in [E!Ids -> E!Links] :
        hyps' = {E!Linked(h, m[h.id]) : h \in hyps} /\ demanded' = E!Uncommitted(m)
  BY DEF E!EvidenceLink
<1>3. /\ Control /\ Evidence /\ Records /\ Diagnosed /\ E!NothingIsDoneUndiagnosed
  BY EpistemicInside
<1>4. Evidence'
  BY <1>1, <1>2, <1>3, LinkedPortfolio
<1>5. Control'
  <2>1. /\ round \in Nat /\ round <= MaxRounds /\ observations \in Nat /\ round # 0
        /\ observations <= (round - 1) * MaxReads
    BY <1>1, <1>3, Bounds
  <2>2. round' \in 1..MaxRounds
    BY <1>1, <2>1, EpistemicConstants
  <2>3. stage' \in Stages \ {"read", "act", "hypothesize"}
    BY <1>1 DEF Stages
  <2> QED
    BY <1>1, <2>1, <2>2, <2>3, ControlIs
<1>6. E!DemandsAreCurrent'
  <2>1. SUFFICES ASSUME NEW i \in demanded' PROVE i \in investigated' /\ \E h \in hyps' :
                                                   h.state = "UNKNOWN" /\ h.id = i
    BY DEF E!DemandsAreCurrent, E!In
  <2>2. i \in E!Ids /\ i \in investigated /\ m[i].silent
    BY <1>2 DEF E!Uncommitted
  <2>3. PICK h \in hyps : h.id = i
    BY <2>2 DEF E!Ids
  <2>4. h \in E!Hypotheses /\ m[h.id] \in E!Links /\ facts \in Seq(SUBSET Nat)
    BY <1>2, <1>3, <2>2, <2>3 DEF Evidence, E!PortfolioIsSound, Records, E!StoreIsSound
  <2>5. E!Linked(h, m[h.id]).state = "UNKNOWN" /\ E!Linked(h, m[h.id]).id = i
    BY <2>2, <2>3, <2>4, LinkedIs
  <2>6. E!Linked(h, m[h.id]) \in hyps'
    BY <1>2
  <2> QED
    BY <1>1, <2>2, <2>5, <2>6
<1> QED
  BY <1>1, <1>3, <1>4, <1>5, <1>6, RecordsFrame, DiagnosedFrame, ActsFrame, EpistemicGood

(* The frontier is closed. *)
LEMMA ClosureStep ==
  ASSUME E!EpistemicAssumption, E!EpistemicInvariant, E!Closure
  PROVE  E!EpistemicInvariant'
<1>1. /\ stage = "decide" /\ stage' = "conclude"
      /\ UNCHANGED <<round, hyps, facts, observations, investigated, demanded, todo, acts,
                     admission>>
  BY DEF E!Closure
<1>2. /\ Control /\ Evidence /\ Records /\ Diagnosed
      /\ E!DemandsAreCurrent /\ E!NothingIsDoneUndiagnosed
  BY EpistemicInside
<1>3. Control'
  <2>1. /\ round \in Nat /\ round <= MaxRounds /\ observations \in Nat /\ round # 0
        /\ observations <= (round - 1) * MaxReads
    BY <1>1, <1>2, Bounds
  <2>2. (round - 1) * MaxReads \in Nat /\ (round - 1) * MaxReads + MaxReads = round * MaxReads
    BY <1>2, <2>1, Bounds
  <2>3. round' \in 1..MaxRounds
    BY <1>1, <2>1, EpistemicConstants
  <2>4. observations' <= round' * MaxReads
    <3>1. PICK a, b : a = (round - 1) * MaxReads /\ b = round * MaxReads
      OBVIOUS
    <3>2. observations <= b
      BY <2>1, <2>2, <3>1, EpistemicConstants
    <3> QED
      BY <1>1, <3>1, <3>2
  <2>5. stage' \in Stages \ {"read", "act", "hypothesize"} /\ stage' \notin {"link", "decide"}
    BY <1>1 DEF Stages
  <2> QED
    BY <1>1, <2>1, <2>3, <2>4, <2>5, ControlIs
<1> QED
  BY <1>1, <1>2, <1>3, EvidenceFrame, RecordsFrame, DemandsFrame, DiagnosedFrame, ActsFrame,
     EpistemicGood

(* A fresh portfolio. *)
LEMMA RehypothesizeStep ==
  ASSUME E!EpistemicAssumption, E!EpistemicInvariant, E!Rehypothesize
  PROVE  E!EpistemicInvariant'
<1>1. /\ stage = "decide" /\ investigated' = {} /\ demanded' = {} /\ E!NextRound
      /\ UNCHANGED <<facts, observations, todo, acts, admission>>
  BY DEF E!Rehypothesize
<1>2. /\ Control /\ Evidence /\ Records /\ Diagnosed /\ E!NothingIsDoneUndiagnosed
  BY EpistemicInside
<1>3. /\ round \in Nat /\ round >= 1 /\ round <= MaxRounds /\ observations \in Nat
      /\ observations <= round * MaxReads
  <2>1. /\ round \in Nat /\ round <= MaxRounds /\ observations \in Nat /\ round # 0
        /\ observations <= (round - 1) * MaxReads
    BY <1>1, <1>2, Bounds
  <2>2. (round - 1) * MaxReads \in Nat /\ (round - 1) * MaxReads + MaxReads = round * MaxReads
    BY <1>2, <2>1, Bounds
  <2>3. PICK a, b : a = (round - 1) * MaxReads /\ b = round * MaxReads
    OBVIOUS
  <2>4. observations <= b
    BY <2>1, <2>2, <2>3, EpistemicConstants
  <2> QED
    BY <2>1, <2>3, <2>4
<1>4. PICK n \in Nat : hyps' = E!Portfolio(n, round)
  BY EpistemicConstants DEF E!Rehypothesize
<1>5. Control' /\ stage' \in {"link", "conclude"}
  BY <1>1, <1>3, NextRoundIsBounded
<1>6. Evidence'
  BY <1>3, <1>4, <1>5, FreshEvidence
<1>7. Records'
  BY <1>1, <1>2 DEF Records, E!StoreIsSound, E!SourcesAreObserved, E!FactIds
<1>8. E!DemandsAreCurrent'
  BY <1>1 DEF E!DemandsAreCurrent
<1> QED
  BY <1>1, <1>2, <1>5, <1>6, <1>7, <1>8, DiagnosedFrame, ActsFrame, EpistemicGood

(* The reads of a round are proposed. *)
LEMMA DiscriminateStep ==
  ASSUME E!EpistemicAssumption, E!EpistemicInvariant, E!Discriminate
  PROVE  E!EpistemicInvariant'
<1> DEFINE Candidates == [cap : E!Caps \cup {Bogus}, targets : SUBSET (Nat \X Nat)]
<1>1. /\ stage = "decide"
      /\ UNCHANGED <<round, hyps, facts, observations, investigated, demanded, acts, admission>>
  BY DEF E!Discriminate
<1>2. PICK n \in 0..MaxReads :
      \E c \in [1..n -> E!Caps \cup {Bogus}], t \in [1..n -> SUBSET E!Ids] :
        /\ todo' = [i \in 1..n |-> [cap |-> c[i], targets |-> t[i]]]
        /\ stage' = IF n = 0 THEN "conclude" ELSE "read"
  BY DEF E!Discriminate
<1>3. PICK c \in [1..n -> E!Caps \cup {Bogus}], t \in [1..n -> SUBSET E!Ids] :
        /\ todo' = [i \in 1..n |-> [cap |-> c[i], targets |-> t[i]]]
        /\ stage' = IF n = 0 THEN "conclude" ELSE "read"
  BY <1>2
<1>4. /\ Control /\ Evidence /\ Records /\ Diagnosed
      /\ E!DemandsAreCurrent /\ E!NothingIsDoneUndiagnosed
  BY EpistemicInside
<1>5. n \in Nat /\ n <= MaxReads
  BY EpistemicConstants
<1>6. todo' \in Seq(Candidates) /\ Len(todo') = n
  <2>1. E!Ids \subseteq Nat \X Nat
    BY <1>4 DEF Evidence, E!PortfolioIsSound, E!Hypotheses, E!Ids
  <2>2. \A i \in 1..n : c[i] \in E!Caps \cup {Bogus} /\ t[i] \in SUBSET (Nat \X Nat)
    BY <2>1
  <2>3. \A i \in 1..n : [cap |-> c[i], targets |-> t[i]] \in Candidates
    BY <2>2
  <2> HIDE DEF Candidates
  <2>4. todo' \in [1..n -> Candidates]
    BY <1>3, <2>3
  <2> QED
    BY <1>3, <1>5, <2>4
<1>7. stage' \in {"read", "conclude"}
  BY <1>3
<1>8. /\ round \in Nat /\ round # 0 /\ round <= MaxRounds /\ observations \in Nat
      /\ observations + n <= round * MaxReads
  <2>1. /\ round \in Nat /\ round <= MaxRounds /\ observations \in Nat /\ round # 0
        /\ observations <= (round - 1) * MaxReads
    BY <1>1, <1>4, Bounds
  <2>2. (round - 1) * MaxReads \in Nat /\ (round - 1) * MaxReads + MaxReads = round * MaxReads
    BY <1>4, <2>1, Bounds
  <2>3. PICK a, b : a = (round - 1) * MaxReads /\ b = round * MaxReads
    OBVIOUS
  <2>4. observations + n <= b
    BY <1>5, <2>1, <2>2, <2>3, EpistemicConstants
  <2> QED
    BY <2>1, <2>3, <2>4
<1>9. Control'
  <2>1. CASE stage' = "read"
    <3>1. E!PlansAreReal'
      BY <1>6, <2>1 DEF E!PlansAreReal, E!Caps
    <3>2. E!ReadsAreBounded'
      BY <1>1, <1>6, <1>8, <2>1 DEF E!ReadsAreBounded
    <3> QED
      BY <1>1, <1>4, <2>1, <3>1, <3>2 DEF Control, Stages
  <2>2. CASE stage' = "conclude"
    <3>1. round' \in 1..MaxRounds
      BY <1>1, <1>8, EpistemicConstants
    <3>2. stage' \in Stages \ {"read", "act", "hypothesize"} /\ stage' \notin {"link", "decide"}
      BY <2>2 DEF Stages
    <3>3. PICK b : b = round * MaxReads
      OBVIOUS
    <3>4. b \in Nat
      BY <1>4, <3>3, Bounds
    <3>5. observations' \in Nat /\ observations' <= round' * MaxReads
      <4>1. observations <= b
        BY <1>5, <1>8, <3>3, <3>4
      <4> QED
        BY <1>1, <1>8, <3>3, <4>1
    <3> QED
      BY <3>1, <3>2, <3>5, ControlIs
  <2> QED
    BY <1>7, <2>1, <2>2
<1> QED
  BY <1>1, <1>4, <1>7, <1>9, EvidenceFrame, RecordsFrame, DemandsFrame, DiagnosedFrame, ActsFrame,
     EpistemicGood

(* What is executed is logged with the stage it was executed in. *)
Done == [cap : E!Caps, stage : {"read", "act"}]
LEMMA ActIsLogged ==
  ASSUME NEW cap, E!Act(cap), acts \in Seq(Done), E!NothingIsDoneUndiagnosed,
         UNCHANGED admission,
         \/ stage = "read" /\ cap \in ReadCaps
         \/ stage = "act" /\ cap \in DoCaps /\ admission.winner # {}
  PROVE  acts' \in Seq(Done) /\ E!NothingIsDoneUndiagnosed'
<1>1. PICK a : a = [cap |-> cap, stage |-> stage]
  OBVIOUS
<1>2. a \in Done /\ a.cap = cap /\ a.stage = stage
  BY <1>1 DEF Done, E!Caps
<1>3. acts' = Append(acts, a)
  BY <1>1 DEF E!Act
<1>4. /\ acts' \in Seq(Done) /\ Len(acts') = Len(acts) + 1 /\ acts'[Len(acts) + 1] = a
      /\ \A i \in 1..Len(acts) : acts'[i] = acts[i]
  BY <1>2, <1>3, AppendProperties
<1>5. \A i \in 1..Len(acts') : i \in 1..Len(acts) \/ i = Len(acts) + 1
  BY <1>4
<1>6. ASSUME NEW i \in 1..Len(acts')
      PROVE  IF acts'[i].stage = "read" THEN acts'[i].cap \in ReadCaps
             ELSE acts'[i].cap \in DoCaps /\ admission'.winner # {}
  <2>1. CASE i \in 1..Len(acts)
    BY <1>4, <2>1 DEF E!NothingIsDoneUndiagnosed
  <2>2. CASE i = Len(acts) + 1
    <3>1. acts'[i] = a
      BY <1>4, <2>2
    <3> QED
      BY <1>2, <3>1, Zenon
  <2> QED
    BY <1>5, <2>1, <2>2
<1> QED
  BY <1>4, <1>6 DEF E!NothingIsDoneUndiagnosed

(* One candidate read, executed or passed over. *)
LEMMA ReadStep ==
  ASSUME E!EpistemicAssumption, E!EpistemicInvariant, E!Read
  PROVE  E!EpistemicInvariant'
<1> DEFINE Candidates == [cap : E!Caps \cup {Bogus}, targets : SUBSET (Nat \X Nat)]
<1>1. /\ stage = "read" /\ todo # << >> /\ todo' = Tail(todo)
      /\ UNCHANGED <<stage, round, hyps, facts, demanded, admission>>
  BY DEF E!Read
<1>2. /\ Control /\ Evidence /\ Records /\ Diagnosed
      /\ E!DemandsAreCurrent /\ E!NothingIsDoneUndiagnosed
  BY EpistemicInside
<1>3. todo \in Seq(Candidates)
  BY <1>1, <1>2 DEF Control, E!PlansAreReal, E!Caps
<1>4. PICK c : c = Head(todo)
  OBVIOUS
<1>5. c \in Candidates /\ Tail(todo) \in Seq(Candidates) /\ Len(Tail(todo)) = Len(todo) - 1
  BY <1>1, <1>3, <1>4, HeadTailProperties
<1>6. \/ /\ c.cap \in ReadCaps /\ observations' = observations + 1
         /\ investigated' = investigated \cup c.targets /\ E!Act(c.cap)
      \/ UNCHANGED <<observations, investigated, acts>>
  BY <1>4 DEF E!Read, E!Readable
<1>7. /\ round \in Nat /\ round # 0 /\ observations \in Nat /\ Len(todo) \in Nat
      /\ observations + Len(todo) <= round * MaxReads /\ round * MaxReads \in Nat
  BY <1>1, <1>2, Bounds
<1>8. /\ observations' \in Nat /\ observations <= observations'
      /\ observations' + Len(todo') <= round * MaxReads
  <2>1. PICK b \in Nat, k \in Nat : b = round * MaxReads /\ k = Len(todo)
    BY <1>7
  <2>2. Len(todo') = k - 1 /\ k - 1 \in Nat
    <3>1. k # 0
      BY <1>1, <1>3, <2>1
    <3> QED
      BY <1>1, <1>5, <2>1, <3>1
  <2>3. observations' \in {observations, observations + 1}
    BY <1>6
  <2>4. observations' \in Nat /\ observations <= observations' /\ observations' + (k - 1) <= b
    BY <1>7, <2>1, <2>3
  <2> QED
    BY <2>1, <2>2, <2>4
<1>9. Control'
  <2>1. E!PlansAreReal'
    BY <1>1, <1>5 DEF E!PlansAreReal, E!Caps
  <2>2. E!ReadsAreBounded'
    BY <1>1, <1>7, <1>8 DEF E!ReadsAreBounded
  <2> QED
    BY <1>1, <1>2, <1>8, <2>1, <2>2 DEF Control
<1>10. investigated \subseteq investigated' /\ investigated' \subseteq Nat \X Nat
  BY <1>2, <1>5, <1>6 DEF Records, E!StoreIsSound
<1>11. (acts' \in Seq(Done)) /\ E!NothingIsDoneUndiagnosed'
  <2>1. acts \in Seq(Done)
    BY <1>2 DEF Records, E!StoreIsSound, Done
  <2>2. CASE E!Act(c.cap) /\ c.cap \in ReadCaps
    BY <1>1, <1>2, <2>1, <2>2, ActIsLogged
  <2>3. CASE UNCHANGED acts
    BY <1>1, <1>2, <2>1, <2>3, ActsFrame
  <2> QED
    BY <1>6, <2>2, <2>3
<1>12. Records'
  <2>1. E!StoreIsSound'
    BY <1>1, <1>2, <1>10, <1>11 DEF Records, E!StoreIsSound, Done, E!Answered, E!Reasons, E!Caps
  <2>2. 1..observations \subseteq 1..observations'
    BY <1>7, <1>8
  <2>3. E!SourcesAreObserved'
    BY <1>1, <1>2, <2>2 DEF Records, E!SourcesAreObserved, E!FactIds
  <2> QED
    BY <2>1, <2>3 DEF Records
<1>13. Diagnosed'
  BY <1>1, <1>2, DiagnosedFrame
<1>14. Evidence' /\ E!DemandsAreCurrent'
  BY <1>1, <1>2, <1>10, EvidenceFrame, DemandsFrame
<1> QED
  BY <1>9, <1>11, <1>12, <1>13, <1>14, EpistemicGood

(* The reads of a round are over. *)
LEMMA ReadsDoneStep ==
  ASSUME E!EpistemicAssumption, E!EpistemicInvariant, E!ReadsDone
  PROVE  E!EpistemicInvariant'
<1>1. /\ stage = "read"
      /\ UNCHANGED <<hyps, facts, observations, investigated, demanded, todo, acts, admission>>
      /\ (stage' = "extract" /\ UNCHANGED round) \/ E!NextRound
  BY DEF E!ReadsDone
<1>2. /\ Control /\ Evidence /\ Records /\ Diagnosed
      /\ E!DemandsAreCurrent /\ E!NothingIsDoneUndiagnosed
  BY EpistemicInside
<1>3. /\ round \in Nat /\ round >= 1 /\ round <= MaxRounds /\ observations \in Nat
      /\ observations <= round * MaxReads
  BY <1>1, <1>2, Bounds
<1>4. Control' /\ stage' \in {"extract", "link", "conclude"}
  <2>1. CASE stage' = "extract" /\ UNCHANGED round
    <3>1. round' \in 1..MaxRounds /\ observations' <= round' * MaxReads
      BY <1>1, <1>3, <2>1, EpistemicConstants
    <3>2. stage' \in Stages \ {"read", "act", "hypothesize"} /\ stage' \notin {"link", "decide"}
      BY <2>1 DEF Stages
    <3> QED
      BY <1>1, <1>3, <2>1, <3>1, <3>2, ControlIs
  <2>2. CASE E!NextRound
    <3>1. observations' \in Nat /\ observations' <= round * MaxReads
      BY <1>1, <1>3
    <3> QED
      BY <1>3, <2>2, <3>1, NextRoundIsBounded
  <2> QED
    BY <1>1, <2>1, <2>2
<1> QED
  BY <1>1, <1>2, <1>4, EvidenceFrame, RecordsFrame, DemandsFrame, DiagnosedFrame, ActsFrame,
     EpistemicGood

(* A claim becomes a fact, or nothing does. *)
LEMMA ExtractStep ==
  ASSUME E!EpistemicAssumption, E!EpistemicInvariant, E!Extract
  PROVE  E!EpistemicInvariant'
<1>1. /\ stage = "extract" /\ E!NextRound
      /\ UNCHANGED <<hyps, observations, investigated, demanded, todo, acts, admission>>
  BY DEF E!Extract
<1>2. /\ Control /\ Evidence /\ Records /\ Diagnosed
      /\ E!DemandsAreCurrent /\ E!NothingIsDoneUndiagnosed
  BY EpistemicInside
<1>3. /\ round \in Nat /\ round >= 1 /\ round <= MaxRounds /\ observations \in Nat
      /\ observations <= round * MaxReads
  BY <1>1, <1>2, Bounds
<1>4. Control' /\ stage' \in {"link", "conclude"}
  <2>1. observations' \in Nat /\ observations' <= round * MaxReads
    BY <1>1, <1>3
  <2> QED
    BY <1>1, <1>3, <2>1, NextRoundIsBounded
<1>5. facts \in Seq(SUBSET Nat) /\ \A i \in 1..Len(facts) : facts[i] \subseteq 1..observations
  BY <1>2 DEF Records, E!StoreIsSound, E!SourcesAreObserved, E!FactIds
<1>6. CASE UNCHANGED facts
  BY <1>1, <1>2, <1>4, <1>6, EvidenceFrame, RecordsFrame, DemandsFrame, DiagnosedFrame, ActsFrame,
     EpistemicGood
<1>7. CASE \E sources : sources \subseteq 1..observations /\ facts' = Append(facts, sources)
  <2>1. PICK sources : sources \subseteq 1..observations /\ facts' = Append(facts, sources)
    BY <1>7
  <2>2. sources \in SUBSET Nat
    BY <2>1
  <2>3. /\ facts' \in Seq(SUBSET Nat) /\ Len(facts') = Len(facts) + 1
        /\ facts'[Len(facts) + 1] = sources
        /\ \A i \in 1..Len(facts) : facts'[i] = facts[i]
    BY <1>5, <2>1, <2>2, AppendProperties
  <2>4. /\ E!FactIds \subseteq E!FactIds'
        /\ \A i \in 1..Len(facts') : i \in 1..Len(facts) \/ i = Len(facts) + 1
    BY <1>5, <2>3 DEF E!FactIds
  <2>5. Evidence'
    <3>1. E!PortfolioIsSound'
      BY <1>1, <1>2, <1>4 DEF Evidence, E!PortfolioIsSound
    <3>2. E!StatesAreGrounded'
      BY <1>1, <1>2, <2>4 DEF Evidence, E!StatesAreGrounded
    <3> QED
      BY <3>1, <3>2 DEF Evidence
  <2>6. Records'
    <3>1. E!StoreIsSound'
      BY <1>1, <1>2, <2>3 DEF Records, E!StoreIsSound
    <3>2. \A i \in 1..Len(facts') : facts'[i] \subseteq 1..observations
      BY <1>5, <2>1, <2>3, <2>4
    <3>3. E!SourcesAreObserved'
      BY <1>1, <3>2 DEF E!SourcesAreObserved, E!FactIds
    <3> QED
      BY <3>1, <3>3 DEF Records
  <2> QED
    BY <1>1, <1>2, <1>4, <2>5, <2>6, DemandsFrame, DiagnosedFrame, ActsFrame, EpistemicGood
<1> QED
  BY <1>6, <1>7 DEF E!Extract, E!AdmitClaim

(* A stage after the last round. *)
LEMMA LaterControl ==
  ASSUME E!EpistemicAssumption, Control, stage \in {"conclude", "diagnose", "construct"},
         stage' \in {"diagnose", "construct", "done"}, UNCHANGED <<round, observations>>
  PROVE  Control'
<1>1. /\ round \in Nat /\ round # 0 /\ round <= MaxRounds /\ observations \in Nat
      /\ observations <= round * MaxReads
  BY Bounds
<1>2. round' \in 1..MaxRounds /\ observations' \in Nat /\ observations' <= round' * MaxReads
  BY <1>1, EpistemicConstants
<1>3. stage' \in Stages \ {"read", "act", "hypothesize"} /\ stage' \notin {"link", "decide"}
  BY DEF Stages
<1> QED
  BY <1>2, <1>3, ControlIs

(* A refusal ends the episode with a reason. *)
LEMMA RefusalEnds ==
  ASSUME NEW reason \in E!Reasons, E!Refuse(reason), admission \in E!Answered
  PROVE  stage' = "done" /\ admission' \in E!Answered /\ admission'.winner = admission.winner
  BY DEF E!Refuse, E!Answered

(* The winner and the records of a step that touches the answer only. *)
LEMMA AnswerFrame ==
  ASSUME Records, UNCHANGED <<facts, observations, investigated, acts>>,
         admission' \in E!Answered
  PROVE  Records'
  BY DEF Records, E!StoreIsSound, E!SourcesAreObserved, E!FactIds, E!Answered, E!Reasons

(* A loop that ends keeps its winner, or has none. *)
LEMMA DiagnosedEnds ==
  ASSUME Diagnosed, stage' = "done", UNCHANGED hyps, admission'.winner = admission.winner
  PROVE  Diagnosed'
<1>1. E!DiagnosisIsSole'
  BY DEF E!DiagnosisIsSole
<1>2. E!TheWinnerIsSole'
  BY DEF Diagnosed, E!TheWinnerIsSole, E!In
<1> QED
  BY <1>1, <1>2 DEF Diagnosed

(* The kernel concludes, or refuses to. *)
LEMMA ConcludeStep ==
  ASSUME E!EpistemicAssumption, E!EpistemicInvariant, E!Conclude
  PROVE  E!EpistemicInvariant'
<1>1. /\ stage = "conclude"
      /\ UNCHANGED <<round, hyps, facts, observations, investigated, demanded, todo, acts>>
  BY DEF E!Conclude
<1>2. /\ Control /\ Evidence /\ Records /\ Diagnosed
      /\ E!DemandsAreCurrent /\ E!NothingIsDoneUndiagnosed
  BY EpistemicInside
<1>3. admission \in E!Answered
  BY <1>2 DEF Records, E!StoreIsSound
<1>4. CASE E!Sole
  <2>1. stage' = "diagnose" /\ UNCHANGED admission
    BY <1>4 DEF E!Conclude
  <2>2. E!Sole'
    BY <1>1, <1>4 DEF E!Sole, E!In
  <2>3. Diagnosed'
    BY <1>1, <1>2, <2>1, <2>2 DEF Diagnosed, E!DiagnosisIsSole, E!TheWinnerIsSole
  <2>4. Control'
    BY <1>1, <1>2, <2>1, LaterControl
  <2> QED
    BY <1>1, <1>2, <2>1, <2>3, <2>4, EvidenceFrame, RecordsFrame, DemandsFrame, ActsFrame,
       EpistemicGood
<1>5. CASE ~E!Sole
  <2>1. PICK reason \in E!Reasons : E!Refuse(reason)
    <3>1. E!Refuse(IF E!In("SUPPORTED") = {} THEN "NO_SUPPORTED_HYPOTHESIS"
                                             ELSE "MULTIPLE_SUPPORTED_HYPOTHESES")
      BY <1>5 DEF E!Conclude
    <3>2. "NO_SUPPORTED_HYPOTHESIS" \in E!Reasons /\ "MULTIPLE_SUPPORTED_HYPOTHESES" \in E!Reasons
      BY DEF E!Reasons
    <3> QED
      BY <3>1, <3>2
  <2>2. stage' = "done" /\ admission' \in E!Answered /\ admission'.winner = admission.winner
    BY <1>3, <2>1, RefusalEnds
  <2>3. Control'
    BY <1>1, <1>2, <2>2, LaterControl
  <2> QED
    BY <1>1, <1>2, <2>2, <2>3, EvidenceFrame, AnswerFrame, DemandsFrame, DiagnosedEnds, ActsFrame,
       EpistemicGood
<1> QED
  BY <1>4, <1>5

(* The diagnosis names what the kernel computed, or is refused. *)
LEMMA DiagnoseStep ==
  ASSUME E!EpistemicAssumption, E!EpistemicInvariant, E!Diagnose
  PROVE  E!EpistemicInvariant'
<1>1. /\ stage = "diagnose"
      /\ UNCHANGED <<round, hyps, facts, observations, investigated, demanded, todo, acts>>
  BY DEF E!Diagnose
<1>2. /\ Control /\ Evidence /\ Records /\ Diagnosed
      /\ E!DemandsAreCurrent /\ E!NothingIsDoneUndiagnosed
  BY EpistemicInside
<1>3. admission \in E!Answered
  BY <1>2 DEF Records, E!StoreIsSound
<1>4. PICK S : S = E!In("SUPPORTED")
  OBVIOUS
<1>5. S \subseteq hyps /\ IsFiniteSet(S) /\ Cardinality(S) = 1
  <2>1. S \subseteq hyps
    BY <1>4 DEF E!In
  <2>2. IsFiniteSet(hyps)
    BY <1>2, SameSizes DEF Evidence, E!PortfolioIsSound
  <2>3. IsFiniteSet(S)
    BY <2>1, <2>2, FS_Subset
  <2>4. Cardinality(S) = 1
    BY <1>1, <1>2, <1>4, SameSizes DEF Diagnosed, E!DiagnosisIsSole, E!Sole
  <2> QED
    BY <2>1, <2>3, <2>4
<1>6. PICK N : N = {h.id : h \in S}
  OBVIOUS
<1>7. Cardinality(N) = 1 /\ N # {} /\ N \in SUBSET (Nat \X Nat)
  <2>1. \A g, h \in S : g.id = h.id => g = h
    BY <1>2, <1>5 DEF Evidence, E!PortfolioIsSound
  <2>2. Cardinality(N) = 1
    BY <1>5, <1>6, <2>1, UniqueIds
  <2>3. N # {}
    BY <2>2, FS_EmptySet
  <2>4. N \subseteq Nat \X Nat
    BY <1>2, <1>5, <1>6 DEF Evidence, E!PortfolioIsSound, E!Hypotheses
  <2> QED
    BY <2>2, <2>3, <2>4
<1>8. CASE stage' = "construct" /\ admission' = [admission EXCEPT !.winner = N]
  <2>1. admission'.winner = N /\ admission' \in E!Answered
    BY <1>3, <1>7, <1>8 DEF E!Answered
  <2>2. E!In("SUPPORTED")' = S
    BY <1>1, <1>4 DEF E!In
  <2>3. E!Sole'
    BY <1>5, <2>2, SameSizes DEF E!Sole
  <2>4. E!DiagnosisIsSole'
    BY <1>7, <1>8, <2>1, <2>3 DEF E!DiagnosisIsSole
  <2>5. E!TheWinnerIsSole'
    BY <1>6, <1>7, <2>1, <2>2, SameSizes DEF E!TheWinnerIsSole
  <2>6. Diagnosed'
    BY <2>4, <2>5 DEF Diagnosed
  <2>7. Control'
    BY <1>1, <1>2, <1>8, LaterControl
  <2>8. E!NothingIsDoneUndiagnosed'
    BY <1>1, <1>2, <1>7, <2>1, ActsFrame
  <2> QED
    BY <1>1, <1>2, <1>8, <2>1, <2>6, <2>7, <2>8, EvidenceFrame, AnswerFrame, DemandsFrame,
       EpistemicGood
<1>9. CASE E!Refuse("DIAGNOSIS_DIVERGES_FROM_ADMITTED_STATE")
  <2>1. "DIAGNOSIS_DIVERGES_FROM_ADMITTED_STATE" \in E!Reasons
    BY DEF E!Reasons
  <2>2. stage' = "done" /\ admission' \in E!Answered /\ admission'.winner = admission.winner
    BY <1>3, <1>9, <2>1, RefusalEnds
  <2>3. Control'
    BY <1>1, <1>2, <2>2, LaterControl
  <2> QED
    BY <1>1, <1>2, <2>2, <2>3, EvidenceFrame, AnswerFrame, DemandsFrame, DiagnosedEnds, ActsFrame,
       EpistemicGood
<1> QED
  BY <1>4, <1>6, <1>8, <1>9 DEF E!Diagnose

(* A plan, or none. *)
LEMMA ConstructStep ==
  ASSUME E!EpistemicAssumption, E!EpistemicInvariant, E!Construct
  PROVE  E!EpistemicInvariant'
<1> DEFINE Moves == [cap : DoCaps, targets : {{}}]
<1>1. /\ stage = "construct"
      /\ UNCHANGED <<round, hyps, facts, observations, investigated, demanded, acts>>
  BY DEF E!Construct
<1>2. /\ Control /\ Evidence /\ Records /\ Diagnosed
      /\ E!DemandsAreCurrent /\ E!NothingIsDoneUndiagnosed
  BY EpistemicInside
<1>3. admission \in E!Answered
  BY <1>2 DEF Records, E!StoreIsSound
<1>4. CASE E!Refuse("NO_VALID_PLAN")
  <2>1. "NO_VALID_PLAN" \in E!Reasons
    BY DEF E!Reasons
  <2>2. stage' = "done" /\ admission' \in E!Answered /\ admission'.winner = admission.winner
    BY <1>3, <1>4, <2>1, RefusalEnds
  <2>3. Control'
    BY <1>1, <1>2, <2>2, LaterControl
  <2> QED
    BY <1>1, <1>2, <2>2, <2>3, EvidenceFrame, AnswerFrame, DemandsFrame, DiagnosedEnds, ActsFrame,
       EpistemicGood
<1>5. CASE \E n \in 0..MaxPlan : \E c \in [1..n -> DoCaps] :
             /\ todo' = [i \in 1..n |-> [cap |-> c[i], targets |-> {}]]
             /\ stage' = "act" /\ UNCHANGED admission
  <2>0. PICK n \in 0..MaxPlan : \E c \in [1..n -> DoCaps] :
          /\ todo' = [i \in 1..n |-> [cap |-> c[i], targets |-> {}]]
          /\ stage' = "act" /\ UNCHANGED admission
    BY <1>5
  <2>1. PICK c \in [1..n -> DoCaps] :
          /\ todo' = [i \in 1..n |-> [cap |-> c[i], targets |-> {}]]
          /\ stage' = "act" /\ UNCHANGED admission
    BY <2>0
  <2>2. n \in Nat
    BY EpistemicConstants
  <2>3. todo' \in Seq(Moves)
    <3>1. \A i \in 1..n : [cap |-> c[i], targets |-> {}] \in Moves
      OBVIOUS
    <3> HIDE DEF Moves
    <3>2. todo' \in [1..n -> Moves]
      BY <2>1, <3>1
    <3> QED
      BY <2>2, <3>2
  <2>4. Control'
    <3>1. E!PlansAreReal'
      BY <2>1, <2>3 DEF E!PlansAreReal
    <3>2. /\ round \in Nat /\ round # 0 /\ observations \in Nat
          /\ observations <= round * MaxReads
      BY <1>1, <1>2, Bounds
    <3>3. observations + 0 <= round * MaxReads
      BY <3>2
    <3>4. E!ReadsAreBounded'
      BY <1>1, <2>1, <3>2, <3>3 DEF E!ReadsAreBounded
    <3> QED
      BY <1>1, <1>2, <2>1, <3>1, <3>4 DEF Control, Stages
  <2>5. Diagnosed'
    <3>1. E!Sole'
      BY <1>1, <1>2 DEF Diagnosed, E!DiagnosisIsSole, E!Sole, E!In
    <3>2. E!DiagnosisIsSole'
      BY <1>1, <1>2, <2>1, <3>1 DEF Diagnosed, E!DiagnosisIsSole
    <3>3. E!TheWinnerIsSole'
      BY <1>1, <1>2, <2>1 DEF Diagnosed, E!TheWinnerIsSole, E!In
    <3> QED
      BY <3>2, <3>3 DEF Diagnosed
  <2> QED
    BY <1>1, <1>2, <2>1, <2>4, <2>5, EvidenceFrame, RecordsFrame, DemandsFrame, ActsFrame,
       EpistemicGood
<1> QED
  BY <1>4, <1>5 DEF E!Construct

(* One step of the plan, or its end. *)
LEMMA ActStepStep ==
  ASSUME E!EpistemicAssumption, E!EpistemicInvariant, E!ActStep
  PROVE  E!EpistemicInvariant'
<1> DEFINE Moves == [cap : DoCaps, targets : {{}}]
<1>1. /\ stage = "act" /\ UNCHANGED <<round, hyps, facts, observations, investigated, demanded>>
  BY DEF E!ActStep
<1>2. /\ Control /\ Evidence /\ Records /\ Diagnosed
      /\ E!DemandsAreCurrent /\ E!NothingIsDoneUndiagnosed
  BY EpistemicInside
<1>3. /\ admission \in E!Answered /\ acts \in Seq(Done) /\ admission.winner # {}
      /\ todo \in Seq(Moves)
  BY <1>1, <1>2 DEF Records, E!StoreIsSound, Done, Diagnosed, E!DiagnosisIsSole, Control,
     E!PlansAreReal
<1>4. /\ round \in Nat /\ round # 0 /\ round <= MaxRounds /\ observations \in Nat
      /\ observations <= round * MaxReads
  BY <1>1, <1>2, Bounds
<1>5. CASE todo # << >>
  <2>1. E!Act(Head(todo).cap) /\ todo' = Tail(todo) /\ stage' = "act" /\ UNCHANGED admission
    BY <1>1, <1>5 DEF E!ActStep
  <2>2. Head(todo) \in Moves /\ Tail(todo) \in Seq(Moves)
    BY <1>3, <1>5, HeadTailProperties
  <2>3. PICK cap \in DoCaps : cap = Head(todo).cap
    BY <2>2
  <2>4. acts' \in Seq(Done) /\ E!NothingIsDoneUndiagnosed'
    BY <1>1, <1>2, <1>3, <2>1, <2>3, ActIsLogged
  <2>5. Control'
    <3>1. E!PlansAreReal'
      BY <2>1, <2>2 DEF E!PlansAreReal
    <3>2. observations + 0 <= round * MaxReads
      BY <1>4
    <3>3. E!ReadsAreBounded'
      BY <1>1, <1>4, <2>1, <3>2 DEF E!ReadsAreBounded
    <3> QED
      BY <1>1, <1>2, <2>1, <3>1, <3>3 DEF Control, Stages
  <2>6. Diagnosed'
    BY <1>1, <1>2, <2>1 DEF Diagnosed, E!DiagnosisIsSole, E!TheWinnerIsSole, E!Sole, E!In
  <2>7. Records'
    BY <1>1, <1>2, <2>1, <2>4 DEF Records, E!StoreIsSound, E!SourcesAreObserved, E!FactIds, Done,
       E!Caps, E!Answered, E!Reasons
  <2> QED
    BY <1>1, <1>2, <2>1, <2>4, <2>5, <2>6, <2>7, EvidenceFrame, DemandsFrame, EpistemicGood
<1>6. CASE todo = << >>
  <2>1. /\ stage' = "done" /\ UNCHANGED <<acts, todo>>
        /\ admission' = [admission EXCEPT !.admitted = TRUE, !.reason = "ADMITTED"]
    BY <1>6 DEF E!ActStep
  <2>2. admission' \in E!Answered /\ admission'.winner = admission.winner
    BY <1>3, <2>1 DEF E!Answered, E!Reasons
  <2>3. Control'
    <3>1. round' \in 1..MaxRounds /\ observations' \in Nat /\ observations' <= round' * MaxReads
      BY <1>1, <1>4, EpistemicConstants
    <3>2. stage' \in Stages \ {"read", "act", "hypothesize"} /\ stage' \notin {"link", "decide"}
      BY <2>1 DEF Stages
    <3> QED
      BY <3>1, <3>2, ControlIs
  <2> QED
    BY <1>1, <1>2, <2>1, <2>2, <2>3, EvidenceFrame, AnswerFrame, DemandsFrame, DiagnosedEnds,
       ActsFrame, EpistemicGood
<1> QED
  BY <1>5, <1>6

(* Every step of an episode keeps its invariant. *)
LEMMA EpistemicStep ==
  ASSUME E!EpistemicAssumption, E!EpistemicInvariant, [E!Next]_E!vars
  PROVE  E!EpistemicInvariant'
<1>1. CASE UNCHANGED E!vars
  <2>1. UNCHANGED <<stage, round, hyps, facts, observations, investigated, demanded, todo, acts,
                    admission>>
    BY <1>1 DEF E!vars
  <2>2. /\ Control /\ Evidence /\ Records /\ Diagnosed
        /\ E!DemandsAreCurrent /\ E!NothingIsDoneUndiagnosed
    BY EpistemicInside
  <2>3. Control'
    BY <2>1, <2>2 DEF Control, E!PlansAreReal, E!ReadsAreBounded, E!Caps
  <2>4. Diagnosed'
    BY <2>1, <2>2 DEF Diagnosed, E!DiagnosisIsSole, E!TheWinnerIsSole, E!Sole, E!In
  <2> QED
    BY <2>1, <2>2, <2>3, <2>4, EvidenceFrame, RecordsFrame, DemandsFrame, ActsFrame, EpistemicGood
<1> QED
  BY <1>1, HypothesizeStep, EvidenceLinkStep, ClosureStep, RehypothesizeStep, DiscriminateStep,
     ReadStep, ReadsDoneStep, ExtractStep, ConcludeStep, DiagnoseStep, ConstructStep, ActStepStep
     DEF E!Next

-----------------------------------------------------------------------------
(* Theorems *)

(* An act of the tool-calling agent names only what the latest refresh, or *)
(* a read after it, showed; and what a run that ended saw last agrees with *)
(* the world, but for names that others changed, that an act the kernel    *)
(* did not accept changed, or whose observation failed.                    *)
THEOREM ReactClaims ==
  R!ReactAssumption => (R!Spec => [](R!ClaimsAreGrounded /\ R!ReactInvariant))
<1> SUFFICES ASSUME R!ReactAssumption
             PROVE  R!Spec => [](R!ClaimsAreGrounded /\ R!ReactInvariant)
  OBVIOUS
<1>1. R!Init => R!ReactInvariant
  BY ReactInit
<1>2. R!ReactInvariant /\ [R!Next]_R!vars => R!ReactInvariant'
  BY ReactStep
<1>3. R!ReactInvariant => R!ClaimsAreGrounded
  BY DEF R!ReactInvariant
<1> QED
  BY <1>1, <1>2, <1>3, PTL DEF R!Spec

(* The inductive invariant of the diagnosis agent. *)
THEOREM DiagnosisIsInvariant ==
  G!DiagnosisAssumption => (G!Spec => []G!DiagnosisInvariant)
<1> SUFFICES ASSUME G!DiagnosisAssumption
             PROVE  G!Spec => []G!DiagnosisInvariant
  OBVIOUS
<1>1. G!Init => G!DiagnosisInvariant
  BY DiagnosisInit
<1>2. G!DiagnosisInvariant /\ [G!Next]_G!vars => G!DiagnosisInvariant'
  BY DiagnosisStep
<1> QED
  BY <1>1, <1>2, PTL DEF G!Spec

(* An admitted ledger has one root cause and cites facts that exist, and   *)
(* one whose entries all passed is refused only for the number of its      *)
(* causes, in whatever order the resolvers ran.                            *)
THEOREM DiagnosisClaims ==
  G!DiagnosisAssumption => (G!Spec => []G!ClaimsAreGrounded)
<1>1. G!DiagnosisInvariant => G!ClaimsAreGrounded
  BY DEF G!DiagnosisInvariant
<1> QED
  BY <1>1, DiagnosisIsInvariant, PTL

(* Nothing is submitted for a ledger that was not admitted, a mitigation   *)
(* only after a diagnosis that was accepted; facts are numbered once and   *)
(* the semaphore holds, also when resolvers raise.                         *)
THEOREM DiagnosisOrder ==
  G!DiagnosisAssumption => (G!Spec => []G!ActsFollowAdmission)
<1>1. G!DiagnosisInvariant => G!ActsFollowAdmission
  BY DEF G!DiagnosisInvariant
<1> QED
  BY <1>1, DiagnosisIsInvariant, PTL

(* The inductive invariant of an epistemic episode. *)
THEOREM EpistemicIsInvariant ==
  E!EpistemicAssumption => (E!Spec => []E!EpistemicInvariant)
<1> SUFFICES ASSUME E!EpistemicAssumption
             PROVE  E!Spec => []E!EpistemicInvariant
  OBVIOUS
<1>1. E!Init => E!EpistemicInvariant
  BY EpistemicInit
<1>2. E!EpistemicInvariant /\ [E!Next]_E!vars => E!EpistemicInvariant'
  BY EpistemicStep
<1> QED
  BY <1>1, <1>2, PTL DEF E!Spec

(* The state of a hypothesis follows from facts of the store, a fact's     *)
(* sources were observed, and a demand to commit is about a hypothesis     *)
(* that was read about and is open, whatever the model proposes.           *)
THEOREM EpistemicClaims ==
  E!EpistemicAssumption => (E!Spec => []E!ClaimsAreGrounded)
<1>1. E!EpistemicInvariant => E!ClaimsAreGrounded
  BY DEF E!EpistemicInvariant
<1> QED
  BY <1>1, EpistemicIsInvariant, PTL

(* While hypotheses are open only the caller's reads run; a capability of  *)
(* the do set runs after a diagnosis of the sole supported hypothesis, and *)
(* rounds and reads stay within their budgets.                             *)
THEOREM EpistemicOrder ==
  E!EpistemicAssumption => (E!Spec => []E!ActsFollowAdmission)
<1>1. E!EpistemicInvariant => E!ActsFollowAdmission
  BY DEF E!EpistemicInvariant
<1> QED
  BY <1>1, EpistemicIsInvariant, PTL

-----------------------------------------------------------------------------
(* The environment harness, for any number of legs, any worlds, stages,    *)
(* rules and goals, and every fault of the kernel: the session loses no    *)
(* episode, stages only what the preflight admitted, undoes what a failed  *)
(* postcondition must undo, and reports completion only when every leg was *)
(* verified (HarnessInvariant), and what is still to come of acts that     *)
(* timed out is of the session's episode (PendingInvariant); an accepted   *)
(* reset staged everything, when a stage repeats no key (StageInvariant);  *)
(* and limits bound the runs of their capabilities, when they stand behind *)
(* the rewrites (LimitInvariant).  One lemma per action; HarnessInv adds   *)
(* the types.                                                              *)

(* The inductive invariant of the harness. *)
HarnessInv == H!TypeOK /\ H!HarnessInvariant

(* What the proofs use of the assumption. *)
LEMMA HarnessConstants ==
  ASSUME H!EnvHarnessAssumption
  PROVE  /\ Legs \in Nat \ {0} /\ MaxEpisodes \in Nat \ {0} /\ MaxCalls \in Nat
         /\ Fresh \in Worlds /\ Reads \subseteq Caps
         /\ \A c \in Caps : \A w \in Worlds : Effect[c][w] \in Worlds
         /\ \A a \in Actions : H!IsAction(a)
         /\ \A l \in 1..Legs :
              /\ Len(Harness[l].stage) \in Nat
              /\ DOMAIN Harness[l].stage = 1..Len(Harness[l].stage)
              /\ \A i \in DOMAIN Harness[l].stage : H!IsAction(Harness[l].stage[i])
<1>1. Legs \in Nat \ {0} /\ MaxEpisodes \in Nat \ {0} /\ MaxCalls \in Nat
  BY DEF H!EnvHarnessAssumption
<1>2. \A c \in Caps : \A w \in Worlds : Effect[c][w] \in Worlds
  BY DEF H!EnvHarnessAssumption
<1> QED BY <1>1, <1>2 DEF H!EnvHarnessAssumption

(* The parts of the type invariant. *)
ControlTypes ==
  /\ at \in {"idle", "teardown", "materialize", "baseline", "stage", "staged", "unstage",
             "admit", "read", "checkpoint", "act", "verify", "rollback", "observe", "judge"}
  /\ call \in H!CallNames /\ calls \in 0..MaxCalls /\ session \in BOOLEAN
KernelTypes == ep \in 0..MaxEpisodes /\ live \subseteq 1..MaxEpisodes /\ made \in 0..MaxEpisodes
LegTypes == leg \in 1..Legs /\ verified \in Seq(1..Legs) /\ history \in Seq(Caps)
WorldTypes == world \in Worlds /\ saved \in Worlds /\ start \in Worlds
LocalTypes == H!IsAction(doing) /\ index \in Nat

(* They make it up. *)
LEMMA HarnessTypeParts ==
  H!TypeOK <=> /\ ControlTypes /\ KernelTypes /\ LegTypes /\ WorldTypes /\ LocalTypes
             /\ result \in H!Results
  BY DEF H!TypeOK, ControlTypes, KernelTypes, LegTypes, WorldTypes, LocalTypes

(* A state is good when these are. *)
LEMMA HarnessGood ==
  ASSUME ControlTypes', KernelTypes', LegTypes', WorldTypes', LocalTypes',
         (result \in H!Results)',
         H!CallsAreInPlace', H!EpisodesAreKnown', H!CheckpointsAreOfTheStart', H!StageIsAdmitted',
         H!LegsAreVerified'
  PROVE  HarnessInv'
<1>1. H!TypeOK'
  BY DEF H!TypeOK, ControlTypes, KernelTypes, LegTypes, WorldTypes, LocalTypes
<1> QED BY <1>1 DEF HarnessInv, H!HarnessInvariant

(* What the calls report has its type. *)
LEMMA ResultTypes ==
  ASSUME ControlTypes
  PROVE  /\ H!Nothing \in H!Results /\ H!Nothing.reason = H!None /\ H!Nothing.complete = FALSE
         /\ \A ok \in BOOLEAN : \A why \in H!Reasons :
              /\ H!Result(ok, why) \in H!Results /\ H!Result(ok, why).call = call
              /\ H!Result(ok, why).accepted = ok /\ H!Result(ok, why).reason = why
              /\ H!Result(ok, why).complete = FALSE
<1>1. call \in H!CallNames
  BY DEF ControlTypes
<1>2. H!Nothing \in H!Results
  BY DEF H!Results, H!Nothing, H!CallNames, H!Reasons, H!None
<1>3. ASSUME NEW ok \in BOOLEAN, NEW why \in H!Reasons
      PROVE  H!Result(ok, why) \in H!Results
  BY <1>1, <1>3 DEF H!Results, H!Result
<1> QED BY <1>2, <1>3 DEF H!Result, H!Nothing

(* So has the report of a completed chain. *)
LEMMA CompleteResult ==
  ASSUME ControlTypes
  PROVE  H!Completed \in H!Results /\ H!Completed.reason = "complete"
<1>1. call \in H!CallNames /\ "complete" \in H!Reasons
  BY DEF ControlTypes, H!Reasons
<1> QED BY <1>1 DEF H!Results, H!Completed

(* Appending keeps the type of a sequence and adds to its range. *)
LEMMA Appended ==
  ASSUME NEW S, NEW s \in Seq(S), NEW e \in S
  PROVE  Append(s, e) \in Seq(S) /\ H!Range(Append(s, e)) = H!Range(s) \cup {e}
<1>1. /\ Append(s, e) \in Seq(S) /\ Len(Append(s, e)) = Len(s) + 1
      /\ \A i \in 1..Len(s) : Append(s, e)[i] = s[i]
      /\ Append(s, e)[Len(s) + 1] = e
  BY AppendProperties
<1>2. /\ DOMAIN s = 1..Len(s) /\ DOMAIN Append(s, e) = 1..Len(Append(s, e))
      /\ Len(s) \in Nat
  BY <1>1
<1> QED BY <1>1, <1>2 DEF H!Range

(* Before the first call nothing lives and nothing is reported. *)
LEMMA HarnessInit ==
  ASSUME H!EnvHarnessAssumption, H!Init
  PROVE  HarnessInv
<1> USE DEF H!Init, H!NoAction, H!Nothing, H!None
<1>1. H!TypeOK
  <2>1. verified \in Seq(1..Legs) /\ history \in Seq(Caps)
    OBVIOUS
  <2>2. H!IsAction(doing) /\ result \in H!Results
    BY DEF H!IsAction, H!Results, H!CallNames, H!Reasons
  <2>3. /\ Legs \in Nat \ {0} /\ MaxEpisodes \in Nat /\ MaxCalls \in Nat
        /\ {world, saved, start} \subseteq Worlds
    BY HarnessConstants
  <2>4. /\ leg \in 1..Legs /\ ep \in 0..MaxEpisodes /\ made \in 0..MaxEpisodes
        /\ calls \in 0..MaxCalls
    BY <2>3
  <2> QED BY <2>1, <2>2, <2>3, <2>4 DEF H!TypeOK, H!CallNames
<1>2. H!CallsAreInPlace /\ H!EpisodesAreKnown
  BY DEF H!CallsAreInPlace, H!EpisodesAreKnown, H!NoEpisodeIsLost
<1>3. H!CheckpointsAreOfTheStart /\ H!StageIsAdmitted
  BY DEF H!CheckpointsAreOfTheStart, H!StageIsAdmitted
<1>4. H!LegsAreVerified
  BY HarnessConstants DEF H!LegsAreVerified, H!ReportedCompletionIsEarned
<1> QED BY <1>1, <1>2, <1>3, <1>4 DEF HarnessInv, H!HarnessInvariant

-----------------------------------------------------------------------------
(* The calls begin *)

(* A call that begins keeps whatever it does not let go of. *)
LEMMA BeginKeeps ==
  ASSUME H!EnvHarnessAssumption, HarnessInv, NEW c \in H!CallNames, NEW p, H!Begin(c, p),
         \/ p = "teardown" /\ ep # 0 /\ c \in {"reset", "restart", "close"}
         \/ p = "materialize" /\ ep = 0 /\ c \in {"reset", "restart"}
         \/ p = "admit" /\ c = "step"
         \/ p = "judge" /\ c = "advance",
         session,
         UNCHANGED <<H!sessionVars, H!kernelVars, index, saved>>, LocalTypes'
  PROVE  HarnessInv'
<1> USE DEF H!Begin, H!sessionVars, H!kernelVars
<1>1. /\ ControlTypes /\ KernelTypes /\ LegTypes /\ WorldTypes
      /\ H!CallsAreInPlace /\ H!EpisodesAreKnown /\ H!LegsAreVerified
  BY HarnessTypeParts DEF HarnessInv, H!HarnessInvariant
<1>2. /\ at' = p /\ call' = c /\ start' = world /\ result' = H!Nothing /\ calls' = calls + 1
      /\ orphans' = orphans
  OBVIOUS
<1>3. H!Nothing \in H!Results /\ H!Nothing.reason = H!None /\ H!Nothing.complete = FALSE
  BY <1>1, ResultTypes
<1>4. ControlTypes'
  BY <1>1, <1>2, HarnessConstants DEF ControlTypes, H!CallNames
<1>5. KernelTypes' /\ LegTypes' /\ WorldTypes' /\ (result \in H!Results)'
  BY <1>1, <1>2, <1>3 DEF KernelTypes, LegTypes, WorldTypes
<1>6. H!CallsAreInPlace'
  BY <1>2 DEF H!CallsAreInPlace
<1>7. H!EpisodesAreKnown'
  BY <1>1, <1>2 DEF H!EpisodesAreKnown, H!NoEpisodeIsLost
<1>8. H!CheckpointsAreOfTheStart' /\ H!StageIsAdmitted'
  BY <1>2, <1>3 DEF H!CheckpointsAreOfTheStart, H!StageIsAdmitted, H!None
<1>9. H!LegsAreVerified'
  BY <1>1, <1>2, <1>3 DEF H!LegsAreVerified, H!ReportedCompletionIsEarned
<1> QED BY <1>4, <1>5, <1>6, <1>7, <1>8, <1>9, HarnessGood

(* A chain that holds no episode starts over at its first leg. *)
LEMMA ChainResetKeeps ==
  ASSUME H!EnvHarnessAssumption, HarnessInv, H!ChainReset
  PROVE  HarnessInv'
<1>1. /\ ControlTypes /\ KernelTypes /\ LegTypes /\ WorldTypes /\ LocalTypes
      /\ H!CallsAreInPlace /\ H!EpisodesAreKnown /\ H!LegsAreVerified
  BY HarnessTypeParts DEF HarnessInv, H!HarnessInvariant
<1>2. LocalTypes'
  BY <1>1 DEF H!ChainReset, H!localVars, LocalTypes, H!ghosts
<1>3. CASE session /\ ep # 0
  BY <1>2, <1>3, BeginKeeps DEF H!ChainReset, H!localVars, H!CallNames, H!ghosts
<1>4. CASE ~(session /\ ep # 0)
  <2>1. /\ at' = "materialize" /\ call' = "reset" /\ start' = world /\ result' = H!Nothing
        /\ calls < MaxCalls /\ calls' = calls + 1
        /\ leg' = 1 /\ session' = TRUE /\ ep' = 0 /\ history' = << >> /\ verified' = << >>
        /\ UNCHANGED <<live, made, world, answers, doing, index, saved, orphans>>
    BY <1>4 DEF H!ChainReset, H!Begin, H!NewSession, H!kernelVars, H!localVars, H!ghosts
  <2>2. ep = 0 /\ live \subseteq orphans /\ 0 \notin live
    BY <1>1, <1>4 DEF H!EpisodesAreKnown, H!NoEpisodeIsLost
  <2>3. H!Nothing \in H!Results /\ H!Nothing.reason = H!None /\ H!Nothing.complete = FALSE
    BY <1>1, ResultTypes
  <2>4. ControlTypes'
    BY <1>1, <2>1, HarnessConstants DEF ControlTypes, H!CallNames
  <2>5. LegTypes'
    BY <2>1, HarnessConstants DEF LegTypes
  <2>6. KernelTypes' /\ WorldTypes' /\ (result \in H!Results)'
    BY <1>1, <2>1, <2>2, <2>3 DEF KernelTypes, WorldTypes
  <2>7. H!CallsAreInPlace'
    BY <2>1 DEF H!CallsAreInPlace
  <2>8. H!EpisodesAreKnown'
    BY <1>1, <2>1, <2>2 DEF H!EpisodesAreKnown, H!NoEpisodeIsLost
  <2>9. H!CheckpointsAreOfTheStart' /\ H!StageIsAdmitted'
    BY <2>1, <2>3 DEF H!CheckpointsAreOfTheStart, H!StageIsAdmitted, H!None
  <2>10. H!LegsAreVerified'
    BY <2>1, <2>3 DEF H!LegsAreVerified, H!ReportedCompletionIsEarned
  <2> QED BY <1>2, <2>4, <2>5, <2>6, <2>7, <2>8, <2>9, <2>10, HarnessGood
<1> QED BY <1>3, <1>4

(* The other calls keep the session and its episode until their awaits. *)
LEMMA CallsKeep ==
  ASSUME H!EnvHarnessAssumption, HarnessInv,
         H!SessionReset \/ H!Close \/ H!Advance \/ \E a \in Actions : H!Step(a)
  PROVE  HarnessInv'
<1>1. LocalTypes
  BY HarnessTypeParts DEF HarnessInv
<1>2. CASE H!SessionReset
  <2>1. LocalTypes'
    BY <1>1, <1>2 DEF H!SessionReset, LocalTypes, H!localVars, H!ghosts
  <2> QED BY <1>2, <2>1, BeginKeeps DEF H!SessionReset, H!localVars, H!CallNames, H!ghosts
<1>3. CASE H!Close
  <2>1. LocalTypes'
    BY <1>1, <1>3 DEF H!Close, LocalTypes, H!localVars, H!ghosts
  <2> QED BY <1>3, <2>1, BeginKeeps DEF H!Close, H!localVars, H!CallNames, H!ghosts
<1>4. CASE H!Advance
  <2>1. LocalTypes'
    BY <1>1, <1>4 DEF H!Advance, LocalTypes, H!localVars, H!ghosts
  <2> QED BY <1>4, <2>1, BeginKeeps DEF H!Advance, H!localVars, H!CallNames, H!ghosts
<1>5. ASSUME NEW a \in Actions, H!Step(a)
      PROVE  HarnessInv'
  <2>1. LocalTypes'
    BY <1>1, <1>5, HarnessConstants DEF H!Step, LocalTypes, H!IsAction
  <2> QED BY <1>5, <2>1, BeginKeeps DEF H!Step, H!CallNames
<1> QED BY <1>2, <1>3, <1>4, <1>5

-----------------------------------------------------------------------------
(* Teardown and materialization *)

(* A teardown lets go of the episode in the session and in the kernel. *)
LEMMA TeardownKeeps ==
  ASSUME H!EnvHarnessAssumption, HarnessInv, H!Teardown
  PROVE  HarnessInv'
<1>1. /\ ControlTypes /\ KernelTypes /\ LegTypes /\ WorldTypes /\ LocalTypes
      /\ H!CallsAreInPlace /\ H!EpisodesAreKnown /\ H!LegsAreVerified
  BY HarnessTypeParts DEF HarnessInv, H!HarnessInvariant
<1>2. /\ at = "teardown" /\ ep # 0 /\ result = H!Nothing
      /\ call \in {"reset", "restart", "advance", "close"}
      /\ UNCHANGED <<call, made, world, answers, doing, index, saved, start, orphans, calls>>
  BY <1>1 DEF H!Teardown, H!CallsAreInPlace, H!localVars, H!ghosts
<1>3. /\ H!Nothing \in H!Results /\ H!Nothing.reason = H!None /\ H!Nothing.complete = FALSE
      /\ \A ok \in BOOLEAN : \A why \in H!Reasons :
           /\ H!Result(ok, why) \in H!Results /\ H!Result(ok, why).reason = why
           /\ H!Result(ok, why).complete = FALSE
  BY <1>1, ResultTypes
<1>4. WorldTypes' /\ LocalTypes'
  BY <1>1, <1>2 DEF WorldTypes, LocalTypes
<1>5. CASE live' = live \ {ep} /\ H!AfterTeardown
  <2> USE <1>1, <1>2, <1>5 DEF H!AfterTeardown, H!NewSession, H!Await, H!Return
  <2>a. live' \subseteq orphans /\ live' \subseteq live
    BY DEF H!EpisodesAreKnown, H!NoEpisodeIsLost
  <2>b. ep' = 0 /\ session' = TRUE
    BY DEF H!EpisodesAreKnown, ControlTypes
  <2>1. \/ at' = "materialize" /\ result' = H!Nothing /\ call # "close"
        \/ at' = "idle" /\ result' = H!Result(TRUE, "torn down")
    OBVIOUS
  <2>c. \/ leg' = 1 /\ history' = << >> /\ verified' = << >>
        \/ call = "advance" /\ leg' = leg + 1 /\ history' = << >> /\ verified' = verified
        \/ UNCHANGED <<leg, verified, history>>
    OBVIOUS
  <2>2. result' \in H!Results /\ result'.reason \in {H!None,
       "torn down"} /\ result'.complete = FALSE
    BY <1>3, <2>1 DEF H!Reasons, H!None
  <2> HIDE <1>1, <1>2, <1>5 DEF H!AfterTeardown, H!NewSession, H!Await, H!Return
  <2>3. ControlTypes'
    BY <1>1, <1>2, <2>1, <2>b DEF ControlTypes
  <2>4. LegTypes'
    <3>1. Legs \in Nat \ {0} /\ (call = "advance" => leg + 1 \in 1..Legs)
      BY <1>1, <1>2, HarnessConstants DEF LegTypes, H!LegsAreVerified
    <3>2. << >> \in Seq(1..Legs) /\ << >> \in Seq(Caps)
      OBVIOUS
    <3>3. leg \in 1..Legs /\ verified \in Seq(1..Legs) /\ history \in Seq(Caps)
      BY <1>1 DEF LegTypes
    <3>4. leg' \in 1..Legs
      BY <2>c, <3>1, <3>3
    <3>5. verified' \in Seq(1..Legs)
      BY <2>c, <3>2, <3>3
    <3>6. history' \in Seq(Caps)
      BY <2>c, <3>2, <3>3
    <3> QED BY <3>4, <3>5, <3>6 DEF LegTypes
  <2>5. KernelTypes'
    <3>1. MaxEpisodes \in Nat /\ made' = made
      BY <1>2, HarnessConstants
    <3> QED BY <1>1, <2>a, <2>b, <3>1 DEF KernelTypes
  <2>6. H!CallsAreInPlace'
    BY <1>2, <2>1 DEF H!CallsAreInPlace
  <2>7. H!EpisodesAreKnown'
    <3>1. made \in Nat /\ session
      BY <1>1, <1>2, HarnessConstants DEF KernelTypes, H!EpisodesAreKnown
    <3> QED BY <1>1, <1>2, <2>a, <2>b, <3>1 DEF H!EpisodesAreKnown, H!NoEpisodeIsLost
  <2>8. H!CheckpointsAreOfTheStart' /\ H!StageIsAdmitted'
    BY <2>1, <2>2 DEF H!CheckpointsAreOfTheStart, H!StageIsAdmitted, H!None
  <2>9. H!LegsAreVerified'
    <3>1. /\ \A l \in 1..Legs : l < leg => l \in H!Range(verified)
          /\ call = "advance" => leg \in H!Range(verified)
      BY <1>1, <1>2 DEF H!LegsAreVerified
    <3>2. \A l \in 1..Legs : l < leg + 1 => l < leg \/ l = leg
      BY <1>1, HarnessConstants DEF LegTypes
    <3>3. \A l \in 1..Legs : l < leg' => l \in H!Range(verified')
      BY <2>c, <3>1, <3>2, HarnessConstants
    <3> QED BY <2>1, <2>2, <3>3 DEF H!LegsAreVerified, H!ReportedCompletionIsEarned
  <2> QED BY <1>4, <2>2, <2>3, <2>4, <2>5, <2>6, <2>7, <2>8, <2>9, HarnessGood
<1>6. CASE UNCHANGED live /\ H!AfterFailedTeardown
  <2>1. /\ at' = "idle" /\ UNCHANGED <<live, leg, verified, session, ep, history>>
        /\ result' \in {H!Result(FALSE, "raised"), H!Result(FALSE, "teardown failed")}
    BY <1>6 DEF H!AfterFailedTeardown, H!Raise, H!Return, H!sessionVars, H!ghosts
  <2>2. /\ result' \in H!Results /\ result'.reason \in {"raised", "teardown failed"}
        /\ result'.complete = FALSE
    BY <1>3, <2>1 DEF H!Reasons
  <2>3. ControlTypes' /\ LegTypes' /\ KernelTypes'
    BY <1>1, <1>2, <2>1 DEF ControlTypes, LegTypes, KernelTypes
  <2>4. H!CallsAreInPlace' /\ H!EpisodesAreKnown'
    BY <1>1, <1>2, <2>1 DEF H!CallsAreInPlace, H!EpisodesAreKnown, H!NoEpisodeIsLost
  <2>5. H!CheckpointsAreOfTheStart' /\ H!StageIsAdmitted'
    BY <2>1, <2>2 DEF H!CheckpointsAreOfTheStart, H!StageIsAdmitted
  <2>6. H!LegsAreVerified'
    BY <1>1, <2>1, <2>2 DEF H!LegsAreVerified, H!ReportedCompletionIsEarned
  <2> QED BY <1>4, <2>2, <2>3, <2>4, <2>5, <2>6, HarnessGood
<1> QED BY <1>5, <1>6 DEF H!Teardown

(* A materialization makes the one episode there is. *)
LEMMA MaterializeKeeps ==
  ASSUME H!EnvHarnessAssumption, HarnessInv, H!Materialize
  PROVE  HarnessInv'
<1>1. /\ ControlTypes /\ KernelTypes /\ LegTypes /\ WorldTypes /\ LocalTypes
      /\ H!CallsAreInPlace /\ H!EpisodesAreKnown /\ H!LegsAreVerified
  BY HarnessTypeParts DEF HarnessInv, H!HarnessInvariant
<1>2. /\ at = "materialize" /\ ep = 0 /\ live \subseteq orphans /\ result = H!Nothing
      /\ call \in {"reset", "restart", "advance"}
      /\ UNCHANGED <<call, leg, verified, session, doing, index, saved, start, orphans, calls>>
  BY <1>1 DEF H!Materialize, H!CallsAreInPlace, H!EpisodesAreKnown, H!NoEpisodeIsLost, H!localVars,
       H!ghosts
<1>3. /\ H!Nothing \in H!Results /\ H!Nothing.reason = H!None /\ H!Nothing.complete = FALSE
      /\ \A ok \in BOOLEAN : \A why \in H!Reasons :
           /\ H!Result(ok, why) \in H!Results /\ H!Result(ok, why).reason = why
           /\ H!Result(ok, why).complete = FALSE
  BY <1>1, ResultTypes
<1>4. LocalTypes'
  BY <1>1, <1>2 DEF LocalTypes
<1>5. CASE at' # "idle"
  <2>1. /\ made < MaxEpisodes /\ made' = made + 1 /\ ep' = made + 1
        /\ live' = live \cup {made + 1} /\ world' = Fresh /\ history' = << >>
        /\ UNCHANGED answers /\ result' = H!Nothing
        /\ at' = IF H!Admissible(Harness[leg]) THEN "baseline" ELSE "unstage"
    BY <1>2, <1>5 DEF H!Materialize, H!Await, H!Return
  <2>2. ControlTypes' /\ (result \in H!Results)'
    BY <1>1, <1>2, <1>3, <2>1 DEF ControlTypes
  <2>3. LegTypes'
    BY <1>1, <1>2, <2>1 DEF LegTypes
  <2>4. KernelTypes'
    BY <1>1, <1>2, <2>1, HarnessConstants DEF KernelTypes
  <2>5. WorldTypes'
    BY <1>1, <1>2, <2>1, HarnessConstants DEF WorldTypes
  <2>6. H!CallsAreInPlace'
    BY <1>2, <2>1 DEF H!CallsAreInPlace
  <2>7. H!EpisodesAreKnown'
    <3>1. \A r \in answers : r.ep \in 0..made
      BY <1>1 DEF H!EpisodesAreKnown
    <3>2. made \in Nat /\ 0..made \subseteq 0..(made + 1) /\ 0 \notin live
      BY <1>1, HarnessConstants DEF KernelTypes, H!EpisodesAreKnown
    <3>3. session' = session /\ session
      BY <1>1, <1>2 DEF H!EpisodesAreKnown
    <3> QED BY <1>2, <2>1, <3>1, <3>2, <3>3 DEF H!EpisodesAreKnown, H!NoEpisodeIsLost
  <2>8. H!StageIsAdmitted'
    BY <1>2, <2>1 DEF H!StageIsAdmitted
  <2>9. H!CheckpointsAreOfTheStart'
    BY <1>2, <1>3, <2>1 DEF H!CheckpointsAreOfTheStart, H!None, H!Admissible
  <2>10. H!LegsAreVerified'
    BY <1>1, <1>2, <1>3, <2>1 DEF H!LegsAreVerified, H!ReportedCompletionIsEarned
  <2> QED BY <1>4, <2>2, <2>3, <2>4, <2>5, <2>6, <2>7, <2>8, <2>9, <2>10, HarnessGood
<1>6. CASE at' = "idle"
  <2>1. /\ result' = H!Result(FALSE, "not materialized")
        /\ UNCHANGED <<ep, live, made, world, answers, history>>
    BY <1>6 DEF H!Materialize, H!Await, H!Return, H!kernelVars, H!ghosts
  <2>2. /\ result' \in H!Results /\ result'.reason = "not materialized"
        /\ result'.complete = FALSE
    BY <1>3, <2>1 DEF H!Reasons
  <2>3. ControlTypes' /\ LegTypes' /\ KernelTypes' /\ WorldTypes'
    BY <1>1, <1>2, <1>6, <2>1 DEF ControlTypes, LegTypes, KernelTypes, WorldTypes
  <2>4. H!CallsAreInPlace' /\ H!EpisodesAreKnown'
    BY <1>1, <1>2, <1>6, <2>1 DEF H!CallsAreInPlace, H!EpisodesAreKnown, H!NoEpisodeIsLost
  <2>5. H!CheckpointsAreOfTheStart' /\ H!StageIsAdmitted'
    BY <1>6, <2>2 DEF H!CheckpointsAreOfTheStart, H!StageIsAdmitted
  <2>6. H!LegsAreVerified'
    BY <1>1, <1>2, <1>6, <2>2 DEF H!LegsAreVerified, H!ReportedCompletionIsEarned
  <2> QED BY <1>4, <2>2, <2>3, <2>4, <2>5, <2>6, HarnessGood
<1> QED BY <1>5, <1>6

-----------------------------------------------------------------------------
(* The steps inside reset and step *)

(* They keep the session's episode and legs and end no call complete, so   *)
(* only the action, the checkpoints and the report are left to look at.    *)
LEMMA HarnessInsideKeeps ==
  ASSUME H!EnvHarnessAssumption, HarnessInv, at # "idle",
         UNCHANGED <<call, leg, verified, session, ep, live, made, start, orphans, calls>>,
         ControlTypes', at' \notin {"teardown", "materialize"},
         history' \in Seq(Caps), world' \in Worlds, saved' \in Worlds, LocalTypes',
         \A r \in answers' : r \in answers \/ r.ep = ep,
         result' \in H!Results, result'.complete = FALSE,
         H!CallsAreInPlace', H!CheckpointsAreOfTheStart', H!StageIsAdmitted'
  PROVE  HarnessInv'
<1>1. KernelTypes /\ LegTypes /\ WorldTypes /\ H!EpisodesAreKnown /\ H!LegsAreVerified
  BY HarnessTypeParts DEF HarnessInv, H!HarnessInvariant
<1>2. KernelTypes' /\ LegTypes' /\ WorldTypes'
  BY <1>1 DEF KernelTypes, LegTypes, WorldTypes
<1>3. H!EpisodesAreKnown'
  <2>1. \A r \in answers' : r.ep \in 0..made
    BY <1>1 DEF H!EpisodesAreKnown
  <2> QED BY <1>1, <2>1 DEF H!EpisodesAreKnown, H!NoEpisodeIsLost
<1>4. H!LegsAreVerified'
  BY <1>1 DEF H!LegsAreVerified, H!ReportedCompletionIsEarned
<1> QED BY <1>2, <1>3, <1>4, HarnessGood

(* The invariant inside a call. *)
LEMMA HarnessInside ==
  ASSUME H!EnvHarnessAssumption, HarnessInv
  PROVE  /\ ControlTypes /\ KernelTypes /\ LegTypes /\ WorldTypes /\ LocalTypes
         /\ result \in H!Results
         /\ H!CallsAreInPlace /\ H!EpisodesAreKnown /\ H!CheckpointsAreOfTheStart
         /\ H!StageIsAdmitted /\ H!LegsAreVerified
         /\ at \notin {"idle", "observe"} => result = H!Nothing
         /\ H!Nothing \in H!Results /\ H!Nothing.reason = H!None /\ H!Nothing.complete = FALSE
         /\ \A ok \in BOOLEAN : \A why \in H!Reasons :
              /\ H!Result(ok, why) \in H!Results /\ H!Result(ok, why).reason = why
              /\ H!Result(ok, why).complete = FALSE
<1>1. /\ ControlTypes /\ KernelTypes /\ LegTypes /\ WorldTypes /\ LocalTypes
      /\ result \in H!Results
      /\ H!CallsAreInPlace /\ H!EpisodesAreKnown /\ H!CheckpointsAreOfTheStart
      /\ H!StageIsAdmitted /\ H!LegsAreVerified
  BY HarnessTypeParts DEF HarnessInv, H!HarnessInvariant
<1> QED BY <1>1, ResultTypes DEF H!CallsAreInPlace

(* Whatever an await raises, the call ends with everything as it is. *)
LEMMA RaisesKeep ==
  ASSUME H!EnvHarnessAssumption, HarnessInv, at # "idle", H!Raise,
         UNCHANGED <<call, leg, verified, session, ep, live, made, start, orphans, calls,
                     history, index, saved, doing>>,
         world' \in Worlds, \A r \in answers' : r \in answers \/ r.ep = ep
  PROVE  HarnessInv'
<1>1. /\ at' = "idle" /\ result' \in H!Results /\ result'.reason = "raised"
      /\ result'.complete = FALSE
  BY HarnessInside DEF H!Raise, H!Return, H!Reasons
<1>2. ControlTypes' /\ LocalTypes' /\ history' \in Seq(Caps) /\ saved' \in Worlds
  BY <1>1, HarnessInside DEF ControlTypes, LocalTypes, LegTypes, WorldTypes
<1>3. H!CallsAreInPlace' /\ H!CheckpointsAreOfTheStart' /\ H!StageIsAdmitted'
  BY <1>1 DEF H!CallsAreInPlace, H!CheckpointsAreOfTheStart, H!StageIsAdmitted
<1> QED BY <1>1, <1>2, <1>3, HarnessInsideKeeps

(* An interrupted await is such a raise. *)
LEMMA InterruptedKeeps ==
  ASSUME H!EnvHarnessAssumption, HarnessInv, H!Interrupted
  PROVE  HarnessInv'
<1>1. world \in Worlds
  BY HarnessInside DEF WorldTypes
<1> QED BY <1>1, RaisesKeep DEF H!Interrupted, H!sessionVars, H!kernelVars, H!localVars, H!ghosts

(* The cleanup lets go of the episode of an inadmissible harness. *)
LEMMA CleanupKeeps ==
  ASSUME H!EnvHarnessAssumption, HarnessInv, H!Cleanup
  PROVE  HarnessInv'
<1>1. /\ at = "unstage" /\ at' = "idle" /\ session
      /\ UNCHANGED <<call, leg, verified, session, history, made, world, answers, doing, index,
                     saved, start, orphans, calls>>
      /\ \/ live' = live \ {ep} /\ ep' = 0 /\ result' = H!Result(FALSE, "inadmissible")
         \/ UNCHANGED <<live, ep>> /\ result' = H!Result(FALSE, "cleanup failed")
  BY HarnessInside DEF H!Cleanup, H!Return, H!localVars, H!EpisodesAreKnown, H!ghosts
<1>2. /\ result' \in H!Results /\ result'.reason \in {"inadmissible", "cleanup failed"}
      /\ result'.complete = FALSE
  BY <1>1, HarnessInside DEF H!Reasons
<1>3. ControlTypes' /\ LegTypes' /\ WorldTypes' /\ LocalTypes'
  BY <1>1, HarnessInside DEF ControlTypes, LegTypes, WorldTypes, LocalTypes
<1>4. KernelTypes'
  <2>1. MaxEpisodes \in Nat /\ made' = made /\ live' \subseteq live /\ ep' \in {0, ep}
    BY <1>1, HarnessConstants
  <2> QED BY <2>1, HarnessInside DEF KernelTypes
<1>5. H!CallsAreInPlace' /\ H!CheckpointsAreOfTheStart' /\ H!StageIsAdmitted'
  BY <1>1, <1>2 DEF H!CallsAreInPlace, H!CheckpointsAreOfTheStart, H!StageIsAdmitted
<1>6. H!EpisodesAreKnown'
  <2>1. /\ live \subseteq {ep} \cup orphans /\ 0 \notin live /\ ep \in 0..made
        /\ \A r \in answers : r.ep \in 0..made
    BY HarnessInside DEF H!EpisodesAreKnown, H!NoEpisodeIsLost
  <2>2. made \in Nat
    BY HarnessInside, HarnessConstants DEF KernelTypes
  <2>3. live' \subseteq {ep'} \cup orphans /\ 0 \notin live' /\ ep' \in 0..made
    <3>1. CASE live' = live \ {ep} /\ ep' = 0
      <4>1. live' \subseteq orphans /\ 0 \notin live'
        BY <2>1, <3>1
      <4> QED BY <2>2, <3>1, <4>1
    <3>2. CASE UNCHANGED <<live, ep>>
      BY <2>1, <3>2
    <3> QED BY <1>1, <3>1, <3>2
  <2>4. /\ session' /\ at' # "materialize" /\ made' = made /\ answers' = answers
        /\ orphans' = orphans
    BY <1>1
  <2> QED BY <2>1, <2>3, <2>4 DEF H!EpisodesAreKnown, H!NoEpisodeIsLost
<1>7. H!LegsAreVerified'
  BY <1>1, <1>2, HarnessInside DEF H!LegsAreVerified, H!ReportedCompletionIsEarned
<1> QED BY <1>2, <1>3, <1>4, <1>5, <1>6, <1>7, HarnessGood

(* A materialization that raises leaves an episode nobody names.           *)
LEMMA MaterializeRaisesKeep ==
  ASSUME H!EnvHarnessAssumption, HarnessInv, H!MaterializeRaises
  PROVE  HarnessInv'
<1>1. /\ at = "materialize" /\ at' = "idle" /\ session /\ ep = 0 /\ made < MaxEpisodes
      /\ made' = made + 1 /\ live' = live \cup {made + 1}
      /\ orphans' = orphans \cup {made + 1} /\ result' = H!Result(FALSE, "raised")
      /\ UNCHANGED <<call, leg, verified, session, ep, history, world, answers, doing, index,
                     saved, start, calls>>
  BY HarnessInside DEF H!MaterializeRaises, H!Raise, H!Return, H!sessionVars, H!localVars,
     H!EpisodesAreKnown
<1>2. /\ result' \in H!Results /\ result'.reason = "raised" /\ result'.complete = FALSE
  BY <1>1, HarnessInside DEF H!Reasons
<1>3. ControlTypes' /\ LegTypes' /\ WorldTypes' /\ LocalTypes'
  BY <1>1, HarnessInside DEF ControlTypes, LegTypes, WorldTypes, LocalTypes
<1>4. KernelTypes'
  BY <1>1, HarnessInside, HarnessConstants DEF KernelTypes
<1>5. H!CallsAreInPlace' /\ H!CheckpointsAreOfTheStart' /\ H!StageIsAdmitted'
  BY <1>1, <1>2 DEF H!CallsAreInPlace, H!CheckpointsAreOfTheStart, H!StageIsAdmitted
<1>6. H!EpisodesAreKnown'
  <2>1. /\ live \subseteq {ep} \cup orphans /\ 0 \notin live
        /\ \A r \in answers : r.ep \in 0..made
    BY HarnessInside DEF H!EpisodesAreKnown, H!NoEpisodeIsLost
  <2>2. made \in Nat /\ 0..made \subseteq 0..(made + 1)
    BY HarnessInside, HarnessConstants DEF KernelTypes
  <2>3. live' \subseteq {ep'} \cup orphans' /\ 0 \notin live' /\ ep' \in 0..made'
    BY <1>1, <2>1, <2>2
  <2>4. \A r \in answers' : r.ep \in 0..made'
    BY <1>1, <2>1, <2>2
  <2> QED BY <1>1, <2>3, <2>4 DEF H!EpisodesAreKnown, H!NoEpisodeIsLost
<1>7. H!LegsAreVerified'
  BY <1>1, <1>2, HarnessInside DEF H!LegsAreVerified, H!ReportedCompletionIsEarned
<1> QED BY <1>2, <1>3, <1>4, <1>5, <1>6, <1>7, HarnessGood

(* The next stage action is one the preflight saw; after the last one the  *)
(* reset is accepted.                                                      *)
LEMMA StageFromFacts ==
  ASSUME H!EnvHarnessAssumption, HarnessInv, NEW i \in Nat \ {0}, H!StageFrom(i),
         at \in {"baseline", "stage", "staged"}, UNCHANGED leg
  PROVE  /\ LocalTypes' /\ index' = i
         /\ \/ /\ at' = "stage" /\ result' = H!Nothing
               /\ i \in DOMAIN H!Stage /\ doing' = H!Stage[i]
            \/ /\ at' = "idle" /\ result' = H!Result(TRUE, "staged") /\ doing' = doing
               /\ i > Len(H!Stage)
<1>1. /\ Len(H!Stage) \in Nat /\ DOMAIN H!Stage = 1..Len(H!Stage)
      /\ \A j \in DOMAIN H!Stage : H!IsAction(H!Stage[j])
  BY HarnessInside, HarnessConstants DEF LegTypes, H!Stage
<1>2. result = H!Nothing /\ H!IsAction(doing)
  BY HarnessInside DEF LocalTypes
<1>3. CASE i > Len(H!Stage)
  BY <1>1, <1>2, <1>3 DEF H!StageFrom, H!Return, LocalTypes, H!IsAction
<1>4. CASE ~(i > Len(H!Stage))
  <2>1. i \in DOMAIN H!Stage
    BY <1>1, <1>4
  <2>2. H!IsAction(H!Stage[i])
    BY <1>1, <2>1
  <2> QED BY <1>2, <1>4, <2>1, <2>2 DEF H!StageFrom, H!Await, LocalTypes, H!IsAction
<1> QED BY <1>3, <1>4

(* Going on with the stage keeps the invariant. *)
LEMMA StageFromKeeps ==
  ASSUME H!EnvHarnessAssumption, HarnessInv, NEW i \in Nat \ {0}, H!StageFrom(i),
         at \in {"baseline", "stage", "staged"}, saved' = Fresh, world' \in Worlds,
         \A r \in answers' : r \in answers \/ r.ep = ep,
         UNCHANGED <<call, leg, verified, session, ep, live, made, start, orphans, calls, history>>
  PROVE  HarnessInv'
<1>1. /\ LocalTypes' /\ index' = i
      /\ \/ /\ at' = "stage" /\ result' = H!Nothing /\ i \in DOMAIN H!Stage /\ doing' = H!Stage[i]
         \/ /\ at' = "idle" /\ result' = H!Result(TRUE, "staged")
  BY StageFromFacts
<1>2. result' \in H!Results /\ result'.reason \in {H!None, "staged"} /\ result'.complete = FALSE
  BY <1>1, HarnessInside DEF H!Reasons, H!None
<1>3. H!Stage' = H!Stage /\ H!Admissible(Harness[leg])
  BY HarnessInside DEF H!Stage, H!StageIsAdmitted
<1>4. ControlTypes' /\ history' \in Seq(Caps) /\ saved' \in Worlds
  BY <1>1, HarnessInside, HarnessConstants DEF ControlTypes, LegTypes
<1>5. H!CallsAreInPlace'
  BY <1>1, HarnessInside DEF H!CallsAreInPlace
<1>6. H!CheckpointsAreOfTheStart'
  BY <1>1, <1>2 DEF H!CheckpointsAreOfTheStart, H!None
<1>7. H!StageIsAdmitted'
  BY <1>1, <1>3 DEF H!StageIsAdmitted
<1> QED BY <1>1, <1>2, <1>4, <1>5, <1>6, <1>7, HarnessInsideKeeps

(* The checkpoint before the stage is of the fresh world. *)
LEMMA BaselineKeeps ==
  ASSUME H!EnvHarnessAssumption, HarnessInv, H!Baseline
  PROVE  HarnessInv'
<1>1. world = Fresh /\ world \in Worlds
  BY HarnessInside DEF H!Baseline, H!CheckpointsAreOfTheStart, WorldTypes
<1> QED BY <1>1, StageFromKeeps DEF H!Baseline, H!sessionVars, H!kernelVars, H!ghosts

(* A stage action that fails goes on to the rollback. *)
LEMMA UnstageKeeps ==
  ASSUME H!EnvHarnessAssumption, HarnessInv, at \in {"stage", "staged"}, H!Await("unstage"),
         world' \in Worlds, \A r \in answers' : r \in answers \/ r.ep = ep,
         UNCHANGED <<call, leg, verified, session, ep, live, made, start, orphans, calls,
                     history, saved, doing, index>>
  PROVE  HarnessInv'
<1>1. /\ at' = "unstage" /\ result' = H!Nothing /\ saved = Fresh
      /\ call \in {"reset", "restart", "advance"}
  BY HarnessInside DEF H!Await, H!CallsAreInPlace, H!CheckpointsAreOfTheStart
<1>2. result' \in H!Results /\ result'.reason = H!None /\ result'.complete = FALSE
  BY <1>1, HarnessInside
<1>3. ControlTypes' /\ LocalTypes' /\ history' \in Seq(Caps) /\ saved' \in Worlds
  BY <1>1, HarnessInside DEF ControlTypes, LocalTypes, LegTypes, WorldTypes
<1>4. H!CallsAreInPlace' /\ H!CheckpointsAreOfTheStart' /\ H!StageIsAdmitted'
  BY <1>1, <1>2 DEF H!CallsAreInPlace, H!CheckpointsAreOfTheStart, H!StageIsAdmitted, H!None
<1> QED BY <1>1, <1>2, <1>3, <1>4, HarnessInsideKeeps

(* What an act does to the kernel. *)
LEMMA ActedFacts ==
  ASSUME H!EnvHarnessAssumption, HarnessInv, NEW r, H!Acted(doing, r), doing.cap \in Caps
  PROVE  /\ world' \in Worlds /\ UNCHANGED <<live, made>>
         /\ \A q \in answers' : q \in answers \/ (q.ep = ep /\ q.key = doing.key)
<1>1. world \in Worlds /\ Effect[doing.cap][world] \in Worlds
  BY HarnessInside, HarnessConstants DEF WorldTypes
<1> QED BY <1>1 DEF H!Acted

(* A stage action raises, fails, is verified or is followed by the next. *)
LEMMA StageActKeeps ==
  ASSUME H!EnvHarnessAssumption, HarnessInv, H!StageAct
  PROVE  HarnessInv'
<1>1. PICK r \in H!ActAnswers(doing) :
        /\ H!Acted(doing, r)
        /\ \/ H!Raise /\ UNCHANGED <<doing, index>>
           \/ H!Await("unstage") /\ UNCHANGED <<doing, index>>
           \/ r.how \notin {"raises"} \cup H!Refused /\ doing.expected # Always
                /\ H!Await("staged") /\ UNCHANGED <<doing, index>>
           \/ r.how \notin {"raises"} \cup H!Refused /\ H!StageFrom(index + 1)
  BY DEF H!StageAct
<1>2. /\ at = "stage" /\ saved = Fresh /\ result = H!Nothing /\ doing = H!Stage[index]
      /\ index \in DOMAIN H!Stage /\ H!Admissible(Harness[leg]) /\ index \in Nat
      /\ call \in {"reset", "restart", "advance"}
      /\ UNCHANGED <<call, leg, verified, session, ep, history, saved, start, orphans, calls>>
  BY HarnessInside DEF H!StageAct, H!CheckpointsAreOfTheStart, H!StageIsAdmitted, H!CallsAreInPlace,
       LocalTypes,
                H!sessionVars, H!ghosts
<1>3. doing.cap \in Caps
  BY <1>2 DEF H!Admissible, H!Stage
<1>4. /\ world' \in Worlds /\ UNCHANGED <<live, made>>
      /\ \A q \in answers' : q \in answers \/ q.ep = ep
  BY <1>1, <1>3, ActedFacts
<1>5. CASE H!Raise /\ UNCHANGED <<doing, index>>
  BY <1>2, <1>4, <1>5, RaisesKeep
<1>6. CASE H!Await("unstage") /\ UNCHANGED <<doing, index>>
  BY <1>2, <1>4, <1>6, UnstageKeeps
<1>7. CASE H!Await("staged") /\ UNCHANGED <<doing, index>>
  <2>1. at' = "staged" /\ result' = H!Nothing
    BY <1>2, <1>7 DEF H!Await
  <2>2. result' \in H!Results /\ result'.reason = H!None /\ result'.complete = FALSE
    BY <2>1, HarnessInside
  <2>3. ControlTypes' /\ LocalTypes' /\ history' \in Seq(Caps) /\ saved' \in Worlds
    BY <1>2, <1>7, <2>1, HarnessInside DEF ControlTypes, LocalTypes, LegTypes, WorldTypes
  <2>4. H!CallsAreInPlace' /\ H!CheckpointsAreOfTheStart'
    BY <1>2, <2>1, <2>2 DEF H!CallsAreInPlace, H!CheckpointsAreOfTheStart, H!None
  <2>5. H!StageIsAdmitted'
    BY <1>2, <1>7, <2>1 DEF H!StageIsAdmitted, H!Stage
  <2> QED BY <1>2, <1>4, <2>1, <2>2, <2>3, <2>4, <2>5, HarnessInsideKeeps
<1>8. CASE H!StageFrom(index + 1)
  <2>1. index + 1 \in Nat \ {0}
    BY <1>2
  <2> QED BY <1>2, <1>4, <1>8, <2>1, StageFromKeeps
<1> QED BY <1>1, <1>5, <1>6, <1>7, <1>8

(* A failed postcondition of a stage action goes to the rollback. *)
LEMMA StageVerifyKeeps ==
  ASSUME H!EnvHarnessAssumption, HarnessInv, H!StageVerify
  PROVE  HarnessInv'
<1>1. /\ at = "staged" /\ saved = Fresh /\ index + 1 \in Nat \ {0} /\ world \in Worlds
      /\ UNCHANGED <<call, leg, verified, session, ep, live, made, world, answers, history, saved,
                     start, orphans, calls>>
      /\ H!StageFrom(index + 1) \/ (H!Await("unstage") /\ UNCHANGED <<doing, index>>)
  BY HarnessInside DEF H!StageVerify, H!CheckpointsAreOfTheStart, LocalTypes, WorldTypes,
     H!sessionVars,
                H!kernelVars, H!ghosts
<1>2. CASE H!StageFrom(index + 1)
  BY <1>1, <1>2, StageFromKeeps
<1>3. CASE H!Await("unstage") /\ UNCHANGED <<doing, index>>
  BY <1>1, <1>3, UnstageKeeps
<1> QED BY <1>1, <1>2, <1>3

(* The rollback of a stage goes back to the fresh world. *)
LEMMA StageRollbackKeeps ==
  ASSUME H!EnvHarnessAssumption, HarnessInv, H!StageRollback
  PROVE  HarnessInv'
<1>1. /\ at = "unstage" /\ saved = Fresh /\ at' = "idle"
      /\ UNCHANGED <<call, leg, verified, session, ep, live, made, answers, history, doing, index,
                     saved, start, orphans, calls>>
      /\ \/ world' = saved /\ result' = H!Result(FALSE, "unstaged")
         \/ world' \in {world, saved} /\ result' = H!Result(FALSE, "rollback failed")
  BY HarnessInside DEF H!StageRollback, H!Restored, H!Return, H!CheckpointsAreOfTheStart,
       H!sessionVars, H!localVars, H!ghosts
<1>2. /\ result' \in H!Results /\ result'.complete = FALSE
      /\ \/ result'.reason = "unstaged" /\ world' = Fresh
         \/ result'.reason = "rollback failed"
  BY <1>1, HarnessInside DEF H!Reasons
<1>3. /\ ControlTypes' /\ LocalTypes' /\ history' \in Seq(Caps) /\ saved' \in Worlds
      /\ world' \in Worlds
  BY <1>1, HarnessInside DEF ControlTypes, LocalTypes, LegTypes, WorldTypes
<1>4. H!CallsAreInPlace' /\ H!CheckpointsAreOfTheStart' /\ H!StageIsAdmitted'
  BY <1>1, <1>2 DEF H!CallsAreInPlace, H!CheckpointsAreOfTheStart, H!StageIsAdmitted
<1> QED BY <1>1, <1>2, <1>3, <1>4, HarnessInsideKeeps

(* A refused or accepted step is about to observe; only a failed           *)
(* postcondition says something of the world.                              *)
LEMMA ReportsKeep ==
  ASSUME H!EnvHarnessAssumption, HarnessInv, at # "idle", call = "step", at' = "observe",
         NEW ok \in BOOLEAN, NEW why \in H!Reasons \ {"unstaged"}, result' = H!Result(ok, why),
         why = "postcondition" => world' = start,
         UNCHANGED <<call, leg, verified, session, ep, live, made, start, orphans, calls>>,
         history' \in Seq(Caps), world' \in Worlds, saved' \in Worlds, LocalTypes',
         \A r \in answers' : r \in answers \/ r.ep = ep
  PROVE  HarnessInv'
<1>1. result' \in H!Results /\ result'.reason = why /\ result'.complete = FALSE
  BY HarnessInside
<1>2. ControlTypes'
  BY HarnessInside DEF ControlTypes
<1>3. H!CallsAreInPlace' /\ H!CheckpointsAreOfTheStart' /\ H!StageIsAdmitted'
  BY <1>1 DEF H!CallsAreInPlace, H!CheckpointsAreOfTheStart, H!StageIsAdmitted
<1> QED BY <1>1, <1>2, <1>3, HarnessInsideKeeps

(* The history grows by the capability of the accepted action. *)
LEMMA AcceptFacts ==
  ASSUME H!EnvHarnessAssumption, HarnessInv, doing.cap \in Caps, NEW why, H!Accept(why)
  PROVE  /\ at' = "observe" /\ result' = H!Result(TRUE, why) /\ history' \in Seq(Caps)
         /\ UNCHANGED <<leg, verified, session, ep>>
<1>1. history \in Seq(Caps)
  BY HarnessInside DEF LegTypes
<1>2. Append(history, doing.cap) \in Seq(Caps)
  BY <1>1, Appended
<1> QED BY <1>2 DEF H!Accept

(* A step that goes on to its next await, with its checkpoint. *)
LEMMA GoesOnKeeps ==
  ASSUME H!EnvHarnessAssumption, HarnessInv, at # "idle", at # "observe", call = "step",
         NEW p \in {"read", "checkpoint", "act", "verify", "rollback"}, H!Await(p),
         UNCHANGED <<call, leg, verified, session, ep, live, made, start, orphans, calls, history>>,
         world' \in Worlds, saved' \in Worlds, LocalTypes', doing'.cap \in Caps,
         p \in {"checkpoint", "act", "rollback"} => doing'.cap \notin Reads,
         p = "read" => doing'.cap \in Reads,
         p \in {"read", "checkpoint"} => world' = start,
         p = "act" /\ doing'.expected # Always => saved' = start,
         p = "verify" => IF doing'.cap \in Reads THEN world' = start ELSE saved' = start,
         p = "rollback" => saved' = start,
         \A r \in answers' : r \in answers \/ r.ep = ep
  PROVE  HarnessInv'
<1>1. at' = p /\ result' = H!Nothing
  BY HarnessInside DEF H!Await
<1>2. result' \in H!Results /\ result'.reason = H!None /\ result'.complete = FALSE
  BY <1>1, HarnessInside
<1>3. ControlTypes' /\ history' \in Seq(Caps)
  BY <1>1, HarnessInside DEF ControlTypes, LegTypes
<1>4. H!CallsAreInPlace' /\ H!StageIsAdmitted'
  BY <1>1 DEF H!CallsAreInPlace, H!StageIsAdmitted
<1>5. H!CheckpointsAreOfTheStart'
  BY <1>1, <1>2 DEF H!CheckpointsAreOfTheStart, H!None
<1> QED BY <1>1, <1>2, <1>3, <1>4, <1>5, HarnessInsideKeeps

(* The rules change the capability before the path is chosen. *)
LEMMA AdmitKeeps ==
  ASSUME H!EnvHarnessAssumption, HarnessInv, H!Admit
  PROVE  HarnessInv'
<1>1. /\ at = "admit" /\ call = "step" /\ world = start
      /\ UNCHANGED <<call, leg, verified, session, ep, live, made, world, answers, history, index,
                     saved, start, orphans, calls>>
  BY HarnessInside DEF H!Admit, H!CallsAreInPlace, H!CheckpointsAreOfTheStart, H!sessionVars,
       H!kernelVars, H!ghosts
<1>2. world' \in Worlds /\ saved' \in Worlds /\ history' \in Seq(Caps)
  BY <1>1, HarnessInside DEF WorldTypes, LegTypes
<1>3. PICK c : c = H!Ruled
  OBVIOUS
<1>4. /\ H!IsAction(doing) /\ index \in Nat
      /\ \/ doing' = doing
         \/ doing' = [doing EXCEPT !.cap = c]
  BY <1>3, HarnessInside DEF H!Admit, LocalTypes
<1>5. LocalTypes' /\ (doing' # doing => doing'.cap = c /\ doing'.expected = doing.expected)
  BY <1>1, <1>4 DEF LocalTypes, H!IsAction
<1>6. CASE at' = "observe"
  <2>1. PICK why \in {"denied", "unknown"} : result' = H!Result(FALSE, why)
    BY <1>1, <1>6 DEF H!Admit, H!Refuse, H!Await
  <2> QED BY <1>1, <1>2, <1>5, <1>6, <2>1, ReportsKeep DEF H!Reasons
<1>7. CASE at' # "observe"
  <2>1. /\ doing' = [doing EXCEPT !.cap = c] /\ c \in Caps
        /\ \/ c \in Reads /\ H!Await("read")
           \/ c \notin Reads /\ doing.expected # Always /\ H!Await("checkpoint")
           \/ c \notin Reads /\ ~(doing.expected # Always) /\ H!Await("act")
    BY <1>3, <1>7 DEF H!Admit, H!Refuse
  <2>2. doing'.cap = c /\ doing'.expected = doing.expected
    BY <1>4, <2>1 DEF H!IsAction
  <2> QED BY <1>1, <1>2, <1>5, <2>1, <2>2, GoesOnKeeps
<1> QED BY <1>6, <1>7

(* A reading leaves the world as the step found it. *)
LEMMA ReadKeeps ==
  ASSUME H!EnvHarnessAssumption, HarnessInv, H!Read
  PROVE  HarnessInv'
<1>1. /\ at = "read" /\ call = "step" /\ world = start /\ doing.cap \in Reads
      /\ UNCHANGED <<call, live, made, world, answers, doing, index, saved, start, orphans, calls>>
  BY HarnessInside DEF H!Read, H!CallsAreInPlace, H!CheckpointsAreOfTheStart, H!kernelVars,
     H!localVars, H!ghosts
<1>2. /\ world' \in Worlds /\ saved' \in Worlds /\ LocalTypes' /\ doing.cap \in Caps
      /\ doing' = doing
  BY <1>1, HarnessInside, HarnessConstants DEF WorldTypes, LocalTypes
<1>3. CASE H!Await("verify") /\ UNCHANGED H!sessionVars
  BY <1>1, <1>2, <1>3, GoesOnKeeps DEF H!sessionVars, H!ghosts
<1>4. CASE H!Accept("read")
  <2>1. /\ at' = "observe" /\ result' = H!Result(TRUE, "read") /\ history' \in Seq(Caps)
        /\ UNCHANGED <<leg, verified, session, ep>>
    BY <1>2, <1>4, AcceptFacts
  <2> QED BY <1>1, <1>2, <2>1, ReportsKeep DEF H!Reasons
<1> QED BY <1>3, <1>4 DEF H!Read

(* The checkpoint of a step is of the world it found. *)
LEMMA CheckpointKeeps ==
  ASSUME H!EnvHarnessAssumption, HarnessInv, H!Checkpoint
  PROVE  HarnessInv'
<1>1. /\ at = "checkpoint" /\ call = "step" /\ world = start /\ doing.cap \in Caps \ Reads
      /\ saved' = world /\ doing' = doing /\ H!Await("act")
      /\ UNCHANGED <<call, leg, verified, session, ep, live, made, world, answers, index, start,
                     orphans, calls, history>>
  BY HarnessInside DEF H!Checkpoint, H!CallsAreInPlace, H!CheckpointsAreOfTheStart, H!kernelVars,
       H!sessionVars, H!ghosts
<1>2. world' \in Worlds /\ saved' \in Worlds /\ LocalTypes'
  BY <1>1, HarnessInside DEF WorldTypes, LocalTypes
<1> QED BY <1>1, <1>2, GoesOnKeeps

(* An act with a postcondition has its checkpoint. *)
LEMMA ActKeeps ==
  ASSUME H!EnvHarnessAssumption, HarnessInv, H!Act
  PROVE  HarnessInv'
<1>1. PICK r \in H!ActAnswers(doing) :
        /\ H!Acted(doing, r)
        /\ \/ H!Raise /\ UNCHANGED H!sessionVars
           \/ H!Refuse("not acted") /\ UNCHANGED H!sessionVars
           \/ doing.expected # Always /\ H!Await("verify") /\ UNCHANGED H!sessionVars
           \/ H!Accept("acted")
  BY DEF H!Act
<1>2. /\ at = "act" /\ call = "step" /\ doing.cap \in Caps \ Reads
      /\ doing.expected # Always => saved = start
      /\ UNCHANGED <<call, doing, index, saved, start, orphans, calls>>
  BY HarnessInside DEF H!Act, H!CallsAreInPlace, H!CheckpointsAreOfTheStart, H!localVars, H!ghosts
<1>3. /\ world' \in Worlds /\ UNCHANGED <<live, made>>
      /\ \A q \in answers' : q \in answers \/ q.ep = ep
  BY <1>1, <1>2, ActedFacts
<1>4. saved' \in Worlds /\ LocalTypes' /\ history \in Seq(Caps) /\ doing' = doing
  BY <1>2, HarnessInside DEF WorldTypes, LocalTypes, LegTypes
<1>5. CASE H!Raise /\ UNCHANGED H!sessionVars
  BY <1>2, <1>3, <1>5, RaisesKeep DEF H!sessionVars, H!ghosts
<1>6. CASE H!Refuse("not acted") /\ UNCHANGED H!sessionVars
  BY <1>2, <1>3, <1>4, <1>6, ReportsKeep DEF H!sessionVars, H!Refuse, H!Reasons, H!ghosts
<1>7. CASE doing.expected # Always /\ H!Await("verify") /\ UNCHANGED H!sessionVars
  BY <1>2, <1>3, <1>4, <1>7, GoesOnKeeps DEF H!sessionVars, H!ghosts
<1>8. CASE H!Accept("acted")
  <2>1. /\ at' = "observe" /\ result' = H!Result(TRUE, "acted") /\ history' \in Seq(Caps)
        /\ UNCHANGED <<leg, verified, session, ep>>
    BY <1>2, <1>8, AcceptFacts
  <2> QED BY <1>2, <1>3, <1>4, <2>1, ReportsKeep DEF H!Reasons
<1> QED BY <1>1, <1>5, <1>6, <1>7, <1>8

(* Only an act has something to roll back. *)
LEMMA VerifyStepKeeps ==
  ASSUME H!EnvHarnessAssumption, HarnessInv, H!VerifyStep
  PROVE  HarnessInv'
<1>1. /\ at = "verify" /\ call = "step" /\ doing.cap \in Caps
      /\ IF doing.cap \in Reads THEN world = start ELSE saved = start
      /\ UNCHANGED <<call, live, made, world, answers, doing, index, saved, start, orphans, calls>>
  BY HarnessInside DEF H!VerifyStep, H!CallsAreInPlace, H!CheckpointsAreOfTheStart, H!localVars,
       H!kernelVars, H!ghosts
<1>2. /\ world' \in Worlds /\ saved' \in Worlds /\ LocalTypes' /\ history \in Seq(Caps)
      /\ doing' = doing
  BY <1>1, HarnessInside DEF WorldTypes, LocalTypes, LegTypes
<1>3. CASE H!Accept("verified")
  <2>1. /\ at' = "observe" /\ result' = H!Result(TRUE, "verified") /\ history' \in Seq(Caps)
        /\ UNCHANGED <<leg, verified, session, ep>>
    BY <1>1, <1>3, AcceptFacts
  <2> QED BY <1>1, <1>2, <2>1, ReportsKeep DEF H!Reasons
<1>4. CASE UNCHANGED H!sessionVars /\ doing.cap \in Reads /\ H!Refuse("postcondition")
  BY <1>1, <1>2, <1>4, ReportsKeep DEF H!sessionVars, H!Refuse, H!Reasons, H!ghosts
<1>5. CASE UNCHANGED H!sessionVars /\ doing.cap \notin Reads /\ H!Await("rollback")
  BY <1>1, <1>2, <1>5, GoesOnKeeps DEF H!sessionVars, H!ghosts
<1> QED BY <1>3, <1>4, <1>5 DEF H!VerifyStep

(* The rollback of a step goes back to where the step began. *)
LEMMA StepRollbackKeeps ==
  ASSUME H!EnvHarnessAssumption, HarnessInv, H!StepRollback
  PROVE  HarnessInv'
<1>1. /\ at = "rollback" /\ call = "step" /\ saved = start /\ at' = "observe"
      /\ UNCHANGED <<call, leg, verified, session, ep, live, made, answers, history, doing, index,
                     saved, start, orphans, calls>>
      /\ \/ world' = saved /\ result' = H!Result(FALSE, "postcondition")
         \/ world' \in {world, saved} /\ result' = H!Result(FALSE, "rollback failed")
  BY HarnessInside DEF H!StepRollback, H!Refuse, H!CallsAreInPlace, H!CheckpointsAreOfTheStart,
       H!sessionVars,
                H!localVars, H!ghosts
<1>2. world' \in Worlds /\ saved' \in Worlds /\ LocalTypes' /\ history' \in Seq(Caps)
  BY <1>1, HarnessInside DEF WorldTypes, LocalTypes, LegTypes
<1> QED BY <1>1, <1>2, ReportsKeep DEF H!Reasons

(* The observation returns the report, or loses it. *)
LEMMA ObserveKeeps ==
  ASSUME H!EnvHarnessAssumption, HarnessInv, H!Observe
  PROVE  HarnessInv'
<1>1. /\ at = "observe" /\ world \in Worlds
      /\ UNCHANGED <<call, leg, verified, session, ep, live, made, world, answers, history, doing,
                     index, saved, start, orphans, calls>>
      /\ (at' = "idle" /\ result' = result) \/ H!Raise
  BY HarnessInside DEF H!Observe, H!Return, H!sessionVars, H!kernelVars, H!localVars, WorldTypes,
       H!ghosts
<1>2. CASE at' = "idle" /\ result' = result
  <2>1. ControlTypes' /\ LocalTypes' /\ history' \in Seq(Caps) /\ saved' \in Worlds
    BY <1>1, <1>2, HarnessInside DEF ControlTypes, LocalTypes, LegTypes, WorldTypes
  <2>2. KernelTypes' /\ LegTypes' /\ WorldTypes' /\ (result \in H!Results)'
    BY <1>1, <1>2, HarnessInside DEF KernelTypes, LegTypes, WorldTypes
  <2>3. H!CallsAreInPlace' /\ H!StageIsAdmitted'
    BY <1>2 DEF H!CallsAreInPlace, H!StageIsAdmitted
  <2>4. H!CheckpointsAreOfTheStart'
    BY <1>1, <1>2, HarnessInside DEF H!CheckpointsAreOfTheStart
  <2>5. H!EpisodesAreKnown'
    BY <1>1, <1>2, HarnessInside DEF H!EpisodesAreKnown, H!NoEpisodeIsLost
  <2>6. H!LegsAreVerified'
    BY <1>1, <1>2, HarnessInside DEF H!LegsAreVerified, H!ReportedCompletionIsEarned
  <2> QED BY <2>1, <2>2, <2>3, <2>4, <2>5, <2>6, HarnessGood
<1>3. CASE H!Raise
  BY <1>1, <1>3, RaisesKeep
<1> QED BY <1>1, <1>2, <1>3

-----------------------------------------------------------------------------
(* advance *)

(* A leg is verified before the chain leaves it; the last one completes    *)
(* what every earlier one has been through.                                *)
LEMMA JudgeKeeps ==
  ASSUME H!EnvHarnessAssumption, HarnessInv, H!Judge
  PROVE  HarnessInv'
<1>1. /\ at = "judge" /\ ep # 0 /\ result = H!Nothing /\ call = "advance" /\ session
      /\ UNCHANGED <<call, leg, session, ep, history, live, made, world, answers, doing, index,
                     saved, start, orphans, calls>>
  <2>1. UNCHANGED <<leg, session, ep, history>>
    BY DEF H!Judge, H!sessionVars, H!ghosts
  <2>2. call = "advance"
    BY HarnessInside DEF H!Judge, H!CallsAreInPlace
  <2>3. session
    BY HarnessInside DEF H!Judge, H!EpisodesAreKnown
  <2> QED BY <2>1, <2>2, <2>3, HarnessInside DEF H!Judge, H!kernelVars, H!localVars, H!ghosts
<1>2. KernelTypes' /\ WorldTypes' /\ LocalTypes'
  BY <1>1, HarnessInside DEF KernelTypes, WorldTypes, LocalTypes
<1>3. CASE world \notin Goal[leg]
  <2>1. at' = "idle" /\ result' = H!Result(FALSE, "not verified") /\ verified' = verified
    BY <1>3 DEF H!Judge, H!Return, H!sessionVars, H!ghosts
  <2>2. result' \in H!Results /\ result'.reason = "not verified" /\ result'.complete = FALSE
    BY <2>1, HarnessInside DEF H!Reasons
  <2>3. /\ ControlTypes' /\ history' \in Seq(Caps) /\ world' \in Worlds /\ saved' \in Worlds
    BY <1>1, <2>1, HarnessInside DEF ControlTypes, LegTypes, WorldTypes
  <2>4. H!CallsAreInPlace' /\ H!CheckpointsAreOfTheStart' /\ H!StageIsAdmitted'
    BY <2>1, <2>2 DEF H!CallsAreInPlace, H!CheckpointsAreOfTheStart, H!StageIsAdmitted
  <2> QED BY <1>1, <1>2, <2>1, <2>2, <2>3, <2>4, HarnessInsideKeeps
<1>4. CASE ~(world \notin Goal[leg])
  <2>1. /\ verified' = Append(verified, leg)
        /\ \/ leg = Legs /\ at' = "idle" /\ result' = H!Completed
           \/ leg # Legs /\ at' = "teardown" /\ result' = H!Nothing
    BY <1>1, <1>4 DEF H!Judge, H!Return, H!Await
  <2>2. verified' \in Seq(1..Legs) /\ H!Range(verified') = H!Range(verified) \cup {leg}
    <3>1. verified \in Seq(1..Legs) /\ leg \in 1..Legs
      BY HarnessInside DEF LegTypes
    <3>2. PICK S : S = 1..Legs
      OBVIOUS
    <3>3. verified \in Seq(S) /\ leg \in S
      BY <3>1, <3>2
    <3>4. /\ Append(verified, leg) \in Seq(S)
          /\ H!Range(Append(verified, leg)) = H!Range(verified) \cup {leg}
      BY <3>3, Appended
    <3> QED BY <2>1, <3>2, <3>4
  <2>3. /\ result' \in H!Results /\ result'.reason \in {H!None, "complete"}
        /\ at' = "teardown" => result'.complete = FALSE
    BY <2>1, HarnessInside, CompleteResult
  <2>4. ControlTypes' /\ LegTypes'
    BY <1>1, <2>1, <2>2, HarnessInside DEF ControlTypes, LegTypes
  <2>5. H!CallsAreInPlace' /\ H!StageIsAdmitted'
    BY <1>1, <2>1 DEF H!CallsAreInPlace, H!StageIsAdmitted
  <2>6. H!CheckpointsAreOfTheStart'
    BY <2>1, <2>3 DEF H!CheckpointsAreOfTheStart, H!None
  <2>7. H!EpisodesAreKnown'
    BY <1>1, <2>1, HarnessInside DEF H!EpisodesAreKnown, H!NoEpisodeIsLost
  <2>8. H!LegsAreVerified'
    <3>1. /\ \A l \in 1..Legs : l < leg => l \in H!Range(verified')
          /\ leg \in H!Range(verified') /\ leg' = leg
      BY <1>1, <2>2, HarnessInside DEF H!LegsAreVerified
    <3>2. leg = Legs => \A l \in 1..Legs : l < leg \/ l = leg
      BY HarnessConstants
    <3>3. leg # Legs => leg < Legs
      BY HarnessInside, HarnessConstants DEF LegTypes
    <3> QED BY <2>1, <2>3, <3>1, <3>2, <3>3 DEF H!LegsAreVerified, H!ReportedCompletionIsEarned
  <2> QED BY <1>2, <2>3, <2>4, <2>5, <2>6, <2>7, <2>8, HarnessGood
<1> QED BY <1>3, <1>4

-----------------------------------------------------------------------------
(* Every step keeps the invariant *)

(* The effect of an act that timed out lands: what the step compares the   *)
(* world with moves along, unless a checkpoint will undo the effect.       *)
LEMMA LateEffectKeeps ==
  ASSUME H!EnvHarnessAssumption, HarnessInv, H!PendingInvariant, H!LateEffect
  PROVE  HarnessInv'
<1>1. PICK e \in pending :
        /\ world' = Effect[e.cap][world]
        /\ start' = IF H!Undone THEN start ELSE Effect[e.cap][start]
  BY DEF H!LateEffect
<1>2. /\ UNCHANGED <<at, call, leg, verified, session, ep, history, live, made, answers, doing,
                     index, saved, orphans, result, calls>>
      /\ at \notin {"baseline", "stage", "staged"} /\ e.cap \in Caps
  BY <1>1 DEF H!LateEffect, H!PendingInvariant, H!sessionVars, H!localVars
<1>3. world \in Worlds /\ start \in Worlds
  BY HarnessInside DEF WorldTypes
<1>4. Effect[e.cap][world] \in Worlds /\ Effect[e.cap][start] \in Worlds
  BY <1>2, <1>3, HarnessConstants
<1>5. /\ ControlTypes' /\ KernelTypes' /\ LegTypes' /\ WorldTypes' /\ LocalTypes'
      /\ (result \in H!Results)'
  BY <1>1, <1>2, <1>3, <1>4, HarnessInside
     DEF ControlTypes, KernelTypes, LegTypes, WorldTypes, LocalTypes
<1>6. H!CallsAreInPlace' /\ H!EpisodesAreKnown' /\ H!StageIsAdmitted' /\ H!LegsAreVerified'
  BY <1>2, HarnessInside DEF H!CallsAreInPlace, H!EpisodesAreKnown, H!NoEpisodeIsLost,
     H!StageIsAdmitted, H!LegsAreVerified, H!ReportedCompletionIsEarned, H!Stage
<1>7. H!CheckpointsAreOfTheStart'
  <2>1. CASE H!Undone
    <3>1. start' = start /\ at \in {"act", "verify", "rollback"} /\ result.reason = H!None
      BY <1>1, <2>1, HarnessInside DEF H!Undone
    <3> QED BY <1>2, <2>1, <3>1, HarnessInside DEF H!CheckpointsAreOfTheStart, H!Undone, H!None
  <2>2. CASE ~H!Undone
    <3>1. (world = start) => (world' = start')
      BY <1>1, <2>2
    <3> QED BY <1>2, <2>2, <3>1, HarnessInside DEF H!CheckpointsAreOfTheStart, H!Undone
  <2> QED BY <2>1, <2>2
<1> QED BY <1>5, <1>6, <1>7, HarnessGood

(* The steps of the harness itself, one lemma per action. *)
LEMMA OwnStep ==
  ASSUME H!EnvHarnessAssumption, HarnessInv, H!HarnessStep
  PROVE  HarnessInv'
  BY ChainResetKeeps, CallsKeep, TeardownKeeps, MaterializeKeeps, MaterializeRaisesKeep,
     CleanupKeeps, BaselineKeeps, StageActKeeps, StageVerifyKeeps, StageRollbackKeeps, AdmitKeeps,
     ReadKeeps, CheckpointKeeps, ActKeeps, VerifyStepKeeps, StepRollbackKeeps, ObserveKeeps,
     JudgeKeeps, InterruptedKeeps
     DEF H!HarnessStep

(* Those, the late effects and the stuttering step. *)
LEMMA HarnessStep ==
  ASSUME H!EnvHarnessAssumption, HarnessInv, H!PendingInvariant, [H!Next]_H!vars
  PROVE  HarnessInv'
<1>1. CASE UNCHANGED H!vars
  <2>1. UNCHANGED <<at, call, leg, verified, session, ep, history, live, made, world, answers,
                    doing, index, saved, start, orphans, result, calls>>
    BY <1>1 DEF H!vars, H!sessionVars, H!kernelVars, H!localVars, H!ghosts
  <2>2. /\ ControlTypes' /\ KernelTypes' /\ LegTypes' /\ WorldTypes' /\ LocalTypes'
        /\ (result \in H!Results)'
    BY <2>1, HarnessInside DEF ControlTypes, KernelTypes, LegTypes, WorldTypes, LocalTypes
  <2>3. H!CallsAreInPlace' /\ H!EpisodesAreKnown' /\ H!CheckpointsAreOfTheStart'
    BY <2>1, HarnessInside DEF H!CallsAreInPlace, H!EpisodesAreKnown, H!CheckpointsAreOfTheStart,
                        H!NoEpisodeIsLost
  <2>4. H!StageIsAdmitted' /\ H!LegsAreVerified'
    BY <2>1, HarnessInside DEF H!StageIsAdmitted, H!LegsAreVerified, H!ReportedCompletionIsEarned,
         H!Stage
  <2> QED BY <2>2, <2>3, <2>4, HarnessGood
<1>2. CASE H!Next
  BY <1>2, OwnStep, LateEffectKeeps DEF H!Next
<1> QED BY <1>1, <1>2

-----------------------------------------------------------------------------
(* Effects that are still to come *)

(* A step that leaves them alone and is not, or stays, inside a call.      *)
LEMMA PendingFrame ==
  ASSUME H!PendingInvariant, UNCHANGED <<pending, ep>>,
         at' \notin {"baseline", "stage", "staged", "unstage"},
         result'.reason \notin {"staged", "unstaged"},
         at' \notin H!Inside \/ at \in H!Inside \/ ep # 0
  PROVE  H!PendingInvariant'
  BY DEF H!PendingInvariant, H!Inside

(* A step after which none is left.                                        *)
LEMMA PendingEmpty ==
  ASSUME pending' = {}, ep' = 0 => at' \notin H!Inside, result'.reason # "unstaged"
  PROVE  H!PendingInvariant'
  BY DEF H!PendingInvariant, H!Inside

(* What the calls report, in the words of this section.                    *)
LEMMA ReportFacts ==
  ASSUME H!EnvHarnessAssumption, HarnessInv
  PROVE  /\ H!Nothing.reason = H!None /\ H!Completed.reason = "complete"
         /\ \A ok \in BOOLEAN : \A why \in H!Reasons :
              H!Result(ok, why).reason = why /\ H!Result(ok, why).accepted = ok
         /\ at \notin {"idle", "observe"} => result = H!Nothing
  BY HarnessInside, CompleteResult DEF H!Result

(* The beginnings of calls. *)
LEMMA BeginPending ==
  ASSUME H!EnvHarnessAssumption, HarnessInv, H!PendingInvariant,
         H!ChainReset \/ H!SessionReset \/ H!Close \/ H!Advance \/ \E a \in Actions : H!Step(a)
  PROVE  H!PendingInvariant'
<1>1. at' \in {"teardown", "materialize", "admit", "judge"} /\ result' = H!Nothing
  BY DEF H!ChainReset, H!SessionReset, H!Close, H!Advance, H!Step, H!Begin
<1>2. ~session => ep = 0
  BY HarnessInside DEF H!EpisodesAreKnown
<1>3. UNCHANGED <<pending, ep>>
  BY <1>2 DEF H!ChainReset, H!SessionReset, H!Close, H!Advance, H!Step, H!NewSession,
     H!kernelVars, H!sessionVars
<1> QED BY <1>1, <1>3, ReportFacts, PendingFrame DEF H!Inside, H!None

(* Teardowns and materializations. *)
LEMMA SessionPending ==
  ASSUME H!EnvHarnessAssumption, HarnessInv, H!PendingInvariant,
         H!Teardown \/ H!Materialize \/ H!MaterializeRaises \/ H!Cleanup \/ H!Judge
           \/ H!Interrupted
  PROVE  H!PendingInvariant'
<1>1. CASE H!Teardown
  <2>1. at' \in {"materialize", "idle"}
    BY <1>1, Zenon DEF H!Teardown, H!AfterTeardown, H!AfterFailedTeardown, H!Await, H!Return,
       H!Raise
  <2>2. result' \in {H!Nothing, H!Result(TRUE, "torn down"), H!Result(FALSE, "raised"),
                     H!Result(FALSE, "teardown failed")}
    <3>1. result = H!Nothing
      BY <1>1, ReportFacts DEF H!Teardown
    <3> QED BY <1>1, <3>1 DEF H!Teardown, H!AfterTeardown, H!AfterFailedTeardown, H!Await,
            H!Return, H!Raise
  <2>3. result'.reason \notin {"staged", "unstaged"}
    BY <2>2, ReportFacts DEF H!None, H!Reasons
  <2>4. pending' = {} \/ UNCHANGED <<pending, ep>>
    BY <1>1 DEF H!Teardown, H!AfterFailedTeardown, H!sessionVars
  <2> QED BY <2>1, <2>3, <2>4, PendingFrame, PendingEmpty DEF H!Inside
<1>2. CASE H!Materialize
  <2>1. ep = 0 /\ made + 1 # 0 /\ result = H!Nothing
    <3>1. at = "materialize"
      BY <1>2 DEF H!Materialize
    <3>2. ep = 0 /\ result = H!Nothing
      BY <3>1, HarnessInside DEF H!EpisodesAreKnown
    <3>3. made \in Nat
      BY HarnessInside, HarnessConstants DEF KernelTypes
    <3> QED BY <3>2, <3>3
  <2>2. \/ pending' = pending /\ ep' = made + 1 /\ result' = result
        \/ /\ at' = "idle" /\ UNCHANGED <<pending, ep>>
           /\ result' = H!Result(FALSE, "not materialized")
    BY <1>2 DEF H!Materialize, H!Await, H!Return, H!kernelVars
  <2>3. result'.reason \notin {"staged", "unstaged"}
    BY <2>1, <2>2, ReportFacts DEF H!None, H!Reasons
  <2>4. pending = {}
    BY <2>1 DEF H!PendingInvariant
  <2>5. ep' = 0 => at' = "idle"
    BY <2>1, <2>2
  <2> QED BY <2>2, <2>3, <2>4, <2>5, PendingEmpty DEF H!Inside
<1>3. CASE H!MaterializeRaises \/ H!Interrupted
  <2>1. at' = "idle" /\ UNCHANGED <<pending, ep>> /\ result' = H!Result(FALSE, "raised")
    BY <1>3 DEF H!MaterializeRaises, H!Interrupted, H!Raise, H!Return, H!kernelVars,
       H!sessionVars
  <2> QED BY <2>1, ReportFacts, PendingFrame DEF H!Inside, H!Reasons
<1>4. CASE H!Cleanup
  <2>1. /\ at' = "idle" /\ (pending' = {} \/ UNCHANGED <<pending, ep>>)
        /\ \E why \in {"inadmissible", "cleanup failed"} : result' = H!Result(FALSE, why)
    BY <1>4 DEF H!Cleanup, H!Return
  <2>2. result'.reason \notin {"staged", "unstaged"}
    BY <2>1, ReportFacts DEF H!Reasons
  <2> QED BY <2>1, <2>2, PendingFrame, PendingEmpty DEF H!Inside
<1>5. CASE H!Judge
  <2>1. /\ at' \in {"idle", "teardown"} /\ UNCHANGED <<pending, ep>>
        /\ result' \in {H!Nothing, H!Completed, H!Result(FALSE, "not verified")}
    BY <1>5, ReportFacts DEF H!Judge, H!Await, H!Return, H!kernelVars, H!sessionVars
  <2>2. result'.reason \notin {"staged", "unstaged"}
    BY <2>1, ReportFacts DEF H!Reasons, H!None
  <2> QED BY <2>1, <2>2, PendingFrame DEF H!Inside
<1> QED BY <1>1, <1>2, <1>3, <1>4, <1>5

(* An act with its effect still to come timed out, or raised.              *)
LEMMA LateIsRefused ==
  ASSUME NEW a, NEW r \in H!ActAnswers(a), r.late
  PROVE  /\ r.how \in {"raises"} \cup H!Refused
         /\ r.how # "raises" => r.how = "timeout" /\ ~\E k \in answers : k.key = a.key
<1> DEFINE first == {q \in answers : q.key = a.key}
           Outcome(how, done, after) == [how |-> how, done |-> done, late |-> after]
           done == {Outcome("ok", TRUE, FALSE)} \cup
                   (IF H!May("refuse") THEN {Outcome("refused", FALSE, FALSE)} ELSE {}) \cup
                   (IF H!May("effect") THEN {Outcome("refused", TRUE, FALSE)} ELSE {}) \cup
                   (IF H!May("late") /\ H!Cardinality(pending) < MaxLate
                    THEN {Outcome("timeout", FALSE, TRUE)} ELSE {})
<1>1. CASE first = {}
  <2>1. r \in done
    BY <1>1 DEF H!ActAnswers
  <2>2. r.how = "timeout"
    BY <2>1
  <2> QED BY <1>1, <2>2 DEF H!Refused
<1>2. CASE first # {}
  <2>1. PICK f : f = CHOOSE q \in first : TRUE
    OBVIOUS
  <2>2. \/ r \in {[d EXCEPT !.how = "raises"] : d \in done}
        \/ r \in {Outcome(IF f.cap = a.cap THEN f.how ELSE "raises", FALSE, FALSE)}
    BY <1>2, <2>1 DEF H!ActAnswers
  <2>3. ASSUME NEW d \in done, r = [d EXCEPT !.how = "raises"]
        PROVE  r.how = "raises"
    <3>1. "how" \in DOMAIN d
      OBVIOUS
    <3> QED BY <2>3, <3>1
  <2> QED BY <2>2, <2>3
<1> QED BY <1>1, <1>2

(* It is recorded as timed out.                                            *)
LEMMA LateIsRecorded ==
  ASSUME NEW r \in H!ActAnswers(doing), H!Acted(doing, r), UNCHANGED <<doing, ep>>, r.late,
         r.how # "raises"
  PROVE  H!TimedOut(doing)'
<1>1. r.how = "timeout" /\ ~\E k \in answers : k.key = doing.key
  BY LateIsRefused
<1>2. PICK k : k = [key |-> doing.key, ep |-> ep, cap |-> doing.cap, how |-> r.how]
  OBVIOUS
<1>3. k \in answers' /\ k.ep = ep' /\ k.key = doing'.key /\ k.how = "timeout"
  BY <1>1, <1>2 DEF H!Acted
<1> QED BY <1>3 DEF H!TimedOut

(* The stage: nothing is pending until an action times out, and that one   *)
(* is the last.                                                            *)
LEMMA StagePending ==
  ASSUME H!EnvHarnessAssumption, HarnessInv, H!PendingInvariant,
         H!Baseline \/ H!StageAct \/ H!StageVerify \/ H!StageRollback
  PROVE  H!PendingInvariant'
<1>1. ep # 0 /\ ep' = ep /\ result = H!Nothing
  BY ReportFacts DEF H!Baseline, H!StageAct, H!StageVerify, H!StageRollback, H!PendingInvariant,
     H!Inside, H!sessionVars
<1>2. CASE H!Baseline \/ H!StageVerify
  <2>1. /\ at \in {"baseline", "staged"} /\ UNCHANGED pending
        /\ result' \in {H!Nothing, H!Result(TRUE, "staged")}
    BY <1>1, <1>2 DEF H!Baseline, H!StageVerify, H!StageFrom, H!Await, H!Return, H!kernelVars
  <2>2. pending' = {}
    BY <2>1 DEF H!PendingInvariant
  <2>3. result'.reason # "unstaged"
    BY <2>1, ReportFacts DEF H!Reasons, H!None
  <2> QED BY <1>1, <2>2, <2>3, PendingEmpty
<1>3. CASE H!StageAct
  <2>1. PICK r \in H!ActAnswers(doing) :
          /\ H!Acted(doing, r)
          /\ \/ H!Raise /\ UNCHANGED doing
             \/ H!Await("unstage") /\ UNCHANGED doing /\ r.how # "raises"
             \/ r.how \notin {"raises"} \cup H!Refused /\ H!Await("staged")
             \/ r.how \notin {"raises"} \cup H!Refused /\ H!StageFrom(index + 1)
    BY <1>3 DEF H!StageAct, H!Refused
  <2>2. at = "stage" /\ pending = {} /\ doing.cap \in Caps
    BY <1>3, HarnessInside DEF H!StageAct, H!PendingInvariant, H!StageIsAdmitted, H!Admissible,
       H!Stage
  <2>3. pending' = IF r.late THEN pending \cup {H!Late(doing)} ELSE pending
    BY <2>1 DEF H!Acted
  <2>4. CASE r.how \notin {"raises"} \cup H!Refused
    <3>1. ~r.late
      BY <2>1, <2>4, LateIsRefused
    <3>2. result' \in {H!Nothing, H!Result(TRUE, "staged"), H!Result(FALSE, "raised")}
      BY <1>1, <2>1 DEF H!StageFrom, H!Await, H!Return, H!Raise
    <3>3. result'.reason # "unstaged"
      BY <3>2, ReportFacts DEF H!Reasons, H!None
    <3> QED BY <1>1, <2>2, <2>3, <3>1, <3>3, PendingEmpty
  <2>5. CASE H!Raise /\ UNCHANGED doing
    <3>1. at' = "idle" /\ result' = H!Result(FALSE, "raised") /\ \A e \in pending' : e.cap \in Caps
      BY <2>2, <2>3, <2>5 DEF H!Raise, H!Return, H!Late
    <3>2. result'.reason = "raised"
      BY <3>1, ReportFacts DEF H!Reasons
    <3> QED BY <1>1, <3>1, <3>2 DEF H!PendingInvariant, H!Inside
  <2>6. CASE H!Await("unstage") /\ UNCHANGED doing /\ r.how # "raises"
    <3>1. at' = "unstage" /\ result' = H!Nothing /\ \A e \in pending' : e.cap \in Caps
      BY <1>1, <2>2, <2>3, <2>6 DEF H!Await, H!Late
    <3>2. result'.reason = H!None
      BY <3>1, ReportFacts
    <3>3. pending' # {} => pending' = {H!Late(doing)}' /\ H!TimedOut(doing)'
      <4>1. pending' # {} => r.late /\ pending' = {H!Late(doing)}
        BY <2>2, <2>3
      <4>2. r.late => H!TimedOut(doing)'
        BY <1>1, <2>1, <2>6, LateIsRecorded
      <4>3. H!Late(doing)' = H!Late(doing)
        BY <2>6 DEF H!Late
      <4> QED BY <4>1, <4>2, <4>3
    <3> QED BY <1>1, <3>1, <3>2, <3>3 DEF H!PendingInvariant, H!Inside, H!None
  <2> QED BY <2>1, <2>4, <2>5, <2>6
<1>4. CASE H!StageRollback
  <2>1. /\ at = "unstage" /\ H!Admissible(Harness[leg]) /\ saved = Fresh /\ at' = "idle"
        /\ UNCHANGED <<pending, answers, doing>>
        /\ \/ world' = saved /\ result' = H!Result(FALSE, "unstaged")
           \/ result' = H!Result(FALSE, "rollback failed")
    BY <1>4, HarnessInside DEF H!StageRollback, H!Restored, H!Return, H!CheckpointsAreOfTheStart,
       H!localVars
  <2>2. result'.reason # "staged" /\ (result'.reason = "unstaged" => world' = Fresh)
    BY <2>1, ReportFacts DEF H!Reasons
  <2>3. pending # {} => pending = {H!Late(doing)} /\ H!TimedOut(doing)
    BY <2>1 DEF H!PendingInvariant
  <2>4. H!Late(doing)' = H!Late(doing) /\ (H!TimedOut(doing) => H!TimedOut(doing)')
    BY <1>1, <2>1 DEF H!Late, H!TimedOut
  <2>5. \A e \in pending : e.cap \in Caps
    BY DEF H!PendingInvariant
  <2> QED BY <1>1, <2>1, <2>2, <2>3, <2>4, <2>5 DEF H!PendingInvariant, H!Inside
<1> QED BY <1>2, <1>3, <1>4

(* The awaits of a step. *)
LEMMA StepPending ==
  ASSUME H!EnvHarnessAssumption, HarnessInv, H!PendingInvariant,
         H!Admit \/ H!Read \/ H!Checkpoint \/ H!Act \/ H!VerifyStep \/ H!StepRollback \/ H!Observe
  PROVE  H!PendingInvariant'
<1>1. CASE H!Observe
  <2>1. /\ at' = "idle" /\ UNCHANGED <<ep, pending, answers, doing, world, leg>>
        /\ result' = result \/ result' = H!Result(FALSE, "raised")
    BY <1>1 DEF H!Observe, H!Return, H!Raise, H!sessionVars, H!kernelVars, H!localVars
  <2>2. CASE result' = H!Result(FALSE, "raised")
    BY <2>1, <2>2, ReportFacts, PendingFrame DEF H!Inside, H!Reasons
  <2>3. CASE result' = result
    <3>1. H!Late(doing)' = H!Late(doing) /\ (H!TimedOut(doing) => H!TimedOut(doing)')
      BY <2>1 DEF H!Late, H!TimedOut
    <3> QED BY <2>1, <2>3, <3>1 DEF H!PendingInvariant, H!Inside
  <2> QED BY <2>1, <2>2, <2>3
<1>2. CASE H!Admit \/ H!Read \/ H!Checkpoint \/ H!VerifyStep \/ H!StepRollback
  <2>1. /\ ep # 0 /\ UNCHANGED <<pending, ep>> /\ result = H!Nothing
        /\ at \in {"admit", "read", "checkpoint", "verify", "rollback"}
    BY <1>2, ReportFacts DEF H!Admit, H!Read, H!Checkpoint, H!VerifyStep, H!StepRollback,
       H!PendingInvariant, H!Inside, H!sessionVars, H!kernelVars, H!Accept
  <2>2. /\ at' \in {"observe", "read", "checkpoint", "act", "verify", "rollback"}
        /\ \/ result' = H!Nothing
           \/ \E ok \in BOOLEAN : \E why \in {"denied", "unknown", "read", "verified",
                                              "postcondition", "rollback failed"} :
                result' = H!Result(ok, why)
    BY <1>2, <2>1 DEF H!Admit, H!Checkpoint, H!Read, H!VerifyStep, H!StepRollback, H!Await,
         H!Refuse, H!Accept
  <2>3. result'.reason \notin {"staged", "unstaged"}
    <3>1. {"denied", "unknown", "read", "verified", "postcondition", "rollback failed"}
            \subseteq H!Reasons \ {"staged", "unstaged"}
      BY DEF H!Reasons
    <3>2. H!None \notin {"staged", "unstaged"}
      BY DEF H!None
    <3>3. CASE result' = H!Nothing
      BY <3>2, <3>3, ReportFacts
    <3>4. ASSUME NEW ok \in BOOLEAN,
                 NEW why \in {"denied", "unknown", "read", "verified", "postcondition",
                              "rollback failed"},
                 result' = H!Result(ok, why)
          PROVE  result'.reason \notin {"staged", "unstaged"}
      <4>1. why \in H!Reasons /\ why \notin {"staged", "unstaged"}
        BY <3>1
      <4>2. H!Result(ok, why).reason = why
        BY <4>1, ReportFacts
      <4> QED BY <3>4, <4>1, <4>2
    <3> QED BY <2>2, <3>3, <3>4
  <2> QED BY <2>1, <2>2, <2>3, PendingFrame
<1>3. CASE H!Act
  <2>1. PICK r \in H!ActAnswers(doing) : H!Acted(doing, r)
    BY <1>3, Zenon DEF H!Act
  <2>2. at = "act" /\ ep # 0 /\ doing.cap \in Caps /\ ep' = ep /\ result = H!Nothing
    BY <1>3, ReportFacts, HarnessInside DEF H!Act, H!PendingInvariant, H!Inside,
       H!CallsAreInPlace, H!sessionVars, H!Accept
  <2>3. \A e \in pending' : e.cap \in Caps
    BY <2>1, <2>2 DEF H!Acted, H!Late, H!PendingInvariant
  <2>4. /\ at' \in {"idle", "observe", "verify"}
        /\ result' \in {H!Nothing, H!Result(FALSE, "raised"), H!Result(FALSE, "not acted"),
                        H!Result(TRUE, "acted")}
    BY <1>3, <2>2 DEF H!Act, H!Await, H!Return, H!Raise, H!Refuse, H!Accept
  <2>5. result'.reason \notin {"staged", "unstaged"}
    BY <2>4, ReportFacts DEF H!None, H!Reasons
  <2> QED BY <2>2, <2>3, <2>4, <2>5 DEF H!PendingInvariant
<1> QED BY <1>1, <1>2, <1>3

(* The effects that land. *)
LEMMA LatePending ==
  ASSUME H!EnvHarnessAssumption, HarnessInv, H!PendingInvariant, H!LateEffect
  PROVE  H!PendingInvariant'
<1>1. PICK e \in pending : pending' = pending \ {e} /\ world' = Effect[e.cap][world]
  BY DEF H!LateEffect
<1>2. UNCHANGED <<at, leg, ep, doing, answers, result>>
  BY DEF H!LateEffect, H!sessionVars, H!localVars
<1>3. H!Late(doing)' = H!Late(doing) /\ (H!TimedOut(doing) => H!TimedOut(doing)')
  BY <1>2 DEF H!Late, H!TimedOut
<1>4. /\ \A d \in pending' : d.cap \in Caps
      /\ ep' = 0 => pending' = {} /\ at' \notin H!Inside
      /\ at' \in {"baseline", "stage", "staged"} \/ result'.reason = "staged" => pending' = {}
  BY <1>1, <1>2 DEF H!PendingInvariant
<1>5. at = "unstage" /\ H!Admissible(Harness[leg]) => pending' = {}
  BY <1>1 DEF H!PendingInvariant
<1>6. result.reason = "unstaged" =>
        world' = Effect[doing.cap][Fresh] /\ pending' = {} /\ H!TimedOut(doing)
  BY <1>1 DEF H!PendingInvariant, H!Late
<1> QED BY <1>2, <1>3, <1>4, <1>5, <1>6 DEF H!PendingInvariant, H!Inside

(* Every step keeps it. *)
LEMMA PendingNext ==
  ASSUME H!EnvHarnessAssumption, HarnessInv, H!PendingInvariant, [H!Next]_H!vars
  PROVE  H!PendingInvariant'
<1>1. CASE UNCHANGED H!vars
  <2>1. UNCHANGED <<at, leg, ep, world, pending, answers, doing, result>>
    BY <1>1 DEF H!vars, H!sessionVars, H!kernelVars, H!localVars
  <2>2. H!Late(doing)' = H!Late(doing) /\ (H!TimedOut(doing) => H!TimedOut(doing)')
    BY <2>1 DEF H!Late, H!TimedOut
  <2> QED BY <2>1, <2>2 DEF H!PendingInvariant, H!Inside
<1>2. CASE H!Next
  BY <1>2, BeginPending, SessionPending, StagePending, StepPending, LatePending
     DEF H!Next, H!HarnessStep
<1> QED BY <1>1, <1>2

(* Nothing is pending before the first call. *)
LEMMA PendingInit ==
  ASSUME H!Init
  PROVE  H!PendingInvariant
  BY DEF H!Init, H!PendingInvariant, H!Nothing, H!None, H!Inside

-----------------------------------------------------------------------------
(* The history of accepted steps *)

(* The awaits of a step before it accepts. *)
StepAwaits == {"admit", "read", "checkpoint", "act", "verify", "rollback"}

(* A step that left the history as its call found it. *)
LEMMA HistoryHolds ==
  ASSUME history' = past'
  PROVE  H!HistoryInvariant'
  BY DEF H!HistoryInvariant

(* A step outside the awaits that reports no refusal of a step. *)
LEMMA HistoryAside ==
  ASSUME at' \notin StepAwaits,
         result'.call # "step" \/ result'.accepted = TRUE \/ result'.reason = "raised"
  PROVE  H!HistoryInvariant'
  BY DEF H!HistoryInvariant, StepAwaits

(* What is reported is of the call under way. *)
LEMMA ReportsAreOfCall ==
  /\ H!Nothing.call = "none" /\ H!Completed.call = call
  /\ \A ok, why : /\ H!Result(ok, why).call = call /\ H!Result(ok, why).accepted = ok
                  /\ H!Result(ok, why).reason = why
  BY DEF H!Nothing, H!None, H!Completed, H!Result

(* Every step keeps it. *)
LEMMA HistoryNext ==
  ASSUME H!EnvHarnessAssumption, HarnessInv, H!HistoryInvariant, [H!Next]_H!vars
  PROVE  H!HistoryInvariant'
<1>1. CASE UNCHANGED H!vars
  BY <1>1 DEF H!vars, H!sessionVars, H!ghosts, H!HistoryInvariant
<1>2. CASE H!ChainReset \/ H!SessionReset \/ H!Close \/ H!Advance
  <2>1. at' \in {"teardown", "materialize", "judge"} /\ result' = H!Nothing
    BY <1>2 DEF H!ChainReset, H!SessionReset, H!Close, H!Advance, H!Begin
  <2> QED BY <2>1, ReportsAreOfCall, HistoryAside DEF StepAwaits
<1>3. CASE \E a \in Actions : H!Step(a)
  BY <1>3, HistoryHolds DEF H!Step, H!Begin, H!sessionVars
<1>4. CASE H!Teardown
  <2>1. /\ call # "step" /\ result = H!Nothing
    BY <1>4, HarnessInside DEF H!Teardown, H!CallsAreInPlace
  <2>2. at' \in {"materialize", "idle"}
    BY <1>4, Zenon DEF H!Teardown, H!AfterTeardown, H!AfterFailedTeardown, H!Await, H!Return,
       H!Raise
  <2>3. result' \in {H!Nothing, H!Result(TRUE, "torn down"), H!Result(FALSE, "raised"),
                     H!Result(FALSE, "teardown failed")}
    BY <1>4, <2>1 DEF H!Teardown, H!AfterTeardown, H!AfterFailedTeardown, H!Await, H!Return,
       H!Raise
  <2>4. \/ result' = H!Nothing
        \/ \E ok \in BOOLEAN : \E why \in H!Reasons : result' = H!Result(ok, why)
    BY <2>3 DEF H!Reasons
  <2>5. result'.call # "step"
    BY <2>1, <2>4, ReportsAreOfCall
  <2> QED BY <2>2, <2>5, HistoryAside DEF StepAwaits
<1>5. CASE H!Materialize \/ H!Cleanup \/ H!Judge \/ H!Baseline \/ H!StageVerify \/ H!StageRollback
  <2>1. call # "step" /\ result = H!Nothing
    BY <1>5, HarnessInside DEF H!Materialize, H!Cleanup, H!Judge, H!Baseline, H!StageVerify,
       H!StageRollback, H!CallsAreInPlace
  <2>2. at' \in {"idle", "teardown", "baseline", "unstage", "stage", "staged"}
    BY <1>5 DEF H!Materialize, H!Cleanup, H!Judge, H!Baseline, H!StageVerify, H!StageRollback,
       H!StageFrom, H!Restored, H!Await, H!Return
  <2>3. result' = H!Nothing \/ result' = H!Completed \/ \E ok, why : result' = H!Result(ok, why)
    BY <1>5, <2>1 DEF H!Materialize, H!Cleanup, H!Judge, H!Baseline, H!StageVerify,
       H!StageRollback, H!StageFrom, H!Restored, H!Await, H!Return
  <2>4. result'.call # "step"
    BY <2>1, <2>3, ReportsAreOfCall
  <2> QED BY <2>2, <2>4, HistoryAside DEF StepAwaits
<1>6. CASE H!StageAct
  <2>1. call # "step" /\ result = H!Nothing
    BY <1>6, HarnessInside DEF H!StageAct, H!CallsAreInPlace
  <2>2. H!Raise \/ H!Await("unstage") \/ H!Await("staged") \/ H!StageFrom(index + 1)
    BY <1>6 DEF H!StageAct
  <2>3. /\ at' \in {"idle", "stage", "staged", "unstage"}
        /\ result' = H!Nothing \/ \E ok, why : result' = H!Result(ok, why)
    BY <2>1, <2>2 DEF H!StageFrom, H!Await, H!Return, H!Raise
  <2>4. result'.call # "step"
    BY <2>1, <2>3, ReportsAreOfCall
  <2> QED BY <2>3, <2>4, HistoryAside DEF StepAwaits
<1>7. CASE H!MaterializeRaises \/ H!Interrupted
  <2>1. at' = "idle" /\ result' = H!Result(FALSE, "raised")
    BY <1>7 DEF H!MaterializeRaises, H!Interrupted, H!Raise, H!Return
  <2> QED BY <2>1, ReportsAreOfCall, HistoryAside DEF StepAwaits
<1>8. CASE H!Admit \/ H!Read \/ H!Checkpoint \/ H!Act \/ H!VerifyStep \/ H!StepRollback
  <2>1. history = past /\ past' = past
    BY <1>8 DEF H!Admit, H!Read, H!Checkpoint, H!Act, H!VerifyStep, H!StepRollback,
       H!HistoryInvariant, H!ghosts
  <2>2. history' = history \/ \E why : H!Accept(why)
    <3>1. CASE H!Act
      BY <3>1, Zenon DEF H!Act, H!sessionVars
    <3>2. CASE H!Admit \/ H!Read \/ H!Checkpoint \/ H!VerifyStep \/ H!StepRollback
      BY <3>2 DEF H!Admit, H!Read, H!Checkpoint, H!VerifyStep, H!StepRollback, H!sessionVars
    <3> QED BY <1>8, <3>1, <3>2
  <2>3. ASSUME NEW why, H!Accept(why)
        PROVE  H!HistoryInvariant'
    BY <2>3, ReportsAreOfCall, HistoryAside DEF H!Accept, StepAwaits
  <2> QED BY <2>1, <2>2, <2>3, HistoryHolds
<1>9. CASE H!Observe
  <2>1. at' = "idle" /\ UNCHANGED <<history, past>>
    BY <1>9 DEF H!Observe, H!Return, H!Raise, H!sessionVars, H!ghosts
  <2>2. result' = result \/ result' = H!Result(FALSE, "raised")
    BY <1>9 DEF H!Observe, H!Return, H!Raise
  <2>3. CASE result' = result
    BY <2>1, <2>3 DEF H!HistoryInvariant
  <2>4. CASE result' = H!Result(FALSE, "raised")
    BY <2>1, <2>4, ReportsAreOfCall, HistoryAside DEF StepAwaits
  <2> QED BY <2>2, <2>3, <2>4
<1>10. CASE H!LateEffect
  BY <1>10 DEF H!LateEffect, H!sessionVars, H!HistoryInvariant
<1> QED
  BY <1>1, <1>2, <1>3, <1>4, <1>5, <1>6, <1>7, <1>8, <1>9, <1>10 DEF H!Next, H!HarnessStep

(* Before the first call there is no history. *)
LEMMA HistoryInit ==
  ASSUME H!Init
  PROVE  H!HistoryInvariant
  BY DEF H!Init, H!HistoryInvariant

-----------------------------------------------------------------------------
(* The stage, when it repeats no key *)

(* One more stage action makes one more world of the run. *)
LEMMA StagedGrows ==
  ASSUME H!EnvHarnessAssumption, NEW l \in 1..Legs, NEW n \in Nat, NEW w \in Worlds, H!Staged(l,
         n, w),
         Harness[l].stage[n + 1].cap \in Caps
  PROVE  H!Staged(l, n + 1, Effect[Harness[l].stage[n + 1].cap][w])
<1> DEFINE v == Effect[Harness[l].stage[n + 1].cap][w]
<1>1. v \in Worlds
  BY HarnessConstants
<1>2. PICK h \in [0..n -> Worlds] :
        /\ h[0] = Fresh /\ h[n] = w
        /\ \A i \in 1..n : h[i] = Effect[Harness[l].stage[i].cap][h[i - 1]]
  BY DEF H!Staged
<1> DEFINE g == [i \in 0..(n + 1) |-> IF i = n + 1 THEN v ELSE h[i]]
<1>3. g \in [0..(n + 1) -> Worlds]
  BY <1>1, <1>2
<1>4. g[0] = Fresh /\ g[n + 1] = v /\ g[n] = w
  BY <1>2
<1>5. ASSUME NEW i \in 1..(n + 1)
      PROVE  g[i] = Effect[Harness[l].stage[i].cap][g[i - 1]]
  <2>1. CASE i = n + 1
    <3>1. i - 1 = n
      BY <2>1
    <3>2. g[i] = v /\ g[i - 1] = w
      BY <1>4, <2>1, <3>1
    <3> HIDE DEF g
    <3> QED BY <2>1, <3>2
  <2>2. CASE i # n + 1
    <3>1. i \in 1..n /\ g[i] = h[i] /\ g[i - 1] = h[i - 1]
      BY <2>2
    <3> QED BY <1>2, <3>1
  <2> QED BY <2>1, <2>2
<1> HIDE DEF g, v
<1>6. H!Staged(l, n + 1, v)
  BY <1>3, <1>4, <1>5 DEF H!Staged
<1> QED BY <1>6 DEF v

(* Nothing staged yet. *)
LEMMA StagedNothing ==
  ASSUME H!EnvHarnessAssumption, NEW l
  PROVE  H!Staged(l, 0, Fresh)
<1> DEFINE h == [i \in 0..0 |-> Fresh]
<1>1. h \in [0..0 -> Worlds] /\ h[0] = Fresh
  BY HarnessConstants
<1>2. \A i \in 1..0 : h[i] = Effect[Harness[l].stage[i].cap][h[i - 1]]
  OBVIOUS
<1> HIDE DEF h
<1> QED BY <1>1, <1>2 DEF H!Staged

(* The rest of the actions neither stage nor report a stage. *)
LEMMA StageFrame ==
  ASSUME at' \notin {"baseline", "stage", "staged"}, result'.reason # "staged"
  PROVE  H!StageInvariant'
  BY DEF H!StageInvariant

(* A fresh act under a new key has its effect when it is accepted. *)
LEMMA AcceptedIsDone ==
  ASSUME NEW a, NEW r \in H!ActAnswers(a), r.how \notin {"raises"} \cup H!Refused,
         \A q \in answers : q.key = a.key => q.ep # ep
  PROVE  r.done
<1> DEFINE first == {q \in answers : q.key = a.key}
           Outcome(how, done, after) == [how |-> how, done |-> done, late |-> after]
           done == {Outcome("ok", TRUE, FALSE)} \cup
                   (IF H!May("refuse") THEN {Outcome("refused", FALSE, FALSE)} ELSE {}) \cup
                   (IF H!May("effect") THEN {Outcome("refused", TRUE, FALSE)} ELSE {}) \cup
                   (IF H!May("late") /\ H!Cardinality(pending) < MaxLate
                    THEN {Outcome("timeout", FALSE, TRUE)} ELSE {})
<1>1. CASE first = {}
  <2>1. r \in done
    BY <1>1 DEF H!ActAnswers
  <2> QED BY <2>1 DEF H!Refused
<1>2. CASE first # {}
  <2>1. PICK f : f = CHOOSE q \in first : TRUE
    OBVIOUS
  <2>2. f \in first /\ f.ep # ep
    BY <1>2, <2>1
  <2>3. r \in {[d EXCEPT !.how = "raises"] : d \in done}
    BY <1>2, <2>1, <2>2 DEF H!ActAnswers
  <2>4. PICK d \in done : r = [d EXCEPT !.how = "raises"]
    BY <2>3
  <2>5. "how" \in DOMAIN d
    OBVIOUS
  <2> QED BY <2>4, <2>5
<1> QED BY <1>1, <1>2

(* The actions that neither stage nor report a stage. *)
LEMMA StageAside ==
  ASSUME H!EnvHarnessAssumption, HarnessInv, H!HarnessStep, ~H!Materialize, ~H!Baseline,
         ~H!StageAct, ~H!StageVerify, ~H!Observe
  PROVE  H!StageInvariant'
<1>1. /\ H!Nothing.reason = H!None /\ H!Completed.reason = "complete"
      /\ \A ok \in BOOLEAN : \A why \in H!Reasons : H!Result(ok, why).reason = why
  BY HarnessInside, CompleteResult
<1>2. at \notin {"idle", "observe"} => result = H!Nothing
  BY HarnessInside
<1>3. CASE H!ChainReset \/ H!SessionReset \/ H!Close \/ H!Advance \/ \E a \in Actions : H!Step(a)
  <2>1. at' \in {"teardown", "materialize", "admit", "judge"} /\ result' = H!Nothing
    BY <1>3 DEF H!ChainReset, H!SessionReset, H!Close, H!Advance, H!Step, H!Begin
  <2> QED BY <1>1, <2>1, StageFrame DEF H!None
<1>4. CASE H!Teardown
  <2>1. at' \in {"materialize", "idle"}
    BY <1>4 DEF H!Teardown, H!AfterTeardown, H!AfterFailedTeardown, H!Await, H!Return, H!Raise
  <2>2. result' \in {H!Nothing, H!Result(TRUE, "torn down"), H!Result(FALSE, "raised"),
                     H!Result(FALSE, "teardown failed")}
    BY <1>2, <1>4 DEF H!Teardown, H!AfterTeardown, H!AfterFailedTeardown, H!Await, H!Return,
         H!Raise
  <2> QED BY <1>1, <2>1, <2>2, StageFrame DEF H!None, H!Reasons
<1>5. CASE H!Cleanup \/ H!StageRollback \/ H!Interrupted \/ H!MaterializeRaises
  <2>1. /\ at' = "idle"
        /\ result' \in {H!Result(FALSE, why) : why \in {"inadmissible", "cleanup failed",
                                                      "unstaged", "rollback failed", "raised"}}
    BY <1>5 DEF H!Cleanup, H!StageRollback, H!Interrupted, H!MaterializeRaises, H!Restored,
       H!Return, H!Raise
  <2> QED BY <1>1, <2>1, StageFrame DEF H!Reasons
<1>6. CASE H!Admit \/ H!Checkpoint \/ H!Read \/ H!VerifyStep \/ H!StepRollback
  <2>1. /\ at' \in {"observe", "read", "checkpoint", "act", "verify", "rollback"}
        /\ \/ result' = H!Nothing
           \/ \E ok \in BOOLEAN : \E why \in {"denied", "unknown", "read", "verified",
                                              "postcondition", "rollback failed"} :
                result' = H!Result(ok, why)
    BY <1>2, <1>6 DEF H!Admit, H!Checkpoint, H!Read, H!VerifyStep, H!StepRollback, H!Await,
         H!Refuse, H!Accept
  <2>2. CASE result' = H!Nothing
    BY <1>1, <2>1, <2>2, StageFrame DEF H!None
  <2>3. ASSUME NEW ok \in BOOLEAN,
               NEW why \in {"denied", "unknown", "read", "verified", "postcondition",
                            "rollback failed"},
               result' = H!Result(ok, why)
        PROVE  H!StageInvariant'
    <3>1. why \in H!Reasons /\ why # "staged"
      BY DEF H!Reasons
    <3>2. H!Result(ok, why).reason = why
      BY <1>1, <3>1
    <3>3. result'.reason # "staged"
      BY <2>3, <3>1, <3>2
    <3> QED BY <2>1, <3>3, StageFrame
  <2> QED BY <2>1, <2>2, <2>3
<1>7. CASE H!Act
  <2>1. /\ at' \in {"idle", "observe", "verify"}
        /\ result' \in {H!Nothing, H!Result(FALSE, "raised"), H!Result(FALSE, "not acted"),
                        H!Result(TRUE, "acted")}
    BY <1>2, <1>7 DEF H!Act, H!Await, H!Return, H!Raise, H!Refuse, H!Accept
  <2> QED BY <1>1, <2>1, StageFrame DEF H!None, H!Reasons
<1>8. CASE H!Judge
  <2>1. /\ at' \in {"idle", "teardown"}
        /\ result' \in {H!Nothing, H!Completed, H!Result(FALSE, "not verified")}
    BY <1>2, <1>8 DEF H!Judge, H!Await, H!Return
  <2> QED BY <1>1, <2>1, StageFrame DEF H!None, H!Reasons
<1> QED BY <1>3, <1>4, <1>5, <1>6, <1>7, <1>8 DEF H!HarnessStep

(* Going on after n stage actions. *)
LEMMA StageGoesOn ==
  ASSUME H!EnvHarnessAssumption, HarnessInv, at \in {"baseline", "stage", "staged"},
         UNCHANGED <<leg, ep>>,
         NEW n \in Nat, n \in 0..Len(H!Stage), H!StageFrom(n + 1), H!Staged(leg, n, world'),
         \A r \in answers' : r.ep = ep => \E j \in 1..n : r.key = H!Stage[j].key
  PROVE  H!StageInvariant'
<1>1. n + 1 \in Nat \ {0} /\ H!Stage' = H!Stage /\ Len(H!Stage) \in Nat
  BY HarnessInside, HarnessConstants DEF H!Stage, LegTypes
<1>2. /\ index' = n + 1
      /\ \/ at' = "stage" /\ result' = H!Nothing
         \/ at' = "idle" /\ result' = H!Result(TRUE, "staged") /\ n + 1 > Len(H!Stage)
  BY <1>1, StageFromFacts
<1>3. H!Nothing.reason = H!None /\ H!Result(TRUE, "staged").reason = "staged"
  BY HarnessInside DEF H!Reasons
<1>4. CASE at' = "stage" /\ result' = H!Nothing
  <2>1. index' - 1 = n
    BY <1>1, <1>2
  <2> QED BY <1>1, <1>3, <1>4, <2>1 DEF H!StageInvariant, H!None
<1>5. CASE at' = "idle" /\ n + 1 > Len(H!Stage)
  <2>1. n = Len(H!Stage)
    BY <1>1, <1>5
  <2> QED BY <1>1, <1>5, <2>1 DEF H!StageInvariant
<1> QED BY <1>2, <1>4, <1>5

(* An accepted stage action had its effect, and its key was new. *)
LEMMA StageActStages ==
  ASSUME H!EnvHarnessAssumption, H!StageKeysDiffer, HarnessInv, H!StageInvariant, H!StageAct
  PROVE  H!StageInvariant'
<1>1. PICK r \in H!ActAnswers(doing) :
        /\ H!Acted(doing, r)
        /\ \/ H!Raise
           \/ H!Await("unstage")
           \/ /\ r.how \notin {"raises"} \cup H!Refused /\ H!Await("staged")
              /\ UNCHANGED <<doing, index>>
           \/ r.how \notin {"raises"} \cup H!Refused /\ H!StageFrom(index + 1)
  BY DEF H!StageAct
<1>2. /\ at = "stage" /\ result = H!Nothing /\ doing = H!Stage[index] /\ index \in DOMAIN H!Stage
      /\ UNCHANGED <<leg, ep>> /\ H!Stage' = H!Stage /\ leg \in 1..Legs /\ world \in Worlds
  BY HarnessInside DEF H!StageAct, H!StageIsAdmitted, LegTypes, WorldTypes, H!sessionVars, H!Stage,
       H!ghosts
<1>3. /\ DOMAIN H!Stage = 1..Len(H!Stage) /\ Len(H!Stage) \in Nat /\ index \in 1..Len(H!Stage)
      /\ index - 1 \in Nat /\ (index - 1) + 1 = index
  BY <1>2, HarnessConstants DEF H!Stage
<1>4. doing.cap \in Caps
  BY <1>2, HarnessInside DEF H!StageIsAdmitted, H!Admissible, H!Stage
<1>5. /\ H!Staged(leg, index - 1, world)
      /\ \A q \in answers : q.ep = ep => \E j \in 1..(index - 1) : q.key = H!Stage[j].key
  BY <1>2 DEF H!StageInvariant
<1>6. H!Nothing.reason = H!None /\ H!Result(FALSE, "raised").reason = "raised"
  BY HarnessInside DEF H!Reasons
<1>7. CASE H!Raise \/ H!Await("unstage")
  <2>1. at' \in {"idle", "unstage"} /\ result'.reason # "staged"
    BY <1>2, <1>6, <1>7 DEF H!Raise, H!Return, H!Await, H!None
  <2> QED BY <2>1, StageFrame
<1>8. CASE r.how \notin {"raises"} \cup H!Refused
  <2>1. \A q \in answers : q.key = doing.key => q.ep # ep
    <3>1. SUFFICES ASSUME NEW q \in answers, q.key = doing.key, q.ep = ep PROVE FALSE
      OBVIOUS
    <3>2. PICK j \in 1..(index - 1) : q.key = H!Stage[j].key
      BY <1>5, <3>1
    <3>3. j \in 1..Len(H!Stage) /\ j # index
      BY <1>3
    <3>4. H!Stage[j].key = H!Stage[index].key => j = index
      BY <1>2, <1>3, <3>3 DEF H!StageKeysDiffer, H!Stage
    <3> QED BY <1>2, <3>1, <3>2, <3>3, <3>4
  <2>2. r.done
    BY <1>8, <2>1, AcceptedIsDone
  <2>3. world' = Effect[doing.cap][world]
    BY <1>1, <2>2 DEF H!Acted
  <2>4. H!Staged(leg, index, world')
    <3>1. PICK n : n = index - 1
      OBVIOUS
    <3>2. n \in Nat /\ n + 1 = index /\ H!Staged(leg, n, world)
      BY <1>3, <1>5, <3>1
    <3>3. Harness[leg].stage[n + 1] = doing
      BY <1>2, <3>2 DEF H!Stage
    <3>4. H!Staged(leg, n + 1, Effect[Harness[leg].stage[n + 1].cap][world])
      BY <1>2, <1>4, <3>2, <3>3, StagedGrows
    <3> QED BY <2>3, <3>2, <3>3, <3>4
  <2>5. \A q \in answers' : q.ep = ep => \E j \in 1..index : q.key = H!Stage[j].key
    <3>1. SUFFICES ASSUME NEW q \in answers', q.ep = ep
                   PROVE  \E j \in 1..index : q.key = H!Stage[j].key
      OBVIOUS
    <3>2. q \in answers \/ q.key = doing.key
      BY <1>1, <1>4, ActedFacts
    <3>3. CASE q \in answers
      <4>1. PICK j \in 1..(index - 1) : q.key = H!Stage[j].key
        BY <1>5, <3>1, <3>3
      <4> QED BY <1>3, <4>1
    <3>4. CASE q.key = doing.key
      BY <1>2, <1>3, <3>4
    <3> QED BY <3>2, <3>3, <3>4
  <2>6. CASE H!Await("staged") /\ UNCHANGED <<doing, index>>
    <3>1. at' = "staged" /\ result'.reason # "staged" /\ index' = index
      BY <1>2, <1>6, <2>6 DEF H!Await, H!None
    <3> QED BY <1>2, <2>4, <2>5, <3>1 DEF H!StageInvariant
  <2>7. CASE H!StageFrom(index + 1)
    <3>1. index \in 0..Len(H!Stage) /\ index \in Nat
      BY <1>3
    <3> QED BY <1>2, <2>4, <2>5, <2>7, <3>1, StageGoesOn
  <2> QED BY <1>1, <1>7, <1>8, <2>6, <2>7
<1> QED BY <1>1, <1>7, <1>8

(* Staging goes on, ends or is left; nothing else speaks of the stage. *)
LEMMA StageNext ==
  ASSUME H!EnvHarnessAssumption, H!StageKeysDiffer, HarnessInv, H!PendingInvariant,
         H!StageInvariant, [H!Next]_H!vars
  PROVE  H!StageInvariant'
<1>1. CASE UNCHANGED H!vars
  BY <1>1 DEF H!vars, H!sessionVars, H!kernelVars, H!localVars, H!StageInvariant, H!Stage,
       H!ghosts
<1>2. CASE H!Materialize
  <2>1. CASE at' # "idle"
    <3>1. /\ at' \in {"baseline", "unstage"} /\ result' = H!Nothing /\ UNCHANGED answers
          /\ ep' = made + 1
      BY <1>2, <2>1, HarnessInside DEF H!Materialize, H!Await, H!Return
    <3>2. made \in Nat /\ \A r \in answers : r.ep \in 0..made
      BY HarnessInside, HarnessConstants DEF KernelTypes, H!EpisodesAreKnown
    <3>3. \A r \in answers' : r.ep # ep'
      BY <3>1, <3>2
    <3>4. result'.reason # "staged"
      BY <3>1, HarnessInside DEF H!None
    <3> QED BY <3>1, <3>3, <3>4 DEF H!StageInvariant
  <2>2. CASE at' = "idle"
    <3>1. result' = H!Result(FALSE, "not materialized")
      BY <1>2, <2>2 DEF H!Materialize, H!Await, H!Return
    <3>2. result'.reason = "not materialized"
      BY <3>1, HarnessInside DEF H!Reasons
    <3> QED BY <2>2, <3>2, StageFrame
  <2> QED BY <2>1, <2>2
<1>3. CASE H!Baseline
  <2>1. /\ at = "baseline" /\ H!StageFrom(0 + 1) /\ world' = Fresh
        /\ UNCHANGED <<leg, ep, answers>>
    BY <1>3, HarnessInside DEF H!Baseline, H!CheckpointsAreOfTheStart, H!sessionVars, H!kernelVars,
       H!ghosts
  <2>2. \A r \in answers' : r.ep # ep
    BY <2>1 DEF H!StageInvariant
  <2>3. H!Staged(leg, 0, world') /\ 0 \in 0..Len(H!Stage)
    BY <2>1, StagedNothing, HarnessInside, HarnessConstants DEF LegTypes, H!Stage
  <2> QED BY <2>1, <2>2, <2>3, StageGoesOn
<1>4. CASE H!StageAct
  BY <1>4, StageActStages
<1>5. CASE H!StageVerify
  <2>1. /\ at = "staged" /\ index \in DOMAIN H!Stage /\ UNCHANGED <<leg, ep, answers, world>>
        /\ H!StageFrom(index + 1) \/ H!Await("unstage")
    BY <1>5, HarnessInside DEF H!StageVerify, H!StageIsAdmitted, H!sessionVars, H!kernelVars,
       H!ghosts
  <2>2. /\ H!Staged(leg, index, world')
        /\ \A r \in answers' : r.ep = ep => \E j \in 1..index : r.key = H!Stage[j].key
    BY <2>1 DEF H!StageInvariant
  <2>3. index \in 0..Len(H!Stage) /\ index \in Nat
    BY <2>1, HarnessInside, HarnessConstants DEF LegTypes, H!Stage
  <2>4. CASE H!StageFrom(index + 1)
    BY <2>1, <2>2, <2>3, <2>4, StageGoesOn
  <2>5. CASE H!Await("unstage")
    <3>1. at' = "unstage" /\ result'.reason = H!None
      BY <2>1, <2>5, HarnessInside DEF H!Await
    <3> QED BY <3>1, StageFrame DEF H!None
  <2> QED BY <2>1, <2>4, <2>5
<1>6. CASE H!Observe
  <2>1. /\ at' = "idle" /\ UNCHANGED <<leg, world>>
        /\ result' = result \/ result' = H!Result(FALSE, "raised")
    BY <1>6 DEF H!Observe, H!Return, H!Raise, H!sessionVars, H!kernelVars, H!ghosts
  <2>2. CASE result' = result
    BY <2>1, <2>2 DEF H!StageInvariant, H!Stage
  <2>3. CASE result' = H!Result(FALSE, "raised")
    <3>1. result'.reason = "raised"
      BY <2>3, HarnessInside DEF H!Reasons
    <3> QED BY <2>1, <3>1, StageFrame
  <2> QED BY <2>1, <2>2, <2>3
<1>7. CASE H!LateEffect
  <2>1. at \notin {"baseline", "stage", "staged"} /\ result.reason # "staged"
    BY <1>7 DEF H!LateEffect, H!PendingInvariant
  <2> QED BY <1>7, <2>1, StageFrame DEF H!LateEffect
<1> QED BY <1>1, <1>2, <1>3, <1>4, <1>5, <1>6, <1>7, StageAside DEF H!Next

-----------------------------------------------------------------------------
(* The runs of a capability, and the rules that limit them *)

(* A set that has 0 and the successor of what it has, has every number:    *)
(* its complement would have a least member.                               *)
LEMMA NatSets ==
  ASSUME NEW S, 0 \in S, \A n \in Nat : n \in S => n + 1 \in S
  PROVE  Nat \subseteq S
<1> DEFINE Before == OpToRel(<, Nat)
<1> DEFINE T == Nat \ S
<1>1. IsWellFoundedOn(Before, Nat)
  BY NatLessThanWellFounded
<1>2. \A x, y \in Nat : x < y => <<x, y>> \in Before
  BY DEF OpToRel
<1> HIDE DEF Before
<1> SUFFICES ASSUME T # {}
             PROVE  FALSE
  OBVIOUS
<1>3. PICK x \in T : \A y \in T : ~ (<<y, x>> \in Before)
  <2>1. T \subseteq Nat
    OBVIOUS
  <2> HIDE DEF T
  <2> QED
    BY <1>1, <2>1, WFMin
<1>4. x # 0 /\ x \in Nat /\ x - 1 \in Nat /\ x - 1 < x
  BY <1>3
<1>5. x - 1 \notin T
  BY <1>2, <1>3, <1>4
<1>6. x - 1 + 1 = x
  BY <1>4
<1> QED
  BY <1>3, <1>4, <1>5, <1>6

(* Consecutive(c) of any history h. *)
Others(h, c) == {i \in DOMAIN h : h[i] # c}
LastOther(h, c) ==
  IF Others(h, c) = {} THEN 0
  ELSE CHOOSE i \in Others(h, c) : \A j \in Others(h, c) : j <= i
RunOf(h, c) == Len(h) - LastOther(h, c)

(* A set of the first numbers has a greatest one. *)
LEMMA Greatest ==
  ASSUME NEW n \in Nat, NEW S \in SUBSET (1..n), S # {}
  PROVE  \E m \in S : \A j \in S : j <= m
<1> DEFINE T == {k \in Nat : \A X \in SUBSET (1..k) : X = {} \/ \E m \in X : \A j \in X : j <= m}
<1>1. 0 \in T
  OBVIOUS
<1>2. ASSUME NEW k \in Nat, k \in T
      PROVE  k + 1 \in T
  <2>1. SUFFICES ASSUME NEW X \in SUBSET (1..(k + 1)), X # {}
                 PROVE  \E m \in X : \A j \in X : j <= m
    OBVIOUS
  <2>2. CASE k + 1 \in X
    <3>1. \A j \in X : j <= k + 1
      OBVIOUS
    <3> QED
      BY <2>2, <3>1
  <2>3. CASE k + 1 \notin X
    <3>1. X \in SUBSET (1..k)
      BY <2>3
    <3> QED
      BY <1>2, <2>1, <3>1
  <2> QED
    BY <2>2, <2>3
<1>3. \A k \in Nat : k \in T => k + 1 \in T
  BY <1>2
<1> HIDE DEF T
<1>4. Nat \subseteq T
  BY <1>1, <1>3, NatSets
<1> QED
  BY <1>4 DEF T

(* What LastOther is. *)
LEMMA LastOtherIs ==
  ASSUME NEW S, NEW h \in Seq(S), NEW c
  PROVE  /\ Len(h) \in Nat /\ DOMAIN h = 1..Len(h)
         /\ Others(h, c) = {} => LastOther(h, c) = 0
         /\ Others(h, c) # {} => /\ LastOther(h, c) \in Others(h, c)
                                 /\ \A j \in Others(h, c) : j <= LastOther(h, c)
<1>1. Len(h) \in Nat /\ DOMAIN h = 1..Len(h)
  OBVIOUS
<1>2. Others(h, c) \in SUBSET (1..Len(h))
  BY <1>1 DEF Others
<1>3. CASE Others(h, c) = {}
  BY <1>1, <1>3 DEF LastOther
<1>4. CASE Others(h, c) # {}
  <2>1. \E m \in Others(h, c) : \A j \in Others(h, c) : j <= m
    BY <1>1, <1>2, <1>4, Greatest
  <2> QED
    BY <1>1, <1>4, <2>1 DEF LastOther
<1> QED
  BY <1>3, <1>4

(* A run is a number. *)
LEMMA HarnessRunTypes ==
  ASSUME NEW S, NEW h \in Seq(S), NEW c
  PROVE  RunOf(h, c) \in Nat
<1>1. LastOther(h, c) \in 0..Len(h) /\ Len(h) \in Nat
  BY LastOtherIs DEF Others
<1> QED
  BY <1>1 DEF RunOf

(* Nothing ran in the empty history. *)
LEMMA NothingRan ==
  ASSUME NEW c
  PROVE  RunOf(<< >>, c) = 0
<1>1. Others(<< >>, c) = {} /\ Len(<< >>) = 0
  BY DEF Others
<1> QED
  BY <1>1 DEF RunOf, LastOther

(* An appended capability runs on, and ends the run of every other. *)
LEMMA RunGrows ==
  ASSUME NEW S, NEW h \in Seq(S), NEW d \in S, NEW c
  PROVE  RunOf(Append(h, d), c) = IF d = c THEN RunOf(h, c) + 1 ELSE 0
<1> DEFINE n == Len(h)
<1> DEFINE g == Append(h, d)
<1>1. /\ n \in Nat /\ g \in Seq(S) /\ Len(g) = n + 1 /\ g[n + 1] = d
      /\ \A m \in 1..n : g[m] = h[m]
  BY AppendProperties
<1>2. DOMAIN h = 1..n /\ DOMAIN g = 1..(n + 1) /\ 1..(n + 1) = (1..n) \cup {n + 1}
  BY <1>1, LastOtherIs
<1> HIDE DEF g, n
<1>3. CASE d = c
  <2>1. Others(g, c) = Others(h, c)
    BY <1>1, <1>2, <1>3 DEF Others
  <2>2. LastOther(g, c) = LastOther(h, c)
    BY <2>1 DEF LastOther
  <2>3. LastOther(h, c) \in 0..n
    BY <1>1, <1>2, LastOtherIs DEF Others
  <2> QED
    BY <1>1, <1>3, <2>2, <2>3 DEF RunOf, n, g
<1>4. CASE d # c
  <2>1. n + 1 \in Others(g, c) /\ \A j \in Others(g, c) : j \in 1..(n + 1)
    BY <1>1, <1>2, <1>4 DEF Others
  <2>2. LastOther(g, c) \in Others(g, c) /\ \A j \in Others(g, c) : j <= LastOther(g, c)
    BY <1>1, <2>1, LastOtherIs
  <2>3. LastOther(g, c) = n + 1
    BY <1>1, <2>1, <2>2
  <2> QED
    BY <1>1, <1>4, <2>3 DEF RunOf, g
<1> QED
  BY <1>3, <1>4

(* _consecutive_count is the run in the current history. *)
LEMMA ConsecutiveIsTheRun ==
  ASSUME NEW c
  PROVE  H!Consecutive(c) = RunOf(history, c)
  BY DEF H!Consecutive, RunOf, LastOther, Others

(* The limits of leg l hold of a history. *)
LimitsIn(l, h) ==
  \A n \in DOMAIN Harness[l].rules :
    /\ RunOf(h, Harness[l].rules[n].cap) \in Nat
    /\ H!Limiting(Harness[l].rules[n]) =>
         RunOf(h, Harness[l].rules[n].cap) <= Harness[l].rules[n].limit

(* And they still do after one more c. *)
RoomFor(l, h, c) ==
  \A n \in DOMAIN Harness[l].rules :
    H!Limiting(Harness[l].rules[n]) /\ Harness[l].rules[n].cap = c =>
      RunOf(h, c) < Harness[l].rules[n].limit

(* Where an admitted action is under way. *)
UnderWay == {"read", "checkpoint", "act", "verify"}

(* The invariant in these words. *)
LEMMA LimitWords ==
  H!LimitInvariant <=>
    LimitsIn(leg, history) /\ (at \in UnderWay => RoomFor(leg, history, doing.cap))
  BY ConsecutiveIsTheRun DEF H!LimitInvariant, H!LimitsHold, LimitsIn, RoomFor, UnderWay, H!Rules

(* And of the next state. *)
LEMMA LimitWordsNext ==
  ASSUME LimitsIn(leg', history'), at' \in UnderWay => RoomFor(leg', history', doing'.cap)
  PROVE  H!LimitInvariant'
<1>1. \A c : H!Consecutive(c)' = RunOf(history', c)
  BY DEF H!Consecutive, RunOf, LastOther, Others
<1> QED
  BY DEF H!LimitInvariant, H!LimitsHold, LimitsIn, RoomFor, UnderWay, H!Rules, H!Consecutive,
       RunOf,
         LastOther, Others

(* What the limits are. *)
LEMMA Limits ==
  ASSUME H!EnvHarnessAssumption, NEW l \in 1..Legs
  PROVE  /\ Len(Harness[l].rules) \in Nat
         /\ DOMAIN Harness[l].rules = 1..Len(Harness[l].rules)
         /\ \A n \in 1..Len(Harness[l].rules) :
              /\ Harness[l].rules[n].limit \in Nat /\ Harness[l].rules[n].effect \in H!Effects
  BY DEF H!EnvHarnessAssumption

(* A new session has run nothing. *)
LEMMA NothingLimited ==
  ASSUME H!EnvHarnessAssumption, NEW l \in 1..Legs
  PROVE  LimitsIn(l, << >>)
<1> SUFFICES ASSUME NEW n \in DOMAIN Harness[l].rules
             PROVE  /\ RunOf(<< >>, Harness[l].rules[n].cap) \in Nat
                    /\ RunOf(<< >>, Harness[l].rules[n].cap) <= Harness[l].rules[n].limit
  BY DEF LimitsIn
<1>1. RunOf(<< >>, Harness[l].rules[n].cap) = 0
  BY NothingRan
<1>2. Harness[l].rules[n].limit \in Nat
  BY Limits
<1> QED
  BY <1>1, <1>2

(* What there was room for keeps the limits. *)
LEMMA RoomIsEnough ==
  ASSUME H!EnvHarnessAssumption, NEW l \in 1..Legs, NEW h \in Seq(Caps), NEW d \in Caps,
         LimitsIn(l, h), RoomFor(l, h, d)
  PROVE  LimitsIn(l, Append(h, d))
<1> SUFFICES ASSUME NEW n \in DOMAIN Harness[l].rules
             PROVE  /\ RunOf(Append(h, d), Harness[l].rules[n].cap) \in Nat
                    /\ H!Limiting(Harness[l].rules[n]) =>
                         RunOf(Append(h, d), Harness[l].rules[n].cap) <= Harness[l].rules[n].limit
  BY DEF LimitsIn
<1>1. PICK c : c = Harness[l].rules[n].cap
  OBVIOUS
<1>2. Harness[l].rules[n].limit \in Nat
  BY Limits
<1>3. RunOf(Append(h, d), c) = IF d = c THEN RunOf(h, c) + 1 ELSE 0
  BY RunGrows
<1>4. RunOf(h, c) \in Nat
  BY HarnessRunTypes
<1>5. H!Limiting(Harness[l].rules[n]) /\ d = c => RunOf(h, c) < Harness[l].rules[n].limit
  BY <1>1 DEF RoomFor
<1> QED
  BY <1>1, <1>2, <1>3, <1>4, <1>5

(* The other actions of a step or of a call leave the limits where they were. *)
LEMMA LimitsFrame ==
  ASSUME H!EnvHarnessAssumption, HarnessInv, H!LimitInvariant, UNCHANGED <<leg, history>>,
         at' \notin UnderWay \/ (at \in UnderWay /\ UNCHANGED doing)
  PROVE  H!LimitInvariant'
<1>1. LimitsIn(leg, history) /\ (at \in UnderWay => RoomFor(leg, history, doing.cap))
  BY LimitWords
<1> QED
  BY <1>1, LimitWordsNext

(* A new session starts with an empty history. *)
LEMMA LimitsOfTheNew ==
  ASSUME H!EnvHarnessAssumption, HarnessInv', history' = << >>, at' \notin UnderWay
  PROVE  H!LimitInvariant'
<1>1. leg' \in 1..Legs
  BY DEF HarnessInv, H!TypeOK
<1> QED
  BY <1>1, LimitWordsNext, NothingLimited

(* An accepted step appends what there was room for. *)
LEMMA LimitsAccept ==
  ASSUME H!EnvHarnessAssumption, HarnessInv, H!LimitInvariant, at \in UnderWay, doing.cap \in Caps,
         NEW why, H!Accept(why)
  PROVE  H!LimitInvariant'
<1>1. /\ LimitsIn(leg, history) /\ RoomFor(leg, history, doing.cap)
      /\ leg \in 1..Legs /\ history \in Seq(Caps)
  BY LimitWords, HarnessInside DEF LegTypes
<1>2. at' = "observe" /\ leg' = leg /\ history' = Append(history, doing.cap)
  BY DEF H!Accept
<1>3. LimitsIn(leg', history')
  BY <1>1, <1>2, RoomIsEnough
<1> QED
  BY <1>2, <1>3, LimitWordsNext DEF UnderWay

(* What rule n makes of capability c. *)
RuleMakes(c, n) ==
  IF c = "denied" \/ ~H!Fires(H!Rules[n], c) THEN c
  ELSE CASE H!Rules[n].effect = "deny" -> "denied"
         [] H!Rules[n].effect = "rewrite" -> H!Rules[n].to
         [] OTHER -> c

(* f is the capability after each of the first n rules. *)
RulesMake(f, n) ==
  f = [m \in 0..n |-> IF m = 0 THEN doing.cap ELSE RuleMakes(f[m - 1], m)]

(* What RulesMake says of each index. *)
LEMMA RuleValues ==
  ASSUME NEW f, NEW n \in Nat, RulesMake(f, n)
  PROVE  f[0] = doing.cap /\ \A m \in 1..n : f[m] = RuleMakes(f[m - 1], m)
  BY DEF RulesMake

(* A function with these values is such a course. *)
LEMMA RulesFromValues ==
  ASSUME NEW f, NEW n \in Nat, f = [m \in 0..n |-> f[m]], f[0] = doing.cap,
         \A m \in 1..n : f[m] = RuleMakes(f[m - 1], m)
  PROVE  RulesMake(f, n)
<1> DEFINE g == [m \in 0..n |-> IF m = 0 THEN doing.cap ELSE RuleMakes(f[m - 1], m)]
<1>1. \A m \in 0..n : f[m] = g[m]
  <2> SUFFICES ASSUME NEW m \in 0..n
               PROVE  f[m] = g[m]
    OBVIOUS
  <2>1. m = 0 \/ m \in 1..n
    OBVIOUS
  <2> QED
    BY <2>1
<1>2. f = g
  BY <1>1
<1> QED
  BY <1>2 DEF RulesMake

(* The rules can be asked one after the other, however many there are. *)
LEMMA RulesCanBeAsked ==
  \A n \in Nat : \E f : RulesMake(f, n)
<1> DEFINE S == {n \in Nat : \E f : RulesMake(f, n)}
<1>1. 0 \in S
  <2> DEFINE f == [m \in 0..0 |-> doing.cap]
  <2>1. f = [m \in 0..0 |-> f[m]] /\ f[0] = doing.cap
    OBVIOUS
  <2>2. \A m \in 1..0 : f[m] = RuleMakes(f[m - 1], m)
    OBVIOUS
  <2> HIDE DEF f
  <2>3. RulesMake(f, 0)
    BY <2>1, <2>2, RulesFromValues
  <2> QED
    BY <2>3
<1>2. ASSUME NEW n \in Nat, n \in S
      PROVE  n + 1 \in S
  <2>1. PICK f : RulesMake(f, n)
    BY <1>2
  <2> DEFINE g == [m \in 0..(n + 1) |-> IF m = n + 1 THEN RuleMakes(f[n], n + 1) ELSE f[m]]
  <2>2. f[0] = doing.cap /\ \A m \in 1..n : f[m] = RuleMakes(f[m - 1], m)
    BY <2>1, RuleValues
  <2>3. g = [m \in 0..(n + 1) |-> g[m]] /\ \A m \in 0..n : g[m] = f[m]
    OBVIOUS
  <2>4. g[n + 1] = RuleMakes(f[n], n + 1)
    OBVIOUS
  <2> HIDE DEF g
  <2>5. \A m \in 1..(n + 1) : g[m] = RuleMakes(g[m - 1], m)
    <3> SUFFICES ASSUME NEW m \in 1..(n + 1)
                 PROVE  g[m] = RuleMakes(g[m - 1], m)
      OBVIOUS
    <3>1. CASE m = n + 1
      <4>1. m - 1 = n /\ g[n] = f[n]
        BY <2>3, <3>1
      <4> QED
        BY <2>4, <3>1, <4>1
    <3>2. CASE m \in 1..n
      <4>1. m - 1 \in 0..n /\ m \in 0..n
        BY <3>2
      <4> QED
        BY <2>2, <2>3, <3>2, <4>1
    <3> QED
      BY <3>1, <3>2
  <2>6. g[0] = doing.cap /\ n + 1 \in Nat
    <3>1. 0 \in 0..n
      OBVIOUS
    <3>2. g[0] = f[0] /\ f[0] = doing.cap
      BY <2>2, <2>3, <3>1
    <3> QED
      BY <3>2
  <2>7. RulesMake(g, n + 1)
    BY <2>3, <2>5, <2>6, RulesFromValues
  <2> QED
    BY <2>7
<1>3. \A n \in Nat : n \in S => n + 1 \in S
  BY <1>2
<1> HIDE DEF S
<1>4. Nat \subseteq S
  BY <1>1, <1>3, NatSets
<1> QED
  BY <1>4 DEF S

(* Ruled is what the last of them makes. *)
LEMMA RuledIsTheEnd ==
  ASSUME Len(H!Rules) \in Nat
  PROVE  \E f : RulesMake(f, Len(H!Rules)) /\ H!Ruled = f[Len(H!Rules)]
<1> DEFINE c == CHOOSE f : RulesMake(f, Len(H!Rules))
<1>1. RulesMake(c, Len(H!Rules))
  BY RulesCanBeAsked
<1>2. H!Ruled = c[Len(H!Rules)]
  BY DEF H!Ruled, RulesMake, RuleMakes
<1> QED
  BY <1>1, <1>2

(* What one rule makes is the capability, a refusal, or a rewrite's.       *)
LEMMA RuleOutcomes ==
  ASSUME NEW c, NEW n
  PROVE  /\ H!Rules[n].effect = "deny" /\ H!Fires(H!Rules[n], c) => RuleMakes(c, n) = "denied"
         /\ \/ RuleMakes(c, n) = c
            \/ RuleMakes(c, n) = "denied"
            \/ RuleMakes(c, n) = H!Rules[n].to /\ H!Rules[n].effect = "rewrite"
<1>1. H!Rules[n].effect = "deny" => H!Rules[n].effect # "rewrite"
  OBVIOUS
<1> QED
  BY <1>1 DEF RuleMakes

(* The capability that is let through has room below its limits: the       *)
(* denials behind the last rewrite were asked about it.                    *)
LEMMA RuledHasRoom ==
  ASSUME H!EnvHarnessAssumption, H!LimitsFollowRewrites, HarnessInv, H!LimitInvariant,
         H!Ruled # "denied"
  PROVE  RoomFor(leg, history, H!Ruled)
<1>1. leg \in 1..Legs /\ history \in Seq(Caps)
  BY HarnessInside DEF LegTypes
<1>2. /\ Len(H!Rules) \in Nat /\ DOMAIN H!Rules = 1..Len(H!Rules)
      /\ \A n \in 1..Len(H!Rules) : H!Rules[n].limit \in Nat
  BY <1>1, Limits DEF H!Rules
<1>3. \A n, k \in 1..Len(H!Rules) :
        H!Limiting(H!Rules[n]) /\ H!Rules[k].effect = "rewrite" /\ H!Rules[k].to = H!Rules[n].cap
          => k < n
  BY <1>1, <1>2 DEF H!LimitsFollowRewrites, H!Rules
<1>4. PICK f : RulesMake(f, Len(H!Rules)) /\ H!Ruled = f[Len(H!Rules)]
  BY <1>2, RuledIsTheEnd
<1> DEFINE Let(m) == \/ f[m] = "denied"
                     \/ \A n \in 1..m : H!Limiting(H!Rules[n]) /\ H!Rules[n].cap = f[m] =>
                          RunOf(history, f[m]) < H!Rules[n].limit
<1> DEFINE S == {m \in Nat : m <= Len(H!Rules) => Let(m)}
<1>5. 0 \in S
  <2>1. \A n \in 1..0 : FALSE
    OBVIOUS
  <2> QED
    BY <2>1
<1>6. ASSUME NEW m \in Nat, m \in S
      PROVE  m + 1 \in S
  <2>1. SUFFICES ASSUME m + 1 <= Len(H!Rules), f[m + 1] # "denied",
                        NEW n \in 1..(m + 1), H!Limiting(H!Rules[n]), H!Rules[n].cap = f[m + 1]
                 PROVE  RunOf(history, f[m + 1]) < H!Rules[n].limit
    BY DEF S, Let
  <2>2. /\ m <= Len(H!Rules) /\ m + 1 \in 1..Len(H!Rules) /\ n \in 1..Len(H!Rules)
        /\ (m + 1) - 1 = m
        /\ n \in 1..m \/ n = m + 1
    <3>1. PICK k : k = Len(H!Rules)
      OBVIOUS
    <3>2. m \in Nat /\ k \in Nat /\ m + 1 <= k /\ n \in 1..(m + 1)
      BY <1>2, <1>6, <2>1, <3>1
    <3>3. /\ m <= k /\ m + 1 \in 1..k /\ n \in 1..k /\ (m + 1) - 1 = m
          /\ n \in 1..m \/ n = m + 1
      BY <3>2
    <3> QED BY <3>1, <3>3
  <2>3. f[m + 1] = RuleMakes(f[m], m + 1)
    BY <1>2, <1>4, <2>2, RuleValues
  <2>4. f[m] # "denied"
    BY <2>1, <2>3 DEF RuleMakes
  <2>5. ~(H!Rules[m + 1].effect = "rewrite" /\ f[m + 1] = H!Rules[m + 1].to)
    <3>1. SUFFICES ASSUME H!Rules[m + 1].effect = "rewrite", f[m + 1] = H!Rules[m + 1].to
                   PROVE  FALSE
      OBVIOUS
    <3>2. m + 1 < n
      BY <1>3, <2>1, <2>2, <3>1
    <3> QED
      BY <2>2, <3>2
  <2>6. f[m + 1] = f[m]
    BY <2>1, <2>3, <2>5, RuleOutcomes
  <2>7. CASE n \in 1..m
    BY <1>6, <2>1, <2>2, <2>4, <2>6, <2>7
  <2>8. CASE n = m + 1
    <3>1. ~H!Fires(H!Rules[n], f[m])
      BY <2>1, <2>3, <2>8, RuleOutcomes DEF H!Limiting
    <3>2. ~(H!Consecutive(f[m]) >= H!Rules[n].limit)
      BY <2>1, <2>6, <3>1 DEF H!Fires, H!Limiting
    <3>3. H!Consecutive(f[m]) = RunOf(history, f[m]) /\ RunOf(history, f[m]) \in Nat
      BY <1>1, ConsecutiveIsTheRun, HarnessRunTypes
    <3> QED
      BY <1>2, <2>2, <2>6, <3>2, <3>3
  <2> QED
    BY <2>2, <2>7, <2>8
<1>7. \A m \in Nat : m \in S => m + 1 \in S
  BY <1>6
<1> HIDE DEF S
<1>8. Nat \subseteq S
  BY <1>5, <1>7, NatSets
<1>9. Let(Len(H!Rules))
  BY <1>2, <1>8 DEF S
<1> HIDE DEF Let
<1>10. \A n \in 1..Len(H!Rules) : H!Limiting(H!Rules[n]) /\ H!Rules[n].cap = H!Ruled =>
          RunOf(history, H!Ruled) < H!Rules[n].limit
  BY <1>4, <1>9 DEF Let
<1> QED
  BY <1>2, <1>10 DEF RoomFor, H!Rules

(* Admit lets through what the rules made of the action. *)
LEMMA AdmitLimits ==
  ASSUME H!EnvHarnessAssumption, H!LimitsFollowRewrites, HarnessInv, H!LimitInvariant, H!Admit
  PROVE  H!LimitInvariant'
<1>1. UNCHANGED <<leg, history>>
  BY DEF H!Admit, H!sessionVars, H!ghosts
<1>2. PICK c : c = H!Ruled
  OBVIOUS
<1>3. CASE at' \notin UnderWay
  BY <1>1, <1>3, LimitsFrame
<1>4. CASE at' \in UnderWay
  <2>1. doing' = [doing EXCEPT !.cap = c] /\ c # "denied" /\ H!IsAction(doing)
    BY <1>2, <1>4, HarnessInside DEF H!Admit, H!Refuse, UnderWay, LocalTypes
  <2>2. doing'.cap = c
    BY <2>1 DEF H!IsAction
  <2>3. RoomFor(leg, history, c) /\ LimitsIn(leg, history)
    BY <1>2, <2>1, RuledHasRoom, LimitWords
  <2> QED
    BY <1>1, <2>2, <2>3, LimitWordsNext
<1> QED
  BY <1>3, <1>4

(* What an action may do about the history. *)
LimitStep ==
  \/ UNCHANGED <<leg, history>> /\ at' \notin UnderWay
  \/ UNCHANGED <<leg, history, doing>> /\ at \in UnderWay
  \/ history' = << >> /\ at' \notin UnderWay
  \/ at \in UnderWay /\ doing.cap \in Caps /\ \E why : H!Accept(why)
  \/ H!Admit

(* Calls that begin. *)
LEMMA BeginLimits ==
  ASSUME H!EnvHarnessAssumption, HarnessInv,
         H!ChainReset \/ H!SessionReset \/ H!Close \/ H!Advance \/ (\E a \in Actions : H!Step(a))
  PROVE  LimitStep
<1>1. at' \in {"teardown", "materialize", "judge", "admit"}
  BY DEF H!ChainReset, H!SessionReset, H!Close, H!Advance, H!Step, H!Begin
<1>2. UNCHANGED <<leg, history>> \/ history' = << >>
  BY DEF H!ChainReset, H!SessionReset, H!Close, H!Advance, H!Step, H!NewSession, H!sessionVars,
       H!ghosts
<1> QED
  BY <1>1, <1>2 DEF LimitStep, UnderWay

(* Calls that reset, tear down and judge. *)
LEMMA SessionLimits ==
  ASSUME H!EnvHarnessAssumption, HarnessInv,
         H!Teardown \/ H!Materialize \/ H!MaterializeRaises \/ H!Cleanup \/ H!Judge
           \/ H!Interrupted
  PROVE  LimitStep
<1>1. CASE H!Teardown
  <2>1. \/ H!AfterTeardown
        \/ H!AfterFailedTeardown
    BY <1>1 DEF H!Teardown
  <2>2. at' \in {"idle", "materialize"}
    BY <2>1, Zenon DEF H!AfterTeardown, H!AfterFailedTeardown, H!Await, H!Return, H!Raise
  <2>3. UNCHANGED <<leg, history>> \/ history' = << >>
    BY <2>1, Zenon DEF H!AfterTeardown, H!AfterFailedTeardown, H!NewSession, H!sessionVars,
       H!ghosts
  <2> QED
    BY <2>2, <2>3 DEF LimitStep, UnderWay
<1>2. CASE H!Materialize
  <2>1. at' \in {"idle", "baseline", "unstage"} /\ (UNCHANGED <<leg,
       history>> \/ history' = << >>)
    BY <1>2 DEF H!Materialize, H!Await, H!Return
  <2> QED
    BY <2>1 DEF LimitStep, UnderWay
<1>3. CASE H!Cleanup \/ H!Judge \/ H!Interrupted \/ H!MaterializeRaises
  <2>1. at' \in {"idle", "teardown"} /\ UNCHANGED <<leg, history>>
    BY <1>3 DEF H!Cleanup, H!Judge, H!Interrupted, H!MaterializeRaises, H!Await, H!Return,
       H!Raise, H!sessionVars
  <2> QED
    BY <2>1 DEF LimitStep, UnderWay
<1> QED
  BY <1>1, <1>2, <1>3

(* Staging leaves the history alone. *)
LEMMA StageLimits ==
  ASSUME H!EnvHarnessAssumption, HarnessInv,
         H!Baseline \/ H!StageAct \/ H!StageVerify \/ H!StageRollback
  PROVE  LimitStep
<1>1. UNCHANGED <<leg, history>>
  BY DEF H!Baseline, H!StageAct, H!StageVerify, H!StageRollback, H!sessionVars, H!ghosts
<1>2. at' \in {"idle", "stage", "staged", "unstage"}
  <2>1. CASE H!StageAct
    BY <2>1, Zenon DEF H!StageAct, H!StageFrom, H!Await, H!Return, H!Raise
  <2>2. CASE H!Baseline \/ H!StageVerify \/ H!StageRollback
    BY <2>2 DEF H!Baseline, H!StageVerify, H!StageRollback, H!StageFrom, H!Restored, H!Await,
         H!Return
  <2> QED
    BY <2>1, <2>2
<1> QED
  BY <1>1, <1>2 DEF LimitStep, UnderWay

(* The awaits of a step. *)
LEMMA StepLimits ==
  ASSUME H!EnvHarnessAssumption, HarnessInv,
         H!Read \/ H!Checkpoint \/ H!Act \/ H!VerifyStep \/ H!StepRollback \/ H!Observe
  PROVE  LimitStep
<1>1. Reads \subseteq Caps
  BY DEF H!EnvHarnessAssumption
<1>2. CASE H!Read
  <2>1. at \in UnderWay /\ doing.cap \in Caps /\ UNCHANGED doing
    BY <1>1, <1>2, HarnessInside DEF H!Read, H!CallsAreInPlace, UnderWay, H!localVars, H!ghosts
  <2>2. UNCHANGED <<leg, history>> \/ \E why : H!Accept(why)
    BY <1>2 DEF H!Read, H!sessionVars, H!ghosts
  <2> QED
    BY <2>1, <2>2 DEF LimitStep
<1>3. CASE H!Checkpoint
  BY <1>3 DEF H!Checkpoint, LimitStep, UnderWay, H!sessionVars, H!ghosts
<1>4. CASE H!Act
  <2>1. at \in UnderWay /\ doing.cap \in Caps /\ UNCHANGED doing
    BY <1>1, <1>4, HarnessInside DEF H!Act, H!CallsAreInPlace, UnderWay, H!localVars, H!ghosts
  <2>2. UNCHANGED <<leg, history>> \/ \E why : H!Accept(why)
    BY <1>4, Zenon DEF H!Act, H!sessionVars, H!ghosts
  <2> QED
    BY <2>1, <2>2 DEF LimitStep
<1>5. CASE H!VerifyStep
  <2>1. at \in UnderWay /\ doing.cap \in Caps /\ UNCHANGED doing
    BY <1>1, <1>5, HarnessInside DEF H!VerifyStep, H!CallsAreInPlace, UnderWay, H!localVars,
       H!ghosts
  <2>2. UNCHANGED <<leg, history>> \/ \E why : H!Accept(why)
    BY <1>5 DEF H!VerifyStep, H!sessionVars, H!ghosts
  <2> QED
    BY <2>1, <2>2 DEF LimitStep
<1>6. CASE H!StepRollback \/ H!Observe
  <2>1. at' \in {"idle", "observe"} /\ UNCHANGED <<leg, history>>
    BY <1>6 DEF H!StepRollback, H!Observe, H!Refuse, H!Return, H!Raise, H!sessionVars, H!ghosts
  <2> QED
    BY <2>1 DEF LimitStep, UnderWay
<1> QED
  BY <1>2, <1>3, <1>4, <1>5, <1>6

(* Every step keeps the limits. *)
LEMMA LimitNext ==
  ASSUME H!EnvHarnessAssumption, H!LimitsFollowRewrites, HarnessInv,
         H!PendingInvariant, H!LimitInvariant, [H!Next]_H!vars
  PROVE  H!LimitInvariant'
<1>1. CASE UNCHANGED H!vars
  <2>1. UNCHANGED <<leg, history, at, doing>>
    BY <1>1 DEF H!vars, H!sessionVars, H!localVars, H!ghosts
  <2> QED
    BY <2>1, LimitsFrame
<1>2. CASE H!Next
  <2>1. LimitStep
    <3>1. CASE H!LateEffect
      BY <3>1 DEF H!LateEffect, LimitStep, H!sessionVars, H!localVars
    <3>2. CASE H!HarnessStep
      BY <3>2, BeginLimits, SessionLimits, StageLimits, StepLimits DEF H!HarnessStep, LimitStep
    <3> QED BY <1>2, <3>1, <3>2 DEF H!Next
  <2>2. HarnessInv'
    BY <1>2, HarnessStep
  <2> QED
    BY <2>1, <2>2, LimitsFrame, LimitsOfTheNew, LimitsAccept, AdmitLimits DEF LimitStep
<1> QED
  BY <1>1, <1>2

(* No history, no runs. *)
LEMMA LimitInit ==
  ASSUME H!EnvHarnessAssumption, H!Init
  PROVE  H!LimitInvariant
<1>1. leg \in 1..Legs /\ history = << >> /\ at \notin UnderWay
  BY DEF H!Init, H!EnvHarnessAssumption, UnderWay
<1> QED
  BY <1>1, NothingLimited, LimitWords

-----------------------------------------------------------------------------
(* Theorems *)

(* The invariants that hold for every harness. *)
HarnessSafe == HarnessInv /\ H!PendingInvariant /\ H!HistoryInvariant

(* Types, calls, episodes, checkpoints, stages, legs, outstanding effects  *)
(* and the history agree after every step, whatever the harness says,      *)
(* whatever fault the kernel shows and whenever a late effect lands.       *)
THEOREM HarnessSafety ==
  ASSUME H!EnvHarnessAssumption
  PROVE  H!Spec => [](/\ H!TypeOK /\ H!HarnessInvariant
                      /\ H!PendingInvariant /\ H!HistoryInvariant)
<1>1. H!Init => HarnessSafe
  BY HarnessInit, PendingInit, HistoryInit DEF HarnessSafe
<1>2. HarnessSafe /\ [H!Next]_H!vars => HarnessSafe'
  BY HarnessStep, PendingNext, HistoryNext DEF HarnessSafe
<1>3. HarnessSafe => /\ H!TypeOK /\ H!HarnessInvariant
                     /\ H!PendingInvariant /\ H!HistoryInvariant
  BY DEF HarnessSafe, HarnessInv
<1> QED BY <1>1, <1>2, <1>3, PTL DEF H!Spec

(* No episode is left behind in the kernel: teardowns, cleanups and        *)
(* materializations that fail keep the session's name for what lives, but  *)
(* for the episodes of which materialize() registered one and then raised. *)
THEOREM EpisodeSafety ==
  ASSUME H!EnvHarnessAssumption
  PROVE  H!Spec => []H!NoEpisodeIsLost
<1>1. H!HarnessInvariant => H!NoEpisodeIsLost
  BY DEF H!HarnessInvariant, H!EpisodesAreKnown
<1> QED BY <1>1, HarnessSafety, PTL

(* No stage action runs before the preflight of _admit_harness has         *)
(* accepted every one of them.                                             *)
THEOREM PreflightSafety ==
  ASSUME H!EnvHarnessAssumption
  PROVE  H!Spec => []H!PreflightPrecedesStage
<1>1. H!HarnessInvariant => H!PreflightPrecedesStage
  BY DEF H!HarnessInvariant, H!StageIsAdmitted, H!PreflightPrecedesStage, H!Admissible, H!Stage
<1> QED BY <1>1, HarnessSafety, PTL

(* A step that reports a failed postcondition left the world as the step   *)
(* found it, rewritten or not, read or act, but for the effects of earlier *)
(* acts that timed out; and no refused step is in the history.             *)
THEOREM PostconditionSafety ==
  ASSUME H!EnvHarnessAssumption
  PROVE  H!Spec => []H!FailedPostconditionsLeaveNoTrace
<1>1. H!HarnessInvariant /\ H!HistoryInvariant => H!FailedPostconditionsLeaveNoTrace
  BY DEF H!HarnessInvariant, H!CheckpointsAreOfTheStart, H!HistoryInvariant,
     H!FailedPostconditionsLeaveNoTrace
<1> QED BY <1>1, HarnessSafety, PTL

(* ChainSession.advance reports completion only when every leg has been    *)
(* verified since the chain was reset, also when legs were restarted or    *)
(* their teardown failed.                                                  *)
THEOREM CompletionSafety ==
  ASSUME H!EnvHarnessAssumption
  PROVE  H!Spec => []H!ReportedCompletionIsEarned
<1>1. H!HarnessInvariant => H!ReportedCompletionIsEarned
  BY DEF H!HarnessInvariant, H!LegsAreVerified
<1> QED BY <1>1, HarnessSafety, PTL

(* An accepted reset applied every stage action to the fresh world, and    *)
(* one that reports a rollback left it fresh, unless the stage action that *)
(* failed had timed out and its effect has landed since; for every stage   *)
(* without a repeated idempotency key (HarnessAction makes up keys by      *)
(* default).                                                               *)
THEOREM ResetSafety ==
  ASSUME H!EnvHarnessAssumption, H!StageKeysDiffer
  PROVE  H!Spec => []H!ResetIsAllOrNothing
<1>1. H!Init => H!StageInvariant
  BY DEF H!Init, H!Nothing, H!None, H!StageInvariant
<1>2. /\ H!TypeOK /\ H!HarnessInvariant /\ H!PendingInvariant /\ H!StageInvariant
      /\ [H!Next]_H!vars
      => H!StageInvariant'
  BY StageNext DEF HarnessInv
<1>3. H!PendingInvariant /\ H!StageInvariant => H!ResetIsAllOrNothing
  BY DEF H!PendingInvariant, H!StageInvariant, H!ResetIsAllOrNothing
<1> QED BY <1>1, <1>2, <1>3, HarnessSafety, PTL DEF H!Spec

(* A denial with max_consecutive bounds the runs of its capability in the  *)
(* history of accepted steps, however rewrites led to it, when the denials *)
(* stand behind the rewrites: admit asks no rule twice.                    *)
THEOREM LimitSafety ==
  ASSUME H!EnvHarnessAssumption, H!LimitsFollowRewrites
  PROVE  H!Spec => []H!LimitsHold
<1>1. H!Init => H!LimitInvariant
  BY LimitInit
<1>2. /\ H!TypeOK /\ H!HarnessInvariant /\ H!PendingInvariant /\ H!LimitInvariant
      /\ [H!Next]_H!vars
      => H!LimitInvariant'
  BY LimitNext DEF HarnessInv
<1>3. H!LimitInvariant => H!LimitsHold
  BY DEF H!LimitInvariant
<1> QED BY <1>1, <1>2, <1>3, HarnessSafety, PTL DEF H!Spec

(* What a transaction of the harness rests on: the invariants, and, for     *)
(* stages that repeat no key and limits behind the rewrites, what is staged *)
(* and what the limits leave room for.                                      *)
HarnessTransaction == HarnessSafe /\ H!StageInvariant /\ H!LimitInvariant

(* It holds before the first call. *)
LEMMA TransactionInit ==
  ASSUME H!EnvHarnessAssumption, H!StageKeysDiffer, H!LimitsFollowRewrites, H!Init
  PROVE  HarnessTransaction
<1>1. H!StageInvariant
  BY DEF H!Init, H!Nothing, H!None, H!StageInvariant
<1> QED
  BY <1>1, HarnessInit, PendingInit, HistoryInit, LimitInit DEF HarnessTransaction, HarnessSafe

(* Every step keeps it. *)
LEMMA TransactionStep ==
  ASSUME H!EnvHarnessAssumption, H!StageKeysDiffer, H!LimitsFollowRewrites,
         HarnessTransaction, [H!Next]_H!vars
  PROVE  HarnessTransaction'
  BY HarnessStep, PendingNext, HistoryNext, StageNext, LimitNext
     DEF HarnessTransaction, HarnessSafe

(* It makes up what the harness promises. *)
LEMMA TransactionClaims ==
  ASSUME HarnessTransaction
  PROVE  H!HarnessIsTransactional
<1>1. /\ H!TypeOK /\ H!HarnessInvariant /\ H!PendingInvariant /\ H!HistoryInvariant
      /\ H!StageInvariant /\ H!LimitInvariant
  BY DEF HarnessTransaction, HarnessSafe, HarnessInv
<1>2. H!NoEpisodeIsLost /\ H!ReportedCompletionIsEarned /\ H!LimitsHold
  BY <1>1 DEF H!HarnessInvariant, H!EpisodesAreKnown, H!LegsAreVerified, H!LimitInvariant
<1>3. H!PreflightPrecedesStage
  BY <1>1 DEF H!HarnessInvariant, H!StageIsAdmitted, H!PreflightPrecedesStage, H!Admissible,
     H!Stage
<1>4. H!ResetIsAllOrNothing
  BY <1>1 DEF H!PendingInvariant, H!StageInvariant, H!ResetIsAllOrNothing
<1>5. H!FailedPostconditionsLeaveNoTrace
  BY <1>1 DEF H!HarnessInvariant, H!CheckpointsAreOfTheStart, H!HistoryInvariant,
     H!FailedPostconditionsLeaveNoTrace
<1> QED
  BY <1>1, <1>2, <1>3, <1>4, <1>5 DEF H!HarnessIsTransactional

(* All that the harness promises about its transaction, together with the  *)
(* invariants it rests on.                                                 *)
THEOREM TransactionSafety ==
  ASSUME H!EnvHarnessAssumption, H!StageKeysDiffer, H!LimitsFollowRewrites
  PROVE  H!Spec => []H!HarnessIsTransactional
<1>1. H!Init => HarnessTransaction
  BY TransactionInit
<1>2. HarnessTransaction /\ [H!Next]_H!vars => HarnessTransaction'
  BY TransactionStep
<1>3. HarnessTransaction => H!HarnessIsTransactional
  BY TransactionClaims
<1> QED BY <1>1, <1>2, <1>3, PTL DEF H!Spec
=============================================================================
