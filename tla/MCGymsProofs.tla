--------------------------- MODULE MCGymsProofs ------------------------------
(***************************************************************************)
(* What the run of MCGyms checks of its situations follows from GymProofs, *)
(* which holds for every situation: the invariant of the gym a behaviour   *)
(* is about holds initially and is kept by its steps, and the other gyms   *)
(* do not move.  SREGym's is stated of every behaviour.  Left to TLC are   *)
(* the types, quotas and pages of WorldsAreConsistent, and liveness.       *)
(***************************************************************************)
EXTENDS MCGyms, TLAPS

-----------------------------------------------------------------------------
(* The invariant, gym by gym. *)

SregymHolds == First!LifeInvariant /\ First!CallInvariant

TerraformHolds ==
  /\ gym = "terraform_shared" => First!TfInvariant
  /\ gym = "terraform_own" => Second!StatesAreOwn

PodsHold ==
  /\ gym = "pod_slow" => First!PodInvariant /\ First!PodAnswerIsReal
  /\ gym = "pod_out" => Second!PodInvariant /\ Second!PodAnswerIsReal

GcpHolds ==
  /\ gym = "gcp_long" => First!GcpInvariant
  /\ gym = "gcp_direct" => Second!GcpInvariant

CodebasesHold ==
  /\ gym = "codebase_reset" => First!CodeInvariant
  /\ gym = "codebase_gone" => Second!CodeInvariant
  /\ gym = "codebase_linked" => Third!CodeInvariant

DependencyHolds == gym = "dependency_shared" => First!D!WorldInvariant

SweGymHolds ==
  /\ gym = "swegym_grades" => First!GradesInvariant /\ First!DeathsAreNoticed
  /\ gym = "swegym_ends" => /\ Second!GradesInvariant /\ Second!DeathsAreNoticed
                            /\ Second!ContainersInvariant

LocalsHold ==
  /\ gym = "local_files" => First!LocalInvariant
  /\ gym = "local_git" => Second!LocalInvariant
  /\ gym = "local_table" => Third!LocalInvariant

GymsInvariant ==
  /\ SregymHolds /\ TerraformHolds /\ PodsHold /\ GcpHolds
  /\ CodebasesHold /\ DependencyHolds /\ SweGymHolds /\ LocalsHold

-----------------------------------------------------------------------------
(* The assumptions of the theorems on these constants, beyond the named    *)
(* ones.                                                                   *)
LEMMA Situated ==
  /\ None \notin Envs2
  /\ \A e, o \in Envs2 : Own[e] = Own[o] => e = o
  /\ First!CustomIsDirect
<1>1. \A m \in Operations : m.effect # "CUSTOM"
  BY DEF Operations, Method
<1>2. First!CustomIsDirect
  BY <1>1 DEF First!CustomIsDirect
<1> QED
  BY <1>2, GymAssumption DEF Own

(* The gym of a behaviour begins in its invariant. *)
LEMMA GymsInit ==
  ASSUME Init
  PROVE  GymsInvariant
<1>1. SregymHolds
  <2>1. First!S!Init
    BY DEF Init
  <2> QED
    BY <2>1, GymAssumption, First!LifeInit, First!CallInit DEF SregymHolds
<1>2. TerraformHolds
  <2>1. gym = "terraform_shared" => First!T!Init
    BY DEF Init
  <2>2. gym = "terraform_own" => Second!T!Init
    BY DEF Init
  <2> QED
    BY <2>1, <2>2, First!TfInit, Second!OwnInit DEF TerraformHolds
<1>3. PodsHold
  <2>1. Second!P!Init
    BY DEF Init
  <2>2. First!P!Init
    BY <2>1 DEF First!P!Init, Second!P!Init, First!P!NoCodes, Second!P!NoCodes,
       First!P!NoAnswer, Second!P!NoAnswer
  <2> QED
    BY <2>1, <2>2, GymAssumption, First!PodInit, Second!PodInit, First!PodAnswersInit,
       Second!PodAnswersInit DEF PodsHold
<1>4. GcpHolds
  <2>1. gym = "gcp_long" => First!G!Init
    BY DEF Init
  <2>2. gym = "gcp_direct" => Second!G!Init
    BY DEF Init
  <2> QED
    BY <2>1, <2>2, First!GcpInit, Second!GcpInit DEF GcpHolds
<1>5. CodebasesHold
  <2>1. gym = "codebase_linked" => Third!C!Init
    BY DEF Init
  <2>2. gym # "codebase_linked" => Second!C!Init
    BY DEF Init
  <2>3. gym # "codebase_linked" => First!C!Init
    BY <2>2 DEF First!C!Init, Second!C!Init, First!C!SourceSha, Second!C!SourceSha,
       First!C!NoEnv, Second!C!NoEnv, First!C!NoAnswer, Second!C!NoAnswer
  <2> QED
    BY <2>1, <2>2, <2>3, GymAssumption, First!CodeInit, Second!CodeInit, Third!CodeInit
       DEF CodebasesHold
<1>6. DependencyHolds
  <2>1. gym = "dependency_shared" => First!D!Init
    BY DEF Init
  <2> QED
    BY <2>1, GymAssumption, First!WorldBegins DEF DependencyHolds
<1>7. SweGymHolds
  <2>1. Second!E!Init
    BY DEF Init
  <2>2. First!E!Init
    BY <2>1 DEF First!E!Init, Second!E!Init
  <2> QED
    BY <2>1, <2>2, First!GradesInit, First!DeathsInit, Second!GradesInit, Second!DeathsInit,
       Second!ContainersInit DEF SweGymHolds
<1>8. LocalsHold
  <2>1. First!L!Init
    BY DEF Init
  <2>2. Second!L!Init /\ Third!L!Init
    BY <2>1 DEF First!L!Init, Second!L!Init, Third!L!Init, First!L!Nothing,
       Second!L!Nothing, Third!L!Nothing
  <2> QED
    BY <2>1, <2>2, First!LocalInit, Second!LocalInit, Third!LocalInit DEF LocalsHold
<1> QED
  BY <1>1, <1>2, <1>3, <1>4, <1>5, <1>6, <1>7, <1>8 DEF GymsInvariant

(* A step of a behaviour is one of its gym, or leaves its gym alone; and   *)
(* it stays the behaviour's gym.  SREGym, in every behaviour:              *)
LEMMA SregymMoves ==
  ASSUME [Next]_vars
  PROVE  [First!S!Next]_First!S!vars
<1>1. CASE gym = "sregym"
  BY <1>1 DEF Next, vars, sregym, First!S!vars, First!S!procVars, First!S!lifeVars,
     First!S!callVars
<1>2. CASE gym # "sregym"
  BY <1>2 DEF Next, vars, sregym, First!S!vars, First!S!procVars, First!S!lifeVars,
     First!S!callVars
<1> QED
  BY <1>1, <1>2

(* ... and terraform. *)
LEMMA TerraformMoves ==
  ASSUME [Next]_vars
  PROVE  /\ gym' = gym
         /\ gym = "terraform_shared" => [First!T!Next]_First!T!vars
         /\ gym = "terraform_own" => [Second!T!Next]_Second!T!vars
<1>1. gym' = gym
  BY DEF Next, vars
<1>2. gym = "terraform_shared" => [First!T!Next]_First!T!vars
  BY DEF Next, vars, terraform, First!T!vars
<1>3. gym = "terraform_own" => [Second!T!Next]_Second!T!vars
  BY DEF Next, vars, terraform, Second!T!vars
<1> QED
  BY <1>1, <1>2, <1>3

(* ... and the Kubernetes gym. *)
LEMMA PodsMoves ==
  ASSUME [Next]_vars
  PROVE  /\ gym' = gym
         /\ gym = "pod_slow" => [First!P!Next]_First!P!vars
         /\ gym = "pod_out" => [Second!P!Next]_Second!P!vars
<1>1. gym' = gym
  BY DEF Next, vars
<1>2. gym = "pod_slow" => [First!P!Next]_First!P!vars
  BY DEF Next, vars, kubernetes, First!P!vars
<1>3. gym = "pod_out" => [Second!P!Next]_Second!P!vars
  BY DEF Next, vars, kubernetes, Second!P!vars
<1> QED
  BY <1>1, <1>2, <1>3

(* ... and the GCP simulator. *)
LEMMA GcpMoves ==
  ASSUME [Next]_vars
  PROVE  /\ gym' = gym
         /\ gym = "gcp_long" => [First!G!Next]_First!G!vars
         /\ gym = "gcp_direct" => [Second!G!Next]_Second!G!vars
<1>1. gym' = gym
  BY DEF Next, vars
<1>2. gym = "gcp_long" => [First!G!Next]_First!G!vars
  BY DEF Next, vars, gcp, First!G!vars
<1>3. gym = "gcp_direct" => [Second!G!Next]_Second!G!vars
  BY DEF Next, vars, gcp, Second!G!vars
<1> QED
  BY <1>1, <1>2, <1>3

(* ... and codebases. *)
LEMMA CodebasesMoves ==
  ASSUME [Next]_vars
  PROVE  /\ gym' = gym
         /\ gym = "codebase_reset" => [First!C!Next]_First!C!vars
         /\ gym = "codebase_gone" => [Second!C!Next]_Second!C!vars
         /\ gym = "codebase_linked" => [Third!C!Next]_Third!C!vars
<1>1. gym' = gym
  BY DEF Next, vars
<1>2. gym = "codebase_reset" => [First!C!Next]_First!C!vars
  BY DEF Next, vars, codebase, First!C!vars
<1>3. gym = "codebase_gone" => [Second!C!Next]_Second!C!vars
  BY DEF Next, vars, codebase, Second!C!vars
<1>4. gym = "codebase_linked" => [Third!C!Next]_Third!C!vars
  BY DEF Next, vars, codebase, Third!C!vars
<1> QED
  BY <1>1, <1>2, <1>3, <1>4

(* ... and dependency worlds. *)
LEMMA DependencyMoves ==
  ASSUME [Next]_vars
  PROVE  /\ gym' = gym
         /\ gym = "dependency_shared" => [First!D!Next]_First!D!vars
<1>1. gym' = gym
  BY DEF Next, vars
<1>2. gym = "dependency_shared" => [First!D!Next]_First!D!vars
  BY DEF Next, vars, dependency, First!D!vars
<1> QED
  BY <1>1, <1>2

(* ... and SWE-Gym. *)
LEMMA SweGymMoves ==
  ASSUME [Next]_vars
  PROVE  /\ gym' = gym
         /\ gym = "swegym_grades" => [First!E!Next]_First!E!vars
         /\ gym = "swegym_ends" => [Second!E!Next]_Second!E!vars
<1>1. gym' = gym
  BY DEF Next, vars
<1>2. gym = "swegym_grades" => [First!E!Next]_First!E!vars
  BY DEF Next, vars, swegym, First!E!vars, First!E!world, First!E!runs
<1>3. gym = "swegym_ends" => [Second!E!Next]_Second!E!vars
  BY DEF Next, vars, swegym, Second!E!vars, Second!E!world, Second!E!runs
<1> QED
  BY <1>1, <1>2, <1>3

(* ... and the local providers. *)
LEMMA LocalsMoves ==
  ASSUME [Next]_vars
  PROVE  /\ gym' = gym
         /\ gym = "local_files" => [First!L!Next]_First!L!vars
         /\ gym = "local_git" => [Second!L!Next]_Second!L!vars
         /\ gym = "local_table" => [Third!L!Next]_Third!L!vars
<1>1. gym' = gym
  BY DEF Next, vars
<1>2. gym = "local_files" => [First!L!Next]_First!L!vars
  BY DEF Next, vars, local, First!L!vars, First!L!git
<1>3. gym = "local_git" => [Second!L!Next]_Second!L!vars
  BY DEF Next, vars, local, Second!L!vars, Second!L!git
<1>4. gym = "local_table" => [Third!L!Next]_Third!L!vars
  BY DEF Next, vars, local, Third!L!vars, Third!L!git
<1> QED
  BY <1>1, <1>2, <1>3, <1>4

-----------------------------------------------------------------------------
(* So each invariant is kept. *)
LEMMA GymsStep ==
  ASSUME GymsInvariant, [Next]_vars
  PROVE  GymsInvariant'
<1>1. SregymHolds'
  <2>1. [First!S!Next]_First!S!vars
    BY SregymMoves
  <2>2. First!LifeInvariant'
    BY <2>1, First!LifeStep DEF GymsInvariant, SregymHolds
  <2>3. First!CallInvariant'
    BY <2>1, GymAssumption, First!CallStep DEF GymsInvariant, SregymHolds
  <2> QED
    BY <2>2, <2>3 DEF SregymHolds
<1>2. TerraformHolds'
  <2>1. gym' = gym
    BY TerraformMoves
  <2>2. gym = "terraform_shared" => First!TfInvariant'
    <3>1. gym = "terraform_shared" => [First!T!Next]_First!T!vars /\ First!TfInvariant
      BY TerraformMoves DEF GymsInvariant, TerraformHolds
    <3> QED
      BY <3>1, First!TfStep
  <2>3. gym = "terraform_own" => Second!StatesAreOwn'
    <3>1. gym = "terraform_own" => [Second!T!Next]_Second!T!vars /\ Second!StatesAreOwn
      BY TerraformMoves DEF GymsInvariant, TerraformHolds
    <3> QED
      BY <3>1, Situated, Second!StatesStayOwn
  <2> QED
    BY <2>1, <2>2, <2>3 DEF TerraformHolds
<1>3. PodsHold'
  <2>1. gym' = gym
    BY PodsMoves
  <2>2. gym = "pod_slow" => First!PodInvariant' /\ First!PodAnswerIsReal'
    <3>1. gym = "pod_slow" =>
            [First!P!Next]_First!P!vars /\ First!PodInvariant /\ First!PodAnswerIsReal
      BY PodsMoves DEF GymsInvariant, PodsHold
    <3> QED
      BY <3>1, GymAssumption, First!PodStep, First!PodAnswersStep
  <2>3. gym = "pod_out" => Second!PodInvariant' /\ Second!PodAnswerIsReal'
    <3>1. gym = "pod_out" =>
            [Second!P!Next]_Second!P!vars /\ Second!PodInvariant /\ Second!PodAnswerIsReal
      BY PodsMoves DEF GymsInvariant, PodsHold
    <3> QED
      BY <3>1, GymAssumption, Second!PodStep, Second!PodAnswersStep
  <2> QED
    BY <2>1, <2>2, <2>3 DEF PodsHold
<1>4. GcpHolds'
  <2>1. gym' = gym
    BY GcpMoves
  <2>2. gym = "gcp_long" => First!GcpInvariant'
    <3>1. gym = "gcp_long" => [First!G!Next]_First!G!vars /\ First!GcpInvariant
      BY GcpMoves DEF GymsInvariant, GcpHolds
    <3> QED
      BY <3>1, GymAssumption, First!GcpStep
  <2>3. gym = "gcp_direct" => Second!GcpInvariant'
    <3>1. gym = "gcp_direct" => [Second!G!Next]_Second!G!vars /\ Second!GcpInvariant
      BY GcpMoves DEF GymsInvariant, GcpHolds
    <3> QED
      BY <3>1, GymAssumption, Second!GcpStep
  <2> QED
    BY <2>1, <2>2, <2>3 DEF GcpHolds
<1>5. CodebasesHold'
  <2>1. gym' = gym
    BY CodebasesMoves
  <2>2. gym = "codebase_reset" => First!CodeInvariant'
    <3>1. gym = "codebase_reset" => [First!C!Next]_First!C!vars /\ First!CodeInvariant
      BY CodebasesMoves DEF GymsInvariant, CodebasesHold
    <3> QED
      BY <3>1, GymAssumption, First!CodeStep
  <2>3. gym = "codebase_gone" => Second!CodeInvariant'
    <3>1. gym = "codebase_gone" => [Second!C!Next]_Second!C!vars /\ Second!CodeInvariant
      BY CodebasesMoves DEF GymsInvariant, CodebasesHold
    <3> QED
      BY <3>1, GymAssumption, Second!CodeStep
  <2>4. gym = "codebase_linked" => Third!CodeInvariant'
    <3>1. gym = "codebase_linked" => [Third!C!Next]_Third!C!vars /\ Third!CodeInvariant
      BY CodebasesMoves DEF GymsInvariant, CodebasesHold
    <3> QED
      BY <3>1, GymAssumption, Third!CodeStep
  <2> QED
    BY <2>1, <2>2, <2>3, <2>4 DEF CodebasesHold
<1>6. DependencyHolds'
  <2>1. gym' = gym
    BY DependencyMoves
  <2>2. gym = "dependency_shared" => First!D!WorldInvariant'
    <3>1. gym = "dependency_shared" => [First!D!Next]_First!D!vars /\ First!D!WorldInvariant
      BY DependencyMoves DEF GymsInvariant, DependencyHolds
    <3> QED
      BY <3>1, GymAssumption, First!WorldStep
  <2> QED
    BY <2>1, <2>2 DEF DependencyHolds
<1>7. SweGymHolds'
  <2>1. gym' = gym
    BY SweGymMoves
  <2>2. gym = "swegym_grades" => First!GradesInvariant' /\ First!DeathsAreNoticed'
    <3>1. gym = "swegym_grades" =>
            [First!E!Next]_First!E!vars /\ First!GradesInvariant /\ First!DeathsAreNoticed
      BY SweGymMoves DEF GymsInvariant, SweGymHolds
    <3> QED
      BY <3>1, GymAssumption, First!GradesStep, First!DeathsStep
  <2>3. gym = "swegym_ends" => /\ Second!GradesInvariant' /\ Second!DeathsAreNoticed'
                               /\ Second!ContainersInvariant'
    <3>1. gym = "swegym_ends" => /\ [Second!E!Next]_Second!E!vars /\ Second!GradesInvariant
                                 /\ Second!DeathsAreNoticed /\ Second!ContainersInvariant
      BY SweGymMoves DEF GymsInvariant, SweGymHolds
    <3> QED
      BY <3>1, GymAssumption, Second!GradesStep, Second!DeathsStep, Second!ContainersStep
  <2> QED
    BY <2>1, <2>2, <2>3 DEF SweGymHolds
<1>8. LocalsHold'
  <2>1. gym' = gym
    BY LocalsMoves
  <2>2. gym = "local_files" => First!LocalInvariant'
    <3>1. gym = "local_files" => [First!L!Next]_First!L!vars /\ First!LocalInvariant
      BY LocalsMoves DEF GymsInvariant, LocalsHold
    <3> QED
      BY <3>1, GymAssumption, First!LocalStep
  <2>3. gym = "local_git" => Second!LocalInvariant'
    <3>1. gym = "local_git" => [Second!L!Next]_Second!L!vars /\ Second!LocalInvariant
      BY LocalsMoves DEF GymsInvariant, LocalsHold
    <3> QED
      BY <3>1, GymAssumption, Second!LocalStep
  <2>4. gym = "local_table" => Third!LocalInvariant'
    <3>1. gym = "local_table" => [Third!L!Next]_Third!L!vars /\ Third!LocalInvariant
      BY LocalsMoves DEF GymsInvariant, LocalsHold
    <3> QED
      BY <3>1, GymAssumption, Third!LocalStep
  <2> QED
    BY <2>1, <2>2, <2>3, <2>4 DEF LocalsHold
<1> QED
  BY <1>1, <1>2, <1>3, <1>4, <1>5, <1>6, <1>7, <1>8 DEF GymsInvariant

(* Every situation has its invariant. *)
LEMMA GymsSafety == Spec => []GymsInvariant
  BY GymsInit, GymsStep, PTL DEF Spec

-----------------------------------------------------------------------------
(* The properties of the run *)

(* What verify() answers was so in the world, in every situation, as far   *)
(* as the server behind it answered.                                       *)
THEOREM GymVerdicts == Spec => []VerdictsAreReal
<1>1. ASSUME GymsInvariant
      PROVE  VerdictsAreReal
  <2>1. First!S!VerdictsAreObserved /\ First!S!ReadyWasReachable
    BY <1>1 DEF GymsInvariant, SregymHolds, First!LifeInvariant, First!CallInvariant,
       First!S!ReadyWasReachable
  <2>2. gym = "terraform_shared" => First!T!VerdictsAreInspected
    BY <1>1 DEF GymsInvariant, TerraformHolds, First!TfInvariant
  <2>3. /\ gym = "pod_slow" => First!P!VerdictsAreReal
        /\ gym = "pod_out" => Second!P!VerdictsAreReal
    BY <1>1 DEF GymsInvariant, PodsHold, First!PodAnswerIsReal, Second!PodAnswerIsReal
  <2>4. gym = "codebase_gone" => Second!C!PassesAreWhole
    BY <1>1 DEF GymsInvariant, CodebasesHold, Second!CodeInvariant, Second!CodeAnswers
  <2>5. gym = "swegym_grades" => First!E!ResolvedIsEarned /\ First!E!PreexistingIsForgiven
    BY <1>1, GymAssumption, First!GradesClaims DEF GymsInvariant, SweGymHolds
  <2>6. gym = "swegym_ends" => Second!E!ResolvedIsEarned
    BY <1>1, GymAssumption, Second!GradesClaims DEF GymsInvariant, SweGymHolds
  <2> QED
    BY <2>1, <2>2, <2>3, <2>4, <2>5, <2>6 DEF VerdictsAreReal
<1> QED
  BY <1>1, GymsSafety, PTL

(* Teardowns that return have let go, but for children of SREGym that were *)
(* never sent SIGKILL, and restores that return left what the checkpoint   *)
(* held, in every situation.                                               *)
THEOREM GymEnds == Spec => []EndsAndRestoresAreHonest
<1>1. ASSUME GymsInvariant
      PROVE  EndsAndRestoresAreHonest
  <2>1. First!S!NothingIsHeld /\ First!S!SurvivorsOutliveTheSignal
    BY <1>1 DEF GymsInvariant, SregymHolds, First!LifeInvariant, First!ChildrenAreSignalled,
       First!S!SurvivorsOutliveTheSignal, First!S!Gone, First!S!Alive
  <2>2. gym = "terraform_shared" => First!T!TeardownIsHonest
    BY <1>1 DEF GymsInvariant, TerraformHolds, First!TfInvariant, First!CleanEndsAreOver,
       First!T!TeardownIsHonest
  <2>3. gym = "pod_slow" => First!P!EarlyTeardownsAreClean
    BY <1>1 DEF GymsInvariant, PodsHold, First!PodAnswerIsReal
  <2>4. gym = "codebase_reset" => First!C!RestoreReachesTheCheckpoint /\ First!C!CommitsAreTheGyms
    BY <1>1 DEF GymsInvariant, CodebasesHold, First!CodeInvariant, First!CodeAnswers,
       First!CodeCommitted
  <2>5. gym = "codebase_gone" => Second!C!RestoredTreesAreClean /\ Second!C!SourceIdentityIsKept
    BY <1>1 DEF GymsInvariant, CodebasesHold, Second!CodeInvariant, Second!CodeAnswers,
       Second!IdentitiesAreSet, Second!C!SourceIdentityIsKept
  <2>6. gym = "codebase_linked" => Third!C!RestoredTreesAreClean /\ Third!C!RebuildsAreNotBlocked
    BY <1>1 DEF GymsInvariant, CodebasesHold, Third!CodeInvariant, Third!CodeAnswers
  <2>7. gym = "swegym_ends" => Second!E!ContainersAreRemoved
    BY <1>1 DEF GymsInvariant, SweGymHolds, Second!ContainersInvariant
  <2>8. /\ gym = "local_files" => First!L!RestoredIsTheCheckpoint /\ First!L!FailedRestoresAreWhole
        /\ gym = "local_git" => Second!L!RestoredIsTheCheckpoint /\ Second!L!FailedRestoresAreWhole
        /\ gym = "local_table" => Third!L!RestoredIsTheCheckpoint /\ Third!L!FailedRestoresAreWhole
    BY <1>1 DEF GymsInvariant, LocalsHold, First!LocalInvariant, First!LocalRestores,
       Second!LocalInvariant, Second!LocalRestores, Third!LocalInvariant, Third!LocalRestores
  <2> QED
    BY <2>1, <2>2, <2>3, <2>4, <2>5, <2>6, <2>7, <2>8 DEF EndsAndRestoresAreHonest
<1> QED
  BY <1>1, GymsSafety, PTL

(* An accepted act takes effect once, in every situation, and one that was *)
(* answered raises only when the close of its client is cut.               *)
THEOREM GymActs == Spec => []ActsCountOnce
<1>1. ASSUME GymsInvariant
      PROVE  ActsCountOnce
  <2>1. First!S!ToolsActOnce
    BY <1>1 DEF GymsInvariant, SregymHolds, First!CallInvariant
  <2>2. gym = "pod_slow" => First!P!RestartsReschedule
    BY <1>1 DEF GymsInvariant, PodsHold, First!PodInvariant, First!RestartIsSound
  <2>3. gym = "pod_out" => Second!P!RestartsReschedule
    BY <1>1 DEF GymsInvariant, PodsHold, Second!PodInvariant, Second!RestartIsSound
  <2>4. gym = "gcp_long" => First!G!OperationsApplyOnce /\ First!G!NothingDueIsPending
    BY <1>1, Situated, First!GcpClaims DEF GymsInvariant, GcpHolds
  <2>5. gym = "dependency_shared" =>
          First!D!NoCommittedEffectIsLost /\ First!D!TheWorldIsShared /\ First!D!WorldInvariant
    BY <1>1 DEF GymsInvariant, DependencyHolds, First!D!WorldInvariant, First!D!LogsAreFollowed,
       First!D!Follows, First!D!NoCommittedEffectIsLost
  <2> QED
    BY <2>1, <2>2, <2>3, <2>4, <2>5 DEF ActsCountOnce
<1> QED
  BY <1>1, GymsSafety, PTL

(* No step reaches past its actor: terraform's container, the query        *)
(* capability's reading, the lag of a view.                                *)
THEOREM GymActors == Spec => ActorsKeepToTheirOwn
<1> DEFINE OwnStep ==
             /\ gym = "terraform_own" => Second!T!TouchesOwnContainer
             /\ gym = "gcp_direct" => Second!G!QueryOnlyReads
             /\ gym = "dependency_shared" => First!D!SeesWithLag
<1>1. ASSUME GymsInvariant, [Next]_vars
      PROVE  OwnStep
  <2>1. gym = "terraform_own" => Second!T!TouchesOwnContainer
    <3>1. gym = "terraform_own" => [Second!T!TouchesOwnContainer]_Second!T!vars
      BY <1>1, TerraformMoves, Situated, Second!OwnTouches DEF GymsInvariant, TerraformHolds
    <3> QED
      BY <3>1 DEF Second!T!TouchesOwnContainer, Second!T!vars
  <2>2. gym = "gcp_direct" => Second!G!QueryOnlyReads
    BY <1>1, GymAssumption, Second!QueriesRead DEF GymsInvariant, GcpHolds
  <2>3. gym = "dependency_shared" => First!D!SeesWithLag
    <3>1. gym = "dependency_shared" => [First!D!SeesWithLag]_First!D!vars
      BY <1>1, DependencyMoves, GymAssumption, First!SeesStep DEF GymsInvariant, DependencyHolds
    <3> QED
      BY <3>1 DEF First!D!SeesWithLag, First!D!vars
  <2> QED
    BY <2>1, <2>2, <2>3
<1>2. GymsInvariant /\ [Next]_vars => [OwnStep]_vars
  BY <1>1
<1> HIDE DEF OwnStep
<1>3. Spec => [][OwnStep]_vars
  BY <1>2, GymsSafety, PTL DEF Spec
<1> QED
  BY <1>3 DEF OwnStep, ActorsKeepToTheirOwn
=============================================================================
