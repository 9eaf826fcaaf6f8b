------------------------------- MODULE MCGyms --------------------------------
(***************************************************************************)
(* Small instances of the gyms for TLC.  The kernel holds every gym to one *)
(* contract (observe, actuate, verify, checkpoint, restore, teardown), and *)
(* no gym touches another.  So a behaviour is about one of them: `gym`     *)
(* says which, and the others stay as they began.  The properties are the  *)
(* clauses of the contract, each over all gyms that have it.               *)
(***************************************************************************)
EXTENDS Integers, Sequences, TLC

CONSTANTS
  None,
  Gyms    \* the gyms and situations that are looked at

VARIABLES
  gym,                                                     \* the one that moves
  main, kids, serving, stage, hit, phase, task, ready,     \* Sregym
  expired, log, why, reached, call, result,
  box, daemon, tf, tfEnv, inited, book, tfSaved, run,      \* TerraformApply
  acts, out, verdict,
  pod, gen, podEnv, at, podExpired, codes, was, want,      \* PodReconciliation
  podAnswer,
  w, saved, left, pager,                                   \* GcpSimulator
  commits, source, env, points, answer,                    \* Codebase
  states, registry, view, of, depCall, loaded, kept, seen, \* DependencyWorld
  sweEnv, pc, container, late, refused, state, swePoint,   \* SweGym
  base, fixed, after, baseFailed, f2pPassed, raising,
  ending, evals, graded,
  locEnv, held, dirs, index, trees, heads, branch, point,  \* LocalProviders
  last, before, locActs

-----------------------------------------------------------------------------
(* Every instance of GymProofs is one situation of each gym: S is SREGym,  *)
(* T terraform, P Kubernetes, G the GCP simulator, C codebases, D          *)
(* dependency worlds, E SWE-Gym and L the local providers.                 *)

Envs2 == {"e1", "e2"}
OneLineEnd == [v \in {1, 2} |-> 1]          \* 2 is 1 with line ends that are converted
Fixtures == [e \in Envs2 |-> "fixtures"]    \* the default working_dir
OneProc == [e \in Envs2 |-> "p"]
Own == [e \in Envs2 |-> e]

Method(id, effect, long, limit) ==
  [id |-> id, effect |-> effect, long |-> long, api |-> "compute", limit |-> limit,
   replay |-> FALSE, empirical |-> FALSE]
Operations ==
  {Method("create", "CREATE", TRUE, 2), Method("delete", "DELETE", TRUE, 1),
   Method("cancel", "OPERATION_CANCEL", FALSE, None),
   Method("forget", "OPERATION_DELETE", FALSE, None),
   Method("enable", "SERVICE_ENABLE", TRUE, None)}
Direct ==
  {Method("create", "CREATE", FALSE, 1), Method("replace", "REPLACE", FALSE, None),
   Method("patch", "PATCH", FALSE, 1), Method("delete", "DELETE", FALSE, None),
   Method("setIam", "IAM_SET", FALSE, None), Method("getIam", "IAM_GET", FALSE, None),
   Method("get", "READ_ONE", FALSE, None), Method("list", "READ_MANY", FALSE, None),
   Method("getOp", "OPERATION_GET", FALSE, None),
   Method("disable", "SERVICE_DISABLE", FALSE, None),
   Method("guess", "CUSTOM", FALSE, None),
   [Method("replayed", "CUSTOM", FALSE, 0) EXCEPT !.replay = TRUE]}
Paged == {Method("create", "CREATE", FALSE, None), Method("later", "CREATE", TRUE, None),
          Method("delete", "DELETE", FALSE, None)}

PyAndNode == ("py" :> 1) @@ ("node" :> 2)
NodeOnly == "node" :> 2

Diamond == <<{}, {1}, {1}, {2, 3}>>
TwoIsDown == <<"healthy", "failed", "healthy", "healthy">>
RedBlue == ("red" :> {"failed"}) @@ ("blue" :> {"healthy"})
Lags == ("red" :> 0) @@ ("blue" :> 1)

Flat == ("a" :> None) @@ ("c" :> None)
Nested == ("a" :> None) @@ ("a/b" :> "a") @@ ("c" :> None)

SregymCalls == {"tool", "status", "bad", "verify"}

(* SREGym against a main.py that crashes, hangs and does not answer; two   *)
(* processes that apply and destroy in terraform's default directory, of   *)
(* which terraform is killed anywhere and the daemon fails; kubectl running out of time; long-  *)
(* running operations under quotas, cancellation and restores; a scratch   *)
(* repository or clone that keeps its history (a Python project runs one   *)
(* command, a node project installs first); one asset shared by two actors *)
(* of whom one sees it late; one evaluation whose tests come out in every  *)
(* way; a directory in which a name may be a file or another's directory.  *)
First == INSTANCE GymProofs WITH
       Retries <- 2, MaxStage <- 1, SregymOps <- SregymCalls,
       Envs <- Envs2, DirOf <- Fixtures, ProcOf <- Own,
       TfOps <- {"apply", "destroy", "verify"}, MaxActs <- 1,
       TfFaults <- {"timeout", "stop", "daemon"},
       Contexts <- {"kind"}, Target <- "kind", Current <- "kind", MaxGen <- 3,
       PodFaults <- {"timeout"},
       Methods <- Operations, Names <- {1}, Apis <- {9}, Enforce <- FALSE, PageSizes <- {},
       MaxRequests <- 3, MaxClock <- 1, Restores <- 1,
       CodeEnvs <- {"e1"}, Local <- FALSE, Origins <- {"scratch", "cloned"},
       Files <- {"py", "node"}, Manifests <- {"py", "node"}, Commands <- PyAndNode,
       Junk <- "junk", SourceTree <- {"node"}, CodeCommits <- 3, CodeFaults <- {"slow"},
       N <- 1, Requires <- <<{}>>, Initial <- <<"healthy">>, Statuses <- {"failed"},
       Views <- {"red", "blue"}, Powers <- RedBlue, Lag <- Lags, MaxDepth <- 3, MaxEvents <- 4,
       MaxImpacted <- 4, MaxCommits <- 2, MaxStates <- 1,
       F2P <- {"f"}, P2P <- {"s", "t"}, Malformed <- FALSE, MaxEvals <- 1,
       SweFaults <- {"slow", "noise", "dies"},
       Kind <- "filesystem", Order <- <<"a", "a/b", "c">>, Inside <- Nested, Values <- {1, 2}, AsText <- OneLineEnd,
       Branches <- {"main"}, Main <- "main", LocActs <- 4, LocFaults <- {"dies", "malformed"}

(* Two environments of one process with directories of their own, where    *)
(* terraform init and the daemon fail; an API server that does not answer  *)
(* or a pod that does not terminate; direct effects with enforced          *)
(* services; a repository whose commands may destroy it and whose source   *)
(* may be away; the shared world with a single commit, where only ends     *)
(* matter; two evaluations that docker or the kernel cut short; a work     *)
(* tree with two branches.                                                 *)
Second == INSTANCE GymProofs WITH
       Retries <- 2, MaxStage <- 1, SregymOps <- SregymCalls,
       Envs <- Envs2, DirOf <- Own, ProcOf <- OneProc,
       TfOps <- {"plan", "apply", "checkpoint"}, MaxActs <- 1, TfFaults <- {"daemon", "init"},
       Contexts <- {"kind"}, Target <- "kind", Current <- "kind", MaxGen <- 2,
       PodFaults <- {"unreachable", "timeout", "stuck"},
       Methods <- Direct, Names <- {1}, Apis <- {"compute"}, Enforce <- TRUE, PageSizes <- {},
       MaxRequests <- 2, MaxClock <- 1, Restores <- 1,
       CodeEnvs <- {"e1"}, Local <- FALSE, Origins <- {"scratch", "cloned"},
       Files <- {"py", "node"}, Manifests <- {"py", "node"}, Commands <- PyAndNode,
       Junk <- "junk", SourceTree <- {"node"}, CodeCommits <- 2,
       CodeFaults <- {"gone", "source", "seed", "slow"},
       N <- 1, Requires <- <<{}>>, Initial <- <<"healthy">>, Statuses <- {"failed"},
       Views <- {"red", "blue"}, Powers <- RedBlue, Lag <- Lags, MaxDepth <- 3, MaxEvents <- 4,
       MaxImpacted <- 4, MaxCommits <- 1, MaxStates <- 1,
       F2P <- {"f"}, P2P <- {}, Malformed <- TRUE, MaxEvals <- 2,
       SweFaults <- {"pull", "start", "late", "stop", "dies", "slow", "readonly", "cancel"},
       Kind <- "git", Order <- <<"a", "c">>, Inside <- Flat, Values <- {1, 2}, AsText <- OneLineEnd,
       Branches <- {"main", "dev"}, Main <- "main", LocActs <- 4,
       LocFaults <- {"commit", "malformed"}

(* A client that pages; worktrees of a local repository; a world whose     *)
(* ways from 4 to 1 are of the same length; a table; a cluster without     *)
(* failures and terraform without timeouts, where only ends matter.  The   *)
(* other gyms have no third situation.                                     *)
Third == INSTANCE GymProofs WITH
       Methods <- Paged, Names <- 1..3, Apis <- {}, Enforce <- FALSE, PageSizes <- {1, 2},
       MaxRequests <- 2, MaxClock <- 1, Restores <- 0,
       CodeEnvs <- Envs2, Local <- TRUE, Origins <- {"cloned"}, Files <- {"node"},
       Manifests <- {"node"}, Commands <- NodeOnly, Junk <- "junk",
       SourceTree <- {"node"}, CodeCommits <- 1, CodeFaults <- {"gone"},
       N <- 4, Requires <- Diamond, Initial <- TwoIsDown, Statuses <- {"failed"},
       Views <- {"solo"}, Powers <- "solo" :> {"healthy", "failed"}, Lag <- "solo" :> 0,
       MaxDepth <- 3, MaxEvents <- 4, MaxImpacted <- 3, MaxCommits <- 2, MaxStates <- 1,
       Kind <- "sqlite", Order <- <<"a", "c">>, Inside <- Flat, Values <- {1, 2}, AsText <- OneLineEnd,
       Branches <- {"main"}, Main <- "main", LocActs <- 3, LocFaults <- {"dies", "malformed"},
       Retries <- 1, MaxStage <- 0, SregymOps <- {},
       Envs <- Envs2, DirOf <- Own, ProcOf <- OneProc,
       TfOps <- {"apply", "verify"}, MaxActs <- 1, TfFaults <- {"daemon", "init"},
       Contexts <- {"kind"}, Target <- "kind", Current <- "kind", MaxGen <- 2, PodFaults <- {},
       F2P <- {"f"}, P2P <- {}, Malformed <- FALSE, MaxEvals <- 0, SweFaults <- {}

ASSUME GymAssumption ==
  /\ First!SregymConstants
  /\ First!PodConstants /\ Second!PodConstants /\ Third!PodConstants
  /\ First!T!TerraformAssumption /\ Second!T!TerraformAssumption
  /\ Third!T!TerraformAssumption
  /\ First!G!GcpAssumption /\ Second!G!GcpAssumption /\ Third!G!GcpAssumption
  /\ First!C!CodebaseAssumption /\ Second!C!CodebaseAssumption /\ Third!C!CodebaseAssumption
  /\ First!D!DependencyAssumption /\ Second!D!DependencyAssumption
  /\ Third!D!DependencyAssumption
  /\ First!SweConstants /\ Second!SweConstants
  /\ First!L!LocalAssumption /\ Second!L!LocalAssumption /\ Third!L!LocalAssumption
  /\ None \notin Envs2

-----------------------------------------------------------------------------
sregym == <<main, kids, serving, stage, hit, phase, task, ready, expired, log, why, reached,
            call, result>>
terraform == <<box, daemon, tf, tfEnv, inited, book, tfSaved, run, acts, out, verdict>>
kubernetes == <<pod, gen, podEnv, at, podExpired, codes, was, want, podAnswer>>
gcp == <<w, saved, left, pager>>
codebase == <<commits, source, env, points, answer>>
dependency == <<states, registry, view, of, depCall, loaded, kept, seen>>
swegym == <<sweEnv, pc, container, late, refused, state, swePoint, base, fixed, after,
            baseFailed, f2pPassed, raising, ending, evals, graded>>
local == <<locEnv, held, dirs, index, trees, heads, branch, point, last, before, locActs>>
vars == <<gym, sregym, terraform, kubernetes, gcp, codebase, dependency, swegym, local>>

Init ==
  /\ gym \in Gyms
  /\ First!S!Init
  /\ IF gym \in {"terraform_own", "terraform_ends"} THEN Second!T!Init ELSE First!T!Init
  /\ Second!P!Init
  /\ CASE gym = "gcp_direct" -> Second!G!Init
       [] gym = "gcp_pages" -> Third!G!Init
       [] OTHER -> First!G!Init /\ (gym = "gcp_long" \/ (w.on = {} /\ DOMAIN w.res = {}))
  /\ IF gym = "codebase_linked" THEN Third!C!Init ELSE Second!C!Init
  /\ IF gym = "dependency_diamond" THEN Third!D!Init ELSE First!D!Init
  /\ Second!E!Init
  /\ First!L!Init

Next ==
  /\ UNCHANGED gym
  /\ \/ /\ gym = "sregym" /\ First!S!Next
        /\ UNCHANGED <<terraform, kubernetes, gcp, codebase, dependency, swegym, local>>
     \/ /\ \/ gym = "terraform_shared" /\ First!T!Next
           \/ gym = "terraform_own" /\ Second!T!Next
           \/ gym = "terraform_ends" /\ Third!T!Next
        /\ UNCHANGED <<sregym, kubernetes, gcp, codebase, dependency, swegym, local>>
     \/ /\ \/ gym = "pod_slow" /\ First!P!Next
           \/ gym = "pod_out" /\ Second!P!Next
           \/ gym = "pod_ends" /\ Third!P!Next
        /\ UNCHANGED <<sregym, terraform, gcp, codebase, dependency, swegym, local>>
     \/ /\ \/ gym = "gcp_long" /\ First!G!Next
           \/ gym = "gcp_direct" /\ Second!G!Next
           \/ gym = "gcp_pages" /\ Third!G!Next
        /\ UNCHANGED <<sregym, terraform, kubernetes, codebase, dependency, swegym, local>>
     \/ /\ \/ gym = "codebase_reset" /\ First!C!Next
           \/ gym = "codebase_gone" /\ Second!C!Next
           \/ gym = "codebase_linked" /\ Third!C!Next
        /\ UNCHANGED <<sregym, terraform, kubernetes, gcp, dependency, swegym, local>>
     \/ /\ \/ gym = "dependency_shared" /\ First!D!Next
           \/ gym = "dependency_ends" /\ Second!D!Next
           \/ gym = "dependency_diamond" /\ Third!D!Next
        /\ UNCHANGED <<sregym, terraform, kubernetes, gcp, codebase, swegym, local>>
     \/ /\ \/ gym = "swegym_grades" /\ First!E!Next
           \/ gym = "swegym_ends" /\ Second!E!Next
        /\ UNCHANGED <<sregym, terraform, kubernetes, gcp, codebase, dependency, local>>
     \/ /\ \/ gym = "local_files" /\ First!L!Next
           \/ gym = "local_git" /\ Second!L!Next
           \/ gym = "local_table" /\ Third!L!Next
        /\ UNCHANGED <<sregym, terraform, kubernetes, gcp, codebase, dependency, swegym>>

(* The fairness of each gym's own specification. *)
Fairness ==
  /\ WF_sregym(gym = "sregym" /\ First!S!Life) /\ WF_sregym(gym = "sregym" /\ First!S!Tick)
  /\ WF_sregym(gym = "sregym" /\ First!S!ConnectFails)
  /\ WF_sregym(gym = "sregym" /\ First!S!ToolFails)
  /\ WF_sregym(gym = "sregym" /\ (First!S!Closes \/ First!S!Cancelled))
  /\ WF_sregym(gym = "sregym" /\ First!S!After) /\ WF_sregym(gym = "sregym" /\ First!S!Poll)
  /\ \A e \in Envs2 : /\ WF_terraform(gym = "terraform_ends" /\ Third!T!Handle(e))
                      /\ WF_terraform(gym = "terraform_ends" /\ Third!T!Tick(e))
  /\ WF_kubernetes(gym = "pod_ends" /\ Third!P!Handle)
  /\ WF_kubernetes(gym = "pod_ends" /\ Third!P!Tick)
  /\ WF_kubernetes(gym = "pod_ends" /\ Third!P!PodMoves)
  /\ \A v \in {"red", "blue"} :
       /\ SF_dependency(gym = "dependency_ends" /\ Second!D!Enter(v))
       /\ WF_dependency(gym = "dependency_ends" /\ Second!D!Work(v))
  /\ WF_swegym(gym = "swegym_ends" /\ Second!E!Handle)

Spec == Init /\ [][Next]_vars /\ Fairness

-----------------------------------------------------------------------------
(* Properties *)

(* Every gym's variables have their types. *)
TypeOK ==
  /\ gym = "sregym" => First!S!TypeOK
  /\ gym = "terraform_shared" => First!T!TypeOK
  /\ gym = "terraform_own" => Second!T!TypeOK
  /\ gym = "pod_slow" => First!P!TypeOK
  /\ gym = "pod_out" => Second!P!TypeOK
  /\ gym = "gcp_long" => First!G!TypeOK
  /\ gym = "gcp_direct" => Second!G!TypeOK
  /\ gym = "codebase_linked" => Third!C!TypeOK
  /\ gym = "codebase_gone" => Second!C!TypeOK
  /\ gym = "dependency_shared" => First!D!TypeOK
  /\ gym = "dependency_diamond" => Third!D!TypeOK
  /\ gym = "swegym_grades" => First!E!TypeOK
  /\ gym = "swegym_ends" => Second!E!TypeOK
  /\ gym = "local_files" => First!L!TypeOK
  /\ gym = "local_git" => Second!L!TypeOK
  /\ gym = "local_table" => Third!L!TypeOK

(* What verify() answers was so in the world: an SREGym verdict is a stage *)
(* the conductor reported, a container or pod was seen in the state the    *)
(* verdict names or the deadline had passed (that it was absent counts     *)
(* only where the server answered), a build passed only with all           *)
(* its commands, SREGym counts as started only when both surfaces were     *)
(* reached, and a patch is resolved in SWE-Gym only if it fixed the issue  *)
(* and no test is reported to fail anew, and then despite failures that    *)
(* were there before.                                                      *)
VerdictsAreReal ==
  /\ First!S!VerdictsAreObserved /\ First!S!ReadyWasReachable
  /\ gym = "terraform_shared" => First!T!VerdictsAreInspected
  /\ gym = "pod_slow" => First!P!VerdictsAreReal
  /\ gym = "pod_out" => Second!P!VerdictsAreReal
  /\ gym = "codebase_gone" => Second!C!PassesAreWhole
  /\ gym = "swegym_grades" => First!E!ResolvedIsEarned /\ First!E!PreexistingIsForgiven
  /\ gym = "swegym_ends" => Second!E!ResolvedIsEarned

(* A teardown that returns has let go: of SREGym's main.py and log, of     *)
(* every port but those of children that outlived SIGTERM or were never    *)
(* sent it, of the container, whatever killed runs of terraform left, of   *)
(* the pod when its deletion ended in time; an evaluation that ends by     *)
(* itself has removed its container.  A restore that returns left what the *)
(* checkpoint held with nothing beside it, no rebuild is blocked by what   *)
(* an earlier one left, commits have the gym's own identity, and a restore *)
(* that raises or dies changes nothing or all of a work tree or table and  *)
(* leaves a directory with files of one of the two trees.                  *)
EndsAndRestoresAreHonest ==
  /\ First!S!NothingIsHeld /\ First!S!SurvivorsOutliveTheSignal
  /\ gym = "terraform_shared" => First!T!TeardownIsHonest
  /\ gym = "pod_slow" => First!P!EarlyTeardownsAreClean
  /\ gym = "codebase_reset" => First!C!RestoreReachesTheCheckpoint /\ First!C!CommitsAreTheGyms
  /\ gym = "codebase_gone" => Second!C!RestoredTreesAreClean /\ Second!C!SourceIdentityIsKept
  /\ gym = "codebase_linked" => Third!C!RestoredTreesAreClean /\ Third!C!RebuildsAreNotBlocked
  /\ gym = "swegym_ends" => Second!E!ContainersAreRemoved
  /\ gym = "local_files" => First!L!RestoredIsTheCheckpoint /\ First!L!FailedRestoresAreWhole
  /\ gym = "local_git" => Second!L!RestoredIsTheCheckpoint /\ Second!L!FailedRestoresAreWhole
  /\ gym = "local_table" => Third!L!RestoredIsTheCheckpoint /\ Third!L!FailedRestoresAreWhole

(* An accepted act takes effect once: a tool call that was answered ran    *)
(* once despite connect retries and raised only if the kernel's timeout    *)
(* cut the close of its client, a restart replaced the pod, a long-        *)
(* running operation applies at most once, also around cancellation and    *)
(* restore, and what one actor of a shared world committed no other        *)
(* actor's load and save undoes.                                           *)
ActsCountOnce ==
  /\ First!S!ToolsActOnce
  /\ gym = "pod_slow" => First!P!RestartsReschedule
  /\ gym = "pod_out" => Second!P!RestartsReschedule
  /\ gym = "gcp_long" => First!G!OperationsApplyOnce /\ First!G!NothingDueIsPending
  /\ gym = "dependency_shared" => First!D!NoCommittedEffectIsLost /\ First!D!TheWorldIsShared
                                 /\ First!D!WorldInvariant

(* A world agrees with itself: its variables have their types, the quota   *)
(* used is what the audit log shows, no number is given twice, a client    *)
(* that pages misses no more of what stayed than was deleted meanwhile, in *)
(* a dependency world the effective status of every asset that an act      *)
(* reached follows from its dependencies within the catalogue's bounds,    *)
(* and no path of a directory is a file and a directory.                   *)
WorldsAreConsistent ==
  /\ TypeOK
  /\ gym = "gcp_long" => First!G!QuotaMatchesAudit /\ First!G!NumbersAreFresh
  /\ gym = "gcp_direct" => Second!G!QuotaMatchesAudit
  /\ gym = "gcp_pages" => Third!G!PagesCoverWhatStays
  /\ gym = "dependency_diamond" => Third!D!EffectiveIsAFixpoint /\ Third!D!ImpactIsBounded
  /\ gym = "local_files" => First!L!PathsAreOneThing

(* No step reaches past its actor: a run of terraform touches the          *)
(* container of its own environment, a request through the query           *)
(* capability changes nothing but the log, and an actor with a lag does    *)
(* not see a step before it is old enough.                                 *)
ActorsKeepToTheirOwn ==
  [][/\ gym = "terraform_own" => Second!T!TouchesOwnContainer
     /\ gym = "gcp_direct" => Second!G!QueryOnlyReads
     /\ gym = "dependency_shared" => First!D!SeesWithLag]_vars

(* Every start, call and teardown of SREGym ends, whatever main.py does;   *)
(* terraform's handlers give their event loop back; the handlers of the    *)
(* Kubernetes gym end; an operation on a shared world ends, also when      *)
(* views are torn down while they hold or await its lock; and an           *)
(* evaluation of SWE-Gym ends, whatever docker does.                       *)
HandlersEnd ==
  /\ First!S!StartsEnd /\ First!S!TeardownsEnd /\ First!S!CallsEnd
  /\ gym = "terraform_ends" => Third!T!LoopsAreFreed
  /\ gym = "pod_ends" => Third!P!HandlersEnd
  /\ gym = "dependency_ends" => Second!D!OperationsEnd
  /\ gym = "swegym_ends" => Second!E!EvaluationsEnd
=============================================================================
