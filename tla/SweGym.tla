------------------------------- MODULE SweGym --------------------------------
(***************************************************************************)
(* The SWE-Gym environment (gyms/swegym.py): one actuation pulls an image, *)
(* starts a container under a fresh name, runs the PASS_TO_PASS tests as a *)
(* baseline, applies the test patch and the candidate patch, runs both     *)
(* suites, grades them with the baseline subtracted, and removes the       *)
(* container in a finally clause.                                          *)
(*                                                                         *)
(* Docker and pytest are external.  A test has one of four outcomes in a   *)
(* run; a suite with a test that pytest cannot find runs nothing.  The     *)
(* kernel calls one handler at a time, and cancels it when its own time    *)
(* limit passes.                                                           *)
(***************************************************************************)
EXTENDS Naturals, FiniteSets

CONSTANTS
  F2P, P2P,    \* FAIL_TO_PASS and PASS_TO_PASS
  Malformed,   \* a directive of FAIL_TO_PASS has an unclosed bracket
  MaxEvals,    \* bound: evaluations
  Faults,      \* a subset of {"pull", "start", "late", "dies", "slow", "noise",
               \*              "readonly", "stop", "cancel"}
  None

SweGymAssumption ==
  /\ IsFiniteSet(F2P) /\ F2P # {} /\ IsFiniteSet(P2P)
  /\ Malformed \in BOOLEAN /\ MaxEvals \in Nat

(* What pytest reports of a test; "unknown" when it did not come to that.  *)
Outcomes == {"pass", "fail", "error", "missing"}
Handling == {"pull", "run", "probe", "baseline", "test_patch", "candidate", "f2p", "p2p", "rm"}

VARIABLES
  env,         \* "open" or "closed"
  pc,          \* "idle", or where actuate() is
  container,   \* external: the container of this name: "none", "created",
               \* "running" or "exited"
  late,        \* external: the daemon still works on a run that timed out
  refused,     \* external: docker did not remove it, or created it too late
  state,       \* _state: attempted, resolved, container_writable
  point,       \* a checkpoint, or None
  base, fixed, after,    \* external: what the three runs of tests met, or None
  baseFailed,  \* baseline_failed_ids
  f2pPassed,   \* f2p_passed
  raising,     \* an exception is under way to the finally clause
  ending,      \* history: how the last evaluation ended, or None
  evals,       \* history: evaluations begun
  graded       \* history: the evaluation the verdict in state is of

world == <<container, late, refused>>
runs == <<base, fixed, after, baseFailed, f2pPassed>>
vars == <<env, pc, world, state, point, runs, raising, ending, evals, graded>>

Init ==
  /\ env = "open" /\ pc = "idle"
  /\ container = "none" /\ late = FALSE /\ refused = FALSE
  /\ state = [attempted |-> FALSE, resolved |-> FALSE, writable |-> None]
  /\ point = None
  /\ base = None /\ fixed = None /\ after = None
  /\ baseFailed = {} /\ f2pPassed = FALSE
  /\ raising = FALSE /\ ending = None /\ evals = 0 /\ graded = 0

-----------------------------------------------------------------------------
(* What a run of tests reports *)

(* A run of tests: their outcomes; all passed, and pytest exits non-zero   *)
(* nevertheless ("noise"); cut off by the timeout, whose output is lost    *)
(* ("slow"); or killed with its container, with the FAILED lines of some   *)
(* tests written or of none ("dies").                                      *)
Suites(tests) ==
  [outcome : [tests -> Outcomes], manner : {"plain"}]
  \cup [outcome : [tests -> {"pass"}], manner : Faults \cap {"noise"}]
  \cup [outcome : [tests -> {"unknown"}], manner : Faults \cap {"slow"}]
  \cup [outcome : [tests -> {"unknown", "fail"}], manner : Faults \cap {"dies"}]

Having(suite, o) == {t \in DOMAIN suite.outcome : suite.outcome[t] = o}

(* A run that reported nothing of single tests. *)
Silent(suite) == suite.manner = "slow" \/ Having(suite, "missing") # {}

(* Mutant: an exit code is all that counts, also for PASS_TO_PASS. *)
RunTests_Strictly(suite, strict) ==
  [passed |-> suite.manner = "plain" /\ \A t \in DOMAIN suite.outcome : suite.outcome[t] = "pass",
   failed |-> IF Silent(suite) THEN {} ELSE Having(suite, "fail")]

(* Mutant: a run that was cut off counts as one without failures. *)
RunTests_Patient(suite, strict) ==
  LET passes == DOMAIN suite.outcome = Having(suite, "pass") /\ suite.manner = "plain"
  IN  CASE suite.manner = "slow" -> [passed |-> TRUE, failed |-> {}]
        [] Having(suite, "missing") # {} -> [passed |-> ~strict \/ Malformed, failed |-> {}]
        [] passes -> [passed |-> TRUE, failed |-> {}]
        [] OTHER -> [passed |-> FALSE, failed |-> Having(suite, "fail")]

(* _run_tests: whether the suite passed, and the ids seen to fail.  A      *)
(* suite that is not strict also passes when nothing was collected, and    *)
(* when some test passed and none failed.                                  *)
RunTests(suite, strict) ==
  LET all == DOMAIN suite.outcome
      passes == all = Having(suite, "pass") /\ suite.manner = "plain"
      noFailures == Having(suite, "pass") # {} /\ Having(suite, "fail") = {}
  IN  CASE suite.manner = "slow" -> [passed |-> FALSE, failed |-> {}]
        [] suite.manner # "slow" /\ Having(suite, "missing") # {} ->
             [passed |-> ~strict \/ Malformed, failed |-> {}]
        [] ~Silent(suite) /\ (passes \/ (~strict /\ noFailures)) ->
             [passed |-> TRUE, failed |-> {}]
        [] OTHER -> [passed |-> FALSE, failed |-> Having(suite, "fail")]

(* Mutant: any failure is forgiven when some test failed in the baseline.  *)
P2PPassed_Aggregate(suite) ==
  P2P = {} \/ RunTests(suite, FALSE).passed \/ baseFailed # {}

(* The PASS_TO_PASS verdict: failures that are all in the baseline's       *)
(* failed set are forgiven.                                                *)
P2PPassed(suite) ==
  \/ P2P = {}
  \/ LET r == RunTests(suite, FALSE)
     IN  r.passed \/ (r.failed # {} /\ r.failed \subseteq baseFailed)

-----------------------------------------------------------------------------
(* actuate *)

(* Only a suite with tests in it is asked of docker, and the container may *)
(* die under it.                                                           *)
Runs(tests) == tests # {} => container = "running"
ContainerAfter(suite) ==
  container' = IF DOMAIN suite.outcome # {} /\ suite.manner = "dies" THEN "exited" ELSE container

(* Under a fresh container name. *)
Evaluate ==
  /\ env = "open" /\ pc = "idle" /\ evals < MaxEvals
  /\ state' = [state EXCEPT !.attempted = TRUE]
  /\ pc' = "pull" /\ evals' = evals + 1
  /\ raising' = FALSE /\ ending' = None
  /\ base' = None /\ fixed' = None /\ after' = None /\ baseFailed' = {} /\ f2pPassed' = FALSE
  /\ container' = "none" /\ late' = FALSE /\ refused' = FALSE
  /\ UNCHANGED <<env, point, graded>>

(* docker pull fails or times out before there is anything to remove. *)
Pull ==
  /\ pc = "pull"
  /\ \/ pc' = "run" /\ UNCHANGED ending
     \/ "pull" \in Faults /\ pc' = "idle" /\ ending' = "raised"
  /\ UNCHANGED <<env, world, state, point, runs, raising, evals, graded>>

Raise == pc' = "rm" /\ raising' = TRUE

(* Mutant: docker run comes before the try. *)
DockerRun_BeforeTry ==
  /\ pc = "run"
  /\ \/ container' = "running" /\ pc' = "probe" /\ UNCHANGED <<late, ending>>
     \/ "start" \in Faults /\ container' \in {"none", "created"} /\ UNCHANGED late
        /\ pc' = "idle" /\ ending' = "raised"
  /\ UNCHANGED <<env, refused, state, point, runs, raising, evals, graded>>

(* docker run starts the container, fails with or without having created   *)
(* it, or times out while the daemon goes on.                              *)
DockerRun ==
  /\ pc = "run"
  /\ \/ container' = "running" /\ pc' = "probe" /\ UNCHANGED <<late, raising>>
     \/ "start" \in Faults /\ container' \in {"none", "created"} /\ UNCHANGED late /\ Raise
     \/ "late" \in Faults /\ late' = TRUE /\ UNCHANGED container /\ Raise
  /\ UNCHANGED <<env, refused, state, point, runs, ending, evals, graded>>

(* Mutant: a container that is gone looks like a command that failed. *)
ExecFails_Graded ==
  /\ pc \in {"f2p", "p2p"} /\ ~Runs(IF pc = "p2p" THEN P2P ELSE F2P)
  /\ pc' = IF pc = "f2p" THEN "p2p" ELSE "rm"
  /\ state' = IF pc = "p2p" THEN [state EXCEPT !.resolved = FALSE] ELSE state
  /\ graded' = IF pc = "p2p" THEN evals ELSE graded
  /\ UNCHANGED <<env, world, point, runs, raising, ending, evals>>

(* Mutant: it is waited for. *)
ExecFails_Hangs == FALSE /\ UNCHANGED vars

(* _docker_exec in a container that does not run: the daemon's words on    *)
(* stderr raise.  A command that exits badly does not, not even when the   *)
(* container died under it.                                                *)
ExecFails ==
  /\ pc \in {"probe", "baseline", "test_patch", "candidate", "f2p", "p2p"}
  /\ container # "running" /\ (pc \in {"baseline", "p2p"} => P2P # {})
  /\ Raise
  /\ UNCHANGED <<env, world, state, point, runs, ending, evals, graded>>

(* The writability workaround and its probe; one that times out, or whose  *)
(* container dies, reads as not writable.                                  *)
Probe ==
  /\ pc = "probe" /\ container = "running"
  /\ \E writable \in {TRUE} \cup {FALSE : f \in Faults \cap {"readonly", "slow", "dies"}} :
       /\ state' = [state EXCEPT !.writable = writable]
       /\ \/ writable /\ pc' = "baseline" /\ UNCHANGED <<container, raising>>
          \/ /\ ~writable /\ Raise
             /\ container' \in {container} \cup {"exited" : f \in Faults \cap {"dies"}}
  /\ UNCHANGED <<env, late, refused, point, runs, ending, evals, graded>>

(* Mutant: the baseline is taken after the patches. *)
Baseline_Late ==
  /\ pc = "baseline" /\ Runs(P2P)
  /\ \E suite \in Suites(P2P) : base' = suite /\ ContainerAfter(suite)
  /\ baseFailed' = P2P
  /\ pc' = "test_patch"
  /\ UNCHANGED <<env, late, refused, state, point, fixed, after, f2pPassed, raising, ending,
                 evals, graded>>

(* PASS_TO_PASS before any patch. *)
Baseline ==
  /\ pc = "baseline" /\ Runs(P2P)
  /\ \E suite \in Suites(P2P) :
       /\ base' = suite
       /\ baseFailed' = IF P2P = {} THEN {} ELSE RunTests(suite, FALSE).failed
       /\ ContainerAfter(suite)
  /\ pc' = "test_patch"
  /\ UNCHANGED <<env, late, refused, state, point, fixed, after, f2pPassed, raising, ending,
                 evals, graded>>

(* _apply_patch for the test patch and for a candidate that is not empty:  *)
(* a patch that no tier applies is graded, one that cannot be written into *)
(* the container raises.  The container may die under any of its commands; *)
(* under the last of them that reads as a patch that does not apply.       *)
ApplyPatch ==
  /\ pc \in {"test_patch", "candidate"} /\ container = "running"
  /\ container' \in {container} \cup {"exited" : f \in Faults \cap {"dies"}}
  /\ \/ pc' = (IF pc = "test_patch" THEN "candidate" ELSE "f2p") /\ UNCHANGED raising
     \/ ("slow" \in Faults \/ container' = "exited") /\ Raise
  /\ UNCHANGED <<env, late, refused, state, point, runs, ending, evals, graded>>

(* empty-patch-noop: nothing is asked of docker. *)
EmptyPatch ==
  /\ pc = "candidate" /\ pc' = "f2p"
  /\ UNCHANGED <<env, world, state, point, runs, raising, ending, evals, graded>>

FailToPass ==
  /\ pc = "f2p" /\ container = "running"
  /\ \E suite \in Suites(F2P) :
       /\ fixed' = suite /\ f2pPassed' = RunTests(suite, TRUE).passed
       /\ ContainerAfter(suite)
  /\ pc' = "p2p"
  /\ UNCHANGED <<env, late, refused, state, point, base, after, baseFailed, raising, ending,
                 evals, graded>>

(* PASS_TO_PASS after the patches, and the verdict. *)
PassToPass ==
  /\ pc = "p2p" /\ Runs(P2P)
  /\ \E suite \in Suites(P2P) :
       /\ after' = suite
       /\ state' = [state EXCEPT !.resolved = f2pPassed /\ P2PPassed(suite)]
       /\ ContainerAfter(suite)
  /\ graded' = evals
  /\ pc' = "rm"
  /\ UNCHANGED <<env, late, refused, point, base, fixed, baseFailed, f2pPassed, raising, ending,
                 evals>>

(* finally: docker rm -f, whose failure and timeout are ignored. *)
Remove ==
  /\ pc = "rm"
  /\ container' \in {"none"} \cup {container : f \in Faults \cap {"stop"}}
  /\ refused' = (container' # "none")
  /\ pc' = "idle" /\ ending' = IF raising THEN "raised" ELSE "returned"
  /\ UNCHANGED <<env, late, state, point, runs, raising, evals, graded>>

(* The kernel's time limit cancels the actuation at an await.  The scope   *)
(* is still cancelled in the finally clause, so its docker rm may or may   *)
(* not get anywhere.                                                       *)
Cancel ==
  /\ pc # "idle" /\ "cancel" \in Faults
  /\ container' \in IF pc = "pull" THEN {container} ELSE {container, "none"}
  /\ pc' = "idle" /\ ending' = "cancelled"
  /\ UNCHANGED <<env, late, refused, state, point, runs, raising, evals, graded>>

-----------------------------------------------------------------------------
(* The other handlers *)

Checkpoint ==
  /\ env = "open" /\ pc = "idle"
  /\ point' = [restorable |-> ~state.attempted, state |-> state]
  /\ UNCHANGED <<env, pc, world, state, runs, raising, ending, evals, graded>>

(* Only a checkpoint of an environment that had not been used is restored. *)
Restore ==
  /\ env = "open" /\ pc = "idle" /\ point # None
  /\ point.restorable /\ state' = point.state
  /\ UNCHANGED <<env, pc, world, point, runs, raising, ending, evals, graded>>

Teardown ==
  /\ env = "open" /\ pc = "idle"
  /\ env' = "closed"
  /\ UNCHANGED <<pc, world, state, point, runs, raising, ending, evals, graded>>

(* Docker on its own: the container's process ends, or a container whose   *)
(* run timed out comes into being after all.                               *)
Exits ==
  /\ "dies" \in Faults /\ container = "running"
  /\ container' = "exited"
  /\ UNCHANGED <<env, pc, late, refused, state, point, runs, raising, ending, evals, graded>>

LateStart ==
  /\ late /\ late' = FALSE /\ container' = "running" /\ refused' = TRUE
  /\ UNCHANGED <<env, pc, state, point, runs, raising, ending, evals, graded>>

Handle ==
  \/ Pull \/ DockerRun \/ ExecFails \/ Probe \/ Baseline \/ ApplyPatch
  \/ EmptyPatch \/ FailToPass \/ PassToPass \/ Remove

Next ==
  \/ Evaluate \/ Handle \/ Cancel
  \/ Checkpoint \/ Restore \/ Teardown
  \/ Exits \/ LateStart

(* Every await of actuate() is under a timeout of its own. *)
Spec == Init /\ [][Next]_vars /\ WF_vars(Handle)

-----------------------------------------------------------------------------
(* Properties *)

TypeOK ==
  /\ env \in {"open", "closed"} /\ pc \in Handling \cup {"idle"}
  /\ container \in {"none", "created", "running", "exited"} /\ late \in BOOLEAN /\ refused \in BOOLEAN
  /\ state \in [attempted : BOOLEAN, resolved : BOOLEAN, writable : BOOLEAN \cup {None}]
  /\ base \in Suites(P2P) \cup {None} /\ fixed \in Suites(F2P) \cup {None}
  /\ after \in Suites(P2P) \cup {None}
  /\ baseFailed \subseteq P2P /\ f2pPassed \in BOOLEAN /\ raising \in BOOLEAN
  /\ ending \in {"raised", "returned", "cancelled", None}
  /\ evals \in 0..MaxEvals /\ graded \in 0..evals

(* The tests that were reported as FAILED and had not been so before.      *)
Regressions == {t \in P2P : after.outcome[t] = "fail" /\ base.outcome[t] # "fail"}
FixesTheIssue == Having(fixed, "pass") = F2P /\ fixed.manner = "plain"

(* A patch counts as resolved only if every FAIL_TO_PASS test passed, no   *)
(* PASS_TO_PASS test is reported as FAILED that was not before it, and the *)
(* suite did not break down altogether: resolved is what the two suites    *)
(* showed in a container that was there.  Tests that pytest does not       *)
(* collect, and a test that errors among others that pass, do not count.   *)
ResolvedIsEarned ==
  state.resolved /\ graded = evals /\ evals > 0 =>
    /\ fixed # None /\ after # None
    /\ FixesTheIssue \/ (Malformed /\ Having(fixed, "missing") # {})
    /\ Regressions = {} \/ Having(after, "missing") # {}
    /\ P2P # {} => after.manner # "slow" /\ Having(after, "error") # P2P

(* A failure that was there before the patch does not count against it,    *)
(* as long as both runs of PASS_TO_PASS were reported and not all tests    *)
(* broke down: a graded patch that fixes the issue and of which no test    *)
(* fails anew is resolved.  A container that died before the last run of   *)
(* tests never makes a verdict, unless there is nothing left to run.       *)
PreexistingIsForgiven ==
  graded = evals /\ evals > 0 /\ state.attempted /\ ~state.resolved =>
    /\ fixed # None /\ after # None
    /\ P2P # {} => "dies" \notin {base.manner, fixed.manner}
    /\ \/ ~FixesTheIssue \/ Regressions # {}
       \/ P2P # {} /\ \/ Silent(base) \/ Silent(after) \/ Having(after, "error") = P2P
                      \/ after.manner = "dies"

(* No evaluation that ended by itself leaves its container behind, unless  *)
(* docker itself did not remove it or was still about to create it.        *)
ContainersAreRemoved ==
  pc = "idle" /\ container # "none" =>
    ending = "cancelled" \/ refused

(* Every evaluation comes to its end. *)
EvaluationsEnd == pc # "idle" ~> pc = "idle"

(* What the comments promise without these conditions (README, section 5): *)
(* the finally clause cleans up on every path, a failure that was there    *)
(* before never penalizes the candidate, one in a test that passed before  *)
(* is never forgiven, and a container that is gone is no graded loss.      *)
EveryPathCleansUp == pc = "idle" /\ ~late => container = "none"
NeverPenalized ==
  graded = evals /\ evals > 0 /\ state.attempted /\ ~state.resolved /\ FixesTheIssue
  /\ ~Silent(after) /\ after.manner # "dies" /\ Having(after, "error") = {}
  => Regressions # {}
NothingIsBroken ==
  state.resolved /\ graded = evals /\ evals > 0 =>
    \A t \in P2P : base.outcome[t] = "pass" => after.outcome[t] = "pass"
DeathIsNotGraded ==
  graded = evals /\ evals > 0 => "dies" \notin {fixed.manner, after.manner}
=============================================================================
