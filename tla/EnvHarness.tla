------------------------------ MODULE EnvHarness -----------------------------
(***************************************************************************)
(* Environment harnesses (envharness.py): a HarnessSession stages, guards  *)
(* and steps one kernel episode; a ChainSession runs several of them one   *)
(* after another and counts the verifications of its legs.                 *)
(*                                                                         *)
(* One client makes the calls.  An action is the code from one await of    *)
(* the kernel to the next, with the outcome of that await; the kernel is   *)
(* modelled by what these calls can get from it.  The contracts' rules are *)
(* one sequence per leg, in the order in which admit visits them.  The     *)
(* effect of an act that timed out may land at any later time.             *)
(***************************************************************************)
EXTENDS Naturals, Sequences, FiniteSets, Functions

CONSTANTS
  Legs,         \* the number of tasks of the chain
  Worlds,       \* states of an episode's world
  Fresh,        \* the state a provider materializes
  Caps,         \* capabilities the environment offers
  Reads,        \* those whose consequence is READ
  Effect,       \* what each DO capability makes of a world
  Harness,      \* per leg: [stage, rules]
  Goal,         \* per leg: the worlds its goal accepts
  Actions,      \* actions the client steps with: [cap, key, expected]
  Always,       \* expected: no expected_after
  Faults,       \* which failures the kernel shows
  MaxEpisodes, MaxCalls, MaxLate   \* bounds: MaxLate effects are outstanding at once

None == "none"
AllFaults == {"raise", "refuse", "effect", "restore", "teardown", "late"}
Effects == {"allow", "deny", "rewrite"}

(* A HarnessAction. *)
IsAction(a) == a = [cap |-> a.cap, key |-> a.key, expected |-> a.expected]

EnvHarnessAssumption ==
  /\ {Legs, MaxEpisodes} \subseteq Nat \ {0} /\ {MaxCalls, MaxLate} \subseteq Nat
  /\ Fresh \in Worlds /\ Reads \subseteq Caps /\ Faults \subseteq AllFaults
  /\ Effect \in [Caps -> [Worlds -> Worlds]]
  /\ DOMAIN Harness = 1..Legs /\ DOMAIN Goal = 1..Legs
  /\ \A l \in 1..Legs : \A i \in DOMAIN Harness[l].rules :
       /\ Harness[l].rules[i].effect \in Effects
       /\ Harness[l].rules[i].limit \in Nat     \* 0: no max_consecutive
  /\ \A l \in 1..Legs :
       /\ Len(Harness[l].rules) \in Nat
       /\ DOMAIN Harness[l].rules = 1..Len(Harness[l].rules)
  /\ \A l \in 1..Legs :
       /\ Len(Harness[l].stage) \in Nat
       /\ DOMAIN Harness[l].stage = 1..Len(Harness[l].stage)
       /\ \A i \in DOMAIN Harness[l].stage : IsAction(Harness[l].stage[i])
  /\ \A a \in Actions : IsAction(a)

(* HarnessAction makes up a key of its own unless it is given one. *)
StageKeysDiffer ==
  \A l \in 1..Legs : \A i, j \in DOMAIN Harness[l].stage :
    Harness[l].stage[i].key = Harness[l].stage[j].key => i = j

(* A denial that bounds the runs of its capability whatever the world is,  *)
(* and rules that ask it after every rewrite to that capability: admit     *)
(* goes on behind a rewrite and does not ask the rules before it again.    *)
Limiting(rule) == rule.effect = "deny" /\ rule.limit > 0 /\ rule.when = {}
LimitsFollowRewrites ==
  \A l \in 1..Legs : \A n, k \in DOMAIN Harness[l].rules :
    LET rule == Harness[l].rules IN
    Limiting(rule[n]) /\ rule[k].effect = "rewrite" /\ rule[k].to = rule[n].cap => k < n

VARIABLES
  at,         \* the await the client's call is at, "idle" between calls
  call,       \* the call: reset, restart, step, advance, close
  leg,        \* leg_index + 1
  verified,   \* the legs _verifications are about, in order
  session,    \* current is not None
  ep,         \* current.episode_id
  live,       \* the kernel's episodes, and how many were ever made
  made,
  world,      \* the state of the world of ep
  pending,    \* acts on ep that timed out and may still have their effect
  history,    \* current._history: the capabilities
  doing,      \* the action of the step or of the stage
  index,      \* the stage action being applied
  saved,      \* the checkpoint of the call
  answers,    \* the kernel's first receipt for each idempotency key
  start,      \* history: the world when the call began, with the late effects
              \* that landed since and are not between its checkpoint and rollback
  past,       \* history: the accepted steps when the call began
  orphans,    \* history: episodes whose materialize() raised
  result,     \* what the last call returned
  calls       \* how many calls there were

sessionVars == <<leg, verified, session, ep, history>>
kernelVars == <<live, made, world, pending, answers>>
localVars == <<doing, index, saved>>
ghosts == <<start, past, orphans>>
vars == <<at, call, sessionVars, kernelVars, localVars, ghosts, result, calls>>

NoAction == [cap |-> None, key |-> None, expected |-> Always]
Nothing == [call |-> None, accepted |-> FALSE, reason |-> None, complete |-> FALSE]
Result(ok, why) == [call |-> call, accepted |-> ok, reason |-> why, complete |-> FALSE]
Completed == [call |-> call, accepted |-> TRUE, reason |-> "complete", complete |-> TRUE]

CallNames == {None, "reset", "restart", "step", "advance", "close"}
Reasons == {None, "raised", "torn down", "teardown failed", "not materialized", "inadmissible",
            "cleanup failed", "staged", "unstaged", "rollback failed", "denied", "unknown",
            "read", "acted", "not acted", "verified", "postcondition", "not verified", "complete"}
Results == [call : CallNames, accepted : BOOLEAN, reason : Reasons, complete : BOOLEAN]

TypeOK ==
  /\ at \in {"idle", "teardown", "materialize", "baseline", "stage", "staged", "unstage",
             "admit", "read", "checkpoint", "act", "verify", "rollback", "observe", "judge"}
  /\ call \in CallNames
  /\ leg \in 1..Legs /\ verified \in Seq(1..Legs) /\ session \in BOOLEAN
  /\ ep \in 0..MaxEpisodes /\ live \subseteq 1..MaxEpisodes /\ made \in 0..MaxEpisodes
  /\ {world, saved, start} \subseteq Worlds /\ history \in Seq(Caps) /\ calls \in 0..MaxCalls
  /\ IsAction(doing) /\ index \in Nat
  /\ result \in Results

Init ==
  /\ at = "idle" /\ call = None /\ leg = 1 /\ verified = << >> /\ session = FALSE
  /\ ep = 0 /\ live = {} /\ made = 0 /\ world = Fresh /\ history = << >>
  /\ doing = NoAction /\ index = 0 /\ saved = Fresh /\ answers = {} /\ start = Fresh
  /\ pending = {} /\ past = << >> /\ orphans = {} /\ result = Nothing /\ calls = 0

Stage == Harness[leg].stage
Rules == Harness[leg].rules

-----------------------------------------------------------------------------
(* How a call goes on and ends *)

Await(p) == at' = p /\ UNCHANGED result
Return(r) == at' = "idle" /\ result' = r
Raise == Return(Result(FALSE, "raised"))
May(fault) == fault \in Faults

(* Any await of the kernel may raise out of the call: a timeout, a state   *)
(* over its limit, an episode that is gone.                                *)
Interrupted ==
  /\ at \notin {"idle", "observe"} /\ (May("raise") \/ (ep = 0 /\ at # "materialize"))
  /\ Raise
  /\ UNCHANGED <<call, sessionVars, kernelVars, localVars, ghosts, calls>>

(* A call on a session that was never reset raises before any await. *)
Begin(c, p) ==
  /\ at = "idle" /\ calls < MaxCalls
  /\ call' = c /\ calls' = calls + 1 /\ at' = p /\ result' = Nothing
  /\ start' = world /\ past' = history /\ UNCHANGED orphans

-----------------------------------------------------------------------------
(* HarnessSession.reset and ChainSession.reset *)

(* A new HarnessSession for leg l. *)
NewSession(l) ==
  leg' = l /\ session' = TRUE /\ ep' = 0 /\ history' = << >>

ChainReset ==
  /\ IF session /\ ep # 0
     THEN Begin("reset", "teardown") /\ UNCHANGED sessionVars
     ELSE Begin("reset", "materialize") /\ NewSession(1) /\ verified' = << >>
  /\ UNCHANGED <<kernelVars, localVars>>

(* current.reset() by the client: the same leg again. *)
SessionReset ==
  /\ session /\ Begin("restart", IF ep # 0 THEN "teardown" ELSE "materialize")
  /\ UNCHANGED <<sessionVars, kernelVars, localVars>>

Close ==
  /\ session /\ ep # 0 /\ Begin("close", "teardown")
  /\ UNCHANGED <<sessionVars, kernelVars, localVars>>

(* Mutant: the next leg starts whatever the teardown said. *)
AfterFailedTeardown_GoesOn ==
  /\ NewSession(IF call = "reset" THEN 1 ELSE leg + 1) /\ UNCHANGED verified
  /\ Await("materialize")

(* A failed teardown keeps the episode; reset raises, the others say so. *)
AfterFailedTeardown ==
  /\ UNCHANGED sessionVars
  /\ IF call \in {"reset", "restart"} THEN Raise ELSE Return(Result(FALSE, "teardown failed"))

AfterTeardown ==
  CASE call = "reset" -> NewSession(1) /\ verified' = << >> /\ Await("materialize")
    [] call = "advance" -> NewSession(leg + 1) /\ UNCHANGED verified /\ Await("materialize")
    [] call = "restart" -> ep' = 0 /\ UNCHANGED <<leg, verified, session, history>>
                           /\ Await("materialize")
    [] OTHER -> ep' = 0 /\ UNCHANGED <<leg, verified, session, history>>
                /\ Return(Result(TRUE, "torn down"))

Teardown ==
  /\ at = "teardown" /\ ep # 0
  /\ \/ live' = live \ {ep} /\ pending' = {} /\ AfterTeardown
     \/ May("teardown") /\ UNCHANGED <<live, pending>> /\ AfterFailedTeardown
  /\ UNCHANGED <<call, made, world, answers, localVars, ghosts, calls>>

(* Mutant: a stage action may name any offered capability. *)
Admissible_AnyCapability(h) ==
  /\ \A i \in DOMAIN h.stage : h.stage[i].cap \in Caps
  /\ \A i \in DOMAIN h.rules : h.rules[i].effect = "rewrite" => h.rules[i].to \in Caps

(* _admit_harness: every stage action names a DO capability, every rewrite *)
(* an offered one.                                                         *)
Admissible(h) ==
  /\ \A i \in DOMAIN h.stage : h.stage[i].cap \in Caps \ Reads
  /\ \A i \in DOMAIN h.rules : h.rules[i].effect = "rewrite" => h.rules[i].to \in Caps

Materialize ==
  /\ at = "materialize"
  /\ \/ /\ made < MaxEpisodes
        /\ made' = made + 1 /\ ep' = made + 1 /\ live' = live \cup {made + 1}
        /\ world' = Fresh /\ history' = << >> /\ UNCHANGED <<answers, pending>>
        /\ Await(IF Admissible(Harness[leg]) THEN "baseline" ELSE "unstage")
     \/ /\ May("refuse") \/ made = MaxEpisodes
        /\ Return(Result(FALSE, "not materialized"))
        /\ UNCHANGED <<ep, kernelVars, history>>
  /\ UNCHANGED <<call, leg, verified, session, localVars, ghosts, calls>>

(* materialize() raises after it registered the episode: the ledger refused *)
(* its receipt.  The session never learns of the episode.                   *)
MaterializeRaises ==
  /\ at = "materialize" /\ May("raise") /\ made < MaxEpisodes /\ Raise
  /\ made' = made + 1 /\ live' = live \cup {made + 1} /\ orphans' = orphans \cup {made + 1}
  /\ UNCHANGED <<call, sessionVars, world, pending, answers, localVars, start, past, calls>>

(* The teardown of an inadmissible harness, before any stage action. *)
Cleanup ==
  /\ at = "unstage" /\ ~Admissible(Harness[leg])
  /\ \/ /\ live' = live \ {ep} /\ pending' = {} /\ ep' = 0
        /\ Return(Result(FALSE, "inadmissible"))
     \/ /\ May("teardown") /\ Return(Result(FALSE, "cleanup failed"))
        /\ UNCHANGED <<live, pending, ep>>
  /\ UNCHANGED <<call, leg, verified, session, history, made, world, answers, localVars,
                 ghosts, calls>>

(* Mutant: after the last stage action comes the first. *)
StageFrom_Wraps(i) ==
  /\ index' = IF i > Len(Stage) THEN 1 ELSE i
  /\ Await("stage") /\ doing' = Stage[index']

(* The next stage action, or the end of the reset. *)
StageFrom(i) ==
  /\ index' = i
  /\ IF i > Len(Stage) THEN Return(Result(TRUE, "staged")) /\ UNCHANGED doing
                       ELSE Await("stage") /\ doing' = Stage[i]

Baseline ==
  /\ at = "baseline" /\ saved' = world /\ StageFrom(1)
  /\ UNCHANGED <<call, sessionVars, kernelVars, ghosts, calls>>

(* What kernel.act comes back with.  A key known in the episode replays    *)
(* its answer, or conflicts and raises; a key whose first receipt is about *)
(* another episode is found out only by the ledger, after the effect.      *)
(* Otherwise the act is done or refused, and a refused one may have had    *)
(* its effect (a failing call, or a failing observation after it) or have  *)
(* timed out with the effect still to come.                                *)
ActAnswers(a) ==
  LET first == {r \in answers : r.key = a.key}
      Outcome(how, done, late) == [how |-> how, done |-> done, late |-> late]
      done == {Outcome("ok", TRUE, FALSE)} \cup
              (IF May("refuse") THEN {Outcome("refused", FALSE, FALSE)} ELSE {}) \cup
              (IF May("effect") THEN {Outcome("refused", TRUE, FALSE)} ELSE {}) \cup
              (IF May("late") /\ Cardinality(pending) < MaxLate
               THEN {Outcome("timeout", FALSE, TRUE)} ELSE {})
  IN  IF first = {} THEN done
      ELSE LET r == CHOOSE f \in first : TRUE IN
           IF r.ep # ep THEN {[d EXCEPT !.how = "raises"] : d \in done}
           ELSE {Outcome(IF r.cap = a.cap THEN r.how ELSE "raises", FALSE, FALSE)}

Refused == {"refused", "timeout"}

Late(a) == [key |-> a.key, cap |-> a.cap]

(* The kernel's side of act. *)
Acted(a, r) ==
  /\ world' = IF r.done THEN Effect[a.cap][world] ELSE world
  /\ pending' = IF r.late THEN pending \cup {Late(a)} ELSE pending
  /\ answers' = IF \E k \in answers : k.key = a.key THEN answers
                ELSE answers \cup {[key |-> a.key, ep |-> ep, cap |-> a.cap, how |-> r.how]}
  /\ UNCHANGED <<live, made>>

(* Between a checkpoint and its rollback: what lands here is undone too. *)
Undone ==
  \/ at = "act" /\ doing.expected # Always
  \/ at = "verify" /\ doing.cap \notin Reads
  \/ at = "rollback"

(* The effect of an act that timed out lands. *)
LateEffect ==
  /\ \E e \in pending :
       /\ pending' = pending \ {e} /\ world' = Effect[e.cap][world]
       /\ start' = IF Undone THEN start ELSE Effect[e.cap][start]
  /\ UNCHANGED <<at, call, sessionVars, live, made, answers, localVars, past, orphans, result,
                 calls>>

StageAct ==
  /\ at = "stage"
  /\ \E r \in ActAnswers(doing) :
       /\ Acted(doing, r)
       /\ CASE r.how = "raises" -> Raise /\ UNCHANGED <<doing, index>>
            [] r.how \in Refused -> Await("unstage") /\ UNCHANGED <<doing, index>>
            [] OTHER -> IF doing.expected # Always
                        THEN Await("staged") /\ UNCHANGED <<doing, index>>
                        ELSE StageFrom(index + 1)
  /\ UNCHANGED <<call, sessionVars, saved, ghosts, calls>>

StageVerify ==
  /\ at = "staged"
  /\ IF world \in doing.expected THEN StageFrom(index + 1)
                                 ELSE Await("unstage") /\ UNCHANGED <<doing, index>>
  /\ UNCHANGED <<call, sessionVars, kernelVars, saved, ghosts, calls>>

(* kernel.restore of the call's checkpoint. *)
Restored(good, bad) ==
  \/ world' = saved /\ Return(good)
  \/ /\ May("restore") /\ world' \in {world, saved} /\ Return(bad)

(* Mutant: the failure is reported without the rollback. *)
StageRollback_Skips ==
  /\ at = "unstage" /\ Admissible(Harness[leg]) /\ Return(Result(FALSE, "unstaged"))
  /\ UNCHANGED <<call, sessionVars, kernelVars, localVars, ghosts, calls>>

(* _failed_stage_result: the episode stays the session's. *)
StageRollback ==
  /\ at = "unstage" /\ Admissible(Harness[leg])
  /\ Restored(Result(FALSE, "unstaged"), Result(FALSE, "rollback failed"))
  /\ UNCHANGED <<call, sessionVars, live, made, pending, answers, localVars, ghosts,
                 calls>>

-----------------------------------------------------------------------------
(* HarnessSession.step *)

Step(a) ==
  /\ session /\ Begin("step", "admit") /\ doing' = a
  /\ UNCHANGED <<sessionVars, kernelVars, index, saved>>

(* _consecutive_count *)
Consecutive(cap) ==
  LET others == {i \in DOMAIN history : history[i] # cap} IN
  Len(history) - (IF others = {} THEN 0 ELSE CHOOSE i \in others : \A j \in others : j <= i)

(* A rule that speaks about capability cap now. *)
Fires(rule, cap) ==
  /\ rule.cap = cap
  /\ rule.when = {} \/ world \in rule.when
  /\ rule.limit = 0 \/ Consecutive(cap) >= rule.limit

(* Mutant: every rule is asked about the capability the client named. *)
Ruled_Asked ==
  LET fired == {n \in DOMAIN Rules : Fires(Rules[n], doing.cap)}
      rewrites == {n \in fired : Rules[n].effect = "rewrite"} IN
  IF \E n \in fired : Rules[n].effect = "deny" THEN "denied"
  ELSE IF rewrites = {} THEN doing.cap
  ELSE Rules[CHOOSE n \in rewrites : \A k \in rewrites : k <= n].to

(* The capability after the first n rules, or "denied": a rewrite changes  *)
(* what the later rules see, the earlier ones are not asked again.         *)
Ruled ==
  LET after[n \in 0..Len(Rules)] ==
        IF n = 0 THEN doing.cap
        ELSE LET c == after[n - 1] IN
             IF c = "denied" \/ ~Fires(Rules[n], c) THEN c
             ELSE CASE Rules[n].effect = "deny" -> "denied"
                    [] Rules[n].effect = "rewrite" -> Rules[n].to
                    [] OTHER -> c
  IN  after[Len(Rules)]

(* Every refusal still observes before it returns. *)
Refuse(why) == at' = "observe" /\ result' = Result(FALSE, why)
Accept(why) ==
  /\ at' = "observe" /\ result' = Result(TRUE, why)
  /\ history' = Append(history, doing.cap) /\ UNCHANGED <<leg, verified, session, ep>>

(* admit() against one observation, then the choice of the path. *)
Admit ==
  /\ at = "admit" /\ ep # 0
  /\ IF Ruled = "denied" THEN Refuse("denied") /\ UNCHANGED doing
     ELSE /\ doing' = [doing EXCEPT !.cap = Ruled]
          /\ IF Ruled \notin Caps THEN Refuse("unknown")
             ELSE IF Ruled \in Reads THEN Await("read")
             ELSE Await(IF doing.expected # Always THEN "checkpoint" ELSE "act")
  /\ UNCHANGED <<call, sessionVars, kernelVars, index, saved, ghosts, calls>>

Read ==
  /\ at = "read"
  /\ IF doing.expected # Always THEN Await("verify") /\ UNCHANGED sessionVars
                                ELSE Accept("read")
  /\ UNCHANGED <<call, kernelVars, localVars, ghosts, calls>>

Checkpoint ==
  /\ at = "checkpoint" /\ saved' = world /\ Await("act")
  /\ UNCHANGED <<call, sessionVars, kernelVars, doing, index, ghosts, calls>>

Act ==
  /\ at = "act"
  /\ \E r \in ActAnswers(doing) :
       /\ Acted(doing, r)
       /\ CASE r.how = "raises" -> Raise /\ UNCHANGED sessionVars
            [] r.how \in Refused -> Refuse("not acted") /\ UNCHANGED sessionVars
            [] OTHER -> IF doing.expected # Always THEN Await("verify") /\ UNCHANGED sessionVars
                        ELSE Accept("acted")
  /\ UNCHANGED <<call, localVars, ghosts, calls>>

(* Mutant: a failed postcondition only refuses. *)
VerifyStep_NoRollback ==
  /\ at = "verify"
  /\ IF world \in doing.expected THEN Accept("verified")
     ELSE Refuse("postcondition") /\ UNCHANGED sessionVars
  /\ UNCHANGED <<call, kernelVars, localVars, ghosts, calls>>

(* _verify_step_postcondition: reads are refused, acts are rolled back. *)
VerifyStep ==
  /\ at = "verify"
  /\ IF world \in doing.expected THEN Accept("verified")
     ELSE /\ UNCHANGED sessionVars
          /\ IF doing.cap \in Reads THEN Refuse("postcondition") ELSE Await("rollback")
  /\ UNCHANGED <<call, kernelVars, localVars, ghosts, calls>>

StepRollback ==
  /\ at = "rollback"
  /\ \/ world' = saved /\ Refuse("postcondition")
     \/ May("restore") /\ world' \in {world, saved} /\ Refuse("rollback failed")
  /\ UNCHANGED <<call, sessionVars, live, made, pending, answers, localVars, ghosts,
                 calls>>

(* The observation of the result; when it raises the result is lost. *)
Observe ==
  /\ at = "observe"
  /\ Return(result) \/ (May("raise") /\ Raise)
  /\ UNCHANGED <<call, sessionVars, kernelVars, localVars, ghosts, calls>>

-----------------------------------------------------------------------------
(* ChainSession.advance *)

Advance ==
  /\ session /\ Begin("advance", "judge")
  /\ UNCHANGED <<sessionVars, kernelVars, localVars>>

(* Mutant: the last leg is taken to be the one before it. *)
Judge_OffByOne ==
  /\ at = "judge" /\ ep # 0
  /\ IF world \notin Goal[leg]
     THEN Return(Result(FALSE, "not verified")) /\ UNCHANGED sessionVars
     ELSE /\ verified' = Append(verified, leg) /\ UNCHANGED <<leg, session, ep, history>>
          /\ IF leg + 1 = Legs THEN Return(Completed)
             ELSE Await("teardown")
  /\ UNCHANGED <<call, kernelVars, localVars, ghosts, calls>>

Judge ==
  /\ at = "judge" /\ ep # 0
  /\ IF world \notin Goal[leg]
     THEN Return(Result(FALSE, "not verified")) /\ UNCHANGED sessionVars
     ELSE /\ verified' = Append(verified, leg) /\ UNCHANGED <<leg, session, ep, history>>
          /\ IF leg = Legs THEN Return(Completed)
             ELSE Await("teardown")
  /\ UNCHANGED <<call, kernelVars, localVars, ghosts, calls>>

(* ChainSession.complete *)
Complete == Len(verified) = Legs

-----------------------------------------------------------------------------

HarnessStep ==
  \/ ChainReset \/ SessionReset \/ Close \/ Advance \/ (\E a \in Actions : Step(a))
  \/ Teardown \/ Materialize \/ MaterializeRaises \/ Cleanup \/ Baseline
  \/ StageAct \/ StageVerify \/ StageRollback
  \/ Admit \/ Read \/ Checkpoint \/ Act \/ VerifyStep \/ StepRollback \/ Observe
  \/ Judge \/ Interrupted

Next == HarnessStep \/ LateEffect

(* The kernel answers every await, in time or with a timeout; a late       *)
(* effect may never come.                                                  *)
Spec == Init /\ [][Next]_vars /\ WF_vars(at # "idle" /\ HarnessStep)

-----------------------------------------------------------------------------
(* Properties *)

Between == at = "idle"

(* No episode is left behind: whatever failed, the kernel has no live      *)
(* episode but the one the current session still names, so it can be torn  *)
(* down (reset, advance and the admission clean up before they let go),    *)
(* and those whose materialize() raised after registering them.            *)
NoEpisodeIsLost == live \subseteq {ep} \cup orphans

(* World w is what the first n stage actions of leg l make of a fresh one. *)
Staged(l, n, w) ==
  \E h \in [0..n -> Worlds] :
    /\ h[0] = Fresh /\ h[n] = w
    /\ \A i \in 1..n : h[i] = Effect[Harness[l].stage[i].cap][h[i - 1]]

(* The act under way was answered with a timeout in this episode. *)
TimedOut(a) == \E r \in answers : r.ep = ep /\ r.key = a.key /\ r.how = "timeout"

(* What a reset reports is so: an accepted one left the world with every   *)
(* stage action applied, and one that reports a rollback left it as        *)
(* materialized, also when a refused stage action had its effect.  The     *)
(* one exception is the effect of the last stage action, when that action  *)
(* timed out: it can land after the rollback.                              *)
ResetIsAllOrNothing ==
  Between /\ result.call \in {"reset", "restart", "advance"} =>
    /\ result.reason = "staged" => Staged(leg, Len(Stage), world)
    /\ result.reason = "unstaged" =>
         world = Fresh \/ (TimedOut(doing) /\ world = Effect[doing.cap][Fresh])

(* No stage action of a harness is applied when another of its actions is  *)
(* statically invalid: the preflight looks at all of them first.           *)
PreflightPrecedesStage ==
  at \in {"stage", "staged"} => \A i \in DOMAIN Stage : Stage[i].cap \in Caps \ Reads

(* A step that reports a failed postcondition (and no failed rollback)     *)
(* left the world as the step found it, but for effects of earlier acts    *)
(* that timed out; and no step that was refused is in the history, which   *)
(* the limits of the contracts count.                                      *)
FailedPostconditionsLeaveNoTrace ==
  Between /\ result.call = "step" =>
    /\ result.reason = "postcondition" => world = start
    /\ ~result.accepted /\ result.reason # "raised" => history = past

(* A denial with max_consecutive bounds the runs of its capability in the  *)
(* history of accepted steps, also when rewrites led to the capability, as *)
(* long as the denial stands behind them (LimitsFollowRewrites).           *)
LimitsHold ==
  \A n \in DOMAIN Rules :
    Limiting(Rules[n]) => Consecutive(Rules[n].cap) <= Rules[n].limit

(* A call of advance that reports completion comes after a verification of *)
(* every leg since the chain was reset.                                    *)
ReportedCompletionIsEarned ==
  result.complete => \A l \in 1..Legs : l \in Range(verified)

-----------------------------------------------------------------------------
(* The inductive invariants *)

(* Which call is at which await, and what its action is by then. *)
CallsAreInPlace ==
  /\ at \in {"materialize", "baseline", "stage", "staged", "unstage"} =>
       call \in {"reset", "restart", "advance"}
  /\ at = "judge" => call = "advance"
  /\ at = "teardown" => call \in {"reset", "restart", "advance", "close"} /\ ep # 0
  /\ at \in {"admit", "read", "checkpoint", "act", "verify", "rollback", "observe"} =>
       call = "step"
  /\ at = "read" => doing.cap \in Reads
  /\ at = "verify" => doing.cap \in Caps
  /\ at \in {"checkpoint", "act", "rollback"} => doing.cap \in Caps \ Reads
  /\ at \notin {"idle", "observe"} => result = Nothing

(* The kernel's episodes: only the session's lives, and every answer is    *)
(* about an episode there was.                                             *)
EpisodesAreKnown ==
  /\ NoEpisodeIsLost /\ 0 \notin live /\ ep \in 0..made
  /\ ~session => ep = 0 /\ at = "idle"
  /\ at = "materialize" => ep = 0
  /\ \A r \in answers : r.ep \in 0..made

(* The checkpoints of the calls under way. *)
CheckpointsAreOfTheStart ==
  /\ at \in {"admit", "read", "checkpoint"} => world = start
  /\ at = "act" /\ doing.expected # Always => saved = start
  /\ at = "verify" => IF doing.cap \in Reads THEN world = start ELSE saved = start
  /\ at = "rollback" => saved = start
  /\ at = "baseline" => world = Fresh
  /\ at \in {"stage", "staged"} \/ (at = "unstage" /\ Admissible(Harness[leg])) => saved = Fresh
  /\ result.reason = "postcondition" => world = start

(* The stage action under way, of a harness the preflight admitted. *)
StageIsAdmitted ==
  /\ at \in {"baseline", "stage", "staged"} => Admissible(Harness[leg])
  /\ at \in {"stage", "staged"} => index \in DOMAIN Stage /\ doing = Stage[index]

(* The legs behind the current one were verified, and so was this one when *)
(* advance lets go of it.                                                  *)
LegsAreVerified ==
  /\ \A l \in 1..Legs : l < leg => l \in Range(verified)
  /\ at = "teardown" /\ call = "advance" => leg < Legs /\ leg \in Range(verified)
  /\ ReportedCompletionIsEarned

(* Inductive with TypeOK, whatever the harness says and the kernel does. *)
HarnessInvariant ==
  /\ CallsAreInPlace /\ EpisodesAreKnown /\ CheckpointsAreOfTheStart
  /\ StageIsAdmitted /\ LegsAreVerified

(* Inductive with the above: late effects are of an episode the session    *)
(* names; while a stage is applied there is none, since a stage action     *)
(* that timed out was the last one.                                        *)
Inside == {"baseline", "stage", "staged", "unstage",
           "read", "checkpoint", "act", "verify", "rollback"}
PendingInvariant ==
  /\ \A e \in pending : e.cap \in Caps
  /\ ep = 0 => pending = {} /\ at \notin Inside
  /\ at \in {"baseline", "stage", "staged"} \/ result.reason = "staged" => pending = {}
  /\ at = "unstage" /\ Admissible(Harness[leg]) /\ pending # {} =>
       pending = {Late(doing)} /\ TimedOut(doing)
  /\ result.reason = "unstaged" =>
       \/ world = Fresh /\ (pending # {} => pending = {Late(doing)} /\ TimedOut(doing))
       \/ world = Effect[doing.cap][Fresh] /\ pending = {} /\ TimedOut(doing)

(* Inductive with the above: a step appends to the history only when it    *)
(* accepts, after its last check.                                          *)
HistoryInvariant ==
  /\ at \in {"admit", "read", "checkpoint", "act", "verify", "rollback"} => history = past
  /\ result.call = "step" /\ ~result.accepted /\ result.reason # "raised" => history = past

(* Inductive with the above when a stage repeats no key: the answers the   *)
(* new episode has are those of the stage actions applied so far, so each  *)
(* accepted one had its effect now.                                        *)
StageInvariant ==
  /\ at = "baseline" => \A r \in answers : r.ep # ep
  /\ at = "stage" =>
       /\ Staged(leg, index - 1, world)
       /\ \A r \in answers : r.ep = ep => \E j \in 1..(index - 1) : r.key = Stage[j].key
  /\ at = "staged" =>
       /\ Staged(leg, index, world)
       /\ \A r \in answers : r.ep = ep => \E j \in 1..index : r.key = Stage[j].key
  /\ result.reason = "staged" => Staged(leg, Len(Stage), world)

(* Inductive when limits follow rewrites: an admitted action of a limited  *)
(* capability still fits below the limit when it is appended.              *)
LimitInvariant ==
  /\ LimitsHold /\ \A n \in DOMAIN Rules : Consecutive(Rules[n].cap) \in Nat
  /\ at \in {"read", "checkpoint", "act", "verify"} =>
       \A n \in DOMAIN Rules :
         Limiting(Rules[n]) /\ Rules[n].cap = doing.cap =>
           Consecutive(doing.cap) < Rules[n].limit

(* The transaction the harness keeps, with the invariants it rests on.     *)
HarnessIsTransactional ==
  /\ NoEpisodeIsLost /\ PreflightPrecedesStage /\ ResetIsAllOrNothing
  /\ FailedPostconditionsLeaveNoTrace /\ LimitsHold /\ ReportedCompletionIsEarned
  /\ TypeOK /\ HarnessInvariant /\ PendingInvariant /\ HistoryInvariant
  /\ StageInvariant /\ LimitInvariant

-----------------------------------------------------------------------------
(* Every call ends: the stage loop, the rollback and the teardown too. *)
CallsEnd == (at # "idle") ~> (at = "idle")

(* The chain is complete only when every leg was verified: "success is the *)
(* conjunction of original leg verifiers".  A leg whose teardown fails is  *)
(* verified again by the next advance, and counted twice.                  *)
CompleteMeansEveryLeg ==
  Complete => \A l \in 1..Legs : l \in Range(verified)

(* A reset applies the stage transactionally: however it ends, the world   *)
(* has all of the stage or none of it.  The second reset of a session      *)
(* reuses the keys of its stage actions, and the ledger raises after the   *)
(* first of them had its effect.                                           *)
ResetIsTransactional ==
  Between /\ result.call \in {"reset", "restart"} =>
    world = Fresh \/ Staged(leg, Len(Stage), world)

(* A step whose action declares a postcondition is transactional: refused, *)
(* it left no effect, unless it says that the rollback failed.  A refused  *)
(* act that had its effect is returned without a rollback.                 *)
DeclaredStepsAreTransactional ==
  Between /\ result.call = "step" /\ doing.expected # Always /\ ~result.accepted
    /\ result.reason \notin {"rollback failed", "raised"} => world = start

(* A reset that reports the rollback of its stage left the world as        *)
(* materialized: the effect of a stage action that timed out can land      *)
(* after the rollback.                                                     *)
RollbackIsFinal ==
  Between /\ result.reason = "unstaged" => world = Fresh

(* The kernel has no live episode but the session's: materialize()         *)
(* registers the episode before its receipt, and raises when the ledger    *)
(* refuses that.                                                           *)
NoEpisodeIsForgotten == live \subseteq {ep}
=============================================================================
