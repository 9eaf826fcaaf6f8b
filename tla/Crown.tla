-------------------------------- MODULE Crown --------------------------------
(***************************************************************************)
(* Verified execution above the kernel: the BRCE broker (brce.py), the     *)
(* admission of grants (action_contract.py) and the Crown runtime          *)
(* (crown_runtime.py): act, verify on a second hold of the episode lock,   *)
(* receipt the judged transition, reconcile an uncertain one, retry under  *)
(* a new key.                                                              *)
(*                                                                         *)
(* A call of the kernel is one step here; Kernel.tla models what happens   *)
(* inside it.  Between the steps of one execution the others take theirs,  *)
(* and an effect whose call timed out may land.  The state of a world is   *)
(* one value: an action writes its own value, and the postcondition of an  *)
(* execution is a value the world should have.                             *)
(***************************************************************************)
EXTENDS ReceiptLedger, FiniteSets

CONSTANTS
  Execs,         \* executions the clients ask the broker for
  Episodes,      \* episode ids
  Values,        \* states of a world; 0 is the initial one
  KeyOf,         \* [Execs -> keys]: prepared.idempotency_key
  CapOf,         \* [Execs -> capabilities]: action.capability_ref
  ValOf,         \* [Execs -> Values]: what the payload writes
  ExpectedOf,    \* [Execs -> Values]: the postcondition
  Grants,        \* how action, prepared action, grant and revisions compare
  Retryable,     \* executions whose action is (conditionally) idempotent
  MaxAttempts,   \* bound: executions of one client request, retries included
  EpisodesOf,    \* [Execs -> SUBSET Episodes]: worlds an execution may name
  Faults         \* subset of {"observe", "provider", "late", "authority", "teardown"}

CrownAssumption ==
  /\ 0 \in Values /\ Values \subseteq Nat
  /\ None \notin Values /\ None \notin Episodes /\ None \notin Grants
  /\ ValOf \in [Execs -> Values] /\ EpisodesOf \in [Execs -> SUBSET Episodes]
  /\ \A g \in Grants : {g.expired, g.sameAction, g.sameCapability, g.sameSubject, g.inScope,
                        g.sameEffects} \subseteq BOOLEAN
  /\ MaxAttempts \in Nat \ {0}

VARIABLES
  pc,         \* where an execution is
  ep,         \* the episode it works on
  grant,      \* the grant it was last asked with
  attempt,    \* which attempt it is at, retries use new keys
  act,        \* the ActuationResult the kernel gave it
  standing,   \* the standing of its VerifiedTransition
  recon,      \* the disposition of its last reconciliation
  live,       \* episodes of the kernel
  world,      \* the state of each episode's world
  cache,      \* _actuation_idempotency
  ledger,     \* receipts, in order
  effects,    \* history: attempts whose effect reached the world
  pending     \* attempts whose timed-out effect may still land

execVars == <<pc, ep, grant, attempt, act, standing, recon>>
kernelVars == <<live, world, cache, ledger>>
crownVars == <<execVars, kernelVars, effects, pending>>

NoAct == [accepted |-> FALSE, standing |-> "NONE", reason |-> "NONE",
          id |-> None, pre |-> None, post |-> None]
Key(x) == <<KeyOf[x], attempt[x]>>

-----------------------------------------------------------------------------
(* Admission of the prepared action against its grant: the checks of       *)
(* admit_execution in order, each with the refusal it answers.             *)

Mismatch(a, b) == a # None /\ b # None /\ a # b

(* Mutant: the revision the world is at now is not looked at. *)
Admission_AnyRevision(g) ==
  CASE g.expired -> "POLICY_REFUSED"
    [] ~g.sameAction -> "IDENTITY_REFUSED"
    [] ~g.sameCapability -> "CAPABILITY_REFUSED"
    [] ~g.sameSubject -> "IDENTITY_REFUSED"
    [] ~g.inScope -> "AUTHORITY_REFUSED"
    [] Mismatch(g.grantRev, g.preparedRev) -> "REVISION_MISMATCH_REFUSED"
    [] ~g.sameEffects -> "PRECONDITION_REFUSED"
    [] OTHER -> "ADMITTED"

Admission(g) ==
  CASE g.expired -> "POLICY_REFUSED"
    [] ~g.sameAction -> "IDENTITY_REFUSED"
    [] ~g.sameCapability -> "CAPABILITY_REFUSED"
    [] ~g.sameSubject -> "IDENTITY_REFUSED"
    [] ~g.inScope -> "AUTHORITY_REFUSED"
    [] Mismatch(g.grantRev, g.preparedRev) -> "REVISION_MISMATCH_REFUSED"
    [] Mismatch(g.currentRev, IF g.grantRev # None THEN g.grantRev ELSE g.preparedRev)
         -> "REVISION_MISMATCH_REFUSED"
    [] ~g.sameEffects -> "PRECONDITION_REFUSED"
    [] OTHER -> "ADMITTED"

-----------------------------------------------------------------------------
(* Receipts *)

Receipt(x, kind, op, st, reason, pre, post, parent, verified) ==
  [id |-> <<x, attempt[x], kind>>, op |-> op, ep |-> ep[x],
   key |-> IF kind = "kernel_verify" THEN None ELSE Key(x),
   cap |-> IF kind = "kernel_verify" THEN None ELSE CapOf[x],
   standing |-> st, reason |-> reason, pre |-> pre, post |-> post,
   parent |-> parent, verified |-> verified]

(* execute_admitted receipts the transition again, bound to the grant. *)
Bound(x, r) == [r EXCEPT !.id = <<x, attempt[x], "bound">>, !.parent = r.id]

(* The ledger takes the receipts of one step in turn.  They are all of one *)
(* key, episode and capability, so it raises at the first or not at all.   *)
Rejected(rs) == rs # << >> /\ AppendRaises(ledger, rs[1])

Raise(x) ==
  /\ pc' = [pc EXCEPT ![x] = "raised"]
  /\ UNCHANGED <<standing, act>>

Return(x, st) ==
  /\ pc' = [pc EXCEPT ![x] = "done"]
  /\ standing' = [standing EXCEPT ![x] = st]

-----------------------------------------------------------------------------
(* The kernel's act(), as the broker meets it *)

Intent(x) == <<CapOf[x], ValOf[x]>>

(* What act() can come back with when nothing is cached: how the call of   *)
(* the provider ended, what it did, and what the observation that follows  *)
(* read.  When that one fails too the receipt repeats the digest before.   *)
ActOutcomes(x) ==
  LET before == world[ep[x]]
      hits == {<<"ALIVE", "NONE", "applied", ValOf[x]>>}
      errors == {<<"BLOCKED", why, "applied", ValOf[x]>> :
                   why \in {"PROVIDER_ERROR", "ACTUATION_TIMEOUT"}} \cup
                {<<"BLOCKED", why, "none", before>> :
                   why \in {"PROVIDER_ERROR", "ACTUATION_TIMEOUT"}}
      blind == {<<"BLOCKED", "OBSERVATION_FAILED", "applied", before>>}
      late == {<<"BLOCKED", "ACTUATION_TIMEOUT", "pending", before>>}
      denied == {<<"REFUSED", "AUTHORITY_REFUSED", "none", before>>} IN
  hits \cup (IF "provider" \in Faults THEN errors ELSE {})
       \cup (IF "observe" \in Faults THEN blind ELSE {})
       \cup (IF "late" \in Faults THEN late ELSE {})
       \cup (IF "authority" \in Faults THEN denied ELSE {})

(* Mutant: only a changed digest counts as a possible effect. *)
PossibleUnacknowledgedEffect_DigestOnly(a) == ~a.accepted /\ a.pre # a.post

PossibleUnacknowledgedEffect(a) ==
  \/ a.reason = "ACTUATION_TIMEOUT"
  \/ ~a.accepted /\ a.pre # a.post

(* execute_verified and execute_admitted once act() has answered a, having *)
(* recorded rs: they go on without awaiting, unless there is an effect to  *)
(* verify, and then the episode is looked up again.                        *)
Answer(x, a, rs) ==
  LET source == Receipt(x, "act", "ACT", a.standing, a.reason, a.pre, a.post, None, FALSE)
      uncertain == Receipt(x, "uncertain", "ACT", "UNCERTAIN",
                           "ACTUATION_OUTCOME_UNCERTAIN", a.pre, a.post, a.id, FALSE) IN
  \/ Rejected(rs) /\ Raise(x) /\ UNCHANGED ledger
  \/ /\ ~Rejected(rs) /\ act' = [act EXCEPT ![x] = a]
     /\ \/ /\ a.accepted
           /\ pc' = [pc EXCEPT ![x] = IF ep[x] \in live THEN "verify" ELSE "raised"]
           /\ ledger' = ledger \o rs /\ UNCHANGED standing
        \/ /\ ~a.accepted /\ PossibleUnacknowledgedEffect(a)
           /\ ledger' = ledger \o rs \o <<uncertain, Bound(x, uncertain)>>
           /\ Return(x, "UNCERTAIN")
        \/ /\ ~a.accepted /\ ~PossibleUnacknowledgedEffect(a)
           /\ ledger' = ledger \o rs \o <<Bound(x, [source EXCEPT !.id = a.id])>>
           /\ Return(x, a.standing)

(* The execution reaches the kernel: a replay of the cached answer, a      *)
(* refusal of another intent under the key, an observation that raises, or *)
(* the effect.                                                             *)
Act(x) ==
  LET e == ep[x]
      cached == cache[e][Key(x)]
      id == <<x, attempt[x], "act">> IN
  /\ pc[x] = "act"
  /\ UNCHANGED <<ep, grant, attempt, recon, live>>
  /\ \/ /\ cached # None /\ cached.intent = Intent(x)
        /\ Answer(x, cached.result, << >>)
        /\ UNCHANGED <<world, cache, effects, pending>>
     \/ /\ cached # None /\ cached.intent # Intent(x)
        /\ Answer(x, [NoAct EXCEPT !.standing = "REFUSED", !.id = id,
                        !.reason = "IDEMPOTENCY_KEY_CONFLICT", !.pre = world[e], !.post = world[e]],
             <<Receipt(x, "act", "ACT", "REFUSED", "IDEMPOTENCY_KEY_CONFLICT",
                       world[e], world[e], None, FALSE)>>)
        /\ UNCHANGED <<world, cache, effects, pending>>
     \/ /\ "observe" \in Faults \/ e \notin live
        /\ Raise(x)
        /\ UNCHANGED <<world, cache, ledger, effects, pending>>
     \/ /\ cached = None /\ e \in live
        /\ \E o \in ActOutcomes(x) :
             LET a == [accepted |-> o[1] = "ALIVE", standing |-> o[1], reason |-> o[2],
                       id |-> id, pre |-> world[e], post |-> o[4]]
                 rs == <<Receipt(x, "act", "ACT", o[1], o[2], a.pre, a.post, None, FALSE)>> IN
             /\ Answer(x, a, rs)
             /\ cache' = IF Rejected(rs) THEN cache
                         ELSE [cache EXCEPT ![e][Key(x)] = [intent |-> Intent(x), result |-> a]]
             /\ world' = IF o[3] = "applied" THEN [world EXCEPT ![e] = ValOf[x]] ELSE world
             /\ effects' = IF o[3] = "applied" THEN effects \cup {<<x, attempt[x]>>} ELSE effects
             /\ pending' = IF o[3] = "pending" THEN pending \cup {<<x, attempt[x]>>} ELSE pending

(* A timed-out effect lands after all. *)
LateEffect(x, n) ==
  /\ <<x, n>> \in pending
  /\ world' = [world EXCEPT ![ep[x]] = ValOf[x]]
  /\ effects' = effects \cup {<<x, n>>}
  /\ pending' = pending \ {<<x, n>>}
  /\ UNCHANGED <<execVars, live, cache, ledger>>

-----------------------------------------------------------------------------
(* BRCEBroker.execute: admission, then the sealed DO port, which looks the *)
(* episode up before it waits for the lock.                                *)

Refused(x, why) ==
  Receipt(x, "refused", "ACT", "REFUSED", why, None, None, None, FALSE)

Execute(x, e, g) ==
  LET why == Admission(g)
      refused == [Refused(x, why) EXCEPT !.ep = e] IN
  /\ pc[x] = "idle" /\ ep[x] \in {None, e}
  /\ ep' = [ep EXCEPT ![x] = e] /\ grant' = [grant EXCEPT ![x] = g]
  /\ UNCHANGED <<attempt, recon, live, world, cache, effects, pending>>
  /\ \/ /\ why # "ADMITTED" /\ Rejected(<<refused>>) /\ Raise(x) /\ UNCHANGED ledger
     \/ /\ why # "ADMITTED" /\ ~Rejected(<<refused>>)
        /\ ledger' = Append(ledger, refused)
        /\ Return(x, "REFUSED") /\ UNCHANGED act
     \/ /\ why = "ADMITTED"
        /\ pc' = [pc EXCEPT ![x] = IF e \in live THEN "act" ELSE "raised"]
        /\ UNCHANGED <<ledger, standing, act>>

(* Mutant: an accepted act is enough. *)
Verdict_Trusting(x) == "ALIVE"

Verdict(x) == IF world[ep[x]] = ExpectedOf[x] THEN "ALIVE" ELSE "REFUSED"

KernelVerify(x) ==
  Receipt(x, "kernel_verify", "VERIFY",
          IF world[ep[x]] = ExpectedOf[x] THEN "ALIVE" ELSE "UNCERTAIN", "JUDGED",
          None, world[ep[x]], None, world[ep[x]] = ExpectedOf[x])

(* The second hold of the lock: kernel.verify records its judgment, the    *)
(* Crown runtime the verified transition, the broker the bound one.        *)
Verify(x) ==
  LET e == ep[x]
      st == Verdict(x)
      r == Receipt(x, "verify", "VERIFY", st,
                   IF st = "ALIVE" THEN "NONE" ELSE "POSTCONDITION_FAILED",
                   act[x].pre, world[e], act[x].id, world[e] = ExpectedOf[x]) IN
  /\ pc[x] = "verify"
  /\ UNCHANGED <<ep, grant, attempt, recon, live, world, cache, effects, pending>>
  /\ \/ /\ "observe" \in Faults \/ e \notin live
        /\ Raise(x) /\ UNCHANGED ledger
     \/ /\ e \in live
        /\ ledger' = ledger \o <<KernelVerify(x), r, Bound(x, r)>>
        /\ Return(x, st) /\ UNCHANGED act

-----------------------------------------------------------------------------
(* reconcile_uncertain and admit_retry *)

(* Mutant: a third answer for what is neither confirmed nor absent. *)
Disposition_StillUncertain(x) ==
  CASE world[ep[x]] = ExpectedOf[x] -> "EFFECT_CONFIRMED"
    [] world[ep[x]] # ExpectedOf[x] /\ world[ep[x]] = act[x].pre -> "NO_EFFECT"
    [] OTHER -> "STILL_UNCERTAIN"

(* Mutant: everything the verifier does not confirm is called no effect. *)
Disposition_Hopeful(x) ==
  IF world[ep[x]] = ExpectedOf[x] THEN "EFFECT_CONFIRMED" ELSE "NO_EFFECT"

Disposition(x) ==
  CASE world[ep[x]] = ExpectedOf[x] -> "EFFECT_CONFIRMED"
    [] world[ep[x]] # ExpectedOf[x] /\ world[ep[x]] = act[x].pre -> "NO_EFFECT"
    [] OTHER -> "PARTIAL_EFFECT"

StandingOf(d) ==
  CASE d = "EFFECT_CONFIRMED" -> "ALIVE"
    [] d = "NO_EFFECT" -> "REFUSED"
    [] OTHER -> "UNCERTAIN"

Reconcile(x) ==
  LET e == ep[x]
      d == Disposition(x)
      r == Receipt(x, "reconciled", "VERIFY", StandingOf(d), d, act[x].pre, world[e],
                   act[x].id, world[e] = ExpectedOf[x]) IN
  /\ pc[x] = "done" /\ standing[x] = "UNCERTAIN" /\ recon[x] = "NONE"
  /\ UNCHANGED <<ep, grant, attempt, act, standing, live, world, cache, effects, pending>>
  /\ \/ /\ "observe" \in Faults \/ e \notin live
        /\ pc' = [pc EXCEPT ![x] = "raised"] /\ UNCHANGED <<recon, ledger>>
     \/ /\ e \in live
        /\ ledger' = ledger \o <<KernelVerify(x), r>>
        /\ recon' = [recon EXCEPT ![x] = d]
        /\ UNCHANGED pc

(* Mutant: any reconciled execution may be retried. *)
RetryAdmitted_Any(x) == recon[x] # "NONE"

RetryAdmitted(x) == recon[x] = "NO_EFFECT" /\ x \in Retryable

(* The candidate admit_retry makes is prepared anew: a new key, a new      *)
(* admission, the same action.                                             *)
Retry(x) ==
  /\ RetryAdmitted(x) /\ attempt[x] < MaxAttempts
  /\ pc' = [pc EXCEPT ![x] = "idle"]
  /\ attempt' = [attempt EXCEPT ![x] = @ + 1]
  /\ act' = [act EXCEPT ![x] = NoAct]
  /\ standing' = [standing EXCEPT ![x] = "NONE"]
  /\ recon' = [recon EXCEPT ![x] = "NONE"]
  /\ UNCHANGED <<ep, grant, kernelVars, effects, pending>>

-----------------------------------------------------------------------------
(* The broker on episodes that are already materialized *)

(* Somebody tears the episode down between two calls of an execution. *)
Teardown(e) ==
  /\ "teardown" \in Faults /\ e \in live
  /\ live' = live \ {e}
  /\ UNCHANGED <<execVars, world, cache, ledger, effects, pending>>

CrownInit(initial) ==
  /\ pc = [x \in Execs |-> "idle"]
  /\ ep = [x \in Execs |-> None]
  /\ grant = [x \in Execs |-> None]
  /\ attempt = [x \in Execs |-> 1]
  /\ act = [x \in Execs |-> NoAct]
  /\ standing = [x \in Execs |-> "NONE"]
  /\ recon = [x \in Execs |-> "NONE"]
  /\ live = initial
  /\ world = [e \in Episodes |-> 0]
  /\ cache = [e \in Episodes |-> [k \in {KeyOf[x] : x \in Execs} \X (1..MaxAttempts) |-> None]]
  /\ ledger = << >>
  /\ effects = {}
  /\ pending = {}

Step(x) ==
  \/ Act(x)
  \/ Verify(x)
  \/ Reconcile(x)
  \/ Retry(x)
  \/ \E n \in 1..MaxAttempts : LateEffect(x, n)

CrownNext ==
  \/ \E x \in Execs : Step(x) \/ \E e \in EpisodesOf[x], g \in Grants : Execute(x, e, g)
  \/ \E e \in Episodes : Teardown(e)

CrownSpec == CrownInit(Episodes) /\ [][CrownNext]_crownVars

-----------------------------------------------------------------------------
(* Properties *)

Standings == {"NONE", "ALIVE", "REFUSED", "BLOCKED", "UNCERTAIN"}
Dispositions == {"NONE", "EFFECT_CONFIRMED", "NO_EFFECT", "PARTIAL_EFFECT"}
Attempts == Execs \X (1..MaxAttempts)
Keys == {KeyOf[x] : x \in Execs} \X (1..MaxAttempts)
Caps == {CapOf[x] : x \in Execs}
Kinds == {"act", "uncertain", "bound", "refused", "kernel_verify", "verify", "reconciled"}
Reasons ==
  {"PROVIDER_ERROR", "ACTUATION_TIMEOUT", "OBSERVATION_FAILED", "AUTHORITY_REFUSED",
   "IDEMPOTENCY_KEY_CONFLICT", "ACTUATION_OUTCOME_UNCERTAIN", "JUDGED", "POSTCONDITION_FAILED",
   "POLICY_REFUSED", "IDENTITY_REFUSED", "CAPABILITY_REFUSED", "REVISION_MISMATCH_REFUSED",
   "PRECONDITION_REFUSED"} \cup Dispositions
Ids == Execs \X (1..MaxAttempts) \X Kinds
Digests == Values \cup {None}
Results == [accepted : BOOLEAN, standing : Standings, reason : Reasons, id : Ids \cup {None},
            pre : Digests, post : Digests]
Entries == [intent : Caps \X Values, result : Results]
Receipts == [id : Ids, op : {"ACT", "VERIFY"}, ep : Episodes, key : Keys \cup {None},
             cap : Caps \cup {None}, standing : Standings, reason : Reasons, pre : Digests,
             post : Digests, parent : Ids \cup {None}, verified : BOOLEAN]

(* Every variable of the broker and its view of the kernel has its type:   *)
(* in particular a retry never goes past the bound on attempts.            *)
CrownTypeOK ==
  /\ pc \in [Execs -> {"idle", "act", "verify", "done", "raised"}]
  /\ ep \in [Execs -> Episodes \cup {None}]
  /\ grant \in [Execs -> Grants \cup {None}]
  /\ attempt \in [Execs -> 1..MaxAttempts]
  /\ act \in [Execs -> Results]
  /\ standing \in [Execs -> Standings]
  /\ recon \in [Execs -> Dispositions]
  /\ live \subseteq Episodes
  /\ world \in [Episodes -> Values]
  /\ cache \in [Episodes -> [Keys -> Entries \cup {None}]]
  /\ ledger \in Seq(Receipts)
  /\ effects \subseteq Attempts /\ pending \subseteq Attempts

(* execute_verified: "only the verified transition may be Crown ALIVE".    *)
(* An ALIVE answer stands on a receipted, accepted act of the same key and *)
(* episode, on an effect some execution really had, and on a later receipt *)
(* that judged the expected state, whatever other executions did between.  *)
AcceptedAt(i, e, k) ==
  /\ ledger[i].op = "ACT" /\ ledger[i].standing = "ALIVE"
  /\ ledger[i].ep = e /\ ledger[i].key = k
  /\ <<ledger[i].id[1], ledger[i].id[2]>> \in effects
AliveIsEvidenced ==
  \A x \in Execs : standing[x] = "ALIVE" =>
    \E i, j \in DOMAIN ledger :
      /\ i < j /\ AcceptedAt(i, ep[x], Key(x))
      /\ ledger[j].id = <<x, attempt[x], "verify">> /\ ledger[j].parent = ledger[i].id
      /\ ledger[j].verified /\ ledger[j].post = ExpectedOf[x]

(* No effect is answered as if nothing had happened: an execution that     *)
(* reached the world and returned left an accepted act or an uncertain     *)
(* receipt (crown_runtime.py _possible_unacknowledged_effect), unless the  *)
(* world already was in the state it writes.                               *)
EffectsAreNotSilent ==
  \A x \in Execs : pc[x] = "done" /\ <<x, attempt[x]>> \in effects =>
    \/ act[x].accepted
    \/ standing[x] = "UNCERTAIN"
    \/ act[x].pre = ValOf[x]

(* Whoever reaches the world was admitted: the grant was alive and of the  *)
(* same action, capability, subject, scope and effects, and no two of the  *)
(* revisions known to the grant, the prepared action and the caller differ *)
(* (admit_execution compares them pairwise, and None with nothing).        *)
NothingActsUnadmitted ==
  \A x \in Execs :
    LET g == grant[x] IN
    <<x, attempt[x]>> \in effects \cup pending =>
      /\ ~g.expired /\ g.sameAction /\ g.sameCapability /\ g.sameSubject
      /\ g.inScope /\ g.sameEffects
      /\ Cardinality({g.grantRev, g.preparedRev, g.currentRev} \ {None}) <= 1

(* All attempts at one request, retries under new keys included, change an *)
(* exclusive world at most once: admit_retry follows NO_EFFECT only, and   *)
(* NO_EFFECT is only said of a world that is as it was.                    *)
RetriesNeverDoubleTheEffect ==
  \A x \in Execs : Cardinality({n \in 1..MaxAttempts : <<x, n>> \in effects}) <= 1

(* What reconcile_uncertain says of an exclusive world is true. *)
DispositionsAreTruthful ==
  \A x \in Execs :
    /\ recon[x] = "NO_EFFECT" => <<x, attempt[x]>> \notin effects
    /\ recon[x] \in {"EFFECT_CONFIRMED", "PARTIAL_EFFECT"} => <<x, attempt[x]>> \in effects

(* The inductive invariants behind these.  Whatever an execution has done  *)
(* or is about to do to the world, its last grant admits; a standing is    *)
(* only given at the end; what waits for verification, or is cached as     *)
(* accepted, has its receipt and its effect; an effect that may still land *)
(* was answered as uncertain, or by an exception.                          *)
Evidenced(e, k, id) == \E i \in DOMAIN ledger : AcceptedAt(i, e, k) /\ ledger[i].id = id
IsAdmitted(x) == ep[x] \in Episodes /\ grant[x] \in Grants /\ Admission(grant[x]) = "ADMITTED"
WorkIsSound(x) ==
  /\ pc[x] \in {"idle", "act", "verify"} => standing[x] = "NONE"
  /\ pc[x] \in {"act", "verify"} => IsAdmitted(x)
  /\ \A n \in 1..MaxAttempts :
       <<x, n>> \in effects \cup pending =>
         n <= attempt[x] /\ (n = attempt[x] => pc[x] # "idle" /\ IsAdmitted(x))
  /\ pc[x] = "verify" => act[x].accepted /\ Evidenced(ep[x], Key(x), act[x].id)
  /\ <<x, attempt[x]>> \in pending =>
       pc[x] = "raised" \/ (pc[x] = "done" /\ standing[x] = "UNCERTAIN")
CacheIsEvidenced ==
  \A e \in Episodes, k \in Keys :
    LET c == cache[e][k] IN
    c # None => /\ c.result.accepted <=> c.result.standing = "ALIVE"
                /\ c.result.accepted => Evidenced(e, k, c.result.id)
CrownInvariant ==
  /\ CrownTypeOK /\ AliveIsEvidenced /\ CacheIsEvidenced
  /\ \A x \in Execs : WorkIsSound(x)

(* Worlds of one request each, which its action and its postcondition ask  *)
(* to change, and no effect that lands after its call was given up.        *)
ExclusiveWorlds ==
  /\ "late" \notin Faults
  /\ \A x \in Execs : ValOf[x] # 0 /\ ExpectedOf[x] # 0
  /\ \A x, y \in Execs : x # y => EpisodesOf[x] \cap EpisodesOf[y] = {}

(* Such a world is as it was until the one effect of the request, and      *)
(* nobody else has used its keys.                                          *)
WorldIsExclusive(x) ==
  \A e \in EpisodesOf[x] :
    /\ \A k \in Keys :
         cache[e][k] # None =>
           /\ ep[x] = e /\ k[1] = KeyOf[x] /\ k[2] <= attempt[x]
           /\ k[2] = attempt[x] => pc[x] \notin {"idle", "act"}
    /\ IF \E n \in 1..MaxAttempts : <<x, n>> \in effects
       THEN ep[x] = e => world[e] = ValOf[x]
       ELSE world[e] = 0
RetryIsSound(x) ==
  /\ ep[x] # None => ep[x] \in EpisodesOf[x]
  /\ \A n \in 1..MaxAttempts : <<x, n>> \in effects => n = attempt[x]
  /\ pc[x] \in {"idle", "act"} => recon[x] = "NONE" /\ <<x, attempt[x]>> \notin effects
  /\ standing[x] = "UNCERTAIN" => act[x].pre = 0
  /\ WorldIsExclusive(x)
RetryInvariant == pending = {} /\ DispositionsAreTruthful /\ \A x \in Execs : RetryIsSound(x)

(* What the broker owes about effects, with the condition of each part: an *)
(* effect is of an admitted grant; it shows in the answer, when the        *)
(* observation after it works; and requests that have their world for      *)
(* themselves change it once, over all their retries.                      *)
EffectsAreAccountedFor ==
  /\ NothingActsUnadmitted
  /\ "observe" \notin Faults => EffectsAreNotSilent
  /\ ExclusiveWorlds => RetriesNeverDoubleTheEffect /\ RetryInvariant
=============================================================================
