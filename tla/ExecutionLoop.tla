--------------------------- MODULE ExecutionLoop ---------------------------
(***************************************************************************)
(* AutonomousLoop (execution_loop.py): one request at a time is taken      *)
(* through gates, claim, execution, verification and receipt over a list   *)
(* of providers, with bounded retries, substitutions and replans, and with *)
(* a memory of completed and of unreconciled idempotency keys that         *)
(* redelivered requests meet.                                              *)
(*                                                                         *)
(* A step is one call to a collaborator (claim, execute, the subject's     *)
(* SHA, the verifier) and the code up to the next one; the outside world   *)
(* moves the subject, the clock and the providers in between.              *)
(***************************************************************************)
EXTENDS Integers, Sequences, FiniteSets

CONSTANTS
  None,
  Requests,        \* deliverable requests; equal members have equal digests
  Keys, KeyOf,     \* idempotency keys
  N,               \* number of providers, tried in the order 1..N
  CapableOf,       \* providers whose capabilities and ceiling suit a request
  ExpiresAt,       \* tick at which the grant of a request expires, or None
  Shas,            \* subject revisions
  MaxRetries, MaxSwitches, MaxMoves, Deadline,   \* ResourceConstraints
  MaxDeliveries,   \* bound: deliveries in a behaviour
  MaxTick,         \* bound: the last tick told apart from later ones
  ClockRuns,       \* FALSE: the default clock, which never advances
  Faults           \* what collaborators do wrong in this instance

AllFaults == {"authority", "resource", "resolve", "claim", "crash", "journal_lost",
              "transport", "hidden", "verifier", "digest", "outage", "escape"}

ASSUME LoopAssumption ==
  /\ None \notin Nat \cup Requests
  /\ None \notin [req : Requests, count : Nat]
  /\ None \notin [req : Requests, how : {"receipted", "unreconciled"}]
  /\ KeyOf \in [Requests -> Keys]
  /\ N \in Nat \ {0}
  /\ CapableOf \in [Requests -> SUBSET (1..N)]
  /\ ExpiresAt \in [Requests -> Nat \cup {None}]
  /\ Shas \subseteq Nat /\ Shas # {}
  /\ MaxRetries \in Nat /\ MaxSwitches \in Nat /\ MaxMoves \in Nat /\ Deadline \in Nat
  /\ MaxDeliveries \in Nat /\ MaxTick \in Nat /\ Deadline <= MaxTick
  /\ \A r \in Requests : ExpiresAt[r] = None \/ ExpiresAt[r] <= MaxTick
  /\ ClockRuns \in BOOLEAN
  /\ Faults \subseteq AllFaults

VARIABLES
  phase,         \* the call the loop makes next, "idle" between deliveries
  run,           \* the locals of _run
  acts,          \* _actuations: the ledger of the current run
  completed,     \* _completed
  unreconciled,  \* _unreconciled
  result,        \* what the last run returned
  now, sha, up,  \* clock, subject revision, available providers
  deliveries,    \* number of deliveries so far
  effects        \* history: every effect on the world, by key

memory == <<completed, unreconciled>>
outside == <<now, sha, up>>
vars == <<phase, run, acts, memory, result, outside, deliveries, effects>>

-----------------------------------------------------------------------------
(* Types *)

Phases == {"idle", "resolve", "claim", "execute", "journal", "journal_verify",
           "observe", "verify", "recheck"}
ShaOrNone == Shas \cup {None}
Run == [req : Requests \cup {None}, idx : 0..N, attempts : Nat, faults : Nat,
        switches : Nat, moves : Nat, claims : Nat, checks : Nat,
        before : ShaOrNone, pin : ShaOrNone, declared : ShaOrNone, seen : ShaOrNone,
        digest : BOOLEAN]
Actuation == [exec : Nat, declared : ShaOrNone]
ReceiptRecord ==
  [req : Requests, exec : Nat, before : ShaOrNone, after : ShaOrNone, pin : ShaOrNone,
   judged : ShaOrNone, acts : Seq(Actuation)]
ASSUME ReceiptAssumption == None \notin ReceiptRecord

Effects == [delivery : Nat, exec : Nat, known : BOOLEAN]
Outcomes == {"None", "Recover", "Refuse", "TypedBlock", "Raised"}

NoRun == [req |-> None, idx |-> 0, attempts |-> 0, faults |-> 0, switches |-> 0,
          moves |-> 0, claims |-> 0, checks |-> 0, before |-> None, pin |-> None,
          declared |-> None, seen |-> None, digest |-> FALSE]
NoResult == [outcome |-> "None", receipt |-> None, count |-> 0]

Init ==
  /\ phase = "idle" /\ run = NoRun /\ acts = << >>
  /\ completed = [k \in Keys |-> None]
  /\ unreconciled = [k \in Keys |-> None]
  /\ result = NoResult
  /\ now = 0 /\ sha \in Shas /\ up = 1..N
  /\ deliveries = 0
  /\ effects = [k \in Keys |-> {}]

-----------------------------------------------------------------------------
(* Helpers *)

Key == KeyOf[run.req]
Expired(r) == ExpiresAt[r] # None /\ ExpiresAt[r] <= now

(* _advance; ticks from MaxTick on, past deadline and expiry, are alike. *)
Later(n) == IF ~ClockRuns THEN now ELSE IF now + n < MaxTick THEN now + n ELSE MaxTick

(* _next_capable_index: the first available, capable provider after i. *)
Candidates(r, i) == {j \in (i + 1)..N : j \in up /\ j \in CapableOf[r]}
IsNext(r, i, j) == j \in Candidates(r, i) /\ \A m \in Candidates(r, i) : j <= m

(* _subject_attributable *)
Attributable(s) == s = run.pin \/ (run.declared # None /\ s = run.declared)

(* Mutant: only a typed block is remembered, a refusal after actuation is not. *)
Remember_BlocksOnly(r, outcome, a) ==
  unreconciled' = IF a # << >> /\ outcome = "TypedBlock"
                  THEN [unreconciled EXCEPT ![KeyOf[r]] = [req |-> r, count |-> Len(a)]]
                  ELSE unreconciled

(* run: an actuated run without a receipt is remembered by its key. *)
Remember(r, outcome, a) ==
  unreconciled' = IF a # << >>
                  THEN [unreconciled EXCEPT ![KeyOf[r]] = [req |-> r, count |-> Len(a)]]
                  ELSE unreconciled

(* A refusal or typed block: the run ends without a receipt. *)
Stop(r, outcome, a) ==
  /\ phase' = "idle"
  /\ result' = [outcome |-> outcome, receipt |-> None, count |-> Len(a)]
  /\ Remember(r, outcome, a)
  /\ UNCHANGED completed

Proceed(p) == phase' = p /\ UNCHANGED <<memory, result>>

(* The verified end: the receipt lists the whole ledger of the run. *)
Complete(judged, after) ==
  LET receipt == [req |-> run.req, exec |-> run.claims, before |-> run.before,
                  after |-> after, pin |-> run.pin, judged |-> judged, acts |-> acts] IN
  /\ phase' = "idle"
  /\ completed' = [completed EXCEPT ![Key] = receipt]
  /\ result' = [outcome |-> "Recover", receipt |-> receipt, count |-> Len(acts)]
  /\ UNCHANGED unreconciled

-----------------------------------------------------------------------------
(* A delivery and its gates *)

(* Mutant: the gate forgets the runs that ended without a receipt. *)
DedupeGate_CompletedOnly(r) ==
  LET k == KeyOf[r] IN
  \/ completed[k] # None /\ completed[k].req = r
       /\ phase' = "idle" /\ result' = [outcome |-> "Recover", receipt |-> completed[k], count |-> 0]
       /\ UNCHANGED memory
  \/ completed[k] # None /\ completed[k].req # r /\ Stop(r, "Refuse", << >>)
  \/ completed[k] = None /\ Proceed("resolve")

DedupeGate(r) ==
  LET k == KeyOf[r] IN
  \/ completed[k] # None /\ completed[k].req = r
       /\ phase' = "idle" /\ result' = [outcome |-> "Recover", receipt |-> completed[k], count |-> 0]
       /\ UNCHANGED memory
  \/ completed[k] # None /\ completed[k].req # r /\ Stop(r, "Refuse", << >>)
  \/ completed[k] = None /\ unreconciled[k] # None
       /\ Stop(r, IF unreconciled[k].req = r THEN "TypedBlock" ELSE "Refuse", << >>)
  \/ completed[k] = None /\ unreconciled[k] = None /\ Proceed("resolve")

(* _authority_gate, _feasibility_gate and _resource_gate *)
AuthorityRefuses(r) == Expired(r) \/ "authority" \in Faults
Feasible(r) == CapableOf[r] # {}
ResourceBlocks == "resource" \in Faults

(* _run up to execution.start; the gates are asked in this order. *)
Deliver(r) ==
  /\ phase = "idle" /\ deliveries < MaxDeliveries
  /\ deliveries' = deliveries + 1
  /\ run' = [NoRun EXCEPT !.req = r]
  /\ acts' = << >>
  /\ UNCHANGED <<outside, effects>>
  /\ \/ AuthorityRefuses(r) /\ Stop(r, "Refuse", << >>)
     \/ ~Expired(r) /\ ~Feasible(r) /\ Stop(r, "Refuse", << >>)
     \/ ~Expired(r) /\ Feasible(r) /\ ResourceBlocks /\ Stop(r, "TypedBlock", << >>)
     \/ ~Expired(r) /\ Feasible(r) /\ DedupeGate(r)

(* The subject is resolved afresh and the first provider selected. *)
Resolve ==
  /\ phase = "resolve"
  /\ UNCHANGED <<acts, outside, deliveries, effects>>
  /\ \/ ("resolve" \in Faults \/ Candidates(run.req, 0) = {})
          /\ Stop(run.req, "TypedBlock", acts) /\ UNCHANGED run
     \/ \E j \in 1..N :
          /\ IsNext(run.req, 0, j)
          /\ run' = [run EXCEPT !.before = sha, !.idx = j]
          /\ Proceed("claim")

-----------------------------------------------------------------------------
(* Claim *)

(* Mutant: the attempts of a provider are never exhausted, only its faults. *)
Exhausted_ByTimeOnly == now >= Deadline

Exhausted == run.attempts > MaxRetries \/ now >= Deadline

(* Mutant: the switch budget is off by one. *)
SwitchesLeft_OffByOne == run.switches <= MaxSwitches

SwitchesLeft == run.switches < MaxSwitches

(* provider.replace: a fresh retry budget on the next capable provider. *)
Substitute(r) ==
  \/ /\ Candidates(run.req, run.idx) = {} \/ ~SwitchesLeft
     /\ Stop(run.req, "TypedBlock", acts) /\ run' = r
  \/ \E j \in 1..N :
       /\ IsNext(run.req, run.idx, j) /\ SwitchesLeft
       /\ run' = [r EXCEPT !.switches = @ + 1, !.faults = 0, !.attempts = 0, !.idx = j]
       /\ Proceed("claim")

(* The top of the loop refuses before it claims. *)
GiveUp ==
  /\ phase = "claim"
  /\ \/ Exhausted /\ Stop(run.req, "TypedBlock", acts)
     \/ ~Exhausted /\ Expired(run.req) /\ Stop(run.req, "Refuse", acts)
  /\ UNCHANGED <<run, acts, outside, deliveries, effects>>

Claim ==
  /\ phase = "claim" /\ ~Exhausted /\ ~Expired(run.req)
  /\ run' = [run EXCEPT !.attempts = @ + 1, !.claims = @ + 1, !.pin = sha]
  /\ Proceed("execute")
  /\ UNCHANGED <<acts, outside, deliveries, effects>>

(* A claim that faults: back off and retry here, or move on to the next    *)
(* provider.  A rate limit backs off exponentially first.                  *)
ClaimFault ==
  /\ phase = "claim" /\ ~Exhausted /\ ~Expired(run.req) /\ "claim" \in Faults
  /\ \E backoff \in {0, IF run.attempts >= 2 THEN 8 ELSE 2 * (run.attempts + 1)} :
       IF run.faults < MaxRetries
       THEN /\ now' = Later(backoff + 1)
            /\ run' = [run EXCEPT !.attempts = @ + 1, !.claims = @ + 1, !.faults = @ + 1]
            /\ Proceed("claim")
       ELSE now' = Later(backoff) /\ Substitute([run EXCEPT !.attempts = @ + 1, !.claims = @ + 1])
  /\ UNCHANGED <<acts, sha, up, deliveries, effects>>

-----------------------------------------------------------------------------
(* Execute *)

(* An effect on the subject: it stays where it is or is committed to s;    *)
(* `known` says whether the loop is told of it.                            *)
Actuate(s, known) ==
  /\ sha' = s
  /\ effects' = [effects EXCEPT ![Key] =
       @ \cup {[delivery |-> deliveries, exec |-> run.claims, known |-> known]}]

(* _record_actuation of the effect the provider returned or journaled. *)
Witness(s, p) ==
  \E d \in {None, s}, digest \in {TRUE, "digest" \notin Faults} :
     /\ run' = [run EXCEPT !.declared = d, !.digest = digest]
     /\ acts' = Append(acts, [exec |-> run.claims, declared |-> d])
     /\ Proceed(p)

(* The grant is checked again between claim and execution. *)
ExpiredAfterClaim ==
  /\ phase = "execute" /\ Expired(run.req)
  /\ Stop(run.req, "Refuse", acts)
  /\ UNCHANGED <<run, acts, outside, deliveries, effects>>

Execute ==
  /\ phase = "execute" /\ ~Expired(run.req)
  /\ \E s \in Shas : Actuate(s, TRUE) /\ Witness(s, "observe")
  /\ UNCHANGED <<now, up, deliveries>>

(* WorkerCrashed(applied_before=True): reconcile from the journal, or give *)
(* up if the journal has nothing.                                          *)
CrashAfter ==
  /\ phase = "execute" /\ ~Expired(run.req) /\ "crash" \in Faults
  /\ \E s \in Shas :
       \/ Actuate(s, TRUE) /\ Witness(s, "journal")
       \/ /\ "journal_lost" \in Faults
          /\ Actuate(s, FALSE) /\ Stop(run.req, "TypedBlock", acts)
          /\ UNCHANGED <<run, acts>>
  /\ UNCHANGED <<now, up, deliveries>>

(* WorkerCrashed(applied_before=False): retried in place. *)
CrashBefore ==
  /\ phase = "execute" /\ ~Expired(run.req) /\ "crash" \in Faults
  /\ now' = Later(1) /\ Proceed("claim")
  /\ UNCHANGED <<run, acts, sha, up, deliveries, effects>>

(* TransportFault: applied_before is not looked at. *)
ExecuteFault ==
  /\ phase = "execute" /\ ~Expired(run.req) /\ "transport" \in Faults
  /\ \/ UNCHANGED <<sha, effects>>
     \/ "hidden" \in Faults /\ \E s \in Shas : Actuate(s, FALSE)
  /\ IF run.faults < MaxRetries
     THEN /\ now' = Later(1)
          /\ run' = [run EXCEPT !.faults = @ + 1]
          /\ Proceed("claim")
     ELSE now' = now /\ Substitute(run)
  /\ UNCHANGED <<acts, up, deliveries>>

-----------------------------------------------------------------------------
(* Moving subjects, verification and the receipt *)

(* Mutant: a replan gives its budget back. *)
Replan_Refunds(r) ==
  /\ run.moves < MaxMoves
  /\ run' = [r EXCEPT !.moves = @ - 1]
  /\ UNCHANGED acts
  /\ Proceed("claim")

(* Mutant: a replan starts its ledger afresh. *)
Replan_ForgetsLedger(r) ==
  /\ run.moves < MaxMoves
  /\ run' = [r EXCEPT !.moves = @ + 1]
  /\ acts' = << >>
  /\ Proceed("claim")

(* reconcile.replan within the budget of subject moves. *)
Replan(r) ==
  /\ run.moves < MaxMoves
  /\ run' = [r EXCEPT !.moves = @ + 1]
  /\ UNCHANGED acts
  /\ Proceed("claim")

Blocked == Stop(run.req, "TypedBlock", acts) /\ UNCHANGED <<run, acts>>

(* The subject moved under the actuation: replan (which resolves the       *)
(* subject again) or give up.                                              *)
Moved(r) ==
  \/ Replan(r)
  \/ (run.moves >= MaxMoves \/ "resolve" \in Faults) /\ Blocked

Observe ==
  /\ phase = "observe"
  /\ \/ ~Attributable(sha) /\ Moved([run EXCEPT !.before = run.pin])
     \/ Attributable(sha) /\ ~run.digest /\ Blocked
     \/ /\ Attributable(sha) /\ run.digest
        /\ run' = [run EXCEPT !.seen = sha, !.checks = 0]
        /\ Proceed("verify") /\ UNCHANGED acts
  /\ UNCHANGED <<outside, deliveries, effects>>

(* Mutant: a rejected verification looks at the subject again, where the   *)
(* count of rejections starts anew.                                        *)
Verify_Reobserves ==
  /\ phase = "verify"
  /\ \/ Proceed("recheck") /\ UNCHANGED <<now, run, acts>>
     \/ /\ "verifier" \in Faults /\ run.checks < MaxRetries
        /\ run' = [run EXCEPT !.checks = @ + 1]
        /\ now' = Later(1)
        /\ Proceed("observe") /\ UNCHANGED acts
     \/ /\ "verifier" \in Faults /\ run.checks = MaxRetries
        /\ Blocked /\ UNCHANGED now
  /\ UNCHANGED <<sha, up, deliveries, effects>>

Verify ==
  /\ phase = "verify"
  /\ \/ Proceed("recheck") /\ UNCHANGED <<now, run, acts>>
     \/ /\ "verifier" \in Faults /\ run.checks < MaxRetries
        /\ run' = [run EXCEPT !.checks = @ + 1]
        /\ now' = Later(1)
        /\ Proceed("verify") /\ UNCHANGED acts
     \/ /\ "verifier" \in Faults /\ run.checks = MaxRetries
        /\ Blocked /\ UNCHANGED now
  /\ UNCHANGED <<sha, up, deliveries, effects>>

(* Mutant: no look for a silent mutation between verification and receipt. *)
Recheck_Trusting ==
  /\ phase = "recheck"
  /\ now' = Later(1) /\ Complete(run.seen, sha) /\ UNCHANGED <<run, acts>>
  /\ UNCHANGED <<sha, up, deliveries, effects>>

(* The check for a silent mutation, the receipt, and its acknowledgement,  *)
(* whose loss changes nothing.                                             *)
Recheck ==
  /\ phase = "recheck"
  /\ \/ /\ sha # run.seen /\ UNCHANGED now
        /\ \/ Replan(run)
           \/ run.moves >= MaxMoves /\ Blocked
     \/ sha = run.seen /\ now' = Later(1) /\ Complete(run.seen, sha) /\ UNCHANGED <<run, acts>>
  /\ UNCHANGED <<sha, up, deliveries, effects>>

(* The journaled effect: the subject is looked at once for attribution ... *)
Journal ==
  /\ phase = "journal"
  /\ \/ ~Attributable(sha) /\ Moved(run)
     \/ Attributable(sha) /\ ~run.digest /\ Blocked
     \/ /\ Attributable(sha) /\ run.digest
        /\ run' = [run EXCEPT !.seen = sha]
        /\ Proceed("journal_verify") /\ UNCHANGED acts
  /\ UNCHANGED <<outside, deliveries, effects>>

(* ... and once more by _verify_effect for the verifier. *)
JournalVerify ==
  /\ phase = "journal_verify"
  /\ \/ now' = Later(1) /\ Complete(sha, run.seen)
     \/ "verifier" \in Faults /\ now' = now /\ Stop(run.req, "TypedBlock", acts)
  /\ UNCHANGED <<run, acts, sha, up, deliveries, effects>>

(* A collaborator raises what no except clause of the loop names: the      *)
(* exception leaves run() before anything is remembered, even if it was    *)
(* raised after an effect.                                                 *)
Escape ==
  /\ phase # "idle" /\ "escape" \in Faults
  /\ phase' = "idle"
  /\ result' = [outcome |-> "Raised", receipt |-> None, count |-> 0]
  /\ \/ UNCHANGED <<sha, effects>>
     \/ phase = "execute" /\ \E s \in Shas : Actuate(s, FALSE)
  /\ UNCHANGED <<run, acts, memory, now, up, deliveries>>

-----------------------------------------------------------------------------
(* The world outside *)

MoveSubject ==
  /\ sha' \in Shas \ {sha}
  /\ UNCHANGED <<phase, run, acts, memory, result, now, up, deliveries, effects>>

Tick ==
  /\ ClockRuns /\ now < MaxTick /\ now' = now + 1
  /\ UNCHANGED <<phase, run, acts, memory, result, sha, up, deliveries, effects>>

Outage(p) ==
  /\ "outage" \in Faults
  /\ up' = IF p \in up THEN up \ {p} ELSE up \cup {p}
  /\ UNCHANGED <<phase, run, acts, memory, result, now, sha, deliveries, effects>>

LoopStep ==
  \/ Resolve \/ GiveUp \/ Claim \/ ClaimFault \/ ExpiredAfterClaim
  \/ Execute \/ CrashAfter \/ CrashBefore \/ ExecuteFault
  \/ Observe \/ Verify \/ Recheck \/ Journal \/ JournalVerify \/ Escape

(* All deliveries of the instance are answered. *)
Quiescent == phase = "idle" /\ deliveries = MaxDeliveries /\ UNCHANGED vars

Next ==
  \/ \E r \in Requests : Deliver(r)
  \/ LoopStep
  \/ MoveSubject \/ Tick \/ \E p \in 1..N : Outage(p)
  \/ Quiescent

(* run() is an ordinary call: once entered it keeps executing. *)
Spec == Init /\ [][Next]_vars
FairSpec == Spec /\ WF_vars(LoopStep)
-----------------------------------------------------------------------------
(* Properties *)

(* The fields of AutonomousLoop and the locals of _run are well typed. *)
TypeOK ==
  /\ phase \in Phases
  /\ run \in Run
  /\ acts \in Seq(Actuation)
  /\ completed \in [Keys -> ReceiptRecord \cup {None}]
  /\ unreconciled \in [Keys -> [req : Requests, count : Nat] \cup {None}]
  /\ result \in [outcome : Outcomes, receipt : ReceiptRecord \cup {None}, count : Nat]
  /\ now \in Nat /\ sha \in Shas /\ up \subseteq 1..N
  /\ deliveries \in Nat
  /\ effects \in [Keys -> SUBSET Effects]

(* The retry, switch and move budgets compose: whatever mixture of faults, *)
(* crashes and replans a run meets, it claims at most a full retry budget  *)
(* on each of the providers it may switch to.                              *)
ClaimsAreBounded == run.claims <= (MaxRetries + 1) * (MaxSwitches + 1)

(* Exactly-once across redelivery, as far as the loop is told: all effects *)
(* that were returned or journaled under a key belong to one delivery,     *)
(* however often the request is redelivered and however its run ended      *)
(* (unless by an exception that escapes run()).                            *)
KnownEffectsInOneDelivery ==
  \A k \in Keys : \A e, f \in effects[k] :
     e.known /\ f.known => e.delivery = f.delivery

(* A receipt hides nothing it knows: it lists exactly the effects that     *)
(* were returned or journaled under its key, superseded ones included, and *)
(* the last of them is the admitted one.                                   *)
ReceiptListsEveryKnownEffect ==
  \A k \in Keys : completed[k] # None =>
     LET a == completed[k].acts IN
     /\ {a[i].exec : i \in DOMAIN a} = {e.exec : e \in {f \in effects[k] : f.known}}
     /\ a # << >> /\ a[Len(a)].exec = completed[k].exec

(* The subject a receipt claims to have produced is the pinned one or the  *)
(* admitted actuation's own commit, never somebody else's change.          *)
ReceiptedSubjectIsAttributable ==
  \A k \in Keys : completed[k] # None =>
     LET c == completed[k] IN
     c.after = c.pin \/ c.after = c.acts[Len(c.acts)].declared

(* The loop implements WorkOrders: a key is settled once and for all. *)
Orders == INSTANCE WorkOrders WITH status <- [k \in Keys |->
            IF completed[k] # None THEN [req |-> completed[k].req, how |-> "receipted"]
            ELSE IF unreconciled[k] # None
                 THEN [req |-> unreconciled[k].req, how |-> "unreconciled"]
                 ELSE None]
SettlesKeysOnce == Orders!Spec

(* Every delivery is answered: no mixture of faults keeps a run alive. *)
EveryRunEnds == phase # "idle" ~> phase = "idle"

-----------------------------------------------------------------------------
(* The inductive invariants behind the properties *)

(* A run that got past the dedupe gate works on a key that is still open.  *)
RunIsOnOpenKey ==
  phase # "idle" => /\ run.req \in Requests
                    /\ completed[Key] = None /\ unreconciled[Key] = None

(* What is remembered under a key came in under that key. *)
MemoryIsByKey ==
  \A k \in Keys : /\ completed[k] # None => KeyOf[completed[k].req] = k
                  /\ unreconciled[k] # None => KeyOf[unreconciled[k].req] = k

(* A known effect is remembered, or it is in the ledger of the current run *)
(* and belongs to the current delivery.                                    *)
KnownEffectsAreHeld ==
  \A k \in Keys : \A e \in effects[k] : e.known =>
     \/ completed[k] # None
     \/ unreconciled[k] # None
     \/ phase # "idle" /\ Key = k /\ e.delivery = deliveries /\ acts # << >>

(* The ledger of a run lists what is known under its key, and nothing     *)
(* else: no earlier delivery left a known effect under an open key.        *)
KnownExecs(k) == {e.exec : e \in {f \in effects[k] : f.known}}
LedgerIsWhole == phase # "idle" => {acts[i].exec : i \in DOMAIN acts} = KnownExecs(Key)

(* From the actuation to the receipt the last entry of the ledger is the   *)
(* actuation at hand, and the subject that was looked at is still the      *)
(* pinned one or the one that actuation declared.                          *)
AdmittedIsLast ==
  phase \in {"observe", "verify", "recheck", "journal", "journal_verify"} =>
     /\ acts # << >>
     /\ acts[Len(acts)] = [exec |-> run.claims, declared |-> run.declared]
SeenIsAttributable ==
  phase \in {"verify", "recheck", "journal_verify"} => Attributable(run.seen)

(* With TypeOK, the inductive invariant behind SettlesKeysOnce,            *)
(* KnownEffectsInOneDelivery and what receipts list and claim: a run works *)
(* alone on an open key, and its ledger holds every effect known under it. *)
LoopInvariant ==
  /\ RunIsOnOpenKey /\ MemoryIsByKey /\ KnownEffectsAreHeld
  /\ LedgerIsWhole /\ AdmittedIsLast /\ SeenIsAttributable

(* The strengthening of ClaimsAreBounded: every switch pays for one full   *)
(* retry budget.                                                           *)
BudgetInvariant ==
  /\ run.switches <= MaxSwitches
  /\ run.attempts <= MaxRetries + 1
  /\ run.claims <= run.switches * (MaxRetries + 1) + run.attempts

-----------------------------------------------------------------------------
(* Two claims of execution_loop.py that the code does not keep *)

(* "Exactly-once across redelivery: a run that actuated but terminated     *)
(* without an admitted receipt [...] is remembered by idempotency key":    *)
(* all effects of a key, known or not, belong to one delivery.             *)
ExactlyOnceAcrossRedelivery ==
  \A k \in Keys : \A e, f \in effects[k] : e.delivery = f.delivery

(* "any other SHA is an external move and triggers a bounded replan. The   *)
(* same check runs on the journal-reconstruction path": the revision the   *)
(* verifier accepted is the pinned or the declared one.                    *)
VerifiedSubjectIsAttributable ==
  \A k \in Keys : completed[k] # None =>
     LET c == completed[k] IN
     c.judged = c.pin \/ c.judged = c.acts[Len(c.acts)].declared
=============================================================================
