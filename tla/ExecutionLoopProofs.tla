------------------------ MODULE ExecutionLoopProofs ------------------------
(***************************************************************************)
(* Proofs about ExecutionLoop for every number of providers, deliveries,   *)
(* requests and keys and for every budget: types, the settlement of keys   *)
(* (the loop implements WorkOrders), exactly-once of known effects, and    *)
(* the bound on claims.                                                    *)
(***************************************************************************)
EXTENDS ExecutionLoop, TLAPS

(* What _completed, _unreconciled, the phase and the result look like. *)
MemoryTypes ==
  /\ phase \in Phases
  /\ completed \in [Keys -> ReceiptRecord \cup {None}]
  /\ unreconciled \in [Keys -> [req : Requests, count : Nat] \cup {None}]
  /\ result \in [outcome : Outcomes, receipt : ReceiptRecord \cup {None}, count : Nat]

(* The locals, the ledger of the run, the world and the history. *)
RunTypes == run \in Run /\ acts \in Seq(Actuation)
WorldTypes ==
  /\ now \in Nat /\ sha \in Shas /\ up \subseteq 1..N
  /\ deliveries \in Nat
  /\ effects \in [Keys -> SUBSET Effects]

(* TypeOK is the conjunction of its three parts. *)
LEMMA TypesCompose == TypeOK <=> MemoryTypes /\ RunTypes /\ WorldTypes
  BY DEF TypeOK, MemoryTypes, RunTypes, WorldTypes

(* A step that goes on keeps the memory as it is. *)
LEMMA ProceedTypes ==
  ASSUME TypeOK, NEW p \in Phases, Proceed(p)
  PROVE  MemoryTypes'
  BY DEF TypeOK, Proceed, MemoryTypes, memory

(* A refusal or typed block fills at most the unreconciled entry of its    *)
(* key, and fills it when the run has actuated.                            *)
LEMMA StopFacts ==
  ASSUME TypeOK, NEW r \in Requests, NEW o \in Outcomes, NEW a \in Seq(Actuation),
         Stop(r, o, a)
  PROVE  /\ MemoryTypes' /\ phase' = "idle" /\ completed' = completed
         /\ \A k \in Keys : k # KeyOf[r] => unreconciled'[k] = unreconciled[k]
         /\ a = << >> => unreconciled' = unreconciled
         /\ a # << >> => /\ unreconciled'[KeyOf[r]] # None
                         /\ unreconciled'[KeyOf[r]].req = r
<1>1. /\ phase' = "idle" /\ completed' = completed
      /\ result' = [outcome |-> o, receipt |-> None, count |-> Len(a)]
      /\ Remember(r, o, a)
  BY DEF Stop
<1>2. KeyOf[r] \in Keys /\ Len(a) \in Nat
  BY LoopAssumption
<1>3. [req |-> r, count |-> Len(a)] \in [req : Requests, count : Nat]
  BY <1>2
<1>4. result' \in [outcome : Outcomes, receipt : ReceiptRecord \cup {None}, count : Nat]
  BY <1>1, <1>2
<1>5. MemoryTypes'
  BY <1>1, <1>2, <1>3, <1>4 DEF TypeOK, MemoryTypes, Remember, Phases
<1>6. [req |-> r, count |-> Len(a)] # None
  BY <1>3, LoopAssumption
<1> QED BY <1>1, <1>2, <1>5, <1>6 DEF TypeOK, Remember

(* The receipt of a completed run settles its key. *)
LEMMA CompleteFacts ==
  ASSUME TypeOK, run.req \in Requests, NEW j \in ShaOrNone, NEW s \in ShaOrNone,
         Complete(j, s)
  PROVE  /\ MemoryTypes' /\ phase' = "idle" /\ unreconciled' = unreconciled
         /\ \A k \in Keys : k # Key => completed'[k] = completed[k]
         /\ completed'[Key] # None /\ completed'[Key].req = run.req
<1> DEFINE c == [req |-> run.req, exec |-> run.claims, before |-> run.before, after |-> s,
                 pin |-> run.pin, judged |-> j, acts |-> acts]
<1>1. /\ phase' = "idle" /\ unreconciled' = unreconciled
      /\ completed' = [completed EXCEPT ![Key] = c]
      /\ result' = [outcome |-> "Recover", receipt |-> c, count |-> Len(acts)]
  BY DEF Complete
<1>2. Key \in Keys /\ Len(acts) \in Nat
  BY LoopAssumption DEF Key, TypeOK
<1>3. c \in ReceiptRecord
  BY DEF TypeOK, Run, ReceiptRecord
<1>4. c # None /\ c.req = run.req
  BY <1>3, ReceiptAssumption
<1>5. result' \in [outcome : Outcomes, receipt : ReceiptRecord \cup {None}, count : Nat]
  BY <1>1, <1>2, <1>3 DEF Outcomes
<1>6. MemoryTypes'
  <2> HIDE DEF c
  <2> QED BY <1>1, <1>2, <1>3, <1>5 DEF TypeOK, MemoryTypes, Phases
<1> HIDE DEF c
<1> QED BY <1>1, <1>2, <1>4, <1>6 DEF TypeOK

-----------------------------------------------------------------------------
(* The shape of every step inside a run: it goes on, stops without a       *)
(* receipt, completes with one, or lets an exception escape.               *)
Goes ==
  /\ phase' # "idle" /\ run'.req = run.req
  /\ completed' = completed /\ unreconciled' = unreconciled
Stops == \E o \in Outcomes : Stop(run.req, o, acts)
Completes == \E j, s \in ShaOrNone : Complete(j, s)
Escapes ==
  /\ "escape" \in Faults /\ phase' = "idle"
  /\ completed' = completed /\ unreconciled' = unreconciled

(* Effects are added to the key of the run and to the current delivery     *)
(* only, and a known one comes with an entry in the ledger.                *)
NewEffects ==
  /\ deliveries' = deliveries
  /\ acts # << >> => acts' # << >>
  /\ \A k \in Keys : \A e \in effects'[k] :
       \/ e \in effects[k]
       \/ /\ k = Key /\ e.delivery = deliveries
          /\ e.known => phase' # "idle" /\ acts' # << >>

Shape ==
  /\ phase # "idle" /\ TypeOK' /\ NewEffects
  /\ Goes \/ Stops \/ Completes \/ Escapes

Base == TypeOK /\ RunIsOnOpenKey /\ MemoryIsByKey

(* The clock stays a natural number. *)
LEMMA LaterType == ASSUME TypeOK, NEW n \in Nat PROVE Later(n) \in Nat
  BY LoopAssumption DEF Later, TypeOK

(* A step without an effect keeps the world typed. *)
LEMMA Quiet ==
  ASSUME TypeOK, acts' = acts, now' \in Nat, sha' \in Shas, UNCHANGED <<up, deliveries, effects>>
  PROVE  acts' \in Seq(Actuation) /\ WorldTypes' /\ NewEffects
  BY DEF TypeOK, WorldTypes, NewEffects

(* A step that goes on. *)
LEMMA GoesShape ==
  ASSUME Base, phase # "idle", NEW p \in Phases, p # "idle", Proceed(p),
         run' \in Run, run'.req = run.req, acts' \in Seq(Actuation), WorldTypes', NewEffects
  PROVE  Shape
<1>1. TypeOK
  BY DEF Base
<1>2. MemoryTypes'
  BY <1>1, ProceedTypes
<1>3. TypeOK'
  BY <1>2 DEF TypeOK, MemoryTypes, WorldTypes
<1>4. Goes
  BY DEF Goes, Proceed, memory
<1> QED BY <1>3, <1>4 DEF Shape

(* A step that stops. *)
LEMMA StopsShape ==
  ASSUME Base, phase # "idle", NEW o \in Outcomes, Stop(run.req, o, acts),
         run' \in Run, acts' \in Seq(Actuation), WorldTypes', NewEffects
  PROVE  Shape
<1>1. TypeOK /\ run.req \in Requests /\ acts \in Seq(Actuation)
  BY DEF Base, RunIsOnOpenKey, TypeOK
<1>2. MemoryTypes'
  BY <1>1, StopFacts
<1>3. TypeOK'
  BY <1>2 DEF TypeOK, MemoryTypes, WorldTypes
<1>4. Stops
  BY DEF Stops
<1> QED BY <1>3, <1>4 DEF Shape

(* A step that completes. *)
LEMMA CompletesShape ==
  ASSUME Base, phase # "idle", NEW j \in ShaOrNone, NEW s \in ShaOrNone, Complete(j, s),
         now' \in Nat, UNCHANGED <<run, acts, sha, up, deliveries, effects>>
  PROVE  Shape
<1>1. TypeOK /\ run.req \in Requests
  BY DEF Base, RunIsOnOpenKey
<1>2. MemoryTypes'
  BY <1>1, CompleteFacts
<1>3. acts' \in Seq(Actuation) /\ WorldTypes' /\ NewEffects
  BY <1>1, Quiet DEF TypeOK
<1>4. TypeOK'
  BY <1>1, <1>2, <1>3 DEF TypeOK, MemoryTypes, WorldTypes
<1>5. Completes
  BY DEF Completes
<1> QED BY <1>3, <1>4, <1>5 DEF Shape

(* The subject is resolved and a provider selected. *)
LEMMA ResolveShape == ASSUME Base, Resolve PROVE Shape
<1>1. /\ phase = "resolve" /\ acts' = acts /\ now' = now /\ sha' = sha
      /\ UNCHANGED <<up, deliveries, effects>> /\ TypeOK
  BY DEF Resolve, outside, Base
<1>2. now \in Nat /\ sha \in Shas /\ run \in Run /\ "TypedBlock" \in Outcomes
  BY <1>1 DEF TypeOK, Outcomes
<1>q. acts' \in Seq(Actuation) /\ WorldTypes' /\ NewEffects
  BY <1>1, <1>2, Quiet
<1>3. CASE Stop(run.req, "TypedBlock", acts) /\ UNCHANGED run
  BY <1>1, <1>2, <1>3, <1>q, StopsShape
<1>4. ASSUME NEW k \in 1..N, run' = [run EXCEPT !.before = sha, !.idx = k], Proceed("claim")
      PROVE  Shape
  <2>0. sha \in ShaOrNone /\ k \in 0..N
    BY <1>2, LoopAssumption DEF ShaOrNone
  <2>1. run' \in Run /\ run'.req = run.req
    BY <1>2, <1>4, <2>0 DEF Run
  <2>2. "claim" \in Phases
    BY DEF Phases
  <2> QED BY <1>1, <1>4, <1>q, <2>1, <2>2, GoesShape
<1> QED BY <1>3, <1>4 DEF Resolve

(* Budget or grant are spent at the top of the loop. *)
LEMMA GiveUpShape == ASSUME Base, GiveUp \/ ExpiredAfterClaim PROVE Shape
<1>1. /\ phase # "idle" /\ UNCHANGED <<run, acts, up, deliveries, effects>>
      /\ now' = now /\ sha' = sha /\ TypeOK
      /\ \E o \in {"TypedBlock", "Refuse"} : Stop(run.req, o, acts)
  BY DEF GiveUp, ExpiredAfterClaim, outside, Base
<1>2. now \in Nat /\ sha \in Shas /\ run \in Run /\ {"TypedBlock", "Refuse"} \subseteq Outcomes
  BY <1>1 DEF TypeOK, Outcomes
<1>3. acts' \in Seq(Actuation) /\ WorldTypes' /\ NewEffects
  BY <1>1, <1>2, Quiet
<1> QED BY <1>1, <1>2, <1>3, StopsShape

(* The counters of a run are natural numbers. *)
LEMMA RunCounters ==
  ASSUME NEW r \in Run
  PROVE  /\ r.attempts + 1 \in Nat /\ r.claims + 1 \in Nat /\ r.faults + 1 \in Nat
         /\ r.switches + 1 \in Nat /\ r.moves + 1 \in Nat /\ r.checks + 1 \in Nat
         /\ r.pin \in ShaOrNone /\ r.seen \in ShaOrNone /\ r.claims \in Nat
  BY DEF Run

(* Updates of several locals at once stay within their types and keep the  *)
(* request.                                                                *)
LEMMA PinnedRun ==
  ASSUME NEW r \in Run, NEW s \in ShaOrNone,
         NEW q, q = [r EXCEPT !.attempts = r.attempts + 1, !.claims = r.claims + 1, !.pin = s]
  PROVE  q \in Run /\ q.req = r.req
<1>1. ASSUME NEW a \in Nat, NEW c \in Nat
      PROVE  [r EXCEPT !.attempts = a, !.claims = c, !.pin = s] \in Run
  BY DEF Run
<1>2. [r EXCEPT !.attempts = r.attempts + 1, !.claims = r.claims + 1, !.pin = s].req = r.req
  BY DEF Run
<1> QED BY <1>1, <1>2, RunCounters

(* The same for a claim that faults. *)
LEMMA FaultedRun ==
  ASSUME NEW r \in Run, NEW q,
         q = [r EXCEPT !.attempts = r.attempts + 1, !.claims = r.claims + 1,
                       !.faults = r.faults + 1]
  PROVE  q \in Run /\ q.req = r.req
<1>1. ASSUME NEW a \in Nat, NEW c \in Nat, NEW f \in Nat
      PROVE  [r EXCEPT !.attempts = a, !.claims = c, !.faults = f] \in Run
  BY DEF Run
<1>2. q.req = r.req
  BY DEF Run
<1> QED BY <1>1, <1>2, RunCounters

(* The same for a switch to another provider. *)
LEMMA SwitchedRun ==
  ASSUME NEW r \in Run, NEW k \in 0..N, NEW q,
         q = [r EXCEPT !.switches = r.switches + 1, !.faults = 0, !.attempts = 0, !.idx = k]
  PROVE  q \in Run /\ q.req = r.req
<1>1. ASSUME NEW n \in Nat
      PROVE  [r EXCEPT !.switches = n, !.faults = 0, !.attempts = 0, !.idx = k] \in Run
  BY DEF Run
<1>2. q.req = r.req
  BY DEF Run
<1> QED BY <1>1, <1>2, RunCounters

(* A claim pins the subject. *)
LEMMA ClaimShape == ASSUME Base, Claim PROVE Shape
<1>1. /\ phase = "claim" /\ acts' = acts /\ now' = now /\ sha' = sha
      /\ UNCHANGED <<up, deliveries, effects>> /\ TypeOK /\ Proceed("execute")
      /\ run' = [run EXCEPT !.attempts = run.attempts + 1, !.claims = run.claims + 1, !.pin = sha]
  BY DEF Claim, outside, Base
<1>2. now \in Nat /\ sha \in Shas /\ run \in Run /\ "execute" \in Phases
  BY <1>1 DEF TypeOK, Phases
<1>3. sha \in ShaOrNone /\ 0 \in Nat
  BY <1>2 DEF ShaOrNone
<1>4. run' \in Run /\ run'.req = run.req
  BY <1>1, <1>2, <1>3, PinnedRun
<1>5. acts' \in Seq(Actuation) /\ WorldTypes' /\ NewEffects
  BY <1>1, <1>2, Quiet
<1> QED BY <1>1, <1>2, <1>4, <1>5, GoesShape

(* A substitution keeps the request and gives a fresh retry budget. *)
LEMMA SubstituteShape ==
  ASSUME Base, phase # "idle", NEW r \in Run, r.req = run.req, Substitute(r),
         acts' \in Seq(Actuation), WorldTypes', NewEffects
  PROVE  Shape
<1>1. "claim" \in Phases /\ "TypedBlock" \in Outcomes
  BY DEF Phases, Outcomes
<1>2. CASE Stop(run.req, "TypedBlock", acts) /\ run' = r
  BY <1>1, <1>2, StopsShape
<1>3. ASSUME NEW k \in 1..N, Proceed("claim"),
             run' = [r EXCEPT !.switches = r.switches + 1, !.faults = 0, !.attempts = 0, !.idx = k]
      PROVE  Shape
  <2>0. k \in 0..N
    BY LoopAssumption
  <2>1. run' \in Run /\ run'.req = run.req
    BY <1>3, <2>0, SwitchedRun
  <2> QED BY <1>1, <1>3, <2>1, GoesShape
<1> QED BY <1>2, <1>3 DEF Substitute

(* A faulty claim backs off here or moves on. *)
LEMMA ClaimFaultShape == ASSUME Base, ClaimFault PROVE Shape
<1>1. /\ phase = "claim" /\ acts' = acts /\ sha' = sha
      /\ UNCHANGED <<up, deliveries, effects>> /\ TypeOK
  BY DEF ClaimFault, Base
<1>2. sha \in Shas /\ run \in Run /\ "claim" \in Phases
  BY <1>1 DEF TypeOK, Phases
<1>3. PICK backoff \in {0, IF run.attempts >= 2 THEN 8 ELSE 2 * (run.attempts + 1)} :
       IF run.faults < MaxRetries
       THEN /\ now' = Later(backoff + 1)
            /\ run' = [run EXCEPT !.attempts = run.attempts + 1, !.claims = run.claims + 1,
                                  !.faults = run.faults + 1]
            /\ Proceed("claim")
       ELSE /\ now' = Later(backoff)
            /\ Substitute([run EXCEPT !.attempts = run.attempts + 1, !.claims = run.claims + 1])
  BY DEF ClaimFault
<1>4. backoff \in Nat /\ backoff + 1 \in Nat
  BY <1>2 DEF Run
<1>5. now' \in Nat
  BY <1>1, <1>3, <1>4, LaterType
<1>6. acts' \in Seq(Actuation) /\ WorldTypes' /\ NewEffects
  BY <1>1, <1>2, <1>5, Quiet
<1>7. CASE run.faults < MaxRetries
  <2>1. run' \in Run /\ run'.req = run.req
    BY <1>2, <1>3, <1>7, FaultedRun
  <2> QED BY <1>1, <1>2, <1>3, <1>6, <1>7, <2>1, GoesShape
<1>8. CASE ~(run.faults < MaxRetries)
  <2> DEFINE r == [run EXCEPT !.attempts = run.attempts + 1, !.claims = run.claims + 1]
  <2>0. run.attempts + 1 \in Nat /\ run.claims + 1 \in Nat
    BY <1>2, RunCounters
  <2>1. r \in Run /\ r.req = run.req
    BY <1>2, <2>0 DEF Run
  <2>2. Substitute(r)
    BY <1>3, <1>8
  <2> HIDE DEF r
  <2> QED BY <1>1, <1>6, <2>1, <2>2, SubstituteShape
<1> QED BY <1>7, <1>8

-----------------------------------------------------------------------------
(* Execution *)

(* An effect lands on the key of the run, in the current delivery. *)
LEMMA ActuateFacts ==
  ASSUME Base, phase # "idle", NEW s \in Shas, NEW b \in BOOLEAN, Actuate(s, b),
         now' \in Nat, UNCHANGED <<up, deliveries>>
  PROVE  /\ WorldTypes'
         /\ \A k \in Keys : \A e \in effects'[k] :
              e \in effects[k] \/ (k = Key /\ e.delivery = deliveries /\ e.known = b)
<1> DEFINE x == [delivery |-> deliveries, exec |-> run.claims, known |-> b]
<1>1. TypeOK /\ run.req \in Requests
  BY DEF Base, RunIsOnOpenKey
<1>2. x \in Effects /\ x.delivery = deliveries /\ x.known = b
  BY <1>1, RunCounters DEF TypeOK, Effects
<1>3. sha' = s /\ effects' = [effects EXCEPT ![Key] = effects[Key] \cup {x}]
  BY DEF Actuate
<1>4. Key \in Keys
  BY <1>1, LoopAssumption DEF Key
<1> HIDE DEF x
<1>5. effects' \in [Keys -> SUBSET Effects]
  BY <1>1, <1>2, <1>3, <1>4 DEF TypeOK
<1>6. WorldTypes'
  BY <1>1, <1>3, <1>5 DEF TypeOK, WorldTypes
<1> QED BY <1>1, <1>2, <1>3, <1>4, <1>6 DEF TypeOK

(* A witnessed actuation is entered in the ledger of the run. *)
LEMMA WitnessFacts ==
  ASSUME TypeOK, NEW s \in Shas, NEW p, Witness(s, p)
  PROVE  /\ run' \in Run /\ run'.req = run.req
         /\ acts' \in Seq(Actuation) /\ acts' # << >> /\ Proceed(p)
<1>1. PICK d \in {None, s}, g \in {TRUE, "digest" \notin Faults} :
        /\ run' = [run EXCEPT !.declared = d, !.digest = g]
        /\ acts' = Append(acts, [exec |-> run.claims, declared |-> d])
        /\ Proceed(p)
  BY DEF Witness
<1>2. d \in ShaOrNone /\ g \in BOOLEAN
  BY DEF ShaOrNone
<1>3. run' \in Run /\ run'.req = run.req
  BY <1>1, <1>2 DEF TypeOK, Run
<1>4. [exec |-> run.claims, declared |-> d] \in Actuation
  BY <1>2, RunCounters DEF TypeOK, Actuation
<1>5. acts' \in Seq(Actuation) /\ Len(acts') = Len(acts) + 1 /\ Len(acts) \in Nat
  BY <1>1, <1>4 DEF TypeOK
<1>6. acts' # << >>
  BY <1>5
<1> QED BY <1>1, <1>3, <1>5, <1>6

(* An execution, or a crash that left a journal, goes on to attribution. *)
LEMMA WitnessedShape ==
  ASSUME Base, phase = "execute", NEW s \in Shas, NEW p \in {"observe", "journal"},
         Actuate(s, TRUE), Witness(s, p), UNCHANGED <<now, up, deliveries>>
  PROVE  Shape
<1>1. TypeOK /\ p \in Phases /\ p # "idle" /\ now' \in Nat
  BY DEF Base, TypeOK, Phases
<1>2. /\ WorldTypes'
      /\ \A k \in Keys : \A e \in effects'[k] :
           e \in effects[k] \/ (k = Key /\ e.delivery = deliveries)
  BY <1>1, ActuateFacts
<1>3. /\ run' \in Run /\ run'.req = run.req
      /\ acts' \in Seq(Actuation) /\ acts' # << >> /\ Proceed(p)
  BY <1>1, WitnessFacts
<1>4. phase' = p
  BY <1>3 DEF Proceed
<1>5. NewEffects
  BY <1>1, <1>2, <1>3, <1>4 DEF NewEffects
<1> QED BY <1>1, <1>2, <1>3, <1>5, GoesShape

(* An execution whose result comes back is witnessed. *)
LEMMA ExecuteShape == ASSUME Base, Execute PROVE Shape
<1>1. PICK s \in Shas : Actuate(s, TRUE) /\ Witness(s, "observe")
  BY DEF Execute
<1> QED BY <1>1, WitnessedShape DEF Execute

(* An effect the loop is not told of. *)
LEMMA HiddenEffect ==
  ASSUME Base, phase # "idle", NEW s \in Shas, Actuate(s, FALSE), acts' = acts,
         now' \in Nat, UNCHANGED <<up, deliveries>>
  PROVE  acts' \in Seq(Actuation) /\ WorldTypes' /\ NewEffects
<1>1. /\ WorldTypes'
      /\ \A k \in Keys : \A e \in effects'[k] :
           e \in effects[k] \/ (k = Key /\ e.delivery = deliveries /\ e.known = FALSE)
  BY ActuateFacts
<1>2. NewEffects
  BY <1>1 DEF NewEffects
<1> QED BY <1>1, <1>2 DEF Base, TypeOK

(* A crash after the effect: reconciled from the journal, or given up. *)
LEMMA CrashAfterShape == ASSUME Base, CrashAfter PROVE Shape
<1>1. phase = "execute" /\ UNCHANGED <<now, up, deliveries>> /\ TypeOK
  BY DEF CrashAfter, Base
<1>2. PICK s \in Shas :
       \/ Actuate(s, TRUE) /\ Witness(s, "journal")
       \/ /\ Actuate(s, FALSE) /\ Stop(run.req, "TypedBlock", acts)
          /\ UNCHANGED <<run, acts>>
  BY DEF CrashAfter
<1>3. CASE Actuate(s, TRUE) /\ Witness(s, "journal")
  BY <1>1, <1>3, WitnessedShape
<1>4. CASE Actuate(s, FALSE) /\ Stop(run.req, "TypedBlock", acts) /\ UNCHANGED <<run, acts>>
  <2>1. now' \in Nat /\ run' \in Run /\ "TypedBlock" \in Outcomes
    BY <1>1, <1>4 DEF TypeOK, Outcomes
  <2>2. acts' \in Seq(Actuation) /\ WorldTypes' /\ NewEffects
    BY <1>1, <1>4, <2>1, HiddenEffect
  <2> QED BY <1>1, <1>4, <2>1, <2>2, StopsShape
<1> QED BY <1>2, <1>3, <1>4

(* A crash before the effect is retried. *)
LEMMA CrashBeforeShape == ASSUME Base, CrashBefore PROVE Shape
<1>1. /\ phase = "execute" /\ UNCHANGED <<run, acts, sha, up, deliveries, effects>>
      /\ now' = Later(1) /\ Proceed("claim") /\ TypeOK
  BY DEF CrashBefore, Base
<1>2. now' \in Nat /\ sha' \in Shas /\ run' \in Run /\ "claim" \in Phases
  BY <1>1, LaterType DEF TypeOK, Phases
<1>3. acts' \in Seq(Actuation) /\ WorldTypes' /\ NewEffects
  BY <1>1, <1>2, Quiet
<1> QED BY <1>1, <1>2, <1>3, GoesShape

(* A transport fault, whatever it hid, is retried or substituted. *)
LEMMA ExecuteFaultShape == ASSUME Base, ExecuteFault PROVE Shape
<1>1. phase = "execute" /\ acts' = acts /\ UNCHANGED <<up, deliveries>> /\ TypeOK
  BY DEF ExecuteFault, Base
<1>2. IF run.faults < MaxRetries
      THEN /\ now' = Later(1) /\ run' = [run EXCEPT !.faults = run.faults + 1]
           /\ Proceed("claim")
      ELSE now' = now /\ Substitute(run)
  BY DEF ExecuteFault
<1>3. now' \in Nat /\ run \in Run /\ "claim" \in Phases
  BY <1>1, <1>2, LaterType DEF TypeOK, Phases
<1>4. acts' \in Seq(Actuation) /\ WorldTypes' /\ NewEffects
  <2>1. CASE UNCHANGED <<sha, effects>>
    <3>1. sha' \in Shas
      BY <1>1, <2>1 DEF TypeOK
    <3> QED BY <1>1, <1>3, <2>1, <3>1, Quiet
  <2>2. CASE \E s \in Shas : Actuate(s, FALSE)
    BY <1>1, <1>3, <2>2, HiddenEffect
  <2> QED BY <2>1, <2>2 DEF ExecuteFault
<1>5. CASE run.faults < MaxRetries
  <2>1. run' \in Run /\ run'.req = run.req
    BY <1>2, <1>3, <1>5 DEF Run
  <2> QED BY <1>1, <1>2, <1>3, <1>4, <1>5, <2>1, GoesShape
<1>6. CASE ~(run.faults < MaxRetries)
  BY <1>1, <1>2, <1>3, <1>4, <1>6, SubstituteShape
<1> QED BY <1>5, <1>6

-----------------------------------------------------------------------------
(* Attribution, verification and receipt *)

(* A replan goes on with the same request. *)
LEMMA ReplanShape ==
  ASSUME Base, phase # "idle", NEW r \in Run, r.req = run.req, Replan(r),
         now' \in Nat, UNCHANGED <<sha, up, deliveries, effects>>
  PROVE  Shape
<1>1. /\ run' = [r EXCEPT !.moves = r.moves + 1] /\ acts' = acts /\ Proceed("claim")
      /\ TypeOK /\ "claim" \in Phases
  BY DEF Replan, Base, Phases
<1>2. run' \in Run /\ run'.req = run.req
  BY <1>1 DEF Run
<1>3. acts' \in Seq(Actuation) /\ WorldTypes' /\ NewEffects
  BY <1>1, Quiet DEF TypeOK
<1> QED BY <1>1, <1>2, <1>3, GoesShape

(* A typed block stops the run as it is. *)
LEMMA BlockedShape ==
  ASSUME Base, phase # "idle", Blocked, now' \in Nat, UNCHANGED <<sha, up, deliveries, effects>>
  PROVE  Shape
<1>1. /\ Stop(run.req, "TypedBlock", acts) /\ UNCHANGED <<run, acts>>
      /\ TypeOK /\ "TypedBlock" \in Outcomes
  BY DEF Blocked, Base, Outcomes
<1>2. run' \in Run
  BY <1>1 DEF TypeOK
<1>3. acts' \in Seq(Actuation) /\ WorldTypes' /\ NewEffects
  BY <1>1, Quiet DEF TypeOK
<1> QED BY <1>1, <1>2, <1>3, StopsShape

(* The subject that was seen goes to the verifier. *)
LEMMA SeenShape ==
  ASSUME Base, phase # "idle", NEW p \in Phases, p # "idle", Proceed(p), acts' = acts,
         \/ run' = [run EXCEPT !.seen = sha]
         \/ run' = [run EXCEPT !.seen = sha, !.checks = 0],
         UNCHANGED <<now, sha, up, deliveries, effects>>
  PROVE  Shape
<1>1. TypeOK /\ run \in Run /\ now' \in Nat /\ sha' \in Shas /\ sha \in ShaOrNone
  BY DEF Base, TypeOK, ShaOrNone
<1>2. run' \in Run /\ run'.req = run.req
  <2>1. CASE run' = [run EXCEPT !.seen = sha]
    BY <1>1, <2>1 DEF Run
  <2>2. CASE run' = [run EXCEPT !.seen = sha, !.checks = 0]
    BY <1>1, <2>2 DEF Run
  <2> QED BY <2>1, <2>2
<1>3. acts' \in Seq(Actuation) /\ WorldTypes' /\ NewEffects
  BY <1>1, Quiet
<1> QED BY <1>2, <1>3, GoesShape

(* Attribution: replan, block, or go on to the verifier. *)
LEMMA ObserveShape == ASSUME Base, Observe \/ Journal PROVE Shape
<1>1. /\ phase # "idle" /\ TypeOK /\ run \in Run /\ now' \in Nat
      /\ UNCHANGED <<now, sha, up, deliveries, effects>>
  BY DEF Observe, Journal, outside, Base, TypeOK
<1>2. {"verify", "journal_verify"} \subseteq Phases
  BY DEF Phases
<1>3. CASE Moved(run) \/ Moved([run EXCEPT !.before = run.pin])
  <2>1. [run EXCEPT !.before = run.pin] \in Run /\ [run EXCEPT !.before = run.pin].req = run.req
    BY <1>1 DEF Run
  <2>2. CASE Blocked
    BY <1>1, <2>2, BlockedShape
  <2>3. CASE Replan(run)
    BY <1>1, <2>3, ReplanShape
  <2>4. CASE Replan([run EXCEPT !.before = run.pin])
    BY <1>1, <2>1, <2>4, ReplanShape
  <2> QED BY <1>3, <2>2, <2>3, <2>4 DEF Moved
<1>4. CASE Blocked
  BY <1>1, <1>4, BlockedShape
<1>5. CASE /\ run' = [run EXCEPT !.seen = sha, !.checks = 0] /\ Proceed("verify") /\ acts' = acts
  BY <1>1, <1>2, <1>5, SeenShape
<1>6. CASE /\ run' = [run EXCEPT !.seen = sha] /\ Proceed("journal_verify") /\ acts' = acts
  BY <1>1, <1>2, <1>6, SeenShape
<1> QED BY <1>3, <1>4, <1>5, <1>6 DEF Observe, Journal

(* The verifier answers, is asked again, or is given up. *)
LEMMA VerifyShape == ASSUME Base, Verify PROVE Shape
<1>1. /\ phase = "verify" /\ TypeOK /\ run \in Run
      /\ UNCHANGED <<sha, up, deliveries, effects>> /\ sha' \in Shas
  BY DEF Verify, Base, TypeOK
<1>2. {"verify", "recheck"} \subseteq Phases
  BY DEF Phases
<1>3. CASE Proceed("recheck") /\ UNCHANGED <<now, run, acts>>
  <2>1. now' \in Nat /\ run' \in Run /\ run'.req = run.req /\ acts' = acts
    BY <1>1, <1>3 DEF TypeOK
  <2>2. acts' \in Seq(Actuation) /\ WorldTypes' /\ NewEffects
    BY <1>1, <2>1, Quiet
  <2> QED BY <1>1, <1>2, <1>3, <2>1, <2>2, GoesShape
<1>4. CASE /\ run' = [run EXCEPT !.checks = run.checks + 1] /\ now' = Later(1)
           /\ Proceed("verify") /\ acts' = acts
  <2>1. run' \in Run /\ run'.req = run.req
    BY <1>1, <1>4 DEF Run
  <2>2. now' \in Nat
    BY <1>1, <1>4, LaterType
  <2>3. acts' \in Seq(Actuation) /\ WorldTypes' /\ NewEffects
    BY <1>1, <1>4, <2>2, Quiet
  <2> QED BY <1>1, <1>2, <1>4, <2>1, <2>3, GoesShape
<1>5. CASE Blocked /\ UNCHANGED now
  <2>1. now' \in Nat
    BY <1>1, <1>5 DEF TypeOK
  <2> QED BY <1>1, <1>5, <2>1, BlockedShape
<1> QED BY <1>3, <1>4, <1>5 DEF Verify

(* The last look at the subject, and the receipt. *)
LEMMA RecheckShape == ASSUME Base, Recheck \/ JournalVerify PROVE Shape
<1>1. /\ phase # "idle" /\ TypeOK /\ run \in Run /\ UNCHANGED <<sha, up, deliveries, effects>>
      /\ run.seen \in ShaOrNone /\ sha \in ShaOrNone
  BY RunCounters DEF Recheck, JournalVerify, Base, TypeOK, ShaOrNone
<1>2. now' = now \/ now' = Later(1)
  BY DEF Recheck, JournalVerify
<1>3. now' \in Nat
  BY <1>1, <1>2, LaterType DEF TypeOK
<1>4. CASE Blocked
  BY <1>1, <1>3, <1>4, BlockedShape
<1>5. CASE Replan(run)
  BY <1>1, <1>3, <1>5, ReplanShape
<1>6. CASE (Complete(run.seen, sha) \/ Complete(sha, run.seen)) /\ UNCHANGED <<run, acts>>
  BY <1>1, <1>3, <1>6, CompletesShape
<1> QED BY <1>4, <1>5, <1>6 DEF Recheck, JournalVerify, Blocked

(* An exception leaves run() and nothing is remembered. *)
LEMMA EscapeShape == ASSUME Base, Escape PROVE Shape
<1>1. /\ TypeOK /\ phase # "idle"
      /\ UNCHANGED <<run, acts, completed, unreconciled, now, up, deliveries>>
  BY DEF Base, Escape, memory
<1>2. MemoryTypes'
  BY <1>1 DEF TypeOK, MemoryTypes, Escape, Phases, Outcomes
<1>3. now' \in Nat /\ run' \in Run /\ acts' = acts
  BY <1>1 DEF TypeOK
<1>4. acts' \in Seq(Actuation) /\ WorldTypes' /\ NewEffects
  <2>1. CASE UNCHANGED <<sha, effects>>
    BY <1>1, <1>3, <2>1, Quiet DEF TypeOK
  <2>2. CASE \E s \in Shas : Actuate(s, FALSE)
    BY <1>1, <1>3, <2>2, HiddenEffect
  <2> QED BY <2>1, <2>2 DEF Escape
<1>5. TypeOK'
  BY <1>2, <1>3, <1>4 DEF TypeOK, MemoryTypes, WorldTypes
<1> QED BY <1>1, <1>4, <1>5 DEF Shape, Escapes, Escape

(* Every step of a run has one of the four shapes. *)
LEMMA StepShape == ASSUME Base, LoopStep PROVE Shape
  BY ResolveShape, GiveUpShape, ClaimShape, ClaimFaultShape, ExecuteShape, CrashAfterShape,
     CrashBeforeShape, ExecuteFaultShape, ObserveShape, VerifyShape, RecheckShape, EscapeShape
  DEF LoopStep

-----------------------------------------------------------------------------
(* Deliveries and the world outside *)

(* What a delivery does: the run it starts is on an open key, and nothing  *)
(* is remembered or forgotten.                                             *)
Delivers ==
  /\ phase = "idle" /\ TypeOK'
  /\ completed' = completed /\ unreconciled' = unreconciled /\ effects' = effects
  /\ phase' # "idle" => /\ run'.req \in Requests
                        /\ completed[KeyOf[run'.req]] = None
                        /\ unreconciled[KeyOf[run'.req]] = None

(* The gates stop the delivery, answer it from memory, or start a run. *)
LEMMA DeliverShape == ASSUME Base, NEW r \in Requests, Deliver(r) PROVE Delivers
<1>1. /\ phase = "idle" /\ deliveries' = deliveries + 1 /\ run' = [NoRun EXCEPT !.req = r]
      /\ acts' = << >> /\ UNCHANGED <<now, sha, up, effects>> /\ TypeOK
  BY DEF Deliver, outside, Base
<1>2. run' \in Run /\ run'.req = r
  <2>1. 0 \in 0..N /\ None \in ShaOrNone /\ r \in Requests \cup {None}
    BY LoopAssumption DEF ShaOrNone
  <2> QED BY <1>1, <2>1 DEF NoRun, Run
<1>3. acts' \in Seq(Actuation) /\ WorldTypes'
  BY <1>1 DEF TypeOK, WorldTypes
<1>4. \/ \E o \in Outcomes : Stop(r, o, << >>)
      \/ /\ completed[KeyOf[r]] # None /\ phase' = "idle" /\ UNCHANGED memory
         /\ result' = [outcome |-> "Recover", receipt |-> completed[KeyOf[r]], count |-> 0]
      \/ /\ completed[KeyOf[r]] = None /\ unreconciled[KeyOf[r]] = None /\ Proceed("resolve")
  <2>1. {"Refuse", "TypedBlock"} \subseteq Outcomes
    BY DEF Outcomes
  <2> QED BY <2>1 DEF Deliver, DedupeGate
<1>5. CASE \E o \in Outcomes : Stop(r, o, << >>)
  <2>1. << >> \in Seq(Actuation)
    OBVIOUS
  <2>2. MemoryTypes' /\ phase' = "idle" /\ completed' = completed /\ unreconciled' = unreconciled
    BY <1>1, <1>5, <2>1, StopFacts
  <2> QED BY <1>1, <1>2, <1>3, <2>2 DEF Delivers, TypeOK, MemoryTypes, WorldTypes
<1>6. CASE /\ completed[KeyOf[r]] # None /\ phase' = "idle" /\ UNCHANGED memory
           /\ result' = [outcome |-> "Recover", receipt |-> completed[KeyOf[r]], count |-> 0]
  <2>1. KeyOf[r] \in Keys
    BY LoopAssumption
  <2>2. completed[KeyOf[r]] \in ReceiptRecord
    BY <1>1, <1>6, <2>1 DEF TypeOK
  <2>3. result' \in [outcome : Outcomes, receipt : ReceiptRecord \cup {None}, count : Nat]
    BY <1>6, <2>2 DEF Outcomes
  <2>4. MemoryTypes' /\ completed' = completed /\ unreconciled' = unreconciled
    BY <1>1, <1>6, <2>3 DEF TypeOK, MemoryTypes, Phases, memory
  <2> QED BY <1>1, <1>2, <1>3, <1>6, <2>4 DEF Delivers, TypeOK, MemoryTypes, WorldTypes
<1>7. CASE /\ completed[KeyOf[r]] = None /\ unreconciled[KeyOf[r]] = None /\ Proceed("resolve")
  <2>1. MemoryTypes'
    BY <1>1, <1>7, ProceedTypes DEF Phases
  <2>2. completed' = completed /\ unreconciled' = unreconciled
    BY <1>7 DEF Proceed, memory
  <2> QED BY <1>1, <1>2, <1>3, <1>7, <2>1, <2>2 DEF Delivers, TypeOK, MemoryTypes, WorldTypes
<1> QED BY <1>4, <1>5, <1>6, <1>7

(* What the outside world may do between two steps of a run. *)
Outside ==
  /\ TypeOK' /\ UNCHANGED <<phase, run, acts, completed, unreconciled, deliveries, effects>>

(* Subject, clock and providers move without touching the loop. *)
LEMMA OutsideShape ==
  ASSUME Base, MoveSubject \/ Tick \/ (\E p \in 1..N : Outage(p)) \/ Quiescent \/ UNCHANGED vars
  PROVE  Outside
<1>1. TypeOK
  BY DEF Base
<1>2. CASE MoveSubject
  BY <1>1, <1>2 DEF MoveSubject, Outside, TypeOK, memory
<1>3. CASE Tick
  BY <1>1, <1>3 DEF Tick, Outside, TypeOK, memory
<1>4. CASE \E p \in 1..N : Outage(p)
  BY <1>1, <1>4 DEF Outage, Outside, TypeOK, memory
<1>5. CASE UNCHANGED vars
  BY <1>1, <1>5 DEF vars, Outside, TypeOK, memory, outside
<1> QED BY <1>2, <1>3, <1>4, <1>5 DEF Quiescent

(* Every step of the specification is one of the three kinds. *)
LEMMA NextShape == ASSUME Base, [Next]_vars PROVE Shape \/ Delivers \/ Outside
  BY StepShape, DeliverShape, OutsideShape DEF Next

(* Stops and Completes settle the key of the run, which was open, and no   *)
(* other key.                                                              *)
LEMMA Settles ==
  ASSUME Base, Shape
  PROVE  /\ Key \in Keys /\ completed[Key] = None /\ unreconciled[Key] = None
         /\ \A k \in Keys : k # Key => /\ completed'[k] = completed[k]
                                       /\ unreconciled'[k] = unreconciled[k]
         /\ \/ completed'[Key] = None /\ unreconciled'[Key] = None
            \/ /\ completed'[Key] = None
               /\ unreconciled'[Key] # None /\ unreconciled'[Key].req = run.req
            \/ /\ completed'[Key] # None /\ completed'[Key].req = run.req
               /\ unreconciled'[Key] = None
         /\ phase' # "idle" => /\ run'.req = run.req
                               /\ completed'[Key] = None /\ unreconciled'[Key] = None
         /\ phase' = "idle" => \/ "escape" \in Faults
                               \/ acts = << >>
                               \/ completed'[Key] # None
                               \/ unreconciled'[Key] # None
<1>1. /\ run.req \in Requests /\ Key = KeyOf[run.req] /\ Key \in Keys /\ TypeOK
      /\ completed[Key] = None /\ unreconciled[Key] = None /\ acts \in Seq(Actuation)
  BY LoopAssumption DEF Base, Shape, RunIsOnOpenKey, Key, TypeOK
<1>2. CASE Goes
  BY <1>1, <1>2 DEF Goes
<1>3. CASE Escapes
  BY <1>1, <1>3 DEF Escapes
<1>4. CASE Stops
  <2>1. /\ phase' = "idle" /\ completed' = completed
        /\ \A k \in Keys : k # Key => unreconciled'[k] = unreconciled[k]
        /\ acts = << >> => unreconciled' = unreconciled
        /\ acts # << >> => unreconciled'[Key] # None /\ unreconciled'[Key].req = run.req
    BY <1>1, <1>4, StopFacts DEF Stops
  <2> QED BY <1>1, <2>1
<1>5. CASE Completes
  <2>1. /\ phase' = "idle" /\ unreconciled' = unreconciled
        /\ \A k \in Keys : k # Key => completed'[k] = completed[k]
        /\ completed'[Key] # None /\ completed'[Key].req = run.req
    BY <1>1, <1>5, CompleteFacts DEF Completes
  <2> QED BY <1>1, <2>1
<1> QED BY <1>2, <1>3, <1>4, <1>5 DEF Shape

-----------------------------------------------------------------------------
(* The invariant and the theorems *)

(* A new loop satisfies the invariant. *)
LEMMA InitBase == ASSUME Init PROVE Base /\ KnownEffectsAreHeld
<1>1. run \in Run
  <2>1. 0 \in 0..N /\ None \in ShaOrNone
    BY LoopAssumption DEF ShaOrNone
  <2> QED BY <2>1 DEF Init, NoRun, Run
<1>2. result \in [outcome : Outcomes, receipt : ReceiptRecord \cup {None}, count : Nat]
  BY DEF Init, NoResult, Outcomes
<1>3. TypeOK
  BY <1>1, <1>2 DEF Init, TypeOK, Phases
<1>4. RunIsOnOpenKey /\ MemoryIsByKey /\ KnownEffectsAreHeld
  BY DEF Init, RunIsOnOpenKey, MemoryIsByKey, KnownEffectsAreHeld
<1> QED BY <1>3, <1>4 DEF Base

(* Every step keeps types and the settlement of keys. *)
LEMMA BaseStep == ASSUME Base, [Next]_vars PROVE Base'
<1>1. CASE Shape
  <2>1. Key = KeyOf[run.req] /\ Key' = KeyOf[run'.req] /\ run.req \in Requests
    BY <1>1 DEF Key, Shape, Base, RunIsOnOpenKey
  <2>2. RunIsOnOpenKey'
    BY <1>1, <2>1, Settles DEF RunIsOnOpenKey
  <2>3. MemoryIsByKey'
    BY <1>1, <2>1, Settles DEF MemoryIsByKey, Base
  <2> QED BY <1>1, <2>2, <2>3 DEF Base, Shape
<1>2. CASE Delivers
  <2>1. RunIsOnOpenKey'
    BY <1>2 DEF Delivers, RunIsOnOpenKey, Key
  <2> QED BY <1>2, <2>1 DEF Delivers, Base, MemoryIsByKey
<1>3. CASE Outside
  BY <1>3 DEF Outside, Base, RunIsOnOpenKey, MemoryIsByKey, Key
<1> QED BY <1>1, <1>2, <1>3, NextShape

(* So they hold always. *)
LEMMA BaseInvariance == Spec => []Base
<1>1. Init => Base
  BY InitBase
<1>2. Base /\ [Next]_vars => Base'
  BY BaseStep
<1> QED BY <1>1, <1>2, PTL DEF Spec

(* Types are kept by every step of the loop and of the world around it,    *)
(* for any number of providers, deliveries and faults.                     *)
THEOREM LoopTypes == Spec => []TypeOK
<1>1. Base => TypeOK
  BY DEF Base
<1> QED BY <1>1, BaseInvariance, PTL

(* AutonomousLoop implements WorkOrders: whatever faults, redeliveries and *)
(* key reuse happen, _completed and _unreconciled settle a key at most     *)
(* once, by a request of that key, and never reopen or overwrite it.       *)
THEOREM LoopSettlesKeysOnce == Spec => SettlesKeysOnce
<1> DEFINE st == [k \in Keys |->
             IF completed[k] # None THEN [req |-> completed[k].req, how |-> "receipted"]
             ELSE IF unreconciled[k] # None
                  THEN [req |-> unreconciled[k].req, how |-> "unreconciled"]
                  ELSE None]
<1>1. Init => Orders!Init
  BY DEF Init, Orders!Init
<1>2. Base /\ Base' /\ [Next]_vars => [Orders!Next]_st
  <2> SUFFICES ASSUME Base, Base', [Next]_vars PROVE Orders!Next \/ st' = st
    OBVIOUS
  <2>1. CASE completed' = completed /\ unreconciled' = unreconciled
    BY <2>1
  <2>2. CASE Shape
    <3>1. ASSUME NEW q \in Orders!Settled, st[Key] = None, KeyOf[q.req] = Key,
                 st' = [st EXCEPT ![Key] = q]
          PROVE  Orders!Next
      <4>1. Key \in Keys
        BY <2>2, Settles
      <4> QED BY <3>1, <4>1 DEF Orders!Next, Orders!Settle
    <3>2. run.req \in Requests /\ KeyOf[run.req] = Key
      BY <2>2 DEF Base, RunIsOnOpenKey, Shape, Key
    <3>3. st[Key] = None
      BY <2>2, Settles
    <3>4. CASE completed'[Key] = None /\ unreconciled'[Key] = None
      BY <2>2, <3>4, Settles
    <3>5. CASE completed'[Key] = None /\ unreconciled'[Key] # None /\ unreconciled'[Key].req = run.req
      <4> DEFINE q == [req |-> run.req, how |-> "unreconciled"]
      <4>1. q \in Orders!Settled /\ KeyOf[q.req] = Key
        BY <3>2 DEF Orders!Settled
      <4>2. st' = [st EXCEPT ![Key] = q]
        BY <2>2, <3>5, Settles
      <4> QED BY <3>1, <3>3, <4>1, <4>2
    <3>6. CASE completed'[Key] # None /\ completed'[Key].req = run.req
      <4> DEFINE q == [req |-> run.req, how |-> "receipted"]
      <4>1. q \in Orders!Settled /\ KeyOf[q.req] = Key
        BY <3>2 DEF Orders!Settled
      <4>2. st' = [st EXCEPT ![Key] = q]
        BY <2>2, <3>6, Settles
      <4> QED BY <3>1, <3>3, <4>1, <4>2
    <3> QED BY <2>2, <3>4, <3>5, <3>6, Settles
  <2> QED BY <2>1, <2>2, NextShape DEF Delivers, Outside
<1> QED BY <1>1, <1>2, BaseInvariance, PTL DEF Spec, SettlesKeysOnce, Orders!Spec

(* A known effect is always held by the memory or by the current run,      *)
(* unless exceptions escape run().                                         *)
LEMMA HeldStep ==
  ASSUME "escape" \notin Faults, Base, KnownEffectsAreHeld, [Next]_vars
  PROVE  KnownEffectsAreHeld'
<1>1. CASE Shape
  <2> SUFFICES ASSUME NEW k \in Keys, NEW e \in effects'[k], e.known,
                      completed'[k] = None, unreconciled'[k] = None
               PROVE  phase' # "idle" /\ Key' = k /\ e.delivery = deliveries' /\ acts' # << >>
    BY DEF KnownEffectsAreHeld
  <2>1. /\ NewEffects /\ Key = KeyOf[run.req] /\ Key' = KeyOf[run'.req]
        /\ phase # "idle"
    BY <1>1 DEF Shape, Key
  <2>2. CASE e \in effects[k]
    <3>1. completed[k] = None /\ unreconciled[k] = None
      BY <1>1, Settles
    <3>2. Key = k /\ e.delivery = deliveries /\ acts # << >>
      BY <2>2, <3>1 DEF KnownEffectsAreHeld
    <3>3. phase' # "idle"
      BY <1>1, <3>2, Settles
    <3>4. run'.req = run.req
      BY <1>1, <3>3, Settles
    <3> QED BY <2>1, <3>2, <3>3, <3>4 DEF NewEffects
  <2>3. CASE e \notin effects[k]
    <3>1. k = Key /\ e.delivery = deliveries /\ phase' # "idle" /\ acts' # << >>
      BY <2>1, <2>3 DEF NewEffects
    <3>2. run'.req = run.req
      BY <1>1, <3>1, Settles
    <3> QED BY <2>1, <3>1, <3>2 DEF NewEffects
  <2> QED BY <2>2, <2>3
<1>2. CASE Delivers
  BY <1>2 DEF Delivers, KnownEffectsAreHeld
<1>3. CASE Outside
  BY <1>3 DEF Outside, KnownEffectsAreHeld, Key
<1> QED BY <1>1, <1>2, <1>3, NextShape

(* Every step keeps known effects within one delivery. *)
LEMMA OnceStep ==
  ASSUME Base, KnownEffectsAreHeld, KnownEffectsInOneDelivery, [Next]_vars
  PROVE  KnownEffectsInOneDelivery'
<1>1. CASE Shape
  <2> SUFFICES ASSUME NEW k \in Keys, NEW e \in effects'[k], NEW f \in effects'[k],
                      e.known, f.known
               PROVE  e.delivery = f.delivery
    BY DEF KnownEffectsInOneDelivery
  <2>1. ASSUME NEW x \in effects'[k], x.known, x \notin effects[k]
        PROVE  k = Key /\ x.delivery = deliveries
    BY <1>1, <2>1 DEF Shape, NewEffects
  <2>2. ASSUME NEW x \in effects[k], x.known, k = Key
        PROVE  x.delivery = deliveries
    BY <1>1, <2>2, Settles DEF KnownEffectsAreHeld
  <2> QED BY <2>1, <2>2 DEF KnownEffectsInOneDelivery
<1>2. CASE effects' = effects
  BY <1>2 DEF KnownEffectsInOneDelivery
<1> QED BY <1>1, <1>2, NextShape DEF Delivers, Outside

(* As long as no exception escapes run(), all known effects of a key       *)
(* belong to one delivery.                                                 *)
THEOREM LoopActsInOneDelivery ==
  ASSUME "escape" \notin Faults
  PROVE  Spec => []KnownEffectsInOneDelivery
<1> DEFINE I == Base /\ KnownEffectsAreHeld /\ KnownEffectsInOneDelivery
<1>1. Init => I
  BY InitBase DEF Init, KnownEffectsInOneDelivery
<1>2. I /\ [Next]_vars => I'
  BY BaseStep, HeldStep, OnceStep
<1> QED BY <1>1, <1>2, PTL DEF Spec

-----------------------------------------------------------------------------
(* What a step does to the evidence of a run *)

Actuated == {"observe", "verify", "recheck", "journal", "journal_verify"}
SameActuation ==
  /\ run'.req = run.req /\ run'.claims = run.claims
  /\ run'.declared = run.declared /\ run'.pin = run.pin
SameLedger == acts' = acts /\ effects' = effects /\ completed' = completed

(* An effect is entered in the ledger, a subject is looked at, a           *)
(* verification goes on, the run leaves the actuation, or it is receipted. *)
Witnesses ==
  /\ phase = "execute" /\ phase' \in {"observe", "journal"} /\ completed' = completed
  /\ run'.req = run.req /\ run'.claims = run.claims
  /\ acts' = Append(acts, [exec |-> run.claims, declared |-> run'.declared])
  /\ \E x \in Effects : /\ x.known /\ x.exec = run.claims
                        /\ effects' = [effects EXCEPT ![Key] = effects[Key] \cup {x}]
Looks ==
  /\ phase \in {"observe", "journal"} /\ phase' \in {"verify", "journal_verify"}
  /\ SameActuation /\ SameLedger /\ run'.seen = sha /\ Attributable(sha)
Rests ==
  /\ phase = "verify" /\ phase' \in {"verify", "recheck"}
  /\ SameActuation /\ SameLedger /\ run'.seen = run.seen
Leaves ==
  /\ phase' \notin Actuated
  /\ phase' # "idle" => run'.req = run.req
  /\ acts' = acts /\ completed' = completed
  /\ \A k \in Keys : KnownExecs(k)' = KnownExecs(k)
Receipts ==
  /\ phase \in {"recheck", "journal_verify"} /\ phase' = "idle"
  /\ \E j \in ShaOrNone : Complete(j, run.seen)
  /\ acts' = acts /\ effects' = effects

Evidence == phase # "idle" /\ (Witnesses \/ Looks \/ Rests \/ Leaves \/ Receipts)

(* A run that goes on goes on with its request. *)
LEMMA ShapeKeepsRequest == ASSUME Shape, phase' # "idle" PROVE run'.req = run.req
  BY DEF Shape, Goes, Stops, Stop, Completes, Complete, Escapes

(* A step without a known effect that leaves the actuation. *)
LEMMA LeavesQuietly ==
  ASSUME Shape, acts' = acts, completed' = completed, phase' \notin Actuated,
         \/ effects' = effects
         \/ TypeOK /\ \E t \in Shas : Actuate(t, FALSE)
  PROVE  Evidence
<1>1. phase # "idle"
  BY DEF Shape
<1>2. CASE effects' = effects
  BY <1>1, <1>2, ShapeKeepsRequest DEF Evidence, Leaves, KnownExecs
<1>3. ASSUME TypeOK, NEW t \in Shas, Actuate(t, FALSE) PROVE Evidence
  <2> DEFINE x == [delivery |-> deliveries, exec |-> run.claims, known |-> FALSE]
  <2>1. effects' = [effects EXCEPT ![Key] = effects[Key] \cup {x}] /\ x.known = FALSE
    BY <1>3 DEF Actuate
  <2> HIDE DEF x
  <2>2. ASSUME NEW k \in Keys PROVE KnownExecs(k)' = KnownExecs(k)
    <3>1. effects'[k] = effects[k] \/ effects'[k] = effects[k] \cup {x}
      BY <1>3, <2>1 DEF TypeOK
    <3>2. {f \in effects'[k] : f.known} = {f \in effects[k] : f.known}
      BY <2>1, <3>1
    <3> QED BY <3>2 DEF KnownExecs
  <2> QED BY <1>1, <2>2, ShapeKeepsRequest DEF Evidence, Leaves
<1> QED BY <1>2, <1>3

(* Before the actuation nothing is entered in the ledger. *)
LEMMA ClaimEvidence ==
  ASSUME Base, Resolve \/ GiveUp \/ ExpiredAfterClaim \/ Claim \/ ClaimFault \/ CrashBefore
  PROVE  Evidence
<1>1. Shape
  BY StepShape DEF LoopStep
<1>2. acts' = acts /\ effects' = effects
  BY DEF Resolve, GiveUp, ExpiredAfterClaim, Claim, ClaimFault, CrashBefore
<1>3. completed' = completed /\ phase' \in {"idle", "claim", "execute"}
  BY DEF Resolve, GiveUp, ExpiredAfterClaim, Claim, ClaimFault, CrashBefore, Substitute, Stop,
     Proceed, memory
<1> QED BY <1>1, <1>2, <1>3, LeavesQuietly DEF Actuated

(* An effect that is returned or journaled is entered in the ledger. *)
LEMMA WitnessEvidence ==
  ASSUME Base, phase = "execute", NEW s \in Shas, NEW p \in {"observe", "journal"},
         Actuate(s, TRUE), Witness(s, p)
  PROVE  Evidence
<1> DEFINE x == [delivery |-> deliveries, exec |-> run.claims, known |-> TRUE]
<1>1. TypeOK
  BY DEF Base
<1>2. x \in Effects /\ x.known /\ x.exec = run.claims
  BY <1>1, RunCounters DEF TypeOK, Effects
<1>3. effects' = [effects EXCEPT ![Key] = effects[Key] \cup {x}]
  BY DEF Actuate
<1> HIDE DEF x
<1>4. PICK d \in {None, s}, g \in {TRUE, "digest" \notin Faults} :
        /\ run' = [run EXCEPT !.declared = d, !.digest = g]
        /\ acts' = Append(acts, [exec |-> run.claims, declared |-> d])
        /\ Proceed(p)
  BY DEF Witness
<1>5. run'.req = run.req /\ run'.claims = run.claims /\ run'.declared = d
  BY <1>1, <1>4 DEF TypeOK, Run
<1>6. phase' = p /\ completed' = completed
  BY <1>4 DEF Proceed, memory
<1> QED BY <1>2, <1>3, <1>4, <1>5, <1>6 DEF Evidence, Witnesses

(* Executions: told, hidden, crashed or escaped. *)
LEMMA ExecuteEvidence ==
  ASSUME Base, Execute \/ CrashAfter \/ ExecuteFault \/ Escape
  PROVE  Evidence
<1>1. Shape /\ TypeOK
  BY StepShape DEF LoopStep, Base
<1>2. CASE Execute
  BY <1>2, WitnessEvidence DEF Execute
<1>3. CASE CrashAfter
  <2>1. PICK s \in Shas :
         \/ Actuate(s, TRUE) /\ Witness(s, "journal")
         \/ Actuate(s, FALSE) /\ Stop(run.req, "TypedBlock", acts) /\ UNCHANGED <<run, acts>>
    BY <1>3 DEF CrashAfter
  <2>2. CASE Actuate(s, TRUE) /\ Witness(s, "journal")
    BY <1>3, <2>2, WitnessEvidence DEF CrashAfter
  <2>3. CASE Actuate(s, FALSE) /\ Stop(run.req, "TypedBlock", acts) /\ UNCHANGED <<run, acts>>
    BY <1>1, <2>3, LeavesQuietly DEF Stop, Actuated
  <2> QED BY <2>1, <2>2, <2>3
<1>4. CASE ExecuteFault
  <2>1. acts' = acts /\ (effects' = effects \/ \E s \in Shas : Actuate(s, FALSE))
    BY <1>4 DEF ExecuteFault
  <2>2. completed' = completed /\ phase' \in {"idle", "claim"}
    BY <1>4 DEF ExecuteFault, Substitute, Stop, Proceed, memory
  <2> QED BY <1>1, <2>1, <2>2, LeavesQuietly DEF Actuated
<1>5. CASE Escape
  <2>1. acts' = acts /\ (effects' = effects \/ \E s \in Shas : Actuate(s, FALSE))
    BY <1>5 DEF Escape
  <2>2. completed' = completed /\ phase' = "idle"
    BY <1>5 DEF Escape, memory
  <2> QED BY <1>1, <2>1, <2>2, LeavesQuietly DEF Actuated
<1> QED BY <1>2, <1>3, <1>4, <1>5

(* A look at the subject goes on only if the subject is attributable. *)
LEMMA LookEvidence ==
  ASSUME Base, Observe \/ Journal
  PROVE  Evidence
<1>1. Shape /\ run \in Run
  BY StepShape DEF LoopStep, Base, TypeOK
<1>2. phase \in {"observe", "journal"} /\ effects' = effects
  BY DEF Observe, Journal
<1>3. CASE phase' \in {"idle", "claim"} /\ acts' = acts /\ completed' = completed
  BY <1>1, <1>2, <1>3, LeavesQuietly DEF Actuated
<1>4. CASE /\ Attributable(sha) /\ acts' = acts /\ phase' \in {"verify", "journal_verify"}
           /\ completed' = completed
           /\ run' = [run EXCEPT !.seen = sha] \/ run' = [run EXCEPT !.seen = sha, !.checks = 0]
  <2>1. SameActuation /\ run'.seen = sha
    BY <1>1, <1>4 DEF SameActuation, Run
  <2> QED BY <1>2, <1>4, <2>1 DEF Evidence, Looks, SameLedger
<1> QED BY <1>3, <1>4 DEF Observe, Journal, Moved, Replan, Blocked, Stop, Proceed, memory

(* Verification and receipt keep to what was looked at. *)
LEMMA VerifyEvidence ==
  ASSUME Base, Verify \/ Recheck \/ JournalVerify
  PROVE  Evidence
<1>1. Shape /\ TypeOK /\ run \in Run /\ effects' = effects
  BY StepShape DEF LoopStep, Base, TypeOK, Verify, Recheck, JournalVerify
<1>2. CASE phase' \in {"idle", "claim"} /\ acts' = acts /\ completed' = completed
  BY <1>1, <1>2, LeavesQuietly DEF Actuated
<1>3. CASE /\ phase = "verify" /\ phase' \in {"verify", "recheck"} /\ acts' = acts
           /\ completed' = completed
           /\ run' = run \/ run' = [run EXCEPT !.checks = run.checks + 1]
  <2>1. SameActuation /\ run'.seen = run.seen
    BY <1>1, <1>3 DEF SameActuation, Run
  <2> QED BY <1>1, <1>3, <2>1 DEF Evidence, Rests, SameLedger
<1>4. CASE Recheck /\ sha = run.seen /\ Complete(run.seen, sha) /\ UNCHANGED <<run, acts>>
  <2>1. phase = "recheck" /\ phase' = "idle" /\ run.seen \in ShaOrNone
    BY <1>1, <1>4, RunCounters DEF Recheck, Complete
  <2> QED BY <1>1, <1>4, <2>1 DEF Evidence, Receipts
<1>5. CASE JournalVerify /\ Complete(sha, run.seen)
  <2>1. phase = "journal_verify" /\ phase' = "idle" /\ sha \in ShaOrNone /\ acts' = acts
    BY <1>1, <1>5 DEF JournalVerify, Complete, TypeOK, ShaOrNone
  <2> QED BY <1>1, <1>5, <2>1 DEF Evidence, Receipts
<1>6. CASE Verify
  BY <1>2, <1>3, <1>6 DEF Verify, Blocked, Stop, Proceed, memory
<1>7. CASE Recheck
  BY <1>2, <1>4, <1>7 DEF Recheck, Replan, Blocked, Stop, Proceed, memory
<1>8. CASE JournalVerify
  BY <1>2, <1>5, <1>8 DEF JournalVerify, Stop
<1> QED BY <1>6, <1>7, <1>8

(* What a delivery does to the evidence: it starts with an empty ledger.   *)
Opens == Delivers /\ phase' \notin Actuated /\ acts' = << >>

(* Every step of the specification does one of these to the evidence. *)
LEMMA NextEvidence == ASSUME Base, [Next]_vars PROVE Evidence \/ Opens \/ Outside
<1>1. CASE LoopStep
  BY <1>1, ClaimEvidence, ExecuteEvidence, LookEvidence, VerifyEvidence DEF LoopStep
<1>2. ASSUME NEW r \in Requests, Deliver(r) PROVE Opens
  <2>1. Delivers
    BY <1>2, DeliverShape
  <2>2. phase' \in {"idle", "resolve"} /\ acts' = << >>
    BY <1>2 DEF Deliver, DedupeGate, Stop, Proceed
  <2> QED BY <2>1, <2>2 DEF Opens, Actuated
<1> QED BY <1>1, <1>2, OutsideShape DEF Next

(* The actuation at hand stays the last of the ledger. *)
LEMMA AdmittedStep ==
  ASSUME Base, AdmittedIsLast, [Next]_vars
  PROVE  AdmittedIsLast'
<1>1. TypeOK /\ acts \in Seq(Actuation)
  BY DEF Base, TypeOK
<1>2. CASE Evidence /\ Witnesses
  <2> DEFINE a == [exec |-> run.claims, declared |-> run'.declared]
  <2>1. acts' = Append(acts, a) /\ run'.claims = run.claims
    BY <1>2 DEF Witnesses
  <2>2. acts' # << >> /\ acts'[Len(acts')] = a
    BY <1>1, <2>1
  <2> QED BY <2>1, <2>2 DEF AdmittedIsLast
<1>3. CASE Evidence /\ (Looks \/ Rests)
  BY <1>3 DEF Looks, Rests, SameActuation, SameLedger, AdmittedIsLast
<1>4. CASE Evidence /\ (Leaves \/ Receipts)
  BY <1>4 DEF Leaves, Receipts, Actuated, AdmittedIsLast
<1>5. CASE Opens \/ Outside
  BY <1>5 DEF Opens, Actuated, Outside, AdmittedIsLast
<1> QED BY <1>2, <1>3, <1>4, <1>5, NextEvidence DEF Evidence

(* The subject that was looked at stays attributable to it. *)
LEMMA SeenStep ==
  ASSUME Base, SeenIsAttributable, [Next]_vars
  PROVE  SeenIsAttributable'
<1>1. CASE Evidence /\ (Looks \/ Rests)
  BY <1>1 DEF Looks, Rests, SameActuation, SeenIsAttributable, Attributable
<1>2. CASE Evidence /\ (Witnesses \/ Leaves \/ Receipts)
  BY <1>2 DEF Witnesses, Leaves, Receipts, Actuated, SeenIsAttributable
<1>3. CASE Opens \/ Outside
  BY <1>3 DEF Opens, Actuated, Outside, SeenIsAttributable, Attributable
<1> QED BY <1>1, <1>2, <1>3, NextEvidence DEF Evidence

(* The ledger of the run goes on listing all that is known under its key. *)
LEMMA WholeStep ==
  ASSUME Base, KnownEffectsAreHeld, LedgerIsWhole, [Next]_vars
  PROVE  LedgerIsWhole'
<1> SUFFICES ASSUME phase' # "idle"
             PROVE  {acts'[i].exec : i \in DOMAIN acts'}
                      = {e.exec : e \in {f \in effects'[KeyOf[run'.req]] : f.known}}
  BY DEF LedgerIsWhole, Key, KnownExecs
<1>1. TypeOK /\ acts \in Seq(Actuation)
  BY DEF Base, TypeOK
<1>2. CASE Evidence
  <2>1. /\ run.req \in Requests /\ Key = KeyOf[run.req] /\ Key \in Keys
        /\ {acts[i].exec : i \in DOMAIN acts} = KnownExecs(Key)
    BY <1>2, LoopAssumption DEF Evidence, LedgerIsWhole, Base, RunIsOnOpenKey, Key
  <2>2. CASE Witnesses
    <3> DEFINE a == [exec |-> run.claims, declared |-> run'.declared]
    <3>1. acts' = Append(acts, a) /\ a.exec = run.claims /\ run'.req = run.req
      BY <2>2 DEF Witnesses
    <3> HIDE DEF a
    <3>2. /\ DOMAIN acts' = DOMAIN acts \cup {Len(acts) + 1} /\ acts'[Len(acts) + 1] = a
          /\ \A i \in DOMAIN acts : acts'[i] = acts[i]
      BY <1>1, <3>1
    <3>3. {acts'[i].exec : i \in DOMAIN acts'} = {acts[i].exec : i \in DOMAIN acts} \cup {run.claims}
      BY <3>1, <3>2
    <3>4. PICK x \in Effects : /\ x.known /\ x.exec = run.claims
                               /\ effects' = [effects EXCEPT ![Key] = effects[Key] \cup {x}]
      BY <2>2 DEF Witnesses
    <3>5. effects'[Key] = effects[Key] \cup {x}
      BY <1>1, <2>1, <3>4 DEF TypeOK
    <3>6. {e.exec : e \in {f \in effects'[Key] : f.known}} = KnownExecs(Key) \cup {run.claims}
      BY <3>4, <3>5 DEF KnownExecs
    <3>7. {e.exec : e \in {f \in effects'[KeyOf[run'.req]] : f.known}} = KnownExecs(Key) \cup {run.claims}
      BY <2>1, <3>1, <3>6
    <3> QED BY <2>1, <3>3, <3>7
  <2>3. CASE Looks \/ Rests
    BY <2>1, <2>3 DEF Looks, Rests, SameActuation, SameLedger, KnownExecs
  <2>4. CASE Leaves
    <3>1. PICK k \in Keys : k = KeyOf[run.req]
      BY <2>1
    <3>2. run'.req = run.req /\ acts' = acts /\ KnownExecs(k)' = KnownExecs(k)
      BY <2>4 DEF Leaves
    <3>3. effects'[KeyOf[run'.req]] = effects'[k] /\ effects[Key] = effects[k]
      BY <2>1, <3>1, <3>2
    <3>4. {e.exec : e \in {f \in effects'[k] : f.known}} = {acts[i].exec : i \in DOMAIN acts}
      BY <2>1, <3>2, <3>3 DEF KnownExecs
    <3> QED BY <3>2, <3>3, <3>4
  <2> QED BY <1>2, <2>2, <2>3, <2>4 DEF Evidence, Receipts
<1>3. CASE Opens
  <2>1. PICK k \in Keys : k = KeyOf[run'.req]
    BY <1>3, LoopAssumption DEF Opens, Delivers
  <2>2. \A e \in effects[k] : ~e.known
    BY <1>3, <2>1 DEF Opens, Delivers, KnownEffectsAreHeld
  <2>3. effects' = effects /\ acts' = << >>
    BY <1>3 DEF Opens, Delivers
  <2>4. {acts'[i].exec : i \in DOMAIN acts'} = {}
    BY <2>3
  <2>5. {e.exec : e \in {f \in effects'[k] : f.known}} = {}
    BY <2>2, <2>3
  <2> QED BY <2>1, <2>4, <2>5
<1>4. CASE Outside
  BY <1>4 DEF Outside, LedgerIsWhole, KnownExecs, Key
<1> QED BY <1>2, <1>3, <1>4, NextEvidence

(* The receipt of a run, field by field. *)
LEMMA ReceiptFields ==
  ASSUME Base, phase # "idle", NEW j \in ShaOrNone, Complete(j, run.seen)
  PROVE  /\ Key \in Keys
         /\ \A k \in Keys : k # Key => completed'[k] = completed[k]
         /\ completed'[Key].acts = acts /\ completed'[Key].exec = run.claims
         /\ completed'[Key].after = run.seen /\ completed'[Key].pin = run.pin
<1> DEFINE c == [req |-> run.req, exec |-> run.claims, before |-> run.before, after |-> run.seen,
                 pin |-> run.pin, judged |-> j, acts |-> acts]
<1>1. completed' = [completed EXCEPT ![Key] = c]
  BY DEF Complete
<1>2. Key \in Keys /\ completed \in [Keys -> ReceiptRecord \cup {None}]
  BY LoopAssumption DEF Base, RunIsOnOpenKey, TypeOK, Key
<1>3. c.acts = acts /\ c.exec = run.claims /\ c.after = run.seen /\ c.pin = run.pin
  OBVIOUS
<1> HIDE DEF c
<1> QED BY <1>1, <1>2, <1>3

(* The subject of every receipt stays attributable. *)
LEMMA SubjectStep ==
  ASSUME Base, AdmittedIsLast, SeenIsAttributable, ReceiptedSubjectIsAttributable, [Next]_vars
  PROVE  ReceiptedSubjectIsAttributable'
<1>1. CASE completed' = completed
  BY <1>1 DEF ReceiptedSubjectIsAttributable
<1>2. CASE Evidence /\ Receipts
  <2>1. PICK j \in ShaOrNone : Complete(j, run.seen)
    BY <1>2 DEF Receipts
  <2>2. /\ Key \in Keys
        /\ \A k \in Keys : k # Key => completed'[k] = completed[k]
        /\ completed'[Key].acts = acts
        /\ completed'[Key].after = run.seen /\ completed'[Key].pin = run.pin
    BY <1>2, <2>1, ReceiptFields DEF Evidence
  <2>3. acts[Len(acts)].declared = run.declared /\ Attributable(run.seen)
    BY <1>2 DEF Receipts, AdmittedIsLast, SeenIsAttributable
  <2>4. ASSUME NEW k \in Keys, completed'[k] # None
        PROVE  \/ completed'[k].after = completed'[k].pin
               \/ completed'[k].after = completed'[k].acts[Len(completed'[k].acts)].declared
    <3>1. CASE k = Key
      BY <2>2, <2>3, <3>1 DEF Attributable
    <3>2. CASE k # Key
      BY <2>2, <2>4, <3>2 DEF ReceiptedSubjectIsAttributable
    <3> QED BY <3>1, <3>2
  <2> QED BY <2>4 DEF ReceiptedSubjectIsAttributable
<1>3. CASE ~(Evidence /\ Receipts)
  <2>1. completed' = completed
    BY <1>3, NextEvidence DEF Evidence, Witnesses, Looks, Rests, SameLedger, Leaves, Opens, Delivers,
       Outside
  <2> QED BY <1>1, <2>1
<1> QED BY <1>2, <1>3

(* What receipts list stays all that is known under their key. *)
LEMMA ListsStep ==
  ASSUME Base, LedgerIsWhole, AdmittedIsLast, ReceiptListsEveryKnownEffect, [Next]_vars
  PROVE  ReceiptListsEveryKnownEffect'
<1> SUFFICES ASSUME NEW k \in Keys, completed'[k] # None
             PROVE  /\ {completed'[k].acts[i].exec : i \in DOMAIN completed'[k].acts}
                         = {e.exec : e \in {f \in effects'[k] : f.known}}
                    /\ completed'[k].acts # << >>
                    /\ completed'[k].acts[Len(completed'[k].acts)].exec = completed'[k].exec
  BY DEF ReceiptListsEveryKnownEffect
<1>0. TypeOK
  BY DEF Base
<1>1. ASSUME completed'[k] = completed[k], KnownExecs(k)' = KnownExecs(k)
      PROVE  /\ {completed'[k].acts[i].exec : i \in DOMAIN completed'[k].acts}
                  = {e.exec : e \in {f \in effects'[k] : f.known}}
             /\ completed'[k].acts # << >>
             /\ completed'[k].acts[Len(completed'[k].acts)].exec = completed'[k].exec
  BY <1>1 DEF ReceiptListsEveryKnownEffect, KnownExecs
<1>2. CASE Evidence /\ Receipts
  <2>1. PICK j \in ShaOrNone : Complete(j, run.seen)
    BY <1>2 DEF Receipts
  <2>2. /\ Key \in Keys
        /\ \A m \in Keys : m # Key => completed'[m] = completed[m]
        /\ completed'[Key].acts = acts /\ completed'[Key].exec = run.claims /\ effects' = effects
    BY <1>2, <2>1, ReceiptFields DEF Evidence, Receipts
  <2>3. CASE k # Key
    BY <1>1, <2>2, <2>3 DEF KnownExecs
  <2>4. CASE k = Key
    <3>1. {acts[i].exec : i \in DOMAIN acts} = KnownExecs(Key)
      BY <1>2 DEF Evidence, LedgerIsWhole
    <3>2. acts # << >> /\ acts[Len(acts)].exec = run.claims
      BY <1>2 DEF Receipts, AdmittedIsLast
    <3>3. completed'[k].acts = acts /\ completed'[k].exec = run.claims /\ effects'[k] = effects[Key]
      BY <2>2, <2>4
    <3>4. {acts[i].exec : i \in DOMAIN acts} = {e.exec : e \in {f \in effects'[k] : f.known}}
      BY <3>1, <3>3 DEF KnownExecs
    <3> QED BY <3>2, <3>3, <3>4
  <2> QED BY <2>3, <2>4
<1>3. CASE Evidence /\ Witnesses
  <2>1. completed' = completed
    BY <1>3 DEF Witnesses
  <2>2. k # Key
    BY <1>3, <2>1 DEF Evidence, Base, RunIsOnOpenKey
  <2>3. effects'[k] = effects[k]
    BY <1>0, <1>3, <2>2 DEF Witnesses, TypeOK
  <2> QED BY <1>1, <2>1, <2>3 DEF KnownExecs
<1>4. CASE Evidence /\ (Looks \/ Rests \/ Leaves)
  BY <1>1, <1>4 DEF Looks, Rests, SameLedger, Leaves, KnownExecs
<1>5. CASE Opens \/ Outside
  BY <1>1, <1>5 DEF Opens, Delivers, Outside, KnownExecs
<1> QED BY <1>2, <1>3, <1>4, <1>5, NextEvidence DEF Evidence

(* A new loop has no evidence to be wrong. *)
LEMMA InitEvidence ==
  ASSUME Init
  PROVE  /\ LedgerIsWhole /\ AdmittedIsLast /\ SeenIsAttributable
         /\ ReceiptListsEveryKnownEffect /\ ReceiptedSubjectIsAttributable
  BY DEF Init, LedgerIsWhole, AdmittedIsLast, SeenIsAttributable, ReceiptListsEveryKnownEffect,
     ReceiptedSubjectIsAttributable

(* As long as no exception escapes run(), every effect that was returned   *)
(* or journaled is remembered under its key or is in the ledger of the     *)
(* current run, which is alone on an open key.                             *)
THEOREM LoopSafety ==
  ASSUME "escape" \notin Faults
  PROVE  Spec => []LoopInvariant
<1> DEFINE I == /\ Base /\ KnownEffectsAreHeld /\ LedgerIsWhole /\ AdmittedIsLast
                /\ SeenIsAttributable
<1>1. Init => I
  BY InitBase, InitEvidence
<1>2. I /\ [Next]_vars => I'
  BY BaseStep, HeldStep, WholeStep, AdmittedStep, SeenStep
<1>3. I => LoopInvariant
  BY DEF Base, LoopInvariant
<1> QED BY <1>1, <1>2, <1>3, PTL DEF Spec

(* As long as no exception escapes run(), a receipt lists exactly the      *)
(* effects that were returned or journaled under its key, those of failed  *)
(* attempts and replans included, and the admitted one last.               *)
THEOREM LoopReceiptsListEverything ==
  ASSUME "escape" \notin Faults
  PROVE  Spec => []ReceiptListsEveryKnownEffect
<1> DEFINE I == /\ Base /\ KnownEffectsAreHeld /\ LedgerIsWhole /\ AdmittedIsLast
                /\ ReceiptListsEveryKnownEffect
<1>1. Init => I
  BY InitBase, InitEvidence
<1>2. I /\ [Next]_vars => I'
  BY BaseStep, HeldStep, WholeStep, AdmittedStep, ListsStep
<1> QED BY <1>1, <1>2, PTL DEF Spec

(* The subject of a receipt is the pinned one or the commit its admitted   *)
(* actuation declared, however often the subject moves meanwhile and       *)
(* whatever raises.                                                        *)
THEOREM LoopReceiptsAreAttributable == Spec => []ReceiptedSubjectIsAttributable
<1> DEFINE I == Base /\ AdmittedIsLast /\ SeenIsAttributable /\ ReceiptedSubjectIsAttributable
<1>1. Init => I
  BY InitBase, InitEvidence
<1>2. I /\ [Next]_vars => I'
  BY BaseStep, AdmittedStep, SeenStep, SubjectStep
<1> QED BY <1>1, <1>2, PTL DEF Spec

-----------------------------------------------------------------------------
(* The bound on claims *)

(* What a step does to the four counters of a run that the bound is about. *)
Spends ==
  \/ run'.claims = 0 /\ run'.attempts = 0 /\ run'.switches = 0
  \/ /\ run'.claims = run.claims /\ run'.attempts = run.attempts
     /\ run'.switches = run.switches
  \/ /\ run'.claims = run.claims + 1 /\ run'.attempts = run.attempts + 1
     /\ run'.switches = run.switches /\ run.attempts <= MaxRetries
  \/ /\ run'.attempts = 0 /\ run'.switches = run.switches + 1 /\ run.switches < MaxSwitches
     /\ \/ run'.claims = run.claims
        \/ run'.claims = run.claims + 1 /\ run.attempts <= MaxRetries

(* A substitution trades a switch for a fresh retry budget. *)
LEMMA SubstituteSpends ==
  ASSUME run \in Run, NEW r \in Run, Substitute(r), r.switches = run.switches,
         \/ r.claims = run.claims /\ r.attempts = run.attempts
         \/ r.claims = run.claims + 1 /\ r.attempts = run.attempts + 1 /\ run.attempts <= MaxRetries
  PROVE  Spends
<1>1. CASE run' = r
  BY <1>1 DEF Spends
<1>2. ASSUME NEW k \in 1..N, SwitchesLeft,
             run' = [r EXCEPT !.switches = @ + 1, !.faults = 0, !.attempts = 0, !.idx = k]
      PROVE  Spends
  <2>1. run'.claims = r.claims /\ run'.attempts = 0 /\ run'.switches = r.switches + 1
    BY <1>2 DEF Run
  <2> QED BY <1>2, <2>1 DEF Spends, SwitchesLeft
<1> QED BY <1>1, <1>2 DEF Substitute

(* No action spends otherwise. *)
LEMMA StepSpends == ASSUME TypeOK, [Next]_vars PROVE Spends
<1>1. run \in Run
  BY DEF TypeOK
<1>2. CASE run' = run
  BY <1>2 DEF Spends
<1>3. CASE \E r \in Requests : Deliver(r)
  BY <1>3 DEF Deliver, NoRun, Spends
<1>4. CASE Resolve \/ Execute \/ CrashAfter \/ Verify
  <2>1. \/ run' = run
        \/ \E j \in 1..N : run' = [run EXCEPT !.before = sha, !.idx = j]
        \/ \E d, g : run' = [run EXCEPT !.declared = d, !.digest = g]
        \/ run' = [run EXCEPT !.checks = @ + 1]
    BY <1>4 DEF Resolve, Execute, CrashAfter, Verify, Witness, Blocked
  <2> QED BY <1>1, <1>2, <2>1 DEF Run, Spends
<1>5. CASE Claim
  <2>1. run'.claims = run.claims + 1 /\ run'.attempts = run.attempts + 1
        /\ run'.switches = run.switches
    BY <1>1, <1>5 DEF Claim, Run
  <2>2. run.attempts <= MaxRetries
    BY <1>1, <1>5, LoopAssumption DEF Claim, Exhausted, Run
  <2> QED BY <2>1, <2>2 DEF Spends
<1>6. CASE ClaimFault
  <2>1. run.attempts <= MaxRetries
    BY <1>1, <1>6, LoopAssumption DEF ClaimFault, Exhausted, Run
  <2>2. CASE run' = [run EXCEPT !.attempts = @ + 1, !.claims = @ + 1, !.faults = @ + 1]
    BY <1>1, <2>1, <2>2 DEF Run, Spends
  <2>3. CASE Substitute([run EXCEPT !.attempts = @ + 1, !.claims = @ + 1])
    <3> DEFINE r == [run EXCEPT !.attempts = @ + 1, !.claims = @ + 1]
    <3>0. run.attempts + 1 \in Nat /\ run.claims + 1 \in Nat
      BY <1>1, RunCounters
    <3>1. r \in Run
      BY <1>1, <3>0 DEF Run
    <3>2. r.switches = run.switches /\ r.claims = run.claims + 1 /\ r.attempts = run.attempts + 1
      BY <1>1 DEF Run
    <3>3. Substitute(r)
      BY <2>3
    <3> HIDE DEF r
    <3> QED BY <1>1, <2>1, <3>1, <3>2, <3>3, SubstituteSpends
  <2> QED BY <1>6, <2>2, <2>3 DEF ClaimFault
<1>7. CASE ExecuteFault
  <2>1. CASE run' = [run EXCEPT !.faults = @ + 1]
    BY <1>1, <2>1 DEF Run, Spends
  <2>2. CASE Substitute(run)
    BY <1>1, <2>2, SubstituteSpends
  <2> QED BY <1>7, <2>1, <2>2 DEF ExecuteFault
<1>8. CASE Observe \/ Journal \/ Recheck
  <2>1. \/ run' = run
        \/ run' = [run EXCEPT !.seen = sha]
        \/ run' = [run EXCEPT !.seen = sha, !.checks = 0]
        \/ \E r : Replan(r) /\ (r = run \/ r = [run EXCEPT !.before = run.pin])
    BY <1>8 DEF Observe, Journal, Recheck, Moved, Blocked
  <2>2. CASE \E r : Replan(r) /\ (r = run \/ r = [run EXCEPT !.before = run.pin])
    BY <1>1, <2>2 DEF Replan, Run, Spends
  <2> QED BY <1>1, <1>2, <2>1, <2>2 DEF Run, Spends
<1>9. CASE GiveUp \/ ExpiredAfterClaim \/ CrashBefore \/ JournalVerify \/ Escape
           \/ MoveSubject \/ Tick \/ (\E p \in 1..N : Outage(p)) \/ Quiescent \/ UNCHANGED vars
  BY <1>2, <1>9 DEF GiveUp, ExpiredAfterClaim, CrashBefore, JournalVerify, Escape,
     MoveSubject, Tick, Outage, Quiescent, vars
<1> QED BY <1>3, <1>4, <1>5, <1>6, <1>7, <1>8, <1>9 DEF Next, LoopStep

(* Every switch pays for one full retry budget, so the budgets compose. *)
LEMMA BudgetStep ==
  ASSUME run \in Run, run' \in Run, BudgetInvariant, Spends
  PROVE  BudgetInvariant'
<1> DEFINE B == MaxRetries + 1
           c == run.claims
           a == run.attempts
           s == run.switches
<1>1. c \in Nat /\ a \in Nat /\ s \in Nat /\ B \in Nat /\ MaxSwitches \in Nat
  BY LoopAssumption DEF Run
<1>2. c <= s * B + a /\ a <= B /\ s <= MaxSwitches
  BY DEF BudgetInvariant
<1>3. (s + 1) * B = s * B + B /\ s * B \in Nat
  BY <1>1
<1>4. CASE run'.claims = 0 /\ run'.attempts = 0 /\ run'.switches = 0
  BY <1>1, <1>4 DEF BudgetInvariant
<1>5. CASE run'.claims = c /\ run'.attempts = a /\ run'.switches = s
  BY <1>2, <1>5 DEF BudgetInvariant
<1>6. CASE run'.claims = c + 1 /\ run'.attempts = a + 1 /\ run'.switches = s /\ a <= MaxRetries
  <2>1. c + 1 <= s * B + (a + 1) /\ a + 1 <= B
    BY <1>1, <1>2, <1>3, <1>6, LoopAssumption
  <2> QED BY <1>2, <1>6, <2>1 DEF BudgetInvariant
<1>7. CASE /\ run'.attempts = 0 /\ run'.switches = s + 1 /\ s < MaxSwitches
           /\ run'.claims = c \/ (run'.claims = c + 1 /\ a <= MaxRetries)
  <2>1. run'.claims <= s * B + B
    BY <1>1, <1>2, <1>3, <1>7, LoopAssumption
  <2>2. run'.claims <= (s + 1) * B + 0 /\ s + 1 <= MaxSwitches /\ 0 <= B
    BY <1>1, <1>3, <1>7, <2>1
  <2> QED BY <1>7, <2>2 DEF BudgetInvariant
<1> QED BY <1>4, <1>5, <1>6, <1>7 DEF Spends

(* What bounds the claims of a run holds of a new loop, *)
LEMMA InitClaims == ASSUME Init PROVE Base /\ BudgetInvariant
<1>1. BudgetInvariant
  BY LoopAssumption DEF Init, NoRun, BudgetInvariant
<1> QED BY <1>1, InitBase

(* is kept by every step, *)
LEMMA NextClaims ==
  ASSUME Base, BudgetInvariant, [Next]_vars PROVE Base' /\ BudgetInvariant'
BY BaseStep, StepSpends, BudgetStep DEF Base, TypeOK

(* and is at most a retry budget for each provider. *)
LEMMA ClaimBound == ASSUME Base, BudgetInvariant PROVE TypeOK /\ ClaimsAreBounded
<1> DEFINE B == MaxRetries + 1
<1>1. /\ run.claims \in Nat /\ run.attempts \in Nat /\ run.switches \in Nat
      /\ B \in Nat /\ MaxSwitches \in Nat
  BY LoopAssumption DEF Base, TypeOK, Run
<1>2. run.claims <= run.switches * B + B /\ run.switches <= MaxSwitches
  <2>1. run.switches * B \in Nat
    BY <1>1
  <2> QED BY <1>1, <2>1 DEF BudgetInvariant
<1>3. run.switches * B <= MaxSwitches * B
  BY <1>1, <1>2
<1>4. B * (MaxSwitches + 1) = MaxSwitches * B + B
  BY <1>1
<1>5. run.switches * B \in Nat /\ MaxSwitches * B \in Nat
  BY <1>1
<1>6. ClaimsAreBounded
  BY <1>1, <1>2, <1>3, <1>4, <1>5 DEF ClaimsAreBounded
<1> QED BY <1>6 DEF Base

(* However faults, crashes, rate limits and replans mix, a run claims at   *)
(* most a full retry budget on each provider it may switch to.             *)
THEOREM LoopClaimsAreBounded == Spec => []ClaimsAreBounded
BY InitClaims, NextClaims, ClaimBound, PTL DEF Spec
=============================================================================
