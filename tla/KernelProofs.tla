---------------------------- MODULE KernelProofs ----------------------------
(***************************************************************************)
(* Proofs about Kernel for every set of calls, keys, intents and faults.   *)
(* First type correctness, and that replay never repeats a receipted       *)
(* effect.  Then the evidence it leaves: receipts, caches and answers, the *)
(* worlds of materialize(), the digests of ALIVE receipts and the end of   *)
(* episodes.  For these, every step is put into one of a few shapes, and   *)
(* the invariant is shown against the shapes.                              *)
(***************************************************************************)
EXTENDS Kernel, TLAPS

(* What a ledger holds after append: what it held, and perhaps r. *)
LEMMA AppendedHolds ==
  ASSUME NEW S, NEW l \in Seq(S), NEW r \in S
  PROVE  /\ Appended(l, r) \in Seq(S)
         /\ \A x : HoldsId(Appended(l, r), x) => HoldsId(l, x) \/ x = r.id
         /\ \A x : HoldsId(l, x) => HoldsId(Appended(l, r), x)
         /\ AppendRaises(l, r) => Appended(l, r) = l
  BY DEF Appended, HoldsId

-----------------------------------------------------------------------------
(* The variables a call's own bookkeeping touches, and their types. *)
CallTypes ==
  /\ pc \in [Calls -> Phases]
  /\ outcome \in [Calls -> {"none", "raised", "returned"}]
  /\ answer \in [Calls -> Calls \cup {None}]
  /\ lock \in [Calls -> Calls \cup {None}]
  /\ mlock \in Calls \cup {None}

CacheTypes ==
  /\ actCache \in [Calls -> [Keys -> CacheEntry \cup {None}]]
  /\ matCache \in [Keys -> CacheEntry \cup {None}]
  /\ torndown \in [Calls -> Calls \cup {None}]

(* No other call than c is disturbed: neither its place nor its locks. *)
OthersStay(c) ==
  \A d \in Calls : d # c =>
     /\ pc'[d] = pc[d]
     /\ \A e \in Calls : lock[e] = d => lock'[e] = d

(* Goto moves one call and nothing else of the bookkeeping. *)
LEMMA GotoFacts ==
  ASSUME NEW c \in Calls, NEW p \in Phases, TypeOK, Goto(c, p)
  PROVE  /\ pc' \in [Calls -> Phases]
         /\ outcome' = outcome /\ answer' = answer
         /\ pc'[c] = p
         /\ \A d \in Calls : d # c => pc'[d] = pc[d]
  BY DEF TypeOK, Goto

(* Ending a call frees its own locks only. *)
LEMMA EndFacts ==
  ASSUME NEW c \in Calls, NEW how \in {"raised", "returned"}, NEW r \in Calls \cup {None},
         TypeOK, End(c, how, r)
  PROVE  CallTypes' /\ pc'[c] = "done" /\ OthersStay(c)
<1>1. pc' \in [Calls -> Phases] /\ pc'[c] = "done" /\ \A d \in Calls : d # c => pc'[d] = pc[d]
  BY DEF TypeOK, End, Phases
<1>2. /\ outcome' \in [Calls -> {"none", "raised", "returned"}]
      /\ answer' \in [Calls -> Calls \cup {None}]
  BY DEF TypeOK, End
<1>3. /\ lock' \in [Calls -> Calls \cup {None}]
      /\ mlock' \in Calls \cup {None}
      /\ \A d, e \in Calls : d # c /\ lock[e] = d => lock'[e] = d
  BY DEF TypeOK, End, Release
<1> QED BY <1>1, <1>2, <1>3 DEF CallTypes, OthersStay

(* Raising ends a call and gives its locks back. *)
LEMMA RaiseFacts ==
  ASSUME NEW c \in Calls, TypeOK, Raise(c)
  PROVE  CallTypes' /\ pc'[c] = "done" /\ OthersStay(c)
  BY EndFacts DEF Raise

(* So does returning, with the receipt it answers with. *)
LEMMA ReturnFacts ==
  ASSUME NEW c \in Calls, NEW r \in Calls \cup {None}, TypeOK, Return(c, r)
  PROVE  CallTypes' /\ pc'[c] = "done" /\ OthersStay(c)
  BY EndFacts DEF Return

(* Recording a receipt ends the call and adds at most that receipt. *)
LEMMA RecordFacts ==
  ASSUME NEW c \in Calls, NEW r \in LedgerReceipt, r.id = c, TypeOK, Record(c, r)
  PROVE  /\ CallTypes' /\ pc'[c] = "done" /\ OthersStay(c)
         /\ ledger' \in Seq(LedgerReceipt)
         /\ \A d : HoldsId(ledger', d) => HoldsId(ledger, d) \/ d = c
         /\ AppendRaises(ledger, r) => ledger' = ledger
<1>1. CallTypes' /\ pc'[c] = "done" /\ OthersStay(c)
  BY RaiseFacts, ReturnFacts DEF Record
<1>2. ledger \in Seq(LedgerReceipt) /\ ledger' = Appended(ledger, r)
  BY DEF Record, TypeOK
<1> QED BY <1>1, <1>2, AppendedHolds

(* The cache entry an actuation leaves under its key, unless the ledger    *)
(* raised: then neither the ledger nor the cache has changed.              *)
LEMMA ActuationResultFacts ==
  ASSUME NEW c \in Calls, NEW r \in LedgerReceipt, r.id = c, TypeOK,
         req[c].ep \in Calls, req[c].key \in Keys, req[c].intent \in Intents,
         ActuationResult(c, r, TRUE)
  PROVE  /\ CallTypes' /\ pc'[c] = "done" /\ OthersStay(c)
         /\ ledger' \in Seq(LedgerReceipt)
         /\ \A d : HoldsId(ledger', d) => HoldsId(ledger, d) \/ d = c
         /\ CacheTypes'
         /\ \A e \in Calls, k \in Keys :
               (e = req[c].ep /\ k = req[c].key) \/ actCache'[e][k] = actCache[e][k]
         /\ \/ /\ actCache'[req[c].ep][req[c].key] # None
               /\ actCache'[req[c].ep][req[c].key].id = c
            \/ ledger' = ledger
<1>1. Record(c, r) /\ matCache' = matCache /\ torndown' = torndown
  BY DEF ActuationResult
<1>2. /\ CallTypes' /\ pc'[c] = "done" /\ OthersStay(c)
      /\ ledger' \in Seq(LedgerReceipt)
      /\ \A d : HoldsId(ledger', d) => HoldsId(ledger, d) \/ d = c
      /\ AppendRaises(ledger, r) => ledger' = ledger
  BY <1>1, RecordFacts
<1>3. CASE ~AppendRaises(ledger, r)
  <2> DEFINE entry == [intent |-> req[c].intent, id |-> c]
  <2>1. actCache' = [actCache EXCEPT ![req[c].ep][req[c].key] = entry]
    BY <1>3 DEF ActuationResult
  <2>2. entry \in CacheEntry /\ entry.id = c
    BY DEF CacheEntry
  <2>3. entry # None
    BY <2>2, KernelAssumption DEF CacheEntry
  <2> HIDE DEF entry
  <2>4. /\ actCache' \in [Calls -> [Keys -> CacheEntry \cup {None}]]
        /\ actCache'[req[c].ep][req[c].key] = entry
        /\ \A e \in Calls, k \in Keys :
              (e = req[c].ep /\ k = req[c].key) \/ actCache'[e][k] = actCache[e][k]
    BY <2>1, <2>2 DEF TypeOK
  <2> QED BY <1>1, <1>2, <2>2, <2>3, <2>4 DEF CacheTypes, TypeOK
<1>4. CASE AppendRaises(ledger, r)
  <2>1. actCache' = actCache
    BY <1>4 DEF ActuationResult
  <2> QED BY <1>1, <1>2, <1>4, <2>1 DEF CacheTypes, TypeOK
<1> QED BY <1>3, <1>4

(* _materialization_result: receipt and cache entry appear together. *)
LEMMA MaterializationResultFacts ==
  ASSUME NEW c \in Calls, NEW r \in LedgerReceipt, r.id = c, NEW cache \in BOOLEAN, TypeOK,
         req[c].key \in Keys, req[c].intent \in Intents,
         MaterializationResult(c, r, cache)
  PROVE  /\ CallTypes' /\ pc'[c] = "done" /\ OthersStay(c)
         /\ ledger' \in Seq(LedgerReceipt)
         /\ \A d : HoldsId(ledger', d) => HoldsId(ledger, d) \/ d = c
         /\ CacheTypes'
         /\ actCache' = actCache
<1>1. Record(c, r) /\ actCache' = actCache /\ torndown' = torndown
  BY DEF MaterializationResult
<1>2. /\ CallTypes' /\ pc'[c] = "done" /\ OthersStay(c)
      /\ ledger' \in Seq(LedgerReceipt)
      /\ \A d : HoldsId(ledger', d) => HoldsId(ledger, d) \/ d = c
  BY <1>1, RecordFacts
<1>3. [intent |-> req[c].intent, id |-> c] \in CacheEntry
  BY DEF CacheEntry
<1>4. matCache' \in [Keys -> CacheEntry \cup {None}]
  BY <1>3 DEF MaterializationResult, TypeOK
<1> QED BY <1>1, <1>2, <1>4 DEF CacheTypes, TypeOK

-----------------------------------------------------------------------------
(* Receipts *)

(* Every receipt the kernel builds is well typed and named after its call. *)
LEMMA ReceiptType ==
  ASSUME NEW c \in Calls, NEW op \in AllOps, NEW ep \in Calls, NEW cap \in CapabilityRefs,
         NEW standing \in Standings, NEW reason \in ReceiptReasons,
         NEW pre \in Digest, NEW post \in Digest, req[c].key \in Keys \cup {None}
  PROVE  /\ Receipt(c, op, ep, cap, standing, reason, pre, post) \in LedgerReceipt
         /\ Receipt(c, op, ep, cap, standing, reason, pre, post).id = c
         /\ Unmoved(Receipt(c, op, ep, cap, standing, reason, pre, post)) \in LedgerReceipt
         /\ Unmoved(Receipt(c, op, ep, cap, standing, reason, pre, post)).id = c
  BY DEF Receipt, LedgerReceipt, Unmoved

(* What the request of a call that has left "idle" contains. *)
LEMMA RequestFacts ==
  ASSUME NEW c \in Calls, req[c] \in Request
  PROVE  /\ req[c].op \in AllOps
         /\ req[c].key \in Keys \cup {None}
         /\ req[c].op # "MATERIALIZE" => req[c].ep \in Calls
         /\ req[c].op \in {"ACT", "RAW", "MATERIALIZE"} => req[c].key \in Keys
         /\ req[c].op \in {"ACT", "RAW", "MATERIALIZE", "READ"} => req[c].intent \in Intents
         /\ req[c].op \in {"VERIFY", "RESTORE"} => req[c].val \in Checkpoints \cup {None}
  BY DEF Request, AllOps

(* The receipts of act() and of the refused raw act(). *)
LEMMA ActReceiptType ==
  ASSUME NEW c \in Calls, TypeOK, req[c] \in Request, req[c].op \in {"ACT", "RAW"},
         NEW standing \in Standings, NEW reason \in ReceiptReasons, NEW post \in Digest
  PROVE  /\ ActReceipt(c, standing, reason, post) \in LedgerReceipt
         /\ ActReceipt(c, standing, reason, post).id = c
         /\ Unmoved(ActReceipt(c, standing, reason, post)) \in LedgerReceipt
         /\ Unmoved(ActReceipt(c, standing, reason, post)).id = c
<1>1. req[c].ep \in Calls /\ req[c].key \in Keys /\ req[c].intent \in Intents
  BY RequestFacts
<1>2. CapOf[req[c].intent] \in CapabilityRefs /\ before[c] \in Digest /\ "ACT" \in AllOps
  BY <1>1 DEF CapabilityRefs, TypeOK, AllOps
<1> QED BY <1>1, <1>2, ReceiptType DEF ActReceipt

(* The receipts of materialize(). *)
LEMMA MatReceiptType ==
  ASSUME NEW c \in Calls, TypeOK, req[c] \in Request, NEW ep \in Calls,
         NEW standing \in Standings, NEW reason \in ReceiptReasons, NEW post \in Digest
  PROVE  /\ MatReceipt(c, ep, standing, reason, post) \in LedgerReceipt
         /\ MatReceipt(c, ep, standing, reason, post).id = c
<1>1. "materialize" \in CapabilityRefs /\ "MATERIALIZE" \in AllOps /\ None \in Digest
  BY DEF CapabilityRefs, AllOps, Digest
<1>2. req[c].key \in Keys \cup {None}
  BY RequestFacts
<1> QED BY <1>1, <1>2, ReceiptType DEF MatReceipt

(* The receipts of restore(), teardown() and verify(). *)
LEMMA EpisodeReceiptTypes ==
  ASSUME NEW c \in Calls, TypeOK, req[c] \in Request, req[c].op # "MATERIALIZE",
         NEW standing \in Standings, NEW reason \in ReceiptReasons, NEW post \in Digest
  PROVE  /\ RestoreReceipt(c, standing, reason, post) \in LedgerReceipt
         /\ RestoreReceipt(c, standing, reason, post).id = c
         /\ Unmoved(RestoreReceipt(c, standing, reason, post)) \in LedgerReceipt
         /\ Unmoved(RestoreReceipt(c, standing, reason, post)).id = c
         /\ TeardownReceipt(c, standing, reason, post) \in LedgerReceipt
         /\ TeardownReceipt(c, standing, reason, post).id = c
         /\ Receipt(c, "VERIFY", req[c].ep, None, standing, reason, None, post) \in LedgerReceipt
         /\ Receipt(c, "VERIFY", req[c].ep, None, standing, reason, None, post).id = c
<1>1. req[c].key \in Keys \cup {None} /\ req[c].ep \in Calls
  BY RequestFacts
<1>2. /\ "restore" \in CapabilityRefs /\ "teardown" \in CapabilityRefs /\ None \in CapabilityRefs
      /\ "RESTORE" \in AllOps /\ "TEARDOWN" \in AllOps /\ "VERIFY" \in AllOps
      /\ before[c] \in Digest /\ None \in Digest
  BY DEF CapabilityRefs, AllOps, TypeOK, Digest
<1>3. /\ RestoreReceipt(c, standing, reason, post) \in LedgerReceipt
      /\ RestoreReceipt(c, standing, reason, post).id = c
      /\ Unmoved(RestoreReceipt(c, standing, reason, post)) \in LedgerReceipt
      /\ Unmoved(RestoreReceipt(c, standing, reason, post)).id = c
  BY <1>1, <1>2, ReceiptType, SMTT(30) DEF RestoreReceipt
<1>4. /\ TeardownReceipt(c, standing, reason, post) \in LedgerReceipt
      /\ TeardownReceipt(c, standing, reason, post).id = c
  BY <1>1, <1>2, ReceiptType, SMTT(30) DEF TeardownReceipt
<1>5. /\ Receipt(c, "VERIFY", req[c].ep, None, standing, reason, None, post) \in LedgerReceipt
      /\ Receipt(c, "VERIFY", req[c].ep, None, standing, reason, None, post).id = c
  BY <1>1, <1>2, ReceiptType, SMTT(30)
<1> QED BY <1>3, <1>4, <1>5

-----------------------------------------------------------------------------
(* The invariant, call by call *)

CallInv(c) ==
  /\ PhaseMatchesRequest(c)
  /\ HoldsItsLock(c)
  /\ NothingCached(c)
  /\ ReceiptEndsCall(c)
  /\ ReceiptedEffectIsCached(c)

(* A step of call c keeps the invariant of every other call when it leaves *)
(* their places, requests, effects, locks and receipts alone and fills     *)
(* only cache entries that were empty, of an episode it holds the lock of. *)
LEMMA OtherCalls ==
  ASSUME NEW c \in Calls, NEW d \in Calls, d # c, TypeOK, CallInv(d),
         OthersStay(c), req'[d] = req[d], effect'[d] = effect[d],
         HoldsId(ledger', d) => HoldsId(ledger, d),
         \A e \in Calls, k \in Keys :
            \/ actCache'[e][k] = actCache[e][k]
            \/ actCache[e][k] = None /\ lock[e] = c
  PROVE  CallInv(d)'
<1>1. pc'[d] = pc[d] /\ \A e \in Calls : lock[e] = d => lock'[e] = d
  BY DEF OthersStay
<1>2. PhaseMatchesRequest(d)'
  BY <1>1 DEF CallInv, PhaseMatchesRequest, Touched
<1>3. pc[d] # "idle" => req[d] \in Request
  BY DEF CallInv, PhaseMatchesRequest
<1>4. HoldsItsLock(d)'
  <2> SUFFICES ASSUME pc[d] \in InsideTheLock PROVE lock'[req[d].ep] = d
    BY <1>1 DEF HoldsItsLock
  <2>1. lock[req[d].ep] = d /\ req[d].op # "MATERIALIZE" /\ req[d] \in Request
    BY <1>3 DEF CallInv, HoldsItsLock, PhaseMatchesRequest, InsideTheLock
  <2>2. req[d].ep \in Calls
    BY <2>1, RequestFacts
  <2> QED BY <1>1, <2>1, <2>2
<1>5. NothingCached(d)'
  <2> SUFFICES ASSUME pc[d] \in {"observe", "authorize", "effect", "after", "rescue"},
                      req[d].op = "ACT"
               PROVE  actCache'[req[d].ep][req[d].key] = None
    BY <1>1 DEF NothingCached
  <2>1. actCache[req[d].ep][req[d].key] = None /\ lock[req[d].ep] = d
    BY DEF CallInv, NothingCached, HoldsItsLock, InsideTheLock
  <2>2. req[d].ep \in Calls /\ req[d].key \in Keys
    BY <1>3, RequestFacts
  <2> QED BY <2>1, <2>2
<1>6. ReceiptEndsCall(d)'
  BY <1>1 DEF CallInv, ReceiptEndsCall, Receipted
<1>7. ReceiptedEffectIsCached(d)'
  <2> SUFFICES ASSUME req[d].op = "ACT", Touched(d), Receipted(d)
               PROVE  /\ actCache'[req[d].ep][req[d].key] # None
                      /\ actCache'[req[d].ep][req[d].key].id = d
    BY DEF ReceiptedEffectIsCached, Touched, Receipted
  <2>1. /\ actCache[req[d].ep][req[d].key] # None
        /\ actCache[req[d].ep][req[d].key].id = d
        /\ pc[d] # "idle"
    BY DEF CallInv, ReceiptedEffectIsCached, ReceiptEndsCall
  <2>2. req[d].ep \in Calls /\ req[d].key \in Keys
    BY <1>3, <2>1, RequestFacts
  <2> QED BY <2>1, <2>2
<1> QED BY <1>2, <1>4, <1>5, <1>6, <1>7 DEF CallInv

(* A call that has ended keeps the invariant if its effect was allowed and *)
(* cached together with its receipt.                                       *)
LEMMA EndedCall ==
  ASSUME NEW c \in Calls, pc'[c] = "done", req'[c] \in Request,
         Touched(c)' => req'[c].op = "ACT" \/ (req'[c].op = "RESTORE" /\ req'[c].val # None),
         ReceiptedEffectIsCached(c)'
  PROVE  CallInv(c)'
<1>1. PhaseMatchesRequest(c)'
  BY DEF PhaseMatchesRequest
<1>2. HoldsItsLock(c)' /\ NothingCached(c)' /\ ReceiptEndsCall(c)'
  BY DEF HoldsItsLock, NothingCached, ReceiptEndsCall, InsideTheLock
<1> QED BY <1>1, <1>2 DEF CallInv

(* The remaining variables of TypeOK. *)
RestTypes ==
  /\ req \in [Calls -> Request \cup {NoRequest}]
  /\ before \in [Calls -> Digest]
  /\ exc \in [Calls -> Reasons]
  /\ providers \subseteq Providers
  /\ episodes \subseteq Calls
  /\ env \in [Calls -> {"none", "open", "closed"}]
  /\ world \in [Calls -> Nat]
  /\ effect \in [Calls -> {"none", "applied", "pending", "late"}]

(* TypeOK splits into what a call, the caches and the rest contribute. *)
LEMMA TypesCompose ==
  CallTypes /\ CacheTypes /\ RestTypes /\ ledger \in Seq(LedgerReceipt) <=> TypeOK
  BY DEF TypeOK, CallTypes, CacheTypes, RestTypes

(* The same after a step. *)
LEMMA TypesComposePrimed ==
  ASSUME CallTypes', CacheTypes', RestTypes', ledger' \in Seq(LedgerReceipt)
  PROVE  TypeOK'
  BY DEF TypeOK, CallTypes, CacheTypes, RestTypes

(* The inductive invariant, and what an action has to keep. *)
Inv == TypeOK /\ \A c \in Calls : CallInv(c)

(* Inv is the conjunction of the two invariants the runs check. *)
LEMMA InvIsActInvariant == Inv <=> TypeOK /\ ActInvariant
  BY DEF Inv, ActInvariant, CallInv

(* The common shape of a step of call c. *)
LEMMA StepShape ==
  ASSUME NEW c \in Calls, Inv, TypeOK', OthersStay(c),
         \A d \in Calls : d # c =>
            /\ req'[d] = req[d] /\ effect'[d] = effect[d]
            /\ HoldsId(ledger', d) => HoldsId(ledger, d),
         \A e \in Calls, k \in Keys :
            \/ actCache'[e][k] = actCache[e][k]
            \/ actCache[e][k] = None /\ lock[e] = c,
         CallInv(c)'
  PROVE  Inv'
<1>1. ASSUME NEW d \in Calls PROVE CallInv(d)'
  <2>1. CASE d = c
    BY <2>1
  <2>2. CASE d # c
    <3>1. CallInv(d) /\ TypeOK
      BY DEF Inv
    <3>2. /\ req'[d] = req[d] /\ effect'[d] = effect[d]
          /\ HoldsId(ledger', d) => HoldsId(ledger, d)
      BY <2>2
    <3> QED BY <2>2, <3>1, <3>2, OtherCalls
  <2> QED BY <2>1, <2>2
<1> QED BY <1>1 DEF Inv

(* A call without an effect may simply end, with or without a receipt. *)
LEMMA EndsWithoutEffect ==
  ASSUME NEW c \in Calls, Inv, pc[c] \notin {"idle", "after", "rescue", "done"},
         CallTypes', pc'[c] = "done", OthersStay(c), CacheTypes',
         \A e \in Calls, k \in Keys :
            \/ actCache'[e][k] = actCache[e][k]
            \/ actCache[e][k] = None /\ lock[e] = c,
         ledger' \in Seq(LedgerReceipt),
         \A d : HoldsId(ledger', d) => HoldsId(ledger, d) \/ d = c,
         RestTypes', req' = req, effect' = effect
  PROVE  Inv'
<1>1. CallInv(c)
  BY DEF Inv
<1>2. ~Touched(c) /\ req[c] \in Request
  BY <1>1 DEF CallInv, PhaseMatchesRequest
<1>3. ~Touched(c)'
  BY <1>2 DEF Touched
<1>4. CallInv(c)'
  BY <1>2, <1>3, EndedCall DEF ReceiptedEffectIsCached
<1>5. TypeOK'
  BY TypesComposePrimed
<1> QED BY <1>4, <1>5, StepShape

(* A call that moves on, leaving ledger, caches and effects alone. *)
LEMMA MovesOn ==
  ASSUME NEW c \in Calls, NEW p \in Phases, Inv, Goto(c, p), p # "done",
         pc[c] \notin {"idle", "done"},
         lock' \in [Calls -> Calls \cup {None}], mlock' \in Calls \cup {None},
         \A d, e \in Calls : d # c /\ lock[e] = d => lock'[e] = d,
         UNCHANGED <<cacheVars, ledger, req, effect>>, RestTypes',
         PhaseMatchesRequest(c)', HoldsItsLock(c)', NothingCached(c)'
  PROVE  Inv'
<1>1. TypeOK /\ CallInv(c)
  BY DEF Inv
<1>2. /\ pc' \in [Calls -> Phases] /\ outcome' = outcome /\ answer' = answer
      /\ pc'[c] = p /\ \A d \in Calls : d # c => pc'[d] = pc[d]
  BY <1>1, GotoFacts
<1>3. CallTypes' /\ OthersStay(c)
  BY <1>1, <1>2 DEF CallTypes, OthersStay, TypeOK
<1>4. CacheTypes' /\ ledger' \in Seq(LedgerReceipt) /\ actCache' = actCache
  BY <1>1 DEF CacheTypes, TypeOK, cacheVars
<1>5. TypeOK'
  BY <1>3, <1>4, TypesComposePrimed
<1>6. ~Receipted(c) /\ ~Receipted(c)'
  BY <1>1 DEF CallInv, ReceiptEndsCall, Receipted
<1>7. CallInv(c)'
  BY <1>6 DEF CallInv, ReceiptEndsCall, ReceiptedEffectIsCached
<1> QED BY <1>3, <1>4, <1>5, <1>7, StepShape

-----------------------------------------------------------------------------
(* materialize *)

(* A receipted end of materialize(). *)
LEMMA MaterializationEnds ==
  ASSUME NEW c \in Calls, NEW ep \in Calls, NEW standing \in Standings,
         NEW reason \in ReceiptReasons, NEW post \in Digest, NEW b \in BOOLEAN,
         Inv, pc[c] \notin {"idle", "after", "rescue", "done"}, req[c].op = "MATERIALIZE",
         MaterializationResult(c, MatReceipt(c, ep, standing, reason, post), b),
         RestTypes', req' = req, effect' = effect
  PROVE  Inv'
<1> DEFINE r == MatReceipt(c, ep, standing, reason, post)
<1>1. TypeOK /\ req[c] \in Request
  BY DEF Inv, CallInv, PhaseMatchesRequest
<1>2. req[c].key \in Keys /\ req[c].intent \in Intents
  BY <1>1, RequestFacts
<1>3. r \in LedgerReceipt /\ r.id = c
  BY <1>1, MatReceiptType, SMTT(30)
<1> HIDE DEF r
<1>4. /\ CallTypes' /\ pc'[c] = "done" /\ OthersStay(c)
      /\ ledger' \in Seq(LedgerReceipt)
      /\ \A d : HoldsId(ledger', d) => HoldsId(ledger, d) \/ d = c
      /\ CacheTypes' /\ actCache' = actCache
  <2>1. MaterializationResult(c, r, b)
    BY DEF r
  <2> QED BY <1>1, <1>2, <1>3, <2>1, MaterializationResultFacts
<1> QED BY <1>4, EndsWithoutEffect

(* An end without a receipt. *)
LEMMA RaiseEnds ==
  ASSUME NEW c \in Calls, Inv, pc[c] \notin {"idle", "after", "rescue", "done"},
         Raise(c), UNCHANGED <<cacheVars, ledger>>, RestTypes', req' = req, effect' = effect
  PROVE  Inv'
<1>1. TypeOK
  BY DEF Inv
<1>2. CallTypes' /\ pc'[c] = "done" /\ OthersStay(c)
  BY <1>1, RaiseFacts
<1>3. CacheTypes' /\ ledger' \in Seq(LedgerReceipt) /\ actCache' = actCache /\ ledger' = ledger
  BY <1>1 DEF CacheTypes, TypeOK, cacheVars
<1> QED BY <1>2, <1>3, EndsWithoutEffect

(* An end that answers with a receipt written earlier. *)
LEMMA ReturnEnds ==
  ASSUME NEW c \in Calls, NEW r \in Calls \cup {None}, Inv,
         pc[c] \notin {"idle", "after", "rescue", "done"},
         Return(c, r), UNCHANGED <<cacheVars, ledger>>, RestTypes', req' = req, effect' = effect
  PROVE  Inv'
<1>1. TypeOK
  BY DEF Inv
<1>2. CallTypes' /\ pc'[c] = "done" /\ OthersStay(c)
  BY <1>1, ReturnFacts
<1>3. CacheTypes' /\ ledger' \in Seq(LedgerReceipt) /\ actCache' = actCache /\ ledger' = ledger
  BY <1>1 DEF CacheTypes, TypeOK, cacheVars
<1> QED BY <1>2, <1>3, EndsWithoutEffect

(* A call goes on inside materialize(), where no episode lock is held. *)
LEMMA MaterializationMovesOn ==
  ASSUME NEW c \in Calls, NEW p \in {"m_authorize", "m_create", "m_admit", "m_abort"}, Inv,
         Goto(c, p), pc[c] \in {"waiting", "m_authorize", "m_create", "m_admit"},
         req[c].op = "MATERIALIZE",
         lock' = lock, mlock' \in Calls \cup {None},
         UNCHANGED <<cacheVars, ledger, req, effect>>, RestTypes'
  PROVE  Inv'
<1>1. TypeOK /\ CallInv(c) /\ p \in Phases
  BY DEF Inv, Phases
<1>2. pc'[c] = p /\ ~Touched(c)'
  BY <1>1, GotoFacts DEF CallInv, PhaseMatchesRequest, Touched
<1>3. PhaseMatchesRequest(c)' /\ HoldsItsLock(c)' /\ NothingCached(c)'
  BY <1>1, <1>2 DEF CallInv, PhaseMatchesRequest, HoldsItsLock, NothingCached, InsideTheLock
<1>4. lock' \in [Calls -> Calls \cup {None}]
  BY <1>1 DEF TypeOK
<1> QED BY <1>1, <1>3, <1>4, MovesOn

(* materialize() under its lock, up to the first await. *)
LEMMA MaterializeBeginInv ==
  ASSUME NEW c \in Calls, Inv, MaterializeBegin(c) PROVE Inv'
<1> DEFINE cached == matCache[req[c].key]
<1>1. TypeOK /\ req[c] \in Request /\ pc[c] = "waiting" /\ req[c].op = "MATERIALIZE"
  BY DEF Inv, CallInv, PhaseMatchesRequest, MaterializeBegin
<1>2. req[c].key \in Keys
  BY <1>1, RequestFacts
<1>3. RestTypes' /\ req' = req /\ effect' = effect
  BY <1>1 DEF MaterializeBegin, RestTypes, TypeOK, localVars, worldVars
<1>4. cached # None => cached.id \in Calls
  BY <1>1, <1>2 DEF TypeOK, CacheEntry
<1>5. /\ "REFUSED" \in Standings /\ "UNSUPPORTED" \in Standings /\ None \in Digest
      /\ "IDEMPOTENCY_KEY_CONFLICT" \in ReceiptReasons
      /\ "INPUT_LIMIT_EXCEEDED" \in ReceiptReasons /\ "UNKNOWN_PROVIDER" \in ReceiptReasons
  BY DEF Standings, ReceiptReasons, Gates, Digest
<1>6. CASE Return(c, cached.id) /\ cached # None /\ UNCHANGED <<cacheVars, ledger>>
  BY <1>1, <1>3, <1>4, <1>6, ReturnEnds
<1>7. CASE /\ cached # None
           /\ MaterializationResult(c,
                MatReceipt(c, cached.id, "REFUSED", "IDEMPOTENCY_KEY_CONFLICT", None), FALSE)
  BY <1>1, <1>3, <1>4, <1>5, <1>7, MaterializationEnds
<1>8. CASE \/ MaterializationResult(c,
                MatReceipt(c, c, "REFUSED", "INPUT_LIMIT_EXCEEDED", None), TRUE)
           \/ MaterializationResult(c,
                MatReceipt(c, c, "UNSUPPORTED", "UNKNOWN_PROVIDER", None), TRUE)
  BY <1>1, <1>3, <1>5, <1>8, MaterializationEnds
<1>9. CASE Goto(c, "m_authorize") /\ mlock' = c /\ UNCHANGED <<lock, cacheVars, ledger>>
  BY <1>1, <1>3, <1>9, MaterializationMovesOn
<1> QED BY <1>6, <1>7, <1>8, <1>9 DEF MaterializeBegin

(* materialize(): the authority decision. *)
LEMMA MaterializeAuthorizeInv ==
  ASSUME NEW c \in Calls, Inv, MaterializeAuthorize(c) PROVE Inv'
<1>1. TypeOK /\ pc[c] = "m_authorize" /\ req[c].op = "MATERIALIZE"
  BY DEF Inv, CallInv, PhaseMatchesRequest, MaterializeAuthorize
<1>2. RestTypes' /\ req' = req /\ effect' = effect
  BY <1>1 DEF MaterializeAuthorize, RestTypes, TypeOK, localVars, worldVars
<1>3. /\ "REFUSED" \in Standings /\ "BLOCKED" \in Standings /\ None \in Digest
      /\ "AUTHORITY_TIMEOUT" \in ReceiptReasons /\ "AUTHORITY_DENIED" \in ReceiptReasons
  BY DEF Standings, ReceiptReasons, Digest
<1>4. CASE Goto(c, "m_create") /\ UNCHANGED <<lock, mlock, cacheVars, ledger>>
  BY <1>1, <1>2, <1>4, MaterializationMovesOn DEF TypeOK
<1>5. CASE Raise(c) /\ UNCHANGED <<cacheVars, ledger>>
  BY <1>1, <1>2, <1>5, RaiseEnds
<1>6. CASE \/ MaterializationResult(c, MatReceipt(c, c, "BLOCKED", "AUTHORITY_TIMEOUT", None), TRUE)
           \/ MaterializationResult(c, MatReceipt(c, c, "REFUSED", "AUTHORITY_DENIED", None), TRUE)
  BY <1>1, <1>2, <1>3, <1>6, MaterializationEnds
<1> QED BY <1>4, <1>5, <1>6 DEF MaterializeAuthorize

(* materialize(): the provider builds the world, or fails to. *)
LEMMA MaterializeCreateInv ==
  ASSUME NEW c \in Calls, Inv, MaterializeCreate(c) PROVE Inv'
<1>1. TypeOK /\ pc[c] = "m_create" /\ req[c].op = "MATERIALIZE"
  BY DEF Inv, CallInv, PhaseMatchesRequest, MaterializeCreate
<1>2. env' \in {env, [env EXCEPT ![c] = "open"]}
  BY DEF MaterializeCreate
<1>3. RestTypes' /\ req' = req /\ effect' = effect
  BY <1>1, <1>2 DEF MaterializeCreate, RestTypes, TypeOK, localVars
<1>4. /\ "BLOCKED" \in Standings /\ None \in Digest
      /\ "MATERIALIZATION_TIMEOUT" \in ReceiptReasons /\ "PROVIDER_ERROR" \in ReceiptReasons
  BY DEF Standings, ReceiptReasons, Reasons, Digest
<1>5. CASE Goto(c, "m_admit") /\ UNCHANGED <<lock, mlock, cacheVars, ledger>>
  BY <1>1, <1>3, <1>5, MaterializationMovesOn DEF TypeOK
<1>6. CASE \/ MaterializationResult(c,
                MatReceipt(c, c, "BLOCKED", "MATERIALIZATION_TIMEOUT", None), TRUE)
           \/ MaterializationResult(c, MatReceipt(c, c, "BLOCKED", "PROVIDER_ERROR", None), TRUE)
  BY <1>1, <1>3, <1>4, <1>6, MaterializationEnds
<1> QED BY <1>5, <1>6 DEF MaterializeCreate

(* What can be observed is a digest. *)
LEMMA ObservationTypes ==
  ASSUME NEW e \in Calls, TypeOK
  PROVE  Observations(e) \subseteq Digest
  BY DEF Observations, TypeOK, Digest

(* materialize(): the new world is observed and admitted. *)
LEMMA MaterializeAdmitInv ==
  ASSUME NEW c \in Calls, Inv, MaterializeAdmit(c) PROVE Inv'
<1>1. TypeOK /\ pc[c] = "m_admit" /\ req[c].op = "MATERIALIZE"
  BY DEF Inv, CallInv, PhaseMatchesRequest, MaterializeAdmit
<1>2. episodes' \subseteq Calls
  BY <1>1 DEF MaterializeAdmit, TypeOK
<1>3. RestTypes' /\ req' = req /\ effect' = effect
  BY <1>1, <1>2 DEF MaterializeAdmit, RestTypes, TypeOK, localVars, worldVars
<1>4. "ALIVE" \in Standings /\ "NONE" \in ReceiptReasons
  BY DEF Standings, ReceiptReasons, Reasons
<1>5. ASSUME NEW d \in Observations(c),
             MaterializationResult(c, MatReceipt(c, c, "ALIVE", "NONE", d), TRUE)
      PROVE  Inv'
  <2>1. d \in Digest
    BY <1>1, ObservationTypes
  <2> QED BY <1>1, <1>3, <1>4, <1>5, <2>1, MaterializationEnds
<1>6. CASE Goto(c, "m_abort") /\ UNCHANGED <<lock, mlock, cacheVars, ledger>>
  BY <1>1, <1>3, <1>6, MaterializationMovesOn DEF TypeOK
<1> QED BY <1>5, <1>6 DEF MaterializeAdmit

(* materialize(): a world that was not admitted is torn down. *)
LEMMA MaterializeAbortInv ==
  ASSUME NEW c \in Calls, Inv, MaterializeAbort(c) PROVE Inv'
<1>1. TypeOK /\ pc[c] = "m_abort" /\ req[c].op = "MATERIALIZE"
  BY DEF Inv, CallInv, PhaseMatchesRequest, MaterializeAbort
<1>2. env' \in {env, [env EXCEPT ![c] = "closed"]}
  BY DEF MaterializeAbort
<1>3. RestTypes' /\ req' = req /\ effect' = effect
  BY <1>1, <1>2 DEF MaterializeAbort, RestTypes, TypeOK, localVars
<1>4. "BLOCKED" \in Standings /\ None \in Digest /\ "ENVIRONMENT_ADMISSION_FAILED" \in ReceiptReasons
  BY DEF Standings, ReceiptReasons, Digest
<1> QED BY <1>1, <1>3, <1>4, MaterializationEnds DEF MaterializeAbort

-----------------------------------------------------------------------------
(* Requests *)

(* A request that is accepted, bounced or answered at once. *)
LEMMA ArriveInv ==
  ASSUME NEW c \in Calls, NEW r \in Request, NEW p \in {"waiting", "read"}, Inv,
         p = "waiting" <=> r.op # "READ", Arrive(c, r, p)
  PROVE  Inv'
<1>1. TypeOK /\ CallInv(c) /\ pc[c] = "idle" /\ Goto(c, p) /\ p \in Phases
  BY DEF Inv, Arrive, Phases
<1>2. /\ pc' \in [Calls -> Phases] /\ outcome' = outcome /\ answer' = answer
      /\ pc'[c] = p /\ \A d \in Calls : d # c => pc'[d] = pc[d]
  BY <1>1, GotoFacts
<1>3. req'[c] = r /\ req' \in [Calls -> Request \cup {NoRequest}]
      /\ \A d \in Calls : d # c => req'[d] = req[d]
  BY <1>1 DEF Arrive, TypeOK
<1>4. /\ lock' = lock /\ mlock' = mlock /\ actCache' = actCache /\ matCache' = matCache
      /\ torndown' = torndown /\ effect' = effect /\ ledger' = ledger
  BY DEF Arrive, cacheVars, worldVars
<1>5. TypeOK' /\ OthersStay(c)
  <2>1. CallTypes' /\ CacheTypes' /\ ledger' \in Seq(LedgerReceipt)
    BY <1>1, <1>2, <1>4 DEF TypeOK, CallTypes, CacheTypes
  <2>2. RestTypes'
    BY <1>1, <1>3 DEF TypeOK, RestTypes, Arrive, worldVars
  <2>3. OthersStay(c)
    BY <1>2, <1>4 DEF OthersStay
  <2> QED BY <2>1, <2>2, <2>3, TypesComposePrimed
<1>6. ~Touched(c)' /\ ~Receipted(c)'
  BY <1>1, <1>4 DEF CallInv, PhaseMatchesRequest, ReceiptEndsCall, Touched, Receipted
<1>7. CallInv(c)'
  BY <1>2, <1>3, <1>6
  DEF CallInv, PhaseMatchesRequest, HoldsItsLock, NothingCached, ReceiptEndsCall,
      ReceiptedEffectIsCached, InsideTheLock
<1> QED BY <1>3, <1>4, <1>5, <1>7, StepShape

(* A request that ends before it awaits anything. *)
LEMMA BounceInv ==
  ASSUME NEW c \in Calls, NEW r \in Request, NEW how \in {"raised", "returned"},
         NEW rid \in Calls \cup {None}, Inv, Bounce(c, r, how, rid)
  PROVE  Inv'
<1>1. TypeOK /\ CallInv(c) /\ pc[c] = "idle" /\ End(c, how, rid)
  BY DEF Inv, Bounce
<1>2. CallTypes' /\ pc'[c] = "done" /\ OthersStay(c)
  BY <1>1, EndFacts
<1>3. req'[c] = r /\ req' \in [Calls -> Request \cup {NoRequest}]
      /\ \A d \in Calls : d # c => req'[d] = req[d]
  BY <1>1 DEF Bounce, TypeOK
<1>4. /\ actCache' = actCache /\ matCache' = matCache /\ torndown' = torndown
      /\ effect' = effect /\ ledger' = ledger
  BY DEF Bounce, cacheVars, worldVars
<1>5. RestTypes' /\ CacheTypes' /\ ledger' \in Seq(LedgerReceipt)
  BY <1>1, <1>3, <1>4 DEF TypeOK, RestTypes, CacheTypes, Bounce, worldVars
<1>6. TypeOK'
  BY <1>2, <1>5, TypesComposePrimed
<1>7. ~Touched(c)'
  BY <1>1, <1>4 DEF CallInv, PhaseMatchesRequest, Touched
<1>8. CallInv(c)'
  BY <1>2, <1>3, <1>7, EndedCall DEF ReceiptedEffectIsCached
<1> QED BY <1>2, <1>3, <1>4, <1>6, <1>8, StepShape

(* A request for an episode, known or not. *)
LEMMA ArriveAtEpisodeInv ==
  ASSUME NEW c \in Calls, NEW r \in Request, r.op # "READ", Inv, ArriveAtEpisode(c, r)
  PROVE  Inv'
  BY ArriveInv, BounceInv DEF ArriveAtEpisode

(* Every arriving request keeps the invariant. *)
LEMMA CallInvariance ==
  ASSUME NEW c \in Calls, Inv, Call(c) PROVE Inv'
<1>1. TypeOK /\ KnownEpisodes \subseteq Calls
  <2>1. TypeOK /\ ledger \in Seq(LedgerReceipt)
    BY DEF Inv, TypeOK
  <2>2. \A j \in DOMAIN ledger : ledger[j] \in LedgerReceipt
    BY <2>1
  <2>3. \A j \in DOMAIN ledger : ledger[j].ep \in Calls
    BY <2>2 DEF LedgerReceipt
  <2> QED BY <2>1, <2>3 DEF KnownEpisodes
<1>2. ASSUME NEW k \in Keys, NEW i \in Intents, CallMaterialize(c, k, i) PROVE Inv'
  <2>1. [NoRequest EXCEPT !.op = "MATERIALIZE", !.key = k, !.intent = i] \in Request
    BY DEF NoRequest, Request
  <2>2. [NoRequest EXCEPT !.op = "MATERIALIZE", !.key = k, !.intent = i].op # "READ"
    BY DEF NoRequest
  <2> QED BY <1>2, <2>1, <2>2, ArriveInv DEF CallMaterialize
<1>3. ASSUME NEW e \in Calls, NEW op \in {"ACT", "RAW"}, NEW k \in Keys, NEW i \in Intents,
             CallAct(c, op, e, k, i)
      PROVE  Inv'
  <2> DEFINE r == [NoRequest EXCEPT !.op = op, !.ep = e, !.key = k, !.intent = i]
  <2>1. r \in Request /\ r.op # "READ"
    BY DEF NoRequest, Request
  <2>2. ArriveAtEpisode(c, r)
    BY <1>3 DEF CallAct
  <2> HIDE DEF r
  <2> QED BY <2>1, <2>2, ArriveAtEpisodeInv
<1>4. ASSUME NEW e \in Calls, NEW v \in Checkpoints \cup {None}, CallVerify(c, e, v) PROVE Inv'
  <2> DEFINE r == [NoRequest EXCEPT !.op = "VERIFY", !.ep = e, !.val = v]
  <2>1. r \in Request /\ r.op # "READ"
    BY DEF NoRequest, Request
  <2>2. ArriveAtEpisode(c, r) \/ Bounce(c, r, "raised", None)
    BY <1>4 DEF CallVerify
  <2> HIDE DEF r
  <2> QED BY <2>1, <2>2, ArriveAtEpisodeInv, BounceInv
<1>5. ASSUME NEW e \in Calls, NEW v \in Checkpoints \cup {None}, CallRestore(c, e, v) PROVE Inv'
  <2> DEFINE r == [NoRequest EXCEPT !.op = "RESTORE", !.ep = e, !.val = v]
  <2>1. r \in Request /\ r.op # "READ"
    BY DEF NoRequest, Request
  <2>2. ArriveAtEpisode(c, r)
    BY <1>5 DEF CallRestore
  <2> HIDE DEF r
  <2> QED BY <2>1, <2>2, ArriveAtEpisodeInv
<1>6. ASSUME NEW e \in Calls, NEW op \in {"OBSERVE", "CHECKPOINT"}, CallQuery(c, op, e)
      PROVE  Inv'
  <2> DEFINE r == [NoRequest EXCEPT !.op = op, !.ep = e]
  <2>1. r \in Request /\ r.op # "READ"
    BY DEF NoRequest, Request
  <2>2. ArriveAtEpisode(c, r)
    BY <1>6 DEF CallQuery
  <2> HIDE DEF r
  <2> QED BY <2>1, <2>2, ArriveAtEpisodeInv
<1>7. ASSUME NEW e \in Calls, NEW i \in Intents, CallRead(c, e, i) PROVE Inv'
  <2> DEFINE r == [NoRequest EXCEPT !.op = "READ", !.ep = e, !.intent = i]
  <2>1. r \in Request /\ r.op = "READ"
    BY DEF NoRequest, Request
  <2>2. Arrive(c, r, "read") \/ Bounce(c, r, "raised", None)
    BY <1>7 DEF CallRead
  <2> HIDE DEF r
  <2> QED BY <2>1, <2>2, ArriveInv, BounceInv
<1>8. ASSUME NEW e \in Calls, CallTeardown(c, e) PROVE Inv'
  <2> DEFINE r == [NoRequest EXCEPT !.op = "TEARDOWN", !.ep = e]
  <2>1. r \in Request /\ r.op # "READ"
    BY DEF NoRequest, Request
  <2>2. ArriveAtEpisode(c, r) \/ Bounce(c, r, "returned", torndown[e])
    BY <1>8 DEF CallTeardown
  <2>3. torndown[e] \in Calls \cup {None}
    BY <1>1 DEF TypeOK
  <2> HIDE DEF r
  <2> QED BY <2>1, <2>2, <2>3, ArriveAtEpisodeInv, BounceInv
<1> QED BY <1>1, <1>2, <1>3, <1>4, <1>5, <1>6, <1>7, <1>8 DEF Call

-----------------------------------------------------------------------------
(* Inside an episode *)

(* What a call inside an episode knows of its request. *)
LEMMA InsideFacts ==
  ASSUME NEW c \in Calls, Inv, pc[c] \notin {"idle", "done"}
  PROVE  /\ TypeOK /\ CallInv(c) /\ req[c] \in Request /\ ~Receipted(c)
         /\ pc[c] \notin {"after", "rescue"} => ~Touched(c)
         /\ req[c].op # "MATERIALIZE" => req[c].ep \in Calls
         /\ req[c].op \in {"ACT", "RAW"} => req[c].key \in Keys /\ req[c].intent \in Intents
<1>1. TypeOK /\ CallInv(c)
  BY DEF Inv
<1>2. req[c] \in Request
  BY <1>1 DEF CallInv, PhaseMatchesRequest
<1>3. ~Receipted(c) /\ (pc[c] \notin {"after", "rescue"} => ~Touched(c))
  BY <1>1 DEF CallInv, PhaseMatchesRequest, ReceiptEndsCall
<1> QED BY <1>1, <1>2, <1>3, RequestFacts

(* A receipted end without a cache entry: restore, teardown, verify, raw act. *)
LEMMA RecordEnds ==
  ASSUME NEW c \in Calls, NEW r \in LedgerReceipt, r.id = c, Inv,
         pc[c] \notin {"idle", "after", "rescue", "done"},
         Record(c, r), UNCHANGED cacheVars, RestTypes', req' = req, effect' = effect
  PROVE  Inv'
<1>1. TypeOK
  BY DEF Inv
<1>2. /\ CallTypes' /\ pc'[c] = "done" /\ OthersStay(c)
      /\ ledger' \in Seq(LedgerReceipt)
      /\ \A d : HoldsId(ledger', d) => HoldsId(ledger, d) \/ d = c
  BY <1>1, RecordFacts
<1>3. CacheTypes' /\ actCache' = actCache
  BY <1>1 DEF CacheTypes, TypeOK, cacheVars
<1> QED BY <1>2, <1>3, EndsWithoutEffect

(* A receipted and cached end of act() before the environment was reached. *)
LEMMA ActuationEnds ==
  ASSUME NEW c \in Calls, NEW r \in LedgerReceipt, r.id = c, Inv,
         pc[c] \in {"observe", "authorize"}, req[c].op = "ACT",
         ActuationResult(c, r, TRUE), RestTypes', req' = req, effect' = effect
  PROVE  Inv'
<1>1. /\ TypeOK /\ CallInv(c)
      /\ req[c].ep \in Calls /\ req[c].key \in Keys /\ req[c].intent \in Intents
  BY InsideFacts
<1>2. /\ CallTypes' /\ pc'[c] = "done" /\ OthersStay(c)
      /\ ledger' \in Seq(LedgerReceipt)
      /\ \A d : HoldsId(ledger', d) => HoldsId(ledger, d) \/ d = c
      /\ CacheTypes'
      /\ \A e \in Calls, k \in Keys :
            (e = req[c].ep /\ k = req[c].key) \/ actCache'[e][k] = actCache[e][k]
  BY <1>1, ActuationResultFacts
<1>3. lock[req[c].ep] = c /\ actCache[req[c].ep][req[c].key] = None
  BY <1>1 DEF CallInv, HoldsItsLock, NothingCached, InsideTheLock
<1>4. \A e \in Calls, k \in Keys :
         \/ actCache'[e][k] = actCache[e][k]
         \/ actCache[e][k] = None /\ lock[e] = c
  BY <1>2, <1>3
<1> QED BY <1>2, <1>4, EndsWithoutEffect

(* A call takes its next place under a lock it already holds. *)
LEMMA MovesOnInside ==
  ASSUME NEW c \in Calls, NEW p \in {"authorize", "effect", "close", "judge"}, Inv, Goto(c, p),
         pc[c] \in {"observe", "authorize", "verify"},
         p \in {"authorize", "effect"} /\ req[c].op = "RESTORE" => req[c].val # None,
         p = "authorize" => req[c].op \in {"ACT", "RESTORE", "TEARDOWN"},
         p = "effect" => req[c].op \in {"ACT", "RESTORE"},
         p = "close" => req[c].op = "TEARDOWN",
         p = "judge" => req[c].op = "VERIFY",
         UNCHANGED <<lock, mlock, cacheVars, ledger, req, effect>>, RestTypes'
  PROVE  Inv'
<1>1. TypeOK /\ CallInv(c) /\ req[c] \in Request /\ ~Touched(c) /\ p \in Phases
  BY InsideFacts DEF Phases
<1>2. pc'[c] = p /\ ~Touched(c)'
  BY <1>1, GotoFacts DEF Touched
<1>3. PhaseMatchesRequest(c)'
  BY <1>1, <1>2 DEF PhaseMatchesRequest
<1>4. lock[req[c].ep] = c /\ (req[c].op = "ACT" => actCache[req[c].ep][req[c].key] = None)
  BY <1>1 DEF CallInv, HoldsItsLock, NothingCached, InsideTheLock, PhaseMatchesRequest
<1>5. HoldsItsLock(c)' /\ NothingCached(c)'
  BY <1>4 DEF HoldsItsLock, NothingCached, cacheVars
<1> QED BY <1>1, <1>3, <1>5, MovesOn DEF TypeOK

(* A call takes the free lock of its episode. *)
LEMMA AcquireInv ==
  ASSUME NEW c \in Calls, NEW p \in {"conflict", "observe", "verify"}, Inv, Acquire(c, p),
         pc[c] = "waiting",
         p = "conflict" => req[c].op = "ACT",
         p = "observe" => req[c].op \in {"ACT", "RAW", "RESTORE", "TEARDOWN"},
         p = "verify" => req[c].op = "VERIFY",
         p = "observe" /\ req[c].op = "ACT" => actCache[req[c].ep][req[c].key] = None,
         UNCHANGED <<cacheVars, ledger, req, effect>>, RestTypes'
  PROVE  Inv'
<1>1. /\ TypeOK /\ CallInv(c) /\ req[c] \in Request /\ ~Touched(c) /\ p \in Phases
      /\ req[c].ep \in Calls
  BY InsideFacts DEF Phases
<1>2. /\ lock[req[c].ep] = None /\ lock' = [lock EXCEPT ![req[c].ep] = c]
      /\ Goto(c, p) /\ mlock' = mlock
  BY DEF Acquire
<1>3. pc'[c] = p /\ ~Touched(c)'
  BY <1>1, <1>2, GotoFacts DEF Touched
<1>4. /\ lock' \in [Calls -> Calls \cup {None}] /\ mlock' \in Calls \cup {None}
      /\ \A d, e \in Calls : d # c /\ lock[e] = d => lock'[e] = d
      /\ lock'[req[c].ep] = c
  BY <1>1, <1>2, KernelAssumption DEF TypeOK
<1>5. PhaseMatchesRequest(c)'
  BY <1>1, <1>3 DEF PhaseMatchesRequest
<1>6. HoldsItsLock(c)' /\ NothingCached(c)'
  BY <1>3, <1>4 DEF HoldsItsLock, NothingCached, cacheVars
<1> QED BY <1>1, <1>2, <1>4, <1>5, <1>6, MovesOn

(* act() takes the lock: a cache hit answers, a miss stays a miss. *)
LEMMA ActBeginInv ==
  ASSUME NEW c \in Calls, Inv, ActBegin(c) PROVE Inv'
<1> DEFINE cached == actCache[req[c].ep][req[c].key]
<1>1. pc[c] = "waiting" /\ req[c].op = "ACT" /\ UNCHANGED <<cacheVars, ledger>>
  BY DEF ActBegin
<1>2. TypeOK /\ req[c].ep \in Calls /\ req[c].key \in Keys
  BY <1>1, InsideFacts
<1>3. RestTypes' /\ req' = req /\ effect' = effect
  BY <1>2 DEF ActBegin, RestTypes, TypeOK, localVars, worldVars
<1>4. cached # None => cached.id \in Calls
  BY <1>2 DEF TypeOK, CacheEntry
<1>5. CASE cached # None /\ Return(c, cached.id)
  BY <1>1, <1>3, <1>4, <1>5, ReturnEnds
<1>6. CASE cached # None /\ Acquire(c, "conflict")
  BY <1>1, <1>3, <1>6, AcquireInv
<1>7. CASE cached = None /\ Acquire(c, "observe")
  BY <1>1, <1>3, <1>7, AcquireInv
<1> QED BY <1>5, <1>6, <1>7 DEF ActBegin

(* The other operations take the lock. *)
LEMMA LockBeginInv ==
  ASSUME NEW c \in Calls, Inv, LockBegin(c) PROVE Inv'
<1>1. /\ pc[c] = "waiting" /\ req[c].op \in {"RAW", "RESTORE", "TEARDOWN", "VERIFY"}
      /\ UNCHANGED <<cacheVars, ledger>>
  BY DEF LockBegin
<1>2. TypeOK
  BY DEF Inv
<1>3. RestTypes' /\ req' = req /\ effect' = effect
  BY <1>2 DEF LockBegin, RestTypes, TypeOK, localVars, worldVars
<1>4. CASE req[c].op = "VERIFY" /\ Acquire(c, "verify")
  BY <1>1, <1>3, <1>4, AcquireInv
<1>5. CASE req[c].op # "VERIFY" /\ Acquire(c, "observe")
  BY <1>1, <1>3, <1>5, AcquireInv
<1> QED BY <1>4, <1>5 DEF LockBegin

(* Operations that record nothing. *)
LEMMA QueryInv ==
  ASSUME NEW c \in Calls, Inv, Query(c) \/ Read(c) \/ ObserveFails(c) PROVE Inv'
<1>1. /\ pc[c] \in {"waiting", "read", "observe", "conflict"}
      /\ UNCHANGED <<localVars, cacheVars, worldVars, providers, episodes, ledger>>
      /\ Raise(c) \/ Return(c, None)
  BY DEF Query, Read, ObserveFails
<1>2. TypeOK
  BY DEF Inv
<1>3. RestTypes' /\ req' = req /\ effect' = effect
  BY <1>1, <1>2 DEF RestTypes, TypeOK, localVars, worldVars
<1> QED BY <1>1, <1>3, RaiseEnds, ReturnEnds

(* act(): the key is cached for another intent. *)
LEMMA ActConflictInv ==
  ASSUME NEW c \in Calls, Inv, ActConflict(c) PROVE Inv'
<1>1. pc[c] = "conflict"
  BY DEF ActConflict
<1>2. TypeOK /\ req[c] \in Request /\ req[c].op = "ACT" /\ req[c].ep \in Calls
  BY <1>1, InsideFacts DEF CallInv, PhaseMatchesRequest
<1>3. RestTypes' /\ req' = req /\ effect' = effect
  BY <1>2 DEF ActConflict, RestTypes, TypeOK, localVars, worldVars
<1>4. "REFUSED" \in Standings /\ "IDEMPOTENCY_KEY_CONFLICT" \in ReceiptReasons
  BY DEF Standings, ReceiptReasons
<1>5. PICK d \in Observations(req[c].ep) :
         ActuationResult(c, Unmoved(ActReceipt(c, "REFUSED", "IDEMPOTENCY_KEY_CONFLICT", d)), FALSE)
  BY DEF ActConflict
<1> DEFINE r == Unmoved(ActReceipt(c, "REFUSED", "IDEMPOTENCY_KEY_CONFLICT", d))
<1>6. d \in Digest
  BY <1>2, ObservationTypes
<1>7. r \in LedgerReceipt /\ r.id = c
  BY <1>2, <1>4, <1>6, ActReceiptType
<1>8. Record(c, r) /\ UNCHANGED cacheVars
  BY <1>5 DEF ActuationResult, cacheVars
<1> HIDE DEF r
<1> QED BY <1>1, <1>3, <1>7, <1>8, RecordEnds

(* act(): the first observation and the input gates. *)
LEMMA ActObserveInv ==
  ASSUME NEW c \in Calls, Inv, ActObserve(c) PROVE Inv'
<1> DEFINE gate == GateOf[req[c].intent]
           standing == IF gate = "UNKNOWN_CAPABILITY" THEN "UNSUPPORTED" ELSE "REFUSED"
<1>1. pc[c] = "observe" /\ req[c].op = "ACT"
  BY DEF ActObserve
<1>2. TypeOK /\ req[c] \in Request /\ req[c].ep \in Calls /\ req[c].intent \in Intents
  BY <1>1, InsideFacts
<1>3. PICK d \in Observations(req[c].ep) :
         \/ /\ before' = [before EXCEPT ![c] = d]
            /\ Goto(c, "authorize") /\ UNCHANGED <<lock, mlock, cacheVars, ledger>>
         \/ /\ ActuationResult(c, Unmoved(ActReceipt(c, standing, gate, d)), TRUE)
            /\ UNCHANGED before
  BY DEF ActObserve
<1>4. d \in Digest
  BY <1>2, ObservationTypes
<1>5. RestTypes' /\ req' = req /\ effect' = effect
  BY <1>2, <1>3, <1>4 DEF ActObserve, RestTypes, TypeOK, worldVars
<1>6. CASE Goto(c, "authorize") /\ UNCHANGED <<lock, mlock, cacheVars, ledger>>
  BY <1>1, <1>5, <1>6, MovesOnInside
<1>7. CASE ActuationResult(c, Unmoved(ActReceipt(c, standing, gate, d)), TRUE)
  <2>1. standing \in Standings /\ gate \in ReceiptReasons
    BY <1>2, KernelAssumption DEF Standings, ReceiptReasons
  <2> HIDE DEF standing, gate
  <2>2. /\ Unmoved(ActReceipt(c, standing, gate, d)) \in LedgerReceipt
        /\ Unmoved(ActReceipt(c, standing, gate, d)).id = c
    BY <1>1, <1>2, <1>4, <2>1, ActReceiptType
  <2> QED BY <1>1, <1>5, <1>7, <2>2, ActuationEnds
<1> QED BY <1>3, <1>6, <1>7

(* ProductionGymAct.act(): the receipted refusal. *)
LEMMA RawActObserveInv ==
  ASSUME NEW c \in Calls, Inv, RawActObserve(c) PROVE Inv'
<1>1. pc[c] = "observe" /\ req[c].op = "RAW" /\ UNCHANGED cacheVars
  BY DEF RawActObserve, cacheVars
<1>2. TypeOK /\ req[c] \in Request /\ req[c].ep \in Calls
  BY <1>1, InsideFacts
<1>3. PICK d \in Observations(req[c].ep) :
         Record(c, Unmoved(ActReceipt(c, "REFUSED", "BRCE_EXECUTION_GRANT_REQUIRED", d)))
  BY DEF RawActObserve
<1>4. d \in Digest /\ "REFUSED" \in Standings /\ "BRCE_EXECUTION_GRANT_REQUIRED" \in ReceiptReasons
  BY <1>2, ObservationTypes DEF Standings, ReceiptReasons
<1>5. RestTypes' /\ req' = req /\ effect' = effect
  BY <1>2 DEF RawActObserve, RestTypes, TypeOK, localVars, worldVars
<1> DEFINE r == Unmoved(ActReceipt(c, "REFUSED", "BRCE_EXECUTION_GRANT_REQUIRED", d))
<1>6. r \in LedgerReceipt /\ r.id = c
  BY <1>1, <1>2, <1>4, ActReceiptType
<1> HIDE DEF r
<1>7. Record(c, r)
  BY <1>3 DEF r
<1> QED BY <1>1, <1>5, <1>6, <1>7, RecordEnds

(* restore(): the first observation and the checkpoint limit. *)
LEMMA RestoreObserveInv ==
  ASSUME NEW c \in Calls, Inv, RestoreObserve(c) PROVE Inv'
<1>1. pc[c] = "observe" /\ req[c].op = "RESTORE" /\ UNCHANGED cacheVars
  BY DEF RestoreObserve, cacheVars
<1>2. TypeOK /\ req[c] \in Request /\ req[c].ep \in Calls
  BY <1>1, InsideFacts
<1>3. PICK d \in Observations(req[c].ep) :
         \/ /\ before' = [before EXCEPT ![c] = d] /\ req[c].val # None
            /\ Goto(c, "authorize") /\ UNCHANGED <<lock, mlock, ledger>>
         \/ /\ Record(c, Unmoved(RestoreReceipt(c, "REFUSED", "CHECKPOINT_LIMIT_EXCEEDED", d)))
            /\ UNCHANGED before
  BY DEF RestoreObserve
<1>4. d \in Digest /\ "REFUSED" \in Standings /\ "CHECKPOINT_LIMIT_EXCEEDED" \in ReceiptReasons
  BY <1>2, ObservationTypes DEF Standings, ReceiptReasons
<1>5. RestTypes' /\ req' = req /\ effect' = effect
  BY <1>2, <1>3, <1>4 DEF RestoreObserve, RestTypes, TypeOK, worldVars
<1>6. CASE req[c].val # None /\ Goto(c, "authorize") /\ UNCHANGED <<lock, mlock, ledger>>
  BY <1>1, <1>5, <1>6, MovesOnInside
<1>7. CASE Record(c, Unmoved(RestoreReceipt(c, "REFUSED", "CHECKPOINT_LIMIT_EXCEEDED", d)))
  <2> DEFINE r == Unmoved(RestoreReceipt(c, "REFUSED", "CHECKPOINT_LIMIT_EXCEEDED", d))
  <2>1. r \in LedgerReceipt /\ r.id = c
    BY <1>1, <1>2, <1>4, EpisodeReceiptTypes
  <2> HIDE DEF r
  <2>2. Record(c, r)
    BY <1>7 DEF r
  <2> QED BY <1>1, <1>5, <2>1, <2>2, RecordEnds
<1> QED BY <1>3, <1>6, <1>7

(* teardown(): the first observation. *)
LEMMA TeardownObserveInv ==
  ASSUME NEW c \in Calls, Inv, TeardownObserve(c) PROVE Inv'
<1>1. /\ pc[c] = "observe" /\ req[c].op = "TEARDOWN" /\ Goto(c, "authorize")
      /\ UNCHANGED <<lock, mlock, cacheVars, ledger>>
  BY DEF TeardownObserve
<1>2. TypeOK /\ req[c].ep \in Calls
  BY <1>1, InsideFacts
<1>3. PICK d \in Observations(req[c].ep) : before' = [before EXCEPT ![c] = d]
  BY DEF TeardownObserve
<1>4. d \in Digest
  BY <1>2, ObservationTypes
<1>5. RestTypes' /\ req' = req /\ effect' = effect
  BY <1>2, <1>3, <1>4 DEF TeardownObserve, RestTypes, TypeOK, worldVars
<1> QED BY <1>1, <1>5, MovesOnInside

(* The authority decision of act(), restore() and teardown(). *)
LEMMA AuthorizeInv ==
  ASSUME NEW c \in Calls, Inv, Authorize(c) PROVE Inv'
<1>1. pc[c] = "authorize"
  BY DEF Authorize
<1>2. /\ TypeOK /\ req[c] \in Request /\ req[c].ep \in Calls
      /\ req[c].op \in {"ACT", "RESTORE", "TEARDOWN"}
      /\ req[c].op = "RESTORE" => req[c].val # None
      /\ before[c] \in Digest
  BY <1>1, InsideFacts DEF CallInv, PhaseMatchesRequest, TypeOK
<1>3. RestTypes' /\ req' = req /\ effect' = effect
  BY <1>2 DEF Authorize, RestTypes, TypeOK, localVars, worldVars
<1>4. CASE /\ Goto(c, IF req[c].op = "TEARDOWN" THEN "close" ELSE "effect")
           /\ UNCHANGED <<lock, mlock, cacheVars, ledger>>
  <2>1. CASE req[c].op = "TEARDOWN"
    BY <1>1, <1>2, <1>3, <1>4, <2>1, MovesOnInside
  <2>2. CASE req[c].op # "TEARDOWN"
    BY <1>1, <1>2, <1>3, <1>4, <2>2, MovesOnInside
  <2> QED BY <2>1, <2>2
<1>5. CASE Raise(c) /\ UNCHANGED <<cacheVars, ledger>>
  BY <1>1, <1>3, <1>5, RaiseEnds
<1>6. ASSUME NEW s \in Standings, NEW v \in ReceiptReasons, Refusal(c, s, v)
      PROVE  Inv'
  <2>1. CASE req[c].op = "ACT" /\ ActuationResult(c, ActReceipt(c, s, v, before[c]), TRUE)
    <3>1. /\ ActReceipt(c, s, v, before[c]) \in LedgerReceipt
          /\ ActReceipt(c, s, v, before[c]).id = c
      BY <1>2, <2>1, ActReceiptType
    <3> QED BY <1>1, <1>3, <2>1, <3>1, ActuationEnds
  <2>2. CASE /\ Record(c, RestoreReceipt(c, s, v, before[c])) /\ UNCHANGED cacheVars
    <3>1. /\ RestoreReceipt(c, s, v, before[c]) \in LedgerReceipt
          /\ RestoreReceipt(c, s, v, before[c]).id = c
      BY <1>2, EpisodeReceiptTypes
    <3> QED BY <1>1, <1>3, <2>2, <3>1, RecordEnds
  <2>3. CASE /\ Record(c, TeardownReceipt(c, s, v, before[c])) /\ UNCHANGED cacheVars
    <3>1. /\ TeardownReceipt(c, s, v, before[c]) \in LedgerReceipt
          /\ TeardownReceipt(c, s, v, before[c]).id = c
      BY <1>2, EpisodeReceiptTypes
    <3> QED BY <1>1, <1>3, <2>3, <3>1, RecordEnds
  <2> QED BY <1>6, <2>1, <2>2, <2>3 DEF Refusal
<1>7. /\ "REFUSED" \in Standings /\ "BLOCKED" \in Standings
      /\ "AUTHORITY_TIMEOUT" \in ReceiptReasons /\ "AUTHORITY_DENIED" \in ReceiptReasons
  BY DEF Standings, ReceiptReasons
<1> QED BY <1>4, <1>5, <1>6, <1>7 DEF Authorize

-----------------------------------------------------------------------------
(* Effects *)

(* What the environment can do to a world is well typed. *)
LEMMA EffectOutcomeTypes ==
  ASSUME NEW e \in Calls, NEW o \in EffectOutcomes(e)
  PROVE  /\ o[1] \in Reasons
         /\ o[2] \in {"none", "applied", "pending"}
  BY DEF EffectOutcomes, Reasons

(* The state an admitted actuation or restore writes is a state. *)
LEMMA AppliedType ==
  ASSUME NEW c \in Calls, TypeOK, req[c] \in Request,
         req[c].op = "ACT" \/ (req[c].op = "RESTORE" /\ req[c].val # None)
  PROVE  Applied(c) \in Nat
<1>1. req[c].ep \in Calls /\ (req[c].op = "RESTORE" => req[c].val \in Checkpoints)
  BY RequestFacts
<1>2. Checkpoints \subseteq Nat
  BY KernelAssumption
<1>3. world[req[c].ep] + 1 \in Nat
  BY <1>1 DEF TypeOK
<1> QED BY <1>1, <1>2, <1>3 DEF Applied

(* The environment is reached, with any of its outcomes. *)
LEMMA EffectInv ==
  ASSUME NEW c \in Calls, Inv, Effect(c) PROVE Inv'
<1>1. pc[c] = "effect"
  BY DEF Effect
<1>2. /\ TypeOK /\ CallInv(c) /\ req[c] \in Request /\ req[c].ep \in Calls /\ ~Receipted(c)
      /\ req[c].op = "ACT" \/ (req[c].op = "RESTORE" /\ req[c].val # None)
  BY <1>1, InsideFacts DEF CallInv, PhaseMatchesRequest
<1>3. PICK o \in EffectOutcomes(req[c].ep) :
         /\ exc' = [exc EXCEPT ![c] = o[1]]
         /\ effect' = [effect EXCEPT ![c] = o[2]]
         /\ world' = IF o[2] = "applied" THEN [world EXCEPT ![req[c].ep] = Applied(c)] ELSE world
         /\ Goto(c, IF o[1] = "NONE" THEN "after" ELSE "rescue")
  BY DEF Effect
<1>4. o[1] \in Reasons /\ o[2] \in {"none", "applied", "pending"} /\ Applied(c) \in Nat
  BY <1>2, EffectOutcomeTypes, AppliedType
<1>5. /\ lock' = lock /\ mlock' = mlock /\ req' = req /\ before' = before /\ env' = env
      /\ actCache' = actCache /\ matCache' = matCache /\ torndown' = torndown
      /\ providers' = providers /\ episodes' = episodes /\ ledger' = ledger
  BY DEF Effect, cacheVars
<1>6. RestTypes'
  BY <1>2, <1>3, <1>4, <1>5 DEF RestTypes, TypeOK
<1>7. /\ pc' \in [Calls -> Phases] /\ outcome' = outcome /\ answer' = answer
      /\ pc'[c] \in {"after", "rescue"} /\ \A d \in Calls : d # c => pc'[d] = pc[d]
  <2>1. "after" \in Phases /\ "rescue" \in Phases
    BY DEF Phases
  <2>2. CASE o[1] = "NONE"
    BY <1>2, <1>3, <2>1, <2>2, GotoFacts
  <2>3. CASE o[1] # "NONE"
    BY <1>2, <1>3, <2>1, <2>3, GotoFacts
  <2> QED BY <2>2, <2>3
<1>8. CallTypes' /\ CacheTypes' /\ ledger' \in Seq(LedgerReceipt) /\ OthersStay(c)
  BY <1>2, <1>5, <1>7 DEF CallTypes, CacheTypes, TypeOK, OthersStay
<1>9. TypeOK'
  BY <1>6, <1>8, TypesComposePrimed
<1>10. \A d \in Calls : d # c => effect'[d] = effect[d]
  BY <1>2, <1>3 DEF TypeOK
<1>11. CallInv(c)'
  <2>1. PhaseMatchesRequest(c)'
    BY <1>2, <1>5, <1>7 DEF PhaseMatchesRequest
  <2>2. HoldsItsLock(c)' /\ NothingCached(c)'
    BY <1>1, <1>2, <1>5, <1>7 DEF CallInv, HoldsItsLock, NothingCached, InsideTheLock
  <2>3. ~Receipted(c)'
    BY <1>2, <1>5 DEF Receipted
  <2> QED BY <2>1, <2>2, <2>3 DEF CallInv, ReceiptEndsCall, ReceiptedEffectIsCached
<1> QED BY <1>5, <1>8, <1>9, <1>10, <1>11, StepShape

(* The end of an effect: the one step that receipts and caches it. *)
LEMMA SettleInv ==
  ASSUME NEW c \in Calls, NEW s \in Standings, NEW v \in ReceiptReasons, NEW d \in Digest,
         Inv, pc[c] \in {"after", "rescue"}, Settle(c, s, v, d),
         RestTypes', req' = req, effect' = effect
  PROVE  Inv'
<1>1. /\ TypeOK /\ CallInv(c) /\ req[c] \in Request /\ req[c].ep \in Calls /\ ~Receipted(c)
      /\ req[c].op = "ACT" \/ (req[c].op = "RESTORE" /\ req[c].val # None)
      /\ req[c].op = "ACT" => req[c].key \in Keys /\ req[c].intent \in Intents
  BY InsideFacts DEF CallInv, PhaseMatchesRequest
<1>2. CASE req[c].op = "ACT"
  <2>1. /\ ActReceipt(c, s, v, d) \in LedgerReceipt /\ ActReceipt(c, s, v, d).id = c
        /\ ActuationResult(c, ActReceipt(c, s, v, d), TRUE)
    BY <1>1, <1>2, ActReceiptType DEF Settle
  <2>2. /\ CallTypes' /\ pc'[c] = "done" /\ OthersStay(c)
        /\ ledger' \in Seq(LedgerReceipt)
        /\ \A x : HoldsId(ledger', x) => HoldsId(ledger, x) \/ x = c
        /\ CacheTypes'
        /\ \A e \in Calls, k \in Keys :
              (e = req[c].ep /\ k = req[c].key) \/ actCache'[e][k] = actCache[e][k]
        /\ \/ /\ actCache'[req[c].ep][req[c].key] # None
              /\ actCache'[req[c].ep][req[c].key].id = c
           \/ ledger' = ledger
    BY <1>1, <1>2, <2>1, ActuationResultFacts
  <2>3. lock[req[c].ep] = c /\ actCache[req[c].ep][req[c].key] = None
    BY <1>1, <1>2 DEF CallInv, HoldsItsLock, NothingCached, InsideTheLock
  <2>4. \A e \in Calls, k \in Keys :
           \/ actCache'[e][k] = actCache[e][k]
           \/ actCache[e][k] = None /\ lock[e] = c
    BY <2>2, <2>3
  <2>5. ReceiptedEffectIsCached(c)'
    BY <1>1, <2>2 DEF ReceiptedEffectIsCached, Receipted
  <2>6. CallInv(c)'
    BY <1>1, <2>2, <2>5, EndedCall
  <2>7. TypeOK'
    BY <2>2, TypesComposePrimed
  <2> QED BY <2>2, <2>4, <2>6, <2>7, StepShape
<1>3. CASE req[c].op # "ACT"
  <2>1. /\ RestoreReceipt(c, s, v, d) \in LedgerReceipt /\ RestoreReceipt(c, s, v, d).id = c
        /\ Record(c, RestoreReceipt(c, s, v, d)) /\ UNCHANGED cacheVars
    BY <1>1, <1>3, EpisodeReceiptTypes DEF Settle
  <2>2. /\ CallTypes' /\ pc'[c] = "done" /\ OthersStay(c)
        /\ ledger' \in Seq(LedgerReceipt)
        /\ \A x : HoldsId(ledger', x) => HoldsId(ledger, x) \/ x = c
    BY <1>1, <2>1, RecordFacts
  <2>3. CacheTypes' /\ actCache' = actCache
    BY <1>1, <2>1 DEF CacheTypes, TypeOK, cacheVars
  <2>4. CallInv(c)'
    BY <1>1, <1>3, <2>2, EndedCall DEF ReceiptedEffectIsCached
  <2>5. TypeOK'
    BY <2>2, <2>3, TypesComposePrimed
  <2> QED BY <2>2, <2>3, <2>4, <2>5, StepShape
<1> QED BY <1>2, <1>3

(* The observation after a normal return. *)
LEMMA AfterInv ==
  ASSUME NEW c \in Calls, Inv, After(c) PROVE Inv'
<1>1. pc[c] = "after" /\ req' = req /\ effect' = effect
  BY DEF After, worldVars
<1>2. TypeOK /\ CallInv(c) /\ req[c] \in Request /\ req[c].op \in {"ACT", "RESTORE"}
  BY <1>1, InsideFacts DEF CallInv, PhaseMatchesRequest
<1>3. req[c].ep \in Calls
  BY <1>2, RequestFacts
<1>4. PICK d \in Observations(req[c].ep) :
         \/ /\ exc' = [exc EXCEPT ![c] = "OBSERVATION"]
            /\ Goto(c, "rescue") /\ UNCHANGED <<lock, mlock, cacheVars, ledger>>
         \/ Settle(c, "ALIVE", "NONE", d) /\ UNCHANGED exc
  BY DEF After
<1>5. /\ d \in Digest /\ "ALIVE" \in Standings /\ "NONE" \in ReceiptReasons
      /\ "OBSERVATION" \in Reasons /\ "rescue" \in Phases
  BY <1>2, <1>3, ObservationTypes DEF Standings, ReceiptReasons, Reasons, Phases
<1>6. RestTypes'
  BY <1>2, <1>4, <1>5 DEF After, RestTypes, TypeOK, worldVars
<1>7. CASE Settle(c, "ALIVE", "NONE", d)
  BY <1>1, <1>5, <1>6, <1>7, SettleInv
<1>8. CASE Goto(c, "rescue") /\ UNCHANGED <<lock, mlock, cacheVars, ledger>>
  <2>1. pc'[c] = "rescue"
    BY <1>2, <1>5, <1>8, GotoFacts
  <2>2. PhaseMatchesRequest(c)'
    BY <1>1, <1>2, <2>1 DEF CallInv, PhaseMatchesRequest, Touched
  <2>3. HoldsItsLock(c)' /\ NothingCached(c)'
    BY <1>1, <1>2, <1>8, <2>1
    DEF CallInv, HoldsItsLock, NothingCached, InsideTheLock, cacheVars
  <2> QED BY <1>1, <1>2, <1>5, <1>6, <1>8, <2>2, <2>3, MovesOn DEF TypeOK
<1> QED BY <1>4, <1>7, <1>8

(* The except branch of act() and restore(). *)
LEMMA RescueInv ==
  ASSUME NEW c \in Calls, Inv, Rescue(c) PROVE Inv'
<1>1. pc[c] = "rescue"
  BY DEF Rescue
<1>2. TypeOK /\ req[c] \in Request /\ req[c].op \in {"ACT", "RESTORE"}
  BY <1>1, InsideFacts DEF CallInv, PhaseMatchesRequest
<1>3. req[c].ep \in Calls
  BY <1>2, RequestFacts
<1>4. PICK d \in Observations(req[c].ep) :
         Settle(c, "BLOCKED", exc[c], IF d = None THEN before[c] ELSE d)
  BY DEF Rescue
<1>5. /\ (IF d = None THEN before[c] ELSE d) \in Digest
      /\ "BLOCKED" \in Standings /\ exc[c] \in ReceiptReasons
  BY <1>2, <1>3, ObservationTypes DEF Standings, ReceiptReasons, TypeOK
<1>6. RestTypes' /\ req' = req /\ effect' = effect
  BY <1>2 DEF Rescue, RestTypes, TypeOK, localVars, worldVars
<1> QED BY <1>1, <1>4, <1>5, <1>6, SettleInv

(* The end of teardown(), good or bad. *)
LEMMA CloseInv ==
  ASSUME NEW c \in Calls, Inv, Close(c) PROVE Inv'
<1>1. pc[c] = "close"
  BY DEF Close
<1>2. TypeOK /\ req[c] \in Request /\ req[c].op = "TEARDOWN" /\ req[c].ep \in Calls
  BY <1>1, InsideFacts DEF CallInv, PhaseMatchesRequest
<1>3. /\ env' \in {env, [env EXCEPT ![req[c].ep] = "closed"]} /\ episodes' \subseteq episodes
      /\ actCache' = actCache /\ matCache' = matCache /\ req' = req /\ effect' = effect
  BY DEF Close, CloseSucceeds, CloseFails, localVars
<1>4. RestTypes'
  BY <1>2, <1>3 DEF Close, RestTypes, TypeOK, localVars
<1>5. /\ "ALIVE" \in Standings /\ "BLOCKED" \in Standings /\ None \in Digest
      /\ "NONE" \in ReceiptReasons /\ "PROVIDER_ERROR" \in ReceiptReasons
  BY DEF Standings, ReceiptReasons, Reasons, Digest
<1>6. CASE CloseSucceeds(c)
  <2> DEFINE r == TeardownReceipt(c, "ALIVE", "NONE", None)
  <2>1. r \in LedgerReceipt /\ r.id = c
    BY <1>2, <1>5, EpisodeReceiptTypes
  <2>2. ledger \in Seq(LedgerReceipt) /\ ledger' = Appended(ledger, r)
    BY <1>2, <1>6 DEF CloseSucceeds, TypeOK
  <2> HIDE DEF r
  <2>3. /\ ledger' \in Seq(LedgerReceipt)
        /\ \A d : HoldsId(ledger', d) => HoldsId(ledger, d) \/ d = c
    BY <2>1, <2>2, AppendedHolds
  <2>4. CallTypes' /\ pc'[c] = "done" /\ OthersStay(c)
    BY <1>2, <1>6, RaiseFacts, ReturnFacts DEF CloseSucceeds
  <2>5. CacheTypes'
    BY <1>2, <1>3, <1>6 DEF CacheTypes, TypeOK, CloseSucceeds
  <2> QED BY <1>1, <1>3, <1>4, <2>3, <2>4, <2>5, EndsWithoutEffect
<1>7. CASE CloseFails(c)
  <2>1. /\ TeardownReceipt(c, "BLOCKED", "PROVIDER_ERROR", None) \in LedgerReceipt
        /\ TeardownReceipt(c, "BLOCKED", "PROVIDER_ERROR", None).id = c
    BY <1>2, <1>5, EpisodeReceiptTypes
  <2>2. /\ Record(c, TeardownReceipt(c, "BLOCKED", "PROVIDER_ERROR", None))
        /\ UNCHANGED cacheVars
    BY <1>3, <1>7 DEF CloseFails, cacheVars
  <2> QED BY <1>1, <1>3, <1>4, <2>1, <2>2, RecordEnds
<1> QED BY <1>6, <1>7 DEF Close

(* verify(): the provider's report. *)
LEMMA VerifyReportInv ==
  ASSUME NEW c \in Calls, Inv, VerifyReport(c) PROVE Inv'
<1>1. pc[c] = "verify" /\ UNCHANGED <<cacheVars, ledger>>
  BY DEF VerifyReport
<1>2. TypeOK /\ req[c].op = "VERIFY" /\ req[c].ep \in Calls
  BY <1>1, InsideFacts DEF CallInv, PhaseMatchesRequest
<1>3. PICK d \in Observations(req[c].ep) :
         \/ Raise(c) /\ UNCHANGED before
         \/ /\ before' = [before EXCEPT ![c] = d]
            /\ Goto(c, "judge") /\ UNCHANGED <<lock, mlock>>
  BY DEF VerifyReport
<1>4. d \in Digest
  BY <1>2, ObservationTypes
<1>5. RestTypes' /\ req' = req /\ effect' = effect
  BY <1>2, <1>3, <1>4 DEF VerifyReport, RestTypes, TypeOK, worldVars
<1>6. CASE Raise(c)
  BY <1>1, <1>5, <1>6, RaiseEnds
<1>7. CASE Goto(c, "judge") /\ UNCHANGED <<lock, mlock>>
  BY <1>1, <1>2, <1>5, <1>7, MovesOnInside
<1> QED BY <1>3, <1>6, <1>7

(* verify(): the kernel's own judgment. *)
LEMMA JudgeInv ==
  ASSUME NEW c \in Calls, Inv, Judge(c) PROVE Inv'
<1>1. pc[c] = "judge" /\ UNCHANGED cacheVars
  BY DEF Judge, cacheVars
<1>2. /\ TypeOK /\ req[c] \in Request /\ req[c].op = "VERIFY" /\ req[c].ep \in Calls
      /\ before[c] \in Digest
  BY <1>1, InsideFacts DEF CallInv, PhaseMatchesRequest, TypeOK
<1>3. RestTypes' /\ req' = req /\ effect' = effect
  BY <1>2 DEF Judge, RestTypes, TypeOK, localVars, worldVars
<1>4. CASE Raise(c) /\ UNCHANGED ledger
  BY <1>1, <1>3, <1>4, RaiseEnds
<1>5. ASSUME NEW s \in {"ALIVE", "UNCERTAIN"},
             Record(c, Receipt(c, "VERIFY", req[c].ep, None, s, "NONE", None, before[c]))
      PROVE  Inv'
  <2>1. s \in Standings /\ "NONE" \in ReceiptReasons
    BY DEF Standings, ReceiptReasons, Reasons
  <2>2. /\ Receipt(c, "VERIFY", req[c].ep, None, s, "NONE", None, before[c]) \in LedgerReceipt
        /\ Receipt(c, "VERIFY", req[c].ep, None, s, "NONE", None, before[c]).id = c
    BY <1>2, <2>1, EpisodeReceiptTypes
  <2> QED BY <1>1, <1>3, <1>5, <2>2, RecordEnds
<1> QED BY <1>4, <1>5 DEF Judge

(* A timed-out effect lands after its call has ended. *)
LEMMA LateEffectInv ==
  ASSUME NEW c \in Calls, Inv, LateEffect(c) PROVE Inv'
<1>1. /\ TypeOK /\ CallInv(c) /\ effect[c] = "pending"
      /\ effect' = [effect EXCEPT ![c] = "late"]
      /\ world' = [world EXCEPT ![req[c].ep] = Applied(c)]
      /\ UNCHANGED <<callVars, localVars, cacheVars, env, providers, episodes, ledger>>
  BY DEF Inv, LateEffect
<1>2. /\ Touched(c) /\ req[c] \in Request
      /\ req[c].op = "ACT" \/ (req[c].op = "RESTORE" /\ req[c].val # None)
  BY <1>1 DEF CallInv, PhaseMatchesRequest, Touched
<1>3. Applied(c) \in Nat
  BY <1>1, <1>2, AppliedType
<1>4. RestTypes' /\ CallTypes' /\ CacheTypes' /\ ledger' \in Seq(LedgerReceipt)
  BY <1>1, <1>3 DEF RestTypes, CallTypes, CacheTypes, TypeOK, callVars, localVars, cacheVars
<1>5. TypeOK'
  BY <1>4, TypesComposePrimed
<1>6. /\ pc' = pc /\ lock' = lock /\ req' = req /\ actCache' = actCache /\ ledger' = ledger
      /\ effect'[c] = "late" /\ \A d \in Calls : d # c => effect'[d] = effect[d]
  BY <1>1 DEF callVars, localVars, cacheVars, TypeOK
<1>7. OthersStay(c)
  BY <1>6 DEF OthersStay
<1>8. CallInv(c)'
  BY <1>1, <1>2, <1>6
  DEF CallInv, PhaseMatchesRequest, HoldsItsLock, NothingCached, ReceiptEndsCall,
      ReceiptedEffectIsCached, Touched, Receipted
<1> QED BY <1>5, <1>6, <1>7, <1>8, StepShape

(* A cancelled call leaves neither receipt nor cache entry. *)
LEMMA CancelInv ==
  ASSUME NEW c \in Calls, Inv, Cancel(c) PROVE Inv'
<1>1. pc[c] \notin {"idle", "done"} /\ Raise(c)
      /\ UNCHANGED <<localVars, cacheVars, env, world, providers, episodes, ledger>>
  BY DEF Cancel
<1>2. TypeOK /\ CallInv(c) /\ req[c] \in Request /\ ~Receipted(c)
  BY <1>1, InsideFacts
<1>3. \/ effect' = effect
      \/ pc[c] = "effect" /\ effect' = [effect EXCEPT ![c] = "pending"]
  BY DEF Cancel
<1>4. CallTypes' /\ pc'[c] = "done" /\ OthersStay(c)
  BY <1>1, <1>2, RaiseFacts
<1>5. /\ effect' \in [Calls -> {"none", "applied", "pending", "late"}]
      /\ \A d \in Calls : d # c => effect'[d] = effect[d]
  BY <1>2, <1>3 DEF TypeOK
<1>6. /\ req' = req /\ actCache' = actCache /\ ledger' = ledger
      /\ RestTypes' /\ CacheTypes' /\ ledger' \in Seq(LedgerReceipt)
  BY <1>1, <1>2, <1>5 DEF RestTypes, CacheTypes, TypeOK, localVars, cacheVars
<1>7. TypeOK'
  BY <1>4, <1>6, TypesComposePrimed
<1>8. Touched(c)' => req[c].op = "ACT" \/ (req[c].op = "RESTORE" /\ req[c].val # None)
  BY <1>2, <1>3 DEF CallInv, PhaseMatchesRequest, Touched
<1>9. ~Receipted(c)'
  BY <1>2, <1>6 DEF Receipted
<1>10. CallInv(c)'
  BY <1>2, <1>4, <1>6, <1>8, <1>9, EndedCall DEF ReceiptedEffectIsCached
<1> QED BY <1>4, <1>5, <1>6, <1>7, <1>10, StepShape

(* A step that touches the provider registry only. *)
LEMMA StutterInv ==
  ASSUME Inv, UNCHANGED <<callVars, localVars, cacheVars, worldVars, episodes, ledger>>,
         providers' \subseteq Providers
  PROVE  Inv'
<1>1. TypeOK'
  BY DEF Inv, TypeOK, callVars, localVars, cacheVars, worldVars
<1>2. ASSUME NEW d \in Calls PROVE CallInv(d)'
  BY DEF Inv, CallInv, PhaseMatchesRequest, HoldsItsLock, NothingCached, ReceiptEndsCall,
         ReceiptedEffectIsCached, Touched, Receipted, callVars, localVars, cacheVars, worldVars
<1> QED BY <1>1, <1>2 DEF Inv

(* Every step of a call keeps the invariant: one lemma per action. *)
LEMMA StepInv ==
  ASSUME NEW c \in Calls, Inv, Step(c) PROVE Inv'
<1>1. CASE MaterializeStep(c)
  BY <1>1, MaterializeBeginInv, MaterializeAuthorizeInv, MaterializeCreateInv,
     MaterializeAdmitInv, MaterializeAbortInv DEF MaterializeStep
<1>2. CASE ActBegin(c) \/ LockBegin(c)
  BY <1>2, ActBeginInv, LockBeginInv
<1>3. CASE Query(c) \/ Read(c) \/ ObserveFails(c)
  BY <1>3, QueryInv
<1>4. CASE ActConflict(c) \/ ActObserve(c) \/ RawActObserve(c)
  BY <1>4, ActConflictInv, ActObserveInv, RawActObserveInv
<1>5. CASE RestoreObserve(c) \/ TeardownObserve(c) \/ Authorize(c)
  BY <1>5, RestoreObserveInv, TeardownObserveInv, AuthorizeInv
<1>6. CASE Effect(c) \/ After(c) \/ Rescue(c)
  BY <1>6, EffectInv, AfterInv, RescueInv
<1>7. CASE Close(c) \/ VerifyReport(c) \/ Judge(c)
  BY <1>7, CloseInv, VerifyReportInv, JudgeInv
<1> QED BY <1>1, <1>2, <1>3, <1>4, <1>5, <1>6, <1>7 DEF Step

(* A fresh GymAct satisfies the invariant. *)
LEMMA InitInv == Init => Inv
<1> SUFFICES ASSUME Init PROVE Inv
  OBVIOUS
<1>1. TypeOK
  BY DEF Init, TypeOK, Phases, Digest, Reasons
<1>2. ASSUME NEW c \in Calls PROVE CallInv(c)
  BY DEF Init, CallInv, PhaseMatchesRequest, HoldsItsLock, InsideTheLock, NothingCached,
         ReceiptEndsCall, ReceiptedEffectIsCached, Touched, Receipted, HoldsId, NoRequest
<1> QED BY <1>1, <1>2 DEF Inv

(* Every step of the system keeps it. *)
LEMMA NextInv == Inv /\ [Next]_vars => Inv'
<1> SUFFICES ASSUME Inv, [Next]_vars PROVE Inv'
  OBVIOUS
<1>1. ASSUME NEW p \in Providers, RegisterProvider(p) PROVE Inv'
  BY <1>1, StutterInv DEF RegisterProvider, Inv, TypeOK
<1>2. ASSUME NEW c \in Calls, Call(c) \/ Step(c) \/ LateEffect(c) \/ Cancel(c) PROVE Inv'
  BY <1>2, CallInvariance, StepInv, LateEffectInv, CancelInv
<1>3. CASE UNCHANGED vars
  BY <1>3, StutterInv DEF vars, Inv, TypeOK
<1> QED BY <1>1, <1>2, <1>3 DEF Next, Quiescent

(* Inv holds in every reachable state. *)
LEMMA Invariance == Spec => []Inv
  BY InitInv, NextInv, PTL DEF Spec

-----------------------------------------------------------------------------
(* The fields of GymAct keep the shapes __init__ declares, whatever calls  *)
(* arrive and however the provider fails.                                  *)
THEOREM TypeCorrect == Spec => []TypeOK
<1>1. Inv => TypeOK
  BY DEF Inv
<1> QED BY <1>1, Invariance, PTL

(* The lock of an episode protects the cache miss of act(): it is still a  *)
(* miss when the call that found it writes its receipt.                    *)
THEOREM ActSafety == Spec => []ActInvariant
<1>1. Inv => ActInvariant
  BY InvIsActInvariant
<1> QED BY <1>1, Invariance, PTL

(* Of all act() calls under one key of one episode, at most one has both   *)
(* reached the environment and a receipt, for every number of calls, every *)
(* provider failure, every late effect and every cancellation.             *)
THEOREM ReplaySafety == Spec => []OneReceiptedEffectPerKey
<1>1. Inv => OneReceiptedEffectPerKey
  <2> SUFFICES ASSUME Inv, NEW c \in Calls, NEW d \in Calls, SameActKey(c, d),
                      Touched(c), Touched(d), Receipted(c), Receipted(d)
               PROVE  c = d
    BY DEF OneReceiptedEffectPerKey
  <2>1. ReceiptedEffectIsCached(c) /\ ReceiptedEffectIsCached(d)
    BY DEF Inv, CallInv
  <2> QED BY <2>1 DEF ReceiptedEffectIsCached, SameActKey
<1> QED BY <1>1, Invariance, PTL

-----------------------------------------------------------------------------
(* The shapes of a step of call c *)

(* Nothing of another call changes, and its materialization lock is kept. *)
Others(c) ==
  \A d \in Calls : d # c =>
     /\ pc'[d] = pc[d] /\ outcome'[d] = outcome[d] /\ answer'[d] = answer[d]
     /\ req'[d] = req[d] /\ before'[d] = before[d] /\ effect'[d] = effect[d]
     /\ mlock = d => mlock' = d

Underway(c) == pc[c] \notin {"idle", "done"}
Kept == UNCHANGED <<ledger, actCache, matCache, torndown, episodes>>

(* A request comes in, and may be bounced or answered at once. *)
Arrives(c) ==
  /\ pc[c] = "idle" /\ pc'[c] \in {"waiting", "read", "done"} /\ req'[c] \in Request
  /\ req'[c].op # "MATERIALIZE" => req'[c].ep \in KnownEpisodes
  /\ effect'[c] = effect[c] /\ Kept /\ env' = env /\ world' = world
  /\ \/ pc'[c] # "done" /\ outcome'[c] = outcome[c] /\ answer'[c] = answer[c]
     \/ pc'[c] = "done" /\ outcome'[c] = "raised" /\ answer'[c] = None
     \/ \E e \in KnownEpisodes :
          /\ pc'[c] = "done" /\ outcome'[c] = "returned"
          /\ torndown[e] # None /\ answer'[c] = torndown[e]
          /\ Asks(req'[c], "TEARDOWN", e, None, None)

(* A call goes on to its next await. *)
Walks(c) ==
  /\ Underway(c) /\ pc'[c] \notin {"idle", "done", "after"}
  /\ req'[c] = req[c] /\ outcome'[c] = outcome[c] /\ answer'[c] = answer[c]
  /\ effect'[c] = effect[c] /\ Kept /\ env' = env /\ world' = world
  /\ pc'[c] = "effect" => pc[c] = "authorize" /\ before'[c] = before[c]
  /\ pc'[c] \in {"authorize", "judge"} => before'[c] = world[req[c].ep]
  /\ pc'[c] \in InsideMaterialize => mlock' = c /\ matCache[req[c].key] = None
  /\ pc[c] \in {"m_admit", "m_abort"} => pc'[c] = "m_abort"

(* The provider has built the world of c. *)
Creates(c) ==
  /\ pc[c] = "m_create" /\ pc'[c] = "m_admit" /\ env' = [env EXCEPT ![c] = "open"]
  /\ req'[c] = req[c] /\ outcome'[c] = outcome[c] /\ answer'[c] = answer[c]
  /\ effect'[c] = effect[c] /\ Kept /\ world' = world /\ mlock' = mlock

(* The environment is reached. *)
Acts(c) ==
  /\ pc[c] = "effect" /\ pc'[c] \in {"after", "rescue"}
  /\ req'[c] = req[c] /\ outcome'[c] = outcome[c] /\ answer'[c] = answer[c]
  /\ before'[c] = before[c] /\ Kept /\ env' = env
  /\ effect'[c] = "pending" => "late" \in Faults
  /\ effect'[c] # "late"
  /\ pc'[c] = "after" => effect'[c] = "applied"
  /\ world' = IF effect'[c] = "applied" THEN [world EXCEPT ![req[c].ep] = Applied(c)] ELSE world

(* A call ends without a receipt of its own. *)
Quits(c) ==
  /\ Underway(c) /\ pc'[c] = "done" /\ req'[c] = req[c]
  /\ Kept /\ env' = env /\ world' = world
  /\ \/ effect'[c] = effect[c]
     \/ pc[c] = "effect" /\ "late" \in Faults /\ effect'[c] = "pending"
  /\ \/ /\ outcome'[c] = "raised" /\ answer'[c] = None
        /\ pc[c] \in {"m_admit", "m_abort"} => "cancel" \in Faults
     \/ /\ outcome'[c] = "returned" /\ pc[c] \in {"waiting", "read"} /\ effect'[c] = effect[c]
        /\ \/ answer'[c] = None
           \/ /\ req[c].op = "ACT" /\ actCache[req[c].ep][req[c].key] # None
              /\ actCache[req[c].ep][req[c].key].intent = req[c].intent
              /\ answer'[c] = actCache[req[c].ep][req[c].key].id
           \/ /\ req[c].op = "MATERIALIZE" /\ matCache[req[c].key] # None
              /\ matCache[req[c].key].intent = req[c].intent
              /\ answer'[c] = matCache[req[c].key].id

(* What receipt r of call c may say. *)
Says(c, r) ==
  /\ r \in LedgerReceipt /\ r.id = c /\ r.key = req[c].key
  /\ r.ep = c \/ pc[r.ep] = "done"
  /\ r.standing \in {"REFUSED", "UNSUPPORTED"} => pc[c] \notin {"after", "rescue"}
  /\ r.standing = "ALIVE" =>
       /\ r.op = "ACT" => /\ pc[c] = "after" /\ req[c].op = "ACT"
                          /\ r.pre = before[c] /\ r.post = world[req[c].ep]
       /\ r.op = "VERIFY" => /\ pc[c] = "judge" /\ r.post = before[c]
                             /\ world[req[c].ep] = req[c].val
       /\ r.op = "MATERIALIZE" => /\ r.ep = c /\ pc[c] = "m_admit"
                                  /\ c \in episodes' /\ env[c] # "none"

(* The entry a result leaves in a cache, where there was none. *)
Entry(c) == [intent |-> req[c].intent, id |-> c]
CachesItself(c, r) ==
  /\ \/ actCache' = actCache
     \/ /\ req[c].op = "ACT" /\ actCache[req[c].ep][req[c].key] = None
        /\ actCache' = [actCache EXCEPT ![req[c].ep][req[c].key] = Entry(c)]
  /\ \/ matCache' = matCache /\ pc[c] \notin InsideMaterialize
     \/ /\ req[c].op = "MATERIALIZE" /\ r.ep = c /\ mlock \in {c, None}
        /\ matCache[req[c].key] = None
        /\ matCache' = [matCache EXCEPT ![req[c].key] = Entry(c)]

(* A call ends by writing receipt r, unless the ledger raises. *)
Writes(c, r) ==
  \/ /\ KeyReuse(ledger, r) /\ ledger' = ledger /\ actCache' = actCache /\ matCache' = matCache
     /\ outcome'[c] = "raised" /\ answer'[c] = None
  \/ /\ ~KeyReuse(ledger, r) /\ ledger' = Append(ledger, r) /\ CachesItself(c, r)
     /\ outcome'[c] = "returned" /\ answer'[c] = c

(* What becomes of the world and of the registered episode meanwhile. *)
WorldOfRecord(c) ==
  /\ \/ env' = env
     \/ pc[c] = "m_create" /\ env' = [env EXCEPT ![c] = "open"]
     \/ pc[c] = "m_abort" /\ env' = [env EXCEPT ![c] = "closed"]
     \/ pc[c] = "close" /\ env' = [env EXCEPT ![req[c].ep] = "closed"]
  /\ episodes' = episodes \/ (pc[c] = "m_admit" /\ episodes' = episodes \cup {c})

Records(c) ==
  /\ Underway(c) /\ pc'[c] = "done" /\ req'[c] = req[c] /\ effect'[c] = effect[c]
  /\ torndown' = torndown /\ world' = world
  /\ WorldOfRecord(c)
  /\ \E r \in LedgerReceipt : Says(c, r) /\ Writes(c, r)

(* A successful teardown. *)
Closes(c) ==
  /\ pc[c] = "close" /\ pc'[c] = "done" /\ req'[c] = req[c] /\ effect'[c] = effect[c]
  /\ actCache' = actCache /\ matCache' = matCache /\ world' = world
  /\ env' = [env EXCEPT ![req[c].ep] = "closed"]
  /\ torndown' = [torndown EXCEPT ![req[c].ep] = c]
  /\ episodes' = episodes \ {req[c].ep}
  /\ \E r \in LedgerReceipt :
       Says(c, r) /\ r.op = "TEARDOWN" /\ r.key = None /\ ledger' = Append(ledger, r)
  /\ \/ outcome'[c] = "returned" /\ answer'[c] = c
     \/ outcome'[c] = "raised" /\ answer'[c] = None

(* A timed-out effect lands. *)
Lands(c) ==
  /\ effect[c] = "pending" /\ effect'[c] = "late"
  /\ world' = [world EXCEPT ![req[c].ep] = Applied(c)]
  /\ pc'[c] = pc[c] /\ outcome'[c] = outcome[c] /\ answer'[c] = answer[c]
  /\ req'[c] = req[c] /\ before'[c] = before[c] /\ mlock' = mlock /\ Kept /\ env' = env

Shape(c) ==
  /\ Others(c)
  /\ \/ Arrives(c) \/ Walks(c) \/ Creates(c) \/ Acts(c)
     \/ Quits(c) \/ Records(c) \/ Closes(c) \/ Lands(c)

-----------------------------------------------------------------------------
(* The building blocks of actions *)

(* What Goto and End leave of the other calls. *)
Bookkeeping(c) ==
  \A d \in Calls : d # c =>
     /\ pc'[d] = pc[d] /\ outcome'[d] = outcome[d] /\ answer'[d] = answer[d]
     /\ mlock = d => mlock' = d

(* Ending a call, exactly. *)
LEMMA EndExact ==
  ASSUME NEW c \in Calls, NEW how, NEW r, TypeOK, End(c, how, r)
  PROVE  /\ pc'[c] = "done" /\ outcome'[c] = how /\ answer'[c] = r
         /\ Bookkeeping(c)
<1>1. /\ pc' = [pc EXCEPT ![c] = "done"] /\ outcome' = [outcome EXCEPT ![c] = how]
      /\ answer' = [answer EXCEPT ![c] = r] /\ mlock' = IF mlock = c THEN None ELSE mlock
  BY DEF End, Release
<1> QED BY <1>1 DEF TypeOK, Bookkeeping

(* Moving a call on, exactly. *)
LEMMA GotoExact ==
  ASSUME NEW c \in Calls, NEW p, TypeOK, Goto(c, p), \A d \in Calls : d # c /\ mlock = d => mlock' = d
  PROVE  /\ pc'[c] = p /\ outcome'[c] = outcome[c] /\ answer'[c] = answer[c]
         /\ Bookkeeping(c)
  BY DEF Goto, TypeOK, Bookkeeping

(* Recording a receipt, exactly: the id is fresh, so the ledger raises for *)
(* a reused key only.                                                      *)
LEMMA RecordExact ==
  ASSUME NEW c \in Calls, NEW r, r.id = c, TypeOK, ~Receipted(c), Record(c, r)
  PROVE  /\ pc'[c] = "done" /\ Bookkeeping(c)
         /\ AppendRaises(ledger, r) <=> KeyReuse(ledger, r)
         /\ \/ /\ KeyReuse(ledger, r) /\ ledger' = ledger
               /\ outcome'[c] = "raised" /\ answer'[c] = None
            \/ /\ ~KeyReuse(ledger, r) /\ ledger' = Append(ledger, r)
               /\ outcome'[c] = "returned" /\ answer'[c] = c
<1>1. ~HoldsId(ledger, r.id)
  BY DEF Receipted
<1>2. AppendRaises(ledger, r) <=> KeyReuse(ledger, r)
  BY <1>1 DEF AppendRaises
<1>3. CASE KeyReuse(ledger, r)
  <2>1. End(c, "raised", None) /\ ledger' = ledger
    BY <1>2, <1>3 DEF Record, Raise, Appended
  <2> QED BY <1>2, <1>3, <2>1, EndExact
<1>4. CASE ~KeyReuse(ledger, r)
  <2>1. End(c, "returned", c) /\ ledger' = Append(ledger, r)
    BY <1>1, <1>2, <1>4 DEF Record, Return, Appended
  <2> QED BY <1>2, <1>4, <2>1, EndExact
<1> QED BY <1>3, <1>4

-----------------------------------------------------------------------------
(* Every action has one of the shapes *)

EvInv == Inv /\ EvidenceInvariant

(* What the invariant says of a call that is under way. *)
LEMMA UnderwayFacts ==
  ASSUME NEW c \in Calls, EvInv, Underway(c)
  PROVE  /\ TypeOK /\ req[c] \in Request /\ ~Receipted(c)
         /\ PhaseMatchesRequest(c) /\ NothingCached(c)
         /\ pc[c] \in InsideMaterialize => mlock = c /\ matCache[req[c].key] = None
         /\ req[c].op # "MATERIALIZE" =>
              req[c].ep \in Calls /\ pc[req[c].ep] = "done" /\ req[c].ep \in KnownEpisodes
         /\ req[c].op \in {"ACT", "RAW", "MATERIALIZE"} =>
              req[c].key \in Keys /\ req[c].intent \in Intents
<1>1. TypeOK /\ req[c] \in Request /\ ~Receipted(c) /\ CallInv(c)
  BY InsideFacts DEF EvInv, Underway
<1>2. MaterializesAlone(c) /\ AddressesKnownEpisode(c) /\ LedgerIsTrue
  BY DEF EvInv, EvidenceInvariant
<1>3. req[c].op # "MATERIALIZE" => pc[req[c].ep] = "done" /\ req[c].ep \in KnownEpisodes
  BY <1>2 DEF AddressesKnownEpisode, KnownEpisodes, LedgerIsTrue, Underway
<1> QED BY <1>1, <1>2, <1>3, RequestFacts DEF MaterializesAlone, CallInv

(* Locals of the other calls. *)
Locals(c) ==
  \A d \in Calls : d # c => req'[d] = req[d] /\ before'[d] = before[d] /\ effect'[d] = effect[d]

(* A step that leaves all locals alone does so for the other calls. *)
LEMMA LocalsStay ==
  ASSUME NEW c \in Calls, Bookkeeping(c), req' = req, before' = before, effect' = effect
  PROVE  Others(c)
  BY DEF Bookkeeping, Others

(* A receipted end that caches nothing. *)
LEMMA RecordShape ==
  ASSUME NEW c \in Calls, NEW r \in LedgerReceipt, EvInv, Underway(c), Says(c, r), Record(c, r),
         UNCHANGED cacheVars, pc[c] \notin InsideMaterialize,
         req' = req, before' = before, effect' = effect, world' = world, WorldOfRecord(c)
  PROVE  Shape(c)
<1>1. TypeOK /\ ~Receipted(c) /\ r.id = c
  BY UnderwayFacts DEF Says
<1>2. /\ pc'[c] = "done" /\ Bookkeeping(c)
      /\ \/ /\ KeyReuse(ledger, r) /\ ledger' = ledger
            /\ outcome'[c] = "raised" /\ answer'[c] = None
         \/ /\ ~KeyReuse(ledger, r) /\ ledger' = Append(ledger, r)
            /\ outcome'[c] = "returned" /\ answer'[c] = c
  BY <1>1, RecordExact
<1>3. actCache' = actCache /\ matCache' = matCache /\ torndown' = torndown
  BY DEF cacheVars
<1>4. Writes(c, r)
  BY <1>2, <1>3 DEF Writes, CachesItself
<1>5. Others(c)
  BY <1>2, LocalsStay
<1>6. Records(c)
  BY <1>2, <1>3, <1>4 DEF Records
<1> QED BY <1>5, <1>6 DEF Shape

(* A receipted and cached end of act(). *)
LEMMA ActRecordShape ==
  ASSUME NEW c \in Calls, NEW r \in LedgerReceipt, EvInv, Underway(c), Says(c, r),
         ActuationResult(c, r, TRUE), req[c].op = "ACT",
         pc[c] \in {"observe", "authorize", "effect", "after", "rescue"},
         req' = req, before' = before, effect' = effect, world' = world, env' = env,
         episodes' = episodes
  PROVE  Shape(c)
<1>1. TypeOK /\ ~Receipted(c) /\ r.id = c /\ actCache[req[c].ep][req[c].key] = None
  BY UnderwayFacts DEF Says, NothingCached
<1>2. /\ pc'[c] = "done" /\ Bookkeeping(c)
      /\ AppendRaises(ledger, r) <=> KeyReuse(ledger, r)
      /\ \/ /\ KeyReuse(ledger, r) /\ ledger' = ledger
            /\ outcome'[c] = "raised" /\ answer'[c] = None
         \/ /\ ~KeyReuse(ledger, r) /\ ledger' = Append(ledger, r)
            /\ outcome'[c] = "returned" /\ answer'[c] = c
  BY <1>1, RecordExact DEF ActuationResult
<1>3. /\ actCache' = IF ~KeyReuse(ledger, r)
                     THEN [actCache EXCEPT ![req[c].ep][req[c].key] = Entry(c)] ELSE actCache
      /\ matCache' = matCache /\ torndown' = torndown
  BY <1>2 DEF ActuationResult, Entry
<1>4. pc[c] \notin InsideMaterialize
  BY DEF InsideMaterialize
<1>5. Writes(c, r)
  BY <1>1, <1>2, <1>3, <1>4 DEF Writes, CachesItself
<1>6. Others(c)
  BY <1>2, LocalsStay
<1>7. Records(c)
  BY <1>2, <1>3, <1>5 DEF Records, WorldOfRecord
<1> QED BY <1>6, <1>7 DEF Shape

(* A receipted and cached end of materialize(). *)
LEMMA MatRecordShape ==
  ASSUME NEW c \in Calls, NEW r \in LedgerReceipt, EvInv, Underway(c), Says(c, r),
         MaterializationResult(c, r, TRUE), req[c].op = "MATERIALIZE", r.ep = c,
         matCache[req[c].key] = None, mlock \in {c, None},
         req' = req, before' = before, effect' = effect, world' = world, WorldOfRecord(c)
  PROVE  Shape(c)
<1>1. TypeOK /\ ~Receipted(c) /\ r.id = c
  BY UnderwayFacts DEF Says
<1>2. /\ pc'[c] = "done" /\ Bookkeeping(c)
      /\ AppendRaises(ledger, r) <=> KeyReuse(ledger, r)
      /\ \/ /\ KeyReuse(ledger, r) /\ ledger' = ledger
            /\ outcome'[c] = "raised" /\ answer'[c] = None
         \/ /\ ~KeyReuse(ledger, r) /\ ledger' = Append(ledger, r)
            /\ outcome'[c] = "returned" /\ answer'[c] = c
  BY <1>1, RecordExact DEF MaterializationResult
<1>3. /\ matCache' = IF ~KeyReuse(ledger, r)
                     THEN [matCache EXCEPT ![req[c].key] = Entry(c)] ELSE matCache
      /\ actCache' = actCache /\ torndown' = torndown
  BY <1>2 DEF MaterializationResult, Entry
<1>4. Writes(c, r)
  BY <1>2, <1>3 DEF Writes, CachesItself
<1>5. Others(c)
  BY <1>2, LocalsStay
<1>6. Records(c)
  BY <1>2, <1>3, <1>4 DEF Records
<1> QED BY <1>5, <1>6 DEF Shape

(* An end without a receipt: raised, or answered from a cache. *)
LEMMA QuitShape ==
  ASSUME NEW c \in Calls, NEW how, NEW a, EvInv, Underway(c), End(c, how, a),
         UNCHANGED <<cacheVars, ledger, episodes, env, world>>,
         req' = req, before' = before, effect' = effect,
         \/ how = "raised" /\ a = None /\ pc[c] \notin {"m_admit", "m_abort"}
         \/ /\ how = "returned" /\ pc[c] \in {"waiting", "read"}
            /\ \/ a = None
               \/ /\ req[c].op = "ACT" /\ actCache[req[c].ep][req[c].key] # None
                  /\ actCache[req[c].ep][req[c].key].intent = req[c].intent
                  /\ a = actCache[req[c].ep][req[c].key].id
               \/ /\ req[c].op = "MATERIALIZE" /\ matCache[req[c].key] # None
                  /\ matCache[req[c].key].intent = req[c].intent
                  /\ a = matCache[req[c].key].id
  PROVE  Shape(c)
<1>1. TypeOK
  BY UnderwayFacts
<1>2. pc'[c] = "done" /\ outcome'[c] = how /\ answer'[c] = a /\ Bookkeeping(c)
  BY <1>1, EndExact
<1>3. Kept /\ env' = env /\ world' = world
  BY DEF Kept, cacheVars
<1>4. Others(c)
  BY <1>2, LocalsStay
<1>5. Quits(c)
  BY <1>2, <1>3 DEF Quits
<1> QED BY <1>4, <1>5 DEF Shape

(* A call goes on. *)
LEMMA WalkShape ==
  ASSUME NEW c \in Calls, NEW p, EvInv, Underway(c), Goto(c, p), p \notin {"idle", "done", "after"},
         UNCHANGED <<cacheVars, ledger, episodes, env, world>>, req' = req, effect' = effect,
         \A d \in Calls : d # c => before'[d] = before[d] /\ (mlock = d => mlock' = d),
         p = "effect" => pc[c] = "authorize" /\ before'[c] = before[c],
         p \in {"authorize", "judge"} => before'[c] = world[req[c].ep],
         p \in InsideMaterialize => mlock' = c /\ matCache[req[c].key] = None,
         pc[c] \in {"m_admit", "m_abort"} => p = "m_abort"
  PROVE  Shape(c)
<1>1. TypeOK
  BY UnderwayFacts
<1>2. pc'[c] = p /\ outcome'[c] = outcome[c] /\ answer'[c] = answer[c] /\ Bookkeeping(c)
  BY <1>1, GotoExact
<1>3. Kept
  BY DEF Kept, cacheVars
<1>4. Others(c)
  BY <1>2 DEF Bookkeeping, Others
<1>5. Walks(c)
  BY <1>2, <1>3 DEF Walks
<1> QED BY <1>4, <1>5 DEF Shape

(* Accepted and bounced requests. *)
LEMMA ArriveShape ==
  ASSUME NEW c \in Calls, NEW r \in Request, NEW p \in {"waiting", "read"}, EvInv,
         r.op # "MATERIALIZE" => r.ep \in KnownEpisodes, Arrive(c, r, p)
  PROVE  Shape(c)
<1>1. TypeOK /\ mlock' = mlock /\ Goto(c, p) /\ pc[c] = "idle" /\ req' = [req EXCEPT ![c] = r]
  BY DEF EvInv, Inv, Arrive
<1>2. pc'[c] = p /\ outcome'[c] = outcome[c] /\ answer'[c] = answer[c] /\ Bookkeeping(c)
  BY <1>1, GotoExact
<1>3. /\ Kept /\ env' = env /\ world' = world /\ effect' = effect /\ before' = before
  BY DEF Arrive, Kept, cacheVars, worldVars
<1>4. req'[c] = r /\ \A d \in Calls : d # c => req'[d] = req[d]
  BY <1>1 DEF TypeOK
<1>5. Others(c)
  BY <1>2, <1>3, <1>4 DEF Bookkeeping, Others
<1>6. Arrives(c)
  BY <1>1, <1>2, <1>3, <1>4 DEF Arrives
<1> QED BY <1>5, <1>6 DEF Shape

(* A bounced request raises, or answers with the receipt of a teardown. *)
LEMMA BounceShape ==
  ASSUME NEW c \in Calls, NEW r \in Request, NEW how, NEW a, EvInv,
         r.op # "MATERIALIZE" => r.ep \in KnownEpisodes, Bounce(c, r, how, a),
         \/ how = "raised" /\ a = None
         \/ \E e \in KnownEpisodes :
              /\ how = "returned" /\ torndown[e] # None /\ a = torndown[e]
              /\ Asks(r, "TEARDOWN", e, None, None)
  PROVE  Shape(c)
<1>1. TypeOK /\ End(c, how, a) /\ pc[c] = "idle" /\ req' = [req EXCEPT ![c] = r]
  BY DEF EvInv, Inv, Bounce
<1>2. pc'[c] = "done" /\ outcome'[c] = how /\ answer'[c] = a /\ Bookkeeping(c)
  BY <1>1, EndExact
<1>3. /\ Kept /\ env' = env /\ world' = world /\ effect' = effect /\ before' = before
  BY DEF Bounce, Kept, cacheVars, worldVars
<1>4. req'[c] = r /\ \A d \in Calls : d # c => req'[d] = req[d]
  BY <1>1 DEF TypeOK
<1>5. Others(c)
  BY <1>2, <1>3, <1>4 DEF Bookkeeping, Others
<1>6. Arrives(c)
  BY <1>1, <1>2, <1>3, <1>4 DEF Arrives
<1> QED BY <1>5, <1>6 DEF Shape

(* Every request arrives or bounces. *)
LEMMA CallShape ==
  ASSUME NEW c \in Calls, EvInv, Call(c) PROVE Shape(c)
<1>1. TypeOK /\ KnownEpisodes \subseteq Calls
  <2>1. TypeOK /\ ledger \in Seq(LedgerReceipt)
    BY DEF EvInv, Inv, TypeOK
  <2>2. \A j \in DOMAIN ledger : ledger[j] \in LedgerReceipt
    BY <2>1
  <2>3. \A j \in DOMAIN ledger : ledger[j].ep \in Calls
    BY <2>2 DEF LedgerReceipt
  <2> QED BY <2>1, <2>3 DEF KnownEpisodes
<1>2. ASSUME NEW k \in Keys, NEW i \in Intents, CallMaterialize(c, k, i) PROVE Shape(c)
  <2> DEFINE r == [NoRequest EXCEPT !.op = "MATERIALIZE", !.key = k, !.intent = i]
  <2>1. r \in Request /\ r.op = "MATERIALIZE"
    BY DEF NoRequest, Request
  <2>2. Arrive(c, r, "waiting")
    BY <1>2 DEF CallMaterialize
  <2> HIDE DEF r
  <2> QED BY <2>1, <2>2, ArriveShape
<1>3. ASSUME NEW e \in KnownEpisodes, NEW r \in Request, r.ep = e, ArriveAtEpisode(c, r)
      PROVE  Shape(c)
  BY <1>3, ArriveShape, BounceShape DEF ArriveAtEpisode
<1>4. ASSUME NEW e \in KnownEpisodes, NEW op \in {"ACT", "RAW"}, NEW k \in Keys, NEW i \in Intents,
             CallAct(c, op, e, k, i)
      PROVE  Shape(c)
  <2> DEFINE r == [NoRequest EXCEPT !.op = op, !.ep = e, !.key = k, !.intent = i]
  <2>1. r \in Request /\ r.ep = e
    BY <1>1 DEF NoRequest, Request
  <2>2. ArriveAtEpisode(c, r)
    BY <1>4 DEF CallAct
  <2> HIDE DEF r
  <2> QED BY <1>3, <2>1, <2>2
<1>5. ASSUME NEW e \in KnownEpisodes, NEW v \in Checkpoints \cup {None}, CallVerify(c, e, v)
      PROVE  Shape(c)
  <2> DEFINE r == [NoRequest EXCEPT !.op = "VERIFY", !.ep = e, !.val = v]
  <2>1. r \in Request /\ r.ep = e
    BY <1>1 DEF NoRequest, Request
  <2>2. ArriveAtEpisode(c, r) \/ Bounce(c, r, "raised", None)
    BY <1>5 DEF CallVerify
  <2> HIDE DEF r
  <2> QED BY <1>3, <2>1, <2>2, BounceShape
<1>6. ASSUME NEW e \in KnownEpisodes, NEW v \in Checkpoints \cup {None}, CallRestore(c, e, v)
      PROVE  Shape(c)
  <2> DEFINE r == [NoRequest EXCEPT !.op = "RESTORE", !.ep = e, !.val = v]
  <2>1. r \in Request /\ r.ep = e
    BY <1>1 DEF NoRequest, Request
  <2>2. ArriveAtEpisode(c, r)
    BY <1>6 DEF CallRestore
  <2> HIDE DEF r
  <2> QED BY <1>3, <2>1, <2>2
<1>7. ASSUME NEW e \in KnownEpisodes, NEW op \in {"OBSERVE", "CHECKPOINT"}, CallQuery(c, op, e)
      PROVE  Shape(c)
  <2> DEFINE r == [NoRequest EXCEPT !.op = op, !.ep = e]
  <2>1. r \in Request /\ r.ep = e
    BY <1>1 DEF NoRequest, Request
  <2>2. ArriveAtEpisode(c, r)
    BY <1>7 DEF CallQuery
  <2> HIDE DEF r
  <2> QED BY <1>3, <2>1, <2>2
<1>8. ASSUME NEW e \in KnownEpisodes, NEW i \in Intents, CallRead(c, e, i) PROVE Shape(c)
  <2> DEFINE r == [NoRequest EXCEPT !.op = "READ", !.ep = e, !.intent = i]
  <2>1. r \in Request /\ r.ep = e
    BY <1>1 DEF NoRequest, Request
  <2>2. Arrive(c, r, "read") \/ Bounce(c, r, "raised", None)
    BY <1>8 DEF CallRead
  <2> HIDE DEF r
  <2> QED BY <2>1, <2>2, ArriveShape, BounceShape
<1>9. ASSUME NEW e \in KnownEpisodes, CallTeardown(c, e) PROVE Shape(c)
  <2> DEFINE r == [NoRequest EXCEPT !.op = "TEARDOWN", !.ep = e]
  <2>1. r \in Request /\ r.ep = e /\ Asks(r, "TEARDOWN", e, None, None)
    BY <1>1 DEF NoRequest, Request, Asks
  <2>2. CASE torndown[e] # None
    <3>1. Bounce(c, r, "returned", torndown[e])
      BY <1>9, <2>2 DEF CallTeardown
    <3> HIDE DEF r
    <3> QED BY <2>1, <2>2, <3>1, BounceShape
  <2>3. CASE torndown[e] = None
    <3>1. ArriveAtEpisode(c, r)
      BY <1>9, <2>3 DEF CallTeardown
    <3> HIDE DEF r
    <3> QED BY <1>3, <2>1, <3>1
  <2> QED BY <2>2, <2>3
<1> QED BY <1>2, <1>4, <1>5, <1>6, <1>7, <1>8, <1>9 DEF Call

(* The receipts of materialize() say what they may. *)
LEMMA MatSays ==
  ASSUME NEW c \in Calls, EvInv, Underway(c), req[c].op = "MATERIALIZE", NEW ep \in Calls,
         NEW standing \in Standings, NEW reason \in ReceiptReasons, NEW post \in Digest,
         ep = c \/ pc[ep] = "done",
         standing = "ALIVE" => ep = c /\ pc[c] = "m_admit" /\ c \in episodes' /\ env[c] # "none"
  PROVE  /\ MatReceipt(c, ep, standing, reason, post) \in LedgerReceipt
         /\ Says(c, MatReceipt(c, ep, standing, reason, post))
         /\ MatReceipt(c, ep, standing, reason, post).ep = ep
<1> DEFINE r == MatReceipt(c, ep, standing, reason, post)
<1>1. TypeOK /\ req[c] \in Request /\ PhaseMatchesRequest(c)
  BY UnderwayFacts
<1>2. r \in LedgerReceipt /\ r.id = c
  BY <1>1, MatReceiptType, SMTT(30)
<1>3. r.key = req[c].key /\ r.ep = ep /\ r.op = "MATERIALIZE" /\ r.standing = standing
  BY DEF MatReceipt, Receipt
<1>4. pc[c] \notin {"after", "rescue"}
  BY <1>1 DEF PhaseMatchesRequest
<1> HIDE DEF r
<1>5. Says(c, r)
  BY <1>2, <1>3, <1>4 DEF Says
<1> QED BY <1>2, <1>3, <1>5 DEF r

(* A cached id belongs to a call that has ended. *)
LEMMA CachedIsDone ==
  ASSUME EvInv, NEW k \in Keys, matCache[k] # None
  PROVE  matCache[k].id \in Calls /\ pc[matCache[k].id] = "done"
<1>1. matCache[k].id \in Calls
  BY DEF EvInv, Inv, TypeOK, CacheEntry
<1>2. Receipted(matCache[k].id)
  BY DEF EvInv, EvidenceInvariant, CachesAnswerReceipts
<1> QED BY <1>1, <1>2 DEF EvInv, Inv, CallInv, ReceiptEndsCall

(* materialize() under its lock. *)
LEMMA MaterializeBeginShape ==
  ASSUME NEW c \in Calls, EvInv, MaterializeBegin(c) PROVE Shape(c)
<1> DEFINE cached == matCache[req[c].key]
<1>1. /\ pc[c] = "waiting" /\ req[c].op = "MATERIALIZE" /\ mlock = None /\ Underway(c)
      /\ req' = req /\ before' = before /\ effect' = effect /\ world' = world /\ env' = env
      /\ episodes' = episodes
  BY DEF MaterializeBegin, Underway, localVars, worldVars
<1>2. TypeOK /\ req[c].key \in Keys
  BY <1>1, UnderwayFacts
<1>3. WorldOfRecord(c) /\ pc[c] \notin InsideMaterialize
  BY <1>1 DEF WorldOfRecord, InsideMaterialize
<1>4. /\ "REFUSED" \in Standings /\ "UNSUPPORTED" \in Standings /\ None \in Digest
      /\ "IDEMPOTENCY_KEY_CONFLICT" \in ReceiptReasons
      /\ "INPUT_LIMIT_EXCEEDED" \in ReceiptReasons /\ "UNKNOWN_PROVIDER" \in ReceiptReasons
  BY DEF Standings, ReceiptReasons, Gates, Digest
<1>5. CASE /\ cached # None /\ cached.intent = req[c].intent
           /\ Return(c, cached.id) /\ UNCHANGED <<cacheVars, ledger>>
  BY <1>1, <1>5, QuitShape DEF Return
<1>6. CASE /\ cached # None
           /\ MaterializationResult(c,
                MatReceipt(c, cached.id, "REFUSED", "IDEMPOTENCY_KEY_CONFLICT", None), FALSE)
  <2> DEFINE r == MatReceipt(c, cached.id, "REFUSED", "IDEMPOTENCY_KEY_CONFLICT", None)
  <2>1. cached.id \in Calls /\ pc[cached.id] = "done"
    BY <1>2, <1>6, CachedIsDone
  <2>2. r \in LedgerReceipt /\ Says(c, r)
    BY <1>1, <1>4, <2>1, MatSays
  <2>3. Record(c, r) /\ UNCHANGED cacheVars
    BY <1>6 DEF MaterializationResult, cacheVars
  <2> HIDE DEF r
  <2> QED BY <1>1, <1>3, <2>2, <2>3, RecordShape
<1>7. ASSUME NEW s \in {"REFUSED", "UNSUPPORTED"}, NEW v \in ReceiptReasons, cached = None,
             MaterializationResult(c, MatReceipt(c, c, s, v, None), TRUE)
      PROVE  Shape(c)
  <2> DEFINE r == MatReceipt(c, c, s, v, None)
  <2>1. r \in LedgerReceipt /\ Says(c, r) /\ r.ep = c
    BY <1>1, <1>4, MatSays
  <2>2. MaterializationResult(c, r, TRUE)
    BY <1>7
  <2> HIDE DEF r
  <2> QED BY <1>1, <1>3, <1>7, <2>1, <2>2, MatRecordShape
<1>8. CASE /\ cached = None /\ Goto(c, "m_authorize") /\ mlock' = c
           /\ UNCHANGED <<lock, cacheVars, ledger>>
  <2>1. \A d \in Calls : mlock # d
    BY <1>1, KernelAssumption
  <2> QED BY <1>1, <1>8, <2>1, WalkShape
<1> QED BY <1>4, <1>5, <1>6, <1>7, <1>8 DEF MaterializeBegin

(* materialize() between its lock and its receipt. *)
LEMMA MaterializationShape ==
  ASSUME NEW c \in Calls, EvInv, pc[c] \in InsideMaterialize,
         NEW s \in Standings, NEW v \in ReceiptReasons, NEW d \in Digest,
         s = "ALIVE" => pc[c] = "m_admit" /\ c \in episodes' /\ env[c] # "none",
         MaterializationResult(c, MatReceipt(c, c, s, v, d), TRUE),
         req' = req, before' = before, effect' = effect, world' = world, WorldOfRecord(c)
  PROVE  Shape(c)
<1> DEFINE r == MatReceipt(c, c, s, v, d)
<1>1. Underway(c)
  BY DEF Underway, InsideMaterialize
<1>2. req[c].op = "MATERIALIZE" /\ matCache[req[c].key] = None /\ mlock = c
  BY <1>1, UnderwayFacts DEF PhaseMatchesRequest, InsideMaterialize
<1>3. r \in LedgerReceipt /\ Says(c, r) /\ r.ep = c
  BY <1>1, <1>2, MatSays
<1>4. MaterializationResult(c, r, TRUE)
  OBVIOUS
<1> HIDE DEF r
<1> QED BY <1>1, <1>2, <1>3, <1>4, MatRecordShape

(* materialize(): the authority decision. *)
LEMMA MaterializeAuthorizeShape ==
  ASSUME NEW c \in Calls, EvInv, MaterializeAuthorize(c) PROVE Shape(c)
<1>1. /\ pc[c] = "m_authorize" /\ pc[c] \in InsideMaterialize /\ Underway(c)
      /\ req' = req /\ before' = before /\ effect' = effect /\ world' = world /\ env' = env
      /\ episodes' = episodes
  BY DEF MaterializeAuthorize, Underway, localVars, worldVars, InsideMaterialize
<1>2. WorldOfRecord(c) /\ mlock = c /\ matCache[req[c].key] = None
  BY <1>1, UnderwayFacts DEF WorldOfRecord
<1>3. /\ "REFUSED" \in Standings /\ "BLOCKED" \in Standings /\ None \in Digest
      /\ "AUTHORITY_TIMEOUT" \in ReceiptReasons /\ "AUTHORITY_DENIED" \in ReceiptReasons
  BY DEF Standings, ReceiptReasons, Digest
<1>4. CASE Goto(c, "m_create") /\ UNCHANGED <<lock, mlock, cacheVars, ledger>>
  BY <1>1, <1>2, <1>4, WalkShape
<1>5. CASE Raise(c) /\ UNCHANGED <<cacheVars, ledger>>
  BY <1>1, <1>5, QuitShape DEF Raise
<1>6. CASE \/ MaterializationResult(c, MatReceipt(c, c, "BLOCKED", "AUTHORITY_TIMEOUT", None), TRUE)
           \/ MaterializationResult(c, MatReceipt(c, c, "REFUSED", "AUTHORITY_DENIED", None), TRUE)
  BY <1>1, <1>2, <1>3, <1>6, MaterializationShape
<1> QED BY <1>4, <1>5, <1>6 DEF MaterializeAuthorize

(* materialize(): the provider builds the world, or fails to. *)
LEMMA MaterializeCreateShape ==
  ASSUME NEW c \in Calls, EvInv, MaterializeCreate(c) PROVE Shape(c)
<1>1. /\ pc[c] = "m_create" /\ pc[c] \in InsideMaterialize /\ Underway(c)
      /\ req' = req /\ before' = before /\ effect' = effect /\ world' = world
      /\ episodes' = episodes
  BY DEF MaterializeCreate, Underway, localVars, InsideMaterialize
<1>2. TypeOK
  BY <1>1, UnderwayFacts
<1>3. /\ "BLOCKED" \in Standings /\ None \in Digest
      /\ "MATERIALIZATION_TIMEOUT" \in ReceiptReasons /\ "PROVIDER_ERROR" \in ReceiptReasons
  BY DEF Standings, ReceiptReasons, Reasons, Digest
<1>4. CASE /\ env' = [env EXCEPT ![c] = "open"]
           /\ Goto(c, "m_admit") /\ UNCHANGED <<lock, mlock, cacheVars, ledger>>
  <2>1. pc'[c] = "m_admit" /\ outcome'[c] = outcome[c] /\ answer'[c] = answer[c] /\ Bookkeeping(c)
    BY <1>2, <1>4, GotoExact
  <2>2. Creates(c)
    BY <1>1, <1>4, <2>1 DEF Creates, Kept, cacheVars
  <2>3. Others(c)
    BY <1>1, <2>1, LocalsStay
  <2> QED BY <2>2, <2>3 DEF Shape
<1>5. CASE /\ env' \in {env, [env EXCEPT ![c] = "open"]}
           /\ \/ MaterializationResult(c,
                   MatReceipt(c, c, "BLOCKED", "MATERIALIZATION_TIMEOUT", None), TRUE)
              \/ MaterializationResult(c,
                   MatReceipt(c, c, "BLOCKED", "PROVIDER_ERROR", None), TRUE)
  <2>1. WorldOfRecord(c)
    BY <1>1, <1>5 DEF WorldOfRecord
  <2> QED BY <1>1, <1>3, <1>5, <2>1, MaterializationShape
<1> QED BY <1>4, <1>5 DEF MaterializeCreate

(* materialize(): the new world is admitted, or given up. *)
LEMMA MaterializeAdmitShape ==
  ASSUME NEW c \in Calls, EvInv, MaterializeAdmit(c) PROVE Shape(c)
<1>1. /\ pc[c] = "m_admit" /\ pc[c] \in InsideMaterialize /\ Underway(c)
      /\ req' = req /\ before' = before /\ effect' = effect /\ world' = world /\ env' = env
  BY DEF MaterializeAdmit, Underway, localVars, worldVars, InsideMaterialize
<1>2. TypeOK /\ mlock = c /\ matCache[req[c].key] = None
  BY <1>1, UnderwayFacts
<1>3. "ALIVE" \in Standings /\ "NONE" \in ReceiptReasons
  BY DEF Standings, ReceiptReasons, Reasons
<1>4. ASSUME NEW d \in Observations(c), d # None, episodes' = episodes \cup {c},
             MaterializationResult(c, MatReceipt(c, c, "ALIVE", "NONE", d), TRUE)
      PROVE  Shape(c)
  <2>1. d \in Digest /\ WorldOfRecord(c)
    BY <1>1, <1>2, <1>4, ObservationTypes DEF WorldOfRecord
  <2>2. env[c] # "none"
    BY <1>4 DEF Observations, Reachable
  <2> QED BY <1>1, <1>3, <1>4, <2>1, <2>2, MaterializationShape
<1>5. CASE Goto(c, "m_abort") /\ UNCHANGED <<lock, mlock, cacheVars, ledger, episodes>>
  BY <1>1, <1>2, <1>5, WalkShape
<1> QED BY <1>4, <1>5 DEF MaterializeAdmit

(* materialize(): a world that was not admitted is torn down. *)
LEMMA MaterializeAbortShape ==
  ASSUME NEW c \in Calls, EvInv, MaterializeAbort(c) PROVE Shape(c)
<1>1. /\ pc[c] = "m_abort" /\ pc[c] \in InsideMaterialize
      /\ req' = req /\ before' = before /\ effect' = effect /\ world' = world
      /\ episodes' = episodes /\ env' \in {env, [env EXCEPT ![c] = "closed"]}
  BY DEF MaterializeAbort, localVars, InsideMaterialize
<1>2. WorldOfRecord(c)
  BY <1>1 DEF WorldOfRecord
<1>3. "BLOCKED" \in Standings /\ None \in Digest /\ "ENVIRONMENT_ADMISSION_FAILED" \in ReceiptReasons
  BY DEF Standings, ReceiptReasons, Digest
<1> QED BY <1>1, <1>2, <1>3, MaterializationShape DEF MaterializeAbort

(* What can be observed of a world is its state. *)
LEMMA ObservedIsWorld ==
  ASSUME NEW e, NEW d \in Observations(e), d # None PROVE d = world[e]
  BY DEF Observations

(* The receipts of act() say what they may. *)
LEMMA ActSays ==
  ASSUME NEW c \in Calls, EvInv, Underway(c), req[c].op \in {"ACT", "RAW"},
         NEW standing \in Standings, NEW reason \in ReceiptReasons, NEW post \in Digest,
         standing \in {"REFUSED", "UNSUPPORTED"} => pc[c] \notin {"after", "rescue"},
         standing = "ALIVE" => pc[c] = "after" /\ post = world[req[c].ep]
  PROVE  /\ ActReceipt(c, standing, reason, post) \in LedgerReceipt
         /\ Says(c, ActReceipt(c, standing, reason, post))
         /\ standing # "ALIVE" =>
              /\ Unmoved(ActReceipt(c, standing, reason, post)) \in LedgerReceipt
              /\ Says(c, Unmoved(ActReceipt(c, standing, reason, post)))
<1> DEFINE r == ActReceipt(c, standing, reason, post)
           u == Unmoved(r)
<1>1. /\ TypeOK /\ req[c] \in Request /\ PhaseMatchesRequest(c)
      /\ pc[req[c].ep] = "done"
  BY UnderwayFacts
<1>2. r \in LedgerReceipt /\ r.id = c /\ u \in LedgerReceipt /\ u.id = c
  BY <1>1, ActReceiptType
<1>3. /\ r.key = req[c].key /\ r.ep = req[c].ep /\ r.op = "ACT" /\ r.standing = standing
      /\ r.pre = before[c] /\ r.post = post
      /\ u.key = req[c].key /\ u.ep = req[c].ep /\ u.op = "ACT" /\ u.standing = standing
  BY DEF ActReceipt, Receipt, Unmoved
<1>4. standing = "ALIVE" => req[c].op = "ACT"
  BY <1>1 DEF PhaseMatchesRequest
<1> HIDE DEF r, u
<1>5. Says(c, r)
  BY <1>1, <1>2, <1>3, <1>4 DEF Says
<1>6. standing # "ALIVE" => Says(c, u)
  BY <1>1, <1>2, <1>3 DEF Says
<1> QED BY <1>2, <1>5, <1>6 DEF r, u

(* So do those of restore() and teardown(). *)
LEMMA EpisodeSays ==
  ASSUME NEW c \in Calls, EvInv, Underway(c), req[c].op # "MATERIALIZE",
         NEW standing \in Standings, NEW reason \in ReceiptReasons, NEW post \in Digest,
         standing \in {"REFUSED", "UNSUPPORTED"} => pc[c] \notin {"after", "rescue"}
  PROVE  /\ RestoreReceipt(c, standing, reason, post) \in LedgerReceipt
         /\ Says(c, RestoreReceipt(c, standing, reason, post))
         /\ Unmoved(RestoreReceipt(c, standing, reason, post)) \in LedgerReceipt
         /\ Says(c, Unmoved(RestoreReceipt(c, standing, reason, post)))
         /\ TeardownReceipt(c, standing, reason, post) \in LedgerReceipt
         /\ Says(c, TeardownReceipt(c, standing, reason, post))
         /\ TeardownReceipt(c, standing, reason, post).op = "TEARDOWN"
         /\ TeardownReceipt(c, standing, reason, post).key = req[c].key
<1> DEFINE r == RestoreReceipt(c, standing, reason, post)
           u == Unmoved(r)
           t == TeardownReceipt(c, standing, reason, post)
<1>1. TypeOK /\ req[c] \in Request /\ pc[req[c].ep] = "done"
  BY UnderwayFacts
<1>2. /\ r \in LedgerReceipt /\ r.id = c /\ u \in LedgerReceipt /\ u.id = c
      /\ t \in LedgerReceipt /\ t.id = c
  BY <1>1, EpisodeReceiptTypes
<1>3. /\ r.key = req[c].key /\ r.ep = req[c].ep /\ r.op = "RESTORE" /\ r.standing = standing
      /\ u.key = req[c].key /\ u.ep = req[c].ep /\ u.op = "RESTORE" /\ u.standing = standing
      /\ t.key = req[c].key /\ t.ep = req[c].ep /\ t.op = "TEARDOWN" /\ t.standing = standing
  BY DEF RestoreReceipt, TeardownReceipt, Receipt, Unmoved
<1> HIDE DEF r, u, t
<1>4. Says(c, r) /\ Says(c, u) /\ Says(c, t)
  BY <1>1, <1>2, <1>3 DEF Says
<1> QED BY <1>2, <1>3, <1>4 DEF r, u, t

(* act() takes the lock: a cache hit answers, a miss stays a miss. *)
LEMMA ActBeginShape ==
  ASSUME NEW c \in Calls, EvInv, ActBegin(c) PROVE Shape(c)
<1> DEFINE cached == actCache[req[c].ep][req[c].key]
<1>1. /\ pc[c] = "waiting" /\ req[c].op = "ACT" /\ Underway(c)
      /\ UNCHANGED <<cacheVars, ledger, episodes, env, world>>
      /\ req' = req /\ before' = before /\ effect' = effect
  BY DEF ActBegin, Underway, localVars, worldVars
<1>2. CASE cached # None /\ cached.intent = req[c].intent /\ Return(c, cached.id)
  BY <1>1, <1>2, QuitShape DEF Return
<1>3. ASSUME NEW p \in {"conflict", "observe"}, Acquire(c, p) PROVE Shape(c)
  BY <1>1, <1>3, WalkShape DEF Acquire, InsideMaterialize
<1> QED BY <1>2, <1>3 DEF ActBegin

(* The other operations take the lock. *)
LEMMA LockBeginShape ==
  ASSUME NEW c \in Calls, EvInv, LockBegin(c) PROVE Shape(c)
<1>1. /\ pc[c] = "waiting" /\ Underway(c)
      /\ UNCHANGED <<cacheVars, ledger, episodes, env, world>>
      /\ req' = req /\ before' = before /\ effect' = effect
  BY DEF LockBegin, Underway, localVars, worldVars
<1>2. ASSUME NEW p \in {"verify", "observe"}, Acquire(c, p) PROVE Shape(c)
  BY <1>1, <1>2, WalkShape DEF Acquire, InsideMaterialize
<1> QED BY <1>2 DEF LockBegin

(* Operations that record nothing. *)
LEMMA QueryShape ==
  ASSUME NEW c \in Calls, EvInv, Query(c) \/ Read(c) \/ ObserveFails(c) PROVE Shape(c)
<1>1. /\ pc[c] \in {"waiting", "read", "observe", "conflict"} /\ Underway(c)
      /\ UNCHANGED <<cacheVars, ledger, episodes, env, world>>
      /\ req' = req /\ before' = before /\ effect' = effect
  BY DEF Query, Read, ObserveFails, Underway, localVars, worldVars
<1>2. Raise(c) \/ (Return(c, None) /\ pc[c] \in {"waiting", "read"})
  BY DEF Query, Read, ObserveFails
<1> QED BY <1>1, <1>2, QuitShape DEF Raise, Return

(* act(): the key is cached for another intent. *)
LEMMA ActConflictShape ==
  ASSUME NEW c \in Calls, EvInv, ActConflict(c) PROVE Shape(c)
<1>1. /\ pc[c] = "conflict" /\ Underway(c) /\ pc[c] \notin InsideMaterialize
      /\ req' = req /\ before' = before /\ effect' = effect /\ world' = world
      /\ env' = env /\ episodes' = episodes
  BY DEF ActConflict, Underway, localVars, worldVars, InsideMaterialize
<1>2. TypeOK /\ req[c].op = "ACT" /\ req[c].ep \in Calls /\ WorldOfRecord(c)
  BY <1>1, UnderwayFacts DEF PhaseMatchesRequest, WorldOfRecord
<1>3. "REFUSED" \in Standings /\ "IDEMPOTENCY_KEY_CONFLICT" \in ReceiptReasons
  BY DEF Standings, ReceiptReasons
<1>4. PICK d \in Observations(req[c].ep) :
         ActuationResult(c, Unmoved(ActReceipt(c, "REFUSED", "IDEMPOTENCY_KEY_CONFLICT", d)), FALSE)
  BY DEF ActConflict
<1> DEFINE r == Unmoved(ActReceipt(c, "REFUSED", "IDEMPOTENCY_KEY_CONFLICT", d))
<1>5. d \in Digest
  BY <1>2, ObservationTypes
<1>6. r \in LedgerReceipt /\ Says(c, r)
  BY <1>1, <1>2, <1>3, <1>5, ActSays
<1>7. Record(c, r) /\ UNCHANGED cacheVars
  BY <1>4 DEF ActuationResult, cacheVars
<1> HIDE DEF r
<1> QED BY <1>1, <1>2, <1>6, <1>7, RecordShape

(* act(): the first observation and the input gates. *)
LEMMA ActObserveShape ==
  ASSUME NEW c \in Calls, EvInv, ActObserve(c) PROVE Shape(c)
<1> DEFINE gate == GateOf[req[c].intent]
           standing == IF gate = "UNKNOWN_CAPABILITY" THEN "UNSUPPORTED" ELSE "REFUSED"
<1>1. /\ pc[c] = "observe" /\ req[c].op = "ACT" /\ Underway(c) /\ pc[c] \notin InsideMaterialize
      /\ req' = req /\ effect' = effect /\ world' = world /\ env' = env /\ episodes' = episodes
  BY DEF ActObserve, Underway, worldVars, InsideMaterialize
<1>2. TypeOK /\ req[c].ep \in Calls /\ req[c].intent \in Intents
  BY <1>1, UnderwayFacts
<1>3. PICK d \in Observations(req[c].ep) \ {None} :
         \/ /\ before' = [before EXCEPT ![c] = d]
            /\ Goto(c, "authorize") /\ UNCHANGED <<lock, mlock, cacheVars, ledger>>
         \/ /\ ActuationResult(c, Unmoved(ActReceipt(c, standing, gate, d)), TRUE)
            /\ UNCHANGED before
  BY DEF ActObserve
<1>4. d \in Digest /\ d = world[req[c].ep]
  BY <1>2, ObservationTypes, ObservedIsWorld
<1>5. CASE /\ before' = [before EXCEPT ![c] = d]
           /\ Goto(c, "authorize") /\ UNCHANGED <<lock, mlock, cacheVars, ledger>>
  <2>1. before'[c] = d /\ \A x \in Calls : x # c => before'[x] = before[x]
    BY <1>2, <1>5 DEF TypeOK
  <2> QED BY <1>1, <1>4, <1>5, <2>1, WalkShape DEF InsideMaterialize
<1>6. CASE /\ ActuationResult(c, Unmoved(ActReceipt(c, standing, gate, d)), TRUE)
           /\ UNCHANGED before
  <2>1. standing \in {"REFUSED", "UNSUPPORTED"} /\ standing \in Standings /\ gate \in ReceiptReasons
    BY <1>2, KernelAssumption DEF Standings, ReceiptReasons
  <2> HIDE DEF standing, gate
  <2> DEFINE r == Unmoved(ActReceipt(c, standing, gate, d))
  <2>2. r \in LedgerReceipt /\ Says(c, r)
    BY <1>1, <1>4, <2>1, ActSays
  <2>3. ActuationResult(c, r, TRUE)
    BY <1>6
  <2> HIDE DEF r
  <2> QED BY <1>1, <1>6, <2>2, <2>3, ActRecordShape
<1> QED BY <1>3, <1>5, <1>6

(* ProductionGymAct.act(): the receipted refusal. *)
LEMMA RawActObserveShape ==
  ASSUME NEW c \in Calls, EvInv, RawActObserve(c) PROVE Shape(c)
<1>1. /\ pc[c] = "observe" /\ req[c].op = "RAW" /\ Underway(c) /\ pc[c] \notin InsideMaterialize
      /\ req' = req /\ before' = before /\ effect' = effect /\ world' = world
      /\ env' = env /\ episodes' = episodes /\ UNCHANGED cacheVars
  BY DEF RawActObserve, Underway, localVars, worldVars, InsideMaterialize
<1>2. TypeOK /\ req[c].ep \in Calls /\ WorldOfRecord(c)
  BY <1>1, UnderwayFacts DEF WorldOfRecord
<1>3. PICK d \in Observations(req[c].ep) :
         Record(c, Unmoved(ActReceipt(c, "REFUSED", "BRCE_EXECUTION_GRANT_REQUIRED", d)))
  BY DEF RawActObserve
<1> DEFINE r == Unmoved(ActReceipt(c, "REFUSED", "BRCE_EXECUTION_GRANT_REQUIRED", d))
<1>4. d \in Digest /\ "REFUSED" \in Standings /\ "BRCE_EXECUTION_GRANT_REQUIRED" \in ReceiptReasons
  BY <1>2, ObservationTypes DEF Standings, ReceiptReasons
<1>5. r \in LedgerReceipt /\ Says(c, r)
  BY <1>1, <1>4, ActSays
<1>6. Record(c, r)
  BY <1>3
<1> HIDE DEF r
<1> QED BY <1>1, <1>2, <1>5, <1>6, RecordShape

(* restore(): the first observation and the checkpoint limit. *)
LEMMA RestoreObserveShape ==
  ASSUME NEW c \in Calls, EvInv, RestoreObserve(c) PROVE Shape(c)
<1>1. /\ pc[c] = "observe" /\ req[c].op = "RESTORE" /\ Underway(c)
      /\ pc[c] \notin InsideMaterialize
      /\ req' = req /\ effect' = effect /\ world' = world
      /\ env' = env /\ episodes' = episodes /\ UNCHANGED cacheVars
  BY DEF RestoreObserve, Underway, worldVars, InsideMaterialize
<1>2. TypeOK /\ req[c].ep \in Calls /\ WorldOfRecord(c)
  BY <1>1, UnderwayFacts DEF WorldOfRecord
<1>3. PICK d \in Observations(req[c].ep) \ {None} :
         \/ /\ before' = [before EXCEPT ![c] = d]
            /\ Goto(c, "authorize") /\ UNCHANGED <<lock, mlock, ledger>>
         \/ /\ Record(c, Unmoved(RestoreReceipt(c, "REFUSED", "CHECKPOINT_LIMIT_EXCEEDED", d)))
            /\ UNCHANGED before
  BY DEF RestoreObserve
<1>4. d \in Digest /\ d = world[req[c].ep]
  BY <1>2, ObservationTypes, ObservedIsWorld
<1>5. CASE /\ before' = [before EXCEPT ![c] = d]
           /\ Goto(c, "authorize") /\ UNCHANGED <<lock, mlock, ledger>>
  <2>1. before'[c] = d /\ \A x \in Calls : x # c => before'[x] = before[x]
    BY <1>2, <1>5 DEF TypeOK
  <2> QED BY <1>1, <1>4, <1>5, <2>1, WalkShape DEF InsideMaterialize
<1>6. CASE /\ Record(c, Unmoved(RestoreReceipt(c, "REFUSED", "CHECKPOINT_LIMIT_EXCEEDED", d)))
           /\ UNCHANGED before
  <2> DEFINE r == Unmoved(RestoreReceipt(c, "REFUSED", "CHECKPOINT_LIMIT_EXCEEDED", d))
  <2>1. "REFUSED" \in Standings /\ "CHECKPOINT_LIMIT_EXCEEDED" \in ReceiptReasons
    BY DEF Standings, ReceiptReasons
  <2>2. r \in LedgerReceipt /\ Says(c, r)
    BY <1>1, <1>4, <2>1, EpisodeSays
  <2>3. Record(c, r)
    BY <1>6
  <2> HIDE DEF r
  <2> QED BY <1>1, <1>2, <1>6, <2>2, <2>3, RecordShape
<1> QED BY <1>3, <1>5, <1>6

(* teardown(): the first observation. *)
LEMMA TeardownObserveShape ==
  ASSUME NEW c \in Calls, EvInv, TeardownObserve(c) PROVE Shape(c)
<1>1. /\ pc[c] = "observe" /\ req[c].op = "TEARDOWN" /\ Underway(c)
      /\ req' = req /\ effect' = effect /\ UNCHANGED <<cacheVars, ledger, episodes, env, world>>
      /\ Goto(c, "authorize") /\ mlock' = mlock
  BY DEF TeardownObserve, Underway, worldVars
<1>2. TypeOK /\ req[c].ep \in Calls
  BY <1>1, UnderwayFacts
<1>3. PICK d \in Observations(req[c].ep) \ {None} : before' = [before EXCEPT ![c] = d]
  BY DEF TeardownObserve
<1>4. d = world[req[c].ep]
  BY ObservedIsWorld
<1>5. before'[c] = d /\ \A x \in Calls : x # c => before'[x] = before[x]
  BY <1>2, <1>3 DEF TypeOK
<1> QED BY <1>1, <1>4, <1>5, WalkShape DEF InsideMaterialize

(* The authority decision of act(), restore() and teardown(). *)
LEMMA AuthorizeShape ==
  ASSUME NEW c \in Calls, EvInv, Authorize(c) PROVE Shape(c)
<1>1. /\ pc[c] = "authorize" /\ Underway(c) /\ pc[c] \notin InsideMaterialize
      /\ req' = req /\ before' = before /\ effect' = effect /\ world' = world
      /\ env' = env /\ episodes' = episodes
  BY DEF Authorize, Underway, localVars, worldVars, InsideMaterialize
<1>2. /\ TypeOK /\ before[c] \in Digest /\ WorldOfRecord(c)
      /\ req[c].op \in {"ACT", "RESTORE", "TEARDOWN"}
  BY <1>1, UnderwayFacts DEF PhaseMatchesRequest, TypeOK, WorldOfRecord
<1>3. ASSUME NEW p \in {"close", "effect"}, Goto(c, p), UNCHANGED <<lock, mlock, cacheVars, ledger>>
      PROVE  Shape(c)
  BY <1>1, <1>3, WalkShape DEF InsideMaterialize
<1>4. CASE Raise(c) /\ UNCHANGED <<cacheVars, ledger>>
  BY <1>1, <1>4, QuitShape DEF Raise
<1>5. ASSUME NEW s \in Standings, NEW v \in ReceiptReasons, s # "ALIVE", Refusal(c, s, v)
      PROVE  Shape(c)
  <2>1. CASE req[c].op = "ACT" /\ ActuationResult(c, ActReceipt(c, s, v, before[c]), TRUE)
    <3> DEFINE r == ActReceipt(c, s, v, before[c])
    <3>1. r \in LedgerReceipt /\ Says(c, r) /\ ActuationResult(c, r, TRUE)
      BY <1>1, <1>2, <1>5, <2>1, ActSays
    <3> HIDE DEF r
    <3> QED BY <1>1, <2>1, <3>1, ActRecordShape
  <2>2. CASE Record(c, RestoreReceipt(c, s, v, before[c])) /\ UNCHANGED cacheVars
    <3> DEFINE r == RestoreReceipt(c, s, v, before[c])
    <3>1. r \in LedgerReceipt /\ Says(c, r) /\ Record(c, r)
      BY <1>1, <1>2, <2>2, EpisodeSays
    <3> HIDE DEF r
    <3> QED BY <1>1, <1>2, <2>2, <3>1, RecordShape
  <2>3. CASE Record(c, TeardownReceipt(c, s, v, before[c])) /\ UNCHANGED cacheVars
    <3> DEFINE r == TeardownReceipt(c, s, v, before[c])
    <3>1. r \in LedgerReceipt /\ Says(c, r) /\ Record(c, r)
      BY <1>1, <1>2, <2>3, EpisodeSays
    <3> HIDE DEF r
    <3> QED BY <1>1, <1>2, <2>3, <3>1, RecordShape
  <2> QED BY <1>5, <2>1, <2>2, <2>3 DEF Refusal
<1>6. /\ "REFUSED" \in Standings /\ "BLOCKED" \in Standings
      /\ "AUTHORITY_TIMEOUT" \in ReceiptReasons /\ "AUTHORITY_DENIED" \in ReceiptReasons
  BY DEF Standings, ReceiptReasons
<1> QED BY <1>3, <1>4, <1>5, <1>6 DEF Authorize

(* The environment is reached, with any of its outcomes. *)
LEMMA EffectShape ==
  ASSUME NEW c \in Calls, EvInv, Effect(c) PROVE Shape(c)
<1>1. /\ pc[c] = "effect" /\ Underway(c) /\ req' = req /\ before' = before /\ env' = env
      /\ mlock' = mlock /\ Kept
  BY DEF Effect, Underway, cacheVars, Kept
<1>2. TypeOK
  BY <1>1, UnderwayFacts
<1>3. PICK o \in EffectOutcomes(req[c].ep) :
         /\ effect' = [effect EXCEPT ![c] = o[2]]
         /\ world' = IF o[2] = "applied" THEN [world EXCEPT ![req[c].ep] = Applied(c)] ELSE world
         /\ Goto(c, IF o[1] = "NONE" THEN "after" ELSE "rescue")
  BY DEF Effect
<1>4. /\ o[2] \in {"none", "applied", "pending"}
      /\ o[2] = "pending" => "late" \in Faults
      /\ o[1] = "NONE" => o[2] = "applied"
  BY DEF EffectOutcomes
<1>5. effect'[c] = o[2] /\ \A d \in Calls : d # c => effect'[d] = effect[d]
  BY <1>2, <1>3 DEF TypeOK
<1>6. /\ pc'[c] = IF o[1] = "NONE" THEN "after" ELSE "rescue"
      /\ outcome'[c] = outcome[c] /\ answer'[c] = answer[c] /\ Bookkeeping(c)
  BY <1>1, <1>2, <1>3, GotoExact
<1>7. Others(c)
  BY <1>1, <1>5, <1>6 DEF Bookkeeping, Others
<1>8. Acts(c)
  BY <1>1, <1>3, <1>4, <1>5, <1>6 DEF Acts
<1> QED BY <1>7, <1>8 DEF Shape

(* The end of an effect: the one step that receipts and caches it. *)
LEMMA SettleShape ==
  ASSUME NEW c \in Calls, NEW s \in Standings, NEW v \in ReceiptReasons, NEW d \in Digest,
         EvInv, pc[c] \in {"after", "rescue"}, Settle(c, s, v, d),
         s \notin {"REFUSED", "UNSUPPORTED"},
         s = "ALIVE" => pc[c] = "after" /\ d = world[req[c].ep],
         req' = req, before' = before, effect' = effect, world' = world, env' = env,
         episodes' = episodes
  PROVE  Shape(c)
<1>1. Underway(c) /\ pc[c] \notin InsideMaterialize /\ WorldOfRecord(c)
  BY DEF Underway, InsideMaterialize, WorldOfRecord
<1>2. req[c].op \in {"ACT", "RESTORE"}
  BY <1>1, UnderwayFacts DEF PhaseMatchesRequest
<1>3. CASE req[c].op = "ACT"
  <2> DEFINE r == ActReceipt(c, s, v, d)
  <2>1. r \in LedgerReceipt /\ Says(c, r) /\ ActuationResult(c, r, TRUE)
    BY <1>1, <1>3, ActSays DEF Settle
  <2> HIDE DEF r
  <2> QED BY <1>1, <1>3, <2>1, ActRecordShape
<1>4. CASE req[c].op = "RESTORE"
  <2> DEFINE r == RestoreReceipt(c, s, v, d)
  <2>1. r \in LedgerReceipt /\ Says(c, r) /\ Record(c, r) /\ UNCHANGED cacheVars
    BY <1>1, <1>4, EpisodeSays DEF Settle
  <2> HIDE DEF r
  <2> QED BY <1>1, <2>1, RecordShape
<1> QED BY <1>2, <1>3, <1>4

(* The observation after a normal return. *)
LEMMA AfterShape ==
  ASSUME NEW c \in Calls, EvInv, After(c) PROVE Shape(c)
<1>1. /\ pc[c] = "after" /\ Underway(c) /\ req' = req /\ before' = before /\ effect' = effect
      /\ world' = world /\ env' = env /\ episodes' = episodes
  BY DEF After, Underway, worldVars
<1>2. TypeOK /\ req[c].ep \in Calls
  BY <1>1, UnderwayFacts DEF PhaseMatchesRequest
<1>3. PICK d \in Observations(req[c].ep) :
         \/ Goto(c, "rescue") /\ UNCHANGED <<lock, mlock, cacheVars, ledger>>
         \/ d # None /\ Settle(c, "ALIVE", "NONE", d)
  BY DEF After
<1>4. CASE Goto(c, "rescue") /\ UNCHANGED <<lock, mlock, cacheVars, ledger>>
  BY <1>1, <1>4, WalkShape DEF InsideMaterialize
<1>5. CASE d # None /\ Settle(c, "ALIVE", "NONE", d)
  <2>1. d \in Digest /\ d = world[req[c].ep] /\ "ALIVE" \in Standings /\ "NONE" \in ReceiptReasons
    BY <1>2, <1>5, ObservationTypes, ObservedIsWorld DEF Standings, ReceiptReasons, Reasons
  <2> QED BY <1>1, <1>5, <2>1, SettleShape
<1> QED BY <1>3, <1>4, <1>5

(* The except branch of act() and restore(). *)
LEMMA RescueShape ==
  ASSUME NEW c \in Calls, EvInv, Rescue(c) PROVE Shape(c)
<1>1. /\ pc[c] = "rescue" /\ Underway(c) /\ req' = req /\ before' = before /\ effect' = effect
      /\ world' = world /\ env' = env /\ episodes' = episodes
  BY DEF Rescue, Underway, localVars, worldVars
<1>2. TypeOK /\ req[c].ep \in Calls
  BY <1>1, UnderwayFacts DEF PhaseMatchesRequest
<1>3. PICK d \in Observations(req[c].ep) :
         Settle(c, "BLOCKED", exc[c], IF d = None THEN before[c] ELSE d)
  BY DEF Rescue
<1>4. /\ (IF d = None THEN before[c] ELSE d) \in Digest
      /\ "BLOCKED" \in Standings /\ exc[c] \in ReceiptReasons
  BY <1>2, ObservationTypes DEF Standings, ReceiptReasons, TypeOK
<1> QED BY <1>1, <1>3, <1>4, SettleShape

(* The end of teardown(), good or bad. *)
LEMMA CloseShape ==
  ASSUME NEW c \in Calls, EvInv, Close(c) PROVE Shape(c)
<1>1. /\ pc[c] = "close" /\ Underway(c) /\ pc[c] \notin InsideMaterialize
      /\ req' = req /\ before' = before /\ effect' = effect /\ world' = world
      /\ actCache' = actCache /\ matCache' = matCache
  BY DEF Close, Underway, localVars, InsideMaterialize
<1>2. /\ TypeOK /\ ~Receipted(c) /\ req[c] \in Request /\ req[c].op = "TEARDOWN"
  BY <1>1, UnderwayFacts DEF PhaseMatchesRequest
<1>3. req[c].key = None
  BY <1>2 DEF Request
<1>4. /\ "ALIVE" \in Standings /\ "BLOCKED" \in Standings /\ None \in Digest
      /\ "NONE" \in ReceiptReasons /\ "PROVIDER_ERROR" \in ReceiptReasons
  BY DEF Standings, ReceiptReasons, Reasons, Digest
<1>5. CASE CloseSucceeds(c)
  <2> DEFINE r == TeardownReceipt(c, "ALIVE", "NONE", None)
  <2>1. r \in LedgerReceipt /\ Says(c, r) /\ r.op = "TEARDOWN" /\ r.key = None
    BY <1>1, <1>2, <1>3, <1>4, EpisodeSays
  <2>2. ledger' = Appended(ledger, r)
    BY <1>5 DEF CloseSucceeds
  <2> HIDE DEF r
  <2>3. ledger' = Append(ledger, r)
    <3>1. r.id = c
      BY <2>1 DEF Says
    <3> QED BY <1>2, <2>1, <2>2, <3>1 DEF Appended, AppendRaises, KeyReuse, Receipted
  <2>4. End(c, "returned", c) \/ End(c, "raised", None)
    BY <1>5 DEF CloseSucceeds, Return, Raise
  <2>5. /\ pc'[c] = "done" /\ Bookkeeping(c)
        /\ \/ outcome'[c] = "returned" /\ answer'[c] = c
           \/ outcome'[c] = "raised" /\ answer'[c] = None
    BY <1>2, <2>4, EndExact
  <2>6. /\ env' = [env EXCEPT ![req[c].ep] = "closed"]
        /\ torndown' = [torndown EXCEPT ![req[c].ep] = c]
        /\ episodes' = episodes \ {req[c].ep}
    BY <1>5 DEF CloseSucceeds
  <2>7. Closes(c)
    BY <1>1, <2>1, <2>3, <2>5, <2>6 DEF Closes
  <2>8. Others(c)
    BY <1>1, <2>5, LocalsStay
  <2> QED BY <2>7, <2>8 DEF Shape
<1>6. CASE CloseFails(c)
  <2> DEFINE r == TeardownReceipt(c, "BLOCKED", "PROVIDER_ERROR", None)
  <2>1. r \in LedgerReceipt /\ Says(c, r)
    BY <1>1, <1>2, <1>4, EpisodeSays
  <2>2. Record(c, r) /\ UNCHANGED cacheVars /\ WorldOfRecord(c)
    BY <1>1, <1>6 DEF CloseFails, cacheVars, WorldOfRecord
  <2> HIDE DEF r
  <2> QED BY <1>1, <2>1, <2>2, RecordShape
<1> QED BY <1>5, <1>6 DEF Close

(* verify(): the provider's report. *)
LEMMA VerifyReportShape ==
  ASSUME NEW c \in Calls, EvInv, VerifyReport(c) PROVE Shape(c)
<1>1. /\ pc[c] = "verify" /\ Underway(c) /\ req' = req /\ effect' = effect
      /\ UNCHANGED <<cacheVars, ledger, episodes, env, world>>
  BY DEF VerifyReport, Underway, worldVars
<1>2. TypeOK
  BY <1>1, UnderwayFacts
<1>3. PICK d \in Observations(req[c].ep) :
         \/ Raise(c) /\ UNCHANGED before
         \/ /\ d # None /\ before' = [before EXCEPT ![c] = d]
            /\ Goto(c, "judge") /\ UNCHANGED <<lock, mlock>>
  BY DEF VerifyReport
<1>4. CASE Raise(c) /\ UNCHANGED before
  BY <1>1, <1>4, QuitShape DEF Raise
<1>5. CASE /\ d # None /\ before' = [before EXCEPT ![c] = d]
           /\ Goto(c, "judge") /\ UNCHANGED <<lock, mlock>>
  <2>1. before'[c] = world[req[c].ep] /\ \A x \in Calls : x # c => before'[x] = before[x]
    BY <1>2, <1>5, ObservedIsWorld DEF TypeOK
  <2> QED BY <1>1, <1>5, <2>1, WalkShape DEF InsideMaterialize
<1> QED BY <1>3, <1>4, <1>5

(* verify(): the kernel's own judgment. *)
LEMMA JudgeShape ==
  ASSUME NEW c \in Calls, EvInv, Judge(c) PROVE Shape(c)
<1>1. /\ pc[c] = "judge" /\ Underway(c) /\ pc[c] \notin InsideMaterialize
      /\ req' = req /\ before' = before /\ effect' = effect
      /\ UNCHANGED <<cacheVars, episodes, env, world>>
  BY DEF Judge, Underway, localVars, worldVars, InsideMaterialize
<1>2. /\ TypeOK /\ req[c] \in Request /\ req[c].op = "VERIFY" /\ before[c] \in Digest
      /\ pc[req[c].ep] = "done" /\ WorldOfRecord(c)
  BY <1>1, UnderwayFacts DEF PhaseMatchesRequest, TypeOK, WorldOfRecord
<1>3. CASE Raise(c) /\ UNCHANGED ledger
  BY <1>1, <1>3, QuitShape DEF Raise
<1>4. ASSUME NEW d \in Observations(req[c].ep), d # None, NEW s \in {"ALIVE", "UNCERTAIN"},
             s = "ALIVE" => d = req[c].val,
             Record(c, Receipt(c, "VERIFY", req[c].ep, None, s, "NONE", None, before[c]))
      PROVE  Shape(c)
  <2> DEFINE r == Receipt(c, "VERIFY", req[c].ep, None, s, "NONE", None, before[c])
  <2>1. s \in Standings /\ "NONE" \in ReceiptReasons /\ d = world[req[c].ep]
    BY <1>4, ObservedIsWorld DEF Standings, ReceiptReasons, Reasons
  <2>2. r \in LedgerReceipt /\ r.id = c
    BY <1>2, <2>1, EpisodeReceiptTypes
  <2>3. /\ r.key = req[c].key /\ r.ep = req[c].ep /\ r.op = "VERIFY" /\ r.standing = s
        /\ r.post = before[c]
    BY DEF Receipt
  <2>4. Record(c, r)
    BY <1>4
  <2> HIDE DEF r
  <2>5. Says(c, r)
    BY <1>1, <1>2, <1>4, <2>1, <2>2, <2>3 DEF Says
  <2> QED BY <1>1, <1>2, <2>2, <2>4, <2>5, RecordShape
<1> QED BY <1>3, <1>4 DEF Judge

(* A timed-out effect lands after its call has ended. *)
LEMMA LateEffectShape ==
  ASSUME NEW c \in Calls, EvInv, LateEffect(c) PROVE Shape(c)
<1>1. /\ TypeOK /\ effect[c] = "pending" /\ effect' = [effect EXCEPT ![c] = "late"]
      /\ world' = [world EXCEPT ![req[c].ep] = Applied(c)]
      /\ pc' = pc /\ outcome' = outcome /\ answer' = answer /\ mlock' = mlock
      /\ req' = req /\ before' = before /\ env' = env /\ Kept
  BY DEF EvInv, Inv, LateEffect, callVars, localVars, cacheVars, Kept
<1>2. effect'[c] = "late" /\ \A d \in Calls : d # c => effect'[d] = effect[d]
  BY <1>1 DEF TypeOK
<1>3. Lands(c)
  BY <1>1, <1>2 DEF Lands
<1>4. Others(c)
  BY <1>1, <1>2 DEF Others
<1> QED BY <1>3, <1>4 DEF Shape

(* A cancelled call leaves neither receipt nor cache entry. *)
LEMMA CancelShape ==
  ASSUME NEW c \in Calls, EvInv, Cancel(c) PROVE Shape(c)
<1>1. /\ "cancel" \in Faults /\ Underway(c) /\ End(c, "raised", None)
      /\ req' = req /\ before' = before /\ env' = env /\ world' = world /\ Kept
  BY DEF Cancel, Raise, Underway, localVars, cacheVars, Kept
<1>2. TypeOK
  BY <1>1, UnderwayFacts
<1>3. \/ effect' = effect
      \/ pc[c] = "effect" /\ "late" \in Faults /\ effect' = [effect EXCEPT ![c] = "pending"]
  BY DEF Cancel
<1>4. /\ \A d \in Calls : d # c => effect'[d] = effect[d]
      /\ \/ effect'[c] = effect[c]
         \/ pc[c] = "effect" /\ "late" \in Faults /\ effect'[c] = "pending"
  BY <1>2, <1>3 DEF TypeOK
<1>5. pc'[c] = "done" /\ outcome'[c] = "raised" /\ answer'[c] = None /\ Bookkeeping(c)
  BY <1>1, <1>2, EndExact
<1>6. Quits(c)
  BY <1>1, <1>4, <1>5 DEF Quits
<1>7. Others(c)
  BY <1>1, <1>4, <1>5 DEF Bookkeeping, Others
<1> QED BY <1>6, <1>7 DEF Shape

(* Everything a call does has one of the shapes: one lemma per action. *)
LEMMA StepHasShape ==
  ASSUME NEW c \in Calls, EvInv, Call(c) \/ Step(c) \/ LateEffect(c) \/ Cancel(c)
  PROVE  Shape(c)
<1>1. CASE Call(c) \/ LateEffect(c) \/ Cancel(c)
  BY <1>1, CallShape, LateEffectShape, CancelShape
<1>2. CASE MaterializeStep(c)
  BY <1>2, MaterializeBeginShape, MaterializeAuthorizeShape, MaterializeCreateShape,
     MaterializeAdmitShape, MaterializeAbortShape DEF MaterializeStep
<1>3. CASE ActBegin(c) \/ LockBegin(c) \/ Query(c) \/ Read(c) \/ ObserveFails(c)
  BY <1>3, ActBeginShape, LockBeginShape, QueryShape
<1>4. CASE ActConflict(c) \/ ActObserve(c) \/ RawActObserve(c)
  BY <1>4, ActConflictShape, ActObserveShape, RawActObserveShape
<1>5. CASE RestoreObserve(c) \/ TeardownObserve(c) \/ Authorize(c)
  BY <1>5, RestoreObserveShape, TeardownObserveShape, AuthorizeShape
<1>6. CASE Effect(c) \/ After(c) \/ Rescue(c)
  BY <1>6, EffectShape, AfterShape, RescueShape
<1>7. CASE Close(c) \/ VerifyReport(c) \/ Judge(c)
  BY <1>7, CloseShape, VerifyReportShape, JudgeShape
<1> QED BY <1>1, <1>2, <1>3, <1>4, <1>5, <1>6, <1>7 DEF Step

-----------------------------------------------------------------------------
(* What every shape has in common *)

(* The ledger stays, or grows by a true receipt of c. *)
Grows(c, r) ==
  /\ Underway(c) /\ pc'[c] = "done" /\ Says(c, r) /\ ~KeyReuse(ledger, r)
  /\ ledger' = Append(ledger, r)

(* Only the last step of a call writes to the ledger. *)
LEMMA LedgerGrows ==
  ASSUME NEW c \in Calls, EvInv, Shape(c)
  PROVE  ledger' = ledger \/ \E r \in LedgerReceipt : Grows(c, r)
<1>1. CASE Records(c)
  BY <1>1 DEF Records, Writes, Grows
<1>2. CASE Closes(c)
  BY <1>2 DEF Closes, Grows, KeyReuse, Underway
<1>3. CASE Arrives(c) \/ Walks(c) \/ Creates(c) \/ Acts(c) \/ Quits(c) \/ Lands(c)
  BY <1>3 DEF Arrives, Walks, Creates, Acts, Quits, Lands, Kept
<1> QED BY <1>1, <1>2, <1>3 DEF Shape

(* Receipts stay where they are, and so do the episodes they make known;   *)
(* only an admission makes a new one known, its own.                       *)
LEMMA Growth ==
  ASSUME NEW c \in Calls, EvInv, Shape(c)
  PROVE  /\ Len(ledger') >= Len(ledger) /\ DOMAIN ledger \subseteq DOMAIN ledger'
         /\ \A i \in DOMAIN ledger : ledger'[i] = ledger[i]
         /\ \A x : Receipted(x) => Receipted(x)'
         /\ KnownEpisodes \subseteq KnownEpisodes'
         /\ \A e \in KnownEpisodes' : e \notin KnownEpisodes =>
              e = c /\ pc[c] = "m_admit" /\ c \in episodes' /\ env[c] # "none"
<1>1. ledger \in Seq(LedgerReceipt)
  BY DEF EvInv, Inv, TypeOK
<1>2. CASE ledger' = ledger
  <2>1. KnownEpisodes' = KnownEpisodes /\ \A x : Receipted(x)' <=> Receipted(x)
    BY <1>2 DEF KnownEpisodes, Receipted
  <2> QED BY <1>1, <1>2, <2>1
<1>3. ASSUME NEW r \in LedgerReceipt, Grows(c, r)
      PROVE  /\ Len(ledger') >= Len(ledger) /\ DOMAIN ledger \subseteq DOMAIN ledger'
             /\ \A i \in DOMAIN ledger : ledger'[i] = ledger[i]
             /\ \A i \in DOMAIN ledger' : i \in DOMAIN ledger \/ ledger'[i] = r
  BY <1>1, <1>3 DEF Grows
<1>4. ASSUME NEW r \in LedgerReceipt, Grows(c, r)
      PROVE  /\ \A x : Receipted(x) => Receipted(x)'
             /\ KnownEpisodes \subseteq KnownEpisodes'
             /\ \A e \in KnownEpisodes' : e \notin KnownEpisodes =>
                  e = c /\ pc[c] = "m_admit" /\ c \in episodes' /\ env[c] # "none"
  <2>1. \A x : Receipted(x) => Receipted(x)'
    BY <1>3, <1>4 DEF Receipted, HoldsId
  <2>2. KnownEpisodes \subseteq KnownEpisodes'
    BY <1>3, <1>4 DEF KnownEpisodes
  <2>3. ASSUME NEW e \in KnownEpisodes', e \notin KnownEpisodes
        PROVE  e = c /\ pc[c] = "m_admit" /\ c \in episodes' /\ env[c] # "none"
    <3>1. PICK i \in DOMAIN ledger' : /\ ledger'[i].op = "MATERIALIZE"
                                      /\ ledger'[i].standing = "ALIVE" /\ ledger'[i].ep = e
      BY <2>3 DEF KnownEpisodes
    <3>2. i \notin DOMAIN ledger
      BY <1>3, <1>4, <2>3, <3>1 DEF KnownEpisodes
    <3>3. ledger'[i] = r
      BY <1>3, <1>4, <3>2
    <3> QED BY <1>4, <3>1, <3>3 DEF Grows, Says
  <2> QED BY <2>1, <2>2, <2>3
<1> QED BY <1>2, <1>3, <1>4, LedgerGrows

(* A call that has ended is over, but for an effect that is still to land. *)
LEMMA EndedStays ==
  ASSUME NEW c \in Calls, EvInv, Shape(c), NEW d \in Calls
  PROVE  /\ pc[d] = "done" =>
              /\ pc'[d] = "done" /\ outcome'[d] = outcome[d] /\ answer'[d] = answer[d]
              /\ effect'[d] = effect[d] \/ effect[d] = "pending"
         /\ pc[d] # "idle" => pc'[d] # "idle" /\ req'[d] = req[d]
         /\ effect[d] # "none" => effect'[d] # "none" /\ pc[d] # "idle"
<1>1. TypeOK /\ PhaseMatchesRequest(d)
  BY DEF EvInv, Inv, CallInv
<1>2. CASE d # c
  BY <1>1, <1>2 DEF Shape, Others, PhaseMatchesRequest, Touched
<1>3. CASE d = c
  BY <1>1, <1>3 DEF Shape, Arrives, Walks, Creates, Acts, Quits, Records, Closes, Lands, Underway,
     PhaseMatchesRequest, Touched
<1> QED BY <1>2, <1>3

(* A receipted call has ended, and its request stays what it was. *)
LEMMA ReceiptedStays ==
  ASSUME NEW c \in Calls, EvInv, Shape(c), NEW x \in Calls, Receipted(x)
  PROVE  Receipted(x)' /\ pc[x] = "done" /\ req'[x] = req[x]
<1>1. pc[x] = "done"
  BY DEF EvInv, Inv, CallInv, ReceiptEndsCall
<1> QED BY <1>1, Growth, EndedStays

(* A call that writes its receipt holds it afterwards. *)
LEMMA WriterIsReceipted ==
  ASSUME NEW c \in Calls, EvInv, NEW r \in LedgerReceipt, Says(c, r), ledger' = Append(ledger, r)
  PROVE  Receipted(c)'
<1>1. ledger \in Seq(LedgerReceipt) /\ r.id = c
  BY DEF EvInv, Inv, TypeOK, Says
<1>2. Len(ledger) + 1 \in DOMAIN ledger' /\ ledger'[Len(ledger) + 1] = r
  BY <1>1
<1> QED BY <1>1, <1>2 DEF Receipted, HoldsId

-----------------------------------------------------------------------------
(* The invariant against the shapes *)

(* Two requests that ask for the same are the same. *)
LEMMA SameRequest ==
  ASSUME NEW r \in Request, NEW s \in Request, NEW op \in {"ACT", "MATERIALIZE", "TEARDOWN"},
         NEW e, NEW k, NEW i, Asks(r, op, e, k, i), Asks(s, op, e, k, i)
  PROVE  r = s
<1>1. r.op = s.op /\ r.ep = s.ep /\ r.key = s.key /\ r.intent = s.intent
  BY DEF Asks
<1>2. r.val = None /\ s.val = None
  BY DEF Request, Asks
<1> QED BY <1>1, <1>2 DEF Request

(* A receipted call has made a request. *)
LEMMA ReceiptedRequest ==
  ASSUME EvInv, NEW x \in Calls, Receipted(x) PROVE req[x] \in Request
  BY DEF EvInv, Inv, CallInv, ReceiptEndsCall, PhaseMatchesRequest

(* Answers are given at the end, and are receipts for the same request. *)
LEMMA AnswersKept ==
  ASSUME NEW c \in Calls, EvInv, Inv', Shape(c), NEW d \in Calls
  PROVE  AnswersAtTheEnd(d)'
<1>1. TypeOK /\ TypeOK' /\ PhaseMatchesRequest(d) /\ AnswersAtTheEnd(d) /\ CachesAnswerReceipts
  BY DEF EvInv, Inv, CallInv, EvidenceInvariant
<1>2. answer[d] \in Calls \cup {None}
  BY <1>1 DEF TypeOK
<1>3. answer[d] # None => Receipted(answer[d])' /\ req'[answer[d]] = req'[d]
  BY <1>1, <1>2, ReceiptedStays, EndedStays DEF AnswersAtTheEnd
<1>4. Receipted(d) => Receipted(d)'
  BY Growth
<1>5. CASE d # c \/ Lands(c)
  <2>1. /\ pc'[d] = pc[d] /\ outcome'[d] = outcome[d] /\ answer'[d] = answer[d]
        /\ Touched(d)' => Touched(d)
    BY <1>5 DEF Shape, Others, Lands, Touched
  <2> QED BY <1>1, <1>3, <1>4, <2>1 DEF AnswersAtTheEnd
<1>6. CASE d = c /\ Arrives(c)
  <2>1. pc[c] = "idle" /\ ~Touched(c)' /\ answer[c] = None /\ outcome[c] = "none"
    BY <1>1, <1>6 DEF Arrives, AnswersAtTheEnd, PhaseMatchesRequest, Touched
  <2>2. CASE answer'[c] = None
    BY <1>6, <2>1, <2>2 DEF Arrives, AnswersAtTheEnd
  <2>3. CASE answer'[c] # None
    <3>1. PICK e \in KnownEpisodes :
             /\ pc'[c] = "done" /\ torndown[e] # None /\ answer'[c] = torndown[e]
             /\ Asks(req'[c], "TEARDOWN", e, None, None)
      BY <1>6, <2>1, <2>3 DEF Arrives
    <3>2. e \in Calls
      <4>1. \A i \in DOMAIN ledger : ledger[i] \in LedgerReceipt
        BY <1>1 DEF TypeOK
      <4> QED BY <4>1 DEF KnownEpisodes, LedgerReceipt
    <3>3. PICK x \in Calls : /\ x = torndown[e] /\ Receipted(x)
                             /\ Asks(req[x], "TEARDOWN", e, None, None)
      BY <1>1, <3>1, <3>2 DEF CachesAnswerReceipts, TypeOK
    <3>4. Receipted(x)' /\ req'[x] = req[x] /\ req[x] \in Request
      BY <3>3, ReceiptedStays, ReceiptedRequest
    <3>5. req'[c] = req[x]
      BY <1>6, <3>1, <3>3, <3>4, SameRequest DEF Arrives
    <3> QED BY <1>6, <2>1, <3>1, <3>3, <3>4, <3>5 DEF AnswersAtTheEnd
  <2> QED BY <2>2, <2>3
<1>7. CASE d = c /\ (Walks(c) \/ Creates(c) \/ Acts(c))
  <2>1. answer[c] = None /\ outcome[c] = "none"
    BY <1>1, <1>7 DEF Walks, Creates, Acts, Underway, AnswersAtTheEnd
  <2>2. answer'[c] = None /\ outcome'[c] = "none"
    BY <1>7, <2>1 DEF Walks, Creates, Acts
  <2> QED BY <1>7, <2>2 DEF AnswersAtTheEnd
<1>8. CASE d = c /\ Quits(c)
  <2>1. pc'[c] = "done" /\ req'[c] = req[c] /\ Underway(c)
    BY <1>8 DEF Quits
  <2>2. CASE outcome'[c] = "raised" /\ answer'[c] = None
    BY <1>8, <2>1, <2>2 DEF AnswersAtTheEnd
  <2>3. CASE outcome'[c] # "raised"
    <3>1. ~Touched(c)'
      BY <1>1, <1>8, <2>3 DEF Quits, PhaseMatchesRequest, Touched
    <3>2. /\ req[c] \in Request
          /\ req[c].op = "ACT" => req[c].ep \in Calls /\ req[c].key \in Keys
          /\ req[c].op = "MATERIALIZE" => req[c].key \in Keys
      BY <2>1, UnderwayFacts
    <3>3. CASE answer'[c] = None
      BY <1>8, <2>1, <3>1, <3>3 DEF AnswersAtTheEnd
    <3>4. ASSUME NEW x \in Calls, Receipted(x), req[x] = req[c], answer'[c] = x
          PROVE  AnswersAtTheEnd(c)'
      <4>1. Receipted(x)' /\ req'[x] = req[x]
        BY <3>4, ReceiptedStays
      <4> QED BY <2>1, <3>1, <3>4, <4>1 DEF AnswersAtTheEnd
    <3>5. CASE /\ req[c].op = "ACT" /\ actCache[req[c].ep][req[c].key] # None
               /\ actCache[req[c].ep][req[c].key].intent = req[c].intent
               /\ answer'[c] = actCache[req[c].ep][req[c].key].id
      <4> DEFINE x == actCache[req[c].ep][req[c].key].id
      <4>1. x \in Calls
        BY <1>1, <3>2, <3>5 DEF TypeOK, CacheEntry
      <4>2. /\ Receipted(x)
            /\ Asks(req[x], "ACT", req[c].ep, req[c].key, req[c].intent)
        BY <1>1, <3>2, <3>5 DEF CachesAnswerReceipts
      <4>3. Asks(req[c], "ACT", req[c].ep, req[c].key, req[c].intent)
        BY <3>2, <3>5 DEF Asks, Request
      <4> HIDE DEF x
      <4>4. req[x] = req[c]
        BY <3>2, <4>1, <4>2, <4>3, SameRequest, ReceiptedRequest
      <4> QED BY <1>8, <3>4, <3>5, <4>1, <4>2, <4>4 DEF x
    <3>6. CASE /\ req[c].op = "MATERIALIZE" /\ matCache[req[c].key] # None
               /\ matCache[req[c].key].intent = req[c].intent
               /\ answer'[c] = matCache[req[c].key].id
      <4> DEFINE x == matCache[req[c].key].id
      <4>1. x \in Calls
        BY <1>1, <3>2, <3>6 DEF TypeOK, CacheEntry
      <4>2. /\ Receipted(x)
            /\ Asks(req[x], "MATERIALIZE", None, req[c].key, req[c].intent)
        BY <1>1, <3>2, <3>6 DEF CachesAnswerReceipts
      <4>3. Asks(req[c], "MATERIALIZE", None, req[c].key, req[c].intent)
        BY <3>2, <3>6 DEF Asks, Request
      <4> HIDE DEF x
      <4>4. req[x] = req[c]
        BY <3>2, <4>1, <4>2, <4>3, SameRequest, ReceiptedRequest
      <4> QED BY <1>8, <3>4, <3>6, <4>1, <4>2, <4>4 DEF x
    <3> QED BY <1>8, <2>3, <3>3, <3>5, <3>6 DEF Quits
  <2> QED BY <1>8, <2>2, <2>3 DEF Quits
<1>9. CASE d = c /\ (Records(c) \/ Closes(c))
  <2>1. \/ outcome'[c] = "raised" /\ answer'[c] = None
        \/ answer'[c] = c /\ Receipted(c)'
    BY <1>9, WriterIsReceipted DEF Records, Writes, Closes
  <2>2. pc'[c] = "done"
    BY <1>9 DEF Records, Closes
  <2> QED BY <1>9, <2>1, <2>2 DEF AnswersAtTheEnd
<1> QED BY <1>5, <1>6, <1>7, <1>8, <1>9 DEF Shape

(* Requests for an episode are made once it is known, and it stays known. *)
LEMMA AddressesKept ==
  ASSUME NEW c \in Calls, EvInv, Inv', Shape(c), NEW d \in Calls
  PROVE  AddressesKnownEpisode(d)'
<1>1. AddressesKnownEpisode(d) /\ KnownEpisodes \subseteq KnownEpisodes'
  BY Growth DEF EvInv, EvidenceInvariant
<1>2. CASE pc[d] # "idle"
  BY <1>1, <1>2, EndedStays DEF AddressesKnownEpisode
<1>3. CASE pc[d] = "idle" /\ pc'[d] # "idle"
  <2>1. d = c
    BY <1>3 DEF Shape, Others
  <2>2. Arrives(c) \/ Lands(c)
    BY <1>3, <2>1 DEF Shape, Walks, Creates, Acts, Quits, Records, Closes, Underway
  <2>3. Arrives(c)
    BY <1>3, <2>1, <2>2 DEF Lands
  <2> QED BY <1>1, <2>1, <2>3 DEF Arrives, AddressesKnownEpisode
<1> QED BY <1>2, <1>3 DEF AddressesKnownEpisode

(* The provider registry of known episodes. *)
LEMMA KnownFacts ==
  ASSUME EvInv, NEW e \in KnownEpisodes
  PROVE  e \in Calls /\ pc[e] = "done" /\ env[e] # "none"
<1>1. \A i \in DOMAIN ledger : ledger[i] \in LedgerReceipt
  BY DEF EvInv, Inv, TypeOK
<1>2. e \in Calls
  BY <1>1 DEF KnownEpisodes, LedgerReceipt
<1> QED BY <1>2 DEF EvInv, EvidenceInvariant, LedgerIsTrue, CachesAnswerReceipts, KnownEpisodes

(* How a step changes the environments. *)
LEMMA EnvStep ==
  ASSUME NEW c \in Calls, EvInv, Shape(c), NEW e \in Calls
  PROVE  \/ env'[e] = env[e]
         \/ e = c /\ pc[c] = "m_create" /\ env'[e] = "open"
         \/ e = c /\ pc[c] = "m_abort" /\ env'[e] = "closed"
         \/ /\ pc[c] = "close" /\ e = req[c].ep /\ env'[e] = "closed"
            /\ pc[e] = "done" /\ env[e] # "none"
<1>1. TypeOK
  BY DEF EvInv, Inv
<1>2. pc[c] = "close" => pc[req[c].ep] = "done" /\ env[req[c].ep] # "none"
  BY UnderwayFacts, KnownFacts DEF PhaseMatchesRequest, Underway
<1>3. \/ env' = env
      \/ pc[c] = "m_create" /\ env' = [env EXCEPT ![c] = "open"]
      \/ pc[c] = "m_abort" /\ env' = [env EXCEPT ![c] = "closed"]
      \/ pc[c] = "close" /\ env' = [env EXCEPT ![req[c].ep] = "closed"]
  BY DEF Shape, Arrives, Walks, Creates, Acts, Quits, Records, Closes, Lands, WorldOfRecord
<1> QED BY <1>1, <1>2, <1>3 DEF TypeOK

(* How a step changes the materialization cache. *)
LEMMA MatCacheStep ==
  ASSUME NEW c \in Calls, EvInv, Shape(c), NEW k \in Keys
  PROVE  \/ matCache'[k] = matCache[k]
         \/ /\ matCache[k] = None /\ matCache'[k] = Entry(c) /\ k = req[c].key
            /\ req[c].op = "MATERIALIZE" /\ Underway(c) /\ mlock \in {c, None}
            /\ \E r \in LedgerReceipt : Grows(c, r) /\ r.ep = c
<1>1. TypeOK
  BY DEF EvInv, Inv
<1>2. CASE Records(c)
  <2>1. PICK r \in LedgerReceipt : Says(c, r) /\ Writes(c, r)
    BY <1>2 DEF Records
  <2>2. CASE matCache' = matCache
    BY <2>2
  <2>3. CASE matCache' # matCache
    <3>1. /\ Grows(c, r) /\ r.ep = c /\ mlock \in {c, None} /\ req[c].op = "MATERIALIZE"
          /\ matCache[req[c].key] = None
          /\ matCache' = [matCache EXCEPT ![req[c].key] = Entry(c)]
      BY <1>2, <2>1, <2>3 DEF Records, Writes, CachesItself, Grows
    <3>2. Underway(c)
      BY <3>1 DEF Grows
    <3> QED BY <1>1, <3>1, <3>2 DEF TypeOK
  <2> QED BY <2>2, <2>3
<1>3. CASE ~Records(c)
  BY <1>3 DEF Shape, Arrives, Walks, Creates, Acts, Quits, Closes, Lands, Kept
<1> QED BY <1>2, <1>3

(* materialize() is alone with its key until its receipt. *)
LEMMA MaterializesAloneKept ==
  ASSUME NEW c \in Calls, EvInv, Inv', Shape(c), NEW d \in Calls
  PROVE  MaterializesAlone(d)'
<1>1. TypeOK /\ MaterializesAlone(d) /\ MaterializesAlone(c) /\ PhaseMatchesRequest(d)
  BY DEF EvInv, Inv, CallInv, EvidenceInvariant
<1>2. ASSUME pc'[d] \in InsideMaterialize
      PROVE  mlock' = d /\ matCache'[req'[d].key] = None
  <2>1. CASE d # c \/ Lands(c)
    <3>1. pc[d] \in InsideMaterialize /\ req'[d] = req[d]
      BY <1>2, <2>1 DEF Shape, Others, Lands
    <3>2. mlock = d /\ matCache[req[d].key] = None /\ Underway(d)
      BY <1>1, <3>1 DEF MaterializesAlone, Underway, InsideMaterialize
    <3>3. mlock' = d
      BY <2>1, <3>2 DEF Shape, Others, Lands
    <3>4. req[d].key \in Keys
      BY <3>1, <3>2, UnderwayFacts DEF PhaseMatchesRequest, InsideMaterialize
    <3>5. matCache'[req[d].key] = None
      <4>1. CASE d # c
        BY <3>2, <3>4, <4>1, MatCacheStep, KernelAssumption
      <4>2. CASE Lands(c)
        BY <3>2, <4>2 DEF Lands, Kept
      <4> QED BY <2>1, <4>1, <4>2
    <3> QED BY <3>1, <3>3, <3>5
  <2>2. CASE d = c /\ Walks(c)
    BY <1>2, <2>2 DEF Walks, Kept
  <2>3. CASE d = c /\ Creates(c)
    BY <1>1, <2>3 DEF Creates, Kept, MaterializesAlone, InsideMaterialize
  <2>4. CASE d = c /\ ~Walks(c) /\ ~Creates(c) /\ ~Lands(c)
    BY <1>2, <2>4 DEF Shape, Arrives, Acts, Quits, Records, Closes, InsideMaterialize
  <2> QED BY <2>1, <2>2, <2>3, <2>4
<1>3. ASSUME env'[d] # "none"
      PROVE  req'[d].op = "MATERIALIZE" /\ pc'[d] \in {"m_admit", "m_abort", "done"}
  <2>1. CASE d = c /\ pc[c] = "m_create"
    <3>1. req'[d] = req[d] /\ req[d].op = "MATERIALIZE"
      BY <1>1, <2>1, EndedStays DEF PhaseMatchesRequest
    <3>2. Creates(c) \/ env'[c] = env[c] \/ Records(c)
      BY <2>1 DEF Shape, Arrives, Walks, Creates, Acts, Quits, Records, Closes, Lands, Underway
    <3> QED BY <1>1, <1>3, <2>1, <3>1, <3>2 DEF Creates, Records, MaterializesAlone
  <2>2. CASE ~(d = c /\ pc[c] = "m_create")
    <3>1. env[d] # "none" \/ (d = c /\ pc[c] = "m_abort")
      BY <1>3, <2>2, EnvStep
    <3>2. /\ req[d].op = "MATERIALIZE" /\ pc[d] \in {"m_admit", "m_abort", "done"}
          /\ req'[d] = req[d]
      BY <1>1, <3>1, EndedStays DEF MaterializesAlone, PhaseMatchesRequest
    <3>3. pc'[d] \in {"m_admit", "m_abort", "done"}
      BY <3>2
      DEF Shape, Others, Arrives, Walks, Creates, Acts, Quits, Records, Closes, Lands, Underway
    <3> QED BY <3>2, <3>3
  <2> QED BY <2>1, <2>2
<1> QED BY <1>2, <1>3 DEF MaterializesAlone

(* The key of a world stays cached, or stays barred. *)
LEMMA WorldIsCachedOrBarredKept ==
  ASSUME NEW c \in Calls, EvInv, Inv', Shape(c), NEW d \in Calls
  PROVE  WorldIsCachedOrBarred(d)'
<1> SUFFICES ASSUME "cancel" \notin Faults, env'[d] # "none", pc'[d] = "done"
             PROVE  \/ matCache'[req'[d].key] # None /\ matCache'[req'[d].key].id = d
                    \/ /\ matCache'[req'[d].key] = None /\ outcome'[d] # "returned"
                       /\ \E i \in DOMAIN ledger' : IsKeyOwner(ledger', i, req'[d].key)
  BY DEF WorldIsCachedOrBarred
<1>1. /\ TypeOK /\ MaterializesAlone(d) /\ PhaseMatchesRequest(d) /\ WorldIsCachedOrBarred(d)
      /\ LedgerIsTrue /\ ledger \in Seq(LedgerReceipt)
  BY DEF EvInv, Inv, CallInv, EvidenceInvariant, TypeOK
<1>2. CASE pc[d] = "done"
  <2>1. env[d] # "none"
    BY <1>2, EnvStep
  <2>2. req'[d] = req[d] /\ outcome'[d] = outcome[d] /\ req[d].op = "MATERIALIZE"
    BY <1>1, <1>2, <2>1, EndedStays DEF MaterializesAlone
  <2>3. req[d].key \in Keys
    BY <1>1, <1>2, <2>2, RequestFacts DEF PhaseMatchesRequest
  <2>4. CASE matCache[req[d].key] # None /\ matCache[req[d].key].id = d
    BY <2>2, <2>3, <2>4, MatCacheStep
  <2>5. ASSUME matCache[req[d].key] = None, outcome[d] # "returned",
               NEW i \in DOMAIN ledger, IsKeyOwner(ledger, i, req[d].key)
        PROVE  /\ matCache'[req[d].key] = None
               /\ \E j \in DOMAIN ledger' : IsKeyOwner(ledger', j, req[d].key)
    <3>1. pc[ledger[i].ep] = "done" /\ req[d].key # None
      BY <1>1, <2>3, KernelAssumption DEF LedgerIsTrue
    <3>2. matCache'[req[d].key] = None
      <4> SUFFICES ASSUME NEW r \in LedgerReceipt, Grows(c, r), r.ep = c, r.key = req[d].key
                   PROVE  FALSE
        BY <2>3, <2>5, MatCacheStep DEF Grows, Says
      <4>1. ~SameIntent(ledger[i], r)
        BY <3>1 DEF SameIntent, Grows, Underway
      <4> QED BY <2>5, <3>1, <4>1 DEF Grows, KeyReuse
    <3>3. IsKeyOwner(ledger', i, req[d].key)
      <4>1. CASE ledger' = ledger
        BY <2>5, <4>1
      <4>2. ASSUME NEW r \in LedgerReceipt, Grows(c, r) PROVE IsKeyOwner(ledger', i, req[d].key)
        <5>1. ledger' = Append(ledger, r) /\ i \in 1..Len(ledger)
          BY <1>1, <4>2 DEF Grows
        <5> QED BY <1>1, <2>5, <5>1 DEF IsKeyOwner
      <4> QED BY <4>1, <4>2, LedgerGrows
    <3>4. i \in DOMAIN ledger'
      BY Growth
    <3> QED BY <3>2, <3>3, <3>4
  <2> QED BY <1>1, <1>2, <2>1, <2>2, <2>4, <2>5 DEF WorldIsCachedOrBarred
<1>3. CASE pc[d] # "done"
  <2>1. d = c
    BY <1>3 DEF Shape, Others
  <2>2. CASE Arrives(c) \/ Walks(c) \/ Creates(c) \/ Acts(c) \/ Lands(c) \/ Closes(c)
    BY <1>1, <1>3, <2>1, <2>2, EnvStep
    DEF Arrives, Walks, Creates, Acts, Lands, Closes, MaterializesAlone
  <2>3. CASE Quits(c)
    BY <1>1, <1>3, <2>1, <2>3 DEF Quits, MaterializesAlone
  <2>4. CASE Records(c)
    <3>1. Underway(c) /\ req'[c] = req[c]
      BY <2>4 DEF Records
    <3>2. pc[c] \in InsideMaterialize
      BY <1>1, <1>3, <2>1, EnvStep DEF MaterializesAlone, InsideMaterialize
    <3>3. matCache[req[c].key] = None /\ req[c].key \in Keys /\ c # None
      BY <3>1, <3>2, UnderwayFacts, KernelAssumption DEF PhaseMatchesRequest, InsideMaterialize
    <3>4. PICK r \in LedgerReceipt : Says(c, r) /\ Writes(c, r)
      BY <2>4 DEF Records
    <3>5. CASE KeyReuse(ledger, r)
      BY <2>1, <3>1, <3>3, <3>4, <3>5 DEF Writes, KeyReuse, Says
    <3>6. CASE ~KeyReuse(ledger, r)
      <4>1. matCache' = [matCache EXCEPT ![req[c].key] = Entry(c)]
        BY <3>2, <3>4, <3>6 DEF Writes, CachesItself
      <4>2. Entry(c) # None /\ Entry(c).id = c
        <5>1. req[c].intent \in Intents
          BY <3>1, <3>2, UnderwayFacts DEF PhaseMatchesRequest, InsideMaterialize
        <5> QED BY <5>1, KernelAssumption DEF Entry
      <4>3. matCache'[req[c].key] = Entry(c)
        BY <1>1, <3>3, <4>1 DEF TypeOK
      <4> QED BY <2>1, <3>1, <4>2, <4>3
    <3> QED BY <3>5, <3>6
  <2> QED BY <2>2, <2>3, <2>4 DEF Shape
<1> QED BY <1>2, <1>3

(* Nothing but its own effect moves the world of a call inside the lock. *)
LEMMA WorldIsBracketedKept ==
  ASSUME NEW c \in Calls, EvInv, Inv', Shape(c), NEW d \in Calls
  PROVE  WorldIsBracketed(d)'
<1> SUFFICES ASSUME "late" \notin Faults
             PROVE  /\ effect'[d] \in {"none", "applied"}
                    /\ pc'[d] \in {"authorize", "effect", "judge"} => before'[d] = world'[req'[d].ep]
                    /\ pc'[d] = "after" /\ req'[d].op = "ACT" =>
                         effect'[d] = "applied" /\ world'[req'[d].ep] = before'[d] + 1
  BY DEF WorldIsBracketed
<1>1. /\ TypeOK /\ TypeOK' /\ WorldIsBracketed(d) /\ WorldIsBracketed(c)
      /\ HoldsItsLock(d) /\ HoldsItsLock(c)
  BY DEF EvInv, Inv, CallInv, EvidenceInvariant
<1>2. ~Lands(c)
  BY <1>1 DEF Lands, WorldIsBracketed
<1>3. effect'[d] \in {"none", "applied"}
  <2>1. effect'[d] \in {"none", "applied", "pending", "late"}
    BY <1>1 DEF TypeOK
  <2> QED BY <1>1, <1>2, <2>1
    DEF Shape, Others, Arrives, Walks, Creates, Acts, Quits, Records, Closes, WorldIsBracketed
<1>4. CASE d # c
  <2>1. pc'[d] = pc[d] /\ before'[d] = before[d] /\ req'[d] = req[d] /\ effect'[d] = effect[d]
    BY <1>4 DEF Shape, Others
  <2>2. ASSUME pc[d] \in {"authorize", "effect", "judge", "after"}
        PROVE  world'[req[d].ep] = world[req[d].ep]
    <3>1. CASE Acts(c)
      <4>1. pc[c] \in InsideTheLock /\ pc[d] \in InsideTheLock
        BY <2>2, <3>1 DEF Acts, InsideTheLock
      <4>2. req[c].ep # req[d].ep
        BY <1>1, <1>4, <4>1 DEF HoldsItsLock
      <4> QED BY <1>1, <3>1, <4>2 DEF Acts, TypeOK
    <3>2. CASE ~Acts(c)
      BY <1>2, <3>2 DEF Shape, Arrives, Walks, Creates, Quits, Records, Closes
    <3> QED BY <3>1, <3>2
  <2> QED BY <1>1, <1>3, <2>1, <2>2 DEF WorldIsBracketed
<1>5. CASE d = c /\ Acts(c)
  <2>1. pc[c] = "effect" /\ req'[c] = req[c] /\ before'[c] = before[c] /\ Underway(c)
    BY <1>5 DEF Acts, Underway
  <2>2. before[c] = world[req[c].ep] /\ req[c].ep \in Calls
    BY <1>1, <2>1, UnderwayFacts DEF WorldIsBracketed, PhaseMatchesRequest
  <2>3. pc'[c] = "after" => effect'[c] = "applied" /\ world'[req[c].ep] = Applied(c)
    BY <1>1, <1>5, <2>2 DEF Acts, TypeOK
  <2> QED BY <1>3, <1>5, <2>1, <2>2, <2>3 DEF Acts, Applied
<1>6. CASE d = c /\ Walks(c)
  BY <1>1, <1>3, <1>6 DEF Walks, WorldIsBracketed
<1>7. CASE d = c /\ ~Acts(c) /\ ~Walks(c)
  BY <1>2, <1>3, <1>7 DEF Shape, Arrives, Creates, Quits, Records, Closes
<1> QED BY <1>4, <1>5, <1>6, <1>7

(* How a step changes the cache of act(). *)
LEMMA ActCacheStep ==
  ASSUME NEW c \in Calls, EvInv, Shape(c), NEW e \in Calls, NEW k \in Keys
  PROVE  \/ actCache'[e][k] = actCache[e][k]
         \/ /\ actCache[e][k] = None /\ actCache'[e][k] = Entry(c)
            /\ e = req[c].ep /\ k = req[c].key /\ req[c].op = "ACT"
            /\ \E r \in LedgerReceipt : Grows(c, r)
<1>1. TypeOK
  BY DEF EvInv, Inv
<1>2. CASE Records(c)
  <2>1. PICK r \in LedgerReceipt : Says(c, r) /\ Writes(c, r)
    BY <1>2 DEF Records
  <2>2. CASE actCache' = actCache
    BY <2>2
  <2>3. CASE actCache' # actCache
    <3>1. /\ Grows(c, r) /\ req[c].op = "ACT" /\ actCache[req[c].ep][req[c].key] = None
          /\ actCache' = [actCache EXCEPT ![req[c].ep][req[c].key] = Entry(c)]
      BY <1>2, <2>1, <2>3 DEF Records, Writes, CachesItself, Grows
    <3> QED BY <1>1, <3>1 DEF TypeOK
  <2> QED BY <2>2, <2>3
<1>3. CASE ~Records(c)
  BY <1>3 DEF Shape, Arrives, Walks, Creates, Acts, Quits, Closes, Lands, Kept
<1> QED BY <1>2, <1>3

(* A cached entry answers with its own call. *)
LEMMA EntryAnswers ==
  ASSUME NEW c \in Calls, EvInv, Shape(c), NEW r \in LedgerReceipt, Grows(c, r)
  PROVE  Entry(c).id = c /\ Entry(c).intent = req[c].intent /\ Receipted(c)' /\ req'[c] = req[c]
<1>1. Says(c, r) /\ ledger' = Append(ledger, r) /\ Underway(c)
  BY DEF Grows
<1>2. Receipted(c)'
  BY <1>1, WriterIsReceipted
<1>3. req'[c] = req[c]
  BY <1>1, EndedStays DEF Underway
<1> QED BY <1>2, <1>3 DEF Entry

(* The caches go on answering with receipts for the same request. *)
LEMMA CachesKept ==
  ASSUME NEW c \in Calls, EvInv, Inv', Shape(c)
  PROVE  CachesAnswerReceipts'
<1>1. TypeOK /\ CachesAnswerReceipts
  BY DEF EvInv, Inv, EvidenceInvariant
<1>2. ASSUME NEW e \in Calls, NEW k \in Keys, actCache'[e][k] # None
      PROVE  /\ HoldsId(ledger', actCache'[e][k].id)
             /\ Asks(req'[actCache'[e][k].id], "ACT", e, k, actCache'[e][k].intent)
  <2>1. CASE actCache'[e][k] = actCache[e][k]
    <3>1. PICK x \in Calls : x = actCache[e][k].id
      BY <1>1, <1>2, <2>1 DEF TypeOK, CacheEntry
    <3>2. Receipted(x) /\ Asks(req[x], "ACT", e, k, actCache[e][k].intent)
      BY <1>1, <1>2, <2>1, <3>1 DEF CachesAnswerReceipts
    <3>3. Receipted(x)' /\ req'[x] = req[x]
      BY <3>2, ReceiptedStays
    <3> QED BY <2>1, <3>1, <3>2, <3>3 DEF Receipted
  <2>2. CASE actCache'[e][k] # actCache[e][k]
    <3>1. /\ actCache'[e][k] = Entry(c) /\ e = req[c].ep /\ k = req[c].key /\ req[c].op = "ACT"
          /\ \E r \in LedgerReceipt : Grows(c, r)
      BY <2>2, ActCacheStep
    <3>2. Entry(c).id = c /\ Entry(c).intent = req[c].intent /\ Receipted(c)' /\ req'[c] = req[c]
      BY <3>1, EntryAnswers
    <3> QED BY <3>1, <3>2 DEF Receipted, Asks
  <2> QED BY <2>1, <2>2
<1>3. ASSUME NEW k \in Keys, matCache'[k] # None
      PROVE  /\ HoldsId(ledger', matCache'[k].id)
             /\ Asks(req'[matCache'[k].id], "MATERIALIZE", None, k, matCache'[k].intent)
  <2>1. CASE matCache'[k] = matCache[k]
    <3>1. PICK x \in Calls : x = matCache[k].id
      BY <1>1, <1>3, <2>1 DEF TypeOK, CacheEntry
    <3>2. Receipted(x) /\ Asks(req[x], "MATERIALIZE", None, k, matCache[k].intent)
      BY <1>1, <1>3, <2>1, <3>1 DEF CachesAnswerReceipts
    <3>3. Receipted(x)' /\ req'[x] = req[x]
      BY <3>2, ReceiptedStays
    <3> QED BY <2>1, <3>1, <3>2, <3>3 DEF Receipted
  <2>2. CASE matCache'[k] # matCache[k]
    <3>1. /\ matCache'[k] = Entry(c) /\ k = req[c].key /\ req[c].op = "MATERIALIZE" /\ Underway(c)
          /\ \E r \in LedgerReceipt : Grows(c, r)
      BY <2>2, MatCacheStep
    <3>2. Entry(c).id = c /\ Entry(c).intent = req[c].intent /\ Receipted(c)' /\ req'[c] = req[c]
      BY <3>1, EntryAnswers
    <3>3. req[c].ep = None
      BY <3>1, UnderwayFacts DEF Request
    <3> QED BY <3>1, <3>2, <3>3 DEF Receipted, Asks
  <2> QED BY <2>1, <2>2
<1>4. ASSUME NEW e \in Calls, torndown'[e] # None
      PROVE  /\ HoldsId(ledger', torndown'[e]) /\ e \in KnownEpisodes' /\ env'[e] = "closed"
             /\ Asks(req'[torndown'[e]], "TEARDOWN", e, None, None)
  <2>1. CASE torndown'[e] = torndown[e]
    <3>1. PICK x \in Calls : x = torndown[e]
      BY <1>1, <1>4, <2>1 DEF TypeOK
    <3>2. /\ Receipted(x) /\ Asks(req[x], "TEARDOWN", e, None, None)
          /\ e \in KnownEpisodes /\ env[e] = "closed"
      BY <1>1, <1>4, <2>1, <3>1 DEF CachesAnswerReceipts
    <3>3. Receipted(x)' /\ req'[x] = req[x] /\ e \in KnownEpisodes'
      BY <3>2, ReceiptedStays, Growth
    <3>4. env'[e] = "closed"
      BY <3>2, EnvStep, KnownFacts
    <3> QED BY <2>1, <3>1, <3>2, <3>3, <3>4 DEF Receipted
  <2>2. CASE torndown'[e] # torndown[e]
    <3>1. Closes(c)
      BY <2>2 DEF Shape, Arrives, Walks, Creates, Acts, Quits, Records, Lands, Kept
    <3>2. Underway(c) /\ pc[c] = "close" /\ req'[c] = req[c]
      BY <3>1 DEF Closes, Underway
    <3>3. /\ req[c] \in Request /\ req[c].op = "TEARDOWN" /\ req[c].ep \in KnownEpisodes
          /\ req[c].ep \in Calls
      BY <3>2, UnderwayFacts DEF PhaseMatchesRequest
    <3>4. e = req[c].ep /\ torndown'[e] = c /\ env'[e] = "closed"
      BY <1>1, <2>2, <3>1, <3>3 DEF Closes, TypeOK
    <3>5. Receipted(c)'
      BY <3>1, WriterIsReceipted DEF Closes
    <3>6. e \in KnownEpisodes'
      BY <3>3, <3>4, Growth
    <3>7. Asks(req[c], "TEARDOWN", e, None, None)
      BY <3>3, <3>4 DEF Asks, Request
    <3> QED BY <3>2, <3>4, <3>5, <3>6, <3>7 DEF Receipted
  <2> QED BY <2>1, <2>2
<1>5. ASSUME NEW e \in KnownEpisodes'
      PROVE  env'[e] # "none" /\ (e \in episodes' <=> torndown'[e] = None)
  <2>1. CASE e \in KnownEpisodes
    <3>1. /\ e \in Calls /\ pc[e] = "done" /\ env[e] # "none"
          /\ e \in episodes <=> torndown[e] = None
      BY <1>1, <2>1, KnownFacts DEF CachesAnswerReceipts
    <3>2. env'[e] # "none"
      BY <3>1, EnvStep
    <3>3. CASE Closes(c)
      <4>1. c # None /\ req[c].ep \in Calls
        BY <3>3, KernelAssumption, UnderwayFacts DEF Closes, Underway, PhaseMatchesRequest
      <4> QED BY <1>1, <3>1, <3>2, <3>3, <4>1 DEF Closes, TypeOK
    <3>4. CASE Records(c)
      <4>1. torndown' = torndown /\ c # e /\ (episodes' = episodes \/ episodes' = episodes \cup {c})
        BY <3>1, <3>4 DEF Records, WorldOfRecord, Underway
      <4> QED BY <3>1, <3>2, <4>1
    <3>5. CASE ~Closes(c) /\ ~Records(c)
      BY <3>1, <3>2, <3>5 DEF Shape, Arrives, Walks, Creates, Acts, Quits, Lands, Kept
    <3> QED BY <3>3, <3>4, <3>5
  <2>2. CASE e \notin KnownEpisodes
    <3>1. e = c /\ pc[c] = "m_admit" /\ c \in episodes' /\ env[c] # "none"
      BY <2>2, Growth
    <3>2. torndown[c] = None
      BY <1>1, <2>2, <3>1 DEF CachesAnswerReceipts
    <3>3. torndown' = torndown
      BY <3>1 DEF Shape, Arrives, Walks, Creates, Acts, Quits, Records, Closes, Lands, Kept
    <3>4. env'[c] # "none"
      BY <3>1, EnvStep
    <3> QED BY <3>1, <3>2, <3>3, <3>4
  <2> QED BY <2>1, <2>2
<1> QED BY <1>2, <1>3, <1>4, <1>5 DEF CachesAnswerReceipts, Receipted

(* Appending a receipt that does not reuse a key for another intent keeps  *)
(* ids unique, keys owned and the receipts of a key in agreement.          *)
LEMMA AppendKeepsOrder ==
  ASSUME NEW l \in Seq(LedgerReceipt), NEW r \in LedgerReceipt, ~KeyReuse(l, r), ~HoldsId(l, r.id),
         UniqueIds(l), KeyOwnersAgree(l),
         \A i \in DOMAIN l : l[i].key # None => \E j \in DOMAIN l : IsKeyOwner(l, j, l[i].key)
  PROVE  /\ UniqueIds(Append(l, r)) /\ KeyOwnersAgree(Append(l, r))
         /\ \A i \in DOMAIN Append(l, r) : Append(l, r)[i].key # None =>
              \E j \in DOMAIN Append(l, r) : IsKeyOwner(Append(l, r), j, Append(l, r)[i].key)
<1> DEFINE m == Append(l, r)
<1>1. /\ DOMAIN m = DOMAIN l \cup {Len(l) + 1} /\ DOMAIN l = 1..Len(l) /\ Len(l) \in Nat
      /\ m[Len(l) + 1] = r /\ \A i \in DOMAIN l : m[i] = l[i]
  OBVIOUS
<1> HIDE DEF m
<1>2. UniqueIds(m)
  BY <1>1 DEF UniqueIds, HoldsId
<1>3. ASSUME NEW k, NEW j \in DOMAIN l, IsKeyOwner(l, j, k) PROVE IsKeyOwner(m, j, k)
  BY <1>1, <1>3 DEF IsKeyOwner
<1>4. ASSUME NEW i \in DOMAIN l, l[i].key # None, l[i].key = r.key
      PROVE  l[i].ep = r.ep /\ l[i].cap = r.cap
  <2>1. PICK j \in DOMAIN l : IsKeyOwner(l, j, r.key)
    BY <1>4
  <2>2. SameIntent(l[j], r) /\ l[j].key = r.key
    BY <1>4, <2>1 DEF KeyReuse, IsKeyOwner
  <2>3. l[i].ep = l[j].ep /\ l[i].cap = l[j].cap
    BY <1>4, <2>2 DEF KeyOwnersAgree
  <2> QED BY <2>2, <2>3 DEF SameIntent
<1>5. KeyOwnersAgree(m)
  BY <1>1, <1>4 DEF KeyOwnersAgree
<1>6. ASSUME NEW i \in DOMAIN m, m[i].key # None
      PROVE  \E j \in DOMAIN m : IsKeyOwner(m, j, m[i].key)
  <2>1. CASE \E n \in DOMAIN l : l[n].key = m[i].key
    <3>1. PICK j \in DOMAIN l : IsKeyOwner(l, j, m[i].key)
      BY <1>6, <2>1
    <3> QED BY <1>1, <1>3, <3>1
  <2>2. CASE ~\E n \in DOMAIN l : l[n].key = m[i].key
    <3>1. i = Len(l) + 1
      BY <1>1, <1>6, <2>2
    <3>2. IsKeyOwner(m, i, m[i].key)
      BY <1>1, <2>2, <3>1 DEF IsKeyOwner
    <3> QED BY <1>6, <3>2
  <2> QED BY <2>1, <2>2
<1> QED BY <1>2, <1>5, <1>6 DEF m

(* What the ledger says of an earlier call goes on being true. *)
LEMMA OldReceiptIsTrue ==
  ASSUME NEW c \in Calls, EvInv, Shape(c), NEW i \in DOMAIN ledger
  PROVE  LET x == ledger[i].id IN
         /\ x \in Calls /\ req'[x] = req[x] /\ ledger[i].key = req[x].key
         /\ pc'[ledger[i].ep] = "done"
         /\ effect[x] # "pending" => effect'[x] = effect[x]
<1>1. ledger[i] \in LedgerReceipt /\ LedgerIsTrue
  BY DEF EvInv, Inv, TypeOK, EvidenceInvariant
<1>2. PICK x \in Calls : x = ledger[i].id
  BY <1>1 DEF LedgerReceipt
<1>3. Receipted(x)
  BY <1>2 DEF Receipted, HoldsId
<1>4. pc[x] = "done" /\ req'[x] = req[x]
  BY <1>3, ReceiptedStays
<1>5. effect[x] # "pending" => effect'[x] = effect[x]
  BY <1>4, EndedStays
<1>6. ledger[i].ep \in Calls /\ pc[ledger[i].ep] = "done" /\ ledger[i].key = req[x].key
  BY <1>1, <1>2 DEF LedgerReceipt, LedgerIsTrue
<1>7. pc'[ledger[i].ep] = "done"
  BY <1>6, EndedStays
<1> QED BY <1>2, <1>4, <1>5, <1>6, <1>7

(* What a new receipt says is true of the call that writes it. *)
LEMMA NewReceiptIsTrue ==
  ASSUME NEW c \in Calls, EvInv, Shape(c), NEW r \in LedgerReceipt, Grows(c, r)
  PROVE  /\ r.key = req'[r.id].key /\ pc'[r.ep] = "done" /\ ~HoldsId(ledger, r.id)
         /\ r.standing \in {"REFUSED", "UNSUPPORTED"} => effect'[r.id] = "none"
         /\ r.op = "ACT" /\ r.standing = "ALIVE" /\ "late" \notin Faults
              => effect'[r.id] = "applied" /\ r.post = r.pre + 1
         /\ r.op = "VERIFY" /\ r.standing = "ALIVE" /\ "late" \notin Faults
              => r.post = req'[r.id].val
<1>1. /\ TypeOK /\ Underway(c) /\ pc'[c] = "done" /\ Says(c, r) /\ r.id = c
      /\ ledger' = Append(ledger, r) /\ r.ep \in Calls
  BY DEF EvInv, Inv, Grows, Says, LedgerReceipt
<1>2. ~Receipted(c) /\ PhaseMatchesRequest(c) /\ WorldIsBracketed(c)
  BY <1>1, UnderwayFacts DEF EvInv, EvidenceInvariant
<1>3. ledger' # ledger
  BY <1>1 DEF TypeOK
<1>4. Records(c) \/ Closes(c)
  BY <1>3 DEF Shape, Arrives, Walks, Creates, Acts, Quits, Lands, Kept
<1>5. req'[c] = req[c] /\ effect'[c] = effect[c]
  BY <1>4 DEF Records, Closes
<1>6. pc'[r.ep] = "done"
  BY <1>1, EndedStays DEF Says
<1>7. r.standing \in {"REFUSED", "UNSUPPORTED"} => effect[c] = "none"
  BY <1>1, <1>2 DEF Says, PhaseMatchesRequest, Touched, Underway
<1>8. r.op = "ACT" /\ r.standing = "ALIVE" /\ "late" \notin Faults
        => effect[c] = "applied" /\ r.post = r.pre + 1
  BY <1>1, <1>2 DEF Says, WorldIsBracketed
<1>9. r.op = "VERIFY" /\ r.standing = "ALIVE" /\ "late" \notin Faults => r.post = req[c].val
  BY <1>1, <1>2 DEF Says, WorldIsBracketed
<1> QED BY <1>1, <1>2, <1>5, <1>6, <1>7, <1>8, <1>9 DEF Says, Receipted

(* The ledger goes on telling the truth. *)
LEMMA LedgerKept ==
  ASSUME NEW c \in Calls, EvInv, Inv', Shape(c)
  PROVE  LedgerIsTrue'
<1>1. ledger \in Seq(LedgerReceipt) /\ LedgerIsTrue
  BY DEF EvInv, Inv, TypeOK, EvidenceInvariant
<1>2. /\ UniqueIds(ledger') /\ KeyOwnersAgree(ledger')
      /\ \A i \in DOMAIN ledger' : ledger'[i].key # None =>
           \E j \in DOMAIN ledger' : IsKeyOwner(ledger', j, ledger'[i].key)
  <2>1. CASE ledger' = ledger
    BY <1>1, <2>1 DEF LedgerIsTrue
  <2>2. ASSUME NEW r \in LedgerReceipt, Grows(c, r)
        PROVE  /\ UniqueIds(ledger') /\ KeyOwnersAgree(ledger')
               /\ \A i \in DOMAIN ledger' : ledger'[i].key # None =>
                    \E j \in DOMAIN ledger' : IsKeyOwner(ledger', j, ledger'[i].key)
    <3>1. ~HoldsId(ledger, r.id) /\ ~KeyReuse(ledger, r) /\ ledger' = Append(ledger, r)
      BY <2>2, NewReceiptIsTrue DEF Grows
    <3>2. /\ UniqueIds(ledger) /\ KeyOwnersAgree(ledger)
          /\ \A i \in DOMAIN ledger : ledger[i].key # None =>
               \E j \in DOMAIN ledger : IsKeyOwner(ledger, j, ledger[i].key)
      BY <1>1 DEF LedgerIsTrue
    <3> QED BY <1>1, <3>1, <3>2, AppendKeepsOrder
  <2> QED BY <2>1, <2>2, LedgerGrows
<1>3. ASSUME NEW i \in DOMAIN ledger'
      PROVE  \/ i \in DOMAIN ledger /\ ledger'[i] = ledger[i]
             \/ \E r \in LedgerReceipt : Grows(c, r) /\ ledger'[i] = r
  <2>1. ASSUME NEW r \in LedgerReceipt, Grows(c, r)
        PROVE  (i \in DOMAIN ledger /\ ledger'[i] = ledger[i]) \/ ledger'[i] = r
    BY <1>1, <1>3, <2>1 DEF Grows
  <2> QED BY <2>1, LedgerGrows
<1>4. ASSUME NEW i \in DOMAIN ledger'
      PROVE  /\ ledger'[i].key = req'[ledger'[i].id].key /\ pc'[ledger'[i].ep] = "done"
             /\ ledger'[i].standing \in {"REFUSED", "UNSUPPORTED"} => effect'[ledger'[i].id] = "none"
             /\ ledger'[i].op = "ACT" /\ ledger'[i].standing = "ALIVE" /\ "late" \notin Faults
                  => /\ effect'[ledger'[i].id] = "applied"
                     /\ ledger'[i].post = ledger'[i].pre + 1
             /\ ledger'[i].op = "VERIFY" /\ ledger'[i].standing = "ALIVE" /\ "late" \notin Faults
                  => ledger'[i].post = req'[ledger'[i].id].val
  <2>1. CASE i \in DOMAIN ledger /\ ledger'[i] = ledger[i]
    <3>1. /\ ledger[i].standing \in {"REFUSED", "UNSUPPORTED"} => effect[ledger[i].id] = "none"
          /\ ledger[i].op = "ACT" /\ ledger[i].standing = "ALIVE" /\ "late" \notin Faults
               => effect[ledger[i].id] = "applied" /\ ledger[i].post = ledger[i].pre + 1
          /\ ledger[i].op = "VERIFY" /\ ledger[i].standing = "ALIVE" /\ "late" \notin Faults
               => ledger[i].post = req[ledger[i].id].val
      BY <1>1, <2>1 DEF LedgerIsTrue, RefusalsAreEffectFree, AliveReceiptsAreAboutTheirStates,
         AliveActBracketsItsEffect, VerifiedDigestIsJudged
    <3> QED BY <2>1, <3>1, OldReceiptIsTrue
  <2>2. ASSUME NEW r \in LedgerReceipt, Grows(c, r), ledger'[i] = r
        PROVE  /\ r.key = req'[r.id].key /\ pc'[r.ep] = "done"
               /\ r.standing \in {"REFUSED", "UNSUPPORTED"} => effect'[r.id] = "none"
               /\ r.op = "ACT" /\ r.standing = "ALIVE" /\ "late" \notin Faults
                    => effect'[r.id] = "applied" /\ r.post = r.pre + 1
               /\ r.op = "VERIFY" /\ r.standing = "ALIVE" /\ "late" \notin Faults
                    => r.post = req'[r.id].val
    BY <2>2, NewReceiptIsTrue
  <2> QED BY <1>3, <2>1, <2>2
<1> QED BY <1>2, <1>4 DEF LedgerIsTrue, RefusalsAreEffectFree, AliveReceiptsAreAboutTheirStates,
     AliveActBracketsItsEffect, VerifiedDigestIsJudged

-----------------------------------------------------------------------------
(* The invariant of the specification *)

(* A step that touches no call, such as register_provider, keeps it. *)
LEMMA EvidenceStutter ==
  ASSUME EvidenceInvariant, UNCHANGED <<callVars, localVars, cacheVars, worldVars, episodes, ledger>>
  PROVE  EvidenceInvariant'
<1>1. UNCHANGED <<pc, outcome, answer, mlock, req, before, actCache, matCache, torndown,
                  env, world, effect, episodes, ledger>>
  BY DEF callVars, localVars, cacheVars, worldVars
<1>2. KnownEpisodes' = KnownEpisodes /\ \A x : Receipted(x)' <=> Receipted(x)
  BY <1>1 DEF KnownEpisodes, Receipted
<1>3. ASSUME NEW d \in Calls
      PROVE  /\ AnswersAtTheEnd(d)' /\ AddressesKnownEpisode(d)' /\ MaterializesAlone(d)'
             /\ WorldIsCachedOrBarred(d)' /\ WorldIsBracketed(d)'
  <2>1. /\ AnswersAtTheEnd(d) /\ AddressesKnownEpisode(d) /\ MaterializesAlone(d)
        /\ WorldIsCachedOrBarred(d) /\ WorldIsBracketed(d)
    BY DEF EvidenceInvariant
  <2>2. AnswersAtTheEnd(d)' /\ AddressesKnownEpisode(d)'
    BY <1>1, <1>2, <2>1 DEF AnswersAtTheEnd, AddressesKnownEpisode, Touched, Receipted
  <2>3. MaterializesAlone(d)' /\ WorldIsCachedOrBarred(d)' /\ WorldIsBracketed(d)'
    BY <1>1, <2>1 DEF MaterializesAlone, WorldIsCachedOrBarred, WorldIsBracketed
  <2> QED BY <2>2, <2>3
<1>4. CachesAnswerReceipts'
  BY <1>1, <1>2 DEF EvidenceInvariant, CachesAnswerReceipts, Receipted
<1>5. LedgerIsTrue'
  BY <1>1 DEF EvidenceInvariant, LedgerIsTrue, RefusalsAreEffectFree, AliveReceiptsAreAboutTheirStates,
     AliveActBracketsItsEffect, VerifiedDigestIsJudged
<1> QED BY <1>3, <1>4, <1>5 DEF EvidenceInvariant

(* A fresh GymAct has no evidence to be wrong. *)
LEMMA EvidenceInit == Init => EvidenceInvariant
<1> SUFFICES ASSUME Init PROVE EvidenceInvariant
  OBVIOUS
<1>1. DOMAIN ledger = {} /\ KnownEpisodes = {} /\ mlock = None /\ None \notin Calls
  BY KernelAssumption DEF Init, KnownEpisodes
<1>2. ASSUME NEW c \in Calls
      PROVE  /\ AnswersAtTheEnd(c) /\ AddressesKnownEpisode(c) /\ MaterializesAlone(c)
             /\ WorldIsCachedOrBarred(c) /\ WorldIsBracketed(c)
  BY DEF Init, AnswersAtTheEnd, AddressesKnownEpisode, MaterializesAlone, InsideMaterialize,
     WorldIsCachedOrBarred, WorldIsBracketed, Touched
<1>3. CachesAnswerReceipts
  BY <1>1 DEF Init, CachesAnswerReceipts
<1>4. LedgerIsTrue
  BY <1>1 DEF LedgerIsTrue, UniqueIds, KeyOwnersAgree, RefusalsAreEffectFree,
     AliveReceiptsAreAboutTheirStates, AliveActBracketsItsEffect, VerifiedDigestIsJudged
<1> QED BY <1>2, <1>3, <1>4 DEF EvidenceInvariant

(* Every step of the system keeps it. *)
LEMMA EvidenceNext == EvInv /\ [Next]_vars => EvInv'
<1> SUFFICES ASSUME EvInv, [Next]_vars PROVE EvInv'
  OBVIOUS
<1>1. Inv' /\ EvidenceInvariant
  BY NextInv DEF EvInv
<1>2. ASSUME NEW p \in Providers, RegisterProvider(p) PROVE EvInv'
  BY <1>1, <1>2, EvidenceStutter DEF RegisterProvider, EvInv
<1>3. CASE UNCHANGED vars
  BY <1>1, <1>3, EvidenceStutter DEF vars, EvInv
<1>4. ASSUME NEW c \in Calls, Call(c) \/ Step(c) \/ LateEffect(c) \/ Cancel(c) PROVE EvInv'
  <2>1. Shape(c)
    BY <1>4, StepHasShape
  <2>2. ASSUME NEW d \in Calls
        PROVE  /\ AnswersAtTheEnd(d)' /\ AddressesKnownEpisode(d)' /\ MaterializesAlone(d)'
               /\ WorldIsCachedOrBarred(d)' /\ WorldIsBracketed(d)'
    BY <1>1, <2>1, AnswersKept, AddressesKept, MaterializesAloneKept, WorldIsCachedOrBarredKept,
       WorldIsBracketedKept
  <2>3. CachesAnswerReceipts' /\ LedgerIsTrue'
    BY <1>1, <2>1, CachesKept, LedgerKept
  <2> QED BY <1>1, <2>2, <2>3 DEF EvInv, EvidenceInvariant
<1> QED BY <1>2, <1>3, <1>4 DEF Next, Quiescent

(* So it holds throughout. *)
LEMMA EvidenceInvariance == Spec => []EvInv
<1>1. Init => EvInv
  BY InitInv, EvidenceInit DEF EvInv
<1> QED BY <1>1, EvidenceNext, PTL DEF Spec

-----------------------------------------------------------------------------
(* Theorems *)

(* The inductive invariant that KernelLifecycle.cfg checks holds for every *)
(* number of calls, keys and intents and every fault of the environment:   *)
(* the locks, the caches, the ledger and the worlds of the kernel agree.   *)
THEOREM EvidenceSafety == Spec => []KernelInvariant
<1>1. EvInv => KernelInvariant
  BY InvIsActInvariant DEF EvInv, KernelInvariant
<1> QED BY <1>1, EvidenceInvariance, PTL

(* A call with a REFUSED or UNSUPPORTED receipt never reached its world,   *)
(* not even late and whoever cancelled what.                               *)
THEOREM RefusalSafety == Spec => []RefusalsAreEffectFree
<1>1. EvInv => RefusalsAreEffectFree
  BY DEF EvInv, EvidenceInvariant, LedgerIsTrue
<1> QED BY <1>1, EvidenceInvariance, PTL

(* Every answer is a receipt in the ledger for the very request that was   *)
(* made, and all receipts under one key agree on episode and capability.   *)
THEOREM AnswerSafety == Spec => []AnswersAreReceiptsOfTheSameIntent
<1>1. EvInv => AnswersAreReceiptsOfTheSameIntent
  BY DEF EvInv, EvidenceInvariant, LedgerIsTrue, AnswersAtTheEnd, AnswersAreReceiptsOfTheSameIntent,
     Receipted
<1> QED BY <1>1, EvidenceInvariance, PTL

(* An effect whose call returned is receipted, by that call. *)
THEOREM ReturnedSafety == Spec => []ReturnedEffectIsReceipted
<1>1. EvInv => ReturnedEffectIsReceipted
  BY DEF EvInv, EvidenceInvariant, AnswersAtTheEnd, ReturnedEffectIsReceipted
<1> QED BY <1>1, EvidenceInvariance, PTL

(* An ALIVE receipt of act() brackets exactly its own effect and an ALIVE  *)
(* receipt of verify() carries the state that was judged.                  *)
THEOREM AliveSafety == Spec => []AliveReceiptsAreAboutTheirStates
<1>1. EvInv => AliveReceiptsAreAboutTheirStates
  BY DEF EvInv, EvidenceInvariant, LedgerIsTrue
<1> QED BY <1>1, EvidenceInvariance, PTL

(* An episode that was admitted is live until a receipted teardown that    *)
(* closed its world, and never again.                                      *)
THEOREM TeardownSafety == Spec => []EpisodesLeaveByTeardown
<1>1. EvInv => EpisodesLeaveByTeardown
  <2> SUFFICES ASSUME EvInv, NEW i \in DOMAIN ledger,
                      ledger[i].op = "MATERIALIZE", ledger[i].standing = "ALIVE"
               PROVE  ledger[i].ep \notin episodes <=>
                        /\ torndown[ledger[i].ep] # None /\ env[ledger[i].ep] = "closed"
                        /\ Receipted(torndown[ledger[i].ep])
    BY DEF EpisodesLeaveByTeardown
  <2>1. ledger[i].ep \in Calls /\ ledger[i].ep \in KnownEpisodes
    <3>1. ledger[i] \in LedgerReceipt
      BY DEF EvInv, Inv, TypeOK
    <3> QED BY <3>1 DEF LedgerReceipt, KnownEpisodes
  <2> QED BY <2>1 DEF EvInv, EvidenceInvariant, CachesAnswerReceipts
<1> QED BY <1>1, EvidenceInvariance, PTL

(* When no call is cancelled, a materialize() that made a world and        *)
(* returned is the only one of its key that ever made one: the cached      *)
(* result stops the others, and a key the ledger gave to another intent    *)
(* lets none of them return.                                               *)
THEOREM MaterializationSafety ==
  ASSUME "cancel" \notin Faults PROVE Spec => []OneWorldPerKey
<1>1. EvInv => OneWorldPerKey
  <2> SUFFICES ASSUME EvInv, NEW c \in Calls, NEW d \in Calls, c # d, req[c].op = "MATERIALIZE",
                      req[c].key = req[d].key, outcome[c] = "returned",
                      env[c] # "none", env[d] # "none"
               PROVE  FALSE
    BY DEF OneWorldPerKey
  <2>1. /\ AnswersAtTheEnd(c) /\ WorldIsCachedOrBarred(c) /\ WorldIsCachedOrBarred(d)
        /\ MaterializesAlone(d)
    BY DEF EvInv, EvidenceInvariant
  <2>2. matCache[req[c].key] # None /\ matCache[req[c].key].id = c
    BY <2>1 DEF AnswersAtTheEnd, WorldIsCachedOrBarred
  <2>3. pc[d] = "done"
    BY <2>1, <2>2 DEF MaterializesAlone, InsideMaterialize
  <2> QED BY <2>1, <2>2, <2>3 DEF WorldIsCachedOrBarred
<1> QED BY <1>1, EvidenceInvariance, PTL

(* No step removes or rewrites a receipt, nor replaces the first result    *)
(* cached under a key.                                                     *)
THEOREM EvidenceFinality == Spec => EvidenceIsFinal
<1> DEFINE Final == /\ Len(ledger') >= Len(ledger)
                    /\ \A i \in DOMAIN ledger : ledger'[i] = ledger[i]
                    /\ \A e \in Calls, k \in Keys :
                         actCache[e][k] # None => actCache'[e][k] = actCache[e][k]
                    /\ \A k \in Keys : matCache[k] # None => matCache'[k] = matCache[k]
<1>1. EvInv /\ [Next]_vars => [Final]_vars
  <2> SUFFICES ASSUME EvInv, [Next]_vars PROVE [Final]_vars
    OBVIOUS
  <2>1. ASSUME NEW c \in Calls, Call(c) \/ Step(c) \/ LateEffect(c) \/ Cancel(c) PROVE Final
    <3>1. Shape(c)
      BY <2>1, StepHasShape
    <3> QED BY <3>1, Growth, ActCacheStep, MatCacheStep
  <2>2. ASSUME NEW p \in Providers, RegisterProvider(p) PROVE Final
    <3>1. ledger' = ledger /\ actCache' = actCache /\ matCache' = matCache /\ Len(ledger) \in Nat
      BY <2>2 DEF RegisterProvider, cacheVars, EvInv, Inv, TypeOK
    <3> QED BY <3>1
  <2> QED BY <2>1, <2>2 DEF Next, Quiescent
<1>2. Spec => [][Final]_vars
  BY <1>1, EvidenceInvariance, PTL DEF Spec
<1> QED BY <1>2 DEF EvidenceIsFinal
=============================================================================
