---------------------------- MODULE ReceiptLedger ----------------------------
(***************************************************************************)
(* The append rule shared by the two receipt ledgers of the runtime, the   *)
(* in-memory chain (evidence.py) and the SQLite one (sqlite_ledger.py).    *)
(* A ledger is a sequence of receipts; a receipt is a record with at least *)
(* the fields id, key, ep and cap.  The hash chain itself is implied by    *)
(* the order of the sequence: record i is chained to record i - 1.         *)
(***************************************************************************)
EXTENDS Integers, Sequences

CONSTANT None          \* Python's None: no key, no owner, no digest

(* Mutant: the check forgets the capability. *)
SameIntent_EpisodeOnly(a, b) == a.ep = b.ep

(* _same_intent: only the episode and the capability are compared. *)
SameIntent(a, b) == a.ep = b.ep /\ a.cap = b.cap

HoldsId(l, id) == \E i \in DOMAIN l : l[i].id = id

(* The record _by_idempotency_key holds for k is the first one carrying k. *)
IsKeyOwner(l, i, k) ==
  /\ i \in DOMAIN l
  /\ l[i].key = k
  /\ \A j \in DOMAIN l : l[j].key = k => i <= j

IdConflict(l, r) == \E i \in DOMAIN l : l[i].id = r.id /\ l[i] # r

KeyReuse(l, r) ==
  /\ r.key # None
  /\ \E i \in DOMAIN l : IsKeyOwner(l, i, r.key) /\ ~SameIntent(l[i], r)

(* append raises ValueError: RECEIPT_ID_CONFLICT for a known id, and       *)
(* IDEMPOTENCY_KEY_REUSE_WITH_DIFFERENT_INTENT for a fresh one.            *)
AppendRaises(l, r) == IF HoldsId(l, r.id) THEN IdConflict(l, r) ELSE KeyReuse(l, r)

(* Mutant: an upsert by idempotency key. *)
Appended_Upsert(l, r) ==
  Append(SelectSeq(l, LAMBDA x : x.key = None \/ x.key # r.key), r)

(* What append leaves behind: a replay of a known receipt adds nothing. *)
Appended(l, r) == IF AppendRaises(l, r) \/ HoldsId(l, r.id) THEN l ELSE Append(l, r)

(* Every receipt under one idempotency key is about one episode and one    *)
(* capability: the promise of the key check in both ledgers.               *)
KeyOwnersAgree(l) ==
  \A i, j \in DOMAIN l :
     l[i].key # None /\ l[i].key = l[j].key
       => l[i].ep = l[j].ep /\ l[i].cap = l[j].cap

(* No receipt id occurs twice in a chain (UNIQUE in the SQLite schema). *)
UniqueIds(l) == \A i, j \in DOMAIN l : l[i].id = l[j].id => i = j
=============================================================================
