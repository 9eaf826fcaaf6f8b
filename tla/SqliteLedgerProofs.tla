------------------------- MODULE SqliteLedgerProofs -------------------------
(***************************************************************************)
(* Proofs about the stores in SQLite files.  SqliteLedger, for any number  *)
(* of processes, receipts, appends and crashes: the chain verifies, what   *)
(* was returned is durable, and the file follows the append rule of the    *)
(* in-memory ledger.  PolicyStore, for any number of processes,            *)
(* populations and calls: stored transitions replay, what a call without   *)
(* an open transaction returned is durable, and only calls that raised     *)
(* leave locks behind.                                                     *)
(***************************************************************************)
EXTENDS Stores, TLAPS

(* The part of the invariant about an undamaged table. *)
Sound ==
  /\ \A i \in DOMAIN rows : rows[i].id = rows[i].receipt.id
  /\ PendingRowIsNext /\ AnswerIsStored
  /\ verify(rows)
  /\ \A r \in returned : \E i \in DOMAIN rows : rows[i].receipt = r

Inv == TypeOK /\ AppendsAreBound /\ ReadersHoldTheLock /\ (~damaged => Sound)

(* The invariant is the one TLC checks. *)
LEMMA InvIsChainInvariant == Inv <=> ChainInvariant
  BY DEF Inv, ChainInvariant, Sound, ChainVerifies, ReturnedIsDurable

(* The row append is about to insert is well typed. *)
LEMMA NextRowType ==
  ASSUME rows \in Seq(Row), NEW r \in Receipts
  PROVE  NextRow(rows, r) \in Row
<1> DEFINE n == Len(rows)
           seq == IF n = 0 THEN 0 ELSE rows[n].seq + 1
           previous == IF n = 0 THEN << >> ELSE rows[n].record_digest
<1>1. n # 0 => rows[n] \in Row
  OBVIOUS
<1>2. seq \in Nat /\ previous \in Digest
  BY <1>1 DEF Row, Digest
<1>3. <<seq, r>> \in Nat \X Receipts
  BY <1>2
<1>4. RecordDigest(seq, previous, r) \in Digest
  BY <1>2, <1>3 DEF RecordDigest, Digest
<1>5. r.id \in {x.id : x \in Receipts}
  OBVIOUS
<1>6. NextRow(rows, r) = [seq |-> seq, id |-> r.id, previous |-> previous,
                          receipt_digest |-> r,
                          record_digest |-> RecordDigest(seq, previous, r), receipt |-> r]
  BY DEF NextRow
<1> HIDE DEF seq, previous
<1> QED BY <1>2, <1>4, <1>5, <1>6 DEF Row

(* What an appended row leaves alone and what it adds. *)
LEMMA AppendFacts ==
  ASSUME rows \in Seq(Row), NEW x \in Row, rows' = Append(rows, x)
  PROVE  /\ rows' \in Seq(Row) /\ Len(rows') = Len(rows) + 1 /\ Len(rows) \in Nat
         /\ DOMAIN rows = 1..Len(rows) /\ DOMAIN rows' = 1..(Len(rows) + 1)
         /\ \A i \in 1..Len(rows) : rows'[i] = rows[i]
         /\ rows'[Len(rows) + 1] = x
  OBVIOUS

(* A chain that verifies still verifies with the next row. *)
LEMMA NextRowVerifies ==
  ASSUME rows \in Seq(Row), NEW r \in Receipts, rows' = Append(rows, NextRow(rows, r)),
         verify(rows)
  PROVE  verify(rows)'
<1> DEFINE n == Len(rows)
           x == NextRow(rows, r)
<1>1. /\ n \in Nat /\ DOMAIN rows = 1..n /\ DOMAIN rows' = 1..(n + 1)
      /\ \A i \in 1..n : rows'[i] = rows[i]
      /\ rows'[n + 1] = x
  BY NextRowType, AppendFacts
<1>2. ASSUME NEW i \in 1..n PROVE LinkVerifies(rows', i)
  <2>1. LinkVerifies(rows, i)
    BY <1>1 DEF verify
  <2>2. rows'[i] = rows[i] /\ (i # 1 => rows'[i - 1] = rows[i - 1])
    BY <1>1
  <2> QED BY <2>1, <2>2 DEF LinkVerifies
<1>3. LinkVerifies(rows', n + 1)
  <2>1. CASE n = 0
    BY <1>1, <2>1 DEF LinkVerifies, NextRow
  <2>2. CASE n # 0
    <3>1. rows[n].seq = n - 1
      BY <1>1, <2>2 DEF verify, LinkVerifies
    <3>2. (n + 1) - 1 = n /\ n + 1 # 1 /\ n \in 1..n
      BY <1>1, <2>2
    <3>4. rows'[(n + 1) - 1] = rows[n]
      BY <1>1, <3>2
    <3>3. x = [seq |-> n, id |-> r.id, previous |-> rows[n].record_digest,
               receipt_digest |-> r,
               record_digest |-> RecordDigest(n, rows[n].record_digest, r), receipt |-> r]
      BY <1>1, <2>2, <3>1 DEF NextRow
    <3>5. /\ x.seq = n /\ x.previous = rows[n].record_digest /\ x.receipt_digest = x.receipt
          /\ x.record_digest = RecordDigest(n, rows[n].record_digest, x.receipt)
      BY <3>3
    <3> HIDE DEF x, n
    <3> QED BY <1>1, <3>2, <3>4, <3>5 DEF LinkVerifies
  <2> QED BY <2>1, <2>2
<1> QED BY <1>1, <1>2, <1>3 DEF verify

-----------------------------------------------------------------------------
(* A step of one process that leaves the table alone. *)

Calm(p, s) ==
  /\ rows' = rows /\ damaged' = damaged
  /\ pc' = [pc EXCEPT ![p] = s]
  /\ arg' \in [Procs -> Receipts \cup {None}] /\ row' \in [Procs -> Row \cup {None}]
  /\ \A q \in Procs : q # p => arg'[q] = arg[q] /\ row'[q] = row[q]
  /\ txn' = txn \/ (txn' = None /\ txn = p) \/ (txn' = p /\ txn = None)
  /\ s \notin {"closed", "open"} => arg'[p] \in Receipts
  /\ s = "commit" => row'[p] \in Row
  /\ s \in {"check", "commit"} => txn' = p
  /\ ~damaged /\ s = "commit" =>
       /\ row'[p] = NextRow(rows, arg'[p])
       /\ ~HoldsId(Log(rows), arg'[p].id) /\ ~KeyReuse(Log(rows), arg'[p])
  /\ ~damaged /\ s = "return" => \E i \in DOMAIN rows : rows[i].receipt = arg'[p]
  /\ returned' \subseteq Receipts
  /\ ~damaged => \A r \in returned' : r \in returned \/ \E i \in DOMAIN rows : rows[i].receipt = r
  /\ appends' \in 0..MaxAppends /\ crashes' \in 0..MaxCrashes /\ rot' \in 0..MaxRot

(* Such a step keeps the invariant. *)
LEMMA CalmStep ==
  ASSUME Inv, NEW p \in Procs, NEW s \in States, Calm(p, s)
  PROVE  Inv'
<1>1. /\ pc \in [Procs -> States] /\ txn \in Procs \cup {None} /\ damaged \in BOOLEAN
      /\ rows \in Seq(Row)
  BY DEF Inv, TypeOK
<1>2. pc'[p] = s /\ \A q \in Procs : q # p => pc'[q] = pc[q]
  BY <1>1 DEF Calm
<1>3. TypeOK'
  <2>1. pc' \in [Procs -> States] /\ txn' \in Procs \cup {None}
    BY <1>1 DEF Calm
  <2>2. rows' \in Seq(Row) /\ damaged' \in BOOLEAN
    BY <1>1 DEF Calm
  <2> QED BY <2>1, <2>2 DEF Calm, TypeOK
<1>4. AppendsAreBound'
  BY <1>2 DEF AppendsAreBound, Calm, Inv
<1>5. ReadersHoldTheLock'
  <2> SUFFICES ASSUME NEW q \in Procs, pc'[q] \in {"check", "commit"} PROVE txn' = q
    BY DEF ReadersHoldTheLock
  <2>1. CASE q = p
    BY <1>2, <2>1 DEF Calm
  <2>2. CASE q # p
    <3>1. txn = q
      BY <1>2, <2>2 DEF Inv, ReadersHoldTheLock
    <3>2. txn # None /\ txn # p
      BY <2>2, <3>1, SqliteAssumption
    <3> QED BY <3>1, <3>2 DEF Calm
  <2> QED BY <2>1, <2>2
<1>6. ASSUME ~damaged' PROVE Sound'
  <2>0. ~damaged /\ Sound /\ rows' = rows
    BY <1>6 DEF Calm, Inv
  <2>1. PendingRowIsNext'
    <3> SUFFICES ASSUME NEW q \in Procs, pc'[q] = "commit"
                 PROVE  /\ row'[q] = NextRow(rows, arg'[q])
                        /\ ~HoldsId(Log(rows), arg'[q].id) /\ ~KeyReuse(Log(rows), arg'[q])
      BY <2>0 DEF PendingRowIsNext
    <3>1. CASE q = p
      BY <1>2, <2>0, <3>1 DEF Calm
    <3>2. CASE q # p
      BY <1>2, <2>0, <3>2 DEF Calm, Sound, PendingRowIsNext
    <3> QED BY <3>1, <3>2
  <2>2. AnswerIsStored'
    <3> SUFFICES ASSUME NEW q \in Procs, pc'[q] = "return"
                 PROVE  \E i \in DOMAIN rows : rows[i].receipt = arg'[q]
      BY <2>0 DEF AnswerIsStored
    <3>1. CASE q = p
      BY <1>2, <2>0, <3>1 DEF Calm
    <3>2. CASE q # p
      BY <1>2, <2>0, <3>2 DEF Calm, Sound, AnswerIsStored
    <3> QED BY <3>1, <3>2
  <2>3. \A r \in returned' : \E i \in DOMAIN rows' : rows'[i].receipt = r
    BY <2>0 DEF Calm, Sound
  <2>4. verify(rows)'
    BY <2>0 DEF Sound
  <2> QED BY <2>0, <2>1, <2>2, <2>3, <2>4 DEF Sound
<1> QED BY <1>3, <1>4, <1>5, <1>6 DEF Inv

(* Opening, closing, calling, and a lock that is not free. *)
LEMMA OutsideTransaction ==
  ASSUME Inv, NEW p \in Procs,
         Open(p) \/ Close(p) \/ Busy(p) \/ (\E r \in Receipts : CallAppend(p, r))
  PROVE  Inv'
<1>1. TypeOK /\ (~damaged => Sound)
  BY DEF Inv
<1>2. CASE Open(p) \/ Close(p) \/ Busy(p)
  <2>1. PICK s \in {"open", "closed"} : pc' = [pc EXCEPT ![p] = s]
    BY <1>2 DEF Open, Close, Busy
  <2>2. UNCHANGED <<rows, txn, arg, row, returned, damaged, appends, crashes, rot>>
    BY <1>2 DEF Open, Close, Busy, file, bounds
  <2>3. Calm(p, s)
    BY <1>1, <2>1, <2>2 DEF Calm, TypeOK
  <2> QED BY <2>3, CalmStep DEF States
<1>3. ASSUME NEW r \in Receipts, CallAppend(p, r) PROVE Inv'
  <2>1. /\ pc' = [pc EXCEPT ![p] = "begin"] /\ arg' = [arg EXCEPT ![p] = r]
        /\ appends < MaxAppends /\ appends' = appends + 1
        /\ UNCHANGED <<rows, txn, row, returned, damaged, crashes, rot>>
    BY <1>3 DEF CallAppend, file
  <2>2. appends' \in 0..MaxAppends
    BY <1>1, <2>1, SqliteAssumption DEF TypeOK
  <2>3. Calm(p, "begin")
    BY <1>1, <2>1, <2>2 DEF Calm, TypeOK
  <2> QED BY <2>3, CalmStep DEF States
<1> QED BY <1>2, <1>3

(* Rolling back and crashing free the lock of the process. *)
LEMMA EndTransaction ==
  ASSUME Inv, NEW p \in Procs, Rollback(p) \/ Crash(p)
  PROVE  Inv'
<1>1. TypeOK /\ (~damaged => Sound)
  BY DEF Inv
<1>2. PICK s \in {"open", "closed"} : pc' = [pc EXCEPT ![p] = s]
  BY DEF Rollback, Crash
<1>3. UNCHANGED <<rows, arg, row, returned, damaged, appends, rot>>
  BY DEF Rollback, Crash, bounds
<1>4. crashes' \in 0..MaxCrashes
  BY <1>1, SqliteAssumption DEF Rollback, Crash, bounds, TypeOK
<1>5. txn' = txn \/ (txn' = None /\ txn = p)
  BY DEF Rollback, Crash, EndOf
<1>6. Calm(p, s)
  BY <1>1, <1>2, <1>3, <1>4, <1>5 DEF Calm, TypeOK
<1> QED BY <1>6, CalmStep DEF States

(* The write lock is taken. *)
LEMMA BeginStep == ASSUME Inv, NEW p \in Procs, Begin(p) PROVE Inv'
<1>1. TypeOK /\ arg[p] \in Receipts /\ (~damaged => Sound)
  BY DEF Inv, AppendsAreBound, Begin
<1>2. Calm(p, "check")
  BY <1>1 DEF Calm, Begin, TypeOK, bounds
<1> QED BY <1>2, CalmStep DEF States

(* A known receipt is answered with its record. *)
LEMMA ReplayStep == ASSUME Inv, NEW p \in Procs, Replay(p) PROVE Inv'
<1>1. TypeOK /\ arg[p] \in Receipts /\ (~damaged => Sound)
  BY DEF Inv, AppendsAreBound, Replay
<1>2. PICK i \in DOMAIN rows :
        \/ Rollback(p)
        \/ /\ rows[i].receipt = arg[p] /\ EndOf(p)
           /\ pc' = [pc EXCEPT ![p] = "return"]
           /\ UNCHANGED <<rows, arg, row, returned, damaged, bounds>>
  BY DEF Replay, Existing
<1>3. CASE Rollback(p)
  BY <1>3, EndTransaction
<1>4. CASE /\ rows[i].receipt = arg[p] /\ EndOf(p)
           /\ pc' = [pc EXCEPT ![p] = "return"]
           /\ UNCHANGED <<rows, arg, row, returned, damaged, bounds>>
  <2>1. Calm(p, "return")
    BY <1>1, <1>4 DEF Calm, EndOf, TypeOK, bounds
  <2> QED BY <2>1, CalmStep DEF States
<1> QED BY <1>2, <1>3, <1>4

(* The ids of the table and of its receipts are the same. *)
LEMMA FreshId ==
  ASSUME rows \in Seq(Row), \A i \in DOMAIN rows : rows[i].id = rows[i].receipt.id,
         NEW r, Existing(rows, r) = {}
  PROVE  ~HoldsId(Log(rows), r.id)
  BY DEF Existing, HoldsId, Log

(* A fresh receipt gets the next row of the chain. *)
LEMMA ChainStep == ASSUME Inv, NEW p \in Procs, Chain(p) PROVE Inv'
<1>1. TypeOK /\ arg[p] \in Receipts /\ (~damaged => Sound) /\ txn = p
  BY DEF Inv, AppendsAreBound, ReadersHoldTheLock, Chain
<1>2. CASE Rollback(p)
  BY <1>2, EndTransaction
<1>3. CASE /\ ~KeyReuse(Log(rows), arg[p])
           /\ row' = [row EXCEPT ![p] = NextRow(rows, arg[p])]
           /\ pc' = [pc EXCEPT ![p] = "commit"]
           /\ UNCHANGED <<file, arg, returned, damaged, bounds>>
  <2>1. NextRow(rows, arg[p]) \in Row
    BY <1>1, NextRowType DEF TypeOK
  <2>2. ~damaged => ~HoldsId(Log(rows), arg[p].id)
    BY <1>1, FreshId DEF Chain, Sound, TypeOK
  <2>3. /\ row' \in [Procs -> Row \cup {None}] /\ row'[p] = NextRow(rows, arg[p])
        /\ \A q \in Procs : q # p => row'[q] = row[q]
    BY <1>1, <1>3, <2>1 DEF TypeOK
  <2>4. UNCHANGED <<rows, txn, arg, returned, damaged, appends, crashes, rot>>
    BY <1>3 DEF file, bounds
  <2>5. Calm(p, "commit")
    BY <1>1, <1>3, <2>1, <2>2, <2>3, <2>4 DEF Calm, TypeOK
  <2> QED BY <2>5, CalmStep DEF States
<1> QED BY <1>2, <1>3 DEF Chain

(* The record is handed to the caller. *)
LEMMA ReturnStep == ASSUME Inv, NEW p \in Procs, Return(p) PROVE Inv'
<1>1. TypeOK /\ arg[p] \in Receipts /\ (~damaged => Sound)
  BY DEF Inv, AppendsAreBound, Return
<1>2. ~damaged => \E i \in DOMAIN rows : rows[i].receipt = arg[p]
  BY <1>1 DEF Sound, AnswerIsStored, Return
<1>3. Calm(p, "open")
  BY <1>1, <1>2 DEF Calm, Return, TypeOK, file, bounds
<1> QED BY <1>3, CalmStep DEF States

-----------------------------------------------------------------------------
(* Commits and damage *)

(* What a committed insert does. *)
Commits(p) ==
  /\ pc[p] = "commit" /\ rows' = Append(rows, row[p]) /\ EndOf(p)
  /\ pc' = [pc EXCEPT ![p] = "return"]
  /\ UNCHANGED <<arg, row, returned, damaged, bounds>>

(* No other process is inside a transaction, and the chain grows by its    *)
(* next row.                                                               *)
LEMMA CommitsStep == ASSUME Inv, NEW p \in Procs, Commits(p) PROVE Inv'
<1>1. /\ TypeOK /\ arg[p] \in Receipts /\ row[p] \in Row /\ txn = p /\ (~damaged => Sound)
  BY DEF Inv, AppendsAreBound, ReadersHoldTheLock, Commits
<1>2. /\ pc \in [Procs -> States] /\ rows \in Seq(Row) /\ pc'[p] = "return"
      /\ \A q \in Procs : q # p => pc'[q] = pc[q]
      /\ pc' \in [Procs -> States] /\ txn' = None
  BY <1>1 DEF TypeOK, Commits, EndOf, States
<1>3. /\ rows' \in Seq(Row) /\ Len(rows) \in Nat
      /\ DOMAIN rows = 1..Len(rows) /\ DOMAIN rows' = 1..(Len(rows) + 1)
      /\ \A i \in 1..Len(rows) : rows'[i] = rows[i]
      /\ rows'[Len(rows) + 1] = row[p]
  BY <1>1, <1>2, AppendFacts DEF Commits
<1>4. TypeOK'
  BY <1>1, <1>2, <1>3 DEF TypeOK, Commits, bounds
<1>5. \A q \in Procs : pc'[q] \notin {"check", "commit"}
  <2> SUFFICES ASSUME NEW q \in Procs, q # p PROVE pc[q] \notin {"check", "commit"}
    BY <1>2
  <2> QED BY <1>1 DEF Inv, ReadersHoldTheLock
<1>6. AppendsAreBound' /\ ReadersHoldTheLock'
  BY <1>1, <1>2, <1>5 DEF AppendsAreBound, ReadersHoldTheLock, Commits, Inv
<1>7. ASSUME ~damaged' PROVE Sound'
  <2>0. ~damaged /\ Sound
    BY <1>1, <1>7 DEF Commits
  <2>1. row[p] = NextRow(rows, arg[p])
    BY <2>0 DEF Sound, PendingRowIsNext, Commits
  <2>2. row[p].receipt = arg[p] /\ row[p].id = arg[p].id
    BY <2>1 DEF NextRow
  <2>3. verify(rows)'
    BY <1>1, <1>2, <2>0, <2>1, NextRowVerifies DEF Commits, Sound
  <2>4. \A i \in DOMAIN rows' : rows'[i].id = rows'[i].receipt.id
    BY <1>3, <2>0, <2>2 DEF Sound
  <2>5. Len(rows) + 1 \in DOMAIN rows' /\ DOMAIN rows \subseteq DOMAIN rows'
    BY <1>3
  <2>6. ASSUME NEW r, \E i \in DOMAIN rows : rows[i].receipt = r
        PROVE  \E i \in DOMAIN rows' : rows'[i].receipt = r
    BY <1>3, <2>5, <2>6
  <2>7. AnswerIsStored'
    <3> SUFFICES ASSUME NEW q \in Procs, pc'[q] = "return"
                 PROVE  \E i \in DOMAIN rows' : rows'[i].receipt = arg[q]
      BY DEF AnswerIsStored, Commits
    <3>1. CASE q = p
      BY <1>3, <2>2, <2>5, <3>1
    <3>2. CASE q # p
      BY <1>2, <2>0, <2>6, <3>2 DEF Sound, AnswerIsStored
    <3> QED BY <3>1, <3>2
  <2>8. \A r \in returned' : \E i \in DOMAIN rows' : rows'[i].receipt = r
    BY <2>0, <2>6 DEF Sound, Commits
  <2>9. PendingRowIsNext'
    BY <1>5 DEF PendingRowIsNext
  <2> QED BY <2>3, <2>4, <2>7, <2>8, <2>9 DEF Sound
<1> QED BY <1>4, <1>6, <1>7 DEF Inv

(* Damage keeps the types and ends all claims about the table. *)
LEMMA RotStep == ASSUME Inv, Rot PROVE Inv'
<1>1. /\ TypeOK /\ damaged' = TRUE /\ rot' = rot + 1 /\ rot < MaxRot
      /\ UNCHANGED <<txn, pc, arg, row, returned, appends, crashes>>
  BY DEF Inv, Rot
<1>2. rows' \in Seq(Row)
  <2>1. PICK i \in DOMAIN rows :
          \/ \E r \in Receipts : rows' = [rows EXCEPT ![i].receipt = r]
          \/ rows' = Without(rows, i)
    BY DEF Rot
  <2>2. rows \in Seq(Row) /\ i \in 1..Len(rows) /\ rows[i] \in Row
    BY <1>1, <2>1 DEF TypeOK
  <2>3. ASSUME NEW r \in Receipts, rows' = [rows EXCEPT ![i].receipt = r] PROVE rows' \in Seq(Row)
    <3>1. [rows[i] EXCEPT !.receipt = r] \in Row
      BY <2>2 DEF Row
    <3>2. rows' = [rows EXCEPT ![i] = [rows[i] EXCEPT !.receipt = r]]
      BY <2>3
    <3> DEFINE x == [rows[i] EXCEPT !.receipt = r]
    <3>3. x \in Row /\ rows' = [rows EXCEPT ![i] = x]
      BY <3>1, <3>2
    <3> HIDE DEF x
    <3> QED BY <2>2, <3>3
  <2>4. CASE rows' = Without(rows, i)
    BY <2>2, <2>4 DEF Without
  <2> QED BY <2>1, <2>3, <2>4
<1>3. rot' \in 0..MaxRot
  BY <1>1, SqliteAssumption DEF TypeOK
<1>4. TypeOK'
  BY <1>1, <1>2, <1>3 DEF TypeOK
<1> QED BY <1>1, <1>4 DEF Inv, AppendsAreBound, ReadersHoldTheLock

(* Every step keeps the invariant. *)
LEMMA InvStep == ASSUME Inv, [Next]_vars PROVE Inv'
<1>1. CASE UNCHANGED vars
  BY <1>1 DEF vars, file, bounds, Inv, TypeOK, AppendsAreBound, ReadersHoldTheLock, Sound,
     PendingRowIsNext, AnswerIsStored
<1>2. ASSUME NEW p \in Procs, Commit(p) PROVE Inv'
  BY <1>2, EndTransaction, CommitsStep DEF Commit, Commits
<1> QED BY <1>1, <1>2, OutsideTransaction, EndTransaction, BeginStep, ReplayStep, ChainStep,
       ReturnStep, RotStep DEF Next

(* An empty file satisfies it. *)
LEMMA InitInv == ASSUME Init PROVE Inv
<1>0. << >> \in Seq(Row) /\ 0 \in 0..MaxAppends /\ 0 \in 0..MaxCrashes /\ 0 \in 0..MaxRot
  BY SqliteAssumption
<1>1. TypeOK
  BY <1>0 DEF Init, TypeOK, States
<1>2. DOMAIN rows = {}
  BY DEF Init
<1>3. Sound
  BY <1>2 DEF Init, Sound, PendingRowIsNext, AnswerIsStored, verify
<1> QED BY <1>1, <1>3 DEF Init, Inv, AppendsAreBound, ReadersHoldTheLock

(* So it holds always. *)
LEMMA Invariance == Spec => []Inv
<1>1. Init => Inv
  BY InitInv
<1>2. Inv /\ [Next]_vars => Inv'
  BY InvStep
<1> QED BY <1>1, <1>2, PTL DEF Spec

-----------------------------------------------------------------------------
(* The theorems *)

(* The inductive invariant TLC checks on a small instance. *)
THEOREM ChainSafety == Spec => []ChainInvariant
  BY Invariance, InvIsChainInvariant, PTL

(* However many processes append to a file and wherever they crash, the    *)
(* chain verifies, so that SQLiteReceiptLedger opens the file again.       *)
THEOREM CrashedFilesReopen == Spec => []ChainVerifies
<1>1. Inv => ChainVerifies
  BY DEF Inv, Sound, ChainVerifies
<1> QED BY <1>1, Invariance, PTL

(* A record that append returned is never lost to a crash. *)
THEOREM ReturnedRecordsAreDurable == Spec => []ReturnedIsDurable
<1>1. Inv => ReturnedIsDurable
  BY DEF Inv, Sound, ReturnedIsDurable
<1> QED BY <1>1, Invariance, PTL

(* A committed row is the append of the in-memory ledger. *)
LEMMA CommitAppends ==
  ASSUME Inv, ~damaged, NEW p \in Procs, Commits(p)
  PROVE  \E r \in Receipts : ~AppendRaises(Log(rows), r) /\ Log(rows') = Appended(Log(rows), r)
<1>1. /\ rows \in Seq(Row) /\ arg[p] \in Receipts /\ row[p] \in Row /\ Sound
  BY DEF Inv, TypeOK, AppendsAreBound, Commits
<1>2. /\ row[p].receipt = arg[p]
      /\ ~HoldsId(Log(rows), arg[p].id) /\ ~KeyReuse(Log(rows), arg[p])
  <2>1. /\ row[p] = NextRow(rows, arg[p])
        /\ ~HoldsId(Log(rows), arg[p].id) /\ ~KeyReuse(Log(rows), arg[p])
    BY <1>1 DEF Sound, PendingRowIsNext, Commits
  <2>2. row[p].receipt = arg[p]
    BY <2>1 DEF NextRow
  <2> QED BY <2>1, <2>2
<1>3. /\ Len(rows) \in Nat
      /\ DOMAIN rows = 1..Len(rows) /\ DOMAIN rows' = 1..(Len(rows) + 1)
      /\ \A i \in 1..Len(rows) : rows'[i] = rows[i]
      /\ rows'[Len(rows) + 1] = row[p]
  BY <1>1, AppendFacts DEF Commits
<1>4. ~AppendRaises(Log(rows), arg[p]) /\ Appended(Log(rows), arg[p]) = Append(Log(rows), arg[p])
  BY <1>2 DEF AppendRaises, Appended
<1>5. Log(rows') = Append(Log(rows), arg[p])
  <2> DEFINE n == Len(rows)
             l == Log(rows)
             m == Log(rows')
  <2>1. l \in Seq(Receipts) /\ Len(l) = n
    <3>0. \A i \in 1..n : rows[i] \in Row
      BY <1>1
    <3>1. \A i \in 1..n : rows[i].receipt \in Receipts
      BY <3>0 DEF Row
    <3>2. l = [i \in 1..n |-> rows[i].receipt]
      BY <1>3 DEF Log
    <3> HIDE DEF l
    <3> QED BY <1>3, <3>1, <3>2
  <2>2. m = [i \in 1..(n + 1) |-> rows'[i].receipt]
    BY <1>3 DEF Log
  <2>3. \A i \in 1..n : l[i] = rows[i].receipt
    BY <1>3 DEF Log
  <2>4. \A i \in 1..n : m[i] = l[i]
    BY <1>3, <2>2, <2>3
  <2>5. m[n + 1] = arg[p]
    BY <1>2, <1>3, <2>2
  <2>6. DOMAIN m = 1..(n + 1)
    BY <2>2
  <2> DEFINE a == Append(l, arg[p])
  <2>7. a \in Seq(Receipts) /\ Len(a) = n + 1 /\ (\A i \in 1..n : a[i] = l[i]) /\ a[n + 1] = arg[p]
    <3> HIDE DEF l
    <3> QED BY <1>1, <2>1
  <2>8. m \in Seq(Receipts) /\ Len(m) = n + 1
    <3>0. rows' \in Seq(Row) /\ Len(rows') = n + 1
      BY <1>1, AppendFacts DEF Commits
    <3>2. \A i \in 1..(n + 1) : rows'[i] \in Row
      BY <3>0
    <3>1. \A i \in 1..(n + 1) : rows'[i].receipt \in Receipts
      BY <3>2 DEF Row
    <3> HIDE DEF m
    <3> QED BY <1>3, <2>2, <3>1
  <2> HIDE DEF m, a, l, n
  <2>9. \A i \in 1..(n + 1) : m[i] = a[i]
    BY <1>3, <2>4, <2>5, <2>7 DEF n
  <2> QED BY <2>7, <2>8, <2>9 DEF m, a, l
<1> QED BY <1>1, <1>4, <1>5

(* The SQLite ledger implements the append rule of the in-memory one:      *)
(* every change of an undamaged file appends one admitted receipt.         *)
THEOREM FileFollowsAppendRule == Spec => FollowsAppendRule
<1> DEFINE A == damaged' \/ \E r \in Receipts : ~AppendRaises(Log(rows), r)
                                               /\ Log(rows') = Appended(Log(rows), r)
<1>1. Inv /\ [Next]_vars => [A]_rows
  <2> SUFFICES ASSUME Inv, [Next]_vars PROVE A \/ rows' = rows
    OBVIOUS
  <2>1. CASE UNCHANGED vars
    BY <2>1 DEF vars, file
  <2>2. ASSUME NEW p \in Procs, Commits(p) PROVE A
    <3>1. CASE damaged
      BY <2>2, <3>1 DEF Commits
    <3>2. CASE ~damaged
      BY <2>2, <3>2, CommitAppends
    <3> QED BY <3>1, <3>2
  <2>3. CASE Rot
    BY <2>3 DEF Rot
  <2>4. ASSUME NEW p \in Procs,
               \/ Open(p) \/ Close(p) \/ Begin(p) \/ Busy(p) \/ Replay(p) \/ Chain(p)
               \/ Return(p) \/ Crash(p) \/ Rollback(p) \/ \E r \in Receipts : CallAppend(p, r)
        PROVE  rows' = rows
    BY <2>4 DEF Open, Close, Begin, Busy, Replay, Chain, Return, Crash, Rollback, CallAppend, file
  <2>5. ASSUME NEW p \in Procs, Commit(p) PROVE Commits(p) \/ Rollback(p)
    BY <2>5 DEF Commit, Commits
  <2> QED BY <2>1, <2>2, <2>3, <2>4, <2>5 DEF Next
<1> QED BY <1>1, Invariance, PTL DEF Spec, FollowsAppendRule

-----------------------------------------------------------------------------
(* Damage *)

(* A row whose content is not what its digest says, or that is not where   *)
(* its sequence number says.                                               *)
Broken ==
  \E i \in DOMAIN rows : rows[i].receipt_digest # rows[i].receipt \/ rows[i].seq # i - 1
DamageInv == Inv /\ (damaged => Broken /\ rot # 0)

(* verify() finds a broken row wherever it is. *)
LEMMA BrokenIsFound == ASSUME Broken PROVE ~verify(rows)
  BY DEF Broken, verify, LinkVerifies

(* Altering or losing a row of an intact chain breaks one. *)
LEMMA RotBreaks == ASSUME Inv, ~damaged, Rot PROVE Broken'
<1>1. rows \in Seq(Row) /\ verify(rows)
  BY DEF Inv, TypeOK, Sound
<1>2. PICK i \in DOMAIN rows :
        \/ \E r \in Receipts \ {rows[i].receipt} : rows' = [rows EXCEPT ![i].receipt = r]
        \/ i < Len(rows) /\ rows' = Without(rows, i)
  BY DEF Rot
<1>3. i \in 1..Len(rows) /\ Len(rows) \in Nat /\ rows[i] \in Row /\ LinkVerifies(rows, i)
  BY <1>1, <1>2 DEF verify
<1>4. ASSUME NEW r \in Receipts, r # rows[i].receipt, rows' = [rows EXCEPT ![i].receipt = r]
      PROVE  Broken'
  <2>1. /\ i \in DOMAIN rows' /\ rows'[i].receipt = r
        /\ rows'[i].receipt_digest = rows[i].receipt_digest
    BY <1>1, <1>3, <1>4 DEF Row
  <2> QED BY <1>3, <1>4, <2>1 DEF Broken, LinkVerifies
<1>5. CASE i < Len(rows) /\ rows' = Without(rows, i)
  <2> DEFINE u == SubSeq(rows, 1, i - 1)
             v == SubSeq(rows, i + 1, Len(rows))
  <2>1. u \in Seq(Row) /\ v \in Seq(Row) /\ Len(u) = i - 1 /\ Len(v) = Len(rows) - i
        /\ v[1] = rows[i + 1]
    BY <1>1, <1>3, <1>5
  <2>2. rows' = u \o v
    BY <1>5 DEF Without
  <2> HIDE DEF u, v
  <2>3. i \in DOMAIN rows' /\ rows'[i] = v[1]
    BY <1>3, <1>5, <2>1, <2>2
  <2>4. rows[i + 1].seq = i
    BY <1>1, <1>3, <1>5 DEF verify, LinkVerifies
  <2>5. rows'[i].seq # i - 1
    BY <1>3, <2>1, <2>3, <2>4
  <2> QED BY <2>3, <2>5 DEF Broken
<1> QED BY <1>2, <1>4, <1>5

(* A broken row stays where it is unless the storage damages another. *)
LEMMA BrokenStays == ASSUME Inv, Broken, [Next]_vars, ~Rot PROVE Broken'
<1>1. CASE rows' = rows
  BY <1>1 DEF Broken
<1>2. ASSUME NEW p \in Procs, Commits(p) PROVE Broken'
  <2>1. rows \in Seq(Row) /\ row[p] \in Row /\ rows' = Append(rows, row[p])
    BY <1>2 DEF Inv, TypeOK, AppendsAreBound, Commits
  <2>2. DOMAIN rows \subseteq DOMAIN rows' /\ \A i \in DOMAIN rows : rows'[i] = rows[i]
    BY <2>1
  <2> QED BY <2>2 DEF Broken
<1> QED BY <1>1, <1>2 DEF Next, Open, Close, Begin, Busy, Replay, Chain, Commit, Commits, Return,
     Crash, Rollback, CallAppend, file, vars

(* One row that the storage alters or loses is told for good: neither an   *)
(* append under way at that moment nor any later one hides it from         *)
(* verify(), so no process opens the file.  (A second damage could undo    *)
(* the first.)                                                             *)
THEOREM DamageIsTold ==
  ASSUME MaxRot <= 1
  PROVE  Spec => []DamageStaysVisible
<1>1. Init => DamageInv
  BY InitInv DEF Init, DamageInv
<1>2. DamageInv /\ [Next]_vars => DamageInv'
  <2> SUFFICES ASSUME DamageInv, [Next]_vars PROVE DamageInv'
    OBVIOUS
  <2>1. Inv /\ Inv'
    BY InvStep DEF DamageInv
  <2>2. CASE Rot
    <3>1. rot = 0 /\ rot' = 1 /\ rot' # 0
      BY <2>1, <2>2, SqliteAssumption DEF Rot, Inv, TypeOK
    <3> QED BY <2>1, <2>2, <3>1, RotBreaks DEF DamageInv
  <2>3. CASE ~Rot
    <3>1. damaged' = damaged /\ rot' = rot
      BY <2>3 DEF Next, Open, Close, Begin, Busy, Replay, Chain, Commit, Return, Crash,
         Rollback, CallAppend, bounds, vars
    <3> QED BY <2>1, <2>3, <3>1, BrokenStays DEF DamageInv
  <2> QED BY <2>2, <2>3
<1>3. DamageInv => DamageStaysVisible
  BY BrokenIsFound DEF DamageInv, DamageStaysVisible
<1> QED BY <1>1, <1>2, <1>3, PTL DEF Spec

-----------------------------------------------------------------------------
(* The populations of the policy ecology *)

(* What the invariant says of one process. *)
Own(p) == P!JobIsSound(p) /\ P!UncommittedReplays(p) /\ P!TransactionIsExplained(p)

(* A step of p takes nothing from another process: what it can see grows,  *)
(* and its locks stay its own.                                             *)
Frame(p) ==
  /\ stored \subseteq stored'
  /\ \A q \in Users : q # p =>
       /\ at'[q] = at[q] /\ job'[q] = job[q] /\ inTxn'[q] = inTxn[q] /\ own'[q] = own[q]
       /\ clean'[q] = clean[q] /\ raised'[q] = raised[q]
       /\ q \in shared' <=> q \in shared
       /\ reserved' = q <=> reserved = q

(* Rows of the two tables are never the same. *)
LEMMA TablesDiffer ==
  ASSUME NEW x, NEW y
  PROVE  /\ P!Population(x) # P!Transition(y)
         /\ P!Transition(x) = P!Transition(y) => x = y
<1>1. Len(<<x>>) = 1 /\ Len(<<y, ChildOf[y]>>) = 2
  OBVIOUS
<1> QED BY <1>1 DEF P!Population, P!Transition

(* Another process keeps its part of the invariant. *)
LEMMA OthersKeep ==
  ASSUME NEW p \in Users, NEW q \in Users, q # p, Own(q), Frame(p)
  PROVE  Own(q)'
<1>1. /\ at'[q] = at[q] /\ job'[q] = job[q] /\ inTxn'[q] = inTxn[q] /\ own'[q] = own[q]
      /\ clean'[q] = clean[q] /\ raised'[q] = raised[q]
      /\ q \in shared' <=> q \in shared
      /\ reserved' = q <=> reserved = q
  BY DEF Frame
<1>2. stored \cup own[q] \subseteq stored' \cup own'[q]
  BY <1>1 DEF Frame
<1>3. P!JobIsSound(q)'
  BY <1>1, <1>2 DEF Own, P!JobIsSound, P!Working, P!Visible
<1>4. P!UncommittedReplays(q)'
  BY <1>1, <1>2 DEF Own, P!UncommittedReplays, P!Visible
<1>5. P!TransactionIsExplained(q)'
  BY <1>1 DEF Own, P!TransactionIsExplained
<1> QED BY <1>3, <1>4, <1>5 DEF Own

(* So a step has to account for the process that takes it. *)
LEMMA StepKeeps ==
  ASSUME P!StoreInvariant, NEW p \in Users, Frame(p), Own(p)',
         P!TypeOK', P!StoredTransitionsReplay', P!CleanReturnsAreDurable'
  PROVE  P!StoreInvariant'
<1>1. ASSUME NEW q \in Users PROVE Own(q)'
  <2>1. Own(q)
    BY DEF P!StoreInvariant, Own
  <2> QED BY <2>1, OthersKeep
<1> QED BY <1>1 DEF P!StoreInvariant, Own

(* A step that stores nothing keeps what the file promises. *)
LEMMA SameFile ==
  ASSUME P!StoreInvariant, stored' = stored, sure' \subseteq sure \cup stored
  PROVE  P!StoredTransitionsReplay' /\ P!CleanReturnsAreDurable'
  BY DEF P!StoreInvariant, P!StoredTransitionsReplay, P!CleanReturnsAreDurable

-----------------------------------------------------------------------------
(* One lemma per action *)

(* A connection is opened. *)
LEMMA OpenKeeps ==
  ASSUME P!StoreAssumption, P!StoreInvariant, NEW p \in Users, P!Open(p) PROVE P!StoreInvariant'
<1>1. /\ P!TypeOK /\ Own(p) /\ at[p] = "closed" /\ at' = [at EXCEPT ![p] = "open"]
      /\ UNCHANGED <<stored, shared, reserved, pending, inTxn, own, job, clean, raised,
                     answered, sure, calls>>
  BY DEF P!StoreInvariant, Own, P!Open, P!locks, P!told
<1>2. at'[p] = "open" /\ \A q \in Users : q # p => at'[q] = at[q]
  BY <1>1 DEF P!TypeOK
<1>3. P!TypeOK'
  BY <1>1 DEF P!TypeOK
<1>4. Frame(p)
  BY <1>1, <1>2 DEF Frame
<1>5. Own(p)'
  BY <1>1, <1>2 DEF Own, P!JobIsSound, P!Working, P!UncommittedReplays, P!Visible,
     P!TransactionIsExplained
<1> QED BY <1>1, <1>3, <1>4, <1>5, SameFile, StepKeeps

(* What dropping a transaction leaves. *)
LEMMA DroppedFacts ==
  ASSUME P!TypeOK, NEW p \in Users, P!Dropped(p), P!StoreAssumption
  PROVE  /\ shared' \subseteq Users /\ reserved' \in Users \cup {None} /\ pending' \in BOOLEAN
         /\ inTxn' \in [Users -> BOOLEAN] /\ own' \in [Users -> SUBSET P!Rows]
         /\ ~inTxn'[p] /\ own'[p] = {} /\ p \notin shared' /\ reserved' # p
         /\ \A q \in Users : q # p =>
              /\ inTxn'[q] = inTxn[q] /\ own'[q] = own[q]
              /\ q \in shared' <=> q \in shared
              /\ reserved' = q <=> reserved = q
  BY DEF P!TypeOK, P!Dropped, P!StoreAssumption

(* A process closes its connection or dies. *)
LEMMA LeaveKeeps ==
  ASSUME P!StoreAssumption, P!StoreInvariant, NEW p \in Users, P!Leave(p) PROVE P!StoreInvariant'
<1>1. /\ P!TypeOK /\ P!Dropped(p) /\ at' = [at EXCEPT ![p] = "closed"]
      /\ raised' = [raised EXCEPT ![p] = FALSE]
      /\ UNCHANGED <<stored, job, clean, answered, sure, calls>>
  BY DEF P!StoreInvariant, P!Leave
<1>2. /\ shared' \subseteq Users /\ reserved' \in Users \cup {None} /\ pending' \in BOOLEAN
      /\ inTxn' \in [Users -> BOOLEAN] /\ own' \in [Users -> SUBSET P!Rows]
      /\ ~inTxn'[p] /\ own'[p] = {} /\ p \notin shared' /\ reserved' # p
      /\ \A q \in Users : q # p =>
           /\ inTxn'[q] = inTxn[q] /\ own'[q] = own[q]
           /\ q \in shared' <=> q \in shared
           /\ reserved' = q <=> reserved = q
  BY <1>1, DroppedFacts
<1>3. at'[p] = "closed" /\ \A q \in Users : q # p => at'[q] = at[q] /\ raised'[q] = raised[q]
  BY <1>1 DEF P!TypeOK
<1>4. P!TypeOK'
  BY <1>1, <1>2 DEF P!TypeOK
<1>5. Frame(p)
  BY <1>1, <1>2, <1>3 DEF Frame
<1>6. Own(p)'
  BY <1>2, <1>3 DEF Own, P!JobIsSound, P!Working, P!UncommittedReplays, P!TransactionIsExplained
<1> QED BY <1>1, <1>4, <1>5, <1>6, SameFile, StepKeeps

(* A call begins: put() with its population, condition() with the parent   *)
(* and the child it will put first.                                        *)
LEMMA CallKeeps ==
  ASSUME P!StoreAssumption, P!StoreInvariant, NEW p \in Users, P!Put(p) \/ P!Condition(p)
  PROVE  P!StoreInvariant'
<1>1. PICK x \in Populations : \/ P!Called(p, None, P!Population(x), "select")
                               \/ P!Called(p, x, P!Population(ChildOf[x]), "get")
  BY DEF P!Put, P!Condition
<1>2. PICK j \in P!Jobs, s \in {"get", "select"} :
        /\ P!Called(p, j.parent, j.row, s) /\ j = [parent |-> j.parent, row |-> j.row]
        /\ \/ s = "select" /\ j.parent = None /\ j.row = P!Population(x)
           \/ s = "get" /\ j.parent = x /\ j.row = P!Population(ChildOf[x])
  <2>1. ChildOf[x] \in Populations
    BY DEF P!StoreAssumption
  <2>2. CASE P!Called(p, None, P!Population(x), "select")
    <3> DEFINE k == [parent |-> None, row |-> P!Population(x)]
    <3>1. k \in P!Jobs /\ k.parent = None /\ k.row = P!Population(x)
      BY DEF P!Jobs, P!Rows
    <3> QED BY <2>2, <3>1
  <2>3. CASE P!Called(p, x, P!Population(ChildOf[x]), "get")
    <3> DEFINE k == [parent |-> x, row |-> P!Population(ChildOf[x])]
    <3>1. k \in P!Jobs /\ k.parent = x /\ k.row = P!Population(ChildOf[x])
      BY <2>1 DEF P!Jobs, P!Rows
    <3> QED BY <2>3, <3>1
  <2> QED BY <1>1, <2>2, <2>3
<1>3. /\ P!TypeOK /\ Own(p) /\ at[p] = "open" /\ calls < MaxCalls /\ calls' = calls + 1
      /\ job' = [job EXCEPT ![p] = j] /\ clean' = [clean EXCEPT ![p] = ~inTxn[p]]
      /\ at' = [at EXCEPT ![p] = s]
      /\ UNCHANGED <<stored, shared, reserved, pending, inTxn, own, raised, answered, sure>>
  BY <1>2 DEF P!StoreInvariant, Own, P!Called, P!locks
<1>4. /\ at'[p] = s /\ job'[p] = j /\ clean'[p] = ~inTxn[p]
      /\ \A q \in Users : q # p => at'[q] = at[q] /\ job'[q] = job[q] /\ clean'[q] = clean[q]
  BY <1>3 DEF P!TypeOK
<1>5. calls' \in 0..MaxCalls
  BY <1>3 DEF P!TypeOK, P!StoreAssumption
<1>6. P!TypeOK'
  BY <1>3, <1>5 DEF P!TypeOK
<1>7. Frame(p)
  BY <1>3, <1>4 DEF Frame
<1>8. P!JobIsSound(p)'
  <2>1. x # None /\ j.row # P!Transition(x)
    BY <1>2, TablesDiffer DEF P!StoreAssumption
  <2> QED BY <1>2, <1>4, <2>1 DEF P!JobIsSound, P!Working
<1>9. P!UncommittedReplays(p)' /\ P!TransactionIsExplained(p)'
  BY <1>3, <1>4 DEF Own, P!UncommittedReplays, P!Visible, P!TransactionIsExplained
<1> QED BY <1>3, <1>6, <1>7, <1>8, <1>9, SameFile, StepKeeps DEF Own

(* A process whose call raises keeps what it has. *)
LEMMA RaiseFacts ==
  ASSUME P!TypeOK, NEW p \in Users, P!Raises(p)
  PROVE  /\ at'[p] = "open" /\ raised'[p] = TRUE
         /\ at' \in [Users -> {"closed", "open", "get", "select", "insert", "commit"}]
         /\ raised' \in [Users -> BOOLEAN]
         /\ \A q \in Users : q # p => at'[q] = at[q] /\ raised'[q] = raised[q]
         /\ UNCHANGED <<job, clean, answered, sure, calls>>
  BY DEF P!Raises, P!TypeOK

(* A read takes at most a SHARED lock, and only inside a transaction. *)
LEMMA ReadFacts ==
  ASSUME P!TypeOK, NEW p \in Users, P!Reads(p)
  PROVE  /\ shared' \subseteq Users /\ (p \in shared' => inTxn[p] \/ p \in shared)
         /\ \A q \in Users : q # p => (q \in shared' <=> q \in shared)
         /\ UNCHANGED <<stored, reserved, pending, inTxn, own>>
  BY DEF P!Reads, P!TypeOK

(* The parent is looked up. *)
LEMMA GetKeeps ==
  ASSUME P!StoreAssumption, P!StoreInvariant, NEW p \in Users, P!Get(p) PROVE P!StoreInvariant'
<1>1. P!TypeOK /\ Own(p) /\ at[p] = "get" /\ P!Reads(p)
  BY DEF P!StoreInvariant, Own, P!Get
<1>2. /\ shared' \subseteq Users /\ (p \in shared' => inTxn[p] \/ p \in shared)
      /\ \A q \in Users : q # p => (q \in shared' <=> q \in shared)
      /\ UNCHANGED <<stored, reserved, pending, inTxn, own>>
  BY <1>1, ReadFacts
<1>3. CASE P!Raises(p)
  <2>1. /\ at'[p] = "open" /\ raised'[p] = TRUE
        /\ at' \in [Users -> {"closed", "open", "get", "select", "insert", "commit"}]
        /\ raised' \in [Users -> BOOLEAN]
        /\ \A q \in Users : q # p => at'[q] = at[q] /\ raised'[q] = raised[q]
        /\ UNCHANGED <<job, clean, answered, sure, calls>>
    BY <1>1, <1>3, RaiseFacts
  <2>2. P!TypeOK'
    BY <1>1, <1>2, <2>1 DEF P!TypeOK
  <2>3. Frame(p)
    BY <1>2, <2>1 DEF Frame
  <2>4. Own(p)'
    BY <1>1, <1>2, <2>1 DEF Own, P!JobIsSound, P!Working, P!UncommittedReplays, P!Visible,
       P!TransactionIsExplained
  <2> QED BY <1>2, <2>1, <2>2, <2>3, <2>4, SameFile, StepKeeps
<1>4. CASE /\ P!Population(job[p].parent) \in P!Visible(p)
           /\ at' = [at EXCEPT ![p] = "select"] /\ UNCHANGED <<job, P!told, calls>>
  <2>1. /\ at'[p] = "select" /\ \A q \in Users : q # p => at'[q] = at[q]
        /\ UNCHANGED <<job, clean, raised, answered, sure, calls>>
    BY <1>1, <1>4 DEF P!TypeOK, P!told
  <2>2. P!TypeOK'
    BY <1>1, <1>2, <1>4, <2>1 DEF P!TypeOK
  <2>3. Frame(p)
    BY <1>2, <2>1 DEF Frame
  <2>4. P!JobIsSound(p)'
    BY <1>1, <1>2, <1>4, <2>1 DEF Own, P!JobIsSound, P!Working, P!Visible
  <2>5. P!UncommittedReplays(p)' /\ P!TransactionIsExplained(p)'
    BY <1>1, <1>2, <2>1 DEF Own, P!UncommittedReplays, P!Visible, P!TransactionIsExplained
  <2> QED BY <1>2, <2>1, <2>2, <2>3, <2>4, <2>5, SameFile, StepKeeps DEF Own
<1> QED BY <1>3, <1>4 DEF P!Get

(* A record is returned, or condition() goes on to its transition, which   *)
(* finds parent and child among what the process sees.                     *)
LEMMA DoneFacts ==
  ASSUME P!StoreAssumption, P!TypeOK, NEW p \in Users, P!Working(p), at[p] # "get",
         P!JobIsSound(p), P!Done(p),
         stored \cup own[p] \subseteq stored' \cup own'[p], job[p].row \in stored' \cup own'[p]
  PROVE  /\ at' \in [Users -> {"closed", "open", "get", "select", "insert", "commit"}]
         /\ at'[p] \in {"open", "select"} /\ \A q \in Users : q # p => at'[q] = at[q]
         /\ job' \in [Users -> P!Jobs \cup {None}] /\ \A q \in Users : q # p => job'[q] = job[q]
         /\ clean' = clean /\ answered' \subseteq P!Rows /\ sure' \subseteq answered'
         /\ sure' \subseteq sure \cup (IF clean[p] THEN {job[p].row} ELSE {})
         /\ P!JobIsSound(p)'
<1>1. job[p] \in P!Jobs /\ job[p].row \in P!Rows
  BY DEF P!JobIsSound, P!Jobs
<1>2. CASE job[p].parent # None /\ job[p].row # P!Transition(job[p].parent)
  <2>1. PICK x \in Populations : x = job[p].parent
    BY <1>1, <1>2 DEF P!Jobs
  <2>2. /\ job' = [job EXCEPT ![p].row = P!Transition(x)] /\ at' = [at EXCEPT ![p] = "select"]
        /\ UNCHANGED <<clean, answered, sure>>
    BY <1>2, <2>1 DEF P!Done
  <2> DEFINE j == [job[p] EXCEPT !.row = P!Transition(x)]
  <2>3. j \in P!Jobs /\ j.parent = x /\ j.row = P!Transition(x)
    BY <1>1, <2>1 DEF P!Jobs, P!Rows
  <2>4. job' = [job EXCEPT ![p] = j]
    BY <2>2
  <2> HIDE DEF j
  <2>5. /\ at'[p] = "select" /\ job'[p] = j /\ job' \in [Users -> P!Jobs \cup {None}]
        /\ \A q \in Users : q # p => at'[q] = at[q] /\ job'[q] = job[q]
        /\ at' \in [Users -> {"closed", "open", "get", "select", "insert", "commit"}]
    BY <2>2, <2>3, <2>4 DEF P!TypeOK
  <2>6. /\ P!Population(x) \in stored' \cup own'[p]
        /\ P!Population(ChildOf[x]) \in stored' \cup own'[p]
    BY <1>2, <2>1 DEF P!JobIsSound, P!Visible
  <2>7. P!JobIsSound(p)'
    BY <2>1, <2>3, <2>5, <2>6 DEF P!JobIsSound, P!Working, P!Visible, P!StoreAssumption
  <2> QED BY <2>2, <2>5, <2>7 DEF P!TypeOK
<1>3. CASE ~(job[p].parent # None /\ job[p].row # P!Transition(job[p].parent))
  <2>1. /\ at' = [at EXCEPT ![p] = "open"] /\ answered' = answered \cup {job[p].row}
        /\ sure' = IF clean[p] THEN sure \cup {job[p].row} ELSE sure
        /\ UNCHANGED <<job, clean>>
    BY <1>3 DEF P!Done
  <2>2. /\ at'[p] = "open" /\ \A q \in Users : q # p => at'[q] = at[q]
        /\ at' \in [Users -> {"closed", "open", "get", "select", "insert", "commit"}]
    BY <2>1 DEF P!TypeOK
  <2>3. P!JobIsSound(p)'
    BY <2>2 DEF P!JobIsSound, P!Working
  <2> QED BY <1>1, <2>1, <2>2, <2>3 DEF P!TypeOK
<1> QED BY <1>2, <1>3

(* The row is looked for: a call that found no transaction open sees only  *)
(* what is committed.                                                      *)
LEMMA SelectKeeps ==
  ASSUME P!StoreAssumption, P!StoreInvariant, NEW p \in Users, P!Select(p) PROVE P!StoreInvariant'
<1>1. P!TypeOK /\ Own(p) /\ at[p] = "select" /\ P!Reads(p) /\ UNCHANGED <<raised, calls>>
  BY DEF P!StoreInvariant, Own, P!Select
<1>2. /\ shared' \subseteq Users /\ (p \in shared' => inTxn[p] \/ p \in shared)
      /\ \A q \in Users : q # p => (q \in shared' <=> q \in shared)
      /\ UNCHANGED <<stored, reserved, pending, inTxn, own>>
  BY <1>1, ReadFacts
<1>3. CASE job[p].row \in P!Visible(p) /\ P!Done(p)
  <2>1. /\ at' \in [Users -> {"closed", "open", "get", "select", "insert", "commit"}]
        /\ at'[p] \in {"open", "select"} /\ \A q \in Users : q # p => at'[q] = at[q]
        /\ job' \in [Users -> P!Jobs \cup {None}] /\ \A q \in Users : q # p => job'[q] = job[q]
        /\ clean' = clean /\ answered' \subseteq P!Rows /\ sure' \subseteq answered'
        /\ sure' \subseteq sure \cup (IF clean[p] THEN {job[p].row} ELSE {})
        /\ P!JobIsSound(p)'
    <3>1. P!Working(p) /\ at[p] # "get" /\ P!JobIsSound(p)
      BY <1>1 DEF P!Working, Own
    <3>2. stored \cup own[p] \subseteq stored' \cup own'[p] /\ job[p].row \in stored' \cup own'[p]
      BY <1>2, <1>3 DEF P!Visible
    <3> QED BY <1>1, <1>3, <3>1, <3>2, DoneFacts
  <2>2. sure' \subseteq sure \cup stored
    <3>1. clean[p] => own[p] = {}
      BY <1>1 DEF Own, P!TransactionIsExplained
    <3> QED BY <1>3, <2>1, <3>1 DEF P!Visible
  <2>3. P!TypeOK'
    BY <1>1, <1>2, <2>1 DEF P!TypeOK
  <2>4. Frame(p)
    BY <1>1, <1>2, <2>1 DEF Frame
  <2>5. P!UncommittedReplays(p)' /\ P!TransactionIsExplained(p)'
    BY <1>1, <1>2, <2>1 DEF Own, P!UncommittedReplays, P!Visible, P!TransactionIsExplained
  <2> QED BY <1>2, <2>1, <2>2, <2>3, <2>4, <2>5, SameFile, StepKeeps DEF Own
<1>4. CASE at' = [at EXCEPT ![p] = "insert"] /\ UNCHANGED <<job, clean, answered, sure>>
  <2>1. at'[p] = "insert" /\ \A q \in Users : q # p => at'[q] = at[q]
    BY <1>1, <1>4 DEF P!TypeOK
  <2>2. P!TypeOK'
    BY <1>1, <1>2, <1>4 DEF P!TypeOK
  <2>3. Frame(p)
    BY <1>1, <1>2, <1>4, <2>1 DEF Frame
  <2>4. P!JobIsSound(p)'
    BY <1>1, <1>2, <1>4, <2>1 DEF Own, P!JobIsSound, P!Working, P!Visible
  <2>5. P!UncommittedReplays(p)' /\ P!TransactionIsExplained(p)'
    BY <1>1, <1>2, <1>4, <2>1 DEF Own, P!UncommittedReplays, P!Visible, P!TransactionIsExplained
  <2> QED BY <1>2, <1>4, <2>2, <2>3, <2>4, <2>5, SameFile, StepKeeps DEF Own
<1> QED BY <1>3, <1>4 DEF P!Select

(* The row is inserted, or raises because it is there already. *)
LEMMA InsertKeeps ==
  ASSUME P!StoreAssumption, P!StoreInvariant, NEW p \in Users, P!Insert(p) PROVE P!StoreInvariant'
<1>1. /\ P!TypeOK /\ Own(p) /\ at[p] = "insert" /\ reserved \in {None, p}
      /\ inTxn' = [inTxn EXCEPT ![p] = TRUE] /\ shared' = shared \cup {p} /\ reserved' = p
      /\ UNCHANGED <<stored, pending>>
  BY DEF P!StoreInvariant, Own, P!Insert, P!MayWrite
<1>2. /\ inTxn'[p] = TRUE /\ inTxn' \in [Users -> BOOLEAN] /\ shared' \subseteq Users
      /\ \A q \in Users : q # p => /\ inTxn'[q] = inTxn[q]
                                   /\ q \in shared' <=> q \in shared
                                   /\ reserved' = q <=> reserved = q
  BY <1>1 DEF P!TypeOK, P!StoreAssumption
<1>3. CASE P!Raises(p) /\ UNCHANGED own
  <2>1. /\ at'[p] = "open" /\ raised'[p] = TRUE
        /\ at' \in [Users -> {"closed", "open", "get", "select", "insert", "commit"}]
        /\ raised' \in [Users -> BOOLEAN]
        /\ \A q \in Users : q # p => at'[q] = at[q] /\ raised'[q] = raised[q]
        /\ UNCHANGED <<job, clean, answered, sure, calls>>
    BY <1>1, <1>3, RaiseFacts
  <2>2. P!TypeOK'
    BY <1>1, <1>2, <1>3, <2>1 DEF P!TypeOK
  <2>3. Frame(p)
    BY <1>1, <1>2, <1>3, <2>1 DEF Frame
  <2>4. Own(p)'
    BY <1>1, <1>2, <1>3, <2>1 DEF Own, P!JobIsSound, P!Working, P!UncommittedReplays, P!Visible,
       P!TransactionIsExplained
  <2> QED BY <1>1, <2>1, <2>2, <2>3, <2>4, SameFile, StepKeeps
<1>4. CASE /\ own' = [own EXCEPT ![p] = @ \cup {job[p].row}]
           /\ at' = [at EXCEPT ![p] = "commit"] /\ UNCHANGED <<job, P!told, calls>>
  <2>1. P!JobIsSound(p) /\ P!Working(p) /\ job[p] \in P!Jobs /\ job[p].row \in P!Rows
    BY <1>1 DEF Own, P!JobIsSound, P!Working, P!Jobs
  <2>2. /\ at'[p] = "commit" /\ own'[p] = own[p] \cup {job[p].row}
        /\ \A q \in Users : q # p => at'[q] = at[q] /\ own'[q] = own[q]
        /\ own' \in [Users -> SUBSET P!Rows]
        /\ UNCHANGED <<job, clean, raised, answered, sure, calls>>
    BY <1>1, <1>4, <2>1 DEF P!TypeOK, P!told
  <2>3. P!TypeOK'
    BY <1>1, <1>2, <1>4, <2>2 DEF P!TypeOK
  <2>4. Frame(p)
    BY <1>1, <1>2, <2>2 DEF Frame
  <2>5. stored \cup own[p] \subseteq stored' \cup own'[p]
    BY <1>1, <2>2
  <2>6. P!JobIsSound(p)'
    BY <1>1, <2>1, <2>2, <2>5 DEF P!JobIsSound, P!Working, P!Visible
  <2>7. P!UncommittedReplays(p)'
    <3> SUFFICES ASSUME NEW x \in Populations, P!Transition(x) \in own'[p]
                 PROVE  {P!Population(x), P!Population(ChildOf[x])} \subseteq stored' \cup own'[p]
      BY DEF P!UncommittedReplays, P!Visible
    <3>1. CASE P!Transition(x) \in own[p]
      BY <1>1, <2>5, <3>1 DEF Own, P!UncommittedReplays, P!Visible
    <3>2. CASE job[p].row = P!Transition(x)
      <4>1. job[p].parent = x
        BY <2>1, <3>2, TablesDiffer DEF P!JobIsSound
      <4> QED BY <1>1, <2>1, <2>5, <3>2, <4>1 DEF P!JobIsSound, P!Visible, P!StoreAssumption
    <3> QED BY <2>2, <3>1, <3>2
  <2>8. P!TransactionIsExplained(p)'
    BY <1>2, <2>2 DEF P!TransactionIsExplained
  <2> QED BY <1>1, <2>2, <2>3, <2>4, <2>6, <2>7, <2>8, SameFile, StepKeeps DEF Own
<1> QED BY <1>3, <1>4 DEF P!Insert

(* The transaction is committed: what would have replayed now does, and    *)
(* the row of the call is in the file.                                     *)
LEMMA CommitKeeps ==
  ASSUME P!StoreAssumption, P!StoreInvariant, NEW p \in Users, P!Commit(p) PROVE P!StoreInvariant'
<1>1. /\ P!TypeOK /\ Own(p) /\ at[p] = "commit" /\ stored' = stored \cup own[p]
      /\ P!Dropped(p) /\ P!Done(p) /\ raised' = [raised EXCEPT ![p] = FALSE] /\ UNCHANGED calls
  BY DEF P!StoreInvariant, Own, P!Commit
<1>2. /\ shared' \subseteq Users /\ reserved' \in Users \cup {None} /\ pending' \in BOOLEAN
      /\ inTxn' \in [Users -> BOOLEAN] /\ own' \in [Users -> SUBSET P!Rows]
      /\ ~inTxn'[p] /\ own'[p] = {} /\ p \notin shared' /\ reserved' # p
      /\ \A q \in Users : q # p =>
           /\ inTxn'[q] = inTxn[q] /\ own'[q] = own[q]
           /\ q \in shared' <=> q \in shared
           /\ reserved' = q <=> reserved = q
  BY <1>1, DroppedFacts
<1>3. job[p].row \in own[p]
  BY <1>1 DEF Own, P!TransactionIsExplained
<1>4. /\ at' \in [Users -> {"closed", "open", "get", "select", "insert", "commit"}]
      /\ at'[p] \in {"open", "select"} /\ \A q \in Users : q # p => at'[q] = at[q]
      /\ job' \in [Users -> P!Jobs \cup {None}] /\ \A q \in Users : q # p => job'[q] = job[q]
      /\ clean' = clean /\ answered' \subseteq P!Rows /\ sure' \subseteq answered'
      /\ sure' \subseteq sure \cup (IF clean[p] THEN {job[p].row} ELSE {})
      /\ P!JobIsSound(p)'
  <2>1. P!Working(p) /\ at[p] # "get" /\ P!JobIsSound(p)
    BY <1>1 DEF P!Working, Own
  <2>2. stored \cup own[p] \subseteq stored' \cup own'[p] /\ job[p].row \in stored' \cup own'[p]
    BY <1>1, <1>3
  <2> QED BY <1>1, <2>1, <2>2, DoneFacts
<1>5. raised' \in [Users -> BOOLEAN] /\ \A q \in Users : q # p => raised'[q] = raised[q]
  BY <1>1 DEF P!TypeOK
<1>6. P!TypeOK'
  BY <1>1, <1>2, <1>4, <1>5 DEF P!TypeOK
<1>7. Frame(p)
  BY <1>1, <1>2, <1>4, <1>5 DEF Frame
<1>8. P!StoredTransitionsReplay'
  BY <1>1 DEF P!StoreInvariant, P!StoredTransitionsReplay, Own, P!UncommittedReplays, P!Visible
<1>9. P!CleanReturnsAreDurable'
  BY <1>1, <1>3, <1>4 DEF P!StoreInvariant, P!CleanReturnsAreDurable
<1>10. P!UncommittedReplays(p)' /\ P!TransactionIsExplained(p)'
  BY <1>2, <1>4 DEF P!UncommittedReplays, P!TransactionIsExplained
<1> QED BY <1>4, <1>6, <1>7, <1>8, <1>9, <1>10, StepKeeps DEF Own

(* A lock is not free in time: the transaction stays as it is, or has just *)
(* been begun.                                                             *)
LEMMA BusyKeeps ==
  ASSUME P!StoreAssumption, P!StoreInvariant, NEW p \in Users, P!Busy(p) PROVE P!StoreInvariant'
<1>1. /\ P!TypeOK /\ Own(p) /\ P!Working(p) /\ P!Raises(p)
      /\ UNCHANGED <<stored, shared, reserved, own>>
      /\ \/ UNCHANGED <<inTxn, pending>>
         \/ inTxn' = [inTxn EXCEPT ![p] = TRUE] /\ UNCHANGED pending
         \/ pending' = TRUE /\ UNCHANGED inTxn
  BY DEF P!StoreInvariant, Own, P!Busy, P!Working
<1>2. /\ pending' \in BOOLEAN /\ inTxn' \in [Users -> BOOLEAN] /\ (inTxn[p] => inTxn'[p])
      /\ \A q \in Users : q # p => inTxn'[q] = inTxn[q]
  BY <1>1 DEF P!TypeOK
<1>3. /\ at'[p] = "open" /\ raised'[p] = TRUE
      /\ at' \in [Users -> {"closed", "open", "get", "select", "insert", "commit"}]
      /\ raised' \in [Users -> BOOLEAN]
      /\ \A q \in Users : q # p => at'[q] = at[q] /\ raised'[q] = raised[q]
      /\ UNCHANGED <<job, clean, answered, sure, calls>>
  BY <1>1, RaiseFacts
<1>4. P!TypeOK'
  BY <1>1, <1>2, <1>3 DEF P!TypeOK
<1>5. Frame(p)
  BY <1>1, <1>2, <1>3 DEF Frame
<1>6. Own(p)'
  BY <1>1, <1>2, <1>3 DEF Own, P!JobIsSound, P!Working, P!UncommittedReplays, P!Visible,
     P!TransactionIsExplained
<1> QED BY <1>1, <1>3, <1>4, <1>5, <1>6, SameFile, StepKeeps

-----------------------------------------------------------------------------
(* The theorems *)

(* An empty store satisfies the invariant. *)
LEMMA InitStore ==
  ASSUME P!StoreAssumption, P!Init PROVE P!StoreInvariant
<1>1. P!TypeOK
  <2>1. /\ at \in [Users -> {"closed", "open", "get", "select", "insert", "commit"}]
        /\ own \in [Users -> SUBSET P!Rows] /\ job \in [Users -> P!Jobs \cup {None}]
    BY DEF P!Init
  <2>2. /\ inTxn \in [Users -> BOOLEAN] /\ clean \in [Users -> BOOLEAN]
        /\ raised \in [Users -> BOOLEAN]
    BY DEF P!Init
  <2>3. calls \in 0..MaxCalls
    BY DEF P!Init, P!StoreAssumption
  <2> QED BY <2>1, <2>2, <2>3 DEF P!Init, P!TypeOK
<1>2. P!StoredTransitionsReplay /\ P!CleanReturnsAreDurable
  BY DEF P!Init, P!StoredTransitionsReplay, P!CleanReturnsAreDurable
<1>3. ASSUME NEW p \in Users
      PROVE  P!JobIsSound(p) /\ P!UncommittedReplays(p) /\ P!TransactionIsExplained(p)
  <2>1. at[p] = "closed" /\ own[p] = {} /\ ~inTxn[p] /\ p \notin shared /\ reserved # p
    BY DEF P!Init, P!StoreAssumption
  <2> QED BY <2>1 DEF P!JobIsSound, P!Working, P!UncommittedReplays, P!TransactionIsExplained
<1> QED BY <1>1, <1>2, <1>3 DEF P!StoreInvariant

(* Every step of every process keeps it. *)
LEMMA NextStore ==
  ASSUME P!StoreAssumption, P!StoreInvariant, [P!Next]_P!vars PROVE P!StoreInvariant'
<1>1. CASE UNCHANGED P!vars
  BY <1>1 DEF P!vars, P!locks, P!told, P!StoreInvariant, P!TypeOK, P!StoredTransitionsReplay,
     P!CleanReturnsAreDurable, P!JobIsSound, P!Working, P!UncommittedReplays, P!Visible,
     P!TransactionIsExplained
<1>2. CASE P!Next
  BY <1>2, OpenKeeps, LeaveKeeps, CallKeeps, GetKeeps, SelectKeeps, InsertKeeps, CommitKeeps,
     BusyKeeps DEF P!Next
<1> QED BY <1>1, <1>2

(* SQLitePolicyEcologyStore keeps its inductive invariant, whatever the    *)
(* processes interleave, wherever they die and whichever locks they wait   *)
(* for in vain: each statement of a call finds what the ones before it     *)
(* established, even though put() and condition() are several transactions *)
(* and never roll back.                                                    *)
THEOREM StoreSafety ==
  ASSUME P!StoreAssumption
  PROVE  P!Spec => []P!StoreInvariant
BY InitStore, NextStore, PTL DEF P!Spec

(* verify() never meets a stored transition whose parent or child is       *)
(* missing, although condition() commits the child and the transition      *)
(* separately and may be interrupted between the two.                      *)
THEOREM TransitionsReplay ==
  ASSUME P!StoreAssumption
  PROVE  P!Spec => []P!StoredTransitionsReplay
<1>1. P!StoreInvariant => P!StoredTransitionsReplay
  BY DEF P!StoreInvariant
<1> QED BY <1>1, StoreSafety, PTL

(* A record returned by a call that found its connection without an open   *)
(* transaction is committed, and stays so.                                 *)
THEOREM CleanReturnsDurability ==
  ASSUME P!StoreAssumption
  PROVE  P!Spec => []P!CleanReturnsAreDurable
<1>1. P!StoreInvariant => P!CleanReturnsAreDurable
  BY DEF P!StoreInvariant
<1> QED BY <1>1, StoreSafety, PTL

(* A process between its calls holds a lock only after one of them raised. *)
THEOREM LocksAreExplained ==
  ASSUME P!StoreAssumption
  PROVE  P!Spec => []P!OnlyFailuresHoldLocks
<1>1. P!StoreInvariant => P!OnlyFailuresHoldLocks
  BY DEF P!StoreInvariant, P!TransactionIsExplained, P!OnlyFailuresHoldLocks
<1> QED BY <1>1, StoreSafety, PTL

(* All of it together, for the two stores beside each other: rows replay,  *)
(* clean returns are durable, locks are explained by failures, through any *)
(* interleaving and crash.                                                 *)
THEOREM PopulationSafety ==
  ASSUME P!StoreAssumption
  PROVE  StoresSpec => []PopulationsAreKept
<1>1. StoresInit => P!StoreInvariant
  BY InitStore DEF StoresInit
<1>2. P!StoreInvariant /\ [StoresNext]_storesVars => P!StoreInvariant'
  <2> SUFFICES ASSUME P!StoreInvariant, [StoresNext]_storesVars
               PROVE  P!StoreInvariant'
    OBVIOUS
  <2>1. [P!Next]_P!vars
    BY DEF StoresNext, storesVars, populations, P!vars, P!locks, P!told
  <2> QED
    BY <2>1, NextStore
<1>3. P!StoreInvariant => PopulationsAreKept
  BY DEF PopulationsAreKept, P!PopulationsAreKept, P!StoreInvariant, P!OnlyFailuresHoldLocks,
     P!TransactionIsExplained
<1> QED BY <1>1, <1>2, <1>3, PTL DEF StoresSpec
=============================================================================
