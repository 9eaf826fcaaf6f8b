---------------------------- MODULE SqliteLedger ----------------------------
(***************************************************************************)
(* SQLiteReceiptLedger (sqlite_ledger.py): processes, each with its own    *)
(* connection, append receipts to one database file.  A process may crash  *)
(* at any point; the file keeps what was committed.  The threads of a      *)
(* process take turns on the connection's RLock for a whole append, so     *)
(* they are one appender here.                                             *)
(*                                                                         *)
(* Digests are collision free: the digest of a receipt is the receipt, and *)
(* the digest of a record is the list of everything chained up to it.      *)
(***************************************************************************)
EXTENDS ReceiptLedger, FiniteSets

CONSTANTS
  Procs,
  Receipts,      \* records with the fields id, key, ep and cap
  MaxAppends,    \* bound: calls of append
  MaxCrashes,    \* bound: crashes
  MaxRot         \* bound: rows damaged by the storage

ASSUME SqliteAssumption ==
  /\ None \notin Procs
  /\ \A r \in Receipts : DOMAIN r = {"id", "key", "ep", "cap"}
  /\ MaxAppends \in Nat /\ MaxCrashes \in Nat /\ MaxRot \in Nat

VARIABLES
  rows,      \* receipt_evidence, in the order of sequence
  txn,       \* the process that holds the write lock of the file
  pc, arg,   \* where each process is, and the receipt it appends
  row,       \* the row its transaction is about to commit
  returned,  \* history: receipts for which an append returned a record
  damaged,   \* history: the storage lost or altered a row
  appends, crashes, rot

file == <<rows, txn>>
bounds == <<appends, crashes, rot>>
vars == <<file, pc, arg, row, returned, damaged, bounds>>

Digest == Seq(Nat \X Receipts)
Row == [seq : Nat, id : {r.id : r \in Receipts}, previous : Digest,
        receipt_digest : Receipts, record_digest : Digest, receipt : Receipts]
States == {"closed", "open", "begin", "check", "commit", "return"}

-----------------------------------------------------------------------------
(* The chain *)

(* _record_digest *)
RecordDigest(seq, previous, d) == Append(previous, <<seq, d>>)

(* Mutant: the link to the last record is forgotten. *)
NextRow_Unlinked(l, r) ==
  LET n == Len(l)
      seq == IF n = 0 THEN 0 ELSE l[n].seq + 1
  IN  [seq |-> seq, id |-> r.id, previous |-> << >>, receipt_digest |-> r,
       record_digest |-> RecordDigest(seq, << >>, r), receipt |-> r]

(* The row append inserts after the last one. *)
NextRow(l, r) ==
  LET n == Len(l)
      seq == IF n = 0 THEN 0 ELSE l[n].seq + 1
      previous == IF n = 0 THEN << >> ELSE l[n].record_digest
  IN  [seq |-> seq, id |-> r.id, previous |-> previous, receipt_digest |-> r,
       record_digest |-> RecordDigest(seq, previous, r), receipt |-> r]

(* Mutant: the stored receipt digest is trusted. *)
LinkVerifies_Trusting(l, i) ==
  LET previous == IF i = 1 THEN << >> ELSE l[i - 1].record_digest IN
  /\ l[i].seq = i - 1 /\ l[i].previous = previous
  /\ l[i].record_digest = RecordDigest(i - 1, previous, l[i].receipt_digest)

(* One round of the loop in verify. *)
LinkVerifies(l, i) ==
  LET previous == IF i = 1 THEN << >> ELSE l[i - 1].record_digest IN
  /\ l[i].seq = i - 1 /\ l[i].previous = previous
  /\ l[i].receipt_digest = l[i].receipt
  /\ l[i].record_digest = RecordDigest(i - 1, previous, l[i].receipt)

verify(l) == \A i \in DOMAIN l : LinkVerifies(l, i)

(* The receipts of the file, as ReceiptLedger sees them. *)
Log(l) == [i \in DOMAIN l |-> l[i].receipt]

(* SELECT ... WHERE receipt_id = ? *)
Existing(l, r) == {i \in DOMAIN l : l[i].id = r.id}

Init ==
  /\ rows = << >> /\ txn = None
  /\ pc = [p \in Procs |-> "closed"]
  /\ arg = [p \in Procs |-> None]
  /\ row = [p \in Procs |-> None]
  /\ returned = {} /\ damaged = FALSE
  /\ appends = 0 /\ crashes = 0 /\ rot = 0

-----------------------------------------------------------------------------
(* Opening and closing *)

(* __init__ refuses a file whose chain does not verify. *)
Open(p) ==
  /\ pc[p] = "closed"
  /\ pc' = [pc EXCEPT ![p] = IF verify(rows) THEN "open" ELSE "closed"]
  /\ UNCHANGED <<file, arg, row, returned, damaged, bounds>>

Close(p) ==
  /\ pc[p] = "open"
  /\ pc' = [pc EXCEPT ![p] = "closed"]
  /\ UNCHANGED <<file, arg, row, returned, damaged, bounds>>

-----------------------------------------------------------------------------
(* append *)

CallAppend(p, r) ==
  /\ pc[p] = "open" /\ appends < MaxAppends
  /\ pc' = [pc EXCEPT ![p] = "begin"]
  /\ arg' = [arg EXCEPT ![p] = r]
  /\ appends' = appends + 1
  /\ UNCHANGED <<file, row, returned, damaged, crashes, rot>>

(* Mutant: BEGIN without IMMEDIATE takes no write lock. *)
Begin_Deferred(p) ==
  /\ pc[p] = "begin"
  /\ pc' = [pc EXCEPT ![p] = "check"]
  /\ UNCHANGED <<file, arg, row, returned, damaged, bounds>>

(* BEGIN IMMEDIATE takes the write lock before anything is read. *)
Begin(p) ==
  /\ pc[p] = "begin" /\ txn = None
  /\ txn' = p
  /\ pc' = [pc EXCEPT ![p] = "check"]
  /\ UNCHANGED <<rows, arg, row, returned, damaged, bounds>>

(* The write lock is not free within busy_timeout: append raises. *)
Busy(p) ==
  /\ pc[p] = "begin" /\ txn # None
  /\ pc' = [pc EXCEPT ![p] = "open"]
  /\ UNCHANGED <<file, arg, row, returned, damaged, bounds>>

EndOf(p) == txn' = IF txn = p THEN None ELSE txn

(* rollback, and append raises. *)
Rollback(p) ==
  /\ EndOf(p)
  /\ pc' = [pc EXCEPT ![p] = "open"]
  /\ UNCHANGED <<rows, arg, row, returned, damaged, bounds>>

(* A known receipt id: the stored record is returned if it is the same     *)
(* receipt.                                                                *)
Replay(p) ==
  /\ pc[p] = "check"
  /\ \E i \in Existing(rows, arg[p]) :
       \/ rows[i].receipt # arg[p] /\ Rollback(p)
       \/ /\ rows[i].receipt = arg[p]
          /\ EndOf(p)
          /\ pc' = [pc EXCEPT ![p] = "return"]
          /\ UNCHANGED <<rows, arg, row, returned, damaged, bounds>>

(* Mutant: the key is not looked up. *)
Chain_NoKeyCheck(p) ==
  /\ pc[p] = "check" /\ Existing(rows, arg[p]) = {}
  /\ row' = [row EXCEPT ![p] = NextRow(rows, arg[p])]
  /\ pc' = [pc EXCEPT ![p] = "commit"]
  /\ UNCHANGED <<file, arg, returned, damaged, bounds>>

(* A fresh receipt id: the key is checked, the chain extended. *)
Chain(p) ==
  /\ pc[p] = "check" /\ Existing(rows, arg[p]) = {}
  /\ \/ KeyReuse(Log(rows), arg[p]) /\ Rollback(p)
     \/ /\ ~KeyReuse(Log(rows), arg[p])
        /\ row' = [row EXCEPT ![p] = NextRow(rows, arg[p])]
        /\ pc' = [pc EXCEPT ![p] = "commit"]
        /\ UNCHANGED <<file, arg, returned, damaged, bounds>>

(* Mutant: the record is handed out although the commit failed. *)
Commit_Hopeful(p) ==
  /\ pc[p] = "commit"
  /\ rows' \in {rows, Append(rows, row[p])}
  /\ EndOf(p)
  /\ pc' = [pc EXCEPT ![p] = "return"]
  /\ UNCHANGED <<arg, row, returned, damaged, bounds>>

(* The insert is committed, or fails and is rolled back. *)
Commit(p) ==
  /\ pc[p] = "commit"
  /\ \/ Rollback(p)
     \/ /\ rows' = Append(rows, row[p])
        /\ EndOf(p)
        /\ pc' = [pc EXCEPT ![p] = "return"]
        /\ UNCHANGED <<arg, row, returned, damaged, bounds>>

Return(p) ==
  /\ pc[p] = "return"
  /\ pc' = [pc EXCEPT ![p] = "open"]
  /\ returned' = returned \cup {arg[p]}
  /\ UNCHANGED <<file, arg, row, damaged, bounds>>

-----------------------------------------------------------------------------
(* Crashes and storage *)

(* The process dies; SQLite drops its open transaction. *)
Crash(p) ==
  /\ pc[p] # "closed" /\ crashes < MaxCrashes
  /\ crashes' = crashes + 1
  /\ EndOf(p)
  /\ pc' = [pc EXCEPT ![p] = "closed"]
  /\ UNCHANGED <<rows, arg, row, returned, damaged, appends, rot>>

Without(l, i) == SubSeq(l, 1, i - 1) \o SubSeq(l, i + 1, Len(l))

(* The storage alters the content of a row, or loses a row that another    *)
(* one is chained to.                                                      *)
Rot ==
  /\ rot < MaxRot
  /\ \E i \in DOMAIN rows :
       \/ \E r \in Receipts \ {rows[i].receipt} : rows' = [rows EXCEPT ![i].receipt = r]
       \/ i < Len(rows) /\ rows' = Without(rows, i)
  /\ rot' = rot + 1 /\ damaged' = TRUE
  /\ UNCHANGED <<txn, pc, arg, row, returned, appends, crashes>>

Next ==
  \/ \E p \in Procs :
       \/ Open(p) \/ Close(p) \/ \E r \in Receipts : CallAppend(p, r)
       \/ Begin(p) \/ Busy(p) \/ Replay(p) \/ Chain(p) \/ Commit(p) \/ Return(p)
       \/ Crash(p)
  \/ Rot

Spec == Init /\ [][Next]_vars
-----------------------------------------------------------------------------
(* Properties *)

(* The table, the write lock and the processes are well formed. *)
TypeOK ==
  /\ rows \in Seq(Row)
  /\ txn \in Procs \cup {None}
  /\ pc \in [Procs -> States]
  /\ arg \in [Procs -> Receipts \cup {None}]
  /\ row \in [Procs -> Row \cup {None}]
  /\ returned \subseteq Receipts /\ damaged \in BOOLEAN
  /\ appends \in 0..MaxAppends /\ crashes \in 0..MaxCrashes /\ rot \in 0..MaxRot

(* Crashes and concurrent writers never leave a file that the constructor  *)
(* refuses: only damage to the storage breaks the chain.                   *)
ChainVerifies == ~damaged => verify(rows)

(* Once returned, a record survives every later crash and append.          *)
ReturnedIsDurable == ~damaged => \A r \in returned : \E i \in DOMAIN rows : rows[i].receipt = r

(* The file follows the append rule of the in-memory ledger: every change  *)
(* appends one receipt that rule admits.                                   *)
FollowsAppendRule ==
  [][damaged' \/ \E r \in Receipts : ~AppendRaises(Log(rows), r)
                                     /\ Log(rows') = Appended(Log(rows), r)]_rows

(* Damage stays visible: no append that follows makes a damaged chain      *)
(* verify again, so no process opens it.                                   *)
DamageStaysVisible == damaged => ~verify(rows)

-----------------------------------------------------------------------------
(* The inductive invariant behind the chain *)

(* An append under way has its receipt, a commit its row. *)
AppendsAreBound ==
  \A p \in Procs : /\ pc[p] \notin {"closed", "open"} => arg[p] \in Receipts
                   /\ pc[p] = "commit" => row[p] \in Row

(* Whoever reads the table inside a transaction holds the write lock.      *)
ReadersHoldTheLock == \A p \in Procs : pc[p] \in {"check", "commit"} => txn = p

(* The row about to be committed is the next one of the chain as it is     *)
(* now, and is admitted by the append rule.                                *)
PendingRowIsNext ==
  \A p \in Procs : pc[p] = "commit" =>
     /\ row[p] = NextRow(rows, arg[p])
     /\ ~HoldsId(Log(rows), arg[p].id) /\ ~KeyReuse(Log(rows), arg[p])

(* A record that is about to be returned is in the table. *)
AnswerIsStored ==
  \A p \in Procs : pc[p] = "return" => \E i \in DOMAIN rows : rows[i].receipt = arg[p]

(* Inductive, and says something of the table as long as the storage keeps *)
(* its rows.                                                               *)
ChainInvariant ==
  /\ TypeOK
  /\ AppendsAreBound
  /\ ReadersHoldTheLock
  /\ ~damaged => /\ \A i \in DOMAIN rows : rows[i].id = rows[i].receipt.id
                 /\ PendingRowIsNext /\ AnswerIsStored
                 /\ ChainVerifies /\ ReturnedIsDurable
=============================================================================
