----------------------------- MODULE PolicyStore -----------------------------
(***************************************************************************)
(* SQLitePolicyEcologyStore (policy_ecology_store.py): processes, each     *)
(* with its own connection, keep populations and the transitions between   *)
(* them in one database file.  Unlike the receipt ledger it reads outside  *)
(* a transaction, lets Python's sqlite3 begin one before an INSERT, and    *)
(* never rolls back: a call that raises leaves its transaction open.       *)
(*                                                                         *)
(* SQLite is external: SHARED locks of readers inside a transaction, one   *)
(* RESERVED lock, and the PENDING lock a failed commit keeps, which shuts  *)
(* out new readers.  A lock that is not free within the busy timeout       *)
(* raises.  A population is its digest, and a transition the pair of its   *)
(* parent and its child.                                                   *)
(***************************************************************************)
EXTENDS Naturals

CONSTANTS
  Procs,
  Populations,
  ChildOf,     \* [Populations -> Populations]: condition_population
  MaxCalls,    \* bound: calls of put and condition
  None

StoreAssumption ==
  /\ None \notin Procs \cup Populations
  /\ ChildOf \in [Populations -> Populations] /\ MaxCalls \in Nat

Population(x) == <<x>>
Transition(x) == <<x, ChildOf[x]>>
Rows == {Population(x) : x \in Populations} \cup {Transition(x) : x \in Populations}

VARIABLES
  file,       \* the committed rows of both tables
  shared,     \* processes with a SHARED lock that outlives a statement
  reserved,   \* the process with the RESERVED lock, or None
  pending,    \* whether it waits for the readers to leave
  inTxn,      \* [Procs -> BOOLEAN]: connection.in_transaction
  own,        \* [Procs -> rows inserted and not committed]
  at,         \* "closed", "open", or the statement a process is at
  job,        \* what it was called with: [parent, row], or None
  clean,      \* history: whether the call found no transaction open
  raised,     \* history: whether a call has raised since the last commit
  returned,   \* history: rows a call has returned a record of
  sure,       \* history: those of calls that found no transaction open
  calls

locks == <<shared, reserved, pending>>
told == <<clean, raised, returned, sure>>
vars == <<file, locks, inTxn, own, at, job, told, calls>>

Init ==
  /\ file = {} /\ shared = {} /\ reserved = None /\ pending = FALSE
  /\ inTxn = [p \in Procs |-> FALSE] /\ own = [p \in Procs |-> {}]
  /\ at = [p \in Procs |-> "closed"] /\ job = [p \in Procs |-> None]
  /\ clean = [p \in Procs |-> TRUE] /\ raised = [p \in Procs |-> FALSE]
  /\ returned = {} /\ sure = {} /\ calls = 0

-----------------------------------------------------------------------------
(* SQLite *)

MayRead(p) == p \in shared \/ reserved = p \/ ~pending
MayWrite(p) == MayRead(p) /\ reserved \in {None, p}
Visible(p) == file \cup own[p]

(* A SELECT inside a transaction keeps its lock. *)
Reads(p) ==
  /\ MayRead(p)
  /\ shared' = IF inTxn[p] THEN shared \cup {p} ELSE shared
  /\ UNCHANGED <<file, reserved, pending, inTxn, own>>

(* close() and the end of the process drop the open transaction. *)
Dropped(p) ==
  /\ shared' = shared \ {p}
  /\ reserved' = (IF reserved = p THEN None ELSE reserved)
  /\ pending' = (pending /\ reserved # p)
  /\ inTxn' = [inTxn EXCEPT ![p] = FALSE] /\ own' = [own EXCEPT ![p] = {}]

Raises(p) ==
  /\ at' = [at EXCEPT ![p] = "open"] /\ raised' = [raised EXCEPT ![p] = TRUE]
  /\ UNCHANGED <<job, clean, returned, sure, calls>>

-----------------------------------------------------------------------------
(* Opening, closing, crashing *)

(* __init__: the script reads the schema, and raises when it may not. *)
Open(p) ==
  /\ at[p] = "closed" /\ ~pending
  /\ at' = [at EXCEPT ![p] = "open"]
  /\ UNCHANGED <<file, locks, inTxn, own, job, told, calls>>

(* close(), or the process dies wherever it is. *)
Leave(p) ==
  /\ at[p] # "closed"
  /\ Dropped(p)
  /\ at' = [at EXCEPT ![p] = "closed"] /\ raised' = [raised EXCEPT ![p] = FALSE]
  /\ UNCHANGED <<file, job, clean, returned, sure, calls>>

-----------------------------------------------------------------------------
(* put and condition *)

Called(p, parent, row, first) ==
  /\ at[p] = "open" /\ calls < MaxCalls /\ calls' = calls + 1
  /\ job' = [job EXCEPT ![p] = [parent |-> parent, row |-> row]]
  /\ clean' = [clean EXCEPT ![p] = ~inTxn[p]]
  /\ at' = [at EXCEPT ![p] = first]
  /\ UNCHANGED <<file, locks, inTxn, own, raised, returned, sure>>

Put(p) == \E x \in Populations : Called(p, None, Population(x), "select")

(* Mutant: the child is not stored before its transition. *)
Condition_NoChild(p) == \E x \in Populations : Called(p, None, Transition(x), "select")

(* condition() puts the child first. *)
Condition(p) == \E x \in Populations : Called(p, x, Population(ChildOf[x]), "get")

(* get(parent): a parent that is not there is refused. *)
Get(p) ==
  /\ at[p] = "get" /\ Reads(p)
  /\ \/ /\ Population(job[p].parent) \in Visible(p)
        /\ at' = [at EXCEPT ![p] = "select"] /\ UNCHANGED <<job, told, calls>>
     \/ Population(job[p].parent) \notin Visible(p) /\ Raises(p)

(* A record is returned; condition() goes on from the child to the         *)
(* transition.                                                             *)
Done(p) ==
  IF job[p].parent # None /\ job[p].row # Transition(job[p].parent)
  THEN /\ job' = [job EXCEPT ![p].row = Transition(job[p].parent)]
       /\ at' = [at EXCEPT ![p] = "select"]
       /\ UNCHANGED <<clean, returned, sure>>
  ELSE /\ at' = [at EXCEPT ![p] = "open"]
       /\ returned' = returned \cup {job[p].row}
       /\ sure' = IF clean[p] THEN sure \cup {job[p].row} ELSE sure
       /\ UNCHANGED <<job, clean>>

(* SELECT: a row that is there already is returned as it is. *)
Select(p) ==
  /\ at[p] = "select" /\ Reads(p)
  /\ \/ job[p].row \in Visible(p) /\ Done(p)
     \/ /\ job[p].row \notin Visible(p)
        /\ at' = [at EXCEPT ![p] = "insert"] /\ UNCHANGED <<job, clean, returned, sure>>
  /\ UNCHANGED <<raised, calls>>

(* Mutant: INSERT OR IGNORE takes what another process stored for its own. *)
Insert_OrIgnore(p) ==
  /\ at[p] = "insert" /\ MayWrite(p)
  /\ inTxn' = [inTxn EXCEPT ![p] = TRUE]
  /\ shared' = shared \cup {p} /\ reserved' = p
  /\ own' = [own EXCEPT ![p] = @ \cup {job[p].row}]
  /\ Done(p)
  /\ UNCHANGED <<file, pending, raised, calls>>

(* INSERT begins a transaction and takes the write lock.  A row another    *)
(* process has committed since the SELECT raises with both kept.           *)
Insert(p) ==
  /\ at[p] = "insert" /\ MayWrite(p)
  /\ inTxn' = [inTxn EXCEPT ![p] = TRUE]
  /\ shared' = shared \cup {p} /\ reserved' = p
  /\ \/ /\ job[p].row \notin file
        /\ own' = [own EXCEPT ![p] = @ \cup {job[p].row}]
        /\ at' = [at EXCEPT ![p] = "commit"] /\ UNCHANGED <<job, told, calls>>
     \/ job[p].row \in file /\ Raises(p) /\ UNCHANGED own
  /\ UNCHANGED <<file, pending>>

(* A commit waits until no other process reads inside a transaction. *)
Commit(p) ==
  /\ at[p] = "commit" /\ shared = {p}
  /\ file' = file \cup own[p]
  /\ Dropped(p) /\ Done(p)
  /\ raised' = [raised EXCEPT ![p] = FALSE]
  /\ UNCHANGED calls

(* Mutant: an INSERT that finds the lock taken is given up in silence. *)
Busy_Idle(p) ==
  /\ at[p] = "insert" /\ ~MayWrite(p)
  /\ inTxn' = [inTxn EXCEPT ![p] = TRUE]
  /\ at' = [at EXCEPT ![p] = "open"]
  /\ UNCHANGED <<file, locks, own, job, told, calls>>

(* Database is locked: by the busy timeout a statement has not got its     *)
(* lock.  An INSERT has begun its transaction by then, and a commit keeps  *)
(* new readers out from then on.                                           *)
Busy(p) ==
  /\ \/ at[p] \in {"get", "select"} /\ ~MayRead(p) /\ UNCHANGED <<inTxn, pending>>
     \/ at[p] = "insert" /\ ~MayWrite(p)
        /\ inTxn' = [inTxn EXCEPT ![p] = TRUE] /\ UNCHANGED pending
     \/ at[p] = "commit" /\ shared # {p} /\ pending' = TRUE /\ UNCHANGED inTxn
  /\ Raises(p)
  /\ UNCHANGED <<file, shared, reserved, own>>

Next ==
  \E p \in Procs :
    \/ Open(p) \/ Leave(p) \/ Put(p) \/ Condition(p)
    \/ Get(p) \/ Select(p) \/ Insert(p) \/ Commit(p) \/ Busy(p)

Spec == Init /\ [][Next]_vars

-----------------------------------------------------------------------------
(* Properties *)

Jobs == [parent : Populations \cup {None}, row : Rows]
TypeOK ==
  /\ file \subseteq Rows /\ own \in [Procs -> SUBSET Rows]
  /\ shared \subseteq Procs /\ reserved \in Procs \cup {None} /\ pending \in BOOLEAN
  /\ inTxn \in [Procs -> BOOLEAN]
  /\ at \in [Procs -> {"closed", "open", "get", "select", "insert", "commit"}]
  /\ job \in [Procs -> Jobs \cup {None}]
  /\ clean \in [Procs -> BOOLEAN] /\ raised \in [Procs -> BOOLEAN]
  /\ returned \subseteq Rows /\ sure \subseteq returned
  /\ calls \in 0..MaxCalls

(* verify(): whatever crashed in between, a transition in the file has its *)
(* parent and its child there, so it can be replayed.                      *)
StoredTransitionsReplay ==
  \A x \in Populations : Transition(x) \in file => {Population(x), Population(ChildOf[x])} \subseteq file

(* A record that a connection without an open transaction returned is in   *)
(* the file for good.                                                      *)
CleanReturnsAreDurable == sure \subseteq file

(* Between its calls a process holds a lock only after one of them raised: *)
(* calls that succeed never stand in the way of another process.           *)
OnlyFailuresHoldLocks ==
  \A p \in Procs : at[p] = "open" /\ (inTxn[p] \/ p \in shared \/ reserved = p) => raised[p]

(* The inductive invariant behind the three.  A process at a statement has *)
(* its job, and sees what the statements before have found or stored; what *)
(* it has not committed would replay as well; and a transaction is open    *)
(* between an INSERT and its commit, or after a call that raised.          *)
Working(p) == at[p] \in {"get", "select", "insert", "commit"}
JobIsSound(p) ==
  Working(p) =>
     /\ job[p] \in Jobs
     /\ job[p].parent = None =>
          at[p] # "get" /\ \E x \in Populations : job[p].row = Population(x)
     /\ job[p].parent # None =>
          LET x == job[p].parent IN
          /\ job[p].row \in {Population(ChildOf[x]), Transition(x)}
          /\ at[p] # "get" => Population(x) \in Visible(p)
          /\ job[p].row = Transition(x) => at[p] # "get" /\ Population(ChildOf[x]) \in Visible(p)
UncommittedReplays(p) ==
  \A x \in Populations :
     Transition(x) \in own[p] => {Population(x), Population(ChildOf[x])} \subseteq Visible(p)
TransactionIsExplained(p) ==
  /\ ~inTxn[p] => own[p] = {} /\ p \notin shared /\ reserved # p
  /\ inTxn[p] => at[p] # "closed" /\ (raised[p] \/ at[p] = "commit")
  /\ clean[p] /\ at[p] \in {"get", "select", "insert"} => ~inTxn[p]
  /\ at[p] = "commit" => job[p].row \in own[p]
StoreInvariant ==
  /\ TypeOK /\ StoredTransitionsReplay /\ CleanReturnsAreDurable
  /\ \A p \in Procs : JobIsSound(p) /\ UncommittedReplays(p) /\ TransactionIsExplained(p)

(* What the store keeps through crashes and locks, with what it rests on. *)
PopulationsAreKept ==
  StoreInvariant /\ StoredTransitionsReplay /\ CleanReturnsAreDurable /\ OnlyFailuresHoldLocks

(* What the store's docstring promises without the condition (README,      *)
(* section 5): a commit that raised leaves a row that only its own         *)
(* connection sees, and a repeated put() returns it as stored.             *)
ReturnedIsDurable == returned \subseteq file

(* And what a retry would need: of processes that are between their calls, *)
(* one could write and commit.  It fails as well: one holds back readers,  *)
(* the other holds back its commit, until either closes its connection.    *)
NotWedged ==
  (\A p \in Procs : at[p] = "open") => \E p \in Procs : MayWrite(p) /\ shared \subseteq {p}
=============================================================================
