------------------------------- MODULE Stores --------------------------------
(***************************************************************************)
(* The two stores that keep their state in SQLite files: the receipt       *)
(* ledger and the populations of the policy ecology.  Each has a file and  *)
(* processes of its own and none calls the other, so a behaviour is about  *)
(* one of them: `store` says which, and the other stays as it began.       *)
(***************************************************************************)
EXTENDS SqliteLedger

CONSTANTS
  Kinds,                                   \* the stores that are looked at
  Users, Populations, ChildOf, MaxCalls    \* PolicyStore, of which Users are the processes

VARIABLES
  store,                                                   \* the one that is used
  stored, shared, reserved, pending, inTxn, own, at, job,  \* PolicyStore
  clean, raised, answered, sure, calls

P == INSTANCE PolicyStore WITH Procs <- Users, file <- stored, returned <- answered

populations == <<stored, shared, reserved, pending, inTxn, own, at, job, clean, raised,
                 answered, sure, calls>>
storesVars == <<store, vars, populations>>

StoresInit == store \in Kinds /\ Init /\ P!Init
StoresNext ==
  /\ UNCHANGED store
  /\ \/ store = "ledger" /\ Next /\ UNCHANGED populations
     \/ store = "populations" /\ P!Next /\ UNCHANGED vars

StoresSpec == StoresInit /\ [][StoresNext]_storesVars

-----------------------------------------------------------------------------
(* Properties *)

(* Whatever processes crash, find the lock taken or raise with their       *)
(* transaction open: every stored transition of the policy ecology has its *)
(* parent and child beside it, what a call without an open transaction     *)
(* before it returned is in the file, and only calls that raised leave a   *)
(* lock behind; and the inductive invariant of SqliteLedgerProofs holds.   *)
PopulationsAreKept == P!PopulationsAreKept
=============================================================================
