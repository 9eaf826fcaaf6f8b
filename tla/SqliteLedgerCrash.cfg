\* Two processes share a file and crash at any point: the ledger, where one row may
\* be damaged, or the store of populations.
SPECIFICATION StoresSpec
CONSTANTS
  None = None
  Procs = {"p", "q"}
  Receipts <- MCReceipts
  MaxAppends = 3
  MaxCrashes = 1
  MaxRot = 1
  Kinds = {"ledger", "populations"}
  Users = {"p", "q", "r"}
  Populations = {"x", "y"}
  ChildOf <- MCChildOf
  MaxCalls = 4
INVARIANTS
  ChainInvariant
  ChainVerifies
  ReturnedIsDurable
  DamageStaysVisible
  PopulationsAreKept
PROPERTIES
  FollowsAppendRule
