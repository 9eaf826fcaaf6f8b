\* Redelivery under provider faults the loop is told about.
SPECIFICATION RedeliverySpec
CONSTANTS
  None = None
  Requests = {"r", "s"}
  Keys = {"k"}
  KeyOf <- MCKeyOf
  N = 2
  CapableOf <- MCCapableOf
  ExpiresAt <- MCExpiresAt
  Shas = {0, 1}
  MaxRetries = 1
  MaxSwitches = 1
  MaxMoves = 1
  Deadline = 3
  MaxDeliveries = 2
  MaxTick = 3
  ClockRuns = TRUE
  Faults = {"crash", "journal_lost", "transport", "hidden", "verifier"}
INVARIANTS
  LoopInvariant
  ClaimsAreBounded
  KnownEffectsInOneDelivery
  ReceiptListsEveryKnownEffect
  ReceiptedSubjectIsAttributable
PROPERTIES
  SettlesKeysOnce
