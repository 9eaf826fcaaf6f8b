\* Exactly-once across redelivery, refuted: a crash whose journal is lost.
SPECIFICATION Spec
CONSTANTS
  None = None
  Requests = {"r", "s"}
  Keys = {"k"}
  KeyOf <- MCKeyOf
  N = 2
  CapableOf <- MCCapableOf
  ExpiresAt <- MCExpiresAt
  Shas = {0, 1}
  MaxRetries = 1
  MaxSwitches = 1
  MaxMoves = 1
  Deadline = 3
  MaxDeliveries = 2
  MaxTick = 3
  ClockRuns = TRUE
  Faults = {"crash", "journal_lost"}
INVARIANTS
  ExactlyOnceAcrossRedelivery
