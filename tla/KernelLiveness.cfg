\* Three calls share the locks while providers and observations raise.
SPECIFICATION FairSpec
CONSTANTS
  None = None
  c1 = c1  c2 = c2  c3 = c3  c4 = c4  k1 = k1  k2 = k2
  Calls <- MCCalls3
  Keys = {k1}
  Intents <- ReadIntents
  CapOf <- MCCapOf
  GateOf <- MCGateOf
  Providers = {"memory"}
  ProviderOf <- MCProviderOf
  Ops = {"MATERIALIZE", "ACT", "RAW", "READ", "VERIFY", "TEARDOWN", "RESTORE"}
  Checkpoints = {0, 1}
  Faults = {"observe", "provider"}
  ProviderRequiresAuthority = FALSE
  EnvRequiresAuthority = TRUE
  NoopTeardown = FALSE
PROPERTIES
  EveryCallEnds
