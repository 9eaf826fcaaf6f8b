\* Zero unreceipted actuation, refuted: one idempotency key, two capabilities.
SPECIFICATION Spec
CONSTANTS
  None = None
  c1 = c1  c2 = c2  c3 = c3  c4 = c4  k1 = k1  k2 = k2
  Calls <- MCCalls3
  Keys = {k1, k2}
  Intents <- TwoIntents
  CapOf <- MCCapOf
  GateOf <- MCGateOf
  Providers = {"memory"}
  ProviderOf <- MCProviderOf
  Ops = {"MATERIALIZE", "ACT"}
  Checkpoints = {}
  Faults = {}
  ProviderRequiresAuthority = FALSE
  EnvRequiresAuthority = FALSE
  NoopTeardown = FALSE
SYMMETRY CallSymmetry
INVARIANTS
  ZeroUnreceiptedActuation
