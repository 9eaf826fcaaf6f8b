\* Every operation, gate and failure of collaborators, among three calls.
SPECIFICATION Spec
CONSTANTS
  None = None
  c1 = c1  c2 = c2  c3 = c3  c4 = c4  k1 = k1  k2 = k2
  Calls <- MCCalls3
  Keys = {k1, k2}
  Intents <- GateIntents
  CapOf <- MCCapOf
  GateOf <- MCGateOf
  Providers = {"memory"}
  ProviderOf <- MCProviderOf
  Ops = {"MATERIALIZE", "ACT", "VERIFY", "OBSERVE", "CHECKPOINT", "RESTORE", "TEARDOWN"}
  Checkpoints = {0, 1}
  Faults = {"provider", "authority", "capabilities", "observe"}
  ProviderRequiresAuthority = TRUE
  EnvRequiresAuthority = TRUE
  NoopTeardown = FALSE
SYMMETRY CallSymmetry
INVARIANTS
  KernelInvariant
  OneWorldPerKey
  AliveReceiptsAreAboutTheirStates
  EpisodesLeaveByTeardown
PROPERTIES
  EvidenceIsFinal
