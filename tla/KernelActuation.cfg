\* Four calls of materialize() and act(): timed-out effects land late, calls are cancelled, observations fail.
SPECIFICATION Spec
CONSTANTS
  None = None
  c1 = c1  c2 = c2  c3 = c3  c4 = c4  k1 = k1  k2 = k2
  Calls <- MCCalls4
  Keys = {k1, k2}
  Intents <- TwoIntents
  CapOf <- MCCapOf
  GateOf <- MCGateOf
  Providers = {"memory"}
  ProviderOf <- MCProviderOf
  Ops = {"MATERIALIZE", "ACT"}
  Checkpoints = {}
  Faults = {"observe", "late", "cancel"}
  ProviderRequiresAuthority = FALSE
  EnvRequiresAuthority = FALSE
  NoopTeardown = FALSE
SYMMETRY CallSymmetry
INVARIANTS
  OneReceiptedEffectPerKey
  RefusalsAreEffectFree
  AnswersAreReceiptsOfTheSameIntent
  ReturnedEffectIsReceipted
