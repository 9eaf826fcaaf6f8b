\* The broker, the batches and the execution loop in each of their situations.
SPECIFICATION Spec
CONSTANTS
  None = None
  Drivers = {"crown_shared", "crown_refusals", "crown_retry", "crown_admission",
             "batch_keys", "batch_outages", "loop", "loop_outages"}
INVARIANTS
  AliveIsEvidenced
  EffectsAreAccountedFor
  LeaksAreTold
PROPERTY
  DriversEnd
CHECK_DEADLOCK FALSE
