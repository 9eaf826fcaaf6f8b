\* Every agent in each of its situations.
SPECIFICATION AgentSpec
CONSTANTS
  Bogus = Bogus
  get = get
  set = set
  both = both
  c1 = c1
  c2 = c2
  base = base
  Agents = {"epistemic_rounds", "epistemic_demands", "diagnosis_admits",
            "diagnosis_records", "diagnosis_fails",
            "react_runs", "react_fresh", "harness_steps", "harness_chain"}
INVARIANTS
  ClaimsAreGrounded
  ActsFollowAdmission
  HarnessIsTransactional
PROPERTY
  AgentRunsEnd
CHECK_DEADLOCK FALSE
