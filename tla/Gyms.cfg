\* Every gym in each of its situations.
SPECIFICATION Spec
CONSTANTS
  None = None
  Gyms = {"sregym", "terraform_shared", "terraform_own", "pod_slow", "pod_out",
          "gcp_long", "gcp_direct", "gcp_pages", "codebase_reset", "codebase_gone",
          "codebase_linked", "dependency_shared", "dependency_diamond",
          "swegym_grades", "swegym_ends", "local_files", "local_git", "local_table"}
INVARIANTS
  VerdictsAreReal
  EndsAndRestoresAreHonest
  ActsCountOnce
  WorldsAreConsistent
PROPERTY
  ActorsKeepToTheirOwn
CHECK_DEADLOCK FALSE
