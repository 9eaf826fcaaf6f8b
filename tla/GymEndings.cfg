\* The gyms that poll, wait and retry: whatever is started ends.
SPECIFICATION Spec
CONSTANTS
  None = None
  Gyms = {"sregym", "terraform_ends", "pod_ends", "dependency_ends",
          "swegym_ends"}
PROPERTY
  HandlersEnd
CHECK_DEADLOCK FALSE
