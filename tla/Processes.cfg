\* The process components in each of their situations.
SPECIFICATION Spec
CONSTANTS
  Nil = Nil
  Situations = {"words", "cycles", "rounds", "resume", "threads", "cut"}
INVARIANTS
  TraversalsAreTheLanguage
  RoundsAreSound
  ResumeKeepsTheWalk
  ClosureIsComplete
CHECK_DEADLOCK FALSE
