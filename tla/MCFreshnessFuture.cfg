SPECIFICATION WindowSpec
CONSTANTS
  MaxDuration = 7
  DefaultTolerance = 2
  MaxTolerance = 3
  SkillEventTolerance = 4
  Instants <- MCInstants
  Tolerances <- MCTolerances
  NoTimestamp = NoTimestamp
INVARIANTS
  AcceptedOnlyInWindow
