SPECIFICATION FairSpec
CONSTANTS
  Conns = {c1, c2, c3}
  Invocations = {"serve", "information", "badFlag", "positional"}
\* The process ends.
CHECK_DEADLOCK FALSE
INVARIANTS
  ServerTypeOK
  NothingLeaks
  ExitTellsWhy
  CleanExitDrains
PROPERTIES
  StopsWhenAsked
  ServesWithoutWarm
  GoroutinesEnd
