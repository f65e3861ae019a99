SPECIFICATION FairRouteSpec
CONSTANTS
  Requests = {r1}
  Directories = {d1, d2}
  Versions = {v1, v2}
  Descriptors <- MCDescriptors
  None = None
  Length = 4
  Window = 1
  WriteTimeout = 2
INVARIANTS
  RouteTypeOK
  ServedIsConfined
  HandlesClosed
  ValidatedIsServed
PROPERTIES
  HeldForBoundedTime
  RangesFinish
