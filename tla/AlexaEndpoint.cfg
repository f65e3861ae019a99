SPECIFICATION FairEndpointSpec
CONSTANTS
  Procs = {p1, p2}
  Instants = {1}
  Suffixes = {1, 2}
  Absent = Absent
  Verdicts = {"nil", "ErrBadSignature"}
INVARIANTS
  EndpointTypeOK
  SavedStaysWhole
  FailedLeavesNothing
  SidecarHasBody
  CapturedOnlyVerified
  StatusTellsVerdictOnly
PROPERTIES
  RequestsAnswered
