SPECIFICATION VerifierSpec
CONSTANTS
  Procs = {p1, p2}
  RequestNames = {"genuine", "fragment", "event", "old", "unsigned", "bare", "undated", "misplaced", "userinfo", "dots", "warm", "warmBad"}
  Bundles = {"expiring", "underOld", "garbled", "selfSigned", "otherHost", "ecdsa"}
  LastInstant = 2
  MaxEntries = 1
  NoChain = NoChain
  NoTime = NoTime
  MaxDuration = 7
  DefaultTolerance = 1
  MaxTolerance = 1
  SkillEventTolerance = 2
  Configured = 1
  Urls <- MCUrls
  Chains <- MCChains
  Instants <- MCInstants
  Requests <- MCRequests
  Canonical <- MCCanonical
  Cert <- MCCert
SYMMETRY Symmetry
INVARIANTS
  VerifierTypeOK
  AcceptedIsAuthentic
  NoEgressForRejects
  RejectionIsExplained
