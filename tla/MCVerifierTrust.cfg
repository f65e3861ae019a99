SPECIFICATION VerifierSpec
CONSTANTS
  Procs = {p1, p2}
  RequestNames = {"genuine"}
  Bundles = {"underOld"}
  LastInstant = 1
  MaxEntries = 1
  NoChain = NoChain
  NoTime = NoTime
  MaxDuration = 7
  DefaultTolerance = 1
  MaxTolerance = 1
  SkillEventTolerance = 2
  Configured = 1
  Urls <- MCUrls
  Chains <- MCChains
  Instants <- MCInstants
  Requests <- MCRequests
  Canonical <- MCCanonical
  Cert <- MCCert
INVARIANTS
  TrustOutlivesFetch
