SPECIFICATION Spec
CONSTANTS
  Urls = {u1, u2, u3}
  Chains = {c1, c2}
  NoChain = NoChain
  MaxEntries = 2
  MaxInsertions = 5
  MaxDuration = 7
  DefaultTolerance = 2
  MaxTolerance = 3
  SkillEventTolerance = 4
  Instants <- MCInstants
  Tolerances <- MCTolerances
  NoTimestamp = NoTimestamp
  Decoded <- MCDecoded
  Encoded <- MCEncoded
  FoldedCase <- MCFoldedCase
  Schemes = {"https", "HTTPS", "http"}
  Hosts = {"s3.amazonaws.com", "S3.AmazonAWS.com", "example.com"}
  Ports = {"", "443", "0"}
  Queries = {"v=1"}
  Fragments = {"", "f"}
  MaxSegments = 4
\* Paths end at the bound.
CHECK_DEADLOCK FALSE
INVARIANTS
  CacheInv
  WindowTypeOK
  VerdictExact
  CanonicalIsConfined
  TraversalIsNamed
  KeyIgnoresSpelling
PROPERTIES
  ImplementsFifo
  PastStaysStale
