----------------------------- MODULE MCVerifier -----------------------------
(***************************************************************************)
(* Instances of Verifier.  Requests and bundles are drawn from menus, so   *)
(* that each configuration spends its states on one question.              *)
(***************************************************************************)
EXTENDS Verifier, TLC

CONSTANTS
  RequestNames,   \* which requests of the menu calls may be given
  LastInstant     \* the wall clock runs from 0 to here

MCInstants == 0..LastInstant
MCChains == [by : Procs, bundle : Bundles]

\* Two objects, the first under two spellings, and three URLs to refuse, put
\* through the normalisation of CertUrl.
Tokens == {"echo.api", "one", "two", "..", "%2e%2e"}

CertUrlModule == INSTANCE CertUrl WITH
  Decoded    <- [t \in Tokens |-> IF t = "%2e%2e" THEN <<"..">> ELSE <<t>>],
  Encoded    <- [s \in Tokens \ {"%2e%2e"} |-> s],
  FoldedCase <- [t \in {"https", "s3.amazonaws.com", "S3.AmazonAWS.com", "example.com"} |->
                   IF t = "S3.AmazonAWS.com" THEN "s3.amazonaws.com" ELSE t]

Plain ==
  [parses |-> TRUE, scheme |-> "https", userinfo |-> FALSE, host |-> "s3.amazonaws.com",
   port |-> "", path |-> <<"echo.api", "one">>, query |-> "", fragment |-> ""]

RawMenu ==
  [raw1         |-> Plain,
   raw1Fragment |-> [Plain EXCEPT !.host = "S3.AmazonAWS.com", !.fragment = "f",
                                  !.path = <<"echo.api", "two", "%2e%2e", "one">>],
   raw2         |-> [Plain EXCEPT !.path = <<"echo.api", "two">>],
   rawHost      |-> [Plain EXCEPT !.host = "example.com"],
   rawUser      |-> [Plain EXCEPT !.userinfo = TRUE],
   rawDots      |-> [Plain EXCEPT !.path = <<"echo.api", "%2e%2e", "one">>]]

\* A canonical URL goes by the name of the last segment of its path.
MCUrls == {"one", "two"}
MCCanonical ==
  [raw1 |-> "one", raw1Fragment |-> "one", raw2 |-> "two", rawHost |-> "ErrCertURLInvalid",
   rawUser |-> "ErrCertURLUserinfo", rawDots |-> "ErrCertURLTraversal"]

ASSUME CanonicalAssumption ==
  \A n \in DOMAIN MCCanonical :
    LET made == CertUrlModule!NormalizeCertChainURL(RawMenu[n])
    IN  MCCanonical[n] = IF made.ok THEN made.url.path[Len(made.url.path)] ELSE made.error

Genuine(url, ts) ==
  [kind |-> "verify", headers |-> TRUE, ts |-> ts, skillEvent |-> FALSE,
   url |-> url, key |-> "key1"]

RequestMenu ==
  [genuine   |-> Genuine("raw1", 1),
   fragment  |-> Genuine("raw1Fragment", 1),
   other     |-> Genuine("raw2", 1),
   event     |-> [Genuine("raw1", 0) EXCEPT !.skillEvent = TRUE],
   old       |-> Genuine("raw1", 0),
   unsigned  |-> [Genuine("raw1", 1) EXCEPT !.key = "none"],
   bare      |-> [Genuine("raw1", 1) EXCEPT !.headers = FALSE],
   undated   |-> Genuine("raw1", NoTime),
   misplaced |-> Genuine("rawHost", 1),
   userinfo  |-> Genuine("rawUser", 1),
   dots      |-> Genuine("rawDots", 1),
   warm      |-> [Genuine("raw1", NoTime) EXCEPT !.kind = "warm"],
   warmOther |-> [Genuine("raw2", NoTime) EXCEPT !.kind = "warm"],
   warmBad   |-> [Genuine("rawHost", NoTime) EXCEPT !.kind = "warm"]]

MCRequests == {RequestMenu[n] : n \in RequestNames}

Good ==
  [parses |-> TRUE, trusted |-> TRUE, host |-> TRUE, rsa |-> TRUE, key |-> "key1",
   leaf |-> MCInstants, path |-> MCInstants]

\* Bundles: good at all times, expiring, not yet valid, under an expiring
\* intermediate, and wrong in each of the other ways.
MCCert ==
  [good       |-> Good,
   expiring   |-> [Good EXCEPT !.leaf = {0}],
   renewed    |-> [Good EXCEPT !.leaf = MCInstants \ {0}, !.key = "key2"],
   underOld   |-> [Good EXCEPT !.path = {0}],
   garbled    |-> [Good EXCEPT !.parses = FALSE],
   selfSigned |-> [Good EXCEPT !.trusted = FALSE],
   otherHost  |-> [Good EXCEPT !.host = FALSE],
   ecdsa      |-> [Good EXCEPT !.rsa = FALSE]]

Symmetry == Permutations(Procs)

=============================================================================
