------------------------------- MODULE MCParts -------------------------------
(***************************************************************************)
(* The parts of pkg/alexaverify that a call of Verify uses one after the   *)
(* other - the freshness check, the normalisation of URLs, the cache -     *)
(* each alone: a behaviour exercises one of them and leaves the others in  *)
(* an initial state.  Module Verifier puts them together.                  *)
(*                                                                         *)
(* The cache has room for two of three URLs, the least that lets an        *)
(* eviction choose and a replacement or a removal come between an          *)
(* insertion and the eviction of the same URL.  Spellings use the tokens   *)
(* that matter to a path: names, the three segments path.Clean treats      *)
(* specially, the dots encoded alone, with a slash, and twice.             *)
(***************************************************************************)
EXTENDS CertCache, MCFreshnessWindow, CertUrlSpelling

CONSTANT MaxInsertions   \* bound on the cache's counter

MCDecoded ==
  [t \in {"", ".", "..", "%2e%2e", "%2e%2e%2Fx", "%252e%252e", "echo.api", "x"} |->
     CASE t = "%2e%2e" -> <<"..">>
       [] t = "%2e%2e%2Fx" -> <<"..", "x">>
       [] t = "%252e%252e" -> <<"%2e%2e">>
       [] OTHER -> <<t>>]

MCEncoded ==
  [s \in {"", ".", "..", "%2e%2e", "echo.api", "x"} |-> IF s = "%2e%2e" THEN "%252e%252e" ELSE s]

MCFoldedCase ==
  [t \in {"https", "HTTPS", "http", "s3.amazonaws.com", "S3.AmazonAWS.com", "example.com"} |->
     CASE t = "HTTPS" -> "https"
       [] t = "S3.AmazonAWS.com" -> "s3.amazonaws.com"
       [] OTHER -> t]

VARIABLE part   \* the one that is exercised

Unspelt ==
  [parses |-> TRUE, scheme |-> "https", userinfo |-> FALSE, host |-> "s3.amazonaws.com",
   port |-> "", path |-> <<>>, query |-> "v=1", fragment |-> ""]

Init ==
  /\ part \in {"cache", "freshness", "url"}
  /\ CacheInit
  /\ WindowInit /\ (part # "freshness" => clock = 0)
  /\ SpellingInit /\ (part # "url" => raw = Unspelt)

Next ==
  /\ UNCHANGED part
  /\ \/ /\ part = "cache"
        /\ CacheNext /\ next' <= MaxInsertions
        /\ UNCHANGED <<windowVars, raw>>
     \/ part = "freshness" /\ WindowNext /\ UNCHANGED <<cacheVars, raw>>
     \/ part = "url" /\ SpellingNext /\ UNCHANGED <<cacheVars, windowVars>>

Spec == Init /\ [][Next]_<<part, cacheVars, windowVars, raw>>

=============================================================================
