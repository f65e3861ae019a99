------------------------------ MODULE CertUrl ------------------------------
(***************************************************************************)
(* normalizeCertChainURL of pkg/alexaverify/url.go: which certificate URLs *)
(* may be fetched, and the canonical form that keys the cache.             *)
(*                                                                         *)
(* A raw URL is what url.Parse (external) makes of the header: scheme,     *)
(* userinfo, host, port, the path as the segments that follow its slashes, *)
(* query and fragment.  Segments are tokens; Decoded gives the segments a  *)
(* token stands for after percent-decoding: "%2e%2e" is "..", and a token  *)
(* with "%2F" in it is several segments.  Encoded gives the token that     *)
(* String (external) writes for a segment: "%2e%2e", decoded once already, *)
(* becomes "%252e%252e".                                                   *)
(***************************************************************************)
EXTENDS Naturals, Sequences, FiniteSets

CONSTANTS
  Decoded,     \* percent-decoding: a function from tokens to sequences of segments
  Encoded,     \* percent-encoding: a function from segments to tokens
  FoldedCase   \* ASCII case folding: a function from schemes and hosts

CertScheme == "https"             \* validCertScheme
CertHost == "s3.amazonaws.com"    \* validCertHost
CertPort == "443"                 \* validCertPort
CertPrefix == "echo.api"          \* validCertPathPrefix, its one segment
NoPort == ""                      \* no port, or nothing after the colon

Tokens == DOMAIN Decoded
Segments == DOMAIN Encoded

\* What is encoded is one segment again when it is decoded, and folding leaves
\* alone what is folded already.
ASSUME UrlAssumption ==
  /\ \A t \in Tokens : Decoded[t] \in Seq(Segments)
  /\ \A s \in Segments : Encoded[s] \in Tokens /\ Decoded[Encoded[s]] = <<s>>
  /\ FoldedCase[CertScheme] = CertScheme /\ FoldedCase[CertHost] = CertHost

-----------------------------------------------------------------------------
(* Paths                                                                   *)

\* u.Path: percent-decoding comes before anything else looks at the path.
DecodedUpTo(path) ==
  LET upTo[i \in 0..Len(path)] ==
        IF i = 0 THEN <<>> ELSE upTo[i - 1] \o Decoded[path[i]]
  IN  upTo

DecodedPath(path) == DecodedUpTo(path)[Len(path)]

\* A segment that path.Clean keeps unless a later one takes it away.
IsName(s) == s \notin {"", ".", ".."}

\* Deliberate mistake: a ".." never takes anything away.
CleanKeepsParents(path) == SelectSeq(path, IsName)

\* path.Clean of a rooted path, segment by segment: "" and "." go, ".." takes
\* the segment before it along, and nothing when there is none.
AfterSegment(kept, s) ==
  CASE IsName(s) -> Append(kept, s)
    [] s = ".." /\ kept # <<>> -> SubSeq(kept, 1, Len(kept) - 1)
    [] OTHER -> kept

Cleaned(path) ==
  LET upTo[i \in 0..Len(path)] ==
        IF i = 0 THEN <<>> ELSE AfterSegment(upTo[i - 1], path[i])
  IN  upTo

\* A path that is empty cleans to the root as well, by the check on the leading
\* slash.
Clean(path) == Cleaned(path)[Len(path)]

\* strings.HasPrefix(cleaned, "/echo.api/"): a cleaned path has no final slash.
UnderPrefix(cleaned) == Len(cleaned) >= 2 /\ cleaned[1] = CertPrefix

-----------------------------------------------------------------------------
(* Normalisation                                                           *)

Rejected(e) == [ok |-> FALSE, error |-> e]

\* Deliberate mistake: the dots are looked for after path.Clean took them out.
PathErrorWhenCleaned(path) ==
  IF \E i \in DOMAIN Clean(path) : Clean(path)[i] = ".." THEN Rejected("ErrCertURLTraversal") ELSE Rejected("ErrCertURLInvalid")

\* certPathError, given the decoded path before it was cleaned.
PathError(path) ==
  IF \E i \in DOMAIN path : path[i] = ".." THEN Rejected("ErrCertURLTraversal") ELSE Rejected("ErrCertURLInvalid")

\* validateCertChainHostPort
HostPortOK(raw) ==
  /\ FoldedCase[raw.host] = CertHost
  /\ raw.port \in {NoPort, CertPort}

\* String() escapes the cleaned path again, segment by segment.
CanonicalPath(raw) ==
  LET cleaned == Clean(DecodedPath(raw.path))
  IN  [i \in DOMAIN cleaned |-> Encoded[cleaned[i]]]

\* Deliberate mistake: the canonical form keeps the fragment.
CanonicalWithFragment(raw) ==
  [scheme |-> CertScheme, host |-> CertHost, path |-> CanonicalPath(raw),
   query |-> raw.query \o raw.fragment]

\* The URL rebuilt from its parts: fixed scheme and host, no port, userinfo or
\* fragment.
CanonicalUrl(raw) ==
  [scheme |-> CertScheme, host |-> CertHost, path |-> CanonicalPath(raw),
   query |-> raw.query]

\* The checks in the code's order, the first that fails naming the error.
NormalizeCertChainURL(raw) ==
  IF ~raw.parses \/ FoldedCase[raw.scheme] # CertScheme THEN Rejected("ErrCertURLInvalid")
  ELSE IF raw.userinfo THEN Rejected("ErrCertURLUserinfo")
  ELSE IF ~HostPortOK(raw) THEN Rejected("ErrCertURLInvalid")
  ELSE IF ~UnderPrefix(Clean(DecodedPath(raw.path))) THEN PathError(DecodedPath(raw.path))
  ELSE [ok |-> TRUE, url |-> CanonicalUrl(raw)]

=============================================================================
