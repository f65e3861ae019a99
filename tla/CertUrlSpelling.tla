-------------------------- MODULE CertUrlSpelling --------------------------
(***************************************************************************)
(* The ways a caller may spell a certificate URL, and what normalisation   *)
(* must make of each.  A spelling starts with everything but the path and  *)
(* grows by one segment at a time, so that every path up to the bound is   *)
(* met under every combination of the other parts.                         *)
(***************************************************************************)
EXTENDS CertUrl

CONSTANTS
  Schemes, Hosts, Ports, Queries, Fragments,   \* parts as sent
  MaxSegments                                  \* bound on a path's length

\* Tokens that stand for themselves, and ".." in percent-encoding.
ASSUME SpellingAssumption ==
  /\ \A t \in {"", ".", "x"} : t \in Tokens /\ Decoded[t] = <<t>>
  /\ "%2e%2e" \in Tokens /\ Decoded["%2e%2e"] = <<"..">>

VARIABLE raw

SpellingInit ==
  raw \in [parses : BOOLEAN, scheme : Schemes, userinfo : BOOLEAN, host : Hosts,
           port : Ports, path : {<<>>}, query : Queries, fragment : Fragments]

AddSegment(token) ==
  /\ Len(raw.path) < MaxSegments
  /\ raw' = [raw EXCEPT !.path = Append(@, token)]

SpellingNext == \E token \in Tokens : AddSegment(token)

SpellingSpec == SpellingInit /\ [][SpellingNext]_raw

-----------------------------------------------------------------------------
(* A reference for Clean that keeps no stack                               *)

Parents(path, i, j) == Cardinality({k \in (i + 1)..j : path[k] = ".."})
Names(path, i, j) == Cardinality({k \in (i + 1)..j : IsName(path[k])})

\* A name survives unless some stretch after it goes up more often than down.
Survives(path, i) ==
  /\ IsName(path[i])
  /\ \A j \in i..Len(path) : Parents(path, i, j) <= Names(path, i, j)

Remaining(path) ==
  LET kept == {i \in DOMAIN path : Survives(path, i)}
  IN  [n \in 1..Cardinality(kept) |->
         path[CHOOSE i \in kept : Cardinality({k \in kept : k < i}) = n - 1]]

-----------------------------------------------------------------------------
(* Properties                                                              *)

Result == NormalizeCertChainURL(raw)

\* An accepted URL stays inside the permitted path however it was spelled: what
\* a server decodes its path to is the reference's reading of the path that was
\* sent, names an object under the prefix, and has no segment left to resolve.
CanonicalIsConfined ==
  Result.ok =>
    LET path == DecodedPath(Result.url.path) IN
    /\ path = Remaining(DecodedPath(raw.path))
    /\ path[1] = CertPrefix /\ Len(path) >= 2
    /\ \A i \in DOMAIN path : IsName(path[i])

\* A path that leaves the prefix by way of ".." is reported as a traversal, and
\* nothing else is, whatever encoding hides the dots.
TraversalIsNamed ==
  LET decoded == DecodedPath(raw.path) IN
  raw.parses /\ ~raw.userinfo /\ HostPortOK(raw) /\ FoldedCase[raw.scheme] = CertScheme =>
    (Result = Rejected("ErrCertURLTraversal") <=>
       /\ \E i \in DOMAIN decoded : decoded[i] = ".."
       /\ ~(Len(Remaining(decoded)) >= 2 /\ Remaining(decoded)[1] = CertPrefix))

\* Spellings of one object share one cache key: case of scheme and host, an
\* explicit default port, a fragment and the encoding of the path do not matter,
\* and a canonical URL normalises to itself.
KeyIgnoresSpelling ==
  Result.ok =>
    /\ \A s \in Schemes, h \in Hosts, f \in Fragments :
         FoldedCase[s] = CertScheme /\ FoldedCase[h] = CertHost =>
           NormalizeCertChainURL([raw EXCEPT !.scheme = s, !.host = h, !.port = CertPort,
                                             !.fragment = f]) = Result
    /\ \A p \in {<<>>, <<".">>, <<"">>, <<"x", "%2e%2e">>} :
         NormalizeCertChainURL([raw EXCEPT !.path = p \o @]) = Result
    /\ NormalizeCertChainURL([raw EXCEPT !.scheme = Result.url.scheme, !.host = Result.url.host,
                                         !.port = NoPort, !.path = Result.url.path]) = Result

=============================================================================
