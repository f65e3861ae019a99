------------------------------ MODULE Verifier ------------------------------
(***************************************************************************)
(* pkg/alexaverify: calls of Verifier.Verify and Verifier.Warm, running    *)
(* concurrently against one certificate cache, one wall clock and an       *)
(* origin server that may answer with anything, late or not at all.        *)
(*                                                                         *)
(* A call is a process.  Its steps are the points at which other calls can *)
(* be noticed: a reading of the clock, an operation on the cache, a dial,  *)
(* an answer, an expired context.  What it computes in between on its own  *)
(* data belongs to the step before.                                        *)
(***************************************************************************)
EXTENDS CertCache, Freshness

CONSTANTS
  Procs,        \* calls of Verify or Warm
  Instants,     \* values of the wall clock
  NoTime,       \* no instant: an envelope without a usable timestamp, a clock not read
  Configured,   \* Verifier.Tolerance
  Requests,     \* what a call may be given, see RequestTypeOK
  Canonical,    \* normalizeCertChainURL: raw URLs to canonical ones or a sentinel
  Bundles,      \* response bodies the origin may serve
  Cert          \* what a bundle turns out to be, see CertTypeOK

UrlErrors == {"ErrCertURLInvalid", "ErrCertURLUserinfo", "ErrCertURLTraversal"}

(***************************************************************************)
(* A request: its kind ("verify" or "warm"), whether both headers are      *)
(* present, its timestamp and type, the URL as sent, and the key that      *)
(* signed the body (a value no certificate has, for a signature that is    *)
(* malformed or over other bytes).                                         *)
(***************************************************************************)
ASSUME RequestAssumption ==
  \A r \in Requests :
    /\ r.kind \in {"verify", "warm"}
    /\ r.headers \in BOOLEAN
    /\ r.ts \in Instants \cup {NoTime}
    /\ r.skillEvent \in BOOLEAN
    /\ r.url \in DOMAIN Canonical

(***************************************************************************)
(* A bundle: whether it parses as PEM certificates, whether its path leads *)
(* to a trusted root, whether the leaf names the Alexa API domain and has  *)
(* an RSA key, that key, and two periods: of the leaf, and of the other    *)
(* certificates on its path.                                               *)
(***************************************************************************)
ASSUME CertAssumption ==
  \A b \in Bundles :
    /\ Cert[b].parses \in BOOLEAN /\ Cert[b].trusted \in BOOLEAN
    /\ Cert[b].host \in BOOLEAN /\ Cert[b].rsa \in BOOLEAN
    /\ Cert[b].leaf \subseteq Instants /\ Cert[b].path \subseteq Instants

\* A canonical URL is a key of the cache; a parsed chain is known by the call
\* that parsed it, since a call parses at most one.
ASSUME NamesAssumption ==
  /\ \A raw \in DOMAIN Canonical : Canonical[raw] \in Urls \cup UrlErrors
  /\ Urls \cap UrlErrors = {}
  /\ Chains = [by : Procs, bundle : Bundles]
  /\ Instants \subseteq Int /\ NoTime \notin Int

Attempts == 2   \* certificateFetchAttempts

VARIABLES
  clock,   \* the wall clock, Verifier.now
  call     \* the state of each call

verifierVars == <<entries, next, clock, call>>

Results == UrlErrors \cup
  {"nil", "ErrMissingHeader", "ErrStaleTimestamp", "ErrCertFetch", "ErrUntrustedChain",
   "ErrCertHostname", "ErrUnsupportedKey", "ErrBadSignature"}

Fetching == {"dial", "waiting", "backoff"}
Running == Fetching \cup {"locate", "lookup", "evict", "install", "signature"}

Idle == [pc |-> "idle"]

-----------------------------------------------------------------------------
(* What a call computes on its own data                                    *)

\* The header and timestamp checks at the top of Verify.
LocalVerdict(r, now) ==
  CASE ~r.headers -> "ErrMissingHeader"
    [] r.headers /\ r.ts = NoTime -> "ErrStaleTimestamp"
    [] OTHER -> IF Fresh(now, r.ts, Allowed(Configured, r.skillEvent))
                THEN "nil" ELSE "ErrStaleTimestamp"

\* parsePEMChain, validateChain at now, verifyCertificateHostname.
Vet(b, now) ==
  CASE ~Cert[b].parses -> "ErrUntrustedChain"
    [] ~(Cert[b].trusted /\ now \in Cert[b].leaf \cap Cert[b].path) -> "ErrUntrustedChain"
    [] ~Cert[b].host -> "ErrCertHostname"
    [] OTHER -> "nil"

\* validateCachedLeafTime: the leaf's period and nothing else.
LeafValid(b, now) == now \in Cert[b].leaf

\* verifyBodySignature.
SignatureVerdict(b, key) ==
  CASE ~Cert[b].rsa -> "ErrUnsupportedKey"
    [] Cert[b].key # key -> "ErrBadSignature"
    [] OTHER -> "nil"

-----------------------------------------------------------------------------
(* Steps of a call                                                         *)

\* The canonical URL of a call, once its own URL has been accepted.
Key(p) == Canonical[call[p].req.url]

Begun(r, pc, checkedAt) ==
  [pc |-> pc, req |-> r, checkedAt |-> checkedAt, now |-> NoTime, attempts |-> 0,
   ctxDone |-> FALSE, chain |-> NoChain, result |-> "nil"]

\* The call moves on to pc and touches nothing shared.
Goto(p, pc) == call' = [call EXCEPT ![p].pc = pc]

\* The call returns: its counter and its context go out of scope.
Returned(c, result) ==
  [c EXCEPT !.pc = "done", !.result = result, !.attempts = 0, !.ctxDone = FALSE]

Return(p, result) == call' = [call EXCEPT ![p] = Returned(@, result)]

\* Deliberate mistake: the signature, and so the fetch, comes before the
\* timestamp.
VerifySignatureFirst(p, r) ==
  /\ call[p].pc = "idle"
  /\ r.kind = "verify"
  /\ r.headers
  /\ call' = [call EXCEPT ![p] = Begun(r, "locate", clock)]
  /\ UNCHANGED <<entries, next, clock>>

\* Verify is called: the checks that need no network, at the clock's reading.
Verify(p, r) ==
  LET verdict == LocalVerdict(r, clock) IN
  /\ call[p].pc = "idle"
  /\ r.kind = "verify"
  /\ call' = [call EXCEPT ![p] =
               IF verdict = "nil" THEN Begun(r, "locate", clock)
               ELSE [Begun(r, "done", clock) EXCEPT !.result = verdict]]
  /\ UNCHANGED <<entries, next, clock>>

\* Warm is called: nothing comes before the URL.
Warm(p, r) ==
  /\ call[p].pc = "idle"
  /\ r.kind = "warm"
  /\ call' = [call EXCEPT ![p] = Begun(r, "locate", NoTime)]
  /\ UNCHANGED <<entries, next, clock>>

\* The URL is normalised and, if it passes, the clock read a second time.
Locate(p) ==
  /\ call[p].pc = "locate"
  /\ IF Key(p) \in UrlErrors
     THEN Return(p, Key(p))
     ELSE call' = [call EXCEPT ![p] = [@ EXCEPT !.pc = "lookup", !.now = clock]]
  /\ UNCHANGED <<entries, next, clock>>

\* Deliberate mistake: a hit is used as it is.
LookupUnchecked(p) ==
  LET found == Get(Key(p)) IN
  /\ call[p].pc = "lookup"
  /\ call' = [call EXCEPT ![p] =
               [@ EXCEPT !.chain = found,
                         !.pc = IF found = NoChain THEN "dial" ELSE "signature"]]
  /\ UNCHANGED <<entries, next, clock>>

\* The cache is read under its lock, and a hit judged at the reading of Locate.
Lookup(p) ==
  LET found == Get(Key(p)) IN
  /\ call[p].pc = "lookup"
  /\ call' = [call EXCEPT ![p] =
               [@ EXCEPT !.chain = found,
                         !.pc = CASE found = NoChain -> "dial"
                                  [] found # NoChain /\ LeafValid(found.bundle, call[p].now) -> "signature"
                                  [] OTHER -> "evict"]]
  /\ UNCHANGED <<entries, next, clock>>

\* Deliberate mistakes: the chain stays cached; the caller is told that the
\* fetch failed.
EvictForgets(p) ==
  /\ call[p].pc = "evict"
  /\ Return(p, "ErrUntrustedChain")
  /\ UNCHANGED <<entries, next, clock>>

EvictMisreports(p) ==
  /\ call[p].pc = "evict"
  /\ Remove(Key(p), call[p].chain)
  /\ Return(p, "ErrCertFetch")
  /\ UNCHANGED clock

\* A hit outside its leaf's period is removed, under the lock taken again.
Evict(p) ==
  /\ call[p].pc = "evict"
  /\ Remove(Key(p), call[p].chain)
  /\ Return(p, "ErrUntrustedChain")
  /\ UNCHANGED clock

\* Deliberate mistake: attempts are not counted.
DialUncounted(p) ==
  /\ call[p].pc = "dial"
  /\ Goto(p, "waiting")
  /\ UNCHANGED <<entries, next, clock>>

\* One attempt of the fetch begins.
Dial(p) ==
  /\ call[p].pc = "dial"
  /\ call' = [call EXCEPT ![p] = [@ EXCEPT !.pc = "waiting", !.attempts = call[p].attempts + 1]]
  /\ UNCHANGED <<entries, next, clock>>

\* Deliberate mistake: whatever parses is installed.
AnswerUnvetted(p, b) ==
  LET parsed == [call[p] EXCEPT !.chain = [by |-> p, bundle |-> b]] IN
  /\ call[p].pc = "waiting"
  /\ ~call[p].ctxDone
  /\ call' = [call EXCEPT ![p] = IF Cert[b].parses THEN [parsed EXCEPT !.pc = "install"]
                                 ELSE Returned(parsed, "ErrUntrustedChain")]
  /\ UNCHANGED <<entries, next, clock>>

\* A complete 200 response arrives in time; what it holds is parsed and vetted
\* at the reading of Locate, which the answer may have outlived.
Answer(p, b) ==
  LET verdict == Vet(b, call[p].now)
      parsed == [call[p] EXCEPT !.chain = [by |-> p, bundle |-> b]]
  IN
  /\ call[p].pc = "waiting"
  /\ ~call[p].ctxDone
  /\ call' = [call EXCEPT ![p] = IF verdict = "nil" THEN [parsed EXCEPT !.pc = "install"]
                                 ELSE Returned(parsed, verdict)]
  /\ UNCHANGED <<entries, next, clock>>

\* Deliberate mistake: one attempt too many.
AttemptFailsLate(p) ==
  /\ call[p].pc = "waiting"
  /\ IF call[p].attempts > Attempts
     THEN Return(p, "ErrCertFetch")
     ELSE Goto(p, "backoff")
  /\ UNCHANGED <<entries, next, clock>>

\* The attempt fails: transport, status, size, or a context that is done.
AttemptFails(p) ==
  /\ call[p].pc = "waiting"
  /\ IF call[p].attempts = Attempts
     THEN Return(p, "ErrCertFetch")
     ELSE Goto(p, "backoff")
  /\ UNCHANGED <<entries, next, clock>>

\* The retry timer fires.  When the context is done too, either may be taken.
Retry(p) ==
  /\ call[p].pc = "backoff"
  /\ Goto(p, "dial")
  /\ UNCHANGED <<entries, next, clock>>

GiveUp(p) ==
  /\ call[p].pc = "backoff"
  /\ call[p].ctxDone
  /\ Return(p, "ErrCertFetch")
  /\ UNCHANGED <<entries, next, clock>>

\* The vetted chain enters the cache.
Install(p) ==
  /\ call[p].pc = "install"
  /\ Put(Key(p), call[p].chain)
  /\ Goto(p, "signature")
  /\ UNCHANGED clock

\* Verify checks the body's signature; Warm is content with the chain.
CheckSignature(p) ==
  /\ call[p].pc = "signature"
  /\ Return(p, IF call[p].req.kind = "warm" THEN "nil"
               ELSE SignatureVerdict(call[p].chain.bundle, call[p].req.key))
  /\ UNCHANGED <<entries, next, clock>>

-----------------------------------------------------------------------------
(* What happens to a call                                                  *)

\* The fetch's two seconds are over, whichever attempt it is in.
Deadline(p) ==
  /\ call[p].pc \in Fetching
  /\ ~call[p].ctxDone
  /\ call' = [call EXCEPT ![p].ctxDone = TRUE]
  /\ UNCHANGED <<entries, next, clock>>

\* The caller goes away before the fetch is over: a client that disconnects, a
\* service that stops while it is warming.
Cancel(p) ==
  /\ call[p].pc \in Fetching \cup {"locate", "lookup"}
  /\ ~call[p].ctxDone
  /\ call' = [call EXCEPT ![p].ctxDone = TRUE]
  /\ UNCHANGED <<entries, next, clock>>

\* The wall clock advances or is set.
SetClock(t) ==
  /\ t # clock
  /\ clock' = t
  /\ UNCHANGED <<entries, next, call>>

-----------------------------------------------------------------------------
(* The specification                                                       *)

VerifierInit ==
  /\ CacheInit
  /\ clock \in Instants
  /\ call = [p \in Procs |-> Idle]

\* Steps the program takes of itself.
Step(p) ==
  \/ Locate(p) \/ Lookup(p) \/ Evict(p) \/ Dial(p) \/ Retry(p) \/ GiveUp(p)
  \/ Install(p) \/ CheckSignature(p)
  \/ call[p].pc = "waiting" /\ call[p].ctxDone /\ AttemptFails(p)

VerifierNext ==
  \/ \E p \in Procs :
       \/ \E r \in Requests : Verify(p, r) \/ Warm(p, r)
       \/ \E b \in Bundles : Answer(p, b)
       \/ Step(p) \/ AttemptFails(p) \/ Deadline(p) \/ Cancel(p)
  \/ \E t \in Instants : SetClock(t)

VerifierSpec == VerifierInit /\ [][VerifierNext]_verifierVars

(***************************************************************************)
(* A running goroutine is scheduled, the retry timer fires, net/http gives *)
(* up an attempt whose context is done, and the deadline timer fires.  No  *)
(* answer, no cancellation, no clock movement and no call is owed.         *)
(***************************************************************************)
FairVerifierSpec ==
  /\ VerifierSpec
  /\ \A p \in Procs : WF_verifierVars(Step(p)) /\ WF_verifierVars(Deadline(p))

-----------------------------------------------------------------------------
(* Properties                                                              *)

Finished(p) == call[p].pc = "done"

\* The types; attempts and expired contexts belong to fetches.
VerifierTypeOK ==
  /\ CacheTypeOK
  /\ clock \in Instants
  /\ \A p \in Procs : call[p] # Idle =>
       /\ call[p].pc \in Running \cup {"done"}
       /\ call[p].req \in Requests
       /\ call[p].now \in Instants \cup {NoTime}
       /\ call[p].chain \in Chains \cup {NoChain}
       /\ call[p].result \in Results
       /\ call[p].attempts \in 0..Attempts
       /\ call[p].pc \in {"dial", "backoff"} => call[p].attempts < Attempts

\* Whoever installed it and whatever happened since, a cached chain was fetched
\* by a call for the very URL it is filed under, and passed every check on
\* chains at that call's reading of the clock.  A hit repeats none of them but
\* the leaf's period.
CacheHoldsVetted ==
  \A u \in Cached :
    LET c == entries[u].chain IN
    /\ Key(c.by) = u
    /\ Vet(c.bundle, call[c.by].now) = "nil"

\* The request had its headers, was fresh and named an acceptable URL; its body
\* was signed by the RSA key of a leaf in its period at this call's reading, of
\* a chain vetted for that URL, if only by another call.
Authentic(p) ==
  LET r == call[p].req
      c == call[p].chain
  IN /\ LocalVerdict(r, call[p].checkedAt) = "nil"
     /\ Key(p) \in Urls
     /\ Key(c.by) = Key(p)
     /\ Vet(c.bundle, call[c.by].now) = "nil"
     /\ LeafValid(c.bundle, call[p].now)
     /\ Cert[c.bundle].rsa /\ Cert[c.bundle].key = r.key

\* Verify returns nil only for an authentic request, whichever call fetched the
\* chain and whatever the cache, the clock and the origin did in between.
AcceptedIsAuthentic ==
  \A p \in Procs :
    Finished(p) /\ call[p].req.kind = "verify" /\ call[p].result = "nil" => Authentic(p)

\* A request that its own headers, timestamp or URL condemn neither opens a
\* connection nor consults or changes the cache, at any time.
NoEgressForRejects ==
  \A p \in Procs :
    call[p].pc \in Running \ {"locate"} =>
      /\ Key(p) \in Urls
      /\ call[p].req.kind = "verify" => LocalVerdict(call[p].req, call[p].checkedAt) = "nil"

\* A chain that expired in the cache heals: once one reader has been turned away
\* by it, it is out of the cache for good, and a later call fetches afresh.  A
\* chain that a call fetched and rejected itself never gets in.
RejectedStaysOut ==
  \A p \in Procs :
    Finished(p) /\ call[p].result \in {"ErrUntrustedChain", "ErrCertHostname"} =>
      \A u \in Cached : entries[u].chain # call[p].chain

\* A chain that leaves the cache other than to make room or to be replaced by a
\* newly vetted one was taken out by a call that had read this very chain, and
\* found its leaf out of its period.  A slow reader never takes out the
\* replacement of what it read.
RemovalIsJustified ==
  [][\A u \in Cached :
       \/ u \in Cached' /\ entries'[u].chain = entries[u].chain
       \/ \E p \in Procs : call[p].pc = "install" /\ call'[p].pc = "signature"
       \/ \E p \in Procs : /\ call[p].pc = "evict" /\ call'[p].pc = "done"
                           /\ call[p].chain = entries[u].chain
                           /\ ~LeafValid(call[p].chain.bundle, call[p].now)]_verifierVars

\* The result is a true statement about the call's own inputs: local reasons
\* about the request, the others about the chain it used.
Explained(p) ==
  LET r == call[p].req
      c == call[p].chain
      e == call[p].result
  IN /\ e \in {"ErrMissingHeader", "ErrStaleTimestamp"} <=>
           r.kind = "verify" /\ LocalVerdict(r, call[p].checkedAt) # "nil"
     /\ e \in UrlErrors => e = Key(p)
     /\ e = "ErrCertFetch" => c = NoChain
     /\ e = "ErrUntrustedChain" =>
          IF c.by = p THEN Vet(c.bundle, call[p].now) = e
          ELSE ~LeafValid(c.bundle, call[p].now)
     /\ e = "ErrCertHostname" => c.by = p /\ Vet(c.bundle, call[p].now) = e
     /\ e \in {"ErrUnsupportedKey", "ErrBadSignature"} =>
          r.kind = "verify" /\ SignatureVerdict(c.bundle, r.key) = e

\* A caller is never told a reason that is not the case.
RejectionIsExplained == \A p \in Procs : Finished(p) => Explained(p)

\* Every call returns, though the origin may never answer: two attempts under
\* one deadline, no lock held across them.
CallsReturn == \A p \in Procs : call[p].pc # "idle" ~> Finished(p)

\* What the comment on validateCachedLeafTime relies on: trust is immutable for
\* a parsed chain, so a hit whose leaf is in its period would pass full path
\* validation too.
TrustOutlivesFetch ==
  \A p \in Procs :
    Finished(p) /\ call[p].req.kind = "verify" /\ call[p].result = "nil" =>
      Vet(call[p].chain.bundle, call[p].now) = "nil"

-----------------------------------------------------------------------------
(* What the proofs carry from step to step                                 *)

\* A call once it has begun.
Call ==
  [pc : Running \cup {"done"}, req : Requests, checkedAt : Instants \cup {NoTime}, now : Instants \cup {NoTime},
   attempts : 0..Attempts, ctxDone : BOOLEAN, chain : Chains \cup {NoChain}, result : Results]

\* The call that parsed this chain is past its installation, and did install
\* it: from here on no one will install it again.
Spent(c) == c \in Chains /\ call[c.by].pc \in {"signature", "done"}

\* The chain was fetched for this URL and vetted by the call that parsed it.
VettedFor(c, u) ==
  /\ Spent(c)
  /\ call[c.by].chain = c
  /\ Key(c.by) = u
  /\ Vet(c.bundle, call[c.by].now) = "nil"

\* What holds of a call at each of its steps.
CallInv(p) ==
  LET c == call[p] IN
  /\ c.pc \in Running /\ c.req.kind = "verify" => LocalVerdict(c.req, c.checkedAt) = "nil"
  /\ c.pc \in Running \ {"locate"} => Key(p) \in Urls /\ c.now \in Instants
  /\ c.pc \in {"locate", "lookup", "dial", "backoff"} => c.attempts < Attempts
  /\ c.pc \in Fetching \cup {"locate", "lookup"} => c.chain = NoChain
  /\ c.pc = "evict" => VettedFor(c.chain, Key(p)) /\ ~LeafValid(c.chain.bundle, c.now)
  /\ c.pc = "install" => /\ c.chain \in Chains /\ c.chain.by = p
                         /\ Vet(c.chain.bundle, c.now) = "nil"
  /\ c.pc = "signature" => VettedFor(c.chain, Key(p)) /\ LeafValid(c.chain.bundle, c.now)
  /\ Finished(p) => Explained(p)
  /\ Finished(p) /\ c.req.kind = "verify" /\ c.result = "nil" =>
       Authentic(p) /\ VettedFor(c.chain, Key(p))
  /\ Finished(p) /\ c.result \in {"ErrUntrustedChain", "ErrCertHostname"} => Spent(c.chain)

\* The inductive invariant: the cache's own, one per call, and the chains that
\* are, and that may no longer be, in the cache.
VerifierInv ==
  /\ CacheInv
  /\ clock \in Instants
  /\ call \in [Procs -> Call \cup {Idle}]
  /\ \A p \in Procs : CallInv(p)
  /\ \A u \in Cached : VettedFor(entries[u].chain, u)
  /\ RejectedStaysOut

=============================================================================
