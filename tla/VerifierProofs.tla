--------------------------- MODULE VerifierProofs ---------------------------
(***************************************************************************)
(* Proofs about Verifier for any number of calls, any requests, bundles    *)
(* and URLs, any capacity of the cache and any movement of the clock.      *)
(***************************************************************************)
EXTENDS Verifier, CertCacheProofs

-----------------------------------------------------------------------------
(* Lemmas on what a call computes                                          *)

\* A verdict is one of the results; none of the local ones names a URL.
LEMMA VerdictsAreResults ==
  /\ \A r, now : LocalVerdict(r, now) \in {"nil", "ErrMissingHeader", "ErrStaleTimestamp"}
  /\ \A b, now : Vet(b, now) \in {"nil", "ErrUntrustedChain", "ErrCertHostname"}
  /\ \A b, key : SignatureVerdict(b, key) \in {"nil", "ErrUnsupportedKey", "ErrBadSignature"}
BY DEF LocalVerdict, Vet, SignatureVerdict

\* Vetting at an instant includes the leaf's period at that instant.
LEMMA VettedLeafIsValid ==
  ASSUME NEW b \in Bundles, NEW now, Vet(b, now) = "nil"
  PROVE  LeafValid(b, now)
BY CertAssumption DEF Vet, LeafValid

\* A signature passes only under the leaf's RSA key.
LEMMA SignatureNeedsKey ==
  ASSUME NEW b \in Bundles, NEW key, SignatureVerdict(b, key) = "nil"
  PROVE  Cert[b].rsa /\ Cert[b].key = key
BY CertAssumption DEF SignatureVerdict

\* A chain is a record of the call that parsed it and its bundle.
LEMMA ChainFields ==
  /\ \A c \in Chains : c.by \in Procs /\ c.bundle \in Bundles
  /\ \A p \in Procs, b \in Bundles : [by |-> p, bundle |-> b] \in Chains
BY NamesAssumption

\* What a return and a move leave of a call's record.
LEMMA ReturnedFields ==
  ASSUME NEW c \in Call, NEW e \in Results
  PROVE  LET x == Returned(c, e) IN
         /\ x \in Call
         /\ x.pc = "done" /\ x.result = e
         /\ x.req = c.req /\ x.checkedAt = c.checkedAt /\ x.now = c.now /\ x.chain = c.chain
<1> DEFINE c1 == [c EXCEPT !.pc = "done"]
           c2 == [c1 EXCEPT !.result = e]
           c3 == [c2 EXCEPT !.attempts = 0]
           c4 == [c3 EXCEPT !.ctxDone = FALSE]
<1>1. c4 = Returned(c, e)
  BY DEF Returned
<1>2. /\ c1 \in Call /\ c1.pc = "done"
      /\ c1.req = c.req /\ c1.checkedAt = c.checkedAt /\ c1.now = c.now /\ c1.chain = c.chain
  BY DEF Call
<1> HIDE DEF c1
<1>3. /\ c2 \in Call /\ c2.pc = "done" /\ c2.result = e
      /\ c2.req = c.req /\ c2.checkedAt = c.checkedAt /\ c2.now = c.now /\ c2.chain = c.chain
  BY <1>2 DEF Call
<1> HIDE DEF c2
<1>4. /\ c3 \in Call /\ c3.pc = "done" /\ c3.result = e
      /\ c3.req = c.req /\ c3.checkedAt = c.checkedAt /\ c3.now = c.now /\ c3.chain = c.chain
  BY <1>3 DEF Call, Attempts
<1> HIDE DEF c3
<1>5. /\ c4 \in Call /\ c4.pc = "done" /\ c4.result = e
      /\ c4.req = c.req /\ c4.checkedAt = c.checkedAt /\ c4.now = c.now /\ c4.chain = c.chain
  BY <1>4 DEF Call
<1> HIDE DEF c4
<1>6. QED
  BY <1>1, <1>5

LEMMA MovedFields ==
  ASSUME NEW c \in Call, NEW pc \in Running \cup {"done"}
  PROVE  LET x == [c EXCEPT !.pc = pc] IN
         /\ x \in Call
         /\ x.pc = pc /\ x.result = c.result /\ x.attempts = c.attempts
         /\ x.req = c.req /\ x.checkedAt = c.checkedAt /\ x.now = c.now /\ x.chain = c.chain
BY DEF Call

\* A call that has begun is a record of the right shape and has its invariant.
LEMMA BegunCall ==
  ASSUME VerifierInv, NEW p \in Procs, call[p].pc # "idle"
  PROVE  call[p] \in Call /\ CallInv(p)
BY DEF VerifierInv, Idle

-----------------------------------------------------------------------------
(* One call moves                                                          *)

\* Steps of one call do not disturb what is known of a chain, or of the others:
\* a call's request never changes, its reading is fixed once taken, and its
\* chain once it has passed installation.
LEMMA ChainsStayVetted ==
  ASSUME VerifierInv, NEW p \in Procs, NEW x,
         call' = [call EXCEPT ![p] = x],
         call[p].pc \in {"signature", "done"} =>
           /\ x.pc \in {"signature", "done"}
           /\ x.req = call[p].req /\ x.now = call[p].now /\ x.chain = call[p].chain
  PROVE  \A c : /\ Spent(c) => Spent(c)'
                /\ \A u : VettedFor(c, u) => VettedFor(c, u)'
<1>1. call \in [Procs -> Call \cup {Idle}]
  BY DEF VerifierInv
<1>2. ASSUME NEW c, Spent(c)
      PROVE  /\ call'[c.by].pc \in {"signature", "done"}
             /\ call'[c.by].req = call[c.by].req
             /\ call'[c.by].now = call[c.by].now
             /\ call'[c.by].chain = call[c.by].chain
  <2>1. c.by \in Procs
    BY <1>2, ChainFields DEF Spent
  <2>2. CASE c.by = p
    BY <1>1, <1>2, <2>1, <2>2 DEF Spent
  <2>3. CASE c.by # p
    BY <1>1, <1>2, <2>1, <2>3 DEF Spent
  <2>4. QED
    BY <2>2, <2>3
<1>3. QED
  BY <1>2 DEF Spent, VettedFor, Key

\* The invariant of a call that does not move.
LEMMA OthersKeepInv ==
  ASSUME VerifierInv, NEW p \in Procs, NEW x,
         call' = [call EXCEPT ![p] = x],
         call[p].pc \in {"signature", "done"} =>
           /\ x.pc \in {"signature", "done"}
           /\ x.req = call[p].req /\ x.now = call[p].now /\ x.chain = call[p].chain,
         NEW q \in Procs \ {p}
  PROVE  CallInv(q)'
<1>1. call'[q] = call[q]
  BY DEF VerifierInv
<1>2. CallInv(q)
  BY DEF VerifierInv
<1>3. \A c : /\ Spent(c) => Spent(c)'
             /\ \A u : VettedFor(c, u) => VettedFor(c, u)'
  BY ChainsStayVetted
<1>4. Key(q)' = Key(q) /\ Finished(q)' = Finished(q) /\ Explained(q)' = Explained(q)
  BY <1>1 DEF Key, Finished, Explained
<1>5. ASSUME Finished(q), call[q].req.kind = "verify", call[q].result = "nil"
      PROVE  Authentic(q)'
  <2>1. Authentic(q) /\ VettedFor(call[q].chain, Key(q))
    BY <1>2, <1>5 DEF CallInv
  <2>2. VettedFor(call[q].chain, Key(q))'
    BY <1>1, <1>3, <1>4, <2>1
  <2>3. QED
    BY <1>1, <1>4, <2>1, <2>2 DEF Authentic, VettedFor
<1>6. QED
  BY <1>1, <1>2, <1>3, <1>4, <1>5 DEF CallInv

\* A step of one call that leaves cache and clock alone keeps the invariant if
\* the call itself ends up well and, if it was refused its chain, without one
\* that is cached.
LEMMA LocalStepKeepsInv ==
  ASSUME VerifierInv, NEW p \in Procs, NEW x \in Call,
         call' = [call EXCEPT ![p] = x],
         UNCHANGED <<entries, next, clock>>,
         call[p].pc # "done",
         call[p].pc = "signature" =>
           /\ x.pc \in {"signature", "done"}
           /\ x.req = call[p].req /\ x.now = call[p].now /\ x.chain = call[p].chain,
         x.pc = "done" /\ x.result \in {"ErrUntrustedChain", "ErrCertHostname"} =>
           \A u \in Cached : entries[u].chain # x.chain,
         CallInv(p)'
  PROVE  VerifierInv'
<1>1. call \in [Procs -> Call \cup {Idle}] /\ call'[p] = x
  BY DEF VerifierInv
<1>2. CacheInv' /\ Cached' = Cached /\ clock' \in Instants
  BY DEF VerifierInv, CacheInv, CacheTypeOK, OrdersDistinct, CacheBounded, Cached
<1>3. call' \in [Procs -> Call \cup {Idle}]
  BY <1>1
<1>4. \A q \in Procs : CallInv(q)'
  BY OthersKeepInv
<1>5. (\A u \in Cached : VettedFor(entries[u].chain, u))'
  <2>1. \A c, u : VettedFor(c, u) => VettedFor(c, u)'
    BY ChainsStayVetted
  <2>2. \A u \in Cached : VettedFor(entries[u].chain, u)
    BY DEF VerifierInv
  <2>3. QED
    BY <1>2, <2>1, <2>2
<1>6. RejectedStaysOut'
  <2>1. ASSUME NEW q \in Procs, Finished(q)',
               call'[q].result \in {"ErrUntrustedChain", "ErrCertHostname"},
               NEW u \in Cached
        PROVE  entries[u].chain # call'[q].chain
    <3>1. CASE q = p
      BY <1>1, <2>1, <3>1 DEF Finished
    <3>2. CASE q # p
      <4>1. call'[q] = call[q]
        BY <1>1, <3>2
      <4>2. QED
        BY <2>1, <4>1 DEF VerifierInv, RejectedStaysOut, Finished
    <3>3. QED
      BY <3>1, <3>2
  <2>2. QED
    BY <1>2, <2>1 DEF RejectedStaysOut
<1>7. QED
  BY <1>2, <1>3, <1>4, <1>5, <1>6 DEF VerifierInv, Call, Idle

-----------------------------------------------------------------------------
(* The steps, one lemma each                                               *)

LEMMA VerifyKeepsInv ==
  ASSUME VerifierInv, NEW p \in Procs, NEW r \in Requests, Verify(p, r)
  PROVE  VerifierInv'
<1> DEFINE verdict == LocalVerdict(r, clock)
           x == IF verdict = "nil" THEN Begun(r, "locate", clock)
                ELSE [Begun(r, "done", clock) EXCEPT !.result = verdict]
<1>1. /\ call[p].pc = "idle" /\ r.kind = "verify"
      /\ call' = [call EXCEPT ![p] = x]
      /\ UNCHANGED <<entries, next, clock>>
  BY DEF Verify
<1>2. verdict \in {"nil", "ErrMissingHeader", "ErrStaleTimestamp"}
  BY VerdictsAreResults
<1>3. clock \in Instants /\ call'[p] = x
  BY <1>1 DEF VerifierInv
<1>4. /\ x.pc = IF verdict = "nil" THEN "locate" ELSE "done"
      /\ x.req = r /\ x.checkedAt = clock /\ x.now = NoTime /\ x.attempts = 0
      /\ x.chain = NoChain
      /\ x.result = verdict
  BY DEF Begun
<1>5. x \in Call
  <2>1. CASE verdict = "nil"
    BY <1>3, <2>1 DEF Call, Begun, Results, Running, Attempts
  <2>2. CASE verdict # "nil"
    <3> HIDE DEF verdict
    <3>1. x = [pc |-> "done", req |-> r, checkedAt |-> clock, now |-> NoTime, attempts |-> 0,
               ctxDone |-> FALSE, chain |-> NoChain, result |-> verdict]
      BY <2>2 DEF Begun
    <3> HIDE DEF x
    <3>2. QED
      BY <1>2, <1>3, <3>1 DEF Call, Results, Attempts
  <2>3. QED
    BY <2>1, <2>2
<1>6. CallInv(p)'
  <2>1. Explained(p)' \/ ~Finished(p)'
    BY <1>1, <1>2, <1>3, <1>4 DEF Explained, Finished, UrlErrors
  <2>2. QED
    BY <1>1, <1>2, <1>3, <1>4, <2>1
       DEF CallInv, Finished, Running, Fetching, Attempts
<1> HIDE DEF x, verdict
<1>7. QED
  BY <1>1, <1>2, <1>4, <1>5, <1>6, LocalStepKeepsInv

LEMMA WarmKeepsInv ==
  ASSUME VerifierInv, NEW p \in Procs, NEW r \in Requests, Warm(p, r)
  PROVE  VerifierInv'
<1> DEFINE x == Begun(r, "locate", NoTime)
<1>1. /\ call[p].pc = "idle" /\ r.kind = "warm"
      /\ call' = [call EXCEPT ![p] = x]
      /\ UNCHANGED <<entries, next, clock>>
  BY DEF Warm
<1>2. call'[p] = x
  BY <1>1 DEF VerifierInv
<1>3. /\ x.pc = "locate" /\ x.req = r /\ x.attempts = 0 /\ x.chain = NoChain
  BY DEF Begun
<1>4. x \in Call
  BY DEF Call, Begun, Results, Running, Attempts
<1>5. CallInv(p)'
  BY <1>1, <1>2, <1>3 DEF CallInv, Finished, Running, Fetching, Attempts
<1> HIDE DEF x
<1>6. QED
  BY <1>1, <1>3, <1>4, <1>5, LocalStepKeepsInv

\* Moves within a fetch, and contexts that are done before or during one.
LEMMA FetchMoveKeepsInv ==
  ASSUME VerifierInv, NEW p \in Procs, NEW x \in Call,
         call' = [call EXCEPT ![p] = x],
         UNCHANGED <<entries, next, clock>>,
         call[p].pc \in Fetching \cup {"locate", "lookup"},
         \/ x.pc = call[p].pc
         \/ call[p].pc # "locate" /\ x.pc \in Fetching,
         x.pc \in {"locate", "lookup", "dial", "backoff"} => x.attempts < Attempts,
         /\ x.req = call[p].req /\ x.checkedAt = call[p].checkedAt
         /\ x.now = call[p].now /\ x.chain = call[p].chain
  PROVE  VerifierInv'
<1>1. call[p] \in Call /\ CallInv(p)
  BY BegunCall DEF Fetching
<1>2. call'[p] = x
  BY DEF VerifierInv
<1>3. x.pc \in Fetching \cup {"locate", "lookup"} /\ Key(p)' = Key(p)
  BY <1>2 DEF Key
<1>4. CallInv(p)'
  BY <1>1, <1>2, <1>3 DEF CallInv, Finished, Running, Fetching
<1>5. QED
  BY <1>3, <1>4, LocalStepKeepsInv DEF Fetching

\* A fetch that fails leaves no chain behind and says so.
LEMMA FetchFailureKeepsInv ==
  ASSUME VerifierInv, NEW p \in Procs,
         call[p].pc \in Fetching,
         Return(p, "ErrCertFetch"),
         UNCHANGED <<entries, next, clock>>
  PROVE  VerifierInv'
<1> DEFINE x == Returned(call[p], "ErrCertFetch")
<1>1. call[p] \in Call /\ CallInv(p)
  BY BegunCall DEF Fetching
<1>2. call' = [call EXCEPT ![p] = x] /\ call'[p] = x
  BY DEF Return, VerifierInv
<1>3. /\ x \in Call /\ x.pc = "done" /\ x.result = "ErrCertFetch"
      /\ x.req = call[p].req /\ x.checkedAt = call[p].checkedAt
      /\ x.now = call[p].now /\ x.chain = call[p].chain
  BY <1>1, ReturnedFields DEF Results
<1> HIDE DEF x
<1>4. x.chain = NoChain /\ (x.req.kind = "verify" => LocalVerdict(x.req, x.checkedAt) = "nil")
  BY <1>1, <1>3 DEF CallInv, Running
<1>5. CallInv(p)'
  <2>1. Explained(p)'
    BY <1>2, <1>3, <1>4 DEF Explained, UrlErrors
  <2>2. QED
    BY <1>2, <1>3, <2>1 DEF CallInv, Running, Fetching
<1>6. QED
  BY <1>2, <1>3, <1>5, LocalStepKeepsInv DEF Fetching

LEMMA DialKeepsInv ==
  ASSUME VerifierInv, NEW p \in Procs, Dial(p)
  PROVE  VerifierInv'
<1> DEFINE x == [call[p] EXCEPT !.pc = "waiting", !.attempts = call[p].attempts + 1]
<1>1. /\ call[p].pc = "dial" /\ call' = [call EXCEPT ![p] = x]
      /\ UNCHANGED <<entries, next, clock>>
  BY DEF Dial
<1>2. call[p] \in Call /\ CallInv(p)
  BY <1>1, BegunCall
<1>3. call[p].attempts \in Nat /\ call[p].attempts < Attempts
  BY <1>1, <1>2 DEF CallInv, Call, Attempts
<1> DEFINE y == [call[p] EXCEPT !.pc = "waiting"]
<1>4. x = [y EXCEPT !.attempts = call[p].attempts + 1]
  OBVIOUS
<1>5. /\ y \in Call /\ y.pc = "waiting"
      /\ y.req = call[p].req /\ y.checkedAt = call[p].checkedAt
      /\ y.now = call[p].now /\ y.chain = call[p].chain
  BY <1>2, MovedFields DEF Running, Fetching
<1> HIDE DEF x, y
<1>6. /\ x \in Call /\ x.pc = "waiting"
      /\ x.req = call[p].req /\ x.checkedAt = call[p].checkedAt
      /\ x.now = call[p].now /\ x.chain = call[p].chain
  BY <1>3, <1>4, <1>5 DEF Call, Attempts
<1>7. QED
  BY <1>1, <1>6, FetchMoveKeepsInv DEF Fetching

LEMMA AttemptFailsKeepsInv ==
  ASSUME VerifierInv, NEW p \in Procs, AttemptFails(p)
  PROVE  VerifierInv'
<1> DEFINE x == [call[p] EXCEPT !.pc = "backoff"]
<1>1. call[p].pc = "waiting" /\ UNCHANGED <<entries, next, clock>>
  BY DEF AttemptFails
<1>2. CASE call[p].attempts = Attempts
  BY <1>1, <1>2, FetchFailureKeepsInv DEF AttemptFails, Fetching
<1>3. CASE call[p].attempts # Attempts
  <2>1. call[p] \in Call
    BY <1>1, BegunCall
  <2>2. call' = [call EXCEPT ![p] = x]
    BY <1>3 DEF AttemptFails, Goto, VerifierInv
  <2>3. /\ x \in Call /\ x.pc = "backoff" /\ x.attempts = call[p].attempts
        /\ x.req = call[p].req /\ x.checkedAt = call[p].checkedAt
        /\ x.now = call[p].now /\ x.chain = call[p].chain
    BY <2>1, MovedFields DEF Running, Fetching
  <2> HIDE DEF x
  <2>4. x.attempts < Attempts
    BY <1>3, <2>1, <2>3 DEF Call, Attempts
  <2>5. QED
    BY <1>1, <2>2, <2>3, <2>4, FetchMoveKeepsInv DEF Fetching
<1>4. QED
  BY <1>2, <1>3

LEMMA RetryKeepsInv ==
  ASSUME VerifierInv, NEW p \in Procs, Retry(p)
  PROVE  VerifierInv'
<1> DEFINE x == [call[p] EXCEPT !.pc = "dial"]
<1>1. /\ call[p].pc = "backoff" /\ UNCHANGED <<entries, next, clock>>
      /\ call' = [call EXCEPT ![p] = x]
  BY DEF Retry, Goto, VerifierInv
<1>2. call[p] \in Call /\ CallInv(p)
  BY <1>1, BegunCall
<1>3. /\ x \in Call /\ x.pc = "dial" /\ x.attempts = call[p].attempts
      /\ x.req = call[p].req /\ x.checkedAt = call[p].checkedAt
      /\ x.now = call[p].now /\ x.chain = call[p].chain
  BY <1>2, MovedFields DEF Running, Fetching
<1> HIDE DEF x
<1>4. x.attempts < Attempts
  BY <1>1, <1>2, <1>3 DEF CallInv
<1>5. QED
  BY <1>1, <1>3, <1>4, FetchMoveKeepsInv DEF Fetching

LEMMA GiveUpKeepsInv ==
  ASSUME VerifierInv, NEW p \in Procs, GiveUp(p)
  PROVE  VerifierInv'
BY FetchFailureKeepsInv DEF GiveUp, Fetching

LEMMA ContextDoneKeepsInv ==
  ASSUME VerifierInv, NEW p \in Procs, Deadline(p) \/ Cancel(p)
  PROVE  VerifierInv'
<1> DEFINE x == [call[p] EXCEPT !.ctxDone = TRUE]
<1>1. /\ call[p].pc \in Fetching \cup {"locate", "lookup"}
      /\ UNCHANGED <<entries, next, clock>>
      /\ call' = [call EXCEPT ![p] = x]
  BY DEF Deadline, Cancel, VerifierInv
<1>2. call[p] \in Call /\ CallInv(p)
  BY <1>1, BegunCall DEF Fetching
<1>3. /\ x \in Call /\ x.pc = call[p].pc /\ x.attempts = call[p].attempts
      /\ x.req = call[p].req /\ x.checkedAt = call[p].checkedAt
      /\ x.now = call[p].now /\ x.chain = call[p].chain
  BY <1>2 DEF Call
<1> HIDE DEF x
<1>4. x.pc \in {"locate", "lookup", "dial", "backoff"} => x.attempts < Attempts
  BY <1>2, <1>3 DEF CallInv
<1>5. QED
  BY <1>1, <1>3, <1>4, FetchMoveKeepsInv

LEMMA LocateKeepsInv ==
  ASSUME VerifierInv, NEW p \in Procs, Locate(p)
  PROVE  VerifierInv'
<1>1. call[p].pc = "locate" /\ UNCHANGED <<entries, next, clock>>
  BY DEF Locate
<1>2. call[p] \in Call /\ CallInv(p) /\ clock \in Instants
  BY <1>1, BegunCall DEF VerifierInv
<1>3. call[p].req.kind = "verify" => LocalVerdict(call[p].req, call[p].checkedAt) = "nil"
  BY <1>1, <1>2 DEF CallInv, Running
<1>4. CASE Key(p) \in UrlErrors
  <2> DEFINE e == Key(p)
             x == Returned(call[p], e)
  <2>1. call' = [call EXCEPT ![p] = x] /\ call'[p] = x
    BY <1>1, <1>4 DEF Locate, Return, VerifierInv
  <2>2. /\ x \in Call /\ x.pc = "done" /\ x.result = e
        /\ x.req = call[p].req /\ x.checkedAt = call[p].checkedAt
        /\ x.now = call[p].now /\ x.chain = call[p].chain
    BY <1>2, <1>4, ReturnedFields DEF Results
  <2> HIDE DEF x
  <2>3. Explained(p)'
    BY <1>3, <1>4, <2>1, <2>2 DEF Explained, UrlErrors, Key
  <2>4. e \notin {"nil", "ErrUntrustedChain", "ErrCertHostname"}
    BY <1>4 DEF UrlErrors
  <2> HIDE DEF e
  <2>5. CallInv(p)'
    BY <2>1, <2>2, <2>3, <2>4 DEF CallInv, Running, Fetching
  <2>6. QED
    BY <1>1, <2>1, <2>2, <2>4, <2>5, LocalStepKeepsInv
<1>5. CASE Key(p) \notin UrlErrors
  <2> DEFINE y == [call[p] EXCEPT !.pc = "lookup"]
             x == [call[p] EXCEPT !.pc = "lookup", !.now = clock]
  <2>1. call' = [call EXCEPT ![p] = x] /\ call'[p] = x
    BY <1>1, <1>5 DEF Locate, VerifierInv
  <2>2. Key(p) \in Urls
    BY <1>2, <1>5, RequestAssumption, NamesAssumption DEF Key, Call
  <2>3. /\ y \in Call /\ y.pc = "lookup" /\ y.attempts = call[p].attempts
        /\ y.req = call[p].req /\ y.checkedAt = call[p].checkedAt /\ y.chain = call[p].chain
    BY <1>2, MovedFields DEF Running
  <2>4. x = [y EXCEPT !.now = clock]
    OBVIOUS
  <2> HIDE DEF x, y
  <2>5. /\ x \in Call /\ x.pc = "lookup" /\ x.attempts = call[p].attempts /\ x.now = clock
        /\ x.req = call[p].req /\ x.checkedAt = call[p].checkedAt /\ x.chain = call[p].chain
    BY <1>2, <2>3, <2>4 DEF Call
  <2>6. Key(p)' = Key(p)
    BY <2>1, <2>5 DEF Key
  <2>7. CallInv(p)'
    BY <1>1, <1>2, <1>3, <2>1, <2>2, <2>5, <2>6 DEF CallInv, Finished, Running, Fetching
  <2>8. QED
    BY <1>1, <2>1, <2>5, <2>7, LocalStepKeepsInv
<1>6. QED
  BY <1>4, <1>5

LEMMA LookupKeepsInv ==
  ASSUME VerifierInv, NEW p \in Procs, Lookup(p)
  PROVE  VerifierInv'
<1> DEFINE found == Get(Key(p))
           pc == CASE found = NoChain -> "dial"
                   [] found # NoChain /\ LeafValid(found.bundle, call[p].now) -> "signature"
                   [] OTHER -> "evict"
           y == [call[p] EXCEPT !.chain = found]
           x == [call[p] EXCEPT !.chain = found, !.pc = pc]
<1>1. /\ call[p].pc = "lookup" /\ UNCHANGED <<entries, next, clock>>
      /\ call' = [call EXCEPT ![p] = x] /\ call'[p] = x
  BY DEF Lookup, VerifierInv
<1>2. call[p] \in Call /\ CallInv(p)
  BY <1>1, BegunCall
<1>3. /\ call[p].req.kind = "verify" => LocalVerdict(call[p].req, call[p].checkedAt) = "nil"
      /\ Key(p) \in Urls /\ call[p].now \in Instants /\ call[p].attempts < Attempts
  BY <1>1, <1>2 DEF CallInv, Running
<1>4. found # NoChain => VettedFor(found, Key(p)) /\ found \in Chains
  BY DEF Get, VerifierInv, VettedFor, Spent
<1>5. x = [y EXCEPT !.pc = pc]
  OBVIOUS
<1>6. /\ pc = "dial" => found = NoChain
      /\ pc = "signature" => found # NoChain /\ LeafValid(found.bundle, call[p].now)
      /\ pc = "evict" => found # NoChain /\ ~LeafValid(found.bundle, call[p].now)
      /\ pc \in {"dial", "signature", "evict"}
  OBVIOUS
<1>7. /\ y \in Call /\ y.attempts = call[p].attempts /\ y.now = call[p].now
      /\ y.req = call[p].req /\ y.checkedAt = call[p].checkedAt /\ y.chain = found
  BY <1>2, <1>4 DEF Call
<1> HIDE DEF x, y, pc, found
<1>8. /\ x \in Call /\ x.pc = pc /\ x.attempts = call[p].attempts /\ x.now = call[p].now
      /\ x.req = call[p].req /\ x.checkedAt = call[p].checkedAt /\ x.chain = found
  BY <1>5, <1>6, <1>7, MovedFields DEF Running, Fetching
<1>9. Key(p)' = Key(p)
  BY <1>1, <1>8 DEF Key
<1>10. \A c, u : VettedFor(c, u) => VettedFor(c, u)'
  BY <1>1, ChainsStayVetted
<1>11. found # NoChain => VettedFor(call[p].chain, Key(p))'
  <2>1. PICK c, u : c = found /\ u = Key(p)
    OBVIOUS
  <2>2. found # NoChain => VettedFor(c, u)'
    BY <1>4, <1>10, <2>1
  <2>3. call'[p].chain = c /\ Key(p)' = u
    BY <1>1, <1>8, <1>9, <2>1
  <2>4. QED
    BY <2>2, <2>3 DEF VettedFor, Spent
<1>12. CallInv(p)'
  BY <1>1, <1>3, <1>6, <1>8, <1>9, <1>11 DEF CallInv, Finished, Running, Fetching
<1>13. QED
  BY <1>1, <1>6, <1>8, <1>12, LocalStepKeepsInv

LEMMA AnswerKeepsInv ==
  ASSUME VerifierInv, NEW p \in Procs, NEW b \in Bundles, Answer(p, b)
  PROVE  VerifierInv'
<1> DEFINE chain == [by |-> p, bundle |-> b]
           parsed == [call[p] EXCEPT !.chain = chain]
           verdict == Vet(b, call[p].now)
           x == IF verdict = "nil" THEN [parsed EXCEPT !.pc = "install"]
                ELSE Returned(parsed, verdict)
<1>1. /\ call[p].pc = "waiting" /\ UNCHANGED <<entries, next, clock>>
      /\ call' = [call EXCEPT ![p] = x] /\ call'[p] = x
  BY DEF Answer, VerifierInv
<1>2. call[p] \in Call /\ CallInv(p)
  BY <1>1, BegunCall
<1>3. /\ call[p].req.kind = "verify" => LocalVerdict(call[p].req, call[p].checkedAt) = "nil"
      /\ Key(p) \in Urls /\ call[p].now \in Instants
  BY <1>1, <1>2 DEF CallInv, Running, Fetching
<1>4. chain \in Chains /\ chain.by = p /\ chain.bundle = b
  BY ChainFields
<1> HIDE DEF chain
<1>5. /\ parsed \in Call /\ parsed.now = call[p].now /\ parsed.chain = chain
      /\ parsed.req = call[p].req /\ parsed.checkedAt = call[p].checkedAt
  BY <1>2, <1>4 DEF Call
<1>6. verdict \in {"nil", "ErrUntrustedChain", "ErrCertHostname"}
  BY VerdictsAreResults
<1> HIDE DEF parsed, verdict
<1>7. /\ x \in Call /\ x.pc = IF verdict = "nil" THEN "install" ELSE "done"
      /\ x.pc = "done" => x.result = verdict
      /\ x.req = call[p].req /\ x.checkedAt = call[p].checkedAt
      /\ x.now = call[p].now /\ x.chain = chain
  <2>1. CASE verdict = "nil"
    BY <1>5, <2>1, MovedFields DEF Running
  <2>2. CASE verdict # "nil"
    BY <1>5, <1>6, <2>2, ReturnedFields DEF Results
  <2>3. QED
    BY <2>1, <2>2
<1> HIDE DEF x
<1>8. \A u \in Cached : entries[u].chain # chain
  BY <1>1, <1>4 DEF VerifierInv, VettedFor, Spent
<1>9. Key(p)' = Key(p)
  BY <1>1, <1>7 DEF Key
<1>10. CASE verdict = "nil"
  <2>1. CallInv(p)'
    BY <1>1, <1>3, <1>4, <1>7, <1>9, <1>10 DEF CallInv, Finished, Running, Fetching, verdict
  <2>2. QED
    BY <1>1, <1>7, <1>10, <2>1, LocalStepKeepsInv
<1>11. CASE verdict # "nil"
  <2>1. Explained(p)'
    BY <1>1, <1>3, <1>4, <1>6, <1>7, <1>11 DEF Explained, UrlErrors, verdict
  <2>2. CallInv(p)'
    BY <1>1, <1>4, <1>6, <1>7, <1>11, <2>1 DEF CallInv, Running, Fetching, Spent
  <2>3. QED
    BY <1>1, <1>7, <1>8, <1>11, <2>2, LocalStepKeepsInv
<1>12. QED
  BY <1>10, <1>11

LEMMA CheckSignatureKeepsInv ==
  ASSUME VerifierInv, NEW p \in Procs, CheckSignature(p)
  PROVE  VerifierInv'
<1> DEFINE r == call[p].req
           c == call[p].chain
           e == IF r.kind = "warm" THEN "nil" ELSE SignatureVerdict(c.bundle, r.key)
           x == Returned(call[p], e)
<1>1. /\ call[p].pc = "signature" /\ UNCHANGED <<entries, next, clock>>
      /\ call' = [call EXCEPT ![p] = x] /\ call'[p] = x
  BY DEF CheckSignature, Return, VerifierInv
<1>2. call[p] \in Call /\ CallInv(p)
  BY <1>1, BegunCall
<1>3. /\ r.kind = "verify" => LocalVerdict(r, call[p].checkedAt) = "nil"
      /\ Key(p) \in Urls
      /\ VettedFor(c, Key(p)) /\ LeafValid(c.bundle, call[p].now)
  BY <1>1, <1>2 DEF CallInv, Running
<1>4. c \in Chains /\ c.bundle \in Bundles /\ r \in Requests /\ r.kind \in {"verify", "warm"}
  BY <1>2, <1>3, ChainFields, RequestAssumption DEF VettedFor, Spent, Call
<1>5. /\ e \in {"nil", "ErrUnsupportedKey", "ErrBadSignature"}
      /\ e # "nil" => r.kind = "verify" /\ SignatureVerdict(c.bundle, r.key) = e
      /\ r.kind = "verify" /\ e = "nil" => Cert[c.bundle].rsa /\ Cert[c.bundle].key = r.key
  BY <1>4, VerdictsAreResults, SignatureNeedsKey
<1> HIDE DEF e
<1>6. /\ x \in Call /\ x.pc = "done" /\ x.result = e
      /\ x.req = r /\ x.checkedAt = call[p].checkedAt
      /\ x.now = call[p].now /\ x.chain = c
  BY <1>2, <1>5, ReturnedFields DEF Results
<1> HIDE DEF x
<1>7. \A d, u : VettedFor(d, u) => VettedFor(d, u)'
  BY <1>1, <1>6, ChainsStayVetted
<1>8. Explained(p)'
  BY <1>1, <1>3, <1>5, <1>6 DEF Explained, UrlErrors
<1>9. VettedFor(call[p].chain, Key(p))'
  <2>1. PICK d, u : d = c /\ u = Key(p)
    OBVIOUS
  <2>2. VettedFor(d, u)'
    BY <1>3, <1>7, <2>1
  <2>3. call'[p].chain = d /\ Key(p)' = u
    BY <1>1, <1>6, <2>1 DEF Key
  <2>4. QED
    BY <2>2, <2>3 DEF VettedFor, Spent
<1>10. r.kind = "verify" /\ e = "nil" => Authentic(p)'
  <2>1. Key(p)' = Key(p)
    BY <1>1, <1>6 DEF Key
  <2>2. QED
    BY <1>1, <1>3, <1>5, <1>6, <1>9, <2>1 DEF Authentic, VettedFor
<1>11. CallInv(p)'
  BY <1>1, <1>5, <1>6, <1>8, <1>9, <1>10 DEF CallInv, Running, Fetching
<1>12. QED
  BY <1>1, <1>5, <1>6, <1>11, LocalStepKeepsInv

\* What a removal and a store do to the keys that stay.
LEMMA RemoveLeaves ==
  ASSUME NEW u, NEW c, Remove(u, c)
  PROVE  \A v \in Cached' : /\ v \in Cached /\ entries'[v] = entries[v]
                            /\ v = u => entries[v].chain # c
<1>1. CASE u \in Cached /\ entries[u].chain = c
  BY <1>1 DEF Remove, Cached
<1>2. CASE ~(u \in Cached /\ entries[u].chain = c)
  BY <1>2 DEF Remove, Cached
<1>3. QED
  BY <1>1, <1>2

LEMMA PutLeaves ==
  ASSUME CacheInv, NEW u, NEW c, Put(u, c)
  PROVE  \A v \in Cached' : \/ v = u /\ entries'[v].chain = c
                            \/ v \in Cached /\ entries'[v] = entries[v]
<1>1. entries \in [Cached -> Entry]
  BY DEF CacheInv, CacheTypeOK
<1>2. CASE Replace(u, c)
  BY <1>1, <1>2 DEF Replace, Cached, Entry
<1>3. CASE Insert(u, c)
  <2>1. PICK kept \in Survivors :
          entries' = [v \in kept \cup {u} |->
                        IF v = u THEN [chain |-> c, order |-> next] ELSE entries[v]]
    BY <1>3 DEF Insert
  <2>2. kept \subseteq Cached
    BY SurvivorsLeaveRoom
  <2>3. QED
    BY <2>1, <2>2 DEF Cached
<1>4. QED
  BY <1>2, <1>3 DEF Put

LEMMA EvictKeepsInv ==
  ASSUME VerifierInv, NEW p \in Procs, Evict(p)
  PROVE  VerifierInv'
<1> DEFINE c == call[p].chain
           e == "ErrUntrustedChain"
           x == Returned(call[p], e)
<1>1. /\ call[p].pc = "evict" /\ Remove(Key(p), c) /\ clock' = clock
      /\ call' = [call EXCEPT ![p] = x] /\ call'[p] = x
  BY DEF Evict, Return, VerifierInv
<1>2. call[p] \in Call /\ CallInv(p) /\ call \in [Procs -> Call \cup {Idle}]
  BY <1>1, BegunCall DEF VerifierInv
<1>3. /\ call[p].req.kind = "verify" => LocalVerdict(call[p].req, call[p].checkedAt) = "nil"
      /\ Key(p) \in Urls
      /\ VettedFor(c, Key(p)) /\ ~LeafValid(c.bundle, call[p].now)
  BY <1>1, <1>2 DEF CallInv, Running
<1>4. Spent(c) /\ c \in Chains /\ c.by # p /\ Key(c.by) = Key(p)
  BY <1>1, <1>3 DEF VettedFor, Spent
<1>5. /\ x \in Call /\ x.pc = "done" /\ x.result = e
      /\ x.req = call[p].req /\ x.checkedAt = call[p].checkedAt
      /\ x.now = call[p].now /\ x.chain = c
  BY <1>2, ReturnedFields DEF Results
<1> HIDE DEF x
<1>6. \A d : /\ Spent(d) => Spent(d)'
             /\ \A u : VettedFor(d, u) => VettedFor(d, u)'
  BY <1>1, ChainsStayVetted
<1>7. \A v \in Cached' : /\ v \in Cached /\ entries'[v] = entries[v]
                         /\ v = Key(p) => entries[v].chain # c
  BY <1>1, RemoveLeaves
<1>8. CacheInv'
  BY <1>1, <1>3, <1>4, RemoveKeepsInv DEF VerifierInv
<1>9. CallInv(p)'
  <2>1. Explained(p)'
    BY <1>1, <1>3, <1>4, <1>5 DEF Explained, UrlErrors
  <2>2. Spent(call[p].chain)'
    BY <1>1, <1>4, <1>5 DEF Spent
  <2>3. QED
    BY <1>1, <1>5, <2>1, <2>2 DEF CallInv, Running, Fetching
<1>10. \A q \in Procs : CallInv(q)'
  BY <1>1, <1>9, OthersKeepInv
<1>11. (\A u \in Cached : VettedFor(entries[u].chain, u))'
  <2>1. \A u \in Cached' : entries'[u] = entries[u] /\ VettedFor(entries[u].chain, u)
    BY <1>7 DEF VerifierInv
  <2>2. QED
    BY <1>6, <2>1 DEF VettedFor, Spent
<1>12. RejectedStaysOut'
  <2>1. ASSUME NEW q \in Procs, Finished(q)',
               call'[q].result \in {"ErrUntrustedChain", "ErrCertHostname"},
               NEW u \in Cached'
        PROVE  entries'[u].chain # call'[q].chain
    <3>1. u \in Cached /\ entries'[u] = entries[u] /\ VettedFor(entries[u].chain, u)
      BY <1>7 DEF VerifierInv
    <3>2. CASE q = p
      BY <1>1, <1>4, <1>5, <1>7, <3>1, <3>2 DEF VettedFor
    <3>3. CASE q # p
      <4>1. call'[q] = call[q]
        BY <1>1, <1>2, <3>3
      <4>2. QED
        BY <2>1, <3>1, <4>1 DEF VerifierInv, RejectedStaysOut, Finished
    <3>4. QED
      BY <3>2, <3>3
  <2>2. QED
    BY <2>1 DEF RejectedStaysOut
<1>13. call' \in [Procs -> Call \cup {Idle}] /\ clock' \in Instants
  BY <1>1, <1>2, <1>5 DEF VerifierInv
<1>14. QED
  BY <1>8, <1>10, <1>11, <1>12, <1>13 DEF VerifierInv, Call, Idle

LEMMA InstallKeepsInv ==
  ASSUME VerifierInv, NEW p \in Procs, Install(p)
  PROVE  VerifierInv'
<1> DEFINE c == call[p].chain
           x == [call[p] EXCEPT !.pc = "signature"]
<1>1. /\ call[p].pc = "install" /\ Put(Key(p), c) /\ clock' = clock
      /\ call' = [call EXCEPT ![p] = x] /\ call'[p] = x
  BY DEF Install, Goto, VerifierInv
<1>2. call[p] \in Call /\ CallInv(p) /\ call \in [Procs -> Call \cup {Idle}]
  BY <1>1, BegunCall DEF VerifierInv
<1>3. /\ call[p].req.kind = "verify" => LocalVerdict(call[p].req, call[p].checkedAt) = "nil"
      /\ Key(p) \in Urls /\ call[p].now \in Instants
      /\ c \in Chains /\ c.by = p /\ Vet(c.bundle, call[p].now) = "nil"
  BY <1>1, <1>2 DEF CallInv, Running
<1>4. LeafValid(c.bundle, call[p].now)
  BY <1>3, ChainFields, VettedLeafIsValid
<1>5. /\ x \in Call /\ x.pc = "signature"
      /\ x.req = call[p].req /\ x.checkedAt = call[p].checkedAt
      /\ x.now = call[p].now /\ x.chain = c
  BY <1>2, MovedFields DEF Running
<1> HIDE DEF x
<1>6. \A d : /\ Spent(d) => Spent(d)'
             /\ \A u : VettedFor(d, u) => VettedFor(d, u)'
  BY <1>1, ChainsStayVetted
<1>7. \A v \in Cached' : \/ v = Key(p) /\ entries'[v].chain = c
                         \/ v \in Cached /\ entries'[v] = entries[v]
  BY <1>1, PutLeaves DEF VerifierInv
<1>8. CacheInv'
  <2>1. CASE Replace(Key(p), c)
    BY <1>3, <2>1, ReplaceKeepsInv DEF VerifierInv
  <2>2. CASE Insert(Key(p), c)
    BY <1>3, <2>2, InsertKeepsInv DEF VerifierInv
  <2>3. QED
    BY <1>1, <2>1, <2>2 DEF Put
<1>9. Key(p)' = Key(p)
  BY <1>1, <1>5 DEF Key
<1>10. VettedFor(call[p].chain, Key(p))'
  BY <1>1, <1>3, <1>5, <1>9 DEF VettedFor, Spent, Key
<1>11. \A q \in Procs : CallInv(q)'
  <2>1. CallInv(p)'
    BY <1>1, <1>3, <1>4, <1>5, <1>9, <1>10 DEF CallInv, Finished, Running, Fetching
  <2>2. QED
    BY <1>1, <2>1, OthersKeepInv
<1>12. (\A u \in Cached : VettedFor(entries[u].chain, u))'
  <2>1. ASSUME NEW u \in Cached' PROVE (VettedFor(entries[u].chain, u))'
    <3>1. CASE u = Key(p) /\ entries'[u].chain = c
      BY <1>1, <1>5, <1>9, <1>10, <3>1 DEF VettedFor, Spent
    <3>2. CASE u \in Cached /\ entries'[u] = entries[u]
      <4>1. VettedFor(entries[u].chain, u)
        BY <3>2 DEF VerifierInv
      <4>2. QED
        BY <1>6, <3>2, <4>1 DEF VettedFor, Spent
    <3>3. QED
      BY <1>7, <3>1, <3>2
  <2>2. QED
    BY <2>1
<1>13. RejectedStaysOut'
  <2>1. ASSUME NEW q \in Procs, Finished(q)',
               call'[q].result \in {"ErrUntrustedChain", "ErrCertHostname"},
               NEW u \in Cached'
        PROVE  entries'[u].chain # call'[q].chain
    <3>1. q # p
      BY <1>1, <1>5, <2>1 DEF Finished
    <3>2. call'[q] = call[q]
      BY <1>1, <1>2, <3>1
    <3>3. Spent(call[q].chain)
      BY <2>1, <3>2 DEF VerifierInv, CallInv, Finished
    <3>4. c # call[q].chain
      BY <1>1, <1>3, <3>3 DEF Spent
    <3>5. QED
      BY <1>7, <2>1, <3>2, <3>4 DEF VerifierInv, RejectedStaysOut, Finished
  <2>2. QED
    BY <2>1 DEF RejectedStaysOut
<1>14. call' \in [Procs -> Call \cup {Idle}] /\ clock' \in Instants
  BY <1>1, <1>2, <1>5 DEF VerifierInv
<1>15. QED
  BY <1>8, <1>11, <1>12, <1>13, <1>14 DEF VerifierInv, Call, Idle

\* Nothing in the invariant depends on what the clock shows now.
LEMMA QuietStepKeepsInv ==
  ASSUME VerifierInv, UNCHANGED <<entries, next, call>>, clock' \in Instants
  PROVE  VerifierInv'
<1>1. CacheInv' /\ Cached' = Cached
  BY DEF VerifierInv, CacheInv, CacheTypeOK, OrdersDistinct, CacheBounded, Cached
<1>2. ASSUME NEW p \in Procs PROVE CallInv(p)'
  <2>1. \A c, u : VettedFor(c, u)' <=> VettedFor(c, u)
    BY DEF VettedFor, Spent, Key
  <2>2. CallInv(p) /\ Key(p)' = Key(p)
    BY DEF VerifierInv, Key
  <2>3. QED
    BY <2>1, <2>2 DEF CallInv, Finished, Explained, Authentic, VettedFor, Spent
<1>3. (\A u \in Cached : VettedFor(entries[u].chain, u))'
  BY <1>1 DEF VerifierInv, VettedFor, Spent, Key
<1>4. RejectedStaysOut'
  BY <1>1 DEF VerifierInv, RejectedStaysOut, Finished
<1>5. QED
  BY <1>1, <1>2, <1>3, <1>4 DEF VerifierInv, Call, Idle

-----------------------------------------------------------------------------
(* The invariant                                                           *)

LEMMA VerifierInvInit == VerifierInit => VerifierInv
<1> SUFFICES ASSUME VerifierInit PROVE VerifierInv
  OBVIOUS
<1>1. CacheInv /\ Cached = {}
  BY CacheInvInit DEF VerifierInit, CacheInit, Cached
<1>2. clock \in Instants /\ call = [p \in Procs |-> Idle]
  BY DEF VerifierInit
<1>3. \A p \in Procs : call[p].pc = "idle"
  BY <1>2 DEF Idle
<1>4. \A p \in Procs : CallInv(p)
  BY <1>3 DEF CallInv, Finished, Running, Fetching
<1>5. RejectedStaysOut
  BY <1>1 DEF RejectedStaysOut
<1>6. QED
  BY <1>1, <1>2, <1>4, <1>5 DEF VerifierInv

LEMMA VerifierInvStep == VerifierInv /\ [VerifierNext]_verifierVars => VerifierInv'
<1> SUFFICES ASSUME VerifierInv, [VerifierNext]_verifierVars PROVE VerifierInv'
  OBVIOUS
<1>1. ASSUME NEW p \in Procs, NEW r \in Requests, Verify(p, r) \/ Warm(p, r) PROVE VerifierInv'
  BY <1>1, VerifyKeepsInv, WarmKeepsInv
<1>2. ASSUME NEW p \in Procs, NEW b \in Bundles, Answer(p, b) PROVE VerifierInv'
  BY <1>2, AnswerKeepsInv
<1>3. ASSUME NEW p \in Procs, Step(p) PROVE VerifierInv'
  BY <1>3, LocateKeepsInv, LookupKeepsInv, EvictKeepsInv, DialKeepsInv, RetryKeepsInv,
     GiveUpKeepsInv, InstallKeepsInv, CheckSignatureKeepsInv, AttemptFailsKeepsInv DEF Step
<1>4. ASSUME NEW p \in Procs, AttemptFails(p) PROVE VerifierInv'
  BY <1>4, AttemptFailsKeepsInv
<1>5. ASSUME NEW p \in Procs, Deadline(p) \/ Cancel(p) PROVE VerifierInv'
  BY <1>5, ContextDoneKeepsInv
<1>6. ASSUME NEW t \in Instants, SetClock(t) PROVE VerifierInv'
  BY <1>6, QuietStepKeepsInv DEF SetClock
<1>7. CASE UNCHANGED verifierVars
  BY <1>7, QuietStepKeepsInv DEF verifierVars, VerifierInv
<1>8. QED
  BY <1>1, <1>2, <1>3, <1>4, <1>5, <1>6, <1>7 DEF VerifierNext

\* The inductive invariant of the verifier: the cache's own, and for every call
\* what its step tells about its request, its chain and the cache.
THEOREM VerifierInvariant == VerifierSpec => []VerifierInv
BY VerifierInvInit, VerifierInvStep, PTL DEF VerifierSpec

\* Attempts stay within certificateFetchAttempts, and no call carries a value
\* out of its type, whatever the interleaving.
THEOREM VerifierTypesHold == VerifierSpec => []VerifierTypeOK
<1>1. VerifierInv => VerifierTypeOK
  BY DEF VerifierInv, VerifierTypeOK, CacheInv, CallInv, Call
<1>2. QED
  BY VerifierInvariant, <1>1, PTL

\* Every chain that Verify can meet in the cache was vetted, for the URL it is
\* filed under, by the call that fetched it.
THEOREM CacheStaysVetted == VerifierSpec => []CacheHoldsVetted
<1>1. VerifierInv => CacheHoldsVetted
  BY DEF VerifierInv, CacheHoldsVetted, VettedFor
<1>2. QED
  BY VerifierInvariant, <1>1, PTL

\* Verify returns nil only for authentic requests.
THEOREM AcceptedStaysAuthentic == VerifierSpec => []AcceptedIsAuthentic
<1>1. VerifierInv => AcceptedIsAuthentic
  BY DEF VerifierInv, AcceptedIsAuthentic, CallInv
<1>2. QED
  BY VerifierInvariant, <1>1, PTL

\* A request refused for its headers, timestamp or URL never got as far as the
\* cache or the network.
THEOREM RejectsReachNothing == VerifierSpec => []NoEgressForRejects
<1>1. VerifierInv => NoEgressForRejects
  BY DEF VerifierInv, NoEgressForRejects, CallInv
<1>2. QED
  BY VerifierInvariant, <1>1, PTL

\* A chain that a call was refused for is not cached, then or later.
THEOREM RejectedNeverCached == VerifierSpec => []RejectedStaysOut
<1>1. VerifierInv => RejectedStaysOut
  BY DEF VerifierInv
<1>2. QED
  BY VerifierInvariant, <1>1, PTL

\* The sentinel a call returns is the case.
THEOREM RejectionsExplained == VerifierSpec => []RejectionIsExplained
<1>1. VerifierInv => RejectionIsExplained
  BY DEF VerifierInv, RejectionIsExplained, CallInv
<1>2. QED
  BY VerifierInvariant, <1>1, PTL

-----------------------------------------------------------------------------
(* What the verifier does to the cache                                     *)

\* Only two steps of a call reach the cache's state.
LEMMA CacheMovers ==
  ASSUME [VerifierNext]_verifierVars
  PROVE  UNCHANGED cacheVars \/ \E p \in Procs : Install(p) \/ Evict(p)
BY DEF VerifierNext, verifierVars, cacheVars, Step, Verify, Warm, Answer, Locate, Lookup, Dial,
       Retry, GiveUp, CheckSignature, AttemptFails, Deadline, Cancel, SetClock

\* A slow reader takes out what it read and nothing else; all other chains go
\* only when a vetted one comes.
THEOREM RemovalsAreJustified == VerifierSpec => RemovalIsJustified
<1> DEFINE Justified(u) ==
             \/ u \in Cached' /\ entries'[u].chain = entries[u].chain
             \/ \E p \in Procs : call[p].pc = "install" /\ call'[p].pc = "signature"
             \/ \E p \in Procs : /\ call[p].pc = "evict" /\ call'[p].pc = "done"
                                 /\ call[p].chain = entries[u].chain
                                 /\ ~LeafValid(call[p].chain.bundle, call[p].now)
<1>1. ASSUME VerifierInv, [VerifierNext]_verifierVars, NEW u \in Cached
      PROVE  Justified(u)
  <2>1. CASE UNCHANGED cacheVars
    BY <2>1 DEF cacheVars, Cached
  <2>2. ASSUME NEW p \in Procs, Install(p) PROVE Justified(u)
    <3>1. call[p] \in Call /\ call \in [Procs -> Call \cup {Idle}]
      BY <1>1, <2>2, BegunCall DEF Install, VerifierInv
    <3>2. call[p].pc = "install" /\ call'[p].pc = "signature"
      BY <2>2, <3>1, MovedFields DEF Install, Goto, Running
    <3>3. QED
      BY <3>2
  <2>3. ASSUME NEW p \in Procs, Evict(p) PROVE Justified(u)
    <3>1. call[p].pc = "evict" /\ Remove(Key(p), call[p].chain)
      BY <2>3 DEF Evict
    <3>2. call[p] \in Call /\ CallInv(p) /\ call \in [Procs -> Call \cup {Idle}]
      BY <1>1, <3>1, BegunCall DEF VerifierInv
    <3>3. call'[p].pc = "done" /\ ~LeafValid(call[p].chain.bundle, call[p].now)
      BY <2>3, <3>1, <3>2, ReturnedFields DEF Evict, Return, CallInv, Results
    <3>4. CASE Key(p) = u /\ entries[u].chain = call[p].chain
      BY <3>1, <3>3, <3>4
    <3>5. CASE ~(Key(p) = u /\ entries[u].chain = call[p].chain)
      <4>1. u \in Cached' /\ entries'[u] = entries[u]
        BY <3>1, <3>5 DEF Remove, Cached
      <4>2. QED
        BY <4>1
    <3>6. QED
      BY <3>4, <3>5
  <2>4. QED
    BY <1>1, <2>1, <2>2, <2>3, CacheMovers
<1>2. VerifierInv /\ [VerifierNext]_verifierVars => [\A u \in Cached : Justified(u)]_verifierVars
  BY <1>1
<1>3. QED
  BY VerifierInvariant, <1>2, PTL DEF VerifierSpec, RemovalIsJustified

\* However calls interleave, the cache goes through behaviours of CertCache, and
\* so of the bounded FIFO.
THEOREM VerifierImplementsFifo == VerifierSpec => ImplementsFifo
<1>1. VerifierInit => CacheInit
  BY DEF VerifierInit
<1>2. VerifierInv /\ [VerifierNext]_verifierVars => [CacheNext]_cacheVars
  <2> SUFFICES ASSUME VerifierInv, [VerifierNext]_verifierVars PROVE [CacheNext]_cacheVars
    OBVIOUS
  <2>1. ASSUME NEW p \in Procs, Install(p) PROVE CacheNext
    <3>1. Key(p) \in Urls /\ call[p].chain \in Chains
      BY <2>1 DEF Install, VerifierInv, CallInv, Running
    <3>2. QED
      BY <2>1, <3>1 DEF Install, CacheNext
  <2>2. ASSUME NEW p \in Procs, Evict(p) PROVE CacheNext
    <3>1. Key(p) \in Urls /\ call[p].chain \in Chains
      BY <2>2 DEF Evict, VerifierInv, CallInv, Running, VettedFor, Spent
    <3>2. QED
      BY <2>2, <3>1 DEF Evict, CacheNext
  <2>3. QED
    BY <2>1, <2>2, CacheMovers
<1>3. VerifierSpec => CacheSpec
  BY VerifierInvariant, <1>1, <1>2, PTL DEF VerifierSpec, CacheSpec
<1>4. QED
  BY <1>3, CacheImplementsFifo

=============================================================================
