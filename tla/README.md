# Verification of billy

TLA+ models of billy, the self-hosted Alexa endpoint for Audiobookshelf, with
the TLC runs that check them and TLAPS proofs of what matters most. Paths below
are relative to `src/`.

## The system

One process, started by `main.go`, listens on a public Tailscale Funnel URL and
serves three routes. Everything that needs care happens on `POST /alexa`: the
request must be shown to come from Alexa, is kept in a corpus, and is answered
with what the device should do next.

| Part | Code | State | Operations | Interacts with | What is hard | What makes it correct |
|---|---|---|---|---|---|---|
| Certificate cache | `pkg/alexaverify/cache.go` | map URL -> (chain, order), counter, one mutex | get, put, remove | every Verify and Warm | operations of concurrent calls interleave between a call's own; eviction; replacement | bounded; first in, first out; holds only vetted chains under the URL they came from; nothing leaves without a reason |
| Verifier calls | `verify.go`, `cache.go`, `fetch.go`, `chain.go`, `signature.go` | per call: two clock readings, attempt count, context, chain | Verify, Warm | cache, clock, origin server, caller's context | late, failing or silent origin, retry, deadline, cancellation, a clock read before the network and used after it, certificates that expire | accepts only what is authentic; refused requests cause no egress; reasons are true; always returns |
| Freshness | `timestamp.go`, `verify.go` | the configured tolerance | New, literal construction, verifyTimestamp | clock | ends of the duration range, boundary, misconfiguration | exact window in both directions |
| Certificate URL | `url.go` | none | normalizeCertChainURL | Verify, Warm | dot segments, encodings, parts that vary without meaning | confined to the prefix; one key per object |
| Capture store | `capture.go` | a directory of file pairs | Save, removeCaptureFiles | endpoint | failure or crash between and inside the two writes; equal times of receipt | pairs complete or absent; saved files never change |
| Endpoint | `alexa.go` (handleAlexa, captureAndRespond) | per request: body and verdict; count of rejections | read, verify, capture, answer | verifier, capture store, skill | capture failing under a verified request; restarts | only verified requests captured; the answer depends on the verdict alone; every request answered |
| Skill | `alexa.go` (dispatch*) | none; the device holds session attributes and player state | launch, select, play, pause, resume, playback events | device, book | the device's state travels with requests and may be old; answers come late or not at all; the service restarts under a paused stream | plays only the configured title, when named, on a device that can; touches only its own stream and keeps its place |
| Process lifecycle | `server.go`, `main.go`, `warm.go` | listener, `http.Server`, warming goroutine, deferred releases, process context | command line, startup, serve, drain, forced close, release, exit status | everything | signal against listener failure, signal before Serve was called, grace period against handlers, channel between goroutines | nothing leaks; a listening service ends when told to; the status tells why |
| Book and media route | `book.go`, `handlers.go` (handleMedia), `server.go` (timeouts) | descriptor, directory root; per request: an open file | loadBook, openMedia, ServeContent, Close | operator's files, players | media and directory changed between any two system calls; a write timeout shorter than the book; ranges | what is sent is a regular file of the directory opened at startup; files are closed; downloads can be completed |
| Configuration, version, health probe | `config.go`, `version.go`, `handlers.go` | none after startup | | | | |

## Modules

Component modules hold state, actions and properties; `MC*` modules give the
constants values; `*Proofs` modules hold theorems. A definition introduced by
"Deliberate mistake" is not part of any specification: it is a plausible bug,
with the parameters of the definition it stands in for, kept beside it to show
that the properties would notice.

* **`CertCache`** - the cache. `entries` is the Go map as a function whose
  domain is the set of cached URLs, `next` the counter. Get, Put (Replace or
  Insert, with eviction inside Insert) and Remove hold the mutex throughout, so
  each is one action. Chains are pointers: Remove compares identity.
* **`FifoCache`** - what the cache promises, with no counter: an order of
  arrival that only Enter and Leave change. `CertCache!ImplementsFifo` is the
  refinement, reading the order of arrival off the stamps.
* **`Freshness`** - durations as signed words of any width with the arithmetic
  of package `time` (saturating `Sub`, negation that fixes the least value),
  `Verifier.tolerance` and the comparison of `verifyTimestamp`.
* **`FreshnessWindow`** - a Verifier from construction (`New` with options in
  order, or a literal) to verdicts under a clock that may be set back.
* **`CertUrl`** - `normalizeCertChainURL`: the checks in the code's order,
  `path.Clean` after decoding, and the encoding `String()` applies to what is
  left. Percent-coding is a pair of constants, `Decoded` from tokens to segments and
  `Encoded` back, of which only that decoding undoes encoding is assumed.
  **`CertUrlSpelling`** spells URLs segment by segment and states what
  normalisation owes each, against a reading of paths that keeps no stack.
* **`Verifier`** - extends `CertCache` and `Freshness`: calls of Verify and Warm
  as processes. A step ends wherever another call can be noticed:

  | Action | Code |
  |---|---|
  | `Verify`, `Warm` | headers and timestamp at the first reading of the clock; Warm has neither |
  | `Locate` | URL normalised, clock read again (`verify.go:163-168`) |
  | `Lookup` | `cache.get`, leaf's period (`cache.go:43-48`) |
  | `Evict` | `cache.remove`, ErrUntrustedChain (`cache.go:45`) |
  | `Dial`, `Answer`, `AttemptFails`, `Retry`, `GiveUp` | the attempts and the select of `fetch.go`; `Answer` also parses and vets, at the reading of `Locate` |
  | `Install` | `cache.put` |
  | `CheckSignature` | `verifyBodySignature`, or the end of Warm |
  | `Deadline`, `Cancel` | the two-second deadline; the caller's context |

  A certificate bundle is its attributes: parses, trusted root, host name, RSA,
  key, and two periods - the leaf's and that of the rest of its path. The origin
  may serve any bundle at any time, for any URL. A parsed chain is known by the
  call that parsed it, which is also how properties refer to the checks it
  passed.
* **`Capture`** - `Save` by system call: open (which truncates), write, close,
  remove; each may fail, a write part way. **`AlexaEndpoint`** extends it with
  the handler around it, and with the process dying and starting again.
* **`Server`** - `run`, `serveFunnel`, `serve` and the goroutine of `warm.go`. `main`
  is where the main goroutine is, `deferred` its stack of releases, `errs` the
  buffered channel of `serve`. Five kinds of actor interleave:

  | Actor | Actions | Code |
  |---|---|---|
  | main goroutine | `Command`, `Acquire`, `FailToStart`, `StartWarm`, `BeginServe`, `Select`, `BeginShutdown`, `CloseIdle`, `Drained`, `GiveUp`, `Await`, `Release`, `Exit` | `main.go:43-179`, `server.go:38-69` |
  | goroutine of `srv.Serve` | `StartAccepting`, `AcceptFails`, `Report` | `server.go:42-48` |
  | clients and handlers | `Accept`, `Request`, `Finish`, `Drop` | `net/http`, by its documented contract |
  | signals and timers | `Signal`, `GraceExpires` | `main.go:80`, `server.go:60` |
  | warming | `WarmEnds` | `warm.go:20-30` |

* **`Titles`** - what titles are compared by, shared by `Skill` and `Book`. A
  character is its identity and its class; digits and marks, which have no case
  here, count as lower-case letters. `Said` is what a title says without the loop
  that normalises it: its letters by their place among the letters.
* **`Skill`** - the dispatch functions as operators from a request to an answer,
  and the device as the state machine that calls them. The skill keeps nothing,
  so everything that could go wrong is between a snapshot and the answer to it:
  the device sends (`Ask`), the skill answers (`Answer`), the device carries the
  answer out (`CarryOut`) or it is lost (`Lose`), while playback moves on and
  reports (`Play`), another skill takes the player (`Interlude`), and the service
  is restarted with another book (`Restart`).
* **`Book`** - `loadBook` and the opening of the media by system call (open, Stat,
  the second Stat of the handler), each of which may fail, and the operator who
  renames files and redirects the path of the directory in between.
  **`MediaRoute`** extends it with what is sent from an open file: `http.Server`
  writes chunks into a connection that holds a few, until its write deadline; the
  player takes them at its own pace and asks for the rest as a byte range. A
  chunk carries the file it was read from and its position, so that properties
  speak of the bytes a player put together.

`MCVerifier` takes its canonical URLs from `CertUrl` (an assumption TLC checks).
The theorems are in `CertCacheProofs`, `FreshnessProofs`, `CertUrlProofs`,
`VerifierProofs`, `EndpointProofs`, `ServerProofs`, `MediaProofs` and `SkillProofs`, each
beside the modules it extends. No module of the project declares a RECURSIVE
operator: loops are recursive functions, so that proofs may speak of them.

## Runs

| Run | Instance | Shows |
|---|---|---|
| `parts` | cache: 3 URLs, 2 chains, capacity 2, at most 5 insertions; freshness: 4-bit durations, instants 0..10, tolerances below, at and above the limits; URLs: 8 tokens, paths to 4 segments, every combination of other parts | `ImplementsFifo`, `CacheInv`; `VerdictExact`, `PastStaysStale`; `CanonicalIsConfined`, `TraversalIsNamed`, `KeyIgnoresSpelling`; `WindowTypeOK` |
| `freshness_future` | freshness as above | counterexample to `AcceptedOnlyInWindow` |
| `verifier_races` | 3 calls, 2 URLs, capacity 1, an expiring bundle and its renewal, 2 instants | `CacheHoldsVetted`, `RejectedStaysOut`, `RemovalIsJustified` |
| `verifier_verdicts` | 2 calls, 12 kinds of request, 6 of bundle, 3 instants | `AcceptedIsAuthentic`, `NoEgressForRejects`, `RejectionIsExplained`, `VerifierTypeOK` |
| `verifier_returns` | 2 calls, 2 URLs, capacity 1 | `CallsReturn` |
| `verifier_trust` | 2 calls, a bundle under an expiring intermediate | counterexample to `TrustOutlivesFetch` |
| `endpoint` | 2 requests received in one nanosecond, 2 suffixes | `SavedStaysWhole`, `FailedLeavesNothing`, `SidecarHasBody`, `CapturedOnlyVerified`, `StatusTellsVerdictOnly`, `RequestsAnswered` |
| `server` | 4 kinds of invocation, 3 connections | `NothingLeaks`, `ExitTellsWhy`, `CleanExitDrains`, `ServerTypeOK`; `StopsWhenAsked`, `ServesWithoutWarm`, `GoroutinesEnd` |
| `media` | 13 descriptors, 2 directories with 5 entries each, 4 chunks, a timeout of 2 ticks, a buffer of 1 | `ServedIsConfined`, `HandlesClosed`, `ValidatedIsServed`, `RouteTypeOK`; `HeldForBoundedTime`, `RangesFinish` |
| `media_validated` | as above | counterexample to `OnlyValidatedServed` |
| `media_legitimate` | as above | counterexample to `LegitimateFits` |
| `skill` | titles to 2 characters of 5, 7 spoken ones, audio of 2 chunks | `StartsExactlyWhenNamed`, `TransportKeepsPlace`, `NeverStartsUnasked`, `SkillTypeOK` |

The three parts in `parts` share no state: a behaviour of `MCParts` exercises one
of them and leaves the others where they start. That the cache is also driven
only as `FifoCache` allows by concurrent calls is a theorem (below).

**Bounds.** `MaxInsertions` in `MCParts` lets five URLs enter a cache of two:
every entry can be evicted, removed and inserted again. Races on one key
need three calls - one to install, one to read, one to replace between the
reader's two steps - and eviction needs one URL more than the capacity, so
`verifier_races` has three calls on two URLs with capacity one. Calls are
one-shot: a call that has returned stays, which is what lets properties speak of
who fetched a chain. Two instants suffice for a certificate to be valid at one
and not at the other, in either direction of the clock. Durations of four bits
put the ends of the range a few instants away from the tolerances. Three
connections can be idle, running and orphaned at once. Media requests share
nothing but the file system and the book, so `media` has one, which is reused for
every range; two versions of a file and two directories let each be replaced by a
look-alike; a book twice as long as the timeout takes at least two ranges.
Calls are interchangeable, so the safety runs of the verifier use symmetry; runs
with liveness properties do not.

**Fairness.** `FairVerifierSpec` is weakly fair to the steps a goroutine takes
of itself (it is scheduled, the retry timer fires, `net/http` abandons an attempt
whose context is done) and to the deadline timer. Nothing is assumed of the
origin, the caller or the clock. `FairEndpointSpec` is weakly fair to a
handler's steps: Verify returns, which is `CallsReturn`, and file operations
return, if only with errors. Nothing obliges a write to succeed.

`FairSpec` of `Server`: goroutines are scheduled, the grace timer fires, `Accept`
returns once its listener is closed, releases return, and a cancelled warming
ends, which is `CallsReturn` again. Nothing is assumed of `ListenFunnel`, which
takes no context - so `StopsWhenAsked` begins when it has returned -, of handlers,
clients and signals, or of how long an uncancelled warming takes.

`FairRouteSpec`: handlers are scheduled, their system calls return, and the
clock moves towards the write deadline. Nothing is assumed of players:
`HeldForBoundedTime` holds for one that takes nothing. That a player goes on
playing and asks again is a premise of `RangesFinish`, beside an operator who
leaves the media alone and system calls that work.

## Findings

* `freshness_future`: a timestamp more than 2^63 ns (about 292 years) ahead of
  the clock is taken as fresh. `now.Sub(ts)` saturates at the least duration,
  whose negation is itself, and the comparison sees a negative number
  (`timestamp.go:50-54`). `errors.go:57-60` says a timestamp that differs by more
  than the tolerance in either direction fails. The proved theorem
  `VerdictsExact` is the exact extent of what does hold.
* `verifier_trust`: `cache.go:122-124` says trust is immutable for a parsed
  chain, so that a hit need check only the leaf. Path validation depends on the
  clock through the other certificates as well: a hit is accepted after an
  intermediate expired where a miss would be refused. `AcceptedIsAuthentic`
  states what a hit does guarantee.
* `media_legitimate`: `server.go:13-14` says of the timeouts that "nothing
  legitimate needs longer than these". The write timeout of 30 s also covers
  `GET /media/book.mp3`: a player that takes a long MP3 as it plays it is cut off
  in mid-response. `RangesFinish` states what saves it: ranges are served, and a
  player that asks for the rest gets all of it.
* `media_validated`: `README.md:54-55` says the route serves "only the validated
  MP3". The media is found by its name on every request and only has to be a
  regular file below the root: a file that replaced the validated one is served,
  and a download in ranges may be put together from both. `ServedIsConfined` and
  `ValidatedIsServed` state what does hold.

## Proofs

`CertCacheProofs`, for all URLs, chains and capacities (`MaxEntries` positive, nil
not a chain). The invariant `CacheInv` joins the types, `OrdersDistinct` and
`CacheBounded`. The bound alone is not inductive: an insertion into a full map
stays within the bound only because eviction finds an entry to take, and the
orders stay distinct only because all of them lie below the counter. One lemma
per operation, then `CacheInvariant`, and its parts `CacheTyped`, `CacheStaysBounded`
and `OrdersStayDistinct`. `CacheImplementsFifo` shows under the same invariant that a replacement is
Refresh, an insertion Enter, a removal Leave or a stutter: distinct orders make
the entry of least order the one that arrived before all others.

`FreshnessProofs`, for durations of any width, any tolerances and any history of
the clock. `WindowTyped`: what `New` returns has a tolerance in range, whatever the
options. `VerdictsExact`: verdicts are exact while the distance fits a
duration. The invariant needs the fact that a verdict is only given by a built
Verifier, whose configuration no longer changes. `StaleForGood`: saturation can
only shorten a distance that was too long already, so a past timestamp that is
stale stays so.

`VerifierProofs`, for any number of calls, any requests, URLs and bundles, any
capacity and any movement of the clock; it assumes of the constants their shape
only (`RequestAssumption`, `CertAssumption`, `NamesAssumption`, which also says that
a parsed chain is known by the call that parsed it). None of the safety
properties is inductive: each speaks of the end of a call, or of the cache, and
rests on what was true some steps earlier, in another call. `VerifierInv` says
what each step knows. Its heart is `VettedFor(c, u)`: the call that parsed `c` was
for `u`, vetted it, and is past its installation, so that it will neither change
its mind nor install it again. This is what a reader takes from the cache at
`Lookup`, carries through any interleaving to `Evict` or `CheckSignature`, and what
makes an evicted chain stay out. `ChainsStayVetted` proves it stable under a step
of any call, `LocalStepKeepsInv` reduces the steps that leave the cache alone to
the call that moves, and one lemma per action follows. From the invariant:
`VerifierTypesHold`, `CacheStaysVetted`, `AcceptedStaysAuthentic`,
`RejectsReachNothing`, `RejectedNeverCached`, `RejectionsExplained`, the action
property `RemovalsAreJustified`, and `VerifierImplementsFifo`, which goes through
`CacheSpec` and `CacheImplementsFifo`. `VerifierInv` was itself checked by TLC on the
instances of `verifier_races` and `verifier_verdicts`.

`EndpointProofs`, for any number of requests, times of receipt, suffixes and
verdicts, any failures and any crashes; it assumes that "no file" is not a file
and that nil is a verdict. That a save left its files as it says is not
inductive: another save could write or remove them. `StoreInv` says why none does
- no two saves share a stem, and every file was written by the save whose stem it
bears - and what each stage of a save may rely on (`Staged`: after the body is
complete, nothing but this save's own removal touches it). `OneSaveMoves` reduces
every system call to its own save, `SaveStepInv` goes through the calls, `BeginInv`
shows a new stem empty on disk and `CrashKeepsStore` that every stage survives
being cut short. `HandlerInv` adds that only a request that verified has a save,
`CountInv` that the refused are finitely many and counted. From these:
`EndpointTyped`, `SavedCapturesKept`, `FailedCapturesGone`, `SidecarsHaveBodies`,
`CapturesAreVerified` and `StatusesTellLittle`. `EndpointInv` was first checked by
TLC on the instance of `endpoint`.

`ServerProofs`, for any number of connections and any of the ways to call the
program. What is open, what is deferred and where `run` is are three pieces of
state; that nothing leaks needs them tied together: `StackInv` gives the stack of
releases at each point of startup (`StackAt`), and says that what is open is what
the stack lists, while it is unwound too. `AcceptorInv` ties the goroutine of
`Serve` to the listener and to the one message `errs` may hold, `ResultInv` what went
wrong to where it is on its way to the exit status - in the acceptor, in the
channel, in `result` - and `ConnInv` the connections to the drain. Together they are
`ServerInv`, from which `ServerTyped`, `NothingEverLeaks`, `StatusTellsWhy` and
`SuccessHasDrained`.

`MediaProofs`, for any directories, files, players, chunk windows and timeouts
(`BookAssumption`: the loader is not a request, no file is not a directory;
`RouteAssumption`: lengths are positive). `BookInv` says what each way of holding a file
open has seen of it: below the root when opened, a regular file once inspected,
and the validated one if nothing has changed since the root was opened. `DownloadInv`
makes the chunks taken and the chunks in flight one beginning of one medium, which
the handler continues; that is what survives a cut, a range and the replacement
of the file between them. From `RouteInv`, their conjunction: `RouteTyped`,
`OnlyConfinedServed`, `DownloadsAreValidated` and `EveryHandleCloses`.

`SkillProofs`, for titles of any length. `EqualWhenSaidTheSame` is about the loop of
`normalizeTitle` alone: two titles are equal to the skill exactly when they say the
same letters in the same order. `SkillInv` says of an answer on its way that it is
what the present book makes of the device as it was when it asked (`VoiceInv`), and
of the device what its reports may be (`DeviceInv`); the properties speak of the
step that carries an answer out, when the device may be elsewhere already, so they
rest on what the request remembers.
From it `SkillTyped` and `StartsWhenNamed`, and the action properties `PlaceIsKept`
and `NothingStartsUnasked`. `SkillAssumption` only types the constants.

`CertUrlProofs`, for paths of any length in any encoding (`UrlAssumption`: decoding
undoes encoding, what is folded stays so; `SpellingAssumption`: plain tokens stand for
themselves, `%2e%2e` for `..`). `CleanIsRemaining` is the heart: the stack of `path.Clean` ends with
exactly the segments that the reference without a stack lets survive. The
invariant of its loop (`Trace`) is that after `k` segments the stack lists the
positions that stand so far in increasing order, and that after the `m`-th of them
there are as many more names than parents as there are entries above it; a `..`
therefore takes away the last that stands and no other. With `DecodedOfEncoded`
(a server reads the canonical path as what was cleaned) and `CleanOfNames` (cleaning
twice changes nothing) follow `AcceptedAreConfined`, `TraversalsAreNamed` and
`KeysIgnoreSpelling`; what a header may hold, `SpellingInv`, is all the state there is.

`ServerInv`, `RouteInv` and `SkillInv` were checked by TLC on the instances of `server`,
`media` and `skill` before they were proved.

The loops over titles and paths need induction over data. The library's
induction theorems take an operator as a parameter, which the provers cannot
instantiate; `NumberInduction` states induction about sets of numbers instead, from
the well-foundedness of `<` on them, and `SkillProofs` and `CertUrlProofs` use it to show that
the recursive functions exist and what they compute.

Every invariant and every action property that a passing run checks is thereby
the statement of a theorem. Left to TLC is liveness, which the prover does not
treat: `CallsReturn`, `RequestsAnswered`, `StopsWhenAsked`, `ServesWithoutWarm`,
`GoroutinesEnd`, `HeldForBoundedTime` and `RangesFinish`; and the counterexamples, which
need no proof.

## What is left out

Cryptography, PEM and X.509 parsing (outcomes only), wording, logging, HTTP
details other than their outcomes, file modes, JSON layout. The cache's counter
is a natural number: it does not reach 2^64. Random capture suffixes drawn in one
nanosecond are assumed to differ (32 random bits), which the action `Begin` names.
The creation of the cache under `sync.Once` is part of the initial state.

Of `net/http` its documented contract is modelled: `Serve` returns
ErrServerClosed once Shutdown began, Shutdown waits for connections to be idle,
Close waits for no handler. A request that was read makes its connection active
at once. `ListenFunnel` succeeds, fails or never returns. While it does not
return, SIGINT and SIGTERM have no effect, since `NotifyContext` has taken them
over; that is a listed hazard without a property.

The operator replaces files; one that is rewritten in place is not modelled,
readers see it as it goes. System calls take no time against a timeout in
seconds. All media files have the same length.

The device is external and modelled from the fields the code uses: a stop leads
to PAUSED or STOPPED, resuming rests on PAUSED being reported, playback events
come one at a time. Which book a stream paused before a restart belongs to is
not tracked, by the code or by the model: the token is the same for all.

Partly modelled: configuration, as the first step of `Server`, which may fail
(a sequential read of the environment, without state afterwards); routing and
the health probe, which answer constants. Not modelled: the build version, and
`corpusgen`, which generates test fixtures.

## Plan

The state-changing parts of the program are modelled, and their safety is proved.
What remains:

1. Lemmas behind the liveness properties that are themselves safety and only
   stated in prose here: that a step the fairness assumes is possible wherever a
   call, a handler or a goroutine waits for it.
2. An abstract specification of the capture store - a set of complete pairs that
   only grows - which `Capture` implements for as long as the process lives.
3. The hazard without a property: what a signal during `ListenFunnel` can do.
