---------------------------- MODULE ServerProofs ----------------------------
(***************************************************************************)
(* Proofs about Server, for any number of connections and any of the ways  *)
(* to call the program: whatever fails, whenever the signal comes, however *)
(* the goroutines interleave and whichever handlers never finish.          *)
(***************************************************************************)
EXTENDS Server, SequenceTheorems, TLAPS

Ending == {"release", "returned"}
Serving == {"serve", "select", "shutdown", "drain", "await"}
Before == {"command", "config", "book", "stateDir", "node", "capture", "verifier", "listener", "warm", "serve"}

Points == Before \cup Serving \cup Ending

\* The deferred releases at each point of run, while it has not begun to end.
StackAt(point) ==
  CASE point \in {"command", "config", "book"} -> <<"signals">>
    [] point \in {"stateDir", "node"} -> <<"signals", "book">>
    [] point \in {"capture", "verifier", "listener"} -> <<"signals", "book", "node">>
    [] point = "warm" -> <<"signals", "book", "node", "listener">>
    [] OTHER -> <<"signals", "book", "node", "listener", "warmCtx">>

Stacks == {<<>>, <<"signals">>, <<"signals", "book">>, <<"signals", "book", "node">>,
           <<"signals", "book", "node", "listener">>,
           <<"signals", "book", "node", "listener", "warmCtx">>}

Listed(stack) == {stack[i] : i \in DOMAIN stack}

\* What is open is what a release is deferred for, in the order of acquisition.
StackInv ==
  /\ main \in Points
  /\ deferred \in Stacks
  /\ main \notin Ending => deferred = StackAt(main)
  /\ main = "returned" => deferred = <<>>
  /\ open = Listed(deferred)
  /\ listener = "open" => "listener" \in open

\* Serve's goroutine, its channel and the context: Shutdown begins only once the
\* signal has come, and what Serve returns is nil only after that.
AcceptorInv ==
  /\ ctx \in {"live", "signalled", "stopped"}
  /\ ctx = "stopped" => main \in Ending
  /\ acceptor \in {"none", "starting", "accepting", "nil", "failure", "ended"}
  /\ errs \in {<<>>, <<"nil">>, <<"failure">>}
  /\ errs # <<>> => acceptor = "ended"
  /\ main \in Before => acceptor = "none"
  /\ shutting \in BOOLEAN
  /\ main \in {"drain", "await"} => shutting
  /\ shutting => main \in {"drain", "await"} \cup Ending /\ ctx = "signalled"
  /\ main = "shutdown" => ctx = "signalled"
  /\ acceptor = "nil" \/ errs = <<"nil">> => shutting

\* The error that run will return, and what has gone wrong: everything that did
\* is already the result, or is on its way to be.
ResultInv ==
  /\ invocation \in Invocations
  /\ result \in {"none", "nil", "failure", "usage"}
  /\ result = "none" <=> main \notin Ending
  /\ invocation # "serve" => main \in {"command"} \cup Ending /\ faults = {} /\ acceptor = "none"
  /\ main \in Ending => (result = "usage" <=> invocation \in {"badFlag", "positional"})
  /\ result = "failure" => faults # {}
  /\ \A f \in faults : \/ result = "failure"
                       \/ f = "close" /\ main = "drain"
                       \/ f = "accept" /\ (acceptor = "failure" \/ errs = <<"failure">>)
  /\ acceptor = "failure" \/ errs = <<"failure">> => "accept" \in faults
  /\ result = "nil" /\ invocation = "serve" => shutting /\ acceptor = "ended" /\ errs = <<>>

Quiet == \A c \in Conns : conn[c] \in {"none", "closed"}

\* Connections: there is none before Serve accepts, and none is left or can come
\* once a drain has ended well.
ConnInv ==
  /\ conn \in [Conns -> {"none", "new", "active", "idle", "orphan", "closed"}]
  /\ acceptor \in {"none", "starting"} => \A c \in Conns : conn[c] = "none"
  /\ main = "await" \/ result = "nil" => Quiet /\ acceptor # "accepting"

ServerInv == StackInv /\ AcceptorInv /\ ResultInv /\ ConnInv

-----------------------------------------------------------------------------
(* Lemmas                                                                  *)

\* The stacks, by length: what each lists, what releasing the last leaves.
LEMMA StackFacts ==
  /\ Listed(<<>>) = {}
  /\ Listed(<<"signals">>) = {"signals"}
  /\ Listed(<<"signals", "book">>) = {"signals", "book"}
  /\ Listed(<<"signals", "book", "node">>) = {"signals", "book", "node"}
  /\ Listed(<<"signals", "book", "node", "listener">>) = {"signals", "book", "node", "listener"}
  /\ Listed(<<"signals", "book", "node", "listener", "warmCtx">>) = Resources
BY DEF Listed, Resources

\* A sequence without its last element.
LEMMA WithoutLast ==
  ASSUME NEW S, NEW s \in Seq(S), NEW t \in Seq(S), Len(s) = Len(t) + 1,
         \A i \in 1..Len(t) : t[i] = s[i]
  PROVE  SubSeq(s, 1, Len(s) - 1) = t
<1> DEFINE n == Len(s) - 1
           u == SubSeq(s, 1, n)
<1>1. n \in Nat /\ Len(t) = n
  OBVIOUS
<1>2. \A i \in 1..n : s[i] \in S
  BY <1>1, ElementOfSeq
<1>3. u \in Seq(S) /\ Len(u) = n /\ \A i \in 1..n : u[i] = s[i]
  <2>1. /\ u \in Seq(S) /\ Len(u) = IF 1 <= n THEN n - 1 + 1 ELSE 0
        /\ \A i \in 1..(n - 1 + 1) : u[i] = s[1 + i - 1]
    BY <1>1, <1>2, SubSeqProperties
  <2> HIDE DEF u
  <2>2. QED
    BY <1>1, <2>1
<1> HIDE DEF u, n
<1>4. QED
  BY <1>1, <1>3, SeqEqual DEF u, n

\* A sequence with one more element.
LEMMA WithOneMore ==
  ASSUME NEW S, NEW s \in Seq(S), NEW e \in S, NEW t \in Seq(S), Len(t) = Len(s) + 1,
         \A i \in 1..Len(s) : t[i] = s[i], t[Len(t)] = e
  PROVE  Append(s, e) = t /\ s \o <<e>> = t
<1> DEFINE u == Append(s, e)
<1>1. /\ u \in Seq(S) /\ Len(u) = Len(s) + 1 /\ u = s \o <<e>>
      /\ \A i \in 1..Len(s) : u[i] = s[i]
      /\ u[Len(s) + 1] = e
  BY AppendProperties, AppendIsConcat
<1> HIDE DEF u
<1>2. \A i \in 1..Len(u) : u[i] = t[i]
  BY <1>1
<1>3. u = t
  BY <1>1, <1>2, SeqEqual
<1>4. QED
  BY <1>1, <1>3 DEF u

\* A release takes the last of a stack, and leaves a stack.
LEMMA ReleaseFacts ==
  ASSUME NEW stack \in Stacks, stack # <<>>
  PROVE  LET last == stack[Len(stack)]
             rest == SubSeq(stack, 1, Len(stack) - 1)
         IN  /\ rest \in Stacks
             /\ Listed(rest) = Listed(stack) \ {last}
             /\ last = "signals" <=> rest = <<>>
             /\ last = "listener" => "listener" \notin Listed(rest)
             /\ "listener" \in Listed(stack) /\ last # "listener" => "listener" \in Listed(rest)
<1> DEFINE last == stack[Len(stack)]
           rest == SubSeq(stack, 1, Len(stack) - 1)
<1>1. CASE stack = <<"signals">>
  <2>1. last = "signals" /\ rest = <<>>
    BY <1>1
  <2>2. QED
    BY <1>1, <2>1, StackFacts DEF Stacks
<1>2. CASE stack = <<"signals", "book">>
  <2>1. last = "book" /\ rest = <<"signals">>
    <3> DEFINE shorter == <<"signals">>
    <3>1. shorter \in Seq(Resources) /\ stack \in Seq(Resources)
      BY <1>2 DEF Resources
    <3>2. Len(stack) = Len(shorter) + 1 /\ \A i \in 1..Len(shorter) : shorter[i] = stack[i]
      BY <1>2
    <3>3. rest = shorter
      BY <3>1, <3>2, WithoutLast
    <3>4. QED
      BY <1>2, <3>3
  <2>2. QED
    BY <1>2, <2>1, StackFacts DEF Stacks
<1>3. CASE stack = <<"signals", "book", "node">>
  <2>1. last = "node" /\ rest = <<"signals", "book">>
    <3> DEFINE shorter == <<"signals", "book">>
    <3>1. shorter \in Seq(Resources) /\ stack \in Seq(Resources)
      BY <1>3 DEF Resources
    <3>2. Len(stack) = Len(shorter) + 1 /\ \A i \in 1..Len(shorter) : shorter[i] = stack[i]
      BY <1>3
    <3>3. rest = shorter
      BY <3>1, <3>2, WithoutLast
    <3>4. QED
      BY <1>3, <3>3
  <2>2. QED
    BY <1>3, <2>1, StackFacts DEF Stacks
<1>4. CASE stack = <<"signals", "book", "node", "listener">>
  <2>1. last = "listener" /\ rest = <<"signals", "book", "node">>
    <3> DEFINE shorter == <<"signals", "book", "node">>
    <3>1. shorter \in Seq(Resources) /\ stack \in Seq(Resources)
      BY <1>4 DEF Resources
    <3>2. Len(stack) = Len(shorter) + 1 /\ \A i \in 1..Len(shorter) : shorter[i] = stack[i]
      BY <1>4
    <3>3. rest = shorter
      BY <3>1, <3>2, WithoutLast
    <3>4. QED
      BY <1>4, <3>3
  <2>2. QED
    BY <1>4, <2>1, StackFacts DEF Stacks
<1>5. CASE stack = <<"signals", "book", "node", "listener", "warmCtx">>
  <2>1. last = "warmCtx" /\ rest = <<"signals", "book", "node", "listener">>
    <3> DEFINE shorter == <<"signals", "book", "node", "listener">>
    <3>1. shorter \in Seq(Resources) /\ stack \in Seq(Resources)
      BY <1>5 DEF Resources
    <3>2. Len(stack) = Len(shorter) + 1 /\ \A i \in 1..Len(shorter) : shorter[i] = stack[i]
      BY <1>5
    <3>3. rest = shorter
      BY <3>1, <3>2, WithoutLast
    <3>4. QED
      BY <1>5, <3>3
  <2>2. QED
    BY <1>5, <2>1, StackFacts DEF Stacks, Resources
<1>6. QED
  BY <1>1, <1>2, <1>3, <1>4, <1>5 DEF Stacks

\* The order of the startup steps.
LEMMA AfterFacts ==
  /\ After("config") = "book" /\ After("book") = "stateDir" /\ After("stateDir") = "node"
  /\ After("node") = "capture" /\ After("capture") = "verifier"
  /\ After("verifier") = "listener" /\ After("listener") = "warm"
<1>1. /\ DOMAIN Startup = 1..7
      /\ Startup[1] = "config" /\ Startup[2] = "book" /\ Startup[3] = "stateDir" /\ Startup[4] = "node"
      /\ Startup[5] = "capture" /\ Startup[6] = "verifier" /\ Startup[7] = "listener"
  BY DEF Startup
<1>2. ASSUME NEW i \in 1..7
      PROVE  (CHOOSE j \in DOMAIN Startup : Startup[j] = Startup[i]) = i
  <2>1. \A j \in 1..7 : Startup[j] = Startup[i] => j = i
    BY <1>1
  <2> HIDE DEF Startup
  <2>2. QED
    BY <1>1, <2>1
<1>3. ASSUME NEW i \in 1..6 PROVE After(Startup[i]) = Startup[i + 1]
  BY <1>1, <1>2 DEF After
<1>4. QED
  BY <1>1, <1>3 DEF After

\* Each stack is the one before it with one more release.
LEMMA StackGrows ==
  /\ <<"signals">> \o <<"book">> = <<"signals", "book">>
  /\ <<"signals", "book">> \o <<"node">> = <<"signals", "book", "node">>
  /\ <<"signals", "book", "node">> \o <<"listener">> = <<"signals", "book", "node", "listener">>
  /\ Append(<<"signals", "book", "node", "listener">>, "warmCtx") = <<"signals", "book", "node", "listener", "warmCtx">>
<1>1. Append(<<"signals">>, "book") = <<"signals", "book">> /\ <<"signals">> \o <<"book">> = <<"signals", "book">>
  <2> DEFINE s == <<"signals">>
             t == <<"signals", "book">>
  <2>1. s \in Seq(Resources) /\ t \in Seq(Resources) /\ "book" \in Resources
    BY DEF Resources
  <2>2. Len(t) = Len(s) + 1 /\ (\A i \in 1..Len(s) : t[i] = s[i]) /\ t[Len(t)] = "book"
    OBVIOUS
  <2>3. QED
    BY <2>1, <2>2, WithOneMore
<1>2. Append(<<"signals", "book">>, "node") = <<"signals", "book", "node">> /\ <<"signals", "book">> \o <<"node">> = <<"signals", "book", "node">>
  <2> DEFINE s == <<"signals", "book">>
             t == <<"signals", "book", "node">>
  <2>1. s \in Seq(Resources) /\ t \in Seq(Resources) /\ "node" \in Resources
    BY DEF Resources
  <2>2. Len(t) = Len(s) + 1 /\ (\A i \in 1..Len(s) : t[i] = s[i]) /\ t[Len(t)] = "node"
    OBVIOUS
  <2>3. QED
    BY <2>1, <2>2, WithOneMore
<1>3. Append(<<"signals", "book", "node">>, "listener") = <<"signals", "book", "node", "listener">> /\ <<"signals", "book", "node">> \o <<"listener">> = <<"signals", "book", "node", "listener">>
  <2> DEFINE s == <<"signals", "book", "node">>
             t == <<"signals", "book", "node", "listener">>
  <2>1. s \in Seq(Resources) /\ t \in Seq(Resources) /\ "listener" \in Resources
    BY DEF Resources
  <2>2. Len(t) = Len(s) + 1 /\ (\A i \in 1..Len(s) : t[i] = s[i]) /\ t[Len(t)] = "listener"
    OBVIOUS
  <2>3. QED
    BY <2>1, <2>2, WithOneMore
<1>4. Append(<<"signals", "book", "node", "listener">>, "warmCtx") = <<"signals", "book", "node", "listener", "warmCtx">> /\ <<"signals", "book", "node", "listener">> \o <<"warmCtx">> = <<"signals", "book", "node", "listener", "warmCtx">>
  <2> DEFINE s == <<"signals", "book", "node", "listener">>
             t == <<"signals", "book", "node", "listener", "warmCtx">>
  <2>1. s \in Seq(Resources) /\ t \in Seq(Resources) /\ "warmCtx" \in Resources
    BY DEF Resources
  <2>2. Len(t) = Len(s) + 1 /\ (\A i \in 1..Len(s) : t[i] = s[i]) /\ t[Len(t)] = "warmCtx"
    OBVIOUS
  <2>3. QED
    BY <2>1, <2>2, WithOneMore
<1>5. QED
  BY <1>1, <1>2, <1>3, <1>4

\* A step acquires what it defers the release of, on top of what was acquired
\* before it.
LEMMA AcquireFacts ==
  ASSUME NEW i \in DOMAIN Startup
  PROVE  LET step == Startup[i] IN
         /\ step \in {"config", "book", "stateDir", "node", "capture", "verifier", "listener"}
         /\ After(step) \in Before \ {"command", "serve"}
         /\ StackAt(step) \o Defers(step) = StackAt(After(step))
         /\ Listed(StackAt(After(step))) = Listed(StackAt(step)) \cup Acquires(step)
<1> DEFINE step == Startup[i]
<1>1. step \in {"config", "book", "stateDir", "node", "capture", "verifier", "listener"}
  BY DEF Startup
<1>2. CASE step \in {"config", "stateDir", "capture", "verifier"}
  <2>1. Defers(step) = <<>> /\ Acquires(step) = {}
    BY <1>2 DEF Defers, Acquires, Resources
  <2>2. StackAt(After(step)) = StackAt(step) /\ After(step) \in Before \ {"command", "serve"}
    BY <1>2, AfterFacts DEF StackAt, Before
  <2>3. StackAt(step) \o <<>> = StackAt(step)
    BY <1>2 DEF StackAt
  <2>4. QED
    BY <1>1, <2>1, <2>2, <2>3
<1>3. CASE step = "book"
  <2>1. Defers(step) = <<"book">> /\ Acquires(step) = {"book"}
    BY <1>3 DEF Defers, Acquires, Resources
  <2>2. StackAt(step) = <<"signals">> /\ StackAt(After(step)) = <<"signals", "book">>
    BY <1>3, AfterFacts DEF StackAt
  <2>3. <<"signals">> \o <<"book">> = <<"signals", "book">>
    BY StackGrows
  <2>4. QED
    BY <1>1, <1>3, <2>1, <2>2, <2>3, AfterFacts, StackFacts DEF Before
<1>4. CASE step = "node"
  <2>1. Defers(step) = <<"node">> /\ Acquires(step) = {"node"}
    BY <1>4 DEF Defers, Acquires, Resources
  <2>2. StackAt(step) = <<"signals", "book">> /\ StackAt(After(step)) = <<"signals", "book", "node">>
    BY <1>4, AfterFacts DEF StackAt
  <2>3. <<"signals", "book">> \o <<"node">> = <<"signals", "book", "node">>
    BY StackGrows
  <2>4. QED
    BY <1>1, <1>4, <2>1, <2>2, <2>3, AfterFacts, StackFacts DEF Before
<1>5. CASE step = "listener"
  <2>1. Defers(step) = <<"listener">> /\ Acquires(step) = {"listener"}
    BY <1>5 DEF Defers, Acquires, Resources
  <2>2. /\ StackAt(step) = <<"signals", "book", "node">>
        /\ StackAt(After(step)) = <<"signals", "book", "node", "listener">>
    BY <1>5, AfterFacts DEF StackAt
  <2>3. <<"signals", "book", "node">> \o <<"listener">> = <<"signals", "book", "node", "listener">>
    BY StackGrows
  <2>4. QED
    BY <1>1, <1>5, <2>1, <2>2, <2>3, AfterFacts, StackFacts DEF Before
<1>6. QED
  BY <1>1, <1>2, <1>3, <1>4, <1>5

\* The initial states satisfy the invariant.
LEMMA InitInv == Init => ServerInv
<1> SUFFICES ASSUME Init PROVE ServerInv
  OBVIOUS
<1>1. StackInv
  BY StackFacts DEF Init, StackInv, Points, Before, Ending, Stacks, StackAt
<1>2. AcceptorInv /\ ResultInv /\ ConnInv
  BY DEF Init, AcceptorInv, ResultInv, ConnInv, Before, Ending, Quiet
<1>3. QED
  BY <1>1, <1>2 DEF ServerInv

-----------------------------------------------------------------------------
(* Steps                                                                   *)

\* Run begins to return: nothing is released yet.
LEMMA ReturnKeepsStack ==
  ASSUME StackInv, main \notin Ending, main' = "release", UNCHANGED <<deferred, open, listener>>
  PROVE  StackInv'
BY DEF StackInv, Ending, Points

\* The main goroutine goes on to a point where the same releases are deferred.
LEMMA GoOnKeepsStack ==
  ASSUME StackInv, main \notin Ending, main' \in Points \ Ending, StackAt(main') = StackAt(main),
         UNCHANGED <<deferred, open>>, listener' = "open" => listener = "open"
  PROVE  StackInv'
BY DEF StackInv, Ending

\* A step that leaves the main goroutine where it is.
LEMMA OthersKeepStack ==
  ASSUME StackInv, UNCHANGED <<main, deferred, open>>, listener' = "open" => listener = "open"
  PROVE  StackInv'
BY DEF StackInv

\* The command line: a usage error or information ends run before anything starts.
LEMMA CommandInv == ASSUME ServerInv, Command PROVE ServerInv'
<1> USE DEF ServerInv, Command, Return, httpVars
<1>1. StackInv'
  <2>1. CASE main' = "config"
    BY <2>1, GoOnKeepsStack DEF Points, Before, Ending, StackAt
  <2>2. CASE main' = "release"
    BY <2>2, ReturnKeepsStack DEF Ending
  <2>3. QED
    BY <2>1, <2>2
<1>2. AcceptorInv'
  BY DEF AcceptorInv, Before, Ending
<1>3. ResultInv'
  BY InvocationsAssumption DEF ResultInv, Ending, AcceptorInv, Before
<1>4. ConnInv'
  BY DEF ConnInv, AcceptorInv, Before, Quiet
<1>5. QED
  BY <1>1, <1>2, <1>3, <1>4

\* A startup step that succeeds defers the release of what it acquired.
LEMMA AcquireInv == ASSUME ServerInv, NEW i \in DOMAIN Startup, Acquire(Startup[i]) PROVE ServerInv'
<1> DEFINE step == Startup[i]
<1>1. /\ main = step /\ main' = After(step)
      /\ step \in {"config", "book", "stateDir", "node", "capture", "verifier", "listener"}
      /\ After(step) \in Before \ {"command", "serve"}
      /\ StackAt(step) \o Defers(step) = StackAt(After(step))
      /\ Listed(StackAt(After(step))) = Listed(StackAt(step)) \cup Acquires(step)
  BY AcquireFacts DEF Acquire
<1>2. /\ deferred' = deferred \o Defers(step) /\ open' = open \cup Acquires(step)
      /\ listener' = IF step = "listener" THEN "open" ELSE listener
      /\ UNCHANGED <<invocation, result, ctx, faults, acceptor, errs, shutting, grace, conn, warm>>
  BY DEF Acquire
<1> HIDE DEF step
<1>3. StackInv'
  <2>1. deferred = StackAt(step) /\ open = Listed(deferred)
    BY <1>1 DEF ServerInv, StackInv, Ending
  <2>2. deferred' = StackAt(main') /\ open' = Listed(deferred')
    BY <1>1, <1>2, <2>1
  <2>3. main' \in Points \ Ending /\ deferred' \in Stacks
    BY <1>1, <2>2 DEF Points, Before, Ending, Stacks, StackAt
  <2>4. step = "listener" => "listener" \in open'
    BY <1>2 DEF Acquires, Resources
  <2>5. listener' = "open" => "listener" \in open'
    BY <1>2, <2>4 DEF ServerInv, StackInv
  <2>6. QED
    BY <2>2, <2>3, <2>5 DEF StackInv, Ending
<1>4. AcceptorInv'
  BY <1>1, <1>2 DEF ServerInv, AcceptorInv, Before, Ending
<1>5. ResultInv'
  BY <1>1, <1>2 DEF ServerInv, ResultInv, Before, Ending
<1>6. ConnInv'
  BY <1>1, <1>2 DEF ServerInv, ConnInv, Before, Ending, Quiet
<1>7. QED
  BY <1>3, <1>4, <1>5, <1>6 DEF ServerInv

\* A startup step that fails is what run will report.
LEMMA FailToStartInv == ASSUME ServerInv, NEW i \in DOMAIN Startup, FailToStart(Startup[i]) PROVE ServerInv'
<1> DEFINE step == Startup[i]
<1>1. /\ main = step /\ main' = "release" /\ result' = "failure" /\ faults' = faults \cup {step}
      /\ step \in Before \ {"command", "serve"}
      /\ UNCHANGED <<invocation, deferred, httpVars, ctx, open, warm>>
  BY AcquireFacts DEF FailToStart, Return, Before
<1> HIDE DEF step
<1>2. StackInv'
  BY <1>1, ReturnKeepsStack DEF ServerInv, Before, Ending, httpVars
<1>3. AcceptorInv'
  BY <1>1 DEF ServerInv, AcceptorInv, Before, Ending, httpVars
<1>4. ResultInv'
  BY <1>1 DEF ServerInv, ResultInv, AcceptorInv, Before, Ending, httpVars
<1>5. ConnInv'
  BY <1>1 DEF ServerInv, ConnInv, AcceptorInv, Before, Ending, Quiet, httpVars
<1>6. QED
  BY <1>2, <1>3, <1>4, <1>5 DEF ServerInv

\* The warming is started under a context of its own.
LEMMA StartWarmInv == ASSUME ServerInv, StartWarm PROVE ServerInv'
<1>1. /\ main = "warm" /\ main' = "serve" /\ open' = open \cup {"warmCtx"}
      /\ deferred' = Append(deferred, "warmCtx")
      /\ UNCHANGED <<invocation, result, httpVars, ctx, faults>>
  BY DEF StartWarm
<1>2. StackInv'
  <2>1. deferred = <<"signals", "book", "node", "listener">> /\ open = Listed(deferred)
    BY <1>1 DEF ServerInv, StackInv, StackAt, Ending
  <2>2. deferred' = <<"signals", "book", "node", "listener", "warmCtx">> /\ open' = Listed(deferred')
    BY <1>1, <2>1, StackGrows, StackFacts DEF Resources
  <2>3. QED
    BY <1>1, <2>2 DEF ServerInv, StackInv, Stacks, StackAt, Points, Before, Ending, httpVars
<1>3. AcceptorInv'
  BY <1>1 DEF ServerInv, AcceptorInv, Before, Ending, httpVars
<1>4. ResultInv'
  BY <1>1 DEF ServerInv, ResultInv, Ending, httpVars
<1>5. ConnInv'
  BY <1>1 DEF ServerInv, ConnInv, Quiet, httpVars
<1>6. QED
  BY <1>2, <1>3, <1>4, <1>5 DEF ServerInv

\* Serve's goroutine is started.
LEMMA BeginServeInv == ASSUME ServerInv, BeginServe PROVE ServerInv'
<1> USE DEF ServerInv, BeginServe
<1>1. StackInv'
  BY GoOnKeepsStack DEF Points, Before, Serving, Ending, StackAt
<1>2. AcceptorInv'
  BY DEF AcceptorInv, Before, Ending
<1>3. ResultInv'
  BY DEF ResultInv, AcceptorInv, Before, Ending
<1>4. ConnInv'
  BY DEF ConnInv, AcceptorInv, ResultInv, Quiet, Before, Ending
<1>5. QED
  BY <1>1, <1>2, <1>3, <1>4

\* What Serve's goroutine reported becomes the result: a failure is on record,
\* and nil can only come after Shutdown began.
LEMMA ReceiveErrInv == ASSUME ServerInv, main \in {"select", "await"}, ReceiveErr PROVE ServerInv'
<1> USE DEF ServerInv, ReceiveErr, Return
<1>1. StackInv'
  BY ReturnKeepsStack DEF Ending
<1>2. AcceptorInv'
  BY DEF AcceptorInv, Before, Ending
<1>3. ResultInv'
  BY DEF ResultInv, AcceptorInv, Before, Ending
<1>4. ConnInv'
  BY DEF ConnInv, AcceptorInv, ResultInv, Quiet, Before, Ending
<1>5. QED
  BY <1>1, <1>2, <1>3, <1>4

\* The other arm of the select: the process context is done.
LEMMA StopSelectInv == ASSUME ServerInv, main = "select", ctx # "live", main' = "shutdown",
         UNCHANGED <<invocation, deferred, result, httpVars, ctx, open, faults, warm>> PROVE ServerInv'
<1> USE DEF ServerInv, httpVars
<1>1. StackInv'
  BY GoOnKeepsStack DEF Points, Before, Serving, Ending, StackAt
<1>2. AcceptorInv'
  BY DEF AcceptorInv, Before, Ending
<1>3. ResultInv'
  BY DEF ResultInv, AcceptorInv, Before, Ending
<1>4. ConnInv'
  BY DEF ConnInv, AcceptorInv, ResultInv, Quiet, Before, Ending
<1>5. QED
  BY <1>1, <1>2, <1>3, <1>4

\* Shutdown begins, and may record an error of closing the listener.
LEMMA BeginShutdownInv == ASSUME ServerInv, BeginShutdown PROVE ServerInv'
<1> USE DEF ServerInv, BeginShutdown
<1>1. StackInv'
  BY GoOnKeepsStack DEF Points, Before, Serving, Ending, StackAt
<1>2. AcceptorInv'
  BY DEF AcceptorInv, Before, Ending
<1>3. ResultInv'
  BY DEF ResultInv, AcceptorInv, Before, Ending
<1>4. ConnInv'
  BY DEF ConnInv, AcceptorInv, ResultInv, Quiet, Before, Ending
<1>5. QED
  BY <1>1, <1>2, <1>3, <1>4

\* Shutdown closes an idle connection.
LEMMA CloseIdleInv == ASSUME ServerInv, NEW c \in Conns, CloseIdle(c) PROVE ServerInv'
<1> USE DEF ServerInv, CloseIdle, runVars
<1>1. StackInv'
  BY OthersKeepStack
<1>2. AcceptorInv'
  BY DEF AcceptorInv, Before, Ending
<1>3. ResultInv'
  BY DEF ResultInv, AcceptorInv, Before, Ending
<1>4. ConnInv'
  BY DEF ConnInv, AcceptorInv, ResultInv, Quiet, Before, Ending
<1>5. QED
  BY <1>1, <1>2, <1>3, <1>4

\* No connection is left, and none can come any more.
LEMMA DrainedInv == ASSUME ServerInv, Drained PROVE ServerInv'
<1> USE DEF ServerInv, Drained, Return, httpVars
<1>1. StackInv'
  <2>1. CASE main' = "await"
    BY <2>1, GoOnKeepsStack DEF Points, Before, Serving, Ending, StackAt
  <2>2. CASE main' = "release"
    BY <2>2, ReturnKeepsStack DEF Ending
  <2>3. QED
    BY <2>1, <2>2
<1>2. AcceptorInv'
  BY DEF AcceptorInv, Before, Ending
<1>3. ResultInv'
  BY DEF ResultInv, AcceptorInv, Before, Ending
<1>4. ConnInv'
  BY DEF ConnInv, AcceptorInv, ResultInv, Quiet, Before, Ending
<1>5. QED
  BY <1>1, <1>2, <1>3, <1>4

\* The grace period is over, which is on record as a failure.
LEMMA GiveUpInv == ASSUME ServerInv, GiveUp PROVE ServerInv'
<1> USE DEF ServerInv, GiveUp, Return
<1>1. StackInv'
  BY ReturnKeepsStack DEF Ending
<1>2. AcceptorInv'
  BY DEF AcceptorInv, Before, Ending
<1>3. ResultInv'
  BY DEF ResultInv, AcceptorInv, Before, Ending
<1>4. ConnInv'
  BY DEF ConnInv, AcceptorInv, ResultInv, Quiet, Severed, Before, Ending
<1>5. QED
  BY <1>1, <1>2, <1>3, <1>4

\* Run returns when nothing is deferred any more.
LEMMA ExitInv == ASSUME ServerInv, Exit PROVE ServerInv'
<1> USE DEF ServerInv, Exit, httpVars
<1>1. StackInv'
  BY DEF StackInv, Points, Ending
<1>2. AcceptorInv'
  BY DEF AcceptorInv, Before, Ending
<1>3. ResultInv'
  BY DEF ResultInv, AcceptorInv, Before, Ending
<1>4. ConnInv'
  BY DEF ConnInv, AcceptorInv, ResultInv, Quiet, Before, Ending
<1>5. QED
  BY <1>1, <1>2, <1>3, <1>4

\* Serve begins to accept, or finds that Shutdown began.
LEMMA StartAcceptingInv == ASSUME ServerInv, StartAccepting PROVE ServerInv'
<1> USE DEF ServerInv, StartAccepting, AcceptorGoes, runVars
<1>1. StackInv'
  BY OthersKeepStack
<1>2. AcceptorInv'
  BY DEF AcceptorInv, Before, Ending
<1>3. ResultInv'
  BY DEF ResultInv, AcceptorInv, Before, Ending
<1>4. ConnInv'
  BY DEF ConnInv, AcceptorInv, ResultInv, Quiet, Before, Ending
<1>5. QED
  BY <1>1, <1>2, <1>3, <1>4

\* A failing listener is on record unless Shutdown began.
LEMMA AcceptFailsInv == ASSUME ServerInv, AcceptFails PROVE ServerInv'
<1> USE DEF ServerInv, AcceptFails, AcceptorGoes, runVars
<1>1. StackInv'
  BY OthersKeepStack
<1>2. AcceptorInv'
  BY DEF AcceptorInv, Before, Ending
<1>3. ResultInv'
  BY DEF ResultInv, AcceptorInv, Before, Ending
<1>4. ConnInv'
  BY DEF ConnInv, AcceptorInv, ResultInv, Quiet, Before, Ending
<1>5. QED
  BY <1>1, <1>2, <1>3, <1>4

\* The outcome moves into the channel.
LEMMA ReportInv == ASSUME ServerInv, Report PROVE ServerInv'
<1> USE DEF ServerInv, Report, AcceptorGoes, runVars
<1>1. StackInv'
  BY OthersKeepStack
<1>2. AcceptorInv'
  BY DEF AcceptorInv, Before, Ending
<1>3. ResultInv'
  BY DEF ResultInv, AcceptorInv, Before, Ending
<1>4. ConnInv'
  BY DEF ConnInv, AcceptorInv, ResultInv, Quiet, Before, Ending
<1>5. QED
  BY <1>1, <1>2, <1>3, <1>4

\* A client or a handler moves one connection.
LEMMA ClientInv == ASSUME ServerInv, NEW c \in Conns, Client(c) PROVE ServerInv'
<1> USE DEF ServerInv, Client, Accept, Request, Finish, Drop, ConnGoes, runVars
<1>1. StackInv'
  BY OthersKeepStack
<1>2. AcceptorInv'
  BY DEF AcceptorInv, Before, Ending
<1>3. ResultInv'
  BY DEF ResultInv, AcceptorInv, Before, Ending
<1>4. ConnInv'
  BY DEF ConnInv, AcceptorInv, ResultInv, Quiet, Before, Ending
<1>5. QED
  BY <1>1, <1>2, <1>3, <1>4

\* The signal, the end of the grace period and that of the warming.
LEMMA EnvironmentInv == ASSUME ServerInv, Signal \/ GraceExpires \/ WarmEnds PROVE ServerInv'
<1> USE DEF ServerInv, Signal, GraceExpires, WarmEnds, runVars, httpVars
<1>1. StackInv'
  BY OthersKeepStack
<1>2. AcceptorInv'
  BY DEF AcceptorInv, Before, Ending
<1>3. ResultInv'
  BY DEF ResultInv, AcceptorInv, Before, Ending
<1>4. ConnInv'
  BY DEF ConnInv, AcceptorInv, ResultInv, Quiet, Before, Ending
<1>5. QED
  BY <1>1, <1>2, <1>3, <1>4

\* A release takes the latest of what is deferred, and of what is open.
LEMMA ReleaseInv == ASSUME ServerInv, Release PROVE ServerInv'
<1> DEFINE last == deferred[Len(deferred)]
<1>1. /\ main = "release" /\ deferred # <<>>
      /\ deferred' = SubSeq(deferred, 1, Len(deferred) - 1)
      /\ open' = open \ {last}
      /\ ctx' = IF last = "signals" /\ ctx = "live" THEN "stopped" ELSE ctx
      /\ listener' = IF last = "listener" THEN "closed" ELSE listener
      /\ conn' = IF last = "node" THEN Severed ELSE conn
      /\ UNCHANGED <<invocation, main, result, acceptor, errs, shutting, grace, faults, warm>>
  BY DEF Release
<1>2. /\ deferred' \in Stacks /\ Listed(deferred') = Listed(deferred) \ {last}
      /\ "listener" \in Listed(deferred) /\ last # "listener" => "listener" \in Listed(deferred')
  BY <1>1, ReleaseFacts DEF ServerInv, StackInv
<1> HIDE DEF last
<1>3. StackInv'
  BY <1>1, <1>2 DEF ServerInv, StackInv, Ending, Points
<1>4. AcceptorInv'
  BY <1>1 DEF ServerInv, AcceptorInv, Before, Ending
<1>5. ResultInv'
  BY <1>1 DEF ServerInv, ResultInv, Ending
<1>6. ConnInv'
  <2>1. CASE last = "node"
    BY <1>1, <2>1 DEF ServerInv, ConnInv, Quiet, Severed
  <2>2. CASE last # "node"
    BY <1>1, <2>2 DEF ServerInv, ConnInv, Quiet
  <2>3. QED
    BY <2>1, <2>2
<1>7. QED
  BY <1>3, <1>4, <1>5, <1>6 DEF ServerInv

\* Every step preserves the invariant.
LEMMA NextInv == ServerInv /\ [Next]_vars => ServerInv'
<1> SUFFICES ASSUME ServerInv, [Next]_vars PROVE ServerInv'
  OBVIOUS
<1>1. CASE Command
  BY <1>1, CommandInv
<1>2. CASE Starting
  BY <1>2, AcquireInv, FailToStartInv DEF Starting
<1>3. CASE StartWarm
  BY <1>3, StartWarmInv
<1>4. CASE Serve
  <2>1. CASE Select
    BY <2>1, ReceiveErrInv, StopSelectInv DEF Select
  <2>2. CASE Await
    BY <2>2, ReceiveErrInv DEF Await
  <2>3. QED
    BY <1>4, <2>1, <2>2, BeginServeInv, BeginShutdownInv, DrainedInv, GiveUpInv, CloseIdleInv DEF Serve
<1>5. CASE Release
  BY <1>5, ReleaseInv
<1>6. CASE Exit
  BY <1>6, ExitInv
<1>7. CASE Acceptor
  BY <1>7, StartAcceptingInv, AcceptFailsInv, ReportInv DEF Acceptor
<1>8. CASE Signal \/ GraceExpires \/ WarmEnds
  BY <1>8, EnvironmentInv
<1>9. CASE \E c \in Conns : Client(c)
  BY <1>9, ClientInv
<1>10. CASE UNCHANGED vars
  BY <1>10 DEF vars, runVars, httpVars, ServerInv, StackInv, AcceptorInv, ResultInv, ConnInv, Quiet
<1>11. QED
  BY <1>1, <1>2, <1>3, <1>4, <1>5, <1>6, <1>7, <1>8, <1>9, <1>10 DEF Next, Main

-----------------------------------------------------------------------------
(* Theorems                                                                *)

\* The invariant the properties rest on: what is open is what will be released,
\* and what went wrong is the result or on its way to be.
THEOREM ServerInvariant == Spec => []ServerInv
<1>1. Init => ServerInv
  BY InitInv
<1>2. ServerInv /\ [Next]_vars => ServerInv'
  BY NextInv
<1>3. QED
  BY <1>1, <1>2, PTL DEF Spec

\* The process keeps its types, and every release is deferred at most once.
THEOREM ServerTyped == Spec => []ServerTypeOK
<1>1. ServerInv => ServerTypeOK
  <2> SUFFICES ASSUME ServerInv PROVE ServerTypeOK
    OBVIOUS
  <2>1. \A stack \in Stacks : \A i, j \in DOMAIN stack : stack[i] = stack[j] => i = j
    BY DEF Stacks
  <2>2. open \subseteq Resources
    BY StackFacts DEF ServerInv, StackInv, Stacks, Resources
  <2>3. Len(errs) <= 1
    <3>1. errs \in {<<>>, <<"nil">>, <<"failure">>}
      BY DEF ServerInv, AcceptorInv
    <3>2. Len(<<>>) = 0 /\ Len(<<"nil">>) = 1 /\ Len(<<"failure">>) = 1
      OBVIOUS
    <3>3. QED
      BY <3>1, <3>2
  <2>4. QED
    BY <2>1, <2>2, <2>3 DEF ServerInv, StackInv, AcceptorInv, ResultInv, ConnInv, ServerTypeOK
<1>2. QED
  BY <1>1, ServerInvariant, PTL

\* However startup fails and serving ends, run returns with nothing open, and
\* the warming has been told to stop before what was acquired before it goes.
THEOREM NothingEverLeaks == Spec => []NothingLeaks
<1>1. ServerInv => NothingLeaks
  BY StackFacts DEF ServerInv, StackInv, Stacks, Resources, NothingLeaks, WarmCancelled
<1>2. QED
  BY <1>1, ServerInvariant, PTL

\* The exit status tells a usage error, a failure of any step or goroutine, and
\* success, which a service only reaches by being told to stop.
THEOREM StatusTellsWhy == Spec => []ExitTellsWhy
<1>1. ServerInv => ExitTellsWhy
  <2> SUFFICES ASSUME ServerInv, main = "returned"
               PROVE  /\ Status = (CASE invocation \in {"badFlag", "positional"} -> 2
                                     [] faults # {} -> 1
                                     [] OTHER -> 0)
                      /\ (invocation = "serve" /\ Status = 0) => ctx = "signalled"
    BY DEF ExitTellsWhy
  <2>1. /\ result \in {"nil", "failure", "usage"}
        /\ result = "usage" <=> invocation \in {"badFlag", "positional"}
    BY DEF ServerInv, ResultInv, Ending
  <2>2. result = "failure" => faults # {}
    BY DEF ServerInv, ResultInv
  <2>3. result = "nil" /\ invocation = "serve" => ctx = "signalled"
    BY DEF ServerInv, ResultInv, AcceptorInv
  <2>4. result = "nil" => faults = {}
    <3> SUFFICES ASSUME result = "nil", NEW f \in faults PROVE FALSE
      OBVIOUS
    <3>1. invocation = "serve"
      BY DEF ServerInv, ResultInv
    <3>2. acceptor = "ended" /\ errs = <<>>
      BY <3>1 DEF ServerInv, ResultInv
    <3>3. f = "accept" /\ (acceptor = "failure" \/ errs = <<"failure">>)
      BY DEF ServerInv, ResultInv
    <3>4. <<>> # <<"failure">>
      OBVIOUS
    <3>5. QED
      BY <3>2, <3>3, <3>4
  <2>5. CASE result = "usage"
    <3>1. Status = 2
      BY <2>5 DEF Status
    <3>2. invocation \in {"badFlag", "positional"} /\ faults = {}
      BY <2>1, <2>5 DEF ServerInv, ResultInv
    <3>3. QED
      BY <3>1, <3>2
  <2>6. CASE result = "failure"
    BY <2>1, <2>2, <2>6 DEF Status
  <2>7. CASE result = "nil"
    BY <2>1, <2>3, <2>4, <2>7 DEF Status
  <2>8. QED
    BY <2>1, <2>5, <2>6, <2>7
<1>2. QED
  BY <1>1, ServerInvariant, PTL

\* A service that reports success has drained: no handler is left running.
THEOREM SuccessHasDrained == Spec => []CleanExitDrains
<1>1. ServerInv => CleanExitDrains
  BY DEF ServerInv, ConnInv, Quiet, CleanExitDrains
<1>2. QED
  BY <1>1, ServerInvariant, PTL

=============================================================================
