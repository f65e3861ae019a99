------------------------------- MODULE Server -------------------------------
(***************************************************************************)
(* The life of the process: run and serveFunnel of main.go, serve of       *)
(* server.go, the goroutine of warm.go.  The main goroutine acquires       *)
(* resources step by step and defers their release; http.Server accepts    *)
(* connections in a goroutine of its own and hands its outcome over in a   *)
(* channel; a signal, a failing listener and the end of the grace period   *)
(* may come at any time, and a handler may never finish.                   *)
(*                                                                         *)
(* Of package net/http the documented contract is modelled: Serve gives    *)
(* ErrServerClosed once Shutdown began, Shutdown waits for Serve to stop   *)
(* accepting and for connections to be idle, Close waits for no handler.   *)
(***************************************************************************)
EXTENDS Naturals, Sequences

CONSTANTS
  Conns,        \* connections a client may open
  Invocations   \* how the program may be called

ASSUME InvocationsAssumption ==
  Invocations \subseteq {"serve", "information", "badFlag", "positional"}

VARIABLES
  invocation,   \* how it was called
  main,         \* where the main goroutine is
  ctx,          \* the process context: live, or done for which reason
  open,         \* what has been acquired and not released
  deferred,     \* the deferred releases, the latest last
  result,       \* the error run maps to an exit status
  faults,       \* what has gone wrong so far (for the properties)
  acceptor,     \* the goroutine of srv.Serve, or what Serve returned to it
  errs,         \* the channel it reports in
  listener,     \* the funnel listener
  shutting,     \* http.Server's inShutdown
  grace,        \* the deadline of shutdownCtx
  conn,         \* each connection and its handler
  warm          \* the warming goroutine

runVars == <<invocation, main, deferred, result>>
httpVars == <<acceptor, errs, listener, shutting, grace, conn>>
vars == <<runVars, httpVars, ctx, open, faults, warm>>

Startup == <<"config", "book", "stateDir", "node", "capture", "verifier", "listener">>
Resources == {"signals", "book", "node", "listener", "warmCtx"}

\* The startup step that follows, then warming.
After(step) ==
  IF step = "listener" THEN "warm"
  ELSE Startup[1 + CHOOSE i \in DOMAIN Startup : Startup[i] = step]

\* The tailnet node is only a struct until the listener is requested.
CanFail(step) == step # "node"

\* What a step acquires.
Acquires(step) == {step} \cap Resources

\* Deliberate mistake: the book's release is deferred one step late.
DefersLate(step) == CASE step \in {"node", "listener"} -> <<step>>
                      [] step = "stateDir" -> <<"book">>
                      [] OTHER -> <<>>

\* The release a step defers, before the next step can fail.
Defers(step) == IF step \in Resources THEN <<step>> ELSE <<>>

-----------------------------------------------------------------------------
(* The main goroutine: startup                                             *)

Init ==
  /\ invocation \in Invocations
  /\ main = "command"
  /\ ctx = "live" /\ open = {"signals"} /\ deferred = <<"signals">>
  /\ result = "none" /\ faults = {}
  /\ acceptor = "none" /\ errs = <<>> /\ listener = "none"
  /\ shutting = FALSE /\ grace = "unset"
  /\ conn = [c \in Conns |-> "none"]
  /\ warm = "none"

Return(outcome) == main' = "release" /\ result' = outcome

\* The command line is parsed: help and version end well, a flag or an argument
\* it does not know is a usage error, and otherwise the service starts.
Command ==
  /\ main = "command"
  /\ \/ /\ invocation = "serve"
        /\ main' = "config"
        /\ UNCHANGED result
     \/ invocation = "information" /\ Return("nil")
     \/ invocation \in {"badFlag", "positional"} /\ Return("usage")
  /\ UNCHANGED <<invocation, deferred, httpVars, ctx, open, faults, warm>>

\* A startup step succeeds.
Acquire(step) ==
  /\ main = step
  /\ main' = After(step)
  /\ open' = open \cup Acquires(step)
  /\ deferred' = deferred \o Defers(step)
  /\ listener' = IF step = "listener" THEN "open" ELSE listener
  /\ UNCHANGED <<invocation, result, ctx, faults, acceptor, errs, shutting, grace, conn, warm>>

\* A startup step fails, keeping nothing of its own.
FailToStart(step) ==
  /\ main = step
  /\ CanFail(step)
  /\ Return("failure")
  /\ faults' = faults \cup {step}
  /\ UNCHANGED <<invocation, deferred, httpVars, ctx, open, warm>>

\* Deliberate mistake: the child context is never cancelled.
StartWarmDetached ==
  /\ main = "warm"
  /\ warm' = "running"
  /\ open' = open \cup {"warmCtx"}
  /\ main' = "serve"
  /\ UNCHANGED <<invocation, deferred, result, httpVars, ctx, faults>>

\* The cache is warmed in a goroutine under a child context.
StartWarm ==
  /\ main = "warm"
  /\ warm' = "running"
  /\ open' = open \cup {"warmCtx"}
  /\ deferred' = Append(deferred, "warmCtx")
  /\ main' = "serve"
  /\ UNCHANGED <<invocation, result, httpVars, ctx, faults>>

-----------------------------------------------------------------------------
(* The main goroutine: serve                                               *)

\* Deliberate mistake: serving waits for the warming to end.
BeginServeWarmed ==
  /\ main = "serve"
  /\ warm = "done"
  /\ acceptor' = "starting"
  /\ main' = "select"
  /\ UNCHANGED <<invocation, deferred, result, errs, listener, shutting, grace, conn, ctx, open, faults, warm>>

\* The goroutine of srv.Serve is started.
BeginServe ==
  /\ main = "serve"
  /\ acceptor' = "starting"
  /\ main' = "select"
  /\ UNCHANGED <<invocation, deferred, result, errs, listener, shutting, grace, conn, ctx, open, faults, warm>>

\* What the Serve goroutine sent is what serve returns.
ReceiveErr ==
  /\ errs # <<>>
  /\ Return(Head(errs))
  /\ errs' = Tail(errs)
  /\ UNCHANGED <<invocation, deferred, acceptor, listener, shutting, grace, conn, ctx, open, faults, warm>>

\* The select of serve: either arm may be taken when both are ready.
Select ==
  /\ main = "select"
  /\ \/ ReceiveErr
     \/ /\ ctx # "live"
        /\ main' = "shutdown"
        /\ UNCHANGED <<invocation, deferred, result, httpVars, ctx, open, faults, warm>>

\* Deliberate mistake: Shutdown is given a context without a deadline.
BeginShutdownUnbounded ==
  /\ main = "shutdown"
  /\ shutting' = TRUE
  /\ listener' = IF acceptor = "accepting" THEN "closed" ELSE listener
  /\ main' = "drain"
  /\ UNCHANGED <<invocation, deferred, result, acceptor, errs, grace, conn, ctx, open, faults, warm>>

\* Shutdown marks the server and closes the listener if Serve has one in use;
\* closing it may report an error, which is kept for the end of the drain.
BeginShutdown ==
  /\ main = "shutdown"
  /\ shutting' = TRUE
  /\ grace' = "running"
  /\ listener' = IF acceptor = "accepting" THEN "closed" ELSE listener
  /\ main' = "drain"
  /\ \/ UNCHANGED faults
     \/ acceptor = "accepting" /\ faults' = faults \cup {"close"}
  /\ UNCHANGED <<invocation, deferred, result, acceptor, errs, conn, ctx, open, warm>>

\* Connections that http.Server or the tailnet node gives up: handlers go on.
Severed == [c \in Conns |-> CASE conn[c] \in {"new", "idle"} -> "closed"
                              [] conn[c] = "active" -> "orphan"
                              [] OTHER -> conn[c]]

\* Shutdown has seen Serve leave and closes an idle connection.
CloseIdle(c) ==
  /\ main = "drain"
  /\ acceptor # "accepting"
  /\ conn[c] \in {"new", "idle"}
  /\ conn' = [conn EXCEPT ![c] = "closed"]
  /\ UNCHANGED <<runVars, acceptor, errs, listener, shutting, grace, ctx, open, faults, warm>>

\* No connection is left: Shutdown returns the error of closing the listener,
\* or nil, and then Serve's outcome is awaited.
Drained ==
  /\ main = "drain"
  /\ acceptor # "accepting"
  /\ \A c \in Conns : conn[c] \in {"none", "closed"}
  /\ IF "close" \in faults THEN Return("failure")
     ELSE main' = "await" /\ UNCHANGED result
  /\ UNCHANGED <<invocation, deferred, httpVars, ctx, open, faults, warm>>

\* Deliberate mistake: the error of Shutdown is dropped.
GiveUpQuietly ==
  /\ main = "drain"
  /\ acceptor # "accepting"
  /\ grace = "expired"
  /\ conn' = Severed
  /\ main' = "await"
  /\ UNCHANGED <<invocation, deferred, result, faults, acceptor, errs, listener, shutting, grace, ctx, open, warm>>

\* The grace period is over: Close, and Shutdown's error is returned.
GiveUp ==
  /\ main = "drain"
  /\ acceptor # "accepting"
  /\ grace = "expired"
  /\ conn' = Severed
  /\ Return("failure")
  /\ faults' = faults \cup {"grace"}
  /\ UNCHANGED <<invocation, deferred, acceptor, errs, listener, shutting, grace, ctx, open, warm>>

\* Deliberate mistake: a drained server is reported as a success.
AwaitNothing ==
  /\ main = "await"
  /\ Return("nil")
  /\ UNCHANGED <<invocation, deferred, httpVars, ctx, open, faults, warm>>

\* return <-errs
Await == main = "await" /\ ReceiveErr

\* The deferred calls run, the latest first; then run returns.
Release ==
  LET last == deferred[Len(deferred)] IN
  /\ main = "release"
  /\ deferred # <<>>
  /\ deferred' = SubSeq(deferred, 1, Len(deferred) - 1)
  /\ open' = open \ {last}
  /\ ctx' = IF last = "signals" /\ ctx = "live" THEN "stopped" ELSE ctx
  /\ listener' = IF last = "listener" THEN "closed" ELSE listener
  /\ conn' = IF last = "node" THEN Severed ELSE conn
  /\ UNCHANGED <<invocation, main, result, acceptor, errs, shutting, grace, faults, warm>>

Exit ==
  /\ main = "release"
  /\ deferred = <<>>
  /\ main' = "returned"
  /\ UNCHANGED <<invocation, deferred, result, httpVars, ctx, open, faults, warm>>

\* run's exit status.
Status == CASE result = "nil" -> 0 [] result = "usage" -> 2 [] OTHER -> 1

-----------------------------------------------------------------------------
(* The goroutine of srv.Serve                                              *)

AcceptorGoes(to) ==
  /\ acceptor' = to
  /\ UNCHANGED <<runVars, errs, shutting, grace, conn, ctx, open, warm>>

\* Deliberate mistake: ErrServerClosed is reported like any error.
StartAcceptingUnmapped ==
  /\ acceptor = "starting"
  /\ AcceptorGoes(IF shutting THEN "ErrServerClosed" ELSE "accepting")
  /\ listener' = IF shutting THEN "closed" ELSE listener
  /\ UNCHANGED faults

\* Serve begins to accept, or finds the server shut down already and closes the
\* listener.
StartAccepting ==
  /\ acceptor = "starting"
  /\ AcceptorGoes(IF shutting THEN "nil" ELSE "accepting")
  /\ listener' = IF shutting THEN "closed" ELSE listener
  /\ UNCHANGED faults

\* Accept fails because Shutdown closed the listener, or because the tailnet's
\* listener failed, which counts as a failure only before Shutdown.
AcceptFails ==
  /\ acceptor = "accepting"
  /\ AcceptorGoes(IF shutting THEN "nil" ELSE "failure")
  /\ listener' = "closed"
  /\ faults' = IF shutting THEN faults ELSE faults \cup {"accept"}

\* Deliberate mistake: the channel has no buffer.
ReportUnbuffered ==
  /\ acceptor \in {"nil", "failure"}
  /\ main \in {"select", "await"}
  /\ errs = <<>>
  /\ errs' = <<acceptor>>
  /\ acceptor' = "ended"
  /\ UNCHANGED <<runVars, listener, shutting, grace, conn, ctx, open, faults, warm>>

\* The outcome goes into the channel, which has room for it.
Report ==
  /\ acceptor \in {"nil", "failure"}
  /\ errs = <<>>
  /\ errs' = <<acceptor>>
  /\ acceptor' = "ended"
  /\ UNCHANGED <<runVars, listener, shutting, grace, conn, ctx, open, faults, warm>>

-----------------------------------------------------------------------------
(* Connections, signals, timers, the warming goroutine                     *)

ConnGoes(c, to) ==
  /\ conn' = [conn EXCEPT ![c] = to]
  /\ UNCHANGED <<runVars, acceptor, errs, listener, shutting, grace, ctx, open, faults, warm>>

Accept(c) ==
  /\ acceptor = "accepting" /\ listener = "open"
  /\ conn[c] = "none"
  /\ ConnGoes(c, "new")

\* A request has been read, and its handler runs.
Request(c) == conn[c] \in {"new", "idle"} /\ ConnGoes(c, "active")

\* The handler returns; a server that is shutting down keeps no connection.
Finish(c) ==
  \/ conn[c] = "active" /\ ~shutting /\ ConnGoes(c, "idle")
  \/ conn[c] \in {"active", "orphan"} /\ ConnGoes(c, "closed")

\* The client leaves, or the header or idle timeout ends the connection.
Drop(c) == conn[c] \in {"new", "idle"} /\ ConnGoes(c, "closed")

Signal ==
  /\ ctx = "live"
  /\ ctx' = "signalled"
  /\ UNCHANGED <<runVars, httpVars, open, faults, warm>>

GraceExpires ==
  /\ grace = "running"
  /\ grace' = "expired"
  /\ UNCHANGED <<runVars, acceptor, errs, listener, shutting, conn, ctx, open, faults, warm>>

WarmCancelled == ctx # "live" \/ (warm # "none" /\ "warmCtx" \notin open)

WarmEnds ==
  /\ warm = "running"
  /\ warm' = "done"
  /\ UNCHANGED <<runVars, httpVars, ctx, open, faults>>

-----------------------------------------------------------------------------
(* Specification                                                           *)

Serve == BeginServe \/ Select \/ BeginShutdown \/ Drained \/ GiveUp \/ Await
         \/ \E c \in Conns : CloseIdle(c)

Starting ==
  \E i \in DOMAIN Startup : Acquire(Startup[i]) \/ FailToStart(Startup[i])

Main == Command \/ Starting \/ StartWarm \/ Serve \/ Release \/ Exit

Acceptor == StartAccepting \/ AcceptFails \/ Report

Client(c) == Accept(c) \/ Request(c) \/ Finish(c) \/ Drop(c)

Next == Main \/ Acceptor \/ Signal \/ GraceExpires \/ WarmEnds \/ \E c \in Conns : Client(c)

Spec == Init /\ [][Next]_vars

(***************************************************************************)
(* Goroutines are scheduled and timers fire; releases return; Accept       *)
(* returns once its listener is closed; a cancelled warming gives up.      *)
(* Nothing is assumed of ListenFunnel, handlers, clients, signals, and of  *)
(* how long an uncancelled warming takes.                                  *)
(***************************************************************************)
FairSpec ==
  /\ Spec
  /\ WF_vars(Main /\ main # "listener")
  /\ WF_vars(StartAccepting \/ Report)
  /\ WF_vars(AcceptFails /\ listener = "closed")
  /\ WF_vars(GraceExpires)
  /\ WF_vars(WarmEnds /\ WarmCancelled)

-----------------------------------------------------------------------------
(* Properties                                                              *)

\* The types; releases are deferred in the order of acquisition, each once.
ServerTypeOK ==
  /\ invocation \in Invocations
  /\ ctx \in {"live", "signalled", "stopped"}
  /\ open \subseteq Resources
  /\ \A i, j \in DOMAIN deferred : deferred[i] = deferred[j] => i = j
  /\ result \in {"none", "nil", "failure", "usage"}
  /\ acceptor \in {"none", "starting", "accepting", "nil", "failure", "ended"}
  /\ Len(errs) <= 1
  /\ conn \in [Conns -> {"none", "new", "active", "idle", "orphan", "closed"}]

\* Wherever startup fails and however serving ends, run returns with everything
\* released and the listener closed; a listener is never open without its node;
\* and the warming, which is not waited for, has been told to stop before
\* anything acquired before it is released.
NothingLeaks ==
  /\ main = "returned" => open = {} /\ listener # "open"
  /\ listener = "open" => "node" \in open
  /\ warm = "running" /\ ~WarmCancelled => {"book", "node", "listener"} \subseteq open

\* A supervisor can rely on the status: 2 for a usage error, 1 exactly when
\* something failed, a listener's failure that came with the signal included,
\* and 0 from a service only because it was told to stop.
ExitTellsWhy ==
  main = "returned" =>
    /\ Status = (CASE invocation \in {"badFlag", "positional"} -> 2
                   [] faults # {} -> 1
                   [] OTHER -> 0)
    /\ (invocation = "serve" /\ Status = 0) => ctx = "signalled"

\* No handler is left running over released resources by a service that then
\* reports success: it drained.
CleanExitDrains ==
  main \in {"release", "returned"} /\ result = "nil" =>
    \A c \in Conns : conn[c] \in {"none", "closed"}

\* A service that listens ends when it is told to, or when it cannot accept any
\* more, though handlers may never finish.
StopsWhenAsked ==
  "listener" \in open /\ (ctx = "signalled" \/ acceptor = "failure") ~> main = "returned"

\* Once the listener is there requests are accepted, however long the warming
\* takes, unless the service is told to stop first.
ServesWithoutWarm ==
  main = "warm" ~> acceptor \in {"accepting", "failure"} \/ ctx # "live"

\* run leaves no goroutine of its own behind: Serve's can always hand over its
\* outcome, wanted or not, and the warming ends.
GoroutinesEnd ==
  main = "returned" ~> acceptor \in {"none", "ended"} /\ warm \in {"none", "done"}

=============================================================================
