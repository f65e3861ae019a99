----------------------------- MODULE MediaRoute -----------------------------
(***************************************************************************)
(* GET /media/book.mp3: the files of module Book sent to players through   *)
(* the http.Server of server.go, whose write deadline runs from the moment *)
(* the request was read.  The media is long, and a player need not take it *)
(* faster than it plays it: one chunk in each tick of the clock.  When it  *)
(* is cut off it asks for the rest, as a byte range of whatever bears the  *)
(* media's name by then.                                                   *)
(*                                                                         *)
(* Ticks are seconds: system calls and writes into a connection that has   *)
(* room take none.                                                         *)
(***************************************************************************)
EXTENDS Book

CONSTANTS
  Length,         \* of every file, in chunks
  Window,         \* chunks a connection buffers
  WriteTimeout    \* of the server, in ticks

ASSUME RouteAssumption ==
  Length \in Nat \ {0} /\ Window \in Nat \ {0} /\ WriteTimeout \in Nat \ {0}

VARIABLE download   \* the response to each player, and what it has taken

routeVars == <<vars, download>>

\* Ticks since the request was read, the next chunk to be written, the chunks in
\* the connection and those the player took, and whether it took one each tick.
NoDownload == [elapsed |-> 0, next |-> 1, flight |-> <<>>, taken |-> <<>>, steady |-> TRUE]

RouteInit == Init /\ download = [r \in Requests |-> NoDownload]

-----------------------------------------------------------------------------
(* The response                                                            *)

Written(r) == download[r].next > Length

\* Deliberate mistake: the response is collected in memory.
RoomUnbounded(r) == media[r].pc = "serve"

\* The connection takes another chunk.
Room(r) == Len(download[r].flight) < Window

CanWrite(r) == media[r].pc = "serve" /\ ~Written(r) /\ Room(r)

\* Deliberate mistake: the media is read by its name, as http.ServeFile would.
WriteByName(r) ==
  /\ CanWrite(r)
  /\ LET chunk == [file |-> entry[current], at |-> download[r].next]
     IN  download' = [download EXCEPT ![r].next = @ + 1, ![r].flight = Append(@, chunk)]
  /\ UNCHANGED vars

\* http.ServeContent copies from the open file, beginning with the range.
Write(r) ==
  /\ CanWrite(r)
  /\ LET chunk == [file |-> handle[r], at |-> download[r].next]
     IN  download' = [download EXCEPT ![r].next = @ + 1, ![r].flight = Append(@, chunk)]
  /\ UNCHANGED vars

\* All of it is written: the handler returns.
EndServe(r) == Written(r) /\ ServeMedia(r) /\ UNCHANGED download

\* Deliberate mistake: the server is made without a write timeout.
NeverDue(r) == FALSE

\* The write deadline has passed.
Due(r) == download[r].elapsed = WriteTimeout

\* A write fails at the deadline: the handler returns, and the connection is
\* given up with what it still buffered.
Cut(r) ==
  /\ Due(r) /\ ~Written(r)
  /\ ServeMedia(r)
  /\ download' = [download EXCEPT ![r].flight = <<>>]

-----------------------------------------------------------------------------
(* The player                                                              *)

\* Time passes; the player takes a chunk or does not.
Tick(r, takes) ==
  LET d == download[r] IN
  /\ d.flight # <<>> /\ ~CanWrite(r)
  /\ media[r].pc = "serve" => ~Due(r)
  /\ download' = [download EXCEPT ![r] =
       [d EXCEPT !.elapsed = IF d.elapsed < WriteTimeout THEN d.elapsed + 1 ELSE d.elapsed,
                 !.flight  = IF takes THEN Tail(d.flight) ELSE d.flight,
                 !.taken   = IF takes THEN Append(d.taken, Head(d.flight)) ELSE d.taken,
                 !.steady  = d.steady /\ takes]]
  /\ UNCHANGED vars

\* Deliberate mistake: ranges are ignored, and the media sent from its start.
AskFromStart(r) ==
  /\ media[r].pc = "done" /\ download[r].flight = <<>>
  /\ Len(download[r].taken) < Length
  /\ media' = [media EXCEPT ![r] = Idle]
  /\ download' = [download EXCEPT ![r].elapsed = 0, ![r].next = 1, ![r].taken = <<>>]
  /\ UNCHANGED <<fsVars, load, root, handle, validated, changed>>

\* The player was cut off, or refused, and asks for the rest (Range: bytes=n-).
Ask(r) ==
  /\ media[r].pc = "done" /\ download[r].flight = <<>>
  /\ Len(download[r].taken) < Length
  /\ media' = [media EXCEPT ![r] = Idle]
  /\ download' = [download EXCEPT ![r].elapsed = 0, ![r].next = Len(download[r].taken) + 1]
  /\ UNCHANGED <<fsVars, load, root, handle, validated, changed>>

Stream(r) == Write(r) \/ EndServe(r) \/ Cut(r) \/ Ask(r) \/ \E takes \in BOOLEAN : Tick(r, takes)

RouteNext == (BookStep /\ UNCHANGED download) \/ \E r \in Requests : Stream(r)

RouteSpec == RouteInit /\ [][RouteNext]_routeVars

\* The steps of a handler, apart from the reading of a request.
Handle(r) ==
  \/ \E works \in BOOLEAN : (InspectMedia(r, works) \/ PrepareMedia(r, works)) /\ UNCHANGED download
  \/ Write(r) \/ EndServe(r) \/ Cut(r)

\* The server's clock moves towards the deadline, whatever the player does.
ClockTicks(r) ==
  /\ \E takes \in BOOLEAN : Tick(r, takes)
  /\ download'[r].elapsed # download[r].elapsed

\* Handlers are scheduled, their system calls return, and time passes.  Nothing
\* is assumed of players and of the operator.
FairRouteSpec ==
  /\ RouteSpec
  /\ \A r \in Requests : WF_routeVars(Handle(r)) /\ WF_routeVars(ClockTicks(r))

-----------------------------------------------------------------------------
(* Properties                                                              *)

Chunks(r) == download[r].taken \o download[r].flight

\* The types; what is under way fits the connection and is part of the media.
RouteTypeOK ==
  /\ BookTypeOK
  /\ \A r \in Requests : LET d == download[r] IN
       /\ d.elapsed \in 0..WriteTimeout
       /\ d.next \in 1..(Length + 1)
       /\ Len(d.flight) <= Window /\ Len(Chunks(r)) <= Length

\* Whatever the operator does between the checks and the bytes, what players get
\* comes from regular files of the directory that was opened at startup: never
\* from the target of a link that leaves it, or another directory's file.
ServedIsConfined ==
  \A r \in Requests : \A i \in DOMAIN Chunks(r) :
    LET file == Chunks(r)[i].file IN
    file # None /\ file.kind = "regular" /\ file.dir = validated.dir

\* A download that was cut off any number of times is put together without a gap
\* or a repetition; and as long as the media is left alone - where the path
\* leads to meanwhile notwithstanding - it is the file that was validated, and
\* no request is refused unless a system call fails or the book is released.
ValidatedIsServed ==
  \A r \in Requests :
    /\ \A i \in DOMAIN Chunks(r) : Chunks(r)[i].at = i /\ (~changed => Chunks(r)[i].file = validated)
    /\ media[r].pc = "done" /\ ~changed /\ ~media[r].fault /\ load = "loaded" => media[r].status = 200

\* No client holds a file open for ever, one that takes nothing included:
\* server.go, "to bound what an anonymous caller ... can hold open".
HeldForBoundedTime == \A r \in Requests : handle[r] # None ~> handle[r] = None

\* Because ranges are served, a player that goes on playing, and asks for the rest
\* whenever it is cut off, gets the whole book, however much longer it plays than
\* the timeout, unless the operator changes the media or a system call fails.
RangesFinish ==
  \A r \in Requests :
    /\ SF_routeVars(Tick(r, TRUE)) /\ WF_routeVars(Ask(r))
    /\ WF_routeVars(OpenMedia(r, TRUE) /\ UNCHANGED download)
    /\ <>[](load = "loaded") /\ [](~changed /\ ~media[r].fault)
    => <>(Len(download[r].taken) = Length)

\* README.md: "publicly serves only the validated MP3".
OnlyValidatedServed ==
  \A r \in Requests : \A i \in DOMAIN download[r].taken : download[r].taken[i].file = validated

\* server.go, of the timeouts: "nothing legitimate needs longer than these".
LegitimateFits ==
  \A r \in Requests : media[r].status = 200 /\ ~Written(r) => ~download[r].steady

=============================================================================
