---------------------------- MODULE MediaProofs ----------------------------
(***************************************************************************)
(* Proofs about Book and MediaRoute, for any directories, files, players   *)
(* and timeouts: what the operator does between any two system calls,      *)
(* which calls fail and when downloads are cut off notwithstanding.        *)
(***************************************************************************)
EXTENDS MediaRoute, SequenceTheorems, TLAPS

AllEntries == UNION {Entries(d) : d \in Directories}

\* What may be opened below a directory, and what passes for media there.
Openable(d) == {e \in Entries(d) : e # None /\ e.kind # "escape"}
Playable(d) == {e \in Entries(d) : e # None /\ e.kind = "regular"}

Loading == {"descriptor", "root", "media", "inspect", "failed"}
Loaded == {"loaded", "closed"}
Handling == {"inspect", "prepare", "serve"}
Statuses == {0, 200, 500}
Responses == [pc : {"idle", "done"} \cup Handling, status : Statuses, fault : BOOLEAN]

\* The file system, and what only these modules' properties look at.
FsInv ==
  /\ current \in Directories
  /\ entry \in [Directories -> AllEntries]
  /\ \A d \in Directories : entry[d] \in Entries(d)
  /\ changed \in BOOLEAN

\* The loader: what it has open it found below the root, which is the directory
\* it validates the media for.
LoadInv ==
  /\ load \in Loading \cup Loaded
  /\ load \in {"media", "inspect", "loaded"} => root \in Directories
  /\ load \notin {"media", "inspect", "loaded"} => root = None
  /\ load # "inspect" => handle[Loader] = None
  /\ load = "inspect" => /\ handle[Loader] \in Openable(root)
                         /\ ~changed => handle[Loader] = entry[root]
  /\ load \in Loaded => validated.dir \in Directories /\ validated \in Playable(validated.dir)
  /\ load = "loaded" => /\ validated.dir = root
                        /\ ~changed => validated = entry[root]

\* A request that is past opening holds a file of the validated directory, and
\* once it is past inspecting, one that may be played.
RequestInv(r) ==
  /\ media[r].pc \in {"idle", "done"} \cup Handling
  /\ media[r].pc # "idle" => load \in Loaded
  /\ media[r].pc \notin Handling => handle[r] = None
  /\ media[r].pc \in Handling => /\ handle[r] \in Openable(validated.dir)
                                 /\ ~changed => handle[r] = validated
  /\ media[r].pc \in {"prepare", "serve"} => handle[r].kind = "regular"
  /\ media[r].pc = "done" => media[r].status = 200 \/ media[r].fault \/ changed \/ load = "closed"

BookInv ==
  /\ FsInv /\ LoadInv
  /\ handle \in [Requests \cup {Loader} -> AllEntries \cup {None}]
  /\ media \in [Requests -> Responses]
  /\ \A r \in Requests : RequestInv(r)

Chunk == [file : AllEntries, at : 1..Length]

\* A beginning of one and the same media, chunk after chunk.
Intact(s) ==
  /\ s \in Seq(Chunk)
  /\ Len(s) <= Length
  /\ \A i \in 1..Len(s) : /\ s[i].at = i
                          /\ s[i].file \in Playable(validated.dir)
                          /\ ~changed => s[i].file = validated

\* A download: what was taken and what is under way continue one another, and the
\* handler writes the chunk after these.
DownloadInv(r) ==
  LET d == download[r] IN
  /\ Intact(Chunks(r))
  /\ Len(d.flight) <= Window
  /\ media[r].pc # "done" => d.next = Len(Chunks(r)) + 1
  /\ media[r].pc \notin {"serve", "done"} => d.flight = <<>>
  /\ load \notin Loaded => Chunks(r) = <<>>

Downloads == [elapsed : 0..WriteTimeout, next : 1..(Length + 1), flight : Seq(Chunk),
              taken : Seq(Chunk), steady : BOOLEAN]

RouteInv ==
  /\ BookInv
  /\ download \in [Requests -> Downloads]
  /\ \A r \in Requests : DownloadInv(r)

-----------------------------------------------------------------------------
(* Lemmas about files and chunks                                           *)

\* What each name below a directory can be.
LEMMA EntryFacts ==
  ASSUME NEW d \in Directories
  PROVE  /\ \A e \in Entries(d) : e # None => e.dir = d /\ e.kind \in {"regular", "directory", "escape"}
         /\ Playable(d) \subseteq Openable(d)
         /\ Openable(d) \subseteq AllEntries
         /\ \A e \in Openable(d) : e.dir = d /\ (e.kind = "regular" => e \in Playable(d))
<1>1. \A e \in Entries(d) : e # None => e.dir = d /\ e.kind \in {"regular", "directory", "escape"}
  BY DEF Entries
<1>2. Entries(d) \subseteq AllEntries
  BY DEF AllEntries
<1>3. QED
  BY <1>1, <1>2 DEF Openable, Playable

\* Root.Open gives what the name leads to in the root, never more.
LEMMA MediaFileFacts ==
  ASSUME FsInv, root \in Directories
  PROVE  /\ MediaFile # None => MediaFile \in Openable(root) /\ MediaFile = entry[root]
         /\ entry[root] \in Playable(root) => MediaFile = entry[root] /\ MediaFile # None
BY BookAssumption DEF MediaFile, FsInv, Openable, Playable

\* Initially nothing is open.
LEMMA BookInitInv == Init => BookInv
<1> SUFFICES ASSUME Init PROVE BookInv
  OBVIOUS
<1>1. FsInv
  BY DEF Init, FsInv, AllEntries
<1>2. handle[Loader] = None
  BY DEF Init
<1>3. LoadInv
  BY <1>2 DEF Init, LoadInv, Loading, Loaded
<1>4. \A r \in Requests : RequestInv(r)
  BY DEF Init, RequestInv, Idle, Handling
<1>5. handle \in [Requests \cup {Loader} -> AllEntries \cup {None}]
  BY DEF Init
<1>6. media \in [Requests -> Responses]
  BY DEF Init, Idle, Responses, Statuses
<1>7. QED
  BY <1>1, <1>3, <1>4, <1>5, <1>6 DEF BookInv

-----------------------------------------------------------------------------
(* Steps of the book                                                       *)

\* The descriptor and the directory: nothing is open yet.
LEMMA ReadDescriptorInv ==
  ASSUME BookInv, NEW d, NEW opens, ReadDescriptor(d, opens) PROVE BookInv'
<1>1. FsInv'
  BY DEF ReadDescriptor, BookInv, FsInv, fsVars
<1>2. LoadInv'
  BY DEF ReadDescriptor, BookInv, LoadInv, Loading, Loaded, fsVars
<1>3. \A r \in Requests : RequestInv(r)'
  BY DEF ReadDescriptor, BookInv, RequestInv, Loaded
<1>4. QED
  BY <1>1, <1>2, <1>3 DEF ReadDescriptor, BookInv

\* The root is the directory the path leads to now.
LEMMA OpenRootInv ==
  ASSUME BookInv, NEW opens, OpenRoot(opens) PROVE BookInv'
<1>1. FsInv'
  BY DEF OpenRoot, BookInv, FsInv, fsVars
<1>2. LoadInv'
  BY DEF OpenRoot, BookInv, FsInv, LoadInv, Loading, Loaded, fsVars
<1>3. \A r \in Requests : RequestInv(r)'
  BY DEF OpenRoot, BookInv, RequestInv, Loaded
<1>4. QED
  BY <1>1, <1>2, <1>3 DEF OpenRoot, BookInv

\* The loader opens the media.
LEMMA LoadOpensInv ==
  ASSUME BookInv, NEW opens, LoadOpens(opens) PROVE BookInv'
<1>1. FsInv'
  BY DEF LoadOpens, BookInv, FsInv, fsVars
<1>2. load = "media" /\ root \in Directories
  BY DEF LoadOpens, BookInv, LoadInv
<1>3. \A r \in Requests : media'[r] = media[r] /\ handle'[r] = handle[r]
  BY BookAssumption DEF LoadOpens, BookInv
<1>4. CASE opens /\ MediaFile # None
  <2>1. /\ handle' = [handle EXCEPT ![Loader] = MediaFile]
        /\ load' = "inspect" /\ root' = root
    BY <1>4 DEF LoadOpens
  <2>2. MediaFile \in Openable(root) /\ MediaFile = entry[root] /\ MediaFile \in AllEntries
    BY <1>2, <1>4, MediaFileFacts, EntryFacts DEF BookInv
  <2>3. handle'[Loader] = MediaFile /\ handle' \in [Requests \cup {Loader} -> AllEntries \cup {None}]
    BY <2>1, <2>2 DEF BookInv
  <2>4. LoadInv'
    BY <1>2, <2>1, <2>2, <2>3 DEF LoadOpens, LoadInv, Loading, Loaded, fsVars, Openable
  <2>5. \A r \in Requests : RequestInv(r)'
    BY <1>2, <1>3 DEF LoadOpens, BookInv, RequestInv, Loaded
  <2>6. QED
    BY <1>1, <2>3, <2>4, <2>5 DEF LoadOpens, BookInv
<1>5. CASE ~(opens /\ MediaFile # None)
  <2>1. load' = "failed" /\ root' = None /\ handle' = handle
    BY <1>5 DEF LoadOpens, Refuse
  <2>2. LoadInv'
    BY <1>2, <2>1 DEF LoadOpens, BookInv, LoadInv, Loading, Loaded, fsVars
  <2>3. \A r \in Requests : RequestInv(r)'
    BY <1>2, <2>1 DEF LoadOpens, BookInv, RequestInv, Loaded
  <2>4. QED
    BY <1>1, <2>1, <2>2, <2>3 DEF LoadOpens, BookInv
<1>6. QED
  BY <1>4, <1>5

\* The loader inspects the media and closes it: what it accepts may be played.
LEMMA LoadInspectsInv ==
  ASSUME BookInv, NEW stats, LoadInspects(stats) PROVE BookInv'
<1>1. FsInv'
  BY DEF LoadInspects, BookInv, FsInv, fsVars
<1>2. /\ load = "inspect" /\ root \in Directories
      /\ handle[Loader] \in Openable(root)
      /\ ~changed => handle[Loader] = entry[root]
  BY DEF LoadInspects, BookInv, LoadInv
<1>3. /\ \A r \in Requests : media'[r] = media[r] /\ handle'[r] = handle[r]
      /\ handle'[Loader] = None
      /\ handle' \in [Requests \cup {Loader} -> AllEntries \cup {None}]
  BY BookAssumption DEF LoadInspects, BookInv
<1>4. \A r \in Requests : media[r].pc = "idle" /\ handle[r] = None
  BY <1>2 DEF BookInv, RequestInv, Loaded, Handling
<1>5. \A r \in Requests : RequestInv(r)'
  BY <1>3, <1>4 DEF RequestInv, Handling
<1>6. LoadInv'
  <2>1. CASE stats /\ handle[Loader].kind = "regular"
    <3>1. load' = "loaded" /\ validated' = handle[Loader] /\ root' = root /\ entry' = entry /\ changed' = changed
      BY <2>1 DEF LoadInspects, fsVars
    <3>2. validated' \in Playable(root) /\ validated'.dir = root
      BY <1>2, <2>1, <3>1, EntryFacts
    <3>3. QED
      BY <1>2, <1>3, <3>1, <3>2 DEF LoadInv, Loading, Loaded, Playable
  <2>2. CASE ~(stats /\ handle[Loader].kind = "regular")
    BY <1>3, <2>2 DEF LoadInspects, Refuse, LoadInv, Loading, Loaded
  <2>3. QED
    BY <2>1, <2>2
<1>7. QED
  BY <1>1, <1>3, <1>5, <1>6 DEF LoadInspects, BookInv

\* The book is released: handlers keep the files they have open.
LEMMA CloseBookInv == ASSUME BookInv, CloseBook PROVE BookInv'
<1>1. FsInv'
  BY DEF CloseBook, BookInv, FsInv, fsVars
<1>2. LoadInv'
  BY DEF CloseBook, BookInv, LoadInv, Loading, Loaded, Playable, fsVars
<1>3. \A r \in Requests : RequestInv(r)'
  BY DEF CloseBook, BookInv, RequestInv, Loaded, Openable
<1>4. QED
  BY <1>1, <1>2, <1>3 DEF CloseBook, BookInv

-----------------------------------------------------------------------------
(* Steps of the handler                                                    *)

\* What a handler does leaves the loader, the directory and other requests alone:
\* only what it does to its own request has to be looked at.
LEMMA HandlerFrame ==
  ASSUME BookInv, NEW r \in Requests, UNCHANGED <<fsVars, load, root, validated, changed>>,
         NEW file \in AllEntries \cup {None}, handle' = [handle EXCEPT ![r] = file],
         NEW m \in Responses,
         media' = [media EXCEPT ![r] = m],
         RequestInv(r)'
  PROVE  BookInv'
<1>1. FsInv'
  BY DEF BookInv, FsInv, fsVars
<1>2. handle'[Loader] = handle[Loader]
  BY BookAssumption DEF BookInv
<1>3. LoadInv'
  BY <1>2 DEF BookInv, LoadInv, fsVars
<1>4. /\ handle' \in [Requests \cup {Loader} -> AllEntries \cup {None}]
      /\ media' \in [Requests -> Responses]
  BY DEF BookInv
<1>5. ASSUME NEW q \in Requests, q # r PROVE RequestInv(q)'
  <2>1. handle'[q] = handle[q] /\ media'[q] = media[q]
    BY <1>5 DEF BookInv
  <2>2. QED
    BY <2>1 DEF BookInv, RequestInv
<1>6. QED
  BY <1>1, <1>3, <1>4, <1>5 DEF BookInv

\* The request is answered with 500, and the file, if there is one, closed.
LEMMA UnavailableInv ==
  ASSUME BookInv, NEW r \in Requests, NEW works \in BOOLEAN,
         UNCHANGED <<fsVars, load, root, validated, changed>>,
         load \in Loaded,
         handle' = [handle EXCEPT ![r] = None], Unavailable(r, works),
         ~works \/ changed \/ load = "closed"
  PROVE  BookInv'
<1> DEFINE pc == "done"
           status == 500
           fault == ~works
           m == [media[r] EXCEPT !.pc = pc, !.status = status, !.fault = fault]
<1>1. m \in Responses /\ m.pc = "done" /\ (m.fault \/ works)
  <2>1. media[r] \in Responses
    BY DEF BookInv
  <2>2. status \in Statuses
    BY DEF Statuses
  <2>3. fault \in BOOLEAN /\ (fault \/ works)
    OBVIOUS
  <2>4. pc = "done"
    OBVIOUS
  <2>5. pc \in {"idle", "done"} \cup Handling
    OBVIOUS
  <2> HIDE DEF pc, status, fault
  <2>6. m \in Responses
    BY <2>1, <2>2, <2>3, <2>5 DEF Responses
  <2>7. m.pc = pc /\ m.fault = fault
    BY <2>1 DEF Responses
  <2> HIDE DEF m
  <2>8. QED
    BY <2>3, <2>4, <2>6, <2>7
<1>2. media' = [media EXCEPT ![r] = m]
  BY DEF Unavailable
<1> HIDE DEF m
<1>3. media'[r] = m /\ handle'[r] = None
  BY <1>2 DEF BookInv
<1>4. RequestInv(r)'
  BY <1>1, <1>3 DEF RequestInv, Handling
<1>5. QED
  BY <1>1, <1>2, <1>4, HandlerFrame

\* A request passes on to another step of its handler.
LEMMA GoesFacts ==
  ASSUME BookInv, NEW r \in Requests, NEW pc \in Handling, Goes(r, pc)
  PROVE  /\ media'[r].pc = pc
         /\ \E m \in Responses :
              media' = [media EXCEPT ![r] = m]
<1> DEFINE m == [media[r] EXCEPT !.pc = pc]
<1>1. media \in [Requests -> Responses]
  BY DEF BookInv
<1>2. m \in Responses /\ m.pc = pc
  BY <1>1 DEF Responses
<1>3. media' = [media EXCEPT ![r] = m]
  BY DEF Goes
<1> HIDE DEF m
<1>4. media'[r] = m
  BY <1>1, <1>3
<1>5. QED
  BY <1>2, <1>3, <1>4

\* The handler opens the media below the root, which after a load that succeeded
\* fails only for a fault, a change or the release of the book.
LEMMA OpenMediaInv ==
  ASSUME BookInv, NEW r \in Requests, NEW works \in BOOLEAN, OpenMedia(r, works) PROVE BookInv'
<1>1. /\ load \in Loaded /\ media[r].pc = "idle"
      /\ UNCHANGED <<fsVars, load, root, validated, changed>>
  BY DEF OpenMedia, Loaded
<1>2. handle[r] = None
  BY <1>1 DEF BookInv, RequestInv, Handling
<1>3. CASE works /\ MediaFile # None
  <2>1. handle' = [handle EXCEPT ![r] = MediaFile] /\ Goes(r, "inspect")
    BY <1>3 DEF OpenMedia, Holds
  <2>2. load = "loaded" /\ root \in Directories /\ validated.dir = root
        /\ (~changed => validated = entry[root])
    BY <1>1, <1>3 DEF BookInv, LoadInv, Loaded, MediaFile
  <2>3. MediaFile \in Openable(root) /\ MediaFile = entry[root] /\ MediaFile \in AllEntries
    BY <1>3, <2>2, MediaFileFacts, EntryFacts DEF BookInv
  <2>4. handle'[r] = MediaFile /\ media'[r].pc = "inspect"
    BY <2>1, GoesFacts DEF BookInv, Handling
  <2>5. RequestInv(r)'
    BY <1>1, <2>2, <2>3, <2>4 DEF RequestInv, Handling, Openable
  <2>6. PICK m \in Responses : media' = [media EXCEPT ![r] = m]
    BY <2>1, GoesFacts DEF Handling
  <2>7. QED
    BY <1>1, <2>1, <2>3, <2>5, <2>6, HandlerFrame
<1>4. CASE ~(works /\ MediaFile # None)
  <2>1. handle' = handle /\ Unavailable(r, works)
    BY <1>4 DEF OpenMedia
  <2>2. handle' = [handle EXCEPT ![r] = None]
    BY <1>2, <2>1 DEF BookInv
  <2>3. ASSUME works, ~changed, load = "loaded" PROVE FALSE
    <3>1. root \in Directories /\ entry[root] \in Playable(root)
      BY <2>3 DEF BookInv, LoadInv, Loaded
    <3>2. QED
      BY <1>4, <2>3, <3>1, MediaFileFacts DEF BookInv
  <2>4. QED
    BY <1>1, <2>1, <2>2, <2>3, UnavailableInv DEF Loaded
<1>5. QED
  BY <1>3, <1>4

\* The handler inspects what it opened.
LEMMA InspectMediaInv ==
  ASSUME BookInv, NEW r \in Requests, NEW works \in BOOLEAN, InspectMedia(r, works) PROVE BookInv'
<1>1. media[r].pc = "inspect" /\ UNCHANGED <<fsVars, load, root, validated, changed>>
  BY DEF InspectMedia
<1>2. /\ load \in Loaded
      /\ handle[r] \in Openable(validated.dir)
      /\ ~changed => handle[r] = validated
      /\ validated.dir \in Directories /\ validated \in Playable(validated.dir)
  BY <1>1 DEF BookInv, LoadInv, RequestInv, Handling
<1>3. CASE works /\ handle[r].kind = "regular"
  <2>1. handle' = handle /\ Goes(r, "prepare")
    BY <1>3 DEF InspectMedia
  <2>2. handle' = [handle EXCEPT ![r] = handle[r]] /\ handle[r] \in AllEntries
    BY <1>2, <2>1, EntryFacts DEF BookInv
  <2>3. media'[r].pc = "prepare"
    BY <2>1, GoesFacts DEF Handling
  <2>4. RequestInv(r)'
    BY <1>1, <1>2, <1>3, <2>1, <2>3 DEF RequestInv, Handling, Openable
  <2>5. PICK m \in Responses : media' = [media EXCEPT ![r] = m]
    BY <2>1, GoesFacts DEF Handling
  <2>6. QED
    BY <1>1, <2>1, <2>2, <2>4, <2>5, HandlerFrame
<1>4. CASE ~(works /\ handle[r].kind = "regular")
  <2>1. handle' = [handle EXCEPT ![r] = None] /\ Unavailable(r, works)
    BY <1>4 DEF InspectMedia, Holds
  <2>2. ~works \/ changed
    BY <1>2, <1>4 DEF Playable
  <2>3. QED
    BY <1>1, <1>2, <2>1, <2>2, UnavailableInv
<1>5. QED
  BY <1>3, <1>4

\* The handler asks for the time of modification.
LEMMA PrepareMediaInv ==
  ASSUME BookInv, NEW r \in Requests, NEW works \in BOOLEAN, PrepareMedia(r, works) PROVE BookInv'
<1>1. media[r].pc = "prepare" /\ UNCHANGED <<fsVars, load, root, validated, changed>>
  BY DEF PrepareMedia
<1>2. /\ load \in Loaded
      /\ handle[r] \in Openable(validated.dir) /\ handle[r].kind = "regular"
      /\ ~changed => handle[r] = validated
      /\ validated.dir \in Directories
  BY <1>1 DEF BookInv, LoadInv, RequestInv, Handling
<1>3. CASE works
  <2>1. handle' = handle /\ Goes(r, "serve")
    BY <1>3 DEF PrepareMedia
  <2>2. handle' = [handle EXCEPT ![r] = handle[r]] /\ handle[r] \in AllEntries
    BY <1>2, <2>1, EntryFacts DEF BookInv
  <2>3. media'[r].pc = "serve"
    BY <2>1, GoesFacts DEF Handling
  <2>4. RequestInv(r)'
    BY <1>1, <1>2, <2>1, <2>3 DEF RequestInv, Handling, Openable
  <2>5. PICK m \in Responses : media' = [media EXCEPT ![r] = m]
    BY <2>1, GoesFacts DEF Handling
  <2>6. QED
    BY <1>1, <2>1, <2>2, <2>4, <2>5, HandlerFrame
<1>4. CASE ~works
  BY <1>1, <1>2, <1>4, UnavailableInv DEF PrepareMedia, Holds
<1>5. QED
  BY <1>3, <1>4

\* The handler returns from serving and closes its file.
LEMMA ServeMediaInv ==
  ASSUME BookInv, NEW r \in Requests, ServeMedia(r)
  PROVE  BookInv' /\ media'[r].pc = "done"
<1> DEFINE m == [media[r] EXCEPT !.pc = "done", !.status = 200]
<1>1. m \in Responses /\ m.pc = "done" /\ m.status = 200
  <2>1. media[r] \in Responses
    BY DEF BookInv
  <2>2. 200 \in Statuses
    BY DEF Statuses
  <2>3. QED
    BY <2>1, <2>2 DEF Responses
<1>2. media' = [media EXCEPT ![r] = m] /\ handle' = [handle EXCEPT ![r] = None]
      /\ UNCHANGED <<fsVars, load, root, validated, changed>>
  BY DEF ServeMedia, Holds
<1>3. load \in Loaded
  BY DEF ServeMedia, BookInv, RequestInv
<1> HIDE DEF m
<1>4. media'[r] = m /\ handle'[r] = None
  BY <1>2 DEF BookInv
<1>5. RequestInv(r)'
  BY <1>1, <1>2, <1>3, <1>4 DEF RequestInv, Handling
<1>6. QED
  BY <1>1, <1>2, <1>4, <1>5, HandlerFrame

\* The player asks for the rest: a new request.
LEMMA AskBookInv ==
  ASSUME BookInv, NEW r \in Requests, Ask(r) PROVE BookInv' /\ media'[r].pc = "idle"
<1>1. media[r].pc = "done" /\ media' = [media EXCEPT ![r] = Idle] /\ handle' = handle
      /\ UNCHANGED <<fsVars, load, root, validated, changed>>
  BY DEF Ask
<1>2. handle[r] = None
  BY <1>1 DEF BookInv, RequestInv, Handling
<1>3. handle' = [handle EXCEPT ![r] = None]
  BY <1>1, <1>2 DEF BookInv
<1>4. Idle \in Responses
      /\ Idle.pc = "idle"
  BY DEF Idle, Responses, Statuses
<1>5. media'[r] = Idle
  BY <1>1 DEF BookInv
<1>6. RequestInv(r)'
  BY <1>1, <1>2, <1>4, <1>5 DEF RequestInv, Handling
<1>7. QED
  BY <1>1, <1>3, <1>4, <1>5, <1>6, HandlerFrame

-----------------------------------------------------------------------------
(* Steps of the operator                                                   *)

\* The media is replaced: in the directory of the root that is a change, and
\* elsewhere nobody looks.
LEMMA ReplaceInv ==
  ASSUME BookInv, NEW d \in Directories, NEW e \in Entries(d), Replace(d, e) PROVE BookInv'
<1>1. /\ entry' = [entry EXCEPT ![d] = e]
      /\ changed' = (changed \/ d = root)
      /\ UNCHANGED <<current, load, root, handle, media, validated>>
  BY DEF Replace
<1>2. e \in AllEntries
  BY DEF AllEntries
<1>3. FsInv'
  BY <1>1, <1>2 DEF BookInv, FsInv
<1>4. ~changed' /\ root \in Directories => ~changed /\ entry'[root] = entry[root]
  <2>1. ~changed' => ~changed /\ d # root
    BY <1>1
  <2>2. root \in Directories /\ d # root => entry'[root] = entry[root]
    BY <1>1 DEF BookInv, FsInv
  <2>3. QED
    BY <2>1, <2>2
<1>5. LoadInv'
  BY <1>1, <1>4 DEF BookInv, LoadInv, Loaded
<1>6. \A r \in Requests : RequestInv(r)'
  BY <1>1 DEF BookInv, RequestInv
<1>7. QED
  BY <1>1, <1>3, <1>5, <1>6 DEF BookInv

\* The path leads elsewhere: the root does not.
LEMMA RedirectInv == ASSUME BookInv, NEW d \in Directories, Redirect(d) PROVE BookInv'
BY DEF Redirect, BookInv, FsInv, LoadInv, RequestInv

\* Every step of the book and its handlers preserves the invariant.
LEMMA BookStepInv == ASSUME BookInv, BookStep PROVE BookInv'
BY ReadDescriptorInv, OpenRootInv, LoadOpensInv, LoadInspectsInv, CloseBookInv, OpenMediaInv,
   InspectMediaInv, PrepareMediaInv, ReplaceInv, RedirectInv DEF BookStep

-----------------------------------------------------------------------------
(* Downloads                                                               *)

\* What is under way goes on after what was taken: a chunk that is written
\* continues both, and one that is taken moves from the one to the other.
LEMMA WrittenAfter ==
  ASSUME NEW S, NEW s \in Seq(S), NEW t \in Seq(S), NEW e \in S
  PROVE  s \o Append(t, e) = Append(s \o t, e)
<1>1. s \o t \in Seq(S) /\ <<e>> \in Seq(S)
  BY ConcatProperties
<1>2. Append(t, e) = t \o <<e>> /\ Append(s \o t, e) = (s \o t) \o <<e>>
  BY <1>1, AppendIsConcat
<1>3. QED
  BY <1>1, <1>2, ConcatAssociative

\* The next of what is under way is taken.
LEMMA TakenNext ==
  ASSUME NEW S, NEW s \in Seq(S), NEW t \in Seq(S), t # <<>>
  PROVE  Append(s, Head(t)) \o Tail(t) = s \o t
<1>1. Head(t) \in S /\ Tail(t) \in Seq(S) /\ <<Head(t)>> \in Seq(S)
  BY HeadTailProperties
<1>2. <<Head(t)>> \o Tail(t) = t
  <2> DEFINE h == <<Head(t)>>
             u == Tail(t)
  <2>1. /\ h \in Seq(S) /\ Len(h) = 1 /\ h[1] = t[1]
        /\ Len(t) \in Nat \ {0}
    BY <1>1, EmptySeq
  <2>2. u \in Seq(S) /\ Len(u) = Len(t) - 1 /\ \A i \in 1..Len(u) : u[i] = t[i + 1]
    BY HeadTailProperties
  <2> HIDE DEF h, u
  <2>3. /\ h \o u \in Seq(S) /\ Len(h \o u) = Len(h) + Len(u)
        /\ \A i \in 1..(Len(h) + Len(u)) : (h \o u)[i] = IF i <= Len(h) THEN h[i] ELSE u[i - Len(h)]
    BY <2>1, <2>2, ConcatProperties
  <2>4. Len(h \o u) = Len(t)
    BY <2>1, <2>2, <2>3
  <2>5. ASSUME NEW i \in 1..Len(t) PROVE (h \o u)[i] = t[i]
    <3>1. CASE i = 1
      BY <2>1, <2>2, <2>3, <3>1
    <3>2. CASE i # 1
      <4>1. i - 1 \in 1..Len(u) /\ (i - 1) + 1 = i /\ i \in 1..(Len(h) + Len(u)) /\ ~(i <= Len(h))
        BY <2>1, <2>2, <3>2
      <4>2. QED
        BY <2>1, <2>2, <2>3, <4>1
    <3>3. QED
      BY <3>1, <3>2
  <2>6. h \o u = t
    BY <2>3, <2>4, <2>5, SeqEqual
  <2>7. QED
    BY <2>6 DEF h, u
<1>3. Append(s, Head(t)) = s \o <<Head(t)>>
  BY <1>1, AppendIsConcat
<1>4. QED
  BY <1>1, <1>2, <1>3, ConcatAssociative

\* What is taken is a beginning of what was sent.
LEMMA IntactTaken ==
  ASSUME NEW s \in Seq(Chunk), NEW t \in Seq(Chunk), Intact(s \o t), Length \in Nat
  PROVE  Intact(s)
<1>1. Len(s \o t) = Len(s) + Len(t) /\ Len(s) \in Nat /\ Len(t) \in Nat
  BY ConcatProperties, LenProperties
<1>2. \A i \in 1..Len(s) : (s \o t)[i] = s[i]
  BY <1>1, ConcatProperties
<1>3. QED
  BY <1>1, <1>2 DEF Intact

\* One more chunk of a file that may be played.
LEMMA IntactMore ==
  ASSUME NEW s, Intact(s), Len(s) < Length, Length \in Nat,
         NEW file \in Playable(validated.dir), validated.dir \in Directories,
         ~changed => file = validated
  PROVE  LET c == [file |-> file, at |-> Len(s) + 1] IN c \in Chunk /\ Intact(Append(s, c))
<1> DEFINE c == [file |-> file, at |-> Len(s) + 1]
           u == Append(s, c)
<1>1. s \in Seq(Chunk) /\ Len(s) \in Nat
  BY LenProperties DEF Intact
<1>2. c \in Chunk /\ c.file = file /\ c.at = Len(s) + 1
  <2>1. file \in AllEntries
    BY EntryFacts
  <2>2. QED
    BY <1>1, <2>1 DEF Chunk
<1> HIDE DEF c
<1>3. /\ u \in Seq(Chunk) /\ Len(u) = Len(s) + 1
      /\ \A i \in 1..Len(s) : u[i] = s[i]
      /\ u[Len(s) + 1] = c
  BY <1>1, <1>2, AppendProperties
<1> HIDE DEF u
<1>4. \A i \in 1..Len(u) : i \in 1..Len(s) \/ i = Len(s) + 1
  BY <1>1, <1>3
<1>5. Intact(u)
  BY <1>1, <1>2, <1>3, <1>4 DEF Intact
<1>6. QED
  BY <1>2, <1>5 DEF c, u

\* Initially nothing was asked for.
LEMMA RouteInitInv == RouteInit => RouteInv
<1> SUFFICES ASSUME RouteInit PROVE RouteInv
  OBVIOUS
<1>1. BookInv /\ Init
  BY BookInitInv DEF RouteInit
<1>2. <<>> \in Seq(Chunk) /\ Len(<<>>) = 0 /\ <<>> \o <<>> = <<>>
  BY EmptySeq, ConcatEmptySeq
<1>3. NoDownload \in Downloads
  BY <1>2, RouteAssumption DEF NoDownload, Downloads
<1>4. \A r \in Requests : download[r] = NoDownload /\ media[r].pc = "idle"
  BY <1>1 DEF RouteInit, Init, Idle
<1>5. NoDownload.flight = <<>> /\ NoDownload.taken = <<>> /\ NoDownload.next = 1
  BY DEF NoDownload
<1>6. Intact(<<>>)
  BY <1>2, RouteAssumption DEF Intact
<1>7. ASSUME NEW r \in Requests PROVE DownloadInv(r)
  <2>1. Chunks(r) = <<>> /\ download[r].flight = <<>> /\ download[r].next = 1
    BY <1>2, <1>4, <1>5 DEF Chunks
  <2>2. Len(<<>>) <= Window
    BY <1>2, RouteAssumption
  <2>3. QED
    BY <1>2, <1>6, <2>1, <2>2 DEF DownloadInv
<1>8. QED
  BY <1>1, <1>3, <1>7 DEF RouteInv, RouteInit

\* What a step of the book, or of a request before it is served, leaves a
\* download to rely on.
Undisturbed ==
  /\ load \in Loaded => load' \in Loaded /\ validated' = validated
  /\ changed => changed'
  /\ \A r \in Requests : /\ media[r].pc = "done" => media'[r].pc = "done"
                         /\ media[r].pc = "serve" => media'[r].pc \in {"serve", "done"}

\* Each step of the book is such a step.
LEMMA BookStepUndisturbed == ASSUME BookInv, BookStep PROVE Undisturbed
<1>1. CASE \E d \in Descriptors, opens \in BOOLEAN : ReadDescriptor(d, opens)
  BY <1>1 DEF ReadDescriptor, Undisturbed, Loaded
<1>2. CASE \E works \in BOOLEAN : OpenRoot(works) \/ LoadOpens(works) \/ LoadInspects(works)
  BY <1>2 DEF OpenRoot, LoadOpens, LoadInspects, Refuse, Undisturbed, Loaded
<1>3. CASE CloseBook
  BY <1>3 DEF CloseBook, Undisturbed, Loaded
<1>4. CASE \E d \in Directories : Redirect(d) \/ \E e \in Entries(d) : Replace(d, e)
  <2>1. changed => changed'
    BY <1>4 DEF Redirect, Replace
  <2>2. UNCHANGED <<load, media, validated>>
    BY <1>4 DEF Redirect, Replace
  <2>3. QED
    BY <2>1, <2>2 DEF Undisturbed
<1>5. ASSUME NEW r \in Requests, NEW works \in BOOLEAN,
             OpenMedia(r, works) \/ InspectMedia(r, works) \/ PrepareMedia(r, works)
      PROVE  Undisturbed
  <2>1. media[r].pc \in {"idle", "inspect", "prepare"} /\ UNCHANGED <<load, validated, changed>>
    BY <1>5 DEF OpenMedia, InspectMedia, PrepareMedia
  <2>2. \A q \in Requests : q # r => media'[q] = media[q]
    BY <1>5 DEF BookInv, OpenMedia, InspectMedia, PrepareMedia, Goes, Unavailable
  <2>3. QED
    BY <2>1, <2>2 DEF Undisturbed
<1>6. QED
  BY <1>1, <1>2, <1>3, <1>4, <1>5 DEF BookStep

\* The book's steps leave downloads as they are, and what they say true.
LEMMA BookStepRoute == ASSUME RouteInv, BookStep, UNCHANGED download PROVE RouteInv'
<1>1. BookInv' /\ Undisturbed
  BY BookStepInv, BookStepUndisturbed DEF RouteInv
<1>2. ASSUME NEW r \in Requests PROVE DownloadInv(r)'
  <2>1. DownloadInv(r) /\ Chunks(r)' = Chunks(r)
    BY DEF RouteInv, Chunks
  <2>2. Intact(Chunks(r))'
    <3>1. CASE load \in Loaded
      BY <1>1, <2>1, <3>1 DEF DownloadInv, Intact, Undisturbed
    <3>2. CASE load \notin Loaded
      <4>1. Chunks(r) = <<>> /\ Intact(Chunks(r))
        BY <2>1, <3>2 DEF DownloadInv
      <4>2. Len(Chunks(r)) = 0
        BY <4>1
      <4>3. QED
        BY <2>1, <4>1, <4>2 DEF Intact
    <3>3. QED
      BY <3>1, <3>2
  <2>3. /\ media'[r].pc # "done" => media[r].pc # "done"
        /\ media'[r].pc \notin {"serve", "done"} => media[r].pc \notin {"serve", "done"}
        /\ load' \notin Loaded => load \notin Loaded
    BY <1>1 DEF Undisturbed
  <2>4. QED
    BY <2>1, <2>2, <2>3 DEF DownloadInv
<1>3. QED
  BY <1>1, <1>2 DEF RouteInv

\* A step of the response to one player: only its download has to be looked at.
LEMMA StreamFrame ==
  ASSUME RouteInv, BookInv', NEW r \in Requests, UNCHANGED <<load, validated, changed>>,
         NEW d \in Downloads, download' = [download EXCEPT ![r] = d],
         \A q \in Requests : q # r => media'[q] = media[q],
         load \in Loaded, Intact(d.taken \o d.flight), Len(d.flight) <= Window,
         media'[r].pc # "done" => d.next = Len(d.taken \o d.flight) + 1,
         media'[r].pc \notin {"serve", "done"} => d.flight = <<>>
  PROVE  RouteInv'
<1>1. download' \in [Requests -> Downloads]
  BY DEF RouteInv
<1>2. download'[r] = d /\ Chunks(r)' = d.taken \o d.flight
  BY DEF RouteInv, Chunks
<1>3. DownloadInv(r)'
  BY <1>2 DEF DownloadInv, Intact
<1>4. ASSUME NEW q \in Requests, q # r PROVE DownloadInv(q)'
  <2>1. download'[q] = download[q] /\ Chunks(q)' = Chunks(q) /\ media'[q] = media[q]
    BY <1>4 DEF RouteInv, Chunks
  <2>2. DownloadInv(q)
    BY DEF RouteInv
  <2>3. QED
    BY <2>1, <2>2 DEF DownloadInv, Intact
<1>5. QED
  BY <1>1, <1>3, <1>4 DEF RouteInv

\* What is the case while a request is being served.
LEMMA ServingFacts ==
  ASSUME RouteInv, NEW r \in Requests, media[r].pc = "serve"
  PROVE  /\ load \in Loaded /\ validated.dir \in Directories
         /\ handle[r] \in Playable(validated.dir)
         /\ ~changed => handle[r] = validated
         /\ DownloadInv(r)
         /\ download[r] \in Downloads
         /\ download[r].next = Len(Chunks(r)) + 1
<1>1. load \in Loaded /\ validated.dir \in Directories
  BY DEF RouteInv, BookInv, LoadInv, RequestInv
<1>2. handle[r] \in Openable(validated.dir) /\ handle[r].kind = "regular" /\ (~changed => handle[r] = validated)
  BY DEF RouteInv, BookInv, RequestInv, Handling
<1>3. DownloadInv(r) /\ download[r] \in Downloads
  BY DEF RouteInv
<1>4. QED
  BY <1>1, <1>2, <1>3, EntryFacts DEF DownloadInv

\* The handler writes the next chunk of the file it has open.
LEMMA WriteInv == ASSUME RouteInv, NEW r \in Requests, Write(r) PROVE RouteInv'
<1> DEFINE c == [file |-> handle[r], at |-> download[r].next]
           s == download[r].taken
           t == download[r].flight
           d == [download[r] EXCEPT !.next = download[r].next + 1, !.flight = Append(download[r].flight, c)]
<1>1. /\ media[r].pc = "serve" /\ download[r].next <= Length /\ Len(t) < Window
      /\ UNCHANGED vars
      /\ download' = [download EXCEPT ![r] = d]
  <2>1. download' = [download EXCEPT ![r].next = download[r].next + 1, ![r].flight = Append(download[r].flight, c)]
    BY DEF Write, RouteInv
  <2>2. /\ media[r].pc = "serve" /\ download[r].next <= Length /\ Len(t) < Window
        /\ UNCHANGED vars
    <3>1. download[r].next \in Nat /\ Length \in Nat
      BY RouteAssumption DEF RouteInv, Downloads
    <3>2. QED
      BY <3>1 DEF Write, CanWrite, Written, Room
  <2>3. QED
    BY <2>1, <2>2 DEF RouteInv
<1>2. /\ download[r] \in Downloads /\ s \in Seq(Chunk) /\ t \in Seq(Chunk)
      /\ download[r].next = Len(s \o t) + 1 /\ Intact(s \o t)
      /\ load \in Loaded /\ validated.dir \in Directories
      /\ handle[r] \in Playable(validated.dir) /\ (~changed => handle[r] = validated)
  BY <1>1, ServingFacts DEF DownloadInv, Chunks, Downloads
<1>3. s \o t \in Seq(Chunk)
  BY <1>2, ConcatProperties
<1> DEFINE w == s \o t
<1>4. /\ w \in Seq(Chunk) /\ Intact(w) /\ download[r].next = Len(w) + 1 /\ Len(w) \in Nat
      /\ Length \in Nat /\ Len(t) \in Nat /\ Window \in Nat
  BY <1>2, <1>3, RouteAssumption, LenProperties
<1> HIDE DEF w
<1>5. Len(w) < Length /\ download[r].next + 1 \in 1..(Length + 1)
  BY <1>1, <1>4
<1>6. c \in Chunk /\ Intact(Append(w, c))
  <2>1. c = [file |-> handle[r], at |-> Len(w) + 1]
    BY <1>4
  <2>2. QED
    BY <1>2, <1>4, <1>5, <2>1, IntactMore
<1> HIDE DEF c
<1>7. Append(t, c) \in Seq(Chunk) /\ Len(Append(t, c)) = Len(t) + 1 /\ Len(Append(w, c)) = Len(w) + 1
  BY <1>2, <1>4, <1>6, AppendProperties
<1>8. d \in Downloads /\ d.taken = s /\ d.flight = Append(t, c) /\ d.next = download[r].next + 1
  BY <1>2, <1>5, <1>7 DEF Downloads
<1> HIDE DEF d
<1>9. d.taken \o d.flight = Append(w, c)
  <2>1. s \in Seq(Chunk) /\ t \in Seq(Chunk) /\ c \in Chunk
    BY <1>2, <1>6
  <2> HIDE DEF s, t
  <2>2. s \o Append(t, c) = Append(s \o t, c)
    BY <2>1, WrittenAfter
  <2>3. QED
    BY <1>8, <2>2 DEF w
<1>10. d.next = Len(d.taken \o d.flight) + 1 /\ Len(d.flight) <= Window
  <2>1. Len(d.taken \o d.flight) = Len(w) + 1 /\ Len(d.flight) = Len(t) + 1 /\ d.next = Len(w) + 1 + 1
    BY <1>4, <1>7, <1>8, <1>9
  <2>2. QED
    BY <1>1, <1>4, <2>1
<1>11. BookInv' /\ media' = media /\ UNCHANGED <<load, validated, changed>>
  BY <1>1 DEF RouteInv, BookInv, FsInv, LoadInv, RequestInv, vars, fsVars
<1>12. QED
  BY <1>1, <1>2, <1>6, <1>8, <1>9, <1>10, <1>11, StreamFrame

\* The handler has written everything and returns.
LEMMA EndServeInv == ASSUME RouteInv, NEW r \in Requests, EndServe(r) PROVE RouteInv'
<1>1. ServeMedia(r) /\ download' = download /\ media[r].pc = "serve"
  BY DEF EndServe, ServeMedia
<1>2. BookInv' /\ media'[r].pc = "done"
  BY <1>1, ServeMediaInv DEF RouteInv
<1>3. UNCHANGED <<load, validated, changed>> /\ \A q \in Requests : q # r => media'[q] = media[q]
  BY <1>1 DEF ServeMedia, RouteInv, BookInv
<1>4. download[r] \in Downloads /\ download' = [download EXCEPT ![r] = download[r]]
  BY <1>1 DEF RouteInv
<1>5. QED
  BY <1>1, <1>2, <1>3, <1>4, ServingFacts, StreamFrame DEF DownloadInv, Chunks

\* The deadline cuts the download off: what was taken remains.
LEMMA CutInv == ASSUME RouteInv, NEW r \in Requests, Cut(r) PROVE RouteInv'
<1> DEFINE d == [download[r] EXCEPT !.flight = <<>>]
<1>1. ServeMedia(r) /\ download' = [download EXCEPT ![r] = d] /\ media[r].pc = "serve"
  BY DEF Cut, ServeMedia
<1>2. BookInv' /\ media'[r].pc = "done"
  BY <1>1, ServeMediaInv DEF RouteInv
<1>3. UNCHANGED <<load, validated, changed>> /\ \A q \in Requests : q # r => media'[q] = media[q]
  BY <1>1 DEF ServeMedia, RouteInv, BookInv
<1>4. /\ download[r].taken \in Seq(Chunk) /\ download[r].flight \in Seq(Chunk)
      /\ download[r] \in Downloads /\ Intact(download[r].taken \o download[r].flight)
      /\ load \in Loaded
  BY <1>1, ServingFacts DEF DownloadInv, Chunks, Downloads
<1>5. d \in Downloads /\ d.taken = download[r].taken /\ d.flight = <<>>
  BY <1>4, EmptySeq DEF Downloads
<1> HIDE DEF d
<1>6. d.taken \o d.flight = download[r].taken /\ Len(d.flight) <= Window
  BY <1>4, <1>5, ConcatEmptySeq, RouteAssumption
<1>7. Intact(d.taken \o d.flight)
  BY <1>4, <1>6, IntactTaken, RouteAssumption
<1>8. QED
  BY <1>1, <1>2, <1>3, <1>4, <1>5, <1>6, <1>7, StreamFrame

\* A tick: what the player takes was the next of what was under way.
LEMMA TickInv ==
  ASSUME RouteInv, NEW r \in Requests, NEW takes \in BOOLEAN, Tick(r, takes) PROVE RouteInv'
<1> DEFINE s == download[r].taken
           t == download[r].flight
           e == IF download[r].elapsed < WriteTimeout THEN download[r].elapsed + 1 ELSE download[r].elapsed
           u == IF takes THEN Append(s, Head(t)) ELSE s
           v == IF takes THEN Tail(t) ELSE t
           b == download[r].steady /\ takes
           d == [download[r] EXCEPT !.elapsed = e, !.flight = v, !.taken = u, !.steady = b]
<1>1. t # <<>> /\ UNCHANGED vars /\ download' = [download EXCEPT ![r] = d]
  BY DEF Tick
<1>2. /\ download[r] \in Downloads /\ DownloadInv(r)
      /\ s \in Seq(Chunk) /\ t \in Seq(Chunk)
  BY DEF RouteInv, Downloads
<1>3. e \in 0..WriteTimeout /\ b \in BOOLEAN
  BY <1>2, RouteAssumption DEF Downloads
<1>4. u \in Seq(Chunk) /\ v \in Seq(Chunk) /\ u \o v = s \o t /\ Len(v) <= Window /\ (t = <<>> => v = <<>>)
  <2>1. CASE takes
    <3>1. Head(t) \in Chunk /\ Tail(t) \in Seq(Chunk) /\ Len(Tail(t)) = Len(t) - 1
      BY <1>1, <1>2, HeadTailProperties
    <3>2. Append(s, Head(t)) \in Seq(Chunk) /\ Append(s, Head(t)) \o Tail(t) = s \o t
      BY <1>1, <1>2, <3>1, AppendProperties, TakenNext
    <3>3. Len(t) \in Nat /\ Len(t) <= Window /\ Window \in Nat
      BY <1>2, RouteAssumption, LenProperties DEF DownloadInv
    <3>4. u = Append(s, Head(t)) /\ v = Tail(t)
      BY <2>1
    <3>5. Len(Tail(t)) <= Window
      BY <3>1, <3>3
    <3>6. QED
      BY <1>1, <3>1, <3>2, <3>4, <3>5
  <2>2. CASE ~takes
    BY <1>2, <2>2 DEF DownloadInv
  <2>3. QED
    BY <2>1, <2>2
<1> HIDE DEF e, u, v, b
<1>5. /\ d \in Downloads /\ d.taken = u /\ d.flight = v /\ d.next = download[r].next
  BY <1>2, <1>3, <1>4 DEF Downloads
<1> HIDE DEF d
<1>6. BookInv' /\ media' = media /\ UNCHANGED <<load, validated, changed>>
  BY <1>1 DEF RouteInv, BookInv, FsInv, LoadInv, RequestInv, vars, fsVars
<1>7. load \in Loaded /\ media[r].pc \in {"serve", "done"}
  <2>1. Chunks(r) # <<>>
    BY <1>1, <1>2, ConcatEqualIffEmpty DEF Chunks
  <2>2. QED
    BY <1>1, <1>2, <2>1 DEF DownloadInv
<1>8. Intact(d.taken \o d.flight) /\ (media[r].pc # "done" => d.next = Len(d.taken \o d.flight) + 1)
  BY <1>2, <1>4, <1>5 DEF DownloadInv, Chunks
<1>9. QED
  BY <1>1, <1>4, <1>5, <1>6, <1>7, <1>8, StreamFrame

\* The player asks for what follows what it took.
LEMMA AskInv == ASSUME RouteInv, NEW r \in Requests, Ask(r) PROVE RouteInv'
<1> DEFINE s == download[r].taken
           d == [download[r] EXCEPT !.elapsed = 0, !.next = Len(s) + 1]
<1>1. /\ media[r].pc = "done" /\ download[r].flight = <<>> /\ Len(s) < Length
      /\ media' = [media EXCEPT ![r] = Idle]
      /\ UNCHANGED <<load, validated, changed>>
      /\ download' = [download EXCEPT ![r] = d]
  BY DEF Ask
<1>2. BookInv' /\ media'[r].pc = "idle"
  BY AskBookInv DEF RouteInv
<1>3. /\ download[r] \in Downloads /\ DownloadInv(r) /\ s \in Seq(Chunk)
      /\ Len(s) \in Nat
  BY LenProperties DEF RouteInv, Downloads
<1>4. load \in Loaded /\ \A q \in Requests : q # r => media'[q] = media[q]
  BY <1>1 DEF RouteInv, BookInv, RequestInv
<1>5. Len(s) + 1 \in 1..(Length + 1) /\ 0 \in 0..WriteTimeout
  BY <1>1, <1>3, RouteAssumption
<1>6. d \in Downloads /\ d.taken = s /\ d.flight = <<>> /\ d.next = Len(s) + 1
  BY <1>1, <1>3, <1>5 DEF Downloads
<1>7. Intact(s \o <<>>) /\ s \o <<>> = s /\ Len(<<>>) <= Window
  BY <1>1, <1>3, ConcatEmptySeq, RouteAssumption DEF DownloadInv, Chunks
<1> HIDE DEF d
<1>8. QED
  BY <1>1, <1>2, <1>4, <1>6, <1>7, StreamFrame

\* Every step preserves the invariant.
LEMMA RouteNextInv == RouteInv /\ [RouteNext]_routeVars => RouteInv'
<1> SUFFICES ASSUME RouteInv, [RouteNext]_routeVars PROVE RouteInv'
  OBVIOUS
<1>1. CASE BookStep /\ UNCHANGED download
  BY <1>1, BookStepRoute
<1>2. CASE \E r \in Requests : Stream(r)
  BY <1>2, WriteInv, EndServeInv, CutInv, AskInv, TickInv DEF Stream
<1>3. CASE UNCHANGED routeVars
  BY <1>3 DEF routeVars, vars, fsVars, RouteInv, BookInv, FsInv, LoadInv, RequestInv, DownloadInv, Chunks, Intact
<1>4. QED
  BY <1>1, <1>2, <1>3 DEF RouteNext

-----------------------------------------------------------------------------
(* Theorems                                                                *)

\* The invariant the properties rest on: what is open was found below the root
\* and inspected before it is sent, and a download is a beginning of the media.
THEOREM RouteInvariant == RouteSpec => []RouteInv
<1>1. QED
  BY RouteInitInv, RouteNextInv, PTL DEF RouteSpec

\* Downloads stay within the connection's window and the media.
THEOREM RouteTyped == RouteSpec => []RouteTypeOK
<1>1. RouteInv => RouteTypeOK
  <2> SUFFICES ASSUME RouteInv PROVE RouteTypeOK
    OBVIOUS
  <2>1. BookTypeOK
    BY DEF RouteInv, BookInv, FsInv, LoadInv, RequestInv, BookTypeOK, Playable, Handling, Loaded
  <2>2. ASSUME NEW r \in Requests
        PROVE  /\ download[r].elapsed \in 0..WriteTimeout
               /\ download[r].next \in 1..(Length + 1)
               /\ Len(download[r].flight) <= Window /\ Len(Chunks(r)) <= Length
    <3>1. download[r] \in Downloads /\ DownloadInv(r)
      BY DEF RouteInv
    <3>2. QED
      BY <3>1 DEF Downloads, DownloadInv, Intact
  <2>3. QED
    BY <2>1, <2>2 DEF RouteTypeOK
<1>2. QED
  BY <1>1, RouteInvariant, PTL

\* Whatever the operator does between the checks and the bytes, players get only
\* regular files of the directory that was opened at startup.
THEOREM OnlyConfinedServed == RouteSpec => []ServedIsConfined
<1>1. RouteInv => ServedIsConfined
  <2> SUFFICES ASSUME RouteInv, NEW r \in Requests, NEW i \in DOMAIN Chunks(r)
               PROVE  LET file == Chunks(r)[i].file
                      IN  file # None /\ file.kind = "regular" /\ file.dir = validated.dir
    BY DEF ServedIsConfined
  <2>1. DownloadInv(r)
    BY DEF RouteInv
  <2>2. i \in 1..Len(Chunks(r))
    BY <2>1, LenProperties DEF DownloadInv, Intact
  <2>3. Chunks(r)[i].file \in Playable(validated.dir)
    BY <2>1, <2>2 DEF DownloadInv, Intact
  <2>4. load \in Loaded
    <3>1. Len(<<>>) = 0
      OBVIOUS
    <3>2. Chunks(r) # <<>>
      BY <2>2, <3>1
    <3>3. QED
      BY <2>1, <3>2 DEF DownloadInv
  <2>5. validated.dir \in Directories
    BY <2>4 DEF RouteInv, BookInv, LoadInv
  <2>6. QED
    BY <2>3, <2>5, EntryFacts DEF Playable
<1>2. QED
  BY <1>1, RouteInvariant, PTL

\* A download put together from any number of ranges has no gap and no repetition,
\* and while the media is left alone it is what was validated; then no request
\* is refused without a fault.
THEOREM DownloadsAreValidated == RouteSpec => []ValidatedIsServed
<1>1. RouteInv => ValidatedIsServed
  <2> SUFFICES ASSUME RouteInv, NEW r \in Requests
               PROVE  /\ \A i \in DOMAIN Chunks(r) :
                           Chunks(r)[i].at = i /\ (~changed => Chunks(r)[i].file = validated)
                      /\ media[r].pc = "done" /\ ~changed /\ ~media[r].fault /\ load = "loaded"
                           => media[r].status = 200
    BY DEF ValidatedIsServed
  <2>1. DownloadInv(r) /\ RequestInv(r)
    BY DEF RouteInv, BookInv
  <2>2. DOMAIN Chunks(r) = 1..Len(Chunks(r))
    BY <2>1, LenProperties DEF DownloadInv, Intact
  <2>3. QED
    BY <2>1, <2>2 DEF DownloadInv, Intact, RequestInv
<1>2. QED
  BY <1>1, RouteInvariant, PTL

\* Every way out of the handler and of the loader closes what it opened.
THEOREM EveryHandleCloses == RouteSpec => []HandlesClosed
<1>1. RouteInv => HandlesClosed
  BY DEF RouteInv, BookInv, LoadInv, RequestInv, Handling, HandlesClosed
<1>2. QED
  BY <1>1, RouteInvariant, PTL

=============================================================================
