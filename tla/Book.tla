-------------------------------- MODULE Book --------------------------------
(***************************************************************************)
(* The book of book.go and the files the media route opens.  loadBook      *)
(* reads the descriptor, opens its directory and validates the media once; *)
(* every request then opens and inspects the media anew, below that        *)
(* directory.  Meanwhile the operator may replace the media, and point the *)
(* path of the directory elsewhere, between any two system calls.  Module  *)
(* MediaRoute adds what is sent from an open file.                         *)
(*                                                                         *)
(* Rewriting a file in place is not modelled: readers see it as it goes.   *)
(***************************************************************************)
EXTENDS Titles

CONSTANTS
  Requests,      \* GET /media/book.mp3
  Directories,   \* what the path of the descriptor's directory may lead to
  Versions,      \* regular files that may come to bear the media's name
  Descriptors,   \* descriptors an operator may write
  None           \* no file, no directory

VARIABLES
  current,     \* the directory the path leads to
  entry,       \* what the media's name leads to in each directory
  load,        \* how far loadBook is; "closed" once the book is released
  root,        \* the os.Root, by its directory
  handle,      \* the file each request, or the loader, holds open
  media,       \* each request
  validated,   \* the file loadBook found (for the properties)
  changed      \* the media changed since the root was opened (likewise)

fsVars == <<current, entry>>
vars == <<fsVars, load, root, handle, media, validated, changed>>

Loader == "loader"

ASSUME BookAssumption == None \notin Directories /\ Loader \notin Requests

\* A regular file, a directory, a symbolic link that leaves the directory.
Entries(d) ==
  [kind : {"regular"}, dir : {d}, version : Versions]
    \cup [kind : {"directory", "escape"}, dir : {d}] \cup {None}

Idle == [pc |-> "idle", status |-> 0, fault |-> FALSE]

\* Relative, without parent elements, local to its directory.
PathAllowed(mp3) == mp3 \notin {"blank", "absolute", "parent", "reserved"}

\* What loadBook asks of the descriptor before it looks at the directory:
\* exactly one JSON object with known members, and each of the three fields.
DescriptorValid(d) ==
  /\ d.json = "object"
  /\ TitleUsable(d.title)
  /\ d.author \in {"absent", "string"}
  /\ PathAllowed(d.mp3)

\* Deliberate mistake: the media is found by its path.
FileByPath == entry[current]

\* What root.Open finds: links are followed inside the directory only, and a
\* closed root finds nothing.
MediaFile == IF root # None /\ entry[root] # None /\ entry[root].kind # "escape"
             THEN entry[root] ELSE None

-----------------------------------------------------------------------------
(* loadBook                                                                *)

Init ==
  /\ current \in Directories
  /\ entry \in {e \in [Directories -> UNION {Entries(d) : d \in Directories}] :
                  \A d \in Directories : e[d] \in Entries(d)}
  /\ load = "descriptor"
  /\ root = None
  /\ handle = [p \in Requests \cup {Loader} |-> None]
  /\ media = [r \in Requests |-> Idle]
  /\ validated = None
  /\ changed = FALSE

\* The descriptor is read and checked, or cannot be opened.
ReadDescriptor(d, opens) ==
  /\ load = "descriptor"
  /\ load' = IF opens /\ DescriptorValid(d) THEN "root" ELSE "failed"
  /\ UNCHANGED <<fsVars, root, handle, media, validated, changed>>

OpenRoot(opens) ==
  /\ load = "root"
  /\ IF opens THEN load' = "media" /\ root' = current
     ELSE load' = "failed" /\ UNCHANGED root
  /\ UNCHANGED <<fsVars, handle, media, validated, changed>>

\* validateMedia failed: the root is closed.
Refuse == load' = "failed" /\ root' = None

\* openMedia of validateMedia: open.
LoadOpens(opens) ==
  /\ load = "media"
  /\ IF opens /\ MediaFile # None
     THEN /\ handle' = [handle EXCEPT ![Loader] = MediaFile]
          /\ load' = "inspect"
          /\ UNCHANGED root
     ELSE Refuse /\ UNCHANGED handle
  /\ UNCHANGED <<fsVars, media, validated, changed>>

\* Deliberate mistake: whatever opens is taken for media.
LoadInspectsAny(stats) ==
  /\ load = "inspect"
  /\ handle' = [handle EXCEPT ![Loader] = None]
  /\ IF stats THEN load' = "loaded" /\ validated' = handle[Loader] /\ UNCHANGED root
     ELSE Refuse /\ UNCHANGED validated
  /\ UNCHANGED <<fsVars, media, changed>>

\* Deliberate mistake: a book that is refused keeps its root.
LoadInspectsLeaking(stats) ==
  /\ load = "inspect"
  /\ handle' = [handle EXCEPT ![Loader] = None]
  /\ IF stats /\ handle[Loader].kind = "regular"
     THEN load' = "loaded" /\ validated' = handle[Loader]
     ELSE load' = "failed" /\ UNCHANGED validated
  /\ UNCHANGED <<fsVars, root, media, changed>>

\* openMedia of validateMedia: Stat, the file must be regular; it is closed.  The
\* step also fails when closing reports an error.
LoadInspects(stats) ==
  /\ load = "inspect"
  /\ handle' = [handle EXCEPT ![Loader] = None]
  /\ IF stats /\ handle[Loader].kind = "regular"
     THEN load' = "loaded" /\ validated' = handle[Loader] /\ UNCHANGED root
     ELSE Refuse /\ UNCHANGED validated
  /\ UNCHANGED <<fsVars, media, changed>>

\* The book is released, which may be under running handlers.
CloseBook ==
  /\ load = "loaded"
  /\ load' = "closed"
  /\ root' = None
  /\ UNCHANGED <<fsVars, handle, media, validated, changed>>

-----------------------------------------------------------------------------
(* handleMedia                                                             *)

Holds(r, file) == handle' = [handle EXCEPT ![r] = file]

Goes(r, pc) == media' = [media EXCEPT ![r].pc = pc]

\* 500, media unavailable: because of the file, or of a failing system call.
Unavailable(r, works) ==
  media' = [media EXCEPT ![r] = [@ EXCEPT !.pc = "done", !.status = 500, !.fault = ~works]]

\* openMedia: open.
OpenMedia(r, works) ==
  /\ load \in {"loaded", "closed"}
  /\ media[r].pc = "idle"
  /\ IF works /\ MediaFile # None
     THEN Holds(r, MediaFile) /\ Goes(r, "inspect")
     ELSE UNCHANGED handle /\ Unavailable(r, works)
  /\ UNCHANGED <<fsVars, load, root, validated, changed>>

\* Deliberate mistake: what is not a regular file stays open.
InspectMediaLeaking(r, works) ==
  /\ media[r].pc = "inspect"
  /\ UNCHANGED handle
  /\ IF works /\ handle[r].kind = "regular" THEN Goes(r, "prepare") ELSE Unavailable(r, works)
  /\ UNCHANGED <<fsVars, load, root, validated, changed>>

\* openMedia: Stat, and the file is closed unless it is regular.
InspectMedia(r, works) ==
  /\ media[r].pc = "inspect"
  /\ IF works /\ handle[r].kind = "regular"
     THEN UNCHANGED handle /\ Goes(r, "prepare")
     ELSE Holds(r, None) /\ Unavailable(r, works)
  /\ UNCHANGED <<fsVars, load, root, validated, changed>>

\* The second Stat, for the time of modification; the file is closed on return.
PrepareMedia(r, works) ==
  /\ media[r].pc = "prepare"
  /\ IF works THEN UNCHANGED handle /\ Goes(r, "serve")
     ELSE Holds(r, None) /\ Unavailable(r, works)
  /\ UNCHANGED <<fsVars, load, root, validated, changed>>

\* http.ServeContent has returned, and the file is closed.
ServeMedia(r) ==
  /\ media[r].pc = "serve"
  /\ media' = [media EXCEPT ![r] = [@ EXCEPT !.pc = "done", !.status = 200]]
  /\ Holds(r, None)
  /\ UNCHANGED <<fsVars, load, root, validated, changed>>

-----------------------------------------------------------------------------
(* The operator                                                            *)

\* Another entry bears the media's name, or none.
Replace(d, e) ==
  /\ e # entry[d]
  /\ entry' = [entry EXCEPT ![d] = e]
  /\ changed' = (changed \/ d = root)
  /\ UNCHANGED <<current, load, root, handle, media, validated>>

\* The path leads to another directory.
Redirect(d) ==
  /\ d # current
  /\ current' = d
  /\ UNCHANGED <<entry, load, root, handle, media, validated, changed>>

\* Everything but the serving of an open file.
BookStep ==
  \/ \E d \in Descriptors, opens \in BOOLEAN : ReadDescriptor(d, opens)
  \/ \E works \in BOOLEAN :
       \/ OpenRoot(works) \/ LoadOpens(works) \/ LoadInspects(works)
       \/ \E r \in Requests : OpenMedia(r, works) \/ InspectMedia(r, works) \/ PrepareMedia(r, works)
  \/ CloseBook
  \/ \E d \in Directories : Redirect(d) \/ \E e \in Entries(d) : Replace(d, e)

-----------------------------------------------------------------------------
(* Properties                                                              *)

\* The types; a book that was loaded had media to play.
BookTypeOK ==
  /\ current \in Directories
  /\ \A d \in Directories : entry[d] \in Entries(d)
  /\ root \in Directories \cup {None}
  /\ \A r \in Requests : media[r].pc \in {"idle", "inspect", "prepare", "serve", "done"}
  /\ load \in {"loaded", "closed"} => validated # None /\ validated.kind = "regular"

\* Every way out of the handler and of loadBook closes what it opened.
HandlesClosed ==
  /\ \A r \in Requests : media[r].pc = "done" => handle[r] = None
  /\ load \in {"failed", "loaded", "closed"} => handle[Loader] = None
  /\ load \in {"failed", "closed"} => root = None

=============================================================================
