------------------------------ MODULE Capture ------------------------------
(***************************************************************************)
(* The capture store of capture.go: each saved request is a body file and  *)
(* a JSON sidecar under one stem, made of the time of receipt and a random *)
(* suffix.  Saves run concurrently, one per request; any write may fail    *)
(* part way, any removal may fail, and the process may stop between any    *)
(* two system calls.                                                       *)
(***************************************************************************)
EXTENDS Naturals, Sequences

CONSTANTS
  Procs,      \* calls of Save
  Instants,   \* times of receipt, in nanoseconds
  Suffixes,   \* what four random bytes may be
  Absent      \* no file

VARIABLES
  disk,       \* the capture directory: stem and kind to a file
  save        \* the state of each call of Save

captureVars == <<disk, save>>

Stems == Instants \X Suffixes
Kinds == {"body", "sidecar"}

\* A file with its writer, and how much of the writer's bytes it holds.
File == [by : Procs, bytes : {"some", "all"}]

ASSUME AbsentAssumption == Absent \notin File

NoSave == [pc |-> "idle"]

\* Saves that are between two system calls.
Saving(p) == save[p].pc \in {"create", "write", "clean"}

-----------------------------------------------------------------------------
(* System calls                                                            *)

SetFile(p, file) == disk' = [disk EXCEPT ![save[p].stem][save[p].kind] = file]

MoveTo(p, pc) == save' = [save EXCEPT ![p].pc = pc]

Returns(p, ok) == save' = [save EXCEPT ![p] = [@ EXCEPT !.pc = "returned", !.ok = ok]]

\* Deliberate mistake: only the file that failed is removed.
ToCleanLast(kind) == <<kind>>

\* What removeCaptureFiles is called with when a write of this kind fails.
ToClean(kind) == IF kind = "body" THEN <<"body">> ELSE <<"body", "sidecar">>

\* The write of the current file failed: removal begins, the body first.
Fails(p) ==
  save' = [save EXCEPT ![p] = [@ EXCEPT !.pc = "clean", !.clean = ToClean(save[p].kind)]]

-----------------------------------------------------------------------------
(* Save                                                                    *)

CaptureInit ==
  /\ disk = [s \in Stems |-> [k \in Kinds |-> Absent]]
  /\ save = [p \in Procs |-> NoSave]

\* Four random bytes: that two requests received in the same nanosecond draw
\* different ones is an assumption on the random source.
FreshSuffixes(at) ==
  {x \in Suffixes : \A q \in Procs : save[q] # NoSave => save[q].stem # <<at, x>>}

\* Deliberate mistake: the suffix is left out of the stem.
BeginWithoutSuffix(p, at, suffix, prepared) ==
  /\ save[p] = NoSave
  /\ save' = [save EXCEPT ![p] =
                [pc |-> IF prepared THEN "create" ELSE "returned",
                 stem |-> <<at, CHOOSE x \in Suffixes : TRUE>>,
                 kind |-> "body", clean |-> <<>>, ok |-> FALSE, dirty |-> FALSE]]
  /\ UNCHANGED disk

\* Deliberate mistake: the sidecar is written first.
BeginWithSidecar(p, at, suffix, prepared) ==
  /\ save[p] = NoSave
  /\ suffix \in FreshSuffixes(at)
  /\ save' = [save EXCEPT ![p] =
                [pc |-> IF prepared THEN "create" ELSE "returned", stem |-> <<at, suffix>>,
                 kind |-> "sidecar", clean |-> <<>>, ok |-> FALSE, dirty |-> FALSE]]
  /\ UNCHANGED disk

\* Save is called, draws its stem and encodes the sidecar, before any file is
\* touched: without random bytes, or with headers that are not UTF-8, the call
\* ends here.
Begin(p, at, suffix, prepared) ==
  /\ save[p] = NoSave
  /\ suffix \in FreshSuffixes(at)
  /\ save' = [save EXCEPT ![p] =
                [pc |-> IF prepared THEN "create" ELSE "returned", stem |-> <<at, suffix>>,
                 kind |-> "body", clean |-> <<>>, ok |-> FALSE, dirty |-> FALSE]]
  /\ UNCHANGED disk

\* os.WriteFile opens the file, truncating what it may have held, or fails to.
Create(p) ==
  /\ save[p].pc = "create"
  /\ \/ SetFile(p, [by |-> p, bytes |-> "some"]) /\ MoveTo(p, "write")
     \/ UNCHANGED disk /\ Fails(p)

\* The bytes are written and the file closed: on to the sidecar, or done.
Complete(p) ==
  /\ save[p].pc = "write"
  /\ SetFile(p, [by |-> p, bytes |-> "all"])
  /\ IF save[p].kind = "body"
     THEN save' = [save EXCEPT ![p] = [@ EXCEPT !.pc = "create", !.kind = "sidecar"]]
     ELSE Returns(p, TRUE)

\* The write or the close fails, with some or all of the bytes in the file.
Break(p) ==
  /\ save[p].pc = "write"
  /\ \E bytes \in {"some", "all"} : SetFile(p, [by |-> p, bytes |-> bytes])
  /\ Fails(p)

\* One os.Remove of removeCaptureFiles.  Its failure is noted and the next file
\* is tried all the same; a file that is not there is no failure.
Clean(p) ==
  LET kind == Head(save[p].clean)
      rest == Tail(save[p].clean)
      moved(dirty) == [save EXCEPT ![p] = [@ EXCEPT !.clean = rest, !.dirty = save[p].dirty \/ dirty,
                                                    !.pc = IF rest = <<>> THEN "returned" ELSE "clean"]]
  IN /\ save[p].pc = "clean"
     /\ \/ /\ disk' = [disk EXCEPT ![save[p].stem][kind] = Absent]
           /\ save' = moved(FALSE)
        \/ /\ disk[save[p].stem][kind] # Absent
           /\ UNCHANGED disk
           /\ save' = moved(TRUE)

SaveStep(p) == Create(p) \/ Complete(p) \/ Break(p) \/ Clean(p)

-----------------------------------------------------------------------------
(* Properties                                                              *)

CaptureTypeOK ==
  /\ disk \in [Stems -> [Kinds -> File \cup {Absent}]]
  /\ \A p \in Procs : save[p] # NoSave =>
       /\ save[p].pc \in {"create", "write", "clean", "returned", "lost"}
       /\ save[p].stem \in Stems
       /\ save[p].pc = "clean" => save[p].clean # <<>>
       /\ save[p].ok => save[p].pc = "returned"

Whole(s) == \A k \in Kinds : disk[s][k] # Absent /\ disk[s][k].bytes = "all"
Gone(s) == \A k \in Kinds : disk[s][k] = Absent

\* A save that reported success left both files, complete and its own, and they
\* stay that way whatever other requests save, fail to save or clean up.
SavedStaysWhole ==
  \A p \in Procs : save[p] # NoSave /\ save[p].ok =>
    Whole(save[p].stem) /\ \A k \in Kinds : disk[save[p].stem][k].by = p

\* A save that reported an error left nothing behind, unless a removal failed as
\* well: no orphaned body, no orphaned or partial sidecar.
FailedLeavesNothing ==
  \A p \in Procs :
    save[p] # NoSave /\ save[p].pc = "returned" /\ ~save[p].ok /\ ~save[p].dirty =>
      Gone(save[p].stem)

\* Even across a crash, a sidecar whose save was not already failing has its
\* complete body beside it: the body is written first.
SidecarHasBody ==
  \A p \in Procs :
    save[p] # NoSave /\ disk[save[p].stem]["sidecar"] # Absent /\ save[p].clean = <<>> /\ ~save[p].dirty =>
      disk[save[p].stem]["body"] # Absent /\ disk[save[p].stem]["body"].bytes = "all"

=============================================================================
