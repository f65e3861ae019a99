--------------------------- MODULE EndpointProofs ---------------------------
(***************************************************************************)
(* Proofs about AlexaEndpoint, and the capture store within it, for any    *)
(* number of requests, any times of receipt and suffixes, any verdicts,    *)
(* any failures of system calls and any number of crashes.                 *)
(***************************************************************************)
EXTENDS AlexaEndpoint, FiniteSetTheorems, TLAPS

\* What a call of Save knows about itself once it has begun.
SaveRec ==
  [pc : {"create", "write", "clean", "returned", "lost"}, stem : Stems, kind : Kinds,
   clean : {<<>>, <<"body">>, <<"sidecar">>, <<"body", "sidecar">>},
   ok : BOOLEAN, dirty : BOOLEAN]

Begun(p) == save[p] # NoSave

There(file) == file # Absent
Full(file) == file # Absent /\ file.bytes = "all"

\* How far a save is, and what must then be on disk under its stem.
Staged(s, body, sidecar) ==
  /\ s.pc \in {"create", "write", "clean", "lost"} => ~s.ok
  /\ s.pc \in {"create", "write"} => s.clean = <<>> /\ ~s.dirty
  /\ s.pc = "create" => ~There(sidecar) /\ (IF s.kind = "body" THEN ~There(body) ELSE Full(body))
  /\ s.pc = "write" => IF s.kind = "body" THEN ~There(sidecar) ELSE Full(body)
  /\ s.pc = "clean" /\ s.clean = <<"body">> => ~There(sidecar)
  /\ s.pc = "clean" /\ s.clean = <<"sidecar">> => s.dirty \/ ~There(body)
  /\ s.pc = "clean" => s.clean # <<>>
  /\ s.pc = "returned" /\ s.ok => Full(body) /\ Full(sidecar)
  /\ s.pc = "returned" /\ ~s.ok => s.dirty \/ (~There(body) /\ ~There(sidecar))
  /\ s.pc = "lost" /\ s.clean = <<>> /\ ~s.dirty /\ There(sidecar) => Full(body)

StageOf(p) == Staged(save[p], disk[save[p].stem]["body"], disk[save[p].stem]["sidecar"])

\* The store: no two saves share a stem, and every file was written by the save
\* whose stem it bears.  This is what lets each save rely on what it left on
\* disk, whatever the others write and remove.
StoreInv ==
  /\ disk \in [Stems -> [Kinds -> File \cup {Absent}]]
  /\ save \in [Procs -> SaveRec \cup {NoSave}]
  /\ \A p, q \in Procs : Begun(p) /\ Begun(q) /\ save[p].stem = save[q].stem => p = q
  /\ \A s \in Stems, k \in Kinds :
       There(disk[s][k]) => Begun(disk[s][k].by) /\ save[disk[s][k].by].stem = s
  /\ \A p \in Procs : Begun(p) => StageOf(p)

\* The status of an answer, or 0 before there is one.
Statuses == {0, 200, 400, 500}

HandlerRec ==
  [pc : {"verify", "capture", "answered", "past", "lost"}, at : Instants, encodes : BOOLEAN,
   verdict : Verdicts \cup {"none"}, status : Statuses]

\* The status that a request with this verdict is owed.
Owed(h) == CASE h.verdict # "nil" -> 400
             [] h.verdict = "nil" /\ h.encodes -> 200
             [] OTHER -> 500

\* The handlers: a save is only ever begun for a request that verified.
HandlerInv ==
  /\ handler \in [Procs -> HandlerRec \cup {Waiting}]
  /\ \A p \in Procs :
       /\ handler[p].pc = "capture" => handler[p].verdict = "nil"
       /\ handler[p].pc \in {"answered", "past"} => handler[p].status = Owed(handler[p])
       /\ Begun(p) => handler[p].pc \notin {"idle", "verify"} /\ handler[p].verdict = "nil"

Refused(p) == handler[p].pc = "answered" /\ handler[p].status = 400

\* The counter.
CountInv ==
  LET refused == {p \in Procs : Refused(p)} IN
  IsFiniteSet(refused) /\ rejected = Cardinality(refused)

EndpointInv == StoreInv /\ HandlerInv /\ CountInv

-----------------------------------------------------------------------------
(* Lemmas                                                                  *)

\* A save that has begun is told by its record, and files by theirs.
LEMMA Shapes ==
  /\ NoSave \notin SaveRec /\ NoSave.pc = "idle"
  /\ Waiting \notin HandlerRec /\ Waiting.pc = "idle"
  /\ \A p \in Procs, b \in {"some", "all"} :
       LET f == [by |-> p, bytes |-> b] IN
       f \in File /\ f.by = p /\ f.bytes = b /\ There(f) /\ (Full(f) <=> b = "all")
BY AbsentAssumption DEF NoSave, SaveRec, Waiting, HandlerRec, File, There, Full

\* Removal takes the files in order.
LEMMA CleanLists ==
  /\ Head(<<"body">>) = "body" /\ Tail(<<"body">>) = <<>>
  /\ Head(<<"sidecar">>) = "sidecar" /\ Tail(<<"sidecar">>) = <<>>
  /\ Head(<<"body", "sidecar">>) = "body" /\ Tail(<<"body", "sidecar">>) = <<"sidecar">>
  /\ <<"body">> # <<>> /\ <<"sidecar">> # <<>> /\ <<"body", "sidecar">> # <<>>
  /\ <<"body">> # <<"sidecar">> /\ <<"body">> # <<"body", "sidecar">>
  /\ <<"sidecar">> # <<"body", "sidecar">>
<1>1. /\ Head(<<"body">>) = "body" /\ Head(<<"sidecar">>) = "sidecar"
      /\ Head(<<"body", "sidecar">>) = "body"
  OBVIOUS
<1>2. Tail(<<"body">>) = <<>> /\ Tail(<<"sidecar">>) = <<>>
  OBVIOUS
<1>3. Tail(<<"body", "sidecar">>) = <<"sidecar">>
  OBVIOUS
<1>4. <<"body">> # <<>> /\ <<"sidecar">> # <<>> /\ <<"body", "sidecar">> # <<>>
  OBVIOUS
<1>5. /\ <<"body">> # <<"sidecar">> /\ <<"body">> # <<"body", "sidecar">>
      /\ <<"sidecar">> # <<"body", "sidecar">>
  OBVIOUS
<1>6. QED
  BY <1>1, <1>2, <1>3, <1>4, <1>5

\* The initial states satisfy the invariant.
LEMMA InitInv == EndpointInit => EndpointInv
<1> SUFFICES ASSUME EndpointInit PROVE EndpointInv
  OBVIOUS
<1> USE DEF EndpointInit, CaptureInit
<1>1. StoreInv
  BY DEF StoreInv, Begun, There
<1>2. HandlerInv
  BY Shapes DEF HandlerInv, Begun
<1>3. CountInv
  <2>1. {p \in Procs : Refused(p)} = {}
    BY Shapes DEF Refused
  <2>2. QED
    BY <2>1, FS_EmptySet DEF CountInv
<1>4. QED
  BY <1>1, <1>2, <1>3 DEF EndpointInv

-----------------------------------------------------------------------------
(* Steps of a save                                                         *)

\* A step of one save that keeps its stem, and writes at most one file of it,
\* preserves the invariant if it preserves what that save relies on.
LEMMA OneSaveMoves ==
  ASSUME StoreInv, NEW p \in Procs, Begun(p),
         NEW s \in SaveRec, s.stem = save[p].stem,
         NEW k \in Kinds, NEW f \in File \cup {Absent}, There(f) => f.by = p,
         save' = [save EXCEPT ![p] = s],
         disk' = [disk EXCEPT ![save[p].stem][k] = f],
         Staged(s, IF k = "body" THEN f ELSE disk[save[p].stem]["body"],
                   IF k = "sidecar" THEN f ELSE disk[save[p].stem]["sidecar"])
  PROVE  StoreInv' /\ \A q \in Procs : Begun(q)' <=> Begun(q)
<1> DEFINE stem == save[p].stem
<1>1. stem \in Stems /\ save[p] \in SaveRec /\ s # NoSave
  BY Shapes DEF StoreInv, Begun, SaveRec
<1>2. disk' \in [Stems -> [Kinds -> File \cup {Absent}]] /\ save' \in [Procs -> SaveRec \cup {NoSave}]
  BY <1>1 DEF StoreInv
<1>3. /\ save'[p] = s
      /\ \A q \in Procs : q # p => save'[q] = save[q]
      /\ \A q \in Procs : Begun(q)' <=> Begun(q)
  BY <1>1 DEF StoreInv, Begun
<1>4. \A q \in Procs : Begun(q) => save'[q].stem = save[q].stem
  BY <1>3
<1>5. \A t \in Stems : t # stem => disk'[t] = disk[t]
  BY <1>1 DEF StoreInv
<1>6. \A j \in Kinds : disk'[stem][j] = IF j = k THEN f ELSE disk[stem][j]
  BY <1>1 DEF StoreInv
<1>7. \A q, r \in Procs : Begun(q)' /\ Begun(r)' /\ save'[q].stem = save'[r].stem => q = r
  BY <1>3, <1>4 DEF StoreInv
<1>8. ASSUME NEW t \in Stems, NEW j \in Kinds, There(disk'[t][j])
      PROVE  save'[disk'[t][j].by] # NoSave /\ save'[disk'[t][j].by].stem = t
  <2>1. CASE t = stem /\ j = k
    <3>1. disk'[t][j] = f
      BY <2>1, <1>6
    <3>2. disk'[t][j].by = p
      BY <3>1, <1>8
    <3>3. QED
      BY <3>2, <2>1, <1>1, <1>3
  <2>2. CASE ~(t = stem /\ j = k)
    <3>1. disk'[t][j] = disk[t][j]
      BY <2>2, <1>5, <1>6
    <3>2. Begun(disk[t][j].by) /\ save[disk[t][j].by].stem = t
      BY <3>1, <1>8 DEF StoreInv
    <3>3. disk[t][j].by \in Procs
      BY <3>1, <1>8 DEF StoreInv, There, File
    <3> DEFINE q == disk[t][j].by
    <3>4. save'[q] # NoSave /\ save'[q].stem = t
      BY <3>2, <3>3, <1>3, <1>4 DEF Begun
    <3>5. QED
      BY <3>1, <3>4
  <2>3. QED
    BY <2>1, <2>2
<1>9. ASSUME NEW q \in Procs, Begun(q)' PROVE StageOf(q)'
  <2>1. CASE q = p
    <3>1. /\ disk'[s.stem]["body"] = IF k = "body" THEN f ELSE disk[stem]["body"]
          /\ disk'[s.stem]["sidecar"] = IF k = "sidecar" THEN f ELSE disk[stem]["sidecar"]
      BY <1>6 DEF Kinds
    <3>2. Staged(s, disk'[s.stem]["body"], disk'[s.stem]["sidecar"])
      BY <3>1
    <3>3. QED
      BY <3>2, <2>1, <1>3 DEF StageOf
  <2>2. CASE q # p
    <3>1. save'[q] = save[q] /\ save[q].stem # stem /\ save[q].stem \in Stems
      BY <2>2, <1>1, <1>3, <1>9 DEF StoreInv, Begun, SaveRec
    <3>2. disk'[save[q].stem] = disk[save[q].stem]
      BY <3>1, <1>5
    <3>3. StageOf(q)
      BY <1>3, <1>9 DEF StoreInv
    <3>4. QED
      BY <3>1, <3>2, <3>3 DEF StageOf
  <2>3. QED
    BY <2>1, <2>2
<1>10. QED
  <2>1. \A t \in Stems, j \in Kinds : There(disk'[t][j]) =>
          save'[disk'[t][j].by] # NoSave /\ save'[disk'[t][j].by].stem = t
    BY <1>8
  <2>2. \A q \in Procs : Begun(q)' => StageOf(q)'
    BY <1>9
  <2>3. StoreInv'
    BY <1>2, <1>7, <2>1, <2>2 DEF StoreInv, Begun, There
  <2>4. QED
    BY <2>3, <1>3

\* What a save finds on disk under its own stem is its own.
LEMMA OwnFiles ==
  ASSUME StoreInv, NEW p \in Procs, Begun(p), NEW k \in Kinds
  PROVE  LET f == disk[save[p].stem][k] IN
         /\ save[p] \in SaveRec /\ save[p].stem \in Stems
         /\ f \in File \cup {Absent}
         /\ There(f) => f.by = p
         /\ disk = [disk EXCEPT ![save[p].stem][k] = f]
<1>1. save[p] \in SaveRec /\ save[p].stem \in Stems
  BY DEF StoreInv, Begun, SaveRec
<1>2. disk[save[p].stem][k] \in File \cup {Absent}
  BY <1>1 DEF StoreInv
<1>3. There(disk[save[p].stem][k]) => disk[save[p].stem][k].by = p
  BY <1>1, <1>2 DEF StoreInv, There, File
<1>4. disk = [disk EXCEPT ![save[p].stem][k] = disk[save[p].stem][k]]
  BY <1>1 DEF StoreInv
<1>5. QED
  BY <1>1, <1>2, <1>3, <1>4

\* Each system call of a save preserves what every save relies on.
LEMMA SaveStepInv ==
  ASSUME StoreInv, NEW p \in Procs, SaveStep(p)
  PROVE  StoreInv' /\ \A q \in Procs : Begun(q)' <=> Begun(q)
<1> DEFINE r == save[p]
           body == disk[r.stem]["body"]
           sidecar == disk[r.stem]["sidecar"]
           some == [by |-> p, bytes |-> "some"]
           all == [by |-> p, bytes |-> "all"]
<1>1. Begun(p)
  BY Shapes DEF SaveStep, Create, Complete, Break, Clean, Begun
<1>2. r \in SaveRec /\ r.stem \in Stems /\ r.kind \in Kinds /\ StageOf(p)
  BY <1>1, OwnFiles DEF StoreInv, SaveRec, Kinds
<1>3. \A k \in Kinds :
        /\ disk[r.stem][k] \in File \cup {Absent}
        /\ There(disk[r.stem][k]) => disk[r.stem][k].by = p
        /\ disk = [disk EXCEPT ![r.stem][k] = disk[r.stem][k]]
  BY <1>1, OwnFiles
<1>4. Staged(r, body, sidecar)
  BY <1>2 DEF StageOf
<1>5. /\ some \in File /\ some.by = p /\ There(some)
      /\ all \in File /\ all.by = p /\ Full(all) /\ There(all)
  BY Shapes
<1>6. save \in [Procs -> SaveRec \cup {NoSave}]
  BY DEF StoreInv
<1> HIDE DEF some, all
<1>7. CASE Create(p)
  <2> DEFINE written == [r EXCEPT !.pc = "write"]
             failed == [r EXCEPT !.pc = "clean", !.clean = ToClean(r.kind)]
  <2>1. CASE SetFile(p, [by |-> p, bytes |-> "some"]) /\ MoveTo(p, "write")
    <3>1. /\ written \in SaveRec /\ written.stem = r.stem
          /\ written.pc = "write" /\ written.kind = r.kind /\ written.clean = r.clean
          /\ written.ok = r.ok /\ written.dirty = r.dirty
      BY <1>2 DEF SaveRec
    <3>2. save' = [save EXCEPT ![p] = written] /\ disk' = [disk EXCEPT ![r.stem][r.kind] = some]
      BY <2>1, <1>6 DEF SetFile, MoveTo, some
    <3>3. Staged(written, IF r.kind = "body" THEN some ELSE body,
                          IF r.kind = "sidecar" THEN some ELSE sidecar)
      BY <1>2, <1>4, <1>7, <3>1 DEF Staged, Create, Kinds
    <3> HIDE DEF written
    <3>4. QED
      BY <1>1, <1>2, <1>5, <3>1, <3>2, <3>3, OneSaveMoves
  <2>2. CASE UNCHANGED disk /\ Fails(p)
    <3>1. /\ failed \in SaveRec /\ failed.stem = r.stem /\ failed.pc = "clean"
          /\ failed.clean = ToClean(r.kind) /\ failed.ok = r.ok /\ failed.dirty = r.dirty
      BY <1>2 DEF SaveRec, ToClean, Kinds
    <3>2. save' = [save EXCEPT ![p] = failed] /\ disk' = [disk EXCEPT ![r.stem][r.kind] = disk[r.stem][r.kind]]
      BY <2>2, <1>2, <1>3 DEF Fails
    <3>3. Staged(failed, body, sidecar)
      BY <1>2, <1>4, <1>7, <3>1, CleanLists DEF Staged, Create, Kinds, ToClean
    <3>4. Staged(failed, IF r.kind = "body" THEN disk[r.stem][r.kind] ELSE body,
                         IF r.kind = "sidecar" THEN disk[r.stem][r.kind] ELSE sidecar)
      BY <3>3
    <3> HIDE DEF failed
    <3>5. QED
      BY <1>1, <1>2, <1>3, <3>1, <3>2, <3>4, OneSaveMoves
  <2>3. QED
    BY <2>1, <2>2, <1>7 DEF Create
<1>8. CASE Complete(p)
  <2> DEFINE next == [r EXCEPT !.pc = "create", !.kind = "sidecar"]
             done == [r EXCEPT !.pc = "returned", !.ok = TRUE]
  <2>1. disk' = [disk EXCEPT ![r.stem][r.kind] = all] /\ r.pc = "write"
    BY <1>8 DEF Complete, SetFile, all
  <2>2. CASE r.kind = "body"
    <3>1. /\ next \in SaveRec /\ next.stem = r.stem /\ next.pc = "create" /\ next.kind = "sidecar"
          /\ next.clean = r.clean /\ next.ok = r.ok /\ next.dirty = r.dirty
      BY <1>2 DEF SaveRec, Kinds
    <3>2. save' = [save EXCEPT ![p] = next]
      BY <2>2, <1>8 DEF Complete
    <3>3. Staged(next, IF r.kind = "body" THEN all ELSE body,
                       IF r.kind = "sidecar" THEN all ELSE sidecar)
      BY <2>1, <2>2, <1>4, <1>5, <3>1 DEF Staged
    <3> HIDE DEF next
    <3>4. QED
      BY <1>1, <1>2, <1>5, <2>1, <3>1, <3>2, <3>3, OneSaveMoves
  <2>3. CASE r.kind = "sidecar"
    <3>1. /\ done \in SaveRec /\ done.stem = r.stem /\ done.pc = "returned" /\ done.kind = r.kind
          /\ done.clean = r.clean /\ done.ok = TRUE /\ done.dirty = r.dirty
      BY <1>2 DEF SaveRec
    <3>2. save' = [save EXCEPT ![p] = done]
      BY <2>3, <1>8 DEF Complete, Returns
    <3>3. Staged(done, IF r.kind = "body" THEN all ELSE body,
                       IF r.kind = "sidecar" THEN all ELSE sidecar)
      BY <2>1, <2>3, <1>4, <1>5, <3>1 DEF Staged
    <3> HIDE DEF done
    <3>4. QED
      BY <1>1, <1>2, <1>5, <2>1, <3>1, <3>2, <3>3, OneSaveMoves
  <2>4. QED
    BY <2>2, <2>3, <1>2 DEF Kinds
<1>9. CASE Break(p)
  <2> DEFINE failed == [r EXCEPT !.pc = "clean", !.clean = ToClean(r.kind)]
  <2>1. PICK b \in {"some", "all"} : SetFile(p, [by |-> p, bytes |-> b])
    BY <1>9 DEF Break
  <2> DEFINE f == [by |-> p, bytes |-> b]
  <2>2. f \in File /\ f.by = p /\ disk' = [disk EXCEPT ![r.stem][r.kind] = f]
    BY <2>1, Shapes DEF SetFile
  <2>3. /\ failed \in SaveRec /\ failed.stem = r.stem /\ failed.pc = "clean"
        /\ failed.clean = ToClean(r.kind) /\ failed.ok = r.ok /\ failed.dirty = r.dirty
    BY <1>2 DEF SaveRec, ToClean, Kinds
  <2>4. save' = [save EXCEPT ![p] = failed] /\ r.pc = "write"
    BY <1>9 DEF Break, Fails
  <2> HIDE DEF f
  <2>5. Staged(failed, IF r.kind = "body" THEN f ELSE body, IF r.kind = "sidecar" THEN f ELSE sidecar)
    BY <1>2, <1>4, <2>3, <2>4, CleanLists DEF Staged, Kinds, ToClean
  <2> HIDE DEF failed
  <2>6. QED
    BY <1>1, <1>2, <2>2, <2>3, <2>4, <2>5, OneSaveMoves
<1>10. CASE Clean(p)
  <2> DEFINE kind == Head(r.clean)
             rest == Tail(r.clean)
             after(dirty) == [r EXCEPT !.clean = rest, !.dirty = r.dirty \/ dirty,
                                       !.pc = IF rest = <<>> THEN "returned" ELSE "clean"]
  <2>1. r.pc = "clean" /\ r.clean \in {<<"body">>, <<"sidecar">>, <<"body", "sidecar">>}
    BY <1>2, <1>4, <1>10 DEF Clean, Staged, SaveRec
  <2>2. /\ kind \in Kinds /\ rest \in {<<>>, <<"sidecar">>}
        /\ kind = "sidecar" <=> r.clean = <<"sidecar">>
        /\ rest = <<>> <=> r.clean \in {<<"body">>, <<"sidecar">>}
    BY <2>1, CleanLists DEF Kinds
  <2> HIDE DEF kind, rest
  <2>3. \A d \in BOOLEAN :
          /\ after(d) \in SaveRec /\ after(d).stem = r.stem /\ after(d).clean = rest
          /\ after(d).pc = IF rest = <<>> THEN "returned" ELSE "clean"
          /\ after(d).ok = r.ok /\ (after(d).dirty <=> r.dirty \/ d)
    BY <1>2, <2>2 DEF SaveRec
  <2>4. CASE disk' = [disk EXCEPT ![r.stem][kind] = Absent] /\ save' = [save EXCEPT ![p] = after(FALSE)]
    <3> HIDE DEF after
    <3>1. Staged(after(FALSE), IF kind = "body" THEN Absent ELSE body,
                               IF kind = "sidecar" THEN Absent ELSE sidecar)
      BY <2>1, <2>2, <2>3, <1>4, CleanLists DEF Staged, There, Kinds
    <3>2. QED
      BY <1>1, <2>2, <2>3, <2>4, <3>1, OneSaveMoves DEF There
  <2>5. CASE UNCHANGED disk /\ save' = [save EXCEPT ![p] = after(TRUE)]
    <3> HIDE DEF after
    <3>1. Staged(after(TRUE), body, sidecar)
      BY <2>1, <2>2, <2>3, <1>4, CleanLists DEF Staged
    <3>2. Staged(after(TRUE), IF kind = "body" THEN disk[r.stem][kind] ELSE body,
                              IF kind = "sidecar" THEN disk[r.stem][kind] ELSE sidecar)
      BY <3>1
    <3>3. disk' = [disk EXCEPT ![r.stem][kind] = disk[r.stem][kind]]
      BY <2>2, <2>5, <1>3
    <3>4. QED
      BY <1>1, <1>3, <2>2, <2>3, <2>5, <3>2, <3>3, OneSaveMoves
  <2>6. QED
    BY <2>4, <2>5, <1>10 DEF Clean, kind, rest
<1>11. QED
  BY <1>7, <1>8, <1>9, <1>10 DEF SaveStep

\* A save that begins has a stem that nothing on disk bears.
LEMMA BeginInv ==
  ASSUME StoreInv, NEW p \in Procs, NEW at \in Instants, NEW suffix \in Suffixes,
         NEW prepared \in BOOLEAN, Begin(p, at, suffix, prepared)
  PROVE  /\ StoreInv' /\ Begun(p)'
         /\ \A q \in Procs : q # p => (Begun(q)' <=> Begun(q))
<1> DEFINE stem == <<at, suffix>>
           r == [pc |-> IF prepared THEN "create" ELSE "returned", stem |-> stem,
                 kind |-> "body", clean |-> <<>>, ok |-> FALSE, dirty |-> FALSE]
<1>1. r \in SaveRec /\ stem \in Stems /\ r # NoSave
  BY Shapes DEF SaveRec, Stems, Kinds
<1>2. \A q \in Procs : Begun(q) => save[q].stem # stem
  BY DEF Begin, FreshSuffixes, Begun
<1>3. \A k \in Kinds : ~There(disk[stem][k])
  <2> SUFFICES ASSUME NEW k \in Kinds, There(disk[stem][k]) PROVE FALSE
    OBVIOUS
  <2>1. disk[stem][k].by \in Procs
    BY <1>1 DEF StoreInv, There, File
  <2>2. Begun(disk[stem][k].by) /\ save[disk[stem][k].by].stem = stem
    BY <1>1 DEF StoreInv
  <2>3. QED
    BY <2>1, <2>2, <1>2
<1>4. /\ disk' = disk /\ save' = [save EXCEPT ![p] = r]
      /\ save' \in [Procs -> SaveRec \cup {NoSave}] /\ ~Begun(p)
  BY <1>1 DEF Begin, StoreInv, Begun
<1>5. /\ save'[p] = r /\ Begun(p)' /\ r.stem = stem
      /\ \A q \in Procs : q # p => save'[q] = save[q] /\ (Begun(q)' <=> Begun(q))
  BY <1>1, <1>4 DEF StoreInv, Begun
<1> HIDE DEF r
<1>6. \A q, o \in Procs : Begun(q)' /\ Begun(o)' /\ save'[q].stem = save'[o].stem => q = o
  BY <1>2, <1>5 DEF StoreInv
<1>7. ASSUME NEW s \in Stems, NEW k \in Kinds, There(disk[s][k])
      PROVE  save'[disk[s][k].by] # NoSave /\ save'[disk[s][k].by].stem = s
  <2>1. disk[s][k].by \in Procs
    BY <1>7 DEF StoreInv, There, File
  <2>2. Begun(disk[s][k].by) /\ save[disk[s][k].by].stem = s
    BY <1>7 DEF StoreInv
  <2>3. disk[s][k].by # p
    BY <2>2, <1>4
  <2>4. QED
    BY <2>1, <2>2, <2>3, <1>5 DEF Begun
<1>8. ASSUME NEW q \in Procs, Begun(q)' PROVE StageOf(q)'
  <2>1. CASE q = p
    <3>1. Staged(r, disk[stem]["body"], disk[stem]["sidecar"])
      BY <1>3 DEF r, Staged, Kinds
    <3>2. QED
      BY <2>1, <3>1, <1>4, <1>5 DEF StageOf
  <2>2. CASE q # p
    BY <2>2, <1>4, <1>5, <1>8 DEF StoreInv, StageOf
  <2>3. QED
    BY <2>1, <2>2
<1>9. QED
  <2>1. \A s \in Stems, k \in Kinds : There(disk[s][k]) =>
          save'[disk[s][k].by] # NoSave /\ save'[disk[s][k].by].stem = s
    BY <1>7
  <2>2. \A q \in Procs : Begun(q)' => StageOf(q)'
    BY <1>8
  <2>3. StoreInv'
    BY <1>4, <1>6, <2>1, <2>2 DEF StoreInv, Begun, There
  <2>4. QED
    BY <2>3, <1>5

\* A crash between any two system calls leaves no sidecar without its body,
\* except where removal had begun.
LEMMA CrashKeepsStore ==
  ASSUME StoreInv, Crash
  PROVE  StoreInv' /\ \A q \in Procs : Begun(q)' <=> Begun(q)
<1> DEFINE lost(q) == [save[q] EXCEPT !.pc = "lost"]
<1>1. disk' = disk /\ save' = [q \in Procs |-> IF Saving(q) THEN lost(q) ELSE save[q]]
  BY DEF Crash
<1>2. ASSUME NEW q \in Procs, Saving(q)
      PROVE  /\ Begun(q) /\ lost(q) \in SaveRec /\ lost(q).pc = "lost"
             /\ lost(q).stem = save[q].stem /\ lost(q).clean = save[q].clean
             /\ lost(q).ok = save[q].ok /\ lost(q).dirty = save[q].dirty
  <2>1. Begun(q) /\ save[q] \in SaveRec
    BY <1>2, Shapes DEF StoreInv, Saving, Begun
  <2>2. QED
    BY <2>1 DEF SaveRec
<1> HIDE DEF lost
<1>3. \A q \in Procs :
        /\ Begun(q)' <=> Begun(q)
        /\ Begun(q) => save'[q] \in SaveRec /\ save'[q].stem = save[q].stem
  BY <1>1, <1>2, Shapes DEF StoreInv, Begun
<1>4. save' \in [Procs -> SaveRec \cup {NoSave}]
  BY <1>1, <1>2 DEF StoreInv
<1>5. ASSUME NEW s \in Stems, NEW k \in Kinds, There(disk[s][k])
      PROVE  save'[disk[s][k].by] # NoSave /\ save'[disk[s][k].by].stem = s
  <2>1. disk[s][k].by \in Procs
    BY <1>5 DEF StoreInv, There, File
  <2>2. Begun(disk[s][k].by) /\ save[disk[s][k].by].stem = s
    BY <1>5 DEF StoreInv
  <2>3. QED
    BY <2>1, <2>2, <1>3 DEF Begun
<1>6. ASSUME NEW q \in Procs, Begun(q) PROVE StageOf(q)'
  <2>1. StageOf(q)
    BY <1>6 DEF StoreInv
  <2>2. CASE Saving(q)
    <3>1. Staged(lost(q), disk[save[q].stem]["body"], disk[save[q].stem]["sidecar"])
      BY <2>1, <2>2, <1>2, Shapes DEF StageOf, Staged, Saving
    <3>2. save'[q] = lost(q) /\ lost(q).stem = save[q].stem
      BY <2>2, <1>1, <1>2
    <3>3. QED
      BY <3>1, <3>2, <1>1 DEF StageOf
  <2>3. CASE ~Saving(q)
    BY <2>1, <2>3, <1>1 DEF StageOf
  <2>4. QED
    BY <2>2, <2>3
<1>7. QED
  <2>1. \A q, o \in Procs : Begun(q)' /\ Begun(o)' /\ save'[q].stem = save'[o].stem => q = o
    BY <1>3 DEF StoreInv
  <2>2. \A s \in Stems, k \in Kinds : There(disk[s][k]) =>
          save'[disk[s][k].by] # NoSave /\ save'[disk[s][k].by].stem = s
    BY <1>5
  <2>3. \A q \in Procs : Begun(q)' => StageOf(q)'
    BY <1>3, <1>6
  <2>4. StoreInv'
    BY <1>1, <1>4, <2>1, <2>2, <2>3 DEF StoreInv, Begun, There
  <2>5. QED
    BY <2>4, <1>3

-----------------------------------------------------------------------------
(* Steps of a handler                                                      *)

\* A step of one handler preserves the invariant if it leaves that handler as
\* the invariant wants it, and begins no other request's save.
LEMMA OneHandlerMoves ==
  ASSUME HandlerInv, NEW p \in Procs, NEW h \in HandlerRec,
         handler' = [handler EXCEPT ![p] = h],
         h.pc = "capture" => h.verdict = "nil",
         h.pc \in {"answered", "past"} => h.status = Owed(h),
         Begun(p)' => h.pc # "verify" /\ h.verdict = "nil",
         \A q \in Procs : q # p => (Begun(q)' <=> Begun(q))
  PROVE  HandlerInv'
<1>1. /\ handler' \in [Procs -> HandlerRec \cup {Waiting}] /\ handler'[p] = h
      /\ \A q \in Procs : q # p => handler'[q] = handler[q]
  BY DEF HandlerInv
<1>2. ASSUME NEW q \in Procs
      PROVE  /\ handler'[q].pc = "capture" => handler'[q].verdict = "nil"
             /\ handler'[q].pc \in {"answered", "past"} => handler'[q].status = Owed(handler'[q])
             /\ Begun(q)' => handler'[q].pc \notin {"idle", "verify"} /\ handler'[q].verdict = "nil"
  <2>1. CASE q = p
    BY <2>1, <1>1 DEF HandlerRec
  <2>2. CASE q # p
    BY <2>2, <1>1 DEF HandlerInv
  <2>3. QED
    BY <2>1, <2>2
<1>3. QED
  BY <1>1, <1>2 DEF HandlerInv

\* A request refused adds one to the count; any other step of a handler that
\* was not answered leaves the count alone.
LEMMA OneHandlerCounts ==
  ASSUME HandlerInv, CountInv, NEW p \in Procs, handler[p].pc # "answered", NEW h,
         handler' = [handler EXCEPT ![p] = h],
         rejected' = IF h.pc = "answered" /\ h.status = 400 THEN rejected + 1 ELSE rejected
  PROVE  CountInv'
<1> DEFINE refused == {q \in Procs : Refused(q)}
           now == {q \in Procs : handler'[q].pc = "answered" /\ handler'[q].status = 400}
<1>1. handler'[p] = h /\ \A q \in Procs : q # p => handler'[q] = handler[q]
  BY DEF HandlerInv
<1>2. IsFiniteSet(refused) /\ rejected = Cardinality(refused) /\ p \notin refused
  BY DEF CountInv, Refused
<1>3. now = IF h.pc = "answered" /\ h.status = 400 THEN refused \cup {p} ELSE refused
  BY <1>1, <1>2 DEF Refused
<1> HIDE DEF refused, now
<1>4. IsFiniteSet(refused \cup {p}) /\ Cardinality(refused \cup {p}) = Cardinality(refused) + 1
  BY <1>2, FS_AddElement
<1>5. IsFiniteSet(now) /\ rejected' = Cardinality(now)
  BY <1>2, <1>3, <1>4
<1>6. QED
  BY <1>5 DEF CountInv, Refused, now

\* An answer changes nothing of a request but where it is and its status.
LEMMA Answering ==
  ASSUME NEW r \in HandlerRec, NEW status \in Statuses
  PROVE  LET h == [r EXCEPT !.pc = "answered", !.status = status] IN
         /\ h \in HandlerRec /\ h.pc = "answered" /\ h.status = status
         /\ h.verdict = r.verdict /\ h.encodes = r.encodes
BY DEF HandlerRec

\* A refusal says 400.
LEMMA RejectedIs ==
  ASSUME NEW r \in HandlerRec
  PROVE  /\ Rejected(r) \in HandlerRec /\ Rejected(r).pc = "answered"
         /\ Rejected(r).status = 400 /\ Rejected(r).verdict = r.verdict
<1>1. 400 \in Statuses
  BY DEF Statuses
<1>2. LET h == [r EXCEPT !.pc = "answered", !.status = 400] IN
      /\ h \in HandlerRec /\ h.pc = "answered" /\ h.status = 400
      /\ h.verdict = r.verdict /\ h.encodes = r.encodes
  BY <1>1, Answering
<1>3. QED
  BY <1>2 DEF Rejected

\* A request of which nothing is known yet arrives, and is refused at once if
\* its body was not read in full.
LEMMA ReceiveInv ==
  ASSUME EndpointInv, NEW p \in Procs, NEW at \in Instants, NEW full \in BOOLEAN,
         NEW encodes \in BOOLEAN, Receive(p, at, full, encodes)
  PROVE  HandlerInv' /\ CountInv'
<1> DEFINE h == IF full THEN Arrived(at, encodes) ELSE Rejected(Arrived(at, encodes))
<1>1. /\ h \in HandlerRec /\ h.verdict = "none"
      /\ h.pc = IF full THEN "verify" ELSE "answered"
      /\ h.status = IF full THEN 0 ELSE 400
  <2>1. /\ Arrived(at, encodes) \in HandlerRec
        /\ Arrived(at, encodes).pc = "verify" /\ Arrived(at, encodes).status = 0
        /\ Arrived(at, encodes).verdict = "none"
    BY DEF Arrived, HandlerRec, Statuses
  <2>2. CASE full
    BY <2>1, <2>2
  <2>3. CASE ~full
    BY <2>1, <2>3, RejectedIs
  <2>4. QED
    BY <2>2, <2>3
<1>2. handler[p].pc = "idle" /\ ~Begun(p)
  BY Shapes DEF Receive, EndpointInv, HandlerInv
<1>3. /\ handler' = [handler EXCEPT ![p] = h]
      /\ rejected' = IF full THEN rejected ELSE rejected + 1
      /\ \A q \in Procs : Begun(q)' <=> Begun(q)
  BY DEF Receive, captureVars, Begun
<1> HIDE DEF h
<1>4. HandlerInv'
  <2>1. h.pc \in {"answered", "past"} => h.status = Owed(h)
    BY <1>1, <1>2 DEF Owed
  <2>2. Begun(p)' => h.pc # "verify" /\ h.verdict = "nil"
    BY <1>1, <1>2, <1>3
  <2>3. QED
    BY <1>1, <1>2, <1>3, <2>1, <2>2, OneHandlerMoves DEF EndpointInv
<1>5. CountInv'
  <2>1. rejected' = IF h.pc = "answered" /\ h.status = 400 THEN rejected + 1 ELSE rejected
    <3>1. CASE full
      BY <3>1, <1>1, <1>3
    <3>2. CASE ~full
      BY <3>2, <1>1, <1>3
    <3>3. QED
      BY <3>1, <3>2
  <2>2. QED
    BY <1>2, <1>3, <2>1, OneHandlerCounts DEF EndpointInv
<1>6. QED
  BY <1>4, <1>5

\* A verdict leads to the capture, or to a refusal.
LEMMA VerifiedInv ==
  ASSUME EndpointInv, NEW p \in Procs, NEW verdict \in Verdicts, Verified(p, verdict)
  PROVE  HandlerInv' /\ CountInv'
<1> DEFINE judged == [handler[p] EXCEPT !.verdict = verdict]
           h == IF verdict = "nil" THEN [judged EXCEPT !.pc = "capture"] ELSE Rejected(judged)
<1>1. handler[p].pc = "verify" /\ handler[p] \in HandlerRec /\ ~Begun(p)
  BY Shapes DEF Verified, EndpointInv, HandlerInv
<1>2. /\ h \in HandlerRec /\ h.verdict = verdict
      /\ h.pc = IF verdict = "nil" THEN "capture" ELSE "answered"
      /\ verdict # "nil" => h.status = 400
  <2>1. judged \in HandlerRec /\ judged.verdict = verdict
    BY <1>1 DEF HandlerRec
  <2> HIDE DEF judged
  <2>2. CASE verdict = "nil"
    BY <2>1, <2>2 DEF HandlerRec
  <2>3. CASE verdict # "nil"
    BY <2>1, <2>3, RejectedIs
  <2>4. QED
    BY <2>2, <2>3
<1>3. /\ handler' = [handler EXCEPT ![p] = h]
      /\ rejected' = IF verdict = "nil" THEN rejected ELSE rejected + 1
      /\ \A q \in Procs : Begun(q)' <=> Begun(q)
  BY DEF Verified, captureVars, Begun
<1> HIDE DEF h
<1>4. HandlerInv'
  <2>1. h.pc \in {"answered", "past"} => h.status = Owed(h)
    BY <1>1, <1>2 DEF Owed
  <2>2. Begun(p)' => h.pc # "verify" /\ h.verdict = "nil"
    BY <1>1, <1>2, <1>3
  <2>3. h.pc = "capture" => h.verdict = "nil"
    BY <1>2
  <2>4. \A q \in Procs : q # p => (Begun(q)' <=> Begun(q))
    BY <1>3
  <2>5. HandlerInv /\ h \in HandlerRec /\ handler' = [handler EXCEPT ![p] = h]
    BY <1>2, <1>3 DEF EndpointInv
  <2>6. QED
    BY <2>1, <2>2, <2>3, <2>4, <2>5, OneHandlerMoves
<1>5. CountInv'
  <2>1. rejected' = IF h.pc = "answered" /\ h.status = 400 THEN rejected + 1 ELSE rejected
    BY <1>1, <1>2, <1>3
  <2>2. QED
    BY <1>1, <1>3, <2>1, OneHandlerCounts DEF EndpointInv
<1>6. QED
  BY <1>4, <1>5

\* The answer follows the verdict and the envelope, not the capture.
LEMMA RespondInv ==
  ASSUME EndpointInv, NEW p \in Procs, Respond(p)
  PROVE  HandlerInv' /\ CountInv'
<1> DEFINE h == [handler[p] EXCEPT !.pc = "answered", !.status = IF handler[p].encodes THEN 200 ELSE 500]
<1>1. handler[p].pc = "capture" /\ handler[p] \in HandlerRec /\ handler[p].verdict = "nil"
  BY Shapes DEF Respond, EndpointInv, HandlerInv
<1>2. /\ h \in HandlerRec /\ h.verdict = "nil" /\ h.pc = "answered"
      /\ h.encodes = handler[p].encodes /\ h.status = IF handler[p].encodes THEN 200 ELSE 500
  <2> DEFINE status == IF handler[p].encodes THEN 200 ELSE 500
  <2>1. status \in Statuses
    BY DEF Statuses
  <2> HIDE DEF status
  <2>2. LET a == [handler[p] EXCEPT !.pc = "answered", !.status = status] IN
        /\ a \in HandlerRec /\ a.pc = "answered" /\ a.status = status
        /\ a.verdict = handler[p].verdict /\ a.encodes = handler[p].encodes
    BY <1>1, <2>1, Answering
  <2>3. QED
    BY <1>1, <2>2 DEF status
<1>3. /\ handler' = [handler EXCEPT ![p] = h] /\ rejected' = rejected
      /\ \A q \in Procs : Begun(q)' <=> Begun(q)
  BY DEF Respond, captureVars, Begun
<1> HIDE DEF h
<1>4. HandlerInv'
  <2>1. h.pc \in {"answered", "past"} => h.status = Owed(h)
    BY <1>1, <1>2 DEF Owed
  <2>2. Begun(p)' => h.pc # "verify" /\ h.verdict = "nil"
    BY <1>1, <1>2, <1>3
  <2>3. QED
    BY <1>1, <1>2, <1>3, <2>1, <2>2, OneHandlerMoves DEF EndpointInv
<1>5. CountInv'
  <2>1. rejected' = IF h.pc = "answered" /\ h.status = 400 THEN rejected + 1 ELSE rejected
    BY <1>1, <1>2, <1>3
  <2>2. QED
    BY <1>1, <1>3, <2>1, OneHandlerCounts DEF EndpointInv
<1>6. QED
  BY <1>4, <1>5

\* A crash makes the past of what was answered, and loses the rest.
LEMMA CrashKeepsHandlers ==
  ASSUME EndpointInv, Crash
  PROVE  HandlerInv' /\ CountInv'
<1>1. \A q \in Procs : Begun(q)' <=> Begun(q)
  BY CrashKeepsStore DEF EndpointInv
<1>2. ASSUME NEW q \in Procs
      PROVE  \/ handler'[q] = Waiting /\ handler[q] = Waiting
             \/ /\ handler[q] \in HandlerRec /\ handler'[q] \in HandlerRec
                /\ handler'[q].pc \in {"past", "lost"}
                /\ handler'[q].pc = "past" => handler[q].pc \in {"answered", "past"}
                /\ handler'[q].verdict = handler[q].verdict /\ handler'[q].status = handler[q].status
                /\ handler'[q].encodes = handler[q].encodes
  <2> DEFINE at(pc) == [handler[q] EXCEPT !.pc = pc]
  <2>1. CASE handler[q] = Waiting
    BY <2>1 DEF Crash
  <2>2. CASE handler[q] # Waiting
    <3>1. handler[q] \in HandlerRec
      BY <2>2 DEF EndpointInv, HandlerInv
    <3>2. /\ handler[q].pc = "answered" => handler'[q] = at("past")
          /\ handler[q].pc = "past" => handler'[q] = handler[q]
          /\ handler[q].pc \notin {"answered", "past"} => handler'[q] = at("lost")
      BY <2>2 DEF Crash
    <3>3. ASSUME NEW pc \in {"past", "lost"}
          PROVE  /\ at(pc) \in HandlerRec /\ at(pc).pc = pc /\ at(pc).verdict = handler[q].verdict
                 /\ at(pc).status = handler[q].status /\ at(pc).encodes = handler[q].encodes
      BY <3>1 DEF HandlerRec
    <3> HIDE DEF at
    <3>4. QED
      BY <3>1, <3>2, <3>3
  <2>3. QED
    BY <2>1, <2>2
<1>3. HandlerInv'
  <2>1. handler' \in [Procs -> HandlerRec \cup {Waiting}]
    <3>1. DOMAIN handler' = Procs /\ handler' = [q \in Procs |-> handler'[q]]
      BY DEF Crash
    <3>2. QED
      BY <3>1, <1>2
  <2>2. ASSUME NEW q \in Procs
        PROVE  /\ handler'[q].pc = "capture" => handler'[q].verdict = "nil"
               /\ handler'[q].pc \in {"answered", "past"} => handler'[q].status = Owed(handler'[q])
               /\ Begun(q)' => handler'[q].pc \notin {"idle", "verify"} /\ handler'[q].verdict = "nil"
    BY <1>1, <1>2, Shapes DEF EndpointInv, HandlerInv, Owed
  <2>3. QED
    BY <2>1, <2>2 DEF HandlerInv
<1>4. CountInv'
  <2>1. {q \in Procs : Refused(q)}' = {}
    BY <1>2, Shapes DEF Refused
  <2>2. rejected' = 0
    BY DEF Crash
  <2>3. QED
    BY <2>1, <2>2, FS_EmptySet DEF CountInv
<1>5. QED
  BY <1>3, <1>4

\* Every step preserves the invariant.
LEMMA NextInv == EndpointInv /\ [EndpointNext]_endpointVars => EndpointInv'
<1> SUFFICES ASSUME EndpointInv, [EndpointNext]_endpointVars PROVE EndpointInv'
  OBVIOUS
<1>1. ASSUME StoreInv', \A q \in Procs : Begun(q)' <=> Begun(q), UNCHANGED <<handler, rejected>>
      PROVE  EndpointInv'
  BY <1>1 DEF EndpointInv, HandlerInv, CountInv, Refused
<1>2. ASSUME UNCHANGED captureVars PROVE StoreInv'
  BY <1>2 DEF EndpointInv, StoreInv, StageOf, Begun, captureVars
<1>3. CASE \E p \in Procs, at \in Instants, full, encodes \in BOOLEAN : Receive(p, at, full, encodes)
  BY <1>2, <1>3, ReceiveInv DEF EndpointInv, Receive
<1>4. CASE \E p \in Procs, verdict \in Verdicts : Verified(p, verdict)
  BY <1>2, <1>4, VerifiedInv DEF EndpointInv, Verified
<1>5. ASSUME NEW p \in Procs, NEW suffix \in Suffixes, NEW prepared \in BOOLEAN,
             StartSave(p, suffix, prepared)
      PROVE  EndpointInv'
  <2> DEFINE h == handler[p]
  <2>1. h \in HandlerRec /\ h.pc = "capture" /\ h.verdict = "nil" /\ h.at \in Instants
    BY <1>5, Shapes DEF StartSave, EndpointInv, HandlerInv, HandlerRec
  <2>2. StoreInv' /\ \A q \in Procs : q # p => (Begun(q)' <=> Begun(q))
    BY <1>5, <2>1, BeginInv DEF StartSave, EndpointInv
  <2>3. handler' = handler /\ rejected' = rejected
    BY <1>5 DEF StartSave
  <2>4. HandlerInv'
    BY <2>1, <2>2, <2>3 DEF EndpointInv, HandlerInv
  <2>5. CountInv'
    BY <2>3 DEF EndpointInv, CountInv, Refused
  <2>6. QED
    BY <2>2, <2>4, <2>5 DEF EndpointInv
<1>6. CASE \E p \in Procs : ContinueSave(p)
  BY <1>1, <1>6, SaveStepInv DEF EndpointInv, ContinueSave
<1>7. CASE \E p \in Procs : Respond(p)
  BY <1>2, <1>7, RespondInv DEF EndpointInv, Respond
<1>8. CASE Crash
  BY <1>8, CrashKeepsStore, CrashKeepsHandlers DEF EndpointInv
<1>9. CASE UNCHANGED endpointVars
  <2>1. UNCHANGED captureVars /\ UNCHANGED <<handler, rejected>>
    BY <1>9 DEF endpointVars, captureVars
  <2>2. \A q \in Procs : Begun(q)' <=> Begun(q)
    BY <2>1 DEF captureVars, Begun
  <2>3. QED
    BY <1>1, <1>2, <2>1, <2>2
<1>10. QED
  BY <1>3, <1>4, <1>5, <1>6, <1>7, <1>8, <1>9 DEF EndpointNext, Serve

-----------------------------------------------------------------------------
(* Theorems                                                                *)

\* The invariant the properties rest on: what each save may rely on under its
\* own stem, and that only a request that verified has a save.
THEOREM EndpointInvariant == EndpointSpec => []EndpointInv
<1>1. EndpointInit => EndpointInv
  BY InitInv
<1>2. EndpointInv /\ [EndpointNext]_endpointVars => EndpointInv'
  BY NextInv
<1>3. QED
  BY <1>1, <1>2, PTL DEF EndpointSpec

\* The store and the handlers keep their types, and the counter is the number
\* of requests refused since the process was started.
THEOREM EndpointTyped == EndpointSpec => []EndpointTypeOK
<1>1. EndpointInv => EndpointTypeOK
  <2> SUFFICES ASSUME EndpointInv PROVE EndpointTypeOK
    OBVIOUS
  <2>1. CaptureTypeOK
    <3>1. ASSUME NEW p \in Procs, Begun(p)
          PROVE  /\ save[p].pc \in {"create", "write", "clean", "returned", "lost"}
                 /\ save[p].stem \in Stems
                 /\ save[p].pc = "clean" => save[p].clean # <<>>
                 /\ save[p].ok => save[p].pc = "returned"
      <4>1. save[p] \in SaveRec /\ StageOf(p)
        BY <3>1 DEF EndpointInv, StoreInv, Begun
      <4>2. QED
        BY <4>1 DEF SaveRec, StageOf, Staged
    <3>2. QED
      BY <3>1 DEF EndpointInv, StoreInv, CaptureTypeOK, Begun
  <2>2. rejected = Cardinality({p \in Procs : handler[p].pc = "answered" /\ handler[p].status = 400})
    BY DEF EndpointInv, CountInv, Refused
  <2>3. ASSUME NEW p \in Procs
        PROVE  /\ handler[p].pc \in {"idle", "verify", "capture", "answered", "past", "lost"}
               /\ Answered(p) => handler[p].status \in {200, 400, 500}
               /\ handler[p].pc \in {"idle", "verify"} => save[p] = NoSave
    <3>1. handler[p].pc \in {"idle", "verify", "capture", "answered", "past", "lost"}
      BY Shapes DEF EndpointInv, HandlerInv, HandlerRec
    <3>2. Answered(p) => handler[p].status = Owed(handler[p])
      BY DEF EndpointInv, HandlerInv, Answered
    <3>3. Owed(handler[p]) \in {200, 400, 500}
      BY DEF Owed
    <3>4. handler[p].pc \in {"idle", "verify"} => save[p] = NoSave
      BY DEF EndpointInv, HandlerInv, Begun
    <3>5. QED
      BY <3>1, <3>2, <3>3, <3>4
  <2>4. QED
    BY <2>1, <2>2, <2>3 DEF EndpointTypeOK
<1>2. QED
  BY <1>1, EndpointInvariant, PTL

\* A save that reported success left both its files complete, and they stay so
\* whatever any number of other requests save, fail to save or clean up.
THEOREM SavedCapturesKept == EndpointSpec => []SavedStaysWhole
<1>1. EndpointInv => SavedStaysWhole
  <2> SUFFICES ASSUME EndpointInv, NEW p \in Procs, Begun(p), save[p].ok
               PROVE  Whole(save[p].stem) /\ \A k \in Kinds : disk[save[p].stem][k].by = p
    BY DEF SavedStaysWhole, Begun
  <2>1. save[p] \in SaveRec /\ StageOf(p)
    BY DEF EndpointInv, StoreInv, Begun
  <2>2. save[p].pc = "returned"
    BY <2>1 DEF SaveRec, StageOf, Staged
  <2>3. Full(disk[save[p].stem]["body"]) /\ Full(disk[save[p].stem]["sidecar"])
    BY <2>1, <2>2 DEF StageOf, Staged
  <2>4. \A k \in Kinds : There(disk[save[p].stem][k]) => disk[save[p].stem][k].by = p
    BY OwnFiles DEF EndpointInv
  <2>5. QED
    BY <2>3, <2>4 DEF Whole, Full, There, Kinds
<1>2. QED
  BY <1>1, EndpointInvariant, PTL

\* A save that reported an error left no file behind, unless a removal failed.
THEOREM FailedCapturesGone == EndpointSpec => []FailedLeavesNothing
<1>1. EndpointInv => FailedLeavesNothing
  <2> SUFFICES ASSUME EndpointInv, NEW p \in Procs, Begun(p), save[p].pc = "returned",
                      ~save[p].ok, ~save[p].dirty
               PROVE  Gone(save[p].stem)
    BY DEF FailedLeavesNothing, Begun
  <2>1. StageOf(p)
    BY DEF EndpointInv, StoreInv
  <2>2. QED
    BY <2>1 DEF StageOf, Staged, There, Gone, Kinds
<1>2. QED
  BY <1>1, EndpointInvariant, PTL

\* Wherever the process may have died, a sidecar has its complete body beside
\* it, unless its save was already removing files.
THEOREM SidecarsHaveBodies == EndpointSpec => []SidecarHasBody
<1>1. EndpointInv => SidecarHasBody
  <2> SUFFICES ASSUME EndpointInv, NEW p \in Procs, Begun(p), There(disk[save[p].stem]["sidecar"]),
                      save[p].clean = <<>>, ~save[p].dirty
               PROVE  Full(disk[save[p].stem]["body"])
    BY DEF SidecarHasBody, Begun, There, Full
  <2>1. save[p] \in SaveRec /\ StageOf(p)
    BY DEF EndpointInv, StoreInv, Begun
  <2>2. save[p].kind \in Kinds /\ save[p].pc \in {"create", "write", "clean", "returned", "lost"}
    BY <2>1 DEF SaveRec
  <2>3. QED
    BY <2>1, <2>2 DEF StageOf, Staged, Kinds
<1>2. QED
  BY <1>1, EndpointInvariant, PTL

\* No byte of a request that did not verify ever reaches the capture directory.
THEOREM CapturesAreVerified == EndpointSpec => []CapturedOnlyVerified
<1>1. EndpointInv => CapturedOnlyVerified
  <2> SUFFICES ASSUME EndpointInv, NEW s \in Stems, NEW k \in Kinds, There(disk[s][k])
               PROVE  handler[disk[s][k].by].verdict = "nil"
    BY DEF CapturedOnlyVerified, There
  <2>1. disk[s][k].by \in Procs
    BY DEF EndpointInv, StoreInv, There, File
  <2>2. Begun(disk[s][k].by)
    BY DEF EndpointInv, StoreInv
  <2>3. QED
    BY <2>1, <2>2 DEF EndpointInv, HandlerInv
<1>2. QED
  BY <1>1, EndpointInvariant, PTL

\* The status an answer carries depends on the verdict being nil, and on the
\* envelope, alone: not on why the request was refused, nor on its capture.
THEOREM StatusesTellLittle == EndpointSpec => []StatusTellsVerdictOnly
<1>1. EndpointInv => StatusTellsVerdictOnly
  BY DEF EndpointInv, HandlerInv, StatusTellsVerdictOnly, Answered, Owed
<1>2. QED
  BY <1>1, EndpointInvariant, PTL

=============================================================================
