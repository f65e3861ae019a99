--------------------------- MODULE CertUrlProofs ---------------------------
(***************************************************************************)
(* Proofs about CertUrl and CertUrlSpelling: for paths of any length, with *)
(* any percent-encoding of their segments, what path.Clean leaves is what  *)
(* the reference reads, an accepted URL is confined to the prefix, a       *)
(* traversal is named for what it is, and spellings share a key.           *)
(*                                                                         *)
(* Paths are of any length, so both loops over them need induction.  It is *)
(* stated about sets of numbers, which rests on the well-foundedness of <. *)
(***************************************************************************)
EXTENDS CertUrlSpelling, FiniteSetTheorems, FunctionTheorems, SequenceTheorems,
        WellFoundedInduction, TLAPS

(* Induction over natural numbers                                          *)

Less == {p \in Nat \X Nat : p[1] < p[2]}

\* A set of numbers that is not empty has a least element.
LEMMA LeastNumber ==
  ASSUME NEW S, S \subseteq Nat, S # {}
  PROVE  \E n \in S : \A m \in S : ~(m < n)
<1>1. OpToRel(<, Nat) = Less
  BY Zenon DEF OpToRel, Less
<1>2. IsWellFoundedOn(Less, Nat)
  BY <1>1, NatLessThanWellFounded, Zenon
<1>3. PICK n \in S : \A m \in S : ~(<<m, n>> \in Less)
  BY <1>2, IsWellFoundedOnSubset, WFMin
<1>4. ASSUME NEW m \in S, m < n PROVE FALSE
  <2>1. <<m, n>> \in Less
    BY <1>4 DEF Less
  <2>2. QED
    BY <1>3, <2>1
<1>5. QED
  BY <1>4

\* A set that contains 0 and with each number the next contains them all.
LEMMA NumberInduction ==
  ASSUME NEW S, 0 \in S, \A n \in Nat : n \in S => n + 1 \in S
  PROVE  Nat \subseteq S
<1> SUFFICES ASSUME Nat \ S # {} PROVE FALSE
  OBVIOUS
<1>1. PICK n \in Nat \ S : \A m \in Nat \ S : ~(m < n)
  BY LeastNumber
<1>2. n # 0 /\ n - 1 \in Nat /\ n - 1 < n /\ (n - 1) + 1 = n
  BY <1>1
<1>3. n - 1 \in S
  BY <1>1, <1>2
<1>4. QED
  BY <1>1, <1>2, <1>3

-----------------------------------------------------------------------------
(* Loops                                                                   *)

\* f is what a loop over n items computes from base, round by round.
IsLoop(f, n, S, base, step) ==
  /\ f \in [0..n -> S]
  /\ f[0] = base
  /\ \A i \in 1..n : f[i] = step[<<f[i - 1], i>>]

\* A loop can be run to its end.
LEMMA LoopExists ==
  ASSUME NEW n \in Nat, NEW S, NEW base \in S, NEW step \in [S \X (1..n) -> S]
  PROVE  \E f : IsLoop(f, n, S, base, step)
<1> DEFINE T == {k \in Nat : k <= n => \E f : IsLoop(f, k, S, base, step)}
<1>1. 0 \in T
  <2> DEFINE f == [i \in 0..0 |-> base]
  <2>1. IsLoop(f, 0, S, base, step)
    BY DEF IsLoop
  <2>2. QED
    BY <2>1
<1>2. ASSUME NEW k \in Nat, k \in T PROVE k + 1 \in T
  <2> SUFFICES ASSUME k + 1 <= n PROVE \E f : IsLoop(f, k + 1, S, base, step)
    OBVIOUS
  <2>1. PICK f : IsLoop(f, k, S, base, step)
    BY <1>2
  <2> DEFINE last == step[<<f[k], k + 1>>]
             g == [i \in 0..(k + 1) |-> IF i <= k THEN f[i] ELSE last]
  <2>2. f \in [0..k -> S] /\ f[k] \in S /\ k + 1 \in 1..n
    BY <2>1 DEF IsLoop
  <2>3. last \in S
    BY <2>2
  <2>4. \A i \in 0..k : g[i] = f[i]
    OBVIOUS
  <2>5. g[k + 1] = last
    OBVIOUS
  <2> HIDE DEF last
  <2>6. g \in [0..(k + 1) -> S]
    BY <2>2, <2>3
  <2> HIDE DEF g
  <2>7. g[0] = base
    BY <2>1, <2>4 DEF IsLoop
  <2>8. ASSUME NEW i \in 1..(k + 1) PROVE g[i] = step[<<g[i - 1], i>>]
    <3>1. CASE i = k + 1
      <4>1. g[i - 1] = f[k]
        BY <2>4, <3>1
      <4>2. QED
        BY <2>5, <3>1, <4>1 DEF last
    <3>2. CASE i # k + 1
      <4>1. i \in 1..k /\ i - 1 \in 0..k /\ i \in 0..k
        BY <3>2
      <4>2. QED
        BY <2>1, <2>4, <4>1 DEF IsLoop
    <3>3. QED
      BY <3>1, <3>2
  <2>9. IsLoop(g, k + 1, S, base, step)
    BY <2>6, <2>7, <2>8 DEF IsLoop
  <2>10. QED
    BY <2>9
<1> HIDE DEF T
<1>3. Nat \subseteq T
  BY <1>1, <1>2, NumberInduction
<1>4. QED
  BY <1>3 DEF T

\* What DecodedUpTo computes, round by round.
LEMMA DecodedRounds ==
  ASSUME NEW path \in Seq(Tokens)
  PROVE  /\ DecodedUpTo(path) \in [0..Len(path) -> Seq(Segments)]
         /\ DecodedUpTo(path)[0] = <<>>
         /\ \A i \in 1..Len(path) :
              DecodedUpTo(path)[i] = DecodedUpTo(path)[i - 1] \o Decoded[path[i]]
<1> DEFINE n == Len(path)
           S == Seq(Segments)
           step == [p \in S \X (1..n) |-> p[1] \o Decoded[path[p[2]]]]
           Round(f, i) == IF i = 0 THEN <<>> ELSE f[i - 1] \o Decoded[path[i]]
<1>1. n \in Nat /\ \A i \in 1..n : path[i] \in Tokens
  BY LenProperties, ElementOfSeq
<1>2. \A i \in 1..n : Decoded[path[i]] \in S
  BY <1>1, UrlAssumption
<1>3. \A x \in S, i \in 1..n : x \o Decoded[path[i]] \in S
  BY <1>2, ConcatProperties
<1>4. step \in [S \X (1..n) -> S]
  <2> SUFFICES ASSUME NEW p \in S \X (1..n) PROVE p[1] \o Decoded[path[p[2]]] \in S
    OBVIOUS
  <2>1. p[1] \in S /\ p[2] \in 1..n
    OBVIOUS
  <2>2. QED
    BY <1>3, <2>1
<1>5. <<>> \in S
  BY EmptySeq
<1>6. \A x \in S, i \in 1..n : step[<<x, i>>] = x \o Decoded[path[i]]
  OBVIOUS
<1>7. DecodedUpTo(path) = CHOOSE f : f = [i \in 0..n |-> Round(f, i)]
  BY DEF DecodedUpTo
<1>8. ASSUME NEW f, NEW i \in 1..n PROVE Round(f, i) = f[i - 1] \o Decoded[path[i]]
  <2>1. i # 0
    BY <1>1
  <2>2. QED
    BY <2>1, Zenon
<1>9. \A f : Round(f, 0) = <<>>
  OBVIOUS
<1> HIDE DEF n, S, step, Round
<1>10. PICK g : IsLoop(g, n, S, <<>>, step)
  BY <1>1, <1>4, <1>5, LoopExists
<1>11. g = [i \in 0..n |-> Round(g, i)]
  <2>1. ASSUME NEW i \in 0..n PROVE g[i] = Round(g, i)
    <3>1. CASE i = 0
      BY <1>9, <1>10, <3>1 DEF IsLoop
    <3>2. CASE i # 0
      <4>1. i \in 1..n /\ i - 1 \in 0..n
        BY <1>1, <3>2
      <4>2. g[i - 1] \in S /\ g[i] = step[<<g[i - 1], i>>]
        BY <1>10, <4>1 DEF IsLoop
      <4>3. g[i] = g[i - 1] \o Decoded[path[i]]
        BY <1>6, <4>1, <4>2
      <4>4. Round(g, i) = g[i - 1] \o Decoded[path[i]]
        BY <1>8, <4>1
      <4>5. QED
        BY <4>3, <4>4
    <3>3. QED
      BY <3>1, <3>2
  <2>2. g = [i \in 0..n |-> g[i]]
    BY <1>10 DEF IsLoop
  <2>3. QED
    BY <2>1, <2>2
<1>12. PICK f : f = DecodedUpTo(path) /\ f = [i \in 0..n |-> Round(f, i)]
  BY <1>7, <1>11
<1>13. \A i \in 0..n : f[i] = Round(f, i)
  BY <1>12
<1>14. f[0] = <<>> /\ \A i \in 1..n : f[i] = f[i - 1] \o Decoded[path[i]]
  <2>1. f[0] = <<>>
    BY <1>1, <1>9, <1>13
  <2>2. ASSUME NEW i \in 1..n PROVE f[i] = f[i - 1] \o Decoded[path[i]]
    <3>1. f[i] = Round(f, i)
      BY <1>1, <1>13
    <3>2. Round(f, i) = f[i - 1] \o Decoded[path[i]]
      BY <1>8
    <3>3. QED
      BY <3>1, <3>2
  <2>3. QED
    BY <2>1, <2>2
<1>15. \A i \in 0..n : f[i] \in S
  <2> DEFINE T == {k \in Nat : k <= n => f[k] \in S}
  <2>1. 0 \in T
    BY <1>5, <1>14
  <2>2. ASSUME NEW k \in Nat, k \in T PROVE k + 1 \in T
    <3> SUFFICES ASSUME k + 1 <= n PROVE f[k + 1] \in S
      OBVIOUS
    <3>1. k + 1 \in 1..n /\ (k + 1) - 1 = k /\ k <= n
      BY <1>1
    <3>2. f[k] \in S
      BY <2>2, <3>1
    <3>3. f[k + 1] = f[k] \o Decoded[path[k + 1]]
      BY <1>14, <3>1
    <3>4. QED
      BY <1>3, <3>1, <3>2, <3>3
  <2> HIDE DEF T
  <2>3. Nat \subseteq T
    BY <2>1, <2>2, NumberInduction
  <2>4. QED
    BY <1>1, <2>3 DEF T
<1>16. f = [i \in 0..n |-> f[i]]
  BY <1>12
<1>17. f \in [0..n -> S]
  BY <1>15, <1>16
<1>18. QED
  BY <1>12, <1>14, <1>17 DEF n, S

\* What a segment leaves is a sequence of segments.
LEMMA AfterSegmentTyped ==
  ASSUME NEW kept \in Seq(Segments), NEW s \in Segments
  PROVE  AfterSegment(kept, s) \in Seq(Segments)
<1>1. Append(kept, s) \in Seq(Segments)
  BY AppendProperties
<1>2. ASSUME kept # <<>> PROVE SubSeq(kept, 1, Len(kept) - 1) \in Seq(Segments)
  <2>1. Len(kept) \in Nat /\ \A i \in 1..Len(kept) : kept[i] \in Segments
    BY LenProperties, ElementOfSeq
  <2>2. Len(kept) - 1 \in Int /\ \A i \in 1..(Len(kept) - 1) : kept[i] \in Segments
    BY <2>1
  <2>3. QED
    BY <2>2, SubSeqProperties
<1>3. QED
  BY <1>1, <1>2 DEF AfterSegment

\* What Cleaned computes, round by round.
LEMMA CleanedRounds ==
  ASSUME NEW path \in Seq(Segments)
  PROVE  /\ Cleaned(path) \in [0..Len(path) -> Seq(Segments)]
         /\ Cleaned(path)[0] = <<>>
         /\ \A i \in 1..Len(path) :
              Cleaned(path)[i] = AfterSegment(Cleaned(path)[i - 1], path[i])
<1> DEFINE n == Len(path)
           S == Seq(Segments)
           step == [p \in S \X (1..n) |-> AfterSegment(p[1], path[p[2]])]
           Round(f, i) == IF i = 0 THEN <<>> ELSE AfterSegment(f[i - 1], path[i])
<1>1. n \in Nat /\ \A i \in 1..n : path[i] \in Segments
  BY LenProperties, ElementOfSeq
<1>3. \A x \in S, i \in 1..n : AfterSegment(x, path[i]) \in S
  BY <1>1, AfterSegmentTyped
<1>4. step \in [S \X (1..n) -> S]
  <2> SUFFICES ASSUME NEW p \in S \X (1..n) PROVE AfterSegment(p[1], path[p[2]]) \in S
    OBVIOUS
  <2>1. p[1] \in S /\ p[2] \in 1..n
    OBVIOUS
  <2>2. QED
    BY <1>3, <2>1
<1>5. <<>> \in S
  BY EmptySeq
<1>6. \A x \in S, i \in 1..n : step[<<x, i>>] = AfterSegment(x, path[i])
  OBVIOUS
<1>7. Cleaned(path) = CHOOSE f : f = [i \in 0..n |-> Round(f, i)]
  BY DEF Cleaned
<1>8. ASSUME NEW f, NEW i \in 1..n PROVE Round(f, i) = AfterSegment(f[i - 1], path[i])
  <2>1. i # 0
    BY <1>1
  <2>2. QED
    BY <2>1, Zenon
<1>9. \A f : Round(f, 0) = <<>>
  OBVIOUS
<1> HIDE DEF n, S, step, Round
<1>10. PICK g : IsLoop(g, n, S, <<>>, step)
  BY <1>1, <1>4, <1>5, LoopExists
<1>11. g = [i \in 0..n |-> Round(g, i)]
  <2>1. ASSUME NEW i \in 0..n PROVE g[i] = Round(g, i)
    <3>1. CASE i = 0
      BY <1>9, <1>10, <3>1 DEF IsLoop
    <3>2. CASE i # 0
      <4>1. i \in 1..n /\ i - 1 \in 0..n
        BY <1>1, <3>2
      <4>2. g[i - 1] \in S /\ g[i] = step[<<g[i - 1], i>>]
        BY <1>10, <4>1 DEF IsLoop
      <4>3. g[i] = AfterSegment(g[i - 1], path[i])
        BY <1>6, <4>1, <4>2
      <4>4. Round(g, i) = AfterSegment(g[i - 1], path[i])
        BY <1>8, <4>1
      <4>5. QED
        BY <4>3, <4>4
    <3>3. QED
      BY <3>1, <3>2
  <2>2. g = [i \in 0..n |-> g[i]]
    BY <1>10 DEF IsLoop
  <2>3. QED
    BY <2>1, <2>2
<1>12. PICK f : f = Cleaned(path) /\ f = [i \in 0..n |-> Round(f, i)]
  BY <1>7, <1>11
<1>13. \A i \in 0..n : f[i] = Round(f, i)
  BY <1>12
<1>14. f[0] = <<>> /\ \A i \in 1..n : f[i] = AfterSegment(f[i - 1], path[i])
  <2>1. f[0] = <<>>
    BY <1>1, <1>9, <1>13
  <2>2. ASSUME NEW i \in 1..n PROVE f[i] = AfterSegment(f[i - 1], path[i])
    <3>1. f[i] = Round(f, i)
      BY <1>1, <1>13
    <3>2. Round(f, i) = AfterSegment(f[i - 1], path[i])
      BY <1>8
    <3>3. QED
      BY <3>1, <3>2
  <2>3. QED
    BY <2>1, <2>2
<1>15. \A i \in 0..n : f[i] \in S
  <2> DEFINE T == {k \in Nat : k <= n => f[k] \in S}
  <2>1. 0 \in T
    BY <1>5, <1>14
  <2>2. ASSUME NEW k \in Nat, k \in T PROVE k + 1 \in T
    <3> SUFFICES ASSUME k + 1 <= n PROVE f[k + 1] \in S
      OBVIOUS
    <3>1. k + 1 \in 1..n /\ (k + 1) - 1 = k /\ k <= n
      BY <1>1
    <3>2. f[k] \in S
      BY <2>2, <3>1
    <3>3. f[k + 1] = AfterSegment(f[k], path[k + 1])
      BY <1>14, <3>1
    <3>4. QED
      BY <1>3, <3>1, <3>2, <3>3
  <2> HIDE DEF T
  <2>3. Nat \subseteq T
    BY <2>1, <2>2, NumberInduction
  <2>4. QED
    BY <1>1, <2>3 DEF T
<1>16. f = [i \in 0..n |-> f[i]]
  BY <1>12
<1>17. f \in [0..n -> S]
  BY <1>15, <1>16
<1>18. QED
  BY <1>12, <1>14, <1>17 DEF n, S

-----------------------------------------------------------------------------
(* What path.Clean does to a path                                          *)

\* What a segment does to what was kept before it.
LEMMA AfterSegmentIs ==
  ASSUME NEW kept \in Seq(Segments), NEW s \in Segments
  PROVE  /\ IsName(s) =>
              /\ Len(AfterSegment(kept, s)) = Len(kept) + 1
              /\ AfterSegment(kept, s)[Len(kept) + 1] = s
              /\ \A m \in 1..Len(kept) : AfterSegment(kept, s)[m] = kept[m]
         /\ s = ".." /\ kept # <<>> =>
              /\ Len(AfterSegment(kept, s)) = Len(kept) - 1
              /\ \A m \in 1..(Len(kept) - 1) : AfterSegment(kept, s)[m] = kept[m]
         /\ ~IsName(s) /\ (s = ".." => kept = <<>>) => AfterSegment(kept, s) = kept
<1>1. Len(kept) \in Nat /\ \A i \in 1..Len(kept) : kept[i] \in Segments
  BY LenProperties, ElementOfSeq
<1>2. CASE IsName(s)
  <2>1. AfterSegment(kept, s) = Append(kept, s) /\ s # ".."
    BY <1>2 DEF AfterSegment, IsName
  <2>2. QED
    BY <1>2, <2>1, AppendProperties
<1>3. CASE s = ".." /\ kept # <<>>
  <2>1. ~IsName(s)
    BY <1>3 DEF IsName
  <2>2. AfterSegment(kept, s) = SubSeq(kept, 1, Len(kept) - 1)
    BY <1>3, <2>1 DEF AfterSegment
  <2>3. Len(kept) # 0
    BY <1>3, EmptySeq
  <2> DEFINE l == Len(kept) - 1
             front == SubSeq(kept, 1, l)
  <2>4. l \in Int /\ l >= 0 /\ \A i \in 1..l : kept[i] \in Segments
    BY <1>1, <2>3
  <2> HIDE DEF l
  <2>5. Len(front) = (IF 1 <= l THEN l - 1 + 1 ELSE 0) /\ \A i \in 1..(l - 1 + 1) : front[i] = kept[1 + i - 1]
    BY <2>4, SubSeqProperties
  <2> HIDE DEF front
  <2>6. Len(front) = l /\ \A i \in 1..l : front[i] = kept[i]
    BY <2>4, <2>5
  <2>7. QED
    BY <1>3, <2>1, <2>2, <2>6 DEF front, l
<1>4. CASE ~IsName(s) /\ (s = ".." => kept = <<>>)
  BY <1>4 DEF AfterSegment
<1>5. QED
  BY <1>2, <1>3, <1>4

\* Nothing is kept but names.
LEMMA KeptAreNames ==
  ASSUME NEW path \in Seq(Segments), NEW n \in 0..Len(path)
  PROVE  \A m \in 1..Len(Cleaned(path)[n]) : IsName(Cleaned(path)[n][m])
<1> DEFINE Named(k) == \A m \in 1..Len(Cleaned(path)[k]) : IsName(Cleaned(path)[k][m])
           T == {k \in Nat : k <= Len(path) => Named(k)}
<1>1. Len(path) \in Nat /\ \A i \in 1..Len(path) : path[i] \in Segments
  BY LenProperties, ElementOfSeq
<1>2. 0 \in T
  BY CleanedRounds, EmptySeq
<1>3. ASSUME NEW k \in Nat, k \in T PROVE k + 1 \in T
  <2> SUFFICES ASSUME k + 1 <= Len(path) PROVE Named(k + 1)
    OBVIOUS
  <2> DEFINE before == Cleaned(path)[k]
             after == Cleaned(path)[k + 1]
             s == path[k + 1]
  <2>1. k \in 0..Len(path) /\ k + 1 \in 1..Len(path) /\ (k + 1) - 1 = k
    BY <1>1
  <2>2. before \in Seq(Segments) /\ s \in Segments /\ after = AfterSegment(before, s)
    BY <1>1, <2>1, CleanedRounds
  <2>3. \A m \in 1..Len(before) : IsName(before[m])
    BY <1>3, <2>1
  <2> HIDE DEF before, after, s
  <2>4. Len(before) \in Nat
    BY <2>2, LenProperties
  <2>5. before # <<>> => Len(before) # 0
    BY <2>2, EmptySeq
  <2>6. \A m \in 1..Len(after) : IsName(after[m])
    <3>1. CASE IsName(s)
      <4>1. /\ Len(after) = Len(before) + 1 /\ after[Len(before) + 1] = s
            /\ \A m \in 1..Len(before) : after[m] = before[m]
        BY <2>2, <3>1, AfterSegmentIs
      <4>2. \A m \in 1..Len(after) : m = Len(before) + 1 \/ m \in 1..Len(before)
        BY <2>4, <4>1
      <4>3. QED
        BY <2>3, <3>1, <4>1, <4>2
    <3>2. CASE s = ".." /\ before # <<>>
      <4>1. Len(after) = Len(before) - 1 /\ \A m \in 1..(Len(before) - 1) : after[m] = before[m]
        BY <2>2, <3>2, AfterSegmentIs
      <4>2. QED
        BY <2>3, <2>4, <4>1
    <3>3. CASE ~IsName(s) /\ (s = ".." => before = <<>>)
      BY <2>2, <2>3, <3>3, AfterSegmentIs
    <3>4. QED
      BY <3>1, <3>2, <3>3
  <2>7. QED
    BY <2>6 DEF after
<1> HIDE DEF T
<1>4. Nat \subseteq T
  BY <1>2, <1>3, NumberInduction
<1>5. n \in T
  BY <1>1, <1>4
<1>6. QED
  BY <1>1, <1>5 DEF T

\* What is left is a sequence of names.
LEMMA CleanIsNames ==
  ASSUME NEW path \in Seq(Segments)
  PROVE  Clean(path) \in Seq(Segments) /\ \A m \in 1..Len(Clean(path)) : IsName(Clean(path)[m])
<1>1. Len(path) \in 0..Len(path)
  BY LenProperties
<1>2. QED
  BY <1>1, CleanedRounds, KeptAreNames DEF Clean

\* A path of names is clean.
LEMMA CleanOfNames ==
  ASSUME NEW path \in Seq(Segments), \A i \in 1..Len(path) : IsName(path[i])
  PROVE  Clean(path) = path
<1> DEFINE Same(k) == /\ Len(Cleaned(path)[k]) = k
                      /\ \A m \in 1..k : Cleaned(path)[k][m] = path[m]
           T == {k \in Nat : k <= Len(path) => Same(k)}
<1>1. Len(path) \in Nat /\ \A i \in 1..Len(path) : path[i] \in Segments
  BY LenProperties, ElementOfSeq
<1>2. 0 \in T
  BY CleanedRounds, EmptySeq
<1>3. ASSUME NEW k \in Nat, k \in T PROVE k + 1 \in T
  <2> SUFFICES ASSUME k + 1 <= Len(path) PROVE Same(k + 1)
    OBVIOUS
  <2> DEFINE before == Cleaned(path)[k]
             after == Cleaned(path)[k + 1]
             s == path[k + 1]
  <2>1. k \in 0..Len(path) /\ k + 1 \in 1..Len(path) /\ (k + 1) - 1 = k
    BY <1>1
  <2>2. before \in Seq(Segments) /\ s \in Segments /\ IsName(s) /\ after = AfterSegment(before, s)
    BY <1>1, <2>1, CleanedRounds
  <2>3. Len(before) = k /\ \A m \in 1..k : before[m] = path[m]
    BY <1>3, <2>1
  <2> HIDE DEF before, after
  <2>4. /\ Len(after) = Len(before) + 1 /\ after[Len(before) + 1] = s
        /\ \A m \in 1..Len(before) : after[m] = before[m]
    BY <2>2, AfterSegmentIs
  <2>5. Len(after) = k + 1 /\ \A m \in 1..(k + 1) : after[m] = path[m]
    <3>1. \A m \in 1..(k + 1) : m = k + 1 \/ m \in 1..k
      OBVIOUS
    <3>2. QED
      BY <2>3, <2>4, <3>1
  <2>6. QED
    BY <2>5 DEF after
<1> HIDE DEF T
<1>4. Nat \subseteq T
  BY <1>2, <1>3, NumberInduction
<1>5. Same(Len(path))
  BY <1>1, <1>4 DEF T
<1>6. Len(Clean(path)) = Len(path) /\ \A m \in 1..Len(path) : Clean(path)[m] = path[m]
  BY <1>5 DEF Clean
<1>7. QED
  BY <1>6, CleanIsNames, SeqEqual

\* A path that leaves nothing makes no difference to what follows it.
LEMMA CleanAfterNothing ==
  ASSUME NEW d \in Seq(Segments), NEW s \in Seq(Segments), Clean(d) = <<>>
  PROVE  Clean(d \o s) = Clean(s)
<1> DEFINE p == d \o s
           T == {k \in Nat : k <= Len(d) => Cleaned(p)[k] = Cleaned(d)[k]}
           U == {k \in Nat : k <= Len(s) => Cleaned(p)[Len(d) + k] = Cleaned(s)[k]}
<1>1. Len(d) \in Nat /\ Len(s) \in Nat
  BY LenProperties
<1>2. p \in Seq(Segments) /\ Len(p) = Len(d) + Len(s)
  BY ConcatProperties
<1>3. \A i \in 1..Len(d) : p[i] = d[i]
  BY <1>1, ConcatProperties
<1>4. \A i \in 1..Len(s) : p[Len(d) + i] = s[i]
  BY <1>1, ConcatProperties
<1> HIDE DEF p
<1>5. 0 \in T
  BY <1>2, CleanedRounds
<1>6. ASSUME NEW k \in Nat, k \in T PROVE k + 1 \in T
  <2> SUFFICES ASSUME k + 1 <= Len(d) PROVE Cleaned(p)[k + 1] = Cleaned(d)[k + 1]
    OBVIOUS
  <2>1. k + 1 \in 1..Len(d) /\ k + 1 \in 1..Len(p) /\ (k + 1) - 1 = k /\ k <= Len(d)
    BY <1>1, <1>2
  <2>2. Cleaned(p)[k + 1] = AfterSegment(Cleaned(p)[k], p[k + 1])
    BY <1>2, <2>1, CleanedRounds
  <2>3. Cleaned(d)[k + 1] = AfterSegment(Cleaned(d)[k], d[k + 1])
    BY <2>1, CleanedRounds
  <2>4. QED
    BY <1>3, <1>6, <2>1, <2>2, <2>3
<1>7. Nat \subseteq T
  <2> HIDE DEF T
  <2>1. QED
    BY <1>5, <1>6, NumberInduction
<1>8. Cleaned(p)[Len(d)] = <<>>
  BY <1>1, <1>7 DEF Clean
<1>9. 0 \in U
  BY <1>1, <1>8, CleanedRounds
<1>10. ASSUME NEW k \in Nat, k \in U PROVE k + 1 \in U
  <2> SUFFICES ASSUME k + 1 <= Len(s) PROVE Cleaned(p)[Len(d) + (k + 1)] = Cleaned(s)[k + 1]
    OBVIOUS
  <2> DEFINE j == Len(d) + (k + 1)
  <2>1. k + 1 \in 1..Len(s) /\ j \in 1..Len(p) /\ (k + 1) - 1 = k /\ j - 1 = Len(d) + k /\ k <= Len(s)
    BY <1>1, <1>2
  <2>2. p[j] = s[k + 1]
    BY <1>4, <2>1
  <2> HIDE DEF j
  <2>3. Cleaned(p)[j] = AfterSegment(Cleaned(p)[Len(d) + k], p[j])
    BY <1>2, <2>1, CleanedRounds
  <2>4. Cleaned(s)[k + 1] = AfterSegment(Cleaned(s)[k], s[k + 1])
    BY <2>1, CleanedRounds
  <2>5. QED
    BY <1>10, <2>1, <2>2, <2>3, <2>4 DEF j
<1>11. Nat \subseteq U
  <2> HIDE DEF U
  <2>1. QED
    BY <1>9, <1>10, NumberInduction
<1>12. QED
  BY <1>1, <1>2, <1>11 DEF Clean, p

-----------------------------------------------------------------------------
(* What percent-decoding does to a path                                    *)

LEMMA DecodedIsPath ==
  ASSUME NEW path \in Seq(Tokens) PROVE DecodedPath(path) \in Seq(Segments)
<1>1. Len(path) \in 0..Len(path)
  BY LenProperties
<1>2. QED
  BY <1>1, DecodedRounds DEF DecodedPath

\* One path after another is decoded one after another.
LEMMA DecodedOfConcat ==
  ASSUME NEW p \in Seq(Tokens), NEW q \in Seq(Tokens)
  PROVE  DecodedPath(p \o q) = DecodedPath(p) \o DecodedPath(q)
<1> DEFINE r == p \o q
           T == {k \in Nat : k <= Len(p) => DecodedUpTo(r)[k] = DecodedUpTo(p)[k]}
           U == {k \in Nat : k <= Len(q) =>
                   DecodedUpTo(r)[Len(p) + k] = DecodedPath(p) \o DecodedUpTo(q)[k]}
<1>1. Len(p) \in Nat /\ Len(q) \in Nat
  BY LenProperties
<1>2. r \in Seq(Tokens) /\ Len(r) = Len(p) + Len(q)
  BY ConcatProperties
<1>3. \A i \in 1..Len(p) : r[i] = p[i]
  BY <1>1, ConcatProperties
<1>4. \A i \in 1..Len(q) : r[Len(p) + i] = q[i]
  BY <1>1, ConcatProperties
<1> HIDE DEF r
<1>5. 0 \in T
  BY <1>2, DecodedRounds
<1>6. ASSUME NEW k \in Nat, k \in T PROVE k + 1 \in T
  <2> SUFFICES ASSUME k + 1 <= Len(p) PROVE DecodedUpTo(r)[k + 1] = DecodedUpTo(p)[k + 1]
    OBVIOUS
  <2>1. k + 1 \in 1..Len(p) /\ k + 1 \in 1..Len(r) /\ (k + 1) - 1 = k /\ k <= Len(p)
    BY <1>1, <1>2
  <2>2. DecodedUpTo(r)[k + 1] = DecodedUpTo(r)[k] \o Decoded[r[k + 1]]
    BY <1>2, <2>1, DecodedRounds
  <2>3. DecodedUpTo(p)[k + 1] = DecodedUpTo(p)[k] \o Decoded[p[k + 1]]
    BY <2>1, DecodedRounds
  <2>4. QED
    BY <1>3, <1>6, <2>1, <2>2, <2>3
<1>7. Nat \subseteq T
  <2> HIDE DEF T
  <2>1. QED
    BY <1>5, <1>6, NumberInduction
<1>8. DecodedUpTo(r)[Len(p)] = DecodedPath(p)
  BY <1>1, <1>7 DEF DecodedPath
<1>9. DecodedPath(p) \in Seq(Segments)
  BY DecodedIsPath
<1>10. 0 \in U
  <2>1. DecodedUpTo(q)[0] = <<>>
    BY DecodedRounds
  <2>2. DecodedPath(p) \o <<>> = DecodedPath(p)
    BY <1>9, ConcatEmptySeq
  <2>3. DecodedUpTo(r)[Len(p) + 0] = DecodedPath(p) \o DecodedUpTo(q)[0]
    <3>1. Len(p) + 0 = Len(p)
      BY <1>1
    <3>2. QED
      BY <1>8, <2>1, <2>2, <3>1
  <2>4. QED
    BY <2>3
<1>11. ASSUME NEW k \in Nat, k \in U PROVE k + 1 \in U
  <2> SUFFICES ASSUME k + 1 <= Len(q)
               PROVE  DecodedUpTo(r)[Len(p) + (k + 1)] = DecodedPath(p) \o DecodedUpTo(q)[k + 1]
    OBVIOUS
  <2> DEFINE j == Len(p) + (k + 1)
             before == DecodedUpTo(q)[k]
             more == Decoded[q[k + 1]]
             first == DecodedPath(p)
  <2>1. /\ k + 1 \in 1..Len(q) /\ (k + 1) - 1 = k /\ k \in 0..Len(q)
        /\ j \in 1..Len(r) /\ j - 1 = Len(p) + k
    BY <1>1, <1>2
  <2>2. r[j] = q[k + 1]
    BY <1>4, <2>1
  <2>3. before \in Seq(Segments) /\ more \in Seq(Segments)
    BY <2>1, DecodedRounds, ElementOfSeq, UrlAssumption
  <2> HIDE DEF j
  <2>4. DecodedUpTo(r)[j] = DecodedUpTo(r)[Len(p) + k] \o Decoded[r[j]]
    BY <1>2, <2>1, DecodedRounds
  <2>5. DecodedUpTo(q)[k + 1] = before \o more
    BY <2>1, DecodedRounds
  <2>6. DecodedUpTo(r)[Len(p) + k] = first \o before
    BY <1>11, <2>1
  <2>7. DecodedUpTo(r)[j] = (first \o before) \o more
    BY <2>2, <2>4, <2>6
  <2>8. (first \o before) \o more = first \o (before \o more)
    <3> HIDE DEF before, more, first
    <3>1. first \in Seq(Segments)
      BY <1>9 DEF first
    <3>2. QED
      BY <2>3, <3>1, ConcatAssociative
  <2>9. QED
    BY <2>5, <2>7, <2>8 DEF j
<1>12. Nat \subseteq U
  <2> HIDE DEF U
  <2>1. QED
    BY <1>10, <1>11, NumberInduction
<1>13. DecodedUpTo(r)[Len(p) + Len(q)] = DecodedPath(p) \o DecodedUpTo(q)[Len(q)]
  BY <1>1, <1>12
<1>14. DecodedPath(r) = DecodedUpTo(r)[Len(p) + Len(q)] /\ DecodedPath(q) = DecodedUpTo(q)[Len(q)]
  BY <1>2 DEF DecodedPath
<1>15. QED
  BY <1>13, <1>14 DEF r

\* The token of each segment.
EncodedPath(path) == [i \in DOMAIN path |-> Encoded[path[i]]]

LEMMA EncodedIsPath ==
  ASSUME NEW path \in Seq(Segments)
  PROVE  /\ EncodedPath(path) \in Seq(Tokens)
         /\ Len(EncodedPath(path)) = Len(path)
         /\ \A i \in 1..Len(path) : EncodedPath(path)[i] = Encoded[path[i]]
<1>1. Len(path) \in Nat /\ DOMAIN path = 1..Len(path) /\ \A i \in 1..Len(path) : path[i] \in Segments
  BY LenProperties, ElementOfSeq
<1>2. EncodedPath(path) \in [1..Len(path) -> Tokens]
  BY <1>1, UrlAssumption DEF EncodedPath
<1>3. EncodedPath(path) \in Seq(Tokens)
  BY <1>1, <1>2, SeqDef
<1>4. Len(EncodedPath(path)) = Len(path)
  BY <1>1, <1>2, <1>3, LenProperties
<1>5. QED
  BY <1>1, <1>3, <1>4 DEF EncodedPath

\* Decoding undoes encoding.
LEMMA DecodedOfEncoded ==
  ASSUME NEW path \in Seq(Segments)
  PROVE  DecodedPath(EncodedPath(path)) = path
<1> DEFINE e == EncodedPath(path)
           Same(k) == /\ Len(DecodedUpTo(e)[k]) = k
                      /\ \A m \in 1..k : DecodedUpTo(e)[k][m] = path[m]
           T == {k \in Nat : k <= Len(path) => Same(k)}
<1>1. Len(path) \in Nat /\ \A i \in 1..Len(path) : path[i] \in Segments
  BY LenProperties, ElementOfSeq
<1>2. e \in Seq(Tokens) /\ Len(e) = Len(path) /\ \A i \in 1..Len(path) : e[i] = Encoded[path[i]]
  BY EncodedIsPath
<1> HIDE DEF e
<1>3. 0 \in T
  <2>1. DecodedUpTo(e)[0] = <<>>
    BY <1>2, DecodedRounds
  <2>2. QED
    BY <2>1, EmptySeq
<1>4. ASSUME NEW k \in Nat, k \in T PROVE k + 1 \in T
  <2> SUFFICES ASSUME k + 1 <= Len(path) PROVE Same(k + 1)
    OBVIOUS
  <2> DEFINE before == DecodedUpTo(e)[k]
             after == DecodedUpTo(e)[k + 1]
             s == path[k + 1]
  <2>1. k \in 0..Len(path) /\ k + 1 \in 1..Len(path) /\ (k + 1) - 1 = k
    BY <1>1
  <2>2. before \in Seq(Segments) /\ s \in Segments
    BY <1>1, <1>2, <2>1, DecodedRounds
  <2>3. Decoded[e[k + 1]] = <<s>>
    BY <1>2, <2>1, <2>2, UrlAssumption
  <2>4. after = before \o <<s>>
    BY <1>2, <2>1, <2>3, DecodedRounds
  <2>5. Len(before) = k /\ \A m \in 1..k : before[m] = path[m]
    BY <1>4, <2>1
  <2> HIDE DEF before, after
  <2>6. after = Append(before, s)
    BY <2>2, <2>4, AppendIsConcat
  <2>7. /\ Len(after) = Len(before) + 1 /\ after[Len(before) + 1] = s
        /\ \A m \in 1..Len(before) : after[m] = before[m]
    BY <2>2, <2>6, AppendProperties
  <2>8. Len(after) = k + 1 /\ \A m \in 1..(k + 1) : after[m] = path[m]
    <3>1. \A m \in 1..(k + 1) : m = k + 1 \/ m \in 1..k
      OBVIOUS
    <3>2. QED
      BY <2>5, <2>7, <3>1
  <2>9. QED
    BY <2>8 DEF after
<1> HIDE DEF T
<1>5. Nat \subseteq T
  BY <1>3, <1>4, NumberInduction
<1>6. Same(Len(path))
  BY <1>1, <1>5 DEF T
<1>7. Len(DecodedPath(e)) = Len(path) /\ \A m \in 1..Len(path) : DecodedPath(e)[m] = path[m]
  BY <1>2, <1>6 DEF DecodedPath
<1>8. DecodedPath(e) = path
  BY <1>2, <1>7, DecodedIsPath, SeqEqual
<1>9. QED
  BY <1>8 DEF e

\* A path of one token is decoded as the token is, one of none to nothing.
LEMMA DecodedOfFew ==
  /\ DecodedPath(<<>>) = <<>>
  /\ \A t \in Tokens : DecodedPath(<<t>>) = Decoded[t]
  /\ \A t, u \in Tokens : DecodedPath(<<t, u>>) = Decoded[t] \o Decoded[u]
<1>1. DecodedPath(<<>>) = <<>>
  <2>1. <<>> \in Seq(Tokens) /\ Len(<<>>) = 0
    BY EmptySeq
  <2>2. QED
    BY <2>1, DecodedRounds DEF DecodedPath
<1>2. ASSUME NEW t \in Tokens PROVE DecodedPath(<<t>>) = Decoded[t]
  <2> DEFINE path == <<t>>
  <2>1. path \in Seq(Tokens) /\ Len(path) = 1 /\ path[1] = t
    OBVIOUS
  <2> HIDE DEF path
  <2>2. DecodedUpTo(path)[1] = <<>> \o Decoded[t]
    <3>1. 1 \in 1..Len(path) /\ 1 - 1 = 0
      BY <2>1
    <3>2. QED
      BY <2>1, <3>1, DecodedRounds
  <2>3. <<>> \o Decoded[t] = Decoded[t]
    BY UrlAssumption, ConcatEmptySeq
  <2>4. QED
    BY <2>1, <2>2, <2>3 DEF DecodedPath, path
<1>3. ASSUME NEW t \in Tokens, NEW u \in Tokens
      PROVE  DecodedPath(<<t, u>>) = Decoded[t] \o Decoded[u]
  <2> DEFINE p == <<t>>
             q == <<u>>
             r == <<t, u>>
  <2>1. p \in Seq(Tokens) /\ Len(p) = 1 /\ p[1] = t
    OBVIOUS
  <2>2. q \in Seq(Tokens) /\ Len(q) = 1 /\ q[1] = u
    OBVIOUS
  <2>3. r \in Seq(Tokens) /\ Len(r) = 2 /\ r[1] = t /\ r[2] = u
    OBVIOUS
  <2> HIDE DEF p, q, r
  <2>4. /\ p \o q \in Seq(Tokens) /\ Len(p \o q) = 2
        /\ (p \o q)[1] = t /\ (p \o q)[2] = u
    <3> DEFINE c == p \o q
    <3>1. c \in Seq(Tokens) /\ Len(c) = Len(p) + Len(q)
      BY <2>1, <2>2, ConcatProperties
    <3>2. \A i \in 1..(Len(p) + Len(q)) : c[i] = IF i <= Len(p) THEN p[i] ELSE q[i - Len(p)]
      BY <2>1, <2>2, ConcatProperties
    <3> HIDE DEF c
    <3>3. c[1] = t
      BY <2>1, <2>2, <3>2
    <3>4. c[2] = q[2 - 1]
      BY <2>1, <2>2, <3>2
    <3>5. QED
      BY <2>1, <2>2, <3>1, <3>3, <3>4 DEF c
  <2>5. p \o q = r
    BY <2>3, <2>4, SeqEqual
  <2>6. DecodedPath(r) = DecodedPath(p) \o DecodedPath(q)
    BY <2>1, <2>2, <2>5, DecodedOfConcat
  <2>7. QED
    BY <1>2, <2>6 DEF p, q, r
<1>4. QED
  BY <1>1, <1>2, <1>3

-----------------------------------------------------------------------------
(* The reference, counted out                                              *)

\* An increasing listing of a set of numbers tells how many there are, and how
\* many are below each.
LEMMA ListingCounts ==
  ASSUME NEW K \in SUBSET Nat, NEW l \in Nat, NEW at \in [1..l -> K],
         \A m, q \in 1..l : m < q => at[m] < at[q],
         \A k \in K : \E m \in 1..l : at[m] = k
  PROVE  /\ Cardinality(K) = l
         /\ \A n \in 1..l : Cardinality({k \in K : k < at[n]}) = n - 1
<1> DEFINE First(n) == {k \in K : \E m \in 1..n : at[m] = k}
<1>1. ASSUME NEW n \in 0..l PROVE Cardinality(First(n)) = n
  <2> DEFINE f == [m \in 1..n |-> at[m]]
  <2>1. \A m \in 1..n : m \in 1..l
    OBVIOUS
  <2>2. f \in [1..n -> First(n)]
    BY <2>1
  <2>3. ASSUME NEW m \in 1..n, NEW q \in 1..n, f[m] = f[q] PROVE m = q
    <3>1. m \in 1..l /\ q \in 1..l /\ at[m] = at[q] /\ at[m] \in Nat /\ at[q] \in Nat
      BY <2>1, <2>3
    <3>2. ~(m < q) /\ ~(q < m)
      BY <3>1
    <3>3. QED
      BY <3>2
  <2>4. \A k \in First(n) : \E m \in 1..n : f[m] = k
    OBVIOUS
  <2> HIDE DEF f, First
  <2>5. f \in Bijection(1..n, First(n))
    BY <2>2, <2>3, <2>4, Fun_IsBij
  <2>6. ExistsBijection(1..n, First(n))
    BY <2>5 DEF ExistsBijection
  <2>7. IsFiniteSet(1..n) /\ Cardinality(1..n) = n
    BY FS_Interval
  <2>8. QED
    BY <2>6, <2>7, FS_Bijection
<1>2. First(l) = K
  OBVIOUS
<1>3. ASSUME NEW n \in 1..l PROVE {k \in K : k < at[n]} = First(n - 1)
  <2>1. ASSUME NEW k \in K, k < at[n] PROVE k \in First(n - 1)
    <3>1. PICK m \in 1..l : at[m] = k
      OBVIOUS
    <3>2. ~(n < m) /\ n # m
      <4>1. at[n] \in Nat /\ at[m] \in Nat
        OBVIOUS
      <4>2. QED
        BY <2>1, <3>1, <4>1
    <3>3. m \in 1..(n - 1)
      BY <3>2
    <3>4. QED
      BY <3>1, <3>3
  <2>2. ASSUME NEW k \in First(n - 1) PROVE k < at[n]
    <3>1. PICK m \in 1..(n - 1) : at[m] = k
      OBVIOUS
    <3>2. m \in 1..l /\ m < n
      OBVIOUS
    <3>3. QED
      BY <3>1, <3>2
  <2>3. QED
    BY <2>1, <2>2
<1> HIDE DEF First
<1>4. Cardinality(K) = l
  BY <1>1, <1>2
<1>5. ASSUME NEW n \in 1..l PROVE Cardinality({k \in K : k < at[n]}) = n - 1
  <2>1. n - 1 \in 0..l
    OBVIOUS
  <2>2. Cardinality(First(n - 1)) = n - 1
    BY <1>1, <2>1
  <2>3. QED
    BY <1>3, <2>2, Zenon
<1>6. QED
  BY <1>4, <1>5

\* One more segment adds one to the names or to the parents after a place, or to
\* neither.
LEMMA CountStep ==
  ASSUME NEW path \in Seq(Segments), NEW i \in Nat, NEW n \in Nat, i <= n
  PROVE  /\ Names(path, i, i) = 0 /\ Parents(path, i, i) = 0
         /\ Names(path, i, n) \in Nat /\ Parents(path, i, n) \in Nat
         /\ Names(path, i, n + 1) = Names(path, i, n) + (IF IsName(path[n + 1]) THEN 1 ELSE 0)
         /\ Parents(path, i, n + 1) = Parents(path, i, n) + (IF path[n + 1] = ".." THEN 1 ELSE 0)
<1> DEFINE N(j) == {k \in (i + 1)..j : IsName(path[k])}
           P(j) == {k \in (i + 1)..j : path[k] = ".."}
<1>1. N(i) = {} /\ P(i) = {}
  OBVIOUS
<1>2. IsFiniteSet(N(n)) /\ IsFiniteSet(P(n))
  <2>1. IsFiniteSet((i + 1)..n)
    BY FS_Interval
  <2>2. N(n) \in SUBSET ((i + 1)..n) /\ P(n) \in SUBSET ((i + 1)..n)
    OBVIOUS
  <2> HIDE DEF N, P
  <2>3. QED
    BY <2>1, <2>2, FS_Subset
<1>3. n + 1 \notin N(n) /\ n + 1 \notin P(n)
  OBVIOUS
<1>4. (i + 1)..(n + 1) = ((i + 1)..n) \cup {n + 1}
  OBVIOUS
<1>5. N(n + 1) = IF IsName(path[n + 1]) THEN N(n) \cup {n + 1} ELSE N(n)
  BY <1>4
<1>6. P(n + 1) = IF path[n + 1] = ".." THEN P(n) \cup {n + 1} ELSE P(n)
  BY <1>4
<1>7. \A j : Names(path, i, j) = Cardinality(N(j)) /\ Parents(path, i, j) = Cardinality(P(j))
  BY DEF Names, Parents
<1> HIDE DEF N, P
<1>8. Cardinality(N(n)) \in Nat /\ Cardinality(P(n)) \in Nat
  BY <1>2, FS_CardinalityType
<1>9. Cardinality(N(n + 1)) = Cardinality(N(n)) + (IF IsName(path[n + 1]) THEN 1 ELSE 0)
  <2>1. Cardinality(N(n) \cup {n + 1}) = Cardinality(N(n)) + 1
    BY <1>2, <1>3, FS_AddElement
  <2>2. QED
    BY <1>5, <1>8, <2>1
<1>10. Cardinality(P(n + 1)) = Cardinality(P(n)) + (IF path[n + 1] = ".." THEN 1 ELSE 0)
  <2>1. Cardinality(P(n) \cup {n + 1}) = Cardinality(P(n)) + 1
    BY <1>2, <1>3, FS_AddElement
  <2>2. QED
    BY <1>6, <1>8, <2>1
<1>11. QED
  BY <1>1, <1>7, <1>8, <1>9, <1>10, FS_EmptySet

\* The segments that survive what comes after them up to a place.
Standing(path, i, n) ==
  /\ IsName(path[i])
  /\ \A j \in i..n : Parents(path, i, j) <= Names(path, i, j)

LEMMA StandingStep ==
  ASSUME NEW path \in Seq(Segments), NEW n \in Nat
  PROVE  /\ Standing(path, n + 1, n + 1) <=> IsName(path[n + 1])
         /\ \A i \in 1..n :
              /\ Standing(path, i, n) => Parents(path, i, n) <= Names(path, i, n)
              /\ Standing(path, i, n + 1) <=>
                   Standing(path, i, n) /\ Parents(path, i, n + 1) <= Names(path, i, n + 1)
<1>1. Standing(path, n + 1, n + 1) <=> IsName(path[n + 1])
  <2>1. \A j \in (n + 1)..(n + 1) : j = n + 1
    OBVIOUS
  <2>2. Parents(path, n + 1, n + 1) = 0 /\ Names(path, n + 1, n + 1) = 0
    <3> DEFINE i == n + 1
    <3>1. i \in Nat /\ i <= i
      OBVIOUS
    <3> HIDE DEF i
    <3>2. Parents(path, i, i) = 0 /\ Names(path, i, i) = 0
      BY <3>1, CountStep
    <3>3. QED
      BY <3>2 DEF i
  <2>3. QED
    BY <2>1, <2>2 DEF Standing
<1>2. ASSUME NEW i \in 1..n
      PROVE  /\ Standing(path, i, n) => Parents(path, i, n) <= Names(path, i, n)
             /\ Standing(path, i, n + 1) <=>
                  Standing(path, i, n) /\ Parents(path, i, n + 1) <= Names(path, i, n + 1)
  <2>1. n \in i..n /\ i..(n + 1) = (i..n) \cup {n + 1}
    OBVIOUS
  <2>2. QED
    BY <2>1 DEF Standing
<1>3. QED
  BY <1>1, <1>2

\* Where the segments come from that the loop has kept after n rounds: at lists
\* the places of those that stand, and each has as many names left after it as
\* there are segments kept after it.
Trace(path, n, at) ==
  LET kept == Cleaned(path)[n] IN
  /\ at \in [1..Len(kept) -> 1..n]
  /\ \A m \in 1..Len(kept) : kept[m] = path[at[m]]
  /\ \A m, q \in 1..Len(kept) : m < q => at[m] < at[q]
  /\ \A m \in 1..Len(kept) : Standing(path, at[m], n)
  /\ \A i \in 1..n : Standing(path, i, n) => \E m \in 1..Len(kept) : at[m] = i
  /\ \A m \in 1..Len(kept) : Names(path, at[m], n) = Parents(path, at[m], n) + (Len(kept) - m)

\* A name is kept, and takes nothing away.
LEMMA TraceName ==
  ASSUME NEW path \in Seq(Segments), NEW n \in Nat, n + 1 <= Len(path),
         NEW at, Trace(path, n, at), IsName(path[n + 1])
  PROVE  \E to : Trace(path, n + 1, to)
<1> DEFINE before == Cleaned(path)[n]
           after == Cleaned(path)[n + 1]
           l == Len(before)
           to == [m \in 1..(l + 1) |-> IF m <= l THEN at[m] ELSE n + 1]
<1>1. n \in 0..Len(path) /\ n + 1 \in 1..Len(path) /\ (n + 1) - 1 = n /\ Len(path) \in Nat
  BY LenProperties
<1>2. before \in Seq(Segments) /\ path[n + 1] \in Segments /\ after = AfterSegment(before, path[n + 1])
  BY <1>1, CleanedRounds, ElementOfSeq
<1>3. /\ at \in [1..l -> 1..n]
      /\ \A m \in 1..l : before[m] = path[at[m]]
      /\ \A m, q \in 1..l : m < q => at[m] < at[q]
      /\ \A m \in 1..l : Standing(path, at[m], n)
      /\ \A i \in 1..n : Standing(path, i, n) => \E m \in 1..l : at[m] = i
      /\ \A m \in 1..l : Names(path, at[m], n) = Parents(path, at[m], n) + (l - m)
  BY DEF Trace
<1>4. l \in Nat
  BY <1>2, LenProperties
<1> HIDE DEF before, after
<1>5. Len(after) = l + 1 /\ after[l + 1] = path[n + 1] /\ \A m \in 1..l : after[m] = before[m]
  BY <1>2, AfterSegmentIs
<1>6. path[n + 1] # ".."
  BY DEF IsName
<1> HIDE DEF l
<1>7. \A m \in 1..(l + 1) : m = l + 1 \/ m \in 1..l
  BY <1>4
<1>8. \A m \in 1..l : to[m] = at[m] /\ to[m] \in 1..n
  BY <1>3, <1>4
<1>9. to[l + 1] = n + 1
  BY <1>4
<1>10. to \in [1..(l + 1) -> 1..(n + 1)]
  <2>1. 1..n \subseteq 1..(n + 1) /\ n + 1 \in 1..(n + 1)
    OBVIOUS
  <2>2. ASSUME NEW m \in 1..(l + 1) PROVE to[m] \in 1..(n + 1)
    <3> HIDE DEF to
    <3>1. QED
      BY <1>7, <1>8, <1>9, <2>1
  <2>3. QED
    BY <2>2
<1> HIDE DEF to
<1>11. \A m \in 1..(l + 1) : after[m] = path[to[m]]
  BY <1>3, <1>5, <1>7, <1>8, <1>9
<1>12. ASSUME NEW m \in 1..(l + 1), NEW q \in 1..(l + 1), m < q PROVE to[m] < to[q]
  <2>1. m \in 1..l
    BY <1>4, <1>12
  <2>2. CASE q = l + 1
    BY <1>8, <1>9, <2>1, <2>2
  <2>3. CASE q \in 1..l
    BY <1>3, <1>8, <1>12, <2>1, <2>3
  <2>4. QED
    BY <1>7, <2>2, <2>3
<1>13. ASSUME NEW m \in 1..l
       PROVE  /\ Standing(path, to[m], n + 1)
              /\ Names(path, to[m], n + 1) = Parents(path, to[m], n + 1) + ((l + 1) - m)
  <2> DEFINE i == at[m]
  <2>1. i \in 1..n /\ i \in Nat /\ i <= n /\ to[m] = i
    BY <1>3, <1>8
  <2>2. Standing(path, i, n) /\ Names(path, i, n) = Parents(path, i, n) + (l - m)
    BY <1>3
  <2> HIDE DEF i
  <2>3. /\ Names(path, i, n) \in Nat /\ Parents(path, i, n) \in Nat
        /\ Names(path, i, n + 1) = Names(path, i, n) + 1
        /\ Parents(path, i, n + 1) = Parents(path, i, n) + 0
    BY <1>6, <2>1, CountStep
  <2>4. Parents(path, i, n) <= Names(path, i, n)
    BY <2>1, <2>2, StandingStep
  <2>5. Parents(path, i, n + 1) <= Names(path, i, n + 1)
    BY <2>3, <2>4
  <2>6. Standing(path, i, n + 1)
    BY <2>1, <2>2, <2>5, StandingStep
  <2>7. Names(path, i, n + 1) = Parents(path, i, n + 1) + ((l + 1) - m)
    BY <1>4, <2>2, <2>3
  <2>8. QED
    BY <2>1, <2>6, <2>7
<1>14. /\ Standing(path, to[l + 1], n + 1)
       /\ Names(path, to[l + 1], n + 1) = Parents(path, to[l + 1], n + 1) + ((l + 1) - (l + 1))
  <2> DEFINE i == n + 1
  <2>1. i \in Nat /\ i <= i
    OBVIOUS
  <2>2. Standing(path, i, i)
    BY StandingStep
  <2> HIDE DEF i
  <2>3. Names(path, i, i) = 0 /\ Parents(path, i, i) = 0
    BY <2>1, CountStep
  <2>4. (l + 1) - (l + 1) = 0
    BY <1>4
  <2>5. QED
    BY <1>9, <2>2, <2>3, <2>4 DEF i
<1>15. ASSUME NEW i \in 1..(n + 1), Standing(path, i, n + 1)
       PROVE  \E m \in 1..(l + 1) : to[m] = i
  <2>1. CASE i = n + 1
    <3>1. l + 1 \in 1..(l + 1)
      BY <1>4
    <3>2. QED
      BY <1>9, <2>1, <3>1
  <2>2. CASE i # n + 1
    <3>1. i \in 1..n
      BY <2>2
    <3>2. Standing(path, i, n)
      BY <1>15, <3>1, StandingStep
    <3>3. PICK m \in 1..l : at[m] = i
      BY <1>3, <3>1, <3>2
    <3>4. m \in 1..(l + 1)
      BY <1>4
    <3>5. QED
      BY <1>8, <3>3, <3>4
  <2>3. QED
    BY <2>1, <2>2
<1>16. \A m \in 1..(l + 1) :
         /\ Standing(path, to[m], n + 1)
         /\ Names(path, to[m], n + 1) = Parents(path, to[m], n + 1) + ((l + 1) - m)
  BY <1>7, <1>13, <1>14
<1>17. Trace(path, n + 1, to)
  BY <1>5, <1>10, <1>11, <1>12, <1>15, <1>16 DEF Trace, after
<1>18. QED
  BY <1>17

\* A parent takes the last one that stands.
LEMMA TraceParent ==
  ASSUME NEW path \in Seq(Segments), NEW n \in Nat, n + 1 <= Len(path),
         NEW at, Trace(path, n, at), path[n + 1] = "..", Cleaned(path)[n] # <<>>
  PROVE  \E to : Trace(path, n + 1, to)
<1> DEFINE before == Cleaned(path)[n]
           after == Cleaned(path)[n + 1]
           l == Len(before)
           to == [m \in 1..(l - 1) |-> at[m]]
<1>1. n \in 0..Len(path) /\ n + 1 \in 1..Len(path) /\ (n + 1) - 1 = n /\ Len(path) \in Nat
  BY LenProperties
<1>2. before \in Seq(Segments) /\ path[n + 1] \in Segments /\ after = AfterSegment(before, path[n + 1])
  BY <1>1, CleanedRounds, ElementOfSeq
<1>3. /\ at \in [1..l -> 1..n]
      /\ \A m \in 1..l : before[m] = path[at[m]]
      /\ \A m, q \in 1..l : m < q => at[m] < at[q]
      /\ \A m \in 1..l : Standing(path, at[m], n)
      /\ \A i \in 1..n : Standing(path, i, n) => \E m \in 1..l : at[m] = i
      /\ \A m \in 1..l : Names(path, at[m], n) = Parents(path, at[m], n) + (l - m)
  BY DEF Trace
<1>4. l \in Nat /\ l # 0
  BY <1>2, LenProperties, EmptySeq
<1>5. ~IsName(path[n + 1])
  BY DEF IsName
<1> HIDE DEF before, after
<1>6. Len(after) = l - 1 /\ \A m \in 1..(l - 1) : after[m] = before[m]
  BY <1>2, AfterSegmentIs DEF before
<1> HIDE DEF l
<1>7. \A m \in 1..(l - 1) : m \in 1..l /\ to[m] = at[m] /\ to[m] \in 1..n
  BY <1>3, <1>4
<1>8. to \in [1..(l - 1) -> 1..(n + 1)]
  BY <1>7
<1> HIDE DEF to
<1>9. \A m \in 1..(l - 1) : after[m] = path[to[m]]
  BY <1>3, <1>6, <1>7
<1>10. \A m, q \in 1..(l - 1) : m < q => to[m] < to[q]
  BY <1>3, <1>7
<1>11. ASSUME NEW m \in 1..l
       PROVE  /\ Standing(path, at[m], n + 1) <=> m # l
              /\ m # l => Names(path, at[m], n + 1) = Parents(path, at[m], n + 1) + ((l - 1) - m)
  <2> DEFINE i == at[m]
  <2>1. i \in 1..n /\ i \in Nat /\ i <= n
    BY <1>3
  <2>2. Standing(path, i, n) /\ Names(path, i, n) = Parents(path, i, n) + (l - m)
    BY <1>3
  <2> HIDE DEF i
  <2>3. /\ Names(path, i, n) \in Nat /\ Parents(path, i, n) \in Nat
        /\ Names(path, i, n + 1) = Names(path, i, n) + 0
        /\ Parents(path, i, n + 1) = Parents(path, i, n) + 1
    BY <1>5, <2>1, CountStep
  <2>4. Parents(path, i, n + 1) <= Names(path, i, n + 1) <=> m # l
    BY <1>4, <2>2, <2>3
  <2>5. Standing(path, i, n + 1) <=> m # l
    BY <2>1, <2>2, <2>4, StandingStep
  <2>6. Names(path, i, n + 1) = Parents(path, i, n + 1) + ((l - 1) - m)
    BY <1>4, <2>2, <2>3
  <2>7. QED
    BY <2>5, <2>6 DEF i
<1>12. ASSUME NEW m \in 1..(l - 1)
       PROVE  /\ Standing(path, to[m], n + 1)
              /\ Names(path, to[m], n + 1) = Parents(path, to[m], n + 1) + ((l - 1) - m)
  <2>1. m \in 1..l /\ m # l
    BY <1>4
  <2>2. QED
    BY <1>7, <1>11, <2>1
<1>13. ASSUME NEW i \in 1..(n + 1), Standing(path, i, n + 1)
       PROVE  \E m \in 1..(l - 1) : to[m] = i
  <2>1. i # n + 1
    BY <1>5, <1>13, StandingStep
  <2>2. i \in 1..n
    BY <2>1
  <2>3. Standing(path, i, n)
    BY <1>13, <2>2, StandingStep
  <2>4. PICK m \in 1..l : at[m] = i
    BY <1>3, <2>2, <2>3
  <2>5. m # l
    BY <1>11, <1>13, <2>4
  <2>6. m \in 1..(l - 1)
    BY <1>4, <2>5
  <2>7. QED
    BY <1>7, <2>4, <2>6
<1>14. Trace(path, n + 1, to)
  BY <1>6, <1>8, <1>9, <1>10, <1>12, <1>13 DEF Trace, after
<1>15. QED
  BY <1>14

\* Anything else changes nothing.
LEMMA TraceNothing ==
  ASSUME NEW path \in Seq(Segments), NEW n \in Nat, n + 1 <= Len(path),
         NEW at, Trace(path, n, at), ~IsName(path[n + 1]),
         path[n + 1] = ".." => Cleaned(path)[n] = <<>>
  PROVE  Trace(path, n + 1, at)
<1> DEFINE before == Cleaned(path)[n]
           after == Cleaned(path)[n + 1]
           l == Len(before)
<1>1. n \in 0..Len(path) /\ n + 1 \in 1..Len(path) /\ (n + 1) - 1 = n /\ Len(path) \in Nat
  BY LenProperties
<1>2. before \in Seq(Segments) /\ path[n + 1] \in Segments /\ after = AfterSegment(before, path[n + 1])
  BY <1>1, CleanedRounds, ElementOfSeq
<1>3. /\ at \in [1..l -> 1..n]
      /\ \A m \in 1..l : before[m] = path[at[m]]
      /\ \A m, q \in 1..l : m < q => at[m] < at[q]
      /\ \A m \in 1..l : Standing(path, at[m], n)
      /\ \A i \in 1..n : Standing(path, i, n) => \E m \in 1..l : at[m] = i
      /\ \A m \in 1..l : Names(path, at[m], n) = Parents(path, at[m], n) + (l - m)
  BY DEF Trace
<1>4. l \in Nat /\ (before = <<>> => l = 0)
  BY <1>2, LenProperties, EmptySeq
<1>5. after = before
  BY <1>2, AfterSegmentIs
<1> HIDE DEF before, after, l
<1>6. at \in [1..l -> 1..(n + 1)]
  BY <1>3
<1>7. ASSUME NEW m \in 1..l
      PROVE  /\ Standing(path, at[m], n + 1)
             /\ Names(path, at[m], n + 1) = Parents(path, at[m], n + 1) + (l - m)
  <2> DEFINE i == at[m]
  <2>1. i \in 1..n /\ i \in Nat /\ i <= n
    BY <1>3
  <2>2. Standing(path, i, n) /\ Names(path, i, n) = Parents(path, i, n) + (l - m)
    BY <1>3
  <2> HIDE DEF i
  <2>3. path[n + 1] # ".."
    BY <1>4 DEF before, l
  <2>4. /\ Names(path, i, n) \in Nat /\ Parents(path, i, n) \in Nat
        /\ Names(path, i, n + 1) = Names(path, i, n) + 0
        /\ Parents(path, i, n + 1) = Parents(path, i, n) + 0
    BY <2>1, <2>3, CountStep
  <2>5. Parents(path, i, n) <= Names(path, i, n)
    BY <2>1, <2>2, StandingStep
  <2>6. Parents(path, i, n + 1) <= Names(path, i, n + 1)
    BY <2>4, <2>5
  <2>7. Standing(path, i, n + 1)
    BY <2>1, <2>2, <2>6, StandingStep
  <2>8. QED
    BY <2>2, <2>4, <2>7 DEF i
<1>8. ASSUME NEW i \in 1..(n + 1), Standing(path, i, n + 1)
      PROVE  \E m \in 1..l : at[m] = i
  <2>1. i # n + 1
    BY <1>8, StandingStep
  <2>2. i \in 1..n
    BY <2>1
  <2>3. Standing(path, i, n)
    BY <1>8, <2>2, StandingStep
  <2>4. QED
    BY <1>3, <2>2, <2>3
<1>9. QED
  BY <1>3, <1>5, <1>6, <1>7, <1>8 DEF Trace, before, after, l

\* By induction over the rounds.
LEMMA TraceExists ==
  ASSUME NEW path \in Seq(Segments), NEW n \in 0..Len(path)
  PROVE  \E at : Trace(path, n, at)
<1> DEFINE T == {k \in Nat : k <= Len(path) => \E at : Trace(path, k, at)}
<1>1. Len(path) \in Nat
  BY LenProperties
<1>2. 0 \in T
  <2> DEFINE at == [m \in 1..0 |-> 0]
  <2>1. Cleaned(path)[0] = <<>> /\ Len(<<>>) = 0
    BY CleanedRounds, EmptySeq
  <2>2. at \in [1..0 -> 1..0]
    OBVIOUS
  <2> HIDE DEF at
  <2>3. \A m \in 1..0 : FALSE
    OBVIOUS
  <2>4. Trace(path, 0, at)
    BY <2>1, <2>2, <2>3 DEF Trace
  <2>5. QED
    BY <2>4
<1>3. ASSUME NEW k \in Nat, k \in T PROVE k + 1 \in T
  <2> SUFFICES ASSUME k + 1 <= Len(path) PROVE \E at : Trace(path, k + 1, at)
    OBVIOUS
  <2>1. k <= Len(path)
    BY <1>1
  <2>2. PICK at : Trace(path, k, at)
    BY <1>3, <2>1
  <2>3. CASE IsName(path[k + 1])
    BY <2>2, <2>3, TraceName
  <2>4. CASE path[k + 1] = ".." /\ Cleaned(path)[k] # <<>>
    BY <2>2, <2>4, TraceParent
  <2>5. CASE ~IsName(path[k + 1]) /\ (path[k + 1] = ".." => Cleaned(path)[k] = <<>>)
    BY <2>2, <2>5, TraceNothing
  <2>6. QED
    BY <2>3, <2>4, <2>5
<1> HIDE DEF T
<1>4. Nat \subseteq T
  BY <1>2, <1>3, NumberInduction
<1>5. QED
  BY <1>1, <1>4 DEF T

\* What path.Clean leaves of a path, of any length, is what the reference reads.
THEOREM CleanIsRemaining ==
  ASSUME NEW path \in Seq(Segments) PROVE Clean(path) = Remaining(path)
<1> DEFINE n == Len(path)
           cleaned == Clean(path)
           l == Len(cleaned)
           K == {i \in DOMAIN path : Survives(path, i)}
<1>1. n \in Nat /\ n \in 0..n /\ DOMAIN path = 1..n
  BY LenProperties
<1>2. cleaned \in Seq(Segments)
  BY CleanIsNames
<1>3. l \in Nat /\ DOMAIN cleaned = 1..l /\ cleaned = [m \in 1..l |-> cleaned[m]]
  BY <1>2, LenProperties
<1>4. PICK at : Trace(path, n, at)
  BY <1>1, TraceExists
<1>5. \A i : Survives(path, i) <=> Standing(path, i, n)
  BY DEF Survives, Standing
<1>6. cleaned = Cleaned(path)[n]
  BY DEF Clean
<1> HIDE DEF n, cleaned
<1>7. /\ at \in [1..l -> 1..n]
      /\ \A m \in 1..l : cleaned[m] = path[at[m]]
      /\ \A m, q \in 1..l : m < q => at[m] < at[q]
      /\ \A m \in 1..l : Standing(path, at[m], n)
      /\ \A i \in 1..n : Standing(path, i, n) => \E m \in 1..l : at[m] = i
  BY <1>4, <1>6 DEF Trace
<1>8. K = {i \in 1..n : Standing(path, i, n)}
  BY <1>1, <1>5
<1> HIDE DEF l, K
<1>9. K \in SUBSET Nat /\ at \in [1..l -> K] /\ \A k \in K : \E m \in 1..l : at[m] = k
  BY <1>7, <1>8
<1>10. /\ Cardinality(K) = l
       /\ \A m \in 1..l : Cardinality({k \in K : k < at[m]}) = m - 1
  BY <1>3, <1>7, <1>9, ListingCounts
<1>11. ASSUME NEW m \in 1..l
       PROVE  path[CHOOSE i \in K : Cardinality({k \in K : k < i}) = m - 1] = cleaned[m]
  <2> DEFINE P(i) == Cardinality({k \in K : k < i}) = m - 1
  <2>1. at[m] \in K /\ P(at[m])
    BY <1>9, <1>10
  <2>2. ASSUME NEW i \in K, P(i) PROVE i = at[m]
    <3>1. PICK q \in 1..l : at[q] = i
      BY <1>9
    <3>2. q - 1 = m - 1
      BY <1>10, <2>2, <3>1
    <3>3. q = m
      BY <1>3, <3>2
    <3>4. QED
      BY <3>1, <3>3
  <2> HIDE DEF P
  <2>3. (CHOOSE i \in K : P(i)) = at[m]
    BY <2>1, <2>2
  <2>4. QED
    BY <1>7, <2>3 DEF P
<1>12. Remaining(path) = [m \in 1..Cardinality(K) |->
                            path[CHOOSE i \in K : Cardinality({k \in K : k < i}) = m - 1]]
  BY DEF Remaining, K
<1>13. Remaining(path) = [m \in 1..l |-> cleaned[m]]
  BY <1>10, <1>11, <1>12
<1>14. QED
  BY <1>3, <1>13 DEF cleaned

-----------------------------------------------------------------------------
(* Normalisation                                                           *)

\* Some ways to begin a path leave nothing when they are cleaned.
LEMMA CleanOfFew ==
  ASSUME NEW s \in Segments, NEW t \in Segments
  PROVE  /\ ~IsName(s) => Clean(<<s>>) = <<>>
         /\ IsName(s) /\ t = ".." => Clean(<<s>> \o <<t>>) = <<>>
<1>1. <<>> \in Seq(Segments) /\ Len(<<>>) = 0
  BY EmptySeq
<1>2. ASSUME ~IsName(s) PROVE Clean(<<s>>) = <<>>
  <2> DEFINE path == <<s>>
  <2>1. path \in Seq(Segments) /\ Len(path) = 1 /\ path[1] = s
    OBVIOUS
  <2> HIDE DEF path
  <2>2. 1 \in 1..Len(path) /\ 1 - 1 = 0
    BY <2>1
  <2>3. Cleaned(path)[1] = AfterSegment(<<>>, s)
    BY <2>1, <2>2, CleanedRounds
  <2>4. AfterSegment(<<>>, s) = <<>>
    BY <1>1, <1>2, AfterSegmentIs
  <2>5. QED
    BY <2>1, <2>3, <2>4 DEF Clean, path
<1>3. ASSUME IsName(s), t = ".." PROVE Clean(<<s>> \o <<t>>) = <<>>
  <2> DEFINE p == <<s>>
             q == <<t>>
             path == p \o q
             one == AfterSegment(<<>>, s)
             none == AfterSegment(one, t)
  <2>1. p \in Seq(Segments) /\ Len(p) = 1 /\ p[1] = s
    OBVIOUS
  <2>2. q \in Seq(Segments) /\ Len(q) = 1 /\ q[1] = t
    OBVIOUS
  <2> HIDE DEF p, q
  <2>3. path \in Seq(Segments) /\ Len(path) = Len(p) + Len(q)
    BY <2>1, <2>2, ConcatProperties
  <2>4. \A i \in 1..(Len(p) + Len(q)) : path[i] = IF i <= Len(p) THEN p[i] ELSE q[i - Len(p)]
    BY <2>1, <2>2, ConcatProperties
  <2> HIDE DEF path
  <2>5. path[1] = s
    BY <2>1, <2>2, <2>4
  <2>6. path[2] = q[2 - 1]
    BY <2>1, <2>2, <2>4
  <2>7. Len(path) = 2 /\ path[2] = t
    BY <2>1, <2>2, <2>3, <2>6
  <2>8. 1 \in 1..Len(path) /\ 2 \in 1..Len(path) /\ 1 - 1 = 0 /\ 2 - 1 = 1
    BY <2>7
  <2>9. Cleaned(path)[1] = one
    BY <2>3, <2>5, <2>8, CleanedRounds
  <2>10. Cleaned(path)[2] = none
    BY <2>3, <2>7, <2>8, <2>9, CleanedRounds
  <2>11. one \in Seq(Segments) /\ none \in Seq(Segments)
    <3>1. one \in Seq(Segments)
      BY <1>1, AfterSegmentTyped
    <3> HIDE DEF one
    <3>2. AfterSegment(one, t) \in Seq(Segments)
      BY <3>1, AfterSegmentTyped
    <3>3. QED
      BY <3>1, <3>2
  <2>12. Len(one) = 1
    <3>1. Len(one) = Len(<<>>) + 1
      BY <1>1, <1>3, AfterSegmentIs
    <3> HIDE DEF one
    <3>2. QED
      BY <1>1, <3>1
  <2> HIDE DEF one
  <2>13. one # <<>>
    BY <1>1, <2>12
  <2>14. Len(none) = 0
    BY <1>3, <2>11, <2>12, <2>13, AfterSegmentIs
  <2>15. none = <<>>
    <3> HIDE DEF none
    <3>1. QED
      BY <2>11, <2>14, EmptySeq
  <2>16. QED
    BY <2>7, <2>10, <2>15 DEF Clean, path, p, q
<1>4. QED
  BY <1>2, <1>3

LEMMA OnlyElement ==
  ASSUME NEW S, NEW e, <<e>> \in Seq(S) PROVE e \in S
<1> DEFINE d == <<e>>
<1>1. d \in Seq(S) /\ d[1] = e
  OBVIOUS
<1>2. 1 \in 1..Len(d)
  OBVIOUS
<1> HIDE DEF d
<1>3. d[1] \in S
  BY <1>1, <1>2, ElementOfSeq
<1>4. QED
  BY <1>1, <1>3

\* The beginnings that KeyIgnoresSpelling puts before a path.
Detours == {<<>>, <<".">>, <<"">>, <<"x", "%2e%2e">>}

LEMMA DetoursVanish ==
  ASSUME NEW p \in Detours, NEW path \in Seq(Tokens)
  PROVE  /\ p \o path \in Seq(Tokens)
         /\ Clean(DecodedPath(p \o path)) = Clean(DecodedPath(path))
<1>1. \A t \in {"", ".", "x"} : t \in Segments
  BY SpellingAssumption, UrlAssumption, OnlyElement
<1>2. ".." \in Segments
  BY SpellingAssumption, UrlAssumption, OnlyElement
<1>3. p \in Seq(Tokens)
  <2> DEFINE t == "x"
             u == "%2e%2e"
  <2>1. "." \in Tokens /\ "" \in Tokens /\ t \in Tokens /\ u \in Tokens
    BY SpellingAssumption
  <2>2. p = <<>> \/ p = <<".">> \/ p = <<"">> \/ p = <<t, u>>
    BY DEF Detours
  <2> HIDE DEF t, u
  <2>3. <<>> \in Seq(Tokens) /\ \A v, w \in Tokens : <<v, w>> \in Seq(Tokens)
    OBVIOUS
  <2>4. \A v \in Tokens : <<v>> \in Seq(Tokens)
    OBVIOUS
  <2>5. QED
    BY <2>1, <2>2, <2>3, <2>4
<1>4. Clean(DecodedPath(p)) = <<>>
  <2>1. CASE p = <<>>
    <3>1. <<>> \in Seq(Segments) /\ \A i \in 1..Len(<<>>) : IsName(<<>>[i])
      BY EmptySeq
    <3>2. QED
      BY <2>1, <3>1, DecodedOfFew, CleanOfNames
  <2>2. CASE p = <<".">>
    <3>1. DecodedPath(p) = <<".">>
      BY <2>2, DecodedOfFew, SpellingAssumption
    <3>2. ~IsName(".")
      BY DEF IsName
    <3>3. QED
      BY <1>1, <1>2, <3>1, <3>2, CleanOfFew
  <2>3. CASE p = <<"">>
    <3>1. DecodedPath(p) = <<"">>
      BY <2>3, DecodedOfFew, SpellingAssumption
    <3>2. ~IsName("")
      BY DEF IsName
    <3>3. QED
      BY <1>1, <1>2, <3>1, <3>2, CleanOfFew
  <2>4. CASE p = <<"x", "%2e%2e">>
    <3>1. DecodedPath(p) = <<"x">> \o <<"..">>
      BY <2>4, DecodedOfFew, SpellingAssumption
    <3>2. IsName("x")
      BY DEF IsName
    <3>3. QED
      BY <1>1, <1>2, <3>1, <3>2, CleanOfFew
  <2>5. QED
    BY <2>1, <2>2, <2>3, <2>4 DEF Detours
<1>5. p \o path \in Seq(Tokens)
  BY <1>3, ConcatProperties
<1>6. DecodedPath(p \o path) = DecodedPath(p) \o DecodedPath(path)
  BY <1>3, DecodedOfConcat
<1>7. QED
  BY <1>3, <1>4, <1>5, <1>6, DecodedIsPath, CleanAfterNothing

\* What the path of an URL is cleaned to.
PathOf(r) == Clean(DecodedPath(r.path))

\* An URL is accepted when it passes every check, and only then.
Acceptable(r) ==
  /\ r.parses /\ FoldedCase[r.scheme] = CertScheme
  /\ ~r.userinfo
  /\ HostPortOK(r)
  /\ UnderPrefix(PathOf(r))

LEMMA AcceptedWhenAcceptable ==
  ASSUME NEW r
  PROVE  /\ NormalizeCertChainURL(r).ok => Acceptable(r)
         /\ Acceptable(r) => NormalizeCertChainURL(r) = [ok |-> TRUE, url |-> CanonicalUrl(r)]
<1>1. \A e : ~Rejected(e).ok
  BY DEF Rejected
<1>2. \A path : ~PathError(path).ok
  BY <1>1 DEF PathError
<1>3. ASSUME NormalizeCertChainURL(r).ok PROVE Acceptable(r)
  BY <1>1, <1>2, <1>3 DEF NormalizeCertChainURL, Acceptable, PathOf
<1>4. ASSUME Acceptable(r)
      PROVE  NormalizeCertChainURL(r) = [ok |-> TRUE, url |-> CanonicalUrl(r)]
  BY <1>4 DEF NormalizeCertChainURL, Acceptable, PathOf
<1>5. QED
  BY <1>3, <1>4

\* Acceptable URLs with the same cleaned path and query have the same key.
LEMMA SameKey ==
  ASSUME NEW r, NEW q, Acceptable(r), Acceptable(q), PathOf(r) = PathOf(q), r.query = q.query
  PROVE  NormalizeCertChainURL(r) = NormalizeCertChainURL(q)
<1>1. CanonicalPath(r) = CanonicalPath(q)
  BY DEF CanonicalPath, PathOf
<1>2. CanonicalUrl(r) = CanonicalUrl(q)
  BY <1>1 DEF CanonicalUrl
<1>3. QED
  BY <1>2, AcceptedWhenAcceptable

-----------------------------------------------------------------------------
(* The properties of every spelling                                        *)

SpellingInv ==
  raw \in [parses : BOOLEAN, scheme : Schemes, userinfo : BOOLEAN, host : Hosts,
           port : Ports, path : Seq(Tokens), query : Queries, fragment : Fragments]

LEMMA PathTyped ==
  ASSUME SpellingInv
  PROVE  /\ raw.path \in Seq(Tokens)
         /\ DecodedPath(raw.path) \in Seq(Segments)
         /\ PathOf(raw) \in Seq(Segments)
         /\ PathOf(raw) = Remaining(DecodedPath(raw.path))
         /\ CanonicalPath(raw) = EncodedPath(PathOf(raw))
<1>1. raw.path \in Seq(Tokens)
  BY DEF SpellingInv
<1>2. DecodedPath(raw.path) \in Seq(Segments)
  BY <1>1, DecodedIsPath
<1>3. PathOf(raw) \in Seq(Segments) /\ PathOf(raw) = Remaining(DecodedPath(raw.path))
  BY <1>2, CleanIsNames, CleanIsRemaining DEF PathOf
<1>4. QED
  BY <1>1, <1>2, <1>3 DEF CanonicalPath, EncodedPath, PathOf

LEMMA InvIsConfined == SpellingInv => CanonicalIsConfined
<1> SUFFICES ASSUME SpellingInv, Result.ok
             PROVE  LET path == DecodedPath(Result.url.path) IN
                    /\ path = Remaining(DecodedPath(raw.path))
                    /\ path[1] = CertPrefix /\ Len(path) >= 2
                    /\ \A i \in DOMAIN path : IsName(path[i])
  BY DEF CanonicalIsConfined
<1> DEFINE path == PathOf(raw)
<1>1. Acceptable(raw) /\ Result = [ok |-> TRUE, url |-> CanonicalUrl(raw)]
  BY AcceptedWhenAcceptable DEF Result
<1>2. Result.url.path = EncodedPath(path)
  BY <1>1, PathTyped DEF CanonicalUrl
<1>3. DecodedPath(Result.url.path) = path
  BY <1>2, PathTyped, DecodedOfEncoded
<1>4. path[1] = CertPrefix /\ Len(path) >= 2
  BY <1>1 DEF Acceptable, UnderPrefix
<1>5. DOMAIN path = 1..Len(path)
  BY PathTyped, LenProperties
<1>6. \A i \in 1..Len(path) : IsName(path[i])
  BY PathTyped, CleanIsNames DEF PathOf
<1>7. QED
  BY <1>3, <1>4, <1>5, <1>6, PathTyped

LEMMA InvNamesTraversal == SpellingInv => TraversalIsNamed
<1> DEFINE decoded == DecodedPath(raw.path)
           left == Remaining(decoded)
           dots == \E i \in DOMAIN decoded : decoded[i] = ".."
<1> SUFFICES ASSUME SpellingInv,
                    raw.parses, ~raw.userinfo, HostPortOK(raw), FoldedCase[raw.scheme] = CertScheme
             PROVE  Result = Rejected("ErrCertURLTraversal") <=>
                      dots /\ ~(Len(left) >= 2 /\ left[1] = CertPrefix)
  BY DEF TraversalIsNamed
<1>1. UnderPrefix(PathOf(raw)) <=> Len(left) >= 2 /\ left[1] = CertPrefix
  BY PathTyped DEF UnderPrefix
<1>2. ASSUME UnderPrefix(PathOf(raw)) PROVE Result # Rejected("ErrCertURLTraversal")
  <2>1. Acceptable(raw)
    BY <1>2 DEF Acceptable
  <2>2. Result.ok
    BY <2>1, AcceptedWhenAcceptable DEF Result
  <2>3. ~Rejected("ErrCertURLTraversal").ok
    BY DEF Rejected
  <2>4. QED
    BY <2>2, <2>3
<1>3. ASSUME ~UnderPrefix(PathOf(raw)) PROVE Result = PathError(decoded)
  BY <1>3 DEF Result, NormalizeCertChainURL, PathOf
<1>4. PathError(decoded) = IF dots THEN Rejected("ErrCertURLTraversal") ELSE Rejected("ErrCertURLInvalid")
  BY DEF PathError
<1>5. Rejected("ErrCertURLTraversal") # Rejected("ErrCertURLInvalid")
  BY DEF Rejected
<1> HIDE DEF decoded, left, dots
<1>6. QED
  BY <1>1, <1>2, <1>3, <1>4, <1>5

LEMMA InvSharesKeys == SpellingInv => KeyIgnoresSpelling
<1> SUFFICES ASSUME SpellingInv, Result.ok
             PROVE  /\ \A s \in Schemes, h \in Hosts, f \in Fragments :
                         FoldedCase[s] = CertScheme /\ FoldedCase[h] = CertHost =>
                           NormalizeCertChainURL([raw EXCEPT !.scheme = s, !.host = h, !.port = CertPort,
                                                             !.fragment = f]) = Result
                    /\ \A p \in Detours :
                         NormalizeCertChainURL([raw EXCEPT !.path = p \o @]) = Result
                    /\ NormalizeCertChainURL([raw EXCEPT !.scheme = Result.url.scheme,
                                                         !.host = Result.url.host,
                                                         !.port = NoPort,
                                                         !.path = Result.url.path]) = Result
  BY DEF KeyIgnoresSpelling, Detours
<1>1. Acceptable(raw) /\ Result = [ok |-> TRUE, url |-> CanonicalUrl(raw)]
  BY AcceptedWhenAcceptable DEF Result
<1>2. ASSUME NEW s \in Schemes, NEW h \in Hosts, NEW f \in Fragments,
             FoldedCase[s] = CertScheme, FoldedCase[h] = CertHost
      PROVE  NormalizeCertChainURL([raw EXCEPT !.scheme = s, !.host = h, !.port = CertPort,
                                               !.fragment = f]) = Result
  <2> DEFINE r == [raw EXCEPT !.scheme = s, !.host = h, !.port = CertPort, !.fragment = f]
  <2>1. /\ r.parses = raw.parses /\ r.userinfo = raw.userinfo
        /\ r.scheme = s /\ r.host = h /\ r.port = CertPort
        /\ r.path = raw.path /\ r.query = raw.query
    BY DEF SpellingInv
  <2> HIDE DEF r
  <2>2. HostPortOK(r)
    BY <1>2, <2>1 DEF HostPortOK
  <2>3. PathOf(r) = PathOf(raw)
    BY <2>1 DEF PathOf
  <2>4. Acceptable(r)
    BY <1>1, <1>2, <2>1, <2>2, <2>3 DEF Acceptable
  <2>5. QED
    BY <1>1, <2>1, <2>3, <2>4, SameKey DEF Result, r
<1>3. ASSUME NEW p \in Detours
      PROVE  NormalizeCertChainURL([raw EXCEPT !.path = p \o @]) = Result
  <2> DEFINE longer == p \o raw.path
             r == [raw EXCEPT !.path = longer]
  <2> HIDE DEF longer
  <2>1. /\ r.parses = raw.parses /\ r.userinfo = raw.userinfo
        /\ r.scheme = raw.scheme /\ r.host = raw.host /\ r.port = raw.port
        /\ r.path = longer /\ r.query = raw.query
    BY DEF SpellingInv
  <2>2. r = [raw EXCEPT !.path = p \o @]
    BY DEF longer
  <2> HIDE DEF r
  <2>3. HostPortOK(r)
    BY <1>1, <2>1 DEF HostPortOK, Acceptable
  <2>4. PathOf(r) = PathOf(raw)
    BY <2>1, PathTyped, DetoursVanish DEF PathOf, longer
  <2>5. Acceptable(r)
    BY <1>1, <2>1, <2>3, <2>4 DEF Acceptable
  <2>6. QED
    BY <1>1, <2>1, <2>2, <2>4, <2>5, SameKey DEF Result
<1>4. NormalizeCertChainURL([raw EXCEPT !.scheme = Result.url.scheme, !.host = Result.url.host,
                                        !.port = NoPort, !.path = Result.url.path]) = Result
  <2> DEFINE path == PathOf(raw)
             encoded == EncodedPath(path)
             r == [raw EXCEPT !.scheme = CertScheme, !.host = CertHost, !.port = NoPort,
                              !.path = encoded]
  <2>1. /\ Result.url.scheme = CertScheme /\ Result.url.host = CertHost
        /\ Result.url.path = encoded
    BY <1>1, PathTyped DEF CanonicalUrl
  <2> HIDE DEF encoded
  <2>2. /\ r.parses = raw.parses /\ r.userinfo = raw.userinfo
        /\ r.scheme = CertScheme /\ r.host = CertHost /\ r.port = NoPort
        /\ r.path = encoded /\ r.query = raw.query
    BY DEF SpellingInv
  <2> HIDE DEF r
  <2>3. HostPortOK(r)
    BY <2>2, UrlAssumption DEF HostPortOK
  <2>4. DecodedPath(r.path) = path
    BY <2>2, PathTyped, DecodedOfEncoded DEF encoded
  <2>5. Clean(path) = path
    BY PathTyped, CleanIsNames, CleanOfNames DEF PathOf
  <2>6. PathOf(r) = PathOf(raw)
    BY <2>4, <2>5 DEF PathOf
  <2>7. Acceptable(r)
    BY <1>1, <2>2, <2>3, <2>6, UrlAssumption DEF Acceptable
  <2>8. NormalizeCertChainURL(r) = Result
    BY <1>1, <2>2, <2>6, <2>7, SameKey DEF Result
  <2>9. QED
    BY <2>1, <2>8 DEF r
<1>5. QED
  BY <1>2, <1>3, <1>4

LEMMA SpellingInvHolds == SpellingSpec => []SpellingInv
<1>1. SpellingInit => SpellingInv
  <2>1. <<>> \in Seq(Tokens)
    BY EmptySeq
  <2>2. QED
    BY <2>1 DEF SpellingInit, SpellingInv
<1>2. SpellingInv /\ [SpellingNext]_raw => SpellingInv'
  <2> SUFFICES ASSUME SpellingInv, [SpellingNext]_raw PROVE SpellingInv'
    OBVIOUS
  <2>1. CASE SpellingNext
    <3>1. PICK token \in Tokens : AddSegment(token)
      BY <2>1 DEF SpellingNext
    <3> DEFINE longer == Append(raw.path, token)
    <3>2. longer \in Seq(Tokens)
      BY PathTyped, AppendProperties
    <3>3. raw' = [raw EXCEPT !.path = longer]
      BY <3>1 DEF AddSegment
    <3> HIDE DEF longer
    <3>4. QED
      BY <3>2, <3>3 DEF SpellingInv
  <2>2. CASE UNCHANGED raw
    BY <2>2 DEF SpellingInv
  <2>3. QED
    BY <2>1, <2>2
<1>3. QED
  BY <1>1, <1>2, PTL DEF SpellingSpec

\* Whatever URL is accepted, of any length and in any encoding, a server that
\* decodes the canonical form stays under the prefix.
THEOREM AcceptedAreConfined == SpellingSpec => []CanonicalIsConfined
BY SpellingInvHolds, InvIsConfined, PTL

\* A path with ".." in it that leads out of the prefix is named a traversal, and
\* no other one is.
THEOREM TraversalsAreNamed == SpellingSpec => []TraversalIsNamed
BY SpellingInvHolds, InvNamesTraversal, PTL

\* Every spelling of an accepted URL has its key, the canonical one among them.
THEOREM KeysIgnoreSpelling == SpellingSpec => []KeyIgnoresSpelling
BY SpellingInvHolds, InvSharesKeys, PTL

=============================================================================
