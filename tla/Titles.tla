------------------------------- MODULE Titles -------------------------------
(***************************************************************************)
(* Titles of book.go: what a spoken title and a configured one are         *)
(* compared by.  A character is a pair of its identity, with case apart,   *)
(* and its class; digits and combining marks count as lower-case letters.  *)
(***************************************************************************)
EXTENDS Naturals, Sequences, FiniteSets

Character == STRING \X {"lower", "upper", "space", "other"}

IsLetter(c) == c[2] \in {"lower", "upper"}

ToLower(c) == <<c[1], "lower">>

\* What the loop of normalizeTitle has written after each character: letters,
\* digits and marks, in lower case.
Normalized(title) ==
  LET upTo[i \in 0..Len(title)] ==
        CASE i = 0 -> <<>>
          [] i > 0 /\ IsLetter(title[i]) -> Append(upTo[i - 1], ToLower(title[i]))
          [] OTHER -> upTo[i - 1]
  IN  upTo

NormalizeTitle(title) == Normalized(title)[Len(title)]

\* strings.TrimSpace leaves nothing.
Blank(text) == \A i \in DOMAIN text : text[i][2] = "space"

\* Deliberate mistake: any title that is not blank will do.
TitleNotBlank(title) == ~Blank(title)

\* The checks of loadBook on the configured title.
TitleUsable(title) == ~Blank(title) /\ NormalizeTitle(title) # <<>>

-----------------------------------------------------------------------------
(* What a title says, without normalising it: its letters by position      *)
(* among the letters.                                                      *)

LettersIn(title) == {i \in DOMAIN title : IsLetter(title[i])}

Said(title) ==
  {<<Cardinality({j \in LettersIn(title) : j <= i}), title[i][1]>> : i \in LettersIn(title)}

=============================================================================
