----------------------------- MODULE FifoCache -----------------------------
(***************************************************************************)
(* What the certificate cache promises, without counters: at most Capacity *)
(* URLs, each naming the chain last stored for it, leaving in the order in *)
(* which they entered.  The order of entry is a relation: <<u, v>> is in   *)
(* `before' when u entered before v.  Storing a chain under a URL that is  *)
(* present does not move the URL.                                          *)
(***************************************************************************)
EXTENDS Naturals, FiniteSets

CONSTANTS Urls, Chains, Capacity

VARIABLES
  content,   \* the URLs present and the chain each names
  before     \* the order in which they entered

Present == DOMAIN content

Init ==
  /\ Present = {}
  /\ before = {}

\* The URL that entered before every other one.
IsFirst(k) == k \in Present /\ \A v \in Present \ {k} : <<k, v>> \in before

\* Storing under a URL that is present touches nothing but its chain.
Refresh(u, c) ==
  /\ u \in Present
  /\ content' = [content EXCEPT ![u] = c]
  /\ UNCHANGED before

\* kept is what stays: everything while there is room, else all but the first.
Keeps(kept) ==
  \/ Cardinality(Present) < Capacity /\ kept = Present
  \/ Cardinality(Present) = Capacity /\ \E k \in Present : IsFirst(k) /\ kept = Present \ {k}

Enter(u, c) ==
  /\ u \notin Present
  /\ \E kept \in SUBSET Present :
       /\ Keeps(kept)
       /\ content' = [v \in kept \cup {u} |-> IF v = u THEN c ELSE content[v]]
       /\ before' = (before \cap (kept \X kept)) \cup (kept \X {u})

\* A URL leaves on account of the chain it names, never of an earlier one.
Leave(u, c) ==
  /\ u \in Present
  /\ content[u] = c
  /\ content' = [v \in Present \ {u} |-> content[v]]
  /\ before' = before \cap ((Present \ {u}) \X (Present \ {u}))

Next == \E u \in Urls, c \in Chains : Refresh(u, c) \/ Enter(u, c) \/ Leave(u, c)

Spec == Init /\ [][Next]_<<content, before>>

=============================================================================
