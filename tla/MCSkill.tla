------------------------------ MODULE MCSkill ------------------------------
(***************************************************************************)
(* Skill with titles of up to two characters.                              *)
(***************************************************************************)
EXTENDS Skill

Chars == {<<"a", "lower">>, <<"a", "upper">>, <<"b", "lower">>, <<"-", "other">>, <<" ", "space">>}

MCConfigured == UNION {[1..n -> Chars] : n \in 0..2}

MCHeard ==
  {<<>>, <<<<"-", "other">>>>, <<<<"a", "lower">>>>, <<<<"b", "lower">>>>,
   <<<<"a", "upper">>, <<"-", "other">>>>, <<<<"a", "lower">>, <<"b", "lower">>>>,
   <<<<"b", "lower">>, <<"a", "lower">>>>}

=============================================================================
