---------------------------- MODULE MCMediaRoute ----------------------------
(***************************************************************************)
(* MediaRoute with descriptors that are right, or wrong in one thing.      *)
(***************************************************************************)
EXTENDS MediaRoute

Good == [json |-> "object", title |-> <<<<"a", "upper">>>>, author |-> "string", mp3 |-> "local"]

MCDescriptors ==
  {Good} \cup
  {[Good EXCEPT !.json = j] : j \in {"malformed", "unknownMember", "trailing"}} \cup
  {[Good EXCEPT !.title = t] : t \in {<<>>, <<<<" ", "space">>>>, <<<<"-", "other">>>>}} \cup
  {[Good EXCEPT !.author = a] : a \in {"absent", "null", "notString"}} \cup
  {[Good EXCEPT !.mp3 = m] : m \in {"blank", "absolute", "parent", "reserved"}}

=============================================================================
