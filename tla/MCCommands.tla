------------------------------ MODULE MCCommands ------------------------------
(***************************************************************************)
(* Instances of Commands for TLC: the files, searches and sayings of       *)
(* MCLiveSearch, two ids of which one begins the other, and conversations  *)
(* of a few short messages.                                                *)
(***************************************************************************)
EXTENDS Commands, MCLiveSearch

\* The id of A begins that of B.
Ids == [s \in Session |-> IF s = A THEN "ca" ELSE "cab"]
Selectors == {"c", "ca", "cab", "x"}
Beginnings == [s \in Session |-> IF s = A THEN {"c", "ca"} ELSE {"c", "ca", "cab"}]

OnlySpace == {<<<<"space">>>>}

\* One text in two shapes, and another.
ShortContents == {<<<<"x">>>>, <<<<"x", "newline">>, <<"space">>>>, <<<<"x">>, <<"y">>>>}
=============================================================================
