---------------------------- MODULE MCLiveSearch ----------------------------
(***************************************************************************)
(* Instances of LiveSearch for TLC: sessions A (an active and an archived  *)
(* path) and B (a path with a name of its own), saying things in which     *)
(* the query occurs at once, later, or only to the reader's eye.           *)
(***************************************************************************)
EXTENDS LiveSearch, TLC

CONSTANTS A, B, m1

TwoSessions == {A, B}
ThreePaths == {1, 2, 3}
ArchivedPath == {1}
AllButThree == Path \ {3}
EachItsOwn == [p \in Path |-> IF p = 3 THEN {B} ELSE {A}]
Times == [p \in Path |-> IF p = 3 THEN 0 ELSE 1]

\* Path 2 lies in one day's directory, path 3 in a later day's.
Days == [p \in Path |-> p]

\* Limits of one and of two, the latter with a filter as well.
OneOrAll ==
    {[limit |-> 1, wanted |-> Session], [limit |-> 2, wanted |-> Session],
     [limit |-> 2, wanted |-> {A}]}

\* x " y and a space, which an indexed search leaves off: said by B at once and by A
\* in its second message; A's first ends with the y.
QuotedQuery == <<"x", "quote", "y", "space">>
PlainTalk == [s \in Session |->
    IF s = B THEN <<<<<<"x", "quote", "y", "space", "angle">>>>, <<<<"newline">>>>>>
    ELSE <<<<<<"angle", "x", "quote", "y">>>>,
           <<<<"x">>, <<"x", "quote", "y", "space", "angle">>>>>>]

\* x y, said with a line break by A and in two parts by B.
SpacedQuery == <<"x", "space", "y">>
BrokenTalk == [s \in Session |->
    IF s = B THEN <<<<<<"x">>, <<"y">>>>, <<<<"y">>>>>>
    ELSE <<<<<<"x", "newline", "y">>>>, <<<<"x">>>>>>]
=============================================================================
