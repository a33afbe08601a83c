------------------------------ MODULE MCRefresh -----------------------------
(***************************************************************************)
(* Instances of Refresh for TLC.                                           *)
(***************************************************************************)
EXTENDS Refresh, TLC

CONSTANTS A, B, m1, m2, r1, r2

\* Session A has an active path (2) and an archived one (1), B an active one (3).
TwoSessions == {A, B}
ThreePaths == {1, 2, 3}
ArchivedPath == {1}
AllButThree == Path \ {3}
EachItsOwn == [p \in Path |-> IF p = 3 THEN {B} ELSE {A}]
Times == [p \in Path |-> IF p = 3 THEN 0 ELSE 1]

\* Path 2 lies in one day's directory, path 3 in a later day's.
Days == [p \in Path |-> p]

\* The active path (2) of session A is also where a session B may turn up.
SharedPath == [p \in Path |-> IF p = 2 THEN {A, B} ELSE EachItsOwn[p]]

\* One session, at one active path.
OneSession == {A}
OnePath == {2}
NoPaths == {}

Symmetry == Permutations(MTime) \cup Permutations(Refresher)
=============================================================================
