---------------------------- MODULE MCSqliteIndex ---------------------------
(***************************************************************************)
(* An instance of SqliteIndex and IndexSearch for TLC: two sessions, two   *)
(* rollout paths, message lists that are empty, short, longer, and repeat  *)
(* an ordinal, and searches for a short and a long query.                  *)
(***************************************************************************)
EXTENDS IndexSearch

CONSTANTS A, B, p1, p2, x, y

Sharp(sec) == [sec |-> sec, frac |-> <<>>]
Half(sec) == [sec |-> sec, frac |-> <<5>>]

\* Sessions of the same time, of the same second and of different ones, in two
\* projects.
Rows ==
    {[path |-> p1, time |-> Sharp(1), project |-> "P"],
     [path |-> p2, time |-> Sharp(1), project |-> "Q"],
     [path |-> p2, time |-> Half(1), project |-> "Q"],
     [path |-> p2, time |-> Half(2), project |-> "P"]}

Messages == [ord : {0, 1}, text : {x, y}]

Paired == <<[ord |-> 0, text |-> y], [ord |-> 1, text |-> x]>>

Lists ==
    {<<>>,
     <<[ord |-> 0, text |-> x]>>,
     Paired,
     <<[ord |-> 0, text |-> x], [ord |-> 0, text |-> y]>>}

Entries == [id : Session, row : Rows, msgs : Lists]

\* Single entries, and pairs of different sessions that may exchange paths.
\* The list Paired heads a pair and never comes alone: publishing it without the
\* second entry is then no write of the contract.
SmallBatches ==
    {<<e>> : e \in {g \in Entries : g.msgs # Paired}}
    \cup {<<e, f>> : e \in {g \in Entries : g.id = A /\ g.msgs = Paired},
                     f \in {g \in Entries : g.id = B /\ g.msgs # Paired}}

\* Both queries occur in x, the short one in y too.
Occurrences == {<<x, "go">>, <<x, "goroutine">>, <<y, "go">>}

Short == {"go"}

Searches == [query : {"go", "goroutine"}, limit : {1, 2}, project : {Anywhere, "P"}]
=============================================================================
