--------------------------- MODULE IndexedCommands ---------------------------
(***************************************************************************)
(* The commands that read the derived index: "cxq search --index", "pack"  *)
(* (a projection of it), "status", and "compare", which first searches the *)
(* live files.  Each checks that the database exists, opens it, asks one   *)
(* query and closes it, while other processes refresh or remove it.        *)
(*                                                                         *)
(* Compare's live half is the search of LiveSearch: Compare goes on where  *)
(* that search has returned.                                               *)
(***************************************************************************)
EXTENDS LiveSearch

ASSUME UnsetAssumption ==
    /\ None \notin {"missing", "present"}
    /\ None \notin 0..MaxLen

VARIABLES
    command,    \* the frame of Search, Status or Compare of internal/indexer
    database,   \* "missing" or "present", while a command runs
    removed     \* history: the database was removed since the command began

indexedVars == <<command, database, removed>>

NoCommand(outcome) ==
    [kind |-> None, pc |-> "idle", outcome |-> outcome, wanted |-> {}, limit |-> 1,
     made |-> FALSE,        \* OpenSQLite has made the database
     found |-> <<>>,        \* the sessions the index returned
     entries |-> <<>>,      \* Compare's, of [id, status]
     current |-> FALSE]     \* history: the index read was that of the files then

IndexedInit == command = NoCommand("none") /\ database = None /\ removed = FALSE

Goes(c) == command' = c /\ UNCHANGED <<database, removed>>

\* The store, if open, is closed and the command returns.
Ends(c, outcome) ==
    /\ command' = [c EXCEPT !.pc = "idle", !.outcome = outcome]
    /\ database' = None /\ removed' = removed

-----------------------------------------------------------------------------
(* What the index says. *)

\* The records that match to the index.
Indexed == [s \in Session |-> {k \in DOMAIN Says[s] : IndexMatches(Query, Says[s][k])}]

\* The states refreshes may have left the index in: of each session nothing, or
\* what its rollout held at some time (Refresh.tla).
Indexes ==
    {i \in [Session -> 0..MaxLen \cup {None}] :
        \A s \in Session : i[s] # None => \E p \in Path : s \in MayHold[p] /\ i[s] <= high[p][s]}

MirrorsFiles(i) ==
    \A s \in Session :
        /\ \A p \in Newest(Path, s) : i[s] = fs[p].len
        /\ Newest(Path, s) = {} => i[s] = None

\* A slip: the query is not trimmed.
IndexHitsUntrimmed(i) ==
    {s \in Session : i[s] # None /\ \E k \in DOMAIN Says[s] :
        k <= i[s] /\ Occurs(Query, TrimSpace(ConversationText(Says[s][k])))}

IndexHits(i) == {s \in Session : i[s] # None /\ \E k \in Indexed[s] : k <= i[s]}

\* A slip: the limit is compared before the session is added.
BestAndOneMore(hits, limit) ==
    LET n == IF Cardinality(hits) < limit + 1 THEN Cardinality(hits) ELSE limit + 1 IN
    {answer \in [1..n -> hits] : \A j, k \in 1..n : answer[j] = answer[k] => j = k}

\* In whatever order the ranking gives, as many as there are up to the limit.
Best(hits, limit) ==
    LET n == IF Cardinality(hits) < limit THEN Cardinality(hits) ELSE limit IN
    {answer \in [1..n -> hits] : \A j, k \in 1..n : answer[j] = answer[k] => j = k}

\* index.Search returns distinct sessions (IndexSearch.tla).
Answers(i, c) == Best(IndexHits(i) \cap c.wanted, c.limit)

-----------------------------------------------------------------------------
(* Compare's classification of what the two backends returned. *)

\* The ids that are not in the order yet, one after another.
AddNew(order, ids) ==
    Seqs!FoldLeft(LAMBDA seen, id : IF Seqs!Contains(seen, id) THEN seen ELSE Append(seen, id),
                  order, ids)

Status(id, live, indexed) ==
    IF ~Seqs!Contains(live, id) THEN "index-only"
    ELSE IF Seqs!Contains(indexed, id) THEN "both" ELSE "live-only"

Labelled(order, live, indexed) ==
    [k \in DOMAIN order |-> [id |-> order[k], status |-> Status(order[k], live, indexed)]]

\* A slip: what live search returned too is listed again.
ClassifyApart(live, indexed) == Labelled(live \o indexed, live, indexed)

\* The sessions of live search in its order, then what only the index returned.
Classify(live, indexed) == Labelled(AddNew(live, indexed), live, indexed)

LiveIDs == [k \in DOMAIN search.matches |-> search.matches[k].id]

\* Of each backend the unique sessions.
Entries(found) == Classify(AddNew(<<>>, LiveIDs), AddNew(<<>>, found))

-----------------------------------------------------------------------------
(* The commands.  What the database is matters from their first look at it. *)

BeginIndexed ==
    /\ command.pc = "idle"
    /\ \E kind \in {"search", "status"}, options \in Searches :
         command' = [NoCommand("none") EXCEPT !.kind = kind, !.pc = "stat",
                       !.limit = options.limit, !.wanted = options.wanted]
    /\ database' \in {"missing", "present"} /\ removed' = FALSE

\* Live search has returned without an error.
BeginCompare ==
    /\ command.pc = "idle" /\ search.pc = "idle" /\ search.outcome \in {"clean", "warned"}
    /\ command' = [NoCommand("none") EXCEPT !.kind = "compare", !.pc = "stat",
                     !.limit = search.limit, !.wanted = search.wanted]
    /\ database' \in {"missing", "present"} /\ removed' = FALSE

\* A slip: the database is opened whether or not it is there.
StatNothing ==
    /\ command.pc = "stat"
    /\ Goes([command EXCEPT !.pc = "open"])

\* os.Stat: without a database the command refuses.
Stat ==
    /\ command.pc = "stat"
    /\ \/ database = "missing" /\ Ends(command, "no index")
       \/ database = "present" /\ Goes([command EXCEPT !.pc = "open"])

\* OpenSQLite makes the database if it is not there (any more).
Open ==
    /\ command.pc = "open"
    /\ command' = [command EXCEPT !.pc = "query", !.made = (database = "missing")]
    /\ database' = "present" /\ removed' = removed

\* One query, one snapshot of what was opened, be the file unlinked by now.
AskIndex ==
    /\ command.pc = "query"
    /\ \E i \in Indexes : \E answer \in Answers(i, command) :
         LET read == [command EXCEPT !.found = answer, !.current = MirrorsFiles(i)] IN
         \/ command.kind = "search" /\ Ends(read, "ok")
         \/ command.kind = "compare" /\ Ends([read EXCEPT !.entries = Entries(answer)], "ok")

\* Status counts the sessions and looks at the file once more for its size.
CountSessions ==
    \/ /\ command.pc = "query" /\ command.kind = "status"
       /\ Goes([command EXCEPT !.pc = "restat"])
    \/ /\ command.pc = "restat"
       /\ Ends(command, IF database = "missing" THEN "error" ELSE "ok")

\* Any call may fail; a query whose context was cancelled does.
Fails == command.pc \in {"stat", "open", "query"} /\ Ends(command, "error")

IndexedWork ==
    \/ command.kind # "status" /\ AskIndex
    \/ command.kind = "status" /\ CountSessions
    \/ Stat \/ Open \/ Fails

\* Meanwhile the database is deleted, or made by "cxq index" in another process.
DatabaseDisturbed ==
    /\ command.pc # "idle" /\ command' = command
    /\ \/ database = "present" /\ database' = "missing" /\ removed' = TRUE
       \/ database = "missing" /\ database' = "present" /\ removed' = removed

-----------------------------------------------------------------------------
(* Properties. *)

(***************************************************************************)
(* The frame has its type, and the database is looked at only by a command *)
(* that runs.                                                              *)
(***************************************************************************)
IndexedTypeOK ==
    /\ command.kind \in {None, "search", "status", "compare"}
    /\ command.pc \in {"idle", "stat", "open", "query", "restat"}
    /\ command.outcome \in {"none", "no index", "ok", "error"}
    /\ command.wanted \subseteq Session /\ command.limit \in Nat \ {0}
    /\ command.found \in Seq(Session) /\ Len(command.found) <= command.limit
    /\ command.entries \in
         Seq([id : Session, status : {"both", "live-only", "index-only"}])
    /\ command.made \in BOOLEAN /\ command.current \in BOOLEAN
    /\ database \in {None, "missing", "present"} /\ (database = None <=> command.pc = "idle")
    /\ removed \in BOOLEAN

(***************************************************************************)
(* A command "requires an existing index and does not create one           *)
(* implicitly" (README.md:182; indexer/search.go:34-36), unless the        *)
(* database was removed under it, between its os.Stat and OpenSQLite.      *)
(***************************************************************************)
ExistingIndexOnly == command.made => removed

Compared == command.pc = "idle" /\ command.kind = "compare" /\ command.outcome = "ok"

\* The entries with one of these statuses.
Having(statuses) ==
    {command.entries[k].id : k \in {j \in DOMAIN command.entries : command.entries[j].status \in statuses}}

\* Where live search has a session first.
LiveRank(id) ==
    CHOOSE k \in DOMAIN search.matches :
        search.matches[k].id = id /\ \A j \in 1..k - 1 : search.matches[j].id # id

\* Where the index has it first.
IndexRank(id) ==
    CHOOSE k \in DOMAIN command.found :
        command.found[k] = id /\ \A j \in 1..k - 1 : command.found[j] # id

(***************************************************************************)
(* Compare accounts for the unique sessions of both backends (compare.go:  *)
(* 44-45): each is in one entry only, those of live search come first and  *)
(* in its order, after them those only the index returned, in the order of *)
(* the index, and the statuses say which backends returned it.  Live       *)
(* search may return a session twice, when its rollout was archived while  *)
(* the search ran.                                                         *)
(***************************************************************************)
ComparisonAccounts ==
    Compared =>
        LET e == command.entries
            found == {command.found[k] : k \in DOMAIN command.found} IN
        /\ \A j, k \in DOMAIN e : e[j].id = e[k].id => j = k
        /\ Having({"both", "live-only"}) = Reported
        /\ Having({"both", "index-only"}) = found
        /\ \A j, k \in DOMAIN e : j < k =>
             /\ e[k].id \in Reported => e[j].id \in Reported
             /\ {e[j].id, e[k].id} \subseteq Reported => LiveRank(e[j].id) < LiveRank(e[k].id)
             /\ e[j].id \notin Reported => IndexRank(e[j].id) < IndexRank(e[k].id)

(***************************************************************************)
(* When nothing has changed, the index is up to date and neither backend   *)
(* was cut off by --limit, the comparison shows how they match, and        *)
(* nothing else: a session is live-only if it matches to a reader and not  *)
(* as it is stored, and index-only the other way round (an indexed search  *)
(* trims the query, a live one does not).  With ripgrep that is so where   *)
(* it lists what matches to a reader (RipgrepOnlyFilters has the rest),    *)
(* and a session may also be live-only for a copy that is not the newest,  *)
(* which ripgrep passes on alone (Searched) and the index does not have.   *)
(***************************************************************************)
QuietComparisonAgrees ==
    Compared /\ UndisturbedSearch /\ command.current /\ (search.rg => Listed = Matching)
      /\ Len(search.matches) < search.limit /\ Len(command.found) < command.limit =>
        LET live == {s \in search.wanted : \E p \in Searched(s) : Hits(p)}
            indexed == {s \in search.wanted :
                          \E p \in Newest(Path, s) : \E k \in Indexed[s] : k <= fs[p].len} IN
        /\ Having({"both"}) = live \cap indexed
        /\ Having({"live-only"}) = live \ indexed
        /\ Having({"index-only"}) = indexed \ live
=============================================================================
