----------------------------- MODULE LiveSearch -----------------------------
(***************************************************************************)
(* "cxq search": internal/codex's SearchContext over rollout files that    *)
(* move and grow meanwhile.  Three passes: find the candidates (ripgrep    *)
(* when there is one, else the walk of DiscoverFilesContext), read their   *)
(* metadata to rank them, and scan them newest first.  Every file read is  *)
(* a step of its own.                                                      *)
(***************************************************************************)
EXTENDS Discovery, SearchText

CONSTANTS
    Says,       \* [Session -> sequence of messages]: the k-th record's message
    Query,      \* the query, a text
    Searches,   \* the options [limit, wanted] of searches: --limit, and the
                \* sessions --project and --source admit
    None        \* an unset local

ASSUME SearchAssumption ==
    /\ Searches \subseteq [limit : Nat \ {0}, wanted : SUBSET Session]
    /\ \A s \in Session :
         LET n == Len(Says[s]) IN n \in Nat /\ n >= MaxLen /\ DOMAIN Says[s] = 1..n
    /\ Query # <<>>
ASSUME NoneAssumption == None \notin Path

VARIABLES
    search,         \* the frame of SearchContext
    \* History of the last search:
    quiet,          \* no file has changed since it began
    lasting,        \* the sessions all of whose copies have matched since it began
    interrupted     \* Ctrl+C came before it returned

vars == <<filesVars, search, quiet, lasting, interrupted>>

\* The records that match, to the scan and to ripgrep.
Matching == [s \in Session |-> {k \in DOMAIN Says[s] : Matches(Query, Says[s][k])}]

Listed == [s \in Session |-> {k \in DOMAIN Says[s] : LineMatches(Query, Says[s][k])}]

\* A rollout matches if something in it does, as far as it is written.
Hits(p) == \E k \in Matching[fs[p].sid] : k <= fs[p].len

RawHits(p) == \E k \in Listed[fs[p].sid] : k <= fs[p].len

Copies(s) == {p \in Path : Parses(p) /\ ParsedID(p) = s}

AllHit == {s \in Session : Copies(s) # {} /\ \A p \in Copies(s) : Hits(p)}

Fresh(pc, rg, options) ==
    [pc |-> pc, rg |-> rg, limit |-> options.limit, wanted |-> options.wanted,
     cancelled |-> FALSE, outcome |-> "none",
     roots |-> {Archived, Path \ Archived}, \* not yet listed by ripgrep
     cut |-> FALSE,                         \* a directory vanished during the walk
     unparsed |-> {},                       \* candidates not yet parsed
     byId |-> [s \in Session |-> None],
     broken |-> {},                         \* candidates without metadata
     todo |-> {},                           \* ranked sessions not yet scanned
     cur |-> None, warned |-> FALSE,
     matches |-> <<>>]                      \* of [id, path]

NoOptions == [limit |-> 1, wanted |-> {}]

Init ==
    /\ FilesInit
    /\ search = Fresh("idle", FALSE, NoOptions)
    /\ quiet = FALSE /\ lasting = {} /\ interrupted = FALSE

Become(s) == search' = s

Return(outcome) ==
    Become([Fresh("idle", search.rg, search) EXCEPT
              !.outcome = outcome, !.matches = search.matches, !.cut = search.cut])

-----------------------------------------------------------------------------
(* The search, step by step.  A cancelled context is seen by the next one. *)

Start ==
    /\ search.pc = "idle"
    /\ \E rg \in BOOLEAN, options \in Searches :
         Become(Fresh(IF rg THEN "ripgrep" ELSE "walkActive", rg, options))
    /\ quiet' = TRUE /\ lasting' = AllHit /\ interrupted' = FALSE
    /\ UNCHANGED filesVars

Interrupted ==
    /\ search.pc \notin {"idle", "scan"} /\ search.cancelled
    /\ Return("error")

\* ripgrep visits the two roots in an order of its own, and lists what matches.
Ripgrep ==
    /\ search.pc = "ripgrep" /\ ~search.cancelled
    /\ \E root \in search.roots :
         Become([search EXCEPT
           !.roots = @ \ {root},
           !.unparsed = @ \cup {p \in root : Exists(p) /\ RawHits(p)},
           !.pc = IF search.roots = {root} THEN "parse" ELSE @])

\* Any failure but "nothing found" discards what ripgrep listed.
RipgrepFails ==
    /\ search.pc = "ripgrep" /\ ~search.cancelled
    /\ Become([search EXCEPT !.pc = "walkActive", !.unparsed = {}, !.rg = FALSE])

WalkRoot(here, root, after) ==
    /\ search.pc = here
    /\ \E listed \in Listings(root) :
         Become([search EXCEPT !.pc = after, !.unparsed = @ \cup listed,
                               !.cut = @ \/ listed # Complete(root)])

\* DiscoverFilesContext: the active root, then the archive.
Walk ==
    /\ ~search.cancelled
    /\ \/ WalkRoot("walkActive", Path \ Archived, "walkArchived")
       \/ WalkRoot("walkArchived", Archived, "parse")

Supersedes(p) ==
    search.byId[ParsedID(p)] # None => TimeOf[p] > TimeOf[search.byId[ParsedID(p)]]

\* parseSessionsContext; what cannot be parsed stays a candidate.
Parse ==
    /\ search.pc = "parse" /\ ~search.cancelled
    /\ \E p \in search.unparsed :
         /\ \A q \in search.unparsed : p <= q
         /\ LET rest == [search EXCEPT !.unparsed = @ \ {p}] IN
            \/ ~Parses(p) /\ Become([rest EXCEPT !.broken = @ \cup {p}])
            \/ Parses(p) /\ Supersedes(p) /\ Become([rest EXCEPT !.byId[ParsedID(p)] = p])
            \/ Parses(p) /\ ~Supersedes(p) /\ Become(rest)

\* rankCandidatesContext: the filters apply to the sessions whose metadata is known.
Rank ==
    /\ search.pc = "parse" /\ ~search.cancelled /\ search.unparsed = {}
    /\ Become([search EXCEPT !.pc = "scan",
                 !.todo = {s \in search.wanted : search.byId[s] # None}])

\* A slip: one more than asked for.
FullTooLate == Len(search.matches) > search.limit

Full == Len(search.matches) = search.limit

Found(from, id, p) ==
    Become([from EXCEPT !.pc = "scan", !.cur = None,
                        !.matches = Append(@, [id |-> id, path |-> p])])

\* A slip: ranked by nothing.
ScanAnyRanked ==
    /\ search.pc = "scan" /\ ~search.cancelled /\ ~Full
    /\ \E s \in search.todo :
         LET p == search.byId[s]
             rest == [search EXCEPT !.todo = @ \ {s}] IN
         \/ ~Exists(p) /\ Become([rest EXCEPT !.warned = TRUE])
         \/ Exists(p) /\ Hits(p) /\ Found(rest, s, p)
         \/ Exists(p) /\ ~Hits(p) /\ Become(rest)

\* A slip: a candidate that has gone is passed over.
ScanSilently ==
    /\ search.pc = "scan" /\ ~search.cancelled /\ ~Full
    /\ \E s \in search.todo :
         LET p == search.byId[s]
             rest == [search EXCEPT !.todo = @ \ {s}] IN
         /\ \A t \in search.todo : TimeOf[search.byId[t]] <= TimeOf[p]
         /\ \/ Exists(p) /\ Hits(p) /\ Found(rest, s, p)
            \/ (Exists(p) => ~Hits(p)) /\ Become(rest)

\* The next ranked candidate, newest first.
ScanRanked ==
    /\ search.pc = "scan" /\ ~search.cancelled /\ ~Full
    /\ \E s \in search.todo :
         LET p == search.byId[s]
             rest == [search EXCEPT !.todo = @ \ {s}] IN
         /\ \A t \in search.todo : TimeOf[search.byId[t]] <= TimeOf[p]
         /\ \/ ~Exists(p) /\ Become([rest EXCEPT !.warned = TRUE])
            \/ Exists(p) /\ Hits(p) /\ Found(rest, s, p)
            \/ Exists(p) /\ ~Hits(p) /\ Become(rest)

\* After them those without metadata, in the order of their paths.
ScanBroken ==
    /\ search.pc = "scan" /\ ~search.cancelled /\ ~Full /\ search.todo = {}
    /\ \E p \in search.broken :
         LET rest == [search EXCEPT !.broken = @ \ {p}] IN
         /\ \A q \in search.broken : p <= q
         /\ \/ ~Exists(p) /\ Become([rest EXCEPT !.warned = TRUE])
            \/ Exists(p) /\ Hits(p) /\ Become([rest EXCEPT !.pc = "meta", !.cur = p])
            \/ Exists(p) /\ ~Hits(p) /\ Become(rest)

\* ParseFile opens the matching file once more to learn whose it is.
Identify ==
    LET p == search.cur IN
    /\ search.pc = "meta" /\ ~search.cancelled
    /\ \/ ~Parses(p)
          /\ Become([search EXCEPT !.pc = "scan", !.cur = None, !.warned = TRUE])
       \/ Parses(p) /\ Found(search, ParsedID(p), p)

\* A slip: the context is not consulted after the last candidate.
FinishUnchecked ==
    /\ search.pc = "scan"
    /\ \/ /\ Full \/ (search.todo = {} /\ search.broken = {})
          /\ Return(IF search.warned THEN "warned" ELSE "clean")
       \/ search.cancelled /\ Return("error")

\* The limit is reached, or no candidate is left; Ctrl+C has the last word.
Finish ==
    /\ search.pc = "scan"
    /\ \/ /\ ~search.cancelled
          /\ Full \/ (search.todo = {} /\ search.broken = {})
          /\ Return(IF search.warned THEN "warned" ELSE "clean")
       \/ search.cancelled /\ Return("error")

Work ==
    /\ \/ Interrupted \/ Ripgrep \/ RipgrepFails \/ Walk \/ Parse \/ Rank
       \/ ScanRanked \/ ScanBroken \/ Identify \/ Finish
    /\ UNCHANGED <<filesVars, quiet, lasting, interrupted>>

Cancel ==
    /\ search.pc # "idle" /\ ~search.cancelled
    /\ Become([search EXCEPT !.cancelled = TRUE])
    /\ interrupted' = TRUE
    /\ UNCHANGED <<filesVars, quiet, lasting>>

Codex ==
    /\ FilesNext
    /\ quiet' = FALSE
    /\ lasting' = lasting \cap AllHit'
    /\ UNCHANGED <<search, interrupted>>

Next == Start \/ Work \/ Cancel \/ Codex

Spec == Init /\ [][Next]_vars

-----------------------------------------------------------------------------
(* Properties. *)

Stage == {"idle", "ripgrep", "walkActive", "walkArchived", "parse", "scan", "meta"}

(***************************************************************************)
(* The variables have their types, and no more are found than asked for.       *)
(***************************************************************************)
TypeOK ==
    /\ FilesTypeOK
    /\ search \in
         [pc : Stage, rg : BOOLEAN, limit : {o.limit : o \in Searches} \cup {1},
          wanted : SUBSET Session, cancelled : BOOLEAN, cut : BOOLEAN,
          outcome : {"none", "clean", "warned", "error"},
          roots : SUBSET {Archived, Path \ Archived}, unparsed : SUBSET Path,
          byId : [Session -> Path \cup {None}], broken : SUBSET Path,
          todo : SUBSET Session, cur : Path \cup {None}, warned : BOOLEAN,
          matches : Seq([id : Session, path : Path])]
    /\ Len(search.matches) <= search.limit
    /\ search.pc = "meta" => search.cur # None
    /\ quiet \in BOOLEAN /\ lasting \subseteq Session /\ interrupted \in BOOLEAN

Reported == {search.matches[k].id : k \in DOMAIN search.matches}

\* A search has returned without an error or a warning, and no file or directory
\* has changed.
UndisturbedSearch ==
    search.pc = "idle" /\ search.outcome = "clean" /\ quiet /\ ~search.cut

\* The copies a search looks at: ripgrep passes on only those that match.
Searched(s) == IF search.rg THEN Newest({p \in Path : Exists(p) /\ Hits(p)}, s) ELSE Newest(Path, s)

(***************************************************************************)
(* Undisturbed, a search returns the newest of the sessions that match, as *)
(* many as --limit allows and newest first (README.md:107), whatever way   *)
(* the candidates were found, cut and ranked.                              *)
(***************************************************************************)
CleanSearchExact ==
    UndisturbedSearch =>
        LET matching == {s \in search.wanted : \E p \in Searched(s) : Hits(p)}
            time(s) == TimeOf[CHOOSE p \in Searched(s) : TRUE] IN
        /\ Reported \subseteq matching
        /\ Len(search.matches) < search.limit => Reported = matching
        /\ \A s \in Reported, t \in matching \ Reported : time(t) <= time(s)
        /\ \A i, j \in DOMAIN search.matches : i < j =>
             /\ time(search.matches[j].id) <= time(search.matches[i].id)
             /\ search.matches[j].id # search.matches[i].id

(***************************************************************************)
(* A session that has matched ever since the search began is found, though *)
(* its rollout may be archived meanwhile, or there is a warning that one   *)
(* could not be read (the built-in scanner; ripgrep's own walk is not      *)
(* promised to meet a file that moves).  One thing only can lose it        *)
(* silently: a directory that vanishes takes those after it with it, as    *)
(* discover.go:59 takes the error for the end of the root.                 *)
(***************************************************************************)
NoSilentLoss ==
    search.pc = "idle" /\ search.outcome = "clean" /\ ~search.rg /\ ~search.cut
      /\ Len(search.matches) < search.limit
    => lasting \cap search.wanted \subseteq Reported

(***************************************************************************)
(* Ctrl+C is cooperative cancellation of search (README.md:429): a search  *)
(* that was cancelled returns an error, at whatever point it came.         *)
(***************************************************************************)
CancelReported == search.pc = "idle" /\ interrupted => search.outcome = "error"

(***************************************************************************)
(* ripgrep is "a fast candidate filter", optional, with the built-in       *)
(* scanner as its replacement (README.md:344-346): undisturbed, a search   *)
(* finds with it the sessions it would have found without it.              *)
(***************************************************************************)
RipgrepOnlyFilters ==
    UndisturbedSearch /\ search.rg /\ Len(search.matches) < search.limit =>
        Reported = {s \in search.wanted : \E p \in Newest(Path, s) : Hits(p)}
=============================================================================
