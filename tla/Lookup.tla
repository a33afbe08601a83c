------------------------------- MODULE Lookup -------------------------------
(***************************************************************************)
(* "cxq show", "cxq open" and "cxq resume": a session is looked up by its  *)
(* id or a prefix of it (Resolve of internal/codex/catalog.go) and, by     *)
(* show, its rollout is read.  "cxq list" lists the catalog: SessionsContext *)
(* is a lookup of everything.  Every file read is a step of its own.       *)
(***************************************************************************)
EXTENDS Discovery, Conversation

CONSTANTS
    Selector,   \* what may be given for SESSION, trimmed and not empty
    FullID,     \* [Session -> Selector]: the id of a session
    Prefixes,   \* [Session -> SUBSET Selector]: how its id begins
    Nothing     \* an unset local

ASSUME SelectorAssumption ==
    /\ FullID \in [Session -> Selector]
    /\ Prefixes \in [Session -> SUBSET Selector]
    /\ \A s \in Session : FullID[s] \in Prefixes[s]
    /\ \A s, t \in Session : FullID[s] = FullID[t] => s = t
    /\ Nothing \notin Path /\ Nothing \notin Session /\ Nothing \notin Selector

VARIABLES
    lookup,     \* the frame of runShow, runOpen or runResume, and of Resolve
    \* History of the last lookup:
    present,    \* the sessions that have had a readable rollout since it began
    undisturbed \* no file has changed since it began

lookupVars == <<lookup, present, undisturbed>>

Idle(outcome) ==
    [pc |-> "idle", selector |-> Nothing, outcome |-> outcome,  \* no selector: list
     candidates |-> {},                         \* not yet parsed
     byId |-> [s \in Session |-> Nothing],
     chosen |-> Nothing,                        \* the session resolved
     reading |-> [evenly |-> TRUE, said |-> <<>>, shown |-> <<>>],
     wanted |-> {}, listed |-> {},              \* the filters of list, and what passes them
     dropped |-> FALSE,                         \* an error of ParseFile was dropped
     cut |-> FALSE]                             \* a directory vanished during the walk

Readable == {s \in Session : \E p \in Path : Parses(p) /\ ParsedID(p) = s}

LookupInit ==
    /\ lookup = Idle("none")
    /\ present = {} /\ undisturbed = FALSE

ContinueWith(l) == lookup' = l

LookupReturns(outcome) ==
    ContinueWith([lookup EXCEPT !.pc = "idle", !.outcome = outcome, !.candidates = {},
                                !.byId = Idle("none").byId])

BeginLookup ==
    /\ lookup.pc = "idle"
    /\ \E selector \in Selector \cup {Nothing} :
         ContinueWith([Idle("none") EXCEPT !.pc = "listActive", !.selector = selector])
    /\ present' = Readable /\ undisturbed' = TRUE

\* parseRolloutFilename: a standard name carries the id of its session.
NamedID(p) == CHOOSE s \in Session : s \in MayHold[p]

\* A slip: a rollout is only looked for under its id.
CandidateByName(p) ==
    lookup.selector # Nothing => p \in StandardName /\ lookup.selector \in Prefixes[NamedID(p)]

\* sessionCandidateFiles: a name that carries no id may hold any session.
Candidate(p) ==
    p \in StandardName /\ lookup.selector # Nothing => lookup.selector \in Prefixes[NamedID(p)]

List(here, root, after) ==
    /\ lookup.pc = here
    /\ \E listed \in Listings(root) :
         ContinueWith([lookup EXCEPT !.pc = after,
                         !.candidates = @ \cup {p \in listed : Candidate(p)},
                         !.cut = @ \/ listed # Complete(root)])

\* A slip: the archive comes first.
DiscoverArchiveFirst ==
    \/ List("listActive", Archived, "listArchived")
    \/ List("listArchived", Path \ Archived, "parse")

Discover ==
    \/ List("listActive", Path \ Archived, "listArchived")
    \/ List("listArchived", Archived, "parse")

Replaces(p) ==
    lookup.byId[ParsedID(p)] # Nothing => TimeOf[p] > TimeOf[lookup.byId[ParsedID(p)]]

\* parseSessions: what cannot be parsed is forgotten.
ParseCandidate ==
    /\ lookup.pc = "parse"
    /\ \E p \in lookup.candidates :
         LET rest == [lookup EXCEPT !.candidates = @ \ {p}] IN
         /\ \A q \in lookup.candidates : p <= q
         /\ \/ ~Parses(p) /\ ContinueWith([rest EXCEPT !.dropped = TRUE])
            \/ Parses(p) /\ Replaces(p) /\ ContinueWith([rest EXCEPT !.byId[ParsedID(p)] = p])
            \/ Parses(p) /\ ~Replaces(p) /\ ContinueWith(rest)

Known == {s \in Session : lookup.byId[s] # Nothing}

Exact == {s \in Known : FullID[s] = lookup.selector}

\* A slip: a full id is one prefix among others.
MatchesByPrefix == {s \in Known : lookup.selector \in Prefixes[s]}

\* The session whose id it is or, failing that, those whose ids begin with it.
Selected ==
    IF Exact # {} THEN Exact ELSE {s \in Known : lookup.selector \in Prefixes[s]}

Resolve ==
    /\ lookup.pc = "parse" /\ lookup.candidates = {} /\ lookup.selector # Nothing
    /\ \/ Selected = {} /\ LookupReturns("not found")
       \/ Cardinality(Selected) > 1 /\ LookupReturns("ambiguous")
       \/ \E s \in Selected :
            /\ Selected = {s}
            /\ ContinueWith([lookup EXCEPT !.pc = "resolved", !.chosen = s])

\* open and resume hand the session over to another program.
HandOver == lookup.pc = "resolved" /\ LookupReturns("handed over")

\* show reads the conversation, from wherever Resolve has found the session.
Show ==
    LET p == lookup.byId[lookup.chosen] IN
    /\ lookup.pc = "resolved"
    /\ \/ ~Exists(p) /\ LookupReturns("unreadable")
       \/ /\ Exists(p)
          /\ \E reading \in Readings :
               /\ fs[p].len = 0 => reading.said = <<>>
               /\ lookup' = [Idle("shown") EXCEPT
                    !.selector = lookup.selector, !.chosen = lookup.chosen,
                    !.dropped = lookup.dropped, !.cut = lookup.cut, !.reading = reading]

\* A slip: list prints the whole catalog.
PrintCatalog ==
    /\ lookup.pc = "parse" /\ lookup.candidates = {} /\ lookup.selector = Nothing
    /\ \E wanted \in SUBSET Session :
         lookup' = [Idle("listed") EXCEPT !.wanted = wanted, !.listed = Known,
                                          !.dropped = lookup.dropped, !.cut = lookup.cut]

\* list prints what passes --project and --source; dropped errors are its warnings.
PrintList ==
    /\ lookup.pc = "parse" /\ lookup.candidates = {} /\ lookup.selector = Nothing
    /\ \E wanted \in SUBSET Session :
         lookup' = [Idle("listed") EXCEPT !.wanted = wanted, !.listed = Known \cap wanted,
                                          !.dropped = lookup.dropped, !.cut = lookup.cut]

\* list gives up on Ctrl+C; it ends the other commands, which have no context.
Interrupt == lookup.pc # "idle" /\ lookup' = Idle("interrupted")

LookupWork ==
    /\ Discover \/ ParseCandidate \/ Resolve \/ HandOver \/ Show \/ PrintList \/ Interrupt
    /\ UNCHANGED <<present, undisturbed>>

\* The files change under it.
LookupDisturbed ==
    /\ present' = present \cap Readable'
    /\ undisturbed' = FALSE
    /\ lookup' = lookup

-----------------------------------------------------------------------------
(* Properties. *)

\* What a selector means among a set of sessions: the one whose id it is, or else
\* all whose ids begin with it.
Meant(selector, sessions) ==
    LET exact == {s \in sessions : FullID[s] = selector} IN
    IF exact # {} THEN exact ELSE {s \in sessions : selector \in Prefixes[s]}

(***************************************************************************)
(* The frame has its type, what is resolved is in the catalog, and what is *)
(* listed has passed the filters.                                          *)
(***************************************************************************)
LookupTypeOK ==
    /\ lookup.pc \in {"idle", "listActive", "listArchived", "parse", "resolved"}
    /\ lookup.outcome \in {"none", "not found", "ambiguous", "handed over", "unreadable",
                          "shown", "listed", "interrupted"}
    /\ lookup.selector \in Selector \cup {Nothing} /\ lookup.candidates \subseteq Path
    /\ lookup.byId \in [Session -> Path \cup {Nothing}]
    /\ lookup.chosen \in Session \cup {Nothing}
    /\ lookup.wanted \subseteq Session /\ lookup.listed \subseteq lookup.wanted
    /\ lookup.dropped \in BOOLEAN /\ lookup.cut \in BOOLEAN
    /\ lookup.pc = "resolved" => lookup.chosen \in Known
    /\ present \subseteq Session /\ undisturbed \in BOOLEAN

(***************************************************************************)
(* "Resolve returns the session for a full ID or unique ID prefix"         *)
(* (catalog.go:75): while nothing changes, a lookup that takes its         *)
(* candidates by file name decides as one over all sessions would, an id   *)
(* goes before the ids it begins, what was resolved can be read, and list  *)
(* lists every session that passes its filters.                            *)
(***************************************************************************)
QuietLookupExact ==
    lookup.pc = "idle" /\ lookup.outcome \notin {"none", "interrupted"}
      /\ undisturbed /\ ~lookup.cut =>
        LET meant == Meant(lookup.selector, Readable) IN
        IF lookup.selector = Nothing THEN lookup.listed = Readable \cap lookup.wanted ELSE
        /\ lookup.outcome = "not found" <=> meant = {}
        /\ lookup.outcome = "ambiguous" <=> Cardinality(meant) > 1
        /\ lookup.outcome \in {"handed over", "shown"} => meant = {lookup.chosen}
        /\ lookup.outcome # "unreadable"

(***************************************************************************)
(* While rollouts are written, archived and removed, a lookup is right     *)
(* about every session that has been readable since it began: such a       *)
(* session is not "not found", no other is taken for it, and list lists    *)
(* it.  Two things only can make it wrong: a vanishing directory, and a    *)
(* rollout that was found and could not be parsed, an error which Resolve  *)
(* drops (catalog.go:85) and of which list warns.                          *)
(***************************************************************************)
LookupHeedsPresent ==
    lookup.pc = "idle" /\ ~lookup.cut /\ ~lookup.dropped =>
        LET meant == Meant(lookup.selector, present) IN
        /\ lookup.outcome = "not found" => meant = {}
        /\ lookup.outcome \in {"handed over", "shown", "unreadable"} =>
             \A s \in meant : s = lookup.chosen \/ FullID[lookup.chosen] = lookup.selector
        /\ lookup.outcome = "ambiguous" => \A s \in meant : FullID[s] # lookup.selector
        /\ lookup.outcome = "listed" => present \cap lookup.wanted \subseteq lookup.listed

\* A conversation up to repetitions: of equal neighbours, one.
Squeeze(kept, message) ==
    IF kept # <<>> /\ kept[Len(kept)] = message THEN kept ELSE Append(kept, message)

Squeezed(messages) == Seqs!FoldLeft(Squeeze, <<>>, messages)

(***************************************************************************)
(* However Codex recorded the messages (once or twice, in either order,    *)
(* with other records between, with other white space), a reader is shown  *)
(* what was said, in order, and every message once: nothing is invented,   *)
(* and nothing lost but repetitions.                                       *)
(***************************************************************************)
OnlyRepetitionsMerge ==
    LET r == lookup.reading IN
    Squeezed(r.shown) = Squeezed(r.said) /\ Len(r.shown) <= Len(r.said)

(***************************************************************************)
(* "Adjacent duplicate representations of the same logical message are     *)
(* collapsed only" (conversation.go:21), and repeated messages are kept    *)
(* (conversation_test.go:74): where Codex records all messages in the same *)
(* way, a message said twice is shown twice.                               *)
(***************************************************************************)
RepetitionsAreShown ==
    lookup.reading.evenly => lookup.reading.shown = lookup.reading.said
=============================================================================
