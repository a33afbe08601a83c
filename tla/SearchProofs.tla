----------------------------- MODULE SearchProofs ---------------------------
(***************************************************************************)
(* What holds of live search among the read-only commands, while files     *)
(* appear, grow, move to the archive and go between any two of its reads:  *)
(* cancelled, it says so; and a session that matches all the while is      *)
(* found, or there is a warning.  While nothing changes, it returns what   *)
(* matches and nothing else.  For every set of sessions, paths, queries    *)
(* and searches and every bound.                                           *)
(***************************************************************************)
EXTENDS Commands, FiniteSetTheorems, SequenceTheorems, TLAPS

Match == [id : Session, path : Path]

Frame ==
    [pc : Stage, rg : BOOLEAN, limit : {o.limit : o \in Searches} \cup {1},
     wanted : SUBSET Session, cancelled : BOOLEAN, cut : BOOLEAN,
     outcome : {"none", "clean", "warned", "error"},
     roots : SUBSET {Archived, Path \ Archived}, unparsed : SUBSET Path,
     byId : [Session -> Path \cup {None}], broken : SUBSET Path,
     todo : SUBSET Session, cur : Path \cup {None}, warned : BOOLEAN,
     matches : Seq(Match)]

\* A frame, of a search that has been interrupted or not.
Sane(j, stopped) ==
    /\ j \in Frame /\ Len(j.matches) <= j.limit
    /\ j.pc = "meta" => j.cur # None /\ Len(j.matches) < j.limit
    /\ \A s \in j.todo : j.byId[s] # None
    /\ stopped => IF j.pc = "idle" THEN j.outcome = "error" ELSE j.cancelled

\* Each file is where its session may be, and has never been longer.
FilesInv ==
    \A p \in Path : Exists(p) =>
        fs[p].sid \in MayHold[p] /\ high[p][fs[p].sid] = fs[p].len

TInv ==
    /\ FilesTypeOK /\ FilesInv /\ Sane(search, interrupted)
    /\ quiet \in BOOLEAN /\ lasting \subseteq Session /\ interrupted \in BOOLEAN

-----------------------------------------------------------------------------
(* Induction over a set of numbers, and the last of the places 1..n, for    *)
(* what is defined by a fold.  (The library's induction theorems have an    *)
(* operator as their parameter, which no prover here can instantiate.)      *)

\* A set of numbers that has 0, and with a number the next, has them all.
LEMMA SetInduction ==
  ASSUME NEW T, 0 \in T, \A n \in Nat : n \in T => n + 1 \in T
  PROVE  \A n \in Nat : n \in T
  <1>1. SUFFICES ASSUME NEW n \in Nat, n \notin T PROVE FALSE
    OBVIOUS
  <1>2. PICK U : U = {k \in Nat : k \notin T}
    OBVIOUS
  <1>3. U \subseteq Nat /\ U # {}
    BY <1>1, <1>2
  <1>4. PICK R : R = {pair \in Nat \X Nat : pair[1] < pair[2]}
    OBVIOUS
  <1>5. IsWellFoundedOn(R, Nat)
    BY <1>4, NatLessThanWellFounded DEF OpToRel
  <1>6. PICK x \in U : \A y \in U : ~(<<y, x>> \in R)
    BY <1>3, <1>5, WFMin
  <1>7. x \in Nat /\ x # 0 /\ x \notin T
    BY <1>2, <1>6
  <1>8. x - 1 \in Nat /\ x - 1 + 1 = x
    BY <1>7
  <1>9. x - 1 \in U
    BY <1>2, <1>7, <1>8
  <1>10. <<x - 1, x>> \in Nat \X Nat /\ x - 1 < x
    BY <1>7, <1>8
  <1>11. <<x - 1, x>> \in R
    BY <1>4, <1>10
  <1> QED
    BY <1>6, <1>9, <1>11

LEMMA LastPlace ==
  ASSUME NEW m \in Nat, NEW s \in SUBSET (1..m + 1), m + 1 \in s
  PROVE  Seqs!Max(s) = m + 1
  <1>1. \A y \in s : y \in Int /\ m + 1 >= y
    OBVIOUS
  <1>2. \A x \in s : (\A y \in s : x >= y) => x = m + 1
    BY <1>1
  <1> QED
    BY <1>1, <1>2 DEF Seqs!Max

-----------------------------------------------------------------------------
(* Types, and what Ctrl+C leaves behind. *)

LEMMA FreshFrame ==
  ASSUME NEW pc \in Stage, pc # "meta", NEW rg \in BOOLEAN, NEW options,
         options.limit \in {o.limit : o \in Searches} \cup {1},
         options.wanted \in SUBSET Session,
         NEW j, j = Fresh(pc, rg, options)
  PROVE  /\ j \in Frame /\ j.pc = pc /\ j.rg = rg /\ j.limit = options.limit
         /\ j.wanted = options.wanted /\ j.outcome = "none" /\ ~j.cut /\ ~j.cancelled
         /\ j.todo = {} /\ j.broken = {} /\ j.unparsed = {} /\ ~j.warned
         /\ j.matches = <<>> /\ j.roots = {Archived, Path \ Archived}
         /\ \A s \in Session : j.byId[s] = None
  <1>1. <<>> \in Seq(Match)
    BY EmptySeq
  <1>2. Archived \subseteq Path
    BY PathAssumption
  <1> QED
    BY <1>1, <1>2 DEF Fresh, Frame

LEMMA Limits ==
  ASSUME NEW n \in {o.limit : o \in Searches} \cup {1}
  PROVE  n \in Nat \ {0}
  BY SearchAssumption

LEMMA ReturnFrame ==
  ASSUME TInv, NEW outcome \in {"clean", "warned", "error"}, Return(outcome)
  PROVE  /\ search' \in Frame /\ search'.pc = "idle" /\ search'.outcome = outcome
         /\ search'.matches = search.matches /\ search'.cut = search.cut
         /\ search'.rg = search.rg /\ search'.limit = search.limit
         /\ search'.wanted = search.wanted /\ search'.todo = {}
         /\ \A s \in Session : search'.byId[s] = None
  <1>1. PICK j : j = Fresh("idle", search.rg, search)
    OBVIOUS
  <1>2. /\ j \in Frame /\ j.pc = "idle" /\ j.rg = search.rg /\ j.limit = search.limit
        /\ j.wanted = search.wanted /\ j.todo = {} /\ \A s \in Session : j.byId[s] = None
    BY <1>1, FreshFrame DEF TInv, Sane, Frame, Stage
  <1>3. search' = [j EXCEPT !.outcome = outcome, !.matches = search.matches,
                            !.cut = search.cut]
    BY <1>1 DEF Return, Become
  <1>4. search.matches \in Seq(Match) /\ search.cut \in BOOLEAN
    BY DEF TInv, Sane, Frame
  <1> QED
    BY <1>2, <1>3, <1>4 DEF Frame

LEMMA ReturnSane ==
  ASSUME TInv, NEW outcome \in {"clean", "warned", "error"}, Return(outcome),
         interrupted => outcome = "error"
  PROVE  Sane(search', interrupted)
  <1>1. PICK j : j = search'
    OBVIOUS
  <1>2. /\ j \in Frame /\ j.pc = "idle" /\ j.outcome = outcome
        /\ j.matches = search.matches /\ j.limit = search.limit /\ j.todo = {}
    BY <1>1, ReturnFrame
  <1>3. Sane(j, interrupted)
    BY <1>2 DEF TInv, Sane
  <1> QED
    BY <1>1, <1>3

LEMMA WorkKeeps ==
  ASSUME TInv, UNCHANGED <<filesVars, quiet, lasting, interrupted>>,
         Sane(search', interrupted)
  PROVE  TInv'
  <1>1. FilesTypeOK' /\ FilesInv'
    BY DEF TInv, FilesTypeOK, FilesInv, Exists, filesVars
  <1>2. PICK j : j = search'
    OBVIOUS
  <1>3. PICK b : b = interrupted'
    OBVIOUS
  <1>4. Sane(j, b)
    BY <1>2, <1>3
  <1> QED
    BY <1>1, <1>2, <1>3, <1>4 DEF TInv, Sane

\* A step that changes neither the options nor the matches, nor ends the search.
LEMMA OnwardSane ==
  ASSUME TInv, search.pc # "idle", NEW j \in Frame, j.pc \notin {"idle", "meta"},
         j.limit = search.limit, j.matches = search.matches,
         j.cancelled = search.cancelled,
         \A s \in j.todo : j.byId[s] # None
  PROVE  Sane(j, interrupted)
  BY DEF TInv, Sane

LEMMA RipgrepSane ==
  ASSUME TInv, Ripgrep \/ RipgrepFails
  PROVE  Sane(search', interrupted)
  <1>1. search \in Frame /\ search.pc = "ripgrep" /\ \A s \in search.todo : search.byId[s] # None
    BY DEF TInv, Sane, Ripgrep, RipgrepFails
  <1>2. CASE Ripgrep
    <2>1. PICK root \in search.roots :
            search' = [search EXCEPT
              !.roots = search.roots \ {root},
              !.unparsed = search.unparsed \cup {p \in root : Exists(p) /\ RawHits(p)},
              !.pc = IF search.roots = {root} THEN "parse" ELSE search.pc]
      BY <1>2 DEF Ripgrep, Become
    <2>2. root \subseteq Path
      BY <1>1, PathAssumption DEF Frame
    <2>3. PICK found \in SUBSET Path : found = {p \in root : Exists(p) /\ RawHits(p)}
      BY <2>2
    <2>4. PICK pc \in {"parse", "ripgrep"} :
            pc = IF search.roots = {root} THEN "parse" ELSE search.pc
      BY <1>1
    <2>5. PICK j : j = [search EXCEPT !.roots = search.roots \ {root},
                          !.unparsed = search.unparsed \cup found, !.pc = pc]
      OBVIOUS
    <2>6. search.roots \ {root} \in SUBSET {Archived, Path \ Archived}
      BY <1>1 DEF Frame
    <2>7. search.unparsed \cup found \in SUBSET Path /\ pc \in Stage
      BY <1>1, <2>3, <2>4 DEF Frame, Stage
    <2>8. /\ j \in Frame /\ j.pc = pc /\ j.limit = search.limit /\ j.matches = search.matches
          /\ j.cancelled = search.cancelled /\ j.todo = search.todo /\ j.byId = search.byId
      BY <1>1, <2>5, <2>6, <2>7 DEF Frame
    <2>9. Sane(j, interrupted)
      BY <1>1, <2>4, <2>8, OnwardSane
    <2> QED
      BY <2>1, <2>3, <2>4, <2>5, <2>9
  <1>3. CASE RipgrepFails
    <2>1. PICK j : j = search'
      OBVIOUS
    <2>2. j = [search EXCEPT !.pc = "walkActive", !.unparsed = {}, !.rg = FALSE]
      BY <1>3, <2>1 DEF RipgrepFails, Become
    <2>3. /\ j \in Frame /\ j.pc = "walkActive" /\ j.limit = search.limit
          /\ j.matches = search.matches /\ j.cancelled = search.cancelled
          /\ j.todo = search.todo /\ j.byId = search.byId
      BY <1>1, <2>2 DEF Frame, Stage
    <2>4. Sane(j, interrupted)
      BY <1>1, <2>3, OnwardSane
    <2> QED
      BY <2>1, <2>4
  <1> QED
    BY <1>2, <1>3

\* What the walk of one root leaves in the frame.
LEMMA WalkFrame ==
  ASSUME TInv, NEW here \in {"walkActive", "walkArchived"}, NEW root \in SUBSET Path,
         NEW after \in {"walkArchived", "parse"}, WalkRoot(here, root, after)
  PROVE  \E listed \in Listings(root) :
           /\ listed \subseteq root
           /\ search' \in Frame /\ search'.pc = after
           /\ search'.unparsed = search.unparsed \cup listed
           /\ search'.cut = (search.cut \/ listed # Complete(root))
           /\ search'.limit = search.limit /\ search'.matches = search.matches
           /\ search'.cancelled = search.cancelled /\ search'.todo = search.todo
           /\ search'.byId = search.byId /\ search'.wanted = search.wanted
           /\ search'.rg = search.rg /\ search'.broken = search.broken
           /\ search'.warned = search.warned
  <1>1. search \in Frame
    BY DEF TInv, Sane
  <1>2. PICK listed \in Listings(root) :
          search' = [search EXCEPT !.pc = after, !.unparsed = search.unparsed \cup listed,
                                   !.cut = search.cut \/ listed # Complete(root)]
    BY DEF WalkRoot, Become
  <1>3. listed \subseteq root
    BY DEF Listings, Complete, UpTo
  <1>4. PICK cut \in BOOLEAN : cut = (search.cut \/ listed # Complete(root))
    OBVIOUS
  <1>5. search.unparsed \cup listed \in SUBSET Path /\ after \in Stage
    BY <1>1, <1>3 DEF Frame, Stage
  <1>6. search' = [search EXCEPT !.pc = after, !.unparsed = search.unparsed \cup listed,
                                 !.cut = cut]
    BY <1>2, <1>4
  <1>7. /\ search' \in Frame /\ search'.pc = after
        /\ search'.unparsed = search.unparsed \cup listed /\ search'.cut = cut
        /\ search'.limit = search.limit /\ search'.matches = search.matches
        /\ search'.cancelled = search.cancelled /\ search'.todo = search.todo
        /\ search'.byId = search.byId /\ search'.wanted = search.wanted
        /\ search'.rg = search.rg /\ search'.broken = search.broken
        /\ search'.warned = search.warned
    BY <1>1, <1>5, <1>6 DEF Frame
  <1> QED
    BY <1>3, <1>4, <1>7

LEMMA WalkSane ==
  ASSUME TInv, Walk
  PROVE  Sane(search', interrupted)
  <1>1. search \in Frame /\ \A s \in search.todo : search.byId[s] # None
    BY DEF TInv, Sane
  <1>2. ASSUME NEW here \in {"walkActive", "walkArchived"}, NEW root \in SUBSET Path,
               NEW after \in {"walkArchived", "parse"}, WalkRoot(here, root, after)
        PROVE  Sane(search', interrupted)
    <2>1. PICK j : j = search'
      OBVIOUS
    <2>2. /\ j \in Frame /\ j.pc = after /\ j.limit = search.limit
          /\ j.matches = search.matches /\ j.cancelled = search.cancelled
          /\ j.todo = search.todo /\ j.byId = search.byId
      BY <1>2, <2>1, WalkFrame
    <2>3. search.pc # "idle"
      BY <1>2 DEF WalkRoot
    <2>4. Sane(j, interrupted)
      BY <1>1, <2>2, <2>3, OnwardSane
    <2> QED
      BY <2>1, <2>4
  <1>3. Archived \subseteq Path
    BY PathAssumption
  <1> QED
    BY <1>2, <1>3 DEF Walk

\* A path that parses is that of a session.
LEMMA ParsedSession ==
  ASSUME FilesTypeOK, NEW p \in Path, Exists(p)
  PROVE  fs[p] \in File /\ ParsedID(p) \in Session
  BY DEF FilesTypeOK, Exists, ParsedID, File

\* What the search keeps while it parses and scans.
Keeps(j) ==
    /\ j \in Frame /\ j.limit = search.limit /\ j.cancelled = search.cancelled
    /\ j.wanted = search.wanted /\ j.rg = search.rg /\ j.cut = search.cut

LEMMA ParseFrame ==
  ASSUME TInv, Parse
  PROVE  \E p \in search.unparsed :
           /\ Keeps(search') /\ search'.pc = "parse" /\ search'.matches = search.matches
           /\ search'.todo = search.todo /\ search'.unparsed = search.unparsed \ {p}
           /\ search'.warned = search.warned /\ \A q \in search.unparsed : p <= q
           /\ \/ /\ ~Parses(p) /\ search'.byId = search.byId
                 /\ search'.broken = search.broken \cup {p}
              \/ /\ Parses(p) /\ search'.broken = search.broken
                 /\ \A s \in Session : s # ParsedID(p) => search'.byId[s] = search.byId[s]
                 /\ search'.byId[ParsedID(p)] \in {p, search.byId[ParsedID(p)]} \ {None}
                 /\ search'.byId[ParsedID(p)] =
                      IF Supersedes(p) THEN p ELSE search.byId[ParsedID(p)]
  <1>1. search \in Frame /\ search.pc = "parse"
    BY DEF TInv, Sane, Parse
  <1>2. PICK p \in search.unparsed :
          /\ \A q \in search.unparsed : p <= q
          /\ LET rest == [search EXCEPT !.unparsed = @ \ {p}] IN
             \/ ~Parses(p) /\ Become([rest EXCEPT !.broken = @ \cup {p}])
             \/ Parses(p) /\ Supersedes(p) /\ Become([rest EXCEPT !.byId[ParsedID(p)] = p])
             \/ Parses(p) /\ ~Supersedes(p) /\ Become(rest)
    BY DEF Parse
  <1>3. p \in Path /\ p # None /\ search.unparsed \ {p} \in SUBSET Path
    BY <1>1, NoneAssumption DEF Frame
  <1>4. PICK rest : rest = [search EXCEPT !.unparsed = search.unparsed \ {p}]
    OBVIOUS
  <1>5. /\ Keeps(rest) /\ rest.pc = "parse" /\ rest.matches = search.matches
        /\ rest.todo = search.todo /\ rest.unparsed = search.unparsed \ {p}
        /\ rest.byId = search.byId /\ rest.broken = search.broken
        /\ rest.warned = search.warned
    BY <1>1, <1>3, <1>4 DEF Frame, Keeps
  <1>6. CASE ~Parses(p)
    <2>1. search' = [rest EXCEPT !.broken = search.broken \cup {p}]
      BY <1>1, <1>2, <1>4, <1>5, <1>6 DEF Become
    <2>2. search.broken \cup {p} \in SUBSET Path
      BY <1>1, <1>3 DEF Frame
    <2>3. /\ Keeps(search') /\ search'.pc = "parse" /\ search'.matches = search.matches
          /\ search'.todo = search.todo /\ search'.unparsed = search.unparsed \ {p}
          /\ search'.byId = search.byId /\ search'.broken = search.broken \cup {p}
          /\ search'.warned = search.warned
      BY <1>5, <2>1, <2>2 DEF Frame, Keeps
    <2> QED
      BY <1>2, <1>6, <2>3
  <1>7. CASE Parses(p) /\ Supersedes(p)
    <2>1. PICK s \in Session : s = ParsedID(p)
      BY <1>3, <1>7, ParsedSession DEF TInv, Parses
    <2>2. search' = [rest EXCEPT !.byId = [search.byId EXCEPT ![s] = p]]
      BY <1>2, <1>4, <1>5, <1>7, <2>1 DEF Become
    <2>3. PICK known : known = [search.byId EXCEPT ![s] = p]
      OBVIOUS
    <2>4. /\ known \in [Session -> Path \cup {None}] /\ known[s] = p
          /\ \A t \in Session : t # s => known[t] = search.byId[t]
      BY <1>1, <1>3, <2>3 DEF Frame
    <2>5. /\ Keeps(search') /\ search'.pc = "parse" /\ search'.matches = search.matches
          /\ search'.todo = search.todo /\ search'.unparsed = search.unparsed \ {p}
          /\ search'.byId = known /\ search'.broken = search.broken
          /\ search'.warned = search.warned
      BY <1>5, <2>2, <2>3, <2>4 DEF Frame, Keeps
    <2> QED
      BY <1>2, <1>3, <1>7, <2>1, <2>4, <2>5
  <1>8. CASE Parses(p) /\ ~Supersedes(p)
    <2>1. search' = rest
      BY <1>2, <1>4, <1>8 DEF Become
    <2>2. search.byId[ParsedID(p)] # None
      BY <1>8 DEF Supersedes
    <2> QED
      BY <1>2, <1>5, <1>8, <2>1, <2>2
  <1> QED
    BY <1>6, <1>7, <1>8

LEMMA ParseSane ==
  ASSUME TInv, Parse
  PROVE  Sane(search', interrupted)
  <1>1. search \in Frame /\ search.pc = "parse" /\ \A s \in search.todo : search.byId[s] # None
    BY DEF TInv, Sane, Parse
  <1>2. PICK j : j = search'
    OBVIOUS
  <1>3. /\ Keeps(j) /\ j.pc = "parse" /\ j.matches = search.matches /\ j.todo = search.todo
        /\ \A s \in Session : j.byId[s] = search.byId[s] \/ j.byId[s] # None
    BY <1>2, ParseFrame
  <1>4. j \in Frame /\ j.limit = search.limit /\ j.cancelled = search.cancelled
    BY <1>3 DEF Keeps
  <1>5. \A s \in j.todo : j.byId[s] # None
    BY <1>1, <1>3 DEF Frame
  <1>6. Sane(j, interrupted)
    BY <1>1, <1>3, <1>4, <1>5, OnwardSane
  <1> QED
    BY <1>2, <1>6

LEMMA RankFrame ==
  ASSUME TInv, Rank
  PROVE  /\ Keeps(search') /\ search'.pc = "scan" /\ search'.matches = search.matches
         /\ search'.byId = search.byId /\ search'.broken = search.broken
         /\ search'.todo = {s \in search.wanted : search.byId[s] # None}
         /\ search'.unparsed = search.unparsed /\ search'.warned = search.warned
  <1>1. search \in Frame
    BY DEF TInv, Sane
  <1>2. PICK todo : todo = {s \in search.wanted : search.byId[s] # None}
    OBVIOUS
  <1>3. todo \in SUBSET Session
    BY <1>1, <1>2 DEF Frame
  <1>4. search' = [search EXCEPT !.pc = "scan", !.todo = todo]
    BY <1>2 DEF Rank, Become
  <1>5. /\ Keeps(search') /\ search'.pc = "scan" /\ search'.matches = search.matches
        /\ search'.byId = search.byId /\ search'.broken = search.broken
        /\ search'.todo = todo /\ search'.unparsed = search.unparsed
        /\ search'.warned = search.warned
    BY <1>1, <1>3, <1>4 DEF Frame, Keeps, Stage
  <1> QED
    BY <1>2, <1>5

LEMMA RankSane ==
  ASSUME TInv, Rank
  PROVE  Sane(search', interrupted)
  <1>1. PICK j : j = search'
    OBVIOUS
  <1>2. /\ Keeps(j) /\ j.pc = "scan" /\ j.matches = search.matches /\ j.byId = search.byId
        /\ j.todo = {s \in search.wanted : search.byId[s] # None}
    BY <1>1, RankFrame
  <1>3. j \in Frame /\ j.limit = search.limit /\ j.cancelled = search.cancelled
    BY <1>2 DEF Keeps
  <1>4. search.pc # "idle"
    BY DEF Rank
  <1>5. Sane(j, interrupted)
    BY <1>2, <1>3, <1>4, OnwardSane
  <1> QED
    BY <1>1, <1>5

\* A match is added, and there was room for it.
LEMMA FoundFrame ==
  ASSUME NEW from \in Frame, NEW id \in Session, NEW p \in Path, Found(from, id, p)
  PROVE  /\ search' \in Frame /\ search'.pc = "scan"
         /\ search'.matches = Append(from.matches, [id |-> id, path |-> p])
         /\ Len(search'.matches) = Len(from.matches) + 1
         /\ search'.limit = from.limit /\ search'.cancelled = from.cancelled
         /\ search'.wanted = from.wanted /\ search'.rg = from.rg /\ search'.cut = from.cut
         /\ search'.todo = from.todo /\ search'.byId = from.byId
         /\ search'.broken = from.broken /\ search'.warned = from.warned
         /\ search'.unparsed = from.unparsed
  <1>1. PICK m \in Match : m = [id |-> id, path |-> p]
    BY DEF Match
  <1>2. from.matches \in Seq(Match)
    BY DEF Frame
  <1>3. PICK more : more = Append(from.matches, m)
    OBVIOUS
  <1>4. more \in Seq(Match) /\ Len(more) = Len(from.matches) + 1
    BY <1>2, <1>3, AppendProperties
  <1>5. search' = [from EXCEPT !.pc = "scan", !.cur = None, !.matches = more]
    BY <1>1, <1>3 DEF Found, Become
  <1> QED
    BY <1>1, <1>3, <1>4, <1>5 DEF Frame, Stage

\* A step of the scan.
LEMMA ScanSane ==
  ASSUME TInv, search.pc # "idle", NEW j, Keeps(j), j.pc \in {"scan", "meta"},
         Len(j.matches) <= j.limit,
         j.pc = "meta" => j.cur # None /\ Len(j.matches) < j.limit,
         j.todo \subseteq search.todo, j.byId = search.byId
  PROVE  Sane(j, interrupted)
  BY DEF TInv, Sane, Keeps

\* There is room as long as the scan goes on.
LEMMA Room ==
  ASSUME TInv, ~Full
  PROVE  /\ Len(search.matches) \in Nat /\ search.limit \in Nat
         /\ Len(search.matches) < search.limit
  <1>1. search.matches \in Seq(Match) /\ search.limit \in Nat
    BY Limits DEF TInv, Sane, Frame
  <1>2. Len(search.matches) \in Nat
    BY <1>1, LenProperties
  <1> QED
    BY <1>1, <1>2 DEF Full, TInv, Sane

LEMMA RankedFrame ==
  ASSUME TInv, ScanRanked
  PROVE  \E s \in search.todo :
           /\ search.byId[s] \in Path /\ Keeps(search') /\ search'.pc = "scan"
           /\ search'.todo = search.todo \ {s}
           /\ search'.byId = search.byId /\ search'.broken = search.broken
           /\ search'.unparsed = search.unparsed
           /\ \A t \in search.todo : TimeOf[search.byId[t]] <= TimeOf[search.byId[s]]
           /\ \/ /\ ~Exists(search.byId[s]) /\ search'.warned
                 /\ search'.matches = search.matches
              \/ /\ Hits(search.byId[s]) /\ search'.warned = search.warned
                 /\ search'.matches =
                      Append(search.matches, [id |-> s, path |-> search.byId[s]])
                 /\ Len(search'.matches) = Len(search.matches) + 1
              \/ /\ Exists(search.byId[s]) /\ ~Hits(search.byId[s])
                 /\ search'.warned = search.warned /\ search'.matches = search.matches
  <1>1. search \in Frame /\ search.pc = "scan" /\ \A s \in search.todo : search.byId[s] # None
    BY DEF TInv, Sane, ScanRanked
  <1>2. PICK s \in search.todo :
          LET p == search.byId[s]
              rest == [search EXCEPT !.todo = @ \ {s}] IN
          /\ \A t \in search.todo : TimeOf[search.byId[t]] <= TimeOf[p]
          /\ \/ ~Exists(p) /\ Become([rest EXCEPT !.warned = TRUE])
             \/ Exists(p) /\ Hits(p) /\ Found(rest, s, p)
             \/ Exists(p) /\ ~Hits(p) /\ Become(rest)
    BY DEF ScanRanked
  <1>3. PICK p : p = search.byId[s]
    OBVIOUS
  <1>4. s \in Session /\ p \in Path /\ search.todo \ {s} \in SUBSET Session
    BY <1>1, <1>3 DEF Frame
  <1>5. PICK rest : rest = [search EXCEPT !.todo = search.todo \ {s}]
    OBVIOUS
  <1>6. /\ Keeps(rest) /\ rest.pc = "scan" /\ rest.matches = search.matches
        /\ rest.todo = search.todo \ {s} /\ rest.byId = search.byId
        /\ rest.broken = search.broken /\ rest.warned = search.warned
        /\ rest.unparsed = search.unparsed
        /\ \A t \in search.todo : TimeOf[search.byId[t]] <= TimeOf[p]
    BY <1>1, <1>2, <1>3, <1>4, <1>5 DEF Frame, Keeps
  <1>7. CASE ~Exists(p) /\ Become([rest EXCEPT !.warned = TRUE])
    <2>1. search' = [rest EXCEPT !.warned = TRUE]
      BY <1>7 DEF Become
    <2>2. /\ Keeps(search') /\ search'.pc = "scan" /\ search'.matches = search.matches
          /\ search'.todo = search.todo \ {s} /\ search'.byId = search.byId
          /\ search'.broken = search.broken /\ search'.warned
          /\ search'.unparsed = search.unparsed
      BY <1>6, <2>1 DEF Frame, Keeps
    <2> QED
      BY <1>3, <1>4, <1>6, <1>7, <2>2
  <1>8. CASE Exists(p) /\ Hits(p) /\ Found(rest, s, p)
    <2>1. rest \in Frame /\ Found(rest, s, p)
      BY <1>6, <1>8 DEF Keeps
    <2>2. /\ search' \in Frame /\ search'.pc = "scan"
          /\ search'.matches = Append(rest.matches, [id |-> s, path |-> p])
          /\ Len(search'.matches) = Len(rest.matches) + 1
          /\ search'.limit = rest.limit /\ search'.cancelled = rest.cancelled
          /\ search'.wanted = rest.wanted /\ search'.rg = rest.rg /\ search'.cut = rest.cut
          /\ search'.todo = rest.todo /\ search'.byId = rest.byId
          /\ search'.broken = rest.broken /\ search'.warned = rest.warned
          /\ search'.unparsed = rest.unparsed
      BY <1>4, <2>1, FoundFrame
    <2>3. Keeps(search')
      BY <1>6, <2>2 DEF Keeps
    <2> QED
      BY <1>3, <1>4, <1>6, <1>8, <2>2, <2>3
  <1>9. CASE Exists(p) /\ ~Hits(p) /\ Become(rest)
    BY <1>3, <1>4, <1>6, <1>9 DEF Become
  <1> QED
    BY <1>2, <1>3, <1>5, <1>7, <1>8, <1>9

LEMMA RankedSane ==
  ASSUME TInv, ScanRanked
  PROVE  Sane(search', interrupted)
  <1>1. PICK j : j = search'
    OBVIOUS
  <1>2. /\ Keeps(j) /\ j.pc = "scan" /\ j.todo \subseteq search.todo /\ j.byId = search.byId
        /\ \/ j.matches = search.matches
           \/ Len(j.matches) = Len(search.matches) + 1
    BY <1>1, RankedFrame
  <1>3. Len(search.matches) \in Nat /\ search.limit \in Nat /\ Len(search.matches) < search.limit
    BY Room DEF ScanRanked
  <1>4. Len(j.matches) <= j.limit
    BY <1>2, <1>3 DEF Keeps
  <1>5. Sane(j, interrupted)
    BY <1>2, <1>4, ScanSane DEF ScanRanked
  <1> QED
    BY <1>1, <1>5

LEMMA BrokenFrame ==
  ASSUME TInv, ScanBroken
  PROVE  \E p \in search.broken :
           /\ Keeps(search') /\ search'.matches = search.matches
           /\ search'.todo = search.todo /\ search'.unparsed = search.unparsed
           /\ search'.byId = search.byId /\ search'.broken = search.broken \ {p}
           /\ \/ ~Exists(p) /\ search'.pc = "scan" /\ search'.warned
              \/ /\ Hits(p) /\ search'.pc = "meta" /\ search'.cur = p
                 /\ search'.warned = search.warned
              \/ /\ Exists(p) /\ ~Hits(p) /\ search'.pc = "scan"
                 /\ search'.warned = search.warned
  <1>1. search \in Frame /\ search.pc = "scan"
    BY DEF TInv, Sane, ScanBroken
  <1>2. PICK p \in search.broken :
          LET rest == [search EXCEPT !.broken = @ \ {p}] IN
          \/ ~Exists(p) /\ Become([rest EXCEPT !.warned = TRUE])
          \/ Exists(p) /\ Hits(p) /\ Become([rest EXCEPT !.pc = "meta", !.cur = p])
          \/ Exists(p) /\ ~Hits(p) /\ Become(rest)
    BY DEF ScanBroken
  <1>3. p \in Path /\ search.broken \ {p} \in SUBSET Path
    BY <1>1 DEF Frame
  <1>4. PICK rest : rest = [search EXCEPT !.broken = search.broken \ {p}]
    OBVIOUS
  <1>5. /\ Keeps(rest) /\ rest.pc = "scan" /\ rest.matches = search.matches
        /\ rest.todo = search.todo /\ rest.unparsed = search.unparsed /\ rest.byId = search.byId
        /\ rest.broken = search.broken \ {p} /\ rest.warned = search.warned
    BY <1>1, <1>3, <1>4 DEF Frame, Keeps
  <1>6. CASE ~Exists(p) /\ Become([rest EXCEPT !.warned = TRUE])
    <2>1. search' = [rest EXCEPT !.warned = TRUE]
      BY <1>6 DEF Become
    <2> QED
      BY <1>5, <1>6, <2>1 DEF Frame, Keeps
  <1>7. CASE Exists(p) /\ Hits(p) /\ Become([rest EXCEPT !.pc = "meta", !.cur = p])
    <2>1. search' = [rest EXCEPT !.pc = "meta", !.cur = p]
      BY <1>7 DEF Become
    <2> QED
      BY <1>3, <1>5, <1>7, <2>1 DEF Frame, Keeps, Stage
  <1>8. CASE Exists(p) /\ ~Hits(p) /\ Become(rest)
    BY <1>5, <1>8 DEF Become
  <1> QED
    BY <1>2, <1>4, <1>6, <1>7, <1>8

LEMMA BrokenSane ==
  ASSUME TInv, ScanBroken
  PROVE  Sane(search', interrupted)
  <1>1. PICK j : j = search'
    OBVIOUS
  <1>2. PICK p \in search.broken :
          /\ Keeps(j) /\ j.matches = search.matches
          /\ j.todo = search.todo /\ j.byId = search.byId
          /\ j.pc = "scan" \/ (j.pc = "meta" /\ j.cur = p)
    BY <1>1, BrokenFrame
  <1>3. p # None
    BY NoneAssumption DEF TInv, Sane, Frame
  <1>4. Len(search.matches) \in Nat /\ search.limit \in Nat /\ Len(search.matches) < search.limit
    BY Room DEF ScanBroken
  <1>5. Len(j.matches) < j.limit /\ Len(j.matches) <= j.limit
    BY <1>2, <1>4 DEF Keeps
  <1>6. Sane(j, interrupted)
    BY <1>2, <1>3, <1>5, ScanSane DEF ScanBroken
  <1> QED
    BY <1>1, <1>6

LEMMA IdentifyFrame ==
  ASSUME TInv, Identify
  PROVE  /\ search.cur \in Path /\ Keeps(search') /\ search'.pc = "scan"
         /\ search'.todo = search.todo
         /\ search'.byId = search.byId /\ search'.broken = search.broken
         /\ \/ ~Parses(search.cur) /\ search'.warned /\ search'.matches = search.matches
            \/ /\ Parses(search.cur) /\ search'.warned = search.warned
               /\ search'.matches =
                    Append(search.matches,
                           [id |-> ParsedID(search.cur), path |-> search.cur])
               /\ Len(search'.matches) = Len(search.matches) + 1
  <1>1. search \in Frame /\ search.pc = "meta" /\ search.cur # None
    BY DEF TInv, Sane, Identify
  <1>2. PICK p \in Path : p = search.cur
    BY <1>1 DEF Frame
  <1>3. \/ ~Parses(p) /\ Become([search EXCEPT !.pc = "scan", !.cur = None, !.warned = TRUE])
        \/ Parses(p) /\ Found(search, ParsedID(p), p)
    BY <1>2 DEF Identify
  <1>4. CASE ~Parses(p) /\ Become([search EXCEPT !.pc = "scan", !.cur = None, !.warned = TRUE])
    <2>1. search' = [search EXCEPT !.pc = "scan", !.cur = None, !.warned = TRUE]
      BY <1>4 DEF Become
    <2>2. /\ Keeps(search') /\ search'.pc = "scan" /\ search'.matches = search.matches
          /\ search'.todo = search.todo /\ search'.byId = search.byId
          /\ search'.broken = search.broken /\ search'.warned
      BY <1>1, <2>1 DEF Frame, Keeps, Stage
    <2> QED
      BY <1>2, <1>4, <2>2
  <1>5. CASE Parses(p) /\ Found(search, ParsedID(p), p)
    <2>1. ParsedID(p) \in Session
      BY <1>5, ParsedSession DEF TInv, Parses
    <2>2. /\ search' \in Frame /\ search'.pc = "scan"
          /\ search'.matches = Append(search.matches, [id |-> ParsedID(p), path |-> p])
          /\ Len(search'.matches) = Len(search.matches) + 1
          /\ search'.limit = search.limit /\ search'.cancelled = search.cancelled
          /\ search'.wanted = search.wanted /\ search'.rg = search.rg
          /\ search'.cut = search.cut
          /\ search'.todo = search.todo /\ search'.byId = search.byId
          /\ search'.broken = search.broken /\ search'.warned = search.warned
      BY <1>1, <1>5, <2>1, FoundFrame
    <2>3. Keeps(search')
      BY <2>2 DEF Keeps
    <2> QED
      BY <1>2, <1>5, <2>2, <2>3
  <1> QED
    BY <1>3, <1>4, <1>5

LEMMA IdentifySane ==
  ASSUME TInv, Identify
  PROVE  Sane(search', interrupted)
  <1>1. PICK j : j = search'
    OBVIOUS
  <1>2. /\ Keeps(j) /\ j.pc = "scan" /\ j.todo = search.todo /\ j.byId = search.byId
        /\ \/ j.matches = search.matches
           \/ Len(j.matches) = Len(search.matches) + 1
    BY <1>1, IdentifyFrame
  <1>3. search.matches \in Seq(Match) /\ search.limit \in Nat
    BY Limits DEF TInv, Sane, Frame
  <1>4. Len(search.matches) \in Nat /\ Len(search.matches) < search.limit
    BY <1>3, LenProperties DEF TInv, Sane, Identify
  <1>5. Len(j.matches) <= j.limit
    BY <1>2, <1>3, <1>4 DEF Keeps
  <1>6. Sane(j, interrupted)
    BY <1>2, <1>5, ScanSane DEF Identify
  <1> QED
    BY <1>1, <1>6

LEMMA LeaveSane ==
  ASSUME TInv, Interrupted \/ Finish
  PROVE  Sane(search', interrupted)
  <1>1. CASE Return("error")
    BY <1>1, ReturnSane
  <1>2. CASE ~search.cancelled /\ Return("clean")
    <2>1. ~interrupted
      BY <1>2 DEF TInv, Sane, Interrupted, Finish
    <2> QED
      BY <1>2, <2>1, ReturnSane
  <1>3. CASE ~search.cancelled /\ Return("warned")
    <2>1. ~interrupted
      BY <1>3 DEF TInv, Sane, Interrupted, Finish
    <2> QED
      BY <1>3, <2>1, ReturnSane
  <1>4. PICK outcome \in {"clean", "warned"} :
          outcome = IF search.warned THEN "warned" ELSE "clean"
    OBVIOUS
  <1>5. \/ Return("error")
        \/ ~search.cancelled /\ Return(outcome)
    BY <1>4 DEF Interrupted, Finish
  <1> QED
    BY <1>1, <1>2, <1>3, <1>4, <1>5

LEMMA WorkTyped ==
  ASSUME TInv, Work
  PROVE  TInv'
  <1>1. UNCHANGED <<filesVars, quiet, lasting, interrupted>>
    BY DEF Work
  <1>2. Sane(search', interrupted)
    BY RipgrepSane, WalkSane, ParseSane, RankSane, RankedSane, BrokenSane, IdentifySane,
       LeaveSane DEF Work
  <1> QED
    BY <1>1, <1>2, WorkKeeps

LEMMA CancelTyped ==
  ASSUME TInv, Cancel
  PROVE  TInv'
  <1>1. search \in Frame /\ search.pc # "idle" /\ UNCHANGED <<filesVars, quiet, lasting>>
    BY DEF TInv, Sane, Cancel
  <1>2. PICK j : j = search'
    OBVIOUS
  <1>3. j = [search EXCEPT !.cancelled = TRUE]
    BY <1>2 DEF Cancel, Become
  <1>4. Sane(j, TRUE)
    BY <1>1, <1>3 DEF TInv, Sane, Frame
  <1>5. Sane(search', TRUE) /\ interrupted' = TRUE
    BY <1>2, <1>4 DEF Cancel
  <1>6. FilesTypeOK' /\ FilesInv'
    BY <1>1 DEF TInv, FilesTypeOK, FilesInv, Exists, filesVars
  <1>7. Sane(search, interrupted)'
    BY <1>5 DEF Sane
  <1> QED
    BY <1>1, <1>5, <1>6, <1>7 DEF TInv

\* A search begins, or the process ends: a fresh frame, and no history.
LEMMA FreshTyped ==
  ASSUME FilesTypeOK, FilesInv, NEW pc \in Stage, pc # "meta", NEW rg \in BOOLEAN,
         NEW options, options.limit \in {o.limit : o \in Searches} \cup {1},
         options.wanted \in SUBSET Session, NEW j, j = Fresh(pc, rg, options)
  PROVE  Sane(j, FALSE)
  <1>1. /\ j \in Frame /\ j.pc = pc /\ j.limit = options.limit /\ j.todo = {}
        /\ j.matches = <<>>
    BY FreshFrame
  <1>2. j.limit \in Nat \ {0}
    BY <1>1, Limits
  <1>3. Len(<<>>) = 0
    BY EmptySeq
  <1> QED
    BY <1>1, <1>2, <1>3 DEF Sane

LEMMA StartFrame ==
  ASSUME Start
  PROVE  \E pc \in {"ripgrep", "walkActive"}, rg \in BOOLEAN, options \in Searches :
           /\ search' = Fresh(pc, rg, options) /\ (pc = "ripgrep" <=> rg)
           /\ options.limit \in {o.limit : o \in Searches} \cup {1}
           /\ options.wanted \in SUBSET Session
  <1>1. PICK rg \in BOOLEAN, options \in Searches :
          search' = Fresh(IF rg THEN "ripgrep" ELSE "walkActive", rg, options)
    BY DEF Start, Become
  <1>2. PICK pc \in {"ripgrep", "walkActive"} : pc = IF rg THEN "ripgrep" ELSE "walkActive"
    OBVIOUS
  <1>3. options \in [limit : Nat \ {0}, wanted : SUBSET Session]
    BY SearchAssumption
  <1> QED
    BY <1>1, <1>2, <1>3

LEMMA StartTyped ==
  ASSUME TInv, Start
  PROVE  TInv'
  <1>1. PICK pc \in {"ripgrep", "walkActive"}, rg \in BOOLEAN, options \in Searches :
          /\ search' = Fresh(pc, rg, options)
          /\ options.limit \in {o.limit : o \in Searches} \cup {1}
          /\ options.wanted \in SUBSET Session
    BY StartFrame
  <1>2. Sane(search', FALSE)
    BY <1>1, FreshTyped DEF TInv, Stage
  <1>3. /\ UNCHANGED filesVars /\ interrupted' = FALSE /\ quiet' = TRUE
        /\ lasting' \subseteq Session
    BY DEF Start, AllHit
  <1>4. FilesTypeOK' /\ FilesInv'
    BY <1>3 DEF TInv, FilesTypeOK, FilesInv, Exists, filesVars
  <1>5. Sane(search, interrupted)'
    BY <1>2, <1>3 DEF Sane
  <1> QED
    BY <1>3, <1>4, <1>5 DEF TInv

LEMMA ExitTyped ==
  ASSUME TInv, Exit
  PROVE  TInv'
  <1>1. PICK options : options = NoOptions
    OBVIOUS
  <1>2. options.limit = 1 /\ options.wanted = {}
    BY <1>1 DEF NoOptions
  <1>3. search' = Fresh("idle", FALSE, options)
    BY <1>1 DEF Exit
  <1>4. Sane(search', FALSE)
    BY <1>2, <1>3, FreshTyped DEF TInv, Stage
  <1>5. UNCHANGED filesVars /\ interrupted' = FALSE /\ quiet' = FALSE /\ lasting' = {}
    BY DEF Exit
  <1>6. FilesTypeOK' /\ FilesInv'
    BY <1>5 DEF TInv, FilesTypeOK, FilesInv, Exists, filesVars
  <1>7. Sane(search, interrupted)'
    BY <1>4, <1>5 DEF Sane
  <1> QED
    BY <1>5, <1>6, <1>7 DEF TInv

-----------------------------------------------------------------------------
(* The files meanwhile. *)

\* What has been written of a rollout at a path is never unwritten there.
Grows == \A p \in Path, s \in Session : high[p][s] <= high'[p][s]

\* A session that is somewhere gets no other copy among the active ones.
NoneComesBack ==
    \A p \in Path \ Archived, q \in Path :
        Exists(q) /\ Exists(p)' /\ fs'[p].sid = fs[q].sid =>
            Exists(p) /\ fs[p].sid = fs[q].sid

FilesFollow ==
    /\ fs' \in [Path -> File \cup {NoFile}] /\ high' \in [Path -> [Session -> 0..MaxLen]]
    /\ FilesInv' /\ Grows

LEMMA PutFollows ==
  ASSUME FilesTypeOK, FilesInv, NEW p \in Path, NEW f \in File, f # NoFile,
         f.sid \in MayHold[p], high[p][f.sid] <= f.len, Put(p, f)
  PROVE  /\ FilesFollow /\ fs'[p] = f
         /\ \A q \in Path : q # p => fs'[q] = fs[q]
  <1>1. f.sid \in Session /\ f.len \in 0..MaxLen /\ MaxLen \in Nat
    BY FileAssumption DEF File
  <1>2. fs' \in [Path -> File \cup {NoFile}] /\ high' \in [Path -> [Session -> 0..MaxLen]]
    BY <1>1 DEF Put, FilesTypeOK
  <1>3. FilesInv'
    BY <1>1 DEF Put, FilesTypeOK, FilesInv, Exists, File
  <1>4. Grows
    BY <1>1 DEF Put, FilesTypeOK, Grows
  <1>5. fs'[p] = f /\ \A q \in Path : q # p => fs'[q] = fs[q]
    BY DEF Put, FilesTypeOK
  <1> QED
    BY <1>2, <1>3, <1>4, <1>5 DEF FilesFollow

LEMMA CreateFollows ==
  ASSUME FilesTypeOK, FilesInv, NEW p \in Path, NEW s \in Session, Create(p, s)
  PROVE  FilesFollow /\ NoneComesBack
  <1>1. PICK t \in MTime : Put(p, [sid |-> s, len |-> high[p][s], mtime |-> t])
    BY DEF Create
  <1>2. PICK f : f = [sid |-> s, len |-> high[p][s], mtime |-> t]
    OBVIOUS
  <1>3. high[p][s] \in 0..MaxLen /\ MaxLen \in Nat
    BY FileAssumption DEF FilesTypeOK
  <1>4. f \in File /\ f.sid = s /\ high[p][s] <= f.len /\ f # NoFile
    BY <1>2, <1>3, FileAssumption DEF File
  <1>5. /\ FilesFollow /\ fs'[p] = f
        /\ \A q \in Path : q # p => fs'[q] = fs[q]
    BY <1>1, <1>2, <1>4, PutFollows DEF Create
  <1>6. \A q \in Path : Exists(q) => fs[q].sid # s
    BY DEF Create
  <1>7. NoneComesBack
    BY <1>4, <1>5, <1>6 DEF NoneComesBack, Exists
  <1> QED
    BY <1>5, <1>7

\* A file that is there is written, or touched.
LEMMA RewriteFollows ==
  ASSUME FilesTypeOK, FilesInv, NEW p \in Path, AppendRecord(p) \/ Touch(p)
  PROVE  FilesFollow /\ NoneComesBack
  <1>1. PICK g \in File : g = fs[p] /\ g # NoFile
    BY DEF AppendRecord, Touch, Exists, FilesTypeOK
  <1>2. /\ g.sid \in MayHold[p] /\ high[p][g.sid] = g.len
        /\ g.len \in 0..MaxLen /\ MaxLen \in Nat
    BY <1>1, FileAssumption DEF FilesInv, Exists, File
  <1>3. \E f \in File : f.sid = g.sid /\ g.len <= f.len /\ Put(p, f)
    <2>1. CASE AppendRecord(p)
      <3>1. PICK t \in MTime : Put(p, [fs[p] EXCEPT !.len = @ + 1, !.mtime = t])
        BY <2>1 DEF AppendRecord
      <3>2. PICK n \in 0..MaxLen : n = g.len + 1 /\ g.len <= n
        <4>1. g.len < MaxLen
          BY <1>1, <2>1 DEF AppendRecord
        <4>2. g.len + 1 \in 0..MaxLen /\ g.len <= g.len + 1
          BY <1>2, <4>1
        <4> QED
          BY <4>2
      <3>3. PICK f : f = [fs[p] EXCEPT !.len = @ + 1, !.mtime = t]
        OBVIOUS
      <3>4. f = [g EXCEPT !.len = n, !.mtime = t]
        BY <1>1, <3>2, <3>3
      <3>5. f \in File /\ f.sid = g.sid /\ f.len = n
        BY <3>4 DEF File
      <3>6. Put(p, f)
        BY <3>1, <3>3
      <3> QED
        BY <3>2, <3>5, <3>6
    <2>2. CASE Touch(p)
      <3>1. PICK t \in MTime : Put(p, [fs[p] EXCEPT !.mtime = t])
        BY <2>2 DEF Touch
      <3>2. PICK f : f = [g EXCEPT !.mtime = t]
        OBVIOUS
      <3>3. f \in File /\ f.sid = g.sid /\ g.len <= f.len
        BY <1>2, <3>2 DEF File
      <3>4. Put(p, f)
        BY <1>1, <3>1, <3>2
      <3> QED
        BY <3>3, <3>4
    <2> QED
      BY <2>1, <2>2
  <1>4. PICK f \in File : f.sid = g.sid /\ g.len <= f.len /\ Put(p, f)
    BY <1>3
  <1>5. f # NoFile
    BY FileAssumption DEF File
  <1>6. /\ FilesFollow /\ fs'[p] = f
        /\ \A q \in Path : q # p => fs'[q] = fs[q]
    BY <1>2, <1>4, <1>5, PutFollows
  <1>7. NoneComesBack
    BY <1>1, <1>4, <1>6 DEF NoneComesBack, Exists
  <1> QED
    BY <1>6, <1>7

LEMMA RemoveFollows ==
  ASSUME FilesTypeOK, FilesInv, NEW p \in Path, DeleteFile(p)
  PROVE  FilesFollow /\ NoneComesBack
  <1>1. MaxLen \in Nat
    BY FileAssumption
  <1>2. /\ fs' \in [Path -> File \cup {NoFile}] /\ high' = high
        /\ \A q \in Path : fs'[q] = NoFile \/ fs'[q] = fs[q]
    BY DEF DeleteFile, FilesTypeOK
  <1>3. FilesInv'
    BY <1>2 DEF FilesInv, Exists
  <1>4. Grows
    BY <1>1, <1>2 DEF Grows, FilesTypeOK
  <1>5. NoneComesBack
    BY <1>2 DEF NoneComesBack, Exists
  <1> QED
    BY <1>2, <1>3, <1>4, <1>5 DEF FilesFollow, FilesTypeOK

LEMMA MoveFollows ==
  ASSUME FilesTypeOK, FilesInv, NEW p \in Path, NEW q \in Path, Move(p, q)
  PROVE  FilesFollow /\ (q \in Archived => NoneComesBack)
  <1>1. PICK g \in File : g = fs[p] /\ g # NoFile
    BY DEF Move, Exists, FilesTypeOK
  <1>2. /\ g.sid \in MayHold[q] /\ high[q][g.sid] <= g.len /\ p # q
        /\ fs' = [fs EXCEPT ![p] = NoFile, ![q] = g]
        /\ high' = [high EXCEPT ![q][g.sid] = g.len]
    BY <1>1 DEF Move
  <1>3. g.sid \in Session /\ g.len \in 0..MaxLen /\ MaxLen \in Nat
    BY FileAssumption DEF File
  <1>4. /\ fs' \in [Path -> File \cup {NoFile}] /\ high' \in [Path -> [Session -> 0..MaxLen]]
        /\ \A r \in Path : r # q => fs'[r] = NoFile \/ fs'[r] = fs[r]
    BY <1>2, <1>3 DEF FilesTypeOK
  <1>5. FilesInv'
    BY <1>2, <1>3 DEF FilesTypeOK, FilesInv, Exists, File
  <1>6. Grows
    BY <1>2, <1>3 DEF FilesTypeOK, Grows
  <1>7. q \in Archived => NoneComesBack
    BY <1>4 DEF NoneComesBack, Exists
  <1> QED
    BY <1>4, <1>5, <1>6, <1>7 DEF FilesFollow

LEMMA FilesStep ==
  ASSUME FilesTypeOK, FilesInv, FilesNext
  PROVE  /\ FilesTypeOK' /\ FilesInv' /\ Grows
         /\ ~MoveBack => NoneComesBack
  <1>1. changes' \in 0..MaxChanges
    BY FileAssumption DEF FilesNext, FilesTypeOK
  <1>2. FilesFollow /\ (~MoveBack => NoneComesBack)
    BY CreateFollows, RewriteFollows, RemoveFollows, MoveFollows
       DEF FilesNext, Archive, Unarchive
  <1> QED
    BY <1>1, <1>2 DEF FilesFollow, FilesTypeOK

LEMMA CodexTyped ==
  ASSUME TInv, Codex
  PROVE  TInv'
  <1>1. FilesTypeOK' /\ FilesInv'
    BY FilesStep DEF Codex, TInv
  <1>2. Sane(search, interrupted)'
    BY DEF TInv, Sane, Codex
  <1> QED
    BY <1>1, <1>2 DEF TInv, Codex

-----------------------------------------------------------------------------
(* The commands. *)

\* What a step of the commands is to live search.
LEMMA ByTheCommands ==
  ASSUME [CommandsNext]_commandsVars
  PROVE  \/ Work \/ Cancel \/ Start \/ Codex \/ Exit
         \/ lasting' = {} /\ UNCHANGED <<filesVars, search, quiet, interrupted>>
         \/ UNCHANGED <<filesVars, searchVars>>
  <1>1. CASE CommandsNext
    BY <1>1 DEF CommandsNext, RunLookup, RunSearch, ContinueCompare, RunIndexed,
                CommandRuns, FilesChange
  <1>2. CASE UNCHANGED commandsVars
    BY <1>2 DEF commandsVars
  <1> QED
    BY <1>1, <1>2

LEMMA InitTyped ==
  ASSUME CommandsInit
  PROVE  TInv
  <1>1. PICK options : options = NoOptions
    OBVIOUS
  <1>2. options.limit = 1 /\ options.wanted = {} /\ search = Fresh("idle", FALSE, options)
    BY <1>1 DEF NoOptions, CommandsInit, Init
  <1>3. MaxLen \in Nat /\ MaxChanges \in Nat /\ FilesInit
    BY FileAssumption DEF CommandsInit, Init
  <1>4. FilesTypeOK
    BY <1>3 DEF FilesInit, FilesTypeOK, HighAfter, File
  <1>5. FilesInv
    BY <1>3 DEF FilesInit, FilesInv, HighAfter, Exists, File
  <1>6. Sane(search, FALSE)
    BY <1>2, <1>4, <1>5, FreshTyped DEF Stage
  <1> QED
    BY <1>4, <1>5, <1>6 DEF TInv, CommandsInit, Init

LEMMA StepTyped ==
  ASSUME TInv, [CommandsNext]_commandsVars
  PROVE  TInv'
  <1>1. CASE Work \/ Cancel \/ Start \/ Codex \/ Exit
    BY <1>1, WorkTyped, CancelTyped, StartTyped, CodexTyped, ExitTyped
  <1>2. CASE lasting' = {} /\ UNCHANGED <<filesVars, search, quiet, interrupted>>
    BY <1>2 DEF TInv, FilesTypeOK, FilesInv, Exists, Sane, filesVars
  <1>3. CASE UNCHANGED <<filesVars, searchVars>>
    BY <1>3 DEF TInv, FilesTypeOK, FilesInv, Exists, Sane, filesVars, searchVars
  <1> QED
    BY <1>1, <1>2, <1>3, ByTheCommands

LEMMA Typed == CommandsSpec => []TInv
  <1>1. CommandsInit => TInv
    BY InitTyped
  <1>2. TInv /\ [CommandsNext]_commandsVars => TInv'
    BY StepTyped
  <1> QED
    BY <1>1, <1>2, PTL DEF CommandsSpec

(***************************************************************************)
(* The variables of live search have their types, whichever commands run   *)
(* one after another, and no search returns more than --limit matches.     *)
(***************************************************************************)
THEOREM SearchTypeCorrect == CommandsSpec => []TypeOK
  <1>1. TInv => TypeOK
    BY DEF TInv, TypeOK, Sane, Frame, Match
  <1> QED
    BY <1>1, Typed, PTL

(***************************************************************************)
(* Ctrl+C is cooperative cancellation of search (README.md:429): at        *)
(* whatever point of whatever search it comes, the search returns an error.*)
(***************************************************************************)
THEOREM CancelledIsReported == CommandsSpec => []CancelReported
  <1>1. TInv => CancelReported
    BY DEF TInv, CancelReported, Sane
  <1> QED
    BY <1>1, Typed, PTL

-----------------------------------------------------------------------------
(* Nothing is lost silently, where a path is that of one session and no     *)
(* rollout leaves the archive.                                              *)

NoSharedPath == \A p \in Path : \A s, t \in MayHold[p] : s = t

\* If there is a file at p at all, it can be read and is of s.
Good(p, s) ==
    p \in Path /\ s \in MayHold[p] /\ (p \in StandardName \/ high[p][s] > 0)

IsReported(j, s) == \E k \in DOMAIN j.matches : j.matches[k].id = s

Spared(j, s) == \E p \in j.broken : Good(p, s)

\* Where a session that has matched all the while is, at each stage.
AfterActive(j, s) ==
    \A p \in Path \ Archived : Exists(p) /\ fs[p].sid = s => p \in j.unparsed

WhileParsing(j, s) ==
    Spared(j, s) \/ j.byId[s] # None \/ \E p \in j.unparsed : Good(p, s)

WhileScanning(j, s) ==
    \/ Spared(j, s) \/ s \in j.todo \/ j.warned \/ IsReported(j, s)
    \/ j.pc = "meta" /\ Good(j.cur, s)

Follows(j, s) ==
    /\ j.pc = "walkArchived" => AfterActive(j, s)
    /\ j.pc = "parse" => WhileParsing(j, s)
    /\ j.pc \in {"scan", "meta"} => WhileScanning(j, s)
    /\ j.pc = "idle" /\ j.outcome = "clean" /\ Len(j.matches) < j.limit => IsReported(j, s)

Followed(j) ==
    /\ j.pc = "ripgrep" => j.rg
    /\ \A s \in Session : j.byId[s] # None => Good(j.byId[s], s)
    /\ ~j.rg /\ ~j.cut => \A s \in lasting \cap j.wanted : Follows(j, s)

SInv == TInv /\ lasting \subseteq AllHit /\ Followed(search)

LEMMA FollowedMeansReported ==
  ASSUME SInv
  PROVE  NoSilentLoss
  <1>1. ASSUME search.pc = "idle", search.outcome = "clean", ~search.rg, ~search.cut,
               Len(search.matches) < search.limit, NEW s \in lasting \cap search.wanted
        PROVE  s \in Reported
    <2>1. IsReported(search, s)
      BY <1>1 DEF SInv, Followed, Follows
    <2> QED
      BY <2>1 DEF IsReported, Reported
  <1> QED
    BY <1>1 DEF NoSilentLoss

\* What a readable path promises.
LEMMA ReadableIsGood ==
  ASSUME TInv, NEW p \in Path, Parses(p)
  PROVE  Good(p, ParsedID(p)) /\ ParsedID(p) \in Session
  <1>1. fs[p] \in File /\ ParsedID(p) \in Session
    BY ParsedSession DEF TInv, Parses
  <1>2. fs[p].sid \in MayHold[p] /\ high[p][fs[p].sid] = fs[p].len
    BY DEF TInv, FilesInv, Parses
  <1> QED
    BY <1>1, <1>2 DEF Good, Parses, ParsedID

LEMMA GoodIsReadable ==
  ASSUME NoSharedPath, TInv, NEW p, NEW s, Good(p, s), Exists(p)
  PROVE  Parses(p) /\ ParsedID(p) = s
  <1>1. p \in Path /\ fs[p].sid \in MayHold[p] /\ high[p][fs[p].sid] = fs[p].len
    BY DEF TInv, FilesInv, Good
  <1>2. fs[p].sid = s
    BY <1>1 DEF NoSharedPath, Good
  <1> QED
    BY <1>1, <1>2 DEF Good, Parses, ParsedID

LEMMA GoodHits ==
  ASSUME NoSharedPath, SInv, NEW s \in lasting, NEW p, Good(p, s), Exists(p)
  PROVE  Hits(p)
  <1>1. Parses(p) /\ ParsedID(p) = s /\ p \in Path
    BY GoodIsReadable DEF SInv, Good
  <1>2. p \in Copies(s)
    BY <1>1 DEF Copies
  <1> QED
    BY <1>2 DEF SInv, AllHit

\* A search's step leaves the files alone: it is enough to look at its frame.
LEMMA FrameFollowed ==
  ASSUME SInv, TInv', UNCHANGED filesVars, UNCHANGED lasting,
         NEW j, j = search', Followed(j)
  PROVE  SInv'
  <1>1. \A p, s : Good(p, s)' <=> Good(p, s)
    BY DEF Good, filesVars
  <1>2. (lasting \subseteq AllHit)'
    BY DEF SInv, AllHit, Copies, Hits, Parses, ParsedID, Exists, filesVars
  <1>3. \A s : Follows(search, s)' <=> Follows(j, s)
    BY DEF Follows, AfterActive, WhileParsing, WhileScanning, Spared, IsReported, Good,
           Exists, filesVars
  <1>4. Followed(search)'
    BY <1>1, <1>3 DEF Followed
  <1> QED
    BY <1>2, <1>4 DEF SInv

\* A step that changes neither what is known nor the options.
LEMMA EachFollowed ==
  ASSUME SInv, NEW j, j.pc = "ripgrep" => j.rg, j.wanted = search.wanted,
         \A s \in Session : j.byId[s] # None => Good(j.byId[s], s),
         ~j.rg /\ ~j.cut => \A s \in lasting \cap search.wanted : Follows(j, s)
  PROVE  Followed(j)
  BY DEF Followed

LEMMA LeaveFollowed ==
  ASSUME SInv, Interrupted \/ Finish, NEW j, j = search'
  PROVE  Followed(j)
  <1>1. PICK outcome \in {"clean", "warned", "error"} :
          /\ Return(outcome)
          /\ outcome = "clean" =>
               /\ ~search.warned /\ search.pc = "scan"
               /\ Full \/ (search.todo = {} /\ search.broken = {})
    BY DEF Interrupted, Finish
  <1>2. /\ j.pc = "idle" /\ j.outcome = outcome /\ j.matches = search.matches
        /\ j.cut = search.cut /\ j.rg = search.rg /\ j.limit = search.limit
        /\ j.wanted = search.wanted /\ \A s \in Session : j.byId[s] = None
    BY <1>1, ReturnFrame DEF SInv
  <1>3. ASSUME ~j.rg, ~j.cut, NEW s \in lasting \cap search.wanted,
               outcome = "clean", Len(j.matches) < j.limit
        PROVE  IsReported(j, s)
    <2>1. WhileScanning(search, s)
      BY <1>1, <1>2, <1>3 DEF SInv, Followed, Follows
    <2>2. search.matches \in Seq(Match) /\ search.limit \in Nat
      BY Limits DEF SInv, TInv, Sane, Frame
    <2>3. ~Full
      BY <1>2, <1>3, <2>2, LenProperties DEF Full
    <2>4. IsReported(search, s)
      BY <1>1, <1>3, <2>1, <2>3 DEF WhileScanning, Spared
    <2> QED
      BY <1>2, <2>4 DEF IsReported
  <1>4. ~j.rg /\ ~j.cut => \A s \in lasting \cap search.wanted : Follows(j, s)
    BY <1>2, <1>3 DEF Follows
  <1> QED
    BY <1>2, <1>4, EachFollowed

LEMMA RipgrepFollowed ==
  ASSUME SInv, Ripgrep, NEW j, j = search'
  PROVE  Followed(j)
  <1>1. search \in Frame /\ search.pc = "ripgrep"
    BY DEF SInv, TInv, Sane, Ripgrep
  <1>2. PICK root \in search.roots :
          search' = [search EXCEPT
            !.roots = search.roots \ {root},
            !.unparsed = search.unparsed \cup {p \in root : Exists(p) /\ RawHits(p)},
            !.pc = IF search.roots = {root} THEN "parse" ELSE search.pc]
    BY DEF Ripgrep, Become
  <1>3. PICK found, pc, roots : j = [search EXCEPT !.roots = roots, !.unparsed = found, !.pc = pc]
    BY <1>2
  <1>4. j.byId = search.byId /\ j.rg = search.rg /\ j.wanted = search.wanted
    BY <1>1, <1>3 DEF Frame
  <1>5. search.rg /\ \A s \in Session : search.byId[s] # None => Good(search.byId[s], s)
    BY <1>1 DEF SInv, Followed
  <1> QED
    BY <1>4, <1>5, EachFollowed

LEMMA RipgrepFailsFollowed ==
  ASSUME SInv, RipgrepFails, NEW j, j = search'
  PROVE  Followed(j)
  <1>1. search \in Frame
    BY DEF SInv, TInv, Sane
  <1>2. j = [search EXCEPT !.pc = "walkActive", !.unparsed = {}, !.rg = FALSE]
    BY DEF RipgrepFails, Become
  <1>3. j.pc = "walkActive" /\ j.byId = search.byId /\ j.wanted = search.wanted
    BY <1>1, <1>2 DEF Frame
  <1>4. \A s : Follows(j, s)
    BY <1>3 DEF Follows
  <1>5. \A s \in Session : search.byId[s] # None => Good(search.byId[s], s)
    BY DEF SInv, Followed
  <1> QED
    BY <1>3, <1>4, <1>5, EachFollowed

\* A session that lasts is somewhere, where it can be read.
LEMMA LastingIsSomewhere ==
  ASSUME SInv, NEW s \in lasting
  PROVE  \E p \in Path : Exists(p) /\ fs[p].sid = s /\ Good(p, s)
  <1>1. PICK p \in Path : Parses(p) /\ ParsedID(p) = s
    BY DEF SInv, AllHit, Copies
  <1>2. Good(p, s)
    BY <1>1, ReadableIsGood DEF SInv
  <1> QED
    BY <1>1, <1>2 DEF Parses, ParsedID

LEMMA WalkFollowed ==
  ASSUME SInv, Walk, NEW j, j = search'
  PROVE  Followed(j)
  <1>1. TInv /\ Archived \subseteq Path
    BY PathAssumption DEF SInv
  <1>2. \A s \in Session : search.byId[s] # None => Good(search.byId[s], s)
    BY DEF SInv, Followed
  <1>3. CASE WalkRoot("walkActive", Path \ Archived, "walkArchived")
    <2>1. PICK listed \in Listings(Path \ Archived) :
            /\ j.pc = "walkArchived" /\ j.unparsed = search.unparsed \cup listed
            /\ j.cut = (search.cut \/ listed # Complete(Path \ Archived))
            /\ j.byId = search.byId /\ j.wanted = search.wanted
      BY <1>1, <1>3, WalkFrame
    <2>2. ASSUME ~j.cut, NEW s \in lasting \cap search.wanted
          PROVE  Follows(j, s)
      <3>1. listed = Complete(Path \ Archived)
        BY <2>1, <2>2
      <3>2. AfterActive(j, s)
        BY <2>1, <3>1 DEF AfterActive, Complete
      <3> QED
        BY <2>1, <3>2 DEF Follows
    <2> QED
      BY <1>2, <2>1, <2>2, EachFollowed
  <1>4. CASE WalkRoot("walkArchived", Archived, "parse")
    <2>1. PICK listed \in Listings(Archived) :
            /\ j.pc = "parse" /\ j.unparsed = search.unparsed \cup listed
            /\ j.cut = (search.cut \/ listed # Complete(Archived))
            /\ j.byId = search.byId /\ j.wanted = search.wanted /\ j.rg = search.rg
      BY <1>1, <1>4, WalkFrame
    <2>2. ASSUME ~j.rg, ~j.cut, NEW s \in lasting \cap search.wanted
          PROVE  Follows(j, s)
      <3>1. listed = Complete(Archived) /\ ~search.cut /\ search.pc = "walkArchived"
        BY <1>4, <2>1, <2>2 DEF WalkRoot
      <3>2. AfterActive(search, s)
        BY <2>1, <2>2, <3>1 DEF SInv, Followed, Follows
      <3>3. PICK p \in Path : Exists(p) /\ fs[p].sid = s /\ Good(p, s)
        BY LastingIsSomewhere
      <3>4. p \in j.unparsed
        BY <2>1, <3>1, <3>2, <3>3 DEF AfterActive, Complete
      <3>5. WhileParsing(j, s)
        BY <3>3, <3>4 DEF WhileParsing
      <3> QED
        BY <2>1, <3>5 DEF Follows
    <2> QED
      BY <1>2, <2>1, <2>2, EachFollowed
  <1> QED
    BY <1>3, <1>4 DEF Walk

LEMMA ParseFollowed ==
  ASSUME NoSharedPath, SInv, Parse, NEW j, j = search'
  PROVE  Followed(j)
  <1>1. TInv /\ search \in Frame /\ search.pc = "parse"
    BY DEF SInv, TInv, Sane, Parse
  <1>2. PICK p \in search.unparsed :
          /\ Keeps(j) /\ j.pc = "parse" /\ j.unparsed = search.unparsed \ {p}
          /\ \/ ~Parses(p) /\ j.byId = search.byId /\ j.broken = search.broken \cup {p}
             \/ /\ Parses(p) /\ j.broken = search.broken
                /\ \A s \in Session : s # ParsedID(p) => j.byId[s] = search.byId[s]
                /\ j.byId[ParsedID(p)] \in {p, search.byId[ParsedID(p)]} \ {None}
    BY <1>1, ParseFrame
  <1>3. p \in Path
    BY <1>1 DEF Frame
  <1>4. \A s \in Session : search.byId[s] # None => Good(search.byId[s], s)
    BY DEF SInv, Followed
  <1>5. Parses(p) => Good(p, ParsedID(p)) /\ ParsedID(p) \in Session
    BY <1>1, <1>3, ReadableIsGood
  <1>6. \A s \in Session : j.byId[s] # None => Good(j.byId[s], s)
    BY <1>2, <1>4, <1>5
  <1>7. ASSUME ~j.rg, ~j.cut, NEW s \in lasting \cap search.wanted
        PROVE  Follows(j, s)
    <2>1. WhileParsing(search, s)
      BY <1>1, <1>2, <1>7 DEF SInv, Followed, Follows, Keeps
    <2>2. s \in Session
      BY DEF SInv, TInv
    <2>3. CASE ~Parses(p)
      <3>1. j.byId = search.byId /\ j.broken = search.broken \cup {p}
        BY <1>2, <2>3
      <3>2. WhileParsing(j, s)
        BY <1>2, <2>1, <3>1 DEF WhileParsing, Spared
      <3> QED
        BY <1>2, <3>2 DEF Follows
    <2>4. CASE Parses(p)
      <3>1. /\ j.broken = search.broken
            /\ search.byId[s] # None => j.byId[s] # None
            /\ s = ParsedID(p) => j.byId[s] # None
        BY <1>2, <2>2, <2>4
      <3>2. Good(p, s) => s = ParsedID(p)
        BY <1>1, <2>4, GoodIsReadable DEF Parses
      <3>3. WhileParsing(j, s)
        BY <1>2, <2>1, <3>1, <3>2 DEF WhileParsing, Spared
      <3> QED
        BY <1>2, <3>3 DEF Follows
    <2> QED
      BY <2>3, <2>4
  <1>8. j.wanted = search.wanted
    BY <1>2 DEF Keeps
  <1> QED
    BY <1>2, <1>6, <1>7, <1>8, EachFollowed

LEMMA RankFollowed ==
  ASSUME SInv, Rank, NEW j, j = search'
  PROVE  Followed(j)
  <1>1. search.pc = "parse" /\ search.unparsed = {} /\ TInv
    BY DEF SInv, Rank
  <1>2. /\ Keeps(j) /\ j.pc = "scan" /\ j.byId = search.byId /\ j.broken = search.broken
        /\ j.todo = {s \in search.wanted : search.byId[s] # None}
    BY <1>1, RankFrame
  <1>3. ASSUME ~j.rg, ~j.cut, NEW s \in lasting \cap search.wanted
        PROVE  Follows(j, s)
    <2>1. WhileParsing(search, s)
      BY <1>1, <1>2, <1>3 DEF SInv, Followed, Follows, Keeps
    <2>2. WhileScanning(j, s)
      BY <1>1, <1>2, <2>1 DEF WhileParsing, WhileScanning, Spared
    <2> QED
      BY <1>2, <2>2 DEF Follows
  <1>4. \A s \in Session : search.byId[s] # None => Good(search.byId[s], s)
    BY DEF SInv, Followed
  <1>5. j.wanted = search.wanted
    BY <1>2 DEF Keeps
  <1> QED
    BY <1>2, <1>3, <1>4, <1>5, EachFollowed

\* A match added to those there are is reported, and so are they.
LEMMA AppendReports ==
  ASSUME NEW j, NEW i, i.matches \in Seq(Match), NEW m \in Match,
         j.matches = Append(i.matches, m)
  PROVE  /\ IsReported(j, m.id)
         /\ \A s : IsReported(i, s) => IsReported(j, s)
  <1>1. PICK old \in Seq(Match) : old = i.matches
    OBVIOUS
  <1>2. PICK new : new = Append(old, m)
    OBVIOUS
  <1>3. Len(old) \in Nat /\ DOMAIN old = 1..Len(old)
    BY LenProperties
  <1>4. /\ new \in Seq(Match) /\ Len(new) = Len(old) + 1
        /\ \A k \in 1..Len(old) : new[k] = old[k]
        /\ new[Len(old) + 1] = m
    BY <1>2, AppendProperties
  <1>5. DOMAIN new = 1..Len(new)
    BY <1>4, LenProperties
  <1>6. Len(old) + 1 \in DOMAIN new /\ \A k \in DOMAIN old : k \in DOMAIN new
    BY <1>3, <1>4, <1>5
  <1>7. j.matches = new /\ i.matches = old
    BY <1>1, <1>2
  <1> QED
    BY <1>3, <1>4, <1>6, <1>7 DEF IsReported

LEMMA RankedFollowed ==
  ASSUME NoSharedPath, SInv, ScanRanked, NEW j, j = search'
  PROVE  Followed(j)
  <1>1. TInv /\ search \in Frame /\ search.pc = "scan"
    BY DEF SInv, TInv, Sane, ScanRanked
  <1>2. PICK t \in search.todo :
          /\ search.byId[t] \in Path /\ Keeps(j) /\ j.pc = "scan"
          /\ j.todo = search.todo \ {t}
          /\ j.byId = search.byId /\ j.broken = search.broken
          /\ \/ /\ ~Exists(search.byId[t]) /\ j.warned
                /\ j.matches = search.matches
             \/ /\ Hits(search.byId[t]) /\ j.warned = search.warned
                /\ j.matches = Append(search.matches, [id |-> t, path |-> search.byId[t]])
             \/ /\ Exists(search.byId[t]) /\ ~Hits(search.byId[t])
                /\ j.warned = search.warned /\ j.matches = search.matches
    BY <1>1, RankedFrame
  <1>3. \A s \in Session : search.byId[s] # None => Good(search.byId[s], s)
    BY DEF SInv, Followed
  <1>4. t \in Session /\ Good(search.byId[t], t) /\ search.matches \in Seq(Match)
    BY <1>1, <1>2, <1>3, NoneAssumption DEF Frame
  <1>5. PICK m \in Match : m = [id |-> t, path |-> search.byId[t]]
    BY <1>2, <1>4 DEF Match
  <1>6. ASSUME ~j.rg, ~j.cut, NEW s \in lasting \cap search.wanted
        PROVE  Follows(j, s)
    <2>1. WhileScanning(search, s)
      BY <1>1, <1>2, <1>6 DEF SInv, Followed, Follows, Keeps
    <2>2. CASE j.warned
      BY <1>2, <2>2 DEF Follows, WhileScanning
    <2>3. CASE j.matches = Append(search.matches, m) /\ j.warned = search.warned
      <3>1. IsReported(j, t) /\ (IsReported(search, s) => IsReported(j, s))
        BY <1>4, <1>5, <2>3, AppendReports
      <3>2. WhileScanning(j, s)
        BY <1>1, <1>2, <2>1, <2>3, <3>1 DEF WhileScanning, Spared
      <3> QED
        BY <1>2, <3>2 DEF Follows
    <2>4. CASE /\ Exists(search.byId[t]) /\ ~Hits(search.byId[t])
               /\ j.warned = search.warned /\ j.matches = search.matches
      <3>1. s # t
        BY <1>4, <2>4, GoodHits
      <3>2. WhileScanning(j, s)
        BY <1>1, <1>2, <2>1, <2>4, <3>1 DEF WhileScanning, Spared, IsReported
      <3> QED
        BY <1>2, <3>2 DEF Follows
    <2> QED
      BY <1>2, <1>5, <2>2, <2>3, <2>4
  <1>7. j.wanted = search.wanted
    BY <1>2 DEF Keeps
  <1> QED
    BY <1>2, <1>3, <1>6, <1>7, EachFollowed

LEMMA BrokenFollowed ==
  ASSUME NoSharedPath, SInv, ScanBroken, NEW j, j = search'
  PROVE  Followed(j)
  <1>1. TInv /\ search.pc = "scan"
    BY DEF SInv, ScanBroken
  <1>2. PICK p \in search.broken :
          /\ Keeps(j) /\ j.matches = search.matches /\ j.todo = search.todo
          /\ j.byId = search.byId /\ j.broken = search.broken \ {p}
          /\ \/ ~Exists(p) /\ j.pc = "scan" /\ j.warned
             \/ Hits(p) /\ j.pc = "meta" /\ j.cur = p /\ j.warned = search.warned
             \/ Exists(p) /\ ~Hits(p) /\ j.pc = "scan" /\ j.warned = search.warned
    BY <1>1, BrokenFrame
  <1>3. ASSUME ~j.rg, ~j.cut, NEW s \in lasting \cap search.wanted
        PROVE  Follows(j, s)
    <2>1. WhileScanning(search, s)
      BY <1>1, <1>2, <1>3 DEF SInv, Followed, Follows, Keeps
    <2>2. CASE j.warned
      BY <1>2, <2>2 DEF Follows, WhileScanning
    <2>3. CASE j.pc = "meta" /\ j.cur = p /\ j.warned = search.warned
      <3>1. WhileScanning(j, s)
        BY <1>1, <1>2, <2>1, <2>3 DEF WhileScanning, Spared, IsReported
      <3> QED
        BY <2>3, <3>1 DEF Follows
    <2>4. CASE Exists(p) /\ ~Hits(p) /\ j.pc = "scan" /\ j.warned = search.warned
      <3>1. ~Good(p, s)
        BY <2>4, GoodHits
      <3>2. WhileScanning(j, s)
        BY <1>1, <1>2, <2>1, <2>4, <3>1 DEF WhileScanning, Spared, IsReported
      <3> QED
        BY <2>4, <3>2 DEF Follows
    <2> QED
      BY <1>2, <2>2, <2>3, <2>4
  <1>4. \A s \in Session : search.byId[s] # None => Good(search.byId[s], s)
    BY DEF SInv, Followed
  <1>5. j.wanted = search.wanted /\ j.pc # "ripgrep"
    BY <1>2 DEF Keeps
  <1> QED
    BY <1>2, <1>3, <1>4, <1>5, EachFollowed

LEMMA IdentifyFollowed ==
  ASSUME NoSharedPath, SInv, Identify, NEW j, j = search'
  PROVE  Followed(j)
  <1>1. TInv /\ search.pc = "meta" /\ search.matches \in Seq(Match)
    BY DEF SInv, TInv, Sane, Frame, Identify
  <1>2. PICK p \in Path : p = search.cur
    BY <1>1, IdentifyFrame
  <1>3. /\ Keeps(j) /\ j.pc = "scan" /\ j.todo = search.todo
        /\ j.byId = search.byId /\ j.broken = search.broken
        /\ \/ ~Parses(p) /\ j.warned
           \/ /\ Parses(p) /\ j.warned = search.warned
              /\ j.matches = Append(search.matches, [id |-> ParsedID(p), path |-> p])
    BY <1>1, <1>2, IdentifyFrame
  <1>4. ASSUME ~j.rg, ~j.cut, NEW s \in lasting \cap search.wanted
        PROVE  Follows(j, s)
    <2>1. WhileScanning(search, s)
      BY <1>1, <1>3, <1>4 DEF SInv, Followed, Follows, Keeps
    <2>2. CASE j.warned
      BY <1>3, <2>2 DEF Follows, WhileScanning
    <2>3. CASE /\ Parses(p) /\ j.warned = search.warned
               /\ j.matches = Append(search.matches, [id |-> ParsedID(p), path |-> p])
      <3>1. ParsedID(p) \in Session
        BY <1>1, <2>3, ReadableIsGood
      <3>2. PICK m \in Match : m = [id |-> ParsedID(p), path |-> p]
        BY <3>1 DEF Match
      <3>3. IsReported(j, ParsedID(p)) /\ (IsReported(search, s) => IsReported(j, s))
        <4>1. m.id = ParsedID(p) /\ j.matches = Append(search.matches, m)
          BY <2>3, <3>2
        <4>2. IsReported(j, m.id) /\ \A t : IsReported(search, t) => IsReported(j, t)
          BY <1>1, <4>1, AppendReports
        <4> QED
          BY <4>1, <4>2
      <3>4. Good(p, s) => ParsedID(p) = s
        BY <1>1, <2>3, GoodIsReadable DEF Parses
      <3>5. WhileScanning(j, s)
        BY <1>2, <1>3, <2>1, <2>3, <3>3, <3>4 DEF WhileScanning, Spared
      <3> QED
        BY <1>3, <3>5 DEF Follows
    <2> QED
      BY <1>3, <2>2, <2>3
  <1>5. \A s \in Session : search.byId[s] # None => Good(search.byId[s], s)
    BY DEF SInv, Followed
  <1>6. j.wanted = search.wanted
    BY <1>3 DEF Keeps
  <1> QED
    BY <1>3, <1>4, <1>5, <1>6, EachFollowed

LEMMA WorkSafe ==
  ASSUME NoSharedPath, SInv, Work
  PROVE  SInv'
  <1>1. PICK j : j = search'
    OBVIOUS
  <1>2. Followed(j)
    BY <1>1, LeaveFollowed, RipgrepFollowed, RipgrepFailsFollowed, WalkFollowed,
       ParseFollowed, RankFollowed, RankedFollowed, BrokenFollowed, IdentifyFollowed
       DEF Work
  <1>3. UNCHANGED filesVars /\ UNCHANGED lasting
    BY DEF Work
  <1>4. TInv'
    BY WorkTyped DEF SInv
  <1> QED
    BY <1>1, <1>2, <1>3, <1>4, FrameFollowed

LEMMA CancelSafe ==
  ASSUME SInv, Cancel
  PROVE  SInv'
  <1>1. PICK j : j = search'
    OBVIOUS
  <1>2. search \in Frame /\ j = [search EXCEPT !.cancelled = TRUE]
    BY <1>1 DEF SInv, TInv, Sane, Cancel, Become
  <1>3. /\ j.pc = search.pc /\ j.rg = search.rg /\ j.cut = search.cut
        /\ j.wanted = search.wanted /\ j.limit = search.limit /\ j.byId = search.byId
        /\ j.unparsed = search.unparsed /\ j.broken = search.broken /\ j.todo = search.todo
        /\ j.warned = search.warned /\ j.matches = search.matches /\ j.cur = search.cur
        /\ j.outcome = search.outcome
    BY <1>2 DEF Frame
  <1>4. \A s : Follows(search, s) => Follows(j, s)
    BY <1>3 DEF Follows, AfterActive, WhileParsing, WhileScanning, Spared, IsReported
  <1>5. Followed(j)
    BY <1>3, <1>4 DEF SInv, Followed
  <1>6. TInv' /\ UNCHANGED filesVars /\ UNCHANGED lasting
    BY CancelTyped DEF SInv, Cancel
  <1> QED
    BY <1>1, <1>5, <1>6, FrameFollowed

\* A frame at its beginning knows nothing, and owes nothing.
LEMMA FreshFollowed ==
  ASSUME NEW pc \in {"idle", "ripgrep", "walkActive"}, NEW rg \in BOOLEAN,
         pc = "ripgrep" => rg,
         NEW options, options.limit \in {o.limit : o \in Searches} \cup {1},
         options.wanted \in SUBSET Session, NEW j, j = Fresh(pc, rg, options)
  PROVE  /\ j.pc = "ripgrep" => j.rg
         /\ \A s \in Session : j.byId[s] = None
         /\ \A s : Follows(j, s)
  <1>1. /\ j.pc = pc /\ j.rg = rg /\ j.outcome = "none"
        /\ \A s \in Session : j.byId[s] = None
    BY FreshFrame DEF Stage
  <1>2. \A s : Follows(j, s)
    BY <1>1 DEF Follows
  <1> QED
    BY <1>1, <1>2

LEMMA StartSafe ==
  ASSUME SInv, Start
  PROVE  SInv'
  <1>1. PICK pc \in {"ripgrep", "walkActive"}, rg \in BOOLEAN, options \in Searches :
          /\ search' = Fresh(pc, rg, options) /\ (pc = "ripgrep" <=> rg)
          /\ options.limit \in {o.limit : o \in Searches} \cup {1}
          /\ options.wanted \in SUBSET Session
    BY StartFrame
  <1>2. PICK j : j = search'
    OBVIOUS
  <1>3. /\ j.pc = "ripgrep" => j.rg
        /\ \A s \in Session : j.byId[s] = None
        /\ \A s : Follows(j, s)
    BY <1>1, <1>2, FreshFollowed
  <1>4. UNCHANGED filesVars /\ lasting' = AllHit
    BY DEF Start
  <1>5. (lasting \subseteq AllHit)'
    BY <1>4 DEF AllHit, Copies, Hits, Parses, ParsedID, Exists, filesVars
  <1>6. \A s : Follows(search, s)' <=> Follows(j, s)
    BY <1>2, <1>4 DEF Follows, AfterActive, WhileParsing, WhileScanning, Spared,
                      IsReported, Good, Exists, filesVars
  <1>7. Followed(search)'
    BY <1>2, <1>3, <1>6 DEF Followed
  <1>8. TInv'
    BY StartTyped DEF SInv
  <1> QED
    BY <1>5, <1>7, <1>8 DEF SInv

LEMMA ExitSafe ==
  ASSUME SInv, Exit
  PROVE  SInv'
  <1>1. PICK options : options = NoOptions
    OBVIOUS
  <1>2. options.limit = 1 /\ options.wanted = {}
    BY <1>1 DEF NoOptions
  <1>3. PICK j : j = search'
    OBVIOUS
  <1>4. j = Fresh("idle", FALSE, options)
    BY <1>1, <1>3 DEF Exit
  <1>5. (j.pc = "ripgrep" => j.rg) /\ \A s \in Session : j.byId[s] = None
    BY <1>2, <1>4, FreshFollowed
  <1>6. lasting' = {}
    BY DEF Exit
  <1>7. Followed(search)'
    BY <1>3, <1>5, <1>6 DEF Followed
  <1>8. TInv'
    BY ExitTyped DEF SInv
  <1> QED
    BY <1>6, <1>7, <1>8 DEF SInv

\* A readable path stays one of the session, whatever Codex does.
LEMMA GoodLasts ==
  ASSUME TInv, TInv', Grows, NEW p, NEW s \in Session, Good(p, s)
  PROVE  Good(p, s)'
  <1>1. CASE p \in StandardName
    BY <1>1 DEF Good
  <1>2. CASE high[p][s] > 0
    <2>1. p \in Path /\ high[p][s] <= high'[p][s]
      BY DEF Grows, Good
    <2>2. high[p][s] \in 0..MaxLen /\ high'[p][s] \in 0..MaxLen /\ MaxLen \in Nat
      BY <2>1, FileAssumption DEF TInv, FilesTypeOK
    <2>3. high'[p][s] > 0
      BY <1>2, <2>1, <2>2
    <2> QED
      BY <2>3 DEF Good
  <1> QED
    BY <1>1, <1>2 DEF Good

LEMMA CodexSafe ==
  ASSUME ~MoveBack, SInv, Codex
  PROVE  SInv'
  <1>1. TInv' /\ Grows /\ NoneComesBack
    BY FilesStep, CodexTyped DEF SInv, TInv, Codex
  <1>2. lasting' = lasting \cap AllHit' /\ UNCHANGED search
    BY DEF Codex
  <1>3. ASSUME NEW p, NEW s \in Session, Good(p, s)
        PROVE  Good(p, s)'
    BY <1>1, <1>3, GoodLasts DEF SInv
  <1>4. ASSUME NEW s \in lasting, AfterActive(search, s)
        PROVE  AfterActive(search, s)'
    <2>1. PICK q \in Path : Exists(q) /\ fs[q].sid = s
      BY LastingIsSomewhere
    <2>2. ASSUME NEW p \in Path \ Archived, Exists(p)', fs'[p].sid = s
          PROVE  p \in search.unparsed
      BY <1>1, <1>4, <2>1, <2>2 DEF NoneComesBack, AfterActive
    <2> QED
      BY <1>2, <2>2 DEF AfterActive
  <1>5. ASSUME NEW s \in lasting, Follows(search, s)
        PROVE  Follows(search, s)'
    <2>1. s \in Session
      BY DEF SInv, TInv
    <2>2. Spared(search, s) => Spared(search, s)'
      BY <1>2, <1>3, <2>1 DEF Spared
    <2>3. WhileParsing(search, s) => WhileParsing(search, s)'
      BY <1>2, <1>3, <2>1, <2>2 DEF WhileParsing
    <2>4. WhileScanning(search, s) => WhileScanning(search, s)'
      BY <1>2, <1>3, <2>1, <2>2 DEF WhileScanning, IsReported
    <2> QED
      BY <1>2, <1>4, <1>5, <2>3, <2>4 DEF Follows, IsReported
  <1>6. Followed(search)'
    <2>1. /\ search.pc = "ripgrep" => search.rg
          /\ \A s \in Session : search.byId[s] # None => Good(search.byId[s], s)
          /\ ~search.rg /\ ~search.cut =>
               \A s \in lasting \cap search.wanted : Follows(search, s)
      BY DEF SInv, Followed
    <2>2. ASSUME NEW s \in Session, search'.byId[s] # None
          PROVE  Good(search.byId[s], s)'
      <3>1. PICK p : p = search.byId[s]
        OBVIOUS
      <3>2. Good(p, s) /\ search'.byId[s] = p
        BY <1>2, <2>1, <2>2, <3>1
      <3>3. Good(p, s)'
        BY <1>3, <3>2
      <3> QED
        BY <3>2, <3>3 DEF Good
    <2>3. \A s \in Session : (search.byId[s] # None => Good(search.byId[s], s))'
      BY <2>2
    <2>4. ~search.rg /\ ~search.cut =>
            \A s \in lasting' \cap search.wanted : Follows(search, s)'
      BY <1>2, <1>5, <2>1
    <2> QED
      BY <1>2, <2>1, <2>3, <2>4 DEF Followed
  <1> QED
    BY <1>1, <1>2, <1>6 DEF SInv

LEMMA StepSafe ==
  ASSUME NoSharedPath, ~MoveBack, SInv, [CommandsNext]_commandsVars
  PROVE  SInv'
  <1>1. CASE Work \/ Cancel \/ Start \/ Codex \/ Exit
    BY <1>1, WorkSafe, CancelSafe, StartSafe, CodexSafe, ExitSafe
  <1>2. TInv'
    BY StepTyped DEF SInv
  <1>3. CASE lasting' = {} /\ UNCHANGED <<filesVars, search, quiet, interrupted>>
    <2>1. Followed(search)'
      BY <1>3 DEF SInv, Followed, Good, filesVars
    <2> QED
      BY <1>2, <1>3, <2>1 DEF SInv
  <1>4. CASE UNCHANGED <<filesVars, searchVars>>
    <2>1. PICK j : j = search'
      OBVIOUS
    <2>2. j = search /\ UNCHANGED filesVars /\ UNCHANGED lasting
      BY <1>4, <2>1 DEF searchVars
    <2>3. Followed(j)
      BY <2>2 DEF SInv
    <2> QED
      BY <1>2, <2>1, <2>2, <2>3, FrameFollowed
  <1> QED
    BY <1>1, <1>3, <1>4, ByTheCommands

(***************************************************************************)
(* The built-in scanner loses nothing silently: a session that has matched *)
(* from the beginning of a search to its end is reported, if there is room *)
(* for it, or the search warns that something could not be read.  Codex    *)
(* may write, archive and delete between any two reads of the search; but  *)
(* what is at a path must always be one session's, and nothing comes back  *)
(* from the archive, which is walked after the active root (discover.go:14 *)
(* and 39).                                                                *)
(***************************************************************************)
THEOREM NothingLostSilently ==
  ASSUME NoSharedPath, ~MoveBack
  PROVE  CommandsSpec => []NoSilentLoss
  <1>1. CommandsInit => SInv
    <2> SUFFICES ASSUME CommandsInit
                 PROVE  SInv
      OBVIOUS
    <2>1. PICK options : options = NoOptions
      OBVIOUS
    <2>2. options.limit = 1 /\ options.wanted = {} /\ search = Fresh("idle", FALSE, options)
      BY <2>1 DEF NoOptions, CommandsInit, Init
    <2>3. (search.pc = "ripgrep" => search.rg) /\ \A s \in Session : search.byId[s] = None
      BY <2>2, FreshFollowed
    <2>4. lasting = {}
      BY DEF CommandsInit, Init
    <2> QED
      BY <2>3, <2>4, InitTyped DEF SInv, Followed
  <1>2. SInv /\ [CommandsNext]_commandsVars => SInv'
    BY StepSafe
  <1>3. SInv => NoSilentLoss
    BY FollowedMeansReported
  <1> QED
    BY <1>1, <1>2, <1>3, PTL DEF CommandsSpec

-----------------------------------------------------------------------------
(* What a search returns while nothing changes. *)

\* The candidates: what ripgrep lists, or what the walk does.
Pool(rg) == {p \in Path : Exists(p) /\ (rg => RawHits(p))}

\* No candidate has been parsed.
Unread(j) ==
    /\ j.broken = {} /\ ~j.warned /\ j.matches = <<>> /\ \A s \in Session : j.byId[s] = None

\* What is known of a session once these paths have been parsed.
KnownBest(j, s, parsed) ==
    IF j.byId[s] = None THEN \A p \in parsed : ~(Parses(p) /\ ParsedID(p) = s)
    ELSE j.byId[s] \in Newest(parsed, s)

\* The catalog of the candidates parsed so far, in the order of their paths.
Catalogued(j) ==
    LET parsed == Pool(j.rg) \ j.unparsed IN
    /\ j.unparsed \subseteq Pool(j.rg)
    /\ \A p \in parsed, q \in j.unparsed : p < q
    /\ \A p \in j.broken : Exists(p) /\ ~Parses(p)
    /\ \A s \in Session : KnownBest(j, s, parsed)
    /\ ~j.warned

\* The ranked sessions that have been scanned.
Scanned(j) == {s \in j.wanted : j.byId[s] # None} \ j.todo

Ids(j) == {j.matches[k].id : k \in DOMAIN j.matches}

\* The matches of the sessions scanned, newest first.
ScannedExactly(j) ==
    /\ j.todo \subseteq {s \in j.wanted : j.byId[s] # None}
    /\ Ids(j) = {s \in Scanned(j) : Hits(j.byId[s])}
    /\ \A s \in Scanned(j), t \in j.todo : TimeOf[j.byId[t]] <= TimeOf[j.byId[s]]
    /\ \A m, n \in DOMAIN j.matches : m < n =>
         /\ TimeOf[j.byId[j.matches[n].id]] <= TimeOf[j.byId[j.matches[m].id]]
         /\ j.matches[n].id # j.matches[m].id

\* The answer: of the newest readable copies among the candidates, those that match.
Copy(j, s) == Newest(Pool(j.rg), s)

ToFind(j) == {s \in j.wanted : \E p \in Copy(j, s) : Hits(p)}

ReturnedExactly(j) ==
    /\ Ids(j) \subseteq ToFind(j)
    /\ Len(j.matches) < j.limit => Ids(j) = ToFind(j)
    /\ \A s \in Ids(j), t \in ToFind(j) \ Ids(j) :
         \A p \in Copy(j, s), q \in Copy(j, t) : TimeOf[q] <= TimeOf[p]
    /\ \A m, n \in DOMAIN j.matches : m < n =>
         /\ j.matches[n].id # j.matches[m].id
         /\ \A p \in Copy(j, j.matches[m].id), q \in Copy(j, j.matches[n].id) :
              TimeOf[q] <= TimeOf[p]

Exactly(j) ==
    /\ j.pc \in {"ripgrep", "walkActive", "walkArchived"} => Unread(j)
    /\ j.pc = "ripgrep" => j.rg /\ j.unparsed = Pool(j.rg) \ UNION j.roots
    /\ j.pc = "walkActive" => ~j.rg /\ j.unparsed = {}
    /\ j.pc = "walkArchived" => ~j.rg /\ j.unparsed = Complete(Path \ Archived)
    /\ j.pc = "parse" => Catalogued(j) /\ j.matches = <<>>
    /\ j.pc = "scan" => Catalogued(j) /\ j.unparsed = {} /\ ScannedExactly(j)
    /\ j.pc # "meta"
    /\ j.pc = "idle" /\ j.outcome = "clean" => ReturnedExactly(j)

Undisturbed(j) == quiet /\ ~j.cut => Exactly(j)

EInv == TInv /\ Undisturbed(search)

-----------------------------------------------------------------------------
(* The candidates and their copies. *)

LEMMA PoolIs ==
  ASSUME NEW rg \in BOOLEAN
  PROVE  /\ Pool(rg) \subseteq Path /\ \A p \in Pool(rg) : Exists(p)
         /\ ~rg => Pool(rg) = Complete(Path)
  BY DEF Pool, Complete

LEMMA OneBest ==
  ASSUME NEW paths \in SUBSET Path, NEW s, NEW p \in Newest(paths, s), NEW q \in Newest(paths, s)
  PROVE  p = q
  <1>1. /\ p \in paths /\ q \in paths
        /\ TimeOf[q] < TimeOf[p] \/ (TimeOf[q] = TimeOf[p] /\ p <= q)
        /\ TimeOf[p] < TimeOf[q] \/ (TimeOf[p] = TimeOf[q] /\ q <= p)
    BY DEF Newest
  <1>2. p \in Nat /\ q \in Nat /\ TimeOf[p] \in Nat /\ TimeOf[q] \in Nat
    BY <1>1, PathAssumption, FileAssumption
  <1> QED
    BY <1>1, <1>2

\* One more path: the catalog takes it, or keeps what it has.
LEMMA BetterCopy ==
  ASSUME NEW parsed \in SUBSET Path, NEW p \in Path, Parses(p),
         NEW s, s = ParsedID(p), NEW b \in Newest(parsed, s), b < p
  PROVE  IF TimeOf[p] > TimeOf[b] THEN p \in Newest(parsed \cup {p}, s)
                                  ELSE b \in Newest(parsed \cup {p}, s)
  <1>1. /\ b \in Path /\ b \in parsed /\ Parses(b) /\ ParsedID(b) = s
        /\ \A q \in parsed : Parses(q) /\ ParsedID(q) = s =>
             TimeOf[q] < TimeOf[b] \/ (TimeOf[q] = TimeOf[b] /\ b <= q)
    BY DEF Newest
  <1>2. /\ \A q \in Path : TimeOf[q] \in Nat /\ q \in Nat
    BY PathAssumption, FileAssumption
  <1>3. CASE TimeOf[p] > TimeOf[b]
    <2>1. \A q \in parsed \cup {p} : Parses(q) /\ ParsedID(q) = s =>
            TimeOf[q] < TimeOf[p] \/ (TimeOf[q] = TimeOf[p] /\ p <= q)
      BY <1>1, <1>2, <1>3
    <2> QED
      BY <1>3, <2>1 DEF Newest
  <1>4. CASE ~(TimeOf[p] > TimeOf[b])
    <2>1. \A q \in parsed \cup {p} : Parses(q) /\ ParsedID(q) = s =>
            TimeOf[q] < TimeOf[b] \/ (TimeOf[q] = TimeOf[b] /\ b <= q)
      BY <1>1, <1>2, <1>4
    <2> QED
      BY <1>1, <1>4, <2>1 DEF Newest
  <1> QED
    BY <1>3, <1>4

\* An unreadable file has nothing in it, so it does not match.
LEMMA UnreadableHitsNot ==
  ASSUME FilesTypeOK, NEW p \in Path, Exists(p), ~Parses(p)
  PROVE  ~Hits(p)
  <1>1. fs[p] \in File
    BY DEF FilesTypeOK, Exists
  <1>2. fs[p].sid \in Session /\ fs[p].len = 0
    BY <1>1, FileAssumption DEF Parses, File
  <1>3. \A k \in Matching[fs[p].sid] : k \in DOMAIN Says[fs[p].sid]
    BY <1>2 DEF Matching
  <1>4. PICK n \in Nat : DOMAIN Says[fs[p].sid] = 1..n
    BY <1>2, SearchAssumption
  <1> QED
    BY <1>2, <1>3, <1>4 DEF Hits

-----------------------------------------------------------------------------
(* The candidates are found. *)

LEMMA StartsParsing ==
  ASSUME NEW j \in Frame, Unread(j), j.pc = "parse", j.unparsed = Pool(j.rg)
  PROVE  Exactly(j)
  <1>1. Catalogued(j)
    BY DEF Catalogued, Unread, KnownBest
  <1> QED
    BY <1>1 DEF Exactly, Unread

LEMMA RipgrepExact ==
  ASSUME TInv, Exactly(search), Ripgrep
  PROVE  Exactly(search')
  <1>1. /\ search \in Frame /\ search.pc = "ripgrep" /\ search.rg /\ Unread(search)
        /\ search.unparsed = Pool(search.rg) \ UNION search.roots
    BY DEF TInv, Sane, Ripgrep, Exactly
  <1>2. PICK root \in search.roots :
          search' = [search EXCEPT
            !.roots = search.roots \ {root},
            !.unparsed = search.unparsed \cup {p \in root : Exists(p) /\ RawHits(p)},
            !.pc = IF search.roots = {root} THEN "parse" ELSE search.pc]
    BY DEF Ripgrep, Become
  <1>3. /\ root \subseteq Path /\ search.roots \subseteq {Archived, Path \ Archived}
    BY <1>1, PathAssumption DEF Frame
  <1>4. PICK found \in SUBSET Path : found = {p \in root : Exists(p) /\ RawHits(p)}
    BY <1>3
  <1>5. PICK pc \in {"parse", "ripgrep"} :
          pc = IF search.roots = {root} THEN "parse" ELSE search.pc
    BY <1>1
  <1>6. PICK j : j = [search EXCEPT !.roots = search.roots \ {root},
                        !.unparsed = search.unparsed \cup found, !.pc = pc]
    OBVIOUS
  <1>7. search.unparsed \cup found \in SUBSET Path /\ pc \in Stage
    BY <1>1, <1>5 DEF Frame, Stage
  <1>8. /\ j \in Frame /\ j.pc = pc /\ j.rg = search.rg /\ j.roots = search.roots \ {root}
        /\ j.unparsed = search.unparsed \cup found /\ j.broken = search.broken
        /\ j.warned = search.warned /\ j.matches = search.matches /\ j.byId = search.byId
    BY <1>1, <1>3, <1>6, <1>7 DEF Frame
  <1>9. Unread(j)
    BY <1>1, <1>8 DEF Unread
  <1>10. \A p \in root : \A other \in search.roots \ {root} : p \notin other
    BY <1>3
  <1>11. found = Pool(search.rg) \cap root
    BY <1>1, <1>3, <1>4 DEF Pool
  <1>12. j.unparsed = Pool(j.rg) \ UNION j.roots
    <2>1. \A p : p \in UNION search.roots <=> p \in root \/ p \in UNION j.roots
      BY <1>8
    <2>2. \A p \in root : p \notin UNION j.roots
      BY <1>8, <1>10
    <2>3. j.unparsed = (Pool(j.rg) \ UNION search.roots) \cup (Pool(j.rg) \cap root)
      BY <1>1, <1>8, <1>11
    <2> QED
      BY <2>1, <2>2, <2>3
  <1>13. CASE search.roots = {root}
    <2>1. j.unparsed = Pool(j.rg) /\ j.pc = "parse"
      BY <1>5, <1>8, <1>12, <1>13
    <2>2. Exactly(j)
      BY <1>8, <1>9, <2>1, StartsParsing
    <2> QED
      BY <1>2, <1>4, <1>5, <1>6, <2>2
  <1>14. CASE search.roots # {root}
    <2>1. Exactly(j)
      BY <1>1, <1>5, <1>8, <1>9, <1>12, <1>14 DEF Exactly
    <2> QED
      BY <1>2, <1>4, <1>5, <1>6, <2>1
  <1> QED
    BY <1>13, <1>14

LEMMA RipgrepFailsExact ==
  ASSUME TInv, Exactly(search), RipgrepFails
  PROVE  Exactly(search')
  <1>1. search \in Frame /\ Unread(search)
    BY DEF TInv, Sane, RipgrepFails, Exactly
  <1>2. PICK j : j = search'
    OBVIOUS
  <1>3. j = [search EXCEPT !.pc = "walkActive", !.unparsed = {}, !.rg = FALSE]
    BY <1>2 DEF RipgrepFails, Become
  <1>4. /\ j.pc = "walkActive" /\ j.unparsed = {} /\ ~j.rg /\ j.broken = search.broken
        /\ j.warned = search.warned /\ j.matches = search.matches /\ j.byId = search.byId
    BY <1>1, <1>3 DEF Frame
  <1>5. Unread(j)
    BY <1>1, <1>4 DEF Unread
  <1>6. Exactly(j)
    BY <1>4, <1>5 DEF Exactly
  <1> QED
    BY <1>2, <1>6

LEMMA WalkExact ==
  ASSUME TInv, Exactly(search), Walk, ~search'.cut
  PROVE  Exactly(search')
  <1>1. PICK j : j = search'
    OBVIOUS
  <1>2. search \in Frame /\ Archived \subseteq Path
    BY PathAssumption DEF TInv, Sane
  <1>3. ASSUME NEW here \in {"walkActive", "walkArchived"}, NEW root \in SUBSET Path,
               NEW after \in {"walkArchived", "parse"}, WalkRoot(here, root, after),
               Unread(search)
        PROVE  /\ j \in Frame /\ j.pc = after /\ j.rg = search.rg /\ Unread(j)
               /\ j.unparsed = search.unparsed \cup Complete(root)
    <2>1. PICK listed \in Listings(root) :
            /\ j \in Frame /\ j.pc = after /\ j.unparsed = search.unparsed \cup listed
            /\ j.cut = (search.cut \/ listed # Complete(root))
            /\ j.matches = search.matches /\ j.byId = search.byId
            /\ j.rg = search.rg /\ j.broken = search.broken /\ j.warned = search.warned
      BY <1>1, <1>3, WalkFrame
    <2>2. listed = Complete(root)
      BY <1>1, <2>1
    <2>3. Unread(j)
      BY <1>3, <2>1 DEF Unread
    <2> QED
      BY <2>1, <2>2, <2>3
  <1>4. CASE WalkRoot("walkActive", Path \ Archived, "walkArchived")
    <2>1. Unread(search) /\ ~search.rg /\ search.unparsed = {}
      BY <1>4 DEF WalkRoot, Exactly
    <2>2. /\ j.pc = "walkArchived" /\ ~j.rg /\ Unread(j)
          /\ j.unparsed = Complete(Path \ Archived)
      BY <1>3, <1>4, <2>1
    <2> QED
      BY <1>1, <2>2 DEF Exactly
  <1>5. CASE WalkRoot("walkArchived", Archived, "parse")
    <2>1. Unread(search) /\ ~search.rg /\ search.unparsed = Complete(Path \ Archived)
      BY <1>5 DEF WalkRoot, Exactly
    <2>2. /\ j \in Frame /\ j.pc = "parse" /\ ~j.rg /\ Unread(j)
          /\ j.unparsed = Complete(Path \ Archived) \cup Complete(Archived)
      BY <1>2, <1>3, <1>5, <2>1
    <2>3. j.unparsed = Pool(j.rg)
      BY <1>2, <2>2, PoolIs DEF Complete, Frame
    <2> QED
      BY <1>1, <2>2, <2>3, StartsParsing
  <1> QED
    BY <1>4, <1>5 DEF Walk

-----------------------------------------------------------------------------
(* They are parsed, one after another. *)

LEMMA ParseExact ==
  ASSUME TInv, Exactly(search), Parse
  PROVE  Exactly(search')
  <1>1. /\ search \in Frame /\ search.pc = "parse" /\ Catalogued(search)
        /\ search.matches = <<>>
    BY DEF TInv, Sane, Parse, Exactly
  <1>2. PICK j : j = search'
    OBVIOUS
  <1>3. PICK p \in search.unparsed :
          /\ Keeps(j) /\ j.pc = "parse" /\ j.matches = search.matches
          /\ j.unparsed = search.unparsed \ {p}
          /\ j.warned = search.warned /\ \A q \in search.unparsed : p <= q
          /\ \/ /\ ~Parses(p) /\ j.byId = search.byId /\ j.broken = search.broken \cup {p}
             \/ /\ Parses(p) /\ j.broken = search.broken
                /\ \A s \in Session : s # ParsedID(p) => j.byId[s] = search.byId[s]
                /\ j.byId[ParsedID(p)] = IF Supersedes(p) THEN p ELSE search.byId[ParsedID(p)]
    BY <1>2, ParseFrame
  <1>4. j.rg = search.rg /\ j.rg \in BOOLEAN /\ j \in Frame
    BY <1>1, <1>3 DEF Keeps, Frame
  <1>5. PICK pool \in SUBSET Path : pool = Pool(j.rg) /\ \A q \in pool : Exists(q)
    BY <1>4, PoolIs
  <1>6. PICK parsed \in SUBSET Path : parsed = pool \ search.unparsed
    OBVIOUS
  <1>7. /\ search.unparsed \subseteq pool
        /\ \A q \in parsed, r \in search.unparsed : q < r
        /\ \A q \in search.broken : Exists(q) /\ ~Parses(q)
        /\ \A s \in Session : KnownBest(search, s, parsed)
        /\ ~search.warned
    BY <1>1, <1>4, <1>5, <1>6 DEF Catalogued
  <1>8. p \in Path /\ Exists(p) /\ p \in pool /\ \A q \in Path : q \in Nat
    BY <1>5, <1>7, PathAssumption
  <1>9. pool \ j.unparsed = parsed \cup {p}
    BY <1>3, <1>6, <1>8
  <1>10. \A q \in parsed \cup {p}, r \in j.unparsed : q < r
    BY <1>3, <1>5, <1>7, <1>8
  <1>11. \A q \in j.broken : Exists(q) /\ ~Parses(q)
    BY <1>3, <1>7, <1>8
  <1>12. ASSUME NEW s \in Session
         PROVE  KnownBest(j, s, parsed \cup {p})
    <2>1. KnownBest(search, s, parsed)
      BY <1>7
    <2>2. CASE ~(Parses(p) /\ ParsedID(p) = s)
      <3>1. j.byId[s] = search.byId[s]
        BY <1>3, <2>2
      <3> QED
        BY <2>1, <2>2, <3>1 DEF KnownBest, Newest
    <2>3. CASE Parses(p) /\ ParsedID(p) = s
      <3>1. j.byId[s] = IF Supersedes(p) THEN p ELSE search.byId[s]
        BY <1>3, <2>3
      <3>2. p # None
        BY <1>8, NoneAssumption
      <3>3. CASE search.byId[s] = None
        <4>1. j.byId[s] = p
          BY <2>3, <3>1, <3>3 DEF Supersedes
        <4>2. \A q \in parsed : ~(Parses(q) /\ ParsedID(q) = s)
          BY <2>1, <3>3 DEF KnownBest
        <4>3. p \in Newest(parsed \cup {p}, s)
          BY <1>8, <2>3, <4>2 DEF Newest
        <4> QED
          BY <3>2, <4>1, <4>3 DEF KnownBest
      <3>4. CASE search.byId[s] # None
        <4>1. PICK b : b = search.byId[s]
          OBVIOUS
        <4>2. b \in Newest(parsed, s) /\ b # None
          BY <2>1, <3>4, <4>1 DEF KnownBest
        <4>3. b \in parsed
          BY <4>2 DEF Newest
        <4>4. b < p
          BY <1>7, <4>3
        <4>5. Supersedes(p) <=> TimeOf[p] > TimeOf[b]
          BY <2>3, <4>1, <4>2 DEF Supersedes
        <4>6. j.byId[s] = IF TimeOf[p] > TimeOf[b] THEN p ELSE b
          BY <3>1, <4>1, <4>5
        <4>7. j.byId[s] \in Newest(parsed \cup {p}, s)
          BY <1>8, <2>3, <4>2, <4>4, <4>6, BetterCopy
        <4>8. j.byId[s] # None
          BY <3>2, <4>2, <4>6
        <4> QED
          BY <4>7, <4>8 DEF KnownBest
      <3> QED
        BY <3>3, <3>4
    <2> QED
      BY <2>2, <2>3
  <1>13. Catalogued(j)
    <2>1. j.unparsed \subseteq pool /\ ~j.warned
      BY <1>3, <1>7
    <2> QED
      BY <1>5, <1>9, <1>10, <1>11, <1>12, <2>1 DEF Catalogued
  <1>14. Exactly(j)
    BY <1>1, <1>3, <1>13 DEF Exactly
  <1> QED
    BY <1>2, <1>14

-----------------------------------------------------------------------------
(* They are scanned, newest first. *)

LEMMA RankExact ==
  ASSUME TInv, Exactly(search), Rank
  PROVE  Exactly(search')
  <1>1. /\ search \in Frame /\ Catalogued(search) /\ search.matches = <<>>
        /\ search.unparsed = {}
    BY DEF TInv, Sane, Rank, Exactly
  <1>2. PICK j : j = search'
    OBVIOUS
  <1>3. /\ Keeps(j) /\ j.pc = "scan" /\ j.matches = search.matches /\ j.byId = search.byId
        /\ j.broken = search.broken /\ j.unparsed = search.unparsed
        /\ j.warned = search.warned
        /\ j.todo = {s \in search.wanted : search.byId[s] # None}
    BY <1>2, RankFrame
  <1>4. j.rg = search.rg /\ j.wanted = search.wanted
    BY <1>3 DEF Keeps
  <1>5. Catalogued(j)
    BY <1>1, <1>3, <1>4 DEF Catalogued, KnownBest
  <1>6. Scanned(j) = {} /\ Ids(j) = {} /\ DOMAIN j.matches = {}
    BY <1>1, <1>3, <1>4 DEF Scanned, Ids
  <1>7. ScannedExactly(j)
    BY <1>3, <1>4, <1>6 DEF ScannedExactly
  <1>8. Exactly(j)
    BY <1>1, <1>3, <1>5, <1>7 DEF Exactly
  <1> QED
    BY <1>2, <1>8

\* What is in the catalog is there to be read.
LEMMA KnownExists ==
  ASSUME NEW j \in Frame, Catalogued(j), NEW s \in Session, j.byId[s] # None
  PROVE  j.byId[s] \in Path /\ Exists(j.byId[s])
  <1>1. KnownBest(j, s, Pool(j.rg) \ j.unparsed)
    BY DEF Catalogued
  <1>2. j.byId[s] \in Pool(j.rg)
    BY <1>1 DEF KnownBest, Newest
  <1> QED
    BY <1>2 DEF Pool

LEMMA IdsAre ==
  ASSUME NEW j \in Frame
  PROVE  /\ Ids(j) \subseteq Session
         /\ \A m \in DOMAIN j.matches : j.matches[m].id \in Ids(j)
         /\ \A id \in Ids(j) : \E m \in DOMAIN j.matches : j.matches[m].id = id
         /\ DOMAIN j.matches = 1..Len(j.matches) /\ Len(j.matches) \in Nat
  <1>1. j.matches \in Seq(Match)
    BY DEF Frame
  <1>2. \A m \in DOMAIN j.matches : j.matches[m] \in Match
    BY <1>1
  <1> QED
    BY <1>1, <1>2 DEF Ids, Match

LEMMA RankedExact ==
  ASSUME TInv, Exactly(search), ScanRanked
  PROVE  Exactly(search')
  <1>1. /\ search \in Frame /\ Catalogued(search) /\ search.unparsed = {}
        /\ ScannedExactly(search) /\ \A s \in search.todo : search.byId[s] # None
    BY DEF TInv, Sane, ScanRanked, Exactly
  <1>2. PICK j : j = search'
    OBVIOUS
  <1>3. PICK s \in search.todo :
          /\ search.byId[s] \in Path /\ Keeps(j) /\ j.pc = "scan"
          /\ j.todo = search.todo \ {s} /\ j.byId = search.byId /\ j.broken = search.broken
          /\ j.unparsed = search.unparsed
          /\ \A t \in search.todo : TimeOf[search.byId[t]] <= TimeOf[search.byId[s]]
          /\ \/ /\ ~Exists(search.byId[s]) /\ j.warned /\ j.matches = search.matches
             \/ /\ Hits(search.byId[s]) /\ j.warned = search.warned
                /\ j.matches = Append(search.matches, [id |-> s, path |-> search.byId[s]])
                /\ Len(j.matches) = Len(search.matches) + 1
             \/ /\ Exists(search.byId[s]) /\ ~Hits(search.byId[s])
                /\ j.warned = search.warned /\ j.matches = search.matches
    BY <1>2, RankedFrame
  <1>4. /\ j.rg = search.rg /\ j.wanted = search.wanted /\ j \in Frame
        /\ s \in Session /\ s \in search.wanted /\ search.byId[s] # None
    BY <1>1, <1>3 DEF Keeps, Frame, ScannedExactly
  <1>5. Exists(search.byId[s])
    BY <1>1, <1>4, KnownExists
  <1>6. Catalogued(j)
    BY <1>1, <1>3, <1>4, <1>5 DEF Catalogued, KnownBest
  <1>7. Scanned(j) = Scanned(search) \cup {s} /\ s \notin Scanned(search)
    BY <1>3, <1>4 DEF Scanned
  <1>8. /\ j.todo \subseteq {t \in j.wanted : j.byId[t] # None}
        /\ \A a \in Scanned(j), t \in j.todo : TimeOf[j.byId[t]] <= TimeOf[j.byId[a]]
    BY <1>1, <1>3, <1>4, <1>7 DEF ScannedExactly
  <1>9. CASE ~Hits(search.byId[s]) /\ j.matches = search.matches
    <2>1. Ids(j) = {a \in Scanned(j) : Hits(j.byId[a])}
      BY <1>1, <1>3, <1>7, <1>9 DEF ScannedExactly, Ids
    <2>2. ScannedExactly(j)
      BY <1>1, <1>3, <1>8, <1>9, <2>1 DEF ScannedExactly
    <2>3. Exactly(j)
      BY <1>1, <1>3, <1>6, <2>2 DEF Exactly
    <2> QED
      BY <1>2, <2>3
  <1>10. CASE /\ Hits(search.byId[s])
              /\ j.matches = Append(search.matches, [id |-> s, path |-> search.byId[s]])
    <2>1. PICK m \in Match : m = [id |-> s, path |-> search.byId[s]]
      BY <1>3, <1>4 DEF Match
    <2>2. PICK n \in Nat : n = Len(search.matches) + 1
      BY <1>1, IdsAre
    <2>3. /\ j.matches = Append(search.matches, m) /\ m.id = s
          /\ search.matches \in Seq(Match)
      BY <1>1, <1>10, <2>1 DEF Frame
    <2>4. /\ DOMAIN j.matches = DOMAIN search.matches \cup {n} /\ j.matches[n] = m
          /\ n \notin DOMAIN search.matches
          /\ \A k \in DOMAIN search.matches : j.matches[k] = search.matches[k] /\ k < n
      BY <2>2, <2>3, AppendProperties
    <2>5. Ids(j) = Ids(search) \cup {s}
      BY <2>3, <2>4 DEF Ids
    <2>6. Ids(j) = {a \in Scanned(j) : Hits(j.byId[a])}
      BY <1>1, <1>3, <1>7, <1>10, <2>5 DEF ScannedExactly
    <2>7. ASSUME NEW k \in DOMAIN search.matches
          PROVE  /\ TimeOf[j.byId[s]] <= TimeOf[j.byId[search.matches[k].id]]
                 /\ search.matches[k].id # s
      <3>1. search.matches[k].id \in Scanned(search)
        BY <1>1, IdsAre DEF ScannedExactly
      <3> QED
        BY <1>1, <1>3, <1>7, <3>1 DEF ScannedExactly
    <2>8. ASSUME NEW k \in DOMAIN j.matches, NEW l \in DOMAIN j.matches, k < l
          PROVE  /\ TimeOf[j.byId[j.matches[l].id]] <= TimeOf[j.byId[j.matches[k].id]]
                 /\ j.matches[l].id # j.matches[k].id
      <3>1. k \in DOMAIN search.matches
        <4>1. l \in Nat /\ l <= n
          BY <2>2, <2>4, IdsAre, <1>1
        <4> QED
          BY <2>2, <2>4, <2>8, <4>1
      <3>2. CASE l = n
        BY <2>3, <2>4, <2>7, <3>1, <3>2
      <3>3. CASE l \in DOMAIN search.matches
        BY <1>1, <1>3, <2>4, <2>8, <3>1, <3>3 DEF ScannedExactly
      <3> QED
        BY <2>4, <3>2, <3>3
    <2>9. ScannedExactly(j)
      BY <1>8, <2>6, <2>8 DEF ScannedExactly
    <2>10. Exactly(j)
      BY <1>1, <1>3, <1>6, <2>9 DEF Exactly
    <2> QED
      BY <1>2, <2>10
  <1> QED
    BY <1>3, <1>5, <1>9, <1>10

LEMMA BrokenExact ==
  ASSUME TInv, Exactly(search), ScanBroken
  PROVE  Exactly(search')
  <1>1. /\ search \in Frame /\ Catalogued(search) /\ search.unparsed = {}
        /\ ScannedExactly(search)
    BY DEF TInv, Sane, ScanBroken, Exactly
  <1>2. PICK j : j = search'
    OBVIOUS
  <1>3. PICK p \in search.broken :
          /\ Keeps(j) /\ j.matches = search.matches
          /\ j.todo = search.todo /\ j.unparsed = search.unparsed
          /\ j.byId = search.byId /\ j.broken = search.broken \ {p}
          /\ \/ ~Exists(p) /\ j.pc = "scan" /\ j.warned
             \/ Hits(p) /\ j.pc = "meta" /\ j.cur = p /\ j.warned = search.warned
             \/ Exists(p) /\ ~Hits(p) /\ j.pc = "scan" /\ j.warned = search.warned
    BY <1>2, BrokenFrame
  <1>4. Exists(p) /\ ~Parses(p) /\ p \in Path
    BY <1>1 DEF Catalogued, Frame
  <1>5. ~Hits(p)
    BY <1>4, UnreadableHitsNot DEF TInv
  <1>6. j.pc = "scan" /\ j.warned = search.warned
    BY <1>3, <1>4, <1>5
  <1>7. j.rg = search.rg /\ j.wanted = search.wanted
    BY <1>3 DEF Keeps
  <1>8. Catalogued(j)
    BY <1>1, <1>3, <1>6, <1>7 DEF Catalogued, KnownBest
  <1>9. ScannedExactly(j)
    BY <1>1, <1>3, <1>7 DEF ScannedExactly, Scanned, Ids
  <1>10. Exactly(j)
    BY <1>1, <1>3, <1>6, <1>8, <1>9 DEF Exactly
  <1> QED
    BY <1>2, <1>10

-----------------------------------------------------------------------------
(* The search returns, and what it has returned stays. *)

\* The newest copies among the candidates, once all have been parsed.
LEMMA CopyIsKnown ==
  ASSUME NEW j \in Frame, Catalogued(j), j.unparsed = {}, NEW s \in Session
  PROVE  /\ j.byId[s] = None => Copy(j, s) = {}
         /\ j.byId[s] # None => Copy(j, s) = {j.byId[s]}
  <1>1. KnownBest(j, s, Pool(j.rg)) /\ Pool(j.rg) \subseteq Path
    BY PoolIs DEF Catalogued, Frame
  <1>2. CASE j.byId[s] = None
    BY <1>1, <1>2 DEF KnownBest, Copy, Newest
  <1>3. CASE j.byId[s] # None
    <2>1. j.byId[s] \in Newest(Pool(j.rg), s)
      BY <1>1, <1>3 DEF KnownBest
    <2>2. \A q \in Newest(Pool(j.rg), s) : q = j.byId[s]
      BY <1>1, <2>1, OneBest
    <2> QED
      BY <1>3, <2>1, <2>2 DEF Copy
  <1> QED
    BY <1>2, <1>3

LEMMA ScanReturns ==
  ASSUME TInv, Exactly(search), search.pc = "scan",
         Full \/ (search.todo = {} /\ search.broken = {})
  PROVE  ReturnedExactly(search)
  <1>1. PICK j : j = search
    OBVIOUS
  <1>2. /\ j \in Frame /\ Catalogued(j) /\ j.unparsed = {} /\ ScannedExactly(j)
    BY <1>1 DEF TInv, Sane, Exactly
  <1>3. j.wanted \subseteq Session
    BY <1>2 DEF Frame
  <1>4. ToFind(j) = {s \in j.wanted : j.byId[s] # None /\ Hits(j.byId[s])}
    BY <1>2, <1>3, CopyIsKnown DEF ToFind
  <1>5. Ids(j) = {s \in Scanned(j) : Hits(j.byId[s])}
    BY <1>2 DEF ScannedExactly
  <1>6. ASSUME NEW s \in Ids(j)
        PROVE  s \in ToFind(j) /\ s \in Scanned(j) /\ Copy(j, s) = {j.byId[s]}
    <2>1. s \in Scanned(j) /\ s \in j.wanted /\ j.byId[s] # None /\ Hits(j.byId[s])
      BY <1>5 DEF Scanned
    <2> QED
      BY <1>2, <1>3, <1>4, <2>1, CopyIsKnown
  <1>7. ASSUME NEW t \in ToFind(j) \ Ids(j)
        PROVE  t \in j.todo /\ Copy(j, t) = {j.byId[t]}
    <2>1. t \in j.wanted /\ j.byId[t] # None /\ Hits(j.byId[t])
      BY <1>4
    <2>2. t \notin Scanned(j)
      BY <1>5, <1>7, <2>1
    <2> QED
      BY <1>2, <1>3, <2>1, <2>2, CopyIsKnown DEF Scanned
  <1>8. Len(j.matches) < j.limit => Ids(j) = ToFind(j)
    <2>1. SUFFICES ASSUME Len(j.matches) < j.limit
                   PROVE  Ids(j) = ToFind(j)
      OBVIOUS
    <2>2. j.limit \in Nat /\ Len(j.matches) \in Nat
      BY <1>2, Limits, IdsAre DEF Frame
    <2>3. j.todo = {}
      BY <1>1, <2>1, <2>2 DEF Full
    <2> QED
      BY <1>6, <1>7, <2>3
  <1>9. \A s \in Ids(j), t \in ToFind(j) \ Ids(j) :
          \A p \in Copy(j, s), q \in Copy(j, t) : TimeOf[q] <= TimeOf[p]
    BY <1>2, <1>6, <1>7 DEF ScannedExactly
  <1>10. ASSUME NEW m \in DOMAIN j.matches, NEW n \in DOMAIN j.matches, m < n
         PROVE  /\ j.matches[n].id # j.matches[m].id
                /\ \A p \in Copy(j, j.matches[m].id), q \in Copy(j, j.matches[n].id) :
                     TimeOf[q] <= TimeOf[p]
    <2>1. /\ j.matches[n].id # j.matches[m].id
          /\ TimeOf[j.byId[j.matches[n].id]] <= TimeOf[j.byId[j.matches[m].id]]
      BY <1>2, <1>10 DEF ScannedExactly
    <2>2. j.matches[m].id \in Ids(j) /\ j.matches[n].id \in Ids(j)
      BY <1>2, IdsAre
    <2> QED
      BY <1>6, <2>1, <2>2
  <1>11. ReturnedExactly(j)
    BY <1>6, <1>8, <1>9, <1>10 DEF ReturnedExactly
  <1> QED
    BY <1>1, <1>11

LEMMA SameReturned ==
  ASSUME NEW i, NEW j, ReturnedExactly(i), j.matches = i.matches, j.rg = i.rg,
         j.limit = i.limit, j.wanted = i.wanted
  PROVE  ReturnedExactly(j)
  <1>1. Ids(j) = Ids(i) /\ \A s : Copy(j, s) = Copy(i, s)
    BY DEF Ids, Copy
  <1>2. ToFind(j) = ToFind(i)
    BY <1>1 DEF ToFind
  <1> QED
    BY <1>1, <1>2 DEF ReturnedExactly

LEMMA LeaveExact ==
  ASSUME TInv, Exactly(search), Interrupted \/ Finish
  PROVE  Exactly(search')
  <1>1. PICK j : j = search'
    OBVIOUS
  <1>2. ASSUME NEW outcome \in {"clean", "warned", "error"}, Return(outcome),
               outcome = "clean" => ReturnedExactly(search)
        PROVE  Exactly(j)
    <2>1. /\ j.pc = "idle" /\ j.outcome = outcome /\ j.matches = search.matches
          /\ j.rg = search.rg /\ j.limit = search.limit /\ j.wanted = search.wanted
      BY <1>1, <1>2, ReturnFrame
    <2>2. outcome = "clean" => ReturnedExactly(j)
      BY <1>2, <2>1, SameReturned
    <2> QED
      BY <2>1, <2>2 DEF Exactly
  <1>3. CASE Return("error")
    BY <1>1, <1>2, <1>3
  <1>4. CASE Finish /\ ~search.cancelled
    <2>1. ReturnedExactly(search)
      BY <1>4, ScanReturns DEF Finish
    <2>2. PICK outcome \in {"clean", "warned"} :
            outcome = IF search.warned THEN "warned" ELSE "clean"
      OBVIOUS
    <2>3. Return(outcome)
      BY <1>4, <2>2 DEF Finish
    <2> QED
      BY <1>1, <1>2, <2>1, <2>3
  <1> QED
    BY <1>3, <1>4 DEF Interrupted, Finish

\* A directory that vanished stays a reason to expect less.
LEMMA CutLasts ==
  ASSUME TInv, Work, ~search'.cut
  PROVE  ~search.cut
  <1>1. PICK j : j = search'
    OBVIOUS
  <1>2. search \in Frame
    BY DEF TInv, Sane
  <1>3. CASE Interrupted \/ Finish
    <2>1. PICK outcome \in {"clean", "warned", "error"} : Return(outcome)
      BY <1>3 DEF Interrupted, Finish
    <2> QED
      BY <2>1, ReturnFrame
  <1>4. CASE Ripgrep
    <2>1. PICK root \in search.roots :
            j = [search EXCEPT
              !.roots = search.roots \ {root},
              !.unparsed = search.unparsed \cup {p \in root : Exists(p) /\ RawHits(p)},
              !.pc = IF search.roots = {root} THEN "parse" ELSE search.pc]
      BY <1>1, <1>4 DEF Ripgrep, Become
    <2>2. j.cut = search.cut
      BY <1>2, <2>1 DEF Frame
    <2> QED
      BY <1>1, <2>2
  <1>5. CASE RipgrepFails
    <2>1. j = [search EXCEPT !.pc = "walkActive", !.unparsed = {}, !.rg = FALSE]
      BY <1>1, <1>5 DEF RipgrepFails, Become
    <2> QED
      BY <1>1, <1>2, <2>1 DEF Frame
  <1>6. CASE Walk
    <2>1. Archived \subseteq Path
      BY PathAssumption
    <2> QED
      BY <1>6, <2>1, WalkFrame DEF Walk
  <1>7. CASE Parse \/ Rank \/ ScanRanked \/ ScanBroken \/ Identify
    <2>1. Keeps(j)
      BY <1>1, <1>7, ParseFrame, RankFrame, RankedFrame, BrokenFrame, IdentifyFrame
    <2> QED
      BY <1>1, <2>1 DEF Keeps
  <1> QED
    BY <1>3, <1>4, <1>5, <1>6, <1>7 DEF Work

LEMMA WorkExact ==
  ASSUME EInv, Work, quiet, ~search'.cut
  PROVE  Exactly(search')
  <1>1. TInv /\ Exactly(search)
    BY CutLasts DEF EInv, Undisturbed
  <1>2. ~Identify
    BY <1>1 DEF Exactly, Identify
  <1> QED
    BY <1>1, <1>2, LeaveExact, RipgrepExact, RipgrepFailsExact, WalkExact, ParseExact,
       RankExact, RankedExact, BrokenExact DEF Work

LEMMA SameExactly ==
  ASSUME NEW i, NEW j, Exactly(i), j.pc = i.pc, j.rg = i.rg, j.limit = i.limit,
         j.wanted = i.wanted, j.outcome = i.outcome, j.roots = i.roots,
         j.unparsed = i.unparsed, j.byId = i.byId, j.broken = i.broken, j.todo = i.todo,
         j.warned = i.warned, j.matches = i.matches
  PROVE  Exactly(j)
  <1>1. Unread(i) => Unread(j)
    BY DEF Unread
  <1>2. Catalogued(i) => Catalogued(j)
    BY DEF Catalogued, KnownBest
  <1>3. ScannedExactly(i) => ScannedExactly(j)
    <2>1. Ids(j) = Ids(i) /\ Scanned(j) = Scanned(i)
      BY DEF Ids, Scanned
    <2> QED
      BY <2>1 DEF ScannedExactly
  <1>4. ReturnedExactly(i) => ReturnedExactly(j)
    BY SameReturned
  <1> QED
    BY <1>1, <1>2, <1>3, <1>4 DEF Exactly

LEMMA CancelExact ==
  ASSUME EInv, Cancel, quiet, ~search'.cut
  PROVE  Exactly(search')
  <1>1. PICK j : j = search'
    OBVIOUS
  <1>2. search \in Frame /\ j = [search EXCEPT !.cancelled = TRUE]
    BY <1>1 DEF EInv, TInv, Sane, Cancel, Become
  <1>3. /\ j.pc = search.pc /\ j.rg = search.rg /\ j.cut = search.cut
        /\ j.wanted = search.wanted /\ j.limit = search.limit /\ j.byId = search.byId
        /\ j.unparsed = search.unparsed /\ j.broken = search.broken /\ j.todo = search.todo
        /\ j.warned = search.warned /\ j.matches = search.matches
        /\ j.outcome = search.outcome /\ j.roots = search.roots
    BY <1>2 DEF Frame
  <1>4. Exactly(search)
    BY <1>1, <1>3 DEF EInv, Undisturbed
  <1> QED
    BY <1>1, <1>3, <1>4, SameExactly

LEMMA StartExact ==
  ASSUME Start
  PROVE  Exactly(search')
  <1>1. PICK pc \in {"ripgrep", "walkActive"}, rg \in BOOLEAN, options \in Searches :
          /\ search' = Fresh(pc, rg, options) /\ (pc = "ripgrep" <=> rg)
          /\ options.limit \in {o.limit : o \in Searches} \cup {1}
          /\ options.wanted \in SUBSET Session
    BY StartFrame
  <1>2. PICK j : j = Fresh(pc, rg, options)
    OBVIOUS
  <1>3. /\ j.pc = pc /\ j.rg = rg /\ j.broken = {} /\ j.unparsed = {} /\ ~j.warned
        /\ j.matches = <<>> /\ j.roots = {Archived, Path \ Archived}
        /\ \A s \in Session : j.byId[s] = None
    BY <1>1, <1>2, FreshFrame DEF Stage
  <1>4. Unread(j)
    BY <1>3 DEF Unread
  <1>5. Pool(rg) \subseteq UNION {Archived, Path \ Archived}
    BY PoolIs
  <1>6. Exactly(j)
    BY <1>1, <1>3, <1>4, <1>5 DEF Exactly
  <1> QED
    BY <1>1, <1>2, <1>6

LEMMA ExactlyStill ==
  ASSUME TInv', UNCHANGED filesVars, quiet' /\ ~search'.cut => Exactly(search')
  PROVE  EInv'
  <1>1. PICK j : j = search'
    OBVIOUS
  <1>2. fs' = fs
    BY DEF filesVars
  <1>3. /\ \A p : Exists(p)' <=> Exists(p)
        /\ \A p : Parses(p)' <=> Parses(p)
        /\ \A p : ParsedID(p)' = ParsedID(p)
        /\ \A p : Hits(p)' <=> Hits(p)
        /\ \A p : RawHits(p)' <=> RawHits(p)
    BY <1>2 DEF Exists, Parses, ParsedID, Hits, RawHits
  <1>4. /\ \A rg : Pool(rg)' = Pool(rg)
        /\ \A root : Complete(root)' = Complete(root)
        /\ \A paths, s : Newest(paths, s)' = Newest(paths, s)
    BY <1>3 DEF Pool, Complete, Newest
  <1>5. \A s : Copy(search, s)' = Copy(j, s)
    BY <1>1, <1>4 DEF Copy
  <1>6. ToFind(search)' = ToFind(j)
    BY <1>1, <1>3, <1>5 DEF ToFind
  <1>7. Ids(search)' = Ids(j)
    BY <1>1 DEF Ids
  <1>8. ReturnedExactly(search)' <=> ReturnedExactly(j)
    BY <1>1, <1>5, <1>6, <1>7 DEF ReturnedExactly
  <1>9. Scanned(search)' = Scanned(j)
    BY <1>1 DEF Scanned
  <1>10. ScannedExactly(search)' <=> ScannedExactly(j)
    BY <1>1, <1>3, <1>7, <1>9 DEF ScannedExactly
  <1>11. \A s, paths : KnownBest(search, s, paths)' <=> KnownBest(j, s, paths)
    BY <1>1, <1>3, <1>4 DEF KnownBest
  <1>12. Catalogued(search)' <=> Catalogued(j)
    BY <1>1, <1>3, <1>4, <1>11 DEF Catalogued
  <1>13. Unread(search)' <=> Unread(j)
    BY <1>1 DEF Unread
  <1>14. Exactly(search)' <=> Exactly(j)
    BY <1>1, <1>4, <1>8, <1>10, <1>12, <1>13 DEF Exactly
  <1> QED
    BY <1>1, <1>14 DEF EInv, Undisturbed

LEMMA StepExact ==
  ASSUME EInv, [CommandsNext]_commandsVars
  PROVE  EInv'
  <1>1. TInv'
    BY StepTyped DEF EInv
  <1>2. CASE Work \/ Cancel
    <2>1. UNCHANGED filesVars /\ quiet' = quiet
      BY <1>2 DEF Work, Cancel
    <2>2. quiet' /\ ~search'.cut => Exactly(search')
      BY <1>2, <2>1, WorkExact, CancelExact
    <2> QED
      BY <1>1, <2>1, <2>2, ExactlyStill
  <1>3. CASE Start
    <2>1. UNCHANGED filesVars /\ Exactly(search')
      BY <1>3, StartExact DEF Start
    <2> QED
      BY <1>1, <2>1, ExactlyStill
  <1>4. CASE Codex \/ Exit
    <2>1. ~quiet'
      BY <1>4 DEF Codex, Exit
    <2> QED
      BY <1>1, <2>1 DEF EInv, Undisturbed
  <1>5. CASE UNCHANGED <<filesVars, search, quiet>>
    <2>1. quiet' /\ ~search'.cut => Exactly(search')
      BY <1>5 DEF EInv, Undisturbed
    <2> QED
      BY <1>1, <1>5, <2>1, ExactlyStill
  <1> QED
    BY <1>2, <1>3, <1>4, <1>5, ByTheCommands DEF searchVars

LEMMA SearchesExactly == CommandsSpec => []EInv
  <1>1. CommandsInit => EInv
    <2>1. CommandsInit => ~quiet
      BY DEF CommandsInit, Init
    <2> QED
      BY <2>1, InitTyped DEF EInv, Undisturbed
  <1>2. EInv /\ [CommandsNext]_commandsVars => EInv'
    BY StepExact
  <1> QED
    BY <1>1, <1>2, PTL DEF CommandsSpec

\* ripgrep lists what matches to a reader: of the queries of which it is not so, the
\* property says nothing, and RipgrepOnlyFilters fails.
FilterIsExact == \A s \in Session : Listed[s] = Matching[s]

LEMMA SearchedIsCopy ==
  ASSUME FilesTypeOK, search.rg \in BOOLEAN, FilterIsExact \/ ~search.rg, NEW s
  PROVE  Searched(s) = Copy(search, s)
  <1>1. CASE ~search.rg
    <2>1. Pool(search.rg) = {p \in Path : Exists(p)}
      BY <1>1, PoolIs DEF Complete
    <2>2. Newest({p \in Path : Exists(p)}, s) = Newest(Path, s)
      BY DEF Newest, Parses
    <2> QED
      BY <1>1, <2>1, <2>2 DEF Searched, Copy
  <1>2. CASE search.rg /\ FilterIsExact
    <2>1. \A p \in Path : Exists(p) => (RawHits(p) <=> Hits(p))
      BY <1>2 DEF FilterIsExact, FilesTypeOK, Exists, File, RawHits, Hits
    <2>2. Pool(search.rg) = {p \in Path : Exists(p) /\ Hits(p)}
      BY <1>2, <2>1 DEF Pool
    <2> QED
      BY <1>2, <2>2 DEF Searched, Copy
  <1> QED
    BY <1>1, <1>2

LEMMA ReturnedIsClean ==
  ASSUME EInv, FilterIsExact \/ ~search.rg
  PROVE  CleanSearchExact
  <1> DEFINE matching == {s \in search.wanted : \E p \in Searched(s) : Hits(p)}
             time(s) == TimeOf[CHOOSE p \in Searched(s) : TRUE]
  <1>1. SUFFICES ASSUME UndisturbedSearch
                 PROVE  /\ Reported \subseteq matching
                        /\ Len(search.matches) < search.limit => Reported = matching
                        /\ \A s \in Reported, t \in matching \ Reported : time(t) <= time(s)
                        /\ \A i, j \in DOMAIN search.matches : i < j =>
                             /\ time(search.matches[j].id) <= time(search.matches[i].id)
                             /\ search.matches[j].id # search.matches[i].id
    BY DEF CleanSearchExact
  <1>2. search \in Frame /\ search.rg \in BOOLEAN /\ FilesTypeOK
    BY DEF EInv, TInv, Sane, Frame
  <1>3. ReturnedExactly(search)
    BY <1>1 DEF EInv, Undisturbed, UndisturbedSearch, Exactly
  <1>4. \A s : Searched(s) = Copy(search, s)
    BY <1>2, SearchedIsCopy
  <1>5. Reported = Ids(search) /\ matching = ToFind(search)
    BY <1>4 DEF Reported, Ids, ToFind
  <1>6. ASSUME NEW s \in matching
        PROVE  \E p \in Copy(search, s) : time(s) = TimeOf[p]
    <2>1. \E p \in Searched(s) : TRUE
      OBVIOUS
    <2>2. PICK p \in Searched(s) : p = CHOOSE q \in Searched(s) : TRUE
      BY <2>1
    <2> QED
      BY <1>4, <2>2
  <1>7. Ids(search) \subseteq ToFind(search)
    BY <1>3 DEF ReturnedExactly
  <1>8. ASSUME NEW s \in Reported, NEW t \in matching \ Reported
        PROVE  time(t) <= time(s)
    <2>1. PICK p \in Copy(search, s) : time(s) = TimeOf[p]
      BY <1>5, <1>6, <1>7
    <2>2. PICK q \in Copy(search, t) : time(t) = TimeOf[q]
      BY <1>6
    <2>3. TimeOf[q] <= TimeOf[p]
      BY <1>3, <1>5 DEF ReturnedExactly
    <2> QED
      BY <2>1, <2>2, <2>3
  <1>9. ASSUME NEW i \in DOMAIN search.matches, NEW j \in DOMAIN search.matches, i < j
        PROVE  /\ time(search.matches[j].id) <= time(search.matches[i].id)
               /\ search.matches[j].id # search.matches[i].id
    <2>1. search.matches[i].id \in matching /\ search.matches[j].id \in matching
      BY <1>2, <1>5, <1>7, IdsAre
    <2>2. PICK p \in Copy(search, search.matches[i].id) : time(search.matches[i].id) = TimeOf[p]
      BY <1>6, <2>1
    <2>3. PICK q \in Copy(search, search.matches[j].id) : time(search.matches[j].id) = TimeOf[q]
      BY <1>6, <2>1
    <2>4. TimeOf[q] <= TimeOf[p] /\ search.matches[j].id # search.matches[i].id
      BY <1>3, <1>9 DEF ReturnedExactly
    <2> QED
      BY <2>2, <2>3, <2>4
  <1>10. Len(search.matches) < search.limit => Reported = matching
    BY <1>3, <1>5 DEF ReturnedExactly
  <1> QED
    BY <1>5, <1>7, <1>8, <1>9, <1>10

(***************************************************************************)
(* While nothing changes, a search returns the newest of the sessions that *)
(* match, as many as --limit allows, newest first (README.md:107), however *)
(* candidates.go found the candidates.  For a query ripgrep and a reader   *)
(* agree on.                                                               *)
(***************************************************************************)
THEOREM QuietSearchIsExact ==
  ASSUME FilterIsExact
  PROVE  CommandsSpec => []CleanSearchExact
  <1>1. EInv => CleanSearchExact
    BY ReturnedIsClean
  <1> QED
    BY <1>1, SearchesExactly, PTL

(***************************************************************************)
(* The built-in scanner does so for every query.                           *)
(***************************************************************************)
THEOREM QuietScanIsExact ==
  CommandsSpec => [](~search.rg => CleanSearchExact)
  <1>1. EInv => (~search.rg => CleanSearchExact)
    BY ReturnedIsClean
  <1> QED
    BY <1>1, SearchesExactly, PTL
=============================================================================
