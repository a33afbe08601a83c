----------------------------- MODULE LookupProofs ----------------------------
(***************************************************************************)
(* What holds of a lookup ("cxq list", "show", "open", "resume") among the *)
(* read-only commands, while files appear, grow, move to the archive and   *)
(* go between any two of its reads: for every set of sessions, paths and   *)
(* selectors and every bound.                                              *)
(***************************************************************************)
EXTENDS SearchProofs

NoReading == [evenly |-> TRUE, said |-> <<>>, shown |-> <<>>]

LookupOutcome ==
    {"none", "not found", "ambiguous", "handed over", "unreadable", "shown", "listed",
     "interrupted"}

LookupFrame ==
    [pc : {"idle", "listActive", "listArchived", "parse", "resolved"},
     selector : Selector \cup {Nothing}, outcome : LookupOutcome,
     candidates : SUBSET Path, byId : [Session -> Path \cup {Nothing}],
     chosen : Session \cup {Nothing}, reading : Readings \cup {NoReading},
     wanted : SUBSET Session, listed : SUBSET Session,
     dropped : BOOLEAN, cut : BOOLEAN]

\* A frame, of which what is resolved is known and what is listed is wanted.
Proper(l) ==
    /\ l \in LookupFrame /\ l.listed \subseteq l.wanted
    /\ l.pc = "resolved" => l.chosen \in Session /\ l.byId[l.chosen] \in Path
    /\ l.outcome = "listed" => l.selector = Nothing

LTInv == TInv /\ Proper(lookup) /\ present \subseteq Session /\ undisturbed \in BOOLEAN

-----------------------------------------------------------------------------
(* What each step leaves in the frame. *)

LEMMA IdleFrame ==
  ASSUME NEW outcome \in LookupOutcome, NEW l, l = Idle(outcome)
  PROVE  /\ l \in LookupFrame /\ l.pc = "idle" /\ l.selector = Nothing
         /\ l.outcome = outcome /\ l.candidates = {} /\ ~l.dropped /\ ~l.cut
         /\ l.wanted = {} /\ l.listed = {}
         /\ \A s \in Session : l.byId[s] = Nothing
  BY DEF Idle, LookupFrame, NoReading

\* A step that neither resolves nor ends.
Onward(j) ==
    /\ j \in LookupFrame /\ j.selector = lookup.selector /\ j.outcome = lookup.outcome
    /\ j.wanted = lookup.wanted /\ j.listed = lookup.listed

LEMMA OnwardProper ==
  ASSUME Proper(lookup), NEW j, Onward(j), j.pc # "resolved"
  PROVE  Proper(j)
  BY DEF Proper, Onward

LEMMA BeginFrame ==
  ASSUME BeginLookup
  PROVE  /\ Proper(lookup') /\ lookup'.pc = "listActive" /\ lookup'.candidates = {}
         /\ ~lookup'.cut /\ ~lookup'.dropped
         /\ \A s \in Session : lookup'.byId[s] = Nothing
  <1>1. PICK selector \in Selector \cup {Nothing} :
          lookup' = [Idle("none") EXCEPT !.pc = "listActive", !.selector = selector]
    BY DEF BeginLookup, ContinueWith
  <1>2. PICK outcome \in LookupOutcome : outcome = "none"
    BY DEF LookupOutcome
  <1>3. PICK l : l = Idle(outcome)
    OBVIOUS
  <1>4. /\ l \in LookupFrame /\ l.outcome = outcome /\ l.candidates = {}
        /\ ~l.dropped /\ ~l.cut /\ l.wanted = {} /\ l.listed = {}
        /\ \A s \in Session : l.byId[s] = Nothing
    BY <1>3, IdleFrame
  <1>5. PICK j : j = [l EXCEPT !.pc = "listActive", !.selector = selector]
    OBVIOUS
  <1>6. /\ j \in LookupFrame /\ j.pc = "listActive" /\ j.outcome = "none"
        /\ j.candidates = {} /\ ~j.dropped /\ ~j.cut /\ j.wanted = {} /\ j.listed = {}
        /\ \A s \in Session : j.byId[s] = Nothing
    BY <1>2, <1>4, <1>5 DEF LookupFrame
  <1>7. Proper(j)
    BY <1>6 DEF Proper
  <1>8. lookup' = j
    BY <1>1, <1>2, <1>5, <1>3
  <1> QED
    BY <1>6, <1>7, <1>8

LEMMA ListFrame ==
  ASSUME Proper(lookup), NEW here, NEW root \in SUBSET Path,
         NEW after \in {"listArchived", "parse"}, List(here, root, after)
  PROVE  \E listed \in Listings(root) :
           /\ lookup.pc = here /\ Onward(lookup') /\ lookup'.pc = after
           /\ lookup'.candidates = lookup.candidates \cup {p \in listed : Candidate(p)}
           /\ lookup'.cut = (lookup.cut \/ listed # Complete(root))
           /\ lookup'.byId = lookup.byId /\ lookup'.dropped = lookup.dropped
  <1>1. lookup \in LookupFrame /\ lookup.pc = here
    BY DEF Proper, List
  <1>2. PICK listed \in Listings(root) :
          lookup' = [lookup EXCEPT !.pc = after,
                       !.candidates = lookup.candidates \cup {p \in listed : Candidate(p)},
                       !.cut = lookup.cut \/ listed # Complete(root)]
    BY DEF List, ContinueWith
  <1>3. listed \subseteq root
    BY DEF Listings, Complete, UpTo
  <1>4. PICK more : more = lookup.candidates \cup {p \in listed : Candidate(p)}
    OBVIOUS
  <1>5. more \in SUBSET Path
    BY <1>1, <1>3, <1>4 DEF LookupFrame
  <1>6. PICK cut \in BOOLEAN : cut = (lookup.cut \/ listed # Complete(root))
    OBVIOUS
  <1>7. PICK j : j = [lookup EXCEPT !.pc = after, !.candidates = more, !.cut = cut]
    OBVIOUS
  <1>8. /\ j \in LookupFrame /\ j.pc = after /\ j.candidates = more /\ j.cut = cut
        /\ j.byId = lookup.byId /\ j.dropped = lookup.dropped
        /\ j.selector = lookup.selector /\ j.outcome = lookup.outcome
        /\ j.wanted = lookup.wanted /\ j.listed = lookup.listed
    BY <1>1, <1>5, <1>7 DEF LookupFrame
  <1>9. lookup' = j
    BY <1>2, <1>4, <1>6, <1>7
  <1> QED
    BY <1>1, <1>4, <1>6, <1>8, <1>9 DEF Onward

LEMMA ParseCandidateFrame ==
  ASSUME FilesTypeOK, Proper(lookup), ParseCandidate
  PROVE  \E p \in lookup.candidates :
           /\ p \in Path /\ lookup.pc = "parse" /\ Onward(lookup') /\ lookup'.pc = "parse"
           /\ lookup'.candidates = lookup.candidates \ {p}
           /\ lookup'.cut = lookup.cut
           /\ \/ ~Parses(p) /\ lookup'.dropped /\ lookup'.byId = lookup.byId
              \/ /\ Parses(p) /\ lookup'.dropped = lookup.dropped
                 /\ \A s \in Session : s # ParsedID(p) => lookup'.byId[s] = lookup.byId[s]
                 /\ lookup'.byId[ParsedID(p)] \in {p, lookup.byId[ParsedID(p)]} \ {Nothing}
  <1>1. lookup \in LookupFrame /\ lookup.pc = "parse"
    BY DEF Proper, ParseCandidate
  <1>2. PICK p \in lookup.candidates :
          LET rest == [lookup EXCEPT !.candidates = @ \ {p}] IN
          \/ ~Parses(p) /\ ContinueWith([rest EXCEPT !.dropped = TRUE])
          \/ Parses(p) /\ Replaces(p) /\ ContinueWith([rest EXCEPT !.byId[ParsedID(p)] = p])
          \/ Parses(p) /\ ~Replaces(p) /\ ContinueWith(rest)
    BY DEF ParseCandidate
  <1>3. p \in Path /\ p # Nothing /\ lookup.candidates \ {p} \in SUBSET Path
    BY <1>1, SelectorAssumption DEF LookupFrame
  <1>4. PICK rest : rest = [lookup EXCEPT !.candidates = lookup.candidates \ {p}]
    OBVIOUS
  <1>5. /\ Onward(rest) /\ rest.pc = "parse" /\ rest.candidates = lookup.candidates \ {p}
        /\ rest.cut = lookup.cut /\ rest.dropped = lookup.dropped /\ rest.byId = lookup.byId
    BY <1>1, <1>3, <1>4 DEF LookupFrame, Onward
  <1>6. CASE ~Parses(p)
    <2>1. lookup' = [rest EXCEPT !.dropped = TRUE]
      BY <1>2, <1>4, <1>6 DEF ContinueWith
    <2>2. /\ Onward(lookup') /\ lookup'.pc = "parse"
          /\ lookup'.candidates = lookup.candidates \ {p} /\ lookup'.cut = lookup.cut
          /\ lookup'.dropped /\ lookup'.byId = lookup.byId
      BY <1>5, <2>1 DEF LookupFrame, Onward
    <2> QED
      BY <1>1, <1>3, <1>6, <2>2
  <1>7. CASE Parses(p) /\ Replaces(p)
    <2>1. PICK s \in Session : s = ParsedID(p)
      BY <1>3, <1>7, ParsedSession DEF Parses
    <2>2. PICK known : known = [lookup.byId EXCEPT ![s] = p]
      OBVIOUS
    <2>3. lookup' = [rest EXCEPT !.byId = known]
      BY <1>2, <1>4, <1>5, <1>7, <2>1, <2>2 DEF ContinueWith
    <2>4. /\ known \in [Session -> Path \cup {Nothing}] /\ known[s] = p
          /\ \A t \in Session : t # s => known[t] = lookup.byId[t]
      BY <1>1, <1>3, <2>2 DEF LookupFrame
    <2>5. /\ Onward(lookup') /\ lookup'.pc = "parse"
          /\ lookup'.candidates = lookup.candidates \ {p} /\ lookup'.cut = lookup.cut
          /\ lookup'.dropped = lookup.dropped /\ lookup'.byId = known
      BY <1>5, <2>3, <2>4 DEF LookupFrame, Onward
    <2> QED
      BY <1>1, <1>3, <1>7, <2>1, <2>4, <2>5
  <1>8. CASE Parses(p) /\ ~Replaces(p)
    <2>1. lookup' = rest
      BY <1>2, <1>4, <1>8 DEF ContinueWith
    <2>2. lookup.byId[ParsedID(p)] # Nothing
      BY <1>8 DEF Replaces
    <2> QED
      BY <1>1, <1>3, <1>5, <1>8, <2>1, <2>2
  <1> QED
    BY <1>6, <1>7, <1>8

\* Resolve, open and resume end the lookup by dropping the catalog only.
LEMMA ReturnsFrame ==
  ASSUME Proper(lookup), NEW outcome \in LookupOutcome, outcome # "listed",
         LookupReturns(outcome)
  PROVE  /\ Proper(lookup') /\ lookup'.pc = "idle" /\ lookup'.outcome = outcome
         /\ lookup'.selector = lookup.selector /\ lookup'.chosen = lookup.chosen
         /\ lookup'.cut = lookup.cut /\ lookup'.dropped = lookup.dropped
  <1>1. PICK o \in LookupOutcome : o = "none"
    BY DEF LookupOutcome
  <1>2. PICK idle : idle = Idle(o)
    OBVIOUS
  <1>3. PICK nothing : nothing = idle.byId
    OBVIOUS
  <1>4. nothing \in [Session -> Path \cup {Nothing}]
    BY <1>2, <1>3, IdleFrame DEF LookupFrame
  <1>5. lookup' = [lookup EXCEPT !.pc = "idle", !.outcome = outcome, !.candidates = {},
                                 !.byId = nothing]
    BY <1>1, <1>2, <1>3 DEF LookupReturns, ContinueWith
  <1>6. lookup \in LookupFrame /\ lookup.listed \subseteq lookup.wanted
    BY DEF Proper
  <1>7. PICK j : j = lookup'
    OBVIOUS
  <1>8. /\ j \in LookupFrame /\ j.pc = "idle" /\ j.outcome = outcome
        /\ j.selector = lookup.selector /\ j.chosen = lookup.chosen
        /\ j.cut = lookup.cut /\ j.dropped = lookup.dropped
        /\ j.wanted = lookup.wanted /\ j.listed = lookup.listed
    BY <1>4, <1>5, <1>6, <1>7 DEF LookupFrame
  <1>9. Proper(j)
    BY <1>6, <1>8 DEF Proper
  <1> QED
    BY <1>7, <1>8, <1>9

LEMMA ResolveFrame ==
  ASSUME Proper(lookup), Resolve
  PROVE  /\ Proper(lookup') /\ lookup.pc = "parse" /\ lookup.candidates = {}
         /\ lookup.selector # Nothing /\ lookup'.selector = lookup.selector
         /\ lookup'.cut = lookup.cut /\ lookup'.dropped = lookup.dropped
         /\ \/ Selected = {} /\ lookup'.pc = "idle" /\ lookup'.outcome = "not found"
            \/ /\ Cardinality(Selected) > 1
               /\ lookup'.pc = "idle" /\ lookup'.outcome = "ambiguous"
            \/ /\ lookup'.pc = "resolved" /\ lookup'.chosen \in Known
               /\ Selected = {lookup'.chosen} /\ lookup'.byId = lookup.byId
  <1>1. /\ lookup \in LookupFrame /\ lookup.pc = "parse" /\ lookup.candidates = {}
        /\ lookup.selector # Nothing
    BY DEF Proper, Resolve
  <1>2. CASE Selected = {} /\ LookupReturns("not found")
    <2>1. PICK outcome \in LookupOutcome : outcome = "not found"
      BY DEF LookupOutcome
    <2> QED
      BY <1>1, <1>2, <2>1, ReturnsFrame
  <1>3. CASE Cardinality(Selected) > 1 /\ LookupReturns("ambiguous")
    <2>1. PICK outcome \in LookupOutcome : outcome = "ambiguous"
      BY DEF LookupOutcome
    <2> QED
      BY <1>1, <1>3, <2>1, ReturnsFrame
  <1>4. CASE \E s \in Selected :
               /\ Selected = {s}
               /\ ContinueWith([lookup EXCEPT !.pc = "resolved", !.chosen = s])
    <2>1. PICK s \in Selected :
            /\ Selected = {s}
            /\ lookup' = [lookup EXCEPT !.pc = "resolved", !.chosen = s]
      BY <1>4 DEF ContinueWith
    <2>2. s \in Known
      BY <2>1 DEF Selected, Exact
    <2>3. s \in Session /\ lookup.byId[s] \in Path
      BY <1>1, <2>2 DEF Known, LookupFrame
    <2>4. PICK j : j = lookup'
      OBVIOUS
    <2>5. /\ j \in LookupFrame /\ j.pc = "resolved" /\ j.chosen = s
          /\ j.byId = lookup.byId /\ j.selector = lookup.selector
          /\ j.outcome = lookup.outcome /\ j.cut = lookup.cut
          /\ j.dropped = lookup.dropped /\ j.wanted = lookup.wanted
          /\ j.listed = lookup.listed
      BY <1>1, <2>1, <2>3, <2>4 DEF LookupFrame
    <2>6. Proper(j)
      BY <2>3, <2>5 DEF Proper
    <2> QED
      BY <1>1, <2>1, <2>2, <2>4, <2>5, <2>6
  <1> QED
    BY <1>2, <1>3, <1>4 DEF Resolve

\* What was resolved is handed over, or cannot be read any more.
LEMMA HandOverFrame ==
  ASSUME Proper(lookup), HandOver
  PROVE  /\ Proper(lookup') /\ lookup.pc = "resolved"
         /\ lookup'.pc = "idle" /\ lookup'.outcome = "handed over"
         /\ lookup'.selector = lookup.selector /\ lookup'.chosen = lookup.chosen
         /\ lookup'.cut = lookup.cut /\ lookup'.dropped = lookup.dropped
  <1>1. PICK outcome \in LookupOutcome : outcome = "handed over"
    BY DEF LookupOutcome
  <1> QED
    BY <1>1, ReturnsFrame DEF HandOver

LEMMA ShowFrame ==
  ASSUME Proper(lookup), Show
  PROVE  /\ Proper(lookup') /\ lookup.pc = "resolved" /\ lookup'.pc = "idle"
         /\ \/ ~Exists(lookup.byId[lookup.chosen]) /\ lookup'.outcome = "unreadable"
            \/ Exists(lookup.byId[lookup.chosen]) /\ lookup'.outcome = "shown"
         /\ lookup'.selector = lookup.selector /\ lookup'.chosen = lookup.chosen
         /\ lookup'.cut = lookup.cut /\ lookup'.dropped = lookup.dropped
  <1>1. lookup \in LookupFrame /\ lookup.pc = "resolved"
    BY DEF Proper, Show
  <1>2. CASE ~Exists(lookup.byId[lookup.chosen]) /\ LookupReturns("unreadable")
    <2>1. PICK outcome \in LookupOutcome : outcome = "unreadable"
      BY DEF LookupOutcome
    <2> QED
      BY <1>1, <1>2, <2>1, ReturnsFrame
  <1>3. CASE /\ Exists(lookup.byId[lookup.chosen])
             /\ \E reading \in Readings :
                  lookup' = [Idle("shown") EXCEPT
                    !.selector = lookup.selector, !.chosen = lookup.chosen,
                    !.dropped = lookup.dropped, !.cut = lookup.cut, !.reading = reading]
    <2>1. PICK outcome \in LookupOutcome : outcome = "shown"
      BY DEF LookupOutcome
    <2>2. PICK idle : idle = Idle(outcome)
      OBVIOUS
    <2>3. /\ idle \in LookupFrame /\ idle.pc = "idle" /\ idle.outcome = "shown"
          /\ idle.listed = {}
      BY <2>1, <2>2, IdleFrame
    <2>4. PICK reading \in Readings :
            lookup' = [idle EXCEPT
                    !.selector = lookup.selector, !.chosen = lookup.chosen,
                    !.dropped = lookup.dropped, !.cut = lookup.cut, !.reading = reading]
      BY <1>3, <2>1, <2>2
    <2>5. PICK j : j = lookup'
      OBVIOUS
    <2>6. /\ j \in LookupFrame /\ j.pc = "idle" /\ j.outcome = "shown"
          /\ j.selector = lookup.selector /\ j.chosen = lookup.chosen
          /\ j.cut = lookup.cut /\ j.dropped = lookup.dropped /\ j.listed = {}
      BY <1>1, <2>3, <2>4, <2>5 DEF LookupFrame
    <2>7. Proper(j)
      BY <2>6 DEF Proper
    <2> QED
      BY <1>1, <1>3, <2>5, <2>6, <2>7
  <1> QED
    BY <1>2, <1>3 DEF Show

LEMMA PrintFrame ==
  ASSUME Proper(lookup), PrintList
  PROVE  /\ Proper(lookup') /\ lookup.pc = "parse" /\ lookup.candidates = {}
         /\ lookup.selector = Nothing
         /\ lookup'.pc = "idle" /\ lookup'.outcome = "listed"
         /\ lookup'.selector = Nothing
         /\ lookup'.listed = Known \cap lookup'.wanted
         /\ lookup'.cut = lookup.cut /\ lookup'.dropped = lookup.dropped
  <1>1. /\ lookup \in LookupFrame /\ lookup.pc = "parse" /\ lookup.candidates = {}
        /\ lookup.selector = Nothing
    BY DEF Proper, PrintList
  <1>2. PICK outcome \in LookupOutcome : outcome = "listed"
    BY DEF LookupOutcome
  <1>3. PICK idle : idle = Idle(outcome)
    OBVIOUS
  <1>4. /\ idle \in LookupFrame /\ idle.pc = "idle" /\ idle.outcome = "listed"
        /\ idle.selector = Nothing
    BY <1>2, <1>3, IdleFrame
  <1>5. PICK wanted \in SUBSET Session :
          lookup' = [idle EXCEPT !.wanted = wanted, !.listed = Known \cap wanted,
                                 !.dropped = lookup.dropped, !.cut = lookup.cut]
    BY <1>2, <1>3 DEF PrintList
  <1>6. PICK listed \in SUBSET Session : listed = Known \cap wanted
    BY DEF Known
  <1>7. PICK j : j = lookup'
    OBVIOUS
  <1>8. j = [idle EXCEPT !.wanted = wanted, !.listed = listed,
                         !.dropped = lookup.dropped, !.cut = lookup.cut]
    BY <1>5, <1>6, <1>7
  <1>9. /\ j \in LookupFrame /\ j.pc = "idle" /\ j.outcome = "listed"
        /\ j.selector = Nothing /\ j.wanted = wanted /\ j.listed = listed
        /\ j.cut = lookup.cut /\ j.dropped = lookup.dropped
    BY <1>1, <1>4, <1>8 DEF LookupFrame
  <1>10. Proper(j)
    BY <1>6, <1>9 DEF Proper
  <1> QED
    BY <1>1, <1>6, <1>7, <1>9, <1>10

LEMMA InterruptFrame ==
  ASSUME Interrupt
  PROVE  Proper(lookup') /\ lookup'.pc = "idle" /\ lookup'.outcome = "interrupted"
  <1>1. PICK outcome \in LookupOutcome : outcome = "interrupted"
    BY DEF LookupOutcome
  <1>2. PICK j : j = Idle(outcome)
    OBVIOUS
  <1>3. j \in LookupFrame /\ j.pc = "idle" /\ j.outcome = outcome /\ j.listed = {}
    BY <1>2, IdleFrame
  <1>4. Proper(j)
    BY <1>1, <1>3 DEF Proper
  <1>5. lookup' = j
    BY <1>1, <1>2 DEF Interrupt
  <1> QED
    BY <1>1, <1>3, <1>4, <1>5

LEMMA LookupStart ==
  ASSUME NEW l, l = Idle("none")
  PROVE  Proper(l) /\ l.pc = "idle" /\ l.outcome = "none"
  <1>1. PICK outcome \in LookupOutcome : outcome = "none"
    BY DEF LookupOutcome
  <1>2. l \in LookupFrame /\ l.pc = "idle" /\ l.outcome = outcome /\ l.listed = {}
    BY <1>1, IdleFrame
  <1> QED
    BY <1>1, <1>2 DEF Proper

-----------------------------------------------------------------------------
(* Types. *)

\* What a step of the commands is to the lookup.
LEMMA ByTheLookup ==
  ASSUME [CommandsNext]_commandsVars
  PROVE  \/ BeginLookup /\ UNCHANGED filesVars
         \/ LookupWork /\ UNCHANGED filesVars
         \/ Exit
         \/ Codex /\ LookupDisturbed
         \/ UNCHANGED <<filesVars, lookupVars>>
  <1>1. CASE CommandsNext
    BY <1>1 DEF CommandsNext, RunLookup, RunSearch, ContinueCompare, RunIndexed,
                CommandRuns, FilesChange, Start, Work, Cancel
  <1>2. CASE UNCHANGED commandsVars
    BY <1>2 DEF commandsVars
  <1> QED
    BY <1>1, <1>2

LEMMA ActiveAndArchive ==
  /\ Archived \in SUBSET Path /\ Path \ Archived \in SUBSET Path
  BY PathAssumption

LEMMA DiscoverProper ==
  ASSUME Proper(lookup), Discover
  PROVE  Proper(lookup')
  <1>1. ASSUME NEW here, NEW root \in SUBSET Path, NEW after \in {"listArchived", "parse"},
               List(here, root, after)
        PROVE  Proper(lookup')
    <2>1. PICK j : j = lookup'
      OBVIOUS
    <2>2. Onward(j) /\ j.pc = after
      BY <1>1, <2>1, ListFrame
    <2>3. Proper(j)
      BY <2>2, OnwardProper
    <2> QED
      BY <2>1, <2>3
  <1> QED
    BY <1>1, ActiveAndArchive DEF Discover

LEMMA ParseCandidateProper ==
  ASSUME FilesTypeOK, Proper(lookup), ParseCandidate
  PROVE  Proper(lookup')
  <1>1. PICK j : j = lookup'
    OBVIOUS
  <1>2. Onward(j) /\ j.pc = "parse"
    BY <1>1, ParseCandidateFrame
  <1>3. Proper(j)
    BY <1>2, OnwardProper
  <1> QED
    BY <1>1, <1>3

LEMMA LookupWorkProper ==
  ASSUME LTInv, LookupWork
  PROVE  Proper(lookup')
  <1>1. FilesTypeOK /\ Proper(lookup)
    BY DEF LTInv, TInv
  <1> QED
    BY <1>1, DiscoverProper, ParseCandidateProper, ResolveFrame, HandOverFrame, ShowFrame,
       PrintFrame, InterruptFrame DEF LookupWork

LEMMA ProperAfter ==
  ASSUME NEW j, j = lookup', Proper(j)
  PROVE  Proper(lookup)'
  BY DEF Proper

LEMMA LookupStepTyped ==
  ASSUME LTInv, [CommandsNext]_commandsVars
  PROVE  LTInv'
  <1>1. TInv'
    BY StepTyped DEF LTInv
  <1>2. PICK j : j = lookup'
    OBVIOUS
  <1>3. CASE BeginLookup
    BY <1>1, <1>2, <1>3, BeginFrame, ProperAfter DEF LTInv, BeginLookup, Readable
  <1>4. CASE LookupWork
    <2>1. Proper(j) /\ UNCHANGED <<present, undisturbed>>
      BY <1>2, <1>4, LookupWorkProper DEF LookupWork
    <2> QED
      BY <1>1, <1>2, <2>1, ProperAfter DEF LTInv
  <1>5. CASE Exit
    <2>1. Proper(j) /\ present' = {} /\ undisturbed' = FALSE
      BY <1>2, <1>5, LookupStart DEF Exit
    <2> QED
      BY <1>1, <1>2, <2>1, ProperAfter DEF LTInv
  <1>6. CASE LookupDisturbed
    <2>1. j = lookup /\ present' \subseteq present /\ undisturbed' = FALSE
      BY <1>2, <1>6 DEF LookupDisturbed
    <2> QED
      BY <1>1, <1>2, <2>1, ProperAfter DEF LTInv
  <1>7. CASE UNCHANGED lookupVars
    <2>1. j = lookup /\ UNCHANGED <<present, undisturbed>>
      BY <1>2, <1>7 DEF lookupVars
    <2> QED
      BY <1>1, <1>2, <2>1, ProperAfter DEF LTInv
  <1> QED
    BY <1>3, <1>4, <1>5, <1>6, <1>7, ByTheLookup

LEMMA LookupInitTyped ==
  ASSUME CommandsInit
  PROVE  LTInv
  BY InitTyped, LookupStart DEF LTInv, CommandsInit, LookupInit

LEMMA LookupTyped == CommandsSpec => []LTInv
  <1>1. CommandsInit => LTInv
    BY LookupInitTyped
  <1>2. LTInv /\ [CommandsNext]_commandsVars => LTInv'
    BY LookupStepTyped
  <1> QED
    BY <1>1, <1>2, PTL DEF CommandsSpec

(***************************************************************************)
(* The variables of a lookup have their types, whichever commands run one  *)
(* after another: what Resolve hands on is a session of the catalog it has *)
(* built, and list prints nothing that its filters exclude.                *)
(***************************************************************************)
THEOREM LookupTypeCorrect == CommandsSpec => []LookupTypeOK
  <1>1. LTInv => LookupTypeOK
    <2> SUFFICES ASSUME LTInv PROVE LookupTypeOK
      OBVIOUS
    <2>1. lookup \in LookupFrame /\ lookup.listed \subseteq lookup.wanted
      BY DEF LTInv, Proper
    <2>2. lookup.pc = "resolved" => lookup.chosen \in Known
      BY SelectorAssumption DEF LTInv, Proper, Known
    <2> QED
      BY <2>1, <2>2 DEF LTInv, LookupTypeOK, LookupFrame, LookupOutcome
  <1> QED
    BY <1>1, LookupTyped, PTL

-----------------------------------------------------------------------------
(* A lookup heeds every session that has been readable since it began,      *)
(* where a path is that of one session and no rollout leaves the archive.   *)

\* The session is one the lookup is about.
Of(l, s) == l.selector = Nothing \/ l.selector \in Prefixes[s]

ActiveListed(l, s) ==
    \A p \in Path \ Archived : Exists(p) /\ fs[p].sid = s => p \in l.candidates

InCatalog(l, s) == l.byId[s] # Nothing \/ \E p \in l.candidates : Good(p, s)

\* The session chosen is this one, or the one whose id was given.
Agreed(l, s) == s = l.chosen \/ FullID[l.chosen] = l.selector

Attended(l, s) ==
    /\ l.pc = "listArchived" => ActiveListed(l, s)
    /\ l.pc = "parse" => InCatalog(l, s)
    /\ l.pc = "resolved" => Agreed(l, s)
    /\ l.pc = "idle" =>
         /\ l.outcome # "not found"
         /\ l.outcome \in {"handed over", "shown", "unreadable"} => Agreed(l, s)
         /\ l.outcome = "ambiguous" => FullID[s] # l.selector
         /\ l.outcome = "listed" /\ s \in l.wanted => s \in l.listed

Heeds(l) == ~l.cut /\ ~l.dropped => \A s \in present : Of(l, s) => Attended(l, s)

HInv == LTInv /\ present \subseteq Readable /\ Heeds(lookup)

LEMMA HeedsPresent ==
  ASSUME HInv
  PROVE  LookupHeedsPresent
  <1> SUFFICES ASSUME lookup.pc = "idle", ~lookup.cut, ~lookup.dropped
               PROVE  LET meant == Meant(lookup.selector, present) IN
                      /\ lookup.outcome = "not found" => meant = {}
                      /\ lookup.outcome \in {"handed over", "shown", "unreadable"} =>
                           \A s \in meant : Agreed(lookup, s)
                      /\ lookup.outcome = "ambiguous" =>
                           \A s \in meant : FullID[s] # lookup.selector
                      /\ lookup.outcome = "listed" =>
                           present \cap lookup.wanted \subseteq lookup.listed
    BY DEF LookupHeedsPresent, Agreed
  <1>1. \A s \in present : Of(lookup, s) => Attended(lookup, s)
    BY DEF HInv, Heeds
  <1>2. ASSUME NEW s \in Meant(lookup.selector, present)
        PROVE  s \in present /\ Of(lookup, s)
    <2>1. s \in present /\ s \in Session
      BY <1>2 DEF Meant, HInv, LTInv
    <2>2. FullID[s] = lookup.selector \/ lookup.selector \in Prefixes[s]
      BY <1>2 DEF Meant
    <2> QED
      BY <2>1, <2>2, SelectorAssumption DEF Of
  <1>3. lookup.outcome = "listed" => \A s \in present : Of(lookup, s)
    BY DEF HInv, LTInv, Proper, Of
  <1> QED
    BY <1>1, <1>2, <1>3 DEF Attended

\* A standard name has one session, and carries its id.
LEMMA NamedSession ==
  ASSUME NEW p \in StandardName, NEW s \in MayHold[p]
  PROVE  NamedID(p) = s
  <1>1. p \in Path
    BY PathAssumption
  <1>2. s \in Session /\ \A t \in MayHold[p] : t = s
    BY <1>1, FileAssumption
  <1> QED
    BY <1>2 DEF NamedID

\* A file of a session the lookup is about is not passed over for its name.
LEMMA OwnCandidate ==
  ASSUME FilesInv, NEW p \in Path, Exists(p), Of(lookup, fs[p].sid)
  PROVE  Candidate(p)
  <1>1. fs[p].sid \in MayHold[p]
    BY DEF FilesInv
  <1>2. p \in StandardName => NamedID(p) = fs[p].sid
    BY <1>1, NamedSession
  <1> QED
    BY <1>2 DEF Candidate, Of

LEMMA PresentIsSomewhere ==
  ASSUME TInv, NEW s \in Readable
  PROVE  \E p \in Path : Exists(p) /\ fs[p].sid = s /\ Good(p, s) /\ Parses(p)
  <1>1. PICK p \in Path : Parses(p) /\ ParsedID(p) = s
    BY DEF Readable
  <1>2. Good(p, s)
    BY <1>1, ReadableIsGood
  <1> QED
    BY <1>1, <1>2 DEF Parses, ParsedID

\* The lookup's own steps: it is enough to look at the frame.
LEMMA FrameHeeded ==
  ASSUME HInv, LTInv', UNCHANGED filesVars, UNCHANGED present, NEW j, j = lookup', Heeds(j)
  PROVE  HInv'
  <1>1. (present \subseteq Readable)'
    BY DEF HInv, Readable, Parses, ParsedID, Exists, filesVars
  <1>2. \A s : Attended(lookup, s)' <=> Attended(j, s)
    BY DEF Attended, ActiveListed, InCatalog, Agreed, Good, Exists, filesVars
  <1>3. \A s : Of(lookup, s)' <=> Of(j, s)
    BY DEF Of
  <1>4. Heeds(lookup)'
    BY <1>2, <1>3 DEF Heeds
  <1> QED
    BY <1>1, <1>4 DEF HInv

LEMMA DiscoverHeeded ==
  ASSUME HInv, Discover, NEW j, j = lookup'
  PROVE  Heeds(j)
  <1>1. TInv /\ FilesInv /\ Proper(lookup)
    BY DEF HInv, LTInv, TInv
  <1>2. CASE List("listActive", Path \ Archived, "listArchived")
    <2>1. PICK listed \in Listings(Path \ Archived) :
            /\ Onward(j) /\ j.pc = "listArchived"
            /\ j.candidates = lookup.candidates \cup {p \in listed : Candidate(p)}
            /\ j.cut = (lookup.cut \/ listed # Complete(Path \ Archived))
      BY <1>1, <1>2, ListFrame, ActiveAndArchive
    <2>2. ASSUME ~j.cut, NEW s \in present, Of(j, s)
          PROVE  Attended(j, s)
      <3>1. listed = Complete(Path \ Archived)
        BY <2>1, <2>2
      <3>2. ASSUME NEW p \in Path \ Archived, Exists(p), fs[p].sid = s
            PROVE  p \in j.candidates
        <4>1. Of(lookup, s)
          BY <2>1, <2>2 DEF Of, Onward
        <4>2. Candidate(p)
          BY <1>1, <3>2, <4>1, OwnCandidate
        <4> QED
          BY <2>1, <3>1, <3>2, <4>2 DEF Complete
      <3> QED
        BY <2>1, <3>2 DEF Attended, ActiveListed
    <2> QED
      BY <2>2 DEF Heeds
  <1>3. CASE List("listArchived", Archived, "parse")
    <2>1. PICK listed \in Listings(Archived) :
            /\ lookup.pc = "listArchived" /\ Onward(j) /\ j.pc = "parse"
            /\ j.candidates = lookup.candidates \cup {p \in listed : Candidate(p)}
            /\ j.cut = (lookup.cut \/ listed # Complete(Archived))
            /\ j.dropped = lookup.dropped
      BY <1>1, <1>3, ListFrame, ActiveAndArchive
    <2>2. ASSUME ~j.cut, ~j.dropped, NEW s \in present, Of(j, s)
          PROVE  Attended(j, s)
      <3>1. listed = Complete(Archived) /\ ~lookup.cut /\ ~lookup.dropped
        BY <2>1, <2>2
      <3>2. Of(lookup, s)
        BY <2>1, <2>2 DEF Of, Onward
      <3>3. ActiveListed(lookup, s)
        BY <2>1, <3>1, <3>2 DEF HInv, Heeds, Attended
      <3>4. PICK p \in Path : Exists(p) /\ fs[p].sid = s /\ Good(p, s)
        BY <1>1, PresentIsSomewhere DEF HInv
      <3>5. Candidate(p)
        BY <1>1, <3>2, <3>4, OwnCandidate
      <3>6. p \in j.candidates
        BY <2>1, <3>1, <3>3, <3>4, <3>5 DEF ActiveListed, Complete
      <3> QED
        BY <2>1, <3>4, <3>6 DEF Attended, InCatalog
    <2> QED
      BY <2>2 DEF Heeds
  <1> QED
    BY <1>2, <1>3 DEF Discover

LEMMA ParseCandidateHeeded ==
  ASSUME NoSharedPath, HInv, ParseCandidate, NEW j, j = lookup'
  PROVE  Heeds(j)
  <1>1. TInv /\ FilesTypeOK /\ Proper(lookup)
    BY DEF HInv, LTInv, TInv
  <1>2. PICK p \in lookup.candidates :
          /\ p \in Path /\ lookup.pc = "parse" /\ Onward(j) /\ j.pc = "parse"
          /\ j.candidates = lookup.candidates \ {p} /\ j.cut = lookup.cut
          /\ \/ ~Parses(p) /\ j.dropped
             \/ /\ Parses(p) /\ j.dropped = lookup.dropped
                /\ \A s \in Session : s # ParsedID(p) => j.byId[s] = lookup.byId[s]
                /\ j.byId[ParsedID(p)] \in {p, lookup.byId[ParsedID(p)]} \ {Nothing}
    BY <1>1, ParseCandidateFrame
  <1>3. ASSUME ~j.cut, ~j.dropped, NEW s \in present, Of(j, s)
        PROVE  Attended(j, s)
    <2>1. s \in Session /\ Of(lookup, s)
      BY <1>2, <1>3 DEF HInv, LTInv, Of, Onward
    <2>2. InCatalog(lookup, s)
      BY <1>2, <1>3, <2>1 DEF HInv, Heeds, Attended
    <2>3. Parses(p)
      BY <1>2, <1>3
    <2>4. Good(p, s) => s = ParsedID(p)
      BY <1>1, <2>3, GoodIsReadable DEF Parses
    <2>5. InCatalog(j, s)
      BY <1>2, <2>1, <2>2, <2>3, <2>4 DEF InCatalog
    <2> QED
      BY <1>2, <2>5 DEF Attended
  <1> QED
    BY <1>3 DEF Heeds

LEMMA ResolveHeeded ==
  ASSUME HInv, Resolve, NEW j, j = lookup'
  PROVE  Heeds(j)
  <1>1. Proper(lookup)
    BY DEF HInv, LTInv
  <1>2. /\ lookup.pc = "parse" /\ lookup.candidates = {}
        /\ lookup.selector # Nothing /\ j.selector = lookup.selector
        /\ j.cut = lookup.cut /\ j.dropped = lookup.dropped
        /\ \/ Selected = {} /\ j.pc = "idle" /\ j.outcome = "not found"
           \/ Cardinality(Selected) > 1 /\ j.pc = "idle" /\ j.outcome = "ambiguous"
           \/ j.pc = "resolved" /\ j.chosen \in Known /\ Selected = {j.chosen}
    BY <1>1, ResolveFrame
  <1>3. ASSUME ~j.cut, ~j.dropped, NEW s \in present, Of(j, s)
        PROVE  Attended(j, s)
    <2>1. s \in Session /\ lookup.selector \in Prefixes[s]
      BY <1>2, <1>3 DEF HInv, LTInv, Of
    <2>2. InCatalog(lookup, s)
      BY <1>2, <1>3, <2>1 DEF HInv, Heeds, Attended, Of
    <2>3. s \in Known
      BY <1>2, <2>1, <2>2 DEF InCatalog, Known
    <2>4. Selected # {}
      BY <2>1, <2>3 DEF Selected
    <2>5. FullID[s] = lookup.selector => Selected = {s}
      <3>1. ASSUME FullID[s] = lookup.selector PROVE Exact = {s}
        BY <2>3, <3>1, SelectorAssumption DEF Exact, Known
      <3> QED
        BY <3>1 DEF Selected
    <2>6. Cardinality(Selected) > 1 => FullID[s] # lookup.selector
      BY <2>5, FS_Singleton
    <2>7. j.chosen \in Known /\ Selected = {j.chosen} => Agreed(j, s)
      <3>1. CASE Exact = {}
        BY <1>2, <2>1, <2>3, <3>1 DEF Selected, Agreed
      <3>2. CASE Exact # {}
        BY <1>2, <3>2 DEF Selected, Exact, Agreed
      <3> QED
        BY <3>1, <3>2
    <2> QED
      BY <1>2, <2>4, <2>6, <2>7 DEF Attended
  <1> QED
    BY <1>3 DEF Heeds

\* What was resolved stays it.
LEMMA LeaveHeeded ==
  ASSUME HInv, HandOver \/ Show, NEW j, j = lookup'
  PROVE  Heeds(j)
  <1>1. /\ lookup.pc = "resolved" /\ j.pc = "idle"
        /\ j.outcome \in {"handed over", "shown", "unreadable"}
        /\ j.selector = lookup.selector /\ j.chosen = lookup.chosen
        /\ j.cut = lookup.cut /\ j.dropped = lookup.dropped
    BY HandOverFrame, ShowFrame DEF HInv, LTInv
  <1>2. \A s : Of(lookup, s) /\ Attended(lookup, s) => Attended(j, s)
    BY <1>1 DEF Attended, Agreed
  <1> QED
    BY <1>1, <1>2 DEF HInv, Heeds, Of

LEMMA PrintHeeded ==
  ASSUME HInv, PrintList, NEW j, j = lookup'
  PROVE  Heeds(j)
  <1>1. /\ lookup.pc = "parse" /\ lookup.candidates = {} /\ lookup.selector = Nothing
        /\ j.pc = "idle" /\ j.outcome = "listed" /\ j.listed = Known \cap j.wanted
        /\ j.cut = lookup.cut /\ j.dropped = lookup.dropped
    BY PrintFrame DEF HInv, LTInv
  <1>2. ASSUME ~j.cut, ~j.dropped, NEW s \in present
        PROVE  Attended(j, s)
    <2>1. s \in Session /\ InCatalog(lookup, s)
      BY <1>1, <1>2 DEF HInv, LTInv, Heeds, Attended, Of
    <2>2. s \in Known
      BY <1>1, <2>1 DEF InCatalog, Known
    <2> QED
      BY <1>1, <2>2 DEF Attended
  <1> QED
    BY <1>2 DEF Heeds

LEMMA InterruptHeeded ==
  ASSUME Interrupt, NEW j, j = lookup'
  PROVE  Heeds(j)
  <1>1. j.pc = "idle" /\ j.outcome = "interrupted"
    BY InterruptFrame
  <1> QED
    BY <1>1 DEF Heeds, Attended

LEMMA LookupWorkHeeded ==
  ASSUME NoSharedPath, HInv, LTInv', LookupWork, UNCHANGED filesVars
  PROVE  HInv'
  <1>1. PICK j : j = lookup'
    OBVIOUS
  <1>2. Heeds(j)
    BY <1>1, DiscoverHeeded, ParseCandidateHeeded, ResolveHeeded, LeaveHeeded,
       PrintHeeded, InterruptHeeded DEF LookupWork
  <1> QED
    BY <1>1, <1>2, FrameHeeded DEF LookupWork

LEMMA BeginHeeded ==
  ASSUME LTInv', BeginLookup, UNCHANGED filesVars
  PROVE  HInv'
  <1>1. PICK j : j = lookup'
    OBVIOUS
  <1>2. j.pc = "listActive"
    BY <1>1, BeginFrame
  <1>3. \A s : Attended(lookup, s)'
    BY <1>1, <1>2 DEF Attended
  <1>4. (present \subseteq Readable)'
    BY DEF BeginLookup, Readable, Parses, ParsedID, Exists, filesVars
  <1> QED
    BY <1>3, <1>4 DEF HInv, Heeds

LEMMA CodexHeeded ==
  ASSUME ~MoveBack, HInv, LTInv', Codex, LookupDisturbed
  PROVE  HInv'
  <1>1. TInv /\ TInv' /\ Grows /\ NoneComesBack
    BY FilesStep DEF HInv, LTInv, TInv, Codex
  <1>2. present' = present \cap Readable' /\ UNCHANGED lookup
    BY DEF LookupDisturbed
  <1>3. ASSUME NEW s \in present', Attended(lookup, s)
        PROVE  Attended(lookup, s)'
    <2>1. s \in Readable /\ s \in Session
      BY <1>2 DEF HInv, LTInv
    <2>2. ActiveListed(lookup, s) => ActiveListed(lookup, s)'
      <3>1. PICK q \in Path : Exists(q) /\ fs[q].sid = s
        BY <1>1, <2>1, PresentIsSomewhere
      <3>2. ASSUME ActiveListed(lookup, s), NEW p \in Path \ Archived, Exists(p)',
                   fs'[p].sid = s
            PROVE  p \in lookup.candidates
        BY <1>1, <3>1, <3>2 DEF NoneComesBack, ActiveListed
      <3> QED
        BY <1>2, <3>2 DEF ActiveListed
    <2>3. InCatalog(lookup, s) => InCatalog(lookup, s)'
      <3>1. ASSUME NEW p, Good(p, s)
            PROVE  Good(p, s)'
        BY <1>1, <2>1, <3>1, GoodLasts
      <3> QED
        BY <1>2, <3>1 DEF InCatalog
    <2> QED
      BY <1>2, <1>3, <2>2, <2>3 DEF Attended, Agreed
  <1>4. Heeds(lookup)'
    BY <1>2, <1>3 DEF HInv, Heeds, Of
  <1> QED
    BY <1>2, <1>4 DEF HInv

LEMMA StepHeeded ==
  ASSUME NoSharedPath, ~MoveBack, HInv, [CommandsNext]_commandsVars
  PROVE  HInv'
  <1>1. LTInv'
    BY LookupStepTyped DEF HInv
  <1>2. PICK j : j = lookup'
    OBVIOUS
  <1>3. CASE Exit
    <2>1. present' = {}
      BY <1>3 DEF Exit
    <2> QED
      BY <1>1, <2>1 DEF HInv, Heeds
  <1>4. CASE UNCHANGED <<filesVars, lookupVars>>
    <2>1. j = lookup /\ UNCHANGED filesVars /\ UNCHANGED present
      BY <1>2, <1>4 DEF lookupVars
    <2>2. Heeds(j)
      BY <2>1 DEF HInv
    <2> QED
      BY <1>1, <1>2, <2>1, <2>2, FrameHeeded
  <1> QED
    BY <1>1, <1>3, <1>4, ByTheLookup, BeginHeeded, LookupWorkHeeded, CodexHeeded

(***************************************************************************)
(* Codex may write, archive and delete between any two reads of a lookup:  *)
(* a session that has been readable ever since it began is not "not        *)
(* found", no other is taken for it, and list lists it, unless a directory *)
(* vanished under the walk or what was found could not be parsed           *)
(* (catalog.go:75 and 85).  As in live search, what is at a path must      *)
(* always be one session's, and nothing comes back from the archive.       *)
(***************************************************************************)
THEOREM LookupIsHeedful ==
  ASSUME NoSharedPath, ~MoveBack
  PROVE  CommandsSpec => []LookupHeedsPresent
  <1>1. CommandsInit => HInv
    <2> SUFFICES ASSUME CommandsInit PROVE HInv
      OBVIOUS
    <2>1. present = {}
      BY DEF CommandsInit, LookupInit
    <2> QED
      BY <2>1, LookupInitTyped DEF HInv, Heeds
  <1>2. HInv /\ [CommandsNext]_commandsVars => HInv'
    BY StepHeeded
  <1>3. HInv => LookupHeedsPresent
    BY HeedsPresent
  <1> QED
    BY <1>1, <1>2, <1>3, PTL DEF CommandsSpec

-----------------------------------------------------------------------------
(* While nothing changes, a lookup is exact, whatever the paths may hold.   *)

CopyOf(p, s) == p \in Path /\ Parses(p) /\ ParsedID(p) = s

\* Of the sessions the lookup is about, the catalog has those that can be read.
CatalogExact(l) ==
    /\ \A s \in Session : l.byId[s] # Nothing => CopyOf(l.byId[s], s)
    /\ \A s \in Readable : Of(l, s) =>
         l.byId[s] # Nothing \/ \E p \in l.candidates : CopyOf(p, s)

\* What is answered is what a lookup over all sessions would answer.
Decided(l) ==
    IF l.selector = Nothing THEN l.listed = Readable \cap l.wanted ELSE
    /\ l.outcome = "not found" <=> Meant(l.selector, Readable) = {}
    /\ l.outcome = "ambiguous" <=> Cardinality(Meant(l.selector, Readable)) > 1
    /\ l.outcome \in {"handed over", "shown"} => Meant(l.selector, Readable) = {l.chosen}
    /\ l.outcome # "unreadable"

Quiet(l) ==
    /\ l.pc \in {"listActive", "listArchived"} => \A s \in Session : l.byId[s] = Nothing
    /\ l.pc = "listArchived" => \A s \in Session : Of(l, s) => ActiveListed(l, s)
    /\ l.pc = "parse" => CatalogExact(l)
    /\ l.pc = "resolved" =>
         /\ l.selector # Nothing /\ Meant(l.selector, Readable) = {l.chosen}
         /\ Exists(l.byId[l.chosen])
    /\ l.pc = "idle" /\ l.outcome \notin {"none", "interrupted"} => Decided(l)

QInv == LTInv /\ (undisturbed /\ ~lookup.cut => Quiet(lookup))

LEMMA QuietIsExact ==
  ASSUME QInv
  PROVE  QuietLookupExact
  BY DEF QInv, Quiet, Decided, QuietLookupExact

\* The lookup's own steps leave the files alone.
LEMMA FrameQuiet ==
  ASSUME LTInv', UNCHANGED filesVars, NEW j, j = lookup',
         undisturbed' /\ ~j.cut => Quiet(j)
  PROVE  QInv'
  <1>1. PICK readable : readable = Readable
    OBVIOUS
  <1>2. Readable' = readable
    BY <1>1 DEF Readable, Parses, ParsedID, Exists, filesVars
  <1>3. \A p : Exists(p)' <=> Exists(p)
    BY DEF Exists, filesVars
  <1>4. \A p, s : CopyOf(p, s)' <=> CopyOf(p, s)
    BY DEF CopyOf, Parses, ParsedID, Exists, filesVars
  <1>5. CatalogExact(lookup)' <=> CatalogExact(j)
    BY <1>1, <1>2, <1>4 DEF CatalogExact, Of
  <1>6. Decided(lookup)' <=> Decided(j)
    BY <1>1, <1>2 DEF Decided, Meant
  <1>7. \A s : ActiveListed(lookup, s)' <=> ActiveListed(j, s)
    BY DEF ActiveListed, Exists, filesVars
  <1>8. Quiet(lookup)' <=> Quiet(j)
    BY <1>1, <1>2, <1>3, <1>5, <1>6, <1>7 DEF Quiet, Of, Meant
  <1> QED
    BY <1>8 DEF QInv

LEMMA DiscoverQuiet ==
  ASSUME QInv, undisturbed, Discover, NEW j, j = lookup', ~j.cut
  PROVE  Quiet(j)
  <1>1. TInv /\ FilesInv /\ Proper(lookup)
    BY DEF QInv, LTInv, TInv
  <1>2. CASE List("listActive", Path \ Archived, "listArchived")
    <2>1. PICK listed \in Listings(Path \ Archived) :
            /\ lookup.pc = "listActive" /\ Onward(j) /\ j.pc = "listArchived"
            /\ j.candidates = lookup.candidates \cup {p \in listed : Candidate(p)}
            /\ j.cut = (lookup.cut \/ listed # Complete(Path \ Archived))
            /\ j.byId = lookup.byId
      BY <1>1, <1>2, ListFrame, ActiveAndArchive
    <2>2. listed = Complete(Path \ Archived) /\ ~lookup.cut
      BY <2>1
    <2>3. ASSUME NEW s \in Session, Of(j, s), NEW p \in Path \ Archived,
                 Exists(p), fs[p].sid = s
          PROVE  p \in j.candidates
      <3>1. Of(lookup, s)
        BY <2>1, <2>3 DEF Of, Onward
      <3>2. Candidate(p)
        BY <1>1, <2>3, <3>1, OwnCandidate
      <3> QED
        BY <2>1, <2>2, <2>3, <3>2 DEF Complete
    <2>4. \A s \in Session : j.byId[s] = Nothing
      BY <2>1, <2>2 DEF QInv, Quiet
    <2> QED
      BY <2>1, <2>3, <2>4 DEF Quiet, ActiveListed
  <1>3. CASE List("listArchived", Archived, "parse")
    <2>1. PICK listed \in Listings(Archived) :
            /\ lookup.pc = "listArchived" /\ Onward(j) /\ j.pc = "parse"
            /\ j.candidates = lookup.candidates \cup {p \in listed : Candidate(p)}
            /\ j.cut = (lookup.cut \/ listed # Complete(Archived))
            /\ j.byId = lookup.byId
      BY <1>1, <1>3, ListFrame, ActiveAndArchive
    <2>2. listed = Complete(Archived) /\ ~lookup.cut
      BY <2>1
    <2>3. ASSUME NEW s \in Readable, Of(j, s)
          PROVE  \E p \in j.candidates : CopyOf(p, s)
      <3>1. s \in Session /\ Of(lookup, s)
        BY <2>1, <2>3 DEF Of, Onward, Readable
      <3>2. ActiveListed(lookup, s)
        BY <2>1, <2>2, <3>1 DEF QInv, Quiet
      <3>3. PICK p \in Path : Exists(p) /\ fs[p].sid = s /\ Parses(p)
        BY <1>1, PresentIsSomewhere
      <3>4. Candidate(p)
        BY <1>1, <3>1, <3>3, OwnCandidate
      <3>5. p \in j.candidates
        BY <2>1, <2>2, <3>2, <3>3, <3>4 DEF ActiveListed, Complete
      <3> QED
        BY <3>3, <3>5 DEF CopyOf, ParsedID
    <2>4. \A s \in Session : j.byId[s] = Nothing
      BY <2>1, <2>2 DEF QInv, Quiet
    <2> QED
      BY <2>1, <2>3, <2>4 DEF Quiet, CatalogExact
  <1> QED
    BY <1>2, <1>3 DEF Discover

LEMMA ParseCandidateQuiet ==
  ASSUME QInv, undisturbed, ParseCandidate, NEW j, j = lookup', ~j.cut
  PROVE  Quiet(j)
  <1>1. FilesTypeOK /\ Proper(lookup)
    BY DEF QInv, LTInv, TInv
  <1>2. PICK p \in lookup.candidates :
          /\ p \in Path /\ lookup.pc = "parse" /\ Onward(j) /\ j.pc = "parse"
          /\ j.candidates = lookup.candidates \ {p} /\ j.cut = lookup.cut
          /\ \/ ~Parses(p) /\ j.byId = lookup.byId
             \/ /\ Parses(p)
                /\ \A s \in Session : s # ParsedID(p) => j.byId[s] = lookup.byId[s]
                /\ j.byId[ParsedID(p)] \in {p, lookup.byId[ParsedID(p)]} \ {Nothing}
    BY <1>1, ParseCandidateFrame
  <1>3. CatalogExact(lookup)
    BY <1>2 DEF QInv, Quiet
  <1>4. ASSUME NEW s \in Session, j.byId[s] # Nothing
        PROVE  CopyOf(j.byId[s], s)
    BY <1>2, <1>3, <1>4 DEF CatalogExact, CopyOf
  <1>5. ASSUME NEW s \in Readable, Of(j, s)
        PROVE  j.byId[s] # Nothing \/ \E q \in j.candidates : CopyOf(q, s)
    <2>1. s \in Session /\ Of(lookup, s)
      BY <1>2, <1>5 DEF Of, Onward, Readable
    <2>2. lookup.byId[s] # Nothing \/ \E q \in lookup.candidates : CopyOf(q, s)
      BY <1>3, <2>1, <1>5 DEF CatalogExact
    <2>3. CopyOf(p, s) => j.byId[s] # Nothing
      BY <1>2 DEF CopyOf
    <2>4. lookup.byId[s] # Nothing => j.byId[s] # Nothing
      BY <1>2, <2>1
    <2> QED
      BY <1>2, <2>2, <2>3, <2>4
  <1> QED
    BY <1>2, <1>4, <1>5 DEF Quiet, CatalogExact

\* When all candidates are parsed, the catalog is as good as all sessions.
LEMMA KnownIsReadable ==
  ASSUME CatalogExact(lookup), lookup.candidates = {}
  PROVE  /\ Known \subseteq Readable
         /\ \A s \in Readable : Of(lookup, s) => s \in Known
         /\ lookup.selector # Nothing => Selected = Meant(lookup.selector, Readable)
  <1>1. Known \subseteq Readable
    BY DEF CatalogExact, Known, CopyOf, Readable
  <1>2. \A s \in Readable : Of(lookup, s) => s \in Known
    BY DEF CatalogExact, Known, Readable
  <1>3. ASSUME lookup.selector # Nothing
        PROVE  Selected = Meant(lookup.selector, Readable)
    <2>1. \A s \in Readable :
            FullID[s] = lookup.selector \/ lookup.selector \in Prefixes[s] => s \in Known
      BY <1>2, SelectorAssumption DEF Of, Readable
    <2>2. Exact = {s \in Readable : FullID[s] = lookup.selector}
      BY <1>1, <2>1 DEF Exact
    <2>3. {s \in Known : lookup.selector \in Prefixes[s]}
            = {s \in Readable : lookup.selector \in Prefixes[s]}
      BY <1>1, <2>1
    <2> QED
      BY <2>2, <2>3 DEF Selected, Meant
  <1> QED
    BY <1>1, <1>2, <1>3

LEMMA ResolveQuiet ==
  ASSUME QInv, undisturbed, Resolve, NEW j, j = lookup', ~j.cut
  PROVE  Quiet(j)
  <1>1. Proper(lookup)
    BY DEF QInv, LTInv
  <1>2. /\ lookup.pc = "parse" /\ lookup.candidates = {}
        /\ lookup.selector # Nothing /\ j.selector = lookup.selector /\ j.cut = lookup.cut
        /\ \/ Selected = {} /\ j.pc = "idle" /\ j.outcome = "not found"
           \/ Cardinality(Selected) > 1 /\ j.pc = "idle" /\ j.outcome = "ambiguous"
           \/ /\ j.pc = "resolved" /\ j.chosen \in Known /\ Selected = {j.chosen}
              /\ j.byId = lookup.byId
    BY <1>1, ResolveFrame
  <1>3. CatalogExact(lookup)
    BY <1>2 DEF QInv, Quiet
  <1>4. Selected = Meant(j.selector, Readable)
    BY <1>2, <1>3, KnownIsReadable
  <1>5. CASE Selected = {} /\ j.pc = "idle" /\ j.outcome = "not found"
    <2>1. Cardinality(Meant(j.selector, Readable)) = 0
      BY <1>4, <1>5, FS_EmptySet
    <2>2. ~(Cardinality(Meant(j.selector, Readable)) > 1)
      BY <2>1
    <2>3. Decided(j)
      BY <1>2, <1>4, <1>5, <2>2 DEF Decided
    <2> QED
      BY <1>5, <2>3 DEF Quiet
  <1>6. CASE Cardinality(Selected) > 1 /\ j.pc = "idle" /\ j.outcome = "ambiguous"
    <2>1. Meant(j.selector, Readable) # {}
      BY <1>4, <1>6, FS_EmptySet
    <2>2. Decided(j)
      BY <1>2, <1>4, <1>6, <2>1 DEF Decided
    <2> QED
      BY <1>6, <2>2 DEF Quiet
  <1>7. CASE /\ j.pc = "resolved" /\ j.chosen \in Known /\ Selected = {j.chosen}
             /\ j.byId = lookup.byId
    <2>1. Exists(j.byId[j.chosen])
      BY <1>3, <1>7 DEF CatalogExact, Known, CopyOf, Parses
    <2> QED
      BY <1>2, <1>4, <1>7, <2>1 DEF Quiet
  <1> QED
    BY <1>2, <1>5, <1>6, <1>7

LEMMA LeaveQuiet ==
  ASSUME QInv, undisturbed, HandOver \/ Show, NEW j, j = lookup', ~j.cut
  PROVE  Quiet(j)
  <1>1. /\ lookup.pc = "resolved" /\ j.pc = "idle"
        /\ \/ j.outcome \in {"handed over", "shown"}
           \/ ~Exists(lookup.byId[lookup.chosen]) /\ j.outcome = "unreadable"
        /\ j.selector = lookup.selector /\ j.chosen = lookup.chosen
        /\ j.cut = lookup.cut
    BY HandOverFrame, ShowFrame DEF QInv, LTInv
  <1>2. /\ j.selector # Nothing /\ Meant(j.selector, Readable) = {j.chosen}
        /\ Exists(lookup.byId[lookup.chosen])
    BY <1>1 DEF QInv, Quiet
  <1>3. ~(Cardinality(Meant(j.selector, Readable)) > 1)
    <2>1. Cardinality(Meant(j.selector, Readable)) = 1
      BY <1>2, FS_Singleton
    <2> QED
      BY <2>1
  <1>4. Decided(j)
    BY <1>1, <1>2, <1>3 DEF Decided
  <1> QED
    BY <1>1, <1>4 DEF Quiet

LEMMA PrintQuiet ==
  ASSUME QInv, undisturbed, PrintList, NEW j, j = lookup', ~j.cut
  PROVE  Quiet(j)
  <1>1. /\ lookup.pc = "parse" /\ lookup.candidates = {} /\ lookup.selector = Nothing
        /\ j.pc = "idle" /\ j.outcome = "listed" /\ j.selector = Nothing
        /\ j.listed = Known \cap j.wanted /\ j.cut = lookup.cut
    BY PrintFrame DEF QInv, LTInv
  <1>2. CatalogExact(lookup)
    BY <1>1 DEF QInv, Quiet
  <1>3. Known = Readable
    BY <1>1, <1>2, KnownIsReadable DEF Of
  <1>4. Decided(j)
    BY <1>1, <1>3 DEF Decided
  <1> QED
    BY <1>1, <1>4 DEF Quiet

LEMMA LookupWorkQuiet ==
  ASSUME QInv, LTInv', LookupWork, UNCHANGED filesVars
  PROVE  QInv'
  <1>1. PICK j : j = lookup'
    OBVIOUS
  <1>2. ASSUME undisturbed, ~j.cut
        PROVE  Quiet(j)
    <2>1. CASE Interrupt
      <3>1. j.pc = "idle" /\ j.outcome = "interrupted"
        BY <1>1, <2>1, InterruptFrame
      <3> QED
        BY <3>1 DEF Quiet
    <2> QED
      BY <1>1, <1>2, <2>1, DiscoverQuiet, ParseCandidateQuiet, ResolveQuiet, LeaveQuiet,
         PrintQuiet DEF LookupWork
  <1>3. undisturbed' = undisturbed
    BY DEF LookupWork
  <1> QED
    BY <1>1, <1>2, <1>3, FrameQuiet

LEMMA StepQuiet ==
  ASSUME QInv, [CommandsNext]_commandsVars
  PROVE  QInv'
  <1>1. LTInv'
    BY LookupStepTyped DEF QInv
  <1>2. PICK j : j = lookup'
    OBVIOUS
  <1>3. CASE BeginLookup /\ UNCHANGED filesVars
    <2>1. j.pc = "listActive" /\ \A s \in Session : j.byId[s] = Nothing
      BY <1>2, <1>3, BeginFrame
    <2>2. Quiet(j)
      BY <2>1 DEF Quiet
    <2> QED
      BY <1>1, <1>2, <1>3, <2>2, FrameQuiet
  <1>4. CASE Exit \/ LookupDisturbed
    <2>1. undisturbed' = FALSE
      BY <1>4 DEF Exit, LookupDisturbed
    <2> QED
      BY <1>1, <2>1 DEF QInv
  <1>5. CASE UNCHANGED <<filesVars, lookupVars>>
    <2>1. j = lookup /\ UNCHANGED filesVars /\ UNCHANGED undisturbed
      BY <1>2, <1>5 DEF lookupVars
    <2>2. undisturbed /\ ~j.cut => Quiet(j)
      BY <2>1 DEF QInv
    <2> QED
      BY <1>1, <1>2, <2>1, <2>2, FrameQuiet
  <1> QED
    BY <1>1, <1>3, <1>4, <1>5, ByTheLookup, LookupWorkQuiet

(***************************************************************************)
(* "Resolve returns the session for a full ID or unique ID prefix"         *)
(* (catalog.go:75): on files that do not change a lookup, though it parses *)
(* only the files whose names do not rule them out, answers as one over    *)
(* every readable rollout would, and list lists them all.                  *)
(***************************************************************************)
THEOREM QuietLookupIsExact == CommandsSpec => []QuietLookupExact
  <1>1. CommandsInit => QInv
    <2> SUFFICES ASSUME CommandsInit PROVE QInv
      OBVIOUS
    <2>1. undisturbed = FALSE
      BY DEF CommandsInit, LookupInit
    <2> QED
      BY <2>1, LookupInitTyped DEF QInv
  <1>2. QInv /\ [CommandsNext]_commandsVars => QInv'
    BY StepQuiet
  <1>3. QInv => QuietLookupExact
    BY QuietIsExact
  <1> QED
    BY <1>1, <1>2, <1>3, PTL DEF CommandsSpec
-----------------------------------------------------------------------------
(* Folds over the places of a sequence: they exist, and turn by turn. *)

\* g is the function that a fold over the places 1..n is computed with, where one turn
\* is a function on A \X X.
FoldsBy(step, base, seq, n, g) ==
    \A s \in SUBSET (1..n) :
        g[s] = IF s = {} THEN base
               ELSE step[<<g[s \ {Seqs!Max(s)}], seq[Seqs!Max(s)]>>]

HasFold(A, step, base, seq, n) ==
    \E g \in [SUBSET (1..n) -> A] : FoldsBy(step, base, seq, n, g)

LEMMA FoldExtends ==
  ASSUME NEW A, NEW X, NEW base \in A, NEW step \in [A \X X -> A], NEW m \in Nat,
         NEW seq, \A k \in 1..m + 1 : seq[k] \in X,
         HasFold(A, step, base, seq, m)
  PROVE  HasFold(A, step, base, seq, m + 1)
  <1> PICK g \in [SUBSET (1..m) -> A] : FoldsBy(step, base, seq, m, g)
    BY DEF HasFold
  <1>1. PICK h : h = [s \in SUBSET (1..m + 1) |->
                        IF m + 1 \in s THEN step[<<g[s \ {m + 1}], seq[m + 1]>>] ELSE g[s]]
    OBVIOUS
  <1>2. \A s \in SUBSET (1..m) : s \in SUBSET (1..m + 1) /\ m + 1 \notin s
    OBVIOUS
  <1>3. \A s \in SUBSET (1..m) : h[s] = g[s]
    BY <1>1, <1>2
  <1>4. \A s \in SUBSET (1..m + 1) : s \ {m + 1} \in SUBSET (1..m)
    OBVIOUS
  <1>5. \A s \in SUBSET (1..m + 1) : m + 1 \notin s => s \in SUBSET (1..m)
    OBVIOUS
  <1>6. h \in [SUBSET (1..m + 1) -> A]
    <2>1. seq[m + 1] \in X
      OBVIOUS
    <2>2. \A s \in SUBSET (1..m + 1) :
            (IF m + 1 \in s THEN step[<<g[s \ {m + 1}], seq[m + 1]>>] ELSE g[s]) \in A
      BY <1>4, <1>5, <2>1
    <2> QED
      BY <1>1, <2>2
  <1>7. ASSUME NEW s \in SUBSET (1..m + 1)
        PROVE  h[s] = IF s = {} THEN base
                      ELSE step[<<h[s \ {Seqs!Max(s)}], seq[Seqs!Max(s)]>>]
    <2>1. CASE m + 1 \in s
      <3>1. Seqs!Max(s) = m + 1 /\ s # {}
        BY <2>1, LastPlace
      <3>2. h[s] = step[<<g[s \ {m + 1}], seq[m + 1]>>]
        BY <1>1, <2>1
      <3> QED
        BY <1>3, <1>4, <3>1, <3>2
    <2>2. CASE m + 1 \notin s
      <3>1. s \in SUBSET (1..m)
        BY <2>2
      <3>2. h[s] = g[s]
        BY <1>3, <3>1
      <3>3. g[s] = IF s = {} THEN base
                   ELSE step[<<g[s \ {Seqs!Max(s)}], seq[Seqs!Max(s)]>>]
        BY <3>1 DEF FoldsBy
      <3>4. s \ {Seqs!Max(s)} \in SUBSET (1..m)
        BY <3>1
      <3> QED
        BY <1>3, <3>2, <3>3, <3>4
    <2> QED
      BY <2>1, <2>2
  <1> QED
    BY <1>6, <1>7 DEF FoldsBy, HasFold

LEMMA FoldExists ==
  ASSUME NEW A, NEW X, NEW base \in A, NEW step \in [A \X X -> A], NEW n \in Nat,
         NEW seq, \A k \in 1..n : seq[k] \in X
  PROVE  HasFold(A, step, base, seq, n)
  <1>1. PICK T : T = {m \in Nat : m <= n => HasFold(A, step, base, seq, m)}
    OBVIOUS
  <1>2. 0 \in T
    <2>1. PICK D : D = 1..0 /\ D = {}
      <3>1. 1..0 = {}
        OBVIOUS
      <3> QED
        BY <3>1
    <2>2. PICK g : g = [s \in SUBSET D |-> base]
      OBVIOUS
    <2>3. \A s \in SUBSET D : s = {}
      BY <2>1
    <2>4. g \in [SUBSET D -> A]
      BY <2>2
    <2>5. FoldsBy(step, base, seq, 0, g)
      BY <2>1, <2>2, <2>3 DEF FoldsBy
    <2>6. HasFold(A, step, base, seq, 0)
      BY <2>1, <2>4, <2>5 DEF HasFold
    <2> QED
      BY <1>1, <2>6
  <1>3. ASSUME NEW m \in Nat, m \in T
        PROVE  m + 1 \in T
    <2>1. SUFFICES ASSUME m + 1 <= n PROVE HasFold(A, step, base, seq, m + 1)
      BY <1>1
    <2>2. m <= n /\ \A k \in 1..m + 1 : seq[k] \in X
      BY <2>1
    <2>3. HasFold(A, step, base, seq, m)
      BY <1>1, <1>3, <2>2
    <2> QED
      BY <2>2, <2>3, FoldExtends
  <1>4. n \in T
    BY <1>2, <1>3, SetInduction
  <1>5. n <= n
    OBVIOUS
  <1> QED
    BY <1>1, <1>4, <1>5

LEMMA LastIsThere ==
  ASSUME NEW n \in Nat, NEW s \in SUBSET (1..n), s # {}
  PROVE  Seqs!Max(s) \in s
  <1>1. PICK T : T = {m \in Nat : \A u \in SUBSET (1..m) : u # {} => Seqs!Max(u) \in u}
    OBVIOUS
  <1>2. 0 \in T
    <2>1. 1..0 = {}
      OBVIOUS
    <2> QED
      BY <1>1, <2>1
  <1>3. ASSUME NEW m \in Nat, m \in T
        PROVE  m + 1 \in T
    <2>1. ASSUME NEW u \in SUBSET (1..m + 1), u # {}
          PROVE  Seqs!Max(u) \in u
      <3>1. CASE m + 1 \in u
        BY <3>1, LastPlace
      <3>2. CASE m + 1 \notin u
        <4>1. u \in SUBSET (1..m)
          BY <3>2
        <4> QED
          BY <1>1, <1>3, <2>1, <4>1
      <3> QED
        BY <3>1, <3>2
    <2> QED
      BY <1>1, <2>1
  <1>4. n \in T
    BY <1>2, <1>3, SetInduction
  <1> QED
    BY <1>1, <1>4

\* What one turn keeps, all the turns keep.
LEMMA FoldTyped ==
  ASSUME NEW A, NEW n \in Nat, NEW g, g[{}] \in A,
         \A s \in SUBSET (1..n) : s # {} /\ g[s \ {Seqs!Max(s)}] \in A => g[s] \in A
  PROVE  \A s \in SUBSET (1..n) : g[s] \in A
  <1>1. PICK T : T = {m \in Nat : m <= n => \A s \in SUBSET (1..m) : g[s] \in A}
    OBVIOUS
  <1>2. 0 \in T
    <2>1. 1..0 = {}
      OBVIOUS
    <2>2. PICK D : D = 1..0 /\ D = {}
      BY <2>1
    <2>3. \A s \in SUBSET D : s = {}
      BY <2>2
    <2>4. \A s \in SUBSET D : g[s] \in A
      BY <2>3
    <2> QED
      BY <1>1, <2>2, <2>4
  <1>3. ASSUME NEW m \in Nat, m \in T
        PROVE  m + 1 \in T
    <2>1. ASSUME m + 1 <= n, NEW s \in SUBSET (1..m + 1)
          PROVE  g[s] \in A
      <3>1. \A u \in SUBSET (1..m) : g[u] \in A
        BY <1>1, <1>3, <2>1
      <3>2. CASE m + 1 \notin s
        <4>1. s \in SUBSET (1..m)
          BY <3>2
        <4> QED
          BY <3>1, <4>1
      <3>3. CASE m + 1 \in s
        <4>1. Seqs!Max(s) = m + 1
          BY <3>3, LastPlace
        <4>2. s \ {m + 1} \in SUBSET (1..m) /\ s \in SUBSET (1..n) /\ s # {}
          BY <2>1, <3>3
        <4> QED
          BY <3>1, <4>1, <4>2
      <3> QED
        BY <3>2, <3>3
    <2> QED
      BY <1>1, <2>1
  <1>4. n \in T
    BY <1>2, <1>3, SetInduction
  <1>5. n <= n
    OBVIOUS
  <1> QED
    BY <1>1, <1>4, <1>5

\* h[m] is what m turns have made, and no turn leaves A.
Turns(A, step, base, seq, n, h) ==
    /\ h[0] = base
    /\ \A m \in 0..n : h[m] \in A
    /\ \A m \in 0..n - 1 : h[m + 1] = step[<<h[m], seq[m + 1]>>]

TypedFold(A, step, base, seq, n, g) ==
    FoldsBy(step, base, seq, n, g) /\ \A s \in SUBSET (1..n) : g[s] \in A

LEMMA FoldTurns ==
  ASSUME NEW A, NEW step, NEW base, NEW n \in Nat, NEW seq,
         NEW g, TypedFold(A, step, base, seq, n, g)
  PROVE  \E h : Turns(A, step, base, seq, n, h) /\ h[n] = g[1..n]
  <1>1. PICK h : h = [m \in 0..n |-> g[1..m]]
    OBVIOUS
  <1>2. \A m \in 0..n : h[m] = g[1..m] /\ 1..m \in SUBSET (1..n)
    BY <1>1
  <1>3. h[0] = base
    <2>1. 1..0 = {} /\ 0 \in 0..n /\ {} \in SUBSET (1..n)
      OBVIOUS
    <2> QED
      BY <1>2, <2>1 DEF TypedFold, FoldsBy
  <1>4. ASSUME NEW m \in 0..n - 1
        PROVE  h[m + 1] = step[<<h[m], seq[m + 1]>>]
    <2>1. PICK s : s = 1..m + 1
      OBVIOUS
    <2>2. m \in Nat /\ m + 1 \in Nat /\ m \in 0..n /\ m + 1 \in 0..n /\ m + 1 <= n
      OBVIOUS
    <2>3. m + 1 \in s /\ s \in SUBSET (1..n)
      BY <2>1, <2>2
    <2>4. Seqs!Max(s) = m + 1
      BY <2>1, <2>2, <2>3, LastPlace
    <2>5. s \ {m + 1} = 1..m
      BY <2>1, <2>2
    <2>6. g[s] = step[<<g[s \ {m + 1}], seq[m + 1]>>]
      BY <2>3, <2>4 DEF TypedFold, FoldsBy
    <2> QED
      BY <1>2, <2>1, <2>2, <2>5, <2>6
  <1>5. \A m \in 0..n : h[m] \in A
    BY <1>2 DEF TypedFold
  <1>6. n \in 0..n
    OBVIOUS
  <1> QED
    BY <1>2, <1>3, <1>4, <1>5, <1>6 DEF Turns

-----------------------------------------------------------------------------
(* White space. *)

\* (The provers do not know that "space" is a string.)
Symbols == STRING \cup {"space"}

Texts == Seq(Symbols)

Spelled == [text : Texts, gap : BOOLEAN]

Unwritten == [text |-> <<>>, gap |-> FALSE]

LEMMA FieldType ==
  ASSUME NEW seen \in Spelled, NEW c \in Symbols
  PROVE  Field(seen, c) \in Spelled
  <1>1. CASE c \in White
    <2>1. PICK gap \in BOOLEAN : gap = (seen.text # <<>>)
      OBVIOUS
    <2>2. Field(seen, c) = [seen EXCEPT !.gap = gap]
      BY <1>1, <2>1 DEF Field
    <2> QED
      BY <2>2 DEF Spelled
  <1>2. CASE c \notin White
    <2>1. PICK t : t = IF seen.gap THEN Append(seen.text, "space") ELSE seen.text
      OBVIOUS
    <2>2. seen.text \in Texts
      BY DEF Spelled
    <2>3. t \in Texts
      <3>1. Append(seen.text, "space") \in Texts
        BY <2>2, AppendProperties DEF Texts, Symbols
      <3> QED
        BY <2>1, <2>2, <3>1
    <2>4. Append(t, c) \in Texts
      BY <2>3, AppendProperties DEF Texts
    <2>5. Field(seen, c) = [text |-> Append(t, c), gap |-> FALSE]
      BY <1>2, <2>1 DEF Field
    <2> QED
      BY <2>4, <2>5 DEF Spelled
  <1> QED
    BY <1>1, <1>2

Spell == [p \in Spelled \X Symbols |-> Field(p[1], p[2])]

LEMMA SpellType ==
  Spell \in [Spelled \X Symbols -> Spelled] /\ Unwritten \in Spelled
  <1>1. Unwritten \in Spelled
    BY DEF Unwritten, Spelled, Texts
  <1> QED
    BY <1>1, FieldType DEF Spell

\* The function that NormalizeWhitespace computes with.
Fields(g, text, D) ==
    g = [s \in SUBSET D |->
           IF s = {} THEN Unwritten ELSE Field(g[s \ {Seqs!Max(s)}], text[Seqs!Max(s)])]

LEMMA FieldsExist ==
  ASSUME NEW n \in Nat, NEW text, \A k \in 1..n : text[k] \in Symbols
  PROVE  \E g : Fields(g, text, 1..n)
  <1>1. PICK g \in [SUBSET (1..n) -> Spelled] : FoldsBy(Spell, Unwritten, text, n, g)
    <2>1. HasFold(Spelled, Spell, Unwritten, text, n)
      BY SpellType, FoldExists
    <2> QED
      BY <2>1 DEF HasFold
  <1>2. ASSUME NEW s \in SUBSET (1..n)
        PROVE  g[s] = IF s = {} THEN Unwritten
                      ELSE Field(g[s \ {Seqs!Max(s)}], text[Seqs!Max(s)])
    <2>1. CASE s = {}
      BY <1>1, <2>1 DEF FoldsBy
    <2>2. CASE s # {}
      <3>1. Seqs!Max(s) \in 1..n
        BY <2>2, LastIsThere
      <3>2. text[Seqs!Max(s)] \in Symbols /\ g[s \ {Seqs!Max(s)}] \in Spelled
        BY <1>1, <3>1
      <3>3. g[s] = Spell[<<g[s \ {Seqs!Max(s)}], text[Seqs!Max(s)]>>]
        BY <1>1, <2>2 DEF FoldsBy
      <3> QED
        BY <2>2, <3>2, <3>3 DEF Spell
    <2> QED
      BY <2>1, <2>2
  <1>3. PICK f : f = [s \in SUBSET (1..n) |->
                        IF s = {} THEN Unwritten
                        ELSE Field(g[s \ {Seqs!Max(s)}], text[Seqs!Max(s)])]
    OBVIOUS
  <1>4. g = f
    BY <1>1, <1>2, <1>3
  <1> QED
    BY <1>3, <1>4 DEF Fields

\* h[m] is what has been written after m characters.
Spelling(h, text) ==
    /\ h[0] = Unwritten /\ h[Len(text)].text = NormalizeWhitespace(text)
    /\ \A m \in 0..Len(text) : h[m] \in Spelled
    /\ \A m \in 0..Len(text) - 1 : h[m + 1] = Field(h[m], text[m + 1])

LEMMA Spells ==
  ASSUME NEW text \in Texts
  PROVE  \E h : Spelling(h, text)
  <1>1. PICK n \in Nat : n = Len(text) /\ \A k \in 1..n : text[k] \in Symbols
    BY DEF Texts
  <1>2. PICK D : D = 1..n
    OBVIOUS
  <1>3. PICK g : Fields(g, text, D) /\ NormalizeWhitespace(text) = g[D].text
    <2>1. \E g : Fields(g, text, D)
      BY <1>1, <1>2, FieldsExist
    <2>2. DOMAIN text = D
      BY <1>1, <1>2 DEF Texts
    <2>3. NormalizeWhitespace(text) = (CHOOSE g : Fields(g, text, D))[D].text
      BY <2>2 DEF NormalizeWhitespace, Fields, Unwritten, Seqs!FoldLeft, Seqs!MapThenFoldSet
    <2> QED
      BY <2>1, <2>3
  <1>4. \A s \in SUBSET (1..n) :
          g[s] = IF s = {} THEN Unwritten ELSE Field(g[s \ {Seqs!Max(s)}], text[Seqs!Max(s)])
    BY <1>2, <1>3 DEF Fields
  <1>5. \A s \in SUBSET (1..n) : s # {} =>
          text[Seqs!Max(s)] \in Symbols /\ s \ {Seqs!Max(s)} \in SUBSET (1..n)
    <2>1. \A s \in SUBSET (1..n) : s # {} => Seqs!Max(s) \in s
      BY LastIsThere
    <2> QED
      BY <1>1, <2>1
  <1>6. \A s \in SUBSET (1..n) : g[s] \in Spelled
    <2>1. g[{}] \in Spelled
      BY <1>4, SpellType
    <2>2. \A s \in SUBSET (1..n) : s # {} /\ g[s \ {Seqs!Max(s)}] \in Spelled
                                    => g[s] \in Spelled
      BY <1>4, <1>5, FieldType
    <2> QED
      BY <2>1, <2>2, FoldTyped
  <1>7. TypedFold(Spelled, Spell, Unwritten, text, n, g)
    BY <1>4, <1>5, <1>6 DEF TypedFold, FoldsBy, Spell
  <1>8. PICK h : Turns(Spelled, Spell, Unwritten, text, n, h) /\ h[n] = g[1..n]
    BY <1>7, FoldTurns
  <1>9. \A m \in 0..n - 1 : h[m] \in Spelled /\ text[m + 1] \in Symbols
                              /\ h[m + 1] = Spell[<<h[m], text[m + 1]>>]
    BY <1>1, <1>8 DEF Turns
  <1>10. \A m \in 0..n - 1 : h[m + 1] = Field(h[m], text[m + 1])
    BY <1>9 DEF Spell
  <1> QED
    BY <1>1, <1>2, <1>3, <1>8, <1>10 DEF Spelling, Turns

LEMMA FirstIsThere ==
  ASSUME NEW s \in SUBSET Nat, s # {}
  PROVE  Seqs!Min(s) \in s /\ \A y \in s : Seqs!Min(s) <= y
  <1>1. PICK R : R = {pair \in Nat \X Nat : pair[1] < pair[2]}
    OBVIOUS
  <1>2. IsWellFoundedOn(R, Nat)
    BY <1>1, NatLessThanWellFounded DEF OpToRel
  <1>3. PICK x \in s : \A y \in s : ~(<<y, x>> \in R)
    BY <1>2, WFMin
  <1>4. \A y \in s : x <= y
    <2>1. SUFFICES ASSUME NEW y \in s, y < x PROVE FALSE
      <3>1. \A y \in s : y \in Nat /\ x \in Nat
        OBVIOUS
      <3> QED
        BY <3>1
    <2>2. <<y, x>> \in Nat \X Nat
      OBVIOUS
    <2> QED
      BY <1>1, <1>3, <2>1, <2>2
  <1> QED
    BY <1>3, <1>4 DEF Seqs!Min

LEMMA LastIsLast ==
  ASSUME NEW n \in Nat, NEW s \in SUBSET (1..n), s # {}
  PROVE  \A y \in s : y <= Seqs!Max(s)
  <1>1. PICK T : T = {m \in Nat : \A u \in SUBSET (1..m) : \A y \in u : y <= Seqs!Max(u)}
    OBVIOUS
  <1>2. 0 \in T
    <2>1. 1..0 = {}
      OBVIOUS
    <2> QED
      BY <1>1, <2>1
  <1>3. ASSUME NEW m \in Nat, m \in T
        PROVE  m + 1 \in T
    <2>1. ASSUME NEW u \in SUBSET (1..m + 1), NEW y \in u
          PROVE  y <= Seqs!Max(u)
      <3>1. CASE m + 1 \in u
        BY <3>1, LastPlace
      <3>2. CASE m + 1 \notin u
        <4>1. u \in SUBSET (1..m)
          BY <3>2
        <4> QED
          BY <1>1, <1>3, <4>1
      <3> QED
        BY <3>1, <3>2
    <2> QED
      BY <1>1, <2>1
  <1>4. n \in T
    BY <1>2, <1>3, SetInduction
  <1> QED
    BY <1>1, <1>4

\* What is trimmed begins with the first character that is not white, and ends with the
\* last.
LEMMA Trimmed ==
  ASSUME NEW text \in Texts, ~Blank(text)
  PROVE  \E lo, hi \in 1..Len(text) :
            /\ lo <= hi /\ TrimSpace(text) = SubSeq(text, lo, hi)
            /\ \A k \in 1..Len(text) : k < lo \/ k > hi => text[k] \in White
            /\ text[lo] \notin White
  <1>1. PICK n \in Nat : n = Len(text) /\ DOMAIN text = 1..n
    BY DEF Texts
  <1>2. PICK inked : inked = {k \in DOMAIN text : text[k] \notin White}
    OBVIOUS
  <1>3. inked # {} /\ inked \in SUBSET (1..n) /\ inked \in SUBSET Nat
    BY <1>1, <1>2 DEF Blank
  <1>4. PICK lo, hi : lo = Seqs!Min(inked) /\ hi = Seqs!Max(inked)
    OBVIOUS
  <1>5. lo \in inked /\ hi \in inked /\ \A y \in inked : lo <= y /\ y <= hi
    BY <1>3, <1>4, FirstIsThere, LastIsThere, LastIsLast
  <1>6. lo \in 1..n /\ hi \in 1..n /\ lo <= hi
    BY <1>3, <1>5
  <1>7. \A k \in 1..n : k < lo \/ k > hi => text[k] \in White
    <2>1. \A k \in 1..n : k < lo \/ k > hi => k \notin inked
      BY <1>5, <1>6
    <2> QED
      BY <1>1, <1>2, <2>1
  <1>8. TrimSpace(text) = SubSeq(text, lo, hi)
    BY <1>2, <1>3, <1>4 DEF TrimSpace
  <1>9. text[lo] \notin White
    BY <1>2, <1>5
  <1> QED
    BY <1>1, <1>6, <1>7, <1>8, <1>9

LEMMA WhiteField ==
  ASSUME NEW seen \in Spelled, NEW c \in White
  PROVE  Field(seen, c).text = seen.text /\ (seen = Unwritten => Field(seen, c) = Unwritten)
  <1>1. PICK gap \in BOOLEAN : gap = (seen.text # <<>>)
    OBVIOUS
  <1>2. Field(seen, c) = [seen EXCEPT !.gap = gap]
    BY <1>1 DEF Field
  <1>3. [seen EXCEPT !.gap = gap].text = seen.text
    BY DEF Spelled
  <1>4. ASSUME seen = Unwritten PROVE [seen EXCEPT !.gap = gap] = Unwritten
    <2>1. gap = FALSE
      BY <1>1, <1>4 DEF Unwritten
    <2>2. PICK still : still = [seen EXCEPT !.gap = gap]
      OBVIOUS
    <2>3. still \in Spelled /\ still.text = seen.text /\ still.gap = FALSE
      BY <2>1, <2>2 DEF Spelled
    <2>4. seen.gap = FALSE
      BY <1>4 DEF Unwritten
    <2>5. still = seen
      BY <2>3, <2>4 DEF Spelled
    <2> QED
      BY <1>4, <2>2, <2>5
  <1> QED
    BY <1>2, <1>3, <1>4

\* Trimming is undone by what normalising does to the ends.
LEMMA NormalTrim ==
  ASSUME NEW text \in Texts, ~Blank(text)
  PROVE  /\ TrimSpace(text) \in Texts /\ TrimSpace(text) # <<>>
         /\ NormalizeWhitespace(TrimSpace(text)) = NormalizeWhitespace(text)
  <1>1. PICK n \in Nat : n = Len(text) /\ \A k \in 1..n : text[k] \in Symbols
    BY DEF Texts
  <1>2. PICK lo, hi \in 1..n :
            /\ lo <= hi /\ TrimSpace(text) = SubSeq(text, lo, hi)
            /\ \A k \in 1..n : k < lo \/ k > hi => text[k] \in White
    BY <1>1, Trimmed
  <1>3. PICK sub : sub = SubSeq(text, lo, hi)
    OBVIOUS
  <1>4. PICK k \in Nat : k = hi - lo + 1 /\ k > 0
    BY <1>2
  <1>5. sub \in Texts /\ Len(sub) = k /\ \A i \in 1..k : sub[i] = text[lo + i - 1]
    <2>1. text \in Seq(Symbols)
      BY DEF Texts
    <2>2. lo \in 1..Len(text) + 1 /\ hi \in lo - 1..Len(text)
      BY <1>1, <1>2
    <2>3. hi - lo + 1 = k /\ ~(hi < lo)
      BY <1>2, <1>4
    <2> QED
      BY <1>3, <2>1, <2>2, <2>3, SubSeqProperties DEF Texts
  <1>6. PICK h : Spelling(h, text)
    BY Spells
  <1>7. PICK w : Spelling(w, sub)
    BY <1>5, Spells
  <1>8. \A m \in 0..n - 1 : h[m] \in Spelled /\ h[m + 1] = Field(h[m], text[m + 1])
    BY <1>1, <1>6 DEF Spelling
  <1>9. \A i \in 0..k - 1 : w[i + 1] = Field(w[i], text[lo + i])
    <2>1. \A i \in 0..k - 1 : w[i + 1] = Field(w[i], sub[i + 1])
      BY <1>5, <1>7 DEF Spelling
    <2>2. \A i \in 0..k - 1 : i + 1 \in 1..k /\ lo + (i + 1) - 1 = lo + i
      OBVIOUS
    <2> QED
      BY <1>5, <2>1, <2>2
  <1>10. h[lo - 1] = Unwritten
    <2>1. PICK T : T = {m \in Nat : m <= lo - 1 => h[m] = Unwritten}
      OBVIOUS
    <2>2. 0 \in T
      BY <1>6, <2>1 DEF Spelling
    <2>3. ASSUME NEW m \in Nat, m \in T
          PROVE  m + 1 \in T
      <3>1. SUFFICES ASSUME m + 1 <= lo - 1 PROVE h[m + 1] = Unwritten
        BY <2>1
      <3>2. m \in 0..n - 1 /\ m + 1 \in 1..n /\ m + 1 < lo /\ m <= lo - 1
        BY <3>1
      <3> QED
        BY <1>2, <1>8, <2>1, <2>3, <3>2, WhiteField
    <2>4. lo - 1 \in Nat /\ lo - 1 <= lo - 1
      OBVIOUS
    <2>5. lo - 1 \in T
      BY <2>2, <2>3, <2>4, SetInduction
    <2> QED
      BY <2>1, <2>4, <2>5
  <1>11. w[k] = h[hi]
    <2>1. PICK T : T = {i \in Nat : i <= k => w[i] = h[lo - 1 + i]}
      OBVIOUS
    <2>2. 0 \in T
      <3>1. lo - 1 + 0 = lo - 1
        OBVIOUS
      <3> QED
        BY <1>7, <1>10, <2>1, <3>1 DEF Spelling
    <2>3. ASSUME NEW i \in Nat, i \in T
          PROVE  i + 1 \in T
      <3>1. SUFFICES ASSUME i + 1 <= k PROVE w[i + 1] = h[lo - 1 + (i + 1)]
        BY <2>1
      <3>2. PICK m : m = lo - 1 + i
        OBVIOUS
      <3>3. i <= k /\ i \in 0..k - 1 /\ m \in 0..n - 1 /\ m + 1 = lo + i
            /\ lo - 1 + (i + 1) = m + 1
        BY <1>4, <3>1, <3>2
      <3>4. w[i] = h[m]
        BY <2>1, <2>3, <3>2, <3>3
      <3>5. w[i + 1] = Field(h[m], text[m + 1])
        BY <1>9, <3>3, <3>4
      <3>6. h[m + 1] = Field(h[m], text[m + 1])
        BY <1>8, <3>3
      <3> QED
        BY <3>3, <3>5, <3>6
    <2>4. k \in T
      BY <2>2, <2>3, SetInduction
    <2>5. k <= k /\ lo - 1 + k = hi
      BY <1>4
    <2> QED
      BY <2>1, <2>4, <2>5
  <1>12. h[n].text = h[hi].text
    <2>1. PICK T : T = {i \in Nat : hi + i <= n => h[hi + i].text = h[hi].text}
      OBVIOUS
    <2>2. 0 \in T
      <3>1. hi + 0 = hi
        OBVIOUS
      <3> QED
        BY <2>1, <3>1
    <2>3. ASSUME NEW i \in Nat, i \in T
          PROVE  i + 1 \in T
      <3>1. SUFFICES ASSUME hi + (i + 1) <= n PROVE h[hi + (i + 1)].text = h[hi].text
        BY <2>1
      <3>2. PICK m : m = hi + i
        OBVIOUS
      <3>3. m \in 0..n - 1 /\ m + 1 \in 1..n /\ m + 1 > hi /\ m <= n /\ hi + (i + 1) = m + 1
        BY <3>1, <3>2
      <3>4. h[m].text = h[hi].text
        BY <2>1, <2>3, <3>2, <3>3
      <3>5. h[m + 1].text = h[m].text
        BY <1>2, <1>8, <3>3, WhiteField
      <3> QED
        BY <3>3, <3>4, <3>5
    <2>4. n - hi \in Nat /\ hi + (n - hi) = n /\ n <= n
      OBVIOUS
    <2>5. n - hi \in T
      BY <2>2, <2>3, <2>4, SetInduction
    <2> QED
      BY <2>1, <2>4, <2>5
  <1>13. NormalizeWhitespace(sub) = w[k].text /\ NormalizeWhitespace(text) = h[n].text
    BY <1>1, <1>5, <1>6, <1>7 DEF Spelling
  <1>14. sub # <<>>
    <2>1. Len(<<>>) = 0
      OBVIOUS
    <2> QED
      BY <1>4, <1>5, <2>1
  <1> QED
    BY <1>2, <1>3, <1>5, <1>11, <1>12, <1>13, <1>14

LEMMA NothingIsTrimmed ==
  ASSUME NEW text, Blank(text)
  PROVE  TrimSpace(text) = <<>>
  BY DEF Blank, TrimSpace

LEMMA NormalType ==
  ASSUME NEW text \in Texts
  PROVE  NormalizeWhitespace(text) \in Texts
  <1>1. PICK h : Spelling(h, text)
    BY Spells
  <1>2. Len(text) \in 0..Len(text)
    BY DEF Texts
  <1> QED
    BY <1>1, <1>2 DEF Spelling, Spelled

-----------------------------------------------------------------------------
(* Repetitions. *)

LEMMA SqueezeType ==
  ASSUME NEW M, NEW kept \in Seq(M), NEW message \in M
  PROVE  /\ Squeeze(kept, message) \in Seq(M) /\ Squeeze(kept, message) # <<>>
         /\ Squeeze(kept, message)[Len(Squeeze(kept, message))] = message
  <1>1. CASE kept # <<>> /\ kept[Len(kept)] = message
    BY <1>1 DEF Squeeze
  <1>2. CASE ~(kept # <<>> /\ kept[Len(kept)] = message)
    <2>1. Squeeze(kept, message) = Append(kept, message)
      BY <1>2 DEF Squeeze
    <2>2. /\ Append(kept, message) \in Seq(M) /\ Len(Append(kept, message)) = Len(kept) + 1
          /\ Append(kept, message)[Len(kept) + 1] = message
      BY AppendProperties
    <2>3. Append(kept, message) # <<>>
      BY <2>2
    <2> QED
      BY <2>1, <2>2, <2>3
  <1> QED
    BY <1>1, <1>2

Squeezer(M) == [p \in Seq(M) \X M |-> Squeeze(p[1], p[2])]

LEMMA SqueezerType ==
  ASSUME NEW M
  PROVE  Squeezer(M) \in [Seq(M) \X M -> Seq(M)] /\ <<>> \in Seq(M)
  <1>1. <<>> \in Seq(M)
    OBVIOUS
  <1> QED
    BY <1>1, SqueezeType DEF Squeezer

\* The function that Squeezed computes with.
Squeezes(g, seq, D) ==
    g = [s \in SUBSET D |->
           IF s = {} THEN <<>> ELSE Squeeze(g[s \ {Seqs!Max(s)}], seq[Seqs!Max(s)])]

LEMMA SqueezesExist ==
  ASSUME NEW M, NEW n \in Nat, NEW seq, \A k \in 1..n : seq[k] \in M
  PROVE  \E g : Squeezes(g, seq, 1..n)
  <1>1. PICK g \in [SUBSET (1..n) -> Seq(M)] : FoldsBy(Squeezer(M), <<>>, seq, n, g)
    <2>1. HasFold(Seq(M), Squeezer(M), <<>>, seq, n)
      BY SqueezerType, FoldExists
    <2> QED
      BY <2>1 DEF HasFold
  <1>2. ASSUME NEW s \in SUBSET (1..n)
        PROVE  g[s] = IF s = {} THEN <<>>
                      ELSE Squeeze(g[s \ {Seqs!Max(s)}], seq[Seqs!Max(s)])
    <2>1. CASE s = {}
      BY <1>1, <2>1 DEF FoldsBy
    <2>2. CASE s # {}
      <3>1. Seqs!Max(s) \in 1..n
        BY <2>2, LastIsThere
      <3>2. seq[Seqs!Max(s)] \in M /\ g[s \ {Seqs!Max(s)}] \in Seq(M)
        BY <1>1, <3>1
      <3>3. g[s] = Squeezer(M)[<<g[s \ {Seqs!Max(s)}], seq[Seqs!Max(s)]>>]
        BY <1>1, <2>2 DEF FoldsBy
      <3> QED
        BY <2>2, <3>2, <3>3 DEF Squeezer
    <2> QED
      BY <2>1, <2>2
  <1>3. PICK f : f = [s \in SUBSET (1..n) |->
                        IF s = {} THEN <<>>
                        ELSE Squeeze(g[s \ {Seqs!Max(s)}], seq[Seqs!Max(s)])]
    OBVIOUS
  <1>4. g = f
    BY <1>1, <1>2, <1>3
  <1> QED
    BY <1>3, <1>4 DEF Squeezes

\* h[m] is what is kept of the first m messages.
Squeezing(h, M, seq) ==
    /\ h[0] = <<>> /\ h[Len(seq)] = Squeezed(seq)
    /\ \A m \in 0..Len(seq) : h[m] \in Seq(M)
    /\ \A m \in 0..Len(seq) - 1 : h[m + 1] = Squeeze(h[m], seq[m + 1])

LEMMA SqueezesAll ==
  ASSUME NEW M, NEW seq \in Seq(M)
  PROVE  \E h : Squeezing(h, M, seq)
  <1>1. PICK n \in Nat : n = Len(seq) /\ DOMAIN seq = 1..n /\ \A k \in 1..n : seq[k] \in M
    OBVIOUS
  <1>2. PICK D : D = 1..n
    OBVIOUS
  <1>3. PICK g : Squeezes(g, seq, D) /\ Squeezed(seq) = g[D]
    <2>1. \E g : Squeezes(g, seq, D)
      BY <1>1, <1>2, SqueezesExist
    <2>2. Squeezed(seq) = (CHOOSE g : Squeezes(g, seq, D))[D]
      BY <1>1, <1>2 DEF Squeezed, Squeezes, Seqs!FoldLeft, Seqs!MapThenFoldSet
    <2> QED
      BY <2>1, <2>2
  <1>4. \A s \in SUBSET (1..n) :
          g[s] = IF s = {} THEN <<>> ELSE Squeeze(g[s \ {Seqs!Max(s)}], seq[Seqs!Max(s)])
    BY <1>2, <1>3 DEF Squeezes
  <1>5. \A s \in SUBSET (1..n) : s # {} =>
          seq[Seqs!Max(s)] \in M /\ s \ {Seqs!Max(s)} \in SUBSET (1..n)
    <2>1. \A s \in SUBSET (1..n) : s # {} => Seqs!Max(s) \in s
      BY LastIsThere
    <2> QED
      BY <1>1, <2>1
  <1>6. \A s \in SUBSET (1..n) : g[s] \in Seq(M)
    <2>1. g[{}] \in Seq(M)
      BY <1>4, SqueezerType
    <2>2. ASSUME NEW s \in SUBSET (1..n), s # {}, g[s \ {Seqs!Max(s)}] \in Seq(M)
          PROVE  g[s] \in Seq(M)
      <3>1. PICK kept \in Seq(M), message \in M :
               kept = g[s \ {Seqs!Max(s)}] /\ message = seq[Seqs!Max(s)]
        BY <1>5, <2>2
      <3>2. g[s] = Squeeze(kept, message)
        BY <1>4, <2>2, <3>1
      <3> QED
        BY <3>2, SqueezeType
    <2> QED
      BY <2>1, <2>2, FoldTyped
  <1>7. TypedFold(Seq(M), Squeezer(M), <<>>, seq, n, g)
    BY <1>4, <1>5, <1>6 DEF TypedFold, FoldsBy, Squeezer
  <1>8. PICK h : Turns(Seq(M), Squeezer(M), <<>>, seq, n, h) /\ h[n] = g[1..n]
    BY <1>7, FoldTurns
  <1>9. \A m \in 0..n - 1 : h[m] \in Seq(M) /\ seq[m + 1] \in M
                              /\ h[m + 1] = Squeezer(M)[<<h[m], seq[m + 1]>>]
    BY <1>1, <1>8 DEF Turns
  <1>10. \A m \in 0..n - 1 : h[m + 1] = Squeeze(h[m], seq[m + 1])
    BY <1>9 DEF Squeezer
  <1> QED
    BY <1>1, <1>2, <1>3, <1>8, <1>10 DEF Squeezing, Turns

LEMMA SqueezedEmpty == Squeezed(<<>>) = <<>>
  <1>1. <<>> \in Seq({}) /\ Len(<<>>) = 0
    OBVIOUS
  <1>2. PICK h : Squeezing(h, {}, <<>>)
    BY <1>1, SqueezesAll
  <1> QED
    BY <1>1, <1>2 DEF Squeezing

LEMMA SqueezedAppend ==
  ASSUME NEW M, NEW seq \in Seq(M), NEW message \in M
  PROVE  Squeezed(Append(seq, message)) = Squeeze(Squeezed(seq), message)
  <1>1. PICK n \in Nat : n = Len(seq)
    OBVIOUS
  <1>2. PICK more : more = Append(seq, message)
    OBVIOUS
  <1>3. /\ more \in Seq(M) /\ Len(more) = n + 1 /\ more[n + 1] = message
        /\ \A k \in 1..n : more[k] = seq[k]
    BY <1>1, <1>2, AppendProperties
  <1>4. PICK h : Squeezing(h, M, seq)
    BY SqueezesAll
  <1>5. PICK w : Squeezing(w, M, more)
    BY <1>3, SqueezesAll
  <1>6. PICK T : T = {m \in Nat : m <= n => w[m] = h[m]}
    OBVIOUS
  <1>7. 0 \in T
    BY <1>4, <1>5, <1>6 DEF Squeezing
  <1>8. ASSUME NEW m \in Nat, m \in T
        PROVE  m + 1 \in T
    <2>1. SUFFICES ASSUME m + 1 <= n PROVE w[m + 1] = h[m + 1]
      BY <1>6
    <2>2. m <= n /\ m \in 0..n - 1 /\ m \in 0..(n + 1) - 1 /\ m + 1 \in 1..n
      BY <2>1
    <2>3. w[m + 1] = Squeeze(w[m], more[m + 1])
      BY <1>3, <1>5, <2>2 DEF Squeezing
    <2>4. h[m + 1] = Squeeze(h[m], seq[m + 1])
      BY <1>1, <1>4, <2>2 DEF Squeezing
    <2> QED
      BY <1>3, <1>6, <1>8, <2>2, <2>3, <2>4
  <1>9. n \in T
    BY <1>7, <1>8, SetInduction
  <1>10. w[n] = h[n]
    BY <1>6, <1>9
  <1>11. w[n + 1] = Squeeze(w[n], message)
    <2>1. n \in 0..(n + 1) - 1
      OBVIOUS
    <2> QED
      BY <1>3, <1>5, <2>1 DEF Squeezing
  <1> QED
    BY <1>1, <1>2, <1>3, <1>4, <1>5, <1>10, <1>11 DEF Squeezing

LEMMA SqueezedType ==
  ASSUME NEW M, NEW seq \in Seq(M)
  PROVE  /\ Squeezed(seq) \in Seq(M)
         /\ seq # <<>> => /\ Squeezed(seq) # <<>>
                          /\ Squeezed(seq)[Len(Squeezed(seq))] = seq[Len(seq)]
  <1>1. PICK h : Squeezing(h, M, seq)
    BY SqueezesAll
  <1>2. PICK n \in Nat : n = Len(seq) /\ \A k \in 1..n : seq[k] \in M
    OBVIOUS
  <1>3. Squeezed(seq) \in Seq(M)
    BY <1>1, <1>2 DEF Squeezing
  <1>4. ASSUME seq # <<>>
        PROVE  Squeezed(seq) # <<>> /\ Squeezed(seq)[Len(Squeezed(seq))] = seq[Len(seq)]
    <2>1. PICK m \in Nat : n = m + 1
      <3>1. n # 0
        BY <1>2, <1>4
      <3>2. n - 1 \in Nat /\ n = n - 1 + 1
        BY <3>1
      <3> QED
        BY <3>2
    <2>2. m \in 0..n - 1 /\ m \in 0..n /\ n \in 1..n
      BY <2>1
    <2>3. h[m] \in Seq(M) /\ seq[n] \in M /\ h[n] = Squeeze(h[m], seq[n])
      BY <1>1, <1>2, <2>1, <2>2 DEF Squeezing
    <2>4. PICK kept \in Seq(M), message \in M : kept = h[m] /\ message = seq[n]
      BY <2>3
    <2>5. Squeezed(seq) = Squeeze(kept, message)
      BY <1>1, <1>2, <2>3, <2>4 DEF Squeezing
    <2>6. /\ Squeeze(kept, message) # <<>>
          /\ Squeeze(kept, message)[Len(Squeeze(kept, message))] = message
      BY SqueezeType
    <2> QED
      BY <1>2, <2>4, <2>5, <2>6
  <1> QED
    BY <1>3, <1>4

\* What has been said last is kept as it was.
LEMMA SqueezeAgain ==
  ASSUME NEW M, NEW seq \in Seq(M), seq # <<>>
  PROVE  Squeeze(Squeezed(seq), seq[Len(seq)]) = Squeezed(seq)
  BY SqueezedType DEF Squeeze

-----------------------------------------------------------------------------
(* What the visitor has been told. *)

Roles == {"user", "assistant"}

Types == {"event_msg", "response_item"}

Utterances == [role : Roles, text : Texts]

Seen ==
    [messages : Seq(Utterances), role : Roles \cup {"none"}, text : Texts,
     type : Types \cup {"none"}]

Written == Record \cup Noise

LEMMA Utterance ==
  ASSUME NEW rec \in Record
  PROVE  /\ TrimSpace(ConversationText(rec.parts)) \in Texts
         /\ TrimSpace(ConversationText(rec.parts)) # <<>>
         /\ Said(rec) \in Utterances /\ Said(rec).role = rec.role
         /\ NormalizeWhitespace(TrimSpace(ConversationText(rec.parts))) = Said(rec).text
         /\ rec.role \in Roles /\ rec.type \in Types /\ rec.role # "none"
  <1>1. rec.parts \in Contents /\ rec.role \in Roles /\ rec.type \in Types
    BY DEF Record, Roles, Types
  <1>2. PICK text : text = ConversationText(rec.parts)
    OBVIOUS
  <1>3. text \in Texts /\ ~Blank(text)
    <2>1. text \in Seq(STRING) /\ ~Blank(text)
      BY <1>1, <1>2, ConversationAssumption
    <2> QED
      BY <2>1 DEF Texts, Symbols
  <1>4. /\ TrimSpace(text) \in Texts /\ TrimSpace(text) # <<>>
        /\ NormalizeWhitespace(TrimSpace(text)) = NormalizeWhitespace(text)
    BY <1>3, NormalTrim
  <1>5. NormalizeWhitespace(text) \in Texts
    BY <1>3, NormalType
  <1>6. Said(rec) = [role |-> rec.role, text |-> NormalizeWhitespace(text)]
    BY <1>2 DEF Said
  <1>7. Said(rec) \in Utterances
    BY <1>1, <1>5, <1>6 DEF Utterances
  <1>8. Said(rec).role = rec.role /\ Said(rec).text = NormalizeWhitespace(text)
    BY <1>6
  <1>9. rec.role # "none"
    BY <1>1 DEF Roles
  <1> QED
    BY <1>1, <1>2, <1>4, <1>7, <1>8, <1>9

Again(seen, rec) ==
    seen.role = Said(rec).role /\ seen.text = Said(rec).text /\ seen.type # rec.type

\* A message is appended unless it is the one before it in its other type.
Heard(seen, rec) ==
    [messages |-> IF Again(seen, rec) THEN seen.messages
                  ELSE Append(seen.messages, [role |-> rec.role,
                                text |-> TrimSpace(ConversationText(rec.parts))]),
     role |-> Said(rec).role, text |-> Said(rec).text, type |-> rec.type]

LEMMA VisitMessage ==
  ASSUME NEW seen \in Seen, NEW rec \in Record
  PROVE  VisitRecord(seen, rec) = Heard(seen, rec)
  <1>1. PICK text : text = TrimSpace(ConversationText(rec.parts))
    OBVIOUS
  <1>2. /\ text # <<>> /\ IsConversationRecord(rec)
        /\ NormalizeWhitespace(text) = Said(rec).text /\ rec.role = Said(rec).role
    BY <1>1, Utterance DEF IsConversationRecord
  <1>3. PICK again \in BOOLEAN : again = Again(seen, rec)
    BY DEF Again
  <1>4. DuplicateRepresentation(seen, rec, text) <=> again
    BY <1>2, <1>3 DEF DuplicateRepresentation, Again
  <1>5. VisitRecord(seen, rec) =
          [messages |-> IF again THEN seen.messages
                        ELSE Append(seen.messages, [role |-> rec.role, text |-> text]),
           role |-> Said(rec).role, text |-> Said(rec).text, type |-> rec.type]
    BY <1>1, <1>2, <1>4 DEF VisitRecord
  <1> QED
    BY <1>1, <1>3, <1>5 DEF Heard

LEMMA VisitNoise ==
  ASSUME NEW seen, NEW rec \in Noise
  PROVE  VisitRecord(seen, rec) = seen
  <1>1. CASE rec.role = "none"
    BY <1>1 DEF VisitRecord, IsConversationRecord
  <1>2. CASE rec.parts \in Blanks
    <2>1. TrimSpace(ConversationText(rec.parts)) = <<>>
      BY <1>2, ConversationAssumption, NothingIsTrimmed
    <2> QED
      BY <2>1 DEF VisitRecord
  <1>3. rec.role = "none" \/ rec.parts \in Blanks
    BY DEF Noise
  <1> QED
    BY <1>1, <1>2, <1>3

LEMMA HeardType ==
  ASSUME NEW seen \in Seen, NEW rec \in Record
  PROVE  Heard(seen, rec) \in Seen
  <1>1. PICK utterance : utterance = [role |-> rec.role,
                                      text |-> TrimSpace(ConversationText(rec.parts))]
    OBVIOUS
  <1>2. utterance \in Utterances
    BY <1>1, Utterance DEF Utterances
  <1>3. seen.messages \in Seq(Utterances)
    BY DEF Seen
  <1>4. PICK messages \in Seq(Utterances) :
           messages = IF Again(seen, rec) THEN seen.messages
                      ELSE Append(seen.messages, utterance)
    BY <1>2, <1>3, AppendProperties
  <1>5. Said(rec).role \in Roles /\ Said(rec).text \in Texts /\ rec.type \in Types
    BY Utterance DEF Utterances
  <1>6. Heard(seen, rec) = [messages |-> messages, role |-> Said(rec).role,
                            text |-> Said(rec).text, type |-> rec.type]
    BY <1>1, <1>4 DEF Heard
  <1> QED
    BY <1>5, <1>6 DEF Seen

LEMMA VisitType ==
  ASSUME NEW seen \in Seen, NEW rec \in Written
  PROVE  VisitRecord(seen, rec) \in Seen
  BY VisitMessage, VisitNoise, HeardType DEF Written

-----------------------------------------------------------------------------
(* What is shown, and what was said. *)

Normal(message) == [role |-> message.role, text |-> NormalizeWhitespace(message.text)]

Shown(messages) == [k \in DOMAIN messages |-> Normal(messages[k])]

LEMMA ShownType ==
  ASSUME NEW messages \in Seq(Utterances)
  PROVE  Shown(messages) \in Seq(Utterances) /\ Len(Shown(messages)) = Len(messages)
  <1>1. PICK n \in Nat : n = Len(messages) /\ DOMAIN messages = 1..n
                         /\ \A k \in 1..n : messages[k] \in Utterances
    OBVIOUS
  <1>2. \A k \in 1..n : Normal(messages[k]) \in Utterances
    BY <1>1, NormalType DEF Normal, Utterances
  <1>3. PICK shown : shown = Shown(messages)
    OBVIOUS
  <1>4. shown = [k \in 1..n |-> Normal(messages[k])]
    BY <1>1, <1>3 DEF Shown
  <1>5. shown \in Seq(Utterances) /\ Len(shown) = n
    BY <1>2, <1>4
  <1> QED
    BY <1>1, <1>3, <1>5

LEMMA ShownAppend ==
  ASSUME NEW messages \in Seq(Utterances), NEW message \in Utterances
  PROVE  Shown(Append(messages, message)) = Append(Shown(messages), Normal(message))
  <1>1. PICK n \in Nat : n = Len(messages) /\ DOMAIN messages = 1..n
    OBVIOUS
  <1>2. PICK more : more = Append(messages, message)
    OBVIOUS
  <1>3. /\ more \in Seq(Utterances) /\ Len(more) = n + 1 /\ more[n + 1] = message
        /\ \A k \in 1..n : more[k] = messages[k]
    BY <1>1, <1>2, AppendProperties
  <1>4. PICK a, b : a = Shown(more) /\ b = Append(Shown(messages), Normal(message))
    OBVIOUS
  <1>5. a \in Seq(Utterances) /\ Len(a) = n + 1
    BY <1>3, <1>4, ShownType
  <1>6. Normal(message) \in Utterances
    BY NormalType DEF Normal, Utterances
  <1>7. PICK shown \in Seq(Utterances) : shown = Shown(messages) /\ Len(shown) = n
    BY <1>1, ShownType
  <1>8. /\ b \in Seq(Utterances) /\ Len(b) = n + 1 /\ b[n + 1] = Normal(message)
        /\ \A k \in 1..n : b[k] = shown[k]
    BY <1>4, <1>6, <1>7, AppendProperties
  <1>9. DOMAIN more = 1..n + 1 /\ \A k \in 1..n : k \in 1..n + 1
    BY <1>3
  <1>10. \A k \in 1..n + 1 : a[k] = Normal(more[k])
    BY <1>4, <1>9 DEF Shown
  <1>11. \A k \in 1..n : shown[k] = Normal(messages[k])
    BY <1>1, <1>7 DEF Shown
  <1>12. \A k \in 1..n + 1 : a[k] = b[k]
    <2>1. \A k \in 1..n : a[k] = b[k]
      BY <1>3, <1>8, <1>9, <1>10, <1>11
    <2>2. n + 1 \in 1..n + 1 /\ a[n + 1] = b[n + 1]
      BY <1>3, <1>8, <1>10
    <2>3. \A k \in 1..n + 1 : k \in 1..n \/ k = n + 1
      OBVIOUS
    <2> QED
      BY <2>1, <2>2, <2>3
  <1>13. a = b
    BY <1>5, <1>8, <1>12, SeqEqual
  <1> QED
    BY <1>2, <1>4, <1>13

\* The visitor has seen what was said, and knows what was said last.
Told(seen, said) ==
    /\ Squeezed(Shown(seen.messages)) = Squeezed(said) /\ Len(seen.messages) <= Len(said)
    /\ said = <<>> => seen.role = "none"
    /\ said # <<>> =>
         seen.role = said[Len(said)].role /\ seen.text = said[Len(said)].text

LEMMA NothingTold == NothingSeen \in Seen /\ Told(NothingSeen, <<>>)
  <1>1. <<>> \in Seq(Utterances) /\ <<>> \in Texts /\ Len(<<>>) = 0
    BY DEF Texts
  <1>2. NothingSeen.messages = <<>> /\ NothingSeen.role = "none"
    BY DEF NothingSeen
  <1>3. NothingSeen \in Seen
    BY <1>1 DEF NothingSeen, Seen
  <1>4. PICK shown \in Seq(Utterances) : shown = Shown(<<>>) /\ Len(shown) = 0
    BY <1>1, ShownType
  <1>5. shown = <<>>
    BY <1>4
  <1> QED
    BY <1>1, <1>2, <1>3, <1>4, <1>5 DEF Told

LEMMA ToldOnce ==
  ASSUME NEW seen \in Seen, NEW said \in Seq(Utterances), Told(seen, said),
         NEW rec \in Record
  PROVE  Told(VisitRecord(seen, rec), Append(said, Said(rec)))
  <1>1. PICK x \in Utterances : x = Said(rec) /\ x.role = rec.role /\ x.role \in Roles
    BY Utterance DEF Utterances
  <1>2. PICK more : more = Append(said, x)
    OBVIOUS
  <1>3. /\ more \in Seq(Utterances) /\ Len(more) = Len(said) + 1 /\ more # <<>>
        /\ more[Len(more)] = x /\ Len(said) \in Nat
    <2>1. more \in Seq(Utterances) /\ Len(more) = Len(said) + 1
          /\ more[Len(said) + 1] = x /\ Len(said) \in Nat
      BY <1>2, AppendProperties
    <2>2. more # <<>>
      BY <2>1
    <2> QED
      BY <2>1, <2>2
  <1>4. Squeezed(more) = Squeeze(Squeezed(said), x)
    BY <1>2, SqueezedAppend
  <1>5. PICK w : w = VisitRecord(seen, rec)
    OBVIOUS
  <1>6. w = Heard(seen, rec)
    BY <1>5, VisitMessage
  <1>7. w.role = x.role /\ w.text = x.text
    BY <1>1, <1>6 DEF Heard
  <1>8. seen.messages \in Seq(Utterances) /\ Len(seen.messages) \in Nat
    BY DEF Seen
  <1>9. Squeezed(Shown(w.messages)) = Squeezed(more) /\ Len(w.messages) <= Len(more)
    <2>1. CASE Again(seen, rec)
      <3>1. w.messages = seen.messages
        BY <1>6, <2>1 DEF Heard
      <3>2. seen.role # "none" /\ seen.role = x.role /\ seen.text = x.text
        BY <1>1, <2>1 DEF Again, Roles
      <3>3. said # <<>>
        BY <3>2 DEF Told
      <3>4. PICK last \in Utterances : last = said[Len(said)]
        BY <3>3
      <3>5. last.role = x.role /\ last.text = x.text
        BY <3>2, <3>3, <3>4 DEF Told
      <3>6. last = x
        BY <3>5 DEF Utterances
      <3>7. Squeezed(more) = Squeezed(said)
        BY <1>4, <3>3, <3>4, <3>6, SqueezeAgain
      <3>8. Len(seen.messages) <= Len(said)
        BY DEF Told
      <3> QED
        BY <1>3, <1>8, <3>1, <3>7, <3>8 DEF Told
    <2>2. CASE ~Again(seen, rec)
      <3>1. PICK y : y = [role |-> rec.role, text |-> TrimSpace(ConversationText(rec.parts))]
        OBVIOUS
      <3>2. y \in Utterances
        BY <3>1, Utterance DEF Utterances
      <3>3. Normal(y) = x
        <4>1. x.text = NormalizeWhitespace(y.text) /\ y.role = x.role
          BY <1>1, <3>1, Utterance
        <4>2. Normal(y) \in Utterances
          BY <3>2, NormalType DEF Normal, Utterances
        <4>3. Normal(y).role = x.role /\ Normal(y).text = x.text
          BY <4>1 DEF Normal
        <4> QED
          BY <4>2, <4>3 DEF Utterances
      <3>4. w.messages = Append(seen.messages, y)
        BY <1>6, <2>2, <3>1 DEF Heard
      <3>5. Len(w.messages) = Len(seen.messages) + 1
        BY <1>8, <3>2, <3>4, AppendProperties
      <3>6. Shown(w.messages) = Append(Shown(seen.messages), x)
        BY <1>8, <3>2, <3>3, <3>4, ShownAppend
      <3>7. Shown(seen.messages) \in Seq(Utterances)
        BY <1>8, ShownType
      <3>8. Squeezed(Shown(w.messages)) = Squeeze(Squeezed(Shown(seen.messages)), x)
        BY <3>6, <3>7, SqueezedAppend
      <3>9. Squeezed(Shown(seen.messages)) = Squeezed(said) /\ Len(seen.messages) <= Len(said)
        BY DEF Told
      <3> QED
        BY <1>3, <1>4, <1>8, <3>5, <3>8, <3>9
    <2> QED
      BY <2>1, <2>2
  <1>10. Told(w, more)
    BY <1>3, <1>7, <1>9 DEF Told
  <1> QED
    BY <1>1, <1>2, <1>5, <1>10

\* The second of two records adds nothing.
LEMMA ToldTwice ==
  ASSUME NEW seen \in Seen, NEW said \in Seq(Utterances), Told(seen, said), said # <<>>,
         NEW rec \in Record, Said(rec) = said[Len(said)], rec.type # seen.type
  PROVE  Told(VisitRecord(seen, rec), said)
  <1>1. seen.role = Said(rec).role /\ seen.text = Said(rec).text
    BY DEF Told
  <1>2. Again(seen, rec)
    BY <1>1 DEF Again
  <1>3. PICK w : w = VisitRecord(seen, rec)
    OBVIOUS
  <1>4. w = Heard(seen, rec)
    BY <1>3, VisitMessage
  <1>5. w.messages = seen.messages /\ w.role = seen.role /\ w.text = seen.text
    BY <1>1, <1>2, <1>4 DEF Heard
  <1>6. Told(w, said)
    BY <1>5 DEF Told
  <1> QED
    BY <1>3, <1>6

-----------------------------------------------------------------------------
(* The records of a rollout, one after the other. *)

Visit == [p \in Seen \X Written |-> VisitRecord(p[1], p[2])]

LEMMA VisitIsTyped ==
  Visit \in [Seen \X Written -> Seen] /\ NothingSeen \in Seen
  BY VisitType, NothingTold DEF Visit

\* The function that ReadConversation computes with.
Visits(g, records, D) ==
    g = [s \in SUBSET D |->
           IF s = {} THEN NothingSeen
           ELSE VisitRecord(g[s \ {Seqs!Max(s)}], records[Seqs!Max(s)])]

LEMMA VisitsExist ==
  ASSUME NEW n \in Nat, NEW records, \A k \in 1..n : records[k] \in Written
  PROVE  \E g : Visits(g, records, 1..n)
  <1>1. PICK g \in [SUBSET (1..n) -> Seen] : FoldsBy(Visit, NothingSeen, records, n, g)
    <2>1. HasFold(Seen, Visit, NothingSeen, records, n)
      BY VisitIsTyped, FoldExists
    <2> QED
      BY <2>1 DEF HasFold
  <1>2. ASSUME NEW s \in SUBSET (1..n)
        PROVE  g[s] = IF s = {} THEN NothingSeen
                      ELSE VisitRecord(g[s \ {Seqs!Max(s)}], records[Seqs!Max(s)])
    <2>1. CASE s = {}
      BY <1>1, <2>1 DEF FoldsBy
    <2>2. CASE s # {}
      <3>1. Seqs!Max(s) \in 1..n
        BY <2>2, LastIsThere
      <3>2. records[Seqs!Max(s)] \in Written /\ g[s \ {Seqs!Max(s)}] \in Seen
        BY <1>1, <3>1
      <3>3. g[s] = Visit[<<g[s \ {Seqs!Max(s)}], records[Seqs!Max(s)]>>]
        BY <1>1, <2>2 DEF FoldsBy
      <3> QED
        BY <2>2, <3>2, <3>3 DEF Visit
    <2> QED
      BY <2>1, <2>2
  <1>3. PICK f : f = [s \in SUBSET (1..n) |->
                        IF s = {} THEN NothingSeen
                        ELSE VisitRecord(g[s \ {Seqs!Max(s)}], records[Seqs!Max(s)])]
    OBVIOUS
  <1>4. g = f
    BY <1>1, <1>2, <1>3
  <1> QED
    BY <1>3, <1>4 DEF Visits

\* v[m] is what the visitor has seen of the first m records.
Visiting(v, records) ==
    /\ v[0] = NothingSeen /\ v[Len(records)].messages = ReadConversation(records)
    /\ \A m \in 0..Len(records) : v[m] \in Seen
    /\ \A m \in 0..Len(records) - 1 : v[m + 1] = VisitRecord(v[m], records[m + 1])

LEMMA VisitsAll ==
  ASSUME NEW records \in Seq(Written)
  PROVE  \E v : Visiting(v, records)
  <1>1. PICK n \in Nat : n = Len(records) /\ DOMAIN records = 1..n
                         /\ \A k \in 1..n : records[k] \in Written
    OBVIOUS
  <1>2. PICK D : D = 1..n
    OBVIOUS
  <1>3. PICK g : Visits(g, records, D) /\ ReadConversation(records) = g[D].messages
    <2>1. \E g : Visits(g, records, D)
      BY <1>1, <1>2, VisitsExist
    <2>2. ReadConversation(records) = (CHOOSE g : Visits(g, records, D))[D].messages
      BY <1>1, <1>2 DEF ReadConversation, Visits, Seqs!FoldLeft, Seqs!MapThenFoldSet
    <2> QED
      BY <2>1, <2>2
  <1>4. \A s \in SUBSET (1..n) :
          g[s] = IF s = {} THEN NothingSeen
                 ELSE VisitRecord(g[s \ {Seqs!Max(s)}], records[Seqs!Max(s)])
    BY <1>2, <1>3 DEF Visits
  <1>5. \A s \in SUBSET (1..n) : s # {} =>
          records[Seqs!Max(s)] \in Written /\ s \ {Seqs!Max(s)} \in SUBSET (1..n)
    <2>1. \A s \in SUBSET (1..n) : s # {} => Seqs!Max(s) \in s
      BY LastIsThere
    <2> QED
      BY <1>1, <2>1
  <1>6. \A s \in SUBSET (1..n) : g[s] \in Seen
    <2>1. g[{}] \in Seen
      BY <1>4, VisitIsTyped
    <2>2. ASSUME NEW s \in SUBSET (1..n), s # {}, g[s \ {Seqs!Max(s)}] \in Seen
          PROVE  g[s] \in Seen
      BY <1>4, <1>5, <2>2, VisitType
    <2> QED
      BY <2>1, <2>2, FoldTyped
  <1>7. TypedFold(Seen, Visit, NothingSeen, records, n, g)
    BY <1>4, <1>5, <1>6 DEF TypedFold, FoldsBy, Visit
  <1>8. PICK v : Turns(Seen, Visit, NothingSeen, records, n, v) /\ v[n] = g[1..n]
    BY <1>7, FoldTurns
  <1>9. \A m \in 0..n - 1 : v[m] \in Seen /\ records[m + 1] \in Written
                              /\ v[m + 1] = Visit[<<v[m], records[m + 1]>>]
    BY <1>1, <1>8 DEF Turns
  <1>10. \A m \in 0..n - 1 : v[m + 1] = VisitRecord(v[m], records[m + 1])
    BY <1>9 DEF Visit
  <1> QED
    BY <1>1, <1>2, <1>3, <1>8, <1>10 DEF Visiting, Turns

-----------------------------------------------------------------------------
(* One writing after the other. *)

Join(R) == [p \in Seq(R) \X Seq(R) |-> p[1] \o p[2]]

\* c[m] is made of the first m sequences.
Joining(c, R, seqs) ==
    /\ c[0] = <<>> /\ c[Len(seqs)] = Seqs!FlattenSeq(seqs)
    /\ \A m \in 0..Len(seqs) : c[m] \in Seq(R)
    /\ \A m \in 0..Len(seqs) - 1 : c[m + 1] = c[m] \o seqs[m + 1]

\* The function that FlattenSeq computes with.
Flattens(f, seqs, n) ==
    f = [i \in 1..n |-> IF i = 1 THEN seqs[i] ELSE f[i - 1] \o seqs[i]]

LEMMA JoinsAll ==
  ASSUME NEW R, NEW seqs \in Seq(Seq(R)), seqs # <<>>
  PROVE  \E c : Joining(c, R, seqs)
  <1>1. PICK n \in Nat : n = Len(seqs) /\ n # 0 /\ \A k \in 1..n : seqs[k] \in Seq(R)
    OBVIOUS
  <1>2. Join(R) \in [Seq(R) \X Seq(R) -> Seq(R)] /\ <<>> \in Seq(R)
    <2>1. \A a, b \in Seq(R) : a \o b \in Seq(R)
      BY ConcatProperties
    <2>2. <<>> \in Seq(R)
      OBVIOUS
    <2> QED
      BY <2>1, <2>2 DEF Join
  <1>3. PICK g : TypedFold(Seq(R), Join(R), <<>>, seqs, n, g)
    <2>1. HasFold(Seq(R), Join(R), <<>>, seqs, n)
      BY <1>1, <1>2, FoldExists
    <2>2. PICK g \in [SUBSET (1..n) -> Seq(R)] : FoldsBy(Join(R), <<>>, seqs, n, g)
      BY <2>1 DEF HasFold
    <2>3. TypedFold(Seq(R), Join(R), <<>>, seqs, n, g)
      BY <2>2 DEF TypedFold
    <2> QED
      BY <2>3
  <1>4. PICK c : Turns(Seq(R), Join(R), <<>>, seqs, n, c)
    BY <1>3, FoldTurns
  <1>5. \A m \in 0..n - 1 : c[m + 1] = c[m] \o seqs[m + 1]
    <2>1. \A m \in 0..n - 1 : c[m] \in Seq(R) /\ seqs[m + 1] \in Seq(R)
                                /\ c[m + 1] = Join(R)[<<c[m], seqs[m + 1]>>]
      BY <1>1, <1>4 DEF Turns
    <2> QED
      BY <2>1 DEF Join
  <1>6. c[1] = seqs[1]
    <2>1. 0 \in 0..n - 1 /\ 0 + 1 = 1 /\ seqs[1] \in Seq(R)
      BY <1>1
    <2>2. c[1] = c[0] \o seqs[1]
      BY <1>5, <2>1
    <2>3. c[0] = <<>>
      BY <1>4 DEF Turns
    <2> QED
      BY <2>1, <2>2, <2>3, ConcatEmptySeq
  <1>7. \E f : Flattens(f, seqs, n)
    <2>1. PICK f : f = [i \in 1..n |-> c[i]]
      OBVIOUS
    <2>2. ASSUME NEW i \in 1..n
          PROVE  f[i] = IF i = 1 THEN seqs[i] ELSE f[i - 1] \o seqs[i]
      <3>1. CASE i = 1
        BY <1>6, <2>1, <3>1
      <3>2. CASE i # 1
        <4>1. i - 1 \in 0..n - 1 /\ i - 1 \in 1..n /\ (i - 1) + 1 = i
          BY <3>2
        <4>2. c[i] = c[i - 1] \o seqs[i]
          BY <1>5, <4>1
        <4> QED
          BY <2>1, <3>2, <4>1, <4>2
      <3> QED
        BY <3>1, <3>2
    <2>3. PICK e : e = [i \in 1..n |-> IF i = 1 THEN seqs[i] ELSE f[i - 1] \o seqs[i]]
      OBVIOUS
    <2>4. f = e
      BY <2>1, <2>2, <2>3
    <2> QED
      BY <2>3, <2>4 DEF Flattens
  <1>8. PICK f : Flattens(f, seqs, n) /\ Seqs!FlattenSeq(seqs) = f[n]
    <2>1. Seqs!FlattenSeq(seqs) = (CHOOSE f : Flattens(f, seqs, n))[n]
      BY <1>1 DEF Seqs!FlattenSeq, Flattens
    <2> QED
      BY <1>7, <2>1
  <1>9. \A i \in 1..n : f[i] = IF i = 1 THEN seqs[i] ELSE f[i - 1] \o seqs[i]
    BY <1>8 DEF Flattens
  <1>10. PICK T : T = {m \in Nat : m + 1 <= n => f[m + 1] = c[m + 1]}
    OBVIOUS
  <1>11. 0 \in T
    <2>1. 0 + 1 = 1 /\ 1 \in 1..n
      BY <1>1
    <2> QED
      BY <1>6, <1>9, <1>10, <2>1
  <1>12. ASSUME NEW m \in Nat, m \in T
         PROVE  m + 1 \in T
    <2>1. SUFFICES ASSUME (m + 1) + 1 <= n PROVE f[(m + 1) + 1] = c[(m + 1) + 1]
      BY <1>10
    <2>2. PICK i : i = m + 1
      OBVIOUS
    <2>3. i <= n /\ i \in 0..n - 1 /\ i + 1 \in 1..n /\ i + 1 # 1 /\ (i + 1) - 1 = i
      BY <2>1, <2>2
    <2>4. f[i] = c[i]
      BY <1>10, <1>12, <2>2, <2>3
    <2>5. f[i + 1] = f[i] \o seqs[i + 1]
      BY <1>9, <2>3
    <2>6. c[i + 1] = c[i] \o seqs[i + 1]
      BY <1>5, <2>3
    <2> QED
      BY <2>2, <2>4, <2>5, <2>6
  <1>13. n - 1 \in T
    <2>1. n - 1 \in Nat
      BY <1>1
    <2> QED
      BY <1>11, <1>12, <2>1, SetInduction
  <1>14. f[n] = c[n]
    <2>1. (n - 1) + 1 = n /\ n <= n
      OBVIOUS
    <2> QED
      BY <1>10, <1>13, <2>1
  <1> QED
    BY <1>1, <1>4, <1>5, <1>8, <1>14 DEF Joining, Turns

\* What is made of the first sequences is what all begin with.
LEMMA JoinsBegin ==
  ASSUME NEW R, NEW seqs \in Seq(Seq(R)), NEW c, Joining(c, R, seqs),
         NEW m \in Nat, m <= Len(seqs)
  PROVE  /\ Len(c[m]) <= Len(c[Len(seqs)])
         /\ \A i \in 1..Len(c[m]) : c[Len(seqs)][i] = c[m][i]
  <1>1. PICK n \in Nat : n = Len(seqs) /\ \A k \in 1..n : seqs[k] \in Seq(R)
    OBVIOUS
  <1>2. PICK T : T = {d \in Nat : m + d <= n =>
                        /\ Len(c[m]) <= Len(c[m + d])
                        /\ \A i \in 1..Len(c[m]) : c[m + d][i] = c[m][i]}
    OBVIOUS
  <1>3. c[m] \in Seq(R) /\ Len(c[m]) \in Nat
    BY <1>1 DEF Joining
  <1>4. 0 \in T
    <2>1. m + 0 = m
      OBVIOUS
    <2> QED
      BY <1>2, <1>3, <2>1
  <1>5. ASSUME NEW d \in Nat, d \in T
        PROVE  d + 1 \in T
    <2>1. SUFFICES ASSUME m + (d + 1) <= n
                   PROVE  /\ Len(c[m]) <= Len(c[m + (d + 1)])
                          /\ \A i \in 1..Len(c[m]) : c[m + (d + 1)][i] = c[m][i]
      BY <1>2
    <2>2. PICK k : k = m + d
      OBVIOUS
    <2>3. k <= n /\ k \in 0..n - 1 /\ k \in 0..n /\ k + 1 \in 1..n /\ m + (d + 1) = k + 1
      BY <2>1, <2>2
    <2>4. c[k] \in Seq(R) /\ seqs[k + 1] \in Seq(R) /\ c[k + 1] = c[k] \o seqs[k + 1]
      BY <1>1, <2>3 DEF Joining
    <2>5. PICK a \in Seq(R), b \in Seq(R) : a = c[k] /\ b = seqs[k + 1]
      BY <2>4
    <2>6. Len(a \o b) = Len(a) + Len(b) /\ Len(a) \in Nat /\ Len(b) \in Nat
          /\ \A i \in 1..Len(a) + Len(b) :
               (a \o b)[i] = IF i <= Len(a) THEN a[i] ELSE b[i - Len(a)]
      BY ConcatProperties
    <2>7. Len(c[m]) <= Len(a) /\ \A i \in 1..Len(c[m]) : a[i] = c[m][i]
      BY <1>2, <1>5, <2>2, <2>3, <2>5
    <2>8. \A i \in 1..Len(c[m]) : i \in 1..Len(a) + Len(b) /\ i <= Len(a)
      BY <1>3, <2>6, <2>7
    <2>9. c[k + 1] = a \o b
      BY <2>4, <2>5
    <2>10. Len(c[m]) <= Len(c[k + 1])
      BY <1>3, <2>6, <2>7, <2>9
    <2>11. \A i \in 1..Len(c[m]) : c[k + 1][i] = c[m][i]
      BY <2>6, <2>7, <2>8, <2>9
    <2> QED
      BY <2>3, <2>10, <2>11
  <1>6. n - m \in Nat /\ m + (n - m) = n /\ n <= n
    BY <1>1
  <1>7. n - m \in T
    BY <1>4, <1>5, <1>6, SetInduction
  <1>8. \A d \in T : m + d <= n =>
          /\ Len(c[m]) <= Len(c[m + d])
          /\ \A i \in 1..Len(c[m]) : c[m + d][i] = c[m][i]
    BY <1>2
  <1>9. PICK d \in T : m + d = n
    BY <1>6, <1>7
  <1>10. PICK k : k = m + d
    OBVIOUS
  <1>11. k <= n /\ k = n
    BY <1>6, <1>9, <1>10
  <1>12. Len(c[m]) <= Len(c[k]) /\ \A i \in 1..Len(c[m]) : c[k][i] = c[m][i]
    BY <1>8, <1>10, <1>11
  <1> QED
    BY <1>1, <1>11, <1>12

\* Behind what is made of the first m sequences, the whole has the next.
NextPiece(c, seqs, m) ==
    /\ Len(c[m]) \in Nat /\ Len(c[m + 1]) = Len(c[m]) + Len(seqs[m + 1])
    /\ Len(c[m + 1]) <= Len(c[Len(seqs)])
    /\ \A i \in 1..Len(seqs[m + 1]) : c[Len(seqs)][Len(c[m]) + i] = seqs[m + 1][i]

LEMMA Pieces ==
  ASSUME NEW R, NEW seqs \in Seq(Seq(R)), NEW c, Joining(c, R, seqs),
         NEW m \in 0..Len(seqs) - 1
  PROVE  NextPiece(c, seqs, m)
  <1>1. m + 1 \in Nat /\ m + 1 <= Len(seqs) /\ m + 1 \in 1..Len(seqs) /\ m \in 0..Len(seqs)
    OBVIOUS
  <1>2. PICK a \in Seq(R), b \in Seq(R) : a = c[m] /\ b = seqs[m + 1] /\ c[m + 1] = a \o b
    <2>1. c[m] \in Seq(R) /\ c[m + 1] = c[m] \o seqs[m + 1]
      BY <1>1 DEF Joining
    <2>2. seqs[m + 1] \in Seq(R)
      BY <1>1
    <2> QED
      BY <2>1, <2>2
  <1>3. Len(a \o b) = Len(a) + Len(b) /\ Len(a) \in Nat /\ Len(b) \in Nat
        /\ \A i \in 1..Len(a) + Len(b) :
             (a \o b)[i] = IF i <= Len(a) THEN a[i] ELSE b[i - Len(a)]
    BY ConcatProperties
  <1>4. /\ Len(c[m + 1]) <= Len(c[Len(seqs)])
        /\ \A i \in 1..Len(c[m + 1]) : c[Len(seqs)][i] = c[m + 1][i]
    BY <1>1, JoinsBegin
  <1>5. \A i \in 1..Len(b) : Len(a) + i \in 1..Len(a) + Len(b) /\ ~(Len(a) + i <= Len(a))
                             /\ (Len(a) + i) - Len(a) = i
    BY <1>3
  <1>6. ASSUME NEW i \in 1..Len(b)
        PROVE  c[Len(seqs)][Len(a) + i] = b[i]
    <2>1. PICK j : j = Len(a) + i
      OBVIOUS
    <2>2. j \in 1..Len(a) + Len(b) /\ ~(j <= Len(a)) /\ j - Len(a) = i
      BY <1>5, <2>1
    <2>3. (a \o b)[j] = b[i]
      BY <1>3, <2>2
    <2>4. j \in 1..Len(c[m + 1])
      BY <1>2, <1>3, <2>2
    <2>5. c[Len(seqs)][j] = c[m + 1][j]
      BY <1>4, <2>4
    <2> QED
      BY <1>2, <2>1, <2>3, <2>5
  <1> QED
    BY <1>2, <1>3, <1>4, <1>6 DEF NextPiece

-----------------------------------------------------------------------------
(* A transcript. *)

\* Two records of one message, without and with another between them.
Twice(writing) ==
    /\ Len(writing) = 2 /\ writing[2] \in Record
    /\ Said(writing[2]) = Said(writing[1]) /\ writing[2].type # writing[1].type

Between(writing) ==
    /\ Len(writing) = 3 /\ writing[2] \in Noise /\ writing[3] \in Record
    /\ Said(writing[3]) = Said(writing[1]) /\ writing[3].type # writing[1].type

LEMMA WritingType ==
  ASSUME NEW writing \in Writings
  PROVE  /\ writing \in Seq(Written) /\ writing[1] \in Record
         /\ Len(writing) = 1 \/ Twice(writing) \/ Between(writing)
  <1>1. CASE \E r \in Record : writing = <<r>>
    <2>1. PICK r \in Record : writing = <<r>>
      BY <1>1
    <2>2. r \in Written
      BY DEF Written
    <2>3. <<r>> \in Seq(Written) /\ Len(<<r>>) = 1 /\ <<r>>[1] = r
      BY <2>2
    <2> QED
      BY <2>1, <2>3
  <1>2. CASE writing \in SameMessage
    <2>1. PICK r, s \in Record : writing = <<r, s>> /\ s.type # r.type /\ Said(r) = Said(s)
      BY <1>2 DEF SameMessage
    <2>2. r \in Written /\ s \in Written
      BY DEF Written
    <2>3. <<r, s>> \in Seq(Written) /\ Len(<<r, s>>) = 2
      BY <2>2
    <2>4. writing[1] = r /\ writing[2] = s
      BY <2>1
    <2> QED
      BY <2>1, <2>3, <2>4 DEF Twice
  <1>3. CASE \E pair \in SameMessage, n \in Noise : writing = <<pair[1], n, pair[2]>>
    <2>1. PICK pair \in SameMessage, n \in Noise : writing = <<pair[1], n, pair[2]>>
      BY <1>3
    <2>2. PICK r, s \in Record : pair = <<r, s>> /\ s.type # r.type /\ Said(r) = Said(s)
      BY DEF SameMessage
    <2>3. r \in Written /\ s \in Written /\ n \in Written
      BY DEF Written
    <2>4. writing = <<r, n, s>>
      BY <2>1, <2>2
    <2>5. <<r, n, s>> \in Seq(Written) /\ Len(<<r, n, s>>) = 3
      BY <2>3
    <2> QED
      BY <2>1, <2>2, <2>4, <2>5 DEF Between
  <1> QED
    BY <1>1, <1>2, <1>3 DEF Writings

\* A message, however it is written from place o on, is one that is told.
LEMMA WritingTold ==
  ASSUME NEW records \in Seq(Written), NEW v, Visiting(v, records),
         NEW writing \in Writings, NEW o \in Nat, o + Len(writing) <= Len(records),
         \A i \in 1..Len(writing) : records[o + i] = writing[i],
         NEW said \in Seq(Utterances), Told(v[o], said)
  PROVE  Told(v[o + Len(writing)], Append(said, Said(writing[1])))
  <1>1. writing \in Seq(Written) /\ writing[1] \in Record /\ Len(writing) \in 1..3
    BY WritingType DEF Twice, Between
  <1>2. \A i \in 1..Len(writing) :
          v[o + (i - 1)] \in Seen /\ v[o + i] = VisitRecord(v[o + (i - 1)], writing[i])
    <2>1. ASSUME NEW i \in 1..Len(writing)
          PROVE  v[o + (i - 1)] \in Seen /\ v[o + i] = VisitRecord(v[o + (i - 1)], writing[i])
      <3>1. PICK m : m = o + (i - 1)
        OBVIOUS
      <3>2. m \in 0..Len(records) - 1 /\ m \in 0..Len(records) /\ m + 1 = o + i
        BY <1>1, <3>1
      <3>3. v[m] \in Seen /\ v[m + 1] = VisitRecord(v[m], records[m + 1])
        BY <3>2 DEF Visiting
      <3> QED
        BY <3>1, <3>2, <3>3
    <2> QED
      BY <2>1
  <1>3. PICK more : more = Append(said, Said(writing[1]))
    OBVIOUS
  <1>4. /\ more \in Seq(Utterances) /\ more # <<>> /\ more[Len(more)] = Said(writing[1])
    <2>1. Said(writing[1]) \in Utterances
      BY <1>1, Utterance
    <2>2. /\ more \in Seq(Utterances) /\ Len(more) = Len(said) + 1
          /\ more[Len(said) + 1] = Said(writing[1]) /\ Len(said) \in Nat
      BY <1>3, <2>1, AppendProperties
    <2>3. more # <<>>
      BY <2>2
    <2> QED
      BY <2>2, <2>3
  <1>5. v[o + 1] \in Seen /\ Told(v[o + 1], more) /\ v[o + 1].type = writing[1].type
    <2>1. 1 \in 1..Len(writing) /\ o + (1 - 1) = o
      BY <1>1
    <2>2. v[o] \in Seen /\ v[o + 1] = VisitRecord(v[o], writing[1])
      BY <1>2, <2>1
    <2>3. Told(v[o + 1], more)
      BY <1>1, <1>3, <2>2, ToldOnce
    <2>4. v[o + 1] = Heard(v[o], writing[1])
      BY <1>1, <2>2, VisitMessage
    <2>5. v[o + 1] \in Seen
      BY <1>1, <2>2, <2>4, HeardType
    <2> QED
      BY <2>3, <2>4, <2>5 DEF Heard
  <1>6. CASE Len(writing) = 1
    BY <1>3, <1>5, <1>6
  <1>7. CASE Twice(writing)
    <2>1. /\ writing[2] \in Record /\ Said(writing[2]) = Said(writing[1])
          /\ writing[2].type # writing[1].type /\ Len(writing) = 2
      BY <1>7 DEF Twice
    <2>2. 2 \in 1..Len(writing) /\ o + (2 - 1) = o + 1
      BY <2>1
    <2>3. v[o + 2] = VisitRecord(v[o + 1], writing[2])
      BY <1>2, <2>2
    <2>4. Told(v[o + 2], more)
      BY <1>4, <1>5, <2>1, <2>3, ToldTwice
    <2> QED
      BY <1>3, <2>1, <2>4
  <1>8. CASE Between(writing)
    <2>1. /\ writing[2] \in Noise /\ writing[3] \in Record
          /\ Said(writing[3]) = Said(writing[1]) /\ writing[3].type # writing[1].type
          /\ Len(writing) = 3
      BY <1>8 DEF Between
    <2>2. 2 \in 1..Len(writing) /\ o + (2 - 1) = o + 1 /\ 3 \in 1..Len(writing)
          /\ o + (3 - 1) = o + 2
      BY <2>1
    <2>3. v[o + 2] = VisitRecord(v[o + 1], writing[2])
      BY <1>2, <2>2
    <2>4. v[o + 2] = v[o + 1]
      BY <2>1, <2>3, VisitNoise
    <2>5. v[o + 3] = VisitRecord(v[o + 2], writing[3])
      BY <1>2, <2>2
    <2>6. Told(v[o + 3], more)
      BY <1>4, <1>5, <2>1, <2>4, <2>5, ToldTwice
    <2> QED
      BY <1>3, <2>1, <2>6
  <1> QED
    BY <1>6, <1>7, <1>8, WritingType

SaidTo(t, m) == [k \in 1..m |-> Said(t[k][1])]

LEMMA SaidNext ==
  ASSUME NEW t, NEW n \in Nat, \A k \in 1..n : t[k] \in Writings,
         NEW m \in 0..n - 1
  PROVE  /\ SaidTo(t, m) \in Seq(Utterances) /\ SaidTo(t, m + 1) \in Seq(Utterances)
         /\ SaidTo(t, m + 1) = Append(SaidTo(t, m), Said(t[m + 1][1]))
  <1>1. \A k \in 1..n : Said(t[k][1]) \in Utterances
    BY WritingType, Utterance
  <1>2. PICK a, b : a = SaidTo(t, m) /\ b = SaidTo(t, m + 1)
    OBVIOUS
  <1>3. a \in Seq(Utterances) /\ Len(a) = m /\ \A k \in 1..m : a[k] = Said(t[k][1])
    <2>1. m \in Nat /\ \A k \in 1..m : k \in 1..n
      OBVIOUS
    <2> QED
      BY <1>1, <1>2, <2>1 DEF SaidTo
  <1>4. b \in Seq(Utterances) /\ Len(b) = m + 1 /\ \A k \in 1..m + 1 : b[k] = Said(t[k][1])
    <2>1. m + 1 \in Nat /\ \A k \in 1..m + 1 : k \in 1..n
      OBVIOUS
    <2> QED
      BY <1>1, <1>2, <2>1 DEF SaidTo
  <1>5. PICK x \in Utterances : x = Said(t[m + 1][1])
    BY <1>1
  <1>6. PICK c : c = Append(a, x)
    OBVIOUS
  <1>7. /\ c \in Seq(Utterances) /\ Len(c) = m + 1 /\ c[m + 1] = x
        /\ \A k \in 1..m : c[k] = a[k]
    BY <1>3, <1>6, AppendProperties
  <1>8. \A k \in 1..m + 1 : c[k] = b[k]
    <2>1. \A k \in 1..m + 1 : k \in 1..m \/ k = m + 1
      OBVIOUS
    <2> QED
      BY <1>3, <1>4, <1>5, <1>7, <2>1
  <1>9. b = c
    BY <1>4, <1>7, <1>8, SeqEqual
  <1> QED
    BY <1>2, <1>3, <1>4, <1>5, <1>6, <1>9

LEMMA TranscriptTold ==
  ASSUME NEW n \in Nat, NEW t \in [1..n -> Writings]
  PROVE  \E seen \in Seen : /\ seen.messages = ReadConversation(Seqs!FlattenSeq(t))
                            /\ Told(seen, SaidTo(t, n))
  <1>1. CASE n = 0
    <2>1. 1..0 = {} /\ t \in Seq(Written) /\ t = <<>>
      BY <1>1
    <2>2. Len(t) = 0 /\ t \in Seq(Written)
      BY <2>1
    <2>3. Seqs!FlattenSeq(t) = t
      BY <2>2 DEF Seqs!FlattenSeq
    <2>4. PICK v : Visiting(v, t)
      BY <2>2, VisitsAll
    <2>5. NothingSeen.messages = ReadConversation(t)
      BY <2>2, <2>4 DEF Visiting
    <2>6. SaidTo(t, n) = <<>>
      BY <1>1, <2>1 DEF SaidTo
    <2> QED
      BY <2>3, <2>5, <2>6, NothingTold
  <1>2. CASE n # 0
    <2>1. t \in Seq(Seq(Written)) /\ Len(t) = n /\ t # <<>> /\ \A k \in 1..n : t[k] \in Writings
      <3>1. \A k \in 1..n : t[k] \in Seq(Written)
        BY WritingType
      <3>2. t \in [1..n -> Seq(Written)]
        BY <3>1
      <3>3. t \in Seq(Seq(Written)) /\ Len(t) = n
        BY <3>2
      <3>4. t # <<>>
        <4>1. Len(<<>>) = 0
          OBVIOUS
        <4> QED
          BY <1>2, <3>3, <4>1
      <3> QED
        BY <3>3, <3>4
    <2>2. PICK c : Joining(c, Written, t)
      BY <2>1, JoinsAll
    <2>3. PICK records \in Seq(Written) : records = c[n] /\ records = Seqs!FlattenSeq(t)
      BY <2>1, <2>2 DEF Joining
    <2>4. PICK v : Visiting(v, records)
      BY VisitsAll
    <2>5. PICK T : T = {m \in Nat : m <= n => Told(v[Len(c[m])], SaidTo(t, m))}
      OBVIOUS
    <2>6. 0 \in T
      <3>1. SaidTo(t, 0) = <<>>
        <4>1. 1..0 = {}
          OBVIOUS
        <4> QED
          BY <4>1 DEF SaidTo
      <3>2. Len(c[0]) = 0 /\ v[0] = NothingSeen
        BY <2>2, <2>4 DEF Joining, Visiting
      <3> QED
        BY <2>5, <3>1, <3>2, NothingTold
    <2>7. ASSUME NEW m \in Nat, m \in T
          PROVE  m + 1 \in T
      <3>1. SUFFICES ASSUME m + 1 <= n PROVE Told(v[Len(c[m + 1])], SaidTo(t, m + 1))
        BY <2>5
      <3>2. m <= n /\ m \in 0..n - 1 /\ m + 1 \in 1..n
        BY <3>1
      <3>3. PICK o, writing : o = Len(c[m]) /\ writing = t[m + 1]
        OBVIOUS
      <3>4. /\ o \in Nat /\ Len(c[m + 1]) = o + Len(writing)
            /\ o + Len(writing) <= Len(records) /\ writing \in Writings
            /\ \A i \in 1..Len(writing) : records[o + i] = writing[i]
        <4>1. m \in 0..Len(t) - 1
          BY <2>1, <3>2
        <4>2. NextPiece(c, t, m)
          BY <2>1, <2>2, <4>1, Pieces
        <4>3. c[Len(t)] = records /\ writing \in Writings
          BY <2>1, <2>3, <3>2, <3>3
        <4> QED
          BY <3>3, <4>2, <4>3 DEF NextPiece
      <3>5. PICK said \in Seq(Utterances) :
               said = SaidTo(t, m) /\ SaidTo(t, m + 1) = Append(said, Said(writing[1]))
        BY <2>1, <3>2, <3>3, SaidNext
      <3>6. Told(v[o], said)
        BY <2>5, <2>7, <3>2, <3>3, <3>5
      <3>7. Told(v[o + Len(writing)], Append(said, Said(writing[1])))
        BY <2>4, <3>4, <3>6, WritingTold
      <3> QED
        BY <3>4, <3>5, <3>7
    <2>8. n \in T
      BY <2>6, <2>7, SetInduction
    <2>9. Told(v[Len(records)], SaidTo(t, n))
      <3>1. n <= n
        OBVIOUS
      <3> QED
        BY <2>3, <2>5, <2>8, <3>1
    <2>10. v[Len(records)] \in Seen /\ v[Len(records)].messages = ReadConversation(records)
      <3>1. Len(records) \in 0..Len(records)
        OBVIOUS
      <3> QED
        BY <2>4, <3>1 DEF Visiting
    <2> QED
      BY <2>3, <2>9, <2>10
  <1> QED
    BY <1>1, <1>2

OnlyRepeated(r) == Squeezed(r.shown) = Squeezed(r.said) /\ Len(r.shown) <= Len(r.said)

LEMMA ReadingsRepeat ==
  ASSUME NEW r \in Readings
  PROVE  OnlyRepeated(r)
  <1>1. PICK t \in Transcripts :
           r = [evenly |-> Evenly(t),
                said |-> [k \in DOMAIN t |-> Said(t[k][1])],
                shown |-> LET read == ReadConversation(Seqs!FlattenSeq(t)) IN
                          [k \in DOMAIN read |->
                             [role |-> read[k].role, text |-> NormalizeWhitespace(read[k].text)]]]
    BY DEF Readings
  <1>2. PICK read : read = ReadConversation(Seqs!FlattenSeq(t))
    OBVIOUS
  <1>3. PICK n \in Nat : t \in [1..n -> Writings]
    BY DEF Transcripts
  <1>4. r.said = SaidTo(t, n)
    BY <1>1, <1>3 DEF SaidTo
  <1>5. r.shown = Shown(read)
    BY <1>1, <1>2 DEF Shown, Normal
  <1>6. PICK seen \in Seen : seen.messages = read /\ Told(seen, SaidTo(t, n))
    BY <1>2, <1>3, TranscriptTold
  <1>7. read \in Seq(Utterances)
    BY <1>6 DEF Seen
  <1>8. Len(Shown(read)) = Len(read)
    BY <1>7, ShownType
  <1> QED
    BY <1>4, <1>5, <1>6, <1>8 DEF Told, OnlyRepeated

(***************************************************************************)
(* However Codex recorded the messages, what show makes of a rollout is,   *)
(* up to repetitions, what was said, and no longer (conversation.go:19).   *)
(***************************************************************************)
THEOREM OnlyRepetitionsAreMerged == CommandsSpec => []OnlyRepetitionsMerge
  <1>1. LTInv => OnlyRepetitionsMerge
    <2> SUFFICES ASSUME LTInv PROVE OnlyRepetitionsMerge
      OBVIOUS
    <2>1. PICK r : r = lookup.reading
      OBVIOUS
    <2>2. r \in Readings \cup {NoReading}
      BY <2>1 DEF LTInv, Proper, LookupFrame
    <2>3. OnlyRepeated(NoReading)
      BY DEF OnlyRepeated, NoReading
    <2>4. OnlyRepeated(r)
      BY <2>2, <2>3, ReadingsRepeat
    <2> QED
      BY <2>1, <2>4 DEF OnlyRepeated, OnlyRepetitionsMerge
  <1> QED
    BY <1>1, LookupTyped, PTL
=============================================================================
