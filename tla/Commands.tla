------------------------------- MODULE Commands -------------------------------
(***************************************************************************)
(* The read-only commands of cxq on one Codex home: list, show, open and   *)
(* resume (Lookup), live search (LiveSearch), indexed search, pack, status *)
(* and compare (IndexedCommands).  A user runs them one after another,     *)
(* while Codex goes on writing; they write nothing that another would read *)
(* but, perhaps, an empty database.                                        *)
(***************************************************************************)
EXTENDS IndexedCommands, Lookup

searchVars == <<search, quiet, lasting, interrupted>>

commandsVars == <<filesVars, searchVars, lookupVars, indexedVars>>

CommandsInit == Init /\ LookupInit /\ IndexedInit

NothingRuns == search.pc = "idle" /\ lookup.pc = "idle" /\ command.pc = "idle"

NoProcess ==
    /\ NothingRuns
    /\ search.outcome = "none" /\ lookup.outcome = "none" /\ command.outcome = "none"

\* The process ends, and what it has printed is of no concern to the next.
Exit ==
    /\ NothingRuns /\ ~NoProcess
    /\ search' = Fresh("idle", FALSE, NoOptions)
    /\ quiet' = FALSE /\ lasting' = {} /\ interrupted' = FALSE
    /\ lookup' = Idle("none") /\ present' = {} /\ undisturbed' = FALSE
    /\ command' = NoCommand("none") /\ database' = None /\ removed' = FALSE
    /\ UNCHANGED filesVars

\* runList, runShow, runOpen, runResume
RunLookup ==
    NoProcess /\ BeginLookup /\ UNCHANGED <<filesVars, searchVars, indexedVars>>

\* runSearch without --index, and the first half of runCompare
RunSearch == NoProcess /\ Start /\ UNCHANGED <<lookupVars, indexedVars>>

\* The second half: nothing but what has returned is kept of the first.
ContinueCompare ==
    /\ NothingRuns /\ command.outcome = "none" /\ BeginCompare
    /\ lasting' = {} /\ UNCHANGED <<filesVars, search, quiet, interrupted, lookupVars>>

\* runSearch with --index, runPack, runStatus
RunIndexed ==
    NoProcess /\ BeginIndexed /\ UNCHANGED <<filesVars, searchVars, lookupVars>>

CommandRuns ==
    \/ (Work \/ Cancel) /\ UNCHANGED <<lookupVars, indexedVars>>
    \/ LookupWork /\ UNCHANGED <<filesVars, searchVars, indexedVars>>
    \/ (IndexedWork \/ DatabaseDisturbed) /\ UNCHANGED <<filesVars, searchVars, lookupVars>>

\* At any time; but a command that is over can be taken to exit first.
FilesChange ==
    /\ lookup.outcome = "none" /\ command.outcome = "none"
    /\ Codex /\ LookupDisturbed /\ UNCHANGED indexedVars

CommandsNext ==
    RunLookup \/ RunSearch \/ ContinueCompare \/ RunIndexed \/ CommandRuns \/ Exit \/ FilesChange

CommandsSpec == CommandsInit /\ [][CommandsNext]_commandsVars
=============================================================================
