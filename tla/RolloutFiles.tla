---------------------------- MODULE RolloutFiles ----------------------------
(***************************************************************************)
(* The rollout files under a Codex home and what Codex and the user do to  *)
(* them while cxq runs.  Codex is not part of this repository: its actions *)
(* are modelled from what internal/codex and the README assume of it.      *)
(* Below them, how internal/codex reads one file.                          *)
(*                                                                         *)
(* The content of a file is the session it belongs to and how many records *)
(* of it have been written: rollouts are append-only, so these two         *)
(* determine the bytes, hence the SHA-256 and the decoded conversation.    *)
(***************************************************************************)
EXTENDS Sessions, Naturals, FiniteSets

CONSTANTS
    Path,           \* rollout paths: numbers, in the order sort.Strings gives
    Archived,       \* the paths below archived_sessions, the others are below sessions
    StandardName,   \* the paths named rollout-<time>-<id>.jsonl
    MayHold,        \* [Path -> SUBSET Session]: whose rollout may appear there
    TimeOf,         \* [Path -> Nat]: the session timestamp read from there
    MTime,          \* modification times
    NoFile,         \* "there is no file"
    MaxLen,         \* bound on the records of a rollout
    MaxChanges,     \* bound on the changes made to the files
    MoveBack        \* TRUE iff rollouts also move out of the archive

ASSUME PathAssumption ==
    /\ Path \subseteq Nat
    /\ Archived \subseteq Path /\ StandardName \subseteq Path
    /\ \A p \in Archived, q \in Path \ Archived : p < q
ASSUME FileAssumption ==
    /\ MayHold \in [Path -> SUBSET Session]
    /\ \A p \in StandardName : \A s, t \in MayHold[p] : s = t
    /\ TimeOf \in [Path -> Nat]
    /\ MaxLen \in Nat /\ MaxChanges \in Nat /\ MoveBack \in BOOLEAN
    /\ NoFile \notin [sid : Session, len : 0..MaxLen, mtime : MTime]

VARIABLES
    fs,         \* [Path -> file or NoFile]
    high,       \* the longest each session's rollout has ever been at each path
    changes     \* the changes made so far

filesVars == <<fs, high, changes>>

File == [sid : Session, len : 0..MaxLen, mtime : MTime]
Content == [sid : Session, len : 0..MaxLen]

FilesTypeOK ==
    /\ fs \in [Path -> File \cup {NoFile}]
    /\ high \in [Path -> [Session -> 0..MaxLen]]
    /\ changes \in 0..MaxChanges

Exists(p) == fs[p] # NoFile

\* Append-only, per path: nothing at a path is ever shorter than what was there.
HighAfter ==
    [p \in Path |-> [s \in Session |->
        IF fs[p] # NoFile /\ fs[p].sid = s THEN fs[p].len ELSE 0]]

FilesInit ==
    /\ fs \in {f \in [Path -> File \cup {NoFile}] :
                 \A p \in Path : f[p] # NoFile => f[p].sid \in MayHold[p]}
    /\ high = HighAfter
    /\ changes = 0

Put(p, file) ==
    /\ fs' = [fs EXCEPT ![p] = file]
    /\ high' = [high EXCEPT ![p][file.sid] = file.len]

-----------------------------------------------------------------------------
(* Codex and the user. *)

\* A new session starts empty; one restored from a backup is as long as it was.
\* Ids are unique: where there are two copies of a session, both were there at first.
Create(p, s) ==
    /\ ~Exists(p) /\ s \in MayHold[p]
    /\ \A q \in Path : Exists(q) => fs[q].sid # s
    /\ \E t \in MTime : Put(p, [sid |-> s, len |-> high[p][s], mtime |-> t])

\* A turn is appended.  Clocks are coarse: the modification time may not move.
AppendRecord(p) ==
    /\ Exists(p) /\ fs[p].len < MaxLen
    /\ \E t \in MTime :
         Put(p, [fs[p] EXCEPT !.len = @ + 1, !.mtime = t])

\* touch, a restore, a sync tool: same bytes, another modification time.
Touch(p) ==
    /\ Exists(p)
    /\ \E t \in MTime \ {fs[p].mtime} : Put(p, [fs[p] EXCEPT !.mtime = t])

\* A session is archived, or brought back: rename(2) keeps size and mtime.
Move(p, q) ==
    /\ Exists(p) /\ ~Exists(q)
    /\ fs[p].sid \in MayHold[q] /\ high[q][fs[p].sid] <= fs[p].len
    /\ fs' = [fs EXCEPT ![p] = NoFile, ![q] = fs[p]]
    /\ high' = [high EXCEPT ![q][fs[p].sid] = fs[p].len]

Archive(p, q) == p \notin Archived /\ q \in Archived /\ Move(p, q)

Unarchive(p, q) == MoveBack /\ p \in Archived /\ q \notin Archived /\ Move(p, q)

DeleteFile(p) ==
    /\ Exists(p)
    /\ fs' = [fs EXCEPT ![p] = NoFile]
    /\ high' = high

FilesNext ==
    /\ changes < MaxChanges
    /\ changes' = changes + 1
    /\ \/ \E p \in Path, s \in Session : Create(p, s)
       \/ \E p \in Path : AppendRecord(p) \/ Touch(p) \/ DeleteFile(p)
       \/ \E p, q \in Path : Archive(p, q) \/ Unarchive(p, q)

-----------------------------------------------------------------------------
(* Reading one file. *)

\* os.Stat: what the refresh compares before it reads anything.
Fingerprint(p) == [size |-> fs[p].len, mtime |-> fs[p].mtime]

\* The bytes from open to end of file.
Bytes(p) == [sid |-> fs[p].sid, len |-> fs[p].len]

(***************************************************************************)
(* ParseFile: the id of the session_meta record; a file with none yet (an  *)
(* empty one) takes the id in its name, when the name has one.             *)
(***************************************************************************)
Parses(p) == Exists(p) /\ (fs[p].len > 0 \/ p \in StandardName)

ParsedID(p) == fs[p].sid

(***************************************************************************)
(* The catalog of a set of paths by its definition: the newest readable    *)
(* copy of each session, and of equally new ones the first path.           *)
(***************************************************************************)
Newest(paths, s) ==
    {p \in paths : /\ Parses(p) /\ ParsedID(p) = s
                   /\ \A q \in paths : Parses(q) /\ ParsedID(q) = s =>
                        TimeOf[q] < TimeOf[p] \/ (TimeOf[q] = TimeOf[p] /\ p <= q)}
=============================================================================
