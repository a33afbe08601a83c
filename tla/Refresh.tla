------------------------------- MODULE Refresh ------------------------------
(***************************************************************************)
(* "cxq index": internal/indexer's BuildWithOptions over the catalog of    *)
(* internal/codex and the derived index of internal/index.  Every call     *)
(* that reads a file, the context or the database is a step of its own, so *)
(* that Codex, the user, a crash or a second cxq can act in between; each  *)
(* database transaction is one step, as SqliteIndex.tla justifies.         *)
(*                                                                         *)
(* A refresher's job is the frame of BuildWithOptions: its locals and      *)
(* where it stands (pc).                                                   *)
(***************************************************************************)
EXTENDS Discovery, IndexStore

CONSTANTS
    Refresher,  \* the cxq processes that may run at the same time
    BatchSize,  \* indexWriteBatchSize
    MaxFaults,  \* bound on crashes, errors, cancellations and vanishing directories
    None        \* an unset local

ASSUME RefreshAssumption == BatchSize \in Nat \ {0} /\ MaxFaults \in Nat
ASSUME AbsentAssumption ==
    /\ NoRow \notin [path : Path, hash : Content, size : 0..MaxLen, mtime : MTime]
    /\ NoDoc \notin Content
    /\ None \notin Path \cup Session \cup Content
    /\ None \notin [size : 0..MaxLen, mtime : MTime]

VARIABLES
    job,        \* [Refresher -> Job]
    faults,     \* the faults so far
    \* History, read by the properties only; for each refresher, of its last run:
    kept,       \* the sessions that have had a readable rollout ever since it began,
                \* none of whose rollouts lay behind a directory that vanished
    quiet,      \* no file or directory has changed since it began
    cut         \* a file it wanted to read went unread because of the cancellation

historyVars == <<kept, quiet, cut>>
vars == <<filesVars, storeVars, job, faults, historyVars>>

Row == [path : Path, hash : Content, size : 0..MaxLen, mtime : MTime]

Stage == {"idle", "walkActive", "walkArchived", "parse", "load", "next", "hash",
          "decode", "flush", "flushFp", "flushLast", "flushFpLast", "stale"}

\* What the last run returned: an error, or none with or without warnings.
Outcome == {"none", "clean", "warned", "error"}

IdleJob(outcome) ==
    [pc |-> "idle", full |-> FALSE, cancelled |-> FALSE, outcome |-> outcome,
     unparsed |-> {},                       \* paths discovered and not yet parsed
     byId |-> [s \in Session |-> None],     \* the catalog
     warned |-> FALSE,                      \* the catalog reported a warning
     soft |-> FALSE,                        \* the loop added a warning of its own
     loaded |-> [s \in Session |-> NoRow],  \* the index as read at the start
     todo |-> {},                           \* catalog sessions not yet visited
     cur |-> None, stat |-> None, hash |-> None,
     pend |-> <<>>, pendFp |-> <<>>,        \* pending, pendingFingerprintUpdates
     gone |-> {}]                           \* indexed sessions not yet checked for staleness

Init ==
    /\ FilesInit
    /\ sess = [s \in Session |-> NoRow]
    /\ docs = [s \in Session |-> NoDoc]
    /\ job = [r \in Refresher |-> IdleJob("none")]
    /\ faults = 0
    /\ kept = [r \in Refresher |-> {}]
    /\ quiet = [r \in Refresher |-> FALSE]
    /\ cut = [r \in Refresher |-> FALSE]

LiveSessions == {s \in Session : \E p \in Path : Parses(p) /\ ParsedID(p) = s}

-----------------------------------------------------------------------------
(* How a step ends. *)

Become(r, j) == job' = [job EXCEPT ![r] = j]

\* BuildWithOptions returns; its locals die with it.
Return(r, outcome) ==
    /\ Become(r, IdleJob(outcome))
    /\ UNCHANGED <<storeVars, cut>>

\* The store is left alone, and so is the record of a cut read.
Proceed(r, j) ==
    /\ Become(r, j)
    /\ UNCHANGED <<storeVars, cut>>

-----------------------------------------------------------------------------
(* The run, step by step. *)

Start(r) ==
    /\ job[r].pc = "idle"
    /\ \E full \in BOOLEAN :
         Become(r, [IdleJob("none") EXCEPT !.pc = "walkActive", !.full = full])
    /\ kept' = [kept EXCEPT ![r] = LiveSessions]
    /\ quiet' = [quiet EXCEPT ![r] = TRUE]
    /\ cut' = [cut EXCEPT ![r] = FALSE]
    /\ UNCHANGED <<filesVars, storeVars, faults>>

\* DiscoverFilesContext walks the active root, then the archive.
WalkRoot(r, here, root, after) ==
    LET j == job[r] IN
    /\ j.pc = here
    /\ \/ j.cancelled /\ Return(r, "error")
       \/ /\ ~j.cancelled
          /\ Proceed(r, [j EXCEPT !.pc = after,
                                  !.unparsed = @ \cup Complete(root)])

Walk(r) ==
    \/ WalkRoot(r, "walkActive", Path \ Archived, "walkArchived")
    \/ WalkRoot(r, "walkArchived", Archived, "parse")

\* Of two copies of a session the newer one wins, the first of equally new ones.
Supersedes(byId, p) ==
    byId[ParsedID(p)] = None \/ TimeOf[p] > TimeOf[byId[ParsedID(p)]]

\* parseSessionsContext, one path at a time in sorted order.
Parse(r) ==
    LET j == job[r] IN
    /\ j.pc = "parse"
    /\ \/ j.cancelled /\ Return(r, "error")
       \/ ~j.cancelled /\ j.unparsed = {} /\ Proceed(r, [j EXCEPT !.pc = "load"])
       \/ /\ ~j.cancelled
          /\ \E p \in j.unparsed :
               /\ \A q \in j.unparsed : p <= q
               /\ \/ /\ ~Parses(p)
                     /\ Proceed(r, [j EXCEPT !.unparsed = @ \ {p}, !.warned = TRUE])
                  \/ /\ Parses(p)
                     /\ Proceed(r, [j EXCEPT !.unparsed = @ \ {p},
                           !.byId = IF Supersedes(@, p)
                                    THEN [@ EXCEPT ![ParsedID(p)] = p] ELSE @])

\* A slip: the loop also visits sessions that are only in the index.
LoadAndVisitAll(r) ==
    LET j == job[r] IN
    /\ j.pc = "load"
    /\ \/ j.cancelled /\ Return(r, "error")
       \/ /\ ~j.cancelled
          /\ Proceed(r, [j EXCEPT !.pc = "next", !.loaded = sess,
                !.todo = {s \in Session : j.byId[s] # None \/ sess[s] # NoRow}])

\* store.Sessions
Load(r) ==
    LET j == job[r] IN
    /\ j.pc = "load"
    /\ \/ j.cancelled /\ Return(r, "error")
       \/ /\ ~j.cancelled
          /\ Proceed(r, [j EXCEPT !.pc = "next", !.loaded = sess,
                                  !.todo = {s \in Session : j.byId[s] # None}])

\* A slip: the size is not compared.
MatchesMTime(j, s, st) ==
    /\ j.loaded[s] # NoRow
    /\ j.loaded[s].path = j.byId[s]
    /\ j.loaded[s].mtime = st.mtime

\* The size and mtime of the row the run has loaded are those of st.
Matches(j, s, st) ==
    /\ j.loaded[s] # NoRow
    /\ j.loaded[s].path = j.byId[s]
    /\ j.loaded[s].size = st.size /\ j.loaded[s].mtime = st.mtime

NewestFirst(j, s) == \A t \in j.todo : TimeOf[j.byId[t]] <= TimeOf[j.byId[s]]

\* The head of the loop: the context, os.Stat and the fingerprint fast path.
Visit(r) ==
    LET j == job[r] IN
    /\ j.pc = "next"
    /\ \/ j.todo = {} /\ Proceed(r, [j EXCEPT !.pc = "flushLast"])
       \/ j.todo # {} /\ j.cancelled /\ Return(r, "error")
       \/ /\ ~j.cancelled
          /\ \E s \in j.todo :
               LET p == j.byId[s]
                   visited == [j EXCEPT !.todo = @ \ {s}] IN
               /\ NewestFirst(j, s)
               /\ \/ ~Exists(p) /\ Proceed(r, [visited EXCEPT !.soft = TRUE])
                  \/ /\ Exists(p) /\ Matches(j, s, Fingerprint(p)) /\ ~j.full
                     /\ Proceed(r, visited)
                  \/ /\ Exists(p) /\ (Matches(j, s, Fingerprint(p)) => j.full)
                     /\ Proceed(r, [visited EXCEPT !.pc = "hash", !.cur = s,
                                                   !.stat = Fingerprint(p)])

\* A file that cannot be read, or whose reading is cancelled, is a warning.
ReadFails(r) ==
    LET j == job[r] IN
    /\ j.cancelled \/ ~Exists(j.byId[j.cur])
    /\ Become(r, [j EXCEPT !.pc = "next", !.soft = TRUE,
                           !.cur = None, !.stat = None, !.hash = None])
    /\ cut' = [cut EXCEPT ![r] = @ \/ job[r].cancelled]
    /\ UNCHANGED storeVars

RowOf(path, hash, stat) ==
    [path |-> path, hash |-> hash, size |-> stat.size, mtime |-> stat.mtime]

Settled(j, pc) == [j EXCEPT !.pc = pc, !.cur = None, !.stat = None, !.hash = None]

AfterAppend(batch, full) == IF Len(batch) + 1 = BatchSize THEN full ELSE "next"

\* A slip: content at a known path counts as unchanged.
SamePath(j, hash) ==
    /\ j.loaded[j.cur] # NoRow
    /\ j.loaded[j.cur].path = j.byId[j.cur]

SameBytes(j, hash) ==
    /\ j.loaded[j.cur] # NoRow
    /\ j.loaded[j.cur].hash = hash
    /\ j.loaded[j.cur].path = j.byId[j.cur]

\* hashRolloutContextMeasured, and what follows when the content is unchanged.
Hash(r) ==
    LET j == job[r]
        p == j.byId[j.cur] IN
    /\ j.pc = "hash"
    /\ \/ ReadFails(r)
       \/ /\ ~j.cancelled /\ Exists(p)
          /\ \/ /\ SameBytes(j, Bytes(p)) /\ Matches(j, j.cur, j.stat)
                /\ Proceed(r, Settled(j, "next"))
             \/ /\ SameBytes(j, Bytes(p)) /\ ~Matches(j, j.cur, j.stat)
                /\ Proceed(r, [Settled(j, AfterAppend(j.pendFp, "flushFp")) EXCEPT
                     !.pendFp = Append(@, [id |-> j.cur,
                                           row |-> RowOf(p, Bytes(p), j.stat)])])
             \/ /\ ~SameBytes(j, Bytes(p))
                /\ Proceed(r, [j EXCEPT !.pc = "decode", !.hash = Bytes(p)])

\* A slip: the row takes the size and mtime of the file as it is by now.
DecodeAndRestat(r) ==
    LET j == job[r]
        p == j.byId[j.cur] IN
    /\ j.pc = "decode"
    /\ \/ ReadFails(r)
       \/ /\ ~j.cancelled /\ Exists(p)
          /\ Proceed(r, [Settled(j, AfterAppend(j.pend, "flush")) EXCEPT
               !.pend = Append(@, [id |-> j.cur, row |-> RowOf(p, j.hash, Fingerprint(p)),
                                   doc |-> Bytes(p)])])

\* ReadConversationContextMeasured opens and reads the file once more.
Decode(r) ==
    LET j == job[r]
        p == j.byId[j.cur] IN
    /\ j.pc = "decode"
    /\ \/ ReadFails(r)
       \/ /\ ~j.cancelled /\ Exists(p)
          /\ Proceed(r, [Settled(j, AfterAppend(j.pend, "flush")) EXCEPT
               !.pend = Append(@, [id |-> j.cur, row |-> RowOf(p, j.hash, j.stat),
                                   doc |-> Bytes(p)])])

\* flushPending, within the loop and after it.
Flush(r) ==
    LET j == job[r]
        after == IF j.pc = "flush" THEN "next" ELSE "flushFpLast" IN
    /\ j.pc \in {"flush", "flushLast"}
    /\ \/ j.pend = <<>> /\ Proceed(r, [j EXCEPT !.pc = after])
       \/ /\ j.pend # <<>> /\ (j.cancelled \/ ~Admissible(j.pend))
          /\ Return(r, "error")
       \/ /\ j.pend # <<>> /\ ~j.cancelled
          /\ ReplaceSessions(j.pend)
          /\ Become(r, [j EXCEPT !.pc = after, !.pend = <<>>])
          /\ cut' = cut

\* flushFingerprintUpdates, within the loop and after it.
FlushFp(r) ==
    LET j == job[r]
        after == IF j.pc = "flushFp" THEN [j EXCEPT !.pc = "next"]
                 ELSE [j EXCEPT !.pc = "stale",
                                !.gone = {s \in Session : j.loaded[s] # NoRow}] IN
    /\ j.pc \in {"flushFp", "flushFpLast"}
    /\ \/ j.pendFp = <<>> /\ Proceed(r, after)
       \/ /\ j.pendFp # <<>> /\ (j.cancelled \/ ~Admissible(j.pendFp))
          /\ Return(r, "error")
       \/ /\ j.pendFp # <<>> /\ ~j.cancelled
          /\ UpsertSessions(j.pendFp)
          /\ Become(r, [after EXCEPT !.pendFp = <<>>])
          /\ cut' = cut

\* A slip: catalog warnings do not hold deletion back.
StaleDespiteWarnings(r) ==
    LET j == job[r] IN
    /\ j.pc = "stale"
    /\ \/ j.gone = {} /\ Return(r, IF j.warned \/ j.soft THEN "warned" ELSE "clean")
       \/ j.gone # {} /\ j.cancelled /\ Return(r, "error")
       \/ /\ ~j.cancelled
          /\ \E s \in j.gone :
               /\ Become(r, [j EXCEPT !.gone = @ \ {s}])
               /\ IF j.byId[s] = None THEN DeleteSession(s) ELSE UNCHANGED storeVars
               /\ cut' = cut

\* Removing the indexed sessions the catalog lacks, unless it had warnings.
Stale(r) ==
    LET j == job[r] IN
    /\ j.pc = "stale"
    /\ \/ /\ j.warned \/ j.gone = {}
          /\ Return(r, IF j.warned \/ j.soft THEN "warned" ELSE "clean")
       \/ ~j.warned /\ j.gone # {} /\ j.cancelled /\ Return(r, "error")
       \/ /\ ~j.warned /\ ~j.cancelled
          /\ \E s \in j.gone :
               /\ Become(r, [j EXCEPT !.gone = @ \ {s}])
               /\ IF j.byId[s] = None THEN DeleteSession(s) ELSE UNCHANGED storeVars
               /\ cut' = cut

Work(r) ==
    /\ Walk(r) \/ Parse(r) \/ Load(r) \/ Visit(r) \/ Hash(r) \/ Decode(r)
       \/ Flush(r) \/ FlushFp(r) \/ Stale(r)
    /\ UNCHANGED <<filesVars, faults, kept, quiet>>

-----------------------------------------------------------------------------
(* What happens to a run. *)

\* Ctrl+C: the context is cancelled.
Cancel(r) ==
    /\ job[r].pc # "idle" /\ ~job[r].cancelled
    /\ Become(r, [job[r] EXCEPT !.cancelled = TRUE])
    /\ UNCHANGED <<storeVars, cut>>

\* A directory that cannot be read, a database that is busy, full or broken.
CallsOut(j) ==
    \/ j.pc \in {"walkActive", "walkArchived", "load"}
    \/ j.pc \in {"flush", "flushLast"} /\ j.pend # <<>>
    \/ j.pc \in {"flushFp", "flushFpLast"} /\ j.pendFp # <<>>
    \/ j.pc = "stale" /\ ~j.warned /\ \E s \in j.gone : j.byId[s] = None

IoError(r) == CallsOut(job[r]) /\ Return(r, "error")

\* The process dies; SQLite rolls back what it had not committed.
Crash(r) == job[r].pc # "idle" /\ Return(r, "none")

\* A directory vanishes as the walk comes to it, and the rest of the root goes unseen.
CutWalk(r, here, root, after) ==
    /\ job[r].pc = here /\ ~job[r].cancelled
    /\ \E d \in Vanishing(root) :
         /\ Proceed(r, [job[r] EXCEPT !.pc = after, !.unparsed = @ \cup UpTo(root, d)])
         /\ kept' = [kept EXCEPT ![r] = @ \ {ParsedID(p) : p \in Unseen(root, d)}]

DirectoryVanishes(r) ==
    /\ \/ CutWalk(r, "walkActive", Path \ Archived, "walkArchived")
       \/ CutWalk(r, "walkArchived", Archived, "parse")
    /\ quiet' = [quiet EXCEPT ![r] = FALSE]

Fault(r) ==
    /\ faults < MaxFaults
    /\ faults' = faults + 1
    /\ \/ (Cancel(r) \/ IoError(r) \/ Crash(r)) /\ UNCHANGED <<kept, quiet>>
       \/ DirectoryVanishes(r)
    /\ UNCHANGED filesVars

Codex ==
    /\ FilesNext
    /\ kept' = [r \in Refresher |-> kept[r] \cap LiveSessions']
    /\ quiet' = [r \in Refresher |-> FALSE]
    /\ UNCHANGED <<storeVars, job, faults, cut>>

Next ==
    \/ \E r \in Refresher : Start(r) \/ Work(r) \/ Fault(r)
    \/ Codex

Spec == Init /\ [][Next]_vars

\* A run that has started goes on, and the user runs cxq index again.
FairSpec == Spec /\ \A r \in Refresher : WF_vars(Start(r) \/ Work(r))

-----------------------------------------------------------------------------
(* Types. *)

Entry == [id : Session, row : Row, doc : Content]
RowEntry == [id : Session, row : Row]

Job ==
    [pc : Stage, full : BOOLEAN, cancelled : BOOLEAN, outcome : Outcome,
     unparsed : SUBSET Path, byId : [Session -> Path \cup {None}],
     warned : BOOLEAN, soft : BOOLEAN, loaded : [Session -> Row \cup {NoRow}],
     todo : SUBSET Session, cur : Session \cup {None},
     stat : [size : 0..MaxLen, mtime : MTime] \cup {None},
     hash : Content \cup {None},
     pend : Seq(Entry), pendFp : Seq(RowEntry), gone : SUBSET Session]

(***************************************************************************)
(* The variables have their types, the locals that are read in a stage are *)
(* set in it, and no batch outgrows indexWriteBatchSize.                   *)
(***************************************************************************)
TypeOK ==
    /\ FilesTypeOK
    /\ sess \in [Session -> Row \cup {NoRow}]
    /\ docs \in [Session -> Content \cup {NoDoc}]
    /\ job \in [Refresher -> Job]
    /\ \A r \in Refresher :
         LET j == job[r] IN
         /\ j.pc \in {"hash", "decode"} =>
              j.cur # None /\ j.stat # None /\ j.byId[j.cur] # None
         /\ j.pc = "decode" => j.hash # None
         /\ \A s \in j.todo : j.byId[s] # None
         /\ Len(j.pend) <= BatchSize /\ Len(j.pendFp) <= BatchSize
    /\ faults \in 0..MaxFaults
    /\ kept \in [Refresher -> SUBSET Session]
    /\ quiet \in [Refresher -> BOOLEAN] /\ cut \in [Refresher -> BOOLEAN]

-----------------------------------------------------------------------------
(* What the index promises about the files. *)

Holds(p, s) == Exists(p) /\ fs[p].sid = s

(***************************************************************************)
(* A refresh skips a session when its row has the path, size and mtime of  *)
(* its rollout (indexer.go:192-201), and, with --full-hash or after a      *)
(* touch, when it has the path and hash (213-232).  Whenever it would, the *)
(* stored messages are those of the file: no interleaving of a refresh,    *)
(* which reads the fingerprint, the hash and the messages at three         *)
(* moments, with a Codex that appends in between makes a later refresh     *)
(* pass over messages the index lacks.                                     *)
(***************************************************************************)
FastPathSound ==
    \A s \in Session :
        sess[s] # NoRow /\ Holds(sess[s].path, s)
          /\ sess[s].size = fs[sess[s].path].len
          /\ sess[s].mtime = fs[sess[s].path].mtime
        => docs[s] = Bytes(sess[s].path)

HashSkipSound ==
    \A s \in Session :
        sess[s] # NoRow /\ Holds(sess[s].path, s) /\ sess[s].hash = Bytes(sess[s].path)
        => docs[s] = Bytes(sess[s].path)

(***************************************************************************)
(* "The content hash is therefore never advanced unless the matching       *)
(* message set and lexical index are committed too" (sqlite.go:170-172):   *)
(* the messages stored with a row are its session's and cover at least the *)
(* content its hash was taken of.                                          *)
(***************************************************************************)
MessagesCoverHash ==
    \A s \in Session :
        sess[s] # NoRow /\ docs[s] # NoDoc =>
            docs[s].sid = sess[s].hash.sid /\ sess[s].hash.len <= docs[s].len

(***************************************************************************)
(* No row without the messages its session was decoded to: a fingerprint   *)
(* update (UpsertSessions) only ever meets a row that exists.              *)
(***************************************************************************)
RowsHaveMessages == \A s \in Session : sess[s] # NoRow => docs[s] # NoDoc

(***************************************************************************)
(* However many refreshes run at once, a row's size never passes the       *)
(* content its hash was taken of: a stat that is newer than the hash would *)
(* let the fast path skip what was appended between them.                  *)
(***************************************************************************)
FingerprintNotAhead ==
    \A s \in Session : sess[s] # NoRow => sess[s].size <= sess[s].hash.len

(***************************************************************************)
(* A row for session s mirrors the newest readable copy of its rollout.    *)
(***************************************************************************)
Mirrored(s) ==
    \A p \in Newest(Path, s) :
        /\ sess[s] = RowOf(p, Bytes(p), Fingerprint(p))
        /\ docs[s] = Bytes(p)

Absent(s) == sess[s] = NoRow /\ docs[s] = NoDoc

(***************************************************************************)
(* A refresh that ends without an error or a warning, during which no      *)
(* rollout changed, leaves exactly the catalog in the index: every session *)
(* with its newest copy, and nothing else ("Build incrementally refreshes  *)
(* a derived index from the logical Codex sessions", indexer.go:81).       *)
(***************************************************************************)
CleanRefreshMirrors ==
    \A r \in Refresher :
        job[r].pc = "idle" /\ job[r].outcome = "clean" /\ quiet[r] =>
            \A s \in Session :
                Mirrored(s) /\ (Newest(Path, s) = {} => Absent(s))

(***************************************************************************)
(* Stale deletion takes only sessions whose rollouts no longer exist       *)
(* (README.md:206): a session that has had a readable rollout ever since   *)
(* the refresh began keeps its row, unless the walk ended before it at a   *)
(* directory that had vanished (discover.go:59).                           *)
(***************************************************************************)
LiveSessionKept ==
    [][\A r \in Refresher : \A s \in kept[r] :
         job[r].pc = "stale" /\ job'[r] # job[r] /\ sess[s] # NoRow
            => sess'[s] # NoRow]_vars

(***************************************************************************)
(* Ctrl+C is cooperative cancellation of indexing (README.md:429): a       *)
(* refresh that left a session unread because it was cancelled returns an  *)
(* error, not success.                                                     *)
(***************************************************************************)
CancelReported ==
    \A r \in Refresher : cut[r] => job[r].outcome \notin {"clean", "warned"}

(***************************************************************************)
(* When the files come to rest and the user keeps refreshing, the index    *)
(* converges: it mirrors every live session for ever after and, unless a   *)
(* file that cannot be parsed holds deletion back, has dropped the rest.   *)
(***************************************************************************)
Converges ==
    <>[](/\ \A s \in Session : Mirrored(s)
         /\ (\A p \in Path : Exists(p) => Parses(p)) =>
                \A s \in Session : Newest(Path, s) = {} => Absent(s))
=============================================================================
