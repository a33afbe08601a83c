--------------------------- MODULE RefreshOutcomes --------------------------
(***************************************************************************)
(* What refreshes make of the index: first, what stays true however many   *)
(* of them run at once.                                                    *)
(*                                                                         *)
(* Stale deletion spares the living (DInv).  A session with a readable     *)
(* rollout ever since the refresh began is either found by the two walks,  *)
(* which a move into the archive can only help, and parsed, or one of its  *)
(* paths has gone by the time it is parsed, which is a catalog warning     *)
(* and holds every deletion back.  It takes rollouts that are not moved    *)
(* out of the archive (the run "refresh_move_back" refutes it) and paths   *)
(* that are not taken over by other sessions.                              *)
(*                                                                         *)
(* The size of a row never passes its hash (FInv).  Two refreshes can      *)
(* leave a row with messages older than its hash (the run                  *)
(* "concurrent_lost"), because each writes what it read when it read it.   *)
(* But a row is always written whole, by one run, and that run took its    *)
(* size before its hash.  The invariant needs no more than the locals of   *)
(* each run and the length of the files, and neither is touched by         *)
(* another run.                                                            *)
(*                                                                         *)
(* Then, why a refresh that ends clean has made the index the mirror of    *)
(* the catalog (MInv).  As long as no file changes under the run,          *)
(*                                                                         *)
(*   - the catalog has, of the paths parsed so far, the newest readable    *)
(*     copy of each session (CatalogSoFar);                                *)
(*   - what the run has read of a file, and planned to write of it, is     *)
(*     what the file still has (Fresh);                                    *)
(*   - a session behind the loop is mirrored by the index or waits in one  *)
(*     of the two batches, unless a warning was added; one the catalog     *)
(*     lacks has no row, or the row the run has loaded (Settling).         *)
(*                                                                         *)
(* The skips rest on the chain of RefreshProofs, hence the same two        *)
(* assumptions: one refresher at a time, and paths of their own.           *)
(***************************************************************************)
EXTENDS RefreshProofs

-----------------------------------------------------------------------------
(* Deletion: the inductive invariant. *)

\* The run will not delete s: it is in the catalog, or the catalog has a warning.
Spared(j, s) == j.warned \/ j.byId[s] # None

FoundInv(j, s) ==
    /\ j.pc = "walkArchived" =>
         \A p \in Path \ Archived : Holds(p, s) => p \in j.unparsed
    /\ j.pc = "parse" =>
         Spared(j, s) \/ \E p \in j.unparsed : s \in MayHold[p]
    /\ j.pc \notin {"idle", "walkActive", "walkArchived", "parse"} => Spared(j, s)

KeptInv(r) ==
    /\ kept[r] \subseteq LiveSessions
    /\ \A s \in kept[r] : FoundInv(job[r], s)

DInv == FilesInv /\ \A r \in Refresher : KeptInv(r)

LEMMA LiveTyped == TypeInv => LiveSessions \subseteq Session
  BY DEF LiveSessions

LEMMA InitKept == Init => DInv
  BY InitSafe DEF Init, IInv, DInv, KeptInv

-----------------------------------------------------------------------------
(* What Codex may do in the meantime. *)

\* A live session does not turn up at a place in the active tree it was not at.
LEMMA StaysPut ==
  ASSUME ~MoveBack, FilesTypeOK, FilesNext, NEW s \in LiveSessions,
         NEW p \in Path \ Archived, Holds(p, s)'
  PROVE  Holds(p, s)
  <1>1. NoFile \notin File
    BY FileAssumption DEF File
  <1>2. PICK o \in Path : Exists(o) /\ fs[o].sid = s
    BY DEF LiveSessions, Parses, ParsedID
  <1>3. ASSUME NEW q \in Path, NEW t \in Session, Create(q, t)
        PROVE  Holds(p, s)
    <2>1. PICK u \in MTime : Put(q, [sid |-> t, len |-> high[q][t], mtime |-> u])
      BY <1>3 DEF Create
    <2>2. t # s
      BY <1>2, <1>3 DEF Create
    <2>3. PICK f : f = [sid |-> t, len |-> high[q][t], mtime |-> u]
      OBVIOUS
    <2>4. p # q
      BY <2>1, <2>2, <2>3 DEF Put, FilesTypeOK, Holds, Exists
    <2> QED
      BY <2>1, <2>4 DEF Put, FilesTypeOK, Holds, Exists
  <1>4. ASSUME NEW q \in Path, AppendRecord(q) \/ Touch(q)
        PROVE  Holds(p, s)
    <2>1. PICK g \in File : g = fs[q]
      BY <1>4 DEF AppendRecord, Touch, Exists, FilesTypeOK
    <2>2. PICK u, n : Put(q, [g EXCEPT !.len = n, !.mtime = u]) \/ Put(q, [g EXCEPT !.mtime = u])
      BY <1>4, <2>1 DEF AppendRecord, Touch
    <2>3. PICK f : Put(q, f) /\ (f = [g EXCEPT !.len = n, !.mtime = u] \/ f = [g EXCEPT !.mtime = u])
      BY <2>2
    <2>4. f.sid = g.sid
      BY <2>3 DEF File
    <2> QED
      BY <1>1, <2>1, <2>3, <2>4 DEF Put, FilesTypeOK, Holds, Exists
  <1>5. ASSUME NEW q \in Path, DeleteFile(q)
        PROVE  Holds(p, s)
    BY <1>5 DEF DeleteFile, FilesTypeOK, Holds, Exists
  <1>6. ASSUME NEW q \in Path, NEW a \in Archived, Move(q, a)
        PROVE  Holds(p, s)
    BY <1>6, PathAssumption DEF Move, FilesTypeOK, Holds, Exists
  <1> QED
    BY <1>3, <1>4, <1>5, <1>6 DEF FilesNext, Archive, Unarchive

LEMMA CodexKept ==
  ASSUME ~MoveBack, TypeInv, DInv, Codex
  PROVE  DInv'
  <1>1. FilesInv'
    BY FilesSafe DEF Codex, TypeInv, DInv
  <1>2. ASSUME NEW r \in Refresher PROVE KeptInv(r)'
    <2>1. /\ job' = job /\ kept'[r] = kept[r] \cap LiveSessions'
      BY DEF Codex
    <2>2. ASSUME NEW s \in kept'[r] PROVE FoundInv(job[r], s)'
      <3>1. s \in LiveSessions /\ FoundInv(job[r], s)
        BY <2>1 DEF DInv, KeptInv
      <3>2. \A p \in Path \ Archived : Holds(p, s)' => Holds(p, s)
        BY <3>1, StaysPut DEF Codex, TypeInv
      <3> QED
        BY <2>1, <3>1, <3>2 DEF FoundInv, Spared
    <2> QED
      BY <2>1, <2>2 DEF KeptInv
  <1> QED
    BY <1>1, <1>2 DEF DInv

-----------------------------------------------------------------------------
(* The steps of a run. *)

\* A step of r leaves the files and every other job alone.
LEMMA NarrowedStepKept ==
  ASSUME TypeInv, DInv, NEW r \in Refresher, NEW j, Become(r, j), UNCHANGED filesVars,
         \A q \in Refresher : kept'[q] \subseteq kept[q],
         \A s \in kept'[r] : FoundInv(j, s)
  PROVE  DInv'
  <1>1. FilesInv' /\ LiveSessions' = LiveSessions
    BY DEF DInv, FilesInv, Exists, LiveSessions, Parses, ParsedID, filesVars
  <1>2. ASSUME NEW q \in Refresher, NEW s \in kept'[q] PROVE FoundInv(job[q], s)'
    <2>1. CASE q = r
      <3>1. job'[q] = j /\ FoundInv(j, s)
        BY <1>2, <2>1 DEF Become, TypeInv, JobsOK
      <3> QED
        BY <3>1 DEF FoundInv, Spared, Holds, Exists, filesVars
    <2>2. CASE q # r
      <3>1. job'[q] = job[q] /\ FoundInv(job[q], s)
        BY <1>2, <2>2 DEF Become, TypeInv, JobsOK, DInv, KeptInv
      <3> QED
        BY <3>1 DEF FoundInv, Spared, Holds, Exists, filesVars
    <2> QED
      BY <2>1, <2>2
  <1> QED
    BY <1>1, <1>2 DEF DInv, KeptInv

LEMMA JobStepKept ==
  ASSUME TypeInv, DInv, NEW r \in Refresher, NEW j, Become(r, j),
         UNCHANGED <<filesVars, kept>>,
         \A s \in kept[r] : FoundInv(j, s)
  PROVE  DInv'
  BY NarrowedStepKept

LEMMA ReturnKept ==
  ASSUME TypeInv, DInv, NEW r \in Refresher, NEW outcome, Return(r, outcome),
         UNCHANGED <<filesVars, kept>>
  PROVE  DInv'
  <1>1. \A s \in kept[r] : FoundInv(IdleJob(outcome), s)
    BY DEF FoundInv, IdleJob
  <1> QED
    BY <1>1, JobStepKept DEF Return

LEMMA WalkKept ==
  ASSUME TypeInv, DInv, NEW r \in Refresher, Walk(r), UNCHANGED <<filesVars, kept>>
  PROVE  DInv'
  <1>1. PICK j : j = job[r]
    OBVIOUS
  <1>2. j \in Job /\ kept[r] \subseteq LiveSessions /\ \A s \in kept[r] : FoundInv(j, s)
    BY <1>1, ThisJobOK DEF DInv, KeptInv
  <1>3. CASE Return(r, "error")
    BY <1>3, ReturnKept
  <1>4. ASSUME j.pc = "walkActive",
               Become(r, [j EXCEPT !.pc = "walkArchived",
                                   !.unparsed = @ \cup {p \in Path \ Archived : Exists(p)}])
        PROVE  DInv'
    <2>1. PICK found : found = j.unparsed \cup {p \in Path \ Archived : Exists(p)}
      OBVIOUS
    <2>2. ASSUME NEW s \in kept[r]
          PROVE  FoundInv([j EXCEPT !.pc = "walkArchived", !.unparsed = found], s)
      BY <1>2, <2>1 DEF Job, FoundInv, Holds
    <2> QED
      BY <1>4, <2>1, <2>2, JobStepKept
  <1>5. ASSUME j.pc = "walkArchived",
               Become(r, [j EXCEPT !.pc = "parse",
                                   !.unparsed = @ \cup {p \in Archived : Exists(p)}])
        PROVE  DInv'
    <2>1. PICK found : found = j.unparsed \cup {p \in Archived : Exists(p)}
      OBVIOUS
    <2>2. ASSUME NEW s \in kept[r]
          PROVE  FoundInv([j EXCEPT !.pc = "parse", !.unparsed = found], s)
      <3>1. PICK p \in Path : Holds(p, s)
        BY <1>2 DEF LiveSessions, Parses, ParsedID, Holds
      <3>2. s \in MayHold[p]
        BY <3>1 DEF DInv, FilesInv, Holds
      <3>3. p \in found
        BY <1>2, <1>5, <2>1, <3>1 DEF FoundInv, Holds
      <3> QED
        BY <1>2, <3>2, <3>3 DEF Job, FoundInv
    <2> QED
      BY <1>5, <2>1, <2>2, JobStepKept
  <1> QED
    BY <1>1, <1>3, <1>4, <1>5 DEF Walk, WalkRoot, Proceed, Complete

\* A session of the files a vanished directory hides is no longer kept; the
\* others are where the walk has been.
LEMMA CutWalkKept ==
  ASSUME TypeInv, DInv, NEW r \in Refresher, DirectoryVanishes(r), UNCHANGED filesVars
  PROVE  DInv'
  <1>1. PICK j : j = job[r]
    OBVIOUS
  <1>2. j \in Job /\ kept[r] \subseteq LiveSessions /\ \A s \in kept[r] : FoundInv(j, s)
    BY <1>1, ThisJobOK DEF DInv, KeptInv
  <1>3. ASSUME NEW after, NEW root, NEW d,
               Become(r, [j EXCEPT !.pc = after, !.unparsed = @ \cup UpTo(root, d)]),
               kept' = [kept EXCEPT ![r] = @ \ {ParsedID(p) : p \in Unseen(root, d)}],
               \/ j.pc = "walkActive" /\ root = Path \ Archived /\ after = "walkArchived"
               \/ j.pc = "walkArchived" /\ root = Archived /\ after = "parse"
        PROVE  DInv'
    <2>1. PICK found : found = j.unparsed \cup UpTo(root, d)
      OBVIOUS
    <2>2. PICK w : w = [j EXCEPT !.pc = after, !.unparsed = found]
      OBVIOUS
    <2>3. w.pc = after /\ w.unparsed = found
      BY <1>2, <2>2 DEF Job
    <2>4. \A q \in Refresher : kept'[q] \subseteq kept[q]
      BY <1>3 DEF TypeInv, HistoryOK
    <2>5. ASSUME NEW s \in kept'[r], NEW p \in root, Holds(p, s) PROVE p \in found
      <3>1. ParsedID(p) = s /\ p \in Complete(root)
        BY <2>5 DEF ParsedID, Holds, Complete
      <3>2. p \notin Unseen(root, d)
        BY <1>3, <2>5, <3>1 DEF TypeInv, HistoryOK
      <3> QED
        BY <2>1, <3>1, <3>2 DEF Unseen
    <2>6. ASSUME NEW s \in kept'[r] PROVE FoundInv(w, s)
      <3>1. s \in kept[r]
        BY <2>4
      <3>2. CASE j.pc = "walkActive"
        BY <1>3, <2>3, <2>5, <3>2 DEF FoundInv
      <3>3. CASE j.pc = "walkArchived"
        <4>1. PICK p \in Path : Holds(p, s)
          BY <1>2, <3>1 DEF LiveSessions, Parses, ParsedID, Holds
        <4>2. s \in MayHold[p]
          BY <4>1 DEF DInv, FilesInv, Holds
        <4>3. p \in found
          BY <1>2, <1>3, <2>1, <2>5, <3>1, <3>3, <4>1 DEF FoundInv
        <4> QED
          BY <1>3, <2>3, <3>3, <4>2, <4>3 DEF FoundInv
      <3> QED
        BY <1>3, <3>2, <3>3
    <2> QED
      BY <1>3, <2>1, <2>2, <2>4, <2>6, NarrowedStepKept
  <1> QED
    BY <1>1, <1>3 DEF DirectoryVanishes, CutWalk, Proceed

LEMMA ParseKept ==
  ASSUME NoSharedPath, TypeInv, DInv, NEW r \in Refresher, Parse(r),
         UNCHANGED <<filesVars, kept>>
  PROVE  DInv'
  <1>1. PICK j : j = job[r]
    OBVIOUS
  <1>2. /\ j \in Job /\ j.pc = "parse"
        /\ \A s \in kept[r] : s \in Session /\ FoundInv(j, s)
    BY <1>1, ThisJobOK, LiveTyped DEF DInv, KeptInv, Parse
  <1>3. CASE Return(r, "error")
    BY <1>3, ReturnKept
  <1>4. CASE j.unparsed = {} /\ Become(r, [j EXCEPT !.pc = "load"])
    <2>1. ASSUME NEW s \in kept[r] PROVE FoundInv([j EXCEPT !.pc = "load"], s)
      BY <1>2, <1>4 DEF Job, FoundInv, Spared
    <2> QED
      BY <1>4, <2>1, JobStepKept
  <1>5. ASSUME NEW p \in j.unparsed,
               Become(r, [j EXCEPT !.unparsed = @ \ {p}, !.warned = TRUE])
        PROVE  DInv'
    <2>1. ASSUME NEW s \in kept[r]
          PROVE  FoundInv([j EXCEPT !.unparsed = @ \ {p}, !.warned = TRUE], s)
      BY <1>2 DEF Job, FoundInv, Spared
    <2> QED
      BY <1>5, <2>1, JobStepKept
  <1>6. ASSUME NEW p \in j.unparsed, Parses(p),
               Become(r, [j EXCEPT !.unparsed = @ \ {p},
                            !.byId = IF Supersedes(@, p)
                                     THEN [@ EXCEPT ![ParsedID(p)] = p] ELSE @])
        PROVE  DInv'
    <2>1. p \in Path /\ p # None /\ ParsedID(p) \in MayHold[p]
      BY <1>2, <1>6, AbsentAssumption DEF Job, Parses, ParsedID, DInv, FilesInv
    <2>2. PICK c : c = IF Supersedes(j.byId, p)
                       THEN [j.byId EXCEPT ![ParsedID(p)] = p] ELSE j.byId
      OBVIOUS
    <2>3. PICK w : w = [j EXCEPT !.unparsed = @ \ {p}, !.byId = c]
      OBVIOUS
    <2>4. w.pc = "parse" /\ w.byId = c /\ w.warned = j.warned /\ w.unparsed = j.unparsed \ {p}
      BY <1>2, <2>3 DEF Job
    <2>5. ASSUME NEW s \in kept[r] PROVE FoundInv(w, s)
      <3>1. j.byId[s] # None => c[s] # None
        BY <1>2, <2>1, <2>2 DEF Job
      <3>2. s \in MayHold[p] => c[s] # None
        BY <1>2, <2>1, <2>2 DEF Job, NoSharedPath, Supersedes
      <3> QED
        BY <1>2, <2>4, <3>1, <3>2 DEF FoundInv, Spared
    <2> QED
      BY <1>6, <2>2, <2>3, <2>5, JobStepKept
  <1> QED
    BY <1>1, <1>3, <1>4, <1>5, <1>6 DEF Parse, Proceed

\* After the catalog is complete, a job keeps it as it is.
LEMMA SameCatalogKept ==
  ASSUME TypeInv, DInv, NEW r \in Refresher, NEW j, Become(r, j),
         UNCHANGED <<filesVars, kept>>,
         job[r].pc \notin {"idle", "walkActive", "walkArchived", "parse"},
         j.pc \notin {"walkActive", "walkArchived", "parse"},
         j.byId = job[r].byId, j.warned = job[r].warned
  PROVE  DInv'
  <1>1. ASSUME NEW s \in kept[r] PROVE FoundInv(j, s)
    BY DEF DInv, KeptInv, FoundInv, Spared
  <1> QED
    BY <1>1, JobStepKept

LEMMA WorkKept ==
  ASSUME NoSharedPath, TypeInv, DInv, NEW r \in Refresher, Work(r)
  PROVE  DInv'
  <1>1. PICK j : j = job[r]
    OBVIOUS
  <1>2. j \in Job /\ UNCHANGED <<filesVars, kept>>
    BY <1>1, ThisJobOK DEF Work
  <1>3. ASSUME NEW outcome, Return(r, outcome) PROVE DInv'
    BY <1>2, <1>3, ReturnKept
  <1>4. ASSUME NEW w, Become(r, w), w.pc \notin {"walkActive", "walkArchived", "parse"},
               w.byId = j.byId, w.warned = j.warned,
               j.pc \notin {"idle", "walkActive", "walkArchived", "parse"}
        PROVE  DInv'
    BY <1>1, <1>2, <1>4, SameCatalogKept
  <1>5. CASE Walk(r) \/ Parse(r)
    BY <1>2, <1>5, WalkKept, ParseKept
  <1>6. CASE Load(r)
    <2>1. PICK w : w = [j EXCEPT !.pc = "next", !.loaded = sess,
                                 !.todo = {s \in Session : j.byId[s] # None}]
      OBVIOUS
    <2>2. w.pc = "next" /\ w.byId = j.byId /\ w.warned = j.warned
      BY <1>2, <2>1 DEF Job
    <2> QED
      BY <1>1, <1>3, <1>4, <1>6, <2>1, <2>2 DEF Load, Proceed
  <1>7. CASE Visit(r)
    <2>1. ASSUME NEW s \in j.todo, NEW v, v = [j EXCEPT !.todo = @ \ {s}], NEW w,
                 \/ w = v \/ w = [v EXCEPT !.soft = TRUE]
                 \/ w = [v EXCEPT !.pc = "hash", !.cur = s, !.stat = Fingerprint(j.byId[s])],
                 Become(r, w), j.pc = "next"
          PROVE  DInv'
      <3>1. w.pc \in {"next", "hash"} /\ w.byId = j.byId /\ w.warned = j.warned
        BY <1>2, <2>1, ZenonT(30) DEF Job
      <3> QED
        BY <1>4, <2>1, <3>1
    <2>2. CASE Become(r, [j EXCEPT !.pc = "flushLast"]) /\ j.pc = "next"
      BY <1>2, <1>4, <2>2 DEF Job
    <2> QED
      BY <1>1, <1>3, <1>7, <2>1, <2>2 DEF Visit, Proceed
  <1>8. CASE ReadFails(r) /\ j.pc \in {"hash", "decode"}
    <2>1. PICK w : w = [j EXCEPT !.pc = "next", !.soft = TRUE,
                                 !.cur = None, !.stat = None, !.hash = None]
      OBVIOUS
    <2>2. w.pc = "next" /\ w.byId = j.byId /\ w.warned = j.warned
      BY <1>2, <2>1 DEF Job
    <2> QED
      BY <1>1, <1>4, <1>8, <2>1, <2>2 DEF ReadFails
  <1>9. CASE Hash(r)
    <2>1. j.pc = "hash"
      BY <1>1, <1>9 DEF Hash
    <2>2. CASE Become(r, Settled(j, "next"))
      BY <1>2, <1>4, <2>1, <2>2 DEF Settled, Job
    <2>3. ASSUME NEW b, NEW a, a \in {"next", "flushFp"},
                 Become(r, [Settled(j, a) EXCEPT !.pendFp = b])
          PROVE  DInv'
      <3>1. PICK w : w = [Settled(j, a) EXCEPT !.pendFp = b]
        OBVIOUS
      <3>2. w.pc = a /\ w.byId = j.byId /\ w.warned = j.warned
        BY <1>2, <3>1 DEF Settled, Job
      <3> QED
        BY <1>4, <2>1, <2>3, <3>1, <3>2
    <2>4. ASSUME NEW h, Become(r, [j EXCEPT !.pc = "decode", !.hash = h])
          PROVE  DInv'
      <3>1. PICK w : w = [j EXCEPT !.pc = "decode", !.hash = h]
        OBVIOUS
      <3>2. w.pc = "decode" /\ w.byId = j.byId /\ w.warned = j.warned
        BY <1>2, <3>1 DEF Job
      <3> QED
        BY <1>4, <2>1, <2>4, <3>1, <3>2
    <2>5. AfterAppend(j.pendFp, "flushFp") \in {"next", "flushFp"}
      BY DEF AfterAppend
    <2> QED
      BY <1>1, <1>8, <1>9, <2>1, <2>2, <2>3, <2>4, <2>5 DEF Hash, Proceed
  <1>10. CASE Decode(r)
    <2>1. j.pc = "decode"
      BY <1>1, <1>10 DEF Decode
    <2>2. ASSUME NEW b, NEW a, a \in {"next", "flush"},
                 Become(r, [Settled(j, a) EXCEPT !.pend = b])
          PROVE  DInv'
      <3>1. PICK w : w = [Settled(j, a) EXCEPT !.pend = b]
        OBVIOUS
      <3>2. w.pc = a /\ w.byId = j.byId /\ w.warned = j.warned
        BY <1>2, <3>1 DEF Settled, Job
      <3> QED
        BY <1>4, <2>1, <2>2, <3>1, <3>2
    <2>3. AfterAppend(j.pend, "flush") \in {"next", "flush"}
      BY DEF AfterAppend
    <2> QED
      BY <1>1, <1>8, <1>10, <2>1, <2>2, <2>3 DEF Decode, Proceed
  <1>11. CASE Flush(r)
    <2>1. j.pc \in {"flush", "flushLast"}
      BY <1>1, <1>11 DEF Flush
    <2>2. ASSUME NEW a \in {"next", "flushFpLast"}, NEW b,
                 \/ Become(r, [j EXCEPT !.pc = a])
                 \/ Become(r, [j EXCEPT !.pc = a, !.pend = b])
          PROVE  DInv'
      <3>1. PICK w : Become(r, w) /\ (w = [j EXCEPT !.pc = a] \/ w = [j EXCEPT !.pc = a, !.pend = b])
        BY <2>2
      <3>2. w.pc = a /\ w.byId = j.byId /\ w.warned = j.warned
        BY <1>2, <3>1 DEF Job
      <3> QED
        BY <1>4, <2>1, <3>1, <3>2
    <2> QED
      BY <1>1, <1>3, <1>11, <2>2 DEF Flush, Proceed
  <1>12. CASE FlushFp(r)
    <2>1. j.pc \in {"flushFp", "flushFpLast"}
      BY <1>1, <1>12 DEF FlushFp
    <2>2. PICK after :
            after = IF j.pc = "flushFp" THEN [j EXCEPT !.pc = "next"]
                    ELSE [j EXCEPT !.pc = "stale",
                                   !.gone = {s \in Session : j.loaded[s] # NoRow}]
      OBVIOUS
    <2>3. /\ after.pc \in {"next", "stale"} /\ after.byId = j.byId
          /\ after.warned = j.warned /\ after \in Job
      BY <1>2, <2>2, ZenonT(30) DEF Job, Stage
    <2>4. CASE Become(r, after)
      BY <1>4, <2>1, <2>3, <2>4
    <2>5. CASE Become(r, [after EXCEPT !.pendFp = <<>>])
      <3>1. PICK w : w = [after EXCEPT !.pendFp = <<>>]
        OBVIOUS
      <3>2. w.pc = after.pc /\ w.byId = j.byId /\ w.warned = j.warned
        BY <2>3, <3>1 DEF Job
      <3> QED
        BY <1>4, <2>1, <2>3, <2>5, <3>1, <3>2
    <2> QED
      BY <1>1, <1>3, <1>12, <2>2, <2>4, <2>5 DEF FlushFp, Proceed
  <1>13. CASE Stale(r)
    <2>1. ASSUME NEW s \in j.gone, Become(r, [j EXCEPT !.gone = @ \ {s}]), j.pc = "stale"
          PROVE  DInv'
      BY <1>2, <1>4, <2>1 DEF Job
    <2> QED
      BY <1>1, <1>3, <1>13, <2>1 DEF Stale
  <1> QED
    BY <1>5, <1>6, <1>7, <1>9, <1>10, <1>11, <1>12, <1>13 DEF Work

LEMMA FaultKept ==
  ASSUME TypeInv, DInv, NEW r \in Refresher, Fault(r)
  PROVE  DInv'
  <1>1. CASE Cancel(r) /\ UNCHANGED <<filesVars, kept>>
    <2>1. PICK j : j = job[r]
      OBVIOUS
    <2>2. ASSUME NEW s \in kept[r] PROVE FoundInv([j EXCEPT !.cancelled = TRUE], s)
      BY <2>1, ThisJobOK DEF Job, DInv, KeptInv, FoundInv, Spared
    <2> QED
      BY <1>1, <2>1, <2>2, JobStepKept DEF Cancel
  <1>2. CASE DirectoryVanishes(r)
    BY <1>2, CutWalkKept DEF Fault
  <1>3. CASE (IoError(r) \/ Crash(r)) /\ UNCHANGED <<filesVars, kept>>
    BY <1>3, ReturnKept DEF IoError, Crash
  <1> QED
    BY <1>1, <1>2, <1>3 DEF Fault

\* A refresh begins: what is live now is what it must find.
LEMMA StartKept ==
  ASSUME TypeInv, DInv, NEW r \in Refresher, Start(r)
  PROVE  DInv'
  <1>1. PICK full : Become(r, [IdleJob("none") EXCEPT !.pc = "walkActive", !.full = full])
    BY DEF Start
  <1>2. PICK j : j = [IdleJob("none") EXCEPT !.pc = "walkActive", !.full = full]
    OBVIOUS
  <1>3. j.pc = "walkActive"
    BY <1>2 DEF IdleJob
  <1>4. FilesInv' /\ LiveSessions' = LiveSessions
    BY DEF DInv, FilesInv, Exists, LiveSessions, Parses, ParsedID, Start, filesVars
  <1>5. ASSUME NEW q \in Refresher PROVE KeptInv(q)'
    <2>1. CASE q = r
      <3>1. job'[q] = j /\ kept'[q] = LiveSessions
        BY <1>1, <1>2, <2>1 DEF Start, Become, TypeInv, JobsOK, HistoryOK
      <3> QED
        BY <1>3, <1>4, <3>1 DEF KeptInv, FoundInv
    <2>2. CASE q # r
      <3>1. job'[q] = job[q] /\ kept'[q] = kept[q]
        BY <1>1, <2>2 DEF Start, Become, TypeInv, JobsOK, HistoryOK
      <3> QED
        BY <1>4, <3>1 DEF DInv, KeptInv, FoundInv, Spared, Holds, Exists, Start, filesVars
    <2> QED
      BY <2>1, <2>2
  <1> QED
    BY <1>4, <1>5 DEF DInv

LEMMA StepKept ==
  ASSUME NoSharedPath, ~MoveBack
  PROVE  TypeInv /\ DInv /\ [Next]_vars => DInv'
  <1> SUFFICES ASSUME TypeInv, DInv, [Next]_vars PROVE DInv'
    OBVIOUS
  <1>1. CASE UNCHANGED vars
    BY <1>1 DEF vars, filesVars, historyVars, DInv, FilesInv, Exists, KeptInv, LiveSessions,
                Parses, ParsedID, FoundInv, Spared, Holds
  <1> QED
    BY <1>1, StartKept, WorkKept, FaultKept, CodexKept DEF Next

-----------------------------------------------------------------------------
(* A deletion is of a session the catalog does not have. *)

LEMMA DeletionSpares ==
  ASSUME TypeInv, DInv, [Next]_vars, NEW r \in Refresher, NEW s \in kept[r],
         job[r].pc = "stale", job'[r] # job[r], sess[s] # NoRow
  PROVE  sess'[s] # NoRow
  <1>1. Spared(job[r], s) /\ s \in Session
    BY LiveTyped DEF DInv, KeptInv, FoundInv
  <1>2. CASE UNCHANGED storeVars
    BY <1>2 DEF storeVars
  <1>3. CASE Stale(r)
    <2>1. ASSUME NEW t \in Session, DeleteSession(t), job[r].byId[t] = None, ~job[r].warned
          PROVE  sess'[s] # NoRow
      <3>1. s # t
        BY <1>1, <2>1 DEF Spared
      <3> QED
        BY <1>1, <2>1, <3>1 DEF DeleteSession, TypeInv, StoreOK
    <2>2. job[r].gone \subseteq Session
      BY ThisJobOK DEF Job
    <2> QED
      BY <1>2, <1>3, <2>1, <2>2 DEF Stale, Return
  <1>4. ASSUME NEW q \in Refresher, q # r, Start(q) \/ Work(q) \/ Fault(q)
        PROVE  FALSE
    <2>1. \E j : Become(q, j)
      BY <1>4 DEF Start, Work, Fault, Walk, WalkRoot, Parse, Load, Visit, Hash, Decode,
                  ReadFails, Flush, FlushFp, Stale, Cancel, IoError, Crash, DirectoryVanishes,
                  CutWalk, Return, Proceed
    <2> QED
      BY <1>4, <2>1 DEF Become, TypeInv, JobsOK
  <1>5. CASE Start(r) \/ Fault(r) \/ Codex
    BY <1>2, <1>5 DEF Start, Fault, Cancel, IoError, Crash, DirectoryVanishes, CutWalk,
                      Return, Proceed, Codex
  <1>6. CASE Work(r)
    BY <1>3, <1>6 DEF Work, Walk, WalkRoot, Parse, Load, Visit, Hash, Decode, Flush, FlushFp
  <1>7. CASE UNCHANGED vars
    BY <1>7 DEF vars
  <1> QED
    BY <1>4, <1>5, <1>6, <1>7 DEF Next

(***************************************************************************)
(* Whatever Codex does while a refresh runs, short of moving rollouts out  *)
(* of the archive, and however many refreshes run at once: stale deletion  *)
(* (indexer.go:288-305) never takes the row of a session that has had a    *)
(* readable rollout ever since that refresh began.                         *)
(***************************************************************************)
THEOREM LiveSessionsAreKept ==
  ASSUME NoSharedPath, ~MoveBack
  PROVE  Spec => LiveSessionKept
  <1>1. Init => TypeInv /\ DInv
    BY TypeInvInit, InitKept
  <1>2. TypeInv /\ DInv /\ [Next]_vars => TypeInv' /\ DInv'
    BY TypeInvStep, StepKept
  <1>3. TypeInv /\ DInv /\ [Next]_vars =>
          [\A r \in Refresher : \A s \in kept[r] :
             job[r].pc = "stale" /\ job'[r] # job[r] /\ sess[s] # NoRow
                => sess'[s] # NoRow]_vars
    BY DeletionSpares
  <1> QED
    BY <1>1, <1>2, <1>3, PTL DEF Spec, LiveSessionKept

-----------------------------------------------------------------------------
(* Fingerprints: the inductive invariant. *)

Measured(row) == row.size <= row.hash.len

RowsMeasured == \A s \in Session : sess[s] # NoRow => Measured(sess[s])

MeasuringInv(j) ==
    /\ j.pc \in {"hash", "decode"} => j.stat.size <= high[j.byId[j.cur]][j.cur]
    /\ j.pc = "decode" => j.stat.size <= j.hash.len

BatchesMeasured(j) ==
    /\ \A k \in DOMAIN j.pend : Measured(j.pend[k].row)
    /\ \A k \in DOMAIN j.pendFp : Measured(j.pendFp[k].row)

LocalInv(j) == CatalogInv(j) /\ MeasuringInv(j) /\ BatchesMeasured(j)

FInv == FilesInv /\ RowsMeasured /\ \A r \in Refresher : LocalInv(job[r])

-----------------------------------------------------------------------------
(* How a step ends: one run's locals change, perhaps some rows. *)

LEMMA IdleJobMeasured ==
  ASSUME NEW outcome
  PROVE  LocalInv(IdleJob(outcome))
  BY DEF IdleJob, LocalInv, CatalogInv, MeasuringInv, BatchesMeasured

LEMMA BecomeMeasured ==
  ASSUME TypeInv, FInv, NEW r \in Refresher, NEW j, LocalInv(j), Become(r, j),
         RowsMeasured', UNCHANGED filesVars
  PROVE  FInv'
  <1>1. FilesInv' /\ high' = high
    BY DEF FInv, FilesInv, Exists, filesVars
  <1>2. ASSUME NEW k, LocalInv(k) PROVE LocalInv(k)'
    BY <1>1, <1>2 DEF LocalInv, CatalogInv, MeasuringInv, BatchesMeasured
  <1>3. ASSUME NEW q \in Refresher PROVE LocalInv(job'[q])
    <2>1. job'[q] = j \/ job'[q] = job[q]
      BY DEF Become, TypeInv, JobsOK
    <2> QED
      BY <2>1 DEF FInv
  <1>4. ASSUME NEW q \in Refresher PROVE LocalInv(job[q])'
    <2>1. PICK k : k = job'[q]
      OBVIOUS
    <2>2. CatalogInv(k)' /\ MeasuringInv(k)' /\ BatchesMeasured(k)'
      BY <1>2, <1>3, <2>1 DEF LocalInv
    <2> QED
      BY <2>1, <2>2 DEF LocalInv, CatalogInv, MeasuringInv, BatchesMeasured
  <1> QED
    BY <1>1, <1>4 DEF FInv

LEMMA ProceedMeasured ==
  ASSUME TypeInv, FInv, NEW r \in Refresher, NEW j, LocalInv(j), Become(r, j),
         UNCHANGED <<filesVars, storeVars>>
  PROVE  FInv'
  <1>1. RowsMeasured'
    BY DEF FInv, RowsMeasured, storeVars
  <1> QED
    BY <1>1, BecomeMeasured

LEMMA ReturnMeasured ==
  ASSUME TypeInv, FInv, NEW r \in Refresher, NEW outcome, Return(r, outcome),
         UNCHANGED filesVars
  PROVE  FInv'
  BY ProceedMeasured, IdleJobMeasured DEF Return

\* A change of locals that leaves the catalog and the batches, and ends a read.
LEMMA SettledMeasured ==
  ASSUME NEW j, LocalInv(j), NEW w, w.pc \notin {"hash", "decode"}, w.byId = j.byId,
         w.pend \in {j.pend, <<>>}, w.pendFp \in {j.pendFp, <<>>}
  PROVE  LocalInv(w)
  BY DEF LocalInv, CatalogInv, MeasuringInv, BatchesMeasured

\* The file of a session in the catalog is its own, and nothing has been longer.
LEMMA MeasuredFile ==
  ASSUME NoSharedPath, TypeInv, FInv, NEW r \in Refresher, NEW s \in Session,
         NEW p, p = job[r].byId[s], p # None, Exists(p)
  PROVE  fs[p] \in File /\ high[p][s] = fs[p].len /\ fs[p].len \in Nat
  <1>1. p \in Path
    BY ThisJobOK DEF Job
  <1>2. s \in MayHold[p] /\ fs[p].sid \in MayHold[p] /\ high[p][fs[p].sid] = fs[p].len
    BY <1>1 DEF FInv, LocalInv, CatalogInv, FilesInv
  <1>3. fs[p] \in File
    BY <1>1 DEF TypeInv, FilesTypeOK, Exists
  <1> QED
    BY <1>1, <1>2, <1>3, FileAssumption DEF NoSharedPath, File

-----------------------------------------------------------------------------
(* The steps of a run. *)

LEMMA WalkMeasured ==
  ASSUME TypeInv, FInv, NEW r \in Refresher, Walk(r), UNCHANGED filesVars
  PROVE  FInv'
  <1>1. PICK j : j = job[r]
    OBVIOUS
  <1>2. LocalInv(j) /\ j \in Job
    BY <1>1, ThisJobOK DEF FInv
  <1>3. ASSUME NEW here, NEW root, NEW after \in {"walkArchived", "parse"},
               WalkRoot(r, here, root, after)
        PROVE  FInv'
    <2>1. ASSUME NEW found
          PROVE  LocalInv([j EXCEPT !.pc = after, !.unparsed = found])
      BY <1>2 DEF Job, LocalInv, CatalogInv, MeasuringInv, BatchesMeasured
    <2>2. CASE Return(r, "error")
      BY <2>2, ReturnMeasured
    <2> QED
      BY <1>1, <1>3, <2>1, <2>2, ProceedMeasured DEF WalkRoot, Proceed
  <1> QED
    BY <1>3 DEF Walk

LEMMA CutWalkMeasured ==
  ASSUME TypeInv, FInv, NEW r \in Refresher, NEW here, NEW root,
         NEW after \in {"walkArchived", "parse"}, CutWalk(r, here, root, after),
         UNCHANGED filesVars
  PROVE  FInv'
  <1>1. PICK j : j = job[r]
    OBVIOUS
  <1>2. LocalInv(j) /\ j \in Job
    BY <1>1, ThisJobOK DEF FInv
  <1>3. PICK d : Proceed(r, [j EXCEPT !.pc = after, !.unparsed = @ \cup UpTo(root, d)])
    BY <1>1 DEF CutWalk
  <1>4. ASSUME NEW found
        PROVE  LocalInv([j EXCEPT !.pc = after, !.unparsed = found])
    BY <1>2 DEF Job, LocalInv, CatalogInv, MeasuringInv, BatchesMeasured
  <1> QED
    BY <1>3, <1>4, ProceedMeasured DEF Proceed

LEMMA ParseMeasured ==
  ASSUME TypeInv, FInv, NEW r \in Refresher, Parse(r), UNCHANGED filesVars
  PROVE  FInv'
  <1>1. PICK j : j = job[r]
    OBVIOUS
  <1>2. LocalInv(j) /\ j \in Job /\ j.pc = "parse"
    BY <1>1, ThisJobOK DEF FInv, Parse
  <1>3. CASE Return(r, "error")
    BY <1>3, ReturnMeasured
  <1>4. CASE Proceed(r, [j EXCEPT !.pc = "load"])
    <2>1. LocalInv([j EXCEPT !.pc = "load"])
      BY <1>2 DEF Job, LocalInv, CatalogInv, MeasuringInv, BatchesMeasured
    <2> QED
      BY <1>4, <2>1, ProceedMeasured DEF Proceed
  <1>5. ASSUME NEW p \in j.unparsed,
               Proceed(r, [j EXCEPT !.unparsed = @ \ {p}, !.warned = TRUE])
        PROVE  FInv'
    <2>1. LocalInv([j EXCEPT !.unparsed = @ \ {p}, !.warned = TRUE])
      BY <1>2 DEF Job, LocalInv, CatalogInv, MeasuringInv, BatchesMeasured
    <2> QED
      BY <1>5, <2>1, ProceedMeasured DEF Proceed
  <1>6. ASSUME NEW p \in j.unparsed, Parses(p),
               Proceed(r, [j EXCEPT !.unparsed = @ \ {p},
                             !.byId = IF Supersedes(@, p)
                                      THEN [@ EXCEPT ![ParsedID(p)] = p] ELSE @])
        PROVE  FInv'
    <2>1. p \in Path /\ ParsedID(p) \in MayHold[p]
      BY <1>2, <1>6 DEF Job, Parses, ParsedID, FInv, FilesInv
    <2>2. PICK c : c = IF Supersedes(j.byId, p)
                       THEN [j.byId EXCEPT ![ParsedID(p)] = p] ELSE j.byId
      OBVIOUS
    <2>3. \A s \in Session : c[s] # None => s \in MayHold[c[s]]
      BY <1>2, <2>1, <2>2 DEF Job, LocalInv, CatalogInv
    <2>4. LocalInv([j EXCEPT !.unparsed = @ \ {p}, !.byId = c])
      BY <1>2, <2>3 DEF Job, LocalInv, CatalogInv, MeasuringInv, BatchesMeasured
    <2> QED
      BY <1>6, <2>2, <2>4, ProceedMeasured DEF Proceed
  <1> QED
    BY <1>1, <1>3, <1>4, <1>5, <1>6 DEF Parse

LEMMA LoadMeasured ==
  ASSUME TypeInv, FInv, NEW r \in Refresher, Load(r), UNCHANGED filesVars
  PROVE  FInv'
  <1>1. PICK j : j = job[r]
    OBVIOUS
  <1>2. LocalInv(j) /\ j \in Job
    BY <1>1, ThisJobOK DEF FInv
  <1>3. ASSUME NEW todo
        PROVE  LocalInv([j EXCEPT !.pc = "next", !.loaded = sess, !.todo = todo])
    BY <1>2 DEF Job, LocalInv, CatalogInv, MeasuringInv, BatchesMeasured
  <1> QED
    BY <1>1, <1>3, ReturnMeasured, ProceedMeasured DEF Load, Proceed

\* The size is taken here, of a file that has never been longer.
LEMMA VisitMeasured ==
  ASSUME NoSharedPath, TypeInv, FInv, NEW r \in Refresher, Visit(r), UNCHANGED filesVars
  PROVE  FInv'
  <1>1. PICK j : j = job[r]
    OBVIOUS
  <1>2. LocalInv(j) /\ j \in Job /\ j.pc = "next"
    BY <1>1, ThisJobOK DEF FInv, Visit
  <1>3. CASE Return(r, "error")
    BY <1>3, ReturnMeasured
  <1>4. CASE Proceed(r, [j EXCEPT !.pc = "flushLast"])
    <2>1. LocalInv([j EXCEPT !.pc = "flushLast"])
      BY <1>2 DEF Job, LocalInv, CatalogInv, MeasuringInv, BatchesMeasured
    <2> QED
      BY <1>4, <2>1, ProceedMeasured DEF Proceed
  <1>5. ASSUME NEW s \in j.todo, NEW v, v = [j EXCEPT !.todo = @ \ {s}]
        PROVE  /\ LocalInv(v)
               /\ LocalInv([v EXCEPT !.soft = TRUE])
               /\ Exists(j.byId[s]) =>
                    LocalInv([v EXCEPT !.pc = "hash", !.cur = s,
                                       !.stat = Fingerprint(j.byId[s])])
    <2>1. s \in Session /\ j.byId[s] # None
      BY <1>1, <1>2, ThisJobOK DEF JobOK, Job
    <2>2. v \in Job /\ v.pc = "next" /\ v.byId = j.byId /\ LocalInv(v)
      BY <1>2, <1>5 DEF Job, LocalInv, CatalogInv, MeasuringInv, BatchesMeasured
    <2>3. LocalInv([v EXCEPT !.soft = TRUE])
      BY <2>2 DEF Job, LocalInv, CatalogInv, MeasuringInv, BatchesMeasured
    <2>4. ASSUME Exists(j.byId[s])
          PROVE  LocalInv([v EXCEPT !.pc = "hash", !.cur = s,
                                    !.stat = Fingerprint(j.byId[s])])
      <3>1. PICK st : st = Fingerprint(j.byId[s])
        OBVIOUS
      <3>2. PICK p : p = j.byId[s]
        OBVIOUS
      <3>3. high[p][s] = fs[p].len /\ fs[p].len \in Nat
        BY <1>1, <2>1, <2>4, <3>2, MeasuredFile
      <3>4. st.size <= high[p][s]
        BY <3>1, <3>2, <3>3 DEF Fingerprint
      <3>5. PICK w : w = [v EXCEPT !.pc = "hash", !.cur = s, !.stat = st]
        OBVIOUS
      <3>6. /\ w.pc = "hash" /\ w.cur = s /\ w.stat = st /\ w.byId = j.byId
            /\ w.pend = v.pend /\ w.pendFp = v.pendFp
        BY <2>2, <3>5 DEF Job
      <3>7. LocalInv(w)
        BY <2>2, <3>2, <3>4, <3>6 DEF LocalInv, CatalogInv, MeasuringInv, BatchesMeasured
      <3> QED
        BY <3>1, <3>5, <3>7
    <2> QED
      BY <2>2, <2>3, <2>4
  <1> QED
    BY <1>1, <1>3, <1>4, <1>5, ProceedMeasured DEF Visit, Proceed

LEMMA ReadFailsMeasured ==
  ASSUME TypeInv, FInv, NEW r \in Refresher, ReadFails(r), UNCHANGED filesVars
  PROVE  FInv'
  <1>1. PICK j : j = job[r]
    OBVIOUS
  <1>2. LocalInv(j) /\ j \in Job
    BY <1>1, ThisJobOK DEF FInv
  <1>3. LocalInv([j EXCEPT !.pc = "next", !.soft = TRUE,
                           !.cur = None, !.stat = None, !.hash = None])
    BY <1>2 DEF Job, LocalInv, CatalogInv, MeasuringInv, BatchesMeasured
  <1> QED
    BY <1>1, <1>3, ProceedMeasured DEF ReadFails

LEMMA AppendMeasured ==
  ASSUME NEW S, NEW batch \in Seq(S), NEW e, Measured(e.row),
         \A k \in DOMAIN batch : Measured(batch[k].row)
  PROVE  \A k \in DOMAIN Append(batch, e) : Measured(Append(batch, e)[k].row)
  <1> SUFFICES ASSUME NEW k \in DOMAIN Append(batch, e)
               PROVE  Measured(Append(batch, e)[k].row)
    OBVIOUS
  <1>1. PICK b : b = Append(batch, e)
    OBVIOUS
  <1>2. \/ k \in DOMAIN batch /\ b[k] = batch[k]
        \/ b[k] = e
    BY <1>1, AppendCases
  <1> QED
    BY <1>1, <1>2

LEMMA AppendPendFpMeasured ==
  ASSUME NEW j \in Job, LocalInv(j), NEW e, Measured(e.row)
  PROVE  LocalInv([Settled(j, AfterAppend(j.pendFp, "flushFp")) EXCEPT !.pendFp = Append(@, e)])
  <1>1. PICK b : b = Append(j.pendFp, e)
    OBVIOUS
  <1>2. PICK a \in {"flushFp", "next"} : a = AfterAppend(j.pendFp, "flushFp")
    BY DEF AfterAppend
  <1>3. PICK w : w = [j EXCEPT !.pc = a, !.cur = None, !.stat = None, !.hash = None,
                               !.pendFp = b]
    OBVIOUS
  <1>4. /\ w.pc = a /\ w.byId = j.byId /\ w.pend = j.pend /\ w.pendFp = b
        /\ j.pendFp \in Seq(RowEntry)
    BY <1>3 DEF Job
  <1>5. \A k \in DOMAIN b : Measured(b[k].row)
    BY <1>1, <1>4, AppendMeasured DEF LocalInv, BatchesMeasured
  <1>6. LocalInv(w)
    BY <1>4, <1>5 DEF LocalInv, CatalogInv, MeasuringInv, BatchesMeasured
  <1> QED
    BY <1>1, <1>2, <1>3, <1>6 DEF Settled

LEMMA AppendPendMeasured ==
  ASSUME NEW j \in Job, LocalInv(j), NEW e, Measured(e.row)
  PROVE  LocalInv([Settled(j, AfterAppend(j.pend, "flush")) EXCEPT !.pend = Append(@, e)])
  <1>1. PICK b : b = Append(j.pend, e)
    OBVIOUS
  <1>2. PICK a \in {"flush", "next"} : a = AfterAppend(j.pend, "flush")
    BY DEF AfterAppend
  <1>3. PICK w : w = [j EXCEPT !.pc = a, !.cur = None, !.stat = None, !.hash = None,
                               !.pend = b]
    OBVIOUS
  <1>4. /\ w.pc = a /\ w.byId = j.byId /\ w.pend = b /\ w.pendFp = j.pendFp
        /\ j.pend \in Seq(Entry)
    BY <1>3 DEF Job
  <1>5. \A k \in DOMAIN b : Measured(b[k].row)
    BY <1>1, <1>4, AppendMeasured DEF LocalInv, BatchesMeasured
  <1>6. LocalInv(w)
    BY <1>4, <1>5 DEF LocalInv, CatalogInv, MeasuringInv, BatchesMeasured
  <1> QED
    BY <1>1, <1>2, <1>3, <1>6 DEF Settled

\* The hash is taken here, of a file at least as long as it was at the stat.
LEMMA HashMeasured ==
  ASSUME NoSharedPath, TypeInv, FInv, NEW r \in Refresher, Hash(r), UNCHANGED filesVars
  PROVE  FInv'
  <1>1. PICK j : j = job[r]
    OBVIOUS
  <1>2. LocalInv(j) /\ j \in Job /\ j.pc = "hash"
    BY <1>1, ThisJobOK DEF FInv, Hash
  <1>3. PICK p : p = j.byId[j.cur]
    OBVIOUS
  <1>4. j.cur \in Session /\ p # None
    BY <1>1, <1>2, <1>3, ThisJobOK DEF JobOK, Job
  <1>5. CASE ReadFails(r)
    BY <1>5, ReadFailsMeasured
  <1>6. CASE Proceed(r, Settled(j, "next"))
    <2>1. LocalInv(Settled(j, "next"))
      BY <1>2 DEF Settled, Job, LocalInv, CatalogInv, MeasuringInv, BatchesMeasured
    <2> QED
      BY <1>6, <2>1, ProceedMeasured DEF Proceed
  <1>7. ASSUME Exists(p)
        PROVE  j.stat.size <= Bytes(p).len
    <2>1. high[p][j.cur] = fs[p].len
      BY <1>1, <1>3, <1>4, <1>7, MeasuredFile
    <2>2. j.stat.size <= high[p][j.cur]
      BY <1>2, <1>3 DEF LocalInv, MeasuringInv
    <2> QED
      BY <2>1, <2>2 DEF Bytes
  <1>8. ASSUME Exists(p),
               Proceed(r, [Settled(j, AfterAppend(j.pendFp, "flushFp")) EXCEPT
                     !.pendFp = Append(@, [id |-> j.cur,
                                           row |-> RowOf(p, Bytes(p), j.stat)])])
        PROVE  FInv'
    <2>1. PICK e : e = [id |-> j.cur, row |-> RowOf(p, Bytes(p), j.stat)]
      OBVIOUS
    <2>2. Measured(e.row)
      BY <1>7, <1>8, <2>1 DEF Measured, RowOf
    <2> QED
      BY <1>2, <1>8, <2>1, <2>2, AppendPendFpMeasured, ProceedMeasured DEF Proceed
  <1>9. ASSUME Exists(p), Proceed(r, [j EXCEPT !.pc = "decode", !.hash = Bytes(p)])
        PROVE  FInv'
    <2>1. PICK h : h = Bytes(p)
      OBVIOUS
    <2>2. PICK w : w = [j EXCEPT !.pc = "decode", !.hash = h]
      OBVIOUS
    <2>3. /\ w.pc = "decode" /\ w.cur = j.cur /\ w.stat = j.stat /\ w.hash = h
          /\ w.byId = j.byId /\ w.pend = j.pend /\ w.pendFp = j.pendFp
      BY <1>2, <2>2 DEF Job
    <2>4. LocalInv(w)
      BY <1>2, <1>7, <1>9, <2>1, <2>3
      DEF LocalInv, CatalogInv, MeasuringInv, BatchesMeasured
    <2> QED
      BY <1>9, <2>1, <2>2, <2>4, ProceedMeasured DEF Proceed
  <1> QED
    BY <1>1, <1>3, <1>5, <1>6, <1>8, <1>9 DEF Hash

LEMMA DecodeMeasured ==
  ASSUME TypeInv, FInv, NEW r \in Refresher, Decode(r), UNCHANGED filesVars
  PROVE  FInv'
  <1>1. PICK j : j = job[r]
    OBVIOUS
  <1>2. LocalInv(j) /\ j \in Job /\ j.pc = "decode"
    BY <1>1, ThisJobOK DEF FInv, Decode
  <1>3. PICK p : p = j.byId[j.cur]
    OBVIOUS
  <1>4. CASE ReadFails(r)
    BY <1>4, ReadFailsMeasured
  <1>5. ASSUME Proceed(r, [Settled(j, AfterAppend(j.pend, "flush")) EXCEPT
                 !.pend = Append(@, [id |-> j.cur, row |-> RowOf(p, j.hash, j.stat),
                                     doc |-> Bytes(p)])])
        PROVE  FInv'
    <2>1. PICK e : e = [id |-> j.cur, row |-> RowOf(p, j.hash, j.stat), doc |-> Bytes(p)]
      OBVIOUS
    <2>2. Measured(e.row)
      BY <1>2, <2>1 DEF LocalInv, MeasuringInv, Measured, RowOf
    <2> QED
      BY <1>2, <1>5, <2>1, <2>2, AppendPendMeasured, ProceedMeasured DEF Proceed
  <1> QED
    BY <1>1, <1>3, <1>4, <1>5 DEF Decode

\* A transaction writes the rows of its batch and leaves the others alone.
LEMMA RowsAfterMeasured ==
  ASSUME FInv, NEW S, NEW batch \in Seq(S), sess' = RowsAfter(batch),
         \A k \in DOMAIN batch : Measured(batch[k].row)
  PROVE  RowsMeasured'
  <1>1. ASSUME NEW s \in Session, sess'[s] # NoRow
        PROVE  Measured(sess'[s])
    <2>1. CASE InBatch(batch, s)
      <3>1. PICK k \in DOMAIN batch : EntryFor(batch, s) = batch[k]
        BY <2>1, EntryForInBatch
      <3> QED
        BY <2>1, <3>1 DEF RowsAfter
    <2>2. CASE ~InBatch(batch, s)
      <3>1. sess'[s] = sess[s]
        BY <2>2 DEF RowsAfter
      <3> QED
        BY <1>1, <3>1 DEF FInv, RowsMeasured
    <2> QED
      BY <2>1, <2>2
  <1> QED
    BY <1>1 DEF RowsMeasured, Measured

LEMMA FlushMeasured ==
  ASSUME TypeInv, FInv, NEW r \in Refresher, Flush(r), UNCHANGED filesVars
  PROVE  FInv'
  <1>1. PICK j : j = job[r]
    OBVIOUS
  <1>2. LocalInv(j) /\ j \in Job
    BY <1>1, ThisJobOK DEF FInv
  <1>3. PICK after \in {"next", "flushFpLast"} :
          after = IF j.pc = "flush" THEN "next" ELSE "flushFpLast"
    OBVIOUS
  <1>4. CASE Return(r, "error")
    BY <1>4, ReturnMeasured
  <1>5. CASE Proceed(r, [j EXCEPT !.pc = after])
    <2>1. LocalInv([j EXCEPT !.pc = after])
      BY <1>2 DEF Job, LocalInv, CatalogInv, MeasuringInv, BatchesMeasured
    <2> QED
      BY <1>5, <2>1, ProceedMeasured DEF Proceed
  <1>6. CASE ReplaceSessions(j.pend) /\ Become(r, [j EXCEPT !.pc = after, !.pend = <<>>])
    <2>1. j.pend \in Seq(Entry) /\ \A k \in DOMAIN j.pend : Measured(j.pend[k].row)
      BY <1>2 DEF Job, LocalInv, BatchesMeasured
    <2>2. RowsMeasured'
      BY <1>6, <2>1, RowsAfterMeasured DEF ReplaceSessions
    <2>3. LocalInv([j EXCEPT !.pc = after, !.pend = <<>>])
      BY <1>2 DEF Job, LocalInv, CatalogInv, MeasuringInv, BatchesMeasured
    <2> QED
      BY <1>6, <2>2, <2>3, BecomeMeasured
  <1> QED
    BY <1>1, <1>3, <1>4, <1>5, <1>6 DEF Flush

LEMMA FlushFpMeasured ==
  ASSUME TypeInv, FInv, NEW r \in Refresher, FlushFp(r), UNCHANGED filesVars
  PROVE  FInv'
  <1>1. PICK j : j = job[r]
    OBVIOUS
  <1>2. LocalInv(j) /\ j \in Job
    BY <1>1, ThisJobOK DEF FInv
  <1>3. PICK after :
          after = IF j.pc = "flushFp" THEN [j EXCEPT !.pc = "next"]
                  ELSE [j EXCEPT !.pc = "stale",
                                 !.gone = {s \in Session : j.loaded[s] # NoRow}]
    OBVIOUS
  <1>4. /\ after.pc \in {"next", "stale"} /\ after.byId = j.byId
        /\ after.pend = j.pend /\ after.pendFp = j.pendFp /\ after \in Job
    BY <1>2, <1>3, ZenonT(30) DEF Job, Stage
  <1>5. CASE Return(r, "error")
    BY <1>5, ReturnMeasured
  <1>6. CASE Proceed(r, after)
    <2>1. LocalInv(after)
      BY <1>2, <1>4, SettledMeasured
    <2> QED
      BY <1>6, <2>1, ProceedMeasured DEF Proceed
  <1>7. CASE UpsertSessions(j.pendFp) /\ Become(r, [after EXCEPT !.pendFp = <<>>])
    <2>1. j.pendFp \in Seq(RowEntry) /\ \A k \in DOMAIN j.pendFp : Measured(j.pendFp[k].row)
      BY <1>2 DEF Job, LocalInv, BatchesMeasured
    <2>2. RowsMeasured'
      BY <1>7, <2>1, RowsAfterMeasured DEF UpsertSessions
    <2>3. LocalInv([after EXCEPT !.pendFp = <<>>])
      BY <1>2, <1>4 DEF Job, LocalInv, CatalogInv, MeasuringInv, BatchesMeasured
    <2> QED
      BY <1>7, <2>2, <2>3, BecomeMeasured
  <1> QED
    BY <1>1, <1>3, <1>5, <1>6, <1>7 DEF FlushFp

LEMMA StaleMeasured ==
  ASSUME TypeInv, FInv, NEW r \in Refresher, Stale(r), UNCHANGED filesVars
  PROVE  FInv'
  <1>1. PICK j : j = job[r]
    OBVIOUS
  <1>2. LocalInv(j) /\ j \in Job /\ j.pc = "stale"
    BY <1>1, ThisJobOK DEF FInv, Stale
  <1>3. ASSUME NEW s \in j.gone, Become(r, [j EXCEPT !.gone = @ \ {s}]),
               DeleteSession(s) \/ UNCHANGED storeVars
        PROVE  FInv'
    <2>1. \A t \in Session : sess'[t] # NoRow => sess'[t] = sess[t]
      BY <1>3 DEF DeleteSession, storeVars, TypeInv, StoreOK
    <2>2. RowsMeasured'
      BY <2>1 DEF FInv, RowsMeasured, Measured
    <2>3. LocalInv([j EXCEPT !.gone = @ \ {s}])
      BY <1>2 DEF Job, LocalInv, CatalogInv, MeasuringInv, BatchesMeasured
    <2> QED
      BY <1>3, <2>2, <2>3, BecomeMeasured
  <1> QED
    BY <1>1, <1>3, ReturnMeasured DEF Stale

LEMMA StartMeasured ==
  ASSUME TypeInv, FInv, NEW r \in Refresher, Start(r)
  PROVE  FInv'
  <1>1. ASSUME NEW full
        PROVE  LocalInv([IdleJob("none") EXCEPT !.pc = "walkActive", !.full = full])
    BY DEF IdleJob, LocalInv, CatalogInv, MeasuringInv, BatchesMeasured
  <1> QED
    BY <1>1, ProceedMeasured DEF Start

-----------------------------------------------------------------------------
(* Faults, and the files. *)

LEMMA FaultMeasured ==
  ASSUME TypeInv, FInv, NEW r \in Refresher, Fault(r)
  PROVE  FInv'
  <1>1. CASE Cancel(r)
    <2>1. PICK j : j = job[r]
      OBVIOUS
    <2>2. LocalInv([j EXCEPT !.cancelled = TRUE])
      BY <2>1, ThisJobOK DEF FInv, Job, LocalInv, CatalogInv, MeasuringInv, BatchesMeasured
    <2> QED
      BY <1>1, <2>1, <2>2, ProceedMeasured DEF Cancel, Fault
  <1> QED
    BY <1>1, ReturnMeasured, CutWalkMeasured DEF Fault, IoError, Crash, DirectoryVanishes

\* A file that grows leaves the sizes taken of it behind it.
LEMMA CodexMeasured ==
  ASSUME TypeInv, FInv, Codex
  PROVE  FInv'
  <1>1. FilesInv' /\ Grows
    BY FilesSafe DEF Codex, TypeInv, FInv
  <1>2. /\ high \in [Path -> [Session -> 0..MaxLen]] /\ high' \in [Path -> [Session -> 0..MaxLen]]
        /\ MaxLen \in Nat /\ UNCHANGED <<sess, job>>
    BY FilesStep, FileAssumption DEF Codex, TypeInv, FilesTypeOK, storeVars
  <1>3. RowsMeasured'
    BY <1>2 DEF FInv, RowsMeasured
  <1>4. ASSUME NEW r \in Refresher PROVE LocalInv(job[r])'
    <2>1. PICK j : j = job[r]
      OBVIOUS
    <2>2. JobOK(j) /\ j \in Job /\ LocalInv(j) /\ job'[r] = j
      BY <1>2, <2>1, ThisJobOK DEF FInv
    <2>3. MeasuringInv(j)'
      <3>1. CASE j.pc \in {"hash", "decode"}
        <4>1. /\ j.cur \in Session /\ j.byId[j.cur] \in Path
              /\ j.stat \in [size : 0..MaxLen, mtime : MTime]
          BY <2>2, <3>1 DEF JobOK, Job
        <4>2. j.stat.size \in Nat /\ j.stat.size <= high[j.byId[j.cur]][j.cur]
          BY <1>2, <2>2, <3>1, <4>1 DEF LocalInv, MeasuringInv
        <4>3. j.stat.size <= high'[j.byId[j.cur]][j.cur]
          BY <1>1, <1>2, <4>1, <4>2 DEF Grows
        <4> QED
          BY <2>2, <4>3 DEF LocalInv, MeasuringInv
      <3>2. CASE j.pc \notin {"hash", "decode"}
        BY <3>2 DEF MeasuringInv
      <3> QED
        BY <3>1, <3>2
    <2> QED
      BY <2>1, <2>2, <2>3 DEF LocalInv, CatalogInv, BatchesMeasured
  <1> QED
    BY <1>1, <1>3, <1>4 DEF FInv

-----------------------------------------------------------------------------
(* The theorem. *)

LEMMA InitMeasured == Init => FInv
  BY InitSafe, IdleJobMeasured DEF Init, IInv, FInv, RowsMeasured

LEMMA StepMeasured ==
  ASSUME NoSharedPath
  PROVE  TypeInv /\ FInv /\ [Next]_vars => FInv'
  <1> SUFFICES ASSUME TypeInv, FInv, [Next]_vars PROVE FInv'
    OBVIOUS
  <1>1. CASE UNCHANGED vars
    <2>1. UNCHANGED <<fs, high, sess, job>>
      BY <1>1 DEF vars, filesVars, storeVars
    <2> QED
      BY <2>1 DEF FInv, FilesInv, Exists, RowsMeasured, LocalInv, CatalogInv,
                  MeasuringInv, BatchesMeasured
  <1>2. ASSUME NEW r \in Refresher, Work(r) PROVE FInv'
    <2>1. UNCHANGED filesVars
      BY <1>2 DEF Work
    <2> QED
      BY <1>2, <2>1, WalkMeasured, ParseMeasured, LoadMeasured, VisitMeasured,
         HashMeasured, DecodeMeasured, FlushMeasured, FlushFpMeasured, StaleMeasured
      DEF Work
  <1> QED
    BY <1>1, <1>2, StartMeasured, FaultMeasured, CodexMeasured DEF Next

(***************************************************************************)
(* With any number of refreshes at once, over paths that no other session  *)
(* takes over, and wherever they crash, are cancelled or meet an error: a  *)
(* row's size never passes the content its hash was taken of.  The stat of *)
(* indexer.go:184 comes before the hash of 204 in every run, the rollout   *)
(* is append-only, and a row is written whole by one run.                  *)
(***************************************************************************)
THEOREM FingerprintNeverAhead ==
  ASSUME NoSharedPath
  PROVE  Spec => []FingerprintNotAhead
  <1>1. TypeInv /\ FInv /\ [Next]_vars => TypeInv' /\ FInv'
    BY TypeInvStep, StepMeasured
  <1>2. Init => TypeInv /\ FInv
    BY TypeInvInit, InitMeasured
  <1>3. FInv => FingerprintNotAhead
    BY DEF FInv, RowsMeasured, Measured, FingerprintNotAhead
  <1> QED
    BY <1>1, <1>2, <1>3, PTL DEF Spec


-----------------------------------------------------------------------------
(* A clean refresh: the inductive invariant. *)

\* Of two copies of a session the catalog prefers p.
Precedes(p, q) == TimeOf[q] < TimeOf[p] \/ (TimeOf[q] = TimeOf[p] /\ p <= q)

\* The roots the walk has not come to, and the paths not parsed yet.
Unwalked(j) ==
    IF j.pc \in {"idle", "walkActive"} THEN Path
    ELSE IF j.pc = "walkArchived" THEN Archived ELSE {}

Ahead(j) == j.unparsed \cup Unwalked(j)

CatalogSoFar(j) ==
    \A s \in Session :
        /\ j.byId[s] # None =>
             /\ Parses(j.byId[s]) /\ ParsedID(j.byId[s]) = s
             /\ \A q \in Ahead(j) : j.byId[s] < q
        /\ \A p \in Path \ Ahead(j) :
             Parses(p) /\ ParsedID(p) = s => j.byId[s] # None /\ Precedes(j.byId[s], p)

RowFor(p) == RowOf(p, Bytes(p), Fingerprint(p))

MirrorsFile(p, s) == sess[s] = RowFor(p) /\ docs[s] = Bytes(p)

Fresh(j) ==
    /\ j.pc \in {"hash", "decode"} => j.stat = Fingerprint(j.byId[j.cur])
    /\ j.pc = "decode" => j.hash = Bytes(j.byId[j.cur])
    /\ \A k \in DOMAIN j.pend :
         LET p == j.byId[j.pend[k].id] IN
         p # None /\ j.pend[k].row = RowFor(p) /\ j.pend[k].doc = Bytes(p)
    /\ \A k \in DOMAIN j.pendFp :
         LET p == j.byId[j.pendFp[k].id] IN
         p # None /\ j.pendFp[k].row = RowFor(p) /\ docs[j.pendFp[k].id] = Bytes(p)

Looping == {"next", "hash", "decode", "flush", "flushFp", "flushLast", "flushFpLast", "stale"}

\* The loop has yet to deal with s.
Pending(j, s) == s \in j.todo \/ (j.pc \in {"hash", "decode"} /\ s = j.cur)

\* What the loop has done about a session of the catalog.
DealtWith(j, s) ==
    MirrorsFile(j.byId[s], s) \/ InBatch(j.pend, s) \/ InBatch(j.pendFp, s)

\* What has become of a session the catalog lacks.
Missing(j, s) ==
    /\ sess[s] \in {NoRow, j.loaded[s]}
    /\ j.pc = "stale" => s \in j.gone \/ sess[s] = NoRow

Settling(j) ==
    j.pc \in Looping =>
        \A s \in Session :
            IF j.byId[s] = None THEN Missing(j, s)
            ELSE j.soft \/ Pending(j, s) \/ DealtWith(j, s)

Exact == \A s \in Session : Mirrored(s) /\ (Newest(Path, s) = {} => Absent(s))

QuietInv(j) ==
    /\ CatalogSoFar(j) /\ Fresh(j) /\ Settling(j)
    /\ j.pc = "idle" /\ j.outcome = "clean" => Exact

\* Whether files change or not: what is behind a stage is done.
BehindInv(j) ==
    /\ j.pc \notin {"walkArchived", "parse"} => j.unparsed = {}
    /\ j.pc \in {"flushFpLast", "stale"} => j.pend = <<>>

NoOrphans == \A s \in Session : sess[s] = NoRow => docs[s] = NoDoc

MInv ==
    /\ NoOrphans
    /\ \A r \in Refresher : BehindInv(job[r]) /\ (quiet[r] => QuietInv(job[r]))

-----------------------------------------------------------------------------
(* How the steps of the only refresher end. *)

LEMMA BecomeMirrors ==
  ASSUME OneAtATime, TypeInv, NEW r \in Refresher, NEW j, Become(r, j),
         NoOrphans', BehindInv(j), quiet'[r] => QuietInv(j)'
  PROVE  MInv'
  <1>1. ASSUME NEW q \in Refresher PROVE q = r /\ job'[q] = j
    BY DEF OneAtATime, Become, TypeInv, JobsOK
  <1> QED
    BY <1>1 DEF MInv, BehindInv

\* What is said of a job depends on the files and the tables only.
LEMMA QuietFrame ==
  ASSUME NEW j, QuietInv(j), UNCHANGED <<fs, sess, docs>>
  PROVE  QuietInv(j)'
  <1>1. \A p : /\ Parses(p)' = Parses(p) /\ ParsedID(p)' = ParsedID(p)
               /\ Bytes(p)' = Bytes(p) /\ Fingerprint(p)' = Fingerprint(p)
               /\ RowFor(p)' = RowFor(p)
    BY DEF Parses, Exists, ParsedID, Bytes, Fingerprint, RowFor, RowOf
  <1>2. CatalogSoFar(j)'
    BY <1>1 DEF QuietInv, CatalogSoFar, Ahead, Unwalked, Precedes
  <1>3. Fresh(j)'
    BY <1>1 DEF QuietInv, Fresh
  <1>4. Settling(j)'
    BY <1>1 DEF QuietInv, Settling, Missing, Pending, DealtWith, MirrorsFile
  <1>5. Exact => Exact'
    BY <1>1 DEF Exact, Mirrored, Absent, Newest, RowFor
  <1> QED
    BY <1>2, <1>3, <1>4, <1>5 DEF QuietInv

LEMMA ProceedMirrors ==
  ASSUME OneAtATime, TypeInv, MInv, NEW r \in Refresher, NEW j, BehindInv(j),
         quiet'[r] => QuietInv(j), Become(r, j), UNCHANGED <<filesVars, storeVars>>
  PROVE  MInv'
  <1>1. UNCHANGED <<fs, sess, docs>>
    BY DEF filesVars, storeVars
  <1>2. NoOrphans'
    BY <1>1 DEF MInv, NoOrphans
  <1> QED
    BY <1>1, <1>2, QuietFrame, BecomeMirrors

LEMMA NewJobMirrors ==
  ASSUME NEW j, j.byId = [s \in Session |-> None], j.pend = <<>>, j.pendFp = <<>>,
         j.pc \in {"idle", "walkActive"}, j.unparsed = {},
         j.pc = "idle" /\ j.outcome = "clean" => Exact
  PROVE  BehindInv(j) /\ QuietInv(j)
  BY DEF BehindInv, QuietInv, CatalogSoFar, Ahead, Unwalked, Fresh, Settling, Looping

LEMMA ReturnMirrors ==
  ASSUME OneAtATime, TypeInv, MInv, NEW r \in Refresher, NEW outcome,
         Return(r, outcome), UNCHANGED filesVars,
         quiet'[r] /\ outcome = "clean" => Exact
  PROVE  MInv'
  <1>1. PICK j : j = IdleJob(outcome)
    OBVIOUS
  <1>2. /\ j.byId = [s \in Session |-> None] /\ j.pend = <<>> /\ j.pendFp = <<>>
        /\ j.pc = "idle" /\ j.unparsed = {} /\ j.outcome = outcome
    BY <1>1 DEF IdleJob
  <1>3. BehindInv(j) /\ (quiet'[r] => QuietInv(j))
    <2>1. CASE outcome = "clean" => Exact
      BY <1>2, <2>1, NewJobMirrors
    <2>2. CASE ~quiet'[r]
      BY <1>2, <2>2 DEF BehindInv
    <2> QED
      BY <2>1, <2>2
  <1> QED
    BY <1>1, <1>3, ProceedMirrors DEF Return

\* A failed return says nothing of the index.
LEMMA ErrorMirrors ==
  ASSUME OneAtATime, TypeInv, MInv, NEW r \in Refresher,
         Return(r, "error") \/ Return(r, "none"), UNCHANGED filesVars
  PROVE  MInv'
  BY ReturnMirrors

LEMMA ThisJobMirrors ==
  ASSUME MInv, NEW r \in Refresher
  PROVE  BehindInv(job[r]) /\ (quiet[r] => QuietInv(job[r]))
  BY DEF MInv

-----------------------------------------------------------------------------
(* The catalog. *)

\* Fewer paths ahead, and none of those left behind unparsed has a session.
LEMMA CatalogNarrows ==
  ASSUME NEW j, NEW w, CatalogSoFar(j), w.byId = j.byId, Ahead(w) \subseteq Ahead(j),
         \A p \in Path \ Ahead(w) : Parses(p) => p \notin Ahead(j)
  PROVE  CatalogSoFar(w)
  BY DEF CatalogSoFar

LEMMA SameCatalog ==
  ASSUME NEW j, NEW w, CatalogSoFar(j), w.byId = j.byId, w.unparsed = j.unparsed,
         j.pc \notin {"idle", "walkActive", "walkArchived"},
         w.pc \notin {"idle", "walkActive", "walkArchived"}
  PROVE  CatalogSoFar(w)
  BY CatalogNarrows DEF Ahead, Unwalked

\* The same batches, and nothing being read.
LEMMA SameBatchesFresh ==
  ASSUME NEW j, NEW w, Fresh(j), w.byId = j.byId, w.pend = j.pend, w.pendFp = j.pendFp,
         w.pc \notin {"hash", "decode"}
  PROVE  Fresh(w)
  BY DEF Fresh

LEMMA WalkMirrors ==
  ASSUME OneAtATime, TypeInv, MInv, NEW r \in Refresher, Walk(r),
         UNCHANGED filesVars, UNCHANGED quiet
  PROVE  MInv'
  <1>1. PICK j : j = job[r]
    OBVIOUS
  <1>2. j \in Job /\ BehindInv(j) /\ (quiet[r] => QuietInv(j))
    BY <1>1, ThisJobOK, ThisJobMirrors
  <1>3. ASSUME NEW here, NEW root, NEW after,
               \/ here = "walkActive" /\ root = Path \ Archived /\ after = "walkArchived"
               \/ here = "walkArchived" /\ root = Archived /\ after = "parse",
               WalkRoot(r, here, root, after)
        PROVE  MInv'
    <2>1. CASE Return(r, "error")
      BY <2>1, ErrorMirrors
    <2>2. PICK w : w = [j EXCEPT !.pc = after, !.unparsed = @ \cup Complete(root)]
      OBVIOUS
    <2>3. /\ w.pc = after /\ w.unparsed = j.unparsed \cup Complete(root)
          /\ w.byId = j.byId /\ w.pend = j.pend /\ w.pendFp = j.pendFp
      BY <1>2, <2>2 DEF Job
    <2>4. j.pc = here
      BY <1>1, <1>3 DEF WalkRoot
    <2>5. BehindInv(w)
      BY <1>3, <2>3 DEF BehindInv
    <2>6. ASSUME QuietInv(j) PROVE QuietInv(w)
      <3>1. Ahead(w) \subseteq Ahead(j)
        BY <1>3, <2>3, <2>4, PathAssumption DEF Ahead, Unwalked, Complete
      <3>2. \A p \in Path \ Ahead(w) : Parses(p) => p \notin Ahead(j)
        BY <1>3, <2>3, <2>4, PathAssumption DEF Ahead, Unwalked, Complete, Parses
      <3>3. CatalogSoFar(w)
        BY <2>3, <2>6, <3>1, <3>2, CatalogNarrows DEF QuietInv
      <3>4. Fresh(w)
        BY <1>3, <2>3, <2>6, SameBatchesFresh DEF QuietInv
      <3> QED
        BY <1>3, <2>3, <3>3, <3>4 DEF QuietInv, Settling, Looping
    <2> QED
      BY <1>1, <1>2, <1>3, <2>1, <2>2, <2>5, <2>6, ProceedMirrors DEF WalkRoot, Proceed
  <1> QED
    BY <1>3 DEF Walk

LEMMA ParseMirrors ==
  ASSUME OneAtATime, TypeInv, IInv, MInv, NEW r \in Refresher, Parse(r),
         UNCHANGED filesVars, UNCHANGED quiet
  PROVE  MInv'
  <1>1. PICK j : j = job[r]
    OBVIOUS
  <1>2. j \in Job /\ BehindInv(j) /\ (quiet[r] => QuietInv(j)) /\ j.pc = "parse"
    BY <1>1, ThisJobOK, ThisJobMirrors DEF Parse
  <1>3. CASE Return(r, "error")
    BY <1>3, ErrorMirrors
  <1>4. CASE j.unparsed = {} /\ Proceed(r, [j EXCEPT !.pc = "load"])
    <2>1. PICK w : w = [j EXCEPT !.pc = "load"]
      OBVIOUS
    <2>2. /\ w.pc = "load" /\ w.unparsed = j.unparsed
          /\ w.byId = j.byId /\ w.pend = j.pend /\ w.pendFp = j.pendFp
      BY <1>2, <2>1 DEF Job
    <2>3. BehindInv(w)
      BY <1>4, <2>2 DEF BehindInv
    <2>4. QuietInv(j) => QuietInv(w)
      BY <1>2, <2>2, SameCatalog, SameBatchesFresh DEF QuietInv, Settling, Looping
    <2> QED
      BY <1>2, <1>4, <2>1, <2>3, <2>4, ProceedMirrors DEF Proceed
  <1>5. ASSUME NEW p \in j.unparsed, ~Parses(p),
               Proceed(r, [j EXCEPT !.unparsed = @ \ {p}, !.warned = TRUE])
        PROVE  MInv'
    <2>1. PICK w : w = [j EXCEPT !.unparsed = @ \ {p}, !.warned = TRUE]
      OBVIOUS
    <2>2. /\ w.pc = "parse" /\ w.unparsed = j.unparsed \ {p}
          /\ w.byId = j.byId /\ w.pend = j.pend /\ w.pendFp = j.pendFp
      BY <1>2, <2>1 DEF Job
    <2>3. BehindInv(w)
      BY <2>2 DEF BehindInv
    <2>4. ASSUME QuietInv(j) PROVE QuietInv(w)
      <3>1. CatalogSoFar(w)
        BY <1>2, <1>5, <2>2, <2>4, CatalogNarrows DEF QuietInv, Ahead, Unwalked
      <3>2. Fresh(w)
        BY <2>2, <2>4, SameBatchesFresh DEF QuietInv
      <3> QED
        BY <2>2, <3>1, <3>2 DEF QuietInv, Settling, Looping
    <2> QED
      BY <1>2, <1>5, <2>1, <2>3, <2>4, ProceedMirrors DEF Proceed
  <1>6. ASSUME NEW p \in j.unparsed, Parses(p), \A q \in j.unparsed : p <= q,
               Proceed(r, [j EXCEPT !.unparsed = @ \ {p},
                             !.byId = IF Supersedes(@, p)
                                      THEN [@ EXCEPT ![ParsedID(p)] = p] ELSE @])
        PROVE  MInv'
    <2>1. PICK c : c = IF Supersedes(j.byId, p)
                       THEN [j.byId EXCEPT ![ParsedID(p)] = p] ELSE j.byId
      OBVIOUS
    <2>2. PICK w : w = [j EXCEPT !.unparsed = @ \ {p}, !.byId = c]
      OBVIOUS
    <2>3. /\ w.pc = "parse" /\ w.unparsed = j.unparsed \ {p} /\ w.byId = c
          /\ w.pend = j.pend /\ w.pendFp = j.pendFp
          /\ j.unparsed \subseteq Path /\ j.byId \in [Session -> Path \cup {None}]
      BY <1>2, <2>2 DEF Job
    <2>4. BehindInv(w)
      BY <2>3 DEF BehindInv
    <2>5. ASSUME QuietInv(j), NEW s \in Session
          PROVE  /\ c[s] # None =>
                      /\ Parses(c[s]) /\ ParsedID(c[s]) = s
                      /\ \A q \in j.unparsed \ {p} : c[s] < q
                 /\ \A q \in Path \ (j.unparsed \ {p}) :
                      Parses(q) /\ ParsedID(q) = s => c[s] # None /\ Precedes(c[s], q)
      <3>1. /\ j.byId[s] # None =>
                 /\ Parses(j.byId[s]) /\ ParsedID(j.byId[s]) = s
                 /\ \A q \in j.unparsed : j.byId[s] < q
            /\ \A q \in Path \ j.unparsed :
                 Parses(q) /\ ParsedID(q) = s => j.byId[s] # None /\ Precedes(j.byId[s], q)
        BY <1>2, <2>5 DEF QuietInv, CatalogSoFar, Ahead, Unwalked
      <3>2. p \in Path /\ p \in Nat /\ p # None /\ TimeOf[p] \in Nat
        <4>1. p \in Path
          BY <2>3
        <4> QED
          BY <4>1, PathAssumption, FileAssumption, AbsentAssumption
      <3>3. CASE s # ParsedID(p)
        <4>1. c[s] = j.byId[s]
          BY <2>1, <2>3, <3>3
        <4>2. ASSUME NEW q \in Path \ (j.unparsed \ {p}), ParsedID(q) = s
              PROVE  q \in Path \ j.unparsed
          BY <3>3, <4>2
        <4> QED
          BY <3>1, <4>1, <4>2
      <3>4. CASE s = ParsedID(p) /\ Supersedes(j.byId, p)
        <4>1. c[s] = p
          BY <2>1, <2>3, <3>4
        <4>2. \A q \in j.unparsed \ {p} : p < q
          <5> SUFFICES ASSUME NEW q \in j.unparsed \ {p} PROVE p < q
            OBVIOUS
          <5>1. q \in Nat /\ p <= q /\ p # q
            BY <1>6, <2>3, PathAssumption
          <5> QED
            BY <3>2, <5>1
        <4>3. Precedes(p, p)
          BY <3>2 DEF Precedes
        <4>4. ASSUME NEW q \in Path \ j.unparsed, Parses(q), ParsedID(q) = s
              PROVE  Precedes(p, q)
          <5>1. PICK b : b = j.byId[s]
            OBVIOUS
          <5>2. b # None /\ Precedes(b, q) /\ b \in Path
            BY <2>3, <3>1, <4>4, <5>1
          <5>3. TimeOf[p] > TimeOf[b]
            BY <3>4, <5>1, <5>2 DEF Supersedes
          <5>4. TimeOf[b] \in Nat /\ TimeOf[q] \in Nat
            BY <5>2, FileAssumption
          <5> QED
            BY <3>2, <5>2, <5>3, <5>4 DEF Precedes
        <4> QED
          BY <1>6, <3>2, <3>4, <4>1, <4>2, <4>3, <4>4
      <3>5. CASE s = ParsedID(p) /\ ~Supersedes(j.byId, p)
        <4>1. PICK b : b = j.byId[s] /\ c[s] = b
          BY <2>1, <3>5
        <4>2. b # None /\ ~(TimeOf[p] > TimeOf[b]) /\ b \in Path
          BY <2>3, <3>5, <4>1 DEF Supersedes
        <4>3. TimeOf[b] \in Nat /\ b \in Nat
          BY <4>2, FileAssumption, PathAssumption
        <4>4. b < p
          BY <3>1, <4>1, <4>2
        <4>5. Precedes(b, p)
          BY <3>2, <4>2, <4>3, <4>4 DEF Precedes
        <4> QED
          BY <3>1, <4>1, <4>2, <4>5
      <3> QED
        BY <3>3, <3>4, <3>5
    <2>6. ASSUME QuietInv(j) PROVE QuietInv(w)
      <3>1. CatalogSoFar(w)
        BY <2>3, <2>5, <2>6 DEF CatalogSoFar, Ahead, Unwalked
      <3>2. Fresh(w)
        <4>1. j.pend = <<>> /\ j.pendFp = <<>>
          BY <1>1, <1>2 DEF IInv, JobInv, StageInv
        <4> QED
          BY <2>3, <4>1 DEF Fresh
      <3> QED
        BY <2>3, <3>1, <3>2 DEF QuietInv, Settling, Looping
    <2> QED
      BY <1>2, <1>6, <2>1, <2>2, <2>4, <2>6, ProceedMirrors DEF Proceed
  <1> QED
    BY <1>1, <1>3, <1>4, <1>5, <1>6 DEF Parse

LEMMA LoadMirrors ==
  ASSUME OneAtATime, TypeInv, IInv, MInv, NEW r \in Refresher, Load(r),
         UNCHANGED filesVars, UNCHANGED quiet
  PROVE  MInv'
  <1>1. PICK j : j = job[r]
    OBVIOUS
  <1>2. j \in Job /\ BehindInv(j) /\ (quiet[r] => QuietInv(j)) /\ j.pc = "load"
    BY <1>1, ThisJobOK, ThisJobMirrors DEF Load
  <1>3. PICK todo : todo = {s \in Session : j.byId[s] # None}
    OBVIOUS
  <1>4. PICK w : w = [j EXCEPT !.pc = "next", !.loaded = sess, !.todo = todo]
    OBVIOUS
  <1>5. /\ w.pc = "next" /\ w.unparsed = j.unparsed /\ w.loaded = sess /\ w.todo = todo
        /\ w.byId = j.byId /\ w.pend = j.pend /\ w.pendFp = j.pendFp
    BY <1>2, <1>4 DEF Job
  <1>6. BehindInv(w)
    BY <1>2, <1>5 DEF BehindInv
  <1>7. ASSUME QuietInv(j) PROVE QuietInv(w)
    <2>1. CatalogSoFar(w) /\ Fresh(w)
      BY <1>2, <1>5, <1>7, SameCatalog, SameBatchesFresh DEF QuietInv
    <2>2. Settling(w)
      BY <1>3, <1>5 DEF Settling, Missing, Pending
    <2> QED
      BY <1>5, <2>1, <2>2 DEF QuietInv
  <1>8. CASE Return(r, "error")
    BY <1>8, ErrorMirrors
  <1> QED
    BY <1>1, <1>2, <1>3, <1>4, <1>6, <1>7, <1>8, ProceedMirrors DEF Load, Proceed

-----------------------------------------------------------------------------
(* The loop. *)

(***************************************************************************)
(* A row with the path of the catalog and either the size or the hash of   *)
(* the file there has its content, and so have the messages.               *)
(***************************************************************************)
LEMMA SameContent ==
  ASSUME NoSharedPath, TypeInv, IInv, NEW r \in Refresher, NEW s \in Session,
         NEW p, p = job[r].byId[s], p # None, Exists(p),
         NEW row, row = sess[s], row # NoRow, row.path = p,
         row.size = fs[p].len \/ row.hash = Bytes(p)
  PROVE  row.hash = Bytes(p) /\ docs[s] = Bytes(p) /\ row \in Row
  <1>1. p \in Path /\ fs[p] \in File /\ fs[p].sid = s /\ high[p][s] = fs[p].len
    BY OwnFile
  <1>2. row \in Row
    BY DEF TypeInv, StoreOK
  <1>3. docs[s] \in Content /\ Chain(s, row, docs[s])
    BY DEF IInv, StoreInv, TypeInv, StoreOK
  <1>4. PICK d \in Content : d = docs[s]
    BY <1>3
  <1>5. /\ row.hash \in Content /\ row.hash.sid = s /\ d.sid = s
        /\ row.size <= row.hash.len /\ row.hash.len <= d.len /\ d.len <= fs[p].len
    BY <1>1, <1>2, <1>3, <1>4 DEF Chain, Row
  <1>6. row.size \in Nat /\ row.hash.len \in Nat /\ d.len \in Nat /\ fs[p].len \in Nat
    BY <1>1, <1>2, FileAssumption DEF Row, Content, File
  <1>7. row.hash.len = fs[p].len \/ row.size = fs[p].len
    BY DEF Bytes
  <1>8. row.hash.len = fs[p].len /\ d.len = fs[p].len
    BY <1>5, <1>6, <1>7
  <1>9. PICK h \in Content : h = row.hash
    BY <1>5
  <1>10. h = [sid |-> s, len |-> fs[p].len] /\ d = [sid |-> s, len |-> fs[p].len]
    BY <1>5, <1>8, <1>9 DEF Content
  <1> QED
    BY <1>1, <1>2, <1>4, <1>9, <1>10 DEF Bytes

\* A row is known by its four columns.
LEMMA RowIs ==
  ASSUME NEW row \in Row, NEW p, row.path = p, row.hash = Bytes(p),
         row.size = Fingerprint(p).size, row.mtime = Fingerprint(p).mtime
  PROVE  row = RowFor(p)
  BY DEF Row, RowFor, RowOf

\* The only thing the step has done to the loop is to deal with s.
LEMMA OneDealtWith ==
  ASSUME NEW j, NEW w, j.pc \in Looping, w.pc \in Looping \ {"stale"}, Settling(j), NEW s,
         w.byId = j.byId, w.loaded = j.loaded, j.soft => w.soft,
         \A t \in Session \ {s} : /\ Pending(j, t) => Pending(w, t)
                                  /\ InBatch(j.pend, t) => InBatch(w.pend, t)
                                  /\ InBatch(j.pendFp, t) => InBatch(w.pendFp, t),
         w.byId[s] # None, w.soft \/ Pending(w, s) \/ DealtWith(w, s)
  PROVE  Settling(w)
  BY DEF Settling, DealtWith, Missing

LEMMA VisitMirrors ==
  ASSUME OneAtATime, NoSharedPath, TypeInv, IInv, MInv, NEW r \in Refresher, Visit(r),
         UNCHANGED filesVars, UNCHANGED quiet
  PROVE  MInv'
  <1>1. PICK j : j = job[r]
    OBVIOUS
  <1>2. /\ j \in Job /\ JobOK(j) /\ BehindInv(j) /\ (quiet[r] => QuietInv(j))
        /\ j.pc = "next" /\ JobInv(j)
    BY <1>1, ThisJobOK, ThisJobMirrors DEF Visit, IInv
  <1>3. CASE Return(r, "error")
    BY <1>3, ErrorMirrors
  <1>4. CASE j.todo = {} /\ Proceed(r, [j EXCEPT !.pc = "flushLast"])
    <2>1. PICK w : w = [j EXCEPT !.pc = "flushLast"]
      OBVIOUS
    <2>2. /\ w.pc = "flushLast" /\ w.unparsed = j.unparsed /\ w.loaded = j.loaded
          /\ w.byId = j.byId /\ w.pend = j.pend /\ w.pendFp = j.pendFp
          /\ w.soft = j.soft /\ w.todo = j.todo
      BY <1>2, <2>1 DEF Job
    <2>3. BehindInv(w)
      BY <1>2, <2>2 DEF BehindInv
    <2>4. ASSUME QuietInv(j) PROVE QuietInv(w)
      <3>1. CatalogSoFar(w) /\ Fresh(w)
        BY <1>2, <2>2, <2>4, SameCatalog, SameBatchesFresh DEF QuietInv
      <3>2. Settling(w)
        BY <1>2, <2>2, <2>4 DEF QuietInv, Settling, Looping, Pending, DealtWith, Missing
      <3> QED
        BY <2>2, <3>1, <3>2 DEF QuietInv
    <2> QED
      BY <1>2, <1>4, <2>1, <2>3, <2>4, ProceedMirrors DEF Proceed
  <1>5. ASSUME NEW s \in j.todo, NEW p, p = j.byId[s], NEW v, v = [j EXCEPT !.todo = @ \ {s}],
               \/ ~Exists(p) /\ Proceed(r, [v EXCEPT !.soft = TRUE])
               \/ Exists(p) /\ Matches(j, s, Fingerprint(p)) /\ Proceed(r, v)
               \/ Exists(p) /\ Proceed(r, [v EXCEPT !.pc = "hash", !.cur = s,
                                                    !.stat = Fingerprint(p)])
        PROVE  MInv'
    <2>1. s \in Session /\ p # None /\ Undecided(j, s)
      BY <1>2, <1>5 DEF JobOK, Job, JobInv, PendingInv
    <2>2. /\ v \in Job /\ v.pc = "next" /\ v.unparsed = j.unparsed /\ v.loaded = j.loaded
          /\ v.byId = j.byId /\ v.pend = j.pend /\ v.pendFp = j.pendFp
          /\ v.soft = j.soft /\ v.todo = j.todo \ {s}
      BY <1>2, <1>5 DEF Job
    <2>3. ASSUME NEW w, w.pc \in {"next", "hash"}, w.unparsed = v.unparsed, w.loaded = v.loaded,
                 w.byId = v.byId, w.pend = v.pend, w.pendFp = v.pendFp,
                 j.soft => w.soft, w.todo = v.todo,
                 w.pc = "hash" => w.cur = s /\ w.stat = Fingerprint(p),
                 w.soft \/ w.pc = "hash" \/ MirrorsFile(p, s),
                 Become(r, w), UNCHANGED storeVars
          PROVE  MInv'
      <3>1. BehindInv(w)
        BY <1>2, <2>2, <2>3 DEF BehindInv
      <3>2. ASSUME QuietInv(j) PROVE QuietInv(w)
        <4>1. CatalogSoFar(w)
          BY <1>2, <2>2, <2>3, <3>2, SameCatalog DEF QuietInv
        <4>2. Fresh(w)
          BY <1>5, <2>2, <2>3, <3>2 DEF QuietInv, Fresh
        <4>3. Settling(w)
          BY <1>2, <1>5, <2>1, <2>2, <2>3, <3>2, OneDealtWith
          DEF QuietInv, Looping, Pending, DealtWith
        <4> QED
          BY <2>3, <4>1, <4>2, <4>3 DEF QuietInv
      <3> QED
        BY <1>2, <2>3, <3>1, <3>2, ProceedMirrors
    <2>4. CASE Proceed(r, [v EXCEPT !.soft = TRUE])
      <3>1. PICK w : w = [v EXCEPT !.soft = TRUE]
        OBVIOUS
      <3> QED
        BY <2>2, <2>3, <2>4, <3>1 DEF Proceed, Job
    <2>5. CASE Exists(p) /\ Matches(j, s, Fingerprint(p)) /\ Proceed(r, v)
      <3>1. PICK row : row = sess[s]
        OBVIOUS
      <3>2. /\ row # NoRow /\ row.path = p /\ row.size = Fingerprint(p).size
            /\ row.mtime = Fingerprint(p).mtime
        BY <1>5, <2>1, <2>5, <3>1 DEF Undecided, Matches
      <3>3. row.hash = Bytes(p) /\ docs[s] = Bytes(p) /\ row \in Row
        BY <1>1, <1>5, <2>1, <2>5, <3>1, <3>2, SameContent DEF Fingerprint
      <3>4. MirrorsFile(p, s)
        BY <3>1, <3>2, <3>3, RowIs DEF MirrorsFile
      <3> QED
        BY <2>2, <2>3, <2>5, <3>4 DEF Proceed
    <2>6. CASE Proceed(r, [v EXCEPT !.pc = "hash", !.cur = s, !.stat = Fingerprint(p)])
      <3>1. PICK w : w = [v EXCEPT !.pc = "hash", !.cur = s, !.stat = Fingerprint(p)]
        OBVIOUS
      <3>2. /\ w.pc = "hash" /\ w.unparsed = v.unparsed /\ w.loaded = v.loaded
            /\ w.byId = v.byId /\ w.pend = v.pend /\ w.pendFp = v.pendFp
            /\ w.soft = v.soft /\ w.todo = v.todo /\ w.cur = s /\ w.stat = Fingerprint(p)
        BY <2>2, <3>1 DEF Job
      <3>3. Become(r, w) /\ UNCHANGED storeVars
        BY <2>6, <3>1 DEF Proceed
      <3>4. w.pc \in {"next", "hash"} /\ (j.soft => w.soft)
        BY <2>2, <3>2
      <3> QED
        BY <2>3, <3>2, <3>3, <3>4
    <2> QED
      BY <1>5, <2>4, <2>5, <2>6
  <1> QED
    BY <1>1, <1>3, <1>4, <1>5 DEF Visit

LEMMA ReadFailsMirrors ==
  ASSUME OneAtATime, TypeInv, MInv, NEW r \in Refresher, ReadFails(r),
         job[r].pc \in {"hash", "decode"}, UNCHANGED filesVars, UNCHANGED quiet
  PROVE  MInv'
  <1>1. PICK j : j = job[r]
    OBVIOUS
  <1>2. j \in Job /\ BehindInv(j) /\ (quiet[r] => QuietInv(j)) /\ j.pc \in {"hash", "decode"}
    BY <1>1, ThisJobOK, ThisJobMirrors
  <1>3. PICK w : w = [j EXCEPT !.pc = "next", !.soft = TRUE,
                               !.cur = None, !.stat = None, !.hash = None]
    OBVIOUS
  <1>4. /\ w.pc = "next" /\ w.unparsed = j.unparsed /\ w.loaded = j.loaded
        /\ w.byId = j.byId /\ w.pend = j.pend /\ w.pendFp = j.pendFp /\ w.soft = TRUE
    BY <1>2, <1>3 DEF Job
  <1>5. BehindInv(w)
    BY <1>2, <1>4 DEF BehindInv
  <1>6. ASSUME QuietInv(j) PROVE QuietInv(w)
    <2>1. CatalogSoFar(w) /\ Fresh(w)
      BY <1>2, <1>4, <1>6, SameCatalog, SameBatchesFresh DEF QuietInv
    <2>2. Settling(w)
      BY <1>2, <1>4, <1>6 DEF QuietInv, Settling, Looping, Missing
    <2> QED
      BY <1>4, <2>1, <2>2 DEF QuietInv
  <1> QED
    BY <1>1, <1>2, <1>3, <1>5, <1>6, ProceedMirrors DEF ReadFails

\* The session that was being read is dealt with, and waits in a batch or is mirrored.
LEMMA CurrentDealtWith ==
  ASSUME OneAtATime, TypeInv, MInv, NEW r \in Refresher, NEW j, j = job[r],
         j.pc \in {"hash", "decode"}, UNCHANGED <<filesVars, storeVars>>, UNCHANGED quiet,
         NEW w, Become(r, w), w.pc \in {"next", "flush", "flushFp"},
         w.byId = j.byId, w.unparsed = j.unparsed, w.loaded = j.loaded,
         w.soft = j.soft, w.todo = j.todo,
         NEW s, s = j.cur,
         QuietInv(j) =>
            /\ \A t : InBatch(j.pend, t) => InBatch(w.pend, t)
            /\ \A t : InBatch(j.pendFp, t) => InBatch(w.pendFp, t)
            /\ Fresh(w) /\ DealtWith(w, s)
  PROVE  MInv'
  <1>1. /\ j \in Job /\ JobOK(j) /\ BehindInv(j) /\ (quiet[r] => QuietInv(j))
        /\ s \in Session /\ j.byId[s] # None
    BY ThisJobOK, ThisJobMirrors DEF JobOK, Job
  <1>2. BehindInv(w)
    BY <1>1 DEF BehindInv
  <1>3. ASSUME QuietInv(j) PROVE QuietInv(w)
    <2>1. CatalogSoFar(w)
      BY <1>3, SameCatalog DEF QuietInv
    <2>2. \A t \in Session \ {s} : Pending(j, t) => Pending(w, t)
      BY DEF Pending
    <2>3. Settling(w)
      BY <1>1, <1>3, <2>2, OneDealtWith DEF QuietInv, Looping
    <2> QED
      BY <1>3, <2>1, <2>3 DEF QuietInv
  <1> QED
    BY <1>1, <1>2, <1>3, ProceedMirrors

LEMMA HashMirrors ==
  ASSUME OneAtATime, NoSharedPath, TypeInv, IInv, MInv, NEW r \in Refresher, Hash(r),
         UNCHANGED filesVars, UNCHANGED quiet
  PROVE  MInv'
  <1>1. PICK j : j = job[r]
    OBVIOUS
  <1>2. /\ j \in Job /\ JobOK(j) /\ BehindInv(j) /\ (quiet[r] => QuietInv(j))
        /\ j.pc = "hash" /\ JobInv(j)
    BY <1>1, ThisJobOK, ThisJobMirrors DEF Hash, IInv
  <1>3. PICK p : p = j.byId[j.cur]
    OBVIOUS
  <1>4. PICK s \in Session : s = j.cur /\ p = j.byId[s] /\ p # None /\ p \in Path
    BY <1>2, <1>3 DEF JobOK, Job
  <1>5. CASE ReadFails(r)
    BY <1>1, <1>2, <1>5, ReadFailsMirrors
  <1>6. PICK row : row = sess[s]
    OBVIOUS
  <1>7. ASSUME Exists(p), SameBytes(j, Bytes(p))
        PROVE  /\ row # NoRow /\ row.path = p /\ row.hash = Bytes(p) /\ row \in Row
               /\ docs[s] = Bytes(p) /\ j.loaded[s] = row
    <2>1. j.loaded[s] = row
      BY <1>2, <1>4, <1>6 DEF JobInv, ReadingInv, Undecided
    <2>2. row # NoRow /\ row.path = p /\ row.hash = Bytes(p)
      BY <1>3, <1>4, <1>7, <2>1 DEF SameBytes
    <2> QED
      BY <1>1, <1>4, <1>6, <1>7, <2>1, <2>2, SameContent
  <1>8. ASSUME Exists(p), SameBytes(j, Bytes(p)), Matches(j, j.cur, j.stat),
               Proceed(r, Settled(j, "next"))
        PROVE  MInv'
    <2>1. PICK w : w = Settled(j, "next")
      OBVIOUS
    <2>2. /\ w.pc = "next" /\ w.unparsed = j.unparsed /\ w.loaded = j.loaded
          /\ w.byId = j.byId /\ w.pend = j.pend /\ w.pendFp = j.pendFp
          /\ w.soft = j.soft /\ w.todo = j.todo
      BY <1>2, <2>1 DEF Job, Settled
    <2>3. ASSUME QuietInv(j) PROVE Fresh(w) /\ DealtWith(w, s)
      <3>1. j.stat = Fingerprint(p)
        BY <1>2, <1>3, <2>3 DEF QuietInv, Fresh
      <3>2. row.size = Fingerprint(p).size /\ row.mtime = Fingerprint(p).mtime
        BY <1>4, <1>7, <1>8, <3>1 DEF Matches
      <3>3. MirrorsFile(p, s)
        BY <1>6, <1>7, <1>8, <3>2, RowIs DEF MirrorsFile
      <3>4. Fresh(w)
        BY <2>2, <2>3, SameBatchesFresh DEF QuietInv
      <3> QED
        BY <1>4, <2>2, <3>3, <3>4 DEF DealtWith
    <2> QED
      BY <1>1, <1>2, <1>4, <1>8, <2>1, <2>2, <2>3, CurrentDealtWith DEF Proceed
  <1>9. ASSUME Exists(p), SameBytes(j, Bytes(p)),
               NEW e, e = [id |-> j.cur, row |-> RowOf(p, Bytes(p), j.stat)],
               Proceed(r, [Settled(j, AfterAppend(j.pendFp, "flushFp")) EXCEPT
                             !.pendFp = Append(@, e)])
        PROVE  MInv'
    <2>1. PICK b : b = Append(j.pendFp, e)
      OBVIOUS
    <2>2. PICK pc \in {"next", "flushFp"} : pc = AfterAppend(j.pendFp, "flushFp")
      BY DEF AfterAppend
    <2>3. PICK w : w = [Settled(j, pc) EXCEPT !.pendFp = b]
      OBVIOUS
    <2>4. /\ w.pc = pc /\ w.unparsed = j.unparsed /\ w.loaded = j.loaded
          /\ w.byId = j.byId /\ w.pend = j.pend /\ w.pendFp = b
          /\ w.soft = j.soft /\ w.todo = j.todo
      BY <1>2, <2>3 DEF Job, Settled
    <2>5. Become(r, w) /\ UNCHANGED storeVars
      <3>1. [Settled(j, pc) EXCEPT !.pendFp = Append(@, e)] = w
        BY <1>2, <2>1, <2>3 DEF Job, Settled
      <3> QED
        BY <1>9, <2>2, <3>1 DEF Proceed
    <2>6. e \in RowEntry /\ e.id = s
      <3>1. RowOf(p, Bytes(p), j.stat) \in Row
        BY <1>2, <1>4, <1>9, RowOfType, BytesType DEF JobOK, Job
      <3> QED
        BY <1>4, <1>9, <3>1 DEF RowEntry
    <2>7. /\ InBatch(b, s) /\ \A t : InBatch(j.pendFp, t) => InBatch(b, t)
          /\ \A k \in DOMAIN b : b[k] = e \/ (k \in DOMAIN j.pendFp /\ b[k] = j.pendFp[k])
      BY <1>2, <2>1, <2>6, InBatchAppend, AppendCases DEF Job
    <2>8. ASSUME QuietInv(j) PROVE Fresh(w)
      <3>1. j.stat = Fingerprint(p) /\ Fresh(j)
        BY <1>2, <1>3, <2>8 DEF QuietInv, Fresh
      <3>2. j.byId[e.id] = p /\ e.row = RowFor(p) /\ docs[e.id] = Bytes(p)
        BY <1>4, <1>7, <1>9, <2>6, <3>1 DEF RowFor
      <3> QED
        BY <1>4, <2>4, <2>7, <3>1, <3>2 DEF Fresh
    <2> QED
      BY <1>1, <1>2, <1>4, <2>4, <2>5, <2>7, <2>8, CurrentDealtWith DEF DealtWith
  <1>10. ASSUME Exists(p), Proceed(r, [j EXCEPT !.pc = "decode", !.hash = Bytes(p)])
         PROVE  MInv'
    <2>1. PICK h : h = Bytes(p)
      OBVIOUS
    <2>2. PICK w : w = [j EXCEPT !.pc = "decode", !.hash = h]
      OBVIOUS
    <2>3. /\ w.pc = "decode" /\ w.unparsed = j.unparsed /\ w.loaded = j.loaded
          /\ w.byId = j.byId /\ w.pend = j.pend /\ w.pendFp = j.pendFp /\ w.hash = h
          /\ w.soft = j.soft /\ w.todo = j.todo /\ w.cur = j.cur /\ w.stat = j.stat
      BY <1>2, <2>2 DEF Job
    <2>4. BehindInv(w)
      BY <1>2, <2>3 DEF BehindInv
    <2>5. ASSUME QuietInv(j) PROVE QuietInv(w)
      <3>1. CatalogSoFar(w)
        BY <1>2, <2>3, <2>5, SameCatalog DEF QuietInv
      <3>2. Fresh(w)
        BY <1>2, <1>3, <2>1, <2>3, <2>5 DEF QuietInv, Fresh
      <3>3. Settling(w)
        BY <1>2, <2>3, <2>5 DEF QuietInv, Settling, Looping, Pending, DealtWith, Missing
      <3> QED
        BY <2>3, <3>1, <3>2, <3>3 DEF QuietInv
    <2> QED
      BY <1>2, <1>10, <2>1, <2>2, <2>4, <2>5, ProceedMirrors DEF Proceed
  <1> QED
    BY <1>1, <1>3, <1>5, <1>8, <1>9, <1>10 DEF Hash

LEMMA DecodeMirrors ==
  ASSUME OneAtATime, TypeInv, IInv, MInv, NEW r \in Refresher, Decode(r),
         UNCHANGED filesVars, UNCHANGED quiet
  PROVE  MInv'
  <1>1. PICK j : j = job[r]
    OBVIOUS
  <1>2. /\ j \in Job /\ JobOK(j) /\ BehindInv(j) /\ (quiet[r] => QuietInv(j))
        /\ j.pc = "decode"
    BY <1>1, ThisJobOK, ThisJobMirrors DEF Decode
  <1>3. PICK p : p = j.byId[j.cur]
    OBVIOUS
  <1>4. PICK s \in Session : s = j.cur /\ p = j.byId[s] /\ p # None /\ p \in Path
    BY <1>2, <1>3 DEF JobOK, Job
  <1>5. CASE ReadFails(r)
    BY <1>1, <1>2, <1>5, ReadFailsMirrors
  <1>6. ASSUME Exists(p),
               NEW e, e = [id |-> j.cur, row |-> RowOf(p, j.hash, j.stat), doc |-> Bytes(p)],
               Proceed(r, [Settled(j, AfterAppend(j.pend, "flush")) EXCEPT
                             !.pend = Append(@, e)])
        PROVE  MInv'
    <2>1. PICK b : b = Append(j.pend, e)
      OBVIOUS
    <2>2. PICK pc \in {"next", "flush"} : pc = AfterAppend(j.pend, "flush")
      BY DEF AfterAppend
    <2>3. PICK w : w = [Settled(j, pc) EXCEPT !.pend = b]
      OBVIOUS
    <2>4. /\ w.pc = pc /\ w.unparsed = j.unparsed /\ w.loaded = j.loaded
          /\ w.byId = j.byId /\ w.pend = b /\ w.pendFp = j.pendFp
          /\ w.soft = j.soft /\ w.todo = j.todo
      BY <1>2, <2>3 DEF Job, Settled
    <2>5. Become(r, w) /\ UNCHANGED storeVars
      <3>1. [Settled(j, pc) EXCEPT !.pend = Append(@, e)] = w
        BY <1>2, <2>1, <2>3 DEF Job, Settled
      <3> QED
        BY <1>6, <2>2, <3>1 DEF Proceed
    <2>6. e \in Entry /\ e.id = s
      <3>1. RowOf(p, j.hash, j.stat) \in Row /\ Bytes(p) \in Content
        BY <1>2, <1>4, <1>6, RowOfType, BytesType DEF JobOK, Job
      <3> QED
        BY <1>4, <1>6, <3>1 DEF Entry
    <2>7. /\ InBatch(b, s) /\ \A t : InBatch(j.pend, t) => InBatch(b, t)
          /\ \A k \in DOMAIN b : b[k] = e \/ (k \in DOMAIN j.pend /\ b[k] = j.pend[k])
      BY <1>2, <2>1, <2>6, InBatchAppend, AppendCases DEF Job
    <2>8. ASSUME QuietInv(j) PROVE Fresh(w)
      <3>1. j.stat = Fingerprint(p) /\ j.hash = Bytes(p) /\ Fresh(j)
        BY <1>2, <1>3, <2>8 DEF QuietInv, Fresh
      <3>2. j.byId[e.id] = p /\ e.row = RowFor(p) /\ e.doc = Bytes(p)
        BY <1>4, <1>6, <2>6, <3>1 DEF RowFor
      <3> QED
        BY <1>4, <2>4, <2>7, <3>1, <3>2 DEF Fresh
    <2> QED
      BY <1>1, <1>2, <1>4, <2>4, <2>5, <2>7, <2>8, CurrentDealtWith DEF DealtWith
  <1> QED
    BY <1>1, <1>3, <1>5, <1>6 DEF Decode

-----------------------------------------------------------------------------
(* The transactions. *)

LEMMA FlushMirrors ==
  ASSUME OneAtATime, TypeInv, IInv, MInv, NEW r \in Refresher, Flush(r),
         UNCHANGED filesVars, UNCHANGED quiet
  PROVE  MInv'
  <1>1. PICK j : j = job[r]
    OBVIOUS
  <1>2. /\ j \in Job /\ BehindInv(j) /\ (quiet[r] => QuietInv(j))
        /\ j.pc \in {"flush", "flushLast"} /\ JobInv(j)
    BY <1>1, ThisJobOK, ThisJobMirrors DEF Flush, IInv
  <1>3. PICK after \in {"next", "flushFpLast"} :
          after = IF j.pc = "flush" THEN "next" ELSE "flushFpLast"
    OBVIOUS
  <1>4. CASE Return(r, "error")
    BY <1>4, ErrorMirrors
  <1>5. CASE j.pend = <<>> /\ Proceed(r, [j EXCEPT !.pc = after])
    <2>1. PICK w : w = [j EXCEPT !.pc = after]
      OBVIOUS
    <2>2. /\ w.pc = after /\ w.unparsed = j.unparsed /\ w.loaded = j.loaded
          /\ w.byId = j.byId /\ w.pend = j.pend /\ w.pendFp = j.pendFp
          /\ w.soft = j.soft /\ w.todo = j.todo
      BY <1>2, <2>1 DEF Job
    <2>3. BehindInv(w)
      BY <1>2, <1>5, <2>2 DEF BehindInv
    <2>4. ASSUME QuietInv(j) PROVE QuietInv(w)
      <3>1. CatalogSoFar(w) /\ Fresh(w)
        BY <1>2, <1>3, <2>2, <2>4, SameCatalog, SameBatchesFresh DEF QuietInv
      <3>2. Settling(w)
        BY <1>2, <1>3, <2>2, <2>4
        DEF QuietInv, Settling, Looping, Pending, DealtWith, Missing
      <3> QED
        BY <2>2, <3>1, <3>2 DEF QuietInv
    <2> QED
      BY <1>2, <1>5, <2>1, <2>3, <2>4, ProceedMirrors DEF Proceed
  <1>6. CASE /\ ReplaceSessions(j.pend)
             /\ Become(r, [j EXCEPT !.pc = after, !.pend = <<>>])
    <2>1. PICK w : w = [j EXCEPT !.pc = after, !.pend = <<>>]
      OBVIOUS
    <2>2. /\ w.pc = after /\ w.unparsed = j.unparsed /\ w.loaded = j.loaded
          /\ w.byId = j.byId /\ w.pend = <<>> /\ w.pendFp = j.pendFp
          /\ w.soft = j.soft /\ w.todo = j.todo
      BY <1>2, <2>1 DEF Job
    <2>3. ASSUME NEW s \in Session, ~InBatch(j.pend, s)
          PROVE  sess'[s] = sess[s] /\ docs'[s] = docs[s]
      BY <1>6, <2>3 DEF ReplaceSessions, RowsAfter
    <2>4. ASSUME NEW s \in Session, InBatch(j.pend, s)
          PROVE  \E k \in DOMAIN j.pend :
                   /\ j.pend[k].id = s /\ j.pend[k] \in Entry
                   /\ sess'[s] = j.pend[k].row /\ docs'[s] = j.pend[k].doc
      <3>1. PICK k \in DOMAIN j.pend :
              /\ EntryFor(j.pend, s) = j.pend[k] /\ j.pend[k] \in Entry
              /\ j.pend[k].id = s
        BY <1>2, <2>4, EntryForInBatch DEF Job
      <3>2. sess'[s] = j.pend[k].row /\ docs'[s] = j.pend[k].doc
        BY <1>6, <2>4, <3>1 DEF ReplaceSessions, RowsAfter
      <3> QED
        BY <3>1, <3>2
    <2>5. NoOrphans'
      BY <2>3, <2>4, AbsentAssumption DEF MInv, NoOrphans, Entry, Row
    <2>6. BehindInv(w)
      BY <1>2, <2>2 DEF BehindInv
    <2>7. ASSUME QuietInv(j) PROVE QuietInv(w)'
      <3>1. fs' = fs
        BY DEF filesVars
      <3>2. \A p : /\ Parses(p)' = Parses(p) /\ ParsedID(p)' = ParsedID(p)
                   /\ Bytes(p)' = Bytes(p) /\ RowFor(p)' = RowFor(p)
        BY <3>1 DEF Parses, Exists, ParsedID, Bytes, Fingerprint, RowFor, RowOf
      <3>3. CatalogSoFar(w)
        BY <1>2, <1>3, <2>2, <2>7, SameCatalog DEF QuietInv
      <3>4. CatalogSoFar(w)'
        BY <3>2, <3>3 DEF CatalogSoFar, Ahead, Unwalked, Precedes
      <3>5. Fresh(w)'
        <4>1. ASSUME NEW k \in DOMAIN j.pendFp
              PROVE  docs'[j.pendFp[k].id] = docs[j.pendFp[k].id]
          <5>1. j.pendFp[k] \in RowEntry
            BY <1>2 DEF Job
          <5> QED
            BY <1>2, <2>3, <5>1 DEF RowEntry, JobInv, PendingInv
        <4> QED
          BY <1>3, <2>2, <2>7, <3>2, <4>1 DEF QuietInv, Fresh
      <3>6. ASSUME NEW s \in Session
            PROVE  (IF w.byId[s] = None THEN Missing(w, s)
                    ELSE w.soft \/ Pending(w, s) \/ DealtWith(w, s))'
        <4>1. IF j.byId[s] = None THEN Missing(j, s)
              ELSE j.soft \/ Pending(j, s) \/ DealtWith(j, s)
          BY <1>2, <2>7 DEF QuietInv, Settling, Looping
        <4>2. ~Pending(j, s) \/ Pending(w, s)'
          BY <1>2, <2>2 DEF Pending
        <4>3. CASE ~InBatch(j.pend, s)
          BY <1>2, <1>3, <2>2, <2>3, <3>2, <4>1, <4>2, <4>3
          DEF Missing, DealtWith, MirrorsFile
        <4>4. CASE InBatch(j.pend, s)
          <5>1. PICK k \in DOMAIN j.pend :
                  j.pend[k].id = s /\ sess'[s] = j.pend[k].row /\ docs'[s] = j.pend[k].doc
            BY <2>4, <4>4
          <5>2. PICK p : p = j.byId[s]
            OBVIOUS
          <5>3. p # None /\ sess'[s] = RowFor(p) /\ docs'[s] = Bytes(p)
            BY <2>7, <5>1, <5>2 DEF QuietInv, Fresh
          <5> QED
            BY <2>2, <3>2, <5>2, <5>3 DEF DealtWith, MirrorsFile
        <4> QED
          BY <4>3, <4>4
      <3>7. Settling(w)'
        BY <3>6 DEF Settling
      <3> QED
        BY <1>3, <2>2, <3>4, <3>5, <3>7 DEF QuietInv
    <2> QED
      BY <1>2, <1>6, <2>1, <2>5, <2>6, <2>7, BecomeMirrors
  <1> QED
    BY <1>1, <1>3, <1>4, <1>5, <1>6 DEF Flush

LEMMA FlushFpMirrors ==
  ASSUME OneAtATime, TypeInv, IInv, MInv, NEW r \in Refresher, FlushFp(r),
         UNCHANGED filesVars, UNCHANGED quiet
  PROVE  MInv'
  <1>1. PICK j : j = job[r]
    OBVIOUS
  <1>2. /\ j \in Job /\ BehindInv(j) /\ (quiet[r] => QuietInv(j))
        /\ j.pc \in {"flushFp", "flushFpLast"} /\ JobInv(j)
    BY <1>1, ThisJobOK, ThisJobMirrors DEF FlushFp, IInv
  <1>3. PICK gone : gone = {s \in Session : j.loaded[s] # NoRow}
    OBVIOUS
  <1>4. PICK after :
          after = IF j.pc = "flushFp" THEN [j EXCEPT !.pc = "next"]
                  ELSE [j EXCEPT !.pc = "stale", !.gone = gone]
    OBVIOUS
  <1>5. /\ after.pc = IF j.pc = "flushFp" THEN "next" ELSE "stale"
        /\ j.pc = "flushFpLast" => after.gone = gone
        /\ after.byId = j.byId /\ after.todo = j.todo /\ after.loaded = j.loaded
        /\ after.unparsed = j.unparsed /\ after.soft = j.soft
        /\ after.pend = j.pend /\ after.pendFp = j.pendFp /\ after \in Job
    BY <1>2, <1>3, <1>4, ZenonT(30) DEF Job, Stage
  <1>6. CASE Return(r, "error")
    BY <1>6, ErrorMirrors
  <1>7. ASSUME NEW w, w.pc = after.pc, w.gone = after.gone, w.byId = j.byId, w.todo = j.todo,
               w.loaded = j.loaded, w.unparsed = j.unparsed, w.soft = j.soft,
               w.pend = j.pend, w.pendFp = <<>>, Become(r, w), docs' = docs,
               \A s \in Session : ~InBatch(j.pendFp, s) => sess'[s] = sess[s],
               \A s \in Session : InBatch(j.pendFp, s) =>
                 \E k \in DOMAIN j.pendFp :
                    j.pendFp[k].id = s /\ j.pendFp[k] \in RowEntry /\ sess'[s] = j.pendFp[k].row
        PROVE  MInv'
    <2>1. NoOrphans'
      BY <1>7, AbsentAssumption DEF MInv, NoOrphans, RowEntry, Row
    <2>2. BehindInv(w)
      BY <1>2, <1>5, <1>7 DEF BehindInv
    <2>3. ASSUME QuietInv(j) PROVE QuietInv(w)'
      <3>1. fs' = fs /\ w.pc \in {"next", "stale"}
        BY <1>5, <1>7 DEF filesVars
      <3>2. \A p : /\ Parses(p)' = Parses(p) /\ ParsedID(p)' = ParsedID(p)
                   /\ Bytes(p)' = Bytes(p) /\ RowFor(p)' = RowFor(p)
        BY <3>1 DEF Parses, Exists, ParsedID, Bytes, Fingerprint, RowFor, RowOf
      <3>3. CatalogSoFar(w)
        BY <1>2, <1>7, <2>3, <3>1, SameCatalog DEF QuietInv
      <3>4. CatalogSoFar(w)'
        BY <3>2, <3>3 DEF CatalogSoFar, Ahead, Unwalked, Precedes
      <3>5. Fresh(w)'
        BY <1>7, <2>3, <3>1, <3>2 DEF QuietInv, Fresh
      <3>6. ASSUME NEW s \in Session
            PROVE  (IF w.byId[s] = None THEN Missing(w, s)
                    ELSE w.soft \/ Pending(w, s) \/ DealtWith(w, s))'
        <4>1. IF j.byId[s] = None THEN sess[s] \in {NoRow, j.loaded[s]}
              ELSE j.soft \/ Pending(j, s) \/ DealtWith(j, s)
          BY <1>2, <2>3 DEF QuietInv, Settling, Looping, Missing
        <4>2. ~Pending(j, s) \/ Pending(w, s)'
          BY <1>2, <1>7 DEF Pending
        <4>3. w.pc = "stale" => s \in w.gone \/ w.loaded[s] = NoRow
          BY <1>2, <1>3, <1>5, <1>7
        <4>4. CASE ~InBatch(j.pendFp, s)
          BY <1>7, <3>2, <4>1, <4>2, <4>3, <4>4 DEF Missing, DealtWith, MirrorsFile
        <4>5. CASE InBatch(j.pendFp, s)
          <5>1. PICK k \in DOMAIN j.pendFp : j.pendFp[k].id = s /\ sess'[s] = j.pendFp[k].row
            BY <1>7, <4>5
          <5>2. PICK p : p = j.byId[s]
            OBVIOUS
          <5>3. p # None /\ sess'[s] = RowFor(p) /\ docs'[s] = Bytes(p)
            BY <1>7, <2>3, <5>1, <5>2 DEF QuietInv, Fresh
          <5> QED
            BY <1>7, <3>2, <5>2, <5>3 DEF DealtWith, MirrorsFile
        <4> QED
          BY <4>4, <4>5
      <3>7. Settling(w)'
        BY <3>6 DEF Settling
      <3> QED
        BY <3>1, <3>4, <3>5, <3>7 DEF QuietInv
    <2> QED
      BY <1>2, <1>7, <2>1, <2>2, <2>3, BecomeMirrors
  <1>8. CASE j.pendFp = <<>> /\ Proceed(r, after)
    <2>1. Become(r, after) /\ sess' = sess /\ docs' = docs
      BY <1>8 DEF Proceed, storeVars
    <2>2. \A s : ~InBatch(j.pendFp, s)
      BY <1>8 DEF InBatch
    <2> QED
      BY <1>5, <1>7, <1>8, <2>1, <2>2
  <1>9. CASE /\ UpsertSessions(j.pendFp)
             /\ Become(r, [after EXCEPT !.pendFp = <<>>])
    <2>1. PICK w : w = [after EXCEPT !.pendFp = <<>>]
      OBVIOUS
    <2>2. /\ w.pc = after.pc /\ w.gone = after.gone /\ w.byId = j.byId /\ w.todo = j.todo
          /\ w.loaded = j.loaded /\ w.unparsed = j.unparsed /\ w.soft = j.soft
          /\ w.pend = j.pend /\ w.pendFp = <<>>
      BY <1>5, <2>1 DEF Job
    <2>3. ASSUME NEW s \in Session, ~InBatch(j.pendFp, s)
          PROVE  sess'[s] = sess[s]
      BY <1>9, <2>3 DEF UpsertSessions, RowsAfter
    <2>4. ASSUME NEW s \in Session, InBatch(j.pendFp, s)
          PROVE  \E k \in DOMAIN j.pendFp :
                   j.pendFp[k].id = s /\ j.pendFp[k] \in RowEntry /\ sess'[s] = j.pendFp[k].row
      <3>1. PICK k \in DOMAIN j.pendFp :
              /\ EntryFor(j.pendFp, s) = j.pendFp[k] /\ j.pendFp[k] \in RowEntry
              /\ j.pendFp[k].id = s
        BY <1>2, <2>4, EntryForInBatch DEF Job
      <3>2. sess'[s] = j.pendFp[k].row
        BY <1>9, <2>4, <3>1 DEF UpsertSessions, RowsAfter
      <3> QED
        BY <3>1, <3>2
    <2>5. docs' = docs /\ Become(r, w)
      BY <1>9, <2>1 DEF UpsertSessions
    <2> QED
      BY <1>7, <2>2, <2>3, <2>4, <2>5
  <1> QED
    BY <1>1, <1>3, <1>4, <1>6, <1>8, <1>9 DEF FlushFp

\* With nothing left to do and no warning, the index is the catalog.
LEMMA DoneIsExact ==
  ASSUME NoOrphans, NEW j \in Job, QuietInv(j), BehindInv(j),
         j.pc = "stale", j.todo = {}, j.gone = {}, j.pendFp = <<>>, ~j.soft
  PROVE  Exact
  <1> SUFFICES ASSUME NEW s \in Session
               PROVE  Mirrored(s) /\ (Newest(Path, s) = {} => Absent(s))
    BY DEF Exact
  <1>1. j.unparsed = {} /\ j.pend = <<>>
    BY DEF BehindInv
  <1>2. PICK b : b = j.byId[s]
    OBVIOUS
  <1>3. /\ b # None => Parses(b) /\ ParsedID(b) = s
        /\ \A p \in Path : Parses(p) /\ ParsedID(p) = s => b # None /\ Precedes(b, p)
    BY <1>1, <1>2 DEF QuietInv, CatalogSoFar, Ahead, Unwalked
  <1>4. IF b = None THEN sess[s] = NoRow ELSE MirrorsFile(b, s)
    BY <1>1, <1>2 DEF QuietInv, Settling, Looping, Missing, Pending, DealtWith, InBatch
  <1>5. CASE b = None
    BY <1>3, <1>4, <1>5 DEF NoOrphans, Mirrored, Newest, Absent
  <1>6. CASE b # None
    <2>1. b \in Path
      BY <1>2, <1>6 DEF Job
    <2>2. b \in Newest(Path, s)
      BY <1>3, <1>6, <2>1 DEF Newest, Precedes
    <2>3. ASSUME NEW p \in Newest(Path, s) PROVE p = b
      <3>1. /\ p \in Path /\ Parses(p) /\ ParsedID(p) = s
            /\ TimeOf[b] < TimeOf[p] \/ (TimeOf[b] = TimeOf[p] /\ p <= b)
        BY <1>3, <1>6, <2>1 DEF Newest
      <3>2. Precedes(b, p)
        BY <1>3, <3>1
      <3>3. p \in Nat /\ b \in Nat /\ TimeOf[p] \in Nat /\ TimeOf[b] \in Nat
        BY <2>1, <3>1, PathAssumption, FileAssumption
      <3> QED
        BY <3>1, <3>2, <3>3 DEF Precedes
    <2>4. sess[s] = RowOf(b, Bytes(b), Fingerprint(b)) /\ docs[s] = Bytes(b)
      BY <1>4, <1>6 DEF MirrorsFile, RowFor
    <2> QED
      BY <2>2, <2>3, <2>4 DEF Mirrored
  <1> QED
    BY <1>5, <1>6

LEMMA StaleMirrors ==
  ASSUME OneAtATime, TypeInv, IInv, MInv, NEW r \in Refresher, Stale(r),
         UNCHANGED filesVars, UNCHANGED quiet
  PROVE  MInv'
  <1>1. PICK j : j = job[r]
    OBVIOUS
  <1>2. /\ j \in Job /\ BehindInv(j) /\ (quiet[r] => QuietInv(j))
        /\ j.pc = "stale" /\ j.todo = {} /\ j.pendFp = <<>>
    BY <1>1, ThisJobOK, ThisJobMirrors DEF Stale, IInv, JobInv, StageInv
  <1>3. CASE Return(r, "error")
    BY <1>3, ErrorMirrors
  <1>4. CASE /\ j.warned \/ j.gone = {}
             /\ Return(r, IF j.warned \/ j.soft THEN "warned" ELSE "clean")
    <2>1. PICK outcome : outcome = IF j.warned \/ j.soft THEN "warned" ELSE "clean"
      OBVIOUS
    <2>2. quiet'[r] /\ outcome = "clean" => Exact
      <3> SUFFICES ASSUME quiet[r], outcome = "clean" PROVE Exact
        OBVIOUS
      <3>1. ~j.soft /\ j.gone = {}
        BY <1>4, <2>1
      <3> QED
        BY <1>2, <3>1, DoneIsExact DEF MInv
    <2> QED
      BY <1>4, <2>1, <2>2, ReturnMirrors
  <1>5. ASSUME NEW s \in j.gone, Become(r, [j EXCEPT !.gone = @ \ {s}]),
               IF j.byId[s] = None THEN DeleteSession(s) ELSE UNCHANGED storeVars
        PROVE  MInv'
    <2>1. PICK w : w = [j EXCEPT !.gone = @ \ {s}]
      OBVIOUS
    <2>2. /\ w.pc = "stale" /\ w.unparsed = j.unparsed /\ w.loaded = j.loaded
          /\ w.byId = j.byId /\ w.pend = j.pend /\ w.pendFp = j.pendFp
          /\ w.soft = j.soft /\ w.todo = j.todo /\ w.gone = j.gone \ {s}
          /\ s \in Session
      BY <1>2, <2>1 DEF Job
    <2>3. /\ j.byId[s] = None => sess'[s] = NoRow /\ docs'[s] = NoDoc
          /\ \A t \in Session : t # s \/ j.byId[s] # None =>
               sess'[t] = sess[t] /\ docs'[t] = docs[t]
      BY <1>5, <2>2 DEF DeleteSession, storeVars, TypeInv, StoreOK
    <2>4. NoOrphans'
      BY <2>3 DEF MInv, NoOrphans
    <2>5. BehindInv(w)
      BY <1>2, <2>2 DEF BehindInv
    <2>6. ASSUME QuietInv(j) PROVE QuietInv(w)'
      <3>1. fs' = fs
        BY DEF filesVars
      <3>2. \A p : /\ Parses(p)' = Parses(p) /\ ParsedID(p)' = ParsedID(p)
                   /\ Bytes(p)' = Bytes(p) /\ RowFor(p)' = RowFor(p)
        BY <3>1 DEF Parses, Exists, ParsedID, Bytes, Fingerprint, RowFor, RowOf
      <3>3. CatalogSoFar(w)
        BY <1>2, <2>2, <2>6, SameCatalog DEF QuietInv
      <3>4. CatalogSoFar(w)'
        BY <3>2, <3>3 DEF CatalogSoFar, Ahead, Unwalked, Precedes
      <3>5. Fresh(w)'
        BY <1>2, <2>2, <2>6, <3>2 DEF QuietInv, Fresh, BehindInv
      <3>6. ASSUME NEW t \in Session
            PROVE  (IF w.byId[t] = None THEN Missing(w, t)
                    ELSE w.soft \/ Pending(w, t) \/ DealtWith(w, t))'
        <4>1. IF j.byId[t] = None THEN Missing(j, t)
              ELSE j.soft \/ Pending(j, t) \/ DealtWith(j, t)
          BY <1>2, <2>6 DEF QuietInv, Settling, Looping
        <4>2. Pending(j, t) => Pending(w, t)'
          BY <1>2, <2>2 DEF Pending
        <4> QED
          BY <1>2, <2>2, <2>3, <3>2, <4>1, <4>2 DEF Missing, DealtWith, MirrorsFile
      <3>7. Settling(w)'
        BY <3>6 DEF Settling
      <3> QED
        BY <2>2, <3>4, <3>5, <3>7 DEF QuietInv
    <2> QED
      BY <1>2, <1>5, <2>1, <2>4, <2>5, <2>6, BecomeMirrors
  <1> QED
    BY <1>1, <1>3, <1>4, <1>5 DEF Stale

-----------------------------------------------------------------------------
(* The beginning of a run, and what happens to one. *)

LEMMA StartMirrors ==
  ASSUME OneAtATime, TypeInv, MInv, NEW r \in Refresher, Start(r)
  PROVE  MInv'
  <1>1. PICK full \in BOOLEAN :
          Become(r, [IdleJob("none") EXCEPT !.pc = "walkActive", !.full = full])
    BY DEF Start
  <1>2. PICK w : w = [IdleJob("none") EXCEPT !.pc = "walkActive", !.full = full]
    OBVIOUS
  <1>3. /\ w.byId = [s \in Session |-> None] /\ w.pend = <<>> /\ w.pendFp = <<>>
        /\ w.pc = "walkActive" /\ w.unparsed = {}
    BY <1>2 DEF IdleJob
  <1>4. BehindInv(w) /\ QuietInv(w)
    BY <1>3, NewJobMirrors
  <1> QED
    BY <1>1, <1>2, <1>4, ProceedMirrors DEF Start

LEMMA CutWalkMirrors ==
  ASSUME OneAtATime, TypeInv, MInv, NEW r \in Refresher,
         NEW here \in {"walkActive", "walkArchived"}, NEW root,
         NEW after \in {"walkArchived", "parse"}, CutWalk(r, here, root, after),
         UNCHANGED filesVars, ~quiet'[r]
  PROVE  MInv'
  <1>1. PICK j : j = job[r]
    OBVIOUS
  <1>2. j \in Job
    BY <1>1, ThisJobOK
  <1>3. PICK d : Proceed(r, [j EXCEPT !.pc = after, !.unparsed = @ \cup UpTo(root, d)])
    BY <1>1 DEF CutWalk
  <1>4. PICK w : w = [j EXCEPT !.pc = after, !.unparsed = @ \cup UpTo(root, d)]
    OBVIOUS
  <1>5. w.pc = after
    BY <1>2, <1>4 DEF Job
  <1>6. BehindInv(w)
    BY <1>5 DEF BehindInv
  <1> QED
    BY <1>3, <1>4, <1>6, ProceedMirrors DEF Proceed

LEMMA FaultMirrors ==
  ASSUME OneAtATime, TypeInv, MInv, NEW r \in Refresher, Fault(r)
  PROVE  MInv'
  <1>1. UNCHANGED filesVars
    BY DEF Fault
  <1>2. CASE Cancel(r) /\ UNCHANGED quiet
    <2>1. PICK j : j = job[r]
      OBVIOUS
    <2>2. j \in Job /\ BehindInv(j) /\ (quiet[r] => QuietInv(j)) /\ j.pc # "idle"
      BY <1>2, <2>1, ThisJobOK, ThisJobMirrors DEF Cancel
    <2>3. PICK w : w = [j EXCEPT !.cancelled = TRUE]
      OBVIOUS
    <2>4. /\ w.pc = j.pc /\ w.unparsed = j.unparsed /\ w.loaded = j.loaded
          /\ w.byId = j.byId /\ w.pend = j.pend /\ w.pendFp = j.pendFp
          /\ w.soft = j.soft /\ w.todo = j.todo /\ w.gone = j.gone
          /\ w.cur = j.cur /\ w.stat = j.stat /\ w.hash = j.hash
      BY <2>2, <2>3 DEF Job
    <2>5. BehindInv(w)
      BY <2>2, <2>4 DEF BehindInv
    <2>6. ASSUME QuietInv(j) PROVE QuietInv(w)
      <3>1. CatalogSoFar(w) /\ Fresh(w)
        BY <2>4, <2>6 DEF QuietInv, CatalogSoFar, Ahead, Unwalked, Fresh
      <3>2. Settling(w)
        BY <2>4, <2>6 DEF QuietInv, Settling, Pending, DealtWith, Missing
      <3> QED
        BY <2>2, <2>4, <3>1, <3>2 DEF QuietInv
    <2> QED
      BY <1>1, <1>2, <2>1, <2>2, <2>3, <2>5, <2>6, ProceedMirrors DEF Cancel
  <1>3. CASE IoError(r) \/ Crash(r)
    BY <1>1, <1>3, ErrorMirrors DEF IoError, Crash
  <1>4. CASE DirectoryVanishes(r)
    <2>1. ~quiet'[r]
      BY <1>4 DEF DirectoryVanishes, TypeInv, HistoryOK
    <2> QED
      BY <1>1, <1>4, <2>1, CutWalkMirrors DEF DirectoryVanishes
  <1> QED
    BY <1>2, <1>3, <1>4 DEF Fault

LEMMA CodexMirrors ==
  ASSUME MInv, Codex
  PROVE  MInv'
  BY DEF Codex, MInv, NoOrphans, BehindInv, storeVars

LEMMA WorkMirrors ==
  ASSUME OneAtATime, NoSharedPath, TypeInv, IInv, MInv, NEW r \in Refresher, Work(r)
  PROVE  MInv'
  <1>1. UNCHANGED filesVars /\ UNCHANGED quiet
    BY DEF Work
  <1> QED
    BY <1>1, WalkMirrors, ParseMirrors, LoadMirrors, VisitMirrors, HashMirrors,
       DecodeMirrors, FlushMirrors, FlushFpMirrors, StaleMirrors DEF Work

LEMMA InitMirrors == Init => MInv
  <1> SUFFICES ASSUME Init PROVE MInv
    OBVIOUS
  <1>1. NoOrphans
    BY DEF Init, NoOrphans
  <1>2. ASSUME NEW r \in Refresher PROVE BehindInv(job[r]) /\ ~quiet[r]
    BY DEF Init, IdleJob, BehindInv
  <1> QED
    BY <1>1, <1>2 DEF MInv

LEMMA StepMirrors ==
  ASSUME OneAtATime, NoSharedPath
  PROVE  TypeInv /\ IInv /\ MInv /\ [Next]_vars => MInv'
  <1> SUFFICES ASSUME TypeInv, IInv, MInv, [Next]_vars PROVE MInv'
    OBVIOUS
  <1>1. CASE UNCHANGED vars
    <2>1. UNCHANGED <<fs, sess, docs, job, quiet>>
      BY <1>1 DEF vars, filesVars, storeVars, historyVars
    <2>2. NoOrphans'
      BY <2>1 DEF MInv, NoOrphans
    <2>3. ASSUME NEW r \in Refresher
          PROVE  (BehindInv(job[r]) /\ (quiet[r] => QuietInv(job[r])))'
      <3>1. PICK j : j = job[r]
        OBVIOUS
      <3>2. BehindInv(j) /\ (quiet[r] => QuietInv(j)')
        BY <2>1, <3>1, QuietFrame DEF MInv
      <3>3. job'[r] = j
        BY <2>1, <3>1
      <3> QED
        BY <2>1, <3>2, <3>3 DEF BehindInv
    <2> QED
      BY <2>2, <2>3 DEF MInv
  <1> QED
    BY <1>1, StartMirrors, WorkMirrors, FaultMirrors, CodexMirrors DEF Next

(***************************************************************************)
(* With one refresh at a time and paths of their own, for any number of    *)
(* sessions and paths and any batch size: a refresh that returned without  *)
(* an error or a warning, and during and since which no rollout changed,   *)
(* has left the catalog in the index, each session with the row and the    *)
(* messages of its newest readable copy, and nothing for any other         *)
(* session ("Build incrementally refreshes a derived index from the        *)
(* logical Codex sessions", indexer.go:81).                                *)
(***************************************************************************)
THEOREM CleanRefreshesMirror ==
  ASSUME OneAtATime, NoSharedPath
  PROVE  Spec => []CleanRefreshMirrors
  <1>1. TypeInv /\ IInv /\ MInv /\ [Next]_vars => MInv'
    BY StepMirrors
  <1>2. Init => MInv
    BY InitMirrors
  <1>3. MInv => CleanRefreshMirrors
    BY DEF MInv, QuietInv, Exact, CleanRefreshMirrors
  <1> QED
    BY <1>1, <1>2, <1>3, InvariantHolds, PTL DEF Spec
=============================================================================
