---------------------------- MODULE RefreshProofs ---------------------------
(***************************************************************************)
(* Proofs about Refresh, for every set of sessions and paths and every     *)
(* bound.  First, types, for any number of refreshers.  Then, why a        *)
(* refresh never skips a session it should have read: a row's size is      *)
(* taken before its hash and its hash before its messages, so on an        *)
(* append-only file they can only grow in that order:                      *)
(*                                                                         *)
(*     size  <=  content hashed  <=  messages stored  <=  file             *)
(*                                                                         *)
(* When the size (or the hash) equals the file's, everything between them  *)
(* does.  The invariant carries this chain through the locals of the run,  *)
(* and with it that a pending fingerprint update still concerns the row it *)
(* was planned for.                                                        *)
(*                                                                         *)
(* The second part takes one refresher at a time (with two, the run        *)
(* "concurrent_lost" refutes it) and paths that are not taken over by      *)
(* other sessions.                                                         *)
(***************************************************************************)
EXTENDS Refresh, TLAPS

-----------------------------------------------------------------------------
(* Type correctness.  The batches need more than TypeOK says: outside the  *)
(* two stages in which a full batch is written there is room for an entry. *)

JobOK(j) ==
    /\ j \in Job
    /\ j.pc \in {"hash", "decode"} =>
         j.cur # None /\ j.stat # None /\ j.byId[j.cur] # None
    /\ j.pc = "decode" => j.hash # None
    /\ \A s \in j.todo : j.byId[s] # None
    /\ Len(j.pend) <= BatchSize /\ (j.pc # "flush" => Len(j.pend) < BatchSize)
    /\ Len(j.pendFp) <= BatchSize /\ (j.pc # "flushFp" => Len(j.pendFp) < BatchSize)

JobsOK ==
    /\ job \in [Refresher -> Job]
    /\ \A r \in Refresher : JobOK(job[r])

StoreOK ==
    /\ sess \in [Session -> Row \cup {NoRow}]
    /\ docs \in [Session -> Content \cup {NoDoc}]

HistoryOK ==
    /\ faults \in 0..MaxFaults
    /\ kept \in [Refresher -> SUBSET Session]
    /\ quiet \in [Refresher -> BOOLEAN] /\ cut \in [Refresher -> BOOLEAN]

TypeInv == FilesTypeOK /\ StoreOK /\ JobsOK /\ HistoryOK

LEMMA TypeInvImpliesTypeOK == TypeInv => TypeOK
  BY DEF TypeInv, TypeOK, StoreOK, JobsOK, HistoryOK, JobOK

LEMMA IdleJobOK ==
  ASSUME NEW outcome \in Outcome
  PROVE  JobOK(IdleJob(outcome))
  <1>1. /\ <<>> \in Seq(Entry) /\ <<>> \in Seq(RowEntry)
        /\ [s \in Session |-> None] \in [Session -> Path \cup {None}]
        /\ [s \in Session |-> NoRow] \in [Session -> Row \cup {NoRow}]
    OBVIOUS
  <1>2. IdleJob(outcome) \in Job
    BY <1>1 DEF IdleJob, Job, Stage
  <1>3. Len(<<>>) < BatchSize /\ Len(<<>>) <= BatchSize
    BY RefreshAssumption
  <1> QED
    BY <1>2, <1>3 DEF IdleJob, JobOK

LEMMA BecomeOK ==
  ASSUME JobsOK, NEW r \in Refresher, NEW j, JobOK(j), Become(r, j)
  PROVE  JobsOK'
  BY DEF JobsOK, JobOK, Become

\* The entry a batch has for a session is one of its entries.
LEMMA EntryForInBatch ==
  ASSUME NEW S, NEW batch \in Seq(S), NEW s, InBatch(batch, s)
  PROVE  \E k \in DOMAIN batch :
           EntryFor(batch, s) = batch[k] /\ batch[k] \in S /\ batch[k].id = s
  <1>1. PICK k : k = CHOOSE i \in DOMAIN batch : batch[i].id = s
    OBVIOUS
  <1>2. k \in DOMAIN batch /\ batch[k].id = s
    BY <1>1 DEF InBatch
  <1>3. EntryFor(batch, s) = batch[k]
    BY <1>1 DEF EntryFor
  <1>4. batch[k] \in S
    BY <1>2
  <1> QED
    BY <1>2, <1>3, <1>4

LEMMA FilesStep == FilesTypeOK /\ FilesNext => FilesTypeOK'
  <1> SUFFICES ASSUME FilesTypeOK, FilesNext PROVE FilesTypeOK'
    OBVIOUS
  <1> USE FileAssumption, PathAssumption
  <1>1. changes' \in 0..MaxChanges
    BY DEF FilesNext, FilesTypeOK
  <1>2. ASSUME NEW p \in Path, NEW f \in File, Put(p, f)
        PROVE  fs' \in [Path -> File \cup {NoFile}] /\ high' \in [Path -> [Session -> 0..MaxLen]]
    BY <1>2 DEF Put, FilesTypeOK, File
  <1>3. ASSUME NEW p \in Path, NEW s \in Session, Create(p, s)
        PROVE  fs' \in [Path -> File \cup {NoFile}] /\ high' \in [Path -> [Session -> 0..MaxLen]]
    <2>1. PICK t \in MTime : Put(p, [sid |-> s, len |-> high[p][s], mtime |-> t])
      BY <1>3 DEF Create
    <2>2. [sid |-> s, len |-> high[p][s], mtime |-> t] \in File
      BY DEF File, FilesTypeOK
    <2> QED
      BY <2>1, <2>2, <1>2
  <1>4. ASSUME NEW p \in Path, AppendRecord(p)
        PROVE  fs' \in [Path -> File \cup {NoFile}] /\ high' \in [Path -> [Session -> 0..MaxLen]]
    <2>1. PICK t \in MTime : Put(p, [fs[p] EXCEPT !.len = @ + 1, !.mtime = t])
      BY <1>4 DEF AppendRecord
    <2>2. fs[p] \in File /\ fs[p].len < MaxLen
      BY <1>4 DEF AppendRecord, Exists, FilesTypeOK
    <2>3. PICK f \in File : f = fs[p]
      BY <2>2
    <2>4. f.len + 1 \in 0..MaxLen
      BY <2>2, <2>3 DEF File
    <2>5. [f EXCEPT !.len = f.len + 1, !.mtime = t] \in File
      BY <2>4 DEF File
    <2> QED
      BY <2>1, <2>3, <2>5, <1>2
  <1>5. ASSUME NEW p \in Path, Touch(p)
        PROVE  fs' \in [Path -> File \cup {NoFile}] /\ high' \in [Path -> [Session -> 0..MaxLen]]
    <2>1. PICK t \in MTime : Put(p, [fs[p] EXCEPT !.mtime = t])
      BY <1>5 DEF Touch
    <2>2. fs[p] \in File
      BY <1>5 DEF Touch, Exists, FilesTypeOK
    <2>3. [fs[p] EXCEPT !.mtime = t] \in File
      BY <2>2 DEF File
    <2> QED
      BY <2>1, <2>3, <1>2
  <1>6. ASSUME NEW p \in Path, DeleteFile(p)
        PROVE  fs' \in [Path -> File \cup {NoFile}] /\ high' \in [Path -> [Session -> 0..MaxLen]]
    BY <1>6 DEF DeleteFile, FilesTypeOK
  <1>7. ASSUME NEW p \in Path, NEW q \in Path, Move(p, q)
        PROVE  fs' \in [Path -> File \cup {NoFile}] /\ high' \in [Path -> [Session -> 0..MaxLen]]
    <2>1. fs[p] \in File
      BY <1>7 DEF Move, Exists, FilesTypeOK
    <2> QED
      BY <2>1, <1>7 DEF Move, FilesTypeOK, File
  <1> QED
    BY <1>1, <1>3, <1>4, <1>5, <1>6, <1>7 DEF FilesNext, FilesTypeOK, Archive, Unarchive

-----------------------------------------------------------------------------
(* The steps of a run. *)

StepOK == StoreOK' /\ JobsOK' /\ cut' \in [Refresher -> BOOLEAN]

LEMMA ReturnOK ==
  ASSUME TypeInv, NEW r \in Refresher, NEW outcome \in Outcome, Return(r, outcome)
  PROVE  StepOK
  BY IdleJobOK, BecomeOK DEF Return, StepOK, TypeInv, HistoryOK, StoreOK, storeVars

LEMMA ProceedOK ==
  ASSUME TypeInv, NEW r \in Refresher, NEW j, JobOK(j), Proceed(r, j)
  PROVE  StepOK
  BY BecomeOK DEF Proceed, StepOK, TypeInv, HistoryOK, StoreOK, storeVars

LEMMA ThisJobOK ==
  ASSUME TypeInv, NEW r \in Refresher
  PROVE  JobOK(job[r]) /\ job[r] \in Job
  BY DEF TypeInv, JobsOK, JobOK

LEMMA WalkOK ==
  ASSUME TypeInv, NEW r \in Refresher, Walk(r)
  PROVE  StepOK
  <1>1. ASSUME NEW here \in {"walkActive", "walkArchived"}, NEW root \in SUBSET Path, NEW after \in {"walkArchived", "parse"},
               WalkRoot(r, here, root, after)
        PROVE  StepOK
    <2>1. JobOK(job[r]) /\ job[r] \in Job
      BY ThisJobOK
    <2>2. CASE Return(r, "error")
      BY <2>2, ReturnOK DEF Outcome
    <2>3. PICK j : j = job[r]
      OBVIOUS
    <2>4. JobOK([j EXCEPT !.pc = after, !.unparsed = @ \cup Complete(root)])
      BY <1>1, <2>1, <2>3 DEF WalkRoot, Complete, JobOK, Job, Stage
    <2> QED
      BY <1>1, <2>2, <2>3, <2>4, ProceedOK DEF WalkRoot
  <1> QED
    BY <1>1, PathAssumption DEF Walk

LEMMA CutWalkOK ==
  ASSUME TypeInv, NEW r \in Refresher, NEW here \in {"walkActive", "walkArchived"},
         NEW root \in SUBSET Path, NEW after \in {"walkArchived", "parse"},
         CutWalk(r, here, root, after)
  PROVE  StepOK
  <1>1. JobOK(job[r]) /\ job[r] \in Job
    BY ThisJobOK
  <1>2. PICK j : j = job[r]
    OBVIOUS
  <1>3. PICK d : Proceed(r, [j EXCEPT !.pc = after, !.unparsed = @ \cup UpTo(root, d)])
    BY <1>2 DEF CutWalk
  <1>4. j.pc = here
    BY <1>2 DEF CutWalk
  <1>5. JobOK([j EXCEPT !.pc = after, !.unparsed = @ \cup UpTo(root, d)])
    BY <1>1, <1>2, <1>4 DEF UpTo, JobOK, Job, Stage
  <1> QED
    BY <1>3, <1>5, ProceedOK

LEMMA ParseOK ==
  ASSUME TypeInv, NEW r \in Refresher, Parse(r)
  PROVE  StepOK
  <1>1. PICK j : j = job[r]
    OBVIOUS
  <1>2. JobOK(j) /\ j \in Job /\ j.pc = "parse"
    BY <1>1, ThisJobOK DEF Parse
  <1>3. CASE Return(r, "error")
    BY <1>3, ReturnOK DEF Outcome
  <1>4. CASE Proceed(r, [j EXCEPT !.pc = "load"])
    <2>1. JobOK([j EXCEPT !.pc = "load"])
      BY <1>2 DEF JobOK, Job, Stage
    <2> QED
      BY <1>4, <2>1, ProceedOK
  <1>5. ASSUME NEW p \in j.unparsed,
               Proceed(r, [j EXCEPT !.unparsed = @ \ {p}, !.warned = TRUE])
        PROVE  StepOK
    <2>1. JobOK([j EXCEPT !.unparsed = @ \ {p}, !.warned = TRUE])
      BY <1>2 DEF JobOK, Job
    <2> QED
      BY <1>5, <2>1, ProceedOK
  <1>6. ASSUME NEW p \in j.unparsed, Parses(p),
               Proceed(r, [j EXCEPT !.unparsed = @ \ {p},
                             !.byId = IF Supersedes(@, p)
                                      THEN [@ EXCEPT ![ParsedID(p)] = p] ELSE @])
        PROVE  StepOK
    <2>1. p \in Path /\ ParsedID(p) \in Session
      BY <1>2, <1>6 DEF Job, Parses, ParsedID, Exists, TypeInv, FilesTypeOK, File
    <2>2. PICK b : b = IF Supersedes(j.byId, p)
                       THEN [j.byId EXCEPT ![ParsedID(p)] = p] ELSE j.byId
      OBVIOUS
    <2>3. /\ b \in [Session -> Path \cup {None}]
          /\ \A s \in Session : j.byId[s] # None => b[s] # None
      BY <1>2, <2>1, <2>2, AbsentAssumption DEF Job
    <2>4. JobOK([j EXCEPT !.unparsed = @ \ {p}, !.byId = b])
      BY <1>2, <2>3 DEF JobOK, Job
    <2> QED
      BY <1>6, <2>2, <2>4, ProceedOK
  <1> QED
    BY <1>1, <1>3, <1>4, <1>5, <1>6 DEF Parse

LEMMA LoadOK ==
  ASSUME TypeInv, NEW r \in Refresher, Load(r)
  PROVE  StepOK
  <1>1. PICK j : j = job[r]
    OBVIOUS
  <1>2. JobOK(j) /\ j \in Job /\ j.pc = "load"
    BY <1>1, ThisJobOK DEF Load
  <1>3. CASE Return(r, "error")
    BY <1>3, ReturnOK DEF Outcome
  <1>4. JobOK([j EXCEPT !.pc = "next", !.loaded = sess,
                        !.todo = {s \in Session : j.byId[s] # None}])
    BY <1>2 DEF JobOK, Job, Stage, TypeInv, StoreOK
  <1> QED
    BY <1>1, <1>3, <1>4, ProceedOK DEF Load

LEMMA VisitOK ==
  ASSUME TypeInv, NEW r \in Refresher, Visit(r)
  PROVE  StepOK
  <1>1. PICK j : j = job[r]
    OBVIOUS
  <1>2. JobOK(j) /\ j \in Job /\ j.pc = "next"
    BY <1>1, ThisJobOK DEF Visit
  <1>3. CASE Return(r, "error")
    BY <1>3, ReturnOK DEF Outcome
  <1>4. CASE Proceed(r, [j EXCEPT !.pc = "flushLast"])
    <2>1. JobOK([j EXCEPT !.pc = "flushLast"])
      BY <1>2 DEF JobOK, Job, Stage
    <2> QED
      BY <1>4, <2>1, ProceedOK
  <1>5. ASSUME NEW s \in j.todo, NEW v, v = [j EXCEPT !.todo = @ \ {s}]
        PROVE  /\ JobOK(v)
               /\ JobOK([v EXCEPT !.soft = TRUE])
               /\ Exists(j.byId[s]) =>
                    JobOK([v EXCEPT !.pc = "hash", !.cur = s,
                                    !.stat = Fingerprint(j.byId[s])])
    <2>1. s \in Session /\ j.byId[s] # None /\ j.byId[s] \in Path
      BY <1>2 DEF JobOK, Job
    <2>2. v \in Job /\ JobOK(v) /\ v.byId = j.byId /\ v.pc = "next"
      BY <1>2, <1>5 DEF JobOK, Job
    <2>3. JobOK([v EXCEPT !.soft = TRUE])
      BY <2>2 DEF JobOK, Job
    <2>4. ASSUME Exists(j.byId[s])
          PROVE  JobOK([v EXCEPT !.pc = "hash", !.cur = s,
                                 !.stat = Fingerprint(j.byId[s])])
      <3>1. PICK st : st = Fingerprint(j.byId[s])
        OBVIOUS
      <3>2. st \in [size : 0..MaxLen, mtime : MTime]
        BY <2>1, <2>4, <3>1 DEF Exists, Fingerprint, TypeInv, FilesTypeOK, File
      <3>3. st # None /\ s # None
        BY <2>1, <3>2, AbsentAssumption
      <3> QED
        BY <2>1, <2>2, <3>1, <3>2, <3>3 DEF JobOK, Job, Stage
    <2> QED
      BY <2>2, <2>3, <2>4
  <1> QED
    BY <1>1, <1>3, <1>4, <1>5, ProceedOK DEF Visit

LEMMA ReadFailsOK ==
  ASSUME TypeInv, NEW r \in Refresher, ReadFails(r), job[r].pc \in {"hash", "decode"}
  PROVE  StepOK
  <1>1. PICK j : j = job[r]
    OBVIOUS
  <1>2. JobOK(j) /\ j \in Job
    BY <1>1, ThisJobOK
  <1>3. JobOK([j EXCEPT !.pc = "next", !.soft = TRUE,
                        !.cur = None, !.stat = None, !.hash = None])
    BY <1>1, <1>2 DEF JobOK, Job, Stage
  <1>4. JobsOK'
    BY <1>1, <1>3, BecomeOK DEF ReadFails, TypeInv
  <1>5. cut' \in [Refresher -> BOOLEAN]
    <2>1. job[r].cancelled \in BOOLEAN
      BY <1>1, <1>2 DEF Job
    <2> QED
      BY <2>1 DEF ReadFails, TypeInv, HistoryOK
  <1> QED
    BY <1>4, <1>5 DEF StepOK, ReadFails, TypeInv, StoreOK, storeVars

\* What is read of an open file, and the row made of it, have their types.
LEMMA BytesType ==
  ASSUME TypeInv, NEW p \in Path, Exists(p)
  PROVE  Bytes(p) \in Content
  BY DEF Bytes, Exists, Content, TypeInv, FilesTypeOK, File

LEMMA RowOfType ==
  ASSUME NEW p \in Path, NEW hash \in Content,
         NEW st \in [size : 0..MaxLen, mtime : MTime]
  PROVE  RowOf(p, hash, st) \in Row
  BY DEF RowOf, Row

\* An entry is appended where there is room, and a full batch is written next.
LEMMA AppendPendOK ==
  ASSUME NEW j \in Job, JobOK(j), j.pc = "decode", NEW e \in Entry
  PROVE  JobOK([Settled(j, AfterAppend(j.pend, "flush")) EXCEPT !.pend = Append(@, e)])
  <1>1. PICK b : b = Append(j.pend, e)
    OBVIOUS
  <1>2. b \in Seq(Entry) /\ Len(b) = Len(j.pend) + 1 /\ Len(j.pend) \in Nat
    BY <1>1 DEF Job
  <1>3. /\ Len(j.pend) < BatchSize /\ Len(j.pendFp) < BatchSize
        /\ Len(j.pendFp) <= BatchSize /\ \A s \in j.todo : j.byId[s] # None
    BY DEF JobOK
  <1>4. /\ Len(b) <= BatchSize
        /\ AfterAppend(j.pend, "flush") # "flush" => Len(b) < BatchSize
        /\ AfterAppend(j.pend, "flush") \in {"flush", "next"}
    BY <1>2, <1>3, RefreshAssumption DEF AfterAppend
  <1>5. PICK a \in {"flush", "next"} : a = AfterAppend(j.pend, "flush")
    BY <1>4
  <1>6. JobOK([j EXCEPT !.pc = a, !.cur = None, !.stat = None, !.hash = None, !.pend = b])
    BY <1>2, <1>3, <1>4, <1>5 DEF JobOK, Job, Stage
  <1> QED
    BY <1>1, <1>5, <1>6 DEF Settled

LEMMA AppendPendFpOK ==
  ASSUME NEW j \in Job, JobOK(j), j.pc = "hash", NEW e \in RowEntry
  PROVE  JobOK([Settled(j, AfterAppend(j.pendFp, "flushFp")) EXCEPT !.pendFp = Append(@, e)])
  <1>1. PICK b : b = Append(j.pendFp, e)
    OBVIOUS
  <1>2. b \in Seq(RowEntry) /\ Len(b) = Len(j.pendFp) + 1 /\ Len(j.pendFp) \in Nat
    BY <1>1 DEF Job
  <1>3. /\ Len(j.pendFp) < BatchSize /\ Len(j.pend) < BatchSize
        /\ Len(j.pend) <= BatchSize /\ \A s \in j.todo : j.byId[s] # None
    BY DEF JobOK
  <1>4. /\ Len(b) <= BatchSize
        /\ AfterAppend(j.pendFp, "flushFp") # "flushFp" => Len(b) < BatchSize
        /\ AfterAppend(j.pendFp, "flushFp") \in {"flushFp", "next"}
    BY <1>2, <1>3, RefreshAssumption DEF AfterAppend
  <1>5. PICK a \in {"flushFp", "next"} : a = AfterAppend(j.pendFp, "flushFp")
    BY <1>4
  <1>6. JobOK([j EXCEPT !.pc = a, !.cur = None, !.stat = None, !.hash = None, !.pendFp = b])
    BY <1>2, <1>3, <1>4, <1>5 DEF JobOK, Job, Stage
  <1> QED
    BY <1>1, <1>5, <1>6 DEF Settled

LEMMA HashOK ==
  ASSUME TypeInv, NEW r \in Refresher, Hash(r)
  PROVE  StepOK
  <1>1. PICK j : j = job[r]
    OBVIOUS
  <1>2. JobOK(j) /\ j \in Job /\ j.pc = "hash"
    BY <1>1, ThisJobOK DEF Hash
  <1>3. PICK p : p = j.byId[j.cur]
    OBVIOUS
  <1>4. /\ j.cur \in Session /\ p \in Path
        /\ j.stat \in [size : 0..MaxLen, mtime : MTime]
    BY <1>2, <1>3 DEF JobOK, Job
  <1>5. CASE ReadFails(r)
    BY <1>1, <1>2, <1>5, ReadFailsOK
  <1>6. ASSUME Exists(p) PROVE Bytes(p) \in Content /\ Bytes(p) # None
    BY <1>4, <1>6, BytesType, AbsentAssumption
  <1>7. CASE Proceed(r, Settled(j, "next"))
    <2>1. JobOK(Settled(j, "next"))
      BY <1>2 DEF Settled, JobOK, Job, Stage
    <2> QED
      BY <1>7, <2>1, ProceedOK
  <1>8. ASSUME Exists(p),
               Proceed(r, [Settled(j, AfterAppend(j.pendFp, "flushFp")) EXCEPT
                     !.pendFp = Append(@, [id |-> j.cur,
                                           row |-> RowOf(p, Bytes(p), j.stat)])])
        PROVE  StepOK
    <2>1. [id |-> j.cur, row |-> RowOf(p, Bytes(p), j.stat)] \in RowEntry
      BY <1>4, <1>6, <1>8, RowOfType DEF RowEntry
    <2> QED
      BY <1>2, <1>8, <2>1, AppendPendFpOK, ProceedOK
  <1>9. ASSUME Exists(p), Proceed(r, [j EXCEPT !.pc = "decode", !.hash = Bytes(p)])
        PROVE  StepOK
    <2>1. PICK h : h = Bytes(p)
      OBVIOUS
    <2>2. JobOK([j EXCEPT !.pc = "decode", !.hash = h])
      BY <1>2, <1>6, <1>9, <2>1 DEF JobOK, Job, Stage
    <2> QED
      BY <1>9, <2>1, <2>2, ProceedOK
  <1> QED
    BY <1>1, <1>3, <1>5, <1>7, <1>8, <1>9 DEF Hash

LEMMA DecodeOK ==
  ASSUME TypeInv, NEW r \in Refresher, Decode(r)
  PROVE  StepOK
  <1>1. PICK j : j = job[r]
    OBVIOUS
  <1>2. JobOK(j) /\ j \in Job /\ j.pc = "decode"
    BY <1>1, ThisJobOK DEF Decode
  <1>3. PICK p : p = j.byId[j.cur]
    OBVIOUS
  <1>4. /\ j.cur \in Session /\ p \in Path /\ j.hash \in Content
        /\ j.stat \in [size : 0..MaxLen, mtime : MTime]
    BY <1>2, <1>3 DEF JobOK, Job
  <1>5. CASE ReadFails(r)
    BY <1>1, <1>2, <1>5, ReadFailsOK
  <1>6. ASSUME Exists(p),
               Proceed(r, [Settled(j, AfterAppend(j.pend, "flush")) EXCEPT
                 !.pend = Append(@, [id |-> j.cur, row |-> RowOf(p, j.hash, j.stat),
                                     doc |-> Bytes(p)])])
        PROVE  StepOK
    <2>1. [id |-> j.cur, row |-> RowOf(p, j.hash, j.stat), doc |-> Bytes(p)] \in Entry
      BY <1>4, <1>6, RowOfType, BytesType DEF Entry
    <2> QED
      BY <1>2, <1>6, <2>1, AppendPendOK, ProceedOK
  <1> QED
    BY <1>1, <1>3, <1>5, <1>6 DEF Decode

\* The two flushes leave well-typed tables behind.
LEMMA ReplaceSessionsOK ==
  ASSUME StoreOK, NEW batch \in Seq(Entry), ReplaceSessions(batch)
  PROVE  StoreOK'
  <1>1. ASSUME NEW s \in Session, InBatch(batch, s)
        PROVE  EntryFor(batch, s).row \in Row /\ EntryFor(batch, s).doc \in Content
    <2>1. EntryFor(batch, s) \in Entry
      BY <1>1, EntryForInBatch
    <2> QED
      BY <2>1 DEF Entry
  <1> QED
    BY <1>1 DEF ReplaceSessions, RowsAfter, StoreOK

LEMMA UpsertSessionsOK ==
  ASSUME StoreOK, NEW batch \in Seq(RowEntry), UpsertSessions(batch)
  PROVE  StoreOK'
  <1>1. ASSUME NEW s \in Session, InBatch(batch, s)
        PROVE  EntryFor(batch, s).row \in Row
    <2>1. EntryFor(batch, s) \in RowEntry
      BY <1>1, EntryForInBatch
    <2> QED
      BY <2>1 DEF RowEntry
  <1> QED
    BY <1>1 DEF UpsertSessions, RowsAfter, StoreOK

LEMMA FlushOK ==
  ASSUME TypeInv, NEW r \in Refresher, Flush(r)
  PROVE  StepOK
  <1>1. PICK j : j = job[r]
    OBVIOUS
  <1>2. JobOK(j) /\ j \in Job /\ j.pc \in {"flush", "flushLast"}
    BY <1>1, ThisJobOK DEF Flush
  <1>3. PICK after \in {"next", "flushFpLast"} :
          after = IF j.pc = "flush" THEN "next" ELSE "flushFpLast"
    OBVIOUS
  <1>4. <<>> \in Seq(Entry) /\ Len(<<>>) < BatchSize /\ Len(<<>>) <= BatchSize
    BY RefreshAssumption
  <1>5. JobOK([j EXCEPT !.pc = after, !.pend = <<>>])
    BY <1>2, <1>3, <1>4, ZenonT(30) DEF JobOK, Job, Stage
  <1>6. CASE Return(r, "error")
    BY <1>6, ReturnOK DEF Outcome
  <1>7. CASE j.pend = <<>> /\ Proceed(r, [j EXCEPT !.pc = after])
    <2>1. JobOK([j EXCEPT !.pc = after])
      BY <1>2, <1>3, <1>4, <1>7 DEF JobOK, Job, Stage
    <2> QED
      BY <1>7, <2>1, ProceedOK
  <1>8. CASE /\ ReplaceSessions(j.pend)
             /\ Become(r, [j EXCEPT !.pc = after, !.pend = <<>>])
             /\ cut' = cut
    <2>1. StoreOK'
      BY <1>2, <1>8, ReplaceSessionsOK DEF TypeInv, Job
    <2> QED
      BY <1>5, <1>8, <2>1, BecomeOK DEF TypeInv, HistoryOK, StepOK
  <1> QED
    BY <1>1, <1>3, <1>6, <1>7, <1>8 DEF Flush

LEMMA FlushFpOK ==
  ASSUME TypeInv, NEW r \in Refresher, FlushFp(r)
  PROVE  StepOK
  <1>1. PICK j : j = job[r]
    OBVIOUS
  <1>2. JobOK(j) /\ j \in Job /\ j.pc \in {"flushFp", "flushFpLast"}
    BY <1>1, ThisJobOK DEF FlushFp
  <1>3. PICK after :
          after = IF j.pc = "flushFp" THEN [j EXCEPT !.pc = "next"]
                  ELSE [j EXCEPT !.pc = "stale",
                                 !.gone = {s \in Session : j.loaded[s] # NoRow}]
    OBVIOUS
  <1>4. <<>> \in Seq(RowEntry) /\ Len(<<>>) < BatchSize /\ Len(<<>>) <= BatchSize
    BY RefreshAssumption
  <1>5. /\ after \in Job /\ after.pc \in {"next", "stale"}
        /\ after.todo = j.todo /\ after.byId = j.byId
        /\ after.pend = j.pend /\ after.pendFp = j.pendFp
    BY <1>2, <1>3, ZenonT(30) DEF Job, Stage
  <1>6. JobOK([after EXCEPT !.pendFp = <<>>])
    BY <1>2, <1>4, <1>5, ZenonT(30) DEF JobOK, Job
  <1>7. CASE Return(r, "error")
    BY <1>7, ReturnOK DEF Outcome
  <1>8. CASE j.pendFp = <<>> /\ Proceed(r, after)
    <2>1. JobOK(after)
      BY <1>2, <1>4, <1>5, <1>8 DEF JobOK
    <2> QED
      BY <1>8, <2>1, ProceedOK
  <1>9. CASE /\ UpsertSessions(j.pendFp)
             /\ Become(r, [after EXCEPT !.pendFp = <<>>])
             /\ cut' = cut
    <2>1. StoreOK'
      BY <1>2, <1>9, UpsertSessionsOK DEF TypeInv, Job
    <2> QED
      BY <1>6, <1>9, <2>1, BecomeOK DEF TypeInv, HistoryOK, StepOK
  <1> QED
    BY <1>1, <1>3, <1>7, <1>8, <1>9 DEF FlushFp

LEMMA StaleOK ==
  ASSUME TypeInv, NEW r \in Refresher, Stale(r)
  PROVE  StepOK
  <1>1. PICK j : j = job[r]
    OBVIOUS
  <1>2. JobOK(j) /\ j \in Job /\ j.pc = "stale"
    BY <1>1, ThisJobOK DEF Stale
  <1>3. ASSUME NEW outcome \in Outcome, Return(r, outcome) PROVE StepOK
    BY <1>3, ReturnOK
  <1>4. ASSUME NEW s \in j.gone, Become(r, [j EXCEPT !.gone = @ \ {s}]), cut' = cut,
               DeleteSession(s) \/ UNCHANGED storeVars
        PROVE  StepOK
    <2>1. JobOK([j EXCEPT !.gone = @ \ {s}])
      BY <1>2 DEF JobOK, Job
    <2>2. StoreOK'
      BY <1>4 DEF DeleteSession, storeVars, TypeInv, StoreOK
    <2> QED
      BY <1>4, <2>1, <2>2, BecomeOK DEF TypeInv, HistoryOK, StepOK
  <1> QED
    BY <1>1, <1>3, <1>4 DEF Stale, Outcome

LEMMA StartOK ==
  ASSUME TypeInv, NEW r \in Refresher, Start(r)
  PROVE  TypeInv'
  <1>1. ASSUME NEW full \in BOOLEAN
        PROVE  JobOK([IdleJob("none") EXCEPT !.pc = "walkActive", !.full = full])
    <2>1. PICK j : j = IdleJob("none")
      OBVIOUS
    <2>2. JobOK(j) /\ j.pc = "idle"
      BY <2>1, IdleJobOK DEF Outcome, IdleJob
    <2>3. JobOK([j EXCEPT !.pc = "walkActive", !.full = full])
      BY <2>2 DEF JobOK, Job, Stage
    <2> QED
      BY <2>1, <2>3
  <1>2. JobsOK'
    BY <1>1, BecomeOK DEF Start, TypeInv
  <1>3. HistoryOK'
    BY DEF Start, TypeInv, HistoryOK, LiveSessions
  <1> QED
    BY <1>2, <1>3 DEF Start, TypeInv, FilesTypeOK, StoreOK, filesVars, storeVars

LEMMA FaultOK ==
  ASSUME TypeInv, NEW r \in Refresher, Fault(r)
  PROVE  TypeInv'
  <1>1. StepOK
    <2>1. CASE Cancel(r)
      <3>1. PICK j : j = job[r]
        OBVIOUS
      <3>2. JobOK([j EXCEPT !.cancelled = TRUE])
        BY <3>1, ThisJobOK, ZenonT(30) DEF JobOK, Job
      <3> QED
        BY <2>1, <3>1, <3>2, ProceedOK DEF Cancel, Proceed
    <2>2. CASE IoError(r)
      BY <2>2, ReturnOK DEF IoError, Outcome
    <2>3. CASE Crash(r)
      BY <2>3, ReturnOK DEF Crash, Outcome
    <2> QED
      BY <2>1, <2>2, <2>3, CutWalkOK, PathAssumption DEF Fault, DirectoryVanishes
  <1>2. faults' \in 0..MaxFaults /\ cut' \in [Refresher -> BOOLEAN]
    BY <1>1, RefreshAssumption DEF Fault, TypeInv, HistoryOK, StepOK
  <1>3. kept' \in [Refresher -> SUBSET Session] /\ quiet' \in [Refresher -> BOOLEAN]
    BY DEF Fault, DirectoryVanishes, CutWalk, TypeInv, HistoryOK
  <1>4. HistoryOK'
    BY <1>2, <1>3 DEF HistoryOK
  <1> QED
    BY <1>1, <1>4 DEF Fault, TypeInv, StepOK, FilesTypeOK, filesVars

LEMMA WorkOK ==
  ASSUME TypeInv, NEW r \in Refresher, Work(r)
  PROVE  TypeInv'
  <1>1. StepOK
    BY WalkOK, ParseOK, LoadOK, VisitOK, HashOK, DecodeOK, FlushOK, FlushFpOK, StaleOK
    DEF Work
  <1>2. HistoryOK'
    BY <1>1 DEF Work, TypeInv, HistoryOK, StepOK
  <1> QED
    BY <1>1, <1>2 DEF Work, TypeInv, StepOK, FilesTypeOK, filesVars

LEMMA CodexOK ==
  ASSUME TypeInv, Codex
  PROVE  TypeInv'
  <1>1. FilesTypeOK'
    BY FilesStep DEF Codex, TypeInv
  <1>2. HistoryOK'
    BY DEF Codex, TypeInv, HistoryOK
  <1> QED
    BY <1>1, <1>2 DEF Codex, TypeInv, StoreOK, JobsOK, JobOK, storeVars

LEMMA TypeInvInit == Init => TypeInv
  <1> SUFFICES ASSUME Init PROVE TypeInv
    OBVIOUS
  <1>1. FilesTypeOK
    BY FileAssumption DEF Init, FilesInit, FilesTypeOK, HighAfter, File
  <1>2. JobsOK
    BY IdleJobOK DEF Init, JobsOK, JobOK, Outcome
  <1> QED
    BY <1>1, <1>2, RefreshAssumption DEF Init, TypeInv, StoreOK, HistoryOK

LEMMA TypeInvStep == TypeInv /\ [Next]_vars => TypeInv'
  <1> SUFFICES ASSUME TypeInv, [Next]_vars PROVE TypeInv'
    OBVIOUS
  <1>1. CASE UNCHANGED vars
    BY <1>1 DEF vars, filesVars, storeVars, historyVars, TypeInv, FilesTypeOK,
                StoreOK, JobsOK, JobOK, HistoryOK
  <1> QED
    BY <1>1, StartOK, WorkOK, FaultOK, CodexOK DEF Next

(***************************************************************************)
(* In every run of any number of refreshers the variables have their types *)
(* (TypeOK): in particular a job in the "hash" or "decode" stage has a     *)
(* session, its path and a fingerprint, and no batch outgrows BatchSize.   *)
(***************************************************************************)
THEOREM TypeCorrect == Spec => []TypeOK
  <1>1. Spec => []TypeInv
    BY TypeInvInit, TypeInvStep, PTL DEF Spec
  <1> QED
    BY <1>1, TypeInvImpliesTypeOK, PTL

-----------------------------------------------------------------------------
(* Why nothing is skipped that should have been read. *)

OneAtATime == \A q, r \in Refresher : q = r

NoSharedPath == \A p \in Path : \A s, t \in MayHold[p] : s = t

-----------------------------------------------------------------------------
(* The inductive invariant. *)

\* Each file is where its session may be, and has never been longer.
FilesInv ==
    \A p \in Path : Exists(p) =>
        fs[p].sid \in MayHold[p] /\ high[p][fs[p].sid] = fs[p].len

\* The chain, for a row and the messages that go with it.
Chain(s, row, doc) ==
    /\ s \in MayHold[row.path]
    /\ row.hash.sid = s /\ doc.sid = s
    /\ row.size <= row.hash.len
    /\ row.hash.len <= doc.len
    /\ doc.len <= high[row.path][s]

StoreInv ==
    \A s \in Session : sess[s] # NoRow => docs[s] # NoDoc /\ Chain(s, sess[s], docs[s])

\* The run has not decided about s: its row is still the one the run loaded.
Undecided(j, s) ==
    j.loaded[s] = sess[s] /\ ~InBatch(j.pend, s) /\ ~InBatch(j.pendFp, s)

\* A planned fingerprint update concerns the row's own path and hash.
FingerprintOf(e, row) ==
    /\ row # NoRow
    /\ e.row.path = row.path /\ e.row.hash = row.hash
    /\ e.row.size <= e.row.hash.len

CatalogInv(j) == \A s \in Session : j.byId[s] # None => s \in MayHold[j.byId[s]]

StageInv(j) ==
    /\ j.pc \in {"idle", "walkActive", "walkArchived", "parse", "load"} =>
         j.todo = {} /\ j.pend = <<>> /\ j.pendFp = <<>>
    /\ j.pc \in {"flushLast", "flushFpLast", "stale"} => j.todo = {}
    /\ j.pc = "stale" => j.pendFp = <<>>

ReadingInv(j) ==
    /\ j.pc \in {"hash", "decode"} =>
         /\ j.cur \notin j.todo /\ Undecided(j, j.cur)
         /\ j.stat.size <= high[j.byId[j.cur]][j.cur]
    /\ j.pc = "decode" =>
         /\ j.hash.sid = j.cur
         /\ j.stat.size <= j.hash.len /\ j.hash.len <= high[j.byId[j.cur]][j.cur]

PendingInv(j) ==
    /\ \A s \in j.todo : Undecided(j, s)
    /\ \A k \in DOMAIN j.pend : Chain(j.pend[k].id, j.pend[k].row, j.pend[k].doc)
    /\ \A k \in DOMAIN j.pendFp :
         /\ FingerprintOf(j.pendFp[k], sess[j.pendFp[k].id])
         /\ ~InBatch(j.pend, j.pendFp[k].id)

JobInv(j) == CatalogInv(j) /\ StageInv(j) /\ ReadingInv(j) /\ PendingInv(j)

IInv == FilesInv /\ StoreInv /\ \A r \in Refresher : JobInv(job[r])

-----------------------------------------------------------------------------
(* The initial states, and what the environment does. *)

LEMMA IdleJobSafe ==
  ASSUME NEW outcome
  PROVE  JobInv(IdleJob(outcome))
  BY DEF IdleJob, JobInv, CatalogInv, StageInv, ReadingInv, PendingInv

LEMMA InitSafe == Init => IInv
  <1> SUFFICES ASSUME Init PROVE IInv
    OBVIOUS
  <1>1. FilesInv
    BY FileAssumption DEF Init, FilesInit, FilesInv, HighAfter, Exists, File
  <1>2. StoreInv
    BY DEF Init, StoreInv
  <1> QED
    BY <1>1, <1>2, IdleJobSafe DEF Init, IInv

\* What has been read of a rollout only ever falls behind it.
Grows == \A p \in Path, s \in Session : high[p][s] <= high'[p][s]

LEMMA PutSafe ==
  ASSUME FilesTypeOK, FilesInv, NEW p \in Path, NEW f \in File, f # NoFile,
         f.sid \in MayHold[p], high[p][f.sid] <= f.len, Put(p, f)
  PROVE  FilesInv' /\ Grows
  <1>1. f.sid \in Session /\ f.len \in 0..MaxLen /\ MaxLen \in Nat
    BY FileAssumption DEF File
  <1>2. FilesInv'
    BY <1>1 DEF Put, FilesTypeOK, FilesInv, Exists, File
  <1>3. Grows
    BY <1>1 DEF Put, FilesTypeOK, Grows
  <1> QED
    BY <1>2, <1>3

LEMMA FilesSafe ==
  ASSUME FilesTypeOK, FilesInv, FilesNext
  PROVE  FilesInv' /\ Grows
  <1>1. MaxLen \in Nat /\ NoFile \notin File
    BY FileAssumption DEF File
  <1>2. ASSUME NEW p \in Path, NEW s \in Session, Create(p, s)
        PROVE  FilesInv' /\ Grows
    <2>1. PICK t \in MTime : Put(p, [sid |-> s, len |-> high[p][s], mtime |-> t])
      BY <1>2 DEF Create
    <2>2. PICK f : f = [sid |-> s, len |-> high[p][s], mtime |-> t]
      OBVIOUS
    <2>3. high[p][s] \in 0..MaxLen
      BY DEF FilesTypeOK
    <2>4. f \in File /\ f.sid = s /\ f.len = high[p][s] /\ high[p][s] <= f.len
      BY <1>1, <2>2, <2>3 DEF File
    <2> QED
      BY <1>1, <1>2, <2>1, <2>2, <2>4, PutSafe DEF Create
  <1>3. ASSUME NEW p \in Path, AppendRecord(p)
        PROVE  FilesInv' /\ Grows
    <2>1. PICK t \in MTime : Put(p, [fs[p] EXCEPT !.len = @ + 1, !.mtime = t])
      BY <1>3 DEF AppendRecord
    <2>2. PICK g \in File : g = fs[p] /\ g.len < MaxLen
      BY <1>3 DEF AppendRecord, Exists, FilesTypeOK
    <2>3. g.sid \in MayHold[p] /\ high[p][g.sid] = g.len
      BY <1>3, <2>2 DEF AppendRecord, FilesInv
    <2>4. PICK n \in 0..MaxLen : n = g.len + 1 /\ g.len <= n
      BY <1>1, <2>2 DEF File
    <2>5. PICK f : f = [g EXCEPT !.len = n, !.mtime = t]
      OBVIOUS
    <2>6. f \in File /\ f.sid = g.sid /\ f.len = n
      BY <2>5 DEF File
    <2> QED
      BY <1>1, <2>1, <2>2, <2>3, <2>4, <2>5, <2>6, PutSafe
  <1>4. ASSUME NEW p \in Path, Touch(p)
        PROVE  FilesInv' /\ Grows
    <2>1. PICK t \in MTime : Put(p, [fs[p] EXCEPT !.mtime = t])
      BY <1>4 DEF Touch
    <2>2. PICK g \in File : g = fs[p]
      BY <1>4 DEF Touch, Exists, FilesTypeOK
    <2>3. g.sid \in MayHold[p] /\ high[p][g.sid] = g.len
      BY <1>4, <2>2 DEF Touch, FilesInv
    <2>4. PICK f : f = [g EXCEPT !.mtime = t]
      OBVIOUS
    <2>5. f \in File /\ f.sid = g.sid /\ f.len = g.len
      BY <2>2, <2>4 DEF File
    <2>6. high[p][f.sid] <= f.len
      BY <1>1, <2>3, <2>5 DEF File
    <2> QED
      BY <1>1, <2>1, <2>2, <2>3, <2>4, <2>5, <2>6, PutSafe
  <1>5. ASSUME NEW p \in Path, NEW q \in Path, Move(p, q)
        PROVE  FilesInv' /\ Grows
    <2>1. PICK g \in File : g = fs[p]
      BY <1>5 DEF Move, Exists, FilesTypeOK
    <2>2. /\ g.sid \in MayHold[q] /\ high[q][g.sid] <= g.len /\ p # q
          /\ fs' = [fs EXCEPT ![p] = NoFile, ![q] = g]
          /\ high' = [high EXCEPT ![q][g.sid] = g.len]
      BY <1>5, <2>1 DEF Move
    <2>3. g.sid \in Session /\ g.len \in 0..MaxLen
      BY DEF File
    <2>4. FilesInv'
      BY <2>2, <2>3 DEF FilesTypeOK, FilesInv, Exists, File
    <2>5. Grows
      BY <1>1, <2>2, <2>3 DEF FilesTypeOK, Grows
    <2> QED
      BY <2>4, <2>5
  <1>6. ASSUME NEW p \in Path, DeleteFile(p)
        PROVE  FilesInv' /\ Grows
    BY <1>1, <1>6 DEF DeleteFile, FilesTypeOK, FilesInv, Exists, Grows
  <1> QED
    BY <1>2, <1>3, <1>4, <1>5, <1>6 DEF FilesNext, Archive, Unarchive

-----------------------------------------------------------------------------
(* How the steps of the only refresher end. *)

LEMMA BecomeSafe ==
  ASSUME OneAtATime, TypeInv, NEW r \in Refresher, NEW j, Become(r, j),
         FilesInv', StoreInv', JobInv(j)'
  PROVE  IInv'
  <1>1. ASSUME NEW q \in Refresher PROVE job'[q] = j
    BY DEF OneAtATime, Become, TypeInv, JobsOK
  <1> QED
    BY <1>1 DEF IInv

\* What is said of a job depends on the rows and the lengths only.
LEMMA JobInvFrame ==
  ASSUME NEW j, JobInv(j), UNCHANGED <<sess, high>>
  PROVE  JobInv(j)'
  BY DEF JobInv, CatalogInv, StageInv, ReadingInv, PendingInv, Undecided,
         FingerprintOf, Chain

LEMMA ProceedSafe ==
  ASSUME OneAtATime, TypeInv, IInv, NEW r \in Refresher, NEW j, JobInv(j),
         Become(r, j), UNCHANGED <<filesVars, storeVars>>
  PROVE  IInv'
  <1>1. FilesInv' /\ StoreInv'
    BY DEF IInv, FilesInv, Exists, StoreInv, Chain, filesVars, storeVars
  <1>2. JobInv(j)'
    BY JobInvFrame DEF filesVars, storeVars
  <1> QED
    BY <1>1, <1>2, BecomeSafe

LEMMA ReturnSafe ==
  ASSUME OneAtATime, TypeInv, IInv, NEW r \in Refresher, NEW outcome,
         Return(r, outcome), UNCHANGED filesVars
  PROVE  IInv'
  BY ProceedSafe, IdleJobSafe DEF Return

\* The file of a session in the catalog is its own, and nothing has been longer.
LEMMA OwnFile ==
  ASSUME NoSharedPath, TypeInv, IInv, NEW r \in Refresher, NEW s \in Session,
         NEW p, p = job[r].byId[s], p # None, Exists(p)
  PROVE  /\ p \in Path /\ s \in MayHold[p]
         /\ fs[p] \in File /\ fs[p].sid = s /\ high[p][s] = fs[p].len
  <1>1. p \in Path
    BY ThisJobOK DEF Job
  <1>2. s \in MayHold[p] /\ fs[p].sid \in MayHold[p] /\ high[p][fs[p].sid] = fs[p].len
    BY <1>1 DEF IInv, JobInv, CatalogInv, FilesInv
  <1>3. fs[p] \in File
    BY <1>1 DEF TypeInv, FilesTypeOK, Exists
  <1> QED
    BY <1>1, <1>2, <1>3 DEF NoSharedPath

-----------------------------------------------------------------------------
(* The steps of a run. *)

LEMMA WalkSafe ==
  ASSUME OneAtATime, TypeInv, IInv, NEW r \in Refresher, Walk(r), UNCHANGED filesVars
  PROVE  IInv'
  <1>1. PICK j : j = job[r]
    OBVIOUS
  <1>2. JobInv(j) /\ j \in Job
    BY <1>1, ThisJobOK DEF IInv
  <1>3. ASSUME NEW here \in {"walkActive", "walkArchived"}, NEW root,
               NEW after \in {"walkArchived", "parse"}, WalkRoot(r, here, root, after)
        PROVE  IInv'
    <2>1. j.pc = here
      BY <1>1, <1>3 DEF WalkRoot
    <2>2. ASSUME NEW found
          PROVE  JobInv([j EXCEPT !.pc = after, !.unparsed = found])
      BY <1>2, <2>1 DEF Job, JobInv, CatalogInv, StageInv, ReadingInv, PendingInv, Undecided
    <2>3. CASE Return(r, "error")
      BY <2>3, ReturnSafe
    <2> QED
      BY <1>1, <1>3, <2>2, <2>3, ProceedSafe DEF WalkRoot, Proceed
  <1> QED
    BY <1>3 DEF Walk

LEMMA CutWalkSafe ==
  ASSUME OneAtATime, TypeInv, IInv, NEW r \in Refresher,
         NEW here \in {"walkActive", "walkArchived"}, NEW root,
         NEW after \in {"walkArchived", "parse"}, CutWalk(r, here, root, after),
         UNCHANGED filesVars
  PROVE  IInv'
  <1>1. PICK j : j = job[r]
    OBVIOUS
  <1>2. JobInv(j) /\ j \in Job
    BY <1>1, ThisJobOK DEF IInv
  <1>3. PICK d : Proceed(r, [j EXCEPT !.pc = after, !.unparsed = @ \cup UpTo(root, d)])
    BY <1>1 DEF CutWalk
  <1>4. j.pc = here
    BY <1>1 DEF CutWalk
  <1>5. ASSUME NEW found
        PROVE  JobInv([j EXCEPT !.pc = after, !.unparsed = found])
    BY <1>2, <1>4 DEF Job, JobInv, CatalogInv, StageInv, ReadingInv, PendingInv, Undecided
  <1> QED
    BY <1>3, <1>5, ProceedSafe DEF Proceed

LEMMA ParseSafe ==
  ASSUME OneAtATime, TypeInv, IInv, NEW r \in Refresher, Parse(r), UNCHANGED filesVars
  PROVE  IInv'
  <1>1. PICK j : j = job[r]
    OBVIOUS
  <1>2. JobInv(j) /\ j \in Job /\ j.pc = "parse"
    BY <1>1, ThisJobOK DEF IInv, Parse
  <1>3. CASE Return(r, "error")
    BY <1>3, ReturnSafe
  <1>4. CASE Proceed(r, [j EXCEPT !.pc = "load"])
    <2>1. JobInv([j EXCEPT !.pc = "load"])
      BY <1>2 DEF Job, JobInv, CatalogInv, StageInv, ReadingInv, PendingInv, Undecided
    <2> QED
      BY <1>4, <2>1, ProceedSafe DEF Proceed
  <1>5. ASSUME NEW p \in j.unparsed,
               Proceed(r, [j EXCEPT !.unparsed = @ \ {p}, !.warned = TRUE])
        PROVE  IInv'
    <2>1. JobInv([j EXCEPT !.unparsed = @ \ {p}, !.warned = TRUE])
      BY <1>2 DEF Job, JobInv, CatalogInv, StageInv, ReadingInv, PendingInv, Undecided
    <2> QED
      BY <1>5, <2>1, ProceedSafe DEF Proceed
  <1>6. ASSUME NEW p \in j.unparsed, Parses(p),
               Proceed(r, [j EXCEPT !.unparsed = @ \ {p},
                             !.byId = IF Supersedes(@, p)
                                      THEN [@ EXCEPT ![ParsedID(p)] = p] ELSE @])
        PROVE  IInv'
    <2>1. p \in Path /\ ParsedID(p) \in MayHold[p]
      BY <1>2, <1>6 DEF Job, Parses, ParsedID, IInv, FilesInv
    <2>2. PICK c : c = IF Supersedes(j.byId, p)
                       THEN [j.byId EXCEPT ![ParsedID(p)] = p] ELSE j.byId
      OBVIOUS
    <2>3. \A s \in Session : c[s] # None => s \in MayHold[c[s]]
      BY <1>2, <2>1, <2>2 DEF Job, JobInv, CatalogInv
    <2>4. JobInv([j EXCEPT !.unparsed = @ \ {p}, !.byId = c])
      BY <1>2, <2>3 DEF Job, JobInv, CatalogInv, StageInv, ReadingInv, PendingInv, Undecided
    <2> QED
      BY <1>6, <2>2, <2>4, ProceedSafe DEF Proceed
  <1> QED
    BY <1>1, <1>3, <1>4, <1>5, <1>6 DEF Parse

LEMMA LoadSafe ==
  ASSUME OneAtATime, TypeInv, IInv, NEW r \in Refresher, Load(r), UNCHANGED filesVars
  PROVE  IInv'
  <1>1. PICK j : j = job[r]
    OBVIOUS
  <1>2. JobInv(j) /\ j \in Job /\ j.pc = "load"
    BY <1>1, ThisJobOK DEF IInv, Load
  <1>3. j.pend = <<>> /\ j.pendFp = <<>>
    BY <1>2 DEF JobInv, StageInv
  <1>4. JobInv([j EXCEPT !.pc = "next", !.loaded = sess,
                         !.todo = {s \in Session : j.byId[s] # None}])
    BY <1>2, <1>3 DEF Job, JobInv, CatalogInv, StageInv, ReadingInv, PendingInv,
                      Undecided, InBatch
  <1> QED
    BY <1>1, <1>4, ReturnSafe, ProceedSafe DEF Load, Proceed

LEMMA VisitSafe ==
  ASSUME OneAtATime, NoSharedPath, TypeInv, IInv, NEW r \in Refresher,
         Visit(r), UNCHANGED filesVars
  PROVE  IInv'
  <1>1. PICK j : j = job[r]
    OBVIOUS
  <1>2. JobInv(j) /\ j \in Job /\ j.pc = "next"
    BY <1>1, ThisJobOK DEF IInv, Visit
  <1>3. CASE Return(r, "error")
    BY <1>3, ReturnSafe
  <1>4. CASE j.todo = {} /\ Proceed(r, [j EXCEPT !.pc = "flushLast"])
    <2>1. JobInv([j EXCEPT !.pc = "flushLast"])
      BY <1>2, <1>4 DEF Job, JobInv, CatalogInv, StageInv, ReadingInv, PendingInv, Undecided
    <2> QED
      BY <1>4, <2>1, ProceedSafe DEF Proceed
  <1>5. ASSUME NEW s \in j.todo, NEW v, v = [j EXCEPT !.todo = @ \ {s}]
        PROVE  /\ JobInv(v)
               /\ JobInv([v EXCEPT !.soft = TRUE])
               /\ Exists(j.byId[s]) =>
                    JobInv([v EXCEPT !.pc = "hash", !.cur = s,
                                     !.stat = Fingerprint(j.byId[s])])
    <2>1. s \in Session /\ j.byId[s] # None
      BY <1>1, <1>2, ThisJobOK DEF JobOK, Job
    <2>2. /\ v \in Job /\ v.pc = "next" /\ v.byId = j.byId /\ s \notin v.todo
          /\ JobInv(v) /\ Undecided(v, s)
      BY <1>2, <1>5 DEF Job, JobInv, CatalogInv, StageInv, ReadingInv, PendingInv, Undecided
    <2>3. JobInv([v EXCEPT !.soft = TRUE])
      BY <2>2 DEF Job, JobInv, CatalogInv, StageInv, ReadingInv, PendingInv, Undecided
    <2>4. ASSUME Exists(j.byId[s])
          PROVE  JobInv([v EXCEPT !.pc = "hash", !.cur = s,
                                  !.stat = Fingerprint(j.byId[s])])
      <3>1. PICK st : st = Fingerprint(j.byId[s])
        OBVIOUS
      <3>2. st.size <= high[j.byId[s]][s]
        <4>1. PICK p : p = j.byId[s]
          OBVIOUS
        <4>2. fs[p] \in File /\ high[p][s] = fs[p].len
          BY <1>1, <2>1, <2>4, <4>1, OwnFile
        <4> QED
          BY <3>1, <4>1, <4>2, FileAssumption DEF Fingerprint, File
      <3>3. PICK w : w = [v EXCEPT !.pc = "hash", !.cur = s, !.stat = st]
        OBVIOUS
      <3>4. /\ w.pc = "hash" /\ w.cur = s /\ w.stat = st /\ w.byId = v.byId
            /\ w.todo = v.todo /\ w.loaded = v.loaded
            /\ w.pend = v.pend /\ w.pendFp = v.pendFp
        BY <2>2, <3>3 DEF Job
      <3>5. JobInv(w)
        BY <2>2, <3>2, <3>4
        DEF JobInv, CatalogInv, StageInv, ReadingInv, PendingInv, Undecided
      <3> QED
        BY <3>1, <3>3, <3>5
    <2> QED
      BY <2>2, <2>3, <2>4
  <1> QED
    BY <1>1, <1>3, <1>4, <1>5, ProceedSafe DEF Visit, Proceed

LEMMA ReadFailsSafe ==
  ASSUME OneAtATime, TypeInv, IInv, NEW r \in Refresher,
         job[r].pc \in {"hash", "decode"}, ReadFails(r), UNCHANGED filesVars
  PROVE  IInv'
  <1>1. PICK j : j = job[r]
    OBVIOUS
  <1>2. JobInv(j) /\ j \in Job
    BY <1>1, ThisJobOK DEF IInv
  <1>3. JobInv([j EXCEPT !.pc = "next", !.soft = TRUE,
                         !.cur = None, !.stat = None, !.hash = None])
    BY <1>2 DEF Job, JobInv, CatalogInv, StageInv, ReadingInv, PendingInv, Undecided
  <1> QED
    BY <1>1, <1>3, ProceedSafe DEF ReadFails

\* What a batch says of other sessions, an appended entry does not change.
LEMMA InBatchAppend ==
  ASSUME NEW S, NEW batch \in Seq(S), NEW e, NEW s
  PROVE  InBatch(Append(batch, e), s) <=> InBatch(batch, s) \/ e.id = s
  <1>1. DOMAIN Append(batch, e) = 1..(Len(batch) + 1) /\ DOMAIN batch = 1..Len(batch)
    OBVIOUS
  <1>2. /\ \A k \in 1..Len(batch) : Append(batch, e)[k] = batch[k]
        /\ Append(batch, e)[Len(batch) + 1] = e /\ Len(batch) \in Nat
    OBVIOUS
  <1> QED
    BY <1>1, <1>2 DEF InBatch

LEMMA AppendCases ==
  ASSUME NEW S, NEW batch \in Seq(S), NEW e, NEW k \in DOMAIN Append(batch, e)
  PROVE  \/ k \in DOMAIN batch /\ Append(batch, e)[k] = batch[k]
         \/ Append(batch, e)[k] = e
  OBVIOUS

LEMMA AppendPendFpSafe ==
  ASSUME NEW j \in Job, JobInv(j), j.pc = "hash", j.cur \in Session, NEW e,
         e.id = j.cur, FingerprintOf(e, sess[j.cur])
  PROVE  JobInv([Settled(j, AfterAppend(j.pendFp, "flushFp")) EXCEPT !.pendFp = Append(@, e)])
  <1>1. PICK b : b = Append(j.pendFp, e)
    OBVIOUS
  <1>2. PICK a \in {"flushFp", "next"} : a = AfterAppend(j.pendFp, "flushFp")
    BY DEF AfterAppend
  <1>3. PICK w : w = [j EXCEPT !.pc = a, !.cur = None, !.stat = None, !.hash = None,
                               !.pendFp = b]
    OBVIOUS
  <1>4. /\ w.pc = a /\ w.byId = j.byId /\ w.todo = j.todo /\ w.loaded = j.loaded
        /\ w.pend = j.pend /\ w.pendFp = b /\ j.pendFp \in Seq(RowEntry)
    BY <1>3 DEF Job
  <1>5. /\ j.cur \notin j.todo /\ ~InBatch(j.pend, j.cur)
        /\ \A s \in j.todo : Undecided(j, s)
    BY DEF JobInv, ReadingInv, PendingInv, Undecided
  <1>6. \A s \in j.todo : Undecided(w, s)
    BY <1>1, <1>4, <1>5, InBatchAppend DEF Undecided
  <1>7. ASSUME NEW k \in DOMAIN b
        PROVE  FingerprintOf(b[k], sess[b[k].id]) /\ ~InBatch(j.pend, b[k].id)
    <2>1. \/ k \in DOMAIN j.pendFp /\ b[k] = j.pendFp[k]
          \/ b[k] = e
      BY <1>1, <1>4, AppendCases
    <2> QED
      BY <1>5, <2>1 DEF JobInv, PendingInv
  <1>8. JobInv(w)
    BY <1>4, <1>6, <1>7 DEF JobInv, CatalogInv, StageInv, ReadingInv, PendingInv
  <1> QED
    BY <1>1, <1>2, <1>3, <1>8 DEF Settled

LEMMA AppendPendSafe ==
  ASSUME NEW j \in Job, JobInv(j), j.pc = "decode", j.cur \in Session, NEW e,
         e.id = j.cur, Chain(e.id, e.row, e.doc)
  PROVE  JobInv([Settled(j, AfterAppend(j.pend, "flush")) EXCEPT !.pend = Append(@, e)])
  <1>1. PICK b : b = Append(j.pend, e)
    OBVIOUS
  <1>2. PICK a \in {"flush", "next"} : a = AfterAppend(j.pend, "flush")
    BY DEF AfterAppend
  <1>3. PICK w : w = [j EXCEPT !.pc = a, !.cur = None, !.stat = None, !.hash = None,
                               !.pend = b]
    OBVIOUS
  <1>4. /\ w.pc = a /\ w.byId = j.byId /\ w.todo = j.todo /\ w.loaded = j.loaded
        /\ w.pend = b /\ w.pendFp = j.pendFp /\ j.pend \in Seq(Entry)
    BY <1>3 DEF Job
  <1>5. /\ j.cur \notin j.todo /\ ~InBatch(j.pendFp, j.cur)
        /\ \A s \in j.todo : Undecided(j, s)
    BY DEF JobInv, ReadingInv, PendingInv, Undecided
  <1>6. \A s \in j.todo : Undecided(w, s)
    BY <1>1, <1>4, <1>5, InBatchAppend DEF Undecided
  <1>7. ASSUME NEW k \in DOMAIN b
        PROVE  Chain(b[k].id, b[k].row, b[k].doc)
    <2>1. \/ k \in DOMAIN j.pend /\ b[k] = j.pend[k]
          \/ b[k] = e
      BY <1>1, <1>4, AppendCases
    <2> QED
      BY <2>1 DEF JobInv, PendingInv
  <1>8. ASSUME NEW k \in DOMAIN j.pendFp
        PROVE  ~InBatch(b, j.pendFp[k].id)
    <2>1. j.pendFp[k].id # e.id /\ ~InBatch(j.pend, j.pendFp[k].id)
      BY <1>5 DEF InBatch, JobInv, PendingInv
    <2> QED
      BY <1>1, <1>4, <2>1, InBatchAppend
  <1>9. JobInv(w)
    BY <1>4, <1>6, <1>7, <1>8 DEF JobInv, CatalogInv, StageInv, ReadingInv, PendingInv
  <1> QED
    BY <1>1, <1>2, <1>3, <1>9 DEF Settled

LEMMA HashSafe ==
  ASSUME OneAtATime, NoSharedPath, TypeInv, IInv, NEW r \in Refresher,
         Hash(r), UNCHANGED filesVars
  PROVE  IInv'
  <1>1. PICK j : j = job[r]
    OBVIOUS
  <1>2. JobInv(j) /\ j \in Job /\ j.pc = "hash"
    BY <1>1, ThisJobOK DEF IInv, Hash
  <1>3. PICK p : p = j.byId[j.cur]
    OBVIOUS
  <1>4. j.cur \in Session /\ p # None /\ j.stat \in [size : 0..MaxLen, mtime : MTime]
    BY <1>1, <1>2, <1>3, ThisJobOK DEF JobOK, Job
  <1>5. CASE ReadFails(r)
    BY <1>1, <1>2, <1>5, ReadFailsSafe
  <1>6. CASE Proceed(r, Settled(j, "next"))
    <2>1. JobInv(Settled(j, "next"))
      BY <1>2 DEF Settled, Job, JobInv, CatalogInv, StageInv, ReadingInv, PendingInv, Undecided
    <2> QED
      BY <1>6, <2>1, ProceedSafe DEF Proceed
  <1>7. ASSUME Exists(p)
        PROVE  /\ Bytes(p).sid = j.cur
               /\ j.stat.size <= Bytes(p).len /\ Bytes(p).len <= high[p][j.cur]
    <2>1. fs[p] \in File /\ fs[p].sid = j.cur /\ high[p][j.cur] = fs[p].len
      BY <1>1, <1>3, <1>4, <1>7, OwnFile
    <2>2. j.stat.size <= high[p][j.cur]
      BY <1>2, <1>3 DEF JobInv, ReadingInv
    <2>3. fs[p].len \in Nat
      BY <2>1, FileAssumption DEF File
    <2> QED
      BY <2>1, <2>2, <2>3 DEF Bytes
  <1>8. ASSUME Exists(p), SameBytes(j, Bytes(p)),
               Proceed(r, [Settled(j, AfterAppend(j.pendFp, "flushFp")) EXCEPT
                     !.pendFp = Append(@, [id |-> j.cur,
                                           row |-> RowOf(p, Bytes(p), j.stat)])])
        PROVE  IInv'
    <2>1. PICK e : e = [id |-> j.cur, row |-> RowOf(p, Bytes(p), j.stat)]
      OBVIOUS
    <2>2. j.loaded[j.cur] = sess[j.cur]
      BY <1>2 DEF JobInv, ReadingInv, Undecided
    <2>3. e.id = j.cur /\ FingerprintOf(e, sess[j.cur])
      BY <1>3, <1>7, <1>8, <2>1, <2>2 DEF SameBytes, FingerprintOf, RowOf
    <2> QED
      BY <1>2, <1>4, <1>8, <2>1, <2>3, AppendPendFpSafe, ProceedSafe DEF Proceed
  <1>9. ASSUME Exists(p), Proceed(r, [j EXCEPT !.pc = "decode", !.hash = Bytes(p)])
        PROVE  IInv'
    <2>1. PICK h : h = Bytes(p)
      OBVIOUS
    <2>2. PICK w : w = [j EXCEPT !.pc = "decode", !.hash = h]
      OBVIOUS
    <2>3. /\ w.pc = "decode" /\ w.cur = j.cur /\ w.stat = j.stat /\ w.hash = h
          /\ w.byId = j.byId /\ w.todo = j.todo /\ w.loaded = j.loaded
          /\ w.pend = j.pend /\ w.pendFp = j.pendFp
      BY <1>2, <2>2 DEF Job
    <2>4. JobInv(w)
      BY <1>2, <1>3, <1>7, <1>9, <2>1, <2>3
      DEF JobInv, CatalogInv, StageInv, ReadingInv, PendingInv, Undecided
    <2> QED
      BY <1>9, <2>1, <2>2, <2>4, ProceedSafe DEF Proceed
  <1> QED
    BY <1>1, <1>3, <1>5, <1>6, <1>8, <1>9 DEF Hash

LEMMA DecodeSafe ==
  ASSUME OneAtATime, NoSharedPath, TypeInv, IInv, NEW r \in Refresher,
         Decode(r), UNCHANGED filesVars
  PROVE  IInv'
  <1>1. PICK j : j = job[r]
    OBVIOUS
  <1>2. JobInv(j) /\ j \in Job /\ j.pc = "decode"
    BY <1>1, ThisJobOK DEF IInv, Decode
  <1>3. PICK p : p = j.byId[j.cur]
    OBVIOUS
  <1>4. j.cur \in Session /\ p # None
    BY <1>1, <1>2, <1>3, ThisJobOK DEF JobOK, Job
  <1>5. CASE ReadFails(r)
    BY <1>1, <1>2, <1>5, ReadFailsSafe
  <1>6. ASSUME Exists(p),
               Proceed(r, [Settled(j, AfterAppend(j.pend, "flush")) EXCEPT
                 !.pend = Append(@, [id |-> j.cur, row |-> RowOf(p, j.hash, j.stat),
                                     doc |-> Bytes(p)])])
        PROVE  IInv'
    <2>1. PICK e : e = [id |-> j.cur, row |-> RowOf(p, j.hash, j.stat), doc |-> Bytes(p)]
      OBVIOUS
    <2>2. j.cur \in MayHold[p] /\ fs[p].sid = j.cur /\ high[p][j.cur] = fs[p].len
          /\ fs[p].len \in Nat
      <3>1. p = job[r].byId[j.cur]
        BY <1>1, <1>3
      <3>2. fs[p] \in File /\ j.cur \in MayHold[p] /\ fs[p].sid = j.cur
            /\ high[p][j.cur] = fs[p].len
        BY <1>4, <1>6, <3>1, OwnFile
      <3>3. fs[p].len \in Nat
        BY <3>2, FileAssumption DEF File
      <3> QED
        BY <3>2, <3>3
    <2>3. j.hash.sid = j.cur /\ j.stat.size <= j.hash.len /\ j.hash.len <= high[p][j.cur]
      BY <1>2, <1>3 DEF JobInv, ReadingInv
    <2>4. e.id = j.cur /\ Chain(e.id, e.row, e.doc)
      BY <2>1, <2>2, <2>3 DEF Chain, RowOf, Bytes
    <2> QED
      BY <1>2, <1>4, <1>6, <2>1, <2>4, AppendPendSafe, ProceedSafe DEF Proceed
  <1> QED
    BY <1>1, <1>3, <1>5, <1>6 DEF Decode

LEMMA FlushSafe ==
  ASSUME OneAtATime, TypeInv, IInv, NEW r \in Refresher, Flush(r), UNCHANGED filesVars
  PROVE  IInv'
  <1>1. PICK j : j = job[r]
    OBVIOUS
  <1>2. JobInv(j) /\ j \in Job /\ j.pc \in {"flush", "flushLast"}
    BY <1>1, ThisJobOK DEF IInv, Flush
  <1>3. PICK after : after = IF j.pc = "flush" THEN "next" ELSE "flushFpLast"
    OBVIOUS
  <1>4. CASE Return(r, "error")
    BY <1>4, ReturnSafe
  <1>5. CASE Proceed(r, [j EXCEPT !.pc = after])
    <2>1. JobInv([j EXCEPT !.pc = after])
      BY <1>2, <1>3 DEF Job, JobInv, CatalogInv, StageInv, ReadingInv, PendingInv, Undecided
    <2> QED
      BY <1>5, <2>1, ProceedSafe DEF Proceed
  <1>6. CASE /\ ReplaceSessions(j.pend)
             /\ Become(r, [j EXCEPT !.pc = after, !.pend = <<>>])
    <2>1. FilesInv' /\ high' = high
      BY DEF IInv, FilesInv, Exists, filesVars
    <2>2. StoreInv'
      <3>1. ASSUME NEW s \in Session, InBatch(j.pend, s)
            PROVE  docs'[s] # NoDoc /\ Chain(s, sess'[s], docs'[s])
        <4>1. PICK k \in DOMAIN j.pend :
                /\ EntryFor(j.pend, s) = j.pend[k] /\ j.pend[k] \in Entry
                /\ j.pend[k].id = s
          BY <1>2, <3>1, EntryForInBatch DEF Job
        <4>2. sess'[s] = j.pend[k].row /\ docs'[s] = j.pend[k].doc
          BY <1>6, <3>1, <4>1 DEF ReplaceSessions, RowsAfter
        <4>3. docs'[s] # NoDoc
          BY <4>1, <4>2, AbsentAssumption DEF Entry
        <4>4. Chain(s, j.pend[k].row, j.pend[k].doc)
          BY <1>2, <4>1 DEF JobInv, PendingInv
        <4> QED
          BY <4>2, <4>3, <4>4
      <3>2. ASSUME NEW s \in Session, ~InBatch(j.pend, s)
            PROVE  sess'[s] = sess[s] /\ docs'[s] = docs[s]
        BY <1>6, <3>2 DEF ReplaceSessions, RowsAfter
      <3> QED
        BY <2>1, <3>1, <3>2 DEF IInv, StoreInv, Chain
    <2>3. ASSUME NEW s \in Session, ~InBatch(j.pend, s)
          PROVE  sess'[s] = sess[s]
      BY <1>6, <2>3 DEF ReplaceSessions, RowsAfter
    <2>4. PICK w : w = [j EXCEPT !.pc = after, !.pend = <<>>]
      OBVIOUS
    <2>5. /\ w.pc = after /\ w.byId = j.byId /\ w.todo = j.todo /\ w.pend = <<>>
          /\ w.loaded = j.loaded /\ w.pendFp = j.pendFp
          /\ j.todo \subseteq Session /\ j.pendFp \in Seq(RowEntry)
      BY <1>2, <2>4 DEF Job
    <2>6. \A s \in j.todo : Undecided(w, s)'
      BY <1>2, <2>3, <2>5 DEF JobInv, PendingInv, Undecided, InBatch
    <2>7. ASSUME NEW k \in DOMAIN j.pendFp
          PROVE  FingerprintOf(j.pendFp[k], sess[j.pendFp[k].id])' /\ ~InBatch(<<>>, j.pendFp[k].id)
      <3>1. j.pendFp[k] \in RowEntry
        BY <2>5
      <3>2. /\ j.pendFp[k].id \in Session /\ ~InBatch(j.pend, j.pendFp[k].id)
            /\ FingerprintOf(j.pendFp[k], sess[j.pendFp[k].id])
        BY <1>2, <3>1 DEF RowEntry, JobInv, PendingInv
      <3> QED
        BY <2>3, <3>2 DEF FingerprintOf, InBatch
    <2>8. JobInv(w)'
      BY <1>2, <1>3, <2>1, <2>5, <2>6, <2>7
      DEF JobInv, CatalogInv, StageInv, ReadingInv, PendingInv
    <2> QED
      BY <1>6, <2>1, <2>2, <2>4, <2>8, BecomeSafe
  <1> QED
    BY <1>1, <1>3, <1>4, <1>5, <1>6 DEF Flush

LEMMA FlushFpSafe ==
  ASSUME OneAtATime, TypeInv, IInv, NEW r \in Refresher, FlushFp(r), UNCHANGED filesVars
  PROVE  IInv'
  <1>1. PICK j : j = job[r]
    OBVIOUS
  <1>2. JobInv(j) /\ j \in Job /\ j.pc \in {"flushFp", "flushFpLast"}
    BY <1>1, ThisJobOK DEF IInv, FlushFp
  <1>3. PICK after :
          after = IF j.pc = "flushFp" THEN [j EXCEPT !.pc = "next"]
                  ELSE [j EXCEPT !.pc = "stale",
                                 !.gone = {s \in Session : j.loaded[s] # NoRow}]
    OBVIOUS
  <1>4. /\ after.pc = IF j.pc = "flushFp" THEN "next" ELSE "stale"
        /\ after.byId = j.byId /\ after.todo = j.todo /\ after.loaded = j.loaded
        /\ after.pend = j.pend /\ after.pendFp = j.pendFp /\ after \in Job
    BY <1>2, <1>3, ZenonT(30) DEF Job, Stage
  <1>5. CASE Return(r, "error")
    BY <1>5, ReturnSafe
  <1>6. CASE j.pendFp = <<>> /\ Proceed(r, after)
    <2>1. JobInv(after)
      BY <1>2, <1>4, <1>6
      DEF JobInv, CatalogInv, StageInv, ReadingInv, PendingInv, Undecided
    <2> QED
      BY <1>6, <2>1, ProceedSafe DEF Proceed
  <1>7. CASE /\ UpsertSessions(j.pendFp)
             /\ Become(r, [after EXCEPT !.pendFp = <<>>])
    <2>1. FilesInv' /\ high' = high /\ docs' = docs
      BY <1>7 DEF IInv, FilesInv, Exists, filesVars, UpsertSessions
    <2>2. ASSUME NEW s \in Session, ~InBatch(j.pendFp, s)
          PROVE  sess'[s] = sess[s]
      BY <1>7, <2>2 DEF UpsertSessions, RowsAfter
    <2>3. StoreInv'
      <3>1. ASSUME NEW s \in Session, InBatch(j.pendFp, s)
            PROVE  docs[s] # NoDoc /\ Chain(s, sess'[s], docs[s])
        <4>1. PICK k \in DOMAIN j.pendFp :
                EntryFor(j.pendFp, s) = j.pendFp[k] /\ j.pendFp[k].id = s
          BY <1>2, <3>1, EntryForInBatch DEF Job
        <4>2. sess'[s] = j.pendFp[k].row
          BY <1>7, <3>1, <4>1 DEF UpsertSessions, RowsAfter
        <4>3. FingerprintOf(j.pendFp[k], sess[s])
          BY <1>2, <4>1 DEF JobInv, PendingInv
        <4>4. docs[s] # NoDoc /\ Chain(s, sess[s], docs[s])
          BY <4>3 DEF IInv, StoreInv, FingerprintOf
        <4> QED
          BY <4>2, <4>3, <4>4 DEF Chain, FingerprintOf
      <3> QED
        BY <2>1, <2>2, <3>1 DEF IInv, StoreInv, Chain
    <2>4. PICK w : w = [after EXCEPT !.pendFp = <<>>]
      OBVIOUS
    <2>5. /\ w.pc = after.pc /\ w.byId = j.byId /\ w.todo = j.todo /\ w.pend = j.pend
          /\ w.loaded = j.loaded /\ w.pendFp = <<>> /\ j.todo \subseteq Session
      BY <1>2, <1>4, <2>4 DEF Job
    <2>6. \A s \in j.todo : Undecided(w, s)'
      BY <1>2, <2>2, <2>5 DEF JobInv, PendingInv, Undecided, InBatch
    <2>7. JobInv(w)'
      BY <1>2, <1>4, <2>1, <2>5, <2>6
      DEF JobInv, CatalogInv, StageInv, ReadingInv, PendingInv, Chain
    <2> QED
      BY <1>7, <2>1, <2>3, <2>4, <2>7, BecomeSafe
  <1> QED
    BY <1>1, <1>3, <1>5, <1>6, <1>7 DEF FlushFp

LEMMA StaleSafe ==
  ASSUME OneAtATime, TypeInv, IInv, NEW r \in Refresher, Stale(r), UNCHANGED filesVars
  PROVE  IInv'
  <1>1. PICK j : j = job[r]
    OBVIOUS
  <1>2. /\ JobInv(j) /\ j \in Job /\ j.pc = "stale"
        /\ j.todo = {} /\ j.pendFp = <<>>
    BY <1>1, ThisJobOK DEF IInv, Stale, JobInv, StageInv
  <1>3. ASSUME NEW s \in j.gone, Become(r, [j EXCEPT !.gone = @ \ {s}]),
               DeleteSession(s) \/ UNCHANGED storeVars
        PROVE  IInv'
    <2>1. FilesInv' /\ high' = high
      BY DEF IInv, FilesInv, Exists, filesVars
    <2>2. StoreInv'
      <3>1. \A t \in Session :
              sess'[t] # NoRow => sess'[t] = sess[t] /\ docs'[t] = docs[t]
        BY <1>3 DEF DeleteSession, storeVars, TypeInv, StoreOK
      <3> QED
        BY <2>1, <3>1 DEF IInv, StoreInv, Chain
    <2>3. PICK w : w = [j EXCEPT !.gone = @ \ {s}]
      OBVIOUS
    <2>4. /\ w.pc = "stale" /\ w.byId = j.byId /\ w.todo = {} /\ w.pend = j.pend
          /\ w.pendFp = <<>>
      BY <1>2, <2>3 DEF Job
    <2>5. JobInv(w)'
      BY <1>2, <2>1, <2>4
      DEF JobInv, CatalogInv, StageInv, ReadingInv, PendingInv, Chain
    <2> QED
      BY <1>3, <2>1, <2>2, <2>3, <2>5, BecomeSafe
  <1> QED
    BY <1>1, <1>3, ReturnSafe DEF Stale

LEMMA StartSafe ==
  ASSUME OneAtATime, TypeInv, IInv, NEW r \in Refresher, Start(r)
  PROVE  IInv'
  <1>1. ASSUME NEW full PROVE JobInv([IdleJob("none") EXCEPT !.pc = "walkActive", !.full = full])
    BY DEF IdleJob, JobInv, CatalogInv, StageInv, ReadingInv, PendingInv
  <1> QED
    BY <1>1, ProceedSafe DEF Start

LEMMA FaultSafe ==
  ASSUME OneAtATime, TypeInv, IInv, NEW r \in Refresher, Fault(r)
  PROVE  IInv'
  <1>1. CASE Cancel(r)
    <2>1. PICK j : j = job[r]
      OBVIOUS
    <2>2. JobInv([j EXCEPT !.cancelled = TRUE])
      BY <2>1, ThisJobOK
      DEF IInv, Job, JobInv, CatalogInv, StageInv, ReadingInv, PendingInv, Undecided
    <2> QED
      BY <1>1, <2>1, <2>2, ProceedSafe DEF Cancel, Fault
  <1> QED
    BY <1>1, ReturnSafe, CutWalkSafe DEF Fault, IoError, Crash, DirectoryVanishes

\* Files only grow under a run: what it has read stays a prefix of them.
LEMMA CodexSafe ==
  ASSUME OneAtATime, TypeInv, IInv, Codex
  PROVE  IInv'
  <1>1. FilesInv' /\ Grows
    BY FilesSafe DEF Codex, TypeInv, IInv
  <1>2. /\ high \in [Path -> [Session -> 0..MaxLen]] /\ high' \in [Path -> [Session -> 0..MaxLen]]
        /\ MaxLen \in Nat /\ UNCHANGED <<sess, docs, job>>
    BY FilesStep, FileAssumption DEF Codex, TypeInv, FilesTypeOK, storeVars
  <1>3. ASSUME NEW s \in Session, NEW p \in Path, NEW n \in Nat, n <= high[p][s]
        PROVE  n <= high'[p][s]
    BY <1>1, <1>2, <1>3 DEF Grows
  <1>4. ASSUME NEW s \in Session, NEW row \in Row, NEW doc \in Content, Chain(s, row, doc)
        PROVE  Chain(s, row, doc)'
    BY <1>2, <1>3, <1>4 DEF Chain, Row, Content
  <1>5. StoreInv'
    BY <1>2, <1>4 DEF IInv, StoreInv, TypeInv, StoreOK
  <1>6. ASSUME NEW r \in Refresher PROVE JobInv(job[r])'
    <2>1. PICK j : j = job[r]
      OBVIOUS
    <2>2. JobOK(j) /\ j \in Job /\ JobInv(j) /\ job'[r] = j
      BY <1>2, <2>1, ThisJobOK DEF IInv
    <2>3. ReadingInv(j)'
      <3>1. CASE j.pc \in {"hash", "decode"}
        <4>1. /\ j.cur \in Session /\ j.byId[j.cur] \in Path /\ j.stat.size \in Nat
              /\ j.pc = "decode" => j.hash.len \in Nat
          BY <1>2, <2>2, <3>1 DEF JobOK, Job, Content
        <4> QED
          BY <1>2, <1>3, <2>2, <4>1 DEF JobInv, ReadingInv, Undecided
      <3>2. CASE j.pc \notin {"hash", "decode"}
        BY <3>2 DEF ReadingInv
      <3> QED
        BY <3>1, <3>2
    <2>4. PendingInv(j)'
      <3>1. ASSUME NEW k \in DOMAIN j.pend
            PROVE  Chain(j.pend[k].id, j.pend[k].row, j.pend[k].doc)'
        <4>1. j.pend[k] \in Entry
          BY <2>2 DEF Job
        <4>2. /\ j.pend[k].id \in Session /\ j.pend[k].row \in Row /\ j.pend[k].doc \in Content
              /\ Chain(j.pend[k].id, j.pend[k].row, j.pend[k].doc)
          BY <2>2, <4>1 DEF Entry, JobInv, PendingInv
        <4> QED
          BY <1>4, <4>2
      <3> QED
        BY <1>2, <2>2, <3>1 DEF JobInv, PendingInv, Undecided, FingerprintOf
    <2> QED
      BY <2>1, <2>2, <2>3, <2>4 DEF JobInv, CatalogInv, StageInv
  <1> QED
    BY <1>1, <1>5, <1>6 DEF IInv

LEMMA StepSafe ==
  ASSUME OneAtATime, NoSharedPath
  PROVE  TypeInv /\ IInv /\ [Next]_vars => IInv'
  <1> SUFFICES ASSUME TypeInv, IInv, [Next]_vars PROVE IInv'
    OBVIOUS
  <1>1. CASE UNCHANGED vars
    <2>1. /\ UNCHANGED <<fs, high, sess, docs, job>>
      BY <1>1 DEF vars, filesVars, storeVars
    <2>2. FilesInv' /\ StoreInv'
      BY <2>1 DEF IInv, FilesInv, Exists, StoreInv, Chain
    <2>3. ASSUME NEW r \in Refresher PROVE JobInv(job[r])'
      <3>1. PICK j : j = job[r]
        OBVIOUS
      <3> QED
        BY <2>1, <3>1, JobInvFrame DEF IInv
    <2> QED
      BY <2>2, <2>3 DEF IInv
  <1>2. ASSUME NEW r \in Refresher, Work(r) PROVE IInv'
    <2>1. UNCHANGED filesVars
      BY <1>2 DEF Work
    <2> QED
      BY <1>2, <2>1, WalkSafe, ParseSafe, LoadSafe, VisitSafe, HashSafe, DecodeSafe,
         FlushSafe, FlushFpSafe, StaleSafe DEF Work
  <1> QED
    BY <1>1, <1>2, StartSafe, FaultSafe, CodexSafe DEF Next

-----------------------------------------------------------------------------
(* What the invariant says of the index. *)

\* Between a file and its row nothing is hidden.
LEMMA SkipsAreSafe ==
  ASSUME TypeInv, IInv
  PROVE  FastPathSound /\ HashSkipSound
  <1> SUFFICES ASSUME NEW s \in Session, NEW row \in Row, row = sess[s],
                      Holds(row.path, s),
                      row.size = fs[row.path].len \/ row.hash = Bytes(row.path)
               PROVE  docs[s] = Bytes(row.path)
    BY AbsentAssumption DEF TypeInv, StoreOK, FastPathSound, HashSkipSound, Row
  <1>1. PICK p \in Path : p = row.path
    BY DEF Row
  <1>2. /\ fs[p] \in File /\ fs[p].sid = s /\ high[p][s] = fs[p].len
    BY <1>1 DEF Holds, Exists, TypeInv, FilesTypeOK, IInv, FilesInv
  <1>3. sess[s] # NoRow
    BY AbsentAssumption DEF Row
  <1>4. docs[s] \in Content /\ Chain(s, row, docs[s])
    BY <1>3 DEF IInv, StoreInv, TypeInv, StoreOK
  <1>5. PICK d \in Content : d = docs[s]
    BY <1>4
  <1>6. d.sid = s /\ row.size <= row.hash.len /\ row.hash.len <= d.len /\ d.len <= fs[p].len
    BY <1>1, <1>2, <1>4, <1>5 DEF Chain
  <1>7. /\ row.size \in Nat /\ row.hash.len \in Nat /\ d.len \in Nat /\ fs[p].len \in Nat
    BY <1>2, FileAssumption DEF Row, Content, File
  <1>8. row.hash.len = fs[p].len \/ row.size = fs[p].len
    BY <1>1 DEF Bytes
  <1>9. d.len = fs[p].len
    BY <1>6, <1>7, <1>8
  <1>10. d = [sid |-> s, len |-> fs[p].len]
    BY <1>6, <1>9 DEF Content
  <1> QED
    BY <1>1, <1>2, <1>5, <1>10 DEF Bytes

LEMMA InvariantHolds ==
  ASSUME OneAtATime, NoSharedPath
  PROVE  Spec => [](TypeInv /\ IInv)
  <1>1. TypeInv /\ IInv /\ [Next]_vars => TypeInv' /\ IInv'
    BY TypeInvStep, StepSafe
  <1>2. Init => TypeInv /\ IInv
    BY TypeInvInit, InitSafe
  <1> QED
    BY <1>1, <1>2, PTL DEF Spec

(***************************************************************************)
(* With one refresh at a time and paths of their own, over any number of   *)
(* sessions, paths and runs, whatever Codex appends, touches, moves or     *)
(* removes between any two of its reads and wherever it crashes: a row     *)
(* whose path, size and mtime are those of its rollout has the messages of *)
(* that rollout.  What the next refresh skips on the fingerprint           *)
(* (indexer.go:192-201) is there.                                          *)
(***************************************************************************)
THEOREM SkipsAreSound ==
  ASSUME OneAtATime, NoSharedPath
  PROVE  Spec => []FastPathSound
  <1>1. TypeInv /\ IInv => FastPathSound
    BY SkipsAreSafe
  <1> QED
    BY <1>1, InvariantHolds, PTL

(***************************************************************************)
(* Under the same assumptions, so is what a refresh with --full-hash, or   *)
(* one after a touch, leaves unread because the hash is the file's         *)
(* (indexer.go:213-232).                                                   *)
(***************************************************************************)
THEOREM HashSkipsAreSound ==
  ASSUME OneAtATime, NoSharedPath
  PROVE  Spec => []HashSkipSound
  <1>1. TypeInv /\ IInv => HashSkipSound
    BY SkipsAreSafe
  <1> QED
    BY <1>1, InvariantHolds, PTL

(***************************************************************************)
(* Under the same assumptions, the content hash is never ahead of the      *)
(* messages (sqlite.go:170-172): those stored with a row are its own       *)
(* session's, and cover at least the content that was hashed.              *)
(***************************************************************************)
THEOREM HashNotAhead ==
  ASSUME OneAtATime, NoSharedPath
  PROVE  Spec => []MessagesCoverHash
  <1>1. IInv => MessagesCoverHash
    BY DEF IInv, StoreInv, Chain, MessagesCoverHash
  <1> QED
    BY <1>1, InvariantHolds, PTL

(***************************************************************************)
(* Under the same assumptions, every row has messages: a fingerprint       *)
(* update, which writes the row alone (UpsertSessions), never creates one, *)
(* although the row it was planned for was read in an earlier step.        *)
(***************************************************************************)
THEOREM NoRowWithoutMessages ==
  ASSUME OneAtATime, NoSharedPath
  PROVE  Spec => []RowsHaveMessages
  <1>1. IInv => RowsHaveMessages
    BY DEF IInv, StoreInv, RowsHaveMessages
  <1> QED
    BY <1>1, InvariantHolds, PTL
=============================================================================
