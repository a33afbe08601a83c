---------------------------- MODULE SqliteProofs ---------------------------
(***************************************************************************)
(* First, why the message table and its lexical twin stay together.        *)
(* Between two statements of a transaction they may differ, and each stage *)
(* says by what: by the ids that have been cleared from one and not yet    *)
(* from the other, or by the one row that has been inserted in one and not *)
(* yet in the other.  When the transaction commits the difference is       *)
(* nothing.                                                                *)
(*                                                                         *)
(* Then, that SqliteIndex implements IndexContract: to whoever reads the   *)
(* committed tables, a transaction of many statements is one atomic write. *)
(* Until it commits a transaction shows nothing: its statements map to     *)
(* stuttering.  So the proof follows what the transaction has done so far  *)
(* of the batch it was given, entry by entry and, within an entry, message *)
(* by message; at the commit that is the whole batch, and what it did is   *)
(* what the contract's action says.                                        *)
(***************************************************************************)
EXTENDS SqliteIndex, SequenceTheorems, TLAPS

\* Every message of these tables belongs to a session of theirs.
Rooted(t) == \A r \in DOMAIN t.msgs : t.sess[t.msgs[r].sid] # NoRow

Difference ==
    /\ call.stage \in {"idle", "upsert", "select", "insMsg", "commit"} =>
         tx.fts = tx.msgs
    /\ call.stage = "clearFts" =>
         /\ call.left \subseteq IdsOf(tx.msgs, Current.id)
         /\ tx.fts = Without(tx.msgs, IdsOf(tx.msgs, Current.id) \ call.left)
    /\ call.stage \in {"clearMsgs", "dropRow"} =>
         tx.fts = Without(tx.msgs, IdsOf(tx.msgs, Current.id))
    /\ call.stage = "insFts" =>
         /\ call.rowid \in DOMAIN tx.msgs
         /\ tx.msgs[call.rowid] = RecordOf(Current.id, Head(call.rest))
         /\ tx.fts = Without(tx.msgs, {call.rowid})

IInv ==
    /\ TypeOK
    /\ LexicalSync /\ Rooted(db)
    /\ Rooted(tx) /\ Difference

-----------------------------------------------------------------------------
(* Tables. *)

LEMMA TableIs ==
  ASSUME NEW t
  PROVE  t \in Table <=> /\ t = [r \in DOMAIN t |-> t[r]]
                         /\ DOMAIN t \subseteq Rowid
                         /\ \A r \in DOMAIN t : t[r] \in Record
  <1>1. t \in Table <=> \E ids \in SUBSET Rowid : t \in [ids -> Record]
    BY DEF Table
  <1> QED
    BY <1>1

LEMMA EmptyTable == <<>> \in Table
  <1>1. <<>> \in [{} -> Record]
    OBVIOUS
  <1> QED
    BY <1>1 DEF Table

LEMMA WithoutTable ==
  ASSUME NEW t \in Table, NEW ids
  PROVE  /\ Without(t, ids) \in Table
         /\ DOMAIN Without(t, ids) = DOMAIN t \ ids
         /\ \A r \in DOMAIN t \ ids : Without(t, ids)[r] = t[r]
  BY TableIs DEF Without

LEMMA WithTable ==
  ASSUME NEW t \in Table, NEW r \in Rowid, NEW rec \in Record
  PROVE  /\ With(t, r, rec) \in Table
         /\ DOMAIN With(t, r, rec) = DOMAIN t \cup {r}
         /\ With(t, r, rec)[r] = rec
         /\ \A q \in DOMAIN t \ {r} : With(t, r, rec)[q] = t[q]
  BY TableIs DEF With

LEMMA SameTable ==
  ASSUME NEW t \in Table, NEW u \in Table, DOMAIN t = DOMAIN u,
         \A r \in DOMAIN t : t[r] = u[r]
  PROVE  t = u
  BY TableIs

LEMMA WithoutNothing ==
  ASSUME NEW t \in Table
  PROVE  Without(t, {}) = t
  BY WithoutTable, SameTable

\* Clearing one more row.
LEMMA WithoutMore ==
  ASSUME NEW t \in Table, NEW ids, NEW more
  PROVE  Without(Without(t, ids), more) = Without(t, ids \cup more)
  <1>1. PICK u \in Table : u = Without(t, ids)
    BY WithoutTable
  <1>2. PICK v \in Table : v = Without(u, more)
    BY WithoutTable
  <1>3. PICK w \in Table : w = Without(t, ids \cup more)
    BY WithoutTable
  <1>4. DOMAIN u = DOMAIN t \ ids /\ \A r \in DOMAIN u : u[r] = t[r]
    BY <1>1 DEF Without
  <1>5. DOMAIN v = DOMAIN u \ more /\ \A r \in DOMAIN v : v[r] = u[r]
    BY <1>2 DEF Without
  <1>6. DOMAIN w = DOMAIN t \ (ids \cup more) /\ \A r \in DOMAIN w : w[r] = t[r]
    BY <1>3 DEF Without
  <1>7. DOMAIN v = DOMAIN w
    BY <1>4, <1>5, <1>6
  <1>8. \A r \in DOMAIN v : v[r] = w[r]
    BY <1>4, <1>5, <1>6
  <1>9. v = w
    BY <1>7, <1>8, SameTable
  <1> QED
    BY <1>1, <1>2, <1>3, <1>9

\* An insertion, undone and done.
LEMMA InsertedRow ==
  ASSUME NEW t \in Table, NEW r \in Rowid \ DOMAIN t, NEW rec \in Record
  PROVE  Without(With(t, r, rec), {r}) = t
  <1>1. PICK u \in Table : u = With(t, r, rec)
    BY WithTable
  <1>2. PICK v \in Table : v = Without(u, {r})
    BY WithoutTable
  <1>3. DOMAIN u = DOMAIN t \cup {r} /\ \A q \in DOMAIN t \ {r} : u[q] = t[q]
    BY <1>1 DEF With
  <1>4. DOMAIN v = DOMAIN u \ {r} /\ \A q \in DOMAIN v : v[q] = u[q]
    BY <1>2 DEF Without
  <1>5. DOMAIN v = DOMAIN t
    BY <1>3, <1>4
  <1>6. \A q \in DOMAIN v : v[q] = t[q]
    BY <1>3, <1>4, <1>5
  <1>7. v = t
    BY <1>5, <1>6, SameTable
  <1> QED
    BY <1>1, <1>2, <1>7

LEMMA RestoredRow ==
  ASSUME NEW t \in Table, NEW r \in DOMAIN t
  PROVE  With(Without(t, {r}), r, t[r]) = t
  <1>1. r \in Rowid /\ t[r] \in Record
    BY TableIs
  <1>2. PICK u \in Table : u = Without(t, {r})
    BY WithoutTable
  <1>3. PICK v \in Table : v = With(u, r, t[r])
    BY <1>1, WithTable
  <1>4. DOMAIN u = DOMAIN t \ {r} /\ \A q \in DOMAIN u : u[q] = t[q]
    BY <1>2 DEF Without
  <1>5. DOMAIN v = DOMAIN u \cup {r} /\ v[r] = t[r] /\ \A q \in DOMAIN u \ {r} : v[q] = u[q]
    BY <1>1, <1>3 DEF With
  <1>6. DOMAIN v = DOMAIN t
    BY <1>4, <1>5
  <1>7. \A q \in DOMAIN v : v[q] = t[q]
    BY <1>4, <1>5, <1>6
  <1>8. v = t
    BY <1>6, <1>7, SameTable
  <1> QED
    BY <1>2, <1>3, <1>8

LEMMA RecordOfType ==
  ASSUME NEW s \in Session, NEW m \in Message
  PROVE  RecordOf(s, m) \in Record /\ RecordOf(s, m).sid = s
  BY DEF RecordOf, Record

-----------------------------------------------------------------------------
(* How a step ends. *)

StageOK(c) ==
    /\ c.stage \notin {"idle", "commit"} => c.todo # <<>>
    /\ c.stage = "insFts" => c.rest # <<>> /\ c.rowid # 0

\* A statement works on the transaction's tables.
LEMMA StatementSafe ==
  ASSUME IInv, db' = db, tx' \in Tables, call' \in Call, StageOK(call'),
         Rooted(tx'), Difference'
  PROVE  IInv'
  <1>1. TypeOK'
    BY DEF IInv, TypeOK, StageOK
  <1>2. LexicalSync' /\ Rooted(db)' /\ Rooted(tx)'
    BY DEF IInv, LexicalSync, Rooted
  <1> QED
    BY <1>1, <1>2 DEF IInv

\* Between two operations the connection sees what is committed.
LEMMA OutsideSafe ==
  ASSUME db' \in Tables, tx' \in Tables, call' \in Call, StageOK(call'),
         db'.fts = db'.msgs, tx'.fts = tx'.msgs, Rooted(db'), Rooted(tx'),
         call'.stage \in {"idle", "upsert", "select", "insMsg", "commit"}
  PROVE  IInv'
  BY DEF IInv, TypeOK, StageOK, LexicalSync, Rooted, Difference

LEMMA IdleType == Idle \in Call /\ StageOK(Idle) /\ Idle.stage = "idle"
  <1>1. <<>> \in Seq(Entry) /\ <<>> \in Seq(Message) /\ 0 \in 0..MaxRowid
    BY RowidAssumption
  <1> QED
    BY <1>1 DEF Idle, Call, Stage, StageOK

LEMMA InitSafe == Init => IInv
  <1> SUFFICES ASSUME Init PROVE IInv
    OBVIOUS
  <1>1. db \in Tables /\ tx = db /\ call = Idle /\ db.fts = db.msgs
    BY EmptyTable DEF Init, Tables
  <1>2. Rooted(db)
    BY DEF Init, Rooted
  <1> QED
    BY <1>1, <1>2, IdleType
    DEF IInv, TypeOK, StageOK, LexicalSync, Difference

LEMMA BatchType ==
  ASSUME NEW batch \in Batches
  PROVE  /\ batch \in Seq(Entry) /\ batch # <<>>
         /\ Head(batch) \in Entry
         /\ Head(batch).id \in Session /\ Head(batch).row \in Row
         /\ Head(batch).msgs \in Seq(Message)
  <1>1. batch \in Seq(Entry) /\ batch # <<>>
    BY BatchesAssumption
  <1>2. Head(batch) \in Entry
    BY <1>1
  <1> QED
    BY <1>1, <1>2 DEF Entry

\* The entry a transaction stands at.
LEMMA CurrentType ==
  ASSUME TypeOK, call.stage \notin {"idle", "commit"}
  PROVE  /\ Current \in Entry /\ Current.id \in Session /\ Current.row \in Row
         /\ Current.msgs \in Seq(Message)
         /\ call.todo \in Seq(Entry) /\ call.todo # <<>>
  <1>1. call.todo \in Seq(Entry) /\ call.todo # <<>>
    BY DEF TypeOK, Call
  <1>2. Current \in Entry
    BY <1>1 DEF Current
  <1> QED
    BY <1>1, <1>2 DEF Entry

LEMMA NextEntryOK ==
  ASSUME NEW c \in Call, c.todo # <<>>
  PROVE  /\ NextEntry(c) \in Call /\ StageOK(NextEntry(c))
         /\ NextEntry(c).stage \in {"upsert", "commit"}
  <1>1. PICK n : n = NextEntry(c)
    OBVIOUS
  <1>2. PICK todo \in Seq(Entry) : todo = c.todo /\ todo # <<>>
    BY DEF Call
  <1>3. /\ Tail(todo) \in Seq(Entry)
        /\ Len(todo) # 1 => Tail(todo) # <<>>
    <2>1. Tail(todo) \in Seq(Entry) /\ Len(Tail(todo)) = Len(todo) - 1
      BY <1>2, HeadTailProperties
    <2>2. Len(todo) \in Nat \ {0} /\ Len(<<>>) = 0
      BY <1>2, EmptySeq
    <2>3. ASSUME Len(todo) # 1 PROVE Len(Tail(todo)) # 0
      <3>1. PICK k \in Nat : k = Len(todo)
        BY <2>2
      <3> QED
        BY <2>1, <2>3, <3>1
    <2>4. Len(todo) # 1 => Tail(todo) # <<>>
      BY <2>2, <2>3
    <2> QED
      BY <2>1, <2>4
  <1>4. /\ n.todo = Tail(c.todo)
        /\ n.stage = IF Len(c.todo) = 1 THEN "commit" ELSE "upsert"
        /\ n \in Call
    BY <1>1, <1>2, <1>3 DEF NextEntry, Call, Stage
  <1> QED
    BY <1>1, <1>2, <1>3, <1>4 DEF StageOK

-----------------------------------------------------------------------------
(* The operations and the ends of a transaction. *)

LEMMA BeginSafe ==
  ASSUME IInv, NEW op \in {"replace", "upsert", "messages", "delete"},
         NEW stage \in {"upsert", "select"}, NEW batch \in Batches,
         Begin(op, stage, batch)
  PROVE  IInv'
  <1>1. PICK c : c = [Idle EXCEPT !.op = op, !.stage = stage, !.todo = batch]
    OBVIOUS
  <1>2. c \in Call /\ StageOK(c) /\ c.stage = stage
    BY <1>1, BatchType, IdleType DEF Idle, Call, Stage, StageOK
  <1>3. db' = db /\ tx' = db /\ call' = c
    BY <1>1 DEF Begin
  <1> QED
    BY <1>2, <1>3, OutsideSafe DEF IInv, TypeOK, LexicalSync

LEMMA UpsertSessionSafe ==
  ASSUME IInv, UpsertSession
  PROVE  IInv'
  <1>1. PICK batch \in Batches : db' = [db EXCEPT !.sess[batch[1].id] = batch[1].row]
    BY DEF UpsertSession
  <1>2. PICK s \in Session, row \in Row : s = batch[1].id /\ row = batch[1].row
    BY BatchType
  <1>3. PICK d : d = [db EXCEPT !.sess[s] = row]
    OBVIOUS
  <1>4. /\ d \in Tables /\ d.msgs = db.msgs /\ d.fts = db.fts
        /\ \A t \in Session : d.sess[t] = IF t = s THEN row ELSE db.sess[t]
    BY <1>3 DEF IInv, TypeOK, Tables
  <1>5. ASSUME NEW r \in DOMAIN d.msgs PROVE d.sess[d.msgs[r].sid] # NoRow
    <2>1. d.msgs[r].sid \in Session
      <3>1. d.msgs \in Table
        BY <1>4 DEF Tables
      <3>2. d.msgs[r] \in Record
        BY <3>1, TableIs
      <3> QED
        BY <3>2 DEF Record
    <2> QED
      BY <1>4, <2>1, RowAssumption DEF IInv, Rooted
  <1>6. db' = d /\ tx' = d /\ call' = call /\ call.stage = "idle"
    BY <1>1, <1>2, <1>3 DEF UpsertSession
  <1> QED
    BY <1>4, <1>5, <1>6, OutsideSafe DEF IInv, TypeOK, StageOK, LexicalSync, Rooted

LEMMA CommitSafe ==
  ASSUME IInv, Commit
  PROVE  IInv'
  <1>1. db' = tx /\ tx' = tx /\ call' = Idle /\ tx.fts = tx.msgs
    BY DEF Commit, IInv, Difference
  <1> QED
    BY <1>1, IdleType, OutsideSafe DEF IInv, TypeOK

LEMMA RollbackSafe ==
  ASSUME IInv, Rollback
  PROVE  IInv'
  <1>1. db' = db /\ tx' = db /\ call' = Idle
    BY DEF Rollback
  <1> QED
    BY <1>1, IdleType, OutsideSafe DEF IInv, TypeOK, LexicalSync

-----------------------------------------------------------------------------
(* The statements. *)

\* A row of a table belongs to a session.
LEMMA RecordSession ==
  ASSUME NEW t \in Table, NEW r \in DOMAIN t
  PROVE  t[r] \in Record /\ t[r].sid \in Session
  <1>1. t[r] \in Record
    BY TableIs
  <1> QED
    BY <1>1 DEF Record

LEMMA TablesType ==
  ASSUME IInv
  PROVE  /\ tx \in Tables /\ call \in Call /\ StageOK(call)
         /\ tx.msgs \in Table /\ tx.fts \in Table
         /\ tx.sess \in [Session -> Row \cup {NoRow}]
  BY DEF IInv, TypeOK, StageOK, Tables

LEMMA UpsertSafe ==
  ASSUME IInv, Upsert
  PROVE  IInv'
  <1>1. PICK s \in Session, row \in Row : s = Current.id /\ row = Current.row
    BY CurrentType DEF IInv, Upsert
  <1>2. PICK t : t = [tx EXCEPT !.sess[s] = row]
    OBVIOUS
  <1>3. /\ t \in Tables /\ t.msgs = tx.msgs /\ t.fts = tx.fts
        /\ \A q \in Session : t.sess[q] = IF q = s THEN row ELSE tx.sess[q]
    BY <1>2, TablesType DEF Tables
  <1>4. Rooted(t)
    BY <1>3, RecordSession, TablesType, RowAssumption DEF IInv, Rooted
  <1>5. db' = db /\ tx' = t /\ t.fts = t.msgs /\ call.todo # <<>>
    BY <1>1, <1>2, <1>3, TablesType DEF Upsert, IInv, Difference, StageOK
  <1>6. CASE call' = [call EXCEPT !.stage = "select"]
    <2>1. call' \in Call /\ call'.stage = "select" /\ StageOK(call')
      BY <1>5, <1>6, TablesType DEF Call, Stage, StageOK
    <2> QED
      BY <1>3, <1>4, <1>5, <2>1, StatementSafe DEF Difference
  <1>7. CASE call' = NextEntry(call)
    <2>1. call' \in Call /\ StageOK(call') /\ call'.stage \in {"upsert", "commit"}
      BY <1>5, <1>7, TablesType, NextEntryOK
    <2> QED
      BY <1>3, <1>4, <1>5, <2>1, StatementSafe DEF Difference
  <1> QED
    BY <1>6, <1>7 DEF Upsert

LEMMA SelectIdsSafe ==
  ASSUME IInv, SelectIds
  PROVE  IInv'
  <1>1. PICK ids : ids = IdsOf(tx.msgs, Current.id)
    OBVIOUS
  <1>2. ids \subseteq Rowid /\ ids \ ids = {}
    BY <1>1, TablesType, TableIs DEF IdsOf
  <1>3. PICK c : c = [call EXCEPT !.stage = "clearFts", !.left = ids]
    OBVIOUS
  <1>4. c \in Call /\ StageOK(c) /\ c.stage = "clearFts" /\ c.left = ids /\ c.todo = call.todo
    BY <1>2, <1>3, TablesType DEF SelectIds, Call, Stage, StageOK
  <1>5. db' = db /\ tx' = tx /\ call' = c /\ Current' = Current
    BY <1>1, <1>3, <1>4 DEF SelectIds, Current
  <1>6. tx.fts = Without(tx.msgs, {})
    BY WithoutNothing, TablesType DEF SelectIds, IInv, Difference
  <1>7. Difference'
    BY <1>1, <1>2, <1>4, <1>5, <1>6 DEF Difference
  <1> QED
    BY <1>4, <1>5, <1>7, TablesType, StatementSafe DEF IInv

LEMMA ClearFtsSafe ==
  ASSUME IInv, ClearFts
  PROVE  IInv'
  <1>1. PICK r \in call.left : /\ tx' = [tx EXCEPT !.fts = Without(@, {r})]
                               /\ call' = [call EXCEPT !.left = @ \ {r}]
    BY DEF ClearFts
  <1>2. PICK ids : ids = IdsOf(tx.msgs, Current.id)
    OBVIOUS
  <1>3. /\ call.stage = "clearFts" /\ call.left \subseteq ids
        /\ tx.fts = Without(tx.msgs, ids \ call.left)
    BY <1>2 DEF ClearFts, IInv, Difference
  <1>4. PICK f \in Table : f = Without(tx.fts, {r})
    BY WithoutTable, TablesType
  <1>5. /\ tx' \in Tables /\ tx'.msgs = tx.msgs /\ tx'.sess = tx.sess /\ tx'.fts = f
    BY <1>1, <1>4, TablesType DEF Tables
  <1>6. /\ call' \in Call /\ StageOK(call') /\ call'.stage = "clearFts"
        /\ call'.left = call.left \ {r} /\ Current' = Current
    BY <1>1, <1>3, TablesType DEF Call, StageOK, Current
  <1>7. f = Without(tx.msgs, (ids \ call.left) \cup {r})
    BY <1>3, <1>4, TablesType, WithoutMore
  <1>8. (ids \ call.left) \cup {r} = ids \ (call.left \ {r})
    BY <1>3
  <1>9. Difference'
    BY <1>2, <1>3, <1>5, <1>6, <1>7, <1>8 DEF Difference
  <1>10. Rooted(tx')
    BY <1>5 DEF IInv, Rooted
  <1> QED
    BY <1>5, <1>6, <1>9, <1>10, StatementSafe DEF ClearFts

LEMMA FtsClearedSafe ==
  ASSUME IInv, FtsCleared
  PROVE  IInv'
  <1>1. PICK ids : ids = IdsOf(tx.msgs, Current.id)
    OBVIOUS
  <1>2. call.stage = "clearFts" /\ ids \ call.left = ids /\ tx.fts = Without(tx.msgs, ids)
    BY <1>1 DEF FtsCleared, IInv, Difference
  <1>3. PICK c : c = call'
    OBVIOUS
  <1>4. c \in Call /\ StageOK(c) /\ c.stage \in {"clearMsgs", "dropRow"} /\ c.todo = call.todo
    BY <1>2, <1>3, TablesType DEF FtsCleared, Call, Stage, StageOK
  <1>5. db' = db /\ tx' = tx /\ Current' = Current
    BY <1>3, <1>4 DEF FtsCleared, Current
  <1>6. Difference'
    BY <1>1, <1>2, <1>3, <1>4, <1>5 DEF Difference
  <1> QED
    BY <1>3, <1>4, <1>5, <1>6, TablesType, StatementSafe DEF IInv

LEMMA ClearMsgsSafe ==
  ASSUME IInv, ClearMsgs
  PROVE  IInv'
  <1>1. PICK m \in Table : m = Without(tx.msgs, IdsOf(tx.msgs, Current.id))
    BY WithoutTable, TablesType
  <1>2. call.stage = "clearMsgs" /\ tx.fts = m
    BY <1>1 DEF ClearMsgs, IInv, Difference
  <1>3. /\ tx' \in Tables /\ tx'.msgs = m /\ tx'.sess = tx.sess /\ tx'.fts = m
    BY <1>1, <1>2, TablesType DEF ClearMsgs, Tables
  <1>4. Rooted(tx')
    BY <1>1, <1>3 DEF IInv, Rooted, Without
  <1>5. Current.msgs \in Seq(Message)
    BY <1>2, CurrentType DEF IInv
  <1>6. call' \in Call /\ StageOK(call') /\ call'.stage = "insMsg"
    BY <1>2, <1>5, TablesType DEF ClearMsgs, Call, Stage, StageOK
  <1> QED
    BY <1>3, <1>4, <1>6, StatementSafe DEF ClearMsgs, Difference

LEMMA DropRowSafe ==
  ASSUME IInv, DropRow
  PROVE  IInv'
  <1>1. PICK s \in Session : s = Current.id
    BY CurrentType DEF IInv, DropRow
  <1>2. PICK m \in Table : m = Without(tx.msgs, IdsOf(tx.msgs, s))
    BY WithoutTable, TablesType
  <1>3. call.stage = "dropRow" /\ tx.fts = m /\ call.todo # <<>>
    BY <1>1, <1>2, TablesType DEF DropRow, IInv, Difference, StageOK
  <1>4. /\ tx' \in Tables /\ tx'.msgs = m /\ tx'.fts = m
        /\ \A q \in Session \ {s} : tx'.sess[q] = tx.sess[q]
    BY <1>1, <1>2, <1>3, TablesType DEF DropRow, Tables
  <1>5. ASSUME NEW r \in DOMAIN m PROVE tx'.sess[m[r].sid] # NoRow
    <2>1. r \in DOMAIN tx.msgs /\ m[r] = tx.msgs[r] /\ m[r].sid # s
      BY <1>2 DEF Without, IdsOf
    <2>2. m[r].sid \in Session
      BY RecordSession
    <2> QED
      BY <1>4, <2>1, <2>2 DEF IInv, Rooted
  <1>6. /\ call' \in Call /\ StageOK(call') /\ call'.stage \in {"upsert", "commit"}
    BY <1>3, TablesType, NextEntryOK DEF DropRow
  <1> QED
    BY <1>4, <1>5, <1>6, StatementSafe DEF DropRow, Difference, Rooted

LEMMA InsertMessageSafe ==
  ASSUME IInv, InsertMessage
  PROVE  IInv'
  <1>1. PICK m : m = Head(call.rest)
    OBVIOUS
  <1>2. /\ m \in Message /\ Current.id \in Session
        /\ call.stage = "insMsg" /\ call.rest # <<>> /\ call.todo # <<>>
    BY <1>1, CurrentType, TablesType DEF InsertMessage, IInv, Call
  <1>3. PICK rec \in Record : rec = RecordOf(Current.id, m) /\ rec.sid = Current.id
    BY <1>2, RecordOfType
  <1>4. PICK r \in Rowid : /\ FreshRowid(tx.msgs, r) /\ tx.sess[rec.sid] # NoRow
                           /\ tx' = [tx EXCEPT !.msgs = With(@, r, rec)]
                           /\ call' = [call EXCEPT !.stage = "insFts", !.rowid = r]
    BY <1>1, <1>3 DEF InsertMessage
  <1>5. r \notin DOMAIN tx.msgs
    BY <1>4 DEF FreshRowid, Rowid
  <1>6. PICK t \in Table : t = With(tx.msgs, r, rec)
    BY WithTable, TablesType
  <1>7. /\ DOMAIN t = DOMAIN tx.msgs \cup {r} /\ t[r] = rec
        /\ \A q \in DOMAIN tx.msgs : t[q] = tx.msgs[q]
    BY <1>5, <1>6 DEF With
  <1>8. /\ tx' \in Tables /\ tx'.msgs = t /\ tx'.sess = tx.sess /\ tx'.fts = tx.fts
    BY <1>4, <1>6, TablesType DEF Tables
  <1>9. Rooted(tx')
    BY <1>4, <1>7, <1>8 DEF IInv, Rooted
  <1>10. /\ call' \in Call /\ StageOK(call') /\ call'.stage = "insFts" /\ call'.rowid = r
         /\ call'.rest = call.rest /\ Current' = Current
    <2>1. r \in 0..MaxRowid /\ r # 0
      BY RowidAssumption DEF Rowid
    <2>2. PICK c : c = [call EXCEPT !.stage = "insFts", !.rowid = r]
      OBVIOUS
    <2>3. /\ c \in Call /\ c.stage = "insFts" /\ c.rowid = r
          /\ c.rest = call.rest /\ c.todo = call.todo
      BY <2>1, <2>2, TablesType DEF Call, Stage
    <2> QED
      BY <1>2, <1>4, <2>1, <2>2, <2>3 DEF StageOK, Current
  <1>11. tx.fts = Without(t, {r})
    BY <1>2, <1>5, <1>6, InsertedRow, TablesType DEF IInv, Difference
  <1>12. Difference'
    BY <1>1, <1>3, <1>7, <1>8, <1>10, <1>11 DEF Difference
  <1> QED
    BY <1>8, <1>9, <1>10, <1>12, StatementSafe DEF InsertMessage

LEMMA InsertFtsSafe ==
  ASSUME IInv, InsertFts
  PROVE  IInv'
  <1>1. PICK r : r = call.rowid
    OBVIOUS
  <1>2. /\ call.stage = "insFts" /\ r \in DOMAIN tx.msgs
        /\ tx.msgs[r] = RecordOf(Current.id, Head(call.rest))
        /\ tx.fts = Without(tx.msgs, {r})
    BY <1>1 DEF InsertFts, IInv, Difference
  <1>3. With(tx.fts, r, tx.msgs[r]) = tx.msgs
    BY <1>2, RestoredRow, TablesType
  <1>4. /\ tx' \in Tables /\ tx'.msgs = tx.msgs /\ tx'.sess = tx.sess /\ tx'.fts = tx.msgs
    BY <1>1, <1>2, <1>3, TablesType DEF InsertFts, Tables
  <1>5. Rooted(tx')
    BY <1>4 DEF IInv, Rooted
  <1>6. Tail(call.rest) \in Seq(Message)
    BY <1>2, TablesType, HeadTailProperties DEF StageOK, Call
  <1>7. /\ call' \in Call /\ StageOK(call') /\ call'.stage = "insMsg"
    <2>1. 0 \in 0..MaxRowid
      BY RowidAssumption
    <2>2. PICK rest \in Seq(Message) : rest = Tail(call.rest)
      BY <1>6
    <2>3. PICK c : c = [call EXCEPT !.stage = "insMsg", !.rest = rest, !.rowid = 0]
      OBVIOUS
    <2>4. c \in Call /\ c.stage = "insMsg" /\ c.todo = call.todo
      BY <2>1, <2>3, TablesType DEF Call, Stage
    <2> QED
      BY <1>2, <2>2, <2>3, <2>4, TablesType DEF InsertFts, StageOK
  <1> QED
    BY <1>4, <1>5, <1>7, StatementSafe DEF InsertFts, Difference

LEMMA MessagesInsertedSafe ==
  ASSUME IInv, MessagesInserted
  PROVE  IInv'
  <1>1. call.stage = "insMsg" /\ call.todo # <<>>
    BY TablesType DEF MessagesInserted, StageOK
  <1>2. call' \in Call /\ StageOK(call') /\ call'.stage \in {"upsert", "commit"}
    BY <1>1, TablesType, NextEntryOK DEF MessagesInserted
  <1>3. db' = db /\ tx' = tx /\ tx.fts = tx.msgs
    BY <1>1 DEF MessagesInserted, IInv, Difference
  <1> QED
    BY <1>2, <1>3, TablesType, StatementSafe DEF IInv, Difference

-----------------------------------------------------------------------------
(* The theorems. *)

LEMMA StepSafe == IInv /\ [Next]_vars => IInv'
  <1> SUFFICES ASSUME IInv, [Next]_vars PROVE IInv'
    OBVIOUS
  <1>1. CASE UNCHANGED vars
    BY <1>1 DEF vars, IInv, TypeOK, LexicalSync, Rooted, Difference, Current
  <1>2. BeginReplaceSessions => IInv'
    BY BeginSafe DEF BeginReplaceSessions
  <1>3. BeginUpsertSessions => IInv'
    BY BeginSafe DEF BeginUpsertSessions
  <1>4. BeginReplaceMessages => IInv'
    BY BeginSafe DEF BeginReplaceMessages
  <1>5. BeginDeleteSession => IInv'
    BY BeginSafe DEF BeginDeleteSession
  <1> QED
    BY <1>1, <1>2, <1>3, <1>4, <1>5, UpsertSessionSafe, UpsertSafe, SelectIdsSafe,
       ClearFtsSafe, FtsClearedSafe, ClearMsgsSafe, DropRowSafe, InsertMessageSafe,
       InsertFtsSafe, MessagesInsertedSafe, CommitSafe, RollbackSafe
    DEF Next

LEMMA Invariance == Spec => []IInv
  <1>1. IInv /\ [Next]_vars => IInv'
    BY StepSafe
  <1>2. Init => IInv
    BY InitSafe
  <1> QED
    BY <1>1, <1>2, PTL DEF Spec

(***************************************************************************)
(* For every set of sessions, rows and batches, through every sequence of  *)
(* statements, rollbacks and crashes: the tables stay tables and each      *)
(* statement knows the entry and the message it stands at.                 *)
(***************************************************************************)
THEOREM TypeCorrect == Spec => []TypeOK
  <1>1. IInv => TypeOK
    BY DEF IInv
  <1> QED
    BY <1>1, Invariance, PTL

(***************************************************************************)
(* The lexical table that FTS5 searches is the message table, row by row,  *)
(* although no constraint of the database ties them: only the order of the *)
(* statements in replaceMessagesTx and DeleteSession does.                 *)
(***************************************************************************)
THEOREM TablesStayTogether == Spec => []LexicalSync
  <1>1. IInv => LexicalSync
    BY DEF IInv
  <1> QED
    BY <1>1, Invariance, PTL

(***************************************************************************)
(* No deletion leaves the messages of a session behind, and no message is  *)
(* stored for a session that has no row.                                   *)
(***************************************************************************)
THEOREM MessagesHaveSessions == Spec => []NoOrphans
  <1>1. IInv => NoOrphans
    BY DEF IInv, Rooted, NoOrphans
  <1> QED
    BY <1>1, Invariance, PTL

(***************************************************************************)
(* The rowid a message gets, though it may have belonged to a message now  *)
(* deleted, is never taken in the lexical table: a stale entry there would *)
(* make every later refresh of the session fail.                           *)
(***************************************************************************)
THEOREM RowidsAreFree == Spec => []AssignedRowidFree
  <1>1. IInv => AssignedRowidFree
    BY TablesType, WithoutTable DEF IInv, Difference, AssignedRowidFree, Without
  <1> QED
    BY <1>1, Invariance, PTL

-----------------------------------------------------------------------------
(* The refinement of IndexContract. *)

\* The messages a table holds for a session.
DocAt(msgs, s) == {<<msgs[r].ord, msgs[r].text>> : r \in IdsOf(msgs, s)}

\* What the operation makes of the row and the messages of an entry's session.
RowEffect(s, e) ==
    CASE call.op \in {"replace", "upsert"} -> e.row
      [] call.op = "delete" -> NoRow
      [] OTHER -> db.sess[s]

DocEffect(s, e) ==
    CASE call.op \in {"replace", "messages"} -> DocOf(e.msgs)
      [] call.op = "delete" -> {}
      [] OTHER -> DocAt(db.msgs, s)

\* The transaction was given this batch, and n of its entries are behind it.
At(batch, n) ==
    /\ n \in 0..Len(batch) /\ Len(call.todo) = Len(batch) - n
    /\ \A i \in 1..Len(call.todo) : call.todo[i] = batch[n + i]

Amid == call.op = "replace" /\ call.stage \notin {"upsert", "commit"}

\* Entries whose row has been written: a replacement writes the row first.
RowsWritten(n) == IF Amid THEN n + 1 ELSE n

RowsDone(batch, m) ==
    \A s \in Session :
        /\ \A k \in 1..m : batch[k].id = s => tx.sess[s] = RowEffect(s, batch[k])
        /\ (\A k \in 1..m : batch[k].id # s) => tx.sess[s] = db.sess[s]

\* No row so far has met another with its path.
Admitted(batch, m) ==
    \A k \in 1..m : \A s \in Session \ {batch[k].id} :
        /\ \A i \in 1..(k - 1) : batch[i].id = s => batch[i].row.path # batch[k].row.path
        /\ (\A i \in 1..(k - 1) : batch[i].id # s) /\ db.sess[s] # NoRow =>
              db.sess[s].path # batch[k].row.path

Inserting == call.stage \in {"insMsg", "insFts"}

DocsDone(batch, n) ==
    \A s \in Session : (Inserting => s # Current.id) =>
        /\ \A k \in 1..n : batch[k].id = s => DocAt(tx.msgs, s) = DocEffect(s, batch[k])
        /\ (\A k \in 1..n : batch[k].id # s) => DocAt(tx.msgs, s) = DocAt(db.msgs, s)

InsertedSoFar ==
    Inserting => DocOf(Current.msgs) = DocAt(tx.msgs, Current.id) \cup DocOf(call.rest)

OpOK(batch) ==
    /\ call.op # "none"
    /\ call.op \in {"messages", "delete"} => Len(batch) = 1 /\ call.stage # "upsert"
    /\ call.op = "upsert" => call.stage \in {"upsert", "commit"}
    /\ call.op = "delete" => call.stage \in {"select", "clearFts", "dropRow", "commit"}
    /\ call.op \in {"replace", "messages"} => call.stage # "dropRow"
    /\ call.stage = "commit" => call.todo = <<>>

Related(batch, n) ==
    /\ At(batch, n) /\ OpOK(batch)
    /\ RowsDone(batch, RowsWritten(n))
    /\ call.op \in {"replace", "upsert"} => Admitted(batch, RowsWritten(n))
    /\ DocsDone(batch, n) /\ InsertedSoFar

RInv == call.stage # "idle" => \E batch \in Batches, n \in Nat : Related(batch, n)

-----------------------------------------------------------------------------
(* Batches and messages. *)

LEMMA BatchEntries ==
  ASSUME NEW batch \in Batches
  PROVE  /\ Len(batch) \in Nat \ {0} /\ DOMAIN batch = 1..Len(batch)
         /\ \A k \in 1..Len(batch) :
              /\ batch[k] \in Entry /\ batch[k].id \in Session /\ batch[k].row \in Row
              /\ batch[k].msgs \in Seq(Message)
         /\ \A i, k \in 1..Len(batch) : batch[i].id = batch[k].id => i = k
  <1>1. batch \in Seq(Entry) /\ batch # <<>>
    BY BatchesAssumption
  <1>2. Len(batch) \in Nat \ {0} /\ DOMAIN batch = 1..Len(batch)
    BY <1>1, EmptySeq, LenProperties
  <1>3. \A k \in 1..Len(batch) : batch[k] \in Entry
    BY <1>1, ElementOfSeq
  <1>4. \A i, k \in 1..Len(batch) : batch[i].id = batch[k].id => i = k
    BY <1>2, BatchesAssumption
  <1> QED
    BY <1>2, <1>3, <1>4 DEF Entry

LEMMA NoMessages == DocOf(<<>>) = {}
  <1>1. DOMAIN <<>> = {}
    OBVIOUS
  <1> QED
    BY <1>1 DEF DocOf

LEMMA FirstMessage ==
  ASSUME NEW msgs \in Seq(Message), msgs # <<>>
  PROVE  DocOf(msgs) = {<<Head(msgs).ord, Head(msgs).text>>} \cup DocOf(Tail(msgs))
  <1>1. PICK l \in Nat : l = Len(msgs) /\ l # 0
    BY EmptySeq
  <1>2. DOMAIN msgs = 1..l /\ Head(msgs) = msgs[1]
    BY <1>1, LenProperties
  <1>3. PICK rest \in Seq(Message) : rest = Tail(msgs)
    BY HeadTailProperties
  <1>4. /\ DOMAIN rest = 1..(l - 1)
        /\ \A i \in 1..(l - 1) : rest[i] = msgs[i + 1]
    BY <1>1, <1>3, HeadTailProperties, LenProperties
  <1>5. ASSUME NEW k \in 1..l, k # 1
        PROVE  \E i \in 1..(l - 1) : msgs[k] = rest[i]
    <2>1. k - 1 \in 1..(l - 1) /\ (k - 1) + 1 = k
      BY <1>5
    <2> QED
      BY <1>4, <2>1
  <1>6. ASSUME NEW k \in 1..(l - 1) PROVE k + 1 \in 1..l /\ rest[k] = msgs[k + 1]
    BY <1>4
  <1>7. 1 \in 1..l
    BY <1>1
  <1>8. {msgs[k] : k \in 1..l} = {msgs[1]} \cup {rest[k] : k \in 1..(l - 1)}
    <2>1. ASSUME NEW m \in {msgs[k] : k \in 1..l}
          PROVE  m \in {msgs[1]} \cup {rest[k] : k \in 1..(l - 1)}
      BY <1>5, <2>1
    <2>2. ASSUME NEW m \in {msgs[1]} \cup {rest[k] : k \in 1..(l - 1)}
          PROVE  m \in {msgs[k] : k \in 1..l}
      BY <1>6, <1>7, <2>2
    <2> QED
      BY <2>1, <2>2
  <1>9. PICK all : all = {msgs[k] : k \in 1..l}
    OBVIOUS
  <1>10. PICK others : others = {rest[k] : k \in 1..(l - 1)}
    OBVIOUS
  <1>11. /\ DocOf(msgs) = {<<m.ord, m.text>> : m \in all}
         /\ DocOf(rest) = {<<m.ord, m.text>> : m \in others}
    BY <1>2, <1>4, <1>9, <1>10 DEF DocOf
  <1>12. all = {Head(msgs)} \cup others
    BY <1>2, <1>8, <1>9, <1>10
  <1>13. DocOf(msgs) = {<<Head(msgs).ord, Head(msgs).text>>} \cup DocOf(rest)
    BY <1>11, <1>12
  <1> QED
    BY <1>3, <1>13

\* The entry the transaction stands at, and the position after it.
LEMMA AtCurrent ==
  ASSUME NEW batch \in Batches, NEW n \in Nat, At(batch, n), call.todo # <<>>,
         call.todo \in Seq(Entry)
  PROVE  n + 1 \in 1..Len(batch) /\ Current = batch[n + 1]
  <1>1. PICK l \in Nat : l = Len(call.todo) /\ l # 0
    BY EmptySeq
  <1>2. PICK b \in Nat : b = Len(batch)
    BY BatchEntries
  <1>3. l = b - n /\ Current = call.todo[1] /\ 1 \in 1..l
    BY <1>1, <1>2, LenProperties DEF At, Current
  <1> QED
    BY <1>1, <1>2, <1>3 DEF At

LEMMA AtNext ==
  ASSUME NEW batch \in Batches, NEW n \in Nat, At(batch, n), call.todo # <<>>,
         call \in Call, call' = NextEntry(call)
  PROVE  /\ At(batch, n + 1)' /\ call'.op = call.op
         /\ call'.stage \in {"upsert", "commit"}
         /\ call'.stage = "commit" => call'.todo = <<>>
         /\ Len(batch) = 1 => call'.stage = "commit" /\ n + 1 = 1
  <1>1. PICK todo \in Seq(Entry) : todo = call.todo /\ todo # <<>>
    BY DEF Call
  <1>2. PICK rest \in Seq(Entry) : rest = Tail(todo)
    BY <1>1, HeadTailProperties
  <1>3. PICK l \in Nat : l = Len(todo) /\ l # 0
    BY <1>1, EmptySeq
  <1>4. Len(rest) = l - 1 /\ \A i \in 1..(l - 1) : rest[i] = todo[i + 1]
    BY <1>1, <1>2, <1>3, HeadTailProperties
  <1>5. /\ call'.todo = rest /\ call'.op = call.op
        /\ call'.stage = IF l = 1 THEN "commit" ELSE "upsert"
    BY <1>1, <1>2, <1>3 DEF NextEntry, Call
  <1>6. PICK b \in Nat : b = Len(batch)
    BY BatchEntries
  <1>7. l = b - n /\ \A i \in 1..l : todo[i] = batch[n + i]
    BY <1>1, <1>3, <1>6 DEF At
  <1>8. ASSUME NEW i \in 1..(l - 1) PROVE rest[i] = batch[(n + 1) + i]
    <2>1. i + 1 \in 1..l /\ n + (i + 1) = (n + 1) + i
      OBVIOUS
    <2> QED
      BY <1>4, <1>7, <2>1
  <1>9. n + 1 \in 0..b /\ l - 1 = b - (n + 1)
    BY <1>3, <1>6, <1>7
  <1>10. At(batch, n + 1)'
    BY <1>4, <1>5, <1>6, <1>8, <1>9 DEF At
  <1>11. l = 1 => rest = <<>>
    BY <1>2, <1>4, EmptySeq
  <1>12. b = 1 => l = 1 /\ n + 1 = 1
    BY <1>3, <1>7
  <1> QED
    BY <1>5, <1>6, <1>10, <1>11, <1>12

-----------------------------------------------------------------------------
(* The statements. *)

LEMMA BeginRelated ==
  ASSUME IInv, NEW op, NEW stage, NEW batch \in Batches, Begin(op, stage, batch),
         \/ op \in {"replace", "upsert"} /\ stage = "upsert"
         \/ op \in {"messages", "delete"} /\ stage = "select" /\ Len(batch) = 1
  PROVE  Related(batch, 0)'
  <1>1. PICK c : c = [Idle EXCEPT !.op = op, !.stage = stage, !.todo = batch]
    OBVIOUS
  <1>2. c.op = op /\ c.stage = stage /\ c.todo = batch
    BY <1>1 DEF Idle
  <1>3. db' = db /\ tx' = db /\ call' = c
    BY <1>1 DEF Begin
  <1>4. Len(batch) \in Nat
    BY BatchEntries
  <1>5. At(batch, 0)'
    BY <1>2, <1>3, <1>4 DEF At
  <1>6. RowsWritten(0)' = 0 /\ ~Inserting' /\ OpOK(batch)'
    BY <1>2, <1>3 DEF RowsWritten, Amid, Inserting, OpOK
  <1>7. RowsDone(batch, 0)' /\ Admitted(batch, 0)'
    BY <1>3 DEF RowsDone, Admitted
  <1>8. DocsDone(batch, 0)' /\ InsertedSoFar'
    BY <1>3, <1>6 DEF DocsDone, InsertedSoFar
  <1> QED
    BY <1>5, <1>6, <1>7, <1>8 DEF Related

\* A statement that changes neither the rows nor the messages of the transaction.
LEMMA NothingWritten ==
  ASSUME NEW batch \in Batches, NEW n \in Nat, Related(batch, n), OpOK(batch)',
         db' = db, tx'.sess = tx.sess, tx'.msgs = tx.msgs,
         call'.todo = call.todo, call'.op = call.op, Amid' = Amid,
         ~Inserting, ~Inserting'
  PROVE  Related(batch, n)'
  <1>1. At(batch, n)'
    BY DEF Related, At
  <1>2. RowsWritten(n)' = RowsWritten(n)
    BY DEF RowsWritten
  <1>3. RowsDone(batch, RowsWritten(n))'
    BY <1>2 DEF Related, RowsDone, RowEffect
  <1>4. (call.op \in {"replace", "upsert"} => Admitted(batch, RowsWritten(n)))'
    BY <1>2 DEF Related, Admitted
  <1>5. DocsDone(batch, n)' /\ InsertedSoFar'
    BY DEF Related, DocsDone, DocEffect, InsertedSoFar
  <1> QED
    BY <1>1, <1>3, <1>4, <1>5 DEF Related

LEMMA ClearingRelated ==
  ASSUME IInv, SelectIds \/ ClearFts \/ FtsCleared,
         NEW batch \in Batches, NEW n \in Nat, Related(batch, n)
  PROVE  Related(batch, n)'
  <1>1. /\ db' = db /\ tx'.sess = tx.sess /\ tx'.msgs = tx.msgs
        /\ call'.todo = call.todo /\ call'.op = call.op
        /\ call.stage \in {"select", "clearFts"}
        /\ \/ call'.stage = "clearFts"
           \/ call'.stage = IF call.op = "delete" THEN "dropRow" ELSE "clearMsgs"
    BY TablesType DEF SelectIds, ClearFts, FtsCleared, Tables, Call
  <1>2. OpOK(batch)' /\ Amid' = Amid /\ ~Inserting /\ ~Inserting'
    BY <1>1 DEF Related, OpOK, Amid, Inserting
  <1> QED
    BY <1>1, <1>2, NothingWritten

\* One more row: what it may have met is what the table holds by now.
LEMMA RowWritten ==
  ASSUME IInv, Upsert, NEW batch \in Batches, NEW n \in Nat,
         n + 1 \in 1..Len(batch), Current = batch[n + 1],
         call.op \in {"replace", "upsert"}, call'.op = call.op,
         RowsDone(batch, n), Admitted(batch, n)
  PROVE  RowsDone(batch, n + 1)' /\ Admitted(batch, n + 1)'
  <1>1. PICK e \in Entry : e = batch[n + 1] /\ e.id \in Session /\ e.row \in Row
    BY BatchEntries
  <1>2. /\ db' = db /\ tx'.sess[e.id] = e.row
        /\ \A s \in Session \ {e.id} : tx'.sess[s] = tx.sess[s]
    BY <1>1, TablesType DEF Upsert, Tables
  <1>3. \A k \in 1..n : k \in 1..Len(batch) /\ batch[k].id # e.id /\ k \in 1..(n + 1)
    <2>1. PICK l \in Nat : l = Len(batch)
      BY BatchEntries
    <2>2. ASSUME NEW k \in 1..n PROVE k \in 1..l /\ k # n + 1 /\ k \in 1..(n + 1)
      BY <2>1
    <2> QED
      BY <1>1, <2>1, <2>2, BatchEntries
  <1>4. \A k \in 1..(n + 1) : k \in 1..n \/ k = n + 1
    OBVIOUS
  <1>5. ASSUME NEW s \in Session
        PROVE  /\ \A k \in 1..(n + 1) : batch[k].id = s => tx'.sess[s] = RowEffect(s, batch[k])'
               /\ (\A k \in 1..(n + 1) : batch[k].id # s) => tx'.sess[s] = db'.sess[s]
    <2>1. CASE s = e.id
      BY <1>1, <1>2, <1>3, <1>4, <2>1 DEF RowEffect
    <2>2. CASE s # e.id
      <3>1. /\ \A k \in 1..n : batch[k].id = s => tx.sess[s] = RowEffect(s, batch[k])
            /\ (\A k \in 1..n : batch[k].id # s) => tx.sess[s] = db.sess[s]
        BY DEF RowsDone
      <3>2. \A k \in 1..n : RowEffect(s, batch[k])' = RowEffect(s, batch[k])
        BY <1>2 DEF RowEffect
      <3> QED
        BY <1>1, <1>2, <1>3, <1>4, <2>2, <3>1, <3>2
    <2> QED
      BY <2>1, <2>2
  <1>6. RowsDone(batch, n + 1)'
    BY <1>5 DEF RowsDone
  <1>7. ASSUME NEW s \in Session \ {e.id}
        PROVE  /\ \A i \in 1..n : batch[i].id = s => batch[i].row.path # e.row.path
               /\ (\A i \in 1..n : batch[i].id # s) /\ db.sess[s] # NoRow =>
                     db.sess[s].path # e.row.path
    <2>1. tx.sess[s] # NoRow => tx.sess[s].path # e.row.path
      BY <1>1 DEF Upsert, PathFree
    <2>2. ASSUME NEW i \in 1..n, batch[i].id = s PROVE batch[i].row.path # e.row.path
      <3>1. tx.sess[s] = batch[i].row
        BY <2>2 DEF RowsDone, RowEffect
      <3>2. batch[i].row \in Row
        BY <1>3, BatchEntries
      <3> QED
        BY <2>1, <3>1, <3>2, RowAssumption
    <2>3. (\A i \in 1..n : batch[i].id # s) => tx.sess[s] = db.sess[s]
      BY DEF RowsDone
    <2> QED
      BY <2>1, <2>2, <2>3
  <1>8. (n + 1) - 1 = n
    OBVIOUS
  <1>9. Admitted(batch, n + 1)
    BY <1>1, <1>4, <1>7, <1>8 DEF Admitted
  <1> QED
    BY <1>2, <1>6, <1>9 DEF Admitted

LEMMA UpsertRelated ==
  ASSUME IInv, Upsert, NEW batch \in Batches, NEW n \in Nat, Related(batch, n)
  PROVE  \E m \in Nat : Related(batch, m)'
  <1>1. /\ call.stage = "upsert" /\ call.op \in {"replace", "upsert"} /\ RowsWritten(n) = n
        /\ ~Inserting /\ call.todo # <<>> /\ call \in Call /\ call.todo \in Seq(Entry)
    BY TablesType, CurrentType DEF Upsert, Related, OpOK, RowsWritten, Amid, Inserting,
                                   IInv, Call, StageOK
  <1>2. n + 1 \in 1..Len(batch) /\ Current = batch[n + 1]
    BY <1>1, AtCurrent DEF Related
  <1>3. PICK s \in Session : s = Current.id
    BY <1>1, CurrentType DEF IInv
  <1>4. db' = db /\ tx'.msgs = tx.msgs
    BY TablesType DEF Upsert, Tables
  <1>5. call'.op = call.op
    BY <1>1 DEF Upsert, NextEntry, Call
  <1>6. RowsDone(batch, n + 1)' /\ Admitted(batch, n + 1)'
    BY <1>1, <1>2, <1>5, RowWritten DEF Related
  <1>7. CASE call.op = "replace"
    <2>1. call'.stage = "select" /\ call'.todo = call.todo
      BY <1>1, <1>7 DEF Upsert, Call
    <2>2. At(batch, n)' /\ OpOK(batch)' /\ RowsWritten(n)' = n + 1 /\ ~Inserting'
      BY <1>5, <1>7, <2>1 DEF Related, At, OpOK, RowsWritten, Amid, Inserting
    <2>3. DocsDone(batch, n)' /\ InsertedSoFar'
      BY <1>1, <1>4, <1>5, <2>2 DEF Related, DocsDone, DocEffect, InsertedSoFar
    <2> QED
      BY <1>6, <2>2, <2>3 DEF Related
  <1>8. CASE call.op = "upsert"
    <2>1. call' = NextEntry(call)
      BY <1>8 DEF Upsert
    <2>2. /\ At(batch, n + 1)' /\ call'.stage \in {"upsert", "commit"}
          /\ call'.stage = "commit" => call'.todo = <<>>
      BY <1>1, <2>1, AtNext DEF Related
    <2>3. OpOK(batch)' /\ RowsWritten(n + 1)' = n + 1 /\ ~Inserting'
      BY <1>5, <1>8, <2>2 DEF OpOK, RowsWritten, Amid, Inserting
    <2>4. ASSUME NEW t \in Session
          PROVE  DocAt(tx.msgs, t) = DocAt(db.msgs, t) /\ \A e : DocEffect(t, e)' = DocAt(db.msgs, t)
      BY <1>1, <1>4, <1>5, <1>8 DEF Related, DocsDone, DocEffect
    <2>5. DocsDone(batch, n + 1)' /\ InsertedSoFar'
      BY <1>4, <2>3, <2>4 DEF DocsDone, InsertedSoFar
    <2> QED
      BY <1>6, <2>2, <2>3, <2>5 DEF Related
  <1> QED
    BY <1>1, <1>7, <1>8

\* What clearing and inserting do to the messages of a session, and to no other's.
LEMMA DocWithout ==
  ASSUME NEW t \in Table, NEW s \in Session
  PROVE  /\ DocAt(Without(t, IdsOf(t, s)), s) = {}
         /\ \A q \in Session \ {s} : DocAt(Without(t, IdsOf(t, s)), q) = DocAt(t, q)
  <1>1. PICK u : u = Without(t, IdsOf(t, s))
    OBVIOUS
  <1>2. /\ DOMAIN u = {r \in DOMAIN t : t[r].sid # s}
        /\ \A r \in DOMAIN u : u[r] = t[r]
    BY <1>1 DEF Without, IdsOf
  <1>3. IdsOf(u, s) = {}
    BY <1>2 DEF IdsOf
  <1>4. \A q \in Session \ {s} : IdsOf(u, q) = IdsOf(t, q)
    BY <1>2 DEF IdsOf
  <1>5. DocAt(u, s) = {}
    BY <1>3 DEF DocAt
  <1>6. \A q \in Session \ {s} : DocAt(u, q) = DocAt(t, q)
    BY <1>2, <1>4 DEF DocAt, IdsOf
  <1> QED
    BY <1>1, <1>5, <1>6

LEMMA DocWith ==
  ASSUME NEW t \in Table, NEW r \in Rowid \ DOMAIN t, NEW rec \in Record
  PROVE  /\ DocAt(With(t, r, rec), rec.sid) = DocAt(t, rec.sid) \cup {<<rec.ord, rec.text>>}
         /\ \A q \in Session \ {rec.sid} : DocAt(With(t, r, rec), q) = DocAt(t, q)
  <1>1. PICK u : u = With(t, r, rec)
    OBVIOUS
  <1>2. DOMAIN u = DOMAIN t \cup {r} /\ u[r] = rec /\ \A q \in DOMAIN t : u[q] = t[q]
    BY <1>1 DEF With
  <1>3. IdsOf(u, rec.sid) = IdsOf(t, rec.sid) \cup {r}
    BY <1>2 DEF IdsOf
  <1>4. \A q \in Session \ {rec.sid} : IdsOf(u, q) = IdsOf(t, q)
    BY <1>2 DEF IdsOf
  <1>5. \A i \in IdsOf(t, rec.sid) : u[i] = t[i]
    BY <1>2 DEF IdsOf
  <1>6. DocAt(u, rec.sid) = DocAt(t, rec.sid) \cup {<<rec.ord, rec.text>>}
    BY <1>2, <1>3, <1>5 DEF DocAt
  <1>7. ASSUME NEW q \in Session \ {rec.sid}
        PROVE  DocAt(u, q) = DocAt(t, q)
    <2>1. \A i \in IdsOf(t, q) : u[i] = t[i]
      BY <1>2 DEF IdsOf
    <2> QED
      BY <1>4, <2>1 DEF DocAt
  <1> QED
    BY <1>1, <1>6, <1>7

LEMMA OthersKept ==
  ASSUME NEW batch, NEW n, DocsDone(batch, n), db' = db, call'.op = call.op,
         Inserting', Current' = Current,
         \A q \in Session \ {Current.id} : DocAt(tx'.msgs, q) = DocAt(tx.msgs, q)
  PROVE  DocsDone(batch, n)'
  <1>1. ASSUME NEW q \in Session, q # Current.id
        PROVE  /\ \A k \in 1..n : batch[k].id = q =>
                    DocAt(tx'.msgs, q) = DocEffect(q, batch[k])'
               /\ (\A k \in 1..n : batch[k].id # q) => DocAt(tx'.msgs, q) = DocAt(db'.msgs, q)
    <2>1. DocAt(tx'.msgs, q) = DocAt(tx.msgs, q)
      BY <1>1
    <2>2. \A k \in 1..n : DocEffect(q, batch[k])' = DocEffect(q, batch[k])
      BY DEF DocEffect
    <2> QED
      BY <1>1, <2>1, <2>2 DEF DocsDone
  <1> QED
    BY <1>1 DEF DocsDone

\* An entry of the batch is the only one of its session.
LEMMA OthersBefore ==
  ASSUME NEW batch \in Batches, NEW n \in Nat, n + 1 \in 1..Len(batch)
  PROVE  \A k \in 1..n : batch[k].id # batch[n + 1].id
  <1>1. PICK l \in Nat : l = Len(batch)
    BY BatchEntries
  <1>2. ASSUME NEW k \in 1..n PROVE k \in 1..l /\ k # n + 1
    BY <1>1
  <1> QED
    BY <1>1, <1>2, BatchEntries

LEMMA ClearMsgsRelated ==
  ASSUME IInv, ClearMsgs, NEW batch \in Batches, NEW n \in Nat, Related(batch, n)
  PROVE  Related(batch, n)'
  <1>1. /\ call.stage = "clearMsgs" /\ call.op \in {"replace", "messages"}
        /\ ~Inserting /\ call.op # "none"
    BY TablesType DEF ClearMsgs, Related, OpOK, Inserting, Call
  <1>2. PICK s \in Session : s = Current.id
    BY <1>1, CurrentType DEF IInv
  <1>3. PICK m : m = Without(tx.msgs, IdsOf(tx.msgs, s))
    OBVIOUS
  <1>4. /\ db' = db /\ tx'.sess = tx.sess /\ tx'.msgs = m
        /\ call'.stage = "insMsg" /\ call'.op = call.op /\ call'.todo = call.todo
        /\ call'.rest = Current.msgs /\ Current' = Current
    BY <1>2, <1>3, TablesType DEF ClearMsgs, Tables, Call, Current
  <1>5. DocAt(m, s) = {} /\ \A q \in Session \ {s} : DocAt(m, q) = DocAt(tx.msgs, q)
    BY <1>3, DocWithout, TablesType
  <1>6. At(batch, n)' /\ OpOK(batch)' /\ RowsWritten(n)' = RowsWritten(n) /\ Inserting'
    BY <1>1, <1>4 DEF Related, At, OpOK, RowsWritten, Amid, Inserting
  <1>7. RowsDone(batch, RowsWritten(n))'
    BY <1>4, <1>6 DEF Related, RowsDone, RowEffect
  <1>8. (call.op \in {"replace", "upsert"} => Admitted(batch, RowsWritten(n)))'
    BY <1>4, <1>6 DEF Related, Admitted
  <1>9. DocsDone(batch, n)'
    BY <1>2, <1>4, <1>5, <1>6, OthersKept DEF Related
  <1>10. InsertedSoFar'
    BY <1>2, <1>4, <1>5 DEF InsertedSoFar
  <1> QED
    BY <1>6, <1>7, <1>8, <1>9, <1>10 DEF Related

LEMMA DropRowRelated ==
  ASSUME IInv, DropRow, NEW batch \in Batches, NEW n \in Nat, Related(batch, n)
  PROVE  Related(batch, n + 1)'
  <1>1. /\ call.stage = "dropRow" /\ call.op = "delete" /\ Len(batch) = 1
        /\ ~Inserting /\ call.todo # <<>> /\ call \in Call /\ RowsWritten(n) = n
        /\ call.todo \in Seq(Entry)
    BY CurrentType, TablesType
    DEF DropRow, Related, OpOK, Inserting, StageOK, RowsWritten, Amid, Call
  <1>2. n + 1 \in 1..Len(batch) /\ Current = batch[n + 1]
    BY <1>1, AtCurrent DEF Related
  <1>3. PICK s \in Session : s = Current.id
    BY <1>1, CurrentType DEF IInv
  <1>4. PICK m : m = Without(tx.msgs, IdsOf(tx.msgs, s))
    OBVIOUS
  <1>5. /\ db' = db /\ tx'.msgs = m /\ tx'.sess[s] = NoRow
        /\ \A q \in Session \ {s} : tx'.sess[q] = tx.sess[q]
    BY <1>3, <1>4, TablesType DEF DropRow, Tables
  <1>6. DocAt(m, s) = {} /\ \A q \in Session \ {s} : DocAt(m, q) = DocAt(tx.msgs, q)
    BY <1>4, DocWithout, TablesType
  <1>7. /\ At(batch, n + 1)' /\ call'.op = "delete" /\ call'.stage = "commit"
        /\ call'.todo = <<>> /\ n + 1 = 1
    BY <1>1, AtNext DEF DropRow, Related
  <1>8. OpOK(batch)' /\ RowsWritten(n + 1)' = n + 1 /\ ~Inserting'
    BY <1>1, <1>7 DEF OpOK, RowsWritten, Amid, Inserting
  <1>9. \A k \in 1..(n + 1) : k = n + 1 /\ batch[k].id = s
    BY <1>2, <1>3, <1>7
  <1>10. 1 \in 1..(n + 1) /\ \A k \in 1..n : FALSE
    BY <1>7
  <1>11. ASSUME NEW q \in Session \ {s}
         PROVE  tx.sess[q] = db.sess[q] /\ DocAt(tx.msgs, q) = DocAt(db.msgs, q)
    BY <1>1, <1>10 DEF Related, RowsDone, DocsDone
  <1>12. RowsDone(batch, n + 1)'
    BY <1>5, <1>7, <1>9, <1>10, <1>11 DEF RowsDone, RowEffect
  <1>13. DocsDone(batch, n + 1)'
    BY <1>5, <1>6, <1>7, <1>8, <1>9, <1>10, <1>11 DEF DocsDone, DocEffect
  <1> QED
    BY <1>7, <1>8, <1>12, <1>13 DEF Related, InsertedSoFar

LEMMA InsertMessageRelated ==
  ASSUME IInv, InsertMessage, NEW batch \in Batches, NEW n \in Nat, Related(batch, n)
  PROVE  Related(batch, n)'
  <1>1. PICK m : m = Head(call.rest)
    OBVIOUS
  <1>2. /\ m \in Message /\ Current.id \in Session /\ call.rest \in Seq(Message)
        /\ call.stage = "insMsg" /\ call.rest # <<>> /\ Inserting
    BY <1>1, CurrentType, TablesType DEF InsertMessage, IInv, Call, Inserting
  <1>3. PICK rec \in Record : /\ rec = RecordOf(Current.id, m) /\ rec.sid = Current.id
                              /\ rec.ord = m.ord /\ rec.text = m.text
    BY <1>2, RecordOfType DEF RecordOf
  <1>4. PICK r \in Rowid : /\ FreshRowid(tx.msgs, r)
                           /\ tx' = [tx EXCEPT !.msgs = With(@, r, rec)]
                           /\ call' = [call EXCEPT !.stage = "insFts", !.rowid = r]
    BY <1>1, <1>3 DEF InsertMessage
  <1>5. r \notin DOMAIN tx.msgs
    BY <1>4 DEF FreshRowid, Rowid
  <1>6. PICK t : t = With(tx.msgs, r, rec)
    OBVIOUS
  <1>7. /\ DocAt(t, rec.sid) = DocAt(tx.msgs, rec.sid) \cup {<<m.ord, m.text>>}
        /\ \A q \in Session \ {rec.sid} : DocAt(t, q) = DocAt(tx.msgs, q)
    BY <1>3, <1>5, <1>6, DocWith, TablesType
  <1>8. /\ db' = db /\ tx'.sess = tx.sess /\ tx'.msgs = t
        /\ call'.stage = "insFts" /\ call'.op = call.op /\ call'.todo = call.todo
        /\ call'.rest = call.rest /\ Current' = Current
    BY <1>4, <1>6, TablesType DEF InsertMessage, Tables, Call, Current
  <1>9. At(batch, n)' /\ OpOK(batch)' /\ RowsWritten(n)' = RowsWritten(n) /\ Inserting'
    BY <1>2, <1>8 DEF Related, At, OpOK, RowsWritten, Amid, Inserting
  <1>10. RowsDone(batch, RowsWritten(n))'
    BY <1>8, <1>9 DEF Related, RowsDone, RowEffect
  <1>11. (call.op \in {"replace", "upsert"} => Admitted(batch, RowsWritten(n)))'
    BY <1>8, <1>9 DEF Related, Admitted
  <1>12. DocsDone(batch, n)'
    BY <1>3, <1>7, <1>8, <1>9, OthersKept DEF Related
  <1>13. InsertedSoFar'
    <2>1. DocOf(Current.msgs) = DocAt(tx.msgs, Current.id) \cup DocOf(call.rest)
      BY <1>2 DEF Related, InsertedSoFar
    <2>2. <<m.ord, m.text>> \in DocOf(call.rest)
      BY <1>1, <1>2, FirstMessage
    <2> QED
      BY <1>3, <1>7, <1>8, <2>1, <2>2 DEF InsertedSoFar
  <1> QED
    BY <1>9, <1>10, <1>11, <1>12, <1>13 DEF Related

LEMMA InsertFtsRelated ==
  ASSUME IInv, InsertFts, NEW batch \in Batches, NEW n \in Nat, Related(batch, n)
  PROVE  Related(batch, n)'
  <1>1. PICK m : m = Head(call.rest)
    OBVIOUS
  <1>2. /\ call.stage = "insFts" /\ Inserting /\ call.rest \in Seq(Message) /\ call.rest # <<>>
    BY TablesType DEF InsertFts, Inserting, Call, StageOK
  <1>3. /\ db' = db /\ tx'.sess = tx.sess /\ tx'.msgs = tx.msgs
        /\ call'.stage = "insMsg" /\ call'.op = call.op /\ call'.todo = call.todo
        /\ call'.rest = Tail(call.rest) /\ Current' = Current
    BY TablesType DEF InsertFts, Tables, Call, Current
  <1>4. At(batch, n)' /\ OpOK(batch)' /\ RowsWritten(n)' = RowsWritten(n) /\ Inserting'
    BY <1>2, <1>3 DEF Related, At, OpOK, RowsWritten, Amid, Inserting
  <1>5. RowsDone(batch, RowsWritten(n))'
    BY <1>3, <1>4 DEF Related, RowsDone, RowEffect
  <1>6. (call.op \in {"replace", "upsert"} => Admitted(batch, RowsWritten(n)))'
    BY <1>3, <1>4 DEF Related, Admitted
  <1>7. DocsDone(batch, n)'
    BY <1>3, <1>4, OthersKept DEF Related
  <1>8. InsertedSoFar'
    <2>1. DocOf(Current.msgs) = DocAt(tx.msgs, Current.id) \cup DocOf(call.rest)
      BY <1>2 DEF Related, InsertedSoFar
    <2>2. DocOf(call.rest) = {<<m.ord, m.text>>} \cup DocOf(Tail(call.rest))
      BY <1>1, <1>2, FirstMessage
    <2>3. call.rowid \in DOMAIN tx.msgs /\ tx.msgs[call.rowid] = RecordOf(Current.id, m)
      BY <1>1, <1>2 DEF IInv, Difference
    <2>4. <<m.ord, m.text>> \in DocAt(tx.msgs, Current.id)
      BY <2>3 DEF DocAt, IdsOf, RecordOf
    <2> QED
      BY <1>3, <2>1, <2>2, <2>4 DEF InsertedSoFar
  <1> QED
    BY <1>4, <1>5, <1>6, <1>7, <1>8 DEF Related

LEMMA MessagesInsertedRelated ==
  ASSUME IInv, MessagesInserted, NEW batch \in Batches, NEW n \in Nat, Related(batch, n)
  PROVE  Related(batch, n + 1)'
  <1>1. /\ call.stage = "insMsg" /\ call.op \in {"replace", "messages"} /\ Inserting
        /\ call.todo # <<>> /\ call \in Call /\ call.todo \in Seq(Entry)
        /\ call.rest = <<>>
    BY TablesType DEF MessagesInserted, Related, OpOK, Inserting, StageOK, Call
  <1>2. n + 1 \in 1..Len(batch) /\ Current = batch[n + 1]
    BY <1>1, AtCurrent DEF Related
  <1>3. db' = db /\ tx' = tx
    BY DEF MessagesInserted
  <1>4. /\ At(batch, n + 1)' /\ call'.op = call.op /\ call'.stage \in {"upsert", "commit"}
        /\ call'.stage = "commit" => call'.todo = <<>>
        /\ Len(batch) = 1 => call'.stage = "commit" /\ n + 1 = 1
    BY <1>1, AtNext DEF MessagesInserted, Related
  <1>5. OpOK(batch)' /\ RowsWritten(n + 1)' = n + 1 /\ ~Inserting'
    BY <1>1, <1>4 DEF Related, OpOK, RowsWritten, Amid, Inserting
  <1>6. RowsDone(batch, n + 1)' /\ (call.op \in {"replace", "upsert"} => Admitted(batch, n + 1))'
    <2>1. CASE call.op = "replace"
      <3>1. RowsDone(batch, n + 1) /\ Admitted(batch, n + 1)
        BY <1>1, <2>1 DEF Related, RowsWritten, Amid
      <3> QED
        BY <1>3, <1>4, <3>1 DEF RowsDone, RowEffect, Admitted
    <2>2. CASE call.op = "messages"
      <3>1. \A s \in Session : tx.sess[s] = db.sess[s]
        BY <2>2 DEF Related, RowsDone, RowEffect
      <3> QED
        BY <1>3, <1>4, <2>2, <3>1 DEF RowsDone, RowEffect
    <2> QED
      BY <1>1, <2>1, <2>2
  <1>7. ASSUME NEW s \in Session
        PROVE  /\ \A k \in 1..(n + 1) : batch[k].id = s =>
                    DocAt(tx.msgs, s) = DocEffect(s, batch[k])
               /\ (\A k \in 1..(n + 1) : batch[k].id # s) => DocAt(tx.msgs, s) = DocAt(db.msgs, s)
    <2>1. /\ \A k \in 1..n : batch[k].id # Current.id /\ k \in 1..(n + 1)
          /\ \A k \in 1..(n + 1) : k \in 1..n \/ k = n + 1
          /\ n + 1 \in 1..(n + 1)
      BY <1>2, OthersBefore
    <2>2. CASE s = Current.id
      <3>1. DocAt(tx.msgs, s) = DocOf(batch[n + 1].msgs)
        BY <1>1, <1>2, <2>2, NoMessages DEF Related, InsertedSoFar
      <3> QED
        BY <1>1, <1>2, <2>1, <2>2, <3>1 DEF DocEffect
    <2>3. CASE s # Current.id
      BY <1>2, <2>1, <2>3 DEF Related, DocsDone
    <2> QED
      BY <2>2, <2>3
  <1>8. DocsDone(batch, n + 1)'
    BY <1>3, <1>4, <1>5, <1>7 DEF DocsDone, DocEffect
  <1> QED
    BY <1>4, <1>5, <1>6, <1>8 DEF Related, InsertedSoFar

-----------------------------------------------------------------------------
(* What the contract says of a batch. *)

LEMMA AbstractBatch ==
  ASSUME NEW batch \in Batches, NEW A, A = Abstractly(batch)
  PROVE  /\ DOMAIN A = 1..Len(batch)
         /\ \A k \in 1..Len(batch) :
              /\ A[k].id = batch[k].id /\ A[k].row = batch[k].row
              /\ A[k].doc = DocOf(batch[k].msgs)
              /\ Contract!EntryFor(A, batch[k].id) = A[k]
         /\ \A s : Contract!InBatch(A, s) <=> \E k \in 1..Len(batch) : batch[k].id = s
  <1>1. /\ DOMAIN A = 1..Len(batch)
        /\ \A k \in 1..Len(batch) : A[k].id = batch[k].id /\ A[k].row = batch[k].row
                                    /\ A[k].doc = DocOf(batch[k].msgs)
    BY BatchEntries DEF Abstractly
  <1>2. ASSUME NEW k \in 1..Len(batch)
        PROVE  Contract!EntryFor(A, batch[k].id) = A[k]
    <2>1. PICK i : i = CHOOSE j \in DOMAIN A : A[j].id = batch[k].id
      OBVIOUS
    <2>2. i \in 1..Len(batch) /\ A[i].id = batch[k].id
      BY <1>1, <2>1
    <2>3. i = k
      BY <1>1, <2>2, BatchEntries
    <2> QED
      BY <2>1, <2>3 DEF Contract!EntryFor
  <1>3. \A s : Contract!InBatch(A, s) <=> \E k \in 1..Len(batch) : batch[k].id = s
    BY <1>1 DEF Contract!InBatch
  <1> QED
    BY <1>1, <1>2, <1>3

LEMMA AdmittedBatch ==
  ASSUME NEW batch \in Batches, NEW A, A = Abstractly(batch), Admitted(batch, Len(batch))
  PROVE  Contract!Admissible(A)
  <1>1. PICK l \in Nat : l = Len(batch)
    BY BatchEntries
  <1>2. ASSUME NEW k \in 1..l, NEW s \in Session \ {batch[k].id},
               NEW row, row = Contract!RowBefore(A, k, s), row # NoRow
        PROVE  row.path # batch[k].row.path
    <2>1. CASE \E j \in DOMAIN A : j < k /\ A[j].id = s
      <3>1. PICK j \in 1..l : j < k /\ batch[j].id = s
        BY <1>1, <2>1, AbstractBatch
      <3>2. Contract!EntryFor(A, s) = A[j] /\ A[j].row = batch[j].row
        BY <1>1, <3>1, AbstractBatch
      <3>3. row = batch[j].row
        BY <1>2, <2>1, <3>2 DEF Contract!RowBefore
      <3>4. j \in 1..(k - 1)
        BY <3>1
      <3> QED
        BY <1>1, <3>1, <3>3, <3>4 DEF Admitted
    <2>2. CASE ~ \E j \in DOMAIN A : j < k /\ A[j].id = s
      <3>1. row = db.sess[s]
        BY <1>2, <2>2 DEF Contract!RowBefore
      <3>2. ASSUME NEW j \in 1..(k - 1) PROVE batch[j].id # s
        <4>1. j \in 1..l /\ j < k
          OBVIOUS
        <4> QED
          BY <1>1, <2>2, <4>1, AbstractBatch
      <3> QED
        BY <1>1, <1>2, <3>1, <3>2 DEF Admitted
    <2> QED
      BY <2>1, <2>2
  <1>3. DOMAIN A = 1..l /\ \A k \in 1..l : A[k].id = batch[k].id /\ A[k].row = batch[k].row
    BY <1>1, AbstractBatch
  <1> QED
    BY <1>2, <1>3 DEF Contract!Admissible, Contract!PathTaken

\* The rows of a batch all written, a reader of the tables sees what the contract says.
LEMMA RowsWhole ==
  ASSUME IInv, NEW batch \in Batches, NEW A, A = Abstractly(batch),
         call.op \in {"replace", "upsert"}, RowsDone(batch, Len(batch))
  PROVE  tx.sess = Contract!RowsAfter(A)
  <1>1. ASSUME NEW s \in Session
        PROVE  tx.sess[s] = IF Contract!InBatch(A, s) THEN Contract!EntryFor(A, s).row
                            ELSE db.sess[s]
    <2>1. CASE \E k \in 1..Len(batch) : batch[k].id = s
      <3>1. PICK k \in 1..Len(batch) : batch[k].id = s
        BY <2>1
      <3>2. Contract!InBatch(A, s) /\ Contract!EntryFor(A, s).row = batch[k].row
        BY <3>1, AbstractBatch
      <3>3. tx.sess[s] = batch[k].row
        BY <3>1 DEF RowsDone, RowEffect
      <3> QED
        BY <3>2, <3>3
    <2>2. CASE \A k \in 1..Len(batch) : batch[k].id # s
      <3>1. ~Contract!InBatch(A, s)
        BY <2>2, AbstractBatch
      <3> QED
        BY <2>2, <3>1 DEF RowsDone
    <2> QED
      BY <2>1, <2>2
  <1>2. tx.sess = [s \in Session |-> tx.sess[s]]
    BY TablesType
  <1> QED
    BY <1>1, <1>2 DEF Contract!RowsAfter

LEMMA DocsWhole ==
  ASSUME IInv, NEW batch \in Batches, NEW A, A = Abstractly(batch),
         call.op = "replace", ~Inserting, DocsDone(batch, Len(batch)), NEW s \in Session
  PROVE  DocAt(tx.msgs, s) = IF Contract!InBatch(A, s) THEN Contract!EntryFor(A, s).doc
                             ELSE StoredDoc(s)
  <1>1. CASE \E k \in 1..Len(batch) : batch[k].id = s
    <2>1. PICK k \in 1..Len(batch) : batch[k].id = s
      BY <1>1
    <2>2. Contract!InBatch(A, s) /\ Contract!EntryFor(A, s).doc = DocOf(batch[k].msgs)
      BY <2>1, AbstractBatch
    <2>3. DocAt(tx.msgs, s) = DocOf(batch[k].msgs)
      BY <2>1 DEF DocsDone, DocEffect
    <2> QED
      BY <2>2, <2>3
  <1>2. CASE \A k \in 1..Len(batch) : batch[k].id # s
    <2>1. ~Contract!InBatch(A, s)
      BY <1>2, AbstractBatch
    <2>2. DocAt(tx.msgs, s) = DocAt(db.msgs, s)
      BY <1>2 DEF DocsDone
    <2> QED
      BY <2>1, <2>2 DEF StoredDoc, DocAt
  <1> QED
    BY <1>1, <1>2

-----------------------------------------------------------------------------
(* Each step is one of the contract's, or none. *)

LEMMA CommitImplements ==
  ASSUME IInv, Commit, NEW batch \in Batches, NEW n \in Nat, Related(batch, n)
  PROVE  Contract!Next
  <1>1. /\ call.stage = "commit" /\ call.todo = <<>> /\ ~Inserting /\ db' = tx
        /\ RowsWritten(n) = n /\ call.op \in {"replace", "upsert", "messages", "delete"}
    BY TablesType DEF Commit, Related, OpOK, Inserting, RowsWritten, Amid, Call
  <1>2. n = Len(batch)
    <2>1. PICK l \in Nat \ {0} : l = Len(batch)
      BY BatchEntries
    <2>2. Len(call.todo) = 0
      BY <1>1, EmptySeq
    <2> QED
      BY <2>1, <2>2 DEF Related, At
  <1>3. RowsDone(batch, Len(batch)) /\ DocsDone(batch, Len(batch))
    BY <1>1, <1>2 DEF Related
  <1>4. PICK A : A = Abstractly(batch)
    OBVIOUS
  <1>5. A \in {Abstractly(b) : b \in Batches}
    BY <1>4
  <1>6. \A s \in Session : StoredDoc(s)' = DocAt(tx.msgs, s)
    BY <1>1 DEF StoredDoc, DocAt
  <1>7. CASE call.op \in {"replace", "upsert"}
    <2>1. Contract!Admissible(A)
      BY <1>1, <1>2, <1>4, <1>7, AdmittedBatch DEF Related
    <2>2. db'.sess = Contract!RowsAfter(A)
      BY <1>1, <1>3, <1>4, <1>7, RowsWhole
    <2>3. CASE call.op = "replace"
      <3>1. [s \in Session |-> StoredDoc(s)]' =
              [s \in Session |-> IF Contract!InBatch(A, s) THEN Contract!EntryFor(A, s).doc
                                 ELSE [q \in Session |-> StoredDoc(q)][s]]
        BY <1>1, <1>3, <1>4, <1>6, <2>3, DocsWhole
      <3>2. Contract!ReplaceSessions(A)
        BY <2>1, <2>2, <3>1 DEF Contract!ReplaceSessions
      <3> QED
        BY <1>5, <3>2 DEF Contract!Next
    <2>4. CASE call.op = "upsert"
      <3>1. \A s \in Session : DocAt(tx.msgs, s) = StoredDoc(s)
        BY <1>1, <1>3, <2>4 DEF DocsDone, DocEffect, StoredDoc, DocAt
      <3>2. [s \in Session |-> StoredDoc(s)]' = [s \in Session |-> StoredDoc(s)]
        BY <1>6, <3>1
      <3>3. Contract!UpsertSessions(A)
        BY <2>1, <2>2, <3>2 DEF Contract!UpsertSessions
      <3> QED
        BY <1>5, <3>3 DEF Contract!Next
    <2> QED
      BY <1>7, <2>3, <2>4
  <1>8. ASSUME call.op \in {"messages", "delete"}
        PROVE  \E e \in Entry :
                 /\ e = batch[1] /\ e.id \in Session /\ Len(batch) = 1
                 /\ tx.sess[e.id] = RowEffect(e.id, e)
                 /\ DocAt(tx.msgs, e.id) = DocEffect(e.id, e)
                 /\ \A s \in Session \ {e.id} : tx.sess[s] = db.sess[s] /\ DocAt(tx.msgs, s) = StoredDoc(s)
    <2>1. Len(batch) = 1 /\ 1 \in 1..1 /\ \A k \in 1..1 : k = 1
      BY <1>8 DEF Related, OpOK
    <2>2. PICK e \in Entry : e = batch[1] /\ e.id \in Session
      BY <2>1, BatchEntries
    <2>3. tx.sess[e.id] = RowEffect(e.id, e) /\ DocAt(tx.msgs, e.id) = DocEffect(e.id, e)
      BY <1>1, <1>3, <2>1, <2>2 DEF RowsDone, DocsDone
    <2>4. ASSUME NEW s \in Session \ {e.id}
          PROVE  tx.sess[s] = db.sess[s] /\ DocAt(tx.msgs, s) = DocAt(db.msgs, s)
      BY <1>1, <1>3, <2>1, <2>2 DEF RowsDone, DocsDone
    <2> QED
      BY <2>1, <2>2, <2>3, <2>4 DEF StoredDoc, DocAt
  <1>9. CASE call.op = "messages"
    <2>1. PICK e \in Entry :
            /\ e = batch[1] /\ e.id \in Session /\ Len(batch) = 1
            /\ tx.sess[e.id] = db.sess[e.id]
            /\ DocAt(tx.msgs, e.id) = DocOf(e.msgs)
            /\ \A s \in Session \ {e.id} : tx.sess[s] = db.sess[s] /\ DocAt(tx.msgs, s) = StoredDoc(s)
      BY <1>8, <1>9 DEF RowEffect, DocEffect
    <2>2. PICK doc : doc = DocOf(e.msgs)
      OBVIOUS
    <2>3. doc \in {DocOf(b[1].msgs) : b \in {c \in Batches : Len(c) = 1}}
      BY <2>1, <2>2
    <2>4. db.sess[e.id] # NoRow \/ doc = {}
      <3>1. ASSUME NEW r \in IdsOf(tx.msgs, e.id) PROVE db.sess[e.id] # NoRow
        BY <2>1, <3>1 DEF IInv, Rooted, IdsOf
      <3> QED
        BY <2>1, <2>2, <3>1 DEF DocAt
    <2>5. db'.sess = db.sess
      <3>1. \A s \in Session : tx.sess[s] = db.sess[s]
        BY <2>1
      <3> QED
        BY <1>1, <3>1, TablesType DEF IInv, TypeOK, Tables
    <2>6. [s \in Session |-> StoredDoc(s)]' =
            [[s \in Session |-> StoredDoc(s)] EXCEPT ![e.id] = doc]
      BY <1>6, <2>1, <2>2
    <2>7. Contract!ReplaceMessages(e.id, doc)
      BY <2>1, <2>4, <2>5, <2>6 DEF Contract!ReplaceMessages
    <2> QED
      BY <2>1, <2>3, <2>7 DEF Contract!Next
  <1>10. CASE call.op = "delete"
    <2>1. PICK e \in Entry :
            /\ e.id \in Session /\ tx.sess[e.id] = NoRow /\ DocAt(tx.msgs, e.id) = {}
            /\ \A s \in Session \ {e.id} : tx.sess[s] = db.sess[s] /\ DocAt(tx.msgs, s) = StoredDoc(s)
      BY <1>8, <1>10 DEF RowEffect, DocEffect
    <2>2. db'.sess = [db.sess EXCEPT ![e.id] = NoRow]
      <3>1. PICK rows : rows = [db.sess EXCEPT ![e.id] = NoRow]
        OBVIOUS
      <3>2. \A s \in Session : tx.sess[s] = rows[s]
        BY <2>1, <3>1 DEF IInv, TypeOK, Tables
      <3>3. tx.sess = [s \in Session |-> tx.sess[s]] /\ rows = [s \in Session |-> rows[s]]
        BY <3>1, TablesType DEF IInv, TypeOK, Tables
      <3> QED
        BY <1>1, <3>1, <3>2, <3>3
    <2>3. [s \in Session |-> StoredDoc(s)]' =
            [[s \in Session |-> StoredDoc(s)] EXCEPT ![e.id] = {}]
      BY <1>6, <2>1
    <2>4. Contract!DeleteSession(e.id)
      BY <2>2, <2>3 DEF Contract!DeleteSession
    <2> QED
      BY <2>1, <2>4 DEF Contract!Next
  <1> QED
    BY <1>1, <1>7, <1>9, <1>10

LEMMA UpsertSessionImplements ==
  ASSUME IInv, UpsertSession
  PROVE  Contract!Next
  <1>1. PICK batch \in Batches :
          /\ Len(batch) = 1 /\ PathFree(db.sess, batch[1])
          /\ db' = [db EXCEPT !.sess[batch[1].id] = batch[1].row]
    BY DEF UpsertSession
  <1>2. PICK e \in Entry : e = batch[1] /\ e.id \in Session /\ e.row \in Row
    BY <1>1, BatchEntries
  <1>3. PICK A : A = Abstractly(batch)
    OBVIOUS
  <1>4. /\ DOMAIN A = {1} /\ A[1].id = e.id /\ A[1].row = e.row
        /\ Contract!EntryFor(A, e.id) = A[1]
        /\ \A s : Contract!InBatch(A, s) <=> s = e.id
    BY <1>1, <1>2, <1>3, AbstractBatch
  <1>5. Contract!Admissible(A)
    <2>1. \A s : Contract!RowBefore(A, 1, s) = db.sess[s]
      BY <1>4 DEF Contract!RowBefore
    <2> QED
      BY <1>1, <1>2, <1>4, <2>1 DEF Contract!Admissible, Contract!PathTaken, PathFree
  <1>6. db'.msgs = db.msgs /\ db'.sess = [db.sess EXCEPT ![e.id] = e.row]
    BY <1>1, <1>2 DEF IInv, TypeOK, Tables
  <1>7. db'.sess = Contract!RowsAfter(A)
    <2>1. db.sess \in [Session -> Row \cup {NoRow}]
      BY DEF IInv, TypeOK, Tables
    <2> QED
      BY <1>2, <1>4, <1>6, <2>1 DEF Contract!RowsAfter
  <1>8. [s \in Session |-> StoredDoc(s)]' = [s \in Session |-> StoredDoc(s)]
    BY <1>6 DEF StoredDoc
  <1>9. Contract!UpsertSessions(A)
    BY <1>5, <1>7, <1>8 DEF Contract!UpsertSessions
  <1> QED
    BY <1>3, <1>9 DEF Contract!Next

LEMMA StepImplements ==
  ASSUME IInv, RInv, [Next]_vars
  PROVE  [Contract!Next]_(Contract!storeVars)
  <1>1. CASE Commit
    <2>1. PICK batch \in Batches, n \in Nat : Related(batch, n)
      BY <1>1 DEF Commit, RInv
    <2> QED
      BY <1>1, <2>1, CommitImplements
  <1>2. CASE UpsertSession
    BY <1>2, UpsertSessionImplements
  <1>3. CASE db' = db
    BY <1>3 DEF Contract!storeVars, StoredDoc
  <1>4. Next => Commit \/ UpsertSession \/ db' = db
    BY DEF Next, BeginReplaceSessions, BeginUpsertSessions, BeginReplaceMessages,
           BeginDeleteSession, Begin, Upsert, SelectIds, ClearFts, FtsCleared, ClearMsgs,
           DropRow, InsertMessage, InsertFts, MessagesInserted, Rollback
  <1> QED
    BY <1>1, <1>2, <1>3, <1>4 DEF vars

LEMMA StepRelated == IInv /\ RInv /\ [Next]_vars => RInv'
  <1> SUFFICES ASSUME IInv, RInv, [Next]_vars PROVE RInv'
    OBVIOUS
  <1>1. CASE UNCHANGED vars
    <2>1. db' = db /\ tx' = tx /\ call' = call
      BY <1>1 DEF vars
    <2>2. ASSUME NEW batch \in Batches, NEW n \in Nat, Related(batch, n)
          PROVE  Related(batch, n)'
      <3>1. At(batch, n)' /\ OpOK(batch)'
        BY <2>1, <2>2 DEF Related, At, OpOK
      <3>2. RowsWritten(n)' = RowsWritten(n)
        BY <2>1 DEF RowsWritten, Amid
      <3>3. PICK m : m = RowsWritten(n)
        OBVIOUS
      <3>4. RowsDone(batch, m)'
        BY <2>1, <2>2, <3>3 DEF Related, RowsDone, RowEffect
      <3>5. (call.op \in {"replace", "upsert"} => Admitted(batch, m))'
        BY <2>1, <2>2, <3>3 DEF Related, Admitted
      <3>6. DocsDone(batch, n)'
        BY <2>1, <2>2 DEF Related, DocsDone, DocEffect, DocAt, IdsOf, Inserting, Current
      <3>7. InsertedSoFar'
        BY <2>1, <2>2 DEF Related, InsertedSoFar, Inserting, Current, DocAt, IdsOf
      <3> QED
        BY <3>1, <3>2, <3>3, <3>4, <3>5, <3>6, <3>7 DEF Related
    <2> QED
      BY <2>1, <2>2 DEF RInv
  <1>2. ASSUME NEW op, NEW stage, NEW batch \in Batches, Begin(op, stage, batch),
               \/ op \in {"replace", "upsert"} /\ stage = "upsert"
               \/ op \in {"messages", "delete"} /\ stage = "select" /\ Len(batch) = 1
        PROVE  RInv'
    BY <1>2, BeginRelated DEF RInv
  <1>3. BeginReplaceSessions \/ BeginUpsertSessions \/ BeginReplaceMessages \/ BeginDeleteSession
          => RInv'
    BY <1>2 DEF BeginReplaceSessions, BeginUpsertSessions, BeginReplaceMessages,
                BeginDeleteSession
  <1>4. UpsertSession \/ Commit \/ Rollback => RInv'
    BY DEF UpsertSession, Commit, Rollback, RInv, Idle
  <1>5. ASSUME \/ Upsert \/ SelectIds \/ ClearFts \/ FtsCleared \/ ClearMsgs \/ DropRow
               \/ InsertMessage \/ InsertFts \/ MessagesInserted
        PROVE  RInv'
    <2>1. call.stage # "idle"
      BY <1>5 DEF Upsert, SelectIds, ClearFts, FtsCleared, ClearMsgs, DropRow,
                  InsertMessage, InsertFts, MessagesInserted
    <2>2. PICK batch \in Batches, n \in Nat : Related(batch, n)
      BY <2>1 DEF RInv
    <2>3. \E m \in Nat : Related(batch, m)'
      BY <1>5, <2>2, UpsertRelated, ClearingRelated, ClearMsgsRelated, DropRowRelated,
         InsertMessageRelated, InsertFtsRelated, MessagesInsertedRelated
    <2> QED
      BY <2>3 DEF RInv
  <1> QED
    BY <1>1, <1>3, <1>4, <1>5 DEF Next

-----------------------------------------------------------------------------
(* The theorem. *)

LEMMA InitImplements == Init => RInv /\ Contract!Init
  <1> SUFFICES ASSUME Init PROVE RInv /\ Contract!Init
    OBVIOUS
  <1>1. RInv
    BY DEF Init, Idle, RInv
  <1>2. \A s \in Session : StoredDoc(s) = {}
    <2>1. db.msgs = <<>> /\ DOMAIN <<>> = {}
      BY DEF Init
    <2>2. \A s \in Session : IdsOf(db.msgs, s) = {}
      BY <2>1 DEF IdsOf
    <2> QED
      BY <2>2 DEF StoredDoc
  <1>3. Contract!Init
    BY <1>2 DEF Init, Contract!Init
  <1> QED
    BY <1>1, <1>3

(***************************************************************************)
(* For every set of sessions, rows and batches, SqliteIndex implements     *)
(* IndexContract: every write of internal/index, whatever statements it    *)
(* takes and wherever it fails, is to a reader of the database one atomic  *)
(* step ("ReplaceSession atomically publishes session metadata and its     *)
(* extracted messages", sqlite.go:170) that puts exactly the rows and the  *)
(* messages of its batch, in the order of its constraints, or nothing.     *)
(***************************************************************************)
THEOREM WritesAreAtomic == Spec => ImplementsContract
  <1>1. Init => IInv /\ RInv /\ Contract!Init
    BY InitSafe, InitImplements
  <1>2. IInv /\ RInv /\ [Next]_vars => IInv' /\ RInv'
    BY StepSafe, StepRelated
  <1>3. IInv /\ RInv /\ [Next]_vars => [Contract!Next]_(Contract!storeVars)
    BY StepImplements
  <1> QED
    BY <1>1, <1>2, <1>3, PTL DEF Spec, ImplementsContract, Contract!Spec
=============================================================================
