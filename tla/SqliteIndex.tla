----------------------------- MODULE SqliteIndex ----------------------------
(***************************************************************************)
(* internal/index/sqlite.go: the derived index on SQLite, one statement    *)
(* per step.  The connection (there is one, SetMaxOpenConns(1)) works on   *)
(* its own copy of the tables inside a transaction; a commit publishes it, *)
(* and anything that goes wrong at any statement drops it.                 *)
(*                                                                         *)
(* "messages" and its lexical twin "messages_fts" are two tables that only *)
(* the order of the statements keeps together: FTS5 knows neither foreign  *)
(* keys nor cascades.                                                      *)
(***************************************************************************)
EXTENDS Sessions, Naturals, Sequences, FiniteSets

CONSTANTS
    Row,        \* rows of "sessions": records with a field "path" and others
    NoRow,      \* "there is no row"
    Message,    \* messages: records [ord, text]
    Batches,    \* the batches callers submit: sequences of [id, row, msgs]
    MaxRowid    \* bound on the rowids of "messages"

Entry == [id : Session, row : Row, msgs : Seq(Message)]

ASSUME BatchesAssumption ==
    /\ Batches \subseteq Seq(Entry)
    /\ \A batch \in Batches :
         /\ batch # <<>>
         /\ \A j, k \in DOMAIN batch : batch[j].id = batch[k].id => j = k
ASSUME RowAssumption == NoRow \notin Row
ASSUME RowidAssumption == MaxRowid \in Nat

VARIABLES
    db,         \* the committed tables
    tx,         \* the tables as the open transaction sees them
    call        \* the operation in progress

vars == <<db, tx, call>>

Rowid == 1..MaxRowid

\* A row of "messages", and of "messages_fts".
Record == [sid : Session, ord : {m.ord : m \in Message}, text : {m.text : m \in Message}]

Table == UNION {[ids -> Record] : ids \in SUBSET Rowid}

Tables == [sess : [Session -> Row \cup {NoRow}], msgs : Table, fts : Table]

Stage == {"idle", "upsert", "select", "clearFts", "clearMsgs", "dropRow",
          "insMsg", "insFts", "commit"}

Idle == [op |-> "none", stage |-> "idle", todo |-> <<>>,
         left |-> {}, rest |-> <<>>, rowid |-> 0]

Init ==
    /\ db = [sess |-> [s \in Session |-> NoRow], msgs |-> <<>>, fts |-> <<>>]
    /\ tx = db
    /\ call = Idle

-----------------------------------------------------------------------------
(* What a statement does to a table. *)

Without(table, ids) == [r \in DOMAIN table \ ids |-> table[r]]

With(table, r, rec) ==
    [q \in DOMAIN table \cup {r} |-> IF q = r THEN rec ELSE table[q]]

\* SELECT message_id FROM messages WHERE session_id = ?
IdsOf(table, s) == {r \in DOMAIN table : table[r].sid = s}

\* An INTEGER PRIMARY KEY without AUTOINCREMENT: one past the largest in use.
FreshRowid(table, r) ==
    /\ \A q \in DOMAIN table : q < r
    /\ r = 1 \/ r - 1 \in DOMAIN table

\* rollout_path is UNIQUE.
PathFree(rows, e) ==
    \A s \in Session \ {e.id} : rows[s] # NoRow => rows[s].path # e.row.path

RecordOf(s, m) == [sid |-> s, ord |-> m.ord, text |-> m.text]

-----------------------------------------------------------------------------
(* The operations: each opens a transaction on the committed tables. *)

Begin(op, stage, batch) ==
    /\ call.stage = "idle"
    /\ tx' = db
    /\ call' = [Idle EXCEPT !.op = op, !.stage = stage, !.todo = batch]
    /\ db' = db

BeginReplaceSessions == \E batch \in Batches : Begin("replace", "upsert", batch)

BeginUpsertSessions == \E batch \in Batches : Begin("upsert", "upsert", batch)

\* ReplaceMessages and DeleteSession take a session id; its row is not used.
BeginReplaceMessages ==
    \E batch \in Batches : Len(batch) = 1 /\ Begin("messages", "select", batch)

BeginDeleteSession ==
    \E batch \in Batches : Len(batch) = 1 /\ Begin("delete", "select", batch)

\* UpsertSession is one statement that commits by itself.
UpsertSession ==
    /\ call.stage = "idle"
    /\ \E batch \in Batches :
         /\ Len(batch) = 1 /\ PathFree(db.sess, batch[1])
         /\ db' = [db EXCEPT !.sess[batch[1].id] = batch[1].row]
    /\ tx' = db'
    /\ call' = call

-----------------------------------------------------------------------------
(* The statements. *)

Current == Head(call.todo)

\* A slip: one entry too many.
NextEntryOffByOne(c) ==
    [c EXCEPT !.todo = Tail(@), !.stage = IF Len(c.todo) = 0 THEN "commit" ELSE "upsert"]

\* The transaction turns to the next entry of its batch, or commits.
NextEntry(c) ==
    [c EXCEPT !.todo = Tail(@), !.stage = IF Len(c.todo) = 1 THEN "commit" ELSE "upsert"]

\* INSERT INTO sessions ... ON CONFLICT(session_id) DO UPDATE
Upsert ==
    /\ call.stage = "upsert"
    /\ PathFree(tx.sess, Current)
    /\ tx' = [tx EXCEPT !.sess[Current.id] = Current.row]
    /\ call' = IF call.op = "replace" THEN [call EXCEPT !.stage = "select"]
               ELSE NextEntry(call)
    /\ db' = db

\* A slip: a deletion leaves the lexical rows to the cascade.
SelectIdsUnlessDeleting ==
    /\ call.stage = "select"
    /\ call' = [call EXCEPT !.stage = "clearFts",
                   !.left = IF call.op = "delete" THEN {} ELSE IdsOf(tx.msgs, Current.id)]
    /\ UNCHANGED <<db, tx>>

SelectIds ==
    /\ call.stage = "select"
    /\ call' = [call EXCEPT !.stage = "clearFts", !.left = IdsOf(tx.msgs, Current.id)]
    /\ UNCHANGED <<db, tx>>

\* DELETE FROM messages_fts WHERE rowid = ?, for each id selected.
ClearFts ==
    /\ call.stage = "clearFts" /\ call.left # {}
    /\ \E r \in call.left :
         /\ tx' = [tx EXCEPT !.fts = Without(@, {r})]
         /\ call' = [call EXCEPT !.left = @ \ {r}]
    /\ db' = db

\* A slip: the loop over the selected ids is left early.
FtsClearedEarly ==
    /\ call.stage = "clearFts"
    /\ call' = [call EXCEPT !.stage = IF call.op = "delete" THEN "dropRow" ELSE "clearMsgs"]
    /\ UNCHANGED <<db, tx>>

FtsCleared ==
    /\ call.stage = "clearFts" /\ call.left = {}
    /\ call' = [call EXCEPT !.stage = IF call.op = "delete" THEN "dropRow" ELSE "clearMsgs"]
    /\ UNCHANGED <<db, tx>>

\* DELETE FROM messages WHERE session_id = ?
ClearMsgs ==
    /\ call.stage = "clearMsgs"
    /\ tx' = [tx EXCEPT !.msgs = Without(@, IdsOf(@, Current.id))]
    /\ call' = [call EXCEPT !.stage = "insMsg", !.rest = Current.msgs]
    /\ db' = db

\* A slip: foreign keys are not enabled on the connection.
DropRowWithoutCascade ==
    /\ call.stage = "dropRow"
    /\ tx' = [tx EXCEPT !.sess[Current.id] = NoRow]
    /\ call' = NextEntry(call)
    /\ db' = db

\* DELETE FROM sessions WHERE session_id = ?, which cascades to messages.
DropRow ==
    /\ call.stage = "dropRow"
    /\ tx' = [tx EXCEPT !.sess[Current.id] = NoRow,
                        !.msgs = Without(@, IdsOf(@, Current.id))]
    /\ call' = NextEntry(call)
    /\ db' = db

\* INSERT INTO messages: the session must exist and the ordinal be free.
InsertMessage ==
    /\ call.stage = "insMsg" /\ call.rest # <<>>
    /\ LET rec == RecordOf(Current.id, Head(call.rest)) IN
       /\ tx.sess[rec.sid] # NoRow
       /\ \A q \in IdsOf(tx.msgs, rec.sid) : tx.msgs[q].ord # rec.ord
       /\ \E r \in Rowid :
            /\ FreshRowid(tx.msgs, r)
            /\ tx' = [tx EXCEPT !.msgs = With(@, r, rec)]
            /\ call' = [call EXCEPT !.stage = "insFts", !.rowid = r]
    /\ db' = db

\* INSERT INTO messages_fts under the rowid just assigned; a rowid in use fails.
InsertFts ==
    /\ call.stage = "insFts"
    /\ call.rowid \notin DOMAIN tx.fts
    /\ tx' = [tx EXCEPT !.fts =
                With(@, call.rowid, RecordOf(Current.id, Head(call.rest)))]
    /\ call' = [call EXCEPT !.stage = "insMsg", !.rest = Tail(@), !.rowid = 0]
    /\ db' = db

\* A slip: the loop over the batch commits session by session.
CommitEachSession ==
    /\ call.stage = "insMsg" /\ call.rest = <<>>
    /\ call' = NextEntry(call)
    /\ db' = tx
    /\ tx' = tx

MessagesInserted ==
    /\ call.stage = "insMsg" /\ call.rest = <<>>
    /\ call' = NextEntry(call)
    /\ UNCHANGED <<db, tx>>

Commit ==
    /\ call.stage = "commit"
    /\ db' = tx
    /\ call' = Idle
    /\ tx' = tx

(***************************************************************************)
(* A constraint, a cancelled context, SQLITE_BUSY, a full disk, or the end *)
(* of the process: whatever the statement, the transaction is rolled back. *)
(***************************************************************************)
Rollback ==
    /\ call.stage # "idle"
    /\ tx' = db
    /\ call' = Idle
    /\ db' = db

Next ==
    \/ BeginReplaceSessions \/ BeginUpsertSessions \/ BeginReplaceMessages
    \/ BeginDeleteSession \/ UpsertSession
    \/ Upsert \/ SelectIds \/ ClearFts \/ FtsCleared \/ ClearMsgs \/ DropRow
    \/ InsertMessage \/ InsertFts \/ MessagesInserted \/ Commit \/ Rollback

Spec == Init /\ [][Next]_vars

-----------------------------------------------------------------------------
(* Types. *)

Call ==
    [op : {"none", "replace", "upsert", "messages", "delete"}, stage : Stage,
     todo : Seq(Entry), left : SUBSET Rowid, rest : Seq(Message),
     rowid : 0..MaxRowid]

(***************************************************************************)
(* The tables are tables, and a transaction between two statements knows   *)
(* the entry and the message it stands at.                                 *)
(***************************************************************************)
TypeOK ==
    /\ db \in Tables /\ tx \in Tables /\ call \in Call
    /\ call.stage \notin {"idle", "commit"} => call.todo # <<>>
    /\ call.stage = "insFts" => call.rest # <<>> /\ call.rowid # 0

-----------------------------------------------------------------------------
(* Safety. *)

(***************************************************************************)
(* The lexical table is the message table, row by row: the FTS5 search and *)
(* the substring scan of search.go read the same messages, whatever        *)
(* sequence of writes, failures and crashes came before.                   *)
(***************************************************************************)
LexicalSync == db.fts = db.msgs

(***************************************************************************)
(* Every message belongs to a session that is indexed: no deletion leaves  *)
(* messages behind and no insertion precedes its row.                      *)
(***************************************************************************)
NoOrphans == \A r \in DOMAIN db.msgs : db.sess[db.msgs[r].sid] # NoRow

(***************************************************************************)
(* The rowid SQLite assigns a message is free in the lexical table, though *)
(* rowids are reused: an entry left over there would fail the insertion    *)
(* and with it every later refresh of the session.                         *)
(***************************************************************************)
AssignedRowidFree == call.stage = "insFts" => call.rowid \notin DOMAIN tx.fts

-----------------------------------------------------------------------------
(* The contract. *)

DocOf(msgs) == {<<m.ord, m.text>> : m \in {msgs[k] : k \in DOMAIN msgs}}

StoredDoc(s) == {<<db.msgs[r].ord, db.msgs[r].text>> : r \in IdsOf(db.msgs, s)}

Abstractly(batch) ==
    [k \in DOMAIN batch |->
        [id |-> batch[k].id, row |-> batch[k].row, doc |-> DocOf(batch[k].msgs)]]

Contract == INSTANCE IndexContract WITH
    NoDoc <- {},
    sess <- db.sess,
    docs <- [s \in Session |-> StoredDoc(s)],
    Batches <- {Abstractly(batch) : batch \in Batches},
    Docs <- {DocOf(batch[1].msgs) : batch \in {b \in Batches : Len(b) = 1}}

(***************************************************************************)
(* To a reader of the committed tables every operation is one atomic step  *)
(* of IndexContract: "ReplaceSession atomically publishes session metadata *)
(* and its extracted messages" (sqlite.go:170).                            *)
(***************************************************************************)
ImplementsContract == Contract!Spec
=============================================================================
