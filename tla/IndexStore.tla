----------------------------- MODULE IndexStore -----------------------------
(***************************************************************************)
(* What the derived index (internal/index, interface Index and the Store   *)
(* interface of internal/indexer) promises to its callers, one transaction *)
(* per step: for every session at most one row, and the messages extracted *)
(* from it.  A row is a record with at least a field "path"; everything    *)
(* else in it, and the messages, are opaque here.                          *)
(*                                                                         *)
(* Refresh.tla builds the refresh on these operations; SqliteIndex.tla     *)
(* carries them out statement by statement.                                *)
(***************************************************************************)
EXTENDS Sessions, Naturals, Sequences

CONSTANTS
    NoRow,      \* "there is no row for this session"
    NoDoc       \* "there are no messages for this session"

VARIABLES
    sess,       \* [Session -> row or NoRow]: the table "sessions"
    docs        \* [Session -> messages or NoDoc]: "messages" and its FTS twin

storeVars == <<sess, docs>>

(***************************************************************************)
(* A batch is a sequence of entries [id, row, doc].  The indexer builds it *)
(* from the catalog's map by session id, so no session occurs twice.       *)
(***************************************************************************)
DistinctIds(batch) ==
    \A j, k \in DOMAIN batch : batch[j].id = batch[k].id => j = k

InBatch(batch, s) == \E k \in DOMAIN batch : batch[k].id = s

EntryFor(batch, s) == batch[CHOOSE k \in DOMAIN batch : batch[k].id = s]

(***************************************************************************)
(* The UNIQUE constraint on rollout_path is immediate: entry k is checked  *)
(* against the table as the entries before it have left it.                *)
(***************************************************************************)
RowBefore(batch, k, s) ==
    IF \E j \in DOMAIN batch : j < k /\ batch[j].id = s
    THEN EntryFor(batch, s).row
    ELSE sess[s]

PathTaken(batch, k) ==
    \E s \in Session \ {batch[k].id} :
        /\ RowBefore(batch, k, s) # NoRow
        /\ RowBefore(batch, k, s).path = batch[k].row.path

Admissible(batch) == \A k \in DOMAIN batch : ~PathTaken(batch, k)

(***************************************************************************)
(* The transactions.  One that meets a constraint, a cancelled context or  *)
(* a database error is rolled back and leaves the index as it was; the     *)
(* caller sees the error (a step of the caller's, not of the index's).     *)
(***************************************************************************)
RowsAfter(batch) ==
    [s \in Session |-> IF InBatch(batch, s) THEN EntryFor(batch, s).row ELSE sess[s]]

\* A slip: the messages of the batch are not written.
ReplaceRowsOnly(batch) ==
    /\ Admissible(batch)
    /\ sess' = RowsAfter(batch)
    /\ docs' = docs

ReplaceSessions(batch) ==
    /\ Admissible(batch)
    /\ sess' = RowsAfter(batch)
    /\ docs' = [s \in Session |->
                  IF InBatch(batch, s) THEN EntryFor(batch, s).doc ELSE docs[s]]

\* Rows only.  A row that did not exist is inserted, with no messages.
UpsertSessions(batch) ==
    /\ Admissible(batch)
    /\ sess' = RowsAfter(batch)
    /\ docs' = docs

\* Needs the row: messages.session_id references sessions.
ReplaceMessages(s, doc) ==
    /\ sess[s] # NoRow \/ doc = NoDoc
    /\ docs' = [docs EXCEPT ![s] = doc]
    /\ sess' = sess

\* Deleting an absent session succeeds and changes nothing.
DeleteSession(s) ==
    /\ sess' = [sess EXCEPT ![s] = NoRow]
    /\ docs' = [docs EXCEPT ![s] = NoDoc]
=============================================================================
