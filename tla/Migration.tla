------------------------------ MODULE Migration -----------------------------
(***************************************************************************)
(* Opening the derived index (internal/index/sqlite.go, initialize): the   *)
(* schema version is read, and then one transaction creates what is        *)
(* missing and applies schemaMigrations one after another.  Several cxq    *)
(* processes may open one database; the version each of them read may be   *)
(* out of date when its transaction begins.                                *)
(*                                                                         *)
(* SQLite's locks are modelled for its default rollback journal: a         *)
(* transaction reads under a shared lock, the first to write takes the     *)
(* reserved lock, and it commits when it is alone.                         *)
(***************************************************************************)
EXTENDS Naturals, FiniteSets, Functions

CONSTANTS
    Opener,     \* the processes that open the database
    Message,    \* the messages that may be stored
    MaxRowid,   \* bound on rowids
    MaxFaults,  \* bound on crashes, time-outs and errors
    NoTable     \* "messages_fts does not exist"

ASSUME OpenerAssumption == IsFiniteSet(Opener) /\ IsFiniteSet(Message)
ASSUME BoundsAssumption == MaxRowid \in Nat /\ MaxFaults \in Nat

VARIABLES
    db,         \* the database as committed
    opener,     \* what each process is doing
    written,    \* history: the messages that should be there
    faults      \* the faults so far

vars == <<db, opener, written, faults>>

SchemaVersion == 5

Table == UNION {[ids -> Message] : ids \in SUBSET (1..MaxRowid)}

Lexical == [tokenizer : {"unicode61", "trigram"}, rows : Table]

ASSUME NoTableAssumption == NoTable \notin Lexical

Database ==
    [version : 0..SchemaVersion + 1,
     base : BOOLEAN,            \* sessions and messages exist
     fingerprint : BOOLEAN,     \* sessions has rollout_size and rollout_mtime_ns
     keyed : BOOLEAN,           \* messages has message_id
     msgs : Table, fts : Lexical \cup {NoTable}]

\* Of a lexical table: every message once, whatever the rowids.
Lists(table, msgs) == IsInjective(table) /\ Range(table) = Range(msgs)

(***************************************************************************)
(* What a database of a given version looks like.  Older versions gave the *)
(* lexical table rowids of its own; version 5 shares those of messages.    *)
(* A newer version is taken to keep the tables of version 5.               *)
(***************************************************************************)
HasShape(d, version) ==
    /\ IsInjective(d.msgs)
    /\ d.base <=> version > 0
    /\ d.fingerprint <=> version >= 4
    /\ d.keyed <=> version >= 5
    /\ version = 0 => d.msgs = <<>>
    /\ version < 2 <=> d.fts = NoTable
    /\ version = 2 => d.fts.tokenizer = "unicode61" /\ Lists(d.fts.rows, d.msgs)
    /\ version > 2 => d.fts.tokenizer = "trigram" /\ Lists(d.fts.rows, d.msgs)
    /\ version = 5 => d.fts.rows = d.msgs

Closed == [pc |-> "closed", next |-> 0, tx |-> NoTable, wrote |-> FALSE]

Init ==
    /\ db \in {d \in Database : HasShape(d, d.version)}
    /\ opener = [o \in Opener |-> Closed]
    /\ written = Range(db.msgs)
    /\ faults = 0

-----------------------------------------------------------------------------
(* The migrations.  Each takes a database to the ones it may become. *)

\* The largest rowid in use, 0 when there is none.
Top(rows) ==
    CHOOSE n \in 0..MaxRowid :
        /\ \A r \in DOMAIN rows : r <= n
        /\ n = 0 \/ n \in DOMAIN rows

\* INSERT INTO messages_fts without a rowid: the next ones, in no stated order.
Inserted(rows, new) ==
    LET added == Top(rows) + 1..Top(rows) + Cardinality(new) IN
    {f \in [DOMAIN rows \cup added -> Message] :
        /\ \A r \in DOMAIN rows : f[r] = rows[r]
        /\ {f[r] : r \in added} = new}

Filled(d, tokenizer, rows) ==
    {[d EXCEPT !.fts = [tokenizer |-> tokenizer, rows |-> all]] :
        all \in Inserted(rows, Range(d.msgs) \ Range(rows))}

\* CREATE VIRTUAL TABLE IF NOT EXISTS, then the messages it does not have.
ToVersion2(d) ==
    IF d.fts = NoTable THEN Filled(d, "unicode61", <<>>)
    ELSE Filled(d, d.fts.tokenizer, d.fts.rows)

ToVersion3(d) == Filled(d, "trigram", <<>>)

ToVersion4(d) == {[d EXCEPT !.fingerprint = TRUE]}

\* A slip: the last INSERT leaves the rowids to SQLite.
ToVersion5Unlinked(d) == Filled([d EXCEPT !.keyed = TRUE], "trigram", <<>>)

\* A slip: messages is dropped before it is copied.
ToVersion5DropFirst(d) ==
    {[d EXCEPT !.keyed = TRUE, !.msgs = <<>>,
               !.fts = [tokenizer |-> "trigram", rows |-> <<>>]]}

\* The messages keep their rowids, and the lexical table takes them over.
ToVersion5(d) ==
    {[d EXCEPT !.keyed = TRUE, !.fts = [tokenizer |-> "trigram", rows |-> d.msgs]]}

\* ALTER TABLE ADD COLUMN fails when the column exists; nothing else can clash.
Applies(version, d) == version = 4 => ~d.fingerprint

Migrations(version, d) ==
    CASE version = 1 -> {d}
      [] version = 2 -> ToVersion2(d)
      [] version = 3 -> ToVersion3(d)
      [] version = 4 -> ToVersion4(d)
      [] version = 5 -> ToVersion5(d)

-----------------------------------------------------------------------------
(* Opening. *)

Move(o, pc) == opener' = [opener EXCEPT ![o].pc = pc]

InTransaction(o) == opener[o].pc \in {"migrate", "commit"}

Others(o) == Opener \ {o}

Reserved(o) == InTransaction(o) /\ opener[o].wrote

\* A slip: the version the database has is applied again.
ReadVersionOffByOne(o) ==
    /\ opener[o].pc = "closed"
    /\ db.version <= SchemaVersion
    /\ opener' = [opener EXCEPT ![o].pc = "begin", ![o].next = db.version]
    /\ UNCHANGED <<db, written>>

\* A slip: a newer database is not refused.
ReadAnyVersion(o) ==
    /\ opener[o].pc = "closed"
    /\ opener' = [opener EXCEPT ![o].pc = "begin", ![o].next = db.version + 1]
    /\ UNCHANGED <<db, written>>

\* PRAGMA user_version, outside the transaction.  A newer database is refused.
ReadVersion(o) ==
    /\ opener[o].pc = "closed"
    /\ db.version <= SchemaVersion
    /\ opener' = [opener EXCEPT ![o].pc = "begin", ![o].next = db.version + 1]
    /\ UNCHANGED <<db, written>>

\* A slip: the columns of version 4 are in CREATE TABLE sessions as well.
BeginWithColumns(o) ==
    /\ opener[o].pc = "begin"
    /\ \A q \in Others(o) : Reserved(q) => opener[q].pc # "commit" /\ db.base
    /\ opener' = [opener EXCEPT ![o].pc = "migrate", ![o].wrote = ~db.base,
           ![o].tx = [db EXCEPT !.base = TRUE, !.fingerprint = @ \/ ~db.base]]
    /\ UNCHANGED <<db, written>>

\* BEGIN, and schemaStatements: CREATE TABLE IF NOT EXISTS and its like.
Begin(o) ==
    /\ opener[o].pc = "begin"
    /\ \A q \in Others(o) : Reserved(q) => opener[q].pc # "commit" /\ db.base
    /\ opener' = [opener EXCEPT ![o].pc = "migrate", ![o].tx = [db EXCEPT !.base = TRUE],
                                ![o].wrote = ~db.base]
    /\ UNCHANGED <<db, written>>

\* A slip: every migration is committed by itself.
MigrateAndCommit(o) ==
    LET me == opener[o] IN
    /\ me.pc = "migrate" /\ me.next <= SchemaVersion
    /\ \A q \in Others(o) : ~InTransaction(q)
    /\ Applies(me.next, me.tx)
    /\ \E d \in Migrations(me.next, me.tx) :
         /\ db' = [d EXCEPT !.version = me.next]
         /\ opener' = [opener EXCEPT ![o].next = @ + 1, ![o].wrote = TRUE, ![o].tx = db']
    /\ UNCHANGED written

\* schemaMigrations[version] and PRAGMA user_version = version.
Migrate(o) ==
    LET me == opener[o] IN
    /\ me.pc = "migrate" /\ me.next <= SchemaVersion
    /\ \A q \in Others(o) : ~Reserved(q)
    /\ Applies(me.next, me.tx)
    /\ \E d \in Migrations(me.next, me.tx) :
         opener' = [opener EXCEPT ![o].next = @ + 1, ![o].wrote = TRUE,
                                  ![o].tx = [d EXCEPT !.version = me.next]]
    /\ UNCHANGED <<db, written>>

Migrated(o) ==
    /\ opener[o].pc = "migrate" /\ opener[o].next > SchemaVersion
    /\ Move(o, "commit")
    /\ UNCHANGED <<db, written>>

\* A transaction that has written waits until no other one reads.
Commit(o) ==
    /\ opener[o].pc = "commit"
    /\ opener[o].wrote => \A q \in Others(o) : ~InTransaction(q)
    /\ db' = IF opener[o].wrote THEN opener[o].tx ELSE db
    /\ opener' = [opener EXCEPT ![o] = [Closed EXCEPT !.pc = "open"]]
    /\ UNCHANGED written

(***************************************************************************)
(* A statement fails: the column is there already, or another transaction  *)
(* has the reserved lock, for which a transaction that already reads does  *)
(* not wait.  The deferred Rollback drops the transaction.                 *)
(***************************************************************************)
StatementFails(o) ==
    LET me == opener[o] IN
    /\ me.pc = "migrate" /\ me.next <= SchemaVersion
    /\ ~Applies(me.next, me.tx) \/ \E q \in Others(o) : Reserved(q)
    /\ opener' = [opener EXCEPT ![o] = Closed]
    /\ UNCHANGED <<db, written>>

\* A busy time-out, a full disk, the end of the process: rolled back as well.
Fault(o) ==
    /\ opener[o].pc \in {"begin", "migrate", "commit"}
    /\ faults < MaxFaults /\ faults' = faults + 1
    /\ opener' = [opener EXCEPT ![o] = Closed]
    /\ UNCHANGED <<db, written>>

Opening(o) ==
    /\ \/ ReadVersion(o) \/ Begin(o) \/ Migrate(o) \/ Migrated(o) \/ Commit(o)
       \/ StatementFails(o)
    /\ UNCHANGED faults

-----------------------------------------------------------------------------
(* The index in use, as SqliteIndex leaves it: both tables in step. *)

Quiescent(o) ==
    /\ opener[o].pc = "open" /\ \A q \in Opener : ~InTransaction(q)
    /\ db.keyed /\ db.fts # NoTable

Store(o) ==
    /\ Quiescent(o)
    /\ \E r \in 1..MaxRowid \ DOMAIN db.msgs, m \in Message \ written :
         /\ db' = [db EXCEPT
              !.msgs = [q \in DOMAIN @ \cup {r} |-> IF q = r THEN m ELSE @[q]],
              !.fts.rows = [q \in DOMAIN @ \cup {r} |-> IF q = r THEN m ELSE @[q]]]
         /\ written' = written \cup {m}
    /\ UNCHANGED <<opener, faults>>

Delete(o) ==
    /\ Quiescent(o)
    /\ \E r \in DOMAIN db.msgs :
         /\ db' = [db EXCEPT !.msgs = Restrict(@, DOMAIN @ \ {r}),
                             !.fts.rows = Restrict(@, DOMAIN @ \ {r})]
         /\ written' = written \ {db.msgs[r]}
    /\ UNCHANGED <<opener, faults>>

Close(o) ==
    /\ opener[o].pc = "open"
    /\ Move(o, "closed")
    /\ UNCHANGED <<db, written, faults>>

Next ==
    \E o \in Opener : Opening(o) \/ Fault(o) \/ Store(o) \/ Delete(o) \/ Close(o)

Spec == Init /\ [][Next]_vars

\* A process that opens the database goes on, and after a failure is run again.
FairSpec == Spec /\ \A o \in Opener : WF_vars(Opening(o))

-----------------------------------------------------------------------------
(* Properties. *)

Stage == {"closed", "begin", "migrate", "commit", "open"}

(***************************************************************************)
(* The variables have their types; the next migration is one that exists.  *)
(***************************************************************************)
TypeOK ==
    /\ db \in Database
    /\ opener \in [Opener -> [pc : Stage, next : 0..SchemaVersion + 1,
                              tx : Database \cup {NoTable}, wrote : BOOLEAN]]
    /\ \A o \in Opener : opener[o].pc \in {"begin", "migrate"} => opener[o].next > 0
    /\ written \subseteq Message
    /\ faults \in 0..MaxFaults

(***************************************************************************)
(* The version recorded is the shape the tables have, whoever migrated     *)
(* them and from which version each believed to start: in particular at    *)
(* version 5 the lexical table has the rowids of messages (schema.go:105). *)
(***************************************************************************)
ShapeMatchesVersion == HasShape(db, db.version)

(***************************************************************************)
(* Opening loses no message and invents none, although two migrations      *)
(* rebuild the lexical table and one rebuilds messages; what a process     *)
(* wrote survives another's migration that started from an older version.  *)
(***************************************************************************)
MessagesKept == Range(db.msgs) = written

(***************************************************************************)
(* A process that has opened the index finds the version it was built for  *)
(* (sqlite.go:72), however long ago it opened it.                          *)
(***************************************************************************)
OpenedReady == \A o \in Opener : opener[o].pc = "open" => db.version = SchemaVersion

(***************************************************************************)
(* The committed version never falls: a transaction that applies old       *)
(* migrations to a newer database fails before it commits, or is harmless. *)
(***************************************************************************)
VersionNeverFalls == [][db'.version >= db.version]_vars

(***************************************************************************)
(* Opened often enough, a database that is not newer than this program     *)
(* opens for every process.                                                *)
(***************************************************************************)
EventuallyOpens ==
    \A o \in Opener : db.version <= SchemaVersion ~> opener[o].pc = "open"
=============================================================================
