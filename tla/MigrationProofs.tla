--------------------------- MODULE MigrationProofs --------------------------
(***************************************************************************)
(* Why it does no harm that the version is read before the transaction     *)
(* that acts on it.  Nothing commits while another transaction is open, so *)
(* its tables are those of the database and what it did to them; and a     *)
(* migration that finds its work done leaves it as it is or fails.  What a *)
(* transaction needs at the next migration (Partway) is thus there whether *)
(* it put it there itself or found it.                                     *)
(***************************************************************************)
EXTENDS Migration, FiniteSetTheorems, TLAPS

\* The tables as the migrations from "next" on need them.
Partway(d, next) ==
    /\ d.base /\ IsInjective(d.msgs)
    /\ d.fts # NoTable => Lists(d.fts.rows, d.msgs)
    /\ next >= 3 => d.fts # NoTable
    /\ next >= 4 => d.fts.tokenizer = "trigram"
    /\ next >= 5 => d.fingerprint
    /\ next >= 6 => d.keyed /\ d.fts.rows = d.msgs

\* An open transaction j of a process, while d is what is committed.
TransactionOK(j, d) ==
    /\ j.tx \in Database /\ j.tx.msgs = d.msgs /\ Partway(j.tx, j.next)
    /\ j.wrote => j.tx.version = j.next - 1
    /\ ~j.wrote => j.tx = d /\ j.next <= d.version + 1

\* A process j, while d is what is committed.
Consistent(j, d) ==
    /\ j.pc # "closed" => d.version <= SchemaVersion
    /\ j.pc = "open" => d.version = SchemaVersion
    /\ j.pc = "begin" => j.next <= d.version + 1
    /\ j.pc = "commit" => j.next = SchemaVersion + 1
    /\ j.pc \in {"migrate", "commit"} => TransactionOK(j, d)

IInv ==
    /\ TypeOK /\ ShapeMatchesVersion /\ MessagesKept
    /\ \A o \in Opener : Consistent(opener[o], db)

-----------------------------------------------------------------------------
(* Tables. *)

LEMMA TableIs ==
  ASSUME NEW t
  PROVE  t \in Table <=> /\ t = [r \in DOMAIN t |-> t[r]]
                         /\ DOMAIN t \subseteq 1..MaxRowid
                         /\ \A r \in DOMAIN t : t[r] \in Message
  <1>1. t \in Table <=> \E ids \in SUBSET (1..MaxRowid) : t \in [ids -> Message]
    BY DEF Table
  <1> QED
    BY <1>1

LEMMA EmptyTable == DOMAIN <<>> = {} /\ <<>> \in Table
  <1>1. <<>> \in [{} -> Message]
    OBVIOUS
  <1> QED
    BY <1>1 DEF Table

\* A finite set of rowids has a largest: its upper bounds have a smallest.
LEMMA TopExists ==
  ASSUME NEW ids \in SUBSET (1..MaxRowid)
  PROVE  \E n \in 0..MaxRowid : /\ \A r \in ids : r <= n
                                /\ n = 0 \/ n \in ids
  <1>1. PICK bounds : bounds = {n \in 0..MaxRowid : \A r \in ids : r <= n}
    OBVIOUS
  <1>2. MaxRowid \in bounds /\ bounds \subseteq Nat
    BY <1>1, BoundsAssumption
  <1>3. PICK n \in bounds : \A k \in bounds : <<k, n>> \notin OpToRel(<, Nat)
    BY <1>2, NatLessThanWellFounded, WFMin
  <1>4. ASSUME NEW k \in bounds PROVE <<k, n>> \notin {p \in Nat \X Nat : p[1] < p[2]}
    BY <1>3 DEF OpToRel
  <1>5. \A k \in bounds : ~(k < n)
    BY <1>2, <1>4
  <1>6. \A k \in bounds : n <= k
    BY <1>2, <1>5
  <1>7. ASSUME n # 0, n \notin ids PROVE FALSE
    <2>1. n - 1 \in 0..MaxRowid /\ n \in 0..MaxRowid
      BY <1>1, <1>7, BoundsAssumption
    <2>2. \A r \in ids : r <= n - 1
      BY <1>1, <1>7, BoundsAssumption
    <2> QED
      BY <1>1, <1>6, <2>1, <2>2
  <1> QED
    BY <1>1, <1>7

LEMMA MessagesOf ==
  ASSUME NEW t \in Table, IsInjective(t)
  PROVE  /\ IsFiniteSet(Range(t)) /\ Range(t) \subseteq Message
         /\ Cardinality(Range(t)) \in 0..MaxRowid
  <1>1. t \in [DOMAIN t -> Message] /\ DOMAIN t \subseteq 1..MaxRowid
    BY TableIs
  <1>2. Range(t) \subseteq Message
    BY <1>1 DEF Range
  <1>3. IsFiniteSet(1..MaxRowid) /\ Cardinality(1..MaxRowid) = MaxRowid
    BY FS_Interval, BoundsAssumption
  <1>4. IsFiniteSet(DOMAIN t) /\ Cardinality(DOMAIN t) <= MaxRowid
    BY <1>1, <1>3, FS_Subset
  <1>5. t \in Surjection(DOMAIN t, Range(t))
    BY <1>1 DEF Surjection, Range
  <1>6. IsFiniteSet(Range(t)) /\ Cardinality(Range(t)) <= Cardinality(DOMAIN t)
    BY <1>4, <1>5, FS_Surjection
  <1>7. Cardinality(Range(t)) \in Nat /\ Cardinality(DOMAIN t) \in Nat
    BY <1>4, <1>6, FS_CardinalityType
  <1> QED
    BY <1>2, <1>4, <1>6, <1>7, BoundsAssumption

LEMMA TopIs ==
  ASSUME NEW rows \in Table
  PROVE  /\ Top(rows) \in 0..MaxRowid
         /\ \A r \in DOMAIN rows : r <= Top(rows)
         /\ Top(rows) = 0 \/ Top(rows) \in DOMAIN rows
  <1>1. DOMAIN rows \in SUBSET (1..MaxRowid)
    BY TableIs
  <1> QED
    BY <1>1, TopExists DEF Top

LEMMA NothingInserted ==
  ASSUME NEW rows \in Table, NEW f \in Inserted(rows, {})
  PROVE  f = rows
  <1>1. Cardinality({}) = 0
    BY FS_EmptySet
  <1>2. PICK top \in 0..MaxRowid :
          /\ f \in [DOMAIN rows \cup (top + 1..top + Cardinality({})) -> Message]
          /\ \A r \in DOMAIN rows : f[r] = rows[r]
    BY TopIs DEF Inserted
  <1>3. top + 1..top + Cardinality({}) = {}
    BY <1>1, <1>2
  <1>4. f \in [DOMAIN rows -> Message]
    BY <1>2, <1>3
  <1> QED
    BY <1>2, <1>4, TableIs

LEMMA AllInserted ==
  ASSUME NEW new \in SUBSET Message, IsFiniteSet(new), Cardinality(new) \in 0..MaxRowid,
         NEW f \in Inserted(<<>>, new)
  PROVE  f \in Table /\ IsInjective(f) /\ Range(f) = new
  <1>1. DOMAIN <<>> = {} /\ <<>> \in Table
    BY EmptyTable
  <1>2. PICK n \in 0..MaxRowid : n = Cardinality(new)
    OBVIOUS
  <1>3. f \in [1..n -> Message] /\ {f[r] : r \in 1..n} = new
    <2>1. Top(<<>>) = 0
      BY <1>1, TopIs
    <2>2. Top(<<>>) + 1..Top(<<>>) + Cardinality(new) = 1..n
      BY <1>2, <2>1
    <2> QED
      BY <1>1, <2>2 DEF Inserted
  <1>4. f \in Surjection(1..n, new)
    BY <1>3 DEF Surjection
  <1>5. IsFiniteSet(1..n) /\ Cardinality(1..n) = n
    BY <1>2, FS_Interval
  <1>6. f \in Injection(1..n, new)
    BY <1>2, <1>4, <1>5, FS_Surjection
  <1>7. IsInjective(f) /\ Range(f) = new
    BY <1>3, <1>6 DEF Injection, IsInjective, Range
  <1>8. f \in Table
    <2>1. 1..n \subseteq 1..MaxRowid
      BY <1>2, BoundsAssumption
    <2> QED
      BY <1>3, <2>1 DEF Table
  <1> QED
    BY <1>7, <1>8

-----------------------------------------------------------------------------
(* The migrations. *)

LEMMA FilledLists ==
  ASSUME NEW d \in Database, IsInjective(d.msgs),
         NEW tokenizer \in {"unicode61", "trigram"},
         NEW rows \in Table, rows = <<>> \/ Lists(rows, d.msgs),
         NEW e \in Filled(d, tokenizer, rows)
  PROVE  /\ e \in Database /\ e.fts # NoTable
         /\ e.fts.tokenizer = tokenizer /\ Lists(e.fts.rows, d.msgs)
         /\ \E t : e = [d EXCEPT !.fts = t]
  <1>1. PICK all \in Inserted(rows, Range(d.msgs) \ Range(rows)) :
          e = [d EXCEPT !.fts = [tokenizer |-> tokenizer, rows |-> all]]
    BY DEF Filled
  <1>2. d.msgs \in Table
    BY DEF Database
  <1>3. all \in Table /\ Lists(all, d.msgs)
    <2>1. CASE rows = <<>>
      <3>1. Range(rows) = {}
        BY <2>1 DEF Range
      <3>2. all \in Inserted(<<>>, Range(d.msgs))
        BY <2>1, <3>1
      <3> QED
        BY <1>2, <3>2, MessagesOf, AllInserted DEF Lists
    <2>2. CASE Lists(rows, d.msgs)
      <3>1. Range(d.msgs) \ Range(rows) = {}
        BY <2>2 DEF Lists
      <3> QED
        BY <2>2, <3>1, NothingInserted
    <2> QED
      BY <2>1, <2>2
  <1>4. [tokenizer |-> tokenizer, rows |-> all] \in Lexical
    BY <1>3 DEF Lexical
  <1> QED
    BY <1>1, <1>3, <1>4, NoTableAssumption DEF Database

LEMMA MigrationsLead ==
  ASSUME NEW d \in Database, NEW next \in 1..SchemaVersion, Partway(d, next),
         NEW e \in Migrations(next, d)
  PROVE  e \in Database /\ e.msgs = d.msgs /\ Partway(e, next + 1)
  <1>1. next \in 1..5 /\ d.msgs \in Table
    BY DEF SchemaVersion, Database
  <1>2. CASE next = 1
    BY <1>1, <1>2 DEF Migrations, Partway
  <1>3. CASE next = 2
    <2>1. e \in ToVersion2(d)
      BY <1>3 DEF Migrations
    <2>2. CASE d.fts = NoTable
      <3>1. e \in Filled(d, "unicode61", <<>>) /\ <<>> \in Table
        BY <2>1, <2>2, EmptyTable DEF ToVersion2
      <3>2. /\ e \in Database /\ e.fts # NoTable /\ Lists(e.fts.rows, d.msgs)
            /\ \E t : e = [d EXCEPT !.fts = t]
        BY <3>1, FilledLists DEF Partway
      <3>3. e.msgs = d.msgs /\ e.base = d.base
        BY <3>2 DEF Database
      <3> QED
        BY <1>3, <3>2, <3>3 DEF Partway
    <2>3. CASE d.fts # NoTable
      <3>1. d.fts \in Lexical
        BY <2>3 DEF Database
      <3>2. e \in Filled(d, d.fts.tokenizer, d.fts.rows)
        BY <2>1, <2>3 DEF ToVersion2
      <3>3. /\ e \in Database /\ e.fts # NoTable /\ Lists(e.fts.rows, d.msgs)
            /\ \E t : e = [d EXCEPT !.fts = t]
        BY <2>3, <3>1, <3>2, FilledLists DEF Partway, Lexical
      <3>4. e.msgs = d.msgs /\ e.base = d.base
        BY <3>3 DEF Database
      <3> QED
        BY <1>3, <3>3, <3>4 DEF Partway
    <2> QED
      BY <2>2, <2>3
  <1>4. CASE next = 3
    <2>1. e \in Filled(d, "trigram", <<>>) /\ <<>> \in Table
      BY <1>4, EmptyTable DEF Migrations, ToVersion3
    <2>2. /\ e \in Database /\ e.fts # NoTable /\ e.fts.tokenizer = "trigram"
          /\ Lists(e.fts.rows, d.msgs) /\ \E t : e = [d EXCEPT !.fts = t]
      BY <2>1, FilledLists DEF Partway
    <2>3. e.msgs = d.msgs /\ e.base = d.base
      BY <2>2 DEF Database
    <2> QED
      BY <1>4, <2>2, <2>3 DEF Partway
  <1>5. CASE next = 4
    <2>1. e = [d EXCEPT !.fingerprint = TRUE]
      BY <1>5 DEF Migrations, ToVersion4
    <2>2. /\ e \in Database /\ e.msgs = d.msgs /\ e.base = d.base
          /\ e.fts = d.fts /\ e.fingerprint
      BY <2>1 DEF Database
    <2> QED
      BY <1>5, <2>2 DEF Partway
  <1>6. CASE next = 5
    <2>1. e = [d EXCEPT !.keyed = TRUE, !.fts = [tokenizer |-> "trigram", rows |-> d.msgs]]
      BY <1>6 DEF Migrations, ToVersion5
    <2>2. [tokenizer |-> "trigram", rows |-> d.msgs] \in Lexical
      BY <1>1 DEF Lexical
    <2>3. e \in Database /\ e.msgs = d.msgs /\ e.base = d.base /\ e.fingerprint = d.fingerprint
          /\ e.keyed /\ e.fts = [tokenizer |-> "trigram", rows |-> d.msgs]
      BY <2>1, <2>2 DEF Database
    <2> QED
      BY <1>6, <2>2, <2>3, NoTableAssumption DEF Partway, Lists
  <1> QED
    BY <1>1, <1>2, <1>3, <1>4, <1>5, <1>6

\* A database of version 5, by what the last migration leaves.
LEMMA FinishedShape ==
  ASSUME NEW d \in Database, Partway(d, SchemaVersion + 1), d.version = SchemaVersion
  PROVE  HasShape(d, d.version)
  BY DEF Partway, HasShape, SchemaVersion

\* What a transaction that begins finds is what the migration it begins with needs.
LEMMA ShapePartway ==
  ASSUME NEW d \in Database, HasShape(d, d.version), NEW next \in Nat,
         next <= d.version + 1, d.version <= SchemaVersion
  PROVE  Partway([d EXCEPT !.base = TRUE], next)
  <1>1. PICK e \in Database : e = [d EXCEPT !.base = TRUE]
    BY DEF Database
  <1>2. e.base /\ e.msgs = d.msgs /\ e.fts = d.fts /\ e.fingerprint = d.fingerprint
        /\ e.keyed = d.keyed
    BY <1>1 DEF Database
  <1>3. d.version \in 0..5
    BY DEF Database, SchemaVersion
  <1>4. Partway(e, next)
    BY <1>2, <1>3 DEF HasShape, Partway
  <1> QED
    BY <1>1, <1>4

-----------------------------------------------------------------------------
(* How a step ends: one process changes, perhaps the database. *)

Opened == [pc : Stage, next : 0..SchemaVersion + 1,
           tx : Database \cup {NoTable}, wrote : BOOLEAN]

LEMMA ThisOpener ==
  ASSUME IInv, NEW o \in Opener
  PROVE  /\ opener[o] \in Opened /\ Consistent(opener[o], db)
         /\ opener[o].pc \in {"begin", "migrate"} => opener[o].next > 0
  BY DEF IInv, TypeOK, Opened

LEMMA ProcessMoves ==
  ASSUME IInv, NEW o \in Opener, NEW j \in Opened, Consistent(j, db),
         j.pc \in {"begin", "migrate"} => j.next > 0,
         opener' = [opener EXCEPT ![o] = j],
         UNCHANGED <<db, written>>, faults' \in 0..MaxFaults
  PROVE  IInv'
  <1>1. TypeOK'
    <2>1. \A q \in Opener : opener'[q] = IF q = o THEN j ELSE opener[q]
      BY DEF IInv, TypeOK
    <2>2. opener' \in [Opener -> Opened]
      BY DEF IInv, TypeOK, Opened
    <2>3. \A q \in Opener : opener'[q].pc \in {"begin", "migrate"} => opener'[q].next > 0
      BY <2>1 DEF IInv, TypeOK
    <2> QED
      BY <2>2, <2>3 DEF IInv, TypeOK, Opened
  <1>2. ShapeMatchesVersion' /\ MessagesKept'
    BY DEF IInv, ShapeMatchesVersion, MessagesKept
  <1>3. ASSUME NEW q \in Opener PROVE Consistent(opener[q], db)'
    <2>1. PICK k : k = opener'[q]
      OBVIOUS
    <2>2. Consistent(k, db)
      BY <2>1 DEF IInv, TypeOK
    <2> QED
      BY <2>1, <2>2 DEF Consistent, TransactionOK
  <1> QED
    BY <1>1, <1>2, <1>3 DEF IInv

\* The database changes only when no transaction but the committing one is open.
LEMMA DatabaseMoves ==
  ASSUME IInv, NEW o \in Opener, opener[o].pc # "closed",
         \A q \in Others(o) : ~InTransaction(q),
         NEW j \in Opened, j.pc = "open", opener' = [opener EXCEPT ![o] = j],
         db' \in Database, HasShape(db', db'.version), db'.version = SchemaVersion,
         Range(db'.msgs) = written', UNCHANGED faults
  PROVE  IInv'
  <1>1. TypeOK'
    <2>1. \A q \in Opener : opener'[q] = IF q = o THEN j ELSE opener[q]
      BY DEF IInv, TypeOK
    <2>2. opener' \in [Opener -> Opened]
      BY DEF IInv, TypeOK, Opened
    <2>3. \A q \in Opener : opener'[q].pc \in {"begin", "migrate"} => opener'[q].next > 0
      BY <2>1 DEF IInv, TypeOK
    <2>4. db'.msgs \in Table
      BY DEF Database
    <2>5. written' \subseteq Message
      BY <2>4, TableIs DEF Range
    <2> QED
      BY <2>2, <2>3, <2>5 DEF IInv, TypeOK, Opened
  <1>2. ShapeMatchesVersion' /\ MessagesKept'
    BY DEF ShapeMatchesVersion, MessagesKept
  <1>3. db.version <= SchemaVersion
    BY ThisOpener DEF Consistent
  <1>4. ASSUME NEW q \in Opener PROVE Consistent(opener[q], db)'
    <2>1. PICK k : k = opener'[q]
      OBVIOUS
    <2>2. PICK d : d = db'
      OBVIOUS
    <2>3. Consistent(k, d)
      <3>1. CASE q = o
        <4>1. k = j
          BY <2>1, <3>1 DEF IInv, TypeOK
        <4> QED
          BY <2>2, <4>1 DEF Consistent, SchemaVersion
      <3>2. CASE q # o
        <4>1. k = opener[q] /\ k.pc \notin {"migrate", "commit"} /\ k.next \in 0..SchemaVersion + 1
          BY <2>1, <3>2 DEF IInv, TypeOK, Others, InTransaction
        <4> QED
          BY <2>2, <4>1 DEF Consistent, SchemaVersion
      <3> QED
        BY <3>1, <3>2
    <2> QED
      BY <2>1, <2>2, <2>3 DEF Consistent, TransactionOK
  <1> QED
    BY <1>1, <1>2, <1>4 DEF IInv

-----------------------------------------------------------------------------
(* The steps of a process that opens the database. *)

LEMMA ClosedConsistent ==
  ASSUME IInv
  PROVE  Closed \in Opened /\ Consistent(Closed, db)
  BY DEF Closed, Opened, Stage, Consistent, SchemaVersion

LEMMA ReadVersionStep ==
  ASSUME IInv, NEW o \in Opener, ReadVersion(o), UNCHANGED faults
  PROVE  IInv'
  <1>1. PICK j : j = [opener[o] EXCEPT !.pc = "begin", !.next = db.version + 1]
    OBVIOUS
  <1>2. db.version \in 0..5 /\ db.version + 1 \in 0..SchemaVersion + 1
    BY DEF IInv, TypeOK, Database, ReadVersion, SchemaVersion
  <1>3. j \in Opened /\ j.pc = "begin" /\ j.next = db.version + 1
    BY <1>1, <1>2, ThisOpener DEF Opened, Stage
  <1>4. Consistent(j, db)
    BY <1>2, <1>3 DEF Consistent, SchemaVersion
  <1>5. opener' = [opener EXCEPT ![o] = j]
    BY <1>1 DEF ReadVersion, IInv, TypeOK
  <1>6. UNCHANGED <<db, written>> /\ faults' \in 0..MaxFaults
    BY DEF ReadVersion, IInv, TypeOK
  <1>7. j.next > 0
    BY <1>2, <1>3
  <1> QED
    BY <1>3, <1>4, <1>5, <1>6, <1>7, ProcessMoves

LEMMA BeginStep ==
  ASSUME IInv, NEW o \in Opener, Begin(o), UNCHANGED faults
  PROVE  IInv'
  <1>1. PICK j : j = [opener[o] EXCEPT !.pc = "migrate", !.tx = [db EXCEPT !.base = TRUE],
                                       !.wrote = ~db.base]
    OBVIOUS
  <1>2. /\ opener[o] \in Opened /\ opener[o].next > 0
        /\ opener[o].next <= db.version + 1 /\ db.version <= SchemaVersion
    BY ThisOpener DEF Begin, Consistent
  <1>3. /\ db \in Database /\ HasShape(db, db.version) /\ db.version \in 0..5
        /\ db.base \in BOOLEAN
    BY <1>2 DEF IInv, TypeOK, ShapeMatchesVersion, Database, SchemaVersion
  <1>4. PICK t \in Database : t = [db EXCEPT !.base = TRUE]
    BY <1>3 DEF Database
  <1>5. t.msgs = db.msgs /\ t.version = db.version /\ (db.base => t = db)
    BY <1>3, <1>4 DEF Database
  <1>6. /\ j \in Opened /\ j.pc = "migrate" /\ j.next = opener[o].next
        /\ j.tx = t /\ j.wrote = ~db.base
    BY <1>1, <1>2, <1>3, <1>4 DEF Opened, Stage
  <1>7. Partway(t, j.next)
    BY <1>2, <1>3, <1>4, <1>6, ShapePartway DEF Opened, SchemaVersion
  <1>8. ~db.base => db.version = 0 /\ j.next = 1
    BY <1>2, <1>3, <1>6 DEF HasShape, Opened, SchemaVersion
  <1>9. TransactionOK(j, db)
    <2>1. CASE db.base
      BY <1>2, <1>5, <1>6, <1>7, <2>1 DEF TransactionOK
    <2>2. CASE ~db.base
      <3>1. j.wrote
        BY <1>6, <2>2, Zenon
      <3>2. t.version = j.next - 1
        BY <1>5, <1>8, <2>2
      <3> QED
        BY <1>5, <1>6, <1>7, <3>1, <3>2 DEF TransactionOK
    <2> QED
      BY <2>1, <2>2
  <1>10. Consistent(j, db)
    BY <1>2, <1>6, <1>9 DEF Consistent
  <1>11. opener' = [opener EXCEPT ![o] = j]
    BY <1>1 DEF Begin, IInv, TypeOK
  <1>12. UNCHANGED <<db, written>> /\ faults' \in 0..MaxFaults
    BY DEF Begin, IInv, TypeOK
  <1> QED
    BY <1>2, <1>6, <1>10, <1>11, <1>12, ProcessMoves

LEMMA MigrateStep ==
  ASSUME IInv, NEW o \in Opener, Migrate(o), UNCHANGED faults
  PROVE  IInv'
  <1>1. PICK me : me = opener[o]
    OBVIOUS
  <1>2. /\ me \in Opened /\ me.pc = "migrate" /\ me.next \in 1..SchemaVersion
        /\ TransactionOK(me, db) /\ db.version <= SchemaVersion
    BY <1>1, ThisOpener DEF Migrate, Consistent, Opened, SchemaVersion
  <1>3. PICK d \in Migrations(me.next, me.tx) :
          opener' = [opener EXCEPT ![o].next = @ + 1, ![o].wrote = TRUE,
                                   ![o].tx = [d EXCEPT !.version = me.next]]
    BY <1>1 DEF Migrate
  <1>4. d \in Database /\ d.msgs = db.msgs /\ Partway(d, me.next + 1)
    BY <1>2, MigrationsLead DEF TransactionOK
  <1>5. PICK t : t = [d EXCEPT !.version = me.next]
    OBVIOUS
  <1>6. /\ t \in Database /\ t.version = me.next /\ t.msgs = db.msgs
        /\ t.base = d.base /\ t.fts = d.fts /\ t.fingerprint = d.fingerprint
        /\ t.keyed = d.keyed /\ t.msgs = d.msgs
    BY <1>2, <1>4, <1>5 DEF Database, SchemaVersion
  <1>7. Partway(t, me.next + 1)
    BY <1>4, <1>6 DEF Partway
  <1>8. PICK j : j = [me EXCEPT !.next = me.next + 1, !.wrote = TRUE, !.tx = t]
    OBVIOUS
  <1>9. /\ j \in Opened /\ j.pc = "migrate" /\ j.next = me.next + 1 /\ j.next > 0
        /\ j.wrote = TRUE /\ j.tx = t
    <2>1. me.next + 1 \in 0..SchemaVersion + 1 /\ me.next + 1 > 0
      BY <1>2 DEF SchemaVersion
    <2> QED
      BY <1>2, <1>6, <1>8, <2>1 DEF Opened
  <1>10. TransactionOK(j, db)
    BY <1>2, <1>6, <1>7, <1>9 DEF TransactionOK, SchemaVersion
  <1>11. Consistent(j, db)
    BY <1>2, <1>9, <1>10 DEF Consistent
  <1>12. opener' = [opener EXCEPT ![o] = j]
    BY <1>1, <1>3, <1>5, <1>8 DEF IInv, TypeOK
  <1>13. UNCHANGED <<db, written>> /\ faults' \in 0..MaxFaults
    BY DEF Migrate, IInv, TypeOK
  <1> QED
    BY <1>9, <1>11, <1>12, <1>13, ProcessMoves

LEMMA MigratedStep ==
  ASSUME IInv, NEW o \in Opener, Migrated(o), UNCHANGED faults
  PROVE  IInv'
  <1>1. PICK j : j = [opener[o] EXCEPT !.pc = "commit"]
    OBVIOUS
  <1>2. /\ opener[o] \in Opened /\ opener[o].next = SchemaVersion + 1
        /\ TransactionOK(opener[o], db) /\ db.version <= SchemaVersion
    BY ThisOpener DEF Migrated, Consistent, Opened, SchemaVersion
  <1>3. /\ j \in Opened /\ j.pc = "commit" /\ j.next = SchemaVersion + 1
        /\ j.tx = opener[o].tx /\ j.wrote = opener[o].wrote
    BY <1>1, <1>2 DEF Opened, Stage
  <1>4. Consistent(j, db)
    BY <1>2, <1>3 DEF Consistent, TransactionOK
  <1>5. opener' = [opener EXCEPT ![o] = j]
    BY <1>1 DEF Migrated, Move, IInv, TypeOK
  <1>6. UNCHANGED <<db, written>> /\ faults' \in 0..MaxFaults
    BY DEF Migrated, IInv, TypeOK
  <1> QED
    BY <1>3, <1>4, <1>5, <1>6, ProcessMoves

\* What a transaction commits has the shape of the version it records.
LEMMA CommitLeaves ==
  ASSUME IInv, NEW o \in Opener, Commit(o)
  PROVE  /\ db' \in Database /\ db'.version = SchemaVersion /\ db'.msgs = db.msgs
         /\ HasShape(db', db'.version)
  <1>1. PICK me : me = opener[o]
    OBVIOUS
  <1>2. /\ me.next = SchemaVersion + 1 /\ TransactionOK(me, db) /\ me.wrote \in BOOLEAN
        /\ db.version <= SchemaVersion
    BY <1>1, ThisOpener DEF Commit, Consistent, Opened
  <1>3. CASE me.wrote
    <2>1. db' = me.tx
      BY <1>1, <1>3 DEF Commit
    <2>2. PICK d \in Database : d = me.tx
      BY <1>2 DEF TransactionOK
    <2>3. d.version = SchemaVersion /\ d.msgs = db.msgs /\ Partway(d, SchemaVersion + 1)
      BY <1>2, <1>3, <2>2 DEF TransactionOK, SchemaVersion
    <2> QED
      BY <2>1, <2>2, <2>3, FinishedShape
  <1>4. CASE ~me.wrote
    <2>1. db' = db /\ SchemaVersion + 1 <= db.version + 1
      BY <1>1, <1>2, <1>4 DEF Commit, TransactionOK
    <2>2. db \in Database /\ db.version \in 0..6
      BY DEF IInv, TypeOK, Database, SchemaVersion
    <2> QED
      BY <1>2, <2>1, <2>2 DEF IInv, ShapeMatchesVersion, SchemaVersion
  <1> QED
    BY <1>2, <1>3, <1>4

LEMMA CommitStep ==
  ASSUME IInv, NEW o \in Opener, Commit(o), UNCHANGED faults
  PROVE  IInv'
  <1>1. PICK j : j = [Closed EXCEPT !.pc = "open"]
    OBVIOUS
  <1>2. j \in Opened /\ j.pc = "open"
    <2>1. "open" \in Stage
      BY DEF Stage
    <2> QED
      BY <1>1, <2>1, ClosedConsistent DEF Opened
  <1>3. opener' = [opener EXCEPT ![o] = j] /\ written' = written /\ opener[o].pc = "commit"
    BY <1>1 DEF Commit
  <1>4. /\ db' \in Database /\ db'.version = SchemaVersion /\ db'.msgs = db.msgs
        /\ HasShape(db', db'.version)
    BY CommitLeaves
  <1>5. CASE opener[o].wrote
    <2>1. Range(db'.msgs) = written'
      BY <1>3, <1>4 DEF IInv, MessagesKept
    <2>2. \A q \in Others(o) : ~InTransaction(q)
      BY <1>5 DEF Commit
    <2> QED
      BY <1>2, <1>3, <1>4, <2>1, <2>2, DatabaseMoves
  <1>6. CASE ~opener[o].wrote
    <2>1. db' = db /\ faults' \in 0..MaxFaults
      BY <1>6 DEF Commit, IInv, TypeOK
    <2>2. Consistent(j, db)
      BY <1>2, <1>4, <2>1 DEF Consistent, SchemaVersion
    <2> QED
      BY <1>2, <1>3, <2>1, <2>2, ProcessMoves
  <1> QED
    BY <1>5, <1>6, ThisOpener DEF Opened

LEMMA GivenUpStep ==
  ASSUME IInv, NEW o \in Opener, opener' = [opener EXCEPT ![o] = Closed],
         UNCHANGED <<db, written>>, faults' \in 0..MaxFaults
  PROVE  IInv'
  <1>1. PICK j : j = Closed
    OBVIOUS
  <1>2. j \in Opened /\ Consistent(j, db) /\ j.pc = "closed"
    BY <1>1, ClosedConsistent DEF Closed
  <1> QED
    BY <1>1, <1>2, ProcessMoves

LEMMA CloseStep ==
  ASSUME IInv, NEW o \in Opener, Close(o)
  PROVE  IInv'
  <1>1. PICK j : j = [opener[o] EXCEPT !.pc = "closed"]
    OBVIOUS
  <1>2. opener[o] \in Opened
    BY ThisOpener
  <1>3. j \in Opened /\ j.pc = "closed"
    BY <1>1, <1>2 DEF Opened, Stage
  <1>4. Consistent(j, db)
    BY <1>3 DEF Consistent, SchemaVersion
  <1>5. opener' = [opener EXCEPT ![o] = j] /\ UNCHANGED <<db, written>> /\ faults' \in 0..MaxFaults
    BY <1>1 DEF Close, Move, IInv, TypeOK
  <1> QED
    BY <1>3, <1>4, <1>5, ProcessMoves

-----------------------------------------------------------------------------
(* The index in use. *)

\* A change of both tables of a database of version 5, of which one is the other.
LEMMA UseStep ==
  ASSUME IInv, NEW o \in Opener, Quiescent(o), NEW t \in Table, IsInjective(t),
         db' = [db EXCEPT !.msgs = t, !.fts.rows = t], written' = Range(t),
         UNCHANGED <<opener, faults>>
  PROVE  IInv'
  <1>1. /\ db \in Database /\ HasShape(db, db.version) /\ opener[o] \in Opened
        /\ opener[o].pc = "open" /\ db.version = SchemaVersion
    BY ThisOpener DEF IInv, TypeOK, ShapeMatchesVersion, Quiescent, Consistent
  <1>2. /\ db.fts \in Lexical /\ db.fts.tokenizer = "trigram"
        /\ db.base /\ db.fingerprint /\ db.keyed
    BY <1>1 DEF HasShape, Database, SchemaVersion
  <1>3. PICK l : l = [db.fts EXCEPT !.rows = t]
    OBVIOUS
  <1>4. l \in Lexical /\ l.tokenizer = "trigram" /\ l.rows = t /\ l # NoTable
    BY <1>2, <1>3, NoTableAssumption DEF Lexical
  <1>5. PICK d : d = [db EXCEPT !.msgs = t, !.fts = l]
    OBVIOUS
  <1>6. /\ d \in Database /\ d.version = SchemaVersion /\ d.msgs = t /\ d.fts = l
        /\ d.base /\ d.fingerprint /\ d.keyed
    BY <1>1, <1>2, <1>4, <1>5 DEF Database
  <1>7. HasShape(d, d.version)
    BY <1>4, <1>6 DEF HasShape, Lists, SchemaVersion
  <1>8. db' = d
    BY <1>1, <1>3, <1>5 DEF Database
  <1>9. \A q \in Others(o) : ~InTransaction(q)
    BY DEF Quiescent, Others
  <1>10. PICK j : j = opener[o]
    OBVIOUS
  <1>11. opener' = [opener EXCEPT ![o] = j]
    BY <1>10 DEF IInv, TypeOK
  <1>12. /\ db' \in Database /\ HasShape(db', db'.version) /\ db'.version = SchemaVersion
         /\ Range(db'.msgs) = written'
    BY <1>6, <1>7, <1>8
  <1>13. j \in Opened /\ j.pc = "open" /\ opener[o].pc # "closed"
    BY <1>1, <1>10
  <1> QED
    BY <1>9, <1>11, <1>12, <1>13, DatabaseMoves

LEMMA StoreStep ==
  ASSUME IInv, NEW o \in Opener, Store(o)
  PROVE  IInv'
  <1>1. PICK r \in 1..MaxRowid \ DOMAIN db.msgs, m \in Message \ written :
          /\ db' = [db EXCEPT
               !.msgs = [q \in DOMAIN @ \cup {r} |-> IF q = r THEN m ELSE @[q]],
               !.fts.rows = [q \in DOMAIN @ \cup {r} |-> IF q = r THEN m ELSE @[q]]]
          /\ written' = written \cup {m}
    BY DEF Store
  <1>2. PICK t : t = [q \in DOMAIN db.msgs \cup {r} |-> IF q = r THEN m ELSE db.msgs[q]]
    OBVIOUS
  <1>3. db.msgs \in Table /\ IsInjective(db.msgs) /\ Range(db.msgs) = written
    BY DEF IInv, TypeOK, ShapeMatchesVersion, MessagesKept, HasShape, Database
  <1>4. db.fts.rows = db.msgs
    BY ThisOpener DEF Store, Quiescent, Consistent, IInv, ShapeMatchesVersion, HasShape, SchemaVersion
  <1>5. t \in Table
    BY <1>2, <1>3, TableIs
  <1>6. /\ DOMAIN t = DOMAIN db.msgs \cup {r} /\ t[r] = m
        /\ \A q \in DOMAIN db.msgs : t[q] = db.msgs[q]
    BY <1>2
  <1>7. Range(t) = written'
    BY <1>1, <1>3, <1>6 DEF Range
  <1>8. \A q \in DOMAIN db.msgs : db.msgs[q] # m
    BY <1>3 DEF Range
  <1>9. IsInjective(t)
    BY <1>3, <1>6, <1>8 DEF IsInjective
  <1>10. db' = [db EXCEPT !.msgs = t, !.fts.rows = t]
    BY <1>1, <1>2, <1>4
  <1> QED
    BY <1>5, <1>7, <1>9, <1>10, UseStep DEF Store

LEMMA DeleteStep ==
  ASSUME IInv, NEW o \in Opener, Delete(o)
  PROVE  IInv'
  <1>1. PICK r \in DOMAIN db.msgs :
          /\ db' = [db EXCEPT !.msgs = Restrict(@, DOMAIN @ \ {r}),
                              !.fts.rows = Restrict(@, DOMAIN @ \ {r})]
          /\ written' = written \ {db.msgs[r]}
    BY DEF Delete
  <1>2. PICK t : t = Restrict(db.msgs, DOMAIN db.msgs \ {r})
    OBVIOUS
  <1>3. db.msgs \in Table /\ IsInjective(db.msgs) /\ Range(db.msgs) = written
    BY DEF IInv, TypeOK, ShapeMatchesVersion, MessagesKept, HasShape, Database
  <1>4. db.fts.rows = db.msgs
    BY ThisOpener DEF Delete, Quiescent, Consistent, IInv, ShapeMatchesVersion, HasShape, SchemaVersion
  <1>5. /\ DOMAIN t = DOMAIN db.msgs \ {r}
        /\ \A q \in DOMAIN t : t[q] = db.msgs[q]
    BY <1>2 DEF Restrict
  <1>6. t \in Table
    <2>1. t = [p \in DOMAIN t |-> t[p]]
      BY <1>2 DEF Restrict
    <2> QED
      BY <1>3, <1>5, <2>1, TableIs
  <1>7. IsInjective(t)
    BY <1>3, <1>5 DEF IsInjective
  <1>8. Range(t) = written'
    BY <1>1, <1>3, <1>5 DEF Range, IsInjective
  <1>9. db' = [db EXCEPT !.msgs = t, !.fts.rows = t]
    BY <1>1, <1>2, <1>4
  <1> QED
    BY <1>6, <1>7, <1>8, <1>9, UseStep DEF Delete

-----------------------------------------------------------------------------
(* The invariant. *)

LEMMA InitSafe == Init => IInv
  <1> SUFFICES ASSUME Init PROVE IInv
    OBVIOUS
  <1>1. \A o \in Opener : opener[o] = Closed
    BY DEF Init
  <1>2. TypeOK
    <2>1. db.msgs \in Table
      BY DEF Init, Database
    <2>2. written \subseteq Message
      BY <2>1, TableIs DEF Init, Range
    <2>3. Closed \in Opened
      BY DEF Closed, Opened, Stage, SchemaVersion
    <2>4. opener \in [Opener -> Opened]
      BY <2>3 DEF Init
    <2> QED
      BY <1>1, <2>2, <2>4, BoundsAssumption DEF Init, TypeOK, Opened, Closed
  <1>3. \A o \in Opener : Consistent(opener[o], db)
    BY <1>1 DEF Closed, Consistent, SchemaVersion
  <1> QED
    BY <1>2, <1>3 DEF Init, IInv, ShapeMatchesVersion, MessagesKept

LEMMA StepSafe == IInv /\ [Next]_vars => IInv'
  <1> SUFFICES ASSUME IInv, [Next]_vars PROVE IInv'
    OBVIOUS
  <1>1. CASE UNCHANGED vars
    BY <1>1 DEF vars, IInv, TypeOK, ShapeMatchesVersion, MessagesKept, Consistent,
                TransactionOK
  <1>2. ASSUME NEW o \in Opener, Opening(o) PROVE IInv'
    <2>1. StatementFails(o) => IInv'
      BY <1>2, GivenUpStep DEF StatementFails, Opening, IInv, TypeOK
    <2> QED
      BY <1>2, <2>1, ReadVersionStep, BeginStep, MigrateStep, MigratedStep, CommitStep
      DEF Opening
  <1>3. ASSUME NEW o \in Opener, Fault(o) PROVE IInv'
    <2>1. faults' \in 0..MaxFaults
      BY <1>3, BoundsAssumption DEF Fault, IInv, TypeOK
    <2> QED
      BY <1>3, <2>1, GivenUpStep DEF Fault
  <1> QED
    BY <1>1, <1>2, <1>3, StoreStep, DeleteStep, CloseStep DEF Next

LEMMA Invariance == Spec => []IInv
  BY InitSafe, StepSafe, PTL DEF Spec

(***************************************************************************)
(* For any number of processes, messages and faults, from a database of    *)
(* any version: the tables stay tables, and the next migration of a        *)
(* process is one that exists (sqlite.go:72-103).                          *)
(***************************************************************************)
THEOREM TypeCorrect == Spec => []TypeOK
  <1>1. IInv => TypeOK
    BY DEF IInv
  <1> QED
    BY <1>1, Invariance, PTL

(***************************************************************************)
(* The version recorded is the shape of the tables, whichever processes    *)
(* migrated them, whatever version each of them had read before its        *)
(* transaction began, and wherever they failed.                            *)
(***************************************************************************)
THEOREM VersionIsShape == Spec => []ShapeMatchesVersion
  <1>1. IInv => ShapeMatchesVersion
    BY DEF IInv
  <1> QED
    BY <1>1, Invariance, PTL

(***************************************************************************)
(* Opening a database loses no message and makes up none, although the     *)
(* lexical table is rebuilt twice and messages once (schema.go:57-108).    *)
(***************************************************************************)
THEOREM NothingIsLost == Spec => []MessagesKept
  <1>1. IInv => MessagesKept
    BY DEF IInv
  <1> QED
    BY <1>1, Invariance, PTL

(***************************************************************************)
(* A process that has the index open works on the version it was built     *)
(* for, even after another process, which read an older version before,    *)
(* has had its own transaction.                                            *)
(***************************************************************************)
THEOREM OpenIsReady == Spec => []OpenedReady
  <1>1. IInv => OpenedReady
    BY DEF IInv, Consistent, OpenedReady
  <1> QED
    BY <1>1, Invariance, PTL

(***************************************************************************)
(* The committed version never falls: a commit records version 5 or leaves *)
(* the database as it is, and a newer database is not opened.              *)
(***************************************************************************)
THEOREM VersionOnlyRises == Spec => VersionNeverFalls
  <1>1. ASSUME IInv, [Next]_vars
        PROVE  [db'.version >= db.version]_vars
    <2>1. db \in Database /\ db.version \in Nat
      BY <1>1 DEF IInv, TypeOK, Database, SchemaVersion
    <2>2. ASSUME NEW o \in Opener, Commit(o) PROVE db'.version >= db.version
      <3>1. opener[o].pc # "closed"
        BY <2>2 DEF Commit
      <3>2. db.version <= SchemaVersion
        BY <1>1, <3>1, ThisOpener DEF Consistent
      <3>3. db'.version = SchemaVersion
        BY <1>1, <2>2, CommitLeaves
      <3> QED
        BY <2>1, <3>2, <3>3 DEF SchemaVersion
    <2>3. ASSUME NEW o \in Opener, Store(o) \/ Delete(o) PROVE db'.version >= db.version
      <3>1. PICK t, u : db' = [db EXCEPT !.msgs = t, !.fts.rows = u]
        BY <2>3 DEF Store, Delete
      <3>2. db'.version = db.version
        BY <2>1, <3>1 DEF Database
      <3> QED
        BY <2>1, <3>2
    <2>4. ASSUME NEW o \in Opener, ~Commit(o), Opening(o) \/ Fault(o) \/ Close(o)
          PROVE  db'.version >= db.version
      <3>1. db' = db
        BY <2>4 DEF Opening, ReadVersion, Begin, Migrate, Migrated, StatementFails, Fault, Close
      <3> QED
        BY <2>1, <3>1
    <2> QED
      BY <1>1, <2>2, <2>3, <2>4 DEF Next
  <1> QED
    BY <1>1, Invariance, PTL DEF Spec, VersionNeverFalls
=============================================================================
