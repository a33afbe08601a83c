--------------------------- MODULE IndexSearchProofs --------------------------
(***************************************************************************)
(* What a search of the index returns, whatever was written before it.     *)
(*                                                                         *)
(* The FTS5 search joins a lexical row with a message on session and       *)
(* ordinal.  That it thereby finds the text it has matched takes more than *)
(* that the two tables are in step (SqliteProofs): a session has an        *)
(* ordinal once (Unique), the primary key of "messages".                   *)
(*                                                                         *)
(* The loop over the rows is a fold.  As in IndexedProofs the module       *)
(* starts with the function that the fold is defined by, and follows it    *)
(* row by row: of the rows so far the loop has kept, of each session, the  *)
(* first that shows the query, until it had Limit of them (Kept).          *)
(***************************************************************************)
EXTENDS IndexSearch, SqliteProofs, FiniteSetTheorems

-----------------------------------------------------------------------------
(* Ordinals. *)

\* PRIMARY KEY (session_id, ordinal)
Unique(table) ==
    \A q, r \in DOMAIN table : table[q].sid = table[r].sid /\ table[q].ord = table[r].ord => q = r

UInv == Unique(db.msgs) /\ Unique(tx.msgs)

LEMMA UniqueWithout ==
  ASSUME NEW t, Unique(t), NEW ids
  PROVE  Unique(Without(t, ids))
  BY DEF Unique, Without

LEMMA UniqueWith ==
  ASSUME NEW t, Unique(t), NEW r, r \notin DOMAIN t, NEW rec,
         \A q \in IdsOf(t, rec.sid) : t[q].ord # rec.ord
  PROVE  Unique(With(t, r, rec))
  <1>1. PICK u : u = With(t, r, rec)
    OBVIOUS
  <1>2. DOMAIN u = DOMAIN t \cup {r} /\ u[r] = rec /\ \A q \in DOMAIN t : u[q] = t[q]
    BY <1>1 DEF With
  <1>3. \A q \in DOMAIN t : ~(u[q].sid = rec.sid /\ u[q].ord = rec.ord)
    BY <1>2 DEF IdsOf
  <1>4. Unique(u)
    BY <1>2, <1>3 DEF Unique
  <1> QED
    BY <1>1, <1>4

LEMMA UniqueStep ==
  ASSUME IInv, UInv, [Next]_vars
  PROVE  UInv'
  <1>1. Unique(db.msgs) /\ Unique(tx.msgs)
    BY DEF UInv
  <1>2. CASE \/ BeginReplaceSessions \/ BeginUpsertSessions \/ BeginReplaceMessages
             \/ BeginDeleteSession
    <2>1. db' = db /\ tx' = db
      BY <1>2 DEF BeginReplaceSessions, BeginUpsertSessions, BeginReplaceMessages,
                  BeginDeleteSession, Begin
    <2> QED
      BY <1>1, <2>1 DEF UInv
  <1>3. CASE UpsertSession
    <2>1. db'.msgs = db.msgs /\ tx' = db'
      BY <1>3 DEF UpsertSession
    <2> QED
      BY <1>1, <2>1 DEF UInv
  <1>4. CASE Upsert \/ ClearFts \/ InsertFts
    <2>1. db' = db /\ tx'.msgs = tx.msgs
      <3>1. tx \in Tables
        BY DEF IInv, TypeOK
      <3> QED
        BY <1>4, <3>1 DEF Upsert, ClearFts, InsertFts, Tables
    <2> QED
      BY <1>1, <2>1 DEF UInv
  <1>5. CASE SelectIds \/ FtsCleared \/ MessagesInserted \/ UNCHANGED vars
    <2>1. db' = db /\ tx' = tx
      BY <1>5 DEF SelectIds, FtsCleared, MessagesInserted, vars
    <2> QED
      BY <1>1, <2>1 DEF UInv
  <1>6. CASE ClearMsgs \/ DropRow
    <2>1. db' = db /\ \E ids : tx'.msgs = Without(tx.msgs, ids)
      <3>1. tx \in Tables
        BY DEF IInv, TypeOK
      <3> QED
        BY <1>6, <3>1 DEF ClearMsgs, DropRow, Tables
    <2> QED
      BY <1>1, <2>1, UniqueWithout DEF UInv
  <1>7. CASE InsertMessage
    <2>1. PICK rec : rec = RecordOf(Current.id, Head(call.rest))
      OBVIOUS
    <2>2. PICK r \in Rowid : FreshRowid(tx.msgs, r) /\ tx' = [tx EXCEPT !.msgs = With(@, r, rec)]
      BY <1>7, <2>1 DEF InsertMessage
    <2>3. \A q \in IdsOf(tx.msgs, rec.sid) : tx.msgs[q].ord # rec.ord
      BY <1>7, <2>1 DEF InsertMessage
    <2>4. r \notin DOMAIN tx.msgs
      BY <2>2 DEF FreshRowid, Rowid
    <2>5. db' = db /\ tx'.msgs = With(tx.msgs, r, rec)
      <3>1. tx \in Tables
        BY DEF IInv, TypeOK
      <3> QED
        BY <1>7, <2>2, <3>1 DEF InsertMessage, Tables
    <2> QED
      BY <1>1, <2>3, <2>4, <2>5, UniqueWith DEF UInv
  <1>8. CASE Commit
    <2>1. db' = tx /\ tx' = tx
      BY <1>8 DEF Commit
    <2> QED
      BY <1>1, <2>1 DEF UInv
  <1>9. CASE Rollback
    <2>1. db' = db /\ tx' = db
      BY <1>9 DEF Rollback
    <2> QED
      BY <1>1, <2>1 DEF UInv
  <1> QED
    BY <1>2, <1>3, <1>4, <1>5, <1>6, <1>7, <1>8, <1>9 DEF Next

LEMMA OrdinalsAreUnique == Spec => []UInv
  <1>1. Init => UInv
    BY DEF Init, UInv, Unique
  <1>2. IInv /\ UInv /\ [Next]_vars => UInv'
    BY UniqueStep
  <1> QED
    BY <1>1, <1>2, Invariance, PTL DEF Spec
-----------------------------------------------------------------------------
(* Induction. *)

\* A set of numbers that has 0, and with a number the next, has them all.
LEMMA SetInduction ==
  ASSUME NEW T, 0 \in T, \A n \in Nat : n \in T => n + 1 \in T
  PROVE  \A n \in Nat : n \in T
  <1>1. SUFFICES ASSUME NEW n \in Nat, n \notin T PROVE FALSE
    OBVIOUS
  <1>2. PICK U : U = {k \in Nat : k \notin T}
    OBVIOUS
  <1>3. U \subseteq Nat /\ U # {}
    BY <1>1, <1>2
  <1>4. PICK R : R = {pair \in Nat \X Nat : pair[1] < pair[2]}
    OBVIOUS
  <1>5. IsWellFoundedOn(R, Nat)
    BY <1>4, NatLessThanWellFounded DEF OpToRel
  <1>6. PICK x \in U : \A y \in U : ~(<<y, x>> \in R)
    BY <1>3, <1>5, WFMin
  <1>7. x \in Nat /\ x # 0 /\ x \notin T
    BY <1>2, <1>6
  <1>8. x - 1 \in Nat /\ x - 1 + 1 = x
    BY <1>7
  <1>9. x - 1 \in U
    BY <1>2, <1>7, <1>8
  <1>10. <<x - 1, x>> \in Nat \X Nat /\ x - 1 < x
    BY <1>7, <1>8
  <1>11. <<x - 1, x>> \in R
    BY <1>4, <1>10
  <1> QED
    BY <1>6, <1>9, <1>11

-----------------------------------------------------------------------------
(* The loop over the rows. *)

\* One turn of it.
Turn(o, found, hit) ==
    IF /\ Len(found) < o.limit
       /\ \A k \in DOMAIN found : found[k].sid # hit.sid
       /\ Shows(o, hit)
    THEN Append(found, hit) ELSE found

\* The function that Keep computes with, for the rows at the places D.
Folds(g, o, rows, D) ==
    g = [s \in SUBSET D |->
           IF s = {} THEN <<>>
           ELSE Turn(o, g[s \ {Seqs!Max(s)}], rows[Seqs!Max(s)])]

LEMMA LastPlace ==
  ASSUME NEW m \in Nat, NEW s \in SUBSET (1..m + 1), m + 1 \in s
  PROVE  Seqs!Max(s) = m + 1
  <1>1. \A y \in s : y \in Int /\ m + 1 >= y
    OBVIOUS
  <1>2. \A x \in s : (\A y \in s : x >= y) => x = m + 1
    BY <1>1
  <1> QED
    BY <1>1, <1>2 DEF Seqs!Max

LEMMA FoldExtends ==
  ASSUME NEW o, NEW rows, NEW m \in Nat, NEW g, Folds(g, o, rows, 1..m)
  PROVE  \E h : Folds(h, o, rows, 1..m + 1)
  <1>1. PICK h : h = [s \in SUBSET (1..m + 1) |->
                        IF m + 1 \in s THEN Turn(o, g[s \ {m + 1}], rows[m + 1]) ELSE g[s]]
    OBVIOUS
  <1>2. \A s \in SUBSET (1..m) : s \in SUBSET (1..m + 1) /\ m + 1 \notin s
    OBVIOUS
  <1>3. \A s \in SUBSET (1..m) : h[s] = g[s]
    BY <1>1, <1>2
  <1>4. ASSUME NEW s \in SUBSET (1..m + 1)
        PROVE  h[s] = IF s = {} THEN <<>>
                      ELSE Turn(o, h[s \ {Seqs!Max(s)}], rows[Seqs!Max(s)])
    <2>1. CASE m + 1 \in s
      <3>1. Seqs!Max(s) = m + 1 /\ s # {}
        BY <2>1, LastPlace
      <3>2. s \ {m + 1} \in SUBSET (1..m)
        OBVIOUS
      <3>3. h[s] = Turn(o, g[s \ {m + 1}], rows[m + 1])
        BY <1>1, <2>1
      <3> QED
        BY <1>3, <3>1, <3>2, <3>3
    <2>2. CASE m + 1 \notin s
      <3>1. s \in SUBSET (1..m)
        BY <2>2
      <3>2. h[s] = g[s]
        BY <1>3, <3>1
      <3>3. g[s] = IF s = {} THEN <<>>
                   ELSE Turn(o, g[s \ {Seqs!Max(s)}], rows[Seqs!Max(s)])
        BY <3>1 DEF Folds
      <3>4. s \ {Seqs!Max(s)} \in SUBSET (1..m)
        BY <3>1
      <3> QED
        BY <1>3, <3>2, <3>3, <3>4
    <2> QED
      BY <2>1, <2>2
  <1>5. PICK f : f = [s \in SUBSET (1..m + 1) |->
                        IF s = {} THEN <<>>
                        ELSE Turn(o, h[s \ {Seqs!Max(s)}], rows[Seqs!Max(s)])]
    OBVIOUS
  <1>6. h = f
    BY <1>1, <1>4, <1>5
  <1> QED
    BY <1>5, <1>6 DEF Folds

LEMMA FoldExists ==
  ASSUME NEW o, NEW rows
  PROVE  \A n \in Nat : \E g : Folds(g, o, rows, 1..n)
  <1>1. PICK T : T = {m \in Nat : \E g : Folds(g, o, rows, 1..m)}
    OBVIOUS
  <1>2. 0 \in T
    <2>1. PICK g : g = [s \in SUBSET (1..0) |-> <<>>]
      OBVIOUS
    <2>2. \A s \in SUBSET (1..0) : s = {}
      OBVIOUS
    <2>3. Folds(g, o, rows, 1..0)
      BY <2>1, <2>2 DEF Folds
    <2> QED
      BY <1>1, <2>3
  <1>3. \A m \in Nat : m \in T => m + 1 \in T
    BY <1>1, FoldExtends
  <1>4. \A n \in Nat : n \in T
    BY <1>2, <1>3, SetInduction
  <1> QED
    BY <1>1, <1>4

\* Keep takes the n rows one after another: what h has of the first m is from them.
Turns(h, o, rows, n) ==
    /\ h[0] = <<>> /\ h[n] = Keep(o, rows)
    /\ \A m \in 0..n - 1 : h[m + 1] = Turn(o, h[m], rows[m + 1])

LEMMA KeepTurns ==
  ASSUME NEW o, NEW rows, NEW n \in Nat, DOMAIN rows = 1..n
  PROVE  \E h : Turns(h, o, rows, n)
  <1>1. PICK D : D = 1..n
    OBVIOUS
  <1>2. PICK g : Folds(g, o, rows, D) /\ Keep(o, rows) = g[D]
    <2>1. \E g : Folds(g, o, rows, D)
      BY <1>1, FoldExists
    <2>2. Keep(o, rows) = (CHOOSE g : Folds(g, o, rows, D))[D]
      BY <1>1 DEF Keep, Folds, Turn, Seqs!FoldLeft, Seqs!MapThenFoldSet
    <2> QED
      BY <2>1, <2>2
  <1>3. PICK h : h = [m \in 0..n |-> g[1..m]]
    OBVIOUS
  <1>4. h[0] = <<>>
    <2>1. 1..0 = {} /\ {} \in SUBSET D /\ 0 \in 0..n
      OBVIOUS
    <2> QED
      BY <1>2, <1>3, <2>1 DEF Folds
  <1>5. ASSUME NEW m \in 0..n - 1
        PROVE  h[m + 1] = Turn(o, h[m], rows[m + 1])
    <2>1. PICK s : s = 1..m + 1
      OBVIOUS
    <2>2. s \in SUBSET D /\ m + 1 \in s /\ m \in 0..n /\ m + 1 \in 0..n /\ m \in Nat
      BY <1>1, <2>1
    <2>3. Seqs!Max(s) = m + 1
      BY <2>1, <2>2, LastPlace
    <2>4. s \ {m + 1} = 1..m
      BY <2>1, <2>2
    <2>5. g[s] = Turn(o, g[s \ {Seqs!Max(s)}], rows[Seqs!Max(s)])
      BY <1>2, <2>2 DEF Folds
    <2> QED
      BY <1>3, <2>1, <2>2, <2>3, <2>4, <2>5
  <1>6. h[n] = Keep(o, rows)
    BY <1>1, <1>2, <1>3
  <1> QED
    BY <1>4, <1>5, <1>6 DEF Turns

-----------------------------------------------------------------------------
(* What the loop keeps. *)

\* The row at place a shows the query, and none of its session before it does.
FirstShown(o, rows, a, hit) ==
    /\ a \in DOMAIN rows /\ rows[a] = hit /\ Shows(o, hit)
    /\ \A b \in 1..a - 1 : rows[b].sid = hit.sid => ~Shows(o, rows[b])

\* The hits found are from before place b.
FoundBefore(o, rows, b, found) ==
    \A k \in DOMAIN found : \E a \in 1..b - 1 : FirstShown(o, rows, a, found[k])

\* Of the first m rows, one that shows the query is of a session kept, or comes
\* after as many sessions as the limit admits.
Kept(S, o, rows, m, found) ==
    /\ found \in Seq(S) /\ Len(found) <= o.limit
    /\ \A j, k \in DOMAIN found : found[j].sid = found[k].sid => j = k
    /\ FoundBefore(o, rows, m + 1, found)
    /\ \A b \in 1..m : Shows(o, rows[b]) =>
         \/ \E k \in DOMAIN found : found[k].sid = rows[b].sid
         \/ Len(found) = o.limit /\ FoundBefore(o, rows, b, found)

LEMMA TurnKeeps ==
  ASSUME NEW S, NEW o, o.limit \in Nat, NEW rows \in Seq(S), NEW m \in Nat, m + 1 <= Len(rows),
         NEW found, Kept(S, o, rows, m, found), NEW q, q = Turn(o, found, rows[m + 1])
  PROVE  Kept(S, o, rows, m + 1, q)
  <1>1. /\ found \in Seq(S) /\ Len(found) \in Nat /\ Len(found) <= o.limit
        /\ DOMAIN found = 1..Len(found) /\ DOMAIN rows = 1..Len(rows) /\ Len(rows) \in Nat
    BY DEF Kept
  <1>2. PICK hit \in S : hit = rows[m + 1]
    BY <1>1
  <1>3. \A b \in 1..m + 1 : b \in 1..m \/ b = m + 1
    OBVIOUS
  <1>4. \A a \in 1..m : a \in 1..m + 1
    OBVIOUS
  <1>5. FoundBefore(o, rows, m + 1, found) /\ m + 1 - 1 = m /\ m + 1 + 1 - 1 = m + 1
    BY DEF Kept
  <1>6. FoundBefore(o, rows, m + 1 + 1, found)
    BY <1>4, <1>5 DEF FoundBefore
  <1>7. CASE /\ Len(found) < o.limit
             /\ \A k \in DOMAIN found : found[k].sid # hit.sid
             /\ Shows(o, hit)
    <2>1. q = Append(found, hit)
      BY <1>2, <1>7 DEF Turn
    <2>2. /\ q \in Seq(S) /\ Len(q) = Len(found) + 1 /\ DOMAIN q = 1..Len(found) + 1
          /\ q[Len(found) + 1] = hit /\ \A k \in 1..Len(found) : q[k] = found[k]
      BY <1>1, <2>1, AppendProperties
    <2>3. \A k \in DOMAIN q : k \in DOMAIN found \/ k = Len(found) + 1
      BY <1>1, <2>2
    <2>4. \A k \in DOMAIN found : k \in DOMAIN q /\ q[k] = found[k]
      BY <1>1, <2>2
    <2>5. \A j, k \in DOMAIN q : q[j].sid = q[k].sid => j = k
      BY <1>7, <2>2, <2>3, <2>4 DEF Kept
    <2>6. ASSUME NEW b \in 1..m, Shows(o, rows[b])
          PROVE  \E k \in DOMAIN found : found[k].sid = rows[b].sid
      BY <1>1, <1>7, <2>6 DEF Kept
    <2>7. FirstShown(o, rows, m + 1, hit)
      BY <1>1, <1>2, <1>5, <1>7, <2>6 DEF FirstShown
    <2>8. FoundBefore(o, rows, m + 1 + 1, q)
      <3>1. m + 1 \in 1..m + 1
        OBVIOUS
      <3> QED
        BY <1>5, <1>6, <2>2, <2>3, <2>4, <2>7, <3>1 DEF FoundBefore
    <2>9. Len(found) + 1 \in DOMAIN q
      BY <1>1, <2>2
    <2>10. \A b \in 1..m + 1 : Shows(o, rows[b]) => \E k \in DOMAIN q : q[k].sid = rows[b].sid
      BY <1>2, <1>3, <2>2, <2>4, <2>6, <2>9
    <2>11. Len(q) <= o.limit
      BY <1>1, <1>7, <2>2
    <2> QED
      BY <2>2, <2>5, <2>8, <2>10, <2>11 DEF Kept
  <1>8. CASE ~(/\ Len(found) < o.limit
               /\ \A k \in DOMAIN found : found[k].sid # hit.sid
               /\ Shows(o, hit))
    <2>1. q = found
      BY <1>2, <1>8 DEF Turn
    <2>2. Shows(o, hit) => \/ \E k \in DOMAIN found : found[k].sid = hit.sid
                           \/ Len(found) = o.limit /\ FoundBefore(o, rows, m + 1, found)
      BY <1>1, <1>5, <1>8
    <2>3. \A b \in 1..m + 1 : Shows(o, rows[b]) =>
            \/ \E k \in DOMAIN found : found[k].sid = rows[b].sid
            \/ Len(found) = o.limit /\ FoundBefore(o, rows, b, found)
      BY <1>2, <1>3, <2>2 DEF Kept
    <2> QED
      BY <1>6, <2>1, <2>3 DEF Kept
  <1> QED
    BY <1>7, <1>8

LEMMA KeepKeeps ==
  ASSUME NEW S, NEW o, o.limit \in Nat, NEW rows \in Seq(S)
  PROVE  Kept(S, o, rows, Len(rows), Keep(o, rows))
  <1>1. PICK n \in Nat : n = Len(rows) /\ DOMAIN rows = 1..n
    OBVIOUS
  <1>2. PICK h : Turns(h, o, rows, n)
    BY <1>1, KeepTurns
  <1>3. PICK T : T = {m \in Nat : m <= n => Kept(S, o, rows, m, h[m])}
    OBVIOUS
  <1>4. 0 \in T
    <2>1. h[0] = <<>> /\ <<>> \in Seq(S) /\ Len(<<>>) = 0 /\ DOMAIN <<>> = {}
      BY <1>2 DEF Turns
    <2>2. Kept(S, o, rows, 0, <<>>)
      BY <2>1 DEF Kept, FoundBefore
    <2> QED
      BY <1>3, <2>1, <2>2
  <1>5. ASSUME NEW m \in Nat, m \in T
        PROVE  m + 1 \in T
    <2>1. SUFFICES ASSUME m + 1 <= n PROVE Kept(S, o, rows, m + 1, h[m + 1])
      BY <1>3
    <2>2. m <= n /\ m \in 0..n - 1
      BY <2>1
    <2>3. Kept(S, o, rows, m, h[m])
      BY <1>3, <1>5, <2>2
    <2>4. h[m + 1] = Turn(o, h[m], rows[m + 1])
      BY <1>2, <2>2 DEF Turns
    <2> QED
      BY <1>1, <2>1, <2>3, <2>4, TurnKeeps
  <1>6. \A m \in Nat : m \in T
    BY <1>4, <1>5, SetInduction
  <1>7. Kept(S, o, rows, n, h[n])
    BY <1>3, <1>6
  <1> QED
    BY <1>1, <1>2, <1>7 DEF Turns
-----------------------------------------------------------------------------
(* The rows that a search goes through. *)

\* The hits H are what the tables have for the search, no more and no less.
Answers(o, H) ==
    /\ IsFiniteSet(H)
    /\ \A h \in H : Shows(o, h) =>
         h.sid \in Wanted(o) /\ <<h.ord, h.text>> \in Mentioned(h.sid, o)
    /\ \A s \in Wanted(o) : \A d \in Mentioned(s, o) :
         \E h \in H : h.sid = s /\ h.ord = d[1] /\ h.text = d[2] /\ Shows(o, h)

LEMMA Tabled ==
  ASSUME IInv
  PROVE  /\ DOMAIN db.msgs \subseteq 1..MaxRowid
         /\ \A q \in DOMAIN db.msgs : db.msgs[q] \in Record
         /\ \A s \in Session : db.sess[s] \in Row \cup {NoRow}
  <1>1. db.msgs \in Table /\ \A s \in Session : db.sess[s] \in Row \cup {NoRow}
    BY DEF IInv, TypeOK, Tables
  <1> QED
    BY <1>1, TableIs DEF Rowid

LEMMA HitIs ==
  ASSUME NEW q
  PROVE  Hit(q).sid = db.msgs[q].sid /\ Hit(q).ord = db.msgs[q].ord
         /\ Hit(q).text = db.msgs[q].text
  BY DEF Hit

\* A text that a session is said to mention is that of one of its messages.
LEMMA MentionedIs ==
  ASSUME NEW o, NEW s, NEW d
  PROVE  d \in Mentioned(s, o) <=>
           \E q \in DOMAIN db.msgs :
             /\ db.msgs[q].sid = s /\ d = <<db.msgs[q].ord, db.msgs[q].text>>
             /\ <<db.msgs[q].text, o.query>> \in Mentions
  <1>1. \A q : /\ <<db.msgs[q].ord, db.msgs[q].text>>[1] = db.msgs[q].ord
               /\ <<db.msgs[q].ord, db.msgs[q].text>>[2] = db.msgs[q].text
    OBVIOUS
  <1>2. d \in StoredDoc(s) <=> \E q \in DOMAIN db.msgs :
          db.msgs[q].sid = s /\ d = <<db.msgs[q].ord, db.msgs[q].text>>
    BY DEF StoredDoc, IdsOf
  <1> QED
    BY <1>1, <1>2 DEF Mentioned

LEMMA FiniteHits ==
  ASSUME IInv, NEW D \in SUBSET DOMAIN db.msgs
  PROVE  IsFiniteSet({Hit(q) : q \in D})
  <1>1. IsFiniteSet(1..MaxRowid)
    BY RowidAssumption, FS_Interval
  <1>2. IsFiniteSet(D)
    BY <1>1, Tabled, FS_Subset
  <1>3. PICK f : f = [q \in D |-> Hit(q)]
    OBVIOUS
  <1>4. f \in Surjection(D, {Hit(q) : q \in D})
    BY <1>3 DEF Surjection
  <1> QED
    BY <1>2, <1>4, FS_Surjection

LEMMA ShortAnswer ==
  ASSUME IInv, NEW o, o.query \in ShortQuery
  PROVE  Answers(o, ShortRows(o))
  <1>1. PICK D : D = {q \in DOMAIN db.msgs : Passes(db.msgs[q].sid, o)}
    OBVIOUS
  <1>2. ShortRows(o) = {Hit(q) : q \in D}
    BY <1>1 DEF ShortRows
  <1>3. IsFiniteSet(ShortRows(o))
    BY <1>1, <1>2, FiniteHits
  <1>4. ASSUME NEW h \in ShortRows(o), Shows(o, h)
        PROVE  h.sid \in Wanted(o) /\ <<h.ord, h.text>> \in Mentioned(h.sid, o)
    <2>1. PICK q \in DOMAIN db.msgs : Passes(db.msgs[q].sid, o) /\ h = Hit(q)
      BY <1>1, <1>2
    <2>2. <<db.msgs[q].text, o.query>> \in Mentions
      BY <1>4, <2>1, HitIs DEF Shows
    <2>3. <<h.ord, h.text>> \in Mentioned(h.sid, o)
      BY <2>1, <2>2, HitIs, MentionedIs
    <2>4. h.sid \in Session
      BY <2>1, HitIs, Tabled DEF Record
    <2> QED
      BY <2>1, <2>3, <2>4, HitIs DEF Wanted
  <1>5. ASSUME NEW s \in Wanted(o), NEW d \in Mentioned(s, o)
        PROVE  \E h \in ShortRows(o) :
                 h.sid = s /\ h.ord = d[1] /\ h.text = d[2] /\ Shows(o, h)
    <2>1. PICK q \in DOMAIN db.msgs :
            /\ db.msgs[q].sid = s /\ d = <<db.msgs[q].ord, db.msgs[q].text>>
            /\ <<db.msgs[q].text, o.query>> \in Mentions
      BY MentionedIs
    <2>2. Hit(q) \in ShortRows(o)
      BY <1>1, <1>2, <2>1 DEF Wanted
    <2>3. Hit(q).sid = s /\ Hit(q).ord = d[1] /\ Hit(q).text = d[2]
      BY <2>1, HitIs
    <2>4. Shows(o, Hit(q))
      BY <2>1, HitIs DEF Shows
    <2> QED
      BY <2>2, <2>3, <2>4
  <1> QED
    BY <1>3, <1>4, <1>5 DEF Answers

LEMMA FtsAnswer ==
  ASSUME IInv, UInv, NEW o, o.query \notin ShortQuery
  PROVE  Answers(o, FtsRows(o))
  <1>1. PICK D : D = {q \in DOMAIN db.msgs :
                       /\ Passes(db.msgs[q].sid, o)
                       /\ \E f \in DOMAIN db.fts :
                            /\ <<db.fts[f].text, o.query>> \in Mentions
                            /\ db.fts[f].sid = db.msgs[q].sid
                            /\ db.fts[f].ord = db.msgs[q].ord}
    OBVIOUS
  <1>2. FtsRows(o) = {Hit(q) : q \in D}
    BY <1>1 DEF FtsRows
  <1>3. IsFiniteSet(FtsRows(o))
    BY <1>1, <1>2, FiniteHits
  <1>4. db.fts = db.msgs /\ Unique(db.msgs)
    BY DEF IInv, UInv, LexicalSync
  <1>5. ASSUME NEW h \in FtsRows(o)
        PROVE  h.sid \in Wanted(o) /\ <<h.ord, h.text>> \in Mentioned(h.sid, o)
    <2>1. PICK q \in D : h = Hit(q)
      BY <1>2
    <2>2. q \in DOMAIN db.msgs /\ Passes(db.msgs[q].sid, o)
      BY <1>1, <2>1
    <2>3. PICK f \in DOMAIN db.msgs :
            /\ <<db.msgs[f].text, o.query>> \in Mentions
            /\ db.msgs[f].sid = db.msgs[q].sid /\ db.msgs[f].ord = db.msgs[q].ord
      BY <1>1, <1>4, <2>1
    <2>4. f = q
      BY <1>4, <2>2, <2>3 DEF Unique
    <2>5. <<h.ord, h.text>> \in Mentioned(h.sid, o)
      BY <2>1, <2>2, <2>3, <2>4, HitIs, MentionedIs
    <2>6. h.sid \in Session
      BY <2>1, <2>2, HitIs, Tabled DEF Record
    <2> QED
      BY <2>1, <2>2, <2>5, <2>6, HitIs DEF Wanted
  <1>6. ASSUME NEW s \in Wanted(o), NEW d \in Mentioned(s, o)
        PROVE  \E h \in FtsRows(o) :
                 h.sid = s /\ h.ord = d[1] /\ h.text = d[2] /\ Shows(o, h)
    <2>1. PICK q \in DOMAIN db.msgs :
            /\ db.msgs[q].sid = s /\ d = <<db.msgs[q].ord, db.msgs[q].text>>
            /\ <<db.msgs[q].text, o.query>> \in Mentions
      BY MentionedIs
    <2>2. Hit(q) \in FtsRows(o)
      BY <1>1, <1>2, <1>4, <2>1 DEF Wanted
    <2>3. Hit(q).sid = s /\ Hit(q).ord = d[1] /\ Hit(q).text = d[2]
      BY <2>1, HitIs
    <2> QED
      BY <2>2, <2>3 DEF Shows
  <1> QED
    BY <1>3, <1>5, <1>6 DEF Answers

\* A listing of a finite set has each of its elements at some place.
LEMMA Listed ==
  ASSUME NEW H, IsFiniteSet(H), NEW rows \in Seqs!SetToSeqs(H)
  PROVE  /\ rows \in Seq(H)
         /\ \A h \in H : \E a \in DOMAIN rows : rows[a] = h
  <1>1. PICK n \in Nat : n = Cardinality(H)
    BY FS_CardinalityType
  <1>2. /\ rows \in [1..n -> H]
        /\ \A i, j \in 1..n : i # j => rows[i] # rows[j]
    <2>1. Seqs!Cardinality(H) = Cardinality(H)
      BY DEF Seqs!Cardinality, Cardinality, Seqs!IsFiniteSet, IsFiniteSet
    <2> QED
      BY <1>1, <2>1 DEF Seqs!SetToSeqs
  <1>3. rows \in Injection(1..n, H)
    BY <1>2 DEF Injection, IsInjective
  <1>4. IsFiniteSet(1..n) /\ Cardinality(1..n) = n
    BY FS_Interval
  <1>5. rows \in Surjection(1..n, H)
    BY <1>1, <1>3, <1>4, FS_Injection
  <1> QED
    BY <1>2, <1>5 DEF Surjection

\* What a search returns is kept from a listing of the rows that the tables have.
LEMMA SearchLists ==
  ASSUME IInv, UInv, NEW o, NEW found \in Search(o)
  PROVE  \E H : /\ Answers(o, H)
                /\ \E rows \in Seqs!SetToSeqs(H) : found = Keep(o, rows)
  <1>1. CASE o.query \in ShortQuery
    <2>1. \E rows \in Seqs!SetToSeqs(ShortRows(o)) : found = Keep(o, rows)
      BY <1>1 DEF Search, ShortAnswers
    <2> QED
      BY <1>1, <2>1, ShortAnswer
  <1>2. CASE o.query \notin ShortQuery
    <2>1. \E rows \in Seqs!SetToSeqs(FtsRows(o)) : found = Keep(o, rows)
      BY <1>2 DEF Search, FtsAnswers
    <2> QED
      BY <1>2, <2>1, FtsAnswer
  <1> QED
    BY <1>1, <1>2

-----------------------------------------------------------------------------
(* The answers are complete. *)

SidsOf(found) == {found[k].sid : k \in DOMAIN found}

LEMMA OneEach ==
  ASSUME NEW S, NEW found \in Seq(S),
         \A j, k \in DOMAIN found : found[j].sid = found[k].sid => j = k
  PROVE  Cardinality(SidsOf(found)) = Len(found)
  <1>1. PICK n \in Nat : n = Len(found) /\ DOMAIN found = 1..n
    OBVIOUS
  <1>2. PICK f : f = [k \in 1..n |-> found[k].sid]
    OBVIOUS
  <1>3. f \in Bijection(1..n, SidsOf(found))
    BY <1>1, <1>2 DEF SidsOf, Bijection, Injection, Surjection, IsInjective
  <1>4. IsFiniteSet(1..n) /\ Cardinality(1..n) = n
    BY FS_Interval
  <1>5. ExistsBijection(1..n, SidsOf(found))
    BY <1>3 DEF ExistsBijection
  <1> QED
    BY <1>1, <1>4, <1>5, FS_Bijection

CompleteAnswer(o, found) ==
    /\ \A k \in DOMAIN found :
         /\ found[k].sid \in Wanted(o)
         /\ <<found[k].ord, found[k].text>> \in Mentioned(found[k].sid, o)
    /\ Cardinality(SidsOf(found)) = Len(found)
    /\ \/ SidsOf(found) = Wanted(o)
       \/ Cardinality(SidsOf(found)) = o.limit

LEMMA AnswerComplete ==
  ASSUME NEW o, o.limit \in Nat, NEW H, Answers(o, H), NEW rows \in Seqs!SetToSeqs(H),
         NEW found, found = Keep(o, rows)
  PROVE  CompleteAnswer(o, found)
  <1>1. rows \in Seq(H) /\ \A h \in H : \E a \in DOMAIN rows : rows[a] = h
    BY Listed DEF Answers
  <1>2. Kept(H, o, rows, Len(rows), found)
    BY <1>1, KeepKeeps
  <1>3. Len(rows) \in Nat /\ DOMAIN rows = 1..Len(rows)
    BY <1>1
  <1>4. ASSUME NEW k \in DOMAIN found
        PROVE  /\ found[k].sid \in Wanted(o)
               /\ <<found[k].ord, found[k].text>> \in Mentioned(found[k].sid, o)
    <2>1. PICK a : FirstShown(o, rows, a, found[k])
      BY <1>2 DEF Kept, FoundBefore
    <2>2. found[k] \in H /\ Shows(o, found[k])
      BY <1>1, <2>1 DEF FirstShown
    <2> QED
      BY <2>2 DEF Answers
  <1>5. Cardinality(SidsOf(found)) = Len(found)
    BY <1>2, OneEach DEF Kept
  <1>6. ASSUME Len(found) # o.limit, NEW s \in Wanted(o)
        PROVE  s \in SidsOf(found)
    <2>1. PICK d \in Mentioned(s, o) : TRUE
      BY DEF Wanted
    <2>2. PICK h \in H : h.sid = s /\ Shows(o, h)
      BY <2>1 DEF Answers
    <2>3. PICK b \in 1..Len(rows) : rows[b] = h
      BY <1>1, <1>3
    <2>4. \E k \in DOMAIN found : found[k].sid = s
      BY <1>2, <1>6, <2>2, <2>3 DEF Kept
    <2> QED
      BY <2>4 DEF SidsOf
  <1>7. SidsOf(found) \subseteq Wanted(o)
    BY <1>4 DEF SidsOf
  <1>8. SidsOf(found) = Wanted(o) \/ Len(found) = o.limit
    BY <1>6, <1>7
  <1> QED
    BY <1>4, <1>5, <1>8 DEF CompleteAnswer

(***************************************************************************)
(* Whatever batches were written, and wherever one of them failed, a       *)
(* search returns distinct sessions, each with a message that has the      *)
(* query, and all of them unless it reached its limit: the two backends of *)
(* search.go are both complete, though they read different tables.         *)
(***************************************************************************)
THEOREM SearchesAreComplete == Spec => []SearchComplete
  <1>1. ASSUME IInv, UInv
        PROVE  SearchComplete
    <2>1. ASSUME NEW o \in Options, NEW found \in Search(o)
          PROVE  CompleteAnswer(o, found)
      <3>1. PICK H : /\ Answers(o, H)
                     /\ \E rows \in Seqs!SetToSeqs(H) : found = Keep(o, rows)
        BY <1>1, <2>1, SearchLists
      <3>2. o.limit \in Nat
        BY <2>1, OptionsAssumption
      <3> QED
        BY <3>1, <3>2, AnswerComplete
    <2> QED
      BY <2>1 DEF SearchComplete, CompleteAnswer, SidsOf
  <1> QED
    BY <1>1, Invariance, OrdinalsAreUnique, PTL
-----------------------------------------------------------------------------
(* The order of a short search. *)

LEMMA AfterIsStrict ==
  ASSUME NEW t \in Seq(Nat)
  PROVE  ~TextAfter(t, t)
  BY DEF TextAfter

LEMMA AfterIsTransitive ==
  ASSUME NEW t \in Seq(Nat), NEW u \in Seq(Nat), NEW v \in Seq(Nat),
         TextAfter(t, u), TextAfter(u, v)
  PROVE  TextAfter(t, v)
  <1>1. PICK j \in DOMAIN t \cap DOMAIN u : t[j] > u[j] /\ \A i \in 1..j - 1 : t[i] = u[i]
    BY DEF TextAfter
  <1>2. PICK k \in DOMAIN u \cap DOMAIN v : u[k] > v[k] /\ \A i \in 1..k - 1 : u[i] = v[i]
    BY DEF TextAfter
  <1>3. /\ DOMAIN t = 1..Len(t) /\ DOMAIN u = 1..Len(u) /\ DOMAIN v = 1..Len(v)
        /\ Len(t) \in Nat /\ Len(u) \in Nat /\ Len(v) \in Nat
    OBVIOUS
  <1>4. j \in Nat /\ k \in Nat
    BY <1>1, <1>2, <1>3
  <1>5. /\ \A i \in DOMAIN t : t[i] \in Nat
        /\ \A i \in DOMAIN u : u[i] \in Nat
        /\ \A i \in DOMAIN v : v[i] \in Nat
    BY <1>3, ElementOfSeq
  <1>6. CASE j < k
    <2>1. j \in 1..k - 1 /\ j \in DOMAIN v /\ u[j] = v[j]
      BY <1>1, <1>2, <1>3, <1>4, <1>6
    <2>2. \A i \in 1..j - 1 : i \in 1..k - 1
      BY <1>4, <1>6
    <2>3. \A i \in 1..j - 1 : t[i] = v[i]
      BY <1>1, <1>2, <2>2
    <2>4. t[j] > v[j]
      BY <1>1, <2>1
    <2> QED
      BY <1>1, <2>1, <2>3, <2>4 DEF TextAfter
  <1>7. CASE k <= j
    <2>1. k \in DOMAIN t
      BY <1>1, <1>2, <1>3, <1>4, <1>7
    <2>2. \A i \in 1..k - 1 : i \in 1..j - 1
      BY <1>4, <1>7
    <2>3. \A i \in 1..k - 1 : t[i] = v[i]
      BY <1>1, <1>2, <2>2
    <2>4. t[k] > u[k] \/ t[k] = u[k]
      <3>1. k = j \/ k \in 1..j - 1
        BY <1>2, <1>3, <1>4, <1>7
      <3> QED
        BY <1>1, <3>1
    <2>5. t[k] > v[k]
      <3>1. t[k] \in Nat /\ u[k] \in Nat /\ v[k] \in Nat
        BY <1>2, <1>5, <2>1
      <3>2. \A x, y, z \in Nat : (x > y \/ x = y) /\ y > z => x > z
        OBVIOUS
      <3>3. u[k] > v[k]
        BY <1>2
      <3> QED
        BY <2>4, <3>1, <3>2, <3>3
    <2> QED
      BY <1>2, <2>1, <2>3, <2>5 DEF TextAfter
  <1> QED
    BY <1>4, <1>6, <1>7

LEMMA FormatTimeText ==
  ASSUME NEW t, t.sec \in Nat, t.frac \in Seq(0..9)
  PROVE  FormatTime(t) \in Seq(Nat) /\ 1 \in DOMAIN FormatTime(t) /\ FormatTime(t)[1] = t.sec
  <1>1. PICK d : d = [k \in DOMAIN t.frac |-> 48 + t.frac[k]]
    OBVIOUS
  <1>2. d \in Seq(Nat)
    <2>1. DOMAIN t.frac = 1..Len(t.frac) /\ Len(t.frac) \in Nat
      OBVIOUS
    <2>2. \A k \in DOMAIN t.frac : 48 + t.frac[k] \in Nat
      OBVIOUS
    <2>3. d \in [1..Len(t.frac) -> Nat]
      BY <1>1, <2>1, <2>2
    <2> QED
      BY <2>1, <2>3
  <1>3. PICK f \in Seq(Nat) : f = IF t.frac = <<>> THEN <<>> ELSE <<46>> \o d
    <2>1. PICK f : f = IF t.frac = <<>> THEN <<>> ELSE <<46>> \o d
      OBVIOUS
    <2>2. <<46>> \in Seq(Nat) /\ <<>> \in Seq(Nat)
      OBVIOUS
    <2>3. <<46>> \o d \in Seq(Nat)
      BY <1>2, <2>2
    <2>4. f \in Seq(Nat)
      BY <2>1, <2>2, <2>3
    <2> QED
      BY <2>1, <2>4
  <1>4. FormatTime(t) = <<t.sec>> \o f \o <<90>>
    BY <1>1, <1>3 DEF FormatTime
  <1>5. <<t.sec>> \in Seq(Nat) /\ <<90>> \in Seq(Nat) /\ Len(<<t.sec>>) = 1 /\ <<t.sec>>[1] = t.sec
    OBVIOUS
  <1>6. PICK g : g = <<t.sec>> \o f /\ g \in Seq(Nat)
    <2>1. <<t.sec>> \o f \in Seq(Nat)
      BY <1>5
    <2> QED
      BY <2>1
  <1>7. Len(g) = 1 + Len(f) /\ g[1] = t.sec /\ Len(f) \in Nat
    BY <1>5, <1>6
  <1>8. PICK z : z = <<90>> /\ z \in Seq(Nat) /\ Len(z) = 1
    <2>1. <<90>> \in Seq(Nat) /\ Len(<<90>>) = 1
      OBVIOUS
    <2> QED
      BY <2>1
  <1>9. 1 \in 1..Len(g) + Len(z) /\ 1 <= Len(g)
    BY <1>7, <1>8
  <1>10. g \o z \in Seq(Nat) /\ DOMAIN (g \o z) = 1..Len(g) + Len(z) /\ (g \o z)[1] = g[1]
    BY <1>6, <1>8, <1>9
  <1> QED
    BY <1>4, <1>6, <1>7, <1>8, <1>9, <1>10

\* A hit of the short search: its session has a row, and so a time.
Timed(h) ==
    h.ord \in Nat /\ db.sess[h.sid].time.sec \in Nat /\ db.sess[h.sid].time.frac \in Seq(0..9)

LEMMA HitsAreTimed ==
  ASSUME IInv, NEW o, NEW h \in ShortRows(o)
  PROVE  Timed(h)
  <1>1. PICK q \in DOMAIN db.msgs : Passes(db.msgs[q].sid, o) /\ h = Hit(q)
    BY DEF ShortRows
  <1>2. h.sid = db.msgs[q].sid /\ h.ord = db.msgs[q].ord
    BY <1>1, HitIs
  <1>3. db.msgs[q] \in Record
    BY Tabled
  <1>4. h.sid \in Session /\ h.ord \in {m.ord : m \in Message}
    BY <1>2, <1>3 DEF Record
  <1>5. db.sess[h.sid] \in Row
    BY <1>1, <1>2, <1>4, Tabled DEF Passes
  <1> QED
    BY <1>4, <1>5, OrderAssumption DEF Timed

LEMMA NewestIsTransitive ==
  ASSUME NEW h, NEW i, NEW j, Timed(h), Timed(i), Timed(j), NewestFirst(h, i), NewestFirst(i, j)
  PROVE  NewestFirst(h, j)
  <1>1. Time(h) \in Seq(Nat) /\ Time(i) \in Seq(Nat) /\ Time(j) \in Seq(Nat)
    BY FormatTimeText DEF Timed, Time
  <1>2. CASE TextAfter(Time(h), Time(i)) \/ TextAfter(Time(i), Time(j))
    <2>1. TextAfter(Time(h), Time(j))
      BY <1>1, <1>2, AfterIsTransitive DEF NewestFirst
    <2> QED
      BY <2>1 DEF NewestFirst
  <1>3. CASE ~(TextAfter(Time(h), Time(i)) \/ TextAfter(Time(i), Time(j)))
    <2>1. Time(h) = Time(j) /\ h.ord <= i.ord /\ i.ord <= j.ord
      BY <1>3 DEF NewestFirst
    <2>2. h.ord <= j.ord
      BY <2>1 DEF Timed
    <2> QED
      BY <2>1, <2>2 DEF NewestFirst
  <1> QED
    BY <1>2, <1>3

LEMMA NewestIsLater ==
  ASSUME NEW h, NEW i, Timed(h), Timed(i), NewestFirst(h, i)
  PROVE  /\ db.sess[i.sid].time.sec <= db.sess[h.sid].time.sec
         /\ h.sid = i.sid => h.ord <= i.ord
  <1>1. /\ Time(h) \in Seq(Nat) /\ 1 \in DOMAIN Time(h) /\ Time(h)[1] = db.sess[h.sid].time.sec
        /\ Time(i) \in Seq(Nat) /\ 1 \in DOMAIN Time(i) /\ Time(i)[1] = db.sess[i.sid].time.sec
    BY FormatTimeText DEF Timed, Time
  <1>2. CASE TextAfter(Time(h), Time(i))
    <2>1. PICK k \in DOMAIN Time(h) \cap DOMAIN Time(i) :
            Time(h)[k] > Time(i)[k] /\ \A j \in 1..k - 1 : Time(h)[j] = Time(i)[j]
      BY <1>2 DEF TextAfter
    <2>2. k \in Nat \ {0}
      BY <1>1
    <2>3. Time(i)[1] <= Time(h)[1]
      <3>1. k = 1 \/ 1 \in 1..k - 1
        BY <2>2
      <3>2. Time(h)[1] \in Nat /\ Time(i)[1] \in Nat
        BY <1>1 DEF Timed
      <3>3. Time(h)[1] > Time(i)[1] \/ Time(h)[1] = Time(i)[1]
        BY <2>1, <3>1
      <3> QED
        BY <3>2, <3>3
    <2>4. h.sid # i.sid
      BY <1>1, <1>2, AfterIsStrict DEF Time
    <2> QED
      BY <1>1, <2>3, <2>4
  <1>3. CASE Time(h) = Time(i) /\ h.ord <= i.ord
    BY <1>1, <1>3 DEF Timed
  <1> QED
    BY <1>2, <1>3 DEF NewestFirst

\* The order between neighbours is the order between any two.
LEMMA NewestThroughout ==
  ASSUME IInv, NEW o, NEW rows \in ShortAnswers(o), rows \in Seq(ShortRows(o)),
         NEW a \in DOMAIN rows, NEW b \in DOMAIN rows, a < b
  PROVE  NewestFirst(rows[a], rows[b])
  <1>1. PICK n \in Nat : n = Len(rows) /\ DOMAIN rows = 1..n
    OBVIOUS
  <1>2. \A k \in 1..n : Timed(rows[k])
    BY <1>1, HitsAreTimed
  <1>3. \A k \in 1..n - 1 : NewestFirst(rows[k], rows[k + 1])
    BY <1>1 DEF ShortAnswers
  <1>4. PICK T : T = {m \in Nat : a + m + 1 <= n => NewestFirst(rows[a], rows[a + m + 1])}
    OBVIOUS
  <1>5. 0 \in T
    <2>1. a + 0 + 1 = a + 1 /\ (a + 1 <= n => a \in 1..n - 1)
      BY <1>1
    <2> QED
      BY <1>3, <1>4, <2>1
  <1>6. ASSUME NEW m \in Nat, m \in T
        PROVE  m + 1 \in T
    <2>1. SUFFICES ASSUME a + m + 1 + 1 <= n PROVE NewestFirst(rows[a], rows[a + m + 1 + 1])
      <3>1. a + (m + 1) + 1 = a + m + 1 + 1
        BY <1>1
      <3> QED
        BY <1>4, <3>1
    <2>2. /\ a + m + 1 <= n /\ a + m + 1 \in 1..n - 1 /\ a + m + 1 \in 1..n
          /\ a + m + 1 + 1 \in 1..n
      BY <1>1, <2>1
    <2>3. NewestFirst(rows[a], rows[a + m + 1])
      BY <1>4, <1>6, <2>2
    <2> QED
      BY <1>1, <1>2, <1>3, <2>2, <2>3, NewestIsTransitive
  <1>7. \A m \in Nat : m \in T
    BY <1>5, <1>6, SetInduction
  <1>8. b - a - 1 \in Nat /\ a + (b - a - 1) + 1 = b /\ b <= n
    BY <1>1
  <1> QED
    BY <1>4, <1>7, <1>8

NewestAnswer(o, found) ==
    /\ \A s \in Wanted(o) \ SidsOf(found), t \in SidsOf(found) :
         db.sess[s].time.sec <= db.sess[t].time.sec
    /\ \A k \in DOMAIN found : \A d \in Mentioned(found[k].sid, o) : found[k].ord <= d[1]

LEMMA AnswerNewest ==
  ASSUME IInv, NEW o, o.limit \in Nat, o.query \in ShortQuery,
         NEW rows \in ShortAnswers(o), NEW found, found = Keep(o, rows)
  PROVE  NewestAnswer(o, found)
  <1>1. PICK H : H = ShortRows(o)
    OBVIOUS
  <1>2. Answers(o, H) /\ rows \in Seqs!SetToSeqs(H)
    BY <1>1, ShortAnswer DEF ShortAnswers
  <1>3. rows \in Seq(H) /\ \A h \in H : \E a \in DOMAIN rows : rows[a] = h
    BY <1>2, Listed DEF Answers
  <1>4. Kept(H, o, rows, Len(rows), found)
    BY <1>3, KeepKeeps
  <1>5. Len(rows) \in Nat /\ DOMAIN rows = 1..Len(rows)
    BY <1>3
  <1>6. \A a \in DOMAIN rows : Timed(rows[a])
    BY <1>1, <1>3, HitsAreTimed
  <1>7. \A a, b \in DOMAIN rows : a < b => NewestFirst(rows[a], rows[b])
    BY <1>1, <1>3, NewestThroughout
  <1>8. ASSUME NEW s \in Wanted(o), s \notin SidsOf(found), NEW k \in DOMAIN found
        PROVE  db.sess[s].time.sec <= db.sess[found[k].sid].time.sec
    <2>1. PICK d \in Mentioned(s, o) : TRUE
      BY DEF Wanted
    <2>2. PICK h \in H : h.sid = s /\ Shows(o, h)
      BY <1>2, <2>1 DEF Answers
    <2>3. PICK b \in 1..Len(rows) : rows[b] = h
      BY <1>3, <1>5
    <2>4. ~ \E j \in DOMAIN found : found[j].sid = s
      BY <1>8 DEF SidsOf
    <2>5. FoundBefore(o, rows, b, found)
      BY <1>4, <2>2, <2>3, <2>4 DEF Kept
    <2>6. PICK a \in 1..b - 1 : a \in DOMAIN rows /\ rows[a] = found[k]
      BY <2>5 DEF FoundBefore, FirstShown
    <2>7. a < b /\ b \in DOMAIN rows
      BY <1>5
    <2>8. NewestFirst(found[k], h) /\ Timed(found[k]) /\ Timed(h)
      BY <1>6, <1>7, <2>3, <2>6, <2>7
    <2> QED
      BY <2>2, <2>8, NewestIsLater
  <1>9. ASSUME NEW k \in DOMAIN found, NEW d \in Mentioned(found[k].sid, o)
        PROVE  found[k].ord <= d[1]
    <2>1. PICK a : FirstShown(o, rows, a, found[k])
      BY <1>4 DEF Kept, FoundBefore
    <2>2. a \in DOMAIN rows /\ rows[a] = found[k] /\ Shows(o, found[k]) /\ found[k] \in H
      BY <1>3, <2>1 DEF FirstShown
    <2>3. found[k].sid \in Wanted(o)
      BY <1>2, <2>2 DEF Answers
    <2>4. PICK h \in H : h.sid = found[k].sid /\ h.ord = d[1] /\ Shows(o, h)
      BY <1>2, <2>3 DEF Answers
    <2>5. PICK b \in DOMAIN rows : rows[b] = h
      BY <1>3
    <2>6. b \notin 1..a - 1
      BY <2>1, <2>4, <2>5 DEF FirstShown
    <2>7. b = a \/ a < b
      BY <1>5, <2>2, <2>5, <2>6
    <2>8. CASE b = a
      BY <1>6, <2>2, <2>4, <2>5, <2>8 DEF Timed
    <2>9. CASE a < b
      <3>1. NewestFirst(found[k], h) /\ Timed(found[k]) /\ Timed(h)
        BY <1>6, <1>7, <2>2, <2>5, <2>9
      <3> QED
        BY <2>4, <3>1, NewestIsLater
    <2> QED
      BY <2>7, <2>8, <2>9
  <1> QED
    BY <1>8, <1>9 DEF NewestAnswer, SidsOf

(***************************************************************************)
(* A short search that leaves sessions out leaves out none of a later      *)
(* second than one it returns, and shows of each session the first message *)
(* that has the query: ORDER BY on texts without their trailing zeros is   *)
(* right to the second, and within a session it is the order of ordinals.  *)
(***************************************************************************)
THEOREM ShortSearchesAreNewest == Spec => []ShortSearchNewest
  <1>1. ASSUME IInv
        PROVE  ShortSearchNewest
    <2>1. ASSUME NEW o \in {p \in Options : p.query \in ShortQuery}, NEW found \in Search(o)
          PROVE  NewestAnswer(o, found)
      <3>1. o.limit \in Nat /\ o.query \in ShortQuery
        BY <2>1, OptionsAssumption
      <3>2. PICK rows \in ShortAnswers(o) : found = Keep(o, rows)
        BY <2>1, <3>1 DEF Search
      <3> QED
        BY <1>1, <3>1, <3>2, AnswerNewest
    <2> QED
      BY <2>1 DEF ShortSearchNewest, NewestAnswer, SidsOf
  <1> QED
    BY <1>1, Invariance, PTL
=============================================================================
