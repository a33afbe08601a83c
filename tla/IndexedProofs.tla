----------------------------- MODULE IndexedProofs ---------------------------
(***************************************************************************)
(* What holds of the commands that read the index: status, indexed search  *)
(* and pack, and compare, for every index that refreshes may have left and *)
(* every live search before it.                                            *)
(*                                                                         *)
(* Compare's loops are folds; so this module starts with the existence of  *)
(* the function the fold is defined by.                                    *)
(***************************************************************************)
EXTENDS SearchProofs

-----------------------------------------------------------------------------
(* The loop of Compare. *)

\* One turn of it.
Turn(order, id) == IF Seqs!Contains(order, id) THEN order ELSE Append(order, id)

\* The function that AddNew computes with, for the ids at the places D.
Folds(g, order, ids, D) ==
    g = [s \in SUBSET D |->
           IF s = {} THEN order
           ELSE Turn(g[s \ {Seqs!Max(s)}], ids[Seqs!Max(s)])]

LEMMA FoldExists ==
  ASSUME NEW order, NEW ids
  PROVE  \A n \in Nat : \E g : Folds(g, order, ids, 1..n)
  <1>1. PICK T : T = {m \in Nat : \E g : Folds(g, order, ids, 1..m)}
    OBVIOUS
  <1>2. 0 \in T
    <2>1. PICK g : g = [s \in SUBSET (1..0) |-> order]
      OBVIOUS
    <2>2. \A s \in SUBSET (1..0) : s = {}
      OBVIOUS
    <2>3. Folds(g, order, ids, 1..0)
      BY <2>1, <2>2 DEF Folds
    <2> QED
      BY <1>1, <2>3
  <1>3. ASSUME NEW m \in Nat, m \in T
        PROVE  m + 1 \in T
    <2>1. PICK g : Folds(g, order, ids, 1..m)
      BY <1>1, <1>3
    <2>2. PICK h : h = [s \in SUBSET (1..m + 1) |->
                          IF m + 1 \in s THEN Turn(g[s \ {m + 1}], ids[m + 1]) ELSE g[s]]
      OBVIOUS
    <2>3. \A s \in SUBSET (1..m) : s \in SUBSET (1..m + 1) /\ m + 1 \notin s
      OBVIOUS
    <2>4. \A s \in SUBSET (1..m) : h[s] = g[s]
      BY <2>2, <2>3
    <2>5. ASSUME NEW s \in SUBSET (1..m + 1)
          PROVE  h[s] = IF s = {} THEN order
                        ELSE Turn(h[s \ {Seqs!Max(s)}], ids[Seqs!Max(s)])
      <3>1. CASE m + 1 \in s
        <4>1. Seqs!Max(s) = m + 1 /\ s # {}
          BY <3>1, LastPlace
        <4>2. s \ {m + 1} \in SUBSET (1..m)
          OBVIOUS
        <4>3. h[s] = Turn(g[s \ {m + 1}], ids[m + 1])
          BY <2>2, <3>1
        <4> QED
          BY <2>4, <4>1, <4>2, <4>3
      <3>2. CASE m + 1 \notin s
        <4>1. s \in SUBSET (1..m)
          BY <3>2
        <4>2. h[s] = g[s]
          BY <2>4, <4>1
        <4>3. g[s] = IF s = {} THEN order
                     ELSE Turn(g[s \ {Seqs!Max(s)}], ids[Seqs!Max(s)])
          BY <2>1, <4>1 DEF Folds
        <4>4. s \ {Seqs!Max(s)} \in SUBSET (1..m)
          BY <4>1
        <4> QED
          BY <2>4, <4>2, <4>3, <4>4
      <3> QED
        BY <3>1, <3>2
    <2>6. PICK f : f = [s \in SUBSET (1..m + 1) |->
                          IF s = {} THEN order
                          ELSE Turn(h[s \ {Seqs!Max(s)}], ids[Seqs!Max(s)])]
      OBVIOUS
    <2>7. h = f
      BY <2>2, <2>5, <2>6
    <2>8. Folds(h, order, ids, 1..m + 1)
      BY <2>6, <2>7 DEF Folds
    <2> QED
      BY <1>1, <2>8
  <1>4. \A n \in Nat : n \in T
    BY <1>2, <1>3, SetInduction
  <1> QED
    BY <1>1, <1>4

\* AddNew takes the n ids one after another: what h has of the first m is from them.
Turns(h, order, ids, n) ==
    /\ h[0] = order /\ h[n] = AddNew(order, ids)
    /\ \A m \in 0..n - 1 : h[m + 1] = Turn(h[m], ids[m + 1])

LEMMA AddNewTurns ==
  ASSUME NEW order, NEW ids, NEW n \in Nat, DOMAIN ids = 1..n
  PROVE  \E h : Turns(h, order, ids, n)
  <1>1. PICK D : D = 1..n
    OBVIOUS
  <1>2. PICK g : Folds(g, order, ids, D) /\ AddNew(order, ids) = g[D]
    <2>1. \E g : Folds(g, order, ids, D)
      BY <1>1, FoldExists
    <2>2. AddNew(order, ids) = (CHOOSE g : Folds(g, order, ids, D))[D]
      BY <1>1 DEF AddNew, Folds, Turn, Seqs!FoldLeft, Seqs!MapThenFoldSet
    <2> QED
      BY <2>1, <2>2
  <1>3. PICK h : h = [m \in 0..n |-> g[1..m]]
    OBVIOUS
  <1>4. h[0] = order
    <2>1. 1..0 = {} /\ {} \in SUBSET D /\ 0 \in 0..n
      OBVIOUS
    <2> QED
      BY <1>2, <1>3, <2>1 DEF Folds
  <1>5. ASSUME NEW m \in 0..n - 1
        PROVE  h[m + 1] = Turn(h[m], ids[m + 1])
    <2>1. PICK s : s = 1..m + 1
      OBVIOUS
    <2>2. s \in SUBSET D /\ m + 1 \in s /\ m \in 0..n /\ m + 1 \in 0..n /\ m \in Nat
      BY <1>1, <2>1
    <2>3. Seqs!Max(s) = m + 1
      BY <2>1, <2>2, LastPlace
    <2>4. s \ {m + 1} = 1..m
      BY <2>1, <2>2
    <2>5. g[s] = Turn(g[s \ {Seqs!Max(s)}], ids[Seqs!Max(s)])
      BY <1>2, <2>2 DEF Folds
    <2> QED
      BY <1>3, <2>1, <2>2, <2>3, <2>4, <2>5
  <1>6. h[n] = AddNew(order, ids)
    BY <1>1, <1>2, <1>3
  <1> QED
    BY <1>4, <1>5, <1>6 DEF Turns

-----------------------------------------------------------------------------
(* What AddNew returns. *)

Distinct(s) == \A j, k \in DOMAIN s : s[j] = s[k] => j = k

\* Where an id comes first.
First(ids, id, a) == a \in DOMAIN ids /\ ids[a] = id /\ \A b \in 1..a - 1 : ids[b] # id

\* The order, and after it, as they came, those of the first m ids that it has not.
Grown(S, order, ids, m, r) ==
    /\ r \in Seq(S) /\ Distinct(r) /\ Len(order) <= Len(r)
    /\ \A k \in 1..Len(order) : r[k] = order[k]
    /\ \A a \in 1..m : \E k \in 1..Len(r) : r[k] = ids[a]
    /\ \A k \in Len(order) + 1..Len(r) : \E a \in 1..m : First(ids, r[k], a)
    /\ \A j, k \in Len(order) + 1..Len(r) : j < k =>
         \A a, b \in DOMAIN ids : First(ids, r[j], a) /\ First(ids, r[k], b) => a < b

LEMMA FirstIsOne ==
  ASSUME NEW S, NEW ids \in Seq(S), NEW id, NEW a, NEW b, First(ids, id, a), First(ids, id, b)
  PROVE  a = b
  <1>1. a \in Nat \ {0} /\ b \in Nat \ {0}
    BY DEF First
  <1>2. ~(a < b) /\ ~(b < a)
    BY <1>1 DEF First
  <1> QED
    BY <1>1, <1>2

LEMMA TurnGrows ==
  ASSUME NEW S, NEW order \in Seq(S), NEW ids \in Seq(S), NEW m \in Nat, m + 1 <= Len(ids),
         NEW r, Grown(S, order, ids, m, r), NEW q, q = Turn(r, ids[m + 1])
  PROVE  Grown(S, order, ids, m + 1, q)
  <1>1. /\ r \in Seq(S) /\ Distinct(r) /\ Len(order) \in Nat /\ Len(r) \in Nat
        /\ Len(order) <= Len(r) /\ DOMAIN r = 1..Len(r) /\ DOMAIN ids = 1..Len(ids)
    BY DEF Grown
  <1>2. PICK id \in S : id = ids[m + 1]
    BY <1>1
  <1>3. CASE \E k \in 1..Len(r) : r[k] = id
    <2>1. q = r
      BY <1>2, <1>3 DEF Turn, Seqs!Contains
    <2>2. \A a \in 1..m + 1 : a \in 1..m \/ a = m + 1
      OBVIOUS
    <2>3. \A a \in 1..m + 1 : \E k \in 1..Len(r) : r[k] = ids[a]
      BY <1>2, <1>3, <2>2 DEF Grown
    <2>4. \A a \in 1..m : a \in 1..m + 1
      OBVIOUS
    <2>5. \A k \in Len(order) + 1..Len(r) : \E a \in 1..m + 1 : First(ids, r[k], a)
      BY <2>4 DEF Grown
    <2> QED
      BY <2>1, <2>3, <2>5 DEF Grown
  <1>4. CASE \A k \in 1..Len(r) : r[k] # id
    <2>1. q = Append(r, id)
      BY <1>2, <1>4 DEF Turn, Seqs!Contains
    <2>2. /\ q \in Seq(S) /\ Len(q) = Len(r) + 1 /\ DOMAIN q = 1..Len(r) + 1
          /\ q[Len(r) + 1] = id /\ \A k \in 1..Len(r) : q[k] = r[k]
      BY <1>1, <2>1, AppendProperties
    <2>3. \A k \in 1..Len(q) : k \in 1..Len(r) \/ k = Len(r) + 1
      BY <1>1, <2>2
    <2>4. \A k \in 1..Len(r) : k \in 1..Len(q)
      BY <1>1, <2>2
    <2>5. Distinct(q)
      BY <1>1, <1>4, <2>2, <2>3 DEF Distinct
    <2>6. Len(order) <= Len(q) /\ \A k \in 1..Len(order) : q[k] = order[k]
      BY <1>1, <2>2 DEF Grown
    <2>7. \A a \in 1..m + 1 : a \in 1..m \/ a = m + 1
      OBVIOUS
    <2>8. \A a \in 1..m + 1 : \E k \in 1..Len(q) : q[k] = ids[a]
      <3>1. Len(r) + 1 \in 1..Len(q)
        BY <1>1, <2>2
      <3> QED
        BY <1>2, <2>2, <2>4, <2>7, <3>1 DEF Grown
    <2>9. \A a \in 1..m : ids[a] # id
      BY <1>4 DEF Grown
    <2>10. First(ids, id, m + 1)
      BY <1>1, <1>2, <2>9 DEF First
    <2>11. \A k \in Len(order) + 1..Len(q) :
             k = Len(r) + 1 \/ (k \in Len(order) + 1..Len(r) /\ q[k] = r[k])
      BY <1>1, <2>2
    <2>12. \A k \in Len(order) + 1..Len(r) : \E a \in 1..m : First(ids, r[k], a)
      BY DEF Grown
    <2>13. \A k \in Len(order) + 1..Len(q) : \E a \in 1..m + 1 : First(ids, q[k], a)
      <3>1. m + 1 \in 1..m + 1 /\ \A a \in 1..m : a \in 1..m + 1
        OBVIOUS
      <3> QED
        BY <2>2, <2>10, <2>11, <2>12, <3>1
    <2>14. ASSUME NEW j \in Len(order) + 1..Len(q), NEW k \in Len(order) + 1..Len(q), j < k,
                  NEW a \in DOMAIN ids, NEW b \in DOMAIN ids,
                  First(ids, q[j], a), First(ids, q[k], b)
           PROVE  a < b
      <3>1. j \in Len(order) + 1..Len(r) /\ q[j] = r[j]
        BY <1>1, <2>2, <2>11, <2>14
      <3>2. CASE k = Len(r) + 1
        <4>1. b = m + 1
          BY <2>2, <2>10, <2>14, <3>2, FirstIsOne
        <4>2. PICK c \in 1..m : First(ids, r[j], c)
          BY <2>12, <3>1
        <4>3. a = c
          BY <2>14, <3>1, <4>2, FirstIsOne
        <4> QED
          BY <4>1, <4>2, <4>3
      <3>3. CASE k \in Len(order) + 1..Len(r) /\ q[k] = r[k]
        BY <2>14, <3>1, <3>3 DEF Grown
      <3> QED
        BY <2>11, <3>2, <3>3
    <2> QED
      BY <2>2, <2>5, <2>6, <2>8, <2>13, <2>14 DEF Grown
  <1> QED
    BY <1>3, <1>4

LEMMA AddNewGrows ==
  ASSUME NEW S, NEW order \in Seq(S), Distinct(order), NEW ids \in Seq(S)
  PROVE  Grown(S, order, ids, Len(ids), AddNew(order, ids))
  <1>1. PICK n \in Nat : n = Len(ids) /\ DOMAIN ids = 1..n
    OBVIOUS
  <1>2. PICK h : Turns(h, order, ids, n)
    BY <1>1, AddNewTurns
  <1>3. PICK T : T = {m \in Nat : m <= n => Grown(S, order, ids, m, h[m])}
    OBVIOUS
  <1>4. 0 \in T
    <2>1. Len(order) \in Nat /\ order \in Seq(S)
      OBVIOUS
    <2>2. 1..0 = {} /\ Len(order) + 1..Len(order) = {}
      BY <2>1
    <2>3. Grown(S, order, ids, 0, order)
      BY <2>1, <2>2 DEF Grown
    <2> QED
      BY <1>2, <1>3, <2>3 DEF Turns
  <1>5. ASSUME NEW m \in Nat, m \in T
        PROVE  m + 1 \in T
    <2>1. SUFFICES ASSUME m + 1 <= n PROVE Grown(S, order, ids, m + 1, h[m + 1])
      BY <1>3
    <2>2. m <= n /\ m \in 0..n - 1
      BY <2>1
    <2>3. Grown(S, order, ids, m, h[m])
      BY <1>3, <1>5, <2>2
    <2>4. h[m + 1] = Turn(h[m], ids[m + 1])
      BY <1>2, <2>2 DEF Turns
    <2> QED
      BY <1>1, <2>1, <2>3, <2>4, TurnGrows
  <1>6. \A m \in Nat : m \in T
    BY <1>4, <1>5, SetInduction
  <1>7. n \in T /\ n <= n
    BY <1>6
  <1>8. Grown(S, order, ids, n, h[n])
    BY <1>3, <1>7
  <1> QED
    BY <1>1, <1>2, <1>8 DEF Turns

-----------------------------------------------------------------------------
(* The frame of a command. *)

FiniteSessions == IsFiniteSet(Session)

Entry == [id : Session, status : {"both", "live-only", "index-only"}]

CommandFrame ==
    [kind : {None, "search", "status", "compare"},
     pc : {"idle", "stat", "open", "query", "restat"},
     outcome : {"none", "no index", "ok", "error"},
     wanted : SUBSET Session, limit : Nat \ {0}, made : BOOLEAN,
     found : Seq(Session), entries : Seq(Entry), current : BOOLEAN]

\* The frame, what the database is, and whether it was removed.
Sound(c, d, r) ==
    /\ c \in CommandFrame /\ Len(c.found) <= c.limit
    /\ c.pc # "idle" => c.outcome = "none"
    /\ d \in {None, "missing", "present"} /\ (d = None <=> c.pc = "idle")
    /\ r \in BOOLEAN /\ (c.made => r)
    /\ c.pc \in {"stat", "open"} => ~c.made
    /\ c.pc = "open" /\ d = "missing" => r

\* Compare has its live half before it, and its entries from both.
Comparing(c) ==
    c.kind = "compare" =>
        /\ c.pc # "idle" \/ c.outcome = "ok" => search.pc = "idle"
        /\ c.outcome = "ok" => c.entries = Entries(c.found)

CInv == TInv /\ Sound(command, database, removed) /\ Comparing(command)

LEMMA NoCommandFrame ==
  ASSUME NEW c, c = NoCommand("none")
  PROVE  /\ c \in CommandFrame /\ Len(c.found) = 0 /\ c.kind = None /\ c.pc = "idle"
         /\ c.outcome = "none" /\ ~c.made
  <1>1. <<>> \in Seq(Session) /\ <<>> \in Seq(Entry) /\ Len(<<>>) = 0
    BY EmptySeq
  <1> QED
    BY <1>1 DEF NoCommand, CommandFrame

Begun(c, kind, n, wanted) ==
    c = [NoCommand("none") EXCEPT !.kind = kind, !.pc = "stat", !.limit = n, !.wanted = wanted]

LEMMA BeginSound ==
  ASSUME NEW c, NEW kind \in {"search", "status", "compare"}, NEW n \in Nat \ {0},
         NEW wanted \in SUBSET Session, Begun(c, kind, n, wanted),
         NEW d \in {"missing", "present"}, NEW r \in BOOLEAN
  PROVE  Sound(c, d, r) /\ c.outcome = "none" /\ c.kind = kind
  <1>1. PICK b : b = NoCommand("none")
    OBVIOUS
  <1>2. /\ b \in CommandFrame /\ Len(b.found) = 0 /\ b.outcome = "none" /\ ~b.made
    BY <1>1, NoCommandFrame
  <1>3. c = [b EXCEPT !.kind = kind, !.pc = "stat", !.limit = n, !.wanted = wanted]
    BY <1>1 DEF Begun
  <1>4. /\ c \in CommandFrame /\ c.found = b.found /\ c.outcome = "none" /\ c.pc = "stat"
        /\ c.kind = kind /\ c.limit = n /\ ~c.made
    BY <1>2, <1>3 DEF CommandFrame
  <1> QED
    BY <1>2, <1>4, UnsetAssumption DEF Sound

LEMMA EndsSound ==
  ASSUME NEW c \in CommandFrame, Len(c.found) <= c.limit, removed \in BOOLEAN,
         c.made => removed, NEW outcome \in {"no index", "ok", "error"}, Ends(c, outcome)
  PROVE  \E w, d, r : /\ w = command' /\ d = database' /\ r = removed' /\ Sound(w, d, r)
                      /\ w.kind = c.kind /\ w.pc = "idle" /\ w.outcome = outcome
                      /\ w.found = c.found /\ w.entries = c.entries
  <1>1. PICK w : w = [c EXCEPT !.pc = "idle", !.outcome = outcome]
    OBVIOUS
  <1>2. PICK d, r : d = None /\ r = removed
    OBVIOUS
  <1>3. /\ w \in CommandFrame /\ w.found = c.found /\ w.entries = c.entries
        /\ w.limit = c.limit /\ w.kind = c.kind /\ w.pc = "idle" /\ w.outcome = outcome
        /\ w.made = c.made
    BY <1>1 DEF CommandFrame
  <1>4. Sound(w, d, r)
    BY <1>2, <1>3 DEF Sound
  <1>5. command' = w /\ database' = d /\ removed' = r
    BY <1>1, <1>2 DEF Ends
  <1> QED
    BY <1>3, <1>4, <1>5

LEMMA AnswerTyped ==
  ASSUME FiniteSessions, NEW i, NEW c \in CommandFrame, NEW answer \in Answers(i, c)
  PROVE  answer \in Seq(Session) /\ Len(answer) <= c.limit
  <1>1. PICK hits : hits = IndexHits(i) \cap c.wanted
    OBVIOUS
  <1>2. hits \subseteq Session /\ c.limit \in Nat
    BY <1>1 DEF CommandFrame
  <1>3. Cardinality(hits) \in Nat
    BY <1>2, FS_Subset, FS_CardinalityType DEF FiniteSessions
  <1>4. PICK n : n = IF Cardinality(hits) < c.limit THEN Cardinality(hits) ELSE c.limit
    OBVIOUS
  <1>5. n \in Nat /\ n <= c.limit
    BY <1>2, <1>3, <1>4
  <1>6. answer \in [1..n -> hits]
    BY <1>1, <1>4 DEF Answers, Best
  <1>7. answer \in [1..n -> Session]
    BY <1>2, <1>6
  <1>8. answer \in Seq(Session) /\ Len(answer) = n
    BY <1>5, <1>7
  <1> QED
    BY <1>5, <1>8

-----------------------------------------------------------------------------
(* What a comparison lists. *)

Elements(s) == {s[k] : k \in DOMAIN s}

LEMMA LabelledFrame ==
  ASSUME NEW order \in Seq(Session), NEW live \in Seq(Session), NEW indexed \in Seq(Session),
         NEW e, e = Labelled(order, live, indexed)
  PROVE  /\ e \in Seq(Entry) /\ DOMAIN e = DOMAIN order
         /\ \A k \in DOMAIN order :
              /\ e[k].id = order[k] /\ e[k].id \in Session
              /\ e[k].status = "index-only" <=> order[k] \notin Elements(live)
              /\ e[k].status = "both" <=> order[k] \in Elements(live) \cap Elements(indexed)
              /\ e[k].status = "live-only" <=> order[k] \in Elements(live) \ Elements(indexed)
  <1>1. PICK n \in Nat : n = Len(order) /\ DOMAIN order = 1..n
    OBVIOUS
  <1>2. \A k \in 1..n : order[k] \in Session
    BY <1>1
  <1>3. \A id \in Session : Seqs!Contains(live, id) <=> id \in Elements(live)
    BY DEF Seqs!Contains, Elements
  <1>4. \A id \in Session : Seqs!Contains(indexed, id) <=> id \in Elements(indexed)
    BY DEF Seqs!Contains, Elements
  <1>5. \A id \in Session :
          /\ Status(id, live, indexed) \in {"both", "live-only", "index-only"}
          /\ Status(id, live, indexed) = "index-only" <=> id \notin Elements(live)
          /\ Status(id, live, indexed) = "both" <=> id \in Elements(live) \cap Elements(indexed)
          /\ Status(id, live, indexed) = "live-only" <=> id \in Elements(live) \ Elements(indexed)
    BY <1>3, <1>4 DEF Status
  <1>6. e = [k \in 1..n |-> [id |-> order[k], status |-> Status(order[k], live, indexed)]]
    BY <1>1 DEF Labelled
  <1>7. \A k \in 1..n : /\ e[k] \in Entry /\ e[k].id = order[k]
                        /\ e[k].status = Status(order[k], live, indexed)
    BY <1>2, <1>5, <1>6 DEF Entry
  <1>8. e \in [1..n -> Entry]
    BY <1>6, <1>7
  <1>9. e \in Seq(Entry) /\ DOMAIN e = 1..n
    BY <1>1, <1>8
  <1> QED
    BY <1>1, <1>2, <1>5, <1>7, <1>9

\* The ids, each once, in the order in which they come first.
LEMMA UniqueIds ==
  ASSUME NEW S, NEW ids \in Seq(S), NEW r, r = AddNew(<<>>, ids)
  PROVE  /\ r \in Seq(S) /\ Distinct(r) /\ Elements(r) = Elements(ids)
         /\ \A k \in DOMAIN r : \E a \in DOMAIN ids : First(ids, r[k], a)
         /\ \A j, k \in DOMAIN r : j < k =>
              \A a, b \in DOMAIN ids : First(ids, r[j], a) /\ First(ids, r[k], b) => a < b
  <1>1. PICK none \in Seq(S) : none = <<>>
    BY EmptySeq
  <1>2. Len(none) = 0 /\ Distinct(none)
    BY <1>1 DEF Distinct
  <1>3. Grown(S, none, ids, Len(ids), r)
    BY <1>1, <1>2, AddNewGrows
  <1>4. /\ r \in Seq(S) /\ DOMAIN r = 1..Len(r) /\ DOMAIN ids = 1..Len(ids)
        /\ Len(none) + 1..Len(r) = 1..Len(r)
    BY <1>2, <1>3 DEF Grown
  <1>5. \A k \in DOMAIN r : \E a \in DOMAIN ids : First(ids, r[k], a)
    BY <1>3, <1>4 DEF Grown
  <1>6. Elements(r) \subseteq Elements(ids)
    BY <1>5 DEF Elements, First
  <1>7. Elements(ids) \subseteq Elements(r)
    BY <1>3, <1>4 DEF Grown, Elements
  <1>8. Distinct(r)
    BY <1>3 DEF Grown
  <1>9. \A j, k \in DOMAIN r : j < k =>
          \A a, b \in DOMAIN ids : First(ids, r[j], a) /\ First(ids, r[k], b) => a < b
    BY <1>3, <1>4 DEF Grown
  <1> QED
    BY <1>4, <1>5, <1>6, <1>7, <1>8, <1>9

\* AddNew keeps what is there, and adds the rest after it.
LEMMA OneAfterTheOther ==
  ASSUME NEW S, NEW live \in Seq(S), Distinct(live), NEW indexed \in Seq(S),
         NEW r, r = AddNew(live, indexed)
  PROVE  /\ r \in Seq(S) /\ Distinct(r) /\ Elements(r) = Elements(live) \cup Elements(indexed)
         /\ \A k \in DOMAIN r : r[k] \in Elements(live) =>
              /\ k \in DOMAIN live /\ r[k] = live[k]
              /\ \A j \in DOMAIN r : j < k => j \in DOMAIN live /\ r[j] = live[j]
  <1>1. Grown(S, live, indexed, Len(indexed), r)
    BY AddNewGrows
  <1>2. /\ r \in Seq(S) /\ DOMAIN r = 1..Len(r) /\ DOMAIN indexed = 1..Len(indexed)
        /\ DOMAIN live = 1..Len(live) /\ Len(live) \in Nat /\ Len(r) \in Nat
        /\ Len(live) <= Len(r) /\ \A k \in DOMAIN live : k \in DOMAIN r /\ r[k] = live[k]
    BY <1>1 DEF Grown
  <1>3. Distinct(r)
    BY <1>1 DEF Grown
  <1>4. Elements(live) \subseteq Elements(r)
    BY <1>2 DEF Elements
  <1>5. Elements(indexed) \subseteq Elements(r)
    BY <1>1, <1>2 DEF Grown, Elements
  <1>6. \A k \in DOMAIN r : k \in DOMAIN live \/ k \in Len(live) + 1..Len(r)
    BY <1>2
  <1>7. \A k \in Len(live) + 1..Len(r) : r[k] \in Elements(indexed)
    BY <1>1 DEF Grown, First, Elements
  <1>8. Elements(r) \subseteq Elements(live) \cup Elements(indexed)
    BY <1>2, <1>6, <1>7 DEF Elements
  <1>9. ASSUME NEW k \in DOMAIN r, r[k] \in Elements(live)
        PROVE  k \in DOMAIN live
    <2>1. PICK j \in DOMAIN live : live[j] = r[k]
      BY <1>9 DEF Elements
    <2>2. j = k
      BY <1>2, <1>3, <2>1 DEF Distinct
    <2> QED
      BY <2>1, <2>2
  <1>10. \A k \in DOMAIN live : \A j \in DOMAIN r : j < k => j \in DOMAIN live
    BY <1>2
  <1> QED
    BY <1>2, <1>3, <1>4, <1>5, <1>8, <1>9, <1>10

\* What it adds stays in order.
LEMMA AddedInOrder ==
  ASSUME NEW S, NEW live \in Seq(S), Distinct(live), NEW indexed \in Seq(S),
         NEW r, r = AddNew(live, indexed),
         NEW j \in DOMAIN r, NEW k \in DOMAIN r, j < k, r[j] \notin Elements(live)
  PROVE  \E p, q \in DOMAIN indexed : p < q /\ indexed[p] = r[j] /\ indexed[q] = r[k]
  <1>1. Grown(S, live, indexed, Len(indexed), r)
    BY AddNewGrows
  <1>2. /\ r \in Seq(S) /\ DOMAIN r = 1..Len(r) /\ DOMAIN indexed = 1..Len(indexed)
        /\ DOMAIN live = 1..Len(live) /\ Len(live) \in Nat /\ Len(r) \in Nat
        /\ \A i \in DOMAIN live : r[i] = live[i]
    BY <1>1 DEF Grown
  <1>3. j \notin DOMAIN live
    BY <1>2 DEF Elements
  <1>4. j \in Len(live) + 1..Len(r) /\ k \in Len(live) + 1..Len(r)
    BY <1>2, <1>3
  <1>5. PICK p \in 1..Len(indexed) : First(indexed, r[j], p)
    BY <1>1, <1>4 DEF Grown
  <1>6. PICK q \in 1..Len(indexed) : First(indexed, r[k], q)
    BY <1>1, <1>4 DEF Grown
  <1>7. p < q
    BY <1>1, <1>2, <1>4, <1>5, <1>6 DEF Grown
  <1> QED
    BY <1>2, <1>5, <1>6, <1>7 DEF First

LEMMA LiveIDsAre ==
  ASSUME TInv, NEW ids, ids = LiveIDs
  PROVE  /\ ids \in Seq(Session) /\ DOMAIN ids = DOMAIN search.matches
         /\ \A k \in DOMAIN ids : ids[k] = search.matches[k].id
         /\ Elements(ids) = Reported
  <1>1. PICK m \in Seq(Match) : m = search.matches
    BY DEF TInv, Sane, Frame
  <1>2. PICK n \in Nat : n = Len(m) /\ DOMAIN m = 1..n
    BY <1>1
  <1>3. \A k \in 1..n : m[k].id \in Session
    <2>1. \A k \in 1..n : m[k] \in Match
      BY <1>1, <1>2
    <2> QED
      BY <2>1 DEF Match
  <1>4. ids = [k \in 1..n |-> m[k].id]
    BY <1>1, <1>2 DEF LiveIDs
  <1>5. ids \in [1..n -> Session]
    BY <1>3, <1>4
  <1>6. ids \in Seq(Session) /\ DOMAIN ids = 1..n
    BY <1>2, <1>5
  <1>7. Elements(ids) = Reported
    <2>1. Reported = {m[k].id : k \in 1..n}
      BY <1>1, <1>2 DEF Reported
    <2>2. Elements(ids) = {ids[k] : k \in 1..n}
      BY <1>6 DEF Elements
    <2>3. \A k \in 1..n : ids[k] = m[k].id
      BY <1>4
    <2> QED
      BY <2>1, <2>2, <2>3
  <1> QED
    BY <1>1, <1>2, <1>4, <1>6, <1>7

LEMMA EntriesFrame ==
  ASSUME TInv, NEW found \in Seq(Session), NEW e, e = Entries(found)
  PROVE  \E live, indexed, order \in Seq(Session) :
           /\ live = AddNew(<<>>, LiveIDs) /\ Elements(live) = Reported
           /\ indexed = AddNew(<<>>, found) /\ Elements(indexed) = Elements(found)
           /\ Distinct(live) /\ order = AddNew(live, indexed)
           /\ e = Labelled(order, live, indexed)
  <1>1. PICK ids \in Seq(Session) : ids = LiveIDs /\ Elements(ids) = Reported
    BY LiveIDsAre
  <1>2. PICK live : live = AddNew(<<>>, ids)
    OBVIOUS
  <1>3. live \in Seq(Session) /\ Distinct(live) /\ Elements(live) = Reported
    BY <1>1, <1>2, UniqueIds
  <1>4. PICK indexed : indexed = AddNew(<<>>, found)
    OBVIOUS
  <1>5. indexed \in Seq(Session) /\ Elements(indexed) = Elements(found)
    BY <1>4, UniqueIds
  <1>6. PICK order : order = AddNew(live, indexed)
    OBVIOUS
  <1>7. order \in Seq(Session)
    BY <1>3, <1>5, <1>6, OneAfterTheOther
  <1>8. e = Labelled(order, live, indexed)
    BY <1>1, <1>2, <1>4, <1>6 DEF Entries, Classify
  <1> QED
    BY <1>1, <1>2, <1>3, <1>4, <1>5, <1>6, <1>7, <1>8

LEMMA EntriesTyped ==
  ASSUME TInv, NEW found \in Seq(Session)
  PROVE  Entries(found) \in Seq(Entry)
  <1>1. PICK e : e = Entries(found)
    OBVIOUS
  <1>2. PICK live, indexed, order \in Seq(Session) : e = Labelled(order, live, indexed)
    BY <1>1, EntriesFrame
  <1> QED
    BY <1>1, <1>2, LabelledFrame

LEMMA RankIsFirst ==
  ASSUME TInv, NEW ids, ids = LiveIDs, NEW id, NEW a \in DOMAIN ids, First(ids, id, a)
  PROVE  LiveRank(id) = a
  <1>1. /\ ids \in Seq(Session) /\ DOMAIN ids = DOMAIN search.matches
        /\ \A k \in DOMAIN ids : ids[k] = search.matches[k].id
    BY LiveIDsAre
  <1>2. DOMAIN ids = 1..Len(ids)
    BY <1>1
  <1>3. \A k \in DOMAIN ids : \A j \in 1..k - 1 : j \in DOMAIN ids
    BY <1>2
  <1>4. \A k \in DOMAIN search.matches :
          /\ search.matches[k].id = id
          /\ \A j \in 1..k - 1 : search.matches[j].id # id
          <=> First(ids, id, k)
    BY <1>1, <1>3 DEF First
  <1>5. First(ids, id, LiveRank(id))
    BY <1>1, <1>4 DEF LiveRank
  <1> QED
    BY <1>1, <1>5, FirstIsOne

LEMMA IndexRankIsFirst ==
  ASSUME NEW found \in Seq(Session), found = command.found,
         NEW id, NEW a \in DOMAIN found, First(found, id, a)
  PROVE  IndexRank(id) = a
  <1>1. \A k \in DOMAIN found : \A j \in 1..k - 1 : j \in DOMAIN found
    OBVIOUS
  <1>2. \A k \in DOMAIN found :
          found[k] = id /\ (\A j \in 1..k - 1 : found[j] # id) <=> First(found, id, k)
    BY <1>1 DEF First
  <1>3. First(found, id, IndexRank(id))
    BY <1>2 DEF IndexRank
  <1> QED
    BY <1>3, FirstIsOne

LEMMA EntriesAccount ==
  ASSUME CInv
  PROVE  ComparisonAccounts
  <1>1. SUFFICES ASSUME Compared PROVE ComparisonAccounts
    BY DEF ComparisonAccounts
  <1>2. PICK e : e = command.entries
    OBVIOUS
  <1>3. PICK found \in Seq(Session) : found = command.found /\ e = Entries(found)
    BY <1>1, <1>2 DEF CInv, Sound, Comparing, CommandFrame, Compared
  <1>4. PICK live, indexed, order \in Seq(Session) :
          /\ live = AddNew(<<>>, LiveIDs) /\ Elements(live) = Reported
          /\ indexed = AddNew(<<>>, found) /\ Elements(indexed) = Elements(found)
          /\ Distinct(live) /\ order = AddNew(live, indexed)
          /\ e = Labelled(order, live, indexed)
    BY <1>3, EntriesFrame DEF CInv
  <1>5. /\ DOMAIN e = DOMAIN order
        /\ \A k \in DOMAIN order :
             /\ e[k].id = order[k]
             /\ e[k].status = "index-only" <=> order[k] \notin Reported
             /\ e[k].status = "both" <=> order[k] \in Reported \cap Elements(found)
             /\ e[k].status = "live-only" <=> order[k] \in Reported \ Elements(found)
    BY <1>4, LabelledFrame
  <1>6. Distinct(order) /\ Elements(order) = Reported \cup Elements(found)
    BY <1>4, OneAfterTheOther
  <1>7. \A k \in DOMAIN order : order[k] \in Reported =>
          /\ k \in DOMAIN live /\ order[k] = live[k]
          /\ \A j \in DOMAIN order : j < k => j \in DOMAIN live /\ order[j] = live[j]
    BY <1>4, OneAfterTheOther
  <1>8. \A id : id \in Elements(order) <=> \E k \in DOMAIN order : order[k] = id
    BY DEF Elements
  <1>9. \A j, k \in DOMAIN e : e[j].id = e[k].id => j = k
    BY <1>5, <1>6 DEF Distinct
  <1>10. \A k \in DOMAIN e :
           /\ e[k].status \in {"both", "live-only"} <=> e[k].id \in Reported
           /\ e[k].status \in {"both", "index-only"} <=> e[k].id \in Elements(found)
    <2>1. \A k \in DOMAIN e : order[k] \in Reported \cup Elements(found)
      BY <1>5, <1>6, <1>8
    <2> QED
      BY <1>5, <2>1
  <1>11. \A id \in Reported \cup Elements(found) : \E k \in DOMAIN e : e[k].id = id
    BY <1>5, <1>6, <1>8
  <1>12. Having({"both", "live-only"}) = Reported
    <2>1. \A id : id \in Reported <=> \E k \in DOMAIN e :
                    e[k].id = id /\ e[k].status \in {"both", "live-only"}
      BY <1>10, <1>11
    <2>2. \A id : id \in Having({"both", "live-only"}) <=> \E k \in DOMAIN e :
                    e[k].id = id /\ e[k].status \in {"both", "live-only"}
      BY <1>2 DEF Having
    <2> QED
      BY <2>1, <2>2
  <1>13. Having({"both", "index-only"}) = Elements(found)
    <2>1. \A id : id \in Elements(found) <=> \E k \in DOMAIN e :
                    e[k].id = id /\ e[k].status \in {"both", "index-only"}
      BY <1>10, <1>11
    <2>2. \A id : id \in Having({"both", "index-only"}) <=> \E k \in DOMAIN e :
                    e[k].id = id /\ e[k].status \in {"both", "index-only"}
      BY <1>2 DEF Having
    <2> QED
      BY <2>1, <2>2
  <1>14. \A k \in DOMAIN live : live[k] \in Reported
    BY <1>4 DEF Elements
  <1>15. ASSUME NEW j \in DOMAIN e, NEW k \in DOMAIN e, j < k, e[k].id \in Reported
         PROVE  e[j].id \in Reported
    BY <1>5, <1>7, <1>14, <1>15
  <1>16. ASSUME NEW j \in DOMAIN e, NEW k \in DOMAIN e, j < k,
                {e[j].id, e[k].id} \subseteq Reported
         PROVE  LiveRank(e[j].id) < LiveRank(e[k].id)
    <2>1. PICK ids \in Seq(Session) : ids = LiveIDs
      BY LiveIDsAre DEF CInv
    <2>2. /\ j \in DOMAIN live /\ k \in DOMAIN live
          /\ e[j].id = live[j] /\ e[k].id = live[k]
      BY <1>5, <1>7, <1>16
    <2>3. live = AddNew(<<>>, ids)
      BY <1>4, <2>1
    <2>4. PICK a \in DOMAIN ids : First(ids, live[j], a)
      BY <2>2, <2>3, UniqueIds
    <2>5. PICK b \in DOMAIN ids : First(ids, live[k], b)
      BY <2>2, <2>3, UniqueIds
    <2>6. a < b
      BY <1>16, <2>2, <2>3, <2>4, <2>5, UniqueIds
    <2>7. LiveRank(e[j].id) = a
      BY <1>16, <2>1, <2>2, <2>4, RankIsFirst DEF CInv
    <2>8. LiveRank(e[k].id) = b
      BY <1>16, <2>1, <2>2, <2>5, RankIsFirst DEF CInv
    <2> QED
      BY <2>6, <2>7, <2>8
  <1>17. ASSUME NEW j \in DOMAIN e, NEW k \in DOMAIN e, j < k, e[j].id \notin Reported
         PROVE  IndexRank(e[j].id) < IndexRank(e[k].id)
    <2>1. /\ j \in DOMAIN order /\ k \in DOMAIN order
          /\ e[j].id = order[j] /\ e[k].id = order[k] /\ order[j] \notin Elements(live)
      BY <1>4, <1>5, <1>17
    <2>2. PICK p, q \in DOMAIN indexed :
            p < q /\ indexed[p] = order[j] /\ indexed[q] = order[k]
      BY <1>4, <1>17, <2>1, AddedInOrder
    <2>3. PICK a \in DOMAIN found : First(found, indexed[p], a)
      BY <1>4, UniqueIds
    <2>4. PICK b \in DOMAIN found : First(found, indexed[q], b)
      BY <1>4, UniqueIds
    <2>5. a < b
      BY <1>4, <2>2, <2>3, <2>4, UniqueIds
    <2>6. IndexRank(e[j].id) = a
      BY <1>3, <2>1, <2>2, <2>3, IndexRankIsFirst
    <2>7. IndexRank(e[k].id) = b
      BY <1>3, <2>1, <2>2, <2>4, IndexRankIsFirst
    <2> QED
      BY <2>5, <2>6, <2>7
  <1> QED
    BY <1>2, <1>3, <1>9, <1>12, <1>13, <1>15, <1>16, <1>17 DEF ComparisonAccounts, Elements

-----------------------------------------------------------------------------
(* The steps. *)

LEMMA WorkIsOfASearch ==
  ASSUME Work \/ Cancel
  PROVE  search.pc # "idle"
  BY DEF Work, Cancel, Interrupted, Ripgrep, RipgrepFails, Walk, WalkRoot, Parse, Rank,
         ScanRanked, ScanBroken, Identify, Finish

\* What a step of the commands is to a command that reads the index.
LEMMA ByTheIndexed ==
  ASSUME [CommandsNext]_commandsVars
  PROVE  \/ BeginIndexed \/ Exit
         \/ (BeginCompare \/ IndexedWork \/ DatabaseDisturbed) /\ search' = search
         \/ /\ UNCHANGED indexedVars
            /\ \/ search' = search \/ search.pc # "idle"
               \/ command.pc = "idle" /\ command.outcome = "none"
  <1>1. CASE UNCHANGED commandsVars
    BY <1>1 DEF commandsVars, searchVars
  <1>2. CASE RunLookup
    BY <1>2 DEF RunLookup, searchVars
  <1>3. CASE RunSearch
    BY <1>3 DEF RunSearch, NoProcess, NothingRuns
  <1>4. CASE ContinueCompare
    BY <1>4 DEF ContinueCompare
  <1>5. CASE RunIndexed
    BY <1>5 DEF RunIndexed
  <1>6. CASE CommandRuns
    BY <1>6, WorkIsOfASearch DEF CommandRuns, searchVars
  <1>7. CASE FilesChange
    BY <1>7 DEF FilesChange, Codex
  <1> QED
    BY <1>1, <1>2, <1>3, <1>4, <1>5, <1>6, <1>7 DEF CommandsNext

LEMMA SameSearchSameEntries ==
  ASSUME search' = search
  PROVE  /\ \A found : Entries(found)' = Entries(found)
         /\ \A c : Comparing(c)' <=> Comparing(c)
  BY DEF Comparing, Entries, LiveIDs

\* What a step leaves, its parts in variables of their own.
LEMMA CommandKeeps ==
  ASSUME TInv', search' = search,
         \E c, d, r : /\ c = command' /\ d = database' /\ r = removed'
                      /\ Sound(c, d, r) /\ Comparing(c)
  PROVE  CInv'
  <1>1. PICK c, d, r : /\ c = command' /\ d = database' /\ r = removed'
                       /\ Sound(c, d, r) /\ Comparing(c)
    OBVIOUS
  <1>2. Comparing(c)'
    BY <1>1, SameSearchSameEntries
  <1> QED
    BY <1>1, <1>2 DEF CInv

LEMMA BeginsHold ==
  ASSUME CInv, TInv', BeginIndexed \/ (BeginCompare /\ search' = search)
  PROVE  CInv'
  <1>1. PICK c, d, r : c = command' /\ d = database' /\ r = removed'
    OBVIOUS
  <1>2. CASE BeginIndexed
    <2>1. PICK kind \in {"search", "status"}, options \in Searches :
            Begun(c, kind, options.limit, options.wanted)
      BY <1>1, <1>2 DEF BeginIndexed, Begun
    <2>2. d \in {"missing", "present"} /\ r \in BOOLEAN
      BY <1>1, <1>2 DEF BeginIndexed
    <2>3. options.limit \in Nat \ {0} /\ options.wanted \in SUBSET Session
      BY <2>1, SearchAssumption
    <2>4. Sound(c, d, r) /\ c.kind = kind
      BY <2>1, <2>2, <2>3, BeginSound
    <2>5. c.kind # "compare"
      BY <2>4
    <2> QED
      BY <1>1, <2>4, <2>5 DEF CInv, Comparing
  <1>3. CASE BeginCompare /\ search' = search
    <2>1. Begun(c, "compare", search.limit, search.wanted)
      BY <1>1, <1>3 DEF BeginCompare, Begun
    <2>2. d \in {"missing", "present"} /\ r \in BOOLEAN /\ search.pc = "idle"
      BY <1>1, <1>3 DEF BeginCompare
    <2>3. search.limit \in Nat \ {0} /\ search.wanted \in SUBSET Session
      <3>1. /\ search.limit \in {o.limit : o \in Searches} \cup {1}
            /\ search.wanted \in SUBSET Session
        BY DEF CInv, TInv, Sane, Frame
      <3> QED
        BY <3>1, Limits
    <2>4. PICK kind \in {"search", "status", "compare"} : kind = "compare"
      OBVIOUS
    <2>5. Sound(c, d, r) /\ c.outcome = "none"
      BY <2>1, <2>2, <2>3, <2>4, BeginSound
    <2>6. Comparing(c)
      BY <2>2, <2>5 DEF Comparing
    <2> QED
      BY <1>1, <1>3, <2>5, <2>6, CommandKeeps
  <1> QED
    BY <1>2, <1>3

LEMMA EndsHold ==
  ASSUME CInv, TInv', search' = search, NEW c \in CommandFrame, Len(c.found) <= c.limit,
         c.made = command.made, command.kind = c.kind, command.pc # "idle",
         NEW outcome \in {"no index", "ok", "error"}, Ends(c, outcome),
         c.kind = "compare" /\ outcome = "ok" => c.entries = Entries(c.found)
  PROVE  CInv'
  <1>1. removed \in BOOLEAN /\ (c.made => removed)
    BY DEF CInv, Sound
  <1>2. PICK w, d, r : /\ w = command' /\ d = database' /\ r = removed' /\ Sound(w, d, r)
                       /\ w.kind = c.kind /\ w.pc = "idle" /\ w.outcome = outcome
                       /\ w.found = c.found /\ w.entries = c.entries
    BY <1>1, EndsSound
  <1>3. w.kind = "compare" => search.pc = "idle"
    BY <1>2 DEF Comparing, CInv
  <1>4. Comparing(w)
    BY <1>2, <1>3 DEF Comparing
  <1> QED
    BY <1>2, <1>4, CommandKeeps

LEMMA GoesHold ==
  ASSUME CInv, TInv', search' = search, command.pc # "idle",
         NEW d \in {"missing", "present"}, d = database',
         NEW r \in BOOLEAN, r = removed',
         NEW c \in CommandFrame, c = command', c.pc # "idle", c.outcome = "none",
         c.found = command.found, c.limit = command.limit, c.kind = command.kind,
         c.made => r, c.pc \in {"stat", "open"} => ~c.made,
         c.pc = "open" /\ d = "missing" => r
  PROVE  CInv'
  <1>1. Sound(c, d, r)
    BY UnsetAssumption DEF CInv, Sound
  <1>2. Comparing(c)
    BY DEF CInv, Comparing
  <1> QED
    BY <1>1, <1>2, CommandKeeps

LEMMA StatHolds ==
  ASSUME CInv, TInv', search' = search, Stat \/ Fails
  PROVE  CInv'
  <1>1. /\ command \in CommandFrame /\ Len(command.found) <= command.limit
        /\ command.pc # "idle" /\ command.outcome = "none" /\ removed \in BOOLEAN
        /\ command.made => removed
    BY DEF CInv, Sound, Stat, Fails
  <1>2. ASSUME NEW outcome \in {"no index", "error"}, Ends(command, outcome)
        PROVE  CInv'
    BY <1>1, <1>2, EndsHold
  <1>3. CASE database = "present" /\ command.pc = "stat" /\ Goes([command EXCEPT !.pc = "open"])
    <2>1. PICK c : c = [command EXCEPT !.pc = "open"]
      OBVIOUS
    <2>2. PICK d \in {"missing", "present"}, r \in BOOLEAN : d = "present" /\ r = removed
      BY <1>1
    <2>3. command' = c /\ database' = d /\ removed' = r
      BY <1>3, <2>1, <2>2 DEF Goes
    <2>4. /\ c \in CommandFrame /\ c.pc = "open" /\ c.outcome = "none"
          /\ c.found = command.found /\ c.limit = command.limit /\ c.kind = command.kind
          /\ ~c.made
      BY <1>1, <1>3, <2>1 DEF CommandFrame, CInv, Sound
    <2> QED
      BY <1>1, <2>2, <2>3, <2>4, GoesHold
  <1> QED
    BY <1>2, <1>3 DEF Stat, Fails

LEMMA OpenHolds ==
  ASSUME CInv, TInv', search' = search, Open
  PROVE  CInv'
  <1>1. /\ command \in CommandFrame /\ command.pc = "open" /\ command.outcome = "none"
        /\ removed \in BOOLEAN /\ (database = "missing" => removed)
    BY DEF CInv, Sound, Open
  <1>2. PICK made \in BOOLEAN : made = (database = "missing")
    OBVIOUS
  <1>3. PICK c : c = [command EXCEPT !.pc = "query", !.made = made]
    OBVIOUS
  <1>4. PICK d \in {"missing", "present"}, r \in BOOLEAN : d = "present" /\ r = removed
    BY <1>1
  <1>5. command' = c /\ database' = d /\ removed' = r
    BY <1>2, <1>3, <1>4 DEF Open
  <1>6. /\ c \in CommandFrame /\ c.pc = "query" /\ c.outcome = "none"
        /\ c.found = command.found /\ c.limit = command.limit /\ c.kind = command.kind
        /\ c.made = made
    BY <1>1, <1>3 DEF CommandFrame
  <1> QED
    BY <1>1, <1>2, <1>4, <1>5, <1>6, GoesHold

LEMMA AskHolds ==
  ASSUME CInv, TInv', search' = search, FiniteSessions, AskIndex
  PROVE  CInv'
  <1>1. /\ command \in CommandFrame /\ command.pc = "query" /\ removed \in BOOLEAN
    BY DEF CInv, Sound, AskIndex
  <1>2. PICK i \in Indexes : \E found \in Answers(i, command) :
          LET read == [command EXCEPT !.found = found, !.current = MirrorsFiles(i)] IN
          \/ command.kind = "search" /\ Ends(read, "ok")
          \/ command.kind = "compare" /\ Ends([read EXCEPT !.entries = Entries(found)], "ok")
    BY DEF AskIndex
  <1>3. PICK found \in Answers(i, command) :
          LET read == [command EXCEPT !.found = found, !.current = MirrorsFiles(i)] IN
          \/ command.kind = "search" /\ Ends(read, "ok")
          \/ command.kind = "compare" /\ Ends([read EXCEPT !.entries = Entries(found)], "ok")
    BY <1>2
  <1>4. found \in Seq(Session) /\ Len(found) <= command.limit
    BY <1>1, AnswerTyped
  <1>5. PICK current \in BOOLEAN : current = MirrorsFiles(i)
    BY DEF MirrorsFiles
  <1>6. PICK read : read = [command EXCEPT !.found = found, !.current = current]
    OBVIOUS
  <1>7. /\ read \in CommandFrame /\ read.found = found /\ read.limit = command.limit
        /\ read.kind = command.kind /\ read.made = command.made
    BY <1>1, <1>4, <1>6 DEF CommandFrame
  <1>8. CASE command.kind = "search" /\ Ends(read, "ok")
    <2>1. PICK outcome \in {"no index", "ok", "error"} : outcome = "ok"
      OBVIOUS
    <2> QED
      BY <1>1, <1>4, <1>7, <1>8, <2>1, EndsHold
  <1>9. CASE command.kind = "compare" /\ Ends([read EXCEPT !.entries = Entries(found)], "ok")
    <2>1. PICK entries \in Seq(Entry) : entries = Entries(found)
      BY <1>4, EntriesTyped DEF CInv
    <2>2. PICK c : c = [read EXCEPT !.entries = entries]
      OBVIOUS
    <2>3. /\ c \in CommandFrame /\ c.found = found /\ c.limit = command.limit
          /\ c.kind = command.kind /\ c.made = command.made /\ c.entries = entries
      BY <1>7, <2>2 DEF CommandFrame
    <2>4. PICK outcome \in {"no index", "ok", "error"} : outcome = "ok"
      OBVIOUS
    <2>5. Ends(c, outcome)
      BY <1>9, <2>1, <2>2, <2>4
    <2> QED
      BY <1>1, <1>4, <2>1, <2>3, <2>5, EndsHold
  <1> QED
    BY <1>3, <1>5, <1>6, <1>8, <1>9

LEMMA CountHolds ==
  ASSUME CInv, TInv', search' = search, command.kind = "status", CountSessions
  PROVE  CInv'
  <1>1. /\ command \in CommandFrame /\ Len(command.found) <= command.limit
        /\ command.pc # "idle" /\ command.outcome = "none" /\ removed \in BOOLEAN
        /\ (command.made => removed) /\ database \in {"missing", "present"}
    BY DEF CInv, Sound, CountSessions
  <1>2. CASE command.pc = "query" /\ Goes([command EXCEPT !.pc = "restat"])
    <2>1. PICK c : c = [command EXCEPT !.pc = "restat"]
      OBVIOUS
    <2>2. PICK d \in {"missing", "present"}, r \in BOOLEAN : d = database /\ r = removed
      BY <1>1
    <2>3. command' = c /\ database' = d /\ removed' = r
      BY <1>2, <2>1, <2>2 DEF Goes
    <2>4. /\ c \in CommandFrame /\ c.pc = "restat" /\ c.outcome = "none"
          /\ c.found = command.found /\ c.limit = command.limit /\ c.kind = command.kind
          /\ c.made = command.made
      BY <1>1, <2>1 DEF CommandFrame
    <2> QED
      BY <1>1, <2>2, <2>3, <2>4, GoesHold
  <1>3. CASE Ends(command, IF database = "missing" THEN "error" ELSE "ok")
    <2>1. PICK outcome \in {"no index", "ok", "error"} :
            outcome = IF database = "missing" THEN "error" ELSE "ok"
      OBVIOUS
    <2>2. Ends(command, outcome)
      BY <1>3, <2>1
    <2> QED
      BY <1>1, <2>2, EndsHold
  <1> QED
    BY <1>2, <1>3 DEF CountSessions

LEMMA DisturbedHolds ==
  ASSUME CInv, TInv', search' = search, DatabaseDisturbed
  PROVE  CInv'
  <1>1. PICK c, d, r : c = command' /\ d = database' /\ r = removed'
    OBVIOUS
  <1>2. /\ c = command /\ c.pc # "idle" /\ d \in {"missing", "present"}
        /\ r \in BOOLEAN /\ (c.made => r) /\ (d = "missing" => r)
    <2>1. /\ c = command /\ c.pc # "idle" /\ removed \in BOOLEAN /\ (c.made => removed)
      BY <1>1 DEF DatabaseDisturbed, CInv, Sound
    <2>2. CASE d = "missing" /\ removed' = TRUE
      BY <1>1, <2>1, <2>2
    <2>3. CASE d = "present" /\ removed' = removed
      BY <1>1, <2>1, <2>3
    <2> QED
      BY <1>1, <2>2, <2>3 DEF DatabaseDisturbed
  <1>3. Sound(c, d, r)
    <2>1. /\ c \in CommandFrame /\ Len(c.found) <= c.limit /\ c.outcome = "none"
          /\ c.pc \in {"stat", "open"} => ~c.made
      BY <1>2 DEF CInv, Sound
    <2> QED
      BY <1>2, <2>1, UnsetAssumption DEF Sound
  <1>4. Comparing(c)
    BY <1>2 DEF CInv
  <1> QED
    BY <1>1, <1>3, <1>4, CommandKeeps

LEMMA NoCommandHolds ==
  ASSUME NEW c, c = NoCommand("none"), NEW d, d = None, NEW r \in BOOLEAN
  PROVE  Sound(c, d, r) /\ c.pc = "idle" /\ c.outcome = "none"
  <1>1. /\ c \in CommandFrame /\ Len(c.found) = 0 /\ c.pc = "idle" /\ c.outcome = "none"
        /\ ~c.made
    BY NoCommandFrame
  <1>2. c.limit \in Nat \ {0}
    BY <1>1 DEF CommandFrame
  <1> QED
    BY <1>1, <1>2 DEF Sound

LEMMA ExitHolds ==
  ASSUME TInv', Exit
  PROVE  CInv'
  <1>1. PICK c, d, r : c = command' /\ d = database' /\ r = removed'
    OBVIOUS
  <1>2. c = NoCommand("none") /\ d = None /\ r \in BOOLEAN
    BY <1>1 DEF Exit
  <1>3. Sound(c, d, r) /\ c.pc = "idle" /\ c.outcome = "none"
    BY <1>2, NoCommandHolds
  <1> QED
    BY <1>1, <1>3 DEF CInv, Comparing

LEMMA OthersHold ==
  ASSUME CInv, TInv', UNCHANGED indexedVars,
         \/ search' = search \/ search.pc # "idle"
         \/ command.pc = "idle" /\ command.outcome = "none"
  PROVE  CInv'
  <1>1. PICK c, d, r : c = command /\ d = database /\ r = removed
    OBVIOUS
  <1>2. c = command' /\ d = database' /\ r = removed'
    BY <1>1 DEF indexedVars
  <1>3. Sound(c, d, r) /\ Comparing(c)
    BY <1>1 DEF CInv
  <1>4. CASE search' = search
    BY <1>2, <1>3, <1>4, CommandKeeps
  <1>5. CASE search.pc # "idle" \/ (command.pc = "idle" /\ command.outcome = "none")
    <2>1. c.kind = "compare" => c.pc = "idle" /\ c.outcome # "ok"
      BY <1>1, <1>3, <1>5 DEF Comparing
    <2> QED
      BY <1>2, <1>3, <2>1 DEF CInv, Comparing
  <1> QED
    BY <1>4, <1>5

LEMMA CommandInitTyped ==
  ASSUME CommandsInit
  PROVE  CInv
  <1>1. PICK c, d, r : c = command /\ d = database /\ r = removed
    OBVIOUS
  <1>2. c = NoCommand("none") /\ d = None /\ r \in BOOLEAN
    BY <1>1 DEF CommandsInit, IndexedInit
  <1>3. Sound(c, d, r) /\ c.pc = "idle" /\ c.outcome = "none"
    BY <1>2, NoCommandHolds
  <1>4. TInv
    BY InitTyped
  <1> QED
    BY <1>1, <1>3, <1>4 DEF CInv, Comparing

LEMMA StepHolds ==
  ASSUME CInv, FiniteSessions, [CommandsNext]_commandsVars
  PROVE  CInv'
  <1>1. TInv'
    BY StepTyped DEF CInv
  <1>2. CASE BeginIndexed \/ (BeginCompare /\ search' = search)
    BY <1>1, <1>2, BeginsHold
  <1>3. CASE IndexedWork /\ search' = search
    BY <1>1, <1>3, AskHolds, CountHolds, StatHolds, OpenHolds DEF IndexedWork
  <1>4. CASE DatabaseDisturbed /\ search' = search
    BY <1>1, <1>4, DisturbedHolds
  <1>5. CASE Exit
    BY <1>1, <1>5, ExitHolds
  <1> QED
    BY <1>1, <1>2, <1>3, <1>4, <1>5, ByTheIndexed, OthersHold

LEMMA CommandsHold ==
  ASSUME FiniteSessions
  PROVE  CommandsSpec => []CInv
  <1>1. CommandsInit => CInv
    BY CommandInitTyped
  <1>2. CInv /\ [CommandsNext]_commandsVars => CInv'
    BY StepHolds
  <1> QED
    BY <1>1, <1>2, PTL DEF CommandsSpec

(***************************************************************************)
(* The frame of a command that reads the index has its type: it returns no *)
(* more sessions than --limit, and holds the database only while it runs.  *)
(***************************************************************************)
THEOREM IndexedTypeCorrect ==
  ASSUME FiniteSessions
  PROVE  CommandsSpec => []IndexedTypeOK
  <1>1. CInv => IndexedTypeOK
    BY DEF CInv, Sound, CommandFrame, Entry, IndexedTypeOK
  <1> QED
    BY <1>1, CommandsHold, PTL

(***************************************************************************)
(* A command that reads the index makes no database (README.md:182), but   *)
(* where one was removed between its os.Stat and OpenSQLite.               *)
(***************************************************************************)
THEOREM NoIndexIsMade ==
  ASSUME FiniteSessions
  PROVE  CommandsSpec => []ExistingIndexOnly
  <1>1. CInv => ExistingIndexOnly
    BY DEF CInv, Sound, ExistingIndexOnly
  <1> QED
    BY <1>1, CommandsHold, PTL

(***************************************************************************)
(* Compare accounts for what the two backends returned (compare.go:44-45): *)
(* every session of either is in one entry, with the status that says who  *)
(* returned it; those of live search come first and in its order, then     *)
(* those only the index returned, in the order it returned them.           *)
(***************************************************************************)
THEOREM ComparisonIsComplete ==
  ASSUME FiniteSessions
  PROVE  CommandsSpec => []ComparisonAccounts
  <1>1. CInv => ComparisonAccounts
    BY EntriesAccount
  <1> QED
    BY <1>1, CommandsHold, PTL

-----------------------------------------------------------------------------
(* What a comparison says while nothing changes. *)

\* What the index holds of the sessions that match, when it is up to date.
Stored(wanted) ==
    {s \in wanted : \E p \in Newest(Path, s) : \E k \in Indexed[s] : k <= fs[p].len}

FoundAll(c) ==
    /\ Elements(c.found) \subseteq Stored(c.wanted)
    /\ Len(c.found) < c.limit => Elements(c.found) = Stored(c.wanted)

\* The indexed half is about the same sessions as the live half.
Agreeing(c) ==
    c.kind = "compare" /\ (c.pc # "idle" \/ c.outcome = "ok") =>
        /\ c.wanted = search.wanted
        /\ c.outcome = "ok" /\ quiet /\ c.current => FoundAll(c)

AInv == CInv /\ Agreeing(command)

LEMMA MirrorStored ==
  ASSUME FilesTypeOK, NEW i \in Indexes, MirrorsFiles(i), NEW wanted \in SUBSET Session
  PROVE  IndexHits(i) \cap wanted = Stored(wanted)
  <1>1. ASSUME NEW s \in Session
        PROVE  s \in IndexHits(i) <=>
                 \E p \in Newest(Path, s) : \E k \in Indexed[s] : k <= fs[p].len
    <2>1. CASE Newest(Path, s) = {}
      BY <1>1, <2>1 DEF MirrorsFiles, IndexHits
    <2>2. ASSUME NEW q \in Newest(Path, s)
          PROVE  s \in IndexHits(i) <=>
                   \E p \in Newest(Path, s) : \E k \in Indexed[s] : k <= fs[p].len
      <3>1. \A p \in Newest(Path, s) : p = q
        BY OneBest
      <3>2. i[s] = fs[q].len
        BY <1>1 DEF MirrorsFiles
      <3>3. q \in Path /\ Exists(q)
        BY DEF Newest, Parses
      <3>4. fs[q].len \in 0..MaxLen
        BY <3>3 DEF FilesTypeOK, Exists, File
      <3>5. i[s] # None
        BY <3>2, <3>4, UnsetAssumption
      <3> QED
        BY <1>1, <3>1, <3>2, <3>5 DEF IndexHits
    <2> QED
      BY <2>1, <2>2
  <1>2. IndexHits(i) \subseteq Session
    BY DEF IndexHits
  <1> QED
    BY <1>1, <1>2 DEF Stored

\* Distinct answers, as many as there are hits, are all of them.
LEMMA BestIsAll ==
  ASSUME NEW hits, IsFiniteSet(hits), NEW limit \in Nat, NEW answer \in Best(hits, limit)
  PROVE  /\ Elements(answer) \subseteq hits
         /\ Len(answer) < limit => Elements(answer) = hits
  <1>1. Cardinality(hits) \in Nat
    BY FS_CardinalityType
  <1>2. PICK n \in Nat : n = IF Cardinality(hits) < limit THEN Cardinality(hits) ELSE limit
    BY <1>1
  <1>3. answer \in [1..n -> hits] /\ \A j, k \in 1..n : answer[j] = answer[k] => j = k
    BY <1>2 DEF Best
  <1>4. Elements(answer) = {answer[k] : k \in 1..n} /\ Len(answer) = n
    <2>1. DOMAIN answer = 1..n
      BY <1>3
    <2> QED
      BY <2>1, LenProperties, <1>3 DEF Elements
  <1>5. Elements(answer) \subseteq hits
    BY <1>3, <1>4
  <1>6. ASSUME Len(answer) < limit
        PROVE  Elements(answer) = hits
    <2>1. n = Cardinality(hits)
      BY <1>1, <1>2, <1>4, <1>6
    <2>2. answer \in Injection(1..n, hits)
      BY <1>3 DEF Injection, IsInjective
    <2>3. Cardinality(1..n) = n
      BY FS_Interval
    <2>4. answer \in Surjection(1..n, hits)
      BY <2>1, <2>2, <2>3, FS_Injection
    <2>5. \A h \in hits : \E k \in 1..n : answer[k] = h
      BY <2>4 DEF Surjection
    <2> QED
      BY <1>4, <1>5, <2>5
  <1> QED
    BY <1>5, <1>6

LEMMA AskFindsAll ==
  ASSUME TInv, FiniteSessions, NEW i \in Indexes, NEW c \in CommandFrame,
         NEW found \in Answers(i, c), NEW w, w.found = found, w.wanted = c.wanted,
         w.limit = c.limit, MirrorsFiles(i)
  PROVE  FoundAll(w)
  <1>1. c.wanted \in SUBSET Session /\ c.limit \in Nat
    BY DEF CommandFrame
  <1>2. PICK hits : hits = IndexHits(i) \cap c.wanted
    OBVIOUS
  <1>3. hits \in SUBSET Session /\ hits = Stored(c.wanted)
    BY <1>1, <1>2, MirrorStored DEF TInv
  <1>4. IsFiniteSet(hits)
    BY <1>3, FS_Subset DEF FiniteSessions
  <1>5. found \in Best(hits, c.limit)
    BY <1>2 DEF Answers
  <1> QED
    BY <1>1, <1>3, <1>4, <1>5, BestIsAll DEF FoundAll

LEMMA AskAgrees ==
  ASSUME AInv, FiniteSessions, AskIndex, NEW w, w = command'
  PROVE  Agreeing(w)
  <1>1. command \in CommandFrame /\ command.pc = "query" /\ TInv
    BY DEF AInv, CInv, Sound, AskIndex
  <1>2. PICK i \in Indexes : \E found \in Answers(i, command) :
          LET read == [command EXCEPT !.found = found, !.current = MirrorsFiles(i)] IN
          \/ command.kind = "search" /\ Ends(read, "ok")
          \/ command.kind = "compare" /\ Ends([read EXCEPT !.entries = Entries(found)], "ok")
    BY DEF AskIndex
  <1>3. PICK found \in Answers(i, command) :
          LET read == [command EXCEPT !.found = found, !.current = MirrorsFiles(i)] IN
          \/ command.kind = "search" /\ Ends(read, "ok")
          \/ command.kind = "compare" /\ Ends([read EXCEPT !.entries = Entries(found)], "ok")
    BY <1>2
  <1>4. PICK current \in BOOLEAN : current = MirrorsFiles(i)
    BY DEF MirrorsFiles
  <1>5. PICK read : read = [command EXCEPT !.found = found, !.current = current]
    OBVIOUS
  <1>6. CASE command.kind = "search" /\ Ends(read, "ok")
    <2>1. w = [read EXCEPT !.pc = "idle", !.outcome = "ok"]
      BY <1>6 DEF Ends
    <2>2. w.kind = "search"
      BY <1>1, <1>5, <1>6, <2>1 DEF CommandFrame
    <2> QED
      BY <2>2 DEF Agreeing
  <1>7. CASE command.kind = "compare" /\ Ends([read EXCEPT !.entries = Entries(found)], "ok")
    <2>1. PICK c : c = [read EXCEPT !.entries = Entries(found)]
      OBVIOUS
    <2>2. w = [c EXCEPT !.pc = "idle", !.outcome = "ok"]
      BY <1>7, <2>1 DEF Ends
    <2>3. /\ w.found = found /\ w.wanted = command.wanted /\ w.limit = command.limit
          /\ w.current = current
      BY <1>1, <1>5, <2>1, <2>2 DEF CommandFrame
    <2>4. command.wanted = search.wanted
      BY <1>1, <1>7 DEF AInv, Agreeing
    <2>5. w.current => FoundAll(w)
      BY <1>1, <1>4, <2>3, AskFindsAll
    <2> QED
      BY <2>3, <2>4, <2>5 DEF Agreeing
  <1> QED
    BY <1>3, <1>4, <1>5, <1>6, <1>7

\* Every other step of a command either ends it without an answer or goes on.
LEMMA OthersAgree ==
  ASSUME AInv, BeginCompare \/ IndexedWork \/ DatabaseDisturbed, ~AskIndex,
         NEW w, w = command'
  PROVE  w.kind = "compare" /\ (w.pc # "idle" \/ w.outcome = "ok") =>
           w.wanted = search.wanted /\ w.outcome # "ok"
  <1>1. /\ command \in CommandFrame /\ (command.pc # "idle" => command.outcome = "none")
        /\ command.kind = "compare" /\ (command.pc # "idle" \/ command.outcome = "ok") =>
             command.wanted = search.wanted
    BY DEF AInv, CInv, Sound, Agreeing
  <1>2. CASE BeginCompare
    <2>1. Begun(w, "compare", search.limit, search.wanted)
      BY <1>2 DEF BeginCompare, Begun
    <2>2. PICK b : b = NoCommand("none")
      OBVIOUS
    <2>3. b \in CommandFrame /\ b.outcome = "none"
      BY <2>2, NoCommandFrame
    <2>4. w = [b EXCEPT !.kind = "compare", !.pc = "stat", !.limit = search.limit,
                        !.wanted = search.wanted]
      BY <2>1, <2>2 DEF Begun
    <2> QED
      BY <2>3, <2>4 DEF CommandFrame
  <1>3. ASSUME NEW outcome, outcome # "ok", Ends(command, outcome)
        PROVE  w.pc = "idle" /\ w.outcome # "ok"
    <2>1. w = [command EXCEPT !.pc = "idle", !.outcome = outcome]
      BY <1>3 DEF Ends
    <2> QED
      BY <1>1, <1>3, <2>1 DEF CommandFrame
  <1>4. CASE Fails \/ (Stat /\ Ends(command, "no index"))
    BY <1>3, <1>4 DEF Fails
  <1>5. CASE command.pc # "idle" /\ w = [command EXCEPT !.pc = "open"]
    BY <1>1, <1>5 DEF CommandFrame
  <1>6. CASE Open
    <2>1. PICK made : made = (database = "missing")
      OBVIOUS
    <2>2. w = [command EXCEPT !.pc = "query", !.made = made] /\ command.pc = "open"
      BY <1>6, <2>1 DEF Open
    <2> QED
      BY <1>1, <2>2 DEF CommandFrame
  <1>7. CASE command.kind = "status" /\ CountSessions
    <2>1. CASE w = [command EXCEPT !.pc = "restat"]
      BY <1>1, <1>7, <2>1 DEF CommandFrame
    <2>2. ASSUME NEW outcome, Ends(command, outcome)
          PROVE  w.kind = "status"
      <3>1. w = [command EXCEPT !.pc = "idle", !.outcome = outcome]
        BY <2>2 DEF Ends
      <3> QED
        BY <1>1, <1>7, <3>1 DEF CommandFrame
    <2> QED
      BY <1>7, <2>1, <2>2 DEF CountSessions, Goes
  <1>8. CASE command.pc # "idle" /\ w = command
    BY <1>1, <1>8
  <1> QED
    BY <1>2, <1>4, <1>5, <1>6, <1>7, <1>8 DEF IndexedWork, Stat, Goes, DatabaseDisturbed

\* What a step does to the files and to what has been quiet.
LEMMA ByTheQuiet ==
  ASSUME [CommandsNext]_commandsVars
  PROVE  \/ ~quiet' \/ UNCHANGED <<fs, quiet>>
         \/ UNCHANGED indexedVars /\ command.pc = "idle" /\ command.outcome = "none"
  <1>1. CASE UNCHANGED commandsVars
    BY <1>1 DEF commandsVars, searchVars, filesVars
  <1>2. CASE RunLookup \/ RunIndexed
    BY <1>2 DEF RunLookup, RunIndexed, searchVars, filesVars
  <1>3. CASE RunSearch
    BY <1>3 DEF RunSearch, NoProcess, NothingRuns
  <1>4. CASE ContinueCompare
    BY <1>4 DEF ContinueCompare, filesVars
  <1>5. CASE CommandRuns
    BY <1>5 DEF CommandRuns, Work, Cancel, searchVars, filesVars
  <1>6. CASE Exit \/ FilesChange
    BY <1>6 DEF Exit, FilesChange, Codex
  <1> QED
    BY <1>1, <1>2, <1>3, <1>4, <1>5, <1>6 DEF CommandsNext

LEMMA AgreeingStill ==
  ASSUME NEW c, c = command', search' = search, fs' = fs, quiet' = quiet, Agreeing(c)
  PROVE  Agreeing(command)'
  <1>1. Stored(c.wanted)' = Stored(c.wanted)
    BY DEF Stored, Newest, Parses, ParsedID, Exists
  <1>2. FoundAll(command)' <=> FoundAll(c)
    BY <1>1 DEF FoundAll
  <1> QED
    BY <1>2 DEF Agreeing

LEMMA StepAgrees ==
  ASSUME AInv, FiniteSessions, [CommandsNext]_commandsVars
  PROVE  AInv'
  <1>1. CInv'
    BY StepHolds DEF AInv
  <1>2. PICK w : w = command'
    OBVIOUS
  <1>3. CASE w.kind # "compare" \/ (w.pc = "idle" /\ w.outcome # "ok")
    BY <1>1, <1>2, <1>3 DEF AInv, Agreeing
  <1>4. CASE BeginIndexed
    <2>1. PICK kind \in {"search", "status"}, options \in Searches :
            Begun(w, kind, options.limit, options.wanted)
      BY <1>2, <1>4 DEF BeginIndexed, Begun
    <2>2. options.limit \in Nat \ {0} /\ options.wanted \in SUBSET Session
      BY SearchAssumption
    <2>3. w.kind = kind
      <3>1. "present" \in {"missing", "present"} /\ FALSE \in BOOLEAN
        OBVIOUS
      <3> QED
        BY <2>1, <2>2, <3>1, BeginSound
    <2> QED
      BY <1>3, <2>3
  <1>5. CASE Exit
    <2>1. w = NoCommand("none")
      BY <1>2, <1>5 DEF Exit
    <2> QED
      BY <1>3, <2>1, NoCommandFrame
  <1>6. CASE (BeginCompare \/ IndexedWork \/ DatabaseDisturbed) /\ search' = search
    <2>1. CASE AskIndex /\ ~quiet'
      <3>1. Agreeing(w)
        BY <1>2, <2>1, AskAgrees
      <3> QED
        BY <1>1, <1>2, <1>6, <2>1, <3>1 DEF AInv, Agreeing
    <2>2. CASE AskIndex /\ UNCHANGED <<fs, quiet>>
      <3>1. Agreeing(w)
        BY <1>2, <2>2, AskAgrees
      <3> QED
        BY <1>1, <1>2, <1>6, <2>2, <3>1, AgreeingStill DEF AInv
    <2>3. CASE ~AskIndex
      <3>1. w.kind = "compare" /\ (w.pc # "idle" \/ w.outcome = "ok") =>
              w.wanted = search.wanted /\ w.outcome # "ok"
        BY <1>2, <1>6, <2>3, OthersAgree
      <3> QED
        BY <1>1, <1>2, <1>6, <3>1 DEF AInv, Agreeing
    <2>4. CASE UNCHANGED indexedVars /\ command.pc = "idle" /\ command.outcome = "none"
      BY <1>2, <1>3, <2>4 DEF indexedVars
    <2> QED
      BY <2>1, <2>2, <2>3, <2>4, ByTheQuiet
  <1>7. CASE UNCHANGED indexedVars /\ search' = search
    <2>1. w = command /\ Agreeing(w)
      BY <1>2, <1>7 DEF AInv, indexedVars
    <2>2. CASE ~quiet'
      BY <1>1, <1>2, <1>7, <2>1, <2>2 DEF AInv, Agreeing
    <2>3. CASE UNCHANGED <<fs, quiet>>
      BY <1>1, <1>2, <1>7, <2>1, <2>3, AgreeingStill DEF AInv
    <2>4. CASE command.pc = "idle" /\ command.outcome = "none"
      BY <1>3, <2>1, <2>4
    <2> QED
      BY <2>2, <2>3, <2>4, ByTheQuiet
  <1>8. CASE /\ UNCHANGED indexedVars
             /\ search.pc # "idle" \/ (command.pc = "idle" /\ command.outcome = "none")
    <2>1. w = command /\ Comparing(w)
      BY <1>2, <1>8 DEF AInv, CInv, indexedVars
    <2>2. w.kind # "compare" \/ (w.pc = "idle" /\ w.outcome # "ok")
      BY <1>8, <2>1 DEF Comparing
    <2> QED
      BY <1>3, <2>2
  <1> QED
    BY <1>4, <1>5, <1>6, <1>7, <1>8, ByTheIndexed

LEMMA ComparisonsAgree ==
  ASSUME FiniteSessions
  PROVE  CommandsSpec => []AInv
  <1>1. CommandsInit => AInv
    <2> SUFFICES ASSUME CommandsInit
                 PROVE  AInv
      OBVIOUS
    <2>1. PICK c : c = command
      OBVIOUS
    <2>2. c = NoCommand("none")
      BY <2>1 DEF CommandsInit, IndexedInit
    <2>3. c.pc = "idle" /\ c.outcome = "none"
      BY <2>2, NoCommandFrame
    <2> QED
      BY <2>1, <2>3, CommandInitTyped DEF AInv, Agreeing
  <1>2. AInv /\ [CommandsNext]_commandsVars => AInv'
    BY StepAgrees
  <1> QED
    BY <1>1, <1>2, PTL DEF CommandsSpec

LEMMA ComparedExactly ==
  ASSUME EInv, AInv, ComparisonAccounts
  PROVE  QuietComparisonAgrees
  <1>1. SUFFICES ASSUME Compared, UndisturbedSearch, command.current,
                        search.rg => Listed = Matching,
                        Len(search.matches) < search.limit,
                        Len(command.found) < command.limit
                 PROVE  LET live == {s \in search.wanted : \E p \in Searched(s) : Hits(p)}
                            indexed == {s \in search.wanted :
                              \E p \in Newest(Path, s) : \E k \in Indexed[s] : k <= fs[p].len} IN
                        /\ Having({"both"}) = live \cap indexed
                        /\ Having({"live-only"}) = live \ indexed
                        /\ Having({"index-only"}) = indexed \ live
    BY DEF QuietComparisonAgrees
  <1>2. PICK live, indexed :
          /\ live = {s \in search.wanted : \E p \in Searched(s) : Hits(p)}
          /\ indexed = {s \in search.wanted :
               \E p \in Newest(Path, s) : \E k \in Indexed[s] : k <= fs[p].len}
    OBVIOUS
  <1>3. Reported = live
    <2>1. CleanSearchExact
      BY <1>1, ReturnedIsClean DEF FilterIsExact
    <2> QED
      BY <1>1, <1>2, <2>1 DEF CleanSearchExact
  <1>4. Elements(command.found) = indexed
    <2>1. command.wanted = search.wanted /\ FoundAll(command)
      BY <1>1 DEF AInv, Agreeing, Compared, UndisturbedSearch
    <2> QED
      BY <1>1, <1>2, <2>1 DEF FoundAll, Stored
  <1>5. PICK e : e = command.entries
    OBVIOUS
  <1>6. /\ \A j, k \in DOMAIN e : e[j].id = e[k].id => j = k
        /\ Having({"both", "live-only"}) = live
        /\ Having({"both", "index-only"}) = indexed
    BY <1>1, <1>3, <1>4, <1>5 DEF ComparisonAccounts, Elements
  <1>7. \A statuses, id : id \in Having(statuses) <=>
                            \E k \in DOMAIN e : e[k].id = id /\ e[k].status \in statuses
    BY <1>5 DEF Having
  <1>8. \A id : /\ id \in live <=> \E k \in DOMAIN e :
                     e[k].id = id /\ e[k].status \in {"both", "live-only"}
                /\ id \in indexed <=> \E k \in DOMAIN e :
                     e[k].id = id /\ e[k].status \in {"both", "index-only"}
    BY <1>6, <1>7
  <1>9. Having({"both"}) = live \cap indexed
    <2>1. ASSUME NEW id
          PROVE  id \in live \cap indexed <=>
                   \E k \in DOMAIN e : e[k].id = id /\ e[k].status \in {"both"}
      BY <1>6, <1>8
    <2> QED
      BY <1>7, <2>1
  <1>10. Having({"live-only"}) = live \ indexed
    <2>1. ASSUME NEW id
          PROVE  id \in live \ indexed <=>
                   \E k \in DOMAIN e : e[k].id = id /\ e[k].status \in {"live-only"}
      BY <1>6, <1>8
    <2> QED
      BY <1>7, <2>1
  <1>11. Having({"index-only"}) = indexed \ live
    <2>1. ASSUME NEW id
          PROVE  id \in indexed \ live <=>
                   \E k \in DOMAIN e : e[k].id = id /\ e[k].status \in {"index-only"}
      BY <1>6, <1>8
    <2> QED
      BY <1>7, <2>1
  <1> QED
    BY <1>2, <1>9, <1>10, <1>11

(***************************************************************************)
(* When nothing has changed, the index is up to date and neither backend   *)
(* was cut off, a comparison (compare.go:44-45) is exact: both for what    *)
(* matches to a reader and as it is stored, live-only and index-only for   *)
(* what matches in one way only.  Of the built-in scanner that is so for   *)
(* every query, of ripgrep for those whose matches it lists.               *)
(***************************************************************************)
THEOREM QuietComparisonIsExact ==
  ASSUME FiniteSessions
  PROVE  CommandsSpec => []QuietComparisonAgrees
  <1>1. EInv /\ AInv /\ ComparisonAccounts => QuietComparisonAgrees
    BY ComparedExactly
  <1> QED
    BY <1>1, SearchesExactly, ComparisonsAgree, ComparisonIsComplete, PTL
=============================================================================
