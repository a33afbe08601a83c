----------------------------- MODULE IndexSearch ----------------------------
(***************************************************************************)
(* internal/index/search.go: what a search answers from the committed      *)
(* tables of SqliteIndex.  One SELECT reads one snapshot, so a search is a *)
(* function of "db" and of the order SQLite hands the rows over in.        *)
(***************************************************************************)
EXTENDS SqliteIndex

Seqs == INSTANCE SequencesExt

CONSTANTS
    Mentions,   \* the pairs <<text, query>> where the text contains the query
    ShortQuery, \* the queries below trigramMinimumRunes
    Options     \* records [query, limit, project] that searches are run with

ASSUME OptionsAssumption ==
    \A o \in Options :
        /\ {"query", "limit", "project"} \subseteq DOMAIN o
        /\ o.limit \in Nat \ {0}
\* The fields of a row and of a message that the answers are ordered by.
ASSUME OrderAssumption ==
    /\ \A row \in Row : row.time.sec \in Nat /\ row.time.frac \in Seq(0..9)
    /\ \A m \in Message : m.ord \in Nat

\* The filters on project and source compare one column with one value each;
\* one column stands for both.
Anywhere == "any"

Passes(s, o) ==
    /\ db.sess[s] # NoRow
    /\ o.project \in {Anywhere, db.sess[s].project}

Hit(m) == [sid |-> db.msgs[m].sid, ord |-> db.msgs[m].ord, text |-> db.msgs[m].text]

\* messages_fts MATCH, joined with messages on session and ordinal.
FtsRows(o) ==
    {Hit(m) : m \in
        {q \in DOMAIN db.msgs :
            /\ Passes(db.msgs[q].sid, o)
            /\ \E f \in DOMAIN db.fts :
                 /\ <<db.fts[f].text, o.query>> \in Mentions
                 /\ db.fts[f].sid = db.msgs[q].sid
                 /\ db.fts[f].ord = db.msgs[q].ord}}

\* The order is that of bm25, which may be any.
FtsAnswers(o) == Seqs!SetToSeqs(FtsRows(o))

\* The rows of messages; the text is compared row by row afterwards.
ShortRows(o) == {Hit(m) : m \in {q \in DOMAIN db.msgs : Passes(db.msgs[q].sid, o)}}

\* formatTime: RFC3339Nano drops the trailing zeros of a fraction, and the point
\* with the last of them.  A time is [sec, frac], frac a sequence of digits; a text
\* is the seconds and then the codes of the characters after them.
FormatTime(t) ==
    <<t.sec>> \o (IF t.frac = <<>> THEN <<>> ELSE <<46>> \o [k \in DOMAIN t.frac |-> 48 + t.frac[k]])
              \o <<90>>

TextAfter(one, other) ==
    \E k \in DOMAIN one \cap DOMAIN other :
        one[k] > other[k] /\ \A j \in 1..k - 1 : one[j] = other[j]

Time(hit) == FormatTime(db.sess[hit.sid].time)

\* A slip: ordered by ordinal alone.
ByOrdinal(hit, next) == hit.ord <= next.ord

\* ORDER BY s.timestamp DESC, m.ordinal ASC
NewestFirst(hit, next) ==
    \/ TextAfter(Time(hit), Time(next))
    \/ Time(hit) = Time(next) /\ hit.ord <= next.ord

ShortAnswers(o) ==
    {rows \in Seqs!SetToSeqs(ShortRows(o)) :
        \A k \in 1..(Len(rows) - 1) : NewestFirst(rows[k], rows[k + 1])}

\* strings.Contains, for the short queries only: FTS5 has matched the others.
Shows(o, hit) == o.query \in ShortQuery => <<hit.text, o.query>> \in Mentions

\* A slip: the loop stops after Limit rows, not after Limit sessions.
KeepAmongFirstRows(o, rows) ==
    Seqs!FoldLeft(LAMBDA found, hit :
                     IF Shows(o, hit) /\ \A k \in DOMAIN found : found[k].sid # hit.sid
                     THEN Append(found, hit) ELSE found,
                  <<>>, SubSeq(rows, 1, IF Len(rows) < o.limit THEN Len(rows) ELSE o.limit))

\* The loop over the rows: the first of each session, until Limit are found.
Keep(o, rows) ==
    Seqs!FoldLeft(LAMBDA found, hit :
                     IF /\ Len(found) < o.limit
                        /\ \A k \in DOMAIN found : found[k].sid # hit.sid
                        /\ Shows(o, hit)
                     THEN Append(found, hit) ELSE found,
                  <<>>, rows)

\* What a search may return.
Search(o) ==
    {Keep(o, rows) : rows \in IF o.query \in ShortQuery THEN ShortAnswers(o)
                              ELSE FtsAnswers(o)}

-----------------------------------------------------------------------------
(* What the answers are measured against: the messages of the sessions.    *)

Mentioned(s, o) == {d \in StoredDoc(s) : <<d[2], o.query>> \in Mentions}

Wanted(o) == {s \in Session : Passes(s, o) /\ Mentioned(s, o) # {}}

(***************************************************************************)
(* "Search returns at most one lexical match per session" (search.go:20),  *)
(* and with either backend as many sessions as the limit admits of those   *)
(* that have a message with the query; each match is such a message.  The  *)
(* two backends read different tables: that they agree rests on the joins  *)
(* and on everything that writes the lexical rows.                         *)
(***************************************************************************)
SearchComplete ==
    \A o \in Options : \A found \in Search(o) :
        LET sids == {found[k].sid : k \in DOMAIN found} IN
        /\ \A k \in DOMAIN found :
             /\ found[k].sid \in Wanted(o)
             /\ <<found[k].ord, found[k].text>> \in Mentioned(found[k].sid, o)
        /\ Cardinality(sids) = Len(found)
        /\ \/ sids = Wanted(o)
           \/ Cardinality(sids) = o.limit

(***************************************************************************)
(* A short query that meets its limit leaves out no session of a later     *)
(* second than one it returns, and shows the first message of each that    *)
(* has the query.  Within one second the order of the texts is not that of *)
(* the instants (half past comes before the full second), and the wrong    *)
(* session may be left out.                                                *)
(***************************************************************************)
ShortSearchNewest ==
    \A o \in {p \in Options : p.query \in ShortQuery} : \A found \in Search(o) :
        LET sids == {found[k].sid : k \in DOMAIN found} IN
        /\ \A s \in Wanted(o) \ sids, t \in sids : db.sess[s].time.sec <= db.sess[t].time.sec
        /\ \A k \in DOMAIN found : \A d \in Mentioned(found[k].sid, o) :
             found[k].ord <= d[1]
=============================================================================
