----------------------------- MODULE SearchText -----------------------------
(***************************************************************************)
(* Texts as live search sees them: the message as a reader sees it, with   *)
(* whitespace normalised, and the JSON line ripgrep reads.  A text is a    *)
(* sequence of symbols; letters have been folded to one case.  A message   *)
(* is a sequence of texts, the parts of its content.                       *)
(***************************************************************************)
EXTENDS Naturals, Sequences

Seqs == INSTANCE SequencesExt

White == {"space", "newline"}

\* What JSON must escape, and what Go's json.Marshal escapes besides (<, >, &).
Escaped == {"newline", "quote"}
EscapedForHTML == {"angle"}

\* strings.Join(parts, " ")
Joined(parts) ==
    Seqs!FlattenSeq([k \in DOMAIN parts |-> IF k = 1 THEN parts[k] ELSE <<"space">> \o parts[k]])

Blank(text) == \A k \in DOMAIN text : text[k] \in White

\* strings.TrimSpace
TrimSpace(text) ==
    LET inked == {k \in DOMAIN text : text[k] \notin White} IN
    IF inked = {} THEN <<>> ELSE SubSeq(text, Seqs!Min(inked), Seqs!Max(inked))

\* conversationText: the parts that are not blank.
ConversationText(parts) == Joined(SelectSeq(parts, LAMBDA part : ~Blank(part)))

\* One character more of the text: a word is written behind a space, if another was
\* before it.
Field(seen, c) ==
    IF c \in White THEN [seen EXCEPT !.gap = (seen.text # <<>>)]
    ELSE [text |-> Append(IF seen.gap THEN Append(seen.text, "space") ELSE seen.text, c),
          gap |-> FALSE]

\* textutil.NormalizeWhitespace: the fields, joined by single spaces.
NormalizeWhitespace(text) == Seqs!FoldLeft(Field, [text |-> <<>>, gap |-> FALSE], text).text

\* The literal, unanchored match of regexp.QuoteMeta and of ripgrep.
Occurs(term, text) ==
    \E i \in 0..Len(text) : /\ i + Len(term) <= Len(text)
                            /\ \A k \in DOMAIN term : text[i + k] = term[k]

Encode(text, escaped) ==
    Seqs!FlattenSeq([k \in DOMAIN text |->
                  IF text[k] \in escaped THEN <<"backslash", text[k]>> ELSE <<text[k]>>])

\* A rollout line holds the parts one after another, in whatever JSON is between them.
RawLine(parts) ==
    Seqs!FlattenSeq([k \in DOMAIN parts |-> Encode(parts[k], Escaped) \o <<"json">>])

\* searchFileContext
Matches(query, parts) == Occurs(query, NormalizeWhitespace(Joined(parts)))

\* The index stores the message of ReadConversation, its white space as it was, and
\* looks for the trimmed query.
IndexMatches(query, parts) == Occurs(TrimSpace(query), TrimSpace(ConversationText(parts)))

\* conversationCandidatePattern and jsonEscapedSearchTerm
LineMatches(query, parts) ==
    Occurs(Encode(query, Escaped \cup EscapedForHTML), RawLine(parts))
=============================================================================
