---------------------------- MODULE Conversation ----------------------------
(***************************************************************************)
(* ReadConversation of internal/codex/conversation.go: the messages of a   *)
(* rollout.  Codex writes a message as an event_msg, as a response_item or *)
(* as both, one after the other; the decoder undoes this by comparing each *)
(* record with the one before it.                                          *)
(*                                                                         *)
(* A record is [type, role, parts].  The role is "none" where the payload  *)
(* is no message (tool output, reasoning), where its role is neither user  *)
(* nor assistant, and where the line is not JSON at all.                   *)
(***************************************************************************)
EXTENDS SearchText

CONSTANTS
    Contents,   \* contents of messages, each a sequence of texts
    Blanks,     \* contents in which nothing is said
    MaxSaid     \* bound on the messages of a conversation

ASSUME ConversationAssumption ==
    /\ MaxSaid \in Nat
    /\ \A parts \in Contents :
         ConversationText(parts) \in Seq(STRING) /\ ~Blank(ConversationText(parts))
    /\ \A parts \in Blanks : Blank(ConversationText(parts))

IsConversationRecord(rec) == rec.role # "none"

NothingSeen == [messages |-> <<>>, role |-> "none", text |-> <<>>, type |-> "none"]

\* A slip: who speaks is not compared.
SameRepresentedText(seen, rec, text) ==
    /\ NormalizeWhitespace(text) = seen.text
    /\ rec.type # seen.type

DuplicateRepresentation(seen, rec, text) ==
    /\ rec.role = seen.role
    /\ NormalizeWhitespace(text) = seen.text
    /\ rec.type # seen.type

\* The visitor.  What it has seen last it also remembers of duplicates.
VisitRecord(seen, rec) ==
    LET text == TrimSpace(ConversationText(rec.parts)) IN
    IF ~IsConversationRecord(rec) \/ text = <<>> THEN seen
    ELSE [messages |-> IF DuplicateRepresentation(seen, rec, text) THEN seen.messages
                       ELSE Append(seen.messages, [role |-> rec.role, text |-> text]),
          role |-> rec.role, text |-> NormalizeWhitespace(text), type |-> rec.type]

ReadConversation(records) == Seqs!FoldLeft(VisitRecord, NothingSeen, records).messages

-----------------------------------------------------------------------------
(* What Codex writes: each message as one record or as two of different     *)
(* types, with the same text up to white space; between the two, records    *)
(* that are no messages.                                                    *)

Record == [type : {"event_msg", "response_item"}, role : {"user", "assistant"},
           parts : Contents]

Noise ==
    {[type |-> "response_item", role |-> "none", parts |-> <<>>]} \cup
    [type : {"event_msg", "response_item"}, role : {"user", "assistant"}, parts : Blanks]

Said(rec) == [role |-> rec.role, text |-> NormalizeWhitespace(ConversationText(rec.parts))]

SameMessage ==
    {pair \in Record \X Record :
        pair[1].type # pair[2].type /\ Said(pair[1]) = Said(pair[2])}

Writings ==
    {<<r>> : r \in Record} \cup SameMessage
      \cup {<<pair[1], n, pair[2]>> : pair \in SameMessage, n \in Noise}

Transcripts == UNION {[1..n -> Writings] : n \in 0..MaxSaid}

\* Every message is recorded in the same way: once, or twice in one order.
Evenly(t) ==
    \A j, k \in DOMAIN t : t[j][1].type = t[k][1].type /\ (Len(t[j]) = 1 <=> Len(t[k]) = 1)

\* What was said in a transcript, and what ReadConversation makes of it.
Readings ==
    {[evenly |-> Evenly(t),
      said |-> [k \in DOMAIN t |-> Said(t[k][1])],
      shown |-> LET read == ReadConversation(Seqs!FlattenSeq(t)) IN
                [k \in DOMAIN read |->
                   [role |-> read[k].role, text |-> NormalizeWhitespace(read[k].text)]]]
     : t \in Transcripts}
=============================================================================
