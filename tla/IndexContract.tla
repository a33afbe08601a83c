---------------------------- MODULE IndexContract ---------------------------
(***************************************************************************)
(* The derived index as its users see it: a specification over IndexStore  *)
(* in which every exported write of internal/index is one atomic step.     *)
(* SqliteIndex.tla is checked to implement it.                             *)
(***************************************************************************)
EXTENDS IndexStore

CONSTANTS
    Batches,    \* the batches callers may submit
    Docs        \* the message sets callers may submit to ReplaceMessages

Init ==
    /\ sess = [s \in Session |-> NoRow]
    /\ docs = [s \in Session |-> NoDoc]

Next ==
    \/ \E batch \in Batches : ReplaceSessions(batch) \/ UpsertSessions(batch)
    \/ \E s \in Session, doc \in Docs : ReplaceMessages(s, doc)
    \/ \E s \in Session : DeleteSession(s)

Spec == Init /\ [][Next]_storeVars
=============================================================================
