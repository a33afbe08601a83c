------------------------------ MODULE Sessions ------------------------------
(***************************************************************************)
(* The session ids, shared by the files that carry them and the index that *)
(* is keyed by them.                                                       *)
(***************************************************************************)
CONSTANT Session    \* session ids
=============================================================================
