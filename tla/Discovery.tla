------------------------------ MODULE Discovery ------------------------------
(***************************************************************************)
(* What a walk of one root by internal/codex/discover.go may list.  The    *)
(* rollouts of a root lie in directories, by date, which WalkDir reads in  *)
(* order.  The archive is one directory.                                   *)
(***************************************************************************)
EXTENDS RolloutFiles

CONSTANT DirOf      \* [Path -> Nat]: the directory of a path, in the order of the walk

ASSUME DirectoryAssumption ==
    /\ DirOf \in [Path -> Nat]
    /\ \A p, q \in Archived : DirOf[p] = DirOf[q]

Complete(root) == {p \in root : Exists(p)}

(***************************************************************************)
(* A directory without files may be removed between the reading of its     *)
(* parent and its own.  The error is os.ErrNotExist: the walk of the root  *)
(* ends there, and DiscoverFilesContext takes what it has so far for all.  *)
(***************************************************************************)
UpTo(root, d) == {p \in root : Exists(p) /\ DirOf[p] < d}

Vanishing(root) ==
    {d \in {DirOf[p] : p \in root} : \A p \in root : DirOf[p] = d => ~Exists(p)}

\* What such a walk has not seen.
Unseen(root, d) == Complete(root) \ UpTo(root, d)

Listings(root) == {Complete(root)} \cup {UpTo(root, d) : d \in Vanishing(root)}
=============================================================================
