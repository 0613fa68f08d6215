--------------------------- MODULE MCSnapshotStore ---------------------------
(* SnapshotStore for TLC: two interchangeable catalogs, one reader. *)
EXTENDS SnapshotStore, TLC

Interchangeable == Permutations(Catalogs)
=============================================================================
