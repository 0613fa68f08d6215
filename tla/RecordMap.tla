----------------------------- MODULE RecordMap ------------------------------
(***************************************************************************)
(* What a container of file records promises: a map from a file's id to    *)
(* the record inserted last for it.  CatalogRecords implements it with an  *)
(* arena of records and a lookup of positions.                             *)
(***************************************************************************)
EXTENDS Naturals

CONSTANT Records            \* the records that may be inserted
VARIABLE map                \* the record held for each id that has one

Ids == {r.id : r \in Records}

Init == map = [id \in {} |-> 0]

Put(r) == map' = [id \in DOMAIN map \cup {r.id} |-> IF id = r.id THEN r ELSE map[id]]

Drop(id) == map' = [other \in DOMAIN map \ {id} |-> map[other]]

Clear == map' = [id \in {} |-> 0]

Next == (\E r \in Records : Put(r)) \/ (\E id \in Ids : Drop(id)) \/ Clear

Spec == Init /\ [][Next]_map
=============================================================================
