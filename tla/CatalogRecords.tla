--------------------------- MODULE CatalogRecords ---------------------------
(***************************************************************************)
(* The containers a scan collects its records in.  File records lie in an  *)
(* arena; their positions are kept in a table indexed by id while the ids  *)
(* are dense and in a map once an id falls outside the table's limit.      *)
(* Removing a record moves the last record into its place.  Directory      *)
(* records are only inserted or replaced.                                  *)
(*                                                                         *)
(* A table entry holds position + 1 with 0 for "none", which is the 1-based *)
(* index of the record; FindPosition returns that index, or 0.             *)
(***************************************************************************)
EXTENDS Integers, Sequences

CONSTANTS
  FileRecs,       \* the file records that may be inserted, each with an id
  EarlyHole,      \* room of the table beyond four times the live records (16384)
  MaxEncoded      \* the largest position the table can hold (u32::MAX)

ASSUME RecordsAssumption ==
  /\ \A r \in FileRecs : r.id \in Nat
  /\ EarlyHole \in Nat
  /\ MaxEncoded \in Nat

VARIABLES
  positions,      \* the lookup: [kind, len, slots, capacity, hint] or [kind, map]
  records         \* the arena of file records

recordVars == <<positions, records>>

Larger(a, b) == IF a >= b THEN a ELSE b

EmptyMap == [id \in {} |-> 0]

NoPositions == [kind |-> "dense", len |-> 0, slots |-> EmptyMap, capacity |-> 0, hint |-> 0]

FindPosition(p, id) ==
  IF p.kind = "dense"
  THEN IF id < p.len THEN p.slots[id] ELSE 0
  ELSE IF id \in DOMAIN p.map THEN p.map[id] ELSE 0

\* Ids the table still has room for: its capacity, the hint, or a bounded
\* hole before ids that arrive out of order.
DenseLimit(p, live) == Larger(Larger(p.capacity, p.hint + 1), 4 * live + EarlyHole)

\* A vector grows to what is needed or to twice its capacity, at least to four.
Grown(capacity, needed) ==
  IF needed <= capacity THEN capacity ELSE Larger(Larger(needed, 2 * capacity), 4)

SetSlot(p, id, at) ==
  [p EXCEPT !.len = Larger(@, id + 1),
            !.slots = [slot \in 0 .. Larger(p.len, id + 1) - 1 |->
                         IF slot = id THEN at
                         ELSE IF slot < p.len THEN p.slots[slot] ELSE 0],
            !.capacity = Grown(@, id + 1)]

MapWith(m, id, at) == [key \in DOMAIN m \cup {id} |-> IF key = id THEN at ELSE m[key]]

\* The map that takes over the occupied slots of the table.
Promoted(p) == [id \in {slot \in 0 .. p.len - 1 : p.slots[slot] > 0} |-> p.slots[id]]

PutPosition(p, id, at, live) ==
  IF p.kind = "sparse" THEN [p EXCEPT !.map = MapWith(@, id, at)]
  ELSE IF id < DenseLimit(p, live) /\ at <= MaxEncoded THEN SetSlot(p, id, at)
  ELSE [kind |-> "sparse", map |-> MapWith(Promoted(p), id, at)]

\* Mutant: the table keeps the position of a removed record.
KeptPosition(p, id) == p

DropPosition(p, id) ==
  IF p.kind = "dense"
  THEN [p EXCEPT !.slots = [slot \in DOMAIN @ |-> IF slot = id THEN 0 ELSE @[slot]]]
  ELSE [p EXCEPT !.map = [key \in DOMAIN @ \ {id} |-> @[key]]]

-----------------------------------------------------------------------------
RecordsInit ==
  /\ positions = NoPositions
  /\ records = << >>

\* A caller that knows how many records come announces the total.
Reserve(total) ==
  /\ total > 0
  /\ positions.kind = "dense"
  /\ positions' = [positions EXCEPT !.hint = Larger(@, total),
                                    !.capacity = Grown(@, total + 1)]
  /\ UNCHANGED records

InsertFile(r) ==
  LET at == FindPosition(positions, r.id) IN
    IF at > 0
    THEN /\ records' = [records EXCEPT ![at] = r]
         /\ UNCHANGED positions
    ELSE /\ records' = Append(records, r)
         /\ positions' = PutPosition(positions, r.id, Len(records) + 1, Len(records) + 1)

\* Vec::swap_remove: the last record takes the place of the removed one.
SwapRemove(s, at) == [i \in 1 .. Len(s) - 1 |-> IF i = at THEN s[Len(s)] ELSE s[i]]

\* Mutant: the record that was moved keeps its old position.
RemoveUnfixed(id) ==
  LET at == FindPosition(positions, id) IN
    /\ at > 0
    /\ records' = SwapRemove(records, at)
    /\ positions' = DropPosition(positions, id)

RemoveFile(id) ==
  LET at   == FindPosition(positions, id)
      left == DropPosition(positions, id)
  IN /\ at > 0
     /\ records' = SwapRemove(records, at)
     /\ positions' = IF at < Len(records)
                     THEN PutPosition(left, records[Len(records)].id, at, Len(records) - 1)
                     ELSE left

\* The transaction is consumed: its records go to the tree, its lookup is dropped.
TakeRecords ==
  /\ positions' = NoPositions
  /\ records' = << >>

RecordsNext ==
  \/ \E r \in FileRecs : InsertFile(r) \/ RemoveFile(r.id)
  \/ \E total \in 1 .. MaxEncoded : Reserve(total)
  \/ TakeRecords

RecordsSpec == RecordsInit /\ [][RecordsNext]_recordVars

-----------------------------------------------------------------------------
\* The lookup and the arena name each other: every record is found at its own
\* position, and every position found leads to the record of that id.
PositionsAgree ==
  /\ \A i \in 1 .. Len(records) : FindPosition(positions, records[i].id) = i
  /\ \A r \in FileRecs : LET at == FindPosition(positions, r.id) IN
       at > 0 => at <= Len(records) /\ records[at].id = r.id

\* The map the arena stands for.
HeldMap == [id \in {records[i].id : i \in 1 .. Len(records)} |->
              CHOOSE r \in FileRecs :
                \E i \in 1 .. Len(records) : records[i] = r /\ r.id = id]

RecordMapSpec == INSTANCE RecordMap WITH Records <- FileRecs, map <- HeldMap

\* What inserting, replacing and removing do to the arena is what a map would
\* do, whatever the order of the calls and whichever form the lookup has
\* (FileRecords::insert and FileRecords::remove).
RecordsAreMap == RecordMapSpec!Spec
=============================================================================
