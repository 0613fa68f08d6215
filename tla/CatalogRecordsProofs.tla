------------------------ MODULE CatalogRecordsProofs ------------------------
(***************************************************************************)
(* Proofs, for any set of records, any hole and any limit of the table,    *)
(* that the arena and its lookup implement a map from ids to records.      *)
(***************************************************************************)
EXTENDS CatalogRecords, TLAPS

-----------------------------------------------------------------------------
(* The lookup as a function from ids to positions. *)

Tables == UNION {[0 .. n - 1 -> Nat] : n \in Nat}
Maps   == UNION {[S -> Nat] : S \in SUBSET Nat}

Dense  == {p \in [kind : {"dense"}, len : Nat, slots : Tables, capacity : Nat, hint : Nat] :
             p.slots \in [0 .. p.len - 1 -> Nat]}
Sparse == [kind : {"sparse"}, map : Maps]

Lookups == Dense \cup Sparse

LEMMA MapsAreMaps ==
  /\ \A S \in SUBSET Nat : \A m \in [S -> Nat] : m \in Maps
  /\ \A m \in Maps : DOMAIN m \in SUBSET Nat /\ m \in [DOMAIN m -> Nat]
BY Zenon DEF Maps

(* What is looked up is a number, 0 for an id that is not held. *)
LEMMA FindIsNat ==
  ASSUME NEW p \in Lookups, NEW id \in Nat
  PROVE  FindPosition(p, id) \in Nat
BY DEF Lookups, Dense, Sparse, Maps, FindPosition

LEMMA SetSlotFinds ==
  ASSUME NEW p \in Dense, NEW id \in Nat, NEW at \in Nat
  PROVE  /\ SetSlot(p, id, at) \in Dense
         /\ \A k \in Nat : FindPosition(SetSlot(p, id, at), k)
                             = IF k = id THEN at ELSE FindPosition(p, k)
<1> DEFINE len == Larger(p.len, id + 1)
           slots == [slot \in 0 .. len - 1 |->
                       IF slot = id THEN at
                       ELSE IF slot < p.len THEN p.slots[slot] ELSE 0]
           capacity == Grown(p.capacity, id + 1)
<1>1. len \in Nat /\ capacity \in Nat /\ id < len /\ p.len <= len
  BY DEF Larger, Grown, Dense
<1>2. slots \in [0 .. len - 1 -> Nat]
  BY <1>1 DEF Dense
<1>3. slots \in Tables
  BY <1>1, <1>2 DEF Tables
<1>0. SetSlot(p, id, at) = [p EXCEPT !.len = len, !.slots = slots, !.capacity = capacity]
  BY DEF SetSlot
<1> HIDE DEF len, slots, capacity
<1>4. SetSlot(p, id, at) = [kind |-> "dense", len |-> len, slots |-> slots,
                            capacity |-> capacity, hint |-> p.hint]
  BY <1>0 DEF Dense
<1>5. SetSlot(p, id, at) \in Dense
  BY <1>1, <1>2, <1>3, <1>4 DEF Dense
<1>6. ASSUME NEW k \in Nat
      PROVE  FindPosition(SetSlot(p, id, at), k) = IF k = id THEN at ELSE FindPosition(p, k)
  <2>1. FindPosition(SetSlot(p, id, at), k) = IF k < len THEN slots[k] ELSE 0
    BY <1>4 DEF FindPosition
  <2>2. FindPosition(p, k) = IF k < p.len THEN p.slots[k] ELSE 0
    BY DEF FindPosition, Dense
  <2>3. k < len => slots[k] = IF k = id THEN at ELSE IF k < p.len THEN p.slots[k] ELSE 0
    BY <1>1 DEF slots
  <2> QED BY <1>1, <2>1, <2>2, <2>3 DEF Dense
<1> QED BY <1>5, <1>6

(* Setting a position changes what is found for that id and for no other,  *)
(* also when it makes the table grow or the lookup turn sparse.            *)
LEMMA PutFinds ==
  ASSUME NEW p \in Lookups, NEW id \in Nat, NEW at \in Nat, NEW live \in Nat
  PROVE  /\ PutPosition(p, id, at, live) \in Lookups
         /\ \A k \in Nat : FindPosition(PutPosition(p, id, at, live), k)
                             = IF k = id THEN at ELSE FindPosition(p, k)
<1>1. CASE p.kind = "sparse"
  <2>1. p \in Sparse
    BY <1>1 DEF Lookups, Dense
  <2>2. PutPosition(p, id, at, live) = [kind |-> "sparse", map |-> MapWith(p.map, id, at)]
    BY <1>1, <2>1 DEF PutPosition, Sparse
  <2>3. MapWith(p.map, id, at) \in Maps
    <3>1. DOMAIN p.map \in SUBSET Nat /\ p.map \in [DOMAIN p.map -> Nat]
      BY <2>1, MapsAreMaps DEF Sparse
    <3>2. MapWith(p.map, id, at) \in [DOMAIN p.map \cup {id} -> Nat]
      BY <3>1 DEF MapWith
    <3> QED BY <3>1, <3>2, MapsAreMaps
  <2> QED BY <2>1, <2>2, <2>3 DEF Lookups, Sparse, FindPosition, MapWith
<1>2. CASE p.kind = "dense" /\ id < DenseLimit(p, live) /\ at <= MaxEncoded
  <2>1. p \in Dense
    BY <1>2 DEF Lookups, Sparse
  <2>2. PutPosition(p, id, at, live) = SetSlot(p, id, at)
    BY <1>2 DEF PutPosition
  <2> QED BY <2>1, <2>2, SetSlotFinds DEF Lookups
<1>3. CASE p.kind = "dense" /\ ~(id < DenseLimit(p, live) /\ at <= MaxEncoded)
  <2>1. p \in Dense
    BY <1>3 DEF Lookups, Sparse
  <2>2. PutPosition(p, id, at, live) = [kind |-> "sparse", map |-> MapWith(Promoted(p), id, at)]
    BY <1>3 DEF PutPosition
  <2>3. Promoted(p) \in Maps
    <3>1. Promoted(p) \in [{slot \in 0 .. p.len - 1 : p.slots[slot] > 0} -> Nat]
      BY <2>1 DEF Dense, Promoted
    <3> QED BY <3>1, MapsAreMaps
  <2>4. MapWith(Promoted(p), id, at) \in Maps
    <3>1. DOMAIN Promoted(p) \in SUBSET Nat /\ Promoted(p) \in [DOMAIN Promoted(p) -> Nat]
      BY <2>3, MapsAreMaps
    <3>2. MapWith(Promoted(p), id, at) \in [DOMAIN Promoted(p) \cup {id} -> Nat]
      BY <3>1 DEF MapWith
    <3> QED BY <3>1, <3>2, MapsAreMaps
  <2>5. ASSUME NEW k \in Nat
        PROVE  FindPosition(PutPosition(p, id, at, live), k)
                 = IF k = id THEN at ELSE FindPosition(p, k)
    <3>1. FindPosition(PutPosition(p, id, at, live), k)
            = IF k = id THEN at ELSE IF k \in DOMAIN Promoted(p) THEN Promoted(p)[k] ELSE 0
      BY <2>2 DEF FindPosition, MapWith
    <3>2. FindPosition(p, k) = IF k < p.len THEN p.slots[k] ELSE 0
      BY <2>1 DEF FindPosition, Dense
    <3>3. k < p.len => k \in 0 .. p.len - 1 /\ p.slots[k] \in Nat
      BY <2>1 DEF Dense
    <3>4. DOMAIN Promoted(p) = {slot \in 0 .. p.len - 1 : p.slots[slot] > 0}
      BY DEF Promoted
    <3>5. k \in DOMAIN Promoted(p) => Promoted(p)[k] = p.slots[k]
      BY DEF Promoted
    <3> QED BY <2>1, <3>1, <3>2, <3>3, <3>4, <3>5 DEF Dense
  <2> QED BY <2>2, <2>4, <2>5 DEF Lookups, Sparse
<1> QED BY <1>1, <1>2, <1>3 DEF Lookups, Dense, Sparse

(* Dropping an id makes it unknown and leaves every other where it was. *)
LEMMA DropFinds ==
  ASSUME NEW p \in Lookups, NEW id \in Nat
  PROVE  /\ DropPosition(p, id) \in Lookups
         /\ \A k \in Nat : FindPosition(DropPosition(p, id), k)
                             = IF k = id THEN 0 ELSE FindPosition(p, k)
<1>1. CASE p \in Dense
  <2> DEFINE slots == [slot \in DOMAIN p.slots |-> IF slot = id THEN 0 ELSE p.slots[slot]]
  <2>1. slots \in [0 .. p.len - 1 -> Nat]
    BY <1>1 DEF Dense
  <2>2. slots \in Tables
    BY <1>1, <2>1 DEF Dense, Tables
  <2>3. DropPosition(p, id) = [p EXCEPT !.slots = slots]
    BY <1>1 DEF DropPosition, Dense
  <2>4. \A k \in Nat : k < p.len => slots[k] = IF k = id THEN 0 ELSE p.slots[k]
    BY <1>1 DEF Dense
  <2> HIDE DEF slots
  <2>5. DropPosition(p, id) \in Dense
    BY <1>1, <2>1, <2>2, <2>3 DEF Dense
  <2> QED BY <1>1, <2>3, <2>4, <2>5 DEF Lookups, Dense, FindPosition
<1>2. CASE p \in Sparse
  <2> DEFINE map == [key \in DOMAIN p.map \ {id} |-> p.map[key]]
  <2>1. map \in Maps
    <3>1. DOMAIN p.map \in SUBSET Nat /\ p.map \in [DOMAIN p.map -> Nat]
      BY <1>2, MapsAreMaps DEF Sparse
    <3>2. map \in [DOMAIN p.map \ {id} -> Nat]
      BY <3>1
    <3> QED BY <3>1, <3>2, MapsAreMaps
  <2>2. DropPosition(p, id) = [kind |-> "sparse", map |-> map]
    <3>1. DropPosition(p, id) = [p EXCEPT !.map = map]
      BY <1>2 DEF DropPosition, Sparse
    <3> HIDE DEF map
    <3> QED BY <1>2, <3>1 DEF Sparse
  <2> QED BY <1>2, <2>1, <2>2 DEF Lookups, Sparse, FindPosition
<1> QED BY <1>1, <1>2 DEF Lookups

-----------------------------------------------------------------------------
(* The inductive invariant.  PositionsAgree speaks of the ids of records   *)
(* that may come; a removal that moves the last record also needs that     *)
(* every position found, for any id, lies in the arena, and the shape of   *)
(* the lookup.                                                             *)
RecordsInv ==
  /\ records \in Seq(FileRecs)
  /\ positions \in Lookups
  /\ \A i \in 1 .. Len(records) : FindPosition(positions, records[i].id) = i
  /\ \A id \in Nat : FindPosition(positions, id) > 0 =>
       /\ FindPosition(positions, id) <= Len(records)
       /\ records[FindPosition(positions, id)].id = id

LEMMA EmptyInv ==
  /\ NoPositions \in Lookups
  /\ \A id \in Nat : FindPosition(NoPositions, id) = 0
<1>1. EmptyMap \in [0 .. 0 - 1 -> Nat]
  BY DEF EmptyMap
<1>2. EmptyMap \in Tables
  BY <1>1 DEF Tables
<1> HIDE DEF EmptyMap
<1>3. NoPositions \in Dense
  BY <1>1, <1>2 DEF NoPositions, Dense
<1>4. \A id \in Nat : FindPosition(NoPositions, id) = 0
  BY DEF NoPositions, FindPosition
<1> QED BY <1>3, <1>4 DEF Lookups

(* A record that is inserted goes to the end, or over the one with its id. *)
LEMMA InsertKeeps ==
  ASSUME RecordsInv, NEW r \in FileRecs, InsertFile(r)
  PROVE  /\ RecordsInv'
         /\ \A id \in Nat : id # r.id =>
              /\ FindPosition(positions', id) = FindPosition(positions, id)
              /\ FindPosition(positions, id) > 0 =>
                   records'[FindPosition(positions', id)]
                     = records[FindPosition(positions, id)]
         /\ FindPosition(positions', r.id) > 0
         /\ records'[FindPosition(positions', r.id)] = r
<1> DEFINE at == FindPosition(positions, r.id)
<1>1. r.id \in Nat /\ at \in Nat
  BY RecordsAssumption, FindIsNat DEF RecordsInv
<1>2. \A i \in 1 .. Len(records) : records[i] \in FileRecs /\ records[i].id \in Nat
  BY RecordsAssumption DEF RecordsInv
<1>3. CASE at > 0
  <2>1. positions' = positions /\ records' = [records EXCEPT ![at] = r]
    BY <1>3 DEF InsertFile
  <2>2. at \in 1 .. Len(records) /\ records[at].id = r.id
    BY <1>1, <1>3 DEF RecordsInv
  <2>3. records' \in Seq(FileRecs) /\ Len(records') = Len(records)
    BY <2>1, <2>2 DEF RecordsInv
  <2>4. \A i \in 1 .. Len(records) : records'[i] = IF i = at THEN r ELSE records[i]
    BY <2>1, <2>2 DEF RecordsInv
  <2>5. \A id \in Nat : FindPosition(positions, id) \in Nat
    BY FindIsNat DEF RecordsInv
  <2>6. \A i \in 1 .. Len(records) : records'[i].id = records[i].id
    BY <2>2, <2>4
  <2>7. \A id \in Nat : FindPosition(positions, id) > 0 =>
          /\ FindPosition(positions, id) \in 1 .. Len(records)
          /\ records[FindPosition(positions, id)].id = id
    BY <2>5, SMTT(60) DEF RecordsInv
  <2>8. RecordsInv'
    <3>1. \A i \in 1 .. Len(records') : FindPosition(positions', records'[i].id) = i
      BY <2>1, <2>3, <2>6 DEF RecordsInv
    <3>2. \A id \in Nat : FindPosition(positions', id) > 0 =>
            /\ FindPosition(positions', id) <= Len(records')
            /\ records'[FindPosition(positions', id)].id = id
      BY <2>1, <2>3, <2>6, <2>7
    <3>3. positions' \in Lookups
      BY <2>1 DEF RecordsInv
    <3> QED BY <2>3, <3>1, <3>2, <3>3 DEF RecordsInv
  <2>9. ASSUME NEW id \in Nat, id # r.id, FindPosition(positions, id) > 0
        PROVE  records'[FindPosition(positions, id)] = records[FindPosition(positions, id)]
    BY <2>2, <2>4, <2>7, <2>9
  <2>10. records'[at] = r
    BY <2>2, <2>4
  <2> QED BY <1>3, <2>1, <2>8, <2>9, <2>10
<1>4. CASE at = 0
  <2> DEFINE n == Len(records) + 1
  <2>1. /\ records' = Append(records, r)
        /\ positions' = PutPosition(positions, r.id, n, n)
    BY <1>4 DEF InsertFile
  <2>2. n \in Nat /\ n > 0
    BY DEF RecordsInv
  <2>3. /\ positions' \in Lookups
        /\ \A k \in Nat : FindPosition(positions', k)
                            = IF k = r.id THEN n ELSE FindPosition(positions, k)
    <3> DEFINE key == r.id
    <3>1. positions \in Lookups /\ key \in Nat /\ n \in Nat
      BY <1>1, <2>2 DEF RecordsInv
    <3>2. positions' = PutPosition(positions, key, n, n)
      BY <2>1
    <3> HIDE DEF key, n
    <3>3. /\ positions' \in Lookups
          /\ \A k \in Nat : FindPosition(positions', k)
                              = IF k = key THEN n ELSE FindPosition(positions, k)
      BY <3>1, <3>2, PutFinds
    <3> QED BY <3>3 DEF key
  <2>4. records' \in Seq(FileRecs) /\ Len(records') = n
    BY <2>1 DEF RecordsInv
  <2>5. \A i \in 1 .. n : records'[i] = IF i = n THEN r ELSE records[i]
    BY <2>1 DEF RecordsInv
  <2>6. \A i \in 1 .. Len(records) : records[i].id # r.id
    BY <1>4 DEF RecordsInv
  <2>7. \A id \in Nat : FindPosition(positions, id) \in Nat
    BY FindIsNat DEF RecordsInv
  <2>8. \A i \in 1 .. n : i # n => i \in 1 .. Len(records)
    BY DEF RecordsInv
  <2>9. \A id \in Nat : FindPosition(positions, id) > 0 =>
          /\ FindPosition(positions, id) \in 1 .. Len(records)
          /\ records[FindPosition(positions, id)].id = id
    BY <2>7, SMTT(60) DEF RecordsInv
  <2>10. \A i \in 1 .. Len(records) : i \in 1 .. n /\ i # n
    BY DEF RecordsInv
  <2>11. n \in 1 .. n
    BY <2>2
  <2>12. \A i \in 1 .. Len(records) : FindPosition(positions, records[i].id) = i
    BY DEF RecordsInv
  <2> HIDE DEF at, n
  <2>13. \A i \in 1 .. n : FindPosition(positions', records'[i].id) = i
    <3> SUFFICES ASSUME NEW i \in 1 .. n PROVE FindPosition(positions', records'[i].id) = i
      OBVIOUS
    <3>1. CASE i = n
      BY <1>1, <2>3, <2>5, <3>1
    <3>2. CASE i # n
      <4>1. i \in 1 .. Len(records)
        BY <2>8, <3>2
      <4>2. records'[i] = records[i] /\ records[i].id \in Nat /\ records[i].id # r.id
        BY <1>2, <2>5, <2>6, <3>2, <4>1
      <4> QED BY <2>3, <2>12, <4>1, <4>2
    <3> QED BY <3>1, <3>2
  <2>14. ASSUME NEW id \in Nat, id # r.id, FindPosition(positions, id) > 0
         PROVE  records'[FindPosition(positions, id)] = records[FindPosition(positions, id)]
    BY <2>5, <2>9, <2>10, <2>14
  <2>15. records'[n] = r
    BY <2>5, <2>11
  <2>16. \A id \in Nat : FindPosition(positions', id) > 0 =>
           /\ FindPosition(positions', id) <= n
           /\ records'[FindPosition(positions', id)].id = id
    <3> SUFFICES ASSUME NEW id \in Nat, FindPosition(positions', id) > 0
                 PROVE  /\ FindPosition(positions', id) <= n
                        /\ records'[FindPosition(positions', id)].id = id
      OBVIOUS
    <3>1. CASE id = r.id
      BY <2>2, <2>3, <2>15, <3>1
    <3>2. CASE id # r.id
      <4>1. FindPosition(positions', id) = FindPosition(positions, id)
        BY <2>3, <3>2
      <4> QED BY <2>2, <2>9, <2>10, <2>14, <3>2, <4>1
    <3> QED BY <3>1, <3>2
  <2>17. RecordsInv'
    BY <2>3, <2>4, <2>13, <2>16 DEF RecordsInv
  <2> QED BY <1>1, <2>2, <2>3, <2>14, <2>15, <2>17
<1> QED BY <1>1, <1>3, <1>4

(* The record that is moved to the place of the removed one is found there, *)
(* also if the removed one was the last.                                    *)
LEMMA RemoveKeeps ==
  ASSUME RecordsInv, NEW r \in FileRecs, RemoveFile(r.id)
  PROVE  /\ RecordsInv'
         /\ \A id \in Nat : id # r.id =>
              /\ FindPosition(positions', id) > 0 <=> FindPosition(positions, id) > 0
              /\ FindPosition(positions, id) > 0 =>
                   records'[FindPosition(positions', id)]
                     = records[FindPosition(positions, id)]
         /\ FindPosition(positions', r.id) = 0
<1> DEFINE at == FindPosition(positions, r.id)
           n == Len(records)
           left == DropPosition(positions, r.id)
           moved == records[n].id
<1>1. r.id \in Nat /\ at \in Nat
  BY RecordsAssumption, FindIsNat DEF RecordsInv
<1>2. at \in 1 .. n /\ records[at].id = r.id /\ n \in Nat /\ n >= 1
  BY <1>1 DEF RemoveFile, RecordsInv
<1>3. /\ left \in Lookups
      /\ \A k \in Nat : FindPosition(left, k)
                          = IF k = r.id THEN 0 ELSE FindPosition(positions, k)
  BY <1>1, DropFinds DEF RecordsInv
<1>4. \A i \in 1 .. n : records[i] \in FileRecs /\ records[i].id \in Nat
  BY RecordsAssumption DEF RecordsInv
<1>5. \A id \in Nat : FindPosition(positions, id) \in Nat
  BY FindIsNat DEF RecordsInv
<1>6. records' = [i \in 1 .. n - 1 |-> IF i = at THEN records[n] ELSE records[i]]
  BY DEF RemoveFile, SwapRemove
<1>7. records' \in Seq(FileRecs) /\ Len(records') = n - 1
  BY <1>2, <1>4, <1>6
<1>8. \A i \in 1 .. n - 1 : records'[i] = IF i = at THEN records[n] ELSE records[i]
  BY <1>6
<1>9. /\ positions' \in Lookups
      /\ \A k \in Nat : FindPosition(positions', k)
                          = IF k = r.id THEN 0
                            ELSE IF at < n /\ k = moved THEN at
                            ELSE FindPosition(positions, k)
  <2>1. CASE at < n
    <3> DEFINE live == n - 1
    <3>1. positions' = PutPosition(left, moved, at, live)
      BY <2>1 DEF RemoveFile
    <3>2. moved \in Nat /\ moved # r.id /\ live \in Nat
      BY <1>2, <1>4, <2>1 DEF RecordsInv
    <3>3. at \in Nat /\ left \in Lookups
      BY <1>1, <1>3
    <3> HIDE DEF at, n, left, moved, live
    <3>4. /\ positions' \in Lookups
          /\ \A k \in Nat : FindPosition(positions', k)
                              = IF k = moved THEN at ELSE FindPosition(left, k)
      BY <3>1, <3>2, <3>3, PutFinds
    <3> QED BY <1>3, <2>1, <3>2, <3>4
  <2>2. CASE ~(at < n)
    <3>1. positions' = left
      BY <2>2 DEF RemoveFile
    <3> QED BY <1>3, <2>2, <3>1
  <2> QED BY <2>1, <2>2
<1>10. \A i \in 1 .. n : FindPosition(positions, records[i].id) = i
  BY DEF RecordsInv
<1>11. \A id \in Nat : FindPosition(positions, id) > 0 =>
         FindPosition(positions, id) \in 1 .. n /\ records[FindPosition(positions, id)].id = id
  BY <1>5 DEF RecordsInv
<1> HIDE DEF left
<1>12. \A i \in 1 .. n - 1 : FindPosition(positions', records'[i].id) = i
  <2> SUFFICES ASSUME NEW i \in 1 .. n - 1 PROVE FindPosition(positions', records'[i].id) = i
    OBVIOUS
  <2>1. i \in 1 .. n /\ n \in 1 .. n
    BY <1>2
  <2>2. CASE i = at
    <3>1. records'[i].id = moved /\ moved \in Nat /\ moved # r.id /\ at < n
      BY <1>2, <1>4, <1>8, <1>10, <2>1, <2>2
    <3> QED BY <1>9, <2>2, <3>1
  <2>3. CASE i # at
    <3>1. records'[i].id = records[i].id /\ records[i].id \in Nat
      BY <1>4, <1>8, <2>1, <2>3
    <3>2. records[i].id # r.id /\ records[i].id # moved
      BY <1>2, <1>10, <2>1, <2>3
    <3> QED BY <1>9, <1>10, <2>1, <3>1, <3>2
  <2> QED BY <2>2, <2>3
<1>13. \A id \in Nat : FindPosition(positions', id) > 0 =>
         /\ FindPosition(positions', id) \in 1 .. n - 1
         /\ records'[FindPosition(positions', id)].id = id
  <2> SUFFICES ASSUME NEW id \in Nat, FindPosition(positions', id) > 0
               PROVE  /\ FindPosition(positions', id) \in 1 .. n - 1
                      /\ records'[FindPosition(positions', id)].id = id
    OBVIOUS
  <2>1. CASE at < n /\ id = moved
    BY <1>2, <1>8, <1>9, <2>1
  <2>2. CASE ~(at < n /\ id = moved)
    <3>1. FindPosition(positions', id) = FindPosition(positions, id) /\ id # r.id
      BY <1>9, <2>2
    <3>2. FindPosition(positions, id) \in 1 .. n /\ records[FindPosition(positions, id)].id = id
      BY <1>11, <3>1
    <3>3. FindPosition(positions, id) # n /\ FindPosition(positions, id) # at
      BY <1>2, <1>10, <2>2, <3>1, <3>2
    <3> QED BY <1>2, <1>8, <3>1, <3>2, <3>3
  <2> QED BY <2>1, <2>2
<1>14. RecordsInv'
  <2> HIDE DEF at, n, moved
  <2> QED BY <1>2, <1>7, <1>9, <1>12, <1>13 DEF RecordsInv
<1>15. ASSUME NEW id \in Nat, id # r.id
       PROVE  /\ FindPosition(positions', id) > 0 <=> FindPosition(positions, id) > 0
              /\ FindPosition(positions, id) > 0 =>
                   records'[FindPosition(positions', id)]
                     = records[FindPosition(positions, id)]
  <2>1. CASE at < n /\ id = moved
    <3>1. FindPosition(positions, id) = n
      BY <1>2, <1>10, <2>1
    <3> QED BY <1>2, <1>8, <1>9, <1>15, <2>1, <3>1
  <2>2. CASE ~(at < n /\ id = moved)
    <3>1. FindPosition(positions', id) = FindPosition(positions, id)
      BY <1>9, <1>15, <2>2
    <3>2. ASSUME FindPosition(positions, id) > 0
          PROVE  records'[FindPosition(positions, id)] = records[FindPosition(positions, id)]
      <4>1. FindPosition(positions, id) \in 1 .. n /\ records[FindPosition(positions, id)].id = id
        BY <1>11, <3>2
      <4>2. FindPosition(positions, id) # n /\ FindPosition(positions, id) # at
        BY <1>2, <1>15, <2>2, <4>1
      <4> QED BY <1>2, <1>8, <4>1, <4>2
    <3> QED BY <3>1, <3>2
  <2> QED BY <2>1, <2>2
<1> QED BY <1>1, <1>9, <1>14, <1>15

(* Announcing a total makes room and moves nothing. *)
LEMMA ReserveKeeps ==
  ASSUME RecordsInv, NEW total \in 1 .. MaxEncoded, Reserve(total)
  PROVE  /\ RecordsInv'
         /\ records' = records
         /\ \A id \in Nat : FindPosition(positions', id) = FindPosition(positions, id)
<1> DEFINE hint == Larger(positions.hint, total)
           capacity == Grown(positions.capacity, total + 1)
<1>1. positions \in Dense
  BY DEF Reserve, RecordsInv, Lookups, Sparse
<1>2. hint \in Nat /\ capacity \in Nat
  BY <1>1, RecordsAssumption DEF Dense, Larger, Grown
<1>3. positions' = [positions EXCEPT !.hint = hint, !.capacity = capacity]
  BY DEF Reserve
<1> HIDE DEF hint, capacity
<1>4. positions' \in Dense
  BY <1>1, <1>2, <1>3 DEF Dense
<1>5. \A id \in Nat : FindPosition(positions', id) = FindPosition(positions, id)
  BY <1>1, <1>3 DEF Dense, FindPosition
<1>6. records' = records
  BY DEF Reserve
<1>7. \A i \in 1 .. Len(records) : records[i].id \in Nat
  BY RecordsAssumption DEF RecordsInv
<1> QED BY <1>4, <1>5, <1>6, <1>7 DEF RecordsInv, Lookups

LEMMA TakeKeeps ==
  ASSUME TakeRecords
  PROVE  RecordsInv' /\ records' = << >>
BY EmptyInv DEF TakeRecords, RecordsInv

LEMMA RecordsCorrect == RecordsSpec => []RecordsInv
<1>1. RecordsInit => RecordsInv
  BY EmptyInv DEF RecordsInit, RecordsInv
<1>2. RecordsInv /\ [RecordsNext]_recordVars => RecordsInv'
  <2> SUFFICES ASSUME RecordsInv, [RecordsNext]_recordVars PROVE RecordsInv'
    OBVIOUS
  <2>1. ASSUME NEW r \in FileRecs, InsertFile(r) PROVE RecordsInv'
    BY <2>1, InsertKeeps
  <2>2. ASSUME NEW r \in FileRecs, RemoveFile(r.id) PROVE RecordsInv'
    BY <2>2, RemoveKeeps
  <2>3. ASSUME NEW total \in 1 .. MaxEncoded, Reserve(total) PROVE RecordsInv'
    BY <2>3, ReserveKeeps
  <2>4. CASE TakeRecords
    BY <2>4, TakeKeeps
  <2>5. CASE UNCHANGED recordVars
    BY <2>5 DEF recordVars, RecordsInv
  <2> QED BY <2>1, <2>2, <2>3, <2>4, <2>5 DEF RecordsNext
<1> QED BY <1>1, <1>2, PTL DEF RecordsSpec

(* Whatever is inserted, replaced and removed, in whichever order and with *)
(* whichever totals announced, and whenever the table turns sparse: every  *)
(* record is found at its own place and nothing else is found              *)
(* (FileRecords).                                                          *)
THEOREM PositionsAlwaysAgree == RecordsSpec => []PositionsAgree
<1>1. RecordsInv => PositionsAgree
  <2> SUFFICES ASSUME RecordsInv PROVE PositionsAgree
    OBVIOUS
  <2>1. \A i \in 1 .. Len(records) : FindPosition(positions, records[i].id) = i
    BY DEF RecordsInv
  <2>2. ASSUME NEW r \in FileRecs, FindPosition(positions, r.id) > 0
        PROVE  /\ FindPosition(positions, r.id) <= Len(records)
               /\ records[FindPosition(positions, r.id)].id = r.id
    BY <2>2, RecordsAssumption DEF RecordsInv
  <2> QED BY <2>1, <2>2 DEF PositionsAgree
<1> QED BY <1>1, RecordsCorrect, PTL

-----------------------------------------------------------------------------
(* The refinement. *)

(* The map that is implemented, read off the lookup. *)
LEMMA HeldMapIs ==
  RecordsInv =>
    HeldMap = [id \in {k \in Nat : FindPosition(positions, k) > 0} |->
                 records[FindPosition(positions, id)]]
<1> SUFFICES ASSUME RecordsInv
             PROVE  HeldMap = [id \in {k \in Nat : FindPosition(positions, k) > 0} |->
                                 records[FindPosition(positions, id)]]
  OBVIOUS
<1>1. \A i \in 1 .. Len(records) : records[i] \in FileRecs /\ records[i].id \in Nat
  BY RecordsAssumption DEF RecordsInv
<1>2. \A k \in Nat : FindPosition(positions, k) > 0 =>
        FindPosition(positions, k) \in 1 .. Len(records)
  BY FindIsNat DEF RecordsInv
<1>3. {records[i].id : i \in 1 .. Len(records)} = {k \in Nat : FindPosition(positions, k) > 0}
  BY <1>1, <1>2 DEF RecordsInv
<1>4. ASSUME NEW id \in {k \in Nat : FindPosition(positions, k) > 0}
      PROVE  (CHOOSE r \in FileRecs : \E i \in 1 .. Len(records) : records[i] = r /\ r.id = id)
               = records[FindPosition(positions, id)]
  <2> DEFINE at == FindPosition(positions, id)
  <2>1. at \in 1 .. Len(records) /\ records[at] \in FileRecs /\ records[at].id = id
    BY <1>1, <1>2 DEF RecordsInv
  <2>2. ASSUME NEW r \in FileRecs, NEW i \in 1 .. Len(records), records[i] = r, r.id = id
        PROVE  r = records[at]
    BY <2>2 DEF RecordsInv
  <2> HIDE DEF at
  <2>3. \E r \in FileRecs : \E i \in 1 .. Len(records) : records[i] = r /\ r.id = id
    BY <2>1
  <2>4. (CHOOSE r \in FileRecs : \E i \in 1 .. Len(records) : records[i] = r /\ r.id = id)
          = records[at]
    BY <2>2, <2>3
  <2> QED BY <2>4 DEF at
<1> QED BY <1>3, <1>4 DEF HeldMap

(* The containers implement the map: inserting is one step that sets the   *)
(* record of its id, removing one that drops an id and no other            *)
(* (FileRecords::insert, FileRecords::remove, IndexTransaction).           *)
THEOREM RecordsImplementMap == RecordsSpec => RecordsAreMap
<1> DEFINE Held == {k \in Nat : FindPosition(positions, k) > 0}
<1>1. RecordsInit => RecordMapSpec!Init
  <2> SUFFICES ASSUME RecordsInit PROVE HeldMap = [id \in {} |-> 0]
    BY DEF RecordMapSpec!Init
  <2>1. {records[i].id : i \in 1 .. Len(records)} = {}
    BY DEF RecordsInit
  <2> QED BY <2>1 DEF HeldMap
<1>2. /\ RecordsInv /\ RecordsInv'
      /\ (RecordsInv => HeldMap = [id \in Held |-> records[FindPosition(positions, id)]])
      /\ (RecordsInv => HeldMap = [id \in Held |-> records[FindPosition(positions, id)]])'
      /\ [RecordsNext]_recordVars
      => [RecordMapSpec!Next]_HeldMap
  <2> SUFFICES ASSUME RecordsInv, RecordsInv', [RecordsNext]_recordVars,
                      HeldMap = [id \in Held |-> records[FindPosition(positions, id)]],
                      HeldMap' = [id \in Held' |-> records'[FindPosition(positions', id)]]
               PROVE  [RecordMapSpec!Next]_HeldMap
    OBVIOUS
  <2>1. ASSUME NEW r \in FileRecs, InsertFile(r) PROVE RecordMapSpec!Put(r)
    <3>1. r.id \in Nat
      BY RecordsAssumption
    <3>2. Held' = Held \cup {r.id}
      BY <2>1, <3>1, InsertKeeps
    <3>3. \A id \in Held' : records'[FindPosition(positions', id)]
                             = IF id = r.id THEN r ELSE HeldMap[id]
      BY <2>1, <3>1, <3>2, InsertKeeps
    <3>4. DOMAIN HeldMap = Held
      OBVIOUS
    <3> HIDE DEF Held
    <3> QED BY <3>2, <3>3, <3>4 DEF RecordMapSpec!Put
  <2>2. ASSUME NEW r \in FileRecs, RemoveFile(r.id) PROVE RecordMapSpec!Drop(r.id)
    <3>1. r.id \in Nat
      BY RecordsAssumption
    <3>2. Held' = Held \ {r.id}
      BY <2>2, <3>1, RemoveKeeps
    <3>3. \A id \in Held' : records'[FindPosition(positions', id)] = HeldMap[id]
      BY <2>2, <3>1, <3>2, RemoveKeeps
    <3>4. DOMAIN HeldMap = Held
      OBVIOUS
    <3> HIDE DEF Held
    <3> QED BY <3>2, <3>3, <3>4 DEF RecordMapSpec!Drop
  <2>3. ASSUME NEW total \in 1 .. MaxEncoded, Reserve(total) PROVE HeldMap' = HeldMap
    BY <2>3, ReserveKeeps
  <2>4. CASE TakeRecords
    <3>1. {records'[i].id : i \in 1 .. Len(records')} = {}
      BY <2>4 DEF TakeRecords
    <3> QED BY <3>1 DEF HeldMap, RecordMapSpec!Next, RecordMapSpec!Clear
  <2>5. CASE UNCHANGED recordVars
    BY <2>5 DEF recordVars, HeldMap
  <2> QED BY <2>1, <2>2, <2>3, <2>4, <2>5
          DEF RecordsNext, RecordMapSpec!Next, RecordMapSpec!Ids
<1> QED BY <1>1, <1>2, HeldMapIs, RecordsCorrect, PTL
        DEF RecordsSpec, RecordsAreMap, RecordMapSpec!Spec
=============================================================================
