------------------------------ MODULE MftVolume ------------------------------
(***************************************************************************)
(* Where the master file table lies on its volume and how its sectors are  *)
(* read (ntfs.rs): the run list of its $DATA attribute, the cut at the     *)
(* valid data length, the free runs that its $BITMAP lets the reader skip, *)
(* and VolumeMftReader.  Lengths and addresses are in units of 512 bytes.  *)
(*                                                                         *)
(* A volume has what its boot sector says (boot, recordSize, cluster, and  *)
(* the sector size of the device), the place of the table (layout: pairs   *)
(* <<first cluster, length>> in table order), how much of it was ever      *)
(* written (Unknown: all), the records in use (used)                       *)
(* and the record that describes the table (record0): its $DATA attributes *)
(* with their run lists and valid length (Unknown if too short to tell),   *)
(* its other attributes, among them perhaps the $BITMAP, and the entries   *)
(* of its attribute list.                                                  *)
(***************************************************************************)
EXTENDS MftRecord

CONSTANTS
  AddressMax,    (* the largest address an unsigned word holds              *)
  SkipMin,       (* MFT_SKIP_MIN_BYTES                                      *)
  ChunkMax       (* VOLUME_READ_CHUNK                                       *)

Unknown == -1
NoBitmap == {-1}
LowerOf(a, b) == IF a < b THEN a ELSE b

(* The volume's own side: which unit of the table lies at address p.  What *)
(* lies past the valid length was never written.                           *)
UnitAt(volume, p) ==
  LET before(i) == SumFunctionOnSet([j \in DOMAIN volume.layout |-> volume.layout[j][2]], 1..(i - 1))
      here == {i \in DOMAIN volume.layout :
                 LET c == p \div volume.cluster IN
                 volume.layout[i][1] <= c /\ c < volume.layout[i][1] + volume.layout[i][2]}
      units == {(before(i) - volume.layout[i][1]) * volume.cluster + p : i \in here}
  IN IF units = {} \/ (volume.written # Unknown /\ Max(units \cup {0}) >= volume.written)
     THEN Blank ELSE Max(units)

-----------------------------------------------------------------------------
(* A run whose header is wrong, which is cut off or which is sparse ends   *)
(* the decoding in an error, and so does an address out of range.          *)
decode_data_runs(runs, cluster) ==
  LET step(d, run) ==
        LET lcn == d.lcn + run.delta IN
        IF \/ ~d.ok \/ run.form # "ok" \/ run.length = 0
           \/ lcn < 0 \/ lcn > AddressMax
           \/ lcn * cluster > AddressMax \/ run.length * cluster > AddressMax
        THEN [d EXCEPT !.ok = FALSE]
        ELSE [ok |-> TRUE, lcn |-> lcn,
              extents |-> Append(d.extents, <<lcn * cluster, run.length * cluster>>)]
      d == FoldLeft(step, [ok |-> TRUE, lcn |-> 0, extents |-> <<>>], runs)
  IN [ok |-> d.ok /\ d.extents # <<>>, extents |-> d.extents]

trim_extents_to_valid_length(extents, valid, cluster) ==
  IF valid \in {0, Unknown} THEN extents
  ELSE LET cap == CeilDiv(valid, cluster) * cluster
           step(t, e) ==
             IF t.room = 0 THEN t
             ELSE [room |-> t.room - LowerOf(e[2], t.room),
                   kept |-> Append(t.kept, <<e[1], LowerOf(e[2], t.room)>>)]
           t == FoldLeft(step, [room |-> cap, kept |-> <<>>], extents)
       IN IF t.kept = <<>> THEN extents ELSE t.kept

(* mft_keep_extents, cluster by cluster: those with a used record, and the *)
(* free ones in runs too short to be worth a seek.                         *)
Occupied(used, perCluster, c) ==
  \E r \in (c * perCluster + 1)..((c + 1) * perCluster) : r \in used

KeptClusters(used, perCluster, total, skip) ==
  LET occupied == {c \in 0..(total - 1) : Occupied(used, perCluster, c)}
      run(c) == {d \in 0..(total - 1) :
                   \A x \in LowerOf(c, d)..(c + d - LowerOf(c, d)) : x \notin occupied}
  IN {c \in 0..(total - 1) : c \in occupied \/ Cardinality(run(c)) < skip}

(* Adjacent pieces are read as one. *)
AppendExtent(extents, start, length) ==
  IF extents # <<>> /\ Last(extents)[1] + Last(extents)[2] = start
  THEN [extents EXCEPT ![Len(extents)][2] = @ + length]
  ELSE Append(extents, <<start, length>>)

mft_keep_extents(extents, used, cluster) ==
  LET perCluster == cluster \div RecordSectors
      total == SumFunction([i \in DOMAIN extents |-> extents[i][2] \div cluster])
      kept == KeptClusters(used, perCluster, total,
                           LET s == CeilDiv(SkipMin, cluster) IN IF s < 1 THEN 1 ELSE s)
      inExtent(acc, e) ==
        LET here == e[2] \div cluster
            tail == e[2] % cluster
            take(r, k) == IF acc.next + k - 1 \in kept
                          THEN AppendExtent(r, e[1] + (k - 1) * cluster, cluster) ELSE r
            whole == FoldLeft(take, acc.result, [k \in 1..here |-> k])
        IN [next |-> acc.next + here,
            result |-> IF tail = 0 THEN whole
                       ELSE AppendExtent(whole, e[1] + here * cluster, tail)]
  IN IF perCluster = 0 \/ total = 0 THEN extents
     ELSE FoldLeft(inExtent, [next |-> 0, result |-> <<>>], extents).result

(* open_volume_handle and read_volume_geometry refuse what is not NTFS. *)
read_volume_geometry(volume) == volume.boot = "ntfs" /\ volume.cluster > 0 /\ volume.sector > 0

(* The first $DATA attribute of record 0 has the runs and the valid length. *)
read_mft_extents(volume) ==
  LET r == volume.record0
      decoded == decode_data_runs(r.data[1].runs, volume.cluster)
  IN IF ~r.sig \/ r.torn \/ r.data = <<>> THEN [ok |-> FALSE, extents |-> <<>>]
     ELSE IF r.data[1].resident THEN [ok |-> FALSE, extents |-> <<>>]
     ELSE [ok |-> decoded.ok,
           extents |-> trim_extents_to_valid_length(decoded.extents, r.data[1].valid, volume.cluster)]

(* Where in the volume the table's record of that number is. *)
mft_record_physical_offset(extents, number) ==
  LET target == (number - 1) * RecordSectors
      before(i) == SumFunctionOnSet([j \in DOMAIN extents |-> extents[j][2]], 1..(i - 1))
      here == {i \in DOMAIN extents : before(i) <= target /\ target < before(i) + extents[i][2]}
  IN {extents[i][1] + target - before(i) : i \in here}

(* A record that crosses the end of its cluster, or that is torn, is refused. *)
read_mft_record_at(table, volume, physical) ==
  LET span == Max({volume.cluster, volume.sector, RecordSectors})
      first == UnitAt(volume, physical)
  IN IF /\ (physical % span) + RecordSectors <= span
        /\ first # Blank /\ first % RecordSectors = 0
        /\ table[(first \div RecordSectors) + 1].sig
        /\ apply_record_fixups(table, first, UnitAt(volume, physical + 1))
     THEN {table[(first \div RecordSectors) + 1]} ELSE {}

extract_bitmap_from_record(attrs) == \E i \in DOMAIN attrs : attrs[i].type = "bitmap"

(* The record that has the first fragment of the $BITMAP, by the list. *)
attribute_list_bitmap_record(list) ==
  LET found == {i \in DOMAIN list : list[i].type = "bitmap" /\ list[i].vcn = 0}
  IN IF found = {} THEN {} ELSE {list[Min(found)].record}

read_mft_bitmap(table, volume, extents) ==
  LET places == UNION {mft_record_physical_offset(extents, n) :
                         n \in attribute_list_bitmap_record(volume.record0.list)}
      hosts == UNION {read_mft_record_at(table, volume, p) : p \in places}
  IN IF \/ extract_bitmap_from_record(volume.record0.attrs)
        \/ \E h \in hosts : extract_bitmap_from_record(h.attrs)
     THEN volume.used ELSE NoBitmap

(* The extents open_mft_stream reads.  Free runs are skipped only where a  *)
(* cluster holds whole records and the bitmap can be read.  Another record *)
(* size is not supported.                                                  *)
open_mft_stream(table, volume) ==
  LET opened == read_mft_extents(volume)
      bitmap == IF volume.cluster % RecordSectors = 0
                THEN read_mft_bitmap(table, volume, opened.extents) ELSE NoBitmap
      kept == IF bitmap = NoBitmap THEN opened.extents
              ELSE mft_keep_extents(opened.extents, bitmap, volume.cluster)
  IN [ok |-> read_volume_geometry(volume) /\ volume.recordSize = RecordSectors /\ opened.ok,
      extents |-> IF kept = <<>> THEN opened.extents ELSE kept]

(* A dump is all of the table. *)
open_mft_dump(volume) ==
  LET opened == read_mft_extents(volume) IN
  [opened EXCEPT !.ok = @ /\ read_volume_geometry(volume)]

-----------------------------------------------------------------------------
(* VolumeMftReader: the extent in hand, what was consumed of it, and the   *)
(* units read ahead into the bounce chunk.                                 *)

Start == [extent |-> 1, consumed |-> 0, chunk |-> <<>>]

Units(volume, from, count) == [i \in 1..count |-> UnitAt(volume, from + i - 1)]

(* Read::read: what the chunk still holds; else whole device sectors, or,  *)
(* for a request below one sector, a fresh chunk.  An extent that is used  *)
(* up is left at once rather than at the next read.                        *)
ReadVolume(volume, extents, rd, want) ==
  LET e == rd.extent IN
  CASE rd.chunk # <<>> ->
         LET count == LowerOf(Len(rd.chunk), want) IN
         [got |-> SubSeq(rd.chunk, 1, count),
          rd |-> [rd EXCEPT !.chunk = SubSeq(@, count + 1, Len(@))]]
    [] rd.chunk = <<>> /\ e > Len(extents) -> [got |-> <<>>, rd |-> rd]
    [] OTHER ->
         LET left == extents[e][2] - rd.consumed
             direct == (LowerOf(want, left) \div volume.sector) * volume.sector
             size == IF direct > 0 THEN direct ELSE LowerOf(left, ChunkMax)
             units == Units(volume, extents[e][1] + rd.consumed, size)
             count == LowerOf(size, want)
             next == IF rd.consumed + size = extents[e][2]
                     THEN [Start EXCEPT !.extent = e + 1] ELSE [rd EXCEPT !.consumed = @ + size]
         IN [got |-> SubSeq(units, 1, count),
             rd |-> [next EXCEPT !.chunk = SubSeq(units, count + 1, size)]]

TotalUnits(extents) == SumFunction([i \in DOMAIN extents |-> extents[i][2]])

=============================================================================
