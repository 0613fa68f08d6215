--------------------------- MODULE MCMftPipeline ---------------------------
(* Tables of six records around the root record 2, on four volumes. *)
EXTENDS MftPipeline

Attr(type) ==
  [type |-> type, resident |-> TRUE, named |-> FALSE, vcn |-> 0, size |-> 0, alloc |-> 0,
   parent |-> 0, ns |-> 0, text |-> <<>>, value |-> "ok", room |-> "whole"]
Name(num, parent, ns) == [Attr("name") EXCEPT !.parent = parent, !.ns = ns, !.text = <<num, ns>>]
Data(size) == [Attr("data") EXCEPT !.size = size]
Runs(vcn, size, alloc) ==
  [Attr("data") EXCEPT !.resident = FALSE, !.vcn = vcn, !.size = size, !.alloc = alloc]
Stream(size) == [Attr("data") EXCEPT !.named = TRUE, !.size = size]

Raw(num, dir, base, attrs) ==
  [sig |-> TRUE, in_use |-> TRUE, torn |-> FALSE, num |-> num, dir |-> dir, base |-> base,
   attrs |-> attrs]
Empty == [Raw(0, FALSE, 0, <<>>) EXCEPT !.sig = FALSE, !.in_use = FALSE]
Dir(num, parent) == Raw(num, TRUE, 0, <<Name(num, parent, 2), Name(num, parent, 1)>>)
File(num, parent) == Raw(num, FALSE, 0, <<Name(num, parent, 3), Name(num, parent, 2), Stream(9), Data(1)>>)
(* Its sizes lie in an extension; what is left here is a later fragment. *)
ListFile(num, parent) ==
  Raw(num, FALSE, 0, <<Attr("list"), Name(num, parent, 2), Name(num, parent, 1), Runs(7, 9, 9)>>)
Extension(num, base, size) == Raw(num, FALSE, base, <<Runs(0, size, size + 1)>>)
Torn(raw) == [raw EXCEPT !.torn = TRUE]
Deleted(raw) == [raw EXCEPT !.in_use = FALSE]
BadName(num) == Raw(num, FALSE, 0, <<[Name(num, 2, 1) EXCEPT !.value = "cut"], Data(1)>>)
(* An extension of record 0 with the $BITMAP of the table. *)
BitmapHost(num) == Raw(num, FALSE, RootRecord, <<Attr("bitmap")>>)
CutOff(num, room) == Raw(num, FALSE, 0, <<Name(num, 2, 1), [Data(1) EXCEPT !.room = room]>>)

SlotChoices ==
  << {Empty, Dir(1, 4), ListFile(1, 2), Extension(1, 3, 2), CutOff(1, "short"), CutOff(1, "edge")},
     {Dir(2, 2)},
     {Dir(3, 2), Dir(3, 1), ListFile(3, 1), Extension(3, 1, 2), Deleted(Dir(3, 2)), Torn(Dir(3, 2))},
     {Dir(4, 3), Dir(4, 6), Dir(4, 4), Extension(4, 1, 3)},
     {File(5, 4), BitmapHost(5)},
     {Empty, BadName(6)} >>

(* NTFS moves attributes only out of a record that has an attribute list. *)
ListPrecedes(t) ==
  \A x \in DOMAIN t : t[x].base # 0 /\ t[x].sig =>
    LET b == t[t[x].base] IN b.dir \/ b.base # 0 \/ ~b.in_use \/ b.attrs[1].type = "list"

(* Of the tables with a record cut off or with a $BITMAP, only some. *)
CutOffAtStart(t) == t[1].sig /\ \E a \in ToSet(t[1].attrs) : a.room # "whole"
MCTables ==
  {t \in {<<a, b, c, d, e, f>> : a \in SlotChoices[1], b \in SlotChoices[2],
            c \in SlotChoices[3], d \in SlotChoices[4], e \in SlotChoices[5],
            f \in SlotChoices[6]} :
     ListPrecedes(t) /\ (CutOffAtStart(t) => t[3].torn)
       /\ (t[5] # File(5, 4) => ~t[3].in_use /\ t[6] = Empty)}

(* The run list that describes a layout. *)
RunsOf(layout) ==
  [i \in DOMAIN layout |->
     [form |-> "ok", length |-> layout[i][2],
      delta |-> IF i = 1 THEN layout[1][1] ELSE layout[i][1] - layout[i - 1][1]]]
Volume(cluster, sector, layout, valid) ==
  [boot |-> "ntfs", recordSize |-> RecordSectors, cluster |-> cluster, sector |-> sector,
   layout |-> layout, written |-> valid, used |-> {},
   record0 |-> [sig |-> TRUE, torn |-> FALSE, attrs |-> <<>>, list |-> <<>>, spilled |-> FALSE,
                data |-> <<[resident |-> FALSE, runs |-> RunsOf(layout), valid |-> valid]>>]]

Whole == Volume(1, 1, << <<4, 12>> >>, Unknown)
Cut == Volume(1, 1, << <<9, 5>>, <<2, 6>> >>, Unknown)
Fragments == Volume(2, 1, << <<7, 2>>, <<2, 4>> >>, 10)
Large == Volume(4, 2, << <<3, 1>>, <<1, 2>> >>, 10)
Refused == {[Whole EXCEPT !.boot = "other"], [Whole EXCEPT !.recordSize = 4, !.layout = <<>>],
            [Whole EXCEPT !.record0.torn = TRUE], [Whole EXCEPT !.record0.data[1].resident = TRUE],
            [Large EXCEPT !.record0.data[1].runs[2].form = "sparse"]}

BitmapList == <<[type |-> "data", vcn |-> 0, record |-> 1],
                [type |-> "bitmap", vcn |-> 0, record |-> 5]>>

MCVolumeOf(t) ==
  LET used == {r \in DOMAIN t : t[r].sig /\ t[r].in_use}
  IN {Whole, [Fragments EXCEPT !.used = used, !.record0.attrs = <<Attr("bitmap")>>],
      [Large EXCEPT !.used = used, !.record0.list = BitmapList]}
       \cup (IF t[6].sig THEN {} ELSE {Cut})
       \cup (IF t[1] = Empty /\ t[3] = Dir(3, 1) THEN Refused ELSE {})

(* A table of which two thirds are described by record 0 and the rest by   *)
(* another record.  It begins with a corrupt record; of the sound files one *)
(* lies in the first part and one beyond it.                                *)
PartialTables == {<<CutOff(1, "edge"), Dir(2, 2), File(3, 2), Dir(4, 2), File(5, 2), Empty>>}
PartialVolume(t) ==
  LET both == Volume(2, 1, << <<7, 4>>, <<2, 2>> >>, Unknown)
  IN {[both EXCEPT !.record0.data[1].runs = SubSeq(@, 1, 1), !.record0.spilled = TRUE]}
=============================================================================
