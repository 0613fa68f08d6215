------------------------------ MODULE MftRecord ------------------------------
(***************************************************************************)
(* Records of the NTFS master file table as WinBlaze.Scanner parses them   *)
(* (ntfs.rs).  A record is two sectors long; a sector of the table is its  *)
(* number in the table, counted from 0, so that record r holds the sectors *)
(* 2r-2 and 2r-1.  A sector that belongs to no record is Blank.            *)
(*                                                                         *)
(* A raw record has the fields the parser reads: sig and in_use, the check *)
(* bytes (torn), the record number it claims (num), the base record of an  *)
(* extension (0 if it is none) and its attributes in the order on disk.    *)
(* An attribute's room is "whole", or tells how an attribute cut off by    *)
(* the end of a corrupt record is read: "short" when a checked read fails, *)
(* "edge" when not even its ninth byte is there.                           *)
(***************************************************************************)
EXTENDS Integers, Sequences, SequencesExt, FiniteSetsExt

CONSTANTS
  RootRecord,    (* NTFS_ROOT_RECORD                                        *)
  ParallelMin    (* records below which a batch is not divided (2048)       *)

Blank == -1
NoName == [ns |-> -1]
RecordSectors == 2

namespace_rank(ns) == CASE ns \in {1, 3} -> 2 [] ns = 0 -> 1 [] OTHER -> 0

(* What the attribute loop of parse_record has gathered so far. *)
Nothing == [name |-> NoName, size |-> 0, alloc |-> 0, list |-> FALSE, out |-> "go"]

(* A name that is cut or is no UTF-16 cannot be parsed. *)
parse_file_name(a) == a.value \notin {"cut", "not UTF-16"}

NameAttribute(p, a) ==
  CASE a.room = "short"        -> [p EXCEPT !.out = "error"]
    [] a.value = "beyond"      -> p
    [] ~parse_file_name(a)     -> [p EXCEPT !.out = "none"]
    [] p.name # NoName /\ namespace_rank(a.ns) < namespace_rank(p.name.ns) -> p
    [] OTHER                -> [p EXCEPT !.name = a]

DataAttribute(p, a) ==
  CASE a.room = "short"     -> [p EXCEPT !.out = "error"]
    [] a.resident           -> [p EXCEPT !.size = a.size, !.alloc = a.size]
    [] a.vcn = 0            -> [p EXCEPT !.size = a.size, !.alloc = a.alloc]
    [] OTHER                -> p

Attribute(p, a) ==
  CASE a.room = "edge"                   -> [p EXCEPT !.out = "panic"]
    [] a.type = "list"                   -> [p EXCEPT !.list = TRUE]
    [] a.type = "name" /\ a.resident     -> NameAttribute(p, a)
    [] a.type = "data" /\ ~a.named       -> DataAttribute(p, a)
    [] OTHER                             -> p

(* The loop ends early once a long name and what else is wanted are known. *)
Enough(raw, p) ==
  /\ raw.base = 0
  /\ p.name # NoName /\ namespace_rank(p.name.ns) = 2
  /\ raw.dir \/ p.size # 0 \/ p.alloc # 0

parse_record(raw) ==
  LET step(p, a) ==
        IF p.out # "go" \/ Enough(raw, p) THEN p ELSE Attribute(p, a)
      p == IF raw.sig /\ raw.in_use THEN FoldLeft(step, Nothing, raw.attrs)
                                    ELSE [Nothing EXCEPT !.out = "none"]
  IN CASE p.out # "go" -> [kind |-> p.out]
       [] raw.base # 0 /\ (p.size # 0 \/ p.alloc # 0) ->
            [kind |-> "extension", base |-> raw.base, size |-> p.size, alloc |-> p.alloc]
       [] raw.base # 0 \/ p.name = NoName -> [kind |-> "none"]
       [] OTHER ->
            [kind |-> "entry", id |-> raw.num, parent |-> p.name.parent,
             name |-> p.name.text, dir |-> raw.dir, list |-> p.list,
             size |-> p.size, alloc |-> p.alloc]

-----------------------------------------------------------------------------
(* A batch is a sequence of sectors.  Its records are taken pairwise; one  *)
(* without a signature, or whose check bytes differ, is passed over.       *)

apply_record_fixups(table, first, second) ==
  second = first + 1 /\ ~table[(first \div RecordSectors) + 1].torn

Outcome(table, first, second) ==
  IF /\ first # Blank /\ first % RecordSectors = 0
     /\ table[(first \div RecordSectors) + 1].sig
     /\ apply_record_fixups(table, first, second)
  THEN parse_record(table[(first \div RecordSectors) + 1])
  ELSE [kind |-> "none"]

Parsed(entries, extensions) ==
  [out |-> "ok", entries |-> entries, extensions |-> extensions]

parse_record_range(table, batch) ==
  LET step(acc, i) ==
        LET o == Outcome(table, batch[2 * i - 1], batch[2 * i]) IN
        CASE acc.out # "ok"               -> acc
          [] o.kind \in {"error", "panic"} -> [acc EXCEPT !.out = o.kind]
          [] o.kind = "entry"             -> [acc EXCEPT !.entries = Append(@, o)]
          [] o.kind = "extension"         -> [acc EXCEPT !.extensions = Append(@, o)]
          [] OTHER                        -> acc
  IN FoldLeft(step, Parsed(<<>>, <<>>), [i \in 1..(Len(batch) \div RecordSectors) |-> i])

CeilDiv(a, b) == (a + b - 1) \div b

(* The slices split_at_mut hands to the workers. *)
Chunks(batch, workers) ==
  LET count == Len(batch) \div RecordSectors
      size == CeilDiv(count, workers) * RecordSectors
      used == CeilDiv(count * RecordSectors, size)
  IN [w \in 1..used |->
        SubSeq(batch, (w - 1) * size + 1, IF w = used THEN count * RecordSectors ELSE w * size)]

(* The workers' results are joined in order; a worker that panics is an error. *)
Joined(table, chunks) ==
  LET join(acc, chunk) ==
        LET r == parse_record_range(table, chunk) IN
        CASE acc.out # "ok" -> acc
          [] r.out # "ok"   -> [acc EXCEPT !.out = "error"]
          [] OTHER -> Parsed(acc.entries \o r.entries, acc.extensions \o r.extensions)
  IN FoldLeft(join, Parsed(<<>>, <<>>), chunks)

fixup_and_parse_batch(table, batch, workers) ==
  IF workers <= 1 \/ Len(batch) \div RecordSectors < ParallelMin
  THEN parse_record_range(table, batch)
  ELSE Joined(table, Chunks(batch, workers))

=============================================================================
