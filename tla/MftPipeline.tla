----------------------------- MODULE MftPipeline -----------------------------
(***************************************************************************)
(* The fast scan of WinBlaze.Scanner (ntfs.rs, stream_ntfs_entries): a     *)
(* reader thread fills pooled blocks from the volume, a parser thread      *)
(* turns them into records, and the scan thread turns those into events.   *)
(* Blocks and parsed batches travel over channels of two places; a buffer  *)
(* goes back to the pool when its block is parsed.                         *)
(*                                                                         *)
(* The same table is also read at once (enumerate_ntfs_volume_parallel)    *)
(* and from a dump file (open_mft_dump, read_mft_dump): mode says which.   *)
(***************************************************************************)
EXTENDS MftStream

CONSTANTS
  Tables,          (* the tables that may be found: sequences of raw records *)
  VolumeOf(_),     (* the volumes a table may lie on                         *)
  Modes,           (* how it is read: "stream", "batch", "dump"              *)
  WorkerCounts,    (* worker_count of the machine                            *)
  ReadSizes,       (* buffer sizes read_to_end asks for                      *)
  RecordsPerRead,  (* records_per_read                                       *)
  Buffers,         (* pooled blocks (4)                                      *)
  ProgressDelta,   (* MFT_PROGRESS_RECORD_DELTA                              *)
  MayFail          (* whether the device may fail                            *)

ChannelSize == 2
BlockLen == RecordsPerRead * RecordSectors

VARIABLES
  mode, table, volume, workers, (* chosen once                               *)
  extents,             (* of the table, as opened                            *)
  rd,                  (* VolumeMftReader                                    *)
  reader, buffer, filled,  (* reader thread: its state and block in hand     *)
  pool,                (* buffers free for reading                           *)
  blocks,              (* channel from reader to parser                      *)
  parser, carry, processed, batch,  (* parser thread; batch is what it sends *)
  parsed,              (* channel from parser to the scan thread             *)
  scan,                (* state of the scan thread                           *)
  st,                  (* NtfsStreamState                                    *)
  progress,            (* completed_items reported                           *)
  bytes,               (* what read_to_end has gathered                      *)
  result               (* what the scan thread returns                       *)

source == <<mode, table, volume, workers>>
readerVars == <<rd, reader, buffer, filled>>
parserVars == <<parser, carry, processed, batch>>
scanVars == <<scan, st, progress, result>>
channels == <<pool, blocks, parsed>>
vars == <<source, extents, readerVars, parserVars, scanVars, channels, bytes>>

Init ==
  /\ mode \in Modes /\ table \in Tables /\ volume \in VolumeOf(table)
  /\ workers \in WorkerCounts
  /\ extents = <<>> /\ rd = Start
  /\ reader = "off" /\ buffer = <<>> /\ filled = 0
  /\ pool = [i \in 1..Buffers |-> [u \in 1..BlockLen |-> Blank]]
  /\ blocks = <<>> /\ parsed = <<>>
  /\ parser = "off" /\ carry = <<>> /\ processed = 0 /\ batch = <<>>
  /\ scan = "open" /\ st = NtfsStreamState /\ progress = <<>>
  /\ bytes = <<>> /\ result = "none"

total_records == LET n == TotalUnits(extents) \div RecordSectors IN IF n = 0 THEN 1 ELSE n

-----------------------------------------------------------------------------
Open ==
  /\ scan = "open"
  /\ \E o \in {IF mode = "dump" THEN open_mft_dump(volume) ELSE open_mft_stream(table, volume)} :
        IF o.ok
        THEN /\ extents' = o.extents
             /\ scan' = IF mode = "stream" THEN "receive" ELSE "read"
             /\ reader' = IF mode = "stream" THEN "take" ELSE "off"
             /\ parser' = IF mode = "stream" THEN "receive" ELSE "off"
             /\ UNCHANGED result
        ELSE /\ scan' = "over" /\ result' = "error"
             /\ UNCHANGED <<extents, reader, parser>>
  /\ UNCHANGED <<source, rd, buffer, filled, carry, processed, batch, st, progress, channels, bytes>>

(* The volume handle is refused (not elevated), and the metadata file too. *)
(* That file, were it opened, would be read as one extent like a dump; this*)
(* path is left out.                                                       *)
OpenFails ==
  /\ scan = "open" /\ MayFail
  /\ scan' = "over" /\ result' = "error"
  /\ UNCHANGED <<source, extents, readerVars, parserVars, st, progress, channels, bytes>>

-----------------------------------------------------------------------------
(* Reader thread. *)
(* Mutant: only a parser that ended of itself is noticed. *)
ParserDone == parser = "done"

ParserGone == parser \in {"done", "panicked"}

Take ==
  /\ reader = "take"
  /\ \/ /\ pool # <<>>
        /\ buffer' = Head(pool) /\ pool' = Tail(pool) /\ filled' = 0 /\ reader' = "fill"
     \/ /\ pool = <<>> /\ ParserGone
        /\ reader' = "done" /\ UNCHANGED <<buffer, pool, filled>>
  /\ UNCHANGED <<source, extents, rd, parserVars, scanVars, blocks, parsed, bytes>>

(* Mutant: a block is sent as soon as a read returned something. *)
FillOnce ==
  /\ reader = "fill"
  /\ LET r == ReadVolume(volume, extents, rd, BlockLen - filled) IN
     /\ rd' = r.rd /\ filled' = filled + Len(r.got)
     /\ buffer' = [u \in 1..BlockLen |->
                     IF u \in (filled + 1)..(filled + Len(r.got)) THEN r.got[u - filled] ELSE buffer[u]]
     /\ reader' = "send"
  /\ UNCHANGED <<source, extents, parserVars, scanVars, channels, bytes>>

(* One read of the loop that fills the block. *)
Fill ==
  /\ reader = "fill"
  /\ LET r == ReadVolume(volume, extents, rd, BlockLen - filled) IN
     /\ rd' = r.rd /\ filled' = filled + Len(r.got)
     /\ buffer' = [u \in 1..BlockLen |->
                     IF u \in (filled + 1)..(filled + Len(r.got)) THEN r.got[u - filled] ELSE buffer[u]]
     /\ reader' = IF r.got = <<>> \/ filled' = BlockLen THEN "send" ELSE "fill"
  /\ UNCHANGED <<source, extents, parserVars, scanVars, channels, bytes>>

FillFails ==
  /\ reader = "fill" /\ MayFail
  /\ reader' = "sendError" /\ buffer' = <<>>
  /\ UNCHANGED <<source, extents, rd, filled, parserVars, scanVars, channels, bytes>>

(* A full channel blocks; a parser that is gone ends the reader. *)
SendBlock ==
  /\ reader \in {"send", "sendError"}
  /\ \/ ParserGone /\ UNCHANGED blocks
     \/ /\ ~ParserGone /\ Len(blocks) < ChannelSize
        /\ blocks' = Append(blocks, [ok |-> reader = "send", block |-> buffer, filled |-> filled])
  /\ reader' = IF ParserGone \/ reader = "sendError" \/ filled < BlockLen THEN "done" ELSE "take"
  /\ buffer' = <<>>
  /\ UNCHANGED <<source, extents, rd, filled, parserVars, scanVars, pool, parsed, bytes>>

-----------------------------------------------------------------------------
(* Parser thread: one block, with what the last one left over, is parsed   *)
(* and its buffer recycled.  A panic ends the thread without a message.    *)

Stitched(block, count) == carry \o SubSeq(block, 1, count)

ParseBlock ==
  /\ parser = "receive" /\ blocks # <<>>
  /\ blocks' = Tail(blocks)
  /\ \E message \in {Head(blocks)} :
     \E all \in {IF message.ok THEN Stitched(message.block, message.filled) ELSE <<>>} :
     \E full \in {Len(all) \div RecordSectors} :
     \E r \in {fixup_and_parse_batch(table, SubSeq(all, 1, full * RecordSectors), workers)} :
       CASE ~message.ok ->
              /\ batch' = [out |-> "error"] /\ parser' = "send"
              /\ UNCHANGED <<carry, processed, pool>>
         [] message.ok /\ message.filled = 0 ->
              parser' = "done" /\ UNCHANGED <<batch, carry, processed, pool>>
         [] message.ok /\ message.filled > 0 /\ r.out = "panic" ->
              parser' = "panicked" /\ UNCHANGED <<batch, carry, processed, pool>>
         [] OTHER ->
              /\ carry' = SubSeq(all, full * RecordSectors + 1, Len(all))
              /\ pool' = Append(pool, message.block)
              /\ processed' = IF r.out = "ok" THEN processed + full ELSE processed
              /\ batch' = r @@ [processed |-> processed']
              /\ parser' = "send"
  /\ UNCHANGED <<source, extents, readerVars, scanVars, parsed, bytes>>

NoMoreBlocks ==
  /\ parser = "receive" /\ blocks = <<>> /\ reader = "done"
  /\ parser' = "done"
  /\ UNCHANGED <<source, extents, readerVars, carry, processed, batch, scanVars, channels, bytes>>

SendBatch ==
  /\ parser = "send" /\ batch # <<>>
  /\ Len(parsed) < ChannelSize
  /\ parsed' = Append(parsed, batch)
  /\ parser' = IF batch.out = "ok" THEN "receive" ELSE "done"
  /\ batch' = <<>>
  /\ UNCHANGED <<source, extents, readerVars, carry, processed, scanVars, pool, blocks, bytes>>

-----------------------------------------------------------------------------
(* Scan thread. *)

Ingest(s, m) == FoldLeft(ingest_extension, FoldLeft(ingest_entry, s, m.entries), m.extensions)

LastProgress == IF progress = <<>> THEN 0 ELSE Last(progress)

ProgressDue(count) == count >= total_records \/ count - LastProgress >= ProgressDelta

Receive ==
  /\ scan = "receive" /\ parsed # <<>>
  /\ parsed' = Tail(parsed)
  /\ LET m == Head(parsed) IN
     IF m.out = "ok"
     THEN /\ st' = Ingest(st, m)
          /\ progress' = IF ProgressDue(m.processed) THEN Append(progress, m.processed)
                                                     ELSE progress
          /\ UNCHANGED <<scan, result>>
     ELSE scan' = "join" /\ result' = "error" /\ UNCHANGED <<st, progress>>
  /\ UNCHANGED <<source, extents, readerVars, parserVars, pool, blocks, bytes>>

(* The parser hung up: whether it was done or panicked makes no difference *)
(* to the scan thread, which drops what join returns.                      *)
HungUp ==
  /\ scan = "receive" /\ parsed = <<>> /\ ParserGone
  /\ scan' = "join"
  /\ UNCHANGED <<source, extents, readerVars, parserVars, st, progress, result, channels, bytes>>

Join ==
  /\ scan = "join" /\ ParserGone /\ reader = "done"
  /\ scan' = "over"
  /\ IF result = "error" THEN UNCHANGED <<st, result>>
                         ELSE st' = finish(st) /\ result' = "ok"
  /\ UNCHANGED <<source, extents, readerVars, parserVars, progress, channels, bytes>>

-----------------------------------------------------------------------------
(* Reading the table at once: read_to_end with buffers of any size. *)
ReadToEnd(want) ==
  /\ scan = "read"
  /\ LET r == ReadVolume(volume, extents, rd, want) IN
     /\ rd' = r.rd /\ bytes' = bytes \o r.got
     /\ scan' = IF r.got = <<>> THEN "parse" ELSE "read"
  /\ UNCHANGED <<source, extents, reader, buffer, filled, parserVars, st, progress, result, channels>>

(* The rollup of parse_entries does not end when parents form a cycle. *)
Conclude(parsedAll) ==
  \E p \in {parsedAll} :
    IF p.out # "ok" THEN scan' = "over" /\ result' = p.out /\ UNCHANGED st
    ELSE \E all \in {parse_entries(p)} :
           IF all.endless THEN scan' = "looping" /\ UNCHANGED <<result, st>>
           ELSE scan' = "over" /\ result' = "ok" /\ st' = all @@ st

ParseAll ==
  /\ scan = "parse" /\ mode = "batch"
  /\ LET whole == SubSeq(bytes, 1, (Len(bytes) \div RecordSectors) * RecordSectors) IN
     Conclude(IF whole = <<>> THEN [out |-> "error"]
              ELSE IF workers <= 1 \/ Len(whole) < 2 * RecordSectors
                   THEN parse_record_range(table, whole)
                   ELSE Joined(table, Chunks(whole, workers)))
  /\ UNCHANGED <<source, extents, readerVars, parserVars, progress, channels, bytes>>

(* Mutant: a torn record of a dump is passed over, as in a scan. *)
NothingTorn(units) == {}

TornAt(units) ==
  {i \in 1..(Len(units) \div RecordSectors) :
     LET first == units[2 * i - 1] IN
     /\ first # Blank
     /\ table[(first \div RecordSectors) + 1].sig
     /\ ~apply_record_fixups(table, first, units[2 * i])}

(* read_mft_dump takes the file record by record and stops at the first    *)
(* that is wrong.  An empty slot is passed over; a torn or cut record, or  *)
(* no entry at all, rejects the file.  Records are of the supported size   *)
(* and have a signature unless they are empty: the checks for those are    *)
(* left out.                                                               *)
ReadDump ==
  /\ scan = "parse" /\ mode = "dump"
  /\ \E torn \in {TornAt(bytes)} :
     \E r \in {parse_record_range(table,
                 IF torn = {} THEN bytes ELSE SubSeq(bytes, 1, RecordSectors * (Min(torn) - 1)))} :
       Conclude(IF r.out = "ok" /\ (torn # {} \/ Len(bytes) % RecordSectors # 0 \/ r.entries = <<>>)
                THEN [out |-> "error"] ELSE r)
  /\ UNCHANGED <<source, extents, readerVars, parserVars, progress, channels, bytes>>

-----------------------------------------------------------------------------
ReaderStep == Take \/ Fill \/ FillFails \/ SendBlock
ParserStep == ParseBlock \/ NoMoreBlocks \/ SendBatch
ScanStep == Open \/ OpenFails \/ Receive \/ HungUp \/ Join
              \/ (\E want \in ReadSizes : ReadToEnd(want)) \/ ParseAll \/ ReadDump
Next == ReaderStep \/ ParserStep \/ ScanStep

(* When a thread has a step to take.  These are the enabling conditions of *)
(* the three steps, spelled out because TLC would parse the table again to *)
(* find them.                                                              *)
ReaderReady ==
  \/ reader = "take" /\ (pool # <<>> \/ ParserGone)
  \/ reader = "fill"
  \/ reader \in {"send", "sendError"} /\ (ParserGone \/ Len(blocks) < ChannelSize)
ParserReady ==
  \/ parser = "receive" /\ (blocks # <<>> \/ reader = "done")
  \/ parser = "send" /\ Len(parsed) < ChannelSize
ScanReady ==
  \/ scan \in {"open", "read", "parse"}
  \/ scan = "receive" /\ (parsed # <<>> \/ ParserGone)
  \/ scan = "join" /\ ParserGone /\ reader = "done"

(* Every thread runs as long as it can: one that stays ready moves on. *)
Fairness ==
  /\ []<>~ReaderReady \/ []<><<TRUE>>_readerVars
  /\ []<>~ParserReady \/ []<><<TRUE>>_parserVars
  /\ []<>~ScanReady \/ []<><<TRUE>>_<<scanVars, rd, bytes, parsed>>

Spec == Init /\ [][Next]_vars /\ Fairness

-----------------------------------------------------------------------------
(* What the table says, independent of any reading order. *)

Numbers == 1..Len(table)
Within(r) == LET valid == volume.record0.data[1].valid IN
             valid = Unknown \/ r * RecordSectors <= valid
Stored(r) == Within(r) /\ table[r].sig /\ table[r].in_use /\ ~table[r].torn
Attrs(r, type) == {a \in ToSet(table[r].attrs) : a.type = type}
Names(r) == {a \in Attrs(r, "name") : a.resident /\ a.value = "ok"}
Unnamed(r) == {a \in Attrs(r, "data") : ~a.named /\ (a.resident \/ a.vcn = 0)}
Live(r) == /\ Stored(r) /\ table[r].base = 0 /\ Names(r) # {}
           /\ \A a \in Attrs(r, "name") : parse_file_name(a)
LiveDirs == {r \in Numbers : Live(r) /\ table[r].dir} \cup {RootRecord}
LiveFiles == {r \in Numbers : Live(r) /\ ~table[r].dir}
Carriers(r) == {r} \cup {x \in Numbers : Stored(x) /\ table[x].base = r}
SizeOf(r) == Max({0} \cup UNION {{a.size : a \in Unnamed(x)} : x \in Carriers(r)})
AllocOf(r) == Max({0} \cup UNION {{IF a.resident THEN a.size ELSE a.alloc : a \in Unnamed(x)}
                                  : x \in Carriers(r)})
BestNames(r) == {a \in Names(r) :
                   \A b \in Names(r) : namespace_rank(b.ns) <= namespace_rank(a.ns)}
ParentsOf(r) == {a.parent : a \in BestNames(r)}

(* The directories whose parents lead somewhere: to the root, to a record  *)
(* that is no live directory or to one that is its own parent.             *)
Anchors == {RootRecord} \cup {r \in LiveDirs : \A p \in ParentsOf(r) : p = r \/ p \notin LiveDirs}
Anchored ==
  LET grow[n \in Nat] ==
        IF n = 0 THEN Anchors
        ELSE LET reached == grow[n - 1]
             IN reached \cup {r \in LiveDirs : ParentsOf(r) \subseteq reached}
  IN grow[Len(table)]

Events(kind) == {i \in DOMAIN st.events : st.events[i].kind = kind}
LastOf(kind, id) == st.events[Max({i \in Events(kind) : st.events[i].id = id})]
Emitted(kind) == {st.events[i].id : i \in Events(kind)}

(* The scan has an answer from a parser that reached the end of the table. *)
(* A scan whose parser panicked reports "ok", too: see PartialFallsBack.   *)
Answered == result = "ok" /\ parser # "panicked"

TypeOK ==
  /\ mode \in Modes /\ result \in {"none", "ok", "error", "panic"}
  /\ reader \in {"off", "take", "fill", "send", "sendError", "done"}
  /\ parser \in {"off", "receive", "send", "done", "panicked"}
  /\ scan \in {"open", "receive", "join", "read", "parse", "looping", "over"}
  /\ Len(blocks) <= ChannelSize /\ Len(parsed) <= ChannelSize
  /\ filled \in 0..BlockLen /\ Len(pool) <= Buffers /\ processed \in Nat

(* However the table is fragmented, cut, skipped over and divided into     *)
(* reads, blocks and worker slices, and wherever extension records lie:    *)
(* an answer holds every live file once, with its long name's parent and   *)
(* the sizes of the record that carries them.                              *)
FilesExact ==
  Answered =>
    /\ Emitted("file") = LiveFiles
    /\ \A r \in LiveFiles :
         LET f == LastOf("file", r) IN
         /\ f.size = SizeOf(r) /\ f.alloc = AllocOf(r)
         /\ \E a \in BestNames(r) : f.name = a.text /\ f.parent = a.parent

(* Every live directory is emitted exactly once, whatever its parent link  *)
(* is worth.                                                               *)
DirectoriesExact ==
  Answered => /\ Emitted("dir") = LiveDirs
              /\ Cardinality(Events("dir")) = Cardinality(LiveDirs)

(* Records come in any order, and yet a directory below another is emitted *)
(* after it, with its parent's path extended by its own name: no real path *)
(* is replaced by a makeshift one, not even below a lost directory.  Only  *)
(* a cycle of parents has none.                                            *)
RealPaths ==
  \A i \in Events("dir") :
    LET d == st.events[i] IN
    d.id \in Anchored \ Anchors =>
      \E j \in Events("dir") :
        /\ st.events[j].id = d.parent
        /\ j < i \/ mode # "stream"
        /\ \E a \in BestNames(d.id) : d.path = Append(st.events[j].path, a.text)

(* Nothing is invented, neither in an answer nor in what was emitted by a  *)
(* scan that fails or breaks off: only live records become files and       *)
(* directories, and a file has a name and the parent of its own record.    *)
NothingInvented ==
  /\ Emitted("dir") \subseteq LiveDirs
  /\ \A i \in Events("file") :
       LET f == st.events[i] IN
       /\ f.id \in LiveFiles
       /\ \E a \in BestNames(f.id) : f.name = a.text /\ f.parent = a.parent

(* The summary is the sum of what was emitted, corrections included. *)
SummaryExact ==
  Answered =>
    /\ st.files = Cardinality(LiveFiles) /\ st.directories = Cardinality(LiveDirs)
    /\ st.size = SumFunctionOnSet([r \in Numbers |-> SizeOf(r)], LiveFiles)
    /\ st.alloc = SumFunctionOnSet([r \in Numbers |-> AllocOf(r)], LiveFiles)

(* Progress grows, never passes the total, and has reached it when a table *)
(* of at least one record was read to its end.                             *)
ProgressExact ==
  /\ \A i \in DOMAIN progress : progress[i] <= total_records
  /\ \A i, j \in DOMAIN progress : i < j => progress[i] < progress[j]
  /\ mode = "stream" /\ Answered /\ TotalUnits(extents) >= RecordSectors
       => LastProgress = total_records

(* What was emitted is the table, with every channel inside its bound. *)
TableExact == TypeOK /\ FilesExact /\ DirectoriesExact /\ NothingInvented

(* What the host is told in numbers, while it reads and at the end. *)
TotalsExact == SummaryExact /\ ProgressExact

(* A torn record is passed over by a scan and rejects a dump. *)
TornDumpRejected ==
  mode = "dump" /\ result = "ok" =>
    \A r \in Numbers : Within(r) /\ table[r].sig => ~table[r].torn

(* The three threads of a streamed scan always come to an end, whichever   *)
(* of them fails first.                                                    *)
ScanEnds == mode = "stream" => <>(scan = "over")

(* A table that cannot be read whole falls back to the directory walk: one *)
(* whose run list spills into an attribute list ("not supported and falls  *)
(* back", read_mft_extents), and one whose parser panicked ("if NTFS       *)
(* enumeration fails, the controller ... falls back", SCANNER_STRATEGY.md).*)
PartialFallsBack ==
  scan = "over" /\ (volume.record0.spilled \/ parser = "panicked") => result = "error"

=============================================================================
