----------------------------- MODULE CatalogText ----------------------------
(***************************************************************************)
(* A catalog as text: the exports (comma or tab separated, detailed, JSON, *)
(* filtered) and the import that rebuilds a catalog from one of them or    *)
(* from the exports of WinDirStat and WizTree.                             *)
(*                                                                         *)
(* A text is a sequence of characters; a drive, a caption and a number are *)
(* one character each (numbers are written with one numeral per value).    *)
(* Of the seven detail columns two are kept: the attributes and the owner; *)
(* the others are carried in the same way.  A calendar date in a foreign   *)
(* export stands for its seconds, which utc_date computes.                 *)
(***************************************************************************)
EXTENDS CatalogSearch

CONSTANTS
  Numerals,       \* the character of each number, from 0
  Drives,         \* drives, as "C:"
  MultiRoot,      \* path of the root above several scanned roots
  LegacyTimes,    \* numbers that only old exports hold as dates: file times
  LocalOffset,    \* seconds by which local time is behind UTC
  Archive,        \* attributes of a file whose export has none
  Linked,         \* the files, by their number on the volume, with several names
  LiveOwner       \* the owner the file system tells, empty when it tells none

MaxNumber == Len(Numerals) - 1

Numeral(n) == IF n < 0 THEN <<"-", Numerals[1 - n]>> ELSE <<Numerals[n + 1]>>

NumeralOf(c) == CHOOSE n \in 0 .. MaxNumber : Numerals[n + 1] = c

IsNumber(text) == Len(text) = 1 /\ \E n \in 0 .. MaxNumber : Numerals[n + 1] = text[1]

IsSigned(text) == IsNumber(text) \/ (Len(text) = 2 /\ text[1] = "-" /\ IsNumber(Tail(text)))

NumberIn(text) == IF text[1] = "-" THEN 0 - NumeralOf(text[2]) ELSE NumeralOf(text[1])

TimeText(ticks) == IF ticks = NoTime THEN << >> ELSE Numeral(unix_seconds(ticks))

-----------------------------------------------------------------------------
(* Filters of an export. *)

\* Matching with one remembered star: on a mismatch the star takes one more.
RECURSIVE WildcardFrom(_, _, _, _, _, _)
WildcardFrom(p, n, pi, ni, star, retry) ==
  IF ni > Len(n) THEN \A i \in pi .. Len(p) : p[i] = "*"
  ELSE IF pi <= Len(p) /\ (p[pi] = "?" \/ p[pi] = n[ni])
       THEN WildcardFrom(p, n, pi + 1, ni + 1, star, retry)
  ELSE IF pi <= Len(p) /\ p[pi] = "*" THEN WildcardFrom(p, n, pi + 1, ni, pi, ni)
  ELSE star # 0 /\ WildcardFrom(p, n, star + 1, retry + 1, star, retry + 1)

unicode_wildcard(p, n) == WildcardFrom(Lower(p), Lower(n), 1, 1, 0, 0)

\* What a pattern means: a star stands for any run, a question mark for one.
RECURSIVE Means(_, _)
Means(p, n) ==
  IF p = << >> THEN n = << >>
  ELSE IF Head(p) = "*" THEN \E i \in 0 .. Len(n) : Means(Tail(p), SubSeq(n, i + 1, Len(n)))
  ELSE n # << >> /\ Head(p) \in {"?", Head(n)} /\ Means(Tail(p), Tail(n))

NoFilter == [patterns |-> {}, min |-> {}, max |-> {}, after |-> {}, before |-> {}, all |-> TRUE]

FilterValid(filter) ==
  /\ ~Reversed(filter.min, filter.max) /\ ~Reversed(filter.after, filter.before)
  /\ \A p \in filter.patterns : p # << >> /\ \A i \in 1 .. Len(p) : p[i] \notin {"\\", "/", ":", ";"}

\* Both time bounds are inclusive in an export.
FilterMatches(filter, file) ==
  /\ \A min \in filter.min : file.size >= min
  /\ \A max \in filter.max : file.size <= max
  /\ \A min \in filter.after : file.modified # NoTime /\ unix_seconds(file.modified) >= min
  /\ \A max \in filter.before : file.modified # NoTime /\ unix_seconds(file.modified) <= max
  /\ filter.patterns # {} => \E p \in filter.patterns : unicode_wildcard(p, file.name)

-----------------------------------------------------------------------------
(* Writing. *)

PlainHeader == <<"Path", "Kind", "LogicalBytes", "AllocatedBytes", "Files", "Directories",
                 "ModifiedUnixSeconds">>
DetailHeader == PlainHeader \o <<"Attributes", "Owner">>

Captions(header) == [i \in 1 .. Len(header) |-> <<header[i]>>]

\* The root first, then the other directories in the order of their ids.
ExportedDirs(tree) ==
  IF tree.root = 0 THEN [d \in 1 .. Len(tree.dirs) |-> d]
  ELSE <<tree.root>> \o SelectSeq([d \in 1 .. Len(tree.dirs) |-> d], LAMBDA d : d # tree.root)

DirCells(tree, d) ==
  LET sum == tree.rollup[d] IN
    <<tree.dirs[d].path, <<"Directory">>, Numeral(sum.logical), Numeral(sum.physical),
      Numeral(sum.files), Numeral(sum.items - sum.files), TimeText(sum.newest)>>

FileCells(tree, file) ==
  <<file_display_path(tree, file), <<"File">>, Numeral(file.size), Numeral(file.alloc),
    Numeral(0), Numeral(0), TimeText(file.modified)>>

\* The columns a detailed export adds: none for a directory.  An owner kept
\* from an import goes before the one the file system tells.
DirDetail == << << >>, << >> >>
export_file_metadata(tree, file, live) ==
  IF file.id \in DOMAIN tree.metadata THEN tree.metadata[file.id] ELSE live
FileDetail(tree, file, live) == << <<file.attrs>>, export_file_metadata(tree, file, live) >>

write_csv_selected(tree, filter) ==
  <<Captions(PlainHeader)>>
    \o (IF filter.all
        THEN [i \in 1 .. Len(tree.dirs) |-> DirCells(tree, ExportedDirs(tree)[i])]
        ELSE << >>)
    \o LET files == SelectSeq(tree.files, LAMBDA f : FilterMatches(filter, f))
       IN [i \in 1 .. Len(files) |-> FileCells(tree, files[i])]

write_csv_with_metadata(tree, live) ==
  <<Captions(DetailHeader)>>
    \o [i \in 1 .. Len(tree.dirs) |-> DirCells(tree, ExportedDirs(tree)[i]) \o DirDetail]
    \o [i \in 1 .. Len(tree.files) |->
          FileCells(tree, tree.files[i]) \o FileDetail(tree, tree.files[i], live)]

\* Mutant: quotes are written as they are.
Unescaped(text) == text

\* Quotes inside a quoted field are doubled.
Escaped(text) ==
  FlattenSeq([i \in 1 .. Len(text) |-> IF text[i] = "\"" THEN <<"\"", "\"">> ELSE <<text[i]>>])

Quoted(text) == <<"\"">> \o Escaped(text) \o <<"\"">>

\* Paths and owners are quoted, the other cells are not; the header is bare.
RowText(cells, isHeader) ==
  LET shown(i) == IF ~isHeader /\ (i = 1 \/ (i = 9 /\ cells[i] # << >>))
                  THEN Quoted(cells[i]) ELSE cells[i]
  IN FlattenSeq([i \in 1 .. Len(cells) |->
       IF i = 1 THEN shown(i) ELSE <<",">> \o shown(i)]) \o <<"CR", "LF">>

CsvText(table) == FlattenSeq([i \in 1 .. Len(table) |-> RowText(table[i], i = 1)])

\* write_tsv: a comma outside quotes becomes a tab.
TabText(text) ==
  LET outside(i) == Cardinality({j \in 1 .. i - 1 : text[j] = "\""}) % 2 = 0
  IN [i \in 1 .. Len(text) |-> IF text[i] = "," /\ outside(i) THEN "TAB" ELSE text[i]]

-----------------------------------------------------------------------------
(* Reading separated text. *)

ParserStart == [quoted |-> FALSE, closed |-> FALSE, skip |-> FALSE, bad |-> FALSE,
                field |-> << >>, row |-> << >>, rows |-> << >>]

EndField(st) == [st EXCEPT !.row = Append(@, st.field), !.field = << >>, !.closed = FALSE]

\* A row of empty fields is dropped.
EndRow(st) ==
  LET full == EndField(st) IN
    [full EXCEPT !.row = << >>,
                 !.rows = IF \E i \in 1 .. Len(full.row) : full.row[i] # << >>
                          THEN Append(@, full.row) ELSE @]

ParseChar(st, ch, nextCh, delimiter) ==
  CASE st.bad -> st
    [] st.skip -> [st EXCEPT !.skip = FALSE]
    [] st.quoted /\ ch = "\"" /\ nextCh = "\"" ->
         [st EXCEPT !.field = Append(@, "\""), !.skip = TRUE]
    [] st.quoted /\ ch = "\"" /\ nextCh # "\"" -> [st EXCEPT !.quoted = FALSE, !.closed = TRUE]
    [] st.quoted /\ ch # "\"" -> [st EXCEPT !.field = Append(@, ch)]
    [] ~st.quoted /\ ch = "\"" ->
         IF st.field = << >> /\ ~st.closed THEN [st EXCEPT !.quoted = TRUE]
         ELSE [st EXCEPT !.bad = TRUE]
    [] ~st.quoted /\ ch = delimiter -> EndField(st)
    [] ~st.quoted /\ ch = "LF" -> EndRow(st)
    [] ~st.quoted /\ ch = "CR" /\ nextCh = "LF" -> st
    [] OTHER -> IF st.closed THEN [st EXCEPT !.bad = TRUE] ELSE [st EXCEPT !.field = Append(@, ch)]

\* The parser over text[from .. to], in halves: the end of the first is the
\* start of the second.
RECURSIVE ParseSpan(_, _, _, _, _)
ParseSpan(st, text, from, to, delimiter) ==
  CASE from > to -> st
    [] from = to -> ParseChar(st, text[from], IF from < Len(text) THEN text[from + 1] ELSE "end",
                              delimiter)
    [] OTHER -> LET half == (from + to) \div 2 IN
         CHOOSE end \in {ParseSpan(mid, text, half + 1, to, delimiter) :
                           mid \in {ParseSpan(st, text, from, half, delimiter)}} : TRUE

RowsAtEnd(st) ==
  [ok |-> ~st.bad /\ ~st.quoted,
   rows |-> IF st.field # << >> \/ st.row # << >> \/ st.closed
            THEN Append(st.rows, Append(st.row, st.field)) ELSE st.rows]

ParseRows(text, delimiter) == RowsAtEnd(ParseSpan(ParserStart, text, 1, Len(text), delimiter))
=============================================================================
