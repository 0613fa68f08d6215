-------------------------- MODULE MCCatalogService --------------------------
(***************************************************************************)
(* A small catalog for CatalogService: a root, a directory with a          *)
(* directory in it, a record that makes the two a cycle, an orphan, and    *)
(* files with equal sizes, equal names but for case, quotes and            *)
(* separators in their names, two names of one file and an unknown parent. *)
(***************************************************************************)
EXTENDS CatalogService

AnyName == Permutations(Pids) \cup Permutations(Exporters)

MCAlphabet == <<".", ",", "?", "*", "\"", "TAB", "\\", "C:", "D:", "WinBlaze:", "Multiple roots",
                "A", "B", "X", "a", "b", "q", "u", "x">>
MCCharRank == [c \in SeqSet(MCAlphabet) |-> CHOOSE i \in 1 .. Len(MCAlphabet) : MCAlphabet[i] = c]
MCLowerCase == [c \in {"A", "B", "X"} |-> CASE c = "A" -> "a" [] c = "B" -> "b" [] c = "X" -> "x"]
MCNumerals == <<"0", "1", "2", "3", "4", "5", "6", "7", "8", "9", "10", "11", "12", "13", "14",
                "15", "16", "17", "18">>
MCDrives == {"C:", "D:"}
MCMultiRoot == <<"WinBlaze:", "\\", "Multiple roots">>
MCLegacyTimes == 12 .. 18
MCLiveOwner == <<"o", ",", "\"">>

Root  == <<"C:", "\\">>
PathA == <<"C:", "\\", "a">>
PathB == <<"C:", "\\", "a", "\\", "b">>

MCDirRecs ==
  {[id |-> 5, parent |-> NoId, name |-> Root, path |-> Root],
   [id |-> 7, parent |-> 5, name |-> <<"a">>, path |-> PathA],
   [id |-> 7, parent |-> 8, name |-> <<"a">>, path |-> PathA],
   [id |-> 8, parent |-> 7, name |-> <<"b">>, path |-> PathB]}

File(id, parent, name, size, alloc, modified, attrs, inode) ==
  [id |-> id, parent |-> parent, name |-> name, path |-> << >>, size |-> size, alloc |-> alloc,
   modified |-> modified, attrs |-> attrs, inode |-> inode]

MCFileRecs ==
  {File(0, 7, <<"q", "\"", ",", ".", "x">>, 1, 2, 3, "ro", 1),
   File(1, 8, <<"A", ".", "x">>, 3, 4, NoTime, "ar", 2),
   File(1, 5, <<"a", ".", "x">>, 2, 2, 5, "ar", 2),
   File(9, 5, <<"x", "TAB">>, 2, 2, 0, "ar", 3)}

MCOtherScans ==
  {Build(<<[id |-> 5, parent |-> NoId, name |-> <<"D:", "\\">>, path |-> <<"D:", "\\">>]>>,
         <<File(3, 5, <<"b">>, 3, 0, 1, "ar", 2), File(4, 5, <<"a">>, 1, 4, 1, "ar", 2)>>),
   Build(<<[id |-> 5, parent |-> NoId, name |-> <<"a">>, path |-> PathA]>>, << >>)}

MCViews == {[kind |-> "children", arg |-> 5], [kind |-> "children", arg |-> 7],
            [kind |-> "largest", arg |-> 0],
            [kind |-> "search", arg |-> 1], [kind |-> "search", arg |-> 2],
            [kind |-> "query", arg |-> 1], [kind |-> "query", arg |-> 2],
            [kind |-> "cost", arg |-> 1]}

AnySearch == [pattern |-> << >>, mode |-> "contains", sort |-> "name", descending |-> FALSE,
              minLogical |-> {}, maxLogical |-> {}, minAlloc |-> {}, maxAlloc |-> {},
              after |-> {}, before |-> {}, extensions |-> {}, dirs |-> TRUE, files |-> TRUE]

MCSearches ==
  <<[AnySearch EXCEPT !.sort = "logical", !.descending = TRUE, !.minAlloc = {1}],
    [AnySearch EXCEPT !.pattern = <<"A">>, !.after = {-1}, !.before = {2}, !.sort = "modified"]>>

AnyQuery == [text |-> {}, mode |-> "contains", sort |-> "name", descending |-> FALSE,
             minSize |-> {}, maxSize |-> {}, after |-> {}, before |-> {}, extensions |-> << >>,
             files |-> TRUE, dirs |-> TRUE]

MCQueries ==
  <<[AnyQuery EXCEPT !.descending = TRUE, !.text = {<<"a">>}],
    [AnyQuery EXCEPT !.extensions = <<<<"b">>, <<"q">>, <<"X">>>>, !.sort = "path"]>>

MCFilters == {NoFilter,
              [NoFilter EXCEPT !.all = FALSE, !.patterns = {<<"*", "a", "*", "?">>, <<"q", "*", "x">>}],
              [NoFilter EXCEPT !.all = FALSE, !.min = {2}]}

MCPolicies == <<[now |-> 4, warm |-> 1, cold |-> 2]>>

Cell(t) == <<t>>
MCForeignDocs ==
  LET stat == << <<"Name">>, <<"Owner">>, <<"Files">>, <<"Folders">>, <<"Logical Size">>,
                 <<"Physical Size">>, <<"Attributes">>, <<"Last Change">>,
                 <<"WinDirStat Attributes">>, <<"Index">> >>
      wiz  == << <<"File Name">>, <<"Size">>, <<"Allocated">>, <<"Modified">>, <<"Attributes">>,
                 <<"Files">>, <<"Folders">> >>
      n(k) == Numeral(k)
      file == PathA \o <<"\\", "x">>
  IN {[text |-> CsvText(<<stat, <<PathA, << >>, n(1), n(0), n(2), n(3), n(0), n(4), n(4), n(1)>>,
                          <<file, <<"u">>, n(0), n(0), n(2), n(3), n(0), n(4), n(1), n(1)>> >>),
       delimiter |-> ",", zone |-> "local"],
      [text |-> CsvText(<<[i \in 1 .. 9 |-> IF i = 8 THEN <<"WinDirStat Attributes">> ELSE <<"?">>],
                          <<PathA, n(1), n(0), n(2), n(3), n(0), n(4), n(4), n(1)>>,
                          <<file, n(0), n(0), n(2), n(3), n(0), n(4), n(1), n(1)>> >>),
       delimiter |-> ",", zone |-> "local"],
      [text |-> TabText(CsvText(<<wiz, <<PathA \o <<"\\">>, n(2), n(3), n(4), n(0), n(1), n(0)>>,
                                  <<file, n(2), n(3), n(4), n(1), n(0), n(0)>> >>)),
       delimiter |-> "TAB", zone |-> "utc"],
      [text |-> CsvText(<<<< <<"Generated by WizTree">> >>, wiz, <<PathA, n(2), n(3), n(3), n(16), n(1), n(0)>>,
                          <<file, n(2), n(3), n(3), n(1), n(0), n(0)>> >>),
       delimiter |-> ",", zone |-> "local"]}
MCForeignTruth == {<<PathA \o <<"\\", "x">>, 2, 3, <<4>>, "ar">>}
MCYears == {1601, 1700, 1900, 1970, 2000, 2023, 2024, 2100, 9998}
=============================================================================
