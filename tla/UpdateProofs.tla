----------------------------- MODULE UpdateProofs -----------------------------
(***************************************************************************)
(* Proofs, for any releases, any list of files and any number of retries   *)
(* and faults, that only verified bytes are installed and that versions    *)
(* mix at one place only.                                                  *)
(***************************************************************************)
EXTENDS Update, WellFoundedInduction, TLAPS

-----------------------------------------------------------------------------
(* Lemmas about the manifest. *)

LEMMA MinIsLeast ==
  ASSUME NEW S \in SUBSET Nat, S # {}
  PROVE  Min(S) \in S /\ \A y \in S : Min(S) <= y
<1> DEFINE R == OpToRel(<, Nat)
<1>1. PICK x \in S : \A y \in S : ~ (<<y, x>> \in R)
  <2>1. IsWellFoundedOn(R, Nat)
    BY NatLessThanWellFounded
  <2> HIDE DEF R
  <2> QED BY <2>1, WFMin
<1>2. \A y \in S : x <= y
  <2> SUFFICES ASSUME NEW y \in S PROVE x <= y
    OBVIOUS
  <2>1. ~(y < x)
    BY <1>1 DEF OpToRel
  <2> QED BY <2>1
<1> QED BY <1>2 DEF Min

Words == [quoted : BOOLEAN, text : STRING]

LEMMA FieldIsFound ==
  ASSUME NEW words \in Seq(Words), NEW field,
         NEW value \in parse_json_string_field(words, field)
  PROVE  \E j \in 1 .. Len(words) :
           /\ j + 2 <= Len(words)
           /\ words[j] = Quoted(field) /\ ~words[j + 1].quoted /\ words[j + 2] = Quoted(value)
           /\ \A k \in 1 .. j - 1 : words[k] # Quoted(field)
<1> DEFINE places == {i \in 1 .. Len(words) : words[i] = [quoted |-> TRUE, text |-> field]}
           j == Min(places)
<1>1. /\ places # {} /\ j + 2 <= Len(words)
      /\ words[j + 1] = [quoted |-> FALSE, text |-> ":"]
      /\ words[j + 2].quoted /\ value = words[j + 2].text
  BY DEF parse_json_string_field
<1>2. j \in places /\ \A k \in places : j <= k
  <2>1. places \in SUBSET Nat
    OBVIOUS
  <2> HIDE DEF places
  <2> QED BY <1>1, <2>1, MinIsLeast
<1>7. places \in SUBSET (1 .. Len(words)) /\ Len(words) \in Nat
  OBVIOUS
<1> HIDE DEF j, places
<1>3. j \in 1 .. Len(words) /\ words[j] = Quoted(field)
  BY <1>2 DEF Quoted, places
<1>4. \A k \in 1 .. j - 1 : words[k] # Quoted(field)
  <2> SUFFICES ASSUME NEW k \in 1 .. j - 1, words[k] = Quoted(field) PROVE FALSE
    OBVIOUS
  <2>1. j \in Nat /\ k \in 1 .. Len(words) /\ ~(j <= k)
    BY <1>3, <1>7
  <2>2. k \in places
    BY <2>1 DEF Quoted, places
  <2> QED BY <1>2, <2>1, <2>2
<1>5. ~words[j + 1].quoted
  BY <1>1
<1>6. words[j + 2] = Quoted(value)
  <2>1. words[j + 2] \in Words
    <3>1. j + 2 \in 1 .. Len(words)
      BY <1>1, <1>3, <1>7
    <3> QED BY <3>1
  <2> QED BY <1>1, <2>1 DEF Quoted, Words
<1> QED BY <1>1, <1>3, <1>4, <1>5, <1>6

(* A verdict of 1 means that the manifest lists the digest with the        *)
(* artifact itself (parse_manifest_sha256, hash_matches).                  *)
LEMMA VerifiedIsListed ==
  ASSUME NEW words \in Seq(Words), NEW kind, NEW digest,
         wb_verify_download(words, kind, digest) = 1
  PROVE  Lists(words, kind, digest) /\ digest # "blank"
<1> DEFINE marks == {i \in 1 .. Len(words) : words[i] = [quoted |-> TRUE, text |-> kind]}
           i == Min(marks)
           after == SubSeq(words, i + 1, Len(words))
           kinds == {k \in 1 .. Len(after) : after[k] = [quoted |-> TRUE, text |-> "kind"]}
           end == IF kinds = {} THEN Len(after) ELSE Min(kinds) - 1
           own == SubSeq(after, 1, end)
<1>1. parse_manifest_sha256(words, kind) = {digest}
  <2> DEFINE expected == parse_manifest_sha256(words, kind)
  <2>1. (IF expected = {} THEN 2 ELSE IF expected = {digest} THEN 1 ELSE 0) = 1
    BY DEF wb_verify_download
  <2> HIDE DEF expected
  <2>2. expected = {digest}
    BY <2>1
  <2> QED BY <2>2 DEF expected
<1>2. /\ marks # {} /\ digest \in parse_json_string_field(own, "sha256")
      /\ digest # "blank"
  BY <1>1 DEF parse_manifest_sha256
<1>3. i \in marks /\ \A k \in marks : i <= k
  <2>1. marks \in SUBSET Nat
    OBVIOUS
  <2> HIDE DEF marks
  <2> QED BY <1>2, <2>1, MinIsLeast
<1>4. i \in 1 .. Len(words) /\ words[i] = Quoted(kind)
  <2> HIDE DEF i
  <2> QED BY <1>3 DEF Quoted
<1>5. \A k \in 1 .. i - 1 : words[k] # Quoted(kind)
  <2> SUFFICES ASSUME NEW k \in 1 .. i - 1, words[k] = Quoted(kind) PROVE FALSE
    OBVIOUS
  <2> HIDE DEF i
  <2>1. i \in Nat /\ k \in 1 .. Len(words) /\ ~(i <= k)
    BY <1>4
  <2>2. k \in marks
    BY <2>1 DEF Quoted
  <2> QED BY <1>3, <2>1, <2>2
<1>6. Len(words) \in Nat
  OBVIOUS
<1>7. /\ after \in Seq(Words) /\ Len(after) = Len(words) - i
      /\ \A k \in 1 .. Len(after) : after[k] = words[i + k]
  <2> HIDE DEF i
  <2> QED BY <1>4, <1>6
<1>8. /\ end \in 0 .. Len(after)
      /\ \A k \in 1 .. end : after[k] # Quoted("kind")
  <2>1. Len(after) \in Nat
    BY <1>7
  <2>2. CASE kinds = {}
    <3>1. end = Len(after)
      BY <2>2
    <3>2. \A k \in 1 .. Len(after) : after[k] # [quoted |-> TRUE, text |-> "kind"]
      BY <2>2
    <3> HIDE DEF end, after, kinds
    <3> QED BY <2>1, <3>1, <3>2 DEF Quoted
  <2>3. CASE kinds # {}
    <3>1. Min(kinds) \in kinds /\ \A k \in kinds : Min(kinds) <= k
      <4>1. kinds \in SUBSET Nat
        OBVIOUS
      <4> HIDE DEF kinds
      <4> QED BY <2>3, <4>1, MinIsLeast
    <3> DEFINE m == Min(kinds)
    <3>2. end = m - 1
      BY <2>3
    <3>3. m \in 1 .. Len(after) /\ \A k \in kinds : m <= k
      BY <3>1
    <3> HIDE DEF m, end, after
    <3>4. ASSUME NEW k \in 1 .. end, after[k] = Quoted("kind") PROVE FALSE
      <4>1. k \in kinds /\ ~(m <= k)
        BY <2>1, <3>2, <3>3, <3>4 DEF Quoted
      <4> QED BY <3>3, <4>1
    <3>5. end \in 0 .. Len(after)
      BY <2>1, <3>2, <3>3
    <3>6. \A k \in 1 .. end : after[k] # Quoted("kind")
      BY <3>4
    <3> QED BY <3>5, <3>6
  <2> QED BY <2>2, <2>3
<1> HIDE DEF marks, i, end, kinds
<1>9. /\ own \in Seq(Words) /\ Len(own) = end
      /\ \A k \in 1 .. end : own[k] = words[i + k]
  <2>1. own \in Seq(Words) /\ Len(own) = end /\ \A k \in 1 .. end : own[k] = after[k]
    <3> HIDE DEF after
    <3> QED BY <1>7, <1>8
  <2> QED BY <1>7, <1>8, <2>1
<1> HIDE DEF own, after
<1>10. PICK n \in 1 .. Len(own) :
         /\ n + 2 <= Len(own)
         /\ own[n] = Quoted("sha256") /\ ~own[n + 1].quoted /\ own[n + 2] = Quoted(digest)
         /\ \A k \in 1 .. n - 1 : own[k] # Quoted("sha256")
  <2> HIDE DEF Quoted
  <2> QED BY <1>2, <1>9, FieldIsFound
<1> DEFINE j == i + n
<1>11. /\ j \in 1 .. Len(words) /\ i < j /\ j + 2 <= Len(words)
       /\ {n, n + 1, n + 2} \subseteq 1 .. end
       /\ i + (n + 1) = j + 1 /\ i + (n + 2) = j + 2
  BY <1>4, <1>6, <1>7, <1>8, <1>9, <1>10
<1>12. words[j] = Quoted("sha256") /\ ~words[j + 1].quoted /\ words[j + 2] = Quoted(digest)
  <2>1. own[n] = words[j] /\ own[n + 1] = words[j + 1] /\ own[n + 2] = words[j + 2]
    BY <1>9, <1>11
  <2> QED BY <1>10, <2>1
<1>13. ASSUME NEW k \in i + 1 .. j - 1
       PROVE  words[k] \notin {Quoted("kind"), Quoted("sha256")}
  <2> DEFINE at == k - i
  <2>1. at \in 1 .. n - 1 /\ at \in 1 .. end /\ at \in 1 .. Len(after) /\ i + at = k
    BY <1>4, <1>7, <1>8, <1>10, <1>11
  <2> HIDE DEF at
  <2>2. own[at] = words[k] /\ after[at] = words[k]
    BY <1>7, <1>9, <2>1
  <2> QED BY <1>8, <1>10, <2>1, <2>2
<1> HIDE DEF j
<1> QED BY <1>2, <1>4, <1>5, <1>11, <1>12, <1>13 DEF Lists

(* What is offered as newer is newer (is_newer, parse_version). *)
LEMMA OfferedIsNewer ==
  ASSUME NEW r \in Releases, is_newer(Current, r.tag)
  PROVE  Newer(r.tag, Current)
<1>1. PICK c \in parse_version(Current), n \in parse_version(r.tag) : TupleLess(c, n)
  BY DEF is_newer
<1>2. c = <<Part(Current, 1), Part(Current, 2), Part(Current, 3)>>
  BY <1>1 DEF parse_version, Part
<1>3. n = <<Part(r.tag, 1), Part(r.tag, 2), Part(r.tag, 3)>>
  BY <1>1 DEF parse_version, Part
<1>4. PICK i \in 1 .. 3 : c[i] < n[i] /\ \A j \in 1 .. i - 1 : c[j] = n[j]
  BY <1>1 DEF TupleLess
<1>5. \A k \in 1 .. 3 : c[k] = Part(Current, k) /\ n[k] = Part(r.tag, k)
  <2>1. c[1] = Part(Current, 1) /\ c[2] = Part(Current, 2) /\ c[3] = Part(Current, 3)
    BY <1>2
  <2>2. n[1] = Part(r.tag, 1) /\ n[2] = Part(r.tag, 2) /\ n[3] = Part(r.tag, 3)
    BY <1>3
  <2> QED BY <2>1, <2>2, SMTT(60)
<1>6. \A k \in 1 .. 3 : Part(Current, k) \in Int /\ Part(r.tag, k) \in Int
  BY UpdateAssumption, SMTT(60) DEF Part
<1>7. Part(r.tag, i) > Part(Current, i)
  BY <1>4, <1>5, <1>6
<1>8. \A j \in 1 .. i - 1 : Part(r.tag, j) = Part(Current, j)
  BY <1>4, <1>5
<1> QED BY <1>7, <1>8 DEF Newer

-----------------------------------------------------------------------------
(* The inductive invariant: what each step of the window and the helper    *)
(* has made sure of.                                                       *)

Started == {"persist", "extract", "handoff", "exit"}

WindowInv ==
  /\ release \in Releases
  /\ step \in {"idle", "download", "verify", "persist", "extract", "handoff", "exit", "page"}
  /\ step # "idle" => is_newer(Current, release.tag)
  /\ step \in {"verify"} \cup Started => bytes = release.zip
  /\ step \in Started =>
       wb_verify_download(release.manifest, "portable_zip", release.zip) = 1
  /\ step \in Started \ {"persist"} => onDisk = release.zip
  /\ step \in {"handoff", "exit"} => staged = release.zip
  /\ app \in {"running", "gone"} /\ other \in BOOLEAN
  /\ helper \in {"none", "wait", "copy", "relaunch", "cleanup", "done"}
  /\ helper # "none" <=> step = "exit"

(* The installation is new before the file the helper is at and old after  *)
(* it; if the unpacked files lie elsewhere, nothing is replaced.           *)
FilesInv ==
  /\ copied \in Seq(FileSet) /\ Len(copied) <= Len(Files)
  /\ attempt \in 0 .. Retries
  /\ outcome \in {"none", "copied", "failed"}
  /\ helper \in {"none", "wait"} => copied = << >>
  /\ helper \in {"none", "wait", "copy"} => outcome = "none"
  /\ outcome = "copied" => Len(copied) = Len(Files)
  /\ installed \in [FileSet -> {"old", "torn", release.zip}]
  /\ helper \in {"none", "wait"} => \A f \in FileSet : installed[f] = "old"
  /\ \A i \in 1 .. Len(Files) :
       installed[Files[i]] \in
         IF ~resolve_source(release.layout) \/ i > Len(copied) + 1 THEN {"old"}
         ELSE IF i = Len(copied) + 1 THEN {"old", "torn"}
         ELSE {release.zip}

UpdateInv == WindowInv /\ FilesInv

USE DEF FileSet

LEMMA UpdateInit == Init => UpdateInv
<1> SUFFICES ASSUME Init PROVE WindowInv /\ FilesInv
  BY DEF UpdateInv
<1>1. WindowInv
  BY DEF Init, WindowInv, Started
<1>2. Len(Files) \in Nat /\ \A i \in 1 .. Len(Files) : Files[i] \in FileSet
  BY UpdateAssumption
<1>3. installed \in [FileSet -> {"old", "torn", release.zip}]
  BY DEF Init
<1>4. FilesInv
  <2> HIDE DEF FileSet
  <2>1. copied = << >> /\ copied \in Seq(FileSet) /\ Len(copied) = 0
    BY DEF Init
  <2> QED BY <1>2, <1>3, <2>1, UpdateAssumption DEF Init, FilesInv
<1> QED BY <1>1, <1>4

LEMMA WindowStep ==
  WindowInv /\ [Next]_vars => WindowInv'
<1> SUFFICES ASSUME WindowInv, [Next]_vars PROVE WindowInv'
  OBVIOUS
<1> USE DEF WindowInv, Started
<1>1. CASE Window
  BY <1>1 DEF Window, PromptForUpdate, InstallFails, Download, Verify, Persist, Extract,
     HandOff, Fault, helperVars
<1>2. CASE Helper
  BY <1>2 DEF Helper, WaitEnds, CopyFails, copy_file_with_retry, CopyEnds, Relaunch,
     Cleanup, windowVars
<1>3. CASE User \/ AppExits
  BY <1>3 DEF User, AppExits, StartOther, LeaveOther, windowVars, helperVars
<1>4. CASE UNCHANGED vars
  BY <1>4 DEF vars, windowVars, helperVars
<1> QED BY <1>1, <1>2, <1>3, <1>4 DEF Next

(* One file after the other is replaced, whichever attempts fail.  Only    *)
(* CopyFails and copy_file_with_retry touch an installed file, and then    *)
(* the one the helper is at.                                               *)
LEMMA FilesStep ==
  WindowInv /\ FilesInv /\ [Next]_vars => FilesInv'
<1> SUFFICES ASSUME WindowInv, FilesInv, [Next]_vars PROVE FilesInv'
  OBVIOUS
<1> USE DEF FilesInv
<1>1. /\ Len(Files) \in Nat /\ Files \in Seq(FileSet)
      /\ \A i \in 1 .. Len(Files) : Files[i] \in FileSet
      /\ \A i, j \in 1 .. Len(Files) : Files[i] = Files[j] => i = j
  BY UpdateAssumption, SMTT(60)
<1>2. Len(copied) \in Nat
  OBVIOUS
<1> HIDE DEF FileSet
<1>3. CASE Window
  BY <1>3 DEF Window, PromptForUpdate, InstallFails, Download, Verify, Persist, Extract,
     HandOff, Fault, helperVars, WindowInv
<1>4. CASE WaitEnds \/ CopyEnds \/ Relaunch \/ Cleanup
  BY <1>4 DEF WaitEnds, CopyEnds, Relaunch, Cleanup, windowVars
<1> DEFINE at == Len(copied) + 1
<1>5. CASE CopyFails
  <2>1. /\ helper = "copy" /\ UNCHANGED <<release, copied>> /\ at \in 1 .. Len(Files)
        /\ \/ installed' = installed
           \/ /\ resolve_source(release.layout)
              /\ installed' = [installed EXCEPT ![Files[at]] = "torn"]
    BY <1>1, <1>2, <1>5 DEF CopyFails, AtFile, windowVars
  <2>2. installed' \in [FileSet -> {"old", "torn", release.zip}]
    BY <1>1, <2>1
  <2>3. \A i \in 1 .. Len(Files) :
          \/ installed'[Files[i]] = installed[Files[i]]
          \/ /\ i = at /\ resolve_source(release.layout)
             /\ installed'[Files[i]] = "torn"
    <3> DEFINE file == Files[at]
    <3>1. file \in FileSet /\ \A i \in 1 .. Len(Files) : Files[i] = file => i = at
      BY <1>1, <2>1
    <3>2. \/ installed' = installed
          \/ resolve_source(release.layout) /\ installed' = [installed EXCEPT ![file] = "torn"]
      BY <2>1
    <3>3. installed \in [FileSet -> {"old", "torn", release.zip}]
      OBVIOUS
    <3> HIDE DEF at, file, FilesInv
    <3>4. CASE installed' = installed
      BY <3>4
    <3>5. CASE resolve_source(release.layout) /\ installed' = [installed EXCEPT ![file] = "torn"]
      BY <1>1, <3>1, <3>3, <3>5
    <3> QED BY <3>2, <3>4, <3>5
  <2>4. attempt' \in 0 .. Retries /\ helper' \in {"copy", "relaunch"}
        /\ outcome' \in {"none", "failed"} /\ (helper' = "copy" => outcome' = "none")
    BY <1>5, UpdateAssumption, SMTT(60) DEF CopyFails
  <2> QED BY <1>1, <1>2, <2>1, <2>2, <2>3, <2>4
<1>6. CASE copy_file_with_retry
  <2>1. /\ helper = "copy" /\ at \in 1 .. Len(Files) /\ staged = release.zip
        /\ UNCHANGED <<release, helper, outcome>>
        /\ copied' = Append(copied, Files[at]) /\ attempt' = 0
    <3>1. helper = "copy" /\ Len(copied) < Len(Files)
      BY <1>6 DEF copy_file_with_retry
    <3>2. staged = release.zip
      BY <3>1 DEF WindowInv
    <3>3. at \in 1 .. Len(Files)
      BY <1>1, <1>2, <3>1
    <3> QED BY <1>6, <3>1, <3>2, <3>3 DEF copy_file_with_retry, AtFile, windowVars
  <2>2. copied' \in Seq(FileSet) /\ Len(copied') = at
    BY <1>1, <2>1
  <2> DEFINE file == Files[at]
  <2>3. installed' = IF resolve_source(release.layout)
                     THEN [installed EXCEPT ![file] = release.zip] ELSE installed
    BY <1>6, <2>1 DEF copy_file_with_retry, AtFile
  <2>4. file \in FileSet /\ \A i \in 1 .. Len(Files) : Files[i] = file => i = at
    BY <1>1, <2>1
  <2> HIDE DEF file
  <2>5. installed' \in [FileSet -> {"old", "torn", release.zip}]
    BY <2>3, <2>4
  <2>6. \A i \in 1 .. Len(Files) :
          installed'[Files[i]] = IF resolve_source(release.layout) /\ i = at
                                 THEN release.zip ELSE installed[Files[i]]
    <3> HIDE DEF at
    <3> QED BY <1>1, <2>3, <2>4 DEF file
  <2>7. \A i \in 1 .. Len(Files) :
          installed'[Files[i]] \in
            IF ~resolve_source(release.layout) \/ i > at + 1 THEN {"old"}
            ELSE IF i = at + 1 THEN {"old", "torn"}
            ELSE {release.zip}
    BY <1>1, <1>2, <2>6
  <2>8. at <= Len(Files) /\ attempt' \in 0 .. Retries /\ outcome' = "none"
    BY <2>1, UpdateAssumption
  <2> HIDE DEF at
  <2> QED BY <2>1, <2>2, <2>5, <2>7, <2>8
<1>7. CASE User \/ AppExits
  BY <1>7 DEF User, AppExits, StartOther, LeaveOther, windowVars, helperVars
<1>8. CASE UNCHANGED vars
  BY <1>8 DEF vars, windowVars, helperVars
<1> QED BY <1>3, <1>4, <1>5, <1>6, <1>7, <1>8 DEF Next, Helper

LEMMA UpdateCorrect == Spec => []UpdateInv
<1>1. UpdateInv /\ [Next]_vars => UpdateInv'
  BY WindowStep, FilesStep DEF UpdateInv
<1> QED BY <1>1, UpdateInit, PTL DEF Spec

(* Whatever the service serves, whichever step fails and whoever holds the *)
(* files: an installed file that is neither old nor torn holds the bytes   *)
(* whose digest the manifest lists with the portable archive, and comes    *)
(* from a newer release (InstallUpdateAsync, copy_tree).                   *)
THEOREM OnlyVerifiedInstalled == Spec => []VerifiedOnly
<1>1. UpdateInv => VerifiedOnly
  <2> SUFFICES ASSUME UpdateInv, NEW f \in FileSet, installed[f] \notin {"old", "torn"}
               PROVE  /\ Lists(release.manifest, "portable_zip", installed[f])
                      /\ installed[f] # "blank"
                      /\ Newer(release.tag, Current)
    BY DEF VerifiedOnly
  <2>1. release \in Releases /\ installed[f] = release.zip
    BY DEF UpdateInv, WindowInv, FilesInv
  <2>2. step = "exit"
    BY DEF UpdateInv, WindowInv, FilesInv
  <2>3. /\ is_newer(Current, release.tag)
        /\ wb_verify_download(release.manifest, "portable_zip", release.zip) = 1
    BY <2>2 DEF UpdateInv, WindowInv, Started
  <2>4. release.manifest \in Seq(Words)
    BY <2>1, UpdateAssumption DEF Words
  <2> QED BY <2>1, <2>3, <2>4, VerifiedIsListed, OfferedIsNewer
<1> QED BY <1>1, UpdateCorrect, PTL

(* At every moment the installation is new up to one file and old beyond   *)
(* it, and a copy that is reported as done has replaced every file         *)
(* (copy_tree, copy_file_with_retry, main of the updater).                 *)
THEOREM InstallationCorrect == Spec => []InstallInv
<1>1. UpdateInv => InstallInv
  <2> SUFFICES ASSUME UpdateInv PROVE InstallInv
    OBVIOUS
  <2> USE DEF UpdateInv, WindowInv, FilesInv
  <2>1. TypeOK
    BY DEF TypeOK
  <2>2. /\ Len(Files) \in Nat /\ Len(copied) \in Nat
        /\ \A f \in FileSet : \E i \in 1 .. Len(Files) : f = Files[i]
    BY UpdateAssumption, SMTT(60)
  <2>3. helper \notin {"none", "wait"} => staged = release.zip
    BY DEF Started
  <2> HIDE DEF FileSet
  <2>4. CopiedIsComplete
    BY <2>2, <2>3, SMTT(60) DEF CopiedIsComplete
  <2>5. MixedIsPrefix
    <3>1. CASE resolve_source(release.layout)
      <4>1. \A i \in 1 .. Len(copied) : installed[Files[i]] = staged
        BY <2>2, <2>3, <3>1
      <4>2. \A i \in Len(copied) + 2 .. Len(Files) : installed[Files[i]] = "old"
        BY <2>2, <3>1
      <4> QED BY <2>2, <4>1, <4>2 DEF MixedIsPrefix
    <3>2. CASE ~resolve_source(release.layout)
      <4>1. \A i \in 0 + 2 .. Len(Files) : installed[Files[i]] = "old"
        BY <2>2, <3>2
      <4> QED BY <2>2, <4>1 DEF MixedIsPrefix
    <3> QED BY <3>1, <3>2
  <2> QED BY <2>1, <2>4, <2>5 DEF InstallInv
<1> QED BY <1>1, UpdateCorrect, PTL
=============================================================================
