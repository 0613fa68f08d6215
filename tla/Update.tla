------------------------------- MODULE Update -------------------------------
(***************************************************************************)
(* Updating a portable installation.  The window asks for the latest       *)
(* release, downloads it, verifies it against the release's manifest,      *)
(* unpacks it and starts a helper from a copy; then the application exits. *)
(* The helper waits for it, copies the unpacked files over the installed   *)
(* ones, each with retries, starts the application again and cleans up.    *)
(*                                                                         *)
(* A release is [tag, manifest, zip, layout]: the tag is a version as its  *)
(* parts, the manifest the sequence of its words, zip names the bytes that *)
(* the download delivers, layout how the unpacked files lie.  A digest     *)
(* names the bytes it was made of.                                         *)
(***************************************************************************)
EXTENDS Integers, Sequences, FiniteSets, FiniteSetsExt

CONSTANTS
  Releases,       \* what the release service may serve
  Current,        \* the version that is running, as its parts
  Files,          \* sequence of the files of an installation, in the order they are listed
  Exe,            \* the file that is started
  Retries,        \* repetitions of a failed copy (8)
  MaxFaults       \* bound: failures of single operations and starts by the user

ASSUME UpdateAssumption ==
  /\ Files \in Seq({Files[i] : i \in 1 .. Len(Files)})
  /\ \A i, j \in 1 .. Len(Files) : Files[i] = Files[j] => i = j
  /\ Exe \in {Files[i] : i \in 1 .. Len(Files)}
  /\ Retries \in Nat /\ MaxFaults \in Nat
  /\ Current \in Seq(Int)
  /\ \A r \in Releases :
       /\ r.tag \in Seq(Int)
       /\ r.manifest \in Seq([quoted : BOOLEAN, text : STRING])
       /\ r.zip \notin {"none", "old", "torn"}

VARIABLES
  release,        \* what the service serves
  step,           \* where the window's update is
  bytes,          \* the download in memory
  onDisk,         \* the download on disk
  staged,         \* what has been unpacked
  work,           \* what the working directory holds
  app,            \* the process that updates: "running" or "gone"
  other,          \* another process of the application runs
  helper,         \* where the helper is
  copied,         \* files the helper has copied
  attempt,        \* repetitions for the file it is at
  outcome,        \* what the helper reported
  installed,      \* the content of every installed file
  faults

windowVars == <<release, step, bytes, onDisk, staged>>
helperVars == <<helper, copied, attempt, outcome>>
vars == <<windowVars, helperVars, work, app, other, installed, faults>>

FileSet == {Files[i] : i \in 1 .. Len(Files)}

-----------------------------------------------------------------------------
(* Versions, the manifest and the verdict. *)

\* Up to three numbers; missing ones are 0, more are ignored; -1 is a part
\* that is no number.
parse_version(parts) ==
  LET at(i) == IF i <= Len(parts) THEN parts[i] ELSE 0
  IN IF parts = << >> \/ \E i \in 1 .. Min({3, Len(parts)}) : parts[i] = -1 THEN {}
     ELSE {<<at(1), at(2), at(3)>>}

TupleLess(a, b) ==
  \E i \in 1 .. 3 : a[i] < b[i] /\ \A j \in 1 .. i - 1 : a[j] = b[j]

is_newer(current, candidate) ==
  \E c \in parse_version(current), n \in parse_version(candidate) : TupleLess(c, n)

\* The value after the first place where the field's name is quoted, if a
\* colon and a quoted value follow.
parse_json_string_field(words, field) ==
  LET places == {i \in 1 .. Len(words) : words[i] = [quoted |-> TRUE, text |-> field]}
      at == Min(places)
  IN IF /\ places # {}
        /\ at + 2 <= Len(words)
        /\ words[at + 1] = [quoted |-> FALSE, text |-> ":"]
        /\ words[at + 2].quoted
     THEN {words[at + 2].text} ELSE {}

\* Mutant: the search for the digest goes on into the next artifact.
sha256_anywhere(words, kind) ==
  LET marks == {i \in 1 .. Len(words) : words[i] = [quoted |-> TRUE, text |-> kind]}
  IN IF marks = {} THEN {}
     ELSE {v \in parse_json_string_field(SubSeq(words, Min(marks) + 1, Len(words)), "sha256") :
             v # "blank"}

\* The digest between the artifact's kind and the next kind, unless blank.
parse_manifest_sha256(words, kind) ==
  LET marks == {i \in 1 .. Len(words) : words[i] = [quoted |-> TRUE, text |-> kind]}
      after == SubSeq(words, Min(marks) + 1, Len(words))
      kinds == {i \in 1 .. Len(after) : after[i] = [quoted |-> TRUE, text |-> "kind"]}
      own   == SubSeq(after, 1, IF kinds = {} THEN Len(after) ELSE Min(kinds) - 1)
  IN IF marks = {} THEN {} ELSE {v \in parse_json_string_field(own, "sha256") : v # "blank"}

\* 1: listed and equal; 0: listed and different; 2: not listed.
wb_verify_download(words, kind, digest) ==
  LET expected == parse_manifest_sha256(words, kind)
  IN IF expected = {} THEN 2 ELSE IF expected = {digest} THEN 1 ELSE 0

-----------------------------------------------------------------------------
(* The window. *)

Fault == faults < MaxFaults /\ faults' = faults + 1

\* The dialog is offered for a newer release only; the user installs it.
PromptForUpdate ==
  /\ step = "idle" /\ app = "running"
  /\ is_newer(Current, release.tag)
  /\ step' = "download"
  /\ work' = {"directory"}
  /\ UNCHANGED <<release, bytes, onDisk, staged, helperVars, app, other, installed, faults>>

\* Any failure leaves the application running, shows the download page and
\* leaves the working directory behind.
InstallFails ==
  /\ step \in {"download", "verify", "persist", "extract", "handoff"}
  /\ Fault
  /\ step' = "page"
  /\ UNCHANGED <<release, bytes, onDisk, staged, helperVars, work, app, other, installed>>

Download ==
  /\ step = "download"
  /\ bytes' = release.zip
  /\ step' = "verify"
  /\ UNCHANGED <<release, onDisk, staged, helperVars, work, app, other, installed, faults>>

\* Only a verified match goes on; the other verdicts lead to the download page.
Verify ==
  /\ step = "verify"
  /\ step' = IF wb_verify_download(release.manifest, "portable_zip", bytes) = 1
             THEN "persist" ELSE "page"
  /\ UNCHANGED <<release, bytes, onDisk, staged, helperVars, work, app, other, installed, faults>>

\* The file is written, perhaps wrongly, and hashed again.
Persist ==
  /\ step = "persist"
  /\ work' = work \cup {"zip"}
  /\ \/ onDisk' = bytes /\ step' = "extract" /\ UNCHANGED faults
     \/ Fault /\ onDisk' = "torn" /\ step' = "page"
  /\ UNCHANGED <<release, bytes, staged, helperVars, app, other, installed>>

\* tar returns 0 only for the whole archive.
Extract ==
  /\ step = "extract"
  /\ work' = work \cup {"stage"}
  /\ staged' = onDisk
  /\ step' = "handoff"
  /\ UNCHANGED <<release, bytes, onDisk, helperVars, app, other, installed, faults>>

\* The helper is copied, compared and started; the application exits.
HandOff ==
  /\ step = "handoff"
  /\ work' = work \cup {"helper"}
  /\ helper' = "wait"
  /\ step' = "exit"
  /\ UNCHANGED <<release, bytes, onDisk, staged, copied, attempt, outcome, app, other, installed, faults>>

AppExits ==
  /\ step = "exit" /\ app = "running"
  /\ app' = "gone"
  /\ UNCHANGED <<windowVars, helperVars, work, other, installed, faults>>

\* The user may start and leave the application at any time.
StartOther ==
  /\ step = "exit" /\ ~other /\ installed[Exe] # "torn"
  /\ Fault
  /\ other' = TRUE
  /\ UNCHANGED <<windowVars, helperVars, work, app, installed>>

LeaveOther ==
  /\ other /\ other' = FALSE
  /\ UNCHANGED <<windowVars, helperVars, work, app, installed, faults>>

-----------------------------------------------------------------------------
(* The helper. *)

\* wait_for_process: until the process is gone, or until the time is up.
WaitEnds ==
  /\ helper = "wait"
  /\ \/ app = "gone" /\ UNCHANGED faults
     \/ app = "running" /\ Fault
  /\ helper' = "copy"
  /\ UNCHANGED <<windowVars, copied, attempt, outcome, work, app, other, installed>>

\* The unpacked folder itself, or the only folder in it, if it holds the
\* executable; otherwise the files go below the installation, not over it.
resolve_source(layout) == layout \in {"flat", "folder"}

AtFile == Files[Len(copied) + 1]

\* A file is locked while a process of the application runs.
Locked == app = "running" \/ other

\* Mutant: a file that cannot be copied is passed over.
CopySkips ==
  /\ helper = "copy" /\ Len(copied) < Len(Files)
  /\ Locked /\ resolve_source(release.layout)
  /\ copied' = Append(copied, AtFile)
  /\ attempt' = 0
  /\ UNCHANGED <<windowVars, helper, outcome, work, app, other, installed, faults>>

\* A failed attempt is repeated until the retries are used up; then the whole
\* copy is given up.
CopyFails ==
  /\ helper = "copy" /\ Len(copied) < Len(Files)
  /\ \/ Locked /\ resolve_source(release.layout) /\ UNCHANGED <<installed, faults>>
     \/ /\ Fault
        /\ \/ UNCHANGED installed
           \/ /\ ~Locked /\ resolve_source(release.layout)
              /\ installed' = [installed EXCEPT ![AtFile] = "torn"]
  /\ IF attempt >= Retries
     THEN helper' = "relaunch" /\ outcome' = "failed" /\ UNCHANGED attempt
     ELSE attempt' = attempt + 1 /\ UNCHANGED <<helper, outcome>>
  /\ UNCHANGED <<windowVars, copied, work, app, other>>

copy_file_with_retry ==
  /\ helper = "copy" /\ Len(copied) < Len(Files)
  /\ ~(Locked /\ resolve_source(release.layout))
  /\ installed' = IF resolve_source(release.layout)
                  THEN [installed EXCEPT ![AtFile] = staged] ELSE installed
  /\ copied' = Append(copied, AtFile)
  /\ attempt' = 0
  /\ UNCHANGED <<windowVars, helper, outcome, work, app, other, faults>>

CopyEnds ==
  /\ helper = "copy" /\ Len(copied) = Len(Files)
  /\ helper' = "relaunch" /\ outcome' = "copied"
  /\ UNCHANGED <<windowVars, copied, attempt, work, app, other, installed, faults>>

\* Mutant: only an updated application is started.
RelaunchUpdated ==
  /\ helper = "relaunch"
  /\ other' = (other \/ outcome = "copied")
  /\ helper' = "cleanup"
  /\ UNCHANGED <<windowVars, copied, attempt, outcome, work, app, installed, faults>>

\* The application is started whatever came of the copy, if it can be started.
Relaunch ==
  /\ helper = "relaunch"
  /\ other' = (other \/ installed[Exe] # "torn")
  /\ helper' = "cleanup"
  /\ UNCHANGED <<windowVars, copied, attempt, outcome, work, app, installed, faults>>

\* The directory holds the running helper, which cannot be removed: removing
\* stops there, before or after the rest.
Cleanup ==
  /\ helper = "cleanup"
  /\ \E kept \in SUBSET work :
       {"directory", "helper"} \cap work \subseteq kept /\ work' = kept
  /\ helper' = "done"
  /\ UNCHANGED <<windowVars, copied, attempt, outcome, app, other, installed, faults>>

-----------------------------------------------------------------------------
Init ==
  /\ release \in Releases
  /\ step = "idle"
  /\ bytes = "none" /\ onDisk = "none" /\ staged = "none"
  /\ work = {}
  /\ app = "running" /\ other = FALSE
  /\ helper = "none" /\ copied = << >> /\ attempt = 0 /\ outcome = "none"
  /\ installed = [f \in FileSet |-> "old"]
  /\ faults = 0

Window == PromptForUpdate \/ InstallFails \/ Download \/ Verify \/ Persist \/ Extract \/ HandOff
Helper == WaitEnds \/ CopyFails \/ copy_file_with_retry \/ CopyEnds \/ Relaunch \/ Cleanup
User   == StartOther \/ LeaveOther

Next == Window \/ AppExits \/ Helper \/ User

\* The helper is a process of its own and is not stopped; Application::Exit
\* ends the application.  The user need not do anything.
Spec == Init /\ [][Next]_vars /\ WF_vars(AppExits) /\ WF_vars(Helper)

-----------------------------------------------------------------------------
(* Properties. *)

TypeOK ==
  /\ release \in Releases
  /\ step \in {"idle", "download", "verify", "persist", "extract", "handoff", "exit", "page"}
  /\ helper \in {"none", "wait", "copy", "relaunch", "cleanup", "done"}
  /\ attempt \in 0 .. Retries /\ Len(copied) <= Len(Files)
  /\ outcome \in {"none", "copied", "failed"}
  /\ app \in {"running", "gone"} /\ other \in BOOLEAN
  /\ installed \in [FileSet -> {"old", "torn", release.zip}]

Quoted(text) == [quoted |-> TRUE, text |-> text]

\* The manifest gives this digest with the artifact: after the first mention of
\* its kind and before the next artifact, and first there.
Lists(words, kind, digest) ==
  \E i, j \in 1 .. Len(words) :
    /\ i < j /\ j + 2 <= Len(words)
    /\ words[i] = Quoted(kind) /\ words[j] = Quoted("sha256")
    /\ ~words[j + 1].quoted /\ words[j + 2] = Quoted(digest)
    /\ \A k \in 1 .. i - 1 : words[k] # Quoted(kind)
    /\ \A k \in i + 1 .. j - 1 : words[k] \notin {Quoted("kind"), Quoted("sha256")}

\* One version comes after another: the first of three parts in which they
\* differ is the larger one.
Part(version, i) == IF i <= Len(version) THEN version[i] ELSE 0
Newer(version, base) ==
  \E i \in 1 .. 3 : /\ Part(version, i) > Part(base, i)
                    /\ \A j \in 1 .. i - 1 : Part(version, j) = Part(base, j)

\* Whatever the service serves and whichever step fails, only the archive
\* whose digest the manifest lists for its kind is installed, and only from a
\* newer release: no digest of a sibling, no blank or missing one lets other
\* bytes through (wb_verify_download, InstallUpdateAsync, is_newer).  The
\* comment on the verdict 2 says of a missing digest that the "caller may
\* proceed on transport trust": its only caller does not.
VerifiedOnly ==
  \A f \in FileSet : installed[f] \notin {"old", "torn"} =>
    /\ Lists(release.manifest, "portable_zip", installed[f]) /\ installed[f] # "blank"
    /\ Newer(release.tag, Current)

\* A copy that the helper reports as done has replaced every file, whatever
\* was locked, retried or started meanwhile (copy_tree).
CopiedIsComplete ==
  outcome = "copied" =>
    \A f \in FileSet : installed[f] = IF resolve_source(release.layout) THEN staged ELSE "old"

\* At every moment, and after a copy that was given up, the installation is
\* new up to one file and old beyond it: versions are mixed at one place only
\* (copy_tree, main of the updater).
MixedIsPrefix ==
  \E k \in 0 .. Len(Files) :
    /\ \A i \in 1 .. k : installed[Files[i]] = staged
    /\ \A i \in k + 2 .. Len(Files) : installed[Files[i]] = "old"

\* The invariant of the installation: what the helper is doing, and what the
\* files hold meanwhile.
InstallInv == TypeOK /\ CopiedIsComplete /\ MixedIsPrefix

\* Once the helper has been started the application is started again, whether
\* the copy worked or was given up and whoever held the files meanwhile, unless
\* the executable itself was torn ("so the user isn't left without WinBlaze",
\* main of the updater).
AppComesBack ==
  helper = "wait" ~> helper = "cleanup" /\ (other \/ installed[Exe] = "torn")
=============================================================================
