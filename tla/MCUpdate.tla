------------------------------ MODULE MCUpdate ------------------------------
(***************************************************************************)
(* Releases for Update: newer, equal and unreadable tags; manifests with   *)
(* the digest, with a blank, missing or wrong one beside that of a         *)
(* sibling, and without the artifact; downloads of either artifact or of   *)
(* something else.                                                         *)
(***************************************************************************)
EXTENDS Update

MCCurrent == <<0, 9, 1>>
MCFiles == <<"core.dll", "app.exe", "ui.dll">>

Word(t)  == [quoted |-> TRUE, text |-> t]
Colon    == [quoted |-> FALSE, text |-> ":"]
Field(name, value) == <<Word(name), Colon, Word(value)>>
Artifact(kind, digest) ==
  Field("kind", kind) \o Field("file_name", "f")
    \o (IF digest = "missing" THEN << >> ELSE Field("sha256", digest))

MCManifests ==
  {Artifact("portable_zip", own) \o Artifact("msi", "installer") :
     own \in {"portable", "blank", "missing", "other"}}
    \cup {Artifact("msi", "installer") \o Artifact("portable_zip", "portable"),
          Artifact("msi", "portable"), << >>}

MCReleases ==
  {[tag |-> t, manifest |-> m, zip |-> z, layout |-> l] :
     t \in {<<0, 10>>, <<0, 9>>, <<0, 9, 1, 5>>, <<-1, 10>>, <<1>>}, m \in MCManifests,
     z \in {"portable", "installer", "junk"}, l \in {"flat", "folder", "other"}}
=============================================================================
