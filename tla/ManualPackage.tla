----------------------------- MODULE ManualPackage -----------------------------
(***************************************************************************)
(* The package of an approved draft, for a manual submission               *)
(* (src/workflows/rlhf-generator/manual-package-builder.js): the draft's   *)
(* text, the summary of its source and a manifest of their hashes, written *)
(* in place, one after another, into the draft's directory, and read back  *)
(* one after another. Nothing keeps two builds of one draft apart, at a    *)
(* read or between the emptying of a file and its writing. A hash is what  *)
(* it is the hash of; the checklist depends on the draft alone and is left *)
(* out.                                                                    *)
(***************************************************************************)
EXTENDS Naturals

CONSTANTS
  Packagers,    \* the builds that can overlap
  Texts,        \* the texts of the draft they are given
  Summaries     \* the source records they are given

VARIABLES
  packageBuilds, \* packager -> its build
  package       \* the files of the draft's directory

packageVars == <<packageBuilds, package>>

\* What a file is when it was emptied and is not written yet, or when one build has
\* written over a longer body of another.
Part(file) == IF file = "manifest" THEN [text |-> "part", summary |-> "part"] ELSE "part"
NoManifest == [text |-> "none", summary |-> "none"]
NotBuilding == [stage |-> "idle", file |-> "text", text |-> "none", summary |-> "none", read |-> NoManifest]
PackageFiles == {"text", "summary", "manifest"}
-----------------------------------------------------------------------------
\* The draft is as the caller has read it: one that is not approved there is refused.
StartPackage(p, text, summary) ==
  /\ packageBuilds[p].stage = "idle"
  /\ packageBuilds' = [packageBuilds EXCEPT ![p] = [NotBuilding EXCEPT !.stage = "open", !.text = text,
                                                                      !.summary = summary]]
  /\ UNCHANGED package

OpenFile(p) ==
  /\ packageBuilds[p].stage = "open"
  /\ package' = [package EXCEPT ![packageBuilds[p].file] = Part(packageBuilds[p].file)]
  /\ packageBuilds' = [packageBuilds EXCEPT ![p].stage = "write"]

Body(p) ==
  LET build == packageBuilds[p] IN
  CASE build.file = "text" -> build.text
    [] build.file = "summary" -> build.summary
    [] OTHER -> [text |-> build.text, summary |-> build.summary]

\* Over what another build has written since, the result can be neither's.
WriteFile(p) ==
  /\ packageBuilds[p].stage = "write"
  /\ LET file == packageBuilds[p].file IN
     /\ \E body \in {Body(p), Part(file)} :
          /\ body = Body(p) \/ package[file] \notin {Part(file), Body(p)}
          /\ package' = [package EXCEPT ![file] = body]
     /\ packageBuilds' = [packageBuilds EXCEPT
          ![p].stage = IF file = "manifest" THEN "verify" ELSE "open",
          ![p].file = IF file = "text" THEN "summary" ELSE "manifest"]

\* A writing fails, the process ends, or the checklist is found half written.
BreakOff(p) ==
  /\ packageBuilds[p].stage \notin {"idle", "built", "failed"}
  /\ packageBuilds' = [packageBuilds EXCEPT ![p].stage = "failed"]
  /\ UNCHANGED package

\* The verification reads the manifest on disk first, and then file after file.
ReadManifest(p) ==
  /\ packageBuilds[p].stage = "verify"
  /\ packageBuilds' = [packageBuilds EXCEPT
       ![p].stage = IF package["manifest"] = Part("manifest") THEN "failed" ELSE "check",
       ![p].read = package["manifest"],
       ![p].file = "text"]
  /\ UNCHANGED package

\* A verification of the draft alone.
FileVerifies_DraftOnly(p, file) == file = "text" => package["text"] = packageBuilds[p].read.text

\* A file has the hash that the manifest read gives it.
FileVerifies(p, file) ==
  IF file = "text" THEN package["text"] = packageBuilds[p].read.text
  ELSE package["summary"] = packageBuilds[p].read.summary

\* The build answers with the package, or with the first mismatch it has found.
CheckFile(p) ==
  /\ packageBuilds[p].stage = "check"
  /\ LET file == packageBuilds[p].file IN
     packageBuilds' = [packageBuilds EXCEPT
       ![p].stage = IF ~FileVerifies(p, file) THEN "failed" ELSE IF file = "text" THEN "check" ELSE "built",
       ![p].file = "summary"]
  /\ UNCHANGED package

\* A build that ended is forgotten by its caller.
NextBuild(p) ==
  /\ packageBuilds[p].stage = "built"
  /\ packageBuilds' = [packageBuilds EXCEPT ![p] = NotBuilding]
  /\ UNCHANGED package
-----------------------------------------------------------------------------
PackageInit ==
  /\ packageBuilds = [p \in Packagers |-> NotBuilding]
  /\ package = [file \in PackageFiles |-> IF file = "manifest" THEN NoManifest ELSE "none"]

PackageNext ==
  \/ \E p \in Packagers, text \in Texts, summary \in Summaries :
       StartPackage(p, text, summary)
  \/ \E p \in Packagers :
       OpenFile(p) \/ WriteFile(p) \/ BreakOff(p) \/ ReadManifest(p) \/ CheckFile(p) \/ NextBuild(p)

PackageSpec == PackageInit /\ [][PackageNext]_packageVars
-----------------------------------------------------------------------------
(* Properties *)

PackageTypeOK ==
  /\ packageBuilds \in [Packagers -> [stage : {"idle", "open", "write", "verify", "check", "built", "failed"},
                                      file : PackageFiles,
                                      text : Texts \cup {"none"}, summary : Summaries \cup {"none"},
                                      read : [text : Texts \cup {"none", "part"},
                                              summary : Summaries \cup {"none", "part"}]]]
  /\ DOMAIN package = PackageFiles
  /\ package["text"] \in Texts \cup {"none", "part"} /\ package["summary"] \in Summaries \cup {"none", "part"}
  /\ package["manifest"] \in [text : Texts \cup {"none", "part"}, summary : Summaries \cup {"none", "part"}]

\* When no build is under way, and the files of the package do not belong together, a build
\* has ended without it: the last one to write finds the mismatch, though each build reads
\* one file after another while others write (manual-package-builder.js, verifyManualPackage).
MixedPackageReported ==
  LET ended == \A p \in Packagers : packageBuilds[p].stage \in {"idle", "built", "failed"}
      mixed == package["manifest"] # [text |-> package["text"], summary |-> package["summary"]]
  IN  ended /\ mixed => \E p \in Packagers : packageBuilds[p].stage = "failed"
=============================================================================
