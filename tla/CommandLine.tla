----------------------------- MODULE CommandLine -----------------------------
(***************************************************************************)
(* One run of the command line: main of src/cli/main.cpp, its two commands *)
(* and what the caller can tell from the exit code and the output.         *)
(*                                                                         *)
(* download makes a DownloadTarget of every file, adds them to a           *)
(* Downloader and calls download, which is the abstract DownloadService:   *)
(* what Downloader implements.  upload sends one file after the other to   *)
(* an OCI registry or an S3 bucket with blocking requests; which answers   *)
(* an OCI upload can have is the result of OciUpload.                      *)
(*                                                                         *)
(* A definition named Broken... is a faulty variant of the one after it.   *)
(* Nothing uses it: it serves to show that a property can fail.            *)
(***************************************************************************)
EXTENDS Naturals, SequencesExt

CONSTANTS
  Files,        \* the names a command can be given
  Lists,        \* the lists of names the command may be run with
  PlaceOf,      \* where the server puts a file: dest:tag, or the path in the bucket
  MaxActive     \* Context::max_parallel_downloads

ASSUME ListsNameFiles == \A s \in Lists : s \in Seq(Files) /\ Range(s) = Files
ASSUME PlacesNamed == DOMAIN PlaceOf = Files

VARIABLES
  command,      \* download or upload
  options,      \* what else the command line and the configuration file give
  duFiles,      \* du_files
  phase,        \* where main is
  done,         \* how many of duFiles the current loop is through with
  exitCode,     \* "0", "1", or "terminated": an exception left main, or a crash
  sent,         \* [Files -> Nat]: uploads of a file that were begun
  stored,       \* files the server has
  announced,    \* files for which "Finished upload" was printed
  job, reported, outcome   \* download(), see DownloadService

cliVars == <<command, options, duFiles, phase, done, exitCode>>
uploadVars == <<sent, stored, announced>>
serviceVars == <<job, reported, outcome>>
vars == <<cliVars, uploadVars, serviceVars>>

Service == INSTANCE DownloadService WITH Jobs <- Files

Options == [server: {"http", "s3", "oci"}, mirrors: BOOLEAN, config: {"none", "mirrors"}]

Exit(code) == exitCode' = code /\ phase' = "exited"

-----------------------------------------------------------------------------
\* main.

\* Without a file the names come from the command line, with one from its "targets".
Init ==
  /\ command \in {"download", "upload"}
  /\ options \in Options
  /\ duFiles \in Lists
  /\ phase = "parsed" /\ done = 0 /\ exitCode = "none"
  /\ sent = [f \in Files |-> 0] /\ stored = {} /\ announced = {}
  /\ Service!Init

\* The configuration file is absent, is not YAML, has no targets, or
\* parse_mirrors throws.
ConfigThrows ==
  /\ phase = "parsed" /\ options.config # "none"
  /\ Exit("terminated")
  /\ UNCHANGED <<command, options, duFiles, done, uploadVars, serviceVars>>

\* erase_duplicates sorts the names and removes those equal to the one before:
\* each stays once, in an order that only their text decides.
BrokenEraseDuplicates(names) ==
  {[i \in 1..Len(kept) |-> names[kept[i]]] :
     kept \in {SetToSortSeq({i \in DOMAIN names : i = 1 \/ names[i] # names[i - 1]}, <)}}
EraseDuplicates(names) == SetToSeqs(Range(names))

Start ==
  /\ phase = "parsed"
  /\ duFiles' \in EraseDuplicates(duFiles)
  /\ phase' = IF command = "upload" THEN "upload" ELSE "targets"
  /\ UNCHANGED <<command, options, done, exitCode, uploadVars, serviceVars>>

-----------------------------------------------------------------------------
\* handle_upload.

File == duFiles[done + 1]
Uploading == phase = "upload" /\ options.mirrors /\ done < Len(duFiles)
Sent == sent' = [sent EXCEPT ![File] = @ + 1]
NextFile == done' = done + 1 /\ UNCHANGED <<phase, exitCode>>

\* The server has one file at a place: the name it is sent from is no part of it.
Published == {f \in stored : PlaceOf[f] # PlaceOf[File]} \cup {File}

\* Its first line reads the first of the -m mirrors, which may not exist.
NoMirrorGiven ==
  /\ phase = "upload" /\ ~options.mirrors
  /\ Exit("terminated")
  /\ UNCHANGED <<command, options, duFiles, done, uploadVars, serviceVars>>

\* A name with too few or too many colons.  With none at all its second part
\* is read from beyond the end of a vector.
MalformedName ==
  /\ Uploading
  /\ (options.server # "http" /\ Exit("1")) \/ Exit("terminated")
  /\ UNCHANGED <<command, options, duFiles, done, uploadVars, serviceVars>>

\* The variables with the S3 credentials are read outside the try block.
NoCredentials ==
  /\ Uploading /\ options.server = "s3"
  /\ Exit("terminated")
  /\ UNCHANGED <<command, options, duFiles, done, uploadVars, serviceVars>>

\* Neither OCI nor S3: the loop does nothing with the file.
UploadNothing ==
  /\ Uploading /\ options.server = "http"
  /\ NextFile
  /\ UNCHANGED <<command, options, duFiles, uploadVars, serviceVars>>

\* oci_upload returned a response that is ok: the manifest is stored.
BrokenOciUploaded ==
  /\ Uploading /\ options.server = "oci"
  /\ Sent
  /\ stored' \in {stored, Published}
  /\ announced' = announced \cup {File}
  /\ NextFile
  /\ UNCHANGED <<command, options, duFiles, serviceVars>>
OciUploaded ==
  /\ Uploading /\ options.server = "oci"
  /\ Sent
  /\ stored' = Published
  /\ announced' = announced \cup {File}
  /\ NextFile
  /\ UNCHANGED <<command, options, duFiles, serviceVars>>

\* Another response, or an exception: caught, and main returns 1.  The
\* manifest may be stored all the same, if only the answer was lost.
UploadFailed ==
  /\ Uploading /\ options.server \in {"oci", "s3"}
  /\ Sent
  /\ stored' \in {stored, Published}
  /\ Exit("1")
  /\ UNCHANGED <<command, options, duFiles, done, announced, serviceVars>>

\* s3_upload returned: the server answered the PUT, whatever it answered.
S3Uploaded ==
  /\ Uploading /\ options.server = "s3"
  /\ Sent
  /\ stored' \in {stored, Published}
  /\ announced' = announced \cup {File}
  /\ NextFile
  /\ UNCHANGED <<command, options, duFiles, serviceVars>>

UploadsDone ==
  /\ phase = "upload" /\ options.mirrors /\ done = Len(duFiles)
  /\ Exit("0")
  /\ UNCHANGED <<command, options, duFiles, done, uploadVars, serviceVars>>

-----------------------------------------------------------------------------
\* handle_download.

\* One round of the loop over the urls, then of that over the targets; each
\* may throw (a url with too many colons; a host without mirrors).
LoopStep(loop, next) ==
  /\ phase = loop
  /\ \/ /\ done < Len(duFiles)
        /\ done' = done + 1 /\ UNCHANGED <<phase, exitCode>>
     \/ done < Len(duFiles) /\ Exit("terminated") /\ UNCHANGED done
     \/ done = Len(duFiles) /\ done' = 0 /\ phase' = next /\ UNCHANGED exitCode
  /\ UNCHANGED <<command, options, duFiles, uploadVars, serviceVars>>

MakeTargets == LoopStep("targets", "add")
AddTargets == LoopStep("add", "download")

\* Downloader::download.
Download ==
  /\ phase = "download"
  /\ Service!Next
  /\ UNCHANGED <<cliVars, uploadVars>>

\* It returned or threw.
BrokenExitOf(result) == IF result = "thrown" THEN "terminated" ELSE "0"
ExitOf(result) ==
  CASE result = "true" -> "0" [] result = "false" -> "1" [] result = "thrown" -> "terminated"

Downloaded ==
  /\ phase = "download" /\ outcome # "none"
  /\ Exit(ExitOf(outcome))
  /\ UNCHANGED <<command, options, duFiles, done, uploadVars, serviceVars>>

Exited == phase = "exited" /\ UNCHANGED vars

Next ==
  \/ ConfigThrows \/ Start
  \/ NoMirrorGiven \/ MalformedName \/ NoCredentials \/ UploadNothing
  \/ OciUploaded \/ UploadFailed \/ S3Uploaded \/ UploadsDone
  \/ MakeTargets \/ AddTargets \/ Download \/ Downloaded
  \/ Exited

Spec == Init /\ [][Next]_vars

-----------------------------------------------------------------------------
\* Properties.

\* Every variable keeps its type, and main is over once it has an exit code.
TypeOK ==
  /\ command \in {"download", "upload"} /\ options \in Options
  /\ duFiles \in Seq(Files) /\ done \in 0..Len(duFiles)
  /\ phase \in {"parsed", "upload", "targets", "add", "download", "exited"}
  /\ exitCode \in {"none", "0", "1", "terminated"}
  /\ phase = "exited" <=> exitCode # "none"
  /\ sent \in [Files -> Nat] /\ stored \subseteq Files /\ announced \subseteq Files

\* A name given twice, next to each other or not, is uploaded once, whatever
\* the order erase_duplicates leaves the names in.  Only equal names are one:
\* two files for one dest:tag are both sent.
SentOnce == \A f \in Files : sent[f] <= 1

\* What every state satisfies: the types, and the single uploads.
CommandInv == TypeOK /\ SentOnce

\* A file up to duFiles[last] that is not before duFiles[i] holds its place.
Kept(i, last) ==
  \E j \in i..last : PlaceOf[duFiles[j]] = PlaceOf[duFiles[i]] /\ duFiles[j] \in stored

\* What an OCI upload announced is in the registry even if a later file
\* failed, unless a later file of the list took its place; an exit code of 0
\* means that every file was announced, so that the last file of each place
\* is there.
OciUploadTold ==
  command = "upload" /\ options.server = "oci" =>
    /\ \A i \in DOMAIN duFiles : duFiles[i] \in announced => Kept(i, Len(duFiles))
    /\ exitCode = "0" => announced = Files

\* The exit code of a download is 0 only if no target is pending or active
\* any more and the end callback of each was called once.
DownloadSettled ==
  command = "download" /\ exitCode = "0" =>
    \A f \in Files : job[f] \in Service!Settled /\ reported[f] = 1
=============================================================================
