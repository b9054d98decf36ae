------------------------------- MODULE Target -------------------------------
(***************************************************************************)
(* One download target: the class Target of target.cpp for a file that is  *)
(* not zchunk.  A target is a record; every method that changes it is an   *)
(* operator from records to records, applied by the actions of Downloader. *)
(*                                                                         *)
(* File contents are abstracted to what the target's check can tell apart: *)
(* "good" passes the size and checksum test of the target, "bad" (partial, *)
(* truncated, an error page) does not.  Resuming is the subject of module  *)
(* ResumeTransfer.                                                         *)
(***************************************************************************)
EXTENDS Mirror, FiniteSets

CONSTANTS Mirrors, NoMirror

ASSUME NoMirrorFresh == NoMirror \notin Mirrors

DownloadStates == {"WAITING", "PREPARATION", "RUNNING", "FINISHED", "FAILED"}
TransferStatuses == {"SUCCESSFUL", "ALREADYEXISTS", "ERROR"}
FileContents == {"absent", "bad", "good"}

\* What a finished file is compared with: nothing, its expected size, or a
\* checksum (Target::check_filesize, Target::check_checksums).
CheckKinds == {"none", "size", "checksum"}

TargetRecord ==
  [state: DownloadStates, retries: Nat, tried: SUBSET Mirrors,
   mirror: Mirrors \cup {NoMirror}, order: Seq(Mirrors),
   check: CheckKinds,
   outfile: {"none", "open", "closed"},   \* unique_ptr<FileIO> of the target
   temp: FileContents,                    \* <destination>.pdpart
   dest: FileContents,                    \* <destination>
   zckFinished: BOOLEAN,                  \* m_zck_state reads kFINISHED; no
                                          \* constructor initialises it
   stuck: BOOLEAN,                        \* renaming onto <destination> fails:
                                          \* it is a directory, is protected or
                                          \* is in use; chosen once, for ever
   ended: Seq(TransferStatuses)]          \* history: calls of the end callback

Terminal(T) == T.state \in {"FINISHED", "FAILED"}

InTransfer(T) == T.state \in {"RUNNING", "PREPARATION"}

Listed(T) == Range(T.order)

NewTarget(order, check, temp, dest, zckFinished, stuck) ==
  [state |-> "WAITING", retries |-> 0, tried |-> {}, mirror |-> NoMirror,
   order |-> order, check |-> check, outfile |-> "none",
   temp |-> temp, dest |-> dest, zckFinished |-> zckFinished,
   stuck |-> stuck, ended |-> <<>>]

-----------------------------------------------------------------------------
\* Files.

Reset(T) == [T EXCEPT !.outfile = IF @ = "open" THEN "closed" ELSE @]

\* The rename of the temporary file reports its error in ec, which is ignored:
\* there is nothing to rename, or the destination cannot be replaced.
RenameTempFile(T) ==
  IF T.temp = "absent" \/ T.stuck THEN T ELSE [T EXCEPT !.dest = T.temp, !.temp = "absent"]

\* m_temp_file is empty until open_target_file set it: nothing to remove.
RemoveTempFile(T) ==
  [T EXCEPT !.temp = IF T.outfile = "none" THEN @ ELSE "absent"]

BrokenResetFile(T, status) ==
  CASE status = "SUCCESSFUL" -> RenameTempFile(Reset(T))
    [] status = "ALREADYEXISTS" -> Reset(T)
    [] status = "ERROR" -> IF T.outfile = "none" THEN T ELSE [Reset(T) EXCEPT !.dest = "absent"]
ResetFile(T, status) ==
  CASE status = "SUCCESSFUL" /\ T.outfile # "none" -> RenameTempFile(Reset(T))
    [] status = "SUCCESSFUL" /\ T.outfile = "none" -> T
    [] status = "ALREADYEXISTS"                    -> Reset(T)
    [] status = "ERROR"                            -> RemoveTempFile(Reset(T))

OpenTargetFile(T) == [T EXCEPT !.outfile = "open", !.temp = "bad"]

\* truncate_transfer_file dereferences the outfile before it tests it.
TruncateCrashes(T) == T.outfile = "none"

TruncateTransferFile(T) ==
  [T EXCEPT !.temp = IF T.outfile = "closed" THEN "absent" ELSE "bad"]

-----------------------------------------------------------------------------
\* State changes.

CallEndCallback(T, status) ==
  [ResetFile(T, status) EXCEPT !.ended = Append(@, status)]

SetFailed(T) == CallEndCallback([T EXCEPT !.state = "FAILED"], "ERROR")

AlreadyDownloaded(T) == T.check = "checksum" /\ T.dest = "good"

CheckIfAlreadyFinished(T) ==
  IF AlreadyDownloaded(T)
  THEN [CallEndCallback(T, "ALREADYEXISTS") EXCEPT !.state = "FINISHED"]
  ELSE T

ChangeMirror(T, m) == [T EXCEPT !.mirror = m]

BeginPreparation(T) == [T EXCEPT !.state = "PREPARATION"]

BeginTransfer(T) == [OpenTargetFile(T) EXCEPT !.state = "RUNNING"]

\* The body curl wrote to the temporary file while the transfer was running.
ReceiveBody(T, content) ==
  IF T.state = "RUNNING" THEN [T EXCEPT !.temp = content] ELSE T

\* fs::file_size of a file that does not exist throws.
FinishTransferThrows(T) ==
  T.outfile # "none" /\ T.check = "size" /\ T.temp = "absent"

BrokenFinishTransferOk(T) == T.outfile # "none" => T.check # "size" \/ T.temp = "good"
FinishTransferOk(T) == T.outfile # "none" => T.check = "none" \/ T.temp = "good"

CompleteMirrorUsage(T, stats, sorting, success, serious) ==
  [T EXCEPT !.tried = @ \cup {T.mirror},
            !.order = IF sorting THEN SortMirrors(@, stats, T.mirror, success, serious)
                                 ELSE @]

GiveMirrorAnotherChance(T) == [T EXCEPT !.tried = @ \ {T.mirror}]

SetRetrying(T) ==
  TruncateTransferFile([T EXCEPT !.state = "WAITING", !.retries = @ + 1])

FinalizeTransfer(T) ==
  IF T.state = "RUNNING"
  THEN CallEndCallback([T EXCEPT !.state = "FINISHED"], "SUCCESSFUL")
  ELSE IF T.state = "PREPARATION" THEN [T EXCEPT !.state = "WAITING"] ELSE T

-----------------------------------------------------------------------------
\* What Downloader's invariants say of one target.

\* The end callback was called once if the target is final, with the status
\* its state stands for, and not at all before.
Reported(T) ==
  CASE T.state = "FINISHED" -> T.ended \in {<<"SUCCESSFUL">>, <<"ALREADYEXISTS">>}
    [] T.state = "FAILED"   -> T.ended = <<"ERROR">>
    [] OTHER                -> T.ended = <<>>

\* A file that passed the target's check, if it has one.
Passed(T, content) == content # "absent" /\ (T.check # "none" => content = "good")

\* The rename of a finished target failed: its file is still the temporary one.
LeftInTemp(T) == T.state = "FINISHED" /\ T.stuck /\ Passed(T, T.temp)

\* A finished target has its file, which passed the target's check if it has
\* one; a final target has no open file and no temporary file it opened; and
\* only a transfer that runs has an open file.  A failing rename is the one
\* exception to both, and then the whole file is in the temporary one.
FilesOk(T) ==
  /\ T.state = "FINISHED" => Passed(T, T.dest) \/ LeftInTemp(T)
  /\ Terminal(T) =>
       T.outfile # "open" /\ (T.outfile = "closed" => T.temp = "absent" \/ LeftInTemp(T))
  /\ T.outfile = "open" => T.state = "RUNNING"
=============================================================================
