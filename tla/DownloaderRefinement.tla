------------------------ MODULE DownloaderRefinement ------------------------
(***************************************************************************)
(* The event loop of Downloader keeps the promises of DownloadService:     *)
(* every target is a job, active from the moment its transfer or           *)
(* preparation is handed to curl until its DONE message is handled.        *)
(***************************************************************************)
EXTENDS Downloader

JobState(T) ==
  CASE T.state = "WAITING"  -> "pending"
    [] InTransfer(T)        -> "active"
    [] T.state = "FINISHED" -> "finished"
    [] T.state = "FAILED"   -> "failed"

JobOutcome ==
  CASE phase \in {"thrown", "crashed"} -> "thrown"
    [] OTHER                           -> result

Service == INSTANCE DownloadService
  WITH Jobs <- Targets, MaxActive <- MaxParallel,
       job <- [t \in Targets |-> JobState(targets[t])],
       reported <- [t \in Targets |-> Len(targets[t].ended)],
       outcome <- JobOutcome

\* Every behaviour of the event loop, mapped to jobs, is one of the service.
ImplementsService == Service!Spec
=============================================================================
