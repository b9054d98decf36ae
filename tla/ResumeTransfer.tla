--------------------------- MODULE ResumeTransfer ---------------------------
(***************************************************************************)
(* The temporary file <destination>.pdpart of one target: how it grows over*)
(* the attempts of one run of the program, and how a later run resumes from*)
(* what an earlier one left.  The remote file is the sequence of its       *)
(* blocks, numbered from 1; the mirror is one that serves ranges.  Which   *)
(* mirror an attempt uses is the subject of Downloader: here another       *)
(* attempt may or may not find one.                                        *)
(*                                                                         *)
(* A definition named Broken... is a faulty variant of the one after it.   *)
(* Nothing uses it: it serves to show that a property can fail.            *)
(***************************************************************************)
EXTENDS Integers, Sequences

CONSTANTS
  Blocks,                \* number of blocks of the remote file
  MaxResumeCount,        \* Context::max_resume_count
  AllowedMirrorFailures, \* Downloader::allowed_mirror_failures
  MaxRestarts            \* bound: how often the program is killed and run again

ASSUME ResumeConstantsOk ==
  /\ Blocks \in Nat \ {0}
  /\ MaxResumeCount \in Nat /\ AllowedMirrorFailures \in Nat \ {0} /\ MaxRestarts \in Nat

NoFile == <<0>>   \* no block is numbered 0

RemoteFile == [i \in 1..Blocks |-> i]

\* DownloadTarget::m_resume, and what finish_transfer can compare the file with.
Wishes == [resume: BOOLEAN, size: BOOLEAN, checksum: BOOLEAN]

VARIABLES
  wish,         \* what the caller asked for, never changed
  state,        \* "waiting", "running", "finished", "failed"
  temp, dest,   \* contents of the temporary file and of the destination
  resume,       \* m_resume
  resumeCount,  \* m_resume_count
  offset,       \* m_original_offset, -1 until determined
  from,         \* CURLOPT_RESUME_FROM_LARGE of the transfer, 0 if not set
  received,     \* blocks of the body received so far
  retries,      \* m_retries
  restarts,
  retriedResume \* history: an attempt that resumed from data was retried

vars == <<wish, state, temp, dest, resume, resumeCount, offset, from, received, retries,
          restarts, retriedResume>>

Init ==
  /\ wish \in Wishes
  /\ state = "waiting" /\ temp = NoFile /\ dest = NoFile
  /\ resume = wish.resume /\ resumeCount = 0 /\ offset = -1
  /\ from = 0 /\ received = 0 /\ retries = 0 /\ restarts = 0
  /\ retriedResume = FALSE

\* open_target_file keeps the content of an existing file only when resuming.
OpenedFile == IF temp # NoFile /\ resume THEN temp ELSE <<>>

\* The resume part of prepare_for_transfer.
Resumes == resume /\ resumeCount < MaxResumeCount

BrokenResumeOffset == IF offset = -1 THEN 0 ELSE offset
ResumeOffset == IF offset = -1 THEN Len(OpenedFile) ELSE offset

Prepare ==
  /\ state = "waiting"
  /\ state' = "running"
  /\ temp' = OpenedFile
  /\ resume' = Resumes
  /\ IF Resumes THEN /\ resumeCount' = resumeCount + 1
                     /\ offset' = ResumeOffset
                     /\ from' = ResumeOffset
                ELSE from' = 0 /\ UNCHANGED <<resumeCount, offset>>
  /\ received' = 0
  /\ UNCHANGED <<wish, dest, retries, restarts, retriedResume>>

\* header_callback interrupts a reply whose Content-Length is not the expected
\* size; for a range a mirror reports the length of what remains, if any.
Mismatch == wish.size /\ from > 0 /\ received = 0

Receive ==
  /\ state = "running"
  /\ from + received < Blocks
  /\ temp' = Append(temp, from + received + 1)
  /\ received' = received + 1
  /\ UNCHANGED <<wish, state, dest, resume, resumeCount, offset, from, retries, restarts,
                 retriedResume>>

\* set_retrying: the outfile was closed before, so truncate_transfer_file
\* removes the file; the offset the next attempt resumes from is kept.
Retry ==
  /\ retries < AllowedMirrorFailures
  /\ state' = "waiting" /\ retries' = retries + 1
  /\ temp' = NoFile
  /\ retriedResume' = (retriedResume \/ from > 0)
  /\ UNCHANGED dest

\* set_failed removes the temporary file.
Fail ==
  /\ state' = "failed" /\ temp' = NoFile
  /\ UNCHANGED <<dest, retries, retriedResume>>

unchangedByOutcome == <<wish, resume, resumeCount, offset, from, received, restarts>>

\* check_filesize and check_checksums.
BrokenAccepted == wish.checksum => Len(temp) = Blocks
Accepted ==
  /\ wish.size => Len(temp) = Blocks
  /\ wish.checksum => temp = RemoteFile

\* The body is complete: the file is renamed, or left where it is if that fails
\* (the error is ignored), or the attempt was in vain.
Complete ==
  /\ state = "running"
  /\ from < Blocks /\ from + received = Blocks
  /\ \/ /\ Accepted
        /\ state' = "finished"
        /\ \/ dest' = temp /\ temp' = NoFile
           \/ UNCHANGED <<dest, temp>>
        /\ UNCHANGED <<retries, retriedResume>>
     \/ ~Accepted /\ (Retry \/ Fail)
  /\ UNCHANGED unchangedByOutcome

\* The connection breaks, or the mirror answers 416 to an offset at the end.
Break ==
  /\ state = "running"
  /\ Retry \/ Fail
  /\ UNCHANGED unchangedByOutcome

\* A fatal error: the header callback interrupted the transfer.
HeaderInterrupts ==
  /\ state = "running" /\ Mismatch
  /\ Fail
  /\ UNCHANGED unchangedByOutcome

\* The program is killed and run again with the same target; blocks that were
\* not flushed are lost.
Restart ==
  /\ restarts < MaxRestarts
  /\ state \in {"waiting", "running"}
  /\ restarts' = restarts + 1
  /\ state' = "waiting"
  /\ \E kept \in 0..Len(temp) :
       temp' = IF temp = NoFile THEN NoFile ELSE SubSeq(temp, 1, kept)
  /\ resume' = wish.resume /\ resumeCount' = 0 /\ offset' = -1
  /\ from' = 0 /\ received' = 0 /\ retries' = 0
  /\ UNCHANGED <<wish, dest, retriedResume>>

Terminated == state \in {"finished", "failed"} /\ UNCHANGED vars

Next == Prepare \/ Receive \/ Complete \/ Break \/ HeaderInterrupts \/ Restart \/ Terminated

Spec == Init /\ [][Next]_vars

-----------------------------------------------------------------------------
\* Every variable keeps its type; retries and resumptions are bounded.
TypeOK ==
  /\ wish \in Wishes
  /\ state \in {"waiting", "running", "finished", "failed"}
  /\ temp \in Seq(Nat) /\ dest \in Seq(Nat)
  /\ resume \in BOOLEAN /\ retriedResume \in BOOLEAN
  /\ resumeCount \in 0..MaxResumeCount
  /\ offset \in {-1} \cup Nat
  /\ from \in 0..Blocks /\ received \in 0..Blocks
  /\ retries \in 0..AllowedMirrorFailures /\ restarts \in 0..MaxRestarts

\* The file of a finished target, which the rename may not have moved.
FinishedFile == IF dest = NoFile THEN temp ELSE dest

\* Whatever attempts, resumptions and restarts came before, the finished file
\* of a target that has a checksum, or that never resumes, is the remote file.
CheckedIsWhole ==
  state = "finished" /\ (wish.checksum \/ ~wish.resume) => FinishedFile = RemoteFile

\* What every state satisfies: the types, the bounds, and the checked file.
ResumeInv == TypeOK /\ CheckedIsWhole

\* Only one sequence of steps can put a wrong file together: an attempt that
\* resumed from data is retried.  Until then, in every run of the program, the
\* temporary file is a prefix of the remote file, what curl delivers next
\* continues it exactly, and a finished file is the remote file.
OnlyRetriedResumesGoWrong ==
  ~retriedResume =>
    /\ temp # NoFile => Len(temp) <= Blocks /\ \A i \in 1..Len(temp) : temp[i] = i
    /\ state = "running" => temp # NoFile /\ Len(temp) = from + received
    /\ state = "finished" => FinishedFile = RemoteFile
=============================================================================
