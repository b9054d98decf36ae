---------------------------- MODULE ZckTransfer ----------------------------
(***************************************************************************)
(* One zchunk target: the state machine of zck.cpp, entered from           *)
(* Target::prepare_for_transfer (check_zck) and Target::finish_transfer.   *)
(* The remote file is a header followed by NChunks chunks.  The header and *)
(* then the missing chunks are fetched with range requests; chunks the old *)
(* file at the destination already has are copied from it.  A mirror that  *)
(* answers a range request with the whole file lowers its max_ranges, and  *)
(* at 0 the whole file is downloaded.                                      *)
(*                                                                         *)
(* The model has one transfer at a time and chooses the mirror of each     *)
(* attempt freely (select_suitable_mirror is the subject of Downloader).   *)
(* The temporary file does not exist before the first attempt, and         *)
(* assertions are compiled out.                                            *)
(*                                                                         *)
(* A definition named Broken... is a faulty variant of the one after it.   *)
(* Nothing uses it: it serves to show that a property can fail.            *)
(***************************************************************************)
EXTENDS Naturals, Sequences, FiniteSets

CONSTANTS
  NChunks,               \* number of chunks of the remote file
  Mirrors,
  Serves,                \* the most ranges a mirror serves in one request
  MaxRanges,             \* bound: MirrorStats::max_ranges, 256 in the code
  AllowedMirrorFailures, \* Downloader::allowed_mirror_failures
  OldChunks,             \* chunks an old or damaged version of the file has too
  InitialDests           \* what can be at the destination

Chunks == 1..NChunks

Dests == {"absent",   \* no file
          "garbage",  \* not a zchunk file
          "cut",      \* the lead of the remote file and nothing more
          "old",      \* another version of the remote file
          "damaged",  \* the remote file, with only some of its chunks intact
          "whole",    \* the remote file
          "broken"}   \* a wrong file that was reported as the remote file

ASSUME ZckConstantsOk ==
  /\ NChunks \in Nat \ {0} /\ MaxRanges \in Nat /\ AllowedMirrorFailures \in Nat
  /\ Serves \in [Mirrors -> Nat]
  /\ OldChunks \subseteq Chunks /\ InitialDests \subseteq Dests \ {"broken"}

\* header is "good" when zck_read_header accepts it, good are the chunks whose
\* data is in place.
Files == [header: {"none", "bad", "good"}, good: SUBSET Chunks]

NoData == [header |-> "none", good |-> {}]
Whole  == [header |-> "good", good |-> Chunks]

ZckStates == {"HEADER_LEAD", "HEADER_CK", "HEADER", "BODY_CK", "BODY", "FINISHED"}

\* ctx is the zchunk context: zck_dl is null; zck_dl has no zck; its zck has not
\* read a header yet; its zck has, and knows the chunks.  valid and failed are
\* the chunks whose zck_get_chunk_valid is 1 and -1.
ZckRecord == [state: ZckStates, ctx: {"no_dl", "no_zck", "created", "read"},
              file: Files, valid: SUBSET Chunks, failed: SUBSET Chunks,
              headerKnown: BOOLEAN]   \* zck_header_size and _checksum are set

VARIABLES
  state,     \* state of the target, "thrown" or "crashed"
  z,         \* ZckRecord
  outfile,   \* "none", "open", "removed" (open, its file deleted), "closed"
  dest,      \* content of the destination
  blocked,   \* the destination cannot be replaced: it is a directory, is
             \* protected or is in use; never changed
  mirror,    \* mirror of the transfer
  request,   \* what the transfer asks for
  wanted,    \* chunks a body request asks for
  maxRanges, \* MirrorStats::max_ranges of each mirror
  rangeFail, \* m_range_fail
  retries,   \* m_retries
  ended,     \* history: calls of the end callback
  misled     \* history: a whole-file transfer failed, or one that had already
             \* set the state to kFINISHED

vars == <<state, z, outfile, dest, blocked, mirror, request, wanted, maxRanges, rangeFail,
          retries, ended, misled>>

Settled == state \in {"finished", "failed", "thrown", "crashed"}

Init ==
  /\ state = "waiting" /\ outfile = "none" /\ dest \in InitialDests
  /\ blocked \in BOOLEAN /\ (dest = "absent" => ~blocked)
  /\ \E known \in BOOLEAN :
       z = [state |-> "HEADER_LEAD", ctx |-> "no_dl", file |-> NoData,
            valid |-> {}, failed |-> {}, headerKnown |-> known]
  /\ mirror \in Mirrors /\ request = "none" /\ wanted = {}
  /\ maxRanges \in [Mirrors -> {0, MaxRanges}]   \* earlier targets may have lowered it
  /\ rangeFail = FALSE /\ retries = 0 /\ ended = <<>> /\ misled = FALSE

-----------------------------------------------------------------------------
\* check_zck, in the order of its parts.

StartDownload(s) ==
  IF s.ctx # "no_dl" THEN s
  ELSE [s EXCEPT !.ctx = "no_zck",
                 !.state = IF s.headerKnown THEN "HEADER_CK" ELSE "HEADER_LEAD"]

\* The chunks of the remote file at the destination, whose name is also that of
\* the file to look for them in.
LocalChunks == CASE dest \in {"old", "damaged"} -> OldChunks
                 [] dest = "whole"             -> Chunks
                 [] OTHER                      -> {}

\* find_local_zck_header copies the file at the destination if its lead is the
\* one expected; reading the header of that copy may throw.
FindLocalHeader(s) ==
  IF s.ctx # "no_zck" THEN s
  ELSE IF dest \in {"damaged", "whole"}
       THEN [s EXCEPT !.state = "BODY_CK", !.ctx = "read",
                      !.file = [header |-> "good", good |-> LocalChunks]]
       ELSE [s EXCEPT !.state = "HEADER"]

LocalHeaderThrows(s) == s.ctx = "no_zck" /\ dest = "cut"

\* prepare_zck_header: reads the header, or empties the file to download it.
PrepareHeader(s) ==
  IF s.state # "HEADER" THEN s
  ELSE IF s.file.header = "good" THEN [s EXCEPT !.state = "BODY_CK", !.ctx = "read"]
                                 ELSE [s EXCEPT !.ctx = "created", !.file = NoData]

LocalChunksUnreadable == dest \in {"garbage", "cut"}

Complete(s) == [s EXCEPT !.state = "FINISHED", !.ctx = "no_dl"]

\* zck_find_valid_chunks and find_local_zck_chunks; the state stays kBODY_CK if
\* the latter fails.
BrokenCheckBody(s) ==
  LET copied == [s EXCEPT !.file.good = @ \cup LocalChunks,
                          !.valid = s.file.good, !.failed = {}, !.state = "BODY"]
  IN IF s.state # "BODY_CK" THEN s
     ELSE IF s.file.good = Chunks THEN Complete(s)
     ELSE IF LocalChunksUnreadable THEN s
     ELSE IF copied.file.good = Chunks THEN Complete(copied) ELSE copied
CheckBody(s) ==
  LET have == s.file.good \cup LocalChunks
      copied == [s EXCEPT !.file.good = have, !.valid = have, !.failed = {}, !.state = "BODY"]
  IN IF s.state # "BODY_CK" THEN s
     ELSE IF s.file.good = Chunks THEN Complete(s)
     ELSE IF LocalChunksUnreadable THEN s
     ELSE IF have = Chunks THEN Complete(copied) ELSE copied

\* zck_missing_chunks after zck_reset_failed_chunks; a context that has read no
\* header has no chunks.
BrokenMissing(s) == IF s.ctx = "read" THEN Chunks \ (s.valid \cup s.failed) ELSE {}
Missing(s) == IF s.ctx = "read" THEN Chunks \ s.valid ELSE {}

PrepareBody(s) ==
  IF s.state # "BODY" THEN s
  ELSE [s EXCEPT !.failed = {}, !.state = IF Missing(s) = {} THEN "FINISHED" ELSE "BODY"]

CheckZck(s, ranges) ==
  LET started == StartDownload(s)
      headed  == PrepareHeader(FindLocalHeader(started))
  IN CASE ranges = 0                                       -> [s EXCEPT !.state = "BODY"]
       [] ranges > 0 /\ started.state \in {"FINISHED", "HEADER_LEAD"} -> started
       [] OTHER -> IF headed.state = "HEADER" THEN headed ELSE PrepareBody(CheckBody(headed))

\* What the request asks for; "stale" when check_zck returned false.
RequestOf(s, ranges) ==
  CASE ranges = 0 -> "full"
    [] ranges > 0 /\ s.state = "HEADER_LEAD" -> "lead"
    [] ranges > 0 /\ s.state = "HEADER"      -> "header"
    [] ranges > 0 /\ s.state = "BODY"        -> "body"
    [] ranges > 0 /\ s.state = "BODY_CK"     -> "stale"

\* Adjacent chunks are one range.
RangeStarts(cs) == {c \in cs : c - 1 \notin cs}

FirstRanges(cs, ranges) ==
  {c \in cs : Cardinality({b \in RangeStarts(cs) : b <= c}) <= ranges}

-----------------------------------------------------------------------------
\* prepare_for_transfer.

\* The destination after reset_file renamed the temporary file, which may be
\* gone or have to stay where it is: the error is ignored.
Renamed(file) ==
  IF outfile = "removed" \/ blocked THEN dest
  ELSE IF file = Whole THEN "whole" ELSE "broken"

\* The parts of check_zck from find_local_zck_header on are executed.
LooksForHeader(s, m) == maxRanges[m] > 0 /\ s.state \notin {"FINISHED", "HEADER_LEAD"}

\* The header is to be validated although the lead was never read: an earlier
\* mirror without ranges has set the state to kBODY.
CheckCrashes(m) ==
  LET s == StartDownload(z)
  IN LooksForHeader(s, m) /\ ~s.headerKnown /\ (s.ctx = "no_zck" \/ s.state = "HEADER")

\* check_zck leaves with the exception of find_local_zck_header.
CheckThrows(m) ==
  LooksForHeader(StartDownload(z), m) /\ LocalHeaderThrows(StartDownload(z))

CheckReturns(m) == ~CheckCrashes(m) /\ ~CheckThrows(m)

PreparationStops(m) ==
  /\ state = "waiting" /\ ~CheckReturns(m)
  /\ state' = (IF CheckCrashes(m) THEN "crashed" ELSE "thrown") /\ mirror' = m
  /\ UNCHANGED <<z, outfile, dest, blocked, request, wanted, maxRanges, rangeFail, retries,
                 ended, misled>>

\* The zchunk file is complete: no transfer is needed.
PreparationFinishes(m) ==
  LET s == CheckZck(z, maxRanges[m])
  IN /\ state = "waiting" /\ CheckReturns(m)
     /\ s.state = "FINISHED"
     /\ state' = "finished" /\ ended' = Append(ended, "SUCCESSFUL")
     /\ z' = s /\ outfile' = "closed" /\ dest' = Renamed(s.file)
     /\ mirror' = m /\ rangeFail' = FALSE
     /\ UNCHANGED <<blocked, request, wanted, maxRanges, retries, misled>>

\* A transfer is handed to curl, even if check_zck returned false and the target
\* was failed for it.
PreparationRuns(m) ==
  LET s == CheckZck(z, maxRanges[m])
      failedAlready == RequestOf(s, maxRanges[m]) = "stale"
  IN /\ state = "waiting" /\ CheckReturns(m)
     /\ s.state # "FINISHED"
     /\ state' = "running" /\ z' = s /\ mirror' = m
     /\ request' = RequestOf(s, maxRanges[m])
     /\ wanted' = IF request' = "body" THEN FirstRanges(Missing(s), maxRanges[m]) ELSE {}
     /\ outfile' = CASE failedAlready      -> "removed"
                     [] outfile = "none"   -> "open"
                     [] OTHER              -> outfile
     /\ ended' = IF failedAlready THEN Append(ended, "ERROR") ELSE ended
     /\ rangeFail' = (maxRanges[m] = 0 /\ rangeFail)
     /\ UNCHANGED <<dest, blocked, maxRanges, retries, misled>>

-----------------------------------------------------------------------------
\* How a transfer ends.

RetriesLeft == retries < AllowedMirrorFailures

\* No error, and the target is not finished: it waits for the next part.
NextPart(s) ==
  /\ state' = "waiting" /\ z' = s
  /\ UNCHANGED <<outfile, dest, retries, ended, misled>>

\* An error: set_retrying or set_failed.  The outfile is closed before if the
\* state is kFINISHED, and emptied if it is kHEADER.
Errs(s, fatal) ==
  /\ misled' = (misled \/ request = "full" \/ s.state = "FINISHED")
  /\ UNCHANGED dest
  /\ \/ /\ ~fatal /\ RetriesLeft
        /\ state' = "waiting" /\ retries' = retries + 1
        /\ z' = IF s.state = "HEADER" THEN [s EXCEPT !.file = NoData] ELSE s
        /\ outfile' = IF s.state = "FINISHED" THEN "closed" ELSE outfile
        /\ UNCHANGED ended
     \/ /\ fatal \/ ~RetriesLeft
        /\ state' = "failed" /\ ended' = Append(ended, "ERROR")
        /\ z' = [s EXCEPT !.file = NoData]
        /\ outfile' = IF s.state = "FINISHED" THEN "closed" ELSE "removed"
        /\ UNCHANGED retries

\* finish_transfer once the state is kFINISHED: zck_init_read needs the header
\* checksum and a readable header, zck_validate_checksums every chunk.
Validated(s) ==
  LET f == [s EXCEPT !.state = "FINISHED"]
  IN CASE ~s.headerKnown ->
            state' = "crashed" /\ z' = f /\ UNCHANGED <<outfile, dest, retries, ended, misled>>
       [] s.headerKnown /\ s.file.header # "good" ->
            state' = "thrown" /\ z' = f /\ UNCHANGED <<outfile, dest, retries, ended, misled>>
       [] s.headerKnown /\ s.file.header = "good" /\ s.file.good # Chunks ->
            Errs(f, FALSE)
       [] OTHER ->
            /\ state' = "finished" /\ ended' = Append(ended, "SUCCESSFUL")
            /\ z' = f /\ outfile' = "closed" /\ dest' = Renamed(f.file)
            /\ UNCHANGED <<retries, misled>>

unchangedByEnd == <<blocked, mirror, request, wanted>>

\* The number of ranges the request stands for: the lead and the header are
\* asked for without a zckRange.
RangeCount == IF request = "body" THEN Cardinality(RangeStarts(wanted)) ELSE 0

Refused ==
  \/ request \in {"lead", "header", "stale"} /\ Serves[mirror] = 0
  \/ request = "body" /\ Serves[mirror] < RangeCount

Answered(what) == state = "running" /\ request = what /\ ~Refused

\* zck_read_lead: the lead tells the size and checksum of the header.
BrokenLeadRead(s) == [s EXCEPT !.state = "HEADER_CK"]
LeadRead(s) == [s EXCEPT !.headerKnown = TRUE, !.state = "HEADER_CK"]

LeadArrives(good) ==
  /\ Answered("lead")
  /\ NextPart(IF good THEN LeadRead(z) ELSE z)
  /\ UNCHANGED <<unchangedByEnd, maxRanges, rangeFail>>

HeaderArrives(header) ==
  /\ Answered("header")
  /\ NextPart([z EXCEPT !.file.header = header])
  /\ UNCHANGED <<unchangedByEnd, maxRanges, rangeFail>>

\* zck_valid_header throws if the lead of the header is not the expected one.
HeaderMismatch ==
  /\ Answered("header")
  /\ state' = "thrown"
  /\ UNCHANGED <<z, outfile, dest, retries, ended, misled, unchangedByEnd, maxRanges, rangeFail>>

\* Chunks arrive; those whose checksum is wrong are marked failed.
BodyArrives(got, broken) ==
  LET s == [z EXCEPT !.file.good = (@ \ broken) \cup got, !.valid = @ \cup got, !.failed = broken]
  IN /\ Answered("body")
     /\ IF s.failed = {} /\ Missing(s) = {} THEN Validated(s) ELSE NextPart(s)
     /\ UNCHANGED <<unchangedByEnd, maxRanges, rangeFail>>

\* The whole file, written by the plain callbacks; a closed outfile is a null FILE*.
FullArrives(file) ==
  /\ state = "running" /\ request = "full" /\ rangeFail
  /\ IF outfile = "closed"
     THEN state' = "crashed" /\ UNCHANGED <<z, outfile, dest, retries, ended, misled>>
     ELSE Validated([z EXCEPT !.file = file])
  /\ UNCHANGED <<unchangedByEnd, maxRanges, rangeFail>>

\* The zchunk callbacks still expect ranges and stop the whole file.
FullRefused ==
  /\ state = "running" /\ request = "full" /\ ~rangeFail
  /\ rangeFail' = TRUE
  /\ Validated(z)
  /\ UNCHANGED <<unchangedByEnd, maxRanges>>

\* A mirror answers a range request with the whole file: zckheadercb stops the
\* transfer, check_finished_transfer_status lowers max_ranges and reports no
\* error.  At 0 finish_transfer takes the body for a whole-file transfer.
BrokenLowered(count) == count
Lowered(count) == count \div 2

RangeRefused ==
  /\ state = "running" /\ Refused
  /\ rangeFail' = TRUE
  /\ maxRanges' = [maxRanges EXCEPT ![mirror] = IF @ >= RangeCount THEN Lowered(RangeCount) ELSE @]
  /\ CASE request = "lead" ->
            NextPart(IF z.file.header = "good" THEN LeadRead(z) ELSE z)
       [] request = "body" /\ maxRanges'[mirror] = 0 -> Validated(z)
       [] OTHER -> NextPart(z)
  /\ UNCHANGED unchangedByEnd

\* curl or the mirror reports an error; part of the data may have arrived.  A
\* stale request always ends so: no range is set for its data to be written to.
TransferErrs(fatal) ==
  /\ state = "running"
  /\ \/ /\ request \in {"lead", "header", "stale"} \/ (request = "full" /\ ~rangeFail)
        /\ Errs(z, fatal)
     \/ /\ request = "body"
        /\ \E got \in SUBSET wanted :
             Errs([z EXCEPT !.file.good = @ \cup got, !.valid = @ \cup got], fatal)
     \/ /\ request = "full" /\ rangeFail
        /\ \E file \in Files : Errs([z EXCEPT !.file = file], fatal)
  /\ UNCHANGED <<unchangedByEnd, maxRanges, rangeFail>>

Terminated == Settled /\ UNCHANGED vars

-----------------------------------------------------------------------------
PrepareStep ==
  \E m \in Mirrors : PreparationStops(m) \/ PreparationFinishes(m) \/ PreparationRuns(m)

\* The mirror sends what was asked for.
HonestAnswer ==
  \/ LeadArrives(TRUE) \/ HeaderArrives("good") \/ BodyArrives(wanted, {})
  \/ FullArrives(Whole) \/ FullRefused \/ RangeRefused

OtherAnswer ==
  \/ LeadArrives(FALSE) \/ HeaderArrives("bad") \/ HeaderMismatch
  \/ \E got \in SUBSET wanted : \E broken \in SUBSET (wanted \ got) : BodyArrives(got, broken)
  \/ \E file \in Files : FullArrives(file)
  \/ \E fatal \in BOOLEAN : TransferErrs(fatal)

Next == PrepareStep \/ HonestAnswer \/ OtherAnswer \/ Terminated

Spec == Init /\ [][Next]_vars

\* curl finishes every transfer, and the mirrors do not answer wrongly or with
\* an error for ever.
Fairness == WF_vars(PrepareStep \/ HonestAnswer \/ OtherAnswer) /\ SF_vars(HonestAnswer)

FairSpec == Spec /\ Fairness

-----------------------------------------------------------------------------
\* Properties.

\* Every variable keeps its type, and retries their bound.
TypeOK ==
  /\ state \in {"waiting", "running", "finished", "failed", "thrown", "crashed"}
  /\ z \in ZckRecord
  /\ outfile \in {"none", "open", "removed", "closed"}
  /\ dest \in Dests /\ blocked \in BOOLEAN
  /\ mirror \in Mirrors
  /\ request \in {"none", "lead", "header", "body", "full", "stale"}
  /\ wanted \in SUBSET Chunks
  /\ maxRanges \in [Mirrors -> 0..MaxRanges]
  /\ rangeFail \in BOOLEAN /\ misled \in BOOLEAN
  /\ retries \in 0..AllowedMirrorFailures
  /\ ended \in Seq({"SUCCESSFUL", "ERROR"})

\* A target that is reported as finished and not as failed has the remote file,
\* put together from any mixture of copied, repeated, corrupt and missing
\* chunks, unless an attempt failed that had taken the file for complete.  It is
\* at the destination, or left in the temporary file if that cannot be replaced.
FinishedIsWhole ==
  ended = <<"SUCCESSFUL">> /\ ~misled => z.file = Whole /\ (blocked \/ dest = "whole")

\* What every state satisfies: the types, the bounds, and the finished file.
ZckInv == TypeOK /\ FinishedIsWhole

\* A body request is made only for a file whose header has been validated, and
\* asks only for chunks the file does not have (the point of zchunk).
BodyRequestExact ==
  state = "running" /\ request = "body" /\ ~misled =>
    /\ z.file.header = "good"
    /\ wanted # {} /\ wanted \cap z.file.good = {}

\* The header checksum is dereferenced without a test (zck.cpp:133, :140), as is
\* a closed file.  While every mirror serves some ranges no order of answers,
\* refusals and errors gets there: the state machine reads the lead first.
CrashNeedsNoRanges == state = "crashed" => \E m \in Mirrors : maxRanges[m] = 0

\* The parts of the file all arrive in the end, however often mirrors refuse
\* ranges; or the download stops with an error.
DownloadSettles == <>Settled
=============================================================================
