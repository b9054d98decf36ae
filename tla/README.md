# Verification of powerloader

powerloader downloads files from several mirrors at once over one curl multi
handle, retries them on other mirrors, resumes partial files, fetches zchunk
files in ranges, and talks to OCI registries.  This directory holds TLA+ models
of that control logic, the TLC configurations that check them on small
instances, and TLAPS proofs of the main invariants for every instance.  Paths
below are relative to the repository root, in its directories `src/` and
`include/powerloader/`.

## The system

| Component | State it keeps | Operations | Hard parts |
|---|---|---|---|
| Downloader (`downloader.cpp`) | targets, `m_running_transfers`, the multi handle, options | `add`, `download`, `check_msgs`, `prepare_next_transfers`, `select_next_target`, `select_suitable_mirror` | DONE messages in any order, aborts half-way through the queue, slot counting, retries across mirrors, termination |
| Target (`target.cpp`) | `m_state`, `m_mirror`, tried mirrors, retries, resume offset, open file, zchunk state | `prepare_for_transfer`, `finish_transfer`, `finalize_transfer`, `set_retrying`, `set_failed`, `reset_file` | a temporary file closed, removed or renamed on many paths; one end callback; state that survives the file it describes |
| Mirror (`mirror.cpp`) | connection counters and limit, success and failure counts, `max_ranges`, backoff | `update_statistics`, `increase_running_transfers`, `sort_mirrors` | counters shared by all targets and changed on different paths; a limit lowered under running transfers |
| zchunk (`zck.cpp`) | `m_zck_state`, the zchunk context, header size and checksum | `check_zck`, `find_local_zck_*`, `prepare_zck_*`, `zck_read_lead` | a state machine resumed after every transfer, on mirrors that serve a different number of ranges |
| OCI mirror (`mirrors/oci.cpp`) | a token and a digest per repository | `needs_preparation`, `prepare`, `get_auth_headers`, `format_url` | shared by all targets of a repository; callbacks in any order |
| OCI upload (`uploader/oci_upload.cpp`) | nothing of its own | `oci_upload`, `OCILayer::upload` | partial failure between blobs and manifest; the token cache of the mirror |
| DownloadTarget (`download_target.cpp`) | what is to be downloaded, and where to | `from_url`, `already_downloaded`, `validate_checksum` | |
| Context, mirror map (`context.cpp`) | settings; mirrors per host name; two process-wide flags | constructor, destructor, `create_unique_mirror`, `add_unique_mirror`, `reset` | mirrors outlive a Downloader; Contexts created and destroyed in several threads; constructors that throw |
| Command line (`cli/main.cpp`) | options, one Context | `handle_download`, `handle_upload`, `parse_mirrors` | what the exit code tells of several partial failures |
| S3 mirror and upload, fastest mirror, compression, strings and hashing (`mirrors/s3.cpp`, `fastest_mirror.cpp`, `compression.cpp`, `utils.cpp`, `url.cpp`) | none that outlives a call, but for a decoder's buffer | | see "Not modelled" |
| curl wrapper (`curl.cpp`), Python bindings | `CURLSetup` | | claimed and released in several steps |

How they interact: `Downloader::download` is one thread.  In each round it
calls `curl_multi_perform`, reads the DONE messages (`check_msgs`) and hands
waiting targets to curl (`prepare_next_transfers`).  It calls Target methods,
which call the Target's Mirror, its file, and the caller's end callback; curl
calls the Target's header and write callbacks.  Mirrors are shared by all
targets through the Context.  Concurrency is therefore between *transfers*:
curl may finish any of them between two rounds, in any order, with any result.

What makes each component correct: a target settles once and is reported once,
when and as it settles; its destination changes only when it finishes and then
holds a checked file; no mirror serves more transfers than it may; no more than
`max_parallel_downloads` run; the loop ends and its result tells the truth;
chunks and resumed data are put together into the remote file; requests to a
registry carry its token and ask for the right blob; a manifest is published
after its blobs; a later download of a Context starts from what the earlier
ones learned and not from what they forgot to undo; one Context and one
initialisation of libcurl exist at a time; the mirrors of a host are unique;
the exit code tells what happened.

## Modules

| Module | Models |
|---|---|
| `Mirror` | `MirrorStats` and its updates, `rank`, `sort_mirrors` |
| `Target` | one record per target and an operator per method of Target |
| `Downloader` | the event loop, composed of `Mirror` and `Target`, with curl as the other actor |
| `DownloadService` | what `download()` promises, as jobs that are pending, active, finished or failed |
| `DownloaderRefinement` | the mapping of `Downloader` to `DownloadService` |
| `ResumeTransfer` | the `.pdpart` file of one resumable target, over retries and restarts |
| `ZckTransfer` | one zchunk target: `check_zck`, the zchunk branches of Target, `max_ranges` |
| `OciMirror` | the token and digest cache of a registry, shared by concurrent targets |
| `OciUpload` | a sequence of uploads to one repository |
| `Session` | several downloads, one after the other, over the mirrors of one Context: `Downloader` and what happens between two runs of it |
| `SharedDestination` | targets whose destinations coincide: the files, as inodes, that they open, truncate, remove and rename |
| `ContextLifecycle` | construction and destruction of Contexts and of the `CURLSetup` in several threads |
| `MirrorMap` | `mirror_map_type`, `parse_mirrors`, `DownloadTarget::from_url`, and the lists that Targets copy |
| `CommandLine` | `main`, `handle_upload`, `handle_download` |
| `DownloaderProofs`, `SharedProofs`, `ProcessProofs`, `UploadProofs`, `OciProofs`, `ResumeProofs`, `ZckProofs`, `MirrorMapProofs` | proofs |
| `MC...` | values of the constants for TLC |

### Downloader

`phase` is the program counter of `download()`.  One action stands for one
outcome of one loop body: `StartTransfer`, `StartPreparation`, `AddHandleFails`,
`OpenFileThrows`, `NoCandidate`, `SelectionFails`, `SlotsExhausted` are the
outcomes of `prepare_next_transfer`; `TransferRetried`, `TransferFailed`,
`TransferSucceeded`, `PreparationSucceeded`, `RetryCrashes`, `FinishThrows`,
`UnknownTransfer` those of a DONE message; `Abort` is the code after a
`check_msgs` that returned false.  An action includes every call its code
makes: `AfterTransfer` is the status check, `finish_transfer`, `reset` and
`complete_mirror_usage` with `sort_mirrors`, in that order.  `CurlPerform`
finishes any set of transfers; the outcome is chosen from `Messages` when the
message is read.  The passes of `select_suitable_mirror` are an operator over
(pass, position) pairs, so that the order of the list matters as in the code.

The uninitialised `m_zck_state` (`target.hpp:241`, read for every target at
`downloader.cpp:463`) is the field `zckFinished`, chosen freely for the targets
in `UninitFinished`.  A preparation is `PrepSteps` requests per mirror and
target: the targets of `Downloader` are in different repositories; targets
that share one are the subject of `OciMirror`.

A destination that no file can be renamed onto (a directory, a protected path,
a file in use) is the field `stuck`, chosen freely for the targets in `MayStick`:
the code ignores the error of the rename (`target.cpp:62`).

`inflight` is what curl's multi handle holds, `running` what `m_running_transfers`
lists; they differ in the unrecorded targets.  `Using(m)` is the transfers curl
holds on mirror `m`, `Forgotten(m)` the unrecorded targets of `m` whose DONE
message was dropped: they stay `RUNNING`, and in the counter of their mirror,
for ever.

### ResumeTransfer, ZckTransfer

The data of a file is the sequence of its block numbers, or the header and the
set of chunks in place.  Both modules leave the choice of the mirror and the
other targets out (`Downloader` has them) and have all of the file's control:
which attempt keeps, truncates or removes what.  In both the rename at the end may
fail, and the finished file is then the temporary one.  `ZckTransfer` begins with
nothing, another file, an unreadable one, an older version, a damaged one with
the right header, or the whole file at the destination.  In it assertions
are compiled out, so that what happens after a broken one is visible.
`misled` marks behaviours in which a transfer failed that had already set the
state to `kFINISHED`, or that fetched the whole file: see below, "Where the code is
weaker than one would expect".

### OciMirror, OciUpload

`cache` is `m_path_cb_map`, keyed by the repository, as in the code.  A target's
request in flight is its `state`; the callbacks of `prepare` are the actions
`TokenArrives` and `ManifestArrives`.  `OciUpload` has one action per answer and
`RequestThrows` for an exception after which the registry may or may not have
done what it was asked.

A preparation may also never begin: `check_zck` throws for a file it cannot
read, and dereferences a null pointer if an earlier mirror without ranges has
set the state to `kBODY` before any lead was read (`PreparationStops`).

### Session, SharedDestination

`Session` EXTENDS `Downloader` and adds the step between two downloads: a new
Downloader over the mirrors of the Context, with `NewTarget` records and the
statistics the earlier one left; `leaked` remembers what interruptions left.
`SharedDestination` has names and inodes, so that a file another target removed
or renamed can still be written; a target's destination is what `from_url`
makes of its URL, `-o` and `-d`.  A path is a directory, a name and the number of
`.pdpart` it ends with, so that the temporary file of one target can be the
destination of another.  `blocked` are the destinations that can be neither
opened nor replaced: the rename onto one fails silently, and opening one (as the
temporary file of another target) throws.

### Around the loop: ContextLifecycle, MirrorMap, CommandLine

A thread of `ContextLifecycle` is at one atomic operation of the code at a
time: the two flags are the shared state.  `MirrorMap` has a Mirror object per
creation, so that "the same mirror" is identity and not equality.
`CommandLine` takes from `Downloader` what a download can end with (a target
is finished or failed, and the result is true unless it was aborted).  `PlaceOf`
is the dest:tag, or the path in the bucket, of each name: a server has one file
at a place, so that a second upload to it replaces the first (`Published`).

### Type invariants

Where `TypeOK` is not the subject of a theorem it is checked together with the
module's main safety invariant: `ResumeInv`, `ZckInv`, `OciInv`, `UploadInv`,
`MapInv`, `CommandInv` and `DiskInv` are `TypeOK` and one named property each.

## Runs

| Run | Shows | Bounds, and why they are enough |
|---|---|---|
| `dl_http` | callbacks, files; final targets stable, destinations safe, fresh mirrors first | 2 targets, the first of them perhaps stuck, 2 mirrors, 2 connections, 3 attempts, five kinds of messages, all options and faults: every pair of outcomes in every order, with retries on the other mirror and both reasons for an abort |
| `dl_limits` | counters, connection limit, isolation of failures | 3 targets, 2 mirrors, 3 connections, 3 parallel: a limit is lowered from 3 to 2 and 1 while others still run, and a target waits for a mirror; the first target may be unrecorded, and its message dropped while the others run |
| `dl_oci` | types, slots, messages, counters with preparations; the loop implements the service | 3 targets for 2 slots, the first of two mirrors prepared by 2 requests, 1 useless answer, every fault |
| `session` | counters are exact up to what an interruption left; every download stops, and settles its targets with `allow_failure` | 2 downloads of 2 targets over 2 mirrors with 2 connections, fair: the first may be interrupted, or left by an exception, with both mirrors in use |
| `resume` | a resumed file is whole, or a resumed attempt was retried | 3 blocks, 3 resumptions, 3 retries, 2 restarts, all wishes, the rename failing or not: a restart may lose any suffix and a retry follows any prefix |
| `zck` | the file is whole, requests are exact, the download settles | 3 chunks, so that missing ones are adjacent or not; a mirror with single ranges and one with none; `MaxRanges` 2, so that halving takes two steps; every kind of file at the destination, replaceable or not |
| `oci` | authorised requests, own blobs, preparations end | 3 targets, two of them tags of one repository; all credentials and checksums |
| `upload` | manifests are complete and stay published, results tell the truth | 3 uploads of 2 layers and a config, the third under the first one's tag |
| `shared` | files of targets that share a destination | 2 targets of 2 blocks, 1 retry, `-o` and `-d` given or not, names that coincide or differ by `.pdpart`, every set of blocked destinations and old files |
| `ctx` | one Context, one set-up of libcurl | 3 threads, so that one can come between two others |
| `mirror_map` | mirrors are unique, URLs are served, targets share mirrors | 2 hosts, 2 mirrors made, 2 targets, 1 replacement of the map |
| `cli` | exit code and output tell what happened | 3 names, one of them repeated, two for one dest:tag |

Bounds that are not in the code are `MaxIgnoredAnswers` (preparation answers
without content; the code has no limit), `MaxRestarts`, `NUploads`,
`NDownloads`, the numbers of objects, targets and epochs of `MirrorMap`, and
the value of `MaxRanges` (256 in the code).  The number of attempts
(`AllowedMirrorFailures`) is 3 in the code and 2 in the larger runs, which
already has a first attempt, a retry and a last one; `shared` has one retry,
which is enough for one target to remove the file the other one still writes,
and `oci` one, since its subject is the preparations, which are not counted.

Deadlock is checked in every run but `mirror_map`, which stops where its bound
does: the other modules have an action `Terminated` (`Exited`, `SessionEnds`)
for the states in which the program has really stopped.  `ContextLifecycle`
never stops.

### Fairness

* `Session!SessionFairness`: the loop never waits for anything but curl, so its
  steps are weakly fair together; `curl_multi_perform` finishes every transfer
  it holds, because connect timeout and low-speed limit (set in `curl.cpp`) end
  it at the latest.  The second part is strong fairness per target: whether the
  transfer is in the set of finished ones is a choice made in each round.
  Nothing is assumed about whether a program starts another download.
* `ZckTransfer!Fairness` and `OciMirror!Fairness` also assume that a mirror does
  not answer wrongly for ever.  The code has no bound there: a lead that cannot
  be read (`zck.cpp:411`) or an answer without a token (`oci.cpp:165`) is asked
  for again, and forgets the retries.  The liveness properties say that nothing
  else can keep such a download from ending.

## Proofs

All theorems hold for every number of targets and mirrors, every list of
mirrors, every limit, every set of messages, faults and callback results that
`ConstantsOk` and the assumptions of `Mirror` and `Target` allow.

* `DownloaderProofs`, first part: what each operator of `Target` and `Mirror`
  does to a record: `sort_mirrors` permutes the list (`SortMirrorsPermutes`: there is a
  bijection between the positions of the old list and of the new one), a settled
  record satisfies `Reported` and `FilesOk`, the mirror and the tried ones stay
  listed.  These lemmas are the only place where files and callbacks are looked
  into.
* `DownloaderProofs`, second part: the inductive invariant is
  `Inv == TypeOK /\ TargetsOk /\ SlotLimit /\ RunningInTransfer /\ (phase = "start" => ...)`,
  and `RecordInv` adds that `m_running_transfers` is what curl holds but for the
  unrecorded targets, which turns `SlotLimit` into `ParallelLimit`.
  Neither `TypeOK` nor the callback property is inductive alone.  That `slots`
  stays a natural number needs its value to be bounded by what `SlotLimit`
  leaves; a target that ends must be in transfer to be reported for the first
  time, which `RunningInTransfer` gives for the targets in
  `m_running_transfers`, also when `Abort` fails all of them at once; and a
  target that never ran has no file to leave behind, which is why
  the first phase needs its untouched targets.  `FinalTargetsStable` follows
  from the same step lemmas.
* `DownloaderProofs`, third part: everything else the runs check of `Downloader`,
  the refinement of `DownloadService`, and `Session`.  It rests on one lemma,
  `StepKinds`: under `Inv` every step of the loop is of one of four kinds.
  `Quiet(to)` starts and ends no transfer, and what settles in it settles in
  state `to`; `Begins(t, m)` hands one target to curl; `Ends(t)` handles its
  message; `Abort` fails what is in progress.  Each kind says what the step does
  to curl's handles, the slots, the statistics, the destinations and the
  result, so that each theorem is a case split over kinds and never opens an
  action again:
  - `DestinationsSafe`, `MirrorsTriedFirst`: directly from the kinds; the second
    also needs that a mirror selected again comes from a later pass, and that the
    first pass would have offered any untried mirror below its limit.
  - `CountersNeverOverstated`, `LimitsOnlyLowered`, for all constants, with
    preparations: `CountersInv` adds to `Inv` that the surplus of a counter over
    the number of transfers it stands for (`Held`: those curl has, and the
    forgotten ones, by `HeldIsUsing`) is never positive (it only falls, by the end of a
    preparation), and that no counter exceeds its limit.  The latter is why a
    limit that becomes the counter after one transfer has ended is lower than it
    was.
  - `TransfersCounted`, `ConnectionsLimited`, with `NoPreparations`: then the
    surplus stays zero, and what is true of the counter is true of the number of
    transfers.
  - `FailuresStayIsolated`: an invariant about `opts` says that only a download
    that may be ended by one target is about to abort.  That none throws or
    crashes (`NoStepCrashes`) needs that there are transfers only and no
    preparations (`OnlyTransfers`): the file of a transfer was opened, and what curl
    wrote to it is there when it ends.
  - `ParallelLimit` is about the transfers the loop records.  `CurlWithinLimit`
    says of what curl holds that it stays within the limit too, if every
    transfer is recorded.
  - `MessagesAlwaysMatch`: `MatchInv` adds that the free slots are the ones that
    `m_running_transfers` leaves.  Without that, a loop with an empty list and no
    slot would be a state from which the next theorem fails.
  - `ServiceImplemented`: the refinement, step by step: `Quiet` is `AlreadyThere`
    or `GiveUp`, `Begins` is `Start`, `Ends` is `Requeue`, `Finish` or `Fail`, and
    `Abort` is `Abort`.  That "true" means all have settled needs `MatchInv`: the
    loop tests only that its list is empty (`downloader.cpp:742`).
  - `OnlyInterruptedLeak`: over any number of downloads the counter is accounted
    for; `EveryDownloadSafe`: `Inv` does not depend on the initial statistics,
    so callbacks, files and slots are as safe in every later download.
* `ProcessProofs`, first part: `ContextLifecycle`, for every set of threads.
  That two threads never hold a Context (or a `CURLSetup`) at once is not
  inductive: a step that sets a flag must know that no other thread is behind
  it.  `FlagsExplained` says so, each flag is set only for a thread in certain
  phases or for a constructor that threw, and `ContextInv` adds the types and
  that the phases of two threads exclude each other.  The names of
  `ContextLifecycle` begin with `Context` where `CommandLine` has the same one.
* `ProcessProofs`, second part: `CommandLine`, for every list of files.  What
  `erase_duplicates` returns has as many elements as there are files and none
  twice; counting shows that it then has all of them (`ErasedNames`).  That no
  name is uploaded twice, and that exit code 0 means everything was announced,
  takes an invariant about the loop: files after `done` were not sent, and the
  place of each file up to it holds that file or a later one up to it (`InTurn`,
  `PlaceTaken`).  If no two files are for one place, exit code 0 means that all are
  stored (`DistinctUploadsStored`).  The exit code of a download rests on
  what `DownloadService` promises, which is proved here as an invariant of it
  (`JobsReported`, by `ServiceStep`): a job is reported once when it is settled
  and not before, and "true" means that all are.  `ServiceImplemented` of
  `DownloaderProofs` says that the loop keeps that promise, under the
  assumptions in the table below.
* `UploadProofs`: the registry's manifests are complete because a target that has
  reached the manifest has stored every blob before it (`UploadedSoFar` in the
  inductive invariant), and nothing removes a blob; the same lemmas give the
  action property about results.  `PublishedStays`, a part of `UploadInv`, says
  of the registry what `CommandLine` takes from it: what returned ok stays
  published until a later upload under its tag replaces it.  A tag
  is only ever taken over by the upload in progress, which is the last one
  (`PublicationKept`).
* `OciProofs`: a token is in the cache of a repository only if it was given for
  that repository, a target that asks for a blob has a digest, and the digest
  is its own unless another tag without a checksum may have learnt one.  The
  cache only ever grows (`CacheLearns`), which is `PreparedForGood`.
* `ResumeProofs`: for any number of blocks.  The invariant follows what is known
  of the data: the temporary file is a prefix of the remote one as long as no
  resumed attempt was retried, and `from + received` says where curl is.
* `ZckProofs`: for any number of chunks and mirrors, what each state of the
  zchunk state machine says of the file (`StateTells`): from `kBODY_CK` on the
  header is good and the context has read it, in `kBODY` the chunks marked valid
  are the ones in the file.  One lemma per part of `check_zck` shows that it
  keeps that or finishes with the remote file.  `RequestFits` ties a request to
  the state it was made in, and `LeadIsKnown` says that the header's checksum is
  known as soon as it is needed, unless some `max_ranges` is 0; a limit of 0 is
  never raised again.  That a body request asks for something takes the
  smallest missing chunk, which exists because `<` is well-founded.
* `MirrorMapProofs`: a step lets every list of the map grow at its end
  (`Growth`), adds a target, or replaces the map and begins an epoch.  What
  requests and targets of an epoch rely on survives growth: the list of a
  target remains the beginning of its host's list (`TargetsAreCopies`).
* `SharedProofs`: for any number of targets, files and blocks.  The argument is
  about who can reach an inode: no inode has two names (`OneName`), what is at
  the paths of a target that shares none is open in no other target
  (`LoneFilesApart`), and every temporary file that is no destination is held
  open by a target that will remove or rename it (`TempsAreOpen`), so that none is
  left when all have settled, unless the rename must fail.  A target that is
  alone therefore writes and renames what no other one can reach
  (`LoneTempsBegun`).  `FreeInode` counts the inodes in use, so that creating a
  file always finds one of the model's.

Some theorems assume something about the constants, and each assumption is one
that the code needs:

| Assumption | Theorems | Why |
|---|---|---|
| `NoPreparations` | `TransfersCounted`, `ConnectionsLimited`, `OnlyInterruptedLeak` | the end of a preparation decrements a counter that its start did not increment (`target.cpp:842`): with OCI mirrors the counter becomes negative, as `dl_oci` shows, and the limit compares with it |
| `UninitFinished = {}` | `CurlWithinLimit`, `MessagesAlwaysMatch`, `ServiceImplemented`, `OnlyInterruptedLeak` | a target whose uninitialised `m_zck_state` reads as `kFINISHED` is given to curl and not put on the list (`downloader.cpp:463`); its message is then dropped |
| `NoPreparations`, no `"add_handle"` and no `"open_file"` fault, no `"ERROR"` from callbacks | `FailuresStayIsolated` | a failed preparation crashes (`target.cpp:124`), the others throw out of the whole download or end it (`target.cpp:167`, `downloader.cpp:481`, `:677`), whatever the options say |
| different names have different places | `DistinctUploadsStored` | two files for one dest:tag replace each other in the registry |
| `MaxResumeCount > 0` | `OnlyRetriesSpoil` | with 0 the file is opened in append mode (`target.cpp:158`) before the resumption is taken back (`:612`), and a first attempt appends to old data; the default is 3 (`context.hpp:137`) |

`MapConstantsOk` assumes that the kinds of mirrors include HTTP and that a mirror
may be given without a slash: `from_url` creates such mirrors
(`download_target.cpp:49`, `:60`).  `ListsNameFiles` says that the lists of
`CommandLine` are finite sequences in which every file of the model is named,
which only says what `Files` are.

Only model-checked: liveness under fairness, which is beyond the prover
(`EveryDownloadStops`, `EveryTargetSettles`, `TargetsSettle`,
`DownloadSettles`).  Every invariant and every action property of the runs is
stated by a theorem.

## Where the code is weaker than one would expect

The models do what the code does, so the properties above are stated around
these places.  The name of a property says which one draws the line.

* A resumed attempt that is retried starts again from the old offset although
  the file was removed (`target.cpp:622`); without size and checksum the file
  is reported as finished with its beginning missing.  `CheckedIsWhole` and
  `OnlyRetriedResumesGoWrong`: this is the only way.
* Two tags of one repository share a digest (`oci.cpp:202`), and a target
  downloads the other tag's blob.  `BlobIsOwnIfAlone`: nothing else confuses
  blobs.
* `running_transfers` stays above zero after an interrupted download, and the
  next one over the same Context finds its mirrors busy (`downloader.cpp:733`).
  `LeakedByInterrupted`: nothing else leaks where every transfer is recorded.
* A transfer that is not recorded, since its uninitialised `m_zck_state` reads as
  finished, is not counted against `max_parallel_downloads`
  (`downloader.cpp:463`), and its DONE message is dropped (`:548`) before
  `running_transfers` is decremented: the mirror counts a connection nobody has
  for ever.  `ParallelLimit` is about the recorded transfers,
  `RunningTransfersCounted` accounts for each of the forgotten ones.
* The answer to a preparation request is subtracted from `running_transfers`, to
  which it was never added (`target.cpp:842`).  `NeverOverstated`: the counter
  is too low and never too high.  `dl_limits` and the theorems about counters
  are therefore about downloads without preparations.
* A zchunk target whose first mirror serves no ranges dereferences a header
  checksum that was never read, in its own transfer or in the next `check_zck`
  (`zck.cpp:133`, `zck.cpp:140`).  `CrashNeedsNoRanges`: it takes such a mirror.
* A whole-file zchunk transfer with wrong checksums leaves the state at
  `kFINISHED` (`target.cpp:771`).  `FinishedIsWhole` holds for everything but
  what follows such an attempt (`misled`).
* The error of the rename is ignored (`target.cpp:61-62`).  If the destination is a
  directory, is protected or in use, the target is finished and reported as
  successful with nothing new at its destination and its data in the `.pdpart`
  file.  `FilesMatchState`, `StoredOrLeft`, `FinishedIsWhole`: the data are never
  lost, and it takes such a destination.
* Targets with one destination remove and replace each other's files, and so do
  one named `x.pdpart` and one named `x`.  `AloneIsWhole` and `ReportedIsThere`: a
  target that shares no path is safe, and one with a checksum is reported only
  with its file in place, failing renames aside.  A URL ignores the output
  directory, and a local file without an output file has no destination
  (`NoPath`).
* Without a free mirror, or when its mirrors failed too often for other
  targets, a waiting target fails (`downloader.cpp:336`, `:259`), and a bad
  mirror is skipped in the log only (`:244`).  `EveryTargetSettles` and
  `FreshMirrorsFirst` hold all the same.
* A failed preparation request dereferences a null outfile in a log statement
  (`target.cpp:124`): the phase `crashed`, an exception for `DownloadService`.
* After `check_zck` failed and the target was reported, the transfer starts all
  the same and is reported again (`target.cpp:592`): the variable `ended`.
* A Context can be created while libcurl is still cleaned up for the last one,
  and none after a constructor that threw.  `OneCurlSetup`, `OneContextHeld`:
  the set-ups never overlap.
* An id has the slash at the end of a URL and the mirror's URL has not, so that
  one server can be two mirrors; an OCI mirror listed twice in a configuration
  is a null pointer (`main.cpp:388`).
* The exit code of a download says that its targets settled (`DownloadSettled`),
  not that all succeeded; that of an upload to S3 or HTTP says nothing, which is
  why `OciUploadTold` is about registries.
* Only equal names are removed from the list of the command line:
  `a.txt:pkg:1.0` and `b.txt:pkg:1.0` are uploaded one after the other, both are
  announced, the exit code is 0, and the registry has the second
  (`main.cpp:168-177`, `:474`).  `OciUploadTold`: nothing else replaces an
  announced file.
* The map of mirrors inherits the constructors of `std::map` (`context.hpp:44`),
  which check no ids; no code of the repository uses them.
* A second `oci_upload` on one mirror asks for the manifest of `latest` instead
  of a token (`oci_upload.cpp:155`); with a user name but no password
  `get_auth_headers` throws.

## Not modelled

* curl itself, TLS, options and proxies of `CURLHandle`, the parsing of the
  answer to a blocking request (`curl.cpp`): modelled as what the callers see.
* The waiting time of a mirror (`need_wait_for_retry`) and the sleep of the loop:
  they delay steps and choose none, and no property here is about time.
* The header lines of a response one by one (`header_callback`): its outcome,
  an interrupted transfer, is among the messages.
* `compression.cpp`: what a file holds after a decompressed transfer is decided
  by the buffering of libzstd.
* `fastest_mirror.cpp`: a search by connection time that shares no state with a
  download; neither the library nor the command line calls it.
* `mirrors/s3.cpp`: headers computed in one call from one reading of the clock,
  without state of its own; `s3_upload` is in `CommandLine` by its outcome.
* `url.cpp`, `utils.cpp` and the hash functions: calls of libcurl and OpenSSL,
  and string functions without control of their own (`erase_duplicates` is in
  `CommandLine`).
* `multipart_upload.cpp` is not part of the build.
* Byte ranges (`target.cpp:369-440`): no function sets `m_byterange_start` or
  `m_byterange_end`, so that the code is never reached.
* The constructors that `mirror_map_type` inherits from `std::map`, and the
  assignment of a map made by them: used nowhere, and unchecked, so that
  `UniquePerHost` is about the operations that promise it.
* `extract_zchunk_files`, head-only requests, file times, progress callbacks,
  `curl_multi_*` calls other than adding a handle that fail.
* Of the command line the credentials of mirrors, the options of one target and
  the progress bars; the Python bindings, which are one call each of what is
  modelled.

## Plan

Done, in this order: `Mirror`, `Target`, `Downloader` (with `dl_http`,
`dl_limits`); `DownloadService` and its refinement (`dl_oci`);
`ResumeTransfer`; the proofs; `ZckTransfer`; `OciMirror`; `OciUpload`; `Session`;
`ContextLifecycle` with its proofs; `MirrorMap`; `CommandLine`;
`SharedDestination`; the proofs of everything else that the runs check of
`Downloader` and `Session`, the refinement included, and of `OciUpload`,
`OciMirror`, `ResumeTransfer`, `ZckTransfer`, `MirrorMap` and `CommandLine`.

Nothing of the safety that the runs check is left to prove.  What could follow
is a model of the parts above that are not modelled.
