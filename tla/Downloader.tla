----------------------------- MODULE Downloader -----------------------------
(***************************************************************************)
(* Downloader::download: the single-threaded event loop that hands targets *)
(* to curl's multi handle, reads its DONE messages, and decides for every  *)
(* finished transfer whether the target is finished, retried or failed.    *)
(* The only other actor is curl (action CurlPerform): it may finish any    *)
(* set of the transfers it holds between two rounds of the loop, in any    *)
(* order and with any of the outcomes in Messages.                         *)
(*                                                                         *)
(* phase is the loop's program counter:                                    *)
(*   start     check_if_already_finished of every target                   *)
(*   boot      the first prepare_next_transfers, whose result is ignored   *)
(*   perform   curl_multi_perform                                          *)
(*   msgs      the while loop of check_msgs                                *)
(*   prepare   the prepare_next_transfers that ends check_msgs             *)
(*   abort     check_msgs returned false                                   *)
(*   returned  download() returned result                                  *)
(*   thrown    an exception left download()                                *)
(*   crashed   a null pointer was dereferenced                             *)
(*                                                                         *)
(* A definition named Broken... is a faulty variant of the one after it.   *)
(* Nothing uses it: it serves to show that a property can fail.            *)
(***************************************************************************)
EXTENDS Target

CONSTANTS
  NTargets,              \* number of targets added to the downloader
  MirrorListOf,          \* the mirrors get_mirrors returns for each target
  MaxParallel,           \* Context::max_parallel_downloads
  AllowedMirrorFailures, \* Downloader::allowed_mirror_failures, 3 in the code
  AdaptiveSorting,       \* Context::adaptive_mirror_sorting
  Offline,               \* Context::offline
  FileUrlMirrors,        \* mirrors whose URL begins with file:/
  PrepSteps,             \* requests a mirror must answer before its first
                         \* download: token and manifest for OCI, 0 for HTTP
  Messages,              \* what a DONE message can say
  CbReturnCodes,         \* what the end callback can return
  Faults,                \* failures of the environment that can happen
  UninitFinished,        \* targets whose uninitialised m_zck_state may read kFINISHED
  MayStick,              \* targets whose destination may be one that no file
                         \* can be renamed onto
  Checks, InitialTemp, InitialDest,
  MaxIgnoredAnswers      \* bound: preparation answers without a token or digest

Targets == 1..NTargets

ASSUME ConstantsOk ==
  /\ NTargets \in Nat
  /\ \A t \in Targets : MirrorListOf[t] \in Seq(Mirrors) /\ MirrorListOf[t] # <<>>
  /\ MaxParallel \in Nat \ {0}
  /\ AllowedMirrorFailures \in Nat \ {0}
  /\ AdaptiveSorting \in BOOLEAN /\ Offline \in BOOLEAN
  /\ FileUrlMirrors \subseteq Mirrors
  /\ PrepSteps \in [Mirrors -> [Targets -> Nat]]
  /\ Messages \subseteq [curl: STRING, code: Nat, interrupted: BOOLEAN, body: {"bad", "good"}]
  /\ CbReturnCodes \subseteq {"OK", "ABORT", "ERROR"}
  /\ Faults \subseteq {"add_handle", "open_file", "bad_json"}
  /\ UninitFinished \subseteq Targets /\ MayStick \subseteq Targets
  /\ Checks \subseteq CheckKinds
  /\ InitialTemp \subseteq FileContents /\ InitialDest \subseteq FileContents
  /\ MaxIgnoredAnswers \in Nat

VARIABLES
  phase, opts, result,
  slots,       \* free_slots of prepare_next_transfers
  still,       \* still_running of curl_multi_perform
  targets,     \* [Targets -> TargetRecord]
  stats,       \* [Mirrors -> MirrorStats], shared by all targets
  prep,        \* preparation requests left, per mirror and target
  ignored,     \* number of useless preparation answers so far
  running,     \* m_running_transfers
  inflight,    \* targets whose easy handle is in the multi handle
  done         \* targets whose DONE message has not been read yet

loopVars == <<phase, opts, result, slots, still>>
mirrorVars == <<stats, prep, ignored>>
curlVars == <<inflight, done>>
vars == <<phase, opts, result, slots, still, targets, stats, prep, ignored,
          running, inflight, done>>

Phases == {"start", "boot", "perform", "msgs", "prepare", "abort",
           "returned", "thrown", "crashed"}

-----------------------------------------------------------------------------
\* check_finished_transfer_status: the level of the error a DONE message
\* stands for, "NONE" for none.  A message has curl's result, the response
\* code, whether header_callback interrupted the transfer, and whether the
\* body is the one the target expects.

FatalCurlCodes == {"ABORTED_BY_CALLBACK", "BAD_FUNCTION_ARGUMENT", "CONV_REQD",
                   "COULDNT_RESOLVE_PROXY", "FILESIZE_EXCEEDED", "INTERFACE_FAILED",
                   "NOT_BUILT_IN", "OUT_OF_MEMORY", "SSL_CACERT_BADFILE",
                   "SSL_CRL_BADFILE", "WRITE_ERROR"}

IsSuccessCode(code) == code = 0 \/ code \div 100 = 2 \/ code = 304

CheckFinishedTransferStatus(msg) ==
  IF msg.curl # "OK"
  THEN CASE msg.interrupted                    -> "FATAL"
         [] msg.curl \in FatalCurlCodes        -> "FATAL"
         [] msg.curl = "OPERATION_TIMEDOUT"    -> "SERIOUS"
         [] OTHER                              -> "INFO"
  ELSE IF IsSuccessCode(msg.code) THEN "NONE" ELSE "INFO"

-----------------------------------------------------------------------------
\* select_suitable_mirror.  Pass 0 offers the mirrors the target has not
\* tried; pass k > 0 any mirror with at most k failures, while the target has
\* retries left.  Every mirror's protocol() is kHTTP, so the branches for FTP
\* and FILE are not reachable; the test for bad mirrors only logs.

Passes(T) == IF T.retries < AllowedMirrorFailures THEN 0..(AllowedMirrorFailures - 1)
                                                  ELSE {0}

BrokenSuitableInPass(T, k, m) ==
  /\ stats[m].failed <= k
  /\ ~Offline
  /\ ~LimitedAndReached(stats[m])
SuitableInPass(T, k, m) ==
  /\ IF k = 0 THEN m \notin T.tried ELSE stats[m].failed <= k
  /\ ~Offline
  /\ ~LimitedAndReached(stats[m])

Offers(T) ==
  {o \in Passes(T) \X DOMAIN T.order : SuitableInPass(T, o[1], T.order[o[2]])}

HasSuitableMirror(T) == Offers(T) # {}

\* m is offered by the first pass that offers any, and first in its order.
SelectsMirror(T, m) ==
  \E o \in Offers(T) :
    /\ m = T.order[o[2]]
    /\ \A p \in Offers(T) : o[1] < p[1] \/ (o[1] = p[1] /\ o[2] <= p[2])

\* can_retry_download, for the effective URL of the finished transfer.
CanRetryDownload(T) ==
  T.mirror \notin FileUrlMirrors /\ T.retries < AllowedMirrorFailures

Waiting == {t \in Targets : targets[t].state = "WAITING"}

Failing(ts) == [t \in Targets |-> IF t \in ts THEN SetFailed(targets[t]) ELSE targets[t]]

-----------------------------------------------------------------------------
Init ==
  /\ phase = "start" /\ result = "none" /\ slots = 0 /\ still = FALSE
  /\ opts \in [failfast: BOOLEAN, allowFailure: BOOLEAN]
  /\ \E check \in [Targets -> Checks], temp \in [Targets -> InitialTemp],
        dest \in [Targets -> InitialDest], zckFinished \in SUBSET UninitFinished,
        stuck \in SUBSET MayStick :
       targets = [t \in Targets |->
                    NewTarget(MirrorListOf[t], check[t], temp[t], dest[t],
                              t \in zckFinished, t \in stuck)]
  /\ stats = [m \in Mirrors |-> NewStats]
  /\ prep = PrepSteps /\ ignored = 0
  /\ running = {} /\ inflight = {} /\ done = {}

BrokenFreeSlots == MaxParallel
FreeSlots == MaxParallel - Cardinality(running)

CheckAlreadyFinished ==
  /\ phase = "start"
  /\ phase' = "boot" /\ slots' = FreeSlots
  /\ targets' = [t \in Targets |-> CheckIfAlreadyFinished(targets[t])]
  /\ UNCHANGED <<opts, result, still, mirrorVars, running, curlVars>>

-----------------------------------------------------------------------------
\* prepare_next_transfers, one action per outcome of prepare_next_transfer.

Preparing == phase \in {"boot", "prepare"}

\* prepare_next_transfers returned true: the loop goes on, or ends.
BrokenPreparationEnds ==
  IF phase = "prepare" /\ ~still
  THEN phase' = "returned" /\ result' = "true"
  ELSE phase' = "perform" /\ result' = result
BrokenEndOfLoop ==
  IF phase = "prepare" /\ ~still /\ \A t \in Targets : targets[t].state = "FINISHED"
  THEN phase' = "returned" /\ result' = "true"
  ELSE phase' = "perform" /\ result' = result
PreparationEnds ==
  IF phase = "prepare" /\ ~still /\ running = {}
  THEN phase' = "returned" /\ result' = "true"
  ELSE phase' = "perform" /\ result' = result

\* prepare_next_transfers returned false: ignored before the loop.
PreparationAborts ==
  /\ phase' = IF phase = "boot" THEN "perform" ELSE "abort"
  /\ result' = result

SlotsExhausted ==
  /\ Preparing /\ slots = 0
  /\ PreparationEnds
  /\ UNCHANGED <<opts, slots, still, targets, mirrorVars, running, curlVars>>

\* select_next_target found no target: with allow_failure it has failed every
\* waiting one on the way, without it there was none.
NoCandidate ==
  /\ Preparing /\ slots > 0
  /\ \A t \in Waiting : opts.allowFailure /\ ~HasSuitableMirror(targets[t])
  /\ targets' = Failing(Waiting)
  /\ PreparationEnds
  /\ UNCHANGED <<opts, slots, still, mirrorVars, running, curlVars>>

\* select_next_target fails the first waiting target and returns the error.
SelectionFails ==
  /\ Preparing /\ slots > 0
  /\ ~opts.allowFailure
  /\ \E t \in Waiting :
       /\ \A w \in Waiting : t <= w
       /\ ~HasSuitableMirror(targets[t])
       /\ targets' = Failing({t})
  /\ PreparationAborts
  /\ UNCHANGED <<opts, slots, still, mirrorVars, running, curlVars>>

Skipped(t) == {w \in Waiting : w < t}

\* select_next_target returns t, which will use m; the waiting targets before
\* it had no suitable mirror and failed.
BrokenSelected(t, m) ==
  /\ Preparing
  /\ t \in Waiting
  /\ SelectsMirror(targets[t], m)
  /\ \A w \in Skipped(t) : opts.allowFailure /\ ~HasSuitableMirror(targets[w])
Selected(t, m) ==
  /\ Preparing /\ slots > 0
  /\ t \in Waiting
  /\ SelectsMirror(targets[t], m)
  /\ \A w \in Skipped(t) : opts.allowFailure /\ ~HasSuitableMirror(targets[w])

\* Target t becomes T, and the targets that select_next_target skipped fail.
TargetBecomes(t, T) == targets' = [Failing(Skipped(t)) EXCEPT ![t] = T]

\* A transfer that was handed to curl enters m_running_transfers, unless
\* the target's uninitialised zck_state makes prepare_next_transfer skip it.
PushTransfer(t) ==
  IF targets[t].zckFinished THEN UNCHANGED <<running, slots>>
                            ELSE running' = running \cup {t} /\ slots' = slots - 1

StartPreparation(t, m) ==
  /\ Selected(t, m)
  /\ prep[m][t] > 0
  /\ TargetBecomes(t, BeginPreparation(ChangeMirror(targets[t], m)))
  /\ inflight' = inflight \cup {t}
  /\ PushTransfer(t)
  /\ UNCHANGED <<phase, opts, result, still, mirrorVars, done>>

StartTransfer(t, m) ==
  /\ Selected(t, m)
  /\ prep[m][t] = 0
  /\ TargetBecomes(t, BeginTransfer(ChangeMirror(targets[t], m)))
  /\ stats' = [stats EXCEPT ![m] = IncreaseRunningTransfers(@)]
  /\ inflight' = inflight \cup {t}
  /\ PushTransfer(t)
  /\ UNCHANGED <<phase, opts, result, still, prep, ignored, done>>

\* curl_multi_add_handle failed: prepare_for_transfer fails the target.
AddHandleFails(t, m) ==
  /\ "add_handle" \in Faults
  /\ Selected(t, m)
  /\ LET T == ChangeMirror(targets[t], m)
     IN TargetBecomes(t, SetFailed(IF prep[m][t] > 0 THEN T ELSE OpenTargetFile(T)))
  /\ PreparationAborts
  /\ UNCHANGED <<opts, slots, still, mirrorVars, running, curlVars>>

\* open_target_file throws: the new FileIO is not open, the target still waits.
OpenFileThrows(t, m) ==
  /\ "open_file" \in Faults
  /\ Selected(t, m)
  /\ prep[m][t] = 0
  /\ TargetBecomes(t, [ChangeMirror(targets[t], m) EXCEPT !.outfile = "closed"])
  /\ phase' = "thrown"
  /\ UNCHANGED <<opts, result, slots, still, mirrorVars, running, curlVars>>

-----------------------------------------------------------------------------
\* curl_multi_perform: curl finishes any set of the transfers it holds.

CurlPerform ==
  /\ phase = "perform"
  /\ \E finished \in SUBSET (inflight \ done) :
       /\ done' = done \cup finished
       /\ still' = (inflight \ done' # {})
  /\ phase' = "msgs"
  /\ UNCHANGED <<opts, result, slots, targets, mirrorVars, running, inflight>>

-----------------------------------------------------------------------------
\* check_msgs, one action per way the body of its loop can end.

\* The target, its error level and its mirror's statistics after the part of
\* the loop body that every finished transfer goes through: status check,
\* finish_transfer, reset, complete_mirror_usage.
AfterTransfer(t, msg) ==
  LET received == ReceiveBody(targets[t],
                    IF CheckFinishedTransferStatus(msg) = "NONE" THEN msg.body ELSE "bad")
      level == IF CheckFinishedTransferStatus(msg) = "NONE" /\ ~FinishTransferOk(received)
               THEN "SERIOUS" ELSE CheckFinishedTransferStatus(msg)
      finished == IF CheckFinishedTransferStatus(msg) = "NONE" /\ level = "SERIOUS"
                  THEN ResetFile(received, "ERROR") ELSE received
      used == [stats EXCEPT ![received.mirror] = UpdateStatistics(@, level = "NONE")]
  IN [level  |-> level,
      stats  |-> used,
      target |-> CompleteMirrorUsage(Reset(finished), used, AdaptiveSorting,
                                     level = "NONE", level \in {"SERIOUS", "FATAL"})]

\* The message ends a known transfer and finish_transfer does not throw.
Ended(t, msg) ==
  /\ phase = "msgs" /\ t \in done /\ t \in running
  /\ ~( /\ CheckFinishedTransferStatus(msg) = "NONE"
        /\ FinishTransferThrows(ReceiveBody(targets[t], msg.body)) )

BrokenRemoveTransfer(t) ==
  done' = done \ {t} /\ inflight' = inflight \ {t} /\ running' = running
RemoveTransfer(t) ==
  done' = done \ {t} /\ inflight' = inflight \ {t} /\ running' = running \ {t}

\* A serious error that the number of connections may have caused.
Overloaded(after) ==
  after.level = "SERIOUS" /\ CanRetryWithFewerConnections(after.stats[after.target.mirror])

\* The target and the statistics once the mirror of an overloaded transfer has
\* been given another chance with fewer connections.
Relieved(after) ==
  IF Overloaded(after)
  THEN [level  |-> after.level,
        stats  |-> [after.stats EXCEPT ![after.target.mirror] = LowerParallelConnections(@)],
        target |-> GiveMirrorAnotherChance(after.target)]
  ELSE after

Retriable(after) == after.level # "FATAL" /\ CanRetryDownload(after.target)

TransferRetried(t, msg) ==
  /\ Ended(t, msg)
  /\ LET after == AfterTransfer(t, msg)
         relieved == Relieved(after)
     IN /\ after.level # "NONE" /\ Retriable(after) /\ ~TruncateCrashes(after.target)
        /\ targets' = [targets EXCEPT ![t] = SetRetrying(relieved.target)]
        /\ stats' = relieved.stats
  /\ RemoveTransfer(t)
  /\ UNCHANGED <<phase, opts, result, slots, still, prep, ignored>>

\* set_retrying after a failed preparation of a target without an outfile.
RetryCrashes(t, msg) ==
  /\ Ended(t, msg)
  /\ LET after == AfterTransfer(t, msg)
         relieved == Relieved(after)
     IN /\ after.level # "NONE" /\ Retriable(after) /\ TruncateCrashes(after.target)
        /\ targets' = [targets EXCEPT ![t] = [relieved.target EXCEPT !.state = "WAITING",
                                                                     !.retries = @ + 1]]
        /\ stats' = relieved.stats
  /\ RemoveTransfer(t)
  /\ phase' = "crashed"
  /\ UNCHANGED <<opts, result, slots, still, prep, ignored>>

\* Whether a failed target ends the whole download.
BrokenAfterFailure(rc) == "abort"
AfterFailure(rc) == IF opts.failfast \/ rc = "ERROR" THEN "abort" ELSE phase

\* No retry is allowed, or the error is fatal: the target fails, and with
\* failfast or an error of its end callback the whole download does.
TransferFailed(t, msg, rc) ==
  /\ Ended(t, msg)
  /\ LET after == AfterTransfer(t, msg)
         relieved == Relieved(after)
     IN /\ after.level # "NONE" /\ ~Retriable(after)
        /\ targets' = [targets EXCEPT ![t] = SetFailed(relieved.target)]
        /\ stats' = relieved.stats
  /\ phase' = AfterFailure(rc)
  /\ RemoveTransfer(t)
  /\ UNCHANGED <<opts, result, slots, still, prep, ignored>>

\* finalize_transfer of a transfer that was running; its end callback may
\* return an error, which leaves download() as an exception.
TransferSucceeded(t, msg, rc) ==
  /\ Ended(t, msg)
  /\ targets[t].state # "PREPARATION"
  /\ LET after == AfterTransfer(t, msg)
     IN /\ after.level = "NONE"
        /\ targets' = [targets EXCEPT ![t] = FinalizeTransfer(after.target)]
        /\ stats' = after.stats
  /\ phase' = IF rc = "ERROR" THEN "thrown" ELSE phase
  /\ RemoveTransfer(t)
  /\ UNCHANGED <<opts, result, slots, still, prep, ignored>>

\* finalize_transfer of a preparation: the target waits again, and the answer
\* may or may not contain the token or digest; if it does not, the callback's
\* error is ignored.  An answer that is not JSON throws.
PreparationSucceeded(t, msg) ==
  /\ Ended(t, msg)
  /\ targets[t].state = "PREPARATION"
  /\ LET after == AfterTransfer(t, msg)
     IN /\ after.level = "NONE"
        /\ targets' = [targets EXCEPT ![t] = FinalizeTransfer(after.target)]
        /\ stats' = after.stats
  /\ \/ /\ msg.body = "good"
        /\ prep' = [prep EXCEPT ![targets[t].mirror][t] = IF @ > 0 THEN @ - 1 ELSE 0]
        /\ UNCHANGED <<phase, ignored>>
     \/ /\ msg.body # "good" /\ ignored < MaxIgnoredAnswers
        /\ ignored' = ignored + 1
        /\ UNCHANGED <<phase, prep>>
     \/ /\ msg.body # "good" /\ "bad_json" \in Faults
        /\ phase' = "thrown"
        /\ UNCHANGED <<prep, ignored>>
  /\ RemoveTransfer(t)
  /\ UNCHANGED <<opts, result, slots, still>>

\* finish_transfer asks for the size of a temporary file that was removed.
FinishThrows(t, msg) ==
  /\ phase = "msgs" /\ t \in done /\ t \in running
  /\ CheckFinishedTransferStatus(msg) = "NONE"
  /\ FinishTransferThrows(ReceiveBody(targets[t], msg.body))
  /\ phase' = "thrown"
  /\ done' = done \ {t}
  /\ UNCHANGED <<opts, result, slots, still, targets, mirrorVars, running, inflight>>

\* A DONE message whose handle matches no running transfer is dropped.
UnknownTransfer(t) ==
  /\ phase = "msgs" /\ t \in done /\ t \notin running
  /\ done' = done \ {t}
  /\ inflight' = inflight \ {t}
  /\ UNCHANGED <<loopVars, targets, mirrorVars, running>>

\* The queue is empty: waiting transfers may be added.
MessagesRead ==
  /\ phase = "msgs" /\ done = {}
  /\ phase' = "prepare" /\ slots' = FreeSlots
  /\ UNCHANGED <<opts, result, still, targets, mirrorVars, running, curlVars>>

\* download() fails every transfer in m_running_transfers and returns false.
\* Neither the list, nor curl's handles, nor the mirrors' counters are reset.
BrokenAbort ==
  /\ phase = "abort"
  /\ targets' = Failing(Targets)
  /\ phase' = "returned" /\ result' = "false"
  /\ UNCHANGED <<opts, slots, still, mirrorVars, running, curlVars>>
Abort ==
  /\ phase = "abort"
  /\ targets' = Failing(running)
  /\ phase' = "returned" /\ result' = "false"
  /\ UNCHANGED <<opts, slots, still, mirrorVars, running, curlVars>>

Stopped == phase \in {"returned", "thrown", "crashed"}

Terminated == Stopped /\ UNCHANGED vars

-----------------------------------------------------------------------------
PrepareStep ==
  \/ SlotsExhausted \/ NoCandidate \/ SelectionFails
  \/ \E t \in Targets, m \in Mirrors :
       \/ StartPreparation(t, m) \/ StartTransfer(t, m)
       \/ AddHandleFails(t, m) \/ OpenFileThrows(t, m)

MessageStep ==
  \/ \E t \in Targets, msg \in Messages :
       \/ TransferRetried(t, msg) \/ RetryCrashes(t, msg)
       \/ PreparationSucceeded(t, msg) \/ FinishThrows(t, msg)
       \/ \E rc \in CbReturnCodes : TransferFailed(t, msg, rc) \/ TransferSucceeded(t, msg, rc)
  \/ \E t \in Targets : UnknownTransfer(t)
  \/ MessagesRead

Next == CheckAlreadyFinished \/ PrepareStep \/ CurlPerform \/ MessageStep \/ Abort \/ Terminated

Spec == Init /\ [][Next]_vars

-----------------------------------------------------------------------------
\* Properties.

\* Every variable keeps its type; the phases are those of download().
TypeOK ==
  /\ phase \in Phases
  /\ opts \in [failfast: BOOLEAN, allowFailure: BOOLEAN]
  /\ result \in {"none", "true", "false"}
  /\ slots \in 0..MaxParallel
  /\ still \in BOOLEAN
  /\ targets \in [Targets -> TargetRecord]
  /\ stats \in [Mirrors -> MirrorStats]
  /\ prep \in [Mirrors -> [Targets -> Nat]]
  /\ ignored \in 0..MaxIgnoredAnswers
  /\ running \subseteq Targets /\ inflight \subseteq Targets /\ done \subseteq Targets

\* The transfers in progress on m: curl holds them.
Using(m) == {t \in inflight : targets[t].state = "RUNNING" /\ targets[t].mirror = m}

\* The transfers on m that no longer are, but whose DONE message was dropped
\* (downloader.cpp:548-553): their target was skipped at downloader.cpp:463, and
\* stays RUNNING for ever.
Forgotten(m) ==
  {t \in Targets \ inflight : /\ targets[t].zckFinished
                              /\ targets[t].state = "RUNNING" /\ targets[t].mirror = m}

\* Until an abort, running_transfers of a mirror is the number of transfers in
\* progress on it (mirror.hpp:41) plus the ones leaked by a dropped message,
\* whatever mixture of retries, failures and successes its targets went
\* through: nothing but a dropped message makes the counter wrong.
RunningTransfersCounted ==
  result # "false" =>
    \A m \in Mirrors :
      stats[m].running = Cardinality(Using(m)) + Cardinality(Forgotten(m))

\* The assertion of select_suitable_mirror (downloader.cpp:283-289) at every
\* moment: a mirror never serves more transfers than it is allowed to, even
\* while its limit is lowered under transfers that are running.
ConnectionLimit ==
  \A m \in Mirrors : stats[m].allowed # Unlimited =>
    /\ stats[m].allowed > 0
    /\ stats[m].running <= stats[m].allowed
    /\ Cardinality(Using(m)) <= stats[m].allowed

\* A target's end callback is called exactly once, when the target reaches a
\* final state, with the status that state stands for.
EndCallbackMatchesState == \A t \in Targets : Reported(targets[t])

\* A finished target has its file, which passed the target's check if it has
\* one; a final target has no open file and no temporary file it opened.
FilesMatchState == \A t \in Targets : FilesOk(targets[t])

\* m_running_transfers is exactly the targets curl works on, and a DONE
\* message always matches one of them (downloader.cpp:532-534).
MessagesMatchRunning ==
  /\ done \subseteq running
  /\ ~Stopped => /\ inflight = running
                 /\ running = {t \in Targets : InTransfer(targets[t])}

\* Preparation requests are counted down but never up (target.cpp:842): the
\* counter of an OCI mirror may be too low, but until an abort it claims no
\* connection, which would keep other targets away for ever, beyond the
\* transfers in progress and the ones leaked by a dropped message.
NeverOverstated ==
  result # "false" =>
    \A m \in Mirrors :
      stats[m].running <= Cardinality(Using(m)) + Cardinality(Forgotten(m))

\* The transfers curl holds that prepare_next_transfer did not skip.
Recorded == {t \in inflight : ~targets[t].zckFinished}

\* Curl never holds more than max_parallel_downloads recorded transfers at a
\* time, and the free slots leave no room for more; transfers skipped at
\* downloader.cpp:463 take no slot and come on top.
ParallelLimit == Cardinality(Recorded) + (IF Preparing THEN slots ELSE 0) <= MaxParallel

\* With allow_failure and without failfast no target whose transfers fail, in
\* whatever way, ends the download of the others: not by an abort, nor by an
\* exception or a crash.  This is for targets that need no preparation, files
\* that can be opened, handles that curl accepts and end callbacks that return
\* no error: each of the four can end the download.
FailuresIsolated ==
  opts.allowFailure /\ ~opts.failfast => result # "false" /\ phase \notin {"thrown", "crashed"}

\* A target that finished or failed is never touched again.
FinalTargetsStable ==
  [][\A t \in Targets : Terminal(targets[t]) => targets'[t] = targets[t]]_vars

\* allowed_parallel_connections is only ever lowered (mirror.hpp:32-34).
LimitOnlyLowered ==
  [][\A m \in Mirrors : stats'[m].allowed # stats[m].allowed =>
       /\ stats'[m].allowed # Unlimited
       /\ stats[m].allowed = Unlimited \/ stats'[m].allowed < stats[m].allowed]_vars

\* A target goes back to a mirror it has tried only when every mirror it has
\* not tried is serving as many transfers as it may.
FreshMirrorsFirst ==
  [][\A t \in Targets :
       targets[t].state = "WAITING" /\ InTransfer(targets[t])' /\ targets'[t].mirror \in targets[t].tried
         => \A m \in Listed(targets[t]) \ targets[t].tried : LimitedAndReached(stats[m])]_vars

\* The destination of a target changes only in the step that finishes the
\* target, so a failed download leaves the file that was there.
DestinationSafe ==
  [][\A t \in Targets : targets'[t].dest # targets[t].dest =>
       targets[t].state = "RUNNING" /\ targets'[t].state = "FINISHED"]_vars
=============================================================================
