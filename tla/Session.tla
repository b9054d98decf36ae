------------------------------- MODULE Session -------------------------------
(***************************************************************************)
(* Several downloads over one Context.  A Downloader may download once     *)
(* (downloader.hpp:57); a program that downloads again creates another     *)
(* one, with new Targets, and both use the Mirror objects of the Context's *)
(* mirror_map.  What one download leaves in their statistics is what the   *)
(* next one starts with.                                                   *)
(***************************************************************************)
EXTENDS Downloader

CONSTANT NDownloads      \* bound: downloads of the session

ASSUME NDownloadsOk == NDownloads \in Nat \ {0}

VARIABLES
  downloads,   \* downloads started so far
  leaked       \* history: transfers of earlier downloads that were still
               \* running when their download was interrupted, per mirror

sessionVars == <<downloads, leaked>>
allVars == <<vars, sessionVars>>

SessionInit ==
  /\ Init
  /\ downloads = 1
  /\ leaked = [m \in Mirrors |-> 0]

\* Transfers that the download counts on m: the ones in progress, or, when it
\* was aborted, the ones that had been in progress.
Counted(m) ==
  {t \in Targets : /\ targets[t].mirror = m
                   /\ IF result = "false" THEN t \in running ELSE targets[t].state = "RUNNING"}

\* The same files are downloaded again, with targets that find what the last
\* download left; tokens and digests stay in the OCI mirrors.
NextDownload ==
  /\ phase \in {"returned", "thrown"}
  /\ downloads < NDownloads
  /\ downloads' = downloads + 1
  /\ leaked' = [m \in Mirrors |-> leaked[m] + Cardinality(Counted(m))]
  /\ phase' = "start" /\ result' = "none" /\ slots' = 0 /\ still' = FALSE
  /\ opts' \in [failfast: BOOLEAN, allowFailure: BOOLEAN]
  /\ \E zckFinished \in SUBSET UninitFinished, stuck \in SUBSET MayStick :
       targets' = [t \in Targets |->
                     NewTarget(MirrorListOf[t], targets[t].check, targets[t].temp,
                               targets[t].dest, t \in zckFinished, t \in stuck)]
  /\ UNCHANGED <<stats, prep, ignored>>
  /\ running' = {} /\ inflight' = {} /\ done' = {}

DownloadStep ==
  /\ CheckAlreadyFinished \/ PrepareStep \/ CurlPerform \/ MessageStep \/ Abort
  /\ UNCHANGED sessionVars

SessionEnds == Stopped /\ UNCHANGED allVars

SessionNext == DownloadStep \/ NextDownload \/ SessionEnds

SessionSpec == SessionInit /\ [][SessionNext]_allVars

\* The loop never stops by itself, and curl finishes every transfer it holds:
\* connect_timeout, low_speed_time and the peer's close end it at the latest.
\* That there is another download is the program's choice.
SessionFairness ==
  /\ WF_allVars(DownloadStep)
  /\ \A t \in Targets : SF_allVars(DownloadStep /\ CurlPerform /\ t \in done')

FairSessionSpec == SessionSpec /\ SessionFairness

-----------------------------------------------------------------------------
\* running_transfers of a mirror is the number of its transfers in progress
\* and of the ones that interrupted downloads left behind: nothing else is
\* ever counted twice or forgotten, in whatever download it happens.
LeakedByInterrupted ==
  \A m \in Mirrors : stats[m].running = leaked[m] + Cardinality(Counted(m))

\* Every download of the session stops, also one that starts with counters
\* an interrupted download left behind.
EveryDownloadStops == phase = "start" ~> Stopped

\* With allow_failure every target of every download is finished or failed in
\* the end, whatever its mirrors still count from before, unless an exception
\* leaves download() (a file that cannot be opened).
EveryTargetSettles ==
  phase = "start" /\ opts.allowFailure /\ ~opts.failfast
    ~> phase = "thrown" \/ (phase = "returned" /\ \A t \in Targets : Terminal(targets[t]))
=============================================================================
