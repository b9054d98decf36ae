--------------------------- MODULE DownloadService ---------------------------
(***************************************************************************)
(* What Downloader::download promises its caller, without mirrors, curl,   *)
(* files or retries: a set of jobs, at most MaxActive of them active at a  *)
(* time; every job that settles is reported once, through its end callback,*)
(* at the moment it settles; and the call's outcome: "true" only when      *)
(* every job has settled, "false" when the active ones were failed.        *)
(***************************************************************************)
EXTENDS Naturals, FiniteSets

CONSTANTS Jobs, MaxActive

VARIABLES
  job,       \* [Jobs -> {"pending", "active", "finished", "failed"}]
  reported,  \* [Jobs -> Nat]: how often the end callback was called
  outcome    \* "none" while the call runs

serviceVars == <<job, reported, outcome>>

JobsIn(states) == {j \in Jobs : job[j] \in states}

Settled == {"finished", "failed"}

Init ==
  /\ job = [j \in Jobs |-> "pending"]
  /\ reported = [j \in Jobs |-> 0]
  /\ outcome = "none"

\* Jobs of from end in state s and are reported.
Settle(from, s) ==
  /\ job' = [j \in Jobs |-> IF j \in from THEN s ELSE job[j]]
  /\ reported' = [j \in Jobs |-> IF j \in from THEN reported[j] + 1 ELSE reported[j]]

\* The destination of some jobs already holds what they are to download.
AlreadyThere ==
  /\ outcome = "none"
  /\ \E there \in SUBSET JobsIn({"pending"}) : Settle(there, "finished")
  /\ UNCHANGED outcome

\* A job becomes active; jobs for which there is no source are given up.
Start(j, hopeless) ==
  /\ outcome = "none"
  /\ j \in JobsIn({"pending"}) \ hopeless
  /\ Cardinality(JobsIn({"active"})) < MaxActive
  /\ job' = [i \in Jobs |-> IF i = j THEN "active"
                            ELSE IF i \in hopeless THEN "failed" ELSE job[i]]
  /\ reported' = [i \in Jobs |-> IF i \in hopeless THEN reported[i] + 1 ELSE reported[i]]
  /\ UNCHANGED outcome

\* The attempt of an active job failed, or only prepared the next one.
Requeue(j) ==
  /\ outcome = "none"
  /\ j \in JobsIn({"active"})
  /\ job' = [job EXCEPT ![j] = "pending"]
  /\ UNCHANGED reported
  /\ outcome' \in {"none", "thrown"}

Finish(j) ==
  /\ outcome = "none"
  /\ j \in JobsIn({"active"})
  /\ Settle({j}, "finished")
  /\ outcome' \in {"none", "thrown"}

Fail(j) ==
  /\ outcome = "none"
  /\ j \in JobsIn({"active"})
  /\ Settle({j}, "failed")
  /\ UNCHANGED outcome

\* Pending jobs are given up; if nothing is left to do the call returns true.
GiveUp(hopeless) ==
  /\ outcome = "none"
  /\ hopeless \subseteq JobsIn({"pending"})
  /\ Settle(hopeless, "failed")
  /\ \/ outcome' = "none"
     \/ outcome' = "true" /\ \A j \in Jobs : job'[j] \in Settled
     \/ outcome' = "thrown"

\* An error ends the call: the active jobs fail, pending ones are forgotten.
Abort ==
  /\ outcome = "none"
  /\ Settle(JobsIn({"active"}), "failed")
  /\ outcome' = "false"

Next ==
  \/ AlreadyThere \/ Abort
  \/ \E hopeless \in SUBSET JobsIn({"pending"}) :
       GiveUp(hopeless) \/ \E j \in Jobs : Start(j, hopeless)
  \/ \E j \in Jobs : Requeue(j) \/ Finish(j) \/ Fail(j)

Spec == Init /\ [][Next]_serviceVars

=============================================================================
