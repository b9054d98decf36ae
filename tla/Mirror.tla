------------------------------- MODULE Mirror -------------------------------
(***************************************************************************)
(* The statistics a Mirror keeps about itself (MirrorStats), the methods   *)
(* that update them, and sort_mirrors, which reorders one target's list of *)
(* mirrors by them.  Everything here is constant level: the Downloader     *)
(* module keeps one record of statistics per mirror and applies these      *)
(* operators to it.                                                        *)
(*                                                                         *)
(* A definition named Broken... is a faulty variant of the one after it.   *)
(* Nothing uses it: it serves to show that a property can fail.            *)
(*                                                                         *)
(* Left out: max_ranges (used by zchunk transfers only) and the wall-clock *)
(* backoff fields, which only decide how long prepare_next_transfer sleeps.*)
(***************************************************************************)
EXTENDS Integers, Sequences, Functions

CONSTANT MaxDownloadsPerMirror   \* Context::max_downloads_per_mirror, -1 = no limit

ASSUME MaxDownloadsPerMirrorInt == MaxDownloadsPerMirror \in Int

Unlimited == -1

\* running is an Int: update_statistics decrements it without a guard.
MirrorStats == [allowed: Int, maxTried: Nat, running: Int, succ: Nat, failed: Nat]

NewStats == [allowed  |-> IF MaxDownloadsPerMirror > 0 THEN MaxDownloadsPerMirror
                                                       ELSE Unlimited,
             maxTried |-> 0, running |-> 0, succ |-> 0, failed |-> 0]

HasRunningTransfers(s) == s.running > 0

BrokenLimitedAndReached(s) == s.allowed # Unlimited /\ s.running > s.allowed
LimitedAndReached(s) == s.allowed # Unlimited /\ s.running >= s.allowed

IncreaseRunningTransfers(s) ==
  [s EXCEPT !.running = @ + 1,
            !.maxTried = IF @ < s.running + 1 THEN s.running + 1 ELSE @]

BrokenUpdateStatistics(s, success) ==
  IF success THEN [s EXCEPT !.running = @ - 1, !.succ = @ + 1]
             ELSE [s EXCEPT !.failed = @ + 1]
UpdateStatistics(s, success) ==
  [s EXCEPT !.running = @ - 1,
            !.succ    = IF success THEN @ + 1 ELSE @,
            !.failed  = IF success THEN @ ELSE @ + 1]

CanRetryWithFewerConnections(s) ==
  \/ HasRunningTransfers(s)
  \/ s.succ > 0 /\ s.failed < s.maxTried

BrokenLowerParallelConnections(s) ==
  [s EXCEPT !.allowed = IF HasRunningTransfers(s) THEN s.running ELSE s.maxTried]
LowerParallelConnections(s) ==
  [s EXCEPT !.allowed = IF HasRunningTransfers(s) THEN s.running ELSE 1]

-----------------------------------------------------------------------------
\* Mirror::rank is succ/(succ+failed) once a mirror finished RankMin
\* transfers and -1 before; it is compared here without division.
RankMin == 3

Finished(s) == s.succ + s.failed

Judged(s) == Finished(s) >= RankMin

RanksAbove(a, b) ==
  IF Judged(a) /\ Judged(b) THEN a.succ * Finished(b) > b.succ * Finished(a)
                            ELSE Judged(a) /\ ~Judged(b)

Swap(seq, i, j) == [seq EXCEPT ![i] = seq[j], ![j] = seq[i]]

Position(seq, m) == CHOOSE i \in DOMAIN seq : seq[i] = m

\* sort_mirrors: moves mirror m of list order by at most one place, or to the
\* end after a serious error of a mirror that never succeeded.
SortMirrors(order, stats, m, success, serious) ==
  LET i == Position(order, m)
      n == Len(order)
      penalised == /\ Judged(stats[m])
                   /\ ~Judged(stats[order[i + 1]]) \/ RanksAbove(stats[order[i + 1]], stats[m])
      awarded == RanksAbove(stats[m], stats[order[i - 1]])
  IN CASE n = 1 \/ (success /\ i = 1) \/ (~success /\ i = n) -> order
       [] OTHER ->
            IF serious /\ stats[m].succ = 0 THEN Swap(order, i, n)
            ELSE IF ~success /\ penalised THEN Swap(order, i, i + 1)
            ELSE IF success /\ awarded THEN Swap(order, i, i - 1)
            ELSE order
=============================================================================
