-------------------------- MODULE DownloaderProofs --------------------------
(***************************************************************************)
(* The safety of Downloader for every number of targets and mirrors, every *)
(* limit, every kind of message and every fault: type correctness, the end *)
(* callback, the files, the number of parallel transfers, and that a final *)
(* target is never touched again.                                          *)
(*                                                                         *)
(* Inv is the inductive invariant.  That a target is well formed is not    *)
(* enough for it: the callback is called once only because a message is    *)
(* handled for a target of m_running_transfers alone, and every target     *)
(* there is in transfer until the loop has stopped.                        *)
(*                                                                         *)
(* The first part is about the operators of Mirror and Target alone: the   *)
(* statistics keep their type, sort_mirrors permutes a target's list of    *)
(* mirrors without losing one, and every method of Target keeps a target   *)
(* well formed.                                                            *)
(***************************************************************************)
EXTENDS DownloaderRefinement, Session, FiniteSetTheorems, TLAPS

-----------------------------------------------------------------------------
\* Statistics.

LEMMA NewStatsType == NewStats \in MirrorStats
BY MaxDownloadsPerMirrorInt DEF NewStats, MirrorStats, Unlimited

\* Every update keeps the statistics' type and, but for lowering, the limit.
LEMMA StatsUpdateType ==
  ASSUME NEW s \in MirrorStats, NEW success \in BOOLEAN
  PROVE  /\ IncreaseRunningTransfers(s) \in MirrorStats
         /\ UpdateStatistics(s, success) \in MirrorStats
         /\ LowerParallelConnections(s) \in MirrorStats
         /\ IncreaseRunningTransfers(s).allowed = s.allowed
         /\ IncreaseRunningTransfers(s).running = s.running + 1
         /\ UpdateStatistics(s, success).allowed = s.allowed
         /\ UpdateStatistics(s, success).running = s.running - 1
         /\ LowerParallelConnections(s).running = s.running
         /\ LowerParallelConnections(s).allowed = IF s.running > 0 THEN s.running ELSE 1
<1>1. IncreaseRunningTransfers(s) \in MirrorStats
  <2> DEFINE s1 == [s EXCEPT !.running = @ + 1]
             tried == IF s.maxTried < s.running + 1 THEN s.running + 1 ELSE s.maxTried
  <2>1. s1 \in MirrorStats /\ s1.maxTried = s.maxTried
    BY DEF MirrorStats
  <2>2. tried \in Nat
    BY DEF MirrorStats
  <2>3. IncreaseRunningTransfers(s) = [s1 EXCEPT !.maxTried = tried]
    BY DEF IncreaseRunningTransfers
  <2> HIDE DEF s1, tried
  <2> QED
    BY <2>1, <2>2, <2>3 DEF MirrorStats
<1>2. UpdateStatistics(s, success) \in MirrorStats
  <2> DEFINE s1 == [s EXCEPT !.running = @ - 1]
             succ == IF success THEN s.succ + 1 ELSE s.succ
             s2 == [s1 EXCEPT !.succ = succ]
             failed == IF success THEN s.failed ELSE s.failed + 1
  <2>1. s1 \in MirrorStats
    BY DEF MirrorStats
  <2>2. succ \in Nat /\ failed \in Nat
    BY DEF MirrorStats
  <2>3. UpdateStatistics(s, success) = [s2 EXCEPT !.failed = failed]
    BY DEF UpdateStatistics
  <2> HIDE DEF s1, succ, failed
  <2>4. s2 \in MirrorStats
    BY <2>1, <2>2 DEF MirrorStats
  <2> HIDE DEF s2
  <2> QED
    BY <2>2, <2>3, <2>4 DEF MirrorStats
<1>3. LowerParallelConnections(s) \in MirrorStats
  <2> DEFINE allowed == IF s.running > 0 THEN s.running ELSE 1
  <2>1. allowed \in Int
    BY DEF MirrorStats
  <2>2. LowerParallelConnections(s) = [s EXCEPT !.allowed = allowed]
    BY DEF LowerParallelConnections, HasRunningTransfers
  <2> HIDE DEF allowed
  <2> QED
    BY <2>1, <2>2 DEF MirrorStats
<1>4. /\ IncreaseRunningTransfers(s).allowed = s.allowed
      /\ IncreaseRunningTransfers(s).running = s.running + 1
  BY DEF MirrorStats, IncreaseRunningTransfers
<1>5. /\ UpdateStatistics(s, success).allowed = s.allowed
      /\ UpdateStatistics(s, success).running = s.running - 1
  BY DEF MirrorStats, UpdateStatistics
<1>6. /\ LowerParallelConnections(s).running = s.running
      /\ LowerParallelConnections(s).allowed = IF s.running > 0 THEN s.running ELSE 1
  BY DEF MirrorStats, LowerParallelConnections, HasRunningTransfers
<1> QED
  BY <1>1, <1>2, <1>3, <1>4, <1>5, <1>6

-----------------------------------------------------------------------------
\* The list new has the entries of seq, each as often, in some order.
IsPermutation(new, seq) ==
  /\ DOMAIN new = DOMAIN seq
  /\ \E p \in Bijection(DOMAIN seq, DOMAIN seq) : \A k \in DOMAIN seq : new[k] = seq[p[k]]

\* A permutation has the same set of entries.
LEMMA PermutationRange ==
  ASSUME NEW new, NEW seq, IsPermutation(new, seq)
  PROVE  Range(new) = Range(seq)
<1>1. PICK p \in Bijection(DOMAIN seq, DOMAIN seq) : \A k \in DOMAIN seq : new[k] = seq[p[k]]
  BY DEF IsPermutation
<1>2. /\ \A k \in DOMAIN seq : p[k] \in DOMAIN seq
      /\ \A k \in DOMAIN seq : \E l \in DOMAIN seq : p[l] = k
  BY DEF Bijection, Injection, Surjection
<1>3. DOMAIN new = DOMAIN seq
  BY DEF IsPermutation
<1>4. ASSUME NEW x \in Range(new) PROVE x \in Range(seq)
  BY <1>1, <1>2, <1>3 DEF Range
<1>5. ASSUME NEW x \in Range(seq) PROVE x \in Range(new)
  <2>1. PICK k \in DOMAIN seq : x = seq[k]
    BY DEF Range
  <2>2. PICK l \in DOMAIN seq : p[l] = k
    BY <1>2
  <2> QED
    BY <1>1, <1>3, <2>1, <2>2 DEF Range
<1> QED
  BY <1>4, <1>5

\* A function that undoes itself is a bijection.
LEMMA InvolutionIsBijection ==
  ASSUME NEW D, NEW f \in [D -> D], \A k \in D : f[f[k]] = k
  PROVE  f \in Bijection(D, D)
<1>1. \A k \in D : f[k] \in D
  OBVIOUS
<1>2. \A a, b \in D : f[a] = f[b] => a = b
  OBVIOUS
<1>3. \A k \in D : \E l \in D : f[l] = k
  BY <1>1
<1>4. f \in Injection(D, D)
  BY <1>2 DEF Injection, IsInjective
<1>5. f \in Surjection(D, D)
  BY <1>3 DEF Surjection
<1> QED
  BY <1>4, <1>5 DEF Bijection

\* Swapping two entries of a list permutes it, and so does changing nothing.
LEMMA SwapPermutes ==
  ASSUME NEW S, NEW seq \in Seq(S)
  PROVE  /\ IsPermutation(seq, seq)
         /\ \A i, j \in DOMAIN seq : /\ Swap(seq, i, j) \in Seq(S)
                                     /\ IsPermutation(Swap(seq, i, j), seq)
<1>1. DOMAIN seq = 1..Len(seq) /\ Len(seq) \in Nat /\ \A k \in DOMAIN seq : seq[k] \in S
  OBVIOUS
<1>2. IsPermutation(seq, seq)
  <2> DEFINE id == [k \in DOMAIN seq |-> k]
  <2>1. id \in Bijection(DOMAIN seq, DOMAIN seq)
    BY InvolutionIsBijection
  <2>2. \A k \in DOMAIN seq : seq[k] = seq[id[k]]
    OBVIOUS
  <2> HIDE DEF id
  <2> QED
    BY <2>1, <2>2 DEF IsPermutation
<1>3. ASSUME NEW i \in DOMAIN seq, NEW j \in DOMAIN seq
      PROVE  Swap(seq, i, j) \in Seq(S) /\ IsPermutation(Swap(seq, i, j), seq)
  <2> DEFINE new == Swap(seq, i, j)
             other == [k \in DOMAIN seq |-> IF k = j THEN i ELSE IF k = i THEN j ELSE k]
  <2>1. new \in [1..Len(seq) -> S]
    BY <1>1, <1>3 DEF Swap
  <2>2. new \in Seq(S) /\ DOMAIN new = DOMAIN seq
    BY <1>1, <2>1
  <2>3. \A k \in DOMAIN seq : new[k] = IF k = j THEN seq[i] ELSE IF k = i THEN seq[j] ELSE seq[k]
    BY <1>1, <1>3 DEF Swap
  <2>4. /\ other \in [DOMAIN seq -> DOMAIN seq]
        /\ \A k \in DOMAIN seq : other[other[k]] = k
    BY <1>3
  <2>5. \A k \in DOMAIN seq : new[k] = seq[other[k]]
    BY <2>3
  <2> HIDE DEF new, other
  <2>6. other \in Bijection(DOMAIN seq, DOMAIN seq)
    BY <2>4, InvolutionIsBijection
  <2> QED
    BY <2>2, <2>5, <2>6 DEF IsPermutation, new
<1> QED
  BY <1>2, <1>3

\* sort_mirrors only permutes: it loses no mirror and repeats none, whatever
\* the statistics.
LEMMA SortMirrorsPermutes ==
  ASSUME NEW order \in Seq(Mirrors), NEW counts, NEW m \in Range(order),
         NEW success \in BOOLEAN, NEW serious \in BOOLEAN
  PROVE  LET new == SortMirrors(order, counts, m, success, serious)
         IN new \in Seq(Mirrors) /\ IsPermutation(new, order) /\ Range(new) = Range(order)
<1> DEFINE i == Position(order, m)
           n == Len(order)
           new == SortMirrors(order, counts, m, success, serious)
<1>1. i \in DOMAIN order
  BY DEF Position, Range
<1>2. n \in Nat /\ DOMAIN order = 1..n /\ i \in 1..n
  BY <1>1
<1>3. \/ new = order
      \/ new = Swap(order, i, n)
      \/ i # n /\ new = Swap(order, i, i + 1)
      \/ i # 1 /\ new = Swap(order, i, i - 1)
  BY DEF SortMirrors
<1>4. n \in DOMAIN order /\ (i # n => i + 1 \in DOMAIN order) /\ (i # 1 => i - 1 \in DOMAIN order)
  BY <1>2
<1> HIDE DEF i, n, new
<1>5. /\ IsPermutation(order, order)
      /\ \A j \in DOMAIN order : /\ Swap(order, i, j) \in Seq(Mirrors)
                                 /\ IsPermutation(Swap(order, i, j), order)
  BY <1>1, SwapPermutes
<1>6. new \in Seq(Mirrors) /\ IsPermutation(new, order)
  BY <1>3, <1>4, <1>5
<1>7. Range(new) = Range(order)
  BY <1>6, PermutationRange
<1> QED
  BY <1>6, <1>7 DEF new

-----------------------------------------------------------------------------
\* Methods of Target.

\* U differs from T in its files at most.
SameButFiles(T, U) ==
  /\ U.state = T.state /\ U.retries = T.retries /\ U.tried = T.tried
  /\ U.mirror = T.mirror /\ U.order = T.order /\ U.check = T.check
  /\ U.ended = T.ended /\ U.zckFinished = T.zckFinished /\ U.stuck = T.stuck

\* reset, the rename and the removal only touch files.
LEMMA ResetFileKeeps ==
  ASSUME NEW T \in TargetRecord, NEW status \in TransferStatuses
  PROVE  ResetFile(T, status) \in TargetRecord /\ SameButFiles(T, ResetFile(T, status))
<1>1. \A U \in TargetRecord : Reset(U) \in TargetRecord /\ SameButFiles(U, Reset(U))
  <2> SUFFICES ASSUME NEW U \in TargetRecord
               PROVE  Reset(U) \in TargetRecord /\ SameButFiles(U, Reset(U))
    OBVIOUS
  <2> DEFINE closed == IF U.outfile = "open" THEN "closed" ELSE U.outfile
  <2>1. closed \in {"none", "open", "closed"}
    BY DEF TargetRecord
  <2>2. Reset(U) = [U EXCEPT !.outfile = closed]
    BY DEF Reset
  <2> HIDE DEF closed
  <2> QED
    BY <2>1, <2>2 DEF TargetRecord, SameButFiles
<1>2. \A U \in TargetRecord : RenameTempFile(U) \in TargetRecord /\ SameButFiles(U, RenameTempFile(U))
  <2> SUFFICES ASSUME NEW U \in TargetRecord, U.temp # "absent", ~U.stuck
               PROVE  RenameTempFile(U) \in TargetRecord /\ SameButFiles(U, RenameTempFile(U))
    BY DEF RenameTempFile, SameButFiles
  <2> DEFINE V == [U EXCEPT !.dest = U.temp]
  <2>1. V \in TargetRecord /\ SameButFiles(U, V)
    BY DEF TargetRecord, SameButFiles
  <2>2. RenameTempFile(U) = [V EXCEPT !.temp = "absent"]
    BY DEF RenameTempFile
  <2> HIDE DEF V
  <2>3. [V EXCEPT !.temp = "absent"] \in TargetRecord
    BY <2>1 DEF TargetRecord, FileContents
  <2> QED
    BY <2>1, <2>2, <2>3 DEF TargetRecord, SameButFiles
<1>3. \A U \in TargetRecord : RemoveTempFile(U) \in TargetRecord /\ SameButFiles(U, RemoveTempFile(U))
  <2> SUFFICES ASSUME NEW U \in TargetRecord
               PROVE  RemoveTempFile(U) \in TargetRecord /\ SameButFiles(U, RemoveTempFile(U))
    OBVIOUS
  <2> DEFINE left == IF U.outfile = "none" THEN U.temp ELSE "absent"
  <2>1. left \in FileContents
    BY DEF TargetRecord, FileContents
  <2>2. RemoveTempFile(U) = [U EXCEPT !.temp = left]
    BY DEF RemoveTempFile
  <2> HIDE DEF left
  <2> QED
    BY <2>1, <2>2 DEF TargetRecord, SameButFiles
<1>4. ResetFile(T, status) \in {T, Reset(T), RenameTempFile(Reset(T)), RemoveTempFile(Reset(T))}
  BY DEF ResetFile, TransferStatuses
<1> HIDE DEF Reset
<1> QED
  BY <1>1, <1>2, <1>3, <1>4 DEF SameButFiles

\* The end callback is the only thing that is added to a target's history.
LEMMA CallEndCallbackKeeps ==
  ASSUME NEW T \in TargetRecord, NEW status \in TransferStatuses
  PROVE  LET U == CallEndCallback(T, status)
         IN /\ U \in TargetRecord
            /\ U.state = T.state /\ U.mirror = T.mirror /\ U.order = T.order
            /\ U.ended = Append(T.ended, status) /\ U.zckFinished = T.zckFinished
<1> DEFINE F == ResetFile(T, status)
           ended == Append(F.ended, status)
<1>1. F \in TargetRecord /\ SameButFiles(T, F)
  BY ResetFileKeeps
<1>2. CallEndCallback(T, status) = [F EXCEPT !.ended = ended]
  BY DEF CallEndCallback
<1> HIDE DEF F
<1>3. ended \in Seq(TransferStatuses) /\ ended = Append(T.ended, status)
  BY <1>1 DEF TargetRecord, SameButFiles
<1> HIDE DEF ended
<1> QED
  BY <1>1, <1>2, <1>3 DEF TargetRecord, SameButFiles

\* reset closes the file, and an error removes what was written to it; neither
\* touches the destination.
LEMMA ResetCloses ==
  ASSUME NEW T \in TargetRecord
  PROVE  /\ Reset(T).outfile = IF T.outfile = "none" THEN "none" ELSE "closed"
         /\ Reset(T).temp = T.temp
         /\ ResetFile(T, "ERROR").outfile = Reset(T).outfile
         /\ Reset(T).dest = T.dest /\ ResetFile(T, "ERROR").dest = T.dest
<1>1. ResetFile(T, "ERROR") = RemoveTempFile(Reset(T))
  BY DEF ResetFile
<1>2. Reset(T).outfile = (IF T.outfile = "none" THEN "none" ELSE "closed") /\ Reset(T).temp = T.temp
  BY DEF Reset, TargetRecord
<1>3. RemoveTempFile(Reset(T)).outfile = Reset(T).outfile
  BY DEF RemoveTempFile, Reset, TargetRecord
<1>4. Reset(T).dest = T.dest /\ RemoveTempFile(Reset(T)).dest = Reset(T).dest
  BY DEF RemoveTempFile, Reset, TargetRecord
<1> QED
  BY <1>1, <1>2, <1>3, <1>4

\* What every target satisfies between two steps of the downloader.
TargetOk(T) ==
  /\ T \in TargetRecord
  /\ InTransfer(T) => T.mirror \in Range(T.order)
  /\ T.state = "RUNNING" => T.outfile = "open"
  /\ Reported(T)
  /\ FilesOk(T)

\* A new target is well formed.
LEMMA NewTargetOk ==
  ASSUME NEW order \in Seq(Mirrors), NEW check \in CheckKinds, NEW temp \in FileContents,
         NEW dest \in FileContents, NEW zckFinished \in BOOLEAN, NEW stuck \in BOOLEAN
  PROVE  LET T == NewTarget(order, check, temp, dest, zckFinished, stuck)
         IN /\ TargetOk(T) /\ T.state = "WAITING" /\ T.outfile = "none"
            /\ T.zckFinished = zckFinished
<1> DEFINE T == NewTarget(order, check, temp, dest, zckFinished, stuck)
<1>1. <<>> \in Seq(TransferStatuses)
  OBVIOUS
<1>2. T \in TargetRecord
  BY <1>1 DEF NewTarget, TargetRecord, DownloadStates
<1>3. /\ T.state = "WAITING" /\ T.outfile = "none" /\ T.ended = <<>>
      /\ T.zckFinished = zckFinished
  BY DEF NewTarget
<1> QED
  BY <1>2, <1>3 DEF TargetOk, Reported, FilesOk, Passed, LeftInTemp, Terminal, InTransfer

\* set_failed reports the error and leaves neither an open nor a partial file.
LEMMA SetFailedOk ==
  ASSUME NEW T \in TargetRecord, T.ended = <<>>
  PROVE  /\ TargetOk(SetFailed(T)) /\ SetFailed(T).state = "FAILED"
         /\ SetFailed(T).dest = T.dest /\ SetFailed(T).mirror = T.mirror
         /\ SetFailed(T).zckFinished = T.zckFinished
<1> DEFINE F == [T EXCEPT !.state = "FAILED"]
           C == Reset(F)
           U == SetFailed(T)
<1>1. /\ F \in TargetRecord /\ F.state = "FAILED" /\ F.ended = <<>>
      /\ F.dest = T.dest /\ F.mirror = T.mirror /\ F.zckFinished = T.zckFinished
  BY DEF TargetRecord, DownloadStates
<1>2. U = CallEndCallback(F, "ERROR")
  BY DEF SetFailed
<1> HIDE DEF F
<1>3. /\ U \in TargetRecord /\ U.state = "FAILED" /\ U.ended = <<"ERROR">>
      /\ U.mirror = F.mirror /\ U.zckFinished = F.zckFinished
  BY <1>1, <1>2, CallEndCallbackKeeps DEF TransferStatuses
<1>4. C.outfile # "open" /\ DOMAIN C = DOMAIN F
  BY <1>1 DEF Reset, TargetRecord
<1>5. U = [RemoveTempFile(C) EXCEPT !.ended = Append(RemoveTempFile(C).ended, "ERROR")]
  BY <1>2 DEF CallEndCallback, ResetFile
<1> HIDE DEF U
<1>6. C \in TargetRecord
  BY <1>1 DEF Reset, TargetRecord
<1> HIDE DEF C
<1>7. RemoveTempFile(C).outfile = C.outfile
      /\ (C.outfile = "closed" => RemoveTempFile(C).temp = "absent")
  BY <1>6, <1>4 DEF RemoveTempFile, TargetRecord
<1>8. RemoveTempFile(C) \in TargetRecord
  BY <1>6 DEF RemoveTempFile, TargetRecord, FileContents
<1>9. U.outfile = C.outfile /\ (C.outfile = "closed" => U.temp = "absent")
  BY <1>5, <1>7, <1>8 DEF TargetRecord
<1>dest. U.dest = F.dest
  <2>1. ResetFile(F, "ERROR").dest = F.dest /\ ResetFile(F, "ERROR") \in TargetRecord
    BY <1>1, ResetCloses, ResetFileKeeps DEF TransferStatuses
  <2>2. U = [ResetFile(F, "ERROR") EXCEPT !.ended = Append(ResetFile(F, "ERROR").ended, "ERROR")]
    BY <1>2 DEF CallEndCallback, U
  <2> QED
    BY <2>1, <2>2 DEF TargetRecord
<1>10. Reported(U) /\ FilesOk(U) /\ ~InTransfer(U)
  BY <1>3, <1>4, <1>9 DEF Reported, FilesOk, Passed, LeftInTemp, Terminal, InTransfer
<1> QED
  BY <1>1, <1>3, <1>dest, <1>10 DEF TargetOk, U, InTransfer

\* A target whose file is already there finishes without a transfer.
LEMMA CheckIfAlreadyFinishedOk ==
  ASSUME NEW T \in TargetRecord, TargetOk(T), T.state = "WAITING", T.outfile = "none"
  PROVE  /\ TargetOk(CheckIfAlreadyFinished(T))
         /\ CheckIfAlreadyFinished(T).dest = T.dest
         /\ CheckIfAlreadyFinished(T).zckFinished = T.zckFinished
         /\ CheckIfAlreadyFinished(T) = T \/ CheckIfAlreadyFinished(T).state = "FINISHED"
<1> SUFFICES ASSUME AlreadyDownloaded(T)
             PROVE  LET C == CheckIfAlreadyFinished(T)
                    IN /\ TargetOk(C) /\ C.dest = T.dest /\ C.state = "FINISHED"
                       /\ C.zckFinished = T.zckFinished
  BY DEF CheckIfAlreadyFinished
<1> DEFINE ended == Append(T.ended, "ALREADYEXISTS")
           C == CallEndCallback(T, "ALREADYEXISTS")
           U == CheckIfAlreadyFinished(T)
<1>1. Reset(T) = T
  BY DEF Reset, TargetRecord
<1>2. C = [T EXCEPT !.ended = ended]
  BY <1>1 DEF CallEndCallback, ResetFile
<1>3. ended \in Seq(TransferStatuses) /\ ended = <<"ALREADYEXISTS">>
  <2>1. T.ended = <<>>
    BY DEF TargetOk, Reported
  <2> QED
    BY <2>1 DEF TransferStatuses
<1> HIDE DEF ended
<1>4. /\ C \in TargetRecord /\ C.ended = <<"ALREADYEXISTS">> /\ C.outfile = "none"
      /\ C.dest = T.dest /\ C.check = T.check /\ C.mirror = T.mirror /\ C.order = T.order
      /\ C.zckFinished = T.zckFinished
  BY <1>2, <1>3 DEF TargetRecord
<1>5. U = [C EXCEPT !.state = "FINISHED"]
  BY DEF CheckIfAlreadyFinished
<1> HIDE DEF C, U
<1>6. /\ U \in TargetRecord /\ U.state = "FINISHED" /\ U.ended = <<"ALREADYEXISTS">>
      /\ U.outfile = "none" /\ U.dest = T.dest /\ U.check = T.check
      /\ U.zckFinished = T.zckFinished
  BY <1>4, <1>5 DEF TargetRecord, DownloadStates
<1>7. U.dest = "good"
  BY <1>6 DEF AlreadyDownloaded
<1> QED
  BY <1>6, <1>7 DEF TargetOk, Reported, FilesOk, Passed, LeftInTemp, InTransfer, Terminal, U

\* A waiting target gets a mirror of its list, and prepares it or uses it.
LEMMA BeginOk ==
  ASSUME NEW T, TargetOk(T), T.state = "WAITING", NEW m \in Range(T.order)
  PROVE  /\ TargetOk(BeginPreparation(ChangeMirror(T, m)))
         /\ BeginPreparation(ChangeMirror(T, m)).state = "PREPARATION"
         /\ TargetOk(BeginTransfer(ChangeMirror(T, m)))
         /\ BeginTransfer(ChangeMirror(T, m)).state = "RUNNING"
         /\ BeginTransfer(ChangeMirror(T, m)).mirror = m
         /\ ChangeMirror(T, m) \in TargetRecord
         /\ OpenTargetFile(ChangeMirror(T, m)) \in TargetRecord
         /\ ChangeMirror(T, m).ended = <<>>
         /\ OpenTargetFile(ChangeMirror(T, m)).ended = <<>>
         /\ TargetOk([ChangeMirror(T, m) EXCEPT !.outfile = "closed"])
<1> DEFINE M == ChangeMirror(T, m)
           P == BeginPreparation(M)
           F == [M EXCEPT !.outfile = "open"]
           O == OpenTargetFile(M)
           R == BeginTransfer(M)
           X == [M EXCEPT !.outfile = "closed"]
<1>1. T \in TargetRecord /\ T.ended = <<>> /\ T.outfile # "open" /\ m \in Mirrors
  BY DEF TargetOk, Reported, FilesOk, Range, TargetRecord
<1>2. /\ M \in TargetRecord /\ M.state = "WAITING" /\ M.ended = <<>>
      /\ M.mirror = m /\ m \in Range(M.order) /\ M.outfile # "open"
  BY <1>1 DEF ChangeMirror, TargetRecord
<1> HIDE DEF M
<1>3. /\ P \in TargetRecord /\ P.state = "PREPARATION" /\ P.ended = <<>>
      /\ P.mirror \in Range(P.order) /\ P.outfile # "open"
  BY <1>2 DEF BeginPreparation, TargetRecord, DownloadStates
<1>4. /\ X \in TargetRecord /\ X.state = "WAITING" /\ X.ended = <<>>
      /\ X.outfile # "open"
  BY <1>2 DEF TargetRecord
<1>5. /\ F \in TargetRecord /\ F.ended = <<>> /\ F.mirror = m /\ m \in Range(F.order)
      /\ F.outfile = "open"
  BY <1>2 DEF TargetRecord
<1>6. O = [F EXCEPT !.temp = "bad"]
  BY DEF OpenTargetFile
<1> HIDE DEF F, O
<1>7. /\ O \in TargetRecord /\ O.ended = <<>> /\ O.mirror = m /\ m \in Range(O.order)
      /\ O.outfile = "open"
  BY <1>5, <1>6 DEF TargetRecord, FileContents
<1>8. R = [O EXCEPT !.state = "RUNNING"]
  BY DEF BeginTransfer, O
<1>9. /\ R \in TargetRecord /\ R.ended = <<>> /\ R.mirror = m /\ m \in Range(R.order)
      /\ R.outfile = "open" /\ R.state = "RUNNING"
  BY <1>7, <1>8 DEF TargetRecord, DownloadStates
<1> HIDE DEF P, R, X
<1>10. TargetOk(P) /\ TargetOk(R) /\ TargetOk(X)
  BY <1>3, <1>4, <1>9 DEF TargetOk, Reported, FilesOk, Passed, LeftInTemp, InTransfer, Terminal
<1> QED
  BY <1>2, <1>3, <1>7, <1>9, <1>10 DEF M, O, P, R, X

\* Neither the destination nor zckFinished is touched.
SameDest(T, U) == U.dest = T.dest /\ U.zckFinished = T.zckFinished

\* Nothing that is done to begin touches the destination.
LEMMA BeginKeeps ==
  ASSUME NEW T \in TargetRecord, NEW m \in Mirrors
  PROVE  /\ SameDest(T, ChangeMirror(T, m))
         /\ SameDest(T, OpenTargetFile(ChangeMirror(T, m)))
         /\ SameDest(T, BeginPreparation(ChangeMirror(T, m)))
         /\ BeginPreparation(ChangeMirror(T, m)).mirror = m
         /\ SameDest(T, BeginTransfer(ChangeMirror(T, m)))
         /\ SameDest(T, [ChangeMirror(T, m) EXCEPT !.outfile = "closed"])
         /\ [ChangeMirror(T, m) EXCEPT !.outfile = "closed"].state = T.state
<1> DEFINE M == ChangeMirror(T, m)
           F == [M EXCEPT !.outfile = "open"]
           O == OpenTargetFile(M)
<1>1. M \in TargetRecord /\ SameDest(T, M) /\ M.state = T.state /\ M.mirror = m
  BY DEF ChangeMirror, TargetRecord, SameDest
<1> HIDE DEF M
<1>2. F \in TargetRecord /\ SameDest(T, F)
  BY <1>1 DEF TargetRecord, SameDest
<1>3. O = [F EXCEPT !.temp = "bad"]
  BY DEF OpenTargetFile
<1> HIDE DEF F
<1>4. O \in TargetRecord /\ SameDest(T, O)
  BY <1>2, <1>3 DEF TargetRecord, FileContents, SameDest
<1>5. SameDest(T, [O EXCEPT !.state = "RUNNING"])
  BY <1>4 DEF TargetRecord, SameDest
<1>6. BeginTransfer(M) = [O EXCEPT !.state = "RUNNING"]
  BY DEF BeginTransfer
<1>7. SameDest(T, BeginPreparation(M)) /\ BeginPreparation(M).mirror = m
  BY <1>1 DEF BeginPreparation, TargetRecord, SameDest
<1>8. /\ SameDest(T, [M EXCEPT !.outfile = "closed"])
      /\ [M EXCEPT !.outfile = "closed"].state = T.state
  BY <1>1 DEF TargetRecord, SameDest
<1> QED
  BY <1>1, <1>4, <1>5, <1>6, <1>7, <1>8 DEF M, O

\* A target as check_msgs leaves it before it decides what to do with it: its
\* file closed, its mirror, its destination and its history as they were when
\* the transfer began.
Settling(T, A) ==
  /\ A \in TargetRecord
  /\ A.state = T.state /\ A.mirror = T.mirror /\ A.check = T.check
  /\ A.dest = T.dest /\ A.zckFinished = T.zckFinished
  /\ A.ended = <<>> /\ A.outfile # "open"
  /\ T.state = "RUNNING" => A.outfile = "closed"

\* complete_mirror_usage adds the mirror to the tried ones and only permutes
\* the list of mirrors.
LEMMA CompleteMirrorUsageKeeps ==
  ASSUME NEW T \in TargetRecord, T.mirror \in Range(T.order), NEW counts,
         NEW sorting, NEW success \in BOOLEAN, NEW serious \in BOOLEAN
  PROVE  LET U == CompleteMirrorUsage(T, counts, sorting, success, serious)
         IN /\ U \in TargetRecord /\ Range(U.order) = Range(T.order)
            /\ U.state = T.state /\ U.mirror = T.mirror /\ U.check = T.check
            /\ U.ended = T.ended /\ U.outfile = T.outfile /\ U.temp = T.temp
            /\ U.dest = T.dest /\ U.zckFinished = T.zckFinished
<1> DEFINE tried == T.tried \cup {T.mirror}
           order == IF sorting THEN SortMirrors(T.order, counts, T.mirror, success, serious)
                               ELSE T.order
           V == [T EXCEPT !.tried = tried]
           U == CompleteMirrorUsage(T, counts, sorting, success, serious)
<1>1. tried \in SUBSET Mirrors
  BY DEF Range, TargetRecord
<1>2. T.order \in Seq(Mirrors)
  BY DEF TargetRecord
<1>3. order \in Seq(Mirrors) /\ Range(order) = Range(T.order)
  BY <1>2, SortMirrorsPermutes
<1>4. U = [V EXCEPT !.order = order]
  BY DEF CompleteMirrorUsage
<1> HIDE DEF tried, order, U
<1>5. /\ V \in TargetRecord /\ V.order = T.order
      /\ V.state = T.state /\ V.mirror = T.mirror /\ V.check = T.check
      /\ V.ended = T.ended /\ V.outfile = T.outfile /\ V.temp = T.temp
      /\ V.dest = T.dest /\ V.zckFinished = T.zckFinished
  BY <1>1 DEF TargetRecord
<1> HIDE DEF V
<1>6. /\ U \in TargetRecord /\ U.order = order
      /\ U.state = T.state /\ U.mirror = T.mirror /\ U.check = T.check
      /\ U.ended = T.ended /\ U.outfile = T.outfile /\ U.temp = T.temp
      /\ U.dest = T.dest /\ U.zckFinished = T.zckFinished
  BY <1>3, <1>4, <1>5 DEF TargetRecord
<1> QED
  BY <1>3, <1>6 DEF U

\* Giving the mirror another chance and retrying make a waiting target of it.
LEMMA SetRetryingOk ==
  ASSUME NEW T, NEW A, Settling(T, A)
  PROVE  /\ Settling(T, GiveMirrorAnotherChance(A))
         /\ TargetOk(SetRetrying(A)) /\ SetRetrying(A).state = "WAITING"
         /\ SameDest(T, SetRetrying(A))
         /\ LET W == [A EXCEPT !.state = "WAITING", !.retries = @ + 1]
            IN TargetOk(W) /\ W.state = "WAITING" /\ SameDest(T, W)
<1> DEFINE G == GiveMirrorAnotherChance(A)
           V == [A EXCEPT !.state = "WAITING"]
           W == [A EXCEPT !.state = "WAITING", !.retries = @ + 1]
           left == IF W.outfile = "closed" THEN "absent" ELSE "bad"
           U == SetRetrying(A)
<1>1. A \in TargetRecord
  BY DEF Settling
<1>2. Settling(T, G)
  <2>1. (A.tried \ {A.mirror}) \in SUBSET Mirrors
    BY <1>1 DEF TargetRecord
  <2>2. G = [A EXCEPT !.tried = A.tried \ {A.mirror}]
    BY DEF GiveMirrorAnotherChance
  <2> QED
    BY <2>1, <2>2 DEF Settling, TargetRecord
<1>3. /\ V \in TargetRecord /\ V.state = "WAITING" /\ V.ended = <<>> /\ V.outfile # "open"
      /\ V.retries \in Nat /\ SameDest(T, V)
  BY DEF Settling, TargetRecord, DownloadStates, SameDest
<1>4. W = [V EXCEPT !.retries = V.retries + 1]
  BY <1>1 DEF TargetRecord
<1>5. U = [W EXCEPT !.temp = left] /\ left \in FileContents
  BY DEF SetRetrying, TruncateTransferFile, FileContents
<1> HIDE DEF V, W, G, U, left
<1>6. /\ W \in TargetRecord /\ W.state = "WAITING" /\ W.ended = <<>> /\ W.outfile # "open"
      /\ SameDest(T, W)
  <2>1. W \in TargetRecord
    <3>1. V \in TargetRecord /\ V.retries + 1 \in Nat
      BY <1>3
    <3>2. \A n \in Nat : [V EXCEPT !.retries = n] \in TargetRecord
      BY <3>1 DEF TargetRecord
    <3> QED
      BY <1>4, <3>1, <3>2
  <2>2. W.state = V.state /\ W.ended = V.ended /\ W.outfile = V.outfile
        /\ W.dest = V.dest /\ W.zckFinished = V.zckFinished
    BY <1>3, <1>4 DEF TargetRecord
  <2> QED
    BY <1>3, <2>1, <2>2 DEF SameDest
<1>7. /\ U \in TargetRecord /\ U.state = "WAITING" /\ U.ended = <<>> /\ U.outfile # "open"
      /\ SameDest(T, U)
  BY <1>5, <1>6 DEF TargetRecord, SameDest
<1>8. TargetOk(U) /\ TargetOk(W)
  BY <1>6, <1>7 DEF TargetOk, Reported, FilesOk, Passed, LeftInTemp, InTransfer, Terminal
<1> QED
  BY <1>2, <1>6, <1>7, <1>8 DEF G, U, W

\* A transfer whose file passed the check finishes its target, a preparation
\* makes it wait again.
LEMMA FinalizeTransferOk ==
  ASSUME NEW T, NEW A, Settling(T, A), InTransfer(T),
         T.state = "RUNNING" => A.temp # "absent" /\ (A.check # "none" => A.temp = "good")
  PROVE  /\ TargetOk(FinalizeTransfer(A))
         /\ FinalizeTransfer(A).state = IF T.state = "RUNNING" THEN "FINISHED" ELSE "WAITING"
         /\ T.state # "RUNNING" => FinalizeTransfer(A).dest = T.dest
         /\ FinalizeTransfer(A).zckFinished = T.zckFinished
<1> DEFINE F == [A EXCEPT !.state = "FINISHED"]
           D == [F EXCEPT !.dest = F.temp]
           N == RenameTempFile(F)
           Renamed(S) == IF F.stuck THEN S.dest = A.dest /\ S.temp = A.temp
                                    ELSE S.dest = A.temp /\ S.temp = "absent"
           ended == Append(A.ended, "SUCCESSFUL")
           U == FinalizeTransfer(A)
<1>1. A \in TargetRecord /\ A.ended = <<>> /\ A.state = T.state
  BY DEF Settling
<1>2. CASE T.state = "RUNNING"
  <2>1. A.outfile = "closed" /\ A.temp # "absent" /\ (A.check # "none" => A.temp = "good")
    BY <1>2 DEF Settling
  <2>2. /\ F \in TargetRecord /\ F.state = "FINISHED" /\ F.ended = <<>>
        /\ F.outfile = "closed" /\ F.temp = A.temp /\ F.check = A.check
        /\ F.zckFinished = A.zckFinished
    BY <1>1, <2>1 DEF TargetRecord, DownloadStates
  <2>3. U = CallEndCallback(F, "SUCCESSFUL")
    BY <1>1, <1>2 DEF FinalizeTransfer
  <2> HIDE DEF F
  <2>4. ResetFile(F, "SUCCESSFUL") = N
    BY <2>2 DEF ResetFile, Reset, TargetRecord
  <2>5. U = [N EXCEPT !.ended = Append(N.ended, "SUCCESSFUL")]
    BY <2>3, <2>4 DEF CallEndCallback
  <2>6. N = IF F.stuck THEN F ELSE [D EXCEPT !.temp = "absent"]
    BY <2>1, <2>2 DEF RenameTempFile
  <2>7. /\ D \in TargetRecord /\ D.state = "FINISHED" /\ D.ended = <<>> /\ D.outfile = "closed"
        /\ D.dest = A.temp /\ D.check = A.check /\ D.zckFinished = A.zckFinished
        /\ D.stuck = F.stuck /\ F.dest = A.dest /\ F.stuck \in BOOLEAN
    BY <1>1, <2>2 DEF TargetRecord, F
  <2> HIDE DEF D, N
  <2>8. /\ N \in TargetRecord /\ N.state = "FINISHED" /\ N.ended = <<>> /\ N.outfile = "closed"
        /\ Renamed(N) /\ N.check = A.check /\ N.stuck = F.stuck
        /\ N.zckFinished = A.zckFinished
    BY <2>2, <2>6, <2>7 DEF TargetRecord, FileContents
  <2>9. ended \in Seq(TransferStatuses) /\ ended = <<"SUCCESSFUL">>
    BY <1>1 DEF TransferStatuses
  <2>10. U = [N EXCEPT !.ended = ended]
    BY <1>1, <2>5, <2>8
  <2> HIDE DEF ended, U
  <2>11. /\ U \in TargetRecord /\ U.state = "FINISHED" /\ U.ended = <<"SUCCESSFUL">>
         /\ U.outfile = "closed" /\ Renamed(U) /\ U.check = A.check /\ U.stuck = F.stuck
         /\ U.zckFinished = A.zckFinished
    BY <2>8, <2>9, <2>10 DEF TargetRecord
  <2> QED
    BY <1>2, <2>1, <2>7, <2>11 DEF TargetOk, Reported, FilesOk, Passed, LeftInTemp, InTransfer, Terminal, Settling, U
<1>3. CASE T.state = "PREPARATION"
  <2>1. U = [A EXCEPT !.state = "WAITING"]
    BY <1>1, <1>3 DEF FinalizeTransfer
  <2>2. /\ U \in TargetRecord /\ U.state = "WAITING" /\ U.ended = <<>> /\ U.outfile # "open"
        /\ U.dest = T.dest /\ U.zckFinished = T.zckFinished
    BY <2>1 DEF Settling, TargetRecord, DownloadStates
  <2> HIDE DEF U
  <2> QED
    BY <1>3, <2>2 DEF TargetOk, Reported, FilesOk, Passed, LeftInTemp, InTransfer, Terminal, U
<1> QED
  BY <1>2, <1>3 DEF InTransfer

-----------------------------------------------------------------------------
\* The inductive invariant of the loop.

TargetsOk == \A t \in Targets : TargetOk(targets[t])

Untouched(T) == T.state = "WAITING" /\ T.outfile = "none"

\* m_running_transfers and the free slots make no more than the limit.
SlotLimit == Cardinality(running) + (IF Preparing THEN slots ELSE 0) <= MaxParallel

RunningInTransfer == ~Stopped => \A t \in running : InTransfer(targets[t])

Inv ==
  /\ TypeOK /\ TargetsOk /\ SlotLimit /\ RunningInTransfer
  /\ phase = "start" => \A t \in Targets : Untouched(targets[t])

\* What every step does with the targets: one that changes was not final, and
\* is well formed afterwards.
GoodTargets ==
  /\ targets' \in [Targets -> TargetRecord]
  /\ \A t \in Targets :
       \/ targets'[t] = targets[t]
       \/ ~Terminal(targets[t]) /\ TargetOk(targets'[t])

-----------------------------------------------------------------------------
\* The parts of a step.

\* Failing targets that are not final is good, and fails them all.
LEMMA FailingGood ==
  ASSUME targets \in [Targets -> TargetRecord], TargetsOk,
         NEW ts \in SUBSET Targets, \A t \in ts : ~Terminal(targets[t])
  PROVE  /\ Failing(ts) \in [Targets -> TargetRecord]
         /\ \A t \in ts : TargetOk(Failing(ts)[t]) /\ Failing(ts)[t].state = "FAILED"
         /\ \A t \in Targets \ ts : Failing(ts)[t] = targets[t]
<1>1. \A t \in ts : TargetOk(SetFailed(targets[t])) /\ SetFailed(targets[t]).state = "FAILED"
  <2> SUFFICES ASSUME NEW t \in ts
               PROVE  TargetOk(SetFailed(targets[t])) /\ SetFailed(targets[t]).state = "FAILED"
    OBVIOUS
  <2>1. targets[t] \in TargetRecord /\ targets[t].ended = <<>>
    BY DEF TargetsOk, TargetOk, Reported, Terminal
  <2> QED
    BY <2>1, SetFailedOk
<1>2. \A t \in ts : SetFailed(targets[t]) \in TargetRecord
  BY <1>1 DEF TargetOk
<1> QED
  BY <1>1, <1>2 DEF Failing

\* A selected mirror is one of the target's, and is not at its limit.
LEMMA SelectedMirror ==
  ASSUME NEW T, NEW m, SelectsMirror(T, m)
  PROVE  m \in Range(T.order) /\ ~LimitedAndReached(stats[m])
BY DEF SelectsMirror, Offers, SuitableInPass, Range

\* Changing a selected target, while those before it fail, is good.
LEMMA TargetBecomesGood ==
  ASSUME targets \in [Targets -> TargetRecord], TargetsOk,
         NEW t \in Waiting, NEW T, TargetOk(T), TargetBecomes(t, T)
  PROVE  /\ GoodTargets /\ targets'[t] = T
         /\ \A u \in Targets : InTransfer(targets[u]) => targets'[u] = targets[u]
<1>1. Skipped(t) \in SUBSET Targets /\ t \notin Skipped(t) /\ t \in Targets
      /\ \A u \in Skipped(t) \cup {t} : ~Terminal(targets[u]) /\ ~InTransfer(targets[u])
  BY DEF Skipped, Waiting, Terminal, InTransfer, Targets
<1> DEFINE F == Failing(Skipped(t))
<1>2. /\ F \in [Targets -> TargetRecord]
      /\ \A u \in Skipped(t) : TargetOk(F[u])
      /\ \A u \in Targets \ Skipped(t) : F[u] = targets[u]
  BY <1>1, FailingGood
<1>3. T \in TargetRecord
  BY DEF TargetOk
<1>4. targets' = [F EXCEPT ![t] = T]
  BY DEF TargetBecomes
<1> HIDE DEF F
<1>5. targets' \in [Targets -> TargetRecord] /\ targets'[t] = T
      /\ \A u \in Targets \ {t} : targets'[u] = F[u]
  BY <1>1, <1>2, <1>3, <1>4
<1> QED
  BY <1>1, <1>2, <1>5 DEF GoodTargets

\* An update of one mirror's statistics keeps the type of all of them.
LEMMA StatsExceptType ==
  ASSUME NEW s \in [Mirrors -> MirrorStats], NEW m, NEW new \in MirrorStats
  PROVE  [s EXCEPT ![m] = new] \in [Mirrors -> MirrorStats]
OBVIOUS

Levels == {"NONE", "INFO", "SERIOUS", "FATAL"}

\* The body a message stands for, and whether the check accepts it.
ReceivedBody(msg) == IF CheckFinishedTransferStatus(msg) = "NONE" THEN msg.body ELSE "bad"

\* The part of the loop body every finished transfer goes through settles its
\* target, and only an accepted body leaves the level at NONE.
LEMMA AfterTransferSettles ==
  ASSUME TypeOK, TargetsOk, NEW t \in Targets, InTransfer(targets[t]), NEW msg \in Messages
  PROVE  LET after == AfterTransfer(t, msg)
             T == targets[t]
         IN /\ Settling(T, after.target)
            /\ after.level \in Levels
            /\ after.stats = [stats EXCEPT ![T.mirror] =
                                UpdateStatistics(@, after.level = "NONE")]
            /\ T.state = "RUNNING" /\ after.level = "NONE" =>
                 /\ after.target.temp # "absent"
                 /\ after.target.check # "none" => after.target.temp = "good"
<1> DEFINE T == targets[t]
           checked == CheckFinishedTransferStatus(msg)
           body == ReceivedBody(msg)
           R == ReceiveBody(T, body)
           level == IF checked = "NONE" /\ ~FinishTransferOk(R) THEN "SERIOUS" ELSE checked
           F == IF checked = "NONE" /\ level = "SERIOUS" THEN ResetFile(R, "ERROR") ELSE R
           C == Reset(F)
           used == [stats EXCEPT ![R.mirror] = UpdateStatistics(@, level = "NONE")]
           success == level = "NONE"
           serious == level \in {"SERIOUS", "FATAL"}
           A == CompleteMirrorUsage(C, used, AdaptiveSorting, success, serious)
<1>1. AfterTransfer(t, msg) = [level |-> level, stats |-> used, target |-> A]
  BY DEF AfterTransfer, ReceivedBody
<1>2. checked \in Levels
  BY DEF CheckFinishedTransferStatus, Levels
<1>3. level \in Levels
  BY <1>2 DEF Levels
<1>4. body \in {"bad", "good"}
  BY ConstantsOk DEF ReceivedBody
<1>5. /\ T \in TargetRecord /\ TargetOk(T) /\ T.ended = <<>>
      /\ T.mirror \in Range(T.order)
      /\ T.state = "RUNNING" => T.outfile = "open"
  BY DEF TargetsOk, TargetOk, Reported, InTransfer
<1> HIDE DEF T, body
<1>6. /\ R \in TargetRecord
      /\ R.state = T.state /\ R.mirror = T.mirror /\ R.order = T.order /\ R.check = T.check
      /\ R.ended = T.ended /\ R.outfile = T.outfile
      /\ R.dest = T.dest /\ R.zckFinished = T.zckFinished
      /\ T.state = "RUNNING" => R.temp # "absent"
  BY <1>4, <1>5 DEF ReceiveBody, TargetRecord, FileContents
<1>7. T.state = "RUNNING" /\ level = "NONE" => (R.check # "none" => R.temp = "good")
  BY <1>5, <1>6 DEF FinishTransferOk
<1> HIDE DEF R
<1>8. /\ F \in TargetRecord /\ SameButFiles(R, F)
      /\ R.outfile # "none" => F.outfile # "none"
      /\ level = "NONE" => F = R
      /\ F.dest = R.dest
  BY <1>6, ResetFileKeeps, ResetCloses DEF TransferStatuses, SameButFiles
<1> HIDE DEF F
<1>9. /\ C \in TargetRecord /\ SameButFiles(F, C) /\ C.outfile # "open" /\ C.temp = F.temp
      /\ C.dest = F.dest
      /\ F.outfile # "none" => C.outfile = "closed"
  <2>1. C = ResetFile(F, "ALREADYEXISTS")
    BY DEF ResetFile
  <2>2. /\ C.outfile = (IF F.outfile = "none" THEN "none" ELSE "closed") /\ C.temp = F.temp
        /\ C.dest = F.dest
    BY <1>8, ResetCloses
  <2> HIDE DEF C
  <2> QED
    BY <1>8, <2>1, <2>2, ResetFileKeeps DEF TransferStatuses
<1> HIDE DEF C
<1>10. C.mirror \in Range(C.order)
  BY <1>5, <1>6, <1>8, <1>9 DEF SameButFiles
<1>flags. success \in BOOLEAN /\ serious \in BOOLEAN
  OBVIOUS
<1> HIDE DEF level, used, success, serious
<1>11. /\ A \in TargetRecord
       /\ A.state = C.state /\ A.mirror = C.mirror /\ A.check = C.check
       /\ A.ended = C.ended /\ A.outfile = C.outfile /\ A.temp = C.temp
       /\ A.dest = C.dest /\ A.zckFinished = C.zckFinished
  BY <1>9, <1>10, <1>flags, CompleteMirrorUsageKeeps
<1> HIDE DEF A
<1>12. Settling(T, A)
  BY <1>5, <1>6, <1>8, <1>9, <1>11 DEF Settling, SameButFiles
<1>13. T.state = "RUNNING" /\ level = "NONE" =>
         A.temp # "absent" /\ (A.check # "none" => A.temp = "good")
  BY <1>6, <1>7, <1>8, <1>9, <1>11 DEF SameButFiles
<1>14. used = [stats EXCEPT ![T.mirror] = UpdateStatistics(@, level = "NONE")]
  BY <1>6 DEF used
<1> QED
  BY <1>1, <1>3, <1>12, <1>13, <1>14 DEF T

\* Relieving an overloaded mirror keeps the target settled.
LEMMA RelievedSettles ==
  ASSUME NEW T, NEW after, Settling(T, after.target)
  PROVE  /\ Settling(T, Relieved(after).target)
         /\ Relieved(after).stats =
              IF Overloaded(after)
              THEN [after.stats EXCEPT ![after.target.mirror] = LowerParallelConnections(@)]
              ELSE after.stats
<1>1. Settling(T, GiveMirrorAnotherChance(after.target))
  BY SetRetryingOk
<1> QED
  BY <1>1 DEF Relieved

\* The statistics that a handled message leaves are well typed.
LEMMA AfterStatsType ==
  ASSUME TypeOK, TargetsOk, NEW t \in Targets, InTransfer(targets[t]), NEW msg \in Messages
  PROVE  /\ AfterTransfer(t, msg).stats \in [Mirrors -> MirrorStats]
         /\ Relieved(AfterTransfer(t, msg)).stats \in [Mirrors -> MirrorStats]
<1> DEFINE after == AfterTransfer(t, msg)
           m == targets[t].mirror
           success == after.level = "NONE"
<1>1. /\ Settling(targets[t], after.target)
      /\ after.stats = [stats EXCEPT ![m] = UpdateStatistics(@, success)]
  BY AfterTransferSettles
<1>2. success \in BOOLEAN
  OBVIOUS
<1> HIDE DEF after, success
<1>3. stats \in [Mirrors -> MirrorStats]
  BY DEF TypeOK
<1>4. m \in Mirrors
  BY DEF TargetsOk, TargetOk, TargetRecord, Range
<1>5. \A s \in MirrorStats : UpdateStatistics(s, success) \in MirrorStats
                             /\ LowerParallelConnections(s) \in MirrorStats
  BY <1>2, StatsUpdateType
<1>6. after.stats \in [Mirrors -> MirrorStats]
  BY <1>1, <1>3, <1>4, <1>5
<1>7. after.target.mirror \in Mirrors
  BY <1>1, <1>4 DEF Settling
<1>8. Relieved(after).stats \in [Mirrors -> MirrorStats]
  <2> DEFINE n == after.target.mirror
             lowered == LowerParallelConnections(after.stats[n])
  <2>1. lowered \in MirrorStats
    BY <1>5, <1>6, <1>7
  <2>2. Relieved(after).stats \in {after.stats, [after.stats EXCEPT ![n] = lowered]}
    BY <1>1, RelievedSettles
  <2> HIDE DEF lowered
  <2> QED
    BY <1>6, <1>7, <2>1, <2>2
<1> QED
  BY <1>6, <1>8 DEF after

-----------------------------------------------------------------------------
\* The steps.

\* What every step but a stuttering one establishes.
GoodStep ==
  GoodTargets /\ TypeOK' /\ SlotLimit' /\ RunningInTransfer' /\ phase' # "start"

\* The running transfers are a finite set, which an added one grows by one at
\* most and a removed one does not grow.
LEMMA RunningCardinality ==
  ASSUME TypeOK
  PROVE  /\ IsFiniteSet(running) /\ Cardinality(running) \in Nat
         /\ \A t \in Targets :
              /\ Cardinality(running \cup {t}) \in Nat
              /\ Cardinality(running \cup {t}) <= Cardinality(running) + 1
              /\ Cardinality(running \ {t}) \in Nat
              /\ Cardinality(running \ {t}) <= Cardinality(running)
<1>1. IsFiniteSet(Targets)
  <2>1. 1 \in Int /\ NTargets \in Int
    BY ConstantsOk
  <2> QED
    BY <2>1, FS_Interval DEF Targets
<1>2. IsFiniteSet(running)
  <2>1. running \subseteq Targets
    BY DEF TypeOK
  <2> QED
    BY <1>1, <2>1, FS_Subset
<1>3. \A t \in Targets : /\ IsFiniteSet(running \cup {t})
                         /\ Cardinality(running \cup {t}) =
                              IF t \in running THEN Cardinality(running) ELSE Cardinality(running) + 1
  BY <1>2, FS_AddElement
<1>4. \A t \in Targets : /\ IsFiniteSet(running \ {t})
                         /\ Cardinality(running \ {t}) =
                              IF t \in running THEN Cardinality(running) - 1 ELSE Cardinality(running)
  BY <1>2, FS_RemoveElement
<1> QED
  BY <1>2, <1>3, <1>4, FS_CardinalityType

\* A step that changes no target is good for the targets.
LEMMA SameTargetsGood ==
  ASSUME TypeOK, targets' = targets
  PROVE  GoodTargets
BY DEF TypeOK, GoodTargets

\* Failing waiting targets is good, and leaves those in transfer alone.
LEMMA FailingWaitingGood ==
  ASSUME TypeOK, TargetsOk, NEW ts \in SUBSET Waiting, targets' = Failing(ts)
  PROVE  GoodTargets /\ \A t \in Targets : InTransfer(targets[t]) => targets'[t] = targets[t]
<1>1. ts \in SUBSET Targets /\ \A t \in ts : ~Terminal(targets[t]) /\ ~InTransfer(targets[t])
  BY DEF Waiting, Terminal, InTransfer
<1> QED
  BY <1>1, FailingGood DEF GoodTargets, TypeOK

\* A step that leaves the transfers and the mirrors alone and only decides how
\* prepare_next_transfers ends is good when it is good for the targets.
LEMMA PreparationDecided ==
  ASSUME Inv, Preparing, GoodTargets,
         \A t \in Targets : InTransfer(targets[t]) => targets'[t] = targets[t],
         PreparationEnds \/ PreparationAborts \/ (phase' = "thrown" /\ result' = result),
         UNCHANGED <<opts, slots, still, mirrorVars, running, curlVars>>
  PROVE  GoodStep
<1>1. phase' \in {"returned", "perform", "abort", "thrown"} /\ result' \in {"none", "true", "false"}
  BY DEF PreparationEnds, PreparationAborts, Inv, TypeOK
<1>2. TypeOK'
  BY <1>1 DEF Inv, TypeOK, GoodTargets, Phases, mirrorVars, curlVars
<1>3. SlotLimit'
  <2>1. Cardinality(running) \in Nat /\ slots \in Nat /\ MaxParallel \in Nat
    BY RunningCardinality, ConstantsOk DEF Inv, TypeOK
  <2>2. running' = running /\ ~Preparing'
    BY <1>1 DEF Preparing
  <2> QED
    BY <2>1, <2>2 DEF Inv, SlotLimit
<1>4. RunningInTransfer'
  <2> SUFFICES ASSUME ~Stopped', NEW t \in running PROVE InTransfer(targets'[t])
    BY DEF RunningInTransfer, InTransfer
  <2>1. ~Stopped
    BY DEF Stopped, Preparing
  <2> QED
    BY <2>1 DEF Inv, RunningInTransfer, TypeOK
<1> QED
  BY <1>1, <1>2, <1>3, <1>4 DEF GoodStep

\* prepare_next_transfers without a transfer: full, empty, or failing.
LEMMA NoTransferGood ==
  ASSUME Inv, SlotsExhausted \/ NoCandidate \/ SelectionFails
  PROVE  GoodStep
<1>1. TypeOK /\ TargetsOk
  BY DEF Inv
<1>2. CASE SlotsExhausted
  BY <1>1, <1>2, SameTargetsGood, PreparationDecided DEF SlotsExhausted, TypeOK
<1>3. CASE NoCandidate
  BY <1>1, <1>3, FailingWaitingGood, PreparationDecided DEF NoCandidate
<1>4. CASE SelectionFails
  <2>1. PICK t \in Waiting : targets' = Failing({t})
    BY <1>4 DEF SelectionFails
  <2> QED
    BY <1>1, <1>4, <2>1, FailingWaitingGood, PreparationDecided DEF SelectionFails
<1> QED
  BY <1>2, <1>3, <1>4

\* The environment fails while a transfer is prepared.
LEMMA FaultGood ==
  ASSUME Inv, NEW t \in Targets, NEW m \in Mirrors, AddHandleFails(t, m) \/ OpenFileThrows(t, m)
  PROVE  GoodStep
<1> DEFINE M == ChangeMirror(targets[t], m)
<1>1. /\ TypeOK /\ TargetsOk /\ t \in Waiting /\ SelectsMirror(targets[t], m)
  BY DEF Inv, AddHandleFails, OpenFileThrows, Selected
<1>2. TargetOk(targets[t]) /\ targets[t].state = "WAITING" /\ m \in Range(targets[t].order)
  BY <1>1, SelectedMirror DEF TargetsOk, Waiting
<1>3. /\ M \in TargetRecord /\ OpenTargetFile(M) \in TargetRecord
      /\ M.ended = <<>> /\ OpenTargetFile(M).ended = <<>>
      /\ TargetOk([M EXCEPT !.outfile = "closed"])
  BY <1>2, BeginOk
<1> HIDE DEF M
<1>4. TargetOk(SetFailed(M)) /\ TargetOk(SetFailed(OpenTargetFile(M)))
  BY <1>3, SetFailedOk
<1>5. targets \in [Targets -> TargetRecord]
  BY <1>1 DEF TypeOK
<1>6. CASE AddHandleFails(t, m)
  <2>1. PICK T \in {M, OpenTargetFile(M)} : TargetBecomes(t, SetFailed(T))
    BY <1>6 DEF AddHandleFails, M
  <2>2. GoodTargets /\ \A u \in Targets : InTransfer(targets[u]) => targets'[u] = targets[u]
    BY <1>1, <1>4, <1>5, <2>1, TargetBecomesGood
  <2> QED
    BY <1>6, <2>2, PreparationDecided DEF AddHandleFails, Selected
<1>7. CASE OpenFileThrows(t, m)
  <2>1. TargetBecomes(t, [M EXCEPT !.outfile = "closed"])
    BY <1>7 DEF OpenFileThrows, M
  <2>2. GoodTargets /\ \A u \in Targets : InTransfer(targets[u]) => targets'[u] = targets[u]
    BY <1>1, <1>3, <1>5, <2>1, TargetBecomesGood
  <2> QED
    BY <1>7, <2>2, PreparationDecided DEF OpenFileThrows, Selected
<1> QED
  BY <1>6, <1>7

\* A transfer or a preparation is handed to curl.
LEMMA StartGood ==
  ASSUME Inv, NEW t \in Targets, NEW m \in Mirrors, StartPreparation(t, m) \/ StartTransfer(t, m)
  PROVE  GoodStep
<1> DEFINE P == BeginPreparation(ChangeMirror(targets[t], m))
           R == BeginTransfer(ChangeMirror(targets[t], m))
<1>1. /\ TypeOK /\ TargetsOk /\ t \in Waiting /\ SelectsMirror(targets[t], m)
      /\ Preparing /\ slots > 0
  BY DEF Inv, StartPreparation, StartTransfer, Selected
<1>2. TargetOk(targets[t]) /\ targets[t].state = "WAITING" /\ m \in Range(targets[t].order)
  BY <1>1, SelectedMirror DEF TargetsOk, Waiting
<1>3. /\ TargetOk(P) /\ TargetOk(R) /\ InTransfer(P) /\ InTransfer(R)
  BY <1>2, BeginOk DEF InTransfer
<1>4. targets \in [Targets -> TargetRecord]
  BY <1>1 DEF TypeOK
<1>5. PICK T \in {P, R} : TargetBecomes(t, T)
  BY DEF StartPreparation, StartTransfer
<1> HIDE DEF P, R
<1>6. /\ GoodTargets /\ targets'[t] = T
      /\ \A u \in Targets : InTransfer(targets[u]) => targets'[u] = targets[u]
  BY <1>1, <1>3, <1>4, <1>5, TargetBecomesGood
<1>7. /\ running' \in {running, running \cup {t}}
      /\ \/ running' = running /\ slots' = slots
         \/ running' = running \cup {t} /\ slots' = slots - 1
      /\ phase' = phase /\ opts' = opts /\ result' = result /\ still' = still
      /\ inflight' = inflight \cup {t} /\ done' = done /\ prep' = prep /\ ignored' = ignored
  BY DEF StartPreparation, StartTransfer, PushTransfer, mirrorVars
<1>8. stats' \in [Mirrors -> MirrorStats]
  <2>1. stats \in [Mirrors -> MirrorStats]
    BY <1>1 DEF TypeOK
  <2>2. IncreaseRunningTransfers(stats[m]) \in MirrorStats
    BY <2>1, StatsUpdateType
  <2>3. stats' \in {stats, [stats EXCEPT ![m] = IncreaseRunningTransfers(stats[m])]}
    BY <2>1 DEF StartPreparation, StartTransfer, mirrorVars
  <2> QED
    BY <2>1, <2>2, <2>3, StatsExceptType
<1>9. SlotLimit /\ MaxParallel \in Nat /\ slots \in 0..MaxParallel
  BY ConstantsOk DEF Inv, TypeOK
<1>10. /\ Cardinality(running) \in Nat /\ Cardinality(running \cup {t}) \in Nat
       /\ Cardinality(running \cup {t}) <= Cardinality(running) + 1
  BY <1>1, RunningCardinality
<1>11. slots' \in 0..MaxParallel
  BY <1>1, <1>7, <1>9
<1>12. TypeOK'
  BY <1>1, <1>6, <1>7, <1>8, <1>11 DEF TypeOK, GoodTargets
<1>13. SlotLimit'
  <2>1. Cardinality(running) + slots <= MaxParallel /\ Preparing'
    BY <1>1, <1>7, <1>9 DEF SlotLimit, Preparing
  <2>2. CASE running' = running /\ slots' = slots
    BY <2>1, <2>2 DEF SlotLimit, Preparing
  <2>3. CASE running' = running \cup {t} /\ slots' = slots - 1
    <3>1. Cardinality(running \cup {t}) + (slots - 1) <= MaxParallel
      BY <1>9, <1>10, <2>1
    <3> QED
      BY <2>1, <2>3, <3>1 DEF SlotLimit
  <2> QED
    BY <1>7, <2>2, <2>3
<1>14. RunningInTransfer'
  <2> SUFFICES ASSUME NEW u \in running' PROVE InTransfer(targets'[u])
    BY DEF RunningInTransfer, InTransfer
  <2>1. ~Stopped
    BY <1>1 DEF Preparing, Stopped
  <2>2. CASE u = t
    BY <1>3, <1>5, <1>6, <2>2
  <2>3. CASE u # t
    BY <1>1, <1>6, <1>7, <2>1, <2>3 DEF Inv, RunningInTransfer, TypeOK
  <2> QED
    BY <2>2, <2>3
<1> QED
  BY <1>1, <1>6, <1>7, <1>12, <1>13, <1>14 DEF GoodStep, Preparing

\* A message is handled for a target of m_running_transfers, and leaves it
\* well formed.
LEMMA MessageHandled ==
  ASSUME Inv, phase = "msgs", NEW t \in running,
         NEW U, TargetOk(U), targets' = [targets EXCEPT ![t] = U],
         stats' \in [Mirrors -> MirrorStats],
         RemoveTransfer(t),
         phase' \in {"msgs", "abort", "thrown", "crashed"},
         prep' \in [Mirrors -> [Targets -> Nat]], ignored' \in 0..MaxIgnoredAnswers,
         UNCHANGED <<opts, result, slots, still>>
  PROVE  GoodStep
<1>1. TypeOK /\ TargetsOk /\ SlotLimit /\ t \in Targets /\ InTransfer(targets[t])
  BY DEF Inv, TypeOK, RunningInTransfer, Stopped
<1>2. U \in TargetRecord
  BY DEF TargetOk
<1>3. /\ targets' \in [Targets -> TargetRecord] /\ targets'[t] = U
      /\ \A u \in Targets \ {t} : targets'[u] = targets[u]
  BY <1>1, <1>2 DEF TypeOK
<1>4. GoodTargets
  BY <1>1, <1>3 DEF GoodTargets, InTransfer, Terminal
<1>5. TypeOK'
  BY <1>1, <1>3 DEF TypeOK, Phases, RemoveTransfer
<1>6. SlotLimit'
  <2>1. Cardinality(running \ {t}) <= Cardinality(running)
        /\ Cardinality(running \ {t}) \in Nat /\ Cardinality(running) \in Nat
    BY <1>1, RunningCardinality
  <2>2. running' = running \ {t} /\ ~Preparing /\ ~Preparing' /\ MaxParallel \in Nat
    BY ConstantsOk DEF RemoveTransfer, Preparing
  <2> QED
    BY <1>1, <2>1, <2>2 DEF SlotLimit
<1>7. RunningInTransfer'
  BY <1>1, <1>3 DEF Inv, RunningInTransfer, RemoveTransfer, Stopped, InTransfer, TypeOK
<1> QED
  BY <1>4, <1>5, <1>6, <1>7 DEF GoodStep

\* The transfer failed, and its target is retried or fails.
LEMMA ErrorGood ==
  ASSUME Inv, NEW t \in Targets, NEW msg \in Messages,
         \/ TransferRetried(t, msg)
         \/ RetryCrashes(t, msg)
         \/ \E rc \in CbReturnCodes : TransferFailed(t, msg, rc)
  PROVE  GoodStep
<1> DEFINE after == AfterTransfer(t, msg)
           A == Relieved(after).target
           W == [A EXCEPT !.state = "WAITING", !.retries = @ + 1]
<1>1. phase = "msgs" /\ t \in running /\ TypeOK /\ TargetsOk
  BY DEF Inv, TransferRetried, RetryCrashes, TransferFailed, Ended
<1>2. InTransfer(targets[t])
  BY <1>1 DEF Inv, RunningInTransfer, Stopped
<1>3. Settling(targets[t], A)
  BY <1>1, <1>2, AfterTransferSettles, RelievedSettles
<1>4. Relieved(after).stats \in [Mirrors -> MirrorStats]
  BY <1>1, <1>2, AfterStatsType
<1> HIDE DEF A
<1>5. TargetOk(SetRetrying(A)) /\ TargetOk(W) /\ TargetOk(SetFailed(A))
  BY <1>3, SetRetryingOk, SetFailedOk DEF Settling
<1>6. PICK U \in {SetRetrying(A), W, SetFailed(A)} : targets' = [targets EXCEPT ![t] = U]
  BY DEF TransferRetried, RetryCrashes, TransferFailed, A
<1>7. /\ stats' \in [Mirrors -> MirrorStats] /\ RemoveTransfer(t)
      /\ phase' \in {"msgs", "abort", "thrown", "crashed"}
      /\ UNCHANGED <<opts, result, slots, still, prep, ignored>>
  BY <1>1, <1>4 DEF TransferRetried, RetryCrashes, TransferFailed, AfterFailure
<1> HIDE DEF W
<1>8. prep' \in [Mirrors -> [Targets -> Nat]] /\ ignored' \in 0..MaxIgnoredAnswers
  BY <1>1, <1>7 DEF TypeOK
<1> QED
  BY <1>1, <1>5, <1>6, <1>7, <1>8, MessageHandled

\* The transfer succeeded: its target finishes, or waits for its next request.
LEMMA SuccessGood ==
  ASSUME Inv, NEW t \in Targets, NEW msg \in Messages,
         \/ PreparationSucceeded(t, msg)
         \/ \E rc \in CbReturnCodes : TransferSucceeded(t, msg, rc)
  PROVE  GoodStep
<1> DEFINE after == AfterTransfer(t, msg)
           A == after.target
           m == targets[t].mirror
<1>1. /\ phase = "msgs" /\ t \in running /\ TypeOK /\ TargetsOk /\ after.level = "NONE"
      /\ targets' = [targets EXCEPT ![t] = FinalizeTransfer(A)]
      /\ stats' = after.stats /\ RemoveTransfer(t)
      /\ phase' \in {"msgs", "thrown"}
      /\ UNCHANGED <<opts, result, slots, still>>
  BY DEF Inv, PreparationSucceeded, TransferSucceeded, Ended
<1>2. InTransfer(targets[t])
  BY <1>1 DEF Inv, RunningInTransfer, Stopped
<1>3. /\ Settling(targets[t], A)
      /\ targets[t].state = "RUNNING" => A.temp # "absent" /\ (A.check # "none" => A.temp = "good")
  BY <1>1, <1>2, AfterTransferSettles
<1>4. stats' \in [Mirrors -> MirrorStats]
  BY <1>1, <1>2, AfterStatsType
<1> HIDE DEF A
<1>5. TargetOk(FinalizeTransfer(A))
  BY <1>2, <1>3, FinalizeTransferOk
<1>6. prep' \in [Mirrors -> [Targets -> Nat]] /\ ignored' \in 0..MaxIgnoredAnswers
  <2>1. prep \in [Mirrors -> [Targets -> Nat]] /\ ignored \in 0..MaxIgnoredAnswers
        /\ MaxIgnoredAnswers \in Nat
    BY <1>1, ConstantsOk DEF TypeOK
  <2>2. m \in Mirrors
    BY <1>2 DEF Inv, TargetsOk, TargetOk, TargetRecord, Range
  <2> DEFINE left == IF prep[m][t] > 0 THEN prep[m][t] - 1 ELSE 0
             one == [prep[m] EXCEPT ![t] = left]
  <2>3. left \in Nat /\ prep[m] \in [Targets -> Nat]
    BY <2>1, <2>2
  <2>4. prep' = prep \/ prep' = [prep EXCEPT ![m] = one]
    BY <2>1, <2>2 DEF PreparationSucceeded, TransferSucceeded
  <2>5. ignored' \in {ignored, ignored + 1} /\ (ignored' # ignored => ignored < MaxIgnoredAnswers)
    BY DEF PreparationSucceeded, TransferSucceeded
  <2> HIDE DEF left, m
  <2>6. one \in [Targets -> Nat]
    BY <2>3
  <2> HIDE DEF one
  <2> QED
    BY <2>1, <2>2, <2>4, <2>5, <2>6
<1>7. PICK U : U = FinalizeTransfer(A) /\ targets' = [targets EXCEPT ![t] = U]
  BY <1>1 DEF A
<1> QED
  BY <1>1, <1>4, <1>5, <1>6, <1>7, MessageHandled

\* The steps of check_msgs that settle no target.
LEMMA OtherMessageGood ==
  ASSUME Inv,
         \/ \E t \in Targets, msg \in Messages : FinishThrows(t, msg)
         \/ \E t \in Targets : UnknownTransfer(t)
         \/ MessagesRead
         \/ CurlPerform
  PROVE  GoodStep
<1>1. TypeOK /\ SlotLimit /\ ~Preparing /\ ~Stopped
  BY DEF Inv, FinishThrows, UnknownTransfer, MessagesRead, CurlPerform, Preparing, Stopped
<1>2. /\ targets' = targets /\ running' = running
      /\ phase' \in {"thrown", "msgs", "prepare"} /\ done' \in SUBSET Targets
      /\ inflight' \in SUBSET Targets /\ still' \in BOOLEAN
      /\ UNCHANGED <<opts, result, mirrorVars>>
      /\ slots' = slots \/ (slots' = FreeSlots /\ phase' = "prepare")
      /\ phase' = "prepare" => slots' = FreeSlots
  BY <1>1 DEF FinishThrows, UnknownTransfer, MessagesRead, CurlPerform, TypeOK, loopVars, curlVars
<1>3. GoodTargets
  BY <1>1, <1>2, SameTargetsGood
<1>4. Cardinality(running) \in Nat /\ MaxParallel \in Nat /\ Cardinality(running) <= MaxParallel
  BY <1>1, RunningCardinality, ConstantsOk DEF SlotLimit
<1>5. FreeSlots \in 0..MaxParallel /\ Cardinality(running) + FreeSlots = MaxParallel
  BY <1>4 DEF FreeSlots
<1>6. TypeOK'
  BY <1>1, <1>2, <1>5 DEF TypeOK, Phases, mirrorVars
<1>7. SlotLimit'
  <2>1. CASE phase' = "prepare"
    BY <1>2, <1>4, <1>5, <2>1 DEF SlotLimit, Preparing
  <2>2. CASE phase' # "prepare"
    BY <1>2, <1>4, <2>2 DEF SlotLimit, Preparing
  <2> QED
    BY <2>1, <2>2
<1>8. RunningInTransfer'
  BY <1>1, <1>2 DEF Inv, RunningInTransfer, InTransfer
<1> QED
  BY <1>2, <1>3, <1>6, <1>7, <1>8 DEF GoodStep

\* Targets whose file is there finish before the first transfer.
LEMMA CheckGood ==
  ASSUME Inv, CheckAlreadyFinished
  PROVE  GoodStep
<1>1. TypeOK /\ TargetsOk /\ SlotLimit /\ phase = "start"
      /\ \A t \in Targets : Untouched(targets[t])
  BY DEF Inv, CheckAlreadyFinished
<1>2. ASSUME NEW t \in Targets
      PROVE  TargetOk(CheckIfAlreadyFinished(targets[t])) /\ ~Terminal(targets[t])
             /\ ~InTransfer(targets[t])
  <2>1. targets[t] \in TargetRecord /\ TargetOk(targets[t]) /\ Untouched(targets[t])
    BY <1>1 DEF TargetsOk, TypeOK
  <2> QED
    BY <2>1, CheckIfAlreadyFinishedOk DEF Untouched, Terminal, InTransfer
<1>3. \A t \in Targets : CheckIfAlreadyFinished(targets[t]) \in TargetRecord
  BY <1>2 DEF TargetOk
<1>4. GoodTargets
  BY <1>2, <1>3 DEF GoodTargets, CheckAlreadyFinished
<1>5. running = {}
  BY <1>1, <1>2 DEF Inv, RunningInTransfer, Stopped, TypeOK
<1>6. Cardinality(running) = 0 /\ MaxParallel \in Nat
  BY <1>5, FS_EmptySet, ConstantsOk
<1>7. running' = running /\ slots' = MaxParallel
  BY <1>6, ConstantsOk DEF CheckAlreadyFinished, FreeSlots
<1>8. TypeOK'
  BY <1>1, <1>4, <1>6, <1>7 DEF TypeOK, GoodTargets, CheckAlreadyFinished, Phases, mirrorVars, curlVars
<1>9. SlotLimit'
  BY <1>6, <1>7 DEF SlotLimit
<1>10. RunningInTransfer' /\ phase' # "start"
  BY <1>5, <1>7 DEF RunningInTransfer, CheckAlreadyFinished
<1> QED
  BY <1>4, <1>8, <1>9, <1>10 DEF GoodStep

\* An abort fails what is running, and nothing else.
LEMMA AbortGood ==
  ASSUME Inv, Abort
  PROVE  GoodStep
<1>1. TypeOK /\ TargetsOk /\ SlotLimit /\ phase = "abort" /\ running \in SUBSET Targets
  BY DEF Inv, Abort, TypeOK
<1>2. \A t \in running : ~Terminal(targets[t])
  BY <1>1 DEF Inv, RunningInTransfer, Stopped, InTransfer, Terminal
<1>3. targets \in [Targets -> TargetRecord] /\ targets' = Failing(running)
  BY <1>1 DEF TypeOK, Abort
<1>4. GoodTargets
  BY <1>1, <1>2, <1>3, FailingGood DEF GoodTargets
<1>5. TypeOK'
  BY <1>1, <1>4 DEF TypeOK, GoodTargets, Abort, Phases, mirrorVars, curlVars
<1>6. SlotLimit'
  BY <1>1 DEF SlotLimit, Abort, Preparing
<1>7. RunningInTransfer' /\ phase' # "start"
  BY DEF RunningInTransfer, Abort, Stopped
<1> QED
  BY <1>4, <1>5, <1>6, <1>7 DEF GoodStep

\* Every step of Next but a stuttering one is good.
LEMMA NextGood ==
  ASSUME Inv, Next
  PROVE  GoodStep \/ UNCHANGED vars
<1>1. CASE CheckAlreadyFinished
  BY <1>1, CheckGood
<1>2. CASE PrepareStep
  BY <1>2, NoTransferGood, FaultGood, StartGood DEF PrepareStep
<1>3. CASE CurlPerform
  BY <1>3, OtherMessageGood
<1>4. CASE MessageStep
  BY <1>4, ErrorGood, SuccessGood, OtherMessageGood DEF MessageStep
<1>5. CASE Abort
  BY <1>5, AbortGood
<1>6. CASE Terminated
  BY <1>6 DEF Terminated
<1> QED
  BY <1>1, <1>2, <1>3, <1>4, <1>5, <1>6 DEF Next

-----------------------------------------------------------------------------
\* The theorems.

LEMMA InitInv ==
  ASSUME Init
  PROVE  Inv
<1>1. PICK check \in [Targets -> Checks], temp \in [Targets -> InitialTemp],
           dest \in [Targets -> InitialDest], zckFinished \in SUBSET UninitFinished,
           stuck \in SUBSET MayStick :
        targets = [t \in Targets |->
                     NewTarget(MirrorListOf[t], check[t], temp[t], dest[t],
                               t \in zckFinished, t \in stuck)]
  BY DEF Init
<1>2. ASSUME NEW t \in Targets
      PROVE  targets[t] \in TargetRecord /\ TargetOk(targets[t]) /\ Untouched(targets[t])
  <2> DEFINE zck == t \in zckFinished
             stk == t \in stuck
             T == NewTarget(MirrorListOf[t], check[t], temp[t], dest[t], zck, stk)
  <2>1. /\ MirrorListOf[t] \in Seq(Mirrors) /\ check[t] \in CheckKinds
        /\ temp[t] \in FileContents /\ dest[t] \in FileContents
        /\ zck \in BOOLEAN /\ stk \in BOOLEAN
    BY ConstantsOk
  <2>2. targets[t] = T
    BY <1>1
  <2> HIDE DEF T, zck, stk
  <2>3. TargetOk(T) /\ T.state = "WAITING" /\ T.outfile = "none"
    BY <2>1, NewTargetOk DEF T
  <2> QED
    BY <2>2, <2>3 DEF TargetOk, Untouched
<1>3. targets \in [Targets -> TargetRecord]
  <2>1. targets = [t \in Targets |-> targets[t]]
    BY <1>1
  <2> QED
    BY <1>2, <2>1
<1>4. stats \in [Mirrors -> MirrorStats]
  BY NewStatsType DEF Init
<1>5. TypeOK
  <2>1. /\ phase = "start" /\ result = "none" /\ slots = 0 /\ still = FALSE
        /\ opts \in [failfast: BOOLEAN, allowFailure: BOOLEAN]
        /\ prep = PrepSteps /\ ignored = 0
        /\ running = {} /\ inflight = {} /\ done = {}
    BY DEF Init
  <2>2. /\ MaxParallel \in Nat /\ MaxIgnoredAnswers \in Nat
        /\ PrepSteps \in [Mirrors -> [Targets -> Nat]]
    BY ConstantsOk
  <2>3. slots \in 0..MaxParallel /\ ignored \in 0..MaxIgnoredAnswers
    BY <2>1, <2>2
  <2>4. prep \in [Mirrors -> [Targets -> Nat]]
    BY <2>1, <2>2
  <2>5. phase \in Phases /\ result \in {"none", "true", "false"} /\ still \in BOOLEAN
    BY <2>1 DEF Phases
  <2>6. running \subseteq Targets /\ inflight \subseteq Targets /\ done \subseteq Targets
    BY <2>1
  <2> QED
    BY <1>3, <1>4, <2>1, <2>3, <2>4, <2>5, <2>6, Zenon DEF TypeOK
<1>6. SlotLimit
  BY FS_EmptySet, ConstantsOk DEF Init, SlotLimit, Preparing
<1> QED
  BY <1>2, <1>5, <1>6 DEF Inv, TargetsOk, RunningInTransfer, Init

\* No target can be skipped where none may have an uninitialised zck_state.
LEMMA InitZck ==
  ASSUME UninitFinished = {}, Init
  PROVE  \A t \in Targets : targets[t].zckFinished = FALSE
<1>1. PICK check \in [Targets -> Checks], temp \in [Targets -> InitialTemp],
           dest \in [Targets -> InitialDest], zckFinished \in SUBSET UninitFinished,
           stuck \in SUBSET MayStick :
        targets = [t \in Targets |->
                     NewTarget(MirrorListOf[t], check[t], temp[t], dest[t],
                               t \in zckFinished, t \in stuck)]
  BY DEF Init
<1>2. ASSUME NEW t \in Targets
      PROVE  targets[t].zckFinished = FALSE
  <2>1. zckFinished = {}
    BY <1>1
  <2>2. targets[t] = NewTarget(MirrorListOf[t], check[t], temp[t], dest[t],
                               t \in zckFinished, t \in stuck)
    BY <1>1
  <2>3. (t \in zckFinished) = FALSE
    BY <2>1
  <2>4. targets[t] = NewTarget(MirrorListOf[t], check[t], temp[t], dest[t], FALSE, t \in stuck)
    BY <2>2, <2>3
  <2> QED
    BY <2>4 DEF NewTarget
<1> QED
  BY <1>2

LEMMA NextInv ==
  ASSUME Inv, [Next]_vars
  PROVE  Inv'
<1>1. CASE GoodStep
  <2>1. TargetsOk'
    BY <1>1 DEF GoodStep, GoodTargets, Inv, TargetsOk, Targets
  <2> QED
    BY <1>1, <2>1 DEF GoodStep, Inv
<1>2. CASE UNCHANGED vars
  BY <1>2 DEF vars, Inv, TypeOK, TargetsOk, SlotLimit, Preparing, RunningInTransfer,
              Stopped
<1> QED
  BY <1>1, <1>2, NextGood

\* Inv is an invariant of the event loop.
THEOREM Invariance == Spec => []Inv
<1>1. Init => Inv
  BY InitInv
<1>2. Inv /\ [Next]_vars => Inv'
  BY NextInv
<1> QED
  BY <1>1, <1>2, PTL DEF Spec

\* Every variable keeps its type, in particular free_slots never underflows.
THEOREM TypeCorrect == Spec => []TypeOK
<1>1. Inv => TypeOK
  BY DEF Inv
<1> QED
  BY <1>1, Invariance, PTL

\* The end callback of a target is called exactly once, with the status that
\* its final state stands for, whatever retries, faults and aborts occur.
THEOREM CallbackOnce == Spec => []EndCallbackMatchesState
<1>1. Inv => EndCallbackMatchesState
  BY DEF Inv, TargetsOk, TargetOk, EndCallbackMatchesState
<1> QED
  BY <1>1, Invariance, PTL

\* A finished target has a file that passed its check; a final target leaves
\* neither an open file nor a partial one that it opened.
THEOREM FilesChecked == Spec => []FilesMatchState
<1>1. Inv => FilesMatchState
  BY DEF Inv, TargetsOk, TargetOk, FilesMatchState
<1> QED
  BY <1>1, Invariance, PTL

\* No step touches a target that finished or failed.
THEOREM FinalTargetsUntouched == Spec => FinalTargetsStable
<1> DEFINE Stable == \A t \in Targets : Terminal(targets[t]) => targets'[t] = targets[t]
<1>1. Inv /\ [Next]_vars => [Stable]_vars
  <2> SUFFICES ASSUME Inv, [Next]_vars, GoodStep \/ UNCHANGED vars PROVE [Stable]_vars
    BY NextGood
  <2> QED
    BY DEF GoodStep, GoodTargets, vars
<1> QED
  BY <1>1, Invariance, PTL DEF Spec, FinalTargetsStable

-----------------------------------------------------------------------------
\* Transfers: which there are, and what follows from it for the connections of
\* a mirror and their limit, the messages of curl, the choice of a mirror, the
\* destination files, the promises of DownloadService, and what an interrupted
\* download leaves to the next one of a session.
\*
\* Every step of the event loop is of one of four kinds: it starts one transfer
\* or preparation, it ends one, it aborts the download, or it neither starts
\* nor ends any.  StepKinds says so once, with all that the theorems need to
\* know of a step; they then only reason about kinds.

\* Target u neither starts nor ends a transfer; if it settles, it is in state
\* to.
Unmoved(u, to) ==
  \/ targets'[u] = targets[u]
  \/ /\ targets[u].state = "WAITING" /\ targets'[u].state \in {"WAITING", to}
     /\ SameDest(targets[u], targets'[u])

\* download() returns true: nothing waits, or nothing may be added.
ReturnsTrue ==
  /\ phase = "prepare" /\ running = {} /\ phase' = "returned" /\ result' = "true"
  /\ slots = 0 \/ \A t \in Targets : targets'[t].state # "WAITING"

\* curl holds what it held, but for a transfer that is not in the list.
CurlKept ==
  /\ done' \subseteq done \cup inflight
  /\ inflight' = inflight \/ \E t \in done \ running : inflight' = inflight \ {t}

Quiet(to) ==
  /\ \A u \in Targets : Unmoved(u, to)
  /\ ~Stopped /\ phase # "abort"
  /\ UNCHANGED <<stats, prep, running, opts>>
  /\ CurlKept
  /\ ReturnsTrue \/ (result' = result /\ phase' \notin {"returned", "crashed"})
  /\ phase' = "abort" => ~opts.allowFailure \/ "add_handle" \in Faults
  /\ Preparing' => slots' = FreeSlots
  /\ to = "FINISHED" => phase' = "boot"

\* Target t is given to curl, to be downloaded or prepared by mirror m.
Begins(t, m) ==
  /\ Preparing /\ slots > 0
  /\ targets[t].state = "WAITING" /\ SelectsMirror(targets[t], m)
  /\ targets'[t].mirror = m /\ SameDest(targets[t], targets'[t])
  /\ \A u \in Targets \ {t} : Unmoved(u, "FAILED")
  /\ inflight' = inflight \cup {t} /\ PushTransfer(t)
  /\ UNCHANGED <<phase, opts, result, prep, done>>
  /\ \/ /\ targets'[t].state = "RUNNING"
        /\ stats' = [stats EXCEPT ![m] = IncreaseRunningTransfers(@)]
     \/ targets'[t].state = "PREPARATION" /\ stats' = stats /\ prep[m][t] > 0

\* The statistics of mirror m when it has one transfer less.
OneLess(m) ==
  /\ \A n \in Mirrors \ {m} : stats'[n] = stats[n]
  /\ stats'[m].running = stats[m].running - 1
  /\ stats'[m].allowed \in {stats[m].allowed,
                            IF stats'[m].running > 0 THEN stats'[m].running ELSE 1}

\* The transfer or preparation of target t ends.
Ends(t) ==
  /\ phase = "msgs" /\ t \in running /\ InTransfer(targets[t])
  /\ RemoveTransfer(t)
  /\ UNCHANGED <<opts, result, slots>>
  /\ \A u \in Targets \ {t} : targets'[u] = targets[u]
  /\ targets'[t].zckFinished = targets[t].zckFinished
  /\ OneLess(targets[t].mirror)
  /\ targets[t].state = "RUNNING" => prep' = prep
  /\ \/ /\ targets'[t].state = "WAITING" /\ phase' \in {"msgs", "thrown", "crashed"}
        /\ targets'[t].dest = targets[t].dest
     \/ /\ targets'[t].state = "FAILED" /\ phase' \in {"msgs", "abort"}
        /\ phase' = "abort" => opts.failfast \/ "ERROR" \in CbReturnCodes
        /\ targets'[t].dest = targets[t].dest
     \/ /\ targets'[t].state = "FINISHED" /\ targets[t].state = "RUNNING"
        /\ phase' \in {"msgs", "thrown"}

StepKind ==
  \/ Quiet("FAILED") \/ Quiet("FINISHED")
  \/ \E t \in Targets, m \in Mirrors : Begins(t, m)
  \/ \E t \in Targets : Ends(t)
  \/ Abort

-----------------------------------------------------------------------------
\* Every step is of one of the kinds.

\* Waiting targets that fail settle as FAILED, and touch no destination.
LEMMA FailingUnmoved ==
  ASSUME TypeOK, TargetsOk, NEW ts \in SUBSET Targets, \A t \in ts : ~Terminal(targets[t])
  PROVE  /\ \A t \in ts : /\ Failing(ts)[t].state = "FAILED"
                          /\ SameDest(targets[t], Failing(ts)[t])
                          /\ Failing(ts)[t].mirror = targets[t].mirror
         /\ \A t \in Targets \ ts : Failing(ts)[t] = targets[t]
<1>1. targets \in [Targets -> TargetRecord]
  BY DEF TypeOK
<1>2. /\ \A t \in ts : Failing(ts)[t] = SetFailed(targets[t])
      /\ \A t \in Targets \ ts : Failing(ts)[t] = targets[t]
  BY DEF Failing
<1>3. ASSUME NEW t \in ts
      PROVE  /\ SetFailed(targets[t]).state = "FAILED"
             /\ SameDest(targets[t], SetFailed(targets[t]))
             /\ SetFailed(targets[t]).mirror = targets[t].mirror
  <2>1. targets[t] \in TargetRecord /\ targets[t].ended = <<>>
    BY <1>1 DEF TargetsOk, TargetOk, Reported, Terminal
  <2> QED
    BY <2>1, SetFailedOk DEF SameDest
<1> QED
  BY <1>2, <1>3

\* Changing a selected target and failing those before it moves no other one.
LEMMA BecomesUnmoved ==
  ASSUME TypeOK, TargetsOk, NEW t \in Waiting, NEW T, TargetBecomes(t, T)
  PROVE  targets'[t] = T /\ \A u \in Targets \ {t} : Unmoved(u, "FAILED")
<1>1. /\ Skipped(t) \in SUBSET Targets /\ t \in Targets
      /\ \A u \in Skipped(t) : ~Terminal(targets[u]) /\ targets[u].state = "WAITING"
  BY DEF Skipped, Waiting, Terminal
<1> DEFINE F == Failing(Skipped(t))
<1>2. /\ \A u \in Skipped(t) : F[u].state = "FAILED" /\ SameDest(targets[u], F[u])
      /\ \A u \in Targets \ Skipped(t) : F[u] = targets[u]
  BY <1>1, FailingUnmoved
<1>3. targets' = [F EXCEPT ![t] = T] /\ DOMAIN F = Targets
  BY DEF TargetBecomes, Failing
<1> HIDE DEF F
<1>4. targets'[t] = T /\ \A u \in Targets \ {t} : targets'[u] = F[u]
  BY <1>1, <1>3
<1> QED
  BY <1>1, <1>2, <1>4 DEF Unmoved

\* prepare_next_transfers ends, or leaves with an exception.
LEMMA PreparationQuiet ==
  ASSUME Preparing, \A u \in Targets : Unmoved(u, "FAILED"),
         UNCHANGED <<opts, slots, still, mirrorVars, running, curlVars>>,
         \/ PreparationEnds /\ (slots = 0 \/ \A t \in Targets : targets'[t].state # "WAITING")
         \/ PreparationAborts /\ (~opts.allowFailure \/ "add_handle" \in Faults)
         \/ phase' = "thrown" /\ result' = result
  PROVE  Quiet("FAILED")
<1>1. ~Stopped /\ phase # "abort" /\ ~Preparing'
  BY DEF Preparing, Stopped, PreparationEnds, PreparationAborts
<1>2. CurlKept
  BY DEF CurlKept, curlVars
<1>3. ReturnsTrue \/ (result' = result /\ phase' \notin {"returned", "crashed"})
  BY DEF Preparing, PreparationEnds, PreparationAborts, ReturnsTrue
<1>4. phase' = "abort" => ~opts.allowFailure \/ "add_handle" \in Faults
  BY DEF Preparing, PreparationEnds, PreparationAborts
<1> QED
  BY <1>1, <1>2, <1>3, <1>4 DEF Quiet, mirrorVars

LEMMA NoTransferKind ==
  ASSUME Inv, SlotsExhausted \/ NoCandidate \/ SelectionFails
  PROVE  Quiet("FAILED")
<1>1. TypeOK /\ TargetsOk /\ Preparing
  BY DEF Inv, SlotsExhausted, NoCandidate, SelectionFails
<1>2. CASE SlotsExhausted
  BY <1>1, <1>2, PreparationQuiet DEF SlotsExhausted, Unmoved
<1>3. Waiting \in SUBSET Targets /\ \A t \in Waiting : ~Terminal(targets[t]) /\ targets[t].state = "WAITING"
  BY DEF Waiting, Terminal
<1>4. ASSUME NEW ts \in SUBSET Waiting, targets' = Failing(ts)
      PROVE  /\ \A u \in Targets : Unmoved(u, "FAILED")
             /\ \A u \in ts : targets'[u].state = "FAILED"
             /\ \A u \in Targets \ ts : targets'[u] = targets[u]
  BY <1>1, <1>3, <1>4, FailingUnmoved DEF Unmoved
<1>5. CASE NoCandidate
  <2>1. \A u \in Targets : Unmoved(u, "FAILED") /\ targets'[u].state # "WAITING"
    BY <1>4, <1>5 DEF NoCandidate, Waiting
  <2> QED
    BY <1>1, <1>5, <2>1, PreparationQuiet DEF NoCandidate
<1>6. CASE SelectionFails
  <2>1. \A u \in Targets : Unmoved(u, "FAILED")
    BY <1>4, <1>6 DEF SelectionFails
  <2> QED
    BY <1>1, <1>6, <2>1, PreparationQuiet DEF SelectionFails
<1> QED
  BY <1>2, <1>5, <1>6

LEMMA FaultKind ==
  ASSUME Inv, NEW t \in Targets, NEW m \in Mirrors, AddHandleFails(t, m) \/ OpenFileThrows(t, m)
  PROVE  Quiet("FAILED")
<1> DEFINE M == ChangeMirror(targets[t], m)
           O == OpenTargetFile(M)
           X == [M EXCEPT !.outfile = "closed"]
<1>1. /\ TypeOK /\ TargetsOk /\ t \in Waiting /\ SelectsMirror(targets[t], m) /\ Preparing
  BY DEF Inv, AddHandleFails, OpenFileThrows, Selected
<1>2. /\ TargetOk(targets[t]) /\ targets[t].state = "WAITING" /\ m \in Range(targets[t].order)
      /\ targets[t] \in TargetRecord
  BY <1>1, SelectedMirror DEF TargetsOk, TargetOk, Waiting
<1>3. /\ M \in TargetRecord /\ O \in TargetRecord /\ M.ended = <<>> /\ O.ended = <<>>
      /\ SameDest(targets[t], M) /\ SameDest(targets[t], O) /\ SameDest(targets[t], X)
      /\ X.state = "WAITING"
  <2>1. M \in TargetRecord /\ O \in TargetRecord /\ M.ended = <<>> /\ O.ended = <<>>
    BY <1>2, BeginOk
  <2>2. /\ SameDest(targets[t], M) /\ SameDest(targets[t], O) /\ SameDest(targets[t], X)
        /\ X.state = "WAITING"
    BY <1>2, BeginKeeps
  <2> QED
    BY <2>1, <2>2
<1>4. PICK T \in {SetFailed(M), SetFailed(O), X} : TargetBecomes(t, T)
  BY DEF AddHandleFails, OpenFileThrows
<1> HIDE DEF M, O, X
<1>5. T.state \in {"WAITING", "FAILED"} /\ SameDest(targets[t], T)
  BY <1>3, <1>4, SetFailedOk DEF SameDest
<1>6. \A u \in Targets : Unmoved(u, "FAILED")
  BY <1>1, <1>2, <1>4, <1>5, BecomesUnmoved DEF Unmoved
<1>7. \/ PreparationAborts /\ "add_handle" \in Faults
      \/ phase' = "thrown" /\ result' = result
  BY DEF AddHandleFails, OpenFileThrows
<1> QED
  BY <1>1, <1>6, <1>7, PreparationQuiet DEF AddHandleFails, OpenFileThrows

LEMMA StartKind ==
  ASSUME Inv, NEW t \in Targets, NEW m \in Mirrors, StartPreparation(t, m) \/ StartTransfer(t, m)
  PROVE  Begins(t, m)
<1> DEFINE P == BeginPreparation(ChangeMirror(targets[t], m))
           R == BeginTransfer(ChangeMirror(targets[t], m))
<1>1. /\ TypeOK /\ TargetsOk /\ t \in Waiting /\ SelectsMirror(targets[t], m)
      /\ Preparing /\ slots > 0
  BY DEF Inv, StartPreparation, StartTransfer, Selected
<1>2. /\ TargetOk(targets[t]) /\ targets[t].state = "WAITING" /\ m \in Range(targets[t].order)
      /\ targets[t] \in TargetRecord
  BY <1>1, SelectedMirror DEF TargetsOk, TargetOk, Waiting
<1>3. /\ P.state = "PREPARATION" /\ P.mirror = m /\ SameDest(targets[t], P)
      /\ R.state = "RUNNING" /\ R.mirror = m /\ SameDest(targets[t], R)
  <2>1. P.state = "PREPARATION" /\ R.state = "RUNNING" /\ R.mirror = m
    BY <1>2, BeginOk
  <2>2. P.mirror = m /\ SameDest(targets[t], P) /\ SameDest(targets[t], R)
    BY <1>2, BeginKeeps
  <2> QED
    BY <2>1, <2>2
<1>4. /\ inflight' = inflight \cup {t} /\ PushTransfer(t)
      /\ UNCHANGED <<phase, opts, result, prep, done>>
  BY DEF StartPreparation, StartTransfer, mirrorVars
<1>5. CASE StartPreparation(t, m)
  <2>1. TargetBecomes(t, P) /\ stats' = stats /\ prep[m][t] > 0
    BY <1>5 DEF StartPreparation, mirrorVars
  <2> HIDE DEF P
  <2>2. targets'[t] = P /\ \A u \in Targets \ {t} : Unmoved(u, "FAILED")
    BY <1>1, <2>1, BecomesUnmoved
  <2> QED
    BY <1>1, <1>2, <1>3, <1>4, <2>1, <2>2 DEF Begins
<1>6. CASE StartTransfer(t, m)
  <2>1. TargetBecomes(t, R) /\ stats' = [stats EXCEPT ![m] = IncreaseRunningTransfers(@)]
    BY <1>6 DEF StartTransfer
  <2> HIDE DEF R
  <2>2. targets'[t] = R /\ \A u \in Targets \ {t} : Unmoved(u, "FAILED")
    BY <1>1, <2>1, BecomesUnmoved
  <2> QED
    BY <1>1, <1>2, <1>3, <1>4, <2>1, <2>2 DEF Begins
<1> QED
  BY <1>5, <1>6

\* A transfer ends, and with it one connection to its mirror.
LEMMA EndKind ==
  ASSUME Inv, NEW t \in Targets, NEW msg \in Messages,
         \/ TransferRetried(t, msg) \/ RetryCrashes(t, msg) \/ PreparationSucceeded(t, msg)
         \/ \E rc \in CbReturnCodes : TransferFailed(t, msg, rc) \/ TransferSucceeded(t, msg, rc)
  PROVE  Ends(t)
<1> DEFINE after == AfterTransfer(t, msg)
           A == after.target
           B == Relieved(after).target
           W == [B EXCEPT !.state = "WAITING", !.retries = @ + 1]
           N == FinalizeTransfer(A)
           success == after.level = "NONE"
<1>1. phase = "msgs" /\ t \in running /\ TypeOK /\ TargetsOk /\ RemoveTransfer(t)
  BY DEF Inv, TransferRetried, RetryCrashes, PreparationSucceeded,
         TransferFailed, TransferSucceeded, Ended
<1>2. InTransfer(targets[t])
  BY <1>1 DEF Inv, RunningInTransfer, Stopped
<1>3. PICK m \in Mirrors : m = targets[t].mirror
  BY <1>2 DEF Inv, TargetsOk, TargetOk, TargetRecord, Range
<1>4. /\ Settling(targets[t], A)
      /\ after.stats = [stats EXCEPT ![m] = UpdateStatistics(@, success)]
      /\ targets[t].state = "RUNNING" /\ success =>
           A.temp # "absent" /\ (A.check # "none" => A.temp = "good")
  BY <1>1, <1>2, <1>3, AfterTransferSettles
<1>5. /\ Settling(targets[t], B)
      /\ Relieved(after).stats =
           IF Overloaded(after) THEN [after.stats EXCEPT ![m] = LowerParallelConnections(@)]
                                ELSE after.stats
  <2>1. A.mirror = m
    BY <1>3, <1>4 DEF Settling
  <2> HIDE DEF after
  <2> QED
    BY <1>4, <2>1, RelievedSettles
<1>6. /\ after.stats \in [Mirrors -> MirrorStats]
      /\ Relieved(after).stats \in [Mirrors -> MirrorStats]
  BY <1>1, <1>2, AfterStatsType
<1>7. success \in BOOLEAN
  OBVIOUS
<1>8. stats' \in {after.stats, Relieved(after).stats} /\ UNCHANGED <<opts, result, slots>>
  BY DEF TransferRetried, RetryCrashes, PreparationSucceeded, TransferFailed, TransferSucceeded
<1>9. OneLess(m)
  <2> HIDE DEF success
  <2>1. stats \in [Mirrors -> MirrorStats] /\ stats[m] \in MirrorStats
    BY <1>1 DEF TypeOK
  <2>2. /\ after.stats[m] \in MirrorStats
        /\ after.stats[m].running = stats[m].running - 1
        /\ after.stats[m].allowed = stats[m].allowed
        /\ \A n \in Mirrors \ {m} : after.stats[n] = stats[n]
    BY <1>4, <1>6, <1>7, <2>1, StatsUpdateType
  <2> HIDE DEF after
  <2>3. stats' = after.stats \/ stats' = [after.stats EXCEPT ![m] = LowerParallelConnections(@)]
    BY <1>5, <1>8
  <2>4. CASE stats' = after.stats
    BY <2>2, <2>4 DEF OneLess
  <2>5. CASE stats' = [after.stats EXCEPT ![m] = LowerParallelConnections(@)]
    <3>1. /\ stats'[m] = LowerParallelConnections(after.stats[m])
          /\ \A n \in Mirrors \ {m} : stats'[n] = after.stats[n]
      BY <1>6, <2>5
    <3>2. /\ stats'[m].running = after.stats[m].running
          /\ stats'[m].allowed = IF after.stats[m].running > 0 THEN after.stats[m].running ELSE 1
      <4>1. \A s \in MirrorStats :
              /\ LowerParallelConnections(s).running = s.running
              /\ LowerParallelConnections(s).allowed = IF s.running > 0 THEN s.running ELSE 1
        BY StatsUpdateType, TRUE \in BOOLEAN
      <4> QED
        BY <2>2, <3>1, <4>1
    <3> QED
      BY <2>2, <3>1, <3>2 DEF OneLess
  <2> QED
    BY <2>3, <2>4, <2>5
<1> HIDE DEF A, B
<1>10. /\ SetRetrying(B).state = "WAITING" /\ SameDest(targets[t], SetRetrying(B))
       /\ W.state = "WAITING" /\ SameDest(targets[t], W)
  BY <1>5, SetRetryingOk
<1>11. SetFailed(B).state = "FAILED" /\ SameDest(targets[t], SetFailed(B))
  BY <1>5, SetFailedOk DEF Settling, SameDest
<1>12. success => /\ N.state = IF targets[t].state = "RUNNING" THEN "FINISHED" ELSE "WAITING"
                  /\ targets[t].state # "RUNNING" => N.dest = targets[t].dest
                  /\ N.zckFinished = targets[t].zckFinished
  BY <1>2, <1>4, FinalizeTransferOk
<1>13. DOMAIN targets = Targets
  BY <1>1 DEF TypeOK
<1>14. CASE TransferRetried(t, msg) \/ RetryCrashes(t, msg)
  <2>1. PICK U \in {SetRetrying(B), W} : targets' = [targets EXCEPT ![t] = U]
    BY <1>14 DEF TransferRetried, RetryCrashes, B
  <2>2. phase' \in {"msgs", "crashed"} /\ prep' = prep
    BY <1>1, <1>14 DEF TransferRetried, RetryCrashes
  <2> HIDE DEF W
  <2> QED
    BY <1>1, <1>2, <1>3, <1>8, <1>9, <1>10, <1>13, <2>1, <2>2 DEF Ends, SameDest
<1>15. CASE \E rc \in CbReturnCodes : TransferFailed(t, msg, rc)
  <2>1. PICK rc \in CbReturnCodes : TransferFailed(t, msg, rc)
    BY <1>15
  <2>2. /\ targets' = [targets EXCEPT ![t] = SetFailed(B)] /\ prep' = prep
        /\ phase' = AfterFailure(rc)
    BY <2>1 DEF TransferFailed, B
  <2>3. /\ phase' \in {"msgs", "abort"}
        /\ phase' = "abort" => opts.failfast \/ "ERROR" \in CbReturnCodes
    BY <1>1, <2>2 DEF AfterFailure
  <2> QED
    BY <1>1, <1>2, <1>3, <1>8, <1>9, <1>11, <1>13, <2>2, <2>3 DEF Ends, SameDest
<1>16. CASE \E rc \in CbReturnCodes : TransferSucceeded(t, msg, rc)
  <2>1. /\ success /\ targets' = [targets EXCEPT ![t] = N] /\ prep' = prep
        /\ phase' \in {"msgs", "thrown"} /\ targets[t].state = "RUNNING"
    BY <1>1, <1>2, <1>16 DEF TransferSucceeded, InTransfer, A
  <2> HIDE DEF N, success
  <2> QED
    BY <1>1, <1>2, <1>3, <1>8, <1>9, <1>12, <1>13, <2>1 DEF Ends
<1>17. CASE PreparationSucceeded(t, msg)
  <2>1. /\ success /\ targets' = [targets EXCEPT ![t] = N]
        /\ phase' \in {"msgs", "thrown"} /\ targets[t].state # "RUNNING"
    BY <1>1, <1>17 DEF PreparationSucceeded, A
  <2> HIDE DEF N, success
  <2> QED
    BY <1>1, <1>2, <1>3, <1>8, <1>9, <1>12, <1>13, <2>1 DEF Ends
<1> QED
  BY <1>14, <1>15, <1>16, <1>17

\* The steps of check_msgs that end no transfer of the list.
LEMMA OtherMessageKind ==
  ASSUME Inv,
         \/ \E t \in Targets, msg \in Messages : FinishThrows(t, msg)
         \/ \E t \in Targets : UnknownTransfer(t)
         \/ MessagesRead
         \/ CurlPerform
  PROVE  Quiet("FAILED")
<1>1. /\ phase \in {"msgs", "perform"} /\ phase' \in {"thrown", "msgs", "prepare"}
      /\ targets' = targets /\ UNCHANGED <<stats, prep, running, opts, result>>
      /\ phase' = "prepare" => slots' = FreeSlots
  BY DEF FinishThrows, UnknownTransfer, MessagesRead, CurlPerform, mirrorVars, loopVars
<1>2. CurlKept
  <2>1. done \in SUBSET Targets /\ inflight \in SUBSET Targets
    BY DEF Inv, TypeOK
  <2> QED
    BY <2>1 DEF CurlKept, FinishThrows, UnknownTransfer, MessagesRead, CurlPerform, curlVars
<1> QED
  BY <1>1, <1>2 DEF Quiet, Unmoved, Stopped, Preparing

\* Targets whose file is there finish before the first transfer.
LEMMA CheckKind ==
  ASSUME Inv, CheckAlreadyFinished
  PROVE  Quiet("FINISHED")
<1>1. TypeOK /\ TargetsOk /\ phase = "start" /\ \A t \in Targets : Untouched(targets[t])
  BY DEF Inv, CheckAlreadyFinished
<1>2. ASSUME NEW u \in Targets PROVE Unmoved(u, "FINISHED")
  <2>1. targets[u] \in TargetRecord /\ TargetOk(targets[u]) /\ Untouched(targets[u])
    BY <1>1 DEF TargetsOk, TypeOK
  <2>2. targets'[u] = CheckIfAlreadyFinished(targets[u])
    BY DEF CheckAlreadyFinished
  <2> QED
    BY <2>1, <2>2, CheckIfAlreadyFinishedOk DEF Untouched, Unmoved, SameDest
<1>3. CurlKept /\ UNCHANGED <<stats, prep, running, opts, result>> /\ slots' = FreeSlots
      /\ phase' = "boot"
  BY DEF CheckAlreadyFinished, CurlKept, curlVars, mirrorVars
<1> QED
  BY <1>1, <1>2, <1>3 DEF Quiet, Stopped

\* Every step of Next but a stuttering one is of one of the kinds.
LEMMA StepKinds ==
  ASSUME Inv, Next
  PROVE  StepKind \/ UNCHANGED vars
<1>1. CASE CheckAlreadyFinished
  BY <1>1, CheckKind DEF StepKind
<1>2. CASE PrepareStep
  BY <1>2, NoTransferKind, FaultKind, StartKind DEF PrepareStep, StepKind
<1>3. CASE CurlPerform
  BY <1>3, OtherMessageKind DEF StepKind
<1>4. CASE MessageStep
  BY <1>4, EndKind, OtherMessageKind DEF MessageStep, StepKind
<1>5. CASE Abort
  BY <1>5 DEF StepKind
<1>6. CASE Terminated
  BY <1>6 DEF Terminated
<1> QED
  BY <1>1, <1>2, <1>3, <1>4, <1>5, <1>6 DEF Next

\* Running transfers that are aborted fail, and touch no destination.
LEMMA AbortMoves ==
  ASSUME Inv, Abort
  PROVE  /\ \A t \in running : /\ InTransfer(targets[t]) /\ targets'[t].state = "FAILED"
                               /\ SameDest(targets[t], targets'[t])
                               /\ targets'[t].mirror = targets[t].mirror
         /\ \A t \in Targets \ running : targets'[t] = targets[t]
<1>1. TypeOK /\ TargetsOk /\ running \in SUBSET Targets /\ targets' = Failing(running)
      /\ \A t \in running : InTransfer(targets[t])
  BY DEF Inv, TypeOK, Abort, RunningInTransfer, Stopped
<1>2. \A t \in running : ~Terminal(targets[t])
  BY <1>1 DEF InTransfer, Terminal
<1> QED
  BY <1>1, <1>2, FailingUnmoved

-----------------------------------------------------------------------------
\* Which transfers the loop records.

LEMMA TargetsFinite ==
  ASSUME NEW S \in SUBSET Targets
  PROVE  IsFiniteSet(S) /\ Cardinality(S) \in Nat
<1>1. IsFiniteSet(Targets)
  BY ConstantsOk, FS_Interval DEF Targets
<1> QED
  BY <1>1, FS_Subset, FS_CardinalityType

\* m_running_transfers is what curl holds but for the transfers skipped at
\* downloader.cpp:463, and a transfer that was not skipped runs in curl.
RecordInv ==
  /\ Inv
  /\ running = Recorded
  /\ \A t \in Targets : targets[t].state = "RUNNING" /\ ~targets[t].zckFinished => t \in inflight

LEMMA InitRecordInv ==
  ASSUME Init
  PROVE  RecordInv
<1>1. Inv /\ running = {} /\ inflight = {} /\ phase = "start"
  BY InitInv DEF Init
<1> QED
  BY <1>1 DEF RecordInv, Recorded, Inv, Untouched

LEMMA NextRecordInv ==
  ASSUME RecordInv, [Next]_vars
  PROVE  RecordInv'
<1>1. Inv /\ Inv' /\ running = Recorded /\ inflight \in SUBSET Targets
  BY NextInv DEF RecordInv, Inv, TypeOK
<1>2. CASE Quiet("FAILED") \/ Quiet("FINISHED")
  <2>1. /\ running' = running
        /\ inflight' = inflight \/ \E t \in done \ running : inflight' = inflight \ {t}
        /\ \A t \in Targets : /\ targets'[t].zckFinished = targets[t].zckFinished
                              /\ targets'[t].state = "RUNNING" => targets[t].state = "RUNNING"
    BY <1>2 DEF Quiet, CurlKept, Unmoved, SameDest
  <2> QED
    BY <1>1, <2>1 DEF RecordInv, Recorded, Targets
<1>3. ASSUME NEW t \in Targets, NEW m \in Mirrors, Begins(t, m)
      PROVE  RecordInv'
  <2>1. /\ inflight' = inflight \cup {t}
        /\ running' = IF targets[t].zckFinished THEN running ELSE running \cup {t}
        /\ \A u \in Targets : targets'[u].zckFinished = targets[u].zckFinished
        /\ \A u \in Targets \ {t} : targets'[u].state = "RUNNING" => targets[u].state = "RUNNING"
    BY <1>3 DEF Begins, PushTransfer, Unmoved, SameDest
  <2> QED
    BY <1>1, <2>1 DEF RecordInv, Recorded, Targets
<1>4. ASSUME NEW t \in Targets, Ends(t)
      PROVE  RecordInv'
  <2>1. /\ inflight' = inflight \ {t} /\ running' = running \ {t}
        /\ targets'[t].state # "RUNNING" /\ targets'[t].zckFinished = targets[t].zckFinished
        /\ \A u \in Targets \ {t} : targets'[u] = targets[u]
    BY <1>4 DEF Ends, RemoveTransfer
  <2> QED
    BY <1>1, <2>1 DEF RecordInv, Recorded, Targets
<1>5. CASE Abort
  <2>1. /\ inflight' = inflight /\ running' = running
        /\ \A t \in Targets : /\ targets'[t].zckFinished = targets[t].zckFinished
                              /\ targets'[t].state = "RUNNING" => targets[t].state = "RUNNING"
    BY <1>1, <1>5, AbortMoves DEF Abort, curlVars, SameDest
  <2> QED
    BY <1>1, <2>1 DEF RecordInv, Recorded, Targets
<1>6. CASE UNCHANGED vars
  BY <1>1, <1>6 DEF vars, RecordInv, Recorded
<1> QED
  BY <1>1, <1>2, <1>3, <1>4, <1>5, <1>6, StepKinds DEF StepKind

LEMMA RecordInvariant == Spec => []RecordInv
BY InitRecordInv, NextRecordInv, PTL DEF Spec

LEMMA RecordedLimit ==
  ASSUME RecordInv
  PROVE  ParallelLimit
BY DEF RecordInv, Inv, SlotLimit, ParallelLimit

\* Curl never holds more than max_parallel_downloads transfers that were not
\* skipped at downloader.cpp:463, and the free slots leave no room for more.
THEOREM ParallelLimited == Spec => []ParallelLimit
BY RecordedLimit, RecordInvariant, PTL

\* Where no target's uninitialised zck_state can read as finished, no transfer
\* is skipped: curl never holds more than max_parallel_downloads of them.
THEOREM CurlWithinLimit ==
  ASSUME UninitFinished = {}
  PROVE  Spec => [](Cardinality(inflight) <= MaxParallel)
<1> DEFINE NoneSkipped == \A t \in Targets : targets[t].zckFinished = FALSE
<1>1. Init => NoneSkipped
  BY InitZck
<1>2. Inv /\ NoneSkipped /\ [Next]_vars => NoneSkipped'
  BY StepKinds, AbortMoves
  DEF StepKind, Quiet, Begins, Ends, Unmoved, SameDest, vars
<1>3. RecordInv /\ NoneSkipped => Cardinality(inflight) <= MaxParallel
  <2> SUFFICES ASSUME RecordInv, NoneSkipped PROVE Cardinality(inflight) <= MaxParallel
    OBVIOUS
  <2>1. inflight = Recorded /\ slots \in Nat
    BY ConstantsOk DEF RecordInv, Inv, TypeOK, Recorded
  <2>2. Cardinality(inflight) \in Nat
    BY TargetsFinite DEF RecordInv, Inv, TypeOK
  <2> QED
    BY <2>1, <2>2, RecordedLimit, ConstantsOk DEF ParallelLimit
<1> QED
  BY <1>1, <1>2, <1>3, RecordInvariant, Invariance, PTL DEF Spec

-----------------------------------------------------------------------------
\* What no step may do.

\* The destination of a target changes only in the step that finishes the
\* target: whatever fails or is aborted leaves the file that was there
\* (reset_file, target.cpp:59-89).
THEOREM DestinationsSafe == Spec => DestinationSafe
<1> DEFINE Safe == \A t \in Targets : targets'[t].dest # targets[t].dest =>
                     targets[t].state = "RUNNING" /\ targets'[t].state = "FINISHED"
<1>1. Inv /\ [Next]_vars => [Safe]_vars
  <2> SUFFICES ASSUME Inv, StepKind PROVE Safe
    BY StepKinds DEF vars
  <2>1. CASE Quiet("FAILED") \/ Quiet("FINISHED")
    BY <2>1 DEF Quiet, Unmoved, SameDest
  <2>2. CASE \E t \in Targets, m \in Mirrors : Begins(t, m)
    BY <2>2 DEF Begins, Unmoved, SameDest
  <2>3. CASE \E t \in Targets : Ends(t)
    BY <2>3 DEF Ends
  <2>4. CASE Abort
    BY <2>4, AbortMoves DEF SameDest
  <2> QED
    BY <2>1, <2>2, <2>3, <2>4 DEF StepKind
<1> QED
  BY <1>1, Invariance, PTL DEF Spec, DestinationSafe

\* A mirror that a target has tried is selected only when none it has not
\* tried has a connection left.
LEMMA TriedMirrorSelected ==
  ASSUME NEW T, NEW m, SelectsMirror(T, m), m \in T.tried,
         NEW n \in Listed(T) \ T.tried
  PROVE  LimitedAndReached(stats[n])
<1>1. PICK o \in Offers(T) :
        /\ m = T.order[o[2]]
        /\ \A p \in Offers(T) : o[1] < p[1] \/ (o[1] = p[1] /\ o[2] <= p[2])
  BY DEF SelectsMirror
<1>2. o[1] \in Nat /\ o[1] # 0 /\ ~Offline
  BY <1>1, ConstantsOk DEF Offers, Passes, SuitableInPass
<1>3. PICK i \in DOMAIN T.order : n = T.order[i]
  BY DEF Listed, Range
<1>4. 0 \in Passes(T)
  BY ConstantsOk DEF Passes
<1>5. <<0, i>> \notin Offers(T)
  BY <1>1, <1>2
<1>6. ~SuitableInPass(T, 0, T.order[i])
  BY <1>3, <1>4, <1>5 DEF Offers
<1> QED
  BY <1>2, <1>3, <1>6 DEF SuitableInPass

\* A target goes back to a mirror it has tried only when every mirror it has
\* not tried serves as many transfers as it may (select_suitable_mirror,
\* downloader.cpp:207-308).
THEOREM MirrorsTriedFirst == Spec => FreshMirrorsFirst
<1> DEFINE Fresh ==
      \A t \in Targets :
        targets[t].state = "WAITING" /\ InTransfer(targets[t])' /\ targets'[t].mirror \in targets[t].tried
          => \A m \in Listed(targets[t]) \ targets[t].tried : LimitedAndReached(stats[m])
<1>1. Inv /\ [Next]_vars => [Fresh]_vars
  <2> SUFFICES ASSUME Inv, StepKind PROVE Fresh
    BY StepKinds DEF vars, InTransfer
  <2> SUFFICES ASSUME NEW t \in Targets, targets[t].state = "WAITING", InTransfer(targets[t])',
                      targets'[t].mirror \in targets[t].tried
               PROVE  SelectsMirror(targets[t], targets'[t].mirror)
    BY TriedMirrorSelected
  <2>1. targets'[t] # targets[t] /\ targets'[t].state \in {"RUNNING", "PREPARATION"}
    BY DEF InTransfer
  <2>2. ~Quiet("FAILED") /\ ~Quiet("FINISHED")
    BY <2>1 DEF Quiet, Unmoved
  <2>3. \A u \in Targets : ~Ends(u)
    BY <2>1 DEF Ends, InTransfer
  <2>4. ~Abort
    BY <2>1, AbortMoves
  <2>5. PICK u \in Targets, m \in Mirrors : Begins(u, m)
    BY <2>2, <2>3, <2>4 DEF StepKind
  <2>6. u = t
    BY <2>1, <2>5 DEF Begins, Unmoved
  <2> QED
    BY <2>5, <2>6 DEF Begins
<1> QED
  BY <1>1, Invariance, PTL DEF Spec, FreshMirrorsFirst

-----------------------------------------------------------------------------
\* Failures stay with their target.

\* No mirror asks for a preparation.
NoPreparations == \A m \in Mirrors, t \in Targets : PrepSteps[m][t] = 0

OnlyTransfers ==
  /\ prep = PrepSteps
  /\ \A t \in Targets : targets[t].state # "PREPARATION"

LEMMA OnlyTransfersKept ==
  ASSUME Inv, NoPreparations, OnlyTransfers, StepKind
  PROVE  OnlyTransfers'
<1>1. CASE Quiet("FAILED") \/ Quiet("FINISHED")
  BY <1>1 DEF Quiet, Unmoved, OnlyTransfers
<1>2. CASE \E t \in Targets, m \in Mirrors : Begins(t, m)
  BY <1>2 DEF Begins, Unmoved, OnlyTransfers, NoPreparations
<1>3. CASE \E t \in Targets : Ends(t)
  BY <1>3 DEF Ends, InTransfer, OnlyTransfers
<1>4. CASE Abort
  BY <1>4, AbortMoves DEF Abort, mirrorVars, OnlyTransfers
<1> QED
  BY <1>1, <1>2, <1>3, <1>4 DEF StepKind

\* The downloads that may be ended by one of their targets.
Endable == opts.failfast \/ ~opts.allowFailure

\* Where no preparation, no unopenable file and no error of an end callback can
\* do it, no step leaves download() by an exception or crashes: the file of a
\* transfer that ends was open, and what curl wrote to it is there.
LEMMA NoStepCrashes ==
  ASSUME Inv, OnlyTransfers, Next,
         "open_file" \notin Faults, "ERROR" \notin CbReturnCodes,
         phase \notin {"thrown", "crashed"}
  PROVE  phase' \notin {"thrown", "crashed"}
<1>1. ASSUME NEW t \in Targets, NEW msg \in Messages, phase = "msgs", t \in running
      PROVE  /\ targets[t].state = "RUNNING"
             /\ ~FinishTransferThrows(ReceiveBody(targets[t], msg.body))
             /\ ~TruncateCrashes(AfterTransfer(t, msg).target)
  <2>1. TypeOK /\ TargetsOk /\ InTransfer(targets[t])
    BY <1>1 DEF Inv, RunningInTransfer, Stopped
  <2>2. targets[t].state = "RUNNING" /\ targets[t] \in TargetRecord
    BY <1>1, <2>1 DEF OnlyTransfers, InTransfer, TypeOK
  <2>3. ReceiveBody(targets[t], msg.body).temp = msg.body /\ msg.body \in {"bad", "good"}
    BY <2>2, ConstantsOk DEF ReceiveBody, TargetRecord
  <2>4. PICK m \in Mirrors : m = targets[t].mirror
    BY <1>1, <2>1 DEF TargetsOk, TargetOk, TargetRecord, Range
  <2>5. Settling(targets[t], AfterTransfer(t, msg).target)
    BY <1>1, <2>1, <2>4, AfterTransferSettles
  <2> QED
    BY <2>2, <2>3, <2>5 DEF FinishTransferThrows, TruncateCrashes, Settling
<1>2. CASE CheckAlreadyFinished \/ CurlPerform \/ Abort \/ Terminated
  BY <1>2 DEF CheckAlreadyFinished, CurlPerform, Abort, Terminated, vars
<1>3. CASE PrepareStep
  BY <1>3 DEF PrepareStep, SlotsExhausted, NoCandidate, SelectionFails, StartPreparation,
              StartTransfer, AddHandleFails, OpenFileThrows, PreparationEnds,
              PreparationAborts
<1>4. CASE \E t \in Targets, msg \in Messages :
             \/ TransferRetried(t, msg) \/ RetryCrashes(t, msg)
             \/ PreparationSucceeded(t, msg) \/ FinishThrows(t, msg)
             \/ \E rc \in CbReturnCodes : TransferFailed(t, msg, rc) \/ TransferSucceeded(t, msg, rc)
  <2>1. PICK t \in Targets, msg \in Messages :
             \/ TransferRetried(t, msg) \/ RetryCrashes(t, msg)
             \/ PreparationSucceeded(t, msg) \/ FinishThrows(t, msg)
             \/ \E rc \in CbReturnCodes : TransferFailed(t, msg, rc) \/ TransferSucceeded(t, msg, rc)
    BY <1>4
  <2>2. phase = "msgs" /\ t \in running
    BY <2>1 DEF TransferRetried, RetryCrashes, PreparationSucceeded, FinishThrows,
                TransferFailed, TransferSucceeded, Ended
  <2>3. ~RetryCrashes(t, msg) /\ ~PreparationSucceeded(t, msg) /\ ~FinishThrows(t, msg)
    BY <1>1, <2>2 DEF RetryCrashes, PreparationSucceeded, FinishThrows
  <2>4. CASE TransferRetried(t, msg)
    BY <2>2, <2>4 DEF TransferRetried
  <2>5. ASSUME NEW rc \in CbReturnCodes, TransferFailed(t, msg, rc) \/ TransferSucceeded(t, msg, rc)
        PROVE  phase' \notin {"thrown", "crashed"}
    BY <2>2, <2>5 DEF TransferFailed, TransferSucceeded, AfterFailure
  <2> QED
    BY <2>1, <2>3, <2>4, <2>5
<1>5. CASE MessagesRead \/ \E t \in Targets : UnknownTransfer(t)
  BY <1>5 DEF MessagesRead, UnknownTransfer, loopVars
<1> QED
  BY <1>2, <1>3, <1>4, <1>5 DEF Next, MessageStep

\* With allow_failure and without failfast no target whose transfers fail ends
\* the download of the others, neither by an abort nor by an exception or a
\* crash, if targets need no preparation (target.cpp:124), every temporary file
\* can be opened, curl takes every handle and no end callback returns an error
\* (downloader.cpp:677, :343 and :384-388).
THEOREM FailuresStayIsolated ==
  ASSUME NoPreparations, "add_handle" \notin Faults, "open_file" \notin Faults,
         "ERROR" \notin CbReturnCodes
  PROVE  Spec => []FailuresIsolated
<1> DEFINE MayEnd == phase = "abort" \/ result = "false" => Endable
           Sound == phase \notin {"thrown", "crashed"}
<1>1. Init => MayEnd /\ Sound /\ OnlyTransfers
  BY InitInv DEF Init, Inv, Untouched, OnlyTransfers
<1>2. Inv /\ MayEnd /\ [Next]_vars => MayEnd'
  <2> SUFFICES ASSUME Inv, MayEnd, StepKind PROVE MayEnd'
    BY StepKinds DEF vars, Endable
  <2>1. opts' = opts /\ opts \in [failfast: BOOLEAN, allowFailure: BOOLEAN]
    BY DEF StepKind, Quiet, Begins, Ends, Abort, Inv, TypeOK
  <2>2. CASE Quiet("FAILED") \/ Quiet("FINISHED")
    BY <2>1, <2>2 DEF Quiet, ReturnsTrue, Endable
  <2>3. CASE \E t \in Targets, m \in Mirrors : Begins(t, m)
    BY <2>1, <2>3 DEF Begins, Endable
  <2>4. CASE \E t \in Targets : Ends(t)
    BY <2>1, <2>4 DEF Ends, Endable
  <2>5. CASE Abort
    BY <2>1, <2>5 DEF Abort, Endable
  <2> QED
    BY <2>2, <2>3, <2>4, <2>5 DEF StepKind
<1>3. Inv /\ OnlyTransfers /\ [Next]_vars => OnlyTransfers'
  BY OnlyTransfersKept, StepKinds DEF vars, OnlyTransfers
<1>4. Inv /\ OnlyTransfers /\ Sound /\ [Next]_vars => Sound'
  BY NoStepCrashes DEF vars
<1>5. MayEnd /\ Sound => FailuresIsolated
  BY DEF Endable, FailuresIsolated
<1> QED
  BY <1>1, <1>2, <1>3, <1>4, <1>5, Invariance, PTL DEF Spec

-----------------------------------------------------------------------------
\* Connections to a mirror.

\* What is known of a result before the download returns.
ResultIsLast == phase # "returned" => result = "none"

\* No mirror serves more counted transfers than it may.
LimitRespected ==
  \A m \in Mirrors : stats[m].allowed # Unlimited =>
    stats[m].allowed > 0 /\ stats[m].running <= stats[m].allowed

\* The targets whose transfer a mirror counts: the ones in progress on it, and
\* the ones whose DONE message was dropped.
Held(m) == {t \in Targets : targets[t].state = "RUNNING" /\ targets[t].mirror = m}

LEMMA HeldFinite ==
  ASSUME NEW m
  PROVE  /\ IsFiniteSet(Held(m)) /\ Cardinality(Held(m)) \in Nat
         /\ IsFiniteSet(Held(m)') /\ Cardinality(Held(m)') \in Nat
<1>1. Held(m) \in SUBSET Targets /\ Held(m)' \in SUBSET Targets
  BY DEF Held
<1> QED
  BY <1>1, TargetsFinite

\* A held transfer that curl has no longer is one of a skipped target.
LEMMA HeldIsUsing ==
  ASSUME RecordInv, NEW m
  PROVE  /\ Using(m) \in SUBSET Held(m)
         /\ Cardinality(Using(m)) \in Nat
         /\ Cardinality(Held(m)) = Cardinality(Using(m)) + Cardinality(Forgotten(m))
<1>1. inflight \in SUBSET Targets
  BY DEF RecordInv, Inv, TypeOK
<1>2. /\ Using(m) \in SUBSET Targets /\ Forgotten(m) \in SUBSET Targets
      /\ Using(m) \in SUBSET Held(m) /\ Using(m) \cap Forgotten(m) = {}
  BY <1>1 DEF Using, Forgotten, Held
<1>3. \A t \in Targets : targets[t].state = "RUNNING" /\ ~targets[t].zckFinished => t \in inflight
  BY DEF RecordInv
<1>4. Held(m) = Using(m) \cup Forgotten(m)
  BY <1>1, <1>3 DEF Using, Forgotten, Held
<1>5. /\ IsFiniteSet(Using(m)) /\ Cardinality(Using(m)) \in Nat
      /\ IsFiniteSet(Forgotten(m)) /\ Cardinality(Forgotten(m)) \in Nat
  BY <1>2, TargetsFinite
<1>6. Cardinality(Using(m) \cup Forgotten(m)) =
        Cardinality(Using(m)) + Cardinality(Forgotten(m)) - Cardinality(Using(m) \cap Forgotten(m))
  BY <1>5, FS_Union
<1>7. Cardinality(Using(m) \cap Forgotten(m)) = 0
  BY <1>2, FS_EmptySet
<1>8. Cardinality(Held(m)) = Cardinality(Using(m) \cup Forgotten(m))
  BY <1>4
<1>9. Using(m) \in SUBSET Held(m)
  BY <1>2
<1> HIDE DEF Using, Forgotten, Held
<1> QED
  BY <1>5, <1>6, <1>7, <1>8, <1>9

\* Connections that a mirror counts and no transfer holds; fewer than none
\* when preparations were counted down that had not been counted up.
Surplus(m) == stats[m].running - Cardinality(Held(m))

\* Whatever a transfer does to the counter of its mirror it does to the number
\* of transfers as well; only the end of a preparation lowers the counter
\* alone (complete_mirror_usage, target.cpp:835-847).
LEMMA SurplusNeverGrows ==
  ASSUME Inv, StepKind, ~Abort, NEW m \in Mirrors
  PROVE  /\ Surplus(m)' <= Surplus(m)
         /\ (\A t \in Targets : targets[t].state # "PREPARATION") => Surplus(m)' = Surplus(m)
<1>1. /\ stats \in [Mirrors -> MirrorStats] /\ stats[m] \in MirrorStats
      /\ stats[m].running \in Int
  BY DEF Inv, TypeOK, MirrorStats
<1>2. IsFiniteSet(Held(m)) /\ Cardinality(Held(m)) \in Nat
  BY HeldFinite
<1>3. CASE Quiet("FAILED") \/ Quiet("FINISHED")
  <2>1. Held(m)' = Held(m) /\ stats' = stats
    BY <1>3 DEF Quiet, Unmoved, Held
  <2> QED
    BY <1>1, <1>2, <2>1 DEF Surplus
<1>4. ASSUME NEW t \in Targets, NEW n \in Mirrors, Begins(t, n)
      PROVE  Surplus(m)' = Surplus(m)
  <2>1. /\ targets[t].state = "WAITING" /\ targets'[t].mirror = n
        /\ \A u \in Targets \ {t} : Unmoved(u, "FAILED")
    BY <1>4 DEF Begins
  <2>2. CASE targets'[t].state = "RUNNING" /\ stats' = [stats EXCEPT ![n] = IncreaseRunningTransfers(@)]
    <3>1. CASE m = n
      <4>1. Held(m)' = Held(m) \cup {t} /\ t \notin Held(m)
        BY <2>1, <2>2, <3>1 DEF Held, Unmoved
      <4>2. Cardinality(Held(m) \cup {t}) = Cardinality(Held(m)) + 1
        BY <1>2, <4>1, FS_AddElement
      <4>3. stats'[m] = IncreaseRunningTransfers(stats[m])
        BY <1>1, <2>2, <3>1
      <4>4. stats'[m].running = stats[m].running + 1
        BY <1>1, <4>3, StatsUpdateType, TRUE \in BOOLEAN
      <4> QED
        BY <1>1, <1>2, <4>1, <4>2, <4>4 DEF Surplus
    <3>2. CASE m # n
      <4>1. Held(m)' = Held(m)
        BY <2>1, <2>2, <3>2 DEF Held, Unmoved
      <4>2. stats'[m] = stats[m]
        BY <1>1, <2>2, <3>2
      <4> QED
        BY <1>1, <1>2, <4>1, <4>2 DEF Surplus
    <3> QED
      BY <3>1, <3>2
  <2>3. CASE targets'[t].state = "PREPARATION" /\ stats' = stats
    <3>1. Held(m)' = Held(m)
      BY <2>1, <2>3 DEF Held, Unmoved
    <3> QED
      BY <1>1, <1>2, <2>3, <3>1 DEF Surplus
  <2> QED
    BY <1>4, <2>2, <2>3 DEF Begins
<1>5. ASSUME NEW t \in Targets, Ends(t)
      PROVE  /\ Surplus(m)' <= Surplus(m)
             /\ targets[t].state # "PREPARATION" => Surplus(m)' = Surplus(m)
  <2>1. /\ OneLess(targets[t].mirror) /\ targets'[t].state # "RUNNING"
        /\ \A u \in Targets \ {t} : targets'[u] = targets[u]
        /\ targets[t].state \in {"RUNNING", "PREPARATION"}
    BY <1>5 DEF Ends, InTransfer
  <2>2. CASE m = targets[t].mirror
    <3>1. stats'[m].running = stats[m].running - 1
      BY <2>1, <2>2 DEF OneLess
    <3>2. CASE targets[t].state = "RUNNING"
      <4>1. Held(m)' = Held(m) \ {t} /\ t \in Held(m)
        BY <2>1, <2>2, <3>2 DEF Held
      <4>2. Cardinality(Held(m) \ {t}) = Cardinality(Held(m)) - 1
        BY <1>2, <4>1, FS_RemoveElement
      <4> QED
        BY <1>1, <1>2, <3>1, <4>1, <4>2 DEF Surplus
    <3>3. CASE targets[t].state = "PREPARATION"
      <4>1. Held(m)' = Held(m)
        BY <2>1, <3>3 DEF Held
      <4> QED
        BY <1>1, <1>2, <3>1, <3>3, <4>1 DEF Surplus
    <3> QED
      BY <2>1, <3>2, <3>3
  <2>3. CASE m # targets[t].mirror
    <3>1. Held(m)' = Held(m) /\ stats'[m] = stats[m]
      BY <2>1, <2>3 DEF Held, OneLess
    <3> QED
      BY <1>1, <1>2, <3>1 DEF Surplus
  <2> QED
    BY <2>2, <2>3
<1>6. Surplus(m) \in Int
  BY <1>1, <1>2 DEF Surplus
<1> QED
  BY <1>3, <1>4, <1>5, <1>6 DEF StepKind

\* A mirror is given a transfer only below its limit, and a limit is lowered to
\* the number of transfers that are left, or to one.
LEMMA LimitKept ==
  ASSUME Inv, LimitRespected, StepKind
  PROVE  LimitRespected'
<1>1. \A m \in Mirrors : stats[m] \in MirrorStats /\ stats[m].running \in Int /\ stats[m].allowed \in Int
  BY DEF Inv, TypeOK, MirrorStats
<1>2. CASE stats' = stats
  BY <1>2 DEF LimitRespected
<1>3. ASSUME NEW t \in Targets, NEW n \in Mirrors, Begins(t, n),
             stats' = [stats EXCEPT ![n] = IncreaseRunningTransfers(@)]
      PROVE  LimitRespected'
  <2>1. ~LimitedAndReached(stats[n])
    BY <1>3, SelectedMirror DEF Begins
  <2>2. /\ stats'[n] = IncreaseRunningTransfers(stats[n])
        /\ \A m \in Mirrors \ {n} : stats'[m] = stats[m]
    BY <1>3 DEF Inv, TypeOK
  <2>3. stats'[n].running = stats[n].running + 1 /\ stats'[n].allowed = stats[n].allowed
    <3>1. /\ IncreaseRunningTransfers(stats[n]).running = stats[n].running + 1
          /\ IncreaseRunningTransfers(stats[n]).allowed = stats[n].allowed
      BY <1>1, StatsUpdateType, TRUE \in BOOLEAN
    <3> QED
      BY <2>2, <3>1
  <2>4. ASSUME stats'[n].allowed # Unlimited
        PROVE  stats'[n].allowed > 0 /\ stats'[n].running <= stats'[n].allowed
    BY <1>1, <2>1, <2>3, <2>4 DEF LimitRespected, LimitedAndReached
  <2> QED
    BY <2>2, <2>4 DEF LimitRespected
<1>4. ASSUME NEW t \in Targets, Ends(t)
      PROVE  LimitRespected'
  <2>1. OneLess(targets[t].mirror) /\ targets[t].mirror \in Mirrors
    BY <1>4 DEF Ends, Inv, TargetsOk, TargetOk, TargetRecord, Range
  <2> QED
    BY <1>1, <2>1 DEF LimitRespected, OneLess
<1> QED
  BY <1>2, <1>3, <1>4 DEF StepKind, Quiet, Begins, Abort, mirrorVars

LEMMA InitLimit ==
  ASSUME Init
  PROVE  LimitRespected /\ \A m \in Mirrors : Held(m) = {} /\ Surplus(m) = 0
<1>1. \A t \in Targets : targets[t].state = "WAITING"
  BY InitInv DEF Inv, Untouched, Init
<1>2. \A m : Held(m) = {}
  BY <1>1 DEF Held
<1>3. \A m \in Mirrors : stats[m] = NewStats
  BY DEF Init
<1>4. NewStats.running = 0 /\ (NewStats.allowed # Unlimited => NewStats.allowed > 0)
  BY MaxDownloadsPerMirrorInt DEF NewStats, Unlimited
<1>5. \A m \in Mirrors : Surplus(m) = 0
  BY <1>2, <1>3, <1>4, FS_EmptySet DEF Surplus
<1>6. NewStats.allowed # Unlimited => NewStats.allowed > 0 /\ NewStats.running <= NewStats.allowed
  BY MaxDownloadsPerMirrorInt DEF NewStats, Unlimited
<1> QED
  BY <1>2, <1>3, <1>5, <1>6 DEF LimitRespected

\* The loop takes no step once it has stopped, and only then has a result.
LEMMA ResultComesLast ==
  ASSUME ResultIsLast, StepKind
  PROVE  ~Stopped /\ result = "none" /\ ResultIsLast'
BY DEF ResultIsLast, StepKind, Quiet, Begins, Ends, Abort, ReturnsTrue, Stopped, Preparing

\* What holds of the counters for all constants.
CountersInv ==
  /\ Inv /\ ResultIsLast /\ LimitRespected
  /\ result # "false" => \A m \in Mirrors : Surplus(m) <= 0

LEMMA CountersInductive ==
  /\ Init => CountersInv
  /\ CountersInv /\ [Next]_vars => CountersInv'
<1>1. ASSUME Init PROVE CountersInv
  <2>1. Inv /\ LimitRespected
    BY <1>1, InitInv, InitLimit
  <2>2. \A m \in Mirrors : Surplus(m) <= 0
    BY <1>1, InitLimit
  <2>3. ResultIsLast
    BY <1>1 DEF ResultIsLast, Init
  <2> QED
    BY <2>1, <2>2, <2>3 DEF CountersInv
<1>2. ASSUME CountersInv, StepKind, Next PROVE CountersInv'
  <2>1. Inv' /\ LimitRespected' /\ ResultIsLast' /\ result = "none"
    BY <1>2, NextInv, LimitKept, ResultComesLast DEF CountersInv
  <2>2. ASSUME NEW m \in Mirrors, ~Abort PROVE Surplus(m)' <= 0
    <3>1. Surplus(m)' <= Surplus(m) /\ Surplus(m) <= 0
      BY <1>2, <2>1, <2>2, SurplusNeverGrows DEF CountersInv
    <3>2. Surplus(m) \in Int /\ Surplus(m)' \in Int
      <4>1. stats[m].running \in Int /\ stats'[m].running \in Int
        BY <1>2, <2>1 DEF CountersInv, Inv, TypeOK, MirrorStats
      <4> QED
        BY <4>1, HeldFinite DEF Surplus
    <3> QED
      BY <3>1, <3>2
  <2>3. Abort => result' = "false"
    BY DEF Abort
  <2> QED
    BY <2>1, <2>2, <2>3 DEF CountersInv
<1>3. ASSUME CountersInv, UNCHANGED vars PROVE CountersInv'
  BY <1>3, NextInv DEF CountersInv, vars, ResultIsLast, LimitRespected, Surplus, Held
<1> QED
  BY <1>1, <1>2, <1>3, StepKinds DEF CountersInv

LEMMA CountersInvariant == Spec => []CountersInv
BY CountersInductive, PTL DEF Spec

\* Until an abort, running_transfers of a mirror claims no connection beyond
\* its transfers in progress and the ones leaked by a dropped DONE message, also
\* where the ends of preparations lower it below that number (target.cpp:842,
\* downloader.cpp:548-553).
THEOREM CountersNeverOverstated == Spec => []NeverOverstated
<1>1. ASSUME CountersInv, RecordInv, NEW m \in Mirrors, Surplus(m) <= 0
      PROVE  stats[m].running <= Cardinality(Using(m)) + Cardinality(Forgotten(m))
  <2>1. stats[m].running \in Int /\ Cardinality(Held(m)) \in Nat
    BY <1>1, HeldFinite DEF CountersInv, Inv, TypeOK, MirrorStats
  <2>2. stats[m].running <= Cardinality(Held(m))
    BY <1>1, <2>1 DEF Surplus
  <2> QED
    BY <1>1, <2>2, HeldIsUsing
<1>2. CountersInv /\ RecordInv => NeverOverstated
  BY <1>1 DEF CountersInv, NeverOverstated
<1> QED
  BY <1>2, CountersInvariant, RecordInvariant, PTL

\* allowed_parallel_connections of a mirror is only ever lowered: it becomes
\* the number of transfers that are left, which the limit did not allow to
\* exceed it (lower_mirror_parallel_connections, target.cpp:864-882).
THEOREM LimitsOnlyLowered == Spec => LimitOnlyLowered
<1> DEFINE Lowered ==
      \A m \in Mirrors : stats'[m].allowed # stats[m].allowed =>
        /\ stats'[m].allowed # Unlimited
        /\ stats[m].allowed = Unlimited \/ stats'[m].allowed < stats[m].allowed
<1>1. CountersInv /\ [Next]_vars => [Lowered]_vars
  <2> SUFFICES ASSUME CountersInv, Inv, StepKind PROVE Lowered
    BY StepKinds DEF vars, CountersInv
  <2>1. \A m \in Mirrors : stats[m] \in MirrorStats /\ stats[m].running \in Int /\ stats[m].allowed \in Int
    BY DEF Inv, TypeOK, MirrorStats
  <2>2. CASE stats' = stats
    BY <2>2
  <2>3. ASSUME NEW t \in Targets, NEW n \in Mirrors, Begins(t, n),
               stats' = [stats EXCEPT ![n] = IncreaseRunningTransfers(@)]
        PROVE  Lowered
    <3>1. /\ stats'[n] = IncreaseRunningTransfers(stats[n])
          /\ \A m \in Mirrors \ {n} : stats'[m] = stats[m]
      BY <2>3 DEF Inv, TypeOK
    <3>2. stats'[n].allowed = stats[n].allowed
      BY <2>1, <3>1, StatsUpdateType, TRUE \in BOOLEAN
    <3> QED
      BY <3>1, <3>2
  <2>4. ASSUME NEW t \in Targets, Ends(t)
        PROVE  Lowered
    <3>1. OneLess(targets[t].mirror) /\ targets[t].mirror \in Mirrors
      BY <2>4 DEF Ends, Inv, TargetsOk, TargetOk, TargetRecord, Range
    <3> QED
      BY <2>1, <3>1 DEF LimitRespected, CountersInv, OneLess, Unlimited
  <2> QED
    BY <2>2, <2>3, <2>4 DEF StepKind, Quiet, Begins, Abort, mirrorVars
<1> QED
  BY <1>1, CountersInvariant, PTL DEF Spec, LimitOnlyLowered

-----------------------------------------------------------------------------
\* The connections where no mirror asks for preparations.  (With such mirrors
\* the counter is lowered without having been raised, and their limit can be
\* exceeded: it is compared with the counter.)

\* The counter of a mirror, and its limit, in terms of the held transfers.
HeldCounted ==
  result # "false" => \A m \in Mirrors : stats[m].running = Cardinality(Held(m))

HeldLimit ==
  \A m \in Mirrors : stats[m].allowed # Unlimited =>
    /\ stats[m].allowed > 0
    /\ stats[m].running <= stats[m].allowed
    /\ Cardinality(Held(m)) <= stats[m].allowed

ConnectionInv ==
  /\ CountersInv /\ OnlyTransfers /\ HeldCounted /\ HeldLimit

LEMMA ConnectionInductive ==
  ASSUME NoPreparations
  PROVE  /\ Init => ConnectionInv
         /\ ConnectionInv /\ [Next]_vars => ConnectionInv'
<1>1. ASSUME Init PROVE ConnectionInv
  <2>1. CountersInv
    BY <1>1, CountersInductive
  <2>2. /\ LimitRespected
        /\ \A m \in Mirrors : Cardinality(Held(m)) = 0 /\ stats[m].running = 0
    BY <1>1, InitLimit, FS_EmptySet DEF Init, NewStats
  <2>3. OnlyTransfers
    BY <1>1, InitInv DEF Inv, Untouched, Init, OnlyTransfers
  <2>4. HeldCounted
    BY <2>2 DEF HeldCounted
  <2>5. HeldLimit
    BY <2>2 DEF LimitRespected, HeldLimit
  <2> QED
    BY <2>1, <2>3, <2>4, <2>5 DEF ConnectionInv
<1>2. ASSUME ConnectionInv, StepKind, Next PROVE ConnectionInv'
  <2>1. CountersInv' /\ Inv /\ Inv' /\ LimitRespected' /\ result = "none"
    <3>1. CountersInv'
      BY <1>2, CountersInductive DEF ConnectionInv
    <3>2. result = "none"
      BY <1>2, ResultComesLast DEF ConnectionInv, CountersInv
    <3> QED
      BY <1>2, <3>1, <3>2 DEF ConnectionInv, CountersInv
  <2>2. OnlyTransfers'
    BY <1>2, <2>1, OnlyTransfersKept DEF ConnectionInv
  <2>3. ASSUME NEW m \in Mirrors
        PROVE  /\ stats[m].running \in Int /\ stats'[m].running \in Int
               /\ stats[m].allowed \in Int /\ stats'[m].allowed \in Int
               /\ IsFiniteSet(Held(m)) /\ Cardinality(Held(m)) \in Nat
               /\ Cardinality(Held(m)') \in Nat
    BY <2>1, <2>3, HeldFinite DEF Inv, TypeOK, MirrorStats
  <2>4. CASE ~Abort
    <3>1. ASSUME NEW m \in Mirrors PROVE stats'[m].running = Cardinality(Held(m)')
      <4>1. Surplus(m)' = Surplus(m)
        BY <1>2, <2>1, <2>4, SurplusNeverGrows DEF ConnectionInv, OnlyTransfers
      <4>2. stats[m].running = Cardinality(Held(m))
        BY <1>2, <2>1 DEF ConnectionInv, HeldCounted
      <4> QED
        BY <2>3, <4>1, <4>2 DEF Surplus
    <3>2. HeldCounted'
      BY <3>1 DEF HeldCounted
    <3>3. HeldLimit'
      BY <2>1, <3>1 DEF LimitRespected, HeldLimit
    <3> QED
      BY <2>1, <2>2, <3>2, <3>3 DEF ConnectionInv
  <2>5. CASE Abort
    <3>1. stats' = stats /\ result' = "false"
      BY <2>5 DEF Abort, mirrorVars
    <3>2. ASSUME NEW m \in Mirrors PROVE Cardinality(Held(m)') <= Cardinality(Held(m))
      <4>1. \A t \in Targets : targets'[t].state = "RUNNING" => targets'[t] = targets[t]
        BY <2>1, <2>5, AbortMoves
      <4>2. Held(m)' \in SUBSET Held(m)
        BY <4>1 DEF Held
      <4> QED
        BY <2>3, <4>2, FS_Subset
    <3>3. HeldLimit'
      BY <1>2, <2>3, <3>1, <3>2 DEF ConnectionInv, HeldLimit
    <3>4. HeldCounted'
      BY <3>1 DEF HeldCounted
    <3> QED
      BY <2>1, <2>2, <3>3, <3>4 DEF ConnectionInv
  <2> QED
    BY <2>4, <2>5
<1>3. ASSUME ConnectionInv, UNCHANGED vars PROVE ConnectionInv'
  <2>1. CountersInv'
    BY <1>3, CountersInductive DEF ConnectionInv
  <2> QED
    BY <1>3, <2>1 DEF vars, ConnectionInv, OnlyTransfers, HeldCounted,
                      HeldLimit, Held
<1> QED
  BY <1>1, <1>2, <1>3, StepKinds DEF ConnectionInv, CountersInv

LEMMA ConnectionInvariant ==
  ASSUME NoPreparations
  PROVE  Spec => []ConnectionInv
<1>1. Init => ConnectionInv
  BY ConnectionInductive
<1>2. ConnectionInv /\ [Next]_vars => ConnectionInv'
  BY ConnectionInductive
<1> QED
  BY <1>1, <1>2, PTL DEF Spec

\* Without preparation requests, running_transfers of every mirror is, until
\* an abort, the number of transfers in progress on it plus the ones leaked by a
\* dropped DONE message (downloader.cpp:548-553): none, where no target's
\* uninitialised zck_state can read as finished.
THEOREM TransfersCounted ==
  ASSUME NoPreparations
  PROVE  Spec => []RunningTransfersCounted
<1>1. ConnectionInv /\ RecordInv => RunningTransfersCounted
  BY HeldIsUsing DEF ConnectionInv, HeldCounted, RunningTransfersCounted
<1> QED
  BY <1>1, ConnectionInvariant, RecordInvariant, PTL

\* Without preparation requests, no mirror serves more transfers than it is
\* allowed to, however its limit is lowered while transfers run
\* (downloader.cpp:283-289).
THEOREM ConnectionsLimited ==
  ASSUME NoPreparations
  PROVE  Spec => []ConnectionLimit
<1>1. ASSUME ConnectionInv, RecordInv, NEW m \in Mirrors, stats[m].allowed # Unlimited
      PROVE  Cardinality(Using(m)) <= stats[m].allowed
  <2>1. stats[m].allowed \in Int /\ Cardinality(Held(m)) <= stats[m].allowed
    BY <1>1 DEF ConnectionInv, HeldLimit, RecordInv, Inv, TypeOK, MirrorStats
  <2>2. Cardinality(Using(m)) \in Nat /\ Cardinality(Held(m)) \in Nat
        /\ Using(m) \in SUBSET Held(m) /\ IsFiniteSet(Held(m))
    BY <1>1, HeldIsUsing, HeldFinite
  <2>3. Cardinality(Using(m)) <= Cardinality(Held(m))
    BY <2>2, FS_Subset
  <2> QED
    BY <2>1, <2>2, <2>3
<1>2. ConnectionInv /\ RecordInv => ConnectionLimit
  BY <1>1 DEF ConnectionInv, HeldLimit, ConnectionLimit
<1> QED
  BY <1>2, ConnectionInvariant, RecordInvariant, PTL

-----------------------------------------------------------------------------
\* The messages of curl, where every target's zck_state reads as not finished
\* (no constructor initialises it, target.hpp:241).

\* The list of transfers is what the states of the targets and curl's handles
\* say, and the free slots are counted from it.
MatchInv ==
  /\ Inv /\ ResultIsLast
  /\ done \subseteq running
  /\ ~Stopped => inflight = running /\ running = {t \in Targets : InTransfer(targets[t])}
  /\ Preparing => slots = FreeSlots
  /\ \A t \in Targets : targets[t].zckFinished = FALSE

\* No transfer is lost from the list or from curl, and none is in them twice.
MatchKept ==
  /\ done' \subseteq running'
  /\ (~Stopped)' => inflight' = running' /\ running' = {t \in Targets : InTransfer(targets'[t])}
  /\ Preparing' => slots' = FreeSlots'
  /\ \A t \in Targets : targets'[t].zckFinished = FALSE

LEMMA QuietMatches ==
  ASSUME MatchInv, NEW to \in {"FAILED", "FINISHED"}, Quiet(to)
  PROVE  MatchKept
<1>1. ~Stopped /\ done \subseteq running /\ inflight = running
      /\ running = {t \in Targets : InTransfer(targets[t])}
      /\ \A t \in Targets : targets[t].zckFinished = FALSE
  BY DEF MatchInv, Quiet
<1>2. running' = running /\ done' \subseteq running' /\ inflight' = running'
  BY <1>1 DEF Quiet, CurlKept
<1>3. /\ {t \in Targets : InTransfer(targets'[t])} = {t \in Targets : InTransfer(targets[t])}
      /\ \A t \in Targets : targets'[t].zckFinished = FALSE
  BY <1>1 DEF Quiet, Unmoved, InTransfer, SameDest
<1>4. Preparing' => slots' = FreeSlots'
  BY <1>2 DEF Quiet, FreeSlots
<1> QED
  BY <1>1, <1>2, <1>3, <1>4 DEF MatchKept

LEMMA BeginMatches ==
  ASSUME MatchInv, NEW t \in Targets, NEW m \in Mirrors, Begins(t, m)
  PROVE  MatchKept
<1>1. /\ Preparing /\ ~Stopped /\ done \subseteq running /\ inflight = running
      /\ running = {u \in Targets : InTransfer(targets[u])}
      /\ slots = FreeSlots /\ running \subseteq Targets
      /\ \A u \in Targets : targets[u].zckFinished = FALSE
  BY DEF MatchInv, Begins, Preparing, Stopped
<1>2. t \notin running
  BY <1>1 DEF Begins, InTransfer
<1>3. /\ running' = running \cup {t} /\ slots' = slots - 1
      /\ inflight' = running' /\ done' \subseteq running'
  BY <1>1 DEF Begins, PushTransfer
<1>4. /\ InTransfer(targets'[t]) /\ SameDest(targets[t], targets'[t])
      /\ \A u \in Targets \ {t} : Unmoved(u, "FAILED")
  BY DEF Begins, InTransfer
<1>5. running' = {u \in Targets : InTransfer(targets'[u])}
  BY <1>1, <1>3, <1>4 DEF Unmoved, InTransfer
<1>6. \A u \in Targets : targets'[u].zckFinished = FALSE
  BY <1>1, <1>4 DEF Unmoved, SameDest
<1>7. slots' = FreeSlots'
  <2>1. IsFiniteSet(running) /\ Cardinality(running) \in Nat /\ MaxParallel \in Nat
    BY <1>1, TargetsFinite, ConstantsOk
  <2>2. Cardinality(running') = Cardinality(running) + 1
    BY <1>2, <1>3, <2>1, FS_AddElement
  <2> QED
    BY <1>1, <1>3, <2>1, <2>2 DEF FreeSlots
<1> QED
  BY <1>3, <1>5, <1>6, <1>7 DEF MatchKept

LEMMA EndMatches ==
  ASSUME MatchInv, NEW t \in Targets, Ends(t)
  PROVE  MatchKept
<1>1. /\ ~Stopped /\ done \subseteq running /\ inflight = running
      /\ running = {u \in Targets : InTransfer(targets[u])}
      /\ \A u \in Targets : targets[u].zckFinished = FALSE
  BY DEF MatchInv, Ends, Stopped
<1>2. running' = running \ {t} /\ inflight' = running' /\ done' \subseteq running'
  BY <1>1 DEF Ends, RemoveTransfer
<1>3. /\ ~InTransfer(targets'[t]) /\ targets'[t].zckFinished = targets[t].zckFinished
      /\ \A u \in Targets \ {t} : targets'[u] = targets[u]
      /\ ~Preparing'
  BY DEF Ends, InTransfer, Preparing
<1>4. running' = {u \in Targets : InTransfer(targets'[u])}
  BY <1>1, <1>2, <1>3
<1>5. \A u \in Targets : targets'[u].zckFinished = FALSE
  BY <1>1, <1>3
<1> QED
  BY <1>2, <1>3, <1>4, <1>5 DEF MatchKept

LEMMA AbortMatches ==
  ASSUME MatchInv, Abort
  PROVE  MatchKept
<1>1. Stopped' /\ ~Preparing' /\ UNCHANGED <<running, done>>
  BY DEF Abort, Stopped, Preparing, curlVars
<1>2. \A t \in Targets : targets'[t].zckFinished = targets[t].zckFinished
  BY AbortMoves DEF MatchInv, SameDest
<1> QED
  BY <1>1, <1>2 DEF MatchKept, MatchInv

LEMMA InitMatchInv ==
  ASSUME UninitFinished = {}, Init
  PROVE  MatchInv
<1>1. Inv /\ ResultIsLast
  BY InitInv DEF ResultIsLast, Init
<1>3. ASSUME NEW t \in Targets
      PROVE  targets[t].zckFinished = FALSE /\ ~InTransfer(targets[t])
  BY <1>1, InitZck DEF Inv, Untouched, Init, InTransfer
<1>4. done = {} /\ running = {} /\ inflight = {} /\ ~Preparing
  BY DEF Init, Preparing
<1> QED
  BY <1>1, <1>3, <1>4 DEF MatchInv

LEMMA NextMatchInv ==
  ASSUME MatchInv, [Next]_vars
  PROVE  MatchInv'
<1>1. Inv'
  BY NextInv DEF MatchInv
<1>2. CASE StepKind
  <2>1. ResultIsLast'
    BY <1>2, ResultComesLast DEF MatchInv
  <2>2. MatchKept
    BY <1>2, QuietMatches, BeginMatches, EndMatches, AbortMatches DEF StepKind
  <2> QED
    BY <1>1, <2>1, <2>2 DEF MatchKept, MatchInv
<1>3. CASE UNCHANGED vars
  BY <1>1, <1>3 DEF vars, MatchInv, ResultIsLast, Stopped, Preparing, FreeSlots
<1> QED
  BY <1>2, <1>3, StepKinds DEF MatchInv

LEMMA MatchInvariant ==
  ASSUME UninitFinished = {}
  PROVE  Spec => []MatchInv
<1>1. Init => MatchInv
  BY InitMatchInv
<1>2. MatchInv /\ [Next]_vars => MatchInv'
  BY NextMatchInv
<1> QED
  BY <1>1, <1>2, PTL DEF Spec

\* A DONE message always matches a transfer of m_running_transfers
\* (downloader.cpp:532-534), and the list is exactly what curl works on.
THEOREM MessagesAlwaysMatch ==
  ASSUME UninitFinished = {}
  PROVE  Spec => []MessagesMatchRunning
<1>1. MatchInv => MessagesMatchRunning
  BY DEF MatchInv, MessagesMatchRunning
<1> QED
  BY <1>1, MatchInvariant, PTL

-----------------------------------------------------------------------------
\* The event loop implements DownloadService.

\* The job of a target, and how often it was reported, depend on its state.
LEMMA JobOf ==
  ASSUME NEW T, TargetOk(T)
  PROVE  /\ JobState(T) = CASE T.state = "WAITING"  -> "pending"
                            [] T.state = "FINISHED" -> "finished"
                            [] T.state = "FAILED"   -> "failed"
                            [] OTHER                -> "active"
         /\ Len(T.ended) = IF Terminal(T) THEN 1 ELSE 0
<1>1. T.state \in DownloadStates /\ Reported(T)
  BY DEF TargetOk, TargetRecord
<1>2. Len(<<"SUCCESSFUL">>) = 1 /\ Len(<<"ALREADYEXISTS">>) = 1 /\ Len(<<"ERROR">>) = 1 /\ Len(<<>>) = 0
  OBVIOUS
<1>3. Len(T.ended) = IF Terminal(T) THEN 1 ELSE 0
  BY <1>1, <1>2 DEF Reported, Terminal, DownloadStates
<1>4. JobState(T) = CASE T.state = "WAITING"  -> "pending"
                      [] T.state = "FINISHED" -> "finished"
                      [] T.state = "FAILED"   -> "failed"
                      [] OTHER                -> "active"
  BY <1>1 DEF JobState, InTransfer, DownloadStates
<1> QED
  BY <1>3, <1>4

LEMMA JobsByState ==
  ASSUME TargetsOk
  PROVE  /\ Service!JobsIn({"pending"}) = Waiting
         /\ Service!JobsIn({"active"}) = {t \in Targets : InTransfer(targets[t])}
<1>1. ASSUME NEW t \in Targets
      PROVE  /\ JobState(targets[t]) \in {"pending"} <=> targets[t].state = "WAITING"
             /\ JobState(targets[t]) \in {"active"} <=> InTransfer(targets[t])
  <2>1. TargetOk(targets[t]) /\ targets[t].state \in DownloadStates
    BY DEF TargetsOk, TargetOk, TargetRecord
  <2> QED
    BY <2>1, JobOf DEF InTransfer, DownloadStates
<1> QED
  BY <1>1 DEF Service!JobsIn, Waiting

\* Targets of from settle in the state that s stands for, the others keep
\* what they are to the service.
LEMMA Settles ==
  ASSUME TargetsOk, TargetsOk', NEW from \in SUBSET Targets,
         NEW state \in {"FINISHED", "FAILED"},
         NEW s, s = (IF state = "FINISHED" THEN "finished" ELSE "failed"),
         \A t \in from : ~Terminal(targets[t]) /\ targets'[t].state = state,
         \A t \in Targets \ from : targets'[t].state = targets[t].state
  PROVE  Service!Settle(from, s)
<1>1. ASSUME NEW t \in Targets
      PROVE  /\ JobState(targets'[t]) = IF t \in from THEN s ELSE JobState(targets[t])
             /\ Len(targets'[t].ended) = IF t \in from THEN Len(targets[t].ended) + 1
                                                       ELSE Len(targets[t].ended)
  <2>1. TargetOk(targets[t]) /\ TargetOk(targets'[t])
    BY DEF TargetsOk, Targets
  <2> QED
    BY <2>1, JobOf DEF Terminal
<1> QED
  BY <1>1 DEF Service!Settle

\* The outcome is "none" while the loop runs.
LEMMA OutcomeOf ==
  ASSUME ResultIsLast
  PROVE  ~Stopped => JobOutcome = "none"
BY DEF ResultIsLast, Stopped, JobOutcome

LEMMA QuietRefines ==
  ASSUME MatchInv, MatchInv', Quiet("FAILED") \/ Quiet("FINISHED")
  PROVE  Service!Next
<1>1. /\ TargetsOk /\ TargetsOk' /\ JobOutcome = "none" /\ result = "none"
  BY OutcomeOf DEF MatchInv, Inv, Quiet, ResultIsLast, Stopped
<1>2. ASSUME NEW to \in {"FAILED", "FINISHED"}, Quiet(to),
             NEW s, s = (IF to = "FINISHED" THEN "finished" ELSE "failed")
      PROVE  \E from \in SUBSET Service!JobsIn({"pending"}) : Service!Settle(from, s)
  <2> DEFINE from == {t \in Waiting : targets'[t].state = to}
  <2>1. from \in SUBSET Targets /\ from \in SUBSET Service!JobsIn({"pending"})
    BY <1>1, JobsByState DEF Waiting
  <2>2. /\ \A t \in from : ~Terminal(targets[t]) /\ targets'[t].state = to
        /\ \A t \in Targets \ from : targets'[t].state = targets[t].state
    BY <1>2 DEF Quiet, Unmoved, Waiting, Terminal
  <2> HIDE DEF from
  <2>3. Service!Settle(from, s)
    BY <1>1, <1>2, <2>1, <2>2, Settles
  <2> QED
    BY <2>1, <2>3
<1>3. CASE Quiet("FINISHED")
  <2>1. JobOutcome' = JobOutcome
    BY <1>1, <1>3 DEF Quiet, ReturnsTrue, JobOutcome
  <2>2. \E from \in SUBSET Service!JobsIn({"pending"}) : Service!Settle(from, "finished")
    BY <1>2, <1>3
  <2> QED
    BY <1>1, <2>1, <2>2 DEF Service!Next, Service!AlreadyThere
<1>4. CASE Quiet("FAILED")
  <2>1. PICK from \in SUBSET Service!JobsIn({"pending"}) : Service!Settle(from, "failed")
    BY <1>2, <1>4
  <2>2. ASSUME ReturnsTrue
        PROVE  \A t \in Targets : JobState(targets'[t]) \in {"finished", "failed"}
    <3>1. slots > 0
      BY <2>2, FS_EmptySet, ConstantsOk DEF ReturnsTrue, MatchInv, Preparing, FreeSlots
    <3>2. \A t \in Targets : targets'[t].state # "WAITING" /\ ~InTransfer(targets[t])
      BY <2>2, <3>1 DEF ReturnsTrue, MatchInv, Stopped
    <3>3. ASSUME NEW t \in Targets PROVE targets'[t].state \in {"FINISHED", "FAILED"}
      <4>1. TargetOk(targets[t]) /\ targets[t].state \in DownloadStates
        BY <1>1 DEF TargetsOk, TargetOk, TargetRecord
      <4> QED
        BY <1>4, <3>2, <4>1 DEF Quiet, Unmoved, InTransfer, DownloadStates
    <3>4. ASSUME NEW t \in Targets PROVE TargetOk(targets'[t])
      BY <1>1 DEF TargetsOk, Targets
    <3> QED
      BY <3>3, <3>4, JobOf
  <2>3. \/ JobOutcome' = "none"
        \/ JobOutcome' = "true" /\ \A t \in Targets : JobState(targets'[t]) \in {"finished", "failed"}
        \/ JobOutcome' = "thrown"
    BY <1>1, <1>4, <2>2 DEF Quiet, ReturnsTrue, JobOutcome
  <2>4. Service!GiveUp(from)
    BY <1>1, <2>1, <2>3 DEF Service!GiveUp, Service!Settled
  <2> QED
    BY <2>1, <2>4 DEF Service!Next
<1> QED
  BY <1>3, <1>4

LEMMA BeginRefines ==
  ASSUME MatchInv, MatchInv', NEW t \in Targets, NEW m \in Mirrors, Begins(t, m)
  PROVE  Service!Next
<1>0. PICK hopeless \in SUBSET Targets :
       hopeless = {u \in Waiting \ {t} : targets'[u].state = "FAILED"}
  BY DEF Waiting
<1>1. /\ TargetsOk /\ TargetsOk' /\ JobOutcome = "none" /\ JobOutcome' = "none"
      /\ slots = FreeSlots /\ running = {u \in Targets : InTransfer(targets[u])} /\ slots > 0
      /\ running \in SUBSET Targets
  <2>1. Preparing /\ Preparing' /\ slots > 0
    BY DEF Begins, Preparing
  <2> QED
    BY <2>1, OutcomeOf DEF MatchInv, Inv, Preparing, Stopped, ResultIsLast, JobOutcome
<1>2. /\ t \in Service!JobsIn({"pending"}) \ hopeless
      /\ hopeless \in SUBSET Service!JobsIn({"pending"})
  BY <1>0, <1>1, JobsByState DEF Begins, Waiting
<1>3. Service!Cardinality(Service!JobsIn({"active"})) < MaxParallel
  <2>1. Service!JobsIn({"active"}) = running /\ Cardinality(running) \in Nat /\ MaxParallel \in Nat
    BY <1>1, JobsByState, TargetsFinite, ConstantsOk
  <2>2. Service!Cardinality(running) = Cardinality(running)
    BY DEF Service!Cardinality, Cardinality
  <2>3. Cardinality(running) < MaxParallel
    BY <1>1, <2>1 DEF FreeSlots
  <2>4. Service!Cardinality(Service!JobsIn({"active"})) = Cardinality(running)
    BY <2>1, <2>2, Zenon
  <2> QED
    BY <2>3, <2>4
<1>4. ASSUME NEW u \in Targets
      PROVE  /\ JobState(targets'[u]) = IF u = t THEN "active"
                                        ELSE IF u \in hopeless THEN "failed" ELSE JobState(targets[u])
             /\ Len(targets'[u].ended) = IF u \in hopeless THEN Len(targets[u].ended) + 1
                                                           ELSE Len(targets[u].ended)
  <2>1. TargetOk(targets[u]) /\ TargetOk(targets'[u])
    BY <1>1 DEF TargetsOk, Targets
  <2>2. CASE u = t
    <3>1. /\ targets[u].state = "WAITING" /\ targets'[u].state \in {"RUNNING", "PREPARATION"}
          /\ u \notin hopeless
      BY <1>0, <2>2 DEF Begins
    <3> QED
      BY <2>1, <2>2, <3>1, JobOf DEF Terminal
  <2>3. CASE u \in hopeless
    <3>1. targets[u].state = "WAITING" /\ targets'[u].state = "FAILED" /\ u # t
      BY <1>0, <2>3 DEF Waiting
    <3> QED
      BY <2>1, <2>3, <3>1, JobOf DEF Terminal
  <2>4. CASE u # t /\ u \notin hopeless
    <3>1. targets'[u].state = targets[u].state
      BY <1>0, <2>4 DEF Begins, Unmoved, Waiting
    <3> QED
      BY <2>1, <2>4, <3>1, JobOf DEF Terminal
  <2> QED
    BY <2>2, <2>3, <2>4
<1>5. Service!Start(t, hopeless)
  BY <1>1, <1>2, <1>3, <1>4 DEF Service!Start
<1> QED
  BY <1>2, <1>5 DEF Service!Next

LEMMA EndRefines ==
  ASSUME MatchInv, MatchInv', NEW t \in Targets, Ends(t)
  PROVE  Service!Next
<1>1. /\ TargetsOk /\ TargetsOk' /\ JobOutcome = "none" /\ result' = "none"
  BY OutcomeOf DEF MatchInv, Inv, Ends, ResultIsLast, Stopped
<1>2. /\ t \in Service!JobsIn({"active"}) /\ ~Terminal(targets[t])
      /\ \A u \in Targets \ {t} : targets'[u] = targets[u]
  BY <1>1, JobsByState DEF Ends, InTransfer, Terminal
<1>3. CASE targets'[t].state = "WAITING"
  <2>1. ASSUME NEW u \in Targets
        PROVE  /\ JobState(targets'[u]) = IF u = t THEN "pending" ELSE JobState(targets[u])
               /\ Len(targets'[u].ended) = Len(targets[u].ended)
    <3>1. TargetOk(targets[u]) /\ TargetOk(targets'[u])
      BY <1>1 DEF TargetsOk, Targets
    <3> QED
      BY <1>2, <1>3, <3>1, JobOf DEF Terminal
  <2>2. JobOutcome' \in {"none", "thrown"}
    BY <1>1 DEF JobOutcome
  <2>3. Service!Requeue(t)
    BY <1>1, <1>2, <2>1, <2>2 DEF Service!Requeue
  <2> QED
    BY <2>3 DEF Service!Next
<1>4. CASE targets'[t].state = "FAILED"
  <2>1. Service!Settle({t}, "failed")
    BY <1>1, <1>2, <1>4, Settles
  <2>2. JobOutcome' = JobOutcome
    BY <1>1, <1>4 DEF Ends, JobOutcome
  <2>3. Service!Fail(t)
    BY <1>1, <1>2, <2>1, <2>2 DEF Service!Fail
  <2> QED
    BY <2>3 DEF Service!Next
<1>5. CASE targets'[t].state = "FINISHED"
  <2>1. Service!Settle({t}, "finished")
    BY <1>1, <1>2, <1>5, Settles
  <2>2. JobOutcome' \in {"none", "thrown"}
    BY <1>1 DEF JobOutcome
  <2>3. Service!Finish(t)
    BY <1>1, <1>2, <2>1, <2>2 DEF Service!Finish
  <2> QED
    BY <2>3 DEF Service!Next
<1> QED
  BY <1>3, <1>4, <1>5 DEF Ends

LEMMA AbortRefines ==
  ASSUME MatchInv, MatchInv', Abort
  PROVE  Service!Next
<1>1. /\ TargetsOk /\ TargetsOk' /\ JobOutcome = "none" /\ JobOutcome' = "false" /\ Inv
      /\ running = {u \in Targets : InTransfer(targets[u])} /\ running \in SUBSET Targets
  BY OutcomeOf DEF MatchInv, Inv, Abort, Stopped, JobOutcome
<1>2. /\ \A t \in running : ~Terminal(targets[t]) /\ targets'[t].state = "FAILED"
      /\ \A t \in Targets \ running : targets'[t].state = targets[t].state
  BY <1>1, AbortMoves DEF Terminal, InTransfer
<1>3. Service!Settle(running, "failed")
  BY <1>1, <1>2, Settles
<1>4. Service!Settle(Service!JobsIn({"active"}), "failed")
  BY <1>1, <1>3, JobsByState
<1> QED
  BY <1>1, <1>4 DEF Service!Next, Service!Abort

LEMMA InitRefines ==
  ASSUME MatchInv, Init
  PROVE  Service!Init
<1>1. JobOutcome = "none"
  BY DEF Init, JobOutcome
<1>2. ASSUME NEW t \in Targets
      PROVE  JobState(targets[t]) = "pending" /\ Len(targets[t].ended) = 0
  <2>1. TargetOk(targets[t]) /\ targets[t].state = "WAITING"
    BY DEF MatchInv, Inv, TargetsOk, Untouched, Init
  <2> QED
    BY <2>1, JobOf DEF Terminal
<1> QED
  BY <1>1, <1>2 DEF Service!Init

\* Downloader::download keeps the promises of DownloadService: at most
\* max_parallel_downloads active jobs, one report of every job that settles,
\* "true" only when every job has settled, and on "false" only the active ones
\* have failed.  An uninitialised zck_state that reads as finished breaks it:
\* the loop then forgets a transfer that curl still has.
THEOREM ServiceImplemented ==
  ASSUME UninitFinished = {}
  PROVE  Spec => ImplementsService
<1>1. Init => Service!Init
  BY InitMatchInv, InitRefines
<1>2. MatchInv /\ [Next]_vars => [Service!Next]_(Service!serviceVars)
  <2>1. CASE UNCHANGED vars
    BY <2>1 DEF vars, Service!serviceVars, JobOutcome
  <2> SUFFICES ASSUME MatchInv, MatchInv', StepKind PROVE Service!Next
    BY <2>1, NextMatchInv, StepKinds DEF MatchInv
  <2> QED
    BY QuietRefines, BeginRefines, EndRefines, AbortRefines DEF StepKind
<1> QED
  BY <1>1, <1>2, MatchInvariant, PTL DEF Spec, ImplementsService, Service!Spec

-----------------------------------------------------------------------------
\* Several downloads over the same mirrors.

\* The next download starts as a first one does, but for the statistics and
\* the preparations of its mirrors.
LEMMA NextDownloadTargets ==
  ASSUME Inv, NextDownload
  PROVE  /\ targets' \in [Targets -> TargetRecord]
         /\ \A t \in Targets : TargetOk(targets'[t])
         /\ \A t \in Targets : targets'[t].state = "WAITING" /\ targets'[t].outfile = "none"
         /\ UninitFinished = {} => \A t \in Targets : targets'[t].zckFinished = FALSE
<1>1. PICK zckFinished \in SUBSET UninitFinished,
           stuck \in SUBSET MayStick :
        targets' = [t \in Targets |->
                      NewTarget(MirrorListOf[t], targets[t].check, targets[t].temp,
                                targets[t].dest, t \in zckFinished, t \in stuck)]
  BY DEF NextDownload
<1>2. ASSUME NEW t \in Targets
      PROVE  /\ targets'[t] \in TargetRecord /\ TargetOk(targets'[t])
             /\ targets'[t].state = "WAITING" /\ targets'[t].outfile = "none"
             /\ UninitFinished = {} => targets'[t].zckFinished = FALSE
  <2> DEFINE zck == t \in zckFinished
             stk == t \in stuck
             T == NewTarget(MirrorListOf[t], targets[t].check, targets[t].temp,
                            targets[t].dest, zck, stk)
  <2>1. zck \in BOOLEAN /\ stk \in BOOLEAN /\ (UninitFinished = {} => zck = FALSE)
    OBVIOUS
  <2>2. targets'[t] = T
    BY <1>1
  <2>3. targets[t] \in TargetRecord /\ MirrorListOf[t] \in Seq(Mirrors)
    BY ConstantsOk DEF Inv, TypeOK
  <2>4. /\ targets[t].check \in CheckKinds
        /\ targets[t].temp \in FileContents /\ targets[t].dest \in FileContents
    BY <2>3 DEF TargetRecord
  <2> HIDE DEF T, zck, stk
  <2>5. TargetOk(T) /\ T.state = "WAITING" /\ T.outfile = "none" /\ T.zckFinished = zck
    BY <2>1, <2>3, <2>4, NewTargetOk DEF T
  <2> QED
    BY <2>1, <2>2, <2>5 DEF TargetOk
<1>3. targets' \in [Targets -> TargetRecord]
  <2>1. targets' = [t \in Targets |-> targets'[t]]
    BY <1>1
  <2> QED
    BY <1>2, <2>1
<1> QED
  BY <1>2, <1>3

LEMMA NextDownloadInv ==
  ASSUME Inv, NextDownload
  PROVE  Inv' /\ ResultIsLast' /\ (UninitFinished = {} => MatchInv')
<1>1. /\ targets' \in [Targets -> TargetRecord]
      /\ \A t \in Targets : TargetOk(targets'[t])
      /\ \A t \in Targets : targets'[t].state = "WAITING" /\ targets'[t].outfile = "none"
      /\ UninitFinished = {} => \A t \in Targets : targets'[t].zckFinished = FALSE
  BY NextDownloadTargets
<1>2. /\ phase' = "start" /\ result' = "none" /\ slots' = 0 /\ still' = FALSE
      /\ opts' \in [failfast: BOOLEAN, allowFailure: BOOLEAN]
      /\ UNCHANGED <<stats, prep, ignored>>
      /\ running' = {} /\ inflight' = {} /\ done' = {}
  BY DEF NextDownload
<1>3. TypeOK'
  <2>1. slots' \in 0..MaxParallel
    BY <1>2, ConstantsOk
  <2>2. phase' \in Phases /\ result' \in {"none", "true", "false"} /\ still' \in BOOLEAN
    BY <1>2 DEF Phases
  <2>3. /\ stats' \in [Mirrors -> MirrorStats] /\ prep' \in [Mirrors -> [Targets -> Nat]]
        /\ ignored' \in 0..MaxIgnoredAnswers
    BY <1>2 DEF Inv, TypeOK
  <2>4. running' \subseteq Targets /\ inflight' \subseteq Targets /\ done' \subseteq Targets
    BY <1>2
  <2> QED
    BY <1>1, <1>2, <2>1, <2>2, <2>3, <2>4, Zenon DEF TypeOK, Targets
<1>4. SlotLimit'
  BY <1>2, FS_EmptySet, ConstantsOk DEF SlotLimit, Preparing
<1>5. Inv'
  <2>1. TargetsOk'
    BY <1>1 DEF TargetsOk, Targets
  <2>2. \A t \in Targets : Untouched(targets'[t])
    BY <1>1 DEF Untouched
  <2>3. RunningInTransfer'
    BY <1>2 DEF RunningInTransfer
  <2> QED
    BY <1>3, <1>4, <2>1, <2>2, <2>3 DEF Inv, Targets
<1>6. ResultIsLast'
  BY <1>2 DEF ResultIsLast
<1>7. ASSUME UninitFinished = {} PROVE MatchInv'
  <2>1. {t \in Targets : InTransfer(targets'[t])} = {}
    BY <1>1 DEF InTransfer
  <2>2. ~Preparing' /\ done' \subseteq running'
    BY <1>2 DEF Preparing
  <2> QED
    BY <1>1, <1>2, <1>5, <1>6, <1>7, <2>1, <2>2 DEF MatchInv
<1> QED
  BY <1>5, <1>6, <1>7

LEMMA DownloadStepIsNext == DownloadStep => Next /\ UNCHANGED sessionVars
BY DEF DownloadStep, Next

\* A download over mirrors that others have used is as safe as the first:
\* none of what the loop relies on is the statistics' initial value.
THEOREM EveryDownloadSafe ==
  SessionSpec => [](EndCallbackMatchesState /\ FilesMatchState /\ ParallelLimit)
<1>1. SessionInit => RecordInv
  BY InitRecordInv DEF SessionInit
<1>2. RecordInv /\ [SessionNext]_allVars => RecordInv'
  <2> SUFFICES ASSUME RecordInv, [SessionNext]_allVars PROVE RecordInv'
    OBVIOUS
  <2>1. CASE DownloadStep
    BY <2>1, DownloadStepIsNext, NextRecordInv
  <2>2. CASE NextDownload
    <3>1. Inv' /\ \A t \in Targets : targets'[t].state = "WAITING"
      BY <2>2, NextDownloadInv, NextDownloadTargets DEF RecordInv
    <3>2. running' = {} /\ inflight' = {}
      BY <2>2 DEF NextDownload
    <3> QED
      BY <3>1, <3>2 DEF RecordInv, Recorded, Targets
  <2>3. CASE UNCHANGED allVars
    BY <2>3, NextRecordInv DEF allVars
  <2> QED
    BY <2>1, <2>2, <2>3 DEF SessionNext, SessionEnds
<1>3. RecordInv => EndCallbackMatchesState /\ FilesMatchState /\ ParallelLimit
  BY RecordedLimit
  DEF RecordInv, Inv, TargetsOk, TargetOk, EndCallbackMatchesState, FilesMatchState
<1> QED
  BY <1>1, <1>2, <1>3, PTL DEF SessionSpec

\* What a session keeps: the counter of a mirror is accounted for, by the
\* transfers of this download or the ones that earlier ones left behind.
SessionInv ==
  /\ MatchInv /\ OnlyTransfers
  /\ leaked \in [Mirrors -> Nat]
  /\ LeakedByInterrupted

LEMMA CountedUnlessAborted ==
  ASSUME result # "false", NEW m
  PROVE  Counted(m) = Held(m)
BY DEF Counted, Held

LEMMA SessionStep ==
  ASSUME SessionInv, NoPreparations, StepKind, Next, leaked' = leaked
  PROVE  SessionInv'
<1>1. MatchInv' /\ OnlyTransfers' /\ Inv /\ Inv' /\ result = "none"
  BY NextMatchInv, OnlyTransfersKept, ResultComesLast DEF SessionInv, MatchInv
<1>2. ASSUME NEW m \in Mirrors
      PROVE  stats'[m].running = leaked'[m] + Cardinality(Counted(m)')
  <2>1. /\ stats[m].running \in Int /\ stats'[m].running \in Int
        /\ Cardinality(Held(m)) \in Nat /\ Cardinality(Held(m)') \in Nat
        /\ leaked[m] \in Nat
    BY <1>1, HeldFinite DEF Inv, TypeOK, MirrorStats, SessionInv
  <2>2. stats[m].running = leaked[m] + Cardinality(Held(m))
    BY <1>1, CountedUnlessAborted DEF SessionInv, LeakedByInterrupted
  <2>3. CASE ~Abort
    <3>1. Surplus(m)' = Surplus(m)
      BY <1>1, <2>3, SurplusNeverGrows DEF SessionInv, OnlyTransfers
    <3>2. result' # "false"
      BY <1>1, <2>3 DEF StepKind, Quiet, Begins, Ends, ReturnsTrue
    <3>3. Counted(m)' = Held(m)'
      BY <3>2 DEF Counted, Held
    <3> QED
      BY <2>1, <2>2, <3>1, <3>3 DEF Surplus
  <2>4. CASE Abort
    <3>1. /\ stats' = stats /\ running' = running /\ result' = "false"
          /\ running = {t \in Targets : InTransfer(targets[t])}
      BY <2>4 DEF Abort, mirrorVars, SessionInv, MatchInv, Stopped
    <3>2. running = {t \in Targets : targets[t].state = "RUNNING"}
      BY <3>1 DEF InTransfer, SessionInv, OnlyTransfers
    <3>3. \A t \in running : targets'[t].mirror = targets[t].mirror
      BY <1>1, <2>4, AbortMoves
    <3>4. Counted(m)' = Held(m)
      BY <3>1, <3>2, <3>3 DEF Counted, Held
    <3> QED
      BY <2>2, <3>1, <3>4
  <2> QED
    BY <2>3, <2>4
<1> QED
  BY <1>1, <1>2 DEF SessionInv, LeakedByInterrupted

LEMMA SessionNextDownload ==
  ASSUME SessionInv, UninitFinished = {}, NextDownload
  PROVE  SessionInv'
<1>1. Inv /\ MatchInv'
  BY NextDownloadInv DEF SessionInv, MatchInv
<1>2. \A t \in Targets : targets'[t].state = "WAITING"
  BY <1>1, NextDownloadTargets
<1>3. OnlyTransfers'
  BY <1>2 DEF OnlyTransfers, SessionInv, NextDownload
<1>4. /\ stats' = stats /\ result' = "none"
      /\ leaked' = [m \in Mirrors |-> leaked[m] + Cardinality(Counted(m))]
  BY DEF NextDownload
<1>5. ASSUME NEW m \in Mirrors
      PROVE  /\ leaked[m] \in Nat /\ Cardinality(Counted(m)) \in Nat
             /\ Counted(m)' = {}
  <2>1. Counted(m) \in SUBSET Targets
    BY DEF Counted
  <2>2. Cardinality(Counted(m)) \in Nat
    BY <2>1, TargetsFinite
  <2>3. Counted(m)' = {}
    BY <1>2, <1>4 DEF Counted
  <2> QED
    BY <2>2, <2>3 DEF SessionInv
<1>6. leaked' \in [Mirrors -> Nat]
  BY <1>4, <1>5
<1>7. ASSUME NEW m \in Mirrors
      PROVE  stats'[m].running = leaked'[m] + Cardinality(Counted(m)')
  <2>1. leaked'[m] = stats[m].running
    BY <1>4 DEF SessionInv, LeakedByInterrupted
  <2>2. Cardinality(Counted(m)') = 0 /\ leaked'[m] \in Nat
    BY <1>5, <1>6, FS_EmptySet
  <2> QED
    BY <1>4, <2>1, <2>2
<1> QED
  BY <1>1, <1>3, <1>6, <1>7 DEF SessionInv, LeakedByInterrupted

\* In whatever download of a session, running_transfers of a mirror counts
\* its transfers in progress and those that interrupted downloads left
\* behind, and nothing else, if no mirror asks for preparations and curl's
\* transfers are the loop's.
THEOREM OnlyInterruptedLeak ==
  ASSUME NoPreparations, UninitFinished = {}
  PROVE  SessionSpec => []LeakedByInterrupted
<1>1. SessionInit => SessionInv
  <2> SUFFICES ASSUME SessionInit PROVE SessionInv
    OBVIOUS
  <2>1. Init /\ leaked = [m \in Mirrors |-> 0]
    BY DEF SessionInit
  <2>2. MatchInv /\ \A t \in Targets : targets[t].state = "WAITING"
    BY <2>1, InitMatchInv DEF MatchInv, Inv, Untouched, Init
  <2>3. OnlyTransfers /\ result = "none"
    BY <2>1, <2>2 DEF OnlyTransfers, Init
  <2>4. ASSUME NEW m \in Mirrors
        PROVE  stats[m].running = 0 /\ Counted(m) = {}
    BY <2>1, <2>2 DEF Counted, Init, NewStats
  <2>5. LeakedByInterrupted
    BY <2>1, <2>4, FS_EmptySet DEF LeakedByInterrupted
  <2> QED
    BY <2>1, <2>2, <2>3, <2>5 DEF SessionInv
<1>2. SessionInv /\ [SessionNext]_allVars => SessionInv'
  <2> SUFFICES ASSUME SessionInv, [SessionNext]_allVars PROVE SessionInv'
    OBVIOUS
  <2>1. CASE UNCHANGED <<vars, leaked>>
    <3>1. MatchInv'
      BY <2>1, NextMatchInv DEF SessionInv
    <3> QED
      BY <2>1, <3>1 DEF vars, SessionInv, OnlyTransfers, LeakedByInterrupted, Counted
  <2>2. CASE DownloadStep
    <3>1. Next /\ leaked' = leaked
      BY <2>2, DownloadStepIsNext DEF sessionVars
    <3> QED
      BY <2>1, <3>1, SessionStep, StepKinds DEF SessionInv, MatchInv
  <2>3. CASE NextDownload
    BY <2>3, SessionNextDownload
  <2> QED
    BY <2>1, <2>2, <2>3 DEF SessionNext, SessionEnds, allVars, sessionVars
<1>3. SessionInv => LeakedByInterrupted
  BY DEF SessionInv
<1> QED
  BY <1>1, <1>2, <1>3, PTL DEF SessionSpec
=============================================================================
