---------------------------- MODULE ResumeProofs ----------------------------
(***************************************************************************)
(* ResumeTransfer for every size of file, every limit on resumptions and   *)
(* retries, and any number of restarts: what a finished file holds.        *)
(*                                                                         *)
(* The argument follows the temporary file block by block.  While nothing  *)
(* that resumed from data was retried, its length says where the body goes *)
(* on, because the offset an attempt starts from is the length of the file *)
(* it opens.  With max_resume_count = 0 that fails at once: the file is    *)
(* opened for appending before the limit takes the resumption back.        *)
(***************************************************************************)
EXTENDS ResumeTransfer, TLAPS

\* The file is put together in order.
InOrder == ~retriedResume /\ (MaxResumeCount > 0 \/ ~wish.resume)

\* The transfer stays within the remote file, and only a program that was run
\* again finds a temporary file, which it has not resumed from yet; there is no
\* destination before the end.
Positions ==
  /\ offset <= Blocks /\ from + received <= Blocks
  /\ state # "finished" => dest = NoFile
  /\ MaxResumeCount = 0 => from = 0
  /\ state = "waiting" /\ temp # NoFile => offset = -1 /\ resumeCount = 0
  /\ MaxResumeCount > 0 =>
       /\ Len(temp) <= Blocks
       /\ state = "running" => Len(temp) <= from + received
  /\ ~wish.resume => ~resume /\ from = 0 /\ ~retriedResume

\* The temporary file is a prefix of the remote one, as long as the position
\* of the transfer; an offset is kept for a retry only if it is none.
Content ==
  InOrder =>
    /\ temp # NoFile => Len(temp) <= Blocks /\ \A i \in 1..Len(temp) : temp[i] = i
    /\ state = "running" => /\ temp # NoFile /\ Len(temp) = from + received
                            /\ offset \in {-1, from}
    /\ state = "waiting" => offset \in {-1, 0}
    /\ state = "finished" => FinishedFile = RemoteFile

Checked == state = "finished" /\ wish.checksum => FinishedFile = RemoteFile

IInv == TypeOK /\ Positions /\ Content /\ Checked

-----------------------------------------------------------------------------
\* The file an attempt opens: the old one to resume from, or an empty one.
LEMMA Opened ==
  ASSUME TypeOK
  PROVE  /\ OpenedFile \in Seq(Nat) /\ Len(OpenedFile) \in Nat
         /\ OpenedFile # NoFile
         /\ temp = NoFile \/ ~resume => OpenedFile = <<>>
         /\ OpenedFile # <<>> => temp # NoFile /\ resume /\ OpenedFile = temp
<1>1. temp \in Seq(Nat) /\ <<>> \in Seq(Nat)
  BY DEF TypeOK
<1>2. <<>> # NoFile /\ Len(<<>>) = 0
  BY DEF NoFile
<1>3. CASE temp # NoFile /\ resume
  <2>1. OpenedFile = temp
    BY <1>3 DEF OpenedFile
  <2> QED
    BY <1>1, <1>2, <1>3, <2>1
<1>4. CASE temp = NoFile \/ ~resume
  <2>1. OpenedFile = <<>>
    BY <1>4 DEF OpenedFile
  <2> QED
    BY <1>1, <1>2, <1>4, <2>1
<1> QED
  BY <1>3, <1>4

LEMMA InitIInv == Init => IInv
<1> SUFFICES ASSUME Init PROVE IInv
  OBVIOUS
<1>1. NoFile \in Seq(Nat) /\ Len(NoFile) = 1
  BY DEF NoFile
<1>2. /\ resumeCount \in 0..MaxResumeCount /\ offset \in {-1} \cup Nat
      /\ from \in 0..Blocks /\ received \in 0..Blocks
      /\ retries \in 0..AllowedMirrorFailures /\ restarts \in 0..MaxRestarts
  BY ResumeConstantsOk DEF Init
<1>3. wish.resume \in BOOLEAN
  BY DEF Init, Wishes
<1>4. TypeOK
  BY <1>1, <1>2, <1>3 DEF Init, TypeOK
<1>5. Positions
  BY <1>1, ResumeConstantsOk DEF Init, Positions
<1> QED
  BY <1>4, <1>5 DEF Init, IInv, Content, Checked

-----------------------------------------------------------------------------
\* The file is opened, and where the body goes on is where the file ends.
LEMMA PrepareStep == IInv /\ Prepare => IInv'
<1> SUFFICES ASSUME IInv, Prepare PROVE IInv'
  OBVIOUS
<1> USE ResumeConstantsOk
<1>1. TypeOK /\ Positions /\ Content /\ Checked
  BY DEF IInv
<1>2. /\ OpenedFile \in Seq(Nat) /\ Len(OpenedFile) \in Nat
      /\ OpenedFile # NoFile
      /\ temp = NoFile \/ ~resume => OpenedFile = <<>>
      /\ OpenedFile # <<>> => temp # NoFile /\ resume /\ OpenedFile = temp
  BY <1>1, Opened
<1>3. /\ state = "waiting" /\ state' = "running" /\ temp' = OpenedFile /\ received' = 0
      /\ UNCHANGED <<wish, dest, retries, restarts, retriedResume>>
      /\ resume' = Resumes
  BY DEF Prepare
<1>4. /\ resumeCount \in Nat /\ MaxResumeCount \in Nat /\ Blocks \in Nat
      /\ offset \in {-1} \cup Nat /\ resume \in BOOLEAN
  BY <1>1 DEF TypeOK
<1>5. Len(<<>>) = 0
  OBVIOUS
<1>6. MaxResumeCount > 0 => Len(OpenedFile) <= Blocks
  BY <1>1, <1>2, <1>4, <1>5 DEF Positions
<1>7. InOrder' <=> InOrder
  BY <1>3 DEF InOrder
<1>8. InOrder => \A i \in 1..Len(OpenedFile) : OpenedFile[i] = i
  BY <1>1, <1>2, <1>5 DEF Content
<1>9. CASE Resumes
  <2>1. /\ resume /\ resumeCount < MaxResumeCount
        /\ resumeCount' = resumeCount + 1
        /\ offset' = ResumeOffset /\ from' = ResumeOffset
    BY <1>9 DEF Prepare, Resumes
  <2>2. MaxResumeCount > 0
    BY <1>4, <2>1
  <2>3. ResumeOffset \in Nat /\ ResumeOffset <= Blocks /\ Len(OpenedFile) <= ResumeOffset
    <3>1. CASE offset = -1
      BY <1>2, <1>6, <2>2, <3>1 DEF ResumeOffset
    <3>2. CASE offset # -1
      <4>1. temp = NoFile
        BY <1>1, <1>3, <3>2 DEF Positions
      <4>2. ResumeOffset = offset /\ OpenedFile = <<>>
        BY <1>2, <3>2, <4>1 DEF ResumeOffset
      <4> QED
        BY <1>1, <1>4, <1>5, <3>2, <4>2 DEF Positions
    <3> QED
      BY <3>1, <3>2
  <2>4. InOrder => Len(OpenedFile) = ResumeOffset
    <3>1. CASE offset = -1
      BY <3>1 DEF ResumeOffset
    <3>2. CASE offset # -1
      <4>1. temp = NoFile
        BY <1>1, <1>3, <3>2 DEF Positions
      <4>2. ResumeOffset = offset /\ OpenedFile = <<>>
        BY <1>2, <3>2, <4>1 DEF ResumeOffset
      <4> QED
        BY <1>1, <1>3, <1>5, <3>2, <4>2 DEF Content
    <3> QED
      BY <3>1, <3>2
  <2>5. TypeOK'
    <3>1. /\ resumeCount' \in 0..MaxResumeCount /\ offset' \in {-1} \cup Nat
          /\ from' \in 0..Blocks /\ received' \in 0..Blocks
      BY <1>3, <1>4, <2>1, <2>3
    <3>2. resume' \in BOOLEAN
      BY <1>3 DEF Resumes
    <3> QED
      BY <1>1, <1>2, <1>3, <3>1, <3>2 DEF TypeOK
  <2>6. Positions'
    <3>1. wish.resume /\ dest' = NoFile
      BY <1>1, <1>3, <2>1 DEF Positions
    <3> QED
      BY <1>3, <1>4, <1>6, <2>1, <2>2, <2>3, <3>1 DEF Positions
  <2>7. Content'
    <3>1. InOrder => Len(OpenedFile) <= Blocks
      BY <2>3, <2>4
    <3> QED
      BY <1>2, <1>3, <1>7, <1>8, <2>1, <2>3, <2>4, <3>1 DEF Content
  <2> QED
    BY <1>3, <2>5, <2>6, <2>7 DEF IInv, Checked
<1>10. CASE ~Resumes
  <2>1. from' = 0 /\ UNCHANGED <<resumeCount, offset>>
    BY <1>10 DEF Prepare
  <2>2. resume' = FALSE
    BY <1>3, <1>10 DEF Resumes
  <2>3. MaxResumeCount > 0 \/ ~wish.resume => OpenedFile = <<>>
    <3>1. ~wish.resume => ~resume
      BY <1>1 DEF Positions
    <3>2. resume /\ temp # NoFile => MaxResumeCount = 0
      <4> SUFFICES ASSUME resume, temp # NoFile PROVE MaxResumeCount = 0
        OBVIOUS
      <4>1. resumeCount = 0
        BY <1>1, <1>3 DEF Positions
      <4> QED
        BY <1>4, <1>10, <4>1 DEF Resumes
    <3> QED
      BY <1>2, <3>1, <3>2
  <2>4. TypeOK'
    <3>1. from' \in 0..Blocks /\ received' \in 0..Blocks
      BY <1>3, <1>4, <2>1
    <3> QED
      BY <1>1, <1>2, <1>3, <2>1, <2>2, <3>1 DEF TypeOK
  <2>5. Positions'
    <3>1. MaxResumeCount > 0 => Len(temp') = 0
      BY <1>3, <1>5, <2>3
    <3> QED
      BY <1>1, <1>3, <1>4, <2>1, <2>2, <3>1 DEF Positions
  <2>6. Content'
    <3>1. InOrder => Len(temp') = 0 /\ offset' \in {-1, 0}
      BY <1>1, <1>3, <1>5, <2>1, <2>3 DEF InOrder, Content
    <3> QED
      BY <1>2, <1>3, <1>4, <1>7, <2>1, <3>1 DEF Content
  <2> QED
    BY <1>3, <2>4, <2>5, <2>6 DEF IInv, Checked
<1> QED
  BY <1>9, <1>10

\* A block of the body is appended at the position of the transfer.
LEMMA ReceiveStep == IInv /\ Receive => IInv'
<1> SUFFICES ASSUME IInv, Receive PROVE IInv'
  OBVIOUS
<1> USE ResumeConstantsOk
<1>1. TypeOK /\ Positions /\ Content /\ Checked
  BY DEF IInv
<1> DEFINE next == from + received + 1
<1>2. /\ state = "running" /\ from + received < Blocks
      /\ temp' = Append(temp, next) /\ received' = received + 1
      /\ UNCHANGED <<wish, state, dest, resume, resumeCount, offset, from, retries, restarts,
                     retriedResume>>
  BY DEF Receive
<1>3. /\ temp \in Seq(Nat) /\ from \in 0..Blocks /\ received \in 0..Blocks
      /\ Blocks \in Nat
  BY <1>1 DEF TypeOK
<1>4. next \in Nat /\ next > 0 /\ next <= Blocks
  BY <1>2, <1>3
<1> HIDE DEF next
<1>5. /\ temp' \in Seq(Nat) /\ Len(temp) \in Nat /\ Len(temp') = Len(temp) + 1
      /\ temp'[Len(temp) + 1] = next
      /\ \A i \in 1..Len(temp) : temp'[i] = temp[i]
  BY <1>2, <1>3, <1>4
<1>6. temp' # NoFile
  <2> SUFFICES ASSUME temp' = NoFile PROVE FALSE
    OBVIOUS
  <2>1. Len(temp') = 1 /\ temp'[1] = 0
    BY DEF NoFile
  <2>2. Len(temp) + 1 = 1
    BY <1>5, <2>1
  <2>3. next = 0
    BY <1>5, <2>1, <2>2
  <2> QED
    BY <1>4, <2>3
<1>7. received' \in 0..Blocks /\ from' + received' <= Blocks
  BY <1>2, <1>3
<1>8. TypeOK'
  BY <1>1, <1>2, <1>5, <1>7 DEF TypeOK
<1>9. Positions'
  <2>1. MaxResumeCount > 0 => Len(temp') <= Blocks /\ Len(temp') <= from' + received'
    BY <1>1, <1>2, <1>3, <1>5 DEF Positions
  <2> QED
    BY <1>1, <1>2, <1>7, <2>1 DEF Positions
<1>10. Content'
  <2>1. SUFFICES ASSUME InOrder' PROVE
                 /\ Len(temp') <= Blocks /\ \A i \in 1..Len(temp') : temp'[i] = i
                 /\ Len(temp') = from' + received' /\ offset' \in {-1, from'}
    BY <1>2, <1>6, <2>1 DEF Content
  <2>2. InOrder
    BY <1>2, <2>1 DEF InOrder
  <2>3. /\ Len(temp) = from + received /\ offset \in {-1, from}
        /\ \A i \in 1..Len(temp) : temp[i] = i
    BY <1>1, <1>2, <2>2 DEF Content
  <2>4. Len(temp') = next /\ Len(temp') = from' + received'
    BY <1>2, <1>3, <1>5, <2>3 DEF next
  <2>5. ASSUME NEW i \in 1..Len(temp') PROVE temp'[i] = i
    <3>1. i \in 1..Len(temp) \/ i = Len(temp) + 1
      BY <1>5
    <3>2. Len(temp) + 1 = next
      BY <1>5, <2>4
    <3> QED
      BY <1>5, <2>3, <3>1, <3>2
  <2> QED
    BY <1>2, <1>4, <2>3, <2>4, <2>5
<1> QED
  BY <1>2, <1>8, <1>9, <1>10 DEF IInv, Checked

-----------------------------------------------------------------------------
\* An attempt in vain leaves no file, and what it resumed from is remembered.
LEMMA OutcomeStep ==
  ASSUME IInv, state = "running", Retry \/ Fail, UNCHANGED unchangedByOutcome
  PROVE  IInv'
<1> USE ResumeConstantsOk
<1>1. TypeOK /\ Positions /\ Content /\ Checked
  BY DEF IInv
<1>2. /\ temp' = NoFile /\ dest' = dest /\ state' \in {"waiting", "failed"}
      /\ UNCHANGED <<wish, resume, resumeCount, offset, from, received, restarts>>
  BY DEF Retry, Fail, unchangedByOutcome
<1>3. NoFile \in Seq(Nat) /\ Len(NoFile) = 1
  BY DEF NoFile
<1>4. retriedResume' \in BOOLEAN /\ retries' \in 0..AllowedMirrorFailures
  <2>1. CASE Retry
    BY <1>1, <2>1 DEF Retry, TypeOK
  <2>2. CASE Fail
    BY <1>1, <2>2 DEF Fail, TypeOK
  <2> QED
    BY <2>1, <2>2
<1>5. TypeOK'
  BY <1>1, <1>2, <1>3, <1>4 DEF TypeOK
<1>6. /\ retriedResume => retriedResume'
      /\ state' = "waiting" /\ ~retriedResume' => ~(from > 0)
      /\ ~retriedResume /\ from = 0 => ~retriedResume'
  <2>1. from \in Nat
    BY <1>1 DEF TypeOK
  <2>2. CASE Retry
    <3>1. retriedResume' = (retriedResume \/ from > 0)
      BY <2>2 DEF Retry
    <3>2. from = 0 => ~(from > 0)
      BY <2>1
    <3> QED
      BY <3>1, <3>2
  <2>3. CASE Fail
    BY <2>3 DEF Fail
  <2> QED
    BY <2>2, <2>3
<1>7. Positions'
  BY <1>1, <1>2, <1>3, <1>6 DEF Positions
<1>8. Content'
  <2>1. SUFFICES ASSUME InOrder', state' = "waiting" PROVE offset' \in {-1, 0}
    BY <1>2, <2>1 DEF Content
  <2>2. InOrder /\ ~(from > 0)
    BY <1>2, <1>6, <2>1 DEF InOrder
  <2>3. from = 0
    BY <1>1, <2>2 DEF TypeOK
  <2> QED
    BY <1>1, <1>2, <2>2, <2>3 DEF Content
<1> QED
  BY <1>2, <1>5, <1>7, <1>8 DEF IInv, Checked

\* A file that is complete in order is the remote file.
LEMMA CompleteStep == IInv /\ Complete => IInv'
<1> SUFFICES ASSUME IInv, Complete PROVE IInv'
  OBVIOUS
<1> USE ResumeConstantsOk
<1>1. TypeOK /\ Positions /\ Content /\ Checked
  BY DEF IInv
<1>2. /\ state = "running" /\ from + received = Blocks
      /\ UNCHANGED unchangedByOutcome
  BY DEF Complete
<1>3. CASE Retry \/ Fail
  BY <1>2, <1>3, OutcomeStep
<1>4. CASE /\ Accepted
           /\ state' = "finished"
           /\ \/ dest' = temp /\ temp' = NoFile
              \/ UNCHANGED <<dest, temp>>
           /\ UNCHANGED <<retries, retriedResume>>
  <2>1. NoFile \in Seq(Nat) /\ Len(NoFile) = 1
    BY DEF NoFile
  <2>a. dest = NoFile
    BY <1>1, <1>2 DEF Positions
  <2>b. FinishedFile' = temp
    <3>1. CASE dest' = temp /\ temp' = NoFile
      BY <3>1 DEF FinishedFile
    <3>2. CASE UNCHANGED <<dest, temp>>
      BY <2>a, <3>2 DEF FinishedFile
    <3> QED
      BY <1>4, <3>1, <3>2 DEF FinishedFile
  <2>2. TypeOK'
    BY <1>1, <1>2, <1>4, <2>1 DEF TypeOK, unchangedByOutcome
  <2>3. Positions'
    <3>1. temp' = NoFile \/ temp' = temp
      BY <1>4
    <3>2. MaxResumeCount > 0 => Len(temp') <= Blocks
      <4>1. Len(NoFile) <= Blocks
        BY <2>1
      <4>2. MaxResumeCount > 0 => Len(temp) <= Blocks
        BY <1>1 DEF Positions
      <4> QED
        BY <3>1, <4>1, <4>2
    <3> QED
      BY <1>1, <1>2, <1>4, <3>2 DEF Positions, unchangedByOutcome
  <2>4. Checked'
    BY <1>2, <1>4, <2>b DEF Checked, Accepted, unchangedByOutcome, RemoteFile
  <2>5. ASSUME InOrder' PROVE FinishedFile' = RemoteFile
    <3>1. InOrder
      BY <1>2, <1>4, <2>5 DEF InOrder, unchangedByOutcome
    <3>2. Len(temp) = Blocks /\ \A i \in 1..Len(temp) : temp[i] = i
      BY <1>1, <1>2, <3>1 DEF Content
    <3>3. temp \in Seq(Nat)
      BY <1>1 DEF TypeOK
    <3>4. temp = [i \in 1..Blocks |-> i]
      BY <3>2, <3>3
    <3> QED
      BY <2>b, <3>4 DEF RemoteFile, FinishedFile
  <2>6. Content'
    <3>1. InOrder' => InOrder
      BY <1>2, <1>4 DEF InOrder, unchangedByOutcome
    <3>2. temp' = NoFile \/ temp' = temp
      BY <1>4
    <3>3. InOrder' /\ temp' # NoFile =>
            Len(temp') <= Blocks /\ \A i \in 1..Len(temp') : temp'[i] = i
      BY <1>1, <3>1, <3>2 DEF Content
    <3>4. InOrder' => FinishedFile' = RemoteFile'
      BY <2>5 DEF RemoteFile
    <3> QED
      BY <1>4, <3>3, <3>4 DEF Content
  <2> QED
    BY <2>2, <2>3, <2>4, <2>6 DEF IInv
<1> QED
  BY <1>3, <1>4 DEF Complete

\* What is found after a restart is a prefix of the temporary file.
LEMMA RestartStep == IInv /\ Restart => IInv'
<1> SUFFICES ASSUME IInv, Restart PROVE IInv'
  OBVIOUS
<1> USE ResumeConstantsOk
<1>1. TypeOK /\ Positions /\ Content /\ Checked
  BY DEF IInv
<1>2. /\ state # "finished" /\ state' = "waiting" /\ resume' = wish.resume /\ resumeCount' = 0 /\ offset' = -1
      /\ from' = 0 /\ received' = 0 /\ retries' = 0
      /\ restarts < MaxRestarts /\ restarts' = restarts + 1
      /\ UNCHANGED <<wish, dest, retriedResume>>
  BY DEF Restart
<1>3. temp \in Seq(Nat)
  BY <1>1 DEF TypeOK
<1>4. PICK kept \in 0..Len(temp) :
        temp' = IF temp = NoFile THEN NoFile ELSE SubSeq(temp, 1, kept)
  BY DEF Restart
<1>5. /\ temp' \in Seq(Nat) /\ Len(temp') <= Len(temp)
      /\ Len(temp) \in Nat /\ Len(temp') \in Nat
      /\ \A i \in 1..Len(temp') : temp'[i] = temp[i]
      /\ temp = NoFile => temp' = NoFile
  <2>1. CASE temp = NoFile
    BY <1>3, <1>4, <2>1
  <2>2. CASE temp # NoFile
    <3>1. temp' = SubSeq(temp, 1, kept) /\ kept \in Nat /\ kept <= Len(temp)
      BY <1>3, <1>4, <2>2
    <3> QED
      BY <1>3, <2>2, <3>1
  <2> QED
    BY <2>1, <2>2
<1>6. TypeOK'
  <2>1. /\ resumeCount' \in 0..MaxResumeCount /\ offset' \in {-1} \cup Nat
        /\ from' \in 0..Blocks /\ received' \in 0..Blocks
        /\ retries' \in 0..AllowedMirrorFailures /\ restarts' \in 0..MaxRestarts
    BY <1>1, <1>2 DEF TypeOK
  <2>2. resume' \in BOOLEAN
    BY <1>1, <1>2 DEF TypeOK, Wishes
  <2> QED
    BY <1>1, <1>2, <1>5, <2>1, <2>2 DEF TypeOK
<1>7. Positions'
  <2>1. MaxResumeCount > 0 => Len(temp') <= Blocks
    BY <1>1, <1>5 DEF Positions
  <2>2. dest' = NoFile
    BY <1>1, <1>2 DEF Positions
  <2> QED
    BY <1>1, <1>2, <2>1, <2>2 DEF Positions
<1>8. Content'
  <2>1. SUFFICES ASSUME InOrder', temp' # NoFile
                 PROVE Len(temp') <= Blocks /\ \A i \in 1..Len(temp') : temp'[i] = i
    BY <1>2, <2>1 DEF Content
  <2>2. InOrder /\ temp # NoFile
    BY <1>2, <1>5, <2>1 DEF InOrder
  <2>3. Len(temp) <= Blocks /\ \A i \in 1..Len(temp) : temp[i] = i
    BY <1>1, <2>2 DEF Content
  <2> QED
    BY <1>5, <2>3
<1> QED
  BY <1>2, <1>6, <1>7, <1>8 DEF IInv, Checked

LEMMA NextIInv == IInv /\ [Next]_vars => IInv'
<1> SUFFICES ASSUME IInv, [Next]_vars PROVE IInv'
  OBVIOUS
<1>1. CASE Break
  BY <1>1, OutcomeStep DEF Break
<1>2. CASE HeaderInterrupts
  BY <1>2, OutcomeStep DEF HeaderInterrupts
<1>3. CASE UNCHANGED vars
  BY <1>3 DEF vars, IInv, TypeOK, Positions, Content, InOrder, Checked, FinishedFile
<1> QED
  BY <1>1, <1>2, <1>3, PrepareStep, ReceiveStep, CompleteStep, RestartStep
  DEF Next, Terminated

LEMMA Inductive == Spec => []IInv
<1> QED
  BY InitIInv, NextIInv, PTL DEF Spec

-----------------------------------------------------------------------------
\* Whatever attempts, resumptions and restarts came before, the finished file
\* of a target that has a checksum, or that never resumes, is the remote file
\* (finish_transfer, target.cpp:794-842, and open_target_file, 151-171).
THEOREM FinishedFilesAreWhole == Spec => []ResumeInv
<1>1. IInv => ResumeInv
  <2> SUFFICES ASSUME IInv PROVE ResumeInv
    OBVIOUS
  <2>1. TypeOK /\ Positions /\ Content /\ Checked
    BY DEF IInv
  <2>2. ~wish.resume => InOrder
    BY <2>1 DEF Positions, InOrder
  <2> QED
    BY <2>1, <2>2 DEF ResumeInv, CheckedIsWhole, Content, Checked
<1> QED
  BY <1>1, Inductive, PTL

\* If a resumption is allowed at all (max_resume_count is 3 by default), the
\* only way to put a wrong file together is to retry an attempt that resumed
\* from data (target.cpp:116-149 keeps the offset of a file that is removed).
THEOREM OnlyRetriesSpoil ==
  ASSUME MaxResumeCount > 0
  PROVE  Spec => []OnlyRetriedResumesGoWrong
<1>1. IInv => OnlyRetriedResumesGoWrong
  BY DEF IInv, Content, InOrder, OnlyRetriedResumesGoWrong
<1> QED
  BY <1>1, Inductive, PTL
=============================================================================
