---------------------------- MODULE ProcessProofs ----------------------------
(***************************************************************************)
(* The process around the downloads: the Contexts its threads create and   *)
(* destroy (ContextLifecycle), and main (CommandLine).  The two are        *)
(* independent of each other.                                              *)
(*                                                                         *)
(* For every set of threads: two of them never hold a Context at once,     *)
(* they never have a CURLSetup at once, and a flag is set for a reason.    *)
(*                                                                         *)
(* For every list of files: no name is uploaded twice, the output and the  *)
(* exit code of an OCI upload tell what the registry has, as far as no two *)
(* files are for one place, and those of a download that its targets have  *)
(* settled.                                                                *)
(***************************************************************************)
EXTENDS ContextLifecycle, CommandLine, FiniteSetTheorems, TLAPS

-----------------------------------------------------------------------------
\* Contexts.

LEMMA ContextStarts == ContextInit => ContextInv
BY DEF ContextInit, ContextInv, ContextTypeOK, OneCurlSetup, OneContextHeld, FlagsExplained, HoldsContext,
       HoldsSetup, Phases

\* A step of one thread, whichever it is, leaves the phases of the others alone.
LEMMA ContextStep == ContextInv /\ [ContextNext]_contextVars => ContextInv'
<1> SUFFICES ASSUME ContextInv, [ContextNext]_contextVars PROVE ContextInv'
  OBVIOUS
<1> USE DEF ContextInv, ContextTypeOK, OneCurlSetup, OneContextHeld, FlagsExplained, HoldsContext,
            HoldsSetup, Phases, At, Goto
<1>1. ASSUME NEW t \in Threads, ClaimContext(t) PROVE ContextInv'
  BY <1>1 DEF ClaimContext
<1>2. ASSUME NEW t \in Threads, ContextRefused(t) PROVE ContextInv'
  BY <1>2 DEF ContextRefused
<1>3. ASSUME NEW t \in Threads, ClaimSetup(t) PROVE ContextInv'
  BY <1>3 DEF ClaimSetup
<1>4. ASSUME NEW t \in Threads, SetupRefused(t) PROVE ContextInv'
  BY <1>4 DEF SetupRefused
<1>5. ASSUME NEW t \in Threads, BackendSet(t) PROVE ContextInv'
  BY <1>5 DEF BackendSet
<1>6. ASSUME NEW t \in Threads, CurlInitialised(t) PROVE ContextInv'
  BY <1>6 DEF CurlInitialised
<1>7. ASSUME NEW t \in Threads, SetupThrows(t) PROVE ContextInv'
  BY <1>7 DEF SetupThrows
<1>8. ASSUME NEW t \in Threads, ContextCreated(t) PROVE ContextInv'
  BY <1>8 DEF ContextCreated
<1>9. ASSUME NEW t \in Threads, CacheThrows(t) PROVE ContextInv'
  BY <1>9 DEF CacheThrows
<1>10. ASSUME NEW t \in Threads, DestroyContext(t) PROVE ContextInv'
  <2>1. /\ pc' \in [Threads -> Phases] /\ pc'[t] \in {"cleanup", "out"}
        /\ \A u \in Threads \ {t} : pc'[u] = pc[u]
        /\ pc[t] = "alive" /\ (pc'[t] = "cleanup" <=> t \in initialised)
        /\ isContextAlive' = FALSE /\ UNCHANGED <<isCurlSetupAlive, initialised, leftContext, leftSetup>>
    BY <1>10 DEF DestroyContext
  <2>2. ~leftContext /\ \A u \in Threads : ~HoldsContext(u)'
    BY <2>1
  <2>3. \A u \in Threads : HoldsSetup(u)' <=> HoldsSetup(u)
    BY <2>1
  <2>4. OneCurlSetup' /\ OneContextHeld' /\ FlagsExplained'
    BY <2>1, <2>2, <2>3
  <2>5. ContextTypeOK'
    BY <2>1
  <2>6. ASSUME NEW u \in initialised' PROVE pc'[u] \in {"cache", "alive", "cleanup", "unwind"}
    <3>1. CASE u = t
      BY <2>1, <3>1
    <3>2. CASE u # t
      BY <2>1, <3>2
    <3> QED
      BY <3>1, <3>2
  <2>7. /\ leftContext' => \A u \in Threads : ~HoldsContext(u)'
        /\ leftSetup' => \A u \in Threads : ~HoldsSetup(u)'
    BY <2>1, <2>2, <2>3
  <2> HIDE DEF ContextTypeOK, OneCurlSetup, OneContextHeld, FlagsExplained, HoldsContext, HoldsSetup
  <2> QED
    BY <2>4, <2>5, <2>6, <2>7
<1>11. ASSUME NEW t \in Threads, CleanupCurl(t) PROVE ContextInv'
  <2>1. /\ pc' \in [Threads -> Phases] /\ pc'[t] \in {"release", "unclaim"}
        /\ \A u \in Threads \ {t} : pc'[u] = pc[u]
        /\ pc[t] \in {"cleanup", "unwind"} /\ initialised' = initialised \ {t}
        /\ UNCHANGED <<isContextAlive, isCurlSetupAlive, leftContext, leftSetup>>
    BY <1>11 DEF CleanupCurl
  <2>2. \A u \in Threads : HoldsContext(u)' <=> HoldsContext(u)
    BY <2>1
  <2>3. \A u \in Threads : HoldsSetup(u)' <=> HoldsSetup(u)
    BY <2>1
  <2>4. OneCurlSetup' /\ OneContextHeld' /\ FlagsExplained'
    BY <2>1, <2>2, <2>3
  <2>5. ContextTypeOK'
    BY <2>1
  <2>6. ASSUME NEW u \in initialised' PROVE pc'[u] \in {"cache", "alive", "cleanup", "unwind"}
    <3>1. CASE u = t
      BY <2>1, <3>1
    <3>2. CASE u # t
      BY <2>1, <3>2
    <3> QED
      BY <3>1, <3>2
  <2>7. /\ leftContext' => \A u \in Threads : ~HoldsContext(u)'
        /\ leftSetup' => \A u \in Threads : ~HoldsSetup(u)'
    BY <2>1, <2>2, <2>3
  <2> HIDE DEF ContextTypeOK, OneCurlSetup, OneContextHeld, FlagsExplained, HoldsContext, HoldsSetup
  <2> QED
    BY <2>4, <2>5, <2>6, <2>7
<1>12. ASSUME NEW t \in Threads, ReleaseSetup(t) PROVE ContextInv'
  <2>1. /\ pc' \in [Threads -> Phases] /\ pc'[t] \in {"out", "refused"}
        /\ \A u \in Threads \ {t} : pc'[u] = pc[u]
        /\ pc[t] \in {"release", "unclaim"} /\ isCurlSetupAlive' = FALSE
        /\ UNCHANGED <<isContextAlive, initialised, leftContext, leftSetup>>
    BY <1>12 DEF ReleaseSetup
  <2>2. \A u \in Threads : HoldsContext(u)' <=> HoldsContext(u)
    BY <2>1
  <2>3. ~leftSetup /\ \A u \in Threads : ~HoldsSetup(u)'
    BY <2>1
  <2>4. OneCurlSetup' /\ OneContextHeld' /\ FlagsExplained'
    BY <2>1, <2>2, <2>3
  <2>5. ContextTypeOK'
    BY <2>1
  <2>6. ASSUME NEW u \in initialised' PROVE pc'[u] \in {"cache", "alive", "cleanup", "unwind"}
    <3>1. CASE u = t
      BY <2>1, <3>1
    <3>2. CASE u # t
      BY <2>1, <3>2
    <3> QED
      BY <3>1, <3>2
  <2>7. /\ leftContext' => \A u \in Threads : ~HoldsContext(u)'
        /\ leftSetup' => \A u \in Threads : ~HoldsSetup(u)'
    BY <2>1, <2>2, <2>3
  <2> HIDE DEF ContextTypeOK, OneCurlSetup, OneContextHeld, FlagsExplained, HoldsContext, HoldsSetup
  <2> QED
    BY <2>4, <2>5, <2>6, <2>7
<1>13. ASSUME NEW t \in Threads, Caught(t) PROVE ContextInv'
  BY <1>13 DEF Caught
<1>14. CASE UNCHANGED contextVars
  BY <1>14 DEF contextVars
<1> QED
  BY <1>1, <1>2, <1>3, <1>4, <1>5, <1>6, <1>7, <1>8, <1>9, <1>10, <1>11, <1>12, <1>13,
     <1>14 DEF ContextNext

LEMMA ContextKeeps == ContextSpec => []ContextInv
BY ContextStarts, ContextStep, PTL DEF ContextSpec

\* Two threads never have a CURLSetup at once, whatever constructors throw and
\* however destructors overlap (curl.cpp:441-480).
THEOREM CurlSetupIsUnique == ContextSpec => []OneCurlSetup
<1>1. ContextInv => OneCurlSetup
  BY DEF ContextInv
<1> QED
  BY <1>1, ContextKeeps, PTL

\* Two threads never hold a Context whose destructor has not begun, and each
\* flag is set only for a thread or a failed constructor (context.cpp:29-55).
THEOREM ContextIsUnique == ContextSpec => [](OneContextHeld /\ FlagsExplained)
<1>1. ContextInv => OneContextHeld /\ FlagsExplained
  BY DEF ContextInv
<1> QED
  BY <1>1, ContextKeeps, PTL

-----------------------------------------------------------------------------
\* The command line.

\* What download() promises: a job is reported once if it is settled and not
\* before, and "true" means that all are.
JobStates == {"pending", "active", "finished", "failed"}

JobsReported ==
  /\ job \in [Files -> JobStates]
  /\ reported = [f \in Files |-> IF job[f] \in Service!Settled THEN 1 ELSE 0]
  /\ outcome \in {"none", "true", "false", "thrown"}
  /\ outcome = "true" => \A f \in Files : job[f] \in Service!Settled

PhaseOfCommand ==
  /\ phase = "upload" => command = "upload"
  /\ phase \in {"targets", "add", "download"} => command = "download"
  /\ exitCode = "0" /\ command = "download" => outcome = "true"

\* No file is forgotten, and after erase_duplicates none is there twice.
NamedOnce ==
  /\ Range(duFiles) = Files
  /\ phase \in {"upload", "targets", "add", "download"} =>
       \A i, j \in DOMAIN duFiles : duFiles[i] = duFiles[j] => i = j

\* Uploads are performed in the order of the list.
InTurn ==
  /\ phase = "parsed" =>
       done = 0 /\ stored = {} /\ announced = {} /\ \A f \in Files : sent[f] = 0
  /\ phase = "upload" =>
       \A i \in DOMAIN duFiles :
         /\ i > done => sent[duFiles[i]] = 0 /\ duFiles[i] \notin announced
         /\ i <= done /\ options.server = "oci" => duFiles[i] \in announced /\ Kept(i, done)

MainInv ==
  /\ TypeOK /\ JobsReported /\ PhaseOfCommand /\ NamedOnce /\ InTurn
  /\ SentOnce /\ OciUploadTold

-----------------------------------------------------------------------------
\* What erase_duplicates returns: every name once.
LEMMA ErasedNames ==
  ASSUME NEW names \in Seq(Files), Range(names) = Files, NEW s \in EraseDuplicates(names)
  PROVE  /\ s \in Seq(Files) /\ Range(s) = Files
         /\ \A i, j \in DOMAIN s : s[i] = s[j] => i = j
<1>1. IsFiniteSet(Files)
  <2>1. names \in Surjection(1..Len(names), Files)
    BY DEF Range, Surjection
  <2>2. IsFiniteSet(1..Len(names))
    BY FS_Interval
  <2> QED
    BY <2>1, <2>2, FS_Surjection
<1> DEFINE n == Cardinality(Files)
<1>2. n \in Nat /\ IsFiniteSet(1..n) /\ Cardinality(1..n) = n
  BY <1>1, FS_CardinalityType, FS_Interval
<1>3. s \in [1..n -> Files] /\ \A i, j \in 1..n : i # j => s[i] # s[j]
  BY DEF EraseDuplicates, SetToSeqs
<1> HIDE DEF n
<1>4. s \in Injection(1..n, Files)
  BY <1>3 DEF Injection, IsInjective
<1>5. s \in Surjection(1..n, Files)
  BY <1>1, <1>2, <1>4, FS_Injection DEF n
<1>6. s \in Seq(Files) /\ DOMAIN s = 1..n
  BY <1>2, <1>3
<1>7. Range(s) = Files
  BY <1>3, <1>5 DEF Range, Surjection
<1> QED
  BY <1>3, <1>6, <1>7

-----------------------------------------------------------------------------
\* download() keeps its promises.
LEMMA ServiceStarts == Service!Init => JobsReported
BY DEF Service!Init, JobsReported, JobStates, Service!Settled

\* Settling jobs that were not settled.
LEMMA Settles ==
  ASSUME JobsReported, NEW from, from \subseteq Files, NEW s \in Service!Settled,
         \A f \in from : job[f] \notin Service!Settled, Service!Settle(from, s)
  PROVE  /\ job' \in [Files -> JobStates]
         /\ reported' = [f \in Files |-> IF job'[f] \in Service!Settled THEN 1 ELSE 0]
         /\ \A f \in Files : job'[f] = IF f \in from THEN s ELSE job[f]
<1>1. /\ job' = [f \in Files |-> IF f \in from THEN s ELSE job[f]]
      /\ reported' = [f \in Files |-> IF f \in from THEN reported[f] + 1 ELSE reported[f]]
  BY DEF Service!Settle
<1>2. job' \in [Files -> JobStates]
  BY <1>1 DEF JobsReported, JobStates, Service!Settled
<1>3. \A f \in Files : reported'[f] = IF job'[f] \in Service!Settled THEN 1 ELSE 0
  BY <1>1 DEF JobsReported
<1> QED
  BY <1>1, <1>2, <1>3

LEMMA ServiceStep == JobsReported /\ Service!Next => JobsReported'
<1> SUFFICES ASSUME JobsReported, Service!Next PROVE JobsReported'
  OBVIOUS
<1> DEFINE Reports == reported' = [f \in Files |-> IF job'[f] \in Service!Settled THEN 1 ELSE 0]
<1>1. \A state \in JobStates : \A f \in Service!JobsIn({state}) : f \in Files /\ job[f] = state
  BY DEF Service!JobsIn
<1>2. /\ "finished" \in Service!Settled /\ "failed" \in Service!Settled
      /\ "pending" \notin Service!Settled /\ "active" \notin Service!Settled
      /\ "pending" \in JobStates /\ "active" \in JobStates /\ "failed" \in JobStates
  BY DEF Service!Settled, JobStates
<1>3. CASE Service!AlreadyThere
  <2>1. PICK there \in SUBSET Service!JobsIn({"pending"}) : Service!Settle(there, "finished")
    BY <1>3 DEF Service!AlreadyThere
  <2> QED
    BY <1>1, <1>2, <1>3, <2>1, Settles DEF Service!AlreadyThere, JobsReported
<1>4. CASE Service!Abort
  BY <1>1, <1>2, <1>4, Settles DEF Service!Abort, JobsReported
<1>5. ASSUME NEW hopeless \in SUBSET Service!JobsIn({"pending"}), Service!GiveUp(hopeless)
      PROVE  JobsReported'
  <2>1. /\ hopeless \subseteq Files /\ \A f \in hopeless : job[f] \notin Service!Settled
        /\ Service!Settle(hopeless, "failed")
        /\ outcome' \in {"none", "true", "thrown"}
        /\ outcome' = "true" => \A f \in Files : job'[f] \in Service!Settled
    BY <1>1, <1>2, <1>5 DEF Service!GiveUp
  <2> QED
    BY <1>2, <2>1, Settles DEF JobsReported
<1>6. ASSUME NEW hopeless \in SUBSET Service!JobsIn({"pending"}), NEW j \in Files,
             Service!Start(j, hopeless)
      PROVE  JobsReported'
  <2>1. /\ outcome' = "none" /\ j \in Service!JobsIn({"pending"}) /\ j \notin hopeless
        /\ job' = [i \in Files |-> IF i = j THEN "active"
                                   ELSE IF i \in hopeless THEN "failed" ELSE job[i]]
        /\ reported' = [i \in Files |-> IF i \in hopeless THEN reported[i] + 1 ELSE reported[i]]
    BY <1>6 DEF Service!Start
  <2>2. job' \in [Files -> JobStates]
    BY <1>2, <2>1 DEF JobsReported
  <2>3. \A f \in Files : reported'[f] = IF job'[f] \in Service!Settled THEN 1 ELSE 0
    BY <1>1, <1>2, <2>1 DEF JobsReported
  <2> QED
    BY <2>1, <2>2, <2>3 DEF JobsReported
<1>7. ASSUME NEW j \in Files, Service!Requeue(j) PROVE JobsReported'
  <2>1. /\ outcome' \in {"none", "thrown"} /\ j \in Service!JobsIn({"active"})
        /\ job' = [job EXCEPT ![j] = "pending"] /\ reported' = reported
    BY <1>7 DEF Service!Requeue
  <2>2. job' \in [Files -> JobStates]
    BY <1>2, <2>1 DEF JobsReported
  <2>3. \A f \in Files : job'[f] \in Service!Settled <=> job[f] \in Service!Settled
    BY <1>1, <1>2, <2>1 DEF JobsReported
  <2> QED
    BY <2>1, <2>2, <2>3 DEF JobsReported
<1>8. ASSUME NEW j \in Files, Service!Finish(j) \/ Service!Fail(j) PROVE JobsReported'
  <2>1. PICK s \in Service!Settled : Service!Settle({j}, s)
    BY <1>2, <1>8 DEF Service!Finish, Service!Fail
  <2>2. j \in Service!JobsIn({"active"}) /\ outcome' \in {"none", "thrown"}
    BY <1>8 DEF Service!Finish, Service!Fail
  <2> QED
    BY <1>1, <1>2, <2>1, <2>2, Settles DEF JobsReported
<1> QED
  BY <1>3, <1>4, <1>5, <1>6, <1>7, <1>8 DEF Service!Next

-----------------------------------------------------------------------------
\* main.

LEMMA MainStarts == Init => MainInv
<1> SUFFICES ASSUME Init PROVE MainInv
  OBVIOUS
<1>1. duFiles \in Seq(Files) /\ Range(duFiles) = Files
  BY ListsNameFiles DEF Init
<1>2. JobsReported
  BY ServiceStarts DEF Init
<1>3. TypeOK
  BY <1>1 DEF Init, TypeOK
<1> QED
  BY <1>1, <1>2, <1>3 DEF Init, MainInv, PhaseOfCommand, NamedOnce, InTurn, SentOnce, OciUploadTold

\* main is over: with 1 or an exception, or with 0 and nothing left to do.
LEMMA ExitKeeps ==
  ASSUME MainInv, NEW code \in {"0", "1", "terminated"}, Exit(code),
         UNCHANGED <<command, options, duFiles, done, serviceVars, announced>>,
         sent' \in [Files -> Nat], stored' \subseteq Files,
         \A f \in Files : sent'[f] <= 1,
         code = "0" /\ command = "download" => outcome = "true",
         code = "0" /\ command = "upload" /\ options.server = "oci" => announced = Files,
         \/ options.server # "oci" \/ stored' = stored
         \/ \A i \in DOMAIN duFiles : duFiles[i] \in announced => Kept(i, Len(duFiles))',
         exitCode = "none"
  PROVE  MainInv'
<1> USE DEF MainInv, Exit, serviceVars
<1>1. TypeOK'
  BY DEF TypeOK
<1>2. JobsReported'
  BY DEF JobsReported
<1>3. PhaseOfCommand'
  BY DEF PhaseOfCommand
<1>4. NamedOnce'
  BY DEF NamedOnce
<1>5. InTurn' /\ SentOnce'
  BY DEF InTurn, SentOnce
<1>6. OciUploadTold'
  BY DEF OciUploadTold, Kept
<1> QED
  BY <1>1, <1>2, <1>3, <1>4, <1>5, <1>6

\* The next file, of a list in which each is there once.
LEMMA FileFacts ==
  ASSUME MainInv, Uploading
  PROVE  /\ done + 1 \in DOMAIN duFiles /\ File \in Files /\ command = "upload"
         /\ sent[File] = 0 /\ exitCode = "none"
         /\ \A i \in DOMAIN duFiles : i # done + 1 => duFiles[i] # File
         /\ DOMAIN duFiles = 1..Len(duFiles) /\ done \in Nat /\ done < Len(duFiles)
         /\ File = duFiles[done + 1]
<1>1. phase = "upload" /\ done \in 0..Len(duFiles) /\ done < Len(duFiles) /\ duFiles \in Seq(Files)
  BY DEF MainInv, TypeOK, Uploading
<1>2. done + 1 \in DOMAIN duFiles /\ done + 1 > done
  BY <1>1
<1>3. File \in Files
  BY <1>1, <1>2 DEF File
<1>4. command = "upload" /\ sent[File] = 0 /\ exitCode = "none"
  BY <1>1, <1>2 DEF MainInv, PhaseOfCommand, InTurn, File, TypeOK
<1>5. \A i \in DOMAIN duFiles : i # done + 1 => duFiles[i] # File
  BY <1>1, <1>2 DEF MainInv, NamedOnce, File
<1> QED
  BY <1>1, <1>2, <1>3, <1>4, <1>5 DEF File

\* The file now at a place is the one sent last: the earlier ones of that
\* place give way to it, the others stay.
LEMMA PlaceTaken ==
  ASSUME MainInv, Uploading, stored' \in {stored, Published}, duFiles' = duFiles,
         NEW i \in DOMAIN duFiles, i <= done, options.server = "oci"
  PROVE  \E j \in i..(done + 1) : PlaceOf[duFiles[j]] = PlaceOf[duFiles[i]] /\ duFiles[j] \in stored'
<1>1. /\ done + 1 \in DOMAIN duFiles /\ File = duFiles[done + 1] /\ done \in Nat /\ i \in Nat
      /\ Kept(i, done) /\ DOMAIN duFiles = 1..Len(duFiles)
  BY FileFacts DEF MainInv, InTurn, Uploading
<1>2. PICK j \in i..done : PlaceOf[duFiles[j]] = PlaceOf[duFiles[i]] /\ duFiles[j] \in stored
  BY <1>1 DEF Kept
<1>3. CASE duFiles[j] \in stored'
  BY <1>1, <1>2, <1>3
<1>4. CASE duFiles[j] \notin stored'
  <2>1. PlaceOf[duFiles[done + 1]] = PlaceOf[duFiles[i]] /\ duFiles[done + 1] \in stored'
    BY <1>1, <1>2, <1>4 DEF Published
  <2>2. done + 1 \in i..(done + 1)
    BY <1>1
  <2> QED
    BY <2>1, <2>2
<1> QED
  BY <1>3, <1>4

\* A file is sent.
LEMMA SentFacts ==
  ASSUME MainInv, Uploading, Sent
  PROVE  /\ sent' \in [Files -> Nat] /\ \A f \in Files : sent'[f] <= 1
         /\ \A f \in Files : f # File => sent'[f] = sent[f]
BY FileFacts DEF MainInv, TypeOK, SentOnce, Sent

\* Another file is done with.
LEMMA NextFileKeeps ==
  ASSUME MainInv, Uploading, NextFile, UNCHANGED <<command, options, duFiles, serviceVars>>,
         sent' \in [Files -> Nat], \A f \in Files : sent'[f] <= 1,
         \A f \in Files : f # File => sent'[f] = sent[f],
         stored' \in {stored, Published}, announced' \subseteq announced \cup {File},
         options.server = "oci" => stored' = Published /\ announced' = announced \cup {File}
  PROVE  MainInv'
<1> USE DEF NextFile, serviceVars
<1>1. /\ done + 1 \in DOMAIN duFiles /\ File \in Files /\ command = "upload"
      /\ exitCode = "none" /\ phase = "upload" /\ phase' = "upload"
      /\ \A i \in DOMAIN duFiles : i # done + 1 => duFiles[i] # File
      /\ duFiles \in Seq(Files) /\ done \in Nat /\ done' = done + 1
      /\ duFiles[done + 1] = File /\ DOMAIN duFiles = 1..Len(duFiles) /\ done < Len(duFiles)
  <2>1. duFiles \in Seq(Files) /\ phase = "upload" /\ phase' = "upload"
    BY DEF MainInv, TypeOK, Uploading
  <2> QED
    BY <2>1, FileFacts
<1>2. TypeOK'
  BY <1>1 DEF MainInv, TypeOK, Published
<1>3. JobsReported'
  BY DEF MainInv, JobsReported
<1>4. PhaseOfCommand' /\ NamedOnce' /\ SentOnce'
  BY DEF MainInv, PhaseOfCommand, NamedOnce, SentOnce
<1>5. InTurn'
  <2>1. SUFFICES ASSUME NEW i \in DOMAIN duFiles
                 PROVE  /\ i > done + 1 => sent'[duFiles[i]] = 0 /\ duFiles[i] \notin announced'
                        /\ i <= done + 1 /\ options.server = "oci" =>
                             duFiles[i] \in announced' /\ Kept(i, done)'
    BY <1>1 DEF InTurn
  <2>2. /\ i > done => sent[duFiles[i]] = 0 /\ duFiles[i] \notin announced
        /\ i <= done /\ options.server = "oci" => duFiles[i] \in announced
    BY <1>1 DEF MainInv, InTurn
  <2>3. i \in Nat /\ duFiles[i] \in Files
    BY <1>1
  <2>4. ASSUME i > done + 1 PROVE sent'[duFiles[i]] = 0 /\ duFiles[i] \notin announced'
    BY <1>1, <2>2, <2>3, <2>4
  <2>5. ASSUME i <= done + 1, options.server = "oci"
        PROVE  duFiles[i] \in announced' /\ Kept(i, done)'
    <3>1. CASE i <= done
      BY <1>1, <2>2, <2>5, <3>1, PlaceTaken DEF Kept
    <3>2. CASE i = done + 1
      BY <1>1, <2>5, <3>2 DEF Kept, Published
    <3> QED
      BY <1>1, <2>3, <2>5, <3>1, <3>2
  <2> QED
    BY <2>4, <2>5
<1>6. OciUploadTold'
  <2>1. SUFFICES ASSUME options.server = "oci", NEW i \in DOMAIN duFiles, duFiles[i] \in announced'
                 PROVE  Kept(i, Len(duFiles))'
    BY <1>1 DEF OciUploadTold
  <2>2. i \in Nat /\ i <= done + 1
    BY <1>1, <2>1 DEF MainInv, InTurn
  <2>3. Kept(i, done)'
    BY <1>1, <1>5, <2>1, <2>2 DEF InTurn
  <2> QED
    BY <1>1, <2>2, <2>3 DEF Kept
<1> QED
  BY <1>2, <1>3, <1>4, <1>5, <1>6 DEF MainInv

LEMMA MainStep == MainInv /\ [Next]_vars => MainInv'
<1> SUFFICES ASSUME MainInv, [Next]_vars PROVE MainInv'
  OBVIOUS
<1>1. /\ sent \in [Files -> Nat] /\ stored \subseteq Files
      /\ \A f \in Files : sent[f] <= 1
      /\ phase # "exited" => exitCode = "none"
      /\ duFiles \in Seq(Files) /\ done \in 0..Len(duFiles)
  BY DEF MainInv, TypeOK, SentOnce
<1>2. CASE ConfigThrows
  BY <1>1, <1>2, ExitKeeps DEF ConfigThrows, uploadVars
<1>3. CASE Start
  <2>1. /\ phase = "parsed" /\ duFiles' \in EraseDuplicates(duFiles)
        /\ phase' = (IF command = "upload" THEN "upload" ELSE "targets")
        /\ UNCHANGED <<command, options, done, exitCode, sent, stored, announced, job, reported, outcome>>
    BY <1>3 DEF Start, uploadVars, serviceVars
  <2>2. /\ duFiles' \in Seq(Files) /\ Range(duFiles') = Files
        /\ \A i, j \in DOMAIN duFiles' : duFiles'[i] = duFiles'[j] => i = j
    BY <1>1, <2>1, ErasedNames DEF MainInv, NamedOnce
  <2>3. done = 0 /\ stored = {} /\ announced = {} /\ \A f \in Files : sent[f] = 0
    BY <2>1 DEF MainInv, InTurn
  <2>4. TypeOK'
    BY <2>1, <2>2, <2>3 DEF MainInv, TypeOK
  <2>5. JobsReported'
    BY <2>1 DEF MainInv, JobsReported
  <2>6. PhaseOfCommand'
    BY <2>1 DEF MainInv, PhaseOfCommand, TypeOK
  <2>7. NamedOnce'
    BY <2>2 DEF NamedOnce
  <2>8. InTurn'
    <3>1. \A i \in DOMAIN duFiles' : ~(i <= done') /\ duFiles'[i] \in Files
      BY <2>1, <2>2, <2>3
    <3>2. phase' # "parsed" /\ announced' = {} /\ \A f \in Files : sent'[f] = 0
      BY <2>1, <2>3
    <3> QED
      BY <3>1, <3>2 DEF InTurn
  <2>9. SentOnce' /\ OciUploadTold'
    BY <2>1, <2>3 DEF MainInv, TypeOK, SentOnce, OciUploadTold
  <2> QED
    BY <2>4, <2>5, <2>6, <2>7, <2>8, <2>9 DEF MainInv
<1>4. CASE NoMirrorGiven
  BY <1>1, <1>4, ExitKeeps DEF NoMirrorGiven, uploadVars
<1>5. CASE MalformedName
  <2>1. PICK code \in {"1", "terminated"} : Exit(code)
    BY <1>5 DEF MalformedName
  <2> QED
    BY <1>1, <1>5, <2>1, ExitKeeps DEF MalformedName, Uploading, uploadVars
<1>6. CASE NoCredentials
  BY <1>1, <1>6, ExitKeeps DEF NoCredentials, Uploading, uploadVars
<1>7. CASE UploadNothing
  BY <1>1, <1>7, NextFileKeeps DEF UploadNothing, uploadVars
<1>8. CASE OciUploaded
  BY <1>8, SentFacts, NextFileKeeps DEF OciUploaded
<1>9. CASE UploadFailed
  <2>1. File \in Files /\ exitCode = "none" /\ Uploading /\ stored' \in {stored, Published}
        /\ UNCHANGED <<duFiles, announced, options>>
    BY <1>9, FileFacts DEF UploadFailed
  <2>2. ASSUME options.server = "oci", NEW i \in DOMAIN duFiles, duFiles[i] \in announced
        PROVE  Kept(i, Len(duFiles))'
    <3>1. i \in Nat /\ done \in Nat /\ done < Len(duFiles) /\ duFiles \in Seq(Files) /\ i <= done
      BY <1>1, <2>1, <2>2, FileFacts DEF MainInv, InTurn, Uploading
    <3>2. PICK j \in i..(done + 1) :
             PlaceOf[duFiles[j]] = PlaceOf[duFiles[i]] /\ duFiles[j] \in stored'
      BY <2>1, <2>2, <3>1, PlaceTaken
    <3>3. j \in i..Len(duFiles)
      BY <3>1
    <3> QED
      BY <2>1, <3>2, <3>3 DEF Kept
  <2>3. stored' \subseteq Files
    BY <1>1, <2>1 DEF Published
  <2>4. \/ options.server # "oci" \/ stored' = stored
        \/ \A i \in DOMAIN duFiles : duFiles[i] \in announced => Kept(i, Len(duFiles))'
    BY <2>2
  <2>5. /\ sent' \in [Files -> Nat] /\ \A f \in Files : sent'[f] <= 1
        /\ Exit("1") /\ UNCHANGED <<command, options, duFiles, done, serviceVars, announced>>
    BY <1>9, SentFacts DEF UploadFailed
  <2> QED
    BY <2>1, <2>3, <2>4, <2>5, ExitKeeps
<1>10. CASE S3Uploaded
  BY <1>10, SentFacts, NextFileKeeps DEF S3Uploaded
<1>11. CASE UploadsDone
  <2>1. phase = "upload" /\ done = Len(duFiles) /\ command = "upload" /\ exitCode = "none"
    BY <1>1, <1>11 DEF UploadsDone, MainInv, PhaseOfCommand
  <2>2. ASSUME options.server = "oci" PROVE announced = Files
    <3>0. announced \subseteq Files
      BY DEF MainInv, TypeOK
    <3>1. \A i \in DOMAIN duFiles : duFiles[i] \in announced
      <4>1. \A i \in DOMAIN duFiles : i <= done
        BY <1>1, <2>1
      <4> QED
        BY <2>1, <2>2, <4>1 DEF MainInv, InTurn
    <3>2. \A f \in Files : \E i \in DOMAIN duFiles : duFiles[i] = f
      BY DEF MainInv, NamedOnce, Range
    <3> QED
      BY <3>0, <3>1, <3>2
  <2> QED
    BY <1>1, <1>11, <2>1, <2>2, ExitKeeps DEF UploadsDone, uploadVars
<1>12. ASSUME NEW loop \in {"targets", "add"}, NEW next \in {"add", "download"},
              LoopStep(loop, next)
       PROVE  MainInv'
  <2>1. /\ phase = loop /\ command = "download" /\ exitCode = "none"
        /\ UNCHANGED <<command, options, duFiles, uploadVars, serviceVars>>
    BY <1>1, <1>12 DEF LoopStep, MainInv, PhaseOfCommand
  <2>2. CASE done < Len(duFiles) /\ Exit("terminated") /\ UNCHANGED done
    BY <1>1, <2>1, <2>2, ExitKeeps DEF uploadVars
  <2>3. CASE phase' \in {"targets", "add", "download"} /\ done' \in 0..Len(duFiles)
             /\ UNCHANGED exitCode
    <3>1. UNCHANGED <<sent, stored, announced, job, reported, outcome>>
      BY <2>1 DEF uploadVars, serviceVars
    <3>2. TypeOK'
      BY <2>1, <2>3, <3>1 DEF MainInv, TypeOK
    <3>3. JobsReported'
      BY <3>1 DEF MainInv, JobsReported
    <3>4. PhaseOfCommand' /\ NamedOnce' /\ InTurn'
      BY <2>1, <2>3, <3>1 DEF MainInv, PhaseOfCommand, NamedOnce, InTurn
    <3>5. SentOnce' /\ OciUploadTold'
      BY <2>1, <2>3, <3>1 DEF MainInv, SentOnce, OciUploadTold
    <3> QED
      BY <3>2, <3>3, <3>4, <3>5 DEF MainInv
  <2> QED
    BY <1>1, <1>12, <2>1, <2>2, <2>3 DEF LoopStep
<1>13. CASE Download
  <2>1. /\ phase = "download" /\ command = "download" /\ exitCode = "none"
        /\ UNCHANGED <<command, options, duFiles, phase, done, exitCode, sent, stored, announced>>
    BY <1>1, <1>13 DEF Download, cliVars, uploadVars, MainInv, PhaseOfCommand
  <2>2. JobsReported'
    BY <1>13, ServiceStep DEF Download, MainInv
  <2>3. TypeOK'
    BY <2>1 DEF MainInv, TypeOK
  <2>4. PhaseOfCommand' /\ NamedOnce' /\ InTurn'
    BY <2>1 DEF MainInv, PhaseOfCommand, NamedOnce, InTurn
  <2>5. SentOnce' /\ OciUploadTold'
    BY <2>1 DEF MainInv, SentOnce, OciUploadTold
  <2> QED
    BY <2>2, <2>3, <2>4, <2>5 DEF MainInv
<1>14. CASE Downloaded
  <2>1. command = "download" /\ exitCode = "none" /\ outcome \in {"true", "false", "thrown"}
    BY <1>1, <1>14 DEF Downloaded, MainInv, PhaseOfCommand, JobsReported
  <2>2. ExitOf(outcome) \in {"0", "1", "terminated"} /\ (ExitOf(outcome) = "0" => outcome = "true")
    BY <2>1 DEF ExitOf
  <2> QED
    BY <1>1, <1>14, <2>1, <2>2, ExitKeeps DEF Downloaded, uploadVars
<1>15. CASE UNCHANGED vars
  <2>1. UNCHANGED <<command, options, duFiles, phase, done, exitCode, sent, stored, announced,
                    job, reported, outcome>>
    BY <1>15 DEF vars, cliVars, uploadVars, serviceVars
  <2>2. TypeOK' /\ JobsReported'
    BY <2>1 DEF MainInv, TypeOK, JobsReported
  <2>3. PhaseOfCommand' /\ NamedOnce' /\ InTurn'
    BY <2>1 DEF MainInv, PhaseOfCommand, NamedOnce, InTurn, Kept
  <2>4. SentOnce' /\ OciUploadTold'
    BY <2>1 DEF MainInv, SentOnce, OciUploadTold, Kept
  <2> QED
    BY <2>2, <2>3, <2>4 DEF MainInv
<1> QED
  BY <1>2, <1>3, <1>4, <1>5, <1>6, <1>7, <1>8, <1>9, <1>10, <1>11, <1>12, <1>13, <1>14, <1>15
  DEF Next, MakeTargets, AddTargets, Exited

LEMMA MainKeeps == Spec => []MainInv
BY MainStarts, MainStep, PTL DEF Spec

\* A file named twice, next to each other or not, is uploaded once
\* (erase_duplicates of utils.hpp, handle_upload of main.cpp).
THEOREM UploadedOnce == Spec => []CommandInv
<1>1. MainInv => CommandInv
  BY DEF MainInv, CommandInv
<1> QED
  BY <1>1, MainKeeps, PTL

\* What an OCI upload announces is there, or gave its place to a later file of
\* the list; with exit code 0 every file was announced, whichever was refused
\* (handle_upload of main.cpp).
THEOREM UploadsToldTruly == Spec => []OciUploadTold
<1>1. MainInv => OciUploadTold
  BY DEF MainInv
<1> QED
  BY <1>1, MainKeeps, PTL

\* If no two files are for one dest:tag, an OCI upload that exits with 0 left
\* every one of them in the registry (handle_upload of main.cpp).
THEOREM DistinctUploadsStored ==
  ASSUME \A f, g \in Files : PlaceOf[f] = PlaceOf[g] => f = g
  PROVE  Spec => [](command = "upload" /\ options.server = "oci" /\ exitCode = "0" =>
                      stored = Files)
<1>1. ASSUME MainInv, command = "upload", options.server = "oci", exitCode = "0"
      PROVE  stored = Files
  <2>1. /\ duFiles \in Seq(Files) /\ Range(duFiles) = Files /\ stored \subseteq Files
        /\ announced = Files
        /\ \A i \in DOMAIN duFiles : duFiles[i] \in announced => Kept(i, Len(duFiles))
    BY <1>1 DEF MainInv, TypeOK, NamedOnce, OciUploadTold
  <2>2. ASSUME NEW f \in Files PROVE f \in stored
    <3>1. PICK i \in DOMAIN duFiles : duFiles[i] = f
      BY <2>1 DEF Range
    <3>2. PICK j \in i..Len(duFiles) :
             PlaceOf[duFiles[j]] = PlaceOf[duFiles[i]] /\ duFiles[j] \in stored
      BY <2>1, <3>1 DEF Kept
    <3> QED
      BY <2>1, <3>1, <3>2
  <2> QED
    BY <2>1, <2>2
<1> QED
  BY <1>1, MainKeeps, PTL

\* A download exits with 0 only when all its targets have settled and each was
\* reported once: download() returns true for no other reason, and nothing
\* else makes handle_download return 0.
THEOREM SettledBeforeExit == Spec => []DownloadSettled
<1>1. MainInv => DownloadSettled
  BY DEF MainInv, PhaseOfCommand, JobsReported, DownloadSettled
<1> QED
  BY <1>1, MainKeeps, PTL
=============================================================================
