------------------------------ MODULE ZckProofs ------------------------------
(***************************************************************************)
(* ZckTransfer for every number of chunks, mirrors and ranges: a file that *)
(* is reported as finished is the remote file, a body request asks for     *)
(* missing chunks of a file whose header was validated, and nothing        *)
(* crashes while every mirror serves ranges.                               *)
(*                                                                         *)
(* The state machine keeps its promises by what its states say of the      *)
(* file: from kBODY_CK on the header is good and the context knows the     *)
(* chunks, in kBODY the chunks marked valid are those in the file.  A      *)
(* whole-file transfer breaks this; what comes after one is misled.        *)
(***************************************************************************)
EXTENDS ZckTransfer, FiniteSetTheorems, WellFoundedInduction, TLAPS

\* The target is neither settled nor left to an exception.
Active == state \in {"waiting", "running"}

\* Before its lead is read a target has no zchunk context that knows a header.
LeadComesFirst(s) == s.state \in {"HEADER_LEAD", "HEADER_CK"} => s.ctx \in {"no_dl", "no_zck"}

\* What the state of the zchunk file says of its content.
StateTells(s) ==
  /\ s.state # "FINISHED"
  /\ s.state \in {"BODY_CK", "BODY"} => s.file.header = "good" /\ s.ctx = "read"
  /\ s.state = "BODY" => s.valid = s.file.good

\* A transfer asks for what the state of the zchunk file calls for.
RequestFits ==
  state = "running" =>
    /\ request \in {"lead", "header", "body", "full", "stale"}
    /\ request = "lead" => z.state = "HEADER_LEAD"
    /\ request = "header" => z.state = "HEADER"
    /\ request = "stale" => z.state = "BODY_CK"
    /\ request = "body" => z.state = "BODY" /\ wanted # {} /\ wanted \subseteq Missing(z)
    /\ request = "full" => \E m \in Mirrors : maxRanges[m] = 0

WholeFile == state = "running" /\ request = "full"

\* Without a whole-file transfer the lead is read before anything needs it.
LeadIsKnown(s) ==
  (\A m \in Mirrors : maxRanges[m] > 0) => s.headerKnown \/ s.state = "HEADER_LEAD"

\* A target is reported as finished once, after which nothing happens.
ReportsFit ==
  /\ state # "finished" => ended = <<>> \/ ended[1] = "ERROR"
  /\ Active /\ outfile = "removed" => ended # <<>>

IInv ==
  /\ TypeOK /\ FinishedIsWhole /\ CrashNeedsNoRanges
  /\ RequestFits /\ ReportsFit
  /\ Active =>
       /\ LeadComesFirst(z) /\ LeadIsKnown(z)
       /\ ~misled /\ ~WholeFile => StateTells(z)

-----------------------------------------------------------------------------
\* Ranges.

LEMMA ChunksFinite == IsFiniteSet(Chunks)
BY ZckConstantsOk, FS_Interval DEF Chunks

\* A set of chunks that is not empty has a first one.
LEMMA FirstChunk ==
  ASSUME NEW cs \in SUBSET Chunks, cs # {}
  PROVE  \E c \in cs : \A b \in cs : c <= b
<1>1. cs \subseteq Nat
  BY ZckConstantsOk DEF Chunks
<1>2. PICK c \in cs : \A b \in cs : ~(<<b, c>> \in OpToRel(<, Nat))
  BY <1>1, NatLessThanWellFounded, WFMin, Zenon
<1>3. \A b \in cs : ~(b < c)
  BY <1>1, <1>2, Zenon DEF OpToRel
<1> QED
  BY <1>1, <1>3

\* Whatever the number of ranges, some missing chunk is asked for.
LEMMA RangesAsked ==
  ASSUME NEW cs \in SUBSET Chunks, cs # {}, NEW ranges \in Nat, ranges > 0
  PROVE  FirstRanges(cs, ranges) # {} /\ FirstRanges(cs, ranges) \subseteq cs
<1>1. cs \subseteq Nat
  BY ZckConstantsOk DEF Chunks
<1>2. PICK c \in cs : \A b \in cs : c <= b
  BY FirstChunk
<1>3. {b \in RangeStarts(cs) : b <= c} = {c}
  <2>1. \A b \in cs : b <= c => b = c
    BY <1>1, <1>2
  <2>2. c \in RangeStarts(cs)
    <3>1. c \in Nat /\ ~(c <= c - 1)
      BY <1>1
    <3> QED
      BY <1>2, <3>1 DEF RangeStarts
  <2>3. RangeStarts(cs) \subseteq cs /\ c <= c
    BY <1>2 DEF RangeStarts
  <2> QED
    BY <2>1, <2>2, <2>3, Zenon
<1>4. c \in FirstRanges(cs, ranges)
  BY <1>2, <1>3, FS_Singleton DEF FirstRanges
<1> QED
  BY <1>4 DEF FirstRanges

LEMMA RangeCountType ==
  ASSUME TypeOK
  PROVE  RangeCount \in Nat
<1>1. RangeStarts(wanted) \subseteq Chunks
  BY DEF RangeStarts, TypeOK
<1>2. Cardinality(RangeStarts(wanted)) \in Nat
  BY <1>1, ChunksFinite, FS_Subset, FS_CardinalityType
<1> QED
  BY <1>2 DEF RangeCount

LEMMA LoweredType ==
  ASSUME NEW n \in Nat
  PROVE  Lowered(n) \in Nat /\ Lowered(n) <= n
BY DEF Lowered

-----------------------------------------------------------------------------
\* check_zck, part by part.

\* What no part of check_zck changes, and what all of them keep.
Keeps(s, t) == t \in ZckRecord /\ t.headerKnown = s.headerKnown

LEMMA Started ==
  ASSUME NEW s \in ZckRecord, LeadComesFirst(s)
  PROVE  /\ Keeps(s, StartDownload(s))
         /\ StartDownload(s).ctx # "no_dl"
         /\ StartDownload(s).state \in {"HEADER_LEAD", "HEADER_CK"} =>
              StartDownload(s).ctx = "no_zck"
         /\ s.headerKnown \/ s.state = "HEADER_LEAD" =>
              StartDownload(s).headerKnown \/ StartDownload(s).state = "HEADER_LEAD"
         /\ StateTells(s) => StateTells(StartDownload(s))
BY DEF Keeps, StartDownload, LeadComesFirst, StateTells, ZckRecord, ZckStates

\* After the search for a local header the header is there or needed.
LEMMA LocalHeaderFound ==
  ASSUME NEW s \in ZckRecord, s.ctx # "no_dl",
         s.state \in {"HEADER_LEAD", "HEADER_CK"} => s.ctx = "no_zck"
  PROVE  /\ Keeps(s, FindLocalHeader(s))
         /\ s.state # "FINISHED" =>
              FindLocalHeader(s).state \in {"HEADER", "BODY_CK", "BODY"}
         /\ StateTells(s) => StateTells(FindLocalHeader(s))
<1>1. LocalChunks \in SUBSET Chunks
  BY ZckConstantsOk DEF LocalChunks
<1> QED
  BY <1>1 DEF Keeps, FindLocalHeader, StateTells, ZckRecord, ZckStates, Files

LEMMA HeaderPrepared ==
  ASSUME NEW s \in ZckRecord, s.state \in {"HEADER", "BODY_CK", "BODY"}
  PROVE  /\ Keeps(s, PrepareHeader(s))
         /\ PrepareHeader(s).state \in {"HEADER", "BODY_CK", "BODY"}
         /\ StateTells(s) => StateTells(PrepareHeader(s))
BY DEF Keeps, PrepareHeader, StateTells, ZckRecord, ZckStates, Files, NoData

\* A file that is found complete is the remote file.
Finished(s) == s.state = "FINISHED" /\ s.file = Whole

LEMMA BodyChecked ==
  ASSUME NEW s \in ZckRecord, s.state \in {"BODY_CK", "BODY"}
  PROVE  /\ Keeps(s, CheckBody(s))
         /\ CheckBody(s).state \in {"BODY_CK", "BODY", "FINISHED"}
         /\ StateTells(s) => StateTells(CheckBody(s)) \/ Finished(CheckBody(s))
<1> DEFINE have == s.file.good \cup LocalChunks
           copied == [s EXCEPT !.file.good = have, !.valid = have, !.failed = {},
                               !.state = "BODY"]
<1>1. have \in SUBSET Chunks
  BY ZckConstantsOk DEF ZckRecord, Files, LocalChunks
<1>2. /\ copied \in ZckRecord /\ copied.headerKnown = s.headerKnown
      /\ copied.state = "BODY" /\ copied.ctx = s.ctx /\ copied.valid = copied.file.good
      /\ copied.file.good = have /\ copied.file.header = s.file.header
  BY <1>1 DEF ZckRecord, ZckStates, Files
<1>3. ASSUME NEW t \in ZckRecord, t.file.good = Chunks
      PROVE  /\ Keeps(t, Complete(t)) /\ Complete(t).state = "FINISHED"
             /\ t.file.header = "good" => Finished(Complete(t))
  BY <1>3 DEF Keeps, Complete, Finished, ZckRecord, ZckStates, Files, Whole
<1> HIDE DEF copied
<1>4. CASE s.state # "BODY_CK"
  BY <1>4 DEF CheckBody, Keeps
<1>5. CASE s.state = "BODY_CK" /\ s.file.good = Chunks
  BY <1>3, <1>5 DEF CheckBody, StateTells
<1>6. CASE s.state = "BODY_CK" /\ s.file.good # Chunks /\ LocalChunksUnreadable
  BY <1>6 DEF CheckBody, Keeps
<1>7. CASE s.state = "BODY_CK" /\ s.file.good # Chunks /\ ~LocalChunksUnreadable
  <2>1. CheckBody(s) = IF have = Chunks THEN Complete(copied) ELSE copied
    BY <1>7 DEF CheckBody, copied
  <2>2. CASE have = Chunks
    BY <1>2, <1>3, <1>7, <2>1, <2>2 DEF Keeps, StateTells
  <2>3. CASE have # Chunks
    BY <1>2, <1>7, <2>1, <2>3 DEF Keeps, StateTells
  <2> QED
    BY <2>2, <2>3
<1> QED
  BY <1>4, <1>5, <1>6, <1>7

LEMMA BodyPrepared ==
  ASSUME NEW s \in ZckRecord, s.state \in {"BODY_CK", "BODY", "FINISHED"}
  PROVE  /\ Keeps(s, PrepareBody(s))
         /\ PrepareBody(s).state \in {"BODY_CK", "BODY", "FINISHED"}
         /\ PrepareBody(s).state = "BODY" => Missing(PrepareBody(s)) # {}
         /\ StateTells(s) => StateTells(PrepareBody(s)) \/ Finished(PrepareBody(s))
         /\ Finished(s) => Finished(PrepareBody(s))
<1>1. CASE s.state # "BODY"
  BY <1>1 DEF PrepareBody, Keeps
<1>2. CASE s.state = "BODY" /\ Missing(s) # {}
  <2>1. PrepareBody(s) = [s EXCEPT !.failed = {}, !.state = "BODY"]
    BY <1>2 DEF PrepareBody
  <2> QED
    BY <1>2, <2>1 DEF Keeps, StateTells, Finished, Missing, ZckRecord, ZckStates
<1>3. CASE s.state = "BODY" /\ Missing(s) = {}
  <2>1. PrepareBody(s) = [s EXCEPT !.failed = {}, !.state = "FINISHED"]
    BY <1>3 DEF PrepareBody
  <2>2. Keeps(s, PrepareBody(s)) /\ PrepareBody(s).state = "FINISHED"
        /\ PrepareBody(s).file = s.file
    BY <2>1 DEF Keeps, ZckRecord, ZckStates
  <2>3. StateTells(s) => s.file = Whole
    BY <1>3 DEF StateTells, Missing, Whole, ZckRecord, Files
  <2> QED
    BY <1>3, <2>2, <2>3 DEF Finished
<1> QED
  BY <1>1, <1>2, <1>3

\* With what check_zck leaves, if the mirror serves ranges.
LEMMA Checked ==
  ASSUME NEW s \in ZckRecord, LeadComesFirst(s), NEW ranges \in Nat, ranges > 0,
         NEW t, t = CheckZck(s, ranges)
  PROVE  /\ Keeps(s, t)
         /\ t.state # "HEADER_CK" /\ LeadComesFirst(t)
         /\ s.headerKnown \/ s.state = "HEADER_LEAD" =>
              t.headerKnown \/ t.state = "HEADER_LEAD"
         /\ t.state = "BODY" => Missing(t) # {}
         /\ StateTells(s) => StateTells(t) \/ Finished(t)
<1> DEFINE started == StartDownload(s)
           found == FindLocalHeader(started)
           headed == PrepareHeader(found)
           checked == CheckBody(headed)
<1>1. CASE started.state \in {"FINISHED", "HEADER_LEAD"}
  <2>1. t = started
    BY <1>1 DEF CheckZck
  <2> HIDE DEF started
  <2> QED
    BY <1>1, <2>1, Started DEF Keeps, LeadComesFirst, started
<1>2. CASE started.state \notin {"FINISHED", "HEADER_LEAD"}
  <2>1. t = IF headed.state = "HEADER" THEN headed ELSE PrepareBody(checked)
    BY <1>2 DEF CheckZck
  <2>2. /\ Keeps(s, started) /\ started.ctx # "no_dl"
        /\ started.state \in {"HEADER_LEAD", "HEADER_CK"} => started.ctx = "no_zck"
        /\ s.headerKnown \/ s.state = "HEADER_LEAD" => started.headerKnown
        /\ StateTells(s) => StateTells(started)
    BY <1>2, Started
  <2> HIDE DEF started
  <2>3. /\ Keeps(started, found) /\ found.state \in {"HEADER", "BODY_CK", "BODY"}
        /\ StateTells(started) => StateTells(found)
    BY <1>2, <2>2, LocalHeaderFound DEF Keeps
  <2> HIDE DEF found
  <2>4. /\ Keeps(found, headed) /\ headed.state \in {"HEADER", "BODY_CK", "BODY"}
        /\ StateTells(found) => StateTells(headed)
    BY <2>3, HeaderPrepared DEF Keeps
  <2> HIDE DEF headed
  <2>5. CASE headed.state = "HEADER"
    BY <2>1, <2>2, <2>3, <2>4, <2>5 DEF Keeps, LeadComesFirst
  <2>6. CASE headed.state # "HEADER"
    <3>1. /\ Keeps(headed, checked) /\ checked.state \in {"BODY_CK", "BODY", "FINISHED"}
          /\ StateTells(headed) => StateTells(checked) \/ Finished(checked)
      BY <2>4, <2>6, BodyChecked DEF Keeps
    <3> HIDE DEF checked
    <3>2. /\ Keeps(checked, t) /\ t.state \in {"BODY_CK", "BODY", "FINISHED"}
          /\ t.state = "BODY" => Missing(t) # {}
          /\ StateTells(checked) => StateTells(t) \/ Finished(t)
          /\ Finished(checked) => Finished(t)
      BY <2>1, <2>6, <3>1, BodyPrepared DEF Keeps
    <3> QED
      BY <2>2, <2>3, <2>4, <3>1, <3>2 DEF Keeps, LeadComesFirst
  <2> QED
    BY <2>5, <2>6
<1> QED
  BY <1>1, <1>2

\* If it serves none, check_zck only sets the state.
LEMMA CheckedWithoutRanges ==
  ASSUME NEW s \in ZckRecord
  PROVE  CheckZck(s, 0) = [s EXCEPT !.state = "BODY"]
BY DEF CheckZck

-----------------------------------------------------------------------------
\* How a transfer ends.

\* What every end of a transfer leaves alone or only lowers.
EndOfTransfer ==
  /\ state = "running" /\ UNCHANGED unchangedByEnd
  /\ maxRanges' \in [Mirrors -> 0..MaxRanges]
  /\ \A m \in Mirrors : maxRanges'[m] <= maxRanges[m]
  /\ rangeFail' \in BOOLEAN

\* Limits that are all positive were so before.
LEMMA StillLimited ==
  ASSUME TypeOK, EndOfTransfer
  PROVE  /\ (\A m \in Mirrors : maxRanges'[m] > 0) => \A m \in Mirrors : maxRanges[m] > 0
         /\ (\E m \in Mirrors : maxRanges[m] = 0) => \E m \in Mirrors : maxRanges'[m] = 0
<1>1. \A m \in Mirrors : maxRanges[m] \in Nat /\ maxRanges'[m] \in Nat
  BY ZckConstantsOk DEF TypeOK, EndOfTransfer
<1> QED
  BY <1>1 DEF EndOfTransfer

\* A target that is not over was not reported as finished.
LEMMA NotReported ==
  ASSUME IInv, Active
  PROVE  ended # <<"SUCCESSFUL">>
BY DEF IInv, ReportsFit, Active

LEMMA NextPartKeeps ==
  ASSUME IInv, EndOfTransfer, NEW s \in ZckRecord, NextPart(s),
         LeadComesFirst(s), LeadIsKnown(s), ~misled => StateTells(s)
  PROVE  IInv'
<1>1. TypeOK'
  BY DEF IInv, TypeOK, EndOfTransfer, NextPart, unchangedByEnd
<1>2. state' = "waiting" /\ z' = s /\ UNCHANGED <<outfile, dest, retries, ended, misled>>
  BY DEF NextPart
<1>3. FinishedIsWhole' /\ CrashNeedsNoRanges' /\ RequestFits'
  BY <1>2, NotReported DEF FinishedIsWhole, CrashNeedsNoRanges, RequestFits, EndOfTransfer, Active
<1>4. ReportsFit'
  BY <1>2 DEF IInv, ReportsFit, Active, EndOfTransfer
<1>5. LeadIsKnown(z)'
  BY <1>2, StillLimited DEF LeadIsKnown, IInv
<1>6. LeadComesFirst(z)' /\ (~misled' => StateTells(z)')
  BY <1>2 DEF LeadComesFirst, StateTells
<1> QED
  BY <1>1, <1>3, <1>4, <1>5, <1>6 DEF IInv

LEMMA EmptiedType ==
  ASSUME NEW s \in ZckRecord
  PROVE  /\ [s EXCEPT !.file = NoData] \in ZckRecord
         /\ s.state = "HEADER" => StateTells([s EXCEPT !.file = NoData])
         /\ LeadComesFirst(s) => LeadComesFirst([s EXCEPT !.file = NoData])
         /\ LeadIsKnown(s) => LeadIsKnown([s EXCEPT !.file = NoData])
<1>1. NoData \in Files
  BY DEF NoData, Files
<1>2. [s EXCEPT !.file = NoData] \in ZckRecord
  BY <1>1 DEF ZckRecord
<1>3. /\ [s EXCEPT !.file = NoData].state = s.state
      /\ [s EXCEPT !.file = NoData].ctx = s.ctx
      /\ [s EXCEPT !.file = NoData].headerKnown = s.headerKnown
  BY DEF ZckRecord
<1> QED
  BY <1>2, <1>3 DEF StateTells, LeadComesFirst, LeadIsKnown

LEMMA ErrsKeep ==
  ASSUME IInv, EndOfTransfer, NEW s \in ZckRecord, NEW fatal \in BOOLEAN, Errs(s, fatal),
         LeadComesFirst(s), LeadIsKnown(s),
         ~misled /\ request # "full" /\ s.state # "FINISHED" => StateTells(s)
  PROVE  IInv'
<1> DEFINE emptied == [s EXCEPT !.file = NoData]
<1>1. /\ emptied \in ZckRecord /\ LeadComesFirst(emptied) /\ LeadIsKnown(emptied)
      /\ s.state = "HEADER" => StateTells(emptied)
  BY EmptiedType
<1>2. misled' = (misled \/ request = "full" \/ s.state = "FINISHED") /\ dest' = dest
  BY DEF Errs
<1>3. misled' \in BOOLEAN /\ (misled => misled')
  BY <1>2 DEF IInv, TypeOK
<1>4. CASE /\ RetriesLeft /\ state' = "waiting" /\ retries' = retries + 1
           /\ z' = IF s.state = "HEADER" THEN emptied ELSE s
           /\ outfile' = IF s.state = "FINISHED" THEN "closed" ELSE outfile
           /\ ended' = ended
  <2> HIDE DEF emptied
  <2>1. z' \in ZckRecord /\ LeadComesFirst(z') /\ LeadIsKnown(z')
    BY <1>1, <1>4
  <2>2. retries' \in 0..AllowedMirrorFailures
    BY <1>4, ZckConstantsOk DEF RetriesLeft, IInv, TypeOK
  <2>3. TypeOK'
    BY <1>2, <1>3, <1>4, <2>1, <2>2 DEF IInv, TypeOK, EndOfTransfer, unchangedByEnd
  <2>4. FinishedIsWhole' /\ CrashNeedsNoRanges' /\ RequestFits'
    BY <1>4, NotReported
       DEF FinishedIsWhole, CrashNeedsNoRanges, RequestFits, EndOfTransfer, Active
  <2>5. ReportsFit'
    BY <1>4 DEF IInv, ReportsFit, Active, EndOfTransfer
  <2>6. LeadIsKnown(z)'
    BY <2>1, StillLimited DEF LeadIsKnown, IInv
  <2>7. ~misled' => StateTells(z')
    BY <1>1, <1>2, <1>4
  <2>8. LeadComesFirst(z)' /\ (~misled' => StateTells(z)')
    BY <2>1, <2>7 DEF LeadComesFirst, StateTells
  <2> QED
    BY <2>3, <2>4, <2>5, <2>6, <2>8 DEF IInv
<1>5. CASE /\ state' = "failed" /\ ended' = Append(ended, "ERROR") /\ z' = emptied
           /\ outfile' = IF s.state = "FINISHED" THEN "closed" ELSE "removed"
           /\ retries' = retries
  <2> HIDE DEF emptied
  <2>1. ended \in Seq({"SUCCESSFUL", "ERROR"}) /\ (ended = <<>> \/ ended[1] = "ERROR")
    BY DEF IInv, TypeOK, ReportsFit, EndOfTransfer
  <2>2. ended' \in Seq({"SUCCESSFUL", "ERROR"}) /\ ended'[1] = "ERROR"
    BY <1>5, <2>1
  <2>3. TypeOK'
    BY <1>1, <1>2, <1>3, <1>5, <2>2 DEF IInv, TypeOK, EndOfTransfer, unchangedByEnd
  <2>4. CrashNeedsNoRanges' /\ RequestFits' /\ ReportsFit' /\ ~Active'
    BY <1>5, <2>2 DEF CrashNeedsNoRanges, RequestFits, ReportsFit, Active
  <2>5. ended' # <<"SUCCESSFUL">>
    BY <2>2
  <2> QED
    BY <2>3, <2>4, <2>5 DEF IInv, FinishedIsWhole
<1> QED
  BY <1>4, <1>5 DEF Errs

\* The end callback's calls after a target was finished.
LEMMA SuccessReported ==
  ASSUME IInv, Active, ended' = Append(ended, "SUCCESSFUL")
  PROVE  /\ ended' \in Seq({"SUCCESSFUL", "ERROR"})
         /\ ended' = <<"SUCCESSFUL">> => ended = <<>> /\ outfile # "removed"
<1>1. ended \in Seq({"SUCCESSFUL", "ERROR"})
  BY DEF IInv, TypeOK
<1>2. ended' = <<"SUCCESSFUL">> => ended = <<>>
  BY <1>1
<1> QED
  BY <1>1, <1>2 DEF IInv, ReportsFit

LEMMA RenamedType ==
  ASSUME TypeOK, NEW file
  PROVE  /\ Renamed(file) \in Dests
         /\ outfile # "removed" /\ file = Whole => blocked \/ Renamed(file) = "whole"
BY DEF Renamed, TypeOK, Dests

\* A target is finished with the remote file, or was misled.
LEMMA FinishedKeeps ==
  ASSUME IInv, Active, NEW f \in ZckRecord, z' = f, ~misled => f.file = Whole,
         state' = "finished", ended' = Append(ended, "SUCCESSFUL"),
         outfile' = "closed", dest' = Renamed(f.file), UNCHANGED <<retries, misled>>,
         mirror' \in Mirrors, UNCHANGED <<blocked, request, wanted>>,
         maxRanges' \in [Mirrors -> 0..MaxRanges], rangeFail' \in BOOLEAN
  PROVE  IInv'
<1>1. dest' \in Dests /\ ended' \in Seq({"SUCCESSFUL", "ERROR"})
  BY RenamedType, SuccessReported DEF IInv
<1>2. TypeOK'
  BY <1>1 DEF IInv, TypeOK
<1>3. FinishedIsWhole'
  BY RenamedType, SuccessReported DEF IInv, FinishedIsWhole
<1>4. CrashNeedsNoRanges' /\ RequestFits' /\ ReportsFit' /\ ~Active'
  BY DEF CrashNeedsNoRanges, RequestFits, ReportsFit, Active
<1> QED
  BY <1>2, <1>3, <1>4 DEF IInv

\* A target is left to an exception, or to undefined behaviour.
LEMMA StoppedKeeps ==
  ASSUME IInv, Active, state' \in {"thrown", "crashed"},
         state' = "crashed" => \E m \in Mirrors : maxRanges'[m] = 0,
         z' \in ZckRecord, mirror' \in Mirrors,
         UNCHANGED <<outfile, dest, blocked, request, wanted, retries, ended, misled>>,
         maxRanges' \in [Mirrors -> 0..MaxRanges], rangeFail' \in BOOLEAN
  PROVE  IInv'
<1>1. TypeOK'
  BY DEF IInv, TypeOK
<1>2. FinishedIsWhole' /\ CrashNeedsNoRanges' /\ RequestFits' /\ ~Active'
  BY NotReported DEF FinishedIsWhole, CrashNeedsNoRanges, RequestFits, Active
<1>3. ReportsFit'
  BY <1>2 DEF IInv, ReportsFit, Active
<1> QED
  BY <1>1, <1>2, <1>3 DEF IInv

LEMMA ValidatedKeeps ==
  ASSUME IInv, EndOfTransfer, NEW s \in ZckRecord, Validated(s),
         ~s.headerKnown => \E m \in Mirrors : maxRanges'[m] = 0
  PROVE  IInv'
<1> DEFINE f == [s EXCEPT !.state = "FINISHED"]
<1>1. /\ f \in ZckRecord /\ f.state = "FINISHED" /\ f.file = s.file
      /\ f.headerKnown = s.headerKnown
  BY DEF ZckRecord, ZckStates
<1>2. mirror' \in Mirrors /\ Active /\ UNCHANGED <<blocked, request, wanted>>
  BY DEF IInv, TypeOK, EndOfTransfer, unchangedByEnd, Active
<1>3. CASE ~s.headerKnown
  <2>1. state' = "crashed" /\ z' = f /\ UNCHANGED <<outfile, dest, retries, ended, misled>>
    BY <1>3 DEF Validated
  <2> HIDE DEF f
  <2> QED
    BY <1>1, <1>2, <1>3, <2>1, StoppedKeeps DEF EndOfTransfer
<1>4. CASE s.headerKnown /\ s.file.header # "good"
  <2>1. state' = "thrown" /\ z' = f /\ UNCHANGED <<outfile, dest, retries, ended, misled>>
    BY <1>4 DEF Validated
  <2> HIDE DEF f
  <2> QED
    BY <1>1, <1>2, <2>1, StoppedKeeps DEF EndOfTransfer
<1>5. CASE s.headerKnown /\ s.file.header = "good" /\ s.file.good # Chunks
  <2>1. Errs(f, FALSE)
    BY <1>5 DEF Validated
  <2> HIDE DEF f
  <2>2. LeadComesFirst(f) /\ LeadIsKnown(f)
    BY <1>1, <1>5 DEF LeadComesFirst, LeadIsKnown
  <2> QED
    BY <1>1, <2>1, <2>2, ErrsKeep
<1>6. CASE s.headerKnown /\ s.file.header = "good" /\ s.file.good = Chunks
  <2>1. /\ state' = "finished" /\ ended' = Append(ended, "SUCCESSFUL")
        /\ z' = f /\ outfile' = "closed" /\ dest' = Renamed(f.file)
        /\ UNCHANGED <<retries, misled>>
    BY <1>6 DEF Validated
  <2>2. s.file = Whole
    BY <1>6 DEF ZckRecord, Files, Whole
  <2> HIDE DEF f
  <2> QED
    BY <1>1, <1>2, <2>1, <2>2, FinishedKeeps DEF EndOfTransfer
<1> QED
  BY <1>3, <1>4, <1>5, <1>6

-----------------------------------------------------------------------------
\* The invariant.

LEMMA InitIInv == Init => IInv
<1> SUFFICES ASSUME Init PROVE IInv
  OBVIOUS
<1>1. PICK known \in BOOLEAN :
        z = [state |-> "HEADER_LEAD", ctx |-> "no_dl", file |-> NoData,
             valid |-> {}, failed |-> {}, headerKnown |-> known]
  BY DEF Init
<1>2. NoData \in Files
  BY DEF NoData, Files
<1>3. z \in ZckRecord /\ z.state = "HEADER_LEAD" /\ z.ctx = "no_dl"
  BY <1>1, <1>2 DEF ZckRecord, ZckStates
<1>4. maxRanges \in [Mirrors -> 0..MaxRanges] /\ retries \in 0..AllowedMirrorFailures
  BY ZckConstantsOk DEF Init
<1>5. ended = <<>> /\ ended \in Seq({"SUCCESSFUL", "ERROR"}) /\ ended # <<"SUCCESSFUL">>
  BY DEF Init
<1>6. dest \in Dests /\ wanted \in SUBSET Chunks
  BY ZckConstantsOk DEF Init
<1>7. TypeOK
  BY <1>3, <1>4, <1>5, <1>6 DEF Init, TypeOK
<1>8. FinishedIsWhole /\ CrashNeedsNoRanges /\ RequestFits /\ ReportsFit
  BY <1>5 DEF Init, FinishedIsWhole, CrashNeedsNoRanges, RequestFits, ReportsFit
<1>9. LeadComesFirst(z) /\ LeadIsKnown(z) /\ StateTells(z)
  BY <1>3 DEF LeadComesFirst, LeadIsKnown, StateTells
<1> QED
  BY <1>7, <1>8, <1>9 DEF IInv

\* check_zck dereferences the header's checksum only where some mirror has no
\* ranges left.
LEMMA CrashNeedsZero ==
  ASSUME IInv, state = "waiting", NEW m \in Mirrors, CheckCrashes(m)
  PROVE  \E n \in Mirrors : maxRanges[n] = 0
<1>1. z \in ZckRecord /\ LeadComesFirst(z) /\ LeadIsKnown(z)
  BY DEF IInv, TypeOK, Active
<1>2. ~StartDownload(z).headerKnown /\ StartDownload(z).state # "HEADER_LEAD"
  BY DEF CheckCrashes, LooksForHeader
<1>3. ~(z.headerKnown \/ z.state = "HEADER_LEAD")
  BY <1>1, <1>2, Started
<1>4. PICK n \in Mirrors : ~(maxRanges[n] > 0)
  BY <1>1, <1>3 DEF LeadIsKnown
<1>5. maxRanges[n] \in Nat
  BY ZckConstantsOk DEF IInv, TypeOK
<1> QED
  BY <1>4, <1>5

\* What check_zck makes of the target that is prepared next.
LEMMA Prepared ==
  ASSUME IInv, state = "waiting", NEW m \in Mirrors, maxRanges[m] > 0,
         NEW s, s = CheckZck(z, maxRanges[m])
  PROVE  /\ s \in ZckRecord /\ s.state # "HEADER_CK"
         /\ LeadComesFirst(s) /\ LeadIsKnown(s)
         /\ s.state = "BODY" => Missing(s) # {}
         /\ ~misled => StateTells(s) \/ Finished(s)
<1>1. z \in ZckRecord /\ LeadComesFirst(z) /\ LeadIsKnown(z) /\ (~misled => StateTells(z))
  BY DEF IInv, TypeOK, Active, WholeFile
<1>2. maxRanges[m] \in Nat
  BY ZckConstantsOk DEF IInv, TypeOK
<1>3. /\ Keeps(z, s) /\ s.state # "HEADER_CK" /\ LeadComesFirst(s)
      /\ z.headerKnown \/ z.state = "HEADER_LEAD" => s.headerKnown \/ s.state = "HEADER_LEAD"
      /\ s.state = "BODY" => Missing(s) # {}
      /\ StateTells(z) => StateTells(s) \/ Finished(s)
  BY <1>1, <1>2, Checked
<1> QED
  BY <1>1, <1>3 DEF Keeps, LeadIsKnown

LEMMA PreparationStopsKeeps ==
  ASSUME IInv, NEW m \in Mirrors, PreparationStops(m)
  PROVE  IInv'
<1>1. /\ state = "waiting" /\ ~CheckReturns(m) /\ mirror' = m
      /\ state' = (IF CheckCrashes(m) THEN "crashed" ELSE "thrown")
      /\ UNCHANGED <<z, outfile, dest, blocked, request, wanted, maxRanges, rangeFail, retries,
                     ended, misled>>
  BY DEF PreparationStops
<1>2. state' = "crashed" => \E n \in Mirrors : maxRanges[n] = 0
  BY <1>1, CrashNeedsZero
<1>3. Active /\ z' \in ZckRecord /\ rangeFail' \in BOOLEAN
      /\ maxRanges' \in [Mirrors -> 0..MaxRanges]
  BY <1>1 DEF IInv, TypeOK, Active
<1> QED
  BY <1>1, <1>2, <1>3, StoppedKeeps

LEMMA PreparationFinishesKeeps ==
  ASSUME IInv, NEW m \in Mirrors, PreparationFinishes(m)
  PROVE  IInv'
<1> DEFINE s == CheckZck(z, maxRanges[m])
<1>1. /\ state = "waiting" /\ s.state = "FINISHED"
      /\ state' = "finished" /\ ended' = Append(ended, "SUCCESSFUL")
      /\ z' = s /\ outfile' = "closed" /\ dest' = Renamed(s.file)
      /\ mirror' = m /\ rangeFail' = FALSE
      /\ UNCHANGED <<blocked, request, wanted, maxRanges, retries, misled>>
  BY DEF PreparationFinishes
<1>2. maxRanges[m] > 0
  <2>1. ASSUME maxRanges[m] = 0 PROVE s.state = "BODY"
    BY <2>1, CheckedWithoutRanges DEF IInv, TypeOK, ZckRecord
  <2>2. maxRanges[m] \in Nat
    BY ZckConstantsOk DEF IInv, TypeOK
  <2> QED
    BY <1>1, <2>1, <2>2
<1> HIDE DEF s
<1>3. s \in ZckRecord /\ (~misled => s.file = Whole)
  BY <1>1, <1>2, Prepared DEF s, StateTells, Finished
<1>4. Active /\ maxRanges' \in [Mirrors -> 0..MaxRanges] /\ rangeFail' \in BOOLEAN
  BY <1>1 DEF IInv, TypeOK, Active
<1> QED
  BY <1>1, <1>3, <1>4, FinishedKeeps

\* The first transfer after a preparation, with or without ranges.
LEMMA RunningKeeps ==
  ASSUME IInv, state = "waiting", state' = "running", z' \in ZckRecord,
         outfile' \in {"open", "removed", outfile}, mirror' \in Mirrors,
         wanted' \in SUBSET Chunks, rangeFail' \in BOOLEAN,
         ended' \in {ended, Append(ended, "ERROR")},
         outfile' = "removed" => outfile = "removed" \/ ended' = Append(ended, "ERROR"),
         UNCHANGED <<dest, blocked, maxRanges, retries, misled>>,
         request' \in {"lead", "header", "body", "full", "stale"}, RequestFits',
         LeadComesFirst(z'), LeadIsKnown(z'),
         ~misled /\ request' # "full" => StateTells(z')
  PROVE  IInv'
<1>1. ended \in Seq({"SUCCESSFUL", "ERROR"}) /\ (ended = <<>> \/ ended[1] = "ERROR")
  BY DEF IInv, TypeOK, ReportsFit
<1>2. /\ ended' \in Seq({"SUCCESSFUL", "ERROR"}) /\ (ended' = <<>> \/ ended'[1] = "ERROR")
      /\ ended # <<>> \/ ended' = Append(ended, "ERROR") => ended' # <<>>
  BY <1>1
<1>3. ended' # <<"SUCCESSFUL">>
  BY <1>2
<1>4. TypeOK'
  BY <1>2 DEF IInv, TypeOK
<1>5. FinishedIsWhole' /\ CrashNeedsNoRanges'
  BY <1>3 DEF FinishedIsWhole, CrashNeedsNoRanges
<1>6. ReportsFit'
  BY <1>2 DEF IInv, ReportsFit, Active
<1>7. LeadComesFirst(z)' /\ LeadIsKnown(z)' /\ (~misled' /\ ~WholeFile' => StateTells(z)')
  BY DEF LeadComesFirst, LeadIsKnown, StateTells, WholeFile
<1> QED
  BY <1>4, <1>5, <1>6, <1>7 DEF IInv

LEMMA PreparationRunsKeeps ==
  ASSUME IInv, NEW m \in Mirrors, PreparationRuns(m)
  PROVE  IInv'
<1> DEFINE ranges == maxRanges[m]
           s == CheckZck(z, ranges)
           asks == RequestOf(s, ranges)
<1>1. /\ state = "waiting" /\ s.state # "FINISHED"
      /\ state' = "running" /\ z' = s /\ mirror' = m /\ request' = asks
      /\ wanted' = IF request' = "body" THEN FirstRanges(Missing(s), ranges) ELSE {}
      /\ outfile' = CASE asks = "stale" -> "removed"
                      [] outfile = "none" -> "open"
                      [] OTHER -> outfile
      /\ ended' = IF asks = "stale" THEN Append(ended, "ERROR") ELSE ended
      /\ rangeFail' = (ranges = 0 /\ rangeFail)
      /\ UNCHANGED <<dest, blocked, maxRanges, retries, misled>>
  BY DEF PreparationRuns
<1>2. ranges \in Nat /\ z \in ZckRecord /\ rangeFail' \in BOOLEAN
  BY <1>1, ZckConstantsOk DEF IInv, TypeOK
<1>3. CASE ranges = 0
  <2>1. s = [z EXCEPT !.state = "BODY"] /\ asks = "full"
    BY <1>2, <1>3, CheckedWithoutRanges DEF RequestOf
  <2>2. z' \in ZckRecord /\ z'.state = "BODY"
    BY <1>1, <1>2, <2>1 DEF ZckRecord, ZckStates
  <2> HIDE DEF s, asks
  <2>3. wanted' = {} /\ outfile' \in {"open", outfile} /\ ended' = ended /\ request' = "full"
        /\ (outfile' = "removed" => outfile = "removed")
    BY <1>1, <2>1
  <2>4. RequestFits'
    BY <1>1, <1>3, <2>3 DEF RequestFits
  <2>5. LeadComesFirst(z') /\ LeadIsKnown(z')
    BY <1>2, <1>3, <2>2 DEF LeadComesFirst, LeadIsKnown
  <2> QED
    BY <1>1, <1>2, <2>2, <2>3, <2>4, <2>5, RunningKeeps
<1>4. CASE ranges > 0
  <2>1. /\ s \in ZckRecord /\ s.state # "HEADER_CK"
        /\ LeadComesFirst(s) /\ LeadIsKnown(s)
        /\ s.state = "BODY" => Missing(s) # {}
        /\ ~misled => StateTells(s)
    BY <1>1, <1>4, Prepared DEF Finished
  <2> HIDE DEF s
  <2>2. s.state \in {"HEADER_LEAD", "HEADER", "BODY_CK", "BODY"}
    BY <1>1, <2>1 DEF ZckRecord, ZckStates
  <2>3. /\ s.state = "HEADER_LEAD" => asks = "lead"
        /\ s.state = "HEADER" => asks = "header"
        /\ s.state = "BODY_CK" => asks = "stale"
        /\ s.state = "BODY" => asks = "body"
    BY <1>4 DEF RequestOf
  <2> HIDE DEF asks
  <2>4. Missing(s) \in SUBSET Chunks
    BY DEF Missing
  <2>5. asks = "body" => wanted' # {} /\ wanted' \subseteq Missing(s)
    BY <1>1, <1>2, <1>4, <2>1, <2>2, <2>3, <2>4, RangesAsked
  <2>6. wanted' \in SUBSET Chunks
    BY <1>1, <2>4, <2>5
  <2>7. /\ outfile' \in {"open", "removed", outfile} /\ ended' \in {ended, Append(ended, "ERROR")}
        /\ outfile' = "removed" => outfile = "removed" \/ ended' = Append(ended, "ERROR")
    BY <1>1
  <2>8. RequestFits'
    <3>1. Missing(z)' = Missing(s)
      BY <1>1 DEF Missing
    <3> QED
      BY <1>1, <2>2, <2>3, <2>5, <3>1 DEF RequestFits
  <2> QED
    BY <1>1, <1>2, <2>1, <2>2, <2>3, <2>6, <2>7, <2>8, RunningKeeps
<1> QED
  BY <1>2, <1>3, <1>4

LEMMA LeadArrivesKeeps ==
  ASSUME IInv, NEW good \in BOOLEAN, LeadArrives(good)
  PROVE  IInv'
<1>1. /\ state = "running" /\ request = "lead"
      /\ NextPart(IF good THEN LeadRead(z) ELSE z)
      /\ UNCHANGED <<unchangedByEnd, maxRanges, rangeFail>>
  BY DEF LeadArrives, Answered
<1>2. EndOfTransfer
  BY <1>1, ZckConstantsOk DEF EndOfTransfer, IInv, TypeOK
<1>3. /\ z \in ZckRecord /\ z.state = "HEADER_LEAD" /\ z.ctx \in {"no_dl", "no_zck"}
      /\ LeadComesFirst(z) /\ LeadIsKnown(z) /\ (~misled => StateTells(z))
  BY <1>1 DEF IInv, TypeOK, Active, WholeFile, RequestFits, LeadComesFirst
<1>4. /\ LeadRead(z) \in ZckRecord /\ LeadComesFirst(LeadRead(z))
      /\ LeadIsKnown(LeadRead(z)) /\ StateTells(LeadRead(z))
  BY <1>3 DEF LeadRead, ZckRecord, ZckStates, LeadComesFirst, LeadIsKnown, StateTells
<1>5. CASE good
  <2>1. NextPart(LeadRead(z))
    BY <1>1, <1>5
  <2> QED
    BY <1>2, <1>4, <2>1, NextPartKeeps
<1>6. CASE ~good
  <2>1. NextPart(z)
    BY <1>1, <1>6
  <2> QED
    BY <1>2, <1>3, <2>1, NextPartKeeps
<1> QED
  BY <1>5, <1>6

LEMMA HeaderArrivesKeeps ==
  ASSUME IInv, NEW header \in {"good", "bad"}, HeaderArrives(header)
  PROVE  IInv'
<1> DEFINE s == [z EXCEPT !.file.header = header]
<1>1. /\ state = "running" /\ request = "header" /\ NextPart(s)
      /\ UNCHANGED <<unchangedByEnd, maxRanges, rangeFail>>
  BY DEF HeaderArrives, Answered
<1>2. EndOfTransfer
  BY <1>1, ZckConstantsOk DEF EndOfTransfer, IInv, TypeOK
<1>3. z \in ZckRecord /\ z.state = "HEADER" /\ LeadIsKnown(z)
  BY <1>1 DEF IInv, TypeOK, Active, RequestFits
<1>4. s \in ZckRecord /\ LeadComesFirst(s) /\ LeadIsKnown(s) /\ StateTells(s)
  BY <1>3 DEF ZckRecord, ZckStates, Files, LeadComesFirst, LeadIsKnown, StateTells
<1> HIDE DEF s
<1> QED
  BY <1>1, <1>2, <1>4, NextPartKeeps

LEMMA HeaderMismatchKeeps ==
  ASSUME IInv, HeaderMismatch
  PROVE  IInv'
<1>1. /\ state = "running" /\ state' = "thrown"
      /\ UNCHANGED <<z, outfile, dest, retries, ended, misled, unchangedByEnd,
                     maxRanges, rangeFail>>
  BY DEF HeaderMismatch, Answered
<1>2. /\ Active /\ z' \in ZckRecord /\ mirror' \in Mirrors /\ rangeFail' \in BOOLEAN
      /\ maxRanges' \in [Mirrors -> 0..MaxRanges] /\ UNCHANGED <<blocked, request, wanted>>
  BY <1>1 DEF IInv, TypeOK, Active, unchangedByEnd
<1> QED
  BY <1>1, <1>2, StoppedKeeps

\* What arrives in a body request keeps valid the chunks of the file.
LEMMA ChunksArrive ==
  ASSUME NEW s \in ZckRecord, NEW got \in SUBSET Missing(s),
         NEW broken \in SUBSET Missing(s),
         s.state = "BODY", NEW t \in {
           [s EXCEPT !.file.good = (@ \ broken) \cup got, !.valid = @ \cup got, !.failed = broken],
           [s EXCEPT !.file.good = @ \cup got, !.valid = @ \cup got]}
  PROVE  /\ t \in ZckRecord /\ t.state = "BODY" /\ t.headerKnown = s.headerKnown
         /\ StateTells(s) => StateTells(t)
<1>1. Missing(s) \in SUBSET Chunks /\ Missing(s) \cap s.valid = {}
  BY DEF Missing
<1>2. got \in SUBSET Chunks /\ broken \in SUBSET Chunks
  BY <1>1
<1>3. s.file \in Files /\ s.file.good \in SUBSET Chunks /\ s.valid \in SUBSET Chunks
  BY DEF ZckRecord, Files
<1>4. /\ t \in ZckRecord
      /\ t.state = "BODY" /\ t.headerKnown = s.headerKnown /\ t.ctx = s.ctx
      /\ t.file.header = s.file.header /\ t.valid = s.valid \cup got
      /\ t.file.good \in {(s.file.good \ broken) \cup got, s.file.good \cup got}
  <2>1. CASE t = [s EXCEPT !.file.good = (@ \ broken) \cup got, !.valid = @ \cup got,
                           !.failed = broken]
    BY <1>2, <1>3, <2>1 DEF ZckRecord, Files
  <2>2. CASE t = [s EXCEPT !.file.good = @ \cup got, !.valid = @ \cup got]
    BY <1>2, <1>3, <2>2 DEF ZckRecord, Files
  <2> QED
    BY <2>1, <2>2
<1>5. StateTells(s) => t.valid = t.file.good
  BY <1>1, <1>4 DEF StateTells
<1> QED
  BY <1>4, <1>5 DEF StateTells

LEMMA BodyArrivesKeeps ==
  ASSUME IInv, NEW got \in SUBSET wanted, NEW broken \in SUBSET wanted,
         BodyArrives(got, broken)
  PROVE  IInv'
<1> DEFINE s == [z EXCEPT !.file.good = (@ \ broken) \cup got, !.valid = @ \cup got,
                          !.failed = broken]
<1>1. /\ state = "running" /\ request = "body"
      /\ IF s.failed = {} /\ Missing(s) = {} THEN Validated(s) ELSE NextPart(s)
      /\ UNCHANGED <<unchangedByEnd, maxRanges, rangeFail>>
  BY DEF BodyArrives, Answered
<1>2. EndOfTransfer
  BY <1>1, ZckConstantsOk DEF EndOfTransfer, IInv, TypeOK
<1>3. /\ z \in ZckRecord /\ z.state = "BODY" /\ wanted \subseteq Missing(z)
      /\ LeadIsKnown(z) /\ (~misled => StateTells(z))
  BY <1>1 DEF IInv, TypeOK, Active, WholeFile, RequestFits
<1>4. /\ s \in ZckRecord /\ s.state = "BODY" /\ s.headerKnown = z.headerKnown
      /\ StateTells(z) => StateTells(s)
  BY <1>3, ChunksArrive
<1> HIDE DEF s
<1>5. LeadComesFirst(s) /\ LeadIsKnown(s)
  BY <1>3, <1>4 DEF LeadComesFirst, LeadIsKnown
<1>6. CASE Validated(s)
  <2>1. ~s.headerKnown => \E m \in Mirrors : ~(maxRanges[m] > 0)
    BY <1>4, <1>5 DEF LeadIsKnown
  <2>2. \A m \in Mirrors : maxRanges[m] \in Nat /\ maxRanges' = maxRanges
    BY <1>1, ZckConstantsOk DEF IInv, TypeOK
  <2>3. ~s.headerKnown => \E m \in Mirrors : maxRanges'[m] = 0
    BY <2>1, <2>2
  <2> QED
    BY <1>2, <1>4, <1>6, <2>3, ValidatedKeeps
<1>7. CASE NextPart(s)
  BY <1>2, <1>3, <1>4, <1>5, <1>7, NextPartKeeps
<1> QED
  BY <1>1, <1>6, <1>7

\* A whole file is only asked for where a mirror has no ranges left.
LEMMA FullKeeps ==
  ASSUME IInv, state = "running", request = "full",
         UNCHANGED <<unchangedByEnd, maxRanges>>, rangeFail' \in BOOLEAN
  PROVE  /\ EndOfTransfer /\ (\E m \in Mirrors : maxRanges'[m] = 0)
         /\ \A s \in ZckRecord : Validated(s) => IInv'
<1>1. EndOfTransfer
  BY ZckConstantsOk DEF EndOfTransfer, IInv, TypeOK
<1>2. \E m \in Mirrors : maxRanges'[m] = 0
  BY DEF IInv, RequestFits
<1> QED
  BY <1>1, <1>2, ValidatedKeeps

LEMMA FullArrivesKeeps ==
  ASSUME IInv, NEW file \in Files, FullArrives(file)
  PROVE  IInv'
<1> DEFINE s == [z EXCEPT !.file = file]
<1>1. /\ state = "running" /\ request = "full"
      /\ UNCHANGED <<unchangedByEnd, maxRanges, rangeFail>>
  BY DEF FullArrives
<1>2. s \in ZckRecord /\ z \in ZckRecord /\ rangeFail' \in BOOLEAN
  BY <1>1 DEF IInv, TypeOK, ZckRecord
<1>3. CASE outfile = "closed"
  <2>1. state' = "crashed" /\ UNCHANGED <<z, outfile, dest, retries, ended, misled>>
    BY <1>3 DEF FullArrives
  <2>2. /\ Active /\ mirror' \in Mirrors /\ UNCHANGED <<blocked, request, wanted>>
        /\ maxRanges' \in [Mirrors -> 0..MaxRanges] /\ \E m \in Mirrors : maxRanges'[m] = 0
    BY <1>1, <1>2, FullKeeps DEF Active, EndOfTransfer, IInv, TypeOK, unchangedByEnd
  <2> QED
    BY <1>2, <2>1, <2>2, StoppedKeeps
<1>4. CASE outfile # "closed"
  <2>1. Validated(s)
    BY <1>4 DEF FullArrives
  <2> HIDE DEF s
  <2> QED
    BY <1>1, <1>2, <2>1, FullKeeps
<1> QED
  BY <1>3, <1>4

LEMMA FullRefusedKeeps ==
  ASSUME IInv, FullRefused
  PROVE  IInv'
<1>1. /\ state = "running" /\ request = "full" /\ rangeFail' = TRUE /\ Validated(z)
      /\ UNCHANGED <<unchangedByEnd, maxRanges>> /\ z \in ZckRecord
  BY DEF FullRefused, IInv, TypeOK
<1>2. rangeFail' \in BOOLEAN
  BY <1>1
<1> QED
  BY <1>1, <1>2, FullKeeps

LEMMA RangeRefusedKeeps ==
  ASSUME IInv, RangeRefused
  PROVE  IInv'
<1>1. /\ state = "running" /\ rangeFail' = TRUE /\ UNCHANGED unchangedByEnd
      /\ request \in {"lead", "header", "stale", "body"}
      /\ maxRanges' = [maxRanges EXCEPT ![mirror] =
                         IF @ >= RangeCount THEN Lowered(RangeCount) ELSE @]
  BY DEF RangeRefused, Refused
<1>2. /\ mirror \in Mirrors /\ maxRanges \in [Mirrors -> 0..MaxRanges]
      /\ MaxRanges \in Nat /\ RangeCount \in Nat
      /\ Lowered(RangeCount) \in Nat /\ Lowered(RangeCount) <= RangeCount
  BY RangeCountType, LoweredType, ZckConstantsOk DEF IInv, TypeOK
<1>3. EndOfTransfer
  <2>1. \A m \in Mirrors : maxRanges[m] \in 0..MaxRanges
    BY <1>2
  <2>2. \A m \in Mirrors : maxRanges'[m] \in 0..MaxRanges /\ maxRanges'[m] <= maxRanges[m]
    BY <1>1, <1>2, <2>1
  <2>3. maxRanges' \in [Mirrors -> 0..MaxRanges]
    BY <1>1, <1>2, <2>2
  <2> QED
    BY <1>1, <2>2, <2>3 DEF EndOfTransfer
<1>4. z \in ZckRecord /\ LeadComesFirst(z) /\ LeadIsKnown(z) /\ (~misled => StateTells(z))
  BY <1>1 DEF IInv, TypeOK, Active, WholeFile
<1>5. CASE request = "lead"
  <2>1. NextPart(IF z.file.header = "good" THEN LeadRead(z) ELSE z)
    BY <1>5 DEF RangeRefused
  <2>2. z.state = "HEADER_LEAD" /\ z.ctx \in {"no_dl", "no_zck"}
    BY <1>1, <1>4, <1>5 DEF IInv, RequestFits, LeadComesFirst
  <2>3. /\ LeadRead(z) \in ZckRecord /\ LeadComesFirst(LeadRead(z))
        /\ LeadIsKnown(LeadRead(z)) /\ StateTells(LeadRead(z))
    BY <1>4, <2>2 DEF LeadRead, ZckRecord, ZckStates, LeadComesFirst, LeadIsKnown, StateTells
  <2>4. CASE z.file.header = "good"
    <3>1. NextPart(LeadRead(z))
      BY <2>1, <2>4
    <3> QED
      BY <1>3, <2>3, <3>1, NextPartKeeps
  <2>5. CASE z.file.header # "good"
    <3>1. NextPart(z)
      BY <2>1, <2>5
    <3> QED
      BY <1>3, <1>4, <3>1, NextPartKeeps
  <2> QED
    BY <2>4, <2>5
<1>6. CASE request = "body" /\ maxRanges'[mirror] = 0
  <2>1. Validated(z)
    BY <1>6 DEF RangeRefused
  <2> QED
    BY <1>2, <1>3, <1>4, <1>6, <2>1, ValidatedKeeps
<1>7. CASE request # "lead" /\ ~(request = "body" /\ maxRanges'[mirror] = 0)
  <2>1. NextPart(z)
    BY <1>7 DEF RangeRefused
  <2> QED
    BY <1>3, <1>4, <2>1, NextPartKeeps
<1> QED
  BY <1>5, <1>6, <1>7

LEMMA TransferErrsKeeps ==
  ASSUME IInv, NEW fatal \in BOOLEAN, TransferErrs(fatal)
  PROVE  IInv'
<1>1. state = "running" /\ UNCHANGED <<unchangedByEnd, maxRanges, rangeFail>>
  BY DEF TransferErrs
<1>2. EndOfTransfer
  BY <1>1, ZckConstantsOk DEF EndOfTransfer, IInv, TypeOK
<1>3. /\ z \in ZckRecord /\ LeadComesFirst(z) /\ LeadIsKnown(z)
      /\ ~misled /\ request # "full" => StateTells(z)
  BY <1>1 DEF IInv, TypeOK, Active, WholeFile
<1>4. CASE Errs(z, fatal)
  BY <1>2, <1>3, <1>4, ErrsKeep
<1>5. ASSUME request = "body", NEW got \in SUBSET wanted,
             Errs([z EXCEPT !.file.good = @ \cup got, !.valid = @ \cup got], fatal)
      PROVE  IInv'
  <2> DEFINE s == [z EXCEPT !.file.good = @ \cup got, !.valid = @ \cup got]
  <2>1. z.state = "BODY" /\ wanted \subseteq Missing(z)
    BY <1>1, <1>5 DEF IInv, RequestFits
  <2>2. /\ s \in ZckRecord /\ s.state = "BODY" /\ s.headerKnown = z.headerKnown
        /\ StateTells(z) => StateTells(s)
    BY <1>3, <2>1, ChunksArrive
  <2>3. Errs(s, fatal)
    BY <1>5
  <2> HIDE DEF s
  <2>4. LeadComesFirst(s) /\ LeadIsKnown(s)
    BY <1>3, <2>1, <2>2 DEF LeadComesFirst, LeadIsKnown
  <2> QED
    BY <1>2, <1>3, <2>2, <2>3, <2>4, ErrsKeep
<1>6. ASSUME request = "full", NEW file \in Files, Errs([z EXCEPT !.file = file], fatal)
      PROVE  IInv'
  <2> DEFINE s == [z EXCEPT !.file = file]
  <2>1. /\ s \in ZckRecord /\ s.state = z.state /\ s.ctx = z.ctx
        /\ s.headerKnown = z.headerKnown
    BY <1>3 DEF ZckRecord
  <2>2. Errs(s, fatal)
    BY <1>6
  <2> HIDE DEF s
  <2>3. LeadComesFirst(s) /\ LeadIsKnown(s)
    BY <1>3, <2>1 DEF LeadComesFirst, LeadIsKnown
  <2> QED
    BY <1>2, <1>6, <2>1, <2>2, <2>3, ErrsKeep
<1> QED
  BY <1>4, <1>5, <1>6 DEF TransferErrs

LEMMA NextIInv == IInv /\ [Next]_vars => IInv'
<1> SUFFICES ASSUME IInv, [Next]_vars PROVE IInv'
  OBVIOUS
<1>1. ASSUME PrepareStep PROVE IInv'
  BY <1>1, PreparationStopsKeeps, PreparationFinishesKeeps, PreparationRunsKeeps
  DEF PrepareStep
<1>2. ASSUME HonestAnswer PROVE IInv'
  <2>1. Whole \in Files /\ {} \in SUBSET wanted /\ wanted \in SUBSET wanted
    BY DEF Whole, Files
  <2> QED
    BY <1>2, <2>1, LeadArrivesKeeps, HeaderArrivesKeeps, BodyArrivesKeeps,
       FullArrivesKeeps, FullRefusedKeeps, RangeRefusedKeeps
    DEF HonestAnswer
<1>3. ASSUME OtherAnswer PROVE IInv'
  <2>1. \A got \in SUBSET wanted : SUBSET (wanted \ got) \subseteq SUBSET wanted
    OBVIOUS
  <2> QED
    BY <1>3, <2>1, LeadArrivesKeeps, HeaderArrivesKeeps, HeaderMismatchKeeps,
       BodyArrivesKeeps, FullArrivesKeeps, TransferErrsKeeps
    DEF OtherAnswer
<1>4. CASE UNCHANGED vars
  BY <1>4 DEF vars, IInv, TypeOK, FinishedIsWhole, CrashNeedsNoRanges, RequestFits, Missing,
              ReportsFit, Active, LeadComesFirst, LeadIsKnown, StateTells, WholeFile
<1> QED
  BY <1>1, <1>2, <1>3, <1>4 DEF Next, Terminated

LEMMA Invariant == Spec => []IInv
BY InitIInv, NextIInv, PTL DEF Spec

-----------------------------------------------------------------------------
\* Theorems.

\* Every variable keeps its type, and a zchunk target that is reported as
\* finished has the remote file at its destination, or in the temporary file if
\* the destination cannot be replaced, whatever was copied, repeated, corrupt
\* or missing on the way, unless an attempt failed that took it for complete.
THEOREM FinishedFileIsRemote == Spec => []ZckInv
<1>1. IInv => ZckInv
  BY DEF IInv, ZckInv
<1> QED
  BY <1>1, Invariant, PTL

\* A body request asks for chunks, all of them missing, of a file whose header
\* was validated.
THEOREM BodyRequestsAreExact == Spec => []BodyRequestExact
<1>1. IInv => BodyRequestExact
  <2> SUFFICES ASSUME IInv, state = "running", request = "body", ~misled
               PROVE  z.file.header = "good" /\ wanted # {} /\ wanted \cap z.file.good = {}
    BY DEF BodyRequestExact
  <2>1. z.state = "BODY" /\ wanted # {} /\ wanted \subseteq Missing(z) /\ StateTells(z)
    BY DEF IInv, RequestFits, Active, WholeFile
  <2> QED
    BY <2>1 DEF StateTells, Missing
<1> QED
  BY <1>1, Invariant, PTL

\* While every mirror serves ranges, neither the missing checksum of a header
\* nor a closed file is ever dereferenced.
THEOREM OnlyRefusalsCrash == Spec => []CrashNeedsNoRanges
<1>1. IInv => CrashNeedsNoRanges
  BY DEF IInv
<1> QED
  BY <1>1, Invariant, PTL
=============================================================================
