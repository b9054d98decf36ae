------------------------- MODULE SharedDestination -------------------------
(***************************************************************************)
(* The files of several targets of one download on one disk.  Where a      *)
(* target is stored follows from its URL and the options of the caller     *)
(* (from_url); two targets that are to be stored under one name also share *)
(* the temporary file, which each of them opens, truncates, removes and    *)
(* renames as if it were its own.                                          *)
(*                                                                         *)
(* A path names an inode, a handle holds on to one, as on a POSIX disk.    *)
(* There are no other names for a file at first than the destinations.     *)
(* The loop is one thread: between two steps of one target curl may let    *)
(* any other one advance.  Slots, mirrors and callbacks are the subject of *)
(* Downloader, resuming that of ResumeTransfer: no target resumes here.    *)
(*                                                                         *)
(* A definition named Broken... is a faulty variant of the one after it.   *)
(***************************************************************************)
EXTENDS Naturals, Sequences, FiniteSets

CONSTANTS
  NTargets,      \* the number of targets of the download
  Requests,      \* what a target may be: records as in SharedConstantsOk
  Suffixes,      \* how many .pdpart the name in a request ends with, at most
  OutFiles,      \* values of -o: names, and NoName if it is not given
  OutDirs,       \* values of -d, and NoName
  NoName,
  Files,         \* the number of remote files
  Blocks,        \* blocks of each of them
  MaxRetries     \* Downloader::allowed_mirror_failures

ASSUME SharedConstantsOk ==
  /\ NTargets \in Nat /\ Suffixes \in Nat /\ NoName \in OutFiles /\ NoName \in OutDirs
  /\ Files \in Nat \ {0} /\ Blocks \in Nat \ {0} /\ MaxRetries \in Nat
  /\ \A r \in Requests : /\ r.kind \in {"url", "mirror", "file"}
                         /\ r.part \in 0..Suffixes /\ r.file \in 1..Files

Targets == 1..NTargets
NoInode == 0
Inodes == 1..(3 * NTargets)
Hole == 0          \* a block nobody wrote
Whole(f) == [i \in 1..Blocks |-> f]

VARIABLES
  asked,         \* the requests, never changed
  out, dir,      \* the options, never changed
  blocked,       \* destinations that can be neither opened nor replaced, being
                 \* directories, protected or in use; never changed
  phase,         \* "start", "loop", "crashed"
  state,         \* m_state
  retries,       \* m_retries
  disk,          \* the inode of every path
  content,       \* the blocks of every inode
  handle         \* m_outfile: inode and position; closed is NoInode

vars == <<asked, out, dir, blocked, phase, state, retries, disk, content, handle>>
options == <<asked, out, dir, blocked>>

-----------------------------------------------------------------------------
\* part is the number of .pdpart the path ends with after its name.
NoPath == [dir |-> NoName, name |-> NoName, part |-> 0]

\* from_url.  A local file is named by the option only, a URL ignores the
\* directory.
NamedByUrl(t) == out = NoName /\ asked[t].kind # "file"

Destination(t) ==
  [dir  |-> IF asked[t].kind = "mirror" THEN dir ELSE NoName,
   name |-> IF NamedByUrl(t) THEN asked[t].name ELSE out,
   part |-> IF NamedByUrl(t) THEN asked[t].part ELSE 0]

\* m_temp_file: the destination with .pdpart added to its extension, which may
\* be the destination of another target.
BrokenTemp(t) == [Destination(t) EXCEPT !.dir = NoName, !.part = @ + 1]
Temp(t) == [Destination(t) EXCEPT !.part = @ + 1]

Destinations == {Destination(t) : t \in Targets} \ {NoPath}

Paths == [dir : OutDirs, name : OutFiles \cup {r.name : r \in Requests}, part : 0..(Suffixes + 1)]

Exists(path) == disk[path] # NoInode

\* The digest of a file that is not there is the digest of no data.
Read(path) == IF Exists(path) THEN content[disk[path]] ELSE <<>>

Valid(t, path) == asked[t].checksum => Read(path) = Whole(asked[t].file)

\* check_if_already_finished.
AlreadyDownloaded(t) ==
  asked[t].checksum /\ Exists(Destination(t)) /\ Valid(t, Destination(t))

\* An inode is freed when no path names it and no handle holds it.
Used == {disk[p] : p \in Paths} \cup {handle[t].inode : t \in Targets}
Kept(blocks) == [i \in Inodes |-> IF i \in Used' THEN blocks[i] ELSE <<>>]

\* A target that has the destination: its number is that of the old file there.
OwnerOf(path) == CHOOSE t \in Targets : Destination(t) = path

Init ==
  /\ asked \in [Targets -> Requests] /\ out \in OutFiles /\ dir \in OutDirs
  /\ phase = "start"
  /\ state = [t \in Targets |-> "waiting"]
  /\ retries = [t \in Targets |-> 0]
  /\ blocked \in SUBSET Destinations
  /\ handle = [t \in Targets |-> [inode |-> NoInode, pos |-> 0]]
  /\ \E old \in [Destinations -> 0..Files] :
       /\ disk = [p \in Paths |->
                    IF p \in Destinations /\ old[p] # 0 THEN OwnerOf(p) ELSE NoInode]
       /\ content = [i \in Inodes |->
                       IF i \in Used THEN Whole(old[Destination(i)]) ELSE <<>>]

\* check_if_already_finished for every target, before anything is transferred.
Begin ==
  /\ phase = "start"
  /\ phase' = "loop"
  /\ state' = [t \in Targets |-> IF AlreadyDownloaded(t) THEN "finished" ELSE state[t]]
  /\ UNCHANGED <<options, retries, disk, content, handle>>

\* open_target_file: "wb+" truncates an existing file, or creates one; it
\* throws where nothing can be written.
Start(t) ==
  /\ phase = "loop" /\ state[t] = "waiting" /\ Temp(t) \notin blocked
  /\ state' = [state EXCEPT ![t] = "running"]
  /\ \E inode \in Inodes :
       /\ inode = IF Exists(Temp(t)) THEN disk[Temp(t)] ELSE CHOOSE i \in Inodes \ Used : TRUE
       /\ content' = [content EXCEPT ![inode] = <<>>]
       /\ disk' = [disk EXCEPT ![Temp(t)] = inode]
       /\ handle' = [handle EXCEPT ![t] = [inode |-> inode, pos |-> 0]]
  /\ UNCHANGED <<options, phase, retries>>

OpenThrows(t) ==
  /\ phase = "loop" /\ state[t] = "waiting" /\ Temp(t) \in blocked
  /\ phase' = "crashed"
  /\ UNCHANGED <<options, state, retries, disk, content, handle>>

\* blocks with the one at pos set; what lies between its end and pos is a hole.
Written(blocks, pos, block) ==
  [i \in 1..(IF pos > Len(blocks) THEN pos ELSE Len(blocks)) |->
     IF i = pos THEN block ELSE IF i <= Len(blocks) THEN blocks[i] ELSE Hole]

\* write_callback, at the position of the target's own handle.
Receive(t) ==
  LET h == handle[t] IN
  /\ phase = "loop" /\ state[t] = "running" /\ h.pos < Blocks
  /\ content' = [content EXCEPT ![h.inode] = Written(@, h.pos + 1, asked[t].file)]
  /\ handle' = [handle EXCEPT ![t].pos = @ + 1]
  /\ UNCHANGED <<options, phase, state, retries, disk>>

Closed(t) == [handle EXCEPT ![t] = [inode |-> NoInode, pos |-> 0]]

BrokenRemoved(path) == disk
Removed(path) == [disk EXCEPT ![path] = NoInode]

\* fs::rename reports that the file is missing, that there is no destination,
\* or that it cannot be replaced, in an error_code nobody reads.
Renamed(t) ==
  IF Exists(Temp(t)) /\ Destination(t) \notin blocked \cup {NoPath}
  THEN [disk EXCEPT ![Destination(t)] = disk[Temp(t)], ![Temp(t)] = NoInode]
  ELSE disk

\* check_filesize throws for a file that is not there.
SizeThrows(t) == asked[t].size /\ ~Exists(Temp(t))

\* check_filesize and check_checksums.
BrokenAccepted(t) == asked[t].size => Len(Read(Temp(t))) = Blocks
Accepted(t) ==
  /\ asked[t].size => Len(Read(Temp(t))) = Blocks
  /\ Valid(t, Temp(t))

\* An attempt in vain: the file is closed and removed, by reset_file and again
\* by truncate_transfer_file or set_failed; without another mirror to try, or
\* after a fatal error, the target fails.
GiveUp(t) ==
  /\ handle' = Closed(t)
  /\ disk' = Removed(Temp(t))
  /\ content' = Kept(content)
  /\ \/ /\ retries[t] < MaxRetries
        /\ state' = [state EXCEPT ![t] = "waiting"]
        /\ retries' = [retries EXCEPT ![t] = @ + 1]
     \/ /\ state' = [state EXCEPT ![t] = "failed"]
        /\ UNCHANGED retries

Delivered(t) == phase = "loop" /\ state[t] = "running" /\ handle[t].pos = Blocks

Complete(t) ==
  /\ Delivered(t) /\ ~SizeThrows(t) /\ Accepted(t)
  /\ handle' = Closed(t)
  /\ disk' = Renamed(t)
  /\ content' = Kept(content)
  /\ state' = [state EXCEPT ![t] = "finished"]
  /\ UNCHANGED <<options, phase, retries>>

Rejected(t) ==
  /\ Delivered(t) /\ ~SizeThrows(t) /\ ~Accepted(t)
  /\ GiveUp(t)
  /\ UNCHANGED <<options, phase>>

FinishThrows(t) ==
  /\ Delivered(t) /\ SizeThrows(t)
  /\ phase' = "crashed"
  /\ UNCHANGED <<options, state, retries, disk, content, handle>>

Break(t) ==
  /\ phase = "loop" /\ state[t] = "running"
  /\ GiveUp(t)
  /\ UNCHANGED <<options, phase>>

Settled == phase = "loop" /\ \A t \in Targets : state[t] \in {"finished", "failed"}

Terminated == (Settled \/ phase = "crashed") /\ UNCHANGED vars

Next ==
  \/ Begin
  \/ \E t \in Targets :
       \/ Start(t) \/ OpenThrows(t) \/ Receive(t)
       \/ Complete(t) \/ Rejected(t) \/ FinishThrows(t) \/ Break(t)
  \/ Terminated

Spec == Init /\ [][Next]_vars

-----------------------------------------------------------------------------
\* Every variable keeps its type; a handle of a running target holds an inode
\* that exists, named or not.
TypeOK ==
  /\ asked \in [Targets -> Requests] /\ out \in OutFiles /\ dir \in OutDirs
  /\ blocked \subseteq Paths
  /\ phase \in {"start", "loop", "crashed"}
  /\ state \in [Targets -> {"waiting", "running", "finished", "failed"}]
  /\ retries \in [Targets -> 0..MaxRetries]
  /\ content \in [Inodes -> Seq(0..Files)]
  /\ \A i \in Inodes : Len(content[i]) <= Blocks
  /\ disk \in [Paths -> {NoInode} \cup Inodes]
  /\ handle \in [Targets -> [inode : {NoInode} \cup Inodes, pos : 0..Blocks]]
  /\ \A t \in Targets : handle[t].inode # NoInode <=> state[t] = "running"

\* No other target stores its file, or its temporary file, where t does.
Alone(t) ==
  \A u \in Targets \ {t} :
    /\ Destination(u) \notin {Destination(t), Temp(t)}
    /\ Temp(u) # Destination(t)

\* The whole file is stored at the destination, or left in the temporary file
\* where the destination could not be replaced.
StoredOrLeft(t) ==
  \/ Read(Destination(t)) = Whole(asked[t].file)
  \/ Destination(t) \in blocked /\ Read(Temp(t)) = Whole(asked[t].file)

\* A target whose paths no other one has, and which has a destination, is
\* stored there whole once it is reported, and stays so whatever the others do;
\* its data are left in the temporary file if the rename, whose error
\* finalize_transfer ignores, could not replace the destination.
AloneIsWhole ==
  \A t \in Targets :
    state[t] = "finished" /\ Alone(t) /\ Destination(t) # NoPath => StoredOrLeft(t)

\* A target whose paths are shared and whose checksum is known is never
\* reported, by check_if_already_finished or finalize_transfer, unless at that
\* moment its file is at the destination, or in the temporary file if the
\* destination cannot be replaced, however the targets got into each other's
\* way before.
ReportedIsThere ==
  [][\A t \in Targets :
       state[t] # "finished" /\ state'[t] = "finished" /\ asked[t].checksum
         /\ Destination(t) # NoPath
       => StoredOrLeft(t)']_vars

\* When every target has settled no temporary file is left, also where several
\* targets opened, removed and renamed the same one (the tests assert it,
\* test/test_other.py:23), except one that could not be renamed, and a file
\* that another target stores under that name.
NothingLeft ==
  Settled =>
    \A t \in Targets :
      Destination(t) \notin blocked \cup {NoPath} /\ Temp(t) \notin Destinations
      => ~Exists(Temp(t))

\* What every state satisfies: the types, and the directory in the end.
DiskInv == TypeOK /\ NothingLeft
=============================================================================
