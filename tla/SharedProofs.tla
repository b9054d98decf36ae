----------------------------- MODULE SharedProofs -----------------------------
(***************************************************************************)
(* SharedDestination for every number of targets, files, blocks and        *)
(* retries: a target alone at its paths is stored there whole, a shared    *)
(* destination has the file of a target with a checksum when it is         *)
(* reported, and no temporary file is left but where the rename must fail. *)
(*                                                                         *)
(* The argument is about who can reach an inode.  No inode has two names,  *)
(* a target whose paths are its own shares what is there with no handle of *)
(* another, and a temporary file that is no destination belongs to a       *)
(* target that runs and will remove or rename it.                          *)
(***************************************************************************)
EXTENDS SharedDestination, FiniteSetTheorems, TLAPS

PathsAreTargets ==
  \A p \in Paths : Exists(p) => \E t \in Targets : p \in {Destination(t), Temp(t)}

OneName == \A p, q \in Paths : Exists(p) /\ disk[q] = disk[p] => q = p

\* What is at the paths of a target alone there is open in no other target.
LoneFilesApart ==
  \A t \in Targets : Alone(t) =>
    \A u \in Targets \ {t} : state[u] = "running" =>
      handle[u].inode # disk[Destination(t)] /\ handle[u].inode # disk[Temp(t)]

TempsAreOpen ==
  \A t \in Targets :
    /\ Exists(Temp(t)) /\ Temp(t) \notin Destinations
    /\ Destination(t) \notin blocked \cup {NoPath}
    => \E u \in Targets : state[u] = "running" /\ Temp(u) = Temp(t)

\* blocks are the first pos blocks of file f.
Begun(blocks, f, pos) == Len(blocks) = pos /\ \A i \in 1..pos : blocks[i] = f

\* The temporary file of a target that is alone has what was received.
LoneTempsBegun ==
  \A t \in Targets : state[t] = "running" /\ Alone(t) =>
    /\ disk[Temp(t)] = handle[t].inode
    /\ Begun(content[handle[t].inode], asked[t].file, handle[t].pos)

AllWaitAtFirst == phase = "start" => \A t \in Targets : state[t] = "waiting"

IInv ==
  /\ TypeOK /\ AllWaitAtFirst
  /\ PathsAreTargets /\ OneName /\ LoneFilesApart /\ TempsAreOpen
  /\ LoneTempsBegun /\ AloneIsWhole

-----------------------------------------------------------------------------
\* Paths.

OptionsOk == asked \in [Targets -> Requests] /\ out \in OutFiles /\ dir \in OutDirs

DirOf(t) == IF asked[t].kind = "mirror" THEN dir ELSE NoName

NameOf(t) == IF NamedByUrl(t) THEN asked[t].name ELSE out

PartOf(t) == IF NamedByUrl(t) THEN asked[t].part ELSE 0

LEMMA PathsOf ==
  ASSUME NEW t
  PROVE  /\ Destination(t) = [dir |-> DirOf(t), name |-> NameOf(t), part |-> PartOf(t)]
         /\ Temp(t) = [dir |-> DirOf(t), name |-> NameOf(t), part |-> PartOf(t) + 1]
<1>1. Destination(t) = [dir |-> DirOf(t), name |-> NameOf(t), part |-> PartOf(t)]
  BY DEF Destination, DirOf, NameOf, PartOf
<1> QED
  BY <1>1 DEF Temp

LEMMA PathFacts ==
  ASSUME OptionsOk, NEW t \in Targets
  PROVE  /\ Destination(t) \in Paths /\ Temp(t) \in Paths /\ PartOf(t) \in Nat
         /\ asked[t].file \in 1..Files
<1>1. asked[t] \in Requests /\ NoName \in OutFiles /\ NoName \in OutDirs /\ Suffixes \in Nat
  BY SharedConstantsOk DEF OptionsOk
<1>2. DirOf(t) \in OutDirs
  BY <1>1 DEF DirOf, OptionsOk
<1>3. NameOf(t) \in OutFiles \cup {r.name : r \in Requests}
  <2>1. asked[t].name \in {r.name : r \in Requests}
    BY <1>1
  <2> QED
    BY <2>1 DEF NameOf, OptionsOk
<1>4. asked[t].file \in 1..Files /\ asked[t].part \in 0..Suffixes
  BY <1>1, SharedConstantsOk
<1>5. PartOf(t) \in 0..Suffixes
  BY <1>1, <1>4 DEF PartOf
<1>6. PartOf(t) \in Nat /\ PartOf(t) \in 0..(Suffixes + 1) /\ PartOf(t) + 1 \in 0..(Suffixes + 1)
  BY <1>1, <1>5
<1>7. Destination(t) \in Paths
  BY <1>2, <1>3, <1>6, PathsOf DEF Paths
<1>8. Temp(t) \in Paths
  BY <1>2, <1>3, <1>6, PathsOf DEF Paths
<1> QED
  BY <1>4, <1>6, <1>7, <1>8

\* Targets share the temporary file if and only if they share the destination.
LEMMA SharedTemps ==
  ASSUME OptionsOk, NEW t \in Targets, NEW u \in Targets
  PROVE  /\ Temp(t) = Temp(u) <=> Destination(t) = Destination(u)
         /\ Temp(t) # Destination(t) /\ Temp(t) # NoPath
<1>0. PartOf(t) \in Nat /\ PartOf(u) \in Nat
  BY PathFacts
<1>1. /\ Temp(t).dir = DirOf(t) /\ Temp(t).name = NameOf(t) /\ Temp(t).part = PartOf(t) + 1
      /\ Temp(u).dir = DirOf(u) /\ Temp(u).name = NameOf(u) /\ Temp(u).part = PartOf(u) + 1
      /\ Destination(t).part = PartOf(t) /\ NoPath.part = 0
  BY PathsOf DEF NoPath
<1>2. ASSUME Temp(t) = Temp(u) PROVE Destination(t) = Destination(u)
  <2>1. DirOf(t) = DirOf(u) /\ NameOf(t) = NameOf(u) /\ PartOf(t) = PartOf(u)
    BY <1>0, <1>1, <1>2
  <2> QED
    BY <2>1, PathsOf
<1>3. ASSUME Destination(t) = Destination(u) PROVE Temp(t) = Temp(u)
  BY <1>3 DEF Temp
<1>4. Temp(t).part # Destination(t).part /\ Temp(t).part # NoPath.part
  BY <1>0, <1>1
<1> QED
  BY <1>2, <1>3, <1>4

\* What a step does not change.
LEMMA OptionsStay ==
  ASSUME UNCHANGED options
  PROVE  /\ OptionsOk => OptionsOk'
         /\ \A t \in Targets : Destination(t)' = Destination(t) /\ Temp(t)' = Temp(t)
         /\ \A t \in Targets : Alone(t)' = Alone(t)
         /\ Destinations' = Destinations
<1>1. \A t \in Targets : Destination(t)' = Destination(t) /\ Temp(t)' = Temp(t)
  BY DEF options, Destination, NamedByUrl, Temp
<1>2. Destinations' = Destinations
  BY <1>1 DEF Destinations
<1> QED
  BY <1>1, <1>2 DEF options, OptionsOk, Alone

-----------------------------------------------------------------------------
\* Inodes.

LEMMA InodeFacts ==
  /\ NTargets \in Nat /\ IsFiniteSet(Targets) /\ Cardinality(Targets) = NTargets
  /\ IsFiniteSet(Inodes) /\ Cardinality(Inodes) = 3 * NTargets
  /\ Targets \subseteq Inodes /\ NoInode \notin Inodes /\ NoInode = 0
<1>1. NTargets \in Nat /\ 3 * NTargets \in Nat
  BY SharedConstantsOk
<1>2. IsFiniteSet(Targets) /\ Cardinality(Targets) = NTargets
  BY <1>1, FS_Interval DEF Targets
<1>3. IsFiniteSet(Inodes) /\ Cardinality(Inodes) = 3 * NTargets
  BY <1>1, FS_Interval DEF Inodes
<1> QED
  BY <1>1, <1>2, <1>3 DEF Targets, Inodes, NoInode

\* A set of values indexed by a finite set is no larger than that set.
LEMMA ImageBound ==
  ASSUME NEW S, IsFiniteSet(S), NEW f
  PROVE  /\ IsFiniteSet({f[x] : x \in S})
         /\ Cardinality({f[x] : x \in S}) <= Cardinality(S)
<1> DEFINE g == [x \in S |-> f[x]]
<1>1. g \in Surjection(S, {f[x] : x \in S})
  BY DEF Surjection
<1> QED
  BY <1>1, FS_Surjection

LEMMA UnionBound ==
  ASSUME NEW S, NEW T, IsFiniteSet(S), IsFiniteSet(T)
  PROVE  /\ IsFiniteSet(S \cup T) /\ Cardinality(S \cup T) \in Nat
         /\ Cardinality(S \cup T) <= Cardinality(S) + Cardinality(T)
<1>1. /\ IsFiniteSet(S \cup T) /\ IsFiniteSet(S \cap T)
      /\ Cardinality(S \cup T) = Cardinality(S) + Cardinality(T) - Cardinality(S \cap T)
  BY FS_Union, FS_Intersection
<1>2. /\ Cardinality(S \cup T) \in Nat /\ Cardinality(S \cap T) \in Nat
      /\ Cardinality(S) \in Nat /\ Cardinality(T) \in Nat
  BY <1>1, FS_CardinalityType
<1> QED
  BY <1>1, <1>2

\* A target that waits finds an inode that is free: every one in use is held
\* by a handle of another target or is at one of the two paths of a target.
LEMMA FreeInode ==
  ASSUME IInv, NEW t \in Targets, state[t] = "waiting"
  PROVE  (CHOOSE i \in Inodes \ Used : TRUE) \in Inodes \ Used
<1> DEFINE held == {handle[u].inode : u \in Targets \ {t}}
           stored == {disk[Destination(u)] : u \in Targets}
           begun == {disk[Temp(u)] : u \in Targets}
<1>1. IsFiniteSet(Targets) /\ Cardinality(Targets) = NTargets /\ NTargets \in Nat
  BY InodeFacts
<1>2. IsFiniteSet(Targets \ {t}) /\ Cardinality(Targets \ {t}) = NTargets - 1
  BY <1>1, FS_RemoveElement
<1>3. IsFiniteSet(held) /\ Cardinality(held) <= NTargets - 1
  <2> DEFINE f == [u \in Targets |-> handle[u].inode]
  <2>1. held = {f[u] : u \in Targets \ {t}}
    OBVIOUS
  <2> HIDE DEF f
  <2>2. /\ IsFiniteSet({f[u] : u \in Targets \ {t}})
        /\ Cardinality({f[u] : u \in Targets \ {t}}) <= Cardinality(Targets \ {t})
    BY <1>2, ImageBound
  <2> QED
    BY <1>2, <2>1, <2>2
<1>4. IsFiniteSet(stored) /\ Cardinality(stored) <= NTargets
  <2> DEFINE f == [u \in Targets |-> disk[Destination(u)]]
  <2>1. stored = {f[u] : u \in Targets}
    OBVIOUS
  <2> HIDE DEF f
  <2>2. /\ IsFiniteSet({f[u] : u \in Targets})
        /\ Cardinality({f[u] : u \in Targets}) <= Cardinality(Targets)
    BY <1>1, ImageBound
  <2> QED
    BY <1>1, <2>1, <2>2
<1>5. IsFiniteSet(begun) /\ Cardinality(begun) <= NTargets
  <2> DEFINE f == [u \in Targets |-> disk[Temp(u)]]
  <2>1. begun = {f[u] : u \in Targets}
    OBVIOUS
  <2> HIDE DEF f
  <2>2. /\ IsFiniteSet({f[u] : u \in Targets})
        /\ Cardinality({f[u] : u \in Targets}) <= Cardinality(Targets)
    BY <1>1, ImageBound
  <2> QED
    BY <1>1, <2>1, <2>2
<1>6. Used \cap Inodes \subseteq (held \cup stored) \cup begun
  <2>1. handle[t].inode = NoInode /\ NoInode \notin Inodes
    BY InodeFacts DEF IInv, TypeOK
  <2>2. \A u \in Targets : handle[u].inode \in Inodes => handle[u].inode \in held
    BY <2>1
  <2>3. ASSUME NEW p \in Paths, disk[p] \in Inodes PROVE disk[p] \in stored \cup begun
    <3>1. Exists(p)
      BY <2>3, InodeFacts DEF Exists
    <3>2. PICK u \in Targets : p \in {Destination(u), Temp(u)}
      BY <3>1 DEF IInv, PathsAreTargets
    <3> QED
      BY <3>2
  <2> QED
    BY <2>2, <2>3 DEF Used
<1> HIDE DEF held, stored, begun
<1>7. ASSUME Inodes \subseteq Used PROVE FALSE
  <2>1. Inodes \subseteq (held \cup stored) \cup begun
    BY <1>6, <1>7
  <2>2. /\ IsFiniteSet(held \cup stored)
        /\ Cardinality(held \cup stored) <= Cardinality(held) + Cardinality(stored)
    BY <1>3, <1>4, UnionBound
  <2>3. /\ IsFiniteSet((held \cup stored) \cup begun)
        /\ Cardinality((held \cup stored) \cup begun) <=
             Cardinality(held \cup stored) + Cardinality(begun)
    BY <1>5, <2>2, UnionBound
  <2>4. Cardinality(Inodes) <= Cardinality((held \cup stored) \cup begun)
    BY <2>1, <2>3, FS_Subset
  <2>5. /\ Cardinality(held) \in Nat /\ Cardinality(stored) \in Nat /\ Cardinality(begun) \in Nat
        /\ Cardinality(held \cup stored) \in Nat
        /\ Cardinality((held \cup stored) \cup begun) \in Nat
    BY <1>3, <1>4, <1>5, <2>2, <2>3, FS_CardinalityType
  <2> QED
    BY <1>1, <1>3, <1>4, <1>5, <2>2, <2>3, <2>4, <2>5, InodeFacts
<1> QED
  BY <1>7

\* Blocks.
LEMMA SeqElements ==
  ASSUME NEW S, NEW s \in Seq(S), NEW i \in 1..Len(s)
  PROVE  s[i] \in S
OBVIOUS

LEMMA WrittenType ==
  ASSUME NEW blocks \in Seq(0..Files), Len(blocks) <= Blocks,
         NEW pos \in 1..Blocks, NEW f \in 1..Files
  PROVE  /\ Written(blocks, pos, f) \in Seq(0..Files) /\ Len(Written(blocks, pos, f)) <= Blocks
         /\ Begun(blocks, f, pos - 1) => Begun(Written(blocks, pos, f), f, pos)
<1>0. \A i \in 1..Len(blocks) : blocks[i] \in 0..Files
  BY SeqElements
<1> DEFINE last == IF pos > Len(blocks) THEN pos ELSE Len(blocks)
           new == [i \in 1..last |->
                     IF i = pos THEN f ELSE IF i <= Len(blocks) THEN blocks[i] ELSE Hole]
<1>1. Written(blocks, pos, f) = new
  BY DEF Written
<1>2. last \in Nat /\ last <= Blocks /\ 0 \in 0..Files /\ f \in 0..Files
  BY SharedConstantsOk
<1>3. ASSUME NEW i \in 1..last PROVE new[i] \in 0..Files
  <2>1. i \in Nat /\ i >= 1 /\ Len(blocks) \in Nat
    BY <1>2
  <2>2. i <= Len(blocks) => blocks[i] \in 0..Files
    BY <1>0, <2>1
  <2> QED
    BY <1>2, <2>2 DEF Hole
<1>4. new \in Seq(0..Files) /\ Len(new) = last
  <2> HIDE DEF last
  <2> QED
    BY <1>2, <1>3
<1>5. ASSUME Begun(blocks, f, pos - 1) PROVE Begun(new, f, pos)
  <2>1. Len(blocks) = pos - 1 /\ \A i \in 1..(pos - 1) : blocks[i] = f
    BY <1>5 DEF Begun
  <2>2. last = pos
    BY <2>1
  <2>3. \A i \in 1..pos : new[i] = f
    BY <2>1, <2>2
  <2> QED
    BY <1>4, <2>2, <2>3 DEF Begun
<1> QED
  BY <1>1, <1>2, <1>4, <1>5

LEMMA WholeBegun ==
  ASSUME NEW blocks \in Seq(0..Files), NEW f, Begun(blocks, f, Blocks)
  PROVE  blocks = Whole(f)
BY DEF Begun, Whole

LEMMA EmptyFile == <<>> \in Seq(0..Files) /\ Len(<<>>) = 0
OBVIOUS

LEMMA NothingBegun == ASSUME NEW f PROVE Begun(<<>>, f, 0)
BY DEF Begun

\* A path that keeps its inode keeps its file.
LEMMA KeptRead ==
  ASSUME content' = Kept(content), content \in [Inodes -> Seq(0..Files)],
         NEW p \in Paths, disk'[p] \in {NoInode} \cup Inodes
  PROVE  disk'[p] # NoInode => disk'[p] \in Inodes /\ content'[disk'[p]] = content[disk'[p]]
<1>1. disk'[p] \in Used'
  BY DEF Used, Paths
<1> QED
  BY <1>1 DEF Kept

-----------------------------------------------------------------------------
\* The first state.

LEMMA InitIInv == Init => IInv
<1> SUFFICES ASSUME Init PROVE IInv
  OBVIOUS
<1>1. OptionsOk /\ Files \in Nat \ {0} /\ Blocks \in Nat \ {0} /\ MaxRetries \in Nat
  BY SharedConstantsOk DEF Init, OptionsOk
<1>2. PICK old \in [Destinations -> 0..Files] :
         /\ disk = [p \in Paths |->
                     IF p \in Destinations /\ old[p] # 0 THEN OwnerOf(p) ELSE NoInode]
         /\ content = [i \in Inodes |->
                        IF i \in Used THEN Whole(old[Destination(i)]) ELSE <<>>]
  BY DEF Init
<1>3. \A t \in Targets : Destination(t) \in Paths /\ Temp(t) \in Paths
  BY <1>1, PathFacts
<1>4. ASSUME NEW p \in Destinations
      PROVE  OwnerOf(p) \in Targets /\ Destination(OwnerOf(p)) = p
  <2>1. \E t \in Targets : Destination(t) = p
    BY <1>4 DEF Destinations
  <2> QED
    BY <2>1 DEF OwnerOf
<1>5. ASSUME NEW p \in Paths, disk[p] # NoInode
      PROVE  /\ p \in Destinations /\ old[p] \in 1..Files /\ disk[p] = OwnerOf(p)
             /\ disk[p] \in Targets /\ Destination(disk[p]) = p
  <2>1. p \in Destinations /\ old[p] # 0 /\ disk[p] = OwnerOf(p)
    BY <1>2, <1>5
  <2>2. old[p] \in 0..Files
    BY <1>2, <2>1
  <2> QED
    BY <1>1, <1>4, <2>1, <2>2
<1>6. \A t \in Targets : state[t] = "waiting" /\ handle[t].inode = NoInode
  BY DEF Init
<1>7. \A i \in 1..Files : Whole(i) \in Seq(0..Files) /\ Len(Whole(i)) = Blocks
  BY <1>1 DEF Whole
<1>8. disk \in [Paths -> {NoInode} \cup Inodes]
  <2>1. \A p \in Paths : disk[p] \in {NoInode} \cup Inodes
    BY <1>5, InodeFacts
  <2> QED
    BY <1>2, <2>1
<1>9. content \in [Inodes -> Seq(0..Files)] /\ \A i \in Inodes : Len(content[i]) <= Blocks
  <2>1. ASSUME NEW i \in Inodes PROVE content[i] \in Seq(0..Files) /\ Len(content[i]) <= Blocks
    <3>1. CASE i \in Used
      <4>1. i # NoInode /\ NoInode \notin Inodes
        BY InodeFacts
      <4>2. PICK p \in Paths : i = disk[p]
        BY <1>6, <3>1, <4>1 DEF Used
      <4>3. Destination(i) = p /\ old[p] \in 1..Files
        BY <1>5, <4>1, <4>2
      <4>4. content[i] = Whole(old[p])
        BY <1>2, <3>1, <4>3
      <4> QED
        BY <1>1, <1>7, <4>3, <4>4
    <3>2. CASE i \notin Used
      <4>1. content[i] = <<>>
        BY <1>2, <3>2
      <4> QED
        BY <1>1, <4>1, EmptyFile
    <3> QED
      BY <3>1, <3>2
  <2> QED
    BY <1>2, <2>1
<1>10. TypeOK
  <2>1. handle \in [Targets -> [inode : {NoInode} \cup Inodes, pos : 0..Blocks]]
    BY <1>1 DEF Init
  <2>2. blocked \subseteq Paths
    BY <1>3 DEF Init, Destinations
  <2> QED
    BY <1>1, <1>6, <1>8, <1>9, <2>1, <2>2 DEF TypeOK, Init
<1>11. AllWaitAtFirst /\ LoneFilesApart /\ LoneTempsBegun /\ AloneIsWhole
  BY <1>6 DEF AllWaitAtFirst, LoneFilesApart, LoneTempsBegun, AloneIsWhole
<1>12. PathsAreTargets
  BY <1>5 DEF PathsAreTargets, Exists, Destinations
<1>13. OneName
  BY <1>5 DEF OneName, Exists
<1>14. TempsAreOpen
  BY <1>3, <1>5 DEF TempsAreOpen, Exists
<1> QED
  BY <1>10, <1>11, <1>12, <1>13, <1>14 DEF IInv

-----------------------------------------------------------------------------
\* The steps.

\* What is known of a target and of its paths before and after a step.
LEMMA HomeFacts ==
  ASSUME IInv, UNCHANGED options
  PROVE  /\ \A t \in Targets :
              /\ Destination(t) \in Paths /\ Temp(t) \in Paths
              /\ Temp(t) # Destination(t) /\ Temp(t) # NoPath
              /\ asked[t].file \in 1..Files
              /\ Destination(t)' = Destination(t) /\ Temp(t)' = Temp(t)
              /\ Alone(t)' = Alone(t) /\ asked'[t] = asked[t]
         /\ \A t, u \in Targets :
              /\ Temp(t) = Temp(u) <=> Destination(t) = Destination(u)
              /\ Alone(t) /\ u # t =>
                   {Destination(u), Temp(u)} \cap {Destination(t), Temp(t)} = {}
         /\ Destinations' = Destinations /\ blocked' = blocked
<1>1. OptionsOk
  BY DEF IInv, TypeOK, OptionsOk
<1>2. \A t, u \in Targets : /\ Temp(t) = Temp(u) <=> Destination(t) = Destination(u)
                            /\ Temp(t) # Destination(t) /\ Temp(t) # NoPath
  BY <1>1, SharedTemps
<1>3. ASSUME NEW t \in Targets, NEW u \in Targets, Alone(t), u # t
      PROVE  {Destination(u), Temp(u)} \cap {Destination(t), Temp(t)} = {}
  BY <1>2, <1>3 DEF Alone
<1> QED
  BY <1>1, <1>2, <1>3, PathFacts, OptionsStay DEF options

\* A reported target whose two paths read as before is stored, or left, as
\* before.
LEMMA StoredStays ==
  ASSUME IInv, UNCHANGED options, NEW t \in Targets,
         state[t] = "finished", Alone(t), Destination(t) # NoPath,
         Read(Destination(t))' = Read(Destination(t)), Read(Temp(t))' = Read(Temp(t))
  PROVE  StoredOrLeft(t)'
<1>1. StoredOrLeft(t)
  BY DEF IInv, AloneIsWhole
<1>2. asked'[t] = asked[t] /\ blocked' = blocked /\ Destination(t)' = Destination(t)
  BY HomeFacts
<1> QED
  BY <1>1, <1>2 DEF StoredOrLeft, Whole

LEMMA BeginIInv == IInv /\ Begin => IInv'
<1> SUFFICES ASSUME IInv, Begin PROVE IInv'
  OBVIOUS
<1>0. UNCHANGED options /\ UNCHANGED <<retries, disk, content, handle>> /\ phase' = "loop"
  BY DEF Begin
<1> USE HomeFacts, <1>0
<1>1. \A t \in Targets : state[t] = "waiting" /\ state'[t] \in {"waiting", "finished"}
  BY DEF IInv, AllWaitAtFirst, Begin
<1>2. \A p : Exists(p)' = Exists(p) /\ Read(p)' = Read(p)
  BY DEF Exists, Read
<1>3. UNCHANGED <<Paths, Inodes, Targets>>
  BY DEF Paths, Inodes, Targets
<1>4. TypeOK'
  BY <1>1, <1>3 DEF IInv, TypeOK, Begin, options
<1>5. AllWaitAtFirst' /\ LoneFilesApart' /\ LoneTempsBegun'
  BY <1>1 DEF AllWaitAtFirst, LoneFilesApart, LoneTempsBegun
<1>6. PathsAreTargets' /\ OneName'
  BY <1>2, <1>3 DEF IInv, PathsAreTargets, OneName
<1>7. TempsAreOpen'
  BY <1>1, <1>2 DEF IInv, TempsAreOpen
<1>8. AloneIsWhole'
  <2>1. SUFFICES ASSUME NEW t \in Targets, state'[t] = "finished"
                 PROVE  StoredOrLeft(t)'
    BY DEF AloneIsWhole
  <2>2. AlreadyDownloaded(t)
    BY <1>1, <2>1 DEF Begin
  <2>3. Read(Destination(t)) = Whole(asked[t].file)
    BY <2>2 DEF AlreadyDownloaded, Valid
  <2> QED
    BY <1>2, <2>3 DEF StoredOrLeft, Whole
<1> QED
  BY <1>4, <1>5, <1>6, <1>7, <1>8 DEF IInv

LEMMA StartIInv == ASSUME IInv, NEW t \in Targets, Start(t) PROVE IInv'
<1>0. UNCHANGED options /\ phase' = "loop" /\ state[t] = "waiting"
  BY DEF Start
<1> USE HomeFacts, <1>0
<1>1. PICK i \in Inodes :
        /\ i = IF Exists(Temp(t)) THEN disk[Temp(t)] ELSE CHOOSE j \in Inodes \ Used : TRUE
        /\ content' = [content EXCEPT ![i] = <<>>]
        /\ disk' = [disk EXCEPT ![Temp(t)] = i]
        /\ handle' = [handle EXCEPT ![t] = [inode |-> i, pos |-> 0]]
  BY DEF Start
<1>2. /\ state \in [Targets -> {"waiting", "running", "finished", "failed"}]
      /\ disk \in [Paths -> {NoInode} \cup Inodes] /\ content \in [Inodes -> Seq(0..Files)]
      /\ handle \in [Targets -> [inode : {NoInode} \cup Inodes, pos : 0..Blocks]]
      /\ \A u \in Targets : handle[u].inode # NoInode <=> state[u] = "running"
      /\ NoInode \notin Inodes
  BY InodeFacts DEF IInv, TypeOK
<1>3. /\ disk'[Temp(t)] = i /\ \A p \in Paths : p # Temp(t) => disk'[p] = disk[p]
      /\ handle'[t] = [inode |-> i, pos |-> 0]
      /\ \A u \in Targets : u # t => handle'[u] = handle[u]
      /\ content'[i] = <<>> /\ \A j \in Inodes : j # i => content'[j] = content[j]
      /\ state'[t] = "running" /\ \A u \in Targets : u # t => state'[u] = state[u]
  BY <1>1, <1>2 DEF Start
\* No other path names the inode, and who holds it knows the temporary file.
<1>4. \A p \in Paths : p # Temp(t) => disk[p] # i
  <2>1. CASE Exists(Temp(t))
    BY <1>1, <2>1 DEF IInv, OneName
  <2>2. CASE ~Exists(Temp(t))
    BY <1>1, <2>2, FreeInode DEF Used
  <2> QED
    BY <2>1, <2>2
<1>5. ASSUME NEW u \in Targets, handle[u].inode = i PROVE Exists(Temp(t)) /\ disk[Temp(t)] = i
  <2>1. CASE Exists(Temp(t))
    BY <1>1, <2>1
  <2>2. CASE ~Exists(Temp(t))
    BY <1>1, <1>5, <2>2, FreeInode DEF Used
  <2> QED
    BY <2>1, <2>2
<1>6. UNCHANGED <<Paths, Inodes, Targets>>
  BY DEF Paths, Inodes, Targets
<1>7. TypeOK'
  <2>1. 0 \in 0..Blocks /\ 0 <= Blocks
    BY SharedConstantsOk
  <2>2. content' \in [Inodes -> Seq(0..Files)] /\ \A j \in Inodes : Len(content'[j]) <= Blocks
    BY <1>1, <1>2, <1>3, <2>1, EmptyFile DEF IInv, TypeOK
  <2>3. disk' \in [Paths -> {NoInode} \cup Inodes]
    BY <1>1, <1>2
  <2>4. handle' \in [Targets -> [inode : {NoInode} \cup Inodes, pos : 0..Blocks]]
    BY <1>1, <1>2, <2>1
  <2>5. ASSUME NEW u \in Targets PROVE handle'[u].inode # NoInode <=> state'[u] = "running"
    <3>1. CASE u = t
      <4>1. handle'[t].inode = i /\ state'[t] = "running"
        BY <1>3
      <4>2. i # NoInode
        BY <1>2
      <4> QED
        BY <3>1, <4>1, <4>2
    <3>2. CASE u # t
      BY <1>2, <1>3, <3>2
    <3> QED
      BY <3>1, <3>2
  <2>6. UNCHANGED <<options, retries>> /\ state' = [state EXCEPT ![t] = "running"]
    BY DEF Start
  <2> QED
    BY <1>2, <1>6, <2>2, <2>3, <2>4, <2>5, <2>6 DEF IInv, TypeOK, options
<1>8. AllWaitAtFirst'
  BY DEF AllWaitAtFirst
<1>9. PathsAreTargets'
  BY <1>3, <1>6 DEF IInv, PathsAreTargets, Exists
<1>10. OneName'
  BY <1>2, <1>3, <1>4, <1>6 DEF IInv, OneName, Exists
<1>11. LoneFilesApart'
  <2>1. SUFFICES ASSUME NEW u \in Targets, Alone(u), NEW v \in Targets \ {u},
                        state'[v] = "running", NEW p \in {Destination(u), Temp(u)}
                 PROVE  handle'[v].inode # disk'[p]
    BY DEF LoneFilesApart
  <2>2. p \in Paths
    BY <2>1
  <2>3. CASE v = t
    <3>1. p # Temp(t)
      BY <2>1, <2>3
    <3> QED
      BY <1>3, <1>4, <2>2, <2>3, <3>1
  <2>4. CASE v # t
    <3>1. state[v] = "running" /\ handle'[v] = handle[v] /\ handle[v].inode # disk[p]
      BY <1>3, <2>1, <2>4 DEF IInv, LoneFilesApart
    <3>2. CASE p = Temp(t)
      BY <1>3, <1>5, <3>1, <3>2
    <3>3. CASE p # Temp(t)
      BY <1>3, <2>2, <3>1, <3>3
    <3> QED
      BY <3>2, <3>3
  <2> QED
    BY <2>3, <2>4
<1>12. TempsAreOpen'
  <2>1. SUFFICES ASSUME NEW u \in Targets, disk'[Temp(u)] # NoInode, Temp(u) \notin Destinations,
                        Destination(u) \notin blocked \cup {NoPath}
                 PROVE  \E v \in Targets : state'[v] = "running" /\ Temp(v) = Temp(u)
    BY DEF TempsAreOpen, Exists
  <2>2. CASE Temp(u) = Temp(t)
    BY <1>3, <2>2
  <2>3. CASE Temp(u) # Temp(t)
    <3>1. disk'[Temp(u)] = disk[Temp(u)]
      BY <1>3, <2>3
    <3>2. PICK v \in Targets : state[v] = "running" /\ Temp(v) = Temp(u)
      BY <2>1, <3>1 DEF IInv, TempsAreOpen, Exists
    <3> QED
      BY <1>3, <3>2
  <2> QED
    BY <2>2, <2>3
<1>13. LoneTempsBegun'
  <2>1. SUFFICES ASSUME NEW u \in Targets, state'[u] = "running", Alone(u)
                 PROVE  /\ disk'[Temp(u)] = handle'[u].inode
                        /\ Begun(content'[handle'[u].inode], asked[u].file, handle'[u].pos)
    BY DEF LoneTempsBegun, Begun
  <2>2. CASE u = t
    BY <1>3, <2>2, NothingBegun
  <2>3. CASE u # t
    <3>1. /\ state[u] = "running" /\ disk[Temp(u)] = handle[u].inode
          /\ Begun(content[handle[u].inode], asked[u].file, handle[u].pos)
      BY <1>3, <2>1, <2>3 DEF IInv, LoneTempsBegun
    <3>2. Temp(u) # Temp(t)
      BY <2>1, <2>3
    <3>3. handle[u].inode \in Inodes /\ handle[u].inode # i
      BY <1>2, <1>4, <3>1, <3>2
    <3> QED
      BY <1>3, <2>3, <3>1, <3>2, <3>3
  <2> QED
    BY <2>2, <2>3
<1>14. AloneIsWhole'
  <2>1. SUFFICES ASSUME NEW u \in Targets, state'[u] = "finished", Alone(u), Destination(u) # NoPath
                 PROVE  StoredOrLeft(u)'
    BY DEF AloneIsWhole
  <2>2. u # t /\ state[u] = "finished"
    BY <1>3, <2>1
  <2>3. ASSUME NEW p \in {Destination(u), Temp(u)} PROVE Read(p)' = Read(p)
    <3>1. p \in Paths /\ p # Temp(t)
      BY <2>1, <2>2
    <3>2. disk'[p] = disk[p] /\ disk[p] # i /\ disk[p] \in {NoInode} \cup Inodes
      BY <1>2, <1>3, <1>4, <3>1
    <3> QED
      BY <1>3, <3>2 DEF Read, Exists
  <2>4. Read(Destination(u))' = Read(Destination(u)) /\ Read(Temp(u))' = Read(Temp(u))
    BY <2>3 DEF Read, Exists
  <2> QED
    BY <2>1, <2>2, <2>4, StoredStays
<1> QED
  BY <1>7, <1>8, <1>9, <1>10, <1>11, <1>12, <1>13, <1>14 DEF IInv

LEMMA ReceiveIInv == ASSUME IInv, NEW t \in Targets, Receive(t) PROVE IInv'
<1> DEFINE i == handle[t].inode
           pos == handle[t].pos
<1>0. /\ UNCHANGED <<options, phase, state, retries, disk>> /\ phase = "loop"
      /\ state[t] = "running" /\ pos < Blocks
      /\ content' = [content EXCEPT ![i] = Written(@, pos + 1, asked[t].file)]
      /\ handle' = [handle EXCEPT ![t].pos = @ + 1]
  BY DEF Receive, options
<1>1. UNCHANGED options
  BY <1>0
<1> USE HomeFacts, <1>1
<1>2. /\ disk \in [Paths -> {NoInode} \cup Inodes] /\ content \in [Inodes -> Seq(0..Files)]
      /\ \A j \in Inodes : Len(content[j]) <= Blocks
      /\ handle \in [Targets -> [inode : {NoInode} \cup Inodes, pos : 0..Blocks]]
      /\ \A u \in Targets : handle[u].inode # NoInode <=> state[u] = "running"
      /\ NoInode \notin Inodes
  BY InodeFacts DEF IInv, TypeOK
<1>3. i \in Inodes /\ pos \in 0..Blocks /\ pos + 1 \in 1..Blocks /\ pos + 1 \in 0..Blocks
  BY <1>0, <1>2, SharedConstantsOk
<1>4. /\ content'[i] = Written(content[i], pos + 1, asked[t].file)
      /\ \A j \in Inodes : j # i => content'[j] = content[j]
      /\ handle'[t] = [inode |-> i, pos |-> pos + 1]
      /\ \A u \in Targets : handle'[u].inode = handle[u].inode
      /\ \A u \in Targets : u # t => handle'[u] = handle[u]
  BY <1>0, <1>2, <1>3
<1>5. /\ content'[i] \in Seq(0..Files) /\ Len(content'[i]) <= Blocks
      /\ Begun(content[i], asked[t].file, pos) => Begun(content'[i], asked[t].file, pos + 1)
  <2>1. pos + 1 - 1 = pos
    BY <1>3
  <2> HIDE DEF i, pos
  <2> QED
    BY <1>2, <1>3, <1>4, <2>1, WrittenType
<1> HIDE DEF i, pos
<1>6. UNCHANGED <<Paths, Inodes, Targets>>
  BY DEF Paths, Inodes, Targets
<1>7. TypeOK'
  <2>1. content' \in [Inodes -> Seq(0..Files)] /\ \A j \in Inodes : Len(content'[j]) <= Blocks
    BY <1>0, <1>2, <1>3, <1>4, <1>5
  <2>2. handle' \in [Targets -> [inode : {NoInode} \cup Inodes, pos : 0..Blocks]]
    BY <1>0, <1>2, <1>3, <1>4
  <2> QED
    BY <1>0, <1>2, <1>4, <1>6, <2>1, <2>2 DEF IInv, TypeOK, options
<1>8. AllWaitAtFirst'
  BY <1>0 DEF AllWaitAtFirst
<1>9. PathsAreTargets' /\ OneName'
  BY <1>0, <1>6 DEF IInv, PathsAreTargets, OneName, Exists
<1>10. LoneFilesApart' /\ TempsAreOpen'
  BY <1>0, <1>4 DEF IInv, LoneFilesApart, TempsAreOpen, Exists
\* The other targets that are alone do not see what is written.
<1>11. ASSUME NEW u \in Targets, u # t, Alone(u)
       PROVE  disk[Temp(u)] # i /\ disk[Destination(u)] # i
  BY <1>0, <1>11 DEF i, IInv, LoneFilesApart
<1>12. LoneTempsBegun'
  <2>1. SUFFICES ASSUME NEW u \in Targets, state[u] = "running", Alone(u)
                 PROVE  /\ disk[Temp(u)] = handle[u].inode
                        /\ Begun(content'[handle[u].inode], asked[u].file, handle'[u].pos)
    BY <1>0, <1>4 DEF LoneTempsBegun, Begun
  <2>2. /\ disk[Temp(u)] = handle[u].inode
        /\ Begun(content[handle[u].inode], asked[u].file, handle[u].pos)
    BY <2>1 DEF IInv, LoneTempsBegun
  <2>3. CASE u = t
    BY <1>4, <1>5, <2>2, <2>3 DEF i, pos
  <2>4. CASE u # t
    BY <1>2, <1>4, <1>11, <2>1, <2>2, <2>4
  <2> QED
    BY <2>3, <2>4
<1>13. AloneIsWhole'
  <2>1. SUFFICES ASSUME NEW u \in Targets, state[u] = "finished", Alone(u), Destination(u) # NoPath
                 PROVE  StoredOrLeft(u)'
    BY <1>0 DEF AloneIsWhole
  <2>2. u # t
    BY <1>0, <2>1
  <2>3. Read(Destination(u))' = Read(Destination(u)) /\ Read(Temp(u))' = Read(Temp(u))
    BY <1>0, <1>2, <1>4, <1>11, <2>1, <2>2 DEF Read, Exists
  <2> QED
    BY <2>1, <2>3, StoredStays
<1> QED
  BY <1>7, <1>8, <1>9, <1>10, <1>12, <1>13 DEF IInv

\* When a target that ran is over the others keep their handles, and what
\* these hold is kept.
LEMMA ClosedFacts ==
  ASSUME IInv, NEW t \in Targets, state[t] = "running",
         handle' = Closed(t), content' = Kept(content)
  PROVE  /\ handle'[t] = [inode |-> NoInode, pos |-> 0]
         /\ \A u \in Targets : u # t => handle'[u] = handle[u]
         /\ handle' \in [Targets -> [inode : {NoInode} \cup Inodes, pos : 0..Blocks]]
         /\ content' \in [Inodes -> Seq(0..Files)]
         /\ \A j \in Inodes : Len(content'[j]) <= Blocks
         /\ \A u \in Targets : handle'[u].inode \in Inodes =>
              content'[handle'[u].inode] = content[handle'[u].inode]
<1>1. /\ content \in [Inodes -> Seq(0..Files)]
      /\ \A j \in Inodes : Len(content[j]) <= Blocks
      /\ handle \in [Targets -> [inode : {NoInode} \cup Inodes, pos : 0..Blocks]]
  BY DEF IInv, TypeOK
<1>2. 0 \in 0..Blocks /\ 0 <= Blocks
  BY SharedConstantsOk
<1>3. /\ handle'[t] = [inode |-> NoInode, pos |-> 0]
      /\ \A u \in Targets : u # t => handle'[u] = handle[u]
      /\ handle' \in [Targets -> [inode : {NoInode} \cup Inodes, pos : 0..Blocks]]
  BY <1>1, <1>2 DEF Closed
<1>4. /\ content' \in [Inodes -> Seq(0..Files)]
      /\ \A j \in Inodes : Len(content'[j]) <= Blocks
  BY <1>1, <1>2, EmptyFile DEF Kept
<1>5. \A u \in Targets : handle'[u].inode \in Used'
  BY DEF Used
<1>6. \A u \in Targets : handle'[u].inode \in Inodes =>
        content'[handle'[u].inode] = content[handle'[u].inode]
  BY <1>5 DEF Kept
<1> QED
  BY <1>3, <1>4, <1>6

LEMMA GiveUpIInv ==
  ASSUME IInv, NEW t \in Targets, GiveUp(t), UNCHANGED <<options, phase>>,
         phase = "loop", state[t] = "running"
  PROVE  IInv'
<1>0. /\ UNCHANGED options /\ handle' = Closed(t) /\ content' = Kept(content)
      /\ disk' = [disk EXCEPT ![Temp(t)] = NoInode]
  BY DEF GiveUp, Removed
<1> USE HomeFacts, <1>0
<1>1. /\ state \in [Targets -> {"waiting", "running", "finished", "failed"}]
      /\ retries \in [Targets -> 0..MaxRetries]
      /\ disk \in [Paths -> {NoInode} \cup Inodes] /\ content \in [Inodes -> Seq(0..Files)]
      /\ \A u \in Targets : handle[u].inode # NoInode <=> state[u] = "running"
      /\ \A u \in Targets : handle[u].inode \in {NoInode} \cup Inodes
      /\ NoInode \notin Inodes
  BY InodeFacts DEF IInv, TypeOK
<1>2. /\ disk'[Temp(t)] = NoInode /\ \A p \in Paths : p # Temp(t) => disk'[p] = disk[p]
      /\ disk' \in [Paths -> {NoInode} \cup Inodes]
  BY <1>1
<1>3. /\ state'[t] \in {"waiting", "failed"} /\ \A u \in Targets : u # t => state'[u] = state[u]
      /\ state' \in [Targets -> {"waiting", "running", "finished", "failed"}]
      /\ retries' \in [Targets -> 0..MaxRetries]
  <2>1. CASE retries[t] < MaxRetries /\ state' = [state EXCEPT ![t] = "waiting"]
               /\ retries' = [retries EXCEPT ![t] = @ + 1]
    <3>1. retries[t] + 1 \in 0..MaxRetries
      BY <1>1, <2>1, SharedConstantsOk
    <3> QED
      BY <1>1, <2>1, <3>1
  <2>2. CASE state' = [state EXCEPT ![t] = "failed"] /\ retries' = retries
    BY <1>1, <2>2
  <2> QED
    BY <2>1, <2>2 DEF GiveUp
<1>4. /\ handle'[t] = [inode |-> NoInode, pos |-> 0]
      /\ \A u \in Targets : u # t => handle'[u] = handle[u]
      /\ \A u \in Targets : handle'[u].inode \in Inodes =>
           content'[handle'[u].inode] = content[handle'[u].inode]
  BY ClosedFacts
<1>5. UNCHANGED <<Paths, Inodes, Targets>>
  BY DEF Paths, Inodes, Targets
<1>6. TypeOK'
  <2>1. \A u \in Targets : handle'[u].inode # NoInode <=> state'[u] = "running"
    <3>1. handle'[t].inode = NoInode /\ state'[t] # "running"
      BY <1>3, <1>4
    <3>2. ASSUME NEW u \in Targets, u # t
          PROVE  handle'[u].inode # NoInode <=> state'[u] = "running"
      <4>1. handle'[u] = handle[u] /\ state'[u] = state[u]
        BY <1>3, <1>4, <3>2
      <4> QED
        BY <1>1, <4>1
    <3> QED
      BY <3>1, <3>2
  <2>2. /\ handle' \in [Targets -> [inode : {NoInode} \cup Inodes, pos : 0..Blocks]]
        /\ content' \in [Inodes -> Seq(0..Files)]
        /\ \A j \in Inodes : Len(content'[j]) <= Blocks
    BY ClosedFacts
  <2> QED
    BY <1>2, <1>3, <1>5, <2>1, <2>2 DEF IInv, TypeOK, options
<1>7. AllWaitAtFirst'
  BY DEF AllWaitAtFirst
<1>8. PathsAreTargets' /\ OneName'
  BY <1>2, <1>5 DEF IInv, PathsAreTargets, OneName, Exists
\* The targets that run are others.
<1>9. \A u \in Targets : state'[u] = "running" =>
        /\ u # t /\ state[u] = "running" /\ handle'[u] = handle[u]
        /\ handle[u].inode \in Inodes /\ handle[u].inode # NoInode
  BY <1>1, <1>3, <1>4
<1>10. LoneFilesApart'
  BY <1>2, <1>9 DEF IInv, LoneFilesApart
<1>11. TempsAreOpen'
  <2>1. SUFFICES ASSUME NEW u \in Targets, disk'[Temp(u)] # NoInode, Temp(u) \notin Destinations,
                        Destination(u) \notin blocked \cup {NoPath}
                 PROVE  \E v \in Targets : state'[v] = "running" /\ Temp(v) = Temp(u)
    BY DEF TempsAreOpen, Exists
  <2>2. Temp(u) # Temp(t) /\ disk'[Temp(u)] = disk[Temp(u)]
    BY <1>2, <2>1
  <2>3. PICK v \in Targets : state[v] = "running" /\ Temp(v) = Temp(u)
    BY <2>1, <2>2 DEF IInv, TempsAreOpen, Exists
  <2> QED
    BY <1>3, <2>2, <2>3
<1>12. LoneTempsBegun'
  <2>1. SUFFICES ASSUME NEW u \in Targets, state'[u] = "running", Alone(u)
                 PROVE  /\ disk'[Temp(u)] = handle'[u].inode
                        /\ Begun(content'[handle'[u].inode], asked[u].file, handle'[u].pos)
    BY DEF LoneTempsBegun, Begun
  <2>2. /\ disk[Temp(u)] = handle[u].inode
        /\ Begun(content[handle[u].inode], asked[u].file, handle[u].pos)
    BY <1>9, <2>1 DEF IInv, LoneTempsBegun
  <2>3. Temp(u) # Temp(t)
    BY <1>9, <2>1
  <2> QED
    BY <1>2, <1>4, <1>9, <2>1, <2>2, <2>3
<1>13. AloneIsWhole'
  <2>1. SUFFICES ASSUME NEW u \in Targets, state'[u] = "finished", Alone(u), Destination(u) # NoPath
                 PROVE  StoredOrLeft(u)'
    BY DEF AloneIsWhole
  <2>2. state[u] = "finished" /\ u # t
    BY <1>3, <2>1
  <2>3. disk'[Destination(u)] = disk[Destination(u)] /\ disk'[Temp(u)] = disk[Temp(u)]
    BY <1>2, <2>1, <2>2
  <2>4. Read(Destination(u))' = Read(Destination(u)) /\ Read(Temp(u))' = Read(Temp(u))
    BY <1>1, <1>2, <2>3, KeptRead DEF Read, Exists
  <2> QED
    BY <2>1, <2>2, <2>4, StoredStays
<1> QED
  BY <1>6, <1>7, <1>8, <1>10, <1>11, <1>12, <1>13 DEF IInv

\* A target that completes: what was put to its destination, or that nothing
\* was renamed.
LEMMA CompleteIInv == ASSUME IInv, NEW t \in Targets, Complete(t) PROVE IInv'
<1>0. /\ UNCHANGED <<options, phase, retries>> /\ handle' = Closed(t) /\ content' = Kept(content)
      /\ disk' = Renamed(t) /\ phase = "loop" /\ state[t] = "running"
      /\ handle[t].pos = Blocks /\ state' = [state EXCEPT ![t] = "finished"]
  BY DEF Complete, Delivered
<1>a. UNCHANGED options
  BY <1>0
<1> USE HomeFacts, <1>a
<1>1. /\ state \in [Targets -> {"waiting", "running", "finished", "failed"}]
      /\ disk \in [Paths -> {NoInode} \cup Inodes] /\ content \in [Inodes -> Seq(0..Files)]
      /\ \A u \in Targets : handle[u].inode # NoInode <=> state[u] = "running"
      /\ \A u \in Targets : handle[u].inode \in {NoInode} \cup Inodes
      /\ NoInode \notin Inodes
  BY InodeFacts DEF IInv, TypeOK
<1> DEFINE renamed == Exists(Temp(t)) /\ Destination(t) \notin blocked \cup {NoPath}
<1>2. /\ renamed =>
           /\ disk'[Destination(t)] = disk[Temp(t)] /\ disk'[Temp(t)] = NoInode
           /\ disk[Temp(t)] \in Inodes
           /\ \A p \in Paths : p \notin {Destination(t), Temp(t)} => disk'[p] = disk[p]
      /\ ~renamed => disk' = disk
      /\ disk' \in [Paths -> {NoInode} \cup Inodes]
  BY <1>0, <1>1 DEF Renamed, Exists
<1>3. /\ state'[t] = "finished" /\ \A u \in Targets : u # t => state'[u] = state[u]
      /\ state' \in [Targets -> {"waiting", "running", "finished", "failed"}]
  BY <1>0, <1>1
<1>4. /\ handle'[t] = [inode |-> NoInode, pos |-> 0]
      /\ \A u \in Targets : u # t => handle'[u] = handle[u]
      /\ \A u \in Targets : handle'[u].inode \in Inodes =>
           content'[handle'[u].inode] = content[handle'[u].inode]
  BY <1>0, ClosedFacts
<1>5. UNCHANGED <<Paths, Inodes, Targets>>
  BY DEF Paths, Inodes, Targets
<1>6. TypeOK'
  <2>1. \A u \in Targets : handle'[u].inode # NoInode <=> state'[u] = "running"
    BY <1>1, <1>3, <1>4
  <2>2. /\ handle' \in [Targets -> [inode : {NoInode} \cup Inodes, pos : 0..Blocks]]
        /\ content' \in [Inodes -> Seq(0..Files)]
        /\ \A j \in Inodes : Len(content'[j]) <= Blocks
    BY <1>0, ClosedFacts
  <2> HIDE DEF renamed
  <2> QED
    BY <1>0, <1>2, <1>3, <1>5, <2>1, <2>2 DEF IInv, TypeOK, options
<1>7. AllWaitAtFirst'
  BY <1>0 DEF AllWaitAtFirst
<1>8. PathsAreTargets'
  <2>1. CASE renamed
    BY <1>2, <1>5, <2>1 DEF IInv, PathsAreTargets, Exists
  <2>2. CASE ~renamed
    BY <1>2, <1>5, <2>2 DEF IInv, PathsAreTargets, Exists
  <2> QED
    BY <2>1, <2>2
<1>9. OneName'
  <2>1. SUFFICES ASSUME NEW p \in Paths, NEW q \in Paths, disk'[p] # NoInode, disk'[q] = disk'[p]
                 PROVE  q = p
    BY <1>5 DEF OneName, Exists
  <2>2. \A r, s \in Paths : disk[r] # NoInode /\ disk[s] = disk[r] => s = r
    BY DEF IInv, OneName, Exists
  <2>3. CASE renamed
    <3>1. p # Temp(t) /\ q # Temp(t)
      BY <1>2, <2>1, <2>3
    <3>2. CASE p = Destination(t) /\ q # Destination(t)
      <4>1. disk[q] = disk[Temp(t)] /\ disk[q] # NoInode
        BY <1>2, <2>1, <2>3, <3>1, <3>2
      <4> QED
        BY <2>2, <3>1, <4>1
    <3>3. CASE p # Destination(t) /\ q = Destination(t)
      <4>1. disk[p] = disk[Temp(t)] /\ disk[p] # NoInode
        BY <1>2, <2>1, <2>3, <3>1, <3>3
      <4> QED
        BY <2>2, <3>1, <4>1
    <3>4. CASE p # Destination(t) /\ q # Destination(t)
      BY <1>2, <2>1, <2>2, <2>3, <3>1, <3>4
    <3> QED
      BY <3>2, <3>3, <3>4
  <2>4. CASE ~renamed
    BY <1>2, <2>1, <2>2, <2>4
  <2> QED
    BY <2>3, <2>4
\* The targets that run are others.
<1>10. \A u \in Targets : state'[u] = "running" =>
        /\ u # t /\ state[u] = "running" /\ handle'[u] = handle[u]
        /\ handle[u].inode \in Inodes /\ handle[u].inode # NoInode
  BY <1>1, <1>3, <1>4
\* The paths of another target that is alone keep their inodes.
<1>11. ASSUME NEW u \in Targets, u # t, Alone(u)
       PROVE  disk'[Destination(u)] = disk[Destination(u)] /\ disk'[Temp(u)] = disk[Temp(u)]
  <2>1. {Destination(u), Temp(u)} \cap {Destination(t), Temp(t)} = {}
    BY <1>11
  <2> QED
    BY <1>2, <2>1
<1>12. LoneFilesApart'
  <2>1. SUFFICES ASSUME NEW u \in Targets, Alone(u), NEW v \in Targets \ {u}, state'[v] = "running"
                 PROVE  /\ handle[v].inode # disk'[Destination(u)]
                        /\ handle[v].inode # disk'[Temp(u)]
    BY <1>10 DEF LoneFilesApart
  <2>2. /\ handle[v].inode # disk[Destination(u)] /\ handle[v].inode # disk[Temp(u)]
        /\ handle[v].inode # NoInode
    BY <1>10, <2>1 DEF IInv, LoneFilesApart
  <2>3. CASE u = t
    BY <1>2, <2>2, <2>3
  <2>4. CASE u # t
    BY <1>11, <2>1, <2>2, <2>4
  <2> QED
    BY <2>3, <2>4
<1>13. TempsAreOpen'
  <2>1. SUFFICES ASSUME NEW u \in Targets, disk'[Temp(u)] # NoInode, Temp(u) \notin Destinations,
                        Destination(u) \notin blocked \cup {NoPath}
                 PROVE  \E v \in Targets : state'[v] = "running" /\ Temp(v) = Temp(u)
    BY DEF TempsAreOpen, Exists
  <2>2. disk'[Temp(u)] = disk[Temp(u)]
    <3>1. CASE renamed
      <4>1. Temp(u) # Temp(t)
        BY <1>2, <2>1, <3>1
      <4>2. Temp(u) # Destination(t)
        BY <2>1, <3>1 DEF Destinations
      <4> QED
        BY <1>2, <3>1, <4>1, <4>2
    <3>2. CASE ~renamed
      BY <1>2, <3>2
    <3> QED
      BY <3>1, <3>2
  <2>3. PICK v \in Targets : state[v] = "running" /\ Temp(v) = Temp(u)
    BY <2>1, <2>2 DEF IInv, TempsAreOpen, Exists
  <2>4. v # t
    <3>1. SUFFICES ASSUME v = t PROVE FALSE
      OBVIOUS
    <3>2. Temp(t) = Temp(u) /\ Destination(t) = Destination(u)
      BY <2>3, <3>1
    <3>3. renamed
      BY <2>1, <2>2, <3>2 DEF Exists
    <3> QED
      BY <1>2, <2>1, <3>2, <3>3
  <2> QED
    BY <1>3, <2>3, <2>4
<1>14. LoneTempsBegun'
  <2>1. SUFFICES ASSUME NEW u \in Targets, state'[u] = "running", Alone(u)
                 PROVE  /\ disk'[Temp(u)] = handle'[u].inode
                        /\ Begun(content'[handle'[u].inode], asked[u].file, handle'[u].pos)
    BY DEF LoneTempsBegun, Begun
  <2>2. /\ disk[Temp(u)] = handle[u].inode
        /\ Begun(content[handle[u].inode], asked[u].file, handle[u].pos)
    BY <1>10, <2>1 DEF IInv, LoneTempsBegun
  <2>3. disk'[Temp(u)] = disk[Temp(u)]
    BY <1>10, <1>11, <2>1
  <2> QED
    BY <1>4, <1>10, <2>1, <2>2, <2>3
<1>15. AloneIsWhole'
  <2>1. SUFFICES ASSUME NEW u \in Targets, state'[u] = "finished", Alone(u), Destination(u) # NoPath
                 PROVE  StoredOrLeft(u)'
    BY DEF AloneIsWhole
  <2>2. CASE u = t
    <3>1. /\ disk[Temp(t)] = handle[t].inode /\ handle[t].inode \in Inodes
          /\ Begun(content[handle[t].inode], asked[t].file, Blocks)
      BY <1>0, <1>1, <2>1, <2>2 DEF IInv, LoneTempsBegun
    <3>2. content[disk[Temp(t)]] = Whole(asked[t].file) /\ Exists(Temp(t))
      BY <1>1, <3>1, WholeBegun DEF Exists
    <3>3. CASE renamed
      <4>1. disk'[Destination(t)] = disk[Temp(t)] /\ disk[Temp(t)] \in Inodes
        BY <1>2, <3>3
      <4>2. content'[disk[Temp(t)]] = content[disk[Temp(t)]]
        BY <1>0, <1>1, <1>2, <4>1, KeptRead
      <4>3. Read(Destination(t))' = Whole(asked[t].file)
        BY <1>1, <3>2, <4>1, <4>2 DEF Read, Exists
      <4> QED
        BY <2>2, <4>3 DEF StoredOrLeft, Whole
    <3>4. CASE ~renamed
      <4>1. Destination(t) \in blocked
        BY <2>1, <2>2, <3>2, <3>4
      <4>2. disk'[Temp(t)] = disk[Temp(t)]
        BY <1>2, <3>4
      <4>3. Read(Temp(t))' = Whole(asked[t].file)
        BY <1>0, <1>1, <1>2, <3>1, <3>2, <4>2, KeptRead DEF Read, Exists
      <4> QED
        BY <2>2, <4>1, <4>3 DEF StoredOrLeft, Whole
    <3> QED
      BY <3>3, <3>4
  <2>3. CASE u # t
    <3>1. state[u] = "finished"
      BY <1>3, <2>1, <2>3
    <3>2. disk'[Destination(u)] = disk[Destination(u)] /\ disk'[Temp(u)] = disk[Temp(u)]
      BY <1>11, <2>1, <2>3
    <3>3. Read(Destination(u))' = Read(Destination(u)) /\ Read(Temp(u))' = Read(Temp(u))
      BY <1>0, <1>1, <1>2, <3>2, KeptRead DEF Read, Exists
    <3> QED
      BY <2>1, <3>1, <3>3, StoredStays
  <2> QED
    BY <2>2, <2>3
<1> QED
  BY <1>6, <1>7, <1>8, <1>9, <1>12, <1>13, <1>14, <1>15 DEF IInv

\* The program that stops, or stays, changes nothing but its phase.
LEMMA StopIInv ==
  ASSUME IInv, UNCHANGED <<options, state, retries, disk, content, handle>>,
         phase' \in {phase, "crashed"}
  PROVE  IInv'
<1>0. UNCHANGED options /\ UNCHANGED <<state, retries, disk, content, handle>>
  OBVIOUS
<1>1. UNCHANGED <<Paths, Inodes, Targets>>
  BY DEF Paths, Inodes, Targets
<1>2. TypeOK' /\ AllWaitAtFirst'
  BY <1>1 DEF IInv, TypeOK, AllWaitAtFirst, options
<1> USE HomeFacts, <1>0
<1>3. PathsAreTargets' /\ OneName'
  BY <1>1 DEF IInv, PathsAreTargets, OneName, Exists
<1>4. LoneFilesApart' /\ TempsAreOpen'
  BY DEF IInv, LoneFilesApart, TempsAreOpen, Exists
<1>5. LoneTempsBegun'
  BY DEF IInv, LoneTempsBegun, Begun
<1>6. AloneIsWhole'
  <2>1. \A u \in Targets : /\ Read(Destination(u))' = Read(Destination(u))
                           /\ Read(Temp(u))' = Read(Temp(u))
    BY DEF Read, Exists
  <2> QED
    BY <2>1, StoredStays DEF AloneIsWhole
<1> QED
  BY <1>2, <1>3, <1>4, <1>5, <1>6 DEF IInv

LEMMA NextIInv == IInv /\ [Next]_vars => IInv'
<1> SUFFICES ASSUME IInv, [Next]_vars PROVE IInv'
  OBVIOUS
<1>1. CASE Begin
  BY <1>1, BeginIInv
<1>2. ASSUME NEW t \in Targets, Start(t) PROVE IInv'
  BY <1>2, StartIInv
<1>3. ASSUME NEW t \in Targets, Receive(t) PROVE IInv'
  BY <1>3, ReceiveIInv
<1>4. ASSUME NEW t \in Targets, Complete(t) PROVE IInv'
  BY <1>4, CompleteIInv
<1>5. ASSUME NEW t \in Targets, Rejected(t) \/ Break(t) PROVE IInv'
  BY <1>5, GiveUpIInv DEF Rejected, Break, Delivered
<1>6. ASSUME NEW t \in Targets, OpenThrows(t) \/ FinishThrows(t) PROVE IInv'
  BY <1>6, StopIInv DEF OpenThrows, FinishThrows
<1>7. CASE Terminated
  BY <1>7, StopIInv DEF Terminated, vars, options
<1>8. CASE UNCHANGED vars
  BY <1>8, StopIInv DEF vars, options
<1> QED
  BY <1>1, <1>2, <1>3, <1>4, <1>5, <1>6, <1>7, <1>8 DEF Next

-----------------------------------------------------------------------------
\* Every reachable state satisfies the inductive invariant: in particular no
\* two paths name one file, and what is at the paths of a target alone there is
\* open in no other one (open_target_file, reset_file, finalize_transfer).
THEOREM Reachable == Spec => []IInv
<1> QED
  BY InitIInv, NextIInv, PTL DEF Spec

\* Every state has its types, and once every target has settled no temporary
\* file is left, whoever opened, removed or renamed it, but one whose rename
\* must fail and one that is a file another target stores there: each that is
\* there belongs to a target that still runs (open_target_file, reset_file and
\* truncate_transfer_file of target.cpp).
THEOREM NoTempIsLeft == Spec => []DiskInv
<1>1. IInv => DiskInv
  <2>1. SUFFICES ASSUME IInv, Settled, NEW t \in Targets, Exists(Temp(t)),
                        Destination(t) \notin blocked \cup {NoPath}, Temp(t) \notin Destinations
                 PROVE  FALSE
    BY DEF DiskInv, NothingLeft, IInv
  <2>2. PICK u \in Targets : state[u] = "running"
    BY <2>1 DEF IInv, TempsAreOpen
  <2> QED
    BY <2>1, <2>2 DEF Settled
<1> QED
  BY <1>1, Reachable, PTL

\* A target alone at its paths is stored at its destination whole once it is
\* reported, or left in its temporary file where the destination cannot be
\* replaced, and what the others open, truncate, remove and rename does not
\* reach it.
THEOREM LoneTargetsAreWhole == Spec => []AloneIsWhole
<1>1. IInv => AloneIsWhole
  BY DEF IInv
<1> QED
  BY <1>1, Reachable, PTL

\* A target with a checksum is reported only when its file is at its
\* destination at that moment, or in its temporary file where the destination
\* cannot be replaced, also when the temporary file that was checked is the one
\* of another target.
THEOREM ReportsAreTrue == Spec => ReportedIsThere
<1> DEFINE A ==
      \A t \in Targets :
        state[t] # "finished" /\ state'[t] = "finished" /\ asked[t].checksum
          /\ Destination(t) # NoPath
        => StoredOrLeft(t)'
<1>1. ASSUME IInv, Next PROVE A
  <2>1. SUFFICES ASSUME NEW t \in Targets, state[t] # "finished", state'[t] = "finished",
                        asked[t].checksum, Destination(t) # NoPath
                 PROVE  StoredOrLeft(t)'
    OBVIOUS
  <2>2. /\ state \in [Targets -> {"waiting", "running", "finished", "failed"}]
        /\ disk \in [Paths -> {NoInode} \cup Inodes] /\ content \in [Inodes -> Seq(0..Files)]
        /\ NoInode \notin Inodes
    BY <1>1, InodeFacts DEF IInv, TypeOK
  <2>3. CASE Begin
    <3>1. UNCHANGED options /\ disk' = disk /\ content' = content /\ AlreadyDownloaded(t)
      BY <2>1, <2>3 DEF Begin
    <3>2. Read(Destination(t)) = Whole(asked[t].file)
      BY <3>1 DEF AlreadyDownloaded, Valid
    <3>3. asked'[t] = asked[t] /\ Destination(t)' = Destination(t)
      BY <1>1, <3>1, HomeFacts
    <3> QED
      BY <3>1, <3>2, <3>3 DEF StoredOrLeft, Whole, Read, Exists
  <2>4. CASE Complete(t)
    <3>1. UNCHANGED options /\ content' = Kept(content) /\ disk' = Renamed(t)
      BY <2>4 DEF Complete
    <3>2. Read(Temp(t)) = Whole(asked[t].file)
      BY <2>1, <2>4 DEF Complete, Accepted, Valid
    <3>3. Exists(Temp(t))
      <4>1. Len(Whole(asked[t].file)) = Blocks /\ Blocks > 0
        BY SharedConstantsOk DEF Whole
      <4> QED
        BY <3>2, <4>1, EmptyFile DEF Read
    <3>4. /\ Destination(t) \in Paths /\ Temp(t) \in Paths /\ Temp(t) # Destination(t)
          /\ Destination(t)' = Destination(t) /\ Temp(t)' = Temp(t)
          /\ asked'[t] = asked[t] /\ blocked' = blocked
      BY <1>1, <3>1, HomeFacts
    <3>5. ASSUME NEW p \in Paths, disk'[p] = disk[Temp(t)]
          PROVE  Read(p)' = Whole(asked[t].file)
      <4>1. disk[Temp(t)] \in Inodes /\ disk[Temp(t)] # NoInode
        BY <2>2, <3>3, <3>4 DEF Exists
      <4>2. content'[disk[Temp(t)]] = content[disk[Temp(t)]]
        BY <2>2, <3>1, <3>5, <4>1, KeptRead
      <4> QED
        BY <3>2, <3>3, <3>5, <4>1, <4>2 DEF Read, Exists
    <3>6. CASE Destination(t) \in blocked
      <4>1. disk'[Temp(t)] = disk[Temp(t)]
        BY <3>1, <3>6 DEF Renamed
      <4>2. Read(Temp(t))' = Whole(asked[t].file)
        BY <3>4, <3>5, <4>1
      <4> QED
        BY <3>4, <3>6, <4>2 DEF StoredOrLeft, Whole
    <3>7. CASE Destination(t) \notin blocked
      <4>1. disk'[Destination(t)] = disk[Temp(t)]
        BY <2>1, <2>2, <3>1, <3>3, <3>4, <3>7 DEF Renamed
      <4>2. Read(Destination(t))' = Whole(asked[t].file)
        BY <3>4, <3>5, <4>1
      <4> QED
        BY <3>4, <4>2 DEF StoredOrLeft, Whole
    <3> QED
      BY <3>6, <3>7
  <2>5. ASSUME NEW u \in Targets, Complete(u), u # t PROVE FALSE
    BY <2>1, <2>2, <2>5 DEF Complete
  <2>6. ASSUME NEW u \in Targets,
               \/ Start(u) \/ OpenThrows(u) \/ Receive(u)
               \/ Rejected(u) \/ FinishThrows(u) \/ Break(u)
        PROVE  FALSE
    BY <2>1, <2>2, <2>6
       DEF Start, OpenThrows, Receive, Rejected, FinishThrows, Break, GiveUp
  <2>7. CASE Terminated
    BY <2>1, <2>7 DEF Terminated, vars
  <2> QED
    BY <1>1, <2>3, <2>4, <2>5, <2>6, <2>7 DEF Next
<1>2. IInv /\ [Next]_vars => [A]_vars
  BY <1>1
<1> QED
  BY <1>2, Reachable, PTL DEF Spec, ReportedIsThere
=============================================================================
