--------------------------- MODULE MirrorMapProofs ---------------------------
(***************************************************************************)
(* MirrorMap for every number of hosts, bases, kinds of mirrors and        *)
(* operations: ids stay unique per host, a target made from a full URL can *)
(* be added until the map is replaced, and the targets of one host share   *)
(* their Mirror objects.                                                   *)
(*                                                                         *)
(* A step either lets the lists of the map grow at their ends or replaces  *)
(* the whole map.  What the requests and the targets of an epoch rely on   *)
(* survives growth, and a replacement starts an epoch that has neither.    *)
(***************************************************************************)
EXTENDS MirrorMap, TLAPS

\* The mirrors that the program makes download from the base in their id.
OwnMirrors == {m \in MirrorObjects : m.url = m.id.base}

Maps == [Hosts -> Seq(OwnMirrors)]

DownloadTargets == [wanted: Bases \cup {NoBase}, host: Hosts, epoch: Nat]

TargetObjects == [request: 1..MaxTargets, epoch: Nat, mirrors: Seq(MirrorObjects) \ {<<>>}]

\* s is the beginning of t, element by element.
Begins(s, t) == Len(s) <= Len(t) /\ \A i \in 1..Len(s) : s[i] = t[i]

MirrorsAreOwn == map \in Maps /\ config \in Maps

RequestsArePast ==
  /\ Len(requests) <= MaxTargets
  /\ \A r \in DOMAIN requests : requests[r].epoch <= epoch

\* The list of a target that was added since the map was replaced is still
\* the beginning of its host's list.
TargetsAreCopies ==
  \A i \in DOMAIN targets :
    /\ targets[i].request \in DOMAIN requests
    /\ targets[i].epoch <= epoch
    /\ targets[i].epoch = epoch =>
         Begins(targets[i].mirrors, map[requests[targets[i].request].host])

IInv ==
  /\ MapInv /\ MirrorsAreOwn
  /\ RequestsArePast /\ TargetsAreCopies
  /\ UrlIsServed /\ TargetsShareMirrors

-----------------------------------------------------------------------------
\* Sequences.

LEMMA BeginsIsPrefix ==
  ASSUME NEW S, NEW s \in Seq(S), NEW t \in Seq(S)
  PROVE  Begins(s, t) => IsPrefix(s, t)
<1> SUFFICES ASSUME Begins(s, t) PROVE IsPrefix(s, t)
  OBVIOUS
<1>1. Len(s) <= Len(t) /\ Len(s) \in Nat /\ Len(t) \in Nat
  BY DEF Begins
<1>2. SubSeq(s, 1, Len(s)) = [i \in 1..Len(s) |-> s[i]]
  BY <1>1
<1>3. SubSeq(t, 1, Len(s)) = [i \in 1..Len(s) |-> t[i]]
  BY <1>1
<1>4. [i \in 1..Len(s) |-> s[i]] = [i \in 1..Len(s) |-> t[i]]
  BY DEF Begins
<1> QED
  BY <1>1, <1>2, <1>3, <1>4 DEF IsPrefix

LEMMA BeginsGrows ==
  ASSUME NEW S, NEW s \in Seq(S), NEW t \in Seq(S), NEW u \in Seq(S),
         Begins(s, t), Begins(t, u)
  PROVE  Begins(s, u)
BY DEF Begins

LEMMA Appended ==
  ASSUME NEW S, NEW s \in Seq(S), NEW x \in S
  PROVE  /\ Append(s, x) \in Seq(S)
         /\ Len(Append(s, x)) = Len(s) + 1
         /\ DOMAIN Append(s, x) = DOMAIN s \cup {Len(s) + 1}
         /\ \A i \in DOMAIN s : Append(s, x)[i] = s[i]
         /\ Append(s, x)[Len(s) + 1] = x
         /\ Begins(s, Append(s, x)) /\ Begins(s, s)
         /\ DOMAIN s = 1..Len(s)
BY DEF Begins

-----------------------------------------------------------------------------
\* The map.

Grows(m, n) == \A h \in Hosts : Begins(m[h], n[h])

\* A mirror whose id is not there yet can be appended to a host's list.
LEMMA AppendMirror ==
  ASSUME NEW m \in Maps, IsEveryMirrorUniquePerHost(m),
         NEW h \in Hosts, NEW x \in OwnMirrors, ~AlreadyExists(x.id, m[h]),
         NEW n, n = [m EXCEPT ![h] = Append(@, x)]
  PROVE  /\ n \in Maps
         /\ IsEveryMirrorUniquePerHost(n)
         /\ Grows(m, n)
         /\ x \in Range(n[h])
<1>1. m[h] \in Seq(OwnMirrors) /\ n[h] = Append(m[h], x)
  BY DEF Maps
<1>2. /\ n[h] \in Seq(OwnMirrors)
      /\ Begins(m[h], n[h])
      /\ DOMAIN n[h] = DOMAIN m[h] \cup {Len(m[h]) + 1}
      /\ \A i \in DOMAIN m[h] : n[h][i] = m[h][i]
      /\ n[h][Len(m[h]) + 1] = x
  BY <1>1, Appended
<1>3. \A g \in Hosts \ {h} : n[g] = m[g] /\ Begins(m[g], n[g])
  <2> SUFFICES ASSUME NEW g \in Hosts \ {h} PROVE n[g] = m[g] /\ Begins(m[g], n[g])
    OBVIOUS
  <2>1. n[g] = m[g] /\ m[g] \in Seq(OwnMirrors)
    BY DEF Maps
  <2> QED
    BY <2>1 DEF Begins
<1>4. n \in Maps
  BY <1>1, <1>2 DEF Maps
<1>5. \A i \in DOMAIN m[h] : m[h][i].id # x.id
  BY DEF AlreadyExists, Range
<1>6. \A i, j \in DOMAIN n[h] : n[h][i].id = n[h][j].id => i = j
  BY <1>2, <1>5 DEF IsEveryMirrorUniquePerHost
<1>7. IsEveryMirrorUniquePerHost(n)
  BY <1>3, <1>6 DEF IsEveryMirrorUniquePerHost
<1>8. Grows(m, n)
  BY <1>2, <1>3 DEF Grows
<1>9. x \in Range(n[h])
  BY <1>2 DEF Range
<1> QED
  BY <1>4, <1>7, <1>8, <1>9

LEMMA MapGrowsToItself ==
  ASSUME NEW m \in Maps
  PROVE  Grows(m, m)
BY DEF Maps, Grows, Begins

\* A mirror the program makes is one of its own.
LEMMA MirrorType ==
  ASSUME NEW n \in 1..MaxObjects, NEW id \in Ids
  PROVE  Mirror(n, id) \in OwnMirrors /\ Mirror(n, id).id = id /\ Mirror(n, id).url = id.base
<1>1. id.base \in Bases
  BY DEF Ids
<1> QED
  BY <1>1 DEF Mirror, OwnMirrors, MirrorObjects

LEMMA HttpIdType ==
  ASSUME NEW base \in Bases
  PROVE  HttpId(base, FALSE) \in Ids /\ HttpId(base, FALSE).base = base
BY MapConstantsOk DEF HttpId, Ids

\* create_unique_mirror leaves the host with a mirror of that id.
LEMMA CreateMirror ==
  ASSUME NEW m \in Maps, IsEveryMirrorUniquePerHost(m), objects \in 0..MaxObjects,
         NEW h \in Hosts, NEW id \in Ids, Created(m, h, id)
  PROVE  /\ CreateUniqueMirror(m, h, id) \in Maps
         /\ IsEveryMirrorUniquePerHost(CreateUniqueMirror(m, h, id))
         /\ Grows(m, CreateUniqueMirror(m, h, id))
         /\ \E x \in Range(CreateUniqueMirror(m, h, id)[h]) : x.url = id.base
         /\ objects' \in 0..MaxObjects
<1>1. objects + 1 \in 1..MaxObjects /\ objects' \in 0..MaxObjects
  BY MapConstantsOk DEF Created
<1>2. CASE AlreadyExists(id, m[h])
  <2>1. CreateUniqueMirror(m, h, id) = m
    BY <1>2 DEF CreateUniqueMirror
  <2>2. PICK x \in Range(m[h]) : x.id = id
    BY <1>2 DEF AlreadyExists
  <2>3. x \in OwnMirrors
    BY <2>2 DEF Maps, Range
  <2> QED
    BY <1>1, <2>1, <2>2, <2>3, MapGrowsToItself DEF OwnMirrors
<1>3. CASE ~AlreadyExists(id, m[h])
  <2> DEFINE x == Mirror(objects + 1, id)
  <2>1. x \in OwnMirrors /\ x.id = id /\ x.url = id.base
    BY <1>1, MirrorType
  <2>2. CreateUniqueMirror(m, h, id) = [m EXCEPT ![h] = Append(@, x)]
    BY <1>3 DEF CreateUniqueMirror
  <2> DEFINE n == CreateUniqueMirror(m, h, id)
  <2> HIDE DEF x, n
  <2>3. /\ n \in Maps
        /\ IsEveryMirrorUniquePerHost(n)
        /\ Grows(m, n)
        /\ x \in Range(n[h])
    BY <1>3, <2>1, <2>2, AppendMirror DEF n
  <2> QED
    BY <1>1, <2>1, <2>3 DEF n
<1> QED
  BY <1>2, <1>3

LEMMA NoMirrorsType == NoMirrors \in Maps /\ IsEveryMirrorUniquePerHost(NoMirrors)
BY DEF NoMirrors, Maps, IsEveryMirrorUniquePerHost

\* What reset may be given is made of mirrors that are in the map.
LEMMA KnownMirrors ==
  ASSUME map \in Maps
  PROVE  Known \subseteq OwnMirrors /\ NewValues \subseteq Maps
<1>1. Known \subseteq OwnMirrors
  BY DEF Known, Range, Maps
<1>2. \A h \in Hosts, m, n \in Known : [NoMirrors EXCEPT ![h] = <<m, n>>] \in Maps
  <2> SUFFICES ASSUME NEW h \in Hosts, NEW m \in Known, NEW n \in Known
               PROVE  [NoMirrors EXCEPT ![h] = <<m, n>>] \in Maps
    OBVIOUS
  <2>1. <<m, n>> \in Seq(OwnMirrors)
    BY <1>1
  <2> QED
    BY <2>1, NoMirrorsType DEF Maps
<1> QED
  BY <1>1, <1>2, NoMirrorsType DEF NewValues

LEMMA MapsType == Maps \subseteq [Hosts -> Seq(MirrorObjects)]
<1>1. Seq(OwnMirrors) \subseteq Seq(MirrorObjects)
  BY DEF OwnMirrors
<1> QED
  BY <1>1 DEF Maps

-----------------------------------------------------------------------------
\* What a step does to the map, the requests and the targets.

\* The lists grow and a target may be asked for, which finds its mirror there.
NewRequest(r) ==
  /\ Len(requests) < MaxTargets
  /\ r \in DownloadTargets
  /\ r.epoch = epoch
  /\ r.wanted # NoBase => \E m \in Range(map'[r.host]) : m.url = r.wanted
  /\ requests' = Append(requests, r)

Growth ==
  /\ Grows(map, map') /\ epoch' = epoch /\ targets' = targets
  /\ requests' = requests \/ \E r : NewRequest(r)

Replacement ==
  /\ epoch' = epoch + 1 /\ UNCHANGED <<requests, targets>>

Addition ==
  /\ UNCHANGED <<map, epoch, requests>>
  /\ \E r \in DOMAIN requests :
       /\ map[requests[r].host] # <<>>
       /\ targets' = Append(targets, [request |-> r, epoch |-> epoch,
                                       mirrors |-> map[requests[r].host]])

\* What holds of the rest of the state.
Lists ==
  /\ MirrorsAreOwn /\ UniquePerHost
  /\ parsing \in BOOLEAN /\ objects \in 0..MaxObjects
  /\ outcome \in {"ok", "refused", "threw", "crashed"}

LEMMA InitIInv == Init => IInv
<1> SUFFICES ASSUME Init PROVE IInv
  OBVIOUS
<1>1. MirrorsAreOwn /\ UniquePerHost
  BY NoMirrorsType DEF Init, MirrorsAreOwn, UniquePerHost
<1>2. map \in [Hosts -> Seq(MirrorObjects)] /\ config \in [Hosts -> Seq(MirrorObjects)]
  BY <1>1, MapsType DEF MirrorsAreOwn
<1>3. requests \in Seq(DownloadTargets) /\ targets \in Seq(TargetObjects)
  BY DEF Init
<1>4. /\ parsing \in BOOLEAN /\ objects \in 0..MaxObjects /\ epoch \in Nat
      /\ outcome \in {"ok", "refused", "threw", "crashed"}
  <2>1. parsing = FALSE /\ objects = 0 /\ epoch = 0 /\ outcome = "ok"
    BY DEF Init
  <2>2. objects \in 0..MaxObjects
    BY <2>1, MapConstantsOk
  <2> QED
    BY <2>1, <2>2
<1>5. TypeOK
  BY <1>2, <1>3, <1>4 DEF TypeOK, DownloadTargets, TargetObjects
<1> QED
  BY <1>1, <1>5, MapConstantsOk
  DEF Init, IInv, MapInv, RequestsArePast, TargetsAreCopies, UrlIsServed, TargetsShareMirrors

LEMMA StepKinds == IInv /\ [Next]_vars => Lists' /\ (Growth \/ Replacement \/ Addition)
<1> SUFFICES ASSUME IInv, [Next]_vars
             PROVE  Lists' /\ (Growth \/ Replacement \/ Addition)
  OBVIOUS
<1> USE DEF Lists, MirrorsAreOwn
<1>0. epoch \in Nat
  BY DEF IInv, MapInv, TypeOK
<1>1. Lists /\ IsEveryMirrorUniquePerHost(map) /\ IsEveryMirrorUniquePerHost(config)
  BY DEF IInv, MapInv, TypeOK, UniquePerHost
<1>2. Grows(map, map) /\ Grows(config, config)
  BY <1>1, MapGrowsToItself
<1>3. ASSUME NEW h \in Hosts, NEW id \in Ids, Create(h, id) PROVE Lists' /\ Growth
  BY <1>1, <1>3, CreateMirror DEF Create, Growth, UniquePerHost
<1>4. ASSUME NEW h \in Hosts, NEW id \in Ids, ParseEntry(h, id) PROVE Lists' /\ Growth
  BY <1>1, <1>2, <1>4, CreateMirror DEF ParseEntry, Growth, UniquePerHost
<1>5. ASSUME NEW h \in Hosts, NEW m \in Known, AddUniqueMirror(h, m) PROVE Lists' /\ Growth
  <2>1. m \in OwnMirrors
    BY <1>1, KnownMirrors
  <2>2. CASE AlreadyExists(m.id, map[h])
    BY <1>1, <1>2, <1>5, <2>2 DEF AddUniqueMirror, Growth, UniquePerHost
  <2>3. CASE ~AlreadyExists(m.id, map[h])
    <3>1. map' = [map EXCEPT ![h] = Append(@, m)] /\ outcome' = "ok"
      BY <1>5, <2>3 DEF AddUniqueMirror
    <3>2. map' \in Maps /\ IsEveryMirrorUniquePerHost(map') /\ Grows(map, map')
      BY <1>1, <2>1, <2>3, <3>1, AppendMirror
    <3> QED
      BY <1>1, <1>5, <3>1, <3>2 DEF AddUniqueMirror, Growth, UniquePerHost
  <2> QED
    BY <2>2, <2>3
<1>6. ASSUME NEW values \in NewValues, Reset(values)
      PROVE  Lists' /\ (Growth \/ Replacement)
  <2>1. values \in Maps
    BY <1>1, KnownMirrors
  <2> QED
    BY <1>1, <1>2, <1>6, <2>1 DEF Reset, Growth, Replacement, UniquePerHost
<1>7. ASSUME ParseMirrors PROVE Lists' /\ Growth
  BY <1>1, <1>2, <1>7, NoMirrorsType DEF ParseMirrors, Growth, UniquePerHost
<1>8. ASSUME Parsed PROVE Lists' /\ Replacement
  BY <1>1, <1>8, NoMirrorsType DEF Parsed, Replacement, UniquePerHost
<1>9. ASSUME NEW base \in Bases, NEW override \in Hosts \cup {"none"},
             FromFullUrl(base, override)
      PROVE  Lists' /\ Growth
  <2> DEFINE h == UrlHost(base, override)
             id == HttpId(base, FALSE)
             r == Request(base, h)
  <2>1. h \in Hosts
    BY MapConstantsOk DEF UrlHost
  <2>2. id \in Ids /\ id.base = base
    BY HttpIdType
  <2>3. /\ r \in DownloadTargets
        /\ r.epoch = epoch /\ r.wanted = base /\ r.host = h
    BY <1>0, <2>1 DEF Request, DownloadTargets
  <2>4. /\ Len(requests) < MaxTargets /\ Created(map, h, id)
        /\ map' = CreateUniqueMirror(map, h, id)
        /\ requests' = Append(requests, r)
        /\ outcome' = "ok" /\ UNCHANGED <<parsing, config, targets, epoch>>
    BY <1>9 DEF FromFullUrl
  <2> HIDE DEF h, id, r
  <2>5. /\ map' \in Maps /\ IsEveryMirrorUniquePerHost(map') /\ Grows(map, map')
        /\ \E m \in Range(map'[h]) : m.url = id.base
        /\ objects' \in 0..MaxObjects
    BY <1>1, <2>1, <2>2, <2>4, CreateMirror
  <2>6. NewRequest(r)
    BY <2>2, <2>3, <2>4, <2>5 DEF NewRequest
  <2> QED
    BY <1>1, <2>4, <2>5, <2>6 DEF Growth, UniquePerHost
<1>10. ASSUME NEW h \in Hosts, FromHostPath(h) PROVE Lists' /\ Growth
  <2>1. NewRequest(Request(NoBase, h))
    BY <1>0, <1>10 DEF NewRequest, FromHostPath, Request, DownloadTargets
  <2> QED
    BY <1>1, <1>2, <1>10, <2>1 DEF FromHostPath, Growth, UniquePerHost
<1>11. ASSUME FromMalformedUrl PROVE Lists' /\ Growth
  BY <1>1, <1>2, <1>11 DEF FromMalformedUrl, Growth, UniquePerHost
<1>12. ASSUME NEW r \in DOMAIN requests, Add(r) PROVE Lists' /\ (Growth \/ Addition)
  BY <1>1, <1>2, <1>12 DEF Add, Growth, Addition, GetMirrors, HasMirrors, UniquePerHost
<1>13. CASE UNCHANGED vars
  BY <1>1, <1>2, <1>13 DEF vars, Growth, UniquePerHost
<1> QED
  BY <1>3, <1>4, <1>5, <1>6, <1>7, <1>8, <1>9, <1>10, <1>11, <1>12, <1>13
  DEF Next, MapStep, TargetStep

-----------------------------------------------------------------------------
\* The invariant.

\* Types that every step needs: requests and targets refer to hosts.
LEMMA RequestTypes ==
  ASSUME TypeOK
  PROVE  /\ requests \in Seq(DownloadTargets) /\ targets \in Seq(TargetObjects)
         /\ \A r \in DOMAIN requests : requests[r].host \in Hosts /\ requests[r].epoch \in Nat
         /\ \A i \in DOMAIN targets : targets[i].epoch \in Nat
         /\ \A i \in DOMAIN targets : targets[i].mirrors \in Seq(MirrorObjects)
         /\ \A h \in Hosts : map[h] \in Seq(MirrorObjects)
         /\ DOMAIN requests = 1..Len(requests) /\ Len(requests) \in Nat
         /\ DOMAIN targets = 1..Len(targets) /\ Len(targets) \in Nat
         /\ epoch \in Nat
<1>1. requests \in Seq(DownloadTargets) /\ targets \in Seq(TargetObjects)
  BY DEF TypeOK, DownloadTargets, TargetObjects
<1>2. \A r \in DOMAIN requests : requests[r] \in DownloadTargets
  BY <1>1
<1>3. \A i \in DOMAIN targets : targets[i] \in TargetObjects
  BY <1>1
<1>4. /\ DOMAIN requests = 1..Len(requests) /\ Len(requests) \in Nat
      /\ DOMAIN targets = 1..Len(targets) /\ Len(targets) \in Nat
  BY <1>1
<1>5. epoch \in Nat /\ \A h \in Hosts : map[h] \in Seq(MirrorObjects)
  BY DEF TypeOK
<1> QED
  BY <1>1, <1>2, <1>3, <1>4, <1>5 DEF DownloadTargets, TargetObjects

LEMMA GrowthStep == IInv /\ Lists' /\ Growth => IInv'
<1> SUFFICES ASSUME IInv, Lists', Growth PROVE IInv'
  OBVIOUS
<1>1. TypeOK /\ map' \in Maps /\ config' \in Maps /\ MirrorsAreOwn' /\ map \in Maps
  BY DEF IInv, MapInv, Lists, MirrorsAreOwn
<1>2. Grows(map, map') /\ epoch' = epoch /\ targets' = targets
  BY DEF Growth
<1>3. \A h \in Hosts : map'[h] \in Seq(MirrorObjects)
  BY <1>1, MapsType
<1>4. /\ requests' \in Seq(DownloadTargets)
      /\ DOMAIN requests \subseteq DOMAIN requests'
      /\ \A r \in DOMAIN requests : requests'[r] = requests[r]
      /\ Len(requests') <= MaxTargets
      /\ \A r \in DOMAIN requests' \ DOMAIN requests :
           /\ requests'[r].epoch = epoch
           /\ requests'[r].wanted # NoBase =>
                \E m \in Range(map'[requests'[r].host]) : m.url = requests'[r].wanted
  <2>1. CASE requests' = requests
    BY <1>1, <2>1, RequestTypes DEF IInv, RequestsArePast
  <2>2. ASSUME NEW q, NewRequest(q) PROVE <1>4
    <3>1. q \in DownloadTargets /\ requests' = Append(requests, q)
      BY <2>2 DEF NewRequest
    <3>2. /\ requests' \in Seq(DownloadTargets)
          /\ Len(requests') = Len(requests) + 1
          /\ DOMAIN requests' = DOMAIN requests \cup {Len(requests) + 1}
          /\ \A r \in DOMAIN requests : requests'[r] = requests[r]
          /\ requests'[Len(requests) + 1] = q
      BY <1>1, <3>1, Appended, RequestTypes
    <3>3. Len(requests') <= MaxTargets
      BY <1>1, <2>2, <3>2, RequestTypes, MapConstantsOk DEF NewRequest
    <3> QED
      BY <2>2, <3>2, <3>3 DEF NewRequest
  <2> QED
    BY <2>1, <2>2 DEF Growth
<1>5. \A r \in DOMAIN requests' : r \notin DOMAIN requests => requests'[r].epoch = epoch
  BY <1>4
<1>6. TypeOK'
  BY <1>1, <1>2, <1>4, MapsType, RequestTypes DEF TypeOK, Lists, DownloadTargets
<1>7. RequestsArePast'
  BY <1>1, <1>2, <1>4, <1>5, RequestTypes DEF IInv, RequestsArePast
<1>8. \A h \in Hosts : Range(map[h]) \subseteq Range(map'[h])
  <2> SUFFICES ASSUME NEW h \in Hosts, NEW i \in DOMAIN map[h]
               PROVE  map[h][i] \in Range(map'[h])
    BY DEF Range
  <2>1. /\ Begins(map[h], map'[h])
        /\ map[h] \in Seq(MirrorObjects) /\ map'[h] \in Seq(MirrorObjects)
    BY <1>1, <1>2, <1>3, RequestTypes DEF Grows
  <2>2. i \in DOMAIN map'[h] /\ map'[h][i] = map[h][i]
    BY <2>1 DEF Begins
  <2> QED
    BY <2>2 DEF Range
<1>9. UrlIsServed'
  <2> SUFFICES ASSUME NEW r \in DOMAIN requests',
                      requests'[r].wanted # NoBase, requests'[r].epoch = epoch'
               PROVE  \E m \in Range(map'[requests'[r].host]) : m.url = requests'[r].wanted
    BY DEF UrlIsServed
  <2>1. CASE r \in DOMAIN requests
    BY <1>1, <1>2, <1>4, <1>8, <2>1, RequestTypes DEF IInv, UrlIsServed
  <2>2. CASE r \notin DOMAIN requests
    BY <1>4, <2>2
  <2> QED
    BY <2>1, <2>2
<1>10. TargetsAreCopies'
  <2> SUFFICES ASSUME NEW i \in DOMAIN targets
               PROVE  /\ targets[i].request \in DOMAIN requests'
                      /\ targets[i].epoch <= epoch
                      /\ targets[i].epoch = epoch =>
                           Begins(targets[i].mirrors, map'[requests'[targets[i].request].host])
    BY <1>2 DEF TargetsAreCopies
  <2> DEFINE h == requests[targets[i].request].host
  <2>1. /\ targets[i].request \in DOMAIN requests /\ targets[i].epoch <= epoch
        /\ targets[i].epoch = epoch => Begins(targets[i].mirrors, map[h])
    BY DEF IInv, TargetsAreCopies
  <2>2. h \in Hosts /\ targets[i].mirrors \in Seq(MirrorObjects)
    BY <1>1, <2>1, RequestTypes
  <2>3. h = requests'[targets[i].request].host
    BY <1>4, <2>1
  <2>4. Begins(map[h], map'[h]) /\ map[h] \in Seq(MirrorObjects)
    BY <1>1, <1>2, <2>2, RequestTypes DEF Grows
  <2> HIDE DEF h
  <2>5. targets[i].epoch = epoch => Begins(targets[i].mirrors, map'[h])
    BY <1>3, <2>1, <2>2, <2>4, BeginsGrows
  <2> QED
    BY <1>4, <2>1, <2>3, <2>5
<1>11. TargetsShareMirrors'
  BY <1>2, <1>4 DEF IInv, TargetsShareMirrors, TargetsAreCopies
<1> QED
  BY <1>1, <1>6, <1>7, <1>9, <1>10, <1>11 DEF IInv, MapInv, Lists

LEMMA ReplacementStep == IInv /\ Lists' /\ Replacement => IInv'
<1> SUFFICES ASSUME IInv, Lists', Replacement PROVE IInv'
  OBVIOUS
<1>1. TypeOK /\ MirrorsAreOwn'
  BY DEF IInv, MapInv, Lists
<1>2. epoch' = epoch + 1 /\ requests' = requests /\ targets' = targets /\ epoch \in Nat
  BY <1>1 DEF Replacement, TypeOK
<1>3. TypeOK'
  BY <1>1, <1>2, MapsType DEF TypeOK, Lists, MirrorsAreOwn
<1>4. RequestsArePast'
  BY <1>1, <1>2, RequestTypes DEF IInv, RequestsArePast
<1>5. UrlIsServed'
  BY <1>1, <1>2, RequestTypes DEF IInv, RequestsArePast, UrlIsServed
<1>6. TargetsAreCopies'
  BY <1>1, <1>2, RequestTypes DEF IInv, TargetsAreCopies
<1>7. TargetsShareMirrors'
  BY <1>2 DEF IInv, TargetsShareMirrors
<1> QED
  BY <1>1, <1>3, <1>4, <1>5, <1>6, <1>7 DEF IInv, MapInv, Lists

LEMMA AdditionStep == IInv /\ Lists' /\ Addition => IInv'
<1> SUFFICES ASSUME IInv, Lists', Addition PROVE IInv'
  OBVIOUS
<1>1. TypeOK /\ MirrorsAreOwn'
  BY DEF IInv, MapInv, Lists
<1>2. map' = map /\ epoch' = epoch /\ requests' = requests
  BY DEF Addition
<1>3. PICK r \in DOMAIN requests :
        /\ map[requests[r].host] # <<>>
        /\ targets' = Append(targets, [request |-> r, epoch |-> epoch,
                                        mirrors |-> map[requests[r].host]])
  BY DEF Addition
<1> DEFINE list == map[requests[r].host]
           new == [request |-> r, epoch |-> epoch, mirrors |-> list]
           last == Len(targets) + 1
<1>4. list \in Seq(MirrorObjects) \ {<<>>} /\ r \in 1..MaxTargets /\ epoch \in Nat
  <2>1. list \in Seq(MirrorObjects) /\ list # <<>> /\ epoch \in Nat
    BY <1>1, <1>3, RequestTypes
  <2>2. r \in 1..MaxTargets
    BY <1>1, <1>3, RequestTypes, MapConstantsOk DEF IInv, RequestsArePast
  <2> QED
    BY <2>1, <2>2
<1> HIDE DEF list
<1>5. /\ new \in TargetObjects
      /\ new.request = r /\ new.epoch = epoch /\ new.mirrors = list
  BY <1>4 DEF TargetObjects
<1> HIDE DEF new
<1>6. targets' = Append(targets, new)
  BY <1>3 DEF new, list
<1>7. targets \in Seq(TargetObjects) /\ DOMAIN targets = 1..Len(targets) /\ Len(targets) \in Nat
  BY <1>1, RequestTypes
<1>8. /\ targets' \in Seq(TargetObjects)
      /\ DOMAIN targets' = DOMAIN targets \cup {last}
      /\ \A i \in DOMAIN targets : targets'[i] = targets[i] /\ i < last
      /\ targets'[last] = new /\ last \in Nat
  BY <1>5, <1>6, <1>7, Appended
<1> HIDE DEF last
<1>9. TypeOK'
  BY <1>1, <1>2, <1>8, MapsType DEF TypeOK, Lists, MirrorsAreOwn, TargetObjects
<1>10. RequestsArePast' /\ UrlIsServed'
  BY <1>2 DEF IInv, RequestsArePast, UrlIsServed
<1>11. Begins(list, list)
  BY <1>4, Appended DEF Begins
<1>12. TargetsAreCopies'
  <2> SUFFICES ASSUME NEW i \in DOMAIN targets'
               PROVE  /\ targets'[i].request \in DOMAIN requests
                      /\ targets'[i].epoch <= epoch
                      /\ targets'[i].epoch = epoch =>
                           Begins(targets'[i].mirrors, map[requests[targets'[i].request].host])
    BY <1>2 DEF TargetsAreCopies
  <2>1. CASE i \in DOMAIN targets
    BY <1>8, <2>1 DEF IInv, TargetsAreCopies
  <2>2. CASE i = last
    BY <1>4, <1>5, <1>8, <1>11, <2>2 DEF list
  <2> QED
    BY <1>8, <2>1, <2>2
<1>13. TargetsShareMirrors'
  <2> SUFFICES ASSUME NEW i \in DOMAIN targets', NEW j \in DOMAIN targets',
                      i < j, targets'[i].epoch = targets'[j].epoch,
                      requests[targets'[i].request].host = requests[targets'[j].request].host
               PROVE  IsPrefix(targets'[i].mirrors, targets'[j].mirrors)
    BY <1>2 DEF TargetsShareMirrors
  <2>1. CASE j \in DOMAIN targets
    <3>1. i \in DOMAIN targets
      BY <1>8, <1>7, <2>1
    <3> QED
      BY <1>8, <2>1, <3>1 DEF IInv, TargetsShareMirrors
  <2>2. CASE j = last
    <3>1. i \in DOMAIN targets /\ targets'[i] = targets[i] /\ targets'[j] = new
      BY <1>8, <2>2
    <3>2. Begins(targets[i].mirrors, list)
      BY <1>5, <3>1 DEF IInv, TargetsAreCopies, list
    <3>3. targets[i].mirrors \in Seq(MirrorObjects)
      BY <1>1, <3>1, RequestTypes
    <3> QED
      BY <1>4, <1>5, <3>1, <3>2, <3>3, BeginsIsPrefix
  <2> QED
    BY <1>8, <2>1, <2>2
<1> QED
  BY <1>1, <1>9, <1>10, <1>12, <1>13 DEF IInv, MapInv, Lists

LEMMA NextIInv == IInv /\ [Next]_vars => IInv'
BY StepKinds, GrowthStep, ReplacementStep, AdditionStep

LEMMA Invariant == Spec => []IInv
BY InitIInv, NextIInv, PTL DEF Spec

-----------------------------------------------------------------------------
\* Theorems.

\* In whatever order mirrors are created, added, parsed and reset, and for
\* every number of them, no list has two mirrors with the same id.
THEOREM IdsStayUnique == Spec => []MapInv
<1>1. IInv => MapInv
  BY DEF IInv
<1> QED
  BY <1>1, Invariant, PTL

\* A target made from a full URL has a mirror of that URL's base until the
\* whole map is replaced.
THEOREM FullUrlsAreServed == Spec => []UrlIsServed
<1>1. IInv => UrlIsServed
  BY DEF IInv
<1> QED
  BY <1>1, Invariant, PTL

\* Of two targets of one host made while the map was not replaced, the one
\* added first has the beginning of the other one's list of Mirror objects.
THEOREM TargetsOfAHostShare == Spec => []TargetsShareMirrors
<1>1. IInv => TargetsShareMirrors
  BY DEF IInv
<1> QED
  BY <1>1, Invariant, PTL
=============================================================================
