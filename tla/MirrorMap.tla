------------------------------ MODULE MirrorMap ------------------------------
(***************************************************************************)
(* The mirror_map of a Context: for every host name a list of Mirror       *)
(* objects.  The command line fills it from the "mirrors" of its YAML file *)
(* (parse_mirrors), every full URL adds a mirror for its own base          *)
(* (DownloadTarget::from_url), a program may add, create and reset at any  *)
(* time, and Downloader::add copies the list of one host into the Target.  *)
(* Everything runs in one thread; the operations come in any order.        *)
(*                                                                         *)
(* A URL is abstracted to its base address, which fixes its host; two      *)
(* bases of one host differ in scheme or port.  A mirror's id is made from *)
(* the URL as it was given, the URL it is used with loses its last slash.  *)
(*                                                                         *)
(* mirror_map_type also inherits the constructors of std::map              *)
(* (context.hpp:44): a map built from a list of pairs is not checked for   *)
(* repeated ids, and may be assigned to Context::mirror_map.  No code of   *)
(* the repository does so, and the model leaves it out: what is shown here *)
(* is about the operations that promise unique mirrors.                    *)
(*                                                                         *)
(* A definition named Broken... is a faulty variant of the one after it.   *)
(* Nothing uses it: it serves to show that a property can fail.            *)
(***************************************************************************)
EXTENDS Naturals, SequencesExt

CONSTANTS
  Hosts,         \* host names, the keys of the map
  Bases,         \* base addresses of URLs
  HostOf,        \* the host of each base
  NoBase,        \* the wanted base of a target given as host:path
  FileBase,      \* the base file://, whose host "[file]" cannot be overridden
  Kinds,         \* kinds of mirrors that occur
  Slashes,       \* whether mirrors are given with a slash at their end
  Repos,         \* repository prefixes (OCI) and regions (S3)
  MaxObjects,    \* bound: Mirror objects ever created
  MaxTargets,    \* bound: DownloadTargets, and Targets, ever created
  MaxEpochs      \* bound: replacements of the whole map

ASSUME MapConstantsOk ==
  /\ HostOf \in [Bases -> Hosts]
  /\ NoBase \notin Bases
  /\ "http" \in Kinds /\ FALSE \in Slashes   \* from_url creates such mirrors
  /\ MaxObjects \in Nat /\ MaxTargets \in Nat /\ MaxEpochs \in Nat

VARIABLES
  map,        \* Context::mirror_map
  parsing,    \* parse_mirrors runs
  config,     \* the map parse_mirrors builds
  objects,    \* Mirror objects created so far
  requests,   \* the DownloadTargets: wanted base, host, and the epoch they were made in
  targets,    \* the Targets a Downloader made of them: request, mirrors, epoch
  epoch,      \* history: how often the whole map was replaced
  outcome     \* how the last operation ended

vars == <<map, parsing, config, objects, requests, targets, epoch, outcome>>

NoMirrors == [h \in Hosts |-> <<>>]

\* MirrorType::id(args...): HTTPMirror[url], OCIMirror[host/prefix],
\* S3Mirror[url/region]; slash: the URL was given with a slash at its end.
Ids ==
  LET All == [kind: {"http"}, base: Bases, slash: Slashes]
               \cup [kind: {"s3"}, base: Bases \ {FileBase}, slash: Slashes, prefix: Repos]
               \cup [kind: {"oci"}, base: Bases \ {FileBase}, prefix: Repos]
  IN {id \in All : id.kind \in Kinds}

HttpId(base, slash) == [kind |-> "http", base |-> base, slash |-> slash]

\* A Mirror: which object it is, its id, and the URL it downloads from.
Mirror(n, id) == [object |-> n, id |-> id, url |-> id.base]

MirrorObjects == [object: 1..MaxObjects, id: Ids, url: Bases]

-----------------------------------------------------------------------------
\* mirror_map_type.

HostIsKnown(id, mirrors) == mirrors # <<>>
BrokenAlreadyExists(id, mirrors) == mirrors # <<>> /\ mirrors[Len(mirrors)].id = id
AlreadyExists(id, mirrors) == \E m \in Range(mirrors) : m.id = id

IsEveryMirrorUniquePerHost(values) ==
  \A h \in Hosts : \A i, j \in DOMAIN values[h] : values[h][i].id = values[h][j].id => i = j

GetMirrors(h) == map[h]

HasMirrors(h) == GetMirrors(h) # <<>>

\* create_unique_mirror in map m: nothing happens if the id is there.
BrokenCreateUniqueMirror(m, h, id) ==
  IF AlreadyExists(id, m[h])
  THEN [m EXCEPT ![h] = [i \in DOMAIN @ |-> IF @[i].id = id THEN Mirror(objects + 1, id) ELSE @[i]]]
  ELSE [m EXCEPT ![h] = Append(@, Mirror(objects + 1, id))]
CreateUniqueMirror(m, h, id) ==
  IF AlreadyExists(id, m[h]) THEN m
                             ELSE [m EXCEPT ![h] = Append(@, Mirror(objects + 1, id))]

Created(m, h, id) ==
  /\ objects < MaxObjects
  /\ objects' = IF AlreadyExists(id, m[h]) THEN objects ELSE objects + 1

\* A program creates a mirror for a host.
Create(h, id) ==
  /\ ~parsing
  /\ Created(map, h, id)
  /\ map' = CreateUniqueMirror(map, h, id)
  /\ outcome' = IF AlreadyExists(id, map[h]) THEN "refused" ELSE "ok"
  /\ UNCHANGED <<parsing, config, requests, targets, epoch>>

\* A program stores a mirror it has, also under a second host.
AddUniqueMirror(h, mirror) ==
  /\ ~parsing
  /\ IF AlreadyExists(mirror.id, map[h])
     THEN map' = map /\ outcome' = "refused"
     ELSE map' = [map EXCEPT ![h] = Append(@, mirror)] /\ outcome' = "ok"
  /\ UNCHANGED <<parsing, config, objects, requests, targets, epoch>>

\* A program replaces everything, or nothing if an id would be there twice.
Reset(values) ==
  /\ ~parsing /\ epoch < MaxEpochs
  /\ IF IsEveryMirrorUniquePerHost(values)
     THEN map' = values /\ epoch' = epoch + 1 /\ outcome' = "ok"
     ELSE outcome' = "threw" /\ UNCHANGED <<map, epoch>>
  /\ UNCHANGED <<parsing, config, objects, requests, targets>>

-----------------------------------------------------------------------------
\* parse_mirrors of the command line, one entry at a time, and the assignment
\* of its result to the Context's map.

ParseMirrors ==
  /\ ~parsing /\ epoch < MaxEpochs
  /\ parsing' = TRUE /\ config' = NoMirrors
  /\ UNCHANGED <<map, objects, requests, targets, epoch, outcome>>

\* The null that create_unique_mirror returns for a mirror that is there
\* already is not used for HTTP and S3, and dereferenced for OCI.
ParseEntry(h, id) ==
  /\ parsing /\ outcome # "crashed"
  /\ Created(config, h, id)
  /\ config' = CreateUniqueMirror(config, h, id)
  /\ outcome' = IF id.kind = "oci" /\ AlreadyExists(id, config[h]) THEN "crashed" ELSE "ok"
  /\ UNCHANGED <<map, parsing, requests, targets, epoch>>

Parsed ==
  /\ parsing /\ outcome # "crashed"
  /\ map' = config
  /\ parsing' = FALSE /\ config' = NoMirrors
  /\ epoch' = epoch + 1
  /\ UNCHANGED <<objects, requests, targets, outcome>>

-----------------------------------------------------------------------------
\* DownloadTarget::from_url, with a host name override or not.

Request(wanted, h) == [wanted |-> wanted, host |-> h, epoch |-> epoch]

UrlHost(base, override) ==
  IF override \in Hosts /\ base # FileBase THEN override ELSE HostOf[base]

\* A full URL: its base becomes a mirror of its host.
FromFullUrl(base, override) ==
  /\ ~parsing /\ Len(requests) < MaxTargets
  /\ LET h == UrlHost(base, override)
         id == HttpId(base, FALSE)
     IN /\ Created(map, h, id)
        /\ map' = CreateUniqueMirror(map, h, id)
        /\ requests' = Append(requests, Request(base, h))
  /\ outcome' = "ok"
  /\ UNCHANGED <<parsing, config, targets, epoch>>

\* host:path.
FromHostPath(h) ==
  /\ ~parsing /\ Len(requests) < MaxTargets
  /\ requests' = Append(requests, Request(NoBase, h))
  /\ outcome' = "ok"
  /\ UNCHANGED <<map, parsing, config, objects, targets, epoch>>

\* Neither: not exactly one colon.
FromMalformedUrl ==
  /\ ~parsing
  /\ outcome' = "threw"
  /\ UNCHANGED <<map, parsing, config, objects, requests, targets, epoch>>

-----------------------------------------------------------------------------
\* Downloader::add copies the list of mirrors; the objects are shared.

Add(r) ==
  /\ ~parsing /\ Len(targets) < MaxTargets
  /\ IF HasMirrors(requests[r].host)
     THEN /\ targets' = Append(targets, [request |-> r, epoch |-> epoch,
                                         mirrors |-> GetMirrors(requests[r].host)])
          /\ outcome' = "ok"
     ELSE outcome' = "threw" /\ UNCHANGED targets
  /\ UNCHANGED <<map, parsing, config, objects, requests, epoch>>

-----------------------------------------------------------------------------
Init ==
  /\ map = NoMirrors /\ parsing = FALSE /\ config = NoMirrors /\ objects = 0
  /\ requests = <<>> /\ targets = <<>>
  /\ epoch = 0 /\ outcome = "ok"

Known == UNION {Range(map[h]) : h \in Hosts}

\* The maps a program passes to reset: none, or two mirrors it has for one host.
NewValues ==
  {NoMirrors} \cup {[NoMirrors EXCEPT ![h] = <<m, n>>] : h \in Hosts, m \in Known, n \in Known}

MapStep ==
  \/ \E h \in Hosts, id \in Ids : Create(h, id) \/ ParseEntry(h, id)
  \/ \E h \in Hosts, m \in Known : AddUniqueMirror(h, m)
  \/ \E values \in NewValues : Reset(values)
  \/ ParseMirrors \/ Parsed

TargetStep ==
  \/ \E base \in Bases, override \in Hosts \cup {"none"} : FromFullUrl(base, override)
  \/ \E h \in Hosts : FromHostPath(h)
  \/ FromMalformedUrl
  \/ \E r \in DOMAIN requests : Add(r)

\* Whatever the library and the command line do to the map.
Next == outcome # "crashed" /\ (MapStep \/ TargetStep)

Spec == Init /\ [][Next]_vars

-----------------------------------------------------------------------------
\* Properties.

\* Every variable keeps its type.
TypeOK ==
  /\ map \in [Hosts -> Seq(MirrorObjects)]
  /\ parsing \in BOOLEAN /\ config \in [Hosts -> Seq(MirrorObjects)]
  /\ objects \in 0..MaxObjects
  /\ requests \in Seq([wanted: Bases \cup {NoBase}, host: Hosts, epoch: Nat])
  /\ targets \in Seq([request: 1..MaxTargets, epoch: Nat, mirrors: Seq(MirrorObjects) \ {<<>>}])
  /\ epoch \in Nat
  /\ outcome \in {"ok", "refused", "threw", "crashed"}

\* In whatever order mirrors are created, added, parsed and reset, no list
\* has two mirrors with the same id (context.hpp:37-38).
UniquePerHost ==
  /\ IsEveryMirrorUniquePerHost(map)
  /\ IsEveryMirrorUniquePerHost(config)

\* What every state satisfies: the types, and the uniqueness of ids.
MapInv == TypeOK /\ UniquePerHost

\* A target made from a full URL has a mirror of that URL's base until the
\* whole map is replaced: adding it to a Downloader cannot fail.
UrlIsServed ==
  \A r \in DOMAIN requests :
    requests[r].wanted # NoBase /\ requests[r].epoch = epoch =>
      \E m \in Range(map[requests[r].host]) : m.url = requests[r].wanted

\* Two targets of one host, however much was added between them, use the same
\* Mirror objects, in the same order: what one learns of a mirror (its
\* statistics, limits and backoff) the other one knows.
TargetsShareMirrors ==
  \A i, j \in DOMAIN targets :
    /\ i < j /\ targets[i].epoch = targets[j].epoch
    /\ requests[targets[i].request].host = requests[targets[j].request].host
    => IsPrefix(targets[i].mirrors, targets[j].mirrors)
=============================================================================
