------------------------------ MODULE OciProofs ------------------------------
(***************************************************************************)
(* OciMirror for every number of targets, repositories and tags: requests  *)
(* carry the token of their repository, a target that is alone in its      *)
(* repository gets its own blob, and a prepared target stays prepared.     *)
(*                                                                         *)
(* Whose blob a target asks for depends on where the digest in the cache   *)
(* came from: DigestsHaveOwners says that it is the answer to a manifest   *)
(* request of a target without a checksum, which only such targets send.   *)
(***************************************************************************)
EXTENDS OciMirror, TLAPS

\* A digest in the cache is the one of a target without a checksum that reads
\* the repository, and only such targets ask for manifests.
DigestsHaveOwners ==
  /\ \A t \in Targets : state[t] = "manifest" => t \notin checksummed
  /\ \A r \in Repos : cache[r].sha # NoDigest =>
       \E u \in Targets \ checksummed : Repo[u] = r /\ cache[r].sha = Own(u)

IInv == TypeOK /\ RequestsAuthorized /\ DigestsHaveOwners /\ BlobIsOwnIfAlone

States == {"waiting", "token", "manifest", "blob", "finished", "failed"}

-----------------------------------------------------------------------------
\* The parts of a step.

\* A target's digest is not the missing one, and is well typed.
LEMMA OwnDigest ==
  ASSUME NEW t \in Targets
  PROVE  Own(t) \in Digests /\ Own(t) # NoDigest /\ Repo[t] \in Repos
BY OciConstantsOk DEF Own, Digests, NoDigest

\* The cache of one repository is replaced by data of which less is missing.
Learns(old, new) ==
  /\ new \in AuthCallbackData
  /\ old.known => new.known
  /\ old.token => new.token
  /\ old.sha # NoDigest => new.sha # NoDigest

LEMMA Learnt ==
  ASSUME NEW data \in AuthCallbackData, NEW t \in Targets, NEW useful \in BOOLEAN
  PROVE  /\ Learns(data, [data EXCEPT !.known = TRUE])
         /\ [data EXCEPT !.known = TRUE].sha = data.sha
         /\ Learns(data, TokenStored(data, useful))
         /\ TokenStored(data, useful).sha = data.sha
         /\ Learns(data, DigestStored(data, Own(t), useful))
         /\ DigestStored(data, Own(t), useful).sha \in {data.sha, Own(t)}
<1>1. Own(t) \in Digests /\ Own(t) # NoDigest
  BY OwnDigest
<1> QED
  BY <1>1 DEF Learns, AuthCallbackData, TokenStored, DigestStored

LEMMA AuthHeadersType ==
  ASSUME credentials \in {"none", "user", "both"}, NEW data \in AuthCallbackData
  PROVE  /\ AuthHeaders(data) \in {"none", "empty", "token"}
         /\ credentials = "both" /\ data.token => AuthHeaders(data) = "token"
<1>1. CASE credentials = "none"
  BY <1>1 DEF AuthHeaders
<1>2. CASE credentials # "none" /\ data.token
  BY <1>2 DEF AuthHeaders
<1>3. CASE credentials # "none" /\ ~data.token
  BY <1>3 DEF AuthHeaders
<1> QED
  BY <1>1, <1>2, <1>3

-----------------------------------------------------------------------------
LEMMA InitIInv == Init => IInv
<1> SUFFICES ASSUME Init PROVE IInv
  OBVIOUS
<1>1. NoData \in AuthCallbackData /\ NoData.sha = NoDigest
  BY DEF NoData, AuthCallbackData
<1>2. cache \in [Repos -> AuthCallbackData]
  BY <1>1 DEF Init
<1>3. retries \in [Targets -> 0..AllowedMirrorFailures]
  BY OciConstantsOk DEF Init
<1>4. TypeOK
  BY <1>2, <1>3 DEF Init, TypeOK
<1> QED
  BY <1>1, <1>4 DEF Init, IInv, RequestsAuthorized, DigestsHaveOwners, BlobIsOwnIfAlone

\* A cache that learns for one repository, from a target of it, is well typed,
\* its digests have owners, and no target needs a preparation again.
LEMMA CacheLearns ==
  ASSUME IInv, NEW t \in Targets, NEW data,
         cache' = [cache EXCEPT ![Repo[t]] = data], Learns(cache[Repo[t]], data),
         \/ data.sha = cache[Repo[t]].sha
         \/ t \notin checksummed /\ data.sha = Own(t),
         UNCHANGED fixed
  PROVE  /\ cache' \in [Repos -> AuthCallbackData]
         /\ \A r \in Repos : cache'[r].sha # NoDigest =>
              \E u \in Targets \ checksummed : Repo[u] = r /\ cache'[r].sha = Own(u)
         /\ \A u \in Targets : ~NeedsPreparation(u) => ~NeedsPreparation(u)'
<1>1. cache \in [Repos -> AuthCallbackData] /\ Repo[t] \in Repos /\ data \in AuthCallbackData
  BY OwnDigest DEF IInv, TypeOK, Learns
<1>2. /\ cache' \in [Repos -> AuthCallbackData] /\ cache'[Repo[t]] = data
      /\ \A r \in Repos \ {Repo[t]} : cache'[r] = cache[r]
  BY <1>1
<1>3. \A r \in Repos : Learns(cache[r], cache'[r])
  BY <1>1, <1>2 DEF Learns
<1>4. \A u \in Targets : ~NeedsPreparation(u) => ~NeedsPreparation(u)'
  BY <1>3, OwnDigest DEF NeedsPreparation, Data, NeedAuth, fixed, Learns
<1>5. ASSUME NEW r \in Repos, cache'[r].sha # NoDigest
      PROVE  \E u \in Targets \ checksummed : Repo[u] = r /\ cache'[r].sha = Own(u)
  BY <1>1, <1>2, <1>5 DEF IInv, DigestsHaveOwners
<1> QED
  BY <1>2, <1>4, <1>5

\* What every step establishes.
GoodStep == IInv' /\ \A t \in Targets : ~NeedsPreparation(t) => ~NeedsPreparation(t)'

LEMMA PrepareGood ==
  ASSUME IInv, NEW t \in Targets, Prepare(t)
  PROVE  GoodStep
<1> DEFINE data == [Data(t) EXCEPT !.known = TRUE]
           asksToken == ~data.token /\ NeedAuth
<1>1. /\ NeedsPreparation(t) /\ cache' = [cache EXCEPT ![Repo[t]] = data]
      /\ Becomes(t, IF asksToken THEN "token" ELSE "manifest")
      /\ bearer' = [bearer EXCEPT ![t] = IF asksToken THEN "none" ELSE AuthHeaders(data)]
      /\ UNCHANGED <<fixed, blob, retries, stopped>>
  BY DEF Prepare
<1>2. Data(t) \in AuthCallbackData /\ Data(t) = cache[Repo[t]]
  BY OwnDigest DEF IInv, TypeOK, Data
<1>3. Learns(Data(t), data) /\ data.sha = Data(t).sha /\ data \in AuthCallbackData
      /\ data.token = Data(t).token
  BY <1>2, Learnt, TRUE \in BOOLEAN DEF Learns, AuthCallbackData
<1> HIDE DEF data
<1>4. /\ cache' \in [Repos -> AuthCallbackData]
      /\ \A r \in Repos : cache'[r].sha # NoDigest =>
           \E u \in Targets \ checksummed : Repo[u] = r /\ cache'[r].sha = Own(u)
      /\ \A u \in Targets : ~NeedsPreparation(u) => ~NeedsPreparation(u)'
  BY <1>1, <1>2, <1>3, CacheLearns
<1>5. /\ AuthHeaders(data) \in {"none", "empty", "token"}
      /\ credentials = "both" /\ data.token => AuthHeaders(data) = "token"
  BY <1>3, AuthHeadersType DEF IInv, TypeOK
<1>6. TypeOK'
  BY <1>1, <1>4, <1>5 DEF IInv, TypeOK, Becomes, fixed
<1>7. ~asksToken => t \notin checksummed
  BY <1>1, <1>3 DEF NeedsPreparation
<1>8. RequestsAuthorized'
  BY <1>1, <1>5 DEF IInv, TypeOK, RequestsAuthorized, Becomes, NeedAuth, fixed
<1>9. DigestsHaveOwners'
  BY <1>1, <1>4, <1>7 DEF IInv, TypeOK, DigestsHaveOwners, Becomes, fixed, Own
<1>10. BlobIsOwnIfAlone'
  BY <1>1 DEF IInv, TypeOK, BlobIsOwnIfAlone, AloneInRepository, Becomes, fixed, Own
<1> QED
  BY <1>4, <1>6, <1>8, <1>9, <1>10 DEF GoodStep, IInv

\* A target that is prepared asks for a blob: with the token if there is one,
\* and by the digest in the cache if it has no checksum.
LEMMA DownloadGood ==
  ASSUME IInv, NEW t \in Targets, Download(t)
  PROVE  GoodStep
<1>1. ~NeedsPreparation(t) /\ UNCHANGED <<fixed, cache, retries>>
  BY DEF Download
<1>2. Data(t) \in AuthCallbackData /\ Data(t) = cache[Repo[t]] /\ Repo[t] \in Repos
  BY OwnDigest DEF IInv, TypeOK, Data
<1>3. \A u \in Targets : NeedsPreparation(u)' <=> NeedsPreparation(u)
  BY <1>1 DEF NeedsPreparation, Data, NeedAuth, fixed
<1>4. CASE AuthHeadersThrow(t)
  <2>1. stopped' = TRUE /\ UNCHANGED <<state, bearer, blob>>
    BY <1>4 DEF Download
  <2> QED
    BY <1>1, <1>3, <2>1 DEF GoodStep, IInv, TypeOK, RequestsAuthorized, DigestsHaveOwners,
                            BlobIsOwnIfAlone, AloneInRepository, Own, fixed
<1>5. CASE ~AuthHeadersThrow(t)
  <2>1. /\ state' = [state EXCEPT ![t] = "blob"] /\ stopped' = stopped
        /\ bearer' = [bearer EXCEPT ![t] = AuthHeaders(Data(t))]
        /\ blob' = [blob EXCEPT ![t] = FormatUrl(t)]
    BY <1>5 DEF Download, Becomes
  <2>2. /\ AuthHeaders(Data(t)) \in {"none", "empty", "token"}
        /\ credentials = "both" => AuthHeaders(Data(t)) = "token"
    BY <1>1, <1>2, AuthHeadersType DEF IInv, TypeOK, NeedsPreparation, NeedAuth
  <2>3. FormatUrl(t) \in Digests \cup {NoDigest}
    BY <1>2, OwnDigest DEF FormatUrl, AuthCallbackData
  <2>4. t \in checksummed \/ AloneInRepository(t) => FormatUrl(t) = Own(t)
    <3>1. SUFFICES ASSUME t \notin checksummed, AloneInRepository(t)
                   PROVE  FormatUrl(t) = Own(t)
      BY DEF FormatUrl
    <3>2. FormatUrl(t) = Data(t).sha /\ Data(t).sha # NoDigest
      BY <1>1, <3>1 DEF FormatUrl, NeedsPreparation
    <3>3. PICK u \in Targets \ checksummed : Repo[u] = Repo[t] /\ Data(t).sha = Own(u)
      BY <1>2, <3>2 DEF IInv, DigestsHaveOwners
    <3>4. Tag[u] = Tag[t]
      BY <3>1, <3>3 DEF AloneInRepository
    <3> QED
      BY <3>2, <3>3, <3>4 DEF Own
  <2>5. TypeOK'
    BY <1>1, <2>1, <2>2, <2>3 DEF IInv, TypeOK, fixed
  <2>6. RequestsAuthorized'
    BY <1>1, <2>1, <2>2 DEF IInv, TypeOK, RequestsAuthorized, fixed
  <2>7. DigestsHaveOwners'
    BY <1>1, <2>1 DEF IInv, TypeOK, DigestsHaveOwners, fixed, Own
  <2>8. BlobIsOwnIfAlone'
    BY <1>1, <2>1, <2>4 DEF IInv, TypeOK, BlobIsOwnIfAlone, AloneInRepository, fixed, Own
  <2> QED
    BY <1>3, <2>5, <2>6, <2>7, <2>8 DEF GoodStep, IInv
<1> QED
  BY <1>4, <1>5

\* An answer is stored, whatever it has, and its target waits again.
LEMMA AnswerGood ==
  ASSUME IInv, NEW t \in Targets, NEW useful \in BOOLEAN,
         TokenArrives(t, useful) \/ ManifestArrives(t, useful)
  PROVE  GoodStep
<1>1. /\ state' = [state EXCEPT ![t] = "waiting"]
      /\ UNCHANGED <<fixed, bearer, blob, retries, stopped>>
  BY DEF TokenArrives, ManifestArrives, Becomes
<1>2. cache[Repo[t]] \in AuthCallbackData /\ cache \in [Repos -> AuthCallbackData]
  BY OwnDigest DEF IInv, TypeOK
<1>3. PICK data : /\ cache' = [cache EXCEPT ![Repo[t]] = data]
                  /\ Learns(cache[Repo[t]], data)
                  /\ \/ data.sha = cache[Repo[t]].sha
                     \/ t \notin checksummed /\ data.sha = Own(t)
  <2>1. CASE TokenArrives(t, useful)
    BY <1>2, <2>1, Learnt, OwnDigest DEF TokenArrives
  <2>2. CASE ManifestArrives(t, useful)
    <3>1. t \notin checksummed
      BY <2>2 DEF ManifestArrives, IInv, DigestsHaveOwners
    <3> DEFINE data == DigestStored(cache[Repo[t]], Own(t), useful)
    <3>2. cache' = [cache EXCEPT ![Repo[t]] = data]
      BY <2>2 DEF ManifestArrives
    <3>3. Learns(cache[Repo[t]], data) /\ data.sha \in {cache[Repo[t]].sha, Own(t)}
      BY <1>2, Learnt
    <3> HIDE DEF data
    <3> QED
      BY <3>1, <3>2, <3>3
  <2> QED
    BY <2>1, <2>2
<1>4. /\ cache' \in [Repos -> AuthCallbackData]
      /\ \A r \in Repos : cache'[r].sha # NoDigest =>
           \E u \in Targets \ checksummed : Repo[u] = r /\ cache'[r].sha = Own(u)
      /\ \A u \in Targets : ~NeedsPreparation(u) => ~NeedsPreparation(u)'
  BY <1>1, <1>3, CacheLearns
<1>5. TypeOK'
  BY <1>1, <1>4 DEF IInv, TypeOK, fixed
<1>6. RequestsAuthorized' /\ DigestsHaveOwners' /\ BlobIsOwnIfAlone'
  BY <1>1, <1>4 DEF IInv, TypeOK, RequestsAuthorized, DigestsHaveOwners, BlobIsOwnIfAlone,
                    AloneInRepository, Own, fixed
<1> QED
  BY <1>4, <1>5, <1>6 DEF GoodStep, IInv

\* The other steps leave the cache alone, and ask for nothing.
LEMMA EndGood ==
  ASSUME IInv, NEW t \in Targets,
         PreparationStops(t) \/ BlobArrives(t) \/ BlobFails(t) \/ RequestFails(t)
  PROVE  GoodStep
<1>1. UNCHANGED <<fixed, cache, bearer, blob>>
  BY DEF PreparationStops, BlobArrives, BlobFails, RequestFails
<1>2. stopped' \in BOOLEAN /\ retries' \in [Targets -> 0..AllowedMirrorFailures]
  <2>1. CASE BlobFails(t)
    <3>1. stopped' = stopped /\ retries[t] \in 0..AllowedMirrorFailures
      BY <2>1 DEF BlobFails, IInv, TypeOK
    <3>2. CASE RetriesLeft(t)
      <4>1. retries[t] + 1 \in 0..AllowedMirrorFailures
        BY <3>1, <3>2, OciConstantsOk DEF RetriesLeft
      <4> QED
        BY <2>1, <3>1, <3>2, <4>1 DEF BlobFails, IInv, TypeOK
    <3>3. CASE ~RetriesLeft(t)
      BY <2>1, <3>1, <3>3 DEF BlobFails, IInv, TypeOK
    <3> QED
      BY <3>2, <3>3
  <2>2. CASE ~BlobFails(t)
    BY <2>2 DEF PreparationStops, BlobArrives, RequestFails, IInv, TypeOK
  <2> QED
    BY <2>1, <2>2
<1>3. /\ state' \in [Targets -> States]
      /\ \A u \in Targets : state'[u] \in {"manifest", "blob"} => state'[u] = state[u]
  BY DEF PreparationStops, BlobArrives, BlobFails, RequestFails, Becomes, IInv, TypeOK, States
<1>4. \A u \in Targets : NeedsPreparation(u)' <=> NeedsPreparation(u)
  BY <1>1 DEF NeedsPreparation, Data, NeedAuth, fixed
<1>5. TypeOK'
  BY <1>1, <1>2, <1>3 DEF IInv, TypeOK, States, fixed
<1>6. RequestsAuthorized' /\ DigestsHaveOwners' /\ BlobIsOwnIfAlone'
  BY <1>1, <1>3 DEF IInv, RequestsAuthorized, DigestsHaveOwners, BlobIsOwnIfAlone,
                    AloneInRepository, Own, fixed
<1> QED
  BY <1>4, <1>5, <1>6 DEF GoodStep, IInv

LEMMA NextGood == IInv /\ [Next]_vars => GoodStep
<1> SUFFICES ASSUME IInv, [Next]_vars PROVE GoodStep
  OBVIOUS
<1>1. ASSUME NEW t \in Targets, TargetStep(t) PROVE GoodStep
  BY <1>1, PrepareGood, DownloadGood, AnswerGood, EndGood, TRUE \in BOOLEAN, FALSE \in BOOLEAN
     DEF TargetStep, UsefulAnswer
<1>2. CASE Terminated \/ UNCHANGED vars
  BY <1>2 DEF Terminated, vars, GoodStep, IInv, TypeOK, RequestsAuthorized, DigestsHaveOwners,
              BlobIsOwnIfAlone, AloneInRepository, Own, NeedsPreparation, Data, NeedAuth
<1> QED
  BY <1>1, <1>2 DEF Next

LEMMA AlwaysIInv == Spec => []IInv
<1>1. IInv /\ [Next]_vars => IInv'
  BY NextGood DEF GoodStep
<1> QED
  BY InitIInv, <1>1, PTL DEF Spec

-----------------------------------------------------------------------------
\* With a user and a password no manifest and no blob is asked for without the
\* token of its repository (get_auth_headers and needs_preparation, oci.cpp:122-129,
\* 221-239).
THEOREM RequestsAreAuthorized == Spec => []OciInv
<1>1. IInv => OciInv
  BY DEF IInv, OciInv
<1> QED
  BY <1>1, AlwaysIInv, PTL

\* A target asks for its own blob, unless another tag of its repository is
\* downloaded without a checksum (oci.cpp:202).
THEOREM OwnBlobIfAlone == Spec => []BlobIsOwnIfAlone
<1>1. IInv => BlobIsOwnIfAlone
  BY DEF IInv
<1> QED
  BY <1>1, AlwaysIInv, PTL

\* A prepared target is never sent back to its preparation by a late answer
\* to another target of its repository (needs_preparation, oci.cpp:221-239, and the
\* callbacks that fill the cache, 161-209).
THEOREM StaysPrepared == Spec => PreparedForGood
<1>1. IInv /\ [Next]_vars =>
        [\A t \in Targets : ~NeedsPreparation(t) => ~NeedsPreparation(t)']_vars
  BY NextGood DEF GoodStep
<1> QED
  BY <1>1, AlwaysIInv, PTL DEF Spec, PreparedForGood
=============================================================================
