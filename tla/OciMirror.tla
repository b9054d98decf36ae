----------------------------- MODULE OciMirror -----------------------------
(***************************************************************************)
(* What an OCI registry's mirror remembers between requests, and how the   *)
(* downloads that use it at the same time share it.  A path splits into a  *)
(* repository and a tag; m_path_cb_map keeps one token and one digest per  *)
(* repository.  A blob is named by the repository and the tag whose        *)
(* manifest lists it.                                                      *)
(*                                                                         *)
(* Requests are in flight for any subset of the targets and end in any     *)
(* order: the loop around them is the subject of Downloader.  Here the     *)
(* registry is the only mirror, and a target retries its blob only.        *)
(*                                                                         *)
(* A definition named Broken... or Looping... is a faulty variant of the   *)
(* one after it.  Nothing uses it: it serves to show that a property can   *)
(* fail.                                                                   *)
(***************************************************************************)
EXTENDS Naturals

CONSTANTS
  Targets, Repos, Tags,
  Repo, Tag,             \* split_path_tag of each target's path
  AllowedMirrorFailures  \* Downloader::allowed_mirror_failures

ASSUME OciConstantsOk ==
  /\ Repo \in [Targets -> Repos] /\ Tag \in [Targets -> Tags]
  /\ AllowedMirrorFailures \in Nat

Digests  == Repos \X Tags
NoDigest == <<>>

\* What m_path_cb_map has for a repository, if anything.
AuthCallbackData == [known: BOOLEAN, token: BOOLEAN, sha: Digests \cup {NoDigest}]
NoData == [known |-> FALSE, token |-> FALSE, sha |-> NoDigest]

VARIABLES
  credentials, \* what the mirror was created with: "none", "user", "both"
  checksummed, \* targets with a SHA256 checksum
  cache,       \* m_path_cb_map
  state,       \* of each target; "token", "manifest" and "blob" are in flight
  bearer,      \* Authorization of its request: "none", "empty" or "token"
  blob,        \* the blob its request asks for
  retries,     \* m_retries
  stopped      \* an exception or a crash has ended the download

vars == <<credentials, checksummed, cache, state, bearer, blob, retries, stopped>>
fixed == <<credentials, checksummed>>

Init ==
  /\ credentials \in {"none", "user", "both"}
  /\ checksummed \in SUBSET Targets
  /\ cache = [r \in Repos |-> NoData]
  /\ state = [t \in Targets |-> "waiting"]
  /\ bearer = [t \in Targets |-> "none"]
  /\ blob = [t \in Targets |-> NoDigest]
  /\ retries = [t \in Targets |-> 0]
  /\ stopped = FALSE

Own(t) == <<Repo[t], Tag[t]>>

Data(t) == cache[Repo[t]]

-----------------------------------------------------------------------------
NeedAuth == credentials = "both"

\* The token is asked for once per repository.
BrokenNeedsPreparation(t) ==
  (~Data(t).known /\ NeedAuth) \/ (Data(t).sha = NoDigest /\ t \notin checksummed)
\* The digest of the manifest is not looked at.
LoopingNeedsPreparation(t) ==
  (~Data(t).token /\ NeedAuth) \/ t \notin checksummed
NeedsPreparation(t) ==
  (~Data(t).token /\ NeedAuth) \/ (Data(t).sha = NoDigest /\ t \notin checksummed)

\* get_auth_headers looks the repository up with at().
AuthHeadersThrow(t) == credentials # "none" /\ ~Data(t).known

AuthHeaders(data) ==
  CASE credentials = "none"                -> "none"
    [] credentials # "none" /\ data.token  -> "token"
    [] credentials # "none" /\ ~data.token -> "empty"

BrokenFormatUrl(t) == IF Data(t).sha # NoDigest THEN Data(t).sha ELSE Own(t)
FormatUrl(t) == IF t \in checksummed THEN Own(t) ELSE Data(t).sha

Becomes(t, s) == state' = [state EXCEPT ![t] = s]

\* prepare: the data of the repository is created before the first answer.
Prepare(t) ==
  LET data == [Data(t) EXCEPT !.known = TRUE]
      asksToken == ~data.token /\ NeedAuth
  IN /\ ~stopped /\ state[t] = "waiting" /\ NeedsPreparation(t)
     /\ cache' = [cache EXCEPT ![Repo[t]] = data]
     /\ Becomes(t, IF asksToken THEN "token" ELSE "manifest")
     /\ bearer' = [bearer EXCEPT ![t] = IF asksToken THEN "none" ELSE AuthHeaders(data)]
     /\ UNCHANGED <<fixed, blob, retries, stopped>>

Download(t) ==
  /\ ~stopped /\ state[t] = "waiting" /\ ~NeedsPreparation(t)
  /\ IF AuthHeadersThrow(t)
     THEN stopped' = TRUE /\ UNCHANGED <<state, bearer, blob>>
     ELSE /\ Becomes(t, "blob")
          /\ bearer' = [bearer EXCEPT ![t] = AuthHeaders(Data(t))]
          /\ blob' = [blob EXCEPT ![t] = FormatUrl(t)]
          /\ UNCHANGED stopped
  /\ UNCHANGED <<fixed, cache, retries>>

-----------------------------------------------------------------------------
\* The end callbacks of prepare; useful is whether the answer has a token, or
\* layers.  The error they return for one that has not is ignored.

BrokenTokenStored(data, useful) == [data EXCEPT !.token = useful]
TokenStored(data, useful) == IF useful THEN [data EXCEPT !.token = TRUE] ELSE data

DigestStored(data, digest, useful) == IF useful THEN [data EXCEPT !.sha = digest] ELSE data

TokenArrives(t, useful) ==
  /\ ~stopped /\ state[t] = "token"
  /\ cache' = [cache EXCEPT ![Repo[t]] = TokenStored(@, useful)]
  /\ Becomes(t, "waiting")
  /\ UNCHANGED <<fixed, bearer, blob, retries, stopped>>

ManifestArrives(t, useful) ==
  /\ ~stopped /\ state[t] = "manifest"
  /\ cache' = [cache EXCEPT ![Repo[t]] = DigestStored(@, Own(t), useful)]
  /\ Becomes(t, "waiting")
  /\ UNCHANGED <<fixed, bearer, blob, retries, stopped>>

\* An answer that is not JSON, or has empty layers, throws; a request that ends
\* with an error and is retried crashes, since the target has no file yet
\* (RetryCrashes of Downloader).
PreparationStops(t) ==
  /\ ~stopped /\ state[t] \in {"token", "manifest"}
  /\ stopped' = TRUE
  /\ UNCHANGED <<fixed, cache, state, bearer, blob, retries>>

BlobArrives(t) ==
  /\ ~stopped /\ state[t] = "blob"
  /\ Becomes(t, "finished")
  /\ UNCHANGED <<fixed, cache, bearer, blob, retries, stopped>>

RetriesLeft(t) == retries[t] < AllowedMirrorFailures

BlobFails(t) ==
  /\ ~stopped /\ state[t] = "blob"
  /\ IF RetriesLeft(t)
     THEN Becomes(t, "waiting") /\ retries' = [retries EXCEPT ![t] = @ + 1]
     ELSE Becomes(t, "failed") /\ UNCHANGED retries
  /\ UNCHANGED <<fixed, cache, bearer, blob, stopped>>

\* Fatal errors, of whatever request.
RequestFails(t) ==
  /\ ~stopped /\ state[t] \in {"token", "manifest", "blob"}
  /\ Becomes(t, "failed")
  /\ UNCHANGED <<fixed, cache, bearer, blob, retries, stopped>>

Done == stopped \/ \A t \in Targets : state[t] \in {"finished", "failed"}

Terminated == Done /\ UNCHANGED vars

-----------------------------------------------------------------------------
UsefulAnswer(t) == TokenArrives(t, TRUE) \/ ManifestArrives(t, TRUE)

TargetStep(t) ==
  \/ Prepare(t) \/ Download(t)
  \/ UsefulAnswer(t) \/ TokenArrives(t, FALSE) \/ ManifestArrives(t, FALSE)
  \/ PreparationStops(t) \/ BlobArrives(t) \/ BlobFails(t) \/ RequestFails(t)

Next == (\E t \in Targets : TargetStep(t)) \/ Terminated

Spec == Init /\ [][Next]_vars

\* The loop and curl end every request, and the registry does not leave out
\* the token or the layers for ever: the code has no bound for that.
Fairness == \A t \in Targets : WF_vars(TargetStep(t)) /\ SF_vars(UsefulAnswer(t))

FairSpec == Spec /\ Fairness

-----------------------------------------------------------------------------
\* Properties.

\* Every variable keeps its type, and retries their bound.
TypeOK ==
  /\ credentials \in {"none", "user", "both"} /\ checksummed \subseteq Targets
  /\ cache \in [Repos -> AuthCallbackData]
  /\ state \in [Targets -> {"waiting", "token", "manifest", "blob", "finished", "failed"}]
  /\ bearer \in [Targets -> {"none", "empty", "token"}]
  /\ blob \in [Targets -> Digests \cup {NoDigest}]
  /\ retries \in [Targets -> 0..AllowedMirrorFailures]
  /\ stopped \in BOOLEAN

\* With a user and a password no manifest and no blob is asked for without the
\* token of its repository, whichever target asked for the token first.
RequestsAuthorized ==
  credentials = "both" =>
    \A t \in Targets : state[t] \in {"manifest", "blob"} => bearer[t] = "token"

\* What every state satisfies: the types, the bounds, and the authorization.
OciInv == TypeOK /\ RequestsAuthorized

\* No other target without a checksum reads another tag of t's repository.
AloneInRepository(t) ==
  \A u \in Targets \ checksummed : Repo[u] = Repo[t] => Tag[u] = Tag[t]

\* A target asks for its own blob: always if it has a checksum, and otherwise
\* if no other tag of its repository is downloaded by digest lookup.
BlobIsOwnIfAlone ==
  \A t \in Targets :
    state[t] = "blob" /\ (t \in checksummed \/ AloneInRepository(t)) => blob[t] = Own(t)

\* A target that needs no preparation any more never needs one again, whatever
\* late answers other targets of its repository receive.
PreparedForGood ==
  [][\A t \in Targets : ~NeedsPreparation(t) => ~NeedsPreparation(t)']_vars

\* Every target settles, unless the download stops.
TargetsSettle == <>Done
=============================================================================
