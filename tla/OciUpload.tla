----------------------------- MODULE OciUpload -----------------------------
(***************************************************************************)
(* oci_upload: the blocking requests that publish an artifact under a tag  *)
(* of one repository: a token, every layer, the config, the manifest.  A   *)
(* program performs several uploads one after the other, on one mirror or  *)
(* on a new one each (as the command line does); any request may be        *)
(* refused, or end with an exception although the registry carried it out. *)
(* The registry does not check a manifest, so that the order in which the  *)
(* code uploads is all that keeps it complete.                             *)
(*                                                                         *)
(* A definition named Broken... is a faulty variant of the one after it.   *)
(* Nothing uses it: it serves to show that a property can fail.            *)
(***************************************************************************)
EXTENDS Naturals

CONSTANTS
  NLayers,   \* layers of each artifact
  NUploads,  \* bound: number of uploads
  Tags,
  TagOf      \* the tag of each upload

Uploads == 1..NUploads

ASSUME UploadConstantsOk ==
  NLayers \in Nat /\ NUploads \in Nat /\ TagOf \in [Uploads -> Tags]

\* The blobs of an upload: its layers in order, then its config.
Parts == 1..(NLayers + 1)
Blobs(u) == {u} \X Parts

VARIABLES
  credentials, \* what the mirrors are created with: "none", "user", "both"
  sameMirror,  \* one mirror, and its token, for all uploads
  upload,      \* current upload, 0 before the first
  pc,          \* "idle" between uploads, otherwise the request in progress
  part,        \* the part of the upload in progress
  known, token,\* whether m_path_cb_map has data, and a token, for the repository
  stored,      \* blobs of the registry
  manifests,   \* blobs the manifest of each tag lists, {} if there is none
  result       \* of each upload: "none", "ok", "refused", "unauthorized", "thrown"

vars == <<credentials, sameMirror, upload, pc, part, known, token, stored, manifests, result>>
fixed == <<credentials, sameMirror>>
registry == <<stored, manifests>>

Init ==
  /\ credentials \in {"none", "user", "both"} /\ sameMirror \in BOOLEAN
  /\ upload = 0 /\ pc = "idle" /\ part = 1
  /\ known = FALSE /\ token = FALSE
  /\ stored = {} /\ manifests = [g \in Tags |-> {}]
  /\ result = [u \in Uploads |-> "none"]

-----------------------------------------------------------------------------
\* The upload goes on with its next request; with a user name but no password
\* get_auth_headers throws, as nothing has created data for the repository.
Proceed(next) ==
  IF credentials = "user" /\ ~known
  THEN pc' = "idle" /\ result' = [result EXCEPT ![upload'] = "thrown"]
  ELSE pc' = next /\ UNCHANGED result

Returns(r) == pc' = "idle" /\ result' = [result EXCEPT ![upload] = r]

\* prepare asks for a token, or for the manifest of the tag "latest" if the
\* mirror has a token already.
Begin ==
  /\ pc = "idle" /\ upload < NUploads
  /\ upload' = upload + 1 /\ part' = 1
  /\ token' = (token /\ sameMirror)
  /\ known' = (credentials = "both" \/ (known /\ sameMirror))
  /\ IF credentials # "both" THEN Proceed("post")
     ELSE pc' = (IF token' THEN "lookup" ELSE "auth") /\ UNCHANGED result
  /\ UNCHANGED <<fixed, registry>>

\* A successful answer without a token goes unnoticed.
TokenArrives(hasToken) ==
  /\ pc = "auth"
  /\ token' = hasToken
  /\ Proceed("post")
  /\ UNCHANGED <<fixed, upload, part, known, registry>>

ManifestFound ==
  /\ pc = "lookup"
  /\ "latest" \in Tags /\ manifests["latest"] # {}
  /\ Proceed("post")
  /\ UNCHANGED <<fixed, upload, part, known, token, registry>>

AuthRefused ==
  /\ pc \in {"auth", "lookup"}
  /\ Returns("unauthorized")
  /\ UNCHANGED <<fixed, upload, part, known, token, registry>>

-----------------------------------------------------------------------------
\* The answer to the POST tells where to upload the blob.
PostAnswered(ok) ==
  /\ pc = "post"
  /\ IF ok THEN Proceed("put") ELSE Returns("refused")
  /\ UNCHANGED <<fixed, upload, part, known, token, registry>>

\* The last part is the config; the manifest follows it.
BrokenAfterPart(i) == IF i < NLayers THEN "post" ELSE "manifest"
AfterPart(i) == IF i <= NLayers THEN "post" ELSE "manifest"

PutAnswered(ok) ==
  /\ pc = "put"
  /\ stored' = IF ok THEN stored \cup {<<upload, part>>} ELSE stored
  /\ IF ok
     THEN Proceed(AfterPart(part)) /\ part' = IF AfterPart(part) = "post" THEN part + 1 ELSE part
     ELSE Returns("refused") /\ UNCHANGED part
  /\ UNCHANGED <<fixed, upload, known, token, manifests>>

BrokenPublish == manifests' = [manifests EXCEPT ![TagOf[upload]] = {upload} \X (1..NLayers)]
Publish == manifests' = [manifests EXCEPT ![TagOf[upload]] = Blobs(upload)]

\* oci_upload returns the registry's answer to the manifest.
ManifestAnswered(ok) ==
  /\ pc = "manifest"
  /\ IF ok THEN Publish ELSE UNCHANGED manifests
  /\ Returns(IF ok THEN "ok" ELSE "refused")
  /\ UNCHANGED <<fixed, upload, part, known, token, stored>>

\* curl reports an error, or an answer lacks its location or is not JSON; the
\* registry may have carried the request out.
RequestThrows(carriedOut) ==
  /\ pc # "idle"
  /\ IF pc = "put" /\ carriedOut THEN stored' = stored \cup {<<upload, part>>} ELSE UNCHANGED stored
  /\ IF pc = "manifest" /\ carriedOut THEN Publish ELSE UNCHANGED manifests
  /\ Returns("thrown")
  /\ UNCHANGED <<fixed, upload, part, known, token>>

Terminated == pc = "idle" /\ upload = NUploads /\ UNCHANGED vars

Next ==
  \/ Begin \/ ManifestFound \/ AuthRefused \/ Terminated
  \/ \E b \in BOOLEAN : \/ TokenArrives(b) \/ PostAnswered(b) \/ PutAnswered(b)
                        \/ ManifestAnswered(b) \/ RequestThrows(b)

Spec == Init /\ [][Next]_vars

-----------------------------------------------------------------------------
\* Properties.

\* Every variable keeps its type.
TypeOK ==
  /\ credentials \in {"none", "user", "both"} /\ sameMirror \in BOOLEAN
  /\ upload \in 0..NUploads /\ part \in Parts
  /\ pc \in {"idle", "auth", "lookup", "post", "put", "manifest"}
  /\ known \in BOOLEAN /\ token \in BOOLEAN
  /\ stored \subseteq Uploads \X Parts
  /\ manifests \in [Tags -> SUBSET (Uploads \X Parts)]
  /\ result \in [Uploads -> {"none", "ok", "refused", "unauthorized", "thrown"}]

\* The registry never has a manifest whose blobs it does not have, wherever
\* uploads are refused, break or are repeated.
ManifestComplete == \A g \in Tags : manifests[g] \subseteq stored

\* What returned ok stays published: the manifest of its tag is its own, or that
\* of a later upload under the same tag, also if that one was not told so.
PublishedStays ==
  \A u \in Uploads : result[u] = "ok" =>
    \E v \in u..upload : TagOf[v] = TagOf[u] /\ manifests[TagOf[u]] = Blobs(v)

\* What every state satisfies: the types, and the registry.
UploadInv == TypeOK /\ ManifestComplete /\ PublishedStays

\* An upload that returns ok is published under its tag with all its blobs, and
\* one that is refused has left every tag as it was.
ResultTellsPublication ==
  [][\A u \in Uploads : result'[u] # result[u] =>
       /\ result'[u] = "ok" => /\ manifests'[TagOf[u]] = Blobs(u)
                               /\ Blobs(u) \subseteq stored'
       /\ result'[u] \in {"refused", "unauthorized"} => manifests' = manifests]_vars
=============================================================================
