---------------------------- MODULE UploadProofs ----------------------------
(***************************************************************************)
(* OciUpload for every number of uploads, layers and tags: the registry    *)
(* never has a manifest without its blobs, the result of an upload tells   *)
(* what it published, and what it published stays.                         *)
(*                                                                         *)
(* That manifests are complete is not inductive: the step that publishes   *)
(* one must know that the parts before it are stored.  UploadedSoFar says  *)
(* so, of the part the upload has come to.                                 *)
(***************************************************************************)
EXTENDS OciUpload, Integers, TLAPS

\* The upload in progress has stored every part before the current one, and
\* all of them when it asks for its manifest.
UploadedSoFar ==
  pc # "idle" =>
    /\ upload \in Uploads
    /\ {upload} \X (1..(part - 1)) \subseteq stored
    /\ pc = "manifest" => Blobs(upload) \subseteq stored

IInv == TypeOK /\ ManifestComplete /\ PublishedStays /\ UploadedSoFar

Results == {"none", "ok", "refused", "unauthorized", "thrown"}
Requests == {"idle", "auth", "lookup", "post", "put", "manifest"}

-----------------------------------------------------------------------------
\* Wherever the upload goes on, it goes to the request that is next, or stops.
LEMMA ProceedType ==
  ASSUME result \in [Uploads -> Results], upload' \in Uploads, NEW next \in Requests,
         Proceed(next)
  PROVE  /\ pc' \in {next, "idle"}
         /\ result' \in [Uploads -> Results]
         /\ \A u \in Uploads : result'[u] # result[u] => result'[u] = "thrown"
BY DEF Proceed, Results, Requests

\* An upload that returns has the result it returns, and no other one changes.
LEMMA ReturnsType ==
  ASSUME result \in [Uploads -> Results], NEW r \in Results, Returns(r)
  PROVE  /\ pc' = "idle"
         /\ result' \in [Uploads -> Results]
         /\ \A u \in Uploads : result'[u] # result[u] => u = upload /\ result'[u] = r
BY DEF Returns, Results

\* A manifest whose blobs are stored keeps the registry complete.
LEMMA PublishComplete ==
  ASSUME TypeOK, ManifestComplete, upload \in Uploads, Publish,
         Blobs(upload) \subseteq stored, stored' = stored
  PROVE  /\ manifests' \in [Tags -> SUBSET (Uploads \X Parts)]
         /\ ManifestComplete'
         /\ manifests'[TagOf[upload]] = Blobs(upload)
<1>1. TagOf[upload] \in Tags
  BY UploadConstantsOk
<1>2. Blobs(upload) \subseteq Uploads \X Parts
  BY DEF Blobs
<1> QED
  BY <1>1, <1>2 DEF TypeOK, ManifestComplete, Publish

\* More blobs, and the same manifests, keep the registry complete.
LEMMA StoredComplete ==
  ASSUME ManifestComplete, stored \subseteq stored', manifests' = manifests
  PROVE  ManifestComplete'
BY DEF ManifestComplete

\* A tag is only ever taken over by the upload in progress, which is the last.
LEMMA PublicationKept ==
  ASSUME TypeOK, PublishedStays, upload' \in Uploads, upload' >= upload,
         manifests' = manifests \/ (upload' = upload /\ Publish),
         \A u \in Uploads : result'[u] = "ok" =>
           result[u] = "ok" \/ (u = upload /\ upload' = upload /\ Publish)
  PROVE  PublishedStays'
<1>1. SUFFICES ASSUME NEW u \in Uploads, result'[u] = "ok"
               PROVE  \E v \in u..upload' :
                        TagOf[v] = TagOf[u] /\ manifests'[TagOf[u]] = Blobs(v)
  BY DEF PublishedStays, Blobs, Parts, Uploads
<1>2. /\ upload \in Int /\ upload' \in Int /\ u \in Int
      /\ \A x \in Uploads : TagOf[x] \in Tags /\ x \in Int
  BY UploadConstantsOk DEF TypeOK, Uploads
<1>3. CASE u = upload /\ upload' = upload /\ Publish
  <2>1. manifests'[TagOf[u]] = Blobs(u)
    BY <1>2, <1>3 DEF TypeOK, Publish
  <2> QED
    BY <1>2, <1>3, <2>1
<1>4. CASE result[u] = "ok"
  <2>1. PICK v \in u..upload : TagOf[v] = TagOf[u] /\ manifests[TagOf[u]] = Blobs(v)
    BY <1>4 DEF PublishedStays
  <2>2. v \in u..upload'
    BY <1>2, <2>1
  <2>3. CASE manifests'[TagOf[u]] = manifests[TagOf[u]]
    BY <2>1, <2>2, <2>3
  <2>4. CASE manifests'[TagOf[u]] # manifests[TagOf[u]]
    <3>1. upload' = upload /\ Publish /\ TagOf[u] = TagOf[upload]
      BY <1>2, <2>4 DEF TypeOK, Publish
    <3>2. manifests'[TagOf[u]] = Blobs(upload) /\ upload \in u..upload'
      BY <1>2, <2>1, <3>1 DEF TypeOK, Publish
    <3> QED
      BY <3>1, <3>2
  <2> QED
    BY <2>3, <2>4
<1> QED
  BY <1>1, <1>3, <1>4

LEMMA SameUpload == ASSUME upload \in Uploads PROVE upload >= upload
BY UploadConstantsOk DEF Uploads

-----------------------------------------------------------------------------
LEMMA InitIInv == Init => IInv
<1> SUFFICES ASSUME Init PROVE IInv
  OBVIOUS
<1>1. upload \in 0..NUploads /\ part \in Parts
  BY UploadConstantsOk DEF Init, Parts
<1>2. manifests \in [Tags -> SUBSET (Uploads \X Parts)] /\ \A g \in Tags : manifests[g] = {}
  BY DEF Init
<1>3. TypeOK
  BY <1>1, <1>2 DEF Init, TypeOK
<1> QED
  BY <1>2, <1>3 DEF Init, IInv, ManifestComplete, PublishedStays, UploadedSoFar

\* What every step establishes.
GoodStep ==
  /\ IInv'
  /\ \A u \in Uploads : result'[u] # result[u] =>
       /\ result'[u] = "ok" => /\ manifests'[TagOf[u]] = Blobs(u)
                               /\ Blobs(u) \subseteq stored'
       /\ result'[u] \in {"refused", "unauthorized"} => manifests' = manifests

LEMMA BeginGood ==
  ASSUME IInv, Begin
  PROVE  GoodStep
<1>1. /\ upload' \in Uploads /\ upload' \in 0..NUploads /\ part' = 1 /\ part' \in Parts
      /\ token' \in BOOLEAN /\ known' \in BOOLEAN
      /\ UNCHANGED <<credentials, sameMirror, stored, manifests>>
  BY UploadConstantsOk DEF Begin, IInv, TypeOK, Uploads, Parts, fixed, registry
<1>2. /\ pc' \in {"idle", "auth", "lookup", "post"} /\ result' \in [Uploads -> Results]
      /\ \A u \in Uploads : result'[u] # result[u] => result'[u] = "thrown"
  BY <1>1, ProceedType DEF Begin, IInv, TypeOK, Results, Requests
<1>3. TypeOK'
  BY <1>1, <1>2 DEF IInv, TypeOK, Results
<1>4. ManifestComplete' /\ UploadedSoFar'
  BY <1>1, <1>2 DEF IInv, ManifestComplete, UploadedSoFar
<1>5. PublishedStays'
  <2>1. upload' >= upload
    BY DEF Begin, IInv, TypeOK
  <2> QED
    BY <1>1, <1>2, <2>1, PublicationKept DEF IInv
<1> QED
  BY <1>2, <1>3, <1>4, <1>5 DEF GoodStep, IInv

\* The answers of prepare, and the one that tells where to upload a blob.
LEMMA AnswerGood ==
  ASSUME IInv, NEW b \in BOOLEAN,
         TokenArrives(b) \/ ManifestFound \/ AuthRefused \/ PostAnswered(b)
  PROVE  GoodStep
<1>1. /\ upload \in Uploads /\ upload' = upload /\ part' = part
      /\ token' \in BOOLEAN /\ pc # "idle"
      /\ UNCHANGED <<credentials, sameMirror, known, stored, manifests>>
  BY DEF TokenArrives, ManifestFound, AuthRefused, PostAnswered, IInv, UploadedSoFar, TypeOK,
         fixed, registry
<1>2. /\ pc' \in {"idle", "post", "put"} /\ result' \in [Uploads -> Results]
      /\ \A u \in Uploads : result'[u] # result[u] =>
           result'[u] \in {"thrown", "refused", "unauthorized"}
  BY <1>1, ProceedType, ReturnsType
     DEF TokenArrives, ManifestFound, AuthRefused, PostAnswered, IInv, TypeOK, Results, Requests
<1>3. TypeOK'
  BY <1>1, <1>2 DEF IInv, TypeOK, Results
<1>4. ManifestComplete' /\ UploadedSoFar'
  BY <1>1, <1>2 DEF IInv, ManifestComplete, UploadedSoFar
<1>5. PublishedStays'
  BY <1>1, <1>2, SameUpload, PublicationKept DEF IInv
<1> QED
  BY <1>1, <1>2, <1>3, <1>4, <1>5 DEF GoodStep, IInv

\* A part is stored, or refused; after the last one the manifest follows.
LEMMA PutGood ==
  ASSUME IInv, NEW ok \in BOOLEAN, PutAnswered(ok)
  PROVE  GoodStep
<1>1. /\ upload \in Uploads /\ upload' = upload /\ part \in Parts /\ pc = "put"
      /\ result \in [Uploads -> Results] /\ {upload} \X (1..(part - 1)) \subseteq stored
      /\ UNCHANGED <<credentials, sameMirror, known, token, manifests>>
  BY DEF PutAnswered, IInv, UploadedSoFar, TypeOK, fixed, Results
<1>2. /\ stored \subseteq stored' /\ stored' \subseteq Uploads \X Parts
      /\ ok => <<upload, part>> \in stored'
  BY <1>1 DEF PutAnswered, IInv, TypeOK
<1>3. /\ pc' \in {"idle", "post", "manifest"} /\ result' \in [Uploads -> Results]
      /\ \A u \in Uploads : result'[u] # result[u] => result'[u] \in {"thrown", "refused"}
  BY <1>1, ProceedType, ReturnsType DEF PutAnswered, AfterPart, Results, Requests
<1>4. PublishedStays'
  BY <1>1, <1>3, SameUpload, PublicationKept DEF IInv
<1>5. CASE ~ok
  <2>1. pc' = "idle" /\ part' = part
    BY <1>1, <1>5 DEF PutAnswered, Returns
  <2> QED
    BY <1>1, <1>2, <1>3, <1>4, <2>1, StoredComplete DEF GoodStep, IInv, TypeOK, UploadedSoFar, Results
<1>6. CASE ok
  <2>1. {upload} \X (1..part) \subseteq stored'
    <3>1. \A i \in 1..part : i = part \/ i \in 1..(part - 1)
      BY <1>1, UploadConstantsOk DEF Parts
    <3> QED
      BY <1>1, <1>2, <1>6, <3>1
  <2>2. /\ part' \in Parts /\ part' \in {part, part + 1}
        /\ pc' = "manifest" => part = NLayers + 1
    BY <1>1, <1>6, UploadConstantsOk DEF PutAnswered, AfterPart, Parts, Proceed
  <2>3. UploadedSoFar'
    <3>1. {upload} \X (1..(part' - 1)) \subseteq stored'
      <4>1. CASE part' = part
        BY <1>1, <1>2, <4>1
      <4>2. CASE part' = part + 1
        <5>1. part' - 1 = part
          BY <1>1, <4>2, UploadConstantsOk DEF Parts
        <5> QED
          BY <2>1, <5>1
      <4> QED
        BY <2>2, <4>1, <4>2
    <3>2. pc' = "manifest" => Blobs(upload) \subseteq stored'
      BY <2>1, <2>2 DEF Blobs, Parts
    <3> QED
      BY <1>1, <3>1, <3>2 DEF UploadedSoFar, Blobs
  <2>4. TypeOK'
    BY <1>1, <1>2, <1>3, <2>2 DEF IInv, TypeOK, Results
  <2> QED
    BY <1>1, <1>2, <1>3, <1>4, <2>3, <2>4, StoredComplete DEF GoodStep, IInv
<1> QED
  BY <1>5, <1>6

LEMMA ManifestGood ==
  ASSUME IInv, NEW ok \in BOOLEAN, ManifestAnswered(ok)
  PROVE  GoodStep
<1>1. /\ upload \in Uploads /\ Blobs(upload) \subseteq stored
      /\ result \in [Uploads -> Results]
      /\ UNCHANGED <<credentials, sameMirror, upload, part, known, token, stored>>
  BY DEF ManifestAnswered, IInv, UploadedSoFar, TypeOK, fixed, Results
<1>2. /\ pc' = "idle" /\ result' \in [Uploads -> Results]
      /\ \A u \in Uploads : result'[u] # result[u] =>
           u = upload /\ result'[u] = IF ok THEN "ok" ELSE "refused"
  BY <1>1, ReturnsType DEF ManifestAnswered, Results
<1>3. /\ manifests' \in [Tags -> SUBSET (Uploads \X Parts)] /\ ManifestComplete'
      /\ ok => manifests'[TagOf[upload]] = Blobs(upload)
      /\ ~ok => manifests' = manifests
  BY <1>1, PublishComplete, StoredComplete DEF ManifestAnswered, IInv, TypeOK
<1>4. TypeOK'
  BY <1>1, <1>2, <1>3 DEF IInv, TypeOK, Results
<1>5. UploadedSoFar'
  BY <1>2 DEF UploadedSoFar
<1>6. PublishedStays'
  BY <1>1, <1>2, SameUpload, PublicationKept DEF IInv, ManifestAnswered
<1> QED
  BY <1>1, <1>2, <1>3, <1>4, <1>5, <1>6 DEF GoodStep, IInv

\* An exception, after the registry has or has not done what it was asked.
LEMMA ThrowGood ==
  ASSUME IInv, NEW carriedOut \in BOOLEAN, RequestThrows(carriedOut)
  PROVE  GoodStep
<1>1. /\ upload \in Uploads /\ part \in Parts /\ result \in [Uploads -> Results]
      /\ UNCHANGED <<credentials, sameMirror, upload, part, known, token>>
  BY DEF RequestThrows, IInv, UploadedSoFar, TypeOK, fixed, Results
<1>2. /\ pc' = "idle" /\ result' \in [Uploads -> Results]
      /\ \A u \in Uploads : result'[u] # result[u] => result'[u] = "thrown"
  BY <1>1, ReturnsType DEF RequestThrows, Results
<1>3. stored \subseteq stored' /\ stored' \subseteq Uploads \X Parts
  BY <1>1 DEF RequestThrows, IInv, TypeOK
<1>4. manifests' \in [Tags -> SUBSET (Uploads \X Parts)] /\ ManifestComplete'
  <2>1. CASE pc = "manifest" /\ carriedOut
    <3>1. Blobs(upload) \subseteq stored /\ stored' = stored /\ Publish
      BY <2>1 DEF RequestThrows, IInv, UploadedSoFar
    <3> QED
      BY <1>1, <3>1, PublishComplete DEF IInv
  <2>2. CASE ~(pc = "manifest" /\ carriedOut)
    <3>1. manifests' = manifests
      BY <2>2 DEF RequestThrows
    <3> QED
      BY <1>3, <3>1, StoredComplete DEF IInv, TypeOK
  <2> QED
    BY <2>1, <2>2
<1>5. TypeOK'
  BY <1>1, <1>2, <1>3, <1>4 DEF IInv, TypeOK, Results
<1>6. UploadedSoFar'
  BY <1>2 DEF UploadedSoFar
<1>7. PublishedStays'
  <2>1. manifests' = manifests \/ Publish
    BY DEF RequestThrows
  <2> QED
    BY <1>1, <1>2, <2>1, SameUpload, PublicationKept DEF IInv
<1> QED
  BY <1>2, <1>4, <1>5, <1>6, <1>7 DEF GoodStep, IInv

LEMMA NextGood == IInv /\ [Next]_vars => GoodStep
<1> SUFFICES ASSUME IInv, [Next]_vars PROVE GoodStep
  OBVIOUS
<1>1. CASE Begin
  BY <1>1, BeginGood
<1>2. CASE ManifestFound \/ AuthRefused
  BY <1>2, AnswerGood, TRUE \in BOOLEAN
<1>3. ASSUME NEW b \in BOOLEAN,
             TokenArrives(b) \/ PostAnswered(b) \/ PutAnswered(b) \/ ManifestAnswered(b)
               \/ RequestThrows(b)
      PROVE  GoodStep
  BY <1>3, AnswerGood, PutGood, ManifestGood, ThrowGood
<1>4. CASE Terminated \/ UNCHANGED vars
  BY <1>4 DEF Terminated, vars, GoodStep, IInv, TypeOK, ManifestComplete, UploadedSoFar,
     PublishedStays
<1> QED
  BY <1>1, <1>2, <1>3, <1>4 DEF Next

-----------------------------------------------------------------------------
\* The registry never has a manifest whose blobs it does not have, whatever is
\* refused, breaks or is repeated, and the tag of an upload that returned ok
\* has its manifest until a later upload replaces it (oci_upload.cpp:156-195).
THEOREM ManifestsComplete == Spec => []UploadInv
<1>1. IInv /\ [Next]_vars => IInv'
  BY NextGood DEF GoodStep
<1>2. IInv => UploadInv
  BY DEF IInv, UploadInv
<1> QED
  BY InitIInv, <1>1, <1>2, PTL DEF Spec

\* An upload that returns ok has published all its blobs under its tag, and a
\* refused one has left every tag as it was (oci_upload.cpp:193-195).
THEOREM ResultsTellPublication == Spec => ResultTellsPublication
<1>1. IInv /\ [Next]_vars => IInv'
  BY NextGood DEF GoodStep
<1>2. IInv /\ [Next]_vars =>
        [\A u \in Uploads : result'[u] # result[u] =>
           /\ result'[u] = "ok" => /\ manifests'[TagOf[u]] = Blobs(u)
                                   /\ Blobs(u) \subseteq stored'
           /\ result'[u] \in {"refused", "unauthorized"} => manifests' = manifests]_vars
  BY NextGood DEF GoodStep
<1> QED
  BY InitIInv, <1>1, <1>2, PTL DEF Spec, ResultTellsPublication
=============================================================================
