------------------------------ MODULE OCIAttach ------------------------------
(***************************************************************************)
(* Attaching artifacts to an image in a container registry                  *)
(* (packages/oci/src): concurrent addArtifact() calls, each a sequence of    *)
(* requests of its RegistryClient, over the retrying client of FetchRetry,  *)
(* with the registry at the other end.                                     *)
(*                                                                         *)
(* The client's own fetchWithRetry (fetch.ts) retries as that of the sign   *)
(* package does; it returns any other response, and the last one when the   *)
(* retries are used up, so that here the status of the result decides.     *)
(*                                                                         *)
(* The registry is external.  It may serve the referrers API, report the    *)
(* subject of a manifest, and give ETags, as its traits say.  The index     *)
(* under the referrers tag is kept with its history, and what an answer     *)
(* identifies is a version of it; an ETag stands for the content.          *)
(***************************************************************************)
EXTENDS FetchRetry, Sequences

CONSTANTS
  Calls,          \* the addArtifact() calls, all for one image
  Artifact,       \* Artifact[d]: the artifact blob that manifest d refers to
  EmptyBlob,      \* the config blob every manifest refers to
  Credentials,    \* "none", "password", or "token" (an OAuth2 refresh token)
  Settings,       \* the calls and registries considered: records of
                  \* manifest[c], the manifest call c builds (by its digest),
                  \* traits, the registry's, versions, the history its index
                  \* has at first, and blobs, the blobs it holds at first
  Faulty          \* bound: the operations that may be refused or get no answer
                  \* (Bodies bounds the versions of the index, as well)

Blobs == {"artifact", "empty"}
HeadBlob  == [artifact |-> "head artifact", empty |-> "head empty"]
PostBlob  == [artifact |-> "post artifact", empty |-> "post empty"]
PutBlob   == [artifact |-> "put artifact",  empty |-> "put empty"]

Ops == {"probe", "oauth", "token", "image", "manifest", "ping", "index", "tag"}
         \cup UNION {{HeadBlob[b], PostBlob[b], PutBlob[b]} : b \in Blobs}

Req(c, op)   == [call |-> c, op |-> op]
CallRequests == {Req(c, op) : c \in Calls, op \in Ops}

ASSUME RequestsAssumption == Requests = CallRequests
ASSUME StatusesAssumption == {200, 201, 202, 401, 404, 412} \subseteq Statuses
ASSUME AttachAssumption ==
  /\ Credentials \in {"none", "password", "token"}
  /\ \A s \in Settings : s.traits \subseteq {"referrers", "subject", "etag"}
  /\ Faulty \subseteq Ops /\ {0, 1, 2} \subseteq Bodies

VARIABLES
  stage,      \* stage[c]: the request call c awaits, or how it settled
  manifest,   \* manifest[c]: the manifest call c attaches
  traits,     \* the registry's
  blobs,      \* the registry's blobs
  manifests,  \* its manifests, but for the index
  versions    \* every index that was put under the referrers tag, in order

attachVars == <<stage, manifest, traits, blobs, manifests, versions>>
vars       == <<attachVars, fetchVars>>

Blob(c, b) == IF b = "empty" THEN EmptyBlob ELSE Artifact[manifest[c]]

Current == IF versions = <<>> THEN <<>> ELSE versions[Len(versions)]
Listed(d, index) == \E k \in DOMAIN index : index[k] = d
NoneTwice(index) == \A i, j \in DOMAIN index : index[i] = index[j] => i = j

(* What the registry's index lists at first is of others, and listed once.   *)
ASSUME SettingsAssumption ==
  \A s \in Settings :
    /\ s.manifest \in [Calls -> DOMAIN Artifact]
    /\ s.versions \in Seq(Seq(DOMAIN Artifact)) /\ Len(s.versions) \in Bodies
    /\ \A k \in DOMAIN s.versions :
         NoneTwice(s.versions[k]) /\ \A c \in Calls : ~ Listed(s.manifest[c], s.versions[k])

-----------------------------------------------------------------------------
Init ==
  /\ FetchInit
  /\ stage     = [c \in Calls |-> "new"]
  /\ manifests = {}
  /\ \E s \in Settings : /\ manifest = s.manifest /\ traits = s.traits
                        /\ blobs = s.blobs /\ versions = s.versions

(* The response to the request call c awaits, or none: fetch has thrown.    *)
Came(c, op) == stage[c] = op /\ call[Req(c, op)] \in {"ok", "failed"}
Status(c, op) == result[Req(c, op)].status
Body(c, op)   == result[Req(c, op)].body
Answered(c, op) == Came(c, op) /\ Status(c, op) # 0
Got(c, op, status) == Came(c, op) /\ Status(c, op) = status

Go(c, op) ==
  /\ stage' = [stage EXCEPT ![c] = op]
  /\ Begin({Req(c, op)})
  /\ UNCHANGED <<manifest, traits, blobs, manifests, versions>>

Settle(c, outcome) ==
  /\ stage' = [stage EXCEPT ![c] = outcome]
  /\ UNCHANGED <<manifest, traits, blobs, manifests, versions, fetchVars>>

Resolve(c) == Settle(c, "resolved")
Reject(c)  == Settle(c, "rejected")

-----------------------------------------------------------------------------
(* addArtifact: with credentials it signs in first.                        *)
Start(c) ==
  /\ stage[c] = "new"
  /\ Go(c, IF Credentials = "none" THEN "image" ELSE "probe")

\* Mutant: a basic challenge ends the sign-in without going on.
SignInBasic(c) ==
  \/ /\ Answered(c, "probe") /\ Status(c, "probe") # 200
     /\ CASE Body(c, "probe") = 2 -> Go(c, "token")
          [] Body(c, "probe") = 0 -> Reject(c)
          [] OTHER -> FALSE
  \/ Got(c, "token", 200) /\ (Go(c, "image") \/ Reject(c))

(* signIn.  The challenge of an answer other than 200: 1 for basic, 2 for    *)
(* bearer, 0 for one that cannot be parsed.                                *)
SignIn(c) ==
  \/ /\ Answered(c, "probe")
     /\ CASE Status(c, "probe") = 200 \/ Body(c, "probe") = 1 -> Go(c, "image")
          [] Status(c, "probe") # 200 /\ Body(c, "probe") = 2 ->
                Go(c, IF Credentials = "token" THEN "oauth" ELSE "token")
          [] OTHER -> Reject(c)
  \/ /\ Came(c, "oauth")
     /\ Go(c, IF Status(c, "oauth") = 200 /\ Body(c, "oauth") # 0 THEN "image" ELSE "token")
  \/ Got(c, "token", 200) /\ (Go(c, "image") \/ Reject(c))

CheckManifest(c) == Got(c, "image", 200) /\ Go(c, HeadBlob["artifact"])

\* Mutant: the config blob is not uploaded.
AfterBlobEarly(b) == "manifest"
AfterBlob(b) == IF b = "artifact" THEN HeadBlob["empty"] ELSE "manifest"

(* uploadBlob: the blob is uploaded unless the registry has it.  Only a 202  *)
(* with a Location says where to.                                          *)
UploadBlob(c, b) ==
  \/ Got(c, HeadBlob[b], 200) /\ Go(c, AfterBlob(b))
  \/ Answered(c, HeadBlob[b]) /\ Status(c, HeadBlob[b]) # 200 /\ Go(c, PostBlob[b])
  \/ Got(c, PostBlob[b], 202) /\ Body(c, PostBlob[b]) # 0 /\ Go(c, PutBlob[b])
  \/ Got(c, PutBlob[b], 201) /\ Go(c, AfterBlob(b))

UploadManifest(c) == Got(c, "manifest", 201) /\ Go(c, "ping")

\* Mutant: the subject header alone is taken for support of the API.
ReferrersSupportedSubject(c) == Body(c, "manifest") = 1

(* The registry lists the referrers of a manifest by itself.               *)
ReferrersSupported(c) == Body(c, "manifest") = 1 /\ Status(c, "ping") = 200

PingReferrers(c) ==
  /\ Answered(c, "ping")
  /\ IF ReferrersSupported(c) THEN Resolve(c) ELSE Go(c, "index")

(* The index that was read, or a new one.                                  *)
ReadIndex(c) == IF Status(c, "index") = 200 THEN versions[Body(c, "index")] ELSE <<>>

\* Mutant: the artifact is added whether or not the index lists it.
AddToIndexAgain(c) ==
  /\ Got(c, "index", 404) \/ (Got(c, "index", 200) /\ Body(c, "index") # 0)
  /\ Go(c, "tag")

(* createReferrersIndexByTag: the index is put again with the artifact in    *)
(* it, unless it lists it already.                                         *)
AddToIndex(c) ==
  /\ Got(c, "index", 404) \/ (Got(c, "index", 200) /\ Body(c, "index") # 0)
  /\ IF Listed(manifest[c], ReadIndex(c)) THEN Resolve(c) ELSE Go(c, "tag")

UploadIndex(c) == Got(c, "tag", 201) /\ Resolve(c)

(* Any other status than the one expected, a Location that is missing, an   *)
(* index that is none, or no answer: addArtifact throws an OCIError.       *)
Expected ==
  [op \in Ops |-> CASE op \in {"image", "token"} -> {200}
                    [] op = "index" -> {200, 404}
                    [] op \in {PostBlob[b] : b \in Blobs} -> {202}
                    [] op \in {PutBlob[b] : b \in Blobs} \cup {"manifest", "tag"} -> {201}
                    [] OTHER -> Statuses]

GiveUp(c) ==
  /\ \E op \in Ops \ {"oauth"} :
       /\ Came(c, op)
       /\ \/ Status(c, op) \notin Expected[op]
          \/ op \in {PostBlob[b] : b \in Blobs} /\ Body(c, op) = 0
          \/ op = "index" /\ Status(c, op) = 200 /\ Body(c, op) = 0
  /\ Reject(c)

AddArtifact(c) ==
  \/ Start(c) \/ SignIn(c) \/ CheckManifest(c) \/ UploadManifest(c)
  \/ \E b \in Blobs : UploadBlob(c, b)
  \/ PingReferrers(c) \/ AddToIndex(c) \/ UploadIndex(c) \/ GiveUp(c)

\* Without a timeout in fetchOpts an attempt ends by its answer alone.
Client(q) ==
  /\ Resend(q) \/ Receive(q) \/ (q.op \in Faulty /\ Abort(q))
  /\ UNCHANGED attachVars

-----------------------------------------------------------------------------
(* The registry.                                                           *)
Answer(m, status, body) == Deliver(m, [status |-> status, body |-> body])

(* A copy is lost, or refused: for lack of authority, or for a while.  404   *)
(* and 412 are the registry's word on what it holds.                       *)
Refuse(m) ==
  /\ m.req.op \in Faulty
  /\ \/ Deliver(m, NoAnswer)
     \/ \E status \in Statuses \ (200 .. 299 \cup {404, 412}) : Answer(m, status, 0)
  /\ UNCHANGED attachVars

Look(m) ==
  LET op == m.req.op
  IN  /\ \/ op = "probe" /\ \/ \E status \in {200, 202} : Answer(m, status, 0)
                            \/ \E scheme \in {0, 1, 2} : Answer(m, 401, scheme)
         \/ op \in {"oauth", "token"} /\ \E b \in {0, 1} : Answer(m, 200, b)
         \/ op = "image" /\ Answer(m, 200, 0)
         \/ \E b \in Blobs : op = HeadBlob[b] /\
              Answer(m, IF Blob(m.req.call, b) \in blobs THEN 200 ELSE 404, 0)
         \/ \E b \in Blobs : op = PostBlob[b] /\
              \E located \in {1} \cup {0 : o \in Faulty \cap {op}} : Answer(m, 202, located)
         \/ op = "ping" /\ Answer(m, IF "referrers" \in traits THEN 200 ELSE 404, 0)
         \/ op = "index" /\ IF versions = <<>> THEN Answer(m, 404, 0)
                                               ELSE Answer(m, 200, Len(versions))
         \/ op = "index" /\ op \in Faulty /\ Answer(m, 200, 0)
      /\ UNCHANGED attachVars

(* The registry does what is asked; the answer may be lost.                *)
Done(m, body) == Answer(m, 201, body) \/ (m.req.op \in Faulty /\ Deliver(m, NoAnswer))

StoreBlob(m) ==
  \E b \in Blobs :
    /\ m.req.op = PutBlob[b]
    /\ blobs' = blobs \cup {Blob(m.req.call, b)}
    /\ Done(m, 0)
    /\ UNCHANGED <<stage, manifest, traits, manifests, versions>>

StoreManifest(m) ==
  /\ m.req.op = "manifest"
  /\ manifests' = manifests \cup {manifest[m.req.call]}
  /\ Done(m, IF "subject" \in traits THEN 1 ELSE 0)
  /\ UNCHANGED <<stage, manifest, traits, blobs, versions>>

\* Mutant: no If-Match header is sent.
IfMatchNever(c) == TRUE

(* The If-Match header of an index that was read with its ETag.            *)
IfMatch(c) == "etag" \in traits /\ Status(c, "index") = 200 => ReadIndex(c) = Current

StoreIndex(m) ==
  LET c == m.req.call
  IN  /\ m.req.op = "tag"
      /\ \/ /\ IfMatch(c) /\ Len(versions) + 1 \in Bodies
            /\ versions' = Append(versions, Append(ReadIndex(c), manifest[c]))
            /\ Done(m, 0)
         \/ ~ IfMatch(c) /\ Answer(m, 412, 0) /\ UNCHANGED versions
      /\ UNCHANGED <<stage, manifest, traits, blobs, manifests>>

Serve(m) == Refuse(m) \/ Look(m) \/ StoreBlob(m) \/ StoreManifest(m) \/ StoreIndex(m)

Next ==
  \/ \E c \in Calls : AddArtifact(c)
  \/ \E q \in Requests : Client(q)
  \/ \E m \in wire : Serve(m)

Spec == Init /\ [][Next]_vars

(* The code takes its next step, and an attempt ends: by its answer or, if   *)
(* fetchOpts has a timeout, by that.                                       *)
Fairness ==
  /\ \A c \in Calls : WF_vars(AddArtifact(c))
  /\ \A q \in Requests : WF_vars(Client(q))

FairSpec == Spec /\ Fairness
-----------------------------------------------------------------------------
AttachTypeOK ==
  /\ FetchTypeOK
  /\ stage \in [Calls -> {"new", "resolved", "rejected"} \cup Ops]
  /\ \E s \in Settings :
       /\ manifest = s.manifest /\ traits = s.traits
       /\ blobs \subseteq s.blobs \cup {EmptyBlob} \cup {Artifact[manifest[c]] : c \in Calls}
  /\ manifests \subseteq {manifest[c] : c \in Calls}
  /\ \A c \in Calls : Status(c, "index") = 200 => Body(c, "index") \in {0} \cup DOMAIN versions

(* An addArtifact() that resolves has associated its artifact with the       *)
(* image, and whatever the other calls do, it stays so: the registry holds   *)
(* the manifest and its blobs and lists the manifest among the referrers, by *)
(* itself or in the index (image.ts:74-117; README: "associates it").       *)
AttachedStays ==
  \A c \in Calls : stage[c] = "resolved" =>
    /\ manifest[c] \in manifests
    /\ {Artifact[manifest[c]], EmptyBlob} \subseteq blobs
    /\ "referrers" \in traits \/ Listed(manifest[c], Current)

(* What the index lists is there: a manifest of these calls is listed only   *)
(* once it is in the registry, and is there only after its blobs, even if    *)
(* the call fails half way (image.ts:74-117).                              *)
NothingDangling ==
  \A c \in Calls :
    /\ Listed(manifest[c], Current) => manifest[c] \in manifests
    /\ manifest[c] \in manifests => {Artifact[manifest[c]], EmptyBlob} \subseteq blobs

(* The index never lists a manifest twice, whatever is retried and even if   *)
(* two calls attach the same manifest (image.ts:176-191).                   *)
ListedOnce == NoneTwice(Current)

(* Where the index exists and the registry gives ETags, what it lists it     *)
(* keeps listing: a call that read it before another changed it, or a late   *)
(* copy of its request, does not write over the change (image.ts:186-190).  *)
IndexGrows ==
  [][(versions # <<>> /\ "etag" \in traits) =>
       \A k \in DOMAIN Current : Listed(Current[k], Current')]_vars

(* With a timeout every call settles, whatever the registry does.          *)
AttachSettles == \A c \in Calls : <>(stage[c] \in {"resolved", "rejected"})
=============================================================================
