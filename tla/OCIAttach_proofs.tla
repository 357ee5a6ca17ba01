-------------------------- MODULE OCIAttach_proofs --------------------------
(* Theorems about OCIAttach, for any number of calls and retries, any mix of  *)
(* manifests, and any registry and faults.                                 *)
EXTENDS OCIAttach, FetchRetry_proofs

InVersions(d) == \E k \in DOMAIN versions : Listed(d, versions[k])

(* What an answer of the registry says, which stays so: it deletes nothing.   *)
Says(q, a) ==
  /\ \A b \in Blobs : (q.op = HeadBlob[b] /\ a.status = 200) \/ (q.op = PutBlob[b] /\ a.status = 201)
                        => Blob(q.call, b) \in blobs
  /\ q.op = "manifest" /\ a.status = 201 => manifest[q.call] \in manifests
  /\ q.op = "ping" /\ a.status = 200 => "referrers" \in traits
  /\ q.op = "index" /\ a.status = 200 => a.body \in {0} \cup DOMAIN versions
  /\ q.op = "tag" /\ a.status = 201 => InVersions(manifest[q.call])

AnswersTrue == \A q \in Requests : Says(q, answer[q]) /\ Says(q, result[q])

Begun(c, op) == call[Req(c, op)] # "idle"

(* The index has been read, and does not list the artifact.                *)
IndexRead(c) ==
  /\ call[Req(c, "index")] \in {"ok", "failed"}
  /\ Status(c, "index") = 404 \/ (Status(c, "index") = 200 /\ Body(c, "index") # 0)
  /\ ~ Listed(manifest[c], ReadIndex(c))

(* What was made sure of before an operation begins.                       *)
Needs(c, op) ==
  /\ op \in {"head empty", "post empty", "put empty", "manifest"} => Blob(c, "artifact") \in blobs
  /\ op = "manifest" => Blob(c, "empty") \in blobs
  /\ op \in {"ping", "index", "tag"} => manifest[c] \in manifests
  /\ op = "tag" => IndexRead(c)

OneByOne == \A c \in Calls, op \in Ops : Begun(c, op) => Needs(c, op)

(* What the index has listed in any of its versions.                       *)
VersionsRight ==
  \A k \in DOMAIN versions :
    NoneTwice(versions[k]) /\ \A c \in Calls : Listed(manifest[c], versions[k]) => manifest[c] \in manifests

ManifestsWhole ==
  \A c \in Calls : manifest[c] \in manifests => {Artifact[manifest[c]], EmptyBlob} \subseteq blobs

ResolvedRight ==
  \A c \in Calls : stage[c] = "resolved" =>
    manifest[c] \in manifests /\ ("referrers" \in traits \/ InVersions(manifest[c]))

TypesInv ==
  /\ stage \in [Calls -> {"new", "resolved", "rejected"} \cup Ops]
  /\ manifest \in [Calls -> DOMAIN Artifact]
  /\ versions \in Seq(Seq(DOMAIN Artifact)) /\ Len(versions) \in Bodies
  /\ manifests \subseteq {manifest[c] : c \in Calls}
  /\ \E s \in Settings :
       /\ manifest = s.manifest /\ traits = s.traits
       /\ blobs \subseteq s.blobs \cup {EmptyBlob} \cup {Artifact[manifest[c]] : c \in Calls}

AttachInv ==
  /\ FetchInv /\ TypesInv /\ AnswersTrue /\ OneByOne
  /\ VersionsRight /\ ManifestsWhole /\ ResolvedRight

-----------------------------------------------------------------------------
LEMMA OpsAre ==
  Ops = {"probe", "oauth", "token", "image", "manifest", "ping", "index", "tag", "head artifact", "head empty",
         "post artifact", "post empty", "put artifact", "put empty"}
<1>1. Blobs = {"artifact", "empty"}
  BY DEF Blobs
<1>2. /\ HeadBlob["artifact"] = "head artifact" /\ HeadBlob["empty"] = "head empty"
      /\ PostBlob["artifact"] = "post artifact" /\ PostBlob["empty"] = "post empty"
      /\ PutBlob["artifact"] = "put artifact" /\ PutBlob["empty"] = "put empty"
  BY DEF HeadBlob, PostBlob, PutBlob
<1> DEFINE U == UNION {{HeadBlob[b], PostBlob[b], PutBlob[b]} : b \in Blobs}
<1>3. \A x : x \in U <=> \E b \in Blobs : x \in {HeadBlob[b], PostBlob[b], PutBlob[b]}
  OBVIOUS
<1>4. Ops = {"probe", "oauth", "token", "image", "manifest", "ping", "index", "tag"} \cup U
  BY DEF Ops
<1> HIDE DEF U
<1>5. \A x : x \in U <=> x \in {"head artifact", "head empty", "post artifact", "post empty",
                              "put artifact", "put empty"}
  <2>1. \A x : x \in U <=> \/ x = HeadBlob["artifact"] \/ x = PostBlob["artifact"] \/ x = PutBlob["artifact"]
                          \/ x = HeadBlob["empty"] \/ x = PostBlob["empty"] \/ x = PutBlob["empty"]
    BY <1>1, <1>3
  <2> QED BY <2>1, <1>2
<1> QED BY <1>4, <1>5

LEMMA BlobOps ==
  /\ Blobs = {"artifact", "empty"}
  /\ HeadBlob["artifact"] = "head artifact" /\ HeadBlob["empty"] = "head empty"
  /\ PostBlob["artifact"] = "post artifact" /\ PostBlob["empty"] = "post empty"
  /\ PutBlob["artifact"] = "put artifact" /\ PutBlob["empty"] = "put empty"
  BY DEF HeadBlob, PostBlob, PutBlob, Blobs

LEMMA RequestsOfCalls ==
  /\ \A c \in Calls, op \in Ops : Req(c, op) \in Requests /\ Req(c, op).call = c /\ Req(c, op).op = op
  /\ \A q \in Requests : q.call \in Calls /\ q.op \in Ops /\ q = Req(q.call, q.op)
<1>1. \A c \in Calls, op \in Ops : Req(c, op) \in Requests /\ Req(c, op).call = c /\ Req(c, op).op = op
  BY RequestsAssumption DEF CallRequests, Req
<1>2. ASSUME NEW q \in Requests PROVE q.call \in Calls /\ q.op \in Ops /\ q = Req(q.call, q.op)
  <2>1. PICK c \in Calls, op \in Ops : q = Req(c, op)
    BY RequestsAssumption DEF CallRequests
  <2>2. q.call = c /\ q.op = op
    BY <2>1 DEF Req
  <2> QED BY <2>1, <2>2
<1> QED BY <1>1, <1>2

LEMMA VersionAppended ==
  ASSUME NEW S, NEW t \in Seq(S), NEW x \in S
  PROVE  /\ Append(t, x) \in Seq(S) /\ Append(t, x) # <<>>
         /\ Len(Append(t, x)) = Len(t) + 1 /\ Append(t, x)[Len(t) + 1] = x
         /\ DOMAIN t \subseteq DOMAIN Append(t, x) /\ Len(t) + 1 \in DOMAIN Append(t, x)
         /\ \A n \in DOMAIN t : Append(t, x)[n] = t[n]
         /\ \A n \in DOMAIN Append(t, x) : n \in DOMAIN t \/ n = Len(t) + 1
<1>1. /\ Append(t, x) \in Seq(S)
      /\ Len(Append(t, x)) = Len(t) + 1 /\ Append(t, x)[Len(t) + 1] = x
      /\ DOMAIN t \subseteq DOMAIN Append(t, x) /\ Len(t) + 1 \in DOMAIN Append(t, x)
      /\ \A n \in DOMAIN t : Append(t, x)[n] = t[n]
      /\ \A n \in DOMAIN Append(t, x) : n \in DOMAIN t \/ n = Len(t) + 1
  OBVIOUS
<1>2. Append(t, x) # <<>>
  <2>1. Len(t) + 1 # 0
    OBVIOUS
  <2> QED BY <1>1, <2>1
<1> QED BY <1>1, <1>2

(* The index with one more artifact.                                       *)
LEMMA ListedAppended ==
  ASSUME NEW S, NEW t \in Seq(S), NEW x \in S
  PROVE  /\ \A d : Listed(d, Append(t, x)) <=> (Listed(d, t) \/ d = x)
         /\ NoneTwice(t) /\ ~ Listed(x, t) => NoneTwice(Append(t, x))
<1> DEFINE u == Append(t, x)
<1>1. /\ u[Len(t) + 1] = x /\ DOMAIN t \subseteq DOMAIN u /\ Len(t) + 1 \in DOMAIN u
      /\ \A n \in DOMAIN t : u[n] = t[n]
      /\ \A n \in DOMAIN u : n \in DOMAIN t \/ n = Len(t) + 1
  BY VersionAppended
<1> HIDE DEF u
<1>2. \A d : Listed(d, u) <=> (Listed(d, t) \/ d = x)
  BY <1>1 DEF Listed
<1>3. NoneTwice(t) /\ ~ Listed(x, t) => NoneTwice(u)
  BY <1>1 DEF Listed, NoneTwice
<1> QED BY <1>2, <1>3 DEF u

LEMMA AttachInitInv == Init => AttachInv
<1> SUFFICES ASSUME Init PROVE AttachInv
  OBVIOUS
<1>1. FetchInv
  BY FetchInitInv DEF Init
<1>2. PICK s \in Settings : manifest = s.manifest /\ traits = s.traits /\ blobs = s.blobs /\ versions = s.versions
  BY DEF Init
<1>3. TypesInv
  <2>1. stage \in [Calls -> {"new", "resolved", "rejected"} \cup Ops]
    BY DEF Init
  <2>2. manifests \subseteq {manifest[c] : c \in Calls}
    BY DEF Init
  <2>3. manifest \in [Calls -> DOMAIN Artifact]
    BY <1>2, SettingsAssumption
  <2>4. versions \in Seq(Seq(DOMAIN Artifact)) /\ Len(versions) \in Bodies
    BY <1>2, SettingsAssumption
  <2> QED BY <1>2, <2>1, <2>2, <2>3, <2>4 DEF TypesInv
<1>4. AnswersTrue
  <2>1. \A q \in Requests : answer[q] = NoAnswer /\ result[q] = NoAnswer
    BY DEF Init, FetchInit
  <2>2. NoAnswer.status = 0
    BY DEF NoAnswer
  <2>3. \A q \in Requests : Says(q, NoAnswer)
    BY <2>2 DEF Says
  <2> QED BY <2>1, <2>3 DEF AnswersTrue
<1>5. OneByOne
  BY RequestsOfCalls DEF Init, FetchInit, OneByOne, Begun
<1>6. VersionsRight
  BY <1>2, SettingsAssumption DEF VersionsRight
<1>7. ManifestsWhole /\ ResolvedRight
  BY DEF Init, ManifestsWhole, ResolvedRight
<1> QED BY <1>1, <1>3, <1>4, <1>5, <1>6, <1>7 DEF AttachInv

-----------------------------------------------------------------------------
(* The registry deletes nothing.                                           *)
Grows ==
  /\ UNCHANGED <<manifest, traits>> /\ blobs \subseteq blobs' /\ manifests \subseteq manifests'
  /\ DOMAIN versions \subseteq DOMAIN versions' /\ \A k \in DOMAIN versions : versions'[k] = versions[k]

SaysThen(q, a) ==
  /\ \A b \in Blobs : (q.op = HeadBlob[b] /\ a.status = 200) \/ (q.op = PutBlob[b] /\ a.status = 201)
                        => Blob(q.call, b) \in blobs'
  /\ q.op = "manifest" /\ a.status = 201 => manifest[q.call] \in manifests'
  /\ q.op = "ping" /\ a.status = 200 => "referrers" \in traits
  /\ q.op = "index" /\ a.status = 200 => a.body \in {0} \cup DOMAIN versions'
  /\ q.op = "tag" /\ a.status = 201 => \E k \in DOMAIN versions' : Listed(manifest[q.call], versions'[k])

LEMMA SaysKept ==
  ASSUME Grows, NEW q \in Requests, NEW a \in Answers, Says(q, a)
  PROVE  SaysThen(q, a)
  BY DEF Grows, Says, SaysThen, InVersions

LEMMA AnswersTrueKept ==
  ASSUME AttachInv, Grows, FetchInv',
         \A q \in Requests : /\ answer'[q] \in {answer[q], NoAnswer} \/ SaysThen(q, answer'[q])
                            /\ result'[q] \in {result[q], answer[q], NoAnswer}
  PROVE  AnswersTrue'
<1>1. \A q \in Requests : SaysThen(q, NoAnswer)
  BY DEF SaysThen, NoAnswer
<1>2. \A q \in Requests : answer[q] \in Answers /\ result[q] \in Answers
  BY DEF AttachInv, FetchInv, FetchTypeOK
<1>3. \A q \in Requests : SaysThen(q, answer[q]) /\ SaysThen(q, result[q])
  BY <1>2, SaysKept DEF AttachInv, AnswersTrue
<1>4. \A q \in Requests : SaysThen(q, answer'[q]) /\ SaysThen(q, result'[q])
  BY <1>1, <1>3
<1> QED BY <1>4 DEF AnswersTrue, Says, SaysThen, Grows, Blob, InVersions

(* What an operation needs stays there.                                    *)
LEMMA NeedsKept ==
  ASSUME AttachInv, Grows, NEW c \in Calls, NEW op \in Ops, Needs(c, op),
         \A q \in Requests : call[q] \in {"ok", "failed"} => call'[q] = call[q] /\ result'[q] = result[q]
  PROVE  Needs(c, op)'
<1>1. Req(c, "index") \in Requests /\ Req(c, "index").op = "index"
  <2>1. Req(c, "index").op = "index"
    BY DEF Req
  <2> QED BY <2>1, RequestsOfCalls, OpsAre
<1>2. op = "tag" => IndexRead(c)'
  <2> SUFFICES ASSUME op = "tag" PROVE IndexRead(c)'
    OBVIOUS
  <2>1. IndexRead(c)
    BY DEF Needs
  <2>2. call'[Req(c, "index")] = call[Req(c, "index")] /\ result'[Req(c, "index")] = result[Req(c, "index")]
    BY <1>1, <2>1 DEF IndexRead
  <2>3. Status(c, "index") = 200 => Body(c, "index") \in DOMAIN versions
    <3>1. Says(Req(c, "index"), result[Req(c, "index")])
      BY <1>1 DEF AttachInv, AnswersTrue
    <3> QED BY <1>1, <2>1, <3>1 DEF IndexRead, Says, Status, Body
  <2> QED BY <2>1, <2>2, <2>3 DEF IndexRead, Status, Body, ReadIndex, Grows
<1> QED BY <1>2 DEF Needs, Grows, Blob

LEMMA OneByOneKept ==
  ASSUME AttachInv, Grows,
         \A q \in Requests : call[q] = "idle" => call'[q] = "idle",
         \A q \in Requests : call[q] \in {"ok", "failed"} => call'[q] = call[q] /\ result'[q] = result[q]
  PROVE  OneByOne'
<1> SUFFICES ASSUME NEW c \in Calls, NEW op \in Ops, Begun(c, op)' PROVE Needs(c, op)'
  BY DEF OneByOne
<1>1. Req(c, op) \in Requests
  BY RequestsOfCalls
<1>2. Begun(c, op)
  BY <1>1 DEF Begun
<1> QED BY <1>2, NeedsKept DEF AttachInv, OneByOne

LEMMA ResolvedKept == ASSUME AttachInv, Grows, UNCHANGED stage PROVE ResolvedRight'
  BY DEF AttachInv, ResolvedRight, Grows, InVersions

-----------------------------------------------------------------------------
(* The client: a call goes on to its next request, or settles.             *)
LEMMA GoInv ==
  ASSUME AttachInv, NEW c \in Calls, NEW op \in Ops, Go(c, op), Needs(c, op)
  PROVE  AttachInv'
<1>0. Req(c, op) \in Requests
  BY RequestsOfCalls
<1>1. Grows /\ UNCHANGED <<manifest, traits, blobs, manifests, versions>>
  BY DEF Go, Grows
<1>2. /\ call' = [q \in Requests |-> IF q = Req(c, op) THEN "flight" ELSE call[q]]
      /\ call[Req(c, op)] = "idle" /\ UNCHANGED <<result, answer>>
  BY DEF Go, Begin
<1>3. FetchInv'
  <2>1. {Req(c, op)} \in SUBSET Requests /\ {Req(c, op)} # {}
    BY <1>0
  <2>2. FetchNext
    BY <2>1 DEF Go, FetchNext
  <2> QED BY <2>2, FetchNextInv DEF AttachInv
<1>4. TypesInv'
  BY <1>1 DEF Go, AttachInv, TypesInv
<1>5. AnswersTrue'
  BY <1>1, <1>2, <1>3, AnswersTrueKept
<1>6. \A q \in Requests : call[q] \in {"ok", "failed"} => call'[q] = call[q] /\ result'[q] = result[q]
  BY <1>2
<1>7. OneByOne'
  <2> SUFFICES ASSUME NEW d \in Calls, NEW o \in Ops, Begun(d, o)' PROVE Needs(d, o)'
    BY DEF OneByOne
  <2>1. Req(d, o) \in Requests
    BY RequestsOfCalls
  <2>2. Needs(d, o)
    <3>1. CASE Req(d, o) = Req(c, op)
      BY <3>1, RequestsOfCalls
    <3>2. CASE Req(d, o) # Req(c, op)
      BY <1>2, <2>1, <3>2 DEF Begun, AttachInv, OneByOne
    <3> QED BY <3>1, <3>2
  <2> QED BY <1>1, <1>6, <2>2, NeedsKept
<1>8. VersionsRight' /\ ManifestsWhole'
  BY <1>1 DEF AttachInv, VersionsRight, ManifestsWhole
<1>9. ResolvedRight'
  <2>1. op # "resolved" /\ stage' = [stage EXCEPT ![c] = op]
    BY OpsAre DEF Go
  <2> QED BY <1>1, <2>1 DEF AttachInv, TypesInv, ResolvedRight, InVersions
<1> QED BY <1>3, <1>4, <1>5, <1>7, <1>8, <1>9 DEF AttachInv

LEMMA SettleInv ==
  ASSUME AttachInv, NEW c \in Calls, NEW outcome \in {"resolved", "rejected"}, Settle(c, outcome),
         outcome = "resolved" => manifest[c] \in manifests /\ ("referrers" \in traits \/ InVersions(manifest[c]))
  PROVE  AttachInv'
<1>1. Grows /\ UNCHANGED <<manifest, traits, blobs, manifests, versions, fetchVars>>
  BY DEF Settle, Grows
<1>2. FetchInv'
  BY <1>1, FetchNextInv DEF AttachInv
<1>3. UNCHANGED <<call, result, answer>>
  BY <1>1 DEF fetchVars
<1>4. TypesInv'
  BY <1>1 DEF Settle, AttachInv, TypesInv
<1>5. AnswersTrue'
  BY <1>1, <1>2, <1>3, AnswersTrueKept
<1>6. OneByOne'
  BY <1>1, <1>3, OneByOneKept
<1>7. VersionsRight' /\ ManifestsWhole'
  BY <1>1 DEF AttachInv, VersionsRight, ManifestsWhole
<1>8. ResolvedRight'
  BY <1>1 DEF Settle, AttachInv, TypesInv, ResolvedRight, InVersions
<1> QED BY <1>2, <1>4, <1>5, <1>6, <1>7, <1>8 DEF AttachInv

LEMMA ClientInv == ASSUME AttachInv, NEW q \in Requests, Client(q) PROVE AttachInv'
<1>1. Grows /\ UNCHANGED <<stage, manifest, traits, blobs, manifests, versions>>
  BY DEF Client, attachVars, Grows
<1>2. FetchInv'
  <2>1. FetchNext
    BY DEF Client, FetchNext
  <2> QED BY <2>1, FetchNextInv DEF AttachInv
<1>3. /\ call[q] \in {"flight", "backoff"} /\ \A r \in Requests \ {q} : call'[r] = call[r] /\ result'[r] = result[r]
      /\ \A r \in Requests : answer'[r] \in {answer[r], NoAnswer} /\ result'[r] \in {result[r], answer[r], NoAnswer}
  BY DEF Client, Resend, Receive, Abort, End, AttachInv, FetchInv, FetchTypeOK
<1>4. TypesInv'
  BY <1>1 DEF AttachInv, TypesInv
<1>5. AnswersTrue'
  BY <1>1, <1>2, <1>3, AnswersTrueKept
<1>6. OneByOne'
  <2>1. \A r \in Requests : call[r] = "idle" => call'[r] = "idle"
    BY <1>3
  <2>2. \A r \in Requests : call[r] \in {"ok", "failed"} => call'[r] = call[r] /\ result'[r] = result[r]
    BY <1>3
  <2> QED BY <1>1, <2>1, <2>2, OneByOneKept
<1>7. VersionsRight' /\ ManifestsWhole'
  BY <1>1 DEF AttachInv, VersionsRight, ManifestsWhole
<1>8. ResolvedRight'
  BY <1>1, ResolvedKept
<1> QED BY <1>2, <1>4, <1>5, <1>6, <1>7, <1>8 DEF AttachInv

(* What the answer that has come says, and what its operation needed.      *)
LEMMA CameTrue ==
  ASSUME AttachInv, NEW c \in Calls, NEW op \in Ops, Came(c, op)
  PROVE  /\ Needs(c, op)
         /\ \A b \in Blobs : (op = HeadBlob[b] /\ Status(c, op) = 200) \/ (op = PutBlob[b] /\ Status(c, op) = 201)
                               => Blob(c, b) \in blobs
         /\ op = "manifest" /\ Status(c, op) = 201 => manifest[c] \in manifests
         /\ op = "ping" /\ Status(c, op) = 200 => "referrers" \in traits
         /\ op = "index" /\ Status(c, op) = 200 => Body(c, op) \in {0} \cup DOMAIN versions
         /\ op = "tag" /\ Status(c, op) = 201 => InVersions(manifest[c])
<1>1. Req(c, op) \in Requests /\ Req(c, op).call = c /\ Req(c, op).op = op
  BY RequestsOfCalls
<1>2. Needs(c, op)
  BY DEF Came, Begun, AttachInv, OneByOne
<1>3. Says(Req(c, op), result[Req(c, op)])
  BY <1>1 DEF AttachInv, AnswersTrue
<1> QED BY <1>1, <1>2, <1>3 DEF Says, Status, Body

\* Nothing has to be made sure of before these.
NeedsNothing == {"probe", "oauth", "token", "image", "head artifact", "post artifact", "put artifact"}

LEMMA FreeInv == ASSUME AttachInv, NEW c \in Calls, NEW op \in NeedsNothing, Go(c, op) PROVE AttachInv'
<1>1. op \in Ops /\ Needs(c, op)
  BY OpsAre DEF Needs, NeedsNothing
<1> QED BY <1>1, GoInv

LEMMA RejectInv == ASSUME AttachInv, NEW c \in Calls, Reject(c) PROVE AttachInv'
  BY SettleInv DEF Reject

LEMMA SignInInv == ASSUME AttachInv, NEW c \in Calls, SignIn(c) PROVE AttachInv'
<1>1. PICK op \in {"image", "oauth", "token"} : Go(c, op) \/ Reject(c)
  BY DEF SignIn
<1> QED BY <1>1, FreeInv, RejectInv DEF NeedsNothing

LEMMA UploadArtifactInv == ASSUME AttachInv, NEW c \in Calls, UploadBlob(c, "artifact") PROVE AttachInv'
<1>0. /\ {HeadBlob["artifact"], PutBlob["artifact"], HeadBlob["empty"]} \subseteq Ops
      /\ {PostBlob["artifact"], PutBlob["artifact"]} \subseteq NeedsNothing
      /\ "artifact" \in Blobs /\ AfterBlob("artifact") = HeadBlob["empty"]
  BY BlobOps, OpsAre DEF NeedsNothing, AfterBlob
<1>1. \/ (Got(c, HeadBlob["artifact"], 200) \/ Got(c, PutBlob["artifact"], 201)) /\ Go(c, AfterBlob("artifact"))
      \/ Go(c, PostBlob["artifact"]) \/ Go(c, PutBlob["artifact"])
  BY DEF UploadBlob
<1>2. ASSUME Got(c, HeadBlob["artifact"], 200) \/ Got(c, PutBlob["artifact"], 201), Go(c, AfterBlob("artifact"))
      PROVE  AttachInv'
  <2>1. Blob(c, "artifact") \in blobs
    <3>1. CASE Got(c, HeadBlob["artifact"], 200)
      BY <1>0, <3>1, CameTrue DEF Got
    <3>2. CASE Got(c, PutBlob["artifact"], 201)
      BY <1>0, <3>2, CameTrue DEF Got
    <3> QED BY <1>2, <3>1, <3>2
  <2>2. AfterBlob("artifact") \in Ops /\ Needs(c, AfterBlob("artifact"))
    BY <1>0, <2>1, BlobOps DEF Needs
  <2> QED BY <1>2, <2>2, GoInv
<1>3. CASE Go(c, PostBlob["artifact"]) \/ Go(c, PutBlob["artifact"])
  BY <1>0, <1>3, FreeInv
<1> QED BY <1>1, <1>2, <1>3

LEMMA UploadEmptyInv == ASSUME AttachInv, NEW c \in Calls, UploadBlob(c, "empty") PROVE AttachInv'
<1>0. /\ {HeadBlob["empty"], PostBlob["empty"], PutBlob["empty"], "manifest"} \subseteq Ops
      /\ "empty" \in Blobs /\ AfterBlob("empty") = "manifest"
  BY BlobOps, OpsAre DEF AfterBlob
<1>1. \/ (Got(c, HeadBlob["empty"], 200) \/ Got(c, PutBlob["empty"], 201)) /\ Go(c, AfterBlob("empty"))
      \/ Came(c, HeadBlob["empty"]) /\ Go(c, PostBlob["empty"])
      \/ Came(c, PostBlob["empty"]) /\ Go(c, PutBlob["empty"])
  BY DEF UploadBlob, Got, Answered
<1>2. /\ Needs(c, HeadBlob["empty"]) \/ Needs(c, PostBlob["empty"]) \/ Needs(c, PutBlob["empty"])
           => Blob(c, "artifact") \in blobs
      /\ Blob(c, "artifact") \in blobs => Needs(c, PostBlob["empty"]) /\ Needs(c, PutBlob["empty"])
      /\ Blob(c, "artifact") \in blobs /\ Blob(c, "empty") \in blobs => Needs(c, AfterBlob("empty"))
  BY <1>0, BlobOps DEF Needs
<1>3. ASSUME Got(c, HeadBlob["empty"], 200) \/ Got(c, PutBlob["empty"], 201), Go(c, AfterBlob("empty"))
      PROVE  AttachInv'
  <2>1. Blob(c, "artifact") \in blobs /\ Blob(c, "empty") \in blobs
    <3>1. CASE Got(c, HeadBlob["empty"], 200)
      BY <1>0, <1>2, <3>1, CameTrue DEF Got
    <3>2. CASE Got(c, PutBlob["empty"], 201)
      BY <1>0, <1>2, <3>2, CameTrue DEF Got
    <3> QED BY <1>3, <3>1, <3>2
  <2>2. AfterBlob("empty") \in Ops /\ Needs(c, AfterBlob("empty"))
    BY <1>0, <1>2, <2>1
  <2> QED BY <1>3, <2>2, GoInv
<1>4. CASE Came(c, HeadBlob["empty"]) /\ Go(c, PostBlob["empty"])
  <2>1. Needs(c, PostBlob["empty"])
    BY <1>0, <1>2, <1>4, CameTrue
  <2> QED BY <1>0, <1>4, <2>1, GoInv
<1>5. CASE Came(c, PostBlob["empty"]) /\ Go(c, PutBlob["empty"])
  <2>1. Needs(c, PutBlob["empty"])
    BY <1>0, <1>2, <1>5, CameTrue
  <2> QED BY <1>0, <1>5, <2>1, GoInv
<1> QED BY <1>1, <1>3, <1>4, <1>5

LEMMA UploadManifestInv == ASSUME AttachInv, NEW c \in Calls, UploadManifest(c) PROVE AttachInv'
<1>1. manifest[c] \in manifests
  <2>1. "manifest" \in Ops /\ Came(c, "manifest") /\ Status(c, "manifest") = 201
    BY OpsAre DEF UploadManifest, Got
  <2> QED BY <2>1, CameTrue
<1>2. Needs(c, "ping") /\ "ping" \in Ops
  BY <1>1, OpsAre DEF Needs
<1> QED BY <1>2, GoInv DEF UploadManifest

LEMMA PingReferrersInv == ASSUME AttachInv, NEW c \in Calls, PingReferrers(c) PROVE AttachInv'
<1>1. Needs(c, "ping") /\ (ReferrersSupported(c) => "referrers" \in traits)
  BY CameTrue, OpsAre DEF PingReferrers, Answered, ReferrersSupported
<1>2. Needs(c, "index") /\ "index" \in Ops
  BY <1>1, OpsAre DEF Needs
<1>3. CASE ReferrersSupported(c)
  BY <1>1, <1>3, SettleInv DEF PingReferrers, Resolve, Needs
<1>4. CASE ~ ReferrersSupported(c)
  BY <1>2, <1>4, GoInv DEF PingReferrers
<1> QED BY <1>3, <1>4

LEMMA AddToIndexInv == ASSUME AttachInv, NEW c \in Calls, AddToIndex(c) PROVE AttachInv'
<1>1. Came(c, "index") /\ (Status(c, "index") = 404 \/ (Status(c, "index") = 200 /\ Body(c, "index") # 0))
  BY DEF AddToIndex, Got
<1>2. manifest[c] \in manifests /\ (Status(c, "index") = 200 => Body(c, "index") \in {0} \cup DOMAIN versions)
  <2>1. "index" \in Ops
    BY OpsAre
  <2>2. Needs(c, "index") /\ (Status(c, "index") = 200 => Body(c, "index") \in {0} \cup DOMAIN versions)
    BY <1>1, <2>1, CameTrue
  <2> QED BY <2>2 DEF Needs
<1>3. CASE Listed(manifest[c], ReadIndex(c))
  <2>1. InVersions(manifest[c])
    <3>1. Status(c, "index") = 200
      BY <1>3 DEF ReadIndex, Listed
    <3> QED BY <1>1, <1>2, <1>3, <3>1 DEF ReadIndex, InVersions
  <2> QED BY <1>2, <1>3, <2>1, SettleInv DEF AddToIndex, Resolve
<1>4. CASE ~ Listed(manifest[c], ReadIndex(c))
  <2>1. IndexRead(c)
    BY <1>1, <1>4 DEF IndexRead, Came
  <2>2. Needs(c, "tag") /\ "tag" \in Ops
    BY <1>2, <2>1, OpsAre DEF Needs
  <2> QED BY <1>4, <2>2, GoInv DEF AddToIndex
<1> QED BY <1>3, <1>4

LEMMA UploadIndexInv == ASSUME AttachInv, NEW c \in Calls, UploadIndex(c) PROVE AttachInv'
<1>1. manifest[c] \in manifests /\ InVersions(manifest[c])
  <2>1. "tag" \in Ops /\ Came(c, "tag") /\ Status(c, "tag") = 201
    BY OpsAre DEF UploadIndex, Got
  <2>2. Needs(c, "tag") /\ InVersions(manifest[c])
    BY <2>1, CameTrue
  <2> QED BY <2>2 DEF Needs
<1> QED BY <1>1, SettleInv DEF UploadIndex, Resolve

LEMMA AddArtifactInv == ASSUME AttachInv, NEW c \in Calls, AddArtifact(c) PROVE AttachInv'
<1>1. CASE Start(c)
  BY <1>1, FreeInv DEF Start, NeedsNothing
<1>2. CASE CheckManifest(c)
  BY <1>2, FreeInv, BlobOps DEF CheckManifest, NeedsNothing
<1>3. CASE \E b \in Blobs : UploadBlob(c, b)
  BY <1>3, UploadArtifactInv, UploadEmptyInv DEF Blobs
<1>4. CASE GiveUp(c)
  BY <1>4, RejectInv DEF GiveUp
<1> QED BY <1>1, <1>2, <1>3, <1>4, SignInInv, UploadManifestInv, PingReferrersInv, AddToIndexInv,
           UploadIndexInv DEF AddArtifact

-----------------------------------------------------------------------------
(* The registry: every answer says what is so, and what it stores is right.   *)
Serves(m, a) == a \in Answers /\ Deliver(m, a) /\ SaysThen(m.req, a)

LEMMA ServesInv ==
  ASSUME AttachInv, NEW m \in wire, NEW a \in Answers, Serves(m, a), Grows, UNCHANGED stage,
         TypesInv', VersionsRight', ManifestsWhole'
  PROVE  AttachInv'
<1>1. FetchInv'
  BY FetchNextInv DEF Serves, FetchNext, AttachInv
<1>2. UNCHANGED <<call, result>> /\ \A q \in Requests : answer'[q] = answer[q] \/ (q = m.req /\ answer'[q] = a)
  BY DEF Serves, Deliver, AttachInv, FetchInv, FetchTypeOK
<1>3. AnswersTrue'
  BY <1>1, <1>2, AnswersTrueKept DEF Serves
<1>4. OneByOne'
  BY <1>2, OneByOneKept
<1>5. ResolvedRight'
  BY ResolvedKept
<1> QED BY <1>1, <1>3, <1>4, <1>5 DEF AttachInv

LEMMA SomeAnswers ==
  ASSUME NEW status \in {200, 201, 202, 401, 404, 412}, NEW body \in Bodies
  PROVE  [status |-> status, body |-> body] \in Answers
<1>1. status \in Statuses
  BY StatusesAssumption
<1> QED BY <1>1 DEF Answers

LEMMA RequestOfCopy ==
  ASSUME AttachInv, NEW m \in wire
  PROVE  /\ m.req \in Requests /\ m.req.call \in Calls /\ m.req.op \in Ops
         /\ m.req = Req(m.req.call, m.req.op) /\ Needs(m.req.call, m.req.op)
<1>1. m.req \in Requests /\ m.n \in 1 .. (Retries + 1)
  BY DEF AttachInv, FetchInv, FetchTypeOK, Copies
<1>2. m.req.call \in Calls /\ m.req.op \in Ops /\ m.req = Req(m.req.call, m.req.op)
  BY <1>1, RequestsOfCalls
<1>3. m.n <= attempt[m.req]
  BY DEF AttachInv, FetchInv, AttemptsMade
<1>4. attempt[m.req] # 0
  BY <1>1, <1>3, RetriesAssumption DEF AttachInv, FetchInv, FetchTypeOK
<1>5. call[m.req] # "idle"
  BY <1>1, <1>4 DEF AttachInv, FetchInv, AttemptsMade
<1>6. Needs(m.req.call, m.req.op)
  BY <1>2, <1>5 DEF Begun, AttachInv, OneByOne
<1> QED BY <1>1, <1>2, <1>6

(* An answer that changes nothing.                                         *)
LEMMA LookInv ==
  ASSUME AttachInv, NEW m \in wire, NEW a \in Answers, Serves(m, a), UNCHANGED attachVars
  PROVE  AttachInv'
<1>1. Grows /\ UNCHANGED <<stage, manifest, traits, blobs, manifests, versions>>
  BY DEF attachVars, Grows
<1>2. TypesInv' /\ VersionsRight' /\ ManifestsWhole'
  BY <1>1 DEF AttachInv, TypesInv, VersionsRight, ManifestsWhole
<1> QED BY <1>1, <1>2, ServesInv

LEMMA RefuseInv == ASSUME AttachInv, NEW m \in wire, Refuse(m) PROVE AttachInv'
<1>1. PICK a \in Answers : Deliver(m, a) /\ a.status \notin {200, 201} /\ UNCHANGED attachVars
  <2>1. NoAnswer \in Answers /\ NoAnswer.status = 0
    BY DEF Answers, NoAnswer
  <2>2. \A status \in Statuses \ (200 .. 299 \cup {404, 412}) :
          /\ [status |-> status, body |-> 0] \in Answers
          /\ status \notin {200, 201}
    BY AttachAssumption DEF Answers
  <2>3. \/ Deliver(m, NoAnswer)
        \/ \E status \in Statuses \ (200 .. 299 \cup {404, 412}) : Deliver(m, [status |-> status, body |-> 0])
    BY DEF Refuse, Answer
  <2>4. UNCHANGED attachVars
    BY DEF Refuse
  <2>5. CASE Deliver(m, NoAnswer)
    BY <2>1, <2>4, <2>5
  <2>6. ASSUME NEW status \in Statuses \ (200 .. 299 \cup {404, 412}), Deliver(m, [status |-> status, body |-> 0])
        PROVE  \E a \in Answers : Deliver(m, a) /\ a.status \notin {200, 201} /\ UNCHANGED attachVars
    <3> DEFINE b == [status |-> status, body |-> 0]
    <3>1. b \in Answers /\ b.status \notin {200, 201} /\ Deliver(m, b)
      BY <2>2, <2>6
    <3> HIDE DEF b
    <3> QED BY <2>4, <3>1
  <2> QED BY <2>3, <2>5, <2>6, ZenonT(30)
<1>2. SaysThen(m.req, a)
  BY <1>1 DEF SaysThen
<1> QED BY <1>1, <1>2, LookInv DEF Serves

LEMMA BlobOpsDiffer ==
  \A b \in Blobs :
    /\ HeadBlob[b] \in {"head artifact", "head empty"} /\ PostBlob[b] \in {"post artifact", "post empty"}
    /\ PutBlob[b] \in {"put artifact", "put empty"}
    /\ HeadBlob[b] \notin {"manifest", "ping", "index", "tag"}
    /\ \A d \in Blobs : (HeadBlob[b] = HeadBlob[d] => b = d) /\ HeadBlob[b] # PutBlob[d]
  BY BlobOps

LEMMA HeadOps ==
  ASSUME NEW op, NEW b \in Blobs, op = HeadBlob[b]
  PROVE  op \notin {"manifest", "ping", "index", "tag"} /\ \A d \in Blobs : op # PutBlob[d] /\ (op = HeadBlob[d] => d = b)
  BY BlobOpsDiffer

LEMMA AnswerInv ==
  ASSUME AttachInv, NEW m \in wire, NEW status \in {200, 201, 202, 401, 404, 412}, NEW body \in Bodies,
         Answer(m, status, body), UNCHANGED attachVars, SaysThen(m.req, [status |-> status, body |-> body])
  PROVE  AttachInv'
<1> DEFINE a == [status |-> status, body |-> body]
<1>1. a \in Answers
  BY SomeAnswers
<1>2. Deliver(m, a) /\ SaysThen(m.req, a)
  BY DEF Answer
<1> HIDE DEF a
<1> QED BY <1>1, <1>2, LookInv DEF Serves

LEMMA LookStepInv == ASSUME AttachInv, NEW m \in wire, Look(m) PROVE AttachInv'
<1>op. PICK op : op = m.req.op
  OBVIOUS
<1>0. {0, 1, 2} \subseteq Bodies /\ Len(versions) \in Bodies /\ m.req \in Requests /\ UNCHANGED attachVars
  BY AttachAssumption, RequestOfCopy DEF AttachInv, TypesInv, Look
<1>1. ASSUME op \in {"probe", "oauth", "token", "image", "post artifact", "post empty"},
             NEW status \in {200, 202, 401}, NEW body \in Bodies, Answer(m, status, body)
      PROVE  AttachInv'
  <2>0. op \in {"probe", "oauth", "token", "image", "post artifact", "post empty"}
    BY <1>1
  <2>1. SaysThen(m.req, [status |-> status, body |-> body])
    <3>1. op \notin {"manifest", "ping", "index", "tag"}
      BY <2>0
    <3>2. ASSUME NEW b \in Blobs PROVE op # HeadBlob[b] /\ op # PutBlob[b]
      <4>1. HeadBlob[b] \in {"head artifact", "head empty"} /\ PutBlob[b] \in {"put artifact", "put empty"}
        BY BlobOpsDiffer, ZenonT(30)
      <4> QED BY <2>0, <4>1
    <3> QED BY <1>op, <3>1, <3>2 DEF SaysThen
  <2>2. status \in {200, 201, 202, 401, 404, 412} /\ Answer(m, status, body)
    <3>1. Answer(m, status, body)
      BY <1>1
    <3> QED BY <3>1, SMTT(30)
  <2> QED BY <1>0, <2>1, <2>2, AnswerInv
<1>2. ASSUME NEW b \in Blobs, op = HeadBlob[b], NEW status \in {200, 404}, Answer(m, status, 0),
             status = 200 => Blob(m.req.call, b) \in blobs
      PROVE  AttachInv'
  <2>1. SaysThen(m.req, [status |-> status, body |-> 0])
    <3>0. op = HeadBlob[b]
      BY <1>2
    <3>1. /\ op \notin {"manifest", "ping", "index", "tag"}
          /\ \A d \in Blobs : op # PutBlob[d] /\ (op = HeadBlob[d] => d = b)
      BY <3>0, HeadOps
    <3>2. blobs' = blobs
      BY <1>0 DEF attachVars
    <3>5. status = 200 => Blob(m.req.call, b) \in blobs'
      BY <1>2, <3>2
    <3> QED BY <1>op, <3>1, <3>5 DEF SaysThen
  <2> QED BY <1>0, <1>2, <2>1, AnswerInv
<1>3. ASSUME op = "ping", NEW status \in {200, 404}, Answer(m, status, 0), status = 200 => "referrers" \in traits
      PROVE  AttachInv'
  <2>1. SaysThen(m.req, [status |-> status, body |-> 0])
    <3>0. op = "ping"
      BY <1>3
    <3>1. \A b \in Blobs : op # HeadBlob[b] /\ op # PutBlob[b]
      BY <3>0, BlobOpsDiffer, ZenonT(30)
    <3> QED BY <1>op, <1>3, <3>1 DEF SaysThen
  <2> QED BY <1>0, <1>3, <2>1, AnswerInv
<1>4. ASSUME op = "index", NEW status \in {200, 404}, NEW body \in Bodies, Answer(m, status, body),
             body \in {0} \cup DOMAIN versions
      PROVE  AttachInv'
  <2>1. SaysThen(m.req, [status |-> status, body |-> body])
    <3>0. op = "index"
      BY <1>4
    <3>1. \A b \in Blobs : op # HeadBlob[b] /\ op # PutBlob[b]
      BY <3>0, BlobOpsDiffer
    <3>2. versions' = versions
      BY <1>0 DEF attachVars
    <3> QED BY <1>op, <1>4, <3>1, <3>2 DEF SaysThen
  <2> QED BY <1>0, <1>4, <2>1, AnswerInv
<1>5. versions # <<>> => Len(versions) \in DOMAIN versions
  BY DEF AttachInv, TypesInv
<1>6. CASE op = "probe" /\ \/ \E status \in {200, 202} : Answer(m, status, 0)
                           \/ \E scheme \in {0, 1, 2} : Answer(m, 401, scheme)
  <2>0. op = "probe"
    BY <1>6
  <2>1. op \in {"probe", "oauth", "token", "image", "post artifact", "post empty"}
    BY <2>0
  <2>4. {0, 1, 2} \subseteq Bodies
    BY <1>0
  <2>2. ASSUME NEW status \in {200, 202}, Answer(m, status, 0) PROVE AttachInv'
    <3>1. status \in {200, 202, 401} /\ 0 \in Bodies
      BY <2>2, <2>4
    <3>2. \A body \in Bodies : Answer(m, status, body) => AttachInv'
      BY <1>1, <2>1, <3>1
    <3> QED BY <2>2, <3>1, <3>2
  <2>3. ASSUME NEW scheme \in {0, 1, 2}, Answer(m, 401, scheme) PROVE AttachInv'
    <3>1. scheme \in Bodies /\ Answer(m, 401, scheme)
      BY <2>3, <2>4
    <3>2. 401 \in {200, 202, 401}
      OBVIOUS
    <3>3. \A body \in Bodies : Answer(m, 401, body) => AttachInv'
      BY <1>1, <2>1, <3>2
    <3> QED BY <3>1, <3>3
  <2> QED BY <1>6, <2>2, <2>3
<1>7. CASE op \in {"oauth", "token"} /\ \E b \in {0, 1} : Answer(m, 200, b)
  <2>1. op \in {"probe", "oauth", "token", "image", "post artifact", "post empty"} /\ 200 \in {200, 202, 401}
    BY <1>7
  <2>2. \A body \in Bodies : Answer(m, 200, body) => AttachInv'
    BY <1>1, <2>1
  <2>3. PICK b \in Bodies : Answer(m, 200, b)
    BY <1>0, <1>7
  <2> QED BY <2>2, <2>3
<1>8. CASE op = "image" /\ Answer(m, 200, 0)
  BY <1>0, <1>1, <1>8
<1>9. ASSUME NEW b \in Blobs, op = HeadBlob[b], Answer(m, IF Blob(m.req.call, b) \in blobs THEN 200 ELSE 404, 0)
      PROVE  AttachInv'
  <2>1. CASE Blob(m.req.call, b) \in blobs
    <3>1. Answer(m, 200, 0)
      BY <1>9, <2>1 DEF Answer, Deliver
    <3> QED BY <1>2, <1>9, <2>1, <3>1
  <2>2. CASE Blob(m.req.call, b) \notin blobs
    <3>1. Answer(m, 404, 0)
      BY <1>9, <2>2 DEF Answer, Deliver
    <3> QED BY <1>2, <1>9, <3>1
  <2> QED BY <2>1, <2>2
<1>10. ASSUME NEW b \in Blobs, op = PostBlob[b],
              \E located \in {1} \cup {0 : o \in Faulty \cap {op}} : Answer(m, 202, located)
       PROVE  AttachInv'
  <2>1. op \in {"post artifact", "post empty"}
    BY <1>10, BlobOpsDiffer
  <2>2. PICK located \in {0, 1} : Answer(m, 202, located)
    BY <1>10
  <2>3. located \in Bodies
    BY <1>0
  <2>4. 202 \in {200, 202, 401}
    OBVIOUS
  <2>5. \A body \in Bodies : Answer(m, 202, body) => AttachInv'
    BY <1>1, <2>1, <2>4
  <2> QED BY <2>2, <2>3, <2>5
<1>11. CASE op = "ping" /\ Answer(m, IF "referrers" \in traits THEN 200 ELSE 404, 0)
  <2>1. CASE "referrers" \in traits
    <3>1. Answer(m, 200, 0)
      BY <1>11, <2>1 DEF Answer, Deliver
    <3> QED BY <1>3, <1>11, <2>1, <3>1
  <2>2. CASE "referrers" \notin traits
    <3>1. Answer(m, 404, 0)
      BY <1>11, <2>2 DEF Answer, Deliver
    <3> QED BY <1>3, <1>11, <3>1
  <2> QED BY <2>1, <2>2
<1>12. CASE op = "index" /\ IF versions = <<>> THEN Answer(m, 404, 0) ELSE Answer(m, 200, Len(versions))
  BY <1>0, <1>4, <1>5, <1>12
<1>13. CASE op = "index" /\ Answer(m, 200, 0)
  BY <1>0, <1>4, <1>13
<1> QED BY <1>6, <1>7, <1>8, <1>9, <1>10, <1>11, <1>12, <1>13, <1>op DEF Look

(* Stored: the answer says so, or it is lost.                              *)
LEMMA DoneServes ==
  ASSUME AttachInv, NEW m \in wire, NEW body \in Bodies, Done(m, body),
         SaysThen(m.req, [status |-> 201, body |-> body]),
         Grows, UNCHANGED stage, TypesInv', VersionsRight', ManifestsWhole'
  PROVE  AttachInv'
<1> DEFINE a == [status |-> 201, body |-> body]
<1>1. a \in Answers /\ SaysThen(m.req, a) /\ NoAnswer \in Answers /\ SaysThen(m.req, NoAnswer)
  BY SomeAnswers DEF Answers, NoAnswer, SaysThen
<1>2. Deliver(m, a) \/ Deliver(m, NoAnswer)
  BY DEF Done, Answer
<1> HIDE DEF a
<1>3. Serves(m, a) \/ Serves(m, NoAnswer)
  BY <1>1, <1>2 DEF Serves
<1> QED BY <1>1, <1>3, ServesInv

LEMMA StoreBlobInv == ASSUME AttachInv, NEW m \in wire, StoreBlob(m) PROVE AttachInv'
<1>1. PICK b \in Blobs : m.req.op = PutBlob[b] /\ blobs' = blobs \cup {Blob(m.req.call, b)} /\ Done(m, 0)
  BY DEF StoreBlob
<1>2. UNCHANGED <<stage, manifest, traits, manifests, versions>> /\ m.req.call \in Calls
  BY RequestOfCopy DEF StoreBlob
<1>3. Grows
  BY <1>1, <1>2 DEF Grows
<1>4. SaysThen(m.req, [status |-> 201, body |-> 0])
  <2>1. m.req.op \notin {"manifest", "ping", "index", "tag"}
    BY <1>1, BlobOps
  <2>2. \A d \in Blobs : m.req.op # HeadBlob[d] /\ (m.req.op = PutBlob[d] => d = b)
    BY <1>1, BlobOps
  <2>3. Blob(m.req.call, b) \in blobs'
    BY <1>1
  <2> QED BY <2>1, <2>2, <2>3 DEF SaysThen
<1>5. TypesInv'
  BY <1>1, <1>2 DEF AttachInv, TypesInv, Blob
<1>6. VersionsRight' /\ ManifestsWhole'
  BY <1>1, <1>2 DEF AttachInv, VersionsRight, ManifestsWhole
<1> QED BY <1>1, <1>2, <1>3, <1>4, <1>5, <1>6, DoneServes, AttachAssumption

LEMMA StoreManifestInv == ASSUME AttachInv, NEW m \in wire, StoreManifest(m) PROVE AttachInv'
<1> DEFINE c == m.req.call
           body == IF "subject" \in traits THEN 1 ELSE 0
<1>1. /\ m.req.op = "manifest" /\ manifests' = manifests \cup {manifest[c]} /\ Done(m, body)
      /\ UNCHANGED <<stage, manifest, traits, blobs, versions>>
  BY DEF StoreManifest
<1>2. c \in Calls /\ Needs(c, "manifest") /\ body \in Bodies
  BY <1>1, RequestOfCopy, AttachAssumption
<1> HIDE DEF c, body
<1>3. Grows
  BY <1>1 DEF Grows
<1>4. SaysThen(m.req, [status |-> 201, body |-> body])
  BY <1>1, BlobOps, ZenonT(30) DEF SaysThen, c
<1>5. TypesInv'
  BY <1>1, <1>2 DEF AttachInv, TypesInv
<1>6. VersionsRight'
  BY <1>1 DEF AttachInv, VersionsRight
<1>7. Artifact[manifest[c]] \in blobs /\ EmptyBlob \in blobs
  BY <1>2 DEF Needs, Blob
<1>8. ManifestsWhole'
  BY <1>1, <1>7 DEF AttachInv, ManifestsWhole
<1> QED BY <1>1, <1>2, <1>3, <1>4, <1>5, <1>6, <1>8, DoneServes

LEMMA StoreIndexInv == ASSUME AttachInv, NEW m \in wire, StoreIndex(m) PROVE AttachInv'
<1> DEFINE c == m.req.call
           old == ReadIndex(c)
           new == Append(old, manifest[c])
<1>0. /\ m.req \in Requests /\ c \in Calls /\ m.req.op = "tag" /\ m.req = Req(c, "tag")
      /\ Needs(c, "tag") /\ UNCHANGED <<stage, manifest, traits, blobs, manifests>>
  BY RequestOfCopy DEF StoreIndex
<1>1. manifest[c] \in manifests /\ IndexRead(c) /\ manifest[c] \in DOMAIN Artifact
  BY <1>0 DEF Needs, AttachInv, TypesInv
<1>2. old \in Seq(DOMAIN Artifact) /\ ~ Listed(manifest[c], old)
      /\ (old = <<>> \/ \E k \in DOMAIN versions : old = versions[k])
  <2>1. Says(Req(c, "index"), result[Req(c, "index")]) /\ Req(c, "index").op = "index"
    BY <1>0, RequestsOfCalls, OpsAre, ZenonT(30) DEF AttachInv, AnswersTrue
  <2>2. ~ Listed(manifest[c], old)
    BY <1>1 DEF IndexRead
  <2>3. CASE Status(c, "index") = 404
    <3>1. old = <<>>
      BY <2>3 DEF ReadIndex
    <3> QED BY <2>2, <3>1
  <2>4. CASE Status(c, "index") = 200 /\ Body(c, "index") # 0
    <3>1. Body(c, "index") \in DOMAIN versions
      BY <2>1, <2>4 DEF Says, Status, Body
    <3>2. old = versions[Body(c, "index")]
      BY <2>4 DEF ReadIndex
    <3> QED BY <2>2, <3>1, <3>2 DEF AttachInv, TypesInv
  <2> QED BY <1>1, <2>3, <2>4 DEF IndexRead
<1> HIDE DEF old, c
<1>3. CASE versions' = Append(versions, new) /\ Len(versions) + 1 \in Bodies /\ Done(m, 0)
  <2>1. new \in Seq(DOMAIN Artifact)
    BY <1>1, <1>2
  <2>2. \A d : Listed(d, new) <=> (Listed(d, old) \/ d = manifest[c])
    BY <1>1, <1>2, ListedAppended
  <2>3. NoneTwice(old)
    BY <1>2 DEF AttachInv, VersionsRight, NoneTwice
  <2>4. NoneTwice(new)
    BY <1>1, <1>2, <2>3, ListedAppended
  <2>5. \A d \in Calls : Listed(manifest[d], new) => manifest[d] \in manifests
    BY <1>1, <1>2, <2>2 DEF AttachInv, VersionsRight, Listed
  <2> HIDE DEF new
  <2>6. /\ versions' \in Seq(Seq(DOMAIN Artifact)) /\ Len(versions') = Len(versions) + 1
        /\ DOMAIN versions \subseteq DOMAIN versions' /\ Len(versions) + 1 \in DOMAIN versions'
        /\ versions'[Len(versions) + 1] = new
        /\ \A k \in DOMAIN versions : versions'[k] = versions[k]
        /\ \A k \in DOMAIN versions' : k \in DOMAIN versions \/ k = Len(versions) + 1
    <3>1. versions \in Seq(Seq(DOMAIN Artifact))
      BY DEF AttachInv, TypesInv
    <3> QED BY <1>3, <2>1, <3>1, VersionAppended
  <2>7. Grows
    BY <1>0, <2>6 DEF Grows
  <2>8. TypesInv'
    BY <1>0, <1>3, <2>6 DEF AttachInv, TypesInv
  <2>9. VersionsRight'
    BY <1>0, <2>4, <2>5, <2>6 DEF AttachInv, VersionsRight
  <2>10. ManifestsWhole'
    BY <1>0 DEF AttachInv, ManifestsWhole
  <2>11. SaysThen(m.req, [status |-> 201, body |-> 0])
    <3>1. Listed(manifest[c], versions'[Len(versions) + 1])
      BY <2>2, <2>6
    <3>2. \A b \in Blobs : m.req.op # HeadBlob[b] /\ m.req.op # PutBlob[b]
      BY <1>0, BlobOpsDiffer
    <3>3. m.req.call = c
      BY DEF c
    <3> QED BY <1>0, <2>6, <3>1, <3>2, <3>3 DEF SaysThen
  <2> QED BY <1>0, <1>3, <2>7, <2>8, <2>9, <2>10, <2>11, DoneServes, AttachAssumption
<1>4. CASE Answer(m, 412, 0) /\ UNCHANGED versions
  <2>1. UNCHANGED attachVars
    BY <1>0, <1>4 DEF attachVars
  <2>2. SaysThen(m.req, [status |-> 412, body |-> 0])
    BY <1>0 DEF SaysThen
  <2>3. 412 \in {200, 201, 202, 401, 404, 412} /\ 0 \in Bodies
    BY AttachAssumption
  <2> QED BY <1>4, <2>1, <2>2, <2>3, AnswerInv
<1> QED BY <1>3, <1>4 DEF StoreIndex, c, old

LEMMA AttachNextInv == ASSUME AttachInv, [Next]_vars PROVE AttachInv'
<1>1. CASE \E c \in Calls : AddArtifact(c)
  BY <1>1, AddArtifactInv
<1>2. CASE \E q \in Requests : Client(q)
  BY <1>2, ClientInv
<1>3. ASSUME NEW m \in wire, Serve(m) PROVE AttachInv'
  BY <1>3, RefuseInv, LookStepInv, StoreBlobInv, StoreManifestInv, StoreIndexInv DEF Serve
<1>4. CASE UNCHANGED vars
  <2>1. UNCHANGED <<stage, manifest, traits, blobs, manifests, versions, call, attempt, result, wire, answer>>
    BY <1>4 DEF vars, attachVars, fetchVars
  <2>2. FetchInv'
    BY <2>1, FetchNextInv DEF AttachInv, fetchVars
  <2>3. Grows
    BY <2>1 DEF Grows
  <2>4. AnswersTrue'
    BY <2>1, <2>2, <2>3, AnswersTrueKept
  <2>5. OneByOne' /\ ResolvedRight'
    BY <2>1, <2>3, OneByOneKept, ResolvedKept
  <2>6. TypesInv' /\ VersionsRight' /\ ManifestsWhole'
    BY <2>1 DEF AttachInv, TypesInv, VersionsRight, ManifestsWhole
  <2> QED BY <2>2, <2>4, <2>5, <2>6 DEF AttachInv
<1> QED BY <1>1, <1>2, <1>3, <1>4 DEF Next

-----------------------------------------------------------------------------
(* The inductive invariant: what an answer says stays true, every operation  *)
(* begins after what it needs, and every version of the index is right.     *)
THEOREM AttachInvariant == Spec => []AttachInv
<1>1. Init => AttachInv
  BY AttachInitInv
<1> QED BY <1>1, AttachNextInv, PTL DEF Spec

(* The values every variable takes (AttachTypeOK); an index that was read is *)
(* a version that there is (registry.ts).                                  *)
THEOREM AttachTypeCorrect == Spec => []AttachTypeOK
<1>1. AttachInv => AttachTypeOK
  <2> SUFFICES ASSUME AttachInv PROVE AttachTypeOK
    OBVIOUS
  <2>1. ASSUME NEW c \in Calls, Status(c, "index") = 200 PROVE Body(c, "index") \in {0} \cup DOMAIN versions
    <3>1. Says(Req(c, "index"), result[Req(c, "index")]) /\ Req(c, "index").op = "index"
      BY RequestsOfCalls, OpsAre DEF AttachInv, AnswersTrue
    <3> QED BY <2>1, <3>1 DEF Says, Status, Body
  <2>2. FetchTypeOK
    BY DEF AttachInv, FetchInv
  <2> QED BY <2>1, <2>2 DEF AttachInv, TypesInv, AttachTypeOK
<1> QED BY <1>1, AttachInvariant, PTL

(* What the index lists is in the registry, and with all its blobs, however  *)
(* far each call got and whatever is lost or retried (image.ts:74-117).     *)
THEOREM NothingDanglingHolds == Spec => []NothingDangling
<1>1. AttachInv => NothingDangling
  <2> SUFFICES ASSUME AttachInv, NEW c \in Calls
               PROVE  /\ Listed(manifest[c], Current) => manifest[c] \in manifests
                      /\ manifest[c] \in manifests => {Artifact[manifest[c]], EmptyBlob} \subseteq blobs
    BY DEF NothingDangling
  <2>1. manifest[c] \in manifests => {Artifact[manifest[c]], EmptyBlob} \subseteq blobs
    BY DEF AttachInv, ManifestsWhole
  <2>2. CASE versions = <<>>
    BY <2>1, <2>2 DEF Current, Listed
  <2>3. CASE versions # <<>>
    <3>1. Len(versions) \in DOMAIN versions /\ Current = versions[Len(versions)]
      BY <2>3 DEF AttachInv, TypesInv, Current
    <3> QED BY <2>1, <3>1 DEF AttachInv, VersionsRight
  <2> QED BY <2>2, <2>3
<1> QED BY <1>1, AttachInvariant, PTL

(* No version of the index lists a manifest twice, although several calls    *)
(* may attach it and each request may be repeated (image.ts:176-191).       *)
THEOREM ListedOnceHolds == Spec => []ListedOnce
<1>1. AttachInv => ListedOnce
  <2> SUFFICES ASSUME AttachInv PROVE NoneTwice(Current)
    BY DEF ListedOnce
  <2>1. CASE versions = <<>>
    BY <2>1 DEF Current, NoneTwice
  <2>2. CASE versions # <<>>
    <3>1. Len(versions) \in DOMAIN versions /\ Current = versions[Len(versions)]
      BY <2>2 DEF AttachInv, TypesInv, Current
    <3> QED BY <3>1 DEF AttachInv, VersionsRight
  <2> QED BY <2>1, <2>2
<1> QED BY <1>1, AttachInvariant, PTL

-----------------------------------------------------------------------------
(* Where the index exists from the start and the registry gives ETags, each  *)
(* version lists what the one before it lists.                             *)
Seeded(s) == "etag" \in s.traits /\ s.versions # <<>>

NeverMissing ==
  \A q \in Requests : q.op = "index" => answer[q].status # 404 /\ result[q].status # 404

History ==
  \A i, j \in DOMAIN versions, c \in Calls :
    i <= j /\ Listed(manifest[c], versions[i]) => Listed(manifest[c], versions[j])

SeededInv == "etag" \in traits /\ versions # <<>> /\ NeverMissing /\ History

GrowsInv == \E s \in Settings : traits = s.traits /\ (Seeded(s) => SeededInv)

(* What a step other than StoreIndex does to the answers.                  *)
Harmless ==
  /\ UNCHANGED <<manifest, traits, versions>>
  /\ \A q \in Requests :
       /\ answer'[q] \in {answer[q], NoAnswer} \/ (q.op = "index" => answer'[q].status # 404)
       /\ result'[q] \in {result[q], answer[q], NoAnswer}

LEMMA HarmlessKeeps == ASSUME SeededInv, Harmless PROVE SeededInv'
<1>1. NeverMissing'
  BY DEF SeededInv, NeverMissing, Harmless, NoAnswer
<1>2. History'
  BY DEF SeededInv, History, Harmless
<1> QED BY <1>1, <1>2 DEF SeededInv, Harmless

LEMMA DeliverHarmless ==
  ASSUME AttachInv, NEW m \in wire, NEW a, Deliver(m, a), m.req.op = "index" => a.status # 404,
         UNCHANGED <<manifest, traits, versions>>
  PROVE  Harmless
<1>1. \A q \in Requests : answer'[q] = answer[q] \/ (q = m.req /\ answer'[q] = a)
  BY DEF Deliver, AttachInv, FetchInv, FetchTypeOK
<1>2. UNCHANGED result
  BY DEF Deliver
<1> QED BY <1>1, <1>2 DEF Harmless

LEMMA GoHarmless == ASSUME NEW c, NEW op, Go(c, op) PROVE Harmless
  BY DEF Go, Begin, Harmless

LEMMA SettleHarmless == ASSUME NEW c, NEW outcome, Settle(c, outcome) PROVE Harmless
  BY DEF Settle, fetchVars, Harmless

LEMMA AddArtifactHarmless == ASSUME NEW c \in Calls, AddArtifact(c) PROVE Harmless
<1>2. CASE Start(c)
  BY <1>2, GoHarmless DEF Start
<1>3. CASE SignIn(c)
  BY <1>3, GoHarmless, SettleHarmless DEF SignIn, Reject
<1>4. CASE CheckManifest(c) \/ UploadManifest(c)
  BY <1>4, GoHarmless DEF CheckManifest, UploadManifest
<1>5. ASSUME NEW b \in Blobs, UploadBlob(c, b) PROVE Harmless
  BY <1>5, GoHarmless DEF UploadBlob
<1>6. CASE PingReferrers(c)
  BY <1>6, GoHarmless, SettleHarmless DEF PingReferrers, Resolve
<1>7. CASE AddToIndex(c)
  BY <1>7, GoHarmless, SettleHarmless DEF AddToIndex, Resolve
<1>8. CASE UploadIndex(c) \/ GiveUp(c)
  BY <1>8, SettleHarmless DEF UploadIndex, GiveUp, Resolve, Reject
<1> QED BY <1>2, <1>3, <1>4, <1>5, <1>6, <1>7, <1>8 DEF AddArtifact

LEMMA ClientHarmless == ASSUME AttachInv, NEW q \in Requests, Client(q) PROVE Harmless
<1>1. \A r \in Requests : answer'[r] \in {answer[r], NoAnswer} /\ result'[r] \in {result[r], answer[r], NoAnswer}
  BY DEF Client, Resend, Receive, Abort, End, AttachInv, FetchInv, FetchTypeOK
<1> QED BY <1>1 DEF Harmless, Client, attachVars

LEMMA RefuseHarmless == ASSUME AttachInv, NEW m \in wire, Refuse(m) PROVE Harmless
<1>1. UNCHANGED <<manifest, traits, versions>>
  BY DEF Refuse, attachVars
<1>2. CASE Deliver(m, NoAnswer)
  BY <1>1, <1>2, DeliverHarmless DEF NoAnswer
<1>3. ASSUME NEW status \in Statuses \ (200 .. 299 \cup {404, 412}), Deliver(m, [status |-> status, body |-> 0])
      PROVE  Harmless
  <2> DEFINE a == [status |-> status, body |-> 0]
  <2>1. a.status # 404 /\ Deliver(m, a)
    BY <1>3
  <2> HIDE DEF a
  <2> QED BY <1>1, <2>1, DeliverHarmless
<1> QED BY <1>2, <1>3, ZenonT(30) DEF Refuse, Answer

LEMMA AnswerHarmless ==
  ASSUME AttachInv, NEW m \in wire, NEW status, NEW body, Answer(m, status, body),
         m.req.op = "index" => status # 404, UNCHANGED <<manifest, traits, versions>>
  PROVE  Harmless
<1> DEFINE a == [status |-> status, body |-> body]
<1>1. Deliver(m, a) /\ a.status = status
  BY DEF Answer
<1> HIDE DEF a
<1> QED BY <1>1, DeliverHarmless

LEMMA DoneHarmless ==
  ASSUME AttachInv, NEW m \in wire, NEW body, Done(m, body), UNCHANGED <<manifest, traits, versions>>
  PROVE  Harmless
<1>1. CASE Answer(m, 201, body)
  BY <1>1, AnswerHarmless
<1>2. CASE Deliver(m, NoAnswer)
  BY <1>2, DeliverHarmless DEF NoAnswer
<1> QED BY <1>1, <1>2 DEF Done

LEMMA LookHarmless == ASSUME AttachInv, versions # <<>>, NEW m \in wire, Look(m) PROVE Harmless
<1>0. UNCHANGED <<manifest, traits, versions>>
  BY DEF Look, attachVars
<1>1. CASE m.req.op # "index"
  <2>1. PICK status, body : Answer(m, status, body)
    BY <1>1 DEF Look
  <2> QED BY <1>0, <1>1, <2>1, AnswerHarmless
<1>2. CASE m.req.op = "index"
  <2>1. \A b \in Blobs : m.req.op # HeadBlob[b] /\ m.req.op # PostBlob[b]
    BY <1>2, BlobOpsDiffer
  <2>2. Answer(m, 200, Len(versions)) \/ Answer(m, 200, 0)
    BY <1>2, <2>1 DEF Look
  <2> QED BY <1>0, <2>2, AnswerHarmless
<1> QED BY <1>1, <1>2

(* An index is put again only with all that the current one lists.         *)
LEMMA StoreIndexGrows ==
  ASSUME AttachInv, SeededInv, NEW m \in wire, StoreIndex(m)
  PROVE  \/ Harmless
         \/ /\ UNCHANGED <<manifest, traits>> /\ NeverMissing'
            /\ \E d \in DOMAIN Artifact : versions' = Append(versions, Append(Current, d))
<1> DEFINE c == m.req.call
<1>0. /\ c \in Calls /\ Needs(c, "tag") /\ UNCHANGED <<stage, manifest, traits, blobs, manifests>>
  BY RequestOfCopy DEF StoreIndex
<1>1. IndexRead(c) /\ manifest[c] \in DOMAIN Artifact
  BY <1>0 DEF Needs, AttachInv, TypesInv
<1>2. Status(c, "index") = 200
  <2>1. Req(c, "index") \in Requests /\ Req(c, "index").op = "index"
    BY <1>0, RequestsOfCalls, OpsAre, ZenonT(30)
  <2>2. result[Req(c, "index")].status # 404
    BY <2>1 DEF SeededInv, NeverMissing
  <2> QED BY <1>1, <2>2 DEF IndexRead, Status
<1> HIDE DEF c
<1>3. CASE IfMatch(c) /\ versions' = Append(versions, Append(ReadIndex(c), manifest[c])) /\ Done(m, 0)
  <2>1. ReadIndex(c) = Current
    BY <1>2, <1>3 DEF IfMatch, SeededInv
  <2>2. \A q \in Requests : /\ answer'[q] = answer[q] \/ answer'[q] = NoAnswer \/ answer'[q].status = 201
                            /\ result'[q] = result[q]
    <3>1. PICK a : Deliver(m, a) /\ (a = NoAnswer \/ a.status = 201)
      BY <1>3 DEF Done, Answer
    <3> QED BY <3>1 DEF Deliver, AttachInv, FetchInv, FetchTypeOK
  <2>3. NeverMissing'
    BY <2>2 DEF SeededInv, NeverMissing, NoAnswer
  <2> QED BY <1>0, <1>1, <1>3, <2>1, <2>3
<1>4. CASE Answer(m, 412, 0) /\ UNCHANGED versions
  <2>1. 412 # 404
    OBVIOUS
  <2> QED BY <1>0, <1>4, <2>1, AnswerHarmless
<1> QED BY <1>3, <1>4 DEF StoreIndex, c

LEMMA SeededStep ==
  ASSUME AttachInv, SeededInv, [Next]_vars
  PROVE  \/ Harmless
         \/ /\ UNCHANGED <<manifest, traits>> /\ NeverMissing'
            /\ \E d \in DOMAIN Artifact : versions' = Append(versions, Append(Current, d))
<1>1. CASE \E c \in Calls : AddArtifact(c)
  BY <1>1, AddArtifactHarmless
<1>2. CASE \E q \in Requests : Client(q)
  BY <1>2, ClientHarmless
<1>3. ASSUME NEW m \in wire, Refuse(m) \/ Look(m) PROVE Harmless
  BY <1>3, RefuseHarmless, LookHarmless DEF SeededInv
<1>4. ASSUME NEW m \in wire, StoreBlob(m) PROVE Harmless
  <2>1. PICK b \in Blobs : Done(m, 0) /\ UNCHANGED <<manifest, traits, versions>>
    BY <1>4 DEF StoreBlob
  <2> QED BY <2>1, DoneHarmless
<1>5. ASSUME NEW m \in wire, StoreManifest(m) PROVE Harmless
  <2> DEFINE body == IF "subject" \in traits THEN 1 ELSE 0
  <2>1. Done(m, body) /\ UNCHANGED <<manifest, traits, versions>>
    BY <1>5 DEF StoreManifest
  <2> HIDE DEF body
  <2> QED BY <2>1, DoneHarmless
<1>6. CASE UNCHANGED vars
  BY <1>6 DEF vars, attachVars, fetchVars, Harmless
<1>7. ASSUME NEW m \in wire, StoreIndex(m)
      PROVE  \/ Harmless
             \/ /\ UNCHANGED <<manifest, traits>> /\ NeverMissing'
                /\ \E d \in DOMAIN Artifact : versions' = Append(versions, Append(Current, d))
  BY <1>7, StoreIndexGrows
<1> QED BY <1>1, <1>2, <1>3, <1>4, <1>5, <1>6, <1>7 DEF Next, Serve

(* What the current index lists is listed by the next.                     *)
LEMMA CurrentGrows ==
  ASSUME AttachInv, versions # <<>>, NEW d \in DOMAIN Artifact, versions' = Append(versions, Append(Current, d))
  PROVE  /\ versions' # <<>> /\ Current' = Append(Current, d) /\ Current \in Seq(DOMAIN Artifact)
         /\ Len(versions) \in DOMAIN versions /\ Current = versions[Len(versions)]
         /\ versions'[Len(versions) + 1] = Append(Current, d)
         /\ \A k \in DOMAIN versions : versions'[k] = versions[k]
         /\ \A k \in DOMAIN versions' : k \in DOMAIN versions \/ k = Len(versions) + 1
<1>1. versions \in Seq(Seq(DOMAIN Artifact))
  BY DEF AttachInv, TypesInv
<1>2. Len(versions) \in DOMAIN versions /\ Current = versions[Len(versions)]
  BY <1>1 DEF Current
<1>3. Current \in Seq(DOMAIN Artifact)
  BY <1>1, <1>2
<1> DEFINE new == Append(Current, d)
<1>4. new \in Seq(DOMAIN Artifact) /\ versions' = Append(versions, new)
  BY <1>3
<1> HIDE DEF new
<1>5. /\ versions' # <<>> /\ Len(versions') = Len(versions) + 1 /\ versions'[Len(versions) + 1] = new
      /\ \A k \in DOMAIN versions : versions'[k] = versions[k]
      /\ \A k \in DOMAIN versions' : k \in DOMAIN versions \/ k = Len(versions) + 1
  BY <1>1, <1>4, VersionAppended
<1>6. Current' = new
  BY <1>5 DEF Current
<1> QED BY <1>2, <1>3, <1>5, <1>6 DEF new

LEMMA SeededNextInv == ASSUME AttachInv, SeededInv, [Next]_vars PROVE SeededInv' /\ UNCHANGED traits
<1>1. CASE Harmless
  BY <1>1, HarmlessKeeps DEF Harmless
<1>2. ASSUME UNCHANGED <<manifest, traits>>, NeverMissing',
             NEW d \in DOMAIN Artifact, versions' = Append(versions, Append(Current, d))
      PROVE  SeededInv' /\ UNCHANGED traits
  <2>1. /\ versions' # <<>> /\ Current \in Seq(DOMAIN Artifact)
        /\ Len(versions) \in DOMAIN versions /\ Current = versions[Len(versions)]
        /\ versions'[Len(versions) + 1] = Append(Current, d)
        /\ \A k \in DOMAIN versions : versions'[k] = versions[k]
        /\ \A k \in DOMAIN versions' : k \in DOMAIN versions \/ k = Len(versions) + 1
    BY <1>2, CurrentGrows DEF SeededInv
  <2>2. \A e : Listed(e, Current) => Listed(e, Append(Current, d))
    BY <2>1, ListedAppended
  <2>3. \A k \in DOMAIN versions : k \in Nat /\ k <= Len(versions)
    BY DEF AttachInv, TypesInv
  <2>4. History'
    <3> SUFFICES ASSUME NEW i \in DOMAIN versions', NEW j \in DOMAIN versions', NEW c \in Calls,
                        i <= j, Listed(manifest[c], versions'[i])
                 PROVE  Listed(manifest[c], versions'[j])
      BY <1>2 DEF History
    <3>0. Len(versions) \in Nat
      BY <2>1, <2>3
    <3>1. CASE i \in DOMAIN versions /\ j \in DOMAIN versions
      BY <2>1, <3>1 DEF SeededInv, History
    <3>2. CASE i \in DOMAIN versions /\ j = Len(versions) + 1
      <4>1. Listed(manifest[c], versions[Len(versions)])
        BY <2>1, <2>3, <3>2 DEF SeededInv, History
      <4> QED BY <2>1, <2>2, <3>2, <4>1
    <3>3. CASE i = Len(versions) + 1
      <4>1. j = i
        BY <2>1, <2>3, <3>0, <3>3
      <4> QED BY <4>1
    <3> QED BY <2>1, <3>1, <3>2, <3>3
  <2> QED BY <1>2, <2>1, <2>4 DEF SeededInv
<1> QED BY <1>1, <1>2, SeededStep

LEMMA GrowsInitInv == Init => GrowsInv
<1> SUFFICES ASSUME Init PROVE GrowsInv
  OBVIOUS
<1>1. PICK s \in Settings : manifest = s.manifest /\ traits = s.traits /\ versions = s.versions
  BY DEF Init
<1>2. NeverMissing
  BY DEF Init, FetchInit, NeverMissing, NoAnswer
<1>3. History
  BY <1>1, SettingsAssumption DEF History
<1> QED BY <1>1, <1>2, <1>3 DEF GrowsInv, Seeded, SeededInv

LEMMA TraitsStay == ASSUME AttachInv, [Next]_vars PROVE UNCHANGED traits
<1>1. ASSUME NEW m \in wire, Serve(m) PROVE UNCHANGED traits
  BY <1>1 DEF Serve, Refuse, Look, StoreBlob, StoreManifest, StoreIndex, attachVars
<1>2. ASSUME NEW c \in Calls, AddArtifact(c) PROVE UNCHANGED traits
  BY <1>2, AddArtifactHarmless DEF Harmless
<1> QED BY <1>1, <1>2 DEF Next, Client, vars, attachVars

LEMMA GrowsNextInv == ASSUME AttachInv, GrowsInv, [Next]_vars PROVE GrowsInv'
  BY TraitsStay, SeededNextInv DEF GrowsInv

LEMMA GrowsInvariant == Spec => [](AttachInv /\ GrowsInv)
<1>1. Init => AttachInv /\ GrowsInv
  BY AttachInitInv, GrowsInitInv
<1>2. AttachInv /\ GrowsInv /\ [Next]_vars => (AttachInv /\ GrowsInv)'
  BY AttachNextInv, GrowsNextInv
<1> QED BY <1>1, <1>2, PTL DEF Spec

(* What the index lists it keeps listing, if it exists from the start where  *)
(* the registry gives ETags: no call, and no late copy of a request, writes  *)
(* over what another has added in between (image.ts:186-190).               *)
THEOREM IndexGrowsHolds ==
  ASSUME \A s \in Settings : "etag" \in s.traits => s.versions # <<>>
  PROVE  Spec => IndexGrows
<1> DEFINE Grown == (versions # <<>> /\ "etag" \in traits) => \A k \in DOMAIN Current : Listed(Current[k], Current')
<1>1. ASSUME AttachInv, GrowsInv, [Next]_vars PROVE [Grown]_vars
  <2> SUFFICES ASSUME versions # <<>>, "etag" \in traits
               PROVE  \A k \in DOMAIN Current : Listed(Current[k], Current')
    OBVIOUS
  <2>1. SeededInv
    BY <1>1 DEF GrowsInv, Seeded
  <2>2. CASE Harmless
    <3>1. Current' = Current
      BY <2>2 DEF Harmless, Current
    <3> QED BY <3>1 DEF Listed
  <2>3. ASSUME NEW d \in DOMAIN Artifact, versions' = Append(versions, Append(Current, d))
        PROVE  \A k \in DOMAIN Current : Listed(Current[k], Current')
    <3>1. Current' = Append(Current, d) /\ Current \in Seq(DOMAIN Artifact)
      BY <1>1, <2>3, CurrentGrows
    <3>2. \A e : Listed(e, Current) => Listed(e, Append(Current, d))
      BY <3>1, ListedAppended
    <3> QED BY <3>1, <3>2 DEF Listed
  <2> QED BY <1>1, <2>1, <2>2, <2>3, SeededStep
<1> QED BY <1>1, GrowsInvariant, PTL DEF Spec, IndexGrows

(* What has been attached stays attached, whatever the other calls do, where *)
(* the registry lists referrers by itself, or gives ETags and has an index   *)
(* from the start (image.ts:74-117); without either, the runs show when.     *)
THEOREM AttachedStaysHolds ==
  ASSUME \A s \in Settings : "referrers" \in s.traits \/ ("etag" \in s.traits /\ s.versions # <<>>)
  PROVE  Spec => []AttachedStays
<1>1. ASSUME AttachInv, GrowsInv PROVE AttachedStays
  <2> SUFFICES ASSUME NEW c \in Calls, stage[c] = "resolved"
               PROVE  /\ manifest[c] \in manifests /\ {Artifact[manifest[c]], EmptyBlob} \subseteq blobs
                      /\ "referrers" \in traits \/ Listed(manifest[c], Current)
    BY DEF AttachedStays
  <2>1. manifest[c] \in manifests /\ ("referrers" \in traits \/ InVersions(manifest[c]))
    BY <1>1 DEF AttachInv, ResolvedRight
  <2>2. {Artifact[manifest[c]], EmptyBlob} \subseteq blobs
    BY <1>1, <2>1 DEF AttachInv, ManifestsWhole
  <2>3. CASE "referrers" \notin traits
    <3>1. SeededInv
      BY <1>1, <2>3 DEF GrowsInv, Seeded
    <3>2. PICK k \in DOMAIN versions : Listed(manifest[c], versions[k])
      BY <2>1, <2>3 DEF InVersions
    <3>3. k <= Len(versions) /\ Len(versions) \in DOMAIN versions
      BY <1>1, <3>1 DEF SeededInv, AttachInv, TypesInv
    <3>4. Listed(manifest[c], versions[Len(versions)])
      BY <3>1, <3>2, <3>3 DEF SeededInv, History
    <3> QED BY <2>1, <2>2, <3>1, <3>4 DEF SeededInv, Current
  <2> QED BY <2>1, <2>2, <2>3
<1> QED BY <1>1, GrowsInvariant, PTL
=============================================================================
