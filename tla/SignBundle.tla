----------------------------- MODULE SignBundle -----------------------------
(***************************************************************************)
(* Creating Sigstore bundles (packages/sign/src): concurrent create() calls *)
(* of one BaseBundleBuilder, its FulcioSigner and its witnesses, the Rekor   *)
(* and timestamp clients, all over the retrying client of FetchRetry, with  *)
(* the services at the other end.  Bodies are positions in their books.    *)
(*                                                                         *)
(* The services are external.  Each keeps a book, the sequence of what it   *)
(* has certified, logged or timestamped, and what it returns is a position  *)
(* in it.  A log answers 409 to an entry it already holds, of whomever.     *)
(***************************************************************************)
EXTENDS FetchRetry, Sequences, FiniteSets

CONSTANTS
  Calls,            \* the create() calls
  Artifact,         \* Artifact[c]: what call c signs
  Witnesses,        \* the services of the builder's witnesses, in order
  Logs,             \* the transparency logs (witnessed by RekorWitness)
  TSAs,             \* the timestamp authorities (witnessed by TSAWitness)
  CA,               \* Fulcio
  HolderKey,        \* the key of the FulcioSigner's keyHolder
  UseCA,            \* TRUE: the signer is a FulcioSigner; FALSE: a signer with
                    \* a public key whose signatures are deterministic
  FetchOnConflict   \* the fetchOnConflict option of the RekorWitnesses

Services == Logs \cup TSAs \cup {CA}
Slots    == 1 .. Len(Witnesses)

ASSUME WitnessesAssumption ==
  /\ Witnesses \in Seq(Logs \cup TSAs)
  /\ CA \notin Logs \cup TSAs /\ Logs \cap TSAs = {}
ASSUME OptionsAssumption == UseCA \in BOOLEAN /\ FetchOnConflict \in BOOLEAN
ASSUME AnswersOccur == {200, 409} \subseteq Statuses /\ 0 \in Bodies

VARIABLES
  stage,      \* stage[c]: how far create() has come
  cert,       \* cert[c]: position of c's certificate in the CA's book, or 0
  witness,    \* witness[c][i]: where testify() of the i-th witness stands
  material,   \* material[c][i]: position of the evidence it returned, or 0
  error,      \* error[c]: code of the error create() rejected with
  bundle,     \* bundle[c]: what it resolved to
  book        \* book[s]: what service s has recorded

createVars == <<stage, cert, witness, material, error, bundle>>
vars       == <<createVars, fetchVars, book>>

(* The HTTP requests of a call: for the certificate, and for each witness   *)
(* the POST of its evidence and, in a log, the GET after a conflict.        *)
Cert(c)    == [call |-> c, op |-> "cert", slot |-> 0]
Post(c, i) == [call |-> c, op |-> "post", slot |-> i]
Get(c, i)  == [call |-> c, op |-> "get",  slot |-> i]
CallRequests == {Cert(c) : c \in Calls}
                  \cup {Post(c, i) : c \in Calls, i \in Slots}
                  \cup {Get(c, i) : c \in Calls, i \in Slots}

ASSUME RequestsAssumption == Requests = CallRequests

ServiceOf(q) == IF q.op = "cert" THEN CA ELSE Witnesses[q.slot]

(* What is submitted: the key holder's public key to the CA; to a witness   *)
(* the signature over the artifact, with the certificate it verifies under. *)
Contents == [of : {Artifact[c] : c \in Calls} \cup {HolderKey}, cert : Nat]
Content(c) == [of |-> Artifact[c], cert |-> cert[c]]
Submission(q) == IF q.op = "cert" THEN [of |-> HolderKey, cert |-> 0] ELSE Content(q.call)

\* Mutant: the code of the HTTP client's error is passed on.
CreateCodeHTTP(i) == "HTTP_ERROR"
CreateCode(i) == IF Witnesses[i] \in Logs THEN "TLOG_CREATE_ENTRY_ERROR"
                                          ELSE "TSA_CREATE_TIMESTAMP_ERROR"
IdentityCodes == {"IDENTITY_TOKEN_READ_ERROR", "IDENTITY_TOKEN_PARSE_ERROR"}
CACode        == "CA_CREATE_SIGNING_CERTIFICATE_ERROR"
WitnessCodes  == {"TLOG_CREATE_ENTRY_ERROR", "TLOG_FETCH_ENTRY_ERROR",
                  "TSA_CREATE_TIMESTAMP_ERROR", "UNCODED"}

(* Where the witnesses in S are among them all.                            *)
SlotsOf(S) == {i \in Slots : Witnesses[i] \in S}

\* Mutant: the evidence comes in the order of the last witness to the first.
SlotsInReverse(S) ==
  [k \in 1 .. Cardinality(SlotsOf(S)) |->
     CHOOSE i \in SlotsOf(S) : Cardinality(SlotsOf(S) \cap i .. Len(Witnesses)) = k]

(* What create() adds to the bundle from the witnesses in S, in the order of *)
(* the witnesses: the k-th of them is the one with k up to it.             *)
SlotsIn(S) ==
  [k \in 1 .. Cardinality(SlotsOf(S)) |->
     CHOOSE i \in SlotsOf(S) : Cardinality(SlotsOf(S) \cap 1 .. i) = k]
Collected(c, S) ==
  [k \in DOMAIN SlotsIn(S) |->
     [from |-> Witnesses[SlotsIn(S)[k]], at |-> material[c][SlotsIn(S)[k]]]]
Bundled(c) == [certificate |-> cert[c],
               tlogEntries |-> Collected(c, Logs),
               timestamps  |-> Collected(c, TSAs)]
NoBundle == [certificate |-> 0, tlogEntries |-> <<>>, timestamps |-> <<>>]

Settled(c) == stage[c] \in {"resolved", "rejected"}

-----------------------------------------------------------------------------
Init ==
  /\ FetchInit
  /\ stage    = [c \in Calls |-> "new"]
  /\ cert     = [c \in Calls |-> 0]
  /\ witness  = [c \in Calls |-> [i \in Slots |-> "idle"]]
  /\ material = [c \in Calls |-> [i \in Slots |-> 0]]
  /\ error    = [c \in Calls |-> ""]
  /\ bundle   = [c \in Calls |-> NoBundle]
  /\ book     = [s \in Services |-> <<>>]

(* The body of a timestamp authority's answer is taken as it is: nobody looks *)
(* at it before the bundle is verified.                                    *)
Unread(q) == q.op = "post" /\ ServiceOf(q) \in TSAs

(* A request that came to something, or failed or came to nothing usable: for *)
(* an authority, to a body that breaks off on its way.                     *)
Succeeded(q) == call[q] = "ok" /\ (Unread(q) \/ result[q].body # 0)
Unusable(q)  == call[q] = "failed" \/ (call[q] = "ok" /\ result[q].body = 0)

Reject(c, code) ==
  /\ stage' = [stage EXCEPT ![c] = "rejected"]
  /\ error' = [error EXCEPT ![c] = code]

(* All witnesses are invoked in parallel: each posts its request.          *)
Testify(c) ==
  /\ stage'   = [stage EXCEPT ![c] = "witnessing"]
  /\ witness' = [witness EXCEPT ![c] = [i \in Slots |-> "posting"]]
  /\ Begin({Post(c, i) : i \in Slots})

(* The signer gets no identity token, or one it cannot read, or a key it    *)
(* cannot have certified.                                                  *)
SignerFails(c) ==
  /\ UseCA /\ stage[c] = "new"
  /\ \E code \in IdentityCodes \cup {CACode} : Reject(c, code)
  /\ UNCHANGED <<cert, witness, material, bundle, fetchVars, book>>

(* With token and challenge, the signer asks for a signing certificate.    *)
RequestCertificate(c) ==
  /\ UseCA /\ stage[c] = "new"
  /\ stage' = [stage EXCEPT ![c] = "certifying"]
  /\ Begin({Cert(c)})
  /\ UNCHANGED <<cert, witness, material, error, bundle, book>>

CertificateRefused(c) ==
  /\ stage[c] = "certifying"
  /\ Unusable(Cert(c))
  /\ Reject(c, CACode)
  /\ UNCHANGED <<cert, witness, material, bundle, fetchVars, book>>

(* The certificate is there: the artifact is signed, packaged, witnessed.  *)
SignCertified(c) ==
  /\ stage[c] = "certifying"
  /\ Succeeded(Cert(c))
  /\ cert' = [cert EXCEPT ![c] = result[Cert(c)].body]
  /\ Testify(c)
  /\ UNCHANGED <<material, error, bundle, book>>

(* A signer with a public key signs by itself.                             *)
SignWithKey(c) ==
  /\ ~ UseCA /\ stage[c] = "new"
  /\ Testify(c)
  /\ UNCHANGED <<cert, material, error, bundle, book>>

-----------------------------------------------------------------------------
(* entryExistsError: a 409 that says where the entry is.                   *)
Conflict(q) == call[q] = "failed" /\ result[q].status = 409 /\ result[q].body # 0

\* Mutant: the evidence is kept in the witness, which all calls share.
AcceptForAll(c, i, q) ==
  /\ witness'  = [witness EXCEPT ![c][i] = "ok"]
  /\ material' = [d \in Calls |-> [material[d] EXCEPT ![i] = result[q].body]]
  /\ UNCHANGED <<stage, cert, error, bundle, fetchVars, book>>

(* testify() of witness i of call c returns the evidence that q found.     *)
Accept(c, i, q) ==
  /\ witness'  = [witness EXCEPT ![c][i] = "ok"]
  /\ material' = [material EXCEPT ![c][i] = result[q].body]
  /\ UNCHANGED <<stage, cert, error, bundle, fetchVars, book>>

\* Mutant: a witness failing after create() rejected replaces its error.
FailLast(c, i, code) ==
  /\ witness' = [witness EXCEPT ![c][i] = code]
  /\ Reject(c, code)
  /\ UNCHANGED <<cert, material, bundle, fetchVars, book>>

\* Mutant: create() waits for all witnesses to answer, failures or not.
FailUnheard(c, i, code) ==
  /\ witness' = [witness EXCEPT ![c][i] = code]
  /\ UNCHANGED <<stage, error, cert, material, bundle, fetchVars, book>>

\* Mutant: every failed witness is reported as a failed log.
FailAsLog(c, i, code) ==
  /\ witness' = [witness EXCEPT ![c][i] = code]
  /\ IF stage[c] = "witnessing" THEN Reject(c, "TLOG_CREATE_ENTRY_ERROR")
                                ELSE UNCHANGED <<stage, error>>
  /\ UNCHANGED <<cert, material, bundle, fetchVars, book>>

(* testify() of witness i rejects.  Promise.all rejects with the first      *)
(* witness that does; the others run on, unobserved.                       *)
Fail(c, i, code) ==
  /\ witness' = [witness EXCEPT ![c][i] = code]
  /\ IF stage[c] = "witnessing" THEN Reject(c, code) ELSE UNCHANGED <<stage, error>>
  /\ UNCHANGED <<cert, material, bundle, fetchVars, book>>

Posted(c, i) ==
  /\ witness[c][i] = "posting" /\ Succeeded(Post(c, i))
  /\ Accept(c, i, Post(c, i))

\* Mutant: fetchOnConflict is read the wrong way round.
LooksUpUnlessSet(c, i) == Witnesses[i] \in Logs /\ ~ FetchOnConflict /\ Conflict(Post(c, i))
LooksUp(c, i) == Witnesses[i] \in Logs /\ FetchOnConflict /\ Conflict(Post(c, i))

(* A log entry whose body cannot be parsed is found out of the reach of      *)
(* internalError (toTransparencyLogEntry): the error carries no code.      *)
MisreadCodes(i, q) == IF call[q] = "ok" /\ Witnesses[i] \in Logs THEN {"UNCODED"} ELSE {}

PostFailed(c, i) ==
  /\ witness[c][i] = "posting" /\ Unusable(Post(c, i)) /\ ~ LooksUp(c, i)
  /\ \E code \in {CreateCode(i)} \cup MisreadCodes(i, Post(c, i)) : Fail(c, i, code)

LookUp(c, i) ==
  /\ witness[c][i] = "posting" /\ LooksUp(c, i)
  /\ witness' = [witness EXCEPT ![c][i] = "getting"]
  /\ Begin({Get(c, i)})
  /\ UNCHANGED <<stage, cert, material, error, bundle, book>>

LookedUp(c, i) ==
  /\ witness[c][i] = "getting" /\ Succeeded(Get(c, i))
  /\ Accept(c, i, Get(c, i))

LookUpFailed(c, i) ==
  /\ witness[c][i] = "getting" /\ Unusable(Get(c, i))
  /\ \E code \in {"TLOG_FETCH_ENTRY_ERROR"} \cup MisreadCodes(i, Get(c, i)) : Fail(c, i, code)

\* Mutant: create() does not wait for the last witness.
CollectEarly(c) ==
  /\ stage[c] = "witnessing"
  /\ \A i \in Slots : i = Len(Witnesses) \/ witness[c][i] = "ok"
  /\ stage'  = [stage EXCEPT ![c] = "resolved"]
  /\ bundle' = [bundle EXCEPT ![c] = Bundled(c)]
  /\ UNCHANGED <<cert, witness, material, error, fetchVars, book>>

(* All witnesses have answered: their evidence is merged into the bundle.  *)
Collect(c) ==
  /\ stage[c] = "witnessing"
  /\ \A i \in Slots : witness[c][i] = "ok"
  /\ stage'  = [stage EXCEPT ![c] = "resolved"]
  /\ bundle' = [bundle EXCEPT ![c] = Bundled(c)]
  /\ UNCHANGED <<cert, witness, material, error, fetchVars, book>>

Create(c) ==
  \/ SignerFails(c) \/ RequestCertificate(c) \/ CertificateRefused(c)
  \/ SignCertified(c) \/ SignWithKey(c) \/ Collect(c)
  \/ \E i \in Slots : \/ Posted(c, i) \/ PostFailed(c, i)
                      \/ LookUp(c, i) \/ LookedUp(c, i) \/ LookUpFailed(c, i)

Client(q) ==
  /\ (Resend(q) \/ Receive(q) \/ Abort(q))
  /\ UNCHANGED <<createVars, book>>

-----------------------------------------------------------------------------
(* The services.  A position found or made is what the answer identifies.  *)
Holds(s, x) == \E n \in DOMAIN book[s] : book[s][n] = x

(* A copy is lost, or refused before the service acts on it.               *)
Refuse(m, status) ==
  /\ Deliver(m, IF status = 0 THEN NoAnswer ELSE [status |-> status, body |-> 0])
  /\ UNCHANGED <<createVars, book>>

(* A log does not record an entry twice.  The Location header may be absent. *)
Duplicate(m) ==
  /\ m.req.op = "post" /\ ServiceOf(m.req) \in Logs
  /\ \E n \in (DOMAIN book[ServiceOf(m.req)]) \cap Bodies, located \in BOOLEAN :
       /\ book[ServiceOf(m.req)][n] = Submission(m.req)
       /\ Deliver(m, [status |-> 409, body |-> IF located THEN n ELSE 0])
  /\ UNCHANGED <<createVars, book>>

(* The service acts, and answers; or its answer is lost, unreadable, or     *)
(* replaced by an error on the way.                                        *)
Record(m) ==
  /\ m.req.op # "get"
  /\ LET s == ServiceOf(m.req)
         n == Len(book[s]) + 1
     IN  /\ n \in Bodies
         /\ s \in Logs => ~ Holds(s, Submission(m.req))
         /\ book' = [book EXCEPT ![s] = Append(@, Submission(m.req))]
         /\ \E a \in {NoAnswer} \cup
                     {x \in Answers : IF Ok(x.status) THEN x.body \in {0, n}
                                                                  ELSE x.body = 0} :
              Deliver(m, a)
  /\ UNCHANGED createVars

(* GET of the entry whose UUID the conflict gave.                          *)
Retrieve(m) ==
  /\ m.req.op = "get"
  /\ \E n \in {0, result[Post(m.req.call, m.req.slot)].body} :
       Deliver(m, [status |-> 200, body |-> n])
  /\ UNCHANGED <<createVars, book>>

(* Somebody else submits to a log what a call submits: with a key whose        *)
(* signatures are deterministic, anyone who signs the same artifact.       *)
SubmittedByOthers(s) ==
  /\ ~ UseCA /\ Len(book[s]) + 1 \in Bodies
  /\ \E c \in Calls : /\ ~ Holds(s, Content(c))
                     /\ book' = [book EXCEPT ![s] = Append(@, Content(c))]
  /\ UNCHANGED <<createVars, fetchVars>>

Serve(m) ==
  \/ \E status \in {0} \cup (Statuses \ (200 .. 299)) : Refuse(m, status)
  \/ Duplicate(m) \/ Record(m) \/ Retrieve(m)

Next ==
  \/ \E c \in Calls : Create(c)
  \/ \E q \in Requests : Client(q)
  \/ \E m \in wire : Serve(m)
  \/ \E s \in Logs : SubmittedByOthers(s)

Spec == Init /\ [][Next]_vars

(* The code always takes its next step.  Every attempt ends because the      *)
(* timeout option is set (5 seconds in packages/client/src/config.ts).     *)
Fairness ==
  /\ \A c \in Calls : WF_vars(Create(c))
  /\ \A q \in Requests : WF_vars(Client(q))

FairSpec == Spec /\ Fairness

-----------------------------------------------------------------------------
CreateTypeOK ==
  /\ FetchTypeOK
  /\ stage    \in [Calls -> {"new", "certifying", "witnessing", "resolved", "rejected"}]
  /\ cert     \in [Calls -> Nat]
  /\ witness  \in [Calls -> [Slots -> {"idle", "posting", "getting", "ok"} \cup WitnessCodes]]
  /\ material \in [Calls -> [Slots -> Nat]]
  /\ error    \in [Calls -> {"", CACode} \cup IdentityCodes \cup WitnessCodes]
  /\ bundle   = [c \in Calls |-> bundle[c]]
  /\ book     \in [Services -> Seq(Contents)]

(* Evidence n of service s is about x.  What a timestamp authority sent may   *)
(* be no timestamp that can be read, 0, though it has made one.            *)
Evidences(s, n, x) ==
  \/ n \in DOMAIN book[s] /\ book[s][n] = x
  \/ s \in TSAs /\ n = 0 /\ Holds(s, x)

(* Whatever was retried, lost, looked up after a conflict or answered late,   *)
(* and whoever else submits to the log, what a witness returns is for this   *)
(* call: over its signature, under the certificate the bundle will carry.    *)
(* From a log it is in its book; from a timestamp authority it may also be    *)
(* bytes that nobody has read, but never for a signature it has not stamped  *)
(* (base.ts:65-84, tlog/client.ts:47-76, tsa/index.ts:36-55).               *)
EvidenceIsOwn ==
  \A c \in Calls : \A i \in Slots :
    witness[c][i] = "ok" => Evidences(Witnesses[i], material[c][i], Content(c))

(* A create() that resolves has the evidence of every witness in its bundle, *)
(* that of the logs and that of the timestamp authorities each in the order *)
(* of the witnesses, and about the signature under the very certificate in   *)
(* the bundle; that of the logs in their books (base.ts:70-84).             *)
BundleComplete ==
  \A c \in Calls : stage[c] = "resolved" =>
    LET signature == [of |-> Artifact[c], cert |-> bundle[c].certificate]
        holds(es, S) ==
          \E place \in [DOMAIN es -> SlotsOf(S)] :
            /\ {place[k] : k \in DOMAIN es} = SlotsOf(S)
            /\ \A j, k \in DOMAIN es : j < k => place[j] < place[k]
            /\ \A k \in DOMAIN es :
                 /\ es[k].from = Witnesses[place[k]]
                 /\ Evidences(es[k].from, es[k].at, signature)
    IN  /\ UseCA => /\ bundle[c].certificate \in DOMAIN book[CA]
                    /\ book[CA][bundle[c].certificate].of = HolderKey
        /\ holds(bundle[c].tlogEntries, Logs)
        /\ holds(bundle[c].timestamps, TSAs)

(* A rejected create() says what went wrong: a signer's code means that no   *)
(* witness has ever been asked, a witness's code that such a witness failed *)
(* (error.ts codes; fulcio/index.ts:50-95, tlog/client.ts:52-73).          *)
ErrorExplained ==
  \A c \in Calls : stage[c] = "rejected" =>
    IF error[c] \in WitnessCodes
    THEN \E i \in Slots : witness[c][i] = error[c]
    ELSE \A q \in Requests : q.call = c /\ q.op # "cert" => call[q] = "idle"

(* With fetchOnConflict, finding its own entry already in the log, left by   *)
(* an attempt whose answer was lost or by an equal signature of another     *)
(* call, never fails a witness that is told where (tlog/client.ts:52-66).  *)
ConflictIsRecovered ==
  FetchOnConflict =>
    \A c \in Calls : \A i \in Slots :
      witness[c][i] = "TLOG_CREATE_ENTRY_ERROR" => ~ Conflict(Post(c, i))

(* Once create() has settled, neither its witnesses that still run nor the  *)
(* other calls change what it came to (Promise.all, base.ts:65).           *)
OutcomeIsFinal ==
  [][\A c \in Calls : Settled(c) =>
       stage'[c] = stage[c] /\ error'[c] = error[c] /\ bundle'[c] = bundle[c]]_vars

(* Every create() settles, and every request it leaves behind ends, so that  *)
(* the process can exit, whatever the services do.                         *)
CreateSettles ==
  /\ \A c \in Calls : <>Settled(c)
  /\ <>[](\A q \in Requests : call[q] \notin {"flight", "backoff"})

-----------------------------------------------------------------------------
(* create() keeps the promise of BundleCreation: what it has come to, and    *)
(* which witnesses' services hold its signature.                           *)
Outcome  == [c \in Calls |-> IF Settled(c) THEN stage[c] ELSE "pending"]
Recorded == [c \in Calls |-> {i \in Slots : Holds(Witnesses[i], Content(c))}]
Promised == INSTANCE BundleCreation WITH outcome <- Outcome, recorded <- Recorded

(* A create() resolves only with its signature on the record of each of its  *)
(* witnesses, and settles once; the records only grow (base.ts:58-87).     *)
KeepsPromise == Promised!Spec
=============================================================================
