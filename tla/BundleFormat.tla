---------------------------- MODULE BundleFormat ----------------------------
(***************************************************************************)
(* The bundle: how it is built (packages/bundle/src/build.ts and              *)
(* packages/sign/src/bundler), written as JSON and read back (serialized.ts),  *)
(* what makes it valid (validate.ts), and what is verified of it              *)
(* (packages/verify/src/bundle): pure operators.                           *)
(*                                                                         *)
(* A bundle is [mediaType, content, material].                             *)
(***************************************************************************)
EXTENDS Integers, Sequences, FiniteSets

CONSTANTS
  Absent,   \* an optional part that is not there
  Empty     \* bytes or a text of no length

MediaTypes == {"v0.1", "v0.2", "v0.3-legacy", "v0.3", "later"}

digest(data) == [sha256 |-> data]

-----------------------------------------------------------------------------
(* Building.  A signature is [sig, key], the key a certificate or a hint.  *)

\* Mutant: the kinds of key are taken for each other.
toKeyContentSwapped(key, certificateChain) ==
  IF key.case = "x509Certificate" /\ ~ certificateChain
  THEN [case |-> "x509CertificateChain", certificates |-> <<key.certificate>>]
  ELSE IF key.case = "x509Certificate"
  THEN [case |-> "certificate", rawBytes |-> key.certificate]
  ELSE [case |-> "publicKey", hint |-> key.hint]

toKeyContent(key, certificateChain) ==
  IF key.case = "x509Certificate" /\ certificateChain
  THEN [case |-> "x509CertificateChain", certificates |-> <<key.certificate>>]
  ELSE IF key.case = "x509Certificate"
  THEN [case |-> "certificate", rawBytes |-> key.certificate]
  ELSE [case |-> "publicKey", hint |-> key.hint]

toVerificationMaterial(key, certificateChain) ==
  [content |-> toKeyContent(key, certificateChain), tlogEntries |-> <<>>, rfc3161Timestamps |-> <<>>]

Packed(content, key, certificateChain) ==
  [mediaType |-> IF certificateChain THEN "v0.2" ELSE "v0.3",
   content   |-> content,
   material  |-> toVerificationMaterial(key, certificateChain)]

\* Message signatures are always written the old way.
toMessageSignatureBundle(artifact, signature) ==
  Packed([case |-> "messageSignature", messageDigest |-> digest(artifact.data),
          signature |-> signature.sig], signature.key, TRUE)

toDSSEBundle(artifact, signature, certificateChain) ==
  Packed([case |-> "dsseEnvelope", payloadType |-> artifact.type, payload |-> artifact.data,
          signatures |-> <<[sig |-> signature.sig,
                            keyid |-> IF signature.key.case = "publicKey" THEN signature.key.hint ELSE Empty]>>],
         signature.key, certificateChain)

\* What is signed: the pre-authentication encoding, or the artifact itself.
preAuthEncoding(type, data) == [type |-> type, data |-> data]

\* Mutant: an attestation is signed as it is.
prepareRaw(case, artifact) == artifact.data
prepare(case, artifact) ==
  IF case = "dsseEnvelope" THEN preAuthEncoding(artifact.type, artifact.data) ELSE artifact.data

-----------------------------------------------------------------------------
(* What is submitted to the log, and what becomes of its answer.           *)
toProposedEntry(content, entryType) ==
  IF content.case = "messageSignature"
  THEN [kind |-> "hashedrekord", version |-> "0.0.1",
        sigs |-> <<content.signature>>, digest |-> content.messageDigest]
  ELSE [kind    |-> entryType, version |-> IF entryType = "intoto" THEN "0.0.2" ELSE "0.0.1",
        sigs    |-> <<content.signatures[1].sig>>,
        digest  |-> digest(content.payload)]

toTransparencyLogEntry(entry) ==
  [log |-> entry.logID, time |-> entry.integratedTime, body |-> entry.body,
   kindVersion |-> [kind |-> entry.body.kind, version |-> entry.body.version],
   promise |-> entry.signedEntryTimestamp, proof |-> entry.inclusionProof]

-----------------------------------------------------------------------------
(* As JSON, where the alternatives are optional members side by side.      *)
One(name, value) == [n \in {name} |-> value]

\* The members of a, and those of b that a has not.
Joined(a, b) ==
  [name \in (DOMAIN a) \cup DOMAIN b |-> IF name \in DOMAIN a THEN a[name] ELSE b[name]]

bundleToJSON(b) ==
  LET key == b.material.content
  IN  Joined([mediaType |-> b.mediaType,
              verificationMaterial |->
                Joined([tlogEntries |-> b.material.tlogEntries,
                        rfc3161Timestamps |-> b.material.rfc3161Timestamps], One(key.case, key))],
             One(b.content.case, b.content))

Member(obj, name, default) == IF name \in DOMAIN obj THEN obj[name] ELSE default

\* The first of the alternatives that is there.
OneOf(obj, names) ==
  LET there == {k \in DOMAIN names : names[k] \in DOMAIN obj}
  IN  IF there = {} THEN Absent ELSE obj[names[CHOOSE k \in there : \A j \in there : k <= j]]

fromJSON(obj) ==
  LET vm == Member(obj, "verificationMaterial", Absent)
  IN  [mediaType |-> Member(obj, "mediaType", Empty),
       content   |-> OneOf(obj, <<"messageSignature", "dsseEnvelope">>),
       material  |-> IF vm = Absent THEN Absent
                     ELSE [content |-> OneOf(vm, <<"publicKey", "x509CertificateChain", "certificate">>),
                           tlogEntries |-> Member(vm, "tlogEntries", <<>>),
                           rfc3161Timestamps |-> Member(vm, "rfc3161Timestamps", <<>>)]]

-----------------------------------------------------------------------------
(* Which fields are invalid.                                               *)
Fields(condition, field) == IF condition THEN {field} ELSE {}

InvalidContent(content) ==
  IF content = Absent THEN {"content"}
  ELSE IF content.case = "messageSignature"
  THEN Fields(content.messageDigest \in {Absent, Empty}, "messageDigest")
         \cup Fields(content.signature = Empty, "signature")
  ELSE Fields(content.payload = Empty, "payload")
         \cup Fields(Len(content.signatures) # 1, "signatures")
         \cup Fields(Len(content.signatures) = 1 /\ content.signatures[1].sig = Empty, "sig")

InvalidKey(key) ==
  IF key = Absent THEN {"verificationMaterial.content"}
  ELSE IF key.case = "x509CertificateChain"
  THEN Fields(key.certificates = <<>> \/ \E k \in DOMAIN key.certificates : key.certificates[k] = Empty,
              "certificates")
  ELSE Fields(key.case = "certificate" /\ key.rawBytes = Empty, "certificate.rawBytes")

validateBundleBase(b) ==
  Fields(b.mediaType \notin MediaTypes, "mediaType") \cup InvalidContent(b.content)
    \cup IF b.material = Absent THEN {"verificationMaterial"}
         ELSE InvalidKey(b.material.content)
                \cup UNION {Fields(e.log = Absent, "logId") \cup Fields(e.kindVersion = Absent, "kindVersion") :
                              e \in {b.material.tlogEntries[k] : k \in DOMAIN b.material.tlogEntries}}

EntriesOf(b) ==
  IF b.material = Absent THEN {} ELSE {b.material.tlogEntries[k] : k \in DOMAIN b.material.tlogEntries}

validateInclusionPromise(b) == Fields(\E e \in EntriesOf(b) : e.promise = Absent, "inclusionPromise")

validateInclusionProof(b) ==
  Fields(\E e \in EntriesOf(b) : e.proof = Absent, "inclusionProof")
    \cup Fields(\E e \in EntriesOf(b) : e.proof # Absent /\ e.proof.checkpoint = Absent, "checkpoint")

validateNoCertificateChain(b) ==
  Fields(b.material # Absent /\ b.material.content # Absent
           /\ b.material.content.case = "x509CertificateChain", "$case")

\* bundleFromJSON asserts what the version of the format calls for.
invalidValues(b) ==
  validateBundleBase(b) \cup
    CASE b.mediaType = "v0.1" -> validateInclusionPromise(b)
      [] b.mediaType = "v0.2" -> validateInclusionProof(b)
      [] OTHER -> validateInclusionProof(b) \cup validateNoCertificateChain(b)

-----------------------------------------------------------------------------
(* What is verified of a valid bundle; data is the artifact given along with  *)
(* it.  A certificate is [cert, identity, scts].  All of it can be read: it   *)
(* was made by sign(), if not of one signing.                              *)
signatureContent(content, data) ==
  IF content.case = "dsseEnvelope"
  THEN [artifact |-> preAuthEncoding(content.payloadType, content.payload),
        digest |-> digest(content.payload), sig |-> content.signatures[1].sig]
  ELSE [artifact |-> data, digest |-> content.messageDigest, sig |-> content.signature]

keyOf(key) ==
  IF key.case = "publicKey" THEN [case |-> "public-key", hint |-> key.hint]
  ELSE LET c == IF key.case = "certificate" THEN key.rawBytes ELSE key.certificates[1]
       IN  [case |-> "certificate", cert |-> c.cert, identity |-> c.identity, scts |-> c.scts]

toSignedEntity(b, data) ==
  LET signed == signatureContent(b.content, data)
  IN  [artifact |-> signed.artifact, digest |-> signed.digest, sig |-> signed.sig,
       key      |-> keyOf(b.material.content),
       entries  |-> [k \in DOMAIN b.material.tlogEntries |->
                       LET e == b.material.tlogEntries[k]
                       IN  [log |-> e.log, time |-> e.time, body |-> e.body,
                            promise |-> e.promise, proof |-> e.proof,
                            kind |-> e.kindVersion.kind, version |-> e.kindVersion.version]],
       tsts     |-> b.material.rfc3161Timestamps,
       unread   |-> {}]
=============================================================================
