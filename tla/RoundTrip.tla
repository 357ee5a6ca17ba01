------------------------------ MODULE RoundTrip ------------------------------
(***************************************************************************)
(* From sign() or attest() to verify() (packages/client/src): a bundle is     *)
(* created, written as JSON, kept where it may lose a part or get one of       *)
(* another bundle, read back, validated and verified by the steps of          *)
(* VerifyBundle.  SignBundle has the steps of the creation.                *)
(***************************************************************************)
EXTENDS BundleFormat

CONSTANTS
  Signings,       \* what is signed: [call, artifact, signer, options, log, tsa]
  Others,         \* the signings whose bundles are kept at the same place
  Verifications,  \* how it is verified: [options, keys, data]
  TrustedRoot,    \* what getTrustedRoot() has
  END_OF_TIME

VARIABLES
  signing,   \* what was signed
  json,      \* the serialized bundle
  altered,   \* the signings whose bundles it has parts of
  how,       \* the options of verify(), its keySelector and its data
  stage, entity, root, options, verified, error   \* as in VerifyBundle

V == INSTANCE VerifyBundle WITH Calls <- {}, None <- Absent

vars == <<signing, json, altered, how, V!vars>>

-----------------------------------------------------------------------------
(* The builder and the witnesses that the options call for (config.ts).    *)
CaseOf(s) == IF s.call = "sign" THEN "messageSignature" ELSE "dsseEnvelope"

Signature(s) == [sig |-> [by |-> s.signer.key, over |-> prepare(CaseOf(s), s.artifact)],
                 key |-> s.signer.material]

createBundleBuilder(s) ==
  IF s.call = "sign" THEN toMessageSignatureBundle(s.artifact, Signature(s))
  ELSE toDSSEBundle(s.artifact, Signature(s), s.options.legacyCompatibility)

(* What a log answers: an entry of the body it was given, with its promise,  *)
(* its proof or both.                                                      *)
LogAnswer(s, body) ==
  LET log  == TrustedRoot.tlogs[1]
      seal == [body |-> body, time |-> s.log.time, log |-> log.id]
  IN  [logID |-> log.id, integratedTime |-> s.log.time, body |-> body,
       signedEntryTimestamp |-> IF "promise" \notin s.log.gives THEN Absent
                                ELSE [by |-> log.key, over |-> seal],
       inclusionProof |->
         IF "proof" \notin s.log.gives THEN Absent
         ELSE [body |-> body, root |-> body,
               checkpoint |-> [root |-> body,
                               sigs |-> {[hint |-> log.id, sig |-> [by |-> log.key, over |-> body]]}]]]

TSAnswer(s) ==
  LET tsa  == TrustedRoot.tsas[1].chain[1]
      info == [imprint |-> Signature(s).sig, time |-> s.tsa.time]
  IN  [token |-> TRUE, typed |-> TRUE, serial |-> tsa.serial, issuer |-> tsa.issuer,
       info |-> info, digest |-> info, sig |-> [by |-> tsa.key, over |-> info]]

tlogEntries(s) ==
  IF ~ s.options.tlogUpload THEN <<>>
  ELSE LET type == IF s.options.legacyCompatibility THEN "intoto" ELSE "dsse"
       IN  <<toTransparencyLogEntry(
               LogAnswer(s, toProposedEntry(createBundleBuilder(s).content, type)))>>

rfc3161Timestamps(s) == IF s.options.tsaServerURL = Absent THEN <<>> ELSE <<TSAnswer(s)>>

Created(s) == [createBundleBuilder(s) EXCEPT
                 !.material.tlogEntries = tlogEntries(s),
                 !.material.rfc3161Timestamps = rfc3161Timestamps(s)]

ASSUME SigningsAssumption ==
  /\ \A s \in Signings \cup Others :
       /\ s.call \in {"sign", "attest"}
       /\ s.artifact = [type |-> s.artifact.type, data |-> s.artifact.data]
       /\ s.signer.material.case \in {"x509Certificate", "publicKey"}
  /\ {"tlogs", "ctlogs", "cas", "tsas", "keys"} \subseteq DOMAIN TrustedRoot

(* What a bundle is made of is there, and has bytes; a log that gives proofs  *)
(* signs a checkpoint.                                                     *)
Something(x) == x \notin {Absent, Empty}
ASSUME SomethingAssumption ==
  \A s \in Signings :
    LET b == Created(s)
    IN  /\ Something(b.content) /\ Something(b.material) /\ Something(b.material.content)
        /\ Something(bundleToJSON(b).verificationMaterial)
        /\ Something(Signature(s).sig) /\ Something(digest(s.artifact.data))
        /\ s.signer.material.case = "x509Certificate" => Something(s.signer.material.certificate)
        /\ \A k \in DOMAIN b.material.tlogEntries :
             LET e == b.material.tlogEntries[k]
             IN  /\ Something(e.log) /\ Something(e.kindVersion)
                 /\ "proof" \in s.log.gives => Something(e.proof) /\ Something(e.proof.checkpoint)

(* A key is one signer's: it is certified to one identity, and a verifier      *)
(* finds by its hint only the key of a signer who gives one.  No two signings  *)
(* are of one thing by one key (the signatures would differ all the same,    *)
(* since ECDSA has randomness in it).                                      *)
ASSUME SignersAssumption ==
  /\ \A s, r \in Signings \cup Others :
       r.signer.material.case = "x509Certificate"
         /\ s.signer.key = r.signer.material.certificate.cert.key =>
           /\ s.signer.material.case = "x509Certificate"
           /\ s.signer.material.certificate.identity = r.signer.material.certificate.identity
  /\ \A s \in Signings \cup Others, h \in Verifications : \A hint \in DOMAIN h.keys :
       h.keys[hint] = s.signer.key => s.signer.material.case = "publicKey"
ASSUME SignaturesAssumption ==
  LET Matter(s) == <<s.signer.key, IF s.call = "sign" THEN s.artifact.data ELSE s.artifact>>
  IN  \A s \in Signings, r \in Others : s # r => Matter(s) # Matter(r)

(* The services that are asked are the first of the trusted ones, at times     *)
(* when they are trusted; the trusted authorities trace what they have        *)
(* certified, and the CT logs have it on record.                           *)
ASSUME ServicesAssumption ==
  /\ END_OF_TIME \in Nat
  /\ V!Listed(TrustedRoot.tlogs) /\ V!Listed(TrustedRoot.cas) /\ V!Listed(TrustedRoot.tsas)
  /\ \A s \in Signings :
       /\ s.options.tlogUpload =>
            /\ TrustedRoot.tlogs # <<>> /\ s.log.time \in 0 .. END_OF_TIME
            /\ V!Valid(V!During(TrustedRoot.tlogs[1]), s.log.time)
       /\ s.options.tsaServerURL # Absent =>
            LET tsa == TrustedRoot.tsas[1]
            IN  /\ TrustedRoot.tsas # <<>> /\ s.tsa.time \in 0 .. END_OF_TIME
                /\ V!Valid(V!During(tsa), s.tsa.time)
                /\ V!Listed(tsa.chain) /\ tsa.chain # <<>>
                /\ V!Path(Head(tsa.chain), Tail(tsa.chain)) # <<>>
                /\ \A c \in V!Range(tsa.chain) : V!Valid(c, s.tsa.time)

ASSUME CertificatesAssumption ==
  \A s \in {s \in Signings : s.signer.material.case = "x509Certificate"} :
    LET k == s.signer.material.certificate
    IN  /\ k.cert.key = s.signer.key /\ V!Listed(k.scts)
        /\ V!Listed(k.identity.san) /\ V!Plain(k.identity.san)
        /\ \E a \in V!Range(TrustedRoot.cas) :
             /\ V!During(a).from <= k.cert.from /\ k.cert.until <= V!During(a).until
             /\ V!Path(k.cert, a.chain) # <<>>
        /\ \A a \in V!Range(TrustedRoot.cas) :
             LET path == V!Path(k.cert, a.chain)
             IN  path # <<>> =>
                   /\ \A i \in DOMAIN path :
                        k.cert.from .. k.cert.until \subseteq path[i].from .. path[i].until
                   /\ \A t \in V!Range(k.scts) : \E l \in V!Range(TrustedRoot.ctlogs) :
                        /\ l.id = t.log /\ V!Valid(V!During(l), t.time)
                        /\ V!SCTVerifies(t, V!PreCert(path[1], path[2]), l.key)
        /\ V!Distinct([i \in DOMAIN k.scts |-> k.scts[i].log])

(* The verifier that the options call for (config.ts, sigstore.ts).        *)
createKeyFinder(keys) ==
  [hint \in DOMAIN keys |-> [key |-> keys[hint], start |-> V!Unset, end |-> V!Unset]]

createVerificationPolicy(o) ==
  [san    |-> IF o.certificateIdentityEmail # <<>> THEN o.certificateIdentityEmail
                                                   ELSE o.certificateIdentityURI,
   issuer |-> o.certificateIssuer]

Threshold(value, default) == IF value = Absent THEN default ELSE value

createVerifier(o) ==
  LET policy == createVerificationPolicy(o)
  IN  [san |-> policy.san, issuer |-> policy.issuer,
       ctlogThreshold |-> Threshold(o.ctLogThreshold, 1),
       tlogThreshold  |-> Threshold(o.tlogThreshold, 1),
       tsaThreshold   |-> 0]

-----------------------------------------------------------------------------
Init ==
  /\ signing \in Signings /\ how \in Verifications
  /\ altered = {} /\ json = Absent
  /\ stage = "signing" /\ entity = Absent /\ options = Absent
  /\ root = [TrustedRoot EXCEPT !.keys = createKeyFinder(how.keys)]
  /\ verified = <<>> /\ error = ""

(* sign() and attest(): no bundle is looked at again once it is made.      *)
Sign ==
  /\ stage = "signing"
  /\ stage' = "stored"
  /\ json' = bundleToJSON(Created(signing))
  /\ UNCHANGED <<signing, altered, how, entity, root, options, verified, error>>

Without(obj, names) == [name \in (DOMAIN obj) \ names |-> obj[name]]
Only(obj, names)    == [name \in (DOMAIN obj) \cap names |-> obj[name]]

ContentMembers == {"messageSignature", "dsseEnvelope"}
KeyMembers     == {"publicKey", "x509CertificateChain", "certificate"}

(* While it is kept, a part of the bundle is lost, or comes from another.    *)
Mixed(a, b) ==
  LET av == a.verificationMaterial
      bv == b.verificationMaterial
  IN  {Without(a, {name}) : name \in DOMAIN a}
        \cup {[a EXCEPT !.mediaType = type] : type \in MediaTypes \cup {"unknown"}}
        \cup {Joined(Only(b, ContentMembers), Without(a, ContentMembers)),
              Joined(Only(b, ContentMembers), a)}
        \cup {[a EXCEPT !.verificationMaterial = vm] :
                vm \in {Without(av, {name}) : name \in DOMAIN av}
                         \cup {Joined(Only(bv, KeyMembers), Without(av, KeyMembers)),
                               Joined(Only(bv, {"tlogEntries"}), av),
                               Joined(Only(bv, {"rfc3161Timestamps"}), av)}}

Entrywise(a) ==
  {[a EXCEPT !.verificationMaterial.tlogEntries[1] = e] :
     e \in UNION {{[x EXCEPT !.promise = Absent], [x EXCEPT !.proof = Absent],
                   [x EXCEPT !.kindVersion = Absent], [x EXCEPT !.log = Absent]} :
                    x \in {a.verificationMaterial.tlogEntries[1]}}}

Alter ==
  /\ stage = "stored" /\ altered = {}
  /\ \E s \in Others :
       /\ \/ json' \in Mixed(json, bundleToJSON(Created(s)))
          \/ json.verificationMaterial.tlogEntries # <<>> /\ json' \in Entrywise(json)
       /\ altered' = {s}
  /\ UNCHANGED <<signing, how, stage, entity, root, options, verified, error>>

(* verify(): bundleFromJSON, which throws if values are invalid; what is      *)
(* signed and the key are taken from the bundle, the rest from the options. *)
Deserialize ==
  /\ stage = "stored"
  /\ IF invalidValues(fromJSON(json)) # {}
     THEN stage' = "invalid" /\ UNCHANGED <<entity, options>>
     ELSE /\ stage' = "timestamps"
          /\ entity' = toSignedEntity(fromJSON(json), how.data)
          /\ options' = createVerifier(how.options)
  /\ UNCHANGED <<signing, json, altered, how, root, verified, error>>

Verify == entity # Absent /\ V!Next /\ UNCHANGED <<signing, json, altered, how>>

Next == Sign \/ Alter \/ Deserialize \/ Verify

Spec == Init /\ [][Next]_vars
-----------------------------------------------------------------------------
(* What create() makes nobody looks at before it is read back to be verified: *)
(* every bundle is valid for the version it is said to be, unless what was    *)
(* attested has no bytes or the log has given no proof (build.ts, entry       *)
(* conversion in tlog/index.ts, against validate.ts).                      *)
SignedIsValid ==
  stage = "invalid" /\ altered = {} =>
    \/ signing.call = "attest" /\ signing.artifact.data = Empty
    \/ signing.options.tlogUpload /\ "proof" \notin signing.log.gives

(* What is verified is another artifact, or there is not what is asked for.  *)
AsksForMore ==
  LET s == signing
      m == s.signer.material
      o == how.options
      policy == createVerificationPolicy(o)
      times == (IF s.options.tlogUpload THEN {s.log.time} ELSE {})
                 \cup (IF s.options.tsaServerURL = Absent THEN {} ELSE {s.tsa.time})
  IN  \/ s.call = "sign" /\ how.data # s.artifact.data
      \/ ~ Len(tlogEntries(s)) >= Threshold(o.tlogThreshold, 1)
      \/ m.case = "publicKey" /\
           \/ m.hint \notin DOMAIN how.keys \/ how.keys[m.hint] # s.signer.key
           \/ policy.issuer # <<>> \/ policy.san # <<>>
      \/ m.case = "x509Certificate" /\
           LET k == m.certificate
           IN  \/ policy.issuer \notin {<<>>, k.identity.issuer}
               \/ policy.san \notin {<<>>, k.identity.san}
               \/ ~ Len(k.scts) >= Threshold(o.ctLogThreshold, 1)
               \/ ~ times \subseteq k.cert.from .. k.cert.until

(* The two ends agree on what is signed, what is logged and where the key is: *)
(* a bundle as it was created is accepted by whoever asks for no more than    *)
(* there is, with the artifact at hand (client/src/config.ts for both ends).  *)
SignedIsAccepted == stage = "rejected" /\ altered = {} => AsksForMore

(* Whatever was lost or mixed up while it was kept: what is accepted is one   *)
(* of the signings as it was, in what was signed, of which type, by whom, and *)
(* when as the evidence has it (toSignedEntity, verifier.ts:50-61).        *)
Read == fromJSON(json)
AcceptedIsAsSigned ==
  stage = "accepted" =>
    \E s \in {signing} \cup altered :
      /\ Read.content.case = CaseOf(s)
      /\ IF s.call = "sign" THEN how.data = s.artifact.data
         ELSE [type |-> Read.content.payloadType, data |-> Read.content.payload] = s.artifact
      /\ V!Identity = IF s.signer.material.case = "publicKey" THEN [san |-> <<>>, issuer |-> <<>>]
                      ELSE s.signer.material.certificate.identity
      /\ {verified[k].time : k \in DOMAIN verified} \subseteq {s.log.time, s.tsa.time}
=============================================================================
