---------------------------- MODULE VerifyBundle ----------------------------
(***************************************************************************)
(* Verifying a bundle (packages/verify/src): verify() of the Verifier with   *)
(* the checks it calls, one step for each timestamp and each check, in the   *)
(* order of the code.  The first check that throws ends it.                *)
(*                                                                         *)
(* Cryptography is what it says: a signature is who made it and over what,   *)
(* a Merkle proof is the body it is a proof of.  Instants are numbers.     *)
(***************************************************************************)
EXTENDS CertChain

CONSTANTS
  Calls,            \* calls of verify(): [entity, options, root]
  END_OF_TIME,      \* an instant after all others
  None              \* an optional part that is not there

ASSUME TimeAssumption == END_OF_TIME \in Nat

ASSUME ThresholdsAssumption ==
  \A c \in Calls : {c.options.tlogThreshold, c.options.tsaThreshold, c.options.ctlogThreshold}
                    \subseteq Nat

(* What has been parsed: lists, instants, and the signatures of checkpoints. *)
Listed(s)      == s \in Seq(Range(s))
InTime(things) == \A x \in things : x.start \in Int /\ x.end \in Int
AreCerts(certs) ==
  \A c \in certs : /\ c.from \in Int /\ c.until \in Int /\ c.pathLen \in Nat \cup {NoLimit}
                   /\ c.usage \in {"absent", "keyCertSign", "other"}
AreSigs(sigs)  == IsFiniteSet(sigs) /\ \A s \in sigs : s = [hint |-> s.hint, sig |-> s.sig]

ASSUME EntityAssumption ==
  \A c \in Calls :
    LET e == c.entity
    IN  /\ Listed(e.entries) /\ Listed(e.tsts)
        /\ \A x \in Range(e.entries) : /\ x.time \in Int /\ Listed(x.body.sigs)
                                       /\ x.proof # None => AreSigs(x.proof.checkpoint.sigs)
        /\ \A t \in Range(e.tsts) : t.info.time \in Int
        /\ e.key.case \in {"certificate", "public-key"}
        /\ e.key.case = "certificate" =>
             AreCerts({e.key.cert}) /\ Listed(e.key.scts) /\ Listed(e.key.identity.san)
                                  /\ \A s \in Range(e.key.scts) : s.time \in Int

ASSUME RootAssumption ==
  \A c \in Calls :
    LET r == c.root
    IN  /\ Listed(r.tlogs) /\ Listed(r.ctlogs) /\ Listed(r.cas) /\ Listed(r.tsas)
        /\ InTime(Range(r.tlogs) \cup Range(r.ctlogs) \cup Range(r.cas) \cup Range(r.tsas) \cup Range(r.keys))
        /\ \A a \in Range(r.cas) \cup Range(r.tsas) : Listed(a.chain) /\ AreCerts(Range(a.chain))

VARIABLES
  stage,      \* the check that comes next, or how it ended
  entity,     \* what is verified (toSignedEntity); unread: the parts that cannot be read
  root,       \* the trusted root, and the keys a Verifier was made with
  options,    \* VerifierOptions, and the policy: [san, issuer], <<>> where none is asked
  verified,   \* the timestamps that have been verified
  error       \* the code of the error that was thrown

vars == <<stage, entity, root, options, verified, error>>

MadeBy(sig, key, data) == sig = [by |-> key, over |-> data]

(* Documents are read when they are needed.  A part of one that is not what  *)
(* it is read as ends the verification with an error that has no code.     *)
Unread(part, of) == <<part, of>> \in entity.unread

\* Mutant: a validity begins after its first instant.
ValidStrict(thing, time) == thing.from < time /\ time <= thing.until
Valid(thing, time) == thing.from <= time /\ time <= thing.until

Distinct(s) == \A i, j \in DOMAIN s : s[i] = s[j] => i = j

-----------------------------------------------------------------------------
(* The trust material: a validity need not have a beginning or an end.     *)
Unset             == -1
BEGINNING_OF_TIME == 0

During(thing) ==
  [from  |-> IF thing.start = Unset THEN BEGINNING_OF_TIME ELSE thing.start,
   until |-> IF thing.end = Unset THEN END_OF_TIME ELSE thing.end]

createTLogAuthority(log) ==
  [id |-> log.id, key |-> log.key, from |-> During(log).from, until |-> During(log).until]
createCertAuthority(ca) ==
  [chain |-> ca.chain, from |-> During(ca).from, until |-> During(ca).until]
keyLocator(keys) ==
  [hint \in DOMAIN keys |->
     [key |-> keys[hint].key, from |-> During(keys[hint]).from, until |-> During(keys[hint]).until]]

toTrustMaterial ==
  [tlogs  |-> [k \in DOMAIN root.tlogs  |-> createTLogAuthority(root.tlogs[k])],
   ctlogs |-> [k \in DOMAIN root.ctlogs |-> createTLogAuthority(root.ctlogs[k])],
   cas    |-> [k \in DOMAIN root.cas    |-> createCertAuthority(root.cas[k])],
   tsas   |-> [k \in DOMAIN root.tsas   |-> createCertAuthority(root.tsas[k])],
   keys   |-> keyLocator(root.keys)]

trust == toTrustMaterial

-----------------------------------------------------------------------------
(* The checks of one timestamp.  What a list is filtered for are the places  *)
(* in it that are left; where the code takes one, it is the first.         *)
filterCertAuthorities(cas, start, end) ==
  {k \in DOMAIN cas : cas[k].from <= start /\ end <= cas[k].until}
FilterTLogs(logs, id, time) == {k \in DOMAIN logs : logs[k].id = id /\ Valid(logs[k], time)}

First(places) == CHOOSE k \in places : \A j \in places : k <= j

(* verifyTLogSET: the promise signs the entry with its time.               *)
PromiseHolds(e) ==
  \E k \in FilterTLogs(trust.tlogs, e.log, e.time) :
    MadeBy(e.promise, trust.tlogs[k].key, [body |-> e.body, time |-> e.time, log |-> e.log])

(* verifyMerkleInclusion and verifyCheckpoint: all signatures of the         *)
(* checkpoint are by the first trusted log their hint names.               *)
MerkleHolds(e) == e.proof.body = e.body

CheckpointHolds(e) ==
  LET note == e.proof.checkpoint
  IN  /\ note.sigs # {}
      /\ \A s \in note.sigs :
           LET logs == FilterTLogs(trust.tlogs, s.hint, e.time)
           IN  logs # {} /\ MadeBy(s.sig, trust.tlogs[First(logs)].key, note.root)
      /\ note.root = e.proof.root

(* Index and size of a proof are read before anything else of it, the size   *)
(* in the checkpoint after its signatures and before they are verified.    *)
ProofUnread(e) ==
  \/ Unread("numbers", e)
  \/ MerkleHolds(e) /\ e.proof.checkpoint.sigs # {} /\ Unread("checkpoint", e)

TLogError(e) ==
  CASE e.promise # None /\ ~ PromiseHolds(e) -> "TLOG_INCLUSION_PROMISE_ERROR"
    [] e.promise = None /\ e.proof = None    -> "TLOG_MISSING_INCLUSION_ERROR"
    [] (e.promise = None \/ PromiseHolds(e)) /\ e.proof # None /\ ProofUnread(e) -> "UNCODED"
    [] (e.promise = None \/ PromiseHolds(e)) /\ e.proof # None /\ ~ ProofUnread(e)
         /\ ~ (MerkleHolds(e) /\ CheckpointHolds(e)) -> "TLOG_INCLUSION_PROOF_ERROR"
    [] OTHER -> ""

(* RFC3161Timestamp.verify: a token with a TSTInfo about the signature of     *)
(* the entity, whose digest is among the attributes that are signed.       *)
signingTime(t)            == t.info.time
ImprintHolds(info, data)  == info.imprint = data
verifyMessageDigest(t)    == t.digest = t.info
verifySignature(t, key)   == MadeBy(t.sig, key, t.digest)

TokenHolds(t, data, key) ==
  t.typed /\ ImprintHolds(t.info, data) /\ verifyMessageDigest(t) /\ verifySignature(t, key)

(* verifyTimestampForCA: the first certificate of the authority is the leaf,  *)
(* the others are what it is traced to.                                    *)
verifyTimestampForCA(t, data, ca) ==
  /\ Path(Head(ca.chain), Tail(ca.chain)) # <<>>
  /\ \A k \in DOMAIN ca.chain : Valid(ca.chain[k], signingTime(t))
  /\ TokenHolds(t, data, Head(ca.chain).key)

filterCAsBySerialAndIssuer(cas, t) ==
  {k \in DOMAIN cas : /\ cas[k].chain # <<>>
                      /\ Head(cas[k].chain).serial = t.serial
                      /\ Head(cas[k].chain).issuer = t.issuer}

(* verifyRFC3161Timestamp: by one of the authorities valid at the time it    *)
(* states whose certificate it names.  A response without a token, or with    *)
(* one whose time and signer cannot be read, is read before anything is       *)
(* caught.                                                                 *)
TSAError(t) ==
  LET valid == filterCertAuthorities(trust.tsas, signingTime(t), signingTime(t))
  IN  IF ~ t.token THEN "UNCODED"
      ELSE IF \E k \in valid \cap filterCAsBySerialAndIssuer(trust.tsas, t) :
                verifyTimestampForCA(t, entity.sig, trust.tsas[k])
      THEN "" ELSE "TIMESTAMP_ERROR"

\* toSignedEntity puts the log entries before the other timestamps.
Timestamps == Len(entity.entries) + Len(entity.tsts)

TimestampError(k) ==
  IF k <= Len(entity.entries) THEN TLogError(entity.entries[k])
                              ELSE TSAError(entity.tsts[k - Len(entity.entries)])

\* Mutant: a timestamp is told from the others by its place.
TimestampPlaced(k) ==
  [type |-> "", id |-> k,
   time |-> IF k <= Len(entity.entries) THEN entity.entries[k].time
                                        ELSE entity.tsts[k - Len(entity.entries)].info.time]

Timestamp(k) ==
  IF k <= Len(entity.entries)
  THEN [type |-> "transparency-log",
        id |-> entity.entries[k].log, time |-> entity.entries[k].time]
  ELSE [type |-> "timestamp-authority",
        id |-> entity.tsts[k - Len(entity.entries)].serial,
        time |-> entity.tsts[k - Len(entity.entries)].info.time]

-----------------------------------------------------------------------------
(* The checks of the signing key.                                          *)

(* verifyCertificateChain: by the first of the authorities that may have       *)
(* issued the certificate to which it can be traced.                       *)
verifyCertificateChain(leaf) ==
  LET cas    == filterCertAuthorities(trust.cas, leaf.from, leaf.until)
      traced == {k \in cas : Path(leaf, trust.cas[k].chain) # <<>>}
  IN  IF traced = {} THEN <<>> ELSE Path(leaf, trust.cas[First(traced)].chain)

ValidAtAll(thing)  == \A k \in DOMAIN verified : Valid(thing, verified[k].time)

(* verifySCTs: each is by a log trusted at its time, over the certificate as   *)
(* its issuer signed it (the PreCert), with the time.                      *)
PreCert(c, issuer) == [cert |-> c, issuer |-> issuer.key]
SCTVerifies(s, preCert, key) == MadeBy(s.sig, key, [preCert |-> preCert, time |-> s.time])

verifySCTs(c, issuer, scts) ==
  \A k \in DOMAIN scts :
    \E l \in FilterTLogs(trust.ctlogs, scts[k].log, scts[k].time) :
      SCTVerifies(scts[k], PreCert(c, issuer), trust.ctlogs[l].key)

Traced(path) == path # <<>> /\ \A i \in DOMAIN path : ValidAtAll(path[i])

(* The validity of a certificate is read first, its SCTs when a path to it    *)
(* has been found, what it certifies when they have been verified.         *)
CertificateUnread(k) ==
  LET path == verifyCertificateChain(k.cert)
  IN  \/ Unread("validity", k.cert)
      \/ /\ Traced(path)
         /\ \/ Unread("SCTs", k.cert)
            \/ verifySCTs(path[1], path[2], k.scts) /\ Unread("key", k.cert)

CertificateHolds(k) ==
  LET path == verifyCertificateChain(k.cert)
  IN  /\ Traced(path)
      /\ verifySCTs(path[1], path[2], k.scts)
      /\ Distinct([i \in DOMAIN k.scts |-> k.scts[i].log])
      /\ Len(k.scts) >= options.ctlogThreshold

\* Mutant: it is not looked whether the key finder has found a key.
KeyErrorUncoded ==
  CASE entity.key.case = "certificate" ->
         IF CertificateUnread(entity.key) THEN "UNCODED"
         ELSE IF CertificateHolds(entity.key) THEN "" ELSE "CERTIFICATE_ERROR"
    [] entity.key.case = "public-key" /\ entity.key.hint \notin DOMAIN trust.keys -> "UNCODED"
    [] entity.key.case = "public-key" /\ entity.key.hint \in DOMAIN trust.keys
         /\ ~ ValidAtAll(trust.keys[entity.key.hint]) -> "PUBLIC_KEY_ERROR"
    [] OTHER -> ""

KeyError ==
  CASE entity.key.case = "certificate" ->
         IF CertificateUnread(entity.key) THEN "UNCODED"
         ELSE IF CertificateHolds(entity.key) THEN "" ELSE "CERTIFICATE_ERROR"
    [] entity.key.case = "public-key" /\ entity.key.hint \notin DOMAIN trust.keys -> "PUBLIC_KEY_ERROR"
    [] entity.key.case = "public-key" /\ entity.key.hint \in DOMAIN trust.keys
         /\ ~ ValidAtAll(trust.keys[entity.key.hint]) -> "PUBLIC_KEY_ERROR"
    [] OTHER -> ""

SignerKey == IF entity.key.case = "certificate" THEN entity.key.cert.key
                                                ELSE trust.keys[entity.key.hint].key
Identity  == IF entity.key.case = "certificate" THEN entity.key.identity
                                                ELSE [san |-> <<>>, issuer |-> <<>>]

(* verifyTLogBody: the entry is of the kind and version it is said to be,    *)
(* and about the one signature and the digest of the entity.               *)
SpeaksOf(body, version) ==
  /\ body.version = version
  /\ Len(body.sigs) = 1
  /\ body.sigs[1] = entity.sig
  /\ body.digest = entity.digest

verifyDSSETLogBody(body)         == SpeaksOf(body, "0.0.1")
verifyHashedRekordTLogBody(body) == SpeaksOf(body, "0.0.1")
verifyIntotoTLogBody(body)       == SpeaksOf(body, "0.0.2")

BodyHolds(e) ==
  /\ e.kind = e.body.kind /\ e.version = e.body.version
  /\ \/ e.body.kind = "dsse" /\ verifyDSSETLogBody(e.body)
     \/ e.body.kind = "hashedrekord" /\ verifyHashedRekordTLogBody(e.body)
     \/ e.body.kind = "intoto" /\ verifyIntotoTLogBody(e.body)

Supported(e) ==
  /\ e.kind = e.body.kind /\ e.version = e.body.version
  /\ <<e.body.kind, e.body.version>> \in
       {<<"dsse", "0.0.1">>, <<"hashedrekord", "0.0.1">>, <<"intoto", "0.0.2">>}

(* A body that is no JSON is found first; one without what is read of an entry *)
(* of its kind and version, when it has been said to be one.               *)
BodyUnread(e) == Unread("body", e) \/ (Supported(e) /\ Unread("spec", e))

BodyError(e) ==
  CASE BodyUnread(e) -> "UNCODED"
    [] ~ BodyUnread(e) /\ ~ BodyHolds(e) -> "TLOG_BODY_ERROR"
    [] OTHER -> ""

\* The first entry with an error throws it.
BodiesError ==
  LET bad == {k \in DOMAIN entity.entries : BodyError(entity.entries[k]) # ""}
  IN  IF bad = {} THEN "" ELSE BodyError(entity.entries[First(bad)])

(* verifySubjectAlternativeName: the policy is a regular expression that is  *)
(* looked for anywhere in the name.  Of what it may contain, "." is any      *)
(* character and "+" repeats the one before it.                            *)
Matches(name, pattern) ==
  LET items == {k \in DOMAIN pattern : pattern[k] # "+"}
      Fits(x, k) == pattern[k] \in {".", name[x]}
      Repeats(k) == k < Len(pattern) /\ pattern[k + 1] = "+"
  IN  \E i \in DOMAIN name : \E j \in i .. Len(name) : \E f \in [i .. j -> items] :
        /\ \A x \in i .. j : Fits(x, f[x])
        /\ \A x \in i .. j - 1 : f[x] < f[x + 1] \/ (f[x] = f[x + 1] /\ Repeats(f[x]))
        /\ \A k \in items : \E x \in i .. j : f[x] = k

(* Only with ".", and "+" after a character, is a pattern followed into what  *)
(* it matches.  Any other may match or not, or be no regular expression at    *)
(* all, which is an error without a code.                                  *)
Metacharacters == {"\\", "^", "$", ".", "*", "+", "?", "(", ")", "[", "]", "{", "}", "|"}
Plain(name)    == \A k \in DOMAIN name : name[k] \in Metacharacters => name[k] = "."
Followed(pattern) ==
  \A k \in DOMAIN pattern :
    /\ pattern[k] \in Metacharacters => pattern[k] \in {".", "+"}
    /\ pattern[k] = "+" => k > 1 /\ pattern[k - 1] # "+"

NameErrors(name, pattern) ==
  CASE pattern = <<>> -> {""}
    [] pattern # <<>> /\ name = <<>> -> {"UNTRUSTED_SIGNER_ERROR"}
    [] pattern # <<>> /\ name # <<>> /\ Followed(pattern) ->
         {IF Matches(name, pattern) THEN "" ELSE "UNTRUSTED_SIGNER_ERROR"}
    [] OTHER -> {"", "UNTRUSTED_SIGNER_ERROR", "UNCODED"}

IssuerError ==
  IF options.issuer \in {<<>>, Identity.issuer} THEN "" ELSE "UNTRUSTED_SIGNER_ERROR"

\* The name is looked at before the issuer.
PolicyErrors ==
  {IF code = "" THEN IssuerError ELSE code : code \in NameErrors(Identity.san, options.san)}

-----------------------------------------------------------------------------
Init ==
  /\ stage = "timestamps"
  /\ \E c \in Calls :
       entity = c.entity /\ options = c.options /\ root = c.root
  /\ verified = <<>>
  /\ error = ""

Throw(code) == stage' = "rejected" /\ error' = code /\ UNCHANGED <<entity, root, options, verified>>

(* A check that comes to code: it throws, or the next check is due.        *)
Check(now, code, next) ==
  /\ stage = now
  /\ IF code # "" THEN Throw(code)
                  ELSE stage' = next /\ UNCHANGED <<entity, root, options, verified, error>>

VerifyTimestamp ==
  LET k == Len(verified) + 1
  IN  /\ stage = "timestamps" /\ k <= Timestamps
      /\ IF TimestampError(k) # "" THEN Throw(TimestampError(k))
         ELSE verified' = Append(verified, Timestamp(k)) /\ UNCHANGED <<stage, entity, root, options, error>>

Enough == Len(entity.entries) >= options.tlogThreshold /\ Len(entity.tsts) >= options.tsaThreshold

CountTimestamps ==
  /\ Len(verified) = Timestamps
  /\ Check("timestamps", IF Distinct(verified) /\ Enough THEN "" ELSE "TIMESTAMP_ERROR", "key")

VerifySigningKey == Check("key", KeyError, "tlogs")

\* Mutant: the bodies of the log entries are not looked at.
VerifyTLogsNot == Check("tlogs", "", "signature")
VerifyTLogs == Check("tlogs", BodiesError, "signature")

VerifySignature ==
  Check("signature", IF MadeBy(entity.sig, SignerKey, entity.artifact)
                     THEN "" ELSE "SIGNATURE_ERROR", "policy")

VerifyPolicy == \E code \in PolicyErrors : Check("policy", code, "accepted")

Next ==
  \/ VerifyTimestamp \/ CountTimestamps
  \/ VerifySigningKey \/ VerifyTLogs \/ VerifySignature \/ VerifyPolicy

Spec == Init /\ [][Next]_vars
-----------------------------------------------------------------------------
(* When the signature existed, as the evidence in the bundle has it.       *)
Moments == {e.time : e \in Range(entity.entries)} \cup {t.info.time : t \in Range(entity.tsts)}

TypeOK ==
  /\ stage \in {"timestamps", "key", "tlogs", "signature", "policy", "accepted", "rejected"}
  /\ verified \in Seq([type : {"transparency-log", "timestamp-authority"},
                       id : {e.log : e \in Range(entity.entries)} \cup {t.serial : t \in Range(entity.tsts)},
                       time : Moments])
  /\ error \in {"", "TLOG_INCLUSION_PROMISE_ERROR", "TLOG_INCLUSION_PROOF_ERROR",
                "TLOG_MISSING_INCLUSION_ERROR", "TIMESTAMP_ERROR", "CERTIFICATE_ERROR",
                "PUBLIC_KEY_ERROR", "TLOG_BODY_ERROR", "SIGNATURE_ERROR", "UNTRUSTED_SIGNER_ERROR",
                "UNCODED"}
  /\ error = "UNCODED" => \/ entity.unread # {} \/ ~ Followed(options.san)
                         \/ \E t \in Range(entity.tsts) : ~ t.token

(* A validity has its first and its last instant, if it has one.           *)
Within(thing, time) == thing.start <= time /\ (thing.end = Unset \/ time <= thing.end)

(* The certificates are all valid at the instants.                         *)
Alive(certs, times) == \A c \in certs : times \subseteq c.from .. c.until

(* A log trusted at the time of the entry has promised to include it, or     *)
(* has signed the root of a tree it is in.                                 *)
Promised(e) ==
  e.promise # None /\ \E l \in Range(root.tlogs) :
    /\ Within(l, e.time) /\ l.id = e.log
    /\ MadeBy(e.promise, l.key, [body |-> e.body, time |-> e.time, log |-> l.id])
Included(e) ==
  e.proof # None /\ e.proof.body = e.body /\ \E l \in Range(root.tlogs) :
    /\ Within(l, e.time)
    /\ [hint |-> l.id, sig |-> [by |-> l.key, over |-> e.proof.root]] \in e.proof.checkpoint.sigs
Logged(e) == Promised(e) \/ Included(e)

(* A trusted authority has stamped the signature with that time, with a      *)
(* certificate that was traced to its root.                                *)
Stamped(t) ==
  \E a \in Range(root.tsas) :
    LET leaf == Head(a.chain)
        others == Tail(a.chain)
    IN  /\ a.chain # <<>> /\ leaf.serial = t.serial /\ Within(a, t.info.time)
        /\ Alive(Range(a.chain), {t.info.time})
        /\ Certifications(leaf, others) # {}
        /\ t.info.imprint = entity.sig /\ MadeBy(t.sig, leaf.key, t.info)

(* The ways in which an authority vouches for the certificate at the moments. *)
Vouched(k, a) ==
  IF a.start <= k.cert.from /\ (a.end = Unset \/ k.cert.until <= a.end)
  THEN {p \in Certifications(k.cert, a.chain) : Alive(p \cup {k.cert}, Moments)}
  ELSE {}

(* The key the entity names could be used to sign at all the moments.      *)
KeyOf(k) ==
  IF k.case = "public-key"
  THEN {root.keys[h].key : h \in {h \in DOMAIN root.keys \cap {k.hint} :
                                   \A m \in Moments : Within(root.keys[h], m)}}
  ELSE {k.cert.key : a \in {a \in Range(root.cas) : Vouched(k, a) # {}}}

(* What is accepted was signed by the key it names, which could sign at any  *)
(* moment the evidence speaks of; and all the evidence is by services        *)
(* trusted at that moment and about this signature.  The steps check the     *)
(* evidence, its moments and what it is about separately (verifier.ts:50-61). *)
AcceptedIsWitnessed ==
  stage = "accepted" =>
    /\ \E key \in KeyOf(entity.key) : MadeBy(entity.sig, key, entity.artifact)
    /\ \A e \in Range(entity.entries) : Logged(e) /\ e.body.sigs = <<entity.sig>>
    /\ \A t \in Range(entity.tsts) : Stamped(t)

(* A key that is accepted for a certificate is certified by a trusted          *)
(* authority at every moment of the evidence, along a path that RFC 5280      *)
(* allows, and that by its issuer is on the record of the logs named in it.  *)
(* The search for the path looks at names, key identifiers and signatures,    *)
(* and only then at what the certificates may be used for (certificate.ts).  *)
AcceptedIsCertified ==
  stage = "accepted" /\ entity.key.case = "certificate" =>
    \E a \in Range(root.cas) : \E p \in Vouched(entity.key, a) :
      \A s \in Range(entity.key.scts) :
        \E l \in Range(root.ctlogs), i \in p :
          /\ l.id = s.log /\ Within(l, s.time) /\ i.key = entity.key.cert.by
          /\ MadeBy(s.sig, l.key, [preCert |-> [cert |-> entity.key.cert, issuer |-> i.key],
                                 time |-> s.time])

(* As many pieces of evidence as the thresholds ask for are different ones:  *)
(* what is there twice is not counted twice, nor one kind for the other        *)
(* (verifier.ts:66-106, 125-138).  Two entries of one log at two times are   *)
(* two: that the logs are different is ThresholdIsOfLogs.                  *)
ThresholdsAreMet ==
  stage = "accepted" =>
    /\ Cardinality({<<e.log, e.time>> : e \in Range(entity.entries)}) >= options.tlogThreshold
    /\ Cardinality({<<t.serial, t.info.time>> : t \in Range(entity.tsts)}) >= options.tsaThreshold
    /\ entity.key.case = "certificate" =>
         Cardinality({s.log : s \in Range(entity.key.scts)}) >= options.ctlogThreshold

(* "tlogThreshold: The number of transparency logs on which the signature must *)
(* appear" (packages/client/README.md:191).                                *)
ThresholdIsOfLogs ==
  stage = "accepted" => Cardinality({e.log : e \in Range(entity.entries)}) >= options.tlogThreshold

(* A response with a token in which every part is about the others, naming     *)
(* a certificate whose path is unmistakable.                               *)
InForm(t) ==
  /\ t.token /\ t.typed /\ t.digest = t.info
  /\ \A a \in Range(root.tsas) : a.chain # <<>> /\ Head(a.chain).serial = t.serial =>
       /\ Head(a.chain).issuer = t.issuer
       /\ \A p \in Certifications(Head(a.chain), Tail(a.chain)) :
            Straight(p, Head(a.chain), Tail(a.chain))

(* The certificate can be traced by one authority only, and along one path:  *)
(* the code tries no other when the first it finds does not hold.          *)
Unmistakable(k) ==
  \E i \in DOMAIN root.cas :
    /\ \E p \in Vouched(k, root.cas[i]) : Straight(p, k.cert, root.cas[i].chain)
    /\ \A j \in DOMAIN root.cas : Certifications(k.cert, root.cas[j].chain) # {} => j = i

(* Every time there is one that the code can tell from "no beginning" and     *)
(* "no end", and logs with one identifier have one key.                    *)
Instants   == BEGINNING_OF_TIME .. END_OF_TIME
Timely(k)  == Moments \subseteq Instants /\ (k.case = "certificate" =>
                {k.cert.from, k.cert.until} \cup {s.time : s \in Range(k.scts)} \subseteq Instants)
NamedApart == \A l, m \in Range(root.tlogs) : l.id = m.id => l.key = m.key

(* A bundle is in order that is signed, logged, stamped and certified as above, *)
(* with nothing in it that cannot be read, no two pieces of evidence alike     *)
(* and none that does not hold, by an identity as asked for.                 *)
InOrder ==
  /\ entity.unread = {}
  /\ Timely(entity.key) /\ NamedApart
  /\ \E key \in KeyOf(entity.key) : MadeBy(entity.sig, key, entity.artifact)
  /\ \A e \in Range(entity.entries) :
       /\ Logged(e) /\ (e.promise # None => Promised(e)) /\ (e.proof # None => Included(e))
       /\ e.proof # None => /\ Cardinality(e.proof.checkpoint.sigs) = 1
                            /\ e.proof.checkpoint.root = e.proof.root
       /\ [kind |-> e.kind, version |-> e.version] \in
            {[kind |-> "dsse", version |-> "0.0.1"], [kind |-> "intoto", version |-> "0.0.2"],
             [kind |-> "hashedrekord", version |-> "0.0.1"]}
       /\ e.body = [kind |-> e.kind, version |-> e.version,
                    sigs |-> <<entity.sig>>, digest |-> entity.digest]
  /\ \A t \in Range(entity.tsts) : Stamped(t) /\ InForm(t)
  /\ Cardinality({<<e.log, e.time>> : e \in Range(entity.entries)}) = Len(entity.entries)
  /\ Cardinality({<<t.serial, t.info.time>> : t \in Range(entity.tsts)}) = Len(entity.tsts)
  /\ Len(entity.entries) >= options.tlogThreshold /\ Len(entity.tsts) >= options.tsaThreshold
  /\ entity.key.case = "certificate" =>
       /\ Unmistakable(entity.key)
       /\ \A s \in Range(entity.key.scts) : \E l \in Range(root.ctlogs) :
            /\ l.id = s.log /\ Within(l, s.time)
            /\ MadeBy(s.sig, l.key,
                      [preCert |-> [cert |-> entity.key.cert, issuer |-> entity.key.cert.by],
                       time |-> s.time])
       /\ Cardinality({s.log : s \in Range(entity.key.scts)}) = Len(entity.key.scts)
       /\ Len(entity.key.scts) >= options.ctlogThreshold
  /\ options.issuer \in {<<>>, Identity.issuer}

(* No bundle in order by someone whose name is the one asked for is rejected, *)
(* by any of the checks (verifier.ts:50-61).  A name with a character that     *)
(* means something else in a regular expression need not match itself.     *)
RejectedForCause ==
  stage = "rejected" =>
    ~ (InOrder /\ options.san \in {<<>>, Identity.san} /\ Plain(options.san))
=============================================================================
