-------------------------------- MODULE X509 --------------------------------
(***************************************************************************)
(* What a certificate says (packages/core/src/x509: cert.ts, ext.ts, sct.ts), *)
(* and the precertificate that is made of it to verify the SCTs in it         *)
(* (verifySCTs, packages/verify/src/key/sct.ts).                           *)
(*                                                                         *)
(* A certificate is the object that was read; a getter of the code is an      *)
(* operator on it.                                                         *)
(***************************************************************************)
EXTENDS ASN1, FiniteSets

CONSTANTS
  LogIDSize, TimestampSize   \* the lengths of an SCT's fields: 32 and 8

ASSUME SizesAssumption == {LogIDSize, TimestampSize} \subseteq Nat

EXTENSION_OID_SUBJECT_KEY_ID    == <<2, 5, 29, 14>>
EXTENSION_OID_KEY_USAGE         == <<2, 5, 29, 15>>
EXTENSION_OID_SUBJECT_ALT_NAME  == <<2, 5, 29, 17>>
EXTENSION_OID_BASIC_CONSTRAINTS == <<2, 5, 29, 19>>
EXTENSION_OID_AUTHORITY_KEY_ID  == <<2, 5, 29, 35>>
EXTENSION_OID_SCT               == <<1, 3, 6, 1, 4, 1, 11129, 2, 4, 2>>

None == <<>>     \* undefined, and otherwise a sequence of one value
Found(S) == IF S = None THEN None ELSE <<S[1]>>
Find(objs, Test(_)) == Found(SelectSeq(objs, Test))

-----------------------------------------------------------------------------
(* Extensions (ext.ts).                                                    *)
oid(ext)      == toOID(ext.subs[1]).value
critical(ext) == Len(ext.subs) = 3 /\ toBoolean(ext.subs[2]).value

extnValueObj(ext) == ext.subs[Len(ext.subs)]

(* BasicConstraints: both fields are optional.                              *)
BasicIsCA(ext) ==
  LET s == extnValueObj(ext).subs[1].subs
  IN  IF s = <<>> THEN [ok |-> TRUE, value |-> FALSE] ELSE toBoolean(s[1])
pathLenConstraint(ext) ==
  LET s == extnValueObj(ext).subs[1].subs
  IN  IF Len(s) > 1 THEN <<toInteger(s[2]).value>> ELSE None

(* KeyUsage: a bit that is not there is not set.                            *)
Usage(ext, bit) ==
  LET bits == toBitString(extnValueObj(ext).subs[1]).value
  IN  bit + 1 \in DOMAIN bits /\ bits[bit + 1] = 1
keyCertSign(ext) == Usage(ext, 5)

generalName(ext, n) ==
  LET names == Find(extnValueObj(ext).subs[1].subs, LAMBDA gn : isContextSpecific(gn, n))
  IN  IF names = None THEN None ELSE <<names[1].value>>
rfc822Name(ext) == generalName(ext, 1)
uri(ext)        == generalName(ext, 6)

AuthorityKeyIdentifier(ext) ==
  LET ids == Find(extnValueObj(ext).subs[1].subs, LAMBDA el : isContextSpecific(el, 0))
  IN  IF ids = None THEN None ELSE <<ids[1].value>>
SubjectKeyIdentifier(ext) == <<extnValueObj(ext).subs[1].value>>

-----------------------------------------------------------------------------
(* SCTs (sct.ts and X509SCTExtension): lengths of two bytes each.           *)
\* Mutant: bytes after the signature do not matter.
SCTEndsWithin(b, end) == Len(b) >= end
SCTEnds(b, end) == Len(b) = end

SCTParse(b) ==
  LET extAt == 1 + LogIDSize + TimestampSize
      algAt == extAt + 2 + getUint16(b, extAt)
      end   == algAt + 4 + getUint16(b, algAt + 2)
  IN  IF Len(b) < extAt + 2 THEN Thrown
      ELSE IF Len(b) < algAt + 4 THEN Thrown
      ELSE IF ~ SCTEnds(b, end) THEN Thrown
      ELSE [ok |-> TRUE, sct |->
             [version    |-> getUint8(b, 0),
              logID      |-> SubSeq(b, 2, 1 + LogIDSize),
              timestamp  |-> SubSeq(b, 2 + LogIDSize, extAt),
              extensions |-> SubSeq(b, extAt + 3, algAt),
              hash       |-> getUint8(b, algAt),
              algorithm  |-> getUint8(b, algAt + 1),
              signature  |-> SubSeq(b, algAt + 5, end)]]

SCTsFrom(b, end) ==
  LET from[p \in 0 .. Len(b)] ==
        LET next  == p + 2 + getUint16(b, p)
            first == SCTParse(SubSeq(b, p + 3, next))
        IN  IF p >= end THEN [ok |-> p = end, scts |-> <<>>]
            ELSE IF Len(b) < p + 2 THEN Thrown
            ELSE IF Len(b) < next THEN Thrown
            ELSE IF ~ first.ok \/ ~ from[next].ok THEN Thrown
            ELSE [ok |-> TRUE, scts |-> <<first.sct>> \o from[next].scts]
  IN  from

SCTList(b) == IF Len(b) < 2 THEN Thrown ELSE SCTsFrom(b, getUint16(b, 0) + 2)[2]

signedCertificateTimestamps(ext) == SCTList(extnValueObj(ext).subs[1].value)

-----------------------------------------------------------------------------
(* Certificates (cert.ts).                                                 *)
tbsCertificate(c) == c.subs[1]
serialNumber(c)   == tbsCertificate(c).subs[2].value
issuer(c)         == tbsCertificate(c).subs[4].value
notBefore(c)      == toDate(tbsCertificate(c).subs[5].subs[1])
notAfter(c)       == toDate(tbsCertificate(c).subs[5].subs[2])
subject(c)        == tbsCertificate(c).subs[6].value
publicKey(c)      == toDER(tbsCertificate(c).subs[7])
signatureValue(c) == Tail(c.subs[3].value)

validForDate(c, date) == notBefore(c) <= date /\ date <= notAfter(c)

IsExtensions(o) == isContextSpecific(o, 3)

extensions(c) ==
  LET tagged == Find(tbsCertificate(c).subs, IsExtensions)
  IN  IF tagged = None THEN <<>> ELSE tagged[1].subs[1].subs

findExtension(c, id) == Find(extensions(c), LAMBDA ext : oid(ext) = id)

subjectAltName(c) ==
  LET ext == findExtension(c, EXTENSION_OID_SUBJECT_ALT_NAME)
  IN  IF ext = None THEN None
      ELSE IF uri(ext[1]) \notin {None, << <<>> >>} THEN uri(ext[1]) ELSE rfc822Name(ext[1])

isCA(c) ==
  LET basic == findExtension(c, EXTENSION_OID_BASIC_CONSTRAINTS)
      usage == findExtension(c, EXTENSION_OID_KEY_USAGE)
      ca    == IF basic = None THEN FALSE ELSE BasicIsCA(basic[1]).value
  IN  IF usage = None THEN ca ELSE ca /\ keyCertSign(usage[1])

clone(c) == parseBuffer(toDER(c))

(* verifySCTs: the first extension with the SCTs is spliced out of the copy,   *)
(* which has its extensions in the first member that is tagged so.           *)
SpliceSCT(o) ==
  LET At == SelectInSeq(o.subs[1].subs, LAMBDA ext : oid(ext) = EXTENSION_OID_SCT)
  IN  [o EXCEPT !.subs[1].subs = RemoveAt(@, At)]

WithoutSCT(tbs) ==
  LET At == SelectInSeq(tbs.subs, IsExtensions)
  IN  [tbs EXCEPT !.subs[At] = SpliceSCT(@)]

HasSCTs(c) ==
  LET ext == findExtension(c, EXTENSION_OID_SCT)
  IN  ext # None /\ signedCertificateTimestamps(ext[1]).ok
                 /\ signedCertificateTimestamps(ext[1]).scts # <<>>

preCert(c) ==
  LET tbs == toDER(WithoutSCT(tbsCertificate(c))) IN Written(<<Uint24(Len(tbs)), tbs>>)
=============================================================================
