------------------------------ MODULE RFC3161 ------------------------------
(***************************************************************************)
(* What the response of a timestamp authority says                         *)
(* (packages/core/src/rfc3161): operators on the object that was read, and    *)
(* the bytes that are put together again of it to verify the signature.  The  *)
(* hashes and signatures themselves are compared in VerifyBundle.            *)
(***************************************************************************)
EXTENDS X509

OID_PKCS9_CONTENT_TYPE_SIGNED_DATA == <<1, 2, 840, 113549, 1, 7, 2>>
OID_PKCS9_CONTENT_TYPE_TSTINFO     == <<1, 2, 840, 113549, 1, 9, 16, 1, 4>>
OID_PKCS9_MESSAGE_DIGEST_KEY       == <<1, 2, 840, 113549, 1, 9, 4>>

SET == 49      \* the tag of a set

-----------------------------------------------------------------------------
(* Where things are: what is optional comes before them in the signed data,   *)
(* after them in the signer's.                                             *)
status(t)         == toInteger(t.subs[1].subs[1]).value
timeStampToken(t) == IF Len(t.subs) > 1 THEN <<t.subs[2]>> ELSE None

contentType(t) == toOID(timeStampToken(t)[1].subs[1]).value
signedData(t)  == Find(timeStampToken(t)[1].subs, LAMBDA sub : isContextSpecific(sub, 0))[1].subs[1]

encapContentInfo(t) == signedData(t).subs[3]
eContentType(t)     == toOID(encapContentInfo(t).subs[1]).value
eContent(t)         == encapContentInfo(t).subs[2]

signerInfos(t) == Last(signedData(t).subs)
signerInfo(t)  == signerInfos(t).subs[1]

signerIssuer(t)          == signerInfo(t).subs[2].subs[1].value
signerSerialNumber(t)    == signerInfo(t).subs[2].subs[2].value
signerDigestAlgorithm(t) == toOID(signerInfo(t).subs[3].subs[1]).value
signatureAlgorithm(t)    == toOID(signerInfo(t).subs[5].subs[1]).value
signature(t)             == signerInfo(t).subs[6].value

signedAttrs(t) == Find(signerInfo(t).subs, LAMBDA sub : isContextSpecific(sub, 0))[1]
messageDigest(t) ==
  LET IsDigest(sub) == /\ isUniversal(sub.subs[1], OBJECT_IDENTIFIER)
                       /\ toOID(sub.subs[1]).value = OID_PKCS9_MESSAGE_DIGEST_KEY
  IN  Find(signedAttrs(t).subs, IsDigest)[1].subs[2].subs[1].value

(* TSTInfo, out of its octet string.                                       *)
tstInfo(t)    == eContent(t).subs[1].subs[1]
genTime(t)    == toDate(tstInfo(t).subs[5])
messageImprintHashAlgorithm(t) == toOID(tstInfo(t).subs[3].subs[1].subs[1]).value
messageImprintHashedMessage(t) == tstInfo(t).subs[3].subs[2].value

-----------------------------------------------------------------------------
(* verify: whether there is what it takes, and what is hashed and verified.  *)
IsTimestamp(t) ==
  /\ timeStampToken(t) # None
  /\ contentType(t) = OID_PKCS9_CONTENT_TYPE_SIGNED_DATA
  /\ eContentType(t) = OID_PKCS9_CONTENT_TYPE_TSTINFO

raw(t) == toDER(tstInfo(t))
VerifiedAttrs(t) == [toDER(signedAttrs(t)) EXCEPT ![1] = SET]
=============================================================================
