------------------------------ MODULE Documents ------------------------------
(***************************************************************************)
(* Documents that somebody else wrote, read by the code: any few bytes,       *)
(* values of every type, lists of SCTs, whole or damaged, certificates, and    *)
(* responses of timestamp authorities.  A certificate is read                *)
(* (X509Certificate.parse), copied (clone), and a precertificate is made of   *)
(* the copy (verifySCTs, packages/verify/src/key/sct.ts).                   *)
(*                                                                         *)
(* What is written follows X.690, RFC 5280, RFC 5652 and RFC 3161, not the    *)
(* code.                                                                   *)
(***************************************************************************)
EXTENDS RFC3161

CONSTANTS
  Bytes, MaxBytes,   \* bound: a document of any bytes has these, and so many
  MaxExtensions,     \* bound: the extensions of a certificate
  Lists              \* the lists of SCTs

\* A gigabyte has lengths of five bytes, which the code reads.
ASSUME BytesAssumption ==
  /\ Bytes \subseteq Byte
  /\ MaxBytes \in Nat /\ MaxBytes <= MaxDepth /\ MaxBytes <= 64 * 256 * 256 * 256
ASSUME ExtensionsAssumption == MaxExtensions \in Nat

-----------------------------------------------------------------------------
(* What the standards make of it.                                          *)
Length(n) ==
  IF n < 128 THEN <<n>> ELSE IF n < 256 THEN <<129, n>> ELSE <<130, n \div 256, n % 256>>
TLV(tag, content) == <<tag>> \o Length(Len(content)) \o content
SEQ(parts) == TLV(48, FlattenSeq(parts))

\* Seven bits to a byte, up to three bytes.
ArcBytes(n) ==
  IF n < 128 THEN <<n>>
  ELSE IF n < 16384 THEN <<128 + (n \div 128), n % 128>>
  ELSE <<128 + (n \div 16384), 128 + ((n \div 128) % 128), n % 128>>
OIDBytes(id) == <<40 * id[1] + id[2]>> \o FlattenSeq([k \in 1 .. Len(id) - 2 |-> ArcBytes(id[k + 2])])

SCT ==
  [version : Byte, logID : [1 .. LogIDSize -> Byte], timestamp : [1 .. TimestampSize -> Byte],
   extensions : Seq(Byte), hash : Byte, algorithm : Byte, signature : Seq(Byte)]

Stated(n) == <<n \div 256, n % 256>>
Prefixed(content) == Stated(Len(content)) \o content

SCTBytes(s) ==
  <<s.version>> \o s.logID \o s.timestamp \o Prefixed(s.extensions)
    \o <<s.hash, s.algorithm>> \o Prefixed(s.signature)
Pieces(scts) == [k \in DOMAIN scts |-> SCTBytes(scts[k])]
Together(pieces) == FlattenSeq([k \in DOMAIN pieces |-> Prefixed(pieces[k])])
SCTListBytes(scts) == Prefixed(Together(Pieces(scts)))

\* Lists are of a length that can be stated, also if it is one more.
ASSUME ListsAssumption ==
  \A scts \in Lists : scts \in Seq(SCT) /\ Len(Together(Pieces(scts))) + 1 < 256 * 256

\* A list that is damaged: a byte is lost, the length stated is one less, the last
\* SCT is followed by a byte that its own length does not count, or the list by
\* another one that its length does not count.
Damaged(scts, damage) ==
  LET whole  == SCTListBytes(scts)
      pieces == Pieces(scts)
  IN  CASE damage = "none"   -> whole
        [] damage = "cut"    -> SubSeq(whole, 1, Len(whole) - 1)
        [] damage = "short"  -> Stated(Len(Together(pieces)) - 1) \o Together(pieces)
        [] damage = "behind" -> whole \o whole
        [] damage = "longer" -> Prefixed(Together([pieces EXCEPT ![Len(pieces)] = Append(@, 0)]))

\* The bits of a key usage, without the zeros at the end.
BitString(bits) ==
  LET last == CHOOSE i \in bits : \A j \in bits : j <= i
      Weight(i) == IF i \in bits THEN 2 ^ (7 - i) ELSE 0
  IN  IF bits = {} THEN <<0>>
      ELSE <<7 - last, FoldLeft(+, 0, [i \in 1 .. 8 |-> Weight(i - 1)])>>

Boolean(b) == TLV(1, <<IF b THEN 255 ELSE 0>>)

Value(e) ==
  CASE e.id = EXTENSION_OID_BASIC_CONSTRAINTS ->
         SEQ((IF e.ca THEN <<Boolean(TRUE)>> ELSE <<>>) \o [k \in DOMAIN e.limit |-> TLV(2, e.limit)])
    [] e.id = EXTENSION_OID_KEY_USAGE -> TLV(3, BitString(e.bits))
    [] e.id = EXTENSION_OID_SUBJECT_KEY_ID -> TLV(4, e.key)
    [] e.id = EXTENSION_OID_AUTHORITY_KEY_ID -> SEQ(<<TLV(128, e.key)>>)
    [] e.id = EXTENSION_OID_SUBJECT_ALT_NAME -> SEQ(<<TLV(128 + e.kind, e.name)>>)
    [] e.id = EXTENSION_OID_SCT -> TLV(4, SCTListBytes(e.scts))

Extension(e) ==
  SEQ(<<TLV(6, OIDBytes(e.id))>> \o (IF e.critical THEN <<Boolean(TRUE)>> ELSE <<>>)
        \o <<TLV(4, Value(e))>>)

Time(year) ==
  IF year \in 1950 .. 2049 THEN TLV(23, <<year % 100>>) ELSE TLV(24, <<year \div 100, year % 100>>)

TBS(c, exts) ==
  SEQ(<<TLV(160, TLV(2, <<2>>)), TLV(2, c.serial), SEQ(<<TLV(6, <<42, 3>>)>>), SEQ(<<TLV(19, c.issuer)>>),
        SEQ(<<Time(c.from), Time(c.until)>>), SEQ(<<TLV(19, c.subject)>>), SEQ(<<TLV(3, <<0>> \o c.key)>>)>>
      \o (IF exts = <<>> THEN <<>>
          ELSE <<TLV(163, SEQ([k \in DOMAIN exts |-> Extension(exts[k])]))>>))

Certificate(c) ==
  SEQ(<<TBS(c, c.exts), SEQ(<<TLV(6, <<42, 3>>)>>), TLV(3, <<0>> \o c.signature)>>)

\* The response of a timestamp authority (RFC 3161, and RFC 5652 for what is signed).
TSTInfoBytes(t) ==
  SEQ(<<TLV(2, <<1>>), TLV(6, <<42, 3>>), SEQ(<<SEQ(<<TLV(6, OIDBytes(t.hashedWith))>>), TLV(4, t.hash)>>),
        TLV(2, <<9>>), TLV(24, <<t.year \div 100, t.year % 100>>)>>
      \o (IF t.accuracy THEN <<SEQ(<<TLV(2, <<1>>)>>), TLV(2, <<4>>)>> ELSE <<>>))

Attributes(t) ==
  LET Attribute(id, value) == SEQ(<<TLV(6, OIDBytes(id)), TLV(SET, value)>>)
      ofType   == Attribute(<<1, 2, 840, 113549, 1, 9, 3>>, TLV(6, OIDBytes(t.inner)))
      ofDigest == Attribute(OID_PKCS9_MESSAGE_DIGEST_KEY, TLV(4, t.digest))
  IN  IF t.digestFirst THEN ofDigest \o ofType ELSE ofType \o ofDigest

SignerInfo(t) ==
  SEQ(<<TLV(2, <<1>>), SEQ(<<SEQ(<<TLV(19, t.issuer)>>), TLV(2, t.serial)>>), SEQ(<<TLV(6, OIDBytes(t.digestedWith))>>),
        TLV(160, Attributes(t)), SEQ(<<TLV(6, OIDBytes(t.signedWith))>>), TLV(4, t.signature)>>)

SignedData(t) ==
  SEQ(<<TLV(2, <<3>>), TLV(SET, <<>>), SEQ(<<TLV(6, OIDBytes(t.inner)), TLV(160, TLV(4, TSTInfoBytes(t)))>>)>>
      \o (IF t.certificates THEN <<TLV(160, SEQ(<<TLV(2, <<2>>)>>))>> ELSE <<>>)
      \o <<TLV(SET, SignerInfo(t))>>)

Response(t) ==
  SEQ(<<SEQ(<<TLV(2, <<IF t.granted THEN 0 ELSE 2>>)>>)>>
      \o (IF t.granted THEN <<SEQ(<<TLV(6, OIDBytes(t.type)), TLV(160, SignedData(t))>>)>> ELSE <<>>))

-----------------------------------------------------------------------------
(* The documents.                                                          *)
Edges == {0, 1, 5, 39, 40, 127, 128, 129, 255}

Extensions ==
  [id : {EXTENSION_OID_BASIC_CONSTRAINTS}, critical : {TRUE}, ca : BOOLEAN, limit : {<<>>, <<0>>, <<1>>}]
  \cup [id : {EXTENSION_OID_KEY_USAGE}, critical : BOOLEAN, bits : {{0}, {5, 6}, {6}}]
  \cup [id : {EXTENSION_OID_SUBJECT_KEY_ID}, critical : {FALSE}, key : {<<77>>, <<2, 1, 5>>, <<4, 129, 1, 9>>}]
  \cup [id : {EXTENSION_OID_AUTHORITY_KEY_ID}, critical : {FALSE}, key : {<<78>>}]
  \cup [id : {EXTENSION_OID_SUBJECT_ALT_NAME}, critical : {TRUE}, kind : {1, 6}, name : {<<97>>}]
  \cup [id : {EXTENSION_OID_SCT}, critical : {FALSE}, scts : {l \in Lists : \A i, j \in DOMAIN l : l[i] = l[j]}]

\* A limit is given of a CA only.
Lawful(e) == e.id = EXTENSION_OID_BASIC_CONSTRAINTS /\ ~ e.ca => e.limit = <<>>

ExtensionLists ==
  UNION {{exts \in [1 .. n -> {e \in Extensions : Lawful(e)}] :
            \A i, j \in 1 .. n : exts[i].id = exts[j].id => i = j} : n \in 0 .. MaxExtensions}

\* Hashes that look like no object, like an object in DER, and like one that is not.
Hashes    == {<<77, 1>>, <<4, 1, 9>>, <<4, 129, 1, 9>>}
Responses ==
  [granted : BOOLEAN, type : {OID_PKCS9_CONTENT_TYPE_SIGNED_DATA, OID_PKCS9_CONTENT_TYPE_TSTINFO},
   inner : {OID_PKCS9_CONTENT_TYPE_TSTINFO, OID_PKCS9_CONTENT_TYPE_SIGNED_DATA},
   certificates : BOOLEAN, digestFirst : BOOLEAN, accuracy : BOOLEAN, year : {2049, 2050},
   hashedWith : {<<2, 16, 840, 1, 101, 3, 4, 2, 1>>}, hash : Hashes,
   digestedWith : {<<2, 16, 840, 1, 101, 3, 4, 2, 2>>}, digest : Hashes,
   signedWith : {<<1, 2, 840, 10045, 4, 3, 2>>}, signature : {<<48, 0>>}, issuer : {<<105>>}, serial : {<<0, 200>>}]

Validities == {<<1950, 1999>>, <<2000, 2049>>, <<2049, 2050>>}

VARIABLES
  doc,      \* the document: what it was made as, its bytes and what it says
  stage,    \* what has been done with it; none, if there is no document
  object,   \* the result of reading it
  made      \* the precertificate

documentVars == <<doc, stage, object, made>>

DocumentInit ==
  /\ \/ \E n \in 0 .. MaxBytes : \E b \in [1 .. n -> Bytes] :
          doc = [as |-> "bytes", bytes |-> b]
     \/ \E tag \in {1, 2, 3, 4, 6}, n \in 1 .. 3 : \E v \in [1 .. n -> Edges] :
          doc = [as |-> "value", bytes |-> SEQ(<<TLV(tag, v)>>), tag |-> tag, value |-> v]
     \/ \E scts \in Lists, damage \in {"none", "behind", "cut", "short", "longer"} :
          /\ scts = <<>> => damage \in {"none", "behind"}
          /\ doc = [as |-> "scts", scts |-> scts, damage |-> damage, bytes |-> Damaged(scts, damage)]
     \/ \E exts \in ExtensionLists, validity \in Validities :
          LET c == [serial |-> <<0, 200>>, issuer |-> <<105>>, subject |-> <<115>>, key |-> <<107>>,
                    from |-> validity[1], until |-> validity[2], exts |-> exts, signature |-> <<103>>]
          IN  doc = [as |-> "certificate", says |-> c, bytes |-> Certificate(c)]
     \/ \E t \in Responses : doc = [as |-> "response", says |-> t, bytes |-> Response(t)]
  /\ stage = "bytes"
  /\ object = Thrown
  /\ made = <<>>

Parse ==
  /\ stage = "bytes" /\ doc.as # "scts"
  /\ stage' = "read"
  /\ object' = parseBuffer(doc.bytes)
  /\ UNCHANGED <<doc, made>>

ReadSCTs ==
  /\ stage = "bytes" /\ doc.as = "scts"
  /\ stage' = "read"
  /\ object' = SCTList(doc.bytes)
  /\ UNCHANGED <<doc, made>>

Clone ==
  /\ stage = "read" /\ object.ok /\ doc.as \notin {"response", "scts"}
  /\ stage' = "cloned"
  /\ object' = clone(object.obj)
  /\ UNCHANGED <<doc, made>>

PreCert ==
  /\ stage = "cloned" /\ object.ok
  /\ doc.as = "certificate" /\ HasSCTs(object.obj)
  /\ stage' = "precert"
  /\ made' = preCert(object.obj)
  /\ UNCHANGED <<doc, object>>

DocumentNext == Parse \/ ReadSCTs \/ Clone \/ PreCert

-----------------------------------------------------------------------------
(* Whether bytes state a number; in DER, with no byte more than needed.     *)
States(c, n, der) ==
  \/ n < 128 /\ c = <<n>>
  \/ /\ Len(c) \in 2 .. 127 /\ c[1] = 127 + Len(c) /\ BigEndian(Tail(c)) = n
     /\ der => n > 127 /\ c[2] # 0

\* The objects side by side, each with its bytes.
Tile(objs, b, pairs) ==
  \E cut \in [0 .. Len(objs) -> 0 .. Len(b)] :
    /\ cut[0] = 0 /\ cut[Len(objs)] = Len(b)
    /\ \A k \in 1 .. Len(objs) : <<objs[k], SubSeq(b, cut[k - 1] + 1, cut[k])>> \in pairs

Encode(o, b, pairs, der) ==
  /\ b # <<>> /\ b[1] = o.tag.number + 64 * o.tag.class + (IF o.tag.constructed THEN 32 ELSE 0)
  /\ \E k \in 2 .. Len(b) :
       States(SubSeq(b, 2, k), Len(o.value), der) /\ SubSeq(b, k + 1, Len(b)) = o.value
  /\ o.subs = <<>> /\ o.tag.constructed => o.value = <<>>
  /\ o.subs # <<>> => MayHold(o) /\ Tile(o.subs, o.value, pairs)

(* Objects of so many levels with their bytes: those of an octet string with   *)
(* objects in it are also those of the objects.                            *)
Encodings(der) ==
  LET pairs[n \in Nat] ==
        IF n = 0 THEN {}
        ELSE {e \in Objects[n] \X Seq(Byte) : Encode(e[1], e[2], pairs[n - 1], der)}
  IN  pairs

Encodes(o, b, der) == <<o, b>> \in Encodings(der)[MaxDepth]

(* What is read of any bytes is what some of them, from the first on, stand    *)
(* for: no length is misread, and nothing in an object reaches beyond it      *)
(* (parseStream and collectSubs, obj.ts:132-183, decodeLength,              *)
(* length.ts:22-51).                                                       *)
ReadIsWhatIsThere ==
  doc.as = "bytes" /\ stage = "read" /\ object.ok =>
    \E n \in 1 .. Len(doc.bytes) : Encodes(object.obj, SubSeq(doc.bytes, 1, n), FALSE)

(* A copy of whatever could be read can be read, too, and is equal to it; and  *)
(* it has the bytes of what was copied, if those are DER throughout (clone    *)
(* and equals, cert.ts:177-186; toDER, obj.ts:44-64).                       *)
CloneIsEqual ==
  doc.as = "bytes" /\ stage = "cloned" =>
    LET original == parseBuffer(doc.bytes).obj
    IN  /\ object.ok /\ toDER(object.obj) = toDER(original)
        /\ \A n \in 1 .. Len(doc.bytes) :
             Encodes(original, SubSeq(doc.bytes, 1, n), TRUE) =>
               toDER(object.obj) = SubSeq(doc.bytes, 1, n)

(* A list of SCTs is read as it was written, up to the end it states, and       *)
(* what is behind that, be it another list, is not looked at.  A list that     *)
(* lost a byte, or in which an SCT does not end where it should (the list ends *)
(* within the last one, or this has a byte more than its fields), is not read  *)
(* at all (X509SCTExtension, ext.ts:161-184, and sct.ts:107-147).           *)
SCTsAreExact ==
  doc.as = "scts" /\ stage = "read" =>
    IF doc.damage \in {"none", "behind"} THEN object = [ok |-> TRUE, scts |-> doc.scts]
    ELSE ~ object.ok

(* What the standards make of the bytes of a value.                          *)
TwosComplement(v) == BigEndian(v) - (IF v[1] > 127 THEN 2 ^ (8 * Len(v)) ELSE 0)

Arcs(v) ==
  LET Start(i) == i = 2 \/ v[i - 1] < 128
      Group(i) == CHOOSE j \in i .. Len(v) : v[j] < 128 /\ \A k \in i .. j - 1 : v[k] > 127
      Arc(i)   == LET j == Group(i)
                  IN  FoldLeft(+, 0, [k \in 1 .. j - i + 1 |-> (v[i + k - 1] % 128) * 128 ^ (j - i + 1 - k)])
      Starts   == SelectSeq([i \in 1 .. Len(v) |-> i], LAMBDA i : i > 1 /\ Start(i))
  IN  [k \in DOMAIN Starts |-> Arc(Starts[k])]

Bits(v) ==
  [i \in 1 .. 8 * (Len(v) - 1) - v[1] |-> (v[2 + (i - 1) \div 8] \div 2 ^ (7 - ((i - 1) % 8))) % 2]

\* Of object identifiers those whose first two arcs the code divides like the
\* standard: not those of joint-iso-itu-t (2) with a second arc of 40 or more.
ValueIsExact(o) ==
  /\ o.value = doc.value
  /\ CASE doc.tag = 1 -> Len(doc.value) = 1 => toBoolean(o).value = (doc.value # <<0>>)
       [] doc.tag = 2 -> toInteger(o).value = TwosComplement(doc.value)
       [] doc.tag = 3 -> doc.value[1] <= 7 /\ Len(doc.value) > 1 => toBitString(o).value = Bits(doc.value)
       [] doc.tag = 4 -> TRUE
       [] doc.tag = 6 -> doc.value[1] < 120 /\ doc.value[Len(doc.value)] < 128 =>
                           toOID(o).value = <<doc.value[1] \div 40, doc.value[1] % 40>> \o Arcs(doc.value)

(* A certificate says what its issuer wrote: fields, whether it is of a CA,    *)
(* names and key identifiers, whatever extensions it has, in whatever order,  *)
(* critical or not, and in whatever century (cert.ts, ext.ts).              *)
Wrote(id) == SelectSeq(doc.says.exts, LAMBDA e : e.id = id)

SaysAll(c) ==
  LET says    == doc.says
      basic   == Wrote(EXTENSION_OID_BASIC_CONSTRAINTS)
      usage   == Wrote(EXTENSION_OID_KEY_USAGE)
      ext(id) == findExtension(c, id)
      Agree(id, Same(_, _)) ==
        IF Wrote(id) = <<>> THEN ext(id) = None
        ELSE critical(ext(id)[1]) = Wrote(id)[1].critical /\ Same(ext(id)[1], Wrote(id)[1])
  IN  /\ serialNumber(c) = says.serial /\ signatureValue(c) = says.signature
      /\ issuer(c) = TLV(19, says.issuer) /\ subject(c) = TLV(19, says.subject)
      /\ publicKey(c) = SEQ(<<TLV(3, <<0>> \o says.key)>>)
      /\ {year \in 1949 .. 2051 : validForDate(c, year)} = says.from .. says.until
      /\ isCA(c) = (/\ basic # <<>> /\ basic[1].ca
                    /\ usage = <<>> \/ 5 \in usage[1].bits)
      /\ Agree(EXTENSION_OID_BASIC_CONSTRAINTS,
               LAMBDA x, e : pathLenConstraint(x) = [k \in DOMAIN e.limit |-> e.limit[k]])
      /\ Agree(EXTENSION_OID_SUBJECT_KEY_ID, LAMBDA x, e : SubjectKeyIdentifier(x) = <<e.key>>)
      /\ Agree(EXTENSION_OID_AUTHORITY_KEY_ID, LAMBDA x, e : AuthorityKeyIdentifier(x) = <<e.key>>)
      /\ Agree(EXTENSION_OID_SCT, LAMBDA x, e : signedCertificateTimestamps(x).scts = e.scts)
      /\ subjectAltName(c) = (LET e == Wrote(EXTENSION_OID_SUBJECT_ALT_NAME)
                              IN  [k \in DOMAIN e |-> e[k].name])

(* ... a response what the authority wrote: whether it is a timestamp, and  *)
(* if so of what, when and by whom, with or without certificates, accuracy    *)
(* and nonce, and with its attributes in any order (timestamp.ts, tstinfo.ts). *)
SaysWhen(t) ==
  LET says == doc.says
      proper == /\ says.granted /\ says.type = OID_PKCS9_CONTENT_TYPE_SIGNED_DATA
                /\ says.inner = OID_PKCS9_CONTENT_TYPE_TSTINFO
  IN  /\ status(t) = IF says.granted THEN 0 ELSE 2
      /\ IsTimestamp(t) <=> proper
      /\ proper =>
           /\ genTime(t) = says.year /\ messageImprintHashedMessage(t) = says.hash
           /\ messageImprintHashAlgorithm(t) = says.hashedWith
           /\ messageDigest(t) = says.digest /\ signerDigestAlgorithm(t) = says.digestedWith
           /\ signatureAlgorithm(t) = says.signedWith /\ signature(t) = says.signature
           /\ signerIssuer(t) = TLV(19, says.issuer) /\ signerSerialNumber(t) = says.serial

SaysWhatWasWritten ==
  stage = "read" /\ doc.as \in {"value", "certificate", "response"} =>
    /\ object.ok
    /\ doc.as = "value" => Len(object.obj.subs) = 1 /\ ValueIsExact(object.obj.subs[1])
    /\ doc.as = "certificate" => SaysAll(object.obj)
    /\ doc.as = "response" => SaysWhen(object.obj)

(* An octet string that looks like objects looks like DER, too.             *)
Harmless(v) ==
  LET list == collectSubs(v, 0, Len(v))
  IN  list.ok => Tile(list.subs, v, Encodings(TRUE)[MaxDepth])
Octets == CASE doc.as = "certificate" -> {e.key : e \in ToSet(Wrote(EXTENSION_OID_SUBJECT_KEY_ID))}
            [] doc.as = "response" -> {doc.says.hash, doc.says.digest}
            [] OTHER -> {}

(* What a signature is verified of is what was signed, though it is put        *)
(* together again from the objects that were read: the certificate without   *)
(* its signature (cert.ts:160-171), the same without the SCTs, as the log saw *)
(* it (sct.ts:36-40, 77-80), the attributes of a timestamp and the TSTInfo    *)
(* whose digest they have (timestamp.ts:108-126) ...                        *)
Others == SelectSeq(doc.says.exts, LAMBDA e : e.id # EXTENSION_OID_SCT)

SignedIsExact ==
  /\ doc.as = "certificate" /\ stage \in {"read", "cloned"} =>
       /\ object.ok /\ toDER(object.obj) = doc.bytes
       /\ toDER(tbsCertificate(object.obj)) = TBS(doc.says, doc.says.exts)
  /\ doc.as = "response" /\ stage = "read" /\ IsTimestamp(object.obj) =>
       /\ raw(object.obj) = TSTInfoBytes(doc.says)
       /\ VerifiedAttrs(object.obj) = TLV(SET, Attributes(doc.says))
  /\ stage = "precert" =>
       LET tbs == TBS(doc.says, Others)
       IN  made = <<Len(tbs) \div 65536, (Len(tbs) \div 256) % 256, Len(tbs) % 256>> \o tbs

(* ... if no octet string in it happens to look like objects that are not in    *)
(* DER, and a certificate has other extensions than the SCTs.               *)
SignedIsExactMostly ==
  (\A v \in Octets : Harmless(v)) /\ (stage = "precert" => Others # <<>>) => SignedIsExact
=============================================================================
