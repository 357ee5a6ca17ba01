-------------------------------- MODULE ASN1 --------------------------------
(***************************************************************************)
(* Reading and writing DER (packages/core/src/asn1, and the ByteStream of    *)
(* packages/core/src/stream.ts both work on): operators on sequences of      *)
(* bytes.  An exception is a result that is not ok; a position counts the    *)
(* bytes before it.                                                        *)
(***************************************************************************)
EXTENDS Integers, Sequences, SequencesExt

CONSTANTS
  BLOCK_SIZE,     \* by how much a ByteStream grows, at least
  MaxDepth        \* bound: how many levels of objects are one in the other

ASSUME BlockSizeAssumption == BLOCK_SIZE \in Nat \ {0}
ASSUME DepthAssumption == MaxDepth \in Nat

Byte == 0 .. 255

Thrown == [ok |-> FALSE]

-----------------------------------------------------------------------------
(* ByteStream, written to: view is the memory it has, start the bytes that    *)
(* have been written.                                                      *)
EmptyStream == [view |-> <<>>, start |-> 0]
Zeros(n) == [i \in 1 .. n |-> 0]

\* Mutant: it grows by a block, however much is appended.
ensureCapacityBlock(s, size) ==
  IF s.start + size <= Len(s.view) THEN s
  ELSE [s EXCEPT !.view = @ \o Zeros(BLOCK_SIZE)]

ensureCapacity(s, size) ==
  IF s.start + size <= Len(s.view) THEN s
  ELSE [s EXCEPT !.view = @ \o Zeros(BLOCK_SIZE + (IF size > BLOCK_SIZE THEN size ELSE 0))]

(* appendChar, appendUint16, appendUint24 and appendView.                   *)
append(s, bytes) ==
  LET t == ensureCapacity(s, Len(bytes))
  IN  [view  |-> [i \in DOMAIN t.view |-> IF i - t.start \in DOMAIN bytes
                                          THEN bytes[i - t.start] ELSE t.view[i]],
       start |-> t.start + Len(bytes)]

buffer(s) == SubSeq(s.view, 1, IF s.start <= Len(s.view) THEN s.start ELSE Len(s.view))

Written(parts) ==
  LET stream[k \in 0 .. Len(parts)] ==
        IF k = 0 THEN EmptyStream ELSE append(stream[k - 1], parts[k])
  IN  buffer(stream[Len(parts)])

Uint16(n) == <<(n \div 256) % 256, n % 256>>
Uint24(n) == <<(n \div 65536) % 256>> \o Uint16(n)

(* ByteStream, read from: getUint8 and getUint16 at a place that is there.   *)
getUint8(b, p)  == b[p + 1]
getUint16(b, p) == b[p + 1] * 256 + b[p + 2]

-----------------------------------------------------------------------------
(* Lengths.                                                                *)
BigEndian(bytes) ==
  LET number[k \in 0 .. Len(bytes)] == IF k = 0 THEN 0 ELSE number[k - 1] * 256 + bytes[k]
  IN  number[Len(bytes)]

\* Mutant: a length of no bytes, or of zeros, is zero.
IndefiniteNever(len) == FALSE
Indefinite(len) == len = 0

decodeLength(b, p) ==
  IF p >= Len(b) THEN Thrown
  ELSE LET first == getUint8(b, p)
           count == first % 128
           len   == BigEndian(SubSeq(b, p + 2, p + 1 + count))
       IN  IF first < 128 THEN [ok |-> TRUE, value |-> first, next |-> p + 1]
           ELSE IF count > 6 \/ p + 1 + count > Len(b) THEN Thrown
           ELSE IF Indefinite(len) THEN Thrown
           ELSE [ok |-> TRUE, value |-> len, next |-> p + 1 + count]

Digits[n \in Nat] == IF n = 0 THEN <<>> ELSE Append(Digits[n \div 256], n % 256)

encodeLength(n) == IF n < 128 THEN <<n>> ELSE <<128 + Len(Digits[n])>> \o Digits[n]

-----------------------------------------------------------------------------
(* Tags.                                                                   *)
BOOLEAN_TAG      == 1
INTEGER_TAG      == 2
BIT_STRING       == 3
OCTET_STRING     == 4
OBJECT_IDENTIFIER == 6
UTC_TIME         == 23
GENERALIZED_TIME == 24

ASN1Tag(byte) ==
  [number |-> byte % 32, constructed |-> (byte \div 32) % 2 = 1, class |-> byte \div 64]
Supported(tag) == tag.number # 31 /\ ~ (tag.class = 0 /\ tag.number = 0)

isUniversal(o, number)       == o.tag.class = 0 /\ o.tag.number = number
isContextSpecific(o, number) == o.tag.class = 2 /\ o.tag.number = number

tagToDER(tag) == tag.number + (IF tag.constructed THEN 32 ELSE 0) + 64 * tag.class

-----------------------------------------------------------------------------
(* Objects, of at most so many levels.                                     *)
Tags == [number : 0 .. 31, constructed : BOOLEAN, class : 0 .. 3]
Objects[n \in Nat] ==
  IF n = 0 THEN {} ELSE [tag : Tags, value : Seq(Byte), subs : Seq(Objects[n - 1])]

MustHold(o) == o.tag.constructed
MayHold(o)  == o.tag.constructed \/ isUniversal(o, OCTET_STRING)

(* The object at p, given what objects there are from one place to another.   *)
(* What an octet string holds is read, too; if it cannot be, the octet string *)
(* is a primitive.                                                         *)
ObjectAt(b, p, between) ==
  LET tag   == ASN1Tag(getUint8(b, p))
      len   == decodeLength(b, p + 1)
      end   == len.next + len.value
      inner == between[<<len.next, end>>]
      plain == [tag |-> tag, value |-> SubSeq(b, len.next + 1, end), subs |-> <<>>]
  IN  IF p >= Len(b) THEN Thrown
      ELSE IF ~ Supported(tag) \/ ~ len.ok THEN Thrown
      ELSE IF end > Len(b) THEN Thrown
      ELSE IF MustHold(plain) /\ ~ inner.ok THEN Thrown
      ELSE [ok |-> TRUE, next |-> end,
            obj |-> IF MayHold(plain) /\ inner.ok THEN [plain EXCEPT !.subs = inner.subs]
                                                  ELSE plain]

Between(b) ==
  LET between[r \in (0 .. Len(b)) \X (0 .. Len(b))] ==
        LET first == ObjectAt(b, r[1], between)
            rest  == between[<<first.next, r[2]>>]
        IN  IF r[1] >= r[2] THEN [ok |-> r[1] = r[2], subs |-> <<>>]
            ELSE IF first.ok /\ rest.ok THEN [ok |-> TRUE, subs |-> <<first.obj>> \o rest.subs]
            ELSE Thrown
  IN  between

collectSubs(b, p, end) == Between(b)[<<p, end>>]
parseStream(b, p) == ObjectAt(b, p, Between(b))
parseBuffer(b) == parseStream(b, 0)

\* Mutant: an object is written as it was read.
ContentAsRead(o, der) == o.value

(* The objects in it are written anew; what has none keeps its bytes.       *)
Content(o, der) ==
  LET parts == [k \in 1 .. Len(o.subs) |-> der[o.subs[k]]]
  IN  \* SubSeq has TLC evaluate each of the parts once.
      Written(IF o.subs # <<>> THEN SubSeq(parts, 1, Len(o.subs)) ELSE <<o.value>>)

DER[n \in Nat] ==
  IF n = 0 THEN <<>>
  ELSE [o \in Objects[n] |->
          LET value == Content(o, DER[n - 1])
          IN  Written(<< <<tagToDER(o.tag)>>, encodeLength(Len(value)), value>>)]

toDER(o) == DER[MaxDepth][o]

-----------------------------------------------------------------------------
(* Values.                                                                 *)
parseBoolean(v) == v = <<>> \/ v[1] # 0

parseInteger(v) ==
  LET neg  == v # <<>> /\ v[1] > 127
      pad  == IF neg THEN 255 ELSE 0
      rest == {i \in DOMAIN v : v[i] # pad}
      pos  == CHOOSE i \in rest : \A j \in rest : i <= j
      top  == IF neg THEN v[pos] - 256 ELSE v[pos]
  IN  IF rest = {} THEN (IF neg THEN -1 ELSE 0)
      ELSE FoldLeft(LAMBDA n, byte : n * 256 + byte, top, SubSeq(v, pos + 1, Len(v)))

(* val << 7, in 32 bits with a sign.                                        *)
Shift7(val) ==
  LET low == val % 2 ^ 25 IN (IF low < 2 ^ 24 THEN low ELSE low - 2 ^ 25) * 128

parseOID(v) ==
  LET Take(s, byte) ==
        LET val == Shift7(s.val) + (byte % 128)
        IN  IF byte < 128 THEN [oid |-> Append(s.oid, val), val |-> 0]
                          ELSE [s EXCEPT !.val = val]
  IN  FoldLeft(Take, [oid |-> <<v[1] \div 40, v[1] % 40>>, val |-> 0], Tail(v)).oid

parseBitString(v) ==
  FlattenSeq([i \in 1 .. Len(v) - 1 |->
    [j \in 1 .. 8 - (IF i = Len(v) - 1 THEN v[1] ELSE 0) |-> (v[i + 1] \div 2 ^ (8 - j)) % 2]])

(* The year of a time: its digits are bytes of two digits each, and only the  *)
(* years are kept.                                                         *)
\* Mutant: the turn of the century is one year later.
parseTimePivot(v, shortYear) ==
  IF shortYear THEN v[1] + (IF v[1] > 50 THEN 1900 ELSE 2000) ELSE v[1] * 100 + v[2]

parseTime(v, shortYear) ==
  IF shortYear THEN v[1] + (IF v[1] >= 50 THEN 1900 ELSE 2000) ELSE v[1] * 100 + v[2]

(* toDate, toBoolean, toInteger, toOID, toBitString: of an object of that    *)
(* type.                                                                   *)
toDate(o) == parseTime(o.value, isUniversal(o, UTC_TIME))

toBoolean(o) ==
  IF isUniversal(o, BOOLEAN_TAG) THEN [ok |-> TRUE, value |-> parseBoolean(o.value)] ELSE Thrown
toInteger(o) ==
  IF isUniversal(o, INTEGER_TAG) THEN [ok |-> TRUE, value |-> parseInteger(o.value)] ELSE Thrown
toOID(o) ==
  IF isUniversal(o, OBJECT_IDENTIFIER) THEN [ok |-> TRUE, value |-> parseOID(o.value)] ELSE Thrown
toBitString(o) ==
  IF isUniversal(o, BIT_STRING) THEN [ok |-> TRUE, value |-> parseBitString(o.value)] ELSE Thrown
=============================================================================
