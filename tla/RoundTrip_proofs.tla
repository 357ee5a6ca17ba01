-------------------------- MODULE RoundTrip_proofs --------------------------
(* Theorems about RoundTrip, for any signings and any trusted root.           *)
EXTENDS RoundTrip, TLAPS

-----------------------------------------------------------------------------
(* Where the parts of a serialized bundle come from: some signings.           *)
IsList(x) == x = <<>> \/ x = <<x[1]>>

About(e, s)   == e.body.sigs = <<Signature(s).sig>> /\ e.time = s.log.time
EntryOf(e, s) == {"body", "time"} \subseteq DOMAIN e /\ About(e, s)
StampOf(t, s) == t.info.imprint = Signature(s).sig /\ t.info.time = s.tsa.time

(* The one option that is for the form of the key (config.ts, createBundleBuilder). *)
Chain(s) == s.call = "sign" \/ s.options.legacyCompatibility

MaterialOf(vm, S) ==
  /\ \A n \in DOMAIN vm \cap KeyMembers : \E s \in S :
       vm[n] = toKeyContent(Signature(s).key, Chain(s))
  /\ "tlogEntries" \in DOMAIN vm =>
       IsList(vm.tlogEntries) /\ \A k \in DOMAIN vm.tlogEntries : \E s \in S : EntryOf(vm.tlogEntries[k], s)
  /\ "rfc3161Timestamps" \in DOMAIN vm =>
       /\ IsList(vm.rfc3161Timestamps)
       /\ \A k \in DOMAIN vm.rfc3161Timestamps : \E s \in S : StampOf(vm.rfc3161Timestamps[k], s)

BundleOf(j, S) ==
  /\ \A n \in DOMAIN j \cap ContentMembers : \E s \in S :
       n = CaseOf(s) /\ j[n] = createBundleBuilder(s).content
  /\ "verificationMaterial" \in DOMAIN j => MaterialOf(j.verificationMaterial, S)

-----------------------------------------------------------------------------
(* What create() makes of a signing.                                       *)
LEMMA JoinedMembers ==
  ASSUME NEW a, NEW b
  PROVE  /\ DOMAIN Joined(a, b) = (DOMAIN a) \cup DOMAIN b
         /\ \A n \in DOMAIN a : Joined(a, b)[n] = a[n]
         /\ \A n \in (DOMAIN b) \ DOMAIN a : Joined(a, b)[n] = b[n]
BY DEF Joined

LEMMA OneMember == ASSUME NEW n, NEW x PROVE DOMAIN One(n, x) = {n} /\ One(n, x)[n] = x
BY DEF One

LEMMA BuiltParts ==
  ASSUME NEW s \in Signings \cup Others
  PROVE  \E c : /\ createBundleBuilder(s) =
                     [mediaType |-> IF Chain(s) THEN "v0.2" ELSE "v0.3", content |-> c,
                      material |-> [content |-> toKeyContent(Signature(s).key, Chain(s)),
                                    tlogEntries |-> <<>>, rfc3161Timestamps |-> <<>>]]
                /\ c.case = CaseOf(s)
<1>1. CASE s.call = "sign"
  <2>1. Chain(s) = TRUE
    BY <1>1 DEF Chain
  <2> DEFINE c == [case |-> "messageSignature", messageDigest |-> digest(s.artifact.data),
                   signature |-> Signature(s).sig]
  <2>2. createBundleBuilder(s) =
          [mediaType |-> "v0.2", content |-> c,
           material |-> [content |-> toKeyContent(Signature(s).key, TRUE),
                         tlogEntries |-> <<>>, rfc3161Timestamps |-> <<>>]]
    BY <1>1 DEF createBundleBuilder, toMessageSignatureBundle, Packed, toVerificationMaterial
  <2>3. c.case = CaseOf(s)
    BY <1>1 DEF CaseOf
  <2> HIDE DEF c
  <2> QED BY <2>1, <2>2, <2>3
<1>2. CASE s.call # "sign"
  <2> DEFINE legacy == s.options.legacyCompatibility
             c == [case |-> "dsseEnvelope", payloadType |-> s.artifact.type, payload |-> s.artifact.data,
                   signatures |-> <<[sig |-> Signature(s).sig,
                                     keyid |-> IF Signature(s).key.case = "publicKey"
                                               THEN Signature(s).key.hint ELSE Empty]>>]
  <2>2. createBundleBuilder(s) =
          [mediaType |-> IF legacy THEN "v0.2" ELSE "v0.3", content |-> c,
           material |-> [content |-> toKeyContent(Signature(s).key, legacy),
                         tlogEntries |-> <<>>, rfc3161Timestamps |-> <<>>]]
    BY <1>2, Zenon DEF createBundleBuilder, toDSSEBundle, Packed, toVerificationMaterial
  <2>3. c.case = CaseOf(s)
    BY <1>2 DEF CaseOf
  <2> HIDE DEF c
  <2>4. CASE legacy
    <3>1. Chain(s) = TRUE
      BY <2>4 DEF Chain
    <3>2. toKeyContent(Signature(s).key, legacy) = toKeyContent(Signature(s).key, TRUE)
      BY <2>4 DEF toKeyContent
    <3> HIDE DEF legacy
    <3>3. createBundleBuilder(s) =
          [mediaType |-> "v0.2", content |-> c,
           material |-> [content |-> toKeyContent(Signature(s).key, TRUE),
                         tlogEntries |-> <<>>, rfc3161Timestamps |-> <<>>]]
      BY <2>2, <2>4, <3>2
    <3> QED BY <2>3, <3>1, <3>3
  <2>5. CASE ~ legacy
    <3>1. Chain(s) = FALSE
      BY <1>2, <2>5 DEF Chain
    <3>2. toKeyContent(Signature(s).key, legacy) = toKeyContent(Signature(s).key, FALSE)
      BY <2>5 DEF toKeyContent
    <3> HIDE DEF legacy
    <3>3. createBundleBuilder(s) =
          [mediaType |-> "v0.3", content |-> c,
           material |-> [content |-> toKeyContent(Signature(s).key, FALSE),
                         tlogEntries |-> <<>>, rfc3161Timestamps |-> <<>>]]
      BY <2>2, <2>5, <3>2
    <3> QED BY <2>3, <3>1, <3>3
  <2> QED BY <2>4, <2>5
<1> QED BY <1>1, <1>2

LEMMA ProposedSigns ==
  ASSUME NEW s \in Signings \cup Others, NEW type
  PROVE  toProposedEntry(createBundleBuilder(s).content, type).sigs = <<Signature(s).sig>>
<1>1. CASE s.call = "sign"
  <2>1. createBundleBuilder(s).content =
          [case |-> "messageSignature", messageDigest |-> digest(s.artifact.data),
           signature |-> Signature(s).sig]
    BY <1>1 DEF createBundleBuilder, toMessageSignatureBundle, Packed
  <2> QED BY <2>1 DEF toProposedEntry
<1>2. CASE s.call # "sign"
  <2>1. createBundleBuilder(s).content =
          [case |-> "dsseEnvelope", payloadType |-> s.artifact.type, payload |-> s.artifact.data,
           signatures |-> <<[sig |-> Signature(s).sig,
                             keyid |-> IF Signature(s).key.case = "publicKey"
                                       THEN Signature(s).key.hint ELSE Empty]>>]
    BY <1>2 DEF createBundleBuilder, toDSSEBundle, Packed
  <2> QED BY <2>1 DEF toProposedEntry
<1> QED BY <1>1, <1>2

LEMMA CreatedParts ==
  ASSUME NEW s \in Signings \cup Others
  PROVE  \E c : /\ Created(s) =
                     [mediaType |-> IF Chain(s) THEN "v0.2" ELSE "v0.3", content |-> c,
                      material |-> [content |-> toKeyContent(Signature(s).key, Chain(s)),
                                    tlogEntries |-> tlogEntries(s),
                                    rfc3161Timestamps |-> rfc3161Timestamps(s)]]
                /\ c.case = CaseOf(s) /\ c = createBundleBuilder(s).content
<1> DEFINE type == IF Chain(s) THEN "v0.2" ELSE "v0.3"
           key == toKeyContent(Signature(s).key, Chain(s))
<1>1. PICK c : /\ createBundleBuilder(s) =
                    [mediaType |-> type, content |-> c,
                     material |-> [content |-> key, tlogEntries |-> <<>>, rfc3161Timestamps |-> <<>>]]
               /\ c.case = CaseOf(s)
  BY BuiltParts
<1> HIDE DEF type, key
<1>2. createBundleBuilder(s).content = c
  BY <1>1
<1>3. Created(s) = [mediaType |-> type, content |-> c,
                    material |-> [content |-> key, tlogEntries |-> tlogEntries(s),
                                  rfc3161Timestamps |-> rfc3161Timestamps(s)]]
  <2> DEFINE b == createBundleBuilder(s)
             entries == tlogEntries(s)
             stamps == rfc3161Timestamps(s)
  <2>1. Created(s) = [b EXCEPT !.material.tlogEntries = entries, !.material.rfc3161Timestamps = stamps]
    BY DEF Created
  <2>2. b = [mediaType |-> type, content |-> c,
             material |-> [content |-> key, tlogEntries |-> <<>>, rfc3161Timestamps |-> <<>>]]
    BY <1>1
  <2> HIDE DEF b, entries, stamps
  <2>3. [b EXCEPT !.material.tlogEntries = entries, !.material.rfc3161Timestamps = stamps] =
           [mediaType |-> type, content |-> c,
            material |-> [content |-> key, tlogEntries |-> entries, rfc3161Timestamps |-> stamps]]
    <3> DEFINE m == [content |-> key, tlogEntries |-> entries, rfc3161Timestamps |-> <<>>]
               filled == [mediaType |-> type, content |-> c, material |-> m]
    <3>1. [b EXCEPT !.material.tlogEntries = entries] = filled
      BY <2>2
    <3>2. [filled EXCEPT !.material.rfc3161Timestamps = stamps] =
            [mediaType |-> type, content |-> c,
             material |-> [content |-> key, tlogEntries |-> entries, rfc3161Timestamps |-> stamps]]
      OBVIOUS
    <3> HIDE DEF filled
    <3> QED BY <3>1, <3>2
  <2> QED BY <2>1, <2>3 DEF entries, stamps
<1> QED BY <1>1, <1>2, <1>3 DEF type, key

LEMMA WitnessesOf ==
  ASSUME NEW s \in Signings \cup Others
  PROVE  /\ IsList(tlogEntries(s)) /\ \A k \in DOMAIN tlogEntries(s) : EntryOf(tlogEntries(s)[k], s)
         /\ IsList(rfc3161Timestamps(s))
         /\ \A k \in DOMAIN rfc3161Timestamps(s) : StampOf(rfc3161Timestamps(s)[k], s)
<1>1. ASSUME NEW type
      PROVE  EntryOf(toTransparencyLogEntry(
                       LogAnswer(s, toProposedEntry(createBundleBuilder(s).content, type))), s)
  <2> DEFINE body == toProposedEntry(createBundleBuilder(s).content, type)
             answer == LogAnswer(s, body)
             e == toTransparencyLogEntry(answer)
  <2>1. body.sigs = <<Signature(s).sig>>
    BY ProposedSigns
  <2> HIDE DEF body
  <2>2. answer.body = body /\ answer.integratedTime = s.log.time
    BY DEF LogAnswer
  <2> HIDE DEF answer
  <2>3. {"body", "time"} \subseteq DOMAIN e /\ e.body = body /\ e.time = s.log.time
    BY <2>2 DEF toTransparencyLogEntry
  <2> HIDE DEF e
  <2>4. EntryOf(e, s)
    BY <2>1, <2>3 DEF EntryOf, About
  <2> QED BY <2>4 DEF e, answer, body
<1>2. \/ tlogEntries(s) = <<>>
      \/ \E e : tlogEntries(s) = <<e>> /\ EntryOf(e, s)
  BY <1>1 DEF tlogEntries
<1>3. StampOf(TSAnswer(s), s)
  BY DEF StampOf, TSAnswer
<1>4. \/ rfc3161Timestamps(s) = <<>>
      \/ \E t : rfc3161Timestamps(s) = <<t>> /\ StampOf(t, s)
  BY <1>3 DEF rfc3161Timestamps
<1>5. IsList(tlogEntries(s)) /\ \A k \in DOMAIN tlogEntries(s) : EntryOf(tlogEntries(s)[k], s)
  BY <1>2 DEF IsList
<1>6. IsList(rfc3161Timestamps(s))
      /\ \A k \in DOMAIN rfc3161Timestamps(s) : StampOf(rfc3161Timestamps(s)[k], s)
  BY <1>4 DEF IsList
<1> QED BY <1>5, <1>6

(* Its kind of key is a member of its own.                                 *)
LEMMA KeyMember ==
  ASSUME NEW s \in Signings \cup Others
  PROVE  toKeyContent(Signature(s).key, Chain(s)).case \in KeyMembers
BY DEF toKeyContent, KeyMembers

-----------------------------------------------------------------------------
(* A bundle as JSON has the parts of the bundle.                           *)
LEMMA JSONParts ==
  ASSUME NEW s \in Signings \cup Others
  PROVE  LET c   == createBundleBuilder(s).content
             key == toKeyContent(Signature(s).key, Chain(s))
             j   == bundleToJSON(Created(s))
             vm  == j.verificationMaterial
         IN  /\ DOMAIN j = {"mediaType", "verificationMaterial", c.case}
             /\ j.mediaType = IF Chain(s) THEN "v0.2" ELSE "v0.3"
             /\ c.case = CaseOf(s) /\ j[c.case] = c
             /\ DOMAIN vm = {"tlogEntries", "rfc3161Timestamps", key.case}
             /\ vm[key.case] = key
             /\ vm.tlogEntries = tlogEntries(s) /\ vm.rfc3161Timestamps = rfc3161Timestamps(s)
<1> DEFINE type == IF Chain(s) THEN "v0.2" ELSE "v0.3"
           key == toKeyContent(Signature(s).key, Chain(s))
           entries == tlogEntries(s)
           stamps == rfc3161Timestamps(s)
           b == Created(s)
<1>1. PICK c : /\ b = [mediaType |-> type, content |-> c,
                       material |-> [content |-> key, tlogEntries |-> entries,
                                     rfc3161Timestamps |-> stamps]]
               /\ c.case = CaseOf(s) /\ c = createBundleBuilder(s).content
  BY CreatedParts
<1>2. key.case \in KeyMembers /\ c.case \in ContentMembers
  BY <1>1, KeyMember DEF CaseOf, ContentMembers
<1> HIDE DEF type, key, entries, stamps, b
<1> DEFINE parts == [tlogEntries |-> entries, rfc3161Timestamps |-> stamps]
           vm == Joined(parts, One(key.case, key))
           top == [mediaType |-> type, verificationMaterial |-> vm]
           j == Joined(top, One(c.case, c))
<1>3. bundleToJSON(b) = j
  BY <1>1 DEF bundleToJSON
<1>4. /\ DOMAIN vm = {"tlogEntries", "rfc3161Timestamps", key.case}
      /\ vm[key.case] = key /\ vm.tlogEntries = entries /\ vm.rfc3161Timestamps = stamps
  <2>1. /\ DOMAIN parts = {"tlogEntries", "rfc3161Timestamps"}
        /\ parts.tlogEntries = entries /\ parts.rfc3161Timestamps = stamps
    OBVIOUS
  <2>2. key.case \notin DOMAIN parts
    BY <1>2, <2>1 DEF KeyMembers
  <2> DEFINE one == One(key.case, key)
  <2>3. DOMAIN one = {key.case} /\ one[key.case] = key
    BY OneMember
  <2> HIDE DEF parts, one
  <2>4. /\ DOMAIN vm = (DOMAIN parts) \cup DOMAIN one
        /\ \A n \in DOMAIN parts : vm[n] = parts[n]
        /\ \A n \in (DOMAIN one) \ DOMAIN parts : vm[n] = one[n]
    BY JoinedMembers DEF one
  <2> HIDE DEF vm
  <2> QED BY <2>1, <2>2, <2>3, <2>4
<1> HIDE DEF vm
<1>5. /\ DOMAIN j = {"mediaType", "verificationMaterial", c.case}
      /\ j[c.case] = c /\ j.mediaType = type /\ j.verificationMaterial = vm
  <2>1. /\ DOMAIN top = {"mediaType", "verificationMaterial"}
        /\ top.mediaType = type /\ top.verificationMaterial = vm
    OBVIOUS
  <2>2. c.case \notin DOMAIN top
    BY <1>2, <2>1 DEF ContentMembers
  <2> DEFINE one == One(c.case, c)
  <2>3. DOMAIN one = {c.case} /\ one[c.case] = c
    BY OneMember
  <2> HIDE DEF top, one
  <2>4. /\ DOMAIN j = (DOMAIN top) \cup DOMAIN one
        /\ \A n \in DOMAIN top : j[n] = top[n]
        /\ \A n \in (DOMAIN one) \ DOMAIN top : j[n] = one[n]
    BY JoinedMembers DEF one
  <2> HIDE DEF j
  <2> QED BY <2>1, <2>2, <2>3, <2>4
<1> HIDE DEF j
<1> QED BY <1>1, <1>3, <1>4, <1>5 DEF type, key, entries, stamps, b

LEMMA JSONOf == ASSUME NEW s \in Signings \cup Others PROVE BundleOf(bundleToJSON(Created(s)), {s})
<1> DEFINE j == bundleToJSON(Created(s))
           c == createBundleBuilder(s).content
           key == toKeyContent(Signature(s).key, Chain(s))
           vm == j.verificationMaterial
<1>1. /\ DOMAIN j = {"mediaType", "verificationMaterial", c.case}
      /\ c.case = CaseOf(s) /\ j[c.case] = c
      /\ DOMAIN vm = {"tlogEntries", "rfc3161Timestamps", key.case}
      /\ vm[key.case] = key
      /\ vm.tlogEntries = tlogEntries(s) /\ vm.rfc3161Timestamps = rfc3161Timestamps(s)
  BY JSONParts
<1> HIDE DEF j
<1>2. MaterialOf(vm, {s})
  <2>1. \A n \in DOMAIN vm \cap KeyMembers : vm[n] = key
    <3> HIDE DEF key, vm
    <3> QED BY <1>1 DEF KeyMembers
  <2> QED BY <1>1, <2>1, WitnessesOf DEF MaterialOf
<1>3. \A n \in DOMAIN j \cap ContentMembers : n = CaseOf(s) /\ j[n] = c
  <2> HIDE DEF c, vm
  <2> QED BY <1>1 DEF ContentMembers
<1> QED BY <1>2, <1>3 DEF BundleOf, j

-----------------------------------------------------------------------------
(* What becomes of it while it is kept.                                    *)
LEMMA OfMore ==
  ASSUME NEW S, NEW T, S \subseteq T
  PROVE  /\ \A vm : MaterialOf(vm, S) => MaterialOf(vm, T)
         /\ \A j : BundleOf(j, S) => BundleOf(j, T)
<1>1. ASSUME NEW vm, MaterialOf(vm, S) PROVE MaterialOf(vm, T)
  BY <1>1 DEF MaterialOf
<1>2. ASSUME NEW j, BundleOf(j, S) PROVE BundleOf(j, T)
  BY <1>1, <1>2 DEF BundleOf
<1> QED BY <1>1, <1>2

LEMMA WithoutMembers ==
  ASSUME NEW obj, NEW names
  PROVE  /\ DOMAIN Without(obj, names) = (DOMAIN obj) \ names
         /\ \A n \in (DOMAIN obj) \ names : Without(obj, names)[n] = obj[n]
         /\ DOMAIN Only(obj, names) = (DOMAIN obj) \cap names
         /\ \A n \in (DOMAIN obj) \cap names : Only(obj, names)[n] = obj[n]
BY DEF Without, Only

(* Every member that is left or comes in is one of one of the two.          *)
Merged(x, a, b) == \A n \in DOMAIN x : (n \in DOMAIN a /\ x[n] = a[n]) \/ (n \in DOMAIN b /\ x[n] = b[n])

LEMMA MergedMaterial ==
  ASSUME NEW S, NEW a, NEW b, NEW x, MaterialOf(a, S), MaterialOf(b, S), Merged(x, a, b)
  PROVE  MaterialOf(x, S)
<1>1. \A n \in DOMAIN x \cap KeyMembers : \E s \in S :
        x[n] = toKeyContent(Signature(s).key, Chain(s))
  BY DEF MaterialOf, Merged
<1>2. "tlogEntries" \in DOMAIN x =>
        IsList(x.tlogEntries) /\ \A k \in DOMAIN x.tlogEntries : \E s \in S : EntryOf(x.tlogEntries[k], s)
  BY Zenon DEF MaterialOf, Merged
<1>3. "rfc3161Timestamps" \in DOMAIN x =>
        /\ IsList(x.rfc3161Timestamps)
        /\ \A k \in DOMAIN x.rfc3161Timestamps : \E s \in S : StampOf(x.rfc3161Timestamps[k], s)
  BY Zenon DEF MaterialOf, Merged
<1> QED BY <1>1, <1>2, <1>3 DEF MaterialOf

LEMMA MergedBundle ==
  ASSUME NEW S, NEW a, NEW b, NEW x, BundleOf(a, S), BundleOf(b, S), Merged(x, a, b)
  PROVE  BundleOf(x, S)
<1>1. \A n \in DOMAIN x \cap ContentMembers : \E s \in S :
        n = CaseOf(s) /\ x[n] = createBundleBuilder(s).content
  BY DEF BundleOf, Merged
<1>2. "verificationMaterial" \in DOMAIN x => MaterialOf(x.verificationMaterial, S)
  BY Zenon DEF BundleOf, Merged
<1> QED BY <1>1, <1>2 DEF BundleOf

LEMMA JoinedMerged ==
  ASSUME NEW a, NEW b, NEW names
  PROVE  /\ Merged(Without(a, names), a, b)
         /\ Merged(Joined(Only(b, names), Without(a, names)), a, b)
         /\ Merged(Joined(Only(b, names), a), a, b)
<1> DEFINE w == Without(a, names)
           o == Only(b, names)
<1>1. /\ DOMAIN w = (DOMAIN a) \ names /\ \A n \in (DOMAIN a) \ names : w[n] = a[n]
      /\ DOMAIN o = (DOMAIN b) \cap names /\ \A n \in (DOMAIN b) \cap names : o[n] = b[n]
  BY WithoutMembers
<1> HIDE DEF w, o
<1>2. Merged(w, a, b)
  BY <1>1 DEF Merged
<1>3. ASSUME NEW y, Merged(y, a, b) PROVE Merged(Joined(o, y), a, b)
  <2>1. DOMAIN Joined(o, y) = (DOMAIN o) \cup DOMAIN y
        /\ (\A n \in DOMAIN o : Joined(o, y)[n] = o[n])
        /\ (\A n \in (DOMAIN y) \ DOMAIN o : Joined(o, y)[n] = y[n])
    BY JoinedMembers
  <2> QED BY <1>1, <1>3, <2>1 DEF Merged
<1>4. Merged(a, a, b)
  BY DEF Merged
<1>5. Merged(Joined(o, w), a, b) /\ Merged(Joined(o, a), a, b)
  BY <1>2, <1>3, <1>4
<1> QED BY <1>2, <1>5 DEF w, o

LEMMA MixedOf ==
  ASSUME NEW S, NEW a, NEW b, BundleOf(a, S), BundleOf(b, S),
         "verificationMaterial" \in DOMAIN a, "verificationMaterial" \in DOMAIN b,
         NEW x \in Mixed(a, b)
  PROVE  BundleOf(x, S)
<1> DEFINE av == a.verificationMaterial
           bv == b.verificationMaterial
<1>1. MaterialOf(av, S) /\ MaterialOf(bv, S)
  BY DEF BundleOf
<1>2. ASSUME NEW vm, MaterialOf(vm, S), x = [a EXCEPT !.verificationMaterial = vm] PROVE BundleOf(x, S)
  <2>1. /\ DOMAIN x = DOMAIN a /\ x.verificationMaterial = vm
        /\ \A n \in (DOMAIN a) \cap ContentMembers : x[n] = a[n]
    BY <1>2 DEF ContentMembers
  <2> QED BY <1>2, <2>1 DEF BundleOf
<1>3. ASSUME NEW type, x = [a EXCEPT !.mediaType = type] PROVE BundleOf(x, S)
  <2>1. /\ DOMAIN x = DOMAIN a /\ x.verificationMaterial = av
        /\ \A n \in (DOMAIN a) \cap ContentMembers : x[n] = a[n]
    BY <1>3 DEF ContentMembers
  <2> QED BY <2>1 DEF BundleOf
<1>4. \/ \E name \in DOMAIN a : x = Without(a, {name})
      \/ \E type \in MediaTypes \cup {"unknown"} : x = [a EXCEPT !.mediaType = type]
      \/ x \in {Joined(Only(b, ContentMembers), Without(a, ContentMembers)),
                Joined(Only(b, ContentMembers), a)}
      \/ \E vm \in {Without(av, {name}) : name \in DOMAIN av}
                     \cup {Joined(Only(bv, KeyMembers), Without(av, KeyMembers)),
                           Joined(Only(bv, {"tlogEntries"}), av),
                           Joined(Only(bv, {"rfc3161Timestamps"}), av)} :
           x = [a EXCEPT !.verificationMaterial = vm]
  BY Zenon DEF Mixed
<1>5. ASSUME Merged(x, a, b) PROVE BundleOf(x, S)
  BY <1>5, MergedBundle
<1>6. ASSUME NEW vm, Merged(vm, av, bv), x = [a EXCEPT !.verificationMaterial = vm] PROVE BundleOf(x, S)
  <2>1. MaterialOf(vm, S)
    BY <1>1, <1>6, MergedMaterial
  <2> QED BY <1>2, <1>6, <2>1
<1>7. CASE \E name \in DOMAIN a : x = Without(a, {name})
  BY <1>5, <1>7, JoinedMerged, Zenon
<1>8. CASE x \in {Joined(Only(b, ContentMembers), Without(a, ContentMembers)),
                  Joined(Only(b, ContentMembers), a)}
  BY <1>5, <1>8, JoinedMerged, Zenon
<1>9. ASSUME NEW vm \in {Without(av, {name}) : name \in DOMAIN av}
                         \cup {Joined(Only(bv, KeyMembers), Without(av, KeyMembers)),
                               Joined(Only(bv, {"tlogEntries"}), av),
                               Joined(Only(bv, {"rfc3161Timestamps"}), av)}
      PROVE  Merged(vm, av, bv)
  <2> HIDE DEF av, bv
  <2> QED BY <1>9, JoinedMerged, Zenon
<1> QED BY <1>3, <1>4, <1>6, <1>7, <1>8, <1>9, Zenon

(* An entry that has lost a part is still about the signature, with its time. *)
LEMMA EntrywiseOf ==
  ASSUME NEW S, NEW a, BundleOf(a, S), "verificationMaterial" \in DOMAIN a,
         "tlogEntries" \in DOMAIN a.verificationMaterial,
         NEW e, a.verificationMaterial.tlogEntries = <<e>>, NEW x \in Entrywise(a)
  PROVE  BundleOf(x, S)
<1> DEFINE av == a.verificationMaterial
<1>1. MaterialOf(av, S)
  BY DEF BundleOf
<1>2. PICK r \in S : EntryOf(e, r)
  <2>1. 1 \in DOMAIN av.tlogEntries /\ av.tlogEntries[1] = e
    OBVIOUS
  <2> QED BY <1>1, <2>1, Zenon DEF MaterialOf
<1>3. PICK f : /\ f \in {[e EXCEPT !.promise = Absent], [e EXCEPT !.proof = Absent],
                         [e EXCEPT !.kindVersion = Absent], [e EXCEPT !.log = Absent]}
               /\ x = [a EXCEPT !.verificationMaterial.tlogEntries[1] = f]
  BY DEF Entrywise
<1>4. EntryOf(f, r)
  <2>1. DOMAIN f = DOMAIN e
    BY <1>3
  <2>2. f.body = e.body /\ f.time = e.time
    BY <1>2, <1>3 DEF EntryOf
  <2> QED BY <1>2, <2>1, <2>2 DEF EntryOf, About
<1>5. [av.tlogEntries EXCEPT ![1] = f] = <<f>>
  OBVIOUS
<1> DEFINE vm == [av EXCEPT !.tlogEntries = <<f>>]
<1>6. x = [a EXCEPT !.verificationMaterial = vm]
  BY <1>3, <1>5
<1>7. MaterialOf(vm, S)
  <2>1. /\ DOMAIN vm = DOMAIN av /\ vm.tlogEntries = <<f>>
        /\ \A n \in (DOMAIN av) \cap (KeyMembers \cup {"rfc3161Timestamps"}) : vm[n] = av[n]
    BY DEF KeyMembers
  <2> HIDE DEF av, vm
  <2>2. \A n \in DOMAIN vm \cap KeyMembers : \E q \in S :
          vm[n] = toKeyContent(Signature(q).key, Chain(q))
    BY <1>1, <2>1 DEF MaterialOf
  <2>3. IsList(vm.tlogEntries) /\ \A k \in DOMAIN vm.tlogEntries : \E q \in S : EntryOf(vm.tlogEntries[k], q)
    BY <1>2, <1>4, <2>1 DEF IsList
  <2>4. "rfc3161Timestamps" \in DOMAIN vm =>
          /\ IsList(vm.rfc3161Timestamps)
          /\ \A k \in DOMAIN vm.rfc3161Timestamps : \E q \in S : StampOf(vm.rfc3161Timestamps[k], q)
    BY <1>1, <2>1 DEF MaterialOf
  <2> QED BY <2>2, <2>3, <2>4 DEF MaterialOf
<1> HIDE DEF vm
<1>8. /\ DOMAIN x = DOMAIN a /\ x.verificationMaterial = vm
      /\ \A n \in (DOMAIN a) \cap ContentMembers : x[n] = a[n]
  BY <1>6 DEF ContentMembers
<1> QED BY <1>7, <1>8 DEF BundleOf

-----------------------------------------------------------------------------
(* What is read back of it and is valid is some signings' again.             *)
SignedBy(b, e, data, s) ==
  /\ b.content = createBundleBuilder(s).content
  /\ e.sig = Signature(s).sig
  /\ e.artifact = IF s.call = "sign" THEN data ELSE preAuthEncoding(s.artifact.type, s.artifact.data)

KeyFrom(s) ==
  LET m == s.signer.material
  IN  IF m.case = "publicKey" THEN [case |-> "public-key", hint |-> m.hint]
      ELSE [case |-> "certificate", cert |-> m.certificate.cert,
            identity |-> m.certificate.identity, scts |-> m.certificate.scts]

EntityOf(b, e, data, S) ==
  /\ \E s \in S : SignedBy(b, e, data, s)
  /\ \E s \in S : e.key = KeyFrom(s)
  /\ IsList(e.entries) /\ \A k \in DOMAIN e.entries : \E s \in S : About(e.entries[k], s)
  /\ IsList(e.tsts) /\ \A k \in DOMAIN e.tsts : \E s \in S : StampOf(e.tsts[k], s)

LEMMA KeyReadBack ==
  ASSUME NEW s \in Signings \cup Others
  PROVE  keyOf(toKeyContent(Signature(s).key, Chain(s))) = KeyFrom(s)
<1> DEFINE m == s.signer.material
<1>1. Signature(s).key = m
  BY DEF Signature
<1>2. m.case \in {"x509Certificate", "publicKey"}
  BY SigningsAssumption
<1> HIDE DEF m
<1>3. ASSUME NEW chain PROVE keyOf(toKeyContent(m, chain)) =
        IF m.case = "publicKey" THEN [case |-> "public-key", hint |-> m.hint]
        ELSE [case |-> "certificate", cert |-> m.certificate.cert,
              identity |-> m.certificate.identity, scts |-> m.certificate.scts]
  BY <1>2 DEF keyOf, toKeyContent
<1> QED BY <1>1, <1>3, Zenon DEF KeyFrom, m

LEMMA OneOfMember ==
  ASSUME NEW obj, NEW names, DOMAIN names \subseteq 1 .. 3
  PROVE  \/ OneOf(obj, names) = Absent /\ \A k \in DOMAIN names : names[k] \notin DOMAIN obj
         \/ \E k \in DOMAIN names : names[k] \in DOMAIN obj /\ OneOf(obj, names) = obj[names[k]]
<1> DEFINE there == {k \in DOMAIN names : names[k] \in DOMAIN obj}
           first == CHOOSE k \in there : \A i \in there : k <= i
<1>1. CASE there = {}
  BY <1>1 DEF OneOf
<1>2. CASE there # {}
  <2>1. there \subseteq 1 .. 3
    OBVIOUS
  <2>2. \E k \in there : \A i \in there : k <= i
    <3> HIDE DEF there
    <3>1. CASE 1 \in there
      BY <2>1, <3>1
    <3>2. CASE 1 \notin there /\ 2 \in there
      BY <2>1, <3>2
    <3>3. CASE 1 \notin there /\ 2 \notin there
      <4>1. \A i \in there : i = 3
        BY <2>1, <3>3
      <4>2. 3 \in there /\ 3 <= 3
        BY <1>2, <4>1
      <4> QED BY <4>1, <4>2
    <3> QED BY <3>1, <3>2, <3>3
  <2>3. first \in there
    <3> HIDE DEF there
    <3> QED BY <2>2
  <2>4. OneOf(obj, names) = obj[names[first]]
    BY <1>2 DEF OneOf
  <2> HIDE DEF first
  <2> QED BY <2>3, <2>4
<1> QED BY <1>1, <1>2

LEMMA ContentReadBack ==
  ASSUME NEW S \in SUBSET (Signings \cup Others), NEW j, BundleOf(j, S), NEW data,
         fromJSON(j).content # Absent, NEW b, b.content = fromJSON(j).content,
         NEW e, e.artifact = signatureContent(b.content, data).artifact,
         e.sig = signatureContent(b.content, data).sig
  PROVE  \E s \in S : SignedBy(b, e, data, s)
<1> DEFINE names == <<"messageSignature", "dsseEnvelope">>
<1>1. fromJSON(j).content = OneOf(j, names)
  BY DEF fromJSON
<1>2. DOMAIN names \subseteq 1 .. 3 /\ \A k \in DOMAIN names : names[k] \in ContentMembers
  BY DEF ContentMembers
<1> HIDE DEF names
<1>3. PICK n \in (DOMAIN j) \cap ContentMembers : b.content = j[n]
  BY <1>1, <1>2, OneOfMember
<1>4. PICK s \in S : n = CaseOf(s) /\ j[n] = createBundleBuilder(s).content
  BY <1>3 DEF BundleOf
<1>5. b.content = createBundleBuilder(s).content
  BY <1>3, <1>4
<1>6. CASE s.call = "sign"
  <2>1. createBundleBuilder(s).content =
          [case |-> "messageSignature", messageDigest |-> digest(s.artifact.data),
           signature |-> Signature(s).sig]
    BY <1>6 DEF createBundleBuilder, toMessageSignatureBundle, Packed
  <2> QED BY <1>5, <1>6, <2>1 DEF SignedBy, signatureContent
<1>7. CASE s.call # "sign"
  <2>1. createBundleBuilder(s).content =
          [case |-> "dsseEnvelope", payloadType |-> s.artifact.type, payload |-> s.artifact.data,
           signatures |-> <<[sig |-> Signature(s).sig,
                             keyid |-> IF Signature(s).key.case = "publicKey"
                                       THEN Signature(s).key.hint ELSE Empty]>>]
    BY <1>7 DEF createBundleBuilder, toDSSEBundle, Packed
  <2> QED BY <1>5, <1>7, <2>1 DEF SignedBy, signatureContent
<1> QED BY <1>6, <1>7

LEMMA MaterialReadBack ==
  ASSUME NEW S \in SUBSET (Signings \cup Others), NEW j, BundleOf(j, S), NEW m,
         fromJSON(j).material = m, m # Absent, m.content # Absent
  PROVE  /\ \E s \in S : keyOf(m.content) = KeyFrom(s)
         /\ IsList(m.tlogEntries) /\ \A k \in DOMAIN m.tlogEntries : \E s \in S : EntryOf(m.tlogEntries[k], s)
         /\ IsList(m.rfc3161Timestamps)
         /\ \A k \in DOMAIN m.rfc3161Timestamps : \E s \in S : StampOf(m.rfc3161Timestamps[k], s)
<1> DEFINE vm == Member(j, "verificationMaterial", Absent)
           names == <<"publicKey", "x509CertificateChain", "certificate">>
<1>1. vm # Absent /\ m = [content |-> OneOf(vm, names),
                         tlogEntries |-> Member(vm, "tlogEntries", <<>>),
                         rfc3161Timestamps |-> Member(vm, "rfc3161Timestamps", <<>>)]
  BY DEF fromJSON
<1>2. MaterialOf(vm, S)
  BY <1>1 DEF BundleOf, Member
<1>3. DOMAIN names \subseteq 1 .. 3 /\ \A k \in DOMAIN names : names[k] \in KeyMembers
  BY DEF KeyMembers
<1> HIDE DEF vm, names
<1>4. /\ m.content = OneOf(vm, names)
      /\ m.tlogEntries = Member(vm, "tlogEntries", <<>>)
      /\ m.rfc3161Timestamps = Member(vm, "rfc3161Timestamps", <<>>)
  BY <1>1
<1>5. \E s \in S : keyOf(m.content) = KeyFrom(s)
  <2>1. PICK n \in (DOMAIN vm) \cap KeyMembers : m.content = vm[n]
    BY <1>3, <1>4, OneOfMember
  <2>2. PICK s \in S : vm[n] = toKeyContent(Signature(s).key, Chain(s))
    BY <1>2, <2>1 DEF MaterialOf
  <2>3. s \in Signings \cup Others
    OBVIOUS
  <2>4. keyOf(toKeyContent(Signature(s).key, Chain(s))) = KeyFrom(s)
    BY <2>3, KeyReadBack
  <2> QED BY <2>1, <2>2, <2>4
<1>6. /\ IsList(m.tlogEntries)
      /\ \A k \in DOMAIN m.tlogEntries : \E s \in S : EntryOf(m.tlogEntries[k], s)
  <2>1. CASE "tlogEntries" \in DOMAIN vm
    <3>1. m.tlogEntries = vm.tlogEntries
      BY <1>4, <2>1 DEF Member
    <3> QED BY <1>2, <2>1, <3>1 DEF MaterialOf
  <2>2. CASE "tlogEntries" \notin DOMAIN vm
    <3>1. m.tlogEntries = <<>>
      BY <1>4, <2>2 DEF Member
    <3> QED BY <3>1 DEF IsList
  <2> QED BY <2>1, <2>2
<1>7. /\ IsList(m.rfc3161Timestamps)
      /\ \A k \in DOMAIN m.rfc3161Timestamps : \E s \in S : StampOf(m.rfc3161Timestamps[k], s)
  <2>1. CASE "rfc3161Timestamps" \in DOMAIN vm
    <3>1. m.rfc3161Timestamps = vm.rfc3161Timestamps
      BY <1>4, <2>1 DEF Member
    <3> QED BY <1>2, <2>1, <3>1 DEF MaterialOf
  <2>2. CASE "rfc3161Timestamps" \notin DOMAIN vm
    <3>1. m.rfc3161Timestamps = <<>>
      BY <1>4, <2>2 DEF Member
    <3> QED BY <3>1 DEF IsList
  <2> QED BY <2>1, <2>2
<1> QED BY <1>5, <1>6, <1>7

(* A valid bundle has its content, its material and a key.                  *)
LEMMA ValidParts ==
  ASSUME NEW b, invalidValues(b) = {}
  PROVE  b.content # Absent /\ b.material # Absent /\ b.material.content # Absent
<1>1. validateBundleBase(b) = {}
  BY DEF invalidValues
<1>2. InvalidContent(b.content) = {}
  BY <1>1 DEF validateBundleBase
<1>3. b.material # Absent
  BY <1>1 DEF validateBundleBase
<1>4. InvalidKey(b.material.content) = {}
  BY <1>1, <1>3 DEF validateBundleBase
<1> QED BY <1>2, <1>3, <1>4 DEF InvalidContent, InvalidKey

LEMMA EntityReadBack ==
  ASSUME NEW S \in SUBSET (Signings \cup Others), NEW j, BundleOf(j, S), NEW data,
         invalidValues(fromJSON(j)) = {}
  PROVE  EntityOf(fromJSON(j), toSignedEntity(fromJSON(j), data), data, S)
<1> DEFINE b == fromJSON(j)
           m == b.material
           e == toSignedEntity(b, data)
           Entry(x) == [log |-> x.log, time |-> x.time, body |-> x.body,
                        promise |-> x.promise, proof |-> x.proof,
                        kind |-> x.kindVersion.kind, version |-> x.kindVersion.version]
<1>1. b.content # Absent /\ m # Absent /\ m.content # Absent
  BY ValidParts
<1>2. /\ \E s \in S : keyOf(m.content) = KeyFrom(s)
      /\ IsList(m.tlogEntries) /\ \A k \in DOMAIN m.tlogEntries : \E s \in S : EntryOf(m.tlogEntries[k], s)
      /\ IsList(m.rfc3161Timestamps)
      /\ \A k \in DOMAIN m.rfc3161Timestamps : \E s \in S : StampOf(m.rfc3161Timestamps[k], s)
  BY <1>1, MaterialReadBack
<1> HIDE DEF b, m
<1>3. /\ e.artifact = signatureContent(b.content, data).artifact
      /\ e.sig = signatureContent(b.content, data).sig
      /\ e.key = keyOf(m.content) /\ e.tsts = m.rfc3161Timestamps
      /\ e.entries = [k \in DOMAIN m.tlogEntries |-> Entry(m.tlogEntries[k])]
  BY DEF toSignedEntity, m
<1> HIDE DEF e
<1>4. \E s \in S : SignedBy(b, e, data, s)
  BY <1>1, <1>3, ContentReadBack DEF b
<1>5. IsList(e.entries) /\ \A k \in DOMAIN e.entries : \E s \in S : About(e.entries[k], s)
  <2>1. CASE m.tlogEntries = <<>>
    BY <1>3, <2>1 DEF IsList
  <2>2. CASE m.tlogEntries # <<>>
    <3>1. m.tlogEntries = <<m.tlogEntries[1]>>
      BY <1>2, <2>2 DEF IsList
    <3> DEFINE x == m.tlogEntries[1]
    <3>2. DOMAIN m.tlogEntries = {1}
      BY <3>1
    <3>3. PICK s \in S : EntryOf(x, s)
      BY <1>2, <3>2
    <3> HIDE DEF x
    <3>4. e.entries = [k \in {1} |-> Entry(x)]
      BY <1>3, <3>2 DEF x
    <3> DEFINE y == Entry(x)
    <3>5. About(y, s)
      BY <3>3 DEF EntryOf, About
    <3> HIDE DEF y
    <3>6. e.entries = <<y>>
      BY <3>4 DEF y
    <3> QED BY <3>5, <3>6 DEF IsList
  <2> QED BY <2>1, <2>2
<1> QED BY <1>2, <1>3, <1>4, <1>5 DEF EntityOf, b, e

-----------------------------------------------------------------------------
(* The invariant: what is kept and what is verified is of the signing and of  *)
(* the one that it was mixed with, and what is past a check has passed it.   *)
Signers == {signing} \cup altered

Stamps == {V!Timestamp(k) : k \in {i \in 1 .. V!Timestamps : V!TimestampError(i) = ""}}

KeyGiven == IF entity.key.case = "certificate" THEN entity.key.cert.key ELSE how.keys[entity.key.hint]

Stages ==
  {"signing", "stored", "invalid", "timestamps", "key", "tlogs", "signature", "policy", "accepted", "rejected"}

Setting ==
  /\ signing \in Signings /\ how \in Verifications
  /\ altered = {} \/ \E s \in Others : altered = {s}
  /\ root = [TrustedRoot EXCEPT !.keys = createKeyFinder(how.keys)]

Kept ==
  /\ BundleOf(json, Signers)
  /\ altered = {} => json = bundleToJSON(Created(signing))

Passed ==
  /\ EntityOf(Read, entity, how.data, Signers)
  /\ verified \in Seq(Stamps)
  /\ stage \in {"tlogs", "signature", "policy", "accepted"} =>
       (entity.key.case = "public-key" => entity.key.hint \in DOMAIN how.keys)
  /\ stage \in {"signature", "policy", "accepted"} =>
       \A k \in DOMAIN entity.entries : entity.entries[k].body.sigs[1] = entity.sig
  /\ stage \in {"policy", "accepted"} => entity.sig = [by |-> KeyGiven, over |-> entity.artifact]

RoundInv ==
  /\ Setting /\ stage \in Stages
  /\ stage = "signing" => altered = {}
  /\ stage \in {"signing", "stored"} => verified = <<>>
  /\ stage # "signing" => Kept
  /\ stage = "invalid" => invalidValues(Read) # {}
  /\ stage \notin {"signing", "stored", "invalid"} => Passed

LEMMA InitInv == Init => RoundInv
BY DEF Init, RoundInv, Setting, Stages

LEMMA SignersAre == ASSUME Setting PROVE Signers \in SUBSET (Signings \cup Others)
BY DEF Setting, Signers

LEMMA SignInv == ASSUME RoundInv, Sign PROVE RoundInv'
<1>1. Setting' /\ stage' = "stored" /\ verified' = <<>> /\ altered' = {} /\ signing' = signing
  BY DEF RoundInv, Setting, Sign
<1>2. json' = bundleToJSON(Created(signing)) /\ signing \in Signings \cup Others
  BY DEF Sign, RoundInv, Setting
<1>3. Signers' = {signing}
  BY <1>1 DEF Signers
<1>4. Kept'
  <2>1. BundleOf(json', Signers')
    BY <1>2, <1>3, JSONOf
  <2>2. json' = bundleToJSON(Created(signing))'
    BY <1>1, <1>2
  <2> QED BY <2>1, <2>2 DEF Kept
<1> QED BY <1>1, <1>4 DEF RoundInv, Stages

LEMMA AlterInv == ASSUME RoundInv, Alter PROVE RoundInv'
<1>1. PICK s \in Others :
        /\ \/ json' \in Mixed(json, bundleToJSON(Created(s)))
           \/ json.verificationMaterial.tlogEntries # <<>> /\ json' \in Entrywise(json)
        /\ altered' = {s}
  BY DEF Alter
<1>2. /\ stage = "stored" /\ stage' = "stored" /\ altered = {} /\ verified' = <<>>
      /\ signing' = signing /\ Setting' /\ signing \in Signings
  BY <1>1 DEF Alter, RoundInv, Setting
<1>3. Signers' = {signing, s}
  BY <1>1, <1>2 DEF Signers
<1>4. Kept
  BY <1>2 DEF RoundInv
<1>5. json = bundleToJSON(Created(signing)) /\ BundleOf(json, {signing})
  BY <1>2, <1>4, JSONOf DEF Kept
<1>6. /\ "verificationMaterial" \in DOMAIN json
      /\ "tlogEntries" \in DOMAIN json.verificationMaterial
      /\ json.verificationMaterial.tlogEntries = tlogEntries(signing)
  <2>1. signing \in Signings \cup Others
    BY <1>2
  <2> QED BY <1>5, <2>1, JSONParts, Zenon
<1>7. BundleOf(json, {signing, s})
  BY <1>5, OfMore
<1>8. ASSUME json' \in Mixed(json, bundleToJSON(Created(s)))
      PROVE  BundleOf(json', {signing, s})
  <2> DEFINE b == bundleToJSON(Created(s))
  <2>1. BundleOf(b, {s}) /\ "verificationMaterial" \in DOMAIN b
    <3>1. s \in Signings \cup Others
      OBVIOUS
    <3> QED BY <3>1, JSONOf, JSONParts, Zenon
  <2> HIDE DEF b
  <2>2. BundleOf(b, {signing, s})
    BY <2>1, OfMore
  <2>3. json' \in Mixed(json, b)
    BY <1>8 DEF b
  <2> QED BY <1>6, <1>7, <2>1, <2>2, <2>3, MixedOf
<1>9. ASSUME json.verificationMaterial.tlogEntries # <<>>, json' \in Entrywise(json)
      PROVE  BundleOf(json', {signing, s})
  <2>1. PICK e : json.verificationMaterial.tlogEntries = <<e>>
    <3>1. signing \in Signings \cup Others
      BY <1>2
    <3>2. IsList(tlogEntries(signing))
      BY <3>1, WitnessesOf
    <3> QED BY <1>6, <1>9, <3>2 DEF IsList
  <2> QED BY <1>6, <1>7, <1>9, <2>1, EntrywiseOf
<1>10. BundleOf(json', Signers')
  BY <1>1, <1>3, <1>8, <1>9
<1>11. Kept'
  BY <1>1, <1>10 DEF Kept
<1> QED BY <1>2, <1>11 DEF RoundInv, Stages

LEMMA DeserializeInv == ASSUME RoundInv, Deserialize PROVE RoundInv'
<1>1. /\ stage = "stored" /\ UNCHANGED <<signing, json, altered, how, root, verified>>
      /\ Setting /\ verified = <<>> /\ Kept
  BY DEF RoundInv, Deserialize
<1>2. Setting' /\ Kept' /\ Signers' = Signers /\ Read' = Read
  BY <1>1 DEF Setting, Kept, Signers, Read
<1>3. CASE invalidValues(Read) # {}
  <2>1. stage' = "invalid"
    BY <1>3 DEF Deserialize, Read
  <2> QED BY <1>2, <1>3, <2>1 DEF RoundInv, Stages
<1>4. CASE invalidValues(Read) = {}
  <2>1. stage' = "timestamps" /\ entity' = toSignedEntity(Read, how.data)
    BY <1>4 DEF Deserialize, Read
  <2>2. EntityOf(Read, entity', how.data, Signers)
    BY <1>1, <1>4, <2>1, SignersAre, EntityReadBack DEF Kept, Read
  <2>3. Passed'
    BY <1>1, <1>2, <2>1, <2>2 DEF Passed
  <2> QED BY <1>2, <2>1, <2>3 DEF RoundInv, Stages
<1> QED BY <1>3, <1>4

-----------------------------------------------------------------------------
(* The checks.                                                             *)
LEMMA TrustIsSame == ASSUME root' = root PROVE V!trust' = V!trust
BY DEF V!trust, V!toTrustMaterial, V!createTLogAuthority, V!createCertAuthority, V!keyLocator

LEMMA StampsAreSame == ASSUME root' = root, entity' = entity PROVE Stamps' = Stamps
<1>1. ASSUME NEW e PROVE V!TLogError(e)' = V!TLogError(e)
  <2>1. V!PromiseHolds(e)' <=> V!PromiseHolds(e)
    BY TrustIsSame DEF V!PromiseHolds
  <2>2. V!CheckpointHolds(e)' <=> V!CheckpointHolds(e)
    BY TrustIsSame DEF V!CheckpointHolds
  <2>3. V!ProofUnread(e)' <=> V!ProofUnread(e)
    BY DEF V!ProofUnread, V!Unread, V!MerkleHolds
  <2> QED BY <2>1, <2>2, <2>3 DEF V!TLogError
<1>2. ASSUME NEW t PROVE V!TSAError(t)' = V!TSAError(t)
  BY TrustIsSame DEF V!TSAError
<1>3. ASSUME NEW k PROVE V!TimestampError(k)' = V!TimestampError(k) /\ V!Timestamp(k)' = V!Timestamp(k)
  BY <1>1, <1>2 DEF V!TimestampError, V!Timestamp
<1>4. V!Timestamps' = V!Timestamps
  BY DEF V!Timestamps
<1> QED BY <1>3, <1>4 DEF Stamps

LEMMA TrustedKeys ==
  ASSUME Setting
  PROVE  /\ DOMAIN V!trust.keys = DOMAIN how.keys
         /\ \A hint \in DOMAIN how.keys : V!trust.keys[hint].key = how.keys[hint]
<1>1. root.keys = createKeyFinder(how.keys)
  BY SigningsAssumption DEF Setting
<1>2. V!trust.keys = V!keyLocator(root.keys)
  BY DEF V!trust, V!toTrustMaterial
<1>3. /\ DOMAIN root.keys = DOMAIN how.keys
      /\ \A hint \in DOMAIN how.keys : root.keys[hint].key = how.keys[hint]
  BY <1>1 DEF createKeyFinder
<1> QED BY <1>2, <1>3 DEF V!keyLocator

(* A step of the verifier: what has been created and kept is as it was.     *)
LEMMA VerifyKeeps ==
  ASSUME RoundInv, Verify, UNCHANGED <<entity, root, options>>
  PROVE  /\ Setting' /\ Kept' /\ Signers' = Signers /\ Read' = Read
         /\ KeyGiven' = KeyGiven /\ Stamps' = Stamps
         /\ stage \notin {"signing", "stored", "invalid"} /\ Setting /\ Passed
<1>1. UNCHANGED <<signing, json, altered, how>>
  BY DEF Verify
<1>2. stage \in {"timestamps", "key", "tlogs", "signature", "policy"}
  BY DEF Verify, V!Next, V!VerifyTimestamp, V!CountTimestamps, V!VerifySigningKey, V!VerifyTLogs,
         V!VerifySignature, V!VerifyPolicy, V!Check
<1>3. Setting /\ Kept /\ Passed
  BY <1>2 DEF RoundInv
<1>4. Setting' /\ Kept' /\ Signers' = Signers /\ Read' = Read
  BY <1>1, <1>3 DEF Setting, Kept, Signers, Read
<1>5. KeyGiven' = KeyGiven
  BY <1>1 DEF KeyGiven
<1> QED BY <1>2, <1>3, <1>4, <1>5, StampsAreSame

(* What is proved about the verifier that needs no call of it.              *)
Checks == INSTANCE VerifyBundle_proofs WITH Calls <- {}, None <- Absent

LEMMA NoCalls ==
  Checks!TimeAssumption /\ Checks!ThresholdsAssumption /\ Checks!EntityAssumption /\ Checks!RootAssumption
BY ServicesAssumption DEF Checks!TimeAssumption, Checks!ThresholdsAssumption, Checks!EntityAssumption,
                          Checks!RootAssumption

LEMMA FirstIs == ASSUME NEW S \in SUBSET Nat, S # {} PROVE V!First(S) \in S
BY NoCalls, Checks!LeastNumber DEF V!First

LEMMA FirstOfOne == V!First({1}) = 1
<1>1. {1} \in SUBSET Nat /\ {1} # {}
  OBVIOUS
<1> QED BY <1>1, FirstIs

(* A bundle has one entry, if any.                                         *)
LEMMA ListDomain == ASSUME NEW x, IsList(x) PROVE DOMAIN x \subseteq {1}
<1>1. CASE x = <<>>
  <2>1. x \in Seq({}) /\ Len(x) = 0
    BY <1>1
  <2>2. DOMAIN x = 1 .. 0
    BY <2>1
  <2> QED BY <2>2
<1>2. CASE x # <<>>
  <2> DEFINE y == x[1]
  <2>1. x = <<y>>
    BY <1>2 DEF IsList
  <2> HIDE DEF y
  <2>2. x \in Seq({y}) /\ Len(x) = 1
    BY <2>1
  <2>3. DOMAIN x = 1 .. 1
    BY <2>2
  <2> QED BY <2>3
<1> QED BY <1>1, <1>2

LEMMA BodiesHold ==
  ASSUME IsList(entity.entries), V!BodiesError = ""
  PROVE  \A k \in DOMAIN entity.entries : V!BodyHolds(entity.entries[k])
<1> DEFINE bad == {k \in DOMAIN entity.entries : V!BodyError(entity.entries[k]) # ""}
<1>1. bad = {} \/ bad = {1}
  <2>1. DOMAIN entity.entries \subseteq {1}
    BY ListDomain
  <2> QED BY <2>1
<1>2. CASE bad = {1}
  <2>1. V!First(bad) = 1
    BY <1>2, FirstOfOne, Zenon
  <2>2. V!BodiesError = V!BodyError(entity.entries[1])
    <3> HIDE DEF bad
    <3>1. V!BodiesError = IF bad = {} THEN "" ELSE V!BodyError(entity.entries[V!First(bad)])
      BY DEF V!BodiesError, bad
    <3> QED BY <1>2, <2>1, <3>1
  <2>3. V!BodyError(entity.entries[1]) # ""
    BY <1>2
  <2> QED BY <2>2, <2>3
<1>3. CASE bad = {}
  BY <1>3 DEF V!BodyError
<1> QED BY <1>1, <1>2, <1>3

LEMMA VerifyInv == ASSUME RoundInv, Verify PROVE RoundInv'
<1>1. UNCHANGED <<signing, json, altered, how>> /\ UNCHANGED <<entity, root, options>>
  BY DEF Verify, V!Next, V!VerifyTimestamp, V!CountTimestamps, V!VerifySigningKey, V!VerifyTLogs,
         V!VerifySignature, V!VerifyPolicy, V!Check, V!Throw
<1>2. /\ Setting' /\ Kept' /\ Signers' = Signers /\ Read' = Read
      /\ KeyGiven' = KeyGiven /\ Stamps' = Stamps
      /\ stage \notin {"signing", "stored", "invalid"} /\ Setting /\ Passed
  BY <1>1, VerifyKeeps
<1>3. EntityOf(Read, entity, how.data, Signers)' /\ verified \in Seq(Stamps)
  BY <1>1, <1>2 DEF Passed
<1>4. ASSUME verified' = verified, stage' \in {"key", "rejected"} PROVE RoundInv'
  <2>1. Passed'
    BY <1>1, <1>2, <1>3, <1>4 DEF Passed
  <2> QED BY <1>2, <1>4, <2>1 DEF RoundInv, Stages
<1>5. ASSUME V!VerifyTimestamp PROVE RoundInv'
  <2> DEFINE n == Len(verified)
  <2>1. stage = "timestamps" /\ n + 1 <= V!Timestamps
    BY <1>5 DEF V!VerifyTimestamp
  <2>2. CASE V!TimestampError(n + 1) # ""
    BY <1>4, <1>5, <2>2 DEF V!VerifyTimestamp, V!Throw
  <2>3. CASE V!TimestampError(n + 1) = ""
    <3>1. verified' = Append(verified, V!Timestamp(n + 1)) /\ stage' = stage
      BY <1>5, <2>3 DEF V!VerifyTimestamp
    <3>2. n \in Nat
      BY <1>3
    <3>3. n + 1 \in 1 .. V!Timestamps
      <4> HIDE DEF n
      <4> QED BY <2>1, <3>2
    <3>4. V!Timestamp(n + 1) \in Stamps
      BY <2>3, <3>3 DEF Stamps
    <3>5. verified' \in Seq(Stamps)
      BY <1>3, <3>1, <3>4
    <3>6. Passed'
      BY <1>2, <1>3, <2>1, <3>1, <3>5 DEF Passed
    <3> QED BY <1>2, <2>1, <3>1, <3>6 DEF RoundInv, Stages
  <2> QED BY <2>2, <2>3
<1>6. ASSUME V!CountTimestamps PROVE RoundInv'
  BY <1>4, <1>6 DEF V!CountTimestamps, V!Check, V!Throw
<1>7. ASSUME V!VerifySigningKey PROVE RoundInv'
  <2>1. CASE V!KeyError # ""
    BY <1>4, <1>7, <2>1 DEF V!VerifySigningKey, V!Check, V!Throw
  <2>2. CASE V!KeyError = ""
    <3>1. stage = "key" /\ stage' = "tlogs" /\ verified' = verified
      BY <1>7, <2>2 DEF V!VerifySigningKey, V!Check
    <3>2. entity.key.case = "public-key" => entity.key.hint \in DOMAIN V!trust.keys
      BY <2>2 DEF V!KeyError
    <3>3. entity.key.case = "public-key" => entity.key.hint \in DOMAIN how.keys
      BY <1>2, <3>2, TrustedKeys
    <3>4. Passed'
      BY <1>1, <1>2, <1>3, <3>1, <3>3 DEF Passed
    <3> QED BY <1>2, <3>1, <3>4 DEF RoundInv, Stages
  <2> QED BY <2>1, <2>2
<1>8. ASSUME V!VerifyTLogs PROVE RoundInv'
  <2>1. CASE V!BodiesError = ""
    <3>1. stage = "tlogs" /\ stage' = "signature" /\ verified' = verified
      BY <1>8, <2>1 DEF V!VerifyTLogs, V!Check
    <3>4. IsList(entity.entries)
      BY <1>2, <3>1 DEF Passed, EntityOf
    <3>2. \A k \in DOMAIN entity.entries : entity.entries[k].body.sigs[1] = entity.sig
      BY <2>1, <3>4, BodiesHold DEF V!BodyHolds, V!verifyDSSETLogBody,
         V!verifyHashedRekordTLogBody, V!verifyIntotoTLogBody, V!SpeaksOf
    <3>3. Passed'
      BY <1>1, <1>2, <1>3, <3>1, <3>2 DEF Passed
    <3> QED BY <1>2, <3>1, <3>3 DEF RoundInv, Stages
  <2>2. CASE V!BodiesError # ""
    BY <1>4, <1>8, <2>2 DEF V!VerifyTLogs, V!Check, V!Throw
  <2> QED BY <2>1, <2>2
<1>9. ASSUME V!VerifySignature PROVE RoundInv'
  <2>1. CASE V!MadeBy(entity.sig, V!SignerKey, entity.artifact)
    <3>1. stage = "signature" /\ stage' = "policy" /\ verified' = verified
      BY <1>9, <2>1 DEF V!VerifySignature, V!Check
    <3>2. entity.key.case = "certificate" \/ entity.key.hint \in DOMAIN how.keys
      <4>1. \E s \in Signers : entity.key = KeyFrom(s)
        BY <1>2 DEF Passed, EntityOf
      <4>2. entity.key.case \in {"public-key", "certificate"}
        BY <4>1 DEF KeyFrom
      <4> QED BY <1>2, <3>1, <4>2 DEF Passed
    <3>3. V!SignerKey = KeyGiven
      BY <1>2, <3>2, TrustedKeys DEF V!SignerKey, KeyGiven
    <3>4. entity.sig = [by |-> KeyGiven, over |-> entity.artifact]
      BY <2>1, <3>3 DEF V!MadeBy
    <3>5. Passed'
      BY <1>1, <1>2, <1>3, <3>1, <3>4 DEF Passed
    <3> QED BY <1>2, <3>1, <3>5 DEF RoundInv, Stages
  <2>2. CASE ~ V!MadeBy(entity.sig, V!SignerKey, entity.artifact)
    BY <1>4, <1>9, <2>2 DEF V!VerifySignature, V!Check, V!Throw
  <2> QED BY <2>1, <2>2
<1>10. ASSUME V!VerifyPolicy PROVE RoundInv'
  <2>1. CASE stage' = "accepted"
    <3>1. stage = "policy" /\ verified' = verified
      BY <1>10, <2>1 DEF V!VerifyPolicy, V!Check, V!Throw
    <3>2. Passed'
      BY <1>1, <1>2, <1>3, <2>1, <3>1 DEF Passed
    <3> QED BY <1>2, <2>1, <3>2 DEF RoundInv, Stages
  <2>2. CASE stage' # "accepted"
    BY <1>4, <1>10, <2>2 DEF V!VerifyPolicy, V!Check, V!Throw
  <2> QED BY <2>1, <2>2
<1> QED BY <1>5, <1>6, <1>7, <1>8, <1>9, <1>10 DEF Verify, V!Next

LEMMA NextInv == ASSUME RoundInv, [Next]_vars PROVE RoundInv'
<1>1. CASE UNCHANGED vars
  <2>1. /\ UNCHANGED <<signing, json, altered, how>>
        /\ UNCHANGED <<stage, entity, root, options, verified, error>>
    BY <1>1 DEF vars, V!vars
  <2>2. /\ Setting' = Setting /\ Kept' = Kept /\ Signers' = Signers /\ Read' = Read
        /\ KeyGiven' = KeyGiven /\ Stamps' = Stamps
    BY <2>1, StampsAreSame DEF Setting, Kept, Signers, Read, KeyGiven
  <2>3. Passed' = Passed
    BY <2>1, <2>2 DEF Passed
  <2> QED BY <2>1, <2>2, <2>3 DEF RoundInv
<1> QED BY <1>1, SignInv, AlterInv, DeserializeInv, VerifyInv DEF Next

LEMMA AlwaysRoundInv == Spec => []RoundInv
BY InitInv, NextInv, PTL DEF Spec

-----------------------------------------------------------------------------
(* What is accepted.                                                       *)
LEMMA WhoSigned ==
  ASSUME RoundInv, stage = "accepted", NEW s \in Signers, SignedBy(Read, entity, how.data, s)
  PROVE  /\ V!Identity = IF s.signer.material.case = "publicKey" THEN [san |-> <<>>, issuer |-> <<>>]
                         ELSE s.signer.material.certificate.identity
         /\ s.call = "sign" => how.data = s.artifact.data
<1>1. Setting /\ Passed
  BY DEF RoundInv
<1>2. Signature(s).sig = [by |-> KeyGiven, over |-> entity.artifact]
  BY <1>1 DEF Passed, SignedBy
<1>3. s.signer.key = KeyGiven /\ prepare(CaseOf(s), s.artifact) = entity.artifact
  BY <1>2 DEF Signature
<1>4. PICK r \in Signers : entity.key = KeyFrom(r)
  BY <1>1 DEF Passed, EntityOf
<1>5. s \in Signings \cup Others /\ r \in Signings \cup Others /\ how \in Verifications
  BY <1>1, SignersAre DEF Setting
<1>6. CASE r.signer.material.case = "publicKey"
  <2>1. entity.key.case = "public-key"
    BY <1>4, <1>6 DEF KeyFrom
  <2>2. entity.key.hint \in DOMAIN how.keys /\ KeyGiven = how.keys[entity.key.hint]
    BY <1>1, <2>1 DEF Passed, KeyGiven
  <2>3. s.signer.material.case = "publicKey"
    BY <1>3, <1>5, <2>2, SignersAssumption, Zenon
  <2>4. V!Identity = [san |-> <<>>, issuer |-> <<>>]
    BY <2>1 DEF V!Identity
  <2>5. s.call = "sign" => how.data = s.artifact.data
    BY <1>3 DEF SignedBy, CaseOf, prepare
  <2> QED BY <2>3, <2>4, <2>5
<1>7. CASE r.signer.material.case # "publicKey"
  <2>1. r.signer.material.case = "x509Certificate"
    BY <1>5, <1>7, SigningsAssumption, Zenon
  <2>2. /\ entity.key.case = "certificate"
        /\ entity.key.cert.key = r.signer.material.certificate.cert.key
        /\ entity.key.identity = r.signer.material.certificate.identity
    BY <1>4, <1>7 DEF KeyFrom
  <2>3. s.signer.key = r.signer.material.certificate.cert.key
    BY <1>3, <2>2 DEF KeyGiven
  <2>4. /\ s.signer.material.case = "x509Certificate"
        /\ s.signer.material.certificate.identity = r.signer.material.certificate.identity
    BY <1>5, <2>1, <2>3, SignersAssumption, Zenon
  <2>5. V!Identity = s.signer.material.certificate.identity
    BY <2>2, <2>4 DEF V!Identity
  <2>6. s.call = "sign" => how.data = s.artifact.data
    BY <1>3 DEF SignedBy, CaseOf, prepare
  <2> QED BY <2>4, <2>5, <2>6
<1> QED BY <1>6, <1>7

(* A signature tells its signing.                                          *)
LEMMA SignatureTells ==
  ASSUME Setting, NEW s \in Signers, NEW r \in Signers, Signature(s).sig = Signature(r).sig
  PROVE  r = s
<1>1. CASE altered = {}
  BY <1>1 DEF Signers
<1>2. CASE \E o \in Others : altered = {o}
  <2>1. PICK o \in Others : altered = {o}
    BY <1>2
  <2>2. signing # o => Signature(signing).sig # Signature(o).sig
    <3> SUFFICES ASSUME signing # o, Signature(signing).sig = Signature(o).sig PROVE FALSE
      OBVIOUS
    <3> DEFINE Matter(x) == <<x.signer.key, IF x.call = "sign" THEN x.artifact.data ELSE x.artifact>>
    <3>1. signing \in Signings
      BY DEF Setting
    <3>2. ASSUME NEW x \in Signings \cup Others
          PROVE  Matter(x) = <<Signature(x).sig.by, Signature(x).sig.over>>
      <4>1. /\ x.call \in {"sign", "attest"}
            /\ x.artifact = [type |-> x.artifact.type, data |-> x.artifact.data]
        BY <3>2, SigningsAssumption, Zenon
      <4>2. prepare(CaseOf(x), x.artifact) = IF x.call = "sign" THEN x.artifact.data ELSE x.artifact
        BY <4>1 DEF prepare, preAuthEncoding, CaseOf
      <4> QED BY <4>2 DEF Signature
    <3>3. Matter(signing) = Matter(o)
      <4> HIDE DEF Matter
      <4> QED BY <3>1, <3>2
    <3>4. Matter(signing) # Matter(o)
      BY <3>1, SignaturesAssumption, Zenon
    <3> HIDE DEF Matter
    <3> QED BY <3>3, <3>4
  <2>3. s \in {signing, o} /\ r \in {signing, o}
    BY <2>1 DEF Signers
  <2> QED BY <2>2, <2>3
<1> QED BY <1>1, <1>2 DEF Setting

LEMMA WhenSigned ==
  ASSUME RoundInv, stage = "accepted", NEW s \in Signers, SignedBy(Read, entity, how.data, s)
  PROVE  {verified[k].time : k \in DOMAIN verified} \subseteq {s.log.time, s.tsa.time}
<1>1. Setting /\ Passed
  BY DEF RoundInv
<1>2. entity.sig = Signature(s).sig
  BY DEF SignedBy
<1>3. ASSUME NEW k \in DOMAIN entity.entries PROVE entity.entries[k].time = s.log.time
  <2>1. PICK r \in Signers : About(entity.entries[k], r)
    BY <1>1 DEF Passed, EntityOf
  <2>2. entity.entries[k].body.sigs[1] = entity.sig
    BY <1>1 DEF Passed
  <2>3. Signature(r).sig = Signature(s).sig
    BY <1>2, <2>1, <2>2 DEF About
  <2>4. r = s
    BY <1>1, <2>3, SignatureTells
  <2> QED BY <2>1, <2>4 DEF About
<1>4. ASSUME NEW k \in DOMAIN entity.tsts, V!TSAError(entity.tsts[k]) = ""
      PROVE  entity.tsts[k].info.time = s.tsa.time
  <2>1. PICK r \in Signers : StampOf(entity.tsts[k], r)
    BY <1>1 DEF Passed, EntityOf
  <2>2. entity.tsts[k].info.imprint = entity.sig
    BY <1>4 DEF V!TSAError, V!verifyTimestampForCA, V!TokenHolds, V!ImprintHolds
  <2>3. r = s
    BY <1>1, <1>2, <2>1, <2>2, SignatureTells DEF StampOf
  <2> QED BY <2>1, <2>3 DEF StampOf
<1>5. ASSUME NEW k \in 1 .. V!Timestamps, V!TimestampError(k) = ""
      PROVE  V!Timestamp(k).time \in {s.log.time, s.tsa.time}
  <2> DEFINE m == Len(entity.entries)
             n == Len(entity.tsts)
  <2>1. /\ m \in Nat /\ DOMAIN entity.entries = 1 .. m
        /\ n \in Nat /\ DOMAIN entity.tsts = 1 .. n
    BY <1>1 DEF Passed, EntityOf, IsList
  <2>2. V!Timestamps = m + n
    BY DEF V!Timestamps
  <2>3. CASE k <= m
    <3>1. V!Timestamp(k).time = entity.entries[k].time
      BY <2>3 DEF V!Timestamp
    <3>2. k \in DOMAIN entity.entries
      <4> HIDE DEF m
      <4> QED BY <2>1, <2>3
    <3> QED BY <1>3, <3>1, <3>2
  <2>4. CASE ~ (k <= m)
    <3> DEFINE i == k - m
    <3>1. V!Timestamp(k).time = entity.tsts[i].info.time /\ V!TSAError(entity.tsts[i]) = ""
      BY <1>5, <2>4 DEF V!Timestamp, V!TimestampError
    <3>2. i \in DOMAIN entity.tsts
      <4> HIDE DEF m, n
      <4> QED BY <2>1, <2>2, <2>4
    <3> HIDE DEF i
    <3> QED BY <1>4, <3>1, <3>2
  <2> QED BY <2>3, <2>4
<1>6. \A x \in Stamps : x.time \in {s.log.time, s.tsa.time}
  BY <1>5 DEF Stamps
<1>7. \A k \in DOMAIN verified : verified[k] \in Stamps
  BY <1>1 DEF Passed
<1> QED BY <1>6, <1>7

(* Whatever was lost or mixed up, what verify() accepts is one of the signings *)
(* as it was (AcceptedIsAsSigned): for any signings and options.            *)
THEOREM AcceptedIsASigning == Spec => []AcceptedIsAsSigned
<1>1. ASSUME RoundInv PROVE AcceptedIsAsSigned
  <2> SUFFICES ASSUME stage = "accepted"
               PROVE  \E s \in Signers :
                        /\ Read.content.case = CaseOf(s)
                        /\ IF s.call = "sign" THEN how.data = s.artifact.data
                           ELSE [type |-> Read.content.payloadType, data |-> Read.content.payload] = s.artifact
                        /\ V!Identity = IF s.signer.material.case = "publicKey" THEN [san |-> <<>>, issuer |-> <<>>]
                                        ELSE s.signer.material.certificate.identity
                        /\ {verified[k].time : k \in DOMAIN verified} \subseteq {s.log.time, s.tsa.time}
    BY DEF AcceptedIsAsSigned, Signers
  <2>1. Setting /\ Passed
    BY <1>1 DEF RoundInv
  <2>2. PICK s \in Signers : SignedBy(Read, entity, how.data, s)
    BY <2>1 DEF Passed, EntityOf
  <2>3. s \in Signings \cup Others
    BY <2>1, SignersAre
  <2>4. Read.content = createBundleBuilder(s).content
    BY <2>2 DEF SignedBy
  <2>5. Read.content.case = CaseOf(s)
    BY <2>3, <2>4, CreatedParts
  <2>6. s.call # "sign" =>
          [type |-> Read.content.payloadType, data |-> Read.content.payload] = s.artifact
    <3>1. s.artifact = [type |-> s.artifact.type, data |-> s.artifact.data]
      BY <2>3, SigningsAssumption, Zenon
    <3>2. s.call # "sign" =>
            /\ Read.content.payloadType = s.artifact.type
            /\ Read.content.payload = s.artifact.data
      BY <2>4 DEF createBundleBuilder, toDSSEBundle, Packed
    <3> QED BY <3>1, <3>2
  <2> QED BY <1>1, <2>2, <2>5, <2>6, WhoSigned, WhenSigned
<1> QED BY <1>1, AlwaysRoundInv, PTL

-----------------------------------------------------------------------------
(* What is created is read back as it was.                                 *)
LEMMA OneOfOnly ==
  ASSUME NEW obj, NEW names, DOMAIN names \subseteq 1 .. 3, NEW k \in DOMAIN names,
         names[k] \in DOMAIN obj, \A i \in DOMAIN names : names[i] \in DOMAIN obj => i = k
  PROVE  OneOf(obj, names) = obj[names[k]]
<1> DEFINE there == {i \in DOMAIN names : names[i] \in DOMAIN obj}
<1>1. there = {k}
  OBVIOUS
<1>2. (CHOOSE i \in {k} : \A j \in {k} : i <= j) = k
  <2>1. k \in 1 .. 3 /\ \A j \in {k} : k <= j
    OBVIOUS
  <2>2. \E i \in {k} : \A j \in {k} : i <= j
    BY <2>1
  <2>3. (CHOOSE i \in {k} : \A j \in {k} : i <= j) \in {k}
    BY <2>2
  <2> QED BY <2>3
<1> QED BY <1>1, <1>2 DEF OneOf

LEMMA ReadBack ==
  ASSUME NEW s \in Signings
  PROVE  LET b == fromJSON(bundleToJSON(Created(s)))
         IN  /\ b.mediaType = IF Chain(s) THEN "v0.2" ELSE "v0.3"
             /\ b.content = createBundleBuilder(s).content
             /\ b.material = [content |-> toKeyContent(Signature(s).key, Chain(s)),
                              tlogEntries |-> tlogEntries(s),
                              rfc3161Timestamps |-> rfc3161Timestamps(s)]
<1> DEFINE c   == createBundleBuilder(s).content
           key == toKeyContent(Signature(s).key, Chain(s))
           j   == bundleToJSON(Created(s))
           vm  == j.verificationMaterial
<1>1. /\ DOMAIN j = {"mediaType", "verificationMaterial", c.case}
      /\ j.mediaType = IF Chain(s) THEN "v0.2" ELSE "v0.3"
      /\ c.case = CaseOf(s) /\ j[c.case] = c
      /\ DOMAIN vm = {"tlogEntries", "rfc3161Timestamps", key.case}
      /\ vm[key.case] = key
      /\ vm.tlogEntries = tlogEntries(s) /\ vm.rfc3161Timestamps = rfc3161Timestamps(s)
  BY JSONParts
<1>2. key.case \in KeyMembers /\ c.case \in ContentMembers
  BY <1>1, KeyMember DEF CaseOf, ContentMembers
<1>3. vm # Absent
  BY SomethingAssumption, Zenon DEF Something
<1> HIDE DEF c, key, j, vm
<1>4. OneOf(j, <<"messageSignature", "dsseEnvelope">>) = c
  <2> DEFINE names == <<"messageSignature", "dsseEnvelope">>
  <2>1. DOMAIN names \subseteq 1 .. 3
    OBVIOUS
  <2>2. PICK k \in DOMAIN names : names[k] = c.case
    BY <1>2 DEF ContentMembers
  <2>3. \A i \in DOMAIN names : names[i] \in DOMAIN j => i = k
    BY <1>1, <2>2
  <2> HIDE DEF names
  <2>4. OneOf(j, names) = c
    BY <1>1, <2>1, <2>2, <2>3, OneOfOnly
  <2> QED BY <2>4 DEF names
<1>5. OneOf(vm, <<"publicKey", "x509CertificateChain", "certificate">>) = key
  <2> DEFINE names == <<"publicKey", "x509CertificateChain", "certificate">>
  <2>1. DOMAIN names \subseteq 1 .. 3
    OBVIOUS
  <2>2. PICK k \in DOMAIN names : names[k] = key.case
    BY <1>2 DEF KeyMembers
  <2>3. \A i \in DOMAIN names : names[i] \in DOMAIN vm => i = k
    BY <1>1, <2>2
  <2> HIDE DEF names
  <2>4. OneOf(vm, names) = key
    BY <1>1, <2>1, <2>2, <2>3, OneOfOnly
  <2> QED BY <2>4 DEF names
<1>6. Member(j, "verificationMaterial", Absent) = vm
  BY <1>1 DEF Member, vm
<1>7. /\ Member(vm, "tlogEntries", <<>>) = tlogEntries(s)
      /\ Member(vm, "rfc3161Timestamps", <<>>) = rfc3161Timestamps(s)
  BY <1>1 DEF Member
<1>8. Member(j, "mediaType", Empty) = IF Chain(s) THEN "v0.2" ELSE "v0.3"
  BY <1>1 DEF Member
<1>9. /\ fromJSON(j).mediaType = IF Chain(s) THEN "v0.2" ELSE "v0.3"
      /\ fromJSON(j).content = c
      /\ fromJSON(j).material = [content |-> key, tlogEntries |-> tlogEntries(s),
                                 rfc3161Timestamps |-> rfc3161Timestamps(s)]
  BY <1>3, <1>4, <1>5, <1>6, <1>7, <1>8 DEF fromJSON
<1> QED BY <1>9 DEF c, key, j

(* The parts that are never missing, and the two that may be.               *)
LEMMA ContentIsValid ==
  ASSUME NEW s \in Signings, s.call = "attest" => s.artifact.data # Empty
  PROVE  InvalidContent(createBundleBuilder(s).content) = {}
<1>1. /\ Something(createBundleBuilder(s).content)
      /\ Something(Signature(s).sig) /\ Something(digest(s.artifact.data))
  <2>1. PICK c : /\ Created(s) = [mediaType |-> IF Chain(s) THEN "v0.2" ELSE "v0.3", content |-> c,
                                  material |-> [content |-> toKeyContent(Signature(s).key, Chain(s)),
                                                tlogEntries |-> tlogEntries(s),
                                                rfc3161Timestamps |-> rfc3161Timestamps(s)]]
                 /\ c = createBundleBuilder(s).content
    BY CreatedParts, Zenon
  <2>2. Created(s).content = createBundleBuilder(s).content
    BY <2>1
  <2>3. /\ Something(Created(s).content)
        /\ Something(Signature(s).sig) /\ Something(digest(s.artifact.data))
    BY SomethingAssumption, Zenon
  <2> QED BY <2>2, <2>3
<1>2. CASE s.call = "sign"
  <2>1. createBundleBuilder(s).content =
          [case |-> "messageSignature", messageDigest |-> digest(s.artifact.data),
           signature |-> Signature(s).sig]
    BY <1>2 DEF createBundleBuilder, toMessageSignatureBundle, Packed
  <2> QED BY <1>1, <2>1 DEF InvalidContent, Fields, Something
<1>3. CASE s.call # "sign"
  <2>1. createBundleBuilder(s).content =
          [case |-> "dsseEnvelope", payloadType |-> s.artifact.type, payload |-> s.artifact.data,
           signatures |-> <<[sig |-> Signature(s).sig,
                             keyid |-> IF Signature(s).key.case = "publicKey"
                                       THEN Signature(s).key.hint ELSE Empty]>>]
    BY <1>3 DEF createBundleBuilder, toDSSEBundle, Packed
  <2>2. s.artifact.data # Empty
    BY <1>3, SigningsAssumption
  <2> QED BY <1>1, <2>1, <2>2 DEF InvalidContent, Fields, Something
<1> QED BY <1>2, <1>3

LEMMA KeyIsValid ==
  ASSUME NEW s \in Signings
  PROVE  /\ InvalidKey(toKeyContent(Signature(s).key, Chain(s))) = {}
         /\ ~ Chain(s) => toKeyContent(Signature(s).key, Chain(s)).case # "x509CertificateChain"
<1> DEFINE m == s.signer.material
           key == toKeyContent(m, Chain(s))
<1>1. Signature(s).key = m
  BY DEF Signature
<1>2. Something(key)
  <2>1. Created(s).material.content = toKeyContent(Signature(s).key, Chain(s))
    BY CreatedParts
  <2>2. Something(Created(s).material.content)
    BY SomethingAssumption, Zenon
  <2> QED BY <1>1, <2>1, <2>2
<1>3. m.case = "x509Certificate" => Something(m.certificate)
  BY SomethingAssumption, Zenon
<1>4. InvalidKey(key) = {}
  <2> HIDE DEF m
  <2>1. CASE m.case = "x509Certificate" /\ Chain(s)
    <3>1. key = [case |-> "x509CertificateChain", certificates |-> <<m.certificate>>]
      BY <2>1 DEF toKeyContent
    <3> HIDE DEF key
    <3> QED BY <1>2, <1>3, <2>1, <3>1 DEF InvalidKey, Fields, Something
  <2>2. CASE m.case = "x509Certificate" /\ ~ Chain(s)
    <3>1. key = [case |-> "certificate", rawBytes |-> m.certificate]
      BY <2>2 DEF toKeyContent
    <3> HIDE DEF key
    <3> QED BY <1>2, <1>3, <2>2, <3>1 DEF InvalidKey, Fields, Something
  <2>3. CASE m.case # "x509Certificate"
    <3>1. key = [case |-> "publicKey", hint |-> m.hint]
      BY <2>3 DEF toKeyContent
    <3> HIDE DEF key
    <3> QED BY <1>2, <3>1 DEF InvalidKey, Fields, Something
  <2> QED BY <2>1, <2>2, <2>3
<1>5. ~ Chain(s) => key.case # "x509CertificateChain"
  BY DEF toKeyContent
<1> QED BY <1>1, <1>4, <1>5

LEMMA EntriesAreValid ==
  ASSUME NEW s \in Signings, s.options.tlogUpload => "proof" \in s.log.gives,
         NEW k \in DOMAIN tlogEntries(s)
  PROVE  LET e == tlogEntries(s)[k]
         IN  /\ e.log # Absent /\ e.kindVersion # Absent
             /\ e.proof # Absent /\ e.proof.checkpoint # Absent
<1>1. Created(s).material.tlogEntries = tlogEntries(s)
  BY CreatedParts
<1>2. "proof" \in s.log.gives
  BY DEF tlogEntries
<1>3. \A i \in DOMAIN Created(s).material.tlogEntries :
        LET e == Created(s).material.tlogEntries[i]
        IN  /\ Something(e.log) /\ Something(e.kindVersion)
            /\ "proof" \in s.log.gives => Something(e.proof) /\ Something(e.proof.checkpoint)
  BY SomethingAssumption, Zenon
<1> QED BY <1>1, <1>2, <1>3 DEF Something

(* What is created is valid, but for an attestation of no bytes and a log that *)
(* has given no proof (SignedIsValid): for any signings.                    *)
THEOREM CreatedIsValid == Spec => []SignedIsValid
<1>1. ASSUME RoundInv PROVE SignedIsValid
  <2> SUFFICES ASSUME stage = "invalid", altered = {},
                      ~ (signing.call = "attest" /\ signing.artifact.data = Empty),
                      ~ (signing.options.tlogUpload /\ "proof" \notin signing.log.gives)
               PROVE  FALSE
    BY DEF SignedIsValid
  <2> DEFINE s == signing
             b == Read
             key == toKeyContent(Signature(s).key, Chain(s))
  <2>1. s \in Signings /\ json = bundleToJSON(Created(s)) /\ invalidValues(b) # {}
    BY <1>1 DEF RoundInv, Setting, Kept
  <2>2. /\ b.mediaType = IF Chain(s) THEN "v0.2" ELSE "v0.3"
        /\ b.content = createBundleBuilder(s).content
        /\ b.material = [content |-> key, tlogEntries |-> tlogEntries(s),
                         rfc3161Timestamps |-> rfc3161Timestamps(s)]
    BY <2>1, ReadBack DEF Read
  <2>3. InvalidContent(b.content) = {}
    BY <2>1, <2>2, ContentIsValid
  <2>4. b.material # Absent
    <3>1. b.material = Created(s).material
      BY <2>1, <2>2, CreatedParts
    <3> QED BY <2>1, <3>1, SomethingAssumption, Zenon DEF Something
  <2>5. InvalidKey(key) = {} /\ (~ Chain(s) => key.case # "x509CertificateChain")
    BY <2>1, KeyIsValid
  <2>6. \A k \in DOMAIN tlogEntries(s) :
          LET e == tlogEntries(s)[k]
          IN  /\ e.log # Absent /\ e.kindVersion # Absent
              /\ e.proof # Absent /\ e.proof.checkpoint # Absent
    BY <2>1, EntriesAreValid
  <2> DEFINE entries == tlogEntries(s)
             stamps == rfc3161Timestamps(s)
  <2> HIDE DEF b, key, entries, stamps
  <2>7. b.material.content = key /\ b.material.tlogEntries = entries
    BY <2>2 DEF entries
  <2>8. validateBundleBase(b) = {}
    <3>1. Fields(b.mediaType \notin MediaTypes, "mediaType") = {}
      BY <2>2 DEF Fields, MediaTypes
    <3>2. \A e \in {b.material.tlogEntries[k] : k \in DOMAIN b.material.tlogEntries} :
            Fields(e.log = Absent, "logId") = {} /\ Fields(e.kindVersion = Absent, "kindVersion") = {}
      BY <2>6, <2>7 DEF Fields, entries
    <3> QED BY <2>3, <2>4, <2>5, <2>7, <3>1, <3>2 DEF validateBundleBase
  <2>9. validateInclusionProof(b) = {}
    <3>1. \A e \in EntriesOf(b) : e.proof # Absent /\ e.proof.checkpoint # Absent
      BY <2>4, <2>6, <2>7 DEF EntriesOf, entries
    <3> QED BY <3>1 DEF validateInclusionProof, Fields
  <2>10. CASE Chain(s)
    <3>1. invalidValues(b) = validateBundleBase(b) \cup validateInclusionProof(b)
      BY <2>2, <2>10 DEF invalidValues
    <3> QED BY <2>1, <2>8, <2>9, <3>1
  <2>11. CASE ~ Chain(s)
    <3>1. invalidValues(b) = validateBundleBase(b) \cup (validateInclusionProof(b) \cup validateNoCertificateChain(b))
      BY <2>2, <2>11 DEF invalidValues
    <3>2. validateNoCertificateChain(b) = {}
      BY <2>5, <2>7, <2>11 DEF validateNoCertificateChain, Fields
    <3> QED BY <2>1, <2>8, <2>9, <3>1, <3>2
  <2> QED BY <2>10, <2>11
<1> QED BY <1>1, AlwaysRoundInv, PTL

-----------------------------------------------------------------------------
(* What is verified of a bundle that is as it was created.                  *)
Intact(s, data) == toSignedEntity(fromJSON(bundleToJSON(Created(s))), data)

Body(s) ==
  toProposedEntry(createBundleBuilder(s).content,
                  IF s.options.legacyCompatibility THEN "intoto" ELSE "dsse")

(* An entry as it is verified: the answer of the log, said to be of the kind   *)
(* that its body is.                                                       *)
EntryIntact(s) ==
  LET a == LogAnswer(s, Body(s))
  IN  [log |-> a.logID, time |-> a.integratedTime, body |-> a.body,
       promise |-> a.signedEntryTimestamp, proof |-> a.inclusionProof,
       kind |-> a.body.kind, version |-> a.body.version]

LEMMA IntactParts ==
  ASSUME NEW s \in Signings, NEW data
  PROVE  LET e == Intact(s, data)
         IN  /\ e.sig = Signature(s).sig /\ e.key = KeyFrom(s)
             /\ e.artifact = IF s.call = "sign" THEN data ELSE s.artifact
             /\ e.digest = digest(s.artifact.data)
             /\ e.entries = IF s.options.tlogUpload THEN <<EntryIntact(s)>> ELSE <<>>
             /\ e.tsts = rfc3161Timestamps(s)
             /\ e.unread = {}
<1> DEFINE b == fromJSON(bundleToJSON(Created(s)))
           e == Intact(s, data)
           c == createBundleBuilder(s).content
           key == toKeyContent(Signature(s).key, Chain(s))
           Entry(x) == [log |-> x.log, time |-> x.time, body |-> x.body,
                        promise |-> x.promise, proof |-> x.proof,
                        kind |-> x.kindVersion.kind, version |-> x.kindVersion.version]
<1>1. /\ b.content = c
      /\ b.material = [content |-> key, tlogEntries |-> tlogEntries(s),
                       rfc3161Timestamps |-> rfc3161Timestamps(s)]
  BY ReadBack
<1>2. s \in Signings \cup Others
  OBVIOUS
<1>3. s.call \in {"sign", "attest"} /\ s.artifact = [type |-> s.artifact.type, data |-> s.artifact.data]
  BY <1>2, SigningsAssumption, Zenon
<1>4. keyOf(key) = KeyFrom(s)
  BY <1>2, KeyReadBack
<1> HIDE DEF b, key, c
<1>5. /\ e.artifact = signatureContent(c, data).artifact
      /\ e.digest = signatureContent(c, data).digest
      /\ e.sig = signatureContent(c, data).sig
      /\ e.key = keyOf(key) /\ e.tsts = rfc3161Timestamps(s) /\ e.unread = {}
      /\ e.entries = [k \in DOMAIN tlogEntries(s) |-> Entry(tlogEntries(s)[k])]
  BY <1>1 DEF Intact, toSignedEntity, b
<1>6. /\ signatureContent(c, data).artifact = IF s.call = "sign" THEN data ELSE s.artifact
      /\ signatureContent(c, data).digest = digest(s.artifact.data)
      /\ signatureContent(c, data).sig = Signature(s).sig
  <2>1. CASE s.call = "sign"
    <3>1. c = [case |-> "messageSignature", messageDigest |-> digest(s.artifact.data),
               signature |-> Signature(s).sig]
      BY <2>1 DEF createBundleBuilder, toMessageSignatureBundle, Packed, c
    <3> QED BY <2>1, <3>1 DEF signatureContent
  <2>2. CASE s.call # "sign"
    <3>1. c = [case |-> "dsseEnvelope", payloadType |-> s.artifact.type, payload |-> s.artifact.data,
               signatures |-> <<[sig |-> Signature(s).sig,
                                 keyid |-> IF Signature(s).key.case = "publicKey"
                                           THEN Signature(s).key.hint ELSE Empty]>>]
      BY <2>2 DEF createBundleBuilder, toDSSEBundle, Packed, c
    <3> QED BY <1>3, <2>2, <3>1 DEF signatureContent, preAuthEncoding
  <2> QED BY <2>1, <2>2
<1>7. e.entries = IF s.options.tlogUpload THEN <<EntryIntact(s)>> ELSE <<>>
  <2>1. CASE s.options.tlogUpload
    <3> DEFINE a == LogAnswer(s, Body(s))
               x == toTransparencyLogEntry(a)
    <3>1. tlogEntries(s) = <<x>>
      BY <2>1 DEF tlogEntries, Body
    <3>2. Entry(x) = EntryIntact(s)
      <4> HIDE DEF a
      <4> QED BY DEF toTransparencyLogEntry, EntryIntact, a
    <3> DEFINE y == Entry(x)
    <3> HIDE DEF x
    <3>3. e.entries = [k \in {1} |-> y]
      BY <1>5, <3>1
    <3> HIDE DEF y
    <3>4. e.entries = <<y>>
      BY <3>3
    <3> QED BY <2>1, <3>2, <3>4 DEF y
  <2>2. CASE ~ s.options.tlogUpload
    <3>1. tlogEntries(s) = <<>>
      BY <2>2 DEF tlogEntries
    <3>2. e.entries = <<>>
      BY <1>5, <3>1
    <3> QED BY <2>2, <3>2
  <2> QED BY <2>1, <2>2
<1> QED BY <1>4, <1>5, <1>6, <1>7

(* What is logged is the signature and the digest of what was signed.        *)
LEMMA BodyParts ==
  ASSUME NEW s \in Signings
  PROVE  LET body == Body(s)
         IN  /\ body.sigs = <<Signature(s).sig>> /\ body.digest = digest(s.artifact.data)
             /\ \/ body.kind = "hashedrekord" /\ body.version = "0.0.1"
                \/ body.kind = "dsse" /\ body.version = "0.0.1"
                \/ body.kind = "intoto" /\ body.version = "0.0.2"
<1>1. CASE s.call = "sign"
  <2>1. createBundleBuilder(s).content =
          [case |-> "messageSignature", messageDigest |-> digest(s.artifact.data),
           signature |-> Signature(s).sig]
    BY <1>1 DEF createBundleBuilder, toMessageSignatureBundle, Packed
  <2> QED BY <2>1 DEF Body, toProposedEntry
<1>2. CASE s.call # "sign"
  <2>1. createBundleBuilder(s).content =
          [case |-> "dsseEnvelope", payloadType |-> s.artifact.type, payload |-> s.artifact.data,
           signatures |-> <<[sig |-> Signature(s).sig,
                             keyid |-> IF Signature(s).key.case = "publicKey"
                                       THEN Signature(s).key.hint ELSE Empty]>>]
    BY <1>2 DEF createBundleBuilder, toDSSEBundle, Packed
  <2>2. CASE s.options.legacyCompatibility
    BY <2>1, <2>2 DEF Body, toProposedEntry
  <2>3. CASE ~ s.options.legacyCompatibility
    BY <2>1, <2>3 DEF Body, toProposedEntry
  <2> QED BY <2>2, <2>3
<1> QED BY <1>1, <1>2

LEMMA EntryParts ==
  ASSUME NEW s \in Signings
  PROVE  LET e    == EntryIntact(s)
             log  == TrustedRoot.tlogs[1]
             body == Body(s)
         IN  /\ e.log = log.id /\ e.time = s.log.time /\ e.body = body
             /\ e.kind = body.kind /\ e.version = body.version
             /\ \/ e.promise = Absent
                \/ e.promise = [by |-> log.key, over |-> [body |-> body, time |-> s.log.time, log |-> log.id]]
             /\ \/ e.proof = Absent
                \/ e.proof = [body |-> body, root |-> body,
                              checkpoint |-> [root |-> body,
                                              sigs |-> {[hint |-> log.id,
                                                         sig |-> [by |-> log.key, over |-> body]]}]]
<1> DEFINE log  == TrustedRoot.tlogs[1]
           body == Body(s)
           a == LogAnswer(s, body)
<1>1. /\ a.logID = log.id /\ a.integratedTime = s.log.time /\ a.body = body
      /\ \/ a.signedEntryTimestamp = Absent
         \/ a.signedEntryTimestamp =
               [by |-> log.key, over |-> [body |-> body, time |-> s.log.time, log |-> log.id]]
      /\ \/ a.inclusionProof = Absent
         \/ a.inclusionProof =
               [body |-> body, root |-> body,
                checkpoint |-> [root |-> body,
                                sigs |-> {[hint |-> log.id, sig |-> [by |-> log.key, over |-> body]]}]]
  <2> HIDE DEF body
  <2> QED BY DEF LogAnswer
<1> HIDE DEF a
<1> QED BY <1>1 DEF EntryIntact, a

(* The services that are trusted are those of the trusted root.             *)
LEMMA Services ==
  ASSUME Setting
  PROVE  /\ root.tlogs = TrustedRoot.tlogs /\ root.ctlogs = TrustedRoot.ctlogs
         /\ root.cas = TrustedRoot.cas /\ root.tsas = TrustedRoot.tsas
BY SigningsAssumption DEF Setting

LEMMA TrustParts ==
  ASSUME Setting
  PROVE  /\ V!trust.tlogs = [k \in DOMAIN TrustedRoot.tlogs |-> V!createTLogAuthority(TrustedRoot.tlogs[k])]
         /\ V!trust.ctlogs = [k \in DOMAIN TrustedRoot.ctlogs |-> V!createTLogAuthority(TrustedRoot.ctlogs[k])]
         /\ V!trust.cas = [k \in DOMAIN TrustedRoot.cas |-> V!createCertAuthority(TrustedRoot.cas[k])]
         /\ V!trust.tsas = [k \in DOMAIN TrustedRoot.tsas |-> V!createCertAuthority(TrustedRoot.tsas[k])]
         /\ V!trust.keys = V!keyLocator(root.keys)
BY Services DEF V!trust, V!toTrustMaterial

LEMMA ListedIs ==
  ASSUME NEW x, V!Listed(x)
  PROVE  /\ Len(x) \in Nat /\ DOMAIN x = 1 .. Len(x)
         /\ \A k \in DOMAIN x : x[k] \in V!Range(x)
         /\ x # <<>> => 1 \in DOMAIN x /\ Head(x) = x[1]
<1>1. x \in Seq(V!Range(x))
  BY DEF V!Listed
<1>2. Len(x) \in Nat /\ DOMAIN x = 1 .. Len(x)
  BY <1>1
<1>3. \A k \in DOMAIN x : x[k] \in V!Range(x)
  BY DEF V!Range
<1>4. x # <<>> => 1 \in DOMAIN x /\ Head(x) = x[1]
  BY <1>1
<1> QED BY <1>2, <1>3, <1>4

LEMMA TLogPasses ==
  ASSUME Setting, NEW s \in Signings, s.options.tlogUpload, EntryIntact(s).proof # Absent,
         entity.unread = {}
  PROVE  V!TLogError(EntryIntact(s)) = ""
<1> DEFINE e == EntryIntact(s)
           log == TrustedRoot.tlogs[1]
           body == Body(s)
           logs == V!FilterTLogs(V!trust.tlogs, log.id, s.log.time)
<1>1. /\ e.log = log.id /\ e.time = s.log.time /\ e.body = body
      /\ \/ e.promise = Absent
         \/ e.promise = [by |-> log.key, over |-> [body |-> body, time |-> s.log.time, log |-> log.id]]
      /\ e.proof = [body |-> body, root |-> body,
                    checkpoint |-> [root |-> body,
                                    sigs |-> {[hint |-> log.id,
                                               sig |-> [by |-> log.key, over |-> body]]}]]
  BY EntryParts
<1>2. /\ V!Listed(TrustedRoot.tlogs) /\ TrustedRoot.tlogs # <<>>
      /\ V!Valid(V!During(log), s.log.time)
  BY ServicesAssumption, Zenon
<1>3. 1 \in DOMAIN TrustedRoot.tlogs /\ DOMAIN TrustedRoot.tlogs \subseteq Nat \ {0}
  <2>1. /\ Len(TrustedRoot.tlogs) \in Nat /\ DOMAIN TrustedRoot.tlogs = 1 .. Len(TrustedRoot.tlogs)
        /\ 1 \in DOMAIN TrustedRoot.tlogs
    BY <1>2, ListedIs
  <2> QED BY <2>1
<1>4. /\ V!trust.tlogs[1] = V!createTLogAuthority(log)
      /\ DOMAIN V!trust.tlogs = DOMAIN TrustedRoot.tlogs
  BY <1>3, TrustParts
<1>5. /\ V!trust.tlogs[1].id = log.id /\ V!trust.tlogs[1].key = log.key
      /\ V!Valid(V!trust.tlogs[1], s.log.time)
  BY <1>2, <1>4 DEF V!createTLogAuthority, V!Valid
<1>6. 1 \in logs /\ logs \subseteq Nat \ {0}
  BY <1>3, <1>4, <1>5 DEF V!FilterTLogs
<1>7. V!First(logs) = 1
  <2> HIDE DEF logs
  <2>1. \A j \in logs : 1 <= j
    BY <1>6
  <2>2. \A k \in logs : (\A j \in logs : k <= j) => k = 1
    BY <1>6
  <2> QED BY <1>6, <2>1, <2>2 DEF V!First
<1> HIDE DEF e, body, log
<1>8. e.promise = Absent \/ V!PromiseHolds(e)
  BY <1>1, <1>5, <1>6 DEF V!PromiseHolds, V!MadeBy
<1>9. e.proof # Absent
  BY DEF e
<1>10. V!MerkleHolds(e)
  BY <1>1 DEF V!MerkleHolds
<1>11. V!CheckpointHolds(e)
  <2> DEFINE signed == [hint |-> log.id, sig |-> [by |-> log.key, over |-> body]]
             note == [root |-> body, sigs |-> {signed}]
  <2>1. e.proof.checkpoint = note /\ e.proof.root = body
    BY <1>1
  <2>2. note.sigs = {signed} /\ note.root = body /\ signed.hint = log.id
        /\ signed.sig = [by |-> log.key, over |-> body]
    OBVIOUS
  <2> HIDE DEF note, signed
  <2>3. V!FilterTLogs(V!trust.tlogs, signed.hint, e.time) = logs
    BY <1>1, <2>2
  <2> HIDE DEF logs
  <2>4. logs # {} /\ V!MadeBy(signed.sig, V!trust.tlogs[V!First(logs)].key, note.root)
    BY <1>5, <1>6, <1>7, <2>2 DEF V!MadeBy
  <2> QED BY <2>1, <2>2, <2>3, <2>4 DEF V!CheckpointHolds
<1>12. V!TLogError(e) = ""
  <2>1. ~ V!ProofUnread(e)
    BY DEF V!ProofUnread, V!Unread
  <2> QED BY <1>8, <1>9, <1>10, <1>11, <2>1 DEF V!TLogError
<1> QED BY <1>12 DEF e

LEMMA TSAPasses ==
  ASSUME Setting, NEW s \in Signings, s.options.tsaServerURL # Absent, entity.sig = Signature(s).sig
  PROVE  V!TSAError(TSAnswer(s)) = ""
<1> DEFINE t == TSAnswer(s)
           tsa == TrustedRoot.tsas[1]
           leaf == tsa.chain[1]
           ca == V!trust.tsas[1]
           info == [imprint |-> Signature(s).sig, time |-> s.tsa.time]
<1>1. /\ t.token = TRUE /\ t.typed = TRUE /\ t.serial = leaf.serial /\ t.issuer = leaf.issuer
      /\ t.info = info /\ t.digest = info /\ t.sig = [by |-> leaf.key, over |-> info]
  BY DEF TSAnswer
<1>2. info.imprint = entity.sig /\ info.time = s.tsa.time
  OBVIOUS
<1>3. /\ V!Listed(TrustedRoot.tsas) /\ TrustedRoot.tsas # <<>>
      /\ V!Valid(V!During(tsa), s.tsa.time)
      /\ V!Listed(tsa.chain) /\ tsa.chain # <<>>
      /\ V!Path(Head(tsa.chain), Tail(tsa.chain)) # <<>>
      /\ \A c \in V!Range(tsa.chain) : V!Valid(c, s.tsa.time)
  BY ServicesAssumption, Zenon
<1>4. 1 \in DOMAIN TrustedRoot.tsas
  BY <1>3, ListedIs
<1>5. Head(tsa.chain) = leaf /\ \A k \in DOMAIN tsa.chain : V!Valid(tsa.chain[k], s.tsa.time)
  <2>1. Head(tsa.chain) = leaf /\ \A k \in DOMAIN tsa.chain : tsa.chain[k] \in V!Range(tsa.chain)
    BY <1>3, ListedIs
  <2> QED BY <1>3, <2>1
<1>6. ca = V!createCertAuthority(tsa) /\ 1 \in DOMAIN V!trust.tsas
  BY <1>4, TrustParts
<1> HIDE DEF t, ca, info, leaf
<1>7. /\ ca.chain = tsa.chain
      /\ ca.from <= s.tsa.time /\ s.tsa.time <= ca.until
  BY <1>3, <1>6 DEF V!createCertAuthority, V!Valid
<1>8. 1 \in V!filterCertAuthorities(V!trust.tsas, s.tsa.time, s.tsa.time)
  BY <1>6, <1>7 DEF V!filterCertAuthorities, ca
<1>9. 1 \in V!filterCAsBySerialAndIssuer(V!trust.tsas, t)
  <2>1. ca.chain # <<>> /\ Head(ca.chain).serial = t.serial /\ Head(ca.chain).issuer = t.issuer
    BY <1>1, <1>3, <1>5, <1>7
  <2> QED BY <1>6, <2>1 DEF V!filterCAsBySerialAndIssuer, ca
<1>10. V!verifyTimestampForCA(t, entity.sig, ca)
  <2>1. V!Path(Head(ca.chain), Tail(ca.chain)) # <<>>
    BY <1>3, <1>7
  <2>2. \A k \in DOMAIN ca.chain : V!Valid(ca.chain[k], V!signingTime(t))
    BY <1>1, <1>2, <1>5, <1>7 DEF V!signingTime
  <2>3. V!TokenHolds(t, entity.sig, Head(ca.chain).key)
    BY <1>1, <1>2, <1>5, <1>7 DEF V!TokenHolds, V!ImprintHolds, V!verifyMessageDigest, V!verifySignature, V!MadeBy
  <2> QED BY <2>1, <2>2, <2>3 DEF V!verifyTimestampForCA
<1>11. V!signingTime(t) = s.tsa.time
  BY <1>1, <1>2 DEF V!signingTime
<1>12. V!TSAError(t) = ""
  BY <1>1, <1>8, <1>9, <1>10, <1>11 DEF V!TSAError, ca
<1> QED BY <1>12 DEF t

-----------------------------------------------------------------------------
(* The invariant of a bundle that is as it was created: its timestamps are     *)
(* verified in their order, and if it is rejected too much was asked for.    *)
Checked == stage \notin {"signing", "stored", "invalid"}

InSequence ==
  /\ Len(verified) <= V!Timestamps
  /\ \A k \in 1 .. Len(verified) : verified[k] = V!Timestamp(k)

IntactInv ==
  altered = {} /\ Checked =>
    /\ entity = Intact(signing, how.data) /\ options = createVerifier(how.options)
    /\ invalidValues(Read) = {} /\ InSequence
    /\ stage = "rejected" => AsksForMore

UnderCheck == RoundInv /\ IntactInv /\ altered = {} /\ Checked

Times(s) ==
  (IF s.options.tlogUpload THEN {s.log.time} ELSE {})
    \cup (IF s.options.tsaServerURL = Absent THEN {} ELSE {s.tsa.time})

(* A bundle that is valid has the proof of the log.                         *)
LEMMA ProofIsThere ==
  ASSUME UnderCheck, signing.options.tlogUpload
  PROVE  EntryIntact(signing).proof # Absent
<1> DEFINE s == signing
           b == Read
           a == LogAnswer(s, Body(s))
           x == toTransparencyLogEntry(a)
<1>1. /\ s \in Signings /\ json = bundleToJSON(Created(s)) /\ invalidValues(b) = {}
  BY DEF UnderCheck, RoundInv, IntactInv, Checked, Setting, Kept
<1>2. /\ b.mediaType \in {"v0.2", "v0.3"}
      /\ b.material.tlogEntries = tlogEntries(s)
  <2> DEFINE key == toKeyContent(Signature(s).key, Chain(s))
  <2>1. b = fromJSON(bundleToJSON(Created(s)))
    BY <1>1 DEF Read
  <2>2. /\ b.mediaType = IF Chain(s) THEN "v0.2" ELSE "v0.3"
        /\ b.material = [content |-> key, tlogEntries |-> tlogEntries(s),
                         rfc3161Timestamps |-> rfc3161Timestamps(s)]
    BY <1>1, <2>1, ReadBack
  <2> HIDE DEF s, b, key
  <2> QED BY <2>2
<1>3. tlogEntries(s) = <<x>>
  BY DEF tlogEntries, Body
<1>4. b.material # Absent
  BY <1>1, ValidParts
<1> HIDE DEF s, b, x
<1>5. validateInclusionProof(b) = {}
  BY <1>1, <1>2 DEF invalidValues
<1>6. x \in EntriesOf(b)
  BY <1>2, <1>3, <1>4 DEF EntriesOf
<1>7. x.proof # Absent
  BY <1>5, <1>6 DEF validateInclusionProof, Fields
<1>8. x.proof = a.inclusionProof
  <2> HIDE DEF a
  <2> QED BY DEF toTransparencyLogEntry, x
<1>9. EntryIntact(s).proof = a.inclusionProof
  <2> HIDE DEF a
  <2> QED BY DEF EntryIntact, a
<1> QED BY <1>7, <1>8, <1>9 DEF s

(* Its timestamps: one of the log, one of the authority.                    *)
LEMMA Evidence ==
  ASSUME UnderCheck
  PROVE  LET s == signing
         IN  /\ Len(entity.entries) = IF s.options.tlogUpload THEN 1 ELSE 0
             /\ Len(entity.tsts) = IF s.options.tsaServerURL = Absent THEN 0 ELSE 1
             /\ V!Timestamps \in Nat
             /\ \A k \in 1 .. V!Timestamps :
                  /\ V!TimestampError(k) = "" /\ V!Timestamp(k).time \in Times(s)
                  /\ \/ k = 1 /\ V!Timestamp(k).type = "transparency-log"
                     \/ k = V!Timestamps /\ V!Timestamp(k).type = "timestamp-authority"
<1> DEFINE s == signing
           y == EntryIntact(s)
           t == TSAnswer(s)
           m == IF s.options.tlogUpload THEN 1 ELSE 0
           n == IF s.options.tsaServerURL = Absent THEN 0 ELSE 1
<1>1. s \in Signings /\ Setting /\ entity = Intact(s, how.data)
  BY DEF UnderCheck, RoundInv, IntactInv, Checked, Setting
<1>2. /\ entity.entries = IF s.options.tlogUpload THEN <<y>> ELSE <<>>
      /\ entity.tsts = rfc3161Timestamps(s) /\ entity.sig = Signature(s).sig
      /\ entity.unread = {}
  BY <1>1, IntactParts
<1>3. entity.tsts = IF s.options.tsaServerURL = Absent THEN <<>> ELSE <<t>>
  BY <1>2 DEF rfc3161Timestamps
<1>4. s.options.tlogUpload => V!TLogError(y) = ""
  BY <1>1, <1>2, ProofIsThere, TLogPasses
<1>5. s.options.tsaServerURL # Absent => V!TSAError(t) = ""
  BY <1>1, <1>2, TSAPasses
<1>6. y.time = s.log.time
  BY <1>1, EntryParts
<1>7. t.info.time = s.tsa.time
  BY DEF TSAnswer
<1>8. Len(entity.entries) = m /\ Len(entity.tsts) = n
  BY <1>2, <1>3
<1>9. V!Timestamps = m + n
  BY <1>8 DEF V!Timestamps
<1>10. m \in {0, 1} /\ n \in {0, 1}
  OBVIOUS
<1>11. V!Timestamps \in Nat
  <2> HIDE DEF m, n
  <2> QED BY <1>9, <1>10
<1>12. ASSUME NEW k \in 1 .. V!Timestamps
       PROVE  /\ V!TimestampError(k) = "" /\ V!Timestamp(k).time \in Times(s)
              /\ \/ k = 1 /\ V!Timestamp(k).type = "transparency-log"
                 \/ k = V!Timestamps /\ V!Timestamp(k).type = "timestamp-authority"
  <2>1. CASE k <= m
    <3>1. m = 1 /\ k = 1
      <4> HIDE DEF m, n
      <4> QED BY <1>9, <1>10, <2>1
    <3>2. s.options.tlogUpload
      BY <3>1
    <3>3. entity.entries[k] = y /\ k <= Len(entity.entries)
      BY <1>2, <1>8, <2>1, <3>1, <3>2
    <3> HIDE DEF y, m, n
    <3>4. V!TimestampError(k) = V!TLogError(y)
      BY <3>3 DEF V!TimestampError
    <3>5. V!Timestamp(k).type = "transparency-log" /\ V!Timestamp(k).time = y.time
      BY <3>3 DEF V!Timestamp
    <3> QED BY <1>4, <1>6, <3>1, <3>2, <3>4, <3>5 DEF Times, y
  <2>2. CASE ~ (k <= m)
    <3>1. n = 1 /\ k = m + 1 /\ k = V!Timestamps
      <4> HIDE DEF m, n
      <4> QED BY <1>9, <1>10, <2>2
    <3>2. s.options.tsaServerURL # Absent
      BY <3>1
    <3>3. k - m = 1
      <4> HIDE DEF m, n
      <4> QED BY <1>10, <3>1
    <3>4. entity.tsts[k - Len(entity.entries)] = t /\ ~ (k <= Len(entity.entries))
      <4>1. k - Len(entity.entries) = 1
        BY <1>8, <3>3
      <4>2. entity.tsts[1] = t
        BY <1>3, <3>2
      <4>3. ~ (k <= Len(entity.entries))
        BY <1>8, <2>2
      <4> QED BY <4>1, <4>2, <4>3
    <3> HIDE DEF t, m, n
    <3>5. V!TimestampError(k) = V!TSAError(t)
      BY <3>4 DEF V!TimestampError
    <3>6. V!Timestamp(k).type = "timestamp-authority" /\ V!Timestamp(k).time = t.info.time
      BY <3>4 DEF V!Timestamp
    <3> QED BY <1>5, <1>7, <3>1, <3>2, <3>5, <3>6 DEF Times, t
  <2> QED BY <2>1, <2>2
<1> QED BY <1>8, <1>11, <1>12

LEMMA VerifiedThen ==
  ASSUME UnderCheck
  PROVE  /\ Len(verified) \in Nat /\ DOMAIN verified = 1 .. Len(verified)
         /\ \A k \in DOMAIN verified : k \in 1 .. V!Timestamps /\ verified[k] = V!Timestamp(k)
         /\ \A k \in DOMAIN verified : verified[k].time \in Times(signing)
<1> DEFINE n == Len(verified)
<1>1. verified \in Seq(Stamps) /\ n <= V!Timestamps /\ \A k \in 1 .. n : verified[k] = V!Timestamp(k)
  BY DEF UnderCheck, RoundInv, Checked, Passed, IntactInv, InSequence
<1>2. n \in Nat /\ DOMAIN verified = 1 .. n
  BY <1>1
<1>3. V!Timestamps \in Nat /\ \A k \in 1 .. V!Timestamps : V!Timestamp(k).time \in Times(signing)
  BY Evidence
<1> HIDE DEF n
<1>4. \A k \in 1 .. n : k \in 1 .. V!Timestamps
  BY <1>1, <1>2, <1>3
<1> QED BY <1>1, <1>2, <1>3, <1>4 DEF n

LEMMA CountPasses ==
  ASSUME UnderCheck, ~ AsksForMore, Len(verified) = V!Timestamps
  PROVE  V!Distinct(verified) /\ V!Enough
<1>1. \A k \in DOMAIN verified :
        \/ k = 1 /\ verified[k].type = "transparency-log"
        \/ k = V!Timestamps /\ verified[k].type = "timestamp-authority"
  BY VerifiedThen, Evidence
<1>2. V!Distinct(verified)
  BY <1>1 DEF V!Distinct
<1>3. Len(entity.entries) >= options.tlogThreshold
  <2>1. Len(tlogEntries(signing)) >= Threshold(how.options.tlogThreshold, 1)
    BY DEF AsksForMore
  <2>2. Len(tlogEntries(signing)) = Len(entity.entries)
    <3>1. Len(tlogEntries(signing)) = IF signing.options.tlogUpload THEN 1 ELSE 0
      BY DEF tlogEntries
    <3> QED BY <3>1, Evidence
  <2>3. options.tlogThreshold = Threshold(how.options.tlogThreshold, 1)
    BY DEF UnderCheck, IntactInv, createVerifier
  <2> QED BY <2>1, <2>2, <2>3
<1>4. Len(entity.tsts) >= options.tsaThreshold
  <2>1. options.tsaThreshold = 0
    BY DEF UnderCheck, IntactInv, createVerifier
  <2>2. Len(entity.tsts) \in {0, 1}
    BY Evidence
  <2> QED BY <2>1, <2>2
<1> QED BY <1>2, <1>3, <1>4 DEF V!Enough

LEMMA NameMatches ==
  ASSUME NEW name, V!Listed(name), name # <<>>, V!Plain(name)
  PROVE  V!Followed(name) /\ V!Matches(name, name)
<1>1. Checks!Listed(name) /\ Checks!Plain(name)
  BY DEF V!Listed, Checks!Listed, V!Plain, Checks!Plain, V!Range, Checks!Range,
         V!Metacharacters, Checks!Metacharacters
<1>2. Checks!Followed(name) /\ Checks!Matches(name, name)
  BY NoCalls, <1>1, Checks!NameMatchesItself
<1>3. Checks!Matches(name, name) <=> V!Matches(name, name)
  BY Zenon DEF Checks!Matches, V!Matches
<1>4. Checks!Followed(name) <=> V!Followed(name)
  BY DEF Checks!Followed, V!Followed, V!Metacharacters, Checks!Metacharacters
<1> QED BY <1>2, <1>3, <1>4

LEMMA CertificatePasses ==
  ASSUME UnderCheck, ~ AsksForMore, signing.signer.material.case = "x509Certificate"
  PROVE  V!CertificateHolds(entity.key)
<1> DEFINE s == signing
           k == s.signer.material.certificate
           cas == V!filterCertAuthorities(V!trust.cas, k.cert.from, k.cert.until)
           traced == {i \in cas : V!Path(k.cert, V!trust.cas[i].chain) # <<>>}
           j == V!First(traced)
           path == V!Path(k.cert, V!trust.cas[j].chain)
<1>1. s \in Signings /\ Setting /\ entity = Intact(s, how.data)
  BY DEF UnderCheck, RoundInv, IntactInv, Checked, Setting
<1>2. entity.key.cert = k.cert /\ entity.key.scts = k.scts
  <2>1. entity.key = KeyFrom(s)
    BY <1>1, IntactParts
  <2> QED BY <2>1 DEF KeyFrom
<1>3. /\ V!Listed(k.scts)
      /\ \E a \in V!Range(TrustedRoot.cas) :
           /\ V!During(a).from <= k.cert.from /\ k.cert.until <= V!During(a).until
           /\ V!Path(k.cert, a.chain) # <<>>
      /\ \A a \in V!Range(TrustedRoot.cas) :
           LET p == V!Path(k.cert, a.chain)
           IN  p # <<>> =>
                 /\ \A i \in DOMAIN p : k.cert.from .. k.cert.until \subseteq p[i].from .. p[i].until
                 /\ \A t \in V!Range(k.scts) : \E l \in V!Range(TrustedRoot.ctlogs) :
                      /\ l.id = t.log /\ V!Valid(V!During(l), t.time)
                      /\ V!SCTVerifies(t, V!PreCert(p[1], p[2]), l.key)
      /\ V!Distinct([i \in DOMAIN k.scts |-> k.scts[i].log])
  BY <1>1, CertificatesAssumption, Zenon
<1>4. /\ DOMAIN V!trust.cas = DOMAIN TrustedRoot.cas /\ DOMAIN TrustedRoot.cas \subseteq Nat
      /\ \A i \in DOMAIN TrustedRoot.cas : V!trust.cas[i] = V!createCertAuthority(TrustedRoot.cas[i])
  <2>1. DOMAIN TrustedRoot.cas \subseteq Nat
    <3>1. V!Listed(TrustedRoot.cas)
      BY ServicesAssumption
    <3>2. DOMAIN TrustedRoot.cas = 1 .. Len(TrustedRoot.cas)
      BY <3>1, ListedIs
    <3> QED BY <3>2
  <2> QED BY <1>1, <2>1, TrustParts
<1>5. traced # {} /\ traced \in SUBSET Nat
  <2>1. PICK i \in DOMAIN TrustedRoot.cas :
          LET a == TrustedRoot.cas[i]
          IN  /\ V!During(a).from <= k.cert.from /\ k.cert.until <= V!During(a).until
              /\ V!Path(k.cert, a.chain) # <<>>
    BY <1>3 DEF V!Range
  <2>2. i \in traced
    <3> DEFINE ca == V!trust.cas[i]
    <3>1. ca = V!createCertAuthority(TrustedRoot.cas[i]) /\ i \in DOMAIN V!trust.cas
      BY <1>4
    <3> HIDE DEF k, ca
    <3>2. /\ ca.chain = TrustedRoot.cas[i].chain
          /\ ca.from <= k.cert.from /\ k.cert.until <= ca.until
      BY <2>1, <3>1 DEF V!createCertAuthority
    <3>3. i \in cas
      BY <3>1, <3>2 DEF V!filterCertAuthorities, ca
    <3> QED BY <2>1, <3>2, <3>3 DEF ca
  <2>3. traced \subseteq DOMAIN V!trust.cas
    BY DEF V!filterCertAuthorities
  <2> QED BY <1>4, <2>2, <2>3
<1>6. j \in traced
  <2> HIDE DEF traced
  <2> QED BY <1>5, FirstIs
<1>7. j \in DOMAIN TrustedRoot.cas /\ path # <<>> /\ path = V!Path(k.cert, TrustedRoot.cas[j].chain)
  <2>1. j \in cas /\ path # <<>>
    <3> HIDE DEF j, cas, k
    <3> QED BY <1>6
  <2> HIDE DEF j, k
  <2>2. j \in DOMAIN TrustedRoot.cas
    BY <1>4, <2>1 DEF V!filterCertAuthorities
  <2>3. V!trust.cas[j].chain = TrustedRoot.cas[j].chain
    <3>1. V!trust.cas[j] = V!createCertAuthority(TrustedRoot.cas[j])
      BY <1>4, <2>2
    <3> DEFINE ca == V!trust.cas[j]
    <3> HIDE DEF ca
    <3>2. ca.chain = TrustedRoot.cas[j].chain
      BY <3>1 DEF V!createCertAuthority, ca
    <3> QED BY <3>2 DEF ca
  <2> QED BY <2>1, <2>2, <2>3
<1>8. V!verifyCertificateChain(k.cert) = path
  BY <1>5 DEF V!verifyCertificateChain
<1> HIDE DEF path, j, traced, cas, k, s
<1>9. /\ \A i \in DOMAIN path : k.cert.from .. k.cert.until \subseteq path[i].from .. path[i].until
      /\ \A t \in V!Range(k.scts) : \E l \in V!Range(TrustedRoot.ctlogs) :
           /\ l.id = t.log /\ V!Valid(V!During(l), t.time)
           /\ V!SCTVerifies(t, V!PreCert(path[1], path[2]), l.key)
  <2> DEFINE a == TrustedRoot.cas[j]
  <2>1. a \in V!Range(TrustedRoot.cas)
    BY <1>7 DEF V!Range
  <2> HIDE DEF a
  <2>2. path = V!Path(k.cert, a.chain) /\ path # <<>>
    BY <1>7 DEF a
  <2> QED BY <1>3, <2>1, <2>2, Zenon
<1>10. Times(s) \subseteq k.cert.from .. k.cert.until
  BY DEF AsksForMore, Times, s, k
<1>11. \A i \in DOMAIN path : V!ValidAtAll(path[i])
  <2> SUFFICES ASSUME NEW i \in DOMAIN path, NEW q \in DOMAIN verified
               PROVE  V!Valid(path[i], verified[q].time)
    BY DEF V!ValidAtAll
  <2> DEFINE x == verified[q].time
             lo == path[i].from
             hi == path[i].until
  <2>1. x \in lo .. hi
    BY <1>9, <1>10, VerifiedThen DEF s
  <2> HIDE DEF x, lo, hi
  <2>2. lo <= x /\ x <= hi
    BY <2>1
  <2> QED BY <2>2 DEF V!Valid, x, lo, hi
<1>12. V!verifySCTs(path[1], path[2], k.scts)
  <2> SUFFICES ASSUME NEW i \in DOMAIN k.scts
               PROVE  \E l \in V!FilterTLogs(V!trust.ctlogs, k.scts[i].log, k.scts[i].time) :
                        V!SCTVerifies(k.scts[i], V!PreCert(path[1], path[2]), V!trust.ctlogs[l].key)
    BY DEF V!verifySCTs
  <2> DEFINE t == k.scts[i]
  <2>1. t \in V!Range(k.scts)
    BY DEF V!Range
  <2> HIDE DEF t
  <2>2. PICK log \in V!Range(TrustedRoot.ctlogs) :
          /\ log.id = t.log /\ V!Valid(V!During(log), t.time)
          /\ V!SCTVerifies(t, V!PreCert(path[1], path[2]), log.key)
    BY <1>9, <2>1
  <2>3. PICK l \in DOMAIN TrustedRoot.ctlogs : log = TrustedRoot.ctlogs[l]
    BY <2>2 DEF V!Range
  <2>4. l \in DOMAIN V!trust.ctlogs /\ V!trust.ctlogs[l] = V!createTLogAuthority(log)
    BY <1>1, <2>3, TrustParts
  <2>5. /\ V!trust.ctlogs[l].id = log.id /\ V!trust.ctlogs[l].key = log.key
        /\ V!Valid(V!trust.ctlogs[l], t.time)
    BY <2>2, <2>4 DEF V!createTLogAuthority, V!Valid
  <2>6. l \in V!FilterTLogs(V!trust.ctlogs, t.log, t.time)
    BY <2>2, <2>4, <2>5 DEF V!FilterTLogs
  <2> QED BY <2>2, <2>5, <2>6 DEF t
<1>13. Len(k.scts) >= options.ctlogThreshold
  <2>1. options.ctlogThreshold = Threshold(how.options.ctLogThreshold, 1)
    BY DEF UnderCheck, IntactInv, createVerifier
  <2>2. Len(k.scts) >= Threshold(how.options.ctLogThreshold, 1)
    BY DEF AsksForMore, s, k
  <2> QED BY <2>1, <2>2
<1> QED BY <1>2, <1>3, <1>7, <1>8, <1>11, <1>12, <1>13 DEF V!CertificateHolds, V!Traced

LEMMA KeyPasses == ASSUME UnderCheck, ~ AsksForMore PROVE V!KeyError = ""
<1> DEFINE s == signing
           m == s.signer.material
<1>1. s \in Signings /\ Setting /\ entity = Intact(s, how.data)
  BY DEF UnderCheck, RoundInv, IntactInv, Checked, Setting
<1>2. entity.key = KeyFrom(s) /\ entity.unread = {}
  BY <1>1, IntactParts
<1>3. m.case \in {"x509Certificate", "publicKey"}
  BY <1>1, SigningsAssumption
<1>4. CASE m.case = "x509Certificate"
  <2>1. entity.key.case = "certificate"
    BY <1>2, <1>4 DEF KeyFrom
  <2>2. V!CertificateHolds(entity.key)
    BY <1>4, CertificatePasses
  <2>3. ~ V!CertificateUnread(entity.key)
    BY <1>2 DEF V!CertificateUnread, V!Unread
  <2> QED BY <2>1, <2>2, <2>3 DEF V!KeyError
<1>5. CASE m.case = "publicKey"
  <2>1. entity.key.case = "public-key" /\ entity.key.hint = m.hint
    BY <1>2, <1>5 DEF KeyFrom
  <2>2. m.hint \in DOMAIN how.keys
    BY <1>5 DEF AsksForMore
  <2> DEFINE h == entity.key.hint
             key == V!trust.keys[h]
  <2>3. h \in DOMAIN V!trust.keys
    BY <1>1, <2>1, <2>2, TrustedKeys
  <2>4. key.from = 0 /\ key.until = END_OF_TIME
    <3>1. h \in DOMAIN root.keys /\ root.keys[h] = [key |-> how.keys[h], start |-> V!Unset, end |-> V!Unset]
      BY <1>1, <2>1, <2>2, SigningsAssumption DEF Setting, createKeyFinder
    <3>2. V!trust.keys = V!keyLocator(root.keys)
      BY DEF V!trust, V!toTrustMaterial
    <3>3. V!During(root.keys[h]) = [from |-> 0, until |-> END_OF_TIME]
      <4> DEFINE k == root.keys[h]
      <4>1. k.start = V!Unset /\ k.end = V!Unset
        BY <3>1
      <4> HIDE DEF k
      <4>2. V!During(k) = [from |-> 0, until |-> END_OF_TIME]
        BY <4>1 DEF V!During, V!BEGINNING_OF_TIME
      <4> QED BY <4>2 DEF k
    <3> QED BY <3>1, <3>2, <3>3 DEF V!keyLocator
  <2>5. Times(s) \subseteq 0 .. END_OF_TIME
    BY <1>1, ServicesAssumption DEF Times
  <2>6. V!ValidAtAll(key)
    <3> SUFFICES ASSUME NEW q \in DOMAIN verified PROVE V!Valid(key, verified[q].time)
      BY DEF V!ValidAtAll
    <3> DEFINE x == verified[q].time
    <3>1. x \in 0 .. END_OF_TIME
      BY <2>5, VerifiedThen
    <3> HIDE DEF x, key
    <3>2. 0 <= x /\ x <= END_OF_TIME
      BY <3>1, ServicesAssumption
    <3> QED BY <2>4, <3>2 DEF V!Valid, x
  <2> QED BY <2>1, <2>3, <2>6 DEF V!KeyError
<1> QED BY <1>3, <1>4, <1>5

LEMMA BodiesPass == ASSUME UnderCheck PROVE V!BodiesError = ""
<1> DEFINE s == signing
           y == EntryIntact(s)
<1>1. s \in Signings /\ entity = Intact(s, how.data)
  BY DEF UnderCheck, RoundInv, IntactInv, Checked, Setting
<1>2. /\ entity.sig = Signature(s).sig /\ entity.digest = digest(s.artifact.data)
      /\ entity.entries = (IF s.options.tlogUpload THEN <<y>> ELSE <<>>)
      /\ entity.unread = {}
  BY <1>1, IntactParts
<1>3. y.body = Body(s) /\ y.kind = Body(s).kind /\ y.version = Body(s).version
  BY <1>1, EntryParts
<1>4. /\ Body(s).sigs = <<entity.sig>> /\ Body(s).digest = entity.digest
      /\ \/ Body(s).kind = "hashedrekord" /\ Body(s).version = "0.0.1"
         \/ Body(s).kind = "dsse" /\ Body(s).version = "0.0.1"
         \/ Body(s).kind = "intoto" /\ Body(s).version = "0.0.2"
  BY <1>1, <1>2, BodyParts
<1> HIDE DEF s, y
<1>5. V!BodyHolds(y)
  BY <1>3, <1>4 DEF V!BodyHolds, V!verifyDSSETLogBody, V!verifyHashedRekordTLogBody,
                    V!verifyIntotoTLogBody, V!SpeaksOf
<1>6. \A k \in DOMAIN entity.entries : entity.entries[k] = y
  BY <1>2
<1>7. V!BodyError(y) = ""
  BY <1>2, <1>5 DEF V!BodyError, V!BodyUnread, V!Unread
<1>8. {k \in DOMAIN entity.entries : V!BodyError(entity.entries[k]) # ""} = {}
  BY <1>6, <1>7
<1> QED BY <1>8 DEF V!BodiesError

LEMMA SignaturePasses ==
  ASSUME UnderCheck, ~ AsksForMore
  PROVE  V!MadeBy(entity.sig, V!SignerKey, entity.artifact)
<1> DEFINE s == signing
           m == s.signer.material
<1>1. s \in Signings /\ Setting /\ entity = Intact(s, how.data)
  BY DEF UnderCheck, RoundInv, IntactInv, Checked, Setting
<1>2. /\ entity.sig = Signature(s).sig /\ entity.key = KeyFrom(s)
      /\ entity.artifact = IF s.call = "sign" THEN how.data ELSE s.artifact
  BY <1>1, IntactParts
<1>3. /\ m.case \in {"x509Certificate", "publicKey"}
      /\ s.artifact = [type |-> s.artifact.type, data |-> s.artifact.data]
  BY <1>1, SigningsAssumption
<1>4. V!SignerKey = s.signer.key
  <2>1. CASE m.case = "x509Certificate"
    <3>1. entity.key.case = "certificate" /\ entity.key.cert = m.certificate.cert
      BY <1>2, <2>1 DEF KeyFrom
    <3>2. m.certificate.cert.key = s.signer.key
      BY <1>1, <2>1, CertificatesAssumption
    <3> QED BY <3>1, <3>2 DEF V!SignerKey
  <2>2. CASE m.case = "publicKey"
    <3>1. entity.key.case = "public-key" /\ entity.key.hint = m.hint
      BY <1>2, <2>2 DEF KeyFrom
    <3>2. m.hint \in DOMAIN how.keys /\ how.keys[m.hint] = s.signer.key
      BY <2>2 DEF AsksForMore
    <3> QED BY <1>1, <3>1, <3>2, TrustedKeys DEF V!SignerKey
  <2> QED BY <1>3, <2>1, <2>2
<1>5. Signature(s).sig = [by |-> s.signer.key, over |-> entity.artifact]
  <2>1. Signature(s).sig = [by |-> s.signer.key, over |-> prepare(CaseOf(s), s.artifact)]
    BY DEF Signature
  <2>2. prepare(CaseOf(s), s.artifact) = entity.artifact
    <3>1. CASE s.call = "sign"
      <4>1. how.data = s.artifact.data
        BY <3>1 DEF AsksForMore
      <4> QED BY <1>2, <3>1, <4>1 DEF prepare, CaseOf
    <3>2. CASE s.call # "sign"
      BY <1>2, <1>3, <3>2 DEF prepare, CaseOf, preAuthEncoding
    <3> QED BY <3>1, <3>2
  <2> QED BY <2>1, <2>2
<1> QED BY <1>2, <1>4, <1>5 DEF V!MadeBy

LEMMA PolicyPasses == ASSUME UnderCheck, ~ AsksForMore PROVE V!PolicyErrors = {""}
<1> DEFINE s == signing
           m == s.signer.material
           policy == createVerificationPolicy(how.options)
<1>1. /\ s \in Signings /\ entity = Intact(s, how.data)
      /\ options.san = policy.san /\ options.issuer = policy.issuer
  BY DEF UnderCheck, RoundInv, IntactInv, Checked, Setting, createVerifier
<1>2. entity.key = KeyFrom(s)
  BY <1>1, IntactParts
<1>3. m.case \in {"x509Certificate", "publicKey"}
  BY <1>1, SigningsAssumption
<1>4. CASE m.case = "publicKey"
  <2>1. policy.san = <<>> /\ policy.issuer = <<>>
    BY <1>4 DEF AsksForMore
  <2>2. V!IssuerError = ""
    BY <1>1, <2>1 DEF V!IssuerError
  <2>3. V!NameErrors(V!Identity.san, options.san) = {""}
    BY <1>1, <2>1 DEF V!NameErrors
  <2> QED BY <2>2, <2>3 DEF V!PolicyErrors
<1>5. CASE m.case = "x509Certificate"
  <2> DEFINE name == m.certificate.identity.san
  <2>1. V!Identity = m.certificate.identity
    BY <1>2, <1>5 DEF KeyFrom, V!Identity
  <2>2. V!Listed(name) /\ V!Plain(name)
    BY <1>1, <1>5, CertificatesAssumption
  <2>3. policy.san \in {<<>>, name} /\ policy.issuer \in {<<>>, m.certificate.identity.issuer}
    BY <1>5 DEF AsksForMore
  <2>4. options.san # <<>> => options.san = name /\ name # <<>>
    BY <1>1, <2>3
  <2>5. name # <<>> => V!Followed(name) /\ V!Matches(name, name)
    BY <2>2, NameMatches
  <2> HIDE DEF policy
  <2>6. V!IssuerError = ""
    BY <1>1, <2>1, <2>3 DEF V!IssuerError
  <2>7. V!NameErrors(V!Identity.san, options.san) = {""}
    BY <2>1, <2>4, <2>5 DEF V!NameErrors
  <2> QED BY <2>6, <2>7 DEF V!PolicyErrors
<1> QED BY <1>3, <1>4, <1>5

(* Every step keeps it.                                                    *)
LEMMA SequenceIsSame == ASSUME entity' = entity, verified' = verified PROVE InSequence' <=> InSequence
<1>1. V!Timestamps' = V!Timestamps
  BY DEF V!Timestamps
<1>2. ASSUME NEW k PROVE V!Timestamp(k)' = V!Timestamp(k)
  BY DEF V!Timestamp
<1> QED BY <1>1, <1>2 DEF InSequence

LEMMA DeserializeIntact == ASSUME RoundInv, Deserialize PROVE IntactInv'
<1> DEFINE s == signing
<1>1. /\ UNCHANGED <<signing, json, altered, how, verified>>
      /\ s \in Signings /\ verified = <<>> /\ Kept
  BY DEF RoundInv, Deserialize, Setting
<1>2. Read' = Read
  BY <1>1 DEF Read
<1>3. CASE invalidValues(Read) # {}
  BY <1>3 DEF Deserialize, Read, IntactInv, Checked
<1>4. CASE invalidValues(Read) = {}
  <2> SUFFICES ASSUME altered = {} PROVE IntactInv'
    BY <1>1 DEF IntactInv
  <2>1. /\ stage' = "timestamps" /\ entity' = toSignedEntity(Read, how.data)
        /\ options' = createVerifier(how.options)
    BY <1>4 DEF Deserialize, Read
  <2>2. entity' = Intact(s, how.data)
    BY <1>1, <2>1 DEF Intact, Kept, Read
  <2>3. InSequence'
    <3> DEFINE n == Len(Intact(s, how.data).entries)
               m == Len(Intact(s, how.data).tsts)
    <3>1. Intact(s, how.data).entries \in {<<>>, <<EntryIntact(s)>>}
      BY <1>1, IntactParts
    <3>2. Intact(s, how.data).tsts \in {<<>>, <<TSAnswer(s)>>}
      BY <1>1, IntactParts DEF rfc3161Timestamps
    <3>3. n \in Nat /\ m \in Nat
      BY <3>1, <3>2
    <3>4. V!Timestamps' = n + m
      BY <2>2 DEF V!Timestamps
    <3>5. Len(verified') = 0
      BY <1>1
    <3> HIDE DEF n, m
    <3>6. 0 <= V!Timestamps' /\ 1 .. 0 = {}
      BY <3>3, <3>4
    <3> QED BY <3>5, <3>6 DEF InSequence
  <2>4. entity' = Intact(signing', how.data') /\ options' = createVerifier(how.options')
    BY <1>1, <2>1, <2>2
  <2>5. invalidValues(Read') = {}
    BY <1>2, <1>4
  <2> QED BY <2>1, <2>3, <2>4, <2>5 DEF IntactInv
<1> QED BY <1>3, <1>4

LEMMA VerifyIntact == ASSUME RoundInv, IntactInv, Verify PROVE IntactInv'
<1>1. UNCHANGED <<signing, json, altered, how>> /\ UNCHANGED <<entity, root, options>>
  BY DEF Verify, V!Next, V!VerifyTimestamp, V!CountTimestamps, V!VerifySigningKey, V!VerifyTLogs,
         V!VerifySignature, V!VerifyPolicy, V!Check, V!Throw
<1>2. Checked
  BY DEF Verify, V!Next, V!VerifyTimestamp, V!CountTimestamps, V!VerifySigningKey, V!VerifyTLogs,
         V!VerifySignature, V!VerifyPolicy, V!Check, Checked
<1> SUFFICES ASSUME altered = {} PROVE IntactInv'
  BY <1>1 DEF IntactInv
<1>3. UnderCheck
  BY <1>2 DEF UnderCheck
<1>4. /\ entity = Intact(signing, how.data) /\ options = createVerifier(how.options)
      /\ invalidValues(Read) = {} /\ InSequence
  BY <1>3 DEF UnderCheck, IntactInv
<1>5. Read' = Read /\ (AsksForMore' <=> AsksForMore)
  BY <1>1 DEF Read, AsksForMore
<1>6. ASSUME InSequence', stage' = "rejected" => AsksForMore PROVE IntactInv'
  BY <1>1, <1>4, <1>5, <1>6 DEF IntactInv
<1>7. ASSUME NEW now, NEW code, NEW next, V!Check(now, code, next), next # "rejected",
             ~ AsksForMore => code = ""
      PROVE  IntactInv'
  <2>1. verified' = verified /\ (stage' = "rejected" => AsksForMore)
    BY <1>7 DEF V!Check, V!Throw
  <2> QED BY <1>1, <1>4, <1>6, <2>1, SequenceIsSame
<1>8. CASE V!VerifyTimestamp
  <2> DEFINE n == Len(verified)
  <2>1. n + 1 <= V!Timestamps
    BY <1>8 DEF V!VerifyTimestamp
  <2>2. n \in Nat /\ DOMAIN verified = 1 .. n /\ verified \in Seq(Stamps)
    BY <1>2, <1>3, VerifiedThen DEF RoundInv, Passed, Checked
  <2>3. V!TimestampError(n + 1) = "" /\ V!Timestamps \in Nat
    <3> HIDE DEF n
    <3>1. V!Timestamps \in Nat /\ \A k \in 1 .. V!Timestamps : V!TimestampError(k) = ""
      BY <1>3, Evidence
    <3>2. n \in Nat /\ V!Timestamps \in Nat
      BY <2>2, <3>1
    <3>3. n + 1 \in 1 .. V!Timestamps
      BY <2>1, <3>2
    <3> QED BY <3>1, <3>3
  <2>4. verified' = Append(verified, V!Timestamp(n + 1)) /\ stage' = "timestamps"
    BY <1>8, <2>3 DEF V!VerifyTimestamp
  <2>5. Len(verified') = n + 1 /\ \A k \in 1 .. n + 1 : verified'[k] = V!Timestamp(k)
    <3>1. Len(verified') = n + 1 /\ verified'[n + 1] = V!Timestamp(n + 1)
          /\ \A k \in 1 .. n : verified'[k] = verified[k]
      BY <2>2, <2>4
    <3>2. \A k \in 1 .. n : verified[k] = V!Timestamp(k)
      BY <1>4 DEF InSequence
    <3> HIDE DEF n
    <3>3. \A k \in 1 .. n + 1 : k \in 1 .. n \/ k = n + 1
      BY <2>2
    <3> QED BY <3>1, <3>2, <3>3
  <2>6. V!Timestamps' = V!Timestamps
    BY <1>1 DEF V!Timestamps
  <2>7. ASSUME NEW k PROVE V!Timestamp(k)' = V!Timestamp(k)
    BY <1>1 DEF V!Timestamp
  <2>8. InSequence'
    <3> HIDE DEF n
    <3> QED BY <2>1, <2>5, <2>6, <2>7 DEF InSequence
  <2> QED BY <1>6, <2>4, <2>8
<1>9. CASE V!CountTimestamps
  <2>1. ~ AsksForMore => V!Distinct(verified) /\ V!Enough
    BY <1>3, <1>9, CountPasses DEF V!CountTimestamps
  <2>2. V!Check("timestamps", IF V!Distinct(verified) /\ V!Enough THEN "" ELSE "TIMESTAMP_ERROR", "key")
    BY <1>9 DEF V!CountTimestamps
  <2> QED BY <1>7, <2>1, <2>2
<1>10. CASE V!VerifySigningKey
  BY <1>3, <1>7, <1>10, KeyPasses DEF V!VerifySigningKey
<1>11. CASE V!VerifyTLogs
  BY <1>3, <1>7, <1>11, BodiesPass DEF V!VerifyTLogs
<1>12. CASE V!VerifySignature
  <2>1. ~ AsksForMore => V!MadeBy(entity.sig, V!SignerKey, entity.artifact)
    BY <1>3, SignaturePasses
  <2> QED BY <1>7, <1>12, <2>1 DEF V!VerifySignature
<1>13. CASE V!VerifyPolicy
  <2>1. PICK code \in V!PolicyErrors : V!Check("policy", code, "accepted")
    BY <1>13 DEF V!VerifyPolicy
  <2>2. ~ AsksForMore => code = ""
    BY <1>3, PolicyPasses
  <2> QED BY <1>7, <2>1, <2>2
<1> QED BY <1>8, <1>9, <1>10, <1>11, <1>12, <1>13 DEF Verify, V!Next

LEMMA NextIntact == ASSUME RoundInv, IntactInv, [Next]_vars PROVE IntactInv'
<1>1. CASE UNCHANGED vars
  <2>1. UNCHANGED <<signing, json, altered, how, stage, entity, options, verified>>
    BY <1>1 DEF vars, V!vars
  <2>2. Read' = Read /\ (AsksForMore' <=> AsksForMore) /\ (InSequence' <=> InSequence)
    BY <2>1, SequenceIsSame DEF Read, AsksForMore
  <2> QED BY <2>1, <2>2 DEF IntactInv, Checked
<1>2. CASE Sign
  BY <1>2 DEF Sign, IntactInv, Checked
<1>3. CASE Alter
  BY <1>3 DEF Alter, IntactInv
<1> QED BY <1>1, <1>2, <1>3, DeserializeIntact, VerifyIntact DEF Next

(* SignedIsAccepted: a bundle that is verified as it was created is accepted   *)
(* by whoever asks for no more than there is.                              *)
THEOREM IntactIsAccepted == Spec => []SignedIsAccepted
<1>1. Init => IntactInv
  BY DEF Init, IntactInv, Checked
<1>2. RoundInv /\ IntactInv /\ [Next]_vars => IntactInv'
  BY NextIntact
<1>3. IntactInv => SignedIsAccepted
  BY DEF IntactInv, SignedIsAccepted, Checked
<1> QED BY <1>1, <1>2, <1>3, AlwaysRoundInv, PTL DEF Spec
=============================================================================
