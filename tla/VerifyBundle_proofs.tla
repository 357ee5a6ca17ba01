------------------------- MODULE VerifyBundle_proofs -------------------------
(* Theorems about VerifyBundle, for any bundle, trusted root and options, and  *)
(* first about CertChain, for any certificates: what comes out of the search  *)
(* for a path and the checks after it is what a path is for.               *)
EXTENDS VerifyBundle, FiniteSetTheorems, SequenceTheorems, WellFoundedInduction, TLAPS

(* Any set of numbers has a least one.                                     *)
LEMMA LeastNumber ==
  ASSUME NEW S \in SUBSET Nat, S # {}
  PROVE  \E x \in S : \A y \in S : x <= y
<1>1. PICK x \in S : \A y \in S : ~ (<<y, x>> \in OpToRel(<, Nat))
  BY NatLessThanWellFounded, WFMin
<1>2. ASSUME NEW y \in S PROVE x <= y
  <2>1. ~ (y < x)
    BY <1>1 DEF OpToRel
  <2> QED BY <2>1
<1> QED BY <1>2

(* A way up that ends: every certificate is signed with the key of the next,  *)
(* and the last with its own.                                              *)
LEMMA IssuerSigned ==
  ASSUME NEW certs, NEW v, NEW u \in findIssuer(certs, v)
  PROVE  certs[v].by = certs[u].key
<1>1. CASE SelfSigned(certs[v])
  <2>1. u = v /\ certs[v].by = certs[v].key
    BY <1>1 DEF findIssuer, SelfSigned, verify
  <2> QED BY <2>1
<1>2. CASE ~ SelfSigned(certs[v])
  BY <1>2 DEF findIssuer, verify
<1> QED BY <1>1, <1>2

(* What the sort leaves is a path that was built, longer than its leaf.    *)
LEMMA SortBuilds ==
  ASSUME NEW certs, sort(certs) # <<>>
  PROVE  sort(certs) \in buildPaths(certs) /\ Len(sort(certs)) > 1
<1> DEFINE paths == {w \in buildPaths(certs) : Len(w) > 1}
           best == {w \in paths : \A v \in paths :
                      Len(w) < Len(v) \/ (Len(w) = Len(v) /\ ~ After(v, w))}
<1>1. sort(certs) = IF best = {} THEN <<>> ELSE CHOOSE w \in best : TRUE
  BY DEF sort
<1> HIDE DEF best
<1>2. sort(certs) \in best
  BY <1>1
<1> QED BY <1>2 DEF best

(* A path that was built is a way that ends, and the search did not throw. *)
LEMMA BuiltIsWay ==
  ASSUME NEW certs, NEW w \in buildPaths(certs)
  PROVE  w \in Ways(certs) /\ Ends(certs, Top(w))
<1> DEFINE Throws(x) == findIssuer(certs, Top(x)) = {} \/ Above(certs, Top(x)) \cap Range(x) # {}
<1>1. buildPaths(certs) = IF \E x \in Ways(certs) : Throws(x) THEN {}
                          ELSE {x \in Ways(certs) : Ends(certs, Top(x))}
  BY DEF buildPaths
<1> HIDE DEF Throws
<1> QED BY <1>1

LEMMA WayGoesUp ==
  ASSUME NEW certs, NEW w \in Ways(certs)
  PROVE  /\ \E n \in DOMAIN certs : w \in [1 .. n -> DOMAIN certs]
         /\ w[1] = Len(certs) /\ IsInjective(w)
         /\ \A k \in 2 .. Len(w) : w[k - 1] \in DOMAIN certs => w[k] \in Above(certs, w[k - 1])
<1> DEFINE above == [v \in DOMAIN certs |-> Above(certs, v)]
<1>1. /\ w \in UNION {[1 .. n -> DOMAIN certs] : n \in DOMAIN certs}
      /\ w[1] = Len(certs) /\ IsInjective(w)
      /\ \A k \in 2 .. Len(w) : w[k] \in above[w[k - 1]]
  BY DEF Ways
<1> QED BY <1>1

(* The path that is found for a leaf.                                      *)
LEMMA PathFound ==
  ASSUME NEW trusted, trusted \in Seq(Range(trusted)), NEW leaf, Path(leaf, trusted) # <<>>
  PROVE  \E n \in DOMAIN trusted : \E w \in [1 .. n + 1 -> 1 .. Len(trusted) + 1] :
           LET path == Path(leaf, trusted)
           IN  /\ path \in [1 .. n + 1 -> Range(trusted) \cup {leaf}] /\ checkPath(path)
               /\ path[1] = leaf /\ IsInjective(w)
               /\ \A k \in 2 .. n + 1 : w[k] \in DOMAIN trusted /\ path[k] = trusted[w[k]]
               /\ \A k \in 2 .. n + 1 : path[k - 1].by = path[k].key
               /\ path[n + 1].by = path[n + 1].key
<1> DEFINE certs == Append(trusted, leaf)
           order == sort(certs)
           path  == [k \in DOMAIN order |-> certs[order[k]]]
<1>1. checkPath(path) /\ Path(leaf, trusted) = path
  BY DEF Path
<1>2. order # <<>>
  <2>1. path # <<>>
    BY <1>1
  <2> HIDE DEF order
  <2> QED BY <2>1
<1>3. certs \in Seq(Range(trusted) \cup {leaf}) /\ Len(certs) = Len(trusted) + 1
      /\ DOMAIN certs = 1 .. Len(trusted) + 1 /\ DOMAIN trusted = 1 .. Len(trusted) /\ Len(trusted) \in Nat
      /\ certs[Len(trusted) + 1] = leaf /\ \A k \in DOMAIN trusted : certs[k] = trusted[k]
  BY DEF Range
<1> HIDE DEF certs
<1>4. order \in Ways(certs) /\ Ends(certs, Top(order)) /\ Len(order) > 1
  BY <1>2, SortBuilds, BuiltIsWay
<1>5. PICK m \in DOMAIN certs : order \in [1 .. m -> DOMAIN certs]
  BY <1>4, WayGoesUp
<1>6. m \in Nat /\ Len(order) = m /\ m > 1 /\ DOMAIN order = 1 .. m
  BY <1>3, <1>4, <1>5
<1>7. order[1] = Len(certs) /\ IsInjective(order)
      /\ \A k \in 2 .. m : order[k] \in Above(certs, order[k - 1])
  BY <1>4, <1>5, <1>6, WayGoesUp
<1> HIDE DEF order
<1>8. path[1] = leaf
  BY <1>3, <1>6, <1>7
<1>9. ASSUME NEW k \in 2 .. m
      PROVE  order[k] \in DOMAIN trusted /\ path[k] = trusted[order[k]]
  <2>1. order[k] # order[1] /\ order[k] \in 1 .. Len(trusted) + 1
    <3>1. k \in DOMAIN order /\ 1 \in DOMAIN order /\ k # 1
      BY <1>6
    <3>2. order[k] # order[1]
      BY <1>7, <3>1 DEF IsInjective
    <3> QED BY <1>3, <1>5, <1>6, <3>1, <3>2
  <2>2. order[k] \in 1 .. Len(trusted)
    BY <1>3, <1>7, <2>1
  <2> QED BY <1>3, <1>6, <2>2
<1>10. ASSUME NEW k \in 2 .. m PROVE path[k - 1].by = path[k].key
  <2>1. order[k] \in findIssuer(certs, order[k - 1])
    BY <1>7 DEF Above
  <2>2. path[k - 1] = certs[order[k - 1]] /\ path[k] = certs[order[k]]
    BY <1>6
  <2> QED BY <2>1, <2>2, IssuerSigned
<1>11. path[m].by = path[m].key
  <2>1. PICK u \in findIssuer(certs, order[m]) : certs[u] = certs[order[m]]
    BY <1>4, <1>6 DEF Ends, Top
  <2>2. path[m] = certs[order[m]]
    BY <1>6
  <2> QED BY <2>1, <2>2, IssuerSigned
<1>12. m - 1 \in DOMAIN trusted /\ (m - 1) + 1 = m
  BY <1>3, <1>6
<1>13. path \in [1 .. m -> Range(trusted) \cup {leaf}]
  BY <1>3, <1>5, <1>6
<1> HIDE DEF path
<1> QED
  <2> DEFINE n == m - 1
  <2>1. n \in DOMAIN trusted /\ n + 1 = m /\ order \in [1 .. n + 1 -> 1 .. Len(trusted) + 1]
    BY <1>3, <1>5, <1>12
  <2> HIDE DEF n
  <2> QED BY <1>1, <1>7, <1>8, <1>9, <1>10, <1>11, <1>13, <2>1

(* The path that is found for a certificate goes up from it, its second is by  *)
(* whose key it was signed, and the rest of it is a way to certify it as      *)
(* RFC 5280 has it (CertificateChainVerifier.verify).                      *)
THEOREM PathCertifies ==
  ASSUME NEW trusted, trusted \in Seq(Range(trusted)), NEW leaf, Path(leaf, trusted) # <<>>,
         \A c \in Range(trusted) : c.pathLen \in Int
  PROVE  LET path == Path(leaf, trusted)
         IN  /\ path \in Seq(Range(trusted) \cup {leaf}) /\ Len(path) > 1
             /\ path[1] = leaf /\ path[2].key = leaf.by
             /\ {path[k] : k \in 2 .. Len(path)} \in Certifications(leaf, trusted)
<1> DEFINE path == Path(leaf, trusted)
<1>0. PICK n \in DOMAIN trusted : \E w \in [1 .. n + 1 -> 1 .. Len(trusted) + 1] :
        /\ path \in [1 .. n + 1 -> Range(trusted) \cup {leaf}] /\ checkPath(path)
        /\ path[1] = leaf /\ IsInjective(w)
        /\ \A k \in 2 .. n + 1 : w[k] \in DOMAIN trusted /\ path[k] = trusted[w[k]]
        /\ \A k \in 2 .. n + 1 : path[k - 1].by = path[k].key
        /\ path[n + 1].by = path[n + 1].key
  BY PathFound
<1>1. PICK w \in [1 .. n + 1 -> 1 .. Len(trusted) + 1] :
        /\ path \in [1 .. n + 1 -> Range(trusted) \cup {leaf}] /\ checkPath(path)
        /\ path[1] = leaf /\ IsInjective(w)
        /\ \A k \in 2 .. n + 1 : w[k] \in DOMAIN trusted /\ path[k] = trusted[w[k]]
        /\ \A k \in 2 .. n + 1 : path[k - 1].by = path[k].key
        /\ path[n + 1].by = path[n + 1].key
  BY <1>0
<1> HIDE DEF path
<1>d. Len(trusted) \in Nat /\ DOMAIN trusted = 1 .. Len(trusted) /\ n \in Nat \ {0}
  OBVIOUS
<1>2. n \in Nat \ {0} /\ path \in Seq(Range(trusted) \cup {leaf}) /\ Len(path) = n + 1
  <2>1. n + 1 \in Nat /\ path \in [1 .. n + 1 -> Range(trusted) \cup {leaf}]
    BY <1>1, <1>d
  <2>2. path \in Seq(Range(trusted) \cup {leaf})
    <3> DEFINE S == Range(trusted) \cup {leaf}
    <3>1. \E m \in Nat : path \in [1 .. m -> S]
      BY <2>1
    <3> HIDE DEF S
    <3>2. path \in Seq(S)
      BY <3>1, SeqDef
    <3> QED BY <3>2 DEF S
  <2> QED BY <1>d, <2>1, <2>2, LenProperties
<1> DEFINE p == [i \in 1 .. n |-> w[i + 1]]
           q == [k \in DOMAIN p |-> trusted[p[k]]]
           whole == <<leaf>> \o q
<1>3. p \in [1 .. n -> DOMAIN trusted] /\ IsInjective(p)
  <2>1. \A i \in 1 .. n : i + 1 \in 2 .. n + 1 /\ i + 1 \in DOMAIN w
    BY <1>d
  <2>2. p \in [1 .. n -> DOMAIN trusted]
    BY <1>1, <2>1
  <2>3. ASSUME NEW i \in 1 .. n, NEW j \in 1 .. n, p[i] = p[j] PROVE i = j
    <3>1. w[i + 1] = w[j + 1]
      BY <2>3
    <3>2. i + 1 = j + 1
      BY <1>1, <2>1, <3>1 DEF IsInjective
    <3> QED BY <1>d, <3>2
  <2> QED BY <2>2, <2>3 DEF IsInjective
<1>4. \A i \in 1 .. n : q[i] = path[i + 1]
  BY <1>1, <1>2
<1>5. q \in Seq(Range(trusted)) /\ Len(q) = n
  <2>1. \A k \in 1 .. n : trusted[p[k]] \in Range(trusted)
    BY <1>3 DEF Range
  <2>2. n \in Nat /\ q \in [1 .. n -> Range(trusted)]
    BY <1>d, <2>1
  <2> HIDE DEF q
  <2>3. q \in Seq(Range(trusted))
    BY <2>2, SeqDef
  <2> QED BY <2>2, <2>3, LenProperties
<1> HIDE DEF q
<1>6. whole \in Seq(Range(trusted) \cup {leaf}) /\ Len(whole) = n + 1
      /\ whole[1] = leaf /\ \A k \in 2 .. n + 1 : whole[k] = q[k - 1]
  <2>1. <<leaf>> \in Seq(Range(trusted) \cup {leaf}) /\ q \in Seq(Range(trusted) \cup {leaf})
    BY <1>5
  <2> QED BY <1>2, <1>5, <2>1
<1>7. \A k \in 1 .. n + 1 : whole[k] = path[k]
  <2>1. whole[1] = path[1]
    BY <1>1, <1>6
  <2>2. ASSUME NEW k \in 2 .. n + 1 PROVE whole[k] = path[k]
    <3>1. k - 1 \in 1 .. n /\ (k - 1) + 1 = k
      BY <1>d
    <3> QED BY <1>4, <1>6, <3>1
  <2>3. \A k \in 1 .. n + 1 : k = 1 \/ k \in 2 .. n + 1
    BY <1>d
  <2> QED BY <2>1, <2>2, <2>3
<1> HIDE DEF whole
<1>8. CertifiedBy(p, leaf, trusted)
  <2>1. whole[n + 1].by = whole[n + 1].key
    BY <1>1, <1>2, <1>7
  <2>2. ASSUME NEW k \in 2 .. n + 1
        PROVE  /\ whole[k].key = whole[k - 1].by /\ whole[k].subject = whole[k - 1].issuer
               /\ whole[k].ca /\ whole[k].usage # "other"
               /\ whole[k].pathLen # NoLimit => Cardinality(2 .. k - 1) <= whole[k].pathLen
    <3>1. whole[k] = path[k] /\ whole[k - 1] = path[k - 1] /\ path[k] \in Range(trusted)
      <4>1. k \in 1 .. n + 1 /\ k - 1 \in 1 .. n + 1
        BY <1>d
      <4> QED BY <1>1, <1>7, <4>1 DEF Range
    <3>2. path[k - 1].issuer = path[k].subject /\ isCA(path[k])
      <4>1. k - 1 \in 1 .. Len(path) - 1 /\ (k - 1) + 1 = k /\ k \in 2 .. Len(path)
        BY <1>2, <1>d
      <4> QED BY <1>1, <4>1 DEF checkPath
    <3>3. path[k].pathLen # NoLimit => path[k].pathLen >= k - 2
      <4>1. k \in DOMAIN path
        BY <1>1, <1>2, <1>7, <1>d
      <4>2. path[k].ca
        BY <3>2 DEF isCA
      <4> QED BY <1>1, <4>1, <4>2 DEF checkPath
    <3>4. Cardinality(2 .. k - 1) = k - 2
      BY <1>2, FS_Interval
    <3> QED BY <1>1, <3>1, <3>2, <3>3, <3>4 DEF isCA
  <2>3. <<leaf>> \o [k \in DOMAIN p |-> trusted[p[k]]] = whole
    BY DEF whole, q
  <2> QED BY <1>6, <2>1, <2>2, <2>3, ZenonT(30) DEF CertifiedBy
<1>9. {trusted[k] : k \in {p[i] : i \in DOMAIN p}} = {path[k] : k \in 2 .. n + 1}
  <2>1. \A i \in 1 .. n : trusted[p[i]] = path[i + 1] /\ i + 1 \in 2 .. n + 1
    BY <1>1, <1>2
  <2>2. \A k \in 2 .. n + 1 : k - 1 \in 1 .. n /\ (k - 1) + 1 = k
    BY <1>2
  <2>3. DOMAIN p = 1 .. n
    OBVIOUS
  <2>4. {p[i] : i \in DOMAIN p} = {p[i] : i \in 1 .. n}
    BY <2>3
  <2> HIDE DEF p
  <2>5. {trusted[k] : k \in {p[i] : i \in 1 .. n}} \subseteq {path[k] : k \in 2 .. n + 1}
    BY <2>1
  <2>6. {path[k] : k \in 2 .. n + 1} \subseteq {trusted[k] : k \in {p[i] : i \in 1 .. n}}
    BY <2>1, <2>2
  <2> QED BY <2>4, <2>5, <2>6
<1>10. {path[k] : k \in 2 .. Len(path)} \in Certifications(leaf, trusted)
  <2>1. p \in UNION {[1 .. i -> DOMAIN trusted] : i \in DOMAIN trusted}
    BY <1>1, <1>3
  <2> HIDE DEF p
  <2> QED BY <1>2, <1>3, <1>8, <1>9, <2>1 DEF Certifications
<1>11. path[2].key = leaf.by
  BY <1>1, <1>2
<1> QED BY <1>1, <1>2, <1>10, <1>11 DEF path

-----------------------------------------------------------------------------
(* Where no fork, no dead end and no other key leads astray, the search finds  *)
(* the path there is.  c is the path from the leaf: each certificate is the   *)
(* only one with the key by which the one before it was signed.             *)
Line(c, n, leaf, trusted) ==
  /\ n \in Nat \ {0} /\ c \in [1 .. n -> Range(trusted) \cup {leaf}]
  /\ c[1] = leaf /\ leaf.by # leaf.key /\ c[n].by = c[n].key
  /\ \A k \in 2 .. n :
       /\ c[k] \in Range(trusted) /\ c[k].key = c[k - 1].by /\ c[k].subject = c[k - 1].issuer
       /\ c[k].ca /\ c[k].usage \in {"absent", "keyCertSign"}
       /\ c[k].pathLen # NoLimit => k - 2 <= c[k].pathLen
  /\ \A k \in 1 .. n :
       /\ c[k].aki \in {NoId, c[k].by} /\ c[k].ski \in {NoId, c[k].key}
       /\ c[k].by = c[k].key => c[k].issuer = c[k].subject
       /\ \A t, u \in Range(trusted) \cup {leaf} : t.key = c[k].by /\ u.key = c[k].by => t = u

LEMMA LineIs ==
  ASSUME NEW trusted, trusted \in Seq(Range(trusted)), NEW leaf,
         \A c \in Range(trusted) : c.usage \in {"absent", "keyCertSign", "other"},
         NEW certs \in Certifications(leaf, trusted), Straight(certs, leaf, trusted)
  PROVE  \E n \in 2 .. Len(trusted) + 1 : \E c \in [1 .. n -> Range(trusted) \cup {leaf}] :
           Line(c, n, leaf, trusted) /\ certs = {c[k] : k \in 2 .. n}
<1>1. PICK m \in DOMAIN trusted : \E p \in [1 .. m -> DOMAIN trusted] :
        IsInjective(p) /\ CertifiedBy(p, leaf, trusted) /\ certs = {trusted[k] : k \in {p[i] : i \in DOMAIN p}}
  BY DEF Certifications
<1>2. PICK p \in [1 .. m -> DOMAIN trusted] :
        CertifiedBy(p, leaf, trusted) /\ certs = {trusted[k] : k \in {p[i] : i \in DOMAIN p}}
  BY <1>1
<1> DEFINE q == [k \in DOMAIN p |-> trusted[p[k]]]
           c == <<leaf>> \o q
           n == m + 1
           S == Range(trusted) \cup {leaf}
<1>3. Len(trusted) \in Nat /\ DOMAIN trusted = 1 .. Len(trusted) /\ m \in Nat \ {0} /\ m <= Len(trusted)
      /\ DOMAIN p = 1 .. m
  OBVIOUS
<1>4. q \in Seq(S) /\ Len(q) = m /\ \A k \in 1 .. m : q[k] = trusted[p[k]] /\ q[k] \in Range(trusted)
  <2>1. \A k \in 1 .. m : trusted[p[k]] \in Range(trusted)
    BY <1>3 DEF Range
  <2>2. m \in Nat /\ q \in [1 .. m -> S]
    BY <1>3, <2>1
  <2> HIDE DEF S
  <2>3. \A k \in 1 .. m : q[k] = trusted[p[k]]
    BY <1>3
  <2> HIDE DEF q
  <2>4. q \in Seq(S)
    BY <2>2, SeqDef, SMTT(30)
  <2> QED BY <2>1, <2>2, <2>3, <2>4, LenProperties
<1> HIDE DEF q
<1>5. c \in Seq(S) /\ Len(c) = n /\ c[1] = leaf /\ \A k \in 2 .. n : c[k] = q[k - 1]
  <2>1. <<leaf>> \in Seq(S)
    OBVIOUS
  <2> QED BY <1>3, <1>4, <2>1
<1>6. CertifiedBy(p, leaf, trusted)
      = /\ c[Len(c)].by = c[Len(c)].key
        /\ \A k \in 2 .. Len(c) :
             /\ c[k].key = c[k - 1].by /\ c[k].subject = c[k - 1].issuer
             /\ c[k].ca /\ c[k].usage # "other"
             /\ c[k].pathLen # NoLimit => Cardinality(2 .. k - 1) <= c[k].pathLen
  BY DEF CertifiedBy, q
<1> HIDE DEF c
<1>7. /\ c[n].by = c[n].key
      /\ \A k \in 2 .. n :
           /\ c[k].key = c[k - 1].by /\ c[k].subject = c[k - 1].issuer
           /\ c[k].ca /\ c[k].usage # "other"
           /\ c[k].pathLen # NoLimit => Cardinality(2 .. k - 1) <= c[k].pathLen
  BY <1>2, <1>5, <1>6
<1>8. \A k \in 2 .. n : k \in Int /\ k - 1 \in 1 .. m /\ Cardinality(2 .. k - 1) = k - 2
  <2>1. ASSUME NEW k \in 2 .. n PROVE k \in Int /\ k - 1 \in 1 .. m /\ Cardinality(2 .. k - 1) = k - 2
    <3>1. k \in Int /\ k - 1 \in 1 .. m /\ k - 1 \in Int /\ 2 \in Int /\ k >= 2
      BY <1>3
    <3>2. Cardinality(2 .. k - 1) = IF 2 > k - 1 THEN 0 ELSE (k - 1) - 2 + 1
      BY <3>1, FS_Interval
    <3> QED BY <3>1, <3>2
  <2> QED BY <2>1
<1>9. certs = {c[k] : k \in 2 .. n}
  <2>1. \A i \in 1 .. m : i + 1 \in 2 .. n /\ (i + 1) - 1 = i
    BY <1>3
  <2>2. \A i \in 1 .. m : c[i + 1] = trusted[p[i]]
    BY <1>4, <1>5, <2>1
  <2>3. \A k \in 2 .. n : c[k] = trusted[p[k - 1]]
    BY <1>4, <1>5, <1>8
  <2>4. certs = {trusted[p[i]] : i \in 1 .. m}
    BY <1>2, <1>3
  <2>5. {trusted[p[i]] : i \in 1 .. m} \subseteq {c[k] : k \in 2 .. n}
    BY <2>1, <2>2
  <2>6. {c[k] : k \in 2 .. n} \subseteq {trusted[p[i]] : i \in 1 .. m}
    BY <1>8, <2>3
  <2> QED BY <2>4, <2>5, <2>6
<1>10. leaf.by # leaf.key /\ \A x \in certs \cup {leaf} :
          /\ x.aki \in {NoId, x.by} /\ x.ski \in {NoId, x.key}
          /\ x.by = x.key => x.issuer = x.subject
          /\ \A t, u \in S : t.key = x.by /\ u.key = x.by => t = u
  <2>1. \A x \in certs \cup {leaf} : Cardinality({t \in S : t.key = x.by}) = 1
    BY DEF Straight, Range
  <2>2. IsFiniteSet(S)
    <3>1. trusted \in [1 .. Len(trusted) -> Range(trusted)]
      BY <1>3 DEF Range
    <3>2. trusted \in Surjection(1 .. Len(trusted), Range(trusted))
      BY <1>3, <3>1 DEF Surjection, Range
    <3>3. IsFiniteSet(1 .. Len(trusted))
      BY <1>3, FS_Interval
    <3> QED BY <3>2, <3>3, FS_Surjection, FS_AddElement
  <2>3. ASSUME NEW x \in certs \cup {leaf}, NEW t \in S, NEW u \in S, t.key = x.by, u.key = x.by
        PROVE  t = u
    <3> DEFINE T == {y \in S : y.key = x.by}
    <3>1. IsFiniteSet(T) /\ Cardinality(T) = 1 /\ t \in T /\ u \in T
      BY <2>1, <2>2, <2>3, FS_Subset
    <3> HIDE DEF T
    <3> QED BY <3>1, FS_Singleton
  <2> QED BY <2>3 DEF Straight
<1>11. \A k \in 1 .. n : c[k] \in certs \cup {leaf} /\ c[k] \in S
  <2>1. \A k \in 1 .. n : k = 1 \/ k \in 2 .. n
    BY <1>3
  <2> QED BY <1>3, <1>5, <1>9, <2>1
<1>12. c \in [1 .. n -> S] /\ n \in 2 .. Len(trusted) + 1
  BY <1>3, <1>5
<1>13. ASSUME NEW k \in 2 .. n
       PROVE  /\ c[k] \in Range(trusted) /\ c[k].usage \in {"absent", "keyCertSign"}
              /\ c[k].pathLen # NoLimit => k - 2 <= c[k].pathLen
  <2>1. c[k] \in Range(trusted)
    BY <1>4, <1>5, <1>8
  <2> QED BY <1>7, <1>8, <2>1
<1>14. Line(c, n, leaf, trusted)
  <2>1. n \in Nat \ {0}
    BY <1>3
  <2> HIDE DEF n
  <2> QED BY <1>5, <1>7, <1>10, <1>11, <1>12, <1>13, <2>1 DEF Line
<1> QED BY <1>9, <1>12, <1>14

(* The search ends at the first certificate that signs itself; after it the   *)
(* line says nothing new, and up to it no certificate is there twice.       *)
LEMMA LineEnds ==
  ASSUME NEW c, NEW n, NEW leaf, NEW trusted, Line(c, n, leaf, trusted)
  PROVE  \E m \in 2 .. n :
           /\ c[m].by = c[m].key /\ \A k \in 1 .. m - 1 : c[k].by # c[k].key
           /\ \A i, j \in 1 .. m : c[i] = c[j] => i = j
           /\ {c[k] : k \in 2 .. n} = {c[k] : k \in 2 .. m}
<1> DEFINE Ends1 == {k \in 1 .. n : c[k].by = c[k].key}
<1>1. /\ n \in Nat \ {0} /\ c[1].by # c[1].key /\ c[n].by = c[n].key
      /\ \A k \in 2 .. n : c[k].key = c[k - 1].by
  <2>1. c[1] = leaf /\ leaf.by # leaf.key
    BY DEF Line
  <2>2. n \in Nat \ {0} /\ c[n].by = c[n].key /\ \A k \in 2 .. n : c[k].key = c[k - 1].by
    BY Zenon DEF Line
  <2> QED BY <2>1, <2>2
<1>2. \A k \in 1 .. n : c[k] \in Range(trusted) \cup {leaf}
  BY DEF Line
<1>3. \A k \in 1 .. n : \A i, j \in 1 .. n : c[i].key = c[k].by /\ c[j].key = c[k].by => c[i] = c[j]
  BY <1>2 DEF Line
<1>4. \E m \in Ends1 : \A k \in Ends1 : m <= k
  <2>1. Ends1 \in SUBSET Nat /\ Ends1 # {}
    BY <1>1
  <2> HIDE DEF Ends1
  <2> QED BY <2>1, LeastNumber
<1>5. PICK m \in 1 .. n : c[m].by = c[m].key /\ \A k \in Ends1 : m <= k
  BY <1>4
<1>6. m \in 2 .. n
  BY <1>1, <1>5
<1>7. \A k \in 1 .. m - 1 : c[k].by # c[k].key
  <2>1. \A k \in 1 .. m - 1 : k \in 1 .. n /\ ~ (m <= k)
    BY <1>1, <1>6
  <2> QED BY <1>5, <2>1
<1>8. ASSUME NEW i \in 1 .. m - 1, NEW j \in 1 .. m - 1, c[i] = c[j] PROVE c[i + 1] = c[j + 1]
  <2>1. i + 1 \in 2 .. n /\ (i + 1) - 1 = i /\ j + 1 \in 2 .. n /\ (j + 1) - 1 = j
        /\ i + 1 \in 1 .. n /\ j + 1 \in 1 .. n /\ i \in 1 .. n
    BY <1>1, <1>6
  <2>2. c[i + 1].key = c[i].by /\ c[j + 1].key = c[i].by
    BY <1>1, <1>8, <2>1
  <2> QED BY <1>3, <2>1, <2>2
<1>9. \A i, j \in 1 .. m : i < j => c[i] # c[j]
  <2> DEFINE Twice == {d \in 0 .. m - 1 : \E i \in 1 .. m : i < m - d /\ c[i] = c[m - d]}
  <2>1. ASSUME Twice # {} PROVE FALSE
    <3>1. Twice \in SUBSET Nat
      BY <1>1, <1>6
    <3>2. \E d \in Twice : \A x \in Twice : d <= x
      <4> HIDE DEF Twice
      <4> QED BY <2>1, <3>1, LeastNumber
    <3>3. PICK d \in Twice : \A x \in Twice : d <= x
      BY <3>2
    <3>4. PICK i \in 1 .. m : i < m - d /\ c[i] = c[m - d]
      BY <3>3
    <3>5. d \in 0 .. m - 1
      OBVIOUS
    <3>6. CASE d = 0
      <4>1. i \in 1 .. m - 1 /\ m - d = m
        BY <1>6, <3>4, <3>6
      <4> QED BY <1>5, <1>7, <3>4, <4>1
    <3>7. CASE d # 0
      <4>1. /\ i \in 1 .. m - 1 /\ m - d \in 1 .. m - 1 /\ (m - d) + 1 = m - (d - 1)
            /\ i + 1 \in 1 .. m /\ i + 1 < m - (d - 1) /\ d - 1 \in 0 .. m - 1 /\ ~ (d <= d - 1)
        BY <1>6, <3>4, <3>5, <3>7
      <4>2. c[i + 1] = c[m - (d - 1)]
        <5>1. c[i + 1] = c[(m - d) + 1]
          BY <1>8, <3>4, <4>1
        <5> QED BY <4>1, <5>1
      <4>3. d - 1 \in Twice
        BY <4>1, <4>2
      <4> QED BY <3>3, <4>1, <4>3
    <3> QED BY <3>6, <3>7
  <2>2. ASSUME NEW i \in 1 .. m, NEW j \in 1 .. m, i < j, c[i] = c[j] PROVE FALSE
    <3>1. m - j \in 0 .. m - 1 /\ m - (m - j) = j
      BY <1>6
    <3>2. m - j \in Twice
      BY <2>2, <3>1
    <3> HIDE DEF Twice
    <3> QED BY <2>1, <3>2
  <2> QED BY <2>2
<1>10. \A i, j \in 1 .. m : c[i] = c[j] => i = j
  <2>1. \A i, j \in 1 .. m : i < j \/ j < i \/ i = j
    BY <1>6
  <2> QED BY <1>9, <2>1
<1>11. \A k \in m .. n : c[k] = c[m]
  <2> DEFINE Strays == {k \in m .. n : c[k] # c[m]}
  <2>1. ASSUME Strays # {} PROVE FALSE
    <3>1. Strays \in SUBSET Nat
      BY <1>1, <1>6
    <3>2. \E k \in Strays : \A x \in Strays : k <= x
      <4> HIDE DEF Strays
      <4> QED BY <2>1, <3>1, LeastNumber
    <3>3. PICK k \in Strays : \A x \in Strays : k <= x
      BY <3>2
    <3>4. k \in m .. n /\ k # m
      OBVIOUS
    <3>5. k - 1 \in m .. n /\ k \in 2 .. n /\ k \in 1 .. n /\ m \in 1 .. n /\ ~ (k <= k - 1)
      BY <1>1, <1>6, <3>4
    <3>6. c[k - 1] = c[m]
      BY <3>3, <3>5
    <3>7. c[k].key = c[m].by /\ c[m].key = c[m].by
      BY <1>1, <1>5, <3>5, <3>6
    <3> QED BY <1>3, <3>5, <3>7
  <2> QED BY <2>1
<1>12. {c[k] : k \in 2 .. n} = {c[k] : k \in 2 .. m}
  <2>1. \A k \in 2 .. n : k \in 2 .. m \/ k \in m .. n
    BY <1>1, <1>6
  <2>2. m \in 2 .. m /\ 2 .. m \subseteq 2 .. n
    BY <1>1, <1>6
  <2> QED BY <1>11, <2>1, <2>2
<1> QED BY <1>5, <1>6, <1>7, <1>10, <1>12

(* The steps of the search along such a line, which are no others than to the  *)
(* first place of the next certificate on it.                              *)
Along(w, c, m, certs) ==
  /\ w \in [1 .. m -> DOMAIN certs] /\ w[1] = Len(certs)
  /\ \A k \in 1 .. m : certs[w[k]] = c[k] /\ findIssuer(certs, w[k]) # {}
  /\ \A k \in 1 .. m - 1 : Above(certs, w[k]) = {w[k + 1]} /\ ~ Ends(certs, w[k])
  /\ Above(certs, w[m]) = {} /\ Ends(certs, w[m])

LEMMA LineIsGone ==
  ASSUME NEW trusted, trusted \in Seq(Range(trusted)), NEW leaf, NEW c, NEW n,
         Line(c, n, leaf, trusted), NEW m \in 2 .. n,
         c[m].by = c[m].key, \A k \in 1 .. m - 1 : c[k].by # c[k].key,
         NEW certs, certs = Append(trusted, leaf)
  PROVE  \E w : Along(w, c, m, certs)
<1> DEFINE place(k) == CHOOSE v \in localCerts(certs) : certs[v] = c[k]
           w == [k \in 1 .. m |-> IF k = 1 THEN Len(certs) ELSE place(k)]
<1>1. /\ Len(trusted) \in Nat /\ Len(certs) = Len(trusted) + 1 /\ DOMAIN certs = 1 .. Len(certs)
      /\ certs[Len(certs)] = leaf /\ \A k \in 1 .. Len(trusted) : certs[k] = trusted[k]
      /\ DOMAIN trusted = 1 .. Len(trusted)
  OBVIOUS
<1>2. n \in Nat /\ c[1] = leaf /\ \A k \in 2 .. n : c[k] \in Range(trusted)
  BY Zenon DEF Line
<1>3. ASSUME NEW k \in 2 .. m PROVE place(k) \in localCerts(certs) /\ certs[place(k)] = c[k]
  <2> DEFINE Places == {v \in 1 .. Len(trusted) : certs[v] = c[k]}
  <2>1. Places \in SUBSET Nat /\ Places # {}
    <3>1. c[k] \in Range(trusted)
      BY <1>2
    <3> QED BY <1>1, <3>1 DEF Range
  <2>2. \E v \in Places : \A u \in Places : v <= u
    <3> HIDE DEF Places
    <3> QED BY <2>1, LeastNumber
  <2>3. PICK v \in Places : \A u \in Places : v <= u
    BY <2>2
  <2>4. v \in DOMAIN certs /\ certs[v] = c[k] /\ v \in 1 .. Len(trusted)
    BY <1>1
  <2>5. ASSUME NEW u \in 1 .. v - 1 PROVE certs[u] # certs[v]
    <3>1. u \in 1 .. Len(trusted) /\ ~ (v <= u)
      BY <1>1, <2>4
    <3> QED BY <2>3, <2>4, <3>1
  <2>6. v \in localCerts(certs)
    BY <2>4, <2>5 DEF localCerts
  <2> QED BY <2>4, <2>6
<1> HIDE DEF place
<1>4. w \in [1 .. m -> DOMAIN certs] /\ w[1] = Len(certs) /\ \A k \in 1 .. m : certs[w[k]] = c[k]
  <2>1. \A k \in 1 .. m : k = 1 \/ k \in 2 .. m
    BY <1>2
  <2>2. Len(certs) \in DOMAIN certs
    BY <1>1
  <2>3. \A k \in 2 .. m : place(k) \in DOMAIN certs
    BY <1>3 DEF localCerts
  <2>4. 1 \in 1 .. m /\ \A k \in 2 .. m : k # 1 /\ k \in 1 .. m
    BY <1>2
  <2> QED BY <1>1, <1>2, <1>3, <2>1, <2>2, <2>3, <2>4
<1>5. \A k \in 2 .. m : w[k] \in localCerts(certs)
  BY <1>2, <1>3
<1> HIDE DEF w
<1>6. ASSUME NEW k \in 1 .. m - 1
      PROVE  Above(certs, w[k]) = {w[k + 1]} /\ ~ Ends(certs, w[k]) /\ findIssuer(certs, w[k]) # {}
  <2>1. k \in 1 .. n /\ k + 1 \in 2 .. n /\ k + 1 \in 2 .. m /\ k \in 1 .. m /\ k + 1 \in 1 .. m
    BY <1>2
  <2>2. certs[w[k]] = c[k] /\ certs[w[k + 1]] = c[k + 1] /\ w[k] \in DOMAIN certs
        /\ w[k + 1] \in localCerts(certs)
    BY <1>4, <1>5, <2>1
  <2>3. c[k + 1].key = c[k].by /\ c[k + 1].subject = c[k].issuer /\ c[k].by # c[k].key
    <3>1. (k + 1) - 1 = k
      BY <2>1
    <3>2. c[k + 1].key = c[(k + 1) - 1].by /\ c[k + 1].subject = c[(k + 1) - 1].issuer
      BY <2>1, Zenon DEF Line
    <3> QED BY <3>1, <3>2
  <2> DEFINE v == w[k]
             u == w[k + 1]
  <2> HIDE DEF v, u
  <2>4. v \in DOMAIN certs /\ u \in localCerts(certs) /\ certs[v] = c[k] /\ certs[u] = c[k + 1]
    BY <2>2 DEF v, u
  <2>5. ~ SelfSigned(certs[v])
    BY <2>3, <2>4 DEF SelfSigned, verify
  <2>6. Names(certs[v], certs[u]) /\ verify(certs[v], certs[u])
    <3>1. c[k].aki \in {NoId, c[k].by} /\ c[k + 1].ski \in {NoId, c[k + 1].key}
      <4>1. \A i \in 1 .. n : c[i].aki \in {NoId, c[i].by} /\ c[i].ski \in {NoId, c[i].key}
        BY Zenon DEF Line
      <4> QED BY <2>1, <1>2, <4>1
    <3> QED BY <2>3, <2>4, <3>1 DEF Names, verify
  <2>7. ASSUME NEW x \in localCerts(certs), verify(certs[v], certs[x]) PROVE x = u
    <3>1. x \in DOMAIN certs /\ u \in DOMAIN certs
      BY <2>4 DEF localCerts
    <3>2. \A i, j \in Range(trusted) \cup {leaf} : i.key = c[k].by /\ j.key = c[k].by => i = j
      BY <2>1, Zenon DEF Line
    <3>3. certs[x].key = c[k].by /\ certs[u].key = c[k].by
      BY <2>3, <2>4, <2>7 DEF verify
    <3>4. certs[x] = certs[u]
      <4>1. \A i \in DOMAIN certs : certs[i] \in Range(trusted) \cup {leaf}
        BY <1>1 DEF Range
      <4> QED BY <3>1, <3>2, <3>3, <4>1
    <3>5. /\ \A y \in 1 .. x - 1 : certs[y] # certs[x]
          /\ \A y \in 1 .. u - 1 : certs[y] # certs[u]
      BY <2>4 DEF localCerts
    <3>6. ~ (x \in 1 .. u - 1) /\ ~ (u \in 1 .. x - 1)
      BY <3>4, <3>5
    <3>7. x \in 1 .. Len(certs) /\ u \in 1 .. Len(certs) /\ Len(certs) \in Nat
      BY <1>1, <3>1
    <3> QED BY <3>6, <3>7
  <2>8. findIssuer(certs, v) = {u}
    BY <2>4, <2>5, <2>6, <2>7 DEF findIssuer
  <2>9. certs[u] # certs[v]
    BY <2>3, <2>4
  <2> QED BY <2>8, <2>9 DEF Above, Ends, v, u
<1>7. Above(certs, w[m]) = {} /\ Ends(certs, w[m]) /\ findIssuer(certs, w[m]) # {}
  <2>1. m \in 1 .. n /\ m \in 1 .. m
    BY <1>2
  <2>2. c[m].issuer = c[m].subject
    BY <2>1 DEF Line
  <2>3. SelfSigned(certs[w[m]])
    BY <1>4, <2>1, <2>2 DEF SelfSigned, verify
  <2>4. findIssuer(certs, w[m]) = {w[m]}
    BY <2>3 DEF findIssuer
  <2> QED BY <2>4 DEF Above, Ends
<1>8. Along(w, c, m, certs)
  <2>1. \A k \in 1 .. m : k \in 1 .. m - 1 \/ k = m
    BY <1>2
  <2> QED BY <1>4, <1>6, <1>7, <2>1 DEF Along
<1> QED BY <1>8

(* There is no way but along the line, so the search builds that one path.   *)
Begins(x, w, m, certs) ==
  /\ Len(x) \in 1 .. m /\ x \in [1 .. Len(x) -> DOMAIN certs]
  /\ \A k \in 1 .. Len(x) : x[k] = w[k]

LEMMA OneWay ==
  ASSUME NEW certs, Len(certs) \in Nat, DOMAIN certs = 1 .. Len(certs),
         NEW c, NEW m \in Nat \ {0}, NEW w, Along(w, c, m, certs), NEW x \in Ways(certs)
  PROVE  Begins(x, w, m, certs)
<1>1. PICK n \in DOMAIN certs : x \in [1 .. n -> DOMAIN certs]
  BY WayGoesUp
<1>2. n \in Nat \ {0} /\ Len(x) = n
  BY <1>1
<1>3. /\ \A k \in 2 .. n : x[k - 1] \in DOMAIN certs => x[k] \in Above(certs, x[k - 1])
      /\ x[1] = Len(certs)
  BY <1>2, WayGoesUp
<1>4. /\ w[1] = Len(certs) /\ Above(certs, w[m]) = {}
      /\ \A k \in 1 .. m - 1 : Above(certs, w[k]) = {w[k + 1]}
  BY DEF Along
<1> DEFINE Astray == {k \in 1 .. n : k > m \/ x[k] # w[k]}
<1>5. ASSUME Astray # {} PROVE FALSE
  <2>1. Astray \in SUBSET Nat
    OBVIOUS
  <2>2. \E k \in Astray : \A j \in Astray : k <= j
    <3> HIDE DEF Astray
    <3> QED BY <1>5, <2>1, LeastNumber
  <2>3. PICK k \in Astray : \A j \in Astray : k <= j
    BY <2>2
  <2>4. k \in 1 .. n /\ (k > m \/ x[k] # w[k])
    OBVIOUS
  <2>5. k # 1
    BY <1>3, <1>4, <2>4
  <2>6. k - 1 \in 1 .. n /\ k \in 2 .. n /\ ~ (k <= k - 1) /\ (k - 1) + 1 = k
    BY <1>2, <2>4, <2>5
  <2>7. k - 1 \in 1 .. m /\ x[k - 1] = w[k - 1]
    <3>1. k - 1 \notin Astray
      BY <2>3, <2>6
    <3> QED BY <2>6, <3>1
  <2>8. x[k] \in Above(certs, w[k - 1])
    BY <1>1, <1>3, <2>6, <2>7
  <2>9. k - 1 \in 1 .. m - 1
    <3>1. k - 1 # m
      BY <1>4, <2>8
    <3> QED BY <2>7, <3>1
  <2>10. x[k] = w[k]
    BY <1>4, <2>6, <2>8, <2>9
  <2> QED BY <2>4, <2>6, <2>9, <2>10
<1>6. \A k \in 1 .. n : k <= m /\ x[k] = w[k]
  BY <1>5
<1> QED BY <1>1, <1>2, <1>6 DEF Begins

LEMMA SortFinds ==
  ASSUME NEW certs, Len(certs) \in Nat, DOMAIN certs = 1 .. Len(certs),
         NEW c, NEW m \in 2 .. Len(certs), NEW w, Along(w, c, m, certs),
         \A i, j \in 1 .. m : c[i] = c[j] => i = j
  PROVE  sort(certs) = w
<1>1. m \in Nat \ {0} /\ m > 1 /\ m \in DOMAIN certs
  OBVIOUS
<1>2. /\ w \in [1 .. m -> DOMAIN certs] /\ w[1] = Len(certs)
      /\ \A k \in 1 .. m : certs[w[k]] = c[k] /\ findIssuer(certs, w[k]) # {}
      /\ \A k \in 1 .. m - 1 : Above(certs, w[k]) = {w[k + 1]} /\ ~ Ends(certs, w[k])
      /\ Above(certs, w[m]) = {} /\ Ends(certs, w[m])
  BY DEF Along
<1>3. Len(w) = m /\ DOMAIN w = 1 .. m
  BY <1>1, <1>2
<1>4. \A i, j \in 1 .. m : w[i] = w[j] => i = j
  BY <1>2
<1>5. w \in Ways(certs)
  <2> DEFINE above == [v \in DOMAIN certs |-> Above(certs, v)]
  <2>1. \A k \in 2 .. m : w[k] \in above[w[k - 1]]
    <3>1. \A k \in 2 .. m : k - 1 \in 1 .. m - 1 /\ k - 1 \in 1 .. m /\ (k - 1) + 1 = k
      BY <1>1
    <3>2. \A k \in 1 .. m - 1 : w[k + 1] \in Above(certs, w[k])
      BY <1>2
    <3>3. \A k \in 1 .. m : w[k] \in DOMAIN certs
      BY <1>2
    <3>4. ASSUME NEW k \in 2 .. m PROVE w[k - 1] \in DOMAIN certs /\ w[k] \in Above(certs, w[k - 1])
      <4>1. w[(k - 1) + 1] \in Above(certs, w[k - 1])
        BY <3>1, <3>2
      <4> QED BY <3>1, <3>3, <4>1
    <3> QED BY <3>4
  <2>2. w \in UNION {[1 .. n -> DOMAIN certs] : n \in DOMAIN certs}
    BY <1>1, <1>2
  <2>3. IsInjective(w)
    BY <1>3, <1>4 DEF IsInjective
  <2> HIDE DEF above
  <2>4. w \in {x \in UNION {[1 .. n -> DOMAIN certs] : n \in DOMAIN certs} :
                 /\ x[1] = Len(certs) /\ IsInjective(x)
                 /\ \A k \in 2 .. Len(x) : x[k] \in above[x[k - 1]]}
    BY <1>2, <1>3, <2>1, <2>2, <2>3
  <2> QED BY <2>4 DEF Ways, above
<1>6. ASSUME NEW x \in Ways(certs)
      PROVE  /\ Len(x) \in 1 .. m /\ DOMAIN x = 1 .. Len(x) /\ Top(x) = w[Len(x)]
             /\ \A k \in 1 .. Len(x) : x[k] = w[k]
  <2>1. /\ Len(x) \in 1 .. m /\ x \in [1 .. Len(x) -> DOMAIN certs]
        /\ \A k \in 1 .. Len(x) : x[k] = w[k]
    <3>1. Begins(x, w, m, certs)
      BY <1>1, OneWay, Zenon
    <3> QED BY <3>1 DEF Begins
  <2>2. Len(x) \in 1 .. Len(x)
    BY <2>1
  <2> QED BY <2>1, <2>2 DEF Top
<1>7. ASSUME NEW x \in Ways(certs)
      PROVE  findIssuer(certs, Top(x)) # {} /\ Above(certs, Top(x)) \cap Range(x) = {}
  <2> DEFINE l == Len(x)
  <2>1. l \in 1 .. m /\ Top(x) = w[l]
    BY <1>6
  <2>2. \A v \in Range(x) : \E k \in 1 .. l : v = w[k]
    BY <1>6 DEF Range
  <2> HIDE DEF l
  <2>3. findIssuer(certs, w[l]) # {}
    BY <1>2, <2>1
  <2>4. CASE l = m
    BY <1>2, <2>1, <2>3, <2>4
  <2>5. CASE l # m
    <3>1. l \in 1 .. m - 1 /\ l + 1 \in 1 .. m /\ \A k \in 1 .. l : k \in 1 .. m /\ k # l + 1
      BY <2>1, <2>5
    <3>2. Above(certs, w[l]) = {w[l + 1]}
      BY <1>2, <3>1
    <3>3. w[l + 1] \notin Range(x)
      BY <1>4, <2>2, <3>1
    <3> QED BY <2>1, <2>3, <3>2, <3>3
  <2> QED BY <2>4, <2>5
<1>8. buildPaths(certs) = {x \in Ways(certs) : Ends(certs, Top(x))}
  <2> DEFINE Throws(x) == findIssuer(certs, Top(x)) = {} \/ Above(certs, Top(x)) \cap Range(x) # {}
  <2>1. buildPaths(certs) = IF \E x \in Ways(certs) : Throws(x) THEN {}
                            ELSE {x \in Ways(certs) : Ends(certs, Top(x))}
    BY DEF buildPaths
  <2>2. \A x \in Ways(certs) : ~ Throws(x)
    BY <1>7
  <2> HIDE DEF Throws
  <2> QED BY <2>1, <2>2
<1>9. ASSUME NEW x \in Ways(certs), Ends(certs, Top(x)) PROVE x = w
  <2> DEFINE l == Len(x)
  <2>1. l \in 1 .. m /\ Ends(certs, w[l])
    BY <1>6, <1>9
  <2> HIDE DEF l
  <2>2. l = m
    <3>1. l \notin 1 .. m - 1
      BY <1>2, <2>1
    <3> QED BY <2>1, <3>1
  <2>3. x \in [1 .. m -> DOMAIN certs] /\ \A k \in 1 .. m : x[k] = w[k]
    <3>1. x \in [1 .. l -> DOMAIN certs] /\ \A k \in 1 .. l : x[k] = w[k]
      <4>1. Begins(x, w, m, certs)
        BY <1>1, OneWay, Zenon
      <4> QED BY <4>1 DEF Begins, l
    <3> QED BY <2>2, <3>1
  <2> QED BY <1>2, <2>3
<1>10. buildPaths(certs) = {w}
  <2>1. Ends(certs, Top(w))
    BY <1>2, <1>3 DEF Top
  <2> QED BY <1>5, <1>8, <1>9, <2>1
<1> DEFINE paths == {x \in buildPaths(certs) : Len(x) > 1}
           best == {x \in paths : \A v \in paths :
                      Len(x) < Len(v) \/ (Len(x) = Len(v) /\ ~ After(v, x))}
<1>11. paths = {w}
  BY <1>1, <1>3, <1>10
<1>12. ~ After(w, w)
  <2>1. \A k \in 1 .. m : ~ (w[k] > w[k])
    BY <1>2
  <2> QED BY <1>3, <2>1 DEF After
<1> HIDE DEF paths
<1>13. best = {w}
  BY <1>11, <1>12
<1> HIDE DEF best
<1>14. sort(certs) = IF best = {} THEN <<>> ELSE CHOOSE x \in best : TRUE
  BY DEF sort, best, paths
<1> QED BY <1>13, <1>14

(* A certificate that can be certified along a path that is unmistakable is    *)
(* traced along that path (CertificateChainVerifier.verify, sort, buildPaths). *)
THEOREM StraightPathIsFound ==
  ASSUME NEW trusted, trusted \in Seq(Range(trusted)), NEW leaf,
         \A c \in Range(trusted) : c.usage \in {"absent", "keyCertSign", "other"},
         leaf.pathLen \in Nat \cup {NoLimit},
         NEW certs \in Certifications(leaf, trusted), Straight(certs, leaf, trusted)
  PROVE  LET path == Path(leaf, trusted)
         IN  path # <<>> /\ certs = {path[k] : k \in 2 .. Len(path)}
<1> DEFINE S == Range(trusted) \cup {leaf}
           whole == Append(trusted, leaf)
<1>1. PICK n \in 2 .. Len(trusted) + 1 : \E c \in [1 .. n -> S] :
             Line(c, n, leaf, trusted) /\ certs = {c[k] : k \in 2 .. n}
  BY LineIs
<1>2. PICK c \in [1 .. n -> S] : Line(c, n, leaf, trusted) /\ certs = {c[k] : k \in 2 .. n}
  BY <1>1
<1>3. PICK m \in 2 .. n :
        /\ c[m].by = c[m].key /\ \A k \in 1 .. m - 1 : c[k].by # c[k].key
        /\ \A i, j \in 1 .. m : c[i] = c[j] => i = j
        /\ {c[k] : k \in 2 .. n} = {c[k] : k \in 2 .. m}
  <2>1. Line(c, n, leaf, trusted)
    BY <1>2
  <2> QED BY <2>1, LineEnds, Zenon
<1>4. PICK w : Along(w, c, m, whole)
  <2>1. /\ Line(c, n, leaf, trusted) /\ c[m].by = c[m].key /\ \A k \in 1 .. m - 1 : c[k].by # c[k].key
        /\ whole = Append(trusted, leaf)
    BY <1>2, <1>3
  <2> HIDE DEF whole
  <2> QED BY <2>1, LineIsGone, Zenon
<1>5. Len(whole) \in Nat /\ DOMAIN whole = 1 .. Len(whole) /\ m \in 2 .. Len(whole) /\ m \in Nat
      /\ n \in Nat /\ m <= n
  OBVIOUS
<1>6. sort(whole) = w
  <2>1. \A i, j \in 1 .. m : c[i] = c[j] => i = j
    BY <1>3
  <2> HIDE DEF whole
  <2> QED BY <1>4, <1>5, <2>1, SortFinds, Zenon
<1> DEFINE path == [k \in DOMAIN w |-> whole[w[k]]]
<1>7. w \in [1 .. m -> DOMAIN whole] /\ \A k \in 1 .. m : whole[w[k]] = c[k]
  BY <1>4 DEF Along
<1>8. Path(leaf, trusted) = IF checkPath(path) THEN path ELSE <<>>
  BY <1>6 DEF Path
<1>9. DOMAIN path = 1 .. m /\ \A k \in 1 .. m : path[k] = c[k]
  BY <1>7
<1>10. Len(path) = m /\ path # <<>>
  BY <1>5, <1>9
<1> HIDE DEF path, whole
<1>11. /\ c[1] = leaf
       /\ \A k \in 2 .. n :
            /\ c[k] \in Range(trusted) /\ c[k].key = c[k - 1].by /\ c[k].subject = c[k - 1].issuer
            /\ c[k].ca /\ c[k].usage \in {"absent", "keyCertSign"}
            /\ c[k].pathLen # NoLimit => k - 2 <= c[k].pathLen
  BY <1>2, Zenon DEF Line
<1>12. checkPath(path)
  <2>1. \A k \in 2 .. m : isCA(path[k])
    <3>1. \A k \in 2 .. m : k \in 1 .. m /\ k \in 2 .. n
      BY <1>5
    <3> QED BY <1>9, <1>11, <3>1 DEF isCA
  <2>2. ASSUME NEW k \in 1 .. m - 1 PROVE path[k].issuer = path[k + 1].subject
    <3>1. k \in 1 .. m /\ k + 1 \in 1 .. m /\ k + 1 \in 2 .. n /\ (k + 1) - 1 = k
      BY <1>5
    <3>2. c[k + 1].subject = c[(k + 1) - 1].issuer
      BY <1>11, <3>1
    <3> QED BY <1>9, <3>1, <3>2
  <2>3. ASSUME NEW k \in 1 .. m, path[k].pathLen # NoLimit PROVE path[k].pathLen >= k - 2
    <3>1. CASE k = 1
      <4>1. path[k] = leaf /\ leaf.pathLen \in Nat
        BY <1>5, <1>9, <1>11, <2>3, <3>1
      <4>2. k - 2 = -1
        BY <3>1
      <4> QED BY <4>1, <4>2
    <3>2. CASE k # 1
      <4>1. k \in 2 .. n
        BY <1>5, <3>2
      <4>2. c[k].pathLen # NoLimit => k - 2 <= c[k].pathLen
        BY <1>11, <4>1
      <4>3. path[k] = c[k]
        BY <1>9
      <4> QED BY <2>3, <4>2, <4>3
    <3> QED BY <3>1, <3>2
  <2> QED BY <1>9, <1>10, <2>1, <2>2, <2>3 DEF checkPath
<1>13. certs = {path[k] : k \in 2 .. m}
  <2>1. \A k \in 2 .. m : path[k] = c[k]
    <3>1. \A k \in 2 .. m : k \in 1 .. m
      BY <1>5
    <3> QED BY <1>9, <3>1
  <2>2. {path[k] : k \in 2 .. m} = {c[k] : k \in 2 .. m}
    BY <2>1
  <2> QED BY <1>2, <1>3, <2>2
<1> QED BY <1>8, <1>10, <1>12, <1>13

-----------------------------------------------------------------------------
(* What is verified, and with what, stays the same: the checks only read it. *)
Same == UNCHANGED <<entity, root, options>>

LEMMA TrustIsSame == ASSUME Same PROVE trust' = trust
BY DEF Same, trust, toTrustMaterial, createTLogAuthority, createCertAuthority, keyLocator

LEMMA TLogErrorIsSame == ASSUME Same, NEW e PROVE TLogError(e)' = TLogError(e)
<1>1. PromiseHolds(e)' <=> PromiseHolds(e)
  BY TrustIsSame DEF PromiseHolds
<1>2. CheckpointHolds(e)' <=> CheckpointHolds(e)
  BY TrustIsSame DEF CheckpointHolds
<1>3. ProofUnread(e)' <=> ProofUnread(e)
  BY DEF ProofUnread, Unread, MerkleHolds, Same
<1> QED BY <1>1, <1>2, <1>3 DEF TLogError, MerkleHolds

LEMMA TSAErrorIsSame == ASSUME Same, NEW t PROVE TSAError(t)' = TSAError(t)
BY TrustIsSame DEF Same, TSAError

LEMMA TimestampsAreSame ==
  ASSUME Same, NEW k
  PROVE  /\ Timestamps' = Timestamps /\ Timestamp(k)' = Timestamp(k)
         /\ TimestampError(k)' = TimestampError(k)
<1>1. Timestamps' = Timestamps /\ Timestamp(k)' = Timestamp(k)
  BY DEF Same, Timestamps, Timestamp
<1>2. TimestampError(k)' = TimestampError(k)
  BY TLogErrorIsSame, TSAErrorIsSame DEF Same, TimestampError
<1> QED BY <1>1, <1>2

LEMMA KeyErrorIsSame == ASSUME Same, verified' = verified PROVE KeyError' = KeyError
<1>1. ASSUME NEW thing PROVE ValidAtAll(thing)' <=> ValidAtAll(thing)
  BY DEF ValidAtAll
<1>2. ASSUME NEW k PROVE CertificateHolds(k)' <=> CertificateHolds(k)
  <2>1. verifyCertificateChain(k.cert)' = verifyCertificateChain(k.cert)
    BY TrustIsSame DEF verifyCertificateChain
  <2>2. ASSUME NEW c, NEW issuer PROVE verifySCTs(c, issuer, k.scts)' <=> verifySCTs(c, issuer, k.scts)
    BY TrustIsSame DEF verifySCTs
  <2> QED BY <1>1, <2>1, <2>2 DEF CertificateHolds, Traced, Same
<1>3. ASSUME NEW k PROVE CertificateUnread(k)' <=> CertificateUnread(k)
  <2>1. verifyCertificateChain(k.cert)' = verifyCertificateChain(k.cert)
    BY TrustIsSame DEF verifyCertificateChain
  <2>2. ASSUME NEW c, NEW issuer PROVE verifySCTs(c, issuer, k.scts)' <=> verifySCTs(c, issuer, k.scts)
    BY TrustIsSame DEF verifySCTs
  <2>3. ASSUME NEW path PROVE Traced(path)' <=> Traced(path)
    BY <1>1 DEF Traced
  <2>4. ASSUME NEW part PROVE Unread(part, k.cert)' <=> Unread(part, k.cert)
    BY DEF Unread, Same
  <2> QED BY <2>1, <2>2, <2>3, <2>4 DEF CertificateUnread
<1> QED BY <1>1, <1>2, <1>3, TrustIsSame DEF KeyError, Same

LEMMA LaterIsSame ==
  ASSUME Same
  PROVE  /\ Enough' <=> Enough
         /\ \A e : BodyHolds(e)' <=> BodyHolds(e)
         /\ SignerKey' = SignerKey
BY TrustIsSame DEF Same, Enough, BodyHolds, verifyDSSETLogBody, verifyHashedRekordTLogBody,
                   verifyIntotoTLogBody, SpeaksOf, SignerKey

-----------------------------------------------------------------------------
(* The checks are done in their order: what is past a check has passed it,    *)
(* and the timestamps that are verified are the first ones of the entity.    *)
Inputs == \E c \in Calls : entity = c.entity /\ options = c.options /\ root = c.root

Stages == {"timestamps", "key", "tlogs", "signature", "policy", "accepted", "rejected"}
SomethingUnread ==
  \/ entity.unread # {} \/ ~ Followed(options.san)
  \/ \E t \in Range(entity.tsts) : ~ t.token
Codes ==
  {"", "TLOG_INCLUSION_PROMISE_ERROR", "TLOG_INCLUSION_PROOF_ERROR", "TLOG_MISSING_INCLUSION_ERROR",
   "TIMESTAMP_ERROR", "CERTIFICATE_ERROR", "PUBLIC_KEY_ERROR", "TLOG_BODY_ERROR", "SIGNATURE_ERROR",
   "UNTRUSTED_SIGNER_ERROR"} \cup IF SomethingUnread THEN {"UNCODED"} ELSE {}

Kinds == {"transparency-log", "timestamp-authority"}
Ids   == {e.log : e \in Range(entity.entries)} \cup {t.serial : t \in Range(entity.tsts)}
Stamps == [type : Kinds, id : Ids, time : Moments]

VerifiedInOrder ==
  /\ verified \in Seq(Stamps) /\ Len(verified) <= Timestamps
  /\ \A k \in 1 .. Len(verified) : verified[k] = Timestamp(k) /\ TimestampError(k) = ""

Counted == Len(verified) = Timestamps /\ Distinct(verified) /\ Enough

Passed ==
  /\ stage \in {"key", "tlogs", "signature", "policy", "accepted"} => Counted
  /\ stage \in {"tlogs", "signature", "policy", "accepted"} => KeyError = ""
  /\ stage \in {"signature", "policy", "accepted"} =>
       \A k \in DOMAIN entity.entries : BodyHolds(entity.entries[k])
  /\ stage \in {"policy", "accepted"} => MadeBy(entity.sig, SignerKey, entity.artifact)

VerifyInv == Inputs /\ stage \in Stages /\ error \in Codes /\ VerifiedInOrder /\ Passed

LEMMA ListedIs ==
  ASSUME NEW s, Listed(s)
  PROVE  Len(s) \in Nat /\ DOMAIN s = 1 .. Len(s) /\ \A k \in 1 .. Len(s) : s[k] \in Range(s)
<1>1. Len(s) \in Nat /\ DOMAIN s = 1 .. Len(s)
  BY DEF Listed
<1> QED BY <1>1 DEF Range

(* The lists of the entity.                                                *)
LEMMA EntityLists ==
  ASSUME Inputs
  PROVE  /\ Listed(entity.entries) /\ Len(entity.entries) \in Nat
         /\ DOMAIN entity.entries = 1 .. Len(entity.entries)
         /\ Listed(entity.tsts) /\ Len(entity.tsts) \in Nat
         /\ DOMAIN entity.tsts = 1 .. Len(entity.tsts)
         /\ Timestamps \in Nat /\ Timestamps = Len(entity.entries) + Len(entity.tsts)
<1>1. Listed(entity.entries) /\ Listed(entity.tsts)
  BY EntityAssumption DEF Inputs
<1>3. Len(entity.entries) \in Nat /\ Len(entity.tsts) \in Nat
  BY <1>1, ListedIs
<1>4. Timestamps \in Nat /\ Timestamps = Len(entity.entries) + Len(entity.tsts)
  <2> DEFINE m == Len(entity.entries)
             n == Len(entity.tsts)
  <2>1. m \in Nat /\ n \in Nat /\ Timestamps = m + n
    BY <1>3 DEF Timestamps
  <2> HIDE DEF m, n
  <2>2. Timestamps \in Nat
    BY <2>1
  <2> QED BY <2>1, <2>2 DEF m, n
<1>5. DOMAIN entity.entries = 1 .. Len(entity.entries) /\ DOMAIN entity.tsts = 1 .. Len(entity.tsts)
  BY <1>1, ListedIs
<1> QED BY <1>1, <1>3, <1>4, <1>5, Zenon

LEMMA EntriesAre ==
  ASSUME Inputs
  PROVE  \A x \in Range(entity.entries) :
           /\ x.time \in Int /\ Listed(x.body.sigs)
           /\ x.proof # None => AreSigs(x.proof.checkpoint.sigs)
BY EntityAssumption, Zenon DEF Inputs

LEMMA TokensAre == ASSUME Inputs PROVE \A t \in Range(entity.tsts) : t.info.time \in Int
BY EntityAssumption, Zenon DEF Inputs

(* A timestamp is of an entry of a log or of a timestamp token.             *)
LEMMA TimestampIsOf ==
  ASSUME Inputs, NEW k \in 1 .. Timestamps
  PROVE  /\ k \in DOMAIN entity.entries =>
              /\ entity.entries[k] \in Range(entity.entries)
              /\ Timestamp(k) = [type |-> "transparency-log",
                                 id |-> entity.entries[k].log, time |-> entity.entries[k].time]
              /\ TimestampError(k) = TLogError(entity.entries[k])
         /\ k \notin DOMAIN entity.entries =>
              LET i == k - Len(entity.entries)
              IN  /\ i \in DOMAIN entity.tsts /\ entity.tsts[i] \in Range(entity.tsts)
                  /\ Timestamp(k) = [type |-> "timestamp-authority",
                                     id |-> entity.tsts[i].serial, time |-> entity.tsts[i].info.time]
                  /\ TimestampError(k) = TSAError(entity.tsts[i])
<1>1. k <= Len(entity.entries) <=> k \in DOMAIN entity.entries
  BY EntityLists
<1>2. CASE k \in DOMAIN entity.entries
  BY <1>1, <1>2 DEF Timestamp, TimestampError, Range
<1>3. CASE k \notin DOMAIN entity.entries
  <2> DEFINE i == k - Len(entity.entries)
  <2>1. i \in DOMAIN entity.tsts
    <3> DEFINE m == Len(entity.entries)
               n == Len(entity.tsts)
    <3>1. ~ (k <= m) /\ m \in Nat /\ n \in Nat /\ k \in 1 .. m + n /\ i = k - m
      BY <1>1, <1>3, EntityLists
    <3> HIDE DEF m, n, i
    <3>2. i \in 1 .. n
      BY <3>1
    <3> USE DEF n
    <3> QED BY <3>2, EntityLists
  <2> HIDE DEF i
  <2>2. entity.tsts[i] \in Range(entity.tsts)
    BY <2>1 DEF Range
  <2>3. /\ Timestamp(k) = [type |-> "timestamp-authority",
                           id |-> entity.tsts[i].serial, time |-> entity.tsts[i].info.time]
        /\ TimestampError(k) = TSAError(entity.tsts[i])
    BY <1>1, <1>3 DEF Timestamp, TimestampError, i
  <2> QED BY <1>3, <2>1, <2>2, <2>3 DEF i
<1> QED BY <1>2, <1>3

LEMMA TimestampTyped == ASSUME Inputs, NEW k \in 1 .. Timestamps PROVE Timestamp(k) \in Stamps
<1>1. CASE k \in DOMAIN entity.entries
  <2>1. entity.entries[k].log \in Ids /\ entity.entries[k].time \in Moments
    BY <1>1, TimestampIsOf DEF Ids, Moments
  <2> QED BY <1>1, <2>1, TimestampIsOf DEF Stamps, Kinds
<1>2. CASE k \notin DOMAIN entity.entries
  <2> DEFINE t == entity.tsts[k - Len(entity.entries)]
  <2>1. t \in Range(entity.tsts)
        /\ Timestamp(k) = [type |-> "timestamp-authority", id |-> t.serial, time |-> t.info.time]
    BY <1>2, TimestampIsOf
  <2> HIDE DEF t
  <2>2. t.serial \in Ids /\ t.info.time \in Moments
    BY <2>1 DEF Ids, Moments
  <2> QED BY <2>1, <2>2 DEF Stamps, Kinds
<1> QED BY <1>1, <1>2

LEMMA VerifyInitInv == Init => VerifyInv
<1> SUFFICES ASSUME Init PROVE VerifyInv
  OBVIOUS
<1>1. Inputs /\ stage = "timestamps" /\ verified = <<>> /\ error = ""
  BY DEF Init, Inputs
<1>2. <<>> \in Seq(Stamps) /\ Len(<<>>) = 0
  OBVIOUS
<1>3. Timestamps \in Nat
  BY <1>1, EntityLists
<1>4. VerifiedInOrder
  <2>1. verified \in Seq(Stamps) /\ Len(verified) = 0
    BY <1>1, <1>2
  <2> DEFINE n == Len(verified)
  <2>2. n = 0
    BY <2>1
  <2> HIDE DEF n
  <2>3. n <= Timestamps /\ \A k \in 1 .. n : FALSE
    BY <1>3, <2>2
  <2> QED BY <2>1, <2>3 DEF VerifiedInOrder, n
<1> QED BY <1>1, <1>4 DEF VerifyInv, Stages, Codes, Passed

(* A step that leaves the entity and the timestamps alone.                 *)
LEMMA VerifiedStays ==
  ASSUME VerifyInv, Same, verified' = verified
  PROVE  Inputs' /\ VerifiedInOrder' /\ Codes' = Codes /\ (Counted' <=> Counted)
<1>1. Inputs' /\ Codes' = Codes /\ Stamps' = Stamps
  BY DEF VerifyInv, Inputs, Same, Codes, SomethingUnread, Stamps, Kinds, Ids, Moments
<1>2. Timestamps' = Timestamps
  BY TimestampsAreSame
<1>3. VerifiedInOrder'
  BY <1>1, <1>2, TimestampsAreSame DEF VerifyInv, VerifiedInOrder
<1>4. Counted' <=> Counted
  BY <1>2, LaterIsSame DEF Counted, Distinct
<1> QED BY <1>1, <1>3, <1>4

LEMMA ThrowInv == ASSUME VerifyInv, NEW code \in Codes, Throw(code) PROVE VerifyInv'
<1>1. Same /\ verified' = verified /\ stage' = "rejected" /\ error' = code
  BY DEF Throw, Same
<1> QED BY <1>1, VerifiedStays DEF VerifyInv, Stages, Passed

LEMMA CheckPassed ==
  ASSUME VerifyInv, NEW now, NEW code \in Codes, NEW next, Check(now, code, next)
  PROVE  VerifyInv' \/ /\ stage = now /\ code = "" /\ stage' = next /\ error' = error
                       /\ Same /\ verified' = verified
BY ThrowInv DEF Check, Same

-----------------------------------------------------------------------------
(* The steps.                                                              *)
LEMMA Errors ==
  ASSUME Inputs
  PROVE  /\ \A k \in 1 .. Timestamps : TimestampError(k) \in Codes
         /\ KeyError \in Codes
<1>1. ASSUME NEW k \in 1 .. Timestamps PROVE TimestampError(k) \in Codes
  <2>1. CASE k \in DOMAIN entity.entries
    <3> DEFINE e == entity.entries[k]
    <3>1. ProofUnread(e) => SomethingUnread
      BY DEF ProofUnread, Unread, SomethingUnread
    <3>2. TLogError(e) \in Codes
      BY <3>1 DEF TLogError, Codes
    <3> QED BY <2>1, <3>2, TimestampIsOf
  <2>2. CASE k \notin DOMAIN entity.entries
    BY <2>2, TimestampIsOf DEF TSAError, Codes, SomethingUnread
  <2> QED BY <2>1, <2>2
<1>2. KeyError \in Codes
  <2>1. CertificateUnread(entity.key) => SomethingUnread
    BY DEF CertificateUnread, Unread, SomethingUnread
  <2> QED BY <2>1 DEF KeyError, Codes
<1> QED BY <1>1, <1>2

LEMMA VerifyTimestampInv == ASSUME VerifyInv, VerifyTimestamp PROVE VerifyInv'
<1> DEFINE n == Len(verified)
           k == n + 1
<1>0. verified \in Seq(Stamps) /\ Inputs /\ Timestamps \in Nat
  BY EntityLists DEF VerifyInv, VerifiedInOrder
<1>1. verified \in Seq(Stamps) /\ n \in Nat /\ Inputs /\ Timestamps \in Nat
  BY <1>0
<1>2. stage = "timestamps" /\ k <= Timestamps
  BY DEF VerifyTimestamp
<1>3. k \in 1 .. Timestamps
  BY <1>1, <1>2
<1>4. CASE TimestampError(k) # ""
  BY <1>1, <1>3, <1>4, Errors, ThrowInv DEF VerifyTimestamp
<1>5. CASE TimestampError(k) = ""
  <2>1. /\ verified' = Append(verified, Timestamp(k)) /\ Same
        /\ stage' = stage /\ error' = error
    BY <1>5 DEF VerifyTimestamp, Same
  <2>2. Inputs' /\ Codes' = Codes /\ Stamps' = Stamps
    BY <2>1 DEF VerifyInv, Inputs, Same, Codes, SomethingUnread, Stamps, Kinds, Ids, Moments
  <2>3. /\ verified' \in Seq(Stamps) /\ Len(verified') = k
        /\ \A i \in 1 .. n : verified'[i] = verified[i]
        /\ verified'[k] = Timestamp(k)
    BY <1>1, <1>3, <2>1, TimestampTyped
  <2>4. ASSUME NEW i \in 1 .. k PROVE verified'[i] = Timestamp(i) /\ TimestampError(i) = ""
    <3>1. i \in 1 .. n \/ i = k
      BY <1>1
    <3> QED BY <1>5, <2>3, <3>1 DEF VerifyInv, VerifiedInOrder
  <2>5. VerifiedInOrder'
    BY <1>2, <2>1, <2>2, <2>3, <2>4, TimestampsAreSame DEF VerifiedInOrder
  <2> QED BY <1>2, <2>1, <2>2, <2>5 DEF VerifyInv, Passed
<1> QED BY <1>4, <1>5

LEMMA CountTimestampsInv == ASSUME VerifyInv, CountTimestamps PROVE VerifyInv'
<1> DEFINE code == IF Distinct(verified) /\ Enough THEN "" ELSE "TIMESTAMP_ERROR"
<1>1. Len(verified) = Timestamps /\ Check("timestamps", code, "key") /\ code \in Codes
  BY DEF CountTimestamps, Codes
<1>2. code = "" => Counted
  BY <1>1 DEF Counted
<1> HIDE DEF code
<1>3. VerifyInv' \/ /\ Counted /\ stage' = "key" /\ error' = error /\ Same /\ verified' = verified
  BY <1>1, <1>2, CheckPassed
<1> QED BY <1>3, VerifiedStays DEF VerifyInv, Stages, Passed

LEMMA VerifySigningKeyInv == ASSUME VerifyInv, VerifySigningKey PROVE VerifyInv'
<1>1. VerifyInv' \/ /\ stage = "key" /\ KeyError = "" /\ stage' = "tlogs" /\ error' = error
                    /\ Same /\ verified' = verified
  BY Errors, CheckPassed DEF VerifyInv, VerifySigningKey
<1> QED BY <1>1, VerifiedStays, KeyErrorIsSame DEF VerifyInv, Stages, Passed

LEMMA FirstOf ==
  ASSUME NEW S \in SUBSET Nat, S # {}
  PROVE  First(S) \in S /\ \A j \in S : First(S) <= j
BY LeastNumber DEF First

(* An entry whose body does not hold throws, be it the first or not.         *)
LEMMA BodiesErrorIs ==
  ASSUME Inputs
  PROVE  /\ BodiesError \in Codes
         /\ BodiesError = "" => \A k \in DOMAIN entity.entries : BodyHolds(entity.entries[k])
<1> DEFINE bad == {k \in DOMAIN entity.entries : BodyError(entity.entries[k]) # ""}
<1>1. ASSUME NEW e PROVE BodyError(e) \in Codes /\ (BodyError(e) = "" => BodyHolds(e))
  <2>1. BodyUnread(e) => SomethingUnread
    BY DEF BodyUnread, Unread, SomethingUnread
  <2> QED BY <2>1 DEF BodyError, Codes
<1>2. BodiesError = IF bad = {} THEN "" ELSE BodyError(entity.entries[First(bad)])
  BY DEF BodiesError
<1>3. bad \subseteq Nat
  <2> DEFINE m == Len(entity.entries)
  <2>1. m \in Nat /\ DOMAIN entity.entries = 1 .. m
    BY EntityLists
  <2> HIDE DEF m
  <2>2. DOMAIN entity.entries \subseteq Nat
    BY <2>1
  <2> QED BY <2>2
<1>4. bad # {} => First(bad) \in bad
  BY <1>3, FirstOf
<1>5. BodiesError \in Codes
  BY <1>1, <1>2 DEF Codes
<1>6. BodiesError = "" => bad = {}
  BY <1>2, <1>4
<1> QED BY <1>1, <1>5, <1>6

LEMMA PolicyErrorsAre == PolicyErrors \subseteq Codes
<1>1. IssuerError \in Codes
  BY DEF IssuerError, Codes
<1>2. NameErrors(Identity.san, options.san) \subseteq Codes
  BY DEF NameErrors, Codes, SomethingUnread
<1> QED BY <1>1, <1>2 DEF PolicyErrors

LEMMA VerifyTLogsInv == ASSUME VerifyInv, VerifyTLogs PROVE VerifyInv'
<1> DEFINE Hold == \A k \in DOMAIN entity.entries : BodyHolds(entity.entries[k])
           code == BodiesError
<1>1. code \in Codes /\ Check("tlogs", code, "signature") /\ (code = "" => Hold)
  BY BodiesErrorIs DEF VerifyTLogs, VerifyInv
<1> HIDE DEF code
<1>2. VerifyInv' \/ /\ stage = "tlogs" /\ Hold /\ stage' = "signature" /\ error' = error
                    /\ Same /\ verified' = verified
  BY <1>1, CheckPassed
<1>3. ASSUME stage = "tlogs", Hold, stage' = "signature", error' = error, Same, verified' = verified
      PROVE  VerifyInv'
  <2>1. Hold'
    BY <1>3, LaterIsSame DEF Same
  <2>2. KeyError' = ""
    BY <1>3, KeyErrorIsSame DEF VerifyInv, Passed
  <2> QED BY <1>3, <2>1, <2>2, VerifiedStays DEF VerifyInv, Stages, Passed
<1> QED BY <1>2, <1>3

LEMMA LaterStays ==
  ASSUME VerifyInv, Same, verified' = verified, stage \in {"signature", "policy"}
  PROVE  /\ KeyError' = "" /\ Counted'
         /\ (\A k \in DOMAIN entity.entries : BodyHolds(entity.entries[k]))'
         /\ stage = "policy" => MadeBy(entity.sig, SignerKey, entity.artifact)'
<1>1. KeyError' = "" /\ Counted'
  BY KeyErrorIsSame, VerifiedStays DEF VerifyInv, Passed
<1>2. (\A k \in DOMAIN entity.entries : BodyHolds(entity.entries[k]))'
  BY LaterIsSame DEF Same, VerifyInv, Passed
<1>3. stage = "policy" => MadeBy(entity.sig, SignerKey, entity.artifact)'
  BY LaterIsSame DEF Same, VerifyInv, Passed, MadeBy
<1> QED BY <1>1, <1>2, <1>3

LEMMA VerifySignatureInv == ASSUME VerifyInv, VerifySignature PROVE VerifyInv'
<1> DEFINE code == IF MadeBy(entity.sig, SignerKey, entity.artifact) THEN "" ELSE "SIGNATURE_ERROR"
<1>1. code \in Codes /\ Check("signature", code, "policy")
      /\ (code = "" => MadeBy(entity.sig, SignerKey, entity.artifact))
  BY DEF VerifySignature, Codes
<1> HIDE DEF code
<1>2. VerifyInv' \/ /\ stage = "signature" /\ MadeBy(entity.sig, SignerKey, entity.artifact)
                    /\ stage' = "policy" /\ error' = error /\ Same /\ verified' = verified
  BY <1>1, CheckPassed
<1>3. ASSUME stage = "signature", MadeBy(entity.sig, SignerKey, entity.artifact), stage' = "policy", error' = error, Same, verified' = verified
      PROVE  VerifyInv'
  <2>1. MadeBy(entity.sig, SignerKey, entity.artifact)'
    BY <1>3, LaterIsSame DEF Same, MadeBy
  <2> QED BY <1>3, <2>1, LaterStays, VerifiedStays DEF VerifyInv, Stages, Passed
<1> QED BY <1>2, <1>3

LEMMA VerifyPolicyInv == ASSUME VerifyInv, VerifyPolicy PROVE VerifyInv'
<1>1. PICK code \in Codes : Check("policy", code, "accepted")
  BY PolicyErrorsAre DEF VerifyPolicy
<1>2. VerifyInv' \/ /\ stage = "policy" /\ stage' = "accepted" /\ error' = error
                    /\ Same /\ verified' = verified
  BY <1>1, CheckPassed
<1> QED BY <1>2, LaterStays, VerifiedStays DEF VerifyInv, Stages, Passed

LEMMA VerifyStutterInv == ASSUME VerifyInv, UNCHANGED vars PROVE VerifyInv'
<1>1. Same /\ verified' = verified /\ stage' = stage /\ error' = error
  BY DEF vars, Same
<1>2. KeyError' = KeyError
  BY <1>1, KeyErrorIsSame
<1>3. CASE stage \in {"signature", "policy", "accepted"}
  <2>1. (\A k \in DOMAIN entity.entries : BodyHolds(entity.entries[k]))'
    BY <1>1, <1>3, LaterIsSame DEF Same, VerifyInv, Passed
  <2>2. stage # "signature" => MadeBy(entity.sig, SignerKey, entity.artifact)'
    BY <1>1, <1>3, LaterIsSame DEF Same, VerifyInv, Passed, MadeBy
  <2> QED BY <1>1, <1>2, <1>3, <2>1, <2>2, VerifiedStays DEF VerifyInv, Passed
<1>4. CASE stage \notin {"signature", "policy", "accepted"}
  BY <1>1, <1>2, <1>4, VerifiedStays DEF VerifyInv, Passed
<1> QED BY <1>3, <1>4

LEMMA VerifyNextInv == VerifyInv /\ [Next]_vars => VerifyInv'
<1> SUFFICES ASSUME VerifyInv, [Next]_vars PROVE VerifyInv'
  OBVIOUS
<1> QED BY VerifyTimestampInv, CountTimestampsInv, VerifySigningKeyInv, VerifyTLogsInv,
           VerifySignatureInv, VerifyPolicyInv, VerifyStutterInv DEF Next

LEMMA VerifyAlways == Spec => []VerifyInv
<1> QED BY VerifyInitInv, VerifyNextInv, PTL DEF Spec

(* The stages, the errors and what is kept of the timestamps are as the types  *)
(* of verifier.ts have them; an error that has no code is of a part that cannot *)
(* be read, of a response without a token, or of a policy that may not be a   *)
(* regular expression, which is what VerificationError does not wrap.       *)
THEOREM VerifyTypes == Spec => []TypeOK
<1>1. VerifyInv => TypeOK
  BY DEF VerifyInv, TypeOK, Stages, Codes, SomethingUnread, VerifiedInOrder, Stamps, Kinds, Ids
<1> QED BY <1>1, VerifyAlways, PTL

-----------------------------------------------------------------------------
(* As many different things as there are places, if no two are alike.       *)
LEMMA AllDifferent ==
  ASSUME NEW n \in Nat, NEW T, NEW g \in [1 .. n -> T], \A x \in T : \E k \in 1 .. n : g[k] = x,
         \A i, j \in 1 .. n : g[i] = g[j] => i = j
  PROVE  Cardinality(T) = n
<1>1. g \in Surjection(1 .. n, T) /\ g \in Injection(1 .. n, T)
  BY DEF Surjection, Injection, IsInjective
<1>2. IsFiniteSet(1 .. n) /\ Cardinality(1 .. n) = n
  BY FS_Interval
<1> QED BY <1>1, <1>2, FS_Surjection

LEMMA AllVerified ==
  ASSUME VerifyInv, Counted
  PROVE  /\ \A k \in 1 .. Timestamps : verified[k] = Timestamp(k) /\ TimestampError(k) = ""
         /\ DOMAIN verified = 1 .. Timestamps
         /\ \A i, j \in 1 .. Timestamps : verified[i] = verified[j] => i = j
<1>1. verified \in Seq(Stamps) /\ Len(verified) = Timestamps
  BY DEF VerifyInv, VerifiedInOrder, Counted
<1>2. DOMAIN verified = 1 .. Timestamps
  BY <1>1, LenProperties
<1> QED BY <1>1, <1>2 DEF VerifyInv, VerifiedInOrder, Counted, Distinct

LEMMA EntriesDiffer ==
  ASSUME VerifyInv, Counted
  PROVE  Cardinality({<<e.log, e.time>> : e \in Range(entity.entries)}) = Len(entity.entries)
<1> DEFINE n == Len(entity.entries)
           T == {<<e.log, e.time>> : e \in Range(entity.entries)}
           g == [k \in 1 .. n |-> <<entity.entries[k].log, entity.entries[k].time>>]
<1>1. n \in Nat /\ DOMAIN entity.entries = 1 .. n /\ 1 .. n \subseteq 1 .. Timestamps
  <2> DEFINE m == Len(entity.tsts)
  <2>1. n \in Nat /\ DOMAIN entity.entries = 1 .. n /\ m \in Nat /\ Timestamps = n + m
    BY EntityLists DEF VerifyInv
  <2> HIDE DEF n, m
  <2>2. 1 .. n \subseteq 1 .. Timestamps
    BY <2>1
  <2> QED BY <2>1, <2>2
<1> HIDE DEF n
<1>2. \A k \in 1 .. n : entity.entries[k] \in Range(entity.entries)
  BY <1>1 DEF Range
<1>3. \A e \in Range(entity.entries) : \E k \in 1 .. n : entity.entries[k] = e
  BY <1>1 DEF Range
<1>4. \A k \in 1 .. n : verified[k] = [type |-> "transparency-log",
                                     id |-> entity.entries[k].log, time |-> entity.entries[k].time]
  BY <1>1, TimestampIsOf, AllVerified DEF VerifyInv
<1>5. ASSUME NEW i \in 1 .. n, NEW j \in 1 .. n, g[i] = g[j] PROVE i = j
  <2>1. verified[i] = verified[j]
    BY <1>4, <1>5
  <2>2. i \in 1 .. Timestamps /\ j \in 1 .. Timestamps
    BY <1>1
  <2> QED BY <2>1, <2>2, AllVerified
<1>6. g \in [1 .. n -> T] /\ \A x \in T : \E k \in 1 .. n : g[k] = x
  BY <1>2, <1>3
<1> HIDE DEF g, T
<1>7. Cardinality(T) = n
  BY <1>1, <1>5, <1>6, AllDifferent
<1> QED BY <1>7 DEF T, n

LEMMA TokensDiffer ==
  ASSUME VerifyInv, Counted
  PROVE  Cardinality({<<t.serial, t.info.time>> : t \in Range(entity.tsts)}) = Len(entity.tsts)
<1> DEFINE m == Len(entity.entries)
           n == Len(entity.tsts)
           T == {<<t.serial, t.info.time>> : t \in Range(entity.tsts)}
           g == [k \in 1 .. n |-> <<entity.tsts[k].serial, entity.tsts[k].info.time>>]
<1>1. /\ m \in Nat /\ n \in Nat /\ DOMAIN entity.entries = 1 .. m /\ DOMAIN entity.tsts = 1 .. n
      /\ Timestamps = m + n
  BY EntityLists DEF VerifyInv
<1> HIDE DEF m, n
<1>2. \A k \in 1 .. n : entity.tsts[k] \in Range(entity.tsts)
  BY <1>1 DEF Range
<1>3. \A t \in Range(entity.tsts) : \E k \in 1 .. n : entity.tsts[k] = t
  BY <1>1 DEF Range
<1>4. ASSUME NEW k \in 1 .. n
      PROVE  /\ m + k \in 1 .. Timestamps
             /\ verified[m + k] = [type |-> "timestamp-authority",
                                  id |-> entity.tsts[k].serial, time |-> entity.tsts[k].info.time]
  <2>1. m + k \in 1 .. Timestamps /\ m + k \notin 1 .. m /\ (m + k) - m = k
    BY <1>1
  <2>2. Timestamp(m + k) = [type |-> "timestamp-authority",
                            id |-> entity.tsts[k].serial, time |-> entity.tsts[k].info.time]
    BY <1>1, <2>1, TimestampIsOf DEF VerifyInv, m
  <2> QED BY <2>1, <2>2, AllVerified
<1>5. \A i, j \in 1 .. n : g[i] = g[j] => i = j
  <2>1. ASSUME NEW i \in 1 .. n, NEW j \in 1 .. n, g[i] = g[j] PROVE m + i = m + j
    <3>1. verified[m + i] = verified[m + j]
      BY <1>4, <2>1
    <3>2. m + i \in 1 .. Timestamps /\ m + j \in 1 .. Timestamps
      BY <1>4
    <3> QED BY <3>1, <3>2, AllVerified
  <2> HIDE DEF g
  <2> QED BY <1>1, <2>1
<1>6. g \in [1 .. n -> T] /\ \A x \in T : \E k \in 1 .. n : g[k] = x
  BY <1>2, <1>3
<1> HIDE DEF g, T
<1>7. Cardinality(T) = n
  BY <1>1, <1>5, <1>6, AllDifferent
<1> QED BY <1>7 DEF T, n

LEMMA SCTsDiffer ==
  ASSUME VerifyInv, KeyError = "", entity.key.case = "certificate"
  PROVE  Cardinality({s.log : s \in Range(entity.key.scts)}) = Len(entity.key.scts)
<1> DEFINE scts == entity.key.scts
           n == Len(scts)
           T == {s.log : s \in Range(scts)}
           g == [k \in DOMAIN scts |-> scts[k].log]
<1>1. Distinct(g)
  BY DEF KeyError, CertificateHolds
<1>2. Listed(scts)
  BY EntityAssumption DEF VerifyInv, Inputs
<1> HIDE DEF scts
<1>3. n \in Nat /\ DOMAIN scts = 1 .. n
  BY <1>2, ListedIs
<1>4. \A i, j \in 1 .. n : g[i] = g[j] => i = j
  BY <1>1, <1>3 DEF Distinct
<1>5. g \in [1 .. n -> T] /\ \A x \in T : \E k \in 1 .. n : g[k] = x
  <2>1. \A k \in 1 .. n : scts[k] \in Range(scts)
    BY <1>3 DEF Range
  <2>2. \A s \in Range(scts) : \E k \in 1 .. n : scts[k] = s
    BY <1>3 DEF Range
  <2> QED BY <1>3, <2>1, <2>2
<1> HIDE DEF g, T, n
<1>6. Cardinality(T) = n
  BY <1>3, <1>4, <1>5, AllDifferent, ZenonT(30)
<1> QED BY <1>6 DEF T, n, scts

(* What is counted against a threshold are different pieces of evidence, of    *)
(* the kind the threshold is for (verifyTimestamps, verifySigningKey).     *)
THEOREM ThresholdsCountDifferent == Spec => []ThresholdsAreMet
<1>1. VerifyInv => ThresholdsAreMet
  <2> SUFFICES ASSUME VerifyInv, stage = "accepted" PROVE ThresholdsAreMet
    BY DEF ThresholdsAreMet
  <2>1. Counted /\ KeyError = ""
    BY DEF VerifyInv, Passed
  <2>2. Len(entity.entries) >= options.tlogThreshold /\ Len(entity.tsts) >= options.tsaThreshold
    BY <2>1 DEF Counted, Enough
  <2>3. entity.key.case = "certificate" => Len(entity.key.scts) >= options.ctlogThreshold
    BY <2>1 DEF KeyError, CertificateHolds
  <2> QED BY <2>1, <2>2, <2>3, EntriesDiffer, TokensDiffer, SCTsDiffer DEF ThresholdsAreMet
<1> QED BY <1>1, VerifyAlways, PTL

-----------------------------------------------------------------------------
(* The trust material is the trusted root, with validities that have an end. *)
LEMMA DuringIsWithin ==
  ASSUME NEW thing, thing.start \in Int, thing.end \in Int, NEW from \in Int, NEW until \in Int,
         During(thing).from <= from, until <= During(thing).until
  PROVE  thing.start <= from /\ (thing.end = Unset \/ until <= thing.end)
<1>1. thing.start <= from
  <2>1. CASE thing.start = Unset
    BY <2>1 DEF During, Unset, BEGINNING_OF_TIME
  <2>2. CASE thing.start # Unset
    BY <2>2 DEF During
  <2> QED BY <2>1, <2>2
<1>2. thing.end = Unset \/ until <= thing.end
  BY DEF During
<1> QED BY <1>1, <1>2

LEMMA RootLists ==
  ASSUME Inputs
  PROVE  /\ \A x \in Range(root.tlogs) \cup Range(root.ctlogs) \cup Range(root.cas)
                     \cup Range(root.tsas) \cup Range(root.keys) : x.start \in Int /\ x.end \in Int
         /\ \A a \in Range(root.cas) \cup Range(root.tsas) : Listed(a.chain) /\ AreCerts(Range(a.chain))
         /\ DOMAIN root.tlogs \subseteq Nat /\ DOMAIN root.ctlogs \subseteq Nat
         /\ DOMAIN root.cas \subseteq Nat /\ DOMAIN root.tsas \subseteq Nat
<1>1. /\ Listed(root.tlogs) /\ Listed(root.ctlogs) /\ Listed(root.cas) /\ Listed(root.tsas)
      /\ InTime(Range(root.tlogs) \cup Range(root.ctlogs) \cup Range(root.cas)
                  \cup Range(root.tsas) \cup Range(root.keys))
      /\ \A a \in Range(root.cas) \cup Range(root.tsas) : Listed(a.chain) /\ AreCerts(Range(a.chain))
  BY RootAssumption DEF Inputs
<1>2. ASSUME NEW s, Listed(s) PROVE DOMAIN s \subseteq Nat
  BY <1>2, ListedIs
<1> QED BY <1>1, <1>2 DEF InTime

LEMMA TrustedLogs ==
  ASSUME Inputs, NEW id, NEW time \in Int, NEW k \in FilterTLogs(trust.tlogs, id, time)
  PROVE  /\ k \in DOMAIN root.tlogs /\ root.tlogs[k] \in Range(root.tlogs) /\ root.tlogs[k].id = id
         /\ Within(root.tlogs[k], time) /\ trust.tlogs[k].key = root.tlogs[k].key
<1> DEFINE log == root.tlogs[k]
<1>1. k \in DOMAIN root.tlogs /\ log \in Range(root.tlogs)
  BY DEF FilterTLogs, trust, toTrustMaterial, Range
<1>2. trust.tlogs[k] = [id |-> log.id, key |-> log.key,
                        from |-> During(log).from, until |-> During(log).until]
  BY <1>1 DEF trust, toTrustMaterial, createTLogAuthority
<1>3. trust.tlogs[k].id = id /\ Valid(trust.tlogs[k], time)
  BY DEF FilterTLogs
<1>4. log.start \in Int /\ log.end \in Int
  BY <1>1, RootLists
<1> HIDE DEF log
<1>5. log.id = id /\ During(log).from <= time /\ time <= During(log).until
  BY <1>2, <1>3 DEF Valid
<1>6. Within(log, time)
  BY <1>4, <1>5, DuringIsWithin DEF Within
<1> QED BY <1>1, <1>2, <1>5, <1>6 DEF log

LEMMA TrustedCTLogs ==
  ASSUME Inputs, NEW id, NEW time \in Int, NEW k \in FilterTLogs(trust.ctlogs, id, time)
  PROVE  /\ root.ctlogs[k] \in Range(root.ctlogs) /\ root.ctlogs[k].id = id
         /\ Within(root.ctlogs[k], time) /\ trust.ctlogs[k].key = root.ctlogs[k].key
<1> DEFINE log == root.ctlogs[k]
<1>1. k \in DOMAIN root.ctlogs /\ log \in Range(root.ctlogs)
  BY DEF FilterTLogs, trust, toTrustMaterial, Range
<1>2. trust.ctlogs[k] = [id |-> log.id, key |-> log.key,
                         from |-> During(log).from, until |-> During(log).until]
  BY <1>1 DEF trust, toTrustMaterial, createTLogAuthority
<1>3. trust.ctlogs[k].id = id /\ Valid(trust.ctlogs[k], time)
  BY DEF FilterTLogs
<1>4. log.start \in Int /\ log.end \in Int
  BY <1>1, RootLists
<1> HIDE DEF log
<1>5. log.id = id /\ During(log).from <= time /\ time <= During(log).until
  BY <1>2, <1>3 DEF Valid
<1>6. Within(log, time)
  BY <1>4, <1>5, DuringIsWithin DEF Within
<1> QED BY <1>1, <1>2, <1>5, <1>6 DEF log

-----------------------------------------------------------------------------
(* An entry that is verified was logged.                                   *)
LEMMA EntryIsLogged ==
  ASSUME Inputs, NEW e \in Range(entity.entries), TLogError(e) = ""
  PROVE  Logged(e)
<1>1. e.time \in Int /\ (e.proof # None => AreSigs(e.proof.checkpoint.sigs))
  BY EntriesAre, Zenon
<1>2. \/ e.promise # None /\ PromiseHolds(e)
      \/ e.promise = None /\ e.proof # None /\ MerkleHolds(e) /\ CheckpointHolds(e)
  BY DEF TLogError
<1>3. CASE e.promise # None /\ PromiseHolds(e)
  <2>1. PICK k \in FilterTLogs(trust.tlogs, e.log, e.time) :
          MadeBy(e.promise, trust.tlogs[k].key, [body |-> e.body, time |-> e.time, log |-> e.log])
    BY <1>3 DEF PromiseHolds
  <2> DEFINE l == root.tlogs[k]
  <2>2. l \in Range(root.tlogs) /\ l.id = e.log /\ Within(l, e.time) /\ trust.tlogs[k].key = l.key
    BY <1>1, TrustedLogs, ZenonT(30)
  <2> HIDE DEF l
  <2>3. MadeBy(e.promise, l.key, [body |-> e.body, time |-> e.time, log |-> l.id])
    BY <2>1, <2>2
  <2> QED BY <1>3, <2>2, <2>3 DEF Logged, Promised
<1>4. CASE e.promise = None /\ e.proof # None /\ MerkleHolds(e) /\ CheckpointHolds(e)
  <2> DEFINE note == e.proof.checkpoint
  <2>1. PICK s \in note.sigs : TRUE
    BY <1>4 DEF CheckpointHolds
  <2> DEFINE logs == FilterTLogs(trust.tlogs, s.hint, e.time)
             k == First(logs)
             l == root.tlogs[k]
  <2>2. logs # {} /\ MadeBy(s.sig, trust.tlogs[k].key, e.proof.root)
    BY <1>4, <2>1 DEF CheckpointHolds
  <2>3. logs \subseteq Nat
    BY <1>1, TrustedLogs, RootLists
  <2>4. k \in logs
    BY <2>2, <2>3, FirstOf
  <2> HIDE DEF k
  <2>5. l \in Range(root.tlogs) /\ l.id = s.hint /\ Within(l, e.time) /\ trust.tlogs[k].key = l.key
    BY <1>1, <2>4, TrustedLogs, ZenonT(30)
  <2> HIDE DEF l
  <2>6. s = [hint |-> l.id, sig |-> [by |-> l.key, over |-> e.proof.root]]
    BY <1>1, <1>4, <2>1, <2>2, <2>5 DEF AreSigs, MadeBy
  <2> QED BY <1>4, <2>1, <2>5, <2>6 DEF Logged, Included, MerkleHolds
<1> QED BY <1>2, <1>3, <1>4

-----------------------------------------------------------------------------
(* The authorities.                                                        *)
LEMMA TrustedAuthorities ==
  ASSUME Inputs
  PROVE  /\ DOMAIN trust.cas = DOMAIN root.cas /\ DOMAIN trust.tsas = DOMAIN root.tsas
         /\ \A k \in DOMAIN root.cas :
              /\ root.cas[k] \in Range(root.cas) /\ trust.cas[k].chain = root.cas[k].chain
              /\ trust.cas[k].from = During(root.cas[k]).from
              /\ trust.cas[k].until = During(root.cas[k]).until
         /\ \A k \in DOMAIN root.tsas :
              /\ root.tsas[k] \in Range(root.tsas) /\ trust.tsas[k].chain = root.tsas[k].chain
              /\ trust.tsas[k].from = During(root.tsas[k]).from
              /\ trust.tsas[k].until = During(root.tsas[k]).until
BY DEF trust, toTrustMaterial, createCertAuthority, Range

LEMMA CertsAre ==
  ASSUME NEW certs, AreCerts(certs)
  PROVE  \A c \in certs : /\ c.from \in Int /\ c.until \in Int
                          /\ c.pathLen \in Int /\ c.pathLen \in Nat \cup {NoLimit}
                          /\ c.usage \in {"absent", "keyCertSign", "other"}
BY DEF AreCerts, NoLimit

(* The part of a chain after its leaf is a list of some of its certificates. *)
LEMMA TailIsListed ==
  ASSUME NEW chain, Listed(chain), AreCerts(Range(chain)), chain # <<>>
  PROVE  /\ Tail(chain) \in Seq(Range(Tail(chain))) /\ Range(Tail(chain)) \subseteq Range(chain)
         /\ \A c \in Range(Tail(chain)) :
              c.pathLen \in Int /\ c.usage \in {"absent", "keyCertSign", "other"}
         /\ 1 \in DOMAIN chain /\ Head(chain) = chain[1]
<1> DEFINE tail == Tail(chain)
<1>1. tail \in Seq(Range(chain)) /\ Len(tail) \in Nat /\ DOMAIN tail = 1 .. Len(tail)
      /\ Len(chain) # 0 /\ Head(chain) = chain[1]
  BY HeadTailProperties, EmptySeq DEF Listed
<1>2. 1 \in DOMAIN chain
  BY <1>1, ListedIs
<1> HIDE DEF tail
<1>3. Range(tail) \subseteq Range(chain)
  BY <1>1 DEF Range
<1>4. tail \in [1 .. Len(tail) -> Range(tail)]
  BY <1>1 DEF Range
<1>5. tail \in Seq(Range(tail))
  BY <1>1, <1>4, SeqDef
<1>6. \A c \in Range(tail) : c.pathLen \in Int /\ c.usage \in {"absent", "keyCertSign", "other"}
  BY <1>3, CertsAre
<1> QED BY <1>1, <1>2, <1>3, <1>5, <1>6 DEF tail

LEMMA BetweenIs ==
  ASSUME NEW x \in Int, NEW from \in Int, NEW until \in Int, from <= x, x <= until
  PROVE  x \in from .. until
OBVIOUS

(* A timestamp token that is verified was stamped by a trusted authority.     *)
LEMMA TokenIsStamped ==
  ASSUME Inputs, NEW t \in Range(entity.tsts), t.info.time \in Int, TSAError(t) = ""
  PROVE  Stamped(t)
<1> DEFINE time == t.info.time
           valid == filterCertAuthorities(trust.tsas, time, time)
<1>1. PICK k \in valid \cap filterCAsBySerialAndIssuer(trust.tsas, t) :
             verifyTimestampForCA(t, entity.sig, trust.tsas[k])
  BY DEF TSAError, signingTime
<1> DEFINE a == root.tsas[k]
           leaf == Head(a.chain)
           others == Tail(a.chain)
<1>2. k \in DOMAIN root.tsas
  BY <1>1, TrustedAuthorities DEF filterCertAuthorities
<1>3. /\ a \in Range(root.tsas) /\ trust.tsas[k].chain = a.chain
      /\ During(a).from <= time /\ time <= During(a).until
      /\ a.chain # <<>> /\ leaf.serial = t.serial
  BY <1>1, <1>2, TrustedAuthorities DEF filterCertAuthorities, filterCAsBySerialAndIssuer
<1>4. /\ Path(leaf, others) # <<>>
      /\ \A i \in DOMAIN a.chain : Valid(a.chain[i], time)
      /\ TokenHolds(t, entity.sig, leaf.key)
  BY <1>1, <1>3 DEF verifyTimestampForCA, signingTime
<1>5. a.start \in Int /\ a.end \in Int /\ Listed(a.chain) /\ AreCerts(Range(a.chain))
  BY <1>3, RootLists
<1> HIDE DEF a
<1>6. Within(a, time)
  BY <1>3, <1>5, DuringIsWithin DEF Within
<1>7. Alive(Range(a.chain), {time})
  <2>1. ASSUME NEW c \in Range(a.chain) PROVE time \in c.from .. c.until
    <3>1. PICK i \in DOMAIN a.chain : a.chain[i] = c
      BY DEF Range
    <3>2. c.from <= time /\ time <= c.until
      BY <1>4, <3>1 DEF Valid
    <3>3. c.from \in Int /\ c.until \in Int /\ time \in Int
      BY <1>5 DEF AreCerts
    <3> QED BY <3>2, <3>3, BetweenIs
  <2> QED BY <2>1 DEF Alive
<1>8. Certifications(leaf, others) # {}
  BY <1>3, <1>4, <1>5, TailIsListed, PathCertifies
<1>9. t.info.imprint = entity.sig /\ MadeBy(t.sig, leaf.key, t.info)
  BY <1>4 DEF TokenHolds, ImprintHolds, verifyMessageDigest, verifySignature, MadeBy
<1> QED BY <1>3, <1>6, <1>7, <1>8, <1>9 DEF Stamped

(* The moments are when the timestamps that were verified say.             *)
LEMMA MomentsAreVerified ==
  ASSUME VerifyInv, Counted
  PROVE  \A m \in Moments : m \in Int /\ \E k \in DOMAIN verified : verified[k].time = m
<1>1. ASSUME NEW e \in Range(entity.entries)
      PROVE  e.time \in Int /\ \E k \in DOMAIN verified : verified[k].time = e.time
  <2>1. PICK k \in DOMAIN entity.entries : entity.entries[k] = e
    BY DEF Range
  <2> DEFINE m == Len(entity.entries)
             n == Len(entity.tsts)
  <2>2. k \in 1 .. m /\ m \in Nat /\ n \in Nat /\ Timestamps = m + n
    BY EntityLists DEF VerifyInv
  <2> HIDE DEF m, n
  <2>3. k \in 1 .. Timestamps
    BY <2>2
  <2>4. verified[k] = [type |-> "transparency-log", id |-> e.log, time |-> e.time]
    BY <2>1, <2>3, TimestampIsOf, AllVerified DEF VerifyInv
  <2>5. k \in DOMAIN verified /\ verified[k].time = e.time
    <3>1. k \in DOMAIN verified
      BY <2>3, AllVerified
    <3>2. verified[k].time = e.time
      BY <2>4
    <3> QED BY <3>1, <3>2
  <2>6. e.time \in Int
    BY EntriesAre DEF VerifyInv
  <2> QED BY <2>5, <2>6
<1>2. ASSUME NEW t \in Range(entity.tsts)
      PROVE  t.info.time \in Int /\ \E k \in DOMAIN verified : verified[k].time = t.info.time
  <2>1. PICK i \in DOMAIN entity.tsts : entity.tsts[i] = t
    BY DEF Range
  <2> DEFINE m == Len(entity.entries)
             n == Len(entity.tsts)
             k == m + i
  <2>2. i \in 1 .. n /\ m \in Nat /\ n \in Nat /\ Timestamps = m + n /\ DOMAIN entity.entries = 1 .. m
    BY EntityLists DEF VerifyInv
  <2> HIDE DEF m, n
  <2>3. k \in 1 .. Timestamps /\ k \notin DOMAIN entity.entries /\ k - m = i
    BY <2>2
  <2> HIDE DEF k
  <2>4. verified[k] = [type |-> "timestamp-authority", id |-> t.serial, time |-> t.info.time]
    BY <2>1, <2>3, TimestampIsOf, AllVerified DEF VerifyInv, m
  <2>5. k \in DOMAIN verified /\ verified[k].time = t.info.time
    <3>1. k \in DOMAIN verified
      BY <2>3, AllVerified
    <3>2. verified[k].time = t.info.time
      BY <2>4
    <3> QED BY <3>1, <3>2
  <2>6. t.info.time \in Int
    BY TokensAre DEF VerifyInv
  <2> QED BY <2>5, <2>6
<1> QED BY <1>1, <1>2 DEF Moments

-----------------------------------------------------------------------------
(* The key.                                                                *)
LEMMA CertificateIs ==
  ASSUME Inputs, entity.key.case = "certificate"
  PROVE  /\ entity.key.cert.from \in Int /\ entity.key.cert.until \in Int
         /\ Listed(entity.key.scts) /\ \A s \in Range(entity.key.scts) : s.time \in Int
BY EntityAssumption DEF Inputs, AreCerts

(* A certificate that holds is vouched for by the authority to which it is     *)
(* traced, and its SCTs are about it and the one above it on the path.      *)
LEMMA CertificateIsVouched ==
  ASSUME VerifyInv, Counted, entity.key.case = "certificate", CertificateHolds(entity.key)
  PROVE  \E a \in Range(root.cas) : \E p \in Vouched(entity.key, a) : \E i \in p :
           i.key = entity.key.cert.by /\ verifySCTs(entity.key.cert, i, entity.key.scts)
<1> DEFINE leaf == entity.key.cert
           cas == filterCertAuthorities(trust.cas, leaf.from, leaf.until)
           traced == {k \in cas : Path(leaf, trust.cas[k].chain) # <<>>}
           path == verifyCertificateChain(leaf)
           k == First(traced)
           a == root.cas[k]
<1>1. /\ path # <<>> /\ \A i \in DOMAIN path : ValidAtAll(path[i])
      /\ verifySCTs(path[1], path[2], entity.key.scts)
  BY DEF CertificateHolds, Traced
<1>2. traced # {} /\ path = Path(leaf, trust.cas[k].chain)
  BY <1>1 DEF verifyCertificateChain
<1>3. traced \subseteq Nat
  BY RootLists, TrustedAuthorities DEF VerifyInv, filterCertAuthorities
<1>4. k \in traced
  BY <1>2, <1>3, FirstOf
<1> HIDE DEF k
<1>5. /\ a \in Range(root.cas) /\ trust.cas[k].chain = a.chain
      /\ During(a).from <= leaf.from /\ leaf.until <= During(a).until
  BY <1>4, TrustedAuthorities DEF VerifyInv, filterCertAuthorities
<1>6. /\ a.start \in Int /\ a.end \in Int /\ Listed(a.chain) /\ AreCerts(Range(a.chain))
      /\ leaf.from \in Int /\ leaf.until \in Int
  BY <1>5, RootLists, CertificateIs DEF VerifyInv
<1> HIDE DEF a, path
<1>7. a.start <= leaf.from /\ (a.end = Unset \/ leaf.until <= a.end)
  BY <1>5, <1>6, DuringIsWithin
<1> DEFINE p == {path[i] : i \in 2 .. Len(path)}
<1>8. /\ path \in Seq(Range(a.chain) \cup {leaf}) /\ Len(path) > 1
      /\ path[1] = leaf /\ path[2].key = leaf.by /\ p \in Certifications(leaf, a.chain)
  <2>1. path = Path(leaf, a.chain) /\ path # <<>>
    BY <1>1, <1>2, <1>5 DEF path
  <2>2. a.chain \in Seq(Range(a.chain)) /\ \A c \in Range(a.chain) : c.pathLen \in Int
    BY <1>6, CertsAre DEF Listed
  <2> DEFINE way == Path(leaf, a.chain)
  <2>3. /\ way \in Seq(Range(a.chain) \cup {leaf}) /\ Len(way) > 1
        /\ way[1] = leaf /\ way[2].key = leaf.by
        /\ {way[i] : i \in 2 .. Len(way)} \in Certifications(leaf, a.chain)
    BY <2>1, <2>2, PathCertifies, Zenon
  <2> HIDE DEF way
  <2>4. path = way
    BY <2>1 DEF way
  <2> QED BY <2>3, <2>4, Zenon
<1>9. /\ \A i \in 1 .. Len(path) : i \in DOMAIN path /\ path[i] \in Range(a.chain) \cup {leaf}
      /\ 1 \in 1 .. Len(path) /\ 2 \in 2 .. Len(path) /\ 2 .. Len(path) \subseteq 1 .. Len(path)
  BY <1>8
<1>10. Alive(p \cup {leaf}, Moments)
  <2>1. ASSUME NEW c \in p \cup {leaf}, NEW m \in Moments PROVE m \in c.from .. c.until
    <3>1. PICK i \in 1 .. Len(path) : path[i] = c
      BY <1>8, <1>9
    <3>2. PICK j \in DOMAIN verified : verified[j].time = m
      BY MomentsAreVerified
    <3>3. c.from <= m /\ m <= c.until
      BY <1>1, <1>9, <3>1, <3>2 DEF ValidAtAll, Valid, path
    <3>4. m \in Int /\ c.from \in Int /\ c.until \in Int
      BY <1>6, <1>9, <3>1, MomentsAreVerified DEF AreCerts
    <3> QED BY <3>3, <3>4, BetweenIs
  <2> QED BY <2>1 DEF Alive
<1>11. p \in Vouched(entity.key, a)
  BY <1>7, <1>8, <1>10 DEF Vouched
<1>12. path[2] \in p /\ verifySCTs(leaf, path[2], entity.key.scts)
  BY <1>1, <1>8, <1>9 DEF path
<1> QED BY <1>5, <1>8, <1>11, <1>12

(* The key of the signer is one that could sign at every moment.            *)
LEMMA SignerCouldSign ==
  ASSUME VerifyInv, Counted, KeyError = ""
  PROVE  SignerKey \in KeyOf(entity.key)
<1>1. entity.key.case \in {"certificate", "public-key"}
  BY EntityAssumption DEF VerifyInv, Inputs
<1>2. CASE entity.key.case = "certificate"
  <2>1. CertificateHolds(entity.key)
    BY <1>2 DEF KeyError
  <2>2. \E a \in Range(root.cas) : Vouched(entity.key, a) # {}
    BY <1>2, <2>1, CertificateIsVouched
  <2> QED BY <1>2, <2>2 DEF KeyOf, SignerKey
<1>3. CASE entity.key.case = "public-key"
  <2> DEFINE h == entity.key.hint
             key == root.keys[h]
             held == trust.keys[h]
  <2>1. h \in DOMAIN trust.keys /\ ValidAtAll(held)
    BY <1>3 DEF KeyError
  <2>2. h \in DOMAIN root.keys
    BY <2>1 DEF trust, toTrustMaterial, keyLocator
  <2>3. held.key = key.key /\ held.from = During(key).from /\ held.until = During(key).until
    BY <2>2 DEF trust, toTrustMaterial, keyLocator
  <2>4. key \in Range(root.keys)
    BY <2>2 DEF Range
  <2>5. key.start \in Int /\ key.end \in Int
    BY <2>4, RootLists DEF VerifyInv
  <2> HIDE DEF key, held
  <2>6. ASSUME NEW m \in Moments PROVE Within(key, m)
    <3>1. m \in Int /\ \E j \in DOMAIN verified : verified[j].time = m
      BY MomentsAreVerified
    <3>2. Valid(held, m)
      BY <2>1, <3>1 DEF ValidAtAll
    <3>3. During(key).from <= m /\ m <= During(key).until
      BY <2>3, <3>2 DEF Valid
    <3> QED BY <2>5, <3>1, <3>3, DuringIsWithin DEF Within
  <2>7. SignerKey = key.key
    <3>1. SignerKey = held.key
      BY <1>3 DEF SignerKey, held
    <3> QED BY <2>3, <3>1
  <2> QED BY <1>3, <2>2, <2>6, <2>7 DEF KeyOf, key
<1> QED BY <1>1, <1>2, <1>3

-----------------------------------------------------------------------------
(* The evidence of what is accepted (verifyTimestamps, verifySigningKey,      *)
(* verifyTLogs and verifySignature together): the key that made the signature *)
(* could sign at all its moments, and all of it is by trusted services.     *)
THEOREM AcceptedHasWitnesses == Spec => []AcceptedIsWitnessed
<1>1. VerifyInv => AcceptedIsWitnessed
  <2> SUFFICES ASSUME VerifyInv, stage = "accepted"
               PROVE  /\ \E key \in KeyOf(entity.key) : MadeBy(entity.sig, key, entity.artifact)
                      /\ \A e \in Range(entity.entries) : Logged(e) /\ e.body.sigs = <<entity.sig>>
                      /\ \A t \in Range(entity.tsts) : Stamped(t)
    BY DEF AcceptedIsWitnessed
  <2>1. /\ Inputs /\ Counted /\ KeyError = "" /\ MadeBy(entity.sig, SignerKey, entity.artifact)
        /\ \A k \in DOMAIN entity.entries : BodyHolds(entity.entries[k])
    BY DEF VerifyInv, Passed
  <2>2. \E key \in KeyOf(entity.key) : MadeBy(entity.sig, key, entity.artifact)
    BY <2>1, SignerCouldSign
  <2> DEFINE m == Len(entity.entries)
             n == Len(entity.tsts)
  <2>3. /\ m \in Nat /\ n \in Nat /\ Timestamps = m + n
        /\ DOMAIN entity.entries = 1 .. m /\ DOMAIN entity.tsts = 1 .. n
    BY <2>1, EntityLists
  <2> HIDE DEF m, n
  <2>4. ASSUME NEW e \in Range(entity.entries) PROVE Logged(e) /\ e.body.sigs = <<entity.sig>>
    <3>1. PICK k \in DOMAIN entity.entries : entity.entries[k] = e
      BY DEF Range
    <3>2. k \in 1 .. Timestamps
      BY <2>3, <3>1
    <3>3. TLogError(e) = ""
      BY <2>1, <3>1, <3>2, TimestampIsOf, AllVerified
    <3>4. Len(e.body.sigs) = 1 /\ e.body.sigs[1] = entity.sig
      BY <2>1, <3>1 DEF BodyHolds, verifyDSSETLogBody, verifyHashedRekordTLogBody,
                        verifyIntotoTLogBody, SpeaksOf
    <3>5. e.body.sigs = <<entity.sig>>
      <4>1. e.body.sigs \in Seq(Range(e.body.sigs))
        BY <2>1, EntriesAre DEF Listed
      <4> DEFINE sigs == e.body.sigs
      <4> HIDE DEF sigs
      <4>2. sigs = <<entity.sig>>
        BY <3>4, <4>1 DEF sigs
      <4> QED BY <4>2 DEF sigs
    <3> QED BY <2>1, <3>3, <3>5, EntryIsLogged
  <2>5. ASSUME NEW t \in Range(entity.tsts) PROVE Stamped(t)
    <3>1. PICK i \in DOMAIN entity.tsts : entity.tsts[i] = t
      BY DEF Range
    <3> DEFINE k == m + i
    <3>2. k \in 1 .. Timestamps /\ k \notin DOMAIN entity.entries /\ k - m = i
      BY <2>3, <3>1
    <3> HIDE DEF k
    <3>3. TSAError(t) = ""
      BY <2>1, <3>1, <3>2, TimestampIsOf, AllVerified DEF m
    <3> QED BY <2>1, <3>3, TokensAre, TokenIsStamped
  <2> QED BY <2>2, <2>4, <2>5
<1> QED BY <1>1, VerifyAlways, PTL

(* The certificate of what is accepted: one path, of one trusted authority,    *)
(* holds at every moment of the evidence, and all SCTs are about the          *)
(* certificate under the issuer on that path (verifySigningKey).           *)
THEOREM AcceptedHasPath == Spec => []AcceptedIsCertified
<1>1. VerifyInv => AcceptedIsCertified
  <2> SUFFICES ASSUME VerifyInv, stage = "accepted", entity.key.case = "certificate"
               PROVE  AcceptedIsCertified
    BY DEF AcceptedIsCertified
  <2>1. Inputs /\ Counted /\ CertificateHolds(entity.key)
    BY DEF VerifyInv, Passed, KeyError
  <2>2. PICK a \in Range(root.cas) : \E p \in Vouched(entity.key, a) : \E i \in p :
               i.key = entity.key.cert.by /\ verifySCTs(entity.key.cert, i, entity.key.scts)
    BY <2>1, CertificateIsVouched
  <2>3. PICK p \in Vouched(entity.key, a) : \E i \in p :
               i.key = entity.key.cert.by /\ verifySCTs(entity.key.cert, i, entity.key.scts)
    BY <2>2
  <2>4. PICK i \in p : i.key = entity.key.cert.by /\ verifySCTs(entity.key.cert, i, entity.key.scts)
    BY <2>3
  <2>5. ASSUME NEW s \in Range(entity.key.scts)
        PROVE  \E l \in Range(root.ctlogs) :
                 /\ l.id = s.log /\ Within(l, s.time)
                 /\ MadeBy(s.sig, l.key, [preCert |-> [cert |-> entity.key.cert, issuer |-> i.key],
                                        time |-> s.time])
    <3>1. PICK k \in DOMAIN entity.key.scts : entity.key.scts[k] = s
      BY DEF Range
    <3>2. PICK j \in FilterTLogs(trust.ctlogs, s.log, s.time) :
                 SCTVerifies(s, PreCert(entity.key.cert, i), trust.ctlogs[j].key)
      BY <2>4, <3>1 DEF verifySCTs
    <3> DEFINE l == root.ctlogs[j]
    <3>3. l \in Range(root.ctlogs) /\ l.id = s.log /\ Within(l, s.time) /\ trust.ctlogs[j].key = l.key
      BY <2>1, CertificateIs, TrustedCTLogs
    <3> HIDE DEF l
    <3>4. MadeBy(s.sig, l.key, [preCert |-> [cert |-> entity.key.cert, issuer |-> i.key], time |-> s.time])
      BY <3>2, <3>3 DEF SCTVerifies, PreCert
    <3> QED BY <3>3, <3>4
  <2> QED BY <2>4, <2>5 DEF AcceptedIsCertified
<1> QED BY <1>1, VerifyAlways, PTL

-----------------------------------------------------------------------------
(* No check throws for an entity that is in order.                          *)
AsAskedFor == InOrder /\ options.san \in {<<>>, Identity.san} /\ Plain(options.san)

LEMMA AsAskedForIsSame == ASSUME Same PROVE AsAskedFor' <=> AsAskedFor
<1>1. Moments' = Moments /\ Identity' = Identity
  BY DEF Same, Moments, Identity
<1>2. ASSUME NEW k, NEW a PROVE Vouched(k, a)' = Vouched(k, a)
  BY <1>1 DEF Vouched
<1>3. ASSUME NEW k PROVE KeyOf(k)' = KeyOf(k) /\ (Unmistakable(k)' <=> Unmistakable(k))
  BY <1>1, <1>2 DEF Same, KeyOf, Unmistakable
<1>4. ASSUME NEW e PROVE /\ Promised(e)' <=> Promised(e)
                         /\ Included(e)' <=> Included(e)
                         /\ Logged(e)' <=> Logged(e)
  BY DEF Same, Promised, Included, Logged
<1>5. ASSUME NEW t PROVE (Stamped(t)' <=> Stamped(t)) /\ (InForm(t)' <=> InForm(t))
  BY DEF Same, Stamped, InForm
<1>6. ASSUME NEW k PROVE (Timely(k)' <=> Timely(k)) /\ (NamedApart' <=> NamedApart)
  BY <1>1 DEF Same, Timely, NamedApart
<1>7. (\E key \in KeyOf(entity.key) : MadeBy(entity.sig, key, entity.artifact))'
        <=> \E key \in KeyOf(entity.key) : MadeBy(entity.sig, key, entity.artifact)
  BY <1>3 DEF Same
<1> QED BY ZenonT(60), <1>1, <1>3, <1>4, <1>5, <1>6, <1>7 DEF AsAskedFor, InOrder, Same

(* A service that could vouch at an instant is found when it is looked for.   *)
LEMMA WithinIsDuring ==
  ASSUME NEW thing, thing.start \in Int, thing.end \in Int, NEW from \in Instants, NEW until \in Instants,
         thing.start <= from, thing.end = Unset \/ until <= thing.end
  PROVE  During(thing).from <= from /\ until <= During(thing).until
<1>1. from \in Int /\ until \in Int /\ 0 <= from /\ until <= END_OF_TIME
  BY TimeAssumption DEF Instants, BEGINNING_OF_TIME
<1>2. During(thing).from <= from
  BY <1>1 DEF During, BEGINNING_OF_TIME
<1>3. until <= During(thing).until
  BY <1>1, TimeAssumption DEF During
<1> QED BY <1>2, <1>3

LEMMA InstantsAre == \A x \in Instants : x \in Int
BY DEF Instants

LEMMA LogIsFound ==
  ASSUME Inputs, NEW l \in Range(root.tlogs), NEW time \in Instants, Within(l, time)
  PROVE  \E k \in FilterTLogs(trust.tlogs, l.id, time) : trust.tlogs[k].key = l.key
<1>1. PICK k \in DOMAIN root.tlogs : root.tlogs[k] = l
  BY DEF Range
<1> DEFINE log == trust.tlogs[k]
<1>2. k \in DOMAIN trust.tlogs /\ log.id = l.id /\ log.key = l.key
      /\ log.from = During(l).from /\ log.until = During(l).until
  BY <1>1 DEF trust, toTrustMaterial, createTLogAuthority
<1> HIDE DEF log
<1>3. log.from <= time /\ time <= log.until
  BY <1>2, RootLists, WithinIsDuring DEF Within
<1>4. k \in FilterTLogs(trust.tlogs, l.id, time)
  BY <1>2, <1>3 DEF FilterTLogs, Valid, log
<1> QED BY <1>2, <1>4 DEF log

LEMMA CTLogIsFound ==
  ASSUME Inputs, NEW l \in Range(root.ctlogs), NEW time \in Instants, Within(l, time)
  PROVE  \E k \in FilterTLogs(trust.ctlogs, l.id, time) : trust.ctlogs[k].key = l.key
<1>1. PICK k \in DOMAIN root.ctlogs : root.ctlogs[k] = l
  BY DEF Range
<1> DEFINE log == trust.ctlogs[k]
<1>2. k \in DOMAIN trust.ctlogs /\ log.id = l.id /\ log.key = l.key
      /\ log.from = During(l).from /\ log.until = During(l).until
  BY <1>1 DEF trust, toTrustMaterial, createTLogAuthority
<1> HIDE DEF log
<1>3. log.from <= time /\ time <= log.until
  BY <1>2, RootLists, WithinIsDuring DEF Within
<1>4. k \in FilterTLogs(trust.ctlogs, l.id, time)
  BY <1>2, <1>3 DEF FilterTLogs, Valid, log
<1> QED BY <1>2, <1>4 DEF log

(* An entry.                                                               *)
LEMMA EntryPasses ==
  ASSUME Inputs, InOrder, NEW e \in Range(entity.entries)
  PROVE  TLogError(e) = ""
<1>1. /\ Logged(e) /\ (e.promise # None => Promised(e)) /\ (e.proof # None => Included(e))
      /\ e.proof # None => /\ Cardinality(e.proof.checkpoint.sigs) = 1
                           /\ e.proof.checkpoint.root = e.proof.root
  BY DEF InOrder
<1>2. e.time \in Instants
  BY DEF InOrder, Timely, Moments
<1>3. e.promise # None => PromiseHolds(e)
  <2> SUFFICES ASSUME e.promise # None PROVE PromiseHolds(e)
    OBVIOUS
  <2>1. PICK l \in Range(root.tlogs) :
          /\ Within(l, e.time) /\ l.id = e.log
          /\ MadeBy(e.promise, l.key, [body |-> e.body, time |-> e.time, log |-> l.id])
    BY <1>1 DEF Promised
  <2>2. PICK k \in FilterTLogs(trust.tlogs, l.id, e.time) : trust.tlogs[k].key = l.key
    BY <1>2, <2>1, LogIsFound
  <2> QED BY <2>1, <2>2 DEF PromiseHolds
<1>4. e.proof # None => MerkleHolds(e) /\ CheckpointHolds(e)
  <2> SUFFICES ASSUME e.proof # None PROVE MerkleHolds(e) /\ CheckpointHolds(e)
    OBVIOUS
  <2> DEFINE sigs == e.proof.checkpoint.sigs
             top == e.proof.root
  <2>1. PICK l \in Range(root.tlogs) :
          Within(l, e.time) /\ [hint |-> l.id, sig |-> [by |-> l.key, over |-> top]] \in sigs
    BY <1>1 DEF Included
  <2> DEFINE own == [hint |-> l.id, sig |-> [by |-> l.key, over |-> top]]
  <2>2. IsFiniteSet(sigs) /\ Cardinality(sigs) = 1
    BY <1>1, EntriesAre DEF AreSigs
  <2> HIDE DEF sigs
  <2>3. sigs = {own}
    BY <2>1, <2>2, FS_Singleton
  <2> DEFINE logs == FilterTLogs(trust.tlogs, l.id, e.time)
             k == First(logs)
  <2>4. logs # {}
    BY <1>2, <2>1, LogIsFound
  <2>5. e.time \in Int
    BY <1>2, InstantsAre
  <2>6. logs \subseteq Nat
    BY <2>5, TrustedLogs, RootLists
  <2>7. k \in logs
    BY <2>4, <2>6, FirstOf
  <2> HIDE DEF k
  <2>8. trust.tlogs[k].key = l.key
    <3>1. root.tlogs[k] \in Range(root.tlogs) /\ root.tlogs[k].id = l.id
          /\ trust.tlogs[k].key = root.tlogs[k].key
      BY <2>5, <2>7, TrustedLogs
    <3>2. NamedApart
      BY DEF InOrder
    <3> QED BY <2>1, <3>1, <3>2 DEF NamedApart
  <2>9. own.hint = l.id /\ MadeBy(own.sig, trust.tlogs[k].key, top)
    BY <2>8 DEF MadeBy
  <2> HIDE DEF own, logs
  <2>10. \A s \in sigs : LET found == FilterTLogs(trust.tlogs, s.hint, e.time)
                        IN  found # {} /\ MadeBy(s.sig, trust.tlogs[First(found)].key, top)
    BY <2>3, <2>4, <2>9 DEF logs, k
  <2>11. CheckpointHolds(e)
    BY <1>1, <2>3, <2>10 DEF CheckpointHolds, sigs
  <2>12. MerkleHolds(e)
    BY <1>1 DEF Included, MerkleHolds
  <2> QED BY <2>11, <2>12
<1>5. e.promise # None \/ e.proof # None
  BY <1>1 DEF Logged, Promised, Included
<1>6. ~ ProofUnread(e)
  BY DEF InOrder, ProofUnread, Unread
<1> QED BY <1>3, <1>4, <1>5, <1>6 DEF TLogError

(* A timestamp token.                                                      *)
LEMMA TokenPasses ==
  ASSUME Inputs, InOrder, NEW t \in Range(entity.tsts)
  PROVE  TSAError(t) = ""
<1>1. Stamped(t) /\ InForm(t)
  BY Zenon DEF InOrder
<1> DEFINE time == t.info.time
<1>2. time \in Instants /\ time \in Int
  BY InstantsAre DEF InOrder, Timely, Moments
<1>3. PICK a \in Range(root.tsas) :
        /\ a.chain # <<>> /\ Head(a.chain).serial = t.serial /\ Within(a, time)
        /\ Alive(Range(a.chain), {time}) /\ Certifications(Head(a.chain), Tail(a.chain)) # {}
        /\ t.info.imprint = entity.sig /\ MadeBy(t.sig, Head(a.chain).key, t.info)
  BY <1>1 DEF Stamped
<1> DEFINE leaf == Head(a.chain)
           others == Tail(a.chain)
<1>4. /\ t.token /\ t.typed /\ t.digest = t.info /\ leaf.issuer = t.issuer
      /\ \A p \in Certifications(leaf, others) : Straight(p, leaf, others)
  BY <1>1, <1>3 DEF InForm
<1>5. a.start \in Int /\ a.end \in Int /\ Listed(a.chain) /\ AreCerts(Range(a.chain))
  BY RootLists
<1>6. Path(leaf, others) # <<>>
  <2>1. PICK p \in Certifications(leaf, others) : Straight(p, leaf, others)
    BY <1>3, <1>4
  <2>2. /\ others \in Seq(Range(others))
        /\ \A c \in Range(others) : c.usage \in {"absent", "keyCertSign", "other"}
        /\ leaf \in Range(a.chain)
    BY <1>3, <1>5, TailIsListed DEF Range
  <2>3. leaf.pathLen \in Nat \cup {NoLimit}
    BY <1>5, <2>2, CertsAre
  <2> HIDE DEF leaf, others
  <2> QED BY <2>1, <2>2, <2>3, StraightPathIsFound
<1>7. PICK k \in DOMAIN root.tsas : root.tsas[k] = a
  BY DEF Range
<1>8. k \in DOMAIN trust.tsas /\ trust.tsas[k].chain = a.chain
      /\ trust.tsas[k].from = During(a).from /\ trust.tsas[k].until = During(a).until
  BY <1>7, TrustedAuthorities
<1>9. During(a).from <= time /\ time <= During(a).until
  BY <1>2, <1>3, <1>5, WithinIsDuring DEF Within
<1>10. k \in filterCertAuthorities(trust.tsas, time, time)
  BY <1>8, <1>9 DEF filterCertAuthorities
<1>11. k \in filterCAsBySerialAndIssuer(trust.tsas, t)
  BY <1>3, <1>4, <1>8 DEF filterCAsBySerialAndIssuer
<1>12. \A i \in DOMAIN a.chain : Valid(a.chain[i], time)
  <2>1. ASSUME NEW i \in DOMAIN a.chain PROVE Valid(a.chain[i], time)
    <3> DEFINE c == a.chain[i]
    <3>1. c \in Range(a.chain)
      BY DEF Range
    <3> HIDE DEF c
    <3>2. time \in c.from .. c.until /\ c.from \in Int /\ c.until \in Int
      BY <1>3, <1>5, <3>1, CertsAre DEF Alive
    <3>3. c.from <= time /\ time <= c.until
      BY <1>2, <3>2
    <3> QED BY <3>3 DEF Valid, c
  <2> QED BY <2>1
<1>13. TokenHolds(t, entity.sig, leaf.key)
  BY <1>3, <1>4 DEF TokenHolds, ImprintHolds, verifyMessageDigest, verifySignature
<1>14. verifyTimestampForCA(t, entity.sig, trust.tsas[k])
  BY <1>6, <1>8, <1>12, <1>13 DEF verifyTimestampForCA, signingTime
<1> QED BY <1>4, <1>10, <1>11, <1>14 DEF TSAError, signingTime

(* The timestamps are told apart if no two are alike.                      *)
LEMMA NoneAlike ==
  ASSUME NEW n \in Nat, NEW T, NEW g \in [1 .. n -> T], \A x \in T : \E k \in 1 .. n : g[k] = x,
         Cardinality(T) = n
  PROVE  \A i, j \in 1 .. n : g[i] = g[j] => i = j
<1>1. g \in Surjection(1 .. n, T)
  BY DEF Surjection
<1>2. IsFiniteSet(1 .. n) /\ Cardinality(1 .. n) = n
  BY FS_Interval
<1>3. g \in Injection(1 .. n, T)
  BY <1>1, <1>2, FS_Surjection
<1> QED BY <1>3 DEF Injection, IsInjective

LEMMA EntriesApart ==
  ASSUME Inputs, InOrder
  PROVE  \A i, j \in 1 .. Len(entity.entries) :
           (/\ entity.entries[i].log = entity.entries[j].log
            /\ entity.entries[i].time = entity.entries[j].time) => i = j
<1> DEFINE n == Len(entity.entries)
           T == {<<e.log, e.time>> : e \in Range(entity.entries)}
           g == [k \in 1 .. n |-> <<entity.entries[k].log, entity.entries[k].time>>]
<1>1. n \in Nat /\ DOMAIN entity.entries = 1 .. n
  BY EntityLists
<1>2. Cardinality(T) = n
  BY Zenon DEF InOrder
<1> HIDE DEF n
<1>3. \A k \in 1 .. n : entity.entries[k] \in Range(entity.entries)
  BY <1>1 DEF Range
<1>4. \A e \in Range(entity.entries) : \E k \in 1 .. n : entity.entries[k] = e
  BY <1>1 DEF Range
<1>5. g \in [1 .. n -> T] /\ \A x \in T : \E k \in 1 .. n : g[k] = x
  BY <1>3, <1>4
<1>6. \A i, j \in 1 .. n : g[i] = g[j] => i = j
  <2> HIDE DEF g, T
  <2> QED BY <1>1, <1>2, <1>5, NoneAlike
<1>7. ASSUME NEW i \in 1 .. n, NEW j \in 1 .. n, entity.entries[i].log = entity.entries[j].log,
             entity.entries[i].time = entity.entries[j].time
      PROVE  i = j
  <2>1. g[i] = g[j]
    BY <1>7
  <2> QED BY <1>6, <2>1
<1> QED BY <1>7 DEF n

LEMMA TokensApart ==
  ASSUME Inputs, InOrder
  PROVE  \A i, j \in 1 .. Len(entity.tsts) :
           (/\ entity.tsts[i].serial = entity.tsts[j].serial
            /\ entity.tsts[i].info.time = entity.tsts[j].info.time) => i = j
<1> DEFINE n == Len(entity.tsts)
           T == {<<t.serial, t.info.time>> : t \in Range(entity.tsts)}
           g == [k \in 1 .. n |-> <<entity.tsts[k].serial, entity.tsts[k].info.time>>]
<1>1. n \in Nat /\ DOMAIN entity.tsts = 1 .. n
  BY EntityLists
<1>2. Cardinality(T) = n
  BY Zenon DEF InOrder
<1> HIDE DEF n
<1>3. \A k \in 1 .. n : entity.tsts[k] \in Range(entity.tsts)
  BY <1>1 DEF Range
<1>4. \A t \in Range(entity.tsts) : \E k \in 1 .. n : entity.tsts[k] = t
  BY <1>1 DEF Range
<1>5. g \in [1 .. n -> T] /\ \A x \in T : \E k \in 1 .. n : g[k] = x
  BY <1>3, <1>4
<1>6. \A i, j \in 1 .. n : g[i] = g[j] => i = j
  <2> HIDE DEF g, T
  <2> QED BY <1>1, <1>2, <1>5, NoneAlike
<1>7. ASSUME NEW i \in 1 .. n, NEW j \in 1 .. n, entity.tsts[i].serial = entity.tsts[j].serial,
             entity.tsts[i].info.time = entity.tsts[j].info.time
      PROVE  i = j
  <2>1. g[i] = g[j]
    BY <1>7
  <2> QED BY <1>6, <2>1
<1> QED BY <1>7 DEF n

LEMMA TimestampsPass ==
  ASSUME VerifyInv, InOrder
  PROVE  /\ \A k \in 1 .. Timestamps : TimestampError(k) = ""
         /\ Len(verified) = Timestamps => Distinct(verified) /\ Enough
<1>1. Inputs
  BY DEF VerifyInv
<1> DEFINE m == Len(entity.entries)
           n == Len(entity.tsts)
<1>2. /\ m \in Nat /\ n \in Nat /\ DOMAIN entity.entries = 1 .. m /\ DOMAIN entity.tsts = 1 .. n
      /\ Timestamps = m + n
  BY <1>1, EntityLists
<1> HIDE DEF m, n
<1>3. ASSUME NEW k \in 1 .. Timestamps PROVE TimestampError(k) = ""
  <2>1. CASE k \in DOMAIN entity.entries
    <3>1. entity.entries[k] \in Range(entity.entries) /\ TimestampError(k) = TLogError(entity.entries[k])
      BY <1>1, <2>1, TimestampIsOf
    <3> QED BY <1>1, <3>1, EntryPasses
  <2>2. CASE k \notin DOMAIN entity.entries
    <3> DEFINE t == entity.tsts[k - m]
    <3>1. t \in Range(entity.tsts) /\ TimestampError(k) = TSAError(t)
      BY <1>1, <2>2, TimestampIsOf DEF m
    <3> HIDE DEF t
    <3> QED BY <1>1, <3>1, TokenPasses
  <2> QED BY <2>1, <2>2
<1>4. ASSUME Len(verified) = Timestamps PROVE Distinct(verified)
  <2>1. DOMAIN verified = 1 .. Timestamps /\ \A k \in 1 .. Timestamps : verified[k] = Timestamp(k)
    BY <1>4, LenProperties DEF VerifyInv, VerifiedInOrder
  <2>2. ASSUME NEW i \in 1 .. Timestamps, NEW j \in 1 .. Timestamps, Timestamp(i) = Timestamp(j)
        PROVE  i = j
    <3> DEFINE x == i - m
               y == j - m
    <3>1. /\ i \notin 1 .. m => x \in 1 .. n
          /\ j \notin 1 .. m => y \in 1 .. n
      BY <1>2
    <3>2. CASE i \in 1 .. m /\ j \in 1 .. m
      <4>1. /\ Timestamp(i) = [type |-> "transparency-log",
                               id |-> entity.entries[i].log, time |-> entity.entries[i].time]
            /\ Timestamp(j) = [type |-> "transparency-log",
                               id |-> entity.entries[j].log, time |-> entity.entries[j].time]
        BY <1>1, <1>2, <3>2, TimestampIsOf
      <4>2. /\ Timestamp(i).id = entity.entries[i].log /\ Timestamp(i).time = entity.entries[i].time
            /\ Timestamp(j).id = entity.entries[j].log /\ Timestamp(j).time = entity.entries[j].time
        BY <4>1
      <4>3. entity.entries[i].log = entity.entries[j].log /\ entity.entries[i].time = entity.entries[j].time
        BY <2>2, <4>2
      <4> QED BY <1>1, <3>2, <4>3, EntriesApart DEF m
    <3>3. CASE i \notin 1 .. m /\ j \notin 1 .. m
      <4>1. /\ Timestamp(i) = [type |-> "timestamp-authority",
                               id |-> entity.tsts[x].serial, time |-> entity.tsts[x].info.time]
            /\ Timestamp(j) = [type |-> "timestamp-authority",
                               id |-> entity.tsts[y].serial, time |-> entity.tsts[y].info.time]
        BY <1>1, <1>2, <3>3, TimestampIsOf DEF m
      <4> HIDE DEF x, y
      <4>2. /\ Timestamp(i).id = entity.tsts[x].serial /\ Timestamp(i).time = entity.tsts[x].info.time
            /\ Timestamp(j).id = entity.tsts[y].serial /\ Timestamp(j).time = entity.tsts[y].info.time
        BY <4>1
      <4>3. entity.tsts[x].serial = entity.tsts[y].serial /\ entity.tsts[x].info.time = entity.tsts[y].info.time
        BY <2>2, <4>2
      <4>4. x = y
        BY <1>1, <3>1, <3>3, <4>3, TokensApart DEF n
      <4> QED BY <1>2, <4>4 DEF x, y
    <3>4. CASE i \in 1 .. m /\ j \notin 1 .. m
      <4>1. Timestamp(i).type = "transparency-log" /\ Timestamp(j).type = "timestamp-authority"
        BY <1>1, <1>2, <3>4, TimestampIsOf
      <4> QED BY <2>2, <4>1
    <3>5. CASE i \notin 1 .. m /\ j \in 1 .. m
      <4>1. Timestamp(i).type = "timestamp-authority" /\ Timestamp(j).type = "transparency-log"
        BY <1>1, <1>2, <3>5, TimestampIsOf
      <4> QED BY <2>2, <4>1
    <3> QED BY <3>2, <3>3, <3>4, <3>5
  <2> QED BY <2>1, <2>2 DEF Distinct
<1>5. Enough
  BY Zenon DEF InOrder, Enough
<1> QED BY <1>3, <1>4, <1>5

-----------------------------------------------------------------------------
(* The key that could sign at all the moments is found.                     *)
LEMMA VerifiedAtMoments ==
  ASSUME VerifyInv
  PROVE  \A k \in DOMAIN verified : verified[k].time \in Moments
<1>1. verified \in Seq(Stamps)
  BY DEF VerifyInv, VerifiedInOrder
<1>2. \A k \in DOMAIN verified : verified[k] \in Stamps
  BY <1>1
<1> QED BY <1>2 DEF Stamps

LEMMA PublicKeyPasses ==
  ASSUME VerifyInv, InOrder, entity.key.case = "public-key", NEW key \in KeyOf(entity.key)
  PROVE  KeyError = "" /\ SignerKey = key
<1>1. PICK h \in DOMAIN root.keys \cap {entity.key.hint} :
             root.keys[h].key = key /\ \A m \in Moments : Within(root.keys[h], m)
  BY DEF KeyOf
<1> DEFINE own  == root.keys[h]
           held == trust.keys[h]
<1>2. own \in Range(root.keys) /\ h = entity.key.hint /\ own.key = key
      /\ \A m \in Moments : Within(own, m)
  BY <1>1 DEF Range
<1>3. /\ h \in DOMAIN trust.keys /\ held.key = own.key
      /\ held.from = During(own).from /\ held.until = During(own).until
  BY <1>1 DEF trust, toTrustMaterial, keyLocator
<1>4. own.start \in Int /\ own.end \in Int /\ Moments \subseteq Instants
  BY <1>2, RootLists DEF VerifyInv, InOrder, Timely
<1> HIDE DEF own, held
<1>5. ValidAtAll(held)
  <2>1. ASSUME NEW k \in DOMAIN verified PROVE Valid(held, verified[k].time)
    <3> DEFINE m == verified[k].time
    <3>1. m \in Moments
      BY VerifiedAtMoments
    <3> HIDE DEF m
    <3>2. m \in Instants /\ own.start <= m /\ (own.end = Unset \/ m <= own.end)
      BY <1>2, <1>4, <3>1 DEF Within
    <3>3. During(own).from <= m /\ m <= During(own).until
      BY <1>4, <3>2, WithinIsDuring
    <3> QED BY <1>3, <3>3 DEF Valid, m
  <2> QED BY <2>1 DEF ValidAtAll
<1>6. KeyError = ""
  BY <1>2, <1>3, <1>5 DEF KeyError, held
<1>7. SignerKey = key
  BY <1>2, <1>3 DEF SignerKey, held
<1> QED BY <1>6, <1>7

(* The SCTs are by trusted logs, no two of them by the same.                *)
LEMMA SCTsPass ==
  ASSUME Inputs, InOrder, entity.key.case = "certificate", NEW issuer, issuer.key = entity.key.cert.by
  PROVE  verifySCTs(entity.key.cert, issuer, entity.key.scts)
<1> DEFINE scts == entity.key.scts
           cert == entity.key.cert
<1>1. \A s \in Range(scts) : s.time \in Instants /\ \E l \in Range(root.ctlogs) :
        /\ l.id = s.log /\ Within(l, s.time)
        /\ MadeBy(s.sig, l.key, [preCert |-> [cert |-> cert, issuer |-> cert.by], time |-> s.time])
  BY DEF InOrder, Timely
<1>2. ASSUME NEW k \in DOMAIN scts
      PROVE  \E l \in FilterTLogs(trust.ctlogs, scts[k].log, scts[k].time) :
               SCTVerifies(scts[k], PreCert(cert, issuer), trust.ctlogs[l].key)
  <2> DEFINE s == scts[k]
  <2>1. s \in Range(scts)
    BY DEF Range
  <2> HIDE DEF s, scts, cert
  <2>2. PICK l \in Range(root.ctlogs) :
          /\ l.id = s.log /\ Within(l, s.time)
          /\ MadeBy(s.sig, l.key, [preCert |-> [cert |-> cert, issuer |-> cert.by], time |-> s.time])
    BY <1>1, <2>1
  <2>3. s.time \in Instants
    BY <1>1, <2>1
  <2>4. PICK j \in FilterTLogs(trust.ctlogs, l.id, s.time) : trust.ctlogs[j].key = l.key
    BY <2>2, <2>3, CTLogIsFound
  <2>5. SCTVerifies(s, PreCert(cert, issuer), trust.ctlogs[j].key)
    BY <2>2, <2>4 DEF SCTVerifies, PreCert, cert
  <2> QED BY <2>2, <2>4, <2>5 DEF s
<1> QED BY <1>2 DEF verifySCTs

LEMMA SCTsApart ==
  ASSUME Inputs, InOrder, entity.key.case = "certificate"
  PROVE  Distinct([i \in DOMAIN entity.key.scts |-> entity.key.scts[i].log])
<1> DEFINE scts == entity.key.scts
           n == Len(scts)
           T == {s.log : s \in Range(scts)}
           g == [i \in 1 .. n |-> scts[i].log]
<1>1. n \in Nat /\ DOMAIN scts = 1 .. n /\ \A i \in 1 .. n : scts[i] \in Range(scts)
  BY CertificateIs, ListedIs
<1>2. Cardinality(T) = n
  BY Zenon DEF InOrder
<1> HIDE DEF n
<1>3. \A s \in Range(scts) : \E k \in 1 .. n : scts[k] = s
  BY <1>1 DEF Range
<1> HIDE DEF scts
<1>4. g \in [1 .. n -> T] /\ \A x \in T : \E k \in 1 .. n : g[k] = x
  BY <1>1, <1>3
<1>5. \A i, j \in 1 .. n : g[i] = g[j] => i = j
  <2> HIDE DEF g, T
  <2> QED BY <1>1, <1>2, <1>4, NoneAlike
<1>6. Distinct(g)
  BY <1>5 DEF Distinct
<1> QED BY <1>1, <1>6 DEF scts

(* The one authority to which the certificate can be traced, and the path.   *)
LEMMA CertificatePasses ==
  ASSUME VerifyInv, InOrder, entity.key.case = "certificate"
  PROVE  CertificateHolds(entity.key)
<1> DEFINE leaf == entity.key.cert
           cas  == filterCertAuthorities(trust.cas, leaf.from, leaf.until)
           traced == {k \in cas : Path(leaf, trust.cas[k].chain) # <<>>}
<1>0. Inputs /\ Unmistakable(entity.key)
  BY Zenon DEF VerifyInv, InOrder
<1>1. PICK i \in DOMAIN root.cas :
        /\ \E p \in Vouched(entity.key, root.cas[i]) : Straight(p, leaf, root.cas[i].chain)
        /\ \A j \in DOMAIN root.cas : Certifications(leaf, root.cas[j].chain) # {} => j = i
  BY <1>0 DEF Unmistakable
<1>2. PICK p \in Vouched(entity.key, root.cas[i]) : Straight(p, leaf, root.cas[i].chain)
  BY <1>1
<1> DEFINE a == root.cas[i]
           path == Path(leaf, a.chain)
<1>3. /\ a.start <= leaf.from /\ (a.end = Unset \/ leaf.until <= a.end)
      /\ p \in Certifications(leaf, a.chain) /\ Alive(p \cup {leaf}, Moments)
  BY <1>2 DEF Vouched
<1>4. ASSUME NEW j \in DOMAIN root.cas
      PROVE  /\ root.cas[j].start \in Int /\ root.cas[j].end \in Int
             /\ root.cas[j].chain \in Seq(Range(root.cas[j].chain))
             /\ AreCerts(Range(root.cas[j].chain)) /\ trust.cas[j].chain = root.cas[j].chain
             /\ \A c \in Range(root.cas[j].chain) :
                  c.pathLen \in Int /\ c.usage \in {"absent", "keyCertSign", "other"}
  <2>1. root.cas[j] \in Range(root.cas) /\ trust.cas[j].chain = root.cas[j].chain
    BY <1>0, TrustedAuthorities
  <2>2. /\ root.cas[j].start \in Int /\ root.cas[j].end \in Int
        /\ Listed(root.cas[j].chain) /\ AreCerts(Range(root.cas[j].chain))
    BY <1>0, <2>1, RootLists
  <2> QED BY <2>1, <2>2, CertsAre DEF Listed
<1>5. leaf.pathLen \in Nat \cup {NoLimit} /\ leaf.from \in Int /\ leaf.until \in Int
  BY <1>0, EntityAssumption DEF Inputs, AreCerts
<1>6. path # <<>> /\ p = {path[k] : k \in 2 .. Len(path)}
  <2> HIDE DEF leaf, a
  <2> USE DEF path
  <2>1. /\ a.chain \in Seq(Range(a.chain)) /\ Straight(p, leaf, a.chain)
        /\ \A c \in Range(a.chain) : c.usage \in {"absent", "keyCertSign", "other"}
    BY <1>2, <1>4 DEF a
  <2> QED BY <1>3, <1>5, <2>1, StraightPathIsFound
<1>7. /\ path \in Seq(Range(a.chain) \cup {leaf}) /\ Len(path) > 1
      /\ path[1] = leaf /\ path[2].key = leaf.by
  <2>1. a.chain \in Seq(Range(a.chain)) /\ \A c \in Range(a.chain) : c.pathLen \in Int
    BY <1>4
  <2> HIDE DEF leaf, a
  <2> QED BY <1>6, <2>1, PathCertifies
<1>8. traced = {i}
  <2>1. ASSUME NEW j \in traced PROVE j = i
    <3> DEFINE b == root.cas[j]
    <3>1. j \in DOMAIN root.cas
      BY <1>0, TrustedAuthorities DEF filterCertAuthorities
    <3>2. /\ b.chain \in Seq(Range(b.chain)) /\ Path(leaf, b.chain) # <<>>
          /\ \A c \in Range(b.chain) : c.pathLen \in Int
      BY <1>4, <3>1
    <3>3. Certifications(leaf, b.chain) # {}
      <4> HIDE DEF leaf, b
      <4> QED BY <3>2, PathCertifies
    <3> QED BY <1>1, <3>1, <3>3
  <2>2. i \in cas
    <3>1. i \in DOMAIN trust.cas /\ trust.cas[i].from = During(a).from
          /\ trust.cas[i].until = During(a).until
      BY <1>0, TrustedAuthorities
    <3>2. leaf.from \in Instants /\ leaf.until \in Instants
      BY DEF InOrder, Timely
    <3>3. During(a).from <= leaf.from /\ leaf.until <= During(a).until
      BY <1>3, <1>4, <3>2, WithinIsDuring
    <3> QED BY <3>1, <3>3 DEF filterCertAuthorities
  <2>3. i \in traced
    BY <1>4, <1>6, <2>2
  <2> QED BY <2>1, <2>3
<1>9. First(traced) = i
  BY <1>8 DEF First
<1>10. verifyCertificateChain(leaf) = path
  BY <1>4, <1>8, <1>9 DEF verifyCertificateChain
<1> HIDE DEF path
<1>11. ASSUME NEW k \in DOMAIN path PROVE ValidAtAll(path[k])
  <2> DEFINE c == path[k]
  <2>1. c \in p \cup {leaf}
    BY <1>6, <1>7
  <2>2. c.from \in Int /\ c.until \in Int
    BY <1>4, <1>5, <1>7 DEF AreCerts
  <2>3. \A m \in Moments : m \in c.from .. c.until
    BY <1>3, <2>1 DEF Alive
  <2> HIDE DEF c
  <2>4. \A m \in Moments : c.from <= m /\ m <= c.until
    BY <2>2, <2>3
  <2> QED BY <2>4, VerifiedAtMoments DEF ValidAtAll, Valid, c
<1>12. verifySCTs(path[1], path[2], entity.key.scts)
  BY <1>0, <1>7, SCTsPass
<1>13. Distinct([k \in DOMAIN entity.key.scts |-> entity.key.scts[k].log])
  BY <1>0, SCTsApart
<1>14. Len(entity.key.scts) >= options.ctlogThreshold
  BY Zenon DEF InOrder
<1> QED BY <1>6, <1>10, <1>11, <1>12, <1>13, <1>14 DEF CertificateHolds, Traced

LEMMA KeyPasses ==
  ASSUME VerifyInv, InOrder
  PROVE  KeyError = "" /\ MadeBy(entity.sig, SignerKey, entity.artifact)
<1>1. PICK key \in KeyOf(entity.key) : MadeBy(entity.sig, key, entity.artifact)
  BY DEF InOrder
<1>2. CASE entity.key.case = "public-key"
  BY <1>1, <1>2, PublicKeyPasses
<1>3. CASE entity.key.case = "certificate"
  <2>1. KeyError = ""
    BY <1>3, CertificatePasses DEF KeyError, CertificateUnread, Unread, InOrder
  <2>2. SignerKey = key
    BY <1>3 DEF SignerKey, KeyOf
  <2> QED BY <1>1, <2>1, <2>2
<1>4. entity.key.case \in {"certificate", "public-key"}
  BY EntityAssumption DEF VerifyInv, Inputs
<1> QED BY <1>2, <1>3, <1>4

-----------------------------------------------------------------------------
(* The bodies of the entries, and the policy.                               *)
LEMMA BodiesPass == ASSUME InOrder, NEW e \in Range(entity.entries) PROVE BodyError(e) = ""
<1>1. /\ [kind |-> e.kind, version |-> e.version] \in
           {[kind |-> "dsse", version |-> "0.0.1"], [kind |-> "intoto", version |-> "0.0.2"],
            [kind |-> "hashedrekord", version |-> "0.0.1"]}
      /\ e.body = [kind |-> e.kind, version |-> e.version,
                   sigs |-> <<entity.sig>>, digest |-> entity.digest]
  BY Zenon DEF InOrder
<1>2. \/ e.kind = "dsse" /\ e.version = "0.0.1"
      \/ e.kind = "intoto" /\ e.version = "0.0.2"
      \/ e.kind = "hashedrekord" /\ e.version = "0.0.1"
  BY <1>1
<1>3. /\ e.body.kind = e.kind /\ e.body.version = e.version
      /\ e.body.sigs = <<entity.sig>> /\ e.body.digest = entity.digest
  BY <1>1
<1>4. Len(e.body.sigs) = 1 /\ e.body.sigs[1] = entity.sig
  BY <1>3
<1>5. BodyHolds(e)
  BY <1>2, <1>3, <1>4 DEF BodyHolds, verifyDSSETLogBody, verifyHashedRekordTLogBody,
                          verifyIntotoTLogBody, SpeaksOf
<1>6. ~ BodyUnread(e)
  BY DEF InOrder, BodyUnread, Unread
<1> QED BY <1>5, <1>6 DEF BodyError

LEMMA NameMatchesItself ==
  ASSUME NEW name, Listed(name), name # <<>>, Plain(name)
  PROVE  Followed(name) /\ Matches(name, name)
<1> DEFINE n == Len(name)
<1>1. n \in Nat /\ DOMAIN name = 1 .. n /\ n # 0
  BY EmptySeq DEF Listed
<1>2. ASSUME NEW k \in DOMAIN name PROVE name[k] # "+" /\ (name[k] \in Metacharacters => name[k] = ".")
  <2>1. "+" \in Metacharacters
    BY DEF Metacharacters
  <2> QED BY <2>1 DEF Plain
<1>7. Followed(name)
  BY <1>2 DEF Followed
<1> DEFINE items == {k \in DOMAIN name : name[k] # "+"}
           f == [x \in 1 .. n |-> x]
<1>3. items = 1 .. n
  BY <1>1, <1>2
<1> HIDE DEF n
<1>4. f \in [1 .. n -> items]
  BY <1>3
<1>5. /\ \A x \in 1 .. n : name[f[x]] \in {".", name[x]}
      /\ \A x \in 1 .. n - 1 : f[x] < f[x + 1]
      /\ \A k \in items : \E x \in 1 .. n : f[x] = k
  BY <1>1, <1>3
<1>6. 1 \in DOMAIN name /\ n \in 1 .. n
  BY <1>1
<1> HIDE DEF f
<1> QED BY <1>4, <1>5, <1>6, <1>7 DEF Matches, n

LEMMA PolicyPasses == ASSUME Inputs, AsAskedFor PROVE PolicyErrors = {""}
<1>1. options.issuer \in {<<>>, Identity.issuer} /\ options.san \in {<<>>, Identity.san}
      /\ Plain(options.san)
  BY Zenon DEF AsAskedFor, InOrder
<1>2. Listed(Identity.san)
  <2>1. Listed(<<>>)
    BY DEF Listed
  <2>2. entity.key.case = "certificate" => Listed(entity.key.identity.san)
    BY EntityAssumption DEF Inputs
  <2> QED BY <2>1, <2>2 DEF Identity
<1>3. options.san # <<>> => Followed(options.san) /\ Matches(Identity.san, options.san)
  BY <1>1, <1>2, NameMatchesItself
<1>4. NameErrors(Identity.san, options.san) = {""}
  BY <1>1, <1>3 DEF NameErrors
<1>5. IssuerError = ""
  BY <1>1 DEF IssuerError
<1> QED BY <1>4, <1>5 DEF PolicyErrors

-----------------------------------------------------------------------------
(* No check throws, whichever comes next, for an entity that is in order and   *)
(* by the identity asked for (verify(), verifier.ts:50-61).                 *)
NotRejected == AsAskedFor => stage # "rejected"

LEMMA StepRejectsNot ==
  ASSUME VerifyInv, AsAskedFor, stage # "rejected", [Next]_vars
  PROVE  Same /\ stage' # "rejected"
<1>0. Inputs /\ InOrder
  BY DEF VerifyInv, AsAskedFor
<1>1. CASE VerifyTimestamp
  <2> DEFINE n == Len(verified)
             k == n + 1
  <2>1. verified \in Seq(Stamps)
    BY DEF VerifyInv, VerifiedInOrder
  <2>2. n \in Nat
    BY <2>1
  <2>3. Timestamps \in Nat
    BY <1>0, EntityLists
  <2>4. k <= Timestamps
    BY <1>1 DEF VerifyTimestamp
  <2>5. k \in 1 .. Timestamps
    <3> HIDE DEF n
    <3> QED BY <2>2, <2>3, <2>4
  <2>6. TimestampError(k) = ""
    BY <1>0, <2>5, TimestampsPass
  <2> QED BY <1>1, <2>6 DEF VerifyTimestamp, Same
<1>2. CASE CountTimestamps
  <2>1. Distinct(verified) /\ Enough
    BY <1>0, <1>2, TimestampsPass DEF CountTimestamps
  <2> QED BY <1>2, <2>1 DEF CountTimestamps, Check, Same
<1>3. CASE VerifySigningKey
  <2>1. KeyError = ""
    BY <1>0, KeyPasses
  <2> QED BY <1>3, <2>1 DEF VerifySigningKey, Check, Same
<1>4. CASE VerifyTLogs
  <2>1. \A k \in DOMAIN entity.entries : BodyError(entity.entries[k]) = ""
    BY <1>0, BodiesPass DEF Range
  <2>2. BodiesError = ""
    BY <2>1 DEF BodiesError
  <2> QED BY <1>4, <2>2 DEF VerifyTLogs, Check, Same
<1>5. CASE VerifySignature
  <2>1. MadeBy(entity.sig, SignerKey, entity.artifact)
    BY <1>0, KeyPasses
  <2> QED BY <1>5, <2>1 DEF VerifySignature, Check, Same
<1>6. CASE VerifyPolicy
  <2>1. PolicyErrors = {""}
    BY <1>0, PolicyPasses
  <2> QED BY <1>6, <2>1 DEF VerifyPolicy, Check, Same
<1>7. CASE UNCHANGED vars
  BY <1>7 DEF vars, Same
<1> QED BY <1>1, <1>2, <1>3, <1>4, <1>5, <1>6, <1>7 DEF Next

(* A bundle that is in order is rejected by none of the checks, whatever else  *)
(* the trusted root has in it (verify(), verifier.ts:50-61).                *)
THEOREM InOrderIsNotRejected == Spec => []RejectedForCause
<1>1. Init => NotRejected
  BY DEF Init, NotRejected
<1>2. VerifyInv /\ NotRejected /\ [Next]_vars => NotRejected'
  <2> SUFFICES ASSUME VerifyInv, NotRejected, [Next]_vars, AsAskedFor' PROVE stage' # "rejected"
    BY DEF NotRejected
  <2>1. Same
    BY DEF Next, VerifyTimestamp, CountTimestamps, VerifySigningKey, VerifyTLogs, VerifySignature,
           VerifyPolicy, Check, Throw, vars, Same
  <2>2. AsAskedFor
    BY <2>1, AsAskedForIsSame
  <2> QED BY <2>2, StepRejectsNot DEF NotRejected
<1>3. NotRejected => RejectedForCause
  BY DEF NotRejected, RejectedForCause, AsAskedFor
<1> QED BY <1>1, <1>2, <1>3, VerifyAlways, PTL DEF Spec
=============================
