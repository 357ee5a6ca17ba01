------------------------------ MODULE CertChain ------------------------------
(***************************************************************************)
(* How a certificate is traced to a trust anchor (CertificateChainVerifier,  *)
(* packages/verify/src/key/certificate.ts, and the fields it reads of        *)
(* packages/core/src/x509): pure operators.                                *)
(*                                                                         *)
(* A certificate is                                                        *)
(*   [subject, issuer : names, key : its own, by : the key that signed it,   *)
(*    aki, ski : key identifiers or NoId, ca : BOOLEAN,                     *)
(*    usage : "absent", "keyCertSign" or "other",                          *)
(*    pathLen : Nat or NoLimit, from, until : instants, serial]            *)
(* and a key identifier is the key.  Certificates are places in the sequence  *)
(* certs, whose last is the one that is not trusted: the code tells objects   *)
(* apart (includes) where it does not compare what they say (equals).  The   *)
(* recursive search for paths is modelled by all the ways it may go, and by   *)
(* what it meets on them.                                                  *)
(***************************************************************************)
EXTENDS Integers, Sequences, FiniteSets, Functions

NoId    == ""
NoLimit == -1

isCA(c) == c.ca /\ c.usage \in {"absent", "keyCertSign"}

verify(c, issuer) == c.by = issuer.key
SelfSigned(c)     == c.subject = c.issuer /\ verify(c, c)

\* dedupeCertificates: of those that say the same, the first place.
localCerts(certs) == {v \in DOMAIN certs : \A u \in 1 .. v - 1 : certs[u] # certs[v]}

(* Whether a certificate names another as its issuer: by the identifier of   *)
(* its key if both have one, by its name otherwise.                        *)
Names(c, i) == IF c.aki # NoId /\ i.ski # NoId THEN c.aki = i.ski ELSE c.issuer = i.subject

findIssuer(certs, v) ==
  IF SelfSigned(certs[v]) THEN {v}
  ELSE {u \in localCerts(certs) : Names(certs[v], certs[u]) /\ verify(certs[v], certs[u])}

\* An issuer that says the same as the certificate ends a path.
Ends(certs, v)  == \E u \in findIssuer(certs, v) : certs[u] = certs[v]
Above(certs, v) == {u \in findIssuer(certs, v) : certs[u] # certs[v]}

(* The ways up from the leaf, as far as they come round to no place again. *)
Ways(certs) ==
  LET above == [v \in DOMAIN certs |-> Above(certs, v)]
  IN  {w \in UNION {[1 .. n -> DOMAIN certs] : n \in DOMAIN certs} :
         /\ w[1] = Len(certs) /\ IsInjective(w)
         /\ \A k \in 2 .. Len(w) : w[k] \in above[w[k - 1]]}
Top(w) == w[Len(w)]

(* All paths from the leaf, each to a certificate that is its own issuer;    *)
(* none if the search throws: at a certificate without an issuer, or going    *)
(* round in circles until the stack is full.                               *)
buildPaths(certs) ==
  LET ways == Ways(certs)
      Throws(w) == findIssuer(certs, Top(w)) = {} \/ Above(certs, Top(w)) \cap Range(w) # {}
  IN  IF \E w \in ways : Throws(w) THEN {} ELSE {w \in ways : Ends(certs, Top(w))}

(* Of two paths of one length, the one that the search finds later.        *)
After(w, v) == \E k \in DOMAIN w : w[k] > v[k] /\ \A j \in 1 .. k - 1 : w[j] = v[j]

(* The shortest path with a trusted certificate in it (the last of several),  *)
(* from the leaf to a single copy of the root; none if there is none.      *)
sort(certs) ==
  LET paths == {w \in buildPaths(certs) : Len(w) > 1}
      best  == {w \in paths : \A v \in paths :
                  Len(w) < Len(v) \/ (Len(w) = Len(v) /\ ~ After(v, w))}
  IN  IF best = {} THEN <<>> ELSE CHOOSE w \in best : TRUE

\* Mutant: one intermediate certificate more than allowed.
checkPathDeeper(path) ==
  /\ path # <<>>
  /\ \A k \in 2 .. Len(path) : isCA(path[k])
  /\ \A k \in 1 .. Len(path) - 1 : path[k].issuer = path[k + 1].subject
  /\ \A k \in DOMAIN path : path[k].ca /\ path[k].pathLen # NoLimit => path[k].pathLen >= k - 3

checkPath(path) ==
  /\ path # <<>>
  /\ \A k \in 2 .. Len(path) : isCA(path[k])
  /\ \A k \in 1 .. Len(path) - 1 : path[k].issuer = path[k + 1].subject
  /\ \A k \in DOMAIN path : path[k].ca /\ path[k].pathLen # NoLimit => path[k].pathLen >= k - 2

(* The certificates from the leaf to the root; none if verify() throws.    *)
Path(leaf, trusted) ==
  LET certs == Append(trusted, leaf)
      order == sort(certs)
      path  == [k \in DOMAIN order |-> certs[order[k]]]
  IN  IF checkPath(path) THEN path ELSE <<>>

-----------------------------------------------------------------------------
(* What a path is for, as RFC 5280 has it: each certificate is signed with     *)
(* the key of the next, under its name, by a CA that may have as many          *)
(* intermediates below it, up to one of the trusted that signs itself.     *)
CertifiedBy(p, leaf, trusted) ==
  LET path == <<leaf>> \o [k \in DOMAIN p |-> trusted[p[k]]]
      n    == Len(path)
  IN  /\ path[n].by = path[n].key
      /\ \A k \in 2 .. n :
           /\ path[k].key = path[k - 1].by /\ path[k].subject = path[k - 1].issuer
           /\ path[k].ca /\ path[k].usage # "other"
           /\ path[k].pathLen # NoLimit => Cardinality(2 .. k - 1) <= path[k].pathLen

(* The sets of certificates that make a path for the leaf.                 *)
Certifications(leaf, trusted) ==
  {{trusted[k] : k \in {p[i] : i \in DOMAIN p}} :
     p \in {p \in UNION {[1 .. n -> DOMAIN trusted] : n \in DOMAIN trusted} :
              IsInjective(p) /\ CertifiedBy(p, leaf, trusted)}}

(* Whether the way from the certificates leads past no fork and no dead end,  *)
(* no identifier is of another key, and what signs itself says so.  A leaf    *)
(* that signs itself is not traced, even to itself.                        *)
Straight(certs, leaf, trusted) ==
  leaf.by # leaf.key /\ \A c \in certs \cup {leaf} :
    /\ c.aki \in {NoId, c.by} /\ c.ski \in {NoId, c.key}
    /\ c.by = c.key => c.issuer = c.subject
    /\ Cardinality({t \in {trusted[k] : k \in DOMAIN trusted} \cup {leaf} : t.key = c.by}) = 1
=============================================================================
