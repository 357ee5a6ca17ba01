----------------------------- MODULE MCRoundTrip -----------------------------
(* Instances of RoundTrip for TLC: a certificate of two instants, evidence in *)
(* time or late, and the bundles of another signer and of another attestation *)
(* kept at the same place.                                                 *)
EXTENDS RoundTrip, TLC

CONSTANTS d1, d2

Span == [start |-> 0, end |-> -1]
Cert(subject, issuer, key, by) ==
  [subject |-> subject, issuer |-> issuer, key |-> key, by |-> by, aki |-> by, ski |-> key,
   ca |-> TRUE, usage |-> "keyCertSign", pathLen |-> -1, from |-> 0, until |-> 9, serial |-> subject]
EndCert(issuer, key, by, from, until) ==
  [Cert("end", issuer, key, by) EXCEPT !.ca = FALSE, !.usage = "other", !.from = from, !.until = until]

Root ==
  [tlogs  |-> <<[id |-> "log", key |-> "klog"] @@ Span>>,
   ctlogs |-> <<[id |-> "ct", key |-> "kct"] @@ Span>>,
   cas    |-> <<[chain |-> <<Cert("ca", "ca", "kca", "kca")>>] @@ Span>>,
   tsas   |-> <<[chain |-> <<EndCert("tsaroot", "ktsa", "ktr", 0, 9),
                             Cert("tsaroot", "tsaroot", "ktr", "ktr")>>] @@ Span>>,
   keys   |-> <<>>]

Alice == [san |-> <<"a">>, issuer |-> <<"idp">>]
Bob   == [san |-> <<"b">>, issuer |-> <<"idp">>]

\* FulcioSigner: the certificate is for the key, with a timestamp of one CT log.
FulcioSigner(key, identity) ==
  LET cert == EndCert("ca", key, "kca", 1, 2)
      sct  == [log |-> "ct", time |-> 1,
               sig |-> [by |-> "kct", over |-> [preCert |-> [cert |-> cert, issuer |-> "kca"],
                                                time |-> 1]]]
  IN  [key |-> key,
       material |-> [case |-> "x509Certificate",
                     certificate |-> [cert |-> cert, identity |-> identity, scts |-> <<sct>>]]]
KeySigner(hint) == [key |-> "k", material |-> [case |-> "publicKey", hint |-> hint]]

TheOptions == [legacyCompatibility : BOOLEAN, tlogUpload : BOOLEAN, tsaServerURL : {Absent, "tsa"}]
Full(legacy) == [legacyCompatibility |-> legacy, tlogUpload |-> TRUE, tsaServerURL |-> "tsa"]

SomeSignings ==
  [call : {"sign"}, artifact : [type : {Empty}, data : {d1, Empty}],
   signer : {FulcioSigner("ka", Alice), KeySigner("hint")}, options : TheOptions,
   log : [time : {1, 3}, gives : {{"promise", "proof"}, {"promise"}, {"proof"}}], tsa : {[time |-> 1]}]
  \cup
  [call : {"attest"}, artifact : [type : {"t1"}, data : {d1, Empty}],
   signer : {FulcioSigner("ka", Alice), KeySigner("hint")}, options : TheOptions,
   log : [time : {1, 3}, gives : {{"promise", "proof"}, {"promise"}, {"proof"}}], tsa : {[time |-> 1]}]

Signed(call, artifact, signer, opts, time) ==
  [call |-> call, artifact |-> artifact, signer |-> signer, options |-> opts,
   log |-> [time |-> time, gives |-> {"promise", "proof"}], tsa |-> [time |-> 2]]
TheOthers ==
  {Signed("attest", [type |-> "t2", data |-> d1], FulcioSigner("ka", Alice), Full(FALSE), 2),
   Signed("attest", [type |-> "t1", data |-> d2], FulcioSigner("kb", Bob), Full(TRUE), 2),
   Signed("sign", [type |-> Empty, data |-> d2], FulcioSigner("kb", Bob), Full(FALSE), 2)}

Keys == [hint |-> "k"]
Asked(tlogs, scts, email, issuer) ==
  [tlogThreshold |-> tlogs, ctLogThreshold |-> scts, certificateIdentityEmail |-> email,
   certificateIdentityURI |-> email, certificateIssuer |-> issuer]
SomeVerifications ==
  [options : {Asked(Absent, Absent, <<>>, <<>>), Asked(0, 0, <<"a">>, <<"idp">>)},
   keys : {Keys, <<>>}, data : {d1, Empty}]
=============================================================================
