--------------------------- MODULE MCVerifyBundle ---------------------------
(* Instances of VerifyBundle for TLC: instants 1 to 3, two logs of which one *)
(* is retired after 2, and bundles in which at most a few things are off.   *)
EXTENDS VerifyBundle, TLC

Span(start, end) == [start |-> start, end |-> end]
Log(id, key, start, end) == [id |-> id, key |-> key] @@ Span(start, end)

\* Certificates valid at 1 and 2, with honest key identifiers.
Cert(subject, issuer, key, by) ==
  [subject |-> subject, issuer |-> issuer, key |-> key, by |-> by, aki |-> by, ski |-> key,
   ca |-> TRUE, usage |-> "keyCertSign", pathLen |-> NoLimit, from |-> 1, until |-> 2,
   serial |-> subject]
EndCert(issuer, key, by, from, until) ==
  [Cert("end", issuer, key, by) EXCEPT !.ca = FALSE, !.usage = "other", !.from = from, !.until = until]
Authority(chain, start, end) == [chain |-> chain] @@ Span(start, end)

TwoLogs  == <<Log("l1", "kl1", 1, Unset), Log("l2", "kl2", Unset, 2)>>
TwoCTs   == <<Log("ct1", "kct1", 1, 3), Log("ct2", "kct2", Unset, 1)>>
OneCA    == <<Authority(<<Cert("ca", "ca", "kca", "kca")>>, 1, Unset)>>
OneTSA   == <<Authority(<<EndCert("tsaroot", "ktsa", "ktr", 1, 2),
                          Cert("tsaroot", "tsaroot", "ktr", "ktr")>>, 1, 3)>>
OneKey   == [hint |-> [key |-> "k"] @@ Span(2, Unset)]
TheRoot  == [tlogs |-> TwoLogs, ctlogs |-> TwoCTs, cas |-> OneCA, tsas |-> OneTSA, keys |-> OneKey]

Own      == [by |-> "k", over |-> "a"]
Sigs     == {Own, [by |-> "k", over |-> "b"], [by |-> "k2", over |-> "a"]}

Body(kind, version, sigs) == [kind |-> kind, version |-> version, sigs |-> sigs, digest |-> "a"]
Good    == Body("dsse", "0.0.1", <<Own>>)
Other   == Body("dsse", "0.0.1", <<[by |-> "k", over |-> "b"]>>)
Bodies  == {Good, Other, Body("intoto", "0.0.2", <<Own>>), Body("intoto", "0.0.1", <<Own>>),
            Body("dsse", "0.0.1", <<Own, Own>>), [Good EXCEPT !.digest = "b"]}

KeyOfLog == [l1 |-> "kl1", l2 |-> "kl2"]
Promise(key, body, time, log) ==
  [by |-> key, over |-> [body |-> body, time |-> time, log |-> log]]
Proof(body, top, hint, key) ==
  [body |-> body, root |-> top,
   checkpoint |-> [root |-> "root", sigs |-> {[hint |-> hint, sig |-> [by |-> key, over |-> "root"]]}]]

\* Entries: as logged, without one or the other kind of evidence, with evidence
\* of another time, body, root or log.
Entry(log, time, body) ==
  LET key == KeyOfLog[log]
      e(promise, proof) ==
        [log |-> log, time |-> time, kind |-> body.kind,
         version |-> body.version, body |-> body, promise |-> promise, proof |-> proof]
      good == Promise(key, body, time, log)
  IN  {e(None, None), e(good, None), e(good, Proof(body, "root", log, key)),
       e(None, Proof(body, "root", log, key)), e(Promise(key, body, time - 1, log), None),
       e(None, Proof([body EXCEPT !.digest = "c"], "root", log, key)),
       e(None, Proof(body, "root2", log, key)), e(good, Proof(body, "root", log, "kl0")),
       [e(good, None) EXCEPT !.kind = "hashedrekord"]}

Entries == UNION {Entry(log, time, body) : log \in {"l1", "l2"}, time \in 1 .. 3, body \in Bodies}

TST(time, sig, key) ==
  LET info == [imprint |-> sig, time |-> time]
  IN  [token |-> TRUE, typed |-> TRUE, serial |-> "end", issuer |-> "tsaroot",
       info |-> info, digest |-> info, sig |-> [by |-> key, over |-> info]]
GoodTST == TST(2, Own, "ktsa")
TSTs == {TST(time, Own, "ktsa") : time \in 1 .. 3}
          \cup {TST(2, [by |-> "k", over |-> "b"], "ktsa"), TST(2, Own, "kother"),
                [GoodTST EXCEPT !.token = FALSE], [GoodTST EXCEPT !.issuer = "ca"],
                [GoodTST EXCEPT !.digest.time = 1], [GoodTST EXCEPT !.info.time = 1]}

Leaf(from, until, by) == EndCert("ca", "k", by, from, until)
SCT(log, time, key, cert) ==
  [log |-> log, time |-> time,
   sig |-> [by |-> key, over |-> [preCert |-> [cert |-> cert, issuer |-> cert.by],
                                          time |-> time]]]
Certificate(from, until, by, identity, scts) ==
  [case |-> "certificate", cert |-> Leaf(from, until, by), identity |-> identity, scts |-> scts]
Alice == [san |-> <<"a", ".", "l">>, issuer |-> <<"idp">>]
AliceCI == [san |-> <<"a", "+", "c">>, issuer |-> <<"idp">>]
GoodSCT == SCT("ct1", 1, "kct1", Leaf(1, 2, "kca"))
GoodCertificate == Certificate(1, 2, "kca", Alice, <<GoodSCT>>)
SomeKeys ==
  {GoodCertificate,
   Certificate(2, 3, "kca", Alice, <<SCT("ct1", 1, "kct1", Leaf(2, 3, "kca")),
                                     SCT("ct2", 1, "kct2", Leaf(2, 3, "kca"))>>),
   Certificate(1, 2, "kca", [san |-> <<"b", "l">>, issuer |-> <<"idp">>], <<GoodSCT>>),
   Certificate(1, 2, "kca", [Alice EXCEPT !.issuer = <<"idp2">>], <<GoodSCT>>),
   Certificate(1, 2, "kca2", Alice, <<SCT("ct1", 1, "kct1", Leaf(1, 2, "kca2"))>>),
   Certificate(1, 2, "kca", Alice, <<>>),
   Certificate(1, 2, "kca", Alice, <<GoodSCT, GoodSCT>>),
   Certificate(1, 2, "kca", Alice, <<GoodSCT, SCT("ct2", 2, "kct2", Leaf(1, 2, "kca"))>>),
   Certificate(1, 2, "kca", Alice, <<SCT("ct1", 1, "kct2", Leaf(1, 2, "kca"))>>),
   Certificate(1, 2, "kca", Alice, <<SCT("ct1", 1, "kct1", Leaf(1, 3, "kca"))>>),
   [case |-> "public-key", hint |-> "hint"],
   [case |-> "public-key", hint |-> "unknown"]}

Bundles(sigs, keys, entries, tsts) ==
  [artifact : {"a"}, digest : {"a"}, sig : sigs, key : keys, entries : entries, tsts : tsts,
   unread : {{}}]

AtMostOne(S) == {<<>>} \cup {<<x>> : x \in S}
GoodEntries  == {e \in Entries : e.body = Good /\ e.kind = "dsse"}
GoodTSTs     == {TST(1, Own, "ktsa"), GoodTST}

\* One log entry at most and one timestamp at most, with anything off; and two
\* log entries and two timestamps of a signature that is otherwise in order.
OneEach == Bundles(Sigs, SomeKeys, AtMostOne(Entries), AtMostOne(TSTs))
Pairs   == Bundles({Own}, {GoodCertificate}, GoodEntries \X GoodEntries,
                   {<<>>} \cup (GoodTSTs \X GoodTSTs))

\* One part that cannot be read, of one entry or of two, or of the certificate.
WithUnread(b) ==
  {[b EXCEPT !.unread = {x}] :
     x \in ({"numbers", "checkpoint", "body", "spec"} \X Range(b.entries))
             \cup IF b.key.case # "certificate" THEN {}
                  ELSE {"validity", "SCTs", "key"} \X {b.key.cert}}
Unreads ==
  UNION {WithUnread(b) :
           b \in Bundles({Own}, SomeKeys, {<<e>> : e \in UNION {Entry("l1", 2, body) : body \in Bodies}}, {<<>>})
                  \cup Bundles({Own}, {GoodCertificate},
                              UNION {Entry("l1", 1, Good) \X Entry("l1", 2, body) : body \in {Good, Other}}, {<<>>})}

Options(tlogs, tsas, who, scts) ==
  [tlogThreshold : {tlogs}, tsaThreshold : {tsas}, ctlogThreshold : {scts},
   san : {who.san}, issuer : {who.issuer}]
Anyone == [san |-> <<>>, issuer |-> <<>>]

-----------------------------------------------------------------------------
\* Certificates of the authority, one after the other: any names, keys and
\* signers of two, key identifiers or none, a CA of any depth, of none, or not a
\* CA; or of three names, each with its own key, who may have signed each other.
Kinds == {[ca |-> TRUE, usage |-> "keyCertSign", pathLen |-> NoLimit],
          [ca |-> TRUE, usage |-> "absent", pathLen |-> 0],
          [ca |-> TRUE, usage |-> "other", pathLen |-> NoLimit]}
Ids(key, by) == {[aki |-> by, ski |-> key], [aki |-> by, ski |-> NoId], [aki |-> NoId, ski |-> NoId]}
AnyCerts ==
  {[Cert(subject, issuer, key, by) EXCEPT !.aki = ids.aki, !.ski = ids.ski, !.ca = kind.ca,
      !.usage = kind.usage, !.pathLen = kind.pathLen] :
     subject \in {"A", "R"}, issuer \in {"A", "R"}, key \in {"A", "R"}, by \in {"A", "R"},
     ids \in Ids("A", "R") \cup Ids("R", "A"), kind \in Kinds}
HonestCerts == {c \in AnyCerts : c.aki \in {NoId, c.by} /\ c.ski \in {NoId, c.key}}
CrossCerts ==
  {[Cert(name, signer, name, signer) EXCEPT !.pathLen = n] :
     name \in {"A", "B", "R"}, signer \in {"A", "B", "R"}, n \in {0, NoLimit}}

EndCerts == {EndCert("A", "k", "A", 1, 2), [EndCert("A", "k", "A", 1, 2) EXCEPT !.aki = NoId]}
Chained(cert) ==
  [case |-> "certificate", cert |-> cert, identity |-> Alice, scts |-> <<>>]

Roots(cas) ==
  [tlogs : {TwoLogs}, ctlogs : {TwoCTs}, cas : cas, tsas : {OneTSA}, keys : {OneKey}]
OneOf(chains) == [{1} -> [chain : chains, start : {1}, end : {Unset}]]

\* Two authorities under one name and key, with certificates of any validity.
RootA(from, until) == [Cert("A", "A", "A", "A") EXCEPT !.from = from, !.until = until]
Spans == {<<1, 1>>, <<1, 2>>, <<2, 3>>}
TwoRoots ==
  {<<Authority(<<RootA(s[1], s[2])>>, 1, e), Authority(<<RootA(t[1], t[2])>>, 1, Unset)>> :
     s \in Spans, t \in Spans, e \in {1, 3, Unset}}

\* Names that are found, that are found in another, and that are no names.
SomeNames == {<<"a">>, <<"a", ".">>, <<"a", "+", "c">>, <<"a", "+">>, <<"+", "c">>, <<"(", "a">>}

LoggedAt2 == CHOOSE e \in GoodEntries : e.time = 2 /\ e.log = "l1" /\ e.proof = None /\ e.promise # None
                /\ e.promise.over.time = 2

\* The default thresholds and Alice asked for; or two of each and anyone.
ManyCalls ==
  [entity : OneEach, options : Options(1, 0, Alice, 1), root : {TheRoot}]
    \cup [entity : Pairs, options : Options(2, 2, Anyone, 1), root : {TheRoot}]
    \cup [entity : Unreads, options : Options(1, 0, Alice, 1), root : {TheRoot}]
    \cup [entity : Bundles({Own}, {GoodCertificate, [GoodCertificate EXCEPT !.identity = AliceCI]},
                          AtMostOne(GoodEntries), {<<>>}),
          options : UNION {Options(1, 0, [Alice EXCEPT !.san = name], 1) : name \in SomeNames},
          root : {TheRoot}]
    \cup [entity : Bundles({Own}, {Chained(c) : c \in EndCerts}, {<<LoggedAt2>>}, {<<>>}),
          options : Options(1, 0, Anyone, 0),
          root : Roots(OneOf(HonestCerts \X HonestCerts) \cup OneOf(CrossCerts \X CrossCerts \X CrossCerts)
                        \cup TwoRoots)]

\* Two entries in order, asked for two of them.
TwoLogCalls ==
  [entity : {b \in Pairs : b.tsts = <<>>}, options : Options(2, 0, Anyone, 1), root : {TheRoot}]
=============================================================================
