----------------------------- MODULE MCEvidence -----------------------------
(* Documents of few bytes, and a log of eight entries, the last two of which   *)
(* have been in it before, with its proofs, whole or shortened.             *)
EXTENDS Evidence

\* Short and long lengths, objects in one another and bits of both kinds.
MCBytes == {0, 1, 2, 3, 4, 48, 128, 129, 135}

MCSCTs ==
  [version : {0}, logID : {[i \in 1 .. LogIDSize |-> 7]}, timestamp : {[i \in 1 .. TimestampSize |-> 9]},
   extensions : {<<>>, <<1>>}, hash : {4}, algorithm : {3}, signature : {<<>>, <<2, 1>>}]
MCLists == {<<>>} \cup {<<s>> : s \in MCSCTs} \cup {<<s, t>> : s \in MCSCTs, t \in MCSCTs}

MCLog == [m \in 0 .. MaxSize - 1 |-> [body |-> m % 6]]

\* The bodies of the log, and one that reads like its two first entries.
MCBody ==
  {MCLog[m] : m \in DOMAIN MCLog} \cup {[left |-> MCLog[m], right |-> MCLog[m + 1]] : m \in {0} \cap 0 .. MaxSize - 2}

\* The log's own proofs, without the first hash, and without the last.
Own == UNION {{TreeOf[n].path[m] : m \in 0 .. n - 1} : n \in 1 .. MaxSize}
MCPresented ==
  Own \cup {Tail(h) : h \in Own \ {<<>>}} \cup {SubSeq(h, 1, Len(h) - 1) : h \in Own \ {<<>>}}

MCHash == UNION {{h[k] : k \in DOMAIN h} : h \in MCPresented}
=============================================================================
