----------------------------- MODULE MCOCIAttach -----------------------------
(* Instances of OCIAttach for TLC.                                         *)
EXTENDS OCIAttach

CONSTANTS c1, c2, m1, m2, old, a1, a2, none

Artifacts == [d \in {m1, m2, old} |-> CASE d = m1 -> a1 [] d = m2 -> a2 [] OTHER -> none]

Different == [c \in Calls |-> IF c = c1 THEN m1 ELSE m2]
Same      == [c \in Calls |-> m1]

NoIndex  == <<>>
OldIndex == << <<old>> >>
AllBlobs == {a1, a2, none}

\* The referrers API with or without its header, which some give without it.
AnyRegistry ==
  [manifest : {Different}, traits : SUBSET {"referrers", "subject"}, versions : {NoIndex, OldIndex},
   blobs : {{}}]

\* No referrers API: an index that exists, with its ETag, and two manifests; or
\* any index, without, and one manifest.  Or the API, and two manifests.
IndexByTag ==
  [manifest : {Different}, traits : {{"etag"}, {"etag", "subject"}}, versions : {OldIndex}, blobs : {AllBlobs}]
  \cup [manifest : {Same}, traits : {{}}, versions : {NoIndex, OldIndex}, blobs : {AllBlobs}]
  \cup [manifest : {Different}, traits : {{"referrers", "subject"}}, versions : {NoIndex}, blobs : {AllBlobs}]

FirstIndex ==
  [manifest : {Different}, traits : {{"etag"}, {"etag", "subject"}}, versions : {NoIndex}, blobs : {AllBlobs}]

AllOps == Ops
Writes == {"index", "tag"}
=============================================================================
