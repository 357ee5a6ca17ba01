-------------------------- MODULE FetchRetry_proofs --------------------------
(* Theorems about FetchRetry, for every number of requests and retries and  *)
(* for services that answer anything at any time or not at all.            *)
EXTENDS FetchRetry, TLAPS

(* The copies on the wire are attempts that were made, a request is awaited  *)
(* from its first attempt on until it settles, and it comes to something by  *)
(* an answer of success alone.                                             *)
AttemptsMade ==
  /\ \A m \in wire : m.n <= attempt[m.req]
  /\ \A q \in Requests : (call[q] = "idle") <=> (attempt[q] = 0)
  /\ \A q \in Requests : call[q] = "ok" => Ok(result[q].status)

FetchInv == FetchTypeOK /\ AttemptsMade /\ RetryPolicy /\ OneAnswerPerAttempt

LEMMA FetchInitInv == FetchInit => FetchInv
  BY RetriesAssumption DEF FetchInit, FetchInv, FetchTypeOK, AttemptsMade, RetryPolicy,
     OneAnswerPerAttempt, Answers, NoAnswer

LEMMA BeginInv == ASSUME FetchInv, NEW Q \in SUBSET Requests, Begin(Q) PROVE FetchInv'
<1> USE RetriesAssumption DEF FetchInv, Begin, FetchTypeOK
<1>1. FetchTypeOK'
  BY DEF Copies
<1>2. AttemptsMade'
  BY DEF AttemptsMade, Copies
<1>3. RetryPolicy'
  BY DEF RetryPolicy
<1>4. OneAnswerPerAttempt'
  BY DEF OneAnswerPerAttempt
<1> QED BY <1>1, <1>2, <1>3, <1>4

LEMMA ResendInv == ASSUME FetchInv, NEW q \in Requests, Resend(q) PROVE FetchInv'
<1> USE RetriesAssumption DEF FetchInv, Resend, FetchTypeOK
<1>0. attempt[q] \in 1 .. Retries
  BY DEF RetryPolicy
<1>1. FetchTypeOK'
  BY <1>0 DEF Copies
<1>2. AttemptsMade'
  BY <1>0 DEF AttemptsMade, Copies
<1>3. RetryPolicy'
  BY DEF RetryPolicy
<1>4. OneAnswerPerAttempt'
  BY DEF OneAnswerPerAttempt
<1> QED BY <1>1, <1>2, <1>3, <1>4

LEMMA EndInv == ASSUME FetchInv, NEW q \in Requests, NEW a \in Answers, End(q, a)
                PROVE  FetchInv'
<1> USE RetriesAssumption, AnswersAssumption DEF FetchInv, End, FetchTypeOK
<1>0. /\ After(q, a) \in {"ok", "backoff", "failed"}
      /\ a.status \in 0 .. 599
  BY DEF After, Answers, NoAnswer
<1>1. FetchTypeOK'
  BY <1>0 DEF Answers
<1>2. AttemptsMade'
  <2>1. After(q, a) = "ok" => Ok(a.status)
    BY DEF After
  <2> QED BY <1>0, <2>1 DEF AttemptsMade, Copies
<1>3. RetryPolicy'
  <2>1. attempt[q] \in 1 .. (Retries + 1)
    BY DEF AttemptsMade
  <2>2. LET transient == a = NoAnswer \/ a.status \in {408, 429} \cup 500 .. 599
        IN  /\ After(q, a) = "failed" => ~ transient \/ attempt[q] = Retries + 1
            /\ After(q, a) = "backoff" => transient /\ attempt[q] \in 1 .. Retries
    BY <1>0, <2>1 DEF After, Ok, Retryable, MayRetry, NoAnswer
  <2> QED BY <2>2 DEF RetryPolicy
<1>4. OneAnswerPerAttempt'
  BY DEF OneAnswerPerAttempt
<1> QED BY <1>1, <1>2, <1>3, <1>4

LEMMA DeliverInv == ASSUME FetchInv, NEW m \in wire, NEW a \in Answers, Deliver(m, a)
                    PROVE  FetchInv'
<1> USE DEF FetchInv, Deliver, FetchTypeOK
<1>1. FetchTypeOK'
  BY DEF Copies
<1>2. AttemptsMade'
  BY DEF AttemptsMade
<1>3. RetryPolicy'
  BY DEF RetryPolicy
<1>4. OneAnswerPerAttempt'
  <2>1. m = [req |-> m.req, n |-> m.n] /\ m.req \in Requests
    BY DEF Copies
  <2>2. CASE Awaited(m)
    BY <2>1, <2>2 DEF OneAnswerPerAttempt, Awaited
  <2>3. CASE ~ Awaited(m)
    BY <2>3 DEF OneAnswerPerAttempt
  <2> QED BY <2>2, <2>3
<1> QED BY <1>1, <1>2, <1>3, <1>4

LEMMA FetchNextInv == FetchInv /\ [FetchNext]_fetchVars => FetchInv'
<1> SUFFICES ASSUME FetchInv, [FetchNext]_fetchVars PROVE FetchInv'
  OBVIOUS
<1>1. ASSUME NEW Q \in SUBSET Requests, Begin(Q) PROVE FetchInv'
  BY <1>1, BeginInv
<1>2. ASSUME NEW q \in Requests, Resend(q) PROVE FetchInv'
  BY <1>2, ResendInv
<1>3. ASSUME NEW q \in Requests, Receive(q) PROVE FetchInv'
  BY <1>3, EndInv DEF Receive, FetchInv, FetchTypeOK
<1>4. ASSUME NEW q \in Requests, Abort(q) PROVE FetchInv'
  BY <1>4, EndInv DEF Abort, Answers
<1>5. ASSUME NEW m \in wire, NEW a \in Answers, Deliver(m, a) PROVE FetchInv'
  BY <1>5, DeliverInv
<1>6. CASE UNCHANGED fetchVars
  BY <1>6 DEF fetchVars, FetchInv, FetchTypeOK, AttemptsMade, RetryPolicy, OneAnswerPerAttempt
<1> QED BY <1>1, <1>2, <1>3, <1>4, <1>5, <1>6 DEF FetchNext

(* The inductive invariant, with the types of the client and the wire.     *)
THEOREM FetchInvariant == FetchSpec => []FetchInv
<1>1. FetchInit => FetchInv
  BY FetchInitInv
<1>2. FetchInv /\ [FetchNext]_fetchVars => FetchInv'
  BY FetchNextInv
<1> QED BY <1>1, <1>2, PTL DEF FetchSpec

(* Every request gets all the attempts it may and no more: it fails only on  *)
(* an answer not worth a retry or after Retries + 1 attempts (fetch.ts).   *)
THEOREM RetryPolicyHolds == FetchSpec => []RetryPolicy
  BY FetchInvariant, PTL DEF FetchInv

(* The client never takes the answer to one attempt for that to another.   *)
THEOREM OneAnswerPerAttemptHolds == FetchSpec => []OneAnswerPerAttempt
  BY FetchInvariant, PTL DEF FetchInv

LEMMA SettlesOnceStep ==
  ASSUME FetchInv, [FetchNext]_fetchVars, NEW q \in Requests, call[q] \in {"ok", "failed"}
  PROVE  /\ call'[q] = call[q] /\ result'[q] = result[q] /\ attempt'[q] = attempt[q]
         /\ \A m \in wire' : m.req = q => m \in wire
<1> USE DEF FetchInv, FetchTypeOK
<1>1. CASE \E Q \in SUBSET Requests : Begin(Q)
  BY <1>1 DEF Begin
<1>2. CASE \E p \in Requests : Resend(p)
  BY <1>2 DEF Resend
<1>3. CASE \E p \in Requests : Receive(p) \/ Abort(p)
  BY <1>3 DEF Receive, Abort, End
<1>4. CASE \E m \in wire, a \in Answers : Deliver(m, a)
  BY <1>4 DEF Deliver
<1>5. CASE UNCHANGED fetchVars
  BY <1>5 DEF fetchVars
<1> QED BY <1>1, <1>2, <1>3, <1>4, <1>5 DEF FetchNext

(* The promise of a request settles once, and nothing is sent after it.    *)
THEOREM SettlesOnceHolds == FetchSpec => SettlesOnce
<1>1. FetchInv /\ [FetchNext]_fetchVars =>
        [\A q \in Requests : call[q] \in {"ok", "failed"} =>
           /\ call'[q] = call[q] /\ result'[q] = result[q] /\ attempt'[q] = attempt[q]
           /\ \A m \in wire' : m.req = q => m \in wire]_fetchVars
  BY SettlesOnceStep
<1> QED BY <1>1, FetchInvariant, PTL DEF FetchSpec, SettlesOnce
=============================================================================
