-------------------------- MODULE SignBundle_proofs --------------------------
(* Theorems about SignBundle, for any number of calls, witnesses, services   *)
(* and retries.                                                            *)
EXTENDS SignBundle, FetchRetry_proofs, FiniteSetTheorems

(* A call that has not reached its witnesses has not asked them anything.  *)
Unasked(c) == stage[c] \in {"new", "certifying"}
AskedLater ==
  /\ \A q \in Requests : call[q] = "idle" => result[q] = NoAnswer
  /\ \A c \in Calls : Unasked(c) => \A i \in Slots :
       witness[c][i] = "idle" /\ call[Post(c, i)] = "idle" /\ call[Get(c, i)] = "idle"

(* What an answer, received or on its way, identifies is what was submitted,  *)
(* and a success is the answer to a POST that has been recorded.           *)
Honest(q, a) ==
  /\ a.body # 0 => /\ a.body \in DOMAIN book[ServiceOf(q)]
                   /\ book[ServiceOf(q)][a.body] = Submission(q)
  /\ q.op = "post" /\ Ok(a.status) => Holds(ServiceOf(q), Submission(q))
AnswersHonest == \A q \in Requests : Honest(q, answer[q]) /\ Honest(q, result[q])

(* The types of the call side.                                             *)
TypesInv ==
  /\ stage    \in [Calls -> {"new", "certifying", "witnessing", "resolved", "rejected"}]
  /\ cert     \in [Calls -> Nat]
  /\ witness  \in [Calls -> [Slots -> {"idle", "posting", "getting", "ok"} \cup WitnessCodes]]
  /\ material \in [Calls -> [Slots -> Nat]]
  /\ error    \in [Calls -> {"", CACode} \cup IdentityCodes \cup WitnessCodes]
  /\ bundle   = [c \in Calls |-> bundle[c]]
  /\ book     \in [Services -> Seq(Contents)]

CreateInv == FetchInv /\ TypesInv /\ AskedLater /\ AnswersHonest /\ EvidenceIsOwn

-----------------------------------------------------------------------------
LEMMA RequestsOfCalls ==
  /\ \A c \in Calls : Cert(c) \in Requests
  /\ \A c \in Calls, i \in Slots : Post(c, i) \in Requests /\ Get(c, i) \in Requests
  /\ \A q \in Requests : q.call \in Calls /\ (q.op = "cert" \/ q.slot \in Slots)
  /\ \A q \in Requests : q.op # "cert" => q \in {Post(q.call, q.slot), Get(q.call, q.slot)}
  /\ \A q \in Requests : q.op \in {"cert", "post", "get"}
<1>1. \A c \in Calls : Cert(c) \in Requests
  BY RequestsAssumption DEF CallRequests
<1>2. \A c \in Calls, i \in Slots : Post(c, i) \in Requests /\ Get(c, i) \in Requests
  BY RequestsAssumption DEF CallRequests
<1>3. ASSUME NEW q \in Requests
      PROVE  \/ \E c \in Calls : q = Cert(c)
             \/ \E c \in Calls, i \in Slots : q = Post(c, i)
             \/ \E c \in Calls, i \in Slots : q = Get(c, i)
  BY RequestsAssumption DEF CallRequests
<1> QED BY <1>1, <1>2, <1>3 DEF Cert, Post, Get

LEMMA WitnessServices == \A i \in Slots : Witnesses[i] \in Logs \cup TSAs
  BY WitnessesAssumption DEF Slots

LEMMA ServiceOfRequest == \A q \in Requests : ServiceOf(q) \in Services
  BY RequestsOfCalls, WitnessServices DEF ServiceOf, Services

LEMMA SubmissionIsContent == TypesInv => \A q \in Requests : Submission(q) \in Contents
  BY RequestsOfCalls DEF TypesInv, Submission, Content, Contents

LEMMA NoAnswerIsNone == NoAnswer.body = 0 /\ ~ Ok(NoAnswer.status) /\ NoAnswer \in Answers
<1>1. NoAnswer.body = 0 /\ NoAnswer.status = 0
  BY DEF NoAnswer
<1>2. ~ Ok(0)
  BY DEF Ok
<1> QED BY <1>1, <1>2 DEF Answers

LEMMA BodiesOfAnswers == \A a \in Answers : a.body \in Bodies /\ a.body \in Nat
<1> SUFFICES ASSUME NEW a \in Answers PROVE a.body \in Bodies /\ a.body \in Nat
  OBVIOUS
<1>1. a = NoAnswer \/ a \in [status : Statuses, body : Bodies]
  BY DEF Answers
<1>2. a.body \in Bodies
  <2>1. CASE a = NoAnswer
    BY <2>1, AnswersOccur DEF NoAnswer
  <2>2. CASE a \in [status : Statuses, body : Bodies]
    BY <2>2
  <2> QED BY <1>1, <2>1, <2>2
<1> QED BY <1>2, AnswersAssumption

LEMMA AppendGrows ==
  ASSUME NEW S, NEW t \in Seq(S), NEW x \in S
  PROVE  /\ Append(t, x) \in Seq(S)
         /\ Len(t) + 1 \in DOMAIN Append(t, x) /\ Append(t, x)[Len(t) + 1] = x
         /\ \A n \in DOMAIN t : n \in DOMAIN Append(t, x) /\ Append(t, x)[n] = t[n]
  OBVIOUS

LEMMA AppendOnly ==
  ASSUME NEW S, NEW t \in Seq(S), NEW x \in S, NEW n \in DOMAIN Append(t, x)
  PROVE  (n \in DOMAIN t /\ Append(t, x)[n] = t[n]) \/ Append(t, x)[n] = x
  OBVIOUS

LEMMA AppendBook ==
  ASSUME NEW S, NEW T, NEW f \in [S -> Seq(T)], NEW s \in S, NEW x \in T,
         NEW g, g = [f EXCEPT ![s] = Append(@, x)]
  PROVE  /\ g \in [S -> Seq(T)]
         /\ \A r \in S : \A n \in DOMAIN f[r] : n \in DOMAIN g[r] /\ g[r][n] = f[r][n]
         /\ Len(f[s]) + 1 \in DOMAIN g[s] /\ g[s][Len(f[s]) + 1] = x
<1>1. g[s] = Append(f[s], x) /\ \A r \in S \ {s} : g[r] = f[r]
  OBVIOUS
<1>2. /\ g[s] \in Seq(T) /\ Len(f[s]) + 1 \in DOMAIN g[s] /\ g[s][Len(f[s]) + 1] = x
      /\ \A n \in DOMAIN f[s] : n \in DOMAIN g[s] /\ g[s][n] = f[s][n]
  BY <1>1, AppendGrows
<1> QED BY <1>1, <1>2

LEMMA InitInv == Init => CreateInv
<1> SUFFICES ASSUME Init PROVE CreateInv
  OBVIOUS
<1>1. FetchInv
  BY FetchInitInv DEF Init
<1>2. TypesInv
  <2>1. book \in [Services -> Seq(Contents)]
    <3>1. <<>> \in Seq(Contents)
      OBVIOUS
    <3> QED BY <3>1 DEF Init
  <2>2. error \in [Calls -> {"", CACode} \cup IdentityCodes \cup WitnessCodes]
    BY DEF Init
  <2> QED BY <2>1, <2>2 DEF Init, TypesInv
<1>3. AskedLater
  BY RequestsOfCalls DEF Init, FetchInit, AskedLater
<1>4. AnswersHonest
  BY NoAnswerIsNone DEF Init, FetchInit, AnswersHonest, Honest
<1>5. EvidenceIsOwn
  BY DEF Init, EvidenceIsOwn
<1> QED BY <1>1, <1>2, <1>3, <1>4, <1>5 DEF CreateInv

-----------------------------------------------------------------------------
(* What a step of a service does to the wire and to its book.              *)
Grows ==
  \A s \in Services : \A n \in DOMAIN book[s] : n \in DOMAIN book'[s] /\ book'[s][n] = book[s][n]

LEMMA ServeStep ==
  ASSUME CreateInv, NEW m \in wire, Serve(m)
  PROVE  /\ UNCHANGED createVars /\ book' \in [Services -> Seq(Contents)] /\ Grows
         /\ \E a \in Answers :
              /\ Deliver(m, a)
              /\ a.body # 0 => /\ a.body \in DOMAIN book'[ServiceOf(m.req)]
                               /\ book'[ServiceOf(m.req)][a.body] = Submission(m.req)
              /\ m.req.op = "post" /\ Ok(a.status) =>
                   \E n \in DOMAIN book'[ServiceOf(m.req)] :
                     book'[ServiceOf(m.req)][n] = Submission(m.req)
<1> DEFINE q == m.req
           s == ServiceOf(q)
           Done(a) == /\ a \in Answers /\ Deliver(m, a)
                      /\ a.body # 0 => /\ a.body \in DOMAIN book'[s]
                                       /\ book'[s][a.body] = Submission(q)
                      /\ q.op = "post" /\ Ok(a.status) =>
                           \E n \in DOMAIN book'[s] : book'[s][n] = Submission(q)
<1> USE DEF CreateInv, TypesInv
<1>0. q \in Requests /\ s \in Services /\ Submission(q) \in Contents /\ book[s] \in Seq(Contents)
  BY ServiceOfRequest, SubmissionIsContent DEF FetchInv, FetchTypeOK, Copies
<1>1. ASSUME NEW status \in {0} \cup (Statuses \ (200 .. 299)), Refuse(m, status)
      PROVE  UNCHANGED createVars /\ book' \in [Services -> Seq(Contents)] /\ Grows
             /\ \E a \in Answers : Done(a)
  <2>1. PICK a \in Answers : Deliver(m, a) /\ a.body = 0 /\ ~ Ok(a.status)
    <3> DEFINE b == IF status = 0 THEN NoAnswer ELSE [status |-> status, body |-> 0]
    <3>1. b \in Answers /\ b.body = 0 /\ ~ Ok(b.status)
      <4>1. CASE status = 0
        <5>1. NoAnswer \in Answers /\ NoAnswer.body = 0 /\ ~ Ok(NoAnswer.status)
          BY NoAnswerIsNone
        <5> QED BY <4>1, <5>1, ZenonT(30)
      <4>2. CASE status # 0
        <5>1. status \in Statuses /\ 0 \in Bodies /\ ~ Ok(status)
          BY <4>2, AnswersOccur DEF Ok
        <5> QED BY <4>2, <5>1 DEF Answers
      <4> QED BY <4>1, <4>2
    <3>2. Deliver(m, b)
      BY <1>1 DEF Refuse
    <3> HIDE DEF b
    <3> QED BY <3>1, <3>2
  <2> QED BY <1>1, <2>1 DEF Refuse, Grows
<1>2. ASSUME Duplicate(m)
      PROVE  UNCHANGED createVars /\ book' \in [Services -> Seq(Contents)] /\ Grows
             /\ \E a \in Answers : Done(a)
  <2>1. PICK n \in (DOMAIN book[s]) \cap Bodies, located \in BOOLEAN :
          /\ book[s][n] = Submission(q)
          /\ Deliver(m, [status |-> 409, body |-> IF located THEN n ELSE 0])
    BY <1>2 DEF Duplicate
  <2>2. [status |-> 409, body |-> IF located THEN n ELSE 0] \in Answers
    BY AnswersOccur, ZenonT(30) DEF Answers
  <2>3. Done([status |-> 409, body |-> IF located THEN n ELSE 0])
    BY <1>2, <2>1, <2>2 DEF Duplicate, Ok
  <2>4. UNCHANGED createVars /\ UNCHANGED book
    BY <1>2 DEF Duplicate
  <2>5. book' \in [Services -> Seq(Contents)] /\ Grows
    BY <2>4 DEF Grows
  <2>6. \E a \in Answers : Done(a)
    <3> HIDE DEF Done
    <3> QED BY <2>2, <2>3, ZenonT(30)
  <2> HIDE DEF Done
  <2> QED BY <2>4, <2>5, <2>6
<1>3. ASSUME Record(m)
      PROVE  UNCHANGED createVars /\ book' \in [Services -> Seq(Contents)] /\ Grows
             /\ \E a \in Answers : Done(a)
  <2> DEFINE n == Len(book[s]) + 1
  <2>1. /\ book' = [book EXCEPT ![s] = Append(@, Submission(q))]
        /\ UNCHANGED createVars
    BY <1>3 DEF Record
  <2>4. \E a \in Answers : Deliver(m, a) /\ a.body \in {0, n}
    <3>1. PICK a \in {NoAnswer} \cup {x \in Answers : IF Ok(x.status) THEN x.body \in {0, n}
                                                                       ELSE x.body = 0} :
            Deliver(m, a)
      BY <1>3 DEF Record
    <3>2. NoAnswer \in Answers /\ NoAnswer.body = 0
      BY DEF Answers, NoAnswer
    <3>3. a \in Answers /\ a.body \in {0, n}
      BY <3>1, <3>2
    <3> QED BY <3>1, <3>3
  <2>2. /\ book' \in [Services -> Seq(Contents)] /\ Grows
        /\ n \in DOMAIN book'[s] /\ book'[s][n] = Submission(q)
    <3> DEFINE x == Submission(q)
               g == book'
    <3>1. /\ book \in [Services -> Seq(Contents)] /\ s \in Services /\ x \in Contents
          /\ g = [book EXCEPT ![s] = Append(@, x)]
      BY <1>0, <2>1
    <3>2. /\ g \in [Services -> Seq(Contents)]
          /\ \A r \in Services : \A k \in DOMAIN book[r] : k \in DOMAIN g[r] /\ g[r][k] = book[r][k]
          /\ Len(book[s]) + 1 \in DOMAIN g[s] /\ g[s][Len(book[s]) + 1] = x
      <4> HIDE DEF CreateInv, TypesInv, s, x, g, n, q
      <4> QED BY <3>1, AppendBook
    <3> QED BY <3>2 DEF Grows
  <2> QED BY <2>1, <2>2, <2>4
<1>4. ASSUME Retrieve(m)
      PROVE  UNCHANGED createVars /\ book' \in [Services -> Seq(Contents)] /\ Grows
             /\ \E a \in Answers : Done(a)
  <2> DEFINE p == Post(q.call, q.slot)
  <2>1. PICK n \in {0, result[p].body} : Deliver(m, [status |-> 200, body |-> n])
    BY <1>4 DEF Retrieve
  <2>2. q.op = "get" /\ q.call \in Calls /\ q.slot \in Slots /\ p \in Requests
    BY <1>0, <1>4, RequestsOfCalls DEF Retrieve
  <2>3. ServiceOf(p) = s /\ Submission(p) = Submission(q)
    BY <2>2 DEF ServiceOf, Submission, Post
  <2>4. Honest(p, result[p]) /\ result[p].body \in Bodies
    BY <2>2, BodiesOfAnswers DEF AnswersHonest, FetchInv, FetchTypeOK
  <2>5. [status |-> 200, body |-> n] \in Answers
    BY <2>1, <2>4, AnswersOccur, ZenonT(30) DEF Answers
  <2>6. Done([status |-> 200, body |-> n])
    BY <1>4, <2>1, <2>3, <2>4, <2>5 DEF Honest, Retrieve
  <2>7. UNCHANGED createVars /\ UNCHANGED book
    BY <1>4 DEF Retrieve
  <2>8. book' \in [Services -> Seq(Contents)] /\ Grows
    BY <2>7 DEF Grows
  <2>9. \E a \in Answers : Done(a)
    <3> HIDE DEF Done
    <3> QED BY <2>5, <2>6
  <2> HIDE DEF Done
  <2> QED BY <2>7, <2>8, <2>9
<1> QED BY <1>1, <1>2, <1>3, <1>4 DEF Serve

-----------------------------------------------------------------------------
(* The actions of the client side, one lemma for each shape they have.     *)
Codes == {CACode} \cup IdentityCodes \cup WitnessCodes

LEMMA FetchStutter == ASSUME FetchInv, UNCHANGED fetchVars PROVE FetchInv'
  BY FetchNextInv

LEMMA AskedLaterStutter ==
  ASSUME AskedLater, UNCHANGED fetchVars,
         \A d \in Calls : Unasked(d)' => Unasked(d) /\ witness'[d] = witness[d]
  PROVE  AskedLater'
<1>1. call' = call /\ result' = result
  BY DEF fetchVars
<1> QED BY <1>1 DEF AskedLater

LEMMA RejectInv ==
  ASSUME CreateInv, NEW c \in Calls, NEW code \in Codes, Reject(c, code),
         UNCHANGED <<cert, witness, material, bundle, fetchVars, book>>
  PROVE  CreateInv'
<1> USE DEF CreateInv, TypesInv, Reject, Codes
<1>1. FetchInv'
  BY FetchStutter
<1>2. TypesInv'
  OBVIOUS
<1>3. AskedLater'
  <2>1. \A d \in Calls : Unasked(d)' => Unasked(d) /\ witness'[d] = witness[d]
    BY DEF Unasked, AskedLater
  <2> QED BY <2>1, AskedLaterStutter
<1>4. AnswersHonest'
  BY DEF AnswersHonest, Honest, Holds, Submission, Content, fetchVars
<1>5. EvidenceIsOwn'
  BY DEF EvidenceIsOwn, Evidences, Holds, Content
<1> QED BY <1>1, <1>2, <1>3, <1>4, <1>5

LEMMA AcceptInv ==
  ASSUME CreateInv, NEW c \in Calls, NEW i \in Slots, NEW q \in {Post(c, i), Get(c, i)},
         witness[c][i] # "idle", Succeeded(q), Accept(c, i, q)
  PROVE  CreateInv'
<1>a. q = Post(c, i) \/ q = Get(c, i)
  OBVIOUS
<1>0. /\ q \in Requests /\ ServiceOf(q) = Witnesses[i] /\ Submission(q) = Content(c)
      /\ result[q].body \in Nat
  <2>1. q \in Requests
    BY <1>a, RequestsOfCalls
  <2>2. result[q].body \in Nat
    BY <2>1, BodiesOfAnswers DEF CreateInv, FetchInv, FetchTypeOK
  <2>3. ServiceOf(q) = Witnesses[i] /\ Submission(q) = Content(c)
    BY <1>a DEF ServiceOf, Submission, Post, Get
  <2> QED BY <2>1, <2>2, <2>3
<1> USE DEF CreateInv, TypesInv, Accept
<1>1. FetchInv'
  BY FetchStutter
<1>2. TypesInv'
  BY <1>0
<1>3. AskedLater'
  <2>1. \A d \in Calls : Unasked(d)' => Unasked(d) /\ witness'[d] = witness[d]
    BY ZenonT(30) DEF Unasked, AskedLater
  <2> QED BY <2>1, AskedLaterStutter
<1>4. AnswersHonest'
  BY DEF AnswersHonest, Honest, Holds, Submission, Content, fetchVars
<1>5. EvidenceIsOwn'
  <2>1. Evidences(Witnesses[i], result[q].body, Content(c))
    <3>1. CASE result[q].body # 0
      BY <1>0, <3>1 DEF AnswersHonest, Honest, Evidences
    <3>2. CASE result[q].body = 0
      <4>1. Witnesses[i] \in TSAs /\ call[q] = "ok" /\ q.op = "post"
        BY <1>0, <3>2 DEF Succeeded, Unread
      <4>2. Ok(result[q].status)
        BY <1>0, <4>1 DEF FetchInv, AttemptsMade
      <4>4. Holds(Witnesses[i], Content(c))
        BY <1>0, <4>1, <4>2 DEF AnswersHonest, Honest
      <4> QED BY <3>2, <4>1, <4>4 DEF Evidences
    <3> QED BY <3>1, <3>2
  <2>2. \A d \in Calls, j \in Slots : witness'[d][j] = "ok" =>
          (d = c /\ j = i /\ material'[d][j] = result[q].body)
          \/ (witness[d][j] = "ok" /\ material'[d][j] = material[d][j])
    BY <1>0
  <2>3. UNCHANGED <<book, cert>>
    OBVIOUS
  <2> HIDE DEF CreateInv, TypesInv, Accept
  <2>4. EvidenceIsOwn
    BY DEF CreateInv
  <2> QED BY <2>1, <2>2, <2>3, <2>4 DEF EvidenceIsOwn, Evidences, Holds, Content
<1> QED BY <1>1, <1>2, <1>3, <1>4, <1>5

LEMMA FailInv ==
  ASSUME CreateInv, NEW c \in Calls, NEW i \in Slots, NEW code \in WitnessCodes,
         witness[c][i] # "idle", Fail(c, i, code)
  PROVE  CreateInv'
<1> USE DEF CreateInv, TypesInv, Fail, Reject
<1>0. code # "ok"
  BY DEF WitnessCodes
<1>1. FetchInv'
  BY FetchStutter
<1>2. TypesInv'
  OBVIOUS
<1>3. AskedLater'
  <2>1. \A d \in Calls : Unasked(d)' => Unasked(d) /\ witness'[d] = witness[d]
    BY ZenonT(30) DEF Unasked, AskedLater
  <2> QED BY <2>1, AskedLaterStutter
<1>4. AnswersHonest'
  BY DEF AnswersHonest, Honest, Holds, Submission, Content, fetchVars
<1>5. EvidenceIsOwn'
  BY <1>0, ZenonT(30) DEF EvidenceIsOwn, Evidences, Holds, Content
<1> QED BY <1>1, <1>2, <1>3, <1>4, <1>5

LEMMA CollectInv == ASSUME CreateInv, NEW c \in Calls, Collect(c) PROVE CreateInv'
<1> USE DEF CreateInv, TypesInv, Collect
<1>1. FetchInv'
  BY FetchStutter
<1>2. TypesInv'
  OBVIOUS
<1>3. AskedLater'
  <2>1. \A d \in Calls : Unasked(d)' => Unasked(d) /\ witness'[d] = witness[d]
    BY ZenonT(30) DEF Unasked, AskedLater
  <2> QED BY <2>1, AskedLaterStutter
<1>4. AnswersHonest'
  BY DEF AnswersHonest, Honest, Holds, Submission, Content, fetchVars
<1>5. EvidenceIsOwn'
  BY DEF EvidenceIsOwn, Evidences, Holds, Content
<1> QED BY <1>1, <1>2, <1>3, <1>4, <1>5

LEMMA TestifyInv ==
  ASSUME CreateInv, NEW c \in Calls, NEW k \in Nat, Unasked(c),
         cert' = [cert EXCEPT ![c] = k], Testify(c), UNCHANGED <<material, error, bundle, book>>
  PROVE  CreateInv'
<1>0. \A i \in Slots : Post(c, i) \in Requests
  BY RequestsOfCalls
<1>a. /\ AskedLater /\ FetchInv /\ AnswersHonest /\ result' = result /\ answer' = answer
      /\ UNCHANGED book /\ \A q \in Requests : call'[q] = "idle" => call[q] = "idle"
  BY DEF CreateInv, Testify, Begin
<1>b. \A d \in Calls : d # c =>
        cert'[d] = cert[d] /\ witness'[d] = witness[d] /\ stage'[d] = stage[d]
  BY DEF CreateInv, TypesInv, Testify
<1>c. \A d \in Calls : Unasked(d)' => d # c /\ Unasked(d)
  BY <1>b DEF Unasked, Testify, CreateInv, TypesInv
<1>1. FetchInv'
  BY <1>0, <1>a, BeginInv DEF Testify
<1>2. TypesInv'
  BY DEF CreateInv, TypesInv, Testify
<1>3. AskedLater'
  <2>1. \A d \in Calls : d # c => \A i, j \in Slots :
          Post(d, i) # Post(c, j) /\ Get(d, i) # Post(c, j)
    BY DEF Post, Get
  <2>2. \A d \in Calls : d # c => \A i \in Slots :
          call'[Post(d, i)] = call[Post(d, i)] /\ call'[Get(d, i)] = call[Get(d, i)]
    BY <2>1, RequestsOfCalls DEF Testify, Begin
  <2>3. \A q \in Requests : call'[q] = "idle" => result'[q] = NoAnswer
    BY <1>a DEF AskedLater
  <2>4. \A d \in Calls : Unasked(d)' => \A i \in Slots :
          witness'[d][i] = "idle" /\ call'[Post(d, i)] = "idle" /\ call'[Get(d, i)] = "idle"
    BY <1>a, <1>b, <1>c, <2>2 DEF AskedLater
  <2> QED BY <2>3, <2>4 DEF AskedLater
<1>4. AnswersHonest'
  <2> SUFFICES ASSUME NEW q \in Requests PROVE Honest(q, answer[q])' /\ Honest(q, result[q])'
    BY DEF AnswersHonest
  <2>1. CASE q.op # "cert" /\ q.call = c
    <3>1. call[q] = "idle"
      <4>1. (q = Post(c, q.slot) \/ q = Get(c, q.slot)) /\ q.slot \in Slots
        BY <2>1, RequestsOfCalls
      <4>2. \A i \in Slots : call[Post(c, i)] = "idle" /\ call[Get(c, i)] = "idle"
        BY <1>a DEF AskedLater
      <4> QED BY <4>1, <4>2
    <3>2. answer[q] = NoAnswer /\ result[q] = NoAnswer
      BY <1>a, <3>1 DEF AskedLater, FetchInv, OneAnswerPerAttempt
    <3> QED BY <1>a, <3>2 DEF Honest, NoAnswer, Ok
  <2>2. CASE q.op = "cert" \/ q.call # c
    <3>1. Submission(q)' = Submission(q)
      BY <1>b, <2>2, RequestsOfCalls DEF Submission, Content
    <3> QED BY <1>a, <3>1 DEF AnswersHonest, Honest, Holds
  <2> QED BY <2>1, <2>2
<1>5. EvidenceIsOwn'
  <2>1. \A d \in Calls, j \in Slots : witness'[d][j] = "ok" => d # c /\ witness[d][j] = "ok"
    BY DEF Testify, CreateInv, TypesInv
  <2>2. EvidenceIsOwn /\ UNCHANGED <<book, material>>
    BY DEF CreateInv
  <2> QED BY <1>b, <2>1, <2>2 DEF EvidenceIsOwn, Evidences, Holds, Content
<1> QED BY <1>1, <1>2, <1>3, <1>4, <1>5 DEF CreateInv

LEMMA RequestCertificateInv ==
  ASSUME CreateInv, NEW c \in Calls, RequestCertificate(c) PROVE CreateInv'
<1>0. {Cert(c)} \in SUBSET Requests /\ Begin({Cert(c)})
  BY RequestsOfCalls DEF RequestCertificate
<1>a. /\ AskedLater /\ AnswersHonest /\ EvidenceIsOwn /\ result' = result /\ answer' = answer
      /\ UNCHANGED <<book, cert, witness, material>>
      /\ \A q \in Requests : call'[q] = "idle" => call[q] = "idle"
      /\ \A q \in Requests \ {Cert(c)} : call'[q] = call[q]
  BY DEF CreateInv, RequestCertificate, Begin
<1>1. FetchInv'
  BY <1>0, BeginInv DEF CreateInv
<1>2. TypesInv'
  BY DEF CreateInv, TypesInv, RequestCertificate
<1>3. AskedLater'
  <2>1. \A d \in Calls : Unasked(d)' => Unasked(d)
    BY DEF Unasked, RequestCertificate, CreateInv, TypesInv
  <2>2. \A d \in Calls, i \in Slots : /\ Post(d, i) \in Requests \ {Cert(c)}
                                      /\ Get(d, i) \in Requests \ {Cert(c)}
    BY RequestsOfCalls DEF Cert, Post, Get
  <2> QED BY <1>a, <2>1, <2>2 DEF AskedLater
<1>4. AnswersHonest'
  BY <1>a DEF AnswersHonest, Honest, Holds, Submission, Content
<1>5. EvidenceIsOwn'
  BY <1>a DEF EvidenceIsOwn, Evidences, Holds, Content
<1> QED BY <1>1, <1>2, <1>3, <1>4, <1>5 DEF CreateInv

LEMMA LookUpInv ==
  ASSUME CreateInv, NEW c \in Calls, NEW i \in Slots, LookUp(c, i) PROVE CreateInv'
<1>0. {Get(c, i)} \in SUBSET Requests /\ Begin({Get(c, i)})
  BY RequestsOfCalls DEF LookUp
<1>a. /\ AskedLater /\ AnswersHonest /\ EvidenceIsOwn /\ result' = result /\ answer' = answer
      /\ UNCHANGED <<book, cert, stage, material>> /\ ~ Unasked(c)
      /\ \A q \in Requests : call'[q] = "idle" => call[q] = "idle"
      /\ \A q \in Requests \ {Get(c, i)} : call'[q] = call[q]
      /\ \A d \in Calls \ {c} : witness'[d] = witness[d]
  BY DEF CreateInv, TypesInv, AskedLater, LookUp, Begin
<1>1. FetchInv'
  BY <1>0, BeginInv DEF CreateInv
<1>2. TypesInv'
  BY DEF CreateInv, TypesInv, LookUp
<1>3. AskedLater'
  <2>1. \A d \in Calls : Unasked(d)' => Unasked(d) /\ d # c
    BY <1>a DEF Unasked
  <2>2. \A d \in Calls \ {c}, j \in Slots : /\ Post(d, j) \in Requests \ {Get(c, i)}
                                            /\ Get(d, j) \in Requests \ {Get(c, i)}
    BY RequestsOfCalls DEF Post, Get
  <2> QED BY <1>a, <2>1, <2>2 DEF AskedLater
<1>4. AnswersHonest'
  BY <1>a DEF AnswersHonest, Honest, Holds, Submission, Content
<1>5. EvidenceIsOwn'
  <2>1. \A d \in Calls, j \in Slots : witness'[d][j] = "ok" => witness[d][j] = "ok"
    BY DEF LookUp, CreateInv, TypesInv
  <2> QED BY <1>a, <2>1 DEF EvidenceIsOwn, Evidences, Holds, Content
<1> QED BY <1>1, <1>2, <1>3, <1>4, <1>5 DEF CreateInv

LEMMA CreateStepInv == ASSUME CreateInv, NEW c \in Calls, Create(c) PROVE CreateInv'
<1>1. CASE SignerFails(c)
  <2>1. PICK code \in IdentityCodes \cup {CACode} : Reject(c, code)
    BY <1>1 DEF SignerFails
  <2> QED BY <1>1, <2>1, RejectInv DEF SignerFails, Codes
<1>2. CASE RequestCertificate(c)
  BY <1>2, RequestCertificateInv
<1>3. CASE CertificateRefused(c)
  BY <1>3, RejectInv DEF CertificateRefused, Codes
<1>4. CASE SignCertified(c)
  <2>1. result[Cert(c)].body \in Nat
    BY RequestsOfCalls, BodiesOfAnswers DEF CreateInv, FetchInv, FetchTypeOK
  <2> QED BY <1>4, <2>1, TestifyInv DEF SignCertified, Unasked
<1>5. CASE SignWithKey(c)
  <2>1. cert' = [cert EXCEPT ![c] = cert[c]] /\ cert[c] \in Nat
    BY <1>5 DEF SignWithKey, CreateInv, TypesInv
  <2> QED BY <1>5, <2>1, TestifyInv DEF SignWithKey, Unasked
<1>6. CASE Collect(c)
  BY <1>6, CollectInv
<1>7. ASSUME NEW i \in Slots, Posted(c, i) PROVE CreateInv'
  BY <1>7, AcceptInv DEF Posted
<1>8. ASSUME NEW i \in Slots, PostFailed(c, i) PROVE CreateInv'
  <2>1. PICK code \in {CreateCode(i)} \cup MisreadCodes(i, Post(c, i)) : Fail(c, i, code)
    BY <1>8 DEF PostFailed
  <2>2. code \in WitnessCodes
    BY DEF CreateCode, MisreadCodes, WitnessCodes
  <2> QED BY <1>8, <2>1, <2>2, FailInv DEF PostFailed
<1>9. ASSUME NEW i \in Slots, LookUp(c, i) PROVE CreateInv'
  BY <1>9, LookUpInv
<1>10. ASSUME NEW i \in Slots, LookedUp(c, i) PROVE CreateInv'
  BY <1>10, AcceptInv DEF LookedUp
<1>11. ASSUME NEW i \in Slots, LookUpFailed(c, i) PROVE CreateInv'
  <2>1. PICK code \in {"TLOG_FETCH_ENTRY_ERROR"} \cup MisreadCodes(i, Get(c, i)) : Fail(c, i, code)
    BY <1>11 DEF LookUpFailed
  <2>2. code \in WitnessCodes
    BY DEF MisreadCodes, WitnessCodes
  <2> QED BY <1>11, <2>1, <2>2, FailInv DEF LookUpFailed
<1> QED BY <1>1, <1>2, <1>3, <1>4, <1>5, <1>6, <1>7, <1>8, <1>9, <1>10, <1>11 DEF Create

-----------------------------------------------------------------------------
(* The client takes an answer as it is, and the services are honest.       *)
LEMMA EndEffect ==
  ASSUME FetchInv, NEW q \in Requests, NEW a \in Answers, End(q, a)
  PROVE  \A p \in Requests : /\ answer'[p] = answer[p] \/ answer'[p] = NoAnswer
                             /\ result'[p] = result[p] \/ (result'[p] = a /\ p = q)
                             /\ call'[p] = "idle" <=> call[p] = "idle"
                             /\ call'[q] # "idle"
<1>1. After(q, a) # "idle"
  BY DEF After
<1> QED BY <1>1 DEF End, FetchInv, FetchTypeOK

LEMMA ClientInv == ASSUME CreateInv, NEW q \in Requests, Client(q) PROVE CreateInv'
<1>1. FetchInv'
  <2>1. [FetchNext]_fetchVars
    BY DEF Client, FetchNext
  <2> QED BY <2>1, FetchNextInv DEF CreateInv
<1>2. TypesInv' /\ EvidenceIsOwn' /\ UNCHANGED <<book, cert, stage, witness>>
  BY DEF CreateInv, TypesInv, EvidenceIsOwn, Evidences, Holds, Content, Client, createVars
<1>3. \A p \in Requests : /\ answer'[p] = answer[p] \/ answer'[p] = NoAnswer
                          /\ result'[p] = result[p] \/ call'[p] # "idle"
                          /\ result'[p] = result[p] \/ result'[p] = answer[p] \/ result'[p] = NoAnswer
                          /\ call'[p] = "idle" <=> call[p] = "idle"
  <2>1. CASE Resend(q)
    BY <2>1 DEF Resend, CreateInv, FetchInv, FetchTypeOK
  <2>2. CASE Receive(q)
    BY <2>2, EndEffect DEF Receive, CreateInv, FetchInv, FetchTypeOK
  <2>3. CASE Abort(q)
    BY <2>3, EndEffect DEF Abort, CreateInv, Answers
  <2> QED BY <2>1, <2>2, <2>3 DEF Client
<1>4. AskedLater'
  <2>1. \A c \in Calls : Unasked(c)' => Unasked(c)
    BY <1>2 DEF Unasked
  <2>2. \A p \in Requests : call'[p] = "idle" => result'[p] = NoAnswer
    BY <1>3 DEF CreateInv, AskedLater
  <2> QED BY <1>2, <1>3, <2>1, <2>2, RequestsOfCalls DEF CreateInv, AskedLater
<1>5. AnswersHonest'
  <2>1. \A p \in Requests : Submission(p)' = Submission(p)
    BY <1>2 DEF Submission, Content
  <2> QED BY <1>2, <1>3, <2>1 DEF CreateInv, AnswersHonest, Honest, Holds, NoAnswer, Ok
<1> QED BY <1>1, <1>2, <1>4, <1>5 DEF CreateInv

(* What somebody else submits, to a log, without a CA.                      *)
LEMMA OthersStep ==
  ASSUME CreateInv, NEW s \in Logs, SubmittedByOthers(s)
  PROVE  /\ UNCHANGED <<createVars, fetchVars>> /\ ~ UseCA
         /\ book' \in [Services -> Seq(Contents)] /\ Grows
<1>1. PICK c \in Calls : book' = [book EXCEPT ![s] = Append(@, Content(c))]
  BY DEF SubmittedByOthers
<1> DEFINE x == Content(c)
           g == book'
<1>2. /\ book \in [Services -> Seq(Contents)] /\ s \in Services /\ x \in Contents
      /\ g = [book EXCEPT ![s] = Append(@, x)]
  BY <1>1 DEF CreateInv, TypesInv, Services, Content, Contents
<1>3. /\ g \in [Services -> Seq(Contents)]
      /\ \A r \in Services : \A k \in DOMAIN book[r] : k \in DOMAIN g[r] /\ g[r][k] = book[r][k]
  <2> HIDE DEF x, g
  <2> QED BY <1>2, AppendBook
<1> QED BY <1>3 DEF SubmittedByOthers, Grows

LEMMA OthersInv == ASSUME CreateInv, NEW s \in Logs, SubmittedByOthers(s) PROVE CreateInv'
<1>1. UNCHANGED <<createVars, fetchVars>> /\ book' \in [Services -> Seq(Contents)] /\ Grows
  BY OthersStep
<1>2. UNCHANGED <<stage, cert, witness, material, error, bundle, call, result, answer>>
  BY <1>1 DEF createVars, fetchVars
<1>3. FetchInv'
  BY <1>1, FetchStutter DEF CreateInv
<1>4. TypesInv' /\ AskedLater'
  <2>1. TypesInv /\ AskedLater
    BY DEF CreateInv
  <2>2. TypesInv'
    BY <1>1, <1>2, <2>1 DEF TypesInv
  <2>3. AskedLater'
    BY <1>2, <2>1 DEF AskedLater, Unasked
  <2> QED BY <2>2, <2>3
<1>5. AnswersHonest'
  <2> SUFFICES ASSUME NEW q \in Requests PROVE Honest(q, answer[q])' /\ Honest(q, result[q])'
    BY DEF AnswersHonest
  <2>1. ServiceOf(q) \in Services /\ Submission(q)' = Submission(q)
    BY <1>2, ServiceOfRequest DEF Submission, Content
  <2> QED BY <1>1, <1>2, <2>1 DEF CreateInv, AnswersHonest, Honest, Holds, Grows
<1>6. EvidenceIsOwn'
  <2>1. \A i \in Slots : Witnesses[i] \in Services
    BY WitnessServices DEF Services
  <2> QED BY <1>1, <1>2, <2>1 DEF CreateInv, EvidenceIsOwn, Evidences, Holds, Content, Grows
<1> QED BY <1>3, <1>4, <1>5, <1>6 DEF CreateInv

LEMMA ServeInv == ASSUME CreateInv, NEW m \in wire, Serve(m) PROVE CreateInv'
<1>0. m.req \in Requests
  BY DEF CreateInv, FetchInv, FetchTypeOK, Copies
<1>1. PICK a \in Answers :
        /\ Deliver(m, a)
        /\ a.body # 0 => /\ a.body \in DOMAIN book'[ServiceOf(m.req)]
                         /\ book'[ServiceOf(m.req)][a.body] = Submission(m.req)
        /\ m.req.op = "post" /\ Ok(a.status) =>
             \E n \in DOMAIN book'[ServiceOf(m.req)] :
               book'[ServiceOf(m.req)][n] = Submission(m.req)
  BY ServeStep
<1>2. UNCHANGED createVars /\ book' \in [Services -> Seq(Contents)] /\ Grows
  BY ServeStep
<1>3. FetchInv'
  BY <1>1, DeliverInv DEF CreateInv
<1>4. TypesInv'
  BY <1>2 DEF CreateInv, TypesInv, createVars
<1>5. AskedLater'
  <2>1. UNCHANGED <<call, result, stage, witness>>
    BY <1>1, <1>2 DEF Deliver, createVars
  <2> QED BY <2>1 DEF CreateInv, AskedLater, Unasked
<1>6. AnswersHonest'
  <2>1. result' = result /\ \A q \in Requests : answer'[q] = answer[q] \/ (q = m.req /\ answer'[q] = a)
    BY <1>0, <1>1 DEF Deliver, CreateInv, FetchInv, FetchTypeOK
  <2>2. \A q \in Requests : Submission(q)' = Submission(q)
    BY <1>2 DEF Submission, Content, createVars
  <2>3. \A q \in Requests : Honest(q, answer[q])' /\ Honest(q, result[q])'
    <3> SUFFICES ASSUME NEW q \in Requests PROVE Honest(q, answer[q])' /\ Honest(q, result[q])'
      OBVIOUS
    <3>1. ServiceOf(q) \in Services
      BY ServiceOfRequest
    <3>2. Honest(q, result[q])'
      BY <1>2, <2>1, <2>2, <3>1 DEF CreateInv, AnswersHonest, Honest, Holds, Grows
    <3>3. Honest(q, answer[q])'
      BY <1>1, <1>2, <2>1, <2>2, <3>1 DEF CreateInv, AnswersHonest, Honest, Holds, Grows
    <3> QED BY <3>2, <3>3
  <2> QED BY <2>3 DEF AnswersHonest
<1>7. EvidenceIsOwn'
  <2>1. UNCHANGED <<cert, witness, material>>
    BY <1>2 DEF createVars
  <2>2. \A i \in Slots : Witnesses[i] \in Services
    BY WitnessServices DEF Services
  <2> QED BY <1>2, <2>1, <2>2 DEF CreateInv, EvidenceIsOwn, Evidences, Holds, Content, Grows
<1> QED BY <1>3, <1>4, <1>5, <1>6, <1>7 DEF CreateInv

LEMMA CreateNextInv == CreateInv /\ [Next]_vars => CreateInv'
<1> SUFFICES ASSUME CreateInv, [Next]_vars PROVE CreateInv'
  OBVIOUS
<1>1. CASE UNCHANGED vars
  <2>1. UNCHANGED <<fetchVars, stage, cert, witness, material, error, bundle, book>>
    BY <1>1 DEF vars, createVars
  <2>2. UNCHANGED <<call, result, answer>>
    BY <2>1 DEF fetchVars
  <2>3. FetchInv'
    BY <2>1, FetchStutter DEF CreateInv
  <2>4. TypesInv' /\ EvidenceIsOwn'
    BY <2>1 DEF CreateInv, TypesInv, EvidenceIsOwn, Evidences, Holds, Content
  <2>6. AskedLater'
    BY <2>1, FetchStutter, AskedLaterStutter DEF CreateInv, Unasked
  <2>5. AnswersHonest'
    BY <2>1, <2>2 DEF CreateInv, AnswersHonest, Honest, Holds, Submission, Content
  <2> QED BY <2>3, <2>4, <2>5, <2>6 DEF CreateInv
<1> QED BY <1>1, CreateStepInv, ClientInv, ServeInv, OthersInv DEF Next

(* The inductive invariant of concurrent create() calls.                   *)
THEOREM CreateInvariant == Spec => []CreateInv
<1>1. Init => CreateInv
  BY InitInv
<1>2. CreateInv /\ [Next]_vars => CreateInv'
  BY CreateNextInv
<1> QED BY <1>1, <1>2, PTL DEF Spec

(* Types, of the requests and of the calls.                                *)
THEOREM TypeCorrect == Spec => []CreateTypeOK
<1>1. CreateInv => CreateTypeOK
  BY DEF CreateInv, FetchInv, TypesInv, CreateTypeOK
<1> QED BY <1>1, CreateInvariant, PTL

(* The evidence a witness has returned is on its service's record, for the   *)
(* signature and certificate of the call that asked for it.                *)
THEOREM EvidenceIsOwnHolds == Spec => []EvidenceIsOwn
  BY CreateInvariant, PTL DEF CreateInv

(* The requests of create() obey the retry policy, whichever of them end     *)
(* after the call that made them has settled.                              *)
THEOREM RequestsObeyPolicy == Spec => [](RetryPolicy /\ OneAnswerPerAttempt)
  BY CreateInvariant, PTL DEF CreateInv, FetchInv

-----------------------------------------------------------------------------
(* A step of create() leaves the books alone and either makes requests or    *)
(* leaves those that are made to themselves.                               *)
LEMMA CreateFrame ==
  ASSUME NEW c \in Calls, Create(c)
  PROVE  /\ UNCHANGED book
         /\ UNCHANGED fetchVars \/ \E Q \in SUBSET Requests : Begin(Q)
<1>1. ASSUME NEW i \in Slots,
             Posted(c, i) \/ PostFailed(c, i) \/ LookedUp(c, i) \/ LookUpFailed(c, i)
      PROVE  UNCHANGED <<book, fetchVars>>
  BY <1>1 DEF Posted, PostFailed, LookedUp, LookUpFailed, Accept, Fail
<1>2. ASSUME NEW i \in Slots, LookUp(c, i)
      PROVE  UNCHANGED book /\ Begin({Get(c, i)}) /\ {Get(c, i)} \in SUBSET Requests
  BY <1>2, RequestsOfCalls DEF LookUp
<1>3. CASE SignerFails(c) \/ CertificateRefused(c) \/ Collect(c)
  BY <1>3 DEF SignerFails, CertificateRefused, Collect
<1>4. CASE RequestCertificate(c)
  <2>1. {Cert(c)} \in SUBSET Requests
    BY RequestsOfCalls
  <2> QED BY <1>4, <2>1 DEF RequestCertificate
<1>5. CASE SignCertified(c) \/ SignWithKey(c)
  <2>1. {Post(c, i) : i \in Slots} \in SUBSET Requests
    <3>1. \A i \in Slots : Post(c, i) \in Requests
      BY RequestsOfCalls
    <3> QED BY <3>1
  <2> QED BY <1>5, <2>1 DEF SignCertified, SignWithKey, Testify
<1> QED BY <1>1, <1>2, <1>3, <1>4, <1>5 DEF Create

LEMMA FetchStep == CreateInv /\ [Next]_vars => [FetchNext]_fetchVars
<1> SUFFICES ASSUME CreateInv, [Next]_vars PROVE FetchNext \/ UNCHANGED fetchVars
  OBVIOUS
<1>1. ASSUME NEW c \in Calls, Create(c) PROVE FetchNext \/ UNCHANGED fetchVars
  <2>1. ASSUME NEW Q \in SUBSET Requests, Begin(Q) PROVE FetchNext \/ UNCHANGED fetchVars
    <3>1. CASE Q = {}
      BY <2>1, <3>1 DEF Begin, fetchVars, CreateInv, FetchInv, FetchTypeOK
    <3>2. CASE Q # {}
      BY <2>1, <3>2 DEF FetchNext
    <3> QED BY <3>1, <3>2
  <2> QED BY <1>1, <2>1, CreateFrame
<1>2. ASSUME NEW q \in Requests, Client(q) PROVE FetchNext
  BY <1>2 DEF Client, FetchNext
<1>3. ASSUME NEW m \in wire, Serve(m) PROVE FetchNext
  BY <1>3, ServeStep DEF FetchNext
<1>4. CASE UNCHANGED vars
  BY <1>4 DEF vars
<1>5. ASSUME NEW s \in Logs, SubmittedByOthers(s) PROVE UNCHANGED fetchVars
  BY <1>5, OthersStep
<1> QED BY <1>1, <1>2, <1>3, <1>4, <1>5 DEF Next

(* The requests that create() makes are fetchWithRetry calls: it implements  *)
(* FetchRetry, and with it everything proved of FetchRetry.                *)
THEOREM CreateFetches == Spec => FetchSpec
<1>1. Init => FetchInit
  BY DEF Init
<1>2. CreateInv /\ [Next]_vars => [FetchNext]_fetchVars
  BY FetchStep
<1> QED BY <1>1, <1>2, CreateInvariant, PTL DEF Spec, FetchSpec

-----------------------------------------------------------------------------
LEMMA OutcomeStep ==
  ASSUME CreateInv, [Next]_vars, NEW c \in Calls, Settled(c)
  PROVE  stage'[c] = stage[c] /\ error'[c] = error[c] /\ bundle'[c] = bundle[c]
<1> USE DEF CreateInv, TypesInv, Settled
<1>1. ASSUME NEW d \in Calls, SignerFails(d) \/ RequestCertificate(d) \/ CertificateRefused(d)
             \/ SignCertified(d) \/ SignWithKey(d) \/ Collect(d)
      PROVE  c # d /\ stage'[c] = stage[c] /\ error'[c] = error[c] /\ bundle'[c] = bundle[c]
  <2>1. c # d
    BY <1>1 DEF SignerFails, RequestCertificate, CertificateRefused, SignCertified,
       SignWithKey, Collect
  <2>2. CASE SignerFails(d) \/ CertificateRefused(d)
    BY <2>1, <2>2 DEF SignerFails, CertificateRefused, Reject
  <2>3. CASE RequestCertificate(d) \/ SignCertified(d) \/ SignWithKey(d)
    BY <2>1, <2>3 DEF RequestCertificate, SignCertified, SignWithKey, Testify
  <2>4. CASE Collect(d)
    BY <2>1, <2>4 DEF Collect
  <2> QED BY <1>1, <2>1, <2>2, <2>3, <2>4
<1>2. ASSUME NEW d \in Calls, NEW i \in Slots, NEW code, Fail(d, i, code)
      PROVE  stage'[c] = stage[c] /\ error'[c] = error[c] /\ bundle'[c] = bundle[c]
  BY <1>2 DEF Fail, Reject
<1>3. ASSUME NEW d \in Calls, NEW i \in Slots, Posted(d, i) \/ LookUp(d, i) \/ LookedUp(d, i)
      PROVE  stage'[c] = stage[c] /\ error'[c] = error[c] /\ bundle'[c] = bundle[c]
  BY <1>3 DEF Posted, LookUp, LookedUp, Accept
<1>4. ASSUME NEW d \in Calls, Create(d)
      PROVE  stage'[c] = stage[c] /\ error'[c] = error[c] /\ bundle'[c] = bundle[c]
  BY <1>1, <1>2, <1>3, <1>4 DEF Create, PostFailed, LookUpFailed
<1>5. ASSUME NEW q \in Requests, Client(q)
      PROVE  stage'[c] = stage[c] /\ error'[c] = error[c] /\ bundle'[c] = bundle[c]
  BY <1>5 DEF Client, createVars
<1>6. ASSUME NEW m \in wire, Serve(m)
      PROVE  stage'[c] = stage[c] /\ error'[c] = error[c] /\ bundle'[c] = bundle[c]
  BY <1>6, ServeStep DEF createVars
<1>7. CASE UNCHANGED vars
  BY <1>7 DEF vars, createVars
<1>8. ASSUME NEW s \in Logs, SubmittedByOthers(s)
      PROVE  stage'[c] = stage[c] /\ error'[c] = error[c] /\ bundle'[c] = bundle[c]
  BY <1>8, OthersStep DEF createVars
<1> QED BY <1>4, <1>5, <1>6, <1>7, <1>8 DEF Next

(* What a create() has come to never changes, whatever its own witnesses     *)
(* that still run and the other calls do.                                  *)
THEOREM OutcomeIsFinalHolds == Spec => OutcomeIsFinal
<1>1. CreateInv /\ [Next]_vars =>
        [\A c \in Calls : Settled(c) =>
           stage'[c] = stage[c] /\ error'[c] = error[c] /\ bundle'[c] = bundle[c]]_vars
  BY OutcomeStep
<1> QED BY <1>1, CreateInvariant, PTL DEF Spec, OutcomeIsFinal

-----------------------------------------------------------------------------
(* With a FulcioSigner nothing uncertified is witnessed: a call asks its     *)
(* witnesses only with its certificate, which it has only from then on, and *)
(* no witness has the signature of a call that has none on record.         *)
Certified ==
  /\ \A c \in Calls : Unasked(c) => cert[c] = 0
  /\ \A c \in Calls : stage[c] = "certifying" => UseCA
  /\ UseCA => \A c \in Calls, i \in Slots : call[Post(c, i)] # "idle" => cert[c] # 0
  /\ UseCA => \A s \in Logs \cup TSAs : \A n \in DOMAIN book[s] : book[s][n].cert # 0

LEMMA CertifiedCreate ==
  ASSUME CreateInv, Certified, NEW c \in Calls, Create(c) PROVE Certified'
<1>1. UNCHANGED book
  BY CreateFrame
<1>2. CASE SignCertified(c) \/ SignWithKey(c)
  <2>1. /\ \A d \in Calls \ {c} : cert'[d] = cert[d] /\ stage'[d] = stage[d]
        /\ UseCA => cert'[c] # 0
        /\ stage'[c] = "witnessing"
    <3>1. ~ Unread(Cert(c))
      BY DEF Unread, Cert
    <3> QED BY <1>2, <3>1 DEF SignCertified, SignWithKey, Testify, CreateInv, TypesInv, Succeeded
  <2>2. \A d \in Calls \ {c}, i \in Slots : call'[Post(d, i)] = call[Post(d, i)]
    <3>1. \A d \in Calls \ {c}, i \in Slots : Post(d, i) \notin {Post(c, j) : j \in Slots}
      BY DEF Post
    <3> QED BY <1>2, <3>1, RequestsOfCalls DEF SignCertified, SignWithKey, Testify, Begin
  <2> QED BY <1>1, <2>1, <2>2 DEF Certified, Unasked
<1>3. CASE RequestCertificate(c)
  <2>1. \A d \in Calls, i \in Slots : call'[Post(d, i)] = call[Post(d, i)]
    <3>1. \A d \in Calls, i \in Slots : Post(d, i) # Cert(c)
      BY DEF Post, Cert
    <3> QED BY <1>3, <3>1, RequestsOfCalls DEF RequestCertificate, Begin
  <2>2. UseCA /\ cert' = cert /\ Unasked(c) /\ \A d \in Calls \ {c} : stage'[d] = stage[d]
    BY <1>3 DEF RequestCertificate, Unasked, CreateInv, TypesInv
  <2> QED BY <1>1, <2>1, <2>2 DEF Certified, Unasked
<1>4. ASSUME NEW i \in Slots, LookUp(c, i) PROVE Certified'
  <2>1. \A d \in Calls, j \in Slots : call'[Post(d, j)] = call[Post(d, j)]
    <3>1. \A d \in Calls, j \in Slots : Post(d, j) # Get(c, i)
      BY DEF Post, Get
    <3> QED BY <1>4, <3>1, RequestsOfCalls DEF LookUp, Begin
  <2> QED BY <1>1, <1>4, <2>1 DEF Certified, Unasked, LookUp
<1>5. ASSUME UNCHANGED <<fetchVars, cert>>,
             \A d \in Calls : stage'[d] \in {stage[d], "resolved", "rejected"}
      PROVE  Certified'
  BY <1>1, <1>5 DEF Certified, Unasked, fetchVars
<1>6. CASE SignerFails(c) \/ CertificateRefused(c) \/ Collect(c)
  <2>1. UNCHANGED <<fetchVars, cert>>
    BY <1>6 DEF SignerFails, CertificateRefused, Collect
  <2>2. \A d \in Calls : stage'[d] \in {stage[d], "resolved", "rejected"}
    BY <1>6 DEF SignerFails, CertificateRefused, Collect, Reject, CreateInv, TypesInv
  <2> QED BY <1>5, <2>1, <2>2
<1>7. ASSUME NEW i \in Slots, Posted(c, i) \/ PostFailed(c, i) \/ LookedUp(c, i) \/ LookUpFailed(c, i)
      PROVE  Certified'
  <2>1. UNCHANGED <<fetchVars, cert>>
    BY <1>7 DEF Posted, PostFailed, LookedUp, LookUpFailed, Accept, Fail
  <2>2. \A d \in Calls : stage'[d] \in {stage[d], "resolved", "rejected"}
    BY <1>7 DEF Posted, PostFailed, LookedUp, LookUpFailed, Accept, Fail, Reject, CreateInv, TypesInv
  <2> QED BY <1>5, <2>1, <2>2
<1> QED BY <1>2, <1>3, <1>4, <1>6, <1>7 DEF Create

LEMMA CertifiedServe ==
  ASSUME CreateInv, Certified, NEW m \in wire, Serve(m) PROVE Certified'
<1>1. UNCHANGED createVars /\ call' = call
  BY ServeStep DEF Deliver
<1>2. UseCA => \A s \in Logs \cup TSAs : \A n \in DOMAIN book'[s] : book'[s][n].cert # 0
  <2>1. CASE Record(m)
    <3> DEFINE q == m.req
               r == ServiceOf(q)
    <3>1. book' = [book EXCEPT ![r] = Append(@, Submission(q))] /\ q.op # "get"
      BY <2>1 DEF Record
    <3>2. q \in Requests /\ r \in Services /\ Submission(q) \in Contents /\ call[q] # "idle"
      BY ServiceOfRequest, SubmissionIsContent
         DEF CreateInv, FetchInv, FetchTypeOK, AttemptsMade, Copies
    <3>3. q.op = "cert" => r \notin Logs \cup TSAs
      BY WitnessesAssumption DEF ServiceOf
    <3>4. q.op = "post" /\ UseCA => Submission(q).cert # 0
      <4>1. q.op = "post" => q = Post(q.call, q.slot) /\ q.call \in Calls /\ q.slot \in Slots
        BY <3>2, RequestsOfCalls DEF Post, Get
      <4> QED BY <3>2, <4>1 DEF Certified, Submission, Content
    <3>5. UseCA /\ r \in Logs \cup TSAs => Submission(q).cert # 0
      BY <3>1, <3>2, <3>3, <3>4, RequestsOfCalls
    <3>6. \A s \in Logs \cup TSAs : book[s] \in Seq(Contents) /\ s \in Services
      BY DEF CreateInv, TypesInv, Services
    <3>7. \A s \in Logs \cup TSAs : \A n \in DOMAIN book'[s] :
            \/ n \in DOMAIN book[s] /\ book'[s][n] = book[s][n]
            \/ s = r /\ book'[s][n] = Submission(q)
      <4> SUFFICES ASSUME NEW s \in Logs \cup TSAs, NEW n \in DOMAIN book'[s]
                   PROVE  \/ n \in DOMAIN book[s] /\ book'[s][n] = book[s][n]
                          \/ s = r /\ book'[s][n] = Submission(q)
        OBVIOUS
      <4>1. CASE s # r
        BY <3>1, <3>2, <3>6, <4>1 DEF CreateInv, TypesInv
      <4>2. CASE s = r
        <5>1. book'[s] = Append(book[s], Submission(q))
          BY <3>1, <3>2, <3>6, <4>2 DEF CreateInv, TypesInv
        <5> HIDE DEF q, r
        <5> QED BY <5>1, <3>2, <3>6, <4>2, AppendOnly
      <4> QED BY <4>1, <4>2
    <3> QED BY <3>5, <3>7 DEF Certified
  <2>2. CASE ~ Record(m)
    <3>1. UNCHANGED book
      BY <2>2 DEF Serve, Refuse, Duplicate, Retrieve
    <3> QED BY <3>1 DEF Certified
  <2> QED BY <2>1, <2>2
<1>3. UNCHANGED <<stage, cert>>
  BY <1>1 DEF createVars
<1> QED BY <1>1, <1>2, <1>3 DEF Certified, Unasked

LEMMA CertifiedClient ==
  ASSUME CreateInv, Certified, NEW q \in Requests, Client(q) PROVE Certified'
<1>1. UNCHANGED <<stage, cert, book>>
  BY DEF Client, createVars
<1>2. \A p \in Requests : call'[p] = "idle" <=> call[p] = "idle"
  <2>1. CASE Resend(q)
    BY <2>1 DEF Resend, CreateInv, FetchInv, FetchTypeOK
  <2>2. CASE Receive(q)
    BY <2>2, EndEffect DEF Receive, CreateInv, FetchInv, FetchTypeOK
  <2>3. CASE Abort(q)
    BY <2>3, EndEffect DEF Abort, CreateInv, Answers
  <2> QED BY <2>1, <2>2, <2>3 DEF Client
<1> QED BY <1>1, <1>2, RequestsOfCalls DEF Certified, Unasked

LEMMA CertifiedInit == Init => Certified
<1> SUFFICES ASSUME Init PROVE Certified
  OBVIOUS
<1>1. \A c \in Calls : cert[c] = 0 /\ stage[c] = "new"
  BY DEF Init
<1>2. \A c \in Calls, i \in Slots : call[Post(c, i)] = "idle"
  BY RequestsOfCalls DEF Init, FetchInit
<1>3. \A s \in Logs \cup TSAs : book[s] = <<>>
  BY DEF Init, Services
<1> QED BY <1>1, <1>2, <1>3 DEF Certified

LEMMA CertifiedNext == CreateInv /\ Certified /\ [Next]_vars => Certified'
<1> SUFFICES ASSUME CreateInv, Certified, [Next]_vars PROVE Certified'
  OBVIOUS
<1>1. CASE UNCHANGED vars
  <2>1. UNCHANGED <<call, stage, cert, book>>
    BY <1>1 DEF vars, createVars, fetchVars
  <2> QED BY <2>1 DEF Certified, Unasked
<1>2. ASSUME NEW s \in Logs, SubmittedByOthers(s) PROVE Certified'
  <2>1. ~ UseCA /\ UNCHANGED <<call, stage, cert>>
    BY <1>2, OthersStep DEF createVars, fetchVars
  <2> QED BY <2>1 DEF Certified, Unasked
<1> QED BY <1>1, <1>2, CertifiedCreate, CertifiedClient, CertifiedServe DEF Next

-----------------------------------------------------------------------------
(* The refinement.  Every step lets the records grow or leaves them alone;   *)
(* the only steps that settle a call are Collect and those that Reject.    *)
LEMMA RecordsGrow ==
  ASSUME CreateInv, Certified, [Next]_vars, NEW c \in Calls
  PROVE  Recorded[c] \subseteq Recorded'[c]
<1> SUFFICES ASSUME NEW i \in Slots, Holds(Witnesses[i], Content(c))
             PROVE  Holds(Witnesses[i], Content(c))'
  BY DEF Recorded
<1>0. Witnesses[i] \in Logs \cup TSAs /\ Witnesses[i] \in Services
  BY WitnessServices DEF Services
<1>1. CASE UNCHANGED <<book, cert>>
  BY <1>1 DEF Holds, Content
<1>2. ASSUME NEW m \in wire, Serve(m) PROVE Holds(Witnesses[i], Content(c))'
  <2>1. Grows /\ UNCHANGED cert
    BY <1>2, ServeStep DEF createVars
  <2> QED BY <1>0, <2>1 DEF Grows, Holds, Content
<1>3. ASSUME NEW d \in Calls, SignCertified(d) PROVE Holds(Witnesses[i], Content(c))'
  <2>1. c # d
    BY <1>0, <1>3 DEF Holds, Content, Certified, SignCertified, Unasked
  <2> QED BY <1>3, <2>1 DEF SignCertified, Holds, Content, CreateInv, TypesInv
<1>4. ASSUME NEW d \in Calls, Create(d), ~ SignCertified(d) PROVE UNCHANGED <<book, cert>>
  <2>1. UNCHANGED cert
    BY <1>4 DEF Create, SignerFails, RequestCertificate, CertificateRefused, SignWithKey, Collect,
       Posted, PostFailed, LookUp, LookedUp, LookUpFailed, Accept, Fail
  <2> QED BY <1>4, <2>1, CreateFrame
<1>5. ASSUME NEW q \in Requests, Client(q) PROVE UNCHANGED <<book, cert>>
  BY <1>5 DEF Client, createVars
<1>6. CASE UNCHANGED vars
  BY <1>1, <1>6 DEF vars, createVars
<1>7. ASSUME NEW s \in Logs, SubmittedByOthers(s) PROVE Holds(Witnesses[i], Content(c))'
  <2>1. Grows /\ UNCHANGED cert
    BY <1>7, OthersStep DEF createVars
  <2> QED BY <1>0, <2>1 DEF Grows, Holds, Content
<1> QED BY <1>1, <1>2, <1>3, <1>4, <1>5, <1>6, <1>7 DEF Next

LEMMA OutcomeChanges ==
  ASSUME CreateInv, [Next]_vars
  PROVE  \/ Outcome' = Outcome
         \/ \E c \in Calls : Collect(c)
         \/ \E c \in Calls : /\ ~ Settled(c) /\ stage' = [stage EXCEPT ![c] = "rejected"]
                            /\ UNCHANGED <<book, cert>>
<1> USE DEF CreateInv, TypesInv
<1>1. ASSUME NEW c \in Calls, SignerFails(c) \/ CertificateRefused(c)
      PROVE  /\ ~ Settled(c) /\ stage' = [stage EXCEPT ![c] = "rejected"]
             /\ UNCHANGED <<book, cert>>
  BY <1>1 DEF SignerFails, CertificateRefused, Reject, Settled
<1>2. ASSUME NEW c \in Calls, RequestCertificate(c) \/ SignCertified(c) \/ SignWithKey(c)
      PROVE  Outcome' = Outcome
  <2>1. ~ Settled(c) /\ ~ Settled(c)' /\ \A d \in Calls \ {c} : stage'[d] = stage[d]
    BY <1>2 DEF RequestCertificate, SignCertified, SignWithKey, Testify, Settled
  <2> QED BY <2>1 DEF Outcome, Settled
<1>3. ASSUME NEW c \in Calls, NEW i \in Slots, Posted(c, i) \/ LookUp(c, i) \/ LookedUp(c, i)
      PROVE  Outcome' = Outcome
  BY <1>3 DEF Posted, LookUp, LookedUp, Accept, Outcome, Settled
<1>4. ASSUME NEW c \in Calls, NEW i \in Slots, NEW code, Fail(c, i, code)
      PROVE  \/ Outcome' = Outcome
             \/ /\ ~ Settled(c) /\ stage' = [stage EXCEPT ![c] = "rejected"]
                /\ UNCHANGED <<book, cert>>
  <2>1. CASE stage[c] = "witnessing"
    BY <1>4, <2>1 DEF Fail, Reject, Settled
  <2>2. CASE stage[c] # "witnessing"
    BY <1>4, <2>2 DEF Fail, Outcome, Settled
  <2> QED BY <2>1, <2>2
<1>5. ASSUME UNCHANGED stage PROVE Outcome' = Outcome
  BY <1>5 DEF Outcome, Settled
<1>6. ASSUME NEW q \in Requests, Client(q) PROVE UNCHANGED stage
  BY <1>6 DEF Client, createVars
<1>7. ASSUME NEW m \in wire, Serve(m) PROVE UNCHANGED stage
  BY <1>7, ServeStep DEF createVars
<1>8. CASE UNCHANGED vars
  BY <1>5, <1>8 DEF vars, createVars
<1>9. ASSUME NEW c \in Calls, Create(c)
      PROVE  \/ Outcome' = Outcome
             \/ Collect(c)
             \/ /\ ~ Settled(c) /\ stage' = [stage EXCEPT ![c] = "rejected"]
                /\ UNCHANGED <<book, cert>>
  BY <1>1, <1>2, <1>3, <1>4, <1>9 DEF Create, PostFailed, LookUpFailed
<1>10. ASSUME NEW s \in Logs, SubmittedByOthers(s) PROVE UNCHANGED stage
  BY <1>10, OthersStep DEF createVars
<1> QED BY <1>5, <1>6, <1>7, <1>8, <1>9, <1>10 DEF Next

LEMMA PromiseStep ==
  ASSUME CreateInv, Certified, [Next]_vars PROVE [Promised!Next]_Promised!vars
<1> USE DEF CreateInv, TypesInv
<1>1. CASE Outcome' = Outcome
  <2>1. Recorded' \in [Calls -> SUBSET Slots]
    BY DEF Recorded
  <2>2. \A c \in Calls : Recorded[c] \subseteq Recorded'[c]
    BY RecordsGrow
  <2> QED BY <1>1, <2>1, <2>2 DEF Promised!Next, Promised!Record
<1>2. ASSUME NEW c \in Calls, Collect(c) PROVE Promised!Resolve(c)
  <2>1. Outcome[c] = "pending" /\ Outcome' = [Outcome EXCEPT ![c] = "resolved"]
    BY <1>2 DEF Collect, Outcome, Settled
  <2>2. Recorded[c] = Slots
    BY <1>2, ZenonT(30) DEF Collect, Recorded, EvidenceIsOwn, Evidences, Holds
  <2>3. Recorded' = Recorded
    BY <1>2 DEF Collect, Recorded, Holds, Content
  <2> QED BY <2>1, <2>2, <2>3 DEF Promised!Resolve
<1>3. ASSUME NEW c \in Calls, ~ Settled(c), stage' = [stage EXCEPT ![c] = "rejected"],
             UNCHANGED <<book, cert>>
      PROVE  Promised!Reject(c)
  <2>1. Outcome[c] = "pending" /\ Outcome' = [Outcome EXCEPT ![c] = "rejected"]
    BY <1>3 DEF Outcome, Settled
  <2>2. Recorded' = Recorded
    BY <1>3 DEF Recorded, Holds, Content
  <2> QED BY <2>1, <2>2 DEF Promised!Reject
<1> QED BY <1>1, <1>2, <1>3, OutcomeChanges DEF Promised!Next

LEMMA PromiseInit == Init => Promised!Init
<1> SUFFICES ASSUME Init PROVE Promised!Init
  OBVIOUS
<1>1. Outcome = [c \in Calls |-> "pending"]
  BY DEF Init, Outcome, Settled
<1>2. \A i \in Slots : book[Witnesses[i]] = <<>>
  BY WitnessServices DEF Init, Services
<1>3. Recorded = [c \in Calls |-> {}]
  BY <1>2 DEF Recorded, Holds
<1> QED BY <1>1, <1>3 DEF Promised!Init

(* create() implements its promise: a call resolves only with its signature  *)
(* on the record of every witness, and settles once; the records only grow. *)
THEOREM KeepsPromiseHolds == Spec => KeepsPromise
<1>1. Init => Promised!Init
  BY PromiseInit
<1>2. CreateInv /\ Certified /\ [Next]_vars => [Promised!Next]_Promised!vars
  BY PromiseStep
<1>3. Spec => []Certified
  <2>1. Init => Certified
    BY CertifiedInit
  <2>2. CreateInv /\ Certified /\ [Next]_vars => Certified'
    BY CertifiedNext
  <2> QED BY <2>1, <2>2, CreateInvariant, PTL DEF Spec
<1> QED BY <1>1, <1>2, <1>3, CreateInvariant, PTL DEF Spec, KeepsPromise, Promised!Spec

-----------------------------------------------------------------------------
(* What a call was rejected with.  Of what a step of another kind does, only  *)
(* this matters: it rejects nothing, keeps how witnesses ended, and asks no   *)
(* witness of a call that was rejected before it asked any.                *)
LEMMA ExplainedStays ==
  ASSUME ErrorExplained,
         \A d \in Calls : stage'[d] = "rejected" => stage[d] = "rejected" /\ error'[d] = error[d],
         \A d \in Calls, i \in Slots : witness[d][i] \in WitnessCodes => witness'[d][i] = witness[d][i],
         \A q \in Requests : q.op # "cert" /\ stage[q.call] = "rejected"
                             /\ error[q.call] \notin WitnessCodes /\ call[q] = "idle" => call'[q] = "idle"
  PROVE  ErrorExplained'
BY DEF ErrorExplained

LEMMA ExplainedUnasked ==
  ASSUME CreateInv, ErrorExplained, NEW c \in Calls, NEW code, code \notin WitnessCodes,
         Unasked(c), Reject(c, code), UNCHANGED <<witness, call>>
  PROVE  ErrorExplained'
<1> USE DEF CreateInv, TypesInv
<1>1. ASSUME NEW q \in Requests, q.call = c, q.op # "cert" PROVE call[q] = "idle"
  <2>1. q.slot \in Slots /\ q \in {Post(c, q.slot), Get(c, q.slot)}
    BY <1>1, RequestsOfCalls
  <2>2. AskedLater
    OBVIOUS
  <2> HIDE DEF CreateInv, TypesInv
  <2>3. call[Post(c, q.slot)] = "idle" /\ call[Get(c, q.slot)] = "idle"
    BY <2>1, <2>2 DEF AskedLater
  <2> QED BY <2>1, <2>3
<1>2. /\ stage'[c] = "rejected" /\ error'[c] = code
      /\ \A d \in Calls \ {c} : stage'[d] = stage[d] /\ error'[d] = error[d]
  BY DEF Reject
<1> HIDE DEF CreateInv, TypesInv
<1> QED BY <1>1, <1>2 DEF ErrorExplained

LEMMA ExplainedFail ==
  ASSUME CreateInv, ErrorExplained, NEW c \in Calls, NEW i \in Slots, NEW code \in WitnessCodes,
         witness[c][i] \notin WitnessCodes, Fail(c, i, code)
  PROVE  ErrorExplained'
<1> USE DEF CreateInv, TypesInv
<1>1. /\ witness'[c][i] = code
      /\ \A d \in Calls, j \in Slots : witness[d][j] \in WitnessCodes => witness'[d][j] = witness[d][j]
  BY DEF Fail
<1>2. UNCHANGED call
  BY DEF Fail, fetchVars
<1>3. CASE stage[c] = "witnessing"
  <2>1. /\ stage'[c] = "rejected" /\ error'[c] = code
        /\ \A d \in Calls \ {c} : stage'[d] = stage[d] /\ error'[d] = error[d]
    BY <1>3 DEF Fail, Reject
  <2> HIDE DEF CreateInv, TypesInv
  <2>2. ASSUME NEW d \in Calls \ {c}, stage'[d] = "rejected", error'[d] \in WitnessCodes
        PROVE  \E j \in Slots : witness'[d][j] = error'[d]
    BY <1>1, <2>1, <2>2 DEF ErrorExplained
  <2>3. ASSUME NEW d \in Calls, stage'[d] = "rejected", error'[d] \notin WitnessCodes,
               NEW q \in Requests, q.call = d, q.op # "cert"
        PROVE  call'[q] = "idle"
    BY <1>2, <2>1, <2>3 DEF ErrorExplained
  <2> QED BY <1>1, <2>1, <2>2, <2>3 DEF ErrorExplained
<1>4. CASE stage[c] # "witnessing"
  <2>1. UNCHANGED <<stage, error>>
    BY <1>4 DEF Fail
  <2> HIDE DEF CreateInv, TypesInv
  <2> QED BY <1>1, <1>2, <2>1, ExplainedStays
<1> QED BY <1>3, <1>4

LEMMA ExplainedCreate ==
  ASSUME CreateInv, ErrorExplained, NEW c \in Calls, Create(c) PROVE ErrorExplained'
<1> USE DEF CreateInv, TypesInv
<1>1. CASE SignerFails(c)
  <2>1. PICK code \in IdentityCodes \cup {CACode} : Reject(c, code)
    BY <1>1 DEF SignerFails
  <2>2. Unasked(c) /\ UNCHANGED <<witness, call>> /\ code \notin WitnessCodes
    BY <1>1 DEF SignerFails, Unasked, fetchVars, WitnessCodes, IdentityCodes, CACode
  <2> QED BY <2>1, <2>2, ExplainedUnasked
<1>2. CASE CertificateRefused(c)
  <2>1. Unasked(c) /\ UNCHANGED <<witness, call>> /\ CACode \notin WitnessCodes /\ Reject(c, CACode)
    BY <1>2 DEF CertificateRefused, Unasked, fetchVars, WitnessCodes, CACode
  <2> QED BY <2>1, ExplainedUnasked
<1>3. CASE RequestCertificate(c)
  <2>1. /\ \A d \in Calls : stage'[d] = "rejected" => stage[d] = "rejected"
        /\ UNCHANGED <<error, witness>>
    BY <1>3 DEF RequestCertificate
  <2>2. \A q \in Requests : q.op # "cert" => call'[q] = call[q]
    <3>1. Cert(c).op = "cert"
      BY DEF Cert
    <3> QED BY <1>3, <3>1 DEF RequestCertificate, Begin
  <2> HIDE DEF CreateInv, TypesInv
  <2> QED BY <2>1, <2>2, ExplainedStays
<1>4. CASE SignCertified(c) \/ SignWithKey(c)
  <2>1. /\ Unasked(c) /\ UNCHANGED error /\ stage' = [stage EXCEPT ![c] = "witnessing"]
        /\ witness' = [witness EXCEPT ![c] = [i \in Slots |-> "posting"]]
        /\ Begin({Post(c, i) : i \in Slots})
    BY <1>4 DEF SignCertified, SignWithKey, Testify, Unasked
  <2>2. \A i \in Slots : witness[c][i] = "idle"
    BY <2>1 DEF AskedLater
  <2>3. \A d \in Calls, i \in Slots : witness[d][i] \in WitnessCodes => witness'[d][i] = witness[d][i]
    BY <2>1, <2>2 DEF WitnessCodes
  <2>4. \A d \in Calls : stage'[d] = "rejected" => stage[d] = "rejected" /\ error'[d] = error[d]
    BY <2>1
  <2>5. \A q \in Requests : q.call # c => call'[q] = call[q]
    <3>1. \A i \in Slots : Post(c, i).call = c
      BY DEF Post
    <3> QED BY <2>1, <3>1 DEF Begin
  <2>6. stage[c] # "rejected"
    BY <2>1 DEF Unasked
  <2> HIDE DEF CreateInv, TypesInv
  <2> QED BY <2>3, <2>4, <2>5, <2>6, ExplainedStays
<1>5. CASE Collect(c)
  <2>1. /\ \A d \in Calls : stage'[d] = "rejected" => stage[d] = "rejected"
        /\ UNCHANGED <<error, witness, call>>
    BY <1>5 DEF Collect, fetchVars
  <2> HIDE DEF CreateInv, TypesInv
  <2> QED BY <2>1, ExplainedStays
<1>6. ASSUME NEW i \in Slots, Posted(c, i) \/ LookedUp(c, i) PROVE ErrorExplained'
  <2>1. witness[c][i] \in {"posting", "getting"} /\ witness' = [witness EXCEPT ![c][i] = "ok"]
        /\ UNCHANGED <<stage, error, call>>
    BY <1>6 DEF Posted, LookedUp, Accept, fetchVars
  <2>2. \A d \in Calls, j \in Slots : witness[d][j] \in WitnessCodes => witness'[d][j] = witness[d][j]
    BY <2>1 DEF WitnessCodes
  <2> HIDE DEF CreateInv, TypesInv
  <2> QED BY <2>1, <2>2, ExplainedStays
<1>7. ASSUME NEW i \in Slots, LookUp(c, i) PROVE ErrorExplained'
  <2>1. witness[c][i] = "posting" /\ witness' = [witness EXCEPT ![c][i] = "getting"]
        /\ UNCHANGED <<stage, error>> /\ Begin({Get(c, i)}) /\ call[Post(c, i)] # "idle"
    BY <1>7 DEF LookUp, LooksUp, Conflict
  <2>2. \A d \in Calls, j \in Slots : witness[d][j] \in WitnessCodes => witness'[d][j] = witness[d][j]
    BY <2>1 DEF WitnessCodes
  <2>3. \A q \in Requests : q.call # c => call'[q] = call[q]
    <3>1. Get(c, i).call = c
      BY DEF Get
    <3> QED BY <2>1, <3>1 DEF Begin
  <2>4. ~ (stage[c] = "rejected" /\ error[c] \notin WitnessCodes)
    <3>1. Post(c, i) \in Requests /\ Post(c, i).call = c /\ Post(c, i).op # "cert"
      BY RequestsOfCalls DEF Post
    <3> QED BY <2>1, <3>1 DEF ErrorExplained
  <2> HIDE DEF CreateInv, TypesInv
  <2> QED BY <2>1, <2>2, <2>3, <2>4, ExplainedStays
<1>8. ASSUME NEW i \in Slots, PostFailed(c, i) \/ LookUpFailed(c, i) PROVE ErrorExplained'
  <2>1. PICK code \in WitnessCodes : Fail(c, i, code)
    BY <1>8 DEF PostFailed, LookUpFailed, CreateCode, MisreadCodes, WitnessCodes
  <2>2. witness[c][i] \notin WitnessCodes
    BY <1>8 DEF PostFailed, LookUpFailed, WitnessCodes
  <2> QED BY <2>1, <2>2, ExplainedFail
<1> QED BY <1>1, <1>2, <1>3, <1>4, <1>5, <1>6, <1>7, <1>8 DEF Create

LEMMA IdleStaysIdle ==
  ASSUME CreateInv, NEW q \in Requests, Client(q)
  PROVE  \A p \in Requests : call[p] = "idle" => call'[p] = "idle"
<1>1. CASE Resend(q)
  BY <1>1 DEF Resend, CreateInv, FetchInv, FetchTypeOK
<1>2. CASE Receive(q) \/ Abort(q)
  BY <1>2 DEF Receive, Abort, End, CreateInv, FetchInv, FetchTypeOK
<1> QED BY <1>1, <1>2 DEF Client

LEMMA ExplainedNext == CreateInv /\ ErrorExplained /\ [Next]_vars => ErrorExplained'
<1> SUFFICES ASSUME CreateInv, ErrorExplained, [Next]_vars PROVE ErrorExplained'
  OBVIOUS
<1>1. ASSUME UNCHANGED <<stage, error, witness>>,
             \A q \in Requests : call[q] = "idle" => call'[q] = "idle"
      PROVE  ErrorExplained'
  BY <1>1, ExplainedStays
<1>2. ASSUME NEW q \in Requests, Client(q) PROVE ErrorExplained'
  BY <1>1, <1>2, IdleStaysIdle DEF Client, createVars
<1>3. ASSUME NEW m \in wire, Serve(m) PROVE ErrorExplained'
  <2>1. UNCHANGED createVars /\ UNCHANGED call
    BY <1>3, ServeStep DEF Deliver
  <2> QED BY <1>1, <2>1 DEF createVars
<1>4. CASE UNCHANGED vars
  BY <1>1, <1>4 DEF vars, createVars, fetchVars
<1>5. ASSUME NEW s \in Logs, SubmittedByOthers(s) PROVE ErrorExplained'
  <2>1. UNCHANGED <<stage, error, witness, call>>
    BY <1>5, OthersStep DEF createVars, fetchVars
  <2> QED BY <1>1, <2>1
<1> QED BY <1>2, <1>3, <1>4, <1>5, ExplainedCreate DEF Next

(* The code a create() rejects with is that of the witness that failed, or of *)
(* the signer, and then no witness of it was or will be asked (error.ts).   *)
THEOREM ErrorExplainedHolds == Spec => []ErrorExplained
<1>1. Init => ErrorExplained
  BY DEF Init, ErrorExplained
<1> QED BY <1>1, ExplainedNext, CreateInvariant, PTL DEF Spec

-----------------------------------------------------------------------------
(* A witness that could not create its entry has its answer, and it is no      *)
(* conflict that it could have looked up.  The answer is its last.         *)
NoConflictLeft ==
  \A c \in Calls : \A i \in Slots : witness[c][i] = "TLOG_CREATE_ENTRY_ERROR" =>
    /\ call[Post(c, i)] \in {"ok", "failed"}
    /\ FetchOnConflict => ~ Conflict(Post(c, i))

LEMMA WitnessSet ==
  ASSUME TypesInv, NEW d, NEW j, NEW x, witness' = [witness EXCEPT ![d][j] = x],
         NEW c \in Calls, NEW i \in Slots
  PROVE  witness'[c][i] = IF d = c /\ j = i THEN x ELSE witness[c][i]
BY DEF TypesInv

LEMMA CreateErrorOnly ==
  ASSUME CreateInv, [Next]_vars, NEW c \in Calls, NEW i \in Slots,
         witness'[c][i] = "TLOG_CREATE_ENTRY_ERROR", witness[c][i] # "TLOG_CREATE_ENTRY_ERROR"
  PROVE  PostFailed(c, i)
<1>0. TypesInv
  BY DEF CreateInv
<1>1. ~ UNCHANGED witness
  OBVIOUS
<1>2. ASSUME NEW d \in Calls, Create(d) PROVE PostFailed(c, i)
  <2>1. ASSUME SignCertified(d) \/ SignWithKey(d) PROVE FALSE
    <3>1. witness' = [witness EXCEPT ![d] = [j \in Slots |-> "posting"]]
      BY <2>1 DEF SignCertified, SignWithKey, Testify
    <3> QED BY <3>1
  <2>2. ASSUME NEW j \in Slots, Posted(d, j) \/ LookedUp(d, j) \/ LookUp(d, j) PROVE FALSE
    <3>1. PICK x \in {"ok", "getting"} : witness' = [witness EXCEPT ![d][j] = x]
      BY <2>2 DEF Posted, LookedUp, LookUp, Accept
    <3>2. witness'[c][i] = IF d = c /\ j = i THEN x ELSE witness[c][i]
      BY <1>0, <3>1, WitnessSet
    <3> QED BY <3>2
  <2>3. ASSUME NEW j \in Slots, LookUpFailed(d, j) PROVE FALSE
    <3>1. PICK x \in {"TLOG_FETCH_ENTRY_ERROR", "UNCODED"} : witness' = [witness EXCEPT ![d][j] = x]
      BY <2>3 DEF LookUpFailed, Fail, MisreadCodes
    <3>2. witness'[c][i] = IF d = c /\ j = i THEN x ELSE witness[c][i]
      BY <1>0, <3>1, WitnessSet
    <3> QED BY <3>2
  <2>4. ASSUME NEW j \in Slots, PostFailed(d, j) PROVE PostFailed(c, i)
    <3>1. d = c /\ j = i
      <4>1. PICK x : witness' = [witness EXCEPT ![d][j] = x]
        BY <2>4 DEF PostFailed, Fail
      <4>2. witness'[c][i] = IF d = c /\ j = i THEN x ELSE witness[c][i]
        BY <1>0, <4>1, WitnessSet
      <4> QED BY <4>2
    <3> QED BY <2>4, <3>1
  <2> QED BY <1>1, <1>2, <2>1, <2>2, <2>3, <2>4
        DEF Create, SignerFails, RequestCertificate, CertificateRefused, Collect
<1>3. ASSUME NEW q \in Requests, Client(q) PROVE FALSE
  BY <1>1, <1>3 DEF Client, createVars
<1>4. ASSUME NEW m \in wire, Serve(m) PROVE FALSE
  BY <1>1, <1>4, ServeStep DEF createVars
<1>5. ~ UNCHANGED vars
  BY <1>1 DEF vars, createVars
<1>6. ASSUME NEW s \in Logs, SubmittedByOthers(s) PROVE FALSE
  BY <1>1, <1>6, OthersStep DEF createVars
<1> QED BY <1>2, <1>3, <1>4, <1>5, <1>6 DEF Next

LEMMA NoConflictNext == CreateInv /\ NoConflictLeft /\ [Next]_vars => NoConflictLeft'
<1> SUFFICES ASSUME CreateInv, NoConflictLeft, [Next]_vars, NEW c \in Calls, NEW i \in Slots,
                    witness'[c][i] = "TLOG_CREATE_ENTRY_ERROR"
             PROVE  /\ call'[Post(c, i)] \in {"ok", "failed"}
                    /\ FetchOnConflict => ~ Conflict(Post(c, i))'
  BY DEF NoConflictLeft
<1> DEFINE q == Post(c, i)
<1>0. q \in Requests
  BY RequestsOfCalls
<1>1. CASE witness[c][i] = "TLOG_CREATE_ENTRY_ERROR"
  <2>1. call[q] \in {"ok", "failed"} /\ (FetchOnConflict => ~ Conflict(q))
    BY <1>1 DEF NoConflictLeft
  <2>2. call'[q] = call[q] /\ result'[q] = result[q]
    BY <1>0, <2>1, FetchStep, SettlesOnceStep DEF CreateInv
  <2> QED BY <2>1, <2>2 DEF Conflict
<1>2. CASE witness[c][i] # "TLOG_CREATE_ENTRY_ERROR"
  <2>1. PostFailed(c, i)
    BY <1>2, CreateErrorOnly
  <2>2. UNCHANGED <<call, result>>
    BY <2>1 DEF PostFailed, Fail, fetchVars
  <2>3. call[q] \in {"ok", "failed"} /\ ~ LooksUp(c, i)
    BY <2>1 DEF PostFailed, Unusable
  <2>4. CreateCode(i) = "TLOG_CREATE_ENTRY_ERROR"
    <3>1. PICK code \in {CreateCode(i)} \cup MisreadCodes(i, q) : Fail(c, i, code)
      BY <2>1 DEF PostFailed
    <3>2. code = "TLOG_CREATE_ENTRY_ERROR"
      BY <3>1 DEF Fail, CreateInv, TypesInv
    <3> QED BY <3>1, <3>2 DEF MisreadCodes
  <2>5. Witnesses[i] \in Logs
    BY <2>4 DEF CreateCode
  <2> QED BY <2>2, <2>3, <2>5 DEF LooksUp, Conflict
<1> QED BY <1>1, <1>2

(* A log that says where the entry is that it already has never makes a        *)
(* create() with fetchOnConflict fail for it (tlog/client.ts:52-66).        *)
THEOREM ConflictIsRecoveredHolds == Spec => []ConflictIsRecovered
<1>1. Init => NoConflictLeft
  <2>1. Init => witness = [c \in Calls |-> [i \in Slots |-> "idle"]]
    BY DEF Init
  <2>2. Init => \A c \in Calls : \A i \in Slots : witness[c][i] = "idle"
    BY <2>1
  <2> QED BY <2>2 DEF NoConflictLeft
<1>2. NoConflictLeft => ConflictIsRecovered
  BY DEF NoConflictLeft, ConflictIsRecovered
<1> QED BY <1>1, <1>2, NoConflictNext, CreateInvariant, PTL DEF Spec

-----------------------------------------------------------------------------
(* The places of some of the witnesses, in their order: each of them once.  *)
Ordered(place, n, P) ==
  /\ place \in [1 .. n -> P] /\ {place[k] : k \in 1 .. n} = P
  /\ \A j, k \in 1 .. n : j < k => place[j] < place[k]

LEMMA SlotsInOrder == ASSUME NEW S PROVE Ordered(SlotsIn(S), Cardinality(SlotsOf(S)), SlotsOf(S))
<1> DEFINE P == SlotsOf(S)
           n == Cardinality(P)
           upTo(i) == P \cap 1 .. i
           rank == [i \in P |-> Cardinality(upTo(i))]
           place == SlotsIn(S)
<1>1. P \subseteq Slots /\ Slots = 1 .. Len(Witnesses) /\ Len(Witnesses) \in Nat
  BY WitnessesAssumption DEF Slots, SlotsOf
<1>2. IsFiniteSet(P) /\ n \in Nat
  <2>1. IsFiniteSet(Slots)
    BY <1>1, FS_Interval
  <2> QED BY <1>1, <2>1, FS_Subset, FS_CardinalityType
<1>3. place = [k \in 1 .. n |-> CHOOSE i \in P : Cardinality(upTo(i)) = k]
  BY DEF SlotsIn
<1>0. \A i \in P : i \in Int
  BY <1>1
<1> HIDE DEF P
<1>4. ASSUME NEW i \in P PROVE IsFiniteSet(upTo(i)) /\ Cardinality(upTo(i)) \in 1 .. n
  <2>1. upTo(i) \in SUBSET P /\ i \in upTo(i)
    BY <1>1
  <2> DEFINE T == upTo(i)
  <2> HIDE DEF upTo, T
  <2>2. IsFiniteSet(T) /\ Cardinality(T) <= n /\ Cardinality(T) \in Nat /\ Cardinality(T) # 0
    <3>1. T \in SUBSET P /\ T # {}
      BY <2>1 DEF T
    <3>2. IsFiniteSet(T) /\ Cardinality(T) <= n
      BY <1>2, <3>1, FS_Subset
    <3> QED BY <3>1, <3>2, FS_CardinalityType, FS_EmptySet
  <2> DEFINE t == Cardinality(T)
  <2> HIDE DEF n
  <2>3. t \in 1 .. n
    <3> HIDE DEF t
    <3> QED BY <1>2, <2>2 DEF t
  <2> QED BY <2>2, <2>3 DEF T
<1>5. ASSUME NEW i \in P, NEW j \in P, i < j PROVE rank[i] < rank[j]
  <2>1. upTo(i) \in SUBSET upTo(j) /\ j \in upTo(j) /\ j \notin upTo(i)
    BY <1>1, <1>5
  <2>2. IsFiniteSet(upTo(i)) /\ IsFiniteSet(upTo(j))
    BY <1>4
  <2> DEFINE T == upTo(i)
             U == upTo(j)
             t == Cardinality(T)
             u == Cardinality(U)
  <2>5. rank[i] = t /\ rank[j] = u
    OBVIOUS
  <2> HIDE DEF T, U
  <2>3. t <= u /\ t # u
    BY <2>1, <2>2, FS_Subset DEF T, U
  <2>4. t \in Nat /\ u \in Nat
    BY <2>2, FS_CardinalityType DEF T, U
  <2> HIDE DEF t, u, rank
  <2> QED BY <2>3, <2>4, <2>5
<1>6. rank \in [P -> 1 .. n]
  BY <1>4
<1>7. \A k \in 1 .. n : \E i \in P : rank[i] = k
  <2>1. ASSUME NEW i \in P, NEW j \in P, rank[i] = rank[j] PROVE i = j
    <3>1. i \in Int /\ j \in Int /\ rank[i] \in Int /\ rank[j] \in Int
      BY <1>1, <1>6
    <3> HIDE DEF rank
    <3> QED BY <1>5, <2>1, <3>1
  <2>2. rank \in Injection(P, 1 .. n)
    <3> HIDE DEF rank
    <3> QED BY <1>6, <2>1 DEF Injection, IsInjective
  <2>3. IsFiniteSet(1 .. n) /\ Cardinality(1 .. n) = n
    BY <1>2, FS_Interval
  <2>4. rank \in Surjection(P, 1 .. n)
    <3> HIDE DEF rank
    <3> QED BY <2>2, <2>3, FS_Injection
  <2> HIDE DEF rank
  <2> QED BY <2>4 DEF Surjection
<1>8. ASSUME NEW k \in 1 .. n PROVE place[k] \in P /\ rank[place[k]] = k
  <2>1. \E i \in P : Cardinality(upTo(i)) = k
    BY <1>7
  <2>2. place[k] = CHOOSE i \in P : Cardinality(upTo(i)) = k
    BY <1>3
  <2> HIDE DEF place
  <2>3. place[k] \in P /\ Cardinality(upTo(place[k])) = k
    <3> HIDE DEF upTo
    <3> QED BY <2>1, <2>2
  <2> QED BY <2>3
<1>9. place \in [1 .. n -> P]
  BY <1>3, <1>8
<1> HIDE DEF rank, place
<1>10. ASSUME NEW j \in 1 .. n, NEW k \in 1 .. n, j < k PROVE place[j] < place[k]
  <2> DEFINE x == place[j]
             y == place[k]
  <2>1. x \in P /\ y \in P /\ rank[x] = j /\ rank[y] = k
    BY <1>8
  <2>2. x \in Int /\ y \in Int
    BY <1>0, <2>1
  <2> HIDE DEF x, y
  <2>3. ~ (y < x) /\ x # y
    BY <1>5, <1>10, <2>1
  <2>4. x < y
    BY <2>2, <2>3
  <2> QED BY <2>4 DEF x, y
<1>11. ASSUME NEW i \in P PROVE \E k \in 1 .. n : place[k] = i
  <2> DEFINE k == rank[i]
             x == place[k]
  <2>1. k \in 1 .. n
    BY <1>6
  <2>2. x \in P /\ rank[x] = k
    BY <1>8, <2>1
  <2>3. x \in Int /\ i \in Int
    BY <1>0, <2>2
  <2>4. k \in Int
    BY <2>1
  <2> HIDE DEF k
  <2>6. ~ (x < i) /\ ~ (i < x)
    <3>1. rank[i] = k
      BY DEF k
    <3> HIDE DEF x
    <3> QED BY <1>5, <2>2, <2>4, <3>1
  <2> HIDE DEF x
  <2>5. x = i
    BY <2>3, <2>6
  <2> QED BY <2>1, <2>5 DEF x
<1>12. {place[k] : k \in 1 .. n} = P
  BY <1>8, <1>11
<1> QED BY <1>9, <1>10, <1>12 DEF Ordered, place, P

-----------------------------------------------------------------------------
(* What a bundle has from the witnesses in S.                               *)
Witnessed(c, es, S) ==
  \E place \in [DOMAIN es -> SlotsOf(S)] :
    /\ {place[k] : k \in DOMAIN es} = SlotsOf(S)
    /\ \A j, k \in DOMAIN es : j < k => place[j] < place[k]
    /\ \A k \in DOMAIN es :
         /\ es[k].from = Witnesses[place[k]]
         /\ Evidences(es[k].from, es[k].at, [of |-> Artifact[c], cert |-> bundle[c].certificate])

(* A call that has come to its witnesses has a certificate for the key of its *)
(* holder, and what it resolves to has what all of them returned.           *)
CertificateIsOwn ==
  UseCA => \A c \in Calls : stage[c] \in {"witnessing", "resolved"} =>
    cert[c] \in DOMAIN book[CA] /\ book[CA][cert[c]].of = HolderKey
BundleIsOfCall(c) ==
  /\ bundle[c].certificate = cert[c]
  /\ Witnessed(c, bundle[c].tlogEntries, Logs) /\ Witnessed(c, bundle[c].timestamps, TSAs)
BundlesInv == CertificateIsOwn /\ \A c \in Calls : stage[c] = "resolved" => BundleIsOfCall(c)

LEMMA CollectedWitnessed ==
  ASSUME CreateInv, NEW c \in Calls, \A i \in Slots : witness[c][i] = "ok", NEW S,
         bundle'[c].certificate = cert[c], UNCHANGED book, NEW es, es = Collected(c, S)
  PROVE  Witnessed(c, es, S)'
<1> DEFINE place == SlotsIn(S)
           n == Cardinality(SlotsOf(S))
<1>1. Ordered(place, n, SlotsOf(S))
  BY SlotsInOrder
<1>2. DOMAIN es = 1 .. n /\ \A k \in 1 .. n :
        es[k] = [from |-> Witnesses[place[k]], at |-> material[c][place[k]]]
  BY <1>1 DEF Collected, Ordered
<1> HIDE DEF place, n
<1>3. ASSUME NEW k \in 1 .. n
      PROVE  /\ es[k].from = Witnesses[place[k]]
             /\ Evidences(es[k].from, es[k].at, [of |-> Artifact[c], cert |-> cert[c]])
  <2>1. place[k] \in Slots
    BY <1>1 DEF Ordered, SlotsOf
  <2>2. es[k].from = Witnesses[place[k]] /\ es[k].at = material[c][place[k]]
    BY <1>2
  <2> QED BY <2>1, <2>2 DEF CreateInv, EvidenceIsOwn, Content
<1>4. /\ place \in [DOMAIN es -> SlotsOf(S)] /\ {place[k] : k \in DOMAIN es} = SlotsOf(S)
      /\ \A j, k \in DOMAIN es : j < k => place[j] < place[k]
  BY <1>1, <1>2 DEF Ordered
<1>5. \A k \in DOMAIN es :
        /\ es[k].from = Witnesses[place[k]]
        /\ Evidences(es[k].from, es[k].at, [of |-> Artifact[c], cert |-> bundle[c].certificate])'
  BY <1>2, <1>3 DEF Evidences, Holds
<1> QED BY <1>4, <1>5 DEF Witnessed

LEMMA WitnessedStays ==
  ASSUME NEW c, NEW es, NEW S, Witnessed(c, es, S), Grows, S \subseteq Services, bundle'[c] = bundle[c]
  PROVE  Witnessed(c, es, S)'
<1>1. PICK place \in [DOMAIN es -> SlotsOf(S)] :
        /\ {place[k] : k \in DOMAIN es} = SlotsOf(S)
        /\ \A j, k \in DOMAIN es : j < k => place[j] < place[k]
        /\ \A k \in DOMAIN es :
             /\ es[k].from = Witnesses[place[k]]
             /\ Evidences(es[k].from, es[k].at, [of |-> Artifact[c], cert |-> bundle[c].certificate])
  BY DEF Witnessed
<1>2. ASSUME NEW k \in DOMAIN es
      PROVE  Evidences(es[k].from, es[k].at, [of |-> Artifact[c], cert |-> bundle[c].certificate])'
  <2>1. es[k].from \in Services
    BY <1>1 DEF SlotsOf
  <2> QED BY <1>1, <2>1 DEF Evidences, Holds, Grows
<1> QED BY <1>1, <1>2 DEF Witnessed

(* Of a step that resolves no call, only this matters.                      *)
LEMMA BundlesStay ==
  ASSUME BundlesInv, Grows,
         \A d \in Calls : stage'[d] \in {"witnessing", "resolved"} =>
           stage[d] = stage'[d] /\ cert'[d] = cert[d] /\ bundle'[d] = bundle[d]
  PROVE  BundlesInv'
<1>1. CertificateIsOwn'
  BY DEF BundlesInv, CertificateIsOwn, Grows, Services
<1>2. ASSUME NEW d \in Calls, stage'[d] = "resolved" PROVE BundleIsOfCall(d)'
  <2>1. BundleIsOfCall(d) /\ cert'[d] = cert[d] /\ bundle'[d] = bundle[d]
    BY <1>2 DEF BundlesInv
  <2>2. Logs \subseteq Services /\ TSAs \subseteq Services
    BY DEF Services
  <2>3. Witnessed(d, bundle[d].tlogEntries, Logs)' /\ Witnessed(d, bundle[d].timestamps, TSAs)'
    BY <2>1, <2>2, WitnessedStays DEF BundleIsOfCall
  <2> QED BY <2>1, <2>3 DEF BundleIsOfCall
<1> QED BY <1>1, <1>2 DEF BundlesInv

LEMMA BundlesCollect ==
  ASSUME CreateInv, BundlesInv, NEW c \in Calls, Collect(c) PROVE BundlesInv'
<1> USE DEF CreateInv, TypesInv
<1>1. /\ stage[c] = "witnessing" /\ stage'[c] = "resolved" /\ UNCHANGED <<cert, book>>
      /\ bundle'[c] = Bundled(c) /\ \A i \in Slots : witness[c][i] = "ok"
      /\ \A d \in Calls \ {c} : stage'[d] = stage[d] /\ bundle'[d] = bundle[d]
  BY DEF Collect
<1>2. CertificateIsOwn'
  BY <1>1 DEF BundlesInv, CertificateIsOwn
<1>3. BundleIsOfCall(c)'
  <2>1. /\ bundle'[c].certificate = cert[c] /\ bundle'[c].tlogEntries = Collected(c, Logs)
        /\ bundle'[c].timestamps = Collected(c, TSAs)
    <3>1. bundle'[c] = Bundled(c)
      BY <1>1
    <3> HIDE DEF CreateInv, TypesInv
    <3> QED BY <3>1 DEF Bundled
  <2>2. Witnessed(c, bundle[c].tlogEntries, Logs)' /\ Witnessed(c, bundle[c].timestamps, TSAs)'
    BY <1>1, <2>1, CollectedWitnessed
  <2> QED BY <1>1, <2>1, <2>2 DEF BundleIsOfCall
<1>4. ASSUME NEW d \in Calls, d # c, stage'[d] = "resolved" PROVE BundleIsOfCall(d)'
  <2>1. BundleIsOfCall(d) /\ bundle'[d] = bundle[d] /\ UNCHANGED <<cert, book>>
    BY <1>1, <1>4 DEF BundlesInv
  <2>2. Logs \subseteq Services /\ TSAs \subseteq Services /\ Grows
    BY <2>1 DEF Services, Grows
  <2>3. Witnessed(d, bundle[d].tlogEntries, Logs)' /\ Witnessed(d, bundle[d].timestamps, TSAs)'
    BY <2>1, <2>2, WitnessedStays DEF BundleIsOfCall
  <2> QED BY <2>1, <2>3 DEF BundleIsOfCall
<1> QED BY <1>2, <1>3, <1>4 DEF BundlesInv

LEMMA BundlesCreate ==
  ASSUME CreateInv, BundlesInv, NEW c \in Calls, Create(c) PROVE BundlesInv'
<1> USE DEF CreateInv, TypesInv
<1>1. UNCHANGED book /\ Grows
  BY CreateFrame DEF Grows
<1>2. CASE Collect(c)
  BY <1>2, BundlesCollect
<1>3. CASE SignCertified(c)
  <2>1. /\ stage'[c] = "witnessing" /\ cert'[c] = result[Cert(c)].body /\ result[Cert(c)].body # 0
        /\ UNCHANGED bundle /\ \A d \in Calls \ {c} : stage'[d] = stage[d] /\ cert'[d] = cert[d]
    <3>1. ~ Unread(Cert(c))
      BY DEF Unread, Cert
    <3> QED BY <1>3, <3>1 DEF SignCertified, Testify, Succeeded
  <2>2. cert'[c] \in DOMAIN book[CA] /\ book[CA][cert'[c]].of = HolderKey
    <3>1. Cert(c) \in Requests /\ ServiceOf(Cert(c)) = CA
          /\ Submission(Cert(c)) = [of |-> HolderKey, cert |-> 0]
      BY RequestsOfCalls DEF Cert, ServiceOf, Submission
    <3>2. Honest(Cert(c), result[Cert(c)])
      BY <3>1 DEF AnswersHonest
    <3> DEFINE a == result[Cert(c)]
    <3> HIDE DEF a
    <3>3. a.body # 0 => a.body \in DOMAIN book[CA] /\ book[CA][a.body].of = HolderKey
      <4>1. a.body # 0 => a.body \in DOMAIN book[CA]
                          /\ book[CA][a.body] = [of |-> HolderKey, cert |-> 0]
        BY <3>1, <3>2 DEF Honest, a
      <4> HIDE DEF CreateInv, TypesInv
      <4> QED BY <4>1
    <3> QED BY <2>1, <3>3 DEF a
  <2>3. CertificateIsOwn'
    BY <1>1, <2>1, <2>2 DEF BundlesInv, CertificateIsOwn
  <2>4. ASSUME NEW d \in Calls, stage'[d] = "resolved" PROVE BundleIsOfCall(d)'
    <3>1. d # c /\ BundleIsOfCall(d) /\ bundle'[d] = bundle[d] /\ cert'[d] = cert[d]
      BY <2>1, <2>4 DEF BundlesInv
    <3>2. Logs \subseteq Services /\ TSAs \subseteq Services
      BY DEF Services
    <3>3. Witnessed(d, bundle[d].tlogEntries, Logs)' /\ Witnessed(d, bundle[d].timestamps, TSAs)'
      BY <1>1, <3>1, <3>2, WitnessedStays DEF BundleIsOfCall
    <3> QED BY <3>1, <3>3 DEF BundleIsOfCall
  <2> QED BY <2>3, <2>4 DEF BundlesInv
<1>4. CASE SignWithKey(c)
  <2>1. /\ ~ UseCA /\ stage'[c] = "witnessing" /\ UNCHANGED <<cert, bundle>>
        /\ \A d \in Calls \ {c} : stage'[d] = stage[d]
    BY <1>4 DEF SignWithKey, Testify
  <2>2. ASSUME NEW d \in Calls, stage'[d] = "resolved" PROVE BundleIsOfCall(d)'
    <3>1. BundleIsOfCall(d) /\ bundle'[d] = bundle[d] /\ cert'[d] = cert[d]
      BY <2>1, <2>2 DEF BundlesInv
    <3>2. Logs \subseteq Services /\ TSAs \subseteq Services
      BY DEF Services
    <3>3. Witnessed(d, bundle[d].tlogEntries, Logs)' /\ Witnessed(d, bundle[d].timestamps, TSAs)'
      BY <1>1, <3>1, <3>2, WitnessedStays DEF BundleIsOfCall
    <3> QED BY <3>1, <3>3 DEF BundleIsOfCall
  <2> QED BY <2>1, <2>2 DEF BundlesInv, CertificateIsOwn
<1>5. ASSUME UNCHANGED <<cert, bundle>>,
             \A d \in Calls : stage'[d] = stage[d] \/ stage'[d] \in {"certifying", "rejected"}
      PROVE  BundlesInv'
  BY <1>1, <1>5, BundlesStay
<1>6. CASE SignerFails(c) \/ RequestCertificate(c) \/ CertificateRefused(c)
  BY <1>5, <1>6 DEF SignerFails, RequestCertificate, CertificateRefused, Reject
<1>7. ASSUME NEW i \in Slots, Posted(c, i) \/ LookUp(c, i) \/ LookedUp(c, i) PROVE BundlesInv'
  BY <1>5, <1>7 DEF Posted, LookUp, LookedUp, Accept
<1>8. ASSUME NEW i \in Slots, PostFailed(c, i) \/ LookUpFailed(c, i) PROVE BundlesInv'
  BY <1>5, <1>8 DEF PostFailed, LookUpFailed, Fail, Reject
<1> QED BY <1>2, <1>3, <1>4, <1>6, <1>7, <1>8 DEF Create

LEMMA BundlesNext == CreateInv /\ BundlesInv /\ [Next]_vars => BundlesInv'
<1> SUFFICES ASSUME CreateInv, BundlesInv, [Next]_vars PROVE BundlesInv'
  OBVIOUS
<1>1. ASSUME UNCHANGED <<stage, cert, bundle>>, Grows PROVE BundlesInv'
  BY <1>1, BundlesStay
<1>2. ASSUME NEW q \in Requests, Client(q) PROVE BundlesInv'
  BY <1>1, <1>2 DEF Client, createVars, Grows
<1>3. ASSUME NEW m \in wire, Serve(m) PROVE BundlesInv'
  BY <1>1, <1>3, ServeStep DEF createVars
<1>4. CASE UNCHANGED vars
  BY <1>1, <1>4 DEF vars, createVars, Grows
<1>5. ASSUME NEW s \in Logs, SubmittedByOthers(s) PROVE BundlesInv'
  BY <1>1, <1>5, OthersStep DEF createVars
<1> QED BY <1>2, <1>3, <1>4, <1>5, BundlesCreate DEF Next

(* A bundle has the evidence of every witness, in their order, each about the *)
(* signature under the certificate in the bundle, which is for the key that  *)
(* signed (base.ts:58-87).                                                 *)
THEOREM BundleCompleteHolds == Spec => []BundleComplete
<1>1. Init => BundlesInv
  BY DEF Init, BundlesInv, CertificateIsOwn
<1>2. ASSUME BundlesInv PROVE BundleComplete
  <2> SUFFICES ASSUME NEW c \in Calls, stage[c] = "resolved"
               PROVE  /\ UseCA => /\ bundle[c].certificate \in DOMAIN book[CA]
                                  /\ book[CA][bundle[c].certificate].of = HolderKey
                      /\ Witnessed(c, bundle[c].tlogEntries, Logs)
                      /\ Witnessed(c, bundle[c].timestamps, TSAs)
    BY DEF BundleComplete, Witnessed
  <2>1. BundleIsOfCall(c)
    BY <1>2 DEF BundlesInv
  <2>2. UseCA => cert[c] \in DOMAIN book[CA] /\ book[CA][cert[c]].of = HolderKey
    BY <1>2 DEF BundlesInv, CertificateIsOwn
  <2> QED BY <2>1, <2>2 DEF BundleIsOfCall
<1> QED BY <1>1, <1>2, BundlesNext, CreateInvariant, PTL DEF Spec
=============================
