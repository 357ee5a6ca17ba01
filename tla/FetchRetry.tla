----------------------------- MODULE FetchRetry -----------------------------
(***************************************************************************)
(* fetchWithRetry (packages/sign/src/external/fetch.ts), the HTTP client    *)
(* under the Fulcio, Rekor and timestamp authority clients, with the wire   *)
(* between it and the services.                                            *)
(*                                                                         *)
(* A request is sent up to Retries + 1 times.  Every attempt is a copy of   *)
(* its own on the wire: an attempt the client has given up on (a timeout)   *)
(* may still reach the service, and act there, while a later attempt or     *)
(* nothing at all is waiting for an answer.  Only an answer to the attempt  *)
(* being awaited is ever seen by the client.                               *)
(***************************************************************************)
EXTENDS Integers

CONSTANTS
  Requests,   \* the fetchWithRetry calls of the system, each made at most once
  Retries,    \* retries allowed, as retryOpts normalises the "retry" option
  Statuses,   \* the HTTP statuses the services answer with
  Bodies      \* what an answer can identify; 0: nothing usable

ASSUME RetriesAssumption == Retries \in Nat
ASSUME AnswersAssumption == Statuses \subseteq 200 .. 599 /\ Bodies \subseteq Nat

VARIABLES
  call,       \* call[q]: where the promise of request q stands
  attempt,    \* attempt[q]: attempts made so far (attemptNum)
  result,     \* result[q]: what the last finished attempt came to
  wire,       \* copies of requests that have not reached their service yet
  answer      \* answer[q]: the response on its way to the awaited attempt of q

fetchVars == <<call, attempt, result, wire, answer>>

(* An answer is a status and what its body or Location header identifies.  *)
(* NoAnswer stands for none at all: the promise of fetch rejects.          *)
NoAnswer == [status |-> 0, body |-> 0]
Answers  == [status : Statuses, body : Bodies] \cup {NoAnswer}

Copies == [req : Requests, n : 1 .. (Retries + 1)]

Ok(status) == status \in 200 .. 299

Retryable(status) == status \in {408, 429} \/ status >= 500

\* Mutant: one retry too many.
MayRetryOnceMore(q) == attempt[q] <= Retries + 1
MayRetry(q) == attempt[q] <= Retries

(* The promise after the awaited attempt of q ended with a.                *)
After(q, a) ==
  CASE Ok(a.status)                                   -> "ok"
    [] (a = NoAnswer \/ Retryable(a.status)) /\ MayRetry(q) -> "backoff"
    [] OTHER                                          -> "failed"

Awaited(m) == call[m.req] = "flight" /\ attempt[m.req] = m.n

-----------------------------------------------------------------------------
FetchTypeOK ==
  /\ call    \in [Requests -> {"idle", "flight", "backoff", "ok", "failed"}]
  /\ attempt \in [Requests -> 0 .. (Retries + 1)]
  /\ result  \in [Requests -> Answers]
  /\ wire    \in SUBSET Copies
  /\ answer  \in [Requests -> Answers]

FetchInit ==
  /\ call    = [q \in Requests |-> "idle"]
  /\ attempt = [q \in Requests |-> 0]
  /\ result  = [q \in Requests |-> NoAnswer]
  /\ wire    = {}
  /\ answer  = [q \in Requests |-> NoAnswer]

(* The requests in Q are made, in parallel: each sends its first attempt.  *)
Begin(Q) ==
  /\ \A q \in Q : call[q] = "idle"
  /\ call'    = [q \in Requests |-> IF q \in Q THEN "flight" ELSE call[q]]
  /\ attempt' = [q \in Requests |-> IF q \in Q THEN 1 ELSE attempt[q]]
  /\ wire'    = wire \cup {[req |-> q, n |-> 1] : q \in Q}
  /\ UNCHANGED <<result, answer>>

(* The backoff timer of promise-retry fires: the next attempt is sent.     *)
Resend(q) ==
  /\ call[q] = "backoff"
  /\ call'    = [call EXCEPT ![q] = "flight"]
  /\ attempt' = [attempt EXCEPT ![q] = @ + 1]
  /\ wire'    = wire \cup {[req |-> q, n |-> attempt[q] + 1]}
  /\ UNCHANGED <<result, answer>>

\* Mutant: the timeout is not cleared when the answer is there.
EndAgain(q, a) ==
  /\ call[q] # "idle"
  /\ call'   = [call EXCEPT ![q] = After(q, a)]
  /\ result' = [result EXCEPT ![q] = a]
  /\ answer' = [answer EXCEPT ![q] = NoAnswer]
  /\ UNCHANGED <<attempt, wire>>

(* The awaited attempt ends with a.                                        *)
End(q, a) ==
  /\ call[q] = "flight"
  /\ call'   = [call EXCEPT ![q] = After(q, a)]
  /\ result' = [result EXCEPT ![q] = a]
  /\ answer' = [answer EXCEPT ![q] = NoAnswer]
  /\ UNCHANGED <<attempt, wire>>

Receive(q) == answer[q] # NoAnswer /\ End(q, answer[q])

(* fetch rejects: the connection failed or the timeout option ran out, the  *)
(* answer possibly being on its way already.                               *)
Abort(q) == End(q, NoAnswer)

\* Mutant: the answer to a given-up attempt is taken for the awaited one.
DeliverLate(m, a) ==
  /\ m \in wire
  /\ wire'   = wire \ {m}
  /\ answer' = [answer EXCEPT ![m.req] = a]
  /\ UNCHANGED <<call, attempt, result>>

(* A copy reaches its service, which answers a (NoAnswer: the copy or its   *)
(* answer is lost).  Nobody awaits the answer to a given-up attempt.       *)
Deliver(m, a) ==
  /\ m \in wire
  /\ wire'   = wire \ {m}
  /\ answer' = IF Awaited(m) THEN [answer EXCEPT ![m.req] = a] ELSE answer
  /\ UNCHANGED <<call, attempt, result>>

-----------------------------------------------------------------------------
(* The client against services that answer anything at all.                *)
FetchNext ==
  \/ \E Q \in SUBSET Requests : Q # {} /\ Begin(Q)
  \/ \E q \in Requests : Resend(q) \/ Receive(q) \/ Abort(q)
  \/ \E m \in wire, a \in Answers : Deliver(m, a)

FetchSpec == FetchInit /\ [][FetchNext]_fetchVars

-----------------------------------------------------------------------------
(* A request fails for an answer that is worth no retry, or with all its    *)
(* Retries + 1 attempts made; it waits to be sent again only after a network *)
(* error, 408, 429 or a server error, with an attempt left (fetch.ts:44-74). *)
RetryPolicy ==
  \A q \in Requests :
    LET transient == result[q] = NoAnswer \/ result[q].status \in {408, 429} \cup 500 .. 599
    IN  /\ call[q] = "failed" => ~ transient \/ attempt[q] = Retries + 1
        /\ call[q] = "backoff" => transient /\ attempt[q] \in 1 .. Retries

(* An answer the client can still receive is the one answer to the attempt  *)
(* it awaits: never to one it has given up on, and never with the copy of   *)
(* that attempt still to be served (fetch.ts:50-62, one fetch per attempt).  *)
OneAnswerPerAttempt ==
  \A q \in Requests :
    answer[q] # NoAnswer => call[q] = "flight" /\ [req |-> q, n |-> attempt[q]] \notin wire

(* The promise of a request settles once: after it no attempt is sent and   *)
(* no late answer, to any of its attempts, changes what it came to.        *)
SettlesOnce ==
  [][\A q \in Requests : call[q] \in {"ok", "failed"} =>
       /\ call'[q] = call[q] /\ result'[q] = result[q] /\ attempt'[q] = attempt[q]
       /\ \A m \in wire' : m.req = q => m \in wire]_fetchVars
=============================================================================
