--------------------------- MODULE IdentityToken ---------------------------
(***************************************************************************)
(* Where a FulcioSigner gets its identity token from: the login with a        *)
(* browser and a callback server (packages/cli/src/oauth), or the CI it runs  *)
(* in (packages/sign/src/identity/ci.ts); and what it takes from the token    *)
(* (packages/sign/src/signer/fulcio/index.ts, util/oidc.ts).               *)
(*                                                                         *)
(* External: the user and the browser, who may come back, or not, or ask for  *)
(* something else; the OpenID client, which accepts no redirect but the one   *)
(* that its own login page leads to; Node's HTTP server, which has closed     *)
(* once it neither listens nor has an open connection.                     *)
(***************************************************************************)
EXTENDS Naturals, Sequences

CONSTANTS
  Calls,         \* the getToken() calls of one provider
  Connections    \* bound: the connections that are ever made to the server

VARIABLES
  provider,   \* "oauth" or "ci"
  env,        \* the token variables that are set: "gha", "env"
  call,       \* call[c]: how far getToken() and what follows has come
  error,      \* error[c]: the code it was rejected with
  gha,        \* gha[c]: the request for a token of GitHub Actions
  listening,  \* whether the callback server accepts connections
  handlers,   \* the calls whose start() has registered a request handler
  socket,     \* socket[k]: "none", "open" or "closed"
  closing,    \* what shutdown() is to resolve once the server has closed
  callback,   \* callback[c]: the URL the callback promise resolved with
  page,       \* page[c]: the login page: "none", "open", "in", "denied"
  awaits,     \* awaits[c]: the call whose start() made the callback c waits for
  used,       \* used[c]: the URL that was exchanged for a token
  process     \* "running" or "crashed"

ciVars     == <<env, gha>>
serverVars == <<listening, handlers, socket, closing, callback>>
vars == <<provider, ciVars, call, error, serverVars, page, awaits, used, process>>

NoURL == [state |-> "none", code |-> FALSE]
URLs  == [state : Calls \cup {"other"}, code : BOOLEAN]
Settled(c) == call[c] \in {"subject", "rejected"}
Last(s) == s[Len(s)]

Init ==
  /\ provider \in {"oauth", "ci"} /\ env \in SUBSET {"gha", "env"}
  /\ call = [c \in Calls |-> "idle"] /\ error = [c \in Calls |-> ""]
  /\ gha = [c \in Calls |-> "none"]
  /\ listening = FALSE /\ handlers = <<>> /\ closing = {}
  /\ socket = [k \in Connections |-> "none"]
  /\ callback = [c \in Calls |-> NoURL] /\ used = [c \in Calls |-> NoURL]
  /\ page = [c \in Calls |-> "none"] /\ awaits = [c \in Calls |-> "none"]
  /\ process = "running"

Go(c, next) == call' = [call EXCEPT ![c] = next] /\ UNCHANGED error
Reject(c, code) == call' = [call EXCEPT ![c] = "rejected"] /\ error' = [error EXCEPT ![c] = code]
ReadError(c) == Reject(c, "IDENTITY_TOKEN_READ_ERROR")

-----------------------------------------------------------------------------
(* CIContextProvider: both providers at once.                              *)
AskCI(c) ==
  /\ provider = "ci" /\ call[c] = "idle"
  /\ Go(c, "asking")
  /\ gha' = [gha EXCEPT ![c] = IF "gha" \in env THEN "asked" ELSE "failed"]
  /\ UNCHANGED <<provider, env, serverVars, page, awaits, used, process>>

(* Any JSON is taken for a token, whatever the status it comes with; if it has *)
(* none it is Subject that finds out.                                      *)
GHAAnswers(c) ==
  /\ gha[c] = "asked"
  /\ \E answer \in {"token", "failed"} : gha' = [gha EXCEPT ![c] = answer]
  /\ UNCHANGED <<provider, env, call, error, serverVars, page, awaits, used, process>>

\* Mutant: the providers are asked one after the other.
FirstTokenInTurn(c) ==
  /\ call[c] = "asking"
  /\ gha[c] = "token" \/ (gha[c] = "failed" /\ "env" \in env)
  /\ Go(c, "token")
  /\ UNCHANGED <<provider, ciVars, serverVars, page, awaits, used, process>>

(* Promise.any: the first that resolves.                                   *)
FirstToken(c) ==
  /\ call[c] = "asking"
  /\ gha[c] = "token" \/ "env" \in env
  /\ Go(c, "token")
  /\ UNCHANGED <<provider, ciVars, serverVars, page, awaits, used, process>>

NoToken(c) ==
  /\ call[c] = "asking"
  /\ gha[c] = "failed" /\ "env" \notin env
  /\ ReadError(c)
  /\ UNCHANGED <<provider, ciVars, serverVars, page, awaits, used, process>>

-----------------------------------------------------------------------------
(* CallbackServer.start(): a handler is added each time, and never removed.   *)
(* A server that listens cannot listen again; a port that is taken is an      *)
(* error event that nobody handles.                                        *)
StartServer(c) ==
  /\ provider = "oauth" /\ call[c] = "idle"
  /\ \/ /\ ~ listening
        /\ listening' = TRUE /\ handlers' = Append(handlers, c)
        /\ Go(c, "discovering") /\ UNCHANGED process
     \/ /\ ~ listening /\ process' = "crashed"
        /\ UNCHANGED <<call, error, listening, handlers>>
     \/ listening /\ ReadError(c) /\ UNCHANGED <<listening, handlers, process>>
  /\ UNCHANGED <<provider, ciVars, socket, closing, callback, page, awaits, used>>

(* initializeOAuthClient; the login page is opened, and what the server has   *)
(* for a callback by now is waited for, which is that of the last start().    *)
(* If the issuer cannot be discovered the server is left listening.        *)
Discover(c) ==
  /\ call[c] = "discovering"
  /\ \/ /\ Go(c, "waiting") /\ page' = [page EXCEPT ![c] = "open"]
        /\ awaits' = [awaits EXCEPT ![c] = Last(handlers)]
     \/ ReadError(c) /\ UNCHANGED <<page, awaits>>
  /\ UNCHANGED <<provider, ciVars, serverVars, used, process>>

SignIn(c) ==
  /\ page[c] = "open"
  /\ \E outcome \in {"in", "denied"} : page' = [page EXCEPT ![c] = outcome]
  /\ UNCHANGED <<provider, ciVars, call, error, serverVars, awaits, used, process>>

Connect(k) ==
  /\ listening /\ socket[k] = "none"
  /\ socket' = [socket EXCEPT ![k] = "open"]
  /\ UNCHANGED <<provider, ciVars, call, error, listening, handlers, closing, callback, page, awaits, used, process>>

HangUp(k) ==
  /\ socket[k] = "open"
  /\ socket' = [socket EXCEPT ![k] = "closed"]
  /\ UNCHANGED <<provider, ciVars, call, error, listening, handlers, closing, callback, page, awaits, used, process>>

Destroyed == [k \in Connections |-> IF socket[k] = "open" THEN "closed" ELSE socket[k]]

\* Mutant: the server is closed and its connections left alone.
RequestKeepsSockets(k, url) ==
  /\ socket[k] = "open"
  /\ listening' = FALSE /\ closing' = closing \cup {<<handlers[1], url>>} /\ UNCHANGED socket
  /\ process' = IF Len(handlers) > 1 THEN "crashed" ELSE process
  /\ UNCHANGED <<provider, ciVars, call, error, handlers, callback, page, awaits, used>>

\* Mutant: the callback is resolved and the server not shut down.
RequestKeepsServer(k, url) ==
  /\ socket[k] = "open"
  /\ callback' = [callback EXCEPT ![handlers[1]] = url]
  /\ process' = IF Len(handlers) > 1 THEN "crashed" ELSE process
  /\ UNCHANGED <<provider, ciVars, call, error, listening, handlers, socket, closing, page, awaits, used>>

(* A request, of whatever it is, is answered; then shutdown() destroys every  *)
(* connection and closes the server.  A second handler finds the response     *)
(* sent, and throws where nobody catches.                                  *)
Request(k, url) ==
  /\ socket[k] = "open"
  /\ listening' = FALSE /\ closing' = closing \cup {<<handlers[1], url>>} /\ socket' = Destroyed
  /\ process' = IF Len(handlers) > 1 THEN "crashed" ELSE process
  /\ UNCHANGED <<provider, ciVars, call, error, handlers, callback, page, awaits, used>>

(* Only the login of a user leads back with a code.                        *)
CanCome(url) ==
  IF url.state = "other" THEN ~ url.code
  ELSE page[url.state] = IF url.code THEN "in" ELSE "denied"

(* The close event: the callback promise resolves, at the first URL.       *)
Close ==
  /\ closing # {} /\ ~ listening
  /\ \A k \in Connections : socket[k] # "open"
  /\ \E x \in closing :
       /\ closing' = closing \ {x}
       /\ callback' = IF callback[x[1]] = NoURL THEN [callback EXCEPT ![x[1]] = x[2]] ELSE callback
  /\ UNCHANGED <<provider, ciVars, call, error, listening, handlers, socket, page, awaits, used, process>>

\* Mutant: the state of the redirect is not compared.
ExchangeAny(c) ==
  /\ call[c] = "waiting"
  /\ LET url == callback[awaits[c]]
     IN  /\ url # NoURL
         /\ used' = [used EXCEPT ![c] = url]
         /\ IF url.code \/ url.state = "other" THEN Go(c, "token") ELSE ReadError(c)
         /\ UNCHANGED <<provider, ciVars, serverVars, page, awaits, process>>

(* getIDToken with what the callback that is waited for has resolved with.   *)
Exchange(c) ==
  /\ call[c] = "waiting"
  /\ LET url == callback[awaits[c]]
     IN  /\ url # NoURL
         /\ used' = [used EXCEPT ![c] = url]
         /\ \/ url.state = c /\ url.code /\ Go(c, "token")
            \/ ReadError(c)
         /\ UNCHANGED <<provider, ciVars, serverVars, page, awaits, process>>

\* Mutant: an error of the parser goes through as it is.
SubjectUncoded(c) ==
  /\ call[c] = "token"
  /\ Go(c, "subject") \/ Reject(c, "UNCODED")
  /\ UNCHANGED <<provider, ciVars, serverVars, page, awaits, used, process>>

(* extractJWTSubject: the token can be read, or not.                       *)
Subject(c) ==
  /\ call[c] = "token"
  /\ Go(c, "subject") \/ Reject(c, "IDENTITY_TOKEN_PARSE_ERROR")
  /\ UNCHANGED <<provider, ciVars, serverVars, page, awaits, used, process>>

-----------------------------------------------------------------------------
Code(c) == AskCI(c) \/ FirstToken(c) \/ NoToken(c) \/ StartServer(c)
             \/ Discover(c) \/ Exchange(c) \/ Subject(c)
World == \/ \E c \in Calls : GHAAnswers(c) \/ SignIn(c)
         \/ \E k \in Connections : Connect(k) \/ HangUp(k)
         \/ \E k \in Connections, url \in URLs : CanCome(url) /\ Request(k, url)

Next ==
  /\ process = "running"
  /\ World \/ Close \/ \E c \in Calls : Code(c)

Spec == Init /\ [][Next]_vars

(* What has begun takes its next step, and a server that can be closed is.    *)
(* Nobody need call, nobody need come back from the login page, and GitHub     *)
(* need not answer: the request for its token has no timeout.              *)
Fairness ==
  /\ WF_vars(process = "running" /\ Close)
  /\ \A c \in Calls : WF_vars(process = "running" /\ call[c] # "idle" /\ Code(c))

FairSpec == Spec /\ Fairness
-----------------------------------------------------------------------------
IdentityTypeOK ==
  /\ provider \in {"oauth", "ci"} /\ env \subseteq {"gha", "env"} /\ process \in {"running", "crashed"}
  /\ call \in [Calls -> {"idle", "asking", "discovering", "waiting", "token", "subject", "rejected"}]
  /\ error \in [Calls -> {"", "IDENTITY_TOKEN_READ_ERROR", "IDENTITY_TOKEN_PARSE_ERROR"}]
  /\ gha \in [Calls -> {"none", "asked", "token", "failed"}]
  /\ listening \in BOOLEAN /\ handlers \in Seq(Calls)
  /\ socket \in [Connections -> {"none", "open", "closed"}]
  /\ closing \subseteq Calls \X URLs
  /\ callback \in [Calls -> URLs \cup {NoURL}] /\ used \in [Calls -> URLs \cup {NoURL}]
  /\ page \in [Calls -> {"none", "open", "in", "denied"}]
  /\ awaits \in [Calls -> Calls \cup {"none"}]

(* However many requests of whatever kind reach the server: a token comes of  *)
(* the user's own login on the page of this very call, and of no other        *)
(* (server.ts:42-51, client.ts:56-68).                                     *)
TokenIsOfLogin ==
  \A c \in Calls : provider = "oauth" /\ call[c] \in {"token", "subject"} =>
    page[c] = "in" /\ used[c].state = c

(* When the callback is answered nothing of the server is left that would     *)
(* keep the process alive: no port, no connection (server.ts:57-66).       *)
NothingLeftOpen ==
  \A c \in Calls : handlers # <<>> /\ Last(handlers) = c /\ used[c] # NoURL =>
    ~ listening /\ \A k \in Connections : socket[k] # "open"

(* A CI that has a token in its environment goes on with one, whatever becomes *)
(* of the request to GitHub Actions: it may fail, sooner or later, and it may  *)
(* never be answered at all (ci.ts:37-44, 63-69).                          *)
EnvTokenComes ==
  \A c \in Calls :
    (call[c] = "asking" /\ "env" \in env) ~> call[c] \in {"token", "subject"}

(* Every call that has begun settles unless somebody has to be waited for:    *)
(* GitHub Actions, where no other token is, or the request that the server     *)
(* listens for.  Once that has come neither what the browser does with its     *)
(* connections matters, nor which call's server it reached (ci.ts:37-44,       *)
(* server.ts:33-66, index.ts:36-58).                                       *)
Unanswered(c) == gha[c] = "asked" /\ "env" \notin env
LoginSettles ==
  <>[](~ listening) =>
    \A c \in Calls : (call[c] # "idle" /\ ~ Unanswered(c)) ~> (Settled(c) \/ process = "crashed")
=============================================================================
