------------------------ MODULE IdentityToken_proofs ------------------------
(* Theorems about IdentityToken, for any number of calls and connections.     *)
EXTENDS IdentityToken, TLAPS

(* A call is of one provider from beginning to end, a login page opens only   *)
(* after the server has started and the issuer was found, and an error is     *)
(* the end of a call.                                                      *)
OneProvider ==
  \A c \in Calls :
    /\ provider = "oauth" => call[c] # "asking"
    /\ provider = "ci" => call[c] \notin {"discovering", "waiting"}
    /\ call[c] \in {"discovering", "waiting"} => handlers # <<>>
    /\ call[c] \in {"idle", "asking", "discovering"} => page[c] = "none"
    /\ error[c] # "" => call[c] = "rejected"

(* A redirect with a code, closed with or waiting to be, is of a user's login. *)
Genuine(url) == url.code => url.state \in Calls /\ page[url.state] = "in"
GenuineURLs ==
  /\ \A x \in closing : Genuine(x[2])
  /\ \A c \in Calls : callback[c] # NoURL => Genuine(callback[c])

(* Only the first handler ever resolves.  A call that was started after it    *)
(* waits for a callback that does not come.                                *)
FirstHandler ==
  /\ handlers = <<>> => ~ listening /\ closing = {}
  /\ (handlers = <<>> \/ (Len(handlers) = 1 /\ ~ listening)) =>
       \A k \in Connections : socket[k] # "open"
  /\ \A x \in closing : handlers # <<>> /\ x[1] = handlers[1]
  /\ \A c \in Calls : callback[c] # NoURL => handlers # <<>> /\ c = handlers[1]
  /\ Len(handlers) = 1 /\ (closing # {} \/ callback[handlers[1]] # NoURL) => ~ listening
  /\ \A i \in 1 .. Len(handlers) : call[handlers[i]] # "idle"
  /\ \A i, j \in 1 .. Len(handlers) : handlers[i] = handlers[j] => i = j
  /\ \A c \in Calls : call[c] = "waiting" =>
       awaits[c] \in Calls /\ (c = Last(handlers) => awaits[c] = c)
  /\ \A c \in Calls : used[c] # NoURL =>
       /\ call[c] # "idle" /\ handlers # <<>> /\ callback[handlers[1]] # NoURL
       /\ Len(handlers) = 1 \/ c # Last(handlers)

IdentityInv ==
  /\ IdentityTypeOK /\ OneProvider /\ GenuineURLs /\ FirstHandler
  /\ TokenIsOfLogin

LEMMA InitInv == Init => IdentityInv
<1> SUFFICES ASSUME Init PROVE IdentityInv
  OBVIOUS
<1>1. IdentityTypeOK
  <2>1. <<>> \in Seq(Calls) /\ NoURL \in URLs \cup {NoURL}
    OBVIOUS
  <2> QED BY <2>1 DEF Init, IdentityTypeOK
<1>2. OneProvider /\ TokenIsOfLogin
  BY DEF Init, OneProvider, TokenIsOfLogin
<1>3. GenuineURLs /\ FirstHandler
  <2>1. Len(handlers) = 0 /\ handlers = <<>>
    BY DEF Init
  <2>2. closing = {} /\ ~ listening /\ \A c \in Calls : callback[c] = NoURL /\ used[c] = NoURL
    BY DEF Init
  <2>3. /\ \A k \in Connections : socket[k] = "none"
        /\ \A c \in Calls : call[c] = "idle"
    BY DEF Init
  <2> QED BY <2>1, <2>2, <2>3 DEF GenuineURLs, FirstHandler
<1> QED BY <1>1, <1>2, <1>3 DEF IdentityInv

-----------------------------------------------------------------------------
(* What the steps of the calls leave alone.                                *)
LEMMA HandlersKept ==
  ASSUME IdentityInv, UNCHANGED <<serverVars, used, awaits>>,
         \A c \in Calls : call[c] # "idle" => call'[c] # "idle",
         \A c \in Calls : call'[c] = "waiting" => call[c] = "waiting"
  PROVE  FirstHandler'
<1>1. handlers \in Seq(Calls)
  BY DEF IdentityInv, IdentityTypeOK
<1>2. \A i \in 1 .. Len(handlers) : handlers[i] \in Calls
  BY <1>1
<1>3. \A i \in 1 .. Len(handlers) : call'[handlers[i]] # "idle"
  BY <1>2 DEF IdentityInv, FirstHandler
<1> QED BY <1>3 DEF IdentityInv, FirstHandler, serverVars, Last

LEMMA URLsKept ==
  ASSUME IdentityInv, UNCHANGED <<closing, callback>>,
         \A c \in Calls : page[c] = "in" => page'[c] = "in"
  PROVE  GenuineURLs'
  BY DEF IdentityInv, GenuineURLs, Genuine

LEMMA LoginKept ==
  ASSUME IdentityInv, UNCHANGED <<provider, used>>,
         \A c \in Calls : page[c] = "in" => page'[c] = "in",
         \A c \in Calls : call'[c] \in {"token", "subject"} => call[c] \in {"token", "subject"}
  PROVE  TokenIsOfLogin'
  BY DEF IdentityInv, TokenIsOfLogin

(* The variables that have a value for each call.                          *)
LEMMA OfCalls ==
  IdentityInv => /\ call = [c \in Calls |-> call[c]] /\ error = [c \in Calls |-> error[c]]
                 /\ page = [c \in Calls |-> page[c]] /\ used = [c \in Calls |-> used[c]]
                 /\ callback = [c \in Calls |-> callback[c]] /\ gha = [c \in Calls |-> gha[c]]
  BY DEF IdentityInv, IdentityTypeOK

LEMMA AskCIInv == ASSUME IdentityInv, NEW c \in Calls, AskCI(c) PROVE IdentityInv'
<1> USE DEF AskCI, Go
<1>1. IdentityTypeOK'
  BY DEF IdentityInv, IdentityTypeOK, serverVars
<1>2. OneProvider'
  BY OfCalls DEF IdentityInv, OneProvider, serverVars
<1>3. GenuineURLs'
  BY URLsKept DEF IdentityInv, IdentityTypeOK, serverVars
<1>4. FirstHandler'
  BY HandlersKept DEF IdentityInv, IdentityTypeOK
<1>5. TokenIsOfLogin'
  BY OfCalls, LoginKept DEF IdentityInv, OneProvider
<1> QED BY <1>1, <1>2, <1>3, <1>4, <1>5 DEF IdentityInv

LEMMA GHAAnswersInv == ASSUME IdentityInv, NEW c \in Calls, GHAAnswers(c) PROVE IdentityInv'
<1> USE DEF GHAAnswers
<1>1. IdentityTypeOK'
  <2>1. PICK a \in {"token", "failed"} : gha' = [gha EXCEPT ![c] = a]
    OBVIOUS
  <2> QED BY <2>1 DEF IdentityInv, IdentityTypeOK, serverVars
<1>2. OneProvider'
  BY OfCalls DEF IdentityInv, OneProvider, serverVars
<1>3. GenuineURLs'
  BY URLsKept DEF IdentityInv, IdentityTypeOK, serverVars
<1>4. FirstHandler'
  BY HandlersKept DEF IdentityInv, IdentityTypeOK
<1>5. TokenIsOfLogin'
  BY OfCalls, LoginKept DEF IdentityInv, OneProvider
<1> QED BY <1>1, <1>2, <1>3, <1>4, <1>5 DEF IdentityInv

LEMMA FirstTokenInv == ASSUME IdentityInv, NEW c \in Calls, FirstToken(c) PROVE IdentityInv'
<1> USE DEF FirstToken, Go, ciVars
<1>1. IdentityTypeOK'
  BY DEF IdentityInv, IdentityTypeOK, serverVars
<1>2. OneProvider'
  BY OfCalls DEF IdentityInv, OneProvider, serverVars
<1>3. GenuineURLs'
  BY URLsKept DEF IdentityInv, IdentityTypeOK, serverVars
<1>4. FirstHandler'
  BY HandlersKept DEF IdentityInv, IdentityTypeOK
<1>5. TokenIsOfLogin'
  BY OfCalls DEF IdentityInv, OneProvider, TokenIsOfLogin, serverVars
<1> QED BY <1>1, <1>2, <1>3, <1>4, <1>5 DEF IdentityInv

LEMMA NoTokenInv == ASSUME IdentityInv, NEW c \in Calls, NoToken(c) PROVE IdentityInv'
<1> USE DEF NoToken, ReadError, Reject, ciVars
<1>1. IdentityTypeOK'
  BY DEF IdentityInv, IdentityTypeOK, serverVars
<1>2. OneProvider'
  BY OfCalls DEF IdentityInv, OneProvider, serverVars
<1>3. GenuineURLs'
  BY URLsKept DEF IdentityInv, IdentityTypeOK, serverVars
<1>4. FirstHandler'
  BY HandlersKept DEF IdentityInv, IdentityTypeOK
<1>5. TokenIsOfLogin'
  BY OfCalls, LoginKept DEF IdentityInv, OneProvider
<1> QED BY <1>1, <1>2, <1>3, <1>4, <1>5 DEF IdentityInv

LEMMA StartServerInv == ASSUME IdentityInv, NEW c \in Calls, StartServer(c) PROVE IdentityInv'
<1> USE DEF ciVars
<1>a. /\ provider = "oauth" /\ call[c] = "idle" /\ c \in Calls
      /\ UNCHANGED <<provider, env, gha, socket, closing, callback, page, awaits, used>>
  BY DEF StartServer
<1>b. \/ /\ ~ listening /\ listening' = TRUE /\ handlers' = Append(handlers, c)
         /\ call' = [call EXCEPT ![c] = "discovering"] /\ UNCHANGED <<error, process>>
      \/ process' = "crashed" /\ UNCHANGED <<call, error, listening, handlers>>
      \/ /\ call' = [call EXCEPT ![c] = "rejected"]
         /\ error' = [error EXCEPT ![c] = "IDENTITY_TOKEN_READ_ERROR"]
         /\ UNCHANGED <<listening, handlers, process>>
  BY DEF StartServer, Go, ReadError, Reject
<1>c. handlers \in Seq(Calls)
  BY DEF IdentityInv, IdentityTypeOK
<1>d. Append(handlers, c) \in Seq(Calls) /\ Append(handlers, c) # <<>>
  <2>1. Append(handlers, c) \in Seq(Calls)
    BY <1>a, <1>c
  <2>2. Len(Append(handlers, c)) = Len(handlers) + 1 /\ Len(handlers) \in Nat
    BY <1>c
  <2> QED BY <2>1, <2>2
<1>1. IdentityTypeOK'
  BY <1>a, <1>b, <1>c, <1>d, ZenonT(30) DEF IdentityInv, IdentityTypeOK
<1>2. OneProvider'
  BY <1>a, <1>b, <1>d, OfCalls DEF IdentityInv, OneProvider
<1>3. GenuineURLs'
  BY <1>a, URLsKept
<1>4. FirstHandler'
  <2>1. CASE handlers' = handlers /\ listening' = listening
    BY <2>1, <1>a, <1>b, OfCalls, HandlersKept DEF serverVars
  <2>2. CASE ~ listening /\ listening' = TRUE /\ handlers' = Append(handlers, c) /\ call' = [call EXCEPT ![c] = "discovering"]
    <3>1. /\ Len(handlers') = Len(handlers) + 1 /\ handlers' # <<>>
          /\ handlers'[Len(handlers')] = c
          /\ \A i \in 1 .. Len(handlers) : handlers'[i] = handlers[i] /\ handlers[i] \in Calls
      BY <1>c, <2>2
    <3>2. \A i \in 1 .. Len(handlers) : handlers[i] # c
      BY <1>a DEF IdentityInv, FirstHandler
    <3>3. \A d \in Calls : call[d] # "idle" => call'[d] # "idle"
      BY <2>2, OfCalls
    <3>4. call'[c] # "idle"
      BY <2>2, OfCalls
    <3>5. Len(handlers) = 0 <=> handlers = <<>>
      BY <1>c
    <3>6. Len(handlers) \in Nat
      BY <1>c
    <3> QED BY <1>a, <2>2, <3>1, <3>2, <3>3, <3>4, <3>5, <3>6 DEF IdentityInv, FirstHandler, Last
  <2> QED BY <1>b, <2>1, <2>2
<1>5. TokenIsOfLogin'
  BY <1>a, <1>b, OfCalls, LoginKept
<1> QED BY <1>1, <1>2, <1>3, <1>4, <1>5 DEF IdentityInv

LEMMA DiscoverInv == ASSUME IdentityInv, NEW c \in Calls, Discover(c) PROVE IdentityInv'
<1> USE DEF Discover, Go, ReadError, Reject, ciVars
<1>1. IdentityTypeOK'
  <2>1. awaits' \in [Calls -> Calls \cup {"none"}]
    <3>1. handlers # <<>> /\ handlers \in Seq(Calls) /\ awaits \in [Calls -> Calls \cup {"none"}]
      BY DEF IdentityInv, IdentityTypeOK, OneProvider
    <3>2. Last(handlers) \in Calls
      BY <3>1 DEF Last
    <3>3. awaits' = awaits \/ awaits' = [awaits EXCEPT ![c] = Last(handlers)]
      OBVIOUS
    <3> QED BY <3>1, <3>2, <3>3
  <2>2. /\ call' \in [Calls -> {"idle", "asking", "discovering", "waiting", "token", "subject", "rejected"}]
        /\ error' \in [Calls -> {"", "IDENTITY_TOKEN_READ_ERROR", "IDENTITY_TOKEN_PARSE_ERROR"}]
        /\ page' \in [Calls -> {"none", "open", "in", "denied"}]
    BY ZenonT(30) DEF IdentityInv, IdentityTypeOK
  <2> QED BY <2>1, <2>2 DEF IdentityInv, IdentityTypeOK, serverVars
<1>2. OneProvider'
  BY OfCalls DEF IdentityInv, OneProvider, serverVars
<1>3. GenuineURLs'
  <2>1. page[c] = "none"
    BY DEF IdentityInv, OneProvider
  <2> QED BY <2>1, URLsKept DEF IdentityInv, IdentityTypeOK, serverVars
<1>4. FirstHandler'
  <2>1. handlers # <<>> /\ handlers \in Seq(Calls)
    BY DEF IdentityInv, IdentityTypeOK, OneProvider
  <2>2. Last(handlers) \in Calls /\ \A i \in 1 .. Len(handlers) : handlers[i] \in Calls
    BY <2>1 DEF Last
  <2>3. \A d \in Calls : call[d] # "idle" => call'[d] # "idle"
    BY OfCalls
  <2>4. \A d \in Calls : call'[d] = "waiting" =>
          awaits'[d] \in Calls /\ (d = Last(handlers) => awaits'[d] = d)
    <3>1. /\ call \in [Calls -> {"idle", "asking", "discovering", "waiting", "token", "subject", "rejected"}]
          /\ awaits \in [Calls -> Calls \cup {"none"}]
      BY DEF IdentityInv, IdentityTypeOK
    <3>2. CASE call' = [call EXCEPT ![c] = "waiting"] /\ awaits' = [awaits EXCEPT ![c] = Last(handlers)]
      BY <2>2, <3>1, <3>2 DEF IdentityInv, FirstHandler
    <3>3. CASE call' = [call EXCEPT ![c] = "rejected"] /\ awaits' = awaits
      BY <3>1, <3>3 DEF IdentityInv, FirstHandler
    <3> QED BY <3>2, <3>3
  <2> QED BY <2>1, <2>2, <2>3, <2>4 DEF IdentityInv, FirstHandler, serverVars
<1>5. TokenIsOfLogin'
  BY OfCalls, LoginKept DEF IdentityInv, OneProvider
<1> QED BY <1>1, <1>2, <1>3, <1>4, <1>5 DEF IdentityInv

LEMMA SignInInv == ASSUME IdentityInv, NEW c \in Calls, SignIn(c) PROVE IdentityInv'
<1> USE DEF SignIn, ciVars
<1>0. PICK o \in {"in", "denied"} : page' = [page EXCEPT ![c] = o]
  OBVIOUS
<1>1. IdentityTypeOK'
  BY <1>0 DEF IdentityInv, IdentityTypeOK, serverVars
<1>2. OneProvider'
  BY <1>0, OfCalls DEF IdentityInv, OneProvider, serverVars
<1>3. GenuineURLs'
  BY <1>0, URLsKept DEF IdentityInv, IdentityTypeOK, serverVars
<1>4. FirstHandler'
  BY HandlersKept DEF IdentityInv, IdentityTypeOK
<1>5. TokenIsOfLogin'
  BY <1>0, OfCalls, LoginKept DEF IdentityInv
<1> QED BY <1>1, <1>2, <1>3, <1>4, <1>5 DEF IdentityInv

LEMMA ConnectInv == ASSUME IdentityInv, NEW k \in Connections, Connect(k) PROVE IdentityInv'
<1> USE DEF Connect, ciVars
<1>1. IdentityTypeOK'
  BY DEF IdentityInv, IdentityTypeOK, serverVars
<1>2. OneProvider'
  BY OfCalls DEF IdentityInv, OneProvider, serverVars
<1>3. GenuineURLs'
  BY URLsKept DEF IdentityInv, IdentityTypeOK, serverVars
<1>4. FirstHandler'
  <2>1. (handlers = <<>> \/ (Len(handlers) = 1 /\ ~ listening)) =>
          \A j \in Connections : socket'[j] # "open"
    BY DEF IdentityInv, IdentityTypeOK, FirstHandler
  <2> QED BY <2>1 DEF IdentityInv, FirstHandler, Last
<1>5. TokenIsOfLogin'
  BY OfCalls, LoginKept DEF IdentityInv, OneProvider
<1> QED BY <1>1, <1>2, <1>3, <1>4, <1>5 DEF IdentityInv

LEMMA HangUpInv == ASSUME IdentityInv, NEW k \in Connections, HangUp(k) PROVE IdentityInv'
<1> USE DEF HangUp, ciVars
<1>1. IdentityTypeOK'
  BY DEF IdentityInv, IdentityTypeOK, serverVars
<1>2. OneProvider'
  BY OfCalls DEF IdentityInv, OneProvider, serverVars
<1>3. GenuineURLs'
  BY URLsKept DEF IdentityInv, IdentityTypeOK, serverVars
<1>4. FirstHandler'
  <2>1. (handlers = <<>> \/ (Len(handlers) = 1 /\ ~ listening)) =>
          \A j \in Connections : socket'[j] # "open"
    BY DEF IdentityInv, IdentityTypeOK, FirstHandler
  <2> QED BY <2>1 DEF IdentityInv, FirstHandler, Last
<1>5. TokenIsOfLogin'
  BY OfCalls, LoginKept DEF IdentityInv, OneProvider
<1> QED BY <1>1, <1>2, <1>3, <1>4, <1>5 DEF IdentityInv

LEMMA RequestInv == ASSUME IdentityInv, NEW k \in Connections, NEW url \in URLs, CanCome(url), Request(k, url) PROVE IdentityInv'
<1> USE DEF Request, ciVars
<1>0. handlers \in Seq(Calls) /\ handlers # <<>> /\ Len(handlers) \in Nat \ {0} /\ handlers[1] \in Calls
  <2>1. handlers \in Seq(Calls) /\ handlers # <<>>
    BY DEF IdentityInv, IdentityTypeOK, FirstHandler
  <2> QED BY <2>1
<1>1. IdentityTypeOK'
  <2>1. socket' \in [Connections -> {"none", "open", "closed"}]
    BY DEF IdentityInv, IdentityTypeOK, Destroyed
  <2>2. closing' \subseteq Calls \X URLs
    <3>1. <<handlers[1], url>> \in Calls \X URLs
      BY <1>0
    <3> QED BY <3>1 DEF IdentityInv, IdentityTypeOK
  <2>3. process' \in {"running", "crashed"}
    BY DEF IdentityInv, IdentityTypeOK
  <2> QED BY <2>1, <2>2, <2>3 DEF IdentityInv, IdentityTypeOK
<1>2. OneProvider'
  BY OfCalls DEF IdentityInv, OneProvider, serverVars
<1>3. GenuineURLs'
  <2>1. Genuine(url)
    BY DEF CanCome, Genuine, URLs
  <2> QED BY <2>1 DEF IdentityInv, GenuineURLs, Genuine
<1>4. FirstHandler'
  <2>1. \A j \in Connections : socket'[j] # "open"
    BY DEF Destroyed
  <2> QED BY <1>0, <2>1 DEF IdentityInv, FirstHandler, Last
<1>5. TokenIsOfLogin'
  BY OfCalls, LoginKept DEF IdentityInv, OneProvider
<1> QED BY <1>1, <1>2, <1>3, <1>4, <1>5 DEF IdentityInv

LEMMA CloseInv == ASSUME IdentityInv, Close PROVE IdentityInv'
<1> USE DEF Close, ciVars
<1>0. PICK x \in closing :
        /\ closing' = closing \ {x}
        /\ callback' = IF callback[x[1]] = NoURL THEN [callback EXCEPT ![x[1]] = x[2]] ELSE callback
  OBVIOUS
<1>x. x[1] \in Calls /\ x[2] \in URLs /\ callback \in [Calls -> URLs \cup {NoURL}] /\ handlers \in Seq(Calls)
  BY DEF IdentityInv, IdentityTypeOK
<1>y. x[1] = handlers[1] /\ handlers # <<>> /\ Genuine(x[2])
  BY DEF IdentityInv, FirstHandler, GenuineURLs
<1>1. IdentityTypeOK'
  BY <1>0, <1>x DEF IdentityInv, IdentityTypeOK
<1>2. OneProvider'
  BY OfCalls DEF IdentityInv, OneProvider, serverVars
<1>3. GenuineURLs'
  <2>1. \A c \in Calls : callback'[c] = callback[c] \/ callback'[c] = x[2]
    BY <1>0, <1>x
  <2> QED BY <1>0, <1>y, <2>1 DEF IdentityInv, GenuineURLs, Genuine
<1>4. FirstHandler'
  <2>1. \A c \in Calls : callback'[c] # NoURL => callback[c] # NoURL \/ c = handlers[1]
    BY <1>0, <1>x, <1>y
  <2>2. \A c \in Calls : callback[c] # NoURL => callback'[c] # NoURL
    BY <1>0, <1>x
  <2>3. handlers[1] \in Calls /\ \A i \in 1 .. Len(handlers) : handlers[i] \in Calls
    BY <1>x, <1>y
  <2> QED BY <1>0, <1>x, <1>y, <2>1, <2>2, <2>3 DEF IdentityInv, FirstHandler, Last
<1>5. TokenIsOfLogin'
  BY OfCalls, LoginKept DEF IdentityInv, OneProvider
<1> QED BY <1>1, <1>2, <1>3, <1>4, <1>5 DEF IdentityInv

LEMMA ExchangeInv == ASSUME IdentityInv, NEW c \in Calls, Exchange(c) PROVE IdentityInv'
<1> USE DEF Exchange, Go, ReadError, Reject, ciVars
<1>0. handlers \in Seq(Calls) /\ handlers # <<>> /\ Last(handlers) \in Calls
  <2>1. handlers \in Seq(Calls) /\ handlers # <<>>
    BY DEF IdentityInv, IdentityTypeOK, OneProvider
  <2> QED BY <2>1 DEF Last
<1>x. /\ used' = [used EXCEPT ![c] = callback[awaits[c]]]
      /\ callback[awaits[c]] \in URLs /\ Genuine(callback[awaits[c]])
      /\ awaits[c] = handlers[1] /\ (c = Last(handlers) => awaits[c] = c)
      /\ callback[handlers[1]] # NoURL
  <2>1. callback[awaits[c]] # NoURL
    OBVIOUS
  <2>2. awaits[c] \in Calls /\ (c = Last(handlers) => awaits[c] = c)
    BY DEF IdentityInv, FirstHandler
  <2>3. callback[awaits[c]] \in URLs
    BY <2>1, <2>2 DEF IdentityInv, IdentityTypeOK
  <2> QED BY <1>0, <2>1, <2>2, <2>3 DEF IdentityInv, GenuineURLs, FirstHandler
<1>y. Len(handlers) = 1 \/ c # Last(handlers)
  <2>0. SUFFICES ASSUME c = Last(handlers) PROVE Len(handlers) = 1
    OBVIOUS
  <2>1. Len(handlers) \in Nat \ {0}
    BY <1>0
  <2>2. handlers[1] = handlers[Len(handlers)] /\ 1 \in 1 .. Len(handlers) /\ Len(handlers) \in 1 .. Len(handlers)
    BY <1>x, <2>0, <2>1 DEF Last
  <2> QED BY <2>2 DEF IdentityInv, FirstHandler
<1>1. IdentityTypeOK'
  <2>1. used' \in [Calls -> URLs \cup {NoURL}]
    BY <1>x DEF IdentityInv, IdentityTypeOK
  <2>2. /\ call' \in [Calls -> {"idle", "asking", "discovering", "waiting", "token", "subject", "rejected"}]
        /\ error' \in [Calls -> {"", "IDENTITY_TOKEN_READ_ERROR", "IDENTITY_TOKEN_PARSE_ERROR"}]
    BY DEF IdentityInv, IdentityTypeOK
  <2> QED BY <2>1, <2>2 DEF IdentityInv, IdentityTypeOK, serverVars
<1>2. OneProvider'
  BY OfCalls, ZenonT(30) DEF IdentityInv, OneProvider, serverVars
<1>3. GenuineURLs'
  BY URLsKept DEF IdentityInv, IdentityTypeOK, serverVars
<1>4. FirstHandler'
  <2>1. call = [d \in Calls |-> call[d]]
    BY DEF IdentityInv, IdentityTypeOK
  <2>2. \A d \in Calls : call[d] # "idle" => call'[d] # "idle"
    BY <2>1
  <2>3. \A i \in 1 .. Len(handlers) : handlers[i] \in Calls
    BY <1>0
  <2>4. \A d \in Calls : used'[d] # NoURL => used[d] # NoURL \/ d = c
    BY ZenonT(30) DEF IdentityInv, IdentityTypeOK
  <2>5. call'[c] # "idle" /\ callback[handlers[1]] # NoURL
    BY <1>x, <2>1
  <2>6. \A d \in Calls : call'[d] = "waiting" => call[d] = "waiting"
    BY <2>1
  <2> QED BY <1>0, <1>x, <1>y, <2>2, <2>3, <2>4, <2>5, <2>6 DEF IdentityInv, FirstHandler, serverVars
<1>5. TokenIsOfLogin'
  <2>0. used \in [Calls -> URLs \cup {NoURL}] /\ call = [d \in Calls |-> call[d]]
    BY DEF IdentityInv, IdentityTypeOK
  <2>1. call'[c] = "token" => page[c] = "in" /\ used'[c].state = c
    BY <1>x, <2>0 DEF Genuine
  <2>2. call'[c] # "subject"
    BY <2>0
  <2>3. \A d \in Calls \ {c} : call'[d] = call[d] /\ used'[d] = used[d]
    BY <2>0
  <2> QED BY <2>1, <2>2, <2>3 DEF IdentityInv, TokenIsOfLogin
<1> QED BY <1>1, <1>2, <1>3, <1>4, <1>5 DEF IdentityInv

LEMMA SubjectInv == ASSUME IdentityInv, NEW c \in Calls, Subject(c) PROVE IdentityInv'
<1> USE DEF Subject, Go, Reject, ciVars
<1>1. IdentityTypeOK'
  BY ZenonT(30) DEF IdentityInv, IdentityTypeOK, serverVars
<1>2. OneProvider'
  BY OfCalls DEF IdentityInv, OneProvider, serverVars
<1>3. GenuineURLs'
  BY URLsKept DEF IdentityInv, IdentityTypeOK, serverVars
<1>4. FirstHandler'
  BY HandlersKept DEF IdentityInv, IdentityTypeOK
<1>5. TokenIsOfLogin'
  BY OfCalls, LoginKept DEF IdentityInv, OneProvider
<1> QED BY <1>1, <1>2, <1>3, <1>4, <1>5 DEF IdentityInv

-----------------------------------------------------------------------------
LEMMA NextInv == IdentityInv /\ [Next]_vars => IdentityInv'
<1> SUFFICES ASSUME IdentityInv, [Next]_vars PROVE IdentityInv'
  OBVIOUS
<1>1. ASSUME NEW c \in Calls, GHAAnswers(c) \/ SignIn(c) PROVE IdentityInv'
  BY <1>1, GHAAnswersInv, SignInInv
<1>2. ASSUME NEW k \in Connections, Connect(k) \/ HangUp(k) PROVE IdentityInv'
  BY <1>2, ConnectInv, HangUpInv
<1>3. ASSUME NEW k \in Connections, NEW url \in URLs, CanCome(url), Request(k, url) PROVE IdentityInv'
  BY <1>3, RequestInv
<1>4. CASE Close
  BY <1>4, CloseInv
<1>5. ASSUME NEW c \in Calls, Code(c) PROVE IdentityInv'
  BY <1>5, AskCIInv, FirstTokenInv, NoTokenInv, StartServerInv, DiscoverInv, ExchangeInv, SubjectInv DEF Code
<1>6. CASE UNCHANGED vars
  <2>1. FirstHandler'
    BY <1>6, HandlersKept DEF vars, serverVars
  <2>2. GenuineURLs'
    BY <1>6, URLsKept DEF vars, serverVars
  <2>3. TokenIsOfLogin'
    BY <1>6, LoginKept DEF vars
  <2>4. IdentityTypeOK' /\ OneProvider'
    BY <1>6 DEF vars, serverVars, ciVars, IdentityInv, IdentityTypeOK, OneProvider
  <2> QED BY <2>1, <2>2, <2>3, <2>4 DEF IdentityInv
<1> QED BY <1>1, <1>2, <1>3, <1>4, <1>5, <1>6 DEF Next, World

(* The inductive invariant: which of the calls can be at which step, what a   *)
(* redirect says of its login, and whom the server answers.                *)
THEOREM IdentityInvariant == Spec => []IdentityInv
<1>1. Init => IdentityInv
  BY InitInv
<1>2. IdentityInv /\ [Next]_vars => IdentityInv'
  BY NextInv
<1> QED BY <1>1, <1>2, PTL DEF Spec

(* Every variable of IdentityToken keeps its type.                           *)
THEOREM IdentityTypeCorrect == Spec => []IdentityTypeOK
  BY IdentityInvariant, PTL DEF IdentityInv

(* Whatever is requested of the callback server, by whomever and however      *)
(* often: a token is of the user's login on the page of the call that gets    *)
(* it (server.ts:42-51, client.ts:56-68).                                  *)
THEOREM TokenIsOfLoginHolds == Spec => []TokenIsOfLogin
  BY IdentityInvariant, PTL DEF IdentityInv

LEMMA ClosedWhenUsed == IdentityInv => NothingLeftOpen
  BY DEF IdentityInv, FirstHandler, NothingLeftOpen

(* The answer of a callback server is taken only after its port and all its   *)
(* connections are closed (server.ts:57-66).                               *)
THEOREM NothingLeftOpenHolds == Spec => []NothingLeftOpen
<1>1. IdentityInv => NothingLeftOpen
  BY ClosedWhenUsed
<1> QED BY <1>1, IdentityInvariant, PTL
=============================================================================
