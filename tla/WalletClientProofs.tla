-------------------------- MODULE WalletClientProofs --------------------------
(***************************************************************************)
(* Proofs about WalletClient, for any number of flows and calls, any       *)
(* offers, arguments, metadata and answers of the issuer.                  *)
(***************************************************************************)
EXTENDS WalletClient, FiniteSetTheorems, TLAPS

\* The types of the parts of a call.
Progress == Pending \cup {"idle", "resolved", "rejected"}
MaybeAsk == TokenAsks \cup CredentialAsks \cup {Undefined}
MaybeRequest == TokenRequest \cup CredentialRequest \cup {Undefined}
MaybeError == Errors \cup {Undefined}

\* A new call, and the two ways one goes on.
LEMMA CallIsTyped ==
    ASSUME NEW pc \in Progress, NEW ask \in MaybeAsk, NEW request \in MaybeRequest,
           NEW error \in MaybeError
    PROVE  [pc |-> pc, ask |-> ask, request |-> request, error |-> error] \in CallState
  BY DEF CallState, Progress, MaybeAsk, MaybeRequest, MaybeError

LEMMA GotoIsTyped ==
    ASSUME NEW q \in CallState, NEW pc \in Progress
    PROVE  LET p == [q EXCEPT !.pc = pc]
           IN /\ p \in CallState /\ p.pc = pc
              /\ p.ask = q.ask /\ p.request = q.request /\ p.error = q.error
  BY DEF CallState, Progress

LEMMA RejectIsTyped ==
    ASSUME NEW q \in CallState, NEW error \in Errors
    PROVE  LET p == [q EXCEPT !.pc = "rejected", !.error = error]
           IN /\ p \in CallState /\ p.pc = "rejected"
              /\ p.ask = q.ask /\ p.request = q.request /\ p.error = error
  BY DEF CallState

LEMMA ErrorsAreErrors ==
    /\ \A i \in DOMAIN TokenErrors : TokenErrors[i] \in Errors
    /\ \A i \in DOMAIN CredentialErrors : CredentialErrors[i] \in Errors
    /\ {"NO_ISSUER", "NO_SCOPE", "NO_PAR_ENDPOINT", "FETCH", "RETRIEVAL", "STACK_OVERFLOW",
        "SIGN_CALLBACK", "JWS_NOT_VALID", "URL_NOT_VALID", "NO_CLIENT_ID"} \subseteq Errors
<1>1. "NO_CLIENT_ID" = CredentialErrors[5] /\ 5 \in DOMAIN CredentialErrors
  BY DEF CredentialErrors
<1> QED BY <1>1 DEF Errors

\* No error of a check is the lost one.
LEMMA ChecksDoNotOverflow ==
    /\ \A i \in DOMAIN TokenErrors : TokenErrors[i] # "STACK_OVERFLOW"
    /\ \A i \in DOMAIN CredentialErrors : CredentialErrors[i] # "STACK_OVERFLOW"
  BY DEF TokenErrors, CredentialErrors

(***************************************************************************)
(* What holds of a call on its way, when R are the responses received and  *)
(* has says whether there is metadata; both only grow.                     *)
(***************************************************************************)
Proving == {"signing", "verifying", "sending"}

CallSound(q, R, has) ==
    /\ q.pc = "requesting" /\ ~has => q.request.url = "issuer"
    /\ q.pc \in Proving =>
          /\ \E response \in R : /\ q.request.accessToken = response.accessToken
                                 /\ q.request.nonce = response.cNonce
          /\ q.ask.kid # Undefined => q.request.kid = q.ask.kid
          /\ q.ask.alg # Undefined => q.request.alg = q.ask.alg
    /\ q.error = "STACK_OVERFLOW" => q.request.url = "issuer"

WalletInv ==
    /\ TypeOK
    /\ accessTokenResponse # Undefined => accessTokenResponse \in received
    /\ \A f \in Flows : CallSound(call[f], received, HasMetadata)

LEMMA InitWallet == Init => WalletInv
<1> SUFFICES ASSUME Init PROVE WalletInv
  OBVIOUS
<1> USE WalletAssumption, WalletUndefined
<1>1. NoCall \in CallState
  BY CallIsTyped DEF NoCall, CallState
<1>2. TypeOK
  <2>1. call \in [Flows -> CallState]
    BY <1>1 DEF Init
  <2>2. endpointMetadata \in Metadata \cup {Undefined}
    BY DEF Init
  <2>3. calls \in 0 .. MaxCalls
    BY DEF Init
  <2>4. overlapped \in BOOLEAN
    BY DEF Init
  <2> QED BY <2>1, <2>2, <2>3, <2>4 DEF Init, TypeOK
<1>3. \A f \in Flows : CallSound(call[f], received, HasMetadata)
  <2>1. Undefined # "STACK_OVERFLOW"
    BY ErrorsAreErrors
  <2> QED BY <2>1 DEF Init, NoCall, CallSound, Proving
<1> QED BY <1>2, <1>3 DEF Init, WalletInv

\* A call moves to q, while the responses and the metadata only grow.
LEMMA CallKeepsSound ==
    ASSUME WalletInv, NEW f \in Flows, NEW q \in CallState, call' = [call EXCEPT ![f] = q],
           UNCHANGED offer, received \subseteq received', HasMetadata => HasMetadata',
           CallSound(q, received', HasMetadata')
    PROVE  /\ call' \in [Flows -> CallState]
           /\ (\A g \in Flows : CallSound(call[g], received, HasMetadata))'
<1>1. call \in [Flows -> CallState]
  BY DEF WalletInv, TypeOK
<1>2. call' \in [Flows -> CallState]
  BY <1>1
<1>3. ASSUME NEW g \in Flows PROVE CallSound(call'[g], received', HasMetadata')
  <2>1. CASE g = f
    BY <1>1, <2>1
  <2>2. CASE g # f
    <3>1. call'[g] = call[g] /\ CallSound(call[g], received, HasMetadata)
      BY <1>1, <2>2 DEF WalletInv
    <3> HIDE DEF HasMetadata
    <3> QED BY <3>1 DEF CallSound
  <2> QED BY <2>1, <2>2
<1>4. offer' = offer
  OBVIOUS
<1> QED BY <1>2, <1>3, <1>4 DEF CallSound, HasMetadata

\* A call moves and nothing else but what it touches of the rest of the types.
LEMMA CallKeepsInv ==
    ASSUME WalletInv, NEW f \in Flows, NEW q \in CallState, call' = [call EXCEPT ![f] = q],
           UNCHANGED <<offer, endpointMetadata, accessTokenResponse, received>>,
           calls' \in 0 .. MaxCalls, clientId' \in ClientIds \cup {Undefined},
           kid' \in Kids \cup {Undefined}, alg' \in Algs \cup {Undefined},
           overlapped' \in BOOLEAN, latest' \in Nonces \cup {Undefined},
           CallSound(q, received, HasMetadata)
    PROVE  WalletInv'
<1>1. received' = received /\ HasMetadata' = HasMetadata
  BY DEF HasMetadata
<1>2. /\ call' \in [Flows -> CallState]
      /\ (\A g \in Flows : CallSound(call[g], received, HasMetadata))'
  <2> HIDE DEF HasMetadata
  <2> QED BY <1>1, CallKeepsSound
<1>3. TypeOK'
  BY <1>2 DEF WalletInv, TypeOK
<1> QED BY <1>2, <1>3 DEF WalletInv

\* Going on without a proof or a token request in it.
LEMMA GotoKeepsInv ==
    ASSUME WalletInv, NEW f \in Flows, NEW pc \in Progress, Goto(f, pc),
           UNCHANGED <<offer, endpointMetadata, accessTokenResponse, clientId, kid, alg,
                       received, overlapped>>,
           latest' \in Nonces \cup {Undefined},
           pc # "requesting", pc \in Proving => call[f].pc \in Proving
    PROVE  WalletInv'
<1> DEFINE q == [call[f] EXCEPT !.pc = pc]
<1>1. call[f] \in CallState /\ CallSound(call[f], received, HasMetadata)
  BY DEF WalletInv, TypeOK
<1>2. /\ q \in CallState /\ q.pc = pc
      /\ q.ask = call[f].ask /\ q.request = call[f].request /\ q.error = call[f].error
  BY <1>1, GotoIsTyped
<1>3. call' = [call EXCEPT ![f] = q] /\ UNCHANGED calls
  BY DEF Goto
<1> HIDE DEF q
<1>4. CallSound(q, received, HasMetadata)
  BY <1>1, <1>2 DEF CallSound
<1>5. /\ calls' \in 0 .. MaxCalls /\ overlapped' \in BOOLEAN
      /\ clientId' \in ClientIds \cup {Undefined}
      /\ kid' \in Kids \cup {Undefined} /\ alg' \in Algs \cup {Undefined}
  BY <1>3 DEF WalletInv, TypeOK
<1> QED BY <1>2, <1>3, <1>4, <1>5, CallKeepsInv

LEMMA RejectKeepsInv ==
    ASSUME WalletInv, NEW f \in Flows, NEW error \in Errors, Reject(f, error),
           UNCHANGED <<client, history>>,
           error = "STACK_OVERFLOW" => call[f].request.url = "issuer"
    PROVE  WalletInv'
<1> DEFINE q == [call[f] EXCEPT !.pc = "rejected", !.error = error]
<1>1. call[f] \in CallState /\ CallSound(call[f], received, HasMetadata)
  BY DEF WalletInv, TypeOK
<1>2. /\ q \in CallState /\ q.pc = "rejected"
      /\ q.ask = call[f].ask /\ q.request = call[f].request /\ q.error = error
  BY <1>1, RejectIsTyped
<1>3. call' = [call EXCEPT ![f] = q] /\ UNCHANGED calls
  BY DEF Reject
<1> HIDE DEF q
<1>4. CallSound(q, received, HasMetadata)
  BY <1>2 DEF CallSound, Proving
<1>5. /\ calls' \in 0 .. MaxCalls /\ overlapped' \in BOOLEAN
      /\ clientId' \in ClientIds \cup {Undefined} /\ latest' \in Nonces \cup {Undefined}
      /\ kid' \in Kids \cup {Undefined} /\ alg' \in Algs \cup {Undefined}
  BY <1>3 DEF WalletInv, TypeOK, client, history
<1> QED BY <1>2, <1>3, <1>4, <1>5, CallKeepsInv DEF client, history

\* A new call.
LEMMA BeginKeepsInv ==
    ASSUME WalletInv, NEW f \in Flows, NEW ask \in MaybeAsk, NEW pc \in Progress,
           NEW request \in MaybeRequest, NEW error \in MaybeError,
           Begin(f, ask, pc, request, error), error # "STACK_OVERFLOW",
           UNCHANGED <<offer, endpointMetadata, accessTokenResponse, received, latest>>,
           clientId' \in ClientIds \cup {Undefined}, overlapped' \in BOOLEAN,
           kid' \in Kids \cup {Undefined}, alg' \in Algs \cup {Undefined},
           pc = "requesting" =>
              (~HasMetadata => request.url = "issuer"),
           pc \in Proving =>
              /\ \E response \in received : /\ request.accessToken = response.accessToken
                                            /\ request.nonce = response.cNonce
              /\ ask.kid # Undefined => request.kid = ask.kid
              /\ ask.alg # Undefined => request.alg = ask.alg
    PROVE  WalletInv'
<1> DEFINE q == [pc |-> pc, ask |-> ask, request |-> request, error |-> error]
<1>1. q \in CallState
  BY CallIsTyped
<1>2. q.pc = pc /\ q.ask = ask /\ q.request = request /\ q.error = error
  OBVIOUS
<1>3. call' = [call EXCEPT ![f] = q]
  BY DEF Begin
<1>4. calls' \in 0 .. MaxCalls
  BY WalletAssumption DEF Begin, WalletInv, TypeOK
<1> HIDE DEF q
<1>5. CallSound(q, received, HasMetadata)
  BY <1>2 DEF CallSound
<1>6. latest' \in Nonces \cup {Undefined}
  BY DEF WalletInv, TypeOK
<1> QED BY <1>1, <1>3, <1>4, <1>5, <1>6, CallKeepsInv

\* A call that ends at once.
LEMMA EndsKeepsInv ==
    ASSUME WalletInv, NEW f \in Flows, NEW ask \in MaybeAsk,
           \/ Return(f, ask)
           \/ \E error \in Errors \ {"STACK_OVERFLOW"} : Throw(f, ask, error),
           UNCHANGED <<offer, endpointMetadata, accessTokenResponse, received, latest>>,
           clientId' \in ClientIds \cup {Undefined}, overlapped' \in BOOLEAN,
           kid' \in Kids \cup {Undefined}, alg' \in Algs \cup {Undefined}
    PROVE  WalletInv'
<1>1. /\ "resolved" \in Progress /\ "rejected" \in Progress
      /\ "resolved" \notin Proving \cup {"requesting"}
      /\ "rejected" \notin Proving \cup {"requesting"}
      /\ Undefined \in MaybeRequest /\ Undefined \in MaybeError
      /\ Undefined # "STACK_OVERFLOW" /\ Errors \subseteq MaybeError
  BY ErrorsAreErrors, WalletUndefined DEF Progress, Proving, MaybeRequest, MaybeError
<1>2. CASE Return(f, ask)
  BY <1>1, <1>2, BeginKeepsInv DEF Return
<1>3. CASE \E error \in Errors \ {"STACK_OVERFLOW"} : Throw(f, ask, error)
  BY <1>1, <1>3, BeginKeepsInv DEF Throw
<1> QED BY <1>2, <1>3

\* The token request of an ask.
LEMMA RequestIsTyped ==
    ASSUME WalletInv, NEW ask \in TokenAsks, NEW id \in ClientIds, NEW has \in BOOLEAN
    PROVE  LET request == TokenRequestOf(offer, ask, id, has)
           IN request \in TokenRequest /\ (~has => request.url = "issuer")
<1>1. ask.pin \in Pins \cup {Undefined}
  BY WalletAssumption DEF TokenAsk
<1>2. GrantType(offer, ask) \in {PreAuthorizedCode, "authorization_code", Undefined}
  BY DEF GrantType
<1>3. offer \in Offer
  BY WalletAssumption DEF WalletInv, TypeOK
<1>4. HasPreAuthCode(offer) \in BOOLEAN
  BY <1>3 DEF HasPreAuthCode, Offer
<1>5. (IF has THEN "metadata" ELSE "issuer") \in {"metadata", "issuer"}
  OBVIOUS
<1> QED BY <1>1, <1>2, <1>4, <1>5 DEF TokenRequestOf, TokenRequest

LEMMA AcquireAccessTokenInv ==
    ASSUME WalletInv, NEW f \in Flows, NEW ask \in TokenAsks, AcquireAccessToken(f, ask)
    PROVE  WalletInv'
<1>1. ask \in MaybeAsk /\ ask \in TokenAsk
  BY WalletAssumption DEF MaybeAsk
<1>2. clientId' \in ClientIds \cup {Undefined}
  BY <1>1 DEF AcquireAccessToken, Or, TokenAsk, WalletInv, TypeOK
<1>3. /\ UNCHANGED <<offer, endpointMetadata, accessTokenResponse, received, latest>>
      /\ kid' \in Kids \cup {Undefined} /\ alg' \in Algs \cup {Undefined}
  BY DEF AcquireAccessToken, WalletInv, TypeOK
<1>4. overlapped \in BOOLEAN /\ HasMetadata \in BOOLEAN
  BY DEF WalletInv, TypeOK, HasMetadata
<1>5. CASE Return(f, ask) /\ UNCHANGED overlapped
  BY <1>1, <1>2, <1>3, <1>4, <1>5, EndsKeepsInv
<1>6. CASE (\E error \in Errors \ {"STACK_OVERFLOW"} : Throw(f, ask, error)) /\ UNCHANGED overlapped
  BY <1>1, <1>2, <1>3, <1>4, <1>6, EndsKeepsInv
<1>7. CASE /\ clientId' # Undefined
           /\ TokenChecksPass(offer, ask, HasMetadata)
           /\ Await(f, ask, "requesting", TokenRequestOf(offer, ask, clientId', HasMetadata))
           /\ overlapped' = (overlapped \/ \E g \in Flows : call[g].pc = "requesting")
  <2> DEFINE request == TokenRequestOf(offer, ask, clientId', HasMetadata)
  <2>1. clientId' \in ClientIds
    BY <1>2, <1>7
  <2>2. request \in TokenRequest /\ (~HasMetadata => request.url = "issuer")
    <3> HIDE DEF HasMetadata
    <3> QED BY <1>4, <1>7, <2>1, RequestIsTyped
  <2>3. Begin(f, ask, "requesting", request, Undefined)
    BY <1>7 DEF Await
  <2>4. overlapped' \in BOOLEAN
    BY <1>4, <1>7
  <2> HIDE DEF request
  <2>5. /\ request \in MaybeRequest /\ "requesting" \in Progress /\ Undefined \in MaybeError
        /\ Undefined # "STACK_OVERFLOW" /\ "requesting" \notin Proving
    BY <2>2, ErrorsAreErrors, WalletUndefined
    DEF MaybeRequest, MaybeError, Progress, Pending, Proving
  <2> QED BY <1>1, <1>2, <1>3, <2>2, <2>3, <2>4, <2>5, BeginKeepsInv
<1>8. /\ "NO_CLIENT_ID" \in Errors \ {"STACK_OVERFLOW"}
      /\ \A i \in DOMAIN TokenErrors : TokenErrors[i] \in Errors \ {"STACK_OVERFLOW"}
  BY ErrorsAreErrors, ChecksDoNotOverflow
<1> QED BY <1>5, <1>6, <1>7, <1>8 DEF AcquireAccessToken, RequestToken

\* A credential request that passes the checks has all of its parts.
LEMMA AcquireCredentialsInv ==
    ASSUME WalletInv, NEW f \in Flows, NEW ask \in CredentialAsks, AcquireCredentials(f, ask)
    PROVE  WalletInv'
<1> DEFINE Fails(i) == CredentialCheckFails(i, ask, kid', alg')
           request == CredentialRequestOf(ask, kid', alg')
<1>1. ask \in MaybeAsk /\ ask \in CredentialAsk
  BY WalletAssumption DEF MaybeAsk
<1>2. /\ kid' = Or(ask.kid, kid) /\ alg' = Or(ask.alg, alg)
      /\ UNCHANGED <<offer, endpointMetadata, accessTokenResponse, clientId, received, overlapped, latest>>
  BY DEF AcquireCredentials, history
<1>3. /\ kid' \in Kids \cup {Undefined} /\ alg' \in Algs \cup {Undefined}
      /\ clientId' \in ClientIds \cup {Undefined} /\ overlapped' \in BOOLEAN
  BY <1>1, <1>2 DEF Or, CredentialAsk, WalletInv, TypeOK
<1>4. CASE \E i \in DOMAIN CredentialErrors : Throw(f, ask, CredentialErrors[i])
  <2>1. \A i \in DOMAIN CredentialErrors : CredentialErrors[i] \in Errors \ {"STACK_OVERFLOW"}
    BY ErrorsAreErrors, ChecksDoNotOverflow
  <2> QED BY <1>1, <1>2, <1>3, <1>4, <2>1, EndsKeepsInv
<1>5. CASE /\ \A i \in DOMAIN CredentialErrors : ~Fails(i)
           /\ Await(f, ask, "signing", request)
  <2>1. /\ 1 \in DOMAIN CredentialErrors /\ 2 \in DOMAIN CredentialErrors
        /\ 4 \in DOMAIN CredentialErrors /\ 5 \in DOMAIN CredentialErrors
        /\ 6 \in DOMAIN CredentialErrors
    BY DEF CredentialErrors
  <2>2. /\ ~CredentialCheckFails(1, ask, kid', alg') /\ ~CredentialCheckFails(2, ask, kid', alg')
        /\ ~CredentialCheckFails(4, ask, kid', alg') /\ ~CredentialCheckFails(5, ask, kid', alg')
        /\ ~CredentialCheckFails(6, ask, kid', alg')
    BY <1>5, <2>1
  <2>3. /\ endpointMetadata # Undefined /\ accessTokenResponse # Undefined
        /\ alg' # Undefined /\ clientId # Undefined /\ kid' # Undefined
    BY <2>2 DEF CredentialCheckFails, HasMetadata
  <2>4. /\ endpointMetadata \in Metadata /\ accessTokenResponse \in TokenResponse
        /\ kid' \in Kids /\ alg' \in Algs /\ clientId \in ClientIds
        /\ accessTokenResponse \in received
    BY <1>2, <1>3, <2>3 DEF WalletInv, TypeOK
  <2>5. /\ request.accessToken = accessTokenResponse.accessToken
        /\ request.nonce = accessTokenResponse.cNonce
        /\ request.kid = kid' /\ request.alg = alg'
    BY DEF CredentialRequestOf
  <2>6. request \in CredentialRequest
    <3>1. /\ accessTokenResponse.accessToken \in Tokens
          /\ accessTokenResponse.cNonce \in Nonces \cup {Undefined}
      BY <2>4 DEF TokenResponse
    <3>2. endpointMetadata.validEndpoint \in BOOLEAN
      BY <2>4 DEF Metadata
    <3>3. ask.types \in SUBSET Types
      BY <1>1 DEF CredentialAsk
    <3> QED BY <2>4, <3>1, <3>2, <3>3 DEF CredentialRequestOf, CredentialRequest
  <2>7. Begin(f, ask, "signing", request, Undefined)
    BY <1>5 DEF Await
  <2> HIDE DEF request
  <2>8. /\ request \in MaybeRequest /\ "signing" \in Progress /\ Undefined \in MaybeError
        /\ Undefined # "STACK_OVERFLOW" /\ "signing" # "requesting"
    BY <2>6, ErrorsAreErrors, WalletUndefined
    DEF MaybeRequest, MaybeError, Progress, Pending
  <2>9. /\ ask.kid # Undefined => request.kid = ask.kid
        /\ ask.alg # Undefined => request.alg = ask.alg
    BY <1>2, <2>5 DEF Or
  <2> QED BY <1>1, <1>2, <1>3, <2>4, <2>5, <2>7, <2>8, <2>9, BeginKeepsInv
<1> QED BY <1>4, <1>5 DEF AcquireCredentials

\* The answers that change the client object.
LEMMA ReceiveMetadataInv ==
    ASSUME WalletInv, NEW f \in Flows, ReceiveMetadata(f)
    PROVE  WalletInv'
<1> DEFINE q == [call[f] EXCEPT !.pc = "resolved"]
<1>1. /\ endpointMetadata' \in Metadata /\ HasMetadata'
      /\ UNCHANGED <<offer, accessTokenResponse, clientId, kid, alg, history>>
  BY WalletAssumption, WalletUndefined DEF ReceiveMetadata, HasMetadata
<1>2. call' = [call EXCEPT ![f] = q] /\ UNCHANGED calls
  BY DEF ReceiveMetadata, Goto
<1>3. call[f] \in CallState /\ CallSound(call[f], received, HasMetadata)
  BY DEF WalletInv, TypeOK
<1>4. /\ q \in CallState /\ q.pc = "resolved"
      /\ q.request = call[f].request /\ q.error = call[f].error
  BY <1>3, GotoIsTyped DEF Progress
<1> HIDE DEF q
<1>5. CallSound(q, received', HasMetadata')
  BY <1>3, <1>4 DEF CallSound, Proving
<1>6. /\ call' \in [Flows -> CallState]
      /\ (\A g \in Flows : CallSound(call[g], received, HasMetadata))'
  BY <1>1, <1>2, <1>4, <1>5, CallKeepsSound DEF history
<1>7. TypeOK'
  BY <1>1, <1>2, <1>6 DEF WalletInv, TypeOK, history
<1> QED BY <1>1, <1>6, <1>7 DEF WalletInv, history

LEMMA ReceiveTokenInv ==
    ASSUME WalletInv, NEW f \in Flows, ReceiveToken(f)
    PROVE  WalletInv'
<1> DEFINE q == [call[f] EXCEPT !.pc = "resolved"]
<1>1. PICK response \in TokenResponse :
         /\ accessTokenResponse' = response /\ received' = received \cup {response}
         /\ latest' = Or(response.cNonce, latest)
  BY DEF ReceiveToken
<1>2. /\ call' = [call EXCEPT ![f] = q] /\ UNCHANGED calls
      /\ UNCHANGED <<offer, endpointMetadata, clientId, kid, alg, overlapped>>
  BY DEF ReceiveToken, Goto
<1>3. call[f] \in CallState /\ CallSound(call[f], received, HasMetadata)
  BY DEF WalletInv, TypeOK
<1>4. /\ q \in CallState /\ q.pc = "resolved"
      /\ q.request = call[f].request /\ q.error = call[f].error
  BY <1>3, GotoIsTyped DEF Progress
<1> HIDE DEF q
<1>5. CallSound(q, received', HasMetadata') /\ HasMetadata' = HasMetadata
  BY <1>2, <1>3, <1>4 DEF CallSound, Proving, HasMetadata
<1>6. /\ call' \in [Flows -> CallState]
      /\ (\A g \in Flows : CallSound(call[g], received, HasMetadata))'
  BY <1>1, <1>2, <1>4, <1>5, CallKeepsSound
<1>7. latest' \in Nonces \cup {Undefined}
  BY <1>1 DEF Or, TokenResponse, WalletInv, TypeOK
<1>8. TypeOK'
  BY <1>1, <1>2, <1>6, <1>7 DEF WalletInv, TypeOK
<1> QED BY <1>1, <1>6, <1>8 DEF WalletInv

\* The authorization endpoint is copied into metadata that are there.
LEMMA CreateUrlInv ==
    ASSUME WalletInv, NEW scoped \in BOOLEAN, CreateAuthorizationRequestUrl(scoped)
    PROVE  WalletInv'
<1>1. /\ endpointMetadata' = [endpointMetadata EXCEPT !.authorizationEndpoint = TRUE]
      /\ endpointMetadata \in Metadata
      /\ UNCHANGED <<offer, accessTokenResponse, clientId, kid, alg, call, calls, history>>
  BY DEF CreateAuthorizationRequestUrl, HasMetadata, WalletInv, TypeOK
<1>2. endpointMetadata' \in Metadata /\ HasMetadata' = HasMetadata
  BY <1>1, WalletUndefined DEF Metadata, HasMetadata
<1>3. (\A f \in Flows : CallSound(call[f], received, HasMetadata))'
  BY <1>1, <1>2 DEF WalletInv, CallSound, history
<1>4. TypeOK'
  BY <1>1, <1>2 DEF WalletInv, TypeOK, history
<1> QED BY <1>1, <1>3, <1>4 DEF WalletInv, history

\* The request goes out, or its endpoint is no URL.
LEMMA SendInv ==
    ASSUME WalletInv, NEW f \in Flows, call[f].pc \in Proving, Send(f),
           UNCHANGED <<client, history>>
    PROVE  WalletInv'
<1>1. "sending" \in Progress /\ latest' \in Nonces \cup {Undefined}
  BY DEF Progress, Pending, history, WalletInv, TypeOK
<1>2. CASE Goto(f, "sending")
  BY <1>1, <1>2, GotoKeepsInv DEF client, history
<1>3. CASE Reject(f, "URL_NOT_VALID")
  BY <1>3, RejectKeepsInv, ErrorsAreErrors
<1> QED BY <1>2, <1>3 DEF Send

LEMMA ContinueInv ==
    ASSUME WalletInv, NEW f \in Flows, Continue(f)
    PROVE  WalletInv'
<1>1. /\ {"FETCH", "RETRIEVAL", "STACK_OVERFLOW", "SIGN_CALLBACK", "JWS_NOT_VALID"} \subseteq Errors
      /\ "resolved" \in Progress /\ "verifying" \in Progress
      /\ "resolved" \notin Proving /\ {"signing", "verifying", "sending"} \subseteq Proving
  BY ErrorsAreErrors DEF Progress, Pending, Proving
<1>2. latest \in Nonces \cup {Undefined}
  BY DEF WalletInv, TypeOK
<1>3. CASE ReceiveMetadata(f) \/ ReceiveToken(f)
  BY <1>3, ReceiveMetadataInv, ReceiveTokenInv
<1>4. CASE MetadataFails(f) \/ TokenRequestFails(f) \/ CredentialRefused(f) \/ SignFails(f)
  <2>1. \E error \in Errors \ {"STACK_OVERFLOW"} : Reject(f, error)
    BY <1>1, <1>4 DEF MetadataFails, TokenRequestFails, CredentialRefused, SignFails
  <2>2. UNCHANGED <<client, history>>
    BY <1>4 DEF MetadataFails, TokenRequestFails, CredentialRefused, SignFails
  <2> QED BY <2>1, <2>2, RejectKeepsInv
<1>5. CASE TokenRefused(f)
  <2>1. call[f].pc = "requesting" /\ CallSound(call[f], received, HasMetadata)
    BY <1>5 DEF TokenRefused, WalletInv
  <2>2. ~HasMetadata => call[f].request.url = "issuer"
    BY <2>1 DEF CallSound
  <2>3. CASE HasMetadata /\ Reject(f, "RETRIEVAL")
    BY <1>1, <1>5, <2>3, RejectKeepsInv DEF TokenRefused
  <2>4. CASE ~HasMetadata /\ Reject(f, "STACK_OVERFLOW")
    BY <1>1, <1>5, <2>2, <2>4, RejectKeepsInv DEF TokenRefused
  <2> QED BY <1>5, <2>3, <2>4 DEF TokenRefused
<1>6. CASE ReceivePushed(f)
  <2>1. UNCHANGED <<client, history>>
    BY <1>6 DEF ReceivePushed
  <2>2. CASE Goto(f, "resolved")
    BY <1>1, <1>2, <2>1, <2>2, GotoKeepsInv DEF client, history
  <2>3. CASE Reject(f, "FETCH")
    BY <1>1, <2>1, <2>3, RejectKeepsInv
  <2> QED BY <1>6, <2>2, <2>3 DEF ReceivePushed
<1>7. CASE Sign(f)
  <2>1. UNCHANGED <<client, history>> /\ call[f].pc \in Proving
    BY <1>1, <1>7 DEF Sign
  <2>2. CASE Goto(f, "verifying")
    BY <1>1, <1>2, <2>1, <2>2, GotoKeepsInv DEF client, history
  <2>3. CASE Send(f)
    BY <2>1, <2>3, SendInv
  <2> QED BY <1>7, <2>2, <2>3 DEF Sign
<1>8. CASE Verify(f)
  <2>1. UNCHANGED <<client, history>> /\ call[f].pc \in Proving
    BY <1>1, <1>8 DEF Verify
  <2>2. CASE Send(f)
    BY <2>1, <2>2, SendInv
  <2>3. CASE Reject(f, "JWS_NOT_VALID")
    BY <1>1, <2>1, <2>3, RejectKeepsInv
  <2> QED BY <1>8, <2>2, <2>3 DEF Verify
<1>9. CASE ReceiveCredential(f)
  <2>1. latest' \in Nonces \cup {Undefined}
    BY <1>2, <1>9 DEF ReceiveCredential, Or
  <2> QED BY <1>1, <1>9, <2>1, GotoKeepsInv DEF ReceiveCredential, client
<1> QED BY <1>3, <1>4, <1>5, <1>6, <1>7, <1>8, <1>9 DEF Continue

LEMMA AskInv ==
    ASSUME WalletInv, NEW f \in Flows, Ask(f)
    PROVE  WalletInv'
<1>1. /\ Undefined \in MaybeAsk /\ Undefined \in MaybeRequest /\ Undefined \in MaybeError
      /\ "fetching" \in Progress /\ "pushing" \in Progress
      /\ {"fetching", "pushing"} \cap (Proving \cup {"requesting"}) = {}
      /\ Undefined # "STACK_OVERFLOW"
      /\ {"NO_ISSUER", "NO_SCOPE", "NO_PAR_ENDPOINT"} \subseteq Errors \ {"STACK_OVERFLOW"}
  BY ErrorsAreErrors, WalletUndefined
  DEF MaybeAsk, MaybeRequest, MaybeError, Progress, Pending, Proving
<1>2. CASE \/ RetrieveServerMetadata(f)
           \/ \E scoped \in BOOLEAN : AcquirePushedAuthorizationRequestURI(f, scoped)
  <2>1. /\ UNCHANGED <<offer, endpointMetadata, accessTokenResponse, received, latest>>
        /\ clientId' \in ClientIds \cup {Undefined} /\ overlapped' \in BOOLEAN
        /\ kid' \in Kids \cup {Undefined} /\ alg' \in Algs \cup {Undefined}
    BY <1>2 DEF RetrieveServerMetadata, AcquirePushedAuthorizationRequestURI, client, history,
                WalletInv, TypeOK
  <2>2. CASE \/ Return(f, Undefined)
             \/ \E error \in Errors \ {"STACK_OVERFLOW"} : Throw(f, Undefined, error)
    BY <1>1, <2>1, <2>2, EndsKeepsInv
  <2>3. CASE \E pc \in {"fetching", "pushing"} : Await(f, Undefined, pc, Undefined)
    BY <1>1, <2>1, <2>3, BeginKeepsInv DEF Await
  <2> QED
    BY <1>1, <1>2, <2>2, <2>3 DEF RetrieveServerMetadata, AcquirePushedAuthorizationRequestURI
<1> QED BY <1>2, AcquireAccessTokenInv, AcquireCredentialsInv DEF Ask

LEMMA WalletStep == WalletInv /\ [Next]_vars => WalletInv'
<1>1. ASSUME WalletInv, UNCHANGED vars PROVE WalletInv'
  <2>1. TypeOK'
    BY <1>1 DEF vars, client, history, WalletInv, TypeOK
  <2> QED BY <1>1, <2>1 DEF vars, client, history, WalletInv, CallSound, HasMetadata
<1> QED BY <1>1, ContinueInv, AskInv, CreateUrlInv DEF Next

LEMMA WalletHolds == Spec => []WalletInv
  BY InitWallet, WalletStep, PTL DEF Spec

\* A credential request presents the token and the nonce of one token response,
\* whatever other flows receive while its proof is signed (acquireCredentials).
THEOREM RequestsAreOfOneResponse == Spec => []RequestOfOneResponse
<1>1. WalletInv => RequestOfOneResponse
  BY DEF WalletInv, CallSound, Proving, RequestOfOneResponse, InProof
<1> QED BY <1>1, WalletHolds, PTL

\* A proof is signed with the kid and alg its own call asked for, whatever other
\* flows set on the shared object (acquireCredentials).
THEOREM ProofsAreSignedAsAsked == Spec => []SignedAsAsked
<1>1. WalletInv => SignedAsAsked
  BY DEF WalletInv, CallSound, Proving, SignedAsAsked, InProof
<1> QED BY <1>1, WalletHolds, PTL

\* The error of a refused token request is lost only without metadata: what is
\* cached stays cached (getIssuer, retrieveServerMetadata).
THEOREM OverflowsLackMetadata == Spec => []OverflowOnlyWithoutMetadata
<1>1. WalletInv => OverflowOnlyWithoutMetadata
  BY DEF WalletInv, CallSound, OverflowOnlyWithoutMetadata
<1> QED BY <1>1, WalletHolds, PTL

\* Every variable of the client object and of its calls keeps its type.
THEOREM WalletTypeCorrect == Spec => []TypeOK
<1>1. WalletInv => TypeOK
  BY DEF WalletInv
<1> QED BY <1>1, WalletHolds, PTL
-----------------------------------------------------------------------------
(***************************************************************************)
(* CodeRedeemedOnce needs to know of the requests still under way: until   *)
(* two have overlapped there is one at most, and none once a response is   *)
(* cached.                                                                 *)
(***************************************************************************)
Requesting(f) == call[f].pc = "requesting"

OnceInv ==
    /\ accessTokenResponse = Undefined <=> received = {}
    /\ ~overlapped =>
          /\ \A f, g \in Flows : Requesting(f) /\ Requesting(g) => f = g
          /\ \A f \in Flows : Requesting(f) => received = {}
          /\ \A a, b \in received : a = b

\* A step that sends no token request and receives no response.
LEMMA QuietStep ==
    ASSUME OnceInv, UNCHANGED <<accessTokenResponse, received, overlapped>>,
           \A f \in Flows : Requesting(f)' => Requesting(f)
    PROVE  OnceInv'
  BY DEF OnceInv

LEMMA MovesQuietly ==
    ASSUME TypeOK, NEW f \in Flows, NEW q, call' = [call EXCEPT ![f] = q],
           q.pc # "requesting"
    PROVE  \A g \in Flows : Requesting(g)' => Requesting(g)
  BY DEF TypeOK, Requesting

LEMMA GoesQuietly ==
    ASSUME TypeOK, NEW f \in Flows,
           \/ \E pc \in {"verifying", "sending", "resolved"} : Goto(f, pc)
           \/ \E error : Reject(f, error)
    PROVE  \A g \in Flows : Requesting(g)' => Requesting(g)
<1>1. call[f] \in CallState
  BY DEF TypeOK
<1>2. ASSUME NEW pc \in {"verifying", "sending", "resolved"}, Goto(f, pc)
      PROVE  \A g \in Flows : Requesting(g)' => Requesting(g)
  <2> DEFINE q == [call[f] EXCEPT !.pc = pc]
  <2>1. call' = [call EXCEPT ![f] = q] /\ q.pc # "requesting"
    BY <1>1, <1>2 DEF Goto, CallState
  <2> HIDE DEF q
  <2> QED BY <2>1, MovesQuietly
<1>3. ASSUME NEW error, Reject(f, error)
      PROVE  \A g \in Flows : Requesting(g)' => Requesting(g)
  <2> DEFINE q == [call[f] EXCEPT !.pc = "rejected", !.error = error]
  <2>1. call' = [call EXCEPT ![f] = q] /\ q.pc # "requesting"
    BY <1>1, <1>3 DEF Reject, CallState
  <2> HIDE DEF q
  <2> QED BY <2>1, MovesQuietly
<1> QED BY <1>2, <1>3

LEMMA BeginsQuietly ==
    ASSUME TypeOK, NEW f \in Flows, NEW ask, NEW pc, NEW request, NEW error,
           Begin(f, ask, pc, request, error), pc # "requesting"
    PROVE  \A g \in Flows : Requesting(g)' => Requesting(g)
<1> DEFINE q == [pc |-> pc, ask |-> ask, request |-> request, error |-> error]
<1>1. call' = [call EXCEPT ![f] = q] /\ q.pc # "requesting"
  BY DEF Begin
<1> HIDE DEF q
<1> QED BY <1>1, MovesQuietly

LEMMA OnceStep == TypeOK /\ OnceInv /\ [Next]_vars => OnceInv'
<1> SUFFICES ASSUME TypeOK, OnceInv, [Next]_vars PROVE OnceInv'
  OBVIOUS
<1>1. ASSUME NEW f \in Flows, ReceiveToken(f) PROVE OnceInv'
  <2> DEFINE q == [call[f] EXCEPT !.pc = "resolved"]
  <2>1. PICK response \in TokenResponse :
           /\ accessTokenResponse' = response /\ received' = received \cup {response}
           /\ Requesting(f) /\ UNCHANGED overlapped /\ call' = [call EXCEPT ![f] = q]
    BY <1>1 DEF ReceiveToken, Goto, Requesting
  <2>2. call[f] \in CallState
    BY DEF TypeOK
  <2>3. q.pc = "resolved"
    BY <2>2 DEF CallState
  <2> HIDE DEF q
  <2>4. ~Requesting(f)' /\ \A g \in Flows : Requesting(g)' => Requesting(g)
    BY <2>1, <2>3 DEF TypeOK, Requesting
  <2>5. response # Undefined
    BY WalletUndefined
  <2>6. ~overlapped => received = {} /\ \A g \in Flows : ~Requesting(g)'
    BY <2>1, <2>4 DEF OnceInv
  <2> HIDE DEF Requesting
  <2> QED BY <2>1, <2>5, <2>6 DEF OnceInv
<1>2. ASSUME NEW f \in Flows, NEW ask \in TokenAsks, AcquireAccessToken(f, ask) PROVE OnceInv'
  <2>1. UNCHANGED <<accessTokenResponse, received>>
    BY <1>2 DEF AcquireAccessToken
  <2>2. CASE /\ UNCHANGED overlapped
             /\ Return(f, ask) \/ \E error : Throw(f, ask, error)
    BY <2>1, <2>2, BeginsQuietly, QuietStep DEF Return, Throw
  <2>3. CASE /\ accessTokenResponse = Undefined
             /\ \E request : Await(f, ask, "requesting", request)
             /\ overlapped' = (overlapped \/ \E g \in Flows : call[g].pc = "requesting")
    <3>1. PICK request : call' = [call EXCEPT ![f] =
             [pc |-> "requesting", ask |-> ask, request |-> request, error |-> Undefined]]
      BY <2>3 DEF Await, Begin
    <3>2. \A g \in Flows \ {f} : Requesting(g)' => Requesting(g)
      BY <3>1 DEF TypeOK, Requesting
    <3>3. received = {}
      BY <2>3 DEF OnceInv
    <3>4. ~overlapped' => ~overlapped /\ \A g \in Flows : ~Requesting(g)
      BY <2>3 DEF Requesting
    <3>5. ~overlapped' => \A g \in Flows : Requesting(g)' => g = f
      BY <3>2, <3>4
    <3> HIDE DEF Requesting
    <3> QED BY <2>1, <3>3, <3>5 DEF OnceInv
  <2> QED BY <1>2, <2>2, <2>3 DEF AcquireAccessToken, RequestToken
<1>3. ASSUME NEW f \in Flows, Continue(f), ~ReceiveToken(f) PROVE OnceInv'
  <2>1. UNCHANGED <<accessTokenResponse, received, overlapped>>
    BY <1>3 DEF Continue, ReceiveMetadata, MetadataFails, ReceivePushed, TokenRefused,
                TokenRequestFails, Sign, SignFails, Verify, ReceiveCredential,
                CredentialRefused, client, history
  <2>2. \/ \E pc \in {"verifying", "sending", "resolved"} : Goto(f, pc)
        \/ \E error : Reject(f, error)
    BY <1>3 DEF Continue, ReceiveMetadata, MetadataFails, ReceivePushed, TokenRefused,
                TokenRequestFails, Sign, SignFails, Verify, Send, ReceiveCredential,
                CredentialRefused
  <2> QED BY <2>1, <2>2, GoesQuietly, QuietStep
<1>4. ASSUME NEW f \in Flows,
             \/ RetrieveServerMetadata(f)
             \/ \E scoped \in BOOLEAN : AcquirePushedAuthorizationRequestURI(f, scoped)
             \/ \E ask \in CredentialAsks : AcquireCredentials(f, ask)
      PROVE  OnceInv'
  <2>1. UNCHANGED <<accessTokenResponse, received, overlapped>>
    BY <1>4 DEF RetrieveServerMetadata, AcquirePushedAuthorizationRequestURI,
                AcquireCredentials, client, history
  <2>2. \E ask, pc, request, error : Begin(f, ask, pc, request, error) /\ pc # "requesting"
    BY <1>4 DEF RetrieveServerMetadata, AcquirePushedAuthorizationRequestURI,
                AcquireCredentials, Await, Return, Throw
  <2> QED BY <2>1, <2>2, BeginsQuietly, QuietStep
<1>5. CASE (\E scoped \in BOOLEAN : CreateAuthorizationRequestUrl(scoped)) \/ UNCHANGED vars
  <2>1. UNCHANGED <<accessTokenResponse, received, overlapped, call>>
    BY <1>5 DEF CreateAuthorizationRequestUrl, vars, client, history
  <2> QED BY <2>1, QuietStep DEF Requesting
<1> QED BY <1>1, <1>2, <1>3, <1>4, <1>5 DEF Next, Ask

\* A second response to one code is received only by flows whose token requests
\* were under way together (acquireAccessToken).
THEOREM CodeIsRedeemedOnce == Spec => []CodeRedeemedOnce
<1>1. Init => OnceInv
  BY DEF Init, NoCall, OnceInv, Requesting
<1>2. OnceInv => CodeRedeemedOnce
  <2> SUFFICES ASSUME OnceInv, ~overlapped PROVE ~(Cardinality(received) > 1)
    BY DEF CodeRedeemedOnce
  <2>1. CASE received = {}
    BY <2>1, FS_EmptySet
  <2>2. CASE received # {}
    <3>1. PICK a \in received : received = {a}
      BY <2>2 DEF OnceInv
    <3>2. Cardinality({a}) = 1
      BY FS_Singleton
    <3> QED BY <3>1, <3>2
  <2> QED BY <2>1, <2>2
<1> QED BY <1>1, <1>2, OnceStep, WalletTypeCorrect, PTL DEF Spec
=============================================================================
