---------------------------- MODULE WalletClient ----------------------------
(***************************************************************************)
(* One OpenID4VCIClient object, made of one credential offer, and the      *)
(* concurrent flows of the wallet that call it.  The object caches the     *)
(* issuer's metadata and the token response and keeps the last client id,  *)
(* kid and alg it was given.  A call runs in the steps between awaits:     *)
(*                                                                         *)
(*   fetching     the well-known documents are fetched                     *)
(*   requesting   the token request is sent, its answer awaited            *)
(*   signing      the sign callback is awaited                             *)
(*   verifying    the verify callback is awaited                           *)
(*   sending      the credential request is sent, its answer awaited       *)
(*   pushing      the pushed authorization request is sent                 *)
(*   resolved, rejected   the call has ended                               *)
(*                                                                         *)
(* The issuer is outside: it grants, refuses or does not answer, and may   *)
(* bring a c_nonce with every answer.                                      *)
(***************************************************************************)
EXTENDS AccessTokenRequest, FiniteSets

CONSTANTS
    Flows,            \* the flows that call the client object
    Offers,           \* the offers it may be made of
    Kids,             \* key ids
    Algs,             \* signing algorithms
    Types,            \* credential types
    Published,        \* what discovery may yield
    TokenAsks,        \* arguments of acquireAccessToken
    CredentialAsks,   \* arguments of acquireCredentials
    Tokens,           \* access tokens
    Nonces,           \* c_nonces
    MaxCalls          \* bound of the calls, for model checking

\* EndpointMetadata: the supported types (Undefined where the documents list
\* none), the two endpoints issuerMetadata may name, the field
\* authorization_endpoint, and whether isValidURL accepts credential_endpoint.
Metadata == [supported : {Undefined} \cup SUBSET Types,
             authorization : BOOLEAN, par : BOOLEAN,
             authorizationEndpoint : BOOLEAN, validEndpoint : BOOLEAN]

TokenResponse == [accessToken : Tokens, cNonce : Nonces \cup {Undefined}]

CredentialAsk == [types : SUBSET Types, kid : Kids \cup {Undefined},
                  alg : Algs \cup {Undefined},
                  signCallback : BOOLEAN, verifyCallback : BOOLEAN]

\* The credential request and its proof: token, nonce, kid, alg and iss.
CredentialRequest == [accessToken : Tokens, nonce : Nonces \cup {Undefined},
                      kid : Kids, alg : Algs, iss : ClientIds, types : SUBSET Types,
                      validEndpoint : BOOLEAN]

ASSUME WalletAssumption ==
    /\ Offers \subseteq Offer
    /\ Pins \subseteq PinText
    /\ Published \subseteq Metadata
    /\ TokenAsks \subseteq TokenAsk
    /\ CredentialAsks \subseteq CredentialAsk
    /\ MaxCalls \in Nat

VARIABLES
    offer,                \* _credentialOffer, never changed
    endpointMetadata,     \* _endpointMetadata
    accessTokenResponse,  \* _accessTokenResponse
    clientId, kid, alg,   \* _clientId, _kid, _alg
    call,                 \* the progress of every flow's call
    calls,                \* the number of calls so far
    received,             \* history: every token response received
    overlapped,           \* history: two token requests were under way at once
    latest                \* history: the last c_nonce the issuer provided

client == <<offer, endpointMetadata, accessTokenResponse, clientId, kid, alg>>
history == <<received, overlapped, latest>>
vars == <<client, call, calls, history>>

Pending == {"fetching", "requesting", "signing", "verifying", "sending", "pushing"}

CredentialErrors == << "NO_SERVER_METADATA", "NO_ACCESS_TOKEN", "NOT_SUPPORTED",
                       "NO_ALG", "NO_CLIENT_ID", "NO_KID", "BAD_PARAMS" >>

Errors == {TokenErrors[i] : i \in DOMAIN TokenErrors}
            \cup {CredentialErrors[i] : i \in DOMAIN CredentialErrors}
            \cup {"NO_ISSUER", "NO_SCOPE", "NO_PAR_ENDPOINT", "FETCH", "RETRIEVAL",
                  "STACK_OVERFLOW", "SIGN_CALLBACK", "JWS_NOT_VALID", "URL_NOT_VALID"}

ASSUME WalletUndefined ==
    /\ \A S \in {Pins, ClientIds, Kids, Algs, Tokens, Nonces, Errors} : Undefined \notin S
    /\ \A S \in {Metadata, TokenResponse, TokenRequest, CredentialRequest} :
          Undefined \notin S

CallState == [pc : Pending \cup {"idle", "resolved", "rejected"},
              ask : TokenAsks \cup CredentialAsks \cup {Undefined},
              request : TokenRequest \cup CredentialRequest \cup {Undefined},
              error : Errors \cup {Undefined}]

\* Mutant of NoCall: a field without a first value.
UnsetCall == [pc |-> Undefined, ask |-> Undefined, request |-> Undefined,
              error |-> Undefined]

NoCall == [pc |-> "idle", ask |-> Undefined, request |-> Undefined,
           error |-> Undefined]

TypeOK ==
    /\ offer \in Offers
    /\ endpointMetadata \in Metadata \cup {Undefined}
    /\ accessTokenResponse \in TokenResponse \cup {Undefined}
    /\ clientId \in ClientIds \cup {Undefined}
    /\ kid \in Kids \cup {Undefined}
    /\ alg \in Algs \cup {Undefined}
    /\ call \in [Flows -> CallState]
    /\ calls \in 0 .. MaxCalls
    /\ received \subseteq TokenResponse
    /\ overlapped \in BOOLEAN
    /\ latest \in Nonces \cup {Undefined}

\* fromURI, with the client id, kid and alg its caller gives; it has the object
\* only after a retrieval it asked for, and then with the metadata.
Init ==
    /\ offer \in Offers
    /\ endpointMetadata \in {Undefined} \cup
          (IF IssuerKnown(offer) THEN Published ELSE {})
    /\ accessTokenResponse = Undefined
    /\ clientId \in ClientIds \cup {Undefined}
    /\ kid \in Kids \cup {Undefined}
    /\ alg \in Algs \cup {Undefined}
    /\ call = [f \in Flows |-> NoCall]
    /\ calls = 0
    /\ received = {} /\ overlapped = FALSE /\ latest = Undefined
-----------------------------------------------------------------------------
Or(value, otherwise) == IF value # Undefined THEN value ELSE otherwise

HasMetadata == endpointMetadata # Undefined

\* A flow makes its next call, which gets to the given step.
Begin(f, ask, pc, request, error) ==
    /\ call[f].pc \notin Pending
    /\ calls < MaxCalls
    /\ calls' = calls + 1
    /\ call' = [call EXCEPT ![f] = [pc |-> pc, ask |-> ask, request |-> request,
                                    error |-> error]]

Await(f, ask, pc, request) == Begin(f, ask, pc, request, Undefined)
Return(f, ask) == Begin(f, ask, "resolved", Undefined, Undefined)
Throw(f, ask, error) == Begin(f, ask, "rejected", Undefined, error)

Goto(f, pc) == call' = [call EXCEPT ![f].pc = pc] /\ UNCHANGED calls

Reject(f, error) ==
    /\ call' = [call EXCEPT ![f].pc = "rejected", ![f].error = error]
    /\ UNCHANGED calls
-----------------------------------------------------------------------------
RetrieveServerMetadata(f) ==
    /\ \/ HasMetadata /\ Return(f, Undefined)
       \/ ~HasMetadata /\ IssuerKnown(offer) /\ Await(f, Undefined, "fetching", Undefined)
       \/ ~HasMetadata /\ ~IssuerKnown(offer) /\ Throw(f, Undefined, "NO_ISSUER")
    /\ UNCHANGED <<client, history>>

ReceiveMetadata(f) ==
    /\ call[f].pc = "fetching"
    /\ endpointMetadata' \in Published
    /\ Goto(f, "resolved")
    /\ UNCHANGED <<offer, accessTokenResponse, clientId, kid, alg, history>>

\* Mutant of MetadataFails: a failure forgets what is cached.
MetadataForgotten(f) ==
    /\ call[f].pc = "fetching"
    /\ endpointMetadata' = Undefined
    /\ Reject(f, "FETCH")
    /\ UNCHANGED <<offer, accessTokenResponse, clientId, kid, alg, history>>

MetadataFails(f) ==
    /\ call[f].pc = "fetching"
    /\ Reject(f, "FETCH")
    /\ UNCHANGED <<client, history>>

\* createAuthorizationRequestUrl copies the endpoint into the cached metadata,
\* if the caller names a scope or authorization_details; it throws otherwise.
CreateAuthorizationRequestUrl(scoped) ==
    /\ scoped
    /\ HasMetadata
    /\ endpointMetadata.authorization
    /\ endpointMetadata' = [endpointMetadata EXCEPT !.authorizationEndpoint = TRUE]
    /\ UNCHANGED <<offer, accessTokenResponse, clientId, kid, alg, call, calls, history>>

AcquirePushedAuthorizationRequestURI(f, scoped) ==
    /\ \/ ~scoped /\ Throw(f, Undefined, "NO_SCOPE")
       \/ /\ scoped /\ HasMetadata /\ endpointMetadata.par
          /\ Await(f, Undefined, "pushing", Undefined)
       \/ /\ scoped /\ (HasMetadata => ~endpointMetadata.par)
          /\ Throw(f, Undefined, "NO_PAR_ENDPOINT")
    /\ UNCHANGED <<client, history>>

\* Any answer is handed to the caller.
ReceivePushed(f) ==
    /\ call[f].pc = "pushing"
    /\ Goto(f, "resolved") \/ Reject(f, "FETCH")
    /\ UNCHANGED <<client, history>>
-----------------------------------------------------------------------------
RequestToken(f, ask) ==
    \/ /\ clientId' = Undefined
       /\ Throw(f, ask, "NO_CLIENT_ID")
       /\ UNCHANGED overlapped
    \/ /\ clientId' # Undefined
       /\ \E i \in DOMAIN TokenErrors :
             /\ FirstTokenFailure(i, offer, ask, HasMetadata)
             /\ Throw(f, ask, TokenErrors[i])
       /\ UNCHANGED overlapped
    \/ /\ clientId' # Undefined
       /\ TokenChecksPass(offer, ask, HasMetadata)
       /\ Await(f, ask, "requesting", TokenRequestOf(offer, ask, clientId', HasMetadata))
       /\ overlapped' = (overlapped \/ \E g \in Flows : call[g].pc = "requesting")

\* Mutant of AcquireAccessToken: the cached response is not looked at.
AcquireUncached(f, ask) ==
    /\ clientId' = Or(ask.clientId, clientId)
    /\ RequestToken(f, ask)
    /\ UNCHANGED <<offer, endpointMetadata, accessTokenResponse, kid, alg, received, latest>>

AcquireAccessToken(f, ask) ==
    /\ clientId' = Or(ask.clientId, clientId)
    /\ \/ /\ accessTokenResponse # Undefined
          /\ Return(f, ask)
          /\ UNCHANGED overlapped
       \/ /\ accessTokenResponse = Undefined
          /\ RequestToken(f, ask)
    /\ UNCHANGED <<offer, endpointMetadata, accessTokenResponse, kid, alg, received, latest>>

ReceiveToken(f) ==
    /\ call[f].pc = "requesting"
    /\ \E response \in TokenResponse :
          /\ \A r \in received : r.accessToken # response.accessToken
          /\ accessTokenResponse' = response
          /\ received' = received \cup {response}
          /\ latest' = Or(response.cNonce, latest)
    /\ Goto(f, "resolved")
    /\ UNCHANGED <<offer, endpointMetadata, clientId, kid, alg, overlapped>>

\* An error answer, or none with a body.  The text of the error asks getIssuer,
\* which without metadata calls itself for ever.
TokenRefused(f) ==
    /\ call[f].pc = "requesting"
    /\ Reject(f, IF HasMetadata THEN "RETRIEVAL" ELSE "STACK_OVERFLOW")
    /\ UNCHANGED <<client, history>>

TokenRequestFails(f) ==
    /\ call[f].pc = "requesting"
    /\ Reject(f, "FETCH")
    /\ UNCHANGED <<client, history>>
-----------------------------------------------------------------------------
\* The checks up to the sign callback, in their order.  kid and alg are those
\* the object has once the arguments are in.
CredentialCheckFails(i, ask, newKid, newAlg) ==
    CASE i = 1 -> ~HasMetadata
      [] i = 2 -> accessTokenResponse = Undefined
      [] i = 3 -> /\ endpointMetadata.supported # Undefined
                  /\ ~ (ask.types \subseteq endpointMetadata.supported)
      [] i = 4 -> newAlg = Undefined
      [] i = 5 -> clientId = Undefined
      [] i = 6 -> newKid = Undefined
      [] i = 7 -> ~ask.signCallback

\* The request is put together in one turn from the object's fields.
CredentialRequestOf(ask, newKid, newAlg) ==
    [accessToken |-> accessTokenResponse.accessToken,
     nonce |-> accessTokenResponse.cNonce,
     kid |-> newKid, alg |-> newAlg, iss |-> clientId, types |-> ask.types,
     validEndpoint |-> endpointMetadata.validEndpoint]

AcquireCredentials(f, ask) ==
    /\ kid' = Or(ask.kid, kid)
    /\ alg' = Or(ask.alg, alg)
    /\ LET Fails(i) == CredentialCheckFails(i, ask, kid', alg')
       IN \/ \E i \in DOMAIN CredentialErrors :
                /\ \A j \in 1 .. (i - 1) : ~Fails(j)
                /\ Fails(i)
                /\ Throw(f, ask, CredentialErrors[i])
          \/ /\ \A i \in DOMAIN CredentialErrors : ~Fails(i)
             /\ Await(f, ask, "signing", CredentialRequestOf(ask, kid', alg'))
    /\ UNCHANGED <<offer, endpointMetadata, accessTokenResponse, clientId, history>>

\* Mutants of Send: token or kid are read from the object when it is sent.
SendNewestToken(f) ==
    /\ call' = [call EXCEPT ![f].pc = "sending",
                   ![f].request.accessToken = accessTokenResponse.accessToken]
    /\ UNCHANGED calls
SendNewestKid(f) ==
    /\ call' = [call EXCEPT ![f].pc = "sending", ![f].request.kid = kid]
    /\ UNCHANGED calls

\* The request goes out, to an endpoint that is a URL.
Send(f) == IF call[f].request.validEndpoint THEN Goto(f, "sending")
           ELSE Reject(f, "URL_NOT_VALID")

\* The sign callback answers with a JWS, which is verified if the caller asked.
Sign(f) ==
    /\ call[f].pc = "signing"
    /\ IF call[f].ask.verifyCallback THEN Goto(f, "verifying") ELSE Send(f)
    /\ UNCHANGED <<client, history>>

\* It rejects, or what it returns is no JWS.
SignFails(f) ==
    /\ call[f].pc = "signing"
    /\ \E error \in {"SIGN_CALLBACK", "JWS_NOT_VALID"} : Reject(f, error)
    /\ UNCHANGED <<client, history>>

\* Mutant of Verify: a proof that does not verify is signed again.
VerifyRetries(f) ==
    /\ call[f].pc = "verifying"
    /\ Send(f) \/ Goto(f, "signing")
    /\ UNCHANGED <<client, history>>

Verify(f) ==
    /\ call[f].pc = "verifying"
    /\ Send(f) \/ Reject(f, "JWS_NOT_VALID")
    /\ UNCHANGED <<client, history>>

\* The credential, and perhaps a fresh c_nonce: it is handed to the caller and
\* not kept.
ReceiveCredential(f) ==
    /\ call[f].pc = "sending"
    /\ \E cNonce \in Nonces \cup {Undefined} : latest' = Or(cNonce, latest)
    /\ Goto(f, "resolved")
    /\ UNCHANGED <<client, received, overlapped>>

CredentialRefused(f) ==
    /\ call[f].pc = "sending"
    /\ \E error \in {"RETRIEVAL", "FETCH"} : Reject(f, error)
    /\ UNCHANGED <<client, history>>
-----------------------------------------------------------------------------
Continue(f) == \/ ReceiveMetadata(f) \/ MetadataFails(f) \/ ReceivePushed(f)
               \/ ReceiveToken(f) \/ TokenRefused(f) \/ TokenRequestFails(f)
               \/ Sign(f) \/ SignFails(f) \/ Verify(f)
               \/ ReceiveCredential(f) \/ CredentialRefused(f)

Ask(f) == \/ RetrieveServerMetadata(f)
          \/ \E scoped \in BOOLEAN : AcquirePushedAuthorizationRequestURI(f, scoped)
          \/ \E ask \in TokenAsks : AcquireAccessToken(f, ask)
          \/ \E ask \in CredentialAsks : AcquireCredentials(f, ask)

Next == \/ \E f \in Flows : Continue(f) \/ Ask(f)
        \/ \E scoped \in BOOLEAN : CreateAuthorizationRequestUrl(scoped)

\* Callbacks and fetch settle their promises, and the event loop resumes the
\* call.  Nothing obliges the wallet to make one.
Fairness == \A f \in Flows : WF_vars(Continue(f))

Spec == Init /\ [][Next]_vars /\ Fairness
-----------------------------------------------------------------------------
InProof == {f \in Flows : call[f].pc \in {"signing", "verifying", "sending"}}

\* A credential request presents the token and the nonce of one and the same
\* token response, also when another flow's response replaces the cached one
\* while the proof is signed (acquireCredentials reads both in one turn).
RequestOfOneResponse ==
    \A f \in InProof :
        \E response \in received :
            /\ call[f].request.accessToken = response.accessToken
            /\ call[f].request.nonce = response.cNonce

\* A proof is signed with the kid and alg its own call asked for, whatever other
\* flows set on the shared object meanwhile (acquireCredentials).
SignedAsAsked ==
    \A f \in InProof :
        /\ call[f].ask.kid # Undefined => call[f].request.kid = call[f].ask.kid
        /\ call[f].ask.alg # Undefined => call[f].request.alg = call[f].ask.alg

\* The pre-authorized code is redeemed twice only by flows whose token requests
\* were under way together: the cached response spares every later one
\* (acquireAccessToken).
CodeRedeemedOnce == Cardinality(received) > 1 => overlapped

\* The error of a refused token request is lost in getIssuer's recursion only
\* if the request was made without metadata: metadata once cached stays, also
\* when an overlapping retrieval fails (getIssuer, retrieveServerMetadata).
OverflowOnlyWithoutMetadata ==
    \A f \in Flows :
        call[f].error = "STACK_OVERFLOW" => call[f].request.url = "issuer"

\* Every call comes to an end.
CallsSettle ==
    \A f \in Flows :
        call[f].pc \in Pending ~> call[f].pc \in {"resolved", "rejected"}

\* A proof uses the c_nonce the issuer provided last.
LatestNonceUsed ==
    [][\A f \in Flows :
          call[f].pc # "signing" /\ call'[f].pc = "signing"
              => call'[f].request.nonce = latest]_vars
=============================================================================
