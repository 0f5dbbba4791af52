--------------------------- MODULE ProofOfPossession ---------------------------
(***************************************************************************)
(* One ProofOfPossessionBuilder that an application keeps and fills while  *)
(* its flows make credential requests with it (CredentialRequestClient).   *)
(* The builder holds options of its own and, by reference, a JWT of the    *)
(* application's, which the application may change.  A request is at       *)
(*                                                                         *)
(*   signing     the sign callback is awaited                              *)
(*   verifying   the verify callback is awaited                            *)
(*   sending     the request is sent, its answer awaited                   *)
(*   resolved, rejected   acquireCredentialsUsingProof has ended           *)
(***************************************************************************)
EXTENDS Naturals, Sequences, FiniteSets

CONSTANTS
    Undefined,    \* JavaScript's undefined
    Flows,        \* the flows that make requests
    Jwts,         \* the application's JWT objects
    ValuesOf,     \* the values of each claim
    Contents,     \* what the claims of a JWT may be at first
    OwnTimes,     \* the iat, and the exp, a JWT has, or Undefined
    Callbacks,    \* the callbacks the builder may be made with
    MaxCalls,     \* bound of the calls and changes, for model checking
    MaxTime       \* bound of the clock, for model checking

\* createJWT's properties in its order.  The typ it writes is always "JWT": the
\* builder's typ is read nowhere and left out.
Claims == <<"aud", "iss", "jti", "nonce", "alg", "kid">>
Claim == {Claims[i] : i \in DOMAIN Claims}
Required == {"aud", "kid"}

ClaimValues == {claims \in [Claim -> UNION {ValuesOf[c] : c \in Claim} \cup {Undefined}] :
                  \A c \in Claim : claims[c] \in ValuesOf[c] \cup {Undefined}}

\* JWTHeader obliges a JWT to have an alg.
ASSUME ProofAssumption ==
    /\ DOMAIN ValuesOf = Claim
    /\ \A c \in Claim : Undefined \notin ValuesOf[c]
    /\ Contents \subseteq {claims \in ClaimValues : claims["alg"] # Undefined}
    /\ OwnTimes \in [Jwts -> (Nat \ {0}) \cup {Undefined}]
    /\ Callbacks \subseteq [sign : BOOLEAN, verify : BOOLEAN]
    /\ Undefined \notin Jwts /\ Undefined \notin Nat
    /\ MaxCalls \in Nat /\ MaxTime \in Nat

VARIABLES
    jwts,      \* the application's JWTs: their claims, and their times
    builder,   \* its base (callbacks, a proof or nothing), callbacks, options and JWT
    request,   \* the progress of every flow's request
    now,       \* the clock
    calls,     \* number of calls and changes so far
    told,      \* history: what the builder was last told of each claim
    after      \* history: the claims told, or changed in its JWT, since it got the JWT

vars == <<jwts, builder, request, now, calls, told, after>>

\* claims, iat and jwt as they were signed; at is when, told and after as they
\* were then.  claim is the one an error is about.
NoRequest == [pc |-> "idle", claims |-> Undefined, iat |-> Undefined, jwt |-> Undefined,
              at |-> 0, told |-> Undefined, after |-> {}, error |-> "none", claim |-> "none"]

Pending == {"signing", "verifying", "sending"}

Init ==
    /\ \E contents \in [Jwts -> Contents] :
          jwts = [j \in Jwts |-> [claims |-> contents[j], iat |-> OwnTimes[j]]]
    /\ builder \in [base : {"callbacks", "proof", "nothing"}, callbacks : Callbacks,
                    options : {[c \in Claim |-> Undefined]}, jwt : {Undefined}]
    /\ request = [f \in Flows |-> NoRequest]
    /\ now = 1 /\ calls = 0
    /\ told = [c \in Claim |-> Undefined] /\ after = {}
-----------------------------------------------------------------------------
\* The application.

Call == calls < MaxCalls /\ calls' = calls + 1

\* withClientId, withKid, withIssuer, withAlg, withJti, withAccessTokenNonce;
\* withAccessTokenResponse and withEndpointMetadata call them.
With(c, value) ==
    /\ Call
    /\ builder' = [builder EXCEPT !.options[c] = value]
    /\ told' = [told EXCEPT ![c] = value]
    /\ after' = after \cup {c}
    /\ UNCHANGED <<jwts, request, now>>

Tell(j) == [c \in Claim |-> IF jwts[j].claims[c] # Undefined THEN jwts[j].claims[c] ELSE told[c]]

\* Mutant of WithJwt: what was set before wins over the new JWT.
WithJwtKeeping(j) ==
    /\ Call
    /\ builder' = [builder EXCEPT !.jwt = j,
          !.options = [c \in Claim |-> IF builder.options[c] = Undefined THEN jwts[j].claims[c]
                                       ELSE builder.options[c]]]
    /\ told' = Tell(j) /\ after' = {}
    /\ UNCHANGED <<jwts, request, now>>

\* The builder takes what the JWT has, and keeps its other options.
WithJwt(j) ==
    /\ Call
    /\ builder' = [builder EXCEPT !.jwt = j,
          !.options = [c \in Claim |-> IF jwts[j].claims[c] # Undefined THEN jwts[j].claims[c]
                                       ELSE builder.options[c]]]
    /\ told' = Tell(j) /\ after' = {}
    /\ UNCHANGED <<jwts, request, now>>

\* The application changes one of its JWTs, say to a fresh nonce.
ChangeJwt(j, c, value) ==
    /\ Call
    /\ c = "alg" => value # Undefined
    /\ jwts' = [jwts EXCEPT ![j].claims[c] = value]
    /\ after' = IF builder.jwt = j THEN after \cup {c} ELSE after
    /\ UNCHANGED <<builder, request, now, told>>

Tick == now < MaxTime /\ now' = now + 1 /\ UNCHANGED <<jwts, builder, request, calls, told, after>>
-----------------------------------------------------------------------------
\* createProofOfPossession with createJWT.

JwtProperty(c) == IF builder.jwt = Undefined THEN Undefined ELSE jwts[builder.jwt].claims[c]

\* Mutant of Contradicts: only the required properties are compared.
ContradictsRequired(c) ==
    /\ c \in Required
    /\ builder.options[c] # Undefined /\ JwtProperty(c) # Undefined
    /\ builder.options[c] # JwtProperty(c)

\* getJwtProperty
Contradicts(c) ==
    /\ builder.options[c] # Undefined /\ JwtProperty(c) # Undefined
    /\ builder.options[c] # JwtProperty(c)
Missing(c) == c \in Required /\ builder.options[c] = Undefined /\ JwtProperty(c) = Undefined

Property(c) == CASE JwtProperty(c) # Undefined                                -> JwtProperty(c)
                 [] JwtProperty(c) = Undefined /\ builder.options[c] # Undefined -> builder.options[c]
                 [] OTHER -> IF c = "alg" THEN "ES256" ELSE Undefined

\* The iat, or the time (less a minute; the exp likewise).
IssuedAt == IF builder.jwt # Undefined /\ jwts[builder.jwt].iat # Undefined
            THEN jwts[builder.jwt].iat ELSE now

Become(f, state) == request' = [request EXCEPT ![f] = state]
Throw(f, error, claim) ==
    Become(f, [NoRequest EXCEPT !.pc = "rejected", !.error = error, !.claim = claim,
                                !.after = after, !.told = told])

\* Mutant of CreateJWT: the new payload becomes the JWT's.
CreateJWTInPlace(f) ==
    /\ Become(f, [NoRequest EXCEPT !.pc = "signing", !.iat = IssuedAt, !.jwt = builder.jwt, !.at = now,
          !.claims = [c \in Claim |-> Property(c)], !.told = told, !.after = after])
    /\ jwts' = IF builder.jwt = Undefined THEN jwts ELSE [jwts EXCEPT ![builder.jwt].iat = IssuedAt]

\* A new JWT, for which the sign callback is called.
CreateJWT(f) ==
    /\ Become(f, [NoRequest EXCEPT !.pc = "signing", !.iat = IssuedAt, !.jwt = builder.jwt, !.at = now,
          !.claims = [c \in Claim |-> Property(c)], !.told = told, !.after = after])
    /\ UNCHANGED jwts

\* createCredentialRequest with the builder: build up to its await.
Build(f) ==
    /\ request[f].pc \notin Pending
    /\ Call
    /\ LET Fails(i) == Contradicts(Claims[i]) \/ Missing(Claims[i])
       IN CASE builder.base = "proof" -> Become(f, [NoRequest EXCEPT !.pc = "sending"]) /\ UNCHANGED jwts
            [] builder.base = "nothing" -> Throw(f, "PROOF_CANT_BE_CONSTRUCTED", "none") /\ UNCHANGED jwts
            [] builder.base = "callbacks" ->
                  \/ ~builder.callbacks.sign /\ Throw(f, "BAD_PARAMS", "none") /\ UNCHANGED jwts
                  \/ /\ builder.callbacks.sign
                     /\ \E i \in DOMAIN Claims :
                           /\ Fails(i) /\ \A k \in 1 .. (i - 1) : ~Fails(k)
                           /\ Throw(f, IF Contradicts(Claims[i]) THEN "CONTRADICTION" ELSE "MISSING",
                                    Claims[i])
                     /\ UNCHANGED jwts
                  \/ /\ builder.callbacks.sign /\ \A i \in DOMAIN Claims : ~Fails(i)
                     /\ CreateJWT(f)
    /\ UNCHANGED <<builder, now, told, after>>

Goto(f, pc) == request' = [request EXCEPT ![f].pc = pc]
Reject(f, error) == request' = [request EXCEPT ![f].pc = "rejected", ![f].error = error]
Unchanged == UNCHANGED <<jwts, builder, now, calls, told, after>>

\* The callbacks settle; what the sign callback returns may be no JWS.
Sign(f) ==
    /\ request[f].pc = "signing"
    /\ \/ Goto(f, IF builder.callbacks.verify THEN "verifying" ELSE "sending")
       \/ \E error \in {"SIGN_CALLBACK", "JWS_NOT_VALID"} : Reject(f, error)
    /\ Unchanged

Verify(f) ==
    /\ request[f].pc = "verifying"
    /\ Goto(f, "sending") \/ Reject(f, "JWS_NOT_VALID")
    /\ Unchanged

\* acquireCredentialsUsingRequest: an endpoint that is no URL, any answer, or none.
Answer(f) ==
    /\ request[f].pc = "sending"
    /\ Goto(f, "resolved") \/ \E error \in {"URL_NOT_VALID", "FETCH"} : Reject(f, error)
    /\ Unchanged

\* acquireCredentialsUsingProof with the proof of an earlier request.
Reuse(f) ==
    /\ request[f].pc \in {"resolved", "rejected"} /\ request[f].error \in {"none", "URL_NOT_VALID", "FETCH"}
    /\ Call
    /\ request' = [request EXCEPT ![f].pc = "sending", ![f].error = "none"]
    /\ UNCHANGED <<jwts, builder, now, told, after>>

Continue(f) == Sign(f) \/ Verify(f) \/ Answer(f)

Next ==
    \/ \E f \in Flows : Continue(f) \/ Build(f) \/ Reuse(f)
    \/ \E c \in Claim : \/ \E value \in ValuesOf[c] : With(c, value)
                        \/ \E j \in Jwts, value \in ValuesOf[c] \cup {Undefined} : ChangeJwt(j, c, value)
    \/ \E j \in Jwts : WithJwt(j)
    \/ Tick

Spec == Init /\ [][Next]_vars
-----------------------------------------------------------------------------
Signed == {f \in Flows : request[f].claims # Undefined}

\* No proof carries a value other than the one the builder was told last, by an
\* option or by a JWT, in whichever order they came and however the application
\* changed its JWTs since (withJwt, getJwtProperty).
SignedIsLastTold ==
    \A f \in Signed, c \in Claim :
        request[f].told[c] # Undefined => request[f].claims[c] = request[f].told[c]

\* A builder that was just given a JWT never finds a contradiction in it,
\* whatever it had been told before: only an option set, or a change of the JWT,
\* afterwards can make one (withJwt against getJwtProperty).
ContradictionForCause ==
    \A f \in Flows :
        request[f].error = "CONTRADICTION" => request[f].claim \in request[f].after

\* Every proof has the time at which it is signed, the second one made of the
\* same JWT too, unless the application gave its JWT a time (createJWT).
FreshTimes ==
    \A f \in Signed :
        LET j == request[f].jwt
        IN (j # Undefined => OwnTimes[j] = Undefined) => request[f].iat = request[f].at
=============================================================================
