----------------------------- MODULE MCVcIssuer -----------------------------
EXTENDS VcIssuer, TLC

CONSTANTS wallet, other   \* two clients

BothGrants  == [clientId |-> wallet, issuerState |-> TRUE, preAuthCode |-> TRUE]
PreAuthOnly == [BothGrants EXCEPT !.issuerState = FALSE]

OneOffer == {BothGrants}
TwoOffers == {BothGrants, PreAuthOnly}

Asks(format, callback) ==
    {[issuerState |-> s, isArray |-> FALSE, format |-> {format}, proof |-> TRUE,
      jwtVerifyCallback |-> callback] : s \in States}

\* A format that needs a proof, asked for with and without a callback to verify
\* it and without a proof, one that needs none and one that is not supported.
JwtOptions == Asks("jwt_vc", TRUE)
SomeOptions == JwtOptions \cup Asks("jwt_vc", FALSE)
    \cup {[opts EXCEPT !.proof = FALSE] : opts \in JwtOptions}
    \cup Asks("ldp_vc", FALSE) \cup Asks("jwt_vc_json", FALSE)

GoodJwts == [typ : {TRUE}, alg : {TRUE}, keyRefs : {1}, iss : {wallet},
             aud : {TRUE}, iat : {TRUE}, nonce : Uuids]
\* One proof that stands, one of another client and one that is malformed.
SomeJwts == LET good == CHOOSE jwt \in GoodJwts : TRUE
            IN {good, [good EXCEPT !.iss = other], [good EXCEPT !.keyRefs = 2]}

BothFormats == {"jwt_vc", "ldp_vc"}
=============================================================================
