-------------------------- MODULE MCProofOfPossession --------------------------
EXTENDS ProofOfPossession

CONSTANTS j1, j2

\* Two nonces and one value of what is required; alg may be told or left to its
\* default.
Values == [c \in Claim |-> CASE c = "nonce" -> {"n1", "n2"} [] c = "aud" -> {"issuer"}
                             [] c = "kid" -> {"k1", "k2"} [] c = "alg" -> {"EdDSA"} [] OTHER -> {}]

Jwt(aud, nonce, kid) ==
    [c \in Claim |-> CASE c = "aud" -> aud [] c = "nonce" -> nonce [] c = "kid" -> kid
                       [] c = "alg" -> "EdDSA" [] OTHER -> Undefined]

SomeContents == {Jwt("issuer", "n1", "k1"), Jwt("issuer", "n2", Undefined),
                 Jwt(Undefined, Undefined, "k2")}

SomeTimes == [j \in Jwts |-> IF j = j1 THEN Undefined ELSE 1]

SomeCallbacks == {[sign |-> FALSE, verify |-> FALSE], [sign |-> TRUE, verify |-> TRUE]}
=============================================================================
