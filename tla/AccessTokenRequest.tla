------------------------ MODULE AccessTokenRequest --------------------------
(***************************************************************************)
(* AccessTokenClient, pure: the checks a wallet makes on its own token     *)
(* request and on the URL it is sent to, in their order, and the request   *)
(* that passes them.                                                       *)
(***************************************************************************)
EXTENDS Naturals, Sequences

CONSTANTS
    Undefined,   \* JavaScript's undefined, null and the empty text
    ClientIds,
    Pins         \* texts the holder may enter

PreAuthorizedCode == "urn:ietf:params:oauth:grant-type:pre-authorized_code"

\* What is read of a credential offer.  An offer of version 11 keeps its code in
\* grants and its issuer in credential_issuer; pinRequired and preAuthCode are
\* those of the version's own place.
Offer == [version : {"v9", "v11"}, preAuthCode : BOOLEAN, opState : BOOLEAN,
          pinRequired : BOOLEAN, https : BOOLEAN]

\* What /^\d{1,8}$/ tells apart.
PinText == [digits : BOOLEAN, length : Nat \ {0}]

\* The arguments of acquireAccessToken.
TokenAsk == [clientId : ClientIds \cup {Undefined}, pin : Pins \cup {Undefined},
             codeVerifier : BOOLEAN, code : BOOLEAN, redirectUri : BOOLEAN]

TokenRequest == [grantType : {PreAuthorizedCode, "authorization_code", Undefined},
                 preAuthCode : BOOLEAN, clientId : ClientIds,
                 pin : Pins \cup {Undefined}, url : {"metadata", "issuer"}]

\* getIssuerFromCredentialOfferPayload knows the field issuer only.
IssuerKnown(offer) == offer.version = "v9"

\* The keys pre-authorized_code and op_state of the payload itself.
HasPreAuthCode(offer) == offer.version = "v9" /\ offer.preAuthCode
HasOpState(offer) == offer.version = "v9" /\ offer.opState

IsPinRequired(offer) ==
    offer.pinRequired /\ (offer.version = "v11" => offer.preAuthCode)

ValidPin(pin) == pin # Undefined /\ pin.digits /\ pin.length <= 8

GrantType(offer, ask) ==
    IF ask.codeVerifier THEN "authorization_code"
    ELSE IF HasPreAuthCode(offer) THEN PreAuthorizedCode ELSE Undefined

TokenErrors == << "PIN_INVALID", "PIN_NOT_REQUIRED", "CODE_VERIFIER",
                  "NOT_SUPPORTED_FLOW", "NO_CODE", "NO_REDIRECT_URI",
                  "TYPE_ERROR", "UNPROTECTED_ENDPOINT" >>

\* createAccessTokenRequest, validate and determineTokenURL.  A request without
\* a grant type is not refused: validate names throwNotSupportedFlow but does
\* not call it.
TokenCheckFails(i, offer, ask, hasMetadata) ==
    CASE i = 1 -> IsPinRequired(offer) /\ ~ValidPin(ask.pin)
      [] i = 2 -> ~IsPinRequired(offer) /\ ask.pin # Undefined
      [] i = 3 -> HasPreAuthCode(offer) /\ ask.codeVerifier
      [] i = 4 -> HasOpState(offer)
      [] i = 5 -> GrantType(offer, ask) = "authorization_code" /\ ~ask.code
      [] i = 6 -> GrantType(offer, ask) = "authorization_code" /\ ~ask.redirectUri
      [] i = 7 -> ~hasMetadata /\ ~IssuerKnown(offer)
      [] i = 8 -> ~hasMetadata /\ ~offer.https

TokenChecksPass(offer, ask, hasMetadata) ==
    \A i \in DOMAIN TokenErrors : ~TokenCheckFails(i, offer, ask, hasMetadata)

FirstTokenFailure(i, offer, ask, hasMetadata) ==
    /\ TokenCheckFails(i, offer, ask, hasMetadata)
    /\ \A j \in 1 .. (i - 1) : ~TokenCheckFails(j, offer, ask, hasMetadata)

\* The client id of the request is the client object's; the token endpoint of
\* the metadata is preferred to a path below the issuer.
TokenRequestOf(offer, ask, clientId, hasMetadata) ==
    [grantType   |-> GrantType(offer, ask),
     preAuthCode |-> HasPreAuthCode(offer),
     clientId    |-> clientId,
     pin         |-> ask.pin,
     url         |-> IF hasMetadata THEN "metadata" ELSE "issuer"]
=============================================================================
