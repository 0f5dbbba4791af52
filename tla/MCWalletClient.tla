--------------------------- MODULE MCWalletClient ---------------------------
EXTENDS WalletClient

CONSTANTS wallet, kid1, kid2, es256   \* a client id, two key ids, an algorithm

FourDigits == [digits |-> TRUE, length |-> 4]
NineDigits == [digits |-> TRUE, length |-> 9]
Letters    == [digits |-> FALSE, length |-> 4]
AllPins    == {FourDigits, NineDigits, Letters}

PinOffer   == [version |-> "v9", preAuthCode |-> TRUE, opState |-> FALSE,
               pinRequired |-> TRUE, https |-> TRUE]
NoPinOffer == [PinOffer EXCEPT !.pinRequired = FALSE, !.https = FALSE]
AllOffers  == {PinOffer, NoPinOffer,
               [PinOffer EXCEPT !.opState = TRUE],
               [PinOffer EXCEPT !.version = "v11"],
               [NoPinOffer EXCEPT !.preAuthCode = FALSE]}
OneOffer   == {NoPinOffer}

Listed   == [supported |-> {"degree"}, authorization |-> TRUE, par |-> TRUE,
             authorizationEndpoint |-> FALSE, validEndpoint |-> TRUE]
Unlisted == [Listed EXCEPT !.supported = Undefined, !.authorization = FALSE,
                           !.par = FALSE, !.validEndpoint = FALSE]
TwoDocuments == {Listed, Unlisted}
OneDocument  == {Listed}

Redeem(client_id, pin) == [clientId |-> client_id, pin |-> pin, codeVerifier |-> FALSE,
                           code |-> FALSE, redirectUri |-> FALSE]
Exchange == [Redeem(Undefined, Undefined) EXCEPT !.codeVerifier = TRUE, !.code = TRUE]
SomeTokenAsks == {Redeem(wallet, pin) : pin \in AllPins}
                   \cup {Redeem(Undefined, Undefined), Exchange,
                         [Exchange EXCEPT !.redirectUri = TRUE]}
OneTokenAsk == {Redeem(wallet, Undefined)}

Get(types, keyId, algorithm) ==
    [types |-> types, kid |-> keyId, alg |-> algorithm, signCallback |-> TRUE,
     verifyCallback |-> FALSE]
SomeCredentialAsks == {Get({"degree"}, kid1, es256),
                       [Get({"degree"}, kid2, es256) EXCEPT !.verifyCallback = TRUE],
                       Get({"license"}, Undefined, Undefined)}
OneCredentialAsk == {Get({"degree"}, kid1, es256)}
=============================================================================
