CONSTANTS
    Undefined = Undefined
    wallet = wallet
    other = other
    Clients = {wallet, other}
    Calls = {c1}
    States = {s1}
    Uuids = {u1, u2}
    OfferContents <- OneOffer
    Options <- JwtOptions
    Jwts <- GoodJwts
    Supported <- BothFormats
    HasVerifyCallback = TRUE
    HasIssuerCallback = TRUE
    MaxTime = 1
    MaxStored = 1
    MaxGranted = 1
SPECIFICATION Spec
CHECK_DEADLOCK FALSE
INVARIANT ProofNonceProvided
