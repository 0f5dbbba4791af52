CONSTANTS
    Undefined = Undefined
    wallet = wallet
    other = other
    Clients = {wallet, other}
    Calls = {c1, c2}
    States = {s1}
    Uuids = {u1, u2, u3}
    OfferContents <- TwoOffers
    Options <- SomeOptions
    Jwts <- SomeJwts
    Supported <- BothFormats
    HasVerifyCallback = FALSE
    HasIssuerCallback = TRUE
    MaxTime = 1
    MaxStored = 1
    MaxGranted = 1
SPECIFICATION Spec
CHECK_DEADLOCK FALSE
INVARIANTS TypeOK ResponseNonceStored NonceOnlyPastChecks
PROPERTIES ImplementsRedemption CallsSettle
