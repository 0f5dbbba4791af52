CONSTANTS
    Undefined = Undefined
    wallet = wallet
    kid1 = kid1
    kid2 = kid2
    es256 = es256
    Flows = {f1, f2}
    Offers <- AllOffers
    ClientIds = {wallet}
    Kids = {kid1, kid2}
    Algs = {es256}
    Types = {"degree", "license"}
    Published <- TwoDocuments
    Pins <- AllPins
    TokenAsks <- SomeTokenAsks
    CredentialAsks <- SomeCredentialAsks
    Tokens = {t1, t2}
    Nonces = {n1, n2}
    MaxCalls = 3
SPECIFICATION Spec
CHECK_DEADLOCK FALSE
INVARIANTS TypeOK RequestOfOneResponse SignedAsAsked CodeRedeemedOnce
    OverflowOnlyWithoutMetadata
PROPERTY CallsSettle
