CONSTANTS
    Undefined = Undefined
    wallet = wallet
    kid1 = kid1
    kid2 = kid2
    es256 = es256
    Flows = {f1}
    Offers <- OneOffer
    ClientIds = {wallet}
    Kids = {kid1, kid2}
    Algs = {es256}
    Types = {"degree", "license"}
    Published <- OneDocument
    Pins <- AllPins
    TokenAsks <- OneTokenAsk
    CredentialAsks <- OneCredentialAsk
    Tokens = {t1}
    Nonces = {n1, n2}
    MaxCalls = 3
SPECIFICATION Spec
CHECK_DEADLOCK FALSE
PROPERTY LatestNonceUsed
