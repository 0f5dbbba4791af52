CONSTANTS
    Undefined = Undefined
    Requests = {r1, r2}
    States = {s1}
    Codes = {"code", "other"}
    Pins <- SomePins
    Uuids = {u1, u2}
    OfferContents <- SomeOffers
    Bodies <- SomeBodies
    Duration = 1
    CrashOnRejection = TRUE
    MaxTime = 1
    MaxRestarts = 1
    MaxStored = 2
SPECIFICATION Spec
CHECK_DEADLOCK FALSE
INVARIANTS TypeOK TokenBacked ConsistentOfferServed AnsweredNonceStored NoncesAccounted
PROPERTIES RequestsSettle ImplementsRedemption
