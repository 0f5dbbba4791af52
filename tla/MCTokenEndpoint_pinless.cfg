CONSTANTS
    Undefined = Undefined
    Requests = {r1}
    States = {s1}
    Codes = {"code", "other"}
    Pins <- SomePins
    Uuids = {u1}
    OfferContents <- TypedOffers
    Bodies <- SomeBodies
    Duration = 2
    CrashOnRejection = FALSE
    MaxTime = 3
    MaxRestarts = 0
    MaxStored = 1
SPECIFICATION Spec
CHECK_DEADLOCK FALSE
INVARIANTS RefusedForCause
