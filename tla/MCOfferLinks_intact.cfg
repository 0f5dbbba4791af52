CONSTANTS
    Undefined = Undefined
    Arrays = {array}
    Names = {"did"}
    Fields = {"types"}
    MaxCalls = 1
    Options <- TwoOptions
    OtherLinks <- NoLinks
    Reserved <- SomeReserved
SPECIFICATION Spec
INVARIANT OffersIntact
CHECK_DEADLOCK FALSE
