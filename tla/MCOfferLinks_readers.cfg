CONSTANTS
    Undefined = Undefined
    Arrays = {array}
    Names = {"did"}
    Fields = {"types", "cryptographicBindingMethodsSupported", "cryptographicSuitesSupported"}
    MaxCalls = 6
    Options <- SomeOptions
    OtherLinks <- LinksOfOthers
    Reserved <- SomeReserved
SPECIFICATION Spec
INVARIANTS ReadableLinks LaterFieldsIntact PassedOnPlain BuiltChangesByOwnerOnly
CHECK_DEADLOCK FALSE
