CONSTANTS
    Undefined = Undefined
    Pushes = {p1, p2}
    Bodies <- SomeBodies
    Asks <- AllAsks
    Lifetimes <- SomeLifetimes
    Second = 2
    MaxDelay = 4
SPECIFICATION Spec
INVARIANTS TypeOK KeptForLifetime
PROPERTY KeptIsRemoved
