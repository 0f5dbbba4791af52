CONSTANTS
    Undefined = Undefined
    j1 = j1
    j2 = j2
    Jwts = {j1, j2}
    Flows = {f1, f2}
    ValuesOf <- Values
    Contents <- SomeContents
    OwnTimes <- SomeTimes
    Callbacks <- SomeCallbacks
    MaxCalls = 4
    MaxTime = 2
SPECIFICATION Spec
INVARIANTS SignedIsLastTold ContradictionForCause FreshTimes
CHECK_DEADLOCK FALSE
