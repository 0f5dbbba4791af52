CONSTANTS
    Undefined = Undefined
    Retrievals = {r1, r2}
    Answers <- SomeAnswers
    MaxChanges = 1
SPECIFICATION Spec
CHECK_DEADLOCK FALSE
INVARIANTS TypeOK EndpointsOfOneIssuer RejectedForCause CachedIsOneResult
PROPERTY RetrievalsSettle
