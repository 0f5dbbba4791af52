-------------------------- MODULE MCMetadataDiscovery --------------------------
EXTENDS MetadataDiscovery

Success(token, credential, authorizationServer) ==
    [outcome |-> "success",
     document |-> [token |-> token, credential |-> credential,
                   authorizationServer |-> authorizationServer]]
Failure(outcome) == [outcome |-> outcome, document |-> Undefined]

\* "unreachable" differs from "unreadable" in the name of the error only.
SomeAnswers == {Success(TRUE, FALSE, TRUE), Success(FALSE, TRUE, TRUE),
                Success(FALSE, TRUE, FALSE), Failure("error"), Failure("unreadable")}
=============================================================================
