------------------------------- MODULE MCRestAPI -------------------------------
EXTENDS RestAPI

Form(required, redirect, details, scope) ==
    [required |-> required, redirect |-> redirect, details |-> details, scope |-> scope]
SomeBodies == {Form(TRUE, TRUE, FALSE, "commas"), Form(TRUE, TRUE, TRUE, "absent"),
               Form(TRUE, TRUE, FALSE, "absent"), Form(TRUE, TRUE, FALSE, "blanks"),
               Form(TRUE, FALSE, FALSE, "commas"), Form(TRUE, TRUE, TRUE, "array")}

AllAsks == [scope : BOOLEAN, details : BOOLEAN, endpoint : BOOLEAN]

\* A second is two ticks, and the longest delay four.
SomeLifetimes == {Undefined, -1, 2, 3}

================================================================================
