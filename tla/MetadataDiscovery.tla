--------------------------- MODULE MetadataDiscovery ---------------------------
(***************************************************************************)
(* MetadataClient.retrieveAllMetadata: the wallet looks for the token and  *)
(* the credential endpoint of an issuer in up to three well-known          *)
(* documents, which change and fail while it reads them.  A retrieval is   *)
(* at the await of one document:                                           *)
(*                                                                         *)
(*   vci     the issuer's own OID4VCI document                             *)
(*   as      the OAuth 2 document of the authorization server it names     *)
(*   oidc, oauth   without an OID4VCI document, the issuer's OpenID        *)
(*           configuration, and then its OAuth 2 document                  *)
(*                                                                         *)
(* The wallet retrieves through its client object, which caches the result *)
(* (OpenID4VCIClient.retrieveServerMetadata); a strict retrieval is an     *)
(* application's own call with errorOnNotFound.                            *)
(***************************************************************************)
EXTENDS Naturals

CONSTANTS
    Undefined,   \* JavaScript's undefined
    Retrievals,  \* the retrievals
    Answers,     \* what a well-known location may answer
    MaxChanges   \* bound of the changes of what is published, for model checking

Documents == {"vci", "as", "oidc", "oauth"}

\* Which endpoints a document names; only the issuer's names an
\* authorization server.
Document == [token : BOOLEAN, credential : BOOLEAN, authorizationServer : BOOLEAN]

\* openIdFetch: a body of a status of 200 to 399, an error status with a JSON
\* body, a body that is no JSON whatever the status, or no answer at all.
Answer == [outcome : {"success"}, document : Document]
    \cup [outcome : {"error", "unreadable", "unreachable"}, document : {Undefined}]

ASSUME DiscoveryAssumption ==
    /\ Answers \subseteq Answer
    /\ Undefined \notin Documents /\ Undefined \notin Document /\ Undefined \notin Answer
    /\ MaxChanges \in Nat

VARIABLES
    published,         \* what each well-known location answers
    retrieval,         \* the progress of every retrieval
    endpointMetadata,  \* _endpointMetadata of the client object
    changes            \* number of changes of published so far

vars == <<published, retrieval, endpointMetadata, changes>>

\* An endpoint is told by the document that named it, or was "guessed".
Source == Documents \cup {"guessed"}
EndpointMetadata == [token : Source, credential : Source,
                     issuerMetadata : {"vci", "oidc", "oauth", Undefined}]

\* Mutant of NoRetrieval: a field without a first value.
UnsetRetrieval == [pc |-> "unasked", strict |-> Undefined, token |-> Undefined,
                   credential |-> Undefined, issuerMetadata |-> Undefined,
                   error |-> Undefined, read |-> [d \in Documents |-> Undefined]]

NoRetrieval == [pc |-> "unasked", strict |-> FALSE, token |-> Undefined,
                credential |-> Undefined, issuerMetadata |-> Undefined,
                error |-> Undefined, read |-> [d \in Documents |-> Undefined]]

TypeOK ==
    /\ published \in [Documents -> Answers]
    /\ retrieval \in [Retrievals ->
          [pc : Documents \cup {"unasked", "resolved", "rejected"}, strict : BOOLEAN,
           token : Source \cup {Undefined}, credential : Source \cup {Undefined},
           issuerMetadata : {"vci", "oidc", "oauth", Undefined},
           error : {"FETCH", "JSON", "HTTP", "TOKEN_ENDPOINT", "CREDENTIAL_ENDPOINT",
                    Undefined},
           read : [Documents -> Answers \cup {Undefined}]]]
    /\ endpointMetadata \in EndpointMetadata \cup {Undefined}
    /\ changes \in 0 .. MaxChanges

Init ==
    /\ published \in [Documents -> Answers]
    /\ retrieval = [r \in Retrievals |-> NoRetrieval]
    /\ endpointMetadata = Undefined
    /\ changes = 0
-----------------------------------------------------------------------------
\* The issuer's or the authorization server's operator changes a document.
Republish ==
    /\ changes < MaxChanges
    /\ changes' = changes + 1
    /\ \E d \in Documents, a \in Answers :
          a # published[d] /\ published' = [published EXCEPT ![d] = a]
    /\ UNCHANGED <<retrieval, endpointMetadata>>

\* The client object answers from its cache; only without one does it fetch.
Retrieve(r, strict) ==
    /\ retrieval[r].pc = "unasked"
    /\ strict \/ endpointMetadata = Undefined
    /\ retrieval' = [retrieval EXCEPT ![r].pc = "vci", ![r].strict = strict]
    /\ UNCHANGED <<published, endpointMetadata, changes>>
-----------------------------------------------------------------------------
\* What is left to do with the endpoints found, in the turn of the last
\* document: an endpoint nobody named is guessed, or an error if strict.
Missing(f) == IF f.token = Undefined THEN "TOKEN_ENDPOINT"
              ELSE IF f.credential = Undefined THEN "CREDENTIAL_ENDPOINT" ELSE Undefined

Guess(f) ==
    [f EXCEPT !.token = IF @ = Undefined THEN "guessed" ELSE @,
              !.credential = IF @ = Undefined THEN "guessed" ELSE @]

Conclude(f) ==
    IF f.strict /\ Missing(f) # Undefined
    THEN [f EXCEPT !.pc = "rejected", !.error = Missing(f)]
    ELSE [Guess(f) EXCEPT !.pc = "resolved"]

Named(named, d) == IF named THEN d ELSE Undefined

\* The document becomes the issuer metadata.
Adopt(f, d, document) ==
    [f EXCEPT !.issuerMetadata = d, !.token = Named(document.token, d),
              !.credential = Named(document.credential, d)]

\* Mutant of OnSuccess: an authorization server is asked though none is named.
AskUnnamedServer(f, d, document) ==
    CASE d = "vci" -> LET g == Adopt(f, d, document)
                      IN IF ~document.token THEN [g EXCEPT !.pc = "as"] ELSE Conclude(g)
      [] d = "as"  -> Conclude([f EXCEPT !.token = Named(document.token, d)])
      [] OTHER     -> Conclude(Adopt(f, d, document))

OnSuccess(f, d, document) ==
    CASE d = "vci" -> LET g == Adopt(f, d, document)
                      IN IF ~document.token /\ document.authorizationServer
                         THEN [g EXCEPT !.pc = "as"] ELSE Conclude(g)
      [] d = "as"  -> Conclude([f EXCEPT !.token = Named(document.token, d)])
      [] OTHER     -> Conclude(Adopt(f, d, document))

\* Mutants of OnError: a missing document is an error whichever it is; the
\* last document missing, it is asked for again.
OnErrorThrow(f, d) == [f EXCEPT !.pc = "rejected", !.error = "HTTP"]
OnErrorAgain(f, d) ==
    CASE d = "vci"              -> [f EXCEPT !.pc = "oidc"]
      [] d \in {"oidc", "oauth"} -> [f EXCEPT !.pc = "oauth"]
      [] d = "as"               -> [f EXCEPT !.pc = "rejected", !.error = "HTTP"]

\* An error status is another step of the search, except of the authorization
\* server (errorOnNotFound).
OnError(f, d) ==
    CASE d = "vci"   -> [f EXCEPT !.pc = "oidc"]
      [] d = "oidc"  -> [f EXCEPT !.pc = "oauth"]
      [] d = "oauth" -> Conclude(f)
      [] d = "as"    -> [f EXCEPT !.pc = "rejected", !.error = "HTTP"]

Receive(f, d, answer) ==
    CASE answer.outcome = "success"     -> OnSuccess(f, d, answer.document)
      [] answer.outcome = "error"       -> OnError(f, d)
      [] answer.outcome = "unreadable"  -> [f EXCEPT !.pc = "rejected", !.error = "JSON"]
      [] answer.outcome = "unreachable" -> [f EXCEPT !.pc = "rejected", !.error = "FETCH"]

Result(f) == [token |-> f.token, credential |-> f.credential,
              issuerMetadata |-> f.issuerMetadata]

\* Mutant of ReadDocument: what was found so far is cached at every step.
ReadAndCache(r) ==
    LET d == retrieval[r].pc
        f == [retrieval[r] EXCEPT !.read[d] = published[d]]
        g == Receive(f, d, published[d])
    IN /\ d \in Documents
       /\ retrieval' = [retrieval EXCEPT ![r] = g]
       /\ endpointMetadata' = IF g.strict THEN endpointMetadata ELSE Result(Guess(g))
       /\ UNCHANGED <<published, changes>>

\* One document is read, and what follows from it.
ReadDocument(r) ==
    LET d == retrieval[r].pc
        f == [retrieval[r] EXCEPT !.read[d] = published[d]]
        g == Receive(f, d, published[d])
    IN /\ d \in Documents
       /\ retrieval' = [retrieval EXCEPT ![r] = g]
       /\ endpointMetadata' = IF g.pc = "resolved" /\ ~g.strict THEN Result(g)
                              ELSE endpointMetadata
       /\ UNCHANGED <<published, changes>>

Next ==
    \/ Republish
    \/ \E r \in Retrievals : ReadDocument(r) \/ \E strict \in BOOLEAN : Retrieve(r, strict)

\* fetch settles its promise, one way or the other.
Fairness == \A r \in Retrievals : WF_vars(ReadDocument(r))

Spec == Init /\ [][Next]_vars /\ Fairness
-----------------------------------------------------------------------------
Read(r, d) == IF retrieval[r].read[d] # Undefined
                 /\ retrieval[r].read[d].outcome = "success"
              THEN retrieval[r].read[d].document ELSE Undefined

\* The two endpoints, when both are named, are named by one document, or the
\* token endpoint by the authorization server which the other one's document
\* names, as this retrieval read it, however the documents change meanwhile.
EndpointsOfOneIssuer ==
    \A r \in Retrievals :
        LET f == retrieval[r]
        IN f.pc = "resolved" /\ {f.token, f.credential} \subseteq Documents =>
              \/ f.token = f.credential
              \/ f.token = "as" /\ Read(r, f.credential).authorizationServer

\* A retrieval that is not strict fails only on a document it could not fetch
\* or read, or on an error of the authorization server: a missing document of
\* the issuer's own is no reason (retrieveWellknown and errorOnNotFound).
RejectedForCause ==
    \A r \in Retrievals :
        retrieval[r].pc = "rejected" /\ ~retrieval[r].strict =>
            \E d \in Documents :
                /\ retrieval[r].read[d] # Undefined
                /\ retrieval[r].read[d].outcome \in
                      {"unreadable", "unreachable"} \cup (IF d = "as" THEN {"error"} ELSE {})

\* What the client object caches is the whole result of one retrieval, also
\* when several overlap and one of them fails (retrieveServerMetadata).
CachedIsOneResult ==
    endpointMetadata # Undefined =>
        \E r \in Retrievals :
            /\ retrieval[r].pc = "resolved" /\ ~retrieval[r].strict
            /\ endpointMetadata = Result(retrieval[r])

\* Every retrieval ends, in at most three documents.
RetrievalsSettle ==
    \A r \in Retrievals :
        retrieval[r].pc \in Documents ~> retrieval[r].pc \in {"resolved", "rejected"}
=============================================================================
