----------------------- MODULE MetadataDiscoveryProofs -----------------------
(***************************************************************************)
(* Proofs about MetadataDiscovery, for any number of overlapping           *)
(* retrievals and any changes of the documents.                            *)
(***************************************************************************)
EXTENDS MetadataDiscovery, TLAPS

\* The types of the parts of a retrieval.
Progress == Documents \cup {"unasked", "resolved", "rejected"}
MaybeSource == Source \cup {Undefined}
MaybeIssuer == {"vci", "oidc", "oauth", Undefined}
MaybeError == {"FETCH", "JSON", "HTTP", "TOKEN_ENDPOINT", "CREDENTIAL_ENDPOINT", Undefined}
ReadState == [Documents -> Answers \cup {Undefined}]
RetrievalState == [pc : Progress, strict : BOOLEAN, token : MaybeSource, credential : MaybeSource,
                   issuerMetadata : MaybeIssuer, error : MaybeError, read : ReadState]

\* Two retrievals that differ in where they are and in their error at most.
SameFindings(f, g) ==
    /\ g.strict = f.strict /\ g.read = f.read /\ g.issuerMetadata = f.issuerMetadata
    /\ g.token = f.token /\ g.credential = f.credential

LEMMA GoingIsTyped ==
    ASSUME NEW f \in RetrievalState, NEW pc \in Progress
    PROVE  LET g == [f EXCEPT !.pc = pc]
           IN g \in RetrievalState /\ g.pc = pc /\ SameFindings(f, g)
  BY DEF RetrievalState, SameFindings

LEMMA RejectingIsTyped ==
    ASSUME NEW f \in RetrievalState, NEW error \in MaybeError
    PROVE  LET g == [f EXCEPT !.pc = "rejected", !.error = error]
           IN g \in RetrievalState /\ g.pc = "rejected" /\ SameFindings(f, g)
  BY DEF RetrievalState, SameFindings, Progress

\* The end of a retrieval: an error if it is strict, or its endpoints with
\* guesses for those nobody named.
Guessed(source) == IF source = Undefined THEN "guessed" ELSE source

LEMMA ConcludeEnds ==
    ASSUME NEW f \in RetrievalState
    PROVE  LET g == Conclude(f)
           IN /\ g \in RetrievalState
              /\ g.strict = f.strict /\ g.read = f.read
              /\ \/ g.pc = "rejected" /\ f.strict
                 \/ /\ g.pc = "resolved"
                    /\ g.token = Guessed(f.token) /\ g.credential = Guessed(f.credential)
<1>1. CASE f.strict /\ Missing(f) # Undefined
  <2> DEFINE error == Missing(f)
             g == [f EXCEPT !.pc = "rejected", !.error = error]
  <2>1. error \in MaybeError
    BY DEF Missing, MaybeError
  <2>2. Conclude(f) = g
    BY <1>1 DEF Conclude
  <2> HIDE DEF error
  <2>3. g \in RetrievalState /\ g.pc = "rejected" /\ SameFindings(f, g)
    BY <2>1, RejectingIsTyped
  <2> QED BY <1>1, <2>2, <2>3 DEF SameFindings
<1>2. CASE ~(f.strict /\ Missing(f) # Undefined)
  <2> DEFINE h == Guess(f)
  <2>1. Guessed(f.token) \in MaybeSource /\ Guessed(f.credential) \in MaybeSource
    BY DEF RetrievalState, Guessed, MaybeSource, Source
  <2>2. h = [f EXCEPT !.token = Guessed(f.token), !.credential = Guessed(f.credential)]
    BY DEF Guess, Guessed, RetrievalState
  <2>3. /\ h \in RetrievalState /\ h.strict = f.strict /\ h.read = f.read
        /\ h.token = Guessed(f.token) /\ h.credential = Guessed(f.credential)
    <3> HIDE DEF h
    <3> QED BY <2>1, <2>2 DEF RetrievalState
  <2>4. Conclude(f) = [h EXCEPT !.pc = "resolved"] /\ "resolved" \in Progress
    BY <1>2 DEF Conclude, Progress
  <2> HIDE DEF h
  <2> QED BY <2>3, <2>4, GoingIsTyped DEF SameFindings
<1> QED BY <1>1, <1>2
-----------------------------------------------------------------------------
\* The document d as f has read it.
Has(f, d) == f.read[d] # Undefined /\ f.read[d].outcome = "success"

\* CachedIsOneResult apart, the properties of one retrieval, with what they need
\* of one that waits for a document: it has found nothing yet, or waits for the
\* authorization server that the issuer's document names.
Waiting(f) ==
    /\ f.pc \in {"unasked", "vci", "oidc", "oauth"} => f.token = Undefined /\ f.credential = Undefined
    /\ f.pc = "as" => /\ f.credential \in {"vci", Undefined}
                      /\ Has(f, "vci") /\ f.read["vci"].document.authorizationServer

OneIssuer(f) ==
    f.pc = "resolved" /\ {f.token, f.credential} \subseteq Documents =>
        \/ f.token = f.credential
        \/ /\ f.token = "as" /\ f.credential = "vci"
           /\ Has(f, "vci") /\ f.read["vci"].document.authorizationServer

ForCause(f) ==
    f.pc = "rejected" /\ ~f.strict =>
        \E d \in Documents :
            /\ f.read[d] # Undefined
            /\ f.read[d].outcome \in
                  {"unreadable", "unreachable"} \cup (IF d = "as" THEN {"error"} ELSE {})

\* A resolved retrieval has both endpoints.
Complete(f) == f.pc = "resolved" => {f.token, f.credential} \subseteq Source

Sound(f) ==
    f \in RetrievalState /\ Waiting(f) /\ OneIssuer(f) /\ ForCause(f) /\ Complete(f)

\* A concluded retrieval is sound if its endpoints are those of one issuer.
LEMMA ConcludedIsSound ==
    ASSUME NEW f \in RetrievalState,
           {f.token, f.credential} \subseteq Documents =>
              \/ f.token = f.credential
              \/ /\ f.token = "as" /\ f.credential = "vci"
                 /\ Has(f, "vci") /\ f.read["vci"].document.authorizationServer
    PROVE  Sound(Conclude(f)) /\ Conclude(f).pc \in {"resolved", "rejected"}
<1> DEFINE g == Conclude(f)
<1>1. /\ g \in RetrievalState /\ g.strict = f.strict /\ g.read = f.read
      /\ \/ g.pc = "rejected" /\ f.strict
         \/ /\ g.pc = "resolved"
            /\ g.token = Guessed(f.token) /\ g.credential = Guessed(f.credential)
  BY ConcludeEnds
<1> HIDE DEF g
<1>2. Waiting(g) /\ ForCause(g)
  BY <1>1 DEF Waiting, ForCause
<1>3. OneIssuer(g)
  <2>1. \A source : Guessed(source) \in Documents => source = Guessed(source)
    BY DEF Guessed, Documents
  <2> QED BY <1>1, <2>1 DEF OneIssuer, Has
<1>4. Complete(g)
  <2>1. Guessed(f.token) \in Source /\ Guessed(f.credential) \in Source
    BY DEF Guessed, RetrievalState, MaybeSource, Source
  <2> QED BY <1>1, <2>1 DEF Complete
<1> QED BY <1>1, <1>2, <1>3, <1>4 DEF Sound, g

\* A retrieval goes on to another document, having found nothing.
LEMMA SearchIsSound ==
    ASSUME NEW f \in RetrievalState, NEW d \in {"vci", "oidc", "oauth"},
           f.token = Undefined, f.credential = Undefined
    PROVE  Sound([f EXCEPT !.pc = d])
<1> DEFINE g == [f EXCEPT !.pc = d]
<1>1. g \in RetrievalState /\ g.pc = d /\ SameFindings(f, g)
  BY GoingIsTyped DEF Progress, Documents
<1> HIDE DEF g
<1>2. Sound(g)
  BY <1>1 DEF Sound, Waiting, OneIssuer, ForCause, Complete, SameFindings
<1> QED BY <1>2 DEF g

\* A retrieval is rejected over a document it has read.
LEMMA RejectedIsSound ==
    ASSUME NEW f \in RetrievalState, NEW d \in Documents, NEW error \in MaybeError,
           f.read[d] # Undefined,
           f.read[d].outcome \in
              {"unreadable", "unreachable"} \cup (IF d = "as" THEN {"error"} ELSE {})
    PROVE  Sound([f EXCEPT !.pc = "rejected", !.error = error])
<1> DEFINE g == [f EXCEPT !.pc = "rejected", !.error = error]
<1>1. g \in RetrievalState /\ g.pc = "rejected" /\ SameFindings(f, g)
  BY RejectingIsTyped
<1> HIDE DEF g
<1>2. Waiting(g) /\ OneIssuer(g) /\ Complete(g)
  BY <1>1 DEF Waiting, OneIssuer, Complete
<1>3. ForCause(g)
  BY <1>1 DEF ForCause, SameFindings
<1> QED BY <1>1, <1>2, <1>3 DEF Sound, g

LEMMA AdoptFinds ==
    ASSUME NEW f \in RetrievalState, NEW d \in {"vci", "oidc", "oauth"}, NEW document \in Document
    PROVE  LET g == Adopt(f, d, document)
           IN /\ g \in RetrievalState /\ g.read = f.read /\ g.strict = f.strict
              /\ g.token \in {d, Undefined} /\ g.credential \in {d, Undefined}
<1> DEFINE token == Named(document.token, d)
           credential == Named(document.credential, d)
           g == [f EXCEPT !.issuerMetadata = d, !.token = token, !.credential = credential]
<1>1. token \in {d, Undefined} /\ credential \in {d, Undefined}
  BY DEF Named
<1>2. /\ d \in MaybeIssuer /\ d \in Source
      /\ {d, Undefined} \subseteq MaybeSource
  BY DEF MaybeIssuer, MaybeSource, Source, Documents
<1>3. Adopt(f, d, document) = g
  BY DEF Adopt
<1> HIDE DEF token, credential
<1>4. /\ g \in RetrievalState /\ g.read = f.read /\ g.strict = f.strict
      /\ g.token = token /\ g.credential = credential
  BY <1>1, <1>2 DEF RetrievalState
<1> QED BY <1>1, <1>3, <1>4

\* What follows from a document, whichever it is and whatever it answers.
LEMMA ReceiveIsSound ==
    ASSUME NEW f \in RetrievalState, NEW d \in Documents, f.pc = d, Waiting(f),
           NEW answer \in Answers, f.read[d] = answer
    PROVE  Sound(Receive(f, d, answer))
<1>1. answer \in Answer /\ answer # Undefined
  BY DiscoveryAssumption DEF Answer
<1>1a. answer.outcome \in {"success", "error", "unreadable", "unreachable"}
       /\ (answer.outcome = "success" => answer.document \in Document)
  BY <1>1 DEF Answer
<1>2. CASE answer.outcome \in {"unreadable", "unreachable"}
  <2>1. {"JSON", "FETCH"} \subseteq MaybeError
    BY DEF MaybeError
  <2>2. Sound([f EXCEPT !.pc = "rejected", !.error = "JSON"])
        /\ Sound([f EXCEPT !.pc = "rejected", !.error = "FETCH"])
    BY <1>1, <1>2, <2>1, RejectedIsSound
  <2>3. CASE answer.outcome = "unreadable"
    BY <2>2, <2>3 DEF Receive
  <2>4. CASE answer.outcome = "unreachable"
    BY <2>2, <2>4 DEF Receive
  <2> QED BY <1>2, <2>3, <2>4
<1>3. CASE answer.outcome = "error"
  <2>1. Receive(f, d, answer) = OnError(f, d)
    BY <1>3 DEF Receive
  <2>2. CASE d \in {"vci", "oidc", "oauth"}
    <3>1. f.token = Undefined /\ f.credential = Undefined
      BY <2>2 DEF Waiting
    <3>2. Sound([f EXCEPT !.pc = "oidc"]) /\ Sound([f EXCEPT !.pc = "oauth"])
      BY <3>1, SearchIsSound
    <3>3. Sound(Conclude(f))
      BY <3>1, ConcludedIsSound
    <3> QED BY <2>1, <2>2, <3>2, <3>3 DEF OnError
  <2>3. CASE d = "as"
    <3>1. Sound([f EXCEPT !.pc = "rejected", !.error = "HTTP"])
      BY <1>1, <1>3, <2>3, RejectedIsSound DEF MaybeError
    <3> QED BY <2>1, <2>3, <3>1 DEF OnError
  <2> QED BY <2>2, <2>3 DEF Documents
<1>4. CASE answer.outcome = "success"
  <2> DEFINE document == answer.document
             g == Adopt(f, d, document)
  <2>1. document \in Document /\ Receive(f, d, answer) = OnSuccess(f, d, document)
    BY <1>1a, <1>4 DEF Receive
  <2>2. d # "as" => /\ g \in RetrievalState /\ g.read = f.read
                    /\ g.token \in {d, Undefined} /\ g.credential \in {d, Undefined}
    <3> HIDE DEF document
    <3> QED BY <2>1, AdoptFinds DEF Documents
  <2>3. Undefined \notin Documents
    BY DiscoveryAssumption
  <2>4. ASSUME d # "as" PROVE Sound(Conclude(g))
    <3> HIDE DEF g
    <3> QED BY <2>2, <2>3, <2>4, ConcludedIsSound
  <2>5. CASE d = "vci" /\ ~document.token /\ document.authorizationServer
    <3> DEFINE h == [g EXCEPT !.pc = "as"]
    <3>1. Receive(f, d, answer) = h
      BY <2>1, <2>5 DEF OnSuccess
    <3>2. f.read["vci"] # Undefined /\ f.read["vci"].outcome = "success"
          /\ f.read["vci"].document.authorizationServer
      BY <1>1, <1>4, <2>5
    <3> HIDE DEF g
    <3>3. h \in RetrievalState /\ h.pc = "as" /\ SameFindings(g, h)
      BY <2>2, <2>5, GoingIsTyped DEF Progress, Documents
    <3> HIDE DEF h
    <3>4. Sound(h)
      BY <2>2, <2>5, <3>2, <3>3 DEF Sound, Waiting, OneIssuer, ForCause, Complete, SameFindings, Has
    <3> QED BY <3>1, <3>4
  <2>6. CASE d = "vci" /\ ~(~document.token /\ document.authorizationServer)
    BY <2>1, <2>4, <2>6 DEF OnSuccess
  <2>7. CASE d \in {"oidc", "oauth"}
    BY <2>1, <2>4, <2>7 DEF OnSuccess
  <2>8. CASE d = "as"
    <3> DEFINE token == Named(document.token, d)
               h == [f EXCEPT !.token = token]
    <3>1. Receive(f, d, answer) = Conclude(h)
      BY <2>1, <2>8 DEF OnSuccess
    <3>2. token \in {"as", Undefined} /\ token \in MaybeSource
      BY <2>8 DEF Named, MaybeSource, Source, Documents
    <3> HIDE DEF token
    <3>3. /\ h \in RetrievalState /\ h.read = f.read /\ h.token = token
          /\ h.credential = f.credential
      BY <3>2 DEF RetrievalState
    <3> HIDE DEF h
    <3>4. /\ f.credential \in {"vci", Undefined}
          /\ Has(f, "vci") /\ f.read["vci"].document.authorizationServer
      BY <2>8 DEF Waiting
    <3>5. Sound(Conclude(h))
      BY <2>3, <3>2, <3>3, <3>4, ConcludedIsSound DEF Has
    <3> QED BY <3>1, <3>5
  <2> QED BY <2>5, <2>6, <2>7, <2>8 DEF Documents
<1> QED BY <1>1a, <1>2, <1>3, <1>4
-----------------------------------------------------------------------------
Inv ==
    /\ TypeOK
    /\ \A r \in Retrievals : Sound(retrieval[r])
    /\ CachedIsOneResult

LEMMA InitInv == Init => Inv
<1> SUFFICES ASSUME Init PROVE Inv
  OBVIOUS
<1>1. [d \in Documents |-> Undefined] \in ReadState
  BY DEF ReadState
<1>2. NoRetrieval \in RetrievalState
  <2> DEFINE read == [d \in Documents |-> Undefined]
  <2> HIDE DEF read
  <2>1. /\ "unasked" \in Progress /\ Undefined \in MaybeSource /\ Undefined \in MaybeIssuer
        /\ Undefined \in MaybeError
    BY DEF Progress, MaybeSource, MaybeIssuer, MaybeError
  <2>2. read \in ReadState
    BY <1>1 DEF read
  <2> QED BY <2>1, <2>2 DEF NoRetrieval, RetrievalState, read
<1>3. Sound(NoRetrieval)
  BY <1>2 DEF NoRetrieval, Sound, Waiting, OneIssuer, ForCause, Complete
<1>4. TypeOK
  <2>1. retrieval \in [Retrievals -> RetrievalState]
    BY <1>2 DEF Init
  <2>2. changes \in 0 .. MaxChanges
    BY DiscoveryAssumption DEF Init
  <2> QED
    BY <2>1, <2>2 DEF Init, TypeOK, RetrievalState, Progress, MaybeSource, MaybeIssuer, MaybeError,
                      ReadState
<1>5. CachedIsOneResult
  BY DEF Init, CachedIsOneResult
<1> QED BY <1>3, <1>4, <1>5 DEF Init, Inv

LEMMA TypeIsState ==
    TypeOK <=> /\ published \in [Documents -> Answers]
               /\ retrieval \in [Retrievals -> RetrievalState]
               /\ endpointMetadata \in EndpointMetadata \cup {Undefined}
               /\ changes \in 0 .. MaxChanges
  BY DEF TypeOK, RetrievalState, Progress, MaybeSource, MaybeIssuer, MaybeError, ReadState

\* A retrieval makes a sound step that ends no other and leaves the cache alone.
LEMMA RetrievalMoves ==
    ASSUME Inv, NEW r \in Retrievals, NEW g, Sound(g), retrieval[r].pc # "resolved",
           retrieval' = [retrieval EXCEPT ![r] = g], UNCHANGED <<published, changes>>,
           \/ UNCHANGED endpointMetadata
           \/ /\ endpointMetadata' = Result(g) /\ Result(g) \in EndpointMetadata
              /\ g.pc = "resolved" /\ ~g.strict
    PROVE  Inv'
<1>1. retrieval \in [Retrievals -> RetrievalState]
  BY TypeIsState DEF Inv
<1>2. retrieval' \in [Retrievals -> RetrievalState] /\ \A q \in Retrievals : Sound(retrieval'[q])
  BY <1>1 DEF Inv, Sound
<1>3. TypeOK'
  <2>1. endpointMetadata' \in EndpointMetadata \cup {Undefined}
    BY TypeIsState DEF Inv
  <2> QED
    BY <1>2, <2>1 DEF Inv, TypeOK, RetrievalState, Progress, MaybeSource, MaybeIssuer, MaybeError,
                      ReadState
<1>4. CachedIsOneResult'
  <2>1. CASE UNCHANGED endpointMetadata
    <3> SUFFICES ASSUME endpointMetadata # Undefined
                 PROVE  \E q \in Retrievals :
                           /\ retrieval'[q].pc = "resolved" /\ ~retrieval'[q].strict
                           /\ endpointMetadata = Result(retrieval'[q])
      BY <2>1 DEF CachedIsOneResult, Result
    <3>1. PICK q \in Retrievals : /\ retrieval[q].pc = "resolved" /\ ~retrieval[q].strict
                                  /\ endpointMetadata = Result(retrieval[q])
      BY DEF Inv, CachedIsOneResult
    <3>2. retrieval'[q] = retrieval[q]
      BY <1>1, <3>1
    <3> QED BY <3>1, <3>2
  <2>2. CASE endpointMetadata' = Result(g) /\ g.pc = "resolved" /\ ~g.strict
    <3>1. retrieval'[r] = g
      BY <1>1
    <3> QED BY <2>2, <3>1 DEF CachedIsOneResult, Result
  <2> QED BY <2>1, <2>2
<1>5. (\A q \in Retrievals : Sound(retrieval[q]))'
  BY <1>2 DEF Sound, Waiting, OneIssuer, ForCause, Complete, Has
<1> QED BY <1>3, <1>4, <1>5 DEF Inv

LEMMA RetrieveInv ==
    ASSUME Inv, NEW r \in Retrievals, NEW strict \in BOOLEAN, Retrieve(r, strict)
    PROVE  Inv'
<1> DEFINE f == [retrieval[r] EXCEPT !.strict = strict]
           g == [f EXCEPT !.pc = "vci"]
<1>1. /\ retrieval[r] \in RetrievalState /\ Sound(retrieval[r]) /\ retrieval[r].pc = "unasked"
      /\ UNCHANGED <<published, endpointMetadata, changes>>
  BY DEF Inv, Sound, Retrieve
<1>2. f \in RetrievalState /\ f.token = Undefined /\ f.credential = Undefined
  BY <1>1 DEF Sound, Waiting, RetrievalState
<1>3. retrieval' = [retrieval EXCEPT ![r] = g]
  <2>1. g = [retrieval[r] EXCEPT !.pc = "vci", !.strict = strict]
    BY <1>1 DEF RetrievalState
  <2> HIDE DEF g
  <2> QED BY <2>1 DEF Retrieve
<1> HIDE DEF f
<1>4. Sound(g)
  BY <1>2, SearchIsSound
<1> HIDE DEF g
<1> QED BY <1>1, <1>3, <1>4, RetrievalMoves

LEMMA ReadDocumentInv ==
    ASSUME Inv, NEW r \in Retrievals, ReadDocument(r)
    PROVE  Inv'
<1> DEFINE d == retrieval[r].pc
           answer == published[d]
           f == [retrieval[r] EXCEPT !.read[d] = answer]
           g == Receive(f, d, answer)
<1>1. /\ d \in Documents /\ retrieval' = [retrieval EXCEPT ![r] = g]
      /\ endpointMetadata' = IF g.pc = "resolved" /\ ~g.strict THEN Result(g) ELSE endpointMetadata
      /\ UNCHANGED <<published, changes>>
  BY DEF ReadDocument
<1>2. answer \in Answers /\ Sound(retrieval[r]) /\ d # "resolved"
  BY <1>1 DEF Inv, TypeOK, Documents
<1>3. /\ f \in RetrievalState /\ f.pc = d /\ f.read[d] = answer
      /\ f.token = retrieval[r].token /\ f.credential = retrieval[r].credential
      /\ \A e \in Documents \ {d} : f.read[e] = retrieval[r].read[e]
  <2>1. retrieval[r] \in RetrievalState
    BY <1>2 DEF Sound
  <2> DEFINE read == [retrieval[r].read EXCEPT ![d] = answer]
  <2>2. read \in ReadState /\ read[d] = answer
        /\ \A e \in Documents \ {d} : read[e] = retrieval[r].read[e]
    BY <1>1, <1>2, <2>1 DEF RetrievalState, ReadState
  <2>3. f = [retrieval[r] EXCEPT !.read = read]
    BY <2>1 DEF RetrievalState
  <2> HIDE DEF read, f, answer
  <2> QED BY <2>1, <2>2, <2>3 DEF RetrievalState
<1> HIDE DEF f
<1>4. Waiting(f)
  <2>1. "vci" \in Documents
    BY DEF Documents
  <2> QED BY <1>2, <1>3, <2>1 DEF Sound, Waiting, Has
<1> HIDE DEF answer
<1>5. Sound(g)
  <2> HIDE DEF d
  <2> QED BY <1>1, <1>2, <1>3, <1>4, ReceiveIsSound
<1>6. g.pc = "resolved" => Result(g) \in EndpointMetadata
  BY <1>5 DEF Sound, Complete, RetrievalState, MaybeIssuer, Result, EndpointMetadata
<1> HIDE DEF g
<1> QED BY <1>1, <1>2, <1>5, <1>6, RetrievalMoves

LEMMA NextInv == Inv /\ [Next]_vars => Inv'
<1> SUFFICES ASSUME Inv, [Next]_vars PROVE Inv'
  OBVIOUS
<1>1. CASE Republish \/ UNCHANGED vars
  <2>1. UNCHANGED <<retrieval, endpointMetadata>>
    BY <1>1 DEF Republish, vars
  <2>2. published' \in [Documents -> Answers] /\ changes' \in 0 .. MaxChanges
    BY <1>1, DiscoveryAssumption DEF Republish, vars, Inv, TypeOK
  <2>3. TypeOK'
    BY <2>1, <2>2 DEF Inv, TypeOK
  <2> QED
    BY <2>1, <2>3 DEF Inv, Sound, Waiting, OneIssuer, ForCause, Complete, Has, CachedIsOneResult, Result
<1> QED BY <1>1, RetrieveInv, ReadDocumentInv DEF Next

LEMMA InvHolds == Spec => []Inv
  BY InitInv, NextInv, PTL DEF Spec

\* Every variable of the client object and of its retrievals keeps its type.
THEOREM DiscoveryTypeCorrect == Spec => []TypeOK
<1>1. Inv => TypeOK
  BY DEF Inv
<1> QED BY <1>1, InvHolds, PTL

\* Two endpoints that are named are named by one document, or the token endpoint
\* by the authorization server that the other's document named, however the
\* documents change while they are read (retrieveAllMetadata).
THEOREM EndpointsAreOfOneIssuer == Spec => []EndpointsOfOneIssuer
<1>1. Inv => EndpointsOfOneIssuer
  BY DEF Inv, Sound, OneIssuer, Has, EndpointsOfOneIssuer, Read
<1> QED BY <1>1, InvHolds, PTL

\* A missing document of the issuer's own fails no retrieval that is not strict
\* (retrieveWellknown and errorOnNotFound).
THEOREM RejectionsHaveCause == Spec => []RejectedForCause
<1>1. Inv => RejectedForCause
  BY DEF Inv, Sound, ForCause, RejectedForCause
<1> QED BY <1>1, InvHolds, PTL

\* The client object caches whole results, however retrievals overlap and fail
\* (retrieveServerMetadata).
THEOREM CacheIsOneResult == Spec => []CachedIsOneResult
<1>1. Inv => CachedIsOneResult
  BY DEF Inv
<1> QED BY <1>1, InvHolds, PTL
=============================================================================
