--------------------------- MODULE VcIssuerProofs ---------------------------
(***************************************************************************)
(* Proofs about VcIssuer, for any set of calls, offers, proofs and uuids,  *)
(* and any bounds.                                                         *)
(***************************************************************************)
EXTENDS VcIssuer, TLAPS

LEMMA CallsStayTyped ==
    ASSUME issue \in [Calls -> IssueState],
           NEW c \in Calls, NEW state \in IssueState, Become(c, state)
    PROVE  issue' \in [Calls -> IssueState]
  BY DEF Become

LEMMA FailedCallIsTyped ==
    ASSUME NEW q \in IssueState, NEW error \in Errors
    PROVE  [q EXCEPT !.pc = "failed", !.error = error] \in IssueState
  BY DEF IssueState, Pending

LEMMA FailStaysTyped ==
    ASSUME issue \in [Calls -> IssueState], NEW c \in Calls,
           NEW error \in Errors, Fail(c, error)
    PROVE  issue' \in [Calls -> IssueState]
<1>1. [issue[c] EXCEPT !.pc = "failed", !.error = error] \in IssueState
  BY FailedCallIsTyped
<1>2. QED
  BY <1>1, CallsStayTyped DEF Fail

LEMMA JwtErrorIsError == \A i \in 1 .. 8 : JwtError(i) \in Errors
  BY DEF JwtError, Errors

\* A c_nonce a call goes on with is one of v4's, and the brought one was too.
LEMMA NonceChoicesAreUuids ==
    ASSUME NEW state \in IssueState, state.brought => state.cNonce \in Uuids
    PROVE  NonceChoices(state) \subseteq Uuids
  BY DEF NonceChoices, FreshUuids

NoncesTyped == /\ nonces \in [Uuids -> NonceState \cup {Undefined}]
               /\ minted \subseteq Uuids
               /\ known \subseteq Uuids

\* The step after the proof keeps the types.
LEMMA ProceedStaysTyped ==
    ASSUME TypeOK, NEW c \in Calls, NEW state \in IssueState,
           state.brought => state.cNonce \in Uuids,
           Proceed(c, state)
    PROVE  /\ issue' \in [Calls -> IssueState]
           /\ NoncesTyped'
<1>1. CASE FormatSupported(state.opts)
  <2>1. PICK cNonce \in NonceChoices(state) :
           /\ Become(c, [state EXCEPT !.pc = "saving", !.cNonce = cNonce,
                                      !.setAt = now])
           /\ nonces' = SetState(nonces, cNonce, [createdOn |-> now])
           /\ minted' = minted \cup {cNonce}
           /\ known' = known \cup {cNonce}
    BY <1>1 DEF Proceed, StoreNonce
  <2>2. cNonce \in Uuids
    BY NonceChoicesAreUuids
  <2>3. [state EXCEPT !.pc = "saving", !.cNonce = cNonce, !.setAt = now] \in IssueState
    BY <2>2 DEF IssueState, Pending, TypeOK
  <2>4. issue' \in [Calls -> IssueState]
    BY <2>1, <2>3, CallsStayTyped DEF TypeOK
  <2>5. [createdOn |-> now] \in NonceState
    BY DEF NonceState, TypeOK
  <2>6. QED
    BY <2>1, <2>2, <2>4, <2>5 DEF NoncesTyped, SetState, TypeOK
<1>2. CASE ~FormatSupported(state.opts)
  <2>1. /\ Become(c, [state EXCEPT !.pc = "failed", !.error = "INVALID_REQUEST"])
        /\ UNCHANGED <<nonces, minted, known>>
    BY <1>2 DEF Proceed
  <2>2. "INVALID_REQUEST" \in Errors
    BY DEF Errors
  <2>3. [state EXCEPT !.pc = "failed", !.error = "INVALID_REQUEST"] \in IssueState
    BY <2>2, FailedCallIsTyped
  <2>4. issue' \in [Calls -> IssueState]
    BY <2>1, <2>3, CallsStayTyped DEF TypeOK
  <2>5. QED
    BY <2>1, <2>4 DEF NoncesTyped, TypeOK
<1>3. QED
  BY <1>1, <1>2

(***************************************************************************)
(* IssuedOnOffer says nothing of the calls on their way.  CallSound does:  *)
(* what each step has established of the call it leaves behind.            *)
(***************************************************************************)
Asserted == {"asserted", "verifying", "saving", "issuing", "issued"}
Checked == {"saving", "issuing", "issued"}

\* The state q of a call, when S are the offers stored so far.
CallSound(q, S) ==
    /\ q.pc # "unsent" => q.opts \in Options
    /\ q.brought => q.cNonce \in Uuids
    /\ q.pc \in Asserted => /\ q.offer \in OfferContent
                            /\ <<q.opts.issuerState, q.offer>> \in S
    /\ q.pc \in {"verifying"} \cup Checked => GrantsDefined(q.offer)
    /\ q.pc \in Checked =>
         /\ FormatSupported(q.opts)
         /\ ProofRequired(q.opts) => ProofStands(q.jwt, q.offer)

OffersStored ==
    \A s \in States : HasState(offers, s) => <<s, offers[s]>> \in stored

IssueInv ==
    /\ TypeOK
    /\ OffersStored
    /\ \A c \in Calls : CallSound(issue[c], stored)

\* A proof that passes the checks stands for the offer's client.
LEMMA PassesStands ==
    ASSUME NEW jwt \in Jwt, NEW offer, JwtPasses(jwt, offer)
    PROVE  ProofStands(jwt, offer)
<1>1. /\ ~JwtFails(1, jwt, offer) => jwt.typ
      /\ ~JwtFails(2, jwt, offer) => jwt.alg
      /\ ~JwtFails(3, jwt, offer) => jwt.keyRefs = 1
      /\ ~JwtFails(4, jwt, offer) => jwt.iss # Undefined
      /\ ~JwtFails(5, jwt, offer) => (jwt.iss = Undefined \/ jwt.iss = offer.clientId)
      /\ ~JwtFails(6, jwt, offer) => jwt.aud
      /\ ~JwtFails(7, jwt, offer) => jwt.iat
      /\ ~JwtFails(8, jwt, offer) => jwt.nonce # Undefined
  BY DEF JwtFails
<1>2. \A i \in 1 .. 8 : ~JwtFails(i, jwt, offer)
  BY DEF JwtPasses
<1>3. jwt # Undefined
  BY UndefinedIsNoValue
<1>4. QED
  BY <1>1, <1>2, <1>3 DEF ProofStands

LEMMA SoundIsMonotone ==
    ASSUME NEW q, NEW S, NEW S2, S \subseteq S2, CallSound(q, S)
    PROVE  CallSound(q, S2)
  BY DEF CallSound

LEMMA FailedIsSound ==
    ASSUME NEW q \in IssueState, q.opts \in Options, q.brought => q.cNonce \in Uuids,
           NEW error, NEW S
    PROVE  CallSound([q EXCEPT !.pc = "failed", !.error = error], S)
  BY DEF CallSound, IssueState, Asserted, Checked

\* A step of call c that leaves the offers alone keeps the invariant if it
\* leaves c sound.
LEMMA CallKeepsInv ==
    ASSUME IssueInv, TypeOK', NEW c \in Calls, NEW state, Become(c, state),
           UNCHANGED <<offers, stored>>, CallSound(state, stored)
    PROVE  IssueInv'
<1>1. OffersStored'
  BY DEF IssueInv, OffersStored, HasState
<1>2. ASSUME NEW d \in Calls
      PROVE  CallSound(issue[d], stored)'
  <2>1. CASE d = c
    BY <2>1 DEF Become, IssueInv, TypeOK
  <2>2. CASE d # c
    <3>1. issue'[d] = issue[d]
      BY <2>2 DEF Become, IssueInv, TypeOK
    <3>2. CallSound(issue[d], stored)
      BY DEF IssueInv
    <3>3. QED
      BY <3>1, <3>2
  <2>3. QED
    BY <2>1, <2>2
<1>3. QED
  BY <1>1, <1>2 DEF IssueInv

LEMMA FailKeepsInv ==
    ASSUME IssueInv, TypeOK', NEW c \in Calls, issue[c].pc # "unsent",
           NEW error, Fail(c, error), UNCHANGED <<offers, stored>>
    PROVE  IssueInv'
<1>1. issue[c] \in IssueState /\ CallSound(issue[c], stored)
  BY DEF IssueInv, TypeOK
<1>2. issue[c].opts \in Options /\ (issue[c].brought => issue[c].cNonce \in Uuids)
  BY <1>1 DEF CallSound
<1>3. CallSound([issue[c] EXCEPT !.pc = "failed", !.error = error], stored)
  BY <1>1, <1>2, FailedIsSound
<1>4. QED
  BY <1>3, CallKeepsInv DEF Fail

\* The step after the proof, on a call that has what IssuedOnOffer asks for.
LEMMA ProceedKeepsInv ==
    ASSUME IssueInv, TypeOK', NEW c \in Calls, NEW state \in IssueState,
           state.opts \in Options, state.brought => state.cNonce \in Uuids,
           state.offer \in OfferContent,
           <<state.opts.issuerState, state.offer>> \in stored,
           GrantsDefined(state.offer),
           ProofRequired(state.opts) => ProofStands(state.jwt, state.offer),
           Proceed(c, state), UNCHANGED <<offers, stored>>
    PROVE  IssueInv'
<1>1. CASE FormatSupported(state.opts)
  <2>1. PICK cNonce \in NonceChoices(state) :
           Become(c, [state EXCEPT !.pc = "saving", !.cNonce = cNonce, !.setAt = now])
    BY <1>1 DEF Proceed, StoreNonce
  <2>2. cNonce \in Uuids
    BY NonceChoicesAreUuids
  <2> DEFINE q == [state EXCEPT !.pc = "saving", !.cNonce = cNonce, !.setAt = now]
  <2>3. /\ q.opts = state.opts /\ q.offer = state.offer /\ q.jwt = state.jwt
        /\ q.brought = state.brought /\ q.cNonce = cNonce /\ q.pc = "saving"
    BY DEF IssueState
  <2>4. Become(c, q)
    BY <2>1
  <2> HIDE DEF q
  <2>5. CallSound(q, stored)
    BY <1>1, <2>2, <2>3 DEF CallSound
  <2>6. QED
    BY <2>4, <2>5, CallKeepsInv
<1>2. CASE ~FormatSupported(state.opts)
  <2>1. Become(c, [state EXCEPT !.pc = "failed", !.error = "INVALID_REQUEST"])
    BY <1>2 DEF Proceed
  <2>2. CallSound([state EXCEPT !.pc = "failed", !.error = "INVALID_REQUEST"], stored)
    BY FailedIsSound
  <2>3. QED
    BY <2>1, <2>2, CallKeepsInv
<1>3. QED
  BY <1>1, <1>2

LEMMA EnvironmentKeepsInv ==
    ASSUME IssueInv, TypeOK', OffersStored', UNCHANGED issue, stored \subseteq stored'
    PROVE  IssueInv'
<1>1. ASSUME NEW c \in Calls
      PROVE  CallSound(issue[c], stored)'
  <2>1. CallSound(issue[c], stored')
    BY SoundIsMonotone DEF IssueInv
  <2>2. QED
    BY <2>1
<1>2. QED
  BY <1>1 DEF IssueInv

-----------------------------------------------------------------------------
LEMMA InitEstablishesInv == Init => IssueInv
<1> SUFFICES ASSUME Init PROVE IssueInv
  OBVIOUS
<1>1. NoCall \in IssueState
  BY DEF NoCall, IssueState, Pending
<1>2. TypeOK
  BY <1>1 DEF Init, TypeOK, EmptyStore
<1>3. OffersStored
  BY DEF Init, OffersStored, EmptyStore, HasState
<1>4. ASSUME NEW c \in Calls
      PROVE  CallSound(issue[c], stored)
  BY DEF Init, NoCall, CallSound, Asserted, Checked
<1>5. QED
  BY <1>2, <1>3, <1>4 DEF IssueInv

\* A step keeps the types.  That a brought c_nonce is a uuid, which CallSound
\* adds, is what Proceed needs.
LEMMA StepStaysTyped == IssueInv /\ [Next]_vars => TypeOK'
<1> SUFFICES ASSUME IssueInv, [Next]_vars PROVE TypeOK'
  OBVIOUS
<1> USE IssuerAssumption, UndefinedIsNoValue
<1>0. /\ TypeOK
      /\ \A c \in Calls : CallSound(issue[c], stored)
  BY DEF IssueInv
<1>1. ASSUME NEW c \in Calls, NEW opts \in Options,
             NEW cNonce \in minted \cup {Undefined}, Issue(c, opts, cNonce)
      PROVE  TypeOK'
  <2>1. [issue[c] EXCEPT !.pc = "lookup", !.opts = opts,
                         !.brought = (cNonce # Undefined),
                         !.cNonce = cNonce] \in IssueState
    <3>1. ASSUME NEW q \in IssueState, NEW brought \in BOOLEAN,
                 NEW n \in Uuids \cup {Undefined}
          PROVE  [q EXCEPT !.pc = "lookup", !.opts = opts, !.brought = brought,
                           !.cNonce = n] \in IssueState
      BY DEF IssueState, Pending
    <3>2. issue[c] \in IssueState /\ cNonce \in Uuids \cup {Undefined}
      BY <1>0 DEF TypeOK
    <3>3. (cNonce # Undefined) \in BOOLEAN
      OBVIOUS
    <3>4. QED
      BY <3>1, <3>2, <3>3
  <2>2. QED
    BY <1>0, <1>1, <2>1, CallsStayTyped DEF Issue, TypeOK
<1>2. ASSUME NEW c \in Calls, Lookup(c)
      PROVE  TypeOK'
  <2>1. issue[c].pc = "lookup" /\ issue[c].opts.issuerState \in States
    BY <1>0, <1>2 DEF Lookup, CallSound, Option
  <2>2. ASSUME HasState(offers, issue[c].opts.issuerState)
        PROVE  [issue[c] EXCEPT !.pc = "asserted",
                    !.offer = GetState(offers, issue[c].opts.issuerState)] \in IssueState
    <3>1. GetState(offers, issue[c].opts.issuerState) \in OfferContent
      BY <1>0, <2>1, <2>2 DEF HasState, GetState, TypeOK
    <3>2. ASSUME NEW q \in IssueState, NEW offer \in OfferContent
          PROVE  [q EXCEPT !.pc = "asserted", !.offer = offer] \in IssueState
      BY DEF IssueState, Pending
    <3>3. QED
      BY <1>0, <3>1, <3>2 DEF TypeOK
  <2>3. {"UNKNOWN_CLIENT", "GRANTS_MUST_NOT_BE_UNDEFINED"} \subseteq Errors
    BY DEF Errors
  <2>4. issue' \in [Calls -> IssueState]
    BY <1>0, <1>2, <2>2, <2>3, CallsStayTyped, FailStaysTyped DEF Lookup, TypeOK
  <2>5. QED
    BY <1>0, <1>2, <2>4 DEF Lookup, TypeOK
<1>3. ASSUME NEW c \in Calls, CheckGrants(c)
      PROVE  TypeOK'
  <2>1. issue[c] \in IssueState /\ (issue[c].brought => issue[c].cNonce \in Uuids)
    BY <1>0 DEF TypeOK, CallSound
  <2>2. {"GRANTS_MUST_NOT_BE_UNDEFINED", "JWT_VERIFY_CONFIG", "TYPE_ERROR"} \subseteq Errors
    BY DEF Errors
  <2>3. [issue[c] EXCEPT !.pc = "verifying"] \in IssueState
    BY <2>1 DEF IssueState, Pending
  <2>4. issue' \in [Calls -> IssueState] /\ NoncesTyped'
    <3>1. CASE Proceed(c, issue[c])
      BY <1>0, <2>1, <3>1, ProceedStaysTyped
    <3>2. CASE UNCHANGED <<nonces, minted, known>> /\ ~Proceed(c, issue[c])
      <4>1. NoncesTyped'
        BY <1>0, <3>2 DEF NoncesTyped, TypeOK
      <4>2. QED
        BY <1>0, <1>3, <2>2, <2>3, <3>2, <4>1, CallsStayTyped, FailStaysTyped
        DEF CheckGrants, TypeOK
    <3>3. QED
      BY <1>3, <3>1, <3>2 DEF CheckGrants
  <2>5. QED
    BY <1>0, <1>3, <2>4 DEF CheckGrants, NoncesTyped, TypeOK
<1>4. ASSUME NEW c \in Calls, CheckProof(c)
      PROVE  TypeOK'
  <2>1. issue[c] \in IssueState /\ (issue[c].brought => issue[c].cNonce \in Uuids)
    BY <1>0 DEF TypeOK, CallSound
  <2>2. PICK jwt \in Jwts :
          \/ Proceed(c, [issue[c] EXCEPT !.jwt = jwt])
          \/ /\ \E i \in 1 .. 8 : Fail(c, JwtError(i))
             /\ UNCHANGED <<nonces, minted, known>>
    BY <1>4 DEF CheckProof
  <2> DEFINE state == [issue[c] EXCEPT !.jwt = jwt]
  <2>3. /\ state \in IssueState
        /\ state.brought => state.cNonce \in Uuids
    BY <2>1 DEF IssueState
  <2>4. issue' \in [Calls -> IssueState] /\ NoncesTyped'
    <3>1. CASE Proceed(c, state)
      <4> HIDE DEF state
      <4>1. QED
        BY <1>0, <2>3, <3>1, ProceedStaysTyped
    <3>2. CASE /\ \E i \in 1 .. 8 : Fail(c, JwtError(i))
               /\ UNCHANGED <<nonces, minted, known>>
      BY <1>0, <3>2, JwtErrorIsError, FailStaysTyped DEF NoncesTyped, TypeOK
    <3>3. QED
      BY <2>2, <3>1, <3>2
  <2>5. QED
    BY <1>0, <1>4, <2>4 DEF CheckProof, NoncesTyped, TypeOK
<1>5. ASSUME NEW c \in Calls, VerifyFails(c) \/ IssuerFails(c)
      PROVE  TypeOK'
  <2>1. {"VERIFY_CALLBACK", "CREDENTIAL_MISSING", "ISSUER_CALLBACK"} \subseteq Errors
    BY DEF Errors
  <2>2. issue' \in [Calls -> IssueState]
    BY <1>0, <1>5, <2>1, FailStaysTyped DEF VerifyFails, IssuerFails, TypeOK
  <2>3. QED
    BY <1>0, <1>5, <2>2 DEF VerifyFails, IssuerFails, TypeOK
<1>6. ASSUME NEW c \in Calls, CallIssuer(c) \/ Respond(c)
      PROVE  TypeOK'
  <2>1. ASSUME NEW q \in IssueState, NEW pc \in {"issuing", "issued"}
        PROVE  [q EXCEPT !.pc = pc] \in IssueState
    BY DEF IssueState, Pending
  <2>2. "ISSUER_CONFIG" \in Errors
    BY DEF Errors
  <2>3. issue' \in [Calls -> IssueState]
    BY <1>0, <1>6, <2>1, <2>2, CallsStayTyped, FailStaysTyped
    DEF CallIssuer, Respond, TypeOK
  <2>4. QED
    BY <1>0, <1>6, <2>3 DEF CallIssuer, Respond, TypeOK
<1>7. ASSUME NEW s \in States, DeleteOffer(s)
      PROVE  TypeOK'
  BY <1>0, <1>7 DEF DeleteOffer, DeleteState, TypeOK
<1>8. ASSUME NEW s \in States, NEW offer \in OfferContents, StoreOffer(s, offer)
      PROVE  TypeOK'
  BY <1>0, <1>8 DEF StoreOffer, SetState, TypeOK
<1>9. CASE GrantNonce
  <2>1. [createdOn |-> now] \in NonceState
    BY <1>0 DEF NonceState, TypeOK
  <2>2. QED
    BY <1>0, <1>9, <2>1 DEF GrantNonce, FreshUuids, SetState, TypeOK
<1>10. CASE CollectNonces
  <2>1. ClearExpiredStates(nonces, Undefined, now) \in [Uuids -> NonceState \cup {Undefined}]
    BY <1>0 DEF ClearExpiredStates, TypeOK
  <2>2. \A n \in Uuids : HasState(nonces, n) => nonces[n].createdOn \in Nat
    BY <1>0 DEF HasState, NonceState, TypeOK
  <2>3. collected' \subseteq Uuids \X Nat
    BY <1>0, <1>10, <2>2 DEF CollectNonces, TypeOK
  <2>4. QED
    BY <1>0, <1>10, <2>1, <2>3 DEF CollectNonces, TypeOK
<1>11. CASE Tick
  BY <1>0, <1>11 DEF Tick, TypeOK
<1>12. CASE UNCHANGED vars
  BY <1>0, <1>12 DEF vars, TypeOK
<1>13. QED
  BY <1>1, <1>2, <1>3, <1>4, <1>5, <1>6, <1>7, <1>8, <1>9, <1>10, <1>11, <1>12
  DEF Next, Continue, Environment

LEMMA StepKeepsInv == IssueInv /\ [Next]_vars => IssueInv'
<1> SUFFICES ASSUME IssueInv, [Next]_vars PROVE IssueInv'
  OBVIOUS
<1> USE IssuerAssumption, UndefinedIsNoValue
<1>0. /\ TypeOK /\ OffersStored /\ TypeOK'
      /\ \A c \in Calls : issue[c] \in IssueState /\ CallSound(issue[c], stored)
  BY StepStaysTyped DEF IssueInv, TypeOK
<1>1. ASSUME NEW c \in Calls, NEW opts \in Options,
             NEW cNonce \in minted \cup {Undefined}, Issue(c, opts, cNonce)
      PROVE  IssueInv'
  <2> DEFINE q == [issue[c] EXCEPT !.pc = "lookup", !.opts = opts,
                                   !.brought = (cNonce # Undefined),
                                   !.cNonce = cNonce]
  <2>1. /\ q.pc = "lookup" /\ q.opts = opts /\ q.cNonce = cNonce
        /\ q.brought = (cNonce # Undefined)
    BY <1>0 DEF IssueState
  <2>2. Become(c, q) /\ UNCHANGED <<offers, stored>>
    BY <1>1 DEF Issue
  <2> HIDE DEF q
  <2>3. CallSound(q, stored)
    BY <1>0, <2>1 DEF CallSound, Asserted, Checked, TypeOK
  <2>4. QED
    BY <1>0, <2>2, <2>3, CallKeepsInv
<1>2. ASSUME NEW c \in Calls, Lookup(c)
      PROVE  IssueInv'
  <2> DEFINE s == issue[c].opts.issuerState
             q == [issue[c] EXCEPT !.pc = "asserted", !.offer = GetState(offers, s)]
  <2>1. issue[c].opts \in Options /\ s \in States
    BY <1>0, <1>2 DEF Lookup, CallSound, Option
  <2>2. CASE HasState(offers, s) /\ Become(c, q)
    <3>1. <<s, offers[s]>> \in stored /\ offers[s] \in OfferContent
      BY <1>0, <2>1, <2>2 DEF OffersStored, HasState, TypeOK
    <3>2. /\ q.pc = "asserted" /\ q.opts = issue[c].opts /\ q.offer = offers[s]
          /\ q.brought = issue[c].brought /\ q.cNonce = issue[c].cNonce
      BY <1>0 DEF IssueState, GetState
    <3>3. q.brought => q.cNonce \in Uuids
      BY <1>0, <3>2 DEF CallSound
    <3>4. q.opts \in Options /\ q.opts.issuerState = s
      BY <2>1, <3>2
    <3>5. CallSound(q, stored)
      <4> HIDE DEF q
      <4>1. QED
        BY <3>1, <3>2, <3>3, <3>4 DEF CallSound, Checked
    <3>6. QED
      BY <1>0, <1>2, <2>2, <3>5, CallKeepsInv DEF Lookup
  <2>3. CASE \E error \in {"UNKNOWN_CLIENT", "GRANTS_MUST_NOT_BE_UNDEFINED"} :
               Fail(c, error)
    BY <1>0, <1>2, <2>3, FailKeepsInv DEF Lookup
  <2>4. QED
    BY <1>2, <2>2, <2>3 DEF Lookup
<1>3. ASSUME NEW c \in Calls, CheckGrants(c)
      PROVE  IssueInv'
  <2>1. /\ issue[c].pc = "asserted" /\ issue[c] \in IssueState
        /\ issue[c].opts \in Options
        /\ issue[c].brought => issue[c].cNonce \in Uuids
        /\ issue[c].offer \in OfferContent
        /\ <<issue[c].opts.issuerState, issue[c].offer>> \in stored
        /\ UNCHANGED <<offers, stored>>
    BY <1>0, <1>3 DEF CheckGrants, CallSound, Asserted
  <2>2. CASE \E error \in Errors : Fail(c, error)
    BY <1>0, <2>1, <2>2, FailKeepsInv
  <2>3. CASE /\ GrantsDefined(issue[c].offer)
             /\ Become(c, [issue[c] EXCEPT !.pc = "verifying"])
    <3> DEFINE q == [issue[c] EXCEPT !.pc = "verifying"]
    <3>1. /\ q.pc = "verifying" /\ q.opts = issue[c].opts /\ q.offer = issue[c].offer
          /\ q.brought = issue[c].brought /\ q.cNonce = issue[c].cNonce
      BY <2>1 DEF IssueState
    <3>2. CallSound(q, stored)
      <4> HIDE DEF q
      <4>1. QED
        BY <2>1, <2>3, <3>1 DEF CallSound, Checked
    <3>3. QED
      BY <1>0, <2>1, <2>3, <3>2, CallKeepsInv
  <2>4. CASE /\ GrantsDefined(issue[c].offer) /\ ~ProofRequired(issue[c].opts)
             /\ Proceed(c, issue[c])
    BY <1>0, <2>1, <2>4, ProceedKeepsInv
  <2>5. {"GRANTS_MUST_NOT_BE_UNDEFINED", "JWT_VERIFY_CONFIG", "TYPE_ERROR"} \subseteq Errors
    BY DEF Errors
  <2>6. QED
    BY <1>3, <2>2, <2>3, <2>4, <2>5 DEF CheckGrants
<1>4. ASSUME NEW c \in Calls, CheckProof(c)
      PROVE  IssueInv'
  <2>1. /\ issue[c].pc = "verifying" /\ issue[c] \in IssueState
        /\ issue[c].opts \in Options
        /\ issue[c].brought => issue[c].cNonce \in Uuids
        /\ issue[c].offer \in OfferContent
        /\ <<issue[c].opts.issuerState, issue[c].offer>> \in stored
        /\ GrantsDefined(issue[c].offer)
        /\ UNCHANGED <<offers, stored>>
    BY <1>0, <1>4 DEF CheckProof, CallSound, Asserted
  <2>2. PICK jwt \in Jwts :
          \/ JwtPasses(jwt, issue[c].offer) /\ Proceed(c, [issue[c] EXCEPT !.jwt = jwt])
          \/ \E i \in 1 .. 8 : Fail(c, JwtError(i))
    BY <1>4 DEF CheckProof
  <2>3. CASE \E i \in 1 .. 8 : Fail(c, JwtError(i))
    BY <1>0, <2>1, <2>3, FailKeepsInv
  <2>4. CASE JwtPasses(jwt, issue[c].offer) /\ Proceed(c, [issue[c] EXCEPT !.jwt = jwt])
    <3> DEFINE state == [issue[c] EXCEPT !.jwt = jwt]
    <3>1. ProofStands(jwt, issue[c].offer)
      BY <2>4, PassesStands
    <3>2. /\ state \in IssueState /\ state.jwt = jwt
          /\ state.opts = issue[c].opts /\ state.offer = issue[c].offer
          /\ state.brought = issue[c].brought /\ state.cNonce = issue[c].cNonce
      BY <2>1 DEF IssueState
    <3>3. Proceed(c, state)
      BY <2>4
    <3> HIDE DEF state
    <3>4. /\ state.opts \in Options /\ (state.brought => state.cNonce \in Uuids)
          /\ state.offer \in OfferContent
          /\ <<state.opts.issuerState, state.offer>> \in stored
          /\ GrantsDefined(state.offer) /\ ProofStands(state.jwt, state.offer)
      BY <2>1, <3>1, <3>2
    <3>5. QED
      BY <1>0, <2>1, <3>2, <3>3, <3>4, ProceedKeepsInv
  <2>5. QED
    BY <2>2, <2>3, <2>4
<1>5. ASSUME NEW c \in Calls, VerifyFails(c) \/ IssuerFails(c)
      PROVE  IssueInv'
  BY <1>0, <1>5, FailKeepsInv DEF VerifyFails, IssuerFails
<1>6. ASSUME NEW c \in Calls, CallIssuer(c) \/ Respond(c)
      PROVE  IssueInv'
  <2>1. /\ issue[c].pc \in Checked /\ issue[c].pc # "unsent"
        /\ UNCHANGED <<offers, stored>>
    BY <1>6 DEF CallIssuer, Respond, Checked
  <2>2. ASSUME NEW pc \in {"issuing", "issued"}
        PROVE  CallSound([issue[c] EXCEPT !.pc = pc], stored)
    <3> DEFINE q == [issue[c] EXCEPT !.pc = pc]
    <3>1. /\ q.pc = pc /\ q.opts = issue[c].opts /\ q.offer = issue[c].offer
          /\ q.jwt = issue[c].jwt
          /\ q.brought = issue[c].brought /\ q.cNonce = issue[c].cNonce
      BY <1>0 DEF IssueState
    <3> HIDE DEF q
    <3>2. CallSound(q, stored)
      BY <1>0, <2>1, <2>2, <3>1 DEF CallSound, Asserted, Checked
    <3>3. QED
      BY <3>2 DEF q
  <2>3. CASE Fail(c, "ISSUER_CONFIG")
    BY <1>0, <2>1, <2>3, FailKeepsInv
  <2>4. CASE \E pc \in {"issuing", "issued"} : Become(c, [issue[c] EXCEPT !.pc = pc])
    BY <1>0, <2>1, <2>2, <2>4, CallKeepsInv
  <2>5. QED
    BY <1>6, <2>3, <2>4 DEF CallIssuer, Respond
<1>7. ASSUME NEW s \in States, DeleteOffer(s)
      PROVE  IssueInv'
  <2>1. OffersStored'
    BY <1>0, <1>7 DEF DeleteOffer, DeleteState, OffersStored, HasState, TypeOK
  <2>2. QED
    BY <1>0, <1>7, <2>1, EnvironmentKeepsInv DEF DeleteOffer
<1>8. ASSUME NEW s \in States, NEW offer \in OfferContents, StoreOffer(s, offer)
      PROVE  IssueInv'
  <2>1. OffersStored'
    BY <1>0, <1>8 DEF StoreOffer, SetState, OffersStored, HasState, TypeOK
  <2>2. QED
    BY <1>0, <1>8, <2>1, EnvironmentKeepsInv DEF StoreOffer
<1>9. CASE GrantNonce \/ CollectNonces \/ Tick \/ UNCHANGED vars
  <2>1. UNCHANGED <<offers, issue, stored>>
    BY <1>9 DEF GrantNonce, CollectNonces, Tick, vars
  <2>2. OffersStored'
    BY <1>0, <2>1 DEF OffersStored, HasState
  <2>3. QED
    BY <1>0, <2>1, <2>2, EnvironmentKeepsInv
<1>10. QED
  BY <1>1, <1>2, <1>3, <1>4, <1>5, <1>6, <1>7, <1>8, <1>9
  DEF Next, Continue, Environment

LEMMA InvariantHolds == Spec => []IssueInv
  BY InitEstablishesInv, StepKeepsInv, PTL DEF Spec

\* Every variable keeps its type, through all the turns of any number of
\* concurrent calls (issueCredentialFromIssueRequest).
THEOREM IssuerTypeCorrect == Spec => []TypeOK
<1>1. IssueInv => TypeOK
  BY DEF IssueInv
<1>2. QED
  BY <1>1, InvariantHolds, PTL

\* Whatever is awaited in between and whoever removes or replaces the offer
\* meanwhile, a credential is issued only on a stored offer with both grants,
\* in a supported format, and for jwt and jwt_vc on a proof of its client.
THEOREM IssuedOnlyOnOffer == Spec => []IssuedOnOffer
<1>1. IssueInv => IssuedOnOffer
  <2> SUFFICES ASSUME IssueInv, NEW c \in Issued
               PROVE  /\ <<issue[c].opts.issuerState, issue[c].offer>> \in stored
                      /\ issue[c].offer.issuerState /\ issue[c].offer.preAuthCode
                      /\ FormatSupported(issue[c].opts)
                      /\ ProofRequired(issue[c].opts)
                            => ProofStands(issue[c].jwt, issue[c].offer)
    BY DEF IssuedOnOffer
  <2>1. c \in Calls /\ issue[c].pc = "issued" /\ CallSound(issue[c], stored)
    BY DEF Issued, IssueInv
  <2>2. QED
    BY <2>1 DEF CallSound, Asserted, Checked, GrantsDefined
<1>2. QED
  BY <1>1, InvariantHolds, PTL
-----------------------------------------------------------------------------
(***************************************************************************)
(* The c_nonces, whatever nonces the callers bring, whatever the token     *)
(* endpoint stores and whenever the cleanup runs.                          *)
(***************************************************************************)
(***************************************************************************)
(* ResponseNonceStored is not inductive: another call or the token endpoint *)
(* may write the same entry anew, which keeps it no older than the call's  *)
(* own setState only because the clock never goes back behind that.        *)
(***************************************************************************)
\* The c_nonce of call q, when C are the entries collected so far.
NonceKept(q, store, C, time) ==
    /\ q.setAt <= time
    /\ \/ store[q.cNonce] # Undefined /\ store[q.cNonce].createdOn >= q.setAt
       \/ \E entry \in C : entry[1] = q.cNonce /\ entry[2] >= q.setAt

\* The state q of a call, when M are the uuids returned so far.
CallNonce(q, store, C, time, M) ==
    /\ q.cNonce # Undefined => q.cNonce \in M
    /\ q.brought => q.cNonce # Undefined
    /\ q.pc # "failed" => q.error = Undefined
    /\ q.pc \in Checked => q.cNonce # Undefined /\ NonceKept(q, store, C, time)

\* A call that accounts for its c_nonce being stored.
PastChecks(q) ==
    /\ q.pc \in {"saving", "issuing", "issued", "failed"}
    /\ q.error \in {Undefined, "ISSUER_CONFIG", "ISSUER_CALLBACK", "CREDENTIAL_MISSING"}

NonceInv ==
    /\ NonceOnlyPastChecks
    /\ \A c \in Calls : CallNonce(issue[c], nonces, collected, now, minted)

LEMMA InitNonces == Init => NonceInv
<1> SUFFICES ASSUME Init PROVE NonceInv
  OBVIOUS
<1>1. \A c \in Calls : CallNonce(issue[c], nonces, collected, now, minted) /\ issue[c].cNonce = Undefined
  BY DEF Init, NoCall, CallNonce, Checked
<1> QED BY <1>1 DEF Init, NonceInv, NonceOnlyPastChecks

\* A call moves on without a new c_nonce.
LEMMA CallKeepsNonces ==
    ASSUME TypeOK, NonceInv, NEW c \in Calls, NEW q, Become(c, q),
           UNCHANGED <<nonces, now, minted, known, collected>>,
           CallNonce(q, nonces, collected, now, minted),
           PastChecks(issue[c]) => PastChecks(q) /\ q.cNonce = issue[c].cNonce
    PROVE  NonceInv'
<1>1. issue'[c] = q /\ \A d \in Calls \ {c} : issue'[d] = issue[d]
  BY DEF Become, TypeOK
<1>2. NonceOnlyPastChecks'
  <2> SUFFICES ASSUME NEW n \in known
               PROVE  \E d \in Calls : issue'[d].cNonce = n /\ PastChecks(issue'[d])
    BY DEF NonceOnlyPastChecks, PastChecks
  <2>1. PICK d \in Calls : issue[d].cNonce = n /\ PastChecks(issue[d])
    BY DEF NonceInv, NonceOnlyPastChecks, PastChecks
  <2> QED BY <1>1, <2>1
<1>3. ASSUME NEW d \in Calls PROVE CallNonce(issue[d], nonces, collected, now, minted)'
  BY <1>1 DEF NonceInv, CallNonce, NonceKept
<1> QED BY <1>2, <1>3 DEF NonceInv

\* A call fails, before it has a c_nonce of its own or over the issuer callback.
LEMMA FailKeepsNonces ==
    ASSUME TypeOK, NonceInv, NEW c \in Calls, NEW error, Fail(c, error),
           UNCHANGED <<nonces, now, minted, known, collected>>,
           \/ ~PastChecks(issue[c])
           \/ error \in {"ISSUER_CONFIG", "ISSUER_CALLBACK", "CREDENTIAL_MISSING"}
    PROVE  NonceInv'
<1> DEFINE q == [issue[c] EXCEPT !.pc = "failed", !.error = error]
<1>1. issue[c] \in IssueState /\ CallNonce(issue[c], nonces, collected, now, minted)
  BY DEF TypeOK, NonceInv
<1>2. /\ q.pc = "failed" /\ q.error = error
      /\ q.cNonce = issue[c].cNonce /\ q.brought = issue[c].brought
  BY <1>1 DEF IssueState
<1>3. Become(c, q)
  BY DEF Fail
<1> HIDE DEF q
<1>4. CallNonce(q, nonces, collected, now, minted)
  BY <1>1, <1>2 DEF CallNonce, Checked
<1>5. PastChecks(issue[c]) => PastChecks(q)
  BY <1>2 DEF PastChecks
<1> QED BY <1>2, <1>3, <1>4, <1>5, CallKeepsNonces

\* A nonce is stored: what any call has of its own stays kept.
LEMMA StoringKeeps ==
    ASSUME TypeOK, NEW q \in IssueState, NEW n \in Uuids, NEW M, NEW M2, M \subseteq M2,
           CallNonce(q, nonces, collected, now, M)
    PROVE  CallNonce(q, SetState(nonces, n, [createdOn |-> now]), collected, now, M2)
<1>1. [createdOn |-> now] # Undefined
  BY UndefinedIsNoValue DEF TypeOK, NonceState
<1>2. CASE q.pc \in Checked
  <2>1. q.cNonce \in Uuids /\ q.setAt <= now
    BY <1>2 DEF CallNonce, NonceKept, IssueState
  <2>2. NonceKept(q, SetState(nonces, n, [createdOn |-> now]), collected, now)
    <3>1. CASE q.cNonce = n
      BY <1>1, <2>1, <3>1 DEF NonceKept, SetState, TypeOK
    <3>2. CASE q.cNonce # n
      BY <1>2, <2>1, <3>2 DEF CallNonce, NonceKept, SetState, TypeOK
    <3> QED BY <3>1, <3>2
  <2> QED BY <1>2, <2>2 DEF CallNonce
<1>3. CASE q.pc \notin Checked
  BY <1>3 DEF CallNonce
<1> QED BY <1>2, <1>3

\* The turn that stores a c_nonce, the caller's or a new one.
LEMMA ProceedKeepsNonces ==
    ASSUME TypeOK, NonceInv, NEW c \in Calls, NEW state \in IssueState,
           state.brought = issue[c].brought, state.cNonce = issue[c].cNonce,
           state.error = Undefined, ~PastChecks(issue[c]),
           Proceed(c, state), UNCHANGED <<now, collected>>
    PROVE  NonceInv'
<1>0. CallNonce(issue[c], nonces, collected, now, minted)
  BY DEF NonceInv
<1>1. CASE ~FormatSupported(state.opts)
  <2> DEFINE q == [state EXCEPT !.pc = "failed", !.error = "INVALID_REQUEST"]
  <2>1. Become(c, q) /\ UNCHANGED <<nonces, minted, known>>
    BY <1>1 DEF Proceed
  <2>2. q.pc = "failed" /\ q.cNonce = issue[c].cNonce /\ q.brought = issue[c].brought
    BY DEF IssueState
  <2> HIDE DEF q
  <2>3. CallNonce(q, nonces, collected, now, minted)
    BY <1>0, <2>2 DEF CallNonce, Checked
  <2> QED BY <2>1, <2>2, <2>3, CallKeepsNonces
<1>2. CASE FormatSupported(state.opts)
  <2>1. PICK cNonce \in NonceChoices(state) :
           /\ Become(c, [state EXCEPT !.pc = "saving", !.cNonce = cNonce, !.setAt = now])
           /\ nonces' = SetState(nonces, cNonce, [createdOn |-> now])
           /\ minted' = minted \cup {cNonce}
           /\ known' = known \cup {cNonce}
    BY <1>2 DEF Proceed, StoreNonce
  <2> DEFINE q == [state EXCEPT !.pc = "saving", !.cNonce = cNonce, !.setAt = now]
  <2>2. \/ state.brought /\ cNonce = issue[c].cNonce /\ cNonce \in minted
        \/ ~state.brought /\ cNonce \in Uuids \ minted
    BY <1>0, <2>1 DEF NonceChoices, FreshUuids, CallNonce
  <2>3. cNonce \in Uuids /\ cNonce # Undefined
    BY <2>2, UndefinedIsNoValue DEF TypeOK
  <2>4. /\ q.pc = "saving" /\ q.cNonce = cNonce /\ q.setAt = now
        /\ q.brought = state.brought /\ q.error = Undefined
    BY DEF IssueState
  <2>5. issue' = [issue EXCEPT ![c] = q]
    BY <2>1 DEF Become
  <2> HIDE DEF q
  <2>6. issue'[c] = q /\ \A d \in Calls \ {c} : issue'[d] = issue[d]
    BY <2>5 DEF TypeOK
  <2>7. CallNonce(q, nonces', collected, now, minted')
    <3>1. [createdOn |-> now] # Undefined /\ now \in Nat
      BY UndefinedIsNoValue DEF TypeOK, NonceState
    <3>2. nonces'[cNonce] = [createdOn |-> now]
      BY <2>1, <2>3 DEF SetState, TypeOK
    <3> QED BY <2>1, <2>3, <2>4, <3>1, <3>2 DEF CallNonce, NonceKept
  <2>8. ASSUME NEW d \in Calls PROVE CallNonce(issue[d], nonces, collected, now, minted)'
    <3>1. CASE d = c
      BY <2>6, <2>7, <3>1
    <3>2. CASE d # c
      <4>1. issue[d] \in IssueState /\ CallNonce(issue[d], nonces, collected, now, minted)
        BY DEF TypeOK, NonceInv
      <4>2. CallNonce(issue[d], nonces', collected, now, minted')
        BY <2>1, <2>3, <4>1, StoringKeeps
      <4> QED BY <2>6, <3>2, <4>2
    <3> QED BY <3>1, <3>2
  <2>9. NonceOnlyPastChecks'
    <3> SUFFICES ASSUME NEW n \in known'
                 PROVE  \E d \in Calls : issue'[d].cNonce = n /\ PastChecks(issue'[d])
      BY DEF NonceOnlyPastChecks, PastChecks
    <3>1. CASE n = cNonce
      BY <2>4, <2>6, <3>1 DEF PastChecks
    <3>2. CASE n # cNonce
      <4>1. PICK d \in Calls : issue[d].cNonce = n /\ PastChecks(issue[d])
        BY <2>1, <3>2 DEF NonceInv, NonceOnlyPastChecks, PastChecks
      <4> QED BY <2>6, <4>1
    <3> QED BY <3>1, <3>2
  <2> QED BY <2>1, <2>8, <2>9 DEF NonceInv
<1> QED BY <1>1, <1>2

\* A step of the nonce store and the clock: no call moves.
LEMMA EnvironmentKeepsNonces ==
    ASSUME NonceInv, UNCHANGED <<issue, known>>,
           \A c \in Calls : CallNonce(issue[c], nonces', collected', now', minted')
    PROVE  NonceInv'
<1>1. NonceOnlyPastChecks'
  BY DEF NonceInv, NonceOnlyPastChecks
<1> QED BY <1>1 DEF NonceInv

\* What the cleanup takes is collected.
LEMMA CleanupKeeps ==
    ASSUME TypeOK, NEW q \in IssueState, CallNonce(q, nonces, collected, now, minted),
           CollectNonces
    PROVE  CallNonce(q, nonces', collected', now, minted)
<1>1. CASE q.pc \in Checked
  <2>1. q.cNonce \in Uuids /\ q.setAt \in Nat /\ now \in Nat
    BY <1>1 DEF CallNonce, IssueState, TypeOK
  <2>2. \/ nonces'[q.cNonce] = nonces[q.cNonce]
        \/ nonces[q.cNonce] # Undefined /\ nonces[q.cNonce].createdOn < now
    <3>1. Threshold(Undefined, now) = now
      BY DEF Threshold
    <3>2. q.cNonce \in DOMAIN nonces
      BY <2>1 DEF TypeOK
    <3>3. nonces'[q.cNonce] = IF q.cNonce \in ExpiredKeys(nonces, now) THEN Undefined
                              ELSE nonces[q.cNonce]
      BY <3>1, <3>2 DEF CollectNonces, ClearExpiredStates
    <3> QED BY <3>3 DEF ExpiredKeys
  <2>3. collected \subseteq collected'
    BY DEF CollectNonces
  <2>4. CASE nonces'[q.cNonce] = nonces[q.cNonce]
    BY <1>1, <2>3, <2>4 DEF CallNonce, NonceKept
  <2>5. CASE nonces[q.cNonce] # Undefined /\ nonces[q.cNonce].createdOn < now
    <3> DEFINE entry == <<q.cNonce, nonces[q.cNonce].createdOn>>
    <3>1. entry \in collected'
      BY <2>1, <2>5 DEF CollectNonces, HasState
    <3>2. entry[1] = q.cNonce /\ entry[2] = nonces[q.cNonce].createdOn
      OBVIOUS
    <3> HIDE DEF entry
    <3>3. NonceKept(q, nonces', collected', now)
      BY <1>1, <2>3, <3>1, <3>2 DEF CallNonce, NonceKept
    <3> QED BY <1>1, <3>3 DEF CallNonce
  <2> QED BY <2>2, <2>4, <2>5
<1>2. CASE q.pc \notin Checked
  BY <1>2 DEF CallNonce
<1> QED BY <1>1, <1>2

LEMMA NonceStep == TypeOK /\ NonceInv /\ [Next]_vars => NonceInv'
<1> SUFFICES ASSUME TypeOK, NonceInv, [Next]_vars PROVE NonceInv'
  OBVIOUS
<1>0. \A c \in Calls : issue[c] \in IssueState /\ CallNonce(issue[c], nonces, collected, now, minted)
  BY DEF TypeOK, NonceInv
<1>1. ASSUME NEW c \in Calls, NEW opts \in Options, NEW cNonce \in minted \cup {Undefined},
             Issue(c, opts, cNonce)
      PROVE  NonceInv'
  <2> DEFINE q == [issue[c] EXCEPT !.pc = "lookup", !.opts = opts,
                                   !.brought = (cNonce # Undefined), !.cNonce = cNonce]
  <2>1. /\ q.pc = "lookup" /\ q.cNonce = cNonce /\ q.brought = (cNonce # Undefined)
        /\ q.error = issue[c].error
    BY <1>0 DEF IssueState
  <2>2. /\ Become(c, q) /\ UNCHANGED <<nonces, now, minted, known, collected>>
        /\ issue[c].pc = "unsent"
    BY <1>1 DEF Issue
  <2> HIDE DEF q
  <2>3. CallNonce(q, nonces, collected, now, minted) /\ ~PastChecks(issue[c])
    BY <1>0, <2>1, <2>2 DEF CallNonce, Checked, PastChecks
  <2> QED BY <2>1, <2>2, <2>3, CallKeepsNonces
<1>2. ASSUME NEW c \in Calls, Lookup(c) PROVE NonceInv'
  <2>1. /\ issue[c].pc = "lookup" /\ ~PastChecks(issue[c])
        /\ UNCHANGED <<nonces, now, minted, known, collected>>
    BY <1>2 DEF Lookup, PastChecks
  <2>2. ASSUME NEW offer, Become(c, [issue[c] EXCEPT !.pc = "asserted", !.offer = offer])
        PROVE  NonceInv'
    <3> DEFINE q == [issue[c] EXCEPT !.pc = "asserted", !.offer = offer]
    <3>1. /\ q.pc = "asserted" /\ q.cNonce = issue[c].cNonce /\ q.brought = issue[c].brought
          /\ q.error = issue[c].error
      BY <1>0 DEF IssueState
    <3> HIDE DEF q
    <3>2. CallNonce(q, nonces, collected, now, minted)
      BY <1>0, <2>1, <3>1 DEF CallNonce, Checked
    <3>3. Become(c, q)
      BY <2>2 DEF q
    <3> QED BY <2>1, <3>1, <3>2, <3>3, CallKeepsNonces
  <2> QED BY <1>2, <2>1, <2>2, FailKeepsNonces DEF Lookup
<1>3. ASSUME NEW c \in Calls, CheckGrants(c) PROVE NonceInv'
  <2>1. /\ issue[c].pc = "asserted" /\ ~PastChecks(issue[c]) /\ issue[c].error = Undefined
        /\ UNCHANGED <<now, collected>>
    BY <1>0, <1>3 DEF CheckGrants, PastChecks, CallNonce
  <2>2. CASE \E error : Fail(c, error) /\ UNCHANGED <<nonces, minted, known>>
    BY <2>1, <2>2, FailKeepsNonces
  <2>3. CASE /\ Become(c, [issue[c] EXCEPT !.pc = "verifying"])
             /\ UNCHANGED <<nonces, minted, known>>
    <3> DEFINE q == [issue[c] EXCEPT !.pc = "verifying"]
    <3>1. /\ q.pc = "verifying" /\ q.cNonce = issue[c].cNonce /\ q.brought = issue[c].brought
          /\ q.error = issue[c].error
      BY <1>0 DEF IssueState
    <3> HIDE DEF q
    <3>2. CallNonce(q, nonces, collected, now, minted)
      BY <1>0, <2>1, <3>1 DEF CallNonce, Checked
    <3>3. Become(c, q)
      BY <2>3 DEF q
    <3> QED BY <2>1, <2>3, <3>1, <3>2, <3>3, CallKeepsNonces
  <2>4. CASE Proceed(c, issue[c])
    BY <1>0, <2>1, <2>4, ProceedKeepsNonces
  <2> QED BY <1>3, <2>2, <2>3, <2>4 DEF CheckGrants
<1>4. ASSUME NEW c \in Calls, CheckProof(c) PROVE NonceInv'
  <2>1. /\ issue[c].pc = "verifying" /\ ~PastChecks(issue[c]) /\ issue[c].error = Undefined
        /\ UNCHANGED <<now, collected>>
    BY <1>0, <1>4 DEF CheckProof, PastChecks, CallNonce
  <2>2. PICK jwt \in Jwts :
          \/ Proceed(c, [issue[c] EXCEPT !.jwt = jwt])
          \/ (\E error : Fail(c, error)) /\ UNCHANGED <<nonces, minted, known>>
    BY <1>4 DEF CheckProof
  <2>3. CASE Proceed(c, [issue[c] EXCEPT !.jwt = jwt])
    <3> DEFINE state == [issue[c] EXCEPT !.jwt = jwt]
    <3>1. /\ state \in IssueState /\ state.error = issue[c].error
          /\ state.cNonce = issue[c].cNonce /\ state.brought = issue[c].brought
      BY <1>0, IssuerAssumption DEF IssueState
    <3>2. Proceed(c, state)
      BY <2>3
    <3> HIDE DEF state
    <3> QED BY <2>1, <3>1, <3>2, ProceedKeepsNonces
  <2> QED BY <2>1, <2>2, <2>3, FailKeepsNonces
<1>5. ASSUME NEW c \in Calls, VerifyFails(c) PROVE NonceInv'
  BY <1>5, FailKeepsNonces DEF VerifyFails, PastChecks
<1>6. ASSUME NEW c \in Calls, CallIssuer(c) \/ Respond(c) \/ IssuerFails(c) PROVE NonceInv'
  <2>1. /\ issue[c].pc \in {"saving", "issuing"}
        /\ UNCHANGED <<nonces, now, minted, known, collected>>
    BY <1>6 DEF CallIssuer, Respond, IssuerFails
  <2>2. ASSUME NEW pc \in {"issuing", "issued"}, Become(c, [issue[c] EXCEPT !.pc = pc])
        PROVE  NonceInv'
    <3> DEFINE q == [issue[c] EXCEPT !.pc = pc]
    <3>1. /\ q.pc = pc /\ q.cNonce = issue[c].cNonce /\ q.brought = issue[c].brought
          /\ q.error = issue[c].error /\ q.setAt = issue[c].setAt
      BY <1>0 DEF IssueState
    <3> HIDE DEF q
    <3>2. CallNonce(q, nonces, collected, now, minted)
      BY <1>0, <2>1, <3>1 DEF CallNonce, Checked, NonceKept
    <3>3. PastChecks(issue[c]) => PastChecks(q)
      BY <3>1 DEF PastChecks
    <3>4. Become(c, q)
      BY <2>2 DEF q
    <3> QED BY <2>1, <3>1, <3>2, <3>3, <3>4, CallKeepsNonces
  <2> QED BY <1>6, <2>1, <2>2, FailKeepsNonces DEF CallIssuer, Respond, IssuerFails
<1>7. CASE GrantNonce
  <2>1. PICK cNonce \in FreshUuids :
          /\ nonces' = SetState(nonces, cNonce, [createdOn |-> now])
          /\ minted' = minted \cup {cNonce}
          /\ UNCHANGED collected
    BY <1>7 DEF GrantNonce
  <2>2. cNonce \in Uuids /\ cNonce \notin minted
    BY DEF FreshUuids
  <2>3. \A c \in Calls : CallNonce(issue[c], nonces', collected, now, minted')
    BY <1>0, <2>1, <2>2, StoringKeeps
  <2> QED BY <1>7, <2>1, <2>2, <2>3, EnvironmentKeepsNonces DEF GrantNonce, NonceInv
<1>8. CASE CollectNonces
  <2>1. \A c \in Calls : CallNonce(issue[c], nonces', collected', now, minted)
    BY <1>0, <1>8, CleanupKeeps DEF CollectNonces
  <2> QED BY <1>8, <2>1, EnvironmentKeepsNonces DEF CollectNonces, NonceInv
<1>9. CASE Tick
  <2>1. now' = now + 1 /\ UNCHANGED <<issue, nonces, minted, known, collected>> /\ now \in Nat
    BY <1>9 DEF Tick, TypeOK
  <2>2. ASSUME NEW c \in Calls PROVE CallNonce(issue[c], nonces', collected', now', minted')
    <3>1. issue[c].setAt \in Nat
      BY <1>0 DEF IssueState
    <3> QED BY <1>0, <2>1, <3>1 DEF CallNonce, NonceKept
  <2> QED BY <2>1, <2>2, EnvironmentKeepsNonces DEF NonceInv
<1>10. CASE UNCHANGED <<issue, nonces, now, minted, known, collected>>
  BY <1>0, <1>10, EnvironmentKeepsNonces DEF NonceInv
<1> QED
  BY <1>1, <1>2, <1>3, <1>4, <1>5, <1>6, <1>7, <1>8, <1>9, <1>10
  DEF Next, Continue, Environment, StoreOffer, DeleteOffer, vars

LEMMA NoncesHold == Spec => [](TypeOK /\ NonceInv)
  BY InitNonces, NonceStep, IssuerTypeCorrect, PTL DEF Spec

\* The c_nonce of every response was stored before the issuer callback ran and
\* stays so, with a date no older than the call's, until a cleanup in a later
\* millisecond takes it; whoever else stores or collects nonces meanwhile, and
\* also when the caller brought it (nonceManager.setState in
\* issueCredentialFromIssueRequest).
THEOREM ResponseNoncesAreStored == Spec => []ResponseNonceStored
<1>1. NonceInv => ResponseNonceStored
  BY DEF NonceInv, CallNonce, NonceKept, Checked, ResponseNonceStored, HasState
<1> QED BY <1>1, NoncesHold, PTL

\* A call that ends without a credential leaves a c_nonce behind only past all
\* of its checks (setState after validateJWT and the format).
THEOREM NoncesArePastChecks == Spec => []NonceOnlyPastChecks
<1>1. NonceInv => NonceOnlyPastChecks
  BY DEF NonceInv
<1> QED BY <1>1, NoncesHold, PTL
-----------------------------------------------------------------------------
(***************************************************************************)
(* The issuer implements OfferRedemption.  A call is granted by the turn   *)
(* that stores its c_nonce, where CallSound has what was checked before.   *)
(***************************************************************************)
Views == [c \in Calls |-> RedemptionView(issue[c])]

LEMMA ViewByPc ==
    ASSUME NEW q
    PROVE  LET key == q.opts.issuerState
           IN /\ q.pc = "unsent" => RedemptionView(q) = Redemption!Unsent
              /\ q.pc = "lookup" => RedemptionView(q) =
                    Redemption!Record("asked", key, q.opts, Undefined, Undefined)
              /\ q.pc \in {"asserted", "verifying"} => RedemptionView(q) =
                    Redemption!Record("held", key, q.opts, q.offer, Undefined)
              /\ q.pc \in {"saving", "issuing"} => RedemptionView(q) =
                    Redemption!Record("granted", key, q.opts, q.offer, q.jwt)
              /\ q.pc = "issued" => RedemptionView(q) =
                    Redemption!Record("delivered", key, q.opts, q.offer, q.jwt)
              /\ q.pc = "failed" => RedemptionView(q) = Redemption!Closed
  BY DEF RedemptionView, RedemptionRecord, RedemptionPc, Redemption!Record,
         Redemption!Unsent, Redemption!Closed

LEMMA BecomeIsMove ==
    ASSUME TypeOK, NEW c \in Calls, NEW q, Become(c, q), UNCHANGED <<offers, now>>
    PROVE  /\ Redemption!Move(c, RedemptionView(q))
           /\ Views' = [Views EXCEPT ![c] = RedemptionView(q)]
<1>1. \A d \in Calls : issue'[d] = IF d = c THEN q ELSE issue[d]
  BY DEF TypeOK, Become
<1> QED BY <1>1 DEF Views, Redemption!Move

LEMMA FailureCloses ==
    ASSUME TypeOK, NEW c \in Calls, NEW q, Become(c, q), q.pc = "failed",
           issue[c].pc \in Pending, UNCHANGED <<offers, now>>
    PROVE  Redemption!Close(c)
<1>1. RedemptionView(issue[c]).pc \in Redemption!Open
  BY ViewByPc DEF Pending, Redemption!Record, Redemption!Open
<1>2. RedemptionView(q) = Redemption!Closed
  BY ViewByPc
<1> QED BY <1>1, <1>2, BecomeIsMove DEF Redemption!Close

LEMMA FailCloses ==
    ASSUME TypeOK, NEW c \in Calls, NEW error, Fail(c, error),
           issue[c].pc \in Pending, UNCHANGED <<offers, now>>
    PROVE  Redemption!Close(c)
<1>1. [issue[c] EXCEPT !.pc = "failed", !.error = error].pc = "failed"
  BY DEF TypeOK, IssueState
<1> QED BY <1>1, FailureCloses DEF Fail

\* The turn after the proof grants the call, or closes it.
LEMMA ProceedGrants ==
    ASSUME TypeOK, NEW c \in Calls, NEW state \in IssueState,
           issue[c].pc \in {"asserted", "verifying"},
           state.opts = issue[c].opts, state.offer = issue[c].offer,
           GrantsDefined(state.offer),
           ProofRequired(state.opts) => ProofStands(state.jwt, state.offer),
           Proceed(c, state), UNCHANGED <<offers, now>>
    PROVE  Redemption!Grant(c) \/ Redemption!Close(c)
<1>1. CASE FormatSupported(state.opts)
  <2>1. PICK cNonce \in NonceChoices(state) :
           Become(c, [state EXCEPT !.pc = "saving", !.cNonce = cNonce, !.setAt = now])
    BY <1>1 DEF Proceed
  <2> DEFINE q == [state EXCEPT !.pc = "saving", !.cNonce = cNonce, !.setAt = now]
             key == state.opts.issuerState
  <2>2. /\ q.pc = "saving" /\ q.opts = state.opts /\ q.offer = state.offer
        /\ q.jwt = state.jwt /\ state.jwt \in Jwts \cup {Undefined}
    BY DEF IssueState
  <2>3. Become(c, q)
    BY <2>1
  <2> HIDE DEF q
  <2>4. RedemptionView(q) =
           Redemption!Record("granted", key, state.opts, state.offer, state.jwt)
    BY <2>2, ViewByPc
  <2>5. RedemptionView(issue[c]) =
           Redemption!Record("held", key, state.opts, state.offer, Undefined)
    BY ViewByPc
  <2>6. RedeemableByCredential(state.opts, state.offer, state.jwt, now)
    BY <1>1 DEF RedeemableByCredential, GrantsDefined
  <2>7. Redemption!Move(c, RedemptionView(q))
    BY <2>3, BecomeIsMove
  <2>8. QED
    BY <2>2, <2>4, <2>5, <2>6, <2>7 DEF Redemption!Grant, Redemption!Record
<1>2. CASE ~FormatSupported(state.opts)
  <2>1. Become(c, [state EXCEPT !.pc = "failed", !.error = "INVALID_REQUEST"])
    BY <1>2 DEF Proceed
  <2>2. [state EXCEPT !.pc = "failed", !.error = "INVALID_REQUEST"].pc = "failed"
    BY DEF IssueState
  <2>3. QED
    BY <2>1, <2>2, FailureCloses DEF Pending
<1>3. QED
  BY <1>1, <1>2

LEMMA InitIsRedemptionInit == Init => Redemption!RInit
<1> SUFFICES ASSUME Init PROVE Redemption!RInit
  OBVIOUS
<1>1. RedemptionView(NoCall) = Redemption!Unsent
  BY ViewByPc DEF NoCall
<1> QED BY <1>1 DEF Init, EmptyStore, Redemption!RInit

LEMMA StepIsRedemptionStep ==
    IssueInv /\ [Next]_vars => [Redemption!RNext]_(Redemption!rvars)
<1> SUFFICES ASSUME IssueInv, [Next]_vars
             PROVE  [Redemption!RNext]_(Redemption!rvars)
  OBVIOUS
<1> USE IssuerAssumption, UndefinedIsNoValue
<1>0. /\ TypeOK /\ TypeOK'
      /\ \A c \in Calls : issue[c] \in IssueState /\ CallSound(issue[c], stored)
  BY StepStaysTyped DEF IssueInv, TypeOK
<1>1. ASSUME NEW c \in Calls, NEW opts \in Options,
             NEW cNonce \in minted \cup {Undefined}, Issue(c, opts, cNonce)
      PROVE  Redemption!Ask(c, opts)
  <2> DEFINE q == [issue[c] EXCEPT !.pc = "lookup", !.opts = opts,
                                   !.brought = (cNonce # Undefined),
                                   !.cNonce = cNonce]
  <2>1. q.pc = "lookup" /\ q.opts = opts
    BY <1>0 DEF IssueState
  <2>2. Become(c, q) /\ UNCHANGED <<offers, now>> /\ issue[c].pc = "unsent"
    BY <1>1 DEF Issue
  <2> HIDE DEF q
  <2>3. RedemptionView(q) =
           Redemption!Record("asked", opts.issuerState, opts, Undefined, Undefined)
    BY <2>1, ViewByPc
  <2>4. RedemptionView(issue[c]).pc = "unsent"
    BY <2>2, ViewByPc DEF Redemption!Unsent, Redemption!Record
  <2>5. opts.issuerState \in States
    BY DEF Option
  <2>6. Redemption!Move(c, RedemptionView(q))
    BY <1>0, <2>2, BecomeIsMove
  <2>7. QED
    BY <2>3, <2>4, <2>5, <2>6 DEF Redemption!Ask
<1>2. ASSUME NEW c \in Calls, Lookup(c)
      PROVE  Redemption!Read(c) \/ Redemption!Close(c)
  <2> DEFINE s == issue[c].opts.issuerState
             q == [issue[c] EXCEPT !.pc = "asserted", !.offer = GetState(offers, s)]
  <2>1. issue[c].pc = "lookup" /\ s \in States /\ UNCHANGED <<offers, now>>
    BY <1>0, <1>2 DEF Lookup, CallSound, Option
  <2>2. CASE HasState(offers, s) /\ Become(c, q)
    <3>1. q.pc = "asserted" /\ q.opts = issue[c].opts /\ q.offer = offers[s]
      BY <1>0 DEF IssueState, GetState
    <3>2. Become(c, q) /\ offers[s] # Undefined
      BY <2>2 DEF HasState
    <3> HIDE DEF q
    <3>3. RedemptionView(q) =
             Redemption!Record("held", s, issue[c].opts, offers[s], Undefined)
      BY <3>1, ViewByPc
    <3>4. RedemptionView(issue[c]) =
             Redemption!Record("asked", s, issue[c].opts, Undefined, Undefined)
      BY <2>1, ViewByPc
    <3>5. Redemption!Move(c, RedemptionView(q))
      BY <1>0, <2>1, <3>2, BecomeIsMove
    <3>6. QED
      BY <2>1, <3>2, <3>3, <3>4, <3>5 DEF Redemption!Read, Redemption!Record
  <2>3. CASE \E error \in {"UNKNOWN_CLIENT", "GRANTS_MUST_NOT_BE_UNDEFINED"} :
               Fail(c, error)
    BY <1>0, <2>1, <2>3, FailCloses DEF Pending
  <2>4. QED
    BY <1>2, <2>2, <2>3 DEF Lookup
<1>3. ASSUME NEW c \in Calls, Become(c, [issue[c] EXCEPT !.pc = "verifying"]),
             issue[c].pc = "asserted", UNCHANGED <<offers, now>>
      PROVE  UNCHANGED Redemption!rvars
  <2> DEFINE q == [issue[c] EXCEPT !.pc = "verifying"]
  <2>1. q.pc = "verifying" /\ q.opts = issue[c].opts /\ q.offer = issue[c].offer
    BY <1>0 DEF IssueState
  <2>2. RedemptionView(q) = RedemptionView(issue[c])
    BY <1>3, <2>1, ViewByPc
  <2> HIDE DEF q
  <2>3. Views' = [Views EXCEPT ![c] = RedemptionView(q)]
    BY <1>0, <1>3, BecomeIsMove DEF q
  <2>4. QED
    BY <1>3, <2>2, <2>3 DEF Views, Redemption!rvars
<1>4. ASSUME NEW c \in Calls, CheckGrants(c)
      PROVE  Redemption!Grant(c) \/ Redemption!Close(c) \/ UNCHANGED Redemption!rvars
  <2>1. issue[c].pc = "asserted" /\ UNCHANGED <<offers, now>>
    BY <1>4 DEF CheckGrants
  <2>2. CASE \E error : Fail(c, error)
    BY <1>0, <2>1, <2>2, FailCloses DEF Pending
  <2>3. CASE /\ GrantsDefined(issue[c].offer) /\ ~ProofRequired(issue[c].opts)
             /\ Proceed(c, issue[c])
    BY <1>0, <2>1, <2>3, ProceedGrants
  <2>4. CASE Become(c, [issue[c] EXCEPT !.pc = "verifying"])
    BY <1>3, <2>1, <2>4
  <2>5. QED
    BY <1>4, <2>2, <2>3, <2>4 DEF CheckGrants
<1>5. ASSUME NEW c \in Calls, CheckProof(c)
      PROVE  Redemption!Grant(c) \/ Redemption!Close(c)
  <2>1. issue[c].pc = "verifying" /\ UNCHANGED <<offers, now>>
    BY <1>5 DEF CheckProof
  <2>2. CASE \E error : Fail(c, error)
    BY <1>0, <2>1, <2>2, FailCloses DEF Pending
  <2>3. ASSUME NEW jwt \in Jwts, JwtPasses(jwt, issue[c].offer),
               Proceed(c, [issue[c] EXCEPT !.jwt = jwt])
        PROVE  Redemption!Grant(c) \/ Redemption!Close(c)
    <3> DEFINE state == [issue[c] EXCEPT !.jwt = jwt]
    <3>1. /\ state \in IssueState /\ state.jwt = jwt
          /\ state.opts = issue[c].opts /\ state.offer = issue[c].offer
      BY <1>0 DEF IssueState
    <3>2. Proceed(c, state)
      BY <2>3
    <3>3. GrantsDefined(issue[c].offer)
      BY <1>0, <2>1 DEF CallSound
    <3>4. ProofStands(jwt, issue[c].offer)
      BY <2>3, PassesStands
    <3> HIDE DEF state
    <3>5. QED
      BY <1>0, <2>1, <3>1, <3>2, <3>3, <3>4, ProceedGrants
  <2>4. QED
    BY <1>5, <2>2, <2>3 DEF CheckProof
<1>6. ASSUME NEW c \in Calls, VerifyFails(c) \/ IssuerFails(c)
      PROVE  Redemption!Close(c)
  BY <1>0, <1>6, FailCloses DEF VerifyFails, IssuerFails, Pending
<1>7. ASSUME NEW c \in Calls, CallIssuer(c)
      PROVE  Redemption!Close(c) \/ UNCHANGED Redemption!rvars
  <2>1. issue[c].pc = "saving" /\ UNCHANGED <<offers, now>>
    BY <1>7 DEF CallIssuer
  <2> DEFINE q == [issue[c] EXCEPT !.pc = "issuing"]
  <2>2. CASE Become(c, q)
    <3>1. /\ q.pc = "issuing" /\ q.opts = issue[c].opts /\ q.offer = issue[c].offer
          /\ q.jwt = issue[c].jwt
      BY <1>0 DEF IssueState
    <3> HIDE DEF q
    <3>2. RedemptionView(q) = RedemptionView(issue[c])
      BY <2>1, <3>1, ViewByPc
    <3>3. Views' = [Views EXCEPT ![c] = RedemptionView(q)]
      BY <1>0, <2>1, <2>2, BecomeIsMove
    <3>4. QED
      BY <2>1, <3>2, <3>3 DEF Views, Redemption!rvars
  <2>3. CASE Fail(c, "ISSUER_CONFIG")
    BY <1>0, <2>1, <2>3, FailCloses DEF Pending
  <2>4. QED
    BY <1>7, <2>2, <2>3 DEF CallIssuer
<1>8. ASSUME NEW c \in Calls, Respond(c)
      PROVE  Redemption!Deliver(c)
  <2> DEFINE q == [issue[c] EXCEPT !.pc = "issued"]
             key == issue[c].opts.issuerState
  <2>1. /\ q.pc = "issued" /\ q.opts = issue[c].opts /\ q.offer = issue[c].offer
        /\ q.jwt = issue[c].jwt
    BY <1>0 DEF IssueState
  <2>2. Become(c, q) /\ UNCHANGED <<offers, now>> /\ issue[c].pc = "issuing"
    BY <1>8 DEF Respond
  <2> HIDE DEF q
  <2>3. RedemptionView(q) =
           Redemption!Record("delivered", key, issue[c].opts, issue[c].offer, issue[c].jwt)
    BY <2>1, ViewByPc
  <2>4. RedemptionView(issue[c]) =
           Redemption!Record("granted", key, issue[c].opts, issue[c].offer, issue[c].jwt)
    BY <2>2, ViewByPc
  <2>5. Redemption!Move(c, RedemptionView(q))
    BY <1>0, <2>2, BecomeIsMove
  <2>6. QED
    BY <2>3, <2>4, <2>5 DEF Redemption!Deliver, Redemption!Record
<1>9. ASSUME \/ \E s \in States : DeleteOffer(s)
             \/ \E s \in States, offer \in OfferContents : StoreOffer(s, offer)
             \/ Tick
      PROVE  Redemption!Change
  <2>1. UNCHANGED issue /\ offers' \in Redemption!OfferStores /\ now' \in Nat
    BY <1>0, <1>9 DEF DeleteOffer, StoreOffer, Tick, TypeOK, Redemption!OfferStores
  <2>2. now' = now \/ now' = now + 1
    BY <1>9 DEF DeleteOffer, StoreOffer, Tick
  <2>3. now <= now'
    BY <1>0, <2>2 DEF TypeOK
  <2>4. QED
    BY <2>1, <2>3 DEF Redemption!Change
<1>10. CASE GrantNonce \/ CollectNonces \/ UNCHANGED vars
  BY <1>10 DEF GrantNonce, CollectNonces, vars, Redemption!rvars
<1>11. QED
  BY <1>1, <1>2, <1>4, <1>5, <1>6, <1>7, <1>8, <1>9, <1>10
  DEF Next, Continue, Environment, Redemption!RNext

\* Every call for a credential, whatever other calls and the application do
\* meanwhile, is a redemption of one offer: read at one instant, granted on
\* that offer and the verified proof, then issued.
THEOREM CredentialsImplementRedemption == Spec => ImplementsRedemption
<1>1. QED
  BY InvariantHolds, InitIsRedemptionInit, StepIsRedemptionStep, PTL
  DEF Spec, ImplementsRedemption, Redemption!RSpec
=============================================================================
