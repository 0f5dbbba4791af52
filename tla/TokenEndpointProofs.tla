------------------------ MODULE TokenEndpointProofs -------------------------
(***************************************************************************)
(* Proofs about TokenEndpoint, for any set of requests, offers, codes,     *)
(* PINs and uuids, any durations and any bounds.                           *)
(***************************************************************************)
EXTENDS TokenEndpoint, TLAPS

LEMMA StoredEntryIsTyped ==
    ASSUME NEW K, NEW V, Undefined \notin V,
           NEW store \in [K -> V \cup {Undefined}], NEW k \in K,
           HasState(store, k)
    PROVE  store[k] \in V
  BY DEF HasState

LEMMA ClearedStoreIsTyped ==
    ASSUME NEW K, NEW V, NEW store \in [K -> V \cup {Undefined}],
           NEW timestamp, NEW t
    PROVE  /\ ClearExpiredStates(store, timestamp, t) \in [K -> V \cup {Undefined}]
           /\ ClearAllStates(store) \in [K -> V \cup {Undefined}]
  BY DEF ClearExpiredStates, ClearAllStates, EmptyStore

LEMMA RequestsStayTyped ==
    ASSUME request \in [Requests -> RequestState],
           NEW r \in Requests, NEW state \in RequestState, Become(r, state)
    PROVE  request' \in [Requests -> RequestState]
  BY DEF Become

LEMMA MovedIsTyped ==
    ASSUME NEW q \in RequestState,
           NEW pc \in InFlight \cup {"unsent", "answered", "refused", "dropped"}
    PROVE  [q EXCEPT !.pc = pc] \in RequestState
  BY DEF RequestState

LEMMA ReceivedIsTyped ==
    ASSUME NEW q \in RequestState, NEW body \in Bodies, NEW b \in Nat
    PROVE  [q EXCEPT !.pc = "received", !.body = body, !.boot = b] \in RequestState
  BY DEF RequestState, InFlight

\* Every variable keeps its type: a step of the endpoint, the application or
\* the process stores only offers, nonce entries and request states.
THEOREM TypeCorrect == Spec => []TypeOK
<1>1. Init => TypeOK
  BY DEF Init, TypeOK, EmptyStore, NoRequest, RequestState, InFlight
<1>2. TypeOK /\ [Next]_vars => TypeOK'
  <2> SUFFICES ASSUME TypeOK, [Next]_vars PROVE TypeOK'
    OBVIOUS
  <2> USE TokenAssumption, UndefinedAssumption
  <2>1. ASSUME NEW r \in Requests, NEW body \in Bodies, Receive(r, body)
        PROVE  TypeOK'
    <3>1. [request[r] EXCEPT !.pc = "received", !.body = body, !.boot = boot]
             \in RequestState
      BY ReceivedIsTyped DEF TypeOK
    <3>2. QED
      BY <2>1, <3>1, RequestsStayTyped DEF Receive, TypeOK
  <2>2. ASSUME NEW r \in Requests, AssertState(r)
        PROVE  TypeOK'
    <3>1. offers[request[r].body.state] \in OfferState
      BY <2>2, StoredEntryIsTyped DEF AssertState, OfferPresent, TypeOK
    <3>2. ASSUME NEW q \in RequestState, NEW offer \in OfferState
          PROVE  [q EXCEPT !.pc = "asserted", !.offer = offer] \in RequestState
      BY DEF RequestState, InFlight
    <3>3. QED
      BY <2>2, <3>1, <3>2, RequestsStayTyped DEF AssertState, GetState, TypeOK
  <2>3. ASSUME NEW r \in Requests, AssertFails(r) \/ SignerFails(r) \/ Answer(r)
        PROVE  TypeOK'
    <3>1. /\ [request[r] EXCEPT !.pc = "failed"] \in RequestState
          /\ [request[r] EXCEPT !.pc = "answered"] \in RequestState
      BY MovedIsTyped DEF TypeOK, InFlight
    <3>2. QED
      BY <2>3, <3>1, RequestsStayTyped DEF AssertFails, SignerFails, Answer, TypeOK
  <2>4. ASSUME NEW r \in Requests, Refuse(r)
        PROVE  TypeOK'
    <3>1. PICK i \in DOMAIN Errors :
                 Become(r, [request[r] EXCEPT !.pc = "refused", !.error = Errors[i],
                                              !.checkedAt = now])
      BY <2>4 DEF Refuse
    <3>2. Errors[i] \in ErrorNames
      BY DEF ErrorNames
    <3>3. ASSUME NEW q \in RequestState, NEW e \in ErrorNames, NEW t \in Nat
          PROVE  [q EXCEPT !.pc = "refused", !.error = e, !.checkedAt = t]
                    \in RequestState
      BY DEF RequestState, InFlight
    <3>4. QED
      BY <2>4, <3>1, <3>2, <3>3, RequestsStayTyped DEF Refuse, TypeOK
  <2>5. ASSUME NEW r \in Requests, Accept(r)
        PROVE  TypeOK'
    <3>1. PICK cNonce \in FreshUuids :
             /\ Become(r, [request[r] EXCEPT !.pc = "saving", !.nonce = cNonce,
                                             !.checkedAt = now])
             /\ minted' = minted \cup {cNonce}
      BY <2>5 DEF Accept
    <3>2. ASSUME NEW q \in RequestState, NEW t \in Nat
          PROVE  [q EXCEPT !.pc = "saving", !.nonce = cNonce, !.checkedAt = t]
                    \in RequestState
      BY DEF RequestState, InFlight, FreshUuids
    <3>3. QED
      BY <2>5, <3>1, <3>2, RequestsStayTyped DEF Accept, FreshUuids, TypeOK
  <2>6. ASSUME NEW r \in Requests, SaveNonce(r)
        PROVE  TypeOK'
    <3>1. [request[r] EXCEPT !.pc = "signing"] \in RequestState
      BY MovedIsTyped DEF TypeOK, InFlight
    <3>2. [createdOn |-> request[r].checkedAt] \in NonceState
      BY DEF TypeOK, RequestState, NonceState
    <3>3. QED
      BY <2>6, <3>1, <3>2, RequestsStayTyped DEF SaveNonce, SetState, TypeOK
  <2>7. ASSUME NEW s \in States, NEW content \in OfferContents, StoreOffer(s, content)
        PROVE  TypeOK'
    <3> DEFINE offer == [preAuthGrant |-> content.preAuthGrant, code |-> content.code,
                         pinRequired |-> content.pinRequired,
                         userPin |-> content.userPin, createdOn |-> now]
    <3>1. offer \in OfferState
      BY DEF OfferContent, OfferState, TypeOK
    <3>2. offers' = [offers EXCEPT ![s] = offer] /\ stored' = stored \cup {<<s, offer>>}
      BY <2>7 DEF StoreOffer, SetState
    <3> HIDE DEF offer
    <3>3. QED
      BY <2>7, <3>1, <3>2 DEF StoreOffer, TypeOK
  <2>8. ASSUME NEW s \in States, DeleteOffer(s)
        PROVE  TypeOK'
    BY <2>8 DEF DeleteOffer, DeleteState, TypeOK
  <2>9. CASE CollectNonces
    BY <2>9, ClearedStoreIsTyped DEF CollectNonces, TypeOK
  <2>10. CASE Tick
    BY <2>10 DEF Tick, TypeOK
  <2>11. CASE Crash
    <3>1. offers' \in [States -> OfferState \cup {Undefined}]
      BY <2>11, ClearedStoreIsTyped DEF Crash, TypeOK
    <3>2. nonces' \in [Uuids -> NonceState \cup {Undefined}]
      BY <2>11, ClearedStoreIsTyped DEF Crash, TypeOK
    <3>3. request' \in [Requests -> RequestState]
      BY <2>11 DEF Crash, TypeOK, RequestState, InFlight
    <3>4. QED
      BY <2>11, <3>1, <3>2, <3>3 DEF Crash, TypeOK
  <2>12. CASE Restart
    BY <2>12 DEF Restart, TypeOK
  <2>13. CASE UNCHANGED vars
    BY <2>13 DEF vars, TypeOK
  <2>14. QED
    BY <2>1, <2>2, <2>3, <2>4, <2>5, <2>6, <2>7, <2>8, <2>9, <2>10, <2>11,
       <2>12, <2>13 DEF Next, Handle, Environment
<1>3. QED
  BY <1>1, <1>2, PTL DEF Spec
-----------------------------------------------------------------------------
(***************************************************************************)
(* TokenBacked is not inductive: Accept needs that the offer it checks was *)
(* stored, which holds because AssertState read it from the store, which holds  *)
(* nothing else.  The clock matters too: an offer is not created after it  *)
(* is checked.                                                             *)
(***************************************************************************)
OffersBacked ==
    \A s \in States :
        HasState(offers, s) =>
            <<s, offers[s]>> \in stored /\ offers[s].createdOn <= now

\* The state q of a request, when S are the offers stored so far at time t.
RequestBacked(q, S, t) ==
    /\ q.pc = "asserted" => /\ q.offer \in OfferState
                            /\ <<q.body.state, q.offer>> \in S
                            /\ q.offer.createdOn <= t
    /\ q.pc \in {"unsent", "received", "asserted"} => q.nonce = Undefined
    /\ q.nonce # Undefined => /\ <<q.body.state, q.offer>> \in S
                              /\ Redeems(q.offer, q.body, q.checkedAt)

BackedInv ==
    /\ TypeOK
    /\ OffersBacked
    /\ \A r \in Requests : RequestBacked(request[r], stored, now)

\* A request that passes all checks redeems the offer.
LEMMA PassesRedeems ==
    ASSUME NEW offer, NEW body, NEW t, Passes(offer, body, t),
           offer.pinRequired \in BOOLEAN,
           offer.createdOn \in Nat, t \in Nat, offer.createdOn <= t
    PROVE  Redeems(offer, body, t)
<1>1. \A i \in 1 .. 8 : ~Fails(i, offer, body, t)
  BY DEF Passes
<1>2. /\ IsValidGrant(offer, body.grantType)
      /\ offer.pinRequired => body.pin # Undefined
      /\ ~offer.pinRequired => body.pin = Undefined
      /\ offer.userPin = PinNumber(body.pin)
      /\ body.code = offer.code
      /\ ~IsPreAuthorizedCodeExpired(offer, t)
  <2>1. ~Fails(1, offer, body, t) => IsValidGrant(offer, body.grantType)
    BY DEF Fails
  <2>2. ~Fails(3, offer, body, t) => (offer.pinRequired => body.pin # Undefined)
    BY DEF Fails
  <2>3. ~Fails(4, offer, body, t) => (~offer.pinRequired => body.pin = Undefined)
    BY DEF Fails
  <2>4. ~Fails(6, offer, body, t) => offer.userPin = PinNumber(body.pin)
    BY DEF Fails
  <2>5. ~Fails(7, offer, body, t) => body.code = offer.code
    BY DEF Fails
  <2>6. ~Fails(8, offer, body, t) => ~IsPreAuthorizedCodeExpired(offer, t)
    BY DEF Fails
  <2>7. QED
    BY <1>1, <2>1, <2>2, <2>3, <2>4, <2>5, <2>6
<1>3. t < offer.createdOn + Duration
  BY <1>2, TokenAssumption DEF IsPreAuthorizedCodeExpired
<1>4. QED
  BY <1>2, <1>3 DEF Redeems, IsValidGrant

\* Storing offers and the passing of time keep a request backed.
LEMMA BackedIsMonotone ==
    ASSUME NEW q, NEW S, NEW S2, S \subseteq S2,
           NEW t \in Nat, NEW t2 \in Nat, t <= t2,
           RequestBacked(q, S, t)
    PROVE  RequestBacked(q, S2, t2)
  BY DEF RequestBacked, OfferState

\* A step of the handler of r that leaves the offers alone keeps the invariant
\* if it leaves r backed.
LEMMA HandlerKeepsBacked ==
    ASSUME BackedInv, TypeOK',
           NEW r \in Requests, NEW state, Become(r, state),
           UNCHANGED <<offers, now, stored>>,
           RequestBacked(state, stored, now)
    PROVE  BackedInv'
<1>1. OffersBacked'
  BY DEF BackedInv, OffersBacked, HasState
<1>2. ASSUME NEW q \in Requests
      PROVE  RequestBacked(request[q], stored, now)'
  <2>1. CASE q = r
    BY <2>1 DEF Become, BackedInv, TypeOK
  <2>2. CASE q # r
    <3>1. request'[q] = request[q]
      BY <2>2 DEF Become, BackedInv, TypeOK
    <3>2. RequestBacked(request[q], stored, now)
      BY DEF BackedInv
    <3>3. QED
      BY <3>1, <3>2
  <2>3. QED
    BY <2>1, <2>2
<1>3. QED
  BY <1>1, <1>2 DEF BackedInv

\* A step that changes no request, removes offers or stores new ones, and lets
\* time pass.
LEMMA EnvironmentKeepsBacked ==
    ASSUME BackedInv, TypeOK', OffersBacked', UNCHANGED request,
           stored \subseteq stored', now <= now'
    PROVE  BackedInv'
<1>1. ASSUME NEW r \in Requests
      PROVE  RequestBacked(request[r], stored, now)'
  <2>1. RequestBacked(request[r], stored', now')
    BY BackedIsMonotone DEF BackedInv, TypeOK
  <2>2. QED
    BY <2>1
<1>2. QED
  BY <1>1 DEF BackedInv

LEMMA BackedStep == TypeOK' /\ BackedInv /\ [Next]_vars => BackedInv'
<1> SUFFICES ASSUME TypeOK', BackedInv, [Next]_vars PROVE BackedInv'
  OBVIOUS
<1> USE TokenAssumption, UndefinedAssumption
<1>0. \A r \in Requests : /\ request[r] \in RequestState
                          /\ RequestBacked(request[r], stored, now)
  BY DEF BackedInv, TypeOK
<1>1. ASSUME NEW r \in Requests, NEW body \in Bodies, Receive(r, body)
      PROVE  BackedInv'
  <2>1. RequestBacked([request[r] EXCEPT !.pc = "received", !.body = body,
                                         !.boot = boot], stored, now)
    BY <1>0, <1>1 DEF Receive, RequestBacked, RequestState
  <2>2. QED
    BY <1>1, <2>1, HandlerKeepsBacked DEF Receive
<1>2. ASSUME NEW r \in Requests, AssertState(r)
      PROVE  BackedInv'
  <2> DEFINE s == request[r].body.state
  <2>1. /\ offers[s] \in OfferState
        /\ <<s, offers[s]>> \in stored
        /\ offers[s].createdOn <= now
    <3>1. s \in States /\ HasState(offers, s)
      BY <1>2 DEF AssertState, OfferPresent
    <3>2. QED
      BY <3>1, StoredEntryIsTyped DEF BackedInv, TypeOK, OffersBacked
  <2>2. RequestBacked([request[r] EXCEPT !.pc = "asserted", !.offer = offers[s]],
                      stored, now)
    BY <1>0, <1>2, <2>1 DEF AssertState, RequestBacked, RequestState
  <2>3. QED
    BY <1>2, <2>2, HandlerKeepsBacked DEF AssertState, GetState
<1>3. ASSUME NEW r \in Requests, AssertFails(r) \/ SignerFails(r) \/ Answer(r)
      PROVE  BackedInv'
  <2>1. /\ RequestBacked([request[r] EXCEPT !.pc = "failed"], stored, now)
        /\ RequestBacked([request[r] EXCEPT !.pc = "answered"], stored, now)
    BY <1>0 DEF RequestBacked, RequestState
  <2>2. QED
    BY <1>3, <2>1, HandlerKeepsBacked DEF AssertFails, SignerFails, Answer
<1>4. ASSUME NEW r \in Requests, Refuse(r)
      PROVE  BackedInv'
  <2>1. PICK i \in DOMAIN Errors :
               Become(r, [request[r] EXCEPT !.pc = "refused", !.error = Errors[i],
                                            !.checkedAt = now])
    BY <1>4 DEF Refuse
  <2>2. request[r].nonce = Undefined
    BY <1>0, <1>4 DEF Refuse, RequestBacked
  <2>3. RequestBacked([request[r] EXCEPT !.pc = "refused", !.error = Errors[i],
                                         !.checkedAt = now], stored, now)
    BY <1>0, <2>2 DEF RequestBacked, RequestState
  <2>4. QED
    BY <1>4, <2>1, <2>3, HandlerKeepsBacked DEF Refuse
<1>5. ASSUME NEW r \in Requests, Accept(r)
      PROVE  BackedInv'
  <2>1. PICK cNonce \in FreshUuids :
               Become(r, [request[r] EXCEPT !.pc = "saving", !.nonce = cNonce,
                                            !.checkedAt = now])
    BY <1>5 DEF Accept
  <2>2. /\ request[r].offer \in OfferState
        /\ <<request[r].body.state, request[r].offer>> \in stored
        /\ request[r].offer.createdOn <= now
    BY <1>0, <1>5 DEF Accept, RequestBacked
  <2>3. Redeems(request[r].offer, request[r].body, now)
    BY <1>5, <2>2, PassesRedeems DEF Accept, OfferState, BackedInv, TypeOK
  <2>4. RequestBacked([request[r] EXCEPT !.pc = "saving", !.nonce = cNonce,
                                         !.checkedAt = now], stored, now)
    BY <1>0, <2>2, <2>3 DEF RequestBacked, RequestState
  <2>5. QED
    BY <1>5, <2>1, <2>4, HandlerKeepsBacked DEF Accept
<1>6. ASSUME NEW r \in Requests, SaveNonce(r)
      PROVE  BackedInv'
  <2>1. RequestBacked([request[r] EXCEPT !.pc = "signing"], stored, now)
    BY <1>0 DEF RequestBacked, RequestState
  <2>2. QED
    BY <1>6, <2>1, HandlerKeepsBacked DEF SaveNonce
<1>7. ASSUME NEW s \in States, NEW content \in OfferContents, StoreOffer(s, content)
      PROVE  BackedInv'
  <2> DEFINE offer == [preAuthGrant |-> content.preAuthGrant, code |-> content.code,
                       pinRequired |-> content.pinRequired,
                       userPin |-> content.userPin, createdOn |-> now]
  <2>1. /\ offers' = [offers EXCEPT ![s] = offer]
        /\ stored' = stored \cup {<<s, offer>>}
        /\ UNCHANGED <<request, now>>
    BY <1>7 DEF StoreOffer, SetState
  <2>2. offer.createdOn <= now
    BY DEF BackedInv, TypeOK
  <2> HIDE DEF offer
  <2>3. OffersBacked'
    BY <2>1, <2>2 DEF BackedInv, TypeOK, OffersBacked, HasState
  <2>4. UNCHANGED request /\ stored \subseteq stored' /\ now <= now'
    BY <2>1 DEF BackedInv, TypeOK
  <2>5. QED
    BY <2>3, <2>4, EnvironmentKeepsBacked
<1>8. ASSUME NEW s \in States, DeleteOffer(s)
      PROVE  BackedInv'
  <2>1. OffersBacked'
    BY <1>8 DEF DeleteOffer, DeleteState, BackedInv, TypeOK, OffersBacked, HasState
  <2>2. UNCHANGED request /\ stored \subseteq stored' /\ now <= now'
    BY <1>8 DEF DeleteOffer, BackedInv, TypeOK
  <2>3. QED
    BY <2>1, <2>2, EnvironmentKeepsBacked
<1>9. CASE CollectNonces \/ Restart
  <2>1. OffersBacked'
    BY <1>9 DEF CollectNonces, Restart, BackedInv, OffersBacked, HasState
  <2>2. UNCHANGED request /\ stored \subseteq stored' /\ now <= now'
    BY <1>9 DEF CollectNonces, Restart, BackedInv, TypeOK
  <2>3. QED
    BY <2>1, <2>2, EnvironmentKeepsBacked
<1>10. CASE Tick
  <2>1. OffersBacked'
    BY <1>10, StoredEntryIsTyped
    DEF Tick, BackedInv, TypeOK, OffersBacked, HasState, OfferState
  <2>2. UNCHANGED request /\ stored \subseteq stored' /\ now <= now'
    BY <1>10 DEF Tick, BackedInv, TypeOK
  <2>3. QED
    BY <2>1, <2>2, EnvironmentKeepsBacked
<1>11. CASE Crash
  <2>1. OffersBacked'
    BY <1>11 DEF Crash, BackedInv, TypeOK, OffersBacked, HasState,
                 ClearAllStates, EmptyStore
  <2>2. ASSUME NEW r \in Requests
        PROVE  RequestBacked(request[r], stored, now)'
    <3>1. \/ request'[r] = request[r]
          \/ request'[r] = [request[r] EXCEPT !.pc = "dropped"]
      BY <1>11 DEF Crash
    <3>2. RequestBacked([request[r] EXCEPT !.pc = "dropped"], stored, now)
      BY <1>0 DEF RequestBacked, RequestState
    <3>3. QED
      BY <1>0, <1>11, <3>1, <3>2 DEF Crash
  <2>3. QED
    BY <2>1, <2>2 DEF BackedInv
<1>12. CASE UNCHANGED vars
  <2>1. OffersBacked'
    BY <1>12 DEF vars, BackedInv, OffersBacked, HasState
  <2>2. UNCHANGED request /\ stored \subseteq stored' /\ now <= now'
    BY <1>12 DEF vars, BackedInv, TypeOK
  <2>3. QED
    BY <2>1, <2>2, EnvironmentKeepsBacked
<1>13. QED
  BY <1>1, <1>2, <1>3, <1>4, <1>5, <1>6, <1>7, <1>8, <1>9, <1>10, <1>11, <1>12
  DEF Next, Handle, Environment

LEMMA InitBacked == Init => BackedInv
<1>1. Init => TypeOK
  BY DEF Init, TypeOK, EmptyStore, NoRequest, RequestState, InFlight
<1>2. Init => OffersBacked
  BY DEF Init, OffersBacked, HasState, EmptyStore
<1>3. Init => \A r \in Requests : RequestBacked(request[r], stored, now)
  BY DEF Init, RequestBacked, NoRequest
<1>4. QED
  BY <1>1, <1>2, <1>3 DEF BackedInv

\* Every token comes from a request that redeemed a stored, unexpired offer
\* with its grant, code and PIN, for any number of concurrent requests and any
\* changes of the stores and restarts in between.
THEOREM TokensAreBacked == Spec => []TokenBacked
<1>1. BackedInv => TokenBacked
  BY DEF BackedInv, RequestBacked, TokenBacked, Accepted
<1>2. QED
  BY <1>1, InitBacked, BackedStep, TypeCorrect, PTL DEF Spec
-----------------------------------------------------------------------------
(***************************************************************************)
(* The c_nonces.  That an answered one is stored needs that it is stored   *)
(* from the moment the signer is called, and that no other request writes  *)
(* its entry: no two requests have one nonce, which every nonce in use     *)
(* being minted keeps.                                                     *)
(***************************************************************************)
NonceUnique ==
    \A r, q \in Accepted : request[r].nonce = request[q].nonce => r = q

NonceKept(q) ==
    q.boot = boot /\ up =>
        \/ HasState(nonces, q.nonce) /\ nonces[q.nonce].createdOn = q.checkedAt
        \/ q.nonce \in collected

RequestNonce(q) ==
    /\ q.pc \in {"unsent", "received", "asserted"} => q.nonce = Undefined
    /\ q.pc \in {"saving", "signing", "answered"} => q.nonce # Undefined
    /\ q.nonce # Undefined => q.nonce \in minted
    /\ q.boot <= boot
    /\ q.pc \in InFlight => up /\ q.boot = boot
    /\ q.checkedAt <= now
    /\ q.pc \in {"signing", "answered"} => NonceKept(q)

NonceInv ==
    /\ TypeOK
    /\ \A r \in Requests : RequestNonce(request[r])
    /\ NonceUnique
    /\ NoncesAccounted

\* A step of the handler of r that leaves the nonces alone.
LEMMA HandlerKeepsNonces ==
    ASSUME NonceInv, TypeOK',
           NEW r \in Requests, NEW state \in RequestState, Become(r, state),
           UNCHANGED <<nonces, now, boot, up, minted, collected>>,
           state.nonce = request[r].nonce,
           request[r].pc \in {"signing", "answered", "failed"} =>
              /\ state.pc \in {"signing", "answered", "failed"}
              /\ state.checkedAt = request[r].checkedAt,
           RequestNonce(state)
    PROVE  NonceInv'
<1>1. /\ request'[r] = state
      /\ \A q \in Requests : q # r => request'[q] = request[q]
  BY DEF Become, NonceInv, TypeOK
<1>2. ASSUME NEW q \in Requests
      PROVE  RequestNonce(request[q])'
  <2>1. RequestNonce(request'[q])
    BY <1>1 DEF NonceInv
  <2>2. QED
    BY <2>1 DEF RequestNonce, NonceKept, HasState
<1>3. NonceUnique'
  BY <1>1 DEF NonceInv, NonceUnique, Accepted
<1>4. ASSUME NEW n \in Uuids, HasState(nonces, n)'
      PROVE  \E q \in Requests :
                /\ request'[q].nonce = n
                /\ request'[q].pc \in {"signing", "answered", "failed"}
                /\ nonces'[n].createdOn = request'[q].checkedAt
  <2>1. HasState(nonces, n)
    BY <1>4 DEF HasState
  <2>2. PICK q \in Requests :
                /\ request[q].nonce = n
                /\ request[q].pc \in {"signing", "answered", "failed"}
                /\ nonces[n].createdOn = request[q].checkedAt
    BY <2>1 DEF NonceInv, NoncesAccounted
  <2>3. QED
    BY <1>1, <2>2
<1>5. NoncesAccounted'
  BY <1>4 DEF NoncesAccounted
<1>6. QED
  BY <1>2, <1>3, <1>5 DEF NonceInv

\* A step that touches neither requests nor nonces and lets time pass.
LEMMA ClockKeepsNonces ==
    ASSUME NonceInv, TypeOK',
           UNCHANGED <<request, nonces, boot, up, minted, collected>>, now <= now'
    PROVE  NonceInv'
<1>1. ASSUME NEW q \in Requests
      PROVE  RequestNonce(request[q])'
  <2>1. RequestNonce(request[q]) /\ request[q] \in RequestState
    BY DEF NonceInv, TypeOK
  <2>2. QED
    BY <2>1 DEF RequestNonce, NonceKept, HasState, NonceInv, TypeOK, RequestState
<1>2. NonceUnique' /\ NoncesAccounted'
  BY DEF NonceInv, NonceUnique, Accepted, NoncesAccounted, HasState
<1>3. QED
  BY <1>1, <1>2 DEF NonceInv

\* Accept mints a nonce no other request has.
LEMMA AcceptKeepsNonces ==
    ASSUME NonceInv, TypeOK', NEW r \in Requests, Accept(r)
    PROVE  NonceInv'
<1> USE UndefinedAssumption
<1>1. PICK cNonce \in FreshUuids :
             /\ Become(r, [request[r] EXCEPT !.pc = "saving", !.nonce = cNonce,
                                             !.checkedAt = now])
             /\ minted' = minted \cup {cNonce}
  BY DEF Accept
<1>2. cNonce \in Uuids /\ cNonce \notin minted /\ cNonce # Undefined
  BY DEF FreshUuids
<1>3. /\ request[r].pc = "asserted" /\ up
      /\ UNCHANGED <<nonces, now, boot, up, collected>>
  BY DEF Accept
<1>4. \A q \in Requests : request[q] \in RequestState /\ RequestNonce(request[q])
  BY DEF NonceInv, TypeOK
<1>5. /\ request'[r] = [request[r] EXCEPT !.pc = "saving", !.nonce = cNonce,
                                         !.checkedAt = now]
      /\ \A q \in Requests : q # r => request'[q] = request[q]
  BY <1>1 DEF Become, NonceInv, TypeOK
<1>6. /\ request'[r].pc = "saving" /\ request'[r].nonce = cNonce
      /\ request'[r].checkedAt = now /\ request'[r].boot = request[r].boot
  BY <1>4, <1>5 DEF RequestState
<1>7. ASSUME NEW q \in Requests
      PROVE  RequestNonce(request[q])'
  <2>1. CASE q = r
    BY <1>1, <1>2, <1>3, <1>4, <1>6, <2>1
    DEF RequestNonce, InFlight, NonceInv, TypeOK
  <2>2. CASE q # r
    BY <1>1, <1>3, <1>4, <1>5, <2>2 DEF RequestNonce, NonceKept, HasState
  <2>3. QED
    BY <2>1, <2>2
<1>8. NonceUnique'
  <2>1. \A q \in Requests : request[q].nonce # cNonce
    BY <1>2, <1>4 DEF RequestNonce
  <2>2. ASSUME NEW a \in Requests, NEW b \in Requests,
               request'[a].nonce # Undefined, request'[a].nonce = request'[b].nonce
        PROVE  a = b
    <3>1. CASE a # r /\ b # r
      BY <1>5, <2>2, <3>1 DEF NonceInv, NonceUnique, Accepted
    <3>2. CASE a = r \/ b = r
      BY <1>5, <1>6, <2>1, <2>2, <3>2
    <3>3. QED
      BY <3>1, <3>2
  <2>3. QED
    BY <2>2 DEF NonceUnique, Accepted
<1>9. NoncesAccounted'
  <2>1. ASSUME NEW n \in Uuids, HasState(nonces, n)'
        PROVE  \E q \in Requests :
                  /\ request'[q].nonce = n
                  /\ request'[q].pc \in {"signing", "answered", "failed"}
                  /\ nonces'[n].createdOn = request'[q].checkedAt
    <3>1. HasState(nonces, n)
      BY <1>3, <2>1 DEF HasState
    <3>2. PICK q \in Requests :
                  /\ request[q].nonce = n
                  /\ request[q].pc \in {"signing", "answered", "failed"}
                  /\ nonces[n].createdOn = request[q].checkedAt
      BY <3>1 DEF NonceInv, NoncesAccounted
    <3>3. QED
      BY <1>3, <1>5, <3>2
  <2>2. QED
    BY <2>1 DEF NoncesAccounted
<1>10. QED
  BY <1>7, <1>8, <1>9 DEF NonceInv

\* SaveNonce writes the entry of r's nonce, which no other request owns.
LEMMA SaveKeepsNonces ==
    ASSUME NonceInv, TypeOK', NEW r \in Requests, SaveNonce(r)
    PROVE  NonceInv'
<1> USE UndefinedAssumption
<1> DEFINE entry == [createdOn |-> request[r].checkedAt]
<1>1. \A q \in Requests : request[q] \in RequestState /\ RequestNonce(request[q])
  BY DEF NonceInv, TypeOK
<1>2. /\ request[r].pc = "saving" /\ up
      /\ UNCHANGED <<now, boot, up, minted, collected>>
      /\ nonces' = [nonces EXCEPT ![request[r].nonce] = entry]
      /\ Become(r, [request[r] EXCEPT !.pc = "signing"])
  BY DEF SaveNonce, SetState
<1>3. request[r].nonce \in Uuids
  BY <1>1, <1>2 DEF RequestNonce, RequestState
<1>4. /\ request'[r] = [request[r] EXCEPT !.pc = "signing"]
      /\ \A q \in Requests : q # r => request'[q] = request[q]
  BY <1>2 DEF Become, NonceInv, TypeOK
<1>5. /\ request'[r].pc = "signing" /\ request'[r].nonce = request[r].nonce
      /\ request'[r].checkedAt = request[r].checkedAt
      /\ request'[r].boot = request[r].boot
  BY <1>1, <1>4 DEF RequestState
<1>6. /\ nonces'[request[r].nonce] = entry
      /\ \A n \in Uuids : n # request[r].nonce => nonces'[n] = nonces[n]
  BY <1>2, <1>3 DEF NonceInv, TypeOK
<1>7. entry # Undefined /\ entry.createdOn = request[r].checkedAt
  BY <1>1 DEF RequestState, NonceState
<1> HIDE DEF entry
<1>8. ASSUME NEW q \in Requests
      PROVE  RequestNonce(request[q])'
  <2>1. CASE q = r
    <3>1. NonceKept(request[r])'
      BY <1>5, <1>6, <1>7 DEF NonceKept, HasState
    <3>2. QED
      BY <1>1, <1>2, <1>5, <2>1, <3>1 DEF RequestNonce, InFlight
  <2>2. CASE q # r
    <3>1. request'[q] = request[q]
      BY <1>4, <2>2
    <3>2. ASSUME request[q].pc \in {"signing", "answered"}
          PROVE  NonceKept(request[q])'
      <4>1. /\ request[q].nonce \in Uuids /\ request[q].nonce # Undefined
            /\ request[q].nonce # request[r].nonce
        BY <1>1, <1>2, <2>2, <3>2 DEF RequestNonce, RequestState, NonceInv,
                                     NonceUnique, Accepted
      <4>2. nonces'[request[q].nonce] = nonces[request[q].nonce]
        BY <1>6, <4>1
      <4>3. NonceKept(request[q])
        BY <1>1, <3>2 DEF RequestNonce
      <4>4. QED
        BY <1>2, <3>1, <4>2, <4>3 DEF NonceKept, HasState
    <3>3. QED
      BY <1>1, <1>2, <3>1, <3>2 DEF RequestNonce
  <2>3. QED
    BY <2>1, <2>2
<1>9. NonceUnique'
  <2>1. \A q \in Requests : request'[q].nonce = request[q].nonce
    BY <1>4, <1>5
  <2>2. QED
    BY <2>1 DEF NonceInv, NonceUnique, Accepted
<1>10. ASSUME NEW n \in Uuids, HasState(nonces, n)'
       PROVE  \E q \in Requests :
                 /\ request'[q].nonce = n
                 /\ request'[q].pc \in {"signing", "answered", "failed"}
                 /\ nonces'[n].createdOn = request'[q].checkedAt
  <2>1. CASE n = request[r].nonce
    BY <1>1, <1>2, <1>5, <1>6, <1>7, <2>1 DEF RequestNonce, InFlight
  <2>2. CASE n # request[r].nonce
    <3>1. HasState(nonces, n) /\ nonces'[n] = nonces[n]
      BY <1>6, <1>10, <2>2 DEF HasState
    <3>2. PICK q \in Requests :
                  /\ request[q].nonce = n
                  /\ request[q].pc \in {"signing", "answered", "failed"}
                  /\ nonces[n].createdOn = request[q].checkedAt
      BY <3>1 DEF NonceInv, NoncesAccounted
    <3>3. q # r
      BY <1>2, <3>2
    <3>4. QED
      BY <1>2, <1>4, <3>1, <3>2, <3>3
  <2>3. QED
    BY <2>1, <2>2
<1>11. NoncesAccounted'
  BY <1>10 DEF NoncesAccounted
<1>12. QED
  BY <1>8, <1>9, <1>11 DEF NonceInv

\* The cleanup removes only entries older than the clock, which are collected.
LEMMA CleanupKeepsNonces ==
    ASSUME NonceInv, TypeOK', CollectNonces
    PROVE  NonceInv'
<1> USE UndefinedAssumption
<1>1. \A q \in Requests : request[q] \in RequestState /\ RequestNonce(request[q])
  BY DEF NonceInv, TypeOK
<1>2. UNCHANGED <<request, now, boot, up, minted>>
  BY DEF CollectNonces
<1>3. \A n \in Uuids :
         \/ nonces'[n] = nonces[n]
         \/ /\ nonces'[n] = Undefined
            /\ n \in collected'
  BY DEF CollectNonces, ClearExpiredStates, ExpiredKeys, Threshold, HasState,
         NonceInv, TypeOK
<1>4. ASSUME NEW q \in Requests
      PROVE  RequestNonce(request[q])'
  <2>1. ASSUME request[q].pc \in {"signing", "answered"}
        PROVE  NonceKept(request[q])'
    <3>1. NonceKept(request[q]) /\ request[q].nonce \in Uuids
      BY <1>1, <2>1 DEF RequestNonce, RequestState
    <3>2. collected \subseteq collected'
      BY DEF CollectNonces
    <3>3. QED
      BY <1>2, <1>3, <3>1, <3>2 DEF NonceKept, HasState
  <2>2. QED
    BY <1>1, <1>2, <2>1 DEF RequestNonce
<1>5. NonceUnique'
  BY <1>2 DEF NonceInv, NonceUnique, Accepted
<1>6. NoncesAccounted'
  BY <1>2, <1>3 DEF NonceInv, NoncesAccounted, HasState
<1>7. QED
  BY <1>4, <1>5, <1>6 DEF NonceInv

\* The end of the process empties the store; no entry reaches the next boot.
LEMMA CrashKeepsNonces ==
    ASSUME NonceInv, TypeOK', Crash
    PROVE  NonceInv'
<1>1. \A q \in Requests : request[q] \in RequestState /\ RequestNonce(request[q])
  BY DEF NonceInv, TypeOK
<1>2. up' = FALSE /\ UNCHANGED <<now, boot, minted>>
  BY DEF Crash
<1>3. \A n \in Uuids : ~HasState(nonces, n)'
  BY DEF Crash, ClearAllStates, EmptyStore, HasState, NonceInv, TypeOK
<1>4. ASSUME NEW q \in Requests
      PROVE  /\ request'[q].nonce = request[q].nonce
             /\ request'[q].boot = request[q].boot
             /\ request'[q].checkedAt = request[q].checkedAt
             /\ \/ request'[q].pc = "dropped"
                \/ request'[q].pc = request[q].pc /\ request[q].pc \notin InFlight
  <2>1. request'[q] = IF request[q].pc \in InFlight
                      THEN [request[q] EXCEPT !.pc = "dropped"]
                      ELSE request[q]
    BY DEF Crash
  <2>2. QED
    BY <1>1, <2>1 DEF RequestState
<1>5. ASSUME NEW q \in Requests
      PROVE  RequestNonce(request[q])'
  BY <1>1, <1>2, <1>4 DEF RequestNonce, NonceKept, InFlight
<1>6. NonceUnique'
  BY <1>4 DEF NonceInv, NonceUnique, Accepted
<1>7. NoncesAccounted'
  BY <1>3 DEF NoncesAccounted
<1>8. QED
  BY <1>5, <1>6, <1>7 DEF NonceInv

LEMMA RestartKeepsNonces ==
    ASSUME NonceInv, TypeOK', Restart
    PROVE  NonceInv'
<1>1. \A q \in Requests : request[q] \in RequestState /\ RequestNonce(request[q])
  BY DEF NonceInv, TypeOK
<1>2. /\ ~up /\ boot \in Nat /\ boot' = boot + 1
      /\ UNCHANGED <<nonces, request, now, minted>>
  BY DEF Restart, NonceInv, TypeOK
<1>3. ASSUME NEW q \in Requests
      PROVE  RequestNonce(request[q])'
  <2>1. request[q].boot < boot'
    BY <1>1, <1>2 DEF RequestNonce, RequestState
  <2>2. request[q].pc \notin InFlight
    BY <1>1, <1>2 DEF RequestNonce
  <2>3. QED
    BY <1>1, <1>2, <2>1, <2>2 DEF RequestNonce, NonceKept, RequestState
<1>4. NonceUnique'
  BY <1>2 DEF NonceInv, NonceUnique, Accepted
<1>5. NoncesAccounted'
  BY <1>2 DEF NonceInv, NoncesAccounted, HasState
<1>6. QED
  BY <1>3, <1>4, <1>5 DEF NonceInv

LEMMA NonceStep == TypeOK' /\ NonceInv /\ [Next]_vars => NonceInv'
<1> SUFFICES ASSUME TypeOK', NonceInv, [Next]_vars PROVE NonceInv'
  OBVIOUS
<1> USE UndefinedAssumption
<1>1. \A q \in Requests : request[q] \in RequestState /\ RequestNonce(request[q])
  BY DEF NonceInv, TypeOK
<1>2. ASSUME NEW r \in Requests, NEW body \in Bodies, Receive(r, body)
      PROVE  NonceInv'
  <2> DEFINE state == [request[r] EXCEPT !.pc = "received", !.body = body, !.boot = boot]
  <2>1. Become(r, state) /\ request[r].pc = "unsent" /\ up
    BY <1>2 DEF Receive
  <2>2. /\ state \in RequestState
        /\ state.pc = "received" /\ state.boot = boot
        /\ state.nonce = request[r].nonce /\ state.checkedAt = request[r].checkedAt
    <3>1. state \in RequestState
      BY <1>1, ReceivedIsTyped DEF NonceInv, TypeOK
    <3>2. QED
      BY <1>1, <3>1 DEF RequestState
  <2>3. UNCHANGED <<nonces, now, boot, up, minted, collected>>
    BY <1>2 DEF Receive
  <2> HIDE DEF state
  <2>4. RequestNonce(state)
    BY <1>1, <2>1, <2>2 DEF RequestNonce, NonceInv, TypeOK
  <2>5. QED
    BY <2>1, <2>2, <2>3, <2>4, HandlerKeepsNonces
<1>3. ASSUME NEW r \in Requests, AssertState(r)
      PROVE  NonceInv'
  <2>1. PICK offer \in OfferState :
               Become(r, [request[r] EXCEPT !.pc = "asserted", !.offer = offer])
    <3> DEFINE found == offers[request[r].body.state]
    <3>1. found \in OfferState
      BY <1>3, StoredEntryIsTyped DEF AssertState, OfferPresent, NonceInv, TypeOK
    <3>2. Become(r, [request[r] EXCEPT !.pc = "asserted", !.offer = found])
      BY <1>3 DEF AssertState, GetState
    <3> HIDE DEF found
    <3>3. QED
      BY <3>1, <3>2
  <2> DEFINE state == [request[r] EXCEPT !.pc = "asserted", !.offer = offer]
  <2>2. /\ state \in RequestState
        /\ state.pc = "asserted" /\ state.boot = request[r].boot
        /\ state.nonce = request[r].nonce /\ state.checkedAt = request[r].checkedAt
    BY <1>1 DEF RequestState, InFlight
  <2>3. /\ request[r].pc = "received"
        /\ UNCHANGED <<nonces, now, boot, up, minted, collected>>
    BY <1>3 DEF AssertState
  <2> HIDE DEF state
  <2>4. RequestNonce(state)
    BY <1>1, <2>2, <2>3 DEF RequestNonce, InFlight
  <2>5. QED
    BY <2>1, <2>2, <2>3, <2>4, HandlerKeepsNonces DEF state
<1>4. ASSUME NEW r \in Requests, Refuse(r)
      PROVE  NonceInv'
  <2>1. PICK e \in ErrorNames :
               Become(r, [request[r] EXCEPT !.pc = "refused", !.error = e,
                                            !.checkedAt = now])
    BY <1>4 DEF Refuse, ErrorNames
  <2> DEFINE state == [request[r] EXCEPT !.pc = "refused", !.error = e,
                                         !.checkedAt = now]
  <2>2. ASSUME NEW q \in RequestState, NEW t \in Nat
        PROVE  [q EXCEPT !.pc = "refused", !.error = e, !.checkedAt = t]
                  \in RequestState
    BY DEF RequestState, InFlight
  <2>3. state \in RequestState
    BY <1>1, <2>2 DEF NonceInv, TypeOK
  <2>4. /\ state.pc = "refused" /\ state.boot = request[r].boot
        /\ state.nonce = request[r].nonce /\ state.checkedAt = now
    BY <1>1 DEF RequestState
  <2>5. /\ request[r].pc = "asserted"
        /\ UNCHANGED <<nonces, now, boot, up, minted, collected>>
    BY <1>4 DEF Refuse
  <2> HIDE DEF state
  <2>6. RequestNonce(state)
    BY <1>1, <2>4, <2>5 DEF RequestNonce, InFlight, NonceInv, TypeOK
  <2>7. QED
    BY <2>1, <2>3, <2>4, <2>5, <2>6, HandlerKeepsNonces DEF state
<1>5. ASSUME NEW r \in Requests, NEW pc \in {"failed", "answered"},
             Become(r, [request[r] EXCEPT !.pc = pc]),
             request[r].pc \in {"received", "signing"},
             pc = "answered" => request[r].pc = "signing",
             UNCHANGED <<nonces, now, boot, up, minted, collected>>
      PROVE  NonceInv'
  <2> DEFINE state == [request[r] EXCEPT !.pc = pc]
  <2>1. /\ state \in RequestState
        /\ state.pc = pc /\ state.boot = request[r].boot
        /\ state.nonce = request[r].nonce /\ state.checkedAt = request[r].checkedAt
    BY <1>1, <1>5 DEF RequestState, InFlight
  <2> HIDE DEF state
  <2>2. RequestNonce(state)
    BY <1>1, <1>5, <2>1 DEF RequestNonce, NonceKept, InFlight
  <2>3. QED
    BY <1>5, <2>1, <2>2, HandlerKeepsNonces DEF state
<1>6. ASSUME NEW r \in Requests, AssertFails(r) \/ SignerFails(r) \/ Answer(r)
      PROVE  NonceInv'
  BY <1>5, <1>6 DEF AssertFails, SignerFails, Answer
<1>7. ASSUME NEW s \in States,
             DeleteOffer(s) \/ \E content \in OfferContents : StoreOffer(s, content)
      PROVE  NonceInv'
  <2>1. UNCHANGED <<request, nonces, boot, up, minted, now, collected>>
    BY <1>7 DEF DeleteOffer, StoreOffer
  <2>2. now <= now'
    BY <2>1 DEF NonceInv, TypeOK
  <2>3. QED
    BY <2>1, <2>2, ClockKeepsNonces
<1>8. CASE Tick \/ UNCHANGED vars
  <2>1. UNCHANGED <<request, nonces, boot, up, minted, collected>>
    BY <1>8 DEF Tick, vars
  <2>2. now' = now \/ now' = now + 1
    BY <1>8 DEF Tick, vars
  <2>3. now <= now'
    BY <2>2 DEF NonceInv, TypeOK
  <2>4. QED
    BY <2>1, <2>3, ClockKeepsNonces
<1>9. QED
  BY <1>2, <1>3, <1>4, <1>6, <1>7, <1>8, AcceptKeepsNonces, SaveKeepsNonces,
     CleanupKeepsNonces, CrashKeepsNonces, RestartKeepsNonces
  DEF Next, Handle, Environment

LEMMA NoncesHold == Spec => []NonceInv
<1>1. Init => NonceInv
  <2>1. Init => TypeOK
    BY DEF Init, TypeOK, EmptyStore, NoRequest, RequestState, InFlight
  <2>2. Init => \A r \in Requests : RequestNonce(request[r])
    BY DEF Init, RequestNonce, NoRequest, InFlight
  <2>3. Init => NonceUnique
    BY DEF Init, NonceUnique, Accepted, NoRequest
  <2>4. Init => NoncesAccounted
    BY DEF Init, NoncesAccounted, HasState, EmptyStore
  <2>5. QED
    BY <2>1, <2>2, <2>3, <2>4 DEF NonceInv
<1>2. QED
  BY <1>1, NonceStep, TypeCorrect, PTL DEF Spec

\* The c_nonce of an answer is in the store, from before the answer and for as
\* long as the process lives, unless a cleanup in a later millisecond took it
\* (handleTokenRequest awaits the store before it answers).
THEOREM AnsweredNoncesAreStored == Spec => []AnsweredNonceStored
<1>1. NonceInv => AnsweredNonceStored
  BY DEF NonceInv, AnsweredNonceStored, RequestNonce, NonceKept
<1>2. QED
  BY <1>1, NoncesHold, PTL

\* The store holds no nonce but those of accepted requests, dated when they were
\* accepted, whatever fails and ends in between.
THEOREM StoredNoncesAreAccounted == Spec => []NoncesAccounted
<1>1. NonceInv => NoncesAccounted
  BY DEF NonceInv
<1>2. QED
  BY <1>1, NoncesHold, PTL
-----------------------------------------------------------------------------
(***************************************************************************)
(* What a refused request was refused for: a check that failed, of the     *)
(* offer it looked up and at the time it was checked.                      *)
(***************************************************************************)
Refusal(q) ==
    /\ q.pc \in {"asserted", "refused"} => q.offer \in OfferState
    /\ q.pc = "refused" => \E i \in 1 .. 8 : Fails(i, q.offer, q.body, q.checkedAt)

RefusalInv == \A r \in Requests : Refusal(request[r])

\* A request that does what the offer says fails no check.
LEMMA CorrectPasses ==
    ASSUME NEW offer \in OfferState, NEW body, NEW t \in Nat,
           DoesAsOffered(offer, body, t), PinAsOffered(offer)
    PROVE  \A i \in 1 .. 8 : ~Fails(i, offer, body, t)
<1> USE DEF DoesAsOffered, PinAsOffered
<1>1. /\ offer.code # Undefined /\ offer.createdOn \in Nat /\ Duration \in Nat
      /\ ~IsPreAuthorizedCodeExpired(offer, t)
  BY UndefinedAssumption, TokenAssumption DEF OfferState, IsPreAuthorizedCodeExpired
<1>2. PinNumber(body.pin) = offer.userPin
  BY DEF PinNumber, WellFormedPin
<1>3. body.pin # Undefined => body.pin.pinChar
  BY DEF WellFormedPin
<1>4. /\ ~Fails(1, offer, body, t) /\ ~Fails(2, offer, body, t)
      /\ ~Fails(3, offer, body, t) /\ ~Fails(4, offer, body, t)
  BY <1>1 DEF Fails, IsValidGrant
<1>5. /\ ~Fails(5, offer, body, t) /\ ~Fails(6, offer, body, t)
      /\ ~Fails(7, offer, body, t) /\ ~Fails(8, offer, body, t)
  BY <1>1, <1>2, <1>3 DEF Fails
<1> QED BY <1>4, <1>5

\* A step of the handler of r.
LEMMA HandlerKeepsRefusals ==
    ASSUME TypeOK, RefusalInv, NEW r \in Requests, NEW q, Become(r, q), Refusal(q)
    PROVE  RefusalInv'
<1>1. \A p \in Requests : request'[p] = IF p = r THEN q ELSE request[p]
  BY DEF Become, TypeOK
<1> QED BY <1>1 DEF RefusalInv, Refusal

LEMMA RefusalStep == TypeOK /\ RefusalInv /\ [Next]_vars => RefusalInv'
<1> SUFFICES ASSUME TypeOK, RefusalInv, [Next]_vars PROVE RefusalInv'
  OBVIOUS
<1>0. \A r \in Requests : request[r] \in RequestState /\ Refusal(request[r])
  BY DEF TypeOK, RefusalInv
<1>1. ASSUME NEW r \in Requests, NEW body \in Bodies, Receive(r, body)
      PROVE  RefusalInv'
  <2> DEFINE q == [request[r] EXCEPT !.pc = "received", !.body = body, !.boot = boot]
  <2>1. Become(r, q) /\ q.pc = "received"
    BY <1>0, <1>1 DEF Receive, RequestState
  <2> HIDE DEF q
  <2> QED BY <2>1, HandlerKeepsRefusals DEF Refusal
<1>2. ASSUME NEW r \in Requests, AssertState(r)
      PROVE  RefusalInv'
  <2> DEFINE offer == GetState(offers, request[r].body.state)
             q == [request[r] EXCEPT !.pc = "asserted", !.offer = offer]
  <2>1. Become(r, q)
    BY <1>2 DEF AssertState
  <2>2. offer \in OfferState
    BY <1>2 DEF AssertState, OfferPresent, HasState, GetState, TypeOK
  <2>3. q.pc = "asserted" /\ q.offer = offer
    BY <1>0 DEF RequestState
  <2> HIDE DEF q, offer
  <2> QED BY <2>1, <2>2, <2>3, HandlerKeepsRefusals DEF Refusal
<1>3. ASSUME NEW r \in Requests, Refuse(r)
      PROVE  RefusalInv'
  <2>1. PICK i \in DOMAIN Errors :
           /\ Fails(i, request[r].offer, request[r].body, now)
           /\ Become(r, [request[r] EXCEPT !.pc = "refused", !.error = Errors[i],
                                           !.checkedAt = now])
    BY <1>3 DEF Refuse, FirstFailure
  <2>2. i \in 1 .. 8 /\ request[r].offer \in OfferState
    BY <1>0, <1>3 DEF Refuse, Refusal, Errors
  <2> DEFINE q == [request[r] EXCEPT !.pc = "refused", !.error = Errors[i], !.checkedAt = now]
  <2>3. /\ q.pc = "refused" /\ q.offer = request[r].offer /\ q.body = request[r].body
        /\ q.checkedAt = now
    BY <1>0 DEF RequestState
  <2>4. Become(r, q)
    BY <2>1
  <2> HIDE DEF q
  <2> QED BY <2>1, <2>2, <2>3, <2>4, HandlerKeepsRefusals DEF Refusal
<1>4. ASSUME NEW r \in Requests, Accept(r)
      PROVE  RefusalInv'
  <2>1. PICK cNonce \in FreshUuids :
           Become(r, [request[r] EXCEPT !.pc = "saving", !.nonce = cNonce, !.checkedAt = now])
    BY <1>4 DEF Accept
  <2> DEFINE q == [request[r] EXCEPT !.pc = "saving", !.nonce = cNonce, !.checkedAt = now]
  <2>2. q.pc = "saving"
    BY <1>0 DEF RequestState
  <2>3. Become(r, q)
    BY <2>1
  <2> HIDE DEF q
  <2> QED BY <2>2, <2>3, HandlerKeepsRefusals DEF Refusal
<1>5. ASSUME NEW r \in Requests, NEW pc \in {"failed", "signing", "answered"},
             Become(r, [request[r] EXCEPT !.pc = pc])
      PROVE  RefusalInv'
  <2> DEFINE q == [request[r] EXCEPT !.pc = pc]
  <2>1. q.pc = pc
    BY <1>0 DEF RequestState
  <2>2. Become(r, q)
    BY <1>5
  <2> HIDE DEF q
  <2> QED BY <2>1, <2>2, HandlerKeepsRefusals DEF Refusal
<1>6. ASSUME NEW r \in Requests, AssertFails(r) \/ SaveNonce(r) \/ Answer(r) \/ SignerFails(r)
      PROVE  RefusalInv'
  BY <1>5, <1>6 DEF AssertFails, SaveNonce, Answer, SignerFails
<1>7. CASE Crash
  <2>1. ASSUME NEW r \in Requests PROVE Refusal(request'[r])
    <3>1. request'[r] = IF request[r].pc \in InFlight
                        THEN [request[r] EXCEPT !.pc = "dropped"] ELSE request[r]
      BY <1>7 DEF Crash
    <3>2. [request[r] EXCEPT !.pc = "dropped"].pc = "dropped"
      BY <1>0 DEF RequestState
    <3>3. CASE request[r].pc \in InFlight
      BY <3>1, <3>2, <3>3 DEF Refusal
    <3>4. CASE request[r].pc \notin InFlight
      BY <1>0, <3>1, <3>4
    <3> QED BY <3>3, <3>4
  <2> QED BY <2>1 DEF RefusalInv, Refusal
<1>8. CASE UNCHANGED request
  BY <1>8 DEF RefusalInv, Refusal
<1> QED
  BY <1>1, <1>2, <1>3, <1>4, <1>6, <1>7, <1>8
  DEF Next, Handle, Environment, DeleteOffer, StoreOffer, CollectNonces, Tick, Restart, vars

\* A wallet that does what its offer says is not refused, if the offer was
\* stored with a PIN exactly when it asks for one, however its request
\* interleaves with others, with changes of the offers and with the clock
\* (handleHTTPStatus400).
THEOREM ConsistentOffersAreServed == Spec => []ConsistentOfferServed
<1>1. Init => RefusalInv
  BY DEF Init, NoRequest, RefusalInv, Refusal
<1>2. TypeOK /\ RefusalInv => ConsistentOfferServed
  <2> SUFFICES ASSUME TypeOK, RefusalInv, NEW r \in Requests, request[r].pc = "refused",
                      PinAsOffered(request[r].offer),
                      DoesAsOffered(request[r].offer, request[r].body,
                                    request[r].checkedAt)
               PROVE  FALSE
    BY DEF ConsistentOfferServed
  <2>1. request[r].offer \in OfferState /\ request[r].checkedAt \in Nat
    BY DEF RefusalInv, Refusal, TypeOK, RequestState
  <2>2. PICK i \in 1 .. 8 :
           Fails(i, request[r].offer, request[r].body, request[r].checkedAt)
    BY DEF RefusalInv, Refusal
  <2>3. \A k \in 1 .. 8 :
           ~Fails(k, request[r].offer, request[r].body, request[r].checkedAt)
    BY <2>1, CorrectPasses
  <2> QED BY <2>2, <2>3
<1> QED BY <1>1, <1>2, RefusalStep, TypeCorrect, PTL DEF Spec
-----------------------------------------------------------------------------
(***************************************************************************)
(* The endpoint implements OfferRedemption.  Only Grant has a guard that   *)
(* the step itself does not show: that the checks passed is of the present *)
(* moment, but that the offer is not younger than that is BackedInv's.     *)
(***************************************************************************)
Views == [r \in Requests |-> RedemptionView(request[r])]

LEMMA ViewByPc ==
    ASSUME NEW q
    PROVE  /\ q.pc = "unsent" => RedemptionView(q) = Redemption!Unsent
           /\ q.pc = "received" => RedemptionView(q) =
                 Redemption!Record("asked", q.body.state, q.body, Undefined, Undefined)
           /\ q.pc = "asserted" => RedemptionView(q) =
                 Redemption!Record("held", q.body.state, q.body, q.offer, Undefined)
           /\ q.pc \in {"saving", "signing"} => RedemptionView(q) =
                 Redemption!Record("granted", q.body.state, q.body, q.offer, Undefined)
           /\ q.pc = "answered" => RedemptionView(q) =
                 Redemption!Record("delivered", q.body.state, q.body, q.offer, Undefined)
           /\ q.pc \in {"refused", "failed", "dropped"} =>
                 RedemptionView(q) = Redemption!Closed
  BY DEF RedemptionView, RedemptionRecord, RedemptionPc, Redemption!Record,
         Redemption!Unsent, Redemption!Closed

LEMMA BecomeIsMove ==
    ASSUME TypeOK, NEW r \in Requests, NEW q, Become(r, q), UNCHANGED <<offers, now>>
    PROVE  Redemption!Move(r, RedemptionView(q)) /\ Views' = [Views EXCEPT ![r] = RedemptionView(q)]
<1>1. \A p \in Requests : request'[p] = IF p = r THEN q ELSE request[p]
  BY DEF TypeOK, Become
<1> QED BY <1>1 DEF Views, Redemption!Move

\* A request that is closed, when it was under way.
LEMMA BecomeCloses ==
    ASSUME TypeOK, NEW r \in Requests, NEW q, Become(r, q), UNCHANGED <<offers, now>>,
           request[r].pc \in InFlight \ {"failed"}, q.pc \in {"refused", "failed", "dropped"}
    PROVE  Redemption!Close(r)
<1>1. RedemptionView(request[r]).pc \in Redemption!Open
  BY ViewByPc DEF InFlight, Redemption!Record, Redemption!Open
<1>2. RedemptionView(q) = Redemption!Closed
  BY ViewByPc
<1> QED BY <1>1, <1>2, BecomeIsMove DEF Redemption!Close

LEMMA InitIsRedemptionInit == Init => Redemption!RInit
<1> SUFFICES ASSUME Init PROVE Redemption!RInit
  OBVIOUS
<1>1. RedemptionView(NoRequest) = Redemption!Unsent
  BY ViewByPc DEF NoRequest
<1> QED BY <1>1 DEF Init, EmptyStore, Redemption!RInit

LEMMA StepIsRedemptionStep ==
    BackedInv /\ [Next]_vars /\ TypeOK' => [Redemption!RNext]_(Redemption!rvars)
<1> SUFFICES ASSUME BackedInv, [Next]_vars, TypeOK'
             PROVE  [Redemption!RNext]_(Redemption!rvars)
  OBVIOUS
<1>0. TypeOK /\ \A r \in Requests : request[r] \in RequestState
  BY DEF BackedInv, TypeOK
<1>1. ASSUME NEW r \in Requests, NEW body \in Bodies, Receive(r, body)
      PROVE  Redemption!Ask(r, body)
  <2> DEFINE q == [request[r] EXCEPT !.pc = "received", !.body = body, !.boot = boot]
  <2>1. q.pc = "received" /\ q.body = body
    BY <1>0 DEF RequestState
  <2>2. RedemptionView(q) = Redemption!Record("asked", body.state, body, Undefined, Undefined)
    BY <2>1, ViewByPc
  <2>3. RedemptionView(request[r]).pc = "unsent"
    BY <1>1, ViewByPc DEF Receive, Redemption!Unsent, Redemption!Record
  <2>4. body.state \in States \cup {Undefined}
    BY TokenAssumption DEF Body
  <2> HIDE DEF q
  <2>5. Redemption!Move(r, RedemptionView(q))
    BY <1>0, <1>1, BecomeIsMove DEF Receive, q
  <2>6. QED
    BY <2>2, <2>3, <2>4, <2>5 DEF Redemption!Ask
<1>2. ASSUME NEW r \in Requests, AssertState(r)
      PROVE  Redemption!Read(r)
  <2> DEFINE s == request[r].body.state
             q == [request[r] EXCEPT !.pc = "asserted", !.offer = offers[s]]
  <2>1. q.pc = "asserted" /\ q.body = request[r].body /\ q.offer = offers[s]
    BY <1>0 DEF RequestState
  <2>2. RedemptionView(q) = Redemption!Record("held", s, request[r].body, offers[s], Undefined)
    BY <2>1, ViewByPc
  <2>3. RedemptionView(request[r]) =
           Redemption!Record("asked", s, request[r].body, Undefined, Undefined)
    BY <1>2, ViewByPc DEF AssertState
  <2>4. s \in States /\ offers[s] # Undefined
    BY <1>2 DEF AssertState, OfferPresent, HasState
  <2> HIDE DEF q
  <2>5. Redemption!Move(r, RedemptionView(q))
    BY <1>0, <1>2, BecomeIsMove DEF AssertState, GetState, q
  <2>6. QED
    BY <2>2, <2>3, <2>4, <2>5 DEF Redemption!Read, Redemption!Record
<1>3. ASSUME NEW r \in Requests, AssertFails(r) \/ SignerFails(r)
      PROVE  Redemption!Close(r)
  <2>1. [request[r] EXCEPT !.pc = "failed"].pc = "failed"
    BY <1>0 DEF RequestState
  <2>2. QED
    BY <1>0, <1>3, <2>1, BecomeCloses DEF AssertFails, SignerFails, InFlight
<1>4. ASSUME NEW r \in Requests, Refuse(r)
      PROVE  Redemption!Close(r)
  <2>1. PICK i \in DOMAIN Errors :
               Become(r, [request[r] EXCEPT !.pc = "refused", !.error = Errors[i],
                                            !.checkedAt = now])
    BY <1>4 DEF Refuse
  <2>2. [request[r] EXCEPT !.pc = "refused", !.error = Errors[i],
                           !.checkedAt = now].pc = "refused"
    BY <1>0 DEF RequestState
  <2>3. QED
    BY <1>0, <1>4, <2>1, <2>2, BecomeCloses DEF Refuse, InFlight
<1>5. ASSUME NEW r \in Requests, Accept(r)
      PROVE  Redemption!Grant(r)
  <2>1. PICK cNonce \in FreshUuids :
               Become(r, [request[r] EXCEPT !.pc = "saving", !.nonce = cNonce,
                                            !.checkedAt = now])
    BY <1>5 DEF Accept
  <2> DEFINE q == [request[r] EXCEPT !.pc = "saving", !.nonce = cNonce, !.checkedAt = now]
             body == request[r].body
             offer == request[r].offer
  <2>2. q.pc = "saving" /\ q.body = body /\ q.offer = offer
    BY <1>0 DEF RequestState
  <2>3. RedemptionView(q) =
           Redemption!Record("granted", body.state, body, offer, Undefined)
    BY <2>2, ViewByPc
  <2>4. RedemptionView(request[r]) =
           Redemption!Record("held", body.state, body, offer, Undefined)
    BY <1>5, ViewByPc DEF Accept
  <2>5. offer \in OfferState /\ offer.createdOn <= now
    BY <1>5 DEF Accept, BackedInv, RequestBacked
  <2>6. Redeems(offer, body, now)
    BY <1>0, <1>5, <2>5, PassesRedeems DEF Accept, OfferState, TypeOK
  <2> HIDE DEF q
  <2>7. Redemption!Move(r, RedemptionView(q))
    BY <1>0, <1>5, <2>1, BecomeIsMove DEF Accept, q
  <2>8. QED
    BY <2>3, <2>4, <2>6, <2>7 DEF Redemption!Grant, Redemption!Record, RedeemableByToken
<1>6. ASSUME NEW r \in Requests, SaveNonce(r)
      PROVE  UNCHANGED Redemption!rvars
  <2> DEFINE q == [request[r] EXCEPT !.pc = "signing"]
  <2>1. q.pc = "signing" /\ q.body = request[r].body /\ q.offer = request[r].offer
    BY <1>0 DEF RequestState
  <2>2. RedemptionView(q) = RedemptionView(request[r])
    BY <1>6, <2>1, ViewByPc DEF SaveNonce
  <2> HIDE DEF q
  <2>3. Views' = [Views EXCEPT ![r] = RedemptionView(q)] /\ UNCHANGED <<offers, now>>
    BY <1>0, <1>6, BecomeIsMove DEF SaveNonce, q
  <2>4. QED
    BY <2>2, <2>3 DEF Views, Redemption!rvars
<1>7. ASSUME NEW r \in Requests, Answer(r)
      PROVE  Redemption!Deliver(r)
  <2> DEFINE q == [request[r] EXCEPT !.pc = "answered"]
             body == request[r].body
             offer == request[r].offer
  <2>1. q.pc = "answered" /\ q.body = body /\ q.offer = offer
    BY <1>0 DEF RequestState
  <2>2. RedemptionView(q) =
           Redemption!Record("delivered", body.state, body, offer, Undefined)
    BY <2>1, ViewByPc
  <2>3. RedemptionView(request[r]) =
           Redemption!Record("granted", body.state, body, offer, Undefined)
    BY <1>7, ViewByPc DEF Answer
  <2> HIDE DEF q
  <2>4. Redemption!Move(r, RedemptionView(q))
    BY <1>0, <1>7, BecomeIsMove DEF Answer, q
  <2>5. QED
    BY <2>2, <2>3, <2>4 DEF Redemption!Deliver, Redemption!Record
<1>8. CASE Crash
  <2>1. offers' = [s \in States |-> Undefined] /\ now' = now
    BY <1>0, <1>8 DEF Crash, ClearAllStates, EmptyStore, TypeOK
  <2>2. ASSUME NEW r \in Requests
        PROVE  RedemptionView(request'[r]) = IF RedemptionView(request[r]).pc \in Redemption!Open
                                             THEN Redemption!Closed
                                             ELSE RedemptionView(request[r])
    <3>1. CASE request[r].pc \in InFlight
      <4>1. request'[r].pc = "dropped"
        BY <1>0, <1>8, <3>1 DEF Crash, RequestState
      <4>2. RedemptionView(request'[r]) = Redemption!Closed
        BY <4>1, ViewByPc
      <4>3. \/ RedemptionView(request[r]).pc \in Redemption!Open
            \/ RedemptionView(request[r]) = Redemption!Closed
        BY <3>1, ViewByPc DEF InFlight, Redemption!Record, Redemption!Open
      <4>4. QED BY <4>2, <4>3
    <3>2. CASE request[r].pc \notin InFlight
      <4>1. request'[r] = request[r]
        BY <1>8, <3>2 DEF Crash
      <4>2. RedemptionView(request[r]).pc \notin Redemption!Open
        BY <1>0, <3>2, ViewByPc
        DEF RequestState, InFlight, Redemption!Open, Redemption!Record,
            Redemption!Unsent, Redemption!Closed
      <4>3. QED BY <4>1, <4>2
    <3>3. QED BY <3>1, <3>2
  <2>3. QED
    BY <2>1, <2>2 DEF Redemption!RNext, Redemption!Halt
<1>9. ASSUME \/ \E s \in States : DeleteOffer(s)
             \/ \E s \in States, content \in OfferContents : StoreOffer(s, content)
             \/ Tick
      PROVE  Redemption!Change
  <2>1. UNCHANGED request /\ offers' \in Redemption!OfferStores /\ now' \in Nat
    BY <1>9 DEF DeleteOffer, StoreOffer, Tick, TypeOK, Redemption!OfferStores
  <2>2. now' = now \/ now' = now + 1
    BY <1>9 DEF DeleteOffer, StoreOffer, Tick
  <2>3. now <= now'
    BY <1>0, <2>2 DEF TypeOK
  <2>4. QED
    BY <2>1, <2>3 DEF Redemption!Change
<1>10. CASE CollectNonces \/ Restart \/ UNCHANGED vars
  BY <1>10 DEF CollectNonces, Restart, vars, Redemption!rvars
<1>11. QED
  BY <1>1, <1>2, <1>3, <1>4, <1>5, <1>6, <1>7, <1>8, <1>9, <1>10
  DEF Next, Handle, Environment, Redemption!RNext

\* Every token request, whatever other requests, the application, crashes and
\* restarts do meanwhile, is a redemption of one offer: read at one instant,
\* granted at a later one at which it redeems that offer, then answered.
THEOREM TokensImplementRedemption == Spec => ImplementsRedemption
<1>1. Spec => []BackedInv
  BY InitBacked, BackedStep, TypeCorrect, PTL DEF Spec
<1>2. QED
  BY <1>1, InitIsRedemptionInit, StepIsRedemptionStep, TypeCorrect, PTL
  DEF Spec, ImplementsRedemption, Redemption!RSpec
=============================================================================
