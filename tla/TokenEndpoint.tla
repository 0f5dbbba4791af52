--------------------------- MODULE TokenEndpoint ----------------------------
(***************************************************************************)
(* The token endpoint of IssuerTokenEndpoint.ts: the two middlewares that  *)
(* handle POST /token, the offer and nonce stores they share with the rest *)
(* of the issuer, and the process they run in.                             *)
(*                                                                         *)
(* A request is handled in the steps between two awaits.                   *)
(*                                                                         *)
(*   received   getAssertedState(body.state) is awaited                    *)
(*   asserted   it answered; the rest of handleHTTPStatus400 is to run     *)
(*   saving     accepted, nonceStateManager.setState is awaited            *)
(*   signing    accessTokenSignerCallback is awaited                       *)
(*   answered   200 with the c_nonce          refused   400 with an error  *)
(*   failed     the handler's promise was rejected: nobody answers         *)
(*   dropped    the process ended before the request was answered          *)
(*                                                                         *)
(* Each IStateManager method takes effect at one instant of its await,     *)
(* which is more than the in-memory managers allow.  A rejected handler    *)
(* is an unhandled rejection: Node 15 and later end the process, and with  *)
(* it both in-memory stores, unless the application says otherwise         *)
(* (CrashOnRejection).                                                     *)
(***************************************************************************)
EXTENDS StateStore, Sequences, FiniteSets

CONSTANTS
    Requests,          \* the token requests
    States,            \* keys of the offer store
    Codes,             \* pre-authorized codes
    Pins,              \* texts a wallet may send as user_pin
    Uuids,             \* what v4() returns
    OfferContents,     \* the offers the application creates, without createdOn
    Bodies,            \* the request bodies wallets send
    Duration,          \* preAuthorizedCodeExpirationDuration
    CrashOnRejection,  \* the runtime ends on an unhandled rejection
    MaxTime,           \* bound of the clock, for model checking
    MaxRestarts,       \* bound of the restarts, for model checking
    MaxStored          \* bound of the offers ever stored, for model checking

PreAuthorizedCode == "urn:ietf:params:oauth:grant-type:pre-authorized_code"

GrantTypes == {PreAuthorizedCode, "authorization_code"}

\* What the endpoint tells apart in the text of a PIN: how long it is, whether
\* Number() understands it and as what, and whether it has a character of the
\* class [0-9{,8}].
PinText == [length : Nat \ {0}, numeric : BOOLEAN, value : Nat, pinChar : BOOLEAN]

\* CredentialOfferState: the grants of the offer and the issuer's PIN.
OfferContent == [preAuthGrant : BOOLEAN, code : Codes, pinRequired : BOOLEAN,
                 userPin : Nat \cup {Undefined}]

OfferState == [preAuthGrant : BOOLEAN, code : Codes, pinRequired : BOOLEAN,
               userPin : Nat \cup {Undefined}, createdOn : Nat]

\* request.body; a missing or empty parameter is Undefined.
Body == [state : States \cup {Undefined}, grantType : GrantTypes,
         code : Codes \cup {Undefined}, pin : Pins \cup {Undefined}]

NonceState == [createdOn : Nat]

ASSUME TokenAssumption ==
    /\ Pins \subseteq PinText
    /\ OfferContents \subseteq OfferContent
    /\ Bodies \subseteq Body
    /\ Duration \in Nat
    /\ MaxTime \in Nat
    /\ MaxRestarts \in Nat
    /\ MaxStored \in Nat
    /\ CrashOnRejection \in BOOLEAN

ASSUME UndefinedAssumption ==
    /\ Undefined \notin States
    /\ Undefined \notin Codes
    /\ Undefined \notin Pins
    /\ Undefined \notin Uuids
    /\ Undefined \notin Nat
    /\ Undefined \notin OfferState
    /\ Undefined \notin NonceState

VARIABLES
    offers,   \* stateManager: the stored offers
    nonces,   \* nonceStateManager: the stored c_nonces
    request,  \* the progress of every token request
    now,      \* the clock
    boot,     \* the number of restarts of the process so far
    up,       \* the process runs
    minted,   \* history: every uuid v4() ever returned
    stored,   \* history: every offer ever stored, under its state
    collected \* history: the c_nonces a later cleanup found in the store

vars == <<offers, nonces, request, now, boot, up, minted, stored, collected>>

Errors == << "UNSUPPORTED_GRANT_TYPE", "PRE_AUTHORIZED_CODE_REQUIRED",
             "USER_PIN_REQUIRED", "USER_PIN_NOT_REQUIRED", "PIN_VALIDATION",
             "PIN_NOT_MATCHING", "INVALID_PRE_AUTHORIZED_CODE",
             "EXPIRED_PRE_AUTHORIZED_CODE" >>

ErrorNames == {Errors[i] : i \in DOMAIN Errors}

\* Mutant of NoRequest: a field without a first value.
UnsetRequest == [pc |-> "unsent", body |-> Undefined, offer |-> Undefined,
                 checkedAt |-> Undefined, boot |-> 0, nonce |-> Undefined,
                 error |-> Undefined]

NoRequest == [pc |-> "unsent", body |-> Undefined, offer |-> Undefined,
              checkedAt |-> 0, boot |-> 0, nonce |-> Undefined,
              error |-> Undefined]

InFlight == {"received", "asserted", "saving", "signing", "failed"}

RequestState ==
    [pc : InFlight \cup {"unsent", "answered", "refused", "dropped"},
     body : Bodies \cup {Undefined},
     offer : OfferState \cup {Undefined},
     checkedAt : Nat,
     boot : Nat,
     nonce : Uuids \cup {Undefined},
     error : ErrorNames \cup {Undefined}]

TypeOK ==
    /\ offers \in [States -> OfferState \cup {Undefined}]
    /\ nonces \in [Uuids -> NonceState \cup {Undefined}]
    /\ request \in [Requests -> RequestState]
    /\ now \in Nat
    /\ boot \in Nat
    /\ up \in BOOLEAN
    /\ minted \subseteq Uuids
    /\ stored \subseteq States \X OfferState
    /\ collected \subseteq Uuids

Init ==
    /\ offers = EmptyStore(States)
    /\ nonces = EmptyStore(Uuids)
    /\ request = [r \in Requests |-> NoRequest]
    /\ now = 0
    /\ boot = 0
    /\ up = TRUE
    /\ minted = {}
    /\ stored = {}
    /\ collected = {}
-----------------------------------------------------------------------------
\* Checks of handleHTTPStatus400, pure.

\* getNumberOrUndefined
PinNumber(pin) ==
    IF pin = Undefined \/ ~pin.numeric THEN Undefined ELSE pin.value

IsValidGrant(offer, grantType) ==
    offer.preAuthGrant /\ grantType = PreAuthorizedCode

\* Mutants of IsPreAuthorizedCodeExpired: off by one in either direction.
ExpiresLate(offer, t) == t > offer.createdOn + Duration
ExpiresEarly(offer, t) == t + 1 >= offer.createdOn + Duration

IsPreAuthorizedCodeExpired(offer, t) == t >= offer.createdOn + Duration

\* The i-th check of the handler fails; the checks are made in this order.  The
\* handler compares the PIN a second time with !==, which differs from != for
\* neither numbers nor undefined.
Fails(i, offer, body, t) ==
    CASE i = 1 -> ~IsValidGrant(offer, body.grantType)
      [] i = 2 -> body.code = Undefined
      [] i = 3 -> offer.pinRequired /\ body.pin = Undefined
      [] i = 4 -> ~offer.pinRequired /\ body.pin # Undefined
      [] i = 5 -> body.pin # Undefined /\ ~body.pin.pinChar
      [] i = 6 -> offer.userPin # PinNumber(body.pin)
      [] i = 7 -> body.code # offer.code
      [] i = 8 -> IsPreAuthorizedCodeExpired(offer, t)

FirstFailure(i, offer, body, t) ==
    /\ Fails(i, offer, body, t)
    /\ \A j \in 1 .. (i - 1) : ~Fails(j, offer, body, t)

Passes(offer, body, t) == \A i \in 1 .. 8 : ~Fails(i, offer, body, t)

\* v4(): no uuid is returned twice.
FreshUuids == Uuids \ minted
-----------------------------------------------------------------------------
\* The request goes on in the given state; the others stay as they are.
Become(r, state) == request' = [request EXCEPT ![r] = state]

\* The HTTP request reaches the router and getAssertedState is called.
Receive(r, body) ==
    /\ up
    /\ request[r].pc = "unsent"
    /\ Become(r, [request[r] EXCEPT !.pc = "received", !.body = body,
                                    !.boot = boot])
    /\ UNCHANGED <<offers, nonces, now, boot, up, minted, stored, collected>>

OfferPresent(r) ==
    /\ request[r].body.state \in States
    /\ HasState(offers, request[r].body.state)

\* Mutant of AssertState: the offer comes from a cache of those once stored.
AssertCached(r) ==
    /\ up
    /\ request[r].pc = "received"
    /\ \E entry \in stored :
          /\ entry[1] = request[r].body.state
          /\ Become(r, [request[r] EXCEPT !.pc = "asserted", !.offer = entry[2]])
    /\ UNCHANGED <<offers, nonces, now, boot, up, minted, stored, collected>>

\* getAssertedState answers with the offer.
AssertState(r) ==
    /\ up
    /\ request[r].pc = "received"
    /\ OfferPresent(r)
    /\ Become(r, [request[r] EXCEPT !.pc = "asserted",
                                    !.offer = GetState(offers, request[r].body.state)])
    /\ UNCHANGED <<offers, nonces, now, boot, up, minted, stored, collected>>

\* getAssertedState rejects; or it returns undefined, on which isValidGrant
\* throws.  Either way the handler is rejected.
AssertFails(r) ==
    /\ up
    /\ request[r].pc = "received"
    /\ ~OfferPresent(r)
    /\ Become(r, [request[r] EXCEPT !.pc = "failed"])
    /\ UNCHANGED <<offers, nonces, now, boot, up, minted, stored, collected>>

\* Mutant of Refuse: the last check is made but not answered.
RefuseAllButExpired(r) ==
    /\ up
    /\ request[r].pc = "asserted"
    /\ \E i \in 1 .. 7 :
          /\ FirstFailure(i, request[r].offer, request[r].body, now)
          /\ Become(r, [request[r] EXCEPT !.pc = "refused", !.error = Errors[i],
                                          !.checkedAt = now])
    /\ UNCHANGED <<offers, nonces, now, boot, up, minted, stored, collected>>

\* Mutant of Refuse: handleTokenRequest's c_nonce is stored before the checks.
RefuseAfterSaving(r) ==
    /\ up
    /\ request[r].pc = "asserted"
    /\ \E i \in DOMAIN Errors, cNonce \in FreshUuids :
          /\ FirstFailure(i, request[r].offer, request[r].body, now)
          /\ nonces' = SetState(nonces, cNonce, [createdOn |-> now])
          /\ minted' = minted \cup {cNonce}
          /\ Become(r, [request[r] EXCEPT !.pc = "refused", !.error = Errors[i],
                                          !.checkedAt = now])
    /\ UNCHANGED <<offers, now, boot, up, stored, collected>>

\* A check fails: 400 with the error of the first one.
Refuse(r) ==
    /\ up
    /\ request[r].pc = "asserted"
    /\ \E i \in DOMAIN Errors :
          /\ FirstFailure(i, request[r].offer, request[r].body, now)
          /\ Become(r, [request[r] EXCEPT !.pc = "refused", !.error = Errors[i],
                                          !.checkedAt = now])
    /\ UNCHANGED <<offers, nonces, now, boot, up, minted, stored, collected>>

\* All checks pass: next() runs handleTokenRequest up to its first await,
\* where the c_nonce has been made and setState called with the current time.
\* The entry's own field cNonce is a second uuid, which nothing reads.
Accept(r) ==
    /\ up
    /\ request[r].pc = "asserted"
    /\ Passes(request[r].offer, request[r].body, now)
    /\ \E cNonce \in FreshUuids :
          /\ Become(r, [request[r] EXCEPT !.pc = "saving", !.nonce = cNonce,
                                          !.checkedAt = now])
          /\ minted' = minted \cup {cNonce}
    /\ UNCHANGED <<offers, nonces, now, boot, up, stored, collected>>

\* setState takes effect, and generateAccessToken calls the signer.
SaveNonce(r) ==
    /\ up
    /\ request[r].pc = "saving"
    /\ nonces' = SetState(nonces, request[r].nonce,
                          [createdOn |-> request[r].checkedAt])
    /\ Become(r, [request[r] EXCEPT !.pc = "signing"])
    /\ UNCHANGED <<offers, now, boot, up, minted, stored, collected>>

\* Mutant of Answer: setState is called but not awaited.
AnswerUnawaited(r) ==
    /\ up
    /\ request[r].pc \in {"saving", "signing"}
    /\ Become(r, [request[r] EXCEPT !.pc = "answered"])
    /\ UNCHANGED <<offers, nonces, now, boot, up, minted, stored, collected>>

\* The signer resolves: 200 with the access token and the c_nonce.
Answer(r) ==
    /\ up
    /\ request[r].pc = "signing"
    /\ Become(r, [request[r] EXCEPT !.pc = "answered"])
    /\ UNCHANGED <<offers, nonces, now, boot, up, minted, stored, collected>>

\* The signer rejects, and the handler with it.  The c_nonce stays stored.
SignerFails(r) ==
    /\ up
    /\ request[r].pc = "signing"
    /\ Become(r, [request[r] EXCEPT !.pc = "failed"])
    /\ UNCHANGED <<offers, nonces, now, boot, up, minted, stored, collected>>
-----------------------------------------------------------------------------
\* The rest of the issuer, on the same stores.

\* The application stores an offer it has just made.
StoreOffer(s, content) ==
    /\ up
    /\ Cardinality(stored) < MaxStored
    /\ LET offer == [preAuthGrant |-> content.preAuthGrant, code |-> content.code,
                     pinRequired |-> content.pinRequired,
                     userPin |-> content.userPin, createdOn |-> now]
       IN /\ offers' = SetState(offers, s, offer)
          /\ stored' = stored \cup {<<s, offer>>}
    /\ UNCHANGED <<nonces, request, now, boot, up, minted, collected>>

DeleteOffer(s) ==
    /\ up
    /\ HasState(offers, s)
    /\ offers' = DeleteState(offers, s)
    /\ UNCHANGED <<nonces, request, now, boot, up, minted, stored, collected>>

\* The cleanup routine of the nonce store fires.
CollectNonces ==
    /\ up
    /\ nonces' = ClearExpiredStates(nonces, Undefined, now)
    /\ collected' = collected \cup
                       {n \in Uuids : HasState(nonces, n) /\ nonces[n].createdOn < now}
    /\ UNCHANGED <<offers, request, now, boot, up, minted, stored>>

Tick ==
    /\ now < MaxTime
    /\ now' = now + 1
    /\ UNCHANGED <<offers, nonces, request, boot, up, minted, stored, collected>>

\* An unhandled rejection ends the process: both stores are in its memory.
Crash ==
    /\ up
    /\ CrashOnRejection
    /\ \E r \in Requests : request[r].pc = "failed"
    /\ up' = FALSE
    /\ offers' = ClearAllStates(offers)
    /\ nonces' = ClearAllStates(nonces)
    /\ request' = [r \in Requests |->
                      IF request[r].pc \in InFlight
                      THEN [request[r] EXCEPT !.pc = "dropped"]
                      ELSE request[r]]
    /\ UNCHANGED <<now, boot, minted, stored, collected>>

Restart ==
    /\ ~up
    /\ boot < MaxRestarts
    /\ up' = TRUE
    /\ boot' = boot + 1
    /\ UNCHANGED <<offers, nonces, request, now, minted, stored, collected>>

Handle(r) == AssertState(r) \/ AssertFails(r) \/ Refuse(r) \/ Accept(r)
                \/ SaveNonce(r) \/ Answer(r) \/ SignerFails(r)

Environment == \/ \E s \in States : DeleteOffer(s)
                      \/ \E content \in OfferContents : StoreOffer(s, content)
               \/ CollectNonces \/ Tick \/ Crash \/ Restart

Next == \/ \E r \in Requests : Handle(r) \/ \E body \in Bodies : Receive(r, body)
        \/ Environment

\* The event loop resumes every handler whose promise is settled, the signer
\* settles its own, and a rejection nobody handles is acted on.  Nothing
\* obliges wallets, the application, the clock or the supervisor.
Fairness == /\ \A r \in Requests : WF_vars(Handle(r))
            /\ WF_vars(Crash)

Spec == Init /\ [][Next]_vars /\ Fairness
-----------------------------------------------------------------------------
Accepted == {r \in Requests : request[r].nonce # Undefined}

\* The token request that redeems an offer at time t.
Redeems(offer, body, t) ==
    /\ body.grantType = PreAuthorizedCode /\ offer.preAuthGrant
    /\ body.code = offer.code
    /\ offer.pinRequired <=> body.pin # Undefined
    /\ PinNumber(body.pin) = offer.userPin
    /\ offer.createdOn <= t /\ t < offer.createdOn + Duration

\* Every token comes from a request that redeemed, when it was checked, an
\* offer the application did store under the state the request names, with its
\* grant, its code and its PIN and not expired; whatever happened to the stores
\* between the lookup and the answer (handleHTTPStatus400 before
\* handleTokenRequest).
TokenBacked ==
    \A r \in Accepted :
        /\ <<request[r].body.state, request[r].offer>> \in stored
        /\ Redeems(request[r].offer, request[r].body, request[r].checkedAt)

\* The c_nonce of a 200 answer is known to the issuer: from before the answer
\* until the process ends it is in the store, dated when the request was
\* checked, unless a cleanup in a later millisecond took it
\* (handleTokenRequest awaits the store before it answers).
AnsweredNonceStored ==
    \A r \in Requests :
        request[r].pc = "answered" /\ request[r].boot = boot /\ up =>
            \/ /\ HasState(nonces, request[r].nonce)
               /\ nonces[request[r].nonce].createdOn = request[r].checkedAt
            \/ request[r].nonce \in collected

\* A refused request, and one that is not yet accepted, leaves nothing in the
\* nonce store: every entry is that of an accepted request and dated when it
\* was accepted.  One whose signer failed leaves its entry behind
\* (handleHTTPStatus400 before handleTokenRequest, which saves before it signs).
NoncesAccounted ==
    \A n \in Uuids :
        HasState(nonces, n) =>
            \E r \in Requests :
                /\ request[r].nonce = n
                /\ request[r].pc \in {"signing", "answered", "failed"}
                /\ nonces[n].createdOn = request[r].checkedAt

\* 'PIN must consist of maximum 8 numeric characters'
WellFormedPin(pin) == pin.numeric /\ pin.pinChar /\ pin.length <= 8

\* A request that does at time t what its offer says: the offer's grant, its
\* code before it expires, and the issuer's PIN exactly when the offer asks for
\* one.
DoesAsOffered(offer, body, t) ==
    /\ offer.preAuthGrant /\ body.grantType = PreAuthorizedCode
    /\ body.code = offer.code
    /\ IF offer.pinRequired
       THEN /\ body.pin # Undefined
            /\ WellFormedPin(body.pin) /\ body.pin.value = offer.userPin
       ELSE body.pin = Undefined
    /\ t < offer.createdOn + Duration

\* A wallet that does what the offer says is served, never refused (the
\* comments of handleHTTPStatus400 name the causes of a refusal).  The code
\* breaks it: the PIN is compared also for an offer that asks for none.
RefusedForCause ==
    \A r \in Requests :
        request[r].pc = "refused" =>
            ~DoesAsOffered(request[r].offer, request[r].body, request[r].checkedAt)

\* The state of an offer holds a PIN exactly when the offer asks for one.  The
\* type CredentialOfferState does not say so, its userPin is mandatory.
PinAsOffered(offer) == offer.pinRequired <=> offer.userPin # Undefined

\* A wallet that does what the offer says is served, if the application stored
\* with the offer a PIN exactly when the offer asks for one (the order and the
\* conditions of the checks in handleHTTPStatus400).
ConsistentOfferServed ==
    \A r \in Requests :
        request[r].pc = "refused" /\ PinAsOffered(request[r].offer) =>
            ~DoesAsOffered(request[r].offer, request[r].body, request[r].checkedAt)

Settled == {"answered", "refused", "dropped"}
             \cup (IF CrashOnRejection THEN {} ELSE {"failed"})

\* Every request that reaches the endpoint comes to an end: an answer, the end
\* of the process, or, where rejections are not acted on, a rejected handler
\* that leaves the wallet without an answer (both middlewares).
RequestsSettle ==
    \A r \in Requests : request[r].pc = "received" ~> request[r].pc \in Settled
-----------------------------------------------------------------------------
\* The token request q as OfferRedemption sees it: what the code keeps of it
\* once it is granted, and nothing of a request that got no answer or a 400.
RedemptionRecord(pc, q, offer) ==
    [pc |-> pc, key |-> q.body.state, form |-> q.body, offer |-> offer,
     proof |-> Undefined]

RedemptionPc(pc) == [pc |-> pc, key |-> Undefined, form |-> Undefined,
                     offer |-> Undefined, proof |-> Undefined]

RedemptionView(q) ==
    CASE q.pc = "unsent"   -> RedemptionPc("unsent")
      [] q.pc = "received" -> RedemptionRecord("asked", q, Undefined)
      [] q.pc = "asserted" -> RedemptionRecord("held", q, q.offer)
      [] q.pc \in {"saving", "signing"} -> RedemptionRecord("granted", q, q.offer)
      [] q.pc = "answered" -> RedemptionRecord("delivered", q, q.offer)
      [] OTHER -> RedemptionPc("closed")

RedeemableByToken(body, offer, proof, t) == Redeems(offer, body, t)

Redemption == INSTANCE OfferRedemption
                WITH Keys <- States, Offers <- OfferState, Forms <- Bodies,
                     Proofs <- {}, Redeemable <- RedeemableByToken,
                     request <- [r \in Requests |-> RedemptionView(request[r])]

\* Every token request is a redemption of one offer: the endpoint read it from
\* the store at one instant after the request came, found later that the
\* request redeems it at that later moment, and only then answered with a
\* token; whatever is stored, deleted or lost in between.  Requests that were
\* answered, refused or dropped stay so (handleHTTPStatus400 and
\* handleTokenRequest, over any IStateManager).
ImplementsRedemption == Redemption!RSpec
=============================================================================
