------------------------------ MODULE VcIssuer ------------------------------
(***************************************************************************)
(* VcIssuer.issueCredentialFromIssueRequest: concurrent issuance calls on  *)
(* the offer store and the nonce store, in the steps between two awaits.   *)
(*                                                                         *)
(*   lookup     getAssertedState(issuerState) is awaited                   *)
(*   asserted   it answered; the grants are to be checked                  *)
(*   verifying  the JWT verify callback is awaited                         *)
(*   saving     nonceManager.setState is awaited; its entry is written      *)
(*   issuing    the issuer callback is awaited                             *)
(*   issued     the response with the credential and the c_nonce           *)
(*   failed     the call was rejected with an error                        *)
(*                                                                         *)
(* A rejected call is the caller's to handle: the process goes on.  The    *)
(* stores are the in-memory ones: setState writes in the caller's turn.    *)
(***************************************************************************)
EXTENDS StateStore, Sequences, FiniteSets

CONSTANTS
    Calls,              \* calls of issueCredentialFromIssueRequest
    States,             \* issuer states, keys of the offer store
    Clients,            \* client ids
    Uuids,              \* what v4() returns
    OfferContents,      \* the offers the application creates, without createdOn
    Options,            \* the arguments callers pass
    Jwts,               \* what a verify callback may make of a proof
    Supported,          \* formats in the issuer's credentials_supported
    HasVerifyCallback,  \* the issuer was built with a verify callback
    HasIssuerCallback,  \* the issuer was built with an issuer callback
    MaxTime,            \* bound of the clock, for model checking
    MaxStored,          \* bound of the offers ever stored, for model checking
    MaxGranted          \* bound of the tokens ever granted, for model checking

\* What is told apart of a format: the two that validateJWT compares with, and
\* any other.
Formats == {"jwt", "jwt_vc", "ldp_vc", "jwt_vc_json"}

\* CredentialOfferState; issuerState and preAuthCode say whether the offer has
\* grants.authorization_code.issuer_state and a pre-authorized code.
OfferContent == [clientId : Clients \cup {Undefined},
                 issuerState : BOOLEAN, preAuthCode : BOOLEAN]

\* The argument of the call, but for the c_nonce it may bring.  A list of
\* formats is a set marked isArray; proof says whether the request has one.
\* Which of two issuer callbacks runs is not told apart.
Option == [issuerState : States,
           isArray : BOOLEAN, format : SUBSET Formats, proof : BOOLEAN,
           jwtVerifyCallback : BOOLEAN]

\* Header and payload of the verified proof: typ, alg, aud and iat as the
\* checks judge them, the number of key references (kid, jwk, x5c) present.
Jwt == [typ : BOOLEAN, alg : BOOLEAN, keyRefs : 0 .. 3,
        iss : Clients \cup {Undefined}, aud : BOOLEAN, iat : BOOLEAN,
        nonce : Uuids \cup {Undefined}]

NonceState == [createdOn : Nat]

ASSUME IssuerAssumption ==
    /\ OfferContents \subseteq OfferContent
    /\ Options \subseteq Option
    /\ Jwts \subseteq Jwt
    /\ Supported \subseteq Formats
    /\ HasVerifyCallback \in BOOLEAN
    /\ HasIssuerCallback \in BOOLEAN
    /\ MaxTime \in Nat
    /\ MaxStored \in Nat
    /\ MaxGranted \in Nat

ASSUME UndefinedIsNoValue ==
    /\ Undefined \notin States
    /\ Undefined \notin Clients
    /\ Undefined \notin Uuids
    /\ Undefined \notin OfferContent
    /\ Undefined \notin Jwt
    /\ Undefined \notin NonceState

VARIABLES
    offers,   \* _stateManager
    nonces,   \* nonceManager
    issue,    \* the progress of every call
    now,      \* the clock
    minted,   \* history: every uuid v4() ever returned
    stored,   \* history: every offer ever stored, under its state
    known,    \* history: every c_nonce the issuer ever stored
    granted,  \* history: every c_nonce the token endpoint ever stored
    collected \* history: the entries, with createdOn, a later cleanup found

vars == <<offers, nonces, issue, now, minted, stored, known, granted, collected>>

Pending == {"lookup", "asserted", "verifying", "saving", "issuing"}

Errors == {"UNKNOWN_CLIENT", "GRANTS_MUST_NOT_BE_UNDEFINED", "JWT_VERIFY_CONFIG",
           "VERIFY_CALLBACK", "TYP", "ALG", "KID_JWK_X5C",
           "NO_ISS_IN_AUTHORIZATION_CODE_CONTEXT", "ISS_MUST_BE_CLIENT_ID", "AUD",
           "IAT", "NONCE", "INVALID_REQUEST", "ISSUER_CONFIG", "ISSUER_CALLBACK",
           "CREDENTIAL_MISSING", "TYPE_ERROR"}

IssueState ==
    [pc : Pending \cup {"unsent", "issued", "failed"},
     opts : Options \cup {Undefined},
     offer : OfferContent \cup {Undefined},
     jwt : Jwts \cup {Undefined},
     brought : BOOLEAN,
     cNonce : Uuids \cup {Undefined},
     setAt : Nat,
     error : Errors \cup {Undefined}]

\* Mutant of NoCall: a field without a first value.
UnsetCall == [pc |-> "unsent", opts |-> Undefined, offer |-> Undefined,
              jwt |-> Undefined, brought |-> FALSE, cNonce |-> Undefined,
              setAt |-> Undefined, error |-> Undefined]

NoCall == [pc |-> "unsent", opts |-> Undefined, offer |-> Undefined,
           jwt |-> Undefined, brought |-> FALSE, cNonce |-> Undefined, setAt |-> 0,
           error |-> Undefined]

TypeOK ==
    /\ offers \in [States -> OfferContent \cup {Undefined}]
    /\ nonces \in [Uuids -> NonceState \cup {Undefined}]
    /\ issue \in [Calls -> IssueState]
    /\ now \in Nat
    /\ minted \subseteq Uuids
    /\ stored \subseteq States \X OfferContent
    /\ known \subseteq Uuids
    /\ granted \subseteq Uuids
    /\ collected \subseteq Uuids \X Nat

Init ==
    /\ offers = EmptyStore(States)
    /\ nonces = EmptyStore(Uuids)
    /\ issue = [c \in Calls |-> NoCall]
    /\ now = 0
    /\ minted = {} /\ stored = {} /\ known = {}
    /\ granted = {} /\ collected = {}
-----------------------------------------------------------------------------
\* validateJWT looks at the proof only for these formats, and never for a list.
ProofRequired(opts) ==
    ~opts.isArray /\ (opts.format = {"jwt"} \/ opts.format = {"jwt_vc"})

\* isMetadataSupportCredentialRequestFormat
FormatSupported(opts) == opts.format \cap Supported # {}

GrantsDefined(offer) == offer.issuerState /\ offer.preAuthCode

\* The checks of validateJWT on the verified proof, in their order.  The grants
\* have an authorization_code here (GrantsDefined).
JwtError(i) == << "TYP", "ALG", "KID_JWK_X5C", "NO_ISS_IN_AUTHORIZATION_CODE_CONTEXT",
                  "ISS_MUST_BE_CLIENT_ID", "AUD", "IAT", "NONCE" >>[i]

JwtFails(i, jwt, offer) ==
    CASE i = 1 -> ~jwt.typ
      [] i = 2 -> ~jwt.alg
      [] i = 3 -> jwt.keyRefs # 1
      [] i = 4 -> jwt.iss = Undefined
      [] i = 5 -> jwt.iss # Undefined /\ jwt.iss # offer.clientId
      [] i = 6 -> ~jwt.aud
      [] i = 7 -> ~jwt.iat
      [] i = 8 -> jwt.nonce = Undefined

JwtPasses(jwt, offer) == \A i \in 1 .. 8 : ~JwtFails(i, jwt, offer)

\* v4(): no uuid is returned twice.
FreshUuids == Uuids \ minted

\* cNonce: the caller's, or a new one
NonceChoices(state) == IF state.brought THEN {state.cNonce} ELSE FreshUuids

Become(c, state) == issue' = [issue EXCEPT ![c] = state]

Fail(c, error) == Become(c, [issue[c] EXCEPT !.pc = "failed", !.error = error])

\* Mutant of StoreNonce: a c_nonce the caller brought is taken to be stored.
StoreOwnNonce(state, cNonce) ==
    /\ nonces' = IF state.brought THEN nonces
                 ELSE SetState(nonces, cNonce, [createdOn |-> now])
    /\ minted' = minted \cup {cNonce}
    /\ known' = known \cup {cNonce}

\* nonceManager.setState, for a c_nonce the caller brought as for a new one.
StoreNonce(state, cNonce) ==
    /\ nonces' = SetState(nonces, cNonce, [createdOn |-> now])
    /\ minted' = minted \cup {cNonce}
    /\ known' = known \cup {cNonce}

\* Mutant of Proceed: the c_nonce is stored before the format is looked at.
ProceedSavesFirst(c, state) ==
    \E cNonce \in NonceChoices(state) :
        /\ StoreNonce(state, cNonce)
        /\ Become(c, IF FormatSupported(state.opts)
                     THEN [state EXCEPT !.pc = "saving", !.cNonce = cNonce,
                                        !.setAt = now]
                     ELSE [state EXCEPT !.pc = "failed", !.cNonce = cNonce,
                                        !.error = "INVALID_REQUEST"])

\* The turn that follows validateJWT: a supported format gets its c_nonce,
\* which setState stores, and any other is an invalid request.
Proceed(c, state) ==
    \/ /\ FormatSupported(state.opts)
       /\ \E cNonce \in NonceChoices(state) :
             /\ Become(c, [state EXCEPT !.pc = "saving", !.cNonce = cNonce,
                                        !.setAt = now])
             /\ StoreNonce(state, cNonce)
    \/ /\ ~FormatSupported(state.opts)
       /\ Become(c, [state EXCEPT !.pc = "failed", !.error = "INVALID_REQUEST"])
       /\ UNCHANGED <<nonces, minted, known>>
-----------------------------------------------------------------------------
\* cNonce: 'an existing c_nonce', or Undefined.
Issue(c, opts, cNonce) ==
    /\ issue[c].pc = "unsent"
    /\ Become(c, [issue[c] EXCEPT !.pc = "lookup", !.opts = opts,
                                  !.brought = (cNonce # Undefined),
                                  !.cNonce = cNonce])
    /\ UNCHANGED <<offers, nonces, now, minted, stored, known, granted, collected>>

\* Mutant of Lookup: the rejection of an unknown state is lost.
LookupUnreported(c) ==
    /\ issue[c].pc = "lookup"
    /\ HasState(offers, issue[c].opts.issuerState)
    /\ Become(c, [issue[c] EXCEPT !.pc = "asserted",
                                  !.offer = GetState(offers, issue[c].opts.issuerState)])
    /\ UNCHANGED <<offers, nonces, now, minted, stored, known, granted, collected>>

\* Mutant of Lookup: the offer comes from a cache of those once stored.
LookupCached(c) ==
    /\ issue[c].pc = "lookup"
    /\ \/ \E entry \in stored :
             /\ entry[1] = issue[c].opts.issuerState
             /\ Become(c, [issue[c] EXCEPT !.pc = "asserted", !.offer = entry[2]])
       \/ Fail(c, "UNKNOWN_CLIENT")
    /\ UNCHANGED <<offers, nonces, now, minted, stored, known, granted, collected>>

\* getAssertedState takes effect.  It may also return undefined for an offer
\* removed meanwhile, which fails the check of the grants instead.
Lookup(c) ==
    /\ issue[c].pc = "lookup"
    /\ LET s == issue[c].opts.issuerState
       IN \/ /\ HasState(offers, s)
             /\ Become(c, [issue[c] EXCEPT !.pc = "asserted",
                                           !.offer = GetState(offers, s)])
          \/ /\ ~HasState(offers, s)
             /\ \E error \in {"UNKNOWN_CLIENT", "GRANTS_MUST_NOT_BE_UNDEFINED"} :
                   Fail(c, error)
    /\ UNCHANGED <<offers, nonces, now, minted, stored, known, granted, collected>>

\* retrieveGrantsFromClient and validateJWT up to its await.  The proof is
\* looked into before the configuration is: where there is none, a TypeError.
CheckGrants(c) ==
    /\ issue[c].pc = "asserted"
    /\ \/ /\ ~GrantsDefined(issue[c].offer)
          /\ Fail(c, "GRANTS_MUST_NOT_BE_UNDEFINED")
          /\ UNCHANGED <<nonces, minted, known>>
       \/ /\ GrantsDefined(issue[c].offer)
          /\ ProofRequired(issue[c].opts)
          /\ \/ ~issue[c].opts.proof /\ Fail(c, "TYPE_ERROR")
             \/ /\ issue[c].opts.proof
                /\ IF HasVerifyCallback \/ issue[c].opts.jwtVerifyCallback
                   THEN Become(c, [issue[c] EXCEPT !.pc = "verifying"])
                   ELSE Fail(c, "JWT_VERIFY_CONFIG")
          /\ UNCHANGED <<nonces, minted, known>>
       \/ /\ GrantsDefined(issue[c].offer)
          /\ ~ProofRequired(issue[c].opts)
          /\ Proceed(c, issue[c])
    /\ UNCHANGED <<offers, now, stored, granted, collected>>

\* The verify callback resolves with the proof's header and payload.
CheckProof(c) ==
    /\ issue[c].pc = "verifying"
    /\ \E jwt \in Jwts :
          \/ /\ JwtPasses(jwt, issue[c].offer)
             /\ Proceed(c, [issue[c] EXCEPT !.jwt = jwt])
          \/ /\ \E i \in 1 .. 8 :
                   /\ JwtFails(i, jwt, issue[c].offer)
                   /\ \A j \in 1 .. (i - 1) : ~JwtFails(j, jwt, issue[c].offer)
                   /\ Fail(c, JwtError(i))
             /\ UNCHANGED <<nonces, minted, known>>
    /\ UNCHANGED <<offers, now, stored, granted, collected>>

VerifyFails(c) ==
    /\ issue[c].pc = "verifying"
    /\ Fail(c, "VERIFY_CALLBACK")
    /\ UNCHANGED <<offers, nonces, now, minted, stored, known, granted, collected>>

\* setState's promise is resolved; issueCredential insists on the issuer's own
\* callback, also when the call brought one.
CallIssuer(c) ==
    /\ issue[c].pc = "saving"
    /\ IF HasIssuerCallback
       THEN Become(c, [issue[c] EXCEPT !.pc = "issuing"])
       ELSE Fail(c, "ISSUER_CONFIG")
    /\ UNCHANGED <<offers, nonces, now, minted, stored, known, granted, collected>>

\* The issuer callback resolves with a credential.
Respond(c) ==
    /\ issue[c].pc = "issuing"
    /\ Become(c, [issue[c] EXCEPT !.pc = "issued"])
    /\ UNCHANGED <<offers, nonces, now, minted, stored, known, granted, collected>>

\* It resolves with none, or rejects.  The c_nonce stays stored.
IssuerFails(c) ==
    /\ issue[c].pc = "issuing"
    /\ \E error \in {"CREDENTIAL_MISSING", "ISSUER_CALLBACK"} : Fail(c, error)
    /\ UNCHANGED <<offers, nonces, now, minted, stored, known, granted, collected>>
-----------------------------------------------------------------------------
\* The application, the nonce cleanup and the clock.

StoreOffer(s, offer) ==
    /\ Cardinality(stored) < MaxStored
    /\ offers' = SetState(offers, s, offer)
    /\ stored' = stored \cup {<<s, offer>>}
    /\ UNCHANGED <<nonces, issue, now, minted, known, granted, collected>>

DeleteOffer(s) ==
    /\ HasState(offers, s)
    /\ offers' = DeleteState(offers, s)
    /\ UNCHANGED <<nonces, issue, now, minted, stored, known, granted, collected>>

\* The token endpoint stores the c_nonce of a token.
GrantNonce ==
    /\ Cardinality(granted) < MaxGranted
    /\ \E cNonce \in FreshUuids :
          /\ nonces' = SetState(nonces, cNonce, [createdOn |-> now])
          /\ minted' = minted \cup {cNonce}
          /\ granted' = granted \cup {cNonce}
    /\ UNCHANGED <<offers, issue, now, stored, known, collected>>

CollectNonces ==
    /\ nonces' = ClearExpiredStates(nonces, Undefined, now)
    /\ collected' = collected \cup
          {<<n, nonces[n].createdOn>> :
              n \in {m \in Uuids : HasState(nonces, m) /\ nonces[m].createdOn < now}}
    /\ UNCHANGED <<offers, issue, now, minted, stored, known, granted>>

Tick ==
    /\ now < MaxTime
    /\ now' = now + 1
    /\ UNCHANGED <<offers, nonces, issue, minted, stored, known, granted, collected>>

Continue(c) == Lookup(c) \/ CheckGrants(c) \/ CheckProof(c) \/ VerifyFails(c)
                  \/ CallIssuer(c) \/ Respond(c) \/ IssuerFails(c)

Environment == \/ \E s \in States : DeleteOffer(s)
                      \/ \E offer \in OfferContents : StoreOffer(s, offer)
               \/ GrantNonce \/ CollectNonces \/ Tick

Next == \/ \E c \in Calls : Continue(c)
              \/ \E opts \in Options, cNonce \in minted \cup {Undefined} :
                    Issue(c, opts, cNonce)
        \/ Environment

\* Settled promises are resumed, and both callbacks settle theirs.
Fairness == \A c \in Calls : WF_vars(Continue(c))

Spec == Init /\ [][Next]_vars /\ Fairness
-----------------------------------------------------------------------------
Issued == {c \in Calls : issue[c].pc = "issued"}

\* A proof that stands for the client the offer was made to.
ProofStands(jwt, offer) ==
    /\ jwt # Undefined
    /\ jwt.typ /\ jwt.alg /\ jwt.aud /\ jwt.iat
    /\ jwt.keyRefs = 1
    /\ jwt.iss # Undefined /\ jwt.iss = offer.clientId
    /\ jwt.nonce # Undefined

\* A credential is issued only on an offer the application stored under the
\* call's issuer state, with both grants, in a supported format, and for the
\* formats jwt and jwt_vc only on a verified proof of the offer's client;
\* whatever happened to the offer while callbacks were awaited
\* (issueCredentialFromIssueRequest).
IssuedOnOffer ==
    \A c \in Issued :
        /\ <<issue[c].opts.issuerState, issue[c].offer>> \in stored
        /\ issue[c].offer.issuerState /\ issue[c].offer.preAuthCode
        /\ FormatSupported(issue[c].opts)
        /\ ProofRequired(issue[c].opts) => ProofStands(issue[c].jwt, issue[c].offer)

\* The c_nonce of a response is stored from before the issuer callback is run,
\* with a date no older than the call's own, and stays stored unless a cleanup
\* in a later millisecond than that date took it; also a c_nonce the caller
\* brought, whose older entry may have been collected or be about to be
\* (nonceManager.setState before issueCredential).
ResponseNonceStored ==
    \A c \in Calls :
        issue[c].pc \in {"saving", "issuing", "issued"} =>
            \/ /\ HasState(nonces, issue[c].cNonce)
               /\ nonces[issue[c].cNonce].createdOn >= issue[c].setAt
            \/ \E entry \in collected :
                  entry[1] = issue[c].cNonce /\ entry[2] >= issue[c].setAt

\* A call that ends without a credential leaves a c_nonce behind only when it
\* got past every check: the failure lies in the issuer callback or its
\* configuration.
NonceOnlyPastChecks ==
    \A n \in known :
        \E c \in Calls :
            /\ issue[c].cNonce = n
            /\ issue[c].pc \in {"saving", "issuing", "issued", "failed"}
            /\ issue[c].error \in {Undefined, "ISSUER_CONFIG", "ISSUER_CALLBACK",
                                   "CREDENTIAL_MISSING"}

\* Every call comes to an end.
CallsSettle ==
    \A c \in Calls : issue[c].pc = "lookup" ~> issue[c].pc \in {"issued", "failed"}

\* The nonce of the proof is a c_nonce the issuer provided.
ProofNonceProvided ==
    \A c \in Issued : issue[c].jwt # Undefined => issue[c].jwt.nonce \in known \cup granted
-----------------------------------------------------------------------------
\* The call q as OfferRedemption sees it: what the code keeps of it once it is
\* granted, and nothing of a call that was rejected.
RedemptionRecord(pc, q, offer, jwt) ==
    [pc |-> pc, key |-> q.opts.issuerState, form |-> q.opts, offer |-> offer,
     proof |-> jwt]

RedemptionPc(pc) == [pc |-> pc, key |-> Undefined, form |-> Undefined,
                     offer |-> Undefined, proof |-> Undefined]

RedemptionView(q) ==
    CASE q.pc = "unsent" -> RedemptionPc("unsent")
      [] q.pc = "lookup" -> RedemptionRecord("asked", q, Undefined, Undefined)
      [] q.pc \in {"asserted", "verifying"} ->
            RedemptionRecord("held", q, q.offer, Undefined)
      [] q.pc \in {"saving", "issuing"} -> RedemptionRecord("granted", q, q.offer, q.jwt)
      [] q.pc = "issued" -> RedemptionRecord("delivered", q, q.offer, q.jwt)
      [] OTHER -> RedemptionPc("closed")

RedeemableByCredential(opts, offer, jwt, t) ==
    /\ offer.issuerState /\ offer.preAuthCode
    /\ FormatSupported(opts)
    /\ ProofRequired(opts) => ProofStands(jwt, offer)

Redemption == INSTANCE OfferRedemption
                WITH Requests <- Calls, Keys <- States, Offers <- OfferContent,
                     Forms <- Options, Proofs <- Jwts,
                     Redeemable <- RedeemableByCredential,
                     request <- [c \in Calls |-> RedemptionView(issue[c])]

\* Every call for a credential is a redemption of one offer: the issuer read it
\* from the store at one instant after the call was made, granted the call on
\* that same offer and on the proof it had verified, and only then issued;
\* whatever is stored or deleted in between.  A call that has issued or was
\* rejected does nothing more (issueCredentialFromIssueRequest).
ImplementsRedemption == Redemption!RSpec
=============================================================================
