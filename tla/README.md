# Verification of the OID4VCI packages

TLA+ models of the issuer and wallet of this repository, the TLC runs that check
them on small instances, and proofs, checked by TLAPS, of their safety
properties for every value of the constants. The code is
`packages/*/lib`; file names below are relative to `packages/`, and
`PROJECT.json` names, under "map", the lines each definition stands for.

## 1. The system

OpenID for Verifiable Credential Issuance: an issuer makes a wallet an offer; the
wallet exchanges the offer's pre-authorized code for an access token and a
`c_nonce`, signs a proof of possession over that nonce and exchanges it for a
credential.

| part | code | state | operations |
|---|---|---|---|
| state managers | `issuer/lib/state-manager/Memory*.ts`, `common/lib/types/StateManager.types.ts` | a `Map` from issuer state to offer, and one from `c_nonce` to its creation time | set, get, has, getAsserted, delete, clearExpired, clearAll |
| nonce cleanup | `issuer/lib/state-manager/MemoryCNonceStateManager.ts` | `intervalRoutineId`, an interval timer | startCleanupRoutine, stopCleanupRouting, the timer's callback |
| token endpoint | `issuer-token-endpoint/lib/IssuerTokenEndpoint.ts` | both managers | `POST /token`: `handleHTTPStatus400`, then `handleTokenRequest` |
| credential issuer | `issuer/lib/VcIssuer.ts` | both managers, metadata, callbacks | `issueCredentialFromIssueRequest` |
| wallet client | `client/lib/OpenID4VCIClient.ts` with `CredentialRequestClient.ts`, `ProofOfPossessionBuilder.ts`, `functions/ProofUtil.ts` | cached metadata and token response, client id, kid, alg | fromURI, retrieveServerMetadata, acquireAccessToken, acquireCredentials, authorization URL, pushed authorization request |
| access token client | `client/lib/AccessTokenClient.ts` | none | request building, PIN checks, token URL |
| metadata client | `client/lib/MetadataClient.ts` | the retrieval under way; its result is cached in the client object | retrieveAllMetadata over up to three well-known documents, strict or not |
| proof of possession | `client/lib/ProofOfPossessionBuilder.ts`, `functions/ProofUtil.ts`, `CredentialRequestClient.ts` | a builder: options, callbacks and, by reference, a JWT of the application | the `with` setters, build, createProofOfPossession |
| issuer REST API | `issuer-rest/lib/api.ts` | pushed authorization requests with expiry timers, offers by code | `/metadata`, `/token` (501), `/credential`, `/credential-offer/:code`, `/par` |
| issuer builders | `issuer/lib/builder/*` | lists and displays, the application's arrays by reference | the `with` and `add` methods, build |
| credential offer URIs | `issuer/lib/functions/CredentialOfferUtils.ts`, `client/lib/CredentialOffer.ts`, `Encoding.ts`, `common/lib/functions/*` | none | writing, version detection, reading, writing again |

How they interact. The token endpoint and the issuer run in one Node.js process and
share the two state managers by reference. The cleanup timer works on the nonce
manager. Both call back into the application: the access token signer, the JWT
verifier, the issuer callback. The REST server holds an issuer made with the
builders and writes links from its metadata. The wallet reads a link, finds the
endpoints in the issuer's documents and talks to token endpoint, issuer and REST
server over HTTP. Inside a process nothing is preemptive: code runs in *turns*, from
one `await` to the next, and turns of different requests, timers and application code interleave.

What is hard here, and tested by nothing in the repository:

* an `await` between reading state and using it (`getAssertedState` itself, the
  offer looked up by the token endpoint and by the issuer, the wallet's cached
  metadata and token);
* one step of several failing: a signer, a verifier or an issuer callback
  rejects after a nonce was stored;
* a rejected express handler: express 4 does not see the rejection, nobody
  answers the request, and an unhandled rejection ends a process of Node 15 or
  later, with both in-memory stores (`package.json` asks for node >= 16);
* boundaries: the last millisecond of a code, PINs that are text on one side and
  numbers on the other, comparisons `<` and `>=` on clocks;
* legal sequences nobody wrote down: a code redeemed twice, a cleanup stopped and
  started again, two flows of a wallet on one client object, a proof builder filled
  again between two proofs, an issuer's builder used after build, a link that one
  wallet reads and writes for the next;
* objects shared by reference: the arrays given to the builders, the JWT given to a
  proof builder;
* documents that change, fail or are missing between two reads of one retrieval;
* timers whose delay comes from the environment, past what `setTimeout` can wait.

What makes each part correct:

* state managers: `getAssertedState` answers as of one instant of the call;
* cleanup: old entries do go, and a stop reaches every timer;
* token endpoint: no token without a correct request for a stored, unexpired
  offer; no correct request refused; a nonce in the store before it is handed out and
  until a cleanup takes it, and nothing there of a request that was refused; every
  request ends;
* issuer: no credential without a stored offer and the checks on its proof,
  whatever is deleted meanwhile; nonces likewise; every call ends;
* wallet: the parts of a request belong together, the code is redeemed once,
  errors are reported, every call ends;
* metadata client: both endpoints are of one issuer, a missing document ends no
  lenient retrieval, the cache is one whole result, every retrieval ends;
* proof of possession: a proof says what its builder was told last, is dated when
  it is signed, and a new JWT is never in contradiction with what it replaces;
* REST API: a pushed request is kept for the lifetime its client was told, and not
  for ever;
* builders: the lists of what is built change only by their owner's hand (of the
  `credentialSubject` that is not so: the builder hands on its own object and writes
  into it after build, `CredentialSupportedBuilderV1_11.ts:98,110`);
* offer URIs: the wallet reads the links of the issuer, and every field of an offer
  gets through, to a first wallet and to the next.

Where the code breaks these, runs of section 3 find the statement violated.

## 2. Modules

| module | models | on top of |
|---|---|---|
| `StateStore` | the `Map` behind the managers and the synchronous body of each method, as operators | |
| `StateManagerContract` | abstract: what a caller of `getAssertedState` relies on | |
| `MemoryStateManager` | the managers, `getAssertedState` in its three turns | `StateStore`, implements `StateManagerContract` |
| `MemoryCNonceStateManager` | the cleanup timers | `MemoryStateManager` |
| `MemoryCNonceStateManagerProofs` | theorems of both managers | `MemoryCNonceStateManager`, `TLAPS` |
| `OfferRedemption` | abstract: what becomes of a request that redeems a stored offer | |
| `TokenEndpoint` | concurrent token requests, the stores, the process | `StateStore`, implements `OfferRedemption` |
| `TokenEndpointProofs` | theorems of `TokenEndpoint` | `TokenEndpoint`, `TLAPS` |
| `VcIssuer` | concurrent issuance calls on the same stores | `StateStore`, implements `OfferRedemption` |
| `VcIssuerProofs` | theorems of `VcIssuer` | `VcIssuer`, `TLAPS` |
| `AccessTokenRequest` | the wallet's checks on its token request, pure | |
| `WalletClient` | concurrent flows on one client object | `AccessTokenRequest` |
| `WalletClientProofs` | theorems of `WalletClient` | `WalletClient`, `TLAPS` |
| `MetadataDiscovery` | overlapping retrievals over documents that change | |
| `MetadataDiscoveryProofs` | theorems of `MetadataDiscovery` | `MetadataDiscovery`, `TLAPS` |
| `ProofOfPossession` | one proof builder, its JWTs and the requests made with it | |
| `ProofOfPossessionProofs` | theorems of `ProofOfPossession` | `ProofOfPossession`, `TLAPS` |
| `RestAPI` | pushed authorization requests, their timers, the clients | |
| `RestAPIProofs` | theorems of `RestAPI` | `RestAPI`, `TLAPS` |
| `IssuerBuilders` | the builders of credentials and issuers, and the application's arrays | |
| `CredentialOfferURI` | from an offer to a URI and back, pure | |
| `OfferLinks` | a link from issuer to wallet to wallet | `CredentialOfferURI`, `IssuerBuilders` |
| `OfferLinksProofs` | theorems of `OfferLinks`, its builders included | `OfferLinks`, `TLAPS` |
| `MC...` | the values of the constants for TLC | the module named |

### State and actions

An entry of a store is a record with `createdOn`; an absent key is `Undefined`,
which stands for JavaScript's `undefined` everywhere. Each concurrent activity is
a record with a program counter that names the `await` it is at; an action is the
turn from that `await` to the next. So an action holds everything the code does in
that turn, and what other turns can do in between is exactly what TLC interleaves.

`MemoryStateManager`. `hasState` is evaluated in the turn of the caller, `getState`
one microtask later, and the result is delivered one after that
(`GetAssertedState`, `ResumeAfterHas`, `ResumeAfterGet`); all other methods are one
action each. `MemoryCNonceStateManager` adds the timers: `startCleanupRoutine` sets
an id only if there is none, `stopCleanupRouting` clears the timer and keeps the id.
The length of the interval is abstracted, so a timer may fire at every moment where
no microtask waits.

`TokenEndpoint`. `Receive` is the request reaching the router;
`AssertState`/`AssertFails` the lookup of the offer; `Refuse` and `Accept` the turn
after it, with the checks of `handleHTTPStatus400` in their order (`Fails`) and the
beginning of `handleTokenRequest`; `SaveNonce` the nonce's `setState`; `Answer` and
`SignerFails` the end. A handler that is rejected (`failed`) answers nothing;
`Crash` is the end of the process by the unhandled rejection, `Restart` a
supervisor. `StoreOffer`, `DeleteOffer`, `CollectNonces` and `Tick` are the rest of
the process at work on the same stores. `IStateManager` is an interface an
application may implement over a database, so here each of its methods takes effect
at one instant of its `await`, which allows more than the in-memory managers do.
PINs are abstracted to what the checks tell apart: length, number, and whether a
character is of the class `[0-9{,8}]`. The entry the endpoint stores also has a
field `cNonce`, a second uuid nothing reads; it is left out. Removing all or all
expired offers is a sequence of `DeleteOffer`. `setState` does not fail. The clock that
the last check reads and the one the nonce is dated with are one instant: they are read
in one turn, without an `await` between them. `minted` and `collected`, the nonces handed
out and those a cleanup took, are history.

`VcIssuer`. `Issue`, `Lookup`, `CheckGrants`, `CheckProof`/`VerifyFails`,
`CallIssuer`, `Respond`/`IssuerFails` are the turns of
`issueCredentialFromIssueRequest`; the checks of `validateJWT` are listed in their
order (`JwtFails`), on a proof of which only the outcome of each check, the issuer
and the nonce are kept. With the in-memory manager `setState` writes in the turn of
its caller. `GrantNonce` is the token endpoint storing a nonce of its own.

`OfferRedemption` is what both promise: a request reads its offer from the store at
one instant (`Read`), is granted at one later instant, at which the offer it read is
redeemable by it (`Grant`), and is answered only then (`Deliver`); the store and the
clock go their own way, and the end of the process closes whatever is open.
`RedemptionView` is the refinement mapping: of a token request, `received` is asked,
`asserted` held, `saving` and `signing` granted, `answered` delivered, and every
refusal or failure closed; the issuer's calls likewise.

`WalletClient`. One object of one offer; each flow makes calls one after another.
The fields `_endpointMetadata`, `_accessTokenResponse`, `_clientId`, `_kid` and
`_alg` are variables; a call captures what it read of them in `request`. The issuer
is outside and may grant, refuse, fail, or bring a nonce with any answer. A
credential request is put together in the one turn that ends in the sign callback.
What the well-known documents yield is a choice (`Published`); how it comes about
is `MetadataDiscovery`. Whether the issuer accepts the proof is not modelled here.

`MetadataDiscovery`. A retrieval's program counter is the document it awaits.
`ReadDocument` is that document as `published` has it at that moment, and the turn
that follows: `OnSuccess`, `OnError` and a rejection tell the next document or the
end, `Conclude` the errors of a strict retrieval or the guesses of a lenient one,
and the client object's cache if the retrieval is its own. `Republish` is the
operator of either server. A document is which endpoints it names; an endpoint is
the document that named it. A client object that has cached metadata makes no
retrieval, as `retrieveServerMetadata` does not.

`ProofOfPossession`. `With` and `WithJwt` are the setters (two of them call others),
`Build` is `createCredentialRequest` up to the sign callback, with the order in which
`createJWT` looks at its claims, and `Sign`, `Verify` and `Answer` are the rest.
The builder knows its JWT by reference, so `ChangeJwt`, the application's own doing,
changes the next proof. An option or claim that is absent is `Undefined`; callbacks
may reject or return what is no JWS. `Reuse` sends an earlier proof again. Times are
in instants; the 60 seconds taken off, and the exp ten minutes later, follow from the
instant and are left out, as is the builder's `typ`, which nothing reads.

`RestAPI`. `/par` is one turn (`PushedAuthorizationEndpoint`), whose status tells the
checks apart in their order. Its timer is a record with what is left of its delay in
ticks; `Delay` is the rule of `setTimeout`, that what it cannot wait becomes a
millisecond. `EXPIRES_IN` is parsed once, so `expiresIn` is a variable that never
changes. The clients are outside: any form (`PushForm`), the wallet of this
repository, which writes JSON into a form, messages that get lost.
`CredentialEndpoint` is `GET /credential`, which stays open. The server is one made with
the options of `RestAPI`'s constructor: as committed, `api.ts:201` makes another without
options as soon as the module is imported, and that throws, for the issuer built from
the environment has no nonce manager. The model is of the server that is left once that
line is.

`IssuerBuilders`. A list is an array of the application's, by reference, or items the
builder has made: the `with` methods and a first `add` of an array keep the caller's,
later `add`s copy. `BuildCredential` hands the lists on and leaves the types out;
`BuildIssuer` needs all parts. `Push` is the application changing an array.

`CredentialOfferURI`. A URI is its scheme and its entries; a value is its type, what
it says, and which of the words that decide the version occur in it, since the wallet
looks for words anywhere in the text. `convertJsonToURI` escapes two keys and writes the
others as they are: what a reader makes of a value with `=`, `&`, `?` or `%` in it is
told by `Reserved`, value by value: where the value ends, which entries follow and whether
the link ends there. What cannot be unescaped or parsed is a value type of its own and
an error of the reader (`Undecodable`). Keys hold none of these characters, and the URL of
a reference to an offer none of the words. `OfferLinks` composes both: an offer is written
from what the built issuer's metadata, arrays included, say at that moment, read with
`FromURI` and written again with `PassOn`. Once a link is out the builders rest: no
property relates later calls to it.

## 3. Runs

| run | instance | shows |
|---|---|---|
| `nonce_manager` | 2 keys, 1 caller, 3 instants, 2 timers | `ImplementsContract`: a call of `getAssertedState` is decided at one instant, with one outcome beyond the interface: `undefined` for a key removed during the call. `CleanupCollects`: a running routine collects what is older than its threshold. `StopReachesEveryTimer` |
| `token_endpoint` | 2 requests, 1 state, 4 kinds of offer over it, 7 bodies over 3 PINs, 2 instants, lifetime 1, a restart | `TokenBacked`: every token has a stored, unexpired offer with grant, code and PIN. `ConsistentOfferServed`: a request that does what the offer asks is never refused, if the offer has a `userPin` exactly when it asks for one; `token_pinless` is about the others. Under deletes, replacement, a cleanup and a crash: `AnsweredNonceStored`, `NoncesAccounted`, `RequestsSettle`, and `ImplementsRedemption`: a token is given on the offer that was read, at a moment at which the request redeems it |
| `issuance` | 2 calls, 2 kinds of offer, 5 kinds of request, 3 proofs, 3 nonces, a token nonce, the cleanup | `ImplementsRedemption`: a credential is issued on the offer that was read, and on the proof verified for it. `ResponseNonceStored`, `NonceOnlyPastChecks`, `CallsSettle` |
| `wallet_session` | 2 flows, 3 calls, 5 offers, 2 discoveries | `RequestOfOneResponse`, `SignedAsAsked`, `CodeRedeemedOnce`, `OverflowOnlyWithoutMetadata`, `CallsSettle` |
| `discovery` | 2 retrievals, 5 answers, 1 change | `EndpointsOfOneIssuer`, `RejectedForCause`, `CachedIsOneResult`, `RetrievalsSettle` |
| `proof_of_possession` | 2 flows, 2 JWTs (one with times of its own), 4 calls, 2 instants | `SignedIsLastTold`, `ContradictionForCause`, `FreshTimes` |
| `rest_api` | 2 pushes, 6 bodies, lifetimes of NaN, -1, 2 and 3 seconds, of which the longest delay is 2 | `KeptForLifetime` while timers of several requests run; `KeptIsRemoved`, also for lifetimes that become a millisecond |
| `offer_links` | 6 calls of the builders, 1 array, 32 options, 768 links of others over 11 values and 6 texts with reserved characters | `ReadableLinks`: what a wallet reads fits, and it reads every offer that fits, v11 ones with a code left to `offer_intact`. `LaterFieldsIntact`: every field behind another gets through; the first is left to `offer_intact`. `PassedOnPlain`: from wallet to wallet nothing changes, but for values written unescaped with reserved characters, which change. `BuiltChangesByOwnerOnly` |

One run of each module that keeps a component's state checks its type invariant;
`offer_links` and `proof_of_possession` have none, as their values are told apart by
shape and a wrong one fails the evaluation. Bounds. Two requests, calls, flows,
retrievals or pushes are enough for each property here: a property relates at most
two activities, and the environment's actions play all the others. The clock has an
instant on either side of the threshold that matters (with a `Duration` of 1 a code is
valid in the millisecond it is made in and expired in the next; in `rest_api` a
lifetime of 2 seconds is exactly the longest delay and one of 3 is beyond).
`MaxStored`, `MaxGranted`, `MaxRestarts`, `MaxTimers` and `MaxCalls` bound history
only: one replacement of an offer, one restart and one nonce of the other kind each
bring every interaction about once. One change of a document (`MaxChanges`) is enough
for a retrieval to read two that never stood together, and for two retrievals to
differ. Six calls of the builders are the four it takes to build an issuer with a
credential, and two more before or after; four calls of the proof builder set a value,
give a JWT, change it and build.
The theorems of section 4 hold without any of these bounds on the sets.

`CHECK_DEADLOCK FALSE` is set where the bounds end the run, and because an issuer
with nothing to do does stop, as does a wallet that has read its link. In `rest_api`
time always goes on, and deadlock is checked.

Fairness. `WF` of the continuation of each activity: the event loop runs the turn of
a settled promise, and the callbacks and `fetch` settle theirs, one way or the
other (no timeout exists in the code: without that assumption nothing ends). The
unhandled rejection is acted upon (`WF` of `Crash`). In the nonce manager `SF` of
the timer: it is disabled while a microtask waits, again and again, and the event
loop fires a due timer between. Nothing is assumed of wallets, the application, the
clock or a supervisor, but for the clock of `RestAPI`: timers only fire if time goes
on, and a message there arrives or is given up.

Four runs show where the code does something else than the repository's own texts
say; each checks the statement and finds it violated. Where the statement holds in
part, a passing run checks the rest of it, as the table above says.

| run | statement | what happens |
|---|---|---|
| `issuance_proof_nonce` | `ProofNonceProvided`: the nonce of a proof is a `c_nonce` of the issuer | only its presence is checked; no code reads the nonce store |
| `wallet_nonce` | `LatestNonceUsed`: a fresh `c_nonce` is used for the next request | the wallet keeps using the token's |
| `token_pinless` | `RefusedForCause`: a request that does what its offer says is not refused | an offer that asks for no PIN but has a `userPin`, which its type makes mandatory, is redeemed by no request: `IssuerTokenEndpoint.ts:167` compares the PINs all the same |
| `offer_intact` | `OffersIntact`: the wallet reads what the issuer writes, the pre-authorized code flow being the one both support, and every field comes through | of two offers neither does: the word `pre-authorized_code` makes a link one of v9, and under `openid-credential-offer` an error; of one with an issuer state, written behind `credential_offer=` without being escaped, the first key ends as that parameter's value |

Their bounds are those of the passing run of the module, or less: two
options are enough for `offer_intact`. None needs fairness.

Other divergences met while reading and modelling, without a run, since one sequence
of calls shows each:

* `getAssertedState` resolves with `undefined` if the state is removed between
  `hasState` and `getState`, where `MemoryCredentialOfferStateManager.spec.ts:52` has
  it "throw exception when state does not exist". `StateManagerContract` allows it.
* "This code MUST be short-lived and single-use" (`v1_0_09.types.ts:10`): nothing
  consumes the code, any number of requests with it get a token.
* "PIN must consist of maximum 8 numeric characters" (`OpenID4VCIErrors.ts:27`):
  `/[0-9{,8}]/` is a character class without a quantifier, and longer PINs pass.
* Both grants are optional (`Generic.types.ts:175`), and the issuer's README says only
  the pre-authorized flow is supported; `VcIssuer.ts:115` turns down an offer that
  lacks either.
* `validateJWT` looks at no proof unless the format is `jwt` or `jwt_vc`
  (`VcIssuer.ts:127`), and a `jwt` request without a proof ends as a TypeError
  (`VcIssuer.ts:128`).
* Proofs always have `typ` `JWT` (`ProofUtil.ts:100`, and `CredentialIssuance.types.ts:121`
  says so), where the issuer asks for `openid4vci-proof+jwt` (`VcIssuer.ts:140`).
* The client's README has an exp "not longer than 5 minutes" (`client/README.md:332`);
  `ProofUtil.ts` makes it ten minutes after now, and the iat one minute before.
* `CredentialSupportedBuilderV1_11.build` leaves out the types, which
  `Generic.types.ts:46` requires, and `addTypes` puts an array among the binding
  methods.
* A wallet cannot use an offer of version 11, as `getIssuerFromCredentialOfferPayload`
  never finds its issuer.
* "Since the server metadata endpoint is optional we are not going to throw an error"
  (`MetadataClient.ts:122`): a missing document with a body that is no JSON, such as
  an HTML page, is thrown as an error.
* The wallet's pushed authorization request is JSON in a form
  (`OpenID4VCIClient.ts:182`), which the REST server of this repository always
  answers with 400; a push with `authorization_details` only ends as 500; `GET
  /credential` is never answered.
* "Invalidates the request_uri removing it from the mapping after it is expired"
  (`api.ts:189`): with an `EXPIRES_IN` that is no number, not positive, or beyond 2^31 ms
  `setTimeout` takes a millisecond, and the request is gone at once.
* `convertJsonToURI` "encodes a Json object into a URI" (`Encoding.ts:4`), but for keys
  other than `issuer` and `credential_type` as they are: a code with `=`, `&`, `?` or `%`
  is another code, or none, for the wallet that reads the link.
* The default export of `api.ts`, `new RestAPI()`, throws: the issuer it builds from
  the environment has no nonce manager.

## 4. Proofs

`TokenEndpointProofs` proves, for every value of the constants that satisfies the
assumptions `TokenAssumption` and `UndefinedAssumption` (any number of requests,
states, codes, PINs and nonces, any lifetime, with and without crashes):

* `TypeCorrect`: `Spec => []TypeOK`.
* `TokensAreBacked`: `Spec => []TokenBacked`. `TokenBacked` speaks of accepted
  requests only and is not inductive: the step that accepts one needs to know that
  the offer it looked up earlier was stored. `BackedInv` adds that everything in the
  store, and every offer a request carries, is in the history `stored` and was
  created no later than now. From there `Accept` has the checks at hand, and every
  other step leaves an accepted request's fields alone.
* `AnsweredNoncesAreStored` and `StoredNoncesAreAccounted`: `AnsweredNonceStored` and
  `NoncesAccounted`. They support each other through `NonceInv`: an accepted request's
  nonce is in `minted`, so a new one differs from it and no other request's `SaveNonce`
  overwrites its entry; a request that is past `SaveNonce` has its nonce in the store with
  its own time, or a cleanup did take it, until the process ends; whatever is in the
  store belongs to a request past `SaveNonce`. A stopped process has an empty store.
* `ConsistentOffersAreServed`: `Spec => []ConsistentOfferServed`. A refused request keeps
  the check that failed and the time of the check, so the property needs only that every
  refusal came of a check of `Fails` that held of the request's own offer and body. For
  offers whose PIN does not agree with what they ask it is false (`token_pinless`).

`VcIssuerProofs` does the same for the issuer, from `IssuerAssumption` and
`UndefinedIsNoValue` (any number of calls, offers, proofs and nonces, any
configuration of callbacks and formats):

* `IssuerTypeCorrect`: `Spec => []TypeOK`.
* `IssuedOnlyOnOffer`: `Spec => []IssuedOnOffer`. No run checks `IssuedOnOffer`: it
  follows from `ImplementsRedemption`, which one does, and the refinement needs its
  strengthening, `IssueInv`. That adds what each step has established of a call on its
  way (`CallSound`): from the lookup on its offer is in the history `stored`, from
  the check of the grants on it has both, and from the proof on the format is
  supported and the proof stands. It keeps what the call read, not what the store
  holds: the offer may be replaced or deleted while a callback is awaited.
  That everything in the store is in `stored` (`OffersStored`) is what the lookup
  needs. The types are part of `IssueInv` because a c_nonce brought by the caller
  is a uuid only by `CallSound`.

It goes on with `ResponseNoncesAreStored` and `NoncesArePastChecks`. The nonce a call
has stored may be overwritten by another call that brings the same one, so the invariant
does not say that the entry is the call's own, but that one is there no older than the
call's, or that a cleanup took one that was no older.

`WalletClientProofs`, from `WalletAssumption` and `WalletUndefined` (any number of
flows, offers, keys and documents):

* `WalletTypeCorrect`, `RequestsAreOfOneResponse`, `ProofsAreSignedAsAsked`,
  `OverflowsLackMetadata`: `CallSound` says of one call at each of its
  awaits what its request was made of. It speaks of the call and of what only grows
  (the responses received), so another flow's step leaves it alone; no step ever
  takes cached metadata away.
* `CodeIsRedeemedOnce`: the client has its cached response from the first answer on,
  so two answers were both asked for before the first one came; `OnceInv` relates
  `overlapped` to the flows that are requesting.

`MetadataDiscoveryProofs`, from `DiscoveryAssumption`: `DiscoveryTypeCorrect`,
`EndpointsAreOfOneIssuer`, `RejectionsHaveCause`, `CacheIsOneResult`. `Waiting` is
the strengthening: a retrieval at one of the issuer's own documents has found nothing
yet, and one at the authorization server's came from an issuer's document that named
it. It speaks of what was read, not of what is published, so changes do not matter.

`ProofOfPossessionProofs`, from `ProofAssumption`: `ProofsCarryWhatWasTold`,
`NewJwtIsNoContradiction`, `TimesAreFresh`. `BuilderIsTold` says that an option is
what the builder was told last, and `JwtAgrees` that the JWT's claim is, unless the
claim is in `after`; the times of the application's JWTs never change (`OwnTimesStay`).

`RestAPIProofs`, from `RestAssumption`: `RestTypeCorrect`, `RequestsAreKept`. What a
timer has left and the age of its request always make up the lifetime
(`TimersInTime`), so no timer is due before. That is so for the lifetimes `setTimeout`
can wait; for others it is false (section 3).

Both modules end with the refinement of `OfferRedemption`: `TokensImplementRedemption`
and `CredentialsImplementRedemption`, `Spec => ImplementsRedemption`. Each action maps
to one step of the abstract request or to none; `Accept` and `CallIssuer` map to
`Grant`. Its guard is where an invariant is needed: the checks hold of the present
moment, but that the offer read earlier is not younger than that is `BackedInv`'s, and
that the proof still stands for the offer the call holds is `IssueInv`'s. What redeems
an offer (`RedeemableByToken`, `RedeemableByCredential`) is given to the abstract
specification as a constant operator.

`MemoryCNonceStateManagerProofs`, from the assumptions of both managers, for any
number of keys, callers, instants and timers: `ManagerTypeCorrect`,
`EveryTimerIsReached`, and `ManagerImplementsContract` with
`OfferManagerImplementsContract`, the refinement of `StateManagerContract` with and
without the cleanup. A view of a call is decided by its own record (`View`), so all
methods of other callers map to `Mutate`, and `ResumeAfterHas` and `ResumeAfterGet` to
the three outcomes. `EveryTimerIsReached` needs no more than that the id, once set, is
kept: there never is a second timer.

`OfferLinksProofs`, from `BuildersAssumption` and `LinksAssumption`:

* `BuiltIsChangedByOwnerOnly`, for any number of arrays, credentials and calls. The
  types of the lists are what it needs: a list is one array or none, so one `Push`
  changes the content of those lists only.
* `LinksAreReadable`, `FieldsComeThrough`, `PassingOnKeeps`, for any offers, with any
  number of fields and values, and any links of others. `LinksOK`, the invariant, says
  by whom the link is written and that the wallet's reading is of that link; the rest
  is about the definitions. `FlattenSeq` is a recursive function chosen by its
  equation, so `FlattenHasTrace` shows, by induction on the number of sequences taken
  as a set of numbers, that there is such a function, and the lemmas that follow give
  what it returns. From them come the facts the theorems need of the entries of one
  key (`EntriesOfKeyed`: of sequences of one key each, those of a key are its own),
  of the first entry, whose key ends as the value of `credential_offer`
  (`PrefixedEntries`), and of an array of types written as several entries and read as
  one array again (`WrittenEntries`).

`LinksAssumption` says of an offer that it is one of the two types of
`CredentialOfferPayload`, that some field has a value, and that no value contains a
word that tells the wallet of a field the offer does not have (a URL in `issuer` may
say "issuer"). Without the latter `ReadableLinks` is false: the wallet looks for the
words anywhere in the text, and an `op_state` with the text "credentialSubject" makes
a link unreadable. Of another issuer's link it says that its values are texts. Nothing is
assumed of what a reader finds where a value with reserved characters stands unescaped
but that they are texts too: `PassingOnKeeps` is about links without such values, and for
values under the keys that `toURI` does escape, whatever is in them.

The proofs have one step per action. `Become` gives all actions on a request or a
call the same shape, so what a change of one record does to the invariant is a
lemma over an arbitrary new record, and each action cites it with its own.

Only model-checked are the properties that depend on fairness, which the provers do
not handle: `CleanupCollects`, `RequestsSettle`, `CallsSettle` of the issuer and of the
wallet, `RetrievalsSettle` and `KeptIsRemoved`. Every invariant and every refinement that a run checks is proved.

## 5. Not modelled

* The token server: wiring of express around the router of `TokenEndpoint`.
* The builder of authorization details: one record. `withLocations` keeps the caller's
  array and `handleLocations` pushes the issuer into it, once more at each call, but
  no code of the repository reads it again.
* `CredentialOfferStateBuilder` (two setters and a check), the displays of an issuer,
  and the setters of `CredentialRequestClientBuilderV1_0_09`, one assignment each.
* `/metadata` and `/token` of the REST API, which read or touch no state, headers, the
  characters `isValidURL` accepts, JWT signatures, credential contents.
* The types, which declare what the code is compared with, and the example callbacks.

`PROJECT.json` gives the reason per part.

## 6. What could follow

1. `IssuanceFlow`: token endpoint, issuer and cleanup on one pair of stores with the
   lifetime told to the wallet, driven by the wallet of `WalletClient`: is a wallet's
   nonce still known when it uses it. No code reads a stored nonce so far, so this
   waits for the check of a proof's nonce (`issuance_proof_nonce`).
2. `MetadataDiscovery` in place of `Published` in `WalletClient`.
3. The safety that the liveness properties rest on, as theorems: for instance that a
   request which is neither refused nor answered always has a step that takes it on,
   as a formula over states.
