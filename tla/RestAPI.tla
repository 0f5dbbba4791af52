-------------------------------- MODULE RestAPI --------------------------------
(***************************************************************************)
(* The issuer's REST server (issuer-rest/lib/api.ts) and what wallets do   *)
(* with it: pushed authorization requests, which it keeps until a timer    *)
(* removes them, and requests for a credential, which it never answers.    *)
(* The handlers run in one turn each.  A push is at                        *)
(*                                                                         *)
(*   sent       it is on its way to the server                             *)
(*   answered   the server has handled it, the answer is on its way        *)
(*   received   the client has the answer                                  *)
(*   lost       the client's fetch was rejected, before or after the       *)
(*              server handled the request                                 *)
(*   thrown     the wallet's client refused to send it                     *)
(*   open       GET /credential: the server never answers                  *)
(*                                                                         *)
(* The server object is one made with the options of its constructor.  The *)
(* module's own, which api.ts makes without options when it is imported,   *)
(* throws instead: VcIssuerBuilder.build refuses what                      *)
(* buildVCIFromEnvironment gives it.                                       *)
(***************************************************************************)
EXTENDS Integers

CONSTANTS
    Undefined,   \* JavaScript's undefined
    Pushes,      \* the pushed authorization requests, and requests for a credential
    Bodies,      \* bodies clients send to /par, but for the wallet of this repository
    Asks,        \* what callers ask the wallet to push
    Lifetimes,   \* what parseInt may make of EXPIRES_IN; NaN is Undefined
    Second,      \* the ticks of the clock in a second
    MaxDelay     \* the longest delay of setTimeout, 2^31 - 1 ms, in ticks

\* What /par tells apart in a body: the required parameters, the presence of
\* authorization_details, a redirect_uri that matches, and the scope: absent,
\* registered scopes with commas between them, with blanks between them, others,
\* or the parameter given twice, which makes it an array.
Scopes == {"absent", "commas", "blanks", "unregistered", "array"}
Body == [required : BOOLEAN, details : BOOLEAN, redirect : BOOLEAN, scope : Scopes]

\* What a caller gives acquirePushedAuthorizationRequestURI, and whether the
\* issuer's metadata names the endpoint.
Ask == [scope : BOOLEAN, details : BOOLEAN, endpoint : BOOLEAN]

ASSUME RestAssumption ==
    /\ Bodies \subseteq Body
    /\ Asks \subseteq Ask
    /\ Lifetimes \subseteq Int \cup {Undefined}
    /\ Second \in Nat \ {0} /\ MaxDelay \in Nat \ {0}
    /\ Undefined \notin Body /\ Undefined \notin Ask

VARIABLES
    expiresIn,         \* the constant of the server's module
    authRequestsData,  \* the kept requests, a set: a request URI is told by its push
    timers,            \* the pending timers: which request they remove, in how many ticks
    push,              \* the progress of every push
    age                \* history: the ticks since the server handled it, up to MaxDelay

server == <<expiresIn, authRequestsData, timers>>
vars == <<server, push, age>>

\* Mutant of NoPush: a field without a first value.
UnsetPush == [pc |-> "unsent", body |-> Undefined, status |-> Undefined]

NoPush == [pc |-> "unsent", body |-> Undefined, status |-> 0]

Progress == {"unsent", "sent", "answered", "received", "lost", "thrown", "open"}
MaybeBody == Body \cup {Undefined}
Statuses == {0, 201, 400, 500}
PushState == [pc : Progress, body : MaybeBody, status : Statuses]

TypeOK ==
    /\ expiresIn \in Lifetimes
    /\ authRequestsData \subseteq Pushes
    /\ timers \subseteq [of : Pushes, left : 0 .. MaxDelay]
    /\ push \in [Pushes -> PushState]
    /\ age \in [Pushes -> 0 .. MaxDelay]

Init ==
    /\ expiresIn \in Lifetimes
    /\ authRequestsData = {} /\ timers = {}
    /\ push = [p \in Pushes |-> NoPush]
    /\ age = [p \in Pushes |-> 0]
-----------------------------------------------------------------------------
\* Clients.

Send(p, body) == push' = [push EXCEPT ![p].pc = "sent", ![p].body = body]

\* Any client pushes a form.
PushForm(p, body) ==
    /\ push[p].pc = "unsent"
    /\ Send(p, body)
    /\ UNCHANGED <<server, age>>

\* The wallet's client writes its request as JSON and posts it as a form: the
\* parser of the server sees one parameter, whose name is the JSON text.
WalletBody == [required |-> FALSE, details |-> FALSE, redirect |-> FALSE, scope |-> "absent"]

AcquirePushedAuthorizationRequestURI(p, ask) ==
    /\ push[p].pc = "unsent"
    /\ IF (ask.scope \/ ask.details) /\ ask.endpoint THEN Send(p, WalletBody)
       ELSE push' = [push EXCEPT ![p].pc = "thrown"]
    /\ UNCHANGED <<server, age>>

\* The answer arrives.
ReceiveAnswer(p) ==
    /\ push[p].pc = "answered"
    /\ push' = [push EXCEPT ![p].pc = "received"]
    /\ UNCHANGED <<server, age>>

\* The request or its answer does not arrive, and fetch is rejected.  The caller
\* may push again.
Lose(p) ==
    /\ push[p].pc \in {"sent", "answered"}
    /\ push' = [push EXCEPT ![p].pc = "lost"]
    /\ UNCHANGED <<server, age>>
-----------------------------------------------------------------------------
\* POST /par.

\* validateRequestBody over the required and the conditional parameters.
ValidRequestBody(body) == body.required /\ (body.details \/ body.scope # "absent")

\* The handler calls split of the scope without asking whether there is one; the
\* error ends as status 500.
ParStatus(body) ==
    CASE ~ValidRequestBody(body) \/ ~body.redirect -> 400
      [] OTHER -> CASE body.scope \in {"absent", "array"} -> 500
                    [] body.scope = "commas"              -> 201
                    [] OTHER                              -> 400

\* Mutant of Delay: the lifetime is taken for milliseconds.
DelayUnscaled(lifetime) == IF lifetime = Undefined \/ lifetime < 1 THEN 1 ELSE lifetime

\* setTimeout(lifetime * 1000): a delay that is no number, below 1 ms or too
\* long becomes 1 ms.
DelayLegal(lifetime) == /\ lifetime # Undefined
                        /\ lifetime >= 1 /\ lifetime * Second <= MaxDelay
Delay(lifetime) == IF DelayLegal(lifetime) THEN lifetime * Second ELSE 0

Answer(p) == /\ push' = [push EXCEPT ![p].pc = "answered",
                                     ![p].status = ParStatus(push[p].body)]
             /\ age' = [age EXCEPT ![p] = 0]

\* Mutant of PushedAuthorizationEndpoint: no timer is set if one is pending.
PushSharingTimer(p) ==
    /\ push[p].pc = "sent"
    /\ Answer(p)
    /\ IF ParStatus(push[p].body) = 201
       THEN /\ authRequestsData' = authRequestsData \cup {p}
            /\ timers' = IF timers = {} THEN {[of |-> p, left |-> Delay(expiresIn)]} ELSE timers
       ELSE UNCHANGED <<authRequestsData, timers>>
    /\ UNCHANGED expiresIn

\* An accepted request is kept under a new request URI, with its timer.
PushedAuthorizationEndpoint(p) ==
    /\ push[p].pc = "sent"
    /\ Answer(p)
    /\ IF ParStatus(push[p].body) = 201
       THEN /\ authRequestsData' = authRequestsData \cup {p}
            /\ timers' = timers \cup {[of |-> p, left |-> Delay(expiresIn)]}
       ELSE UNCHANGED <<authRequestsData, timers>>
    /\ UNCHANGED expiresIn

\* The timer's callback, no earlier than it is due.
Expire(t) ==
    /\ t \in timers /\ t.left = 0
    /\ timers' = timers \ {t}
    /\ authRequestsData' = authRequestsData \ {t.of}
    /\ UNCHANGED <<expiresIn, push, age>>

Tick ==
    /\ timers' = {[t EXCEPT !.left = IF @ = 0 THEN 0 ELSE @ - 1] : t \in timers}
    /\ age' = [p \in Pushes |-> IF age[p] = MaxDelay THEN MaxDelay ELSE age[p] + 1]
    /\ UNCHANGED <<expiresIn, authRequestsData, push>>

\* GET /credential: body-parser gives every request a body, so the handler does
\* nothing and nobody answers.
CredentialEndpoint(p) ==
    /\ push[p].pc = "unsent"
    /\ push' = [push EXCEPT ![p].pc = "open"]
    /\ UNCHANGED <<server, age>>
-----------------------------------------------------------------------------
Continue(p) == PushedAuthorizationEndpoint(p) \/ ReceiveAnswer(p) \/ Lose(p)

Next ==
    \/ \E p \in Pushes :
          \/ Continue(p) \/ CredentialEndpoint(p)
          \/ \E body \in Bodies : PushForm(p, body)
          \/ \E ask \in Asks : AcquirePushedAuthorizationRequestURI(p, ask)
    \/ \E t \in timers : Expire(t)
    \/ Tick

\* A message arrives or is given up, time goes on, and the event loop runs a
\* timer that is due.
Fairness ==
    /\ \A p \in Pushes : WF_vars(Continue(p)) /\ WF_vars(\E t \in timers : t.of = p /\ Expire(t))
    /\ WF_vars(Tick)

Spec == Init /\ [][Next]_vars /\ Fairness
-----------------------------------------------------------------------------
Accepted(p) == push[p].status = 201

\* A request URI is good for as long as its client was told, if that is a time
\* setTimeout can wait: the request is kept until then, however the timers of
\* other requests are set and fire (the /par handler).
KeptForLifetime ==
    \A p \in Pushes :
        Accepted(p) /\ DelayLegal(expiresIn) /\ age[p] < expiresIn * Second
            => p \in authRequestsData

\* An accepted request does not stay for ever.
KeptIsRemoved == \A p \in Pushes : p \in authRequestsData ~> p \notin authRequestsData
================================================================================
