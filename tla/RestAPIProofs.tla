----------------------------- MODULE RestAPIProofs -----------------------------
(***************************************************************************)
(* Proofs about RestAPI: its types, and that an accepted request is kept   *)
(* for the lifetime its client was told.  The invariant that makes the     *)
(* latter inductive is TimersInTime: what a timer has left and the age of  *)
(* its request make up the lifetime.                                       *)
(***************************************************************************)
EXTENDS RestAPI, TLAPS

\* Nothing is answered before it was handled.
UnansweredFirst == \A p \in Pushes : push[p].pc \in {"unsent", "sent"} => push[p].status = 0

\* No timer is due before the lifetime of its request is over.
TimersInTime ==
    \A t \in timers :
        /\ Accepted(t.of)
        /\ DelayLegal(expiresIn) => t.left + age[t.of] >= expiresIn * Second

Inv == TypeOK /\ UnansweredFirst /\ TimersInTime /\ KeptForLifetime

\* The delay of a timer is one setTimeout knows.
LEMMA DelayType ==
    ASSUME NEW lifetime \in Lifetimes
    PROVE  /\ Delay(lifetime) \in 0 .. MaxDelay
           /\ DelayLegal(lifetime) => /\ Delay(lifetime) = lifetime * Second
                                      /\ lifetime * Second \in Nat
                                      /\ lifetime * Second <= MaxDelay
<1>1. CASE DelayLegal(lifetime)
  <2>1. lifetime \in Int /\ lifetime >= 1 /\ lifetime * Second <= MaxDelay
    BY <1>1, RestAssumption DEF DelayLegal
  <2>2. Second \in Nat /\ MaxDelay \in Nat
    BY RestAssumption
  <2>3. lifetime * Second \in Nat
    BY <2>1, <2>2
  <2> QED BY <1>1, <2>1, <2>2, <2>3 DEF Delay
<1>2. CASE ~DelayLegal(lifetime)
  BY <1>2, RestAssumption DEF Delay
<1> QED BY <1>1, <1>2

\* What a client may ask is a body, and every body has a status.
LEMMA ParStatusType == \A body : ParStatus(body) \in {201, 400, 500}
BY DEF ParStatus

LEMMA InitInv == Init => Inv
<1> SUFFICES ASSUME Init PROVE Inv
  OBVIOUS
<1>1. NoPush \in PushState /\ 0 \in 0 .. MaxDelay
  BY RestAssumption DEF NoPush, PushState, Progress, MaybeBody, Statuses
<1>2. TypeOK
  BY <1>1 DEF Init, TypeOK
<1>3. UnansweredFirst /\ TimersInTime
  BY DEF Init, UnansweredFirst, TimersInTime, NoPush
<1>4. KeptForLifetime
  BY DEF Init, KeptForLifetime, Accepted, NoPush
<1> QED BY <1>2, <1>3, <1>4 DEF Inv

\* A push keeps its type through the fields a step sets.
LEMMA MovedIsTyped ==
    ASSUME NEW q \in PushState, NEW pc \in Progress
    PROVE  [q EXCEPT !.pc = pc] \in PushState
  BY DEF PushState

LEMMA SentIsTyped ==
    ASSUME NEW q \in PushState, NEW body \in MaybeBody
    PROVE  [q EXCEPT !.pc = "sent", !.body = body] \in PushState
  BY DEF PushState, Progress

LEMMA AnsweredIsTyped ==
    ASSUME NEW q \in PushState, NEW status \in Statuses
    PROVE  [q EXCEPT !.pc = "answered", !.status = status] \in PushState
  BY DEF PushState, Progress

\* A step that only moves a push on, and answers none, keeps everything.
LEMMA MovePush ==
    ASSUME Inv, NEW p \in Pushes, NEW q \in PushState,
           q.status = push[p].status,
           q.pc \in {"unsent", "sent"} => push[p].pc = "unsent",
           push' = [push EXCEPT ![p] = q],
           UNCHANGED <<server, age>>
    PROVE  Inv'
<1> USE DEF Inv, server
<1>1. TypeOK'
  BY DEF TypeOK
<1>2. \A r \in Pushes : push'[r].status = push[r].status
  BY DEF TypeOK
<1>3. UnansweredFirst'
  BY DEF TypeOK, UnansweredFirst
<1>4. TimersInTime'
  BY <1>2 DEF TypeOK, TimersInTime, Accepted, DelayLegal
<1>5. KeptForLifetime'
  BY <1>2 DEF KeptForLifetime, Accepted, DelayLegal
<1> QED BY <1>1, <1>3, <1>4, <1>5

\* The handler answers a push and, if it accepts it, sets its timer.
LEMMA EndpointInv ==
    ASSUME Inv, NEW p \in Pushes, PushedAuthorizationEndpoint(p)
    PROVE  Inv'
<1> DEFINE accepted == ParStatus(push[p].body) = 201
           timer == [of |-> p, left |-> Delay(expiresIn)]
<1> USE DEF Inv
<1>1. /\ push[p].pc = "sent" /\ expiresIn' = expiresIn
      /\ push' = [push EXCEPT ![p].pc = "answered", ![p].status = ParStatus(push[p].body)]
      /\ age' = [age EXCEPT ![p] = 0]
      /\ accepted => /\ authRequestsData' = authRequestsData \cup {p}
                     /\ timers' = timers \cup {timer}
      /\ ~accepted => authRequestsData' = authRequestsData /\ timers' = timers
  BY DEF PushedAuthorizationEndpoint, Answer
<1>2. expiresIn \in Lifetimes /\ ParStatus(push[p].body) \in {201, 400, 500}
  BY ParStatusType DEF TypeOK
<1>3. timer \in [of : Pushes, left : 0 .. MaxDelay]
  BY <1>2, DelayType
<1>4. TypeOK'
  <2>1. 0 \in 0 .. MaxDelay
    BY RestAssumption
  <2> DEFINE q == [push[p] EXCEPT !.pc = "answered", !.status = ParStatus(push[p].body)]
  <2>2. push[p] \in PushState /\ ParStatus(push[p].body) \in Statuses
    BY <1>2 DEF TypeOK, Statuses
  <2>3. q \in PushState
    BY <2>2, AnsweredIsTyped
  <2>4. push' = [push EXCEPT ![p] = q]
    BY <1>1
  <2>5. push' \in [Pushes -> PushState]
    BY <2>3, <2>4 DEF TypeOK
  <2> QED BY <1>1, <1>2, <1>3, <2>1, <2>5 DEF TypeOK
<1>5. UnansweredFirst'
  BY <1>1 DEF TypeOK, UnansweredFirst
<1>6. \A t \in timers : t.of \in Pushes /\ t.of # p
  BY <1>1 DEF TypeOK, UnansweredFirst, TimersInTime, Accepted
<1>7. \A q \in Pushes \ {p} : push'[q] = push[q] /\ age'[q] = age[q]
  BY <1>1 DEF TypeOK
<1>8. push'[p].status = ParStatus(push[p].body) /\ age'[p] = 0
  BY <1>1 DEF TypeOK
<1>9. TimersInTime'
  <2> SUFFICES ASSUME NEW t \in timers'
               PROVE  /\ Accepted(t.of)'
                      /\ DelayLegal(expiresIn) => t.left + age'[t.of] >= expiresIn * Second
    BY <1>1 DEF TimersInTime, DelayLegal
  <2>1. CASE t \in timers
    BY <2>1, <1>6, <1>7 DEF TimersInTime, Accepted
  <2>2. CASE t \notin timers
    <3>1. accepted /\ t.of = p /\ t.left = Delay(expiresIn)
      BY <2>2, <1>1
    <3>2. DelayLegal(expiresIn) => t.left = expiresIn * Second /\ expiresIn * Second \in Nat
      BY <3>1, <1>2, DelayType
    <3> QED BY <3>1, <3>2, <1>8 DEF Accepted
  <2> QED BY <2>1, <2>2
<1>10. KeptForLifetime'
  <2> SUFFICES ASSUME NEW q \in Pushes, Accepted(q)', DelayLegal(expiresIn),
                      age'[q] < expiresIn * Second
               PROVE  q \in authRequestsData'
    BY <1>1 DEF KeptForLifetime, DelayLegal
  <2>1. CASE q = p
    BY <1>1, <1>8, <2>1 DEF Accepted
  <2>2. CASE q # p
    <3>1. Accepted(q) /\ age[q] < expiresIn * Second
      BY <1>7, <2>2 DEF Accepted
    <3>2. q \in authRequestsData
      BY <3>1 DEF KeptForLifetime
    <3> QED BY <1>1, <3>2
  <2> QED BY <2>1, <2>2
<1> QED BY <1>4, <1>5, <1>9, <1>10

\* A timer that is due has outlived its request's lifetime.
LEMMA ExpireInv ==
    ASSUME Inv, NEW t \in timers, Expire(t)
    PROVE  Inv'
<1> USE DEF Inv
<1>1. /\ t.left = 0 /\ timers' = timers \ {t} /\ authRequestsData' = authRequestsData \ {t.of}
      /\ UNCHANGED <<expiresIn, push, age>>
  BY DEF Expire
<1>2. TypeOK' /\ UnansweredFirst'
  BY <1>1 DEF TypeOK, UnansweredFirst
<1>3. TimersInTime'
  BY <1>1 DEF TimersInTime, Accepted, DelayLegal
<1>4. KeptForLifetime'
  <2> SUFFICES ASSUME NEW p \in Pushes, Accepted(p), DelayLegal(expiresIn),
                      age[p] < expiresIn * Second
               PROVE  p \in authRequestsData'
    BY <1>1 DEF KeptForLifetime, Accepted, DelayLegal
  <2>1. p \in authRequestsData
    BY DEF KeptForLifetime
  <2>2. p # t.of
    <3>1. expiresIn * Second \in Nat /\ age[t.of] \in Nat
      BY DelayType, RestAssumption DEF TypeOK
    <3> QED BY <1>1, <3>1 DEF TimersInTime, TypeOK
  <2> QED BY <1>1, <2>1, <2>2
<1> QED BY <1>2, <1>3, <1>4

\* What a timer loses its request gains, or has already.
LEMMA TickInv ==
    ASSUME Inv, Tick
    PROVE  Inv'
<1> DEFINE Older(p) == IF age[p] = MaxDelay THEN MaxDelay ELSE age[p] + 1
           Later(t) == [t EXCEPT !.left = IF @ = 0 THEN 0 ELSE @ - 1]
<1> USE DEF Inv
<1>1. /\ timers' = {Later(t) : t \in timers} /\ age' = [p \in Pushes |-> Older(p)]
      /\ UNCHANGED <<expiresIn, authRequestsData, push>>
  BY DEF Tick
<1>2. MaxDelay \in Nat /\ age \in [Pushes -> 0 .. MaxDelay] /\ expiresIn \in Lifetimes
  BY RestAssumption DEF TypeOK
<1>3. \A p \in Pushes : age'[p] \in 0 .. MaxDelay /\ age'[p] >= age[p]
  BY <1>1, <1>2
<1>4. \A t \in timers : /\ Later(t) \in [of : Pushes, left : 0 .. MaxDelay]
                        /\ Later(t).of = t.of /\ t.of \in Pushes /\ t.left \in 0 .. MaxDelay
                        /\ Later(t).left = IF t.left = 0 THEN 0 ELSE t.left - 1
  BY <1>2 DEF TypeOK
<1>5. TypeOK'
  BY <1>1, <1>2, <1>3, <1>4 DEF TypeOK
<1>6. UnansweredFirst'
  BY <1>1 DEF UnansweredFirst
<1>7. TimersInTime'
  <2> SUFFICES ASSUME NEW t \in timers
               PROVE  /\ Accepted(t.of)
                      /\ DelayLegal(expiresIn) =>
                            Later(t).left + age'[t.of] >= expiresIn * Second
    BY <1>1, <1>4 DEF TimersInTime, Accepted, DelayLegal
  <2>1. Accepted(t.of)
    BY DEF TimersInTime
  <2>2. ASSUME DelayLegal(expiresIn)
        PROVE  Later(t).left + age'[t.of] >= expiresIn * Second
    <3> DEFINE lifetime == expiresIn * Second
    <3>1. lifetime \in Nat /\ lifetime <= MaxDelay
      BY <2>2, <1>2, DelayType
    <3>2. t.left + age[t.of] >= lifetime
      BY <2>2 DEF TimersInTime
    <3>3. age'[t.of] = Older(t.of) /\ age[t.of] \in 0 .. MaxDelay
      BY <1>1, <1>2, <1>4
    <3> DEFINE left == t.left
               old == age[t.of]
    <3>4. /\ left \in 0 .. MaxDelay /\ old \in 0 .. MaxDelay
          /\ Later(t).left = IF left = 0 THEN 0 ELSE left - 1
          /\ age'[t.of] = IF old = MaxDelay THEN MaxDelay ELSE old + 1
      BY <1>4, <3>3
    <3>5. left + old >= lifetime
      BY <3>2
    <3> HIDE DEF lifetime, left, old, Later
    <3>6. Later(t).left + age'[t.of] >= lifetime
      BY <1>2, <3>1, <3>4, <3>5
    <3> QED BY <3>6 DEF lifetime, Later
  <2> QED BY <2>1, <2>2
<1>8. KeptForLifetime'
  <2> SUFFICES ASSUME NEW p \in Pushes, Accepted(p), DelayLegal(expiresIn),
                      age'[p] < expiresIn * Second
               PROVE  p \in authRequestsData
    BY <1>1 DEF KeptForLifetime, Accepted, DelayLegal
  <2>1. expiresIn * Second \in Nat
    BY <1>2, DelayType
  <2>2. age[p] < expiresIn * Second
    BY <1>2, <1>3, <2>1
  <2> QED BY <2>2 DEF KeptForLifetime
<1> QED BY <1>5, <1>6, <1>7, <1>8

LEMMA NextInv == Inv /\ [Next]_vars => Inv'
<1> SUFFICES ASSUME Inv, [Next]_vars PROVE Inv'
  OBVIOUS
<1>1. ASSUME NEW p \in Pushes, NEW body \in Body, push[p].pc = "unsent", Send(p, body),
             UNCHANGED <<server, age>>
      PROVE  Inv'
  <2> DEFINE q == [push[p] EXCEPT !.pc = "sent", !.body = body]
  <2>1. q \in PushState
    BY SentIsTyped DEF Inv, TypeOK, MaybeBody
  <2>2. q.pc = "sent" /\ q.status = push[p].status
    BY DEF Inv, TypeOK, PushState
  <2>3. push' = [push EXCEPT ![p] = q]
    BY <1>1 DEF Send
  <2> HIDE DEF q
  <2> QED BY <1>1, <2>1, <2>2, <2>3, MovePush
<1>2. ASSUME NEW p \in Pushes, NEW pc \in {"received", "lost", "open", "thrown"},
             push' = [push EXCEPT ![p].pc = pc], UNCHANGED <<server, age>>
      PROVE  Inv'
  <2> DEFINE q == [push[p] EXCEPT !.pc = pc]
  <2>1. q \in PushState
    BY MovedIsTyped DEF Inv, TypeOK, Progress
  <2>2. q.pc = pc /\ q.status = push[p].status
    BY DEF Inv, TypeOK, PushState
  <2>3. push' = [push EXCEPT ![p] = q]
    BY <1>2
  <2> HIDE DEF q
  <2> QED BY <1>2, <2>1, <2>2, <2>3, MovePush
<1>3. ASSUME NEW p \in Pushes, NEW body \in Bodies, PushForm(p, body) PROVE Inv'
  BY <1>1, <1>3, RestAssumption DEF PushForm
<1>4. ASSUME NEW p \in Pushes, ReceiveAnswer(p) \/ Lose(p) \/ CredentialEndpoint(p)
      PROVE  Inv'
  BY <1>2, <1>4 DEF ReceiveAnswer, Lose, CredentialEndpoint
<1>5. ASSUME NEW p \in Pushes, NEW ask \in Asks, AcquirePushedAuthorizationRequestURI(p, ask)
      PROVE  Inv'
  <2>1. WalletBody \in Body
    BY DEF WalletBody, Body, Scopes
  <2> QED BY <1>1, <1>2, <1>5, <2>1 DEF AcquirePushedAuthorizationRequestURI
<1>6. ASSUME NEW p \in Pushes, PushedAuthorizationEndpoint(p) PROVE Inv'
  BY <1>6, EndpointInv
<1>7. ASSUME NEW t \in timers, Expire(t) PROVE Inv'
  BY <1>7, ExpireInv
<1>8. CASE Tick
  BY <1>8, TickInv
<1>9. CASE UNCHANGED vars
  BY <1>9 DEF Inv, vars, server, TypeOK, UnansweredFirst, TimersInTime, KeptForLifetime,
              Accepted, DelayLegal
<1> QED BY <1>3, <1>4, <1>5, <1>6, <1>7, <1>8, <1>9 DEF Next, Continue

\* Every variable of the server keeps its type, and no handler, timer or client
\* takes it elsewhere (issuer-rest/lib/api.ts).
THEOREM RestTypeCorrect == Spec => []TypeOK
<1>1. Inv => TypeOK
  BY DEF Inv
<1> QED BY InitInv, NextInv, <1>1, PTL DEF Spec

\* An accepted pushed request is kept for the lifetime its client was told, if it
\* is one that setTimeout can wait, whatever the number of requests and the order
\* in which their timers are set and fire (the /par handler).
THEOREM RequestsAreKept == Spec => []KeptForLifetime
<1>1. Inv => KeptForLifetime
  BY DEF Inv
<1> QED BY InitInv, NextInv, <1>1, PTL DEF Spec
=============================================================================
