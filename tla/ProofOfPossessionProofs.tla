------------------------ MODULE ProofOfPossessionProofs ------------------------
(***************************************************************************)
(* Proofs about ProofOfPossession: what a proof carries, when the builder  *)
(* finds a contradiction, and the times of a proof.  Each property looks   *)
(* at requests, and follows from what holds of the builder when it signs:  *)
(* its options are what it was told last (BuilderIsTold), they agree with  *)
(* its JWT but for what was set or changed since (JwtAgrees), and no step  *)
(* gives a JWT a time (OwnTimesStay).                                      *)
(***************************************************************************)
EXTENDS ProofOfPossession, TLAPS

\* The types of what the steps write into.
Value == UNION {ValuesOf[c] : c \in Claim}
AnyValue == Value \cup {Undefined}
ClaimMap == [Claim -> AnyValue]
JwtRef == Jwts \cup {Undefined}
Time == Nat \cup {Undefined}
JwtState == [claims : ClaimMap, iat : Time]
BuilderState == [base : {"callbacks", "proof", "nothing"}, callbacks : Callbacks,
                 options : ClaimMap, jwt : JwtRef]
SignedMap == [Claim -> AnyValue \cup {"ES256"}]
MaybeSigned == SignedMap \cup {Undefined}
MaybeTold == ClaimMap \cup {Undefined}
Sets == SUBSET Claim
Progress == {"idle", "signing", "verifying", "sending", "resolved", "rejected"}
Errors == {"none", "CONTRADICTION", "MISSING", "BAD_PARAMS", "PROOF_CANT_BE_CONSTRUCTED",
           "SIGN_CALLBACK", "JWS_NOT_VALID", "URL_NOT_VALID", "FETCH"}
MaybeClaim == Claim \cup {"none"}
RequestState == [pc : Progress, claims : MaybeSigned, iat : Time, jwt : JwtRef, at : Nat,
                 told : MaybeTold, after : Sets, error : Errors, claim : MaybeClaim]

Types == /\ jwts \in [Jwts -> JwtState]
         /\ builder \in BuilderState
         /\ request \in [Flows -> RequestState]
         /\ now \in Nat
         /\ told \in ClaimMap
         /\ after \in Sets

\* The builder's options are what it was told.
BuilderIsTold == \A c \in Claim : builder.options[c] = told[c]

\* A JWT and the options disagree only on what was told or changed since the
\* builder got it.
JwtAgrees ==
    \A c \in Claim \ after : JwtProperty(c) # Undefined => told[c] = JwtProperty(c)

OwnTimesStay == \A j \in Jwts : jwts[j].iat = OwnTimes[j]

\* The three properties, of one request.
Sound(q) ==
    /\ q.claims # Undefined =>
          /\ \A c \in Claim : q.told[c] # Undefined => q.claims[c] = q.told[c]
          /\ (q.jwt # Undefined => OwnTimes[q.jwt] = Undefined) => q.iat = q.at
    /\ q.error = "CONTRADICTION" => q.claim \in q.after

Inv == /\ Types /\ BuilderIsTold /\ JwtAgrees /\ OwnTimesStay
       /\ \A f \in Flows : Sound(request[f])

LEMMA UndefinedIsTyped ==
    /\ Undefined \in AnyValue /\ Undefined \in MaybeSigned /\ Undefined \in MaybeTold
    /\ Undefined \in JwtRef /\ Undefined \in Time
    /\ [c \in Claim |-> Undefined] \in ClaimMap
<1>1. Undefined \in AnyValue
  BY DEF AnyValue
<1> QED BY <1>1 DEF ClaimMap, MaybeSigned, MaybeTold, JwtRef, Time

LEMMA NoRequestIsTyped == NoRequest \in RequestState
<1>1. "idle" \in Progress /\ "none" \in Errors /\ "none" \in MaybeClaim /\ {} \in Sets
  BY DEF Progress, Errors, MaybeClaim, Sets
<1> QED BY <1>1, UndefinedIsTyped DEF NoRequest, RequestState

LEMMA InitInv == Init => Inv
<1> SUFFICES ASSUME Init PROVE Inv
  OBVIOUS
<1>1. PICK contents \in [Jwts -> Contents] :
             jwts = [j \in Jwts |-> [claims |-> contents[j], iat |-> OwnTimes[j]]]
  BY DEF Init
<1>2. ClaimValues \subseteq ClaimMap
  BY DEF ClaimValues, ClaimMap, AnyValue, Value
<1>3. \A j \in Jwts : contents[j] \in ClaimMap /\ OwnTimes[j] \in Time
  BY <1>1, <1>2, ProofAssumption DEF Time
<1>4. jwts \in [Jwts -> JwtState] /\ OwnTimesStay
  BY <1>1, <1>3 DEF JwtState, OwnTimesStay
<1>5. told \in ClaimMap /\ after \in Sets /\ now \in Nat
  BY UndefinedIsTyped DEF Init, Sets
<1>6. builder \in BuilderState /\ BuilderIsTold /\ builder.jwt = Undefined
  <2> DEFINE none == [c \in Claim |-> Undefined]
  <2>1. none \in ClaimMap /\ told = none
    BY UndefinedIsTyped DEF Init
  <2>2. builder \in [base : {"callbacks", "proof", "nothing"}, callbacks : Callbacks,
                     options : {none}, jwt : {Undefined}]
    BY DEF Init
  <2> HIDE DEF none
  <2> QED BY <2>1, <2>2, UndefinedIsTyped DEF BuilderState, BuilderIsTold
<1>7. NoRequest \in RequestState /\ Sound(NoRequest)
  BY NoRequestIsTyped DEF NoRequest, Sound
<1>8. request \in [Flows -> RequestState] /\ \A f \in Flows : Sound(request[f])
  BY <1>7 DEF Init
<1>9. JwtAgrees
  BY <1>6 DEF JwtAgrees, JwtProperty
<1> QED BY <1>4, <1>5, <1>6, <1>8, <1>9 DEF Inv, Types

\* A step of a request that leaves everything else alone.
LEMMA RequestMoves ==
    ASSUME Inv, NEW f \in Flows, NEW q \in RequestState, Sound(q),
           request' = [request EXCEPT ![f] = q],
           UNCHANGED <<jwts, builder, now, told, after>>
    PROVE  Inv'
<1>1. request' \in [Flows -> RequestState] /\ \A g \in Flows : Sound(request'[g])
  BY DEF Inv, Types
<1>2. Types' /\ BuilderIsTold' /\ JwtAgrees' /\ OwnTimesStay'
  BY <1>1 DEF Inv, Types, BuilderIsTold, JwtAgrees, JwtProperty, OwnTimesStay
<1>3. (\A g \in Flows : Sound(request[g]))'
  BY <1>1 DEF Sound
<1> QED BY <1>2, <1>3 DEF Inv

\* An option is set.
LEMMA WithInv ==
    ASSUME Inv, NEW c \in Claim, NEW value \in ValuesOf[c], With(c, value)
    PROVE  Inv'
<1>1. /\ builder' = [builder EXCEPT !.options[c] = value]
      /\ told' = [told EXCEPT ![c] = value] /\ after' = after \cup {c}
      /\ UNCHANGED <<jwts, request, now>>
  BY DEF With
<1>2. value \in AnyValue
  BY DEF AnyValue, Value
<1>3. told' \in ClaimMap
  BY <1>1, <1>2 DEF Inv, Types, ClaimMap
<1>4. /\ builder' \in BuilderState /\ builder'.jwt = builder.jwt
      /\ builder'.options = [builder.options EXCEPT ![c] = value]
  <2>1. [builder.options EXCEPT ![c] = value] \in ClaimMap
    BY <1>2 DEF Inv, Types, BuilderState, ClaimMap
  <2>2. builder' = [builder EXCEPT !.options = [builder.options EXCEPT ![c] = value]]
    BY <1>1 DEF Inv, Types, BuilderState
  <2> QED BY <2>1, <2>2 DEF Inv, Types, BuilderState
<1>5. Types'
  <2>1. after' \in Sets
    BY <1>1 DEF Inv, Types, Sets
  <2> QED BY <1>1, <1>3, <1>4, <2>1 DEF Inv, Types
<1>6. BuilderIsTold'
  BY <1>1, <1>4 DEF Inv, Types, BuilderState, ClaimMap, BuilderIsTold
<1>7. JwtAgrees'
  BY <1>1, <1>4 DEF Inv, Types, ClaimMap, JwtAgrees, JwtProperty
<1>8. OwnTimesStay' /\ (\A f \in Flows : Sound(request[f]))'
  BY <1>1 DEF Inv, OwnTimesStay, Sound
<1> QED BY <1>5, <1>6, <1>7, <1>8 DEF Inv

\* The builder takes a JWT: from there it agrees with it.
LEMMA WithJwtInv ==
    ASSUME Inv, NEW j \in Jwts, WithJwt(j)
    PROVE  Inv'
<1> DEFINE claims == jwts[j].claims
           options == [c \in Claim |-> IF claims[c] # Undefined THEN claims[c]
                                       ELSE builder.options[c]]
<1>1. /\ builder' = [builder EXCEPT !.jwt = j, !.options = options]
      /\ told' = [c \in Claim |-> IF claims[c] # Undefined THEN claims[c] ELSE told[c]]
      /\ after' = {} /\ UNCHANGED <<jwts, request, now>>
  BY DEF WithJwt, Tell
<1>2. claims \in ClaimMap
  BY DEF Inv, Types, JwtState
<1>3. options \in ClaimMap /\ told' \in ClaimMap
  BY <1>1, <1>2 DEF Inv, Types, BuilderState, ClaimMap
<1>4. builder' \in BuilderState /\ builder'.jwt = j /\ builder'.options = options
  <2> HIDE DEF options
  <2> QED BY <1>1, <1>3 DEF Inv, Types, BuilderState, JwtRef
<1>5. Types'
  <2>1. after' \in Sets
    BY <1>1 DEF Inv, Types, Sets
  <2> QED BY <1>1, <1>3, <1>4, <2>1 DEF Inv, Types
<1>6. BuilderIsTold'
  BY <1>1, <1>4 DEF Inv, BuilderIsTold
<1>7. JwtAgrees'
  BY <1>1, <1>4 DEF JwtAgrees, JwtProperty
<1>8. OwnTimesStay' /\ (\A f \in Flows : Sound(request[f]))'
  BY <1>1 DEF Inv, OwnTimesStay, Sound
<1> QED BY <1>5, <1>6, <1>7, <1>8 DEF Inv

\* A JWT is changed; if it is the builder's, that is remembered.
LEMMA ChangeJwtInv ==
    ASSUME Inv, NEW j \in Jwts, NEW c \in Claim, NEW value \in ValuesOf[c] \cup {Undefined},
           ChangeJwt(j, c, value)
    PROVE  Inv'
<1>1. /\ jwts' = [jwts EXCEPT ![j].claims[c] = value]
      /\ after' = IF builder.jwt = j THEN after \cup {c} ELSE after
      /\ UNCHANGED <<builder, request, now, told>>
  BY DEF ChangeJwt
<1>2. value \in AnyValue
  <2>1. CASE value = Undefined
    BY <2>1, UndefinedIsTyped
  <2>2. CASE value \in ValuesOf[c]
    BY <2>2 DEF AnyValue, Value
  <2> QED BY <2>1, <2>2
<1> DEFINE claims == [jwts[j].claims EXCEPT ![c] = value]
           jwt == [jwts[j] EXCEPT !.claims = claims]
<1>3. claims \in ClaimMap
  BY <1>2 DEF Inv, Types, JwtState, ClaimMap
<1>4. jwt \in JwtState /\ jwt.claims = claims /\ jwt.iat = jwts[j].iat
  <2> HIDE DEF claims
  <2> QED BY <1>3 DEF Inv, Types, JwtState
<1>5. jwts' = [jwts EXCEPT ![j] = jwt]
  BY <1>1 DEF Inv, Types, JwtState
<1> HIDE DEF jwt
<1>6. Types'
  <2>1. after' \in Sets
    BY <1>1 DEF Inv, Types, Sets
  <2> QED BY <1>1, <1>4, <1>5, <2>1 DEF Inv, Types
<1>7. BuilderIsTold'
  BY <1>1 DEF Inv, BuilderIsTold
<1>8. JwtAgrees'
  <2> SUFFICES ASSUME NEW d \in Claim \ after', JwtProperty(d)' # Undefined
               PROVE  told[d] = JwtProperty(d)'
    BY <1>1 DEF JwtAgrees
  <2>1. d \in Claim \ after
    BY <1>1
  <2>2. JwtProperty(d)' = JwtProperty(d)
    <3>1. CASE builder.jwt = j
      BY <1>1, <1>4, <1>5, <3>1 DEF Inv, Types, JwtState, ClaimMap, JwtProperty
    <3>2. CASE builder.jwt # j
      BY <1>1, <1>5, <3>2 DEF Inv, Types, BuilderState, JwtRef, JwtProperty
    <3> QED BY <3>1, <3>2
  <2> QED BY <2>1, <2>2 DEF Inv, JwtAgrees
<1>9. OwnTimesStay' /\ (\A f \in Flows : Sound(request[f]))'
  BY <1>1, <1>4, <1>5 DEF Inv, Types, OwnTimesStay, Sound
<1> QED BY <1>6, <1>7, <1>8, <1>9 DEF Inv

\* A new JWT carries what the builder was told, and the time.
LEMMA CreateJWTInv ==
    ASSUME Inv, NEW f \in Flows, CreateJWT(f), \A i \in DOMAIN Claims : ~Contradicts(Claims[i]),
           UNCHANGED <<builder, now, told, after>>
    PROVE  Inv'
<1> DEFINE claims == [c \in Claim |-> Property(c)]
           q == [NoRequest EXCEPT !.pc = "signing", !.iat = IssuedAt, !.jwt = builder.jwt,
                                  !.at = now, !.claims = claims, !.told = told, !.after = after]
<1>1. request' = [request EXCEPT ![f] = q] /\ UNCHANGED <<jwts, builder, now, told, after>>
  BY DEF CreateJWT, Become
<1>2. \A c \in Claim : ~Contradicts(c)
  BY DEF Claim
<1>3. claims \in SignedMap
  BY DEF Inv, Types, JwtState, BuilderState, ClaimMap, SignedMap, JwtRef, Property, JwtProperty
<1>4. IssuedAt \in Time
  BY DEF Inv, Types, JwtState, BuilderState, JwtRef, IssuedAt, Time
<1>5. /\ q.claims = claims /\ q.told = told /\ q.iat = IssuedAt /\ q.at = now
      /\ q.jwt = builder.jwt /\ q.error = "none" /\ q.after = after
  BY DEF NoRequest
<1>6. q \in RequestState
  <2> HIDE DEF claims
  <2>1. /\ "signing" \in Progress /\ claims \in MaybeSigned /\ told \in MaybeTold
        /\ now \in Nat /\ builder.jwt \in JwtRef /\ after \in Sets
    BY <1>3 DEF Progress, MaybeSigned, MaybeTold, Inv, Types, BuilderState
  <2> QED BY <1>4, <2>1, NoRequestIsTyped DEF RequestState
<1>7. Sound(q)
  <2>1. ASSUME NEW c \in Claim, told[c] # Undefined
        PROVE  claims[c] = told[c]
    <3>1. builder.options[c] = told[c]
      BY DEF Inv, BuilderIsTold
    <3> QED BY <1>2, <2>1, <3>1 DEF Contradicts, Property
  <2>2. ASSUME builder.jwt # Undefined => OwnTimes[builder.jwt] = Undefined
        PROVE  IssuedAt = now
    BY <2>2 DEF Inv, Types, BuilderState, JwtRef, OwnTimesStay, IssuedAt
  <2> HIDE DEF q
  <2> QED BY <1>5, <2>1, <2>2 DEF Sound
<1> HIDE DEF q
<1> QED BY <1>1, <1>6, <1>7, RequestMoves

\* An error is a contradiction only in what was told or changed since.
LEMMA ThrowInv ==
    ASSUME Inv, NEW f \in Flows, NEW error \in Errors, NEW claim \in MaybeClaim,
           error = "CONTRADICTION" => claim \in after,
           Throw(f, error, claim), UNCHANGED <<jwts, builder, now, told, after>>
    PROVE  Inv'
<1> DEFINE q == [NoRequest EXCEPT !.pc = "rejected", !.error = error, !.claim = claim,
                                  !.after = after, !.told = told]
<1>1. request' = [request EXCEPT ![f] = q]
  BY DEF Throw, Become
<1>2. /\ q.claims = Undefined /\ q.error = error /\ q.claim = claim /\ q.after = after
  BY DEF NoRequest
<1>3. q \in RequestState
  <2>1. told \in MaybeTold /\ after \in Sets /\ "rejected" \in Progress
    BY DEF Inv, Types, MaybeTold, Progress
  <2> QED BY <2>1, NoRequestIsTyped DEF RequestState
<1>4. Sound(q)
  BY <1>2 DEF Sound
<1> HIDE DEF q
<1> QED BY <1>1, <1>3, <1>4, RequestMoves

LEMMA ContradictionSince ==
    ASSUME Inv, NEW c \in Claim, Contradicts(c)
    PROVE  c \in after
BY DEF Inv, BuilderIsTold, JwtAgrees, Contradicts

LEMMA BuildInv ==
    ASSUME Inv, NEW f \in Flows, Build(f)
    PROVE  Inv'
<1> DEFINE Fails(i) == Contradicts(Claims[i]) \/ Missing(Claims[i])
<1>1. UNCHANGED <<builder, now, told, after>>
  BY DEF Build
<1>2. CASE builder.base = "proof"
  <2> DEFINE q == [NoRequest EXCEPT !.pc = "sending"]
  <2>1. request' = [request EXCEPT ![f] = q] /\ UNCHANGED jwts
    BY <1>2 DEF Build, Become
  <2>2. q \in RequestState /\ Sound(q)
    <3>1. "sending" \in Progress
      BY DEF Progress
    <3>2. q \in RequestState
      BY <3>1, NoRequestIsTyped DEF RequestState
    <3>3. q.claims = Undefined /\ q.error = "none"
      BY DEF NoRequest
    <3> HIDE DEF q
    <3> QED BY <3>2, <3>3 DEF Sound
  <2> HIDE DEF q
  <2> QED BY <1>1, <2>1, <2>2, RequestMoves
<1>3. CASE builder.base = "nothing"
  <2>1. "PROOF_CANT_BE_CONSTRUCTED" \in Errors /\ "none" \in MaybeClaim
    BY DEF Errors, MaybeClaim
  <2>2. Throw(f, "PROOF_CANT_BE_CONSTRUCTED", "none") /\ UNCHANGED jwts
    BY <1>3 DEF Build
  <2> QED BY <1>1, <2>1, <2>2, ThrowInv
<1>4. CASE builder.base = "callbacks"
  <2>1. CASE Throw(f, "BAD_PARAMS", "none") /\ UNCHANGED jwts
    <3>1. "BAD_PARAMS" \in Errors /\ "none" \in MaybeClaim
      BY DEF Errors, MaybeClaim
    <3> QED BY <1>1, <2>1, <3>1, ThrowInv
  <2>2. CASE \E i \in DOMAIN Claims :
               /\ Fails(i)
               /\ Throw(f, IF Contradicts(Claims[i]) THEN "CONTRADICTION" ELSE "MISSING", Claims[i])
               /\ UNCHANGED jwts
    <3>1. PICK i \in DOMAIN Claims :
               /\ Throw(f, IF Contradicts(Claims[i]) THEN "CONTRADICTION" ELSE "MISSING", Claims[i])
               /\ UNCHANGED jwts
      BY <2>2
    <3>2. /\ Claims[i] \in Claim /\ Claims[i] \in MaybeClaim
          /\ "CONTRADICTION" \in Errors /\ "MISSING" \in Errors
      BY DEF Claim, MaybeClaim, Errors
    <3>3. CASE Contradicts(Claims[i])
      BY <1>1, <3>1, <3>2, <3>3, ContradictionSince, ThrowInv
    <3>4. CASE ~Contradicts(Claims[i])
      BY <1>1, <3>1, <3>2, <3>4, ThrowInv
    <3> QED BY <3>3, <3>4
  <2>3. CASE CreateJWT(f) /\ \A i \in DOMAIN Claims : ~Fails(i)
    BY <1>1, <2>3, CreateJWTInv
  <2> QED BY <1>4, <2>1, <2>2, <2>3 DEF Build
<1> QED BY <1>2, <1>3, <1>4 DEF Build, Inv, Types, BuilderState

\* A request goes on: what it has signed stays, and its error is no contradiction.
LEMMA GoesOn ==
    ASSUME Inv, NEW f \in Flows, NEW pc \in Progress, NEW error \in Errors,
           error # "CONTRADICTION",
           request' = [request EXCEPT ![f].pc = pc, ![f].error = error],
           UNCHANGED <<jwts, builder, now, told, after>>
    PROVE  Inv'
<1> DEFINE old == request[f]
           q == [old EXCEPT !.pc = pc, !.error = error]
<1>1. request' = [request EXCEPT ![f] = q]
  OBVIOUS
<1>2. old \in RequestState /\ Sound(old)
  BY DEF Inv, Types
<1> HIDE DEF old
<1>3. /\ q.claims = old.claims /\ q.told = old.told /\ q.jwt = old.jwt
      /\ q.iat = old.iat /\ q.at = old.at /\ q.error = error
  BY <1>2 DEF RequestState
<1>4. q \in RequestState
  BY <1>2 DEF RequestState
<1> HIDE DEF q
<1>5. Sound(q)
  BY <1>2, <1>3 DEF Sound
<1> QED BY <1>1, <1>4, <1>5, RequestMoves

LEMMA GoesTo ==
    ASSUME Inv, NEW f \in Flows, NEW pc \in Progress,
           request' = [request EXCEPT ![f].pc = pc],
           UNCHANGED <<jwts, builder, now, told, after>>
    PROVE  Inv'
<1> DEFINE old == request[f]
           q == [old EXCEPT !.pc = pc]
<1>1. request' = [request EXCEPT ![f] = q]
  OBVIOUS
<1>2. old \in RequestState /\ Sound(old)
  BY DEF Inv, Types
<1> HIDE DEF old
<1>3. /\ q.claims = old.claims /\ q.told = old.told /\ q.jwt = old.jwt /\ q.after = old.after
      /\ q.iat = old.iat /\ q.at = old.at /\ q.error = old.error /\ q.claim = old.claim
  BY <1>2 DEF RequestState
<1>4. q \in RequestState
  BY <1>2 DEF RequestState
<1> HIDE DEF q
<1>5. Sound(q)
  BY <1>2, <1>3 DEF Sound
<1> QED BY <1>1, <1>4, <1>5, RequestMoves

LEMMA NextInv == Inv /\ [Next]_vars => Inv'
<1> SUFFICES ASSUME Inv, [Next]_vars PROVE Inv'
  OBVIOUS
<1>1. ASSUME NEW f \in Flows, Sign(f) \/ Verify(f) \/ Answer(f) \/ Reuse(f) PROVE Inv'
  <2>1. UNCHANGED <<jwts, builder, now, told, after>>
    BY <1>1 DEF Sign, Verify, Answer, Reuse, Unchanged
  <2>2. \/ \E pc \in {"verifying", "sending", "resolved"} : Goto(f, pc)
        \/ \E error \in {"SIGN_CALLBACK", "JWS_NOT_VALID", "URL_NOT_VALID", "FETCH"} :
              Reject(f, error)
        \/ request' = [request EXCEPT ![f].pc = "sending", ![f].error = "none"]
    BY <1>1 DEF Sign, Verify, Answer, Reuse
  <2>3. ASSUME NEW pc \in {"verifying", "sending", "resolved"}, Goto(f, pc) PROVE Inv'
    BY <2>1, <2>3, GoesTo DEF Goto, Progress
  <2>4. ASSUME NEW error \in {"SIGN_CALLBACK", "JWS_NOT_VALID", "URL_NOT_VALID", "FETCH"},
               Reject(f, error)
        PROVE  Inv'
    <3>1. error \in Errors /\ "rejected" \in Progress /\ error # "CONTRADICTION"
      BY DEF Errors, Progress
    <3> QED BY <2>1, <2>4, <3>1, GoesOn DEF Reject
  <2>5. CASE request' = [request EXCEPT ![f].pc = "sending", ![f].error = "none"]
    <3>1. "none" \in Errors /\ "sending" \in Progress /\ "none" # "CONTRADICTION"
      BY DEF Errors, Progress
    <3> QED BY <2>1, <2>5, <3>1, GoesOn
  <2> QED BY <2>2, <2>3, <2>4, <2>5
<1>2. ASSUME NEW f \in Flows, Build(f) PROVE Inv'
  BY <1>2, BuildInv
<1>3. ASSUME NEW c \in Claim, NEW value \in ValuesOf[c], With(c, value) PROVE Inv'
  BY <1>3, WithInv
<1>4. ASSUME NEW j \in Jwts, NEW c \in Claim, NEW value \in ValuesOf[c] \cup {Undefined},
             ChangeJwt(j, c, value)
      PROVE  Inv'
  BY <1>4, ChangeJwtInv
<1>5. ASSUME NEW j \in Jwts, WithJwt(j) PROVE Inv'
  BY <1>5, WithJwtInv
<1>6. ASSUME UNCHANGED <<jwts, builder, request, told, after>>, now' \in Nat PROVE Inv'
  BY <1>6 DEF Inv, Types, BuilderIsTold, JwtAgrees, JwtProperty, OwnTimesStay, Sound
<1>7. CASE Tick
  BY <1>6, <1>7 DEF Tick, Inv, Types
<1>8. CASE UNCHANGED vars
  BY <1>6, <1>8 DEF vars, Inv, Types
<1> QED BY <1>1, <1>2, <1>3, <1>4, <1>5, <1>7, <1>8 DEF Next, Continue

\* No proof carries a value other than the one the builder was told last: for
\* any number of flows and JWTs and any values, whatever is set and changed while
\* proofs are signed (withJwt, getJwtProperty).
THEOREM ProofsCarryWhatWasTold == Spec => []SignedIsLastTold
<1>1. Inv => SignedIsLastTold
  BY DEF Inv, Sound, SignedIsLastTold, Signed
<1> QED BY InitInv, NextInv, <1>1, PTL DEF Spec

\* A builder contradicts itself only over what was set, or changed in its JWT,
\* after it got the JWT (withJwt against getJwtProperty).
THEOREM NewJwtIsNoContradiction == Spec => []ContradictionForCause
<1>1. Inv => ContradictionForCause
  BY DEF Inv, Sound, ContradictionForCause
<1> QED BY InitInv, NextInv, <1>1, PTL DEF Spec

\* The times of a proof are those of its signing, or the application's own
\* (createJWT).
THEOREM TimesAreFresh == Spec => []FreshTimes
<1>1. Inv => FreshTimes
  BY DEF Inv, Sound, FreshTimes, Signed
<1> QED BY InitInv, NextInv, <1>1, PTL DEF Spec
=============================================================================
