------------------- MODULE MemoryCNonceStateManagerProofs -------------------
(***************************************************************************)
(* Proofs about MemoryStateManager and MemoryCNonceStateManager, for any   *)
(* set of keys and callers and any bounds: getAssertedState, which reads   *)
(* the map in two turns, implements StateManagerContract, in which it is   *)
(* decided at one instant.                                                 *)
(***************************************************************************)
EXTENDS MemoryCNonceStateManager, TLAPS

LEMMA NoEntryIsAnOutcome == Undefined \notin Entry /\ Rejected \notin Entry
<1>1. Entry \subseteq [createdOn : Nat]
  BY ManagerAssumption DEF Entry, Times
<1> QED BY <1>1, ManagerAssumption

(***************************************************************************)
(* What a step does, in the terms of the contract.                         *)
(***************************************************************************)
StoreOf(s) == s \in [Keys -> Entry \cup {Undefined}]

\* The synchronous bodies of the methods leave a store a store.
LEMMA WritesKeepStore ==
    ASSUME StoreOf(store), now \in Times
    PROVE  /\ StoreOf(EmptyStore(Keys)) /\ StoreOf(ClearAllStates(store))
           /\ \A k \in Keys : StoreOf(DeleteState(store, k))
           /\ \A k \in Keys : \A t \in 0 .. now :
                 StoreOf(SetState(store, k, [createdOn |-> t]))
           /\ \A timestamp : StoreOf(ClearExpiredStates(store, timestamp, now))
<1>1. \A t \in 0 .. now : [createdOn |-> t] \in Entry
  BY ManagerAssumption DEF Entry, Times
<1> QED
  BY <1>1 DEF StoreOf, EmptyStore, ClearAllStates, DeleteState, SetState, ClearExpiredStates

LEMMA WriteIsMutate ==
    ASSUME TypeOK, Write
    PROVE  StoreOf(store') /\ UNCHANGED <<call, now>>
  BY WritesKeepStore DEF TypeOK, StoreOf, Write, Delete, Set, ClearExpired, ClearAll

(***************************************************************************)
(* TypeOK alone is not inductive: getState looks up the key of the call,   *)
(* which must be a key of the store.                                       *)
(***************************************************************************)
CallInv == /\ TypeOK
           /\ \A c \in Callers : call[c].pc = "checked" => call[c].key \in Keys

CallState == [pc : {"idle", "checked", "read", "returned"},
              key : Keys \cup {Undefined}, has : BOOLEAN,
              result : Entry \cup {Undefined, Rejected}]

Become(c, q) == call' = [call EXCEPT ![c] = q] /\ UNCHANGED <<store, now>>

LEMMA InitCalls == Init => CallInv
<1>1. Init => TypeOK
  BY ManagerAssumption, WritesKeepStore DEF Init, TypeOK, EmptyStore, NoCall, Times
<1> QED BY <1>1 DEF Init, CallInv, NoCall

LEMMA BecomeKeepsCalls ==
    ASSUME CallInv, NEW c \in Callers, NEW q \in CallState, Become(c, q),
           q.pc = "checked" => q.key \in Keys
    PROVE  CallInv'
<1>1. call' \in [Callers -> CallState] /\ TypeOK'
  BY DEF CallInv, Become, TypeOK, CallState
<1>2. call'[c] = q /\ \A d \in Callers \ {c} : call'[d] = call[d]
  BY DEF CallInv, TypeOK, Become
<1> QED BY <1>1, <1>2 DEF CallInv

\* The four turns of getAssertedState, by the record the call becomes.
Asked(k) == [pc |-> "checked", key |-> k, has |-> HasState(store, k), result |-> Undefined]
Got(q) == [q EXCEPT !.pc = "read", !.result = store[q.key]]
Thrown(q) == [q EXCEPT !.pc = "returned", !.result = Rejected]
Resolved(q) == [q EXCEPT !.pc = "returned"]

LEMMA TurnsOfACall ==
    ASSUME CallInv, NEW c \in Callers
    PROVE  /\ \A k \in Keys : GetAssertedState(c, k) => Become(c, Asked(k))
           /\ ResumeAfterHas(c) =>
                 Become(c, IF call[c].has THEN Got(call[c]) ELSE Thrown(call[c]))
           /\ ResumeAfterGet(c) => Become(c, Resolved(call[c]))
           /\ TakeResult(c) => Become(c, NoCall)
<1>1. call[c] \in CallState /\ call \in [Callers -> CallState]
  BY DEF CallInv, TypeOK, CallState
<1>2. \A k \in Keys : GetAssertedState(c, k) => Become(c, Asked(k))
  BY DEF GetAssertedState, Become, Asked
<1>3. ResumeAfterHas(c) =>
         Become(c, IF call[c].has THEN Got(call[c]) ELSE Thrown(call[c]))
  BY <1>1 DEF ResumeAfterHas, Become, GetState, Got, Thrown
<1>4. ResumeAfterGet(c) => Become(c, Resolved(call[c]))
  BY <1>1 DEF ResumeAfterGet, Become, Resolved
<1>5. TakeResult(c) => Become(c, NoCall)
  BY DEF TakeResult, Become
<1> QED BY <1>2, <1>3, <1>4, <1>5

LEMMA StepCalls == CallInv /\ [Next]_vars => CallInv'
<1> SUFFICES ASSUME CallInv, [Next]_vars PROVE CallInv'
  OBVIOUS
<1>1. CASE Write
  BY <1>1, WriteIsMutate DEF CallInv, TypeOK, StoreOf
<1>2. ASSUME NEW c \in Callers, NEW k \in Keys, GetAssertedState(c, k)
      PROVE  CallInv'
  <2>1. Asked(k) \in CallState /\ Asked(k).key \in Keys
    BY DEF Asked, CallState, HasState
  <2>2. QED BY <1>2, <2>1, TurnsOfACall, BecomeKeepsCalls
<1>3. ASSUME NEW c \in Callers, CallStep(c)
      PROVE  CallInv'
  <2>1. call[c] \in CallState
    BY DEF CallInv, TypeOK, CallState
  <2>2. CASE ResumeAfterHas(c)
    <3>1. call[c].key \in Keys
      BY <2>2 DEF ResumeAfterHas, CallInv
    <3>2. /\ Got(call[c]) \in CallState /\ Got(call[c]).pc = "read"
          /\ Thrown(call[c]) \in CallState /\ Thrown(call[c]).pc = "returned"
      BY <2>1, <3>1 DEF Got, Thrown, CallState, CallInv, TypeOK
    <3>3. QED BY <2>2, <3>2, TurnsOfACall, BecomeKeepsCalls
  <2>3. CASE ResumeAfterGet(c)
    <3>1. Resolved(call[c]) \in CallState /\ Resolved(call[c]).pc = "returned"
      BY <2>1 DEF Resolved, CallState
    <3>2. QED BY <2>3, <3>1, TurnsOfACall, BecomeKeepsCalls
  <2>4. CASE TakeResult(c)
    <3>1. NoCall \in CallState
      BY DEF NoCall, CallState
    <3>2. QED BY <2>4, <3>1, TurnsOfACall, BecomeKeepsCalls DEF NoCall
  <2>5. QED BY <1>3, <2>2, <2>3, <2>4 DEF CallStep
<1>4. CASE Tick
  BY <1>4, ManagerAssumption DEF Tick, CallInv, TypeOK, Times
<1>5. CASE UNCHANGED vars
  BY <1>5 DEF vars, CallInv, TypeOK
<1>6. QED
  BY <1>1, <1>2, <1>3, <1>4, <1>5 DEF Next
-----------------------------------------------------------------------------
(***************************************************************************)
(* The contract.  View is a call as StateManagerContract sees it; between  *)
(* the two turns of a call nothing of its view changes, so the contract    *)
(* takes its step when getState is evaluated, or when the call throws.     *)
(***************************************************************************)
View(q) == [pc     |-> CASE q.pc = "idle"    -> "idle"
                         [] q.pc = "checked" -> "pending"
                         [] OTHER            -> "decided",
            key    |-> q.key,
            seen   |-> q.has,
            result |-> q.result]

LEMMA ContractIsView == ContractCall = [c \in Callers |-> View(call[c])]
  BY DEF ContractCall, View

LEMMA BecomeInView ==
    ASSUME CallInv, NEW c \in Callers, NEW q, Become(c, q)
    PROVE  ContractCall' = [ContractCall EXCEPT ![c] = View(q)]
<1>1. \A d \in Callers : call'[d] = IF d = c THEN q ELSE call[d]
  BY DEF CallInv, TypeOK, Become
<1>2. ContractCall' = [d \in Callers |-> View(call'[d])]
  BY DEF ContractCall, View
<1> QED BY <1>1, <1>2, ContractIsView

\* A call in progress is decided: its view keeps the key and what was seen.
LEMMA BecomeDecides ==
    ASSUME CallInv, NEW c \in Callers, NEW q, NEW result, Become(c, q),
           View(q) = [pc |-> "decided", key |-> call[c].key, seen |-> call[c].has,
                      result |-> result]
    PROVE  Contract!Decide(c, result)
<1>1. ContractCall[c].key = call[c].key /\ ContractCall[c].seen = call[c].has
  BY ContractIsView DEF View
<1> QED BY <1>1, BecomeInView DEF Become, Contract!Decide

\* The initial states of the managers are those of the contract.
LEMMA InitIsContractInit == Init => Contract!CInit
<1> SUFFICES ASSUME Init PROVE Contract!CInit
  OBVIOUS
<1>1. View(NoCall) = Contract!Idle
  BY DEF View, NoCall, Contract!Idle
<1>2. ContractCall = [c \in Callers |-> Contract!Idle]
  BY <1>1, ContractIsView DEF Init
<1> QED BY <1>2 DEF Init, EmptyStore, Contract!CInit

\* Every step of the managers is a step of the contract or none.
LEMMA StepIsContractStep == CallInv /\ [Next]_vars => [Contract!CNext]_(Contract!cvars)
<1> SUFFICES ASSUME CallInv, [Next]_vars PROVE [Contract!CNext]_(Contract!cvars)
  OBVIOUS
<1>1. CASE Write
  <2>1. store' \in Contract!Stores /\ ContractCall' = ContractCall
    BY <1>1, WriteIsMutate DEF CallInv, StoreOf, Contract!Stores, ContractCall
  <2>2. QED BY <2>1 DEF Contract!CNext, Contract!Mutate
<1>2. ASSUME NEW c \in Callers, NEW k \in Keys, GetAssertedState(c, k)
      PROVE  Contract!Invoke(c, k)
  <2>1. Become(c, Asked(k)) /\ call[c].pc = "idle"
    BY <1>2, TurnsOfACall DEF GetAssertedState
  <2>2. /\ View(Asked(k)) = [pc |-> "pending", key |-> k, seen |-> store[k] # Undefined,
                              result |-> Undefined]
        /\ ContractCall[c].pc = "idle"
    BY <2>1, ContractIsView DEF View, Asked, HasState
  <2>3. QED BY <2>1, <2>2, BecomeInView DEF Become, Contract!Invoke
<1>3. ASSUME NEW c \in Callers, ResumeAfterHas(c)
      PROVE  Contract!ReturnEntry(c) \/ Contract!Reject(c) \/ Contract!Lose(c)
  <2> DEFINE v == ContractCall[c]
  <2>1. /\ v = View(call[c]) /\ v.pc = "pending" /\ v.key = call[c].key
        /\ v.seen = call[c].has
    BY <1>3, ContractIsView DEF View, ResumeAfterHas
  <2>2. CASE call[c].has
    <3>1. Become(c, Got(call[c]))
      BY <1>3, <2>2, TurnsOfACall
    <3>2. /\ Got(call[c]).pc = "read" /\ Got(call[c]).result = store[v.key]
          /\ Got(call[c]).key = v.key /\ Got(call[c]).has = v.seen
      BY <2>1 DEF Got, CallInv, TypeOK
    <3>3. Contract!Decide(c, store[v.key])
      BY <2>1, <3>1, <3>2, BecomeDecides DEF View
    <3>4. QED
      BY <2>1, <2>2, <3>3 DEF Contract!ReturnEntry, Contract!Lose, Contract!Absent, Contract!Decide
  <2>3. CASE ~call[c].has
    <3>1. Become(c, Thrown(call[c]))
      BY <1>3, <2>3, TurnsOfACall
    <3>2. /\ Thrown(call[c]).pc = "returned" /\ Thrown(call[c]).result = Rejected
          /\ Thrown(call[c]).key = v.key /\ Thrown(call[c]).has = v.seen
      BY <2>1 DEF Thrown, CallInv, TypeOK
    <3>3. Contract!Decide(c, Rejected)
      BY <2>1, <3>1, <3>2, BecomeDecides DEF View
    <3>4. QED BY <2>1, <2>3, <3>3 DEF Contract!Reject
  <2>4. QED BY <2>2, <2>3
<1>4. ASSUME NEW c \in Callers, ResumeAfterGet(c)
      PROVE  UNCHANGED Contract!cvars
  <2>1. Become(c, Resolved(call[c])) /\ call[c].pc = "read"
    BY <1>4, TurnsOfACall DEF ResumeAfterGet
  <2>2. View(Resolved(call[c])) = View(call[c])
    BY <2>1 DEF View, Resolved, CallInv, TypeOK
  <2>3. ContractCall' = ContractCall
    BY <2>1, <2>2, BecomeInView, ContractIsView
  <2>4. QED BY <2>1, <2>3 DEF Become, Contract!cvars
<1>5. ASSUME NEW c \in Callers, TakeResult(c)
      PROVE  Contract!Finish(c)
  <2>1. Become(c, NoCall) /\ call[c].pc = "returned"
    BY <1>5, TurnsOfACall DEF TakeResult
  <2>2. View(NoCall) = Contract!Idle /\ ContractCall[c].pc = "decided"
    BY <2>1, ContractIsView DEF View, NoCall, Contract!Idle
  <2>3. QED BY <2>1, <2>2, BecomeInView DEF Become, Contract!Finish
<1>6. CASE Tick \/ UNCHANGED vars
  BY <1>6 DEF Tick, vars, ContractCall, Contract!cvars
<1>7. QED
  BY <1>1, <1>2, <1>3, <1>4, <1>5, <1>6 DEF Next, CallStep, Contract!CNext
\* The offer manager, which has no timers, implements the contract: its
\* getAssertedState is decided at one instant, whatever methods other callers
\* run between its two turns (MemoryCredentialOfferStateManager).
THEOREM OfferManagerImplementsContract == Spec => ImplementsContract
<1>1. Spec => []CallInv
  BY InitCalls, StepCalls, PTL DEF Spec
<1> QED
  BY <1>1, InitIsContractInit, StepIsContractStep, PTL
  DEF Spec, ImplementsContract, Contract!CSpec
-----------------------------------------------------------------------------
(***************************************************************************)
(* The cleanup routine.  Its timers only take steps a caller may take too. *)
(***************************************************************************)
NInv == CallInv /\ NTypeOK /\ StopReachesEveryTimer

LEMMA NStepIsStep == NTypeOK /\ [NNext]_nvars => [Next]_vars
<1> SUFFICES ASSUME NTypeOK, [NNext]_nvars PROVE [Next]_vars
  OBVIOUS
<1>1. ASSUME FireCleanup PROVE Write
  <2>1. PICK x \in timers : ClearExpired(x.timestamp)
    BY <1>1 DEF FireCleanup
  <2>2. x.timestamp \in Times \cup {Undefined}
    BY DEF NTypeOK, Timer
  <2>3. QED BY <2>1, <2>2 DEF Write
<1>2. QED
  BY <1>1 DEF NNext, Next, StartCleanupRoutine, StopCleanupRouting, nvars, vars

LEMMA InitTimers == NInit => NInv
<1>1. 0 \in 0 .. MaxTimers
  BY TimerAssumption
<1> QED
  BY <1>1, InitCalls DEF NInit, NInv, CallInv, NTypeOK, StopReachesEveryTimer

\* No timer runs before the first start, whose id is never given up: so a
\* second timer is never made, and the one there is has the id that is kept.
LEMMA StepTimers == NInv /\ [NNext]_nvars => NInv'
<1> SUFFICES ASSUME NInv, [NNext]_nvars PROVE NInv'
  OBVIOUS
<1>1. CallInv'
  BY NStepIsStep, StepCalls DEF NInv
<1>2. ASSUME NEW timestamp \in Times \cup {Undefined}, StartCleanupRoutine(timestamp)
      PROVE  NInv'
  <2>1. timers = {}
    BY <1>2 DEF NInv, NTypeOK, Timer, StopReachesEveryTimer, StartCleanupRoutine
  <2>2. /\ intervalRoutineId' = 1 /\ 1 \in 1 .. MaxTimers
        /\ timers' = {[id |-> 1, timestamp |-> timestamp]}
    BY <1>2, <2>1, TimerAssumption DEF StartCleanupRoutine
  <2>3. QED BY <1>1, <2>2 DEF NInv, CallInv, NTypeOK, Timer, StopReachesEveryTimer
<1>3. CASE StopCleanupRouting
  BY <1>1, <1>3 DEF NInv, CallInv, NTypeOK, StopReachesEveryTimer, StopCleanupRouting
<1>4. CASE UNCHANGED <<intervalRoutineId, timers>>
  BY <1>1, <1>4 DEF NInv, CallInv, NTypeOK, StopReachesEveryTimer
<1>5. QED
  BY <1>2, <1>3, <1>4 DEF NNext, FireCleanup, nvars

LEMMA NInvHolds == NSpec => []NInv
  BY InitTimers, StepTimers, PTL DEF NSpec

\* The store, the calls, the id of the routine and its timers keep their
\* types (MemoryCNonceStateManager).
THEOREM ManagerTypeCorrect == NSpec => []NTypeOK
<1>1. NInv => NTypeOK
  BY DEF NInv
<1> QED BY <1>1, NInvHolds, PTL

\* Whatever the order of starts, stops and firings, stopCleanupRouting reaches
\* every timer that still fires.
THEOREM EveryTimerIsReached == NSpec => []StopReachesEveryTimer
<1>1. NInv => StopReachesEveryTimer
  BY DEF NInv
<1> QED BY <1>1, NInvHolds, PTL

\* getAssertedState, evaluated in two turns with any methods of other callers
\* and any firing of the cleanup between them, is decided at one instant.
THEOREM ManagerImplementsContract == NSpec => ImplementsContract
<1>1. NInit => Contract!CInit
  BY InitIsContractInit DEF NInit
<1>2. NInv /\ [NNext]_nvars => [Contract!CNext]_(Contract!cvars)
  BY NStepIsStep, StepIsContractStep DEF NInv
<1>3. QED
  BY <1>1, <1>2, NInvHolds, PTL DEF NSpec, ImplementsContract, Contract!CSpec
=============================================================================
