------------------------ MODULE MemoryStateManager --------------------------
(***************************************************************************)
(* MemoryCredentialOfferStateManager and the part of                       *)
(* MemoryCNonceStateManager it shares, at the granularity of JavaScript's  *)
(* microtasks.  Every method but getAssertedState runs to its end in the   *)
(* caller's turn.  getAssertedState awaits twice:                          *)
(*                                                                         *)
(*   GetAssertedState   hasState is evaluated in the caller's turn,        *)
(*   ResumeAfterHas     in a later microtask getState is evaluated, or     *)
(*                      the call is rejected,                              *)
(*   ResumeAfterGet     in a microtask after that the value is returned.   *)
(*                                                                         *)
(* Between two of those steps the other callers' methods may run.          *)
(***************************************************************************)
EXTENDS StateStore

CONSTANTS
    Keys,      \* issuer states (offers) or c_nonce values (nonces)
    Callers,   \* concurrent flows of the application
    MaxTime,   \* bound of the clock, for model checking
    Rejected   \* UNKNOWN_CLIENT_ERROR / C_NONCE_MISSING_ERROR

ASSUME ManagerAssumption ==
    /\ MaxTime \in Nat
    /\ Rejected # Undefined
    /\ Undefined \notin [createdOn : Nat]
    /\ Rejected \notin [createdOn : Nat]
    /\ Undefined \notin Nat
    /\ Undefined \notin Keys

VARIABLES
    store,   \* the Map
    call,    \* the getAssertedState call each caller has in progress
    now      \* the clock

vars == <<store, call, now>>

Times == 0 .. MaxTime
Entry == [createdOn : Times]

NoCall == [pc |-> "idle", key |-> Undefined, has |-> FALSE, result |-> Undefined]

TypeOK ==
    /\ store \in [Keys -> Entry \cup {Undefined}]
    /\ call \in [Callers -> [pc : {"idle", "checked", "read", "returned"},
                             key : Keys \cup {Undefined},
                             has : BOOLEAN,
                             result : Entry \cup {Undefined, Rejected}]]
    /\ now \in Times

Init ==
    /\ store = EmptyStore(Keys)
    /\ call = [c \in Callers |-> NoCall]
    /\ now = 0

\* A write by some caller, in one turn.  createdOn is the caller's.
Set(k, t) ==
    /\ store' = SetState(store, k, [createdOn |-> t])
    /\ UNCHANGED <<call, now>>

Delete(k) ==
    /\ store' = DeleteState(store, k)
    /\ UNCHANGED <<call, now>>

ClearExpired(timestamp) ==
    /\ store' = ClearExpiredStates(store, timestamp, now)
    /\ UNCHANGED <<call, now>>

ClearAll ==
    /\ store' = ClearAllStates(store)
    /\ UNCHANGED <<call, now>>

GetAssertedState(c, k) ==
    /\ call[c].pc = "idle"
    /\ call' = [call EXCEPT ![c] = [pc |-> "checked", key |-> k,
                                    has |-> HasState(store, k),
                                    result |-> Undefined]]
    /\ UNCHANGED <<store, now>>

\* Mutant of ResumeAfterHas: the answer of hasState is not looked at.
ResumeUnchecked(c) ==
    /\ call[c].pc = "checked"
    /\ call' = [call EXCEPT ![c].pc = "read",
                            ![c].result = GetState(store, call[c].key)]
    /\ UNCHANGED <<store, now>>

ResumeAfterHas(c) ==
    /\ call[c].pc = "checked"
    /\ \/ /\ call[c].has
          /\ call' = [call EXCEPT ![c].pc = "read",
                                  ![c].result = GetState(store, call[c].key)]
       \/ /\ ~call[c].has
          /\ call' = [call EXCEPT ![c].pc = "returned", ![c].result = Rejected]
    /\ UNCHANGED <<store, now>>

ResumeAfterGet(c) ==
    /\ call[c].pc = "read"
    /\ call' = [call EXCEPT ![c].pc = "returned"]
    /\ UNCHANGED <<store, now>>

\* The caller takes the result and may call again.
TakeResult(c) ==
    /\ call[c].pc = "returned"
    /\ call' = [call EXCEPT ![c] = NoCall]
    /\ UNCHANGED <<store, now>>

\* The clock moves between turns of the event loop or within them.
Tick ==
    /\ now < MaxTime
    /\ now' = now + 1
    /\ UNCHANGED <<store, call>>

Write == \/ \E k \in Keys : Delete(k) \/ \E t \in 0 .. now : Set(k, t)
         \/ \E timestamp \in Times \cup {Undefined} : ClearExpired(timestamp)
         \/ ClearAll

CallStep(c) == ResumeAfterHas(c) \/ ResumeAfterGet(c) \/ TakeResult(c)

Next == \/ Write
        \/ \E c \in Callers : CallStep(c) \/ \E k \in Keys : GetAssertedState(c, k)
        \/ Tick

Fairness == \A c \in Callers : WF_vars(CallStep(c))

Spec == Init /\ [][Next]_vars /\ Fairness
-----------------------------------------------------------------------------
\* The concrete call as the contract sees it: pending until getState has been
\* evaluated or the call was rejected, decided from then on.
ContractCall ==
    [c \in Callers |->
        [pc     |-> CASE call[c].pc = "idle"    -> "idle"
                      [] call[c].pc = "checked" -> "pending"
                      [] OTHER                  -> "decided",
         key    |-> call[c].key,
         seen   |-> call[c].has,
         result |-> call[c].result]]

Contract == INSTANCE StateManagerContract
              WITH Entries <- Entry, AllowLost <- TRUE, call <- ContractCall

\* getAssertedState is decided at one instant of the call, as callers assume,
\* with the lost outcome allowed: an entry that is returned was in the store
\* at that instant, a rejected call missed the key when it was made, undefined
\* is returned only for a key that was removed during the call
\* (getAssertedState of both in-memory managers).
ImplementsContract == Contract!CSpec
=============================================================================
