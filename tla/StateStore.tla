----------------------------- MODULE StateStore -----------------------------
(***************************************************************************)
(* The Map behind MemoryCNonceStateManager and                             *)
(* MemoryCredentialOfferStateManager, as a total function from keys to     *)
(* entries: an absent key is mapped to Undefined.  Every entry is a record *)
(* with at least the field createdOn.  The two classes implement the       *)
(* methods of IStateManager line by line alike; the operators below are    *)
(* the synchronous bodies of those methods.                                *)
(***************************************************************************)
EXTENDS Naturals

CONSTANT Undefined  \* JavaScript's undefined: no entry, no value

EmptyStore(keys) == [k \in keys |-> Undefined]

\* Mutant of HasState: it hands out the entry instead of a boolean.
HasStateRaw(store, k) == store[k]

HasState(store, k) == store[k] # Undefined

GetState(store, k) == store[k]

SetState(store, k, entry) == [store EXCEPT ![k] = entry]

DeleteState(store, k) == [store EXCEPT ![k] = Undefined]

ClearAllStates(store) == EmptyStore(DOMAIN store)

\* Mutant of Threshold: timestamp ?? 0.
ThresholdZero(timestamp, now) == IF timestamp = Undefined THEN 0 ELSE timestamp

\* timestamp ?? +new Date()
Threshold(timestamp, now) == IF timestamp = Undefined THEN now ELSE timestamp

ExpiredKeys(store, threshold) ==
    {k \in DOMAIN store : store[k] # Undefined /\ store[k].createdOn < threshold}

ClearExpiredStates(store, timestamp, now) ==
    [k \in DOMAIN store |->
        IF k \in ExpiredKeys(store, Threshold(timestamp, now))
        THEN Undefined ELSE store[k]]
=============================================================================
