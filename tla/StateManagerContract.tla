------------------------ MODULE StateManagerContract ------------------------
(***************************************************************************)
(* What a caller of IStateManager.getAssertedState relies on: the answer   *)
(* is decided at one instant of the call.  The entry is returned if the    *)
(* key is present at that instant, and the call is rejected only if the    *)
(* key was absent when the call was made or is absent at that instant.     *)
(* The store itself is changed by other callers at any time.               *)
(*                                                                         *)
(* AllowLost adds the outcome that the in-memory managers have and the     *)
(* interface does not mention: undefined is returned for a key that was    *)
(* there when the call was made and is gone when it is decided.            *)
(***************************************************************************)
CONSTANTS Keys, Callers, Entries, Undefined, Rejected, AllowLost

VARIABLES store, call

cvars == <<store, call>>

Stores == [Keys -> Entries \cup {Undefined}]

Idle == [pc |-> "idle", key |-> Undefined, seen |-> FALSE, result |-> Undefined]

CInit == /\ store = [k \in Keys |-> Undefined]
         /\ call = [c \in Callers |-> Idle]

Mutate == /\ store' \in Stores
          /\ UNCHANGED call

Invoke(c, k) ==
    /\ call[c].pc = "idle"
    /\ call' = [call EXCEPT ![c] = [pc |-> "pending", key |-> k,
                                    seen |-> store[k] # Undefined,
                                    result |-> Undefined]]
    /\ UNCHANGED store

Absent(c) == store[call[c].key] = Undefined

Decide(c, result) ==
    /\ call' = [call EXCEPT ![c] = [pc |-> "decided", key |-> call[c].key,
                                    seen |-> call[c].seen, result |-> result]]
    /\ UNCHANGED store

ReturnEntry(c) ==
    /\ call[c].pc = "pending"
    /\ ~Absent(c)
    /\ Decide(c, store[call[c].key])

Reject(c) ==
    /\ call[c].pc = "pending"
    /\ Absent(c) \/ ~call[c].seen
    /\ Decide(c, Rejected)

Lose(c) ==
    /\ AllowLost
    /\ call[c].pc = "pending"
    /\ Absent(c) /\ call[c].seen
    /\ Decide(c, Undefined)

Finish(c) ==
    /\ call[c].pc = "decided"
    /\ call' = [call EXCEPT ![c] = Idle]
    /\ UNCHANGED store

CNext == \/ Mutate
         \/ \E c \in Callers :
               \/ \E k \in Keys : Invoke(c, k)
               \/ ReturnEntry(c) \/ Reject(c) \/ Lose(c) \/ Finish(c)

CSpec == CInit /\ [][CNext]_cvars
=============================================================================
