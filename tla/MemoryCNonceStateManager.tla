---------------------- MODULE MemoryCNonceStateManager ----------------------
(***************************************************************************)
(* MemoryCNonceStateManager: the store of MemoryStateManager with the      *)
(* cleanup routine, an interval timer that runs clearExpiredStates.  A     *)
(* timer callback is a task of its own: it runs only when no microtask is  *)
(* waiting.  The length of the interval is left out: a timer may fire at   *)
(* every such moment.                                                      *)
(*                                                                         *)
(* Without a timestamp the routine compares createdOn with the time of     *)
(* each firing; with one, every firing compares with that same timestamp.  *)
(***************************************************************************)
EXTENDS MemoryStateManager

CONSTANT MaxTimers   \* bound of the timers ever created, for model checking

ASSUME TimerAssumption == MaxTimers \in Nat

VARIABLES
    intervalRoutineId,   \* the field of that name; 0 stands for undefined
    timers               \* the interval timers the runtime still fires

nvars == <<store, call, now, intervalRoutineId, timers>>

Timer == [id : 1 .. MaxTimers, timestamp : Times \cup {Undefined}]

NTypeOK == /\ TypeOK
           /\ intervalRoutineId \in 0 .. MaxTimers
           /\ timers \subseteq Timer

NInit == Init /\ intervalRoutineId = 0 /\ timers = {}

\* Mutant of StartCleanupRoutine: a timer per call.
StartUnguarded(timestamp) ==
    /\ intervalRoutineId < MaxTimers
    /\ intervalRoutineId' = intervalRoutineId + 1
    /\ timers' = timers \cup {[id |-> intervalRoutineId + 1, timestamp |-> timestamp]}
    /\ UNCHANGED vars

StartCleanupRoutine(timestamp) ==
    /\ intervalRoutineId = 0
    /\ intervalRoutineId < MaxTimers
    /\ intervalRoutineId' = intervalRoutineId + 1
    /\ timers' = timers \cup {[id |-> intervalRoutineId + 1, timestamp |-> timestamp]}
    /\ UNCHANGED vars

\* clearInterval ends the timer; intervalRoutineId keeps its value.
StopCleanupRouting ==
    /\ intervalRoutineId # 0
    /\ timers' = {x \in timers : x.id # intervalRoutineId}
    /\ UNCHANGED <<vars, intervalRoutineId>>

MicrotasksDrained == \A c \in Callers : call[c].pc = "idle"

FireCleanup ==
    /\ MicrotasksDrained
    /\ \E x \in timers : ClearExpired(x.timestamp)
    /\ UNCHANGED <<intervalRoutineId, timers>>

NNext ==
    \/ Next /\ UNCHANGED <<intervalRoutineId, timers>>
    \/ \E timestamp \in Times \cup {Undefined} : StartCleanupRoutine(timestamp)
    \/ StopCleanupRouting
    \/ FireCleanup

\* The microtasks of a call are run; the event loop returns to its timers
\* again and again, so a timer that is due between turns fires.
NFairness ==
    /\ \A c \in Callers :
          WF_nvars(CallStep(c) /\ UNCHANGED <<intervalRoutineId, timers>>)
    /\ SF_nvars(FireCleanup)

NSpec == NInit /\ [][NNext]_nvars /\ NFairness
-----------------------------------------------------------------------------
Running(timestamp) == \E x \in timers : x.timestamp = timestamp

Expired(k, threshold) == k \in ExpiredKeys(store, threshold)

\* While a routine runs, an entry that is expired for it does not stay: it is
\* removed or refreshed.  Expired is what is older than the clock or, for a
\* routine given a timestamp, older than that, also if it was written after
\* the timer was started (startCleanupRoutine, clearExpiredStates).
CleanupCollects ==
    \A k \in Keys :
        /\ (Running(Undefined) /\ Expired(k, now))
               ~> (~Expired(k, now) \/ ~Running(Undefined))
        /\ \A t \in Times :
               (Running(t) /\ Expired(k, t)) ~> (~Expired(k, t) \/ ~Running(t))

\* Whatever the order of starts and stops, stopCleanupRouting reaches every
\* timer that still fires: none is left running under a forgotten id.
StopReachesEveryTimer == \A x \in timers : x.id = intervalRoutineId
=============================================================================
