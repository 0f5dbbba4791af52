-------------------------- MODULE OfferRedemption ---------------------------
(***************************************************************************)
(* What the issuer promises of every request that redeems a stored offer,  *)
(* be it a token request or a call for a credential.  The offer is read    *)
(* from the store at one instant after the request was made, the request   *)
(* is granted at one instant after that, at which it redeems the offer it  *)
(* read, and only then it is answered.  A request that is not granted, or  *)
(* whose answer fails, is closed; what is answered or closed stays so.     *)
(* The store belongs to the application, which changes it at any time; if  *)
(* the process ends, every request it had is closed.                       *)
(***************************************************************************)
EXTENDS Naturals

CONSTANTS
    Undefined,
    Requests,
    Keys,      \* of the store of offers
    Offers,
    Forms,     \* what a request says when it is made
    Proofs,    \* what it may show later
    Redeemable(_, _, _, _)   \* this form and proof redeem this offer at this time

VARIABLES offers, now, request

rvars == <<offers, now, request>>

OfferStores == [Keys -> Offers \cup {Undefined}]

Record(pc, key, form, offer, proof) ==
    [pc |-> pc, key |-> key, form |-> form, offer |-> offer, proof |-> proof]

Unsent == Record("unsent", Undefined, Undefined, Undefined, Undefined)
Closed == Record("closed", Undefined, Undefined, Undefined, Undefined)

RInit == /\ offers = [k \in Keys |-> Undefined]
         /\ now = 0
         /\ request = [r \in Requests |-> Unsent]

Move(r, q) == request' = [request EXCEPT ![r] = q] /\ UNCHANGED <<offers, now>>

Ask(r, form) ==
    /\ request[r].pc = "unsent"
    /\ \E key \in Keys \cup {Undefined} :
          Move(r, Record("asked", key, form, Undefined, Undefined))

Read(r) ==
    LET q == request[r]
    IN /\ q.pc = "asked"
       /\ q.key \in Keys /\ offers[q.key] # Undefined
       /\ Move(r, Record("held", q.key, q.form, offers[q.key], Undefined))

Grant(r) ==
    LET q == request[r]
    IN /\ q.pc = "held"
       /\ \E proof \in Proofs \cup {Undefined} :
             /\ Redeemable(q.form, q.offer, proof, now)
             /\ Move(r, Record("granted", q.key, q.form, q.offer, proof))

Deliver(r) ==
    LET q == request[r]
    IN /\ q.pc = "granted"
       /\ Move(r, Record("delivered", q.key, q.form, q.offer, q.proof))

Open == {"asked", "held", "granted"}

Close(r) == request[r].pc \in Open /\ Move(r, Closed)

Halt == /\ request' = [r \in Requests |->
                          IF request[r].pc \in Open THEN Closed ELSE request[r]]
        /\ offers' = [k \in Keys |-> Undefined]
        /\ UNCHANGED now

Change == /\ offers' \in OfferStores
          /\ now' \in Nat /\ now <= now'
          /\ UNCHANGED request

RNext == \/ \E r \in Requests :
               \/ \E form \in Forms : Ask(r, form)
               \/ Read(r) \/ Grant(r) \/ Deliver(r) \/ Close(r)
         \/ Halt \/ Change

RSpec == RInit /\ [][RNext]_rvars
=============================================================================
