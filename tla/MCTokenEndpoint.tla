-------------------------- MODULE MCTokenEndpoint ---------------------------
EXTENDS TokenEndpoint, TLC

\* Texts of a PIN: the issuer's own, another, and one of blanks, which is the
\* number zero.
RightPin == [length |-> 4, numeric |-> TRUE, value |-> 1, pinChar |-> TRUE]
WrongPin == [RightPin EXCEPT !.value = 2]
BlankPin == [length |-> 2, numeric |-> TRUE, value |-> 0, pinChar |-> FALSE]

SomePins == {RightPin, WrongPin, BlankPin}

NoPinOffer == [preAuthGrant |-> TRUE, code |-> "code", pinRequired |-> FALSE,
               userPin |-> Undefined]
PinOffer   == [NoPinOffer EXCEPT !.pinRequired = TRUE, !.userPin = 1]
\* CredentialOfferStateBuilder never sets userPin; the type demands one.
BuilderOffer == [NoPinOffer EXCEPT !.pinRequired = TRUE]
TypedOffer   == [NoPinOffer EXCEPT !.userPin = 1]
OtherGrant   == [NoPinOffer EXCEPT !.preAuthGrant = FALSE]

SomeOffers == {NoPinOffer, PinOffer, BuilderOffer, OtherGrant}
TypedOffers == {TypedOffer}

Redeem(s, pin) == [state |-> s, grantType |-> PreAuthorizedCode, code |-> "code",
                   pin |-> pin]

\* Requests of every PIN, and one each with another grant, code or no state.
SomeBodies == {Redeem(s, pin) : s \in States, pin \in SomePins \cup {Undefined}}
    \cup {[Redeem(s, Undefined) EXCEPT !.grantType = "authorization_code"] : s \in States}
    \cup {[Redeem(s, RightPin) EXCEPT !.code = "other"] : s \in States}
    \cup {Redeem(Undefined, Undefined)}
=============================================================================
