------------------------------ MODULE MCOfferLinks ------------------------------
EXTENDS OfferLinks

V9Offer(types, pinRequired, state) ==
    << Field("issuer", Value("text", <<"https://issuer">>, {"issuer"})), Field("credential_type", types),
       Field("pre-authorized_code", Text("code=")),
       Field("user_pin_required", Boolean(pinRequired)), Field("op_state", state) >>

V11Offer(grants) ==
    << Field("credentials", List(<<"degree">>, {})),
       Field("credential_issuer", Text("https://issuer")), Field("grants", grants) >>

StateGrant == Object(<<"state">>, {"authorization_code", "issuer_state"})
CodeGrant == Object(<<"code">>, {"pre-authorized_code"})

Opts(schemes, offers, codes) ==
    [scheme : schemes, credentialOfferUri : BOOLEAN, credentialOffer : offers, preAuthorizedCode : codes]

SomeOptions ==
    Opts({CREDENTIAL_OFFER, "openid-initiate-issuance"},
         {<<>>, V11Offer(StateGrant), V9Offer(List(<<"degree", "license">>, {}), "true", Text("state")),
          V9Offer(Text("degree"), "false", Value("braces", <<"{state}">>, {}))},
         {"none", "code"})

\* A v11 offer with a pre-authorized code and one with a state.
TwoOptions == Opts({CREDENTIAL_OFFER}, {V11Offer(CodeGrant), V11Offer(StateGrant)}, {"none"})

\* Texts with each of the reserved characters, and a JSON text with one.
Absent == Value("absent", <<"undefined">>, {})
Adding == Value("text", <<"a&issuer=b&c">>, {"issuer"})
SomeList == Value("json list", <<"degree", "&">>, {})

Find(head, more, ends) == [head |-> head, more |-> more, ends |-> ends]
SomeReserved ==
    Text("code=") :> Find(Text("code"), <<>>, FALSE)
    @@ Adding :> Find(Text("a"), <<Field("issuer", Text("b")), Field("c", Absent)>>, FALSE)
    @@ Text("a?b") :> Find(Text("a"), <<>>, TRUE)
    @@ Text("100%") :> Find(Value("malformed", <<"100%">>, {}), <<>>, FALSE)
    @@ Text("%25") :> Find(Text("%"), <<>>, FALSE)
    @@ SomeList :> Find(Text("[degree,"), <<Field("]", Absent)>>, FALSE)

States == {Text("state"), Text("code="), Adding, Text("a?b"), Text("100%"), Text("%25"), Text(""), Absent,
           Value("malformed", <<"%">>, {}), Value("braces", <<"{a}">>, {}),
           Value("json object", <<"state">>, {})}

\* Any of these entries, in this order, or no question mark.
Entries(state) ==
    << Field("issuer", Text("https://other")), Field("credential_type", Text("degree")),
       Field("op_state", state), Field("credential_type", Text("license")),
       Field("pre-authorized_code", Text("code")), Field("credentials", SomeList),
       Field("credentials", Absent), Field("credential_issuer", Text("https://other")) >>

LinksOfOthers ==
    {[scheme |-> scheme, beyond |-> <<>>,
      entries |-> SelectSeq(Entries(state), LAMBDA e : e.key \in keys)] :
        scheme \in {CREDENTIAL_OFFER, "openid-initiate-issuance"}, state \in States,
        keys \in SUBSET {e.key : e \in Range(Entries(Absent))}}

NoLinks == {}
=============================================================================
