------------------------------ MODULE OfferLinks ------------------------------
(***************************************************************************)
(* A link with a credential offer on its way from the issuer to wallets:   *)
(* the issuer's application, its REST server or an issuer of another make  *)
(* writes it, a wallet reads it with OpenID4VCIClient.fromURI, and may     *)
(* write what it has read as a link for another wallet                     *)
(* (CredentialOffer.toURI).  The issuer is one made with the builders, and *)
(* what it offers is what its metadata, which share the application's      *)
(* arrays, say then.                                                       *)
(***************************************************************************)
EXTENDS CredentialOfferURI, IssuerBuilders

CONSTANTS
    Options,     \* the options createCredentialOfferURI is called with
    OtherLinks   \* links made by other issuers

HasKey(payload, key) == \E i \in DOMAIN payload : payload[i].key = key

\* An application's payload is one of the two of CredentialOfferPayload: only
\* user_pin_required is a boolean, and no text is empty.  A value holds none of
\* the words that tell the wallet of a field of the other version, or of one that
\* is not there.
IsOffer(payload) ==
    LET fields == Range(payload)
        keys == {f.key : f \in fields}
    IN /\ payload \in Seq(fields)
       /\ \A i, j \in DOMAIN payload : payload[i].key = payload[j].key => i = j
       /\ \E f \in fields : ~Falsy(f.value)
       /\ \A f \in fields :
             \/ f.value.type \in {"text", "braces", "list", "object"} /\ f.value # Text("")
             \/ f.key = "user_pin_required" /\ f.value \in {Boolean("true"), Boolean("false")}
       /\ \/ /\ keys \subseteq {"issuer", "credential_type", "credentials", "pre-authorized_code",
                                "user_pin_required", "op_state"}
             /\ \A f \in fields :
                   f.value.words \cap (V11Words \cup {"issuer", "issuer_state", "credential_type"})
                       \subseteq keys
          \/ /\ keys \subseteq {"credential_issuer", "credentials", "credential_definition", "grants"}
             /\ \A f \in fields :
                   f.value.words \cap {"credential_issuer", "credentials", "credential_type"}
                       \subseteq keys

\* What stands in a link is text, some of it JSON.
LinkTypes == {"text", "json list", "json object", "braces", "malformed", "absent", "garbled"}

AreEntries(entries) == /\ entries \in Seq(Range(entries))
                       /\ \A e \in Range(entries) : e.value.type \in LinkTypes

ASSUME LinksAssumption ==
    /\ \A opts \in Options : opts.credentialOffer # <<>> => IsOffer(opts.credentialOffer)
    /\ \A uri \in OtherLinks : AreEntries(uri.entries)
    /\ \A v \in DOMAIN Reserved :
          /\ Reserved[v].head.type \in LinkTypes /\ AreEntries(Reserved[v].more)
          /\ Reserved[v].ends \in BOOLEAN

VARIABLES
    link,        \* the link
    from,        \* history: who has written it
    offered,     \* history: the payload this issuer has put in it
    read,        \* what the last wallet made of it
    passedOn     \* history: what the wallet had read that wrote it

history == <<from, offered, passedOn>>
links == <<link, read, history>>
vars == <<builders, links>>

Unread == [error |-> "unread", request |-> <<>>]

\* What there is of the metadata in an offer: the credentials supported, told by
\* the names in their lists, and the words of JSON the wallet looks for.
Named(i) == FlattenSeq([k \in 1 .. 2 |->
    Content(credentials[i].lists[<<"cryptographicBindingMethodsSupported",
                                   "cryptographicSuitesSupported">>[k]])])

Has(field) == \E k \in DOMAIN issuer : credentials[issuer[k]].lists[field] # Undefined

Metadata ==
    [credential_issuer |-> "https://issuer",
     credentials |-> FlattenSeq([k \in DOMAIN issuer |-> Named(issuer[k])]),
     words |-> (IF Has("cryptographicBindingMethodsSupported")
                THEN {"cryptographic_binding_methods_supported"} ELSE {})
          \cup (IF Has("cryptographicSuitesSupported") THEN {"cryptographic_suites_supported"} ELSE {})
          \cup (IF \E k \in DOMAIN issuer : credentials[issuer[k]].subject
                THEN {"credentialSubject"} ELSE {})]

Init ==
    /\ BuildersInit
    /\ link = [scheme |-> CREDENTIAL_OFFER, entries |-> <<>>, beyond |-> <<>>]
    /\ from = "nobody"
    /\ offered = <<>> /\ read = Unread /\ passedOn = <<>>
-----------------------------------------------------------------------------
\* Without metadata there must be an offer or a reference to one.
Offer(opts) ==
    /\ issuer # Undefined \/ opts.credentialOfferUri \/ opts.credentialOffer # <<>>
    /\ from = "nobody" /\ from' = "issuer"
    /\ link' = CreateCredentialOfferURI(Metadata, opts)
    /\ offered' = IF opts.credentialOfferUri THEN <<>>
                  ELSE IF opts.credentialOffer # <<>> THEN opts.credentialOffer
                  ELSE PayloadOf(Metadata, opts.preAuthorizedCode)
    /\ UNCHANGED <<builders, read, passedOn>>

\* GET /credential-offer/:pre_authorized_code.  The id it keeps for the code is
\* read nowhere and left out.
CredentialOfferEndpoint ==
    Offer([scheme |-> CREDENTIAL_OFFER, credentialOfferUri |-> FALSE,
           credentialOffer |-> <<>>, preAuthorizedCode |-> "code"])

\* Another issuer's link, to which these builders are nothing.
OtherOffer(uri) ==
    /\ calls = 0
    /\ from = "nobody" /\ from' = "other"
    /\ link' = uri
    /\ UNCHANGED <<builders, offered, read, passedOn>>

\* OpenID4VCIClient.fromURI, which retrieves the metadata unless told not to.
\* The retrieval needs the issuer (MetadataDiscovery has the rest of it).
FromURI(retrieveServerMetadata) ==
    /\ from # "nobody" /\ read.error = "unread"
    /\ LET error == FromURIError(link)
           request == ConvertURIToJsonObject(link, VersionOf(link))
       IN read' = IF error # "none" THEN [error |-> error, request |-> <<>>]
                  ELSE [error |-> IF retrieveServerMetadata /\ ~HasIssuer(request)
                                  THEN "NO_ISSUER" ELSE "none",
                        request |-> request]
    /\ UNCHANGED <<builders, link, history>>

\* CredentialOffer.toURI: a wallet writes what it has read as a link, for another.
PassOn ==
    /\ read.error = "none" /\ from # "wallet" /\ from' = "wallet"
    /\ link' = ToURI(read.request, link)
    /\ passedOn' = read.request
    /\ read' = Unread
    /\ UNCHANGED <<builders, offered>>
-----------------------------------------------------------------------------
\* A link that is out takes nothing more from the builders, and their steps are
\* left out from there.
Next ==
    \/ from = "nobody" /\ BuildersNext /\ UNCHANGED links
    \/ CredentialOfferEndpoint
    \/ \E opts \in Options : Offer(opts)
    \/ \E uri \in OtherLinks : OtherOffer(uri)
    \/ \E retrieve \in BOOLEAN : FromURI(retrieve)
    \/ PassOn

Spec == Init /\ [][Next]_vars
-----------------------------------------------------------------------------
\* The link is of the scheme of the offer's version, with the fields it must have.
Fits == IF link.scheme = CREDENTIAL_OFFER
        THEN HasKey(offered, "credential_issuer") /\ HasKey(offered, "credentials")
        ELSE HasKey(offered, "issuer") /\ HasKey(offered, "credential_type")

Readable == read.error \in {"none", "NO_ISSUER"}

Plain(payload) == \A i \in DOMAIN payload : payload[i].value.type # "braces"

\* Of this issuer's links the wallet reads none whose offer lacks a required field
\* or is of another version than the scheme, or which has only a reference to
\* the offer; and it reads every v9 offer that fits, and every such v11 offer that
\* has no pre-authorized code.  A text in braces is taken for JSON
\* (createCredentialOfferURI against CredentialOffer.fromURI).
ReadableLinks ==
    read.error # "unread" /\ from = "issuer" =>
        /\ Readable => Fits
        /\ /\ Fits /\ Plain(offered)
           /\ link.scheme = CREDENTIAL_OFFER =>
                 \A i \in DOMAIN offered : ~Says(offered[i], "pre-authorized_code")
           => Readable

\* A field of the offer comes through as the issuer gave it.
ComesThrough(field) ==
    field.key \in DOMAIN read.request /\ read.request[field.key].of = field.value.of

\* Of an offer that is read, every field with a value comes through that has
\* another in front of it, booleans and lists as text (encodeJsonAsURI behind
\* "credential_offer=", getURIComponentsAsArray).
LaterFieldsIntact ==
    read.request # <<>> /\ from = "issuer" =>
        \A i \in DOMAIN offered : \A j \in 1 .. i - 1 :
            ~Falsy(offered[i].value) /\ ~Falsy(offered[j].value) => ComesThrough(offered[i])

\* The wallet reads every link this issuer writes of an offer that fits, one with
\* a pre-authorized code too, the only flow that both packages say they support,
\* and every field with a value comes through, the first too.
OffersIntact ==
    read.error # "unread" /\ from = "issuer" /\ Fits /\ Plain(offered) =>
        /\ Readable
        /\ \A i \in DOMAIN offered : ~Falsy(offered[i].value) => ComesThrough(offered[i])

\* A value is written so that it stands in the link as one value.
StandsAlone(key, v) ==
    /\ ~Falsy(v)
    /\ \/ key \in Escaped
       \/ v \notin DOMAIN Reserved /\ v.type \notin {"list", "object"}

\* What a wallet reads of a link that a wallet has written of values that stand
\* alone is exactly what that wallet had read, the array of credential types and
\* the escaped values too, whatever is in them (CredentialOffer.toURI with
\* convertJsonToURI, against convertURIToJsonObject).
PassedOnPlain ==
    /\ from = "wallet" /\ Readable
    /\ \A key \in DOMAIN passedOn : StandsAlone(key, passedOn[key])
    => read.request = passedOn
=============================================================================
