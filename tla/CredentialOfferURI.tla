--------------------------- MODULE CredentialOfferURI ---------------------------
(***************************************************************************)
(* From a credential offer to a URI and back, as pure definitions: the     *)
(* issuer writes (createCredentialOfferURI, encodeJsonAsURI), the wallet   *)
(* reads (CredentialOffer.fromURI with determineSpecVersionFromURI and     *)
(* convertURIToJsonObject) and writes (CredentialOffer.toURI).             *)
(*                                                                         *)
(* A payload is a sequence of fields in the order of the object's keys.  A *)
(* URI is its scheme, the entries between "&" up to a second "?", each     *)
(* with its key and the value that stands between the first and the second *)
(* "=", and the entries beyond.  Of a value is kept what it is (type),     *)
(* what it says (of) and which of the words the wallet looks for it        *)
(* contains (words).  Keys hold none of the characters "=&?%".             *)
(***************************************************************************)
EXTENDS SequencesExt

\* The values with one of "=&?%" in what a template literal makes of them: what
\* a reader finds where one is written unescaped.  Up to the first "&" it is the
\* value (head), behind it further entries (more), and a "?" ends what is read
\* of the link.
CONSTANT Reserved

CREDENTIAL_OFFER == "openid-credential-offer"

Value(type, of, words) == [type |-> type, of |-> of, words |-> words]
Field(key, value) == [key |-> key, value |-> value]

\* Texts are of type "text", "json list" and "json object" if they are JSON,
\* "braces" if they stand in braces and are none, "malformed" if they cannot be
\* unescaped, "garbled" if String() has made them of an array or object.  No "="
\* in an entry is "absent".
Text(t) == Value("text", <<t>>, {})
List(texts, words) == Value("list", texts, words)
Object(of, words) == Value("object", of, words)
Boolean(b) == Value("boolean", <<b>>, {})   \* "true" or "false"

Falsy(v) == v \in {Boolean("false"), Text("")}

V11Words == {"credential_issuer", "cryptographic_binding_methods_supported",
             "cryptographic_suites_supported", "credentialSubject"}

\* uri.includes(word): the word may be part of another, and stand anywhere.
Within(word) == IF word = "issuer" THEN {"issuer", "credential_issuer", "issuer_state"}
                ELSE {word}

Says(entry, word) == \E w \in Within(word) : w = entry.key \/ w \in entry.value.words

Includes(uri, word) == \E e \in Range(uri.entries) \cup Range(uri.beyond) : Says(e, word)
-----------------------------------------------------------------------------
\* The issuer's side.

\* encodeJsonAsURI: numbers and booleans as they are, texts escaped, anything
\* else as escaped JSON.
EncodedValue(v) ==
    CASE v.type = "boolean" -> Text(v.of[1])
      [] v.type = "list"    -> Value("json list", v.of, v.words)
      [] v.type = "object"  -> Value("json object", v.of, v.words)
      [] OTHER              -> v

EncodedEntries(f) == IF Falsy(f.value) THEN <<>> ELSE <<Field(f.key, EncodedValue(f.value))>>

\* Mutant of EncodeJsonAsURI: only texts and lists are written.
EncodeTextsOnly(payload) ==
    FlattenSeq([i \in DOMAIN payload |->
        IF payload[i].value.type = "object" THEN <<>> ELSE EncodedEntries(payload[i])])

EncodeJsonAsURI(payload) == FlattenSeq([i \in DOMAIN payload |-> EncodedEntries(payload[i])])

\* "credential_offer=" in front of the entries makes the first key the value.
Prefixed(entries) ==
    <<Field("credential_offer",
            Value("text", <<entries[1].key>>, {entries[1].key} \cup entries[1].value.words))>>
        \o Tail(entries)

\* The payload made of the issuer's metadata; preAuthorizedCode may be Undefined.
PayloadOf(metadata, preAuthorizedCode) ==
    << Field("credential_issuer", Text(metadata.credential_issuer)),
       Field("credentials", List(metadata.credentials, metadata.words)),
       Field("grants", Object(<<preAuthorizedCode>>,
                {"authorization_code", "issuer_state"}
                   \cup IF preAuthorizedCode = "none" THEN {} ELSE {"pre-authorized_code"})) >>

\* opts: the scheme, and one of a reference to an offer, an offer, a code.
CreateCredentialOfferURI(metadata, opts) ==
    [scheme |-> opts.scheme, beyond |-> <<>>,
     entries |->
        IF opts.credentialOfferUri THEN <<Field("credential_offer_uri", Text("url"))>>
        ELSE Prefixed(EncodeJsonAsURI(
                IF opts.credentialOffer # <<>> THEN opts.credentialOffer
                ELSE PayloadOf(metadata, opts.preAuthorizedCode)))]
-----------------------------------------------------------------------------
\* The wallet's side.

\* determineSpecVersionFromURI: the scheme decides, and a word of the other
\* version is an error.
VersionOf(uri) == IF uri.scheme = CREDENTIAL_OFFER THEN "v11" ELSE "v9"

\* Mutant of VersionsMixed: "issuer" is taken for a key of v9 only.
IssuerIsOld(uri) ==
    IF VersionOf(uri) = "v11" THEN \E word \in {"pre-authorized_code", "issuer"} : Includes(uri, word)
    ELSE \E word \in V11Words : Includes(uri, word)

VersionsMixed(uri) ==
    IF VersionOf(uri) = "v11" THEN Includes(uri, "pre-authorized_code")
    ELSE \E word \in V11Words : Includes(uri, word)

RequiredProperties(version) ==
    IF version = "v11" THEN {"credentials", "credential_issuer"} ELSE {"issuer", "credential_type"}

ArrayTypeProperty(version) == IF version = "v11" THEN "credentials" ELSE "credential_type"

EntriesOf(entries, key) ==
    FlattenSeq([i \in DOMAIN entries |-> IF entries[i].key = key THEN <<entries[i]>> ELSE <<>>])

\* decodeJsonProperties, of an array: "undefined" is the text of an absent value.
\* Of any other value: a JSON object is parsed, any other JSON stays text.
UnescapedValue(v) == IF v.type = "absent" THEN Text(v.of[1]) ELSE v
DecodedValue(v) == IF v.type = "json object" THEN Object(v.of, v.words) ELSE v

\* The value of a key: an array if it may be one and has several entries (what
\* each says first), else what its only entry says; of any other key the last
\* entry counts.
ValueOf(uri, key, version) ==
    LET own == EntriesOf(uri.entries, key)
    IN IF key # ArrayTypeProperty(version) THEN DecodedValue(Last(own).value)
       ELSE IF Len(own) = 1 THEN UnescapedValue(own[1].value)
       ELSE List([i \in DOMAIN own |-> own[i].value.of[1]],
                 UNION {own[i].value.words : i \in DOMAIN own})

KeysOf(uri) == {e.key : e \in Range(uri.entries)}

\* An array always has a value, however empty what is in it.
HasValue(uri, key, version) ==
    key = ArrayTypeProperty(version)
    \/ LET v == Last(EntriesOf(uri.entries, key)).value IN v.type # "absent" /\ ~Falsy(v)

\* convertURIToJsonObject, as a function from the keys.
ConvertURIToJsonObject(uri, version) ==
    [key \in {k \in KeysOf(uri) : HasValue(uri, k, version)} |-> ValueOf(uri, key, version)]

\* decodeURIComponent throws, of an array's elements too, and so does JSON.parse
\* of a text in braces.
Undecodable(uri, version) ==
    \E key \in KeysOf(uri) :
        LET own == EntriesOf(uri.entries, key)
        IN IF key = ArrayTypeProperty(version)
           THEN \E e \in Range(own) : e.value.type = "malformed"
           ELSE Last(own).value.type \in {"malformed", "braces"}

\* Without entries there is no "?", or nothing behind it, which is an error of
\* its own in the code.
FromURIError(uri) ==
    IF uri.entries = <<>> THEN "INVALID_PAYLOAD"
    ELSE IF VersionsMixed(uri) THEN "MIXED_VERSIONS"
    ELSE IF \E p \in RequiredProperties(VersionOf(uri)) : ~Includes(uri, p) THEN "BAD_PARAMS"
    ELSE IF Undecodable(uri, VersionOf(uri)) THEN "UNDECODABLE"
    ELSE "none"

\* Whether a payload names an issuer: only the v9 field is looked at.
HasIssuer(request) == "issuer" \in DOMAIN request /\ "credential_issuer" \notin DOMAIN request

\* convertJsonToURI as CredentialOffer.toURI calls it: issuer and
\* credential_type are escaped, the others written as they are, unless falsy.
Escaped == {"issuer", "credential_type"}

\* What `${value}` makes of a value: the elements of an array with commas
\* between them, "[object Object]" of an object.
AsItIs(v) ==
    CASE v.type = "list"   -> Value("garbled", <<"elements">>, v.words)
      [] v.type = "object" -> Value("garbled", <<"[object Object]">>, {})
      [] OTHER             -> v

UnescapedEntries(f) ==
    IF f.value \in DOMAIN Reserved
    THEN <<Field(f.key, Reserved[f.value].head)>> \o Reserved[f.value].more
    ELSE <<Field(f.key, AsItIs(f.value))>>

\* Mutant of ConvertedEntries: an array is written as one JSON text.
ConvertedAsJson(f) ==
    CASE Falsy(f.value)        -> <<>>
      [] f.key \notin Escaped  -> UnescapedEntries(f)
      [] OTHER                 -> <<Field(f.key, EncodedValue(f.value))>>

ConvertedEntries(f) ==
    IF Falsy(f.value) THEN <<>>
    ELSE IF f.key \notin Escaped THEN UnescapedEntries(f)
    ELSE IF f.key = "credential_type" /\ f.value.type = "list"
    THEN [i \in DOMAIN f.value.of |-> Field(f.key, Value("text", <<f.value.of[i]>>, f.value.words))]
    ELSE <<Field(f.key, EncodedValue(f.value))>>

EndsLink(f) ==
    f.key \notin Escaped /\ f.value \in DOMAIN Reserved /\ Reserved[f.value].ends

\* What was read of a link is written again: the object has its keys in the order
\* in which the link has them first.
ToURI(request, uri) ==
    LET entries == uri.entries
        isField(i) == entries[i].key \in DOMAIN request
                      /\ \A j \in 1 .. i - 1 : entries[j].key # entries[i].key
        field(i) == Field(entries[i].key, request[entries[i].key])
        written(i) == IF isField(i) THEN ConvertedEntries(field(i)) ELSE <<>>
        isBeyond(i) == \E j \in 1 .. i - 1 : isField(j) /\ EndsLink(field(j))
    IN [scheme |-> uri.scheme,
        entries |-> FlattenSeq([i \in DOMAIN entries |-> IF isBeyond(i) THEN <<>> ELSE written(i)]),
        beyond |-> FlattenSeq([i \in DOMAIN entries |-> IF isBeyond(i) THEN written(i) ELSE <<>>])]
=============================================================================
