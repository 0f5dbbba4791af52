---------------------------- MODULE IssuerBuilders ----------------------------
(***************************************************************************)
(* An application assembles its issuer with CredentialSupportedBuilderV1_11*)
(* and VcIssuerBuilder, and may go on using both builders, and the arrays  *)
(* it gave them, after build.                                              *)
(*                                                                         *)
(* A list of a builder, or of what it has built, is the application's own  *)
(* array, by reference, or one the builder has made (items).  Nothing ever *)
(* changes the latter, so they are told apart by what is in them only.     *)
(***************************************************************************)
EXTENDS Sequences, Naturals, FiniteSets

CONSTANTS
    Undefined,    \* JavaScript's undefined
    Arrays,       \* arrays of the application
    Names,        \* what they hold: names of types, methods, suites, displays
    Fields,       \* the lists of a credential builder that are used
    MaxCalls      \* bound of the application's calls, for model checking

ASSUME BuildersAssumption ==
    /\ Fields \subseteq {"types", "cryptographicBindingMethodsSupported",
                         "cryptographicSuitesSupported", "display"}
    /\ Undefined \notin Arrays \cup Names /\ Arrays \cap Names = {}
    /\ MaxCalls \in Nat

VARIABLES
    arrays,             \* what is in the application's arrays
    credentialBuilder,  \* whether it has a format, its lists, its credentialSubject
    credentials,        \* the credentials it has built, in order
    issuerBuilder,      \* what it has of each required part; credentialsSupported
    issuer,             \* credentials_supported of the issuer built last
    calls,              \* number of calls so far
    atBuild,            \* history: what the lists of every credential held when it was built
    changed             \* history: the arrays the application has changed

builders == <<arrays, credentialBuilder, credentials, issuerBuilder, issuer, calls, atBuild, changed>>

Parts == {"credentialEndpoint", "credentialIssuer", "credentialOfferStateManager", "cNonceStateManager"}

BuildersInit ==
    /\ arrays \in [Arrays -> {<<n>> : n \in Names}]
    /\ credentialBuilder = [format |-> FALSE, lists |-> [f \in Fields |-> Undefined],
                            subject |-> Undefined]
    /\ credentials = <<>> /\ atBuild = <<>>
    /\ issuerBuilder \in [parts : {Parts} \cup {Parts \ {p} : p \in Parts}, credentialsSupported : {Undefined}]
    /\ issuer = Undefined
    /\ calls = 0 /\ changed = {}

Call == calls < MaxCalls /\ calls' = calls + 1

Shared(array) == [array |-> array, items |-> <<>>]
Made(items) == [array |-> Undefined, items |-> items]
Content(list) == CASE list = Undefined -> <<>>
                   [] list # Undefined -> IF list.array # Undefined THEN arrays[list.array]
                                          ELSE list.items

\* An argument is one element or an array.
With(arg) == IF arg \in Arrays THEN Shared(arg) ELSE Made(<<arg>>)
Add(list, arg) ==
    IF list = Undefined THEN With(arg)
    ELSE Made(Content(list) \o IF arg \in Arrays THEN arrays[arg] ELSE <<arg>>)
-----------------------------------------------------------------------------
\* CredentialSupportedBuilderV1_11

\* addTypes puts an array among the binding methods.
AddedField(field, arg) ==
    IF field = "types" /\ arg \in Arrays THEN "cryptographicBindingMethodsSupported" ELSE field

\* Mutant of AddToList: the list is extended in place.
AddToListInPlace(field, arg) ==
    LET f == AddedField(field, arg)
        list == credentialBuilder.lists[f]
        more == IF arg \in Arrays THEN arrays[arg] ELSE <<arg>>
    IN /\ f \in Fields
       /\ Call
       /\ IF list # Undefined /\ list.array # Undefined
          THEN /\ arrays' = [arrays EXCEPT ![list.array] = @ \o more]
               /\ UNCHANGED credentialBuilder
          ELSE /\ credentialBuilder' = [credentialBuilder EXCEPT !.lists[f] = Add(@, arg)]
               /\ UNCHANGED arrays
       /\ UNCHANGED <<credentials, issuerBuilder, issuer, atBuild, changed>>

\* The add methods copy, but for the first array.
AddToList(field, arg) ==
    LET f == AddedField(field, arg)
    IN /\ f \in Fields
       /\ Call
       /\ credentialBuilder' = [credentialBuilder EXCEPT !.lists[f] = Add(@, arg)]
       /\ UNCHANGED <<arrays, credentials, issuerBuilder, issuer, atBuild, changed>>

WithList(field, arg) ==
    /\ Call
    /\ credentialBuilder' = [credentialBuilder EXCEPT !.lists[field] = With(arg)]
    /\ UNCHANGED <<arrays, credentials, issuerBuilder, issuer, atBuild, changed>>

WithFormat ==
    /\ Call
    /\ credentialBuilder' = [credentialBuilder EXCEPT !.format = TRUE]
    /\ UNCHANGED <<arrays, credentials, issuerBuilder, issuer, atBuild, changed>>

\* The one object of the builder, which all it has built share.
WithIssuerCredentialSubjectDisplay(name) ==
    /\ Call
    /\ credentialBuilder' = [credentialBuilder EXCEPT
          !.subject = IF @ = Undefined THEN {name} ELSE @ \cup {name}]
    /\ UNCHANGED <<arrays, credentials, issuerBuilder, issuer, atBuild, changed>>

\* build, which throws without a format and leaves the types out.
BuildCredential ==
    /\ Call
    /\ IF credentialBuilder.format
       THEN LET lists == [f \in Fields \ {"types"} |-> credentialBuilder.lists[f]]
            IN /\ credentials' = Append(credentials,
                     [lists |-> lists, subject |-> credentialBuilder.subject # Undefined])
               /\ atBuild' = Append(atBuild, [f \in DOMAIN lists |-> Content(lists[f])])
       ELSE UNCHANGED <<credentials, atBuild>>
    /\ UNCHANGED <<arrays, credentialBuilder, issuerBuilder, issuer, changed>>

\* The application changes an array of its own.
Push(array, name) ==
    /\ Call
    /\ arrays' = [arrays EXCEPT ![array] = Append(@, name)]
    /\ changed' = changed \cup {array}
    /\ UNCHANGED <<credentialBuilder, credentials, issuerBuilder, issuer, atBuild>>
-----------------------------------------------------------------------------
\* VcIssuerBuilder.  Its other lists are made as those of a credential.

AddCredentialsSupported(i) ==
    /\ Call
    /\ issuerBuilder' = [issuerBuilder EXCEPT
          !.credentialsSupported = IF @ = Undefined THEN <<i>> ELSE Append(@, i)]
    /\ UNCHANGED <<arrays, credentialBuilder, credentials, issuer, atBuild, changed>>

WithCredentialsSupported(i) ==
    /\ Call
    /\ issuerBuilder' = [issuerBuilder EXCEPT !.credentialsSupported = <<i>>]
    /\ UNCHANGED <<arrays, credentialBuilder, credentials, issuer, atBuild, changed>>

\* build throws unless it has all of its parts.
BuildIssuer ==
    /\ Call
    /\ issuer' = IF issuerBuilder.parts = Parts /\ issuerBuilder.credentialsSupported # Undefined
                 THEN issuerBuilder.credentialsSupported ELSE issuer
    /\ UNCHANGED <<arrays, credentialBuilder, credentials, issuerBuilder, atBuild, changed>>
-----------------------------------------------------------------------------
BuildersNext ==
    \/ \E field \in Fields, arg \in Arrays \cup Names : AddToList(field, arg) \/ WithList(field, arg)
    \/ WithFormat
    \/ \E name \in Names : WithIssuerCredentialSubjectDisplay(name)
    \/ BuildCredential
    \/ \E array \in Arrays, name \in Names : Push(array, name)
    \/ \E i \in DOMAIN credentials : AddCredentialsSupported(i) \/ WithCredentialsSupported(i)
    \/ BuildIssuer

\* What the application goes on to tell the builder changes nothing in the lists
\* of a credential it has built: only the application's own change of an array
\* that it handed over does (the add methods, which copy, and build, which does
\* not).
BuiltChangesByOwnerOnly ==
    \A i \in DOMAIN credentials :
        \A f \in DOMAIN atBuild[i] :
            LET list == credentials[i].lists[f]
            IN Content(list) # atBuild[i][f] => list.array \in changed
=============================================================================
