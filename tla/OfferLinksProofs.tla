---------------------------- MODULE OfferLinksProofs ----------------------------
(***************************************************************************)
(* Proofs about OfferLinks and the IssuerBuilders it is made with, for any *)
(* arrays, names and number of calls, and any offers and links: what is    *)
(* built, what a wallet reads of a link and what it passes on.             *)
(***************************************************************************)
EXTENDS OfferLinks, FiniteSetTheorems, SequenceTheorems, TLAPS

\* The builders.

\* The types of the lists and of what is built of them.  A field of a credential
\* is any but the types, which build leaves out.
Lists == {Undefined} \cup [array : Arrays \cup {Undefined}, items : Seq(Names)]
BuiltFields == Fields \ {"types"}
Built == [lists : [BuiltFields -> Lists], subject : BOOLEAN]
Contents == [BuiltFields -> Seq(Names)]

\* The types the property rests on, with every credential's contents at build.
BuildersOK ==
    /\ arrays \in [Arrays -> Seq(Names)]
    /\ DOMAIN credentialBuilder = {"format", "lists", "subject"}
    /\ credentialBuilder.lists \in [Fields -> Lists]
    /\ credentials \in Seq(Built)
    /\ atBuild \in Seq(Contents)
    /\ Len(atBuild) = Len(credentials)

BuildersInv == BuildersOK /\ BuiltChangesByOwnerOnly

LEMMA WithIsList ==
    ASSUME NEW arg \in Arrays \cup Names
    PROVE  With(arg) \in Lists
  BY DEF With, Shared, Made, Lists

LEMMA ContentIsNames ==
    ASSUME arrays \in [Arrays -> Seq(Names)], NEW list \in Lists
    PROVE  Content(list) \in Seq(Names)
  BY DEF Lists, Content

LEMMA AddIsList ==
    ASSUME arrays \in [Arrays -> Seq(Names)], NEW list \in Lists, NEW arg \in Arrays \cup Names
    PROVE  Add(list, arg) \in Lists
<1> DEFINE more == IF arg \in Arrays THEN arrays[arg] ELSE <<arg>>
           old == Content(list)
<1>1. more \in Seq(Names) /\ old \in Seq(Names)
  BY ContentIsNames
<1> HIDE DEF more, old
<1>2. Made(old \o more) \in Lists
  BY <1>1 DEF Made, Lists
<1> QED BY <1>2, WithIsList DEF Add, more, old

LEMMA BuildersInitially == BuildersInit => BuildersInv
<1> SUFFICES ASSUME BuildersInit PROVE BuildersInv
  OBVIOUS
<1>1. arrays \in [Arrays -> Seq(Names)]
  <2>1. {<<n>> : n \in Names} \subseteq Seq(Names)
    OBVIOUS
  <2> QED BY <2>1 DEF BuildersInit
<1> QED BY <1>1 DEF BuildersInit, BuildersInv, BuildersOK, Lists, BuiltChangesByOwnerOnly

\* A call that changes at most one list of the builder leaves what it has built.
LEMMA BuilderChangesInv ==
    ASSUME BuildersInv, UNCHANGED <<arrays, credentials, atBuild, changed>>,
           \/ UNCHANGED credentialBuilder
           \/ \E f \in Fields, list \in Lists :
                 credentialBuilder' = [credentialBuilder EXCEPT !.lists[f] = list]
           \/ \E format : credentialBuilder' = [credentialBuilder EXCEPT !.format = format]
           \/ \E subject : credentialBuilder' = [credentialBuilder EXCEPT !.subject = subject]
    PROVE  BuildersInv'
<1>1. credentialBuilder'.lists \in [Fields -> Lists]
      /\ DOMAIN credentialBuilder' = {"format", "lists", "subject"}
  BY DEF BuildersInv, BuildersOK
<1> QED BY <1>1 DEF BuildersInv, BuildersOK, BuiltChangesByOwnerOnly, Content

LEMMA AddToListInv ==
    ASSUME BuildersInv, NEW field \in Fields, NEW arg \in Arrays \cup Names, AddToList(field, arg)
    PROVE  BuildersInv'
<1> DEFINE f == AddedField(field, arg)
           list == Add(credentialBuilder.lists[f], arg)
<1>1. f \in Fields /\ UNCHANGED <<arrays, credentials, atBuild, changed>>
      /\ credentialBuilder' = [credentialBuilder EXCEPT !.lists[f] = list]
  BY DEF AddToList
<1>2. list \in Lists
  BY <1>1, AddIsList DEF BuildersInv, BuildersOK
<1> HIDE DEF f, list
<1> QED BY <1>1, <1>2, BuilderChangesInv

\* One list of a credential is as it was at build, or its array was changed.
Kept(credential, contents, f) ==
    Content(credential.lists[f]) # contents[f] => credential.lists[f].array \in changed

LEMMA BuildCredentialInv ==
    ASSUME BuildersInv, BuildCredential
    PROVE  BuildersInv'
<1>1. CASE ~credentialBuilder.format
  BY <1>1, BuilderChangesInv DEF BuildCredential
<1>2. CASE credentialBuilder.format
  <2> DEFINE lists == [f \in BuiltFields |-> credentialBuilder.lists[f]]
             credential == [lists |-> lists, subject |-> credentialBuilder.subject # Undefined]
             contents == [f \in BuiltFields |-> Content(lists[f])]
  <2>1. /\ credentials' = Append(credentials, credential)
        /\ atBuild' = Append(atBuild, contents)
        /\ UNCHANGED <<arrays, credentialBuilder, changed>>
    BY <1>2 DEF BuildCredential, BuiltFields
  <2>2. lists \in [BuiltFields -> Lists]
    BY DEF BuildersInv, BuildersOK, BuiltFields
  <2>3. contents \in Contents
    BY <2>2, ContentIsNames DEF BuildersInv, BuildersOK, Contents
  <2>4. \A f \in DOMAIN contents : contents[f] = Content(credential.lists[f])
    OBVIOUS
  <2>5. credential \in Built /\ credential.lists = lists
    BY <2>2 DEF Built
  <2> HIDE DEF lists, credential, contents
  <2>6. BuildersOK'
    BY <2>1, <2>3, <2>5 DEF BuildersInv, BuildersOK
  <2>7. /\ \A i \in DOMAIN credentials : credentials'[i] = credentials[i] /\ atBuild'[i] = atBuild[i]
        /\ DOMAIN credentials' = DOMAIN credentials \cup {Len(credentials) + 1}
        /\ credentials'[Len(credentials) + 1] = credential
        /\ atBuild'[Len(credentials) + 1] = contents
    BY <2>1, <2>3, <2>5 DEF BuildersInv, BuildersOK
  <2>8. BuiltChangesByOwnerOnly'
    <3>1. \A i \in DOMAIN credentials : \A f \in DOMAIN atBuild[i] :
             Kept(credentials'[i], atBuild'[i], f)
      BY <2>7 DEF BuildersInv, BuiltChangesByOwnerOnly, Kept
    <3>2. \A f \in DOMAIN contents : Kept(credential, contents, f)
      BY <2>4 DEF Kept
    <3>3. \A i \in DOMAIN credentials' : \A f \in DOMAIN atBuild'[i] :
             Kept(credentials'[i], atBuild'[i], f)
      BY <2>7, <3>1, <3>2
    <3> QED BY <2>1, <3>3 DEF BuiltChangesByOwnerOnly, Kept, Content
  <2> QED BY <2>6, <2>8 DEF BuildersInv
<1> QED BY <1>1, <1>2

LEMMA PushInv ==
    ASSUME BuildersInv, NEW array \in Arrays, NEW name \in Names, Push(array, name)
    PROVE  BuildersInv'
<1>1. /\ arrays' = [arrays EXCEPT ![array] = Append(@, name)]
      /\ changed' = changed \cup {array}
      /\ UNCHANGED <<credentialBuilder, credentials, atBuild>>
  BY DEF Push
<1>2. arrays' \in [Arrays -> Seq(Names)]
  BY <1>1 DEF BuildersInv, BuildersOK
<1>3. \A list \in Lists : Content(list)' = Content(list) \/ list.array = array
  BY <1>1 DEF BuildersInv, BuildersOK, Content, Lists
<1>4. BuiltChangesByOwnerOnly'
  <2> SUFFICES ASSUME NEW i \in DOMAIN credentials, NEW f \in DOMAIN atBuild[i],
                      Content(credentials[i].lists[f])' # atBuild[i][f]
               PROVE  credentials[i].lists[f].array \in changed'
    BY <1>1 DEF BuiltChangesByOwnerOnly
  <2>1. i \in DOMAIN atBuild /\ atBuild[i] \in Contents /\ credentials[i] \in Built
    BY DEF BuildersInv, BuildersOK
  <2>2. credentials[i].lists[f] \in Lists
    BY <2>1 DEF Built, Contents
  <2> QED BY <1>1, <1>3, <2>2 DEF BuildersInv, BuiltChangesByOwnerOnly
<1> QED BY <1>1, <1>2, <1>4 DEF BuildersInv, BuildersOK

LEMMA BuildersNextInv == BuildersInv /\ [BuildersNext]_builders => BuildersInv'
<1> SUFFICES ASSUME BuildersInv, [BuildersNext]_builders PROVE BuildersInv'
  OBVIOUS
<1>1. ASSUME NEW field \in Fields, NEW arg \in Arrays \cup Names, WithList(field, arg)
      PROVE  BuildersInv'
  BY <1>1, WithIsList, BuilderChangesInv DEF WithList
<1>2. CASE WithFormat
  BY <1>2, BuilderChangesInv DEF WithFormat
<1>3. ASSUME NEW name \in Names, WithIssuerCredentialSubjectDisplay(name)
      PROVE  BuildersInv'
  BY <1>3, BuilderChangesInv DEF WithIssuerCredentialSubjectDisplay
<1>4. ASSUME NEW i \in DOMAIN credentials, AddCredentialsSupported(i) \/ WithCredentialsSupported(i)
      PROVE  BuildersInv'
  BY <1>4, BuilderChangesInv DEF AddCredentialsSupported, WithCredentialsSupported
<1>5. CASE BuildIssuer \/ UNCHANGED builders
  BY <1>5, BuilderChangesInv DEF BuildIssuer, builders
<1> QED BY <1>1, <1>2, <1>3, <1>4, <1>5, AddToListInv, BuildCredentialInv, PushInv DEF BuildersNext
-----------------------------------------------------------------------------
\* Sequences of sequences.

\* Induction up to a number, for a set.
LEMMA Induction ==
    ASSUME NEW m \in Nat, NEW S, 0 \in S, \A n \in 0 .. m - 1 : n \in S => n + 1 \in S
    PROVE  m \in S /\ \A n \in 0 .. m : n \in S
<1> SUFFICES \A n \in 0 .. m : n \in S
  OBVIOUS
<1> DEFINE Bad == (0 .. m) \ S
           Less == {ij \in Nat \X Nat : ij[1] < ij[2]}
<1> SUFFICES ASSUME Bad # {} PROVE FALSE
  OBVIOUS
<1>1. PICK n \in Bad : \A i \in Bad : ~ (<<i, n>> \in Less)
  <2>1. IsWellFoundedOn(Less, Nat)
    BY NatLessThanWellFounded, Zenon DEF OpToRel
  <2>2. Bad \subseteq Nat
    OBVIOUS
  <2> HIDE DEF Less, Bad
  <2> QED BY <2>1, <2>2, WFMin
<1>2. \A i \in Bad : ~ (i < n)
  <2>1. ASSUME NEW i \in Bad PROVE i \in Nat /\ n \in Nat
    BY <1>1
  <2> HIDE DEF Bad
  <2> QED BY <1>1, <2>1
<1>3. n # 0 /\ n - 1 \in 0 .. m - 1 /\ n - 1 \in 0 .. m
  OBVIOUS
<1>4. n - 1 \in S
  BY <1>2, <1>3
<1> QED BY <1>3, <1>4

\* t[n] is the concatenation of the first n sequences.
IsTrace(t, ss) == /\ t[0] = <<>>
                  /\ \A i \in 1 .. Len(ss) : t[i] = t[i - 1] \o ss[i]

\* The recursion of FlattenSeq defines a function.
LEMMA FlattenHasTrace ==
    ASSUME NEW T, NEW ss \in Seq(Seq(T))
    PROVE  \E t \in [0 .. Len(ss) -> Seq(T)] : IsTrace(t, ss) /\ FlattenSeq(ss) = t[Len(ss)]
<1>1. CASE ss = <<>>
  <2> DEFINE t == [i \in 0 .. 0 |-> <<>>]
  <2>1. t \in [0 .. Len(ss) -> Seq(T)] /\ IsTrace(t, ss)
    BY <1>1 DEF IsTrace
  <2>2. FlattenSeq(ss) = <<>>
    BY <1>1 DEF FlattenSeq
  <2> QED BY <1>1, <2>1, <2>2
<1>2. CASE ss # <<>>
  <2> DEFINE Step(g, i) == IF i = 1 THEN ss[i] ELSE g[i - 1] \o ss[i]
             Defines(g, n) == g = [i \in 1 .. n |-> Step(g, i)]
             D == {n \in 0 .. Len(ss) : \E g : Defines(g, n)}
             flatten == CHOOSE g : Defines(g, Len(ss))
  <2>1. 0 \in D
    <3>1. Defines([i \in 1 .. 0 |-> <<>>], 0) /\ 0 \in 0 .. Len(ss)
      OBVIOUS
    <3> HIDE DEF Defines
    <3> QED BY <3>1
  <2>2. ASSUME NEW n \in 0 .. Len(ss) - 1, n \in D
        PROVE  n + 1 \in D
    <3>1. PICK g : Defines(g, n)
      BY <2>2
    <3> DEFINE h == [i \in 1 .. n + 1 |-> Step(g, i)]
    <3>2. \A i \in 1 .. n : h[i] = g[i]
      <4> HIDE DEF Step
      <4>1. \A i \in 1 .. n : g[i] = Step(g, i)
        BY <3>1
      <4> QED BY <4>1
    <3>3. \A i \in 1 .. n + 1 : i # 1 => i - 1 \in 1 .. n
      OBVIOUS
    <3>4. \A i \in 1 .. n + 1 : Step(h, i) = Step(g, i)
      <4> HIDE DEF h
      <4> QED BY <3>2, <3>3
    <3>5. Defines(h, n + 1)
      <4> HIDE DEF Step
      <4>1. h = [i \in 1 .. n + 1 |-> Step(h, i)]
        BY <3>4
      <4> QED BY <4>1
    <3>6. n + 1 \in 0 .. Len(ss)
      OBVIOUS
    <3> HIDE DEF h, Defines
    <3> QED BY <3>5, <3>6
  <2>3. Len(ss) \in D
    <3> HIDE DEF D
    <3>1. Len(ss) \in Nat /\ \A n \in 0 .. Len(ss) - 1 : n \in D => n + 1 \in D
      BY <2>2
    <3> QED BY <2>1, <3>1, Induction
  <2>4. Defines(flatten, Len(ss))
    BY <2>3
  <2>5. FlattenSeq(ss) = flatten[Len(ss)]
    BY <1>2 DEF FlattenSeq
  <2> DEFINE t == [i \in 0 .. Len(ss) |-> IF i = 0 THEN <<>> ELSE flatten[i]]
  <2> HIDE DEF flatten
  <2>6. t[0] = <<>>
    OBVIOUS
  <2>7. \A i \in 1 .. Len(ss) : ss[i] \in Seq(T) /\ <<>> \o ss[i] = ss[i]
    OBVIOUS
  <2>8. ASSUME NEW i \in 1 .. Len(ss) PROVE t[i] = t[i - 1] \o ss[i]
    <3>1. flatten[i] = Step(flatten, i)
      <4> HIDE DEF Step
      <4> QED BY <2>4
    <3>2. t[i] = flatten[i] /\ (i # 1 => t[i - 1] = flatten[i - 1])
      OBVIOUS
    <3> HIDE DEF t
    <3>3. CASE i = 1
      <4>1. t[i] = ss[i] /\ t[i - 1] = <<>>
        BY <3>1, <3>2, <3>3, <2>6
      <4> QED BY <4>1, <2>7
    <3>4. CASE i # 1
      BY <3>1, <3>2, <3>4
    <3> QED BY <3>3, <3>4
  <2>9. IsTrace(t, ss)
    BY <2>6, <2>8 DEF IsTrace
  <2>10. \A n \in 0 .. Len(ss) : t[n] \in Seq(T)
    <3> HIDE DEF t
    <3> DEFINE K == {n \in 0 .. Len(ss) : t[n] \in Seq(T)}
    <3>1. 0 \in K
      <4>1. <<>> \in Seq(T) /\ 0 \in 0 .. Len(ss)
        OBVIOUS
      <4> QED BY <4>1, <2>6
    <3>2. ASSUME NEW n \in 0 .. Len(ss) - 1, n \in K PROVE n + 1 \in K
      <4>1. /\ n + 1 \in 1 .. Len(ss) /\ n + 1 \in 0 .. Len(ss) /\ (n + 1) - 1 = n
            /\ t[n] \in Seq(T)
        BY <3>2
      <4>2. t[n + 1] = t[n] \o ss[n + 1] /\ ss[n + 1] \in Seq(T)
        BY <4>1, <2>7, <2>8
      <4>3. t[n + 1] \in Seq(T)
        BY <4>1, <4>2
      <4> QED BY <4>1, <4>3
    <3> HIDE DEF K
    <3>3. Len(ss) \in Nat /\ \A n \in 0 .. Len(ss) - 1 : n \in K => n + 1 \in K
      BY <3>2
    <3>4. \A n \in 0 .. Len(ss) : n \in K
      BY <3>1, <3>3, Induction
    <3> QED BY <3>4 DEF K
  <2>11. t \in [0 .. Len(ss) -> Seq(T)]
    BY <2>10
  <2>12. FlattenSeq(ss) = t[Len(ss)]
    BY <1>2, <2>5
  <2> HIDE DEF t
  <2> QED BY <2>9, <2>11, <2>12
<1> QED BY <1>1, <1>2

\* It is the only one, so that any function with that recursion is as good.
LEMMA FlattenIsTrace ==
    ASSUME NEW T, NEW ss \in Seq(Seq(T)), NEW t, IsTrace(t, ss)
    PROVE  FlattenSeq(ss) = t[Len(ss)]
<1>1. PICK u \in [0 .. Len(ss) -> Seq(T)] : IsTrace(u, ss) /\ FlattenSeq(ss) = u[Len(ss)]
  BY FlattenHasTrace
<1> DEFINE K == {n \in 0 .. Len(ss) : t[n] = u[n]}
<1>2. 0 \in K
  BY <1>1 DEF IsTrace
<1>3. ASSUME NEW n \in 0 .. Len(ss) - 1, n \in K PROVE n + 1 \in K
  <2>1. n + 1 \in 1 .. Len(ss) /\ n + 1 \in 0 .. Len(ss) /\ (n + 1) - 1 = n /\ t[n] = u[n]
    BY <1>3
  <2>2. t[n + 1] = t[(n + 1) - 1] \o ss[n + 1] /\ u[n + 1] = u[(n + 1) - 1] \o ss[n + 1]
    BY <1>1, <2>1 DEF IsTrace
  <2> QED BY <2>1, <2>2
<1> HIDE DEF K
<1>4. Len(ss) \in K
  <2>1. Len(ss) \in Nat /\ \A n \in 0 .. Len(ss) - 1 : n \in K => n + 1 \in K
    BY <1>3
  <2> QED BY <1>2, <2>1, Induction
<1> QED BY <1>1, <1>4 DEF K

\* What FlattenSeq returns: a sequence of the same elements, of each sequence in turn.
LEMMA FlattenType ==
    ASSUME NEW T, NEW ss \in Seq(Seq(T))
    PROVE  FlattenSeq(ss) \in Seq(T)
<1>1. PICK t \in [0 .. Len(ss) -> Seq(T)] : FlattenSeq(ss) = t[Len(ss)]
  BY FlattenHasTrace
<1> QED BY <1>1

LEMMA FlattenEmpty == FlattenSeq(<<>>) = <<>>
  BY DEF FlattenSeq

LEMMA FlattenAppend ==
    ASSUME NEW T, NEW ss \in Seq(Seq(T)), NEW s \in Seq(T)
    PROVE  FlattenSeq(Append(ss, s)) = FlattenSeq(ss) \o s
<1>1. PICK t \in [0 .. Len(ss) -> Seq(T)] : IsTrace(t, ss) /\ FlattenSeq(ss) = t[Len(ss)]
  BY FlattenHasTrace
<1> DEFINE tt == Append(ss, s)
           u == [i \in 0 .. Len(ss) + 1 |-> IF i <= Len(ss) THEN t[i] ELSE t[Len(ss)] \o s]
<1>2. /\ tt \in Seq(Seq(T)) /\ Len(tt) = Len(ss) + 1
      /\ \A i \in 1 .. Len(ss) : tt[i] = ss[i]
      /\ tt[Len(ss) + 1] = s
  OBVIOUS
<1>3. /\ \A i \in 0 .. Len(ss) : u[i] = t[i]
      /\ u[Len(ss) + 1] = t[Len(ss)] \o s
  OBVIOUS
<1> HIDE DEF tt, u
<1>4. ASSUME NEW i \in 1 .. Len(tt) PROVE u[i] = u[i - 1] \o tt[i]
  <2>1. CASE i \in 1 .. Len(ss)
    <3>1. t[i] = t[i - 1] \o ss[i]
      BY <1>1, <2>1 DEF IsTrace
    <3>2. i - 1 \in 0 .. Len(ss) /\ i \in 0 .. Len(ss)
      BY <2>1
    <3> QED BY <1>2, <1>3, <2>1, <3>1, <3>2
  <2>2. CASE i = Len(ss) + 1
    <3>1. i - 1 = Len(ss) /\ Len(ss) \in 0 .. Len(ss)
      BY <2>2
    <3> QED BY <1>2, <1>3, <2>2, <3>1
  <2> QED BY <1>2, <2>1, <2>2
<1>5. IsTrace(u, tt)
  <2>1. u[0] = <<>>
    BY <1>1, <1>3 DEF IsTrace
  <2> QED BY <2>1, <1>4 DEF IsTrace
<1>6. FlattenSeq(tt) = u[Len(tt)]
  BY <1>2, <1>5, FlattenIsTrace
<1> QED BY <1>1, <1>2, <1>3, <1>6 DEF tt

LEMMA FlattenRange ==
    ASSUME NEW T, NEW ss \in Seq(Seq(T))
    PROVE  Range(FlattenSeq(ss)) = UNION {Range(ss[i]) : i \in DOMAIN ss}
<1>1. PICK t \in [0 .. Len(ss) -> Seq(T)] : IsTrace(t, ss) /\ FlattenSeq(ss) = t[Len(ss)]
  BY FlattenHasTrace
<1> DEFINE Upto(n) == UNION {Range(ss[i]) : i \in 1 .. n}
           K == {n \in 0 .. Len(ss) : Range(t[n]) = Upto(n)}
<1>2. 0 \in K
  <2>1. Range(t[0]) = {}
    BY <1>1 DEF IsTrace, Range
  <2>2. Upto(0) = {}
    OBVIOUS
  <2> HIDE DEF Upto
  <2> QED BY <2>1, <2>2
<1>3. ASSUME NEW n \in 0 .. Len(ss) - 1, n \in K PROVE n + 1 \in K
  <2>1. n + 1 \in 1 .. Len(ss) /\ n + 1 \in 0 .. Len(ss) /\ (n + 1) - 1 = n
    OBVIOUS
  <2>2. t[n + 1] = t[n] \o ss[n + 1]
    BY <1>1, <2>1 DEF IsTrace
  <2>3. t[n] \in Seq(T) /\ ss[n + 1] \in Seq(T)
    <3>1. n \in 0 .. Len(ss)
      OBVIOUS
    <3>2. t[n] \in Seq(T)
      BY <1>1, <3>1
    <3>3. ss[n + 1] \in Seq(T)
      BY <2>1
    <3> QED BY <3>2, <3>3
  <2>4. Range(t[n + 1]) = Range(t[n]) \cup Range(ss[n + 1])
    BY <2>2, <2>3, RangeConcatenation
  <2>5. Upto(n + 1) = Upto(n) \cup Range(ss[n + 1])
    <3>1. 1 .. n + 1 = (1 .. n) \cup {n + 1}
      OBVIOUS
    <3> QED BY <3>1
  <2> HIDE DEF Upto
  <2> QED BY <1>3, <2>1, <2>4, <2>5
<1>4. Len(ss) \in K
  <2> HIDE DEF K
  <2>1. Len(ss) \in Nat /\ \A n \in 0 .. Len(ss) - 1 : n \in K => n + 1 \in K
    BY <1>3
  <2> QED BY <1>2, <2>1, Induction
<1>5. Range(t[Len(ss)]) = Upto(Len(ss))
  <2> HIDE DEF Upto
  <2> QED BY <1>4
<1>6. DOMAIN ss = 1 .. Len(ss)
  OBVIOUS
<1> QED BY <1>1, <1>5, <1>6
-----------------------------------------------------------------------------
\* The entries of one key.

Own(entry, key) == IF entry.key = key THEN <<entry>> ELSE <<>>

\* The entries of a key are those of the entries that have it.
LEMMA EntriesOfType ==
    ASSUME NEW T, NEW entries \in Seq(T), NEW key
    PROVE  /\ [i \in DOMAIN entries |-> Own(entries[i], key)] \in Seq(Seq(T))
           /\ EntriesOf(entries, key) = FlattenSeq([i \in DOMAIN entries |-> Own(entries[i], key)])
           /\ EntriesOf(entries, key) \in Seq(T)
           /\ \A e : e \in Range(EntriesOf(entries, key)) <=> e \in Range(entries) /\ e.key = key
<1> DEFINE ss == [i \in DOMAIN entries |-> Own(entries[i], key)]
<1>1. \A e \in T : Own(e, key) \in Seq(T)
  BY DEF Own
<1>2. ss \in Seq(Seq(T)) /\ DOMAIN ss = DOMAIN entries
  <2>1. \A i \in 1 .. Len(entries) : Own(entries[i], key) \in Seq(T)
    BY <1>1
  <2>2. ss \in [1 .. Len(entries) -> Seq(T)]
    BY <2>1
  <2> HIDE DEF ss
  <2> QED BY <2>2, IsASeq
<1>3. EntriesOf(entries, key) = FlattenSeq(ss)
  BY DEF EntriesOf, Own
<1>4. \A i \in DOMAIN entries : Range(ss[i]) = {e \in {entries[i]} : e.key = key}
  <2>1. \A e : Range(<<e>>) = {e}
    BY DEF Range
  <2>2. Range(<<>>) = {}
    BY DEF Range
  <2> QED BY <2>1, <2>2 DEF Own
<1> HIDE DEF ss
<1>5. Range(FlattenSeq(ss)) = UNION {Range(ss[i]) : i \in DOMAIN ss}
  BY <1>2, FlattenRange
<1>6. Range(FlattenSeq(ss)) = {e \in Range(entries) : e.key = key}
  <2>1. Range(entries) = {entries[i] : i \in DOMAIN entries}
    BY DEF Range
  <2> QED BY <1>2, <1>4, <1>5, <2>1
<1>7. FlattenSeq(ss) \in Seq(T)
  BY <1>2, FlattenType
<1> QED BY <1>2, <1>3, <1>6, <1>7 DEF ss

LEMMA EntriesOfAppend ==
    ASSUME NEW T, NEW entries \in Seq(T), NEW e \in T, NEW key
    PROVE  EntriesOf(Append(entries, e), key) = EntriesOf(entries, key) \o Own(e, key)
<1> DEFINE ss == [i \in DOMAIN entries |-> Own(entries[i], key)]
           more == Append(entries, e)
<1>1. more \in Seq(T)
  OBVIOUS
<1>5. ss \in Seq(Seq(T)) /\ EntriesOf(entries, key) = FlattenSeq(ss)
  <2> HIDE DEF more
  <2> QED BY EntriesOfType
<1>2. EntriesOf(more, key) = FlattenSeq([i \in DOMAIN more |-> Own(more[i], key)])
  <2> HIDE DEF more
  <2> QED BY <1>1, EntriesOfType
<1>3. [i \in DOMAIN more |-> Own(more[i], key)] = Append(ss, Own(e, key))
  OBVIOUS
<1>4. Own(e, key) \in Seq(T)
  BY DEF Own
<1> HIDE DEF ss, more
<1> QED BY <1>5, <1>2, <1>3, <1>4, FlattenAppend DEF more

\* They are taken from each half of a sequence alone.
LEMMA EntriesOfConcat ==
    ASSUME NEW T, NEW a \in Seq(T), NEW b \in Seq(T), NEW key
    PROVE  EntriesOf(a \o b, key) = EntriesOf(a, key) \o EntriesOf(b, key)
<1> DEFINE first(n) == SubSeq(b, 1, n)
           Splits(c) == EntriesOf(a \o c, key) = EntriesOf(a, key) \o EntriesOf(c, key)
           K == {n \in 0 .. Len(b) : Splits(first(n))}
<1>1. 0 \in K
  <2>1. first(0) = <<>> /\ a \o <<>> = a
    OBVIOUS
  <2>2. EntriesOf(<<>>, key) = <<>>
    BY FlattenEmpty DEF EntriesOf
  <2>3. EntriesOf(a, key) \in Seq(T)
    BY EntriesOfType
  <2>4. EntriesOf(a, key) \o <<>> = EntriesOf(a, key)
    BY <2>3
  <2>5. Splits(<<>>)
    BY <2>1, <2>2, <2>4
  <2> HIDE DEF first, Splits
  <2> QED BY <2>1, <2>5
<1>2. ASSUME NEW c \in Seq(T), NEW e \in T, Splits(c) PROVE Splits(Append(c, e))
  <2>1. a \o Append(c, e) = Append(a \o c, e) /\ a \o c \in Seq(T)
    OBVIOUS
  <2>2. EntriesOf(Append(a \o c, e), key) = EntriesOf(a \o c, key) \o Own(e, key)
    <3> DEFINE ac == a \o c
    <3>1. ac \in Seq(T)
      BY <2>1
    <3> HIDE DEF ac
    <3>2. EntriesOf(Append(ac, e), key) = EntriesOf(ac, key) \o Own(e, key)
      BY <3>1, EntriesOfAppend
    <3> QED BY <3>2 DEF ac
  <2>3. EntriesOf(Append(c, e), key) = EntriesOf(c, key) \o Own(e, key)
    BY EntriesOfAppend
  <2>4. EntriesOf(a, key) \in Seq(T) /\ EntriesOf(c, key) \in Seq(T)
    BY EntriesOfType
  <2>5. Own(e, key) \in Seq(T)
    BY DEF Own
  <2>7. (EntriesOf(a, key) \o EntriesOf(c, key)) \o Own(e, key)
           = EntriesOf(a, key) \o (EntriesOf(c, key) \o Own(e, key))
    <3> DEFINE x == EntriesOf(a, key)
               y == EntriesOf(c, key)
               z == Own(e, key)
    <3>1. x \in Seq(T) /\ y \in Seq(T) /\ z \in Seq(T)
      BY <2>4, <2>5
    <3> HIDE DEF x, y, z
    <3>2. (x \o y) \o z = x \o (y \o z)
      BY <3>1
    <3> QED BY <3>2 DEF x, y, z
  <2>8. EntriesOf(a \o Append(c, e), key) = (EntriesOf(a, key) \o EntriesOf(c, key)) \o Own(e, key)
    BY <1>2, <2>1, <2>2
  <2> QED BY <2>3, <2>7, <2>8
<1>3. ASSUME NEW n \in 0 .. Len(b) - 1, n \in K PROVE n + 1 \in K
  <2>1. /\ first(n) \in Seq(T) /\ b[n + 1] \in T
        /\ first(n + 1) = Append(first(n), b[n + 1])
        /\ n + 1 \in 0 .. Len(b)
    OBVIOUS
  <2> HIDE DEF first, Splits
  <2> QED BY <1>2, <1>3, <2>1
<1>4. first(Len(b)) = b
  OBVIOUS
<1>5. Len(b) \in K
  <2> HIDE DEF K
  <2>1. Len(b) \in Nat /\ \A n \in 0 .. Len(b) - 1 : n \in K => n + 1 \in K
    BY <1>3
  <2> QED BY <1>1, <2>1, Induction
<1>6. Splits(first(Len(b)))
  <2> HIDE DEF first, Splits
  <2> QED BY <1>5
<1> HIDE DEF first
<1> QED BY <1>4, <1>6

\* If all entries are of the key they are all, and if none is there are none.
LEMMA EntriesOfAll ==
    ASSUME NEW T, NEW entries \in Seq(T), NEW key, \A e \in Range(entries) : e.key = key
    PROVE  EntriesOf(entries, key) = entries
<1> DEFINE ss == [i \in DOMAIN entries |-> Own(entries[i], key)]
           t == [n \in 0 .. Len(entries) |-> SubSeq(entries, 1, n)]
<1>1. ss \in Seq(Seq(T)) /\ EntriesOf(entries, key) = FlattenSeq(ss)
  BY EntriesOfType
<1>2. \A i \in 1 .. Len(entries) : ss[i] = <<entries[i]>>
  BY DEF Range, Own
<1>3. \A i \in 1 .. Len(entries) : t[i] = t[i - 1] \o <<entries[i]>>
  OBVIOUS
<1>4. t[0] = <<>> /\ t[Len(entries)] = entries /\ Len(ss) = Len(entries)
  OBVIOUS
<1> HIDE DEF ss, t
<1>5. IsTrace(t, ss)
  BY <1>2, <1>3, <1>4 DEF IsTrace
<1> QED BY <1>1, <1>4, <1>5, FlattenIsTrace

LEMMA EntriesOfNone ==
    ASSUME NEW T, NEW entries \in Seq(T), NEW key
    PROVE  EntriesOf(entries, key) = <<>> <=> \A e \in Range(entries) : e.key # key
<1>1. EntriesOf(entries, key) \in Seq(T)
  BY EntriesOfType
<1>3. \A e : e \in Range(EntriesOf(entries, key)) <=> e \in Range(entries) /\ e.key = key
  BY EntriesOfType
<1>2. \A s \in Seq(T) : s = <<>> <=> Range(s) = {}
  BY DEF Range
<1> QED BY <1>1, <1>2, <1>3

\* ab is a, then b.
Joins(a, b, ab) == ab = a \o b

LEMMA EntriesOfJoined ==
    ASSUME NEW T, NEW a \in Seq(T), NEW b \in Seq(T), NEW ab, Joins(a, b, ab), NEW key
    PROVE  /\ EntriesOf(b, key) = <<>> => EntriesOf(ab, key) = EntriesOf(a, key)
           /\ EntriesOf(a, key) = <<>> => EntriesOf(ab, key) = EntriesOf(b, key)
<1>1. EntriesOf(ab, key) = EntriesOf(a, key) \o EntriesOf(b, key)
  <2>1. ab = a \o b
    BY DEF Joins
  <2> QED BY <2>1, EntriesOfConcat
<1>2. EntriesOf(a, key) \in Seq(T) /\ EntriesOf(b, key) \in Seq(T)
  BY EntriesOfType
<1> QED BY <1>1, <1>2

LEMMA RangeOfFew ==
    /\ \A e : e \notin Range(<<>>)
    /\ \A x, e : e \in Range(<<x>>) <=> e = x
  BY DEF Range

\* Of sequences with the entries of one key each, those of a key are its sequence,
\* if only one of the key has any.
IsKeyed(ss, keys) ==
    /\ \A i \in DOMAIN ss : \A e \in Range(ss[i]) : e.key = keys[i]
    /\ \A i, j \in DOMAIN ss : ss[i] # <<>> /\ ss[j] # <<>> /\ keys[i] = keys[j] => i = j

LEMMA EntriesOfKeyed ==
    ASSUME NEW T, NEW ss \in Seq(Seq(T)), NEW keys, IsKeyed(ss, keys), NEW k \in DOMAIN ss, ss[k] # <<>>
    PROVE  EntriesOf(FlattenSeq(ss), keys[k]) = ss[k]
<1>1. PICK t \in [0 .. Len(ss) -> Seq(T)] : IsTrace(t, ss) /\ FlattenSeq(ss) = t[Len(ss)]
  BY FlattenHasTrace
<1> DEFINE name == keys[k]
           P(n) == EntriesOf(t[n], name) = IF k <= n THEN ss[k] ELSE <<>>
           K == {n \in 0 .. Len(ss) : P(n)}
<1>2. P(0)
  <2>1. t[0] = <<>> /\ ~(k <= 0)
    BY <1>1 DEF IsTrace
  <2> QED BY <2>1, FlattenEmpty DEF EntriesOf
<1>3. ASSUME NEW n \in 0 .. Len(ss) - 1, P(n) PROVE P(n + 1)
  <2>1. n + 1 \in 1 .. Len(ss) /\ n \in 0 .. Len(ss) /\ (n + 1) - 1 = n /\ n + 1 \in DOMAIN ss
    OBVIOUS
  <2>2. t[n + 1] = t[n] \o ss[n + 1]
    BY <1>1, <2>1 DEF IsTrace
  <2>3. t[n] \in Seq(T)
    BY <1>1, <2>1
  <2>4. ss[n + 1] \in Seq(T)
    BY <2>1
  <2>5. /\ EntriesOf(ss[n + 1], name) = <<>> => EntriesOf(t[n + 1], name) = EntriesOf(t[n], name)
        /\ EntriesOf(t[n], name) = <<>> => EntriesOf(t[n + 1], name) = EntriesOf(ss[n + 1], name)
    <3>1. Joins(t[n], ss[n + 1], t[n + 1])
      BY <2>2 DEF Joins
    <3>2. \A a \in Seq(T), b \in Seq(T) : \A ab, other : Joins(a, b, ab) =>
             /\ EntriesOf(b, other) = <<>> => EntriesOf(ab, other) = EntriesOf(a, other)
             /\ EntriesOf(a, other) = <<>> => EntriesOf(ab, other) = EntriesOf(b, other)
      BY EntriesOfJoined
    <3> HIDE DEF name
    <3> QED BY <2>3, <2>4, <3>1, <3>2
  <2>6. EntriesOf(ss[n + 1], name) = IF n + 1 = k THEN ss[k] ELSE <<>>
    <3> DEFINE b == ss[n + 1]
    <3>1. b \in Seq(T)
      BY <2>4
    <3>2. CASE n + 1 = k
      <4>1. \A e \in Range(b) : e.key = name
        BY <2>1, <3>2 DEF IsKeyed
      <4> HIDE DEF b, name
      <4>2. EntriesOf(b, name) = b
        BY <3>1, <4>1, EntriesOfAll
      <4> QED BY <3>2, <4>2 DEF b
    <3>3. CASE n + 1 # k
      <4>1. \A e \in Range(b) : e.key # name
        <5>1. b = <<>> => \A e : e \notin Range(b)
          BY RangeOfFew
        <5> QED BY <2>1, <3>3, <5>1 DEF IsKeyed
      <4> HIDE DEF b, name
      <4>2. EntriesOf(b, name) = <<>>
        BY <3>1, <4>1, EntriesOfNone
      <4> QED BY <3>3, <4>2 DEF b
    <3> QED BY <3>2, <3>3
  <2>9. CASE k <= n
    <3>1. EntriesOf(t[n], name) = ss[k] /\ EntriesOf(ss[n + 1], name) = <<>>
      BY <1>3, <2>6, <2>9
    <3> QED BY <2>5, <2>9, <3>1
  <2>10. CASE k = n + 1
    <3>1. EntriesOf(t[n], name) = <<>> /\ EntriesOf(ss[n + 1], name) = ss[k]
      BY <1>3, <2>6, <2>10
    <3> QED BY <2>5, <2>10, <3>1
  <2>11. CASE k > n + 1
    <3>1. EntriesOf(t[n], name) = <<>> /\ EntriesOf(ss[n + 1], name) = <<>>
      BY <1>3, <2>6, <2>11
    <3> QED BY <2>5, <2>11, <3>1
  <2> QED BY <2>9, <2>10, <2>11
<1>4. P(Len(ss))
  <2> HIDE DEF P
  <2>1. 0 \in K /\ Len(ss) \in Nat
    BY <1>2
  <2>2. \A n \in 0 .. Len(ss) - 1 : n \in K => n + 1 \in K
    BY <1>3
  <2> HIDE DEF K
  <2>3. Len(ss) \in K
    BY <2>1, <2>2, Induction
  <2> QED BY <2>3 DEF K
<1> QED BY <1>1, <1>4

\* The first element stems from the first sequence that is not empty.
LEMMA FlattenFirst ==
    ASSUME NEW T, NEW ss \in Seq(Seq(T)), NEW k \in DOMAIN ss, ss[k] # <<>>,
           \A i \in 1 .. k - 1 : ss[i] = <<>>
    PROVE  FlattenSeq(ss) # <<>> /\ FlattenSeq(ss)[1] = ss[k][1]
<1>1. PICK t \in [0 .. Len(ss) -> Seq(T)] : IsTrace(t, ss) /\ FlattenSeq(ss) = t[Len(ss)]
  BY FlattenHasTrace
<1> DEFINE P(n) == IF n < k THEN t[n] = <<>> ELSE t[n] # <<>> /\ t[n][1] = ss[k][1]
           K == {n \in 0 .. Len(ss) : P(n)}
<1>2. P(0)
  BY <1>1 DEF IsTrace
<1>3. ASSUME NEW n \in 0 .. Len(ss) - 1, P(n) PROVE P(n + 1)
  <2>1. n + 1 \in 1 .. Len(ss) /\ n \in 0 .. Len(ss) /\ (n + 1) - 1 = n
    OBVIOUS
  <2>2. t[n + 1] = t[n] \o ss[n + 1]
    BY <1>1, <2>1 DEF IsTrace
  <2>3. t[n] \in Seq(T)
    BY <1>1, <2>1
  <2>4. ss[n + 1] \in Seq(T) /\ ss[k] \in Seq(T)
    BY <2>1
  <2>5. CASE n + 1 < k
    <3>1. t[n] = <<>> /\ ss[n + 1] = <<>>
      BY <1>3, <2>1, <2>5
    <3> QED BY <2>2, <2>5, <3>1
  <2>6. CASE n + 1 = k
    <3>1. t[n] = <<>>
      BY <1>3, <2>6
    <3>2. t[n + 1] = ss[k]
      BY <2>2, <2>4, <2>6, <3>1
    <3> QED BY <2>6, <3>2
  <2>7. CASE n + 1 > k
    <3>1. t[n] # <<>> /\ t[n][1] = ss[k][1]
      BY <1>3, <2>7
    <3> DEFINE a == t[n]
               b == ss[n + 1]
    <3>a. a \in Seq(T) /\ b \in Seq(T) /\ a # <<>>
      BY <2>3, <2>4, <3>1
    <3>b. a \o b # <<>> /\ (a \o b)[1] = a[1]
      <4> HIDE DEF a, b
      <4> QED BY <3>a
    <3>2. t[n + 1] # <<>> /\ t[n + 1][1] = t[n][1]
      BY <2>2, <3>b
    <3> QED BY <2>7, <3>1, <3>2
  <2> QED BY <2>5, <2>6, <2>7
<1>4. P(Len(ss))
  <2> HIDE DEF P
  <2>1. 0 \in K /\ Len(ss) \in Nat
    BY <1>2
  <2>2. \A n \in 0 .. Len(ss) - 1 : n \in K => n + 1 \in K
    BY <1>3
  <2> HIDE DEF K
  <2>3. Len(ss) \in K
    BY <2>1, <2>2, Induction
  <2> QED BY <2>3 DEF K
<1> QED BY <1>1, <1>4

-----------------------------------------------------------------------------
\* What an offer is encoded as.

\* The entry of a field with a value, and those of each field.
Entry(f) == Field(f.key, EncodedValue(f.value))
EntrySet(payload) == {Entry(payload[i]) : i \in DOMAIN payload}
EntriesOfFields(payload) == [i \in DOMAIN payload |-> EncodedEntries(payload[i])]
KeySeq(payload) == [i \in DOMAIN payload |-> payload[i].key]

OfferTypes == {"text", "braces", "list", "object"}

LEMMA OfferParts ==
    ASSUME NEW payload, IsOffer(payload)
    PROVE  /\ payload \in Seq(Range(payload))
           /\ DOMAIN payload = 1 .. Len(payload) /\ Len(payload) \in Nat
           /\ \A i, j \in DOMAIN payload : payload[i].key = payload[j].key => i = j
           /\ \E i \in DOMAIN payload : ~Falsy(payload[i].value)
           /\ \A i \in DOMAIN payload :
                 /\ \/ payload[i].value.type \in OfferTypes /\ payload[i].value # Text("")
                    \/ payload[i].key = "user_pin_required"
                       /\ payload[i].value \in {Boolean("true"), Boolean("false")}
                 /\ payload[i].key # "credential_offer"
<1>1. payload \in Seq(Range(payload)) /\ \A i, j \in DOMAIN payload : payload[i].key = payload[j].key => i = j
  BY Zenon DEF IsOffer
<1>2. DOMAIN payload = 1 .. Len(payload) /\ Len(payload) \in Nat
  BY <1>1
<1>3. Range(payload) = {payload[i] : i \in DOMAIN payload}
  BY DEF Range
<1>4. \E f \in Range(payload) : ~Falsy(f.value)
  BY Zenon DEF IsOffer
<1>5. \A f \in Range(payload) :
         \/ f.value.type \in OfferTypes /\ f.value # Text("")
         \/ f.key = "user_pin_required" /\ f.value \in {Boolean("true"), Boolean("false")}
  BY Zenon DEF IsOffer, OfferTypes
<1>6. LET keys == {f.key : f \in Range(payload)}
      IN \/ keys \subseteq {"issuer", "credential_type", "credentials", "pre-authorized_code",
                            "user_pin_required", "op_state"}
         \/ keys \subseteq {"credential_issuer", "credentials", "credential_definition", "grants"}
  BY Zenon DEF IsOffer
<1>7. \A f \in Range(payload) : f.key # "credential_offer"
  BY <1>6
<1> QED BY <1>1, <1>2, <1>3, <1>4, <1>5, <1>7

LEMMA EncodedParts ==
    ASSUME NEW payload, IsOffer(payload)
    PROVE  /\ EntriesOfFields(payload) \in Seq(Seq(EntrySet(payload)))
           /\ DOMAIN EntriesOfFields(payload) = DOMAIN payload
           /\ IsKeyed(EntriesOfFields(payload), KeySeq(payload))
           /\ EncodeJsonAsURI(payload) = FlattenSeq(EntriesOfFields(payload))
           /\ \A i \in DOMAIN payload :
                 EntriesOfFields(payload)[i] = IF Falsy(payload[i].value) THEN <<>> ELSE <<Entry(payload[i])>>
<1> DEFINE ss == EntriesOfFields(payload)
           T == EntrySet(payload)
<1>1. payload \in Seq(Range(payload))
  BY OfferParts
<1>2. DOMAIN ss = DOMAIN payload /\ DOMAIN payload = 1 .. Len(payload) /\ Len(payload) \in Nat
  BY <1>1 DEF EntriesOfFields
<1>3. \A i \in DOMAIN payload : ss[i] = IF Falsy(payload[i].value) THEN <<>> ELSE <<Entry(payload[i])>>
  BY DEF EntriesOfFields, EncodedEntries, Entry
<1>4. \A i \in DOMAIN payload : ss[i] \in Seq(T)
  <2> SUFFICES ASSUME NEW i \in DOMAIN payload PROVE ss[i] \in Seq(T)
    OBVIOUS
  <2>1. Entry(payload[i]) \in T
    BY DEF EntrySet
  <2> HIDE DEF T
  <2>2. <<Entry(payload[i])>> \in Seq(T)
    BY <2>1
  <2>3. <<>> \in Seq(T)
    OBVIOUS
  <2> HIDE DEF ss
  <2> QED BY <1>3, <2>2, <2>3
<1>5. ss \in Seq(Seq(T))
  <2>1. ss = [i \in 1 .. Len(payload) |-> ss[i]]
    BY <1>2 DEF EntriesOfFields
  <2> HIDE DEF ss, T
  <2>2. \A i \in 1 .. Len(payload) : ss[i] \in Seq(T)
    BY <1>2, <1>4
  <2> QED BY <1>2, <2>1, <2>2
<1>6. IsKeyed(ss, KeySeq(payload))
  <2>1. \A i \in DOMAIN payload : \A e \in Range(ss[i]) : e.key = payload[i].key
    <3> SUFFICES ASSUME NEW i \in DOMAIN payload, NEW e \in Range(ss[i]) PROVE e.key = payload[i].key
      OBVIOUS
    <3>1. e = Entry(payload[i])
      <4> HIDE DEF ss
      <4> QED BY <1>3, RangeOfFew
    <3> QED BY <3>1 DEF Entry, Field
  <2> HIDE DEF ss
  <2> QED BY <1>2, <2>1, OfferParts DEF IsKeyed, KeySeq
<1>7. EncodeJsonAsURI(payload) = FlattenSeq(ss)
  BY DEF EncodeJsonAsURI, EntriesOfFields
<1> HIDE DEF ss, T
<1> QED BY <1>2, <1>3, <1>5, <1>6, <1>7 DEF ss, T

\* The entry of every field that has a value, under its key.
LEMMA EncodedFields ==
    ASSUME NEW payload, IsOffer(payload), NEW F, F = EncodeJsonAsURI(payload)
    PROVE  /\ F \in Seq(EntrySet(payload))
           /\ \A e : e \in Range(F) <=>
                 \E i \in DOMAIN payload : ~Falsy(payload[i].value) /\ e = Entry(payload[i])
           /\ \A i \in DOMAIN payload : ~Falsy(payload[i].value) =>
                 EntriesOf(F, payload[i].key) = <<Entry(payload[i])>>
<1> DEFINE ss == EntriesOfFields(payload)
<1>1. /\ ss \in Seq(Seq(EntrySet(payload)))
      /\ DOMAIN ss = DOMAIN payload
      /\ IsKeyed(ss, KeySeq(payload))
      /\ F = FlattenSeq(ss)
      /\ \A i \in DOMAIN payload : ss[i] = IF Falsy(payload[i].value) THEN <<>> ELSE <<Entry(payload[i])>>
  BY EncodedParts
<1> HIDE DEF ss
<1>2. F \in Seq(EntrySet(payload))
  BY <1>1, FlattenType
<1>3. ASSUME NEW e
      PROVE  e \in Range(F) <=>
                 \E i \in DOMAIN payload : ~Falsy(payload[i].value) /\ e = Entry(payload[i])
  <2>1. e \in Range(F) <=> \E i \in DOMAIN ss : e \in Range(ss[i])
    BY <1>1, FlattenRange
  <2>2. \A i \in DOMAIN payload : e \in Range(ss[i]) <=> ~Falsy(payload[i].value) /\ e = Entry(payload[i])
    BY <1>1, RangeOfFew
  <2> QED BY <1>1, <2>1, <2>2
<1>4. ASSUME NEW i \in DOMAIN payload, ~Falsy(payload[i].value)
      PROVE  EntriesOf(F, payload[i].key) = <<Entry(payload[i])>>
  <2>1. ss[i] = <<Entry(payload[i])>> /\ <<Entry(payload[i])>> # <<>>
    BY <1>1, <1>4
  <2>2. EntriesOf(FlattenSeq(ss), KeySeq(payload)[i]) = ss[i]
    BY <1>1, <2>1, EntriesOfKeyed
  <2> QED BY <1>1, <1>4, <2>2 DEF KeySeq
<1> QED BY <1>2, <1>3, <1>4

\* The first of them is that of the first field with a value.
LEMMA EncodedFirst ==
    ASSUME NEW payload, IsOffer(payload), NEW F, F = EncodeJsonAsURI(payload),
           NEW k \in DOMAIN payload, ~Falsy(payload[k].value),
           \A i \in 1 .. k - 1 : Falsy(payload[i].value)
    PROVE  F # <<>> /\ F[1] = Entry(payload[k])
<1> DEFINE ss == EntriesOfFields(payload)
<1>1. /\ ss \in Seq(Seq(EntrySet(payload)))
      /\ DOMAIN ss = DOMAIN payload
      /\ F = FlattenSeq(ss)
      /\ \A i \in DOMAIN payload : ss[i] = IF Falsy(payload[i].value) THEN <<>> ELSE <<Entry(payload[i])>>
  BY EncodedParts
<1> HIDE DEF ss
<1>2. ss[k] = <<Entry(payload[k])>> /\ ss[k] # <<>> /\ ss[k][1] = Entry(payload[k])
  BY <1>1
<1>3. \A i \in 1 .. k - 1 : ss[i] = <<>>
  <2>1. DOMAIN payload = 1 .. Len(payload) /\ Len(payload) \in Nat
    BY OfferParts
  <2>2. \A i \in 1 .. k - 1 : i \in DOMAIN payload
    BY <2>1
  <2> QED BY <1>1, <2>2
<1>4. FlattenSeq(ss) # <<>> /\ FlattenSeq(ss)[1] = ss[k][1]
  BY <1>1, <1>2, <1>3, FlattenFirst
<1> QED BY <1>1, <1>2, <1>4

\* Only a boolean and the empty text are falsy.
LEMMA FalsyTypes ==
    ASSUME NEW v, v.type # "boolean", v # Text("")
    PROVE  ~Falsy(v)
<1>1. Boolean("false").type = "boolean"
  BY DEF Boolean, Value
<1>2. v # Boolean("false")
  BY <1>1
<1> QED BY <1>2 DEF Falsy

\* A payload has a first field with a value.
LEMMA FirstField ==
    ASSUME NEW payload, IsOffer(payload)
    PROVE  \E k \in DOMAIN payload : /\ ~Falsy(payload[k].value)
                                     /\ \A i \in 1 .. k - 1 : Falsy(payload[i].value)
<1> DEFINE S == {i \in DOMAIN payload : ~Falsy(payload[i].value)}
           Less == {ij \in Nat \X Nat : ij[1] < ij[2]}
<1>1. DOMAIN payload = 1 .. Len(payload) /\ Len(payload) \in Nat
  BY OfferParts
<1>2. S # {} /\ S \subseteq Nat
  <2>1. \E i \in DOMAIN payload : ~Falsy(payload[i].value)
    BY OfferParts
  <2>2. S # {}
    BY <2>1
  <2>3. S \subseteq DOMAIN payload /\ DOMAIN payload \subseteq Nat
    BY <1>1
  <2> QED BY <2>2, <2>3
<1>3. PICK k \in S : \A i \in S : ~ (<<i, k>> \in Less)
  <2>1. IsWellFoundedOn(Less, Nat)
    BY NatLessThanWellFounded, Zenon DEF OpToRel
  <2> HIDE DEF Less, S
  <2> QED BY <1>2, <2>1, WFMin
<1>4. \A i \in S : ~ (i < k)
  BY <1>2, <1>3
<1>5. k \in 1 .. Len(payload)
  BY <1>1
<1>6. \A i \in 1 .. k - 1 : i \in DOMAIN payload /\ i < k
  BY <1>1, <1>5
<1> QED BY <1>4, <1>6

-----------------------------------------------------------------------------
\* What "credential_offer=" in front of the entries changes.

\* What becomes of the first entry.
InFront(first) == Field("credential_offer", Value("text", <<first.key>>, {first.key} \cup first.value.words))

\* All entries but the first are as they were.
LEMMA PrefixedParts ==
    ASSUME NEW T, NEW F \in Seq(T), F # <<>>
    PROVE  /\ F[1] \in T /\ Tail(F) \in Seq(T)
           /\ Prefixed(F) = <<InFront(F[1])>> \o Tail(F)
           /\ F = <<F[1]>> \o Tail(F)
           /\ Prefixed(F) \in Seq(T \cup {InFront(F[1])})
           /\ Prefixed(F) # <<>>
           /\ \A e : e \in Range(Prefixed(F)) <=> e = InFront(F[1]) \/ e \in Range(Tail(F))
           /\ \A e : e \in Range(F) <=> e = F[1] \/ e \in Range(Tail(F))
<1> DEFINE front == InFront(F[1])
           rest == Tail(F)
           S == T \cup {front}
<1>1. F[1] \in T /\ rest \in Seq(T) /\ F = <<F[1]>> \o rest
  OBVIOUS
<1>2. Prefixed(F) = <<front>> \o rest
  BY DEF Prefixed, InFront
<1> HIDE DEF front, rest
<1>3. <<front>> \in Seq(S) /\ rest \in Seq(S)
  BY <1>1
<1> HIDE DEF S
<1>4. Prefixed(F) \in Seq(S) /\ Prefixed(F) # <<>>
  BY <1>2, <1>3
<1>5. ASSUME NEW U, NEW x \in U, NEW s \in Seq(U)
      PROVE  \A e : e \in Range(<<x>> \o s) <=> e = x \/ e \in Range(s)
  <2>1. /\ DOMAIN (<<x>> \o s) = 1 .. Len(s) + 1 /\ Len(s) \in Nat
        /\ (<<x>> \o s)[1] = x
        /\ \A i \in 1 .. Len(s) : (<<x>> \o s)[i + 1] = s[i]
    OBVIOUS
  <2>2. \A i \in 1 .. Len(s) + 1 : i = 1 \/ (i - 1 \in 1 .. Len(s) /\ (i - 1) + 1 = i)
    BY <2>1
  <2>3. \A i \in 1 .. Len(s) : i + 1 \in 1 .. Len(s) + 1
    BY <2>1
  <2>4. 1 \in 1 .. Len(s) + 1 /\ DOMAIN s = 1 .. Len(s)
    BY <2>1
  <2>5. ASSUME NEW w, /\ DOMAIN w = 1 .. Len(s) + 1 /\ w[1] = x
                      /\ \A i \in 1 .. Len(s) : w[i + 1] = s[i]
        PROVE  \A e : e \in Range(w) <=> e = x \/ e \in Range(s)
    <3>1. \A e : e \in Range(w) <=> \E i \in 1 .. Len(s) + 1 : e = w[i]
      BY <2>5 DEF Range
    <3>2. \A e : e \in Range(s) <=> \E i \in 1 .. Len(s) : e = s[i]
      BY <2>4 DEF Range
    <3>3. \A e : (\E i \in 1 .. Len(s) + 1 : e = w[i]) => e = x \/ \E i \in 1 .. Len(s) : e = s[i]
      <4> TAKE e
      <4> SUFFICES ASSUME NEW i \in 1 .. Len(s) + 1, e = w[i], i # 1 PROVE \E j \in 1 .. Len(s) : e = s[j]
        BY <2>5
      <4> WITNESS i - 1 \in 1 .. Len(s)
      <4> QED BY <2>2, <2>5
    <3>4. \A e : (e = x \/ \E i \in 1 .. Len(s) : e = s[i]) => \E i \in 1 .. Len(s) + 1 : e = w[i]
      BY <2>3, <2>4, <2>5
    <3> QED BY <3>1, <3>2, <3>3, <3>4
  <2> QED BY <2>1, <2>5
<1>6. \A e : e \in Range(<<front>> \o rest) <=> e = front \/ e \in Range(rest)
  <2>1. front \in S /\ rest \in Seq(S)
    BY <1>3 DEF S
  <2> QED BY <2>1, <1>5
<1>7. \A e : e \in Range(<<F[1]>> \o rest) <=> e = F[1] \/ e \in Range(rest)
  BY <1>1, <1>5
<1>8. \A e : e \in Range(F) <=> e = F[1] \/ e \in Range(rest)
  <2>1. Range(F) = Range(<<F[1]>> \o rest)
    BY <1>1
  <2> QED BY <1>7, <2>1
<1> QED BY <1>1, <1>2, <1>4, <1>6, <1>8 DEF front, rest, S

\* The words of the entries, that is of what is in the sequence of them.
LEMMA IncludesSays ==
    ASSUME NEW uri, uri.beyond = <<>>, NEW word
    PROVE  Includes(uri, word) <=> \E e \in Range(uri.entries) : Says(e, word)
  BY RangeOfFew DEF Includes

\* The first key is in the value, and the value lost is there no more than its words.
LEMMA PrefixedIncludes ==
    ASSUME NEW T, NEW F \in Seq(T), F # <<>>,
           NEW uri, uri.entries = Prefixed(F), uri.beyond = <<>>,
           NEW word, "credential_offer" \notin Within(word)
    PROVE  Includes(uri, word) <=> \E e \in Range(F) : Says(e, word)
<1>1. /\ \A e : e \in Range(Prefixed(F)) <=> e = InFront(F[1]) \/ e \in Range(Tail(F))
      /\ \A e : e \in Range(F) <=> e = F[1] \/ e \in Range(Tail(F))
  BY PrefixedParts
<1>2. Says(InFront(F[1]), word) <=> Says(F[1], word)
  BY DEF Says, InFront, Field, Value
<1>3. Includes(uri, word) <=> \E e \in Range(Prefixed(F)) : Says(e, word)
  BY IncludesSays
<1> QED BY <1>1, <1>2, <1>3

\* The same of a single entry.
LEMMA EntriesOfOne ==
    ASSUME NEW x, NEW key
    PROVE  EntriesOf(<<x>>, key) = IF x.key = key THEN <<x>> ELSE <<>>
<1>1. <<x>> \in Seq({x})
  OBVIOUS
<1>2. CASE x.key = key
  <2>1. \A e \in Range(<<x>>) : e.key = key
    BY <1>2, RangeOfFew
  <2> DEFINE one == <<x>>
             T == {x}
  <2> HIDE DEF one, T
  <2>2. one \in Seq(T) /\ \A e \in Range(one) : e.key = key
    BY <1>1, <2>1 DEF one, T
  <2>3. EntriesOf(one, key) = one
    BY <2>2, EntriesOfAll
  <2> QED BY <1>2, <2>3 DEF one
<1>3. CASE x.key # key
  <2>1. \A e \in Range(<<x>>) : e.key # key
    BY <1>3, RangeOfFew
  <2> DEFINE one == <<x>>
             T == {x}
  <2> HIDE DEF one, T
  <2>2. one \in Seq(T) /\ \A e \in Range(one) : e.key # key
    BY <1>1, <2>1 DEF one, T
  <2>3. EntriesOf(one, key) = <<>>
    BY <2>2, EntriesOfNone
  <2> QED BY <1>3, <2>3 DEF one
<1> QED BY <1>2, <1>3

Starts(all, x, rest) == all = <<x>> \o rest

\* Entries behind a first one: those of another key, and of its own if it is alone.
LEMMA EntriesBehind ==
    ASSUME NEW T, NEW x \in T, NEW rest \in Seq(T), NEW all, Starts(all, x, rest), NEW key
    PROVE  /\ x.key # key => EntriesOf(all, key) = EntriesOf(rest, key)
           /\ EntriesOf(all, key) = <<x>> => EntriesOf(rest, key) = <<>>
<1> USE DEF Starts
<1>1. <<x>> \in Seq(T)
  OBVIOUS
<1>2. EntriesOf(<<x>> \o rest, key) = EntriesOf(<<x>>, key) \o EntriesOf(rest, key)
  <2> DEFINE one == <<x>>
  <2> HIDE DEF one
  <2>1. one \in Seq(T)
    BY <1>1 DEF one
  <2>2. EntriesOf(one \o rest, key) = EntriesOf(one, key) \o EntriesOf(rest, key)
    BY <2>1, EntriesOfConcat
  <2> QED BY <2>2 DEF one
<1>3. EntriesOf(rest, key) \in Seq(T) /\ EntriesOf(all, key) \in Seq(T)
  <2>1. all \in Seq(T)
    BY <1>1
  <2> QED BY <2>1, EntriesOfType
<1>4. CASE x.key # key
  <2>1. EntriesOf(<<x>>, key) = <<>>
    BY <1>4, EntriesOfOne
  <2>2. EntriesOf(all, key) = EntriesOf(rest, key)
    BY <1>2, <1>3, <2>1
  <2>3. <<>> # <<x>>
    OBVIOUS
  <2>4. EntriesOf(all, key) # <<x>>
    <3> SUFFICES ASSUME EntriesOf(all, key) = <<x>> PROVE FALSE
      OBVIOUS
    <3>1. x \in Range(EntriesOf(all, key))
      BY RangeOfFew
    <3>2. all \in Seq(T)
      BY <1>1
    <3> QED BY <1>4, <3>1, <3>2, EntriesOfType
  <2> QED BY <2>2, <2>4
<1>5. CASE x.key = key
  <2>1. EntriesOf(<<x>>, key) = <<x>>
    BY <1>5, EntriesOfOne
  <2>2. EntriesOf(all, key) = <<x>> \o EntriesOf(rest, key)
    BY <1>2, <2>1
  <2>3. Len(<<x>> \o EntriesOf(rest, key)) = 1 + Len(EntriesOf(rest, key)) /\ Len(<<x>>) = 1
    BY <1>3
  <2>4. EntriesOf(all, key) = <<x>> => Len(EntriesOf(rest, key)) = 0
    BY <1>3, <2>2, <2>3
  <2> QED BY <1>3, <1>5, <2>4
<1> QED BY <1>4, <1>5

\* The entries of a key but the first's.
LEMMA PrefixedEntries ==
    ASSUME NEW T, NEW F \in Seq(T), F # <<>>, NEW key, key # "credential_offer"
    PROVE  /\ F[1].key # key => EntriesOf(Prefixed(F), key) = EntriesOf(F, key)
           /\ EntriesOf(F, key) = <<F[1]>> => EntriesOf(Prefixed(F), key) = <<>>
<1> DEFINE front == InFront(F[1])
           rest == Tail(F)
           S == T \cup {front}
<1>1. /\ F[1] \in T /\ rest \in Seq(T)
      /\ Prefixed(F) = <<front>> \o rest
      /\ F = <<F[1]>> \o rest
  BY PrefixedParts
<1>2. front.key # key
  BY DEF InFront, Field
<1> HIDE DEF front, rest
<1>3. front \in S /\ rest \in Seq(S)
  BY <1>1
<1> HIDE DEF S
<1>4. EntriesOf(Prefixed(F), key) = EntriesOf(rest, key)
  <2> DEFINE all == Prefixed(F)
  <2> HIDE DEF all
  <2>1. Starts(all, front, rest)
    BY <1>1 DEF all, Starts
  <2>2. EntriesOf(all, key) = EntriesOf(rest, key)
    BY <1>2, <1>3, <2>1, EntriesBehind
  <2> QED BY <2>2 DEF all
<1>5. /\ F[1].key # key => EntriesOf(F, key) = EntriesOf(rest, key)
      /\ EntriesOf(F, key) = <<F[1]>> => EntriesOf(rest, key) = <<>>
  <2> DEFINE first == F[1]
  <2> HIDE DEF first
  <2>1. first \in T /\ rest \in Seq(T) /\ Starts(F, first, rest)
    BY <1>1 DEF first, Starts
  <2>2. /\ first.key # key => EntriesOf(F, key) = EntriesOf(rest, key)
        /\ EntriesOf(F, key) = <<first>> => EntriesOf(rest, key) = <<>>
    BY <2>1, EntriesBehind
  <2> QED BY <2>2 DEF first
<1> QED BY <1>4, <1>5

-----------------------------------------------------------------------------
\* What the wallet looks for in a link with an offer, and finds there.

IsWrittenAs(uri, payload) == uri.entries = Prefixed(EncodeJsonAsURI(payload)) /\ uri.beyond = <<>>

LookedFor == V11Words \cup {"pre-authorized_code", "credentials", "issuer", "credential_type"}

\* Encoding keeps the words of a field, and a field without a value has none.
LEMMA EntrySays ==
    ASSUME NEW payload, IsOffer(payload), NEW i \in DOMAIN payload, NEW word \in LookedFor
    PROVE  /\ Says(Entry(payload[i]), word) <=> Says(payload[i], word)
           /\ Falsy(payload[i].value) => ~Says(payload[i], word)
<1> DEFINE f == payload[i]
<1>1. \/ f.value.type \in OfferTypes /\ f.value # Text("")
      \/ f.key = "user_pin_required" /\ f.value \in {Boolean("true"), Boolean("false")}
  BY OfferParts
<1> HIDE DEF f
<1>2. Entry(f).key = f.key
  BY DEF Entry, Field
<1>3. CASE f.value.type \in OfferTypes /\ f.value # Text("")
  <2>1. Entry(f).value.words = f.value.words
    BY <1>3 DEF OfferTypes, Entry, Field, EncodedValue, Value
  <2>2. ~Falsy(f.value)
    BY <1>3, FalsyTypes DEF OfferTypes
  <2> QED BY <1>2, <2>1, <2>2 DEF Says, f
<1>4. CASE f.key = "user_pin_required" /\ f.value \in {Boolean("true"), Boolean("false")}
  <2>1. f.value.type = "boolean" /\ f.value.words = {}
    BY <1>4 DEF Boolean, Value
  <2>2. Entry(f).value.words = {}
    BY <2>1 DEF Entry, Field, EncodedValue, Text, Value
  <2>3. \A w \in Within(word) : w # "user_pin_required"
    BY DEF Within, LookedFor, V11Words
  <2>4. ~Says(f, word) /\ ~Says(Entry(f), word)
    BY <1>2, <1>4, <2>1, <2>2, <2>3 DEF Says
  <2> QED BY <2>4 DEF f
<1> QED BY <1>1, <1>3, <1>4

\* The link says a word exactly if a field of the offer does.
LEMMA OfferIncludes ==
    ASSUME NEW payload, IsOffer(payload), NEW uri, IsWrittenAs(uri, payload),
           NEW word \in LookedFor
    PROVE  Includes(uri, word) <=> \E i \in DOMAIN payload : Says(payload[i], word)
<1> DEFINE F == EncodeJsonAsURI(payload)
<1>1. /\ F \in Seq(EntrySet(payload))
      /\ \A e : e \in Range(F) <=>
            \E i \in DOMAIN payload : ~Falsy(payload[i].value) /\ e = Entry(payload[i])
  BY EncodedFields
<1>2. F # <<>>
  BY FirstField, EncodedFirst
<1>3. "credential_offer" \notin Within(word)
  BY DEF Within, LookedFor, V11Words
<1>4. Includes(uri, word) <=> \E e \in Range(F) : Says(e, word)
  <2> HIDE DEF F
  <2>1. uri.entries = Prefixed(F) /\ uri.beyond = <<>>
    BY DEF F, IsWrittenAs
  <2> QED BY <1>1, <1>2, <1>3, <2>1, PrefixedIncludes
<1> HIDE DEF F
<1> QED BY <1>1, <1>4, EntrySays

\* A word that is said is a key, in the offers of the version the word is of.
LEMMA OfferSays ==
    ASSUME NEW payload, IsOffer(payload)
    PROVE  LET SaysIt(word) == \E i \in DOMAIN payload : Says(payload[i], word)
           IN \/ /\ \A word \in V11Words : ~SaysIt(word)
                 /\ \A word \in {"issuer", "credential_type"} : SaysIt(word) <=> HasKey(payload, word)
                 /\ ~HasKey(payload, "credential_issuer")
              \/ /\ ~SaysIt("credential_type")
                 /\ \A word \in {"credential_issuer", "credentials"} : SaysIt(word) <=> HasKey(payload, word)
                 /\ ~HasKey(payload, "issuer")
<1> DEFINE keys == {f.key : f \in Range(payload)}
           V9Words == V11Words \cup {"issuer", "issuer_state", "credential_type"}
           Words == {"credential_issuer", "credentials", "credential_type"}
           V9 == {"issuer", "credential_type", "credentials", "pre-authorized_code",
                  "user_pin_required", "op_state"}
           V11 == {"credential_issuer", "credentials", "credential_definition", "grants"}
<1>1. /\ \A i \in DOMAIN payload : payload[i].key \in keys
      /\ \A key : key \in keys <=> HasKey(payload, key)
  BY DEF Range, HasKey
<1>2. \A key : HasKey(payload, key) => \E i \in DOMAIN payload : Says(payload[i], key)
  BY DEF HasKey, Says, Within
<1>3. \/ keys \subseteq V9 /\ \A i \in DOMAIN payload : payload[i].value.words \cap V9Words \subseteq keys
      \/ keys \subseteq V11 /\ \A i \in DOMAIN payload : payload[i].value.words \cap Words \subseteq keys
  BY DEF IsOffer, Range
<1> HIDE DEF keys
<1>4. CASE keys \subseteq V9 /\ \A i \in DOMAIN payload : payload[i].value.words \cap V9Words \subseteq keys
  <2>1. ASSUME NEW i \in DOMAIN payload, NEW word \in V11Words PROVE ~Says(payload[i], word)
    <3>1. payload[i].key \in V9 /\ \A w \in payload[i].value.words : w \in V9Words => w \in V9
      BY <1>1, <1>4
    <3>2. \A w \in Within(word) : w = word
      BY DEF Within, V11Words
    <3> QED BY <3>1, <3>2 DEF Says, V11Words
  <2>2. ASSUME NEW word \in {"issuer", "credential_type"}, NEW i \in DOMAIN payload, Says(payload[i], word)
        PROVE  HasKey(payload, word)
    <3>1. PICK w \in Within(word) : w = payload[i].key \/ w \in payload[i].value.words
      BY <2>2 DEF Says
    <3>2. w \in V9Words
      BY <3>1 DEF Within, V11Words
    <3>3. w \in keys /\ w \in V9
      BY <1>1, <1>4, <3>1, <3>2
    <3>4. w = word
      BY <3>1, <3>3 DEF Within
    <3> QED BY <1>1, <3>3, <3>4
  <2>3. ~HasKey(payload, "credential_issuer")
    BY <1>1, <1>4
  <2> QED BY <1>2, <2>1, <2>2, <2>3
<1>5. CASE keys \subseteq V11 /\ \A i \in DOMAIN payload : payload[i].value.words \cap Words \subseteq keys
  <2>1. ASSUME NEW word \in Words, NEW i \in DOMAIN payload, Says(payload[i], word)
        PROVE  HasKey(payload, word)
    <3>1. word = payload[i].key \/ word \in payload[i].value.words
      BY <2>1 DEF Says, Within
    <3> QED BY <1>1, <1>5, <3>1
  <2>2. ~HasKey(payload, "issuer") /\ ~HasKey(payload, "credential_type")
    BY <1>1, <1>5
  <2> QED BY <1>2, <2>1, <2>2
<1> QED BY <1>3, <1>4, <1>5

\* The entries of a key of the link.
LEMMA OwnEntries ==
    ASSUME NEW T, NEW uri, uri.entries \in Seq(T), NEW key, NEW own, own = EntriesOf(uri.entries, key)
    PROVE  /\ own \in Seq(T)
           /\ key \in KeysOf(uri) <=> own # <<>>
           /\ \A e \in Range(own) : e \in Range(uri.entries) /\ e.key = key
           /\ own # <<>> => /\ Last(own) \in Range(own) /\ Last(own) = own[Len(own)]
                            /\ Len(own) \in Nat /\ DOMAIN own = 1 .. Len(own) /\ Len(own) # 0
<1>1. own \in Seq(T) /\ \A e : e \in Range(own) <=> e \in Range(uri.entries) /\ e.key = key
  BY EntriesOfType
<1>2. key \in KeysOf(uri) <=> own # <<>>
  BY EntriesOfNone DEF KeysOf
<1>3. own # <<>> => /\ Len(own) \in Nat /\ DOMAIN own = 1 .. Len(own) /\ Len(own) # 0
                    /\ Len(own) \in DOMAIN own
  BY <1>1
<1>4. own # <<>> => Last(own) = own[Len(own)] /\ Last(own) \in Range(own)
  BY <1>3 DEF Last, Range
<1> QED BY <1>1, <1>2, <1>3, <1>4

\* The entries of an offer are texts, and a text in braces is the offer's.
LEMMA WrittenTypes ==
    ASSUME NEW payload, IsOffer(payload), NEW uri, IsWrittenAs(uri, payload)
    PROVE  /\ AreEntries(uri.entries)
           /\ \A e \in Range(uri.entries) :
                 /\ e.value.type \in {"text", "braces", "json list", "json object"}
                 /\ e.value.type = "braces" => ~Plain(payload)
<1> DEFINE F == EncodeJsonAsURI(payload)
           S == EntrySet(payload) \cup {InFront(F[1])}
           P == Prefixed(F)
           Types == {"text", "braces", "json list", "json object"}
<1>1. F \in Seq(EntrySet(payload)) /\ F # <<>>
  BY EncodedFields, FirstField, EncodedFirst
<1>2. P \in Seq(S)
  <2> HIDE DEF F
  <2> QED BY <1>1, PrefixedParts
<1>3. ASSUME NEW e \in S PROVE e.value.type \in Types /\ (e.value.type = "braces" => ~Plain(payload))
  <2>1. CASE e = InFront(F[1])
    BY <2>1 DEF InFront, Field, Value
  <2>2. CASE \E i \in DOMAIN payload : e = Entry(payload[i])
    <3>1. PICK i \in DOMAIN payload : e = Entry(payload[i])
      BY <2>2
    <3> DEFINE v == payload[i].value
    <3>2. \/ v.type \in OfferTypes
          \/ v \in {Boolean("true"), Boolean("false")}
      BY OfferParts
    <3>3. e.value = EncodedValue(v)
      BY <3>1 DEF Entry, Field
    <3>4. v.type = "braces" => ~Plain(payload)
      BY DEF Plain
    <3> HIDE DEF v
    <3>5. EncodedValue(v).type \in Types /\ (EncodedValue(v).type = "braces" => v.type = "braces")
      <4>1. v.type \in {"text", "braces", "list", "object", "boolean"}
        BY <3>2 DEF Boolean, Value, OfferTypes
      <4> QED BY <4>1 DEF EncodedValue, Text, Value
    <3> QED BY <3>3, <3>4, <3>5
  <2> QED BY <2>1, <2>2 DEF EntrySet
<1> HIDE DEF S, P, F
<1>4. P \in Seq(Range(P)) /\ Range(P) \subseteq S
  BY <1>2 DEF Range
<1> QED BY <1>3, <1>4 DEF AreEntries, LinkTypes, P, F, IsWrittenAs

LEMMA WrittenDecodes ==
    ASSUME NEW payload, IsOffer(payload), Plain(payload), NEW uri, IsWrittenAs(uri, payload), NEW version
    PROVE  ~Undecodable(uri, version)
<1>1. \A e \in Range(uri.entries) : e.value.type \notin {"malformed", "braces"}
  BY WrittenTypes
<1>2. uri.entries \in Seq(Range(uri.entries))
  BY WrittenTypes DEF AreEntries
<1> SUFFICES ASSUME NEW key \in KeysOf(uri), NEW own, own = EntriesOf(uri.entries, key)
             PROVE  \A e \in Range(own) \cup {Last(own)} : e.value.type \notin {"malformed", "braces"}
  BY DEF Undecodable
<1> QED BY <1>1, <1>2, OwnEntries

\* The fields of the scheme's version are there.
FitsAs(uri, payload) ==
    IF uri.scheme = CREDENTIAL_OFFER
    THEN HasKey(payload, "credential_issuer") /\ HasKey(payload, "credentials")
    ELSE HasKey(payload, "issuer") /\ HasKey(payload, "credential_type")

\* What makes a link with an offer readable.
LEMMA ReadableOffer ==
    ASSUME NEW payload, IsOffer(payload), NEW uri, IsWrittenAs(uri, payload)
    PROVE  /\ FromURIError(uri) = "none" => FitsAs(uri, payload)
           /\ /\ FitsAs(uri, payload) /\ Plain(payload)
              /\ uri.scheme = CREDENTIAL_OFFER =>
                    \A i \in DOMAIN payload : ~Says(payload[i], "pre-authorized_code")
              => FromURIError(uri) = "none"
<1> DEFINE F == EncodeJsonAsURI(payload)
           SaysIt(word) == \E i \in DOMAIN payload : Says(payload[i], word)
           Fine == ~VersionsMixed(uri) /\ \A p \in RequiredProperties(VersionOf(uri)) : Includes(uri, p)
<1>1. uri.entries # <<>>
  <2>1. F \in Seq(EntrySet(payload)) /\ F # <<>>
    BY EncodedFields, FirstField, EncodedFirst
  <2> HIDE DEF F
  <2>2. Prefixed(F) # <<>>
    BY <2>1, PrefixedParts
  <2> QED BY <2>2 DEF F, IsWrittenAs
<1>2. \A word \in LookedFor : Includes(uri, word) <=> SaysIt(word)
  BY OfferIncludes
<1> HIDE DEF F, SaysIt
<1>3. FromURIError(uri) = "none" <=> Fine /\ ~Undecodable(uri, VersionOf(uri))
  BY <1>1 DEF FromURIError
<1>4. Plain(payload) => ~Undecodable(uri, VersionOf(uri))
  BY WrittenDecodes
<1>5. CASE uri.scheme = CREDENTIAL_OFFER
  <2>1. Fine <=> ~SaysIt("pre-authorized_code") /\ SaysIt("credentials") /\ SaysIt("credential_issuer")
    BY <1>2, <1>5 DEF VersionsMixed, VersionOf, RequiredProperties, LookedFor, V11Words
  <2>2. SaysIt("credentials") /\ SaysIt("credential_issuer") <=> FitsAs(uri, payload)
    BY <1>5, OfferSays DEF SaysIt, V11Words, FitsAs
  <2>3. ~SaysIt("pre-authorized_code") <=>
           \A i \in DOMAIN payload : ~Says(payload[i], "pre-authorized_code")
    BY DEF SaysIt
  <2> HIDE DEF Fine
  <2> QED BY <1>3, <1>4, <1>5, <2>1, <2>2, <2>3
<1>6. CASE uri.scheme # CREDENTIAL_OFFER
  <2>1. Fine <=> /\ \A word \in V11Words : ~SaysIt(word)
                 /\ SaysIt("issuer") /\ SaysIt("credential_type")
    BY <1>2, <1>6 DEF VersionsMixed, VersionOf, RequiredProperties, LookedFor
  <2>2. (\A word \in V11Words : ~SaysIt(word)) /\ SaysIt("issuer") /\ SaysIt("credential_type")
           <=> FitsAs(uri, payload)
    BY <1>6, OfferSays DEF SaysIt, FitsAs
  <2> HIDE DEF Fine
  <2> QED BY <1>3, <1>4, <1>6, <2>1, <2>2
<1> QED BY <1>5, <1>6

\* A reference to an offer is not readable.
IsReference(uri) == uri.entries = <<Field("credential_offer_uri", Text("url"))>> /\ uri.beyond = <<>>

LEMMA ReferenceIsUnreadable ==
    ASSUME NEW uri, IsReference(uri)
    PROVE  FromURIError(uri) # "none"
<1> DEFINE e == Field("credential_offer_uri", Text("url"))
<1>1. Range(uri.entries) = {e}
  <2> HIDE DEF e
  <2>1. uri.entries = <<e>>
    BY DEF IsReference, e
  <2> QED BY <2>1, RangeOfFew
<1>2. ~Includes(uri, "credentials") /\ ~Includes(uri, "credential_type")
  <2>1. ~Says(e, "credentials") /\ ~Says(e, "credential_type")
    BY DEF Says, Within, Field, Text, Value
  <2> HIDE DEF e
  <2> QED BY <1>1, <2>1, IncludesSays DEF IsReference
<1>3. uri.entries # <<>>
  BY DEF IsReference
<1> QED BY <1>2, <1>3 DEF FromURIError, RequiredProperties

-----------------------------------------------------------------------------
\* What is read of a link.

\* The keys read are those with entries that have a value, each with its value.
LEMMA ConvertedKeys ==
    ASSUME NEW T, NEW uri, uri.entries \in Seq(T), NEW version, NEW key
    PROVE  key \in DOMAIN ConvertURIToJsonObject(uri, version) <=>
              EntriesOf(uri.entries, key) # <<>> /\ HasValue(uri, key, version)
<1>1. key \in DOMAIN ConvertURIToJsonObject(uri, version) <=> key \in KeysOf(uri) /\ HasValue(uri, key, version)
  BY DEF ConvertURIToJsonObject
<1> QED BY <1>1, OwnEntries

LEMMA ConvertedValue ==
    ASSUME NEW uri, NEW version, NEW key \in DOMAIN ConvertURIToJsonObject(uri, version)
    PROVE  ConvertURIToJsonObject(uri, version)[key] = ValueOf(uri, key, version)
  BY DEF ConvertURIToJsonObject

\* A key with one entry has what that entry says.
LEMMA ValueOfOne ==
    ASSUME NEW uri, NEW version, NEW key, NEW e, EntriesOf(uri.entries, key) = <<e>>
    PROVE  /\ ValueOf(uri, key, version) =
                 IF key = ArrayTypeProperty(version) THEN UnescapedValue(e.value) ELSE DecodedValue(e.value)
           /\ HasValue(uri, key, version) <=>
                 key = ArrayTypeProperty(version) \/ (e.value.type # "absent" /\ ~Falsy(e.value))
<1>1. Len(<<e>>) = 1 /\ <<e>>[1] = e
  OBVIOUS
<1>2. Last(<<e>>) = e
  BY <1>1 DEF Last
<1> QED BY <1>1, <1>2 DEF ValueOf, HasValue

\* A field with a value that has another in front of it comes as it was given.
LEMMA LaterComesThrough ==
    ASSUME NEW payload, IsOffer(payload), NEW uri, IsWrittenAs(uri, payload),
           NEW version, NEW request, request = ConvertURIToJsonObject(uri, version),
           NEW i \in DOMAIN payload, ~Falsy(payload[i].value),
           NEW before \in 1 .. i - 1, ~Falsy(payload[before].value)
    PROVE  payload[i].key \in DOMAIN request /\ request[payload[i].key].of = payload[i].value.of
<1> DEFINE F == EncodeJsonAsURI(payload)
           T == EntrySet(payload)
           key == payload[i].key
           e == Entry(payload[i])
           v == payload[i].value
<1>1. PICK k \in DOMAIN payload : /\ ~Falsy(payload[k].value)
                                  /\ \A j \in 1 .. k - 1 : Falsy(payload[j].value)
  BY FirstField
<1>2. F \in Seq(T) /\ F # <<>> /\ F[1] = Entry(payload[k]) /\ EntriesOf(F, key) = <<e>>
  BY <1>1, EncodedFields, EncodedFirst
<1>3. F[1].key = payload[k].key /\ e.value = EncodedValue(v)
  BY <1>2 DEF Entry, Field
<1>4. key # "credential_offer"
  BY OfferParts
<1>5. payload[k].key # key
  <2>1. k # i
    <3>1. DOMAIN payload = 1 .. Len(payload) /\ Len(payload) \in Nat
      BY OfferParts
    <3> QED BY <1>1, <3>1
  <2> QED BY <2>1, OfferParts
<1>6. uri.entries \in Seq(T \cup {InFront(F[1])})
  <2> HIDE DEF F, T
  <2>1. Prefixed(F) \in Seq(T \cup {InFront(F[1])})
    BY <1>2, PrefixedParts
  <2> QED BY <2>1 DEF F, IsWrittenAs
<1>7. EncodedValue(v).of = v.of /\ EncodedValue(v).type # "absent" /\ ~Falsy(EncodedValue(v))
  <2>1. \/ v.type \in OfferTypes /\ v # Text("")
        \/ v \in {Boolean("true"), Boolean("false")}
    BY OfferParts
  <2>2. ~Falsy(v)
    OBVIOUS
  <2> HIDE DEF v
  <2>3. CASE v.type \in OfferTypes /\ v # Text("")
    <3>1. v.type \in {"text", "braces"} => EncodedValue(v) = v
      BY DEF EncodedValue
    <3>2. v.type \in {"list", "object"} => /\ EncodedValue(v).of = v.of
                                         /\ EncodedValue(v).type \in {"json list", "json object"}
      BY DEF EncodedValue, Value
    <3>3. Text("").type = "text"
      BY DEF Text, Value
    <3>4. CASE v.type \in {"text", "braces"}
      BY <2>2, <3>1, <3>4
    <3>5. CASE v.type \in {"list", "object"}
      <4> DEFINE w == EncodedValue(v)
      <4>1. w.of = v.of /\ w.type \in {"json list", "json object"}
        BY <3>2, <3>5
      <4> HIDE DEF w
      <4>2. ~Falsy(w)
        BY <3>3, <4>1, FalsyTypes
      <4> QED BY <4>1, <4>2 DEF w
    <3> QED BY <2>3, <3>4, <3>5 DEF OfferTypes
  <2>4. CASE v \in {Boolean("true"), Boolean("false")}
    <3>1. v = Boolean("true")
      BY <2>2, <2>4 DEF Falsy
    <3> QED BY <3>1 DEF EncodedValue, Value, Text, Boolean, Falsy
  <2> QED BY <2>1, <2>3, <2>4
<1> HIDE DEF F, T
<1>8. EntriesOf(Prefixed(F), key) = <<e>>
  BY <1>2, <1>3, <1>4, <1>5, PrefixedEntries
<1>9. EntriesOf(uri.entries, key) = <<e>> /\ <<e>> # <<>>
  BY <1>8 DEF F, IsWrittenAs
<1>10. key \in DOMAIN request
  <2>1. HasValue(uri, key, version)
    BY <1>3, <1>7, <1>9, ValueOfOne
  <2> QED BY <1>6, <1>9, <2>1, ConvertedKeys
<1>11. request[key] = IF key = ArrayTypeProperty(version) THEN UnescapedValue(e.value) ELSE DecodedValue(e.value)
  BY <1>9, <1>10, ConvertedValue, ValueOfOne
<1>12. UnescapedValue(e.value).of = e.value.of /\ DecodedValue(e.value).of = e.value.of
  BY <1>3, <1>7 DEF DecodedValue, UnescapedValue, Object, Value
<1> QED BY <1>3, <1>7, <1>10, <1>11, <1>12

-----------------------------------------------------------------------------
\* What a wallet reads and passes on.

\* A value under a key that a wallet has read of a link.
IsRead(v, key, version) ==
    IF key = ArrayTypeProperty(version)
    THEN \/ v.type \in LinkTypes \ {"absent"}
         \/ v = List(v.of, v.words) /\ v.of \in Seq(Range(v.of)) /\ v.of # <<>> /\ Len(v.of) # 1
    ELSE v.type \in LinkTypes \ {"absent", "json object"} \/ v = Object(v.of, v.words)

\* Of a link are read these values only.
LEMMA ReadOfLink ==
    ASSUME NEW uri, AreEntries(uri.entries), NEW version,
           NEW key \in DOMAIN ConvertURIToJsonObject(uri, version)
    PROVE  IsRead(ConvertURIToJsonObject(uri, version)[key], key, version)
<1> DEFINE entries == uri.entries
           own == EntriesOf(entries, key)
           value == ConvertURIToJsonObject(uri, version)[key]
<1>1. entries \in Seq(Range(entries)) /\ \A e \in Range(entries) : e.value.type \in LinkTypes
  BY DEF AreEntries
<1>2. own # <<>> /\ HasValue(uri, key, version)
  BY <1>1, ConvertedKeys
<1>3. /\ own \in Seq(Range(entries)) /\ \A e \in Range(own) : e.value.type \in LinkTypes
      /\ Last(own) \in Range(own)
      /\ Len(own) \in Nat /\ DOMAIN own = 1 .. Len(own) /\ Len(own) # 0
  <2>1. own \in Seq(Range(entries)) /\ \A e \in Range(own) : e \in Range(entries)
    BY <1>1, EntriesOfType
  <2> HIDE DEF own, entries
  <2>2. Len(own) \in Nat /\ DOMAIN own = 1 .. Len(own) /\ Len(own) # 0
    BY <1>2, <2>1
  <2>3. Last(own) \in Range(own)
    BY <2>2 DEF Last, Range
  <2> QED BY <1>1, <2>1, <2>2, <2>3
<1>4. value = ValueOf(uri, key, version)
  BY ConvertedValue
<1>5. value = IF key # ArrayTypeProperty(version) THEN DecodedValue(Last(own).value)
              ELSE IF Len(own) = 1 THEN UnescapedValue(own[1].value)
              ELSE List([i \in DOMAIN own |-> own[i].value.of[1]],
                        UNION {own[i].value.words : i \in DOMAIN own})
  BY <1>4 DEF ValueOf
<1>6. key # ArrayTypeProperty(version) => Last(own).value.type # "absent"
  BY <1>2 DEF HasValue
<1> HIDE DEF own, value, entries
<1>7. CASE key # ArrayTypeProperty(version)
  <2> DEFINE v == Last(own).value
  <2>1. v.type \in LinkTypes /\ value = DecodedValue(v) /\ v.type # "absent"
    BY <1>3, <1>5, <1>6, <1>7
  <2> HIDE DEF v
  <2>2. CASE v.type = "json object"
    <3>1. value = Object(v.of, v.words)
      BY <2>1, <2>2 DEF DecodedValue
    <3>2. value.of = v.of /\ value.words = v.words
      BY <3>1 DEF Object, Value
    <3> QED BY <1>7, <3>1, <3>2 DEF IsRead, value
  <2>3. CASE v.type # "json object"
    BY <1>7, <2>1, <2>3 DEF IsRead, DecodedValue, value
  <2> QED BY <2>2, <2>3
<1>8. CASE key = ArrayTypeProperty(version) /\ Len(own) = 1
  <2>1. own[1] \in Range(own)
    BY <1>3, <1>8 DEF Range
  <2>2. value = UnescapedValue(own[1].value) /\ own[1].value.type \in LinkTypes
    BY <1>3, <1>5, <1>8, <2>1
  <2>3. value.type \in LinkTypes \ {"absent"}
    BY <2>2 DEF UnescapedValue, Text, Value, LinkTypes
  <2> QED BY <1>8, <2>3 DEF IsRead, value
<1>9. CASE key = ArrayTypeProperty(version) /\ Len(own) # 1
  <2> DEFINE of == [i \in DOMAIN own |-> own[i].value.of[1]]
             words == UNION {own[i].value.words : i \in DOMAIN own}
  <2>1. of \in Seq(Range(of)) /\ Len(of) = Len(own) /\ of # <<>>
    <3>1. DOMAIN of = 1 .. Len(own) /\ Len(own) # 0
      BY <1>3
    <3>2. \A i \in 1 .. Len(own) : of[i] \in Range(of)
      BY <1>3 DEF Range
    <3>3. of = [i \in 1 .. Len(own) |-> of[i]]
      BY <1>3
    <3> HIDE DEF of
    <3>4. of \in Seq(Range(of))
      BY <1>3, <3>2, <3>3
    <3> QED BY <1>3, <3>1, <3>4
  <2>2. value = List(of, words)
    BY <1>5, <1>9
  <2> HIDE DEF of, words
  <2>3. value.of = of /\ value.words = words
    BY <2>2 DEF List, Value
  <2> QED BY <1>9, <2>1, <2>2, <2>3 DEF IsRead, value
<1> QED BY <1>7, <1>8, <1>9

LEMMA ReadTypes ==
    ASSUME NEW v, NEW key, NEW version, IsRead(v, key, version)
    PROVE  /\ v.type \in (LinkTypes \ {"absent"}) \cup {"list", "object"}
           /\ v.type = "list" => key = ArrayTypeProperty(version)
           /\ v.type = "object" => key # ArrayTypeProperty(version)
           /\ v.type = "json object" => key = ArrayTypeProperty(version)
<1>1. \A of, words : List(of, words).type = "list" /\ Object(of, words).type = "object"
  BY DEF List, Object, Value
<1>2. "list" \notin LinkTypes /\ "object" \notin LinkTypes
  BY DEF LinkTypes
<1> QED BY <1>1, <1>2 DEF IsRead

Versions == {"v9", "v11"}

\* The entries written of an array of credential types are read as that array.
LEMMA WrittenTypesList ==
    ASSUME NEW version, NEW v, v.type = "list", IsRead(v, "credential_type", version),
           NEW own, own = ConvertedEntries(Field("credential_type", v))
    PROVE  /\ own \in Seq(Range(own)) /\ own # <<>>
           /\ \A e \in Range(own) : e.key = "credential_type"
           /\ \A uri : EntriesOf(uri.entries, "credential_type") = own =>
                 ValueOf(uri, "credential_type", version) = v /\ HasValue(uri, "credential_type", version)
<1> DEFINE of == v.of
           words == v.words
           key == "credential_type"
<1>1. key = ArrayTypeProperty(version) /\ v.type \notin LinkTypes
  BY ReadTypes DEF LinkTypes
<1>2. v = List(of, words) /\ of \in Seq(Range(of)) /\ of # <<>> /\ Len(of) # 1
  BY <1>1 DEF IsRead
<1>3. v.of = of /\ v.words = words
  OBVIOUS
<1> HIDE DEF of, words
<1>4. own = [i \in DOMAIN of |-> Field(key, Value("text", <<of[i]>>, words))]
  <2> DEFINE f == Field(key, v)
  <2>1. f.key = key /\ f.value = v
    BY DEF Field
  <2> HIDE DEF f
  <2>2. ~Falsy(f.value) /\ f.key \in Escaped
    <3>1. Text("").type = "text"
      BY DEF Text, Value
    <3> QED BY <2>1, <3>1, FalsyTypes DEF Escaped
  <2>3. ConvertedEntries(f) =
           [i \in DOMAIN f.value.of |-> Field(f.key, Value("text", <<f.value.of[i]>>, f.value.words))]
    BY <2>1, <2>2 DEF ConvertedEntries
  <2> QED BY <1>3, <2>1, <2>3 DEF f
<1>5. DOMAIN of = 1 .. Len(of) /\ Len(of) \in Nat /\ Len(of) # 0
  BY <1>2
<1>6. own \in Seq(Range(own)) /\ Len(own) = Len(of) /\ own # <<>>
  <2>1. \A i \in 1 .. Len(of) : own[i] \in Range(own)
    BY <1>4, <1>5 DEF Range
  <2>2. own = [i \in 1 .. Len(of) |-> own[i]] /\ DOMAIN own = 1 .. Len(of)
    BY <1>4, <1>5
  <2>3. own \in Seq(Range(own))
    <3> DEFINE R == Range(own)
    <3>1. \A i \in 1 .. Len(of) : own[i] \in R
      BY <2>1
    <3> HIDE DEF R
    <3>2. [i \in 1 .. Len(of) |-> own[i]] \in Seq(R)
      BY <1>5, <3>1
    <3> QED BY <2>2, <3>2 DEF R
  <2>4. Len(own) = Len(of)
    <3>1. Len(own) \in Nat /\ DOMAIN own = 1 .. Len(own)
      BY <2>3
    <3>2. \A m, n \in Nat : 1 .. m = 1 .. n => m = n
      <4> SUFFICES ASSUME NEW m \in Nat, NEW n \in Nat, 1 .. m = 1 .. n, m < n PROVE FALSE
        OBVIOUS
      <4>1. n \in 1 .. n /\ n \notin 1 .. m
        OBVIOUS
      <4> QED BY <4>1
    <3>3. 1 .. Len(own) = 1 .. Len(of)
      BY <2>2, <3>1
    <3> QED BY <1>5, <3>1, <3>2, <3>3
  <2> QED BY <1>5, <2>3, <2>4
<1>7. \A e \in Range(own) : e.key = key
  <2>1. DOMAIN own = DOMAIN of /\ \A i \in DOMAIN of : own[i].key = key
    <3> DEFINE val(i) == Value("text", <<of[i]>>, words)
    <3>1. own = [i \in DOMAIN of |-> [key |-> key, value |-> val(i)]]
      BY <1>4 DEF Field
    <3> HIDE DEF val
    <3> QED BY <3>1
  <2> HIDE DEF key
  <2> QED BY <2>1 DEF Range
<1>8. [i \in DOMAIN own |-> own[i].value.of[1]] = of
  <2>1. DOMAIN own = DOMAIN of /\ \A i \in DOMAIN of : own[i].value.of[1] = of[i]
    BY <1>4 DEF Field, Value
  <2>2. of = [i \in DOMAIN of |-> of[i]]
    BY <1>2
  <2> QED BY <2>1, <2>2
<1>9. UNION {own[i].value.words : i \in DOMAIN own} = words
  <2>1. DOMAIN own = DOMAIN of /\ 1 \in DOMAIN of /\ \A i \in DOMAIN of : own[i].value.words = words
    BY <1>4, <1>5 DEF Field, Value
  <2> QED BY <2>1
<1>10. ASSUME NEW uri, EntriesOf(uri.entries, key) = own
       PROVE  ValueOf(uri, key, version) = v /\ HasValue(uri, key, version)
  <2>1. ValueOf(uri, key, version) = List([i \in DOMAIN own |-> own[i].value.of[1]],
                                          UNION {own[i].value.words : i \in DOMAIN own})
    BY <1>1, <1>2, <1>6, <1>10 DEF ValueOf
  <2>2. HasValue(uri, key, version)
    BY <1>1 DEF HasValue
  <2> QED BY <1>2, <1>8, <1>9, <2>1, <2>2
<1> QED BY <1>6, <1>7, <1>10

\* The entries written of a value that stands alone are read as that value.
LEMMA WrittenEntries ==
    ASSUME NEW version \in Versions, NEW key, NEW v, IsRead(v, key, version), StandsAlone(key, v),
           NEW own, own = ConvertedEntries(Field(key, v))
    PROVE  /\ own \in Seq(Range(own)) /\ own # <<>>
           /\ \A e \in Range(own) : e.key = key
           /\ \A uri : EntriesOf(uri.entries, key) = own =>
                 ValueOf(uri, key, version) = v /\ HasValue(uri, key, version)
<1>1. CASE key = "credential_type" /\ v.type = "list"
  BY <1>1, WrittenTypesList
<1>2. CASE ~(key = "credential_type" /\ v.type = "list")
  <2> DEFINE f == Field(key, v)
             w == IF key \notin Escaped THEN v ELSE EncodedValue(v)
             e == Field(key, w)
  <2>1. ~Falsy(v) /\ v.type \notin {"boolean", "absent"}
    BY ReadTypes DEF LinkTypes, StandsAlone
  <2>2. own = <<e>>
    <3>1. f.key = key /\ f.value = v
      BY DEF Field
    <3> HIDE DEF f
    <3>2. CASE key \notin Escaped
      <4>1. v \notin DOMAIN Reserved /\ AsItIs(v) = v
        BY <3>2 DEF StandsAlone, AsItIs
      <4> QED BY <2>1, <3>1, <3>2, <4>1 DEF ConvertedEntries, UnescapedEntries, f
    <3>3. CASE key \in Escaped
      BY <1>2, <2>1, <3>1, <3>3 DEF ConvertedEntries, f
    <3> QED BY <3>2, <3>3
  <2>3. e.key = key /\ e.value = w
    BY DEF Field
  <2> HIDE DEF e
  <2>4. own \in Seq(Range(own)) /\ own # <<>> /\ \A x \in Range(own) : x.key = key
    <3>1. Range(own) = {e}
      BY <2>2, RangeOfFew
    <3>2. <<e>> \in Seq({e}) /\ <<e>> # <<>>
      OBVIOUS
    <3> QED BY <2>2, <2>3, <3>1, <3>2
  <2>5. w.type # "absent" /\ ~Falsy(w)
    BY <2>1 DEF EncodedValue, Value, Falsy, Boolean, Text
  <2>6. (IF key = ArrayTypeProperty(version) THEN UnescapedValue(w) ELSE DecodedValue(w)) = v
    <3>1. CASE v.type = "list"
      <4>1. key = ArrayTypeProperty(version) /\ key \in Escaped
        BY <3>1, ReadTypes DEF StandsAlone
      <4> QED BY <1>2, <3>1, <4>1 DEF ArrayTypeProperty, Escaped
    <3>2. CASE v.type = "object"
      <4>1. key # ArrayTypeProperty(version) /\ v.type \notin LinkTypes /\ key \in Escaped
        BY <3>2, ReadTypes DEF LinkTypes, StandsAlone
      <4>2. v = Object(v.of, v.words)
        BY <4>1 DEF IsRead
      <4>3. w = Value("json object", v.of, v.words)
        BY <3>2, <4>1 DEF EncodedValue
      <4>4. w.type = "json object" /\ w.of = v.of /\ w.words = v.words
        <5> HIDE DEF w
        <5> QED BY <4>3 DEF Value
      <4> QED BY <4>1, <4>2, <4>4 DEF DecodedValue
    <3>3. CASE v.type \notin {"object", "list"}
      <4>1. w = v
        BY <2>1, <3>3 DEF EncodedValue
      <4>2. key # ArrayTypeProperty(version) => v.type # "json object"
        BY ReadTypes
      <4> QED BY <2>1, <4>1, <4>2 DEF DecodedValue, UnescapedValue
    <3> QED BY <3>1, <3>2, <3>3
  <2> HIDE DEF w
  <2>7. ASSUME NEW uri, EntriesOf(uri.entries, key) = own
        PROVE  ValueOf(uri, key, version) = v /\ HasValue(uri, key, version)
    BY <2>2, <2>3, <2>5, <2>6, <2>7, ValueOfOne
  <2> QED BY <2>4, <2>7
<1> QED BY <1>1, <1>2

\* A key of the link is at a first place.
LEMMA FirstPlace ==
    ASSUME NEW T, NEW entries \in Seq(T), NEW key, \E i \in DOMAIN entries : entries[i].key = key
    PROVE  \E k \in DOMAIN entries : /\ entries[k].key = key
                                     /\ \A j \in 1 .. k - 1 : entries[j].key # key
<1> DEFINE S == {k \in DOMAIN entries : entries[k].key = key}
           Less == {ij \in Nat \X Nat : ij[1] < ij[2]}
<1>1. DOMAIN entries = 1 .. Len(entries) /\ Len(entries) \in Nat
  OBVIOUS
<1>2. S # {} /\ S \subseteq Nat
  BY <1>1
<1>3. PICK k \in S : \A j \in S : ~ (<<j, k>> \in Less)
  <2>1. IsWellFoundedOn(Less, Nat)
    BY NatLessThanWellFounded, Zenon DEF OpToRel
  <2> HIDE DEF Less, S
  <2> QED BY <1>2, <2>1, WFMin
<1>4. \A j \in S : ~ (j < k)
  BY <1>2, <1>3
<1>5. k \in 1 .. Len(entries) /\ entries[k].key = key
  BY <1>1
<1>6. \A j \in 1 .. k - 1 : j \in DOMAIN entries /\ j < k
  BY <1>1, <1>5
<1> QED BY <1>1, <1>4, <1>5, <1>6

\* A link written of what was read is read as that, if every value stands alone.
LEMMA PassedOnLink ==
    ASSUME NEW version \in Versions, NEW uri, AreEntries(uri.entries),
           NEW before, before = ConvertURIToJsonObject(uri, version),
           \A key \in DOMAIN before : StandsAlone(key, before[key]),
           NEW next, next = ToURI(before, uri),
           NEW after, after = ConvertURIToJsonObject(next, version)
    PROVE  after = before
<1> DEFINE entries == uri.entries
           own(key) == ConvertedEntries(Field(key, before[key]))
           isField(i) == entries[i].key \in DOMAIN before
                         /\ \A j \in 1 .. i - 1 : entries[j].key # entries[i].key
           ss == [i \in DOMAIN entries |-> IF isField(i) THEN own(entries[i].key) ELSE <<>>]
           keys == [i \in DOMAIN entries |-> entries[i].key]
           T == UNION {Range(ss[i]) : i \in DOMAIN ss}
<1>1. entries \in Seq(Range(entries)) /\ DOMAIN entries = 1 .. Len(entries) /\ Len(entries) \in Nat
  BY DEF AreEntries
<1>2. next.entries = FlattenSeq(ss)
  <2> DEFINE field(i) == Field(entries[i].key, before[entries[i].key])
             written(i) == IF isField(i) THEN ConvertedEntries(field(i)) ELSE <<>>
             isBeyond(i) == \E j \in 1 .. i - 1 : isField(j) /\ EndsLink(field(j))
  <2>1. next.entries = FlattenSeq([i \in DOMAIN entries |-> IF isBeyond(i) THEN <<>> ELSE written(i)])
    BY DEF ToURI
  <2>2. \A i : isField(i) => ~EndsLink(field(i))
    BY DEF EndsLink, StandsAlone, Field
  <2>3. \A i \in DOMAIN entries : ~isBeyond(i) /\ written(i) = ss[i]
    BY <2>2
  <2> HIDE DEF isBeyond, written, ss
  <2>4. [i \in DOMAIN entries |-> IF isBeyond(i) THEN <<>> ELSE written(i)] = [i \in DOMAIN entries |-> ss[i]]
    BY <2>3
  <2>5. [i \in DOMAIN entries |-> ss[i]] = ss
    BY DEF ss
  <2> QED BY <2>1, <2>4, <2>5
<1>3. ASSUME NEW key \in DOMAIN before
      PROVE  /\ own(key) \in Seq(Range(own(key))) /\ own(key) # <<>>
             /\ \A e \in Range(own(key)) : e.key = key
             /\ EntriesOf(next.entries, key) = own(key) =>
                   ValueOf(next, key, version) = before[key] /\ HasValue(next, key, version)
  <2>1. IsRead(before[key], key, version)
    BY ReadOfLink
  <2> QED BY <2>1, WrittenEntries
<1> HIDE DEF own
<1>4. /\ DOMAIN ss = DOMAIN entries
      /\ \A i \in DOMAIN entries : ss[i] = IF isField(i) THEN own(entries[i].key) ELSE <<>>
  OBVIOUS
<1>5. \A i \in DOMAIN entries : ss[i] \in Seq(T)
  <2> SUFFICES ASSUME NEW i \in DOMAIN entries PROVE ss[i] \in Seq(T)
    OBVIOUS
  <2>1. Range(ss[i]) \subseteq T
    BY <1>4
  <2> HIDE DEF T, ss
  <2>2. ss[i] \in Seq(Range(ss[i]))
    <3>1. CASE isField(i)
      BY <1>3, <1>4, <3>1
    <3>2. CASE ~isField(i)
      <4>1. ss[i] = <<>>
        BY <1>4, <3>2
      <4> QED BY <4>1
    <3> QED BY <3>1, <3>2
  <2> DEFINE R == Range(ss[i])
  <2> HIDE DEF R
  <2>3. Seq(R) \subseteq Seq(T)
    BY <2>1 DEF R
  <2> QED BY <2>2, <2>3 DEF R
<1>6. ss \in Seq(Seq(T))
  <2> DEFINE n == Len(entries)
             TT == Seq(T)
  <2>1. ss = [i \in 1 .. n |-> ss[i]]
    BY <1>1
  <2> HIDE DEF ss, T, TT
  <2>2. \A i \in 1 .. n : ss[i] \in TT
    BY <1>1, <1>5 DEF TT
  <2>3. n \in Nat
    BY <1>1
  <2> HIDE DEF n
  <2>4. [i \in 1 .. n |-> ss[i]] \in Seq(TT)
    BY <2>2, <2>3
  <2> QED BY <2>1, <2>4 DEF TT
<1> HIDE DEF ss, T
<1>7. \A i \in DOMAIN entries : \A e \in Range(ss[i]) : isField(i) /\ e.key = entries[i].key
  BY <1>3, <1>4, RangeOfFew
<1>8. IsKeyed(ss, keys)
  <2>1. \A i, j \in DOMAIN entries : isField(i) /\ isField(j) /\ entries[i].key = entries[j].key => i = j
    <3> SUFFICES ASSUME NEW i \in DOMAIN entries, NEW j \in DOMAIN entries, isField(j),
                        entries[i].key = entries[j].key, i < j
                 PROVE  FALSE
      BY <1>1
    <3>1. i \in 1 .. j - 1
      BY <1>1
    <3> QED BY <3>1
  <2>2. DOMAIN ss = DOMAIN entries /\ \A i \in DOMAIN entries : keys[i] = entries[i].key
    BY <1>4
  <2>3. \A i \in DOMAIN entries : ss[i] # <<>> => isField(i)
    BY <1>4
  <2> HIDE DEF isField, keys, entries
  <2>4. \A i \in DOMAIN ss : \A e \in Range(ss[i]) : e.key = keys[i]
    BY <1>7, <2>2
  <2>5. \A i, j \in DOMAIN ss : ss[i] # <<>> /\ ss[j] # <<>> /\ keys[i] = keys[j] => i = j
    BY <2>1, <2>2, <2>3
  <2> QED BY <2>4, <2>5 DEF IsKeyed
<1>9. \A key \in DOMAIN before : EntriesOf(next.entries, key) = own(key)
  <2> SUFFICES ASSUME NEW key \in DOMAIN before PROVE EntriesOf(next.entries, key) = own(key)
    OBVIOUS
  <2>1. PICK i \in DOMAIN entries : entries[i].key = key
    BY DEF ConvertURIToJsonObject, KeysOf, Range
  <2>2. PICK k \in DOMAIN entries : /\ entries[k].key = key
                                    /\ \A j \in 1 .. k - 1 : entries[j].key # key
    <3> DEFINE U == Range(entries)
    <3> HIDE DEF U
    <3>1. entries \in Seq(U)
      BY <1>1 DEF U
    <3>2. \E j \in DOMAIN entries : entries[j].key = key
      BY <2>1
    <3> HIDE DEF entries
    <3> QED BY <3>1, <3>2, FirstPlace
  <2>3. ss[k] = own(key) /\ ss[k] # <<>> /\ keys[k] = key
    BY <1>3, <1>4, <2>2
  <2>4. EntriesOf(FlattenSeq(ss), keys[k]) = ss[k]
    BY <1>4, <1>6, <1>8, <2>3, EntriesOfKeyed
  <2> QED BY <1>2, <2>3, <2>4
<1>10. next.entries \in Seq(T)
  BY <1>2, <1>6, FlattenType
<1>11. ASSUME NEW key \in DOMAIN after PROVE key \in DOMAIN before
  <2>1. EntriesOf(next.entries, key) # <<>>
    BY <1>10, ConvertedKeys
  <2>2. PICK e \in Range(next.entries) : e.key = key
    BY <1>10, <2>1, EntriesOfNone
  <2>3. PICK i \in DOMAIN ss : e \in Range(ss[i])
    BY <1>2, <1>6, FlattenRange
  <2> QED BY <1>4, <1>7, <2>2, <2>3
<1>12. ASSUME NEW key \in DOMAIN before PROVE key \in DOMAIN after /\ after[key] = before[key]
  <2>1. EntriesOf(next.entries, key) # <<>> /\ HasValue(next, key, version)
    BY <1>3, <1>9
  <2>2. key \in DOMAIN after
    BY <1>10, <2>1, ConvertedKeys
  <2>3. after[key] = ValueOf(next, key, version)
    BY <2>2, ConvertedValue
  <2> QED BY <1>3, <1>9, <2>2, <2>3
<1>13. after = [key \in DOMAIN after |-> after[key]] /\ before = [key \in DOMAIN before |-> before[key]]
  BY DEF ConvertURIToJsonObject
<1>14. DOMAIN after = DOMAIN before
  BY <1>11, <1>12
<1> QED BY <1>12, <1>13, <1>14

-----------------------------------------------------------------------------
\* The offers of the issuer's own metadata.
LEMMA PayloadIsOffer ==
    ASSUME NEW code
    PROVE  IsOffer(PayloadOf(Metadata, code))
<1> DEFINE words == Metadata.words
           credentialIssuer == Field("credential_issuer", Text(Metadata.credential_issuer))
           some == Field("credentials", List(Metadata.credentials, words))
           grants == Field("grants", Object(<<code>>, {"authorization_code", "issuer_state"}
                        \cup IF code = "none" THEN {} ELSE {"pre-authorized_code"}))
           payload == <<credentialIssuer, some, grants>>
<1>1. PayloadOf(Metadata, code) = payload
  BY DEF PayloadOf
<1>2. words \subseteq {"cryptographic_binding_methods_supported", "cryptographic_suites_supported",
                       "credentialSubject"}
  BY DEF Metadata
<1> HIDE DEF words
<1>3. credentialIssuer.key = "credential_issuer" /\ credentialIssuer.value.type = "text"
      /\ credentialIssuer.value.words = {} /\ credentialIssuer.value # Text("")
  BY DEF Metadata, Field, Text, Value
<1>4. some.key = "credentials" /\ some.value.type = "list" /\ some.value.words = words
  BY DEF Field, List, Value
<1>5. grants.key = "grants" /\ grants.value.type = "object"
      /\ grants.value.words \subseteq {"authorization_code", "issuer_state", "pre-authorized_code"}
  BY DEF Field, Object, Value
<1> HIDE DEF credentialIssuer, some, grants
<1> DEFINE fields == {credentialIssuer, some, grants}
<1>6. Range(payload) = fields /\ payload \in Seq(fields) /\ DOMAIN payload = 1 .. 3
  BY DEF Range
<1>7. \A i, j \in DOMAIN payload : payload[i].key = payload[j].key => i = j
  <2>1. /\ payload[1] = credentialIssuer /\ payload[2] = some /\ payload[3] = grants
        /\ DOMAIN payload = 1 .. 3
    OBVIOUS
  <2> HIDE DEF payload
  <2>2. /\ payload[1].key = "credential_issuer" /\ payload[2].key = "credentials"
        /\ payload[3].key = "grants"
    BY <1>3, <1>4, <1>5, <2>1
  <2>3. \A i \in 1 .. 3 : i = 1 \/ i = 2 \/ i = 3
    OBVIOUS
  <2> QED BY <2>1, <2>2, <2>3
<1>8. \E f \in fields : ~Falsy(f.value)
  <2>1. ~Falsy(credentialIssuer.value)
    BY <1>3, FalsyTypes
  <2> QED BY <2>1
<1>9. \A f \in fields : f.value.type \in {"text", "list", "object"} /\ f.value # Text("")
  <2>1. Text("").type = "text"
    BY DEF Text, Value
  <2> QED BY <1>3, <1>4, <1>5, <2>1
<1>10. \A f \in fields :
          /\ f.key \in {"credential_issuer", "credentials", "credential_definition", "grants"}
          /\ f.value.words \cap {"credential_issuer", "credentials", "credential_type"} = {}
  BY <1>2, <1>3, <1>4, <1>5
<1> HIDE DEF fields, payload
<1>11. IsOffer(payload)
  BY <1>6, <1>7, <1>8, <1>9, <1>10 DEF IsOffer
<1> QED BY <1>1, <1>11

-----------------------------------------------------------------------------
\* What this issuer has written is a reference, or the offer behind "credential_offer=".
Written(uri, payload) ==
    \/ payload = <<>> /\ IsReference(uri)
    \/ IsOffer(payload) /\ IsWrittenAs(uri, payload)

\* What the last wallet has read is what the link says.
ReadAsIs ==
    IF FromURIError(link) # "none" THEN read = [error |-> FromURIError(link), request |-> <<>>]
    ELSE /\ read.error \in {"none", "NO_ISSUER"}
         /\ read.request = ConvertURIToJsonObject(link, VersionOf(link))

\* What a wallet has passed on is what a link says, written in its order.
PassedOnAsRead ==
    \E uri : /\ AreEntries(uri.entries)
             /\ passedOn = ConvertURIToJsonObject(uri, VersionOf(uri))
             /\ link = ToURI(passedOn, uri)

\* The inductive invariant: what the link, the last reading and the history are of
\* each other, by who has written the link.
LinksOK ==
    /\ from \in {"nobody", "issuer", "other", "wallet"}
    /\ from = "nobody" => read = Unread
    /\ from = "issuer" => Written(link, offered)
    /\ from \in {"issuer", "other"} => AreEntries(link.entries)
    /\ from = "wallet" => PassedOnAsRead
    /\ read = Unread \/ ReadAsIs

\* A link of this issuer's holds texts, some of them JSON.
LEMMA WrittenIsLink ==
    ASSUME NEW uri, NEW payload, Written(uri, payload)
    PROVE  AreEntries(uri.entries)
<1>1. CASE IsReference(uri)
  <2> DEFINE e == Field("credential_offer_uri", Text("url"))
  <2>1. e.value.type = "text"
    BY DEF Field, Text, Value
  <2> HIDE DEF e
  <2>2. <<e>> \in Seq({e}) /\ Range(<<e>>) = {e}
    BY RangeOfFew
  <2>3. uri.entries = <<e>>
    BY <1>1 DEF e, IsReference
  <2>4. uri.entries \in Seq(Range(uri.entries)) /\ Range(uri.entries) = {e}
    BY <2>2, <2>3
  <2> QED BY <2>1, <2>4 DEF AreEntries, LinkTypes
<1> QED BY <1>1, WrittenTypes DEF Written

\* One step of the issuer and of a wallet each keeps LinksOK.
LEMMA OfferStep ==
    ASSUME LinksOK, NEW opts, opts.credentialOffer # <<>> => IsOffer(opts.credentialOffer), Offer(opts)
    PROVE  LinksOK'
<1>1. read' = read /\ read = Unread /\ from' = "issuer"
  BY DEF LinksOK, Offer
<1>2. Written(link', offered')
  <2> DEFINE code == opts.preAuthorizedCode
  <2>0. link'.entries = IF opts.credentialOfferUri THEN <<Field("credential_offer_uri", Text("url"))>>
                        ELSE Prefixed(EncodeJsonAsURI(
                                IF opts.credentialOffer # <<>> THEN opts.credentialOffer
                                ELSE PayloadOf(Metadata, code)))
    BY DEF Offer, CreateCredentialOfferURI
  <2>4. link'.beyond = <<>>
    BY DEF Offer, CreateCredentialOfferURI
  <2>1. CASE opts.credentialOfferUri
    BY <2>0, <2>1, <2>4 DEF Written, Offer, IsReference
  <2>2. CASE ~opts.credentialOfferUri /\ opts.credentialOffer # <<>>
    <3>1. offered' = opts.credentialOffer
      BY <2>2 DEF Offer
    <3> QED BY <2>0, <2>2, <2>4, <3>1 DEF Written, IsWrittenAs
  <2>3. CASE ~opts.credentialOfferUri /\ opts.credentialOffer = <<>>
    <3>1. offered' = PayloadOf(Metadata, code)
      BY <2>3 DEF Offer
    <3> QED BY <2>0, <2>3, <2>4, <3>1, PayloadIsOffer DEF Written, IsWrittenAs
  <2> QED BY <2>1, <2>2, <2>3
<1>3. AreEntries(link.entries)'
  BY <1>2, WrittenIsLink
<1> QED BY <1>1, <1>2, <1>3 DEF LinksOK, Unread

LEMMA FromURIStep ==
    ASSUME LinksOK, NEW retrieve \in BOOLEAN, FromURI(retrieve)
    PROVE  LinksOK'
<1>1. UNCHANGED <<link, from, offered, passedOn>> /\ from # "nobody"
  BY DEF FromURI, history
<1>2. ReadAsIs'
  BY <1>1 DEF FromURI, ReadAsIs
<1> QED BY <1>1, <1>2 DEF LinksOK, Written, PassedOnAsRead

LEMMA PassOnStep ==
    ASSUME LinksOK, PassOn
    PROVE  LinksOK'
<1>1. AreEntries(link.entries) /\ read.request = ConvertURIToJsonObject(link, VersionOf(link))
  <2>1. read # Unread /\ FromURIError(link) = "none"
    BY DEF PassOn, LinksOK, Unread, ReadAsIs
  <2>2. from \in {"issuer", "other"}
    BY <2>1 DEF PassOn, LinksOK
  <2> QED BY <2>1, <2>2 DEF LinksOK, ReadAsIs
<1>2. link' = ToURI(passedOn', link) /\ passedOn' = read.request
  BY DEF PassOn
<1>3. PassedOnAsRead'
  BY <1>1, <1>2 DEF PassedOnAsRead
<1> QED BY <1>3 DEF PassOn, LinksOK

LEMMA LinksInit == Init => LinksOK
  BY DEF Init, LinksOK

LEMMA LinksNext == LinksOK /\ [Next]_vars => LinksOK'
<1> SUFFICES ASSUME LinksOK, [Next]_vars PROVE LinksOK'
  OBVIOUS
<1>1. CASE UNCHANGED links
  BY <1>1 DEF LinksOK, links, history, Written, ReadAsIs, PassedOnAsRead
<1>2. CASE CredentialOfferEndpoint
  BY <1>2, OfferStep DEF CredentialOfferEndpoint
<1>3. ASSUME NEW opts \in Options, Offer(opts) PROVE LinksOK'
  BY <1>3, OfferStep, LinksAssumption
<1>4. ASSUME NEW uri \in OtherLinks, OtherOffer(uri) PROVE LinksOK'
  <2>1. AreEntries(uri.entries)
    BY LinksAssumption
  <2> QED BY <1>4, <2>1 DEF OtherOffer, LinksOK, Unread
<1> QED BY <1>1, <1>2, <1>3, <1>4, FromURIStep, PassOnStep DEF Next, vars

\* The steps of the application on its builders are all that changes them.
LEMMA BuildersStep == [Next]_vars => [BuildersNext]_builders
<1> SUFFICES ASSUME [Next]_vars PROVE [BuildersNext]_builders
  OBVIOUS
<1> QED BY DEF Next, vars, CredentialOfferEndpoint, Offer, OtherOffer, FromURI, PassOn

\* What the application goes on to tell a builder, in any number of calls and
\* over any number of credentials, changes nothing in the lists of a credential
\* it has built: only its own change of an array that it handed over does (the
\* add methods and build of CredentialSupportedBuilderV1_11).
THEOREM BuiltIsChangedByOwnerOnly == Spec => []BuiltChangesByOwnerOnly
<1>1. Init => BuildersInv
  BY BuildersInitially DEF Init
<1>2. BuildersInv /\ [Next]_vars => BuildersInv'
  BY BuildersStep, BuildersNextInv
<1>3. BuildersInv => BuiltChangesByOwnerOnly
  BY DEF BuildersInv
<1> QED BY <1>1, <1>2, <1>3, PTL DEF Spec

\* Of any offer whose values hold none of the words that LinksAssumption keeps out
\* of them, and of any metadata: a link that the wallet reads holds an offer of its
\* scheme's version with the required fields, and the wallet reads every such v9
\* link, and every such v11 link without a pre-authorized code
\* (createCredentialOfferURI against CredentialOffer.fromURI).
THEOREM LinksAreReadable == Spec => []ReadableLinks
<1>1. LinksOK => ReadableLinks
  <2> SUFFICES ASSUME LinksOK, read.error # "unread", from = "issuer"
               PROVE  /\ Readable => Fits
                      /\ /\ Fits /\ Plain(offered)
                         /\ link.scheme = CREDENTIAL_OFFER =>
                               \A i \in DOMAIN offered : ~Says(offered[i], "pre-authorized_code")
                         => Readable
    BY DEF ReadableLinks
  <2>1. ReadAsIs /\ Written(link, offered)
    BY DEF LinksOK, Unread
  <2>2. Readable <=> FromURIError(link) = "none"
    BY <2>1 DEF ReadAsIs, FromURIError, Readable
  <2>3. Fits <=> FitsAs(link, offered)
    BY DEF Fits, FitsAs
  <2>4. CASE offered = <<>> /\ IsReference(link)
    BY <2>2, <2>4, ReferenceIsUnreadable DEF HasKey, Fits
  <2>5. CASE IsOffer(offered) /\ IsWrittenAs(link, offered)
    BY <2>2, <2>3, <2>5, ReadableOffer
  <2> QED BY <2>1, <2>4, <2>5 DEF Written
<1> QED BY <1>1, LinksInit, LinksNext, PTL DEF Spec

\* Of any offer that is read, with any number of fields, every field with a value
\* that has another in front of it comes through (encodeJsonAsURI behind
\* "credential_offer=", getURIComponentsAsArray).
THEOREM FieldsComeThrough == Spec => []LaterFieldsIntact
<1>1. LinksOK => LaterFieldsIntact
  <2> SUFFICES ASSUME LinksOK, read.request # <<>>, from = "issuer",
                      NEW i \in DOMAIN offered, NEW j \in 1 .. i - 1,
                      ~Falsy(offered[i].value), ~Falsy(offered[j].value)
               PROVE  ComesThrough(offered[i])
    BY DEF LaterFieldsIntact
  <2>1. ReadAsIs /\ Written(link, offered)
    BY DEF LinksOK, Unread
  <2>2. read.request = ConvertURIToJsonObject(link, VersionOf(link))
    BY <2>1 DEF ReadAsIs
  <2>3. IsOffer(offered) /\ IsWrittenAs(link, offered)
    BY <2>1 DEF Written
  <2> QED BY <2>2, <2>3, LaterComesThrough DEF ComesThrough
<1> QED BY <1>1, LinksInit, LinksNext, PTL DEF Spec

\* Whatever link a wallet has read and written again, if every value in it stands
\* alone, the next wallet reads exactly what the first one had read
\* (CredentialOffer.toURI with convertJsonToURI, against convertURIToJsonObject).
THEOREM PassingOnKeeps == Spec => []PassedOnPlain
<1>1. LinksOK => PassedOnPlain
  <2> SUFFICES ASSUME LinksOK, from = "wallet", Readable,
                      \A key \in DOMAIN passedOn : StandsAlone(key, passedOn[key])
               PROVE  read.request = passedOn
    BY DEF PassedOnPlain
  <2>1. ReadAsIs /\ PassedOnAsRead
    BY DEF LinksOK, Unread, Readable
  <2>2. read.request = ConvertURIToJsonObject(link, VersionOf(link))
    BY <2>1 DEF ReadAsIs, FromURIError, Readable
  <2>3. PICK uri : /\ AreEntries(uri.entries)
                   /\ passedOn = ConvertURIToJsonObject(uri, VersionOf(uri))
                   /\ link = ToURI(passedOn, uri)
    BY <2>1 DEF PassedOnAsRead
  <2>4. VersionOf(link) = VersionOf(uri) /\ VersionOf(uri) \in Versions
    BY <2>3 DEF VersionOf, Versions, ToURI
  <2> QED BY <2>2, <2>3, <2>4, PassedOnLink
<1> QED BY <1>1, LinksInit, LinksNext, PTL DEF Spec
=============================================================================
