--------------------------- MODULE CngSignerProofs --------------------------
(***************************************************************************)
(* Theorems about CngSigner, for every store, selector, offer and set of   *)
(* signing threads.                                                        *)
(***************************************************************************)
EXTENDS CngSigner, FiniteSetTheorems, TLAPS

\* The certificates among the first n of the store that satisfy the selector,
\* and those that cannot be judged.
Good(n) == {i \in 1..n : Matches(store[i]) = {TRUE}}
Bad(n)  == {i \in 1..n : Matches(store[i]) = {}}

-----------------------------------------------------------------------------
(* The inductive invariant.                                                 *)

\* The enumeration has judged the certificates up to prev, counted those that
\* match, and holds one of them.
CountInv == /\ prev \in 0..Len(store)
            /\ phase # "gone" =>
                  /\ Bad(prev) = {}
                  /\ matches = Cardinality(Good(prev))
                  /\ matches # 0 => chosen \in Good(prev)

\* Past the enumeration there was exactly one.
ChosenInv == phase \in {"build", "ready"} => prev = Len(store) /\ matches = 1

\* An answer that names the store's fault names the whole store's.
ResultInv ==
    /\ result = "NoMatchingCert" => Bad(Len(store)) = {} /\ Good(Len(store)) = {}
    /\ result = "AmbiguousMatch" =>
          Bad(Len(store)) = {} /\ Cardinality(Good(Len(store))) > 1

\* The certificate is presented only to a server that takes its scheme.
OfferInv == offered # {} => phase = "ready" /\ Chooses

\* There is a handle to free exactly while the signer owns one.
HandleInv == /\ handles = (IF phase = "ready" /\ callerFree THEN 1 ELSE 0)
             /\ callerFree \in BOOLEAN

IInv == /\ store \in Seq(CertificateType)
        /\ CountInv /\ ChosenInv /\ ResultInv /\ OfferInv /\ HandleInv

\* What is judged grows by one certificate at a time.
LEMMA GoodGrows ==
    ASSUME NEW n \in Nat
    PROVE  /\ IsFiniteSet(Good(n)) /\ Cardinality(Good(n)) \in Nat
           /\ Matches(store[n + 1]) # {TRUE} => Good(n + 1) = Good(n)
           /\ Matches(store[n + 1]) = {TRUE} =>
                 /\ Good(n + 1) = Good(n) \cup {n + 1}
                 /\ Cardinality(Good(n + 1)) = Cardinality(Good(n)) + 1
           /\ Matches(store[n + 1]) # {} => Bad(n + 1) = Bad(n)
<1>1. IsFiniteSet(Good(n)) /\ Cardinality(Good(n)) \in Nat
  <2>1. IsFiniteSet(1..n)
    BY FS_Interval
  <2>2. Good(n) \subseteq 1..n
    BY DEF Good
  <2> QED
    BY <2>1, <2>2, FS_Subset, FS_CardinalityType
<1>2. 1..(n + 1) = (1..n) \cup {n + 1} /\ n + 1 \notin 1..n
  OBVIOUS
<1>3. Matches(store[n + 1]) # {TRUE} => Good(n + 1) = Good(n)
  BY <1>2 DEF Good
<1>4. ASSUME Matches(store[n + 1]) = {TRUE}
      PROVE  /\ Good(n + 1) = Good(n) \cup {n + 1}
             /\ Cardinality(Good(n + 1)) = Cardinality(Good(n)) + 1
  <2>1. Good(n + 1) = Good(n) \cup {n + 1} /\ n + 1 \notin Good(n)
    BY <1>2, <1>4 DEF Good
  <2> QED
    BY <1>1, <2>1, FS_AddElement
<1>5. Matches(store[n + 1]) # {} => Bad(n + 1) = Bad(n)
  BY <1>2 DEF Bad
<1> QED
  BY <1>1, <1>3, <1>4, <1>5

LEMMA InitInv == Init => IInv
<1> SUFFICES ASSUME Init PROVE IInv
  OBVIOUS
<1>1. store \in Seq(CertificateType) /\ Len(store) \in Nat
  BY StoreAssumption DEF Init
<1>2. Good(0) = {} /\ Bad(0) = {} /\ Cardinality({}) = 0
  BY FS_EmptySet DEF Good, Bad
<1>3. CountInv
  <2>1. prev = 0 /\ matches = 0 /\ prev \in 0..Len(store)
    BY <1>1 DEF Init
  <2>2. Good(prev) = {} /\ Bad(prev) = {}
    BY <2>1 DEF Good, Bad
  <2> QED
    BY <1>2, <2>1, <2>2 DEF CountInv
<1> QED
  BY <1>1, <1>3 DEF Init, IInv, ChosenInv, ResultInv, OfferInv, HandleInv

\* A step of the signer, or of anything else that judges no certificate.
Judged == UNCHANGED <<store, selector, prev, chosen, matches>>

LEMMA JudgedSame ==
    ASSUME Judged
    PROVE  /\ \A n : Good(n)' = Good(n) /\ Bad(n)' = Bad(n)
           /\ Scheme' = Scheme /\ Len(store)' = Len(store)
  BY DEF Judged, Good, Bad, Scheme, Matches

LEMMA ExamineInv == ASSUME IInv, Examine PROVE IInv'
<1> USE DEF IInv
<1>1. /\ phase = "open" /\ prev < Len(store) /\ Len(store) \in Nat /\ prev \in Nat
      /\ UNCHANGED <<store, selector, handles, callerFree, offered, signing>>
  BY DEF Examine, CountInv, use
<1>2. PICK n \in Nat : n = prev
  BY <1>1
<1>3. /\ Cardinality(Good(n)) \in Nat
      /\ Bad(n) = {} /\ matches = Cardinality(Good(n))
      /\ matches # 0 => chosen \in Good(n)
  BY <1>1, <1>2, GoodGrows DEF CountInv
<1>4. \A k : Good(k)' = Good(k) /\ Bad(k)' = Bad(k)
  BY <1>1 DEF Good, Bad, Matches
<1>5. store' \in Seq(CertificateType) /\ HandleInv' /\ OfferInv'
  <2>1. phase' # "ready" /\ offered = {}
    BY <1>1 DEF Examine, Fail, OfferInv
  <2> QED
    BY <1>1, <2>1 DEF HandleInv, OfferInv
<1>6. CASE /\ Matches(store[n + 1]) # {}
           /\ prev' = n + 1 /\ UNCHANGED <<phase, result>>
           /\ IF Matches(store[n + 1]) = {TRUE} THEN matches' = matches + 1 /\ chosen' = n + 1
                                                ELSE UNCHANGED <<chosen, matches>>
  <2>1. prev' \in 0..Len(store)'
    BY <1>1, <1>2, <1>6
  <2>2. Bad(n + 1) = {} /\ matches' = Cardinality(Good(n + 1))
    BY <1>3, <1>6, GoodGrows
  <2>3. matches' # 0 => chosen' \in Good(n + 1)
    BY <1>3, <1>6, GoodGrows
  <2>4. CountInv'
    BY <1>4, <1>6, <2>1, <2>2, <2>3 DEF CountInv
  <2> QED
    BY <1>1, <1>4, <1>5, <1>6, <2>4 DEF ChosenInv, ResultInv
<1>7. CASE phase' = "gone" /\ result' = "BadCertificate" /\ UNCHANGED <<prev, chosen, matches>>
  BY <1>1, <1>5, <1>7 DEF CountInv, ChosenInv, ResultInv
<1> QED
  BY <1>1, <1>2, <1>6, <1>7 DEF Examine, Fail

\* Where nothing is judged, what the answers say of the store still holds.
LEMMA JudgedInv ==
    ASSUME IInv, Judged
    PROVE  /\ store' \in Seq(CertificateType)
           /\ phase # "gone" \/ phase' = "gone" => CountInv'
           /\ result' = result \/ result' \notin {"NoMatchingCert", "AmbiguousMatch"}
                 => ResultInv'
<1> USE DEF IInv
<1>1. /\ \A n : Good(n)' = Good(n) /\ Bad(n)' = Bad(n)
      /\ UNCHANGED <<store, prev, chosen, matches>>
  BY JudgedSame DEF Judged
<1>2. phase # "gone" \/ phase' = "gone" => CountInv'
  BY <1>1 DEF CountInv
<1>3. result' = result \/ result' \notin {"NoMatchingCert", "AmbiguousMatch"} => ResultInv'
  BY <1>1 DEF ResultInv
<1> QED
  BY <1>1, <1>2, <1>3

LEMMA AtEndInv == ASSUME IInv, AtEnd PROVE IInv'
<1> USE DEF IInv
<1>1. /\ phase = "open" /\ prev = Len(store) /\ Judged
      /\ UNCHANGED <<handles, callerFree, offered>>
  BY DEF AtEnd, found, Judged, use
<1>2. Cardinality(Good(prev)) \in Nat /\ IsFiniteSet(Good(prev))
  <2>1. prev \in Nat
    BY DEF CountInv
  <2> QED
    BY <2>1, GoodGrows
<1>3. store' \in Seq(CertificateType) /\ CountInv'
  BY <1>1, JudgedInv
<1>4. HandleInv' /\ OfferInv'
  <2>1. phase' # "ready" /\ offered = {}
    BY <1>1 DEF AtEnd, Fail, OfferInv
  <2> QED
    BY <1>1, <2>1 DEF HandleInv, OfferInv
<1>5. CASE Unique
  <2>1. phase' = "build" /\ result' = result
    BY <1>5 DEF AtEnd
  <2>2. ChosenInv'
    BY <1>1, <1>5, <2>1 DEF ChosenInv, Unique, Judged
  <2> QED
    BY <1>1, <1>3, <1>4, <2>1, <2>2, JudgedInv
<1>6. CASE ~Unique
  <2>1. phase' = "gone"
        /\ result' = IF matches = 0 THEN "NoMatchingCert" ELSE "AmbiguousMatch"
    BY <1>6 DEF AtEnd, Fail
  <2>2. Bad(Len(store)) = {} /\ matches = Cardinality(Good(Len(store)))
    BY <1>1 DEF CountInv
  <2>3. matches = 0 => Good(Len(store)) = {}
    BY <1>1, <1>2, <2>2, FS_EmptySet
  <2>4. matches # 0 => Cardinality(Good(Len(store))) > 1
    BY <1>1, <1>2, <1>6, <2>2 DEF Unique
  <2>5. ResultInv'
    BY <1>1, <2>1, <2>2, <2>3, <2>4, JudgedSame DEF ResultInv, Judged
  <2> QED
    BY <1>3, <1>4, <2>1, <2>5 DEF ChosenInv
<1> QED
  BY <1>5, <1>6

\* The other steps judge nothing, and say nothing of the whole store.
LEMMA OtherInv ==
    ASSUME IInv,
           \/ Open \/ Build \/ Resolve \/ Drop
           \/ \E t \in Threads : Sign(t) \/ Signed(t)
           \/ UNCHANGED vars
    PROVE  IInv'
<1> USE DEF IInv
<1>1. Judged
  BY DEF Open, Build, Resolve, Drop, Sign, Signed, vars, found, Judged
<1>2. Scheme' = Scheme
  BY <1>1, JudgedSame
<1>3. CASE Open
  <2>1. phase # "gone" /\ phase' \in {"open", "gone"}
        /\ result' \in {result, "StoreFailure"} /\ UNCHANGED <<handles, callerFree, offered>>
    BY <1>3 DEF Open, Fail, owned, use
  <2>2. HandleInv' /\ OfferInv' /\ ChosenInv'
    BY <1>3, <2>1 DEF Open, HandleInv, OfferInv, ChosenInv
  <2> QED
    BY <1>1, <2>1, <2>2, JudgedInv
<1>4. CASE Build
  <2>1. phase = "build" /\ phase' \in {"ready", "gone"} /\ offered' = offered
        /\ result' \in {"Signer", "UnsupportedKey", "BadCertificate", "StoreFailure"}
    BY <1>4 DEF Build, Fail, use
  <2>2. handles = 0
    BY <2>1 DEF HandleInv
  <2>3. HandleInv'
    BY <1>4, <2>2 DEF Build, Fail, HandleInv
  <2>4. OfferInv' /\ ChosenInv'
    BY <1>1, <2>1 DEF OfferInv, ChosenInv, Judged
  <2> QED
    BY <1>1, <2>1, <2>3, <2>4, JudgedInv
<1>5. CASE Resolve
  <2>1. /\ phase = "ready" /\ UNCHANGED <<phase, handles, callerFree, result>>
        /\ offered' = {} \/ Scheme \in offered'
    BY <1>5 DEF Resolve, Presents, owned
  <2>2. HandleInv' /\ OfferInv' /\ ChosenInv'
    BY <1>1, <1>2, <2>1 DEF HandleInv, OfferInv, ChosenInv, Judged, Chooses
  <2> QED
    BY <1>1, <2>1, <2>2, JudgedInv
<1>6. CASE Drop
  <2>1. phase = "ready" /\ phase' = "gone" /\ offered' = {} /\ handles' = KeyFreed
        /\ UNCHANGED <<callerFree, result>>
    BY <1>6 DEF Drop
  <2>2. HandleInv' /\ OfferInv' /\ ChosenInv'
    BY <2>1 DEF HandleInv, KeyFreed, OfferInv, ChosenInv
  <2> QED
    BY <1>1, <2>1, <2>2, JudgedInv
<1>7. CASE (\E t \in Threads : Sign(t) \/ Signed(t)) \/ UNCHANGED vars
  <2>1. UNCHANGED <<phase, handles, callerFree, result, offered>>
    BY <1>7 DEF Sign, Signed, vars, owned, use
  <2>2. HandleInv' /\ OfferInv' /\ ChosenInv'
    BY <1>1, <1>2, <2>1 DEF HandleInv, OfferInv, ChosenInv, Judged, Chooses
  <2> QED
    BY <1>1, <2>1, <2>2, JudgedInv
<1> QED
  BY <1>3, <1>4, <1>5, <1>6, <1>7

LEMMA NextInv == IInv /\ [Next]_vars => IInv'
  BY ExamineInv, AtEndInv, OtherInv DEF Next

-----------------------------------------------------------------------------
\* The inductive invariant holds of a signer whatever store it is opened on.
THEOREM Invariance == Spec => []IInv
<1> QED
  BY InitInv, NextInv, PTL DEF Spec

\* A signer is for the only certificate that satisfies the selector, and the
\* store is told of none, of several, or of one that cannot be judged.
THEOREM TheSelectionIsUnique == Spec => []SelectionIsUnique
<1>1. IInv => SelectionIsUnique
  <2> SUFFICES ASSUME IInv PROVE SelectionIsUnique
    OBVIOUS
  <2>1. /\ {i \in Certificates : Matches(store[i]) = {TRUE}} = Good(Len(store))
        /\ {i \in Certificates : Matches(store[i]) = {}} = Bad(Len(store))
    BY DEF Certificates, Good, Bad
  <2>2. ASSUME phase = "ready"
        PROVE  Bad(Len(store)) = {} /\ Good(Len(store)) = {chosen}
    <3>1. /\ Bad(Len(store)) = {} /\ Cardinality(Good(Len(store))) = 1
          /\ chosen \in Good(Len(store))
      <4>1. prev = Len(store) /\ matches = 1
        BY <2>2 DEF IInv, ChosenInv
      <4>2. Bad(prev) = {} /\ Cardinality(Good(prev)) = 1 /\ chosen \in Good(prev)
        BY <2>2, <4>1 DEF IInv, CountInv
      <4> QED
        BY <4>1, <4>2
    <3>2. IsFiniteSet(Good(Len(store)))
      <4>1. Len(store) \in Nat
        BY DEF IInv
      <4> QED
        BY <4>1, GoodGrows
    <3>3. \E c : Good(Len(store)) = {c}
      BY <3>1, <3>2, FS_Singleton
    <3> QED
      BY <3>1, <3>3
  <2> QED
    BY <2>1, <2>2 DEF IInv, ResultInv, OfferInv, SelectionIsUnique
<1> QED
  BY <1>1, Invariance, PTL

\* A key handle that is ours to free is freed once, on whatever path.
THEOREM TheKeyIsReleasedOnce == Spec => []KeyIsReleasedOnce
<1>1. IInv => KeyIsReleasedOnce
  BY DEF IInv, HandleInv, KeyIsReleasedOnce
<1> QED
  BY <1>1, Invariance, PTL
=============================================================================
