---------------------------- MODULE RecordsProofs ----------------------------
(***************************************************************************)
(* Theorems about TlvReader, TlvMessage, Framing and Records, for every    *)
(* buffer, every limit on TLVs and every number of values of an octet.     *)
(***************************************************************************)
EXTENDS Records, FiniteSetTheorems, SequenceTheorems, TLAPS

-----------------------------------------------------------------------------
(* Induction over the naturals, as a fact about sets.                       *)

\* The subsets 0..k of 0..n are well-founded, and so any set of naturals has a
\* least element.
LEMMA LeastNatural ==
    ASSUME NEW T \in SUBSET Nat, T # {}
    PROVE  \E n \in T : \A m \in T : n <= m
<1>1. PICK n \in T : TRUE
  OBVIOUS
<1> DEFINE S == 0..n
           R == StrictSubsetOrdering(S)
           U == {0..m : m \in {k \in T : k <= n}}
<1>2. IsWellFoundedOn(R, SUBSET S)
  <2>1. IsFiniteSet(S)
    BY FS_Interval
  <2>2. FiniteSubsetsOf(S) = SUBSET S
    BY <2>1, FS_FiniteSubsetsOfFinite
  <2> QED
    BY <2>2, FS_StrictSubsetOrderingWellFounded
<1>3. U \subseteq SUBSET S /\ U # {}
  OBVIOUS
<1>4. PICK x \in U : \A y \in U : ~(<<y, x>> \in R)
  <2> HIDE DEF U, R
  <2> QED
    BY <1>2, <1>3, WFMin
<1>5. PICK k \in T : k <= n /\ x = 0..k
  BY <1>4
<1>6. ASSUME NEW m \in T, m < k PROVE FALSE
  <2>1. 0..m \in U
    BY <1>5, <1>6
  <2>2. <<0..m, 0..k>> \in R
    BY <1>5, <1>6 DEF StrictSubsetOrdering
  <2> QED
    BY <1>4, <1>5, <2>1, <2>2
<1> QED
  BY <1>5, <1>6

\* A set of naturals with 0 and every successor is the set of all of them.
LEMMA Induction ==
    ASSUME NEW T \in SUBSET Nat, 0 \in T, \A n \in T : n + 1 \in T
    PROVE  T = Nat
<1> SUFFICES ASSUME Nat \ T # {} PROVE FALSE
  OBVIOUS
<1>1. PICK n \in Nat \ T : \A m \in Nat \ T : n <= m
  BY LeastNatural
<1>2. n # 0 /\ n - 1 \in Nat /\ n - 1 \in T
  BY <1>1
<1> QED
  BY <1>1, <1>2

-----------------------------------------------------------------------------
(* Numbers and their octets.                                                *)

\* The quotient and the remainder are the only ones.
LEMMA DivMod ==
    ASSUME NEW n \in Nat, NEW d \in Nat \ {0}, NEW q \in Nat, NEW r \in 0..(d - 1), n = d * q + r
    PROVE  n \div d = q /\ n % d = r
  OBVIOUS

\* A number is what its quotient and its remainder say.
LEMMA DivMod2 ==
    ASSUME NEW n \in Nat, NEW d \in Nat \ {0}
    PROVE  n \div d \in Nat /\ n % d \in 0..(d - 1) /\ n = d * (n \div d) + (n % d)
  OBVIOUS

\* An octet has at least four values, and a multiple of four of them.
LEMMA BaseFacts == Base \in Nat /\ Base >= 4 /\ Base * Base \in Nat /\ Base * Base >= Base
<1>1. Base \in Nat \ {0} /\ Base % 4 = 0
  BY BaseAssumption
<1>2. Base >= 4
  BY <1>1
<1> QED
  BY <1>1, <1>2

\* A quarter of the values of an octet.
LEMMA Quarter == \E k \in Nat \ {0} : Base = 4 * k /\ k = Base \div 4
<1>1. Base \in Nat \ {0} /\ Base % 4 = 0
  BY BaseAssumption
<1>2. Base = 4 * (Base \div 4) /\ Base \div 4 \in Nat \ {0}
  BY <1>1
<1> QED
  BY <1>2

\* The two high bits of the number of two octets.
LEMMA Bits ==
    ASSUME NEW k \in Nat \ {0}, Base = 4 * k
    PROVE  /\ MandatoryBit = 2 * (k * Base) /\ ReservedBit = k * Base
           /\ k * Base \in Nat \ {0} /\ Base * Base = 4 * (k * Base)
<1> DEFINE m == k * Base
<1>1. m \in Nat \ {0} /\ Base * Base = 4 * m
  BY BaseFacts
<1> HIDE DEF m
<1>2. (4 * m) \div 2 = 2 * m /\ (4 * m) \div 4 = m
  BY <1>1
<1> QED
  BY <1>1, <1>2 DEF MandatoryBit, ReservedBit, m

\* Octets are numbers below Base.
LEMMA OctetNat == \A x \in Octet : x \in Nat /\ x < Base
  BY BaseFacts DEF Octet

\* A string has so many numbers.
LEMMA NumbersIn ==
    \A s \in Seq(Nat) : Len(s) \in Nat /\ \A i \in 1..Len(s) : s[i] \in Nat
  OBVIOUS

\* Strings of octets are strings of numbers.
LEMMA OctetSeq == \A x \in Seq(Octet) : x \in Seq(Nat)
  BY OctetNat

\* An octet is two high bits and the rest.
LEMMA Split ==
    ASSUME NEW k \in Nat \ {0}, NEW h \in 0..(4 * k - 1)
    PROVE  \E r \in 0..(k - 1) : h = r \/ h = k + r \/ h = 2 * k + r \/ h = 3 * k + r
<1>1. CASE h < k
  BY <1>1
<1>2. CASE k <= h /\ h < 2 * k
  <2>1. h - k \in 0..(k - 1) /\ h = k + (h - k)
    BY <1>2
  <2> QED
    BY <2>1
<1>3. CASE 2 * k <= h /\ h < 3 * k
  <2>1. h - 2 * k \in 0..(k - 1) /\ h = 2 * k + (h - 2 * k)
    BY <1>3
  <2> QED
    BY <2>1
<1>4. CASE 3 * k <= h
  <2>1. h - 3 * k \in 0..(k - 1) /\ h = 3 * k + (h - 3 * k)
    BY <1>4
  <2> QED
    BY <2>1
<1> QED
  BY <1>1, <1>2, <1>3, <1>4

\* The octets of a number.
LEMMA BEOf ==
    ASSUME NEW h \in Nat, NEW l \in Octet
    PROVE  BE(Base * h + l) = <<h, l>> /\ Base * h + l \in Nat
<1> DEFINE n == Base * h + l
<1>1. n \in Nat /\ Base \in Nat \ {0} /\ l \in 0..(Base - 1)
  BY BaseFacts DEF Octet
<1>2. n \div Base = h /\ n % Base = l
  <2>1. n = Base * h + l
    OBVIOUS
  <2> HIDE DEF n
  <2> QED
    BY <1>1, <2>1, DivMod
<1> HIDE DEF n
<1>3. BE(n) = <<h, l>>
  BY <1>2 DEF BE
<1> QED
  BY <1>1, <1>3 DEF n

\* The header that is written for what a header says is that header, up to the
\* Reserved bit.
LEMMA HeaderAgrees ==
    ASSUME NEW h \in Octet, NEW l \in Octet
    PROVE  LET w == Base * h + l
               x == TypeOf(w) + (IF w >= MandatoryBit THEN MandatoryBit ELSE 0) IN
           \E g \in Nat : BE(x) = <<g, l>> /\ (g = h \/ g + Base \div 4 = h)
<1> DEFINE w == Base * h + l
           x == TypeOf(w) + (IF w >= MandatoryBit THEN MandatoryBit ELSE 0)
<1>1. PICK k \in Nat \ {0} : Base = 4 * k /\ k = Base \div 4
  BY Quarter
<1>2. /\ MandatoryBit = 2 * (k * Base) /\ ReservedBit = k * Base
      /\ k * Base \in Nat \ {0}
  BY <1>1, Bits
<1>3. h \in 0..(4 * k - 1) /\ l \in Nat /\ l < Base
  BY <1>1, OctetNat DEF Octet
<1>4. PICK r \in 0..(k - 1) : h = r \/ h = k + r \/ h = 2 * k + r \/ h = 3 * k + r
  BY <1>3, Split
<1> DEFINE m == k * Base
           v == Base * r + l
<1>5. v \in Nat /\ v < m
  <2>1. r + 1 <= k /\ r \in Nat /\ Base \in Nat
    BY BaseFacts
  <2>2. Base * (r + 1) <= Base * k
    BY <2>1
  <2>3. Base * (r + 1) = Base * r + Base /\ Base * k = k * Base /\ Base * r \in Nat
    BY <2>1
  <2> QED
    BY <1>2, <1>3, <2>1, <2>2, <2>3
<1>6. \A c \in Nat : TypeOf(m * c + v) = v
  <2> SUFFICES ASSUME NEW c \in Nat PROVE TypeOf(m * c + v) = v
    OBVIOUS
  <2> DEFINE n == m * c + v
  <2>1. m \in Nat \ {0} /\ v \in 0..(m - 1)
    BY <1>2, <1>5
  <2> HIDE DEF m, v
  <2>2. n \in Nat
    BY <2>1
  <2>3. n % m = v
    <3>1. n = m * c + v
      OBVIOUS
    <3> HIDE DEF n
    <3> QED
      BY <2>1, <2>2, <3>1, DivMod
  <2> QED
    BY <1>2, <2>3 DEF TypeOf, m
<1>7. ASSUME NEW g \in Nat, x = Base * g + l PROVE BE(x) = <<g, l>>
  BY <1>7, BEOf, Zenon
<1>8. Base * (2 * k + r) + l = 2 * m + v
  <2>1. Base \in Nat /\ r \in Nat
    BY BaseFacts
  <2> QED
    BY <1>3, <2>1
<1>9. CASE h = r
  <2>1. w = m * 0 + v /\ ~(w >= MandatoryBit) /\ v = Base * r + l
    BY <1>2, <1>5, <1>9
  <2>2. TypeOf(w) = v
    BY <1>6, <2>1
  <2>3. x = Base * r + l /\ r \in Nat
    BY <1>5, <2>1, <2>2
  <2> QED
    BY <1>7, <1>9, <2>3
<1>10. CASE h = k + r
  <2>1. w = m * 1 + v /\ ~(w >= MandatoryBit) /\ v = Base * r + l
    <3>1. w = m + v
      BY <1>1, <1>3, <1>10
    <3> QED
      BY <1>2, <1>5, <3>1
  <2>2. TypeOf(w) = v
    BY <1>6, <2>1
  <2>3. x = Base * r + l /\ r \in Nat
    BY <1>5, <2>1, <2>2
  <2>4. r + Base \div 4 = h
    BY <1>1, <1>10
  <2> QED
    BY <1>7, <2>3, <2>4
<1>11. CASE h = 2 * k + r
  <2>1. w = m * 2 + v /\ w >= MandatoryBit
    <3>1. w = 2 * m + v
      BY <1>8, <1>11
    <3> QED
      BY <1>2, <1>5, <3>1
  <2>2. TypeOf(w) = v
    BY <1>6, <2>1
  <2>3. x = Base * (2 * k + r) + l /\ 2 * k + r \in Nat
    BY <1>2, <1>5, <1>8, <2>1, <2>2
  <2> QED
    BY <1>7, <1>11, <2>3
<1>12. CASE h = 3 * k + r
  <2>1. w = m * 3 + v /\ w >= MandatoryBit
    <3>1. w = 3 * m + v
      BY <1>1, <1>3, <1>12
    <3> QED
      BY <1>2, <1>5, <3>1
  <2>2. TypeOf(w) = v
    BY <1>6, <2>1
  <2>3. x = Base * (2 * k + r) + l /\ 2 * k + r \in Nat
    BY <1>2, <1>5, <1>8, <2>1, <2>2
  <2>4. (2 * k + r) + Base \div 4 = h
    BY <1>1, <1>12
  <2> QED
    BY <1>7, <2>3, <2>4
<1> QED
  BY <1>4, <1>9, <1>10, <1>11, <1>12

-----------------------------------------------------------------------------
(* What covers a buffer (Covers of TlvReader).                              *)

\* One step of the recursion of Covers: from offset i on, given what covers
\* what follows.
Unfold(f, i) ==
    IF i = Len(buf) THEN {0}
    ELSE {n + 1 : n \in UNION {f[j] : j \in {j \in (i + HeaderLen)..Len(buf) :
                                  /\ TypeOf(U16At(i)) # 0
                                  /\ j = i + HeaderLen + U16At(i + 2)}}}

\* It looks at what follows i only.
LEMMA UnfoldsAhead ==
    ASSUME buf \in Seq(Octet), NEW f, NEW g, NEW i \in Nat,
           \A j \in Nat : j > i => f[j] = g[j]
    PROVE  Unfold(f, i) = Unfold(g, i)
<1> DEFINE Js == {j \in (i + HeaderLen)..Len(buf) :
                                  /\ TypeOf(U16At(i)) # 0
                                  /\ j = i + HeaderLen + U16At(i + 2)}
<1>1. \A j \in Js : f[j] = g[j]
  BY DEF HeaderLen
<1> HIDE DEF Js
<1>2. {f[j] : j \in Js} = {g[j] : j \in Js}
  BY <1>1
<1> QED
  BY <1>2 DEF Unfold, Js

\* It gives numbers of TLVs, 0 of them only at the end of the buffer.
LEMMA UnfoldType ==
    ASSUME buf \in Seq(Octet), NEW f, NEW i \in Nat,
           \A j \in Nat : j > i => f[j] \in SUBSET Nat
    PROVE  Unfold(f, i) \in SUBSET Nat /\ (i # Len(buf) => 0 \notin Unfold(f, i))
<1> DEFINE Js == {j \in (i + HeaderLen)..Len(buf) :
                                  /\ TypeOf(U16At(i)) # 0
                                  /\ j = i + HeaderLen + U16At(i + 2)}
<1>1. \A j \in Js : j \in Nat /\ j > i
  BY DEF HeaderLen
<1> HIDE DEF Js
<1>2. UNION {f[j] : j \in Js} \in SUBSET Nat
  BY <1>1
<1> DEFINE U == UNION {f[j] : j \in Js}
<1> HIDE DEF U
<1>3. U \in SUBSET Nat
  BY <1>2 DEF U
<1>4. {n + 1 : n \in U} \in SUBSET Nat /\ 0 \notin {n + 1 : n \in U}
  BY <1>3
<1>5. Unfold(f, i) = IF i = Len(buf) THEN {0} ELSE {n + 1 : n \in U}
  BY DEF Unfold, U, Js
<1> QED
  BY <1>4, <1>5

\* There is a function that is what its own steps give: it is found from the end
\* of the buffer backwards.
LEMMA CoversExists ==
    ASSUME buf \in Seq(Octet)
    PROVE  \E f \in [Nat -> SUBSET Nat] : f = [i \in Nat |-> Unfold(f, i)]
<1> DEFINE L == Len(buf)
           T == {m \in Nat : \E f \in [Nat -> SUBSET Nat] :
                                \A j \in Nat : j + m >= L => f[j] = Unfold(f, j)}
<1>0. L \in Nat
  OBVIOUS
<1>1. 0 \in T
  <2> DEFINE g == [j \in Nat |-> IF j = L THEN {0} ELSE {}]
  <2>1. g \in [Nat -> SUBSET Nat]
    BY <1>0
  <2>2. ASSUME NEW j \in Nat, j + 0 >= L PROVE g[j] = Unfold(g, j)
    <3>1. CASE j = L
      BY <3>1 DEF Unfold
    <3>2. CASE j # L
      <4> DEFINE Js == {k \in (j + HeaderLen)..Len(buf) :
                                  /\ TypeOf(U16At(j)) # 0
                                  /\ k = j + HeaderLen + U16At(j + 2)}
      <4>1. Js = {}
        BY <1>0, <2>2 DEF HeaderLen
      <4>2. Unfold(g, j) = {n + 1 : n \in UNION {g[k] : k \in Js}}
        BY <3>2, Zenon DEF Unfold
      <4> HIDE DEF Js, g
      <4>3. Unfold(g, j) = {}
        BY <4>1, <4>2
      <4> QED
        BY <3>2, <4>3 DEF g
    <3> QED
      BY <3>1, <3>2
  <2> HIDE DEF g
  <2> QED
    BY <2>1, <2>2
<1>2. ASSUME NEW m \in T PROVE m + 1 \in T
  <2>0. m \in Nat
    OBVIOUS
  <2>1. PICK f \in [Nat -> SUBSET Nat] : \A j \in Nat : j + m >= L => f[j] = Unfold(f, j)
    OBVIOUS
  <2> HIDE DEF T
  <2>2. CASE m >= L
    <3>1. \A j \in Nat : j + m >= L
      BY <1>0, <2>0, <2>2
    <3>2. \A j \in Nat : j + (m + 1) >= L => f[j] = Unfold(f, j)
      BY <2>1, <3>1
    <3> QED
      BY <2>0, <3>2 DEF T
  <2>3. CASE m < L
    <3> DEFINE o == L - (m + 1)
               v == Unfold(f, o)
               g == [j \in Nat |-> IF j = o THEN v ELSE f[j]]
    <3>1. o \in Nat /\ \A j \in Nat : j > o <=> j + m >= L
      BY <1>0, <2>0, <2>3
    <3> HIDE DEF o
    <3>2. v \in SUBSET Nat
      <4>1. \A j \in Nat : j > o => f[j] \in SUBSET Nat
        BY <2>1
      <4> QED
        BY <3>1, <4>1, UnfoldType
    <3> HIDE DEF v
    <3>3. g \in [Nat -> SUBSET Nat] /\ g[o] = v /\ \A j \in Nat : j > o => g[j] = f[j]
      BY <2>1, <3>1, <3>2
    <3> HIDE DEF g
    <3>4. ASSUME NEW j \in Nat, j + (m + 1) >= L PROVE g[j] = Unfold(g, j)
      <4>1. \A k \in Nat : k > j => f[k] = g[k]
        <5>1. j >= o
          BY <1>0, <2>0, <3>4 DEF o
        <5>2. \A k \in Nat : k > j => k > o
          BY <3>1, <5>1
        <5> QED
          BY <3>3, <5>2
      <4>2. Unfold(f, j) = Unfold(g, j)
        BY <4>1, UnfoldsAhead
      <4>3. CASE j = o
        BY <3>3, <4>2, <4>3 DEF v
      <4>4. CASE j # o
        <5> HIDE DEF L
        <5>0. o = L - (m + 1) /\ o \in Int
          BY <1>0, <2>0 DEF o
        <5>1. j > o /\ j + m >= L
          BY <1>0, <2>0, <3>4, <4>4, <5>0
        <5> QED
          BY <2>1, <3>3, <4>2, <5>1
      <4> QED
        BY <4>3, <4>4
    <3> QED
      BY <2>0, <3>3, <3>4 DEF T
  <2> QED
    BY <1>0, <2>0, <2>2, <2>3
<1>3. T = Nat
  <2> HIDE DEF T
  <2>1. T \in SUBSET Nat
    BY DEF T
  <2> QED
    BY <1>1, <1>2, <2>1, Induction
<1>4. L \in T
  BY <1>0, <1>3
<1> HIDE DEF L
<1>5. PICK f \in [Nat -> SUBSET Nat] : \A j \in Nat : j + L >= L => f[j] = Unfold(f, j)
  BY <1>4
<1>6. \A j \in Nat : f[j] = Unfold(f, j)
  <2>1. \A j \in Nat : j + L >= L
    BY <1>0
  <2> QED
    BY <1>5, <2>1
<1>7. f = [i \in Nat |-> f[i]]
  OBVIOUS
<1>8. f = [i \in Nat |-> Unfold(f, i)]
  BY <1>6, <1>7
<1> QED
  BY <1>8

\* Covers is such a function.
LEMMA CoversIs == ASSUME buf \in Seq(Octet) PROVE Covers = [i \in Nat |-> Unfold(Covers, i)]
<1>1. Covers = CHOOSE f : f = [i \in Nat |-> Unfold(f, i)]
  BY Zenon DEF Covers, Unfold
<1>2. \E f : f = [i \in Nat |-> Unfold(f, i)]
  BY CoversExists
<1> QED
  BY <1>1, <1>2, Zenon

\* What covers the buffer from i on is what one step gives.
LEMMA CoversHere ==
    ASSUME buf \in Seq(Octet), NEW i \in Nat
    PROVE  Covers[i] = Unfold(Covers, i)
<1>1. \A c : c = [j \in Nat |-> Unfold(c, j)] => \A j \in Nat : c[j] = Unfold(c, j)
  OBVIOUS
<1> QED
  BY <1>1, CoversIs, Zenon

\* Numbers of TLVs cover it, 0 of them only at its end.
LEMMA CoversType ==
    ASSUME buf \in Seq(Octet)
    PROVE  \A i \in Nat : Covers[i] \in SUBSET Nat /\ (i # Len(buf) => 0 \notin Covers[i])
<1> DEFINE L == Len(buf)
           T == {m \in Nat : \A i \in Nat : i + m >= L => Covers[i] \in SUBSET Nat}
<1>0. L \in Nat
  OBVIOUS
<1>1. 0 \in T
  <2>1. ASSUME NEW i \in Nat, i >= L PROVE Covers[i] \in SUBSET Nat
    <3>1. CASE i = L
      <4>1. Unfold(Covers, i) = {0}
        BY <3>1 DEF Unfold
      <4> QED
        BY <4>1, CoversHere
    <3>2. CASE i # L
      <4> DEFINE Js == {k \in (i + HeaderLen)..Len(buf) :
                                  /\ TypeOf(U16At(i)) # 0
                                  /\ k = i + HeaderLen + U16At(i + 2)}
      <4>1. Js = {}
        BY <1>0, <2>1 DEF HeaderLen
      <4>2. Unfold(Covers, i) = {n + 1 : n \in UNION {Covers[k] : k \in Js}}
        BY <3>2, Zenon DEF Unfold
      <4> HIDE DEF Js
      <4>3. Unfold(Covers, i) = {}
        BY <4>1, <4>2
      <4> QED
        BY <4>3, CoversHere
    <3> QED
      BY <3>1, <3>2
  <2>2. \A i \in Nat : i + 0 >= L => i >= L
    BY <1>0
  <2> QED
    BY <2>1, <2>2
<1>2. ASSUME NEW m \in T PROVE m + 1 \in T
  <2>0. m \in Nat /\ \A i \in Nat : i + m >= L => Covers[i] \in SUBSET Nat
    OBVIOUS
  <2>1. ASSUME NEW i \in Nat, i + (m + 1) >= L PROVE Covers[i] \in SUBSET Nat
    <3>1. \A j \in Nat : j > i => Covers[j] \in SUBSET Nat
      <4>1. \A j \in Nat : j > i => j + m >= L
        BY <1>0, <2>0, <2>1
      <4> QED
        BY <2>0, <4>1
    <3>2. Unfold(Covers, i) \in SUBSET Nat
      BY <3>1, UnfoldType
    <3> QED
      BY <3>2, CoversHere
  <2> QED
    BY <2>0, <2>1
<1>3. T = Nat
  <2> HIDE DEF T
  <2>1. T \in SUBSET Nat
    BY DEF T
  <2> QED
    BY <1>1, <1>2, <2>1, Induction
<1>4. \A i \in Nat : Covers[i] \in SUBSET Nat
  <2>1. L \in T /\ \A i \in Nat : i + L >= L
    BY <1>0, <1>3
  <2> QED
    BY <2>1
<1>5. ASSUME NEW i \in Nat, i # L PROVE 0 \notin Covers[i]
  <2>1. \A j \in Nat : j > i => Covers[j] \in SUBSET Nat
    BY <1>4
  <2>2. 0 \notin Unfold(Covers, i)
    BY <1>5, <2>1, UnfoldType
  <2> QED
    BY <2>2, CoversHere
<1> QED
  BY <1>4, <1>5

\* Nothing is left to be covered at the end.
LEMMA CoversEnd == ASSUME buf \in Seq(Octet) PROVE Covers[Len(buf)] = {0}
<1>1. Len(buf) \in Nat
  OBVIOUS
<1>2. Unfold(Covers, Len(buf)) = {0}
  BY DEF Unfold
<1> QED
  BY <1>1, <1>2, CoversHere

\* What is no TLV at i, or does not end in the buffer, is not covered.
LEMMA CoversNone ==
    ASSUME buf \in Seq(Octet), NEW i \in Nat, i # Len(buf),
           \/ i + HeaderLen > Len(buf) \/ TypeOf(U16At(i)) = 0
           \/ i + HeaderLen + U16At(i + 2) > Len(buf)
    PROVE  Covers[i] = {}
<1> DEFINE Js == {k \in (i + HeaderLen)..Len(buf) :
                                  /\ TypeOf(U16At(i)) # 0
                                  /\ k = i + HeaderLen + U16At(i + 2)}
           e == i + HeaderLen + U16At(i + 2)
<1>0. Len(buf) \in Nat /\ i + HeaderLen \in Nat
  BY DEF HeaderLen
<1>1. Js = {}
  <2> HIDE DEF e
  <2>1. Js = {k \in (i + HeaderLen)..Len(buf) : TypeOf(U16At(i)) # 0 /\ k = e}
    BY DEF e
  <2> HIDE DEF Js
  <2>2. i + HeaderLen > Len(buf) \/ TypeOf(U16At(i)) = 0 \/ e > Len(buf)
    BY DEF e
  <2> QED
    BY <1>0, <2>1, <2>2
<1>2. Unfold(Covers, i) = {n + 1 : n \in UNION {Covers[k] : k \in Js}}
  BY Zenon DEF Unfold
<1> HIDE DEF Js
<1>3. Unfold(Covers, i) = {}
  BY <1>1, <1>2
<1> QED
  BY <1>3, CoversHere

\* One TLV at i, and what covers the buffer from its end on.
LEMMA CoversNext ==
    ASSUME buf \in Seq(Octet), NEW i \in Nat, i # Len(buf), NEW j \in (i + HeaderLen)..Len(buf),
           TypeOf(U16At(i)) # 0, j = i + HeaderLen + U16At(i + 2)
    PROVE  Covers[i] = {n + 1 : n \in Covers[j]}
<1> DEFINE Js == {k \in (i + HeaderLen)..Len(buf) :
                                  /\ TypeOf(U16At(i)) # 0
                                  /\ k = i + HeaderLen + U16At(i + 2)}
<1>1. Js = {j}
  <2>1. \A k \in Js : k = j
    OBVIOUS
  <2>2. j \in Js
    OBVIOUS
  <2> HIDE DEF Js
  <2> QED
    BY <2>1, <2>2
<1>2. Unfold(Covers, i) = {n + 1 : n \in UNION {Covers[k] : k \in Js}}
  BY Zenon DEF Unfold
<1> HIDE DEF Js
<1>3. UNION {Covers[k] : k \in Js} = Covers[j]
  BY <1>1
<1>4. Unfold(Covers, i) = {n + 1 : n \in Covers[j]}
  BY <1>2, <1>3
<1> QED
  BY <1>4, CoversHere

\* Covers looks at the buffer only.
LEMMA CoversPrime == ASSUME buf' = buf PROVE Covers' = Covers
  BY DEF Covers, TypeOf, U16At, HeaderLen

-----------------------------------------------------------------------------
(* Sequences, one after the other (FlattenSeq).                             *)

\* f[i] is the first i of the sequences ss, one after the other, up to i = m.
Joins(f, ss, m) == \A i \in 1..m : f[i] = IF i = 1 THEN ss[i] ELSE f[i - 1] \o ss[i]

\* There is such a function for any sequences.
LEMMA JoinsExists ==
    ASSUME NEW S, NEW ss \in Seq(Seq(S))
    PROVE  \E f \in [1..Len(ss) -> Seq(S)] : Joins(f, ss, Len(ss))
<1> DEFINE n == Len(ss)
           Q == Seq(S)
           Good(m) == \E f \in [1..m -> Q] : Joins(f, ss, m)
           T == {m \in Nat : m <= n => Good(m)}
<1>0. n \in Nat /\ \A i \in 1..n : ss[i] \in Q
  <2>1. ss \in Seq(Q)
    OBVIOUS
  <2> HIDE DEF Q
  <2> QED
    BY <2>1, ElementOfSeq
<1>1. \A x \in Q, y \in Q : x \o y \in Q
  BY ConcatProperties
<1> HIDE DEF n, Q, T
<1>2. 0 \in T
  <2> DEFINE f == [i \in 1..0 |-> <<>>]
  <2>1. f \in [1..0 -> Q] /\ Joins(f, ss, 0)
    BY DEF Joins
  <2> QED
    BY <2>1 DEF T
<1>3. ASSUME NEW m \in T PROVE m + 1 \in T
  <2>0. m \in Nat /\ (m <= n => Good(m))
    BY DEF T
  <2> SUFFICES ASSUME m + 1 <= n PROVE Good(m + 1)
    BY <2>0 DEF T
  <2>1. PICK f \in [1..m -> Q] : Joins(f, ss, m)
    <3>1. m <= n
      BY <1>0, <2>0
    <3> QED
      BY <2>0, <3>1
  <2> DEFINE k == m + 1
             x == IF k = 1 THEN ss[k] ELSE f[m] \o ss[k]
             g == [i \in 1..k |-> IF i = k THEN x ELSE f[i]]
  <2>2. k \in Nat /\ k \in 1..n /\ k - 1 = m /\ (k # 1 => m \in 1..m)
    BY <1>0, <2>0
  <2>3. x \in Q
    BY <1>0, <1>1, <2>1, <2>2
  <2>4. \A i \in 1..k : i # k => i \in 1..m
    BY <2>0
  <2> HIDE DEF x, k
  <2>5. g \in [1..k -> Q] /\ g[k] = x /\ \A i \in 1..m : g[i] = f[i]
    <3>1. \A i \in 1..m : i \in 1..k /\ i # k
      BY <2>0 DEF k
    <3>2. k \in 1..k
      BY <2>2
    <3> QED
      BY <2>1, <2>3, <2>4, <3>1, <3>2
  <2> HIDE DEF g
  <2>6. ASSUME NEW i \in 1..k PROVE g[i] = IF i = 1 THEN ss[i] ELSE g[i - 1] \o ss[i]
    <3>1. CASE i = k
      <4>1. k # 1 => g[m] = f[m]
        BY <2>2, <2>5
      <4> QED
        BY <2>2, <2>5, <3>1, <4>1 DEF x
    <3>2. CASE i # k
      <4>1. i \in 1..m /\ (i # 1 => i - 1 \in 1..m)
        <5>1. i \in 1..m
          BY <2>4, <3>2
        <5> QED
          BY <2>0, <5>1
      <4>2. f[i] = IF i = 1 THEN ss[i] ELSE f[i - 1] \o ss[i]
        BY <2>1, <4>1 DEF Joins
      <4> QED
        BY <2>5, <4>1, <4>2
    <3> QED
      BY <3>1, <3>2
  <2>7. Joins(g, ss, k)
    BY <2>6 DEF Joins
  <2> QED
    BY <2>5, <2>7 DEF k
<1>4. T \in SUBSET Nat
  BY DEF T
<1>5. T = Nat
  BY <1>2, <1>3, <1>4, Induction
<1>6. Good(n)
  <2>1. n \in T /\ n <= n
    BY <1>0, <1>5
  <2> QED
    BY <2>1 DEF T
<1> QED
  BY <1>6 DEF n, Q

\* It is decided by the sequences it joins.
LEMMA JoinsUnique ==
    ASSUME NEW f, NEW g, NEW ss, NEW tt, NEW m \in Nat,
           Joins(f, ss, m), Joins(g, tt, m), \A i \in 1..m : ss[i] = tt[i]
    PROVE  \A i \in 1..m : f[i] = g[i]
<1> DEFINE T == {i \in Nat : i + 1 \in 1..m => f[i + 1] = g[i + 1]}
<1> HIDE DEF T
<1>1. 0 \in T
  <2>1. ASSUME 1 \in 1..m PROVE f[1] = g[1]
    BY <2>1 DEF Joins
  <2> QED
    BY <2>1 DEF T
<1>2. ASSUME NEW i \in T PROVE i + 1 \in T
  <2>0. i \in Nat /\ (i + 1 \in 1..m => f[i + 1] = g[i + 1])
    BY DEF T
  <2> DEFINE k == (i + 1) + 1
  <2>1. ASSUME k \in 1..m PROVE f[k] = g[k]
    <3>1. i + 1 \in 1..m /\ k # 1 /\ k - 1 = i + 1
      BY <2>0, <2>1
    <3> HIDE DEF k
    <3>2. f[k] = f[k - 1] \o ss[k] /\ g[k] = g[k - 1] \o tt[k]
      BY <2>1, <3>1 DEF Joins
    <3> QED
      BY <2>0, <2>1, <3>1, <3>2
  <2> QED
    BY <2>0, <2>1 DEF T
<1>3. T = Nat
  <2>1. T \in SUBSET Nat
    BY DEF T
  <2> QED
    BY <1>1, <1>2, <2>1, Induction
<1> SUFFICES ASSUME NEW i \in 1..m PROVE f[i] = g[i]
  OBVIOUS
<1>4. i - 1 \in T /\ (i - 1) + 1 = i
  BY <1>3
<1> QED
  BY <1>4 DEF T

\* FlattenSeq is the last of them.
LEMMA FlattenJoins ==
    ASSUME NEW S, NEW ss \in Seq(Seq(S)), ss # <<>>
    PROVE  \E f \in [1..Len(ss) -> Seq(S)] :
              Joins(f, ss, Len(ss)) /\ FlattenSeq(ss) = f[Len(ss)]
<1> DEFINE n == Len(ss)
           Step(f) == [i \in 1..n |-> IF i = 1 THEN ss[i] ELSE f[i - 1] \o ss[i]]
           c == CHOOSE f : f = Step(f)
<1>0. n \in Nat /\ n # 0
  OBVIOUS
<1>1. FlattenSeq(ss) = c[n]
  BY <1>0, Zenon DEF FlattenSeq
<1>2. PICK f \in [1..n -> Seq(S)] : Joins(f, ss, n)
  BY JoinsExists
<1>3. f = Step(f)
  <2>1. f = [i \in 1..n |-> f[i]]
    OBVIOUS
  <2> HIDE DEF n
  <2>2. \A i \in 1..n : f[i] = IF i = 1 THEN ss[i] ELSE f[i - 1] \o ss[i]
    BY <1>2 DEF Joins
  <2> QED
    BY <2>1, <2>2
<1>4. c = Step(c)
  BY <1>3, Zenon
<1> HIDE DEF c
<1>5. Joins(c, ss, n)
  <2>1. \A d : d = Step(c) => \A i \in 1..n : d[i] = IF i = 1 THEN ss[i] ELSE c[i - 1] \o ss[i]
    OBVIOUS
  <2> HIDE DEF Step, n
  <2> QED
    BY <1>4, <2>1, Zenon DEF Joins
<1>6. c[n] = f[n]
  <2> HIDE DEF n
  <2>1. \A i \in 1..n : c[i] = f[i]
    <3>1. Joins(f, ss, n)
      BY <1>2
    <3>2. \A i \in 1..n : ss[i] = ss[i]
      OBVIOUS
    <3> QED
      BY <1>0, <1>5, <3>1, <3>2, JoinsUnique
  <2>2. n \in 1..n
    BY <1>0
  <2> QED
    BY <2>1, <2>2
<1> QED
  BY <1>1, <1>2, <1>6

\* No sequences, one after the other.
LEMMA FlattenEmpty == FlattenSeq(<<>>) = <<>>
  BY DEF FlattenSeq

\* One sequence more, at the end.
LEMMA FlattenAppend ==
    ASSUME NEW S, NEW ss \in Seq(Seq(S)), NEW s \in Seq(S)
    PROVE  FlattenSeq(Append(ss, s)) = FlattenSeq(ss) \o s /\ FlattenSeq(ss) \in Seq(S)
<1> DEFINE Q == Seq(S)
           more == Append(ss, s)
           n == Len(ss)
           k == n + 1
<1>0. ss \in Seq(Q) /\ s \in Q
  OBVIOUS
<1>1. more \in Seq(Q) /\ Len(more) = k /\ more # <<>> /\ more[k] = s /\ (\A i \in 1..n : more[i] = ss[i]) /\ n \in Nat
  <2> HIDE DEF Q
  <2> QED
    BY <1>0, AppendProperties
<1>2. PICK g \in [1..Len(more) -> Q] : Joins(g, more, Len(more)) /\ FlattenSeq(more) = g[Len(more)]
  BY <1>1, FlattenJoins
<1> HIDE DEF more
<1>3. Joins(g, more, k) /\ FlattenSeq(more) = g[k] /\ k \in 1..k
  BY <1>1, <1>2
<1>4. CASE ss = <<>>
  <2>1. n = 0 /\ FlattenSeq(ss) = <<>>
    BY <1>4, FlattenEmpty
  <2>2. g[1] = more[1] /\ k = 1
    BY <1>3, <2>1 DEF Joins
  <2>3. FlattenSeq(more) = s
    BY <1>1, <1>3, <2>2
  <2>4. <<>> \o s = s /\ <<>> \in Q
    BY ConcatEmptySeq
  <2> QED
    BY <2>1, <2>3, <2>4 DEF more
<1>5. CASE ss # <<>>
  <2>1. PICK f \in [1..n -> Q] : Joins(f, ss, n) /\ FlattenSeq(ss) = f[n]
    BY <1>5, FlattenJoins
  <2>2. n # 0
    BY <1>5
  <2> HIDE DEF n
  <2>3. n \in 1..n /\ k # 1 /\ k - 1 = n /\ \A i \in 1..n : i \in 1..k
    BY <1>1, <2>2
  <2>4. Joins(g, more, n)
    BY <1>3, <2>3 DEF Joins
  <2>5. \A i \in 1..n : ss[i] = more[i]
    BY <1>1
  <2>6. g[n] = f[n]
    <3>1. \A i \in 1..n : f[i] = g[i]
      <4>1. n \in Nat
        BY <1>1
      <4>2. Joins(f, ss, n)
        BY <2>1
      <4> HIDE DEF Q, k
      <4> QED
        BY <4>1, <4>2, <2>4, <2>5, JoinsUnique
    <3> QED
      BY <2>3, <3>1
  <2>7. g[k] = g[n] \o s
    <3> HIDE DEF k
    <3>1. g[k] = g[k - 1] \o more[k]
      BY <1>3, <2>3 DEF Joins
    <3> QED
      BY <1>1, <2>3, <3>1
  <2>8. f[n] \in Q
    BY <2>1, <2>3
  <2> QED
    BY <1>3, <2>1, <2>6, <2>7, <2>8 DEF more
<1> QED
  BY <1>4, <1>5

-----------------------------------------------------------------------------
(* The invariant of the reader.                                             *)

Results == {"Reading", "Parsed", "TooManyTlvs", "TruncatedHeader", "ReservedType", "TruncatedValue"}

ReaderType ==
    /\ buf \in Seq(Octet)
    /\ pos \in 0..Len(buf)
    /\ tlvs \in Seq(Tlv)
    /\ result \in Results

\* What has been read stands for the octets consumed.
ReadInv ==
    /\ \A i \in DOMAIN tlvs : Encodable(tlvs[i])
    /\ Agrees(EncodeAll(tlvs), SubSeq(buf, 1, pos))

\* The buffer is covered by the TLVs read and whatever covers the rest of it.
CountInv == Covers[0] = {n + Len(tlvs) : n \in Covers[pos]}

\* Why parse_all stopped.
OutcomeInv ==
    /\ Len(tlvs) <= MaxTlvs
    /\ result = "Parsed" => pos = Len(buf)
    /\ result = "TooManyTlvs" => pos # Len(buf) /\ Len(tlvs) = MaxTlvs
    /\ result \in {"TruncatedHeader", "ReservedType", "TruncatedValue"} => Covers[pos] = {}

ReaderInv == ReaderType /\ ReadInv /\ CountInv /\ OutcomeInv

-----------------------------------------------------------------------------
(* What one TLV adds to the octets written.                                 *)

\* The TLVs of ts, encoded, as FlattenSeq takes them.
LEMMA EncodeAppend ==
    ASSUME NEW ts \in Seq(Tlv), NEW t \in Tlv, \A x \in Tlv : EncodeTlv(x) \in Seq(Nat)
    PROVE  /\ EncodeAll(Append(ts, t)) = EncodeAll(ts) \o EncodeTlv(t)
           /\ EncodeAll(ts) \in Seq(Nat)
<1> DEFINE ss == [i \in DOMAIN ts |-> EncodeTlv(ts[i])]
           us == Append(ts, t)
           vs == [i \in DOMAIN us |-> EncodeTlv(us[i])]
           n == Len(ts)
<1>1. ss \in Seq(Seq(Nat)) /\ Len(ss) = n
  <2>1. \A i \in 1..n : ts[i] \in Tlv
    <3> HIDE DEF Tlv, n
    <3> QED
      BY ElementOfSeq DEF n
  <2>2. DOMAIN ts = 1..n /\ n \in Nat
    OBVIOUS
  <2>3. \A i \in 1..n : EncodeTlv(ts[i]) \in Seq(Nat)
    BY <2>1
  <2> QED
    BY <2>2, <2>3
<1>2. us \in Seq(Tlv) /\ Len(us) = n + 1 /\ us[n + 1] = t /\ \A i \in 1..n : us[i] = ts[i]
  BY AppendProperties
<1>3. vs = Append(ss, EncodeTlv(t))
  <2>1. DOMAIN us = 1..(n + 1) /\ n \in Nat /\ DOMAIN ts = 1..n
    <3>1. DOMAIN us = 1..Len(us)
      BY <1>2
    <3> QED
      BY <1>2, <3>1
  <2>2. \A i \in 1..(n + 1) : vs[i] = IF i = n + 1 THEN EncodeTlv(t) ELSE EncodeTlv(ts[i])
    <3>1. \A i \in 1..(n + 1) : i = n + 1 \/ i \in 1..n
      BY <2>1
    <3> QED
      BY <1>2, <2>1, <3>1
  <2>3. \A i \in 1..(n + 1) : Append(ss, EncodeTlv(t))[i] = IF i = n + 1 THEN EncodeTlv(t) ELSE EncodeTlv(ts[i])
    <3>1. Append(ss, EncodeTlv(t)) = [i \in 1..(n + 1) |-> IF i = n + 1 THEN EncodeTlv(t) ELSE ss[i]]
      BY <1>1
    <3>2. \A i \in 1..(n + 1) : i = n + 1 \/ i \in DOMAIN ts
      BY <2>1
    <3> QED
      BY <3>1, <3>2
  <2>4. Append(ss, EncodeTlv(t)) = [i \in 1..(n + 1) |-> IF i = n + 1 THEN EncodeTlv(t) ELSE EncodeTlv(ts[i])]
    <3>1. Append(ss, EncodeTlv(t)) = [i \in 1..(n + 1) |-> Append(ss, EncodeTlv(t))[i]]
      BY <1>1
    <3> QED
      BY <2>3, <3>1
  <2>5. vs = [i \in 1..(n + 1) |-> IF i = n + 1 THEN EncodeTlv(t) ELSE EncodeTlv(ts[i])]
    <3>1. vs = [i \in 1..(n + 1) |-> vs[i]]
      BY <2>1
    <3> HIDE DEF vs
    <3> QED
      BY <2>2, <3>1
  <2> QED
    BY <2>4, <2>5
<1>4. EncodeTlv(t) \in Seq(Nat)
  OBVIOUS
<1>5. EncodeAll(us) = FlattenSeq(vs) /\ EncodeAll(ts) = FlattenSeq(ss)
  BY DEF EncodeAll
<1> HIDE DEF ss, vs
<1>6. FlattenSeq(Append(ss, EncodeTlv(t))) = FlattenSeq(ss) \o EncodeTlv(t) /\ FlattenSeq(ss) \in Seq(Nat)
  BY <1>1, <1>4, FlattenAppend
<1> QED
  BY <1>3, <1>5, <1>6

\* No TLVs, no octets.
LEMMA EncodeEmpty == EncodeAll(<<>>) = <<>>
<1>1. [i \in DOMAIN <<>> |-> EncodeTlv(<<>>[i])] = <<>>
  OBVIOUS
<1> QED
  BY <1>1, FlattenEmpty DEF EncodeAll

-----------------------------------------------------------------------------
(* One TLV, read and written again.                                         *)

\* The octets of a sequence after i, up to j.
LEMMA Part ==
    ASSUME NEW S, NEW s \in Seq(S), NEW i \in Nat, NEW j \in Nat, i <= j, j <= Len(s)
    PROVE  /\ SubSeq(s, i + 1, j) \in Seq(S)
           /\ Len(SubSeq(s, i + 1, j)) = j - i
           /\ \A k \in 1..(j - i) : SubSeq(s, i + 1, j)[k] = s[i + k]
<1> DEFINE m == i + 1
<1>1. m \in 1..(Len(s) + 1) /\ j \in (m - 1)..Len(s)
  OBVIOUS
<1> HIDE DEF m
<1>2. /\ SubSeq(s, m, j) \in Seq(S)
      /\ Len(SubSeq(s, m, j)) = IF m <= j THEN j - m + 1 ELSE 0
      /\ \A k \in 1..(j - m + 1) : SubSeq(s, m, j)[k] = s[m + k - 1]
  BY <1>1, SubSeqProperties
<1>3. (IF m <= j THEN j - m + 1 ELSE 0) = j - i /\ j - m + 1 = j - i
  BY DEF m
<1>4. \A k \in 1..(j - i) : m + k - 1 = i + k
  BY DEF m
<1> QED
  BY <1>2, <1>3, <1>4 DEF m

\* Two octets.
LEMMA BEType == \A n \in Nat : BE(n) \in Seq(Nat) /\ Len(BE(n)) = 2 /\ Len(<<n \div Base, n % Base>>) = 2
<1> SUFFICES ASSUME NEW n \in Nat PROVE BE(n) \in Seq(Nat) /\ Len(BE(n)) = 2 /\ Len(<<n \div Base, n % Base>>) = 2
  OBVIOUS
<1>1. n \div Base \in Nat /\ n % Base \in Nat
  <2>1. Base \in Nat \ {0}
    BY BaseFacts
  <2> QED
    BY <2>1, DivMod2
<1> QED
  BY <1>1 DEF BE

\* The flags and the type are numbers.
LEMMA MandatoryNat == MandatoryBit \in Nat /\ ReservedBit \in Nat \ {0} /\ TypeMask \subseteq Nat
<1>1. PICK k \in Nat \ {0} : Base = 4 * k
  BY Quarter
<1>2. MandatoryBit \in Nat /\ ReservedBit \in Nat \ {0}
  BY <1>1, Bits
<1> QED
  BY <1>2 DEF TypeMask

\* What is written is a sequence of numbers.
LEMMA EncodeTlvType == \A t \in Tlv : EncodeTlv(t) \in Seq(Nat)
<1> SUFFICES ASSUME NEW t \in Tlv PROVE EncodeTlv(t) \in Seq(Nat)
  OBVIOUS
<1>1. t.type \in Nat /\ t.mandatory \in BOOLEAN /\ t.value \in Seq(Octet)
  BY MandatoryNat DEF Tlv
<1>2. t.value \in Seq(Nat) /\ Len(t.value) \in Nat
  BY <1>1, OctetSeq
<1>3. t.type + (IF t.mandatory THEN MandatoryBit ELSE 0) \in Nat
  BY <1>1, MandatoryNat
<1>4. BE(t.type + (IF t.mandatory THEN MandatoryBit ELSE 0)) \in Seq(Nat) /\ BE(Len(t.value)) \in Seq(Nat)
  BY <1>2, <1>3, BEType
<1> QED
  BY <1>2, <1>4, ConcatProperties DEF EncodeTlv

\* A string agrees with itself.
LEMMA AgreesSelf == \A s \in Seq(Nat) : Agrees(s, s)
  BY DEF Agrees

\* What agrees piece by piece agrees as a whole.
LEMMA AgreesConcat ==
    ASSUME NEW S, NEW s \in Seq(S), NEW t \in Seq(S), NEW u \in Seq(S), NEW v \in Seq(S),
           Agrees(s, t), Agrees(u, v)
    PROVE  Agrees(s \o u, t \o v)
<1>1. Len(s) = Len(t) /\ Len(u) = Len(v) /\ Len(s) \in Nat /\ Len(u) \in Nat
  BY DEF Agrees
<1>2. Len(s \o u) = Len(s) + Len(u) /\ Len(t \o v) = Len(s) + Len(u) /\ s \o u \in Seq(S)
  BY <1>1
<1>3. ASSUME NEW i \in 1..(Len(s) + Len(u))
      PROVE  (s \o u)[i] = (t \o v)[i] \/ (s \o u)[i] + Base \div 4 = (t \o v)[i]
  <2>1. CASE i <= Len(s)
    <3>1. (s \o u)[i] = s[i] /\ (t \o v)[i] = t[i] /\ i \in DOMAIN s
      BY <1>1, <2>1
    <3> QED
      BY <3>1 DEF Agrees
  <2>2. CASE i > Len(s)
    <3>1. i - Len(s) \in 1..Len(u)
      BY <1>1, <2>2
    <3>2. (s \o u)[i] = u[i - Len(s)] /\ (t \o v)[i] = v[i - Len(s)] /\ i - Len(s) \in DOMAIN u
      BY <1>1, <2>2, <3>1
    <3> QED
      BY <3>2 DEF Agrees
  <2> QED
    BY <1>1, <2>1, <2>2
<1>4. DOMAIN (s \o u) = 1..(Len(s) + Len(u))
  BY <1>2
<1> QED
  BY <1>2, <1>3, <1>4 DEF Agrees

\* The number of two octets of a string.
LEMMA U16Type ==
    ASSUME NEW s \in Seq(Octet), NEW i \in Nat, i + 2 <= Len(s)
    PROVE  /\ s[i + 1] \in Octet /\ s[i + 2] \in Octet
           /\ U16(s, i) = Base * s[i + 1] + s[i + 2]
           /\ U16(s, i) \in Nat
<1>1. s[i + 1] \in Octet /\ s[i + 2] \in Octet
  BY ElementOfSeq
<1>2. U16(s, i) = Base * s[i + 1] + s[i + 2]
  BY DEF U16
<1>3. s[i + 1] \in Nat
  BY <1>1, OctetNat
<1>4. Base * s[i + 1] + s[i + 2] \in Nat
  BY <1>1, <1>3, BEOf
<1> QED
  BY <1>1, <1>2, <1>4

\* Four octets and what follows them.
LEMMA Four ==
    ASSUME NEW S, NEW p1 \in S, NEW p2 \in S, NEW p3 \in S, NEW p4 \in S, NEW v \in Seq(S)
    PROVE  LET z == <<p1, p2>> \o <<p3, p4>> \o v IN
           /\ z \in Seq(S) /\ Len(z) = 4 + Len(v)
           /\ z[1] = p1 /\ z[2] = p2 /\ z[3] = p3 /\ z[4] = p4
           /\ \A k \in 1..Len(v) : z[4 + k] = v[k]
<1> DEFINE p == <<p1, p2>> \o <<p3, p4>>
<1>1. p \in Seq(S) /\ Len(p) = 4 /\ p[1] = p1 /\ p[2] = p2 /\ p[3] = p3 /\ p[4] = p4
  OBVIOUS
<1> HIDE DEF p
<1> DEFINE z == p \o v
<1>2. /\ z \in Seq(S) /\ Len(z) = 4 + Len(v)
      /\ \A k \in 1..(4 + Len(v)) : z[k] = IF k <= 4 THEN p[k] ELSE v[k - 4]
  <2>1. p \in Seq(S) /\ Len(p) = 4
    BY <1>1
  <2>2. /\ p \o v \in Seq(S) /\ Len(p \o v) = Len(p) + Len(v)
        /\ \A k \in 1..(Len(p) + Len(v)) : (p \o v)[k] = IF k <= Len(p) THEN p[k] ELSE v[k - Len(p)]
    BY <2>1, ConcatProperties
  <2> QED
    BY <2>1, <2>2
<1>3. Len(v) \in Nat
  OBVIOUS
<1> HIDE DEF z
<1>4. z[1] = p1 /\ z[2] = p2 /\ z[3] = p3 /\ z[4] = p4
  BY <1>1, <1>2, <1>3
<1>5. ASSUME NEW k \in 1..Len(v) PROVE z[4 + k] = v[k]
  <2>1. 4 + k \in 1..(4 + Len(v)) /\ ~(4 + k <= 4) /\ (4 + k) - 4 = k
    BY <1>3
  <2> QED
    BY <1>2, <2>1
<1> QED
  BY <1>2, <1>4, <1>5 DEF p, z

\* The TLV at offset i of s.
TlvAt(s, i) == [mandatory |-> U16(s, i) >= MandatoryBit, type |-> TypeOf(U16(s, i)),
                value |-> SubSeq(s, i + HeaderLen + 1, i + HeaderLen + U16(s, i + 2))]

\* A product grows with its factors.
LEMMA Grows ==
    ASSUME NEW m \in Nat, NEW x \in Nat, NEW y \in Nat, x <= y
    PROVE  m * x <= m * y
<1>1. PICK z \in Nat : y = x + z
  <2>1. y - x \in Nat /\ y = x + (y - x)
    OBVIOUS
  <2> QED
    BY <2>1
<1>2. m * (x + z) = m * x + m * z /\ m * x \in Nat /\ m * z \in Nat
  OBVIOUS
<1> QED
  BY <1>1, <1>2

\* It can be encoded, and what is written then is what was read, up to the
\* Reserved bit.
LEMMA ReadsBack ==
    ASSUME NEW s \in Seq(Octet), NEW i \in Nat, i + HeaderLen <= Len(s),
           i + HeaderLen + U16(s, i + 2) <= Len(s), TypeOf(U16(s, i)) # 0
    PROVE  /\ U16(s, i + 2) \in Nat
           /\ TlvAt(s, i) \in Tlv /\ Encodable(TlvAt(s, i))
           /\ Agrees(EncodeTlv(TlvAt(s, i)), SubSeq(s, i + 1, i + HeaderLen + U16(s, i + 2)))
<1> DEFINE h == s[i + 1]
           l == s[i + 2]
           c == s[i + 3]
           d == s[i + 4]
           w == U16(s, i)
           n == U16(s, i + 2)
           t == TlvAt(s, i)
           v == t.value
           e == i + 4 + n
           x == TypeOf(w) + (IF w >= MandatoryBit THEN MandatoryBit ELSE 0)
<1>0. HeaderLen = 4 /\ Len(s) \in Nat
  BY DEF HeaderLen
<1>1. h \in Octet /\ l \in Octet /\ w = Base * h + l /\ w \in Nat
  BY <1>0, U16Type
<1>2. c \in Octet /\ d \in Octet /\ n = Base * c + d /\ n \in Nat
  <2>1. i + 2 \in Nat /\ (i + 2) + 2 <= Len(s) /\ (i + 2) + 1 = i + 3 /\ (i + 2) + 2 = i + 4
    BY <1>0
  <2> QED
    BY <2>1, U16Type
<1>3. c \in Nat /\ d \in 0..(Base - 1) /\ c <= Base - 1
  BY <1>2, OctetNat, BaseFacts DEF Octet
<1> HIDE DEF w, n
<1>4. BE(n) = <<c, d>> /\ n <= MaxValue
  <2>1. BE(n) = <<c, d>>
    BY <1>2, <1>3, BEOf
  <2>2. Base * c <= Base * (Base - 1)
    <3>1. Base - 1 \in Nat /\ Base \in Nat
      BY BaseFacts
    <3> QED
      BY <1>3, <3>1, Grows
  <2>3. Base * (Base - 1) = Base * Base - Base
    BY BaseFacts
  <2> QED
    <3> DEFINE bc == Base * c
               bb == Base * Base
    <3>1. n = bc + d /\ bc \in Nat /\ bc <= bb - Base /\ bb \in Nat
      <4>1. Base * c \in Nat
        BY <1>3, BaseFacts
      <4> QED
        BY <1>2, <2>2, <2>3, <4>1, BaseFacts, Zenon
    <3> HIDE DEF bc, bb
    <3>2. n <= bb - 1
      BY <1>3, <3>1, BaseFacts
    <3> QED
      BY <2>1, <3>2, Zenon DEF MaxValue, bb
<1>5. v = SubSeq(s, (i + 4) + 1, e) /\ v \in Seq(Octet) /\ Len(v) = n
      /\ \A k \in 1..n : v[k] = s[(i + 4) + k]
  <2>1. v = SubSeq(s, (i + 4) + 1, e)
    BY <1>0 DEF TlvAt, n
  <2>2. i + 4 \in Nat /\ e \in Nat /\ i + 4 <= e /\ e <= Len(s) /\ e - (i + 4) = n
    <3>1. e <= Len(s)
      BY <1>0 DEF n
    <3> QED
      BY <1>2, <3>1
  <2> HIDE DEF e, v
  <2> QED
    BY <2>1, <2>2, Part
<1>6. TypeOf(w) \in TypeMask \ {0}
  <2>1. TypeOf(w) \in 0..(ReservedBit - 1)
    BY <1>1, MandatoryNat, DivMod2 DEF TypeOf
  <2> QED
    BY <2>1 DEF TypeMask, w
<1>7. t \in Tlv /\ Encodable(t)
  <2>1. t = [mandatory |-> w >= MandatoryBit, type |-> TypeOf(w), value |-> v]
    BY DEF TlvAt, w
  <2>2. (w >= MandatoryBit) \in BOOLEAN
    OBVIOUS
  <2>3. v \in Seq(Octet) /\ Len(v) <= MaxValue
    BY <1>4, <1>5
  <2> HIDE DEF v
  <2> DEFINE m == w >= MandatoryBit
  <2> HIDE DEF m
  <2>4. t = [mandatory |-> m, type |-> TypeOf(w), value |-> v] /\ m \in BOOLEAN
    BY <2>1, <2>2 DEF m
  <2> HIDE DEF t
  <2> QED
    BY <1>6, <2>3, <2>4 DEF Tlv, Encodable
<1>8. PICK g \in Nat : BE(x) = <<g, l>> /\ (g = h \/ g + Base \div 4 = h)
  <2> HIDE DEF h, l
  <2> QED
    BY <1>1, HeaderAgrees
<1>9. EncodeTlv(t) = <<g, l>> \o <<c, d>> \o v
  <2>1. t.type + (IF t.mandatory THEN MandatoryBit ELSE 0) = x
    BY DEF TlvAt, w
  <2>2. EncodeTlv(t) = BE(x) \o BE(Len(v)) \o v
    BY <2>1 DEF EncodeTlv
  <2> QED
    BY <1>4, <1>5, <1>8, <2>2
<1> DEFINE z == <<g, l>> \o <<c, d>> \o v
           y == SubSeq(s, i + 1, e)
<1>10. /\ z \in Seq(Nat) /\ Len(z) = 4 + n
       /\ z[1] = g /\ z[2] = l /\ z[3] = c /\ z[4] = d
       /\ \A k \in 1..n : z[4 + k] = v[k]
  <2>1. l \in Nat /\ c \in Nat /\ d \in Nat /\ g \in Nat
    BY <1>1, <1>2, OctetNat
  <2>2. v \in Seq(Nat)
    BY <1>5, OctetSeq, Zenon
  <2> HIDE DEF v, l, c, d
  <2>3. /\ z \in Seq(Nat) /\ Len(z) = 4 + Len(v)
        /\ z[1] = g /\ z[2] = l /\ z[3] = c /\ z[4] = d
        /\ \A k \in 1..Len(v) : z[4 + k] = v[k]
    BY <2>1, <2>2, Four
  <2> QED
    BY <1>5, <2>3
<1>11. Len(y) = 4 + n /\ \A k \in 1..(4 + n) : y[k] = s[i + k]
  <2>1. e \in Nat /\ i <= e /\ e <= Len(s) /\ e - i = 4 + n
    BY <1>0, <1>2 DEF n
  <2> HIDE DEF e
  <2> QED
    BY <2>1, Part
<1> HIDE DEF v, z, y
<1>12. ASSUME NEW k \in 1..(4 + n) PROVE z[k] = y[k] \/ z[k] + Base \div 4 = y[k]
  <2>0. y[k] = s[i + k]
    BY <1>11
  <2>1. CASE k = 1
    BY <1>8, <1>10, <2>0, <2>1
  <2>2. CASE k = 2 \/ k = 3 \/ k = 4
    BY <1>10, <2>0, <2>2
  <2>3. CASE k > 4
    <3>1. k - 4 \in 1..n /\ 4 + (k - 4) = k /\ (i + 4) + (k - 4) = i + k
      BY <1>2, <2>3
    <3>2. z[4 + (k - 4)] = v[k - 4]
      BY <1>10, <3>1
    <3>3. v[k - 4] = s[(i + 4) + (k - 4)]
      BY <1>5, <3>1
    <3> QED
      BY <2>0, <3>1, <3>2, <3>3
  <2>4. k = 1 \/ k = 2 \/ k = 3 \/ k = 4 \/ k > 4
    BY <1>2
  <2> QED
    BY <2>1, <2>2, <2>3, <2>4
<1>13. Agrees(z, y)
  <2>1. DOMAIN z = 1..(4 + n) /\ Len(z) = Len(y)
    BY <1>10, <1>11
  <2> QED
    BY <1>12, <2>1 DEF Agrees
<1>14. y = SubSeq(s, i + 1, i + HeaderLen + U16(s, i + 2)) /\ z = EncodeTlv(t)
  BY <1>0, <1>9 DEF y, z, n
<1> QED
  BY <1>2, <1>7, <1>13, <1>14 DEF n

-----------------------------------------------------------------------------
(* The reader keeps its invariant.                                          *)

\* It holds when reading starts.
LEMMA ReaderInit == Init => ReaderInv
<1> SUFFICES ASSUME Init PROVE ReaderInv
  OBVIOUS
<1>1. buf \in Seq(Octet) /\ pos = 0 /\ tlvs = <<>> /\ result = "Reading"
  BY BufferAssumption DEF Init
<1>2. ReaderType
  <2>1. 0 \in 0..Len(buf) /\ <<>> \in Seq(Tlv)
    BY <1>1
  <2> QED
    BY <1>1, <2>1 DEF ReaderType, Results
<1>3. ReadInv
  <2>1. EncodeAll(tlvs) = <<>>
    BY <1>1, EncodeEmpty
  <2>2. SubSeq(buf, 1, pos) = <<>>
    BY <1>1, SubSeqEmpty
  <2>3. Agrees(<<>>, <<>>)
    BY DEF Agrees
  <2>4. DOMAIN tlvs = {}
    BY <1>1
  <2> QED
    BY <2>1, <2>2, <2>3, <2>4 DEF ReadInv
<1>4. CountInv
  <2>1. Covers[0] \in SUBSET Nat /\ Len(tlvs) = 0
    BY <1>1, CoversType
  <2>2. Covers[0] = {n + 0 : n \in Covers[0]}
    BY <2>1
  <2> QED
    BY <1>1, <2>1, <2>2 DEF CountInv
<1>5. OutcomeInv
  BY <1>1, LimitAssumption DEF OutcomeInv
<1> QED
  BY <1>2, <1>3, <1>4, <1>5 DEF ReaderInv

\* Reading one TLV more.
LEMMA ReaderNextTlv ==
    ASSUME ReaderInv, NextTlv
    PROVE  ReaderInv'
<1> DEFINE w == U16(buf, pos)
           n == U16(buf, pos + 2)
           t == TlvAt(buf, pos)
           e == pos + HeaderLen + n
<1>0. buf \in Seq(Octet) /\ pos \in Nat /\ pos <= Len(buf) /\ tlvs \in Seq(Tlv) /\ Len(buf) \in Nat
  BY DEF ReaderInv, ReaderType
<1>1. /\ result = "Reading" /\ pos < Len(buf) /\ Len(tlvs) < MaxTlvs
      /\ pos + HeaderLen <= Len(buf) /\ TypeOf(w) # 0 /\ e <= Len(buf)
  BY DEF NextTlv, Reading, BelowLimit, HasHeader, Word, U16At, U16, ValueFits, ValueEnd,
         ValueStart, Declared
<1>2. buf' = buf /\ result' = result /\ pos' = e
  BY DEF NextTlv, ValueEnd, ValueStart, Declared, U16At, U16
<1>3. tlvs' = Append(tlvs, t)
  BY DEF NextTlv, TlvAt, Mandatory, Word, U16At, U16, ValueEnd, ValueStart, Declared
<1>4. /\ n \in Nat /\ t \in Tlv /\ Encodable(t)
      /\ Agrees(EncodeTlv(t), SubSeq(buf, pos + 1, e))
  BY <1>0, <1>1, ReadsBack
<1>5. U16At(pos) = w /\ U16At(pos + 2) = n
  BY DEF U16At, U16
<1> HIDE DEF w, n, t
<1>6. e \in Nat /\ pos < e /\ pos + HeaderLen <= e
  BY <1>0, <1>4 DEF HeaderLen
<1>7. Len(tlvs) \in Nat /\ tlvs' \in Seq(Tlv) /\ Len(tlvs') = Len(tlvs) + 1 /\ tlvs'[Len(tlvs) + 1] = t
      /\ \A i \in 1..Len(tlvs) : tlvs'[i] = tlvs[i]
  <2> HIDE DEF Tlv
  <2> QED
    BY <1>0, <1>3, <1>4, AppendProperties
<1>8. ReaderType'
  <2>1. e \in 0..Len(buf)
    BY <1>0, <1>1, <1>6
  <2>2. result' = "Reading"
    BY <1>1, <1>2
  <2> HIDE DEF e
  <2> QED
    BY <1>0, <1>2, <1>7, <2>1, <2>2 DEF ReaderType, Results
<1>9. ReadInv'
  <2>1. ASSUME NEW i \in DOMAIN tlvs' PROVE Encodable(tlvs'[i])
    <3>1. i \in 1..(Len(tlvs) + 1)
      BY <1>7
    <3>2. CASE i = Len(tlvs) + 1
      BY <1>4, <1>7, <3>2
    <3>3. CASE i \in 1..Len(tlvs)
      <4>1. i \in DOMAIN tlvs
        BY <1>0, <3>3
      <4>2. Encodable(tlvs[i])
        BY <4>1 DEF ReaderInv, ReadInv
      <4> QED
        BY <1>7, <3>3, <4>2
    <3> QED
      BY <1>7, <3>1, <3>2, <3>3
  <2>2. EncodeAll(tlvs') = EncodeAll(tlvs) \o EncodeTlv(t) /\ EncodeAll(tlvs) \in Seq(Nat)
    BY <1>0, <1>3, <1>4, EncodeTlvType, EncodeAppend
  <2> DEFINE read == SubSeq(buf, 1, pos)
             now  == SubSeq(buf, pos + 1, e)
  <2>3. read \o now = SubSeq(buf, 1, e)
    <3>1. 1 \in 1..(Len(buf) + 1) /\ pos \in (1 - 1)..Len(buf) /\ e \in pos..Len(buf)
      BY <1>0, <1>1, <1>6
    <3> HIDE DEF e
    <3> QED
      BY <1>0, <3>1, ConcatAdjacentSubSeq
  <2>4. read \in Seq(Nat) /\ now \in Seq(Nat)
    <3>1. buf \in Seq(Nat)
      BY <1>0, OctetSeq
    <3>2. 0 + 1 = 1 /\ 0 \in Nat /\ 0 <= pos
      BY <1>0
    <3>3. read \in Seq(Nat)
      BY <1>0, <3>1, <3>2, Part
    <3>4. e <= Len(buf) /\ pos <= e
      BY <1>0, <1>1, <1>6
    <3> HIDE DEF e
    <3>5. now \in Seq(Nat)
      BY <1>0, <1>6, <3>1, <3>4, Part
    <3> QED
      BY <3>3, <3>5
  <2>5. Agrees(EncodeAll(tlvs), read) /\ Agrees(EncodeTlv(t), now)
    BY <1>4 DEF ReaderInv, ReadInv
  <2>6. EncodeTlv(t) \in Seq(Nat)
    BY <1>4, EncodeTlvType
  <2> HIDE DEF read, now, e
  <2>7. Agrees(EncodeAll(tlvs) \o EncodeTlv(t), read \o now)
    BY <2>2, <2>4, <2>5, <2>6, AgreesConcat
  <2>8. Agrees(EncodeAll(tlvs'), SubSeq(buf', 1, pos'))
    BY <1>2, <2>2, <2>3, <2>7
  <2>9. ReadInv' <=> (\A i \in DOMAIN tlvs' : Encodable(tlvs'[i])) /\ Agrees(EncodeAll(tlvs'), SubSeq(buf', 1, pos'))
    BY DEF ReadInv, Encodable, Agrees, EncodeAll, EncodeTlv, BE, TypeMask, ReservedBit, MandatoryBit,
           MaxValue
  <2> QED
    BY <2>1, <2>8, <2>9
<1>10. CountInv'
  <2>1. pos # Len(buf) /\ e \in (pos + HeaderLen)..Len(buf)
    BY <1>0, <1>1, <1>6 DEF HeaderLen
  <2>2. Covers[pos] = {k + 1 : k \in Covers[e]}
    <3>1. e = pos + HeaderLen + U16At(pos + 2) /\ TypeOf(U16At(pos)) # 0
      BY <1>1, <1>5
    <3> HIDE DEF e
    <3> QED
      BY <1>0, <2>1, <3>1, CoversNext
  <2>3. Covers[0] = {k + Len(tlvs) : k \in Covers[pos]}
    BY DEF ReaderInv, CountInv
  <2>4. Covers[e] \in SUBSET Nat
    BY <1>0, <1>6, CoversType
  <2> HIDE DEF e
  <2>5. Covers[0] = {k + (Len(tlvs) + 1) : k \in Covers[e]}
    <3>1. \A k \in Covers[e] : (k + 1) + Len(tlvs) = k + (Len(tlvs) + 1)
      BY <1>7, <2>4
    <3>2. Covers[0] = {(k + 1) + Len(tlvs) : k \in Covers[e]}
      BY <2>2, <2>3
    <3> QED
      BY <3>1, <3>2
  <2>6. Covers' = Covers
    BY <1>2, CoversPrime
  <2> QED
    BY <1>2, <1>7, <2>5, <2>6 DEF CountInv
<1>11. OutcomeInv'
  <2>1. Len(tlvs') <= MaxTlvs /\ result' = "Reading"
    BY <1>1, <1>2, <1>7, LimitAssumption
  <2> QED
    BY <2>1 DEF OutcomeInv
<1> QED
  BY <1>8, <1>9, <1>10, <1>11 DEF ReaderInv

\* What only changes the result keeps the rest.
LEMMA ReaderKeeps ==
    ASSUME ReaderInv, UNCHANGED <<buf, pos, tlvs>>, result' \in Results, OutcomeInv'
    PROVE  ReaderInv'
<1>1. ReaderType'
  BY DEF ReaderInv, ReaderType
<1>2. ReadInv'
  <2>1. ReadInv' <=> ReadInv
    BY DEF ReadInv, Encodable, Agrees, EncodeAll, EncodeTlv, BE, TypeMask, ReservedBit, MandatoryBit,
           MaxValue
  <2> QED
    BY <2>1 DEF ReaderInv
<1>3. CountInv'
  <2>1. Covers' = Covers
    BY CoversPrime
  <2> QED
    BY <2>1 DEF ReaderInv, CountInv
<1> QED
  BY <1>1, <1>2, <1>3 DEF ReaderInv

\* Every step of the reader keeps the invariant.
LEMMA ReaderNext == ReaderInv /\ [Next]_vars => ReaderInv'
<1> SUFFICES ASSUME ReaderInv, [Next]_vars PROVE ReaderInv'
  OBVIOUS
<1>0. /\ buf \in Seq(Octet) /\ pos \in Nat /\ pos <= Len(buf) /\ Len(buf) \in Nat
      /\ tlvs \in Seq(Tlv) /\ Len(tlvs) \in Nat /\ OutcomeInv /\ result \in Results
  BY DEF ReaderInv, ReaderType
<1>1. CASE TooManyTlvs
  <2>1. /\ result' = "TooManyTlvs" /\ pos # Len(buf) /\ ~(Len(tlvs) < MaxTlvs)
        /\ UNCHANGED <<buf, pos, tlvs>>
    BY <1>0, <1>1 DEF TooManyTlvs, Reading, BelowLimit, Stop
  <2>2. Len(tlvs) = MaxTlvs
    BY <1>0, <2>1, LimitAssumption DEF OutcomeInv
  <2>3. OutcomeInv'
    BY <2>1, <2>2, LimitAssumption DEF OutcomeInv
  <2> QED
    BY <2>1, <2>3, ReaderKeeps DEF Results
<1>2. CASE TruncatedHeader \/ ReservedType \/ TruncatedValue
  <2>1. /\ result' \in {"TruncatedHeader", "ReservedType", "TruncatedValue"} /\ pos # Len(buf)
        /\ UNCHANGED <<buf, pos, tlvs>>
        /\ \/ pos + HeaderLen > Len(buf) \/ TypeOf(U16At(pos)) = 0
           \/ pos + HeaderLen + U16At(pos + 2) > Len(buf)
    <3>1. CASE TruncatedHeader
      BY <1>0, <3>1 DEF TruncatedHeader, Reading, HasHeader, Stop, HeaderLen
    <3>2. CASE ReservedType
      BY <1>0, <3>2 DEF ReservedType, Reading, Word, Stop
    <3>3. CASE TruncatedValue
      <4>1. pos + 2 + 2 <= Len(buf) /\ U16(buf, pos + 2) \in Nat
        <5>1. pos + 2 \in Nat /\ (pos + 2) + 2 <= Len(buf)
          BY <1>0, <3>3 DEF TruncatedValue, HasHeader, HeaderLen
        <5> QED
          BY <1>0, <5>1, U16Type
      <4>2. U16At(pos + 2) \in Nat
        BY <4>1 DEF U16, U16At
      <4> HIDE DEF U16At
      <4> QED
        BY <1>0, <3>3, <4>2 DEF TruncatedValue, Reading, ValueFits, ValueEnd, ValueStart, Declared, Stop,
                              HeaderLen
    <3> QED
      BY <1>2, <3>1, <3>2, <3>3
  <2>2. Covers[pos] = {}
    BY <1>0, <2>1, CoversNone
  <2>3. Covers'[pos'] = {}
    BY <2>1, <2>2, CoversPrime
  <2>4. OutcomeInv'
    BY <1>0, <2>1, <2>3 DEF OutcomeInv
  <2> QED
    BY <2>1, <2>4, ReaderKeeps DEF Results
<1>3. CASE NextTlv
  BY <1>3, ReaderNextTlv
<1>4. CASE Finish
  <2>1. result' = "Parsed" /\ pos = Len(buf) /\ UNCHANGED <<buf, pos, tlvs>>
    BY <1>0, <1>4 DEF Finish, Finished
  <2>2. OutcomeInv'
    BY <1>0, <2>1 DEF OutcomeInv
  <2> QED
    BY <2>1, <2>2, ReaderKeeps DEF Results
<1>5. CASE UNCHANGED vars
  <2>1. UNCHANGED <<buf, pos, tlvs>> /\ result' = result
    BY <1>5 DEF vars
  <2>2. OutcomeInv'
    <3>1. Covers' = Covers
      BY <2>1, CoversPrime
    <3> QED
      BY <1>0, <2>1, <3>1 DEF OutcomeInv
  <2> QED
    BY <1>0, <2>1, <2>2, ReaderKeeps
<1> QED
  BY <1>1, <1>2, <1>3, <1>4, <1>5 DEF Next

\* The reader's invariant: what has been read stands for exactly the octets
\* consumed, and the TLVs left to read are those that cover the rest.
THEOREM ReaderInvariance == Spec => []ReaderInv
  BY ReaderInit, ReaderNext, PTL DEF Spec

\* The invariant says what parse_all accepts.
LEMMA ReaderAccepts == ReaderInv => AcceptsExactlyTlvs
<1> SUFFICES ASSUME ReaderInv PROVE AcceptsExactlyTlvs
  OBVIOUS
<1>0. /\ buf \in Seq(Octet) /\ pos \in Nat /\ pos <= Len(buf) /\ Len(buf) \in Nat
      /\ tlvs \in Seq(Tlv) /\ Len(tlvs) \in Nat /\ OutcomeInv /\ ReadInv /\ CountInv
  BY DEF ReaderInv, ReaderType
<1>1. Covers[pos] \in SUBSET Nat /\ (pos # Len(buf) => 0 \notin Covers[pos])
  BY <1>0, CoversType
<1>2. ASSUME result = "Parsed" PROVE Covers[0] = {Len(tlvs)} /\ Len(tlvs) <= MaxTlvs
  <2>1. Covers[pos] = {0} /\ Len(tlvs) <= MaxTlvs
    BY <1>0, <1>2, CoversEnd DEF OutcomeInv
  <2>2. {n + Len(tlvs) : n \in {0}} = {Len(tlvs)}
    <3>1. 0 + Len(tlvs) = Len(tlvs)
      BY <1>0
    <3>2. {n + Len(tlvs) : n \in {0}} = {0 + Len(tlvs)}
      OBVIOUS
    <3> QED
      BY <3>1, <3>2
  <2> QED
    BY <1>0, <2>1, <2>2 DEF CountInv
<1>3. ASSUME result = "TooManyTlvs" PROVE Covers[0] \cap 0..MaxTlvs = {}
  <2>1. 0 \notin Covers[pos] /\ Len(tlvs) = MaxTlvs
    BY <1>0, <1>1, <1>3 DEF OutcomeInv
  <2>2. \A n \in Covers[pos] : n + Len(tlvs) \notin 0..MaxTlvs
    BY <1>1, <2>1, LimitAssumption
  <2> QED
    BY <1>0, <2>2 DEF CountInv
<1>4. ASSUME result \in {"TruncatedHeader", "ReservedType", "TruncatedValue"} PROVE Covers[0] = {}
  <2>1. Covers[pos] = {}
    BY <1>0, <1>4 DEF OutcomeInv
  <2> QED
    BY <1>0, <2>1 DEF CountInv
<1> QED
  BY <1>0, <1>2, <1>3, <1>4 DEF ReadInv, AcceptsExactlyTlvs

\* For every buffer, Base and limit: parse_all accepts exactly the buffers that
\* TLVs cover from end to end, no more of them than MaxTlvs, and what it has read
\* stands for exactly the octets it has consumed (raw.rs).
THEOREM ReaderAcceptsExactlyTlvs == Spec => []AcceptsExactlyTlvs
  BY ReaderInvariance, ReaderAccepts, PTL

-----------------------------------------------------------------------------
(* What a framed message says, from either end.                             *)

\* The least of one number.
LEMMA MinOne == \A m \in Nat : Min({m}) = m
<1> SUFFICES ASSUME NEW m \in Nat PROVE Min({m}) = m
  OBVIOUS
<1>1. \A x : (x \in {m} /\ \A y \in {m} : x <= y) <=> x = m
  OBVIOUS
<1>2. Min({m}) = CHOOSE x : x \in {m} /\ \A y \in {m} : x <= y
  BY Zenon DEF Min
<1>3. \E x : x \in {m} /\ \A y \in {m} : x <= y
  BY <1>1
<1> QED
  BY <1>1, <1>2, <1>3, Zenon

\* A critical TLV of a framed message is the same from either end.
LEMMA FoundEitherWay ==
    ASSUME NEW ts \in Seq(Tlv), Framed(ts), NEW type \in CriticalTypes
    PROVE  Find(Reverse(ts), type) = Find(ts, type)
<1> DEFINE n == Len(ts)
           rs == Reverse(ts)
           seen == Having(ts, type)
<1>0. n \in Nat /\ DOMAIN ts = 1..n
  OBVIOUS
<1>1. DOMAIN rs = 1..n /\ \A i \in 1..n : rs[i] = ts[n - i + 1]
  <2>1. rs = [i \in 1..n |-> ts[n - i + 1]]
    BY DEF Reverse
  <2> HIDE DEF n
  <2> QED
    BY <2>1
<1> HIDE DEF rs, n
<1>2. Having(rs, type) = {i \in 1..n : ts[n - i + 1].type = type}
  BY <1>1 DEF Having
<1>3. seen = {i \in 1..n : ts[i].type = type}
  BY <1>0 DEF Having
<1>4. CASE seen = {}
  <2>1. Having(rs, type) = {}
    <3>1. \A i \in 1..n : n - i + 1 \in 1..n
      BY <1>0
    <3> QED
      BY <1>2, <1>3, <1>4, <3>1
  <2> QED
    BY <1>4, <2>1 DEF Find, rs
<1>5. CASE seen # {}
  <2>1. PICK m \in 1..n : seen = {m}
    <3>1. seen = {Min(seen)}
      BY <1>5 DEF Framed
    <3>2. Min(seen) \in 1..n
      BY <1>3, <3>1
    <3> QED
      BY <3>1, <3>2
  <2> DEFINE k == n - m + 1
  <2>2. k \in 1..n /\ n - k + 1 = m /\ k \in Nat /\ m \in Nat
    BY <1>0
  <2>3. Having(rs, type) = {k}
    <3>1. \A i \in 1..n : n - i + 1 \in 1..n
      BY <1>0
    <3>2. \A i \in 1..n : ts[n - i + 1].type = type <=> n - i + 1 = m
      BY <1>3, <2>1, <3>1
    <3>3. \A i \in 1..n : n - i + 1 = m <=> i = k
      BY <1>0, <2>2
    <3> HIDE DEF k
    <3> QED
      BY <1>2, <2>2, <3>2, <3>3
  <2> HIDE DEF k
  <2>4. Min({k}) = k /\ Min({m}) = m
    BY <2>2, MinOne
  <2>5. rs[k] = ts[m]
    BY <1>1, <2>2
  <2>6. Find(rs, type) = [found |-> TRUE, body |-> Bodies(rs[k])]
    BY <2>3, <2>4 DEF Find
  <2>7. Find(ts, type) = [found |-> TRUE, body |-> Bodies(ts[m])]
    BY <2>1, <2>4 DEF Find
  <2> QED
    BY <2>5, <2>6, <2>7 DEF rs
<1> QED
  BY <1>4, <1>5

\* A step acts on the same TLVs whichever it takes of those of a type.
LEMMA FramedActsOnOne == ReaderInv => FramedIsUnambiguous
<1> SUFFICES ASSUME ReaderInv, Framed(tlvs) PROVE ActedOn(Reverse(tlvs)) = ActedOn(tlvs)
  BY DEF FramedIsUnambiguous
<1> DEFINE rs == Reverse(tlvs)
<1>1. tlvs \in Seq(Tlv)
  BY DEF ReaderInv, ReaderType
<1>2. \A type \in CriticalTypes : Find(rs, type) = Find(tlvs, type)
  BY <1>1, FoundEitherWay
<1>3. IDENTITY_TYPE \in CriticalTypes /\ INTERMEDIATE_RESULT \in CriticalTypes
      /\ CRYPTO_BINDING \in CriticalTypes /\ RESULT \in CriticalTypes
  BY DEF CriticalTypes
<1> HIDE DEF rs
<1>4. \A b : FindCryptoBinding(rs, b) = FindCryptoBinding(tlvs, b)
  BY <1>2, <1>3 DEF FindCryptoBinding
<1>5. Find(rs, INTERMEDIATE_RESULT) = Find(tlvs, INTERMEDIATE_RESULT)
      /\ Find(rs, IDENTITY_TYPE) = Find(tlvs, IDENTITY_TYPE)
      /\ Find(rs, RESULT) = Find(tlvs, RESULT)
  BY <1>2, <1>3
<1>6. {FindCryptoBinding(rs, b) : b \in Find(tlvs, INTERMEDIATE_RESULT).body}
        = {FindCryptoBinding(tlvs, b) : b \in Find(tlvs, INTERMEDIATE_RESULT).body}
  BY <1>4
<1> QED
  BY <1>5, <1>6 DEF ActedOn, rs

\* For every message: in one that passes the framing test, a reader that takes
\* the last TLV of a type sees what the code, which takes the first, sees
\* (session.rs).
THEOREM ReaderFramedIsUnambiguous == Spec => []FramedIsUnambiguous
  BY ReaderInvariance, FramedActsOnOne, PTL

-----------------------------------------------------------------------------
(* The lines of the published status.                                       *)

\* The least number of a set.
LEMMA MinIs ==
    ASSUME NEW T \in SUBSET Nat, NEW m \in T, \A y \in T : m <= y
    PROVE  Min(T) = m
<1>1. \A x : (x \in T /\ \A y \in T : x <= y) <=> x = m
  <2>1. ASSUME NEW x \in T, \A y \in T : x <= y PROVE x = m
    <3>1. x <= m /\ m <= x /\ x \in Nat /\ m \in Nat
      BY <2>1
    <3> QED
      BY <3>1
  <2> QED
    BY <2>1
<1>2. Min(T) = CHOOSE x : x \in T /\ \A y \in T : x <= y
  BY Zenon DEF Min
<1>3. \E x : x \in T /\ \A y \in T : x <= y
  BY <1>1
<1> QED
  BY <1>1, <1>2, <1>3, Zenon

\* The greatest number of a set.
LEMMA MaxIs ==
    ASSUME NEW T \in SUBSET Nat, NEW m \in T, \A y \in T : m >= y
    PROVE  Max(T) = m
<1>1. \A x : (x \in T /\ \A y \in T : x >= y) <=> x = m
  <2>1. ASSUME NEW x \in T, \A y \in T : x >= y PROVE x = m
    <3>1. x >= m /\ m >= x /\ x \in Nat /\ m \in Nat
      BY <2>1
    <3> QED
      BY <3>1
  <2> QED
    BY <2>1
<1>2. Max(T) = CHOOSE x : x \in T /\ \A y \in T : x >= y
  BY Zenon DEF Max
<1>3. \E x : x \in T /\ \A y \in T : x >= y
  BY <1>1
<1> QED
  BY <1>1, <1>2, <1>3, Zenon

\* p is lines, none of them that of the field.
Apart(p, field) ==
    /\ p \in Seq(Nat)
    /\ p # <<>> => p[Len(p)] = NewLine
    /\ \A i \in 1..Len(p) : (i = 1 \/ p[i - 1] = NewLine) => p[i] # Key[field]

\* v has no line break.
Plain(v) == v \in Seq(Nat) /\ \A i \in 1..Len(v) : v[i] # NewLine /\ v[i] # Return

Fields == {"version", "state", "identity", "subject", "detail", "updated"}

\* The keys are different, and none is a line break.
LEMMA KeyFacts ==
    /\ DOMAIN Key = Fields
    /\ \A f \in Fields : Key[f] \in Nat /\ Key[f] # NewLine /\ Key[f] # Return /\ Key[f] # Equals
    /\ \A f, g \in Fields : f # g => Key[f] # Key[g]
  BY DEF Key, Fields, NewLine, Return, Equals

\* What is on a line.
LEMMA LineFacts ==
    ASSUME NEW field \in Fields, NEW v, Plain(v)
    PROVE  /\ Line(field, v) \in Seq(Nat)
           /\ Len(v) \in Nat
           /\ Len(Line(field, v)) = Len(v) + 3
           /\ Line(field, v)[1] = Key[field] /\ Line(field, v)[2] = Equals
           /\ \A i \in 1..Len(v) : Line(field, v)[i + 2] = v[i]
           /\ Line(field, v)[Len(v) + 3] = NewLine
<1> DEFINE k == <<Key[field], Equals>>
           e == <<NewLine>>
           n == Len(v)
<1>1. k \in Seq(Nat) /\ Len(k) = 2 /\ k[1] = Key[field] /\ k[2] = Equals
  BY KeyFacts DEF Equals
<1>2. v \in Seq(Nat) /\ n \in Nat
  BY DEF Plain
<1>3. e \in Seq(Nat) /\ Len(e) = 1 /\ e[1] = NewLine
  BY DEF NewLine
<1>4. Line(field, v) = (k \o v) \o e
  BY DEF Line
<1> HIDE DEF k, e, n
<1>5. /\ k \o v \in Seq(Nat) /\ Len(k \o v) = 2 + n
      /\ \A i \in 1..(2 + n) : (k \o v)[i] = IF i <= 2 THEN k[i] ELSE v[i - 2]
  <2>1. /\ k \o v \in Seq(Nat) /\ Len(k \o v) = Len(k) + Len(v)
        /\ \A i \in 1..(Len(k) + Len(v)) : (k \o v)[i] = IF i <= Len(k) THEN k[i] ELSE v[i - Len(k)]
    BY <1>1, <1>2, ConcatProperties
  <2> QED
    BY <1>1, <2>1 DEF n
<1> DEFINE kv == k \o v
<1> HIDE DEF kv
<1>6. /\ kv \o e \in Seq(Nat) /\ Len(kv \o e) = (2 + n) + 1
      /\ \A i \in 1..((2 + n) + 1) : (kv \o e)[i] = IF i <= 2 + n THEN kv[i] ELSE e[i - (2 + n)]
  <2>1. kv \in Seq(Nat) /\ Len(kv) = 2 + n
    BY <1>5 DEF kv
  <2>2. /\ kv \o e \in Seq(Nat) /\ Len(kv \o e) = Len(kv) + Len(e)
        /\ \A i \in 1..(Len(kv) + Len(e)) : (kv \o e)[i] = IF i <= Len(kv) THEN kv[i] ELSE e[i - Len(kv)]
    BY <1>3, <2>1, ConcatProperties
  <2> QED
    BY <1>3, <2>1, <2>2
<1> DEFINE l == kv \o e
<1>7. l = Line(field, v)
  BY <1>4 DEF kv
<1> HIDE DEF l
<1>8. \A i \in 1..(2 + n) : l[i] = IF i <= 2 THEN k[i] ELSE v[i - 2]
  <2>1. \A i \in 1..(2 + n) : i \in 1..((2 + n) + 1) /\ i <= 2 + n
    BY <1>2
  <2> QED
    BY <1>5, <1>6, <2>1 DEF kv, l
<1>9. l[n + 3] = NewLine
  <2>1. n + 3 \in 1..((2 + n) + 1) /\ ~(n + 3 <= 2 + n) /\ (n + 3) - (2 + n) = 1
    BY <1>2
  <2> QED
    BY <1>3, <1>6, <2>1 DEF l
<1>10. l[1] = Key[field] /\ l[2] = Equals
  <2>1. 1 \in 1..(2 + n) /\ 2 \in 1..(2 + n)
    BY <1>2
  <2> QED
    BY <1>1, <1>8, <2>1
<1>11. ASSUME NEW i \in 1..n PROVE l[i + 2] = v[i]
  <2>1. i + 2 \in 1..(2 + n) /\ ~(i + 2 <= 2) /\ (i + 2) - 2 = i
    BY <1>2
  <2> QED
    BY <1>8, <2>1
<1>12. l \in Seq(Nat) /\ Len(l) = n + 3
  BY <1>2, <1>6 DEF l
<1> QED
  BY <1>2, <1>7, <1>9, <1>10, <1>11, <1>12 DEF n

\* A line is apart from the other fields.
LEMMA LineApart ==
    ASSUME NEW f \in Fields, NEW g \in Fields, f # g, NEW v, Plain(v)
    PROVE  Apart(Line(f, v), g)
<1> DEFINE l == Line(f, v)
           n == Len(v)
<1>1. /\ l \in Seq(Nat) /\ n \in Nat /\ Len(l) = n + 3
      /\ l[1] = Key[f] /\ l[2] = Equals /\ l[n + 3] = NewLine
      /\ \A i \in 1..n : l[i + 2] = v[i]
  BY LineFacts
<1> HIDE DEF l, n
<1>2. ASSUME NEW i \in 1..Len(l), i = 1 \/ l[i - 1] = NewLine PROVE i = 1
  <2> SUFFICES ASSUME i # 1 PROVE FALSE
    OBVIOUS
  <2>0. i \in 2..(n + 3)
    BY <1>1
  <2>1. CASE i = 2
    BY <1>1, <1>2, <2>1, KeyFacts
  <2>2. CASE i = 3
    BY <1>1, <1>2, <2>2 DEF Equals, NewLine
  <2>3. CASE i > 3
    <3>1. i - 3 \in 1..n /\ (i - 3) + 2 = i - 1
      BY <1>1, <2>0, <2>3
    <3>2. l[i - 1] = v[i - 3]
      BY <1>1, <3>1
    <3>3. v[i - 3] # NewLine
      BY <3>1 DEF Plain, n
    <3> QED
      BY <1>2, <2>3, <3>2, <3>3
  <2> QED
    BY <2>0, <2>1, <2>2, <2>3
<1>3. Key[f] # Key[g]
  BY KeyFacts
<1> QED
  BY <1>1, <1>2, <1>3 DEF Apart, l

\* Lines and more lines.
LEMMA ApartConcat ==
    ASSUME NEW f \in Fields, NEW p, NEW q, Apart(p, f), Apart(q, f)
    PROVE  Apart(p \o q, f)
<1> DEFINE t == p \o q
           m == Len(p)
           n == Len(q)
<1>1. p \in Seq(Nat) /\ q \in Seq(Nat) /\ m \in Nat /\ n \in Nat
  BY DEF Apart
<1>2. t \in Seq(Nat) /\ Len(t) = m + n /\ \A i \in 1..(m + n) : t[i] = IF i <= m THEN p[i] ELSE q[i - m]
  BY <1>1, ConcatProperties
<1>3. /\ m # 0 => p[m] = NewLine
      /\ n # 0 => q[n] = NewLine
  <2>1. (m # 0 => p # <<>>) /\ (n # 0 => q # <<>>)
    BY <1>1
  <2> QED
    BY <2>1 DEF Apart
<1>4. /\ \A i \in 1..m : (i = 1 \/ p[i - 1] = NewLine) => p[i] # Key[f]
      /\ \A i \in 1..n : (i = 1 \/ q[i - 1] = NewLine) => q[i] # Key[f]
  BY DEF Apart
<1> HIDE DEF t, m, n
<1>5. ASSUME m + n # 0 PROVE t[m + n] = NewLine
  <2>1. CASE n = 0
    <3>1. m + n \in 1..(m + n) /\ m + n <= m /\ m + n = m /\ m # 0
      BY <1>1, <1>5, <2>1
    <3> QED
      BY <1>2, <1>3, <3>1
  <2>2. CASE n # 0
    <3>1. m + n \in 1..(m + n) /\ ~(m + n <= m) /\ (m + n) - m = n
      BY <1>1, <2>2
    <3> QED
      BY <1>2, <1>3, <2>2, <3>1
  <2> QED
    BY <2>1, <2>2
<1>6. ASSUME NEW i \in 1..(m + n), i = 1 \/ t[i - 1] = NewLine PROVE t[i] # Key[f]
  <2>1. CASE i <= m
    <3>1. i \in 1..m /\ t[i] = p[i]
      BY <1>1, <1>2, <2>1
    <3>2. i # 1 => t[i - 1] = p[i - 1]
      <4>1. i # 1 => i - 1 \in 1..(m + n) /\ i - 1 <= m
        BY <1>1, <2>1
      <4> QED
        BY <1>2, <4>1
    <3> QED
      BY <1>4, <1>6, <3>1, <3>2
  <2>2. CASE i > m
    <3>1. i - m \in 1..n /\ ~(i <= m)
      BY <1>1, <2>2
    <3>2. t[i] = q[i - m]
      BY <1>2, <3>1
    <3>3. i - m # 1 => t[i - 1] = q[(i - m) - 1] /\ i # 1
      <4>1. i - m # 1 => i - 1 \in 1..(m + n) /\ ~(i - 1 <= m) /\ (i - 1) - m = (i - m) - 1 /\ i # 1
        BY <1>1, <2>2
      <4> QED
        BY <1>2, <4>1
    <3> QED
      BY <1>4, <1>6, <3>1, <3>2, <3>3
  <2> QED
    BY <1>1, <2>1, <2>2
<1>7. t # <<>> => m + n # 0
  BY <1>1, <1>2
<1> QED
  BY <1>2, <1>5, <1>6, <1>7 DEF Apart, t

\* Three pieces, one after the other.
Pieced(x, y, w) ==
    /\ (x \o y) \o w \in Seq(Nat)
    /\ Len(x) \in Nat /\ Len(y) \in Nat /\ Len(w) \in Nat
    /\ Len((x \o y) \o w) = (Len(x) + Len(y)) + Len(w)
    /\ \A i \in 1..Len(x) : ((x \o y) \o w)[i] = x[i]
    /\ \A i \in 1..Len(y) : ((x \o y) \o w)[Len(x) + i] = y[i]
    /\ \A i \in 1..Len(w) : ((x \o y) \o w)[(Len(x) + Len(y)) + i] = w[i]

\* Any three strings are such pieces.
LEMMA Three ==
    ASSUME NEW x \in Seq(Nat), NEW y \in Seq(Nat), NEW w \in Seq(Nat)
    PROVE  Pieced(x, y, w)
<1> DEFINE a == Len(x)
           b == Len(y)
           c == Len(w)
           xy == x \o y
           t == xy \o w
<1>0. a \in Nat /\ b \in Nat /\ c \in Nat
  OBVIOUS
<1>1. xy \in Seq(Nat) /\ Len(xy) = a + b /\ \A i \in 1..(a + b) : xy[i] = IF i <= a THEN x[i] ELSE y[i - a]
  BY ConcatProperties
<1> HIDE DEF xy
<1>2. /\ t \in Seq(Nat) /\ Len(t) = (a + b) + c
      /\ \A i \in 1..((a + b) + c) : t[i] = IF i <= a + b THEN xy[i] ELSE w[i - (a + b)]
  <2>1. /\ t \in Seq(Nat) /\ Len(t) = Len(xy) + Len(w)
        /\ \A i \in 1..(Len(xy) + Len(w)) : t[i] = IF i <= Len(xy) THEN xy[i] ELSE w[i - Len(xy)]
    <3>1. xy \in Seq(Nat) /\ w \in Seq(Nat)
      BY <1>1
    <3> QED
      BY <3>1, ConcatProperties
  <2> QED
    BY <1>1, <2>1
<1> HIDE DEF t, a, b, c
<1>3. ASSUME NEW i \in 1..a PROVE t[i] = x[i]
  <2>1. i \in 1..((a + b) + c) /\ i <= a + b /\ i \in 1..(a + b) /\ i <= a
    BY <1>0
  <2> QED
    BY <1>1, <1>2, <2>1
<1>4. ASSUME NEW i \in 1..b PROVE t[a + i] = y[i]
  <2>1. a + i \in 1..((a + b) + c) /\ a + i <= a + b /\ a + i \in 1..(a + b) /\ ~(a + i <= a)
        /\ (a + i) - a = i
    BY <1>0
  <2> QED
    BY <1>1, <1>2, <2>1
<1>5. ASSUME NEW i \in 1..c PROVE t[(a + b) + i] = w[i]
  <2>1. (a + b) + i \in 1..((a + b) + c) /\ ~((a + b) + i <= a + b) /\ ((a + b) + i) - (a + b) = i
    BY <1>0
  <2> QED
    BY <1>2, <2>1
<1> QED
  BY <1>0, <1>2, <1>3, <1>4, <1>5 DEF Pieced, a, b, c, t, xy

\* The field of a line is read from that line, whatever lines are before and
\* after it, if none of them is its own.
LEMMA FieldOnItsLine ==
    ASSUME NEW f \in Fields, NEW v, NEW p, NEW q, Plain(v), Apart(p, f), Apart(q, f)
    PROVE  FieldOf((p \o Line(f, v)) \o q, f) = v
<1> DEFINE l == Line(f, v)
           t == (p \o l) \o q
           a == Len(p)
           n == Len(v)
           c == Len(q)
           z == a + (n + 3)
           starts == {i \in DOMAIN t : /\ i = 1 \/ t[i - 1] = NewLine
                                       /\ i < Len(t) /\ t[i] = Key[f]
                                       /\ t[i + 1] = Equals}
           from   == Max(starts) + 2
           ends   == {e \in from..Len(t) : t[e] = NewLine}
           value  == SubSeq(t, from, (IF ends = {} THEN Len(t) + 1 ELSE Min(ends)) - 1)
<1>1. /\ l \in Seq(Nat) /\ n \in Nat /\ Len(l) = n + 3
      /\ l[1] = Key[f] /\ l[2] = Equals /\ l[n + 3] = NewLine
      /\ \A i \in 1..n : l[i + 2] = v[i]
  BY LineFacts
<1>2. p \in Seq(Nat) /\ q \in Seq(Nat)
  BY DEF Apart
<1>3. FieldOf(t, f) = IF starts = {} THEN <<>>
                      ELSE IF ends # {} /\ value # <<>> /\ Last(value) = Return THEN Front(value)
                      ELSE value
  BY Zenon DEF FieldOf
<1> HIDE DEF l
<1>4. /\ t \in Seq(Nat) /\ a \in Nat /\ c \in Nat /\ Len(t) = z + c
      /\ \A i \in 1..a : t[i] = p[i]
      /\ \A i \in 1..(n + 3) : t[a + i] = l[i]
      /\ \A i \in 1..c : t[z + i] = q[i]
  <2>1. p \in Seq(Nat) /\ l \in Seq(Nat) /\ q \in Seq(Nat)
    BY <1>1, <1>2
  <2>2. /\ (p \o l) \o q \in Seq(Nat) /\ Len(p) \in Nat /\ Len(q) \in Nat
        /\ Len((p \o l) \o q) = (Len(p) + Len(l)) + Len(q)
        /\ \A i \in 1..Len(p) : ((p \o l) \o q)[i] = p[i]
        /\ \A i \in 1..Len(l) : ((p \o l) \o q)[Len(p) + i] = l[i]
        /\ \A i \in 1..Len(q) : ((p \o l) \o q)[(Len(p) + Len(l)) + i] = q[i]
    <3>1. Pieced(p, l, q)
      BY <2>1, Three, Zenon
    <3> QED
      BY <3>1, Zenon DEF Pieced
  <2> HIDE DEF n
  <2> QED
    BY <1>1, <2>2
<1> HIDE DEF t
<1>41. a \in Nat /\ n \in Nat /\ c \in Nat
  BY <1>1, <1>4
<1>5. DOMAIN t = 1..(z + c) /\ z \in Nat
  BY <1>1, <1>4
<1>6. v \in Seq(Nat) /\ \A i \in 1..n : v[i] # NewLine /\ v[i] # Return
  BY DEF Plain
<1>7. /\ a # 0 => p[a] = NewLine
      /\ \A i \in 1..a : (i = 1 \/ p[i - 1] = NewLine) => p[i] # Key[f]
      /\ \A i \in 1..c : (i = 1 \/ q[i - 1] = NewLine) => q[i] # Key[f]
  <2>1. a # 0 => p # <<>>
    BY <1>2
  <2> QED
    BY <2>1 DEF Apart
<1> HIDE DEF a, n, c
<1>8. \A i \in 1..(n + 2) : t[a + i] # NewLine
  <2> SUFFICES ASSUME NEW i \in 1..(n + 2) PROVE t[a + i] # NewLine
    OBVIOUS
  <2>0. t[a + i] = l[i]
    <3>1. i \in 1..(n + 3)
      BY <1>1
    <3> QED
      BY <1>4, <3>1
  <2>1. CASE i = 1
    BY <1>1, <2>0, <2>1, KeyFacts
  <2>2. CASE i = 2
    BY <1>1, <2>0, <2>2 DEF Equals, NewLine
  <2>3. CASE i > 2
    <3>1. i - 2 \in 1..n /\ (i - 2) + 2 = i
      BY <1>1, <2>3
    <3>2. l[i] = v[i - 2]
      BY <1>1, <3>1
    <3> QED
      BY <1>6, <2>0, <3>1, <3>2
  <2> QED
    BY <1>1, <2>1, <2>2, <2>3
<1>9. a + 1 \in starts
  <2>1. a + 1 \in DOMAIN t /\ a + 1 < Len(t) /\ 1 \in 1..(n + 3) /\ 2 \in 1..(n + 3)
    BY <1>1, <1>4, <1>5
  <2>2. t[a + 1] = Key[f] /\ t[(a + 1) + 1] = Equals
    <3>1. t[a + 2] = Equals /\ (a + 1) + 1 = a + 2
      BY <1>1, <1>4, <2>1
    <3> QED
      BY <1>1, <1>4, <2>1, <3>1
  <2>3. a + 1 = 1 \/ t[(a + 1) - 1] = NewLine
    <3>1. CASE a = 0
      BY <3>1
    <3>2. CASE a # 0
      <4>1. a \in 1..a /\ (a + 1) - 1 = a
        BY <1>4, <3>2
      <4> QED
        BY <1>4, <1>7, <3>2, <4>1
    <3> QED
      BY <3>1, <3>2
  <2> QED
    BY <2>1, <2>2, <2>3
<1>10. ASSUME NEW i \in starts PROVE i = a + 1
  <2> SUFFICES ASSUME i # a + 1 PROVE FALSE
    OBVIOUS
  <2>0. i \in 1..(z + c) /\ (i = 1 \/ t[i - 1] = NewLine) /\ t[i] = Key[f]
    BY <1>5
  <2> HIDE DEF starts
  <2>1. CASE i <= a
    <3>1. i \in 1..a /\ (i # 1 => i - 1 \in 1..a)
      BY <1>4, <2>0, <2>1
    <3>2. t[i] = p[i] /\ (i # 1 => t[i - 1] = p[i - 1])
      BY <1>4, <3>1
    <3> QED
      BY <1>7, <2>0, <3>1, <3>2
  <2>2. CASE a < i /\ i <= z
    <3>1. (i - a) - 1 \in 1..(n + 2) /\ a + ((i - a) - 1) = i - 1 /\ i # 1
      <4>1. i \in Nat /\ a \in Nat /\ n \in Nat /\ a + 1 < i /\ i <= a + (n + 3)
        BY <1>41, <1>5, <2>0, <2>2
      <4> QED
        BY <4>1
    <3>2. t[i - 1] # NewLine
      BY <1>8, <3>1
    <3> QED
      BY <2>0, <3>1, <3>2
  <2>3. CASE z < i
    <3>1. i - z \in 1..c /\ z + (i - z) = i /\ (i - z # 1 => (i - z) - 1 \in 1..c)
          /\ z + ((i - z) - 1) = i - 1
      <4>1. i \in Nat /\ z \in Nat /\ c \in Nat /\ z < i /\ i <= z + c
        BY <1>4, <1>5, <2>0, <2>3
      <4> HIDE DEF z
      <4> QED
        BY <4>1
    <3>2. t[i] = q[i - z] /\ (i - z # 1 => t[i - 1] = q[(i - z) - 1])
      BY <1>4, <3>1
    <3>3. i # 1
      BY <1>1, <1>4, <2>3
    <3> HIDE DEF z
    <3> QED
      BY <1>7, <2>0, <3>1, <3>2, <3>3
  <2> QED
    BY <1>4, <1>5, <2>0, <2>1, <2>2, <2>3
<1>11. from = a + 3
  <2>1. starts = {a + 1}
    BY <1>9, <1>10
  <2> HIDE DEF starts
  <2>2. a + 1 \in Nat /\ \A y \in {a + 1} : a + 1 >= y
    BY <1>4
  <2>3. Max({a + 1}) = a + 1
    <3> DEFINE T == {a + 1}
               m == a + 1
    <3>1. T \in SUBSET Nat /\ m \in T /\ \A y \in T : m >= y
      BY <2>2
    <3> HIDE DEF T, m
    <3>2. Max(T) = m
      BY <3>1, MaxIs
    <3> QED
      BY <3>2 DEF T, m
  <2>4. (a + 1) + 2 = a + 3
    BY <1>4
  <2> QED
    BY <2>1, <2>3, <2>4
<1>12. ends # {} /\ Min(ends) = z
  <2>1. ends = {e \in (a + 3)..(z + c) : t[e] = NewLine}
    BY <1>4, <1>11
  <2>2. z \in ends
    <3>1. z \in (a + 3)..(z + c) /\ n + 3 \in 1..(n + 3)
      BY <1>1, <1>4, <1>5
    <3>2. t[z] = NewLine
      BY <1>1, <1>4, <3>1
    <3> HIDE DEF z
    <3> QED
      BY <2>1, <3>1, <3>2
  <2>3. ASSUME NEW y \in ends PROVE z <= y
    <3> SUFFICES ASSUME ~(z <= y) PROVE FALSE
      OBVIOUS
    <3>1. y \in (a + 3)..(z + c) /\ t[y] = NewLine
      BY <2>1
    <3>2. y - a \in 1..(n + 2) /\ a + (y - a) = y
      BY <1>1, <1>4, <3>1
    <3> QED
      BY <1>8, <3>1, <3>2
  <2>4. ends \in SUBSET Nat
    <3>1. \A e \in (a + 3)..(z + c) : e \in Nat
      BY <1>4
    <3> QED
      BY <2>1, <3>1
  <2> HIDE DEF ends, z
  <2> QED
    BY <2>2, <2>3, <2>4, MinIs
<1>13. value = v
  <2>1. value = SubSeq(t, a + 3, z - 1)
    BY <1>11, <1>12, Zenon
  <2>2. a + 3 = (a + 2) + 1 /\ a + 2 \in Nat /\ z - 1 \in Nat /\ a + 2 <= z - 1 /\ z - 1 <= Len(t)
        /\ (z - 1) - (a + 2) = n
    BY <1>1, <1>4
  <2> DEFINE i == a + 2
             j == z - 1
  <2>3. i \in Nat /\ j \in Nat /\ i <= j /\ j <= Len(t) /\ j - i = n
    BY <2>2
  <2>4. value = SubSeq(t, i + 1, j)
    BY <2>1, <2>2
  <2>5. i = a + 2
    OBVIOUS
  <2> HIDE DEF i, j, z, value
  <2>6. value \in Seq(Nat) /\ Len(value) = n /\ \A k \in 1..n : value[k] = t[i + k]
    <3>1. t \in Seq(Nat)
      BY <1>4, Zenon
    <3>2. /\ SubSeq(t, i + 1, j) \in Seq(Nat) /\ Len(SubSeq(t, i + 1, j)) = j - i
          /\ \A k \in 1..(j - i) : SubSeq(t, i + 1, j)[k] = t[i + k]
      BY <2>3, <3>1, Part, SMTT(40)
    <3> QED
      BY <2>3, <2>4, <3>2, Zenon
  <2>7. ASSUME NEW k \in 1..n PROVE value[k] = v[k]
    <3>1. k + 2 \in 1..(n + 3) /\ i + k = a + (k + 2)
      BY <1>41, <2>5
    <3>2. t[i + k] = l[k + 2]
      BY <1>4, <3>1
    <3> QED
      BY <1>1, <2>6, <3>2
  <2>8. Len(v) = n
    BY DEF n
  <2> QED
    BY <1>6, <2>6, <2>7, <2>8, SeqEqual
<1>14. value # <<>> => Last(value) # Return
  <2>1. ASSUME v # <<>> PROVE v[Len(v)] # Return
    <3>1. n \in 1..n
      BY <1>1, <1>6, <2>1 DEF n
    <3> QED
      BY <1>6, <3>1 DEF n
  <2> HIDE DEF value
  <2> QED
    BY <1>13, <2>1 DEF Last
<1>15. starts # {}
  BY <1>9
<1> HIDE DEF starts, ends, value
<1> QED
  BY <1>3, <1>12, <1>13, <1>14, <1>15 DEF t, l

\* A text on one line has no line break, and is as long.
LEMMA OneLinePlain ==
    ASSUME NEW s \in Seq(Nat)
    PROVE  /\ Plain(OneLine(s)) /\ Len(OneLine(s)) = Len(s)
           /\ \A j \in 1..Len(s) : OneLine(s)[j] = s[j] \/ s[j] \in {NewLine, Return}
<1> DEFINE n == Len(s)
           o == [i \in 1..n |-> IF s[i] \in {NewLine, Return} THEN Space ELSE s[i]]
<1>1. OneLine(s) = o /\ n \in Nat
  BY DEF OneLine
<1>2. \A i \in 1..n : s[i] \in Nat
  OBVIOUS
<1>3. \A i \in 1..n : (IF s[i] \in {NewLine, Return} THEN Space ELSE s[i]) \in Nat
  BY <1>2 DEF Space
<1>4. o \in Seq(Nat) /\ Len(o) = n
  BY <1>1, <1>3
<1>5. \A i \in 1..n : o[i] # NewLine /\ o[i] # Return /\ (o[i] = s[i] \/ s[i] \in {NewLine, Return})
  BY DEF Space, NewLine, Return
<1> HIDE DEF o
<1> QED
  BY <1>1, <1>4, <1>5 DEF Plain

\* Three strings make the same one whichever two are put together first.
Associates(s, t, u) == (s \o t) \o u = s \o (t \o u)

\* Any three do.
LEMMA Associative ==
    \A s \in Seq(Nat), t \in Seq(Nat), u \in Seq(Nat) : Associates(s, t, u)
<1>1. ASSUME NEW s \in Seq(Nat), NEW t \in Seq(Nat), NEW u \in Seq(Nat)
      PROVE  Associates(s, t, u)
  <2>1. (s \o t) \o u = s \o (t \o u)
    BY ConcatAssociative, SMTT(40)
  <2> QED
    BY <2>1, Zenon DEF Associates
<1> QED
  BY <1>1, Zenon

\* Nor does it with four of them.
Regroups(a, b, c, d) == ((a \o b) \o c) \o d = a \o ((b \o c) \o d)

\* Any four strings can be put together so.
LEMMA AssociativeTwice ==
    ASSUME NEW a \in Seq(Nat), NEW b \in Seq(Nat), NEW c \in Seq(Nat), NEW d \in Seq(Nat)
    PROVE  Regroups(a, b, c, d)
<1>1. b \o c \in Seq(Nat)
  OBVIOUS
<1>2. (a \o (b \o c)) \o d = a \o ((b \o c) \o d)
  <2>1. Associates(a, b \o c, d)
    BY <1>1, Associative, Zenon
  <2> QED
    BY <2>1, Zenon DEF Associates
<1>3. (a \o b) \o c = a \o (b \o c)
  <2>1. Associates(a, b, c)
    BY Associative, Zenon
  <2> QED
    BY <2>1, Zenon DEF Associates
<1> QED
  BY <1>2, <1>3 DEF Regroups

\* Six strings, split after each of them but the first.
Regrouped(x1, x2, x3, x4, x5, x6) ==
    LET t == ((((x1 \o x2) \o x3) \o x4) \o x5) \o x6 IN
    /\ t = (x1 \o x2) \o (((x3 \o x4) \o x5) \o x6)
    /\ t = ((x1 \o x2) \o x3) \o ((x4 \o x5) \o x6)
    /\ t = (((x1 \o x2) \o x3) \o x4) \o (x5 \o x6)
    /\ t = (((((x1 \o x2) \o x3) \o x4) \o x5) \o x6) \o <<>>

\* Any six strings can be.
LEMMA Regroup ==
    ASSUME NEW x1 \in Seq(Nat), NEW x2 \in Seq(Nat), NEW x3 \in Seq(Nat),
           NEW x4 \in Seq(Nat), NEW x5 \in Seq(Nat), NEW x6 \in Seq(Nat)
    PROVE  Regrouped(x1, x2, x3, x4, x5, x6)
<1> DEFINE p2 == x1 \o x2
           p3 == p2 \o x3
           p4 == p3 \o x4
           p5 == p4 \o x5
           t == p5 \o x6
<1>1. p2 \in Seq(Nat)
  BY ConcatProperties
<1> HIDE DEF p2
<1>2. p3 \in Seq(Nat)
  BY <1>1, ConcatProperties
<1> HIDE DEF p3
<1>3. p4 \in Seq(Nat)
  BY <1>2, ConcatProperties
<1> HIDE DEF p4
<1>4. p5 \in Seq(Nat)
  BY <1>3, ConcatProperties
<1> HIDE DEF p5
<1>5. t \in Seq(Nat)
  BY <1>4, ConcatProperties
<1>6. t = t \o <<>>
  <2> HIDE DEF t
  <2> QED
    BY <1>5, ConcatEmptySeq
<1>7. t = p4 \o (x5 \o x6) /\ x5 \o x6 \in Seq(Nat)
  <2>1. (p4 \o x5) \o x6 = p4 \o (x5 \o x6)
    <3>1. Associates(p4, x5, x6)
      BY <1>3, Associative, Zenon
    <3> QED
      BY <3>1, Zenon DEF Associates
  <2> QED
    BY <2>1, ConcatProperties DEF p5
<1>8. t = p3 \o ((x4 \o x5) \o x6) /\ (x4 \o x5) \o x6 \in Seq(Nat)
  <2>1. x4 \o x5 \in Seq(Nat) /\ x5 \o x6 \in Seq(Nat)
    BY ConcatProperties
  <2>2. (p3 \o x4) \o (x5 \o x6) = p3 \o (x4 \o (x5 \o x6))
    <3>1. Associates(p3, x4, x5 \o x6)
      BY <1>2, <2>1, Associative, Zenon
    <3> QED
      BY <3>1, Zenon DEF Associates
  <2>3. (x4 \o x5) \o x6 = x4 \o (x5 \o x6)
    <3>1. Associates(x4, x5, x6)
      BY Associative, Zenon
    <3> QED
      BY <3>1, Zenon DEF Associates
  <2>4. (x4 \o x5) \o x6 \in Seq(Nat)
    BY <2>1, ConcatProperties
  <2> QED
    BY <1>7, <2>2, <2>3, <2>4 DEF p4
<1>9. t = p2 \o (((x3 \o x4) \o x5) \o x6)
  <2>0. x3 \o x4 \in Seq(Nat) /\ x4 \o x5 \in Seq(Nat)
    BY ConcatProperties
  <2>1. (p2 \o x3) \o ((x4 \o x5) \o x6) = p2 \o (x3 \o ((x4 \o x5) \o x6))
    <3>1. Associates(p2, x3, (x4 \o x5) \o x6)
      BY <1>1, <1>8, Associative, Zenon
    <3> QED
      BY <3>1, Zenon DEF Associates
  <2>2. ((x3 \o x4) \o x5) \o x6 = x3 \o ((x4 \o x5) \o x6)
    <3>1. Regroups(x3, x4, x5, x6)
      BY AssociativeTwice
    <3> QED
      BY <3>1, Zenon DEF Regroups
  <2> QED
    BY <1>8, <2>1, <2>2 DEF p3
<1> QED
  BY <1>6, <1>7, <1>8, <1>9 DEF Regrouped, p2, p3, p4, p5

\* The status s, written: every field but the version is read back.
LEMMA FieldsRead ==
    ASSUME NEW s, Plain(s.state), Plain(s.identity), Plain(s.updated),
           s.subject \in Seq(Nat), s.detail \in Seq(Nat)
    PROVE  /\ FieldOf(EncodeStatus(s), "state") = s.state
           /\ FieldOf(EncodeStatus(s), "identity") = s.identity
           /\ FieldOf(EncodeStatus(s), "subject") = OneLine(s.subject)
           /\ FieldOf(EncodeStatus(s), "detail") = OneLine(s.detail)
           /\ FieldOf(EncodeStatus(s), "updated") = s.updated
<1> DEFINE l1 == Line("version", <<13>>)
           l2 == Line("state", s.state)
           l3 == Line("identity", s.identity)
           l4 == Line("subject", OneLine(s.subject))
           l5 == Line("detail", OneLine(s.detail))
           l6 == Line("updated", s.updated)
           q2 == ((l3 \o l4) \o l5) \o l6
           q3 == (l4 \o l5) \o l6
           q4 == l5 \o l6
           p3 == l1 \o l2
           p4 == p3 \o l3
           p5 == p4 \o l4
           p6 == p5 \o l5
           t == p6 \o l6
<1>0. Plain(<<13>>) /\ Plain(OneLine(s.subject)) /\ Plain(OneLine(s.detail))
  <2>1. Plain(<<13>>)
    BY DEF Plain, NewLine, Return
  <2> QED
    BY <2>1, OneLinePlain
<1>1. EncodeStatus(s) = t
  BY DEF EncodeStatus
<1>2. /\ "version" \in Fields /\ "state" \in Fields /\ "identity" \in Fields /\ "subject" \in Fields
      /\ "detail" \in Fields /\ "updated" \in Fields
  BY DEF Fields
<1>3. /\ l1 \in Seq(Nat) /\ l2 \in Seq(Nat) /\ l3 \in Seq(Nat) /\ l4 \in Seq(Nat) /\ l5 \in Seq(Nat)
      /\ l6 \in Seq(Nat)
  BY <1>0, <1>2, LineFacts
<1>4. /\ \A g \in Fields : g # "version" => Apart(l1, g)
      /\ \A g \in Fields : g # "state" => Apart(l2, g)
      /\ \A g \in Fields : g # "identity" => Apart(l3, g)
      /\ \A g \in Fields : g # "subject" => Apart(l4, g)
      /\ \A g \in Fields : g # "detail" => Apart(l5, g)
      /\ \A g \in Fields : g # "updated" => Apart(l6, g)
  BY <1>0, <1>2, LineApart
<1>5. \A g \in Fields : Apart(<<>>, g)
  BY DEF Apart
<1> HIDE DEF l1, l2, l3, l4, l5, l6
<1>6. /\ t = (l1 \o l2) \o q2
      /\ t = (p3 \o l3) \o q3
      /\ t = (p4 \o l4) \o q4
      /\ t = (p5 \o l5) \o l6
      /\ t = (p6 \o l6) \o <<>>
  <2>1. Regrouped(l1, l2, l3, l4, l5, l6)
    BY <1>3, Regroup
  <2> QED
    BY <2>1, Zenon DEF Regrouped
<1>7. \A g \in Fields : g \notin {"version", "state"} => Apart(p3, g)
  BY <1>4, ApartConcat
<1> HIDE DEF p3
<1>8. \A g \in Fields : g \notin {"version", "state", "identity"} => Apart(p4, g)
  BY <1>4, <1>7, ApartConcat
<1> HIDE DEF p4
<1>9. \A g \in Fields : g \notin {"version", "state", "identity", "subject"} => Apart(p5, g)
  BY <1>4, <1>8, ApartConcat
<1> HIDE DEF p5
<1>10. \A g \in Fields : g \notin {"version", "state", "identity", "subject", "detail"} => Apart(p6, g)
  BY <1>4, <1>9, ApartConcat
<1> HIDE DEF p6, t
<1>11. \A g \in Fields : g \notin {"detail", "updated"} => Apart(q4, g)
  BY <1>4, ApartConcat
<1>12. \A g \in Fields : g \notin {"subject", "detail", "updated"} => Apart(q3, g)
  <2> DEFINE x == l4 \o l5
  <2>1. \A g \in Fields : g \notin {"subject", "detail", "updated"} => Apart(x, g)
    BY <1>4, ApartConcat
  <2> HIDE DEF x
  <2>2. \A g \in Fields : g \notin {"subject", "detail", "updated"} => Apart(x \o l6, g)
    BY <1>4, <2>1, ApartConcat
  <2> QED
    BY <2>2 DEF x
<1>13. \A g \in Fields : g \notin {"identity", "subject", "detail", "updated"} => Apart(q2, g)
  <2> DEFINE x == l3 \o l4
             y == x \o l5
  <2>1. \A g \in Fields : g \notin {"identity", "subject", "detail", "updated"} => Apart(x, g)
    BY <1>4, ApartConcat
  <2> HIDE DEF x
  <2>2. \A g \in Fields : g \notin {"identity", "subject", "detail", "updated"} => Apart(y, g)
    BY <1>4, <2>1, ApartConcat
  <2> HIDE DEF y
  <2>3. \A g \in Fields : g \notin {"identity", "subject", "detail", "updated"} => Apart(y \o l6, g)
    BY <1>4, <2>2, ApartConcat
  <2> QED
    BY <2>3 DEF x, y
<1> HIDE DEF q2, q3, q4
<1>14. FieldOf(t, "state") = s.state
  <2>1. Apart(l1, "state") /\ Apart(q2, "state")
    BY <1>2, <1>4, <1>13
  <2>2. FieldOf((l1 \o Line("state", s.state)) \o q2, "state") = s.state
    BY <1>2, <2>1, FieldOnItsLine
  <2> QED
    BY <1>6, <2>2 DEF l2
<1>15. FieldOf(t, "identity") = s.identity
  <2>1. Apart(p3, "identity") /\ Apart(q3, "identity")
    BY <1>2, <1>7, <1>12
  <2>2. FieldOf((p3 \o Line("identity", s.identity)) \o q3, "identity") = s.identity
    BY <1>2, <2>1, FieldOnItsLine
  <2> QED
    BY <1>6, <2>2 DEF l3
<1>16. FieldOf(t, "subject") = OneLine(s.subject)
  <2>1. Apart(p4, "subject") /\ Apart(q4, "subject")
    BY <1>2, <1>8, <1>11
  <2>2. FieldOf((p4 \o Line("subject", OneLine(s.subject))) \o q4, "subject") = OneLine(s.subject)
    BY <1>0, <1>2, <2>1, FieldOnItsLine
  <2> QED
    BY <1>6, <2>2 DEF l4
<1>17. FieldOf(t, "detail") = OneLine(s.detail)
  <2>1. Apart(p5, "detail") /\ Apart(l6, "detail")
    BY <1>2, <1>4, <1>9
  <2>2. FieldOf((p5 \o Line("detail", OneLine(s.detail))) \o l6, "detail") = OneLine(s.detail)
    BY <1>0, <1>2, <2>1, FieldOnItsLine
  <2> QED
    BY <1>6, <2>2 DEF l5
<1>18. FieldOf(t, "updated") = s.updated
  <2>1. Apart(p6, "updated") /\ Apart(<<>>, "updated")
    BY <1>2, <1>5, <1>10
  <2>2. FieldOf((p6 \o Line("updated", s.updated)) \o <<>>, "updated") = s.updated
    BY <1>2, <2>1, FieldOnItsLine
  <2> QED
    BY <1>6, <2>2 DEF l6
<1> QED
  BY <1>1, <1>14, <1>15, <1>16, <1>17, <1>18

\* A status is read as it was, line breaks apart.
LEMMA StatusRead ==
    ASSUME NEW x \in Seq(Nat), NEW y \in Seq(Nat)
    PROVE  LET s == [state |-> <<10>>, identity |-> <<13>>, subject |-> x, detail |-> y,
                     updated |-> <<13>>] IN
           [state |-> <<10>>, identity |-> <<13>>, subject |-> OneLine(x), detail |-> OneLine(y),
            updated |-> <<13>>] \in DecodeStatus(EncodeStatus(s))
<1> DEFINE s == [state |-> <<10>>, identity |-> <<13>>, subject |-> x, detail |-> y, updated |-> <<13>>]
           text == EncodeStatus(s)
           read == [field \in DOMAIN Key \ {"version"} |-> FieldOf(text, field)]
           r == [state |-> <<10>>, identity |-> <<13>>, subject |-> OneLine(x), detail |-> OneLine(y),
                 updated |-> <<13>>]
<1>1. Plain(<<10>>) /\ Plain(<<13>>)
  BY DEF Plain, NewLine, Return
<1>2. s.state = <<10>> /\ s.identity = <<13>> /\ s.updated = <<13>> /\ s.subject = x /\ s.detail = y
  OBVIOUS
<1>3. /\ r.state = <<10>> /\ r.identity = <<13>> /\ r.updated = <<13>>
      /\ r.subject = OneLine(x) /\ r.detail = OneLine(y)
      /\ DOMAIN r = {"state", "identity", "subject", "detail", "updated"}
      /\ r = [field \in DOMAIN r |-> r[field]]
  OBVIOUS
<1> HIDE DEF s
<1>4. /\ FieldOf(text, "state") = <<10>> /\ FieldOf(text, "identity") = <<13>>
      /\ FieldOf(text, "subject") = OneLine(x) /\ FieldOf(text, "detail") = OneLine(y)
      /\ FieldOf(text, "updated") = <<13>>
  <2>1. /\ Plain(s.state) /\ Plain(s.identity) /\ Plain(s.updated)
        /\ s.subject \in Seq(Nat) /\ s.detail \in Seq(Nat)
    BY <1>1, <1>2
  <2>2. /\ FieldOf(EncodeStatus(s), "state") = s.state
        /\ FieldOf(EncodeStatus(s), "identity") = s.identity
        /\ FieldOf(EncodeStatus(s), "subject") = OneLine(s.subject)
        /\ FieldOf(EncodeStatus(s), "detail") = OneLine(s.detail)
        /\ FieldOf(EncodeStatus(s), "updated") = s.updated
    BY <2>1, FieldsRead
  <2> QED
    BY <1>2, <2>2
<1> HIDE DEF text
<1>5. DOMAIN Key \ {"version"} = {"state", "identity", "subject", "detail", "updated"}
  BY KeyFacts DEF Fields
<1>6. read = r
  <2> HIDE DEF r
  <2>1. \A field \in DOMAIN r : FieldOf(text, field) = r[field]
    BY <1>3, <1>4
  <2>2. read = [field \in DOMAIN r |-> FieldOf(text, field)]
    BY <1>3, <1>5
  <2> QED
    BY <1>3, <2>1, <2>2
<1>7. DecodeStatus(text) =
        IF read.state \in StateTokens /\ read.identity \in IdentityTokens
        THEN {[read EXCEPT !.updated = IF @ \in Numbers THEN @ ELSE Zero]} ELSE {}
  BY Zenon DEF DecodeStatus
<1> HIDE DEF read
<1>8. read.state \in StateTokens /\ read.identity \in IdentityTokens /\ read.updated \in Numbers
  BY <1>6 DEF StateTokens, IdentityTokens, Numbers
<1>9. [read EXCEPT !.updated = IF @ \in Numbers THEN @ ELSE Zero] = read
  <2>1. r = [r EXCEPT !.updated = IF @ \in Numbers THEN @ ELSE Zero]
    BY DEF Numbers
  <2> HIDE DEF r
  <2> QED
    BY <1>6, <2>1
<1>10. read \in DecodeStatus(text)
  BY <1>7, <1>8, <1>9
<1> HIDE DEF r
<1> QED
  BY <1>6, <1>10 DEF s, text, r

\* Whatever the texts of the status are, the fields stay apart.
LEMMA FieldsStayApart == ReaderInv => StatusFieldsStayApart
<1> SUFFICES ASSUME ReaderInv, NEW i \in 0..Len(buf)
    PROVE  LET s == [state |-> <<10>>, identity |-> <<13>>, subject |-> SubSeq(buf, 1, i),
                     detail |-> From(buf, i), updated |-> <<13>>] IN
           \E t \in DecodeStatus(EncodeStatus(s)) :
            /\ \A field \in DOMAIN s \ Texts : t[field] = s[field]
            /\ \A field \in Texts :
                  /\ Len(t[field]) = Len(s[field])
                  /\ \A j \in DOMAIN s[field] :
                        t[field][j] = s[field][j] \/ s[field][j] \in {NewLine, Return}
  BY Zenon DEF StatusFieldsStayApart
<1> DEFINE x == SubSeq(buf, 1, i)
           y == From(buf, i)
           s == [state |-> <<10>>, identity |-> <<13>>, subject |-> x, detail |-> y, updated |-> <<13>>]
           t == [state |-> <<10>>, identity |-> <<13>>, subject |-> OneLine(x), detail |-> OneLine(y),
                 updated |-> <<13>>]
<1>0. buf \in Seq(Nat) /\ Len(buf) \in Nat /\ i \in Nat /\ i <= Len(buf)
  BY OctetSeq DEF ReaderInv, ReaderType
<1>1. x \in Seq(Nat)
  <2>1. 0 + 1 = 1 /\ 0 <= i /\ 0 \in Nat
    BY <1>0
  <2>2. SubSeq(buf, 0 + 1, i) \in Seq(Nat)
    BY <1>0, <2>1, Part
  <2> QED
    BY <2>1, <2>2
<1>2. y \in Seq(Nat)
  <2>1. Len(buf) <= Len(buf)
    BY <1>0
  <2>2. SubSeq(buf, i + 1, Len(buf)) \in Seq(Nat)
    BY <1>0, <2>1, Part
  <2> QED
    BY <2>2 DEF From
<1> HIDE DEF x, y
<1>3. t \in DecodeStatus(EncodeStatus(s))
  BY <1>1, <1>2, StatusRead
<1>4. \A field \in DOMAIN s \ Texts : t[field] = s[field]
  BY DEF Texts
<1>5. /\ Len(OneLine(x)) = Len(x) /\ Len(OneLine(y)) = Len(y)
      /\ \A j \in DOMAIN x : OneLine(x)[j] = x[j] \/ x[j] \in {NewLine, Return}
      /\ \A j \in DOMAIN y : OneLine(y)[j] = y[j] \/ y[j] \in {NewLine, Return}
  <2>1. DOMAIN x = 1..Len(x) /\ DOMAIN y = 1..Len(y)
    BY <1>1, <1>2
  <2> QED
    BY <1>1, <1>2, <2>1, OneLinePlain
<1>6. t.subject = OneLine(x) /\ t.detail = OneLine(y) /\ s.subject = x /\ s.detail = y
  OBVIOUS
<1>7. ASSUME NEW field \in Texts
      PROVE  /\ Len(t[field]) = Len(s[field])
             /\ \A j \in DOMAIN s[field] :
                        t[field][j] = s[field][j] \/ s[field][j] \in {NewLine, Return}
  <2> HIDE DEF t, s
  <2>1. CASE field = "subject"
    BY <1>5, <1>6, <2>1
  <2>2. CASE field = "detail"
    BY <1>5, <1>6, <2>2
  <2> QED
    BY <2>1, <2>2 DEF Texts
<1> HIDE DEF t
<1>8. \E tt \in DecodeStatus(EncodeStatus(s)) :
            /\ \A field \in DOMAIN s \ Texts : tt[field] = s[field]
            /\ \A field \in Texts :
                  /\ Len(tt[field]) = Len(s[field])
                  /\ \A j \in DOMAIN s[field] :
                        tt[field][j] = s[field][j] \/ s[field][j] \in {NewLine, Return}
  <2> HIDE DEF s
  <2> QED
    BY <1>3, <1>4, <1>7
<1> QED
  BY <1>8 DEF x, y

\* For all texts, wherever the network or a certificate breaks their lines: the
\* reader of the published status sees every field as it was, and no text becomes
\* a field of its own (usg-status, lib.rs).
THEOREM ReaderStatusFieldsStayApart == Spec => []StatusFieldsStayApart
  BY ReaderInvariance, FieldsStayApart, PTL

-----------------------------------------------------------------------------
(* Numbers in a string, written as they were read.                          *)

\* The octets of a sequence after i.
LEMMA FromRest ==
    ASSUME NEW S, NEW s \in Seq(S), NEW i \in Nat, i <= Len(s)
    PROVE  /\ From(s, i) \in Seq(S) /\ Len(From(s, i)) = Len(s) - i
           /\ \A k \in 1..(Len(s) - i) : From(s, i)[k] = s[i + k]
<1>1. Len(s) \in Nat /\ Len(s) <= Len(s)
  OBVIOUS
<1> QED
  BY <1>1, Part DEF From

\* A number of two octets has two octets.
LEMMA BEInverse ==
    ASSUME NEW h \in Octet, NEW l \in Octet
    PROVE  Base * h + l \in 0..MaxValue /\ BE(Base * h + l) = <<h, l>>
<1>1. h \in Nat /\ l \in Nat /\ h <= Base - 1 /\ l <= Base - 1
  BY OctetNat, BaseFacts DEF Octet
<1>2. BE(Base * h + l) = <<h, l>> /\ Base * h + l \in Nat
  BY <1>1, BEOf
<1>3. Base * h + l <= MaxValue
  <2>1. Base * h <= Base * (Base - 1)
    BY <1>1, BaseFacts
  <2>2. Base * (Base - 1) = Base * Base - Base
    BY BaseFacts
  <2> QED
    BY <1>1, <1>2, <2>1, <2>2, BaseFacts DEF MaxValue
<1>4. MaxValue \in Nat
  BY BaseFacts DEF MaxValue
<1> QED
  BY <1>2, <1>3, <1>4

\* So have those of a string.
LEMMA TwoFrom ==
    ASSUME NEW s \in Seq(Octet), NEW i \in Nat, i + 2 <= Len(s)
    PROVE  /\ U16(s, i) \in 0..MaxValue
           /\ BE(U16(s, i)) = <<s[i + 1], s[i + 2]>>
           /\ BE(U16(s, i)) = SubSeq(s, i + 1, i + 2)
<1>1. s[i + 1] \in Octet /\ s[i + 2] \in Octet /\ U16(s, i) = Base * s[i + 1] + s[i + 2]
  BY U16Type
<1>2. U16(s, i) \in 0..MaxValue /\ BE(U16(s, i)) = <<s[i + 1], s[i + 2]>>
  <2> DEFINE x == s[i + 1]
             y == s[i + 2]
  <2>1. x \in Octet /\ y \in Octet /\ U16(s, i) = Base * x + y
    BY <1>1
  <2> HIDE DEF x, y
  <2>2. U16(s, i) \in 0..MaxValue /\ BE(U16(s, i)) = <<x, y>>
    BY <2>1, BEInverse
  <2> QED
    BY <2>2 DEF x, y
<1>3. SubSeq(s, i + 1, i + 2) = <<s[i + 1], s[i + 2]>>
  <2> DEFINE p == SubSeq(s, i + 1, i + 2)
             q == <<s[i + 1], s[i + 2]>>
             j == i + 2
  <2>1. j \in Nat /\ i <= j /\ j <= Len(s) /\ j - i = 2
    OBVIOUS
  <2>2. p \in Seq(Octet) /\ Len(p) = 2 /\ \A k \in 1..2 : p[k] = s[i + k]
    <3>1. p = SubSeq(s, i + 1, j)
      OBVIOUS
    <3> HIDE DEF j, p
    <3> QED
      BY <2>1, <3>1, Part
  <2>3. q \in Seq(Octet) /\ Len(q) = 2 /\ q[1] = s[i + 1] /\ q[2] = s[i + 2]
    BY <1>1
  <2> HIDE DEF p, q
  <2>4. \A k \in 1..2 : p[k] = q[k]
    <3>1. \A k \in 1..2 : k = 1 \/ k = 2
      OBVIOUS
    <3> QED
      BY <2>2, <2>3, <3>1
  <2>5. p = q
    BY <2>2, <2>3, <2>4, SeqEqual
  <2> QED
    BY <2>5 DEF p, q
<1> QED
  BY <1>2, <1>3

\* Two pieces of a string that meet.
LEMMA Meet ==
    ASSUME NEW S, NEW s \in Seq(S), NEW i \in Nat, NEW j \in Nat, NEW k \in Nat,
           i <= j, j <= k, k <= Len(s)
    PROVE  SubSeq(s, i + 1, j) \o SubSeq(s, j + 1, k) = SubSeq(s, i + 1, k)
<1> DEFINE m == i + 1
<1>1. m \in 1..(Len(s) + 1) /\ j \in (m - 1)..Len(s) /\ k \in j..Len(s)
  OBVIOUS
<1> HIDE DEF m
<1>2. SubSeq(s, m, j) \o SubSeq(s, j + 1, k) = SubSeq(s, m, k)
  BY <1>1, ConcatAdjacentSubSeq
<1> QED
  BY <1>2 DEF m

\* Numbers of four octets.
LEMMA U32Of ==
    ASSUME NEW s \in Seq(Octet), NEW i \in Nat, i + 4 <= Len(s)
    PROVE  U32(s, i) \in Nat /\ BE32(U32(s, i)) = SubSeq(s, i + 1, i + 4)
<1> DEFINE d == Base * Base
           h == U16(s, i)
           l == U16(s, i + 2)
           n == d * h + l
<1>1. h \in 0..MaxValue /\ BE(h) = SubSeq(s, i + 1, i + 2)
  <2>1. i + 2 <= Len(s)
    OBVIOUS
  <2> QED
    BY <2>1, TwoFrom
<1>2. l \in 0..MaxValue /\ BE(l) = SubSeq(s, i + 3, i + 4)
  <2>1. i + 2 \in Nat /\ (i + 2) + 2 <= Len(s) /\ (i + 2) + 1 = i + 3 /\ (i + 2) + 2 = i + 4
    OBVIOUS
  <2> QED
    BY <2>1, TwoFrom
<1>3. U32(s, i) = n
  BY DEF U32
<1> HIDE DEF h, l
<1>4. d \in Nat \ {0} /\ h \in Nat /\ l \in 0..(d - 1)
  BY <1>1, <1>2, BaseFacts DEF MaxValue
<1>5. n \in Nat /\ n \div d = h /\ n % d = l
  <2> HIDE DEF d
  <2>1. n \in Nat
    BY <1>4
  <2> HIDE DEF n
  <2>2. n = d * h + l
    BY DEF n
  <2> QED
    BY <1>4, <2>1, <2>2, DivMod
<1> HIDE DEF n
<1>6. BE32(n) = BE(h) \o BE(l)
  BY <1>5 DEF BE32
<1>7. SubSeq(s, i + 1, i + 2) \o SubSeq(s, i + 3, i + 4) = SubSeq(s, i + 1, i + 4)
  <2> DEFINE j == i + 2
             k == i + 4
  <2>1. j \in Nat /\ k \in Nat /\ i <= j /\ j <= k /\ k <= Len(s) /\ j + 1 = i + 3
    OBVIOUS
  <2> HIDE DEF j, k
  <2>2. SubSeq(s, i + 1, j) \o SubSeq(s, j + 1, k) = SubSeq(s, i + 1, k)
    BY <2>1, Meet
  <2>3. SubSeq(s, i + 1, j) \o SubSeq(s, i + 3, k) = SubSeq(s, i + 1, k)
    BY <2>1, <2>2
  <2> QED
    BY <2>3 DEF j, k
<1> QED
  BY <1>1, <1>2, <1>3, <1>5, <1>6, <1>7

-----------------------------------------------------------------------------
(* Sequences, one after the other, from the first on.                       *)

\* One sequence more, at the start.
LEMMA FlattenCons ==
    ASSUME NEW s \in Seq(Nat), NEW ss \in Seq(Seq(Nat))
    PROVE  FlattenSeq(<<s>> \o ss) = s \o FlattenSeq(ss) /\ FlattenSeq(ss) \in Seq(Nat)
<1> DEFINE Q == Seq(Nat)
           Good(rs) == FlattenSeq(<<s>> \o rs) = s \o FlattenSeq(rs)
           T == {n \in Nat : \A rs \in Seq(Q) : Len(rs) = n => Good(rs)}
<1>1. 0 \in T
  <2>1. ASSUME NEW rs \in Seq(Q), Len(rs) = 0 PROVE Good(rs)
    <3>1. rs = <<>>
      BY <2>1
    <3>2. <<s>> \o <<>> = Append(<<>>, s) /\ <<>> \in Seq(Q)
      OBVIOUS
    <3>3. FlattenSeq(Append(<<>>, s)) = FlattenSeq(<<>>) \o s
      BY <3>2, FlattenAppend
    <3>4. <<>> \o s = s /\ s \o <<>> = s
      BY ConcatEmptySeq
    <3> QED
      BY <3>1, <3>2, <3>3, <3>4, FlattenEmpty
  <2> QED
    BY <2>1
<1>2. ASSUME NEW n \in T PROVE n + 1 \in T
  <2>0. n \in Nat /\ \A rs \in Seq(Q) : Len(rs) = n => Good(rs)
    OBVIOUS
  <2>1. ASSUME NEW rs \in Seq(Q), Len(rs) = n + 1 PROVE Good(rs)
    <3>1. PICK us \in Seq(Q), u \in Q : rs = Append(us, u)
      <4>1. rs # <<>>
        BY <2>0, <2>1
      <4> HIDE DEF Q
      <4> QED
        BY <4>1, SequenceEmptyOrAppend
    <3>2. Len(us) = n
      <4>1. Len(Append(us, u)) = Len(us) + 1 /\ Len(us) \in Nat
        OBVIOUS
      <4> QED
        BY <2>0, <2>1, <3>1, <4>1
    <3>3. FlattenSeq(<<s>> \o us) = s \o FlattenSeq(us)
      BY <2>0, <3>2
    <3>4. <<s>> \o rs = Append(<<s>> \o us, u) /\ <<s>> \o us \in Seq(Q)
      <4>1. s \in Q
        OBVIOUS
      <4> HIDE DEF Q
      <4>2. <<s>> \in Seq(Q)
        BY <4>1
      <4> QED
        BY <3>1, <4>2
    <3>5. FlattenSeq(Append(<<s>> \o us, u)) = FlattenSeq(<<s>> \o us) \o u
      BY <3>4, FlattenAppend
    <3>6. FlattenSeq(rs) = FlattenSeq(us) \o u /\ FlattenSeq(us) \in Q
      BY <3>1, FlattenAppend
    <3>7. (s \o FlattenSeq(us)) \o u = s \o (FlattenSeq(us) \o u)
      <4>1. Associates(s, FlattenSeq(us), u)
        BY <3>6, Associative, Zenon
      <4> QED
        BY <4>1, Zenon DEF Associates
    <3> QED
      BY <3>3, <3>4, <3>5, <3>6, <3>7
  <2>2. n + 1 \in Nat
    BY <2>0
  <2> HIDE DEF Good
  <2> QED
    BY <2>1, <2>2
<1>3. T = Nat
  <2> HIDE DEF T
  <2>1. T \in SUBSET Nat
    BY DEF T
  <2> QED
    BY <1>1, <1>2, <2>1, Induction
<1>4. Good(ss)
  <2>1. Len(ss) \in Nat /\ ss \in Seq(Q)
    OBVIOUS
  <2> HIDE DEF Good, Q
  <2>2. Len(ss) \in T
    BY <1>3, <2>1
  <2> QED
    BY <2>1, <2>2
<1>5. FlattenSeq(ss) \in Seq(Nat)
  <2>1. <<>> \in Seq(Nat)
    OBVIOUS
  <2> QED
    BY <2>1, FlattenAppend
<1> QED
  BY <1>4, <1>5

-----------------------------------------------------------------------------
(* The TLVs enclosed in a body, written as they were read.                  *)

\* The TLVs ts, each encoded.
Encodings(ts) == [i \in DOMAIN ts |-> EncodeTlv(ts[i])]

\* They are sequences of numbers.
LEMMA EncodingsType ==
    ASSUME NEW ts \in Seq(Tlv)
    PROVE  /\ Encodings(ts) \in Seq(Seq(Nat)) /\ Len(Encodings(ts)) = Len(ts)
           /\ \A i \in 1..Len(ts) : Encodings(ts)[i] = EncodeTlv(ts[i])
           /\ EncodeAll(ts) = FlattenSeq(Encodings(ts)) /\ EncodeAll(ts) \in Seq(Nat)
<1> DEFINE n == Len(ts)
<1>1. DOMAIN ts = 1..n /\ n \in Nat
  OBVIOUS
<1>2. \A i \in 1..n : ts[i] \in Tlv
  <2> HIDE DEF Tlv, n
  <2> QED
    BY ElementOfSeq DEF n
<1>3. \A i \in 1..n : EncodeTlv(ts[i]) \in Seq(Nat)
  BY <1>2, EncodeTlvType
<1> DEFINE es == [i \in 1..n |-> EncodeTlv(ts[i])]
<1>4. es \in Seq(Seq(Nat)) /\ Len(es) = n /\ \A i \in 1..n : es[i] = EncodeTlv(ts[i])
  BY <1>1, <1>3
<1>5. Encodings(ts) = es
  BY <1>1 DEF Encodings
<1> HIDE DEF es, n
<1>6. EncodeAll(ts) = FlattenSeq(Encodings(ts))
  BY DEF EncodeAll, Encodings
<1>7. FlattenSeq(es) \in Seq(Nat)
  <2>1. <<>> \in Seq(Nat)
    OBVIOUS
  <2> QED
    BY <1>4, <2>1, FlattenCons
<1> QED
  BY <1>4, <1>5, <1>6, <1>7 DEF n

\* One TLV more, at the start.
LEMMA EncodeCons ==
    ASSUME NEW t \in Tlv, NEW ts \in Seq(Tlv)
    PROVE  /\ <<t>> \o ts \in Seq(Tlv)
           /\ EncodeAll(<<t>> \o ts) = EncodeTlv(t) \o EncodeAll(ts)
           /\ EncodeTlv(t) \in Seq(Nat) /\ EncodeAll(ts) \in Seq(Nat)
<1> DEFINE us == <<t>> \o ts
           n == Len(ts)
           e == EncodeTlv(t)
           x == Encodings(us)
           y == <<e>> \o Encodings(ts)
<1>1. <<t>> \in Seq(Tlv) /\ Len(<<t>>) = 1 /\ <<t>>[1] = t /\ n \in Nat
  <2> HIDE DEF Tlv
  <2> QED
    OBVIOUS
<1>2. us \in Seq(Tlv) /\ Len(us) = 1 + n /\ \A i \in 1..(1 + n) : us[i] = IF i <= 1 THEN t ELSE ts[i - 1]
  <2> HIDE DEF Tlv
  <2>1. /\ us \in Seq(Tlv) /\ Len(us) = Len(<<t>>) + Len(ts)
        /\ \A i \in 1..(Len(<<t>>) + Len(ts)) :
              us[i] = IF i <= Len(<<t>>) THEN <<t>>[i] ELSE ts[i - Len(<<t>>)]
    BY <1>1, ConcatProperties
  <2>2. \A i \in 1..(1 + n) : i <= 1 => i = 1
    BY <1>1
  <2> QED
    BY <1>1, <2>1, <2>2
<1>3. e \in Seq(Nat)
  BY EncodeTlvType
<1> HIDE DEF us, e
<1>4. x \in Seq(Seq(Nat)) /\ Len(x) = 1 + n /\ \A i \in 1..(1 + n) : x[i] = EncodeTlv(us[i])
  BY <1>2, EncodingsType
<1>5. /\ Encodings(ts) \in Seq(Seq(Nat)) /\ Len(Encodings(ts)) = n
      /\ \A i \in 1..n : Encodings(ts)[i] = EncodeTlv(ts[i])
      /\ EncodeAll(ts) = FlattenSeq(Encodings(ts)) /\ EncodeAll(ts) \in Seq(Nat)
  BY EncodingsType
<1> DEFINE Q == Seq(Nat)
<1>6. y \in Seq(Q) /\ Len(y) = 1 + n /\ \A i \in 1..(1 + n) : y[i] = IF i <= 1 THEN e ELSE Encodings(ts)[i - 1]
  <2>0. e \in Q /\ Encodings(ts) \in Seq(Q)
    BY <1>3, <1>5
  <2> HIDE DEF Q
  <2>1. <<e>> \in Seq(Q) /\ Len(<<e>>) = 1 /\ <<e>>[1] = e
    BY <2>0
  <2>2. /\ y \in Seq(Q) /\ Len(y) = Len(<<e>>) + Len(Encodings(ts))
        /\ \A i \in 1..(Len(<<e>>) + Len(Encodings(ts))) :
              y[i] = IF i <= Len(<<e>>) THEN <<e>>[i] ELSE Encodings(ts)[i - Len(<<e>>)]
    BY <2>0, <2>1, ConcatProperties
  <2>3. \A i \in 1..(1 + n) : i <= 1 => i = 1
    BY <1>1
  <2> QED
    BY <1>5, <2>1, <2>2, <2>3
<1> HIDE DEF x, y
<1>7. ASSUME NEW i \in 1..(1 + n) PROVE x[i] = y[i]
  <2>1. CASE i <= 1
    BY <1>2, <1>4, <1>6, <2>1 DEF e
  <2>2. CASE ~(i <= 1)
    <3>1. i - 1 \in 1..n
      BY <1>1, <2>2
    <3> QED
      BY <1>2, <1>4, <1>5, <1>6, <2>2, <3>1
  <2> QED
    BY <2>1, <2>2
<1>8. x = y
  <2>1. x \in Seq(Q) /\ Len(x) = Len(y) /\ \A i \in 1..Len(x) : x[i] = y[i]
    BY <1>4, <1>6, <1>7
  <2> HIDE DEF Q
  <2> QED
    BY <1>6, <2>1, SeqEqual
<1>9. EncodeAll(us) = FlattenSeq(x)
  BY <1>2, EncodingsType DEF x
<1>10. FlattenSeq(y) = e \o FlattenSeq(Encodings(ts))
  BY <1>3, <1>5, FlattenCons DEF y
<1> QED
  BY <1>2, <1>3, <1>5, <1>8, <1>9, <1>10 DEF us, e

\* One step of parse_all on b from offset i on, given what it reads after that.
TlvsFrom(b, f, i) ==
    IF i = Len(b) THEN {<<>>}
    ELSE IF i + HeaderLen > Len(b) THEN {}
    ELSE LET end == i + HeaderLen + U16(b, i + 2)
             t   == [mandatory |-> U16(b, i) >= MandatoryBit, type |-> TypeOf(U16(b, i)),
                     value |-> SubSeq(b, i + HeaderLen + 1, end)]
         IN IF t.type = 0 \/ end > Len(b) THEN {} ELSE {<<t>> \o ts : ts \in f[end]}

\* In terms of the TLV at i.
LEMMA TlvsFromIs ==
    ASSUME NEW b, NEW f, NEW i
    PROVE  TlvsFrom(b, f, i) =
              IF i = Len(b) THEN {<<>>}
              ELSE IF i + HeaderLen > Len(b) THEN {}
              ELSE IF TypeOf(U16(b, i)) = 0 \/ i + HeaderLen + U16(b, i + 2) > Len(b) THEN {}
              ELSE {<<TlvAt(b, i)>> \o ts : ts \in f[i + HeaderLen + U16(b, i + 2)]}
<1> DEFINE t == TlvAt(b, i)
           e == i + HeaderLen + U16(b, i + 2)
<1>1. t.type = TypeOf(U16(b, i))
  BY DEF TlvAt
<1>2. TlvsFrom(b, f, i) =
              IF i = Len(b) THEN {<<>>}
              ELSE IF i + HeaderLen > Len(b) THEN {}
              ELSE IF t.type = 0 \/ e > Len(b) THEN {} ELSE {<<t>> \o ts : ts \in f[e]}
  BY Zenon DEF TlvsFrom, TlvAt
<1> HIDE DEF t, e
<1>3. TlvsFrom(b, f, i) =
              IF i = Len(b) THEN {<<>>}
              ELSE IF i + HeaderLen > Len(b) THEN {}
              ELSE IF TypeOf(U16(b, i)) = 0 \/ e > Len(b) THEN {} ELSE {<<t>> \o ts : ts \in f[e]}
  BY <1>1, <1>2, Zenon
<1> QED
  BY <1>3, Zenon DEF t, e

\* It looks at what follows i only.
LEMMA TlvsFromAhead ==
    ASSUME NEW b \in Seq(Octet), NEW f, NEW g, NEW i \in 0..Len(b),
           \A j \in 0..Len(b) : j > i => f[j] = g[j]
    PROVE  TlvsFrom(b, f, i) = TlvsFrom(b, g, i)
<1> DEFINE e == i + HeaderLen + U16(b, i + 2)
           Fits == i # Len(b) /\ ~(i + HeaderLen > Len(b)) /\ ~(TypeOf(U16(b, i)) = 0 \/ e > Len(b))
<1>1. ASSUME Fits PROVE f[e] = g[e]
  <2>1. i \in Nat /\ Len(b) \in Nat /\ i + 4 <= Len(b) /\ HeaderLen = 4
    BY <1>1 DEF HeaderLen
  <2>2. U16(b, i + 2) \in Nat
    <3>1. i + 2 \in Nat /\ (i + 2) + 2 <= Len(b)
      BY <2>1
    <3> QED
      BY <3>1, U16Type
  <2>3. e \in 0..Len(b) /\ e > i
    <3>1. ~(e > Len(b))
      BY <1>1
    <3> QED
      BY <2>1, <2>2, <3>1
  <2> HIDE DEF e
  <2> QED
    BY <2>3
<1> HIDE DEF e
<1>2. CASE Fits
  <2>1. f[e] = g[e]
    BY <1>1, <1>2
  <2>2. /\ TlvsFrom(b, f, i) = {<<TlvAt(b, i)>> \o ts : ts \in f[e]}
        /\ TlvsFrom(b, g, i) = {<<TlvAt(b, i)>> \o ts : ts \in g[e]}
    BY <1>2, TlvsFromIs, Zenon DEF e
  <2> QED
    BY <2>1, <2>2
<1>3. CASE ~Fits
  BY <1>3, TlvsFromIs, Zenon DEF e
<1> QED
  BY <1>2, <1>3

\* There is a function that is what its own steps give.
LEMMA TlvsFromExists ==
    ASSUME NEW b \in Seq(Octet)
    PROVE  \E f : f = [i \in 0..Len(b) |-> TlvsFrom(b, f, i)]
<1> DEFINE L == Len(b)
           Good(f, m) == /\ f = [j \in 0..L |-> f[j]]
                         /\ \A j \in 0..L : j + m > L => f[j] = TlvsFrom(b, f, j)
           T == {m \in Nat : \E f : Good(f, m)}
<1>0. L \in Nat
  OBVIOUS
<1>1. 0 \in T
  <2> DEFINE f == [j \in 0..L |-> {}]
  <2>1. f = [j \in 0..L |-> f[j]]
    OBVIOUS
  <2>2. \A j \in 0..L : ~(j + 0 > L)
    BY <1>0
  <2> HIDE DEF f, L
  <2>3. Good(f, 0)
    BY <2>1, <2>2
  <2> HIDE DEF Good
  <2> QED
    BY <2>3
<1>2. ASSUME NEW m \in T PROVE m + 1 \in T
  <2>0. m \in Nat
    OBVIOUS
  <2>1. PICK f : Good(f, m)
    OBVIOUS
  <2> DEFINE o == L - m
             v == TlvsFrom(b, f, o)
             g == [j \in 0..L |-> IF j = o THEN v ELSE f[j]]
  <2>2. g = [j \in 0..L |-> g[j]]
    OBVIOUS
  <2>3. \A j \in 0..L : (j > o <=> j + m > L) /\ (j # o => g[j] = f[j]) /\ (j = o => g[j] = v)
    BY <1>0, <2>0
  <2>4. o \in Int /\ o <= L
    BY <1>0, <2>0
  <2> HIDE DEF v, g, L
  <2>5. ASSUME NEW j \in 0..L, j + (m + 1) > L PROVE g[j] = TlvsFrom(b, g, j)
    <3>1. j >= o
      BY <1>0, <2>0, <2>5
    <3> HIDE DEF o
    <3>2. \A k \in 0..L : k > j => f[k] = g[k]
      <4>1. \A k \in 0..L : k > j => k # o
        BY <1>0, <2>4, <3>1
      <4> QED
        BY <2>3, <4>1
    <3>3. TlvsFrom(b, f, j) = TlvsFrom(b, g, j)
      BY <3>2, TlvsFromAhead DEF L
    <3>4. CASE j = o
      <4>1. g[j] = v
        BY <2>3, <3>4
      <4> QED
        BY <3>3, <3>4, <4>1 DEF v
    <3>5. CASE j # o
      <4>1. j > o
        BY <1>0, <2>4, <3>1, <3>5
      <4>2. j + m > L
        BY <2>3, <4>1
      <4>3. g[j] = f[j]
        BY <2>3, <3>5
      <4>4. f[j] = TlvsFrom(b, f, j)
        BY <2>1, <4>2
      <4> QED
        BY <3>3, <4>3, <4>4
    <3> QED
      BY <3>4, <3>5
  <2>6. Good(g, m + 1)
    BY <2>2, <2>5
  <2>7. m + 1 \in Nat
    BY <2>0
  <2> HIDE DEF Good
  <2> QED
    BY <2>6, <2>7
<1>3. T = Nat
  <2> HIDE DEF T
  <2>1. T \in SUBSET Nat
    BY DEF T
  <2> QED
    BY <1>1, <1>2, <2>1, Induction
<1>4. PICK f : Good(f, L + 1)
  <2>1. L + 1 \in T
    BY <1>0, <1>3
  <2> HIDE DEF Good, L
  <2> QED
    BY <2>1
<1> HIDE DEF L
<1>5. \A j \in 0..L : f[j] = TlvsFrom(b, f, j)
  <2>1. \A j \in 0..L : j + (L + 1) > L
    BY <1>0
  <2> QED
    BY <1>4, <2>1
<1>6. f = [j \in 0..L |-> f[j]]
  BY <1>4
<1>7. f = [j \in 0..L |-> TlvsFrom(b, f, j)]
  BY <1>5, <1>6
<1> QED
  BY <1>7 DEF L

\* ParseAll is what such a function says of the whole.
LEMMA ParseAllIs ==
    ASSUME NEW b \in Seq(Octet)
    PROVE  \E f : /\ \A i \in 0..Len(b) : f[i] = TlvsFrom(b, f, i)
                  /\ ParseAll(b) = {ts \in f[0] : Len(ts) <= MaxTlvs}
<1> DEFINE c == CHOOSE f : f = [i \in 0..Len(b) |-> TlvsFrom(b, f, i)]
<1>1. ParseAll(b) = {ts \in c[0] : Len(ts) <= MaxTlvs}
  BY Zenon DEF ParseAll, TlvsFrom
<1>2. c = [i \in 0..Len(b) |-> TlvsFrom(b, c, i)]
  BY TlvsFromExists, Zenon
<1> HIDE DEF c
<1>3. \A d : d = [i \in 0..Len(b) |-> TlvsFrom(b, c, i)] => \A i \in 0..Len(b) : d[i] = TlvsFrom(b, c, i)
  OBVIOUS
<1>4. \A i \in 0..Len(b) : c[i] = TlvsFrom(b, c, i)
  BY <1>2, <1>3, Zenon
<1> QED
  BY <1>1, <1>4

\* What is read of b from offset i on.
ReadsBackFrom(b, i, X) == \A ts \in X : ts \in Seq(Tlv) /\ Agrees(EncodeAll(ts), From(b, i))

\* One TLV, and what follows it.
LEMMA TlvsFromBack ==
    ASSUME NEW b \in Seq(Octet), NEW f, NEW i \in 0..Len(b),
           \A j \in 0..Len(b) : j > i => ReadsBackFrom(b, j, f[j])
    PROVE  ReadsBackFrom(b, i, TlvsFrom(b, f, i))
<1> DEFINE t == TlvAt(b, i)
           n == U16(b, i + 2)
           e == i + HeaderLen + n
<1>0. i \in Nat /\ i <= Len(b) /\ Len(b) \in Nat /\ HeaderLen = 4
  BY DEF HeaderLen
<1>1. CASE i = Len(b)
  <2>1. TlvsFrom(b, f, i) = {<<>>}
    BY <1>1, TlvsFromIs, Zenon
  <2>2. From(b, i) = <<>>
    <3>1. Len(b) + 1 \in Int /\ Len(b) < Len(b) + 1
      BY <1>0
    <3> QED
      BY <1>0, <1>1, <3>1, SubSeqEmpty DEF From
  <2>3. <<>> \in Seq(Tlv) /\ Agrees(<<>>, <<>>)
    BY DEF Agrees
  <2> QED
    BY <2>1, <2>2, <2>3, EncodeEmpty DEF ReadsBackFrom
<1>2. ASSUME NEW us \in TlvsFrom(b, f, i), i # Len(b)
      PROVE  us \in Seq(Tlv) /\ Agrees(EncodeAll(us), From(b, i))
  <2>1. /\ ~(i + HeaderLen > Len(b)) /\ ~(TypeOf(U16(b, i)) = 0) /\ ~(e > Len(b))
        /\ us \in {<<t>> \o ts : ts \in f[e]}
    <3>1. \A X : us \in X => X # {}
      OBVIOUS
    <3> HIDE DEF t
    <3>2. TlvsFrom(b, f, i) =
              IF i = Len(b) THEN {<<>>}
              ELSE IF i + HeaderLen > Len(b) THEN {}
              ELSE IF TypeOf(U16(b, i)) = 0 \/ e > Len(b) THEN {}
              ELSE {<<t>> \o ts : ts \in f[e]}
      BY TlvsFromIs, Zenon DEF t
    <3> HIDE DEF e
    <3> QED
      BY <1>2, <3>1, <3>2, Zenon
  <2>2. PICK ts \in f[e] : us = <<t>> \o ts
    BY <2>1
  <2>3. n \in Nat
    <3>1. i + 2 \in Nat /\ (i + 2) + 2 <= Len(b)
      BY <1>0, <2>1
    <3> QED
      BY <3>1, U16Type
  <2>4. i + HeaderLen <= Len(b) /\ e <= Len(b) /\ e \in 0..Len(b) /\ e > i
    <3> HIDE DEF n
    <3> QED
      BY <1>0, <2>1, <2>3
  <2>5. t \in Tlv /\ Agrees(EncodeTlv(t), SubSeq(b, i + 1, e))
    BY <1>0, <2>1, <2>4, ReadsBack
  <2> HIDE DEF t, n, e
  <2>6. ts \in Seq(Tlv) /\ Agrees(EncodeAll(ts), From(b, e))
    <3>1. ReadsBackFrom(b, e, f[e])
      BY <2>4
    <3> QED
      BY <2>2, <3>1 DEF ReadsBackFrom
  <2>7. /\ us \in Seq(Tlv) /\ EncodeAll(us) = EncodeTlv(t) \o EncodeAll(ts)
        /\ EncodeTlv(t) \in Seq(Nat) /\ EncodeAll(ts) \in Seq(Nat)
    BY <2>2, <2>5, <2>6, EncodeCons
  <2> DEFINE x == SubSeq(b, i + 1, e)
             y == From(b, e)
  <2>8. x \in Seq(Nat) /\ y \in Seq(Nat) /\ x \o y = From(b, i)
    <3>1. b \in Seq(Nat)
      BY OctetSeq
    <3>2. e \in Nat /\ i <= e /\ e <= Len(b) /\ Len(b) <= Len(b)
      BY <1>0, <2>4
    <3>3. x \in Seq(Nat)
      BY <1>0, <3>1, <3>2, Part
    <3>4. y \in Seq(Nat)
      BY <3>1, <3>2, FromRest
    <3>5. SubSeq(b, i + 1, e) \o SubSeq(b, e + 1, Len(b)) = SubSeq(b, i + 1, Len(b))
      BY <1>0, <3>1, <3>2, Meet
    <3> QED
      BY <3>3, <3>4, <3>5 DEF From
  <2> HIDE DEF x, y
  <2>9. Agrees(EncodeTlv(t), x) /\ Agrees(EncodeAll(ts), y)
    BY <2>5, <2>6 DEF x, y
  <2>10. Agrees(EncodeTlv(t) \o EncodeAll(ts), x \o y)
    BY <2>7, <2>8, <2>9, AgreesConcat
  <2> QED
    BY <2>7, <2>8, <2>10
<1> QED
  BY <1>1, <1>2 DEF ReadsBackFrom

\* The TLVs enclosed in a body stand for its octets.
LEMMA ParseAllBack ==
    ASSUME NEW b \in Seq(Octet), NEW ts \in ParseAll(b)
    PROVE  ts \in Seq(Tlv) /\ Agrees(EncodeAll(ts), b)
<1> DEFINE L == Len(b)
<1>0. L \in Nat
  OBVIOUS
<1>1. PICK f : /\ \A i \in 0..L : f[i] = TlvsFrom(b, f, i)
               /\ ParseAll(b) = {us \in f[0] : Len(us) <= MaxTlvs}
  BY ParseAllIs
<1> DEFINE T == {m \in Nat : \A i \in 0..L : i + m > L => ReadsBackFrom(b, i, f[i])}
<1>2. 0 \in T
  BY <1>0
<1>3. ASSUME NEW m \in T PROVE m + 1 \in T
  <2>0. m \in Nat /\ \A i \in 0..L : i + m > L => ReadsBackFrom(b, i, f[i])
    OBVIOUS
  <2>1. ASSUME NEW i \in 0..L, i + (m + 1) > L PROVE ReadsBackFrom(b, i, f[i])
    <3>1. \A j \in 0..L : j > i => ReadsBackFrom(b, j, f[j])
      <4>1. \A j \in 0..L : j > i => j + m > L
        BY <1>0, <2>0, <2>1
      <4> QED
        BY <2>0, <4>1
    <3>2. ReadsBackFrom(b, i, TlvsFrom(b, f, i))
      BY <3>1, TlvsFromBack
    <3> QED
      BY <1>1, <3>2
  <2> QED
    BY <2>0, <2>1
<1>4. T = Nat
  <2> HIDE DEF T
  <2>1. T \in SUBSET Nat
    BY DEF T
  <2> QED
    BY <1>2, <1>3, <2>1, Induction
<1>5. ReadsBackFrom(b, 0, f[0])
  <2>1. L + 1 \in T
    <3> HIDE DEF T, L
    <3> QED
      BY <1>0, <1>4
  <2>2. 0 \in 0..L /\ 0 + (L + 1) > L
    BY <1>0
  <2> QED
    BY <2>1, <2>2
<1>6. From(b, 0) = b
  BY SubSeqFull DEF From
<1> QED
  BY <1>1, <1>5, <1>6 DEF ReadsBackFrom

-----------------------------------------------------------------------------
(* The bodies of TLVs, written as they were read.                           *)

\* The start of a string, and the rest.
LEMMA Whole ==
    ASSUME NEW S, NEW s \in Seq(S), NEW i \in Nat, i <= Len(s)
    PROVE  /\ SubSeq(s, 1, i) \o From(s, i) = s
           /\ SubSeq(s, 1, i) \in Seq(S) /\ Len(SubSeq(s, 1, i)) = i
           /\ \A k \in 1..i : SubSeq(s, 1, i)[k] = s[k]
<1>1. 0 \in Nat /\ 0 <= i /\ Len(s) \in Nat /\ Len(s) <= Len(s) /\ 0 + 1 = 1 /\ i - 0 = i
  OBVIOUS
<1>2. SubSeq(s, 0 + 1, i) \o SubSeq(s, i + 1, Len(s)) = SubSeq(s, 0 + 1, Len(s))
  BY <1>1, Meet
<1>3. SubSeq(s, 1, Len(s)) = s
  BY SubSeqFull
<1>4. /\ SubSeq(s, 0 + 1, i) \in Seq(S) /\ Len(SubSeq(s, 0 + 1, i)) = i - 0
      /\ \A k \in 1..(i - 0) : SubSeq(s, 0 + 1, i)[k] = s[0 + k]
  BY <1>1, Part
<1>5. \A k \in 1..i : 0 + k = k
  BY <1>1
<1> QED
  BY <1>1, <1>2, <1>3, <1>4, <1>5 DEF From

\* A number of two octets at the start.
LEMMA U16Prefix ==
    ASSUME NEW v \in Seq(Octet), 2 <= Len(v)
    PROVE  BE(U16(v, 0)) = SubSeq(v, 1, 2) /\ BE(U16(v, 0)) \in Seq(Nat) /\ U16(v, 0) \in Nat
<1>1. 0 \in Nat /\ 0 + 2 <= Len(v) /\ 0 + 1 = 1 /\ 0 + 2 = 2
  OBVIOUS
<1>2. BE(U16(v, 0)) = SubSeq(v, 0 + 1, 0 + 2) /\ U16(v, 0) \in 0..MaxValue
  BY <1>1, TwoFrom
<1>3. U16(v, 0) \in Nat
  BY <1>2
<1>4. BE(U16(v, 0)) \in Seq(Nat)
  BY <1>3, BEType
<1> QED
  BY <1>1, <1>2, <1>3, <1>4

\* One of four octets.
LEMMA U32Prefix ==
    ASSUME NEW v \in Seq(Octet), 4 <= Len(v)
    PROVE  BE32(U32(v, 0)) = SubSeq(v, 1, 4) /\ U32(v, 0) \in Nat
<1>1. 0 \in Nat /\ 0 + 4 <= Len(v) /\ 0 + 1 = 1 /\ 0 + 4 = 4
  OBVIOUS
<1>2. BE32(U32(v, 0)) = SubSeq(v, 0 + 1, 0 + 4) /\ U32(v, 0) \in Nat
  BY <1>1, U32Of
<1> QED
  BY <1>1, <1>2

\* A start that is written as it was read, and a rest that agrees.
LEMMA PrefixAgrees ==
    ASSUME NEW v \in Seq(Octet), NEW n \in Nat, n <= Len(v), NEW e \in Seq(Nat), Agrees(e, From(v, n))
    PROVE  Agrees(SubSeq(v, 1, n) \o e, v)
<1>1. v \in Seq(Nat)
  BY OctetSeq
<1>2. SubSeq(v, 1, n) \in Seq(Nat) /\ SubSeq(v, 1, n) \o From(v, n) = v
  BY <1>1, Whole
<1>3. From(v, n) \in Seq(Nat)
  BY <1>1, FromRest
<1> DEFINE x == SubSeq(v, 1, n)
           y == From(v, n)
<1>4. x \in Seq(Nat) /\ y \in Seq(Nat) /\ x \o y = v /\ Agrees(e, y)
  BY <1>2, <1>3
<1> HIDE DEF x, y
<1>5. Agrees(x, x)
  BY <1>4, AgreesSelf
<1>6. Agrees(x \o e, x \o y)
  BY <1>4, <1>5, AgreesConcat
<1> QED
  BY <1>4, <1>6 DEF x

\* Statuses and identity types.
LEMMA StatusBack ==
    ASSUME NEW v \in Seq(Octet), NEW b \in StatusBody(v)
    PROVE  BE(b) = v
<1>1. Len(v) = 2 /\ b = U16(v, 0)
  BY DEF StatusBody
<1>2. SubSeq(v, 1, 2) = v
  BY <1>1, SubSeqFull
<1>3. 2 <= Len(v)
  BY <1>1
<1> QED
  BY <1>1, <1>2, <1>3, U16Prefix

\* Error codes.
LEMMA ErrorBack ==
    ASSUME NEW v \in Seq(Octet), NEW b \in ErrorBody(v)
    PROVE  BE32(b) = v
<1>1. Len(v) = 4 /\ b = U32(v, 0)
  BY DEF ErrorBody
<1>2. SubSeq(v, 1, 4) = v
  BY <1>1, SubSeqFull
<1>3. 4 <= Len(v)
  BY <1>1
<1> QED
  BY <1>1, <1>2, <1>3, U32Prefix

\* Vendor-Specific.
LEMMA VendorBack ==
    ASSUME NEW v \in Seq(Octet), NEW b \in VendorBody(v)
    PROVE  BE32(b.vendor) \o b.data = v
<1>1. 4 <= Len(v) /\ b = [vendor |-> U32(v, 0), data |-> From(v, 4)]
  BY DEF VendorBody
<1>2. b.vendor = U32(v, 0) /\ b.data = From(v, 4)
  BY <1>1
<1>3. BE32(U32(v, 0)) = SubSeq(v, 1, 4)
  BY <1>1, U32Prefix
<1>4. SubSeq(v, 1, 4) \o From(v, 4) = v
  BY <1>1, Whole
<1> QED
  BY <1>2, <1>3, <1>4

\* NAK.
LEMMA NakBack ==
    ASSUME NEW v \in Seq(Octet), NEW b \in NakBody(v)
    PROVE  Agrees(BE32(b.vendor) \o BE(b.nakType) \o EncodeAll(b.tlvs), v)
<1>1. 6 <= Len(v) /\ b.vendor = U32(v, 0) /\ b.nakType = U16(v, 4) /\ b.tlvs \in ParseAll(From(v, 6))
  BY DEF NakBody
<1>2. BE32(b.vendor) = SubSeq(v, 1, 4)
  <2>1. 4 <= Len(v)
    BY <1>1
  <2> QED
    BY <1>1, <2>1, U32Prefix
<1>3. BE(b.nakType) = SubSeq(v, 5, 6)
  <2>1. 4 \in Nat /\ 4 + 2 <= Len(v) /\ 4 + 1 = 5 /\ 4 + 2 = 6
    BY <1>1
  <2>2. BE(U16(v, 4)) = SubSeq(v, 4 + 1, 4 + 2)
    BY <2>1, TwoFrom
  <2> QED
    BY <1>1, <2>1, <2>2
<1>4. SubSeq(v, 1, 4) \o SubSeq(v, 5, 6) = SubSeq(v, 1, 6)
  <2>1. 0 \in Nat /\ 4 \in Nat /\ 6 \in Nat /\ 0 <= 4 /\ 4 <= 6 /\ 6 <= Len(v) /\ 0 + 1 = 1 /\ 4 + 1 = 5
    BY <1>1
  <2>2. SubSeq(v, 0 + 1, 4) \o SubSeq(v, 4 + 1, 6) = SubSeq(v, 0 + 1, 6)
    BY <2>1, Meet
  <2> QED
    BY <2>1, <2>2
<1>5. From(v, 6) \in Seq(Octet)
  BY <1>1, FromRest
<1>6. b.tlvs \in Seq(Tlv) /\ Agrees(EncodeAll(b.tlvs), From(v, 6))
  BY <1>1, <1>5, ParseAllBack
<1>7. EncodeAll(b.tlvs) \in Seq(Nat)
  BY <1>6, EncodingsType
<1>8. Agrees(SubSeq(v, 1, 6) \o EncodeAll(b.tlvs), v)
  BY <1>1, <1>6, <1>7, PrefixAgrees
<1> QED
  BY <1>2, <1>3, <1>4, <1>8

\* Intermediate-Result.
LEMMA IntermediateBack ==
    ASSUME NEW v \in Seq(Octet), NEW b \in IntermediateResultBody(v)
    PROVE  Agrees(BE(b.status) \o EncodeAll(b.tlvs), v)
<1>1. 2 <= Len(v) /\ b.status = U16(v, 0) /\ b.tlvs \in ParseAll(From(v, 2))
  BY DEF IntermediateResultBody
<1>2. BE(b.status) = SubSeq(v, 1, 2)
  BY <1>1, U16Prefix
<1>3. From(v, 2) \in Seq(Octet)
  BY <1>1, FromRest
<1>4. b.tlvs \in Seq(Tlv) /\ Agrees(EncodeAll(b.tlvs), From(v, 2))
  BY <1>1, <1>3, ParseAllBack
<1>5. EncodeAll(b.tlvs) \in Seq(Nat)
  BY <1>4, EncodingsType
<1>6. Agrees(SubSeq(v, 1, 2) \o EncodeAll(b.tlvs), v)
  BY <1>1, <1>4, <1>5, PrefixAgrees
<1> QED
  BY <1>2, <1>6

\* The same string but for the first octet.
SameRest(x, y) == Len(x) = Len(y) /\ \A k \in 1..Len(x) : k # 1 => x[k] = y[k]

\* What follows does not change that.
LEMMA SameRestConcat ==
    ASSUME NEW x \in Seq(Nat), NEW y \in Seq(Nat), NEW r \in Seq(Nat), SameRest(x, y), x # <<>>
    PROVE  SameRest(x \o r, y \o r) /\ x \o r \in Seq(Nat) /\ y \o r \in Seq(Nat) /\ x \o r # <<>>
<1> DEFINE n == Len(x)
           m == Len(r)
           u == x \o r
           w == y \o r
<1>1. n \in Nat /\ m \in Nat /\ Len(y) = n /\ n # 0 /\ \A k \in 1..n : k # 1 => x[k] = y[k]
  BY DEF SameRest
<1>2. u \in Seq(Nat) /\ Len(u) = n + m /\ \A k \in 1..(n + m) : u[k] = IF k <= n THEN x[k] ELSE r[k - n]
  BY ConcatProperties
<1>3. w \in Seq(Nat) /\ Len(w) = n + m /\ \A k \in 1..(n + m) : w[k] = IF k <= n THEN y[k] ELSE r[k - n]
  <2>1. /\ y \o r \in Seq(Nat) /\ Len(y \o r) = Len(y) + Len(r)
        /\ \A k \in 1..(Len(y) + Len(r)) : (y \o r)[k] = IF k <= Len(y) THEN y[k] ELSE r[k - Len(y)]
    BY ConcatProperties
  <2> HIDE DEF n
  <2> QED
    BY <1>1, <2>1
<1> HIDE DEF n, m, u, w
<1>4. ASSUME NEW k \in 1..(n + m), k # 1 PROVE u[k] = w[k]
  <2>1. CASE k <= n
    <3>1. k \in 1..n
      BY <1>1, <2>1
    <3> QED
      BY <1>1, <1>2, <1>3, <1>4, <2>1, <3>1
  <2>2. CASE ~(k <= n)
    BY <1>2, <1>3, <2>2
  <2> QED
    BY <2>1, <2>2
<1>5. u # <<>>
  BY <1>1, <1>2
<1> QED
  BY <1>2, <1>3, <1>4, <1>5 DEF SameRest, u, w

\* Their tails are the same.
LEMMA SameRestTail ==
    ASSUME NEW x \in Seq(Nat), NEW y \in Seq(Nat), SameRest(x, y), x # <<>>
    PROVE  Tail(x) = Tail(y)
<1>1. y # <<>>
  BY DEF SameRest
<1>2. /\ Tail(x) \in Seq(Nat) /\ Len(Tail(x)) = Len(x) - 1
      /\ \A i \in 1..Len(Tail(x)) : Tail(x)[i] = x[i + 1]
  BY HeadTailProperties
<1>3. /\ Tail(y) \in Seq(Nat) /\ Len(Tail(y)) = Len(y) - 1
      /\ \A i \in 1..Len(Tail(y)) : Tail(y)[i] = y[i + 1]
  BY <1>1, HeadTailProperties
<1> DEFINE u == Tail(x)
           w == Tail(y)
           n == Len(x)
<1>4. n \in Nat /\ Len(y) = n /\ \A k \in 1..n : k # 1 => x[k] = y[k]
  BY DEF SameRest
<1>5. /\ u \in Seq(Nat) /\ Len(u) = n - 1 /\ \A i \in 1..Len(u) : u[i] = x[i + 1]
      /\ w \in Seq(Nat) /\ Len(w) = n - 1 /\ \A i \in 1..Len(w) : w[i] = y[i + 1]
  BY <1>2, <1>3, <1>4
<1> HIDE DEF u, w, n
<1>6. ASSUME NEW i \in 1..Len(u) PROVE u[i] = w[i]
  <2>1. i \in 1..Len(w) /\ i + 1 \in 1..n /\ i + 1 # 1
    BY <1>4, <1>5
  <2> QED
    BY <1>4, <1>5, <2>1
<1>7. u = w
  BY <1>5, <1>6, SeqEqual
<1> QED
  BY <1>7 DEF u, w

\* Crypto-Binding: what is written is what was read but for the Reserved octet,
\* and both MACs have the same length.
LEMMA BindingBack ==
    ASSUME NEW v \in Seq(Octet), NEW b \in BindingBody(v)
    PROVE  /\ Tail(<<0, b.version, b.received, b.subType>> \o b.nonce \o b.emsk \o b.msk) = Tail(v)
           /\ Len(b.emsk) = Len(b.msk) /\ b.msk # <<>>
<1> DEFINE p == PrefixLen
           n == Len(v)
           half == (n - p) \div 2
           m == p + half
           x == <<0, b.version, b.received, b.subType>>
           y == SubSeq(v, 1, 4)
<1>0. n \in Nat /\ p \in Nat /\ 4 <= p /\ v \in Seq(Nat)
  <2>1. p \in Nat /\ 4 <= p
    BY BodyAssumption DEF PrefixLen
  <2>2. v \in Seq(Nat)
    BY OctetSeq
  <2> QED
    BY <2>1, <2>2
<1>1. p < n /\ (n - p) % 2 # 1
  BY <1>0 DEF BindingBody
<1>2. half \in Nat \ {0} /\ n = m + half
  <2> HIDE DEF n, p
  <2>1. n - p \in Nat \ {0} /\ (n - p) % 2 = 0
    BY <1>0, <1>1
  <2>2. n - p = 2 * half /\ half \in Nat \ {0}
    BY <2>1
  <2> HIDE DEF half
  <2> QED
    BY <1>0, <2>2
<1>3. /\ b.version = v[2] /\ b.received = v[3] /\ b.subType = v[4]
      /\ b.nonce = SubSeq(v, 5, p) /\ b.emsk = SubSeq(v, p + 1, m) /\ b.msk = From(v, m)
  <2>1. b = SplitBinding(v)
    BY DEF BindingBody
  <2>2. SplitBinding(v) = [version |-> v[2], received |-> v[3], subType |-> v[4],
                           nonce |-> SubSeq(v, 5, p), emsk |-> SubSeq(v, p + 1, m), msk |-> From(v, m)]
    BY Zenon DEF SplitBinding
  <2> HIDE DEF p, m
  <2>3. b = [version |-> v[2], received |-> v[3], subType |-> v[4],
             nonce |-> SubSeq(v, 5, p), emsk |-> SubSeq(v, p + 1, m), msk |-> From(v, m)]
    BY <2>1, <2>2
  <2> QED
    BY <2>3
<1> HIDE DEF half
<1>4. m \in Nat /\ p <= m /\ m <= n
  BY <1>0, <1>2
<1> HIDE DEF p, n, m
<1>5. /\ b.emsk \in Seq(Nat) /\ Len(b.emsk) = half
  <2>1. m - p = half
    BY <1>0, <1>2 DEF m
  <2>2. SubSeq(v, p + 1, m) \in Seq(Nat) /\ Len(SubSeq(v, p + 1, m)) = m - p
    BY <1>0, <1>4, Part DEF n
  <2> QED
    BY <1>3, <2>1, <2>2
<1>6. b.msk \in Seq(Nat) /\ Len(b.msk) = half
  <2>1. From(v, m) \in Seq(Nat) /\ Len(From(v, m)) = n - m
    BY <1>0, <1>4, FromRest DEF n
  <2>2. n - m = half
    BY <1>2, <1>4
  <2> QED
    BY <1>3, <2>1, <2>2
<1>7. b.nonce \in Seq(Nat) /\ y \o b.nonce = SubSeq(v, 1, p)
  <2>1. 4 \in Nat /\ 0 \in Nat /\ 0 <= 4 /\ p <= Len(v) /\ 4 + 1 = 5 /\ 0 + 1 = 1
    BY <1>0, <1>1 DEF n
  <2>2. SubSeq(v, 4 + 1, p) \in Seq(Nat)
    BY <1>0, <2>1, Part
  <2>3. SubSeq(v, 0 + 1, 4) \o SubSeq(v, 4 + 1, p) = SubSeq(v, 0 + 1, p)
    BY <1>0, <2>1, Meet
  <2> QED
    BY <1>3, <2>1, <2>2, <2>3
<1>8. (y \o b.nonce) \o b.emsk = SubSeq(v, 1, m)
  <2>1. 0 \in Nat /\ 0 <= p /\ 0 + 1 = 1 /\ m <= Len(v)
    BY <1>0, <1>4 DEF n
  <2>2. SubSeq(v, 0 + 1, p) \o SubSeq(v, p + 1, m) = SubSeq(v, 0 + 1, m)
    BY <1>0, <1>4, <2>1, Meet
  <2> QED
    BY <1>3, <1>7, <2>1, <2>2
<1>9. ((y \o b.nonce) \o b.emsk) \o b.msk = v
  <2>1. SubSeq(v, 1, m) \o From(v, m) = v
    BY <1>0, <1>4, Whole DEF n
  <2> QED
    BY <1>3, <1>8, <2>1
<1>10. x \in Seq(Nat) /\ y \in Seq(Nat) /\ SameRest(x, y) /\ x # <<>>
  <2>1. 4 <= Len(v) /\ 4 \in Nat
    BY <1>0, <1>1 DEF n
  <2>2. y \in Seq(Nat) /\ Len(y) = 4 /\ \A k \in 1..4 : y[k] = v[k]
    <3>1. v \in Seq(Nat) /\ 4 \in Nat /\ 4 <= Len(v)
      BY <1>0, <2>1, Zenon
    <3> QED
      BY <3>1, Whole, SMTT(40)
  <2>3. v[2] \in Nat /\ v[3] \in Nat /\ v[4] \in Nat
    <3>1. 2 \in 1..Len(v) /\ 3 \in 1..Len(v) /\ 4 \in 1..Len(v)
      BY <2>1
    <3> QED
      BY <1>0, <3>1, ElementOfSeq
  <2>4. x \in Seq(Nat) /\ Len(x) = 4 /\ x[2] = v[2] /\ x[3] = v[3] /\ x[4] = v[4]
    BY <1>3, <2>3
  <2> HIDE DEF x, y
  <2>5. \A k \in 1..4 : k # 1 => k = 2 \/ k = 3 \/ k = 4
    OBVIOUS
  <2>6. \A k \in 1..4 : k # 1 => x[k] = y[k]
    BY <2>2, <2>4, <2>5
  <2>7. x # <<>>
    <3>1. Len(<<>>) = 0 /\ Len(x) = 4
      BY <2>4
    <3> QED
      BY <3>1
  <2> QED
    BY <2>2, <2>4, <2>6, <2>7 DEF SameRest
<1> HIDE DEF x, y
<1> DEFINE x2 == x \o b.nonce
           y2 == y \o b.nonce
           x3 == x2 \o b.emsk
           y3 == y2 \o b.emsk
<1>11. SameRest(x2, y2) /\ x2 \in Seq(Nat) /\ y2 \in Seq(Nat) /\ x2 # <<>>
  BY <1>7, <1>10, SameRestConcat
<1>12. SameRest(x3, y3) /\ x3 \in Seq(Nat) /\ y3 \in Seq(Nat) /\ x3 # <<>>
  <2> HIDE DEF x2, y2
  <2> QED
    BY <1>5, <1>11, SameRestConcat
<1>13. SameRest(x3 \o b.msk, y3 \o b.msk) /\ x3 \o b.msk \in Seq(Nat) /\ y3 \o b.msk \in Seq(Nat)
       /\ x3 \o b.msk # <<>>
  <2> HIDE DEF x3, y3
  <2> QED
    BY <1>6, <1>12, SameRestConcat
<1>14. Tail(x3 \o b.msk) = Tail(y3 \o b.msk)
  <2> HIDE DEF x3, y3
  <2> QED
    BY <1>13, SameRestTail
<1>15. y3 \o b.msk = v
  BY <1>9
<1>16. b.msk # <<>>
  BY <1>2, <1>6
<1>17. Len(b.emsk) = Len(b.msk)
  BY <1>5, <1>6
<1>18. Tail(x3 \o b.msk) = Tail(v)
  BY <1>14, <1>15
<1> QED
  BY <1>16, <1>17, <1>18 DEF x

\* Every body is written as it was read.
LEMMA BodiesBack ==
    ASSUME NEW ty, NEW v \in Seq(Octet), NEW t, t.type = ty, t.value = v, NEW b \in Bodies(t)
    PROVE  IF ty = CRYPTO_BINDING
           THEN Tail(ValueOf(ty, b)) = Tail(v) /\ Len(b.emsk) = Len(b.msk) /\ b.msk # <<>>
           ELSE Agrees(ValueOf(ty, b), v)
<1>0. Agrees(v, v)
  <2>1. v \in Seq(Nat)
    BY OctetSeq
  <2> QED
    BY <2>1, AgreesSelf
<1>1. CASE ty = IDENTITY_TYPE \/ ty = RESULT
  <2>1. ty # ERROR /\ ty # NAK /\ ty # VENDOR_SPECIFIC
        /\ ty # INTERMEDIATE_RESULT /\ ty # CRYPTO_BINDING
    BY <1>1 DEF IDENTITY_TYPE, RESULT, ERROR, NAK, VENDOR_SPECIFIC, INTERMEDIATE_RESULT,
           CRYPTO_BINDING
  <2>2. b \in StatusBody(v) /\ ValueOf(ty, b) = BE(b)
    BY <1>1, <2>1, Zenon DEF Bodies, ValueOf
  <2>3. Agrees(ValueOf(ty, b), v)
    BY <1>0, <2>2, StatusBack, Zenon
  <2> QED
    BY <2>1, <2>3, Zenon
<1>2. CASE ty = ERROR
  <2>1. ty # IDENTITY_TYPE /\ ty # RESULT /\ ty # NAK
        /\ ty # VENDOR_SPECIFIC /\ ty # INTERMEDIATE_RESULT /\ ty # CRYPTO_BINDING
    BY <1>2 DEF IDENTITY_TYPE, RESULT, ERROR, NAK, VENDOR_SPECIFIC, INTERMEDIATE_RESULT,
           CRYPTO_BINDING
  <2>2. b \in ErrorBody(v) /\ ValueOf(ty, b) = BE32(b)
    BY <1>2, <2>1, Zenon DEF Bodies, ValueOf
  <2>3. Agrees(ValueOf(ty, b), v)
    BY <1>0, <2>2, ErrorBack, Zenon
  <2> QED
    BY <2>1, <2>3, Zenon
<1>3. CASE ty = NAK
  <2>1. ty # IDENTITY_TYPE /\ ty # RESULT /\ ty # ERROR
        /\ ty # VENDOR_SPECIFIC /\ ty # INTERMEDIATE_RESULT /\ ty # CRYPTO_BINDING
    BY <1>3 DEF IDENTITY_TYPE, RESULT, ERROR, NAK, VENDOR_SPECIFIC, INTERMEDIATE_RESULT,
           CRYPTO_BINDING
  <2>2. b \in NakBody(v) /\ ValueOf(ty, b) = BE32(b.vendor) \o BE(b.nakType) \o EncodeAll(b.tlvs)
    BY <1>3, <2>1, Zenon DEF Bodies, ValueOf
  <2>3. Agrees(ValueOf(ty, b), v)
    BY <2>2, NakBack, Zenon
  <2> QED
    BY <2>1, <2>3, Zenon
<1>4. CASE ty = VENDOR_SPECIFIC
  <2>1. ty # IDENTITY_TYPE /\ ty # RESULT /\ ty # ERROR
        /\ ty # NAK /\ ty # INTERMEDIATE_RESULT /\ ty # CRYPTO_BINDING
    BY <1>4 DEF IDENTITY_TYPE, RESULT, ERROR, NAK, VENDOR_SPECIFIC, INTERMEDIATE_RESULT,
           CRYPTO_BINDING
  <2>2. b \in VendorBody(v) /\ ValueOf(ty, b) = BE32(b.vendor) \o b.data
    BY <1>4, <2>1, Zenon DEF Bodies, ValueOf
  <2>3. Agrees(ValueOf(ty, b), v)
    BY <1>0, <2>2, VendorBack, Zenon
  <2> QED
    BY <2>1, <2>3, Zenon
<1>5. CASE ty = INTERMEDIATE_RESULT
  <2>1. ty # IDENTITY_TYPE /\ ty # RESULT /\ ty # ERROR
        /\ ty # NAK /\ ty # VENDOR_SPECIFIC /\ ty # CRYPTO_BINDING
    BY <1>5 DEF IDENTITY_TYPE, RESULT, ERROR, NAK, VENDOR_SPECIFIC, INTERMEDIATE_RESULT,
           CRYPTO_BINDING
  <2>2. b \in IntermediateResultBody(v) /\ ValueOf(ty, b) = BE(b.status) \o EncodeAll(b.tlvs)
    BY <1>5, <2>1, Zenon DEF Bodies, ValueOf
  <2>3. Agrees(ValueOf(ty, b), v)
    BY <2>2, IntermediateBack, Zenon
  <2> QED
    BY <2>1, <2>3, Zenon
<1>6. CASE ty = CRYPTO_BINDING
  <2>1. ty # IDENTITY_TYPE /\ ty # RESULT /\ ty # ERROR
        /\ ty # NAK /\ ty # VENDOR_SPECIFIC /\ ty # INTERMEDIATE_RESULT
    BY <1>6 DEF IDENTITY_TYPE, RESULT, ERROR, NAK, VENDOR_SPECIFIC, INTERMEDIATE_RESULT,
           CRYPTO_BINDING
  <2>2. b \in BindingBody(v)
        /\ ValueOf(ty, b) = <<0, b.version, b.received, b.subType>> \o b.nonce \o b.emsk \o b.msk
    BY <1>6, <2>1, Zenon DEF Bodies, ValueOf
  <2>3. Tail(ValueOf(ty, b)) = Tail(v) /\ Len(b.emsk) = Len(b.msk) /\ b.msk # <<>>
    BY <2>2, BindingBack, Zenon
  <2> QED
    BY <1>6, <2>3, Zenon
<1>7. CASE ty \notin {IDENTITY_TYPE, RESULT, ERROR, NAK, VENDOR_SPECIFIC, INTERMEDIATE_RESULT, CRYPTO_BINDING}
  <2>1. b = v /\ ValueOf(ty, b) = b
    BY <1>7, Zenon DEF Bodies, ValueOf
  <2>2. Agrees(ValueOf(ty, b), v)
    BY <1>0, <2>1, Zenon
  <2> QED
    BY <1>7, <2>2, Zenon
<1> QED
  BY <1>1, <1>2, <1>3, <1>4, <1>5, <1>6, <1>7, Zenon

-----------------------------------------------------------------------------
(* The flags of a TEAP message.                                             *)

\* Three flags of an octet, which has eight of the last, and a version below
\* them.
LEMMA FlagBits ==
    \E k \in Nat \ {0}, q \in Nat \ {0} :
        /\ FlagS = k /\ FlagM = 2 * k /\ FlagL = 4 * k /\ Base = 8 * k
        /\ VersionMask + 1 \in Nat \ {0} /\ k = (VersionMask + 1) * q
<1>1. Base \in Nat \ {0} /\ Base % 8 = 0
  BY BaseAssumption, FlagAssumption
<1> DEFINE k == Base \div 8
           n == VersionMask + 1
<1>2. k \in Nat \ {0} /\ Base = 8 * k
  BY <1>1
<1>3. FlagS = k
  BY DEF FlagS
<1> HIDE DEF k
<1>4. FlagM = 2 * k /\ FlagL = 4 * k
  BY <1>2 DEF FlagM, FlagL
<1>5. n \in Nat \ {0} /\ k % n = 0
  BY <1>3, FlagAssumption DEF VersionMask
<1> HIDE DEF n
<1>6. k \div n \in Nat /\ k = n * (k \div n) + (k % n)
  BY <1>2, <1>5, DivMod2
<1> DEFINE q == k \div n
<1>7. q \in Nat /\ k = n * q
  <2>1. q \in Nat /\ k = n * q + 0
    BY <1>5, <1>6
  <2> HIDE DEF q
  <2> QED
    BY <1>2, <1>5, <2>1
<1> HIDE DEF q
<1>8. q # 0
  BY <1>2, <1>5, <1>7
<1> QED
  BY <1>2, <1>3, <1>4, <1>5, <1>7, <1>8 DEF n

\* The octet with these flags, where the last of them is worth k.
Flags(k, a, b, c, r) ==
    (IF a = 1 THEN 4 * k ELSE 0) + (IF b = 1 THEN 2 * k ELSE 0) + (IF c = 1 THEN k ELSE 0) + r

\* The bit of a number, from its quotient.
LEMMA Bit ==
    ASSUME NEW d \in Nat \ {0}, NEW q \in Nat, NEW r \in 0..(d - 1), NEW x, x = d * q + r
    PROVE  IsSet(x, d) <=> q % 2 = 1
<1>1. x \in Nat
  OBVIOUS
<1>2. x \div d = q
  BY <1>1, DivMod
<1> QED
  BY <1>2 DEF IsSet

\* The flags that are set over the version r.
OfFlags(k, a, b, c, r) ==
    /\ Flags(k, a, b, c, r) \in Nat
    /\ IsSet(Flags(k, a, b, c, r), 4 * k) <=> a = 1
    /\ IsSet(Flags(k, a, b, c, r), 2 * k) <=> b = 1
    /\ IsSet(Flags(k, a, b, c, r), k) <=> c = 1

\* The flags of such an octet are these.
LEMMA FlagsOf ==
    ASSUME NEW k \in Nat \ {0}, NEW a \in {0, 1}, NEW b \in {0, 1}, NEW c \in {0, 1},
           NEW r \in 0..(k - 1)
    PROVE  OfFlags(k, a, b, c, r)
<1> DEFINE x == Flags(k, a, b, c, r)
           a1 == IF a = 1 THEN 4 * k ELSE 0
           b1 == IF b = 1 THEN 2 * k ELSE 0
           c1 == IF c = 1 THEN k ELSE 0
<1>0. x = ((a1 + b1) + c1) + r /\ r \in Nat /\ r < k
  BY DEF Flags
<1>1. (a = 1 /\ a1 = 4 * k) \/ (a = 0 /\ a1 = 0)
  OBVIOUS
<1>2. (b = 1 /\ b1 = 2 * k) \/ (b = 0 /\ b1 = 0)
  OBVIOUS
<1>3. (c = 1 /\ c1 = k) \/ (c = 0 /\ c1 = 0)
  OBVIOUS
<1> HIDE DEF x, a1, b1, c1
<1>4. 4 * k \in Nat \ {0} /\ 2 * k \in Nat \ {0}
  OBVIOUS
<1>5. 1 % 2 = 1 /\ 0 % 2 = 0 /\ 2 % 2 = 0 /\ 3 % 2 = 1 /\ 4 % 2 = 0 /\ 5 % 2 = 1 /\ 6 % 2 = 0 /\ 7 % 2 = 1
  OBVIOUS
<1>6. IsSet(x, 4 * k) <=> a = 1
  <2> DEFINE d == 4 * k
             s == (b1 + c1) + r
             Q(q) == x = d * q + s
  <2>1. s \in 0..(d - 1) /\ d \in Nat \ {0}
    BY <1>0, <1>2, <1>3, <1>4
  <2>2. /\ a = 1 => Q(1)
        /\ a = 0 => Q(0)
    BY <1>0, <1>1, <1>2, <1>3
  <2> HIDE DEF d, s
  <2>3. ASSUME NEW q \in Nat, Q(q) PROVE IsSet(x, d) <=> q % 2 = 1
    BY <2>1, <2>3, Bit
  <2> HIDE DEF Q
  <2>4. IsSet(x, d) <=> a = 1
    <3>1. CASE a = 1
      BY <1>5, <2>2, <2>3, <3>1
    <3>2. CASE a = 0
      BY <1>5, <2>2, <2>3, <3>2
    <3> QED
      BY <3>1, <3>2
  <2> QED
    BY <2>4 DEF d
<1>7. IsSet(x, 2 * k) <=> b = 1
  <2> DEFINE d == 2 * k
             s == c1 + r
             Q(q) == x = d * q + s
  <2>1. s \in 0..(d - 1) /\ d \in Nat \ {0}
    BY <1>0, <1>3, <1>4
  <2>2. /\ a = 1 /\ b = 1 => Q(3)
        /\ a = 1 /\ b = 0 => Q(2)
        /\ a = 0 /\ b = 1 => Q(1)
        /\ a = 0 /\ b = 0 => Q(0)
    BY <1>0, <1>1, <1>2, <1>3
  <2> HIDE DEF d, s
  <2>3. ASSUME NEW q \in Nat, Q(q) PROVE IsSet(x, d) <=> q % 2 = 1
    BY <2>1, <2>3, Bit
  <2> HIDE DEF Q
  <2>4. IsSet(x, d) <=> b = 1
    <3>1. CASE a = 1 /\ b = 1
      BY <1>5, <2>2, <2>3, <3>1
    <3>2. CASE a = 1 /\ b = 0
      BY <1>5, <2>2, <2>3, <3>2
    <3>3. CASE a = 0 /\ b = 1
      BY <1>5, <2>2, <2>3, <3>3
    <3>4. CASE a = 0 /\ b = 0
      BY <1>5, <2>2, <2>3, <3>4
    <3> QED
      BY <3>1, <3>2, <3>3, <3>4
  <2> QED
    BY <2>4 DEF d
<1>8. IsSet(x, k) <=> c = 1
  <2> DEFINE Q(q) == x = k * q + r
  <2>2. /\ a = 1 /\ b = 1 /\ c = 1 => Q(7)
        /\ a = 1 /\ b = 1 /\ c = 0 => Q(6)
        /\ a = 1 /\ b = 0 /\ c = 1 => Q(5)
        /\ a = 1 /\ b = 0 /\ c = 0 => Q(4)
        /\ a = 0 /\ b = 1 /\ c = 1 => Q(3)
        /\ a = 0 /\ b = 1 /\ c = 0 => Q(2)
        /\ a = 0 /\ b = 0 /\ c = 1 => Q(1)
        /\ a = 0 /\ b = 0 /\ c = 0 => Q(0)
    BY <1>0, <1>1, <1>2, <1>3
  <2>3. ASSUME NEW q \in Nat, Q(q) PROVE IsSet(x, k) <=> q % 2 = 1
    BY <2>3, Bit
  <2> HIDE DEF Q
  <2>4. CASE c = 1
    <3>1. Q(7) \/ Q(5) \/ Q(3) \/ Q(1)
      BY <2>2, <2>4
    <3>2. ASSUME NEW q \in {1, 3, 5, 7}, Q(q) PROVE IsSet(x, k)
      <4>1. q % 2 = 1 /\ q \in Nat
        BY <1>5, <3>2
      <4> QED
        BY <2>3, <3>2, <4>1
    <3> QED
      BY <2>4, <3>1, <3>2
  <2>5. CASE c = 0
    <3>1. Q(6) \/ Q(4) \/ Q(2) \/ Q(0)
      BY <2>2, <2>5
    <3>2. ASSUME NEW q \in {0, 2, 4, 6}, Q(q) PROVE ~IsSet(x, k)
      <4>1. q % 2 = 0 /\ q \in Nat
        BY <1>5, <3>2
      <4> QED
        BY <2>3, <3>2, <4>1
    <3> QED
      BY <2>5, <3>1, <3>2
  <2> QED
    BY <2>4, <2>5
<1>9. x \in Nat
  BY <1>0, <1>1, <1>2, <1>3
<1> QED
  BY <1>6, <1>7, <1>8, <1>9, Zenon DEF OfFlags, x

\* Every octet is such an octet.
LEMMA OctetFlags ==
    ASSUME NEW k \in Nat \ {0}, NEW x \in 0..(8 * k - 1)
    PROVE  \E a \in {0, 1}, b \in {0, 1}, c \in {0, 1}, r \in 0..(k - 1) : x = Flags(k, a, b, c, r)
<1> DEFINE m == 2 * k
<1>1. PICK s \in 0..(m - 1) : x = s \/ x = m + s \/ x = 2 * m + s \/ x = 3 * m + s
  <2>1. m \in Nat \ {0} /\ x \in 0..(4 * m - 1)
    OBVIOUS
  <2> HIDE DEF m
  <2> QED
    BY <2>1, Split
<1>2. \E c \in {0, 1}, r \in 0..(k - 1) : s = (IF c = 1 THEN k ELSE 0) + r
  <2>1. CASE s < k
    <3>1. s \in 0..(k - 1) /\ s = (IF 0 = 1 THEN k ELSE 0) + s
      BY <2>1
    <3> QED
      BY <3>1
  <2>2. CASE s >= k
    <3>1. s - k \in 0..(k - 1) /\ s = (IF 1 = 1 THEN k ELSE 0) + (s - k)
      BY <2>2
    <3> QED
      BY <3>1
  <2> QED
    BY <2>1, <2>2
<1>3. PICK c \in {0, 1}, r \in 0..(k - 1) : s = (IF c = 1 THEN k ELSE 0) + r
  BY <1>2
<1>4. \E a \in {0, 1}, b \in {0, 1} : x = ((IF a = 1 THEN 4 * k ELSE 0) + (IF b = 1 THEN 2 * k ELSE 0)) + s
  <2>1. CASE x = s
    <3>1. x = ((IF 0 = 1 THEN 4 * k ELSE 0) + (IF 0 = 1 THEN 2 * k ELSE 0)) + s
      BY <2>1
    <3> QED
      BY <3>1
  <2>2. CASE x = m + s
    <3>1. x = ((IF 0 = 1 THEN 4 * k ELSE 0) + (IF 1 = 1 THEN 2 * k ELSE 0)) + s
      BY <2>2
    <3> QED
      BY <3>1
  <2>3. CASE x = 2 * m + s
    <3>1. x = ((IF 1 = 1 THEN 4 * k ELSE 0) + (IF 0 = 1 THEN 2 * k ELSE 0)) + s
      BY <2>3
    <3> QED
      BY <3>1
  <2>4. CASE x = 3 * m + s
    <3>1. x = ((IF 1 = 1 THEN 4 * k ELSE 0) + (IF 1 = 1 THEN 2 * k ELSE 0)) + s
      BY <2>4
    <3> QED
      BY <3>1
  <2> QED
    BY <1>1, <2>1, <2>2, <2>3, <2>4
<1>5. PICK a \in {0, 1}, b \in {0, 1} :
        x = ((IF a = 1 THEN 4 * k ELSE 0) + (IF b = 1 THEN 2 * k ELSE 0)) + s
  BY <1>4
<1>6. x = Flags(k, a, b, c, r)
  <2> DEFINE a1 == IF a = 1 THEN 4 * k ELSE 0
             b1 == IF b = 1 THEN 2 * k ELSE 0
             c1 == IF c = 1 THEN k ELSE 0
  <2>1. a1 \in Nat /\ b1 \in Nat /\ c1 \in Nat /\ r \in Nat
    OBVIOUS
  <2>2. x = (a1 + b1) + s /\ s = c1 + r /\ Flags(k, a, b, c, r) = ((a1 + b1) + c1) + r
    BY <1>3, <1>5 DEF Flags
  <2> HIDE DEF a1, b1, c1
  <2> QED
    BY <2>1, <2>2
<1> QED
  BY <1>6

\* A whole number of times.
Goes(n, k) == \E q \in Nat \ {0} : k = n * q

\* The version v, alone and under its flags.
OfVersion(n, k, a, b, c, v) ==
    Flags(k, a, b, c, v) % n = v % n /\ v % n \in 0..(k - 1) /\ (v % n) % n = v % n

\* The version is below the flags.
LEMMA VersionOf ==
    ASSUME NEW n \in Nat \ {0}, NEW k \in Nat \ {0}, Goes(n, k),
           NEW a \in {0, 1}, NEW b \in {0, 1}, NEW c \in {0, 1}, NEW r \in 0..(k - 1)
    PROVE  OfVersion(n, k, a, b, c, r)
<1>q. PICK q \in Nat \ {0} : k = n * q
  BY DEF Goes
<1> DEFINE v == r % n
           p == r \div n
<1>0. v \in 0..(n - 1) /\ p \in Nat /\ r = n * p + v /\ r \in Nat
  <2>1. r \in Nat
    OBVIOUS
  <2> QED
    BY <2>1, DivMod2
<1> HIDE DEF v, p
<1>1. v <= r
  <2>1. n * p \in Nat
    BY <1>0
  <2> QED
    BY <1>0, <2>1
<1>2. v % n = v
  <2>1. v = n * 0 + v /\ v \in Nat
    BY <1>0
  <2> QED
    BY <1>0, <2>1, DivMod
<1>3. PICK m \in Nat : Flags(k, a, b, c, r) = k * m + r
  <2> DEFINE Q(m) == Flags(k, a, b, c, r) = k * m + r
  <2>1. CASE a = 1
    <3>1. /\ b = 1 /\ c = 1 => Q(7)
          /\ b = 1 /\ c = 0 => Q(6)
          /\ b = 0 /\ c = 1 => Q(5)
          /\ b = 0 /\ c = 0 => Q(4)
      BY <2>1 DEF Flags
    <3> HIDE DEF Q
    <3>2. Q(7) \/ Q(6) \/ Q(5) \/ Q(4)
      BY <3>1
    <3>3. \E m \in Nat : Q(m)
      BY <3>2
    <3> QED
      BY <3>3 DEF Q
  <2>2. CASE a = 0
    <3>1. /\ b = 1 /\ c = 1 => Q(3)
          /\ b = 1 /\ c = 0 => Q(2)
          /\ b = 0 /\ c = 1 => Q(1)
          /\ b = 0 /\ c = 0 => Q(0)
      BY <2>2 DEF Flags
    <3> HIDE DEF Q
    <3>2. Q(3) \/ Q(2) \/ Q(1) \/ Q(0)
      BY <3>1
    <3>3. \E m \in Nat : Q(m)
      BY <3>2
    <3> QED
      BY <3>3 DEF Q
  <2> QED
    BY <2>1, <2>2
<1>4. Flags(k, a, b, c, r) % n = v
  <2> DEFINE x == Flags(k, a, b, c, r)
             w == q * m + p
  <2>1. w \in Nat
    BY <1>0
  <2>2. x = n * w + v
    <3>1. k * m = n * (q * m)
      <4>1. (n * q) * m = n * (q * m)
        OBVIOUS
      <4> QED
        BY <1>q, <4>1
    <3>2. n * w = n * (q * m) + n * p
      BY <1>0
    <3>3. n * (q * m) \in Nat /\ n * p \in Nat /\ v \in Nat
      BY <1>0
    <3> HIDE DEF w, x
    <3>4. x = n * (q * m) + (n * p + v)
      BY <1>0, <1>3, <3>1 DEF x
    <3> QED
      BY <3>2, <3>3, <3>4
  <2> HIDE DEF w, x
  <2>3. x \in Nat
    <3>1. n * w \in Nat
      BY <2>1
    <3> QED
      BY <1>0, <2>2, <3>1
  <2>4. x % n = v
    BY <1>0, <2>1, <2>2, <2>3, DivMod
  <2> QED
    BY <2>4 DEF x
<1>5. v \in 0..(k - 1)
  BY <1>0, <1>1
<1> QED
  BY <1>2, <1>4, <1>5 DEF v, OfVersion

\* Strings that differ at most in their first octet agree after any other.
LEMMA FromSame ==
    ASSUME NEW x \in Seq(Nat), NEW y \in Seq(Nat), SameRest(x, y), NEW n \in Nat \ {0}, n <= Len(x)
    PROVE  From(x, n) = From(y, n)
<1>1. Len(y) = Len(x) /\ Len(x) \in Nat /\ \A k \in 1..Len(x) : k # 1 => x[k] = y[k]
  <2>1. Len(x) \in Nat
    OBVIOUS
  <2> QED
    BY <2>1, Zenon DEF SameRest
<1> DEFINE u == From(x, n)
           w == From(y, n)
           m == Len(x) - n
<1>2. n \in Nat /\ n <= Len(y) /\ Len(y) - n = m
  BY <1>1
<1>3. u \in Seq(Nat) /\ Len(u) = m /\ \A k \in 1..m : u[k] = x[n + k]
  BY <1>2, FromRest
<1>4. w \in Seq(Nat) /\ Len(w) = m /\ \A k \in 1..m : w[k] = y[n + k]
  <2>1. /\ From(y, n) \in Seq(Nat) /\ Len(From(y, n)) = Len(y) - n
        /\ \A k \in 1..(Len(y) - n) : From(y, n)[k] = y[n + k]
    BY <1>2, FromRest
  <2> HIDE DEF m
  <2> QED
    BY <1>2, <2>1
<1>5. \A k \in 1..m : n + k \in 1..Len(x) /\ n + k # 1
  BY <1>1
<1>6. m \in Nat
  BY <1>1
<1> HIDE DEF u, w, m
<1>7. u = w
  <2>1. \A k \in 1..m : u[k] = w[k]
    BY <1>1, <1>3, <1>4, <1>5
  <2> QED
    BY <1>3, <1>4, <2>1, SeqEqual
<1> QED
  BY <1>7 DEF u, w

\* The first octet stays first.
LEMMA FirstKept ==
    ASSUME NEW x \in Seq(Nat), NEW r \in Seq(Nat), x # <<>>
    PROVE  (x \o r)[1] = x[1] /\ x \o r \in Seq(Nat) /\ x \o r # <<>>
<1>1. /\ x \o r \in Seq(Nat) /\ Len(x \o r) = Len(x) + Len(r)
      /\ \A k \in 1..(Len(x) + Len(r)) : (x \o r)[k] = IF k <= Len(x) THEN x[k] ELSE r[k - Len(x)]
  BY ConcatProperties
<1>2. Len(x) \in Nat /\ Len(x) # 0 /\ Len(r) \in Nat
  OBVIOUS
<1>3. 1 \in 1..(Len(x) + Len(r)) /\ 1 <= Len(x)
  BY <1>2
<1> DEFINE u == x \o r
<1>4. Len(u) # 0
  BY <1>1, <1>2
<1> HIDE DEF u
<1>5. u # <<>>
  BY <1>4
<1> QED
  BY <1>1, <1>3, <1>5 DEF u

\* The TEAP message with a TLS length, with none, and with too few octets.
LEMMA OuterForm ==
    ASSUME NEW d \in Seq(Nat), d # <<>>
    PROVE  /\ IsSet(d[1], FlagL) /\ Len(d) < 5 => ParseOuter(d) = {}
           /\ IsSet(d[1], FlagL) /\ ~(Len(d) < 5) =>
                ParseOuter(d) = {[more |-> IsSet(d[1], FlagM), start |-> IsSet(d[1], FlagS),
                                  version |-> d[1] % (VersionMask + 1),
                                  total |-> {U32(d, 1)}, data |-> From(d, 5)]}
           /\ ~IsSet(d[1], FlagL) =>
                ParseOuter(d) = {[more |-> IsSet(d[1], FlagM), start |-> IsSet(d[1], FlagS),
                                  version |-> d[1] % (VersionMask + 1),
                                  total |-> {}, data |-> From(d, 1)]}
<1>1. CASE IsSet(d[1], FlagL) /\ Len(d) < 5
  BY <1>1, Zenon DEF ParseOuter
<1>2. CASE IsSet(d[1], FlagL) /\ ~(Len(d) < 5)
  BY <1>2, Zenon DEF ParseOuter
<1>3. CASE ~IsSet(d[1], FlagL)
  BY <1>3, Zenon DEF ParseOuter
<1> QED
  BY <1>1, <1>2, <1>3, Zenon

\* What the flags say, and the octets after them, is all that is read of it.
LEMMA SameParse ==
    ASSUME NEW d \in Seq(Nat), NEW e \in Seq(Nat), SameRest(e, d), e # <<>>,
           IsSet(e[1], FlagL) <=> IsSet(d[1], FlagL),
           IsSet(e[1], FlagM) <=> IsSet(d[1], FlagM),
           IsSet(e[1], FlagS) <=> IsSet(d[1], FlagS),
           e[1] % (VersionMask + 1) = d[1] % (VersionMask + 1)
    PROVE  ParseOuter(e) = ParseOuter(d)
<1>1. Len(e) = Len(d) /\ Len(d) \in Nat /\ Len(d) # 0 /\ d # <<>>
      /\ \A k \in 1..Len(d) : k # 1 => e[k] = d[k]
  BY DEF SameRest
<1>2. From(e, 1) = From(d, 1)
  <2>1. 1 \in Nat \ {0} /\ 1 <= Len(e)
    BY <1>1
  <2> QED
    BY <2>1, FromSame
<1>3. ~(Len(d) < 5) => From(e, 5) = From(d, 5) /\ U32(e, 1) = U32(d, 1)
  <2> SUFFICES ASSUME ~(Len(d) < 5) PROVE From(e, 5) = From(d, 5) /\ U32(e, 1) = U32(d, 1)
    OBVIOUS
  <2>1. 5 \in Nat \ {0} /\ 5 <= Len(e)
    BY <1>1
  <2>2. From(e, 5) = From(d, 5)
    BY <2>1, FromSame
  <2>3. e[2] = d[2] /\ e[3] = d[3] /\ e[4] = d[4] /\ e[5] = d[5]
    <3>1. /\ 2 \in 1..Len(d) /\ 3 \in 1..Len(d) /\ 4 \in 1..Len(d) /\ 5 \in 1..Len(d)
          /\ 2 # 1 /\ 3 # 1 /\ 4 # 1 /\ 5 # 1
      BY <1>1
    <3> QED
      BY <1>1, <3>1, Zenon
  <2>4. 1 + 1 = 2 /\ 1 + 2 = 3 /\ 3 + 1 = 4 /\ 3 + 2 = 5
    OBVIOUS
  <2>5. U16(e, 1) = U16(d, 1) /\ U16(e, 3) = U16(d, 3)
    BY <2>3, <2>4 DEF U16
  <2>6. U32(e, 1) = U32(d, 1)
    BY <2>4, <2>5 DEF U32
  <2> QED
    BY <2>2, <2>6
<1>4. /\ IsSet(e[1], FlagM) = IsSet(d[1], FlagM)
      /\ IsSet(e[1], FlagS) = IsSet(d[1], FlagS)
  BY DEF IsSet
<1>5. CASE IsSet(d[1], FlagL) /\ Len(d) < 5
  BY <1>1, <1>5, OuterForm
<1>6. CASE IsSet(d[1], FlagL) /\ ~(Len(d) < 5)
  <2>1. ~(Len(e) < 5) /\ IsSet(e[1], FlagL)
    BY <1>1, <1>6
  <2>2. ParseOuter(e) = {[more |-> IsSet(e[1], FlagM), start |-> IsSet(e[1], FlagS),
                          version |-> e[1] % (VersionMask + 1),
                          total |-> {U32(e, 1)}, data |-> From(e, 5)]}
    BY <2>1, OuterForm, Zenon
  <2>3. ParseOuter(d) = {[more |-> IsSet(d[1], FlagM), start |-> IsSet(d[1], FlagS),
                          version |-> d[1] % (VersionMask + 1),
                          total |-> {U32(d, 1)}, data |-> From(d, 5)]}
    BY <1>1, <1>6, OuterForm, Zenon
  <2>4. From(e, 5) = From(d, 5) /\ U32(e, 1) = U32(d, 1)
    BY <1>3, <1>6
  <2> QED
    BY <1>4, <2>2, <2>3, <2>4, Zenon
<1>7. CASE ~IsSet(d[1], FlagL)
  <2>1. ~IsSet(e[1], FlagL)
    BY <1>7
  <2>2. ParseOuter(e) = {[more |-> IsSet(e[1], FlagM), start |-> IsSet(e[1], FlagS),
                          version |-> e[1] % (VersionMask + 1),
                          total |-> {}, data |-> From(e, 1)]}
    BY <2>1, OuterForm, Zenon
  <2>3. ParseOuter(d) = {[more |-> IsSet(d[1], FlagM), start |-> IsSet(d[1], FlagS),
                          version |-> d[1] % (VersionMask + 1),
                          total |-> {}, data |-> From(d, 1)]}
    BY <1>1, <1>7, OuterForm, Zenon
  <2> QED
    BY <1>2, <1>4, <2>2, <2>3, Zenon
<1> QED
  BY <1>5, <1>6, <1>7

\* An octet x and one with its flags over its version alone.
Alone(n, k, a, b, c, x) == \E v \in 0..(k - 1) :
    /\ x % n = v /\ v % n = v
    /\ Flags(k, a, b, c, v) % n = v
    /\ Flags(k, a, b, c, v) \in Nat
    /\ (IsSet(x, 4 * k) <=> a = 1) /\ (IsSet(Flags(k, a, b, c, v), 4 * k) <=> a = 1)
    /\ (IsSet(x, 2 * k) <=> b = 1) /\ (IsSet(Flags(k, a, b, c, v), 2 * k) <=> b = 1)
    /\ (IsSet(x, k) <=> c = 1) /\ (IsSet(Flags(k, a, b, c, v), k) <=> c = 1)

\* Every octet has such flags over its version.
LEMMA VersionAlone ==
    ASSUME NEW n \in Nat \ {0}, NEW k \in Nat \ {0}, Goes(n, k),
           NEW a \in {0, 1}, NEW b \in {0, 1}, NEW c \in {0, 1}, NEW r \in 0..(k - 1)
    PROVE  Alone(n, k, a, b, c, Flags(k, a, b, c, r))
<1> DEFINE w == r % n
<1>1. Flags(k, a, b, c, r) % n = r % n /\ r % n \in 0..(k - 1) /\ (r % n) % n = r % n
  <2>1. OfVersion(n, k, a, b, c, r)
    BY VersionOf, ZenonT(60)
  <2> QED
    BY <2>1, Zenon DEF OfVersion
<1>2. w \in 0..(k - 1) /\ Flags(k, a, b, c, r) % n = w /\ w % n = w
  BY <1>1
<1> HIDE DEF w
<1>3. Flags(k, a, b, c, w) % n = w % n
  <2>1. OfVersion(n, k, a, b, c, w)
    <3>1. w \in 0..(k - 1)
      BY <1>2, Zenon
    <3> QED
      BY <3>1, VersionOf, ZenonT(60)
  <2> QED
    BY <2>1, Zenon DEF OfVersion
<1>4. /\ IsSet(Flags(k, a, b, c, r), 4 * k) <=> a = 1
      /\ IsSet(Flags(k, a, b, c, r), 2 * k) <=> b = 1
      /\ IsSet(Flags(k, a, b, c, r), k) <=> c = 1
  <2>1. OfFlags(k, a, b, c, r)
    BY FlagsOf, Zenon
  <2> QED
    BY <2>1, Zenon DEF OfFlags
<1>5. /\ Flags(k, a, b, c, w) \in Nat
      /\ IsSet(Flags(k, a, b, c, w), 4 * k) <=> a = 1
      /\ IsSet(Flags(k, a, b, c, w), 2 * k) <=> b = 1
      /\ IsSet(Flags(k, a, b, c, w), k) <=> c = 1
  <2>1. OfFlags(k, a, b, c, w)
    <3>1. w \in 0..(k - 1)
      BY <1>2, Zenon
    <3> QED
      BY <3>1, FlagsOf, ZenonT(60)
  <2> QED
    BY <2>1, Zenon DEF OfFlags
<1> QED
  BY <1>2, <1>3, <1>4, <1>5, Zenon DEF Alone

\* The octet of flags that is written for what was read.
LEMMA FlagsWritten ==
    ASSUME NEW x \in Octet, NEW o, NEW long,
           long <=> IsSet(x, FlagL), o.more <=> IsSet(x, FlagM), o.start <=> IsSet(x, FlagS),
           o.version = x % (VersionMask + 1)
    PROVE  \E y \in Nat :
              /\ FlagIf(long, FlagL) + FlagIf(o.more, FlagM) + FlagIf(o.start, FlagS)
                   + (o.version % (VersionMask + 1)) = y
              /\ IsSet(y, FlagL) <=> IsSet(x, FlagL)
              /\ IsSet(y, FlagM) <=> IsSet(x, FlagM)
              /\ IsSet(y, FlagS) <=> IsSet(x, FlagS)
              /\ y % (VersionMask + 1) = x % (VersionMask + 1)
<1> DEFINE vm == VersionMask + 1
<1>1. PICK w \in Nat \ {0}, g \in Nat \ {0} :
        /\ FlagS = w /\ FlagM = 2 * w /\ FlagL = 4 * w /\ Base = 8 * w
        /\ vm \in Nat \ {0} /\ w = vm * g
  BY FlagBits
<1>2. x \in 0..(8 * w - 1)
  BY <1>1 DEF Octet
<1> HIDE DEF vm
<1>3. PICK a0 \in {0, 1}, b0 \in {0, 1}, c0 \in {0, 1}, r0 \in 0..(w - 1) : x = Flags(w, a0, b0, c0, r0)
  BY <1>1, <1>2, OctetFlags
<1>4. PICK v0 \in 0..(w - 1) :
        /\ x % vm = v0 /\ v0 % vm = v0
        /\ Flags(w, a0, b0, c0, v0) % vm = v0
        /\ Flags(w, a0, b0, c0, v0) \in Nat
        /\ (IsSet(x, 4 * w) <=> a0 = 1) /\ (IsSet(Flags(w, a0, b0, c0, v0), 4 * w) <=> a0 = 1)
        /\ (IsSet(x, 2 * w) <=> b0 = 1) /\ (IsSet(Flags(w, a0, b0, c0, v0), 2 * w) <=> b0 = 1)
        /\ (IsSet(x, w) <=> c0 = 1) /\ (IsSet(Flags(w, a0, b0, c0, v0), w) <=> c0 = 1)
  <2>1. Goes(vm, w)
    BY <1>1 DEF Goes
  <2>2. vm \in Nat \ {0} /\ w \in Nat \ {0}
    BY <1>1
  <2>3. /\ a0 \in {0, 1} /\ b0 \in {0, 1} /\ c0 \in {0, 1} /\ r0 \in 0..(w - 1)
        /\ x = Flags(w, a0, b0, c0, r0)
    BY <1>3
  <2>4. Alone(vm, w, a0, b0, c0, Flags(w, a0, b0, c0, r0))
    BY <2>1, <2>2, <2>3, VersionAlone
  <2> QED
    BY <2>3, <2>4, Zenon DEF Alone
<1> DEFINE y == Flags(w, a0, b0, c0, v0)
<1>5. FlagS = w /\ FlagM = 2 * w /\ FlagL = 4 * w
  BY <1>1
<1>6. FlagIf(long, FlagL) + FlagIf(o.more, FlagM) + FlagIf(o.start, FlagS) + (o.version % vm) = y
  <2>1. FlagIf(long, FlagL) = IF a0 = 1 THEN 4 * w ELSE 0
    BY <1>4, <1>5 DEF FlagIf
  <2>2. FlagIf(o.more, FlagM) = IF b0 = 1 THEN 2 * w ELSE 0
    BY <1>4, <1>5 DEF FlagIf
  <2>3. FlagIf(o.start, FlagS) = IF c0 = 1 THEN w ELSE 0
    BY <1>4, <1>5 DEF FlagIf
  <2>4. o.version % vm = v0
    BY <1>4 DEF vm
  <2> QED
    BY <2>1, <2>2, <2>3, <2>4, Zenon DEF Flags
<1>7. /\ y \in Nat /\ y % vm = x % vm
      /\ IsSet(y, FlagL) <=> IsSet(x, FlagL)
      /\ IsSet(y, FlagM) <=> IsSet(x, FlagM)
      /\ IsSet(y, FlagS) <=> IsSet(x, FlagS)
  BY <1>4, <1>5, Zenon
<1> HIDE DEF y
<1> QED
  BY <1>6, <1>7 DEF vm

\* A TEAP message is written as it was read but for the Reserved bits.
LEMMA OuterBack ==
    ASSUME NEW d \in Seq(Octet), NEW o \in ParseOuter(d)
    PROVE  Tail(BuildOuter(o)) = Tail(d) /\ ParseOuter(BuildOuter(o)) = {o}
<1>0. d \in Seq(Nat)
  BY OctetSeq
<1>1. d # <<>> /\ Len(d) \in Nat /\ Len(d) # 0 /\ d[1] \in Octet
  <2>1. d # <<>>
    BY Zenon DEF ParseOuter
  <2> QED
    BY <2>1
<1> DEFINE f == d[1]
           ext == IsSet(f, FlagL)
           mid == IF ext THEN SubSeq(d, 2, 5) ELSE <<>>
           rest == IF ext THEN From(d, 5) ELSE From(d, 1)
           n == IF ext THEN 5 ELSE 1
<1>2. /\ ext => ~(Len(d) < 5)
      /\ ParseOuter(d) = {o}
      /\ (o.more <=> IsSet(f, FlagM)) /\ (o.start <=> IsSet(f, FlagS))
      /\ o.version = f % (VersionMask + 1)
      /\ o.total = (IF ext THEN {U32(d, 1)} ELSE {}) /\ o.data = rest
  <2>1. CASE ext
    <3>1. ~(Len(d) < 5)
      BY <1>0, <1>1, <2>1, OuterForm
    <3>2. ParseOuter(d) = {[more |-> IsSet(f, FlagM), start |-> IsSet(f, FlagS),
                            version |-> f % (VersionMask + 1),
                            total |-> {U32(d, 1)}, data |-> From(d, 5)]}
      BY <1>0, <1>1, <2>1, <3>1, OuterForm, Zenon
    <3> HIDE DEF f, ext
    <3>3. o = [more |-> IsSet(f, FlagM), start |-> IsSet(f, FlagS),
               version |-> f % (VersionMask + 1),
               total |-> {U32(d, 1)}, data |-> From(d, 5)]
      BY <3>2
    <3>4. ParseOuter(d) = {o}
      BY <3>2, <3>3
    <3>5. /\ (o.more <=> IsSet(f, FlagM)) /\ (o.start <=> IsSet(f, FlagS))
          /\ o.version = f % (VersionMask + 1) /\ o.total = {U32(d, 1)} /\ o.data = From(d, 5)
      BY <3>3
    <3> QED
      BY <2>1, <3>1, <3>4, <3>5
  <2>2. CASE ~ext
    <3>2. ParseOuter(d) = {[more |-> IsSet(f, FlagM), start |-> IsSet(f, FlagS),
                            version |-> f % (VersionMask + 1),
                            total |-> {}, data |-> From(d, 1)]}
      BY <1>0, <1>1, <2>2, OuterForm, Zenon
    <3> HIDE DEF f, ext
    <3>3. o = [more |-> IsSet(f, FlagM), start |-> IsSet(f, FlagS),
               version |-> f % (VersionMask + 1),
               total |-> {}, data |-> From(d, 1)]
      BY <3>2
    <3>4. ParseOuter(d) = {o}
      BY <3>2, <3>3
    <3>5. /\ (o.more <=> IsSet(f, FlagM)) /\ (o.start <=> IsSet(f, FlagS))
          /\ o.version = f % (VersionMask + 1) /\ o.total = {} /\ o.data = From(d, 1)
      BY <3>3
    <3> QED
      BY <2>2, <3>4, <3>5
  <2> QED
    BY <2>1, <2>2
<1>3. o.total # {} <=> ext
  BY <1>2
<1>4. f \in Octet
  BY <1>1
<1>5. PICK y \in Nat :
        /\ FlagIf(o.total # {}, FlagL) + FlagIf(o.more, FlagM) + FlagIf(o.start, FlagS)
             + (o.version % (VersionMask + 1)) = y
        /\ IsSet(y, FlagL) <=> IsSet(f, FlagL)
        /\ IsSet(y, FlagM) <=> IsSet(f, FlagM)
        /\ IsSet(y, FlagS) <=> IsSet(f, FlagS)
        /\ y % (VersionMask + 1) = f % (VersionMask + 1)
  <2> DEFINE l == o.total # {}
  <2>1. l <=> IsSet(f, FlagL)
    BY <1>3
  <2>2. (o.more <=> IsSet(f, FlagM)) /\ (o.start <=> IsSet(f, FlagS))
        /\ o.version = f % (VersionMask + 1)
    BY <1>2
  <2> HIDE DEF f, l
  <2>3. \E y \in Nat :
          /\ FlagIf(l, FlagL) + FlagIf(o.more, FlagM) + FlagIf(o.start, FlagS)
               + (o.version % (VersionMask + 1)) = y
          /\ IsSet(y, FlagL) <=> IsSet(f, FlagL)
          /\ IsSet(y, FlagM) <=> IsSet(f, FlagM)
          /\ IsSet(y, FlagS) <=> IsSet(f, FlagS)
          /\ y % (VersionMask + 1) = f % (VersionMask + 1)
    BY <1>4, <2>1, <2>2, FlagsWritten
  <2> QED
    BY <2>3, Zenon DEF l
<1> DEFINE x == <<y>>
           h == SubSeq(d, 1, 1)
<1>6. BuildOuter(o) = (x \o mid) \o rest
  <2>1. BuildOuter(o) = <<y>> \o (IF o.total = {} THEN <<>> ELSE BE32(CHOOSE m \in o.total : TRUE)) \o o.data
    BY <1>5, Zenon DEF BuildOuter, Written
  <2>2. (IF o.total = {} THEN <<>> ELSE BE32(CHOOSE m \in o.total : TRUE)) = mid
    <3>1. CASE ext
      <4>1. o.total = {U32(d, 1)}
        BY <1>2, <3>1
      <4>2. (CHOOSE m \in o.total : TRUE) = U32(d, 1)
        BY <4>1
      <4>3. 1 \in Nat /\ 1 + 4 <= Len(d) /\ 1 + 1 = 2 /\ 1 + 4 = 5
        BY <1>1, <1>2, <3>1
      <4>4. BE32(U32(d, 1)) = SubSeq(d, 1 + 1, 1 + 4)
        BY <4>3, U32Of
      <4>5. BE32(U32(d, 1)) = SubSeq(d, 2, 5)
        BY <4>3, <4>4
      <4> QED
        BY <3>1, <4>1, <4>2, <4>5
    <3>2. CASE ~ext
      BY <1>2, <3>2
    <3> QED
      BY <3>1, <3>2
  <2> HIDE DEF mid, rest
  <2> QED
    BY <1>2, <2>1, <2>2
<1>7. mid \in Seq(Nat) /\ rest \in Seq(Nat) /\ (h \o mid) \o rest = d
      /\ h \in Seq(Nat) /\ Len(h) = 1
  <2>0. 1 \in Nat /\ 1 <= Len(d) /\ 0 \in Nat /\ 0 + 1 = 1
    BY <1>1
  <2>1. h \in Seq(Nat) /\ Len(h) = 1 /\ h \o From(d, 1) = d
    BY <1>0, <2>0, Whole
  <2>2. CASE ext
    <3>1. 5 \in Nat /\ 1 <= 5 /\ 0 <= 1 /\ 5 <= Len(d) /\ 1 + 1 = 2
      BY <1>1, <1>2, <2>2
    <3>2. SubSeq(d, 1 + 1, 5) \in Seq(Nat)
      BY <1>0, <2>0, <3>1, Part
    <3>3. SubSeq(d, 0 + 1, 1) \o SubSeq(d, 1 + 1, 5) = SubSeq(d, 0 + 1, 5)
      BY <1>0, <2>0, <3>1, Meet
    <3>4. SubSeq(d, 1, 5) \o From(d, 5) = d
      BY <1>0, <3>1, Whole
    <3>5. From(d, 5) \in Seq(Nat)
      BY <1>0, <3>1, FromRest
    <3>6. mid = SubSeq(d, 2, 5) /\ rest = From(d, 5)
      BY <2>2
    <3> HIDE DEF mid, rest, ext
    <3> QED
      BY <2>0, <2>1, <3>1, <3>2, <3>3, <3>4, <3>5, <3>6
  <2>3. CASE ~ext
    <3>1. From(d, 1) \in Seq(Nat)
      BY <1>0, <2>0, FromRest
    <3>2. h \o <<>> = h
      BY <2>1, ConcatEmptySeq
    <3>3. mid = <<>> /\ rest = From(d, 1)
      BY <2>3
    <3>4. <<>> \in Seq(Nat)
      OBVIOUS
    <3> HIDE DEF mid, rest, ext, h
    <3> QED
      BY <2>1, <3>1, <3>2, <3>3, <3>4
  <2> QED
    BY <2>2, <2>3
<1>8. x \in Seq(Nat) /\ Len(x) = 1 /\ x[1] = y /\ x # <<>>
  OBVIOUS
<1>9. SameRest(x, h)
  BY <1>7, <1>8 DEF SameRest
<1> HIDE DEF x, h, mid, rest, ext
<1> DEFINE xm == x \o mid
           hm == h \o mid
           e == xm \o rest
<1>10. SameRest(xm, hm) /\ xm \in Seq(Nat) /\ hm \in Seq(Nat) /\ xm # <<>>
  BY <1>7, <1>8, <1>9, SameRestConcat
<1>11. xm[1] = y
  BY <1>7, <1>8, FirstKept
<1> HIDE DEF xm, hm
<1>12. SameRest(e, hm \o rest) /\ e \in Seq(Nat) /\ e # <<>>
  BY <1>7, <1>10, SameRestConcat
<1>13. e[1] = y
  BY <1>7, <1>10, <1>11, FirstKept
<1>14. hm \o rest = d /\ BuildOuter(o) = e
  BY <1>6, <1>7 DEF xm, hm
<1> HIDE DEF e
<1>15. Tail(e) = Tail(d)
  BY <1>0, <1>12, <1>14, SameRestTail
<1>16. ParseOuter(e) = ParseOuter(d)
  BY <1>0, <1>5, <1>12, <1>13, <1>14, SameParse
<1> QED
  BY <1>2, <1>14, <1>15, <1>16

-----------------------------------------------------------------------------
(* What is read from the wire is written back.                              *)

\* The header of an EAP packet declares its length.
LEMMA EapDeclares ==
    ASSUME NEW d \in Seq(Octet), NEW p \in DecodeEap(d)
    PROVE  /\ 4 <= Len(d) /\ U16(d, 2) = Len(d)
           /\ \/ p = [code |-> d[1], id |-> d[2], type |-> <<>>, data |-> <<>>]
              \/ /\ 5 <= Len(d)
                 /\ p = [code |-> d[1], id |-> d[2], type |-> <<d[5]>>, data |-> From(d, 5)]
<1>1. ~(Len(d) < EapHeaderLen) /\ Declares(d)
  BY Zenon DEF DecodeEap
<1>2. 4 <= Len(d) /\ U16(d, 2) = Len(d) /\ Len(d) \in Nat
  BY <1>1 DEF EapHeaderLen, Declares
<1>3. CASE EapCode(d[1]) \notin CarriesType
  <2>1. DecodeEap(d) = {[code |-> d[1], id |-> d[2], type |-> <<>>, data |-> <<>>]}
    BY <1>1, <1>3, Zenon DEF DecodeEap
  <2> QED
    BY <1>2, <2>1
<1>4. CASE ~(EapCode(d[1]) \notin CarriesType)
  <2>1. ~(Len(d) = EapHeaderLen)
    BY <1>1, <1>4, Zenon DEF DecodeEap
  <2>2. DecodeEap(d) = {[code |-> d[1], id |-> d[2], type |-> <<d[5]>>, data |-> From(d, 5)]}
    BY <1>1, <1>4, <2>1, Zenon DEF DecodeEap
  <2>3. 5 <= Len(d)
    BY <1>2, <2>1 DEF EapHeaderLen
  <2> QED
    BY <1>2, <2>2, <2>3
<1> QED
  BY <1>3, <1>4

\* The length of a packet that is only a header.
LEMMA HeaderAlone == EapHeaderLen \in 0..MaxValue /\ BE(EapHeaderLen) = <<0, EapHeaderLen>>
<1>1. Base \in Nat /\ Base >= 8
  <2>1. Base \in Nat \ {0} /\ Base % 8 = 0
    BY BaseAssumption, FlagAssumption
  <2> QED
    BY <2>1
<1>2. 0 \in Octet /\ EapHeaderLen \in Octet
  BY <1>1 DEF Octet, EapHeaderLen
<1>3. Base * 0 + EapHeaderLen \in 0..MaxValue /\ BE(Base * 0 + EapHeaderLen) = <<0, EapHeaderLen>>
  BY <1>2, BEInverse
<1>4. Base * 0 + EapHeaderLen = EapHeaderLen
  BY <1>1 DEF EapHeaderLen
<1> QED
  BY <1>3, <1>4

\* A packet that carries no type is written as its header.
LEMMA EapHeader ==
    ASSUME NEW p, NEW x \in Nat, NEW y \in Nat, p = [code |-> x, id |-> y, type |-> <<>>, data |-> <<>>]
    PROVE  EncodeEap(p) = {<<p.code, p.id, 0, EapHeaderLen>>}
<1> DEFINE t == EapHeaderLen + Len(p.type) + Len(p.data)
<1>1. p.type = <<>> /\ p.data = <<>> /\ p.code = x /\ p.id = y
  OBVIOUS
<1>2. t = EapHeaderLen
  BY <1>1 DEF EapHeaderLen
<1>3. EapHeaderLen \in Nat /\ ~(EapHeaderLen > MaxValue) /\ BE(EapHeaderLen) = <<0, EapHeaderLen>>
  <2>1. MaxValue \in Nat
    BY BaseFacts DEF MaxValue
  <2> QED
    BY <2>1, HeaderAlone
<1> HIDE DEF t
<1>4. EncodeEap(p) = {<<p.code, p.id>> \o BE(t) \o <<>>}
  <2>1. EncodeEap(p) = IF t > MaxValue THEN {} ELSE {<<p.code, p.id>> \o BE(t) \o (IF p.type = <<>> THEN <<>> ELSE p.type \o p.data)}
    BY Zenon DEF EncodeEap, t
  <2> QED
    BY <1>1, <1>2, <1>3, <2>1, Zenon
<1>5. <<x, y>> \o <<0, EapHeaderLen>> \o <<>> = <<x, y, 0, EapHeaderLen>>
  <2> DEFINE u == <<x, y>> \o <<0, EapHeaderLen>> \o <<>>
             w == <<x, y, 0, EapHeaderLen>>
             h == EapHeaderLen
  <2>0. 0 \in Nat /\ h \in Nat /\ <<>> \in Seq(Nat) /\ Len(<<>>) = 0 /\ 4 + 0 = 4
    BY <1>3
  <2>1. u \in Seq(Nat) /\ Len(u) = 4 + Len(<<>>) /\ u[1] = x /\ u[2] = y /\ u[3] = 0 /\ u[4] = h
    <3> HIDE DEF h
    <3> QED
      BY <2>0, Four DEF h
  <2>2. w \in Seq(Nat) /\ Len(w) = 4 /\ w[1] = x /\ w[2] = y /\ w[3] = 0 /\ w[4] = h
    BY <1>3
  <2>3. \A k \in 1..4 : k = 1 \/ k = 2 \/ k = 3 \/ k = 4
    OBVIOUS
  <2> HIDE DEF u, w, h
  <2>4. \A k \in 1..4 : u[k] = w[k]
    BY <2>1, <2>2, <2>3
  <2>5. u = w
    <3>1. Len(u) = 4
      BY <2>0, <2>1
    <3> QED
      BY <2>1, <2>2, <2>4, <3>1, SeqEqual
  <2> QED
    BY <2>5 DEF u, w
<1> QED
  BY <1>1, <1>2, <1>3, <1>4, <1>5

\* A packet that carries a type is written as it was read.
LEMMA EapBack ==
    ASSUME NEW d \in Seq(Octet), 5 <= Len(d), U16(d, 2) = Len(d),
           NEW p, p = [code |-> d[1], id |-> d[2], type |-> <<d[5]>>, data |-> From(d, 5)]
    PROVE  EncodeEap(p) = {d} /\ p.data \in Seq(Octet) /\ p.type # <<>>
<1> DEFINE t == EapHeaderLen + Len(p.type) + Len(p.data)
           n == Len(d)
<1>0. d \in Seq(Nat) /\ n \in Nat /\ 5 <= n
  BY OctetSeq
<1>1. p.type = <<d[5]>> /\ p.data = From(d, 5) /\ p.code = d[1] /\ p.id = d[2]
  OBVIOUS
<1>2. From(d, 5) \in Seq(Octet) /\ Len(From(d, 5)) = n - 5
  <2>1. 5 \in Nat /\ 5 <= Len(d)
    OBVIOUS
  <2> QED
    BY <2>1, FromRest
<1>3. p.type # <<>> /\ Len(p.type) = 1
  BY <1>1
<1>4. t = n
  BY <1>0, <1>1, <1>2, <1>3 DEF EapHeaderLen
<1>5. ~(n > MaxValue) /\ BE(n) = SubSeq(d, 3, 4)
  <2>1. 2 \in Nat /\ 2 + 2 <= Len(d) /\ 2 + 1 = 3 /\ 2 + 2 = 4
    BY <1>0
  <2>2. U16(d, 2) \in 0..MaxValue /\ BE(U16(d, 2)) = SubSeq(d, 2 + 1, 2 + 2)
    BY <2>1, TwoFrom
  <2>3. MaxValue \in Nat
    BY BaseFacts DEF MaxValue
  <2> QED
    BY <2>1, <2>2, <2>3
<1> HIDE DEF t, n
<1>6. EncodeEap(p) = {<<p.code, p.id>> \o BE(n) \o (p.type \o p.data)}
  <2>1. EncodeEap(p) = IF t > MaxValue THEN {} ELSE {<<p.code, p.id>> \o BE(t) \o (IF p.type = <<>> THEN <<>> ELSE p.type \o p.data)}
    BY Zenon DEF EncodeEap, t
  <2> QED
    BY <1>3, <1>4, <1>5, <2>1, Zenon
<1>7. <<d[1], d[2]>> = SubSeq(d, 1, 2)
  <2>1. 0 \in Nat /\ 0 + 2 <= Len(d) /\ 0 + 1 = 1 /\ 0 + 2 = 2
    BY <1>0 DEF n
  <2>2. BE(U16(d, 0)) = <<d[0 + 1], d[0 + 2]>> /\ BE(U16(d, 0)) = SubSeq(d, 0 + 1, 0 + 2)
    BY <2>1, TwoFrom
  <2> QED
    BY <2>1, <2>2
<1>8. <<d[5]>> \o From(d, 5) = From(d, 4)
  <2>1. 4 \in Nat /\ 5 \in Nat /\ 4 <= 5 /\ 5 <= n /\ n <= Len(d) /\ 4 + 1 = 5 /\ 5 - 4 = 1
    BY <1>0 DEF n
  <2>2. SubSeq(d, 4 + 1, 5) \o SubSeq(d, 5 + 1, n) = SubSeq(d, 4 + 1, n)
    BY <1>0, <2>1, Meet
  <2>3. SubSeq(d, 4 + 1, 5) = <<d[5]>>
    <3>1. SubSeq(d, 4 + 1, 5) \in Seq(Nat) /\ Len(SubSeq(d, 4 + 1, 5)) = 5 - 4
          /\ \A k \in 1..(5 - 4) : SubSeq(d, 4 + 1, 5)[k] = d[4 + k]
      <4>1. 5 <= Len(d)
        BY <1>0 DEF n
      <4> QED
        BY <1>0, <2>1, <4>1, Part
    <3> DEFINE u == SubSeq(d, 4 + 1, 5)
               w == <<d[5]>>
    <3>2. u \in Seq(Nat) /\ Len(u) = 1 /\ u[1] = d[5]
      BY <2>1, <3>1
    <3>3. w \in Seq(Nat) /\ Len(w) = 1 /\ w[1] = d[5]
      <4>1. d[5] \in Nat
        BY <1>0 DEF n
      <4> QED
        BY <4>1
    <3> HIDE DEF u, w
    <3>4. \A k \in 1..1 : k = 1
      OBVIOUS
    <3>5. u = w
      BY <3>2, <3>3, <3>4, SeqEqual
    <3> QED
      BY <3>5 DEF u, w
  <2> QED
    BY <2>1, <2>2, <2>3 DEF From, n
<1>9. (SubSeq(d, 1, 2) \o SubSeq(d, 3, 4)) \o From(d, 4) = d
  <2>1. 0 \in Nat /\ 2 \in Nat /\ 4 \in Nat /\ 0 <= 2 /\ 2 <= 4 /\ 4 <= Len(d) /\ 0 + 1 = 1 /\ 2 + 1 = 3
    BY <1>0 DEF n
  <2>2. SubSeq(d, 0 + 1, 2) \o SubSeq(d, 2 + 1, 4) = SubSeq(d, 0 + 1, 4)
    BY <1>0, <2>1, Meet
  <2>3. SubSeq(d, 1, 4) \o From(d, 4) = d
    BY <1>0, <2>1, Whole
  <2> QED
    BY <2>1, <2>2, <2>3
<1>10. EncodeEap(p) = {<<d[1], d[2]>> \o BE(n) \o (<<d[5]>> \o From(d, 5))}
  BY <1>1, <1>6, Zenon
<1>11. EncodeEap(p) = {d}
  BY <1>5, <1>7, <1>8, <1>9, <1>10, Zenon
<1> QED
  BY <1>1, <1>2, <1>3, <1>11

\* The packet and the message in it.
LEMMA EapInverts ==
    ASSUME NEW d \in Seq(Octet), NEW p \in DecodeEap(d)
    PROVE  IF p.type = <<>> THEN EncodeEap(p) = {<<p.code, p.id, 0, EapHeaderLen>>}
           ELSE /\ EncodeEap(p) = {d}
                /\ \A o \in ParseOuter(p.data) :
                     LET again == BuildOuter(o) IN
                     Tail(again) = Tail(p.data) /\ ParseOuter(again) = {o}
<1>1. 4 <= Len(d) /\ U16(d, 2) = Len(d)
  BY EapDeclares
<1>2. CASE p = [code |-> d[1], id |-> d[2], type |-> <<>>, data |-> <<>>]
  <2>1. d[1] \in Nat /\ d[2] \in Nat
    BY <1>1, OctetNat
  <2>2. EncodeEap(p) = {<<p.code, p.id, 0, EapHeaderLen>>}
    BY <1>2, <2>1, EapHeader
  <2>3. p.type = <<>>
    BY <1>2
  <2> QED
    BY <2>2, <2>3, Zenon
<1>3. CASE 5 <= Len(d) /\ p = [code |-> d[1], id |-> d[2], type |-> <<d[5]>>, data |-> From(d, 5)]
  <2>1. EncodeEap(p) = {d} /\ p.data \in Seq(Octet) /\ p.type # <<>>
    BY <1>1, <1>3, EapBack, Zenon
  <2>2. \A o \in ParseOuter(p.data) :
          Tail(BuildOuter(o)) = Tail(p.data) /\ ParseOuter(BuildOuter(o)) = {o}
    BY <2>1, OuterBack
  <2> QED
    BY <2>1, <2>2, Zenon
<1> QED
  BY <1>2, <1>3, EapDeclares

\* Whatever has been read so far can be written back.
LEMMA InvWireInverts == ReaderInv => WireInverts
<1> SUFFICES ASSUME ReaderInv PROVE WireInverts
  OBVIOUS
<1>1. buf \in Seq(Octet) /\ tlvs \in Seq(Tlv)
  BY DEF ReaderInv, ReaderType
<1>2. \A p \in DecodeEap(buf) :
        IF p.type = <<>> THEN EncodeEap(p) = {<<p.code, p.id, 0, EapHeaderLen>>}
        ELSE /\ EncodeEap(p) = {buf}
             /\ \A o \in ParseOuter(p.data) :
                  LET again == BuildOuter(o) IN
                  Tail(again) = Tail(p.data) /\ ParseOuter(again) = {o}
  BY <1>1, EapInverts, Zenon
<1>3. ASSUME NEW i \in DOMAIN tlvs, NEW b \in Bodies(tlvs[i])
      PROVE  LET type == tlvs[i].type  value == tlvs[i].value IN
             IF type = CRYPTO_BINDING
             THEN Tail(ValueOf(type, b)) = Tail(value) /\ Len(b.emsk) = Len(b.msk) /\ b.msk # <<>>
             ELSE Agrees(ValueOf(type, b), value)
  <2> DEFINE t == tlvs[i]
             w == t.value
  <2>1. w \in Seq(Octet)
    <3>1. t \in Tlv
      BY <1>1
    <3> HIDE DEF t
    <3> QED
      BY <3>1 DEF Tlv
  <2> HIDE DEF w
  <2>2. IF t.type = CRYPTO_BINDING
        THEN Tail(ValueOf(t.type, b)) = Tail(w) /\ Len(b.emsk) = Len(b.msk) /\ b.msk # <<>>
        ELSE Agrees(ValueOf(t.type, b), w)
    BY <2>1, BodiesBack, Zenon DEF w
  <2> QED
    BY <2>2, Zenon DEF w
<1> QED
  BY <1>2, <1>3, Zenon DEF WireInverts

\* For every message: no octet of a TLV body, of the TEAP message or of the EAP
\* packet is lost, shared by two fields or made up between reading and writing
\* it (from_value and to_tlv of body.rs, parse and build of outer.rs, decode and
\* encode of eap.rs).
THEOREM ReaderWireInverts == Spec => []WireInverts
  BY ReaderInvariance, InvWireInverts, PTL

-----------------------------------------------------------------------------
(* The ticket record.                                                       *)

\* A record that is accepted is written as it was read.
LEMMA MatBack ==
    ASSUME NEW d \in Seq(Octet), NEW r \in DecodeMat(d)
    PROVE  EncodeMat(r) = {d}
<1> DEFINE t == U32(d, 12)
           n == Len(d)
<1>0. d \in Seq(Nat) /\ n \in Nat
  BY OctetSeq
<1>1. ~(Len(d) < RecordHeaderLen) /\ SubSeq(d, 1, 4) = MatMagic
  BY Zenon DEF DecodeMat
<1>2. ~(t > MaxTicket) /\ Ends(d, RecordHeaderLen + t)
  BY <1>1, Zenon DEF DecodeMat
<1>3. DecodeMat(d) = {[stored |-> SubSeq(d, 5, 12), ticket |-> From(d, RecordHeaderLen)]}
  BY <1>1, <1>2, Zenon DEF DecodeMat
<1>4. 16 <= n /\ 16 + t = n
  BY <1>0, <1>1, <1>2 DEF RecordHeaderLen, Ends
<1>5. r.stored = SubSeq(d, 5, 12) /\ r.ticket = From(d, 16)
  <2>1. r = [stored |-> SubSeq(d, 5, 12), ticket |-> From(d, 16)]
    BY <1>3 DEF RecordHeaderLen
  <2> QED
    BY <2>1
<1>6. t \in Nat /\ BE32(t) = SubSeq(d, 13, 16)
  <2>1. 12 \in Nat /\ 12 + 4 <= Len(d) /\ 12 + 1 = 13 /\ 12 + 4 = 16
    BY <1>4
  <2>2. U32(d, 12) \in Nat /\ BE32(U32(d, 12)) = SubSeq(d, 12 + 1, 12 + 4)
    BY <2>1, U32Of
  <2> QED
    BY <2>1, <2>2
<1> HIDE DEF t, n
<1>7. Len(r.ticket) = t
  <2>1. 16 \in Nat /\ 16 <= Len(d)
    BY <1>4 DEF n
  <2>2. Len(From(d, 16)) = Len(d) - 16
    BY <2>1, FromRest
  <2> QED
    BY <1>0, <1>4, <1>5, <1>6, <2>2 DEF n
<1>8. ((SubSeq(d, 1, 4) \o SubSeq(d, 5, 12)) \o SubSeq(d, 13, 16)) \o From(d, 16) = d
  <2>1. 0 \in Nat /\ 4 \in Nat /\ 12 \in Nat /\ 16 \in Nat /\ 0 <= 4 /\ 4 <= 12 /\ 12 <= 16
        /\ 0 <= 12 /\ 16 <= Len(d) /\ 12 <= Len(d) /\ 0 + 1 = 1 /\ 4 + 1 = 5 /\ 12 + 1 = 13
    BY <1>0, <1>4 DEF n
  <2>2. SubSeq(d, 0 + 1, 4) \o SubSeq(d, 4 + 1, 12) = SubSeq(d, 0 + 1, 12)
    BY <1>0, <2>1, Meet
  <2>3. SubSeq(d, 0 + 1, 12) \o SubSeq(d, 12 + 1, 16) = SubSeq(d, 0 + 1, 16)
    BY <1>0, <2>1, Meet
  <2>4. SubSeq(d, 1, 16) \o From(d, 16) = d
    BY <1>0, <2>1, Whole
  <2> QED
    BY <2>1, <2>2, <2>3, <2>4
<1>9. EncodeMat(r) = {MatMagic \o r.stored \o BE32(Len(r.ticket)) \o r.ticket}
  BY <1>2, <1>7, Zenon DEF EncodeMat, t
<1> QED
  BY <1>1, <1>5, <1>6, <1>7, <1>8, <1>9, Zenon

-----------------------------------------------------------------------------
(* The text of a profile.                                                   *)

\* Pairs, one after the other.
LEMMA FlattenPairs ==
    ASSUME NEW ss \in Seq(Seq(Nat)), \A i \in 1..Len(ss) : Len(ss[i]) = 2
    PROVE  /\ FlattenSeq(ss) \in Seq(Nat) /\ Len(FlattenSeq(ss)) = 2 * Len(ss)
           /\ \A i \in 1..Len(ss) :
                 FlattenSeq(ss)[2 * i - 1] = ss[i][1] /\ FlattenSeq(ss)[2 * i] = ss[i][2]
<1> DEFINE Q == Seq(Nat)
           All(rs) == \A i \in 1..Len(rs) : Len(rs[i]) = 2
           Good(rs) == /\ FlattenSeq(rs) \in Q /\ Len(FlattenSeq(rs)) = 2 * Len(rs)
                       /\ \A i \in 1..Len(rs) :
                             FlattenSeq(rs)[2 * i - 1] = rs[i][1] /\ FlattenSeq(rs)[2 * i] = rs[i][2]
           T == {n \in Nat : \A rs \in Seq(Q) : Len(rs) = n /\ All(rs) => Good(rs)}
<1>1. 0 \in T
  <2>1. ASSUME NEW rs \in Seq(Q), Len(rs) = 0 PROVE Good(rs)
    <3>1. rs = <<>>
      BY <2>1
    <3>2. FlattenSeq(rs) = <<>> /\ Len(rs) = 0 /\ 1..Len(rs) = {}
      BY <3>1, FlattenEmpty
    <3>3. <<>> \in Q /\ Len(<<>>) = 2 * 0
      OBVIOUS
    <3> HIDE DEF Q
    <3> QED
      BY <3>2, <3>3
  <2> HIDE DEF Good, All, Q
  <2> QED
    BY <2>1
<1>2. ASSUME NEW n \in T PROVE n + 1 \in T
  <2>0. n \in Nat /\ \A rs \in Seq(Q) : Len(rs) = n /\ All(rs) => Good(rs)
    OBVIOUS
  <2>1. ASSUME NEW rs \in Seq(Q), Len(rs) = n + 1, All(rs) PROVE Good(rs)
    <3>1. PICK us \in Seq(Q), u \in Q : rs = Append(us, u)
      <4>1. rs # <<>>
        BY <2>0, <2>1
      <4> HIDE DEF Q
      <4> QED
        BY <4>1, SequenceEmptyOrAppend
    <3>2. /\ Len(us) = n /\ Len(rs) = n + 1 /\ rs[n + 1] = u
          /\ \A i \in 1..n : rs[i] = us[i]
      <4> HIDE DEF Q
      <4>1. /\ Len(Append(us, u)) = Len(us) + 1 /\ Append(us, u)[Len(us) + 1] = u
            /\ \A i \in 1..Len(us) : Append(us, u)[i] = us[i]
        BY AppendProperties
      <4>2. Len(us) \in Nat
        OBVIOUS
      <4>3. Len(us) = n
        BY <2>0, <2>1, <3>1, <4>1, <4>2
      <4> QED
        BY <3>1, <4>1, <4>3
    <3>3. All(us) /\ Len(u) = 2
      BY <2>0, <2>1, <3>2
    <3>4. Good(us)
      <4> HIDE DEF Good, All, Q
      <4> QED
        BY <2>0, <3>1, <3>2, <3>3
    <3> DEFINE a == FlattenSeq(us)
               z == a \o u
    <3>5. FlattenSeq(rs) = z
      <4>1. us \in Seq(Seq(Nat)) /\ u \in Seq(Nat)
        OBVIOUS
      <4> QED
        BY <3>1, <4>1, FlattenAppend
    <3>6. /\ a \in Q /\ Len(a) = 2 * n
          /\ \A i \in 1..n : a[2 * i - 1] = us[i][1] /\ a[2 * i] = us[i][2]
      BY <3>2, <3>4
    <3> HIDE DEF a
    <3>7. /\ z \in Q /\ Len(z) = 2 * n + 2
          /\ \A k \in 1..(2 * n + 2) : z[k] = IF k <= 2 * n THEN a[k] ELSE u[k - 2 * n]
      <4>1. /\ a \o u \in Seq(Nat) /\ Len(a \o u) = Len(a) + Len(u)
            /\ \A k \in 1..(Len(a) + Len(u)) : (a \o u)[k] = IF k <= Len(a) THEN a[k] ELSE u[k - Len(a)]
        <5>1. a \in Seq(Nat) /\ u \in Seq(Nat)
          BY <3>6
        <5> QED
          BY <5>1, ConcatProperties
      <4> QED
        BY <3>3, <3>6, <4>1
    <3> HIDE DEF z
    <3>8. ASSUME NEW i \in 1..(n + 1)
          PROVE  z[2 * i - 1] = rs[i][1] /\ z[2 * i] = rs[i][2]
      <4>1. CASE i <= n
        <5>1. i \in 1..n /\ 2 * i - 1 \in 1..(2 * n + 2) /\ 2 * i \in 1..(2 * n + 2)
              /\ 2 * i - 1 <= 2 * n /\ 2 * i <= 2 * n
          BY <2>0, <4>1
        <5> QED
          BY <3>2, <3>6, <3>7, <5>1
      <4>2. CASE i = n + 1
        <5>1. 2 * i - 1 \in 1..(2 * n + 2) /\ 2 * i \in 1..(2 * n + 2)
              /\ ~(2 * i - 1 <= 2 * n) /\ ~(2 * i <= 2 * n)
              /\ (2 * i - 1) - 2 * n = 1 /\ 2 * i - 2 * n = 2
          <6>1. 2 * i = 2 * n + 2 /\ 2 * n \in Nat
            BY <2>0, <4>2
          <6> DEFINE k == 2 * n
          <6>2. k \in Nat /\ 2 * i = k + 2
            BY <6>1
          <6> HIDE DEF k
          <6>3. 2 * i - 1 \in 1..(k + 2) /\ 2 * i \in 1..(k + 2)
                /\ ~(2 * i - 1 <= k) /\ ~(2 * i <= k)
                /\ (2 * i - 1) - k = 1 /\ 2 * i - k = 2
            BY <6>2
          <6> QED
            BY <6>3 DEF k
        <5>2. rs[i] = u
          BY <3>2, <4>2
        <5> DEFINE k1 == 2 * i - 1
                   k2 == 2 * i
        <5>3. /\ k1 \in 1..(2 * n + 2) /\ ~(k1 <= 2 * n) /\ k1 - 2 * n = 1
              /\ k2 \in 1..(2 * n + 2) /\ ~(k2 <= 2 * n) /\ k2 - 2 * n = 2
          BY <5>1, Zenon
        <5> HIDE DEF k1, k2
        <5>4. z[k1] = u[1]
          BY <3>7, <5>3
        <5>5. z[k2] = u[2]
          BY <3>7, <5>3
        <5> QED
          BY <5>2, <5>4, <5>5, Zenon DEF k1, k2
      <4> QED
        BY <2>0, <4>1, <4>2
    <3>9. 2 * (n + 1) = 2 * n + 2
      BY <2>0
    <3> QED
      BY <3>2, <3>5, <3>7, <3>8, <3>9
  <2>2. n + 1 \in Nat
    BY <2>0
  <2> HIDE DEF Good, All
  <2> QED
    BY <2>1, <2>2
<1>3. T = Nat
  <2> HIDE DEF T
  <2>1. T \in SUBSET Nat
    BY DEF T
  <2> QED
    BY <1>1, <1>2, <2>1, Induction
<1>4. Good(ss)
  <2>1. Len(ss) \in Nat /\ ss \in Seq(Q) /\ All(ss)
    OBVIOUS
  <2> HIDE DEF Good, Q, All
  <2>2. Len(ss) \in T
    BY <1>3, <2>1
  <2> QED
    BY <2>1, <2>2
<1> QED
  BY <1>4

\* Two digits make an octet and an octet two digits.
LEMMA HexFacts ==
    /\ HexBase \in Nat \ {0} /\ Base = HexBase * HexBase
    /\ \A h \in 0..(HexBase - 1), l \in 0..(HexBase - 1) :
          /\ HexBase * h + l \in Octet
          /\ (HexBase * h + l) \div HexBase = h /\ (HexBase * h + l) % HexBase = l
    /\ \A x \in Octet : /\ x \div HexBase \in 0..(HexBase - 1) /\ x % HexBase \in 0..(HexBase - 1)
                        /\ x = HexBase * (x \div HexBase) + (x % HexBase)
    /\ \A h \in 0..(HexBase - 1) : h % HexBase = h
    /\ \A n \in Nat : n % HexBase \in 0..(HexBase - 1)
<1> DEFINE H == HexBase
<1>1. H \in Nat /\ Base = H * H /\ Base >= 4 /\ Base \in Nat
  BY RecordAssumption, BaseFacts
<1>2. H # 0
  <2>1. H = 0 => H * H = 0
    OBVIOUS
  <2> QED
    BY <1>1, <2>1
<1> HIDE DEF H
<1>3. H \in Nat \ {0}
  BY <1>1, <1>2
<1>4. ASSUME NEW h \in 0..(H - 1), NEW l \in 0..(H - 1)
      PROVE  H * h + l \in Octet /\ (H * h + l) \div H = h /\ (H * h + l) % H = l
  <2> DEFINE x == H * h + l
  <2>1. h \in Nat /\ l \in Nat /\ x \in Nat
    BY <1>3
  <2>2. x = H * h + l
    OBVIOUS
  <2>3. x <= Base - 1
    <3>1. H * h <= H * (H - 1)
      BY <1>3
    <3>2. H * (H - 1) = H * H - H
      BY <1>3
    <3> QED
      BY <1>1, <1>3, <2>1, <3>1, <3>2
  <2> HIDE DEF x
  <2>4. x \div H = h /\ x % H = l
    BY <1>3, <2>1, <2>2, DivMod
  <2>5. x \in Octet
    BY <1>1, <2>1, <2>3 DEF Octet
  <2> QED
    BY <2>4, <2>5 DEF x
<1>5. ASSUME NEW x \in Octet
      PROVE  x \div H \in 0..(H - 1) /\ x % H \in 0..(H - 1) /\ x = H * (x \div H) + (x % H)
  <2> DEFINE h == x \div H
             l == x % H
  <2>1. x \in Nat /\ x < Base
    BY OctetNat
  <2>2. h \in Nat /\ l \in 0..(H - 1) /\ x = H * h + l
    BY <1>3, <2>1, DivMod2
  <2> HIDE DEF h, l
  <2>3. h < H
    <3>1. h >= H => H * h >= H * H
      BY <1>3, <2>2
    <3>2. H * h <= x
      BY <1>3, <2>2
    <3>3. H * h \in Nat /\ H * H \in Nat
      BY <1>3, <2>2
    <3> QED
      BY <1>1, <2>1, <2>2, <3>1, <3>2, <3>3
  <2>4. h \in 0..(H - 1)
    BY <1>3, <2>2, <2>3
  <2> QED
    BY <2>2, <2>4 DEF h, l
<1>6. ASSUME NEW h \in 0..(H - 1) PROVE h % H = h
  <2>1. h \in Nat /\ h = H * 0 + h
    BY <1>3
  <2> QED
    BY <1>3, <2>1, DivMod
<1>7. ASSUME NEW n \in Nat PROVE n % H \in 0..(H - 1)
  BY <1>3, DivMod2
<1> QED
  BY <1>1, <1>3, <1>4, <1>5, <1>6, <1>7 DEF H

\* The digits of an octet string.
LEMMA ToHexIs ==
    ASSUME NEW b \in Seq(Octet)
    PROVE  /\ ToHex(b) \in Seq(Nat) /\ Len(ToHex(b)) = 2 * Len(b)
           /\ \A i \in 1..Len(b) : /\ ToHex(b)[2 * i - 1] = b[i] \div HexBase
                                   /\ ToHex(b)[2 * i] = b[i] % HexBase
<1> DEFINE n == Len(b)
           ss == [i \in DOMAIN b |-> <<b[i] \div HexBase, b[i] % HexBase>>]
<1>1. n \in Nat /\ DOMAIN b = 1..n /\ \A i \in 1..n : b[i] \in Octet
  OBVIOUS
<1>2. \A i \in 1..n : b[i] \div HexBase \in Nat /\ b[i] % HexBase \in Nat
  BY <1>1, HexFacts
<1> HIDE DEF n
<1>3. \A i \in 1..n : /\ ss[i] \in Seq(Nat) /\ Len(ss[i]) = 2
                      /\ ss[i][1] = b[i] \div HexBase /\ ss[i][2] = b[i] % HexBase
  BY <1>1, <1>2
<1>4. ss \in Seq(Seq(Nat)) /\ Len(ss) = n
  <2>1. ss = [i \in 1..n |-> ss[i]]
    BY <1>1
  <2> DEFINE Q == Seq(Nat)
  <2>2. \A i \in 1..n : ss[i] \in Q
    BY <1>3
  <2> HIDE DEF ss, Q
  <2>3. ss \in Seq(Q) /\ Len(ss) = n
    BY <1>1, <2>1, <2>2
  <2> QED
    BY <2>3 DEF Q
<1>5. ToHex(b) = FlattenSeq(ss)
  BY DEF ToHex
<1> HIDE DEF ss
<1>6. /\ FlattenSeq(ss) \in Seq(Nat) /\ Len(FlattenSeq(ss)) = 2 * Len(ss)
      /\ \A i \in 1..Len(ss) :
            FlattenSeq(ss)[2 * i - 1] = ss[i][1] /\ FlattenSeq(ss)[2 * i] = ss[i][2]
  BY <1>3, <1>4, FlattenPairs
<1> QED
  BY <1>3, <1>4, <1>5, <1>6 DEF n

\* The first and the last of some positions.
LEMMA FirstAndLast ==
    ASSUME NEW n \in Nat, NEW T \in SUBSET (1..n), T # {}
    PROVE  Min(T) \in T /\ Max(T) \in T /\ \A k \in T : Min(T) <= k /\ k <= Max(T)
<1>1. T \in SUBSET Nat
  OBVIOUS
<1>2. PICK a \in T : \A k \in T : a <= k
  BY <1>1, LeastNatural
<1>3. Min(T) = a
  BY <1>1, <1>2, MinIs
<1>4. PICK z \in T : \A k \in T : z >= k
  <2> DEFINE U == {n - k : k \in T}
  <2>1. U \in SUBSET Nat /\ U # {}
    OBVIOUS
  <2>2. PICK u \in U : \A w \in U : u <= w
    <3> HIDE DEF U
    <3> QED
      BY <2>1, LeastNatural
  <2>3. PICK k \in T : u = n - k
    BY <2>2
  <2>4. ASSUME NEW w \in T PROVE k >= w
    <3>1. n - w \in U
      OBVIOUS
    <3>2. u <= n - w
      BY <2>2, <3>1
    <3>3. k \in Nat /\ w \in Nat
      OBVIOUS
    <3> HIDE DEF U
    <3> QED
      BY <2>3, <3>2, <3>3
  <2> QED
    BY <2>4
<1>5. Max(T) = z
  BY <1>1, <1>4, MaxIs
<1> QED
  BY <1>2, <1>3, <1>4, <1>5

\* Every position of an even number of them is the first or the second of a
\* pair.
LEMMA Halves ==
    ASSUME NEW n \in Nat, NEW k \in 1..(2 * n)
    PROVE  \E i \in 1..n : k = 2 * i - 1 \/ k = 2 * i
<1>1. CASE k % 2 = 0
  <2>1. k \div 2 \in 1..n /\ k = 2 * (k \div 2)
    BY <1>1
  <2> QED
    BY <2>1
<1>2. CASE k % 2 = 1
  <2> DEFINE h == k \div 2
  <2>1. h \in Nat /\ k = 2 * h + 1
    BY <1>2
  <2> HIDE DEF h
  <2>2. h + 1 \in 1..n /\ k = 2 * (h + 1) - 1
    BY <2>1
  <2> QED
    BY <2>2
<1> QED
  BY <1>1, <1>2

\* Without the blanks around it a text is still a text.
LEMMA TrimType == ASSUME NEW s \in Seq(Nat) PROVE Trim(s) \in Seq(Nat)
<1> DEFINE T == {i \in DOMAIN s : s[i] # Blank}
           n == Len(s)
           lo == Min(T)
           hi == Max(T)
<1>1. n \in Nat /\ T \in SUBSET (1..n)
  OBVIOUS
<1>2. CASE T = {}
  <2>1. Trim(s) = <<>>
    BY <1>2, Zenon DEF Trim
  <2> QED
    BY <2>1
<1>3. CASE T # {}
  <2>1. Trim(s) = SubSeq(s, lo, hi)
    BY <1>3, Zenon DEF Trim
  <2> HIDE DEF T
  <2>2. lo \in T /\ hi \in T /\ lo <= hi
    BY <1>1, <1>3, FirstAndLast
  <2>3. lo \in 1..n /\ hi \in 1..n
    BY <1>1, <2>2
  <2> HIDE DEF lo, hi
  <2> DEFINE b == lo - 1
  <2>4. b \in Nat /\ hi \in Nat /\ b <= hi /\ hi <= Len(s) /\ b + 1 = lo
    BY <1>1, <2>2, <2>3
  <2> HIDE DEF b
  <2>5. SubSeq(s, b + 1, hi) \in Seq(Nat)
    BY <2>4, Part
  <2> QED
    BY <2>1, <2>4, <2>5
<1> QED
  BY <1>2, <1>3

\* Half of a sequence's length.
LEMMA EvenLength ==
    ASSUME NEW n \in Nat, n % 2 # 1
    PROVE  n \div 2 \in Nat /\ n = 2 * (n \div 2)
  OBVIOUS

\* A text that is accepted is its octets, up to case and the blanks around it.
LEMMA HexBack ==
    ASSUME NEW s \in Seq(Nat), NEW b \in FromHex(s)
    PROVE  ToHex(b) = Lower(Trim(s))
<1> DEFINE t == Trim(s)
           n == Len(t)
           m == n \div 2
           H == HexBase
<1>1. t \in Seq(Nat)
  BY TrimType
<1>2. /\ ~(Len(t) % 2 = 1 \/ \E i \in DOMAIN t : ~IsHexDigit(t[i]))
      /\ b = [i \in 1..(Len(t) \div 2) |-> HexBase * (t[2 * i - 1] % HexBase) + (t[2 * i] % HexBase)]
  BY DEF FromHex
<1> HIDE DEF t
<1>3. n \in Nat /\ m \in Nat /\ n = 2 * m
  <2>1. n \in Nat
    BY <1>1
  <2>2. n % 2 # 1
    BY <1>2, Zenon
  <2> HIDE DEF n
  <2> QED
    BY <2>1, <2>2, EvenLength
<1>4. b = [i \in 1..m |-> H * (t[2 * i - 1] % H) + (t[2 * i] % H)]
  BY <1>2
<1>5. \A k \in 1..n : t[k] \in Nat
  BY <1>1
<1> HIDE DEF n, m
<1> DEFINE F(i) == H * (t[2 * i - 1] % H) + (t[2 * i] % H)
<1>6. ASSUME NEW i \in 1..m
      PROVE  /\ 2 * i - 1 \in 1..n /\ 2 * i \in 1..n
             /\ F(i) \in Octet /\ F(i) \div H = t[2 * i - 1] % H /\ F(i) % H = t[2 * i] % H
  <2>1. 2 * i - 1 \in 1..n /\ 2 * i \in 1..n
    BY <1>3
  <2> DEFINE h == t[2 * i - 1] % H
             l == t[2 * i] % H
  <2>2. t[2 * i - 1] \in Nat /\ t[2 * i] \in Nat
    BY <1>5, <2>1
  <2>3. h \in 0..(H - 1) /\ l \in 0..(H - 1)
    <3> DEFINE p == t[2 * i - 1]
               q == t[2 * i]
    <3> HIDE DEF p, q
    <3>1. p \in Nat /\ q \in Nat
      BY <2>2 DEF p, q
    <3>2. p % HexBase \in 0..(HexBase - 1) /\ q % HexBase \in 0..(HexBase - 1)
      BY <3>1, HexFacts
    <3> QED
      BY <3>2 DEF p, q
  <2> HIDE DEF h, l
  <2>4. H * h + l \in Octet /\ (H * h + l) \div H = h /\ (H * h + l) % H = l
    BY <2>3, HexFacts
  <2> QED
    BY <2>1, <2>4 DEF h, l
<1>7. b \in Seq(Octet) /\ Len(b) = m /\ \A i \in 1..m : b[i] = F(i)
  <2>1. \A i \in 1..m : F(i) \in Octet
    BY <1>6
  <2>2. b = [i \in 1..m |-> F(i)]
    BY <1>4
  <2> HIDE DEF F
  <2> QED
    BY <1>3, <2>1, <2>2
<1> DEFINE u == ToHex(b)
           w == Lower(t)
<1>8. /\ u \in Seq(Nat) /\ Len(u) = 2 * Len(b)
      /\ \A i \in 1..Len(b) : u[2 * i - 1] = b[i] \div HexBase /\ u[2 * i] = b[i] % HexBase
  BY <1>7, ToHexIs
<1>9. w \in Seq(Nat) /\ Len(w) = n /\ \A k \in 1..n : w[k] = t[k] % H
  <2>1. w = [k \in 1..n |-> t[k] % H]
    <3>1. DOMAIN t = 1..n
      BY <1>1 DEF n
    <3> QED
      BY <3>1 DEF Lower
  <2>2. \A k \in 1..n : t[k] % H \in Nat
    <3>1. \A x \in Nat : x % HexBase \in Nat
      BY HexFacts
    <3> QED
      BY <1>5, <3>1
  <2> HIDE DEF w
  <2> QED
    BY <1>3, <2>1, <2>2
<1> HIDE DEF u, w
<1>10. Len(u) = n
  BY <1>3, <1>7, <1>8
<1>11. ASSUME NEW k \in 1..n PROVE u[k] = w[k]
  <2>1. k \in 1..(2 * m)
    BY <1>3, <1>11
  <2>2. PICK i \in 1..m : k = 2 * i - 1 \/ k = 2 * i
    BY <1>3, <2>1, Halves
  <2>3. u[2 * i - 1] = t[2 * i - 1] % H /\ u[2 * i] = t[2 * i] % H
    <3>1. u[2 * i - 1] = F(i) \div HexBase /\ u[2 * i] = F(i) % HexBase
      <4> HIDE DEF F
      <4> QED
        BY <1>7, <1>8
    <3> QED
      BY <1>6, <3>1
  <2>4. w[2 * i - 1] = t[2 * i - 1] % H /\ w[2 * i] = t[2 * i] % H
    BY <1>6, <1>9
  <2> QED
    BY <2>2, <2>3, <2>4
<1>12. u = w
  BY <1>8, <1>9, <1>10, <1>11, SeqEqual
<1> QED
  BY <1>12 DEF u, w, t

\* A text without blanks is all there is.
LEMMA TrimSolid ==
    ASSUME NEW s \in Seq(Nat), s # <<>>, \A i \in 1..Len(s) : s[i] # Blank
    PROVE  Trim(s) = s
<1> DEFINE T == {i \in DOMAIN s : s[i] # Blank}
           n == Len(s)
<1>1. n \in Nat /\ n # 0 /\ T = 1..n
  OBVIOUS
<1>2. Trim(s) = SubSeq(s, Min(T), Max(T))
  <2>1. T # {}
    BY <1>1
  <2> QED
    BY <2>1, Zenon DEF Trim
<1> HIDE DEF T
<1>3. T \in SUBSET Nat /\ 1 \in T /\ n \in T /\ (\A y \in T : 1 <= y) /\ (\A y \in T : n >= y)
  BY <1>1
<1>4. Min(T) = 1 /\ Max(T) = n
  <2> HIDE DEF n
  <2>1. Min(T) = 1
    BY <1>3, MinIs
  <2>2. Max(T) = n
    BY <1>3, MaxIs
  <2> QED
    BY <2>1, <2>2
<1>5. SubSeq(s, 1, Len(s)) = s
  BY SubSeqFull
<1> QED
  BY <1>2, <1>4, <1>5

\* The text of octets is accepted and is those octets.
LEMMA HexRead ==
    ASSUME NEW b \in Seq(Octet), b # <<>>
    PROVE  FromHex(ToHex(b)) = {b}
<1> DEFINE s == ToHex(b)
           n == Len(b)
           H == HexBase
<1>1. n \in Nat /\ n # 0 /\ \A i \in 1..n : b[i] \in Octet
  OBVIOUS
<1>2. /\ s \in Seq(Nat) /\ Len(s) = 2 * n
      /\ \A i \in 1..n : s[2 * i - 1] = b[i] \div H /\ s[2 * i] = b[i] % H
  BY ToHexIs
<1> HIDE DEF s, n
<1>3. ASSUME NEW i \in 1..n
      PROVE  /\ s[2 * i - 1] \in 0..(H - 1) /\ s[2 * i] \in 0..(H - 1)
             /\ b[i] = H * s[2 * i - 1] + s[2 * i]
  <2> DEFINE x == b[i]
  <2>1. x \in Octet /\ s[2 * i - 1] = x \div H /\ s[2 * i] = x % H
    BY <1>1, <1>2
  <2> HIDE DEF x
  <2>2. x \div H \in 0..(H - 1) /\ x % H \in 0..(H - 1) /\ x = H * (x \div H) + (x % H)
    BY <2>1, HexFacts
  <2> HIDE DEF H
  <2> QED
    BY <2>1, <2>2 DEF x
<1>4. ASSUME NEW k \in 1..(2 * n) PROVE s[k] \in 0..(H - 1)
  <2>1. PICK i \in 1..n : k = 2 * i - 1 \/ k = 2 * i
    BY <1>1, Halves
  <2> QED
    BY <1>3, <2>1
<1>5. H \in Nat \ {0}
  BY HexFacts
<1>6. \A k \in 1..(2 * n) : s[k] # Blank /\ IsHexDigit(s[k])
  <2>1. \A x \in 0..(H - 1) : x # 2 * H /\ x < 2 * H
    BY <1>5
  <2> QED
    BY <1>4, <2>1 DEF Blank, IsHexDigit
<1>7. s # <<>>
  <2>1. Len(s) # 0
    BY <1>1, <1>2
  <2> QED
    BY <2>1
<1>8. Trim(s) = s
  BY <1>2, <1>6, <1>7, TrimSolid
<1>9. ~(Len(s) % 2 = 1) /\ Len(s) \div 2 = n
  <2>1. (2 * n) % 2 = 0 /\ (2 * n) \div 2 = n
    BY <1>1
  <2> QED
    BY <1>2, <2>1
<1>10. \A i \in DOMAIN s : IsHexDigit(s[i])
  <2>1. DOMAIN s = 1..(2 * n)
    BY <1>2
  <2> QED
    BY <1>6, <2>1
<1>11. FromHex(s) = {[i \in 1..n |-> HexBase * (s[2 * i - 1] % HexBase) + (s[2 * i] % HexBase)]}
  <2>1. FromHex(s) = {[i \in 1..(Len(s) \div 2) |-> HexBase * (s[2 * i - 1] % HexBase) + (s[2 * i] % HexBase)]}
    BY <1>8, <1>9, <1>10, Zenon DEF FromHex
  <2> QED
    BY <1>9, <2>1
<1>12. ASSUME NEW i \in 1..n PROVE HexBase * (s[2 * i - 1] % HexBase) + (s[2 * i] % HexBase) = b[i]
  <2>1. s[2 * i - 1] % HexBase = s[2 * i - 1] /\ s[2 * i] % HexBase = s[2 * i]
    BY <1>3, HexFacts
  <2> QED
    BY <1>3, <2>1
<1>13. b = [i \in 1..n |-> b[i]]
  <2>1. b = [i \in DOMAIN b |-> b[i]] /\ DOMAIN b = 1..n
    BY DEF n
  <2> QED
    BY <2>1
<1>14. [i \in 1..n |-> HexBase * (s[2 * i - 1] % HexBase) + (s[2 * i] % HexBase)] = [i \in 1..n |-> b[i]]
  BY <1>12, Zenon
<1> QED
  BY <1>11, <1>13, <1>14 DEF s

-----------------------------------------------------------------------------
(* The DER form of a signature.                                             *)

\* Half of the values of an octet.
LEMMA HighBitNat == HighBit \in Nat \ {0} /\ HighBit <= Base /\ Base = 2 * HighBit
<1>1. Base \in Nat \ {0} /\ Base % 4 = 0
  BY BaseAssumption
<1>2. Base \div 2 \in Nat \ {0} /\ Base = 2 * (Base \div 2)
  BY <1>1
<1> QED
  BY <1>1, <1>2 DEF HighBit

\* Two strings of one.
LEMMA Two ==
    ASSUME NEW h \in Nat, NEW l \in Nat
    PROVE  <<h>> \o <<l>> = <<h, l>>
<1> DEFINE p == <<h>>
           q == <<l>>
           z == <<h, l>>
<1>1. p \in Seq(Nat) /\ Len(p) = 1 /\ p[1] = h /\ q \in Seq(Nat) /\ Len(q) = 1 /\ q[1] = l
  OBVIOUS
<1>2. z \in Seq(Nat) /\ Len(z) = 2 /\ z[1] = h /\ z[2] = l
  OBVIOUS
<1> HIDE DEF p, q, z
<1>3. /\ p \o q \in Seq(Nat) /\ Len(p \o q) = Len(p) + Len(q)
      /\ \A i \in 1..(Len(p) + Len(q)) : (p \o q)[i] = IF i <= Len(p) THEN p[i] ELSE q[i - Len(p)]
  BY <1>1, ConcatProperties
<1>4. \A i \in 1..2 : i = 1 \/ i = 2
  OBVIOUS
<1> DEFINE u == p \o q
<1>5. u \in Seq(Nat) /\ Len(u) = 2 /\ u[1] = h /\ u[2] = l
  BY <1>1, <1>3
<1> HIDE DEF u
<1>6. \A i \in 1..2 : u[i] = z[i]
  BY <1>2, <1>4, <1>5
<1>7. u = z
  BY <1>2, <1>5, <1>6, SeqEqual
<1> QED
  BY <1>7 DEF u, p, q, z

\* The length octets, case by case, as X.690 has them.
LEMMA DerForm ==
    ASSUME NEW n \in Nat
    PROVE  DerLen(n) = IF n < HighBit THEN <<n>>
                       ELSE IF n < Base THEN <<HighBit + 1, n>> ELSE <<HighBit + 2>> \o BE(n)
<1>1. CASE n < HighBit
  BY <1>1, Zenon DEF DerLen
<1>2. CASE ~(n < HighBit) /\ n < Base
  <2>1. Trimmed(n) = <<n>>
    BY <1>2 DEF Trimmed
  <2>2. Len(<<n>>) = 1
    OBVIOUS
  <2>3. <<HighBit + 1>> \o <<n>> = <<HighBit + 1, n>>
    <3> DEFINE h == HighBit + 1
    <3>1. h \in Nat
      BY HighBitNat
    <3> HIDE DEF h
    <3>2. <<h>> \o <<n>> = <<h, n>>
      BY <3>1, Two
    <3> QED
      BY <3>2 DEF h
  <2>4. DerLen(n) = <<HighBit + Len(Trimmed(n))>> \o Trimmed(n)
    BY <1>2, Zenon DEF DerLen
  <2> QED
    BY <1>2, <2>1, <2>2, <2>3, <2>4, Zenon
<1>3. CASE ~(n < HighBit) /\ ~(n < Base)
  <2>1. Trimmed(n) = BE(n)
    BY <1>3, Zenon DEF Trimmed
  <2>2. Len(BE(n)) = 2
    BY BEType
  <2>4. DerLen(n) = <<HighBit + Len(Trimmed(n))>> \o Trimmed(n)
    BY <1>3, Zenon DEF DerLen
  <2> QED
    BY <1>3, <2>1, <2>2, <2>4, Zenon
<1> QED
  BY <1>1, <1>2, <1>3

\* There are one to three of them.
LEMMA DerLenIs ==
    ASSUME NEW n \in Nat
    PROVE  DerLen(n) \in Seq(Nat) /\ Len(DerLen(n)) \in 1..3
<1>0. HighBit \in Nat
  BY HighBitNat
<1>1. CASE n < HighBit
  <2>1. DerLen(n) = <<n>>
    BY <1>1, DerForm, Zenon
  <2> QED
    BY <2>1
<1>2. CASE ~(n < HighBit) /\ n < Base
  <2>1. DerLen(n) = <<HighBit + 1, n>>
    BY <1>2, DerForm, Zenon
  <2> QED
    BY <1>0, <2>1
<1>3. CASE ~(n < HighBit) /\ ~(n < Base)
  <2>1. DerLen(n) = <<HighBit + 2>> \o BE(n)
    BY <1>3, DerForm, Zenon
  <2> DEFINE x == <<HighBit + 2>>
             y == BE(n)
  <2>2. x \in Seq(Nat) /\ Len(x) = 1
    BY <1>0
  <2>3. y \in Seq(Nat) /\ Len(y) = 2
    BY BEType
  <2> HIDE DEF x, y
  <2>4. x \o y \in Seq(Nat) /\ Len(x \o y) = Len(x) + Len(y)
    BY <2>2, <2>3, ConcatProperties
  <2>5. Len(x \o y) = 3
    BY <2>2, <2>3, <2>4
  <2>6. 3 \in 1..3
    OBVIOUS
  <2> QED
    BY <2>1, <2>4, <2>5, <2>6 DEF x, y
<1> QED
  BY <1>1, <1>2, <1>3

\* A piece in the middle of a string.
LEMMA Middle ==
    ASSUME NEW p \in Seq(Nat), NEW m \in Seq(Nat), NEW q \in Seq(Nat)
    PROVE  SubSeq((p \o m) \o q, Len(p) + 1, Len(p) + Len(m)) = m
<1> DEFINE t == (p \o m) \o q
           i == Len(p)
           k == Len(m)
           j == i + k
           u == SubSeq(t, i + 1, j)
<1>1. /\ t \in Seq(Nat) /\ i \in Nat /\ k \in Nat /\ Len(q) \in Nat
      /\ Len(t) = (i + k) + Len(q)
      /\ \A h \in 1..k : t[i + h] = m[h]
  <2>1. Pieced(p, m, q)
    BY Three, Zenon
  <2> QED
    BY <2>1, Zenon DEF Pieced
<1> HIDE DEF t, i, k
<1>2. j \in Nat /\ i <= j /\ j <= Len(t) /\ j - i = k
  BY <1>1
<1>3. u \in Seq(Nat) /\ Len(u) = k /\ \A h \in 1..k : u[h] = t[i + h]
  <2> HIDE DEF j
  <2>1. /\ SubSeq(t, i + 1, j) \in Seq(Nat) /\ Len(SubSeq(t, i + 1, j)) = j - i
        /\ \A h \in 1..(j - i) : SubSeq(t, i + 1, j)[h] = t[i + h]
    BY <1>1, <1>2, Part
  <2> QED
    BY <1>2, <2>1
<1> HIDE DEF u
<1>4. u = m
  <2>1. Len(m) = k
    BY DEF k
  <2>2. \A h \in 1..k : u[h] = m[h]
    BY <1>1, <1>3
  <2> QED
    BY <1>3, <2>1, <2>2, SeqEqual
<1> QED
  BY <1>4 DEF u, j, i, k, t

\* Five strings put together in four ways.
Spread(p, x, d, v, q) ==
    /\ (p \o (x \o d \o v)) \o q = (((p \o x) \o d) \o v) \o q
    /\ (p \o (x \o d \o v)) \o q = ((p \o x) \o d) \o (v \o q)
    /\ (p \o (x \o d \o v)) \o q = (p \o x) \o (d \o (v \o q))

\* They make the same string.
LEMMA Spreads ==
    ASSUME NEW p \in Seq(Nat), NEW x \in Seq(Nat), NEW d \in Seq(Nat), NEW v \in Seq(Nat),
           NEW q \in Seq(Nat)
    PROVE  Spread(p, x, d, v, q)
<1> DEFINE px == p \o x
           xd == x \o d
           vq == v \o q
           pxd == px \o d
           dvq == d \o vq
<1>1. px \in Seq(Nat) /\ xd \in Seq(Nat) /\ vq \in Seq(Nat)
  BY ConcatProperties
<1>2. pxd \in Seq(Nat) /\ dvq \in Seq(Nat)
  <2> HIDE DEF px, vq
  <2> QED
    BY <1>1, ConcatProperties
<1>3. p \o xd = pxd
  <2>1. Associates(p, x, d)
    BY Associative, Zenon
  <2> QED
    BY <2>1, Zenon DEF Associates
<1> HIDE DEF px, xd, vq
<1>11. px \in Seq(Nat)
  BY <1>1
<1>12. xd \in Seq(Nat)
  BY <1>1
<1>13. vq \in Seq(Nat)
  BY <1>1
<1>14. pxd \in Seq(Nat)
  BY <1>2
<1>4. p \o (xd \o v) = (p \o xd) \o v
  <2>1. Associates(p, xd, v)
    BY <1>12, Associative, Zenon
  <2> QED
    BY <2>1, Zenon DEF Associates
<1>5. (p \o (xd \o v)) \o q = (pxd \o v) \o q
  <2> HIDE DEF xd, pxd
  <2> QED
    BY <1>3, <1>4, Zenon
<1>6. (pxd \o v) \o q = pxd \o vq
  <2> HIDE DEF pxd
  <2>1. (pxd \o v) \o q = pxd \o (v \o q)
    <3>1. Associates(pxd, v, q)
      BY <1>14, Associative, Zenon
    <3> QED
      BY <3>1, Zenon DEF Associates
  <2> QED
    BY <2>1, Zenon DEF vq
<1>7. pxd \o vq = px \o dvq
  <2>1. Associates(px, d, vq)
    BY <1>11, <1>13, Associative, Zenon
  <2> QED
    BY <2>1, Zenon DEF Associates
<1> QED
  BY <1>5, <1>6, <1>7, Zenon DEF Spread, px, xd, vq

\* The element at o of b has the value v and ends with it.
HasElement(b, o, tag, v) ==
    \E e \in Element(b, o, tag) :
        /\ e.start = o + 1 + Len(DerLen(Len(v))) /\ e.end = e.start + Len(v)
        /\ SubSeq(b, e.start + 1, e.end) = v

\* A tag, the length and the value are such an element, whatever is around it.
LEMMA ElementAt ==
    ASSUME NEW p \in Seq(Nat), NEW v \in Seq(Nat), NEW q \in Seq(Nat), NEW tag \in Nat
    PROVE  HasElement((p \o (<<tag>> \o DerLen(Len(v)) \o v)) \o q, Len(p), tag, v)
<1> DEFINE g == <<tag>>
           n == Len(v)
           d == DerLen(n)
           b == (p \o (g \o d \o v)) \o q
           o == Len(p)
           m == Len(d)
           st == o + 1 + m
           en == st + n
           px == p \o g
           pxd == px \o d
           vq == v \o q
<1>1. n \in Nat /\ o \in Nat /\ g \in Seq(Nat) /\ Len(g) = 1 /\ g[1] = tag
  OBVIOUS
<1>2. d \in Seq(Nat) /\ m \in 1..3
  <2> HIDE DEF n
  <2> QED
    BY <1>1, DerLenIs
<1> HIDE DEF g, d
<1>3. Spread(p, g, d, v, q)
  BY <1>1, <1>2, Spreads
<1>4. b = (pxd \o v) \o q /\ b = (px \o d) \o vq /\ b = (p \o g) \o (d \o vq)
  BY <1>3, Zenon DEF Spread
<1>5. px \in Seq(Nat) /\ Len(px) = o + 1 /\ vq \in Seq(Nat)
  <2>1. p \o g \in Seq(Nat) /\ Len(p \o g) = Len(p) + Len(g) /\ v \o q \in Seq(Nat)
    BY <1>1, ConcatProperties
  <2> QED
    BY <1>1, <2>1
<1> HIDE DEF px, vq
<1>6. pxd \in Seq(Nat) /\ Len(pxd) = st /\ d \o vq \in Seq(Nat)
  <2>1. px \o d \in Seq(Nat) /\ Len(px \o d) = Len(px) + Len(d) /\ d \o vq \in Seq(Nat)
    BY <1>2, <1>5, ConcatProperties
  <2> QED
    BY <1>2, <1>5, <2>1
<1> HIDE DEF pxd, b
<1>7. SubSeq(b, st + 1, en) = v
  <2>1. SubSeq((pxd \o v) \o q, Len(pxd) + 1, Len(pxd) + Len(v)) = v
    BY <1>6, Middle
  <2> QED
    BY <1>4, <1>6, <2>1
<1>8. SubSeq(b, o + 2, st) = d
  <2>1. SubSeq((px \o d) \o vq, Len(px) + 1, Len(px) + Len(d)) = d
    BY <1>2, <1>5, Middle
  <2>2. Len(px) + 1 = o + 2 /\ Len(px) + Len(d) = st
    BY <1>1, <1>2, <1>5
  <2> HIDE DEF st, o
  <2> QED
    BY <1>4, <2>1, <2>2
<1>9. b[o + 1] = tag
  <2> DEFINE y1 == d \o vq
  <2>1. y1 \in Seq(Nat)
    BY <1>6
  <2> HIDE DEF y1
  <2>2. /\ (p \o g) \o y1 \in Seq(Nat)
        /\ Len(p) \in Nat /\ Len(g) \in Nat /\ Len(y1) \in Nat
        /\ Len((p \o g) \o y1) = (Len(p) + Len(g)) + Len(y1)
        /\ \A i \in 1..Len(p) : ((p \o g) \o y1)[i] = p[i]
        /\ \A i \in 1..Len(g) : ((p \o g) \o y1)[Len(p) + i] = g[i]
        /\ \A i \in 1..Len(y1) : ((p \o g) \o y1)[(Len(p) + Len(g)) + i] = y1[i]
    <3>1. Pieced(p, g, y1)
      BY <1>1, <2>1, Three, Zenon
    <3> QED
      BY <3>1, Zenon DEF Pieced
  <2>3. ((p \o g) \o y1)[Len(p) + 1] = g[1]
    <3>1. 1 \in 1..Len(g)
      BY <1>1
    <3> QED
      BY <2>2, <3>1
  <2> QED
    BY <1>1, <1>4, <2>3 DEF y1
<1>10. en <= Len(b) /\ Len(b) \in Nat
  <2>1. /\ (pxd \o v) \o q \in Seq(Nat)
        /\ Len(pxd) \in Nat /\ Len(v) \in Nat /\ Len(q) \in Nat
        /\ Len((pxd \o v) \o q) = (Len(pxd) + Len(v)) + Len(q)
        /\ \A i \in 1..Len(pxd) : ((pxd \o v) \o q)[i] = pxd[i]
        /\ \A i \in 1..Len(v) : ((pxd \o v) \o q)[Len(pxd) + i] = v[i]
        /\ \A i \in 1..Len(q) : ((pxd \o v) \o q)[(Len(pxd) + Len(v)) + i] = q[i]
    <3>1. Pieced(pxd, v, q)
      BY <1>6, Three, Zenon
    <3> QED
      BY <3>1, Zenon DEF Pieced
  <2> QED
    BY <1>4, <1>6, <2>1
<1> HIDE DEF n, o, m
<1>11. /\ st \in (o + 2)..(o + 4) /\ en \in (o + 2)..Len(b) /\ st <= en /\ en - st = n
       /\ st \in Nat /\ en \in Nat
  BY <1>1, <1>2, <1>10
<1> DEFINE e == [start |-> st, end |-> en]
<1>12. d = IF n < HighBit THEN <<n>>
           ELSE IF n < Base THEN <<HighBit + 1, n>> ELSE <<HighBit + 2>> \o BE(n)
  BY <1>1, DerForm, Zenon DEF d
<1> HIDE DEF st, en
<1>13. e.start = st /\ e.end = en /\ e \in [start : (o + 2)..(o + 4), end : (o + 2)..Len(b)]
  BY <1>11
<1> HIDE DEF e
<1>14. e \in Element(b, o, tag)
  <2>1. SubSeq(b, o + 2, e.start) =
              LET k == e.end - e.start IN
              IF k < HighBit THEN <<k>>
              ELSE IF k < Base THEN <<HighBit + 1, k>> ELSE <<HighBit + 2>> \o BE(k)
    BY <1>8, <1>11, <1>12, <1>13, Zenon
  <2>2. e.start <= e.end /\ b[o + 1] = tag
    BY <1>9, <1>11, <1>13, Zenon
  <2> QED
    BY <1>13, <2>1, <2>2, Zenon DEF Element
<1>15. HasElement(b, o, tag, v)
  <2>1. e.start = o + 1 + Len(DerLen(Len(v))) /\ e.end = e.start + Len(v)
    BY <1>13, Zenon DEF st, en, m, d, n
  <2>2. SubSeq(b, e.start + 1, e.end) = v
    BY <1>7, <1>13, Zenon
  <2> QED
    BY <1>14, <2>1, <2>2, Zenon DEF HasElement
<1> QED
  BY <1>15, Zenon DEF b, o, g, d, n

\* The string w, read from its end, is c with zeros before it, at most one more
\* octet than c.
Stands(w, c) ==
    /\ w \in Seq(Nat) /\ Len(w) \in 1..(Len(c) + 1)
    /\ \A i \in 1..Len(c) : IF i + Len(w) > Len(c) THEN w[(i + Len(w)) - Len(c)] = c[i] ELSE c[i] = 0
    /\ Len(w) = Len(c) + 1 => w[1] = 0

\* The magnitude of a coordinate is the coordinate without superfluous zeros.
LEMMA MagnitudeIs ==
    ASSUME NEW c \in Seq(Nat), c # <<>>
    PROVE  /\ Stands(Magnitude(c), c) /\ Len(Magnitude(c)) <= Len(c)
           /\ \A i \in 1..Len(Magnitude(c)) : Magnitude(c)[i] = 0 \/ \E k \in 1..Len(c) : Magnitude(c)[i] = c[k]
           /\ Len(Magnitude(c)) > 1 => Magnitude(c)[1] # 0
<1> DEFINE T == {i \in DOMAIN c : c[i] # 0}
           n == Len(c)
           w == Magnitude(c)
<1>1. n \in Nat /\ n # 0 /\ T \in SUBSET (1..n)
  OBVIOUS
<1>2. CASE T = {}
  <2>1. w = <<0>>
    BY <1>2, Zenon DEF Magnitude
  <2>2. \A i \in 1..n : c[i] = 0
    BY <1>2
  <2>3. w \in Seq(Nat) /\ Len(w) = 1 /\ w[1] = 0
    BY <2>1
  <2> HIDE DEF w, T
  <2>4. \A i \in 1..n : IF i + Len(w) > n THEN w[(i + Len(w)) - n] = c[i] ELSE c[i] = 0
    <3> SUFFICES ASSUME NEW i \in 1..n, i + Len(w) > n PROVE w[(i + Len(w)) - n] = c[i]
      BY <2>2
    <3>1. (i + Len(w)) - n = 1
      BY <1>1, <2>3
    <3> QED
      BY <2>2, <2>3, <3>1
  <2>5. Len(w) \in 1..(n + 1) /\ Len(w) <= n /\ ~(Len(w) > 1)
    BY <1>1, <2>3
  <2>6. \A i \in 1..Len(w) : w[i] = 0
    BY <2>3
  <2>7. Stands(w, c)
    BY <2>3, <2>4, <2>5 DEF Stands
  <2> QED
    BY <2>5, <2>6, <2>7 DEF w
<1>3. CASE T # {}
  <2> DEFINE a == Min(T)
             b == a - 1
  <2>1. w = From(c, b)
    BY <1>3, Zenon DEF Magnitude
  <2> HIDE DEF w
  <2>2. a \in T /\ \A k \in T : a <= k
    <3> HIDE DEF T
    <3> QED
      BY <1>1, <1>3, FirstAndLast
  <2>3. a \in 1..n /\ c[a] # 0 /\ \A k \in 1..n : k < a => c[k] = 0
    <3>1. a \in 1..n /\ c[a] # 0
      BY <2>2
    <3> DEFINE g == a
    <3>2. g \in 1..n /\ \A k \in T : g <= k
      BY <2>2, <3>1
    <3> HIDE DEF g
    <3>3. ASSUME NEW k \in 1..n, k < g, c[k] # 0 PROVE FALSE
      <4>1. k \in T
        BY <3>3
      <4>2. g <= k
        BY <3>2, <4>1
      <4> QED
        BY <3>2, <3>3, <4>2
    <3> QED
      BY <3>1, <3>3 DEF g
  <2> HIDE DEF a
  <2>4. b \in Nat /\ b < n /\ b + 1 = a
    BY <1>1, <2>3
  <2> HIDE DEF b
  <2>5. w \in Seq(Nat) /\ Len(w) = n - b /\ \A k \in 1..(n - b) : w[k] = c[b + k]
    <3>1. b <= Len(c)
      BY <1>1, <2>4
    <3>2. /\ From(c, b) \in Seq(Nat) /\ Len(From(c, b)) = Len(c) - b
          /\ \A k \in 1..(Len(c) - b) : From(c, b)[k] = c[b + k]
      BY <2>4, <3>1, FromRest
    <3> QED
      BY <2>1, <3>2
  <2>6. Len(w) \in 1..(n + 1) /\ Len(w) <= n /\ Len(w) # n + 1
    BY <1>1, <2>4, <2>5
  <2>7. \A i \in 1..n : IF i + Len(w) > n THEN w[(i + Len(w)) - n] = c[i] ELSE c[i] = 0
    <3> SUFFICES ASSUME NEW i \in 1..n
                 PROVE  IF i + Len(w) > n THEN w[(i + Len(w)) - n] = c[i] ELSE c[i] = 0
      OBVIOUS
    <3>1. CASE i + Len(w) > n
      <4> DEFINE k == (i + Len(w)) - n
      <4>1. k \in 1..(n - b) /\ b + k = i
        BY <1>1, <2>4, <2>5, <3>1
      <4> HIDE DEF k
      <4>2. w[k] = c[i]
        BY <2>5, <4>1
      <4> QED
        BY <3>1, <4>2 DEF k
    <3>2. CASE ~(i + Len(w) > n)
      <4>1. i < a
        BY <1>1, <2>4, <2>5, <3>2
      <4> QED
        BY <2>3, <3>2, <4>1
    <3> QED
      BY <3>1, <3>2
  <2>8. w[1] # 0
    <3>1. 1 \in 1..(n - b)
      BY <1>1, <2>4
    <3> QED
      BY <2>3, <2>4, <2>5, <3>1
  <2>9. \A i \in 1..Len(w) : \E k \in 1..n : w[i] = c[k]
    <3> SUFFICES ASSUME NEW i \in 1..Len(w) PROVE \E k \in 1..n : w[i] = c[k]
      OBVIOUS
    <3>1. i \in 1..(n - b) /\ b + i \in 1..n
      BY <1>1, <2>4, <2>5
    <3> QED
      BY <2>5, <3>1
  <2>10. Stands(w, c)
    BY <2>5, <2>6, <2>7 DEF Stands
  <2> QED
    BY <2>6, <2>8, <2>9, <2>10 DEF w
<1> QED
  BY <1>2, <1>3

\* As a signed number it is positive and as short as it can be.
LEMMA SignedIs ==
    ASSUME NEW c \in Seq(Octet), c # <<>>
    PROVE  LET w == Signed(Magnitude(c)) IN
           /\ Stands(w, c) /\ w[1] < HighBit
           /\ Len(w) > 1 /\ w[1] = 0 => w[2] >= HighBit
<1> DEFINE v == Magnitude(c)
           n == Len(c)
           m == Len(v)
           w == Signed(v)
<1>0. c \in Seq(Nat) /\ n \in Nat /\ n # 0
  BY OctetSeq
<1>1. Stands(v, c) /\ m <= n /\ (m > 1 => v[1] # 0)
  BY <1>0, MagnitudeIs
<1>2. v \in Seq(Nat) /\ m \in Nat /\ m # 0 /\ v[1] \in Nat
  <2>1. v \in Seq(Nat) /\ m \in 1..(n + 1)
    BY <1>1 DEF Stands
  <2> HIDE DEF v
  <2>2. m \in Nat /\ m # 0
    BY <1>0, <2>1
  <2>3. v[1] \in Nat
    <3>1. 1 \in 1..Len(v)
      BY <2>2
    <3> QED
      BY <2>1, <3>1, ElementOfSeq
  <2> QED
    BY <2>1, <2>2, <2>3
<1>3. HighBit \in Nat \ {0}
  BY HighBitNat
<1>4. CASE v[1] >= HighBit
  <2>1. w = <<0>> \o v
    BY <1>4, Zenon DEF Signed
  <2> HIDE DEF v, n, w
  <2> DEFINE z == <<0>>
  <2>2. z \in Seq(Nat) /\ Len(z) = 1 /\ z[1] = 0
    OBVIOUS
  <2> HIDE DEF z
  <2>3. /\ z \o v \in Seq(Nat) /\ Len(z \o v) = Len(z) + Len(v)
        /\ \A i \in 1..(Len(z) + Len(v)) : (z \o v)[i] = IF i <= Len(z) THEN z[i] ELSE v[i - Len(z)]
    BY <1>2, <2>2, ConcatProperties
  <2>4. w = z \o v
    BY <2>1 DEF z
  <2> HIDE DEF m
  <2>5. w \in Seq(Nat) /\ Len(w) = m + 1 /\ \A i \in 1..(m + 1) : w[i] = IF i <= 1 THEN 0 ELSE v[i - 1]
    <3>1. Len(z) + Len(v) = m + 1
      BY <1>2, <2>2 DEF m
    <3>2. \A i \in 1..(m + 1) : i <= 1 => i = 1
      BY <1>2
    <3> QED
      BY <2>2, <2>3, <2>4, <3>1, <3>2
  <2>6. w[1] = 0 /\ w[2] = v[1]
    <3>1. 1 \in 1..(m + 1) /\ 2 \in 1..(m + 1) /\ 2 - 1 = 1 /\ ~(2 <= 1)
      BY <1>2
    <3> QED
      BY <2>5, <3>1
  <2>7. \A i \in 1..n : IF i + Len(w) > n THEN w[(i + Len(w)) - n] = c[i] ELSE c[i] = 0
    <3> SUFFICES ASSUME NEW i \in 1..n
                 PROVE  IF i + Len(w) > n THEN w[(i + Len(w)) - n] = c[i] ELSE c[i] = 0
      OBVIOUS
    <3>1. IF i + m > n THEN v[(i + m) - n] = c[i] ELSE c[i] = 0
      BY <1>1 DEF Stands, m, n
    <3>2. CASE i + m > n
      <4> DEFINE k == (i + m) - n
      <4>1. k \in 1..m /\ (i + Len(w)) - n = k + 1 /\ i + Len(w) > n
        BY <1>0, <1>1, <1>2, <2>5, <3>2
      <4>2. v[k] = c[i]
        BY <3>1, <3>2
      <4> HIDE DEF k
      <4>3. k + 1 \in 1..(m + 1) /\ ~(k + 1 <= 1) /\ (k + 1) - 1 = k
        BY <1>2, <4>1
      <4>4. w[k + 1] = v[k]
        BY <2>5, <4>3
      <4> QED
        BY <4>1, <4>2, <4>4
    <3>3. CASE i + m = n
      <4>1. (i + Len(w)) - n = 1 /\ i + Len(w) > n
        BY <1>0, <1>2, <2>5, <3>3
      <4>2. c[i] = 0
        <5>1. ~(i + m > n)
          BY <1>0, <3>3
        <5> QED
          BY <3>1, <5>1
      <4> QED
        BY <2>6, <4>1, <4>2
    <3>4. CASE i + m < n
      <4>1. ~(i + Len(w) > n) /\ ~(i + m > n)
        BY <1>0, <1>2, <2>5, <3>4
      <4> QED
        BY <3>1, <4>1
    <3> QED
      BY <1>0, <1>2, <3>2, <3>3, <3>4
  <2>8. Len(w) \in 1..(n + 1)
    BY <1>0, <1>1, <1>2, <2>5
  <2>9. Stands(w, c)
    BY <2>5, <2>6, <2>7, <2>8 DEF Stands, n
  <2>10. w[1] < HighBit /\ w[2] >= HighBit
    BY <1>3, <1>4, <2>6
  <2> QED
    BY <2>9, <2>10 DEF v, w
<1>5. CASE ~(v[1] >= HighBit)
  <2>1. w = v
    BY <1>5, Zenon DEF Signed
  <2> HIDE DEF v, n, w
  <2>2. v[1] < HighBit
    BY <1>2, <1>3, <1>5
  <2>3. Stands(w, c) /\ w[1] < HighBit /\ (Len(w) > 1 => w[1] # 0)
    BY <1>1, <2>1, <2>2
  <2> QED
    BY <2>3 DEF v, w
<1> QED
  BY <1>4, <1>5

\* One sequence ends another if its octets are the last ones.
LEMMA SuffixIs ==
    ASSUME NEW s \in Seq(Nat), NEW t \in Seq(Nat), Len(s) <= Len(t),
           \A i \in 1..Len(s) : t[(i + Len(t)) - Len(s)] = s[i]
    PROVE  IsSuffix(s, t)
<1> DEFINE m == Len(s)
           n == Len(t)
           rs == Reverse(s)
           rt == Reverse(t)
<1>1. m \in Nat /\ n \in Nat /\ m <= n
  OBVIOUS
<1>2. rs \in Seq(Nat) /\ Len(rs) = m /\ \A i \in 1..m : rs[i] = s[(m - i) + 1]
  <2>1. rs = [i \in 1..m |-> s[(m - i) + 1]]
    BY DEF Reverse
  <2>2. \A i \in 1..m : s[(m - i) + 1] \in Nat
    <3> SUFFICES ASSUME NEW i \in 1..m PROVE s[(m - i) + 1] \in Nat
      OBVIOUS
    <3>1. (m - i) + 1 \in 1..m
      BY <1>1
    <3> DEFINE k == (m - i) + 1
    <3>2. k \in 1..m
      BY <3>1, Zenon
    <3> HIDE DEF k
    <3>3. s[k] \in Nat
      BY <3>2, NumbersIn, Zenon
    <3> QED
      BY <3>3, Zenon DEF k
  <2> HIDE DEF rs, m
  <2> QED
    BY <1>1, <2>1, <2>2
<1>3. rt \in Seq(Nat) /\ Len(rt) = n /\ \A i \in 1..n : rt[i] = t[(n - i) + 1]
  <2>1. rt = [i \in 1..n |-> t[(n - i) + 1]]
    BY DEF Reverse
  <2>2. \A i \in 1..n : t[(n - i) + 1] \in Nat
    <3> SUFFICES ASSUME NEW i \in 1..n PROVE t[(n - i) + 1] \in Nat
      OBVIOUS
    <3>1. (n - i) + 1 \in 1..n
      BY <1>1
    <3> QED
      BY <3>1
  <2> HIDE DEF rt, n
  <2> QED
    BY <1>1, <2>1, <2>2
<1> HIDE DEF rs, rt
<1>4. \A i \in 1..m : t[(i + n) - m] = s[i]
  OBVIOUS
<1> HIDE DEF m, n
<1> DEFINE u == SubSeq(rt, 1, m)
<1>5. u \in Seq(Nat) /\ Len(u) = m /\ \A k \in 1..m : u[k] = rt[k]
  <2>1. m <= Len(rt)
    BY <1>1, <1>3
  <2> QED
    BY <1>1, <1>3, <2>1, Whole
<1> HIDE DEF u
<1>6. ASSUME NEW k \in 1..m PROVE u[k] = rs[k]
  <2> DEFINE i == (m - k) + 1
  <2>1. i \in 1..m /\ k \in 1..n /\ (i + n) - m = (n - k) + 1
    BY <1>1
  <2>2. rt[k] = t[(n - k) + 1] /\ rs[k] = s[i]
    BY <1>2, <1>3, <2>1
  <2> HIDE DEF i
  <2>3. t[(i + n) - m] = s[i]
    BY <1>4, <2>1
  <2> QED
    BY <1>5, <2>1, <2>2, <2>3
<1>7. u = rs
  BY <1>2, <1>5, <1>6, SeqEqual
<1>8. SubSeq(rs, 1, Len(rs)) = rs
  BY <1>2, SubSeqFull
<1>9. Len(rs) <= Len(rt) /\ SubSeq(rs, 1, Len(rs)) = SubSeq(rt, 1, Len(rs))
  BY <1>1, <1>2, <1>3, <1>7, <1>8 DEF u
<1> QED
  BY <1>9, Zenon DEF IsSuffix, IsPrefix, rs, rt

\* What stands for a coordinate is read as that coordinate.
LEMMA HoldsIt ==
    ASSUME NEW c \in Seq(Nat), c # <<>>, NEW w, Stands(w, c), w[1] < HighBit,
           Len(w) > 1 /\ w[1] = 0 => w[2] >= HighBit,
           NEW b, NEW e, SubSeq(b, e.start + 1, e.end) = w
    PROVE  Holds(b, e, c)
<1> DEFINE n == Len(c)
           m == Len(w)
           zs == [i \in 1..(n + 1) |-> 0]
           t == zs \o w
           k == m - n
           front == SubSeq(w, 1, k)
<1>1. n \in Nat /\ n # 0
  OBVIOUS
<1>2. /\ w \in Seq(Nat) /\ m \in 1..(n + 1)
      /\ \A i \in 1..n : IF i + m > n THEN w[(i + m) - n] = c[i] ELSE c[i] = 0
      /\ m = n + 1 => w[1] = 0
  BY DEF Stands
<1>3. w # <<>>
  <2>1. m # 0
    BY <1>2
  <2> QED
    BY <2>1
<1> HIDE DEF n, m
<1>31. m \in Nat /\ m # 0 /\ m <= n + 1
  BY <1>1, <1>2
<1>4. zs \in Seq(Nat) /\ Len(zs) = n + 1 /\ \A i \in 1..(n + 1) : zs[i] = 0
  <2>1. n + 1 \in Nat
    BY <1>1
  <2> DEFINE g == n + 1
  <2> HIDE DEF g
  <2>2. g \in Nat
    BY <2>1 DEF g
  <2>3. [i \in 1..g |-> 0] \in Seq(Nat) /\ Len([i \in 1..g |-> 0]) = g
    BY <2>2
  <2> QED
    BY <2>3 DEF g
<1> HIDE DEF zs
<1>5. /\ t \in Seq(Nat) /\ Len(t) = (n + 1) + m
      /\ \A i \in 1..((n + 1) + m) : t[i] = IF i <= n + 1 THEN zs[i] ELSE w[i - (n + 1)]
  <2>1. /\ zs \o w \in Seq(Nat) /\ Len(zs \o w) = Len(zs) + Len(w)
        /\ \A i \in 1..(Len(zs) + Len(w)) : (zs \o w)[i] = IF i <= Len(zs) THEN zs[i] ELSE w[i - Len(zs)]
    BY <1>2, <1>4, ConcatProperties
  <2> QED
    BY <1>4, <2>1 DEF m
<1> HIDE DEF t
<1>6. ASSUME NEW i \in 1..n PROVE t[(i + Len(t)) - n] = c[i]
  <2> DEFINE j == (i + m) + 1
  <2>1. (i + Len(t)) - n = j /\ j \in 1..((n + 1) + m)
    BY <1>1, <1>31, <1>5
  <2>2. CASE i + m > n
    <3>1. ~(j <= n + 1) /\ j - (n + 1) = (i + m) - n
      BY <1>1, <1>31, <2>2
    <3> HIDE DEF j
    <3>2. t[j] = w[(i + m) - n]
      BY <1>5, <2>1, <3>1
    <3> QED
      BY <1>2, <2>1, <2>2, <3>2
  <2>3. CASE ~(i + m > n)
    <3>1. j <= n + 1 /\ j \in 1..(n + 1)
      BY <1>1, <1>31, <2>3
    <3> HIDE DEF j
    <3>2. t[j] = 0
      BY <1>4, <1>5, <2>1, <3>1
    <3> QED
      BY <1>2, <2>1, <2>3, <3>2
  <2> QED
    BY <2>2, <2>3
<1>7. IsSuffix(c, t)
  <2>1. n <= Len(t)
    BY <1>1, <1>31, <1>5
  <2>2. \A i \in 1..Len(c) : t[(i + Len(t)) - Len(c)] = c[i]
    BY <1>6 DEF n
  <2> QED
    BY <1>5, <2>1, <2>2, SuffixIs DEF n
<1>8. front \in {<<>>, <<0>>}
  <2>1. CASE m = n + 1
    <3>1. k = 1
      BY <1>1, <2>1
    <3>2. 1 <= Len(w) /\ 1 \in Nat
      BY <1>31 DEF m
    <3>3. SubSeq(w, 1, 1) \in Seq(Nat) /\ Len(SubSeq(w, 1, 1)) = 1 /\ \A i \in 1..1 : SubSeq(w, 1, 1)[i] = w[i]
      <4>1. w \in Seq(Nat)
        BY <1>2, Zenon
      <4> QED
        BY <3>2, <4>1, Whole, ZenonT(60)
    <3> DEFINE u == SubSeq(w, 1, 1)
               z == <<0>>
    <3>4. u \in Seq(Nat) /\ Len(u) = 1 /\ u[1] = 0
      BY <1>2, <2>1, <3>3
    <3>5. z \in Seq(Nat) /\ Len(z) = 1 /\ z[1] = 0
      OBVIOUS
    <3> HIDE DEF u, z
    <3>6. \A i \in 1..1 : i = 1
      OBVIOUS
    <3>7. u = z
      BY <3>4, <3>5, <3>6, SeqEqual
    <3> QED
      BY <3>1, <3>7 DEF u, z
  <2>2. CASE m # n + 1
    <3>1. k \in Int /\ k < 1 /\ 1 \in Int
      BY <1>1, <1>31, <2>2
    <3> HIDE DEF k
    <3>2. front = <<>>
      BY <3>1, SubSeqEmpty
    <3> QED
      BY <3>2
  <2> QED
    BY <2>1, <2>2
<1> QED
  BY <1>3, <1>7, <1>8, Zenon DEF Holds, t, zs, k, m, n

\* A raw signature becomes the one sequence of its two numbers.
LEMMA DerBack ==
    ASSUME NEW d \in Seq(Octet), NEW n \in CoordLens, NEW der \in RawToDer(d, n)
    PROVE  \E s \in Element(der, 0, SEQUENCE) : s.end = Len(der) /\
             \E x \in Element(der, s.start, 2) : Holds(der, x, SubSeq(d, 1, n)) /\
               \E y \in Element(der, x.end, 2) : Holds(der, y, From(d, n)) /\ y.end = s.end
<1> DEFINE c1 == SubSeq(d, 1, n)
           c2 == From(d, n)
           w1 == Signed(Magnitude(c1))
           w2 == Signed(Magnitude(c2))
           l1 == DerLen(Len(w1))
           l2 == DerLen(Len(w2))
           d1 == <<2>> \o l1 \o w1
           d2 == <<2>> \o l2 \o w2
           body == d1 \o d2
           lb == DerLen(Len(body))
           pre == <<SEQUENCE>> \o lb
<1>1. n \in Nat \ {0} /\ Len(d) = 2 * n
  <2>1. n \in Nat \ {0}
    BY RecordAssumption
  <2>2. ~(n \notin CoordLens \/ Len(d) # 2 * n)
    BY Zenon DEF RawToDer
  <2> QED
    BY <2>1, <2>2
<1>2. der = pre \o body
  <2>1. RawToDer(d, n) = {<<SEQUENCE>> \o DerLen(Len(body)) \o body}
    BY <1>1, Zenon DEF RawToDer, DerInteger
  <2>2. der = <<SEQUENCE>> \o DerLen(Len(body)) \o body
    BY <2>1, Zenon
  <2> QED
    BY <2>2, Zenon
<1>3. c1 \in Seq(Octet) /\ c1 # <<>> /\ c2 \in Seq(Octet) /\ c2 # <<>>
  <2>1. n \in Nat /\ n <= Len(d) /\ Len(d) - n = n /\ n # 0
    BY <1>1
  <2>2. c1 \in Seq(Octet) /\ Len(c1) = n
    BY <2>1, Whole
  <2>3. c2 \in Seq(Octet) /\ Len(c2) = n
    BY <2>1, FromRest
  <2> HIDE DEF c1, c2
  <2> QED
    BY <2>1, <2>2, <2>3
<1> HIDE DEF c1, c2
<1>4. c1 \in Seq(Nat) /\ c2 \in Seq(Nat)
  BY <1>3, OctetSeq, Zenon
<1>5. Stands(w1, c1) /\ w1[1] < HighBit /\ (Len(w1) > 1 /\ w1[1] = 0 => w1[2] >= HighBit)
  BY <1>3, SignedIs, Zenon
<1>6. Stands(w2, c2) /\ w2[1] < HighBit /\ (Len(w2) > 1 /\ w2[1] = 0 => w2[2] >= HighBit)
  BY <1>3, SignedIs, Zenon
<1> HIDE DEF w1, w2
<1>7. w1 \in Seq(Nat) /\ w2 \in Seq(Nat)
  BY <1>5, <1>6, Zenon DEF Stands
<1>8. l1 \in Seq(Nat) /\ l2 \in Seq(Nat) /\ Len(l1) \in Nat /\ Len(l2) \in Nat
  <2>1. Len(w1) \in Nat /\ Len(w2) \in Nat
    BY <1>7
  <2>2. l1 \in Seq(Nat) /\ Len(l1) \in 1..3
    BY <2>1, DerLenIs, Zenon
  <2>3. l2 \in Seq(Nat) /\ Len(l2) \in 1..3
    BY <2>1, DerLenIs, Zenon
  <2> HIDE DEF l1, l2
  <2> QED
    BY <2>2, <2>3
<1> HIDE DEF l1, l2
<1>9. d1 \in Seq(Nat) /\ Len(d1) = 1 + Len(l1) + Len(w1) /\ d2 \in Seq(Nat) /\ Len(d2) = 1 + Len(l2) + Len(w2)
  <2> DEFINE g == <<2>>
  <2>1. g \in Seq(Nat) /\ Len(g) = 1
    OBVIOUS
  <2> HIDE DEF g
  <2>2. (g \o l1) \o w1 \in Seq(Nat) /\ Len((g \o l1) \o w1) = (Len(g) + Len(l1)) + Len(w1)
    <3>1. Pieced(g, l1, w1)
      BY <1>7, <1>8, <2>1, Three, Zenon
    <3> QED
      BY <3>1, Zenon DEF Pieced
  <2>3. (g \o l2) \o w2 \in Seq(Nat) /\ Len((g \o l2) \o w2) = (Len(g) + Len(l2)) + Len(w2)
    <3>1. Pieced(g, l2, w2)
      BY <1>7, <1>8, <2>1, Three, Zenon
    <3> QED
      BY <3>1, Zenon DEF Pieced
  <2> QED
    BY <2>1, <2>2, <2>3 DEF g
<1> HIDE DEF d1, d2
<1>10. body \in Seq(Nat) /\ Len(body) = Len(d1) + Len(d2)
  BY <1>9, ConcatProperties
<1> HIDE DEF body
<1>11. lb \in Seq(Nat) /\ Len(lb) \in Nat
  <2>1. Len(body) \in Nat
    BY <1>10
  <2> QED
    BY <2>1, DerLenIs
<1> HIDE DEF lb
<1>12. SEQUENCE \in Nat
  BY BaseFacts DEF SEQUENCE
<1>13. pre \in Seq(Nat) /\ Len(pre) = 1 + Len(lb)
  <2> DEFINE g == <<SEQUENCE>>
  <2>1. g \in Seq(Nat) /\ Len(g) = 1
    BY <1>12
  <2> HIDE DEF g
  <2>2. g \o lb \in Seq(Nat) /\ Len(g \o lb) = Len(g) + Len(lb)
    BY <1>11, <2>1, ConcatProperties
  <2> QED
    BY <2>1, <2>2 DEF g
<1>14. HasElement(der, 0, SEQUENCE, body)
  <2> DEFINE nil == <<>>
  <2>1. nil \in Seq(Nat) /\ Len(nil) = 0
    OBVIOUS
  <2>2. HasElement((nil \o (<<SEQUENCE>> \o DerLen(Len(body)) \o body)) \o nil, Len(nil), SEQUENCE, body)
    <3> HIDE DEF nil
    <3> QED
      BY <1>10, <1>12, <2>1, ElementAt, Zenon
  <2>3. der \in Seq(Nat)
    BY <1>2, <1>10, <1>13, ConcatProperties
  <2>4. (nil \o der) \o nil = der
    <3>1. nil \o der = der /\ der \o nil = der
      BY <2>3, ConcatEmptySeq
    <3> QED
      BY <3>1, Zenon
  <2>5. der = <<SEQUENCE>> \o DerLen(Len(body)) \o body
    BY <1>2, Zenon DEF pre, lb
  <2> HIDE DEF nil
  <2> QED
    BY <2>1, <2>2, <2>4, <2>5, Zenon
<1> HIDE DEF pre
<1> DEFINE pd == pre \o d1
<1>15. pd \in Seq(Nat) /\ Len(pd) = Len(pre) + Len(d1)
  BY <1>9, <1>13, ConcatProperties
<1>16. der = pd \o d2 /\ der \in Seq(Nat) /\ Len(der) = Len(pd) + Len(d2)
  <2>1. (pre \o d1) \o d2 = pre \o (d1 \o d2)
    <3>1. Associates(pre, d1, d2)
      BY <1>9, <1>13, Associative, Zenon
    <3> QED
      BY <3>1, Zenon DEF Associates
  <2>2. der = pd \o d2
    BY <1>2, <2>1, Zenon DEF body
  <2> HIDE DEF pd
  <2>3. pd \o d2 \in Seq(Nat) /\ Len(pd \o d2) = Len(pd) + Len(d2)
    BY <1>9, <1>15, ConcatProperties
  <2> QED
    BY <2>2, <2>3
<1>17. HasElement(der, Len(pre), 2, w1)
  <2>1. HasElement((pre \o (<<2>> \o DerLen(Len(w1)) \o w1)) \o d2, Len(pre), 2, w1)
    <3>1. 2 \in Nat
      OBVIOUS
    <3> QED
      BY <1>7, <1>9, <1>13, <3>1, ElementAt, Zenon
  <2> QED
    BY <1>16, <2>1, Zenon DEF pd, d1, l1
<1> HIDE DEF pd
<1>18. HasElement(der, Len(pd), 2, w2)
  <2> DEFINE nil == <<>>
  <2>0. nil \in Seq(Nat)
    OBVIOUS
  <2>1. HasElement((pd \o (<<2>> \o DerLen(Len(w2)) \o w2)) \o nil, Len(pd), 2, w2)
    <3>1. 2 \in Nat
      OBVIOUS
    <3> HIDE DEF nil
    <3> QED
      BY <1>7, <1>15, <2>0, <3>1, ElementAt, Zenon
  <2>2. der \o nil = der
    BY <1>16, ConcatEmptySeq
  <2> HIDE DEF nil
  <2> QED
    BY <1>16, <2>1, <2>2, Zenon DEF d2, l2
<1>19. PICK s \in Element(der, 0, SEQUENCE) :
         s.start = 0 + 1 + Len(lb) /\ s.end = s.start + Len(body)
  BY <1>14, Zenon DEF HasElement, lb
<1>20. Len(pre) \in Nat /\ Len(d1) \in Nat /\ Len(d2) \in Nat /\ Len(w1) \in Nat /\ Len(w2) \in Nat
  <2>1. pre \in Seq(Nat)
    BY <1>13, Zenon
  <2> QED
    BY <1>7, <1>9, <2>1, NumbersIn, Zenon
<1>21. s.start = Len(pre) /\ s.end = Len(der)
  BY <1>10, <1>11, <1>13, <1>15, <1>16, <1>19, <1>20
<1>22. PICK x \in Element(der, Len(pre), 2) :
         /\ x.start = Len(pre) + 1 + Len(l1) /\ x.end = x.start + Len(w1)
         /\ SubSeq(der, x.start + 1, x.end) = w1
  BY <1>17, Zenon DEF HasElement, l1
<1>23. x.end = Len(pd)
  BY <1>8, <1>9, <1>15, <1>20, <1>22
<1>24. PICK y \in Element(der, Len(pd), 2) :
         /\ y.start = Len(pd) + 1 + Len(l2) /\ y.end = y.start + Len(w2)
         /\ SubSeq(der, y.start + 1, y.end) = w2
  BY <1>18, Zenon DEF HasElement, l2
<1>25. y.end = s.end
  <2>1. Len(pd) \in Nat
    BY <1>15
  <2> QED
    BY <1>8, <1>9, <1>16, <1>20, <1>21, <1>24, <2>1
<1>26. Holds(der, x, c1)
  BY <1>3, <1>4, <1>5, <1>22, HoldsIt
<1>27. Holds(der, y, c2)
  BY <1>3, <1>4, <1>6, <1>24, HoldsIt
<1> QED
  BY <1>21, <1>22, <1>23, <1>24, <1>25, <1>26, <1>27, Zenon DEF c1, c2

-----------------------------------------------------------------------------
(* The stored profile.                                                      *)

\* An entry of the table from which Slices reads its answer.
Entry(b, k, f, i) ==
    IF k = 0 THEN {[slices |-> <<>>, end |-> i]}
    ELSE IF i + 4 > Len(b) \/ i + 4 + U32LE(b, i) > Len(b) THEN {}
    ELSE {[slices |-> <<SubSeq(b, i + 5, i + 4 + U32LE(b, i))>> \o r.slices, end |-> r.end]
             : r \in f[k - 1][i + 4 + U32LE(b, i)]}

RowOf(b, k, f) == [i \in 0..Len(b) |-> Entry(b, k, f, i)]

IsTable(b, n, f) == f = [k \in 0..n |-> RowOf(b, k, f)]

\* A table is what its rows are.
LEMMA TableRows ==
    ASSUME NEW b, NEW n \in Nat, NEW f
    PROVE  /\ IsTable(b, n, f) => \A k \in 0..n : f[k] = RowOf(b, k, f)
           /\ (f = [k \in 0..n |-> f[k]] /\ \A k \in 0..n : f[k] = RowOf(b, k, f))
                => IsTable(b, n, f)
<1>1. IsTable(b, n, f) <=> f = [k \in 0..n |-> RowOf(b, k, f)]
  BY Zenon DEF IsTable
<1>2. f = [k \in 0..n |-> RowOf(b, k, f)] => \A k \in 0..n : f[k] = RowOf(b, k, f)
  OBVIOUS
<1>3. f = [k \in 0..n |-> f[k]] /\ (\A k \in 0..n : f[k] = RowOf(b, k, f))
        => f = [k \in 0..n |-> RowOf(b, k, f)]
  OBVIOUS
<1> QED
  BY <1>1, <1>2, <1>3, Zenon

\* A row depends on the one before it only.
LEMMA RowFrom ==
    ASSUME NEW b, NEW k, NEW f, NEW g, k # 0 => f[k - 1] = g[k - 1]
    PROVE  RowOf(b, k, f) = RowOf(b, k, g)
<1>1. ASSUME NEW i PROVE Entry(b, k, f, i) = Entry(b, k, g, i)
  <2>1. CASE k = 0
    BY <2>1, Zenon DEF Entry
  <2>2. CASE k # 0
    <3>1. f[k - 1] = g[k - 1]
      BY <2>2
    <3> QED
      BY <2>2, <3>1, Zenon DEF Entry
  <2> QED
    BY <2>1, <2>2
<1>2. \A i : Entry(b, k, f, i) = Entry(b, k, g, i)
  BY <1>1
<1> QED
  BY <1>2 DEF RowOf

\* There is a table of every height.
LEMMA TableExists ==
    ASSUME NEW b, NEW n \in Nat
    PROVE  \E f : IsTable(b, n, f)
<1> DEFINE T == {m \in Nat : \E f : IsTable(b, m, f)}
<1>1. 0 \in T
  <2> DEFINE f == [k \in 0..0 |-> [i \in 0..Len(b) |-> {[slices |-> <<>>, end |-> i]}]]
  <2>1. f = [k \in 0..0 |-> f[k]]
    OBVIOUS
  <2>2. f[0] = [i \in 0..Len(b) |-> {[slices |-> <<>>, end |-> i]}]
    OBVIOUS
  <2> HIDE DEF f
  <2>3. \A i : Entry(b, 0, f, i) = {[slices |-> <<>>, end |-> i]}
    BY Zenon DEF Entry
  <2>4. f[0] = RowOf(b, 0, f)
    BY <2>2, <2>3 DEF RowOf
  <2>5. \A k \in 0..0 : k = 0
    OBVIOUS
  <2>6. \A k \in 0..0 : f[k] = RowOf(b, k, f)
    BY <2>4, <2>5
  <2>7. 0 \in Nat
    OBVIOUS
  <2>8. IsTable(b, 0, f)
    BY <2>1, <2>6, <2>7, TableRows, Zenon
  <2> QED
    BY <2>7, <2>8
<1>2. ASSUME NEW m \in T PROVE m + 1 \in T
  <2>0. m \in Nat /\ m + 1 \in Nat
    OBVIOUS
  <2>1. PICK f : IsTable(b, m, f)
    OBVIOUS
  <2>2. \A k \in 0..m : f[k] = RowOf(b, k, f)
    BY <2>0, <2>1, TableRows, Zenon
  <2> DEFINE g == [k \in 0..(m + 1) |-> RowOf(b, k, f)]
  <2>3. g = [k \in 0..(m + 1) |-> g[k]]
    OBVIOUS
  <2>4. ASSUME NEW k \in 0..(m + 1) PROVE g[k] = RowOf(b, k, g)
    <3>1. k # 0 => f[k - 1] = g[k - 1]
      <4>1. ASSUME k # 0 PROVE f[k - 1] = g[k - 1]
        <5>1. k - 1 \in 0..m /\ k - 1 \in 0..(m + 1)
          BY <2>0, <4>1
        <5>2. f[k - 1] = RowOf(b, k - 1, f)
          BY <2>2, <5>1
        <5>3. g[k - 1] = RowOf(b, k - 1, f)
          BY <5>1
        <5> QED
          BY <5>2, <5>3
      <4> QED
        BY <4>1
    <3>2. RowOf(b, k, f) = RowOf(b, k, g)
      <4> HIDE DEF g
      <4> QED
        BY <3>1, RowFrom
    <3>3. g[k] = RowOf(b, k, f)
      OBVIOUS
    <3> HIDE DEF g
    <3> QED
      BY <3>2, <3>3
  <2> HIDE DEF g
  <2>5. IsTable(b, m + 1, g)
    BY <2>0, <2>3, <2>4, TableRows, Zenon
  <2> QED
    BY <2>0, <2>5
<1>3. T = Nat
  <2> HIDE DEF T
  <2>1. T \in SUBSET Nat
    BY DEF T
  <2> QED
    BY <1>1, <1>2, <2>1, Induction
<1> QED
  BY <1>3

\* The higher table has the rows of the lower one.
LEMMA TablesAgree ==
    ASSUME NEW b, NEW n \in Nat, NEW m \in Nat, NEW f, NEW g, IsTable(b, n, f), IsTable(b, m, g)
    PROVE  \A k \in Nat : k <= n /\ k <= m => f[k] = g[k]
<1> DEFINE T == {k \in Nat : k <= n /\ k <= m => f[k] = g[k]}
<1>0. /\ \A k \in 0..n : f[k] = RowOf(b, k, f)
      /\ \A k \in 0..m : g[k] = RowOf(b, k, g)
  BY TableRows, Zenon
<1>1. ASSUME NEW k \in Nat, k <= n, k <= m, k # 0 => f[k - 1] = g[k - 1] PROVE f[k] = g[k]
  <2>1. k \in 0..n /\ k \in 0..m
    BY <1>1
  <2>2. RowOf(b, k, f) = RowOf(b, k, g)
    BY <1>1, RowFrom
  <2> QED
    BY <1>0, <2>1, <2>2
<1>2. 0 \in T
  BY <1>1
<1>3. ASSUME NEW k \in T PROVE k + 1 \in T
  <2>1. k \in Nat /\ (k <= n /\ k <= m => f[k] = g[k])
    OBVIOUS
  <2>2. k + 1 \in Nat /\ (k + 1) - 1 = k /\ (k + 1 <= n => k <= n) /\ (k + 1 <= m => k <= m)
    BY <2>1
  <2>3. k + 1 <= n /\ k + 1 <= m => f[k + 1] = g[k + 1]
    BY <1>1, <2>1, <2>2
  <2> QED
    BY <2>2, <2>3
<1>4. T = Nat
  <2> HIDE DEF T
  <2>1. T \in SUBSET Nat
    BY DEF T
  <2> QED
    BY <1>2, <1>3, <2>1, Induction
<1> QED
  BY <1>4

\* Slices reads a table.
LEMMA SlicesTable ==
    ASSUME NEW b, NEW n \in Nat
    PROVE  \E f : IsTable(b, n, f) /\ \A o : Slices(b, n, o) = f[n][o]
<1> DEFINE c == CHOOSE f : f = [k \in 0..n |-> RowOf(b, k, f)]
<1>1. \A o : Slices(b, n, o) = c[n][o]
  BY Zenon DEF Slices, Entry, RowOf
<1>2. \E f : f = [k \in 0..n |-> RowOf(b, k, f)]
  BY TableExists, Zenon DEF IsTable
<1>3. c = [k \in 0..n |-> RowOf(b, k, c)]
  BY <1>2, Zenon
<1> HIDE DEF c
<1>4. IsTable(b, n, c)
  BY <1>3, Zenon DEF IsTable
<1> QED
  BY <1>1, <1>4

\* No slice, and one slice more.
LEMMA SlicesZero ==
    ASSUME NEW b, NEW o \in 0..Len(b)
    PROVE  Slices(b, 0, o) = {[slices |-> <<>>, end |-> o]}
<1>1. 0 \in Nat /\ 0 \in 0..0
  OBVIOUS
<1>2. PICK f : IsTable(b, 0, f) /\ \A p : Slices(b, 0, p) = f[0][p]
  BY <1>1, SlicesTable
<1>3. f[0] = RowOf(b, 0, f)
  BY <1>1, <1>2, TableRows, Zenon
<1>4. f[0][o] = Entry(b, 0, f, o)
  BY <1>3 DEF RowOf
<1>5. Entry(b, 0, f, o) = {[slices |-> <<>>, end |-> o]}
  BY Zenon DEF Entry
<1> QED
  BY <1>2, <1>4, <1>5

\* The same, one slice at a time.
LEMMA SlicesMore ==
    ASSUME NEW b \in Seq(Octet), NEW n \in Nat, NEW o \in 0..Len(b)
    PROVE  Slices(b, n + 1, o) =
              IF o + 4 > Len(b) \/ o + 4 + U32LE(b, o) > Len(b) THEN {}
              ELSE {[slices |-> <<SubSeq(b, o + 5, o + 4 + U32LE(b, o))>> \o r.slices, end |-> r.end]
                       : r \in Slices(b, n, o + 4 + U32LE(b, o))}
<1>1. n + 1 \in Nat /\ n + 1 \in 0..(n + 1) /\ n + 1 # 0 /\ (n + 1) - 1 = n /\ n <= n + 1 /\ n <= n
  OBVIOUS
<1> DEFINE m == n + 1
           x == o + 4 + U32LE(b, o)
<1>2. PICK f : IsTable(b, m, f) /\ \A p : Slices(b, m, p) = f[m][p]
  BY <1>1, SlicesTable
<1>3. PICK g : IsTable(b, n, g) /\ \A p : Slices(b, n, p) = g[n][p]
  BY SlicesTable
<1>4. f[n] = g[n]
  <2>1. m \in Nat /\ n <= m /\ n <= n
    BY <1>1
  <2> HIDE DEF m
  <2> QED
    BY <1>2, <1>3, <2>1, TablesAgree
<1>5. f[m] = RowOf(b, m, f)
  BY <1>1, <1>2, TableRows, Zenon
<1>6. f[m][o] = Entry(b, m, f, o)
  <2> HIDE DEF m
  <2> QED
    BY <1>5 DEF RowOf
<1>7. m # 0 /\ m - 1 = n
  BY <1>1
<1> HIDE DEF m
<1>8. f[m - 1][x] = Slices(b, n, x)
  BY <1>3, <1>4, <1>7
<1>9. Entry(b, m, f, o) = IF o + 4 > Len(b) \/ x > Len(b) THEN {}
                          ELSE {[slices |-> <<SubSeq(b, o + 5, x)>> \o r.slices, end |-> r.end]
                                   : r \in Slices(b, n, x)}
  BY <1>7, <1>8, Zenon DEF Entry
<1>10. Slices(b, m, o) = Entry(b, m, f, o)
  BY <1>2, <1>6
<1> QED
  BY <1>9, <1>10, Zenon DEF m, x

\* Reversed twice.
LEMMA ReverseTwice ==
    ASSUME NEW S, NEW s \in Seq(S)
    PROVE  /\ Reverse(s) \in Seq(S) /\ Len(Reverse(s)) = Len(s)
           /\ Reverse(Reverse(s)) = s
<1> DEFINE n == Len(s)
           r == Reverse(s)
<1>1. n \in Nat /\ \A i \in 1..n : (n - i) + 1 \in 1..n /\ (n - ((n - i) + 1)) + 1 = i
  OBVIOUS
<1>2. \A i \in 1..n : s[i] \in S
  OBVIOUS
<1>3. r = [i \in 1..n |-> s[(n - i) + 1]]
  BY DEF Reverse
<1>4. s = [i \in 1..n |-> s[i]]
  OBVIOUS
<1> HIDE DEF r
<1>5. r \in Seq(S) /\ Len(r) = n
  <2>1. \A i \in 1..n : s[(n - i) + 1] \in S
    BY <1>1, <1>2
  <2> HIDE DEF n
  <2> QED
    BY <1>1, <1>3, <2>1
<1>6. Reverse(r) = [i \in 1..n |-> r[(n - i) + 1]]
  BY <1>5 DEF Reverse
<1> HIDE DEF n
<1>7. \A i \in 1..n : r[(n - i) + 1] = s[i]
  BY <1>1, <1>3
<1>8. [i \in 1..n |-> r[(n - i) + 1]] = [i \in 1..n |-> s[i]]
  BY <1>7
<1>9. Reverse(r) = s
  BY <1>4, <1>6, <1>8
<1> QED
  BY <1>5, <1>9 DEF n, r

\* A number is written in four octets.
LEMMA LEType ==
    ASSUME NEW n \in Nat
    PROVE  LE32(n) \in Seq(Nat) /\ Len(LE32(n)) = 4
<1> DEFINE q == n \div (Base * Base)
           r == n % (Base * Base)
<1>1. Base * Base \in Nat \ {0}
  BY BaseFacts
<1>2. q \in Nat /\ r \in Nat
  <2> DEFINE d == Base * Base
  <2> HIDE DEF d
  <2>1. d \in Nat \ {0}
    BY <1>1 DEF d
  <2>2. n \div d \in Nat /\ n % d \in 0..(d - 1)
    BY <2>1, DivMod2
  <2>3. n % d \in Nat
    BY <2>1, <2>2
  <2> QED
    BY <2>2, <2>3 DEF d
<1>3. BE32(n) = BE(q) \o BE(r)
  BY DEF BE32
<1> HIDE DEF q, r
<1>4. BE(q) \in Seq(Nat) /\ Len(BE(q)) = 2 /\ BE(r) \in Seq(Nat) /\ Len(BE(r)) = 2
  BY <1>2, BEType
<1>5. BE(q) \o BE(r) \in Seq(Nat) /\ Len(BE(q) \o BE(r)) = 4
  <2> DEFINE x == BE(q)
             y == BE(r)
  <2> HIDE DEF x, y
  <2>1. x \in Seq(Nat) /\ y \in Seq(Nat) /\ Len(x) = 2 /\ Len(y) = 2
    BY <1>4 DEF x, y
  <2>2. /\ x \o y \in Seq(Nat) /\ Len(x \o y) = Len(x) + Len(y)
        /\ \A i \in 1..(Len(x) + Len(y)) : (x \o y)[i] = IF i <= Len(x) THEN x[i] ELSE y[i - Len(x)]
    BY <2>1, ConcatProperties
  <2> QED
    BY <2>1, <2>2 DEF x, y
<1>6. BE32(n) \in Seq(Nat) /\ Len(BE32(n)) = 4
  BY <1>3, <1>5
<1>7. Reverse(BE32(n)) \in Seq(Nat) /\ Len(Reverse(BE32(n))) = Len(BE32(n))
  BY <1>6, ReverseTwice
<1> QED
  BY <1>6, <1>7 DEF LE32

\* The four octets of a number are written as they were read.
LEMMA LEBack ==
    ASSUME NEW b \in Seq(Octet), NEW o \in Nat, o + 4 <= Len(b)
    PROVE  /\ U32LE(b, o) \in Nat
           /\ LE32(U32LE(b, o)) = SubSeq(b, o + 1, o + 4)
<1> DEFINE s == SubSeq(b, o + 1, o + 4)
           r == Reverse(s)
<1>1. s \in Seq(Octet) /\ Len(s) = 4
  <2>1. o + 4 \in Nat /\ o <= o + 4 /\ (o + 4) - o = 4
    OBVIOUS
  <2>2. /\ SubSeq(b, o + 1, o + 4) \in Seq(Octet)
        /\ Len(SubSeq(b, o + 1, o + 4)) = (o + 4) - o
    BY <2>1, Part
  <2> QED
    BY <2>1, <2>2
<1>2. U32LE(b, o) = U32(r, 0)
  BY Zenon DEF U32LE
<1> HIDE DEF s
<1>3. r \in Seq(Octet) /\ Len(r) = Len(s) /\ Reverse(r) = s
  BY <1>1, ReverseTwice
<1> HIDE DEF r
<1>4. U32(r, 0) \in Nat /\ BE32(U32(r, 0)) = SubSeq(r, 0 + 1, 0 + 4)
  <2>1. 0 \in Nat /\ 0 + 4 <= Len(r)
    BY <1>1, <1>3
  <2> QED
    BY <1>3, <2>1, U32Of
<1>5. SubSeq(r, 0 + 1, 0 + 4) = r
  <2>1. SubSeq(r, 1, Len(r)) = r
    BY <1>3, SubSeqFull
  <2>2. 0 + 1 = 1 /\ 0 + 4 = Len(r)
    BY <1>1, <1>3
  <2> QED
    BY <2>1, <2>2
<1>6. LE32(U32LE(b, o)) = s
  BY <1>2, <1>3, <1>4, <1>5, Zenon DEF LE32
<1> QED
  BY <1>2, <1>4, <1>6 DEF s

\* What is the same octet for octet is the same.
LEMMA SameSpan ==
    ASSUME NEW b \in Seq(Octet), NEW e \in Seq(Octet), NEW i \in Nat, NEW j \in Nat,
           i <= j, j <= Len(b), j <= Len(e), \A k \in (i + 1)..j : e[k] = b[k]
    PROVE  SubSeq(e, i + 1, j) = SubSeq(b, i + 1, j)
<1> DEFINE x == SubSeq(e, i + 1, j)
           y == SubSeq(b, i + 1, j)
<1>1. /\ x \in Seq(Octet) /\ Len(x) = j - i
      /\ \A k \in 1..(j - i) : x[k] = e[i + k]
  BY Part
<1>2. /\ y \in Seq(Octet) /\ Len(y) = j - i
      /\ \A k \in 1..(j - i) : y[k] = b[i + k]
  BY Part
<1>3. \A k \in 1..(j - i) : i + k \in (i + 1)..j
  OBVIOUS
<1> HIDE DEF x, y
<1>4. \A k \in 1..(j - i) : x[k] = y[k]
  BY <1>1, <1>2, <1>3
<1>5. x = y
  BY <1>1, <1>2, <1>4, SeqEqual
<1> QED
  BY <1>5 DEF x, y

\* A byte string with its length before it.
LEMMA PutBytesType ==
    ASSUME NEW s \in Seq(Nat)
    PROVE  PutBytes(s) \in Seq(Nat) /\ Len(PutBytes(s)) = 4 + Len(s)
<1>1. Len(s) \in Nat
  OBVIOUS
<1> DEFINE x == LE32(Len(s))
<1>2. x \in Seq(Nat) /\ Len(x) = 4
  BY <1>1, LEType
<1> HIDE DEF x
<1>3. /\ x \o s \in Seq(Nat) /\ Len(x \o s) = Len(x) + Len(s)
      /\ \A i \in 1..(Len(x) + Len(s)) : (x \o s)[i] = IF i <= Len(x) THEN x[i] ELSE s[i - Len(x)]
  BY <1>2, ConcatProperties
<1> QED
  BY <1>1, <1>2, <1>3 DEF PutBytes, x

\* The strings of which PutAll is made.
Puts(ss) == [i \in DOMAIN ss |-> PutBytes(ss[i])]

\* They are octet strings.
LEMMA WrittenType ==
    ASSUME NEW ss \in Seq(Seq(Nat))
    PROVE  /\ Puts(ss) \in Seq(Seq(Nat)) /\ Len(Puts(ss)) = Len(ss)
           /\ \A i \in 1..Len(ss) : Puts(ss)[i] = PutBytes(ss[i])
           /\ PutAll(ss) = FlattenSeq(Puts(ss))
<1> DEFINE n == Len(ss)
           w == Puts(ss)
           Q == Seq(Nat)
<1>1. n \in Nat /\ DOMAIN ss = 1..n /\ \A i \in 1..n : ss[i] \in Q
  OBVIOUS
<1>2. \A i \in 1..n : PutBytes(ss[i]) \in Q
  BY <1>1, PutBytesType
<1>3. w = [i \in 1..n |-> PutBytes(ss[i])]
  BY <1>1 DEF Puts
<1> HIDE DEF n, w, Q
<1>4. w \in Seq(Q) /\ Len(w) = n /\ \A i \in 1..n : w[i] = PutBytes(ss[i])
  BY <1>1, <1>2, <1>3
<1>5. PutAll(ss) = FlattenSeq(w)
  BY Zenon DEF PutAll, Puts, w
<1> QED
  BY <1>4, <1>5 DEF n, w, Q

\* One string more in front of the others, and no string.
LEMMA PutAllCons ==
    ASSUME NEW s \in Seq(Nat), NEW ss \in Seq(Seq(Nat))
    PROVE  /\ <<s>> \o ss \in Seq(Seq(Nat)) /\ Len(<<s>> \o ss) = Len(ss) + 1
           /\ PutAll(<<s>> \o ss) = PutBytes(s) \o PutAll(ss)
           /\ PutAll(ss) \in Seq(Nat)
<1> DEFINE Q == Seq(Nat)
           w == Puts(ss)
           t == <<s>> \o ss
           v == Puts(t)
           u == <<PutBytes(s)>> \o w
<1>1. w \in Seq(Q) /\ Len(w) = Len(ss) /\ (\A i \in 1..Len(ss) : w[i] = PutBytes(ss[i]))
      /\ PutAll(ss) = FlattenSeq(w)
  BY WrittenType
<1>2. PutBytes(s) \in Q /\ s \in Q
  BY PutBytesType
<1> HIDE DEF Q
<1>3. /\ t \in Seq(Q) /\ Len(t) = Len(ss) + 1 /\ t[1] = s
      /\ \A i \in 1..Len(ss) : t[i + 1] = ss[i]
  <2>0. ss \in Seq(Q)
    BY DEF Q
  <2>1. <<s>> \in Seq(Q) /\ Len(<<s>>) = 1 /\ <<s>>[1] = s
    BY <1>2
  <2>2. /\ <<s>> \o ss \in Seq(Q) /\ Len(<<s>> \o ss) = Len(<<s>>) + Len(ss)
        /\ \A i \in 1..(Len(<<s>>) + Len(ss)) :
              (<<s>> \o ss)[i] = IF i <= Len(<<s>>) THEN <<s>>[i] ELSE ss[i - Len(<<s>>)]
    BY <2>0, <2>1, ConcatProperties
  <2>3. Len(ss) \in Nat
    BY <2>0
  <2> QED
    BY <2>1, <2>2, <2>3
<1>4. /\ v \in Seq(Q) /\ Len(v) = Len(t) /\ (\A i \in 1..Len(t) : v[i] = PutBytes(t[i]))
      /\ PutAll(t) = FlattenSeq(v)
  <2> HIDE DEF t
  <2>1. t \in Seq(Seq(Nat))
    BY <1>3 DEF Q
  <2> QED
    BY <2>1, WrittenType DEF Q
<1> HIDE DEF w, t, v
<1>5. /\ u \in Seq(Q) /\ Len(u) = Len(ss) + 1 /\ u[1] = PutBytes(s)
      /\ \A i \in 1..Len(ss) : u[i + 1] = w[i]
  <2> DEFINE x == PutBytes(s)
  <2> HIDE DEF x
  <2>0. x \in Q
    BY <1>2 DEF x
  <2>1. <<x>> \in Seq(Q) /\ Len(<<x>>) = 1 /\ <<x>>[1] = x
    BY <2>0
  <2>2. /\ <<x>> \o w \in Seq(Q) /\ Len(<<x>> \o w) = Len(<<x>>) + Len(w)
        /\ \A i \in 1..(Len(<<x>>) + Len(w)) :
              (<<x>> \o w)[i] = IF i <= Len(<<x>>) THEN <<x>>[i] ELSE w[i - Len(<<x>>)]
    BY <1>1, <2>1, ConcatProperties
  <2>3. Len(w) \in Nat
    BY <1>1
  <2>4. /\ <<x>> \o w \in Seq(Q) /\ Len(<<x>> \o w) = Len(ss) + 1 /\ (<<x>> \o w)[1] = x
        /\ \A i \in 1..Len(ss) : (<<x>> \o w)[i + 1] = w[i]
    BY <1>1, <2>1, <2>2, <2>3
  <2> QED
    BY <2>4 DEF x
<1> HIDE DEF u
<1>6. v = u
  <2>1. Len(ss) \in Nat
    OBVIOUS
  <2>2. \A i \in 1..(Len(ss) + 1) : i = 1 \/ (i - 1 \in 1..Len(ss) /\ (i - 1) + 1 = i)
    BY <2>1
  <2>3. v[1] = u[1]
    BY <1>3, <1>4, <1>5, <2>1
  <2>4. ASSUME NEW k \in 1..Len(ss) PROVE v[k + 1] = u[k + 1]
    <3>1. k + 1 \in 1..Len(t)
      BY <1>3, <2>1
    <3>2. v[k + 1] = PutBytes(t[k + 1]) /\ t[k + 1] = ss[k] /\ u[k + 1] = w[k]
      BY <1>3, <1>4, <1>5, <3>1
    <3> QED
      BY <1>1, <3>2
  <2>5. \A i \in 1..(Len(ss) + 1) : v[i] = u[i]
    BY <2>2, <2>3, <2>4
  <2> QED
    BY <1>3, <1>4, <1>5, <2>5, SeqEqual
<1>7. FlattenSeq(u) = PutBytes(s) \o FlattenSeq(w) /\ FlattenSeq(w) \in Seq(Nat)
  <2> DEFINE x == PutBytes(s)
  <2> HIDE DEF x
  <2>1. x \in Seq(Nat) /\ w \in Seq(Seq(Nat))
    BY <1>1, <1>2 DEF x, Q
  <2>2. FlattenSeq(<<x>> \o w) = x \o FlattenSeq(w) /\ FlattenSeq(w) \in Seq(Nat)
    BY <2>1, FlattenCons
  <2> QED
    BY <2>2 DEF u, x
<1>8. PutAll(t) = PutBytes(s) \o PutAll(ss) /\ PutAll(ss) \in Seq(Nat)
  BY <1>1, <1>4, <1>6, <1>7
<1> QED
  BY <1>3, <1>8 DEF t, Q

\* No string at all.
LEMMA PutAllEmpty == PutAll(<<>>) = <<>>
<1> DEFINE w == Puts(<<>>)
<1>1. <<>> \in Seq(Seq(Nat)) /\ Len(<<>>) = 0
  OBVIOUS
<1>2. w \in Seq(Seq(Nat)) /\ Len(w) = 0 /\ PutAll(<<>>) = FlattenSeq(w)
  <2>1. /\ Puts(<<>>) \in Seq(Seq(Nat)) /\ Len(Puts(<<>>)) = Len(<<>>)
        /\ \A i \in 1..Len(<<>>) : Puts(<<>>)[i] = PutBytes(<<>>[i])
        /\ PutAll(<<>>) = FlattenSeq(Puts(<<>>))
    BY <1>1, WrittenType
  <2> QED
    BY <1>1, <2>1
<1> HIDE DEF w
<1>3. w = <<>>
  BY <1>2
<1> QED
  BY <1>2, <1>3, FlattenEmpty

\* s is n slices that lie in b from offset o on.
Lies(b, n, o, s) ==
    /\ s = [slices |-> s.slices, end |-> s.end]
    /\ s.slices \in Seq(Seq(Nat)) /\ Len(s.slices) = n
    /\ s.end \in Nat /\ o <= s.end /\ s.end <= Len(b)
    /\ PutAll(s.slices) = SubSeq(b, o + 1, s.end)

\* A slice that fits, with its length before it.
LEMMA SliceBack ==
    ASSUME NEW b \in Seq(Octet), NEW o \in Nat, o + 4 <= Len(b), o + 4 + U32LE(b, o) <= Len(b)
    PROVE  LET x == o + 4 + U32LE(b, o)
               s == SubSeq(b, o + 5, x) IN
           /\ x \in Nat /\ o <= x /\ o + 4 <= x /\ x <= Len(b)
           /\ s \in Seq(Octet) /\ s \in Seq(Nat) /\ Len(s) = U32LE(b, o)
           /\ PutBytes(s) = SubSeq(b, o + 1, x)
<1> DEFINE n == U32LE(b, o)
           h == o + 4
           x == h + n
           s == SubSeq(b, o + 5, x)
<1>1. n \in Nat /\ LE32(n) = SubSeq(b, o + 1, h)
  BY LEBack
<1>2. o + 5 = h + 1 /\ h \in Nat /\ o <= h /\ x = o + 4 + n
  <2> HIDE DEF n
  <2> QED
    BY <1>1
<1> HIDE DEF n, h
<1>3. x \in Nat /\ h <= x /\ x - h = n /\ o <= x
  BY <1>1, <1>2
<1>4. x <= Len(b) /\ h <= Len(b)
  BY DEF n, h
<1> HIDE DEF x
<1>5. SubSeq(b, h + 1, x) \in Seq(Octet) /\ Len(SubSeq(b, h + 1, x)) = x - h
      /\ \A k \in 1..(x - h) : SubSeq(b, h + 1, x)[k] = b[h + k]
  BY <1>2, <1>3, <1>4, Part
<1>6. s = SubSeq(b, h + 1, x)
  BY <1>2
<1> HIDE DEF s
<1>7. s \in Seq(Octet) /\ s \in Seq(Nat) /\ Len(s) = n
  BY <1>3, <1>5, <1>6, OctetSeq
<1>8. SubSeq(b, o + 1, h) \o SubSeq(b, h + 1, x) = SubSeq(b, o + 1, x)
  BY <1>2, <1>3, <1>4, Meet, ZenonT(60)
<1>9. PutBytes(s) = SubSeq(b, o + 1, x)
  BY <1>1, <1>6, <1>7, <1>8, Zenon DEF PutBytes
<1>10. h <= x
  BY <1>3
<1>11. /\ x \in Nat /\ o <= x /\ h <= x /\ x <= Len(b)
       /\ s \in Seq(Octet) /\ s \in Seq(Nat) /\ Len(s) = n
       /\ PutBytes(s) = SubSeq(b, o + 1, x)
  BY <1>3, <1>4, <1>7, <1>9
<1> QED
  BY <1>11, Zenon DEF n, h, x, s

\* One slice in front of others that lie behind it.
LEMMA LiesMore ==
    ASSUME NEW b \in Seq(Octet), NEW n \in Nat, NEW o \in Nat,
           o + 4 <= Len(b), o + 4 + U32LE(b, o) <= Len(b),
           NEW r, Lies(b, n, o + 4 + U32LE(b, o), r),
           NEW s, s = [slices |-> <<SubSeq(b, o + 5, o + 4 + U32LE(b, o))>> \o r.slices, end |-> r.end]
    PROVE  Lies(b, n + 1, o, s)
<1> DEFINE x == o + 4 + U32LE(b, o)
           t == SubSeq(b, o + 5, x)
           us == r.slices
           z == r.end
           ts == <<t>> \o us
<1>1. /\ x \in Nat /\ o <= x /\ o + 4 <= x /\ x <= Len(b)
      /\ t \in Seq(Octet) /\ t \in Seq(Nat) /\ Len(t) = U32LE(b, o)
      /\ PutBytes(t) = SubSeq(b, o + 1, x)
  BY SliceBack, Zenon
<1>2. /\ us \in Seq(Seq(Nat)) /\ Len(us) = n /\ z \in Nat /\ x <= z /\ z <= Len(b)
      /\ PutAll(us) = SubSeq(b, x + 1, z)
  BY Zenon DEF Lies
<1>3. s.slices = ts /\ s.end = z
  <2> HIDE DEF t, x, us, z, ts
  <2>1. s = [slices |-> ts, end |-> z]
    BY Zenon DEF t, x, us, z, ts
  <2>2. \A a, c : [slices |-> a, end |-> c].slices = a /\ [slices |-> a, end |-> c].end = c
    OBVIOUS
  <2> QED
    BY <2>1, <2>2, Zenon
<1>4. s = [slices |-> s.slices, end |-> s.end]
  BY <1>3, Zenon
<1> HIDE DEF t, x, us, z
<1>5. /\ <<t>> \o us \in Seq(Seq(Nat)) /\ Len(<<t>> \o us) = Len(us) + 1
      /\ PutAll(<<t>> \o us) = PutBytes(t) \o PutAll(us)
      /\ PutAll(us) \in Seq(Nat)
  BY <1>1, <1>2, PutAllCons
<1>6. SubSeq(b, o + 1, x) \o SubSeq(b, x + 1, z) = SubSeq(b, o + 1, z)
  <2>1. x \in Nat /\ z \in Nat /\ o <= x /\ x <= z /\ z <= Len(b)
    BY <1>1, <1>2, Zenon
  <2> QED
    BY <2>1, Meet, ZenonT(60)
<1>7. o <= z
  BY <1>1, <1>2
<1> QED
  BY <1>1, <1>2, <1>3, <1>4, <1>5, <1>6, <1>7, Zenon DEF Lies

\* No octet before the end of the slices is lost or made up.
LEMMA SlicesBack ==
    ASSUME NEW b \in Seq(Octet), NEW n \in Nat, NEW o \in 0..Len(b), NEW s \in Slices(b, n, o)
    PROVE  Lies(b, n, o, s)
<1> DEFINE Good(m) == \A p \in 0..Len(b) : \A q \in Slices(b, m, p) : Lies(b, m, p, q)
           T == {m \in Nat : Good(m)}
<1>1. 0 \in T
  <2>1. ASSUME NEW p \in 0..Len(b), NEW q \in Slices(b, 0, p) PROVE Lies(b, 0, p, q)
    <3>1. q = [slices |-> <<>>, end |-> p]
      BY SlicesZero
    <3>2. q.slices = <<>> /\ q.end = p
      BY <3>1
    <3>3. p \in Nat /\ p <= Len(b) /\ p <= p
      OBVIOUS
    <3>4. SubSeq(b, p + 1, p) = <<>>
      BY <3>3
    <3>5. <<>> \in Seq(Seq(Nat)) /\ Len(<<>>) = 0
      OBVIOUS
    <3> QED
      BY <3>1, <3>2, <3>3, <3>4, <3>5, PutAllEmpty, Zenon DEF Lies
  <2> QED
    BY <2>1
<1>2. ASSUME NEW m \in T PROVE m + 1 \in T
  <2>0. m \in Nat /\ m + 1 \in Nat /\ Good(m)
    OBVIOUS
  <2>1. ASSUME NEW p \in 0..Len(b), NEW q \in Slices(b, m + 1, p) PROVE Lies(b, m + 1, p, q)
    <3> DEFINE y == p + 4 + U32LE(b, p)
    <3>1. Slices(b, m + 1, p) =
              IF p + 4 > Len(b) \/ y > Len(b) THEN {}
              ELSE {[slices |-> <<SubSeq(b, p + 5, y)>> \o r.slices, end |-> r.end]
                       : r \in Slices(b, m, y)}
      BY <2>0, SlicesMore, Zenon
    <3>2. ~(p + 4 > Len(b)) /\ ~(y > Len(b))
      BY <3>1, Zenon
    <3>3. PICK r \in Slices(b, m, y) :
             q = [slices |-> <<SubSeq(b, p + 5, y)>> \o r.slices, end |-> r.end]
      BY <3>1, <3>2, Zenon
    <3>4. p \in Nat /\ p + 4 <= Len(b) /\ Len(b) \in Nat
      BY <3>2
    <3>5. U32LE(b, p) \in Nat
      BY <3>4, LEBack
    <3>6. y \in 0..Len(b) /\ y <= Len(b)
      <4> DEFINE k == U32LE(b, p)
      <4> HIDE DEF k
      <4>1. k \in Nat /\ ~(p + 4 + k > Len(b))
        BY <3>2, <3>5 DEF k
      <4>2. p + 4 + k \in 0..Len(b) /\ p + 4 + k <= Len(b)
        BY <3>4, <4>1
      <4> QED
        BY <4>2 DEF k
    <3> HIDE DEF y
    <3>7. Lies(b, m, y, r)
      BY <2>0, <3>3, <3>6
    <3> QED
      BY <2>0, <3>3, <3>4, <3>6, <3>7, LiesMore, Zenon DEF y
  <2> HIDE DEF Good
  <2>2. Good(m + 1)
    BY <2>1 DEF Good
  <2> QED
    BY <2>0, <2>2
<1>3. T = Nat
  <2> HIDE DEF T
  <2>1. T \in SUBSET Nat
    BY DEF T
  <2> QED
    BY <1>1, <1>2, <2>1, Induction
<1>4. Good(n)
  BY <1>3
<1> QED
  BY <1>4

\* The slices r with the slice h in front of them, for each r in a set.
Put(h, r) == [slices |-> <<h>> \o r.slices, end |-> r.end]
AllPut(h, X) == {Put(h, r) : r \in X}

\* The slices are one slice in front of the rest.
LEMMA SlicesPut ==
    ASSUME NEW b \in Seq(Octet), NEW n \in Nat, NEW o \in 0..Len(b)
    PROVE  Slices(b, n + 1, o) =
              IF o + 4 > Len(b) \/ o + 4 + U32LE(b, o) > Len(b) THEN {}
              ELSE AllPut(SubSeq(b, o + 5, o + 4 + U32LE(b, o)), Slices(b, n, o + 4 + U32LE(b, o)))
  BY SlicesMore, Zenon DEF Put, AllPut

\* One in front of one.
LEMMA PutOne ==
    ASSUME NEW h, NEW r, NEW X
    PROVE  AllPut(h, {r}) = {Put(h, r)} /\ (\A q \in AllPut(h, X) : \E x \in X : q = Put(h, x))
           /\ Put(h, r).end = r.end
<1>1. \A a, c : [slices |-> a, end |-> c].end = c
  OBVIOUS
<1>2. Put(h, r).end = r.end
  BY <1>1, Zenon DEF Put
<1>3. AllPut(h, {r}) = {Put(h, r)} /\ (\A q \in AllPut(h, X) : \E x \in X : q = Put(h, x))
  BY DEF AllPut
<1> QED
  BY <1>2, <1>3

\* Two strings have the same octets from offset i to offset j.
Same(b, e, i, j) == \A k \in (i + 1)..j : e[k] = b[k]

\* They have it between these offsets.
LEMMA SameWithin ==
    ASSUME NEW b, NEW e, NEW i \in Nat, NEW j \in Nat, Same(b, e, i, j),
           NEW p \in Nat, NEW q \in Nat, i <= p, q <= j
    PROVE  Same(b, e, p, q)
<1>1. \A k \in (p + 1)..q : k \in (i + 1)..j
  OBVIOUS
<1> QED
  BY <1>1 DEF Same

\* The same octets are the same number.
LEMMA SameNumber ==
    ASSUME NEW b \in Seq(Octet), NEW e \in Seq(Octet), Len(e) = Len(b),
           NEW o \in Nat, o + 4 <= Len(b), Same(b, e, o, o + 4)
    PROVE  U32LE(e, o) = U32LE(b, o)
<1>1. o + 4 \in Nat /\ o <= o + 4
  OBVIOUS
<1>2. SubSeq(e, o + 1, o + 4) = SubSeq(b, o + 1, o + 4)
  BY <1>1, SameSpan DEF Same
<1> QED
  BY <1>2, Zenon DEF U32LE

\* The same octets are the same slices, and there is one way to read them.
LEMMA SlicesSame ==
    ASSUME NEW b \in Seq(Octet), NEW e \in Seq(Octet), Len(e) = Len(b),
           NEW n \in Nat, NEW o \in 0..Len(b), NEW s \in Slices(b, n, o), Same(b, e, o, s.end)
    PROVE  Slices(b, n, o) = {s} /\ Slices(e, n, o) = {s}
<1> DEFINE Good(m) == \A p \in 0..Len(b) : \A q \in Slices(b, m, p) :
                         Same(b, e, p, q.end) => Slices(b, m, p) = {q} /\ Slices(e, m, p) = {q}
           T == {m \in Nat : Good(m)}
<1>1. 0 \in T
  <2>1. ASSUME NEW p \in 0..Len(b), NEW q \in Slices(b, 0, p)
        PROVE  Slices(b, 0, p) = {q} /\ Slices(e, 0, p) = {q}
    <3>1. Slices(b, 0, p) = {[slices |-> <<>>, end |-> p]}
      BY SlicesZero
    <3>2. p \in 0..Len(e)
      OBVIOUS
    <3>3. Slices(e, 0, p) = {[slices |-> <<>>, end |-> p]}
      BY <3>2, SlicesZero
    <3> QED
      BY <3>1, <3>3
  <2> QED
    BY <2>1
<1>2. ASSUME NEW m \in T PROVE m + 1 \in T
  <2>0. m \in Nat /\ m + 1 \in Nat /\ Good(m)
    OBVIOUS
  <2>1. ASSUME NEW p \in 0..Len(b), NEW q \in Slices(b, m + 1, p), Same(b, e, p, q.end)
        PROVE  Slices(b, m + 1, p) = {q} /\ Slices(e, m + 1, p) = {q}
    <3> DEFINE k == U32LE(b, p)
               y == p + 4 + k
               h == SubSeq(b, p + 5, y)
    <3>1. Slices(b, m + 1, p) =
              IF p + 4 > Len(b) \/ y > Len(b) THEN {} ELSE AllPut(h, Slices(b, m, y))
      <4>1. m \in Nat
        BY <2>0
      <4> HIDE DEF Good
      <4> QED
        BY <4>1, SlicesPut
    <3>2. ~(p + 4 > Len(b)) /\ ~(y > Len(b))
      BY <3>1, Zenon
    <3>20. q \in AllPut(h, Slices(b, m, y))
      BY <3>1, <3>2, Zenon
    <3>3. PICK r \in Slices(b, m, y) : q = Put(h, r)
      <4> DEFINE X == Slices(b, m, y)
      <4> HIDE DEF X, h
      <4>1. \A x \in AllPut(h, X) : \E z \in X : x = Put(h, z)
        BY PutOne, Zenon
      <4>2. \E z \in X : q = Put(h, z)
        BY <3>20, <4>1 DEF X
      <4> QED
        BY <4>2 DEF X
    <3>4. p \in Nat /\ p + 4 <= Len(b) /\ Len(b) \in Nat /\ p \in 0..Len(e) /\ p + 4 \in Nat
      BY <3>2
    <3>5. k \in Nat
      BY <3>4, LEBack
    <3>6. y \in 0..Len(b) /\ y <= Len(b) /\ y \in Nat /\ p + 4 <= y /\ p <= y
      <4> HIDE DEF k
      <4> QED
        BY <3>2, <3>4, <3>5
    <3>7. q.end = r.end
      BY <3>3, PutOne, Zenon
    <3>8. Lies(b, m, y, r)
      <4> HIDE DEF y
      <4> QED
        BY <2>0, <3>3, <3>6, SlicesBack
    <3>9. r.end \in Nat /\ y <= r.end /\ r.end <= Len(b)
      BY <3>8, Zenon DEF Lies
    <3>10. Same(b, e, p, p + 4) /\ Same(b, e, p, y) /\ Same(b, e, y, r.end)
      <4> DEFINE z == r.end
      <4>1. Same(b, e, p, z)
        BY <2>1, <3>7
      <4> HIDE DEF y, z
      <4>2. z \in Nat /\ p + 4 <= z /\ y <= z /\ z <= z
        BY <3>4, <3>6, <3>9 DEF z
      <4>3. p <= p
        BY <3>4
      <4>4. Same(b, e, p, p + 4)
        BY <3>4, <4>1, <4>2, <4>3, SameWithin
      <4>5. Same(b, e, p, y)
        BY <3>4, <3>6, <4>1, <4>2, <4>3, SameWithin
      <4>6. Same(b, e, y, z)
        BY <3>4, <3>6, <4>1, <4>2, <4>3, SameWithin
      <4> QED
        BY <4>4, <4>5, <4>6 DEF z
    <3>11. U32LE(e, p) = k
      BY <3>4, <3>10, SameNumber
    <3>12. SubSeq(e, p + 5, y) = h
      <4> DEFINE i == p + 4
      <4>1. i \in Nat /\ i + 1 = p + 5 /\ i <= y /\ y <= Len(b) /\ y <= Len(e) /\ p <= i /\ y <= y
        BY <3>4, <3>6
      <4> HIDE DEF i, y
      <4>2. Same(b, e, i, y)
        BY <3>4, <3>6, <3>10, <4>1, SameWithin
      <4>3. SubSeq(e, i + 1, y) = SubSeq(b, i + 1, y)
        BY <3>6, <4>1, <4>2, SameSpan DEF Same
      <4> QED
        BY <4>1, <4>3
    <3>13. Slices(b, m, y) = {r} /\ Slices(e, m, y) = {r}
      <4> HIDE DEF y
      <4> QED
        BY <2>0, <3>3, <3>6, <3>10
    <3>14. Slices(e, m + 1, p) =
              IF p + 4 > Len(e) \/ p + 4 + U32LE(e, p) > Len(e) THEN {}
              ELSE AllPut(SubSeq(e, p + 5, p + 4 + U32LE(e, p)), Slices(e, m, p + 4 + U32LE(e, p)))
      <4>1. m \in Nat /\ p \in 0..Len(e)
        BY <2>0, <3>4
      <4> HIDE DEF Good, h, y, k
      <4> QED
        BY <4>1, SlicesPut
    <3> HIDE DEF h
    <3>15. Slices(e, m + 1, p) =
              IF p + 4 > Len(e) \/ y > Len(e) THEN {} ELSE AllPut(h, Slices(e, m, y))
      BY <3>11, <3>12, <3>14, Zenon
    <3> HIDE DEF y
    <3>16. ~(p + 4 > Len(e)) /\ ~(y > Len(e))
      BY <3>2
    <3>17. AllPut(h, {r}) = {q}
      BY <3>3, PutOne, Zenon
    <3> QED
      BY <3>1, <3>2, <3>13, <3>15, <3>16, <3>17, Zenon
  <2> HIDE DEF Good
  <2>2. Good(m + 1)
    BY <2>1 DEF Good
  <2> QED
    BY <2>0, <2>2
<1>3. T = Nat
  <2> HIDE DEF T
  <2>1. T \in SUBSET Nat
    BY DEF T
  <2> QED
    BY <1>1, <1>2, <2>1, Induction
<1>4. Good(n)
  BY <1>3
<1> QED
  BY <1>4

\* One string, and two.
LEMMA PutAllOne ==
    ASSUME NEW ss \in Seq(Seq(Nat)), Len(ss) = 1
    PROVE  ss[1] \in Seq(Nat) /\ PutAll(ss) = PutBytes(ss[1])
<1> DEFINE x == ss[1]
           Q == Seq(Nat)
<1>1. x \in Q
  <2> HIDE DEF Q
  <2>1. ss \in Seq(Q) /\ 1 \in 1..Len(ss)
    BY DEF Q
  <2> QED
    BY <2>1
<1>2. ss = <<x>> \o <<>>
  <2> HIDE DEF Q
  <2>1. <<x>> \o <<>> = <<x>>
    BY ConcatEmptySeq, <1>1
  <2>2. ss \in Seq(Q) /\ <<x>> \in Seq(Q) /\ Len(<<x>>) = 1 /\ <<x>>[1] = x
    BY <1>1 DEF Q
  <2>3. \A i \in 1..1 : ss[i] = <<x>>[i]
    BY <2>2
  <2>4. ss = <<x>>
    BY <2>2, <2>3, SeqEqual
  <2> QED
    BY <2>1, <2>4
<1> HIDE DEF x
<1>3. <<>> \in Seq(Seq(Nat))
  OBVIOUS
<1>4. /\ <<x>> \o <<>> \in Seq(Seq(Nat)) /\ Len(<<x>> \o <<>>) = Len(<<>>) + 1
      /\ PutAll(<<x>> \o <<>>) = PutBytes(x) \o PutAll(<<>>)
      /\ PutAll(<<>>) \in Seq(Nat)
  BY <1>1, <1>3, PutAllCons
<1>5. PutBytes(x) \in Seq(Nat)
  BY <1>1, PutBytesType
<1> DEFINE p == PutBytes(x)
<1>6. p \o <<>> = p
  <2> HIDE DEF p
  <2>1. p \in Seq(Nat)
    BY <1>5 DEF p
  <2> QED
    BY <2>1, ConcatEmptySeq
<1>7. PutAll(ss) = p
  BY <1>2, <1>4, <1>6, PutAllEmpty, Zenon
<1> QED
  BY <1>1, <1>7 DEF x

\* Two strings.
LEMMA PutAllTwo ==
    ASSUME NEW ss \in Seq(Seq(Nat)), Len(ss) = 2
    PROVE  /\ ss[1] \in Seq(Nat) /\ ss[2] \in Seq(Nat)
           /\ PutAll(ss) = PutBytes(ss[1]) \o PutBytes(ss[2])
<1> DEFINE x == ss[1]
           y == ss[2]
           t == <<y>>
           Q == Seq(Nat)
<1>1. x \in Q /\ y \in Q
  <2> HIDE DEF Q
  <2>1. ss \in Seq(Q) /\ 1 \in 1..Len(ss) /\ 2 \in 1..Len(ss)
    BY DEF Q
  <2> QED
    BY <2>1
<1>2. t \in Seq(Q) /\ Len(t) = 1 /\ t[1] = y
  <2> HIDE DEF x, y, Q
  <2> QED
    BY <1>1
<1>3. ss = <<x>> \o t
  <2> HIDE DEF Q, x, y, t
  <2>0. <<x>> \in Seq(Q) /\ Len(<<x>>) = 1 /\ <<x>>[1] = x
    BY <1>1
  <2>1. /\ <<x>> \o t \in Seq(Q) /\ Len(<<x>> \o t) = Len(<<x>>) + Len(t)
        /\ \A i \in 1..(Len(<<x>>) + Len(t)) :
              (<<x>> \o t)[i] = IF i <= Len(<<x>>) THEN <<x>>[i] ELSE t[i - Len(<<x>>)]
    BY <1>2, <2>0, ConcatProperties
  <2>2. ss \in Seq(Q) /\ ss[1] = x /\ ss[2] = y
    BY DEF Q, x, y
  <2>3. Len(<<x>> \o t) = 2 /\ (<<x>> \o t)[1] = x /\ (<<x>> \o t)[2] = y
    BY <1>2, <2>0, <2>1
  <2>4. \A i \in 1..2 : i = 1 \/ i = 2
    OBVIOUS
  <2>5. \A i \in 1..2 : ss[i] = (<<x>> \o t)[i]
    BY <2>2, <2>3, <2>4
  <2> QED
    BY <2>1, <2>2, <2>3, <2>5, SeqEqual
<1> HIDE DEF x, y, t
<1>4. /\ <<x>> \o t \in Seq(Seq(Nat)) /\ Len(<<x>> \o t) = Len(t) + 1
      /\ PutAll(<<x>> \o t) = PutBytes(x) \o PutAll(t)
      /\ PutAll(t) \in Seq(Nat)
  BY <1>1, <1>2, PutAllCons
<1>5. t[1] \in Seq(Nat) /\ PutAll(t) = PutBytes(t[1])
  BY <1>2, PutAllOne
<1>6. PutAll(ss) = PutBytes(x) \o PutBytes(y)
  BY <1>2, <1>3, <1>4, <1>5
<1> QED
  BY <1>1, <1>6 DEF x, y

\* The octets of b as they are written again, the last root ending at j.
Rewritten(b, j) == [k \in 1..Len(b) |->
    IF k = 6 THEN IF b[6] % 2 = 1 THEN 1 ELSE 0
    ELSE IF k = j + 1 /\ b[k] # 0 THEN 1 ELSE b[k]]

\* Only the flags and the tag are written anew.
LEMMA RewrittenIs ==
    ASSUME NEW b \in Seq(Octet), NEW j \in Nat, 14 <= j, j + 1 <= Len(b)
    PROVE  LET e == Rewritten(b, j) IN
           /\ e \in Seq(Octet) /\ Len(e) = Len(b)
           /\ Same(b, e, 0, 5) /\ Same(b, e, 6, j) /\ Same(b, e, j + 1, Len(b))
           /\ e[6] = (IF b[6] % 2 = 1 THEN 1 ELSE 0)
           /\ e[j + 1] = (IF b[j + 1] = 0 THEN 0 ELSE 1)
<1> DEFINE n == Len(b)
           f == IF b[6] % 2 = 1 THEN 1 ELSE 0
           e == Rewritten(b, j)
<1>1. n \in Nat /\ j + 1 <= n /\ \A k \in 1..n : b[k] \in Octet
  OBVIOUS
<1>2. f \in Octet /\ 1 \in Octet
  BY BaseFacts DEF Octet
<1>3. e = [k \in 1..n |-> IF k = 6 THEN f ELSE IF k = j + 1 /\ b[k] # 0 THEN 1 ELSE b[k]]
  BY Zenon DEF Rewritten
<1> HIDE DEF e, f, n
<1>4. e \in Seq(Octet) /\ Len(e) = n
  BY <1>1, <1>2, <1>3
<1>5. \A k \in 1..n : k # 6 /\ k # j + 1 => e[k] = b[k]
  BY <1>3
<1>6. e[6] = f
  <2>1. 6 \in 1..n
    BY <1>1
  <2> QED
    BY <1>3, <2>1
<1>7. e[j + 1] = IF b[j + 1] = 0 THEN 0 ELSE 1
  <2>1. j + 1 \in 1..n /\ j + 1 # 6
    BY <1>1
  <2> QED
    BY <1>3, <2>1
<1>8. \A k \in (0 + 1)..5 : k \in 1..n /\ k # 6 /\ k # j + 1
  BY <1>1
<1>9. \A k \in (6 + 1)..j : k \in 1..n /\ k # 6 /\ k # j + 1
  BY <1>1
<1>10. \A k \in ((j + 1) + 1)..n : k \in 1..n /\ k # 6 /\ k # j + 1
  BY <1>1
<1>11. Same(b, e, 0, 5) /\ Same(b, e, 6, j) /\ Same(b, e, j + 1, n)
  BY <1>5, <1>8, <1>9, <1>10 DEF Same
<1>12. /\ e \in Seq(Octet) /\ Len(e) = n
       /\ Same(b, e, 0, 5) /\ Same(b, e, 6, j) /\ Same(b, e, j + 1, n)
       /\ e[6] = f
       /\ e[j + 1] = (IF b[j + 1] = 0 THEN 0 ELSE 1)
  BY <1>4, <1>6, <1>7, <1>11
<1> QED
  BY <1>12, Zenon DEF e, n, f

\* The profile of a header, names, roots and a MAT.
Profile(b, n, r, m) ==
    [machine |-> b[6] % 2 = 1, vendor |-> U32LE(b, 6), fragment |-> U32LE(b, 10),
     serverName |-> n.slices[1], subject |-> n.slices[2], roots |-> r.slices, mat |-> m.mat]

HasProfileHeader(b) == Len(b) >= FixedLen /\ SubSeq(b, 1, 5) = Append(Magic, Version)

\* How a profile is read.
LEMMA ProfileRead ==
    ASSUME NEW b, NEW c
    PROVE  c \in FromBytes(b) <=>
             /\ HasProfileHeader(b)
             /\ \E n \in Names(b) : \E r \in Roots(b, n.end) : \E m \in Mats(b, r.end) :
                   Ends(b, m.end) /\ c = Profile(b, n, r, m)
<1> DEFINE X == UNION {UNION {{Profile(b, n, r, m) : m \in {m \in Mats(b, r.end) : Ends(b, m.end)}}
                                 : r \in Roots(b, n.end)}
                          : n \in Names(b)}
<1>1. FromBytes(b) = IF ~HasProfileHeader(b) THEN {} ELSE X
  BY Zenon DEF FromBytes, HasProfileHeader, Profile
<1>2. c \in X <=> \E n \in Names(b) : \E r \in Roots(b, n.end) : \E m \in Mats(b, r.end) :
                     Ends(b, m.end) /\ c = Profile(b, n, r, m)
  <2> DEFINE M(r) == {m \in Mats(b, r.end) : Ends(b, m.end)}
             P(n, r) == {Profile(b, n, r, m) : m \in M(r)}
             R(n) == UNION {P(n, r) : r \in Roots(b, n.end)}
  <2>1. X = UNION {R(n) : n \in Names(b)}
    BY Zenon
  <2>2. \A n, r : c \in P(n, r) <=> \E m \in Mats(b, r.end) : Ends(b, m.end) /\ c = Profile(b, n, r, m)
    OBVIOUS
  <2> HIDE DEF P
  <2>3. \A n : c \in R(n) <=> \E r \in Roots(b, n.end) : c \in P(n, r)
    OBVIOUS
  <2> HIDE DEF R, X
  <2>4. c \in X <=> \E n \in Names(b) : c \in R(n)
    BY <2>1
  <2> QED
    BY <2>2, <2>3, <2>4, Zenon
<1> HIDE DEF X
<1> QED
  BY <1>1, <1>2, Zenon

\* Where the names, the roots and the MAT of a profile are.
LEMMA NamesLie ==
    ASSUME NEW b \in Seq(Octet), 14 <= Len(b), NEW n \in Names(b)
    PROVE  /\ n \in Slices(b, 2, 14) /\ Utf8(n.slices[1]) /\ Utf8(n.slices[2])
           /\ Lies(b, 2, 14, n)
<1>1. n \in Slices(b, 2, 14) /\ Utf8(n.slices[1]) /\ Utf8(n.slices[2])
  BY Zenon DEF Names, FixedLen
<1>2. 2 \in Nat /\ 14 \in 0..Len(b)
  OBVIOUS
<1> QED
  BY <1>1, <1>2, SlicesBack

\* The roots.
LEMMA RootsLie ==
    ASSUME NEW b \in Seq(Octet), NEW o \in Nat, NEW r \in Roots(b, o)
    PROVE  /\ o + 4 <= Len(b) /\ U32LE(b, o) \in Nat
           /\ r \in Slices(b, U32LE(b, o), o + 4)
           /\ Lies(b, U32LE(b, o), o + 4, r)
<1>1. ~(o + 4 > Len(b)) /\ r \in Slices(b, U32LE(b, o), o + 4)
  BY Zenon DEF Roots
<1>2. o + 4 <= Len(b) /\ o + 4 \in 0..Len(b)
  BY <1>1
<1>3. U32LE(b, o) \in Nat
  BY <1>2, LEBack
<1> QED
  BY <1>1, <1>2, <1>3, SlicesBack

\* The MAT, of which there may be none.
LEMMA MatsLie ==
    ASSUME NEW b \in Seq(Octet), NEW o \in Nat, NEW m \in Mats(b, o)
    PROVE  /\ o + 1 <= Len(b) /\ o + 1 \in 0..Len(b)
           /\ \/ b[o + 1] = 0 /\ m.mat = {} /\ m.end = o + 1
                 /\ Mats(b, o) = {[mat |-> {}, end |-> o + 1]}
              \/ b[o + 1] # 0
                 /\ \E s \in Slices(b, 1, o + 1) :
                       m = [mat |-> {s.slices[1]}, end |-> s.end] /\ m.mat = {s.slices[1]}
                       /\ m.end = s.end /\ Lies(b, 1, o + 1, s)
<1> DEFINE p == o + 1
           Read(s) == [mat |-> {s.slices[1]}, end |-> s.end]
<1>0. \A a, z : [mat |-> a, end |-> z].mat = a /\ [mat |-> a, end |-> z].end = z
  OBVIOUS
<1>1. ~(o >= Len(b))
  BY Zenon DEF Mats
<1>2. p <= Len(b) /\ p \in 0..Len(b)
  BY <1>1
<1> HIDE DEF p
<1>3. CASE b[p] = 0
  <2>1. Mats(b, o) = {[mat |-> {}, end |-> p]}
    BY <1>1, <1>3, Zenon DEF Mats, p
  <2>2. m = [mat |-> {}, end |-> p]
    BY <2>1
  <2>3. m.mat = {} /\ m.end = p
    BY <1>0, <2>2, Zenon
  <2> QED
    BY <1>2, <1>3, <2>1, <2>3 DEF p
<1>4. CASE b[p] # 0
  <2>1. Mats(b, o) = {[mat |-> {s.slices[1]}, end |-> s.end] : s \in Slices(b, 1, p)}
    BY <1>1, <1>4, Zenon DEF Mats, p
  <2>2. PICK s \in Slices(b, 1, p) : m = Read(s)
    BY <2>1, Zenon
  <2>3. m.mat = {s.slices[1]} /\ m.end = s.end
    BY <1>0, <2>2, Zenon
  <2>4. 1 \in Nat
    OBVIOUS
  <2>5. Lies(b, 1, p, s)
    BY <1>2, <2>4, SlicesBack
  <2>6. \E t \in Slices(b, 1, p) :
           m = [mat |-> {t.slices[1]}, end |-> t.end] /\ m.mat = {t.slices[1]}
           /\ m.end = t.end /\ Lies(b, 1, p, t)
    BY <2>2, <2>3, <2>5, Zenon
  <2> QED
    BY <1>2, <1>4, <2>6 DEF p
<1> QED
  BY <1>3, <1>4 DEF p

\* The header as it is written.
LEMMA HeaderBack ==
    ASSUME NEW b \in Seq(Octet), HasProfileHeader(b), b[6] \in {0, 1}, NEW machine,
           machine <=> b[6] % 2 = 1
    PROVE  14 <= Len(b) /\ Magic \o <<Version, IF machine THEN 1 ELSE 0>> = SubSeq(b, 1, 6)
<1> DEFINE f == IF machine THEN 1 ELSE 0
           t == <<Version, f>>
           y == SubSeq(b, 1, 6)
           z == SubSeq(b, 1, 5)
<1>1. 14 <= Len(b) /\ z = Append(Magic, Version)
  BY DEF HasProfileHeader, FixedLen
<1>2. f = b[6]
  <2>1. CASE b[6] = 0
    BY <2>1
  <2>2. CASE b[6] = 1
    BY <2>2
  <2> QED
    BY <2>1, <2>2
<1> HIDE DEF f
<1>3. Magic \in Seq(Octet) /\ Len(Magic) = 4 /\ Version = 1
  BY FramingAssumption DEF Version
<1>4. b[6] \in Octet /\ 1 \in Octet /\ b \in Seq(Octet)
  <2>1. 6 \in 1..Len(b)
    BY <1>1
  <2> QED
    BY <2>1, BaseFacts DEF Octet
<1>5. t \in Seq(Octet) /\ Len(t) = 2 /\ t[1] = Version /\ t[2] = b[6]
  BY <1>2, <1>3, <1>4
<1> HIDE DEF t
<1>6. /\ Magic \o t \in Seq(Octet) /\ Len(Magic \o t) = Len(Magic) + Len(t)
      /\ \A i \in 1..(Len(Magic) + Len(t)) :
            (Magic \o t)[i] = IF i <= Len(Magic) THEN Magic[i] ELSE t[i - Len(Magic)]
  BY <1>3, <1>5, ConcatProperties
<1>7. y \in Seq(Octet) /\ Len(y) = 6 /\ \A k \in 1..6 : y[k] = b[k]
  <2>1. 0 \in Nat /\ 6 \in Nat /\ 0 <= 6 /\ 6 <= Len(b) /\ 0 + 1 = 1 /\ 6 - 0 = 6
    BY <1>1
  <2>2. /\ SubSeq(b, 0 + 1, 6) \in Seq(Octet) /\ Len(SubSeq(b, 0 + 1, 6)) = 6 - 0
        /\ \A k \in 1..(6 - 0) : SubSeq(b, 0 + 1, 6)[k] = b[0 + k]
    BY <2>1, Part
  <2> QED
    BY <2>1, <2>2
<1>8. z \in Seq(Octet) /\ Len(z) = 5 /\ \A k \in 1..5 : z[k] = b[k]
  <2>1. 0 \in Nat /\ 5 \in Nat /\ 0 <= 5 /\ 5 <= Len(b) /\ 0 + 1 = 1 /\ 5 - 0 = 5
    BY <1>1
  <2>2. /\ SubSeq(b, 0 + 1, 5) \in Seq(Octet) /\ Len(SubSeq(b, 0 + 1, 5)) = 5 - 0
        /\ \A k \in 1..(5 - 0) : SubSeq(b, 0 + 1, 5)[k] = b[0 + k]
    BY <2>1, Part
  <2> QED
    BY <2>1, <2>2
<1> HIDE DEF y, z
<1>9. (\A k \in 1..4 : z[k] = Magic[k]) /\ z[5] = Version
  <2>0. Magic \in Seq(Octet) /\ Version \in Octet
    BY <1>3, <1>4
  <2>1. /\ Append(Magic, Version) \in Seq(Octet)
        /\ Append(Magic, Version) # <<>>
        /\ Len(Append(Magic, Version)) = Len(Magic) + 1
        /\ \A k \in 1..Len(Magic) : Append(Magic, Version)[k] = Magic[k]
        /\ Append(Magic, Version)[Len(Magic) + 1] = Version
    BY <2>0, AppendProperties
  <2>2. Len(Magic) + 1 = 5
    BY <1>3
  <2> QED
    BY <1>1, <1>3, <2>1, <2>2
<1>10. \A k \in 1..6 : (Magic \o t)[k] = y[k]
  <2>1. \A k \in 1..4 : (Magic \o t)[k] = y[k]
    <3>1. \A k \in 1..4 : k \in 1..(Len(Magic) + Len(t)) /\ k <= Len(Magic) /\ k \in 1..5 /\ k \in 1..6
      BY <1>3, <1>5
    <3> QED
      <4>1. ASSUME NEW k \in 1..4 PROVE (Magic \o t)[k] = y[k]
        <5>1. (Magic \o t)[k] = Magic[k]
          BY <1>6, <3>1
        <5>2. y[k] = b[k] /\ z[k] = b[k] /\ z[k] = Magic[k]
          BY <1>7, <1>8, <1>9, <3>1, Zenon
        <5> QED
          BY <5>1, <5>2, Zenon
      <4> QED
        BY <4>1, Zenon
  <2>2. (Magic \o t)[5] = y[5]
    <3>1. 5 \in 1..(Len(Magic) + Len(t)) /\ ~(5 <= Len(Magic)) /\ 5 - Len(Magic) = 1
          /\ 5 \in 1..5 /\ 5 \in 1..6
      BY <1>3, <1>5
    <3> QED
      BY <1>5, <1>6, <1>7, <1>8, <1>9, <3>1
  <2>3. (Magic \o t)[6] = y[6]
    <3>1. 6 \in 1..(Len(Magic) + Len(t)) /\ ~(6 <= Len(Magic)) /\ 6 - Len(Magic) = 2 /\ 6 \in 1..6
      BY <1>3, <1>5
    <3> QED
      BY <1>5, <1>6, <1>7, <3>1
  <2>4. \A k \in 1..6 : k \in 1..4 \/ k = 5 \/ k = 6
    OBVIOUS
  <2> QED
    BY <2>1, <2>2, <2>3, <2>4
<1>11. Len(Magic \o t) = 6
  BY <1>3, <1>5, <1>6
<1>12. Magic \o t = y
  BY <1>6, <1>7, <1>10, <1>11, SeqEqual
<1>13. Magic \o <<Version, IF machine THEN 1 ELSE 0>> = y
  BY <1>12, Zenon DEF t, f
<1> QED
  BY <1>1, <1>13 DEF y

\* A beginning and what follows it.
LEMMA MeetFirst ==
    ASSUME NEW S, NEW s \in Seq(S), NEW j \in Nat, NEW k \in Nat, j <= k, k <= Len(s)
    PROVE  SubSeq(s, 1, j) \o SubSeq(s, j + 1, k) = SubSeq(s, 1, k)
<1>1. 0 \in Nat /\ 0 <= j /\ 0 + 1 = 1
  OBVIOUS
<1>2. SubSeq(s, 0 + 1, j) \o SubSeq(s, j + 1, k) = SubSeq(s, 0 + 1, k)
  BY <1>1, Meet
<1> QED
  BY <1>1, <1>2

\* The fields of a profile.
LEMMA ProfileFields ==
    ASSUME NEW b, NEW n, NEW r, NEW m, NEW c, c = Profile(b, n, r, m)
    PROVE  /\ c.machine = (b[6] % 2 = 1) /\ c.vendor = U32LE(b, 6) /\ c.fragment = U32LE(b, 10)
           /\ c.serverName = n.slices[1] /\ c.subject = n.slices[2]
           /\ c.roots = r.slices /\ c.mat = m.mat
<1>1. \A x1, x2, x3, x4, x5, x6, x7 :
         LET p == [machine |-> x1, vendor |-> x2, fragment |-> x3, serverName |-> x4,
                   subject |-> x5, roots |-> x6, mat |-> x7] IN
         /\ p.machine = x1 /\ p.vendor = x2 /\ p.fragment = x3
         /\ p.serverName = x4 /\ p.subject = x5 /\ p.roots = x6 /\ p.mat = x7
  OBVIOUS
<1> QED
  BY <1>1, Zenon DEF Profile

MatPart(mat) == IF mat = {} THEN <<0>> ELSE <<1>> \o PutBytes(CHOOSE m \in mat : TRUE)

\* The MAT is written as it was read, if its tag is 0 or 1.
LEMMA MatPartBack ==
    ASSUME NEW e \in Seq(Octet), NEW o \in Nat, NEW m \in Mats(e, o), m.end = Len(e),
           e[o + 1] \in {0, 1}
    PROVE  o <= Len(e) /\ MatPart(m.mat) = SubSeq(e, o + 1, Len(e))
<1> DEFINE p == o + 1
           z == Len(e)
<1>0. p \in Nat /\ z \in Nat /\ o <= p /\ p - o = 1
  OBVIOUS
<1>1. /\ p <= z
      /\ \/ e[p] = 0 /\ m.mat = {} /\ m.end = p
         \/ e[p] # 0
            /\ \E s \in Slices(e, 1, p) :
                  m.mat = {s.slices[1]} /\ m.end = s.end /\ Lies(e, 1, p, s)
  BY MatsLie, Zenon
<1>2. o <= z
  BY <1>0, <1>1
<1>3. SubSeq(e, o + 1, p) \in Seq(Octet) /\ Len(SubSeq(e, o + 1, p)) = p - o
      /\ \A k \in 1..(p - o) : SubSeq(e, o + 1, p)[k] = e[o + k]
  BY <1>0, <1>1, Part
<1> HIDE DEF p, z
<1>4. SubSeq(e, p, p) = <<e[p]>>
  <2> DEFINE x == SubSeq(e, p, p)
  <2>1. x \in Seq(Octet) /\ Len(x) = 1 /\ x[1] = e[p]
    BY <1>0, <1>3 DEF p
  <2> HIDE DEF x
  <2>2. x = <<e[p]>>
    BY <2>1
  <2> QED
    BY <2>2 DEF x
<1>5. CASE e[p] = 0
  <2>1. m.mat = {} /\ z = p
    BY <1>1, <1>5 DEF z
  <2>2. MatPart(m.mat) = <<0>>
    BY <2>1, Zenon DEF MatPart
  <2> QED
    BY <1>2, <1>4, <1>5, <2>1, <2>2 DEF p, z
<1>6. CASE e[p] # 0
  <2>1. PICK s \in Slices(e, 1, p) : m.mat = {s.slices[1]} /\ m.end = s.end /\ Lies(e, 1, p, s)
    BY <1>1, <1>6
  <2> DEFINE t == s.slices[1]
             us == s.slices
  <2>2. us \in Seq(Seq(Nat)) /\ Len(us) = 1 /\ PutAll(us) = SubSeq(e, p + 1, z)
    BY <2>1, Zenon DEF Lies, z
  <2>3. PutAll(us) = PutBytes(t)
    <3>1. us[1] \in Seq(Nat) /\ PutAll(us) = PutBytes(us[1])
      <4> HIDE DEF us
      <4> QED
        BY <2>2, PutAllOne
    <3> QED
      BY <3>1
  <2> HIDE DEF us
  <2>4. m.mat = {t}
    BY <2>1
  <2> HIDE DEF t
  <2>5. m.mat # {} /\ (CHOOSE y \in m.mat : TRUE) = t
    BY <2>4
  <2>6. MatPart(m.mat) = <<1>> \o PutBytes(t)
    BY <2>5, Zenon DEF MatPart
  <2>7. e[p] = 1
    BY <1>6 DEF p
  <2>8. SubSeq(e, o + 1, p) \o SubSeq(e, p + 1, z) = SubSeq(e, o + 1, z)
    BY <1>0, <1>1, Meet DEF z
  <2>9. SubSeq(e, o + 1, p) = <<1>>
    BY <1>4, <2>7 DEF p
  <2>10. MatPart(m.mat) = SubSeq(e, o + 1, z)
    BY <2>2, <2>3, <2>6, <2>8, <2>9, Zenon
  <2> QED
    BY <1>2, <2>10 DEF z
<1> QED
  BY <1>5, <1>6

\* A profile whose flags and tag are those ToBytes writes is written as it was read.
LEMMA ProfileCanonical ==
    ASSUME NEW e \in Seq(Octet), HasProfileHeader(e), e[6] \in {0, 1},
           NEW n \in Names(e), NEW r \in Roots(e, n.end), NEW m \in Mats(e, r.end),
           Ends(e, m.end), e[r.end + 1] \in {0, 1}
    PROVE  ToBytes(Profile(e, n, r, m)) = e
<1> DEFINE c == Profile(e, n, r, m)
           L == Len(e)
           i == n.end
           j == r.end
           a == n.slices[1]
           d == n.slices[2]
           P(k) == SubSeq(e, 1, k)
<1>1. /\ c.machine = (e[6] % 2 = 1) /\ c.vendor = U32LE(e, 6) /\ c.fragment = U32LE(e, 10)
      /\ c.serverName = a /\ c.subject = d /\ c.roots = r.slices /\ c.mat = m.mat
  BY ProfileFields
<1> HIDE DEF c
<1>2. 14 <= L /\ Magic \o <<Version, IF c.machine THEN 1 ELSE 0>> = P(6)
  BY <1>1, HeaderBack
<1>3. Lies(e, 2, 14, n)
  BY <1>2, NamesLie
<1>4. i \in Nat /\ 14 <= i /\ i <= L /\ PutAll(n.slices) = SubSeq(e, 14 + 1, i)
      /\ n.slices \in Seq(Seq(Nat)) /\ Len(n.slices) = 2
  BY <1>3, Zenon DEF Lies
<1>5. /\ i + 4 <= L /\ U32LE(e, i) \in Nat /\ Lies(e, U32LE(e, i), i + 4, r)
  BY <1>4, RootsLie
<1>6. j \in Nat /\ i + 4 <= j /\ j <= L /\ PutAll(r.slices) = SubSeq(e, (i + 4) + 1, j)
      /\ Len(r.slices) = U32LE(e, i)
  BY <1>5, Zenon DEF Lies
<1>7. MatPart(c.mat) = SubSeq(e, j + 1, L)
  <2>1. m.end = Len(e)
    BY DEF Ends
  <2> QED
    BY <1>1, <1>6, <2>1, MatPartBack
<1>8. a \in Seq(Nat) /\ d \in Seq(Nat) /\ PutAll(n.slices) = PutBytes(a) \o PutBytes(d)
  BY <1>4, PutAllTwo
<1>9. PutBytes(a) \in Seq(Nat) /\ PutBytes(d) \in Seq(Nat)
  BY <1>8, PutBytesType
<1> HIDE DEF i, j, a, d
<1>10. LE32(c.vendor) = SubSeq(e, 6 + 1, 10) /\ LE32(c.fragment) = SubSeq(e, 10 + 1, 14)
  <2>1. 6 \in Nat /\ 10 \in Nat /\ 6 + 4 <= L /\ 10 + 4 <= L /\ 6 + 4 = 10 /\ 10 + 4 = 14
    BY <1>2
  <2>2. LE32(U32LE(e, 6)) = SubSeq(e, 6 + 1, 6 + 4)
    BY <2>1, LEBack
  <2>3. LE32(U32LE(e, 10)) = SubSeq(e, 10 + 1, 10 + 4)
    BY <2>1, LEBack
  <2> QED
    BY <1>1, <2>1, <2>2, <2>3
<1>11. LE32(Len(c.roots)) = SubSeq(e, i + 1, i + 4)
  <2>1. LE32(U32LE(e, i)) = SubSeq(e, i + 1, i + 4)
    BY <1>4, <1>5, LEBack
  <2> QED
    BY <1>1, <1>6, <2>1
<1> HIDE DEF L
<1>12. L = Len(e) /\ L \in Nat /\ i + 4 \in Nat /\ i <= i + 4
  BY <1>4 DEF L
<1>13. P(6) \o SubSeq(e, 6 + 1, 10) = P(10) /\ P(10) \o SubSeq(e, 10 + 1, 14) = P(14)
  <2>1. 6 \in Nat /\ 10 \in Nat /\ 14 \in Nat /\ 6 <= 10 /\ 10 <= 14 /\ 10 <= L /\ 14 <= L
    BY <1>2, <1>12
  <2>2. SubSeq(e, 1, 6) \o SubSeq(e, 6 + 1, 10) = SubSeq(e, 1, 10)
    BY <1>12, <2>1, MeetFirst
  <2>3. SubSeq(e, 1, 10) \o SubSeq(e, 10 + 1, 14) = SubSeq(e, 1, 14)
    BY <1>12, <2>1, MeetFirst
  <2> QED
    BY <2>2, <2>3
<1>14. P(14) \o SubSeq(e, 14 + 1, i) = P(i)
  <2>1. 14 \in Nat /\ i <= Len(e)
    BY <1>4, <1>12
  <2> QED
    BY <1>4, <2>1, MeetFirst
<1>15. P(i) \o SubSeq(e, i + 1, i + 4) = P(i + 4)
  BY <1>4, <1>5, <1>12, MeetFirst
<1>16. P(i + 4) \o SubSeq(e, (i + 4) + 1, j) = P(j)
  BY <1>6, <1>12, MeetFirst
<1>17. P(j) \o SubSeq(e, j + 1, L) = P(L)
  <2>1. L <= Len(e) /\ j <= L /\ L \in Nat /\ j \in Nat
    BY <1>6, <1>12
  <2> QED
    BY <2>1, MeetFirst
<1>18. P(L) = e
  BY <1>12, SubSeqFull
<1>19. (P(14) \o PutBytes(a)) \o PutBytes(d) = P(14) \o (PutBytes(a) \o PutBytes(d))
  <2>0. e \in Seq(Nat)
    BY OctetSeq
  <2>1. P(14) \in Seq(Nat)
    <3>1. 14 \in Nat /\ 14 <= Len(e)
      BY <1>2, <1>12
    <3>2. SubSeq(e, 1, 14) \in Seq(Nat)
      BY <2>0, <3>1, Whole
    <3> QED
      BY <3>2
  <2> HIDE DEF P
  <2>2. PutBytes(a) \in Seq(Nat)
    BY <1>9
  <2>3. PutBytes(d) \in Seq(Nat)
    BY <1>9
  <2> QED
    <3>1. Associates(P(14), PutBytes(a), PutBytes(d))
      BY <2>1, <2>2, <2>3, Associative, Zenon
    <3> QED
      BY <3>1, Zenon DEF Associates
<1> HIDE DEF P
<1>20. ToBytes(c) =
          (((((((Magic \o <<Version, IF c.machine THEN 1 ELSE 0>>) \o LE32(c.vendor)) \o LE32(c.fragment))
             \o PutBytes(a)) \o PutBytes(d)) \o LE32(Len(c.roots))) \o PutAll(c.roots)) \o MatPart(c.mat)
  <2>1. ToBytes(c) =
          Magic \o <<Version, IF c.machine THEN 1 ELSE 0>> \o LE32(c.vendor) \o LE32(c.fragment)
            \o PutBytes(c.serverName) \o PutBytes(c.subject)
            \o LE32(Len(c.roots)) \o PutAll(c.roots) \o MatPart(c.mat)
    BY Zenon DEF ToBytes, MatPart
  <2> QED
    BY <1>1, <2>1, Zenon
<1>21. ((Magic \o <<Version, IF c.machine THEN 1 ELSE 0>>) \o LE32(c.vendor)) \o LE32(c.fragment) = P(14)
  BY <1>2, <1>10, <1>13, Zenon
<1>22. (P(14) \o PutBytes(a)) \o PutBytes(d) = P(i)
  BY <1>4, <1>8, <1>14, <1>19, Zenon
<1>23. (P(i) \o LE32(Len(c.roots))) \o PutAll(c.roots) = P(j)
  BY <1>1, <1>6, <1>11, <1>15, <1>16, Zenon
<1>24. ToBytes(c) = e
  BY <1>7, <1>17, <1>18, <1>20, <1>21, <1>22, <1>23, Zenon
<1> QED
  BY <1>24 DEF c

\* The same octets are the same names, roots and MAT.
LEMMA NamesSame ==
    ASSUME NEW b \in Seq(Octet), NEW e \in Seq(Octet), Len(e) = Len(b), 14 <= Len(b),
           NEW n \in Names(b), Same(b, e, 14, n.end)
    PROVE  Names(e) = {n}
<1>1. n \in Slices(b, 2, 14) /\ Utf8(n.slices[1]) /\ Utf8(n.slices[2])
  BY NamesLie
<1>2. 2 \in Nat /\ 14 \in 0..Len(b)
  OBVIOUS
<1>3. Slices(e, 2, 14) = {n}
  <2> DEFINE k == 2
             h == 14
  <2>1. k \in Nat /\ h \in 0..Len(b) /\ n \in Slices(b, k, h) /\ Same(b, e, h, n.end)
    BY <1>1, <1>2
  <2> HIDE DEF k, h
  <2>2. Slices(b, k, h) = {n} /\ Slices(e, k, h) = {n}
    BY <2>1, SlicesSame
  <2> QED
    BY <2>2 DEF k, h
<1>4. Names(e) = {x \in {n} : Utf8(x.slices[1]) /\ Utf8(x.slices[2])}
  BY <1>3, Zenon DEF Names, FixedLen
<1> DEFINE F(x) == Utf8(x.slices[1]) /\ Utf8(x.slices[2])
<1>5. F(n)
  BY <1>1
<1>6. Names(e) = {x \in {n} : F(x)}
  BY <1>4
<1> HIDE DEF F
<1> QED
  BY <1>5, <1>6

\* The roots.
LEMMA RootsSame ==
    ASSUME NEW b \in Seq(Octet), NEW e \in Seq(Octet), Len(e) = Len(b),
           NEW o \in Nat, NEW r \in Roots(b, o), Same(b, e, o, r.end)
    PROVE  Roots(e, o) = {r}
<1> DEFINE h == o + 4
           k == U32LE(b, o)
<1>1. h <= Len(b) /\ k \in Nat /\ r \in Slices(b, k, h) /\ Lies(b, k, h, r)
  BY RootsLie, Zenon
<1>2. r.end \in Nat /\ h <= r.end
  BY <1>1, Zenon DEF Lies
<1>3. h \in Nat /\ o <= h /\ o <= o /\ Len(b) \in Nat /\ h \in 0..Len(b)
  BY <1>1
<1>4. Same(b, e, o, o + 4)
  <2>1. o + 4 \in Nat /\ o + 4 <= r.end /\ o <= o
    BY <1>2
  <2> QED
    BY <1>2, <2>1, SameWithin
<1>5. Same(b, e, h, r.end)
  <2> DEFINE z == r.end
  <2> HIDE DEF h, z
  <2>1. z \in Nat /\ z <= z /\ Same(b, e, o, z)
    BY <1>2 DEF z
  <2>2. Same(b, e, h, z)
    BY <1>3, <2>1, SameWithin
  <2> QED
    BY <2>2 DEF z
<1>6. U32LE(e, o) = k
  BY <1>1, <1>4, SameNumber
<1> HIDE DEF h, k
<1>7. Slices(e, k, h) = {r}
  BY <1>1, <1>3, <1>5, SlicesSame
<1>8. ~(h > Len(e))
  BY <1>1, <1>3
<1> QED
  BY <1>6, <1>7, <1>8, Zenon DEF Roots, h

\* The MAT.
LEMMA MatsSame ==
    ASSUME NEW b \in Seq(Octet), NEW e \in Seq(Octet), Len(e) = Len(b),
           NEW o \in Nat, NEW m \in Mats(b, o), Same(b, e, o + 1, m.end),
           e[o + 1] = 0 <=> b[o + 1] = 0
    PROVE  Mats(e, o) = {m}
<1> DEFINE p == o + 1
           Read(s) == [mat |-> {s.slices[1]}, end |-> s.end]
<1>1. p <= Len(b) /\ p \in 0..Len(b)
      /\ \/ b[p] = 0 /\ Mats(b, o) = {[mat |-> {}, end |-> p]}
         \/ b[p] # 0 /\ \E s \in Slices(b, 1, p) : m = Read(s) /\ m.end = s.end
  <2>1. /\ o + 1 <= Len(b) /\ o + 1 \in 0..Len(b)
        /\ \/ b[o + 1] = 0 /\ m.mat = {} /\ m.end = o + 1
              /\ Mats(b, o) = {[mat |-> {}, end |-> o + 1]}
           \/ b[o + 1] # 0
              /\ \E s \in Slices(b, 1, o + 1) :
                    m = [mat |-> {s.slices[1]}, end |-> s.end] /\ m.mat = {s.slices[1]}
                    /\ m.end = s.end /\ Lies(b, 1, o + 1, s)
    BY MatsLie
  <2> QED
    BY <2>1, Zenon
<1>2. ~(o >= Len(e))
  BY <1>1
<1> HIDE DEF p
<1>3. CASE b[p] = 0
  <2>1. m = [mat |-> {}, end |-> p]
    BY <1>1, <1>3
  <2>2. e[p] = 0
    BY <1>3 DEF p
  <2> QED
    BY <1>2, <2>1, <2>2, Zenon DEF Mats, p
<1>4. CASE b[p] # 0
  <2>1. PICK s \in Slices(b, 1, p) : m = Read(s) /\ m.end = s.end
    BY <1>1, <1>4
  <2>2. 1 \in Nat /\ Same(b, e, p, s.end)
    BY <2>1 DEF p
  <2>3. Slices(e, 1, p) = {s}
    BY <1>1, <2>2, SlicesSame
  <2>4. e[p] # 0
    BY <1>4 DEF p
  <2>5. Mats(e, o) = {[mat |-> {t.slices[1]}, end |-> t.end] : t \in {s}}
    BY <1>2, <2>3, <2>4, Zenon DEF Mats, p
  <2>6. Mats(e, o) = {Read(t) : t \in {s}}
    BY <2>5
  <2> HIDE DEF Read
  <2>7. {Read(t) : t \in {s}} = {m}
    BY <2>1
  <2> QED
    BY <2>6, <2>7
<1> QED
  BY <1>3, <1>4

\* A profile that is read is written with canonical flags and tag, and read again
\* as the same profile.
LEMMA ProfileBack ==
    ASSUME NEW b \in Seq(Octet), NEW c \in FromBytes(b)
    PROVE  /\ Len(ToBytes(c)) = Len(b)
           /\ FromBytes(ToBytes(c)) = {c}
           /\ c.mat = {} => SubSeq(ToBytes(c), 7, Len(b)) = SubSeq(b, 7, Len(b))
<1>1. /\ HasProfileHeader(b)
      /\ \E x \in Names(b) : \E y \in Roots(b, x.end) : \E z \in Mats(b, y.end) :
            Ends(b, z.end) /\ c = Profile(b, x, y, z)
  BY ProfileRead
<1>2. PICK n \in Names(b) : \E y \in Roots(b, n.end) : \E z \in Mats(b, y.end) :
            Ends(b, z.end) /\ c = Profile(b, n, y, z)
  BY <1>1
<1>3. PICK r \in Roots(b, n.end) : \E z \in Mats(b, r.end) : Ends(b, z.end) /\ c = Profile(b, n, r, z)
  BY <1>2
<1>4. PICK m \in Mats(b, r.end) : Ends(b, m.end) /\ c = Profile(b, n, r, m)
  BY <1>3
<1> DEFINE L == Len(b)
           i == n.end
           j == r.end
           e == Rewritten(b, j)
<1>5. L \in Nat /\ 14 <= L /\ m.end = L
  BY <1>1, <1>4 DEF HasProfileHeader, FixedLen, Ends
<1>6. Lies(b, 2, 14, n)
  BY <1>5, NamesLie
<1>7. i \in Nat /\ 14 <= i /\ i <= L
  BY <1>6, Zenon DEF Lies
<1>8. i + 4 <= L /\ Lies(b, U32LE(b, i), i + 4, r)
  BY <1>7, RootsLie
<1>9. j \in Nat /\ i + 4 <= j /\ j <= L
  BY <1>8, Zenon DEF Lies
<1>10. /\ j + 1 <= L
       /\ \/ b[j + 1] = 0 /\ m.mat = {} /\ m.end = j + 1
          \/ b[j + 1] # 0 /\ \E s : m.mat = {s}
  <2>1. m \in Mats(b, j)
    OBVIOUS
  <2> HIDE DEF j
  <2>2. /\ j + 1 <= Len(b) /\ j + 1 \in 0..Len(b)
        /\ \/ b[j + 1] = 0 /\ m.mat = {} /\ m.end = j + 1
              /\ Mats(b, j) = {[mat |-> {}, end |-> j + 1]}
           \/ b[j + 1] # 0
              /\ \E s \in Slices(b, 1, j + 1) :
                    m = [mat |-> {s.slices[1]}, end |-> s.end] /\ m.mat = {s.slices[1]}
                    /\ m.end = s.end /\ Lies(b, 1, j + 1, s)
    BY <1>9, <2>1, MatsLie
  <2> QED
    BY <2>2, Zenon DEF L
<1> HIDE DEF i, j
<1>11. 14 <= j /\ i <= j
  BY <1>7, <1>9
<1>12. /\ e \in Seq(Octet) /\ Len(e) = L
       /\ Same(b, e, 0, 5) /\ Same(b, e, 6, j) /\ Same(b, e, j + 1, L)
       /\ e[6] = (IF b[6] % 2 = 1 THEN 1 ELSE 0)
       /\ e[j + 1] = (IF b[j + 1] = 0 THEN 0 ELSE 1)
  BY <1>9, <1>10, <1>11, RewrittenIs
<1> HIDE DEF e, L
<1>13. e[6] \in {0, 1} /\ e[j + 1] \in {0, 1} /\ (e[j + 1] = 0 <=> b[j + 1] = 0)
  BY <1>12
<1>14. (e[6] % 2 = 1) = (b[6] % 2 = 1)
  <2>1. CASE b[6] % 2 = 1
    <3>1. e[6] = 1
      BY <1>12, <2>1
    <3>2. 1 % 2 = 1
      OBVIOUS
    <3> QED
      BY <2>1, <3>1, <3>2
  <2>2. CASE b[6] % 2 # 1
    <3>1. e[6] = 0
      BY <1>12, <2>2
    <3>2. 0 % 2 # 1
      OBVIOUS
    <3> QED
      BY <2>2, <3>1, <3>2
  <2> QED
    BY <2>1, <2>2
<1>15. HasProfileHeader(e)
  <2>1. 0 \in Nat /\ 5 \in Nat /\ 0 <= 5 /\ 5 <= Len(b) /\ 5 <= Len(e) /\ 0 + 1 = 1
    BY <1>5, <1>12 DEF L
  <2>2. SubSeq(e, 0 + 1, 5) = SubSeq(b, 0 + 1, 5)
    BY <1>12, <2>1, SameSpan DEF Same
  <2> QED
    BY <1>1, <1>12, <2>1, <2>2 DEF HasProfileHeader, L
<1>16. Len(e) = Len(b) /\ L = Len(b)
  BY <1>12 DEF L
<1>17. Same(b, e, 14, i) /\ Same(b, e, i, j) /\ Same(b, e, 6, 6 + 4) /\ Same(b, e, 10, 10 + 4)
  <2>1. 6 \in Nat /\ 14 \in Nat /\ 10 \in Nat /\ 6 + 4 \in Nat /\ 10 + 4 \in Nat
        /\ 6 <= 14 /\ 6 <= 6 /\ 6 <= 10 /\ 6 <= i /\ 6 + 4 <= j /\ 10 + 4 <= j /\ j <= j
    BY <1>7, <1>9, <1>11
  <2>2. Same(b, e, 14, i)
    BY <1>7, <1>9, <1>11, <1>12, <2>1, SameWithin
  <2>3. Same(b, e, i, j)
    BY <1>7, <1>9, <1>11, <1>12, <2>1, SameWithin
  <2>4. Same(b, e, 6, 6 + 4)
    BY <1>9, <1>12, <2>1, SameWithin
  <2>5. Same(b, e, 10, 10 + 4)
    BY <1>9, <1>12, <2>1, SameWithin
  <2> QED
    BY <2>2, <2>3, <2>4, <2>5
<1>18. U32LE(e, 6) = U32LE(b, 6) /\ U32LE(e, 10) = U32LE(b, 10)
  <2>1. 6 \in Nat /\ 10 \in Nat /\ 6 + 4 <= Len(b) /\ 10 + 4 <= Len(b)
    BY <1>5, <1>16
  <2>2. U32LE(e, 6) = U32LE(b, 6)
    BY <1>12, <1>16, <1>17, <2>1, SameNumber
  <2>3. U32LE(e, 10) = U32LE(b, 10)
    BY <1>12, <1>16, <1>17, <2>1, SameNumber
  <2> QED
    BY <2>2, <2>3
<1>19. Names(e) = {n}
  <2>1. 14 <= Len(b) /\ Same(b, e, 14, n.end)
    BY <1>5, <1>16, <1>17 DEF i
  <2> QED
    BY <1>12, <1>16, <2>1, NamesSame
<1>20. Roots(e, i) = {r}
  <2>1. Same(b, e, i, r.end) /\ r \in Roots(b, i)
    BY <1>17 DEF i, j
  <2> QED
    BY <1>7, <1>12, <1>16, <2>1, RootsSame
<1>21. Mats(e, j) = {m}
  <2>1. Same(b, e, j + 1, m.end) /\ m \in Mats(b, j)
    BY <1>5, <1>12 DEF j
  <2> QED
    BY <1>9, <1>12, <1>13, <1>16, <2>1, MatsSame
<1>22. Profile(e, n, r, m) = c
  BY <1>4, <1>14, <1>18, Zenon DEF Profile
<1>23. Ends(e, m.end)
  BY <1>5, <1>16 DEF Ends
<1>24. ToBytes(c) = e
  <2>1. n \in Names(e) /\ r \in Roots(e, n.end) /\ m \in Mats(e, r.end) /\ e[r.end + 1] \in {0, 1}
    BY <1>13, <1>19, <1>20, <1>21 DEF i, j
  <2>2. ToBytes(Profile(e, n, r, m)) = e
    BY <1>12, <1>13, <1>15, <1>23, <2>1, ProfileCanonical
  <2> QED
    BY <1>22, <2>2
<1>25. FromBytes(e) = {c}
  <2>1. ASSUME NEW x \in FromBytes(e) PROVE x = c
    <3>1. \E n2 \in Names(e) : \E r2 \in Roots(e, n2.end) : \E m2 \in Mats(e, r2.end) :
             Ends(e, m2.end) /\ x = Profile(e, n2, r2, m2)
      BY ProfileRead, Zenon
    <3>2. PICK n2 \in Names(e) : \E r2 \in Roots(e, n2.end) : \E m2 \in Mats(e, r2.end) :
             Ends(e, m2.end) /\ x = Profile(e, n2, r2, m2)
      BY <3>1
    <3>3. n2 = n
      BY <1>19
    <3>4. PICK r2 \in Roots(e, n2.end) : \E m2 \in Mats(e, r2.end) :
             Ends(e, m2.end) /\ x = Profile(e, n2, r2, m2)
      BY <3>2
    <3>5. r2 = r
      BY <1>20, <3>3 DEF i
    <3>6. PICK m2 \in Mats(e, r2.end) : Ends(e, m2.end) /\ x = Profile(e, n2, r2, m2)
      BY <3>4
    <3>7. m2 = m
      BY <1>21, <3>5 DEF j
    <3> QED
      BY <1>22, <3>3, <3>5, <3>6, <3>7
  <2>2. c \in FromBytes(e)
    <3>1. \E n2 \in Names(e) : \E r2 \in Roots(e, n2.end) : \E m2 \in Mats(e, r2.end) :
             Ends(e, m2.end) /\ c = Profile(e, n2, r2, m2)
      <4>1. n \in Names(e) /\ r \in Roots(e, n.end) /\ m \in Mats(e, r.end)
        BY <1>19, <1>20, <1>21 DEF i, j
      <4> QED
        BY <1>22, <1>23, <4>1
    <3> QED
      BY <1>15, <3>1, ProfileRead, Zenon
  <2> QED
    BY <2>1, <2>2
<1>26. c.mat = {} => SubSeq(e, 7, L) = SubSeq(b, 7, L)
  <2>1. SUFFICES ASSUME c.mat = {} PROVE SubSeq(e, 7, L) = SubSeq(b, 7, L)
    OBVIOUS
  <2>2. m.mat = {}
    BY <1>4, <2>1, ProfileFields
  <2>3. b[j + 1] = 0 /\ L = j + 1
    <3>1. \A s : m.mat # {s}
      BY <2>2
    <3> QED
      BY <1>5, <1>10, <3>1
  <2>4. \A k \in (6 + 1)..L : e[k] = b[k]
    <3>1. \A k \in (6 + 1)..L : k \in (6 + 1)..j \/ k = j + 1
      BY <1>9, <2>3
    <3>2. e[j + 1] = b[j + 1]
      BY <1>12, <2>3
    <3>3. \A k \in (6 + 1)..j : e[k] = b[k]
      BY <1>12 DEF Same
    <3> QED
      BY <3>1, <3>2, <3>3
  <2>5. 6 \in Nat /\ 6 <= L /\ 6 + 1 = 7 /\ L <= Len(b) /\ L <= Len(e)
    BY <1>5, <1>16
  <2>6. SubSeq(e, 6 + 1, L) = SubSeq(b, 6 + 1, L)
    BY <1>5, <1>12, <2>4, <2>5, SameSpan
  <2> QED
    BY <2>5, <2>6
<1> QED
  BY <1>16, <1>24, <1>25, <1>26

-----------------------------------------------------------------------------
(* Everything the client writes for others to read.                         *)

\* RecordsInvert follows from the reader's invariant: buf is an octet string.
LEMMA InvRecordsInvert == ReaderInv => RecordsInvert
<1> SUFFICES ASSUME ReaderInv PROVE RecordsInvert
  OBVIOUS
<1>1. buf \in Seq(Octet) /\ buf \in Seq(Nat)
  <2>1. buf \in Seq(Octet)
    BY DEF ReaderInv, ReaderType
  <2> QED
    BY <2>1, OctetSeq
<1>2. ProfilesInvert
  BY <1>1, ProfileBack, Zenon DEF ProfilesInvert
<1>3. \A r \in DecodeMat(buf) : EncodeMat(r) = {buf}
  BY <1>1, MatBack, Zenon
<1>4. \A blob \in XmlTextToBlob(buf) : ToHex(blob) = Lower(Trim(buf))
  <2>1. \A blob \in XmlTextToBlob(buf) : blob \in FromHex(buf)
    BY Zenon DEF XmlTextToBlob
  <2> QED
    BY <1>1, <2>1, HexBack, Zenon
<1>5. buf # <<>> => XmlTextToBlob(ToHex(buf)) = {buf}
  <2>1. SUFFICES ASSUME buf # <<>> PROVE XmlTextToBlob(ToHex(buf)) = {buf}
    OBVIOUS
  <2>2. FromHex(ToHex(buf)) = {buf}
    BY <1>1, <2>1, HexRead, Zenon
  <2>3. XmlTextToBlob(ToHex(buf)) = {buf} \ {<<>>}
    BY <2>2, Zenon DEF XmlTextToBlob
  <2> QED
    BY <2>1, <2>3, Zenon
<1>6. \A n \in CoordLens : \A der \in RawToDer(buf, n) :
         \E s \in Element(der, 0, SEQUENCE) : s.end = Len(der) /\
           \E x \in Element(der, s.start, 2) : Holds(der, x, SubSeq(buf, 1, n)) /\
             \E y \in Element(der, x.end, 2) : Holds(der, y, From(buf, n)) /\ y.end = s.end
  BY <1>1, DerBack, Zenon
<1> QED
  BY <1>2, <1>3, <1>4, <1>5, <1>6, Zenon DEF RecordsInvert

\* For every message: whatever the client writes for another to read is read as
\* it was meant.  An accepted profile or ticket record is one that was written
\* (to_bytes and from_bytes of config.rs, encode and decode of record.rs), a
\* profile's text is its octets (config_xml.rs), and a raw signature becomes the
\* one DER sequence of the same two numbers (raw_to_der of ecdsa.rs).
THEOREM ReaderRecordsInvert == Spec => []RecordsInvert
  BY ReaderInvariance, InvRecordsInvert, PTL
=============================================================================
