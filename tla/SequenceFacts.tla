--------------------------- MODULE SequenceFacts ---------------------------
(***************************************************************************)
(* What the proofs need to know about event queues: sequences over a set   *)
(* stay so when their head is taken, and when something is appended; how   *)
(* many elements of some kind there are among the first ones; and about    *)
(* things that are laid one behind the other, where each of them begins.   *)
(***************************************************************************)
EXTENDS Integers, Sequences, FiniteSets, SequenceTheorems, FiniteSetTheorems,
        FunctionTheorems, WellFoundedInduction, TLAPS

(* Some number is the least of a set of numbers. *)
LEMMA LeastElement ==
    ASSUME NEW T, T \subseteq Nat, T # {}
    PROVE  \E m \in T : \A k \in T : m <= k
<1> DEFINE R == OpToRel(<, Nat)
<1>1. IsWellFoundedOn(R, Nat)
  BY NatLessThanWellFounded
<1>2. \A k, m \in Nat : k < m => <<k, m>> \in R
  BY DEF OpToRel
<1> HIDE DEF R
<1>3. PICK m \in T : \A k \in T : ~(<<k, m>> \in R)
  BY <1>1, WFMin
<1>4. ASSUME NEW k \in T
      PROVE  m <= k
  <2>1. k \in Nat /\ m \in Nat /\ ~(<<k, m>> \in R)
    BY <1>3
  <2>2. ~(k < m)
    BY <1>2, <2>1
  <2> QED
    BY <2>1, <2>2
<1> QED
  BY <1>4

LEMMA SeqOfFunction ==
    ASSUME NEW S, NEW n \in Nat, NEW s \in [1..n -> S]
    PROVE  s \in Seq(S)
  BY SeqDef

LEMMA LenOfFunction ==
    ASSUME NEW S, NEW n \in Nat, NEW s \in [1..n -> S]
    PROVE  s \in Seq(S) /\ Len(s) = n /\ DOMAIN s = 1..n
<1>1. s \in Seq(S) /\ Len(s) \in Nat /\ 1..Len(s) = 1..n
  BY SeqOfFunction, LenProperties
<1>2. ~(Len(s) < n)
  <2> SUFFICES ASSUME Len(s) < n
               PROVE  FALSE
    OBVIOUS
  <2>1. n \in 1..n /\ n \notin 1..Len(s)
    BY <1>1
  <2> QED
    BY <1>1, <2>1
<1>3. ~(n < Len(s))
  <2> SUFFICES ASSUME n < Len(s)
               PROVE  FALSE
    OBVIOUS
  <2>1. Len(s) \in 1..Len(s) /\ Len(s) \notin 1..n
    BY <1>1
  <2> QED
    BY <1>1, <2>1
<1> QED
  BY <1>1, <1>2, <1>3

(* A sequence is one over any set that contains its elements. *)
LEMMA SeqOfElements ==
    ASSUME NEW S, NEW T, NEW s \in Seq(S), \A i \in 1..Len(s) : s[i] \in T
    PROVE  s \in Seq(T)
<1>1. Len(s) \in Nat /\ s \in [1..Len(s) -> S] /\ DOMAIN s = 1..Len(s)
  BY LenProperties
<1>2. s \in [1..Len(s) -> T]
  BY <1>1
<1> QED
  BY <1>1, <1>2, SeqOfFunction

(* Removing the head keeps a sequence over a set S what it is. *)
LEMMA SeqTail ==
    ASSUME NEW S, NEW s \in Seq(S), s # <<>>
    PROVE  Head(s) \in S /\ Tail(s) \in Seq(S)
  BY HeadTailProperties

LEMMA SeqAppend ==
    ASSUME NEW S, NEW s \in Seq(S), NEW e \in S
    PROVE  Append(s, e) \in Seq(S)
  BY AppendProperties

LEMMA SeqConcat ==
    ASSUME NEW S, NEW s \in Seq(S), NEW t \in Seq(S)
    PROVE  s \o t \in Seq(S)
  BY ConcatProperties

(* The head of a concatenation. *)
LEMMA HeadTailOfConcat ==
    ASSUME NEW S, NEW s \in Seq(S), NEW t \in Seq(S), s # <<>>
    PROVE  /\ s \o t # <<>> /\ Head(s \o t) = Head(s)
           /\ Tail(s \o t) = Tail(s) \o t
<1>1. /\ Len(s) \in Nat /\ Len(s) # 0 /\ Len(t) \in Nat /\ Head(s) = s[1]
      /\ Tail(s) \in Seq(S) /\ Len(Tail(s)) = Len(s) - 1
      /\ \A i \in 1..Len(Tail(s)) : Tail(s)[i] = s[i + 1]
  BY HeadTailProperties, LenProperties, EmptySeq
<1>2. /\ s \o t \in Seq(S) /\ Len(s \o t) = Len(s) + Len(t)
      /\ \A i \in 1..Len(s) + Len(t) : (s \o t)[i] =
             IF i <= Len(s) THEN s[i] ELSE t[i - Len(s)]
  BY ConcatProperties
<1>3. s \o t # <<>> /\ Head(s \o t) = Head(s)
  BY <1>1, <1>2, EmptySeq
<1>4. /\ Tail(s \o t) \in Seq(S) /\ Len(Tail(s \o t)) = Len(s) + Len(t) - 1
      /\ \A i \in 1..Len(Tail(s \o t)) : Tail(s \o t)[i] = (s \o t)[i + 1]
  BY <1>2, <1>3, HeadTailProperties
<1>5. /\ Tail(s) \o t \in Seq(S) /\ Len(Tail(s) \o t) = Len(s) - 1 + Len(t)
      /\ \A i \in 1..Len(s) - 1 + Len(t) : (Tail(s) \o t)[i] =
             IF i <= Len(s) - 1 THEN Tail(s)[i] ELSE t[i - (Len(s) - 1)]
  BY <1>1, ConcatProperties
<1>6. \A i \in 1..Len(Tail(s \o t)) : Tail(s \o t)[i] = (Tail(s) \o t)[i]
  <2> SUFFICES ASSUME NEW i \in 1..Len(Tail(s \o t))
               PROVE  Tail(s \o t)[i] = (Tail(s) \o t)[i]
    OBVIOUS
  <2>1. i + 1 \in 1..Len(s) + Len(t) /\ i \in 1..Len(s) - 1 + Len(t)
    BY <1>1, <1>4
  <2>2. CASE i <= Len(s) - 1
    BY <1>1, <1>2, <1>4, <1>5, <2>1, <2>2
  <2>3. CASE i > Len(s) - 1
    <3>1. i + 1 - Len(s) = i - (Len(s) - 1)
      BY <1>1
    <3> QED
      BY <1>1, <1>2, <1>4, <1>5, <2>1, <2>3, <3>1
  <2> QED
    BY <1>1, <2>2, <2>3
<1>7. Tail(s \o t) = Tail(s) \o t
  BY <1>1, <1>4, <1>5, <1>6, SeqEqual
<1> QED
  BY <1>3, <1>7

(* The elements of a tail are elements of the sequence. *)
LEMMA TailElements ==
    ASSUME NEW S, NEW s \in Seq(S), s # <<>>, NEW i \in DOMAIN Tail(s)
    PROVE  i + 1 \in DOMAIN s /\ Tail(s)[i] = s[i + 1]
  BY HeadTailProperties, LenProperties

(* The elements of a sequence with one more at its end. *)
LEMMA AppendElements ==
    ASSUME NEW S, NEW s \in Seq(S), NEW e \in S, NEW i \in DOMAIN Append(s, e)
    PROVE  \/ i \in DOMAIN s /\ Append(s, e)[i] = s[i]
           \/ i = Len(s) + 1 /\ Append(s, e)[i] = e
  BY AppendProperties, LenProperties

(* Appending changes a sequence, and tells what was appended. *)
LEMMA AppendIsInjective ==
    ASSUME NEW S, NEW s \in Seq(S), NEW e \in S, NEW f
    PROVE  /\ Append(s, e) # s
           /\ Append(s, e) = Append(s, f) => e = f
<1>1. Len(Append(s, e)) = Len(s) + 1 /\ Append(s, e)[Len(s) + 1] = e
  BY AppendProperties
<1>2. Append(s, f)[Len(s) + 1] = f
  BY LenProperties
<1> QED
  BY <1>1, <1>2, LenProperties

-----------------------------------------------------------------------------
(* Counting.                                                               *)

(* Where the first c elements of s are in A. *)
Places(s, A, c) == {i \in 1..c : s[i] \in A}

LEMMA PlacesAreFinite ==
    ASSUME NEW s, NEW A, NEW c \in Nat
    PROVE  /\ IsFiniteSet(Places(s, A, c))
           /\ Cardinality(Places(s, A, c)) \in Nat
           /\ Cardinality(Places(s, A, c)) = 0 <=> Places(s, A, c) = {}
<1>1. IsFiniteSet(1..c) /\ Places(s, A, c) \in SUBSET (1..c)
  BY FS_Interval DEF Places
<1>2. IsFiniteSet(Places(s, A, c))
  BY <1>1, FS_Subset
<1> QED
  BY <1>2, FS_CardinalityType, FS_EmptySet

LEMMA ShiftedSet ==
    ASSUME NEW S, NEW T, IsFiniteSet(S), S \subseteq Nat \ {0},
           T = {i \in Nat : i + 1 \in S}
    PROVE  Cardinality(T) = Cardinality(S)
<1> DEFINE f == [i \in S |-> i - 1]
<1>1. f \in [S -> T]
  OBVIOUS
<1>2. f \in Injection(S, T)
  BY <1>1 DEF Injection, IsInjective
<1>3. \A t \in T : \E i \in S : f[i] = t
  <2> SUFFICES ASSUME NEW t \in T
               PROVE  \E i \in S : f[i] = t
    OBVIOUS
  <2>1. t + 1 \in S /\ f[t + 1] = t
    OBVIOUS
  <2> QED
    BY <2>1
<1>4. f \in Surjection(S, T)
  BY <1>1, <1>3 DEF Surjection
<1>5. ExistsBijection(S, T)
  BY <1>2, <1>4 DEF ExistsBijection, Bijection
<1> QED
  BY <1>5, FS_Bijection

(* Taking the head moves all places by one. *)
LEMMA PlacesOfTail ==
    ASSUME NEW S, NEW s \in Seq(S), s # <<>>, NEW A, NEW c \in 1..Len(s)
    PROVE  /\ Places(Tail(s), A, c - 1) = {i \in Nat : i # 0 /\ i + 1 \in Places(s, A, c)}
           /\ Cardinality(Places(s, A, c)) =
                 Cardinality(Places(Tail(s), A, c - 1))
                     + (IF Head(s) \in A THEN 1 ELSE 0)
<1> DEFINE P == Places(s, A, c)
           Q == Places(Tail(s), A, c - 1)
<1>1. /\ Len(s) \in Nat /\ Len(Tail(s)) = Len(s) - 1 /\ Head(s) = s[1]
      /\ \A i \in 1..Len(Tail(s)) : Tail(s)[i] = s[i + 1]
  BY HeadTailProperties, LenProperties
<1>2. Q = {i \in Nat : i # 0 /\ i + 1 \in P}
  BY <1>1 DEF Places
<1>3. IsFiniteSet(P) /\ Cardinality(P) \in Nat /\ P \subseteq Nat \ {0}
  <2>1. c \in Nat /\ P \subseteq Nat \ {0}
    BY <1>1 DEF Places
  <2> QED
    BY <2>1, PlacesAreFinite
<1>4. 1 \in P <=> Head(s) \in A
  BY <1>1 DEF Places
<1>5. /\ IsFiniteSet(P \ {1})
      /\ Cardinality(P) = Cardinality(P \ {1}) + (IF 1 \in P THEN 1 ELSE 0)
  <2>1. /\ IsFiniteSet(P \ {1}) /\ Cardinality(P \ {1}) \in Nat
        /\ Cardinality(P \ {1}) = IF 1 \in P THEN Cardinality(P) - 1 ELSE Cardinality(P)
    BY <1>3, FS_RemoveElement, FS_CardinalityType
  <2> QED
    BY <1>3, <2>1
<1> HIDE DEF P, Q
<1>6. Q = {i \in Nat : i + 1 \in P \ {1}}
  BY <1>2
<1>7. Cardinality(Q) = Cardinality(P \ {1})
  BY <1>3, <1>5, <1>6, ShiftedSet
<1> QED
  BY <1>2, <1>4, <1>5, <1>7 DEF P, Q

(* An element more at the end. *)
LEMMA PlacesOfAppend ==
    ASSUME NEW S, NEW s \in Seq(S), NEW e \in S, NEW A
    PROVE  Cardinality(Places(Append(s, e), A, Len(Append(s, e)))) =
               Cardinality(Places(s, A, Len(s))) + (IF e \in A THEN 1 ELSE 0)
<1> DEFINE P == Places(s, A, Len(s))
           n == Len(s) + 1
<1>1. /\ Len(s) \in Nat /\ Len(Append(s, e)) = n
      /\ \A i \in 1..Len(s) : Append(s, e)[i] = s[i]
      /\ Append(s, e)[n] = e
  BY AppendProperties, LenProperties
<1>2. Places(Append(s, e), A, n) = P \cup (IF e \in A THEN {n} ELSE {})
  BY <1>1 DEF Places
<1>3. IsFiniteSet(P) /\ Cardinality(P) \in Nat /\ n \notin P
  <2>1. n \notin P
    BY <1>1 DEF Places
  <2> QED
    BY <1>1, <2>1, PlacesAreFinite
<1> HIDE DEF P
<1>4. Cardinality(P \cup {n}) = Cardinality(P) + 1
  BY <1>3, FS_AddElement
<1>5. Cardinality(Places(Append(s, e), A, n)) =
          Cardinality(P) + (IF e \in A THEN 1 ELSE 0)
  <2>1. CASE e \in A
    BY <1>2, <1>4, <2>1
  <2>2. CASE e \notin A
    <3>1. Places(Append(s, e), A, n) = P
      BY <1>2, <2>2
    <3> QED
      BY <1>3, <2>2, <3>1
  <2> QED
    BY <2>1, <2>2
<1> QED
  BY <1>1, <1>5 DEF P

(* What is appended leaves the places before it alone. *)
LEMMA PlacesOfConcat ==
    ASSUME NEW S, NEW s \in Seq(S), NEW t \in Seq(S), NEW A, NEW c \in 0..Len(s)
    PROVE  /\ Places(s \o t, A, c) = Places(s, A, c)
           /\ \A i \in Places(s, A, c) : (s \o t)[i] = s[i]
  BY ConcatProperties, LenProperties DEF Places

-----------------------------------------------------------------------------
(* Where the elements of a sequence begin that are w[1], w[2], ... long:   *)
(* f is the sequence of the sums of those before.                          *)
PartialSums(f, w) ==
    f = [i \in 1..Len(w) + 1 |-> IF i = 1 THEN 0 ELSE f[i - 1] + w[i - 1]]

LEMMA SumsStep ==
    ASSUME NEW w \in Seq(Nat), NEW f, PartialSums(f, w)
    PROVE  /\ Len(w) \in Nat /\ f[1] = 0
           /\ \A i \in 1..Len(w) : f[i + 1] = f[i] + w[i]
<1>1. Len(w) \in Nat
  BY LenProperties
<1>2. \A i \in 1..Len(w) + 1 : f[i] = IF i = 1 THEN 0 ELSE f[i - 1] + w[i - 1]
  BY Zenon DEF PartialSums
<1>3. f[1] = 0
  BY <1>1, <1>2
<1>4. ASSUME NEW i \in 1..Len(w) PROVE f[i + 1] = f[i] + w[i]
  <2>1. i + 1 \in 1..Len(w) + 1 /\ i + 1 # 1 /\ (i + 1) - 1 = i
    BY <1>1
  <2> QED
    BY <2>1, <1>2
<1> QED
  BY <1>1, <1>3, <1>4

(* The sums of the first of them, which exist because one can always go on.*)
LEMMA SumsExist ==
    ASSUME NEW w \in Seq(Nat)
    PROVE  \E f : PartialSums(f, w)
<1> DEFINE Next(f, i) == IF i = 1 THEN 0 ELSE f[i - 1] + w[i - 1]
           Upto(f, n) == f = [i \in 1..n + 1 |-> Next(f, i)]
           Missing == {n \in Nat : ~\E f : Upto(f, n)}
<1>1. ASSUME Missing # {} PROVE FALSE
  <2>1. PICK m \in Missing : \A k \in Missing : m <= k
    BY <1>1, LeastElement
  <2>2. m # 0
    <3>1. \A i \in 1..0 + 1 : i = 1
      OBVIOUS
    <3>2. [i \in 1..0 + 1 |-> 0] = [i \in 1..0 + 1 |-> Next([j \in 1..0 + 1 |-> 0], i)]
      BY <3>1
    <3>3. Upto([i \in 1..0 + 1 |-> 0], 0)
      BY <3>2
    <3> HIDE DEF Upto
    <3> QED
      BY <2>1, <3>3
  <2>3. m - 1 \in Nat /\ m - 1 \notin Missing
    <3>1. ~(m <= m - 1) /\ m - 1 \in Nat
      BY <2>1, <2>2
    <3> HIDE DEF Missing
    <3> QED
      BY <2>1, <3>1
  <2>4. PICK f : Upto(f, m - 1)
    BY <2>3
  <2> DEFINE g == [i \in 1..m + 1 |-> IF i = m + 1 THEN f[m] + w[m] ELSE f[i]]
  <2>5. \A i \in 1..m : f[i] = Next(f, i)
    <3>1. (m - 1) + 1 = m
      BY <2>3
    <3> QED
      BY <2>4, <3>1, Zenon
  <2>6. ASSUME NEW i \in 1..m + 1 PROVE g[i] = Next(g, i)
    <3>0. m \in Nat /\ m # 0
      BY <2>1, <2>2
    <3>1. CASE i = m + 1
      <4>1. g[i] = f[m] + w[m] /\ i - 1 = m /\ m \in 1..m + 1 /\ m # m + 1 /\ i # 1
        BY <3>0, <3>1
      <4>2. g[m] = f[m]
        BY <4>1
      <4> HIDE DEF g
      <4> QED
        BY <4>1, <4>2
    <3>2. CASE i # m + 1 /\ i # 1
      <4>1. i \in 1..m /\ i - 1 \in 1..m + 1 /\ i - 1 # m + 1
        BY <3>0, <3>2
      <4>2. g[i] = f[i] /\ g[i - 1] = f[i - 1]
        BY <3>2, <4>1
      <4>3. f[i] = f[i - 1] + w[i - 1]
        BY <2>5, <3>2, <4>1
      <4> HIDE DEF g
      <4> QED
        BY <3>2, <4>2, <4>3
    <3>3. CASE i # m + 1 /\ i = 1
      <4>1. 1 \in 1..m
        BY <3>0
      <4>2. f[1] = 0
        BY <2>5, <4>1
      <4>3. g[i] = f[i]
        BY <3>3
      <4> HIDE DEF g
      <4> QED
        BY <3>3, <4>2, <4>3
    <3> QED
      BY <3>1, <3>2, <3>3
  <2>7. g = [i \in 1..m + 1 |-> g[i]]
    OBVIOUS
  <2>8. Upto(g, m)
    <3> HIDE DEF g
    <3>1. [i \in 1..m + 1 |-> g[i]] = [i \in 1..m + 1 |-> Next(g, i)]
      BY <2>6
    <3> QED
      BY <2>7, <3>1
  <2> HIDE DEF Upto, g
  <2> QED
    BY <2>1, <2>8
<1>2. Len(w) \in Nat
  BY LenProperties
<1>3. \E f : Upto(f, Len(w))
  BY <1>1, <1>2
<1> QED
  BY <1>3 DEF PartialSums

(* The sums only depend on what was added.                                 *)
SameUpto(w, v, n) == n <= Len(w) /\ n <= Len(v) /\ \A i \in 1..n : w[i] = v[i]

LEMMA SumsAgree ==
    ASSUME NEW w \in Seq(Nat), NEW f, PartialSums(f, w),
           NEW v \in Seq(Nat), NEW g, PartialSums(g, v),
           NEW n \in Nat, SameUpto(w, v, n),
           NEW k \in 1..n + 1
    PROVE  f[k] = g[k]
<1>1. /\ Len(w) \in Nat /\ Len(v) \in Nat
      /\ n <= Len(w) /\ n <= Len(v) /\ \A i \in 1..n : w[i] = v[i]
  BY LenProperties DEF SameUpto
<1>2. f[1] = 0 /\ \A i \in 1..Len(w) : f[i + 1] = f[i] + w[i]
  BY SumsStep
<1>3. g[1] = 0 /\ \A i \in 1..Len(v) : g[i + 1] = g[i] + v[i]
  BY SumsStep
<1> DEFINE Differ == {i \in Nat : i \in 1..n + 1 /\ f[i] # g[i]}
<1>4. ASSUME Differ # {} PROVE FALSE
  <2>1. PICK m \in Differ : \A i \in Differ : m <= i
    BY <1>4, LeastElement
  <2>2. m \in 1..n + 1 /\ f[m] # g[m]
    BY <2>1
  <2>3. m # 1
    BY <2>2, <1>2, <1>3
  <2>4. m - 1 \in 1..n /\ (m - 1) + 1 = m /\ m - 1 \in Nat /\ m - 1 \in 1..n + 1 /\ ~(m <= m - 1)
    BY <2>2, <2>3
  <2>5. m - 1 \in 1..Len(w) /\ m - 1 \in 1..Len(v)
    BY <2>4, <1>1
  <2>6. f[m - 1] = g[m - 1]
    BY <2>1, <2>4
  <2>7. f[(m - 1) + 1] = f[m - 1] + w[m - 1] /\ g[(m - 1) + 1] = g[m - 1] + v[m - 1]
    BY <2>5, <1>2, <1>3
  <2>8. w[m - 1] = v[m - 1]
    BY <2>4, <1>1
  <2>9. f[m] = f[m - 1] + w[m - 1] /\ g[m] = g[m - 1] + v[m - 1]
    BY <2>4, <2>7
  <2> QED
    BY <2>2, <2>6, <2>8, <2>9
<1>5. k \in Nat
  OBVIOUS
<1> QED
  BY <1>4, <1>5

(* Elements that are not empty begin one behind the other.                 *)
LEMMA SumsRise ==
    ASSUME NEW w \in Seq(Nat), NEW f, PartialSums(f, w), \A i \in 1..Len(w) : w[i] # 0
    PROVE  /\ \A i \in 1..Len(w) + 1 : f[i] \in Nat
           /\ \A i, j \in 1..Len(w) + 1 : i < j => f[i] < f[j]
<1> DEFINE n == Len(w) + 1
<1>1. Len(w) \in Nat /\ n \in Nat /\ \A i \in 1..Len(w) : w[i] \in Nat
  BY LenProperties, ElementOfSeq
<1>2. f[1] = 0 /\ \A i \in 1..Len(w) : f[i + 1] = f[i] + w[i]
  BY SumsStep
<1> DEFINE Low == {j \in Nat : j \in 1..n /\ ~(f[j] \in Nat /\ \A i \in 1..n : i < j => f[i] < f[j])}
<1>3. ASSUME Low # {} PROVE FALSE
  <2>1. PICK m \in Low : \A j \in Low : m <= j
    BY <1>3, LeastElement
  <2>2. m \in 1..n /\ ~(f[m] \in Nat /\ \A i \in 1..n : i < m => f[i] < f[m])
    BY <2>1
  <2>3. m # 1
    BY <2>2, <1>2
  <2>4. m - 1 \in 1..Len(w) /\ (m - 1) + 1 = m /\ m - 1 \in Nat /\ m - 1 \in 1..n /\ ~(m <= m - 1)
    BY <2>2, <2>3, <1>1
  <2>5. f[m - 1] \in Nat /\ \A i \in 1..n : i < m - 1 => f[i] < f[m - 1]
    BY <2>1, <2>4
  <2>6. f[m] = f[m - 1] + w[m - 1] /\ w[m - 1] \in Nat /\ w[m - 1] # 0
    <3>1. f[(m - 1) + 1] = f[m - 1] + w[m - 1]
      BY <2>4, <1>2
    <3> QED
      BY <2>4, <3>1, <1>1
  <2>7. f[m] \in Nat /\ f[m - 1] < f[m]
    BY <2>5, <2>6
  <2>8. ASSUME NEW i \in 1..n, i < m PROVE f[i] < f[m]
    <3>1. i = m - 1 \/ i < m - 1
      BY <2>4, <2>8, <1>1
    <3>2. ASSUME i < m - 1 PROVE f[i] < f[m - 1] /\ f[i] \in Nat
      <4>1. i \in Nat /\ i \notin Low
        <5>1. i \in Nat /\ ~(m <= i)
          BY <2>2, <2>8, <1>1
        <5> HIDE DEF Low
        <5> QED
          BY <2>1, <5>1
      <4>2. f[i] \in Nat
        BY <4>1
      <4> QED
        BY <2>5, <3>2, <4>2
    <3>3. ASSUME i = m - 1 PROVE f[i] < f[m]
      BY <2>7, <3>3
    <3>4. ASSUME i < m - 1 PROVE f[i] < f[m]
      BY <2>5, <2>7, <3>2, <3>4
    <3> QED
      BY <3>1, <3>3, <3>4
  <2> QED
    BY <2>2, <2>7, <2>8
<1>4. ASSUME NEW j \in 1..n PROVE f[j] \in Nat /\ \A i \in 1..n : i < j => f[i] < f[j]
  <2>1. j \in Nat
    BY <1>1
  <2> QED
    BY <1>3, <2>1
<1> QED
  BY <1>4

(* From some place on all elements are of the same length.                 *)
EqualFrom(w, n, k, c) == Len(w) = n + k /\ \A i \in 1..k : w[n + i] = c

LEMMA SumsOfEqual ==
    ASSUME NEW w \in Seq(Nat), NEW f, PartialSums(f, w), NEW n \in Nat, NEW c \in Nat, NEW k \in Nat,
           EqualFrom(w, n, k, c), f[n + 1] \in Nat
    PROVE  f[n + k + 1] = f[n + 1] + k * c
<1>1. Len(w) = n + k /\ \A i \in 1..k : w[n + i] = c
  BY DEF EqualFrom
<1>2. \A i \in 1..n + k : f[i + 1] = f[i] + w[i]
  BY <1>1, SumsStep
<1> DEFINE Off == {i \in Nat : i <= k /\ f[n + i + 1] # f[n + 1] + i * c}
<1>3. ASSUME Off # {} PROVE FALSE
  <2>1. PICK m \in Off : \A i \in Off : m <= i
    BY <1>3, LeastElement
  <2>2. m \in Nat /\ m <= k /\ f[n + m + 1] # f[n + 1] + m * c
    BY <2>1
  <2>3. m # 0
    <3>1. n + 0 + 1 = n + 1 /\ 0 * c = 0 /\ f[n + 1] + 0 = f[n + 1]
      OBVIOUS
    <3> QED
      BY <2>2, <3>1
  <2> DEFINE p == m - 1
  <2>4. /\ p \in Nat /\ p <= k /\ ~(m <= p) /\ m \in 1..k /\ n + m \in 1..n + k
        /\ n + m = n + p + 1 /\ (n + m) + 1 = n + m + 1 /\ m = p + 1
    BY <2>2, <2>3
  <2> HIDE DEF p
  <2>5. f[n + p + 1] = f[n + 1] + p * c
    <3>1. p \notin Off
      <4> HIDE DEF Off
      <4> QED
        BY <2>1, <2>4
    <3> QED
      BY <2>4, <3>1
  <2>6. f[(n + m) + 1] = f[n + m] + w[n + m] /\ w[n + m] = c
    BY <2>4, <1>1, <1>2
  <2>7. f[n + m + 1] = (f[n + 1] + p * c) + c
    BY <2>4, <2>5, <2>6
  <2>8. m * c = p * c + c
    BY <2>4
  <2>9. p * c \in Nat
    BY <2>4
  <2> QED
    BY <2>2, <2>7, <2>8, <2>9
<1>4. k \notin Off
  BY <1>3
<1> QED
  BY <1>4
=============================================================================
