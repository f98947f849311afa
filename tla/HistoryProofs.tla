---------------------------- MODULE HistoryProofs ----------------------------
(***************************************************************************)
(* Proofs about History for any messages and any number of clicks and      *)
(* crashes.                                                                *)
(***************************************************************************)
EXTENDS History, SequenceFacts, FiniteSetTheorems, FunctionTheorems, TLAPS

-----------------------------------------------------------------------------
(* Sorting.                                                                *)

Below(key, x) == {y \in DOMAIN key : key[y] < key[x]}

(* The place of an element is one more than the number of those below it.  *)
LEMMA RanksAreBijective ==
    ASSUME NEW S, IsFiniteSet(S), NEW key \in [S -> Int],
           \A x, y \in S : key[x] = key[y] => x = y
    PROVE  /\ \A x \in S : Cardinality(Below(key, x)) \in 0 .. Cardinality(S) - 1
           /\ \A x, y \in S : key[x] < key[y] =>
                 Cardinality(Below(key, x)) < Cardinality(Below(key, y))
           /\ \A k \in 1 .. Cardinality(S) : \E x \in S : Cardinality(Below(key, x)) = k - 1
<1> DEFINE n == Cardinality(S)
           rank == [x \in S |-> Cardinality(Below(key, x)) + 1]
<1>1. \A x \in S : /\ Below(key, x) \in SUBSET S /\ x \notin Below(key, x)
                   /\ IsFiniteSet(Below(key, x)) /\ Cardinality(Below(key, x)) \in Nat
                   /\ Cardinality(Below(key, x)) <= n /\ Cardinality(Below(key, x)) # n
  <2> TAKE x \in S
  <2>1. Below(key, x) \in SUBSET S /\ x \notin Below(key, x)
    BY DEF Below
  <2>2. QED
    BY <2>1, FS_Subset, FS_CardinalityType
<1>2. n \in Nat /\ IsFiniteSet(1..n) /\ Cardinality(1..n) = n
  <2>1. n \in Nat
    BY FS_CardinalityType
  <2> HIDE DEF n
  <2> QED
    BY <2>1, FS_Interval
<1>3. \A x, y \in S : key[x] < key[y] => Cardinality(Below(key, x)) < Cardinality(Below(key, y))
  <2> TAKE x, y \in S
  <2> HAVE key[x] < key[y]
  <2>1. Below(key, x) \in SUBSET Below(key, y) /\ x \in Below(key, y) /\ x \notin Below(key, x)
    BY DEF Below
  <2>2. /\ Cardinality(Below(key, x)) <= Cardinality(Below(key, y))
        /\ Cardinality(Below(key, x)) # Cardinality(Below(key, y))
    BY <1>1, <2>1, FS_Subset
  <2> QED
    BY <1>1, <2>2
<1>4. \A x \in S : Cardinality(Below(key, x)) \in 0 .. n - 1
  <2> HIDE DEF n
  <2> QED
    BY <1>1, <1>2
<1>5. rank \in [S -> 1..n]
  <2> HIDE DEF n
  <2> QED
    BY <1>2, <1>4
<1>6. \A x, y \in S : rank[x] = rank[y] => x = y
  <2> TAKE x, y \in S
  <2> HAVE rank[x] = rank[y]
  <2>1. Cardinality(Below(key, x)) = Cardinality(Below(key, y))
    BY <1>1
  <2>2. ~(key[x] < key[y]) /\ ~(key[y] < key[x])
    BY <1>1, <1>3, <2>1
  <2>3. key[x] \in Int /\ key[y] \in Int
    OBVIOUS
  <2> QED
    BY <2>2, <2>3
<1>7. rank \in Injection(S, 1..n)
  BY <1>5, <1>6 DEF Injection, IsInjective
<1>8. rank \in Surjection(S, 1..n)
  BY <1>2, <1>7, FS_Injection
<1>9. \A k \in 1..n : \E x \in S : rank[x] = k
  BY <1>8 DEF Surjection
<1>10. \A k \in 1..n : \E x \in S : Cardinality(Below(key, x)) = k - 1
  <2> TAKE k \in 1..n
  <2>1. PICK x \in S : rank[x] = k
    BY <1>9
  <2>2. Cardinality(Below(key, x)) = k - 1
    BY <1>1, <2>1
  <2> QED
    BY <2>2
<1> QED
  BY <1>3, <1>4, <1>10

(* Sorting enumerates the domain, and in ascending order.                  *)
LEMMA SortedEnumerates ==
    ASSUME NEW S, IsFiniteSet(S), NEW key \in [S -> Int],
           \A x, y \in S : key[x] = key[y] => x = y
    PROVE  /\ Cardinality(S) \in Nat
           /\ Sorted(key) \in [1 .. Cardinality(S) -> S]
           /\ \A k \in 1 .. Cardinality(S) : Cardinality(Below(key, Sorted(key)[k])) = k - 1
           /\ \A k, l \in 1 .. Cardinality(S) : k < l => key[Sorted(key)[k]] < key[Sorted(key)[l]]
           /\ \A x \in S : \E k \in 1 .. Cardinality(S) :
                 k = Cardinality(Below(key, x)) + 1 /\ Sorted(key)[k] = x
<1> DEFINE n == Cardinality(S)
           s == Sorted(key)
<1>1. n \in Nat
  BY FS_CardinalityType
<1>2. DOMAIN key = S
  OBVIOUS
<1>3. s = [k \in 1..n |-> CHOOSE x \in S : Cardinality(Below(key, x)) = k - 1]
  BY <1>2 DEF Sorted, Below
<1>4. \A k \in 1..n : s[k] \in S /\ Cardinality(Below(key, s[k])) = k - 1
  <2> TAKE k \in 1..n
  <2>1. \E x \in S : Cardinality(Below(key, x)) = k - 1
    BY RanksAreBijective
  <2>2. s[k] = CHOOSE x \in S : Cardinality(Below(key, x)) = k - 1
    BY <1>3
  <2> HIDE DEF s
  <2> QED
    BY <2>1, <2>2
<1>5. s \in [1..n -> S]
  BY <1>3, <1>4
<1>6. \A k, l \in 1..n : k < l => key[s[k]] < key[s[l]]
  <2> TAKE k, l \in 1..n
  <2> HAVE k < l
  <2>1. ~(Cardinality(Below(key, s[l])) < Cardinality(Below(key, s[k])))
    BY <1>1, <1>4
  <2>2. ~(key[s[l]] < key[s[k]])
    BY <1>4, <2>1, RanksAreBijective
  <2>3. s[k] # s[l]
    <3>1. Cardinality(Below(key, s[k])) # Cardinality(Below(key, s[l]))
      <4>1. Cardinality(Below(key, s[k])) = k - 1 /\ Cardinality(Below(key, s[l])) = l - 1
        BY <1>4
      <4> QED
        BY <1>1, <4>1
    <3> QED
      BY <3>1
  <2>4. key[s[k]] # key[s[l]] /\ key[s[k]] \in Int /\ key[s[l]] \in Int
    BY <1>4, <2>3
  <2> HIDE DEF s
  <2> QED
    BY <2>2, <2>4
<1>7. \A x \in S : \E k \in 1..n : k = Cardinality(Below(key, x)) + 1 /\ s[k] = x
  <2> TAKE x \in S
  <2> DEFINE k == Cardinality(Below(key, x)) + 1
  <2>1. Cardinality(Below(key, x)) \in 0 .. n - 1
    BY RanksAreBijective
  <2>2. k \in 1..n /\ Cardinality(Below(key, x)) = k - 1
    <3> HIDE DEF n
    <3> QED
      BY <1>1, <2>1
  <2>3. s[k] \in S /\ Cardinality(Below(key, s[k])) = Cardinality(Below(key, x))
    BY <1>4, <2>2
  <2>4. Cardinality(Below(key, s[k])) \in 0 .. n - 1
    BY <2>3, RanksAreBijective
  <2>5. ~(key[x] < key[s[k]]) /\ ~(key[s[k]] < key[x])
    <3>1. /\ key[x] < key[s[k]] => Cardinality(Below(key, x)) < Cardinality(Below(key, s[k]))
          /\ key[s[k]] < key[x] => Cardinality(Below(key, s[k])) < Cardinality(Below(key, x))
      BY <2>3, RanksAreBijective
    <3> HIDE DEF n, s, k
    <3> QED
      BY <1>1, <2>1, <2>3, <2>4, <3>1
  <2>6. key[x] \in Int /\ key[s[k]] \in Int
    BY <2>3
  <2>7. key[x] = key[s[k]]
    <3> HIDE DEF s, k
    <3> QED
      BY <2>5, <2>6
  <2>8. s[k] = x
    BY <2>3, <2>7
  <2> QED
    BY <2>2, <2>8
<1> QED
  BY <1>1, <1>4, <1>5, <1>6, <1>7

-----------------------------------------------------------------------------
(* What is kept of a sequence: p names the places, in their order.         *)

Picks(r, s, places, p) ==
    /\ p \in [1 .. Len(r) -> places]
    /\ \A k, l \in 1 .. Len(r) : k < l => p[k] < p[l]
    /\ \A i \in places : \E k \in 1 .. Len(r) : p[k] = i
    /\ \A k \in 1 .. Len(r) : r[k] = s[p[k]]

LEMMA KeptPicks ==
    ASSUME NEW S, NEW s \in Seq(S), NEW places \in SUBSET DOMAIN s
    PROVE  /\ Kept(s, places) \in Seq(S)
           /\ Len(Kept(s, places)) = Cardinality(places)
           /\ \E p : Picks(Kept(s, places), s, places, p)
<1> DEFINE key == [i \in places |-> i]
           n == Cardinality(places)
           ps == Sorted(key)
           r == Kept(s, places)
<1>1. places \subseteq 1 .. Len(s) /\ Len(s) \in Nat
  BY LenProperties
<1>2. IsFiniteSet(places)
  BY <1>1, FS_Interval, FS_Subset
<1>3. key \in [places -> Int] /\ \A x, y \in places : key[x] = key[y] => x = y
  BY <1>1
<1>4. /\ n \in Nat
      /\ ps \in [1..n -> places]
      /\ \A k, l \in 1..n : k < l => key[ps[k]] < key[ps[l]]
      /\ \A x \in places : \E k \in 1..n : ps[k] = x
  <2> HIDE DEF key
  <2>1. n \in Nat
    BY <1>2, <1>3, SortedEnumerates
  <2>2. ps \in [1..n -> places]
    BY <1>2, <1>3, SortedEnumerates
  <2>3. \A k, l \in 1..n : k < l => key[ps[k]] < key[ps[l]]
    BY <1>2, <1>3, SortedEnumerates
  <2>4. \A x \in places : \E k \in 1..n : ps[k] = x
    BY <1>2, <1>3, SortedEnumerates
  <2> QED
    BY <2>1, <2>2, <2>3, <2>4
<1>5. r = [k \in DOMAIN ps |-> s[ps[k]]]
  BY DEF Kept
<1> HIDE DEF ps, n, r
<1>6. r \in [1..n -> S] /\ \A k \in 1..n : r[k] = s[ps[k]]
  BY <1>1, <1>4, <1>5, ElementOfSeq
<1>7. r \in Seq(S) /\ Len(r) = n
  BY <1>4, <1>6, LenOfFunction
<1>8. \A k, l \in 1..n : k < l => ps[k] < ps[l]
  BY <1>4
<1>9. Picks(r, s, places, ps)
  BY <1>4, <1>6, <1>7, <1>8 DEF Picks
<1> QED
  BY <1>7, <1>9 DEF n, r

LEMMA KeptElements ==
    ASSUME NEW S, NEW s \in Seq(S), NEW places \in SUBSET DOMAIN s
    PROVE  /\ Kept(s, places) \in Seq(S)
           /\ ToSet(Kept(s, places)) = {s[i] : i \in places}
           /\ Kept(s, places) = <<>> <=> places = {}
<1> DEFINE r == Kept(s, places)
<1>1. r \in Seq(S)
  BY KeptPicks
<1>2. PICK p : Picks(r, s, places, p)
  BY KeptPicks
<1> HIDE DEF r
<1>3. DOMAIN r = 1 .. Len(r) /\ Len(r) \in Nat
  BY <1>1, LenProperties
<1>4. ToSet(r) = {s[i] : i \in places}
  BY <1>2, <1>3 DEF Picks, ToSet
<1>5. r = <<>> <=> Len(r) = 0
  BY <1>1, EmptySeq
<1>6. r = <<>> <=> places = {}
  <2>1. r = <<>> => places = {}
    BY <1>2, <1>3, <1>5 DEF Picks
  <2>2. places = {} => r = <<>>
    <3> SUFFICES ASSUME places = {}, Len(r) # 0 PROVE FALSE
      BY <1>5
    <3>1. 1 \in 1 .. Len(r)
      BY <1>3
    <3> QED
      BY <1>2, <3>1 DEF Picks
  <2> QED
    BY <2>1, <2>2
<1> QED
  BY <1>1, <1>4, <1>6 DEF r

-----------------------------------------------------------------------------
(* Calls to the database, and the rows they are about.                     *)

Limits == Dates \cup {Now - seconds : seconds \in UNION {AgesTaken(age[1] * UnitTaken[age[2]]) : age \in Ages}}

Rules ==
    [by : {"count"}, old : BOOLEAN, limit : Counts] \cup [by : {"age"}, old : BOOLEAN, limit : Limits]

Calls ==
    ({"store", "result", "delete", "message"} \X Messages)
        \cup ({"last"} \X Nat) \cup ({"deleteMany"} \X Rules)

LEMMA RowsAreFinite ==
    ASSUME NEW us \in SUBSET Messages
    PROVE  IsFiniteSet(us)
  BY HistoryAssumption, FS_Subset

Age(us, old) == [u \in us |-> IF old THEN SortBy[u] ELSE -SortBy[u]]

LEMMA AgesDiffer ==
    ASSUME NEW us \in SUBSET Messages, NEW old \in BOOLEAN
    PROVE  /\ Age(us, old) \in [us -> Int]
           /\ \A x, y \in us : Age(us, old)[x] = Age(us, old)[y] => x = y
<1>1. \A u \in us : u \in Messages /\ SortBy[u] \in Nat
  BY HistoryAssumption
<1>2. \A u \in us : Age(us, old)[u] = IF old THEN SortBy[u] ELSE -SortBy[u]
  BY DEF Age
<1>3. Age(us, old) \in [us -> Int]
  BY <1>1 DEF Age
<1>4. \A x, y \in us : Age(us, old)[x] = Age(us, old)[y] => SortBy[x] = SortBy[y]
  BY <1>1, <1>2
<1> QED
  BY <1>1, <1>3, <1>4, HistoryAssumption

LEMMA InOrderIsSequence ==
    ASSUME NEW us \in SUBSET Messages, NEW old \in BOOLEAN
    PROVE  /\ InOrder(us, old) \in Seq(us)
           /\ Len(InOrder(us, old)) = Cardinality(us)
           /\ Cardinality(us) \in Nat
<1>1. InOrder(us, old) = Sorted(Age(us, old))
  BY DEF InOrder, Age
<1>2. Cardinality(us) \in Nat /\ InOrder(us, old) \in [1 .. Cardinality(us) -> us]
  <2>1. PICK key \in [us -> Int] : key = Age(us, old) /\ \A x, y \in us : key[x] = key[y] => x = y
    BY AgesDiffer
  <2>2. IsFiniteSet(us)
    BY RowsAreFinite
  <2>3. Cardinality(us) \in Nat
    BY <2>2, FS_CardinalityType
  <2>4. Sorted(key) \in [1 .. Cardinality(us) -> us]
    BY <2>1, <2>2, SortedEnumerates
  <2> QED
    BY <1>1, <2>1, <2>3, <2>4
<1> QED
  BY <1>2, LenOfFunction

LEMMA FirstIsSequence ==
    ASSUME NEW S, NEW us \in Seq(S), NEW n \in Nat
    PROVE  /\ First(n, us) \in Seq(S)
           /\ Len(First(n, us)) = IF n < Len(us) THEN n ELSE Len(us)
           /\ \A i \in 1 .. Len(First(n, us)) : i \in 1 .. Len(us) /\ First(n, us)[i] = us[i]
<1> DEFINE m == IF n < Len(us) THEN n ELSE Len(us)
<1>1. Len(us) \in Nat
  BY LenProperties
<1>2. m \in Nat /\ m \in 1 - 1 .. Len(us) /\ m <= Len(us)
  BY <1>1
<1>3. First(n, us) = SubSeq(us, 1, m)
  BY DEF First
<1> HIDE DEF m
<1>4. SubSeq(us, 1, m) \in Seq(S) /\ Len(SubSeq(us, 1, m)) = m
      /\ \A i \in 1..m : SubSeq(us, 1, m)[i] = us[i]
  BY <1>1, <1>2, SubSeqProperties
<1>5. \A i \in 1..m : i \in 1 .. Len(us)
  BY <1>1, <1>2
<1>6. First(n, us) \in Seq(S) /\ Len(First(n, us)) = m
      /\ \A i \in 1..m : First(n, us)[i] = us[i]
  BY <1>3, <1>4
<1> QED
  BY <1>5, <1>6 DEF m

LEMMA RowsAreMessages == Rows \in SUBSET Messages
  BY DEF Rows

LEMMA VictimsAreRows ==
    ASSUME NEW call \in Calls
    PROVE  Victims(call) \in Seq(Rows)
<1>1. <<>> \in Seq(Rows)
  OBVIOUS
<1>2. CASE call[1] = "delete"
  <2>1. Victims(call) = IF call[2] \in Rows THEN <<call[2]>> ELSE <<>>
    BY <1>2 DEF Victims
  <2> QED
    BY <1>1, <2>1
<1>3. CASE call[1] = "deleteMany"
  <2>1. Victims(call) = Ruled(call[2]) /\ call[2] \in Rules
    BY <1>3 DEF Victims, Calls
  <2>2. PICK rule \in Rules : call[2] = rule
    BY <2>1
  <2>3. rule.old \in BOOLEAN /\ (rule.by = "count" => rule.limit \in Nat)
    <3>1. CASE rule \in [by : {"count"}, old : BOOLEAN, limit : Counts]
      BY <3>1, HistoryAssumption
    <3>2. CASE rule \in [by : {"age"}, old : BOOLEAN, limit : Limits]
      BY <3>2
    <3> QED
      BY <3>1, <3>2 DEF Rules
  <2>4. PICK old \in BOOLEAN : old = rule.old
    BY <2>3
  <2>5. CASE rule.by = "count"
    <3>1. PICK n \in Nat : n = rule.limit
      BY <2>3, <2>5
    <3>2. Ruled(rule) = First(n, InOrder(Rows, old))
      BY <2>4, <2>5, <3>1 DEF Ruled
    <3>3. InOrder(Rows, old) \in Seq(Rows)
      BY RowsAreMessages, InOrderIsSequence
    <3> QED
      BY <2>1, <2>2, <3>2, <3>3, FirstIsSequence
  <2>6. CASE rule.by # "count"
    <3> DEFINE us == {u \in Rows : Fits(u, rule)}
    <3>1. us \in SUBSET Messages /\ us \subseteq Rows
      BY RowsAreMessages
    <3>2. Ruled(rule) = InOrder(us, old)
      BY <2>4, <2>6 DEF Ruled
    <3> HIDE DEF us
    <3>3. InOrder(us, old) \in Seq(us)
      BY <3>1, InOrderIsSequence
    <3>4. Seq(us) \subseteq Seq(Rows)
      BY <3>1, SeqMonotonic
    <3> QED
      BY <2>1, <2>2, <3>2, <3>3, <3>4
  <2> QED
    BY <2>5, <2>6
<1>4. CASE call[1] # "delete" /\ call[1] # "deleteMany"
  BY <1>1, <1>4 DEF Victims
<1> QED
  BY <1>2, <1>3, <1>4

-----------------------------------------------------------------------------
(* The steps of a call on the disk.                                        *)

PartsSet == {"standard", "thumbnail"}

Media(u) == {File(u, p) : p \in ToSet(Parts(u))} \cup {Entry(u, p) : p \in ToSet(Parts(u))}

AllMedia(u) == {File(u, p) : p \in PartsSet} \cup {Entry(u, p) : p \in PartsSet}

LEMMA FactsDiffer ==
    /\ \A u, v, p : File(u, p) # Row(v) /\ Entry(u, p) # Row(v)
    /\ \A u, v, p, q : File(u, p) # Entry(v, q)
    /\ \A u, v, p, q : File(u, p) = File(v, q) => u = v /\ p = q
    /\ \A u, v, p, q : Entry(u, p) = Entry(v, q) => u = v /\ p = q
    /\ \A u, v : Row(u) = Row(v) => u = v
  BY DEF File, Entry, Row

LEMMA MediaDiffer ==
    /\ \A u, v : Row(v) \notin AllMedia(u)
    /\ \A u, v : u # v => AllMedia(u) \cap AllMedia(v) = {}
<1>1. \A u, v : Row(v) \notin AllMedia(u)
  BY FactsDiffer DEF AllMedia
<1>2. ASSUME NEW u, NEW v, NEW x, x \in AllMedia(u), x \in AllMedia(v)
      PROVE  u = v
  <2>1. \E p \in PartsSet : x = File(u, p) \/ x = Entry(u, p)
    BY <1>2 DEF AllMedia
  <2>2. \E p \in PartsSet : x = File(v, p) \/ x = Entry(v, p)
    BY <1>2 DEF AllMedia
  <2> QED
    BY <2>1, <2>2, FactsDiffer
<1> QED
  BY <1>1, <1>2

LEMMA PartsOfKinds ==
    ASSUME NEW u \in Messages
    PROVE  \/ Parts(u) = <<>>
           \/ Parts(u) = <<"standard">>
           \/ Parts(u) = <<"standard", "thumbnail">>
<1>1. Kind[u] \in {"text", "image", "file"}
  BY HistoryAssumption
<1>2. CASE Kind[u] = "text"
  BY <1>2 DEF Parts
<1>3. CASE Kind[u] = "image"
  BY <1>3 DEF Parts
<1>4. CASE Kind[u] = "file"
  BY <1>4 DEF Parts
<1> QED
  BY <1>1, <1>2, <1>3, <1>4

LEMMA PartsAreFew ==
    ASSUME NEW u \in Messages
    PROVE  /\ Parts(u) \in Seq(PartsSet)
           /\ Len(Parts(u)) \in 0..2
           /\ ToSet(Parts(u)) \subseteq PartsSet
           /\ Media(u) \subseteq AllMedia(u)
<1>1. Parts(u) \in Seq(PartsSet) /\ Len(Parts(u)) \in 0..2
  <2>1. CASE Parts(u) = <<>>
    BY <2>1
  <2>2. CASE Parts(u) = <<"standard">>
    <3>1. <<"standard">> \in Seq(PartsSet) /\ Len(<<"standard">>) = 1
      BY DEF PartsSet
    <3> QED
      BY <2>2, <3>1
  <2>3. CASE Parts(u) = <<"standard", "thumbnail">>
    <3>1. <<"standard", "thumbnail">> \in Seq(PartsSet) /\ Len(<<"standard", "thumbnail">>) = 2
      BY DEF PartsSet
    <3> QED
      BY <2>3, <3>1
  <2> QED
    BY <2>1, <2>2, <2>3, PartsOfKinds
<1>2. ToSet(Parts(u)) \subseteq PartsSet
  BY <1>1, ElementOfSeq, LenProperties DEF ToSet
<1>3. Media(u) \subseteq AllMedia(u)
  BY <1>2 DEF Media, AllMedia
<1> QED
  BY <1>1, <1>2, <1>3

(* A store adds the media, one file or entry after the other, and then the *)
(* row.                                                                    *)
StoresSteps(u, effects) ==
    /\ effects \in Seq([adds : SUBSET (AllMedia(u) \cup {Row(u)}), removes : {{}}])
    /\ \A i \in 1 .. Len(effects) : i < Len(effects) => Row(u) \notin effects[i].adds
    /\ \A x \in Media(u) \cup {Row(u)} : \E i \in 1 .. Len(effects) : x \in effects[i].adds

LEMMA StoreSteps ==
    ASSUME NEW u \in Messages
    PROVE  StoresSteps(u, StoreEffects(u))
<1> DEFINE n  == Len(Parts(u))
           E  == [adds : SUBSET (AllMedia(u) \cup {Row(u)}), removes : {{}}]
           ms == InsertMediaItems(u)
           r  == Adds({Row(u)})
           e  == StoreEffects(u)
<1>1. n \in 0..2 /\ ToSet(Parts(u)) \subseteq PartsSet
  BY PartsAreFew
<1>2. ms = [i \in 1 .. 2 * n |->
              Adds({IF i % 2 = 1 THEN File(u, Parts(u)[(i + 1) \div 2]) ELSE Entry(u, Parts(u)[(i + 1) \div 2])})]
  BY DEF InsertMediaItems
<1>3. \A i \in 1 .. 2 * n : /\ (i + 1) \div 2 \in 1..n
                            /\ Parts(u)[(i + 1) \div 2] \in PartsSet
  <2> TAKE i \in 1 .. 2 * n
  <2>1. (i + 1) \div 2 \in 1..n
    <3> HIDE DEF n
    <3> QED
      BY <1>1
  <2>2. Parts(u)[(i + 1) \div 2] \in ToSet(Parts(u))
    BY <2>1, PartsAreFew, LenProperties DEF ToSet
  <2> QED
    BY <1>1, <2>1, <2>2
<1>4. \A i \in 1 .. 2 * n : ms[i] \in E /\ Row(u) \notin ms[i].adds
  <2> TAKE i \in 1 .. 2 * n
  <2> DEFINE p == Parts(u)[(i + 1) \div 2]
             x == IF i % 2 = 1 THEN File(u, p) ELSE Entry(u, p)
  <2>1. ms[i] = Adds({x})
    BY <1>2
  <2>2. x \in AllMedia(u)
    BY <1>3 DEF AllMedia
  <2> HIDE DEF x, ms
  <2> QED
    BY <2>1, <2>2, MediaDiffer DEF Adds
<1>5. ms \in [1 .. 2 * n -> E] /\ 2 * n \in Nat
  BY <1>1, <1>2, <1>4
<1>6. ms \in Seq(E) /\ Len(ms) = 2 * n
  <2> HIDE DEF ms, n, E
  <2> QED
    BY <1>5, LenOfFunction
<1>7. r \in E /\ r.adds = {Row(u)}
  BY DEF Adds
<1>8. e = Append(ms, r)
  <2>1. e = ms \o <<r>>
    BY DEF StoreEffects
  <2> HIDE DEF ms, r, e, E
  <2> QED
    BY <1>6, <1>7, <2>1, AppendIsConcat
<1>9. /\ e \in Seq(E) /\ Len(e) = 2 * n + 1
      /\ \A i \in 1 .. 2 * n : e[i] = ms[i]
      /\ e[2 * n + 1] = r
  <2> HIDE DEF ms, r, e, E
  <2> QED
    BY <1>6, <1>7, <1>8, AppendProperties
<1>10. \A i \in 1 .. Len(e) : i < Len(e) => Row(u) \notin e[i].adds
  <2> HIDE DEF ms, r, e, E, n
  <2> QED
    BY <1>1, <1>4, <1>9
<1>11. \A x \in Media(u) \cup {Row(u)} : \E i \in 1 .. Len(e) : x \in e[i].adds
  <2>1. Row(u) \in e[2 * n + 1].adds /\ 2 * n + 1 \in 1 .. Len(e)
    <3> HIDE DEF n, r, e, ms
    <3>1. n \in Nat /\ e[2 * n + 1] = r /\ Len(e) = 2 * n + 1
      BY <1>1, <1>9
    <3> QED
      BY <1>7, <3>1
  <2>2. ASSUME NEW j \in 1..n
        PROVE  /\ \E i \in 1 .. Len(e) : File(u, Parts(u)[j]) \in e[i].adds
               /\ \E i \in 1 .. Len(e) : Entry(u, Parts(u)[j]) \in e[i].adds
    <3>1. /\ 2 * j - 1 \in 1 .. 2 * n /\ 2 * j \in 1 .. 2 * n
          /\ (2 * j - 1) % 2 = 1 /\ (2 * j) % 2 # 1
          /\ (2 * j - 1 + 1) \div 2 = j /\ (2 * j + 1) \div 2 = j
      <4> HIDE DEF n
      <4> QED
        BY <1>1
    <3>2. ms[2 * j - 1] = Adds({File(u, Parts(u)[j])}) /\ ms[2 * j] = Adds({Entry(u, Parts(u)[j])})
      BY <1>2, <3>1
    <3>3. e[2 * j - 1] = ms[2 * j - 1] /\ e[2 * j] = ms[2 * j]
      BY <1>9, <3>1
    <3>4. 2 * j - 1 \in 1 .. Len(e) /\ 2 * j \in 1 .. Len(e)
      BY <1>9, <3>1
    <3> HIDE DEF ms, e
    <3> QED
      BY <3>2, <3>3, <3>4 DEF Adds
  <2>3. \A p \in ToSet(Parts(u)) : \E j \in 1..n : p = Parts(u)[j]
    BY PartsAreFew, LenProperties DEF ToSet
  <2> HIDE DEF e
  <2>4. ASSUME NEW x \in Media(u)
        PROVE  \E i \in 1 .. Len(e) : x \in e[i].adds
    <3>1. PICK p \in ToSet(Parts(u)) : x = File(u, p) \/ x = Entry(u, p)
      BY <2>4 DEF Media
    <3> QED
      BY <2>2, <2>3, <3>1
  <2> QED
    BY <2>1, <2>4
<1> QED
  BY <1>9, <1>10, <1>11 DEF StoresSteps

(* A deletion removes the media of some messages, file by file, and with   *)
(* the last step their rows.                                               *)
DeletesSteps(us, effects) ==
    /\ effects \in Seq([adds : {{}}, removes : SUBSET UNION {AllMedia(u) \cup {Row(u)} : u \in us}])
    /\ \A i \in 1 .. Len(effects) : i < Len(effects) => \A u \in us : Row(u) \notin effects[i].removes
    /\ \A u \in us : \A x \in AllMedia(u) \cup {Row(u)} :
          \E i \in 1 .. Len(effects) : x \in effects[i].removes

LEMMA DeleteSteps ==
    ASSUME NEW u \in Messages
    PROVE  DeletesSteps({u}, DeleteMessage(u))
<1> DEFINE E == [adds : {{}}, removes : SUBSET UNION {AllMedia(v) \cup {Row(v)} : v \in {u}}]
           a == Removes({File(u, "standard")})
           b == Removes({File(u, "thumbnail")})
           c == Removes(Entries(u))
           d == Removes({Row(u)})
           e == DeleteMessage(u)
<1>1. /\ a \in E /\ a.removes = {File(u, "standard")}
      /\ b \in E /\ b.removes = {File(u, "thumbnail")}
      /\ c \in E /\ c.removes = {Entry(u, "standard"), Entry(u, "thumbnail")}
      /\ d \in E /\ d.removes = {Row(u)}
  BY DEF Removes, Entries, AllMedia, PartsSet
<1>2. e = <<a, b>> \o <<c, d>>
  BY DEF DeleteMessage, RemoveFiles
<1> HIDE DEF a, b, c, d, E
<1>3. /\ <<a, b>> \in Seq(E) /\ Len(<<a, b>>) = 2 /\ <<c, d>> \in Seq(E) /\ Len(<<c, d>>) = 2
      /\ <<a, b>>[1] = a /\ <<a, b>>[2] = b /\ <<c, d>>[1] = c /\ <<c, d>>[2] = d
  BY <1>1
<1>4. /\ e \in Seq(E) /\ Len(e) = 4
      /\ e[1] = a /\ e[2] = b /\ e[3] = c /\ e[4] = d
  <2>1. PICK s \in Seq(E), t \in Seq(E) : s = <<a, b>> /\ t = <<c, d>>
    BY <1>3
  <2>2. Len(s) = 2 /\ Len(t) = 2 /\ s[1] = a /\ s[2] = b /\ t[1] = c /\ t[2] = d
    BY <1>3, <2>1
  <2>3. /\ s \o t \in Seq(E) /\ Len(s \o t) = Len(s) + Len(t)
        /\ \A i \in 1 .. Len(s) + Len(t) : (s \o t)[i] = IF i <= Len(s) THEN s[i] ELSE t[i - Len(s)]
    BY ConcatProperties
  <2>4. e = s \o t
    BY <1>2, <2>1
  <2> QED
    BY <2>2, <2>3, <2>4
<1> HIDE DEF e
<1>5. /\ Row(u) # File(u, "standard") /\ Row(u) # File(u, "thumbnail")
      /\ Row(u) # Entry(u, "standard") /\ Row(u) # Entry(u, "thumbnail")
  BY FactsDiffer
<1>6. \A i \in 1..4 : i < 4 => i = 1 \/ i = 2 \/ i = 3
  OBVIOUS
<1>7. \A i \in 1 .. Len(e) : i < Len(e) => \A v \in {u} : Row(v) \notin e[i].removes
  BY <1>1, <1>4, <1>5, <1>6
<1>8. \A x \in AllMedia(u) \cup {Row(u)} :
         \/ x \in {File(u, "standard"), File(u, "thumbnail"), Entry(u, "standard"), Entry(u, "thumbnail")}
         \/ x = Row(u)
  BY DEF AllMedia, PartsSet
<1>9. 1 \in 1 .. Len(e) /\ 2 \in 1 .. Len(e) /\ 3 \in 1 .. Len(e) /\ 4 \in 1 .. Len(e)
  BY <1>4
<1>10. \A x \in AllMedia(u) \cup {Row(u)} : \E i \in 1 .. Len(e) : x \in e[i].removes
  BY <1>1, <1>4, <1>8, <1>9
<1> QED
  BY <1>4, <1>7, <1>10 DEF DeletesSteps, E, e

LEMMA DeletionSteps ==
    ASSUME NEW us \in Seq(Messages)
    PROVE  DeletesSteps(ToSet(us), DeletionHelper(us))
<1> DEFINE n  == Len(us)
           V  == ToSet(us)
           E  == [adds : {{}}, removes : SUBSET UNION {AllMedia(u) \cup {Row(u)} : u \in V}]
           ms == [i \in 1 .. 2 * n |-> RemoveFiles(us[(i + 1) \div 2])[2 - (i % 2)]]
           r  == Removes(UNION {Entries(u) \cup {Row(u)} : u \in V})
           e  == DeletionHelper(us)
<1>1. n \in Nat
  BY LenProperties
<1>2. \A j \in 1..n : us[j] \in V
  BY LenProperties DEF ToSet
<1>3. \A u \in V : \E j \in 1..n : u = us[j]
  BY LenProperties DEF ToSet
<1>4. \A u : /\ RemoveFiles(u)[1] = Removes({File(u, "standard")})
             /\ RemoveFiles(u)[2] = Removes({File(u, "thumbnail")})
  BY DEF RemoveFiles
<1>5. \A i \in 1 .. 2 * n : /\ (i + 1) \div 2 \in 1..n
                            /\ 2 - (i % 2) = 1 \/ 2 - (i % 2) = 2
  <2> HIDE DEF n
  <2> QED
    BY <1>1
<1>6. \A i \in 1 .. 2 * n : ms[i] \in E /\ \A u \in V : Row(u) \notin ms[i].removes
  <2> TAKE i \in 1 .. 2 * n
  <2> DEFINE v == us[(i + 1) \div 2]
  <2>1. v \in V
    BY <1>2, <1>5
  <2>2. ms[i] = RemoveFiles(v)[2 - (i % 2)]
    OBVIOUS
  <2>3. \E p \in PartsSet : ms[i] = Removes({File(v, p)})
    BY <1>4, <1>5, <2>2 DEF PartsSet
  <2> HIDE DEF ms, v, E
  <2>4. PICK p \in PartsSet : ms[i] = Removes({File(v, p)})
    BY <2>3
  <2>5. File(v, p) \in AllMedia(v)
    BY DEF AllMedia
  <2>6. ms[i].adds = {} /\ ms[i].removes = {File(v, p)}
    BY <2>4 DEF Removes
  <2>7. {File(v, p)} \in SUBSET UNION {AllMedia(u) \cup {Row(u)} : u \in V}
    BY <2>1, <2>5
  <2>8. ms[i] \in E
    BY <2>4, <2>7 DEF Removes, E
  <2>9. \A u \in V : Row(u) # File(v, p)
    BY FactsDiffer
  <2> QED
    BY <2>6, <2>8, <2>9
<1>7. ms \in [1 .. 2 * n -> E] /\ 2 * n \in Nat
  <2>1. ms \in [1 .. 2 * n -> E]
    <3> HIDE DEF E, n
    <3> QED
      BY <1>6
  <2>2. 2 * n \in Nat
    <3> HIDE DEF n
    <3> QED
      BY <1>1
  <2> QED
    BY <2>1, <2>2
<1>8. ms \in Seq(E) /\ Len(ms) = 2 * n
  <2> HIDE DEF ms, n, E
  <2> QED
    BY <1>7, LenOfFunction
<1>9. /\ r \in E
      /\ \A u \in V : Row(u) \in r.removes /\ \A p \in PartsSet : Entry(u, p) \in r.removes
  <2>1. \A u \in V : Entries(u) = {Entry(u, p) : p \in PartsSet}
    BY DEF Entries, PartsSet
  <2> DEFINE R == UNION {Entries(u) \cup {Row(u)} : u \in V}
  <2>2. \A u \in V : Row(u) \in R /\ \A p \in PartsSet : Entry(u, p) \in R
    BY <2>1
  <2>3. R \in SUBSET UNION {AllMedia(u) \cup {Row(u)} : u \in V}
    <3> SUFFICES ASSUME NEW x \in R
                 PROVE  \E u \in V : x \in AllMedia(u) \cup {Row(u)}
      OBVIOUS
    <3>1. PICK u \in V : x \in Entries(u) \cup {Row(u)}
      OBVIOUS
    <3> QED
      BY <2>1, <3>1 DEF AllMedia
  <2>4. r = [adds |-> {}, removes |-> R]
    BY DEF Removes
  <2> HIDE DEF R, r
  <2> QED
    BY <2>2, <2>3, <2>4
<1>10. e = Append(ms, r)
  <2>1. e = ms \o <<r>>
    BY DEF DeletionHelper
  <2> HIDE DEF ms, r, e, E
  <2> QED
    BY <1>8, <1>9, <2>1, AppendIsConcat
<1>11. /\ e \in Seq(E) /\ Len(e) = 2 * n + 1
       /\ \A i \in 1 .. 2 * n : e[i] = ms[i]
       /\ e[2 * n + 1] = r
  <2> HIDE DEF ms, r, e, E
  <2> QED
    BY <1>8, <1>9, <1>10, AppendProperties
<1>12. \A i \in 1 .. Len(e) : i < Len(e) => \A u \in V : Row(u) \notin e[i].removes
  <2> HIDE DEF ms, r, e, E, n, V
  <2> QED
    BY <1>1, <1>6, <1>11
<1>13. ASSUME NEW u \in V, NEW x \in AllMedia(u) \cup {Row(u)}
       PROVE  \E i \in 1 .. Len(e) : x \in e[i].removes
  <2>1. 2 * n + 1 \in 1 .. Len(e) /\ e[2 * n + 1] = r
    <3> HIDE DEF n, r, e, ms, E
    <3> QED
      BY <1>1, <1>11
  <2>2. CASE x = Row(u) \/ \E p \in PartsSet : x = Entry(u, p)
    <3> HIDE DEF r, e, n
    <3> QED
      BY <1>9, <2>1, <2>2
  <2>3. CASE \E p \in PartsSet : x = File(u, p)
    <3>1. PICK j \in 1..n : u = us[j]
      BY <1>3
    <3>2. /\ 2 * j - 1 \in 1 .. 2 * n /\ 2 * j \in 1 .. 2 * n
          /\ 2 - ((2 * j - 1) % 2) = 1 /\ 2 - ((2 * j) % 2) = 2
          /\ (2 * j - 1 + 1) \div 2 = j /\ (2 * j + 1) \div 2 = j
      <4> HIDE DEF n
      <4> QED
        BY <1>1
    <3>3. ms[2 * j - 1] = Removes({File(u, "standard")}) /\ ms[2 * j] = Removes({File(u, "thumbnail")})
      BY <1>4, <3>1, <3>2
    <3>4. e[2 * j - 1] = ms[2 * j - 1] /\ e[2 * j] = ms[2 * j]
      BY <1>11, <3>2
    <3>5. 2 * j - 1 \in 1 .. Len(e) /\ 2 * j \in 1 .. Len(e)
      <4> HIDE DEF n, e, ms, r, E
      <4>1. Len(e) = 2 * n + 1 /\ n \in Nat
        BY <1>1, <1>11
      <4> QED
        BY <3>2, <4>1
    <3> HIDE DEF ms, e
    <3> QED
      BY <2>3, <3>3, <3>4, <3>5 DEF Removes, PartsSet
  <2> QED
    BY <2>2, <2>3 DEF AllMedia
<1> QED
  BY <1>11, <1>12, <1>13 DEF DeletesSteps

-----------------------------------------------------------------------------
(* MediaLiveWithTheirMessage, and the steps of a call of which a crash     *)
(* leaves a first part.                                                    *)

MediaOK(d, wanted, cut) ==
    \A u \in Messages :
        /\ Row(u) \in d /\ u \notin wanted => Media(u) \subseteq d
        /\ Row(u) \notin d /\ u \notin cut => Media(u) \cap d = {}

LEMMA MediaOKMeansLive == MediaOK(disk, asked, cutOff) <=> MediaLiveWithTheirMessage
<1>1. \A u : (\A p \in ToSet(Parts(u)) : {File(u, p), Entry(u, p)} \subseteq disk) <=> Media(u) \subseteq disk
  BY DEF Media
<1>2. \A u : (\A p \in ToSet(Parts(u)) : {File(u, p), Entry(u, p)} \cap disk = {}) <=> Media(u) \cap disk = {}
  BY DEF Media
<1>3. MediaLastAsLongAsTheirMessage
        <=> \A u \in Messages : Row(u) \in disk /\ u \notin asked => Media(u) \subseteq disk
  BY <1>1 DEF MediaLastAsLongAsTheirMessage, Rows
<1>4. NoMediaAreLeftOver
        <=> \A u \in Messages : Row(u) \notin disk /\ u \notin cutOff => Media(u) \cap disk = {}
  BY <1>2 DEF NoMediaAreLeftOver, Rows
<1> QED
  BY <1>3, <1>4 DEF MediaOK, MediaLiveWithTheirMessage

LEMMA MoreExcuses ==
    ASSUME NEW d, NEW a, NEW c, MediaOK(d, a, c), NEW b, a \subseteq b, NEW e, c \subseteq e
    PROVE  MediaOK(d, b, e)
  BY DEF MediaOK

LEMMA FirstSteps ==
    ASSUME NEW S, NEW e \in Seq(S), NEW k \in 0 .. Len(e)
    PROVE  /\ DOMAIN SubSeq(e, 1, k) = 1..k
           /\ \A i \in 1..k : i \in 1 .. Len(e) /\ SubSeq(e, 1, k)[i] = e[i]
<1>1. Len(e) \in Nat /\ k \in Nat /\ k <= Len(e)
  BY LenProperties
<1>2. /\ SubSeq(e, 1, k) \in Seq(S) /\ Len(SubSeq(e, 1, k)) = k
      /\ \A i \in 1..k : SubSeq(e, 1, k)[i] = e[i]
  BY <1>1, SubSeqProperties
<1> QED
  BY <1>1, <1>2, LenProperties

LEMMA StoresKeepMedia ==
    ASSUME NEW u \in Messages, NEW e, StoresSteps(u, e), NEW k \in 0 .. Len(e),
           NEW d, NEW a, NEW c, MediaOK(d, a, c),
           NEW c2, c \subseteq c2, k > 0 /\ k < Len(e) => u \in c2
    PROVE  MediaOK(Apply(SubSeq(e, 1, k), d), a, c2)
<1> DEFINE E == [adds : SUBSET (AllMedia(u) \cup {Row(u)}), removes : {{}}]
           f == SubSeq(e, 1, k)
           A == UNION {f[i].adds : i \in DOMAIN f}
<1>1. e \in Seq(E) /\ Len(e) \in Nat /\ \A i \in 1 .. Len(e) : e[i] \in E
  BY ElementOfSeq, LenProperties DEF StoresSteps
<1>2. DOMAIN f = 1..k /\ \A i \in 1..k : i \in 1 .. Len(e) /\ f[i] = e[i]
  <2> HIDE DEF E
  <2> QED
    BY <1>1, FirstSteps
<1>3. Apply(f, d) = d \cup A
  <2>1. \A i \in DOMAIN f : f[i].removes = {}
    BY <1>1, <1>2
  <2>2. UNION {f[i].removes : i \in DOMAIN f} = {}
    BY <2>1
  <2> QED
    BY <2>2 DEF Apply
<1>4. A \subseteq AllMedia(u) \cup {Row(u)}
  BY <1>1, <1>2
<1>5. k < Len(e) => Row(u) \notin A
  <2> SUFFICES ASSUME k < Len(e), NEW i \in 1..k
               PROVE  Row(u) \notin f[i].adds
    BY <1>2
  <2>1. i \in 1 .. Len(e) /\ i < Len(e) /\ f[i] = e[i]
    BY <1>1, <1>2
  <2> QED
    BY <2>1 DEF StoresSteps
<1>6. k = Len(e) => Media(u) \cup {Row(u)} \subseteq A
  <2> SUFFICES ASSUME k = Len(e), NEW x \in Media(u) \cup {Row(u)}
               PROVE  x \in A
    OBVIOUS
  <2>1. PICK i \in 1 .. Len(e) : x \in e[i].adds
    BY DEF StoresSteps
  <2> QED
    BY <1>2, <2>1
<1>7. k = 0 => A = {}
  BY <1>2
<1>8. k = 0 \/ k = Len(e) \/ (k > 0 /\ k < Len(e))
  BY <1>1
<1> HIDE DEF f, A
<1>9. ASSUME NEW v \in Messages, v # u
      PROVE  /\ Row(v) \in d \cup A <=> Row(v) \in d
             /\ Media(v) \cap A = {}
  <2>1. Row(v) \notin AllMedia(u) /\ Row(v) # Row(u)
    BY <1>9, MediaDiffer, FactsDiffer
  <2>2. Media(v) \subseteq AllMedia(v) /\ AllMedia(v) \cap AllMedia(u) = {} /\ Row(u) \notin AllMedia(v)
    BY <1>9, MediaDiffer, PartsAreFew
  <2> QED
    BY <1>4, <2>1, <2>2
<1>10. ASSUME NEW v \in Messages, v # u
       PROVE  /\ Row(v) \in d \cup A /\ v \notin a => Media(v) \subseteq d \cup A
              /\ Row(v) \notin d \cup A /\ v \notin c2 => Media(v) \cap (d \cup A) = {}
  BY <1>9, <1>10 DEF MediaOK
<1>11. Row(u) \in d \cup A /\ u \notin a => Media(u) \subseteq d \cup A
  BY <1>5, <1>6, <1>7, <1>8 DEF MediaOK
<1>12. Row(u) \notin d \cup A /\ u \notin c2 => Media(u) \cap (d \cup A) = {}
  BY <1>5, <1>6, <1>7, <1>8 DEF MediaOK
<1> QED
  BY <1>3, <1>10, <1>11, <1>12 DEF MediaOK, f

LEMMA DeletesKeepMedia ==
    ASSUME NEW us \in SUBSET Messages, NEW e, DeletesSteps(us, e), NEW k \in 0 .. Len(e),
           NEW d, NEW a, NEW c, MediaOK(d, a, c),
           NEW a2, a \subseteq a2, k > 0 => us \subseteq a2
    PROVE  MediaOK(Apply(SubSeq(e, 1, k), d), a2, c)
<1> DEFINE E == [adds : {{}}, removes : SUBSET UNION {AllMedia(u) \cup {Row(u)} : u \in us}]
           f == SubSeq(e, 1, k)
           R == UNION {f[i].removes : i \in DOMAIN f}
<1>1. e \in Seq(E) /\ Len(e) \in Nat /\ \A i \in 1 .. Len(e) : e[i] \in E
  BY ElementOfSeq, LenProperties DEF DeletesSteps
<1>2. DOMAIN f = 1..k /\ \A i \in 1..k : i \in 1 .. Len(e) /\ f[i] = e[i]
  <2> HIDE DEF E
  <2> QED
    BY <1>1, FirstSteps
<1>3. Apply(f, d) = d \ R
  <2>1. \A i \in DOMAIN f : f[i].adds = {}
    BY <1>1, <1>2
  <2>2. UNION {f[i].adds : i \in DOMAIN f} = {}
    BY <2>1
  <2> QED
    BY <2>2 DEF Apply
<1>4. R \subseteq UNION {AllMedia(u) \cup {Row(u)} : u \in us}
  BY <1>1, <1>2
<1>5. ASSUME k < Len(e), NEW u \in us
      PROVE  Row(u) \notin R
  <2> SUFFICES ASSUME NEW i \in 1..k
               PROVE  Row(u) \notin f[i].removes
    BY <1>2
  <2>1. i \in 1 .. Len(e) /\ i < Len(e) /\ f[i] = e[i]
    BY <1>1, <1>2, <1>5
  <2> QED
    BY <2>1 DEF DeletesSteps
<1>6. ASSUME k = Len(e), NEW u \in us
      PROVE  AllMedia(u) \subseteq R
  <2> SUFFICES ASSUME NEW x \in AllMedia(u)
               PROVE  x \in R
    OBVIOUS
  <2>1. PICK i \in 1 .. Len(e) : x \in e[i].removes
    BY DEF DeletesSteps
  <2> QED
    BY <1>2, <1>6, <2>1
<1>7. k = 0 => R = {}
  BY <1>2
<1>8. k = 0 \/ k > 0
  BY <1>1
<1>9. k < Len(e) \/ k = Len(e)
  BY <1>1
<1> HIDE DEF f, R
<1>10. ASSUME NEW v \in Messages, v \notin us
      PROVE  Row(v) \notin R /\ Media(v) \cap R = {}
  <2>1. \A u \in us : Row(v) \notin AllMedia(u) /\ Row(v) # Row(u)
    BY <1>10, MediaDiffer, FactsDiffer
  <2>2. \A u \in us : AllMedia(v) \cap AllMedia(u) = {} /\ Row(u) \notin AllMedia(v)
    BY <1>10, MediaDiffer
  <2>3. Media(v) \subseteq AllMedia(v)
    BY PartsAreFew
  <2> QED
    BY <1>4, <2>1, <2>2, <2>3
<1>11. ASSUME NEW v \in Messages, v \notin us
       PROVE  /\ Row(v) \in d \ R /\ v \notin a2 => Media(v) \subseteq d \ R
              /\ Row(v) \notin d \ R /\ v \notin c => Media(v) \cap (d \ R) = {}
  BY <1>10, <1>11 DEF MediaOK
<1>12. ASSUME NEW v \in us
       PROVE  Row(v) \in d \ R /\ v \notin a2 => Media(v) \subseteq d \ R
  BY <1>7, <1>8 DEF MediaOK
<1>13. ASSUME NEW v \in us
       PROVE  Row(v) \notin d \ R /\ v \notin c => Media(v) \cap (d \ R) = {}
  <2>1. Media(v) \subseteq AllMedia(v)
    BY PartsAreFew
  <2> QED
    BY <1>5, <1>6, <1>9, <2>1 DEF MediaOK
<1> QED
  BY <1>3, <1>11, <1>12, <1>13 DEF MediaOK, f

(* The steps of a call are those of a store or of a deletion, or none.     *)
LEMMA EffectsOfCalls ==
    ASSUME NEW call \in Calls, ~Throws(call)
    PROVE  \/ /\ call[1] = "store" /\ Victims(call) = <<>>
              /\ call[2] \in Messages /\ StoresSteps(call[2], Effects(call))
           \/ /\ call[1] \in {"delete", "deleteMany"}
              /\ DeletesSteps(ToSet(Victims(call)), Effects(call))
           \/ /\ call[1] \in {"result", "message", "last"}
              /\ Victims(call) = <<>> /\ Effects(call) = <<>>
<1>1. CASE call[1] = "store"
  <2>1. call[2] \in Messages
    BY <1>1 DEF Calls
  <2>2. Victims(call) = <<>> /\ Effects(call) = StoreEffects(call[2])
    BY <1>1 DEF Victims, Effects
  <2> QED
    BY <1>1, <2>1, <2>2, StoreSteps
<1>2. CASE call[1] = "delete"
  <2>1. call[2] \in Rows /\ call[2] \in Messages
    BY <1>2, RowsAreMessages DEF Throws
  <2>2. Victims(call) = <<call[2]>> /\ Effects(call) = DeleteMessage(call[2])
    BY <1>2, <2>1 DEF Victims, Effects
  <2>3. ToSet(<<call[2]>>) = {call[2]}
    BY DEF ToSet
  <2> QED
    BY <1>2, <2>1, <2>2, <2>3, DeleteSteps
<1>3. CASE call[1] = "deleteMany"
  <2>1. Effects(call) = DeletionHelper(Victims(call))
    BY <1>3 DEF Effects
  <2>2. Victims(call) \in Seq(Messages)
    BY VictimsAreRows, RowsAreMessages, SeqMonotonic
  <2> QED
    BY <1>3, <2>1, <2>2, DeletionSteps
<1>4. CASE call[1] \in {"result", "message", "last"}
  BY <1>4 DEF Victims, Effects
<1>5. call[1] \in {"store", "result", "delete", "message", "last", "deleteMany"}
  BY DEF Calls
<1> QED
  BY <1>1, <1>2, <1>3, <1>4, <1>5

LEMMA VictimsAreMessages ==
    ASSUME NEW call \in Calls
    PROVE  /\ ToSet(Victims(call)) \subseteq Rows
           /\ ToSet(Victims(call)) \subseteq Messages
  BY VictimsAreRows, RowsAreMessages, ElementOfSeq, LenProperties DEF ToSet

(* What a call that ends after some of its steps leaves on the disk.       *)
LEMMA CallKeepsMedia ==
    ASSUME MediaOK(disk, asked, cutOff),
           NEW call \in Calls, ~Throws(call), NEW k \in 0 .. Len(Effects(call)),
           NEW a2, asked \subseteq a2, k > 0 => ToSet(Victims(call)) \subseteq a2,
           NEW c2, cutOff \subseteq c2,
           call[1] = "store" /\ k > 0 /\ k < Len(Effects(call)) => call[2] \in c2
    PROVE  MediaOK(Apply(SubSeq(Effects(call), 1, k), disk), a2, c2)
<1> DEFINE e == Effects(call)
<1>1. CASE call[1] = "store"
  <2>1. call[2] \in Messages /\ StoresSteps(call[2], e)
    BY <1>1, EffectsOfCalls
  <2> HIDE DEF e
  <2>2. MediaOK(Apply(SubSeq(e, 1, k), disk), asked, c2)
    BY <1>1, <2>1, StoresKeepMedia DEF e
  <2> QED
    BY <2>2, MoreExcuses DEF e
<1>2. CASE call[1] \in {"delete", "deleteMany"}
  <2>1. DeletesSteps(ToSet(Victims(call)), e)
    BY <1>2, EffectsOfCalls
  <2>2. ToSet(Victims(call)) \in SUBSET Messages
    BY VictimsAreMessages
  <2> HIDE DEF e
  <2>3. MediaOK(Apply(SubSeq(e, 1, k), disk), a2, cutOff)
    BY <2>1, <2>2, DeletesKeepMedia DEF e
  <2> QED
    BY <2>3, MoreExcuses DEF e
<1>3. CASE call[1] \in {"result", "message", "last"}
  <2>1. e = <<>> /\ <<>> \in Seq({})
    BY <1>3, EffectsOfCalls
  <2>2. DOMAIN SubSeq(e, 1, k) = {}
    <3>1. Len(<<>>) = 0
      OBVIOUS
    <3>2. k \in 0 .. Len(<<>>) /\ k = 0
      BY <2>1, <3>1
    <3>3. DOMAIN SubSeq(<<>>, 1, k) = 1..k
      BY <2>1, <3>2, FirstSteps
    <3> QED
      BY <2>1, <3>2, <3>3
  <2>3. Apply(SubSeq(e, 1, k), disk) = disk
    BY <2>2 DEF Apply
  <2> QED
    BY <2>3, MoreExcuses
<1> QED
  BY <1>1, <1>2, <1>3, EffectsOfCalls

(* All its steps. *)
LEMMA ExecutedKeepsMedia ==
    ASSUME MediaOK(disk, asked, cutOff), NEW call \in Calls, ~Throws(call)
    PROVE  MediaOK(Apply(Effects(call), disk), asked \cup ToSet(Victims(call)), cutOff)
<1> DEFINE e == Effects(call)
<1>1. PICK S : e \in Seq(S)
  <2>1. <<>> \in Seq({})
    OBVIOUS
  <2> QED
    BY <2>1, EffectsOfCalls DEF StoresSteps, DeletesSteps
<1>2. Len(e) \in Nat
  BY <1>1, LenProperties
<1> HIDE DEF e
<1>3. Len(e) \in 0 .. Len(e) /\ ~(Len(e) < Len(e))
  BY <1>2
<1>4. SubSeq(e, 1, Len(e)) = e
  BY <1>1, SubSeqFull
<1>5. MediaOK(Apply(SubSeq(e, 1, Len(e)), disk), asked \cup ToSet(Victims(call)), cutOff)
  BY <1>3, CallKeepsMedia DEF e
<1> QED
  BY <1>4, <1>5 DEF e

-----------------------------------------------------------------------------
(* Types; and the window waits for at most one call at a time, the one of  *)
(* its kind in the queue.                                                  *)

Items == [uid : Messages, sent : BOOLEAN, deleted : BOOLEAN]

Busy == {"message", "add", "reload", "update"}

Guis == [at : {"idle", "list", "next"} \cup Busy, todo : Seq(Messages), sent : BOOLEAN]

MSignals == {"changed", "deleted"} \X Messages
Signals  == {"new", "changed", "deleted"} \X Messages

Blocks(call) == call[1] \in {"last", "message"}

(* What the window waits for in a queue q with the state g of its thread.  *)
WaitsFor(q, g) ==
    /\ \A i \in 1 .. Len(q) : q[i][1] = "last" => g.at = "list"
    /\ \A i \in 1 .. Len(q) : q[i][1] = "message" => g.at \in {"message", "reload"} /\ q[i][2] = Head(g.todo)
    /\ \A i, j \in 1 .. Len(q) : Blocks(q[i]) /\ Blocks(q[j]) => i = j

Queues ==
    /\ told \subseteq {"store", "result"} \X Messages
    /\ dbq \in Seq(Calls)
    /\ mcq \in Seq(MSignals)
    /\ uiq \in Seq(Signals)
    /\ known \subseteq Messages
    /\ items \in Seq(Items)
    /\ gui \in Guis
    /\ gui.at \in Busy => gui.todo # <<>>
    /\ WaitsFor(dbq, gui)
    /\ tab \in BOOLEAN /\ loadDue \in BOOLEAN
    /\ app \in {"running", "quitting", "stopped"}

queueVars == <<told, dbq, mcq, uiq, known, items, gui, tab, loadDue, app>>

LEMMA WaitingGrows ==
    ASSUME NEW q \in Seq(Calls), NEW g, WaitsFor(q, g), NEW c \in Calls, ~Blocks(c)
    PROVE  WaitsFor(Append(q, c), g)
<1> DEFINE r == Append(q, c)
<1>1. /\ Len(q) \in Nat /\ Len(r) = Len(q) + 1 /\ r[Len(q) + 1] = c
      /\ \A i \in 1 .. Len(q) : r[i] = q[i]
  BY AppendProperties, LenProperties
<1>2. c[1] # "last" /\ c[1] # "message"
  BY DEF Blocks
<1> HIDE DEF r
<1>3. \A i \in 1 .. Len(r) : (i \in 1 .. Len(q) /\ r[i] = q[i]) \/ ~Blocks(r[i])
  <2> TAKE i \in 1 .. Len(r)
  <2>1. i \in 1 .. Len(q) \/ i = Len(q) + 1
    BY <1>1
  <2> QED
    BY <1>1, <2>1
<1>4. \A i \in 1 .. Len(r) : r[i][1] = "last" \/ r[i][1] = "message" => Blocks(r[i])
  BY DEF Blocks
<1> QED
  BY <1>3, <1>4 DEF WaitsFor, r

LEMMA NobodyWaits ==
    ASSUME NEW q \in Seq(Calls), NEW g, WaitsFor(q, g), g.at \notin {"list", "message", "reload"}
    PROVE  \A i \in 1 .. Len(q) : ~Blocks(q[i])
  BY DEF WaitsFor, Blocks

LEMMA NobodyWaitsElse ==
    ASSUME NEW q \in Seq(Calls), \A i \in 1 .. Len(q) : ~Blocks(q[i]), NEW g
    PROVE  WaitsFor(q, g)
  BY DEF WaitsFor, Blocks

LEMMA WaitingStarts ==
    ASSUME NEW q \in Seq(Calls), \A i \in 1 .. Len(q) : ~Blocks(q[i]), NEW c \in Calls, NEW g,
           c[1] = "last" => g.at = "list",
           c[1] = "message" => g.at \in {"message", "reload"} /\ c[2] = Head(g.todo)
    PROVE  WaitsFor(Append(q, c), g)
<1> DEFINE r == Append(q, c)
<1>1. /\ Len(q) \in Nat /\ Len(r) = Len(q) + 1 /\ r[Len(q) + 1] = c
      /\ \A i \in 1 .. Len(q) : r[i] = q[i]
  BY AppendProperties, LenProperties
<1> HIDE DEF r
<1>2. \A i \in 1 .. Len(r) : Blocks(r[i]) => i = Len(q) + 1 /\ r[i] = c
  <2> TAKE i \in 1 .. Len(r)
  <2>1. i \in 1 .. Len(q) \/ i = Len(q) + 1
    BY <1>1
  <2> QED
    BY <1>1, <2>1
<1>3. \A i \in 1 .. Len(r) : r[i][1] = "last" \/ r[i][1] = "message" => Blocks(r[i])
  BY DEF Blocks
<1>4. \A i, j \in 1 .. Len(r) : Blocks(r[i]) /\ Blocks(r[j]) => i = j
  BY <1>2
<1>5. \A i \in 1 .. Len(r) : r[i][1] = "last" => g.at = "list"
  BY <1>2, <1>3
<1>6. \A i \in 1 .. Len(r) : r[i][1] = "message" => g.at \in {"message", "reload"} /\ r[i][2] = Head(g.todo)
  BY <1>2, <1>3
<1> QED
  BY <1>4, <1>5, <1>6 DEF WaitsFor, r

LEMMA WaitingEnds ==
    ASSUME NEW q \in Seq(Calls), q # <<>>, NEW g, WaitsFor(q, g)
    PROVE  /\ WaitsFor(Tail(q), g)
           /\ Blocks(Head(q)) => \A i \in 1 .. Len(Tail(q)) : ~Blocks(Tail(q)[i])
<1> DEFINE t == Tail(q)
<1>1. t \in Seq(Calls) /\ Len(q) \in Nat /\ Len(q) # 0 /\ Head(q) = q[1] /\ Len(t) = Len(q) - 1
  BY HeadTailProperties, LenProperties, EmptySeq
<1>2. \A i \in 1 .. Len(t) : t[i] = q[i + 1]
  BY HeadTailProperties
<1> HIDE DEF t
<1>3. \A i \in 1 .. Len(t) : i + 1 \in 1 .. Len(q) /\ i + 1 # 1 /\ t[i] = q[i + 1] /\ i \in Nat
  BY <1>1, <1>2
<1>4. 1 \in 1 .. Len(q)
  BY <1>1
<1>5. Blocks(q[1]) => \A i \in 1 .. Len(t) : ~Blocks(t[i])
  BY <1>3, <1>4 DEF WaitsFor
<1>6. \A i, j \in 1 .. Len(t) : i + 1 = j + 1 => i = j
  BY <1>3
<1>7. \A i, j \in 1 .. Len(t) : Blocks(t[i]) /\ Blocks(t[j]) => i = j
  BY <1>3, <1>6 DEF WaitsFor
<1>8. WaitsFor(t, g)
  BY <1>3, <1>7 DEF WaitsFor
<1> QED
  BY <1>1, <1>5, <1>8 DEF t

LEMMA RestingIsGui == Resting \in Guis /\ Resting.at = "idle"
<1>1. <<>> \in Seq(Messages)
  OBVIOUS
<1> QED
  BY <1>1 DEF Resting, Guis

(* The loop either comes to its end or fetches the first message that is   *)
(* not known.                                                              *)
LEMMA ShowStarts ==
    ASSUME NEW us \in Seq(Messages), Show(us)
    PROVE  \/ gui' = Resting /\ known' = known /\ dbq' = dbq /\ ToSet(us) \subseteq known
           \/ \E rest \in Seq(Messages) :
                 /\ rest # <<>> /\ Head(rest) \in Messages /\ Head(rest) \notin known
                 /\ ToSet(rest) = ToSet(us) \ known
                 /\ \E p : Picks(rest, us, {i \in DOMAIN us : us[i] \notin known}, p)
                 /\ known' = known \cup {Head(rest)}
                 /\ dbq' = Append(dbq, <<"message", Head(rest)>>)
                 /\ gui' = [at |-> "message", todo |-> rest, sent |-> FALSE]
<1> DEFINE places == {i \in DOMAIN us : us[i] \notin known}
           rest == Kept(us, places)
<1>1. places \in SUBSET DOMAIN us
  OBVIOUS
<1>2. /\ rest \in Seq(Messages) /\ ToSet(rest) = {us[i] : i \in places}
      /\ rest = <<>> <=> places = {}
      /\ \E p : Picks(rest, us, places, p)
  <2> HIDE DEF places
  <2> QED
    BY <1>1, KeptElements, KeptPicks
<1>3. {us[i] : i \in places} = ToSet(us) \ known
  BY DEF ToSet
<1>4. IF rest = <<>>
      THEN gui' = Resting /\ UNCHANGED <<known, dbq>>
      ELSE /\ known' = known \cup {Head(rest)}
           /\ dbq' = Append(dbq, <<"message", Head(rest)>>)
           /\ gui' = [at |-> "message", todo |-> rest, sent |-> FALSE]
  BY Zenon DEF Show
<1>5. CASE rest = <<>>
  <2>1. \A i \in DOMAIN us : us[i] \in known
    BY <1>2, <1>5
  <2> QED
    BY <1>4, <1>5, <2>1 DEF ToSet
<1>6. CASE rest # <<>>
  <2> HIDE DEF rest, places
  <2>1. Head(rest) = rest[1] /\ 1 \in DOMAIN rest
    BY <1>2, <1>6, HeadTailProperties, LenProperties, EmptySeq
  <2>2. Head(rest) \in ToSet(rest)
    BY <2>1 DEF ToSet
  <2>3. Head(rest) \notin known /\ Head(rest) \in Messages
    BY <1>2, <1>3, <1>6, <2>2, SeqTail
  <2> QED
    BY <1>2, <1>3, <1>4, <1>6, <2>3 DEF places
<1> QED
  BY <1>5, <1>6

LEMMA ShowKeepsQueues ==
    ASSUME Queues, NEW us \in Seq(Messages), Show(us),
           gui.at \notin {"list", "message", "reload"}
    PROVE  /\ known' \subseteq Messages
           /\ dbq' \in Seq(Calls)
           /\ gui' \in Guis
           /\ gui'.at \in Busy => gui'.todo # <<>>
           /\ WaitsFor(dbq', gui')
<1>1. known \subseteq Messages /\ dbq \in Seq(Calls) /\ WaitsFor(dbq, gui)
  BY DEF Queues
<1>2. \A i \in 1 .. Len(dbq) : ~Blocks(dbq[i])
  BY <1>1, NobodyWaits
<1>3. CASE gui' = Resting /\ known' = known /\ dbq' = dbq
  BY <1>1, <1>2, <1>3, RestingIsGui, NobodyWaitsElse DEF Busy
<1>4. CASE \E rest \in Seq(Messages) :
              /\ rest # <<>> /\ Head(rest) \in Messages
              /\ known' = known \cup {Head(rest)}
              /\ dbq' = Append(dbq, <<"message", Head(rest)>>)
              /\ gui' = [at |-> "message", todo |-> rest, sent |-> FALSE]
  <2>1. PICK rest \in Seq(Messages) :
              /\ rest # <<>> /\ Head(rest) \in Messages
              /\ known' = known \cup {Head(rest)}
              /\ dbq' = Append(dbq, <<"message", Head(rest)>>)
              /\ gui' = [at |-> "message", todo |-> rest, sent |-> FALSE]
    BY <1>4
  <2> DEFINE c == <<"message", Head(rest)>>
             g == [at |-> "message", todo |-> rest, sent |-> FALSE]
  <2>2. c \in Calls /\ c[1] = "message" /\ c[2] = Head(rest)
    BY <2>1 DEF Calls
  <2>3. g \in Guis /\ g.at = "message" /\ g.todo = rest
    BY DEF Guis, Busy
  <2>4. Append(dbq, c) \in Seq(Calls)
    BY <1>1, <2>2, SeqAppend
  <2> HIDE DEF c, g
  <2>5. WaitsFor(Append(dbq, c), g)
    BY <1>1, <1>2, <2>2, <2>3, WaitingStarts
  <2> QED
    BY <1>1, <2>1, <2>3, <2>4, <2>5 DEF c, g
<1> QED
  BY <1>3, <1>4, ShowStarts

-----------------------------------------------------------------------------
LEMMA InitQueues == Init => Queues
<1> SUFFICES ASSUME Init PROVE Queues
  OBVIOUS
<1>1. /\ <<>> \in Seq(Calls) /\ <<>> \in Seq(MSignals) /\ <<>> \in Seq(Signals) /\ <<>> \in Seq(Items)
      /\ Len(<<>>) = 0
  OBVIOUS
<1>2. WaitsFor(<<>>, Resting)
  BY <1>1 DEF WaitsFor
<1> QED
  BY <1>1, <1>2, RestingIsGui DEF Init, Queues, Busy

LEMMA StutterKeepsQueues == Queues /\ UNCHANGED queueVars => Queues'
  BY DEF Queues, queueVars

LEMMA StopKeepsQueues ==
    ASSUME Queues, Stop, told' = told
    PROVE  Queues'
<1>1. /\ <<>> \in Seq(Calls) /\ <<>> \in Seq(MSignals) /\ <<>> \in Seq(Signals) /\ <<>> \in Seq(Items)
      /\ Len(<<>>) = 0
  OBVIOUS
<1>2. WaitsFor(<<>>, Resting)
  BY <1>1 DEF WaitsFor
<1>3. dbq' = <<>> /\ gui' = Resting
  BY DEF Stop
<1>4. WaitsFor(dbq', gui') /\ gui' \in Guis /\ gui'.at \notin Busy
  BY <1>2, <1>3, RestingIsGui DEF Busy
<1>5. /\ told' = told /\ mcq' = <<>> /\ uiq' = <<>> /\ known' = {} /\ items' = <<>>
      /\ tab' = FALSE /\ loadDue' = FALSE /\ app' = "stopped"
  BY DEF Stop
<1>6. told \subseteq {"store", "result"} \X Messages
  BY DEF Queues
<1> QED
  BY <1>1, <1>3, <1>4, <1>5, <1>6 DEF Queues

(* A call that nobody waits for is posted.                                 *)
LEMMA PostKeepsQueues ==
    ASSUME Queues, NEW c \in Calls, ~Blocks(c), dbq' = Append(dbq, c),
           told' \subseteq {"store", "result"} \X Messages, items' \in Seq(Items),
           UNCHANGED <<mcq, uiq, known, gui, tab, loadDue, app>>
    PROVE  Queues'
<1>1. dbq \in Seq(Calls) /\ WaitsFor(dbq, gui)
  BY DEF Queues
<1>2. dbq' \in Seq(Calls)
  BY <1>1, SeqAppend
<1>3. WaitsFor(dbq', gui)
  BY <1>1, WaitingGrows
<1> QED
  BY <1>2, <1>3 DEF Queues

LEMMA StoreMessageKeepsQueues ==
    ASSUME Queues, NEW u \in Messages, StoreMessage(u) \/ StoreResult(u)
    PROVE  Queues'
<1>1. PICK kind \in {"store", "result"} :
         /\ told' = told \cup {<<kind, u>>} /\ dbq' = Append(dbq, <<kind, u>>)
         /\ UNCHANGED <<mcq, uiq, known, items, gui, tab, loadDue, app>>
  BY DEF StoreMessage, StoreResult, widgets
<1>2. <<kind, u>> \in Calls /\ ~Blocks(<<kind, u>>)
  BY DEF Calls, Blocks
<1>3. told' \subseteq {"store", "result"} \X Messages /\ items' \in Seq(Items)
  BY <1>1 DEF Queues
<1> QED
  BY <1>1, <1>2, <1>3, PostKeepsQueues

LEMMA LastMessagesIsSequence ==
    ASSUME NEW n \in Nat
    PROVE  LastMessages(n) \in Seq(Messages) /\ LastMessages(n) \in Seq(Rows)
<1>1. InOrder(Rows, FALSE) \in Seq(Rows)
  BY RowsAreMessages, InOrderIsSequence
<1>2. LastMessages(n) \in Seq(Rows)
  BY <1>1, FirstIsSequence DEF LastMessages
<1> QED
  BY <1>2, RowsAreMessages, SeqMonotonic

LEMMA AnnouncedKeepsTypes ==
    ASSUME Queues, NEW call \in Calls, Announced(call)
    PROVE  uiq' \in Seq(Signals) /\ mcq' \in Seq(MSignals)
<1>1. uiq \in Seq(Signals) /\ mcq \in Seq(MSignals)
  BY DEF Queues
<1>2. uiq' \in Seq(Signals)
  <2>1. CASE call[1] = "store"
    <3>1. <<"new", call[2]>> \in Signals
      BY <2>1 DEF Calls, Signals
    <3>2. uiq' = Append(uiq, <<"new", call[2]>>)
      BY <2>1 DEF Announced
    <3> QED
      BY <1>1, <3>1, <3>2, SeqAppend
  <2>2. CASE call[1] # "store"
    BY <1>1, <2>2 DEF Announced
  <2> QED
    BY <2>1, <2>2
<1>3. mcq' \in Seq(MSignals)
  <2>1. CASE call[1] = "result"
    <3>1. <<"changed", call[2]>> \in MSignals
      BY <2>1 DEF Calls, MSignals
    <3>2. mcq' = mcq \o <<<<"changed", call[2]>>>>
      BY <2>1 DEF Announced
    <3>3. <<<<"changed", call[2]>>>> \in Seq(MSignals)
      BY <3>1
    <3> QED
      BY <1>1, <3>2, <3>3, SeqConcat
  <2>2. CASE call[1] # "result"
    <3> DEFINE vs == Victims(call)
               ss == [i \in DOMAIN vs |-> <<"deleted", vs[i]>>]
    <3>1. mcq' = mcq \o ss
      BY <2>2 DEF Announced
    <3>2. vs \in Seq(Messages)
      BY VictimsAreRows, RowsAreMessages, SeqMonotonic
    <3> HIDE DEF vs
    <3>3. DOMAIN vs = 1 .. Len(vs) /\ Len(vs) \in Nat /\ \A i \in DOMAIN vs : vs[i] \in Messages
      BY <3>2, LenProperties, ElementOfSeq
    <3>4. ss \in [1 .. Len(vs) -> MSignals]
      BY <3>3 DEF MSignals
    <3> HIDE DEF ss
    <3>5. ss \in Seq(MSignals)
      BY <3>3, <3>4, SeqOfFunction
    <3> QED
      BY <1>1, <3>1, <3>5, SeqConcat
  <2> QED
    BY <2>1, <2>2
<1> QED
  BY <1>2, <1>3

LEMMA ExecuteCallKeepsQueues == Queues /\ ExecuteCall => Queues'
<1> SUFFICES ASSUME Queues, ExecuteCall PROVE Queues'
  OBVIOUS
<1> DEFINE call == Head(dbq)
<1>1. /\ dbq \in Seq(Calls) /\ dbq # <<>> /\ told' = told
      /\ WaitsFor(dbq, gui) /\ gui \in Guis
  BY DEF Queues, ExecuteCall
<1>2. call \in Calls /\ Tail(dbq) \in Seq(Calls)
  BY <1>1, SeqTail
<1>3. /\ WaitsFor(Tail(dbq), gui)
      /\ Blocks(call) => \A i \in 1 .. Len(Tail(dbq)) : ~Blocks(Tail(dbq)[i])
  BY <1>1, WaitingEnds
<1>4. 1 \in 1 .. Len(dbq) /\ call = dbq[1]
  BY <1>1, HeadTailProperties, LenProperties, EmptySeq
<1>5. \/ /\ ~Throws(call) /\ Executed(call) /\ Announced(call) /\ Answered(call)
         /\ dbq' = Tail(dbq) /\ UNCHANGED <<app, widgets>>
      \/ /\ Throws(call) /\ call[1] # "message"
         /\ dbq' = Tail(dbq) /\ app' = "quitting"
         /\ UNCHANGED <<mcq, uiq, widgets, gui>>
      \/ Stop
  BY DEF ExecuteCall
<1> HIDE DEF call
<1>6. CASE /\ ~Throws(call) /\ Executed(call) /\ Announced(call) /\ Answered(call)
           /\ dbq' = Tail(dbq) /\ UNCHANGED <<app, widgets>>
  <2>1. uiq' \in Seq(Signals) /\ mcq' \in Seq(MSignals)
    BY <1>2, <1>6, AnnouncedKeepsTypes
  <2>2. gui' \in Guis /\ (gui'.at \in Busy => gui'.todo # <<>>) /\ WaitsFor(Tail(dbq), gui')
    <3>1. CASE call[1] = "last"
      <4>1. PICK n \in Nat : n = call[2]
        BY <1>2, <3>1 DEF Calls
      <4>2. gui' = [gui EXCEPT !.at = "next", !.todo = LastMessages(n)]
        BY <1>6, <3>1, <4>1 DEF Answered
      <4>3. LastMessages(n) \in Seq(Messages)
        BY LastMessagesIsSequence
      <4>4. gui' \in Guis /\ gui'.at = "next"
        BY <1>1, <4>2, <4>3 DEF Guis
      <4>5. WaitsFor(Tail(dbq), gui')
        BY <1>2, <1>3, <3>1, NobodyWaitsElse DEF Blocks
      <4> QED
        BY <4>4, <4>5 DEF Busy
    <3>2. CASE call[1] = "message"
      <4>1. gui.at \in {"message", "reload"}
        BY <1>1, <1>4, <3>2 DEF WaitsFor
      <4>2. gui' = [gui EXCEPT !.at = IF gui.at = "message" THEN "add" ELSE "update", !.sent = call[2] \in sent]
        BY <1>6, <3>2 DEF Answered
      <4>3. gui.todo # <<>>
        BY <4>1 DEF Queues, Busy
      <4>4. (call[2] \in sent) \in BOOLEAN
        OBVIOUS
      <4>5. PICK a \in {"add", "update"}, b \in BOOLEAN : gui' = [gui EXCEPT !.at = a, !.sent = b]
        BY <4>2, <4>4
      <4>6. gui' \in Guis /\ gui'.todo = gui.todo
        BY <1>1, <4>5 DEF Guis, Busy
      <4>7. WaitsFor(Tail(dbq), gui')
        BY <1>2, <1>3, <3>2, NobodyWaitsElse DEF Blocks
      <4> QED
        BY <4>3, <4>6, <4>7
    <3>3. CASE call[1] # "last" /\ call[1] # "message"
      <4>1. gui' = gui
        BY <1>6, <3>3 DEF Answered
      <4> QED
        BY <1>3, <4>1 DEF Queues
    <3> QED
      BY <3>1, <3>2, <3>3
  <2> QED
    BY <1>1, <1>2, <1>6, <2>1, <2>2 DEF Queues, widgets
<1>7. CASE /\ Throws(call) /\ call[1] # "message"
           /\ dbq' = Tail(dbq) /\ app' = "quitting"
           /\ UNCHANGED <<mcq, uiq, widgets, gui>>
  BY <1>1, <1>2, <1>3, <1>7 DEF Queues, widgets
<1>8. CASE Stop
  BY <1>1, <1>8, StopKeepsQueues
<1> QED
  BY <1>5, <1>6, <1>7, <1>8

LEMMA InsertAtElements ==
    ASSUME NEW S, NEW s \in Seq(S), NEW i \in 1 .. Len(s) + 1, NEW e \in S
    PROVE  /\ InsertAt(s, i, e) \in Seq(S)
           /\ Len(InsertAt(s, i, e)) = Len(s) + 1
           /\ \A j \in 1 .. Len(s) + 1 :
                 InsertAt(s, i, e)[j] = IF j < i THEN s[j] ELSE IF j = i THEN e ELSE s[j - 1]
<1> DEFINE a == SubSeq(s, 1, i - 1)
           b == <<e>>
           c == SubSeq(s, i, Len(s))
<1>1. Len(s) \in Nat /\ i \in Nat /\ 1 <= i /\ i <= Len(s) + 1
  BY LenProperties
<1>2. /\ a \in Seq(S) /\ Len(a) = i - 1
      /\ \A j \in 1 .. i - 1 : a[j] = s[j]
  <2>1. 1 \in 1 .. Len(s) + 1 /\ i - 1 \in 1 - 1 .. Len(s)
    BY <1>1
  <2>2. /\ a \in Seq(S) /\ Len(a) = IF 1 <= i - 1 THEN i - 1 - 1 + 1 ELSE 0
        /\ \A j \in 1 .. i - 1 - 1 + 1 : a[j] = s[1 + j - 1]
    BY <1>1, <2>1, SubSeqProperties
  <2> HIDE DEF a
  <2>3. Len(a) = i - 1
    BY <1>1, <2>2
  <2>4. \A j \in 1 .. i - 1 : j \in 1 .. i - 1 - 1 + 1 /\ 1 + j - 1 = j
    BY <1>1
  <2> QED
    BY <2>2, <2>3, <2>4
<1>3. b \in Seq(S) /\ Len(b) = 1 /\ b[1] = e
  OBVIOUS
<1>4. /\ c \in Seq(S) /\ Len(c) = Len(s) - i + 1
      /\ \A j \in 1 .. Len(s) - i + 1 : c[j] = s[i + j - 1]
  <2>1. i \in 1 .. Len(s) + 1 /\ Len(s) \in i - 1 .. Len(s)
    BY <1>1
  <2>2. /\ c \in Seq(S) /\ Len(c) = IF i <= Len(s) THEN Len(s) - i + 1 ELSE 0
        /\ \A j \in 1 .. Len(s) - i + 1 : c[j] = s[i + j - 1]
    BY <1>1, <2>1, SubSeqProperties
  <2> HIDE DEF c
  <2>3. Len(c) = Len(s) - i + 1
    BY <1>1, <2>2
  <2> QED
    BY <2>2, <2>3
<1>5. InsertAt(s, i, e) = (a \o b) \o c
  BY DEF InsertAt
<1> HIDE DEF a, b, c
<1>6. /\ a \o b \in Seq(S) /\ Len(a \o b) = Len(a) + Len(b)
      /\ \A j \in 1 .. Len(a) + Len(b) : (a \o b)[j] = IF j <= Len(a) THEN a[j] ELSE b[j - Len(a)]
  BY <1>2, <1>3, ConcatProperties
<1> DEFINE d == a \o b
<1>7. d \in Seq(S) /\ Len(d) = i /\ (\A j \in 1 .. i - 1 : d[j] = s[j]) /\ d[i] = e
  <2>1. Len(d) = i
    BY <1>1, <1>2, <1>3, <1>6
  <2>2. ASSUME NEW j \in 1 .. i - 1
        PROVE  d[j] = s[j]
    <3>1. j \in 1 .. Len(a) + Len(b) /\ j <= Len(a)
      BY <1>1, <1>2, <1>3
    <3> QED
      BY <1>2, <1>6, <3>1
  <2>3. d[i] = e
    <3>1. i \in 1 .. Len(a) + Len(b) /\ ~(i <= Len(a)) /\ i - Len(a) = 1
      BY <1>1, <1>2, <1>3
    <3> QED
      BY <1>3, <1>6, <3>1
  <2> QED
    BY <1>6, <2>1, <2>2, <2>3
<1> HIDE DEF d
<1>8. /\ d \o c \in Seq(S) /\ Len(d \o c) = Len(d) + Len(c)
      /\ \A j \in 1 .. Len(d) + Len(c) : (d \o c)[j] = IF j <= Len(d) THEN d[j] ELSE c[j - Len(d)]
  BY <1>4, <1>7, ConcatProperties
<1>9. InsertAt(s, i, e) = d \o c
  BY <1>5 DEF d
<1> DEFINE r == d \o c
<1>10. Len(r) = Len(s) + 1
  BY <1>1, <1>4, <1>7, <1>8
<1>11. ASSUME NEW j \in 1 .. Len(s) + 1
       PROVE  r[j] = IF j < i THEN s[j] ELSE IF j = i THEN e ELSE s[j - 1]
  <2>1. j \in 1 .. Len(d) + Len(c) /\ j \in Nat
    BY <1>1, <1>4, <1>7
  <2>2. r[j] = IF j <= i THEN d[j] ELSE c[j - i]
    BY <1>7, <1>8, <2>1
  <2> HIDE DEF r
  <2>3. CASE j < i
    <3>1. j \in 1 .. i - 1 /\ j <= i
      BY <1>1, <2>3
    <3> QED
      BY <1>7, <2>2, <2>3, <3>1
  <2>4. CASE j = i
    BY <1>1, <1>7, <2>2, <2>4
  <2>5. CASE j > i
    <3>1. j - i \in 1 .. Len(s) - i + 1 /\ i + (j - i) - 1 = j - 1 /\ ~(j <= i) /\ ~(j < i) /\ j # i
      BY <1>1, <2>5
    <3> QED
      BY <1>4, <2>2, <3>1
  <2> QED
    BY <1>1, <2>1, <2>3, <2>4, <2>5
<1> QED
  BY <1>8, <1>9, <1>10, <1>11 DEF r

(* Where addItem puts an item: behind those that are not younger, if the   *)
(* items were in order.                                                    *)
LEMMA InsertItemPlace ==
    ASSUME items \in Seq(Items), NEW item \in Items
    PROVE  \E i \in 1 .. Len(items) + 1 :
              /\ InsertItem(item) = InsertAt(items, i, item)
              /\ \A j \in 1 .. Len(items) : j >= i => ~(CreatedAt[items[j].uid] <= CreatedAt[item.uid])
              /\ i > 1 => CreatedAt[items[i - 1].uid] <= CreatedAt[item.uid]
<1> DEFINE older == {i \in DOMAIN items : CreatedAt[items[i].uid] <= CreatedAt[item.uid]}
<1>1. DOMAIN items = 1 .. Len(items) /\ Len(items) \in Nat
  BY LenProperties
<1>2. InsertItem(item) = InsertAt(items, IF older = {} THEN 1
                                         ELSE 1 + CHOOSE i \in older : \A j \in older : j <= i, item)
  BY DEF InsertItem
<1>3. CASE older = {}
  <2>1. InsertItem(item) = InsertAt(items, 1, item)
    BY <1>2, <1>3
  <2>2. 1 \in 1 .. Len(items) + 1 /\ ~(1 > 1)
    BY <1>1
  <2> QED
    BY <1>1, <1>3, <2>1, <2>2
<1>4. CASE older # {}
  <2> DEFINE T == {Len(items) - i : i \in older}
  <2>1. T \subseteq Nat /\ T # {}
    BY <1>1, <1>4
  <2>2. PICK m \in T : \A k \in T : m <= k
    <3> HIDE DEF T
    <3> QED
      BY <2>1, LeastElement
  <2>3. PICK l \in older : m = Len(items) - l
    BY <2>2
  <2>4. \A j \in older : j <= l
    <3> TAKE j \in older
    <3>1. Len(items) - j \in T
      OBVIOUS
    <3>2. m <= Len(items) - j /\ j \in Nat /\ l \in Nat
      BY <1>1, <2>2, <3>1
    <3> QED
      BY <1>1, <2>3, <3>2
  <2> DEFINE c == CHOOSE i \in older : \A j \in older : j <= i
  <2>5. c \in older /\ \A j \in older : j <= c
    BY <2>3, <2>4
  <2>6. InsertItem(item) = InsertAt(items, 1 + c, item)
    BY <1>2, <1>4
  <2> HIDE DEF c
  <2>7. c \in 1 .. Len(items) /\ 1 + c \in 1 .. Len(items) + 1 /\ 1 + c - 1 = c
    BY <1>1, <2>5
  <2>8. CreatedAt[items[1 + c - 1].uid] <= CreatedAt[item.uid]
    BY <2>5, <2>7
  <2>9. ASSUME NEW j \in 1 .. Len(items), j >= 1 + c
        PROVE  ~(CreatedAt[items[j].uid] <= CreatedAt[item.uid])
    <3>1. ~(j <= c)
      BY <1>1, <2>7, <2>9
    <3>2. j \notin older
      BY <2>5, <3>1
    <3> QED
      BY <1>1, <3>2
  <2> QED
    BY <2>6, <2>7, <2>8, <2>9
<1> QED
  BY <1>3, <1>4

LEMMA RelayKeepsQueues == Queues /\ Relay => Queues'
<1> SUFFICES ASSUME Queues, Relay PROVE Queues'
  OBVIOUS
<1>1. /\ mcq \in Seq(MSignals) /\ mcq # <<>> /\ uiq \in Seq(Signals) /\ mcq' = Tail(mcq)
      /\ uiq' = IF Head(mcq)[2] \in Shown THEN Append(uiq, Head(mcq)) ELSE uiq
      /\ UNCHANGED <<told, dbq, known, items, gui, tab, loadDue, app>>
  BY DEF Queues, Relay, widgets
<1>2. Tail(mcq) \in Seq(MSignals) /\ Head(mcq) \in MSignals
  BY <1>1, SeqTail
<1>3. Head(mcq) \in Signals
  BY <1>2 DEF MSignals, Signals
<1>4. uiq' \in Seq(Signals)
  BY <1>1, <1>3, SeqAppend
<1> QED
  BY <1>1, <1>2, <1>4 DEF Queues

(* A call that the window waits for is posted.                             *)
LEMMA AskKeepsQueues ==
    ASSUME Queues, gui.at \notin {"list", "message", "reload"},
           NEW c \in Calls, dbq' = Append(dbq, c), gui' \in Guis,
           c[1] = "last" => gui'.at = "list",
           c[1] = "message" => gui'.at \in {"message", "reload"} /\ c[2] = Head(gui'.todo),
           gui'.at \in Busy => gui'.todo # <<>>,
           uiq' \in Seq(Signals), loadDue' \in BOOLEAN,
           UNCHANGED <<told, mcq, known, items, tab, app>>
    PROVE  Queues'
<1>1. dbq \in Seq(Calls) /\ WaitsFor(dbq, gui)
  BY DEF Queues
<1>2. dbq' \in Seq(Calls)
  BY <1>1, SeqAppend
<1>3. \A i \in 1 .. Len(dbq) : ~Blocks(dbq[i])
  BY <1>1, NobodyWaits
<1>4. PICK g \in Guis : g = gui'
  OBVIOUS
<1>5. WaitsFor(Append(dbq, c), g)
  BY <1>1, <1>3, <1>4, WaitingStarts
<1>6. WaitsFor(dbq', gui')
  BY <1>4, <1>5
<1> QED
  BY <1>2, <1>6 DEF Queues

LEMMA LoadMessagesKeepsQueues ==
    ASSUME Queues, LoadLastNMessages \/ LoadMoreMessages
    PROVE  Queues'
<1>1. PICK n \in Nat :
         /\ gui.at = "idle" /\ dbq' = Append(dbq, <<"last", n>>)
         /\ gui' = [Resting EXCEPT !.at = "list"]
         /\ loadDue' \in BOOLEAN
         /\ UNCHANGED <<told, mcq, uiq, tab, known, items, app>>
  <2>1. CASE LoadLastNMessages
    BY <2>1, HistoryAssumption DEF LoadLastNMessages, Idle
  <2>2. CASE LoadMoreMessages
    <3>1. Cardinality(known) \in Nat
      BY HistoryAssumption, FS_Subset, FS_CardinalityType DEF Queues
    <3>2. More + Cardinality(known) \in Nat
      BY <3>1, HistoryAssumption
    <3>3. loadDue' \in BOOLEAN
      BY <2>2 DEF LoadMoreMessages, Queues, widgets
    <3> QED
      BY <2>2, <3>2, <3>3 DEF LoadMoreMessages, Click, Idle, widgets
  <2> QED
    BY <2>1, <2>2
<1>2. <<"last", n>> \in Calls
  BY DEF Calls
<1>3. gui' \in Guis /\ gui'.at = "list"
  <2>1. Resting \in Guis
    BY RestingIsGui
  <2> QED
    BY <1>1, <2>1 DEF Guis
<1>4. uiq' \in Seq(Signals)
  BY <1>1 DEF Queues
<1> QED
  BY <1>1, <1>2, <1>3, <1>4, AskKeepsQueues DEF Busy

LEMMA ShowLastMessagesKeepsQueues == Queues /\ ShowLastMessages => Queues'
<1> SUFFICES ASSUME Queues, ShowLastMessages PROVE Queues'
  OBVIOUS
<1>1. /\ gui.at = "next" /\ Show(gui.todo)
      /\ UNCHANGED <<told, mcq, uiq, tab, loadDue, items, app>>
  BY DEF ShowLastMessages
<1>2. gui.todo \in Seq(Messages)
  BY DEF Queues, Guis
<1> QED
  BY <1>1, <1>2, ShowKeepsQueues DEF Queues

LEMMA OnNewMessageKeepsQueues == Queues /\ OnNewMessage => Queues'
<1> SUFFICES ASSUME Queues, OnNewMessage PROVE Queues'
  OBVIOUS
<1>1. /\ gui.at = "idle" /\ uiq # <<>> /\ uiq' = Tail(uiq)
      /\ IF tab THEN Show(<<Head(uiq)[2]>>) ELSE UNCHANGED <<known, dbq, gui>>
      /\ UNCHANGED <<told, mcq, tab, loadDue, items, app>>
  BY Zenon DEF OnNewMessage, Signalled, Idle
<1>2. Tail(uiq) \in Seq(Signals) /\ Head(uiq) \in Signals
  BY <1>1, SeqTail DEF Queues
<1>3. Head(uiq)[2] \in Messages
  BY <1>2 DEF Signals
<1>4. CASE tab
  <2>1. Show(<<Head(uiq)[2]>>)
    BY <1>1, <1>4
  <2>2. <<Head(uiq)[2]>> \in Seq(Messages)
    BY <1>3
  <2> QED
    BY <1>1, <1>2, <2>1, <2>2, ShowKeepsQueues DEF Queues
<1>5. CASE ~tab
  BY <1>1, <1>2, <1>5 DEF Queues
<1> QED
  BY <1>4, <1>5

LEMMA AddChatWidgetItemKeepsQueues == Queues /\ AddChatWidgetItem => Queues'
<1> SUFFICES ASSUME Queues, AddChatWidgetItem PROVE Queues'
  OBVIOUS
<1>1. /\ gui.at = "add" /\ items' = InsertItem(Item(Head(gui.todo), gui.sent)) /\ Show(Tail(gui.todo))
      /\ UNCHANGED <<told, mcq, uiq, tab, loadDue, app>>
  BY DEF AddChatWidgetItem
<1>2. gui.todo \in Seq(Messages) /\ gui.todo # <<>> /\ gui.sent \in BOOLEAN /\ items \in Seq(Items)
  BY <1>1 DEF Queues, Guis, Busy
<1>3. Head(gui.todo) \in Messages /\ Tail(gui.todo) \in Seq(Messages)
  BY <1>2, SeqTail
<1>4. Item(Head(gui.todo), gui.sent) \in Items
  BY <1>2, <1>3 DEF Item, Items
<1>5. PICK i \in 1 .. Len(items) + 1 :
         InsertItem(Item(Head(gui.todo), gui.sent)) = InsertAt(items, i, Item(Head(gui.todo), gui.sent))
  BY <1>2, <1>4, InsertItemPlace
<1>6. items' \in Seq(Items)
  BY <1>1, <1>2, <1>4, <1>5, InsertAtElements
<1> QED
  BY <1>1, <1>3, <1>6, ShowKeepsQueues DEF Queues

LEMMA OnMessageChangedKeepsQueues == Queues /\ OnMessageChanged => Queues'
<1> SUFFICES ASSUME Queues, OnMessageChanged PROVE Queues'
  OBVIOUS
<1>1. /\ gui.at = "idle" /\ uiq # <<>> /\ uiq' = Tail(uiq)
      /\ \/ /\ dbq' = Append(dbq, <<"message", Head(uiq)[2]>>)
            /\ gui' = [at |-> "reload", todo |-> <<Head(uiq)[2]>>, sent |-> FALSE]
         \/ UNCHANGED <<dbq, gui>>
      /\ UNCHANGED <<told, mcq, known, items, tab, loadDue, app>>
  BY DEF OnMessageChanged, Signalled, Idle, widgets
<1>2. Tail(uiq) \in Seq(Signals) /\ Head(uiq) \in Signals
  BY <1>1, SeqTail DEF Queues
<1>3. PICK u \in Messages : u = Head(uiq)[2]
  BY <1>2 DEF Signals
<1>4. CASE /\ dbq' = Append(dbq, <<"message", u>>)
           /\ gui' = [at |-> "reload", todo |-> <<u>>, sent |-> FALSE]
  <2>1. <<"message", u>> \in Calls
    BY DEF Calls
  <2>2. <<u>> \in Seq(Messages) /\ <<u>> # <<>> /\ Head(<<u>>) = u
    OBVIOUS
  <2>3. gui' \in Guis /\ gui'.at = "reload" /\ gui'.todo = <<u>>
    BY <1>4, <2>2 DEF Guis, Busy
  <2>4. loadDue' \in BOOLEAN
    BY <1>1 DEF Queues
  <2> QED
    BY <1>1, <1>2, <1>4, <2>1, <2>2, <2>3, <2>4, AskKeepsQueues
<1>5. CASE UNCHANGED <<dbq, gui>>
  BY <1>1, <1>2, <1>5 DEF Queues
<1> QED
  BY <1>1, <1>3, <1>4, <1>5

LEMMA UpdateItemKeepsQueues == Queues /\ UpdateItem => Queues'
<1> SUFFICES ASSUME Queues, UpdateItem PROVE Queues'
  OBVIOUS
<1>1. /\ gui.at = "update" /\ gui' = Resting
      /\ items' = [i \in DOMAIN items |-> IF items[i].uid = Head(gui.todo)
                                          THEN [items[i] EXCEPT !.sent = gui.sent] ELSE items[i]]
      /\ UNCHANGED <<told, dbq, mcq, uiq, tab, loadDue, known, app>>
  BY DEF UpdateItem
<1>2. items \in Seq(Items) /\ gui.sent \in BOOLEAN
  BY DEF Queues, Guis
<1>3. DOMAIN items = 1 .. Len(items) /\ Len(items) \in Nat /\ \A i \in DOMAIN items : items[i] \in Items
  BY <1>2, LenProperties, ElementOfSeq
<1>4. \A item \in Items : [item EXCEPT !.sent = gui.sent] \in Items
  BY <1>2 DEF Items
<1>5. items' \in [1 .. Len(items) -> Items]
  BY <1>1, <1>3, <1>4
<1>6. items' \in Seq(Items)
  BY <1>3, <1>5, SeqOfFunction
<1>7. gui' \in Guis /\ gui'.at \notin Busy /\ WaitsFor(dbq, gui')
  <2>1. \A i \in 1 .. Len(dbq) : ~Blocks(dbq[i])
    BY <1>1, NobodyWaits DEF Queues
  <2>2. WaitsFor(dbq, Resting)
    BY <2>1, NobodyWaitsElse DEF Queues
  <2> QED
    BY <1>1, <2>2, RestingIsGui DEF Busy
<1> QED
  BY <1>1, <1>6, <1>7 DEF Queues

LEMMA OnMessageDeletedKeepsQueues == Queues /\ OnMessageDeleted => Queues'
<1> SUFFICES ASSUME Queues, OnMessageDeleted PROVE Queues'
  OBVIOUS
<1>1. PICK I \in SUBSET DOMAIN items, J \in SUBSET DOMAIN uiq :
         /\ items' = Kept(items, I) /\ uiq' = Kept(uiq, J)
         /\ UNCHANGED <<told, dbq, mcq, tab, loadDue, known, gui, app>>
  BY DEF OnMessageDeleted, OnItemMessageDeleted
<1>2. items' \in Seq(Items) /\ uiq' \in Seq(Signals)
  BY <1>1, KeptElements DEF Queues
<1> QED
  BY <1>1, <1>2 DEF Queues

LEMMA OpenTabKeepsQueues == Queues /\ OpenTab => Queues'
<1>1. <<>> \in Seq(Items)
  OBVIOUS
<1> QED
  BY <1>1 DEF Queues, OpenTab

LEMMA CloseTabKeepsQueues == Queues /\ CloseTab => Queues'
<1> SUFFICES ASSUME Queues, CloseTab PROVE Queues'
  OBVIOUS
<1>1. PICK J \in SUBSET DOMAIN uiq :
         /\ uiq' = Kept(uiq, J) /\ items' = <<>> /\ known' = {} /\ tab' = FALSE /\ loadDue' = FALSE
         /\ UNCHANGED <<told, dbq, mcq, gui, app>>
  BY DEF CloseTab, ToTheTab
<1>2. uiq' \in Seq(Signals)
  BY <1>1, KeptElements DEF Queues
<1>3. <<>> \in Seq(Items)
  OBVIOUS
<1> QED
  BY <1>1, <1>2, <1>3 DEF Queues

LEMMA DeleteItemKeepsQueues ==
    ASSUME Queues, NEW i \in DOMAIN items, DeleteItem(i)
    PROVE  Queues'
<1>1. /\ items' = [items EXCEPT ![i].deleted = TRUE] /\ dbq' = Append(dbq, <<"delete", items[i].uid>>)
      /\ UNCHANGED <<told, mcq, uiq, tab, loadDue, known, gui, app>>
  BY DEF DeleteItem
<1>2. /\ items \in Seq(Items) /\ i \in 1 .. Len(items) /\ items[i] \in Items
  BY LenProperties, ElementOfSeq DEF Queues
<1>3. [items[i] EXCEPT !.deleted = TRUE] \in Items /\ items[i].uid \in Messages
  BY <1>2 DEF Items
<1>4. items' = [items EXCEPT ![i] = [items[i] EXCEPT !.deleted = TRUE]]
  BY <1>1
<1>5. items' \in Seq(Items)
  BY <1>2, <1>3, <1>4, ExceptSeq
<1>6. PICK c \in Calls : c = <<"delete", items[i].uid>> /\ ~Blocks(c)
  <2>1. <<"delete", items[i].uid>> \in Calls /\ ~Blocks(<<"delete", items[i].uid>>)
    BY <1>3 DEF Calls, Blocks
  <2> QED
    BY <2>1
<1>7. told' \subseteq {"store", "result"} \X Messages
  BY <1>1 DEF Queues
<1> QED
  BY <1>1, <1>5, <1>6, <1>7, PostKeepsQueues

LEMMA RulesOfTheDialog ==
    ASSUME DeleteByCount \/ DeleteByAge \/ DeleteByDate
    PROVE  \E rule \in Rules : DeleteMany(rule)
<1>1. CASE DeleteByCount
  <2>1. PICK oldest \in BOOLEAN, n \in Counts : DeleteMany([by |-> "count", old |-> oldest, limit |-> n])
    BY <1>1 DEF DeleteByCount
  <2>2. [by |-> "count", old |-> oldest, limit |-> n] \in Rules
    BY DEF Rules
  <2> QED
    BY <2>1, <2>2
<1>2. CASE DeleteByAge
  <2>1. PICK older \in BOOLEAN, age \in Ages :
           \E seconds \in AgesTaken(age[1] * UnitTaken[age[2]]) :
              DeleteMany([by |-> "age", old |-> older, limit |-> Now - seconds])
    BY <1>2 DEF DeleteByAge
  <2>2. PICK seconds \in AgesTaken(age[1] * UnitTaken[age[2]]) :
           DeleteMany([by |-> "age", old |-> older, limit |-> Now - seconds])
    BY <2>1
  <2>3. Now - seconds \in Limits
    BY DEF Limits
  <2>4. [by |-> "age", old |-> older, limit |-> Now - seconds] \in Rules
    BY <2>3 DEF Rules
  <2> QED
    BY <2>2, <2>4
<1>3. CASE DeleteByDate
  <2>1. PICK old \in BOOLEAN, date \in Dates : DeleteMany([by |-> "age", old |-> old, limit |-> date])
    BY <1>3 DEF DeleteByDate
  <2>2. date \in Limits
    BY DEF Limits
  <2>3. [by |-> "age", old |-> old, limit |-> date] \in Rules
    BY <2>2 DEF Rules
  <2> QED
    BY <2>1, <2>3
<1> QED
  BY <1>1, <1>2, <1>3

LEMMA DeleteManyKeepsQueues ==
    ASSUME Queues, NEW rule \in Rules, DeleteMany(rule)
    PROVE  Queues'
<1>1. /\ dbq' = Append(dbq, <<"deleteMany", rule>>)
      /\ UNCHANGED <<told, mcq, uiq, tab, loadDue, known, items, gui, app>>
  BY DEF DeleteMany, widgets
<1>2. PICK c \in Calls : c = <<"deleteMany", rule>> /\ ~Blocks(c)
  <2>1. <<"deleteMany", rule>> \in Calls /\ ~Blocks(<<"deleteMany", rule>>)
    BY DEF Calls, Blocks
  <2> QED
    BY <2>1
<1>3. told' \subseteq {"store", "result"} \X Messages /\ items' \in Seq(Items)
  BY <1>1 DEF Queues
<1> QED
  BY <1>1, <1>2, <1>3, PostKeepsQueues

LEMMA StepKeepsQueues == Queues /\ [Next]_vars => Queues'
<1> SUFFICES ASSUME Queues, [Next]_vars PROVE Queues'
  OBVIOUS
<1>1. CASE ExecuteCall
  BY <1>1, ExecuteCallKeepsQueues
<1>2. CASE \E u \in Messages : StoreMessage(u) \/ StoreResult(u)
  BY <1>2, StoreMessageKeepsQueues
<1>3. CASE Relay
  BY <1>3, RelayKeepsQueues
<1>4. CASE WindowStep
  BY <1>4, LoadMessagesKeepsQueues, ShowLastMessagesKeepsQueues, OnNewMessageKeepsQueues,
     AddChatWidgetItemKeepsQueues, OnMessageChangedKeepsQueues, UpdateItemKeepsQueues,
     OnMessageDeletedKeepsQueues DEF WindowStep
<1>5. CASE UserStep
  <2>1. CASE OpenTab \/ CloseTab \/ LoadMoreMessages
    BY <2>1, OpenTabKeepsQueues, CloseTabKeepsQueues, LoadMessagesKeepsQueues
  <2>2. CASE \E i \in DOMAIN items : DeleteItem(i)
    BY <2>2, DeleteItemKeepsQueues
  <2>3. CASE DeleteByCount \/ DeleteByAge \/ DeleteByDate
    BY <2>3, RulesOfTheDialog, DeleteManyKeepsQueues
  <2> QED
    BY <1>5, <2>1, <2>2, <2>3 DEF UserStep
<1>6. CASE Crash
  BY <1>6, StopKeepsQueues DEF Crash
<1>7. CASE Quit
  BY <1>7, StopKeepsQueues DEF Quit
<1>8. CASE Restart
  <2>1. /\ app' = "running"
        /\ UNCHANGED <<told, dbq, mcq, uiq, known, items, gui, tab, loadDue>>
    BY <1>8 DEF Restart, widgets
  <2> QED
    BY <2>1 DEF Queues
<1>9. CASE UNCHANGED vars
  BY <1>9, StutterKeepsQueues DEF vars, queueVars, widgets
<1> QED
  BY <1>1, <1>2, <1>3, <1>4, <1>5, <1>6, <1>7, <1>8, <1>9 DEF Next

LEMMA AlwaysQueues == Spec => []Queues
  BY InitQueues, StepKeepsQueues, PTL DEF Spec

-----------------------------------------------------------------------------
(* The disk only changes with a call that is executed, or cut off.         *)
LEMMA InitMedia == Init => MediaOK(disk, asked, cutOff)
<1> SUFFICES ASSUME Init, NEW u \in Messages
             PROVE  /\ Row(u) \in disk => Media(u) \subseteq disk
                    /\ Row(u) \notin disk => Media(u) \cap disk = {}
  BY DEF MediaOK
<1>1. disk = UNION {Apply(StoreEffects(v), {}) : v \in Earlier} /\ Earlier \subseteq Messages
  BY HistoryAssumption DEF Init
<1>2. ASSUME NEW v \in Messages
      PROVE  /\ Media(v) \cup {Row(v)} \subseteq Apply(StoreEffects(v), {})
             /\ Apply(StoreEffects(v), {}) \subseteq AllMedia(v) \cup {Row(v)}
  <2> DEFINE e == StoreEffects(v)
             E == [adds : SUBSET (AllMedia(v) \cup {Row(v)}), removes : {{}}]
  <2>1. StoresSteps(v, e)
    BY StoreSteps
  <2> HIDE DEF e
  <2>2. e \in Seq(E) /\ DOMAIN e = 1 .. Len(e)
    BY <2>1, LenProperties DEF StoresSteps
  <2>3. \A i \in DOMAIN e : e[i] \in E
    <3> HIDE DEF E
    <3> QED
      BY <2>2, ElementOfSeq
  <2>4. UNION {e[i].removes : i \in DOMAIN e} = {}
    BY <2>3
  <2>5. Apply(e, {}) = UNION {e[i].adds : i \in DOMAIN e}
    BY <2>4 DEF Apply
  <2>6. Apply(e, {}) \subseteq AllMedia(v) \cup {Row(v)}
    BY <2>3, <2>5
  <2>7. ASSUME NEW x \in Media(v) \cup {Row(v)}
        PROVE  x \in Apply(e, {})
    <3>1. PICK i \in 1 .. Len(e) : x \in e[i].adds
      BY <2>1 DEF StoresSteps
    <3> QED
      BY <2>2, <2>5, <3>1
  <2> QED
    BY <2>6, <2>7 DEF e
<1>3. CASE u \in Earlier
  BY <1>1, <1>2, <1>3
<1>4. CASE u \notin Earlier
  <2>1. ASSUME NEW v \in Earlier
        PROVE  (Media(u) \cup {Row(u)}) \cap Apply(StoreEffects(v), {}) = {}
    <3>1. v \in Messages /\ u # v
      BY <1>1, <1>4
    <3>2. /\ AllMedia(u) \cap AllMedia(v) = {} /\ Row(u) \notin AllMedia(v)
          /\ Row(v) \notin AllMedia(u) /\ Row(u) # Row(v) /\ Media(u) \subseteq AllMedia(u)
      BY <3>1, MediaDiffer, FactsDiffer, PartsAreFew
    <3> QED
      BY <1>2, <3>1, <3>2
  <2>2. (Media(u) \cup {Row(u)}) \cap disk = {}
    BY <1>1, <2>1
  <2> QED
    BY <2>2
<1> QED
  BY <1>3, <1>4

LEMMA ExecuteCallKeepsMedia ==
    ASSUME Queues, MediaOK(disk, asked, cutOff), ExecuteCall
    PROVE  MediaOK(disk', asked', cutOff')
<1>1. dbq \in Seq(Calls) /\ dbq # <<>> /\ cutOff' = cutOff
  BY DEF Queues, ExecuteCall
<1>2. PICK call \in Calls : call = Head(dbq)
  BY <1>1, SeqTail
<1>3. CASE ~Throws(call) /\ Executed(call)
  <2>1. disk' = Apply(Effects(call), disk) /\ asked' = asked \cup ToSet(Victims(call))
    BY <1>3 DEF Executed
  <2>2. MediaOK(Apply(Effects(call), disk), asked \cup ToSet(Victims(call)), cutOff)
    BY <1>3, ExecutedKeepsMedia
  <2> QED
    BY <1>1, <2>1, <2>2
<1>4. CASE UNCHANGED <<disk, asked>>
  BY <1>1, <1>4
<1> QED
  BY <1>2, <1>3, <1>4 DEF ExecuteCall, tables

LEMMA CrashKeepsMedia ==
    ASSUME Queues, MediaOK(disk, asked, cutOff), Crash
    PROVE  MediaOK(disk', asked', cutOff')
<1> DEFINE call    == IF dbq = <<>> THEN <<"none">> ELSE Head(dbq)
           effects == IF Throws(call) THEN <<>> ELSE Effects(call)
<1>1. PICK k \in 0 .. Len(effects) :
         /\ disk' = Apply(SubSeq(effects, 1, k), disk)
         /\ asked' = IF k > 0 THEN asked \cup ToSet(Victims(call)) ELSE asked
         /\ cutOff' = IF k > 0 /\ call[1] = "store" THEN cutOff \cup {call[2]} ELSE cutOff
  BY DEF Crash
<1>2. CASE effects = <<>>
  <2>1. <<>> \in Seq({}) /\ Len(<<>>) = 0
    OBVIOUS
  <2>2. k = 0
    BY <1>2, <2>1
  <2>3. DOMAIN SubSeq(<<>>, 1, 0) = 1..0
    BY <2>1, FirstSteps
  <2>4. Apply(SubSeq(<<>>, 1, 0), disk) = disk
    BY <2>3 DEF Apply
  <2>5. disk' = disk /\ asked' = asked /\ cutOff' = cutOff
    BY <1>1, <1>2, <2>2, <2>4
  <2> QED
    BY <2>5
<1>3. CASE effects # <<>>
  <2>1. dbq # <<>>
    <3>1. Effects(<<"none">>) = <<>>
      BY DEF Effects
    <3> QED
      BY <1>3, <3>1
  <2>2. PICK c \in Calls : c = call
    BY <2>1, SeqTail DEF Queues
  <2>3. ~Throws(c) /\ effects = Effects(c)
    BY <1>3, <2>2
  <2>4. /\ k \in 0 .. Len(Effects(c))
        /\ disk' = Apply(SubSeq(Effects(c), 1, k), disk)
        /\ asked' = IF k > 0 THEN asked \cup ToSet(Victims(c)) ELSE asked
        /\ cutOff' = IF k > 0 /\ c[1] = "store" THEN cutOff \cup {c[2]} ELSE cutOff
    BY <1>1, <2>2, <2>3
  <2> HIDE DEF call, effects
  <2>5. PICK a2, c2 : a2 = asked' /\ c2 = cutOff'
    OBVIOUS
  <2>6. /\ asked \subseteq a2 /\ (k > 0 => ToSet(Victims(c)) \subseteq a2)
        /\ cutOff \subseteq c2 /\ (c[1] = "store" /\ k > 0 => c[2] \in c2)
    BY <2>4, <2>5
  <2>7. MediaOK(Apply(SubSeq(Effects(c), 1, k), disk), a2, c2)
    BY <2>3, <2>4, <2>6, CallKeepsMedia
  <2> QED
    BY <2>4, <2>5, <2>7
<1> QED
  BY <1>2, <1>3

LEMMA StepKeepsMedia ==
    ASSUME Queues, MediaOK(disk, asked, cutOff), [Next]_vars
    PROVE  MediaOK(disk', asked', cutOff')
<1>1. CASE ExecuteCall
  BY <1>1, ExecuteCallKeepsMedia
<1>2. CASE Crash
  BY <1>2, CrashKeepsMedia
<1>3. CASE UNCHANGED <<disk, asked, cutOff>>
  BY <1>3
<1>4. (\E u \in Messages : StoreMessage(u) \/ StoreResult(u)) \/ Relay => UNCHANGED <<disk, asked, cutOff>>
  BY DEF StoreMessage, StoreResult, Relay, tables, record
<1>5. WindowStep => UNCHANGED <<disk, asked, cutOff>>
  BY DEF WindowStep, LoadLastNMessages, ShowLastMessages, OnNewMessage, AddChatWidgetItem,
     OnMessageChanged, UpdateItem, OnMessageDeleted, tables, record
<1>6. UserStep => UNCHANGED <<disk, asked, cutOff>>
  BY DEF UserStep, OpenTab, CloseTab, LoadMoreMessages, DeleteItem, DeleteByCount, DeleteByAge,
     DeleteByDate, DeleteMany, tables, record
<1>7. Quit \/ Restart \/ UNCHANGED vars => UNCHANGED <<disk, asked, cutOff>>
  BY DEF Quit, Restart, vars, tables, record
<1> QED
  BY <1>1, <1>2, <1>3, <1>4, <1>5, <1>6, <1>7 DEF Next

(* A message and its media come and go together, whenever the process dies *)
(* and wherever a store or a deletion is cut off.                          *)
THEOREM MediaAlwaysLiveWithTheirMessage == Spec => []MediaLiveWithTheirMessage
<1> DEFINE OK == MediaOK(disk, asked, cutOff)
<1>1. Init => OK
  BY InitMedia
<1>2. Queues /\ OK /\ [Next]_vars => OK'
  BY StepKeepsMedia
<1>3. OK => MediaLiveWithTheirMessage
  BY MediaOKMeansLive
<1> HIDE DEF OK
<1> QED
  BY <1>1, <1>2, <1>3, AlwaysQueues, PTL DEF Spec

-----------------------------------------------------------------------------
(* The items: one of a message, in the order of their making.              *)

Uids(s) == {s[i].uid : i \in DOMAIN s}

Ordered(s) ==
    \A i, j \in 1 .. Len(s) :
        i < j => s[i].uid # s[j].uid /\ CreatedAt[s[i].uid] <= CreatedAt[s[j].uid]

LEMMA ElementsOfItems ==
    ASSUME NEW s \in Seq(Items)
    PROVE  /\ DOMAIN s = 1 .. Len(s) /\ Len(s) \in Nat
           /\ \A i \in 1 .. Len(s) : s[i] \in Items /\ s[i].uid \in Messages /\ CreatedAt[s[i].uid] \in Nat
<1>1. DOMAIN s = 1 .. Len(s) /\ Len(s) \in Nat /\ \A i \in 1 .. Len(s) : s[i] \in Items
  BY LenProperties, ElementOfSeq
<1>2. \A item \in Items : item.uid \in Messages
  BY DEF Items
<1> QED
  BY <1>1, <1>2, HistoryAssumption

LEMMA KeptStaysOrdered ==
    ASSUME NEW s \in Seq(Items), Ordered(s), NEW I \in SUBSET DOMAIN s
    PROVE  Ordered(Kept(s, I)) /\ Uids(Kept(s, I)) = {s[i].uid : i \in I}
<1> DEFINE r == Kept(s, I)
<1>1. PICK p : Picks(r, s, I, p)
  BY KeptPicks
<1>2. r \in Seq(Items)
  BY KeptPicks
<1> HIDE DEF r
<1>3. DOMAIN r = 1 .. Len(r) /\ I \subseteq 1 .. Len(s)
  BY <1>2, ElementsOfItems
<1>4. \A k \in 1 .. Len(r) : p[k] \in I /\ r[k] = s[p[k]]
  BY <1>1 DEF Picks
<1>5. Ordered(r)
  <2> SUFFICES ASSUME NEW k \in 1 .. Len(r), NEW l \in 1 .. Len(r), k < l
               PROVE  r[k].uid # r[l].uid /\ CreatedAt[r[k].uid] <= CreatedAt[r[l].uid]
    BY DEF Ordered
  <2>1. p[k] \in 1 .. Len(s) /\ p[l] \in 1 .. Len(s) /\ p[k] < p[l]
    BY <1>1, <1>3, <1>4 DEF Picks
  <2> QED
    BY <1>4, <2>1 DEF Ordered
<1>6. Uids(r) = {s[i].uid : i \in I}
  <2>1. Uids(r) \subseteq {s[i].uid : i \in I}
    BY <1>3, <1>4 DEF Uids
  <2>2. ASSUME NEW i \in I
        PROVE  s[i].uid \in Uids(r)
    <3>1. PICK k \in 1 .. Len(r) : p[k] = i
      BY <1>1 DEF Picks
    <3> QED
      BY <1>3, <1>4, <3>1 DEF Uids
  <2> QED
    BY <2>1, <2>2
<1> QED
  BY <1>5, <1>6 DEF r

LEMMA SameUidsStayOrdered ==
    ASSUME NEW s \in Seq(Items), Ordered(s), NEW r \in Seq(Items), Len(r) = Len(s),
           \A i \in 1 .. Len(s) : r[i].uid = s[i].uid
    PROVE  Ordered(r) /\ Uids(r) = Uids(s)
<1>1. DOMAIN s = 1 .. Len(s) /\ DOMAIN r = 1 .. Len(s)
  BY ElementsOfItems
<1> QED
  BY <1>1 DEF Ordered, Uids

LEMMA InsertStaysOrdered ==
    ASSUME items \in Seq(Items), Ordered(items), NEW item \in Items, item.uid \notin Shown
    PROVE  /\ InsertItem(item) \in Seq(Items)
           /\ Ordered(InsertItem(item))
           /\ Uids(InsertItem(item)) = Shown \cup {item.uid}
           /\ \A j \in DOMAIN InsertItem(item) :
                 InsertItem(item)[j] = item \/ \E l \in DOMAIN items : InsertItem(item)[j] = items[l]
<1>1. PICK i \in 1 .. Len(items) + 1 :
         /\ InsertItem(item) = InsertAt(items, i, item)
         /\ \A j \in 1 .. Len(items) : j >= i => ~(CreatedAt[items[j].uid] <= CreatedAt[item.uid])
         /\ i > 1 => CreatedAt[items[i - 1].uid] <= CreatedAt[item.uid]
  BY InsertItemPlace
<1> DEFINE r == InsertItem(item)
           n == Len(items)
<1>2. n \in Nat /\ i \in Nat /\ 1 <= i /\ i <= n + 1 /\ DOMAIN items = 1..n
  BY ElementsOfItems
<1>3. /\ r \in Seq(Items) /\ Len(r) = n + 1
      /\ \A j \in 1 .. n + 1 : r[j] = IF j < i THEN items[j] ELSE IF j = i THEN item ELSE items[j - 1]
  <2>1. r = InsertAt(items, i, item)
    BY <1>1
  <2> HIDE DEF r
  <2>2. InsertAt(items, i, item) \in Seq(Items) /\ Len(InsertAt(items, i, item)) = Len(items) + 1
    BY InsertAtElements
  <2>3. \A j \in 1 .. Len(items) + 1 :
           InsertAt(items, i, item)[j] = IF j < i THEN items[j] ELSE IF j = i THEN item ELSE items[j - 1]
    BY InsertAtElements
  <2> QED
    BY <2>1, <2>2, <2>3
<1> HIDE DEF r, n
<1>4. \A j \in 1..n : /\ items[j].uid # item.uid /\ items[j].uid \in Messages
                      /\ CreatedAt[items[j].uid] \in Nat
  BY <1>2, ElementsOfItems DEF Shown, n
<1>5. CreatedAt[item.uid] \in Nat
  <2>1. item.uid \in Messages
    BY DEF Items
  <2> QED
    BY <2>1, HistoryAssumption
<1>6. \A j, l \in 1..n : j < l => /\ items[j].uid # items[l].uid
                                  /\ CreatedAt[items[j].uid] <= CreatedAt[items[l].uid]
  BY DEF Ordered, n
<1>7. ASSUME NEW j \in 1..n, j < i
      PROVE  CreatedAt[items[j].uid] <= CreatedAt[item.uid]
  <2>1. i > 1 /\ i - 1 \in 1..n
    BY <1>2, <1>7
  <2>2. CreatedAt[items[i - 1].uid] <= CreatedAt[item.uid] /\ CreatedAt[items[i - 1].uid] \in Nat
    BY <1>1, <1>4, <2>1
  <2>3. CASE j = i - 1
    BY <2>2, <2>3
  <2>4. CASE j < i - 1
    <3>1. CreatedAt[items[j].uid] <= CreatedAt[items[i - 1].uid]
      BY <1>6, <2>1, <2>4
    <3> QED
      BY <1>4, <1>5, <2>2, <3>1
  <2> QED
    BY <1>2, <1>7, <2>3, <2>4
<1>8. ASSUME NEW j \in 1..n, j >= i
      PROVE  CreatedAt[item.uid] <= CreatedAt[items[j].uid]
  <2>1. ~(CreatedAt[items[j].uid] <= CreatedAt[item.uid])
    BY <1>1, <1>8 DEF n
  <2> QED
    BY <1>4, <1>5, <2>1
<1>9. ASSUME NEW j \in 1 .. n + 1, NEW l \in 1 .. n + 1, j < l
      PROVE  r[j].uid # r[l].uid /\ CreatedAt[r[j].uid] <= CreatedAt[r[l].uid]
  <2>1. CASE l < i
    <3>1. j \in 1..n /\ l \in 1..n /\ r[j] = items[j] /\ r[l] = items[l]
      BY <1>2, <1>3, <1>9, <2>1
    <3> QED
      BY <1>6, <1>9, <3>1
  <2>2. CASE l = i
    <3>1. j \in 1..n /\ j < i /\ r[j] = items[j] /\ r[l] = item
      BY <1>2, <1>3, <1>9, <2>2
    <3> QED
      BY <1>4, <1>7, <3>1
  <2>3. CASE l > i /\ j < i
    <3>1. j \in 1..n /\ l - 1 \in 1..n /\ j < l - 1 /\ r[j] = items[j] /\ r[l] = items[l - 1]
      BY <1>2, <1>3, <1>9, <2>3
    <3> QED
      BY <1>6, <3>1
  <2>4. CASE l > i /\ j = i
    <3>1. l - 1 \in 1..n /\ l - 1 >= i /\ r[j] = item /\ r[l] = items[l - 1]
      BY <1>2, <1>3, <1>9, <2>4
    <3> QED
      BY <1>4, <1>8, <3>1
  <2>5. CASE l > i /\ j > i
    <3>1. j - 1 \in 1..n /\ l - 1 \in 1..n /\ j - 1 < l - 1 /\ r[j] = items[j - 1] /\ r[l] = items[l - 1]
      BY <1>2, <1>3, <1>9, <2>5
    <3> QED
      BY <1>6, <3>1
  <2>6. l \in Nat /\ j \in Nat
    BY <1>2
  <2> QED
    BY <1>2, <2>1, <2>2, <2>3, <2>4, <2>5, <2>6
<1>10. Ordered(r)
  BY <1>3, <1>9 DEF Ordered
<1>11. DOMAIN r = 1 .. n + 1
  BY <1>3, LenProperties
<1>12. ASSUME NEW j \in 1 .. n + 1
       PROVE  r[j] = item \/ \E l \in 1..n : r[j] = items[l]
  <2>1. j < i => j \in 1..n
    BY <1>2
  <2>2. ~(j < i) /\ j # i => j - 1 \in 1..n
    BY <1>2
  <2> QED
    BY <1>3, <2>1, <2>2
<1>13. ASSUME NEW l \in 1..n
       PROVE  \E j \in 1 .. n + 1 : r[j] = items[l]
  <2>1. CASE l < i
    <3>1. l \in 1 .. n + 1 /\ r[l] = items[l]
      BY <1>2, <1>3, <2>1
    <3> QED
      BY <3>1
  <2>2. CASE ~(l < i)
    <3>1. l + 1 \in 1 .. n + 1 /\ ~(l + 1 < i) /\ l + 1 # i /\ l + 1 - 1 = l
      BY <1>2, <2>2
    <3>2. r[l + 1] = items[l]
      BY <1>3, <3>1
    <3> QED
      BY <3>1, <3>2
  <2> QED
    BY <2>1, <2>2
<1>14. i \in 1 .. n + 1 /\ r[i] = item
  BY <1>2, <1>3
<1>15. Uids(r) = Shown \cup {item.uid}
  <2>1. Uids(r) \subseteq Shown \cup {item.uid}
    BY <1>2, <1>11, <1>12 DEF Uids, Shown
  <2>2. Shown \cup {item.uid} \subseteq Uids(r)
    BY <1>2, <1>11, <1>13, <1>14 DEF Uids, Shown
  <2> QED
    BY <2>1, <2>2
<1> QED
  BY <1>2, <1>3, <1>10, <1>11, <1>12, <1>15 DEF r, n

-----------------------------------------------------------------------------
(* The tab: its items are known, and what is being fetched is known but    *)
(* not yet an item.                                                        *)
TabOK ==
    /\ Shown \subseteq known
    /\ Ordered(items)
    /\ gui.at \in {"message", "add"} => Head(gui.todo) \in known \ Shown
    /\ \A i \in 1 .. Len(uiq) : uiq[i][1] = "new" \/ uiq[i][2] \in Shown
    /\ gui.at # "idle" \/ loadDue \/ items # <<>> => tab

tabVars == <<known, items, gui, uiq, tab, loadDue>>

LEMMA StutterKeepsTab == TabOK /\ UNCHANGED tabVars => TabOK'
  BY DEF TabOK, tabVars, Shown

LEMMA NothingShown == Uids(<<>>) = {} /\ Ordered(<<>>) /\ Len(<<>>) = 0
<1>1. Len(<<>>) = 0 /\ DOMAIN <<>> = {}
  OBVIOUS
<1> QED
  BY <1>1 DEF Uids, Ordered

LEMMA EmptyTab ==
    ASSUME items' = <<>>, gui'.at = "idle", loadDue' => tab',
           \A i \in 1 .. Len(uiq') : uiq'[i][1] = "new"
    PROVE  TabOK'
<1>1. Shown' = {}
  BY NothingShown DEF Shown, Uids
<1>2. Ordered(items')
  BY NothingShown
<1> QED
  BY <1>1, <1>2 DEF TabOK

LEMMA NoSignals == Len(<<>>) = 0
  OBVIOUS

LEMMA InitTab == Init => TabOK
<1> SUFFICES ASSUME Init PROVE TabOK
  OBVIOUS
<1>1. Shown = {}
  BY NothingShown DEF Init, Shown, Uids
<1> QED
  BY <1>1, NothingShown, NoSignals DEF Init, TabOK, Resting

LEMMA StopKeepsTab == Stop => TabOK'
<1> SUFFICES ASSUME Stop PROVE TabOK'
  OBVIOUS
<1>1. items' = <<>> /\ gui' = Resting /\ loadDue' = FALSE /\ uiq' = <<>>
  BY DEF Stop
<1>2. gui'.at = "idle"
  BY <1>1 DEF Resting
<1>3. \A i \in 1 .. Len(uiq') : uiq'[i][1] = "new"
  BY <1>1, NoSignals
<1> QED
  BY <1>1, <1>2, <1>3, EmptyTab

LEMMA ShowIsNew ==
    ASSUME NEW us \in Seq(Messages), Show(us)
    PROVE  /\ known \subseteq known'
           /\ gui'.at = "message" => Head(gui'.todo) \in known' \ known
           /\ gui'.at \in {"idle", "message"}
<1>1. CASE gui' = Resting /\ known' = known
  BY <1>1 DEF Resting
<1>2. CASE \E rest \in Seq(Messages) :
              /\ Head(rest) \notin known
              /\ known' = known \cup {Head(rest)}
              /\ gui' = [at |-> "message", todo |-> rest, sent |-> FALSE]
  BY <1>2
<1> QED
  BY <1>1, <1>2, ShowStarts

LEMMA SignalsOfTail ==
    ASSUME TabOK, uiq \in Seq(Signals), uiq # <<>>
    PROVE  \A i \in 1 .. Len(Tail(uiq)) : Tail(uiq)[i][1] = "new" \/ Tail(uiq)[i][2] \in Shown
<1>1. \A i \in 1 .. Len(Tail(uiq)) : i + 1 \in 1 .. Len(uiq) /\ Tail(uiq)[i] = uiq[i + 1]
  <2>1. /\ Len(uiq) \in Nat /\ Len(Tail(uiq)) = Len(uiq) - 1
        /\ \A i \in 1 .. Len(Tail(uiq)) : Tail(uiq)[i] = uiq[i + 1]
    BY HeadTailProperties, LenProperties
  <2> QED
    BY <2>1
<1> QED
  BY <1>1 DEF TabOK

LEMMA SignalsOfAppend ==
    ASSUME TabOK, uiq \in Seq(Signals), NEW s \in Signals, s[1] = "new" \/ s[2] \in Shown
    PROVE  \A i \in 1 .. Len(Append(uiq, s)) :
              Append(uiq, s)[i][1] = "new" \/ Append(uiq, s)[i][2] \in Shown
<1> TAKE i \in 1 .. Len(Append(uiq, s))
<1>1. Append(uiq, s) \in Seq(Signals)
  BY SeqAppend
<1>2. i \in DOMAIN Append(uiq, s) /\ DOMAIN uiq = 1 .. Len(uiq)
  BY <1>1, LenProperties
<1>3. \/ i \in 1 .. Len(uiq) /\ Append(uiq, s)[i] = uiq[i]
      \/ Append(uiq, s)[i] = s
  BY <1>2, AppendElements
<1> QED
  BY <1>3 DEF TabOK

LEMMA ExecuteCallKeepsTab == Queues /\ TabOK /\ ExecuteCall => TabOK'
<1> SUFFICES ASSUME Queues, TabOK, ExecuteCall PROVE TabOK'
  OBVIOUS
<1>1. /\ dbq \in Seq(Calls) /\ dbq # <<>> /\ WaitsFor(dbq, gui) /\ gui \in Guis /\ uiq \in Seq(Signals)
  BY DEF Queues, ExecuteCall
<1>2. PICK call \in Calls : call = Head(dbq) /\ 1 \in 1 .. Len(dbq) /\ call = dbq[1]
  BY <1>1, SeqTail, HeadTailProperties, LenProperties, EmptySeq
<1>3. CASE /\ Announced(call) /\ Answered(call)
           /\ UNCHANGED <<widgets>>
  <2>1. /\ known' = known /\ items' = items /\ tab' = tab /\ loadDue' = loadDue /\ Shown' = Shown
    BY <1>3 DEF widgets, Shown
  <2>2. \A i \in 1 .. Len(uiq') : uiq'[i][1] = "new" \/ uiq'[i][2] \in Shown
    <3>1. CASE call[1] = "store"
      <4>1. <<"new", call[2]>> \in Signals
        BY <3>1 DEF Calls, Signals
      <4>2. uiq' = Append(uiq, <<"new", call[2]>>)
        BY <1>3, <3>1 DEF Announced
      <4>3. PICK s \in Signals : s = <<"new", call[2]>> /\ s[1] = "new"
        BY <4>1
      <4> QED
        BY <1>1, <4>2, <4>3, SignalsOfAppend
    <3>2. CASE call[1] # "store"
      BY <1>3, <3>2 DEF Announced, TabOK
    <3> QED
      BY <3>1, <3>2
  <2>3. /\ gui'.at \in {"message", "add"} => Head(gui'.todo) \in known \ Shown
        /\ gui'.at # "idle" => gui.at # "idle"
    <3>1. CASE call[1] = "last"
      <4>1. gui' = [gui EXCEPT !.at = "next", !.todo = LastMessages(call[2])]
        BY <1>3, <3>1 DEF Answered
      <4>2. gui.at = "list" /\ gui'.at = "next"
        BY <1>1, <1>2, <3>1, <4>1 DEF WaitsFor, Guis
      <4> QED
        BY <4>2
    <3>2. CASE call[1] = "message"
      <4>1. gui.at \in {"message", "reload"}
        BY <1>1, <1>2, <3>2 DEF WaitsFor
      <4>2. gui' = [gui EXCEPT !.at = IF gui.at = "message" THEN "add" ELSE "update", !.sent = call[2] \in sent]
        BY <1>3, <3>2 DEF Answered
      <4>3. gui'.at = (IF gui.at = "message" THEN "add" ELSE "update") /\ gui'.todo = gui.todo
        BY <1>1, <4>2 DEF Guis
      <4> QED
        BY <4>1, <4>3 DEF TabOK
    <3>3. CASE call[1] # "last" /\ call[1] # "message"
      <4>1. gui' = gui
        BY <1>3, <3>3 DEF Answered
      <4> QED
        BY <4>1 DEF TabOK
    <3> QED
      BY <3>1, <3>2, <3>3
  <2> QED
    BY <2>1, <2>2, <2>3 DEF TabOK
<1>4. CASE UNCHANGED <<uiq, widgets, gui>>
  BY <1>4, StutterKeepsTab DEF tabVars, widgets
<1>5. CASE Stop
  BY <1>5, StopKeepsTab
<1> QED
  BY <1>2, <1>3, <1>4, <1>5 DEF ExecuteCall

LEMMA RelayKeepsTab == Queues /\ TabOK /\ Relay => TabOK'
<1> SUFFICES ASSUME Queues, TabOK, Relay PROVE TabOK'
  OBVIOUS
<1>1. /\ mcq \in Seq(MSignals) /\ mcq # <<>> /\ uiq \in Seq(Signals)
      /\ uiq' = IF Head(mcq)[2] \in Shown THEN Append(uiq, Head(mcq)) ELSE uiq
      /\ UNCHANGED <<known, items, gui, tab, loadDue>>
  BY DEF Queues, Relay, widgets
<1>2. Head(mcq) \in Signals
  BY <1>1, SeqTail DEF MSignals, Signals
<1>3. \A i \in 1 .. Len(uiq') : uiq'[i][1] = "new" \/ uiq'[i][2] \in Shown
  <2>1. CASE Head(mcq)[2] \in Shown
    BY <1>1, <1>2, <2>1, SignalsOfAppend
  <2>2. CASE Head(mcq)[2] \notin Shown
    BY <1>1, <2>2 DEF TabOK
  <2> QED
    BY <2>1, <2>2
<1>4. Shown' = Shown
  BY <1>1 DEF Shown
<1> QED
  BY <1>1, <1>3, <1>4 DEF TabOK

LEMMA LoadMessagesKeepsTab ==
    ASSUME Queues, TabOK, LoadLastNMessages \/ LoadMoreMessages
    PROVE  TabOK'
<1>1. /\ tab /\ gui' = [Resting EXCEPT !.at = "list"]
      /\ UNCHANGED <<uiq, tab, known, items>>
  BY DEF LoadLastNMessages, LoadMoreMessages, TabOK, widgets
<1>2. gui'.at = "list" /\ Shown' = Shown
  BY <1>1 DEF Resting, Shown
<1> QED
  BY <1>1, <1>2 DEF TabOK

LEMMA ShowLastMessagesKeepsTab == Queues /\ TabOK /\ ShowLastMessages => TabOK'
<1> SUFFICES ASSUME Queues, TabOK, ShowLastMessages PROVE TabOK'
  OBVIOUS
<1>1. /\ gui.at = "next" /\ Show(gui.todo) /\ gui.todo \in Seq(Messages)
      /\ UNCHANGED <<uiq, tab, loadDue, items>>
  BY DEF ShowLastMessages, Queues, Guis
<1>2. /\ known \subseteq known' /\ gui'.at \in {"idle", "message"}
      /\ gui'.at = "message" => Head(gui'.todo) \in known' \ known
  BY <1>1, ShowIsNew
<1>3. Shown' = Shown
  BY <1>1 DEF Shown
<1> QED
  BY <1>1, <1>2, <1>3 DEF TabOK

LEMMA OnNewMessageKeepsTab == Queues /\ TabOK /\ OnNewMessage => TabOK'
<1> SUFFICES ASSUME Queues, TabOK, OnNewMessage PROVE TabOK'
  OBVIOUS
<1>1. /\ gui.at = "idle" /\ uiq # <<>> /\ uiq' = Tail(uiq) /\ uiq \in Seq(Signals)
      /\ IF tab THEN Show(<<Head(uiq)[2]>>) ELSE UNCHANGED <<known, dbq, gui>>
      /\ UNCHANGED <<tab, loadDue, items>>
  BY Zenon DEF OnNewMessage, Signalled, Idle, Queues
<1>2. \A i \in 1 .. Len(uiq') : uiq'[i][1] = "new" \/ uiq'[i][2] \in Shown
  BY <1>1, SignalsOfTail
<1>3. Shown' = Shown
  BY <1>1 DEF Shown
<1>4. CASE tab
  <2>1. Head(uiq) \in Signals
    BY <1>1, SeqTail
  <2>2. <<Head(uiq)[2]>> \in Seq(Messages)
    BY <2>1 DEF Signals
  <2>3. Show(<<Head(uiq)[2]>>)
    BY <1>1, <1>4
  <2>4. /\ known \subseteq known' /\ gui'.at \in {"idle", "message"}
        /\ gui'.at = "message" => Head(gui'.todo) \in known' \ known
    BY <2>2, <2>3, ShowIsNew
  <2> QED
    BY <1>1, <1>2, <1>3, <1>4, <2>4 DEF TabOK
<1>5. CASE ~tab
  BY <1>1, <1>2, <1>3, <1>5 DEF TabOK
<1> QED
  BY <1>4, <1>5

LEMMA AddChatWidgetItemKeepsTab == Queues /\ TabOK /\ AddChatWidgetItem => TabOK'
<1> SUFFICES ASSUME Queues, TabOK, AddChatWidgetItem PROVE TabOK'
  OBVIOUS
<1> DEFINE item == Item(Head(gui.todo), gui.sent)
<1>1. /\ gui.at = "add" /\ items' = InsertItem(item) /\ Show(Tail(gui.todo))
      /\ UNCHANGED <<uiq, tab, loadDue>>
  BY DEF AddChatWidgetItem
<1>2. gui.todo \in Seq(Messages) /\ gui.todo # <<>> /\ gui.sent \in BOOLEAN /\ items \in Seq(Items)
  BY <1>1 DEF Queues, Guis, Busy
<1>3. Head(gui.todo) \in Messages /\ Tail(gui.todo) \in Seq(Messages)
  BY <1>2, SeqTail
<1>4. item \in Items /\ item.uid = Head(gui.todo)
  BY <1>2, <1>3 DEF Item, Items
<1> HIDE DEF item
<1>5. item.uid \in known /\ item.uid \notin Shown
  BY <1>1, <1>4 DEF TabOK
<1>6. Ordered(items') /\ Uids(items') = Shown \cup {item.uid}
  BY <1>1, <1>2, <1>4, <1>5, InsertStaysOrdered DEF TabOK
<1>7. Shown' = Shown \cup {item.uid}
  BY <1>6 DEF Shown, Uids
<1>8. /\ known \subseteq known' /\ gui'.at \in {"idle", "message"}
      /\ gui'.at = "message" => Head(gui'.todo) \in known' \ known
  BY <1>1, <1>3, ShowIsNew
<1>9. Shown' \subseteq known
  BY <1>5, <1>7 DEF TabOK
<1>10. tab
  BY <1>1 DEF TabOK
<1>11. \A i \in 1 .. Len(uiq) : uiq[i][1] = "new" \/ uiq[i][2] \in Shown'
  BY <1>7 DEF TabOK
<1> QED
  BY <1>1, <1>6, <1>8, <1>9, <1>10, <1>11 DEF TabOK

LEMMA OnMessageChangedKeepsTab == Queues /\ TabOK /\ OnMessageChanged => TabOK'
<1> SUFFICES ASSUME Queues, TabOK, OnMessageChanged PROVE TabOK'
  OBVIOUS
<1>1. /\ gui.at = "idle" /\ uiq # <<>> /\ uiq' = Tail(uiq) /\ uiq \in Seq(Signals)
      /\ \/ gui' = [at |-> "reload", todo |-> <<Head(uiq)[2]>>, sent |-> FALSE] /\ items # <<>>
         \/ gui' = gui
      /\ UNCHANGED <<known, items, tab, loadDue>>
  <2>1. (\E i \in DOMAIN items : items[i].uid = Head(uiq)[2]) => items # <<>>
    OBVIOUS
  <2> QED
    BY <2>1 DEF OnMessageChanged, Signalled, Idle, widgets, Queues
<1>2. \A i \in 1 .. Len(uiq') : uiq'[i][1] = "new" \/ uiq'[i][2] \in Shown
  BY <1>1, SignalsOfTail
<1>3. Shown' = Shown
  BY <1>1 DEF Shown
<1> QED
  BY <1>1, <1>2, <1>3 DEF TabOK

LEMMA SameUidsKeepTab ==
    ASSUME Queues, TabOK, items' \in Seq(Items), Len(items') = Len(items),
           \A i \in 1 .. Len(items) : items'[i].uid = items[i].uid,
           gui' = gui \/ gui' = Resting, UNCHANGED <<known, uiq, tab, loadDue>>
    PROVE  TabOK'
<1>1. Ordered(items') /\ Uids(items') = Uids(items)
  BY SameUidsStayOrdered DEF Queues, TabOK
<1>2. Shown' = Shown
  BY <1>1 DEF Shown, Uids
<1>3. items' # <<>> => items # <<>>
  BY EmptySeq DEF Queues
<1>4. gui'.at # "idle" => gui' = gui
  BY DEF Resting
<1> QED
  BY <1>1, <1>2, <1>3, <1>4 DEF TabOK

LEMMA SameLength ==
    ASSUME NEW m \in Nat, NEW n \in Nat, 1 .. m = 1 .. n
    PROVE  m = n
<1>1. ~(m < n)
  <2> SUFFICES ASSUME m < n PROVE FALSE
    OBVIOUS
  <2>1. n \in 1 .. n /\ n \notin 1 .. m
    OBVIOUS
  <2> QED
    BY <2>1
<1>2. ~(n < m)
  <2> SUFFICES ASSUME n < m PROVE FALSE
    OBVIOUS
  <2>1. m \in 1 .. m /\ m \notin 1 .. n
    OBVIOUS
  <2> QED
    BY <2>1
<1> QED
  BY <1>1, <1>2

LEMMA UpdateItemKeepsTab == Queues /\ TabOK /\ UpdateItem => TabOK'
<1> SUFFICES ASSUME Queues, TabOK, UpdateItem PROVE TabOK'
  OBVIOUS
<1>1. /\ gui' = Resting /\ UNCHANGED <<known, uiq, tab, loadDue>>
      /\ items' = [i \in DOMAIN items |-> IF items[i].uid = Head(gui.todo)
                                          THEN [items[i] EXCEPT !.sent = gui.sent] ELSE items[i]]
  BY DEF UpdateItem
<1>2. items \in Seq(Items) /\ items' \in Seq(Items)
  BY UpdateItemKeepsQueues DEF Queues
<1>3. DOMAIN items = 1 .. Len(items) /\ DOMAIN items' = 1 .. Len(items')
      /\ Len(items) \in Nat /\ Len(items') \in Nat /\ \A i \in 1 .. Len(items) : items[i] \in Items
  BY <1>2, LenProperties, ElementOfSeq
<1>4. DOMAIN items' = DOMAIN items
  BY <1>1
<1>5. Len(items') = Len(items)
  BY <1>3, <1>4, SameLength
<1>6. \A item \in Items : [item EXCEPT !.sent = gui.sent].uid = item.uid
  BY DEF Items
<1>7. \A i \in 1 .. Len(items) : items'[i].uid = items[i].uid
  BY <1>1, <1>3, <1>6
<1> QED
  BY <1>1, <1>2, <1>5, <1>7, SameUidsKeepTab

LEMMA DeleteItemKeepsTab ==
    ASSUME Queues, TabOK, NEW i \in DOMAIN items, DeleteItem(i)
    PROVE  TabOK'
<1>1. /\ items' = [items EXCEPT ![i].deleted = TRUE]
      /\ UNCHANGED <<gui, known, uiq, tab, loadDue>>
  BY DEF DeleteItem
<1>2. items \in Seq(Items) /\ items' \in Seq(Items)
  BY DeleteItemKeepsQueues DEF Queues
<1>3. DOMAIN items = 1 .. Len(items) /\ DOMAIN items' = 1 .. Len(items')
      /\ Len(items) \in Nat /\ Len(items') \in Nat /\ \A j \in 1 .. Len(items) : items[j] \in Items
  BY <1>2, LenProperties, ElementOfSeq
<1>4. DOMAIN items' = DOMAIN items
  BY <1>1
<1>5. Len(items') = Len(items)
  BY <1>3, <1>4, SameLength
<1>6. \A item \in Items : [item EXCEPT !.deleted = TRUE].uid = item.uid
  BY DEF Items
<1>7. \A j \in 1 .. Len(items) : items'[j].uid = items[j].uid
  BY <1>1, <1>3, <1>6
<1> QED
  BY <1>1, <1>2, <1>5, <1>7, SameUidsKeepTab

LEMMA OnMessageDeletedKeepsTab == Queues /\ TabOK /\ OnMessageDeleted => TabOK'
<1> SUFFICES ASSUME Queues, TabOK, OnMessageDeleted PROVE TabOK'
  OBVIOUS
<1> DEFINE u == Head(uiq)[2]
           I == {i \in DOMAIN items : items[i].uid # u}
           J == {i \in DOMAIN uiq : uiq[i][1] = "new" \/ uiq[i][2] # u}
<1>1. /\ gui.at = "idle" /\ items' = Kept(items, I) /\ uiq' = Kept(uiq, J)
      /\ UNCHANGED <<tab, loadDue, known, gui>>
  BY DEF OnMessageDeleted, OnItemMessageDeleted, Signalled, Idle
<1>2. items \in Seq(Items) /\ uiq \in Seq(Signals) /\ I \in SUBSET DOMAIN items /\ J \in SUBSET DOMAIN uiq
  BY DEF Queues
<1>3. {items[i].uid : i \in I} = Shown \ {u}
  BY DEF Shown
<1>4. \A j \in J : uiq[j][1] = "new" \/ uiq[j][2] \in Shown \ {u}
  BY <1>2, LenProperties DEF TabOK
<1> HIDE DEF I, J, u
<1>5. Ordered(Kept(items, I)) /\ Uids(Kept(items, I)) = Shown \ {u}
  BY <1>2, <1>3, KeptStaysOrdered DEF TabOK
<1>6. Shown' = Shown \ {u}
  BY <1>1, <1>5 DEF Shown, Uids
<1>7. Kept(uiq, J) \in Seq(Signals) /\ ToSet(Kept(uiq, J)) = {uiq[j] : j \in J}
  BY <1>2, KeptElements
<1>8. \A k \in 1 .. Len(uiq') : uiq'[k] \in {uiq[j] : j \in J}
  BY <1>1, <1>7, LenProperties DEF ToSet
<1>9. \A k \in 1 .. Len(uiq') : uiq'[k][1] = "new" \/ uiq'[k][2] \in Shown'
  BY <1>4, <1>6, <1>8
<1>10. items' # <<>> => items # <<>>
  <2>1. items = <<>> => I = {}
    BY <1>2
  <2> QED
    BY <1>1, <1>2, <2>1, KeptElements
<1> QED
  BY <1>1, <1>5, <1>6, <1>9, <1>10 DEF TabOK

LEMMA OpenTabKeepsTab == Queues /\ TabOK /\ OpenTab => TabOK'
<1> SUFFICES ASSUME Queues, TabOK, OpenTab PROVE TabOK'
  OBVIOUS
<1>1. gui.at = "idle" /\ ~tab /\ tab' /\ items' = <<>> /\ UNCHANGED <<uiq, gui>>
  BY DEF OpenTab, Click, Idle
<1>2. Shown = {}
  BY <1>1, NothingShown DEF TabOK, Shown, Uids
<1>3. \A i \in 1 .. Len(uiq') : uiq'[i][1] = "new"
  BY <1>1, <1>2 DEF TabOK
<1> QED
  BY <1>1, <1>3, EmptyTab

LEMMA CloseTabKeepsTab == Queues /\ TabOK /\ CloseTab => TabOK'
<1> SUFFICES ASSUME Queues, TabOK, CloseTab PROVE TabOK'
  OBVIOUS
<1> DEFINE J == {i \in DOMAIN uiq : uiq[i][1] = "new"}
<1>1. gui.at = "idle" /\ items' = <<>> /\ loadDue' = FALSE /\ uiq' = Kept(uiq, J) /\ gui' = gui
  BY DEF CloseTab, Click, Idle, ToTheTab
<1>2. uiq \in Seq(Signals) /\ J \in SUBSET DOMAIN uiq /\ \A j \in J : uiq[j][1] = "new"
  BY DEF Queues
<1> HIDE DEF J
<1>3. Kept(uiq, J) \in Seq(Signals) /\ ToSet(Kept(uiq, J)) = {uiq[j] : j \in J}
  BY <1>2, KeptElements
<1>4. \A k \in 1 .. Len(uiq') : uiq'[k] \in {uiq[j] : j \in J}
  BY <1>1, <1>3, LenProperties DEF ToSet
<1>5. \A k \in 1 .. Len(uiq') : uiq'[k][1] = "new"
  BY <1>2, <1>4
<1> QED
  BY <1>1, <1>5, EmptyTab

LEMMA StepKeepsTab == Queues /\ TabOK /\ [Next]_vars => TabOK'
<1> SUFFICES ASSUME Queues, TabOK, [Next]_vars PROVE TabOK'
  OBVIOUS
<1>1. CASE ExecuteCall
  BY <1>1, ExecuteCallKeepsTab
<1>2. CASE \E u \in Messages : StoreMessage(u) \/ StoreResult(u)
  BY <1>2, StutterKeepsTab DEF StoreMessage, StoreResult, tabVars, widgets
<1>3. CASE Relay
  BY <1>3, RelayKeepsTab
<1>4. CASE WindowStep
  BY <1>4, LoadMessagesKeepsTab, ShowLastMessagesKeepsTab, OnNewMessageKeepsTab,
     AddChatWidgetItemKeepsTab, OnMessageChangedKeepsTab, UpdateItemKeepsTab,
     OnMessageDeletedKeepsTab DEF WindowStep
<1>5. CASE UserStep
  <2>1. CASE OpenTab \/ CloseTab \/ LoadMoreMessages
    BY <2>1, OpenTabKeepsTab, CloseTabKeepsTab, LoadMessagesKeepsTab
  <2>2. CASE \E i \in DOMAIN items : DeleteItem(i)
    BY <2>2, DeleteItemKeepsTab
  <2>3. CASE DeleteByCount \/ DeleteByAge \/ DeleteByDate
    BY <2>3, RulesOfTheDialog, StutterKeepsTab DEF DeleteMany, tabVars, widgets
  <2> QED
    BY <1>5, <2>1, <2>2, <2>3 DEF UserStep
<1>6. CASE Crash \/ Quit
  BY <1>6, StopKeepsTab DEF Crash, Quit
<1>7. CASE Restart \/ UNCHANGED vars
  BY <1>7, StutterKeepsTab DEF Restart, vars, tabVars, widgets
<1> QED
  BY <1>1, <1>2, <1>3, <1>4, <1>5, <1>6, <1>7 DEF Next

LEMMA AlwaysTab == Spec => []TabOK
  BY InitTab, StepKeepsTab, AlwaysQueues, PTL DEF Spec

-----------------------------------------------------------------------------
(* What is known as sent is ours and has its row: a report is only made of *)
(* our messages and finds the row, or changes nothing.                     *)
OursOnly(q) == \A i \in 1 .. Len(q) : q[i][1] = "result" => q[i][2] \in Ours

SentOK == sent \subseteq Ours \cap Rows /\ OursOnly(dbq)

LEMMA OursOnlyGrows ==
    ASSUME NEW q \in Seq(Calls), OursOnly(q), NEW c \in Calls, c[1] = "result" => c[2] \in Ours
    PROVE  OursOnly(Append(q, c))
<1> SUFFICES ASSUME NEW i \in 1 .. Len(Append(q, c)), Append(q, c)[i][1] = "result"
             PROVE  Append(q, c)[i][2] \in Ours
  BY DEF OursOnly
<1>1. Append(q, c) \in Seq(Calls)
  BY SeqAppend
<1>2. i \in DOMAIN Append(q, c) /\ DOMAIN q = 1 .. Len(q)
  BY <1>1, LenProperties
<1>3. \/ i \in 1 .. Len(q) /\ Append(q, c)[i] = q[i]
      \/ Append(q, c)[i] = c
  BY <1>2, AppendElements
<1> QED
  BY <1>3 DEF OursOnly

LEMMA OursOnlyShrinks ==
    ASSUME NEW q \in Seq(Calls), q # <<>>, OursOnly(q)
    PROVE  OursOnly(Tail(q))
<1>1. \A i \in 1 .. Len(Tail(q)) : i + 1 \in 1 .. Len(q) /\ Tail(q)[i] = q[i + 1]
  <2>1. /\ Len(q) \in Nat /\ Len(Tail(q)) = Len(q) - 1
        /\ \A i \in 1 .. Len(Tail(q)) : Tail(q)[i] = q[i + 1]
    BY HeadTailProperties, LenProperties
  <2> QED
    BY <2>1
<1> QED
  BY <1>1 DEF OursOnly

LEMMA CallKeepsRows ==
    ASSUME NEW call \in Calls, ~Throws(call), NEW v \in Rows, v \notin ToSet(Victims(call))
    PROVE  Row(v) \in Apply(Effects(call), disk)
<1> DEFINE e == Effects(call)
<1>1. Row(v) \in disk
  BY DEF Rows
<1>2. \A i \in DOMAIN e : Row(v) \notin e[i].removes
  <2>1. CASE call[1] = "store"
    <3> DEFINE E == [adds : SUBSET (AllMedia(call[2]) \cup {Row(call[2])}), removes : {{}}]
    <3>1. e \in Seq(E)
      BY <2>1, EffectsOfCalls DEF StoresSteps
    <3> HIDE DEF e
    <3>2. \A i \in DOMAIN e : e[i] \in E
      <4> HIDE DEF E
      <4> QED
        BY <3>1, ElementOfSeq, LenProperties
    <3> QED
      BY <3>2
  <2>2. CASE call[1] \in {"delete", "deleteMany"}
    <3> DEFINE us == ToSet(Victims(call))
               E == [adds : {{}}, removes : SUBSET UNION {AllMedia(u) \cup {Row(u)} : u \in us}]
    <3>1. e \in Seq(E)
      BY <2>2, EffectsOfCalls DEF DeletesSteps
    <3> HIDE DEF e, us
    <3>2. \A i \in DOMAIN e : e[i] \in E
      <4> HIDE DEF E
      <4> QED
        BY <3>1, ElementOfSeq, LenProperties
    <3>3. \A u \in us : Row(v) \notin AllMedia(u) \cup {Row(u)}
      <4>1. v \notin us
        BY DEF us
      <4> QED
        BY <4>1, MediaDiffer, FactsDiffer
    <3> QED
      BY <3>2, <3>3
  <2>3. CASE e = <<>>
    BY <2>3
  <2> QED
    BY <2>1, <2>2, <2>3, EffectsOfCalls
<1> HIDE DEF e
<1>3. Row(v) \in Apply(e, disk)
  BY <1>1, <1>2 DEF Apply
<1> QED
  BY <1>3 DEF e

LEMMA InitSent == Init => SentOK
<1> SUFFICES ASSUME Init PROVE SentOK
  OBVIOUS
<1>1. /\ disk = UNION {Apply(StoreEffects(v), {}) : v \in Earlier}
      /\ sent = Earlier \cap Ours /\ dbq = <<>> /\ Earlier \subseteq Messages
  BY HistoryAssumption DEF Init
<1>2. ASSUME NEW v \in Earlier
      PROVE  Row(v) \in Apply(StoreEffects(v), {})
  <2> DEFINE e == StoreEffects(v)
             E == [adds : SUBSET (AllMedia(v) \cup {Row(v)}), removes : {{}}]
  <2>1. StoresSteps(v, e)
    BY <1>1, StoreSteps
  <2> HIDE DEF e
  <2>2. e \in Seq(E) /\ DOMAIN e = 1 .. Len(e)
    BY <2>1, LenProperties DEF StoresSteps
  <2>3. \A i \in DOMAIN e : e[i] \in E
    <3> HIDE DEF E
    <3> QED
      BY <2>2, ElementOfSeq
  <2>4. UNION {e[i].removes : i \in DOMAIN e} = {}
    BY <2>3
  <2>5. PICK i \in 1 .. Len(e) : Row(v) \in e[i].adds
    BY <2>1 DEF StoresSteps
  <2>6. Row(v) \in Apply(e, {})
    BY <2>2, <2>4, <2>5 DEF Apply
  <2> QED
    BY <2>6 DEF e
<1>3. Earlier \subseteq Rows
  BY <1>1, <1>2 DEF Rows
<1> QED
  BY <1>1, <1>3, NoSignals DEF SentOK, OursOnly

LEMMA StopKeepsSent ==
    ASSUME Stop, sent' \subseteq Ours \cap Rows'
    PROVE  SentOK'
  BY NoSignals DEF Stop, SentOK, OursOnly

LEMMA ExecuteCallKeepsSent == Queues /\ SentOK /\ ExecuteCall => SentOK'
<1> SUFFICES ASSUME Queues, SentOK, ExecuteCall PROVE SentOK'
  OBVIOUS
<1>1. dbq \in Seq(Calls) /\ dbq # <<>> /\ OursOnly(dbq) /\ OursOnly(Tail(dbq))
  BY OursOnlyShrinks DEF Queues, ExecuteCall, SentOK
<1>2. PICK call \in Calls : call = Head(dbq) /\ 1 \in 1 .. Len(dbq) /\ call = dbq[1]
  BY <1>1, SeqTail, HeadTailProperties, LenProperties, EmptySeq
<1>3. CASE ~Throws(call) /\ Executed(call) /\ dbq' = Tail(dbq)
  <2>1. /\ disk' = Apply(Effects(call), disk)
        /\ sent' = IF call[1] = "result" THEN sent \cup {call[2]} ELSE sent \ ToSet(Victims(call))
    BY <1>3 DEF Executed
  <2>2. CASE call[1] = "result"
    <3>1. call[2] \in Rows /\ call[2] \in Ours /\ call[2] \in Messages
      BY <1>1, <1>2, <1>3, <2>2 DEF Throws, OursOnly, Rows
    <3>2. Effects(call) = <<>>
      BY <2>2 DEF Effects
    <3>3. Apply(<<>>, disk) = disk
      BY DEF Apply
    <3>4. Rows' = Rows
      BY <2>1, <3>2, <3>3 DEF Rows
    <3> QED
      BY <1>1, <1>3, <2>1, <2>2, <3>1, <3>4 DEF SentOK
  <2>3. CASE call[1] # "result"
    <3>1. ASSUME NEW v \in sent'
          PROVE  v \in Ours /\ v \in Rows'
      <4>1. v \in Ours /\ v \in Rows /\ v \notin ToSet(Victims(call)) /\ v \in Messages
        BY <2>1, <2>3, <3>1, RowsAreMessages DEF SentOK
      <4>2. Row(v) \in disk'
        BY <1>3, <2>1, <4>1, CallKeepsRows
      <4> QED
        BY <4>1, <4>2 DEF Rows
    <3> QED
      BY <1>1, <1>3, <3>1 DEF SentOK
  <2> QED
    BY <2>2, <2>3
<1>4. CASE UNCHANGED <<disk, sent>> /\ dbq' = Tail(dbq)
  BY <1>1, <1>4 DEF SentOK, Rows
<1>5. CASE UNCHANGED <<disk, sent>> /\ Stop
  BY <1>5, StopKeepsSent DEF SentOK, Rows
<1> QED
  BY <1>2, <1>3, <1>4, <1>5 DEF ExecuteCall, tables

(* What the others do for the database: nothing, or they post a call.      *)
LEMMA PostKeepsSent ==
    ASSUME Queues, SentOK, UNCHANGED <<disk, sent>>,
           \/ dbq' = dbq
           \/ \E c \in Calls : dbq' = Append(dbq, c) /\ (c[1] = "result" => c[2] \in Ours)
    PROVE  SentOK'
<1>1. OursOnly(dbq')
  BY OursOnlyGrows DEF SentOK, Queues
<1> QED
  BY <1>1 DEF SentOK, Rows

LEMMA ShowPosts ==
    ASSUME NEW us \in Seq(Messages), Show(us)
    PROVE  \/ dbq' = dbq
           \/ \E c \in Calls : dbq' = Append(dbq, c) /\ (c[1] = "result" => c[2] \in Ours)
<1>1. CASE dbq' = dbq
  BY <1>1
<1>2. CASE \E rest \in Seq(Messages) :
              Head(rest) \in Messages /\ dbq' = Append(dbq, <<"message", Head(rest)>>)
  <2>1. PICK u \in Messages : dbq' = Append(dbq, <<"message", u>>)
    BY <1>2
  <2>2. <<"message", u>> \in Calls /\ <<"message", u>>[1] # "result"
    BY DEF Calls
  <2> QED
    BY <2>1, <2>2
<1> QED
  BY <1>1, <1>2, ShowStarts

LEMMA WindowStepKeepsSent == Queues /\ SentOK /\ WindowStep => SentOK'
<1> SUFFICES ASSUME Queues, SentOK, WindowStep PROVE SentOK'
  OBVIOUS
<1> DEFINE Posts == \/ dbq' = dbq
                    \/ \E c \in Calls : dbq' = Append(dbq, c) /\ (c[1] = "result" => c[2] \in Ours)
<1>1. UNCHANGED <<disk, sent>>
  BY DEF WindowStep, LoadLastNMessages, ShowLastMessages, OnNewMessage, AddChatWidgetItem,
     OnMessageChanged, UpdateItem, OnMessageDeleted, tables
<1>2. ASSUME LoadLastNMessages PROVE Posts
  <2>1. <<"last", PageSize>> \in Calls /\ <<"last", PageSize>>[1] # "result"
    BY HistoryAssumption DEF Calls
  <2>2. dbq' = Append(dbq, <<"last", PageSize>>)
    BY <1>2 DEF LoadLastNMessages
  <2> QED
    BY <2>1, <2>2
<1>3. ASSUME ShowLastMessages PROVE Posts
  BY <1>3, ShowPosts DEF ShowLastMessages, Queues, Guis
<1>4. ASSUME OnNewMessage PROVE Posts
  <2>1. uiq # <<>> /\ uiq \in Seq(Signals)
    BY <1>4 DEF OnNewMessage, Signalled, Queues
  <2>2. Head(uiq) \in Signals
    BY <2>1, SeqTail
  <2>3. <<Head(uiq)[2]>> \in Seq(Messages)
    BY <2>2 DEF Signals
  <2>4. IF tab THEN Show(<<Head(uiq)[2]>>) ELSE UNCHANGED <<known, dbq, gui>>
    BY <1>4, Zenon DEF OnNewMessage
  <2>5. Show(<<Head(uiq)[2]>>) \/ dbq' = dbq
    BY <2>4
  <2> QED
    BY <2>3, <2>5, ShowPosts
<1>5. ASSUME AddChatWidgetItem PROVE Posts
  <2>1. gui.todo \in Seq(Messages) /\ gui.todo # <<>> /\ Show(Tail(gui.todo))
    BY <1>5 DEF AddChatWidgetItem, Queues, Guis, Busy
  <2>2. Tail(gui.todo) \in Seq(Messages)
    BY <2>1, SeqTail
  <2> QED
    BY <2>1, <2>2, ShowPosts
<1>6. ASSUME OnMessageChanged PROVE Posts
  <2>1. uiq # <<>> /\ uiq \in Seq(Signals)
    BY <1>6 DEF OnMessageChanged, Signalled, Queues
  <2>2. Head(uiq) \in Signals
    BY <2>1, SeqTail
  <2>3. <<"message", Head(uiq)[2]>> \in Calls /\ <<"message", Head(uiq)[2]>>[1] # "result"
    BY <2>2 DEF Calls, Signals
  <2>4. dbq' = Append(dbq, <<"message", Head(uiq)[2]>>) \/ dbq' = dbq
    BY <1>6 DEF OnMessageChanged
  <2> QED
    BY <2>3, <2>4
<1>7. ASSUME UpdateItem \/ OnMessageDeleted PROVE Posts
  BY <1>7 DEF UpdateItem, OnMessageDeleted
<1>8. Posts
  BY <1>2, <1>3, <1>4, <1>5, <1>6, <1>7 DEF WindowStep
<1> QED
  BY <1>1, <1>8, PostKeepsSent

LEMMA UserStepKeepsSent == Queues /\ SentOK /\ UserStep => SentOK'
<1> SUFFICES ASSUME Queues, SentOK, UserStep PROVE SentOK'
  OBVIOUS
<1> DEFINE Posts == \/ dbq' = dbq
                    \/ \E c \in Calls : dbq' = Append(dbq, c) /\ (c[1] = "result" => c[2] \in Ours)
<1>1. UNCHANGED <<disk, sent>>
  BY DEF UserStep, OpenTab, CloseTab, LoadMoreMessages, DeleteItem, DeleteByCount, DeleteByAge,
     DeleteByDate, DeleteMany, tables
<1>2. ASSUME OpenTab \/ CloseTab PROVE Posts
  BY <1>2 DEF OpenTab, CloseTab
<1>3. ASSUME LoadMoreMessages PROVE Posts
  <2>1. Cardinality(known) \in Nat
    BY RowsAreFinite, FS_CardinalityType DEF Queues
  <2>2. More + Cardinality(known) \in Nat
    BY <2>1, HistoryAssumption
  <2>3. dbq' = Append(dbq, <<"last", More + Cardinality(known)>>)
    BY <1>3 DEF LoadMoreMessages
  <2>4. PICK n \in Nat : dbq' = Append(dbq, <<"last", n>>)
    BY <2>2, <2>3
  <2>5. <<"last", n>> \in Calls /\ <<"last", n>>[1] # "result"
    BY DEF Calls
  <2> QED
    BY <2>4, <2>5
<1>4. ASSUME \E i \in DOMAIN items : DeleteItem(i) PROVE Posts
  <2>1. PICK i \in DOMAIN items : dbq' = Append(dbq, <<"delete", items[i].uid>>)
    BY <1>4 DEF DeleteItem
  <2>2. items[i].uid \in Messages
    BY ElementsOfItems DEF Queues
  <2>3. <<"delete", items[i].uid>> \in Calls /\ <<"delete", items[i].uid>>[1] # "result"
    BY <2>2 DEF Calls
  <2> QED
    BY <2>1, <2>3
<1>5. ASSUME DeleteByCount \/ DeleteByAge \/ DeleteByDate PROVE Posts
  <2>1. PICK rule \in Rules : DeleteMany(rule)
    BY <1>5, RulesOfTheDialog
  <2>2. <<"deleteMany", rule>> \in Calls /\ <<"deleteMany", rule>>[1] # "result"
    BY DEF Calls
  <2> QED
    BY <2>1, <2>2 DEF DeleteMany
<1>6. Posts
  BY <1>2, <1>3, <1>4, <1>5 DEF UserStep
<1> QED
  BY <1>1, <1>6, PostKeepsSent

LEMMA CrashKeepsSent == Queues /\ SentOK /\ Crash => SentOK'
<1> SUFFICES ASSUME Queues, SentOK, Crash PROVE SentOK'
  OBVIOUS
<1>1. sent' = {u \in sent : Row(u) \in disk'} /\ Stop
  BY DEF Crash
<1>2. sent' \subseteq Ours \cap Rows'
  BY <1>1 DEF SentOK, Rows
<1> QED
  BY <1>1, <1>2, StopKeepsSent

LEMMA StepKeepsSent == Queues /\ SentOK /\ [Next]_vars => SentOK'
<1> SUFFICES ASSUME Queues, SentOK, [Next]_vars PROVE SentOK'
  OBVIOUS
<1>1. CASE ExecuteCall
  BY <1>1, ExecuteCallKeepsSent
<1>2. CASE \E u \in Messages : StoreMessage(u) \/ StoreResult(u)
  <2>1. UNCHANGED <<disk, sent>>
    BY <1>2 DEF StoreMessage, StoreResult, tables
  <2>2. PICK u \in Messages : \/ dbq' = Append(dbq, <<"store", u>>)
                              \/ u \in Ours /\ dbq' = Append(dbq, <<"result", u>>)
    BY <1>2 DEF StoreMessage, StoreResult
  <2>3. /\ <<"store", u>> \in Calls /\ <<"store", u>>[1] # "result"
        /\ <<"result", u>> \in Calls /\ <<"result", u>>[2] = u
    BY DEF Calls
  <2> QED
    BY <2>1, <2>2, <2>3, PostKeepsSent
<1>3. CASE Relay \/ Restart \/ UNCHANGED vars
  BY <1>3, PostKeepsSent DEF Relay, Restart, vars, tables
<1>4. CASE WindowStep
  BY <1>4, WindowStepKeepsSent
<1>5. CASE UserStep
  BY <1>5, UserStepKeepsSent
<1>6. CASE Crash
  BY <1>6, CrashKeepsSent
<1>7. CASE Quit
  BY <1>7, StopKeepsSent DEF Quit, SentOK, Rows, tables
<1> QED
  BY <1>1, <1>2, <1>3, <1>4, <1>5, <1>6, <1>7 DEF Next

LEMMA AlwaysSent == Spec => []SentOK
  BY InitSent, StepKeepsSent, AlwaysQueues, PTL DEF Spec

LEMMA InvariantsMeanOrder == Queues /\ TabOK /\ SentOK => ItemsAreInOrder
<1> SUFFICES ASSUME Queues, TabOK, SentOK PROVE ItemsAreInOrder
  OBVIOUS
<1>1. /\ dbq \in Seq(Calls) /\ mcq \in Seq(MSignals) /\ uiq \in Seq(Signals)
      /\ DOMAIN dbq = 1 .. Len(dbq) /\ DOMAIN uiq = 1 .. Len(uiq) /\ DOMAIN items = 1 .. Len(items)
  BY LenProperties DEF Queues
<1>2. \A i \in DOMAIN dbq :
         dbq[i][1] \in {"store", "result", "delete", "deleteMany", "last", "message"}
  BY <1>1, ElementOfSeq DEF Calls
<1>3. ToSet(mcq) \subseteq {"changed", "deleted"} \X Messages
  BY <1>1, ElementOfSeq, LenProperties DEF ToSet, MSignals
<1>4. \A s \in ToSet(uiq) : s[1] = "new" \/ s[2] \in Shown
  BY <1>1 DEF TabOK, ToSet
<1>5. gui.at \in {"idle", "list", "next", "message", "add", "reload", "update"}
  BY DEF Queues, Guis, Busy
<1>6. TypeOK
  BY <1>2, <1>3, <1>4, <1>5 DEF TypeOK, Queues, TabOK, SentOK
<1> QED
  BY <1>1, <1>6 DEF ItemsAreInOrder, TabOK, Ordered

(* Whatever the user, the database and the message center do in whichever  *)
(* order: a message has one item, the items are in the order of their      *)
(* making, and no signal outlives its item.                                *)
THEOREM ItemsAreAlwaysInOrder == Spec => []ItemsAreInOrder
  BY AlwaysQueues, AlwaysTab, AlwaysSent, InvariantsMeanOrder, PTL

-----------------------------------------------------------------------------
(* Sequences as sets, and the entries of one kind in a queue.              *)

LEMMA SetOfAppend ==
    ASSUME NEW S, NEW s \in Seq(S), NEW e \in S
    PROVE  ToSet(Append(s, e)) = ToSet(s) \cup {e}
<1>1. /\ Len(s) \in Nat /\ DOMAIN s = 1 .. Len(s)
      /\ Append(s, e) \in Seq(S) /\ Len(Append(s, e)) = Len(s) + 1
      /\ \A i \in 1 .. Len(s) : Append(s, e)[i] = s[i]
      /\ Append(s, e)[Len(s) + 1] = e
  BY AppendProperties, LenProperties
<1>2. DOMAIN Append(s, e) = 1 .. Len(s) + 1
  BY <1>1, LenProperties
<1>3. \A i \in 1 .. Len(s) + 1 : i \in 1 .. Len(s) \/ i = Len(s) + 1
  BY <1>1
<1>4. 1 .. Len(s) \subseteq 1 .. Len(s) + 1 /\ Len(s) + 1 \in 1 .. Len(s) + 1
  BY <1>1
<1>5. ToSet(Append(s, e)) \subseteq ToSet(s) \cup {e}
  BY <1>1, <1>2, <1>3 DEF ToSet
<1>6. ToSet(s) \cup {e} \subseteq ToSet(Append(s, e))
  BY <1>1, <1>2, <1>4 DEF ToSet
<1> QED
  BY <1>5, <1>6

LEMMA SetOfTail ==
    ASSUME NEW S, NEW s \in Seq(S), s # <<>>
    PROVE  ToSet(s) = ToSet(Tail(s)) \cup {Head(s)}
<1>1. /\ Len(s) \in Nat /\ Len(s) # 0 /\ DOMAIN s = 1 .. Len(s) /\ Head(s) = s[1]
      /\ Tail(s) \in Seq(S) /\ Len(Tail(s)) = Len(s) - 1
      /\ \A i \in 1 .. Len(Tail(s)) : Tail(s)[i] = s[i + 1]
  BY HeadTailProperties, LenProperties, EmptySeq
<1>2. DOMAIN Tail(s) = 1 .. Len(s) - 1
  BY <1>1, LenProperties
<1>3. \A i \in 1 .. Len(s) - 1 : i + 1 \in 1 .. Len(s)
  BY <1>1
<1>4. ToSet(Tail(s)) \cup {Head(s)} \subseteq ToSet(s)
  <2>1. 1 \in 1 .. Len(s)
    BY <1>1
  <2> QED
    BY <1>1, <1>2, <1>3, <2>1 DEF ToSet
<1>5. ASSUME NEW x \in ToSet(s)
      PROVE  x \in ToSet(Tail(s)) \cup {Head(s)}
  <2>1. PICK i \in 1 .. Len(s) : x = s[i]
    BY <1>1 DEF ToSet
  <2>2. CASE i = 1
    BY <1>1, <2>1, <2>2
  <2>3. CASE i # 1
    <3>1. PICK k \in 1 .. Len(s) - 1 : i = k + 1
      <4>1. i - 1 \in 1 .. Len(s) - 1 /\ i = i - 1 + 1
        BY <1>1, <2>3
      <4> QED
        BY <4>1
    <3> QED
      BY <1>1, <1>2, <2>1, <3>1 DEF ToSet
  <2> QED
    BY <2>2, <2>3
<1> QED
  BY <1>4, <1>5

LEMMA SetOfConcat ==
    ASSUME NEW S, NEW s \in Seq(S), NEW t \in Seq(S)
    PROVE  ToSet(s \o t) = ToSet(s) \cup ToSet(t)
<1> DEFINE r == s \o t
           m == Len(s)
           n == Len(t)
<1>1. m \in Nat /\ n \in Nat /\ DOMAIN s = 1..m /\ DOMAIN t = 1..n
  BY LenProperties
<1>2. /\ r \in Seq(S) /\ Len(r) = m + n
      /\ \A i \in 1 .. m + n : r[i] = IF i <= m THEN s[i] ELSE t[i - m]
  BY ConcatProperties
<1>3. DOMAIN r = 1 .. m + n
  BY <1>2, LenProperties
<1> HIDE DEF r, m, n
<1>4. ASSUME NEW x \in ToSet(r) PROVE x \in ToSet(s) \cup ToSet(t)
  <2>1. PICK i \in 1 .. m + n : x = r[i]
    BY <1>3 DEF ToSet
  <2>2. CASE i <= m
    <3>1. i \in 1..m
      BY <1>1, <2>2
    <3> QED
      BY <1>1, <1>2, <2>1, <2>2, <3>1 DEF ToSet
  <2>3. CASE ~(i <= m)
    <3>1. i - m \in 1..n
      BY <1>1, <2>3
    <3> QED
      BY <1>1, <1>2, <2>1, <2>3, <3>1 DEF ToSet
  <2> QED
    BY <2>2, <2>3
<1>5. ASSUME NEW x \in ToSet(s) PROVE x \in ToSet(r)
  <2>1. PICK i \in 1..m : x = s[i]
    BY <1>1 DEF ToSet
  <2>2. i \in 1 .. m + n /\ i <= m
    BY <1>1
  <2>3. r[i] = s[i]
    BY <1>2, <2>2
  <2> QED
    BY <1>3, <2>1, <2>2, <2>3 DEF ToSet
<1>6. ASSUME NEW x \in ToSet(t) PROVE x \in ToSet(r)
  <2>1. PICK i \in 1..n : x = t[i]
    BY <1>1 DEF ToSet
  <2>2. PICK k : k = m + i
    OBVIOUS
  <2>3. k \in 1 .. m + n /\ ~(k <= m) /\ k - m = i
    BY <1>1, <2>2
  <2>4. r[k] = t[i]
    BY <1>2, <2>3
  <2> QED
    BY <1>3, <2>1, <2>3, <2>4 DEF ToSet
<1> QED
  BY <1>4, <1>5, <1>6 DEF r

LEMMA SetOfEmpty == ToSet(<<>>) = {}
<1>1. DOMAIN <<>> = {}
  OBVIOUS
<1> QED
  BY <1>1 DEF ToSet

(* The messages of the entries of one kind, and that these are in the      *)
(* order of their time.                                                    *)
Named(q, kind) == {s[2] : s \in {x \in ToSet(q) : x[1] = kind}}

Rising(q, kind) ==
    \A i, j \in 1 .. Len(q) :
        i < j /\ q[i][1] = kind /\ q[j][1] = kind => SortBy[q[i][2]] < SortBy[q[j][2]]

LEMMA NamedOfAppend ==
    ASSUME NEW S, NEW q \in Seq(S), NEW c \in S, NEW kind
    PROVE  Named(Append(q, c), kind) = Named(q, kind) \cup (IF c[1] = kind THEN {c[2]} ELSE {})
<1>1. ToSet(Append(q, c)) = ToSet(q) \cup {c}
  BY SetOfAppend
<1> QED
  BY <1>1 DEF Named

LEMMA NamedOfTail ==
    ASSUME NEW S, NEW q \in Seq(S), q # <<>>, NEW kind
    PROVE  Named(q, kind) = Named(Tail(q), kind) \cup (IF Head(q)[1] = kind THEN {Head(q)[2]} ELSE {})
<1>1. ToSet(q) = ToSet(Tail(q)) \cup {Head(q)}
  BY SetOfTail
<1> QED
  BY <1>1 DEF Named

LEMMA RisingAppend ==
    ASSUME NEW S, NEW q \in Seq(S), NEW c \in S, NEW kind, Rising(q, kind),
           c[1] = kind => \A v \in Named(q, kind) : SortBy[v] < SortBy[c[2]]
    PROVE  Rising(Append(q, c), kind)
<1> DEFINE r == Append(q, c)
           n == Len(q)
<1>1. /\ n \in Nat /\ DOMAIN q = 1..n /\ Len(r) = n + 1
      /\ (\A i \in 1..n : r[i] = q[i]) /\ r[n + 1] = c
  BY AppendProperties, LenProperties
<1> HIDE DEF r, n
<1>2. SUFFICES ASSUME NEW i \in 1 .. n + 1, NEW j \in 1 .. n + 1, i < j, r[i][1] = kind, r[j][1] = kind
               PROVE  SortBy[r[i][2]] < SortBy[r[j][2]]
  BY <1>1 DEF Rising, r
<1>3. i \in 1..n
  BY <1>1, <1>2
<1>4. CASE j \in 1..n
  BY <1>1, <1>2, <1>3, <1>4 DEF Rising, n
<1>5. CASE j \notin 1..n
  <2>1. j = n + 1
    BY <1>1, <1>5
  <2>2. q[i] \in ToSet(q) /\ q[i][1] = kind /\ c[1] = kind
    BY <1>1, <1>2, <1>3, <2>1 DEF ToSet
  <2>3. q[i][2] \in Named(q, kind)
    BY <2>2 DEF Named
  <2> QED
    BY <1>1, <1>3, <2>1, <2>2, <2>3
<1> QED
  BY <1>4, <1>5

LEMMA RisingTail ==
    ASSUME NEW S, NEW q \in Seq(S), q # <<>>, NEW kind, Rising(q, kind)
    PROVE  /\ Rising(Tail(q), kind)
           /\ Head(q)[1] = kind => \A v \in Named(Tail(q), kind) : SortBy[Head(q)[2]] < SortBy[v]
<1> DEFINE t == Tail(q)
           n == Len(t)
<1>1. /\ n \in Nat /\ DOMAIN t = 1..n /\ Head(q) = q[1] /\ Len(q) = n + 1
      /\ \A i \in 1..n : t[i] = q[i + 1]
  <2>1. t \in Seq(S) /\ Len(q) \in Nat /\ Len(q) # 0 /\ n = Len(q) - 1 /\ Head(q) = q[1]
        /\ \A i \in 1..n : t[i] = q[i + 1]
    BY HeadTailProperties, LenProperties, EmptySeq
  <2>2. n \in Nat /\ DOMAIN t = 1..n /\ Len(q) = n + 1
    BY <2>1, LenProperties
  <2> QED
    BY <2>1, <2>2
<1> HIDE DEF t, n
<1>2. \A i \in 1..n : i + 1 \in 1 .. n + 1 /\ 1 < i + 1 /\ 1 \in 1 .. n + 1
  BY <1>1
<1>3. \A i, j \in 1..n : i < j => i + 1 < j + 1
  BY <1>1
<1>4. Rising(t, kind)
  <2> SUFFICES ASSUME NEW i \in 1..n, NEW j \in 1..n, i < j, t[i][1] = kind, t[j][1] = kind
               PROVE  SortBy[t[i][2]] < SortBy[t[j][2]]
    BY DEF Rising, n
  <2>1. t[i] = q[i + 1] /\ t[j] = q[j + 1] /\ i + 1 < j + 1
    BY <1>1, <1>3
  <2> QED
    BY <1>1, <1>2, <2>1 DEF Rising
<1>5. ASSUME q[1][1] = kind, NEW v \in Named(t, kind)
      PROVE  SortBy[q[1][2]] < SortBy[v]
  <2>1. PICK s \in ToSet(t) : s[1] = kind /\ v = s[2]
    BY <1>5 DEF Named
  <2>2. PICK i \in 1..n : s = t[i]
    BY <1>1, <2>1 DEF ToSet
  <2>3. s = q[i + 1]
    BY <1>1, <2>2
  <2> QED
    BY <1>1, <1>2, <1>5, <2>1, <2>3 DEF Rising
<1> QED
  BY <1>1, <1>4, <1>5 DEF t

LEMMA RisingKept ==
    ASSUME NEW S, NEW q \in Seq(S), NEW I \in SUBSET DOMAIN q, NEW kind, Rising(q, kind)
    PROVE  Rising(Kept(q, I), kind)
<1> DEFINE r == Kept(q, I)
<1>1. PICK p : Picks(r, q, I, p)
  BY KeptPicks
<1>2. DOMAIN q = 1 .. Len(q)
  BY LenProperties
<1> HIDE DEF r
<1> SUFFICES ASSUME NEW i \in 1 .. Len(r), NEW j \in 1 .. Len(r), i < j, r[i][1] = kind, r[j][1] = kind
             PROVE  SortBy[r[i][2]] < SortBy[r[j][2]]
  BY DEF Rising, r
<1>3. p[i] \in I /\ p[j] \in I /\ p[i] < p[j] /\ r[i] = q[p[i]] /\ r[j] = q[p[j]]
  BY <1>1 DEF Picks
<1> QED
  BY <1>2, <1>3 DEF Rising

-----------------------------------------------------------------------------
(* The rows after a call, or after its first steps.                        *)

RowsIn(d) == {u \in Messages : Row(u) \in d}

LEMMA RowsOfSteps ==
    ASSUME NEW call \in Calls, ~Throws(call), NEW k \in 0 .. Len(Effects(call))
    PROVE  RowsIn(Apply(SubSeq(Effects(call), 1, k), disk))
             \subseteq Rows \cup (IF call[1] = "store" THEN {call[2]} ELSE {})
<1> DEFINE e == Effects(call)
           f == SubSeq(e, 1, k)
           more == IF call[1] = "store" THEN {call[2]} ELSE {}
<1>1. SUFFICES ASSUME NEW v \in Messages, v \notin Rows, v \notin more
               PROVE  Row(v) \notin Apply(f, disk)
  BY DEF RowsIn
<1>2. Row(v) \notin disk
  BY <1>1 DEF Rows
<1>3. \A i \in DOMAIN f : Row(v) \notin f[i].adds
  <2>1. CASE call[1] = "store"
    <3> DEFINE E == [adds : SUBSET (AllMedia(call[2]) \cup {Row(call[2])}), removes : {{}}]
    <3>1. e \in Seq(E)
      BY <2>1, EffectsOfCalls DEF StoresSteps
    <3>2. Row(v) \notin AllMedia(call[2]) \cup {Row(call[2])}
      BY <1>1, <2>1, MediaDiffer, FactsDiffer
    <3> HIDE DEF e
    <3>3. \A i \in DOMAIN f : f[i] \in E
      <4> HIDE DEF E
      <4>1. DOMAIN f = 1..k /\ \A i \in 1..k : i \in 1 .. Len(e) /\ f[i] = e[i]
        BY <3>1, FirstSteps DEF e
      <4> QED
        BY <3>1, <4>1, ElementOfSeq
    <3> QED
      BY <3>2, <3>3
  <2>2. CASE call[1] \in {"delete", "deleteMany"}
    <3> DEFINE us == ToSet(Victims(call))
               E == [adds : {{}}, removes : SUBSET UNION {AllMedia(u) \cup {Row(u)} : u \in us}]
    <3>1. e \in Seq(E)
      BY <2>2, EffectsOfCalls DEF DeletesSteps
    <3> HIDE DEF e
    <3>2. \A i \in DOMAIN f : f[i] \in E
      <4> HIDE DEF E
      <4>1. DOMAIN f = 1..k /\ \A i \in 1..k : i \in 1 .. Len(e) /\ f[i] = e[i]
        BY <3>1, FirstSteps DEF e
      <4> QED
        BY <3>1, <4>1, ElementOfSeq
    <3> QED
      BY <3>2
  <2>3. CASE e = <<>>
    <3>1. <<>> \in Seq({}) /\ Len(<<>>) = 0
      OBVIOUS
    <3>2. k \in 0 .. Len(<<>>) /\ k = 0
      BY <2>3, <3>1
    <3>3. DOMAIN SubSeq(<<>>, 1, k) = 1..k
      BY <3>1, <3>2, FirstSteps
    <3> QED
      BY <2>3, <3>2, <3>3
  <2> QED
    BY <2>1, <2>2, <2>3, EffectsOfCalls
<1> HIDE DEF f
<1> QED
  BY <1>2, <1>3 DEF Apply

LEMMA RowsOfCall ==
    ASSUME NEW call \in Calls, ~Throws(call), disk' = Apply(Effects(call), disk)
    PROVE  Rows' = IF call[1] = "store" THEN Rows \cup {call[2]} ELSE Rows \ ToSet(Victims(call))
<1> DEFINE e == Effects(call)
           vs == ToSet(Victims(call))
<1>1. Rows' = RowsIn(Apply(e, disk))
  BY DEF Rows, RowsIn
<1>2. PICK S : e \in Seq(S)
  <2>1. <<>> \in Seq({})
    OBVIOUS
  <2> QED
    BY <2>1, EffectsOfCalls DEF StoresSteps, DeletesSteps
<1>3. RowsIn(Apply(e, disk)) \subseteq Rows \cup (IF call[1] = "store" THEN {call[2]} ELSE {})
  <2> HIDE DEF e
  <2>1. Len(e) \in 0 .. Len(e) /\ SubSeq(e, 1, Len(e)) = e
    BY <1>2, LenProperties, SubSeqFull
  <2> QED
    BY <2>1, RowsOfSteps DEF e
<1>4. Rows \ vs \subseteq RowsIn(Apply(e, disk))
  BY CallKeepsRows, RowsAreMessages DEF RowsIn
<1>5. DOMAIN e = 1 .. Len(e)
  <2> HIDE DEF e
  <2> QED
    BY <1>2, LenProperties
<1>6. CASE call[1] = "store"
  <2>1. call[2] \in Messages /\ vs = {} /\ StoresSteps(call[2], e)
    BY <1>6, EffectsOfCalls, SetOfEmpty
  <2> DEFINE E == [adds : SUBSET (AllMedia(call[2]) \cup {Row(call[2])}), removes : {{}}]
  <2> HIDE DEF e
  <2>2. \A i \in DOMAIN e : e[i] \in E
    <3>1. e \in Seq(E)
      BY <2>1 DEF StoresSteps
    <3> HIDE DEF E
    <3> QED
      BY <3>1, <1>5, ElementOfSeq
  <2>3. PICK i \in 1 .. Len(e) : Row(call[2]) \in e[i].adds
    BY <2>1 DEF StoresSteps
  <2>4. \A j \in DOMAIN e : Row(call[2]) \notin e[j].removes
    BY <2>2
  <2>5. Row(call[2]) \in Apply(e, disk)
    BY <1>5, <2>3, <2>4 DEF Apply
  <2> QED
    BY <1>1, <1>3, <1>4, <1>6, <2>1, <2>5 DEF RowsIn
<1>7. CASE call[1] # "store"
  <2>1. \A v \in vs : Row(v) \notin Apply(e, disk)
    <3>1. CASE DeletesSteps(vs, e)
      <4> HIDE DEF e, vs
      <4> SUFFICES ASSUME NEW v \in vs PROVE Row(v) \notin Apply(e, disk)
        OBVIOUS
      <4>1. PICK i \in 1 .. Len(e) : Row(v) \in e[i].removes
        BY <3>1 DEF DeletesSteps
      <4> QED
        BY <1>5, <4>1 DEF Apply
    <3>2. CASE vs = {}
      BY <3>2
    <3> QED
      BY <1>7, <3>1, <3>2, EffectsOfCalls, SetOfEmpty
  <2> QED
    BY <1>1, <1>3, <1>4, <1>7, <2>1 DEF RowsIn
<1> QED
  BY <1>6, <1>7

(* What a call does that is executed, and what one does that throws. *)
CallDone(call) ==
    /\ ~Throws(call)
    /\ dbq' = Tail(dbq)
    /\ Rows' = IF call[1] = "store" THEN Rows \cup {call[2]} ELSE Rows \ ToSet(Victims(call))
    /\ sent' = IF call[1] = "result" THEN sent \cup {call[2]} ELSE sent \ ToSet(Victims(call))
    /\ asked' = asked \cup ToSet(Victims(call))
    /\ Announced(call)
    /\ Answered(call)
    /\ UNCHANGED <<widgets, missed, told>>

CallThrown(call) ==
    /\ Throws(call)
    /\ dbq' = Tail(dbq)
    /\ Rows' = Rows
    /\ UNCHANGED <<sent, asked, mcq, uiq, widgets, gui, missed, told>>

LEMMA ExecuteCallCases ==
    ASSUME Queues, ExecuteCall
    PROVE  \E call \in Calls :
              /\ dbq \in Seq(Calls) /\ dbq # <<>> /\ call = Head(dbq)
              /\ 1 \in 1 .. Len(dbq) /\ call = dbq[1]
              /\ CallDone(call) \/ CallThrown(call) \/ (Stop /\ Rows' = Rows /\ told' = told)
<1>1. dbq \in Seq(Calls) /\ dbq # <<>> /\ told' = told
  BY DEF Queues, ExecuteCall
<1>2. PICK call \in Calls : call = Head(dbq) /\ 1 \in 1 .. Len(dbq) /\ call = dbq[1]
  BY <1>1, SeqTail, HeadTailProperties, LenProperties, EmptySeq
<1>3. ASSUME ~Throws(call), Executed(call), Announced(call), Answered(call), dbq' = Tail(dbq),
             UNCHANGED <<widgets, missed>>
      PROVE  CallDone(call)
  <2>1. /\ disk' = Apply(Effects(call), disk)
        /\ sent' = IF call[1] = "result" THEN sent \cup {call[2]} ELSE sent \ ToSet(Victims(call))
        /\ asked' = asked \cup ToSet(Victims(call))
    BY <1>3 DEF Executed
  <2>2. Rows' = IF call[1] = "store" THEN Rows \cup {call[2]} ELSE Rows \ ToSet(Victims(call))
    BY <1>3, <2>1, RowsOfCall
  <2> QED
    BY <1>1, <1>3, <2>1, <2>2 DEF CallDone
<1>4. ASSUME Throws(call), dbq' = Tail(dbq),
             UNCHANGED <<disk, sent, asked, mcq, uiq, widgets, gui, missed>>
      PROVE  CallThrown(call)
  BY <1>1, <1>4 DEF CallThrown, Rows
<1>5. disk' = disk => Rows' = Rows
  BY DEF Rows
<1>6. CallDone(call) \/ CallThrown(call) \/ (Stop /\ Rows' = Rows)
  BY <1>2, <1>3, <1>4, <1>5 DEF ExecuteCall, tables
<1> QED
  BY <1>1, <1>2, <1>6

LEMMA AnnouncedSignals ==
    ASSUME Queues, NEW call \in Calls, Announced(call)
    PROVE  /\ ToSet(uiq') = ToSet(uiq) \cup (IF call[1] = "store" THEN {<<"new", call[2]>>} ELSE {})
           /\ ToSet(mcq') = ToSet(mcq) \cup (IF call[1] = "result" THEN {<<"changed", call[2]>>}
                                             ELSE {"deleted"} \X ToSet(Victims(call)))
<1>1. uiq \in Seq(Signals) /\ mcq \in Seq(MSignals)
  BY DEF Queues
<1>2. ToSet(uiq') = ToSet(uiq) \cup (IF call[1] = "store" THEN {<<"new", call[2]>>} ELSE {})
  <2>1. CASE call[1] = "store"
    <3>1. PICK s \in Signals : s = <<"new", call[2]>>
      BY <2>1 DEF Calls, Signals
    <3>2. uiq' = Append(uiq, s)
      BY <2>1, <3>1 DEF Announced
    <3>3. ToSet(Append(uiq, s)) = ToSet(uiq) \cup {s}
      BY <1>1, SetOfAppend
    <3> QED
      BY <2>1, <3>1, <3>2, <3>3
  <2>2. CASE call[1] # "store"
    BY <2>2 DEF Announced
  <2> QED
    BY <2>1, <2>2
<1>3. CASE call[1] = "result"
  <2>1. PICK s \in MSignals : s = <<"changed", call[2]>>
    BY <1>3 DEF Calls, MSignals
  <2>2. mcq' = mcq \o <<s>>
    BY <1>3, <2>1 DEF Announced
  <2>3. <<s>> \in Seq(MSignals) /\ ToSet(<<s>>) = {s}
    BY DEF ToSet
  <2>4. PICK t \in Seq(MSignals) : t = <<s>> /\ ToSet(t) = {s}
    BY <2>3
  <2>5. ToSet(mcq \o t) = ToSet(mcq) \cup ToSet(t)
    BY <1>1, SetOfConcat
  <2> QED
    BY <1>2, <1>3, <2>1, <2>2, <2>4, <2>5
<1>4. CASE call[1] # "result"
  <2> DEFINE vs == Victims(call)
             ss == [i \in DOMAIN vs |-> <<"deleted", vs[i]>>]
  <2>1. mcq' = mcq \o ss
    BY <1>4 DEF Announced
  <2>2. vs \in Seq(Messages)
    BY VictimsAreRows, RowsAreMessages, SeqMonotonic
  <2> HIDE DEF vs
  <2>3. DOMAIN vs = 1 .. Len(vs) /\ Len(vs) \in Nat /\ \A i \in DOMAIN vs : vs[i] \in Messages
    BY <2>2, LenProperties, ElementOfSeq
  <2>4. ss \in [1 .. Len(vs) -> MSignals]
    BY <2>3 DEF MSignals
  <2>5. ToSet(ss) = {"deleted"} \X ToSet(vs)
    BY DEF ToSet
  <2> HIDE DEF ss
  <2>6. ss \in Seq(MSignals)
    BY <2>3, <2>4, SeqOfFunction
  <2>7. ToSet(mcq \o ss) = ToSet(mcq) \cup ToSet(ss)
    BY <1>1, <2>6, SetOfConcat
  <2> QED
    BY <1>2, <1>4, <2>1, <2>5, <2>7 DEF vs
<1> QED
  BY <1>3, <1>4

(* A crash leaves the first steps of the call that waits longest.          *)
LEMMA CrashCases ==
    ASSUME Queues, Crash
    PROVE  /\ Stop /\ told' = told
           /\ Rows' \subseteq Rows \cup Named(dbq, "store")
<1>1. Stop /\ told' = told
  BY DEF Crash
<1>2. Rows' = RowsIn(disk')
  BY DEF Rows, RowsIn
<1>3. CASE dbq # <<>>
  <2>1. PICK call \in Calls : call = Head(dbq) /\ 1 \in 1 .. Len(dbq) /\ call = dbq[1]
    BY <1>3, SeqTail, HeadTailProperties, LenProperties, EmptySeq DEF Queues
  <2>2. call[1] = "store" => call[2] \in Named(dbq, "store")
    <3>1. call \in ToSet(dbq)
      BY <2>1, LenProperties DEF Queues, ToSet
    <3> QED
      BY <3>1 DEF Named
  <2>3. CASE Throws(call)
    <3>1. PICK k \in 0 .. Len(<<>>) : disk' = Apply(SubSeq(<<>>, 1, k), disk)
      BY <1>3, <2>1, <2>3 DEF Crash
    <3>2. <<>> \in Seq({}) /\ Len(<<>>) = 0
      OBVIOUS
    <3>3. k = 0
      BY <3>1, <3>2
    <3>4. DOMAIN SubSeq(<<>>, 1, k) = 1..k
      BY <3>1, <3>2, <3>3, FirstSteps
    <3>5. RowsIn(disk') \subseteq Rows
      BY <3>1, <3>3, <3>4 DEF Apply, RowsIn, Rows
    <3> QED
      BY <1>1, <1>2, <3>5
  <2>4. CASE ~Throws(call)
    <3>1. PICK k \in 0 .. Len(Effects(call)) : disk' = Apply(SubSeq(Effects(call), 1, k), disk)
      BY <1>3, <2>1, <2>4 DEF Crash
    <3>2. RowsIn(disk') \subseteq Rows \cup (IF call[1] = "store" THEN {call[2]} ELSE {})
      BY <2>4, <3>1, RowsOfSteps
    <3> QED
      BY <1>1, <1>2, <2>2, <3>2
  <2> QED
    BY <2>3, <2>4
<1>4. CASE dbq = <<>>
  <2>1. ~Throws(<<"none">>) /\ Effects(<<"none">>) = <<>>
    BY DEF Throws, Effects
  <2>2. PICK k \in 0 .. Len(<<>>) : disk' = Apply(SubSeq(<<>>, 1, k), disk)
    BY <1>4, <2>1 DEF Crash
  <2>3. <<>> \in Seq({}) /\ Len(<<>>) = 0
    OBVIOUS
  <2>4. k = 0
    BY <2>2, <2>3
  <2>5. DOMAIN SubSeq(<<>>, 1, k) = 1..k
    BY <2>2, <2>3, <2>4, FirstSteps
  <2>6. RowsIn(disk') \subseteq Rows
    BY <2>2, <2>4, <2>5 DEF Apply, RowsIn, Rows
  <2> QED
    BY <1>1, <1>2, <2>6
<1> QED
  BY <1>3, <1>4

-----------------------------------------------------------------------------
(* The order of things: whatever the program knows is older than what the  *)
(* message center has just told it to store, and new messages are announced*)
(* in the order of their time.                                             *)
Heard == {s[2] : s \in ToSet(mcq) \cup ToSet(uiq)}

Past == Rows \cup known \cup ToSet(gui.todo) \cup Heard

Stored == Earlier \cup {u \in Messages : <<"store", u>> \in told}

InTime(past, calls, signals, stored) ==
    /\ past \cup Named(calls, "store") \subseteq stored
    /\ \A u \in past, v \in Named(calls, "store") : SortBy[u] < SortBy[v]
    /\ Rising(calls, "store")
    /\ Rising(signals, "new")

OrderOK == InTime(Past, dbq, uiq, Stored)

LEMMA InTimeStays ==
    ASSUME NEW past, NEW calls, NEW signals, NEW stored, InTime(past, calls, signals, stored),
           NEW past2, NEW calls2, NEW signals2, NEW stored2,
           past2 \subseteq past, Named(calls2, "store") \subseteq Named(calls, "store"),
           Rising(calls2, "store"), Rising(signals2, "new"), stored \subseteq stored2
    PROVE  InTime(past2, calls2, signals2, stored2)
  BY DEF InTime

(* A step of the window posts one call at most, which is not a store.      *)
NoStore == dbq' = dbq \/ \E c \in Calls : c[1] # "store" /\ dbq' = Append(dbq, c)

FewerSignals == uiq' = uiq \/ (uiq # <<>> /\ uiq' = Tail(uiq))
                    \/ \E J \in SUBSET DOMAIN uiq : uiq' = Kept(uiq, J)

LEMMA NoStoreKeepsOrder ==
    ASSUME Queues, NoStore
    PROVE  /\ Named(dbq', "store") = Named(dbq, "store")
           /\ Rising(dbq, "store") => Rising(dbq', "store")
<1>1. dbq \in Seq(Calls)
  BY DEF Queues
<1>2. CASE dbq' = dbq
  BY <1>2
<1>3. CASE dbq' # dbq
  <2>1. PICK c \in Calls : c[1] # "store" /\ dbq' = Append(dbq, c)
    BY <1>3 DEF NoStore
  <2>2. Named(Append(dbq, c), "store") = Named(dbq, "store")
    <3>1. Named(Append(dbq, c), "store") = Named(dbq, "store") \cup (IF c[1] = "store" THEN {c[2]} ELSE {})
      BY <1>1, NamedOfAppend
    <3> QED
      BY <2>1, <3>1
  <2>3. Rising(dbq, "store") => Rising(Append(dbq, c), "store")
    BY <1>1, <2>1, RisingAppend
  <2> QED
    BY <2>1, <2>2, <2>3
<1> QED
  BY <1>2, <1>3

LEMMA FewerSignalsKeepOrder ==
    ASSUME Queues, FewerSignals
    PROVE  /\ ToSet(uiq') \subseteq ToSet(uiq)
           /\ Rising(uiq, "new") => Rising(uiq', "new")
<1>1. uiq \in Seq(Signals)
  BY DEF Queues
<1>2. CASE uiq' = uiq
  BY <1>2
<1>3. CASE uiq # <<>> /\ uiq' = Tail(uiq)
  BY <1>1, <1>3, SetOfTail, RisingTail
<1>4. CASE \E J \in SUBSET DOMAIN uiq : uiq' = Kept(uiq, J)
  <2>1. PICK J \in SUBSET DOMAIN uiq : uiq' = Kept(uiq, J)
    BY <1>4
  <2>2. ToSet(Kept(uiq, J)) = {uiq[j] : j \in J}
    BY <1>1, KeptElements
  <2>3. ToSet(uiq') \subseteq ToSet(uiq)
    BY <2>1, <2>2 DEF ToSet
  <2> QED
    BY <1>1, <2>1, <2>3, RisingKept
<1> QED
  BY <1>2, <1>3, <1>4 DEF FewerSignals

LEMMA ShowReaches ==
    ASSUME NEW us \in Seq(Messages), Show(us)
    PROVE  /\ NoStore
           /\ known' \cup ToSet(gui'.todo) \subseteq known \cup ToSet(us)
<1>1. CASE gui' = Resting /\ known' = known /\ dbq' = dbq
  <2>1. gui'.todo = <<>>
    BY <1>1 DEF Resting
  <2> QED
    BY <1>1, <2>1, SetOfEmpty DEF NoStore
<1>2. CASE \E rest \in Seq(Messages) :
              /\ rest # <<>> /\ Head(rest) \in Messages
              /\ ToSet(rest) = ToSet(us) \ known
              /\ known' = known \cup {Head(rest)}
              /\ dbq' = Append(dbq, <<"message", Head(rest)>>)
              /\ gui' = [at |-> "message", todo |-> rest, sent |-> FALSE]
  <2>1. PICK rest \in Seq(Messages) :
              /\ rest # <<>> /\ Head(rest) \in Messages
              /\ ToSet(rest) = ToSet(us) \ known
              /\ known' = known \cup {Head(rest)}
              /\ dbq' = Append(dbq, <<"message", Head(rest)>>)
              /\ gui' = [at |-> "message", todo |-> rest, sent |-> FALSE]
    BY <1>2
  <2>2. Head(rest) \in ToSet(rest)
    BY <2>1, SetOfTail
  <2>3. gui'.todo = rest
    BY <2>1
  <2>4. <<"message", Head(rest)>> \in Calls /\ <<"message", Head(rest)>>[1] # "store"
    BY <2>1 DEF Calls
  <2> QED
    BY <2>1, <2>2, <2>3, <2>4 DEF NoStore
<1> QED
  BY <1>1, <1>2, ShowStarts

(* What every step of the window and of its user leaves alone. *)
LEMMA WindowStepReaches ==
    ASSUME Queues, WindowStep
    PROVE  /\ Rows' = Rows /\ sent' = sent /\ told' = told /\ mcq' = mcq /\ asked' = asked
           /\ app # "stopped"
           /\ NoStore /\ FewerSignals
           /\ known' \cup ToSet(gui'.todo) \subseteq known \cup ToSet(gui.todo) \cup Heard
<1> DEFINE Reaches == known' \cup ToSet(gui'.todo) \subseteq known \cup ToSet(gui.todo) \cup Heard
<1>1. /\ UNCHANGED <<disk, sent, told, mcq, asked>> /\ app # "stopped"
  BY DEF WindowStep, LoadLastNMessages, ShowLastMessages, OnNewMessage, AddChatWidgetItem,
     OnMessageChanged, UpdateItem, OnMessageDeleted, tables, record, Idle, Signalled
<1>2. Rows' = Rows
  BY <1>1 DEF Rows
<1>3. gui.todo \in Seq(Messages) /\ uiq \in Seq(Signals) /\ ToSet(Resting.todo) = {}
  BY SetOfEmpty DEF Queues, Guis, Resting
<1>4. ASSUME uiq # <<>> PROVE Head(uiq) \in Signals /\ Head(uiq)[2] \in Messages /\ Head(uiq)[2] \in Heard
  <2>1. Head(uiq) \in Signals
    BY <1>3, <1>4, SeqTail
  <2>2. Head(uiq) \in ToSet(uiq)
    BY <1>3, <1>4, SetOfTail
  <2> QED
    BY <2>1, <2>2 DEF Signals, Heard
<1>5. ASSUME LoadLastNMessages PROVE NoStore /\ FewerSignals /\ Reaches
  <2>1. <<"last", PageSize>> \in Calls /\ <<"last", PageSize>>[1] # "store"
    BY HistoryAssumption DEF Calls
  <2>2. dbq' = Append(dbq, <<"last", PageSize>>) /\ uiq' = uiq /\ known' = known /\ gui'.todo = <<>>
    BY <1>5 DEF LoadLastNMessages, Resting
  <2> QED
    BY <2>1, <2>2, SetOfEmpty DEF NoStore, FewerSignals
<1>6. ASSUME ShowLastMessages PROVE NoStore /\ FewerSignals /\ Reaches
  BY <1>3, <1>6, ShowReaches DEF ShowLastMessages, FewerSignals
<1>7. ASSUME OnNewMessage PROVE NoStore /\ FewerSignals /\ Reaches
  <2>1. uiq # <<>> /\ uiq' = Tail(uiq)
    BY <1>7 DEF OnNewMessage, Signalled
  <2>2. PICK u \in Messages : u = Head(uiq)[2] /\ u \in Heard
    BY <1>4, <2>1
  <2>3. IF tab THEN Show(<<u>>) ELSE UNCHANGED <<known, dbq, gui>>
    BY <1>7, <2>2, Zenon DEF OnNewMessage
  <2>4. <<u>> \in Seq(Messages) /\ ToSet(<<u>>) = {u}
    BY DEF ToSet
  <2>5. CASE tab
    BY <2>1, <2>2, <2>3, <2>4, <2>5, ShowReaches DEF FewerSignals
  <2>6. CASE ~tab
    BY <2>1, <2>3, <2>6 DEF FewerSignals, NoStore
  <2> QED
    BY <2>5, <2>6
<1>8. ASSUME AddChatWidgetItem PROVE NoStore /\ FewerSignals /\ Reaches
  <2>1. gui.todo # <<>> /\ Show(Tail(gui.todo)) /\ uiq' = uiq
    BY <1>8 DEF AddChatWidgetItem, Queues, Busy
  <2>2. Tail(gui.todo) \in Seq(Messages) /\ ToSet(Tail(gui.todo)) \subseteq ToSet(gui.todo)
    BY <1>3, <2>1, SeqTail, SetOfTail
  <2> QED
    BY <2>1, <2>2, ShowReaches DEF FewerSignals
<1>9. ASSUME OnMessageChanged PROVE NoStore /\ FewerSignals /\ Reaches
  <2>1. uiq # <<>> /\ uiq' = Tail(uiq) /\ known' = known
    BY <1>9 DEF OnMessageChanged, Signalled, widgets
  <2>2. PICK u \in Messages : u = Head(uiq)[2] /\ u \in Heard
    BY <1>4, <2>1
  <2>3. <<"message", u>> \in Calls /\ <<"message", u>>[1] # "store"
    BY DEF Calls
  <2>4. \/ dbq' = Append(dbq, <<"message", u>>) /\ gui' = [at |-> "reload", todo |-> <<u>>, sent |-> FALSE]
        \/ dbq' = dbq /\ gui' = gui
    BY <1>9, <2>2 DEF OnMessageChanged
  <2>5. ToSet(<<u>>) = {u}
    BY DEF ToSet
  <2>6. gui'.todo = <<u>> \/ gui' = gui
    BY <2>4
  <2>7. NoStore
    BY <2>3, <2>4 DEF NoStore
  <2> QED
    BY <2>1, <2>2, <2>5, <2>6, <2>7 DEF FewerSignals
<1>10. ASSUME UpdateItem PROVE NoStore /\ FewerSignals /\ Reaches
  BY <1>3, <1>10 DEF UpdateItem, NoStore, FewerSignals
<1>11. ASSUME OnMessageDeleted PROVE NoStore /\ FewerSignals /\ Reaches
  <2>1. FewerSignals
    BY <1>11 DEF OnMessageDeleted, OnItemMessageDeleted, FewerSignals
  <2> QED
    BY <1>11, <2>1 DEF OnMessageDeleted, NoStore
<1> QED
  BY <1>1, <1>2, <1>5, <1>6, <1>7, <1>8, <1>9, <1>10, <1>11 DEF WindowStep

LEMMA UserStepReaches ==
    ASSUME Queues, UserStep
    PROVE  /\ Rows' = Rows /\ sent' = sent /\ told' = told /\ mcq' = mcq /\ asked' = asked
           /\ gui.at = "idle" /\ gui'.at \in {"idle", "list"}
           /\ NoStore /\ FewerSignals
           /\ known' \cup ToSet(gui'.todo) \subseteq known \cup ToSet(gui.todo)
<1> DEFINE Reaches == known' \cup ToSet(gui'.todo) \subseteq known \cup ToSet(gui.todo)
<1>1. /\ UNCHANGED <<disk, sent, told, mcq, asked>> /\ gui.at = "idle"
  BY DEF UserStep, OpenTab, CloseTab, LoadMoreMessages, DeleteItem, DeleteByCount, DeleteByAge,
     DeleteByDate, DeleteMany, tables, record, Click, Idle
<1>2. Rows' = Rows
  BY <1>1 DEF Rows
<1>3. ASSUME OpenTab \/ CloseTab PROVE NoStore /\ FewerSignals /\ Reaches /\ gui' = gui
  <2>1. FewerSignals
    BY <1>3 DEF OpenTab, CloseTab, ToTheTab, FewerSignals
  <2> QED
    BY <1>3, <2>1 DEF OpenTab, CloseTab, NoStore
<1>4. ASSUME LoadMoreMessages PROVE NoStore /\ FewerSignals /\ Reaches /\ gui'.at = "list"
  <2>1. Cardinality(known) \in Nat
    BY RowsAreFinite, FS_CardinalityType DEF Queues
  <2>2. More + Cardinality(known) \in Nat
    BY <2>1, HistoryAssumption
  <2>3. PICK n \in Nat : dbq' = Append(dbq, <<"last", n>>)
    BY <1>4, <2>2 DEF LoadMoreMessages
  <2>4. <<"last", n>> \in Calls /\ <<"last", n>>[1] # "store"
    BY DEF Calls
  <2>5. uiq' = uiq /\ known' = known /\ gui'.todo = <<>> /\ gui'.at = "list"
    BY <1>4 DEF LoadMoreMessages, widgets, Resting
  <2> QED
    BY <2>3, <2>4, <2>5, SetOfEmpty DEF NoStore, FewerSignals
<1>5. ASSUME \E i \in DOMAIN items : DeleteItem(i) PROVE NoStore /\ FewerSignals /\ Reaches /\ gui' = gui
  <2>1. PICK i \in DOMAIN items : DeleteItem(i)
    BY <1>5
  <2>2. items[i].uid \in Messages
    BY ElementsOfItems DEF Queues
  <2>3. <<"delete", items[i].uid>> \in Calls /\ <<"delete", items[i].uid>>[1] # "store"
    BY <2>2 DEF Calls
  <2> QED
    BY <2>1, <2>3 DEF DeleteItem, NoStore, FewerSignals
<1>6. ASSUME DeleteByCount \/ DeleteByAge \/ DeleteByDate
      PROVE  NoStore /\ FewerSignals /\ Reaches /\ gui' = gui
  <2>1. PICK rule \in Rules : DeleteMany(rule)
    BY <1>6, RulesOfTheDialog
  <2>2. <<"deleteMany", rule>> \in Calls /\ <<"deleteMany", rule>>[1] # "store"
    BY DEF Calls
  <2> QED
    BY <2>1, <2>2 DEF DeleteMany, NoStore, FewerSignals, widgets
<1> QED
  BY <1>1, <1>2, <1>3, <1>4, <1>5, <1>6 DEF UserStep

LEMMA InitOrder == Init => OrderOK
<1> SUFFICES ASSUME Init PROVE OrderOK
  OBVIOUS
<1>1. /\ disk = UNION {Apply(StoreEffects(u), {}) : u \in Earlier} /\ Earlier \subseteq Messages
      /\ dbq = <<>> /\ mcq = <<>> /\ uiq = <<>> /\ known = {} /\ gui.todo = <<>>
  BY HistoryAssumption DEF Init, Resting
<1>2. ASSUME NEW v \in Rows PROVE v \in Earlier
  <2>1. PICK u \in Earlier : Row(v) \in Apply(StoreEffects(u), {})
    BY <1>1 DEF Rows
  <2> DEFINE e == StoreEffects(u)
             E == [adds : SUBSET (AllMedia(u) \cup {Row(u)}), removes : {{}}]
  <2>2. StoresSteps(u, e)
    BY <1>1, StoreSteps
  <2> HIDE DEF e
  <2>3. e \in Seq(E) /\ DOMAIN e = 1 .. Len(e)
    BY <2>2, LenProperties DEF StoresSteps
  <2>4. \A i \in DOMAIN e : e[i] \in E
    <3> HIDE DEF E
    <3> QED
      BY <2>3, ElementOfSeq
  <2>5. PICK i \in DOMAIN e : Row(v) \in e[i].adds
    BY <2>1 DEF Apply, e
  <2>6. Row(v) \in AllMedia(u) \cup {Row(u)}
    BY <2>4, <2>5
  <2>7. v = u
    BY <1>1, <2>6, RowsAreMessages, MediaDiffer, FactsDiffer
  <2> QED
    BY <2>7
<1>3. Past \subseteq Stored
  BY <1>1, <1>2, SetOfEmpty DEF Past, Heard, Stored
<1>4. Named(dbq, "store") = {}
  BY <1>1, SetOfEmpty DEF Named
<1>5. Rising(dbq, "store") /\ Rising(uiq, "new")
  BY <1>1, NoSignals DEF Rising
<1> QED
  BY <1>3, <1>4, <1>5 DEF OrderOK, InTime

LEMMA StopKeepsOrder ==
    ASSUME Stop, told' = told, Rows' \subseteq Stored
    PROVE  OrderOK'
<1>1. dbq' = <<>> /\ mcq' = <<>> /\ uiq' = <<>> /\ known' = {} /\ gui'.todo = <<>>
  BY DEF Stop, Resting
<1>2. Heard' = {}
  BY <1>1, SetOfEmpty DEF Heard
<1>3. Past' \subseteq Stored'
  <2>1. ToSet(gui'.todo) = {} /\ Stored' = Stored
    BY <1>1, SetOfEmpty DEF Stored
  <2> QED
    BY <1>1, <1>2, <2>1 DEF Past
<1>4. Named(dbq', "store") = {}
  BY <1>1, SetOfEmpty DEF Named
<1>5. Rising(dbq', "store") /\ Rising(uiq', "new")
  BY <1>1, NoSignals DEF Rising
<1> QED
  BY <1>3, <1>4, <1>5 DEF OrderOK, InTime

LEMMA RowsAreStored == OrderOK => Rows \cup Named(dbq, "store") \subseteq Stored
  BY DEF OrderOK, InTime, Past

LEMMA ExecuteCallKeepsOrder == Queues /\ OrderOK /\ ExecuteCall => OrderOK'
<1> SUFFICES ASSUME Queues, OrderOK, ExecuteCall PROVE OrderOK'
  OBVIOUS
<1>1. PICK call \in Calls :
         /\ dbq \in Seq(Calls) /\ dbq # <<>> /\ call = Head(dbq)
         /\ 1 \in 1 .. Len(dbq) /\ call = dbq[1]
         /\ CallDone(call) \/ CallThrown(call) \/ (Stop /\ Rows' = Rows /\ told' = told)
  BY ExecuteCallCases
<1>2. InTime(Past, dbq, uiq, Stored) /\ uiq \in Seq(Signals) /\ gui \in Guis
  BY DEF OrderOK, Queues
<1>3. PICK t : t = Tail(dbq)
  OBVIOUS
<1>4. /\ Named(t, "store") \subseteq Named(dbq, "store") /\ Rising(t, "store")
      /\ call[1] = "store" => /\ call[2] \in Named(dbq, "store")
                              /\ \A v \in Named(t, "store") : SortBy[call[2]] < SortBy[v]
  <2>1. Named(dbq, "store") = Named(t, "store") \cup (IF call[1] = "store" THEN {call[2]} ELSE {})
    BY <1>1, <1>3, NamedOfTail
  <2>2. /\ Rising(t, "store")
        /\ call[1] = "store" => \A v \in Named(t, "store") : SortBy[call[2]] < SortBy[v]
    BY <1>1, <1>2, <1>3, RisingTail DEF InTime
  <2> QED
    BY <2>1, <2>2
<1>5. CASE CallThrown(call)
  <2>1. Past' = Past /\ Stored' = Stored /\ uiq' = uiq /\ dbq' = t
    BY <1>3, <1>5 DEF CallThrown, Past, Heard, Stored, widgets
  <2>2. InTime(Past, t, uiq, Stored)
    BY <1>2, <1>4 DEF InTime
  <2> QED
    BY <2>1, <2>2 DEF OrderOK
<1>6. CASE CallDone(call)
  <2>1. /\ dbq' = t /\ known' = known /\ Stored' = Stored
        /\ Rows' = IF call[1] = "store" THEN Rows \cup {call[2]} ELSE Rows \ ToSet(Victims(call))
        /\ ToSet(uiq') = ToSet(uiq) \cup (IF call[1] = "store" THEN {<<"new", call[2]>>} ELSE {})
        /\ ToSet(mcq') = ToSet(mcq) \cup (IF call[1] = "result" THEN {<<"changed", call[2]>>}
                                          ELSE {"deleted"} \X ToSet(Victims(call)))
    BY <1>3, <1>6, AnnouncedSignals DEF CallDone, widgets, Stored
  <2>2. ToSet(Victims(call)) \subseteq Rows
    BY VictimsAreMessages
  <2>3. CASE call[1] = "store"
    <3>1. gui' = gui /\ uiq' = Append(uiq, <<"new", call[2]>>) /\ Victims(call) = <<>>
      BY <1>6, <2>3 DEF CallDone, Answered, Announced, Victims
    <3>2. PICK u : u = call[2]
      OBVIOUS
    <3>3. Heard' \subseteq Heard \cup {u}
      <4>1. ToSet(mcq') = ToSet(mcq)
        BY <2>1, <2>3, <3>1, SetOfEmpty
      <4> QED
        BY <2>1, <2>3, <3>2, <4>1 DEF Heard
    <3>4. Past' \subseteq Past \cup {u}
      BY <2>1, <2>3, <3>1, <3>2, <3>3 DEF Past
    <3>5. Rising(uiq', "new")
      <4>1. PICK s \in Signals : s = <<"new", u>>
        BY <2>3, <3>2 DEF Calls, Signals
      <4>2. Named(uiq, "new") \subseteq Past
        BY DEF Named, Past, Heard
      <4>3. \A v \in Named(uiq, "new") : SortBy[v] < SortBy[u]
        BY <1>2, <1>4, <2>3, <3>2, <4>2 DEF InTime
      <4>4. Rising(uiq, "new") /\ s[2] = u
        BY <1>2, <4>1 DEF InTime
      <4>5. Rising(Append(uiq, s), "new")
        BY <1>2, <4>3, <4>4, RisingAppend
      <4> QED
        BY <3>1, <3>2, <4>1, <4>5
    <3>6. PICK past : past = Past'
      OBVIOUS
    <3>7. PICK signals : signals = uiq'
      OBVIOUS
    <3>8. InTime(past, t, signals, Stored)
      BY <1>2, <1>4, <2>3, <3>2, <3>4, <3>5, <3>6, <3>7 DEF InTime
    <3> QED
      BY <2>1, <3>6, <3>7, <3>8 DEF OrderOK
  <2>4. CASE call[1] # "store"
    <3>1. uiq' = uiq
      BY <1>6, <2>4 DEF CallDone, Announced
    <3>2. Heard' \subseteq Past
      <4>1. call[1] = "result" => call[2] \in Rows
        BY <1>6 DEF CallDone, Throws
      <4> QED
        BY <2>1, <2>2, <2>4, <4>1 DEF Heard, Past
    <3>3. ToSet(gui'.todo) \subseteq Past
      <4>1. CASE call[1] = "last"
        <5>1. PICK n \in Nat : n = call[2]
          BY <4>1 DEF Calls
        <5>2. gui'.todo = LastMessages(n)
          BY <1>2, <1>6, <4>1, <5>1 DEF CallDone, Answered, Guis
        <5>3. ToSet(LastMessages(n)) \subseteq Rows
          BY LastMessagesIsSequence, ElementOfSeq, LenProperties DEF ToSet
        <5> QED
          BY <5>2, <5>3 DEF Past
      <4>2. CASE call[1] # "last"
        <5>1. gui'.todo = gui.todo
          BY <1>2, <1>6, <4>2 DEF CallDone, Answered, Guis
        <5> QED
          BY <5>1 DEF Past
      <4> QED
        BY <4>1, <4>2
    <3>4. Past' \subseteq Past
      BY <2>1, <2>4, <3>2, <3>3 DEF Past
    <3>5. PICK past : past = Past'
      OBVIOUS
    <3>6. InTime(past, t, uiq, Stored)
      BY <1>2, <1>4, <3>4, <3>5 DEF InTime
    <3> QED
      BY <2>1, <3>1, <3>5, <3>6 DEF OrderOK
  <2> QED
    BY <2>3, <2>4
<1>7. CASE Stop /\ Rows' = Rows /\ told' = told
  BY <1>7, RowsAreStored, StopKeepsOrder
<1> QED
  BY <1>1, <1>5, <1>6, <1>7

LEMMA StoreMessageKeepsOrder ==
    ASSUME Queues, OrderOK, NEW u \in Messages, StoreMessage(u)
    PROVE  OrderOK'
<1>1. /\ dbq' = Append(dbq, <<"store", u>>) /\ told' = told \cup {<<"store", u>>}
      /\ u \notin Stored
      /\ \A v \in Stored : SortBy[v] <= SortBy[u]
      /\ UNCHANGED <<disk, known, gui, mcq, uiq>>
  BY DEF StoreMessage, Stored, tables, widgets
<1>2. InTime(Past, dbq, uiq, Stored) /\ dbq \in Seq(Calls)
  BY DEF OrderOK, Queues
<1>3. Past' = Past /\ Stored' = Stored \cup {u}
  BY <1>1 DEF Past, Heard, Rows, Stored
<1>4. PICK c \in Calls : c = <<"store", u>> /\ c[1] = "store" /\ c[2] = u
  <2>1. <<"store", u>> \in Calls
    BY DEF Calls
  <2> QED
    BY <2>1
<1>5. Named(Append(dbq, c), "store") = Named(dbq, "store") \cup {u}
  <2>1. Named(Append(dbq, c), "store") = Named(dbq, "store") \cup (IF c[1] = "store" THEN {c[2]} ELSE {})
    BY <1>2, NamedOfAppend
  <2> QED
    BY <1>4, <2>1
<1>6. \A v \in Past \cup Named(dbq, "store") : SortBy[v] < SortBy[u]
  <2> SUFFICES ASSUME NEW v \in Past \cup Named(dbq, "store") PROVE SortBy[v] < SortBy[u]
    OBVIOUS
  <2>1. v \in Stored
    BY <1>2 DEF InTime
  <2>2. v \in Messages /\ SortBy[v] \in Nat /\ SortBy[u] \in Nat /\ v # u /\ SortBy[v] <= SortBy[u]
    BY <1>1, <2>1, HistoryAssumption DEF Stored
  <2>3. SortBy[v] # SortBy[u]
    BY <2>2, HistoryAssumption
  <2> QED
    BY <2>2, <2>3
<1>7. Rising(Append(dbq, c), "store")
  <2>1. Rising(dbq, "store")
    BY <1>2 DEF InTime
  <2>2. \A v \in Named(dbq, "store") : SortBy[v] < SortBy[c[2]]
    BY <1>4, <1>6
  <2> QED
    BY <1>2, <2>1, <2>2, RisingAppend
<1>8. InTime(Past, Append(dbq, c), uiq, Stored \cup {u})
  BY <1>2, <1>5, <1>6, <1>7 DEF InTime
<1> QED
  BY <1>1, <1>3, <1>4, <1>8 DEF OrderOK

LEMMA QuietStepKeepsOrder ==
    ASSUME Queues, OrderOK, Past' \subseteq Past, NoStore, told \subseteq told',
           Rising(uiq, "new") => Rising(uiq', "new")
    PROVE  OrderOK'
<1>1. InTime(Past, dbq, uiq, Stored)
  BY DEF OrderOK
<1>2. PICK past : past = Past'
  OBVIOUS
<1>3. PICK calls : calls = dbq'
  OBVIOUS
<1>4. PICK signals : signals = uiq'
  OBVIOUS
<1>5. PICK stored : stored = Stored'
  OBVIOUS
<1>6. /\ Named(calls, "store") = Named(dbq, "store")
      /\ Rising(calls, "store") /\ Rising(signals, "new")
  BY <1>1, <1>3, <1>4, NoStoreKeepsOrder DEF InTime
<1>7. past \subseteq Past /\ Stored \subseteq stored
  BY <1>2, <1>5 DEF Stored
<1>8. InTime(past, calls, signals, stored)
  BY <1>1, <1>6, <1>7, InTimeStays
<1> QED
  BY <1>2, <1>3, <1>4, <1>5, <1>8 DEF OrderOK

LEMMA RelaySignals ==
    ASSUME Queues, Relay
    PROVE  \E s \in MSignals :
              /\ s = Head(mcq) /\ mcq' = Tail(mcq)
              /\ ToSet(mcq) = ToSet(mcq') \cup {s}
              /\ ToSet(uiq') = ToSet(uiq) \cup (IF s[2] \in Shown THEN {s} ELSE {})
              /\ s[1] \in {"changed", "deleted"} /\ s[2] \in Messages
              /\ Rising(uiq, "new") => Rising(uiq', "new")
<1>1. /\ mcq \in Seq(MSignals) /\ mcq # <<>> /\ uiq \in Seq(Signals) /\ mcq' = Tail(mcq)
      /\ uiq' = IF Head(mcq)[2] \in Shown THEN Append(uiq, Head(mcq)) ELSE uiq
  BY DEF Queues, Relay
<1>2. PICK s \in MSignals : s = Head(mcq)
  BY <1>1, SeqTail
<1>3. s \in Signals /\ s[1] \in {"changed", "deleted"} /\ s[2] \in Messages /\ s[1] # "new"
  BY DEF MSignals, Signals
<1>4. ToSet(mcq) = ToSet(Tail(mcq)) \cup {s}
  BY <1>1, <1>2, SetOfTail
<1>5. CASE s[2] \in Shown
  <2>1. uiq' = Append(uiq, s)
    BY <1>1, <1>2, <1>5
  <2>2. ToSet(Append(uiq, s)) = ToSet(uiq) \cup {s}
    BY <1>1, <1>3, SetOfAppend
  <2>3. Rising(uiq, "new") => Rising(Append(uiq, s), "new")
    BY <1>1, <1>3, RisingAppend
  <2> QED
    BY <1>1, <1>2, <1>3, <1>4, <1>5, <2>1, <2>2, <2>3
<1>6. CASE s[2] \notin Shown
  BY <1>1, <1>2, <1>3, <1>4, <1>6
<1> QED
  BY <1>5, <1>6

LEMMA StepKeepsOrder == Queues /\ OrderOK /\ [Next]_vars => OrderOK'
<1> SUFFICES ASSUME Queues, OrderOK, [Next]_vars PROVE OrderOK'
  OBVIOUS
<1>1. CASE ExecuteCall
  BY <1>1, ExecuteCallKeepsOrder
<1>2. ASSUME NEW u \in Messages, StoreMessage(u) PROVE OrderOK'
  BY <1>2, StoreMessageKeepsOrder
<1>3. ASSUME NEW u \in Messages, StoreResult(u) PROVE OrderOK'
  <2>1. Past' = Past /\ uiq' = uiq /\ told \subseteq told'
    BY <1>3 DEF StoreResult, Past, Heard, Rows, tables, widgets
  <2>2. <<"result", u>> \in Calls /\ <<"result", u>>[1] # "store"
    BY DEF Calls
  <2>3. NoStore
    BY <1>3, <2>2 DEF StoreResult, NoStore
  <2> QED
    BY <2>1, <2>3, QuietStepKeepsOrder
<1>4. CASE Relay
  <2>1. UNCHANGED <<disk, told, dbq, known, gui>>
    BY <1>4 DEF Relay, tables, widgets
  <2>2. Heard' \subseteq Heard
    BY <1>4, RelaySignals DEF Heard
  <2>3. Past' \subseteq Past
    BY <2>1, <2>2 DEF Past, Rows
  <2> QED
    BY <1>4, <2>1, <2>3, RelaySignals, QuietStepKeepsOrder DEF NoStore
<1>5. CASE WindowStep \/ UserStep
  <2>1. /\ Rows' = Rows /\ told' = told /\ mcq' = mcq /\ NoStore /\ FewerSignals
        /\ known' \cup ToSet(gui'.todo) \subseteq known \cup ToSet(gui.todo) \cup Heard
    BY <1>5, WindowStepReaches, UserStepReaches
  <2>2. ToSet(uiq') \subseteq ToSet(uiq) /\ (Rising(uiq, "new") => Rising(uiq', "new"))
    BY <2>1, FewerSignalsKeepOrder
  <2>3. Heard' \subseteq Heard
    BY <2>1, <2>2 DEF Heard
  <2>4. Past' \subseteq Past
    BY <2>1, <2>3 DEF Past
  <2> QED
    BY <2>1, <2>2, <2>4, QuietStepKeepsOrder
<1>6. CASE Crash
  BY <1>6, CrashCases, RowsAreStored, StopKeepsOrder
<1>7. CASE Quit
  BY <1>7, RowsAreStored, StopKeepsOrder DEF Quit, tables, Rows
<1>8. CASE Restart \/ UNCHANGED vars
  <2>1. UNCHANGED <<disk, told, dbq, mcq, uiq, known, gui>>
    BY <1>8 DEF Restart, vars, tables, widgets
  <2>2. Past' = Past
    BY <2>1 DEF Past, Heard, Rows
  <2> QED
    BY <2>1, <2>2, QuietStepKeepsOrder DEF NoStore
<1> QED
  BY <1>1, <1>2, <1>3, <1>4, <1>5, <1>6, <1>7, <1>8 DEF Next

-----------------------------------------------------------------------------
(* Deletions never overtake the window: while it has fetched what it has   *)
(* not shown yet, none waits.                                              *)
Deletes(call) == call[1] \in {"delete", "deleteMany"}

NoDeletes(q) == \A c \in ToSet(q) : ~Deletes(c)

DeletesLast(q) == \A i, j \in 1 .. Len(q) : i < j /\ Blocks(q[i]) => ~Deletes(q[j])

(* More than the one that is being fetched is to be shown. *)
MoreToShow(g) == \E u \in ToSet(g.todo) : u # Head(g.todo)

Holding(g) == g.at \in {"next", "add", "update"} \/ (g.at = "message" /\ MoreToShow(g))

Orderly(q, g) == DeletesLast(q) /\ (Holding(g) => NoDeletes(q))

DeletesOK == Orderly(dbq, gui)

LEMMA NoDeletesAppend ==
    ASSUME NEW q \in Seq(Calls), NEW c \in Calls, ~Deletes(c)
    PROVE  /\ DeletesLast(q) => DeletesLast(Append(q, c))
           /\ NoDeletes(q) => NoDeletes(Append(q, c))
<1> DEFINE r == Append(q, c)
           n == Len(q)
<1>1. /\ n \in Nat /\ DOMAIN q = 1..n /\ Len(r) = n + 1
      /\ (\A i \in 1..n : r[i] = q[i]) /\ r[n + 1] = c
  BY AppendProperties, LenProperties
<1>2. ToSet(r) = ToSet(q) \cup {c}
  BY SetOfAppend
<1> HIDE DEF r, n
<1>3. ASSUME DeletesLast(q), NEW i \in 1 .. n + 1, NEW j \in 1 .. n + 1, i < j, Blocks(r[i])
      PROVE  ~Deletes(r[j])
  <2>1. CASE j = n + 1
    BY <1>1, <2>1
  <2>2. CASE j # n + 1
    <3>1. i \in 1..n /\ j \in 1..n
      BY <1>1, <1>3, <2>2
    <3> QED
      BY <1>1, <1>3, <3>1 DEF DeletesLast, n
  <2> QED
    BY <2>1, <2>2
<1>4. DeletesLast(q) => DeletesLast(r)
  BY <1>1, <1>3 DEF DeletesLast
<1>5. NoDeletes(q) => NoDeletes(r)
  BY <1>2 DEF NoDeletes
<1> QED
  BY <1>4, <1>5 DEF r

LEMMA DeletesAppend ==
    ASSUME NEW q \in Seq(Calls), NEW c \in Calls, \A i \in 1 .. Len(q) : ~Blocks(q[i]), ~Blocks(c)
    PROVE  DeletesLast(Append(q, c))
<1> DEFINE r == Append(q, c)
           n == Len(q)
<1>1. /\ n \in Nat /\ Len(r) = n + 1
      /\ (\A i \in 1..n : r[i] = q[i]) /\ r[n + 1] = c
  BY AppendProperties, LenProperties
<1> HIDE DEF r
<1>2. \A i \in 1 .. n + 1 : ~Blocks(r[i])
  <2> TAKE i \in 1 .. n + 1
  <2>1. i \in 1..n \/ i = n + 1
    BY <1>1
  <2> QED
    BY <1>1, <2>1
<1> QED
  BY <1>1, <1>2 DEF DeletesLast, r

LEMMA DeletesTail ==
    ASSUME NEW q \in Seq(Calls), q # <<>>, DeletesLast(q)
    PROVE  /\ DeletesLast(Tail(q))
           /\ Blocks(Head(q)) => NoDeletes(Tail(q))
           /\ NoDeletes(q) => NoDeletes(Tail(q))
<1> DEFINE t == Tail(q)
           n == Len(t)
<1>1. /\ n \in Nat /\ DOMAIN t = 1..n /\ Head(q) = q[1] /\ Len(q) = n + 1
      /\ \A i \in 1..n : t[i] = q[i + 1]
  <2>1. t \in Seq(Calls) /\ Len(q) \in Nat /\ Len(q) # 0 /\ n = Len(q) - 1 /\ Head(q) = q[1]
        /\ \A i \in 1..n : t[i] = q[i + 1]
    BY HeadTailProperties, LenProperties, EmptySeq
  <2>2. n \in Nat /\ DOMAIN t = 1..n /\ Len(q) = n + 1
    BY <2>1, LenProperties
  <2> QED
    BY <2>1, <2>2
<1>2. ToSet(q) = ToSet(t) \cup {Head(q)}
  BY SetOfTail
<1> HIDE DEF t, n
<1>3. \A i \in 1..n : i + 1 \in 1 .. n + 1 /\ 1 < i + 1 /\ 1 \in 1 .. n + 1
  BY <1>1
<1>4. \A i, j \in 1..n : i < j => i + 1 < j + 1
  BY <1>1
<1>5. DeletesLast(t)
  <2> SUFFICES ASSUME NEW i \in 1..n, NEW j \in 1..n, i < j, Blocks(t[i])
               PROVE  ~Deletes(t[j])
    BY DEF DeletesLast, n
  <2>1. t[i] = q[i + 1] /\ t[j] = q[j + 1] /\ i + 1 < j + 1
    BY <1>1, <1>4
  <2> QED
    BY <1>1, <1>3, <2>1 DEF DeletesLast
<1>6. ASSUME Blocks(q[1]), NEW c \in ToSet(t)
      PROVE  ~Deletes(c)
  <2>1. PICK i \in 1..n : c = t[i]
    BY <1>1 DEF ToSet
  <2> QED
    BY <1>1, <1>3, <1>6, <2>1 DEF DeletesLast
<1>7. NoDeletes(q) => NoDeletes(t)
  BY <1>2 DEF NoDeletes
<1> QED
  BY <1>1, <1>5, <1>6, <1>7 DEF t, NoDeletes

LEMMA RestingHoldsNothing == ~Holding(Resting)
  BY DEF Holding, Resting

LEMMA StopKeepsDeletes == Stop => DeletesOK'
<1> SUFFICES ASSUME Stop PROVE DeletesOK'
  OBVIOUS
<1>1. dbq' = <<>> /\ gui' = Resting
  BY DEF Stop
<1>2. Orderly(<<>>, Resting)
  BY NoSignals, RestingHoldsNothing DEF Orderly, DeletesLast
<1> QED
  BY <1>1, <1>2 DEF DeletesOK

(* A call that deletes nothing is posted, and the window holds no more     *)
(* than before; or any call by a window that is at rest.                   *)
LEMMA PostKeepsDeletes ==
    ASSUME Queues, DeletesOK,
           \/ dbq' = dbq
           \/ \E c \in Calls : ~Deletes(c) /\ dbq' = Append(dbq, c),
           Holding(gui') => Holding(gui)
    PROVE  DeletesOK'
<1>1. dbq \in Seq(Calls) /\ Orderly(dbq, gui)
  BY DEF Queues, DeletesOK
<1>2. PICK q : q = dbq'
  OBVIOUS
<1>3. PICK g : g = gui'
  OBVIOUS
<1>4. DeletesLast(q) /\ (NoDeletes(dbq) => NoDeletes(q))
  BY <1>1, <1>2, NoDeletesAppend DEF Orderly
<1>5. Orderly(q, g)
  BY <1>1, <1>3, <1>4 DEF Orderly
<1> QED
  BY <1>2, <1>3, <1>5 DEF DeletesOK

LEMMA ShowKeepsDeletes ==
    ASSUME Queues, DeletesOK, NEW us \in Seq(Messages), Show(us),
           Holding(gui) \/ \E u \in Messages : us = <<u>>
    PROVE  DeletesOK'
<1>1. CASE gui' = Resting /\ dbq' = dbq
  BY <1>1, RestingHoldsNothing, PostKeepsDeletes
<1>2. CASE \E rest \in Seq(Messages) :
              /\ rest # <<>> /\ Head(rest) \in Messages
              /\ ToSet(rest) = ToSet(us) \ known
              /\ dbq' = Append(dbq, <<"message", Head(rest)>>)
              /\ gui' = [at |-> "message", todo |-> rest, sent |-> FALSE]
  <2>1. PICK rest \in Seq(Messages) :
              /\ rest # <<>> /\ Head(rest) \in Messages
              /\ ToSet(rest) = ToSet(us) \ known
              /\ dbq' = Append(dbq, <<"message", Head(rest)>>)
              /\ gui' = [at |-> "message", todo |-> rest, sent |-> FALSE]
    BY <1>2
  <2>2. PICK c \in Calls : c = <<"message", Head(rest)>> /\ ~Deletes(c)
    <3>1. <<"message", Head(rest)>> \in Calls /\ ~Deletes(<<"message", Head(rest)>>)
      BY <2>1 DEF Calls, Deletes
    <3> QED
      BY <3>1
  <2>3. Holding(gui') => Holding(gui)
    <3>1. CASE \E u \in Messages : us = <<u>>
      <4>1. PICK u : ToSet(us) = {u}
        <5>1. PICK v \in Messages : us = <<v>>
          BY <3>1
        <5>2. ToSet(<<v>>) = {v}
          BY DEF ToSet
        <5> QED
          BY <5>1, <5>2
      <4>2. Head(rest) \in ToSet(rest)
        BY <2>1, SetOfTail
      <4>3. gui'.at = "message" /\ gui'.todo = rest
        BY <2>1
      <4>4. ~MoreToShow(gui')
        BY <2>1, <4>1, <4>2, <4>3 DEF MoreToShow
      <4> QED
        BY <4>3, <4>4 DEF Holding
    <3> QED
      BY <3>1
  <2> QED
    BY <2>1, <2>2, <2>3, PostKeepsDeletes
<1> QED
  BY <1>1, <1>2, ShowStarts

LEMMA ExecuteCallKeepsDeletes == Queues /\ DeletesOK /\ ExecuteCall => DeletesOK'
<1> SUFFICES ASSUME Queues, DeletesOK, ExecuteCall PROVE DeletesOK'
  OBVIOUS
<1>1. PICK call \in Calls :
         /\ dbq \in Seq(Calls) /\ dbq # <<>> /\ call = Head(dbq)
         /\ 1 \in 1 .. Len(dbq) /\ call = dbq[1]
         /\ CallDone(call) \/ CallThrown(call) \/ (Stop /\ Rows' = Rows /\ told' = told)
  BY ExecuteCallCases
<1>2. Orderly(dbq, gui) /\ gui \in Guis
  BY DEF DeletesOK, Queues
<1>3. PICK t : t = Tail(dbq)
  OBVIOUS
<1>4. PICK g : g = gui'
  OBVIOUS
<1>5. /\ DeletesLast(t) /\ (Blocks(call) => NoDeletes(t))
      /\ NoDeletes(dbq) => NoDeletes(t)
  BY <1>1, <1>2, <1>3, DeletesTail DEF Orderly
<1>6. CASE g = gui /\ dbq' = t
  <2>1. Orderly(t, g)
    BY <1>2, <1>5, <1>6 DEF Orderly
  <2> QED
    BY <1>4, <1>6, <2>1 DEF DeletesOK
<1>7. CASE Blocks(call) /\ dbq' = t
  <2>1. Orderly(t, g)
    BY <1>5, <1>7 DEF Orderly
  <2> QED
    BY <1>4, <1>7, <2>1 DEF DeletesOK
<1>8. CASE Stop
  BY <1>8, StopKeepsDeletes
<1>9. CallDone(call) \/ CallThrown(call) => dbq' = t /\ (g = gui \/ Blocks(call))
  BY <1>3, <1>4 DEF CallDone, CallThrown, Answered, Blocks
<1> QED
  BY <1>1, <1>6, <1>7, <1>8, <1>9

LEMMA WindowStepKeepsDeletes == Queues /\ DeletesOK /\ WindowStep => DeletesOK'
<1> SUFFICES ASSUME Queues, DeletesOK, WindowStep PROVE DeletesOK'
  OBVIOUS
<1>1. gui \in Guis /\ uiq \in Seq(Signals)
  BY DEF Queues
<1>2. CASE LoadLastNMessages
  <2>1. <<"last", PageSize>> \in Calls /\ ~Deletes(<<"last", PageSize>>)
    BY HistoryAssumption DEF Calls, Deletes
  <2>2. dbq' = Append(dbq, <<"last", PageSize>>) /\ gui'.at = "list"
    BY <1>2 DEF LoadLastNMessages, Resting
  <2> QED
    BY <2>1, <2>2, PostKeepsDeletes DEF Holding
<1>3. CASE ShowLastMessages
  <2>1. gui.todo \in Seq(Messages) /\ Show(gui.todo) /\ Holding(gui)
    BY <1>1, <1>3 DEF ShowLastMessages, Guis, Holding
  <2> QED
    BY <2>1, ShowKeepsDeletes
<1>4. CASE OnNewMessage
  <2>1. uiq # <<>>
    BY <1>4 DEF OnNewMessage, Signalled
  <2>2. PICK u \in Messages : u = Head(uiq)[2]
    BY <1>1, <2>1, SeqTail DEF Signals
  <2>3. IF tab THEN Show(<<u>>) ELSE UNCHANGED <<known, dbq, gui>>
    BY <1>4, <2>2, Zenon DEF OnNewMessage
  <2>4. <<u>> \in Seq(Messages)
    OBVIOUS
  <2>5. CASE tab
    BY <2>3, <2>4, <2>5, ShowKeepsDeletes
  <2>6. CASE ~tab
    BY <2>3, <2>6, PostKeepsDeletes
  <2> QED
    BY <2>5, <2>6
<1>5. CASE AddChatWidgetItem
  <2>1. gui.todo \in Seq(Messages) /\ gui.todo # <<>> /\ Show(Tail(gui.todo)) /\ Holding(gui)
    BY <1>1, <1>5 DEF AddChatWidgetItem, Queues, Busy, Guis, Holding
  <2>2. Tail(gui.todo) \in Seq(Messages)
    BY <2>1, SeqTail
  <2> QED
    BY <2>1, <2>2, ShowKeepsDeletes
<1>6. CASE OnMessageChanged
  <2>1. uiq # <<>>
    BY <1>6 DEF OnMessageChanged, Signalled
  <2>2. PICK u \in Messages : u = Head(uiq)[2]
    BY <1>1, <2>1, SeqTail DEF Signals
  <2>3. <<"message", u>> \in Calls /\ ~Deletes(<<"message", u>>)
    BY DEF Calls, Deletes
  <2>4. \/ dbq' = Append(dbq, <<"message", u>>) /\ gui'.at = "reload"
        \/ dbq' = dbq /\ gui' = gui
    BY <1>6, <2>2 DEF OnMessageChanged
  <2>5. Holding(gui') => Holding(gui)
    BY <2>4 DEF Holding
  <2> QED
    BY <2>3, <2>4, <2>5, PostKeepsDeletes
<1>7. CASE UpdateItem
  BY <1>7, RestingHoldsNothing, PostKeepsDeletes DEF UpdateItem
<1>8. CASE OnMessageDeleted
  BY <1>8, PostKeepsDeletes DEF OnMessageDeleted
<1> QED
  BY <1>2, <1>3, <1>4, <1>5, <1>6, <1>7, <1>8 DEF WindowStep

LEMMA UserStepKeepsDeletes == Queues /\ DeletesOK /\ UserStep => DeletesOK'
<1> SUFFICES ASSUME Queues, DeletesOK, UserStep PROVE DeletesOK'
  OBVIOUS
<1>1. gui.at = "idle" /\ gui'.at \in {"idle", "list"} /\ NoStore
  BY UserStepReaches
<1>2. dbq \in Seq(Calls) /\ WaitsFor(dbq, gui) /\ ~Holding(gui')
  BY <1>1 DEF Queues, Holding
<1>3. CASE dbq' = dbq
  BY <1>2, <1>3, PostKeepsDeletes
<1>4. CASE dbq' # dbq
  <2>1. PICK c \in Calls : dbq' = Append(dbq, c)
    BY <1>1, <1>4 DEF NoStore
  <2>2. CASE ~Deletes(c)
    BY <1>2, <2>1, <2>2, PostKeepsDeletes
  <2>3. CASE Deletes(c)
    <3>1. ~Blocks(c)
      BY <2>3 DEF Deletes, Blocks
    <3>2. \A i \in 1 .. Len(dbq) : ~Blocks(dbq[i])
      BY <1>1, <1>2, NobodyWaits
    <3>3. DeletesLast(Append(dbq, c))
      BY <1>2, <3>1, <3>2, DeletesAppend
    <3>4. PICK g : g = gui'
      OBVIOUS
    <3>5. Orderly(Append(dbq, c), g)
      BY <1>2, <3>3, <3>4 DEF Orderly
    <3> QED
      BY <2>1, <3>4, <3>5 DEF DeletesOK
  <2> QED
    BY <2>2, <2>3
<1> QED
  BY <1>3, <1>4

LEMMA StepKeepsDeletes == Queues /\ DeletesOK /\ [Next]_vars => DeletesOK'
<1> SUFFICES ASSUME Queues, DeletesOK, [Next]_vars PROVE DeletesOK'
  OBVIOUS
<1>1. CASE ExecuteCall
  BY <1>1, ExecuteCallKeepsDeletes
<1>2. ASSUME NEW u \in Messages, StoreMessage(u) \/ StoreResult(u) PROVE DeletesOK'
  <2>1. PICK kind \in {"store", "result"} : dbq' = Append(dbq, <<kind, u>>) /\ gui' = gui
    BY <1>2 DEF StoreMessage, StoreResult
  <2>2. <<kind, u>> \in Calls /\ ~Deletes(<<kind, u>>)
    BY DEF Calls, Deletes
  <2> QED
    BY <2>1, <2>2, PostKeepsDeletes
<1>3. CASE Relay
  BY <1>3, PostKeepsDeletes DEF Relay
<1>4. CASE WindowStep
  BY <1>4, WindowStepKeepsDeletes
<1>5. CASE UserStep
  BY <1>5, UserStepKeepsDeletes
<1>6. CASE Crash \/ Quit
  BY <1>6, StopKeepsDeletes DEF Crash, Quit
<1>7. CASE Restart \/ UNCHANGED vars
  BY <1>7, PostKeepsDeletes DEF Restart, vars
<1> QED
  BY <1>1, <1>2, <1>3, <1>4, <1>5, <1>6, <1>7 DEF Next

LEMMA InitDeletes == Init => DeletesOK
<1> SUFFICES ASSUME Init PROVE DeletesOK
  OBVIOUS
<1>1. dbq = <<>> /\ gui = Resting
  BY DEF Init
<1> QED
  BY <1>1, NoSignals, RestingHoldsNothing DEF DeletesOK, Orderly, DeletesLast

-----------------------------------------------------------------------------
(* The rows and the tab: what is being shown has its row, unless it is a   *)
(* single message that is yet to be fetched; an item without a row will    *)
(* hear of it, and no other; what is known and has a row is shown or       *)
(* being fetched.                                                          *)
InFlight == ToSet(mcq) \cup ToSet(uiq)

OnTheirWay == IF gui.at \in {"next", "message", "add"} THEN ToSet(gui.todo) ELSE {}

Fetched == IF gui.at \in {"message", "add"} THEN {Head(gui.todo)} ELSE {}

RowsOK ==
    /\ (gui.at = "message" /\ ~MoreToShow(gui)) \/ OnTheirWay \subseteq Rows
    /\ \A u \in Shown \ Rows : <<"deleted", u>> \in InFlight
    /\ \A u \in Rows : <<"deleted", u>> \notin InFlight
    /\ known \cap Rows \subseteq Shown \cup Fetched

LEMMA FirstToShow ==
    ASSUME Queues, gui.at \in Busy
    PROVE  /\ gui.todo \in Seq(Messages) /\ Tail(gui.todo) \in Seq(Messages)
           /\ Head(gui.todo) \in Messages
           /\ ToSet(gui.todo) = ToSet(Tail(gui.todo)) \cup {Head(gui.todo)}
<1>1. gui.todo \in Seq(Messages) /\ gui.todo # <<>>
  BY DEF Queues, Guis
<1> QED
  BY <1>1, SeqTail, SetOfTail

LEMMA ShowEffect ==
    ASSUME NEW us \in Seq(Messages), Show(us)
    PROVE  /\ gui'.at \in {"idle", "message"}
           /\ OnTheirWay' = ToSet(us) \ known
           /\ Fetched' \subseteq OnTheirWay'
           /\ known' = known \cup Fetched'
           /\ (\E u : us = <<u>>) => ~MoreToShow(gui')
<1>1. CASE gui' = Resting /\ known' = known /\ ToSet(us) \subseteq known
  <2>1. gui'.at = "idle" /\ ToSet(gui'.todo) = {}
    BY <1>1, SetOfEmpty DEF Resting
  <2> QED
    BY <1>1, <2>1 DEF OnTheirWay, Fetched, MoreToShow
<1>2. CASE \E rest \in Seq(Messages) :
              /\ rest # <<>> /\ Head(rest) \in Messages
              /\ ToSet(rest) = ToSet(us) \ known
              /\ known' = known \cup {Head(rest)}
              /\ gui' = [at |-> "message", todo |-> rest, sent |-> FALSE]
  <2>1. PICK rest \in Seq(Messages) :
              /\ rest # <<>> /\ Head(rest) \in Messages
              /\ ToSet(rest) = ToSet(us) \ known
              /\ known' = known \cup {Head(rest)}
              /\ gui' = [at |-> "message", todo |-> rest, sent |-> FALSE]
    BY <1>2
  <2>2. gui'.at = "message" /\ gui'.todo = rest
    BY <2>1
  <2>3. Head(rest) \in ToSet(rest)
    BY <2>1, SetOfTail
  <2>4. OnTheirWay' = ToSet(us) \ known /\ Fetched' = {Head(rest)}
    BY <2>1, <2>2 DEF OnTheirWay, Fetched
  <2>5. (\E u : us = <<u>>) => ~MoreToShow(gui')
    <3>1. SUFFICES ASSUME NEW u, us = <<u>> PROVE ~MoreToShow(gui')
      OBVIOUS
    <3>2. ToSet(us) = {u}
      BY <3>1 DEF ToSet
    <3> QED
      BY <2>1, <2>2, <2>3, <3>2 DEF MoreToShow
  <2> QED
    BY <2>1, <2>2, <2>3, <2>4, <2>5
<1> QED
  BY <1>1, <1>2, ShowStarts

(* What a call that is executed gives back. *)
LEMMA DoneEffect ==
    ASSUME Queues, NEW call \in Calls, 1 \in 1 .. Len(dbq), call = dbq[1], CallDone(call)
    PROVE  /\ Fetched' = Fetched
           /\ call[1] = "last" =>
                 /\ gui.at = "list" /\ gui'.at = "next"
                 /\ OnTheirWay = {} /\ OnTheirWay' = ToSet(LastMessages(call[2]))
           /\ call[1] = "message" =>
                 /\ call[2] = Head(gui.todo) /\ call[2] \in Rows
                 /\ gui'.todo = gui.todo /\ gui'.sent = (call[2] \in sent)
                 /\ \/ gui.at = "message" /\ gui'.at = "add"
                    \/ gui.at = "reload" /\ gui'.at = "update"
                 /\ OnTheirWay' = OnTheirWay
           /\ call[1] \notin {"last", "message"} => gui' = gui /\ OnTheirWay' = OnTheirWay
<1>1. gui \in Guis /\ WaitsFor(dbq, gui) /\ Answered(call) /\ ~Throws(call)
  BY DEF Queues, CallDone
<1>2. CASE call[1] = "last"
  <2>1. PICK n \in Nat : n = call[2]
    BY <1>2 DEF Calls
  <2>2. gui' = [gui EXCEPT !.at = "next", !.todo = LastMessages(n)]
    BY <1>1, <1>2, <2>1 DEF Answered
  <2>3. gui.at = "list" /\ gui'.at = "next" /\ gui'.todo = LastMessages(n)
    BY <1>1, <1>2, <2>2 DEF WaitsFor, Guis
  <2> QED
    BY <1>2, <2>1, <2>3 DEF OnTheirWay, Fetched
<1>3. CASE call[1] = "message"
  <2>1. gui.at \in {"message", "reload"} /\ call[2] = Head(gui.todo)
    BY <1>1, <1>3 DEF WaitsFor
  <2>2. gui' = [gui EXCEPT !.at = IF gui.at = "message" THEN "add" ELSE "update", !.sent = call[2] \in sent]
    BY <1>1, <1>3 DEF Answered
  <2>3. gui'.at = (IF gui.at = "message" THEN "add" ELSE "update") /\ gui'.todo = gui.todo
    BY <1>1, <2>2 DEF Guis
  <2>4. gui'.sent = (call[2] \in sent)
    BY <1>1, <2>2, Zenon DEF Guis
  <2>5. call[2] \in Rows
    BY <1>1, <1>3 DEF Throws
  <2>6. OnTheirWay' = OnTheirWay /\ Fetched' = Fetched
    BY <2>1, <2>3 DEF OnTheirWay, Fetched
  <2> QED
    BY <1>3, <2>1, <2>3, <2>4, <2>5, <2>6
<1>4. CASE call[1] \notin {"last", "message"}
  <2>1. gui' = gui
    BY <1>1, <1>4 DEF Answered
  <2> QED
    BY <1>4, <2>1 DEF OnTheirWay, Fetched
<1> QED
  BY <1>2, <1>3, <1>4

LEMMA StoresAreNew ==
    ASSUME Queues, OrderOK, NEW call \in ToSet(dbq), call[1] = "store"
    PROVE  call[2] \notin Past
<1>1. call[2] \in Named(dbq, "store")
  BY DEF Named
<1>2. call[2] \in Messages /\ SortBy[call[2]] \in Nat
  <2>1. call \in Calls
    BY LenProperties, ElementOfSeq DEF Queues, ToSet
  <2> QED
    BY <2>1, HistoryAssumption DEF Calls
<1>3. ~(SortBy[call[2]] < SortBy[call[2]])
  BY <1>2
<1> QED
  BY <1>1, <1>3 DEF OrderOK, InTime

LEMMA EmptyTabKeepsRows ==
    ASSUME gui'.at = "idle", items' = <<>>, known' = {},
           \A u \in Rows' : <<"deleted", u>> \notin InFlight'
    PROVE  RowsOK'
<1>1. Shown' = {}
  BY NothingShown DEF Shown, Uids
<1> QED
  BY <1>1 DEF RowsOK, OnTheirWay

LEMMA StopKeepsRows == Stop => RowsOK'
<1> SUFFICES ASSUME Stop PROVE RowsOK'
  OBVIOUS
<1>1. gui'.at = "idle" /\ items' = <<>> /\ known' = {} /\ InFlight' = {}
  BY SetOfEmpty DEF Stop, Resting, InFlight
<1> QED
  BY <1>1, EmptyTabKeepsRows

LEMMA ExecuteCallKeepsRows == Queues /\ OrderOK /\ DeletesOK /\ TabOK /\ RowsOK /\ ExecuteCall => RowsOK'
<1> SUFFICES ASSUME Queues, OrderOK, DeletesOK, TabOK, RowsOK, ExecuteCall PROVE RowsOK'
  OBVIOUS
<1>1. PICK call \in Calls :
         /\ dbq \in Seq(Calls) /\ dbq # <<>> /\ call = Head(dbq)
         /\ 1 \in 1 .. Len(dbq) /\ call = dbq[1]
         /\ CallDone(call) \/ CallThrown(call) \/ (Stop /\ Rows' = Rows /\ told' = told)
  BY ExecuteCallCases
<1>2. call \in ToSet(dbq)
  BY <1>1, SetOfTail
<1>3. CASE CallThrown(call)
  BY <1>3 DEF CallThrown, RowsOK, Shown, InFlight, OnTheirWay, Fetched, widgets
<1>4. CASE Stop
  BY <1>4, StopKeepsRows
<1>5. CASE CallDone(call)
  <2> DEFINE vs == ToSet(Victims(call))
  <2>1. /\ known' = known /\ Shown' = Shown
        /\ Rows' = IF call[1] = "store" THEN Rows \cup {call[2]} ELSE Rows \ vs
        /\ ToSet(uiq') = ToSet(uiq) \cup (IF call[1] = "store" THEN {<<"new", call[2]>>} ELSE {})
        /\ ToSet(mcq') = ToSet(mcq) \cup (IF call[1] = "result" THEN {<<"changed", call[2]>>}
                                          ELSE {"deleted"} \X vs)
    BY <1>5, AnnouncedSignals DEF CallDone, widgets, Shown
  <2>2. vs \subseteq Rows /\ (~Deletes(call) => vs = {})
    BY VictimsAreMessages, SetOfEmpty DEF Victims, Deletes
  <2> HIDE DEF vs
  <2>3. \/ gui'.at = "message" /\ ~MoreToShow(gui')
        \/ OnTheirWay' \subseteq Rows'
    <3>1. CASE call[1] = "last"
      <4>1. PICK n \in Nat : n = call[2]
        BY <3>1 DEF Calls
      <4>2. ToSet(LastMessages(n)) \subseteq Rows
        BY LastMessagesIsSequence, ElementOfSeq, LenProperties DEF ToSet
      <4>3. Rows' = Rows
        BY <2>1, <2>2, <3>1 DEF Deletes
      <4> QED
        BY <1>1, <1>5, <3>1, <4>1, <4>2, <4>3, DoneEffect
    <3>2. CASE call[1] = "message"
      <4>1. Rows' = Rows
        BY <2>1, <2>2, <3>2 DEF Deletes
      <4>2. call[2] = Head(gui.todo) /\ call[2] \in Rows /\ OnTheirWay' = OnTheirWay
        BY <1>1, <1>5, <3>2, DoneEffect
      <4>3. OnTheirWay \subseteq Rows
        BY <4>2 DEF RowsOK, OnTheirWay, MoreToShow
      <4> QED
        BY <4>1, <4>2, <4>3
    <3>3. CASE call[1] \notin {"last", "message"}
      <4>1. gui' = gui /\ OnTheirWay' = OnTheirWay
        BY <1>1, <1>5, <3>3, DoneEffect
      <4>2. CASE Deletes(call)
        <5>1. ~Holding(gui)
          BY <1>2, <4>2 DEF DeletesOK, Orderly, NoDeletes
        <5> QED
          BY <4>1, <5>1 DEF Holding, OnTheirWay
      <4>3. CASE ~Deletes(call)
        <5>1. Rows \subseteq Rows'
          BY <2>1, <2>2, <4>3
        <5> QED
          BY <4>1, <5>1 DEF RowsOK
      <4> QED
        BY <4>2, <4>3
    <3> QED
      BY <3>1, <3>2, <3>3
  <2>4. Fetched' = Fetched
    BY <1>1, <1>5, DoneEffect
  <2>5. call[1] = "store" => call[2] \notin known /\ <<"deleted", call[2]>> \notin InFlight
    BY <1>2, StoresAreNew DEF Past, Heard, InFlight
  <2>6. Shown \subseteq known
    BY DEF TabOK
  <2>7. known' \cap Rows' \subseteq Shown' \cup Fetched'
    BY <2>1, <2>4, <2>5 DEF RowsOK
  <2>8. ASSUME NEW u \in Shown' \ Rows' PROVE <<"deleted", u>> \in InFlight'
    <3>1. CASE u \in Rows
      <4>1. u \in vs /\ call[1] # "store" /\ Deletes(call)
        BY <2>1, <2>2, <2>8, <3>1
      <4> QED
        BY <2>1, <4>1 DEF InFlight, Deletes
    <3>2. CASE u \notin Rows
      BY <2>1, <2>8, <3>2 DEF RowsOK, InFlight
    <3> QED
      BY <3>1, <3>2
  <2>9. ASSUME NEW u \in Rows' PROVE <<"deleted", u>> \notin InFlight'
    <3>1. CASE call[1] = "store"
      <4>1. vs = {}
        BY <2>2, <3>1 DEF Deletes
      <4>2. <<"deleted", u>> \notin InFlight
        BY <2>1, <2>5, <2>9, <3>1 DEF RowsOK
      <4> QED
        BY <2>1, <3>1, <4>1, <4>2 DEF InFlight
    <3>2. CASE call[1] # "store"
      <4>1. u \in Rows /\ u \notin vs
        BY <2>1, <2>9, <3>2
      <4> QED
        BY <2>1, <3>2, <4>1 DEF RowsOK, InFlight
    <3> QED
      BY <3>1, <3>2
  <2> QED
    BY <2>3, <2>7, <2>8, <2>9 DEF RowsOK
<1> QED
  BY <1>1, <1>3, <1>4, <1>5

LEMMA RelayKeepsRows == Queues /\ RowsOK /\ Relay => RowsOK'
<1> SUFFICES ASSUME Queues, RowsOK, Relay PROVE RowsOK'
  OBVIOUS
<1>1. PICK s : /\ ToSet(mcq) = ToSet(mcq') \cup {s}
               /\ ToSet(uiq') = ToSet(uiq) \cup (IF s[2] \in Shown THEN {s} ELSE {})
  BY RelaySignals
<1>2. UNCHANGED <<disk, known, items, gui>>
  BY DEF Relay, tables, widgets
<1>3. Rows' = Rows /\ Shown' = Shown /\ OnTheirWay' = OnTheirWay /\ Fetched' = Fetched
  BY <1>2 DEF Rows, Shown, OnTheirWay, Fetched
<1>4. InFlight' \subseteq InFlight
  BY <1>1 DEF InFlight
<1>5. \A u \in Shown : <<"deleted", u>> \in InFlight => <<"deleted", u>> \in InFlight'
  BY <1>1 DEF InFlight
<1> QED
  BY <1>2, <1>3, <1>4, <1>5 DEF RowsOK

(* A step that leaves the rows, and the signals of what is shown, alone.   *)
LEMMA QuietStepKeepsRows ==
    ASSUME RowsOK, Rows' = Rows, Shown' = Shown, known' = known, Fetched' = Fetched,
           gui' = gui \/ OnTheirWay' = {},
           InFlight' \subseteq InFlight, \A u \in Shown : <<"deleted", u>> \in InFlight => <<"deleted", u>> \in InFlight'
    PROVE  RowsOK'
<1>1. \/ gui'.at = "message" /\ ~MoreToShow(gui')
      \/ OnTheirWay' \subseteq Rows'
  BY DEF RowsOK, OnTheirWay
<1> QED
  BY <1>1 DEF RowsOK

(* What the loop of the window shows has its row, or is a single new one.  *)
LEMMA ShowKeepsRows ==
    ASSUME Queues, RowsOK, NEW us \in Seq(Messages), Show(us), Rows' = Rows,
           ToSet(us) \subseteq Rows \/ \E u : us = <<u>>,
           Shown' \subseteq Shown \cup Rows, Shown \cup Fetched \subseteq Shown',
           InFlight' \subseteq InFlight, \A u \in Shown : <<"deleted", u>> \in InFlight => <<"deleted", u>> \in InFlight'
    PROVE  RowsOK'
<1>1. /\ gui'.at \in {"idle", "message"}
      /\ OnTheirWay' = ToSet(us) \ known
      /\ known' = known \cup Fetched'
      /\ (\E u : us = <<u>>) => ~MoreToShow(gui')
  BY ShowEffect
<1>2. \/ gui'.at = "message" /\ ~MoreToShow(gui')
      \/ OnTheirWay' \subseteq Rows'
  BY <1>1 DEF OnTheirWay
<1>3. known' \cap Rows' \subseteq Shown' \cup Fetched'
  BY <1>1 DEF RowsOK
<1>4. \A u \in Shown' \ Rows' : <<"deleted", u>> \in InFlight'
  BY DEF RowsOK
<1>5. \A u \in Rows' : <<"deleted", u>> \notin InFlight'
  BY DEF RowsOK
<1> QED
  BY <1>2, <1>3, <1>4, <1>5 DEF RowsOK

-----------------------------------------------------------------------------
(* What the steps of the window do to signals and items. *)

LEMMA TakenSignal ==
    ASSUME Queues, uiq # <<>>, uiq' = Tail(uiq), mcq' = mcq
    PROVE  \E s \in Signals :
              /\ s = Head(uiq) /\ s[2] \in Messages /\ s = <<s[1], s[2]>>
              /\ ToSet(uiq) = ToSet(uiq') \cup {s}
              /\ InFlight = InFlight' \cup {s}
<1>1. uiq \in Seq(Signals)
  BY DEF Queues
<1>2. PICK s \in Signals : s = Head(uiq)
  BY <1>1, SeqTail
<1>3. s[2] \in Messages /\ s = <<s[1], s[2]>>
  BY DEF Signals
<1>4. ToSet(uiq) = ToSet(uiq') \cup {s}
  BY <1>1, <1>2, SetOfTail
<1> QED
  BY <1>2, <1>3, <1>4 DEF InFlight

LEMMA AddedItem ==
    ASSUME Queues, TabOK, AddChatWidgetItem
    PROVE  /\ Shown' = Shown \cup {Head(gui.todo)}
           /\ ToSet(items') \subseteq ToSet(items) \cup {Item(Head(gui.todo), gui.sent)}
<1> DEFINE item == Item(Head(gui.todo), gui.sent)
<1>1. gui.at = "add" /\ items' = InsertItem(item)
  BY DEF AddChatWidgetItem
<1>2. gui.todo \in Seq(Messages) /\ gui.todo # <<>> /\ gui.sent \in BOOLEAN /\ items \in Seq(Items)
  BY <1>1 DEF Queues, Guis, Busy
<1>3. Head(gui.todo) \in Messages
  BY <1>2, SeqTail
<1>4. item \in Items /\ item.uid = Head(gui.todo)
  BY <1>2, <1>3 DEF Item, Items
<1>5. item.uid \notin Shown /\ Ordered(items)
  BY <1>1, <1>4 DEF TabOK
<1> HIDE DEF item
<1>6. Uids(items') = Shown \cup {item.uid}
  BY <1>1, <1>2, <1>4, <1>5, InsertStaysOrdered
<1>7. \A j \in DOMAIN items' : items'[j] = item \/ \E l \in DOMAIN items : items'[j] = items[l]
  BY <1>1, <1>2, <1>4, <1>5, InsertStaysOrdered
<1>8. Shown' = Shown \cup {item.uid}
  BY <1>6 DEF Shown, Uids
<1>9. ToSet(items') \subseteq ToSet(items) \cup {item}
  BY <1>7 DEF ToSet
<1> QED
  BY <1>4, <1>8, <1>9 DEF item

LEMMA UpdatedItem ==
    ASSUME Queues, UpdateItem
    PROVE  /\ Shown' = Shown
           /\ \A x \in ToSet(items') : \E y \in ToSet(items) :
                 /\ x.uid = y.uid /\ x.deleted = y.deleted
                 /\ x.uid = Head(gui.todo) => x.sent = gui.sent
                 /\ x.uid # Head(gui.todo) => x = y
<1>1. items' = [i \in DOMAIN items |-> IF items[i].uid = Head(gui.todo)
                                       THEN [items[i] EXCEPT !.sent = gui.sent] ELSE items[i]]
  BY DEF UpdateItem
<1>2. DOMAIN items = 1 .. Len(items) /\ \A i \in DOMAIN items : items[i] \in Items
  BY LenProperties, ElementOfSeq DEF Queues
<1>3. \A y \in Items : \A b : /\ [y EXCEPT !.sent = b].uid = y.uid
                               /\ [y EXCEPT !.sent = b].deleted = y.deleted
                               /\ [y EXCEPT !.sent = b].sent = b
  BY DEF Items
<1>4. DOMAIN items' = DOMAIN items
  BY <1>1
<1>5. \A i \in DOMAIN items :
         /\ items'[i].uid = items[i].uid /\ items'[i].deleted = items[i].deleted
         /\ items'[i].uid = Head(gui.todo) => items'[i].sent = gui.sent
         /\ items'[i].uid # Head(gui.todo) => items'[i] = items[i]
  <2> TAKE i \in DOMAIN items
  <2>1. items[i] \in Items
    BY <1>2
  <2>2. CASE items[i].uid = Head(gui.todo)
    <3>1. items'[i] = [items[i] EXCEPT !.sent = gui.sent]
      BY <1>1, <2>2
    <3> QED
      BY <1>3, <2>1, <2>2, <3>1
  <2>3. CASE items[i].uid # Head(gui.todo)
    <3>1. items'[i] = items[i]
      BY <1>1, <2>3
    <3> QED
      BY <2>3, <3>1
  <2> QED
    BY <2>2, <2>3
<1>6. Shown' = Shown
  BY <1>4, <1>5 DEF Shown
<1>7. ASSUME NEW x \in ToSet(items')
      PROVE  \E y \in ToSet(items) :
                /\ x.uid = y.uid /\ x.deleted = y.deleted
                /\ x.uid = Head(gui.todo) => x.sent = gui.sent
                /\ x.uid # Head(gui.todo) => x = y
  <2>1. PICK i \in DOMAIN items : x = items'[i]
    BY <1>4 DEF ToSet
  <2>2. items[i] \in ToSet(items)
    BY DEF ToSet
  <2> QED
    BY <1>5, <2>1, <2>2
<1> QED
  BY <1>6, <1>7

LEMMA MarkedItem ==
    ASSUME Queues, NEW i \in DOMAIN items, DeleteItem(i)
    PROVE  /\ items[i].uid \in Messages
           /\ Shown' = Shown
           /\ \A x \in ToSet(items') : x \in ToSet(items) \/ (x.uid = items[i].uid /\ x.deleted)
<1>1. items' = [items EXCEPT ![i].deleted = TRUE]
  BY DEF DeleteItem
<1>2. DOMAIN items = 1 .. Len(items) /\ \A j \in DOMAIN items : items[j] \in Items
  BY LenProperties, ElementOfSeq DEF Queues
<1>3. \A y \in Items : /\ [y EXCEPT !.deleted = TRUE].uid = y.uid
                       /\ [y EXCEPT !.deleted = TRUE].deleted = TRUE
                       /\ y.uid \in Messages
  BY DEF Items
<1>4. DOMAIN items' = DOMAIN items
  BY <1>1
<1>5. \A j \in DOMAIN items :
         \/ items'[j] = items[j]
         \/ j = i /\ items'[j].uid = items[i].uid /\ items'[j].deleted = TRUE
  <2> TAKE j \in DOMAIN items
  <2>1. CASE j = i
    <3>1. items'[j] = [items[i] EXCEPT !.deleted = TRUE]
      BY <1>1, <2>1
    <3> QED
      BY <1>2, <1>3, <2>1, <3>1
  <2>2. CASE j # i
    BY <1>1, <2>2
  <2> QED
    BY <2>1, <2>2
<1>6. Shown' = Shown
  BY <1>4, <1>5 DEF Shown
<1>7. \A x \in ToSet(items') : x \in ToSet(items) \/ (x.uid = items[i].uid /\ x.deleted)
  BY <1>4, <1>5 DEF ToSet
<1> QED
  BY <1>2, <1>3, <1>6, <1>7

LEMMA DestroyedItem ==
    ASSUME Queues, OnMessageDeleted
    PROVE  \E u \in Messages :
              /\ u = Head(uiq)[2] /\ <<"deleted", u>> \in ToSet(uiq)
              /\ Shown' = Shown \ {u}
              /\ ToSet(items') \subseteq ToSet(items) /\ \A x \in ToSet(items') : x.uid # u
              /\ ToSet(uiq') = {s \in ToSet(uiq) : s[1] = "new" \/ s[2] # u}
<1>1. items \in Seq(Items) /\ uiq \in Seq(Signals) /\ uiq # <<>> /\ Head(uiq)[1] = "deleted"
  BY DEF Queues, OnMessageDeleted, Signalled
<1>2. Head(uiq) \in Signals /\ Head(uiq) \in ToSet(uiq)
  BY <1>1, SeqTail, SetOfTail
<1>3. PICK u \in Messages : u = Head(uiq)[2] /\ <<"deleted", u>> = Head(uiq)
  BY <1>1, <1>2 DEF Signals
<1> DEFINE I == {i \in DOMAIN items : items[i].uid # u}
           J == {i \in DOMAIN uiq : uiq[i][1] = "new" \/ uiq[i][2] # u}
<1>4. items' = Kept(items, I) /\ uiq' = Kept(uiq, J)
  BY <1>3 DEF OnMessageDeleted, OnItemMessageDeleted
<1>5. I \in SUBSET DOMAIN items /\ J \in SUBSET DOMAIN uiq
  OBVIOUS
<1>6. /\ {items[i].uid : i \in I} = Shown \ {u}
      /\ {items[i] : i \in I} \subseteq ToSet(items) /\ \A x \in {items[i] : i \in I} : x.uid # u
      /\ {uiq[j] : j \in J} = {s \in ToSet(uiq) : s[1] = "new" \/ s[2] # u}
  BY DEF Shown, ToSet
<1> HIDE DEF I, J
<1>7. /\ ToSet(items') = {items[i] : i \in I} /\ ToSet(uiq') = {uiq[j] : j \in J}
  BY <1>1, <1>4, <1>5, KeptElements
<1>8. Shown' = {items[i].uid : i \in I}
  <2>1. Shown' = {x.uid : x \in ToSet(items')}
    BY DEF Shown, ToSet
  <2> QED
    BY <1>7, <2>1
<1> QED
  BY <1>2, <1>3, <1>6, <1>7, <1>8

LEMMA ClosedTab ==
    ASSUME Queues, CloseTab
    PROVE  /\ items' = <<>> /\ known' = {} /\ gui.at = "idle" /\ gui' = gui /\ dbq' = dbq
           /\ ToSet(uiq') = {s \in ToSet(uiq) : s[1] = "new"}
<1> DEFINE J == {i \in DOMAIN uiq : uiq[i][1] = "new"}
<1>1. /\ items' = <<>> /\ known' = {} /\ gui.at = "idle" /\ gui' = gui /\ dbq' = dbq
      /\ uiq' = Kept(uiq, J)
  BY DEF CloseTab, Click, Idle, ToTheTab
<1>2. uiq \in Seq(Signals) /\ J \in SUBSET DOMAIN uiq
  BY DEF Queues
<1>3. {uiq[j] : j \in J} = {s \in ToSet(uiq) : s[1] = "new"}
  BY DEF ToSet
<1> HIDE DEF J
<1>4. ToSet(uiq') = {uiq[j] : j \in J}
  BY <1>1, <1>2, KeptElements
<1> QED
  BY <1>1, <1>3, <1>4

LEMMA ShownMessage ==
    ASSUME Queues, OnNewMessage
    PROVE  \E u \in Messages :
              /\ gui.at = "idle" /\ mcq' = mcq /\ items' = items
              /\ uiq # <<>> /\ uiq' = Tail(uiq) /\ Head(uiq) = <<"new", u>>
              /\ IF tab THEN Show(<<u>>) ELSE UNCHANGED <<known, dbq, gui>>
              /\ <<u>> \in Seq(Messages) /\ ToSet(<<u>>) = {u}
<1>1. uiq \in Seq(Signals) /\ uiq # <<>> /\ uiq' = Tail(uiq) /\ Head(uiq)[1] = "new"
      /\ gui.at = "idle" /\ mcq' = mcq /\ items' = items
  BY DEF Queues, OnNewMessage, Signalled, Idle
<1>2. PICK u \in Messages : u = Head(uiq)[2] /\ Head(uiq) = <<"new", u>>
  BY <1>1, SeqTail DEF Signals
<1>3. IF tab THEN Show(<<u>>) ELSE UNCHANGED <<known, dbq, gui>>
  BY <1>2, Zenon DEF OnNewMessage
<1>4. <<u>> \in Seq(Messages) /\ ToSet(<<u>>) = {u}
  BY DEF ToSet
<1> QED
  BY <1>1, <1>2, <1>3, <1>4

LEMMA WindowStepKeepsRows == Queues /\ TabOK /\ RowsOK /\ WindowStep => RowsOK'
<1> SUFFICES ASSUME Queues, TabOK, RowsOK, WindowStep PROVE RowsOK'
  OBVIOUS
<1>1. Rows' = Rows /\ mcq' = mcq
  BY WindowStepReaches
<1>2. gui \in Guis
  BY DEF Queues
<1>3. CASE LoadLastNMessages
  <2>1. gui.at = "idle" /\ gui'.at = "list" /\ UNCHANGED <<known, items, uiq>>
    BY <1>3 DEF LoadLastNMessages, Idle, Resting
  <2>2. Shown' = Shown /\ Fetched' = Fetched /\ OnTheirWay' = {} /\ InFlight' = InFlight
    BY <1>1, <2>1 DEF Shown, Fetched, OnTheirWay, InFlight
  <2> QED
    BY <1>1, <2>1, <2>2, QuietStepKeepsRows
<1>4. CASE ShowLastMessages
  <2>1. gui.at = "next" /\ Show(gui.todo) /\ UNCHANGED <<items, uiq>> /\ gui.todo \in Seq(Messages)
    BY <1>2, <1>4 DEF ShowLastMessages, Guis
  <2>2. Shown' = Shown /\ Fetched = {} /\ ToSet(gui.todo) \subseteq Rows /\ InFlight' = InFlight
    BY <1>1, <2>1 DEF Shown, Fetched, OnTheirWay, InFlight, RowsOK
  <2> QED
    BY <1>1, <2>1, <2>2, ShowKeepsRows
<1>5. CASE OnNewMessage
  <2>1. PICK u \in Messages :
              /\ gui.at = "idle" /\ mcq' = mcq /\ items' = items
              /\ uiq # <<>> /\ uiq' = Tail(uiq) /\ Head(uiq) = <<"new", u>>
              /\ IF tab THEN Show(<<u>>) ELSE UNCHANGED <<known, dbq, gui>>
              /\ <<u>> \in Seq(Messages) /\ ToSet(<<u>>) = {u}
    BY <1>5, ShownMessage
  <2>2. InFlight = InFlight' \cup {<<"new", u>>}
    BY <2>1, TakenSignal
  <2>3. \A v : <<"deleted", v>> \in InFlight => <<"deleted", v>> \in InFlight'
    BY <2>2
  <2>4. Shown' = Shown /\ Fetched = {} /\ InFlight' \subseteq InFlight
    BY <2>1, <2>2 DEF Shown, Fetched
  <2>5. CASE tab
    <3>1. Show(<<u>>)
      BY <2>1, <2>5
    <3> QED
      BY <1>1, <2>1, <2>3, <2>4, <3>1, ShowKeepsRows
  <2>6. CASE ~tab
    <3>1. known' = known /\ gui' = gui
      BY <2>1, <2>6
    <3>2. Fetched' = Fetched
      BY <3>1 DEF Fetched
    <3> QED
      BY <1>1, <2>3, <2>4, <3>1, <3>2, QuietStepKeepsRows
  <2> QED
    BY <2>5, <2>6
<1>6. CASE AddChatWidgetItem
  <2>1. gui.at = "add" /\ Show(Tail(gui.todo)) /\ uiq' = uiq /\ gui.at \in Busy
    BY <1>6 DEF AddChatWidgetItem, Busy
  <2>2. /\ Tail(gui.todo) \in Seq(Messages)
        /\ ToSet(gui.todo) = ToSet(Tail(gui.todo)) \cup {Head(gui.todo)}
    BY <2>1, FirstToShow
  <2>3. Shown' = Shown \cup {Head(gui.todo)}
    BY <1>6, AddedItem
  <2>4. ToSet(gui.todo) \subseteq Rows /\ Fetched = {Head(gui.todo)} /\ InFlight' = InFlight
    BY <1>1, <2>1 DEF RowsOK, OnTheirWay, Fetched, InFlight
  <2> QED
    BY <1>1, <2>1, <2>2, <2>3, <2>4, ShowKeepsRows
<1>7. CASE OnMessageChanged
  <2>1. /\ gui.at = "idle" /\ uiq # <<>> /\ uiq' = Tail(uiq) /\ Head(uiq)[1] = "changed"
        /\ UNCHANGED <<known, items>> /\ (gui' = gui \/ gui'.at = "reload")
    BY <1>7 DEF OnMessageChanged, Signalled, Idle, widgets
  <2>2. PICK s : s = Head(uiq) /\ InFlight = InFlight' \cup {s}
    BY <1>1, <2>1, TakenSignal
  <2>3. \A v : <<"deleted", v>> # s
    BY <2>1, <2>2
  <2>4. /\ Shown' = Shown /\ Fetched' = Fetched /\ InFlight' \subseteq InFlight
        /\ gui' = gui \/ OnTheirWay' = {}
    BY <2>1, <2>2 DEF Shown, Fetched, OnTheirWay
  <2> QED
    BY <1>1, <2>1, <2>2, <2>3, <2>4, QuietStepKeepsRows
<1>8. CASE UpdateItem
  <2>1. gui.at = "update" /\ gui'.at = "idle" /\ UNCHANGED <<known, uiq>>
    BY <1>8 DEF UpdateItem, Resting
  <2>2. Shown' = Shown /\ Fetched' = Fetched /\ OnTheirWay' = {} /\ InFlight' = InFlight
    BY <1>1, <1>8, <2>1, UpdatedItem DEF Fetched, OnTheirWay, InFlight
  <2> QED
    BY <1>1, <2>1, <2>2, QuietStepKeepsRows
<1>9. CASE OnMessageDeleted
  <2>1. PICK u \in Messages :
              /\ <<"deleted", u>> \in ToSet(uiq)
              /\ Shown' = Shown \ {u}
              /\ ToSet(uiq') = {s \in ToSet(uiq) : s[1] = "new" \/ s[2] # u}
    BY <1>9, DestroyedItem
  <2>2. known' = known /\ gui' = gui
    BY <1>9 DEF OnMessageDeleted
  <2>3. Fetched' = Fetched /\ OnTheirWay' = OnTheirWay
    BY <2>2 DEF Fetched, OnTheirWay
  <2>4. u \notin Rows
    BY <2>1 DEF RowsOK, InFlight
  <2>5. InFlight' \subseteq InFlight /\ \A v \in Shown' : <<"deleted", v>> \in InFlight => <<"deleted", v>> \in InFlight'
    BY <1>1, <2>1 DEF InFlight
  <2> QED
    BY <1>1, <2>1, <2>2, <2>3, <2>4, <2>5 DEF RowsOK
<1> QED
  BY <1>3, <1>4, <1>5, <1>6, <1>7, <1>8, <1>9 DEF WindowStep

LEMMA UserStepKeepsRows == Queues /\ TabOK /\ RowsOK /\ UserStep => RowsOK'
<1> SUFFICES ASSUME Queues, TabOK, RowsOK, UserStep PROVE RowsOK'
  OBVIOUS
<1>1. Rows' = Rows /\ mcq' = mcq /\ gui.at = "idle" /\ gui'.at \in {"idle", "list"} /\ FewerSignals
  BY UserStepReaches
<1>2. InFlight' \subseteq InFlight
  BY <1>1, FewerSignalsKeepOrder DEF InFlight
<1>3. CASE OpenTab \/ CloseTab
  <2>1. items' = <<>> /\ known' = {} /\ gui' = gui
    BY <1>3 DEF OpenTab, CloseTab
  <2> QED
    BY <1>1, <1>2, <2>1, EmptyTabKeepsRows DEF RowsOK
<1>4. CASE known' = known /\ uiq' = uiq /\ Shown' = Shown
  <2>1. Fetched' = Fetched /\ OnTheirWay' = {} /\ InFlight' = InFlight
    BY <1>1, <1>4 DEF Fetched, OnTheirWay, InFlight
  <2> QED
    BY <1>1, <1>4, <2>1, QuietStepKeepsRows
<1>5. CASE LoadMoreMessages
  BY <1>4, <1>5 DEF LoadMoreMessages, widgets, Shown
<1>6. CASE \E i \in DOMAIN items : DeleteItem(i)
  BY <1>4, <1>6, MarkedItem DEF DeleteItem
<1>7. CASE DeleteByCount \/ DeleteByAge \/ DeleteByDate
  BY <1>4, <1>7, RulesOfTheDialog DEF DeleteMany, widgets, Shown
<1> QED
  BY <1>3, <1>5, <1>6, <1>7 DEF UserStep

LEMMA InitRows == Init => RowsOK
<1> SUFFICES ASSUME Init PROVE RowsOK
  OBVIOUS
<1>1. gui.at = "idle" /\ items = <<>> /\ known = {} /\ InFlight = {}
  BY SetOfEmpty DEF Init, Resting, InFlight
<1>2. Shown = {}
  BY <1>1, NothingShown DEF Shown, Uids
<1> QED
  BY <1>1, <1>2 DEF RowsOK, OnTheirWay

LEMMA StepKeepsRows == Queues /\ OrderOK /\ DeletesOK /\ TabOK /\ RowsOK /\ [Next]_vars => RowsOK'
<1> SUFFICES ASSUME Queues, OrderOK, DeletesOK, TabOK, RowsOK, [Next]_vars PROVE RowsOK'
  OBVIOUS
<1>1. CASE ExecuteCall
  BY <1>1, ExecuteCallKeepsRows
<1>2. CASE UNCHANGED <<disk, known, items, gui, mcq, uiq>>
  BY <1>2 DEF RowsOK, Rows, Shown, InFlight, OnTheirWay, Fetched
<1>3. ASSUME NEW u \in Messages, StoreMessage(u) \/ StoreResult(u) PROVE RowsOK'
  BY <1>2, <1>3 DEF StoreMessage, StoreResult, tables, widgets
<1>4. CASE Relay
  BY <1>4, RelayKeepsRows
<1>5. CASE WindowStep
  BY <1>5, WindowStepKeepsRows
<1>6. CASE UserStep
  BY <1>6, UserStepKeepsRows
<1>7. CASE Crash \/ Quit
  BY <1>7, StopKeepsRows DEF Crash, Quit
<1>8. CASE Restart \/ UNCHANGED vars
  BY <1>2, <1>8 DEF Restart, vars, tables, widgets
<1> QED
  BY <1>1, <1>3, <1>4, <1>5, <1>6, <1>7, <1>8 DEF Next

-----------------------------------------------------------------------------
(* The newest messages of some rows: those that have less than n newer.    *)
Latest(rows, n) == ToSet(First(n, InOrder(rows, FALSE)))

Newer(rows, u) == {v \in rows : SortBy[u] < SortBy[v]}

LEMMA LatestHaveFewNewer ==
    ASSUME NEW rows \in SUBSET Messages, NEW n \in Nat
    PROVE  \A u \in Messages : u \in Latest(rows, n) <=> u \in rows /\ Cardinality(Newer(rows, u)) < n
<1> DEFINE N == Cardinality(rows)
<1>1. PICK key \in [rows -> Int] : key = Age(rows, FALSE) /\ \A x, y \in rows : key[x] = key[y] => x = y
  BY AgesDiffer
<1>2. IsFiniteSet(rows)
  BY RowsAreFinite
<1>3. PICK s \in [1 .. N -> rows] :
         /\ s = Sorted(key) /\ N \in Nat
         /\ \A k \in 1 .. N : Cardinality(Below(key, s[k])) = k - 1
         /\ \A x \in rows : \E k \in 1 .. N : s[k] = x
  <2>1. \A x, y \in rows : key[x] = key[y] => x = y
    BY <1>1
  <2>2. N \in Nat /\ Sorted(key) \in [1 .. N -> rows]
    BY <1>2, <2>1, SortedEnumerates
  <2>3. \A k \in 1 .. N : Cardinality(Below(key, Sorted(key)[k])) = k - 1
    BY <1>2, <2>1, SortedEnumerates
  <2>4. \A x \in rows : \E k \in 1 .. N : Sorted(key)[k] = x
    BY <1>2, <2>1, SortedEnumerates
  <2> QED
    BY <2>2, <2>3, <2>4
<1>4. InOrder(rows, FALSE) = s /\ s \in Seq(rows) /\ Len(s) = N
  <2>1. InOrder(rows, FALSE) = s
    BY <1>1, <1>3 DEF InOrder, Age
  <2> QED
    BY <2>1, InOrderIsSequence
<1>5. \A u \in rows : Below(key, u) = Newer(rows, u)
  <2> TAKE u \in rows
  <2>1. \A v \in rows : SortBy[v] \in Nat /\ key[v] = -SortBy[v]
    BY <1>1, HistoryAssumption DEF Age
  <2>2. \A v \in rows : key[v] < key[u] <=> SortBy[u] < SortBy[v]
    BY <2>1
  <2>3. DOMAIN key = rows
    OBVIOUS
  <2> QED
    BY <2>2, <2>3 DEF Below, Newer
<1> HIDE DEF N
<1> DEFINE f == First(n, s)
           m == IF n < N THEN n ELSE N
<1>6. f \in Seq(rows) /\ Len(f) = m /\ \A i \in 1 .. Len(f) : f[i] = s[i]
  BY <1>4, FirstIsSequence
<1>7. DOMAIN f = 1..m /\ m \in Nat /\ m <= n /\ m <= N
  <2>1. m \in Nat /\ m <= n /\ m <= N
    BY <1>3
  <2>2. DOMAIN f = 1 .. Len(f)
    BY <1>6, LenProperties
  <2> QED
    BY <1>6, <2>1, <2>2
<1>8. Latest(rows, n) = ToSet(f)
  BY <1>4 DEF Latest
<1>9. \A i \in 1 .. N : i \in 1..m <=> i - 1 < n
  BY <1>3
<1> HIDE DEF f, m
<1>10. ASSUME NEW u \in ToSet(f)
       PROVE  u \in rows /\ Cardinality(Newer(rows, u)) < n
  <2>1. PICK i \in 1..m : u = f[i]
    BY <1>7 DEF ToSet
  <2>2. i \in 1 .. N /\ u = s[i] /\ u \in rows
    BY <1>3, <1>6, <1>7, <2>1
  <2>3. Cardinality(Below(key, u)) = i - 1
    BY <1>3, <2>2
  <2> QED
    BY <1>5, <1>9, <2>2, <2>3
<1>11. ASSUME NEW u \in rows, Cardinality(Newer(rows, u)) < n
       PROVE  u \in ToSet(f)
  <2>1. PICK i \in 1 .. N : s[i] = u
    BY <1>3
  <2>2. Cardinality(Below(key, s[i])) = i - 1
    BY <1>3
  <2>3. i - 1 < n
    BY <1>5, <1>11, <2>1, <2>2
  <2>4. i \in 1..m /\ f[i] = u
    BY <1>6, <1>9, <2>1, <2>3
  <2> QED
    BY <1>7, <2>4 DEF ToSet
<1> QED
  BY <1>8, <1>10, <1>11

LEMMA NewerAreFewer ==
    ASSUME NEW small, NEW big \in SUBSET Messages, small \subseteq big
    PROVE  Cardinality(small) \in Nat /\ Cardinality(big) \in Nat /\ Cardinality(small) <= Cardinality(big)
<1>1. IsFiniteSet(big) /\ IsFiniteSet(small)
  BY RowsAreFinite, FS_Subset
<1> QED
  BY <1>1, FS_CardinalityType, FS_Subset

LEMMA LatestHaveNoGap ==
    ASSUME NEW rows \in SUBSET Messages, NEW n \in Nat,
           NEW u \in Latest(rows, n), NEW v \in rows, SortBy[u] < SortBy[v], u \in Messages
    PROVE  v \in Latest(rows, n)
<1>1. Cardinality(Newer(rows, u)) < n /\ u \in rows
  BY LatestHaveFewNewer
<1>2. Newer(rows, v) \subseteq Newer(rows, u)
  <2>1. \A w \in rows : SortBy[w] \in Nat
    BY HistoryAssumption
  <2>2. \A w \in rows : SortBy[v] < SortBy[w] => SortBy[u] < SortBy[w]
    BY <1>1, <2>1
  <2> QED
    BY <2>2 DEF Newer
<1>3. Newer(rows, u) \in SUBSET Messages
  BY DEF Newer
<1>4. PICK a \in Nat, b \in Nat : a = Cardinality(Newer(rows, v)) /\ b = Cardinality(Newer(rows, u)) /\ a <= b
  BY <1>2, <1>3, NewerAreFewer
<1>5. a < n
  BY <1>1, <1>4
<1> QED
  BY <1>4, <1>5, LatestHaveFewNewer

LEMMA LatestOfMore ==
    ASSUME NEW rows \in SUBSET Messages, NEW w \in Messages, NEW n \in Nat
    PROVE  Latest(rows \cup {w}, n) \subseteq Latest(rows, n) \cup {w}
<1> DEFINE more == rows \cup {w}
<1>1. SUFFICES ASSUME NEW u \in Latest(more, n), u # w
               PROVE  u \in Latest(rows, n)
  OBVIOUS
<1>2. u \in Messages
  <2>1. Latest(more, n) \subseteq Messages
    <3>1. more \in SUBSET Messages
      OBVIOUS
    <3> HIDE DEF more
    <3>2. PICK f \in Seq(more) : f = First(n, InOrder(more, FALSE))
      BY <3>1, InOrderIsSequence, FirstIsSequence
    <3>3. ToSet(f) \subseteq more
      BY ElementOfSeq, LenProperties DEF ToSet
    <3> QED
      BY <3>1, <3>2, <3>3 DEF Latest
  <2> QED
    BY <1>1, <2>1
<1>3. u \in rows /\ Cardinality(Newer(more, u)) < n
  BY <1>1, <1>2, LatestHaveFewNewer
<1>4. Newer(rows, u) \subseteq Newer(more, u) /\ Newer(more, u) \in SUBSET Messages
  BY DEF Newer
<1>5. PICK a \in Nat, b \in Nat : a = Cardinality(Newer(rows, u)) /\ b = Cardinality(Newer(more, u)) /\ a <= b
  BY <1>4, NewerAreFewer
<1>6. a < n
  BY <1>3, <1>5
<1> QED
  BY <1>2, <1>3, <1>5, <1>6, LatestHaveFewNewer

LEMMA LastAreLatest ==
    ASSUME NEW n \in Nat
    PROVE  /\ ToSet(LastMessages(n)) = Latest(Rows, n)
           /\ ToSet(LastMessages(n))' = Latest(Rows', n)
  BY DEF LastMessages, Latest

-----------------------------------------------------------------------------
(* The tab has no gap: of a message that is shown, being shown or          *)
(* announced all newer ones are, too; and so are the last, once they were  *)
(* asked for, as long as nothing is deleted.                               *)
News == Named(uiq, "new")

Covered == Shown \cup OnTheirWay \cup News

GapOK ==
    /\ \A u \in News, v \in Rows : SortBy[u] < SortBy[v] => v \in News
    /\ \A u \in Shown \cup OnTheirWay, v \in Rows : SortBy[u] < SortBy[v] => v \in Covered
    /\ tab /\ ~loadDue /\ asked = {} =>
          <<"last", PageSize>> \in ToSet(dbq) \/ Latest(Rows, PageSize) \subseteq Covered

LEMMA QuietStepKeepsGap ==
    ASSUME GapOK, Rows' = Rows, asked' = asked,
           \A u \in News', v \in News \cap Rows : SortBy[u] < SortBy[v] => v \in News',
           News' \subseteq News,
           Shown' \cup OnTheirWay' \subseteq Covered,
           Covered \cap Rows \subseteq Covered',
           tab' /\ ~loadDue' => \/ <<"last", PageSize>> \in ToSet(dbq')
                                \/ /\ tab /\ ~loadDue
                                   /\ <<"last", PageSize>> \in ToSet(dbq) => <<"last", PageSize>> \in ToSet(dbq')
    PROVE  GapOK'
<1>1. \A u \in News', v \in Rows' : SortBy[u] < SortBy[v] => v \in News'
  BY DEF GapOK
<1>2. ASSUME NEW u \in Shown' \cup OnTheirWay', NEW v \in Rows', SortBy[u] < SortBy[v]
      PROVE  v \in Covered'
  <2>1. v \in Covered
    BY <1>2 DEF GapOK, Covered
  <2> QED
    BY <1>2, <2>1
<1>3. Latest(Rows, PageSize) \subseteq Rows
  <2>1. ToSet(LastMessages(PageSize)) \subseteq Rows
    BY HistoryAssumption, LastMessagesIsSequence, ElementOfSeq, LenProperties DEF ToSet
  <2> QED
    BY <2>1, HistoryAssumption, LastAreLatest
<1>4. ASSUME tab', ~loadDue', asked' = {}
      PROVE  <<"last", PageSize>> \in ToSet(dbq') \/ Latest(Rows', PageSize) \subseteq Covered'
  BY <1>3, <1>4 DEF GapOK
<1> QED
  BY <1>1, <1>2, <1>4 DEF GapOK

LEMMA EmptyTabKeepsGap ==
    ASSUME items' = <<>>, OnTheirWay' = {}, ~tab' \/ loadDue',
           \A u \in News', v \in Rows' : SortBy[u] < SortBy[v] => v \in News'
    PROVE  GapOK'
<1>1. Shown' = {}
  BY NothingShown DEF Shown, Uids
<1> QED
  BY <1>1 DEF GapOK

LEMMA StopKeepsGap == Stop => GapOK'
<1> SUFFICES ASSUME Stop PROVE GapOK'
  OBVIOUS
<1>1. items' = <<>> /\ OnTheirWay' = {} /\ ~tab' /\ uiq' = <<>>
  BY DEF Stop, Resting, OnTheirWay
<1>2. News' = {}
  BY <1>1, SetOfEmpty DEF News, Named
<1> QED
  BY <1>1, <1>2, EmptyTabKeepsGap

LEMMA ExecuteCallKeepsGap == Queues /\ OrderOK /\ RowsOK /\ GapOK /\ ExecuteCall => GapOK'
<1> SUFFICES ASSUME Queues, OrderOK, RowsOK, GapOK, ExecuteCall PROVE GapOK'
  OBVIOUS
<1>1. PICK call \in Calls :
         /\ dbq \in Seq(Calls) /\ dbq # <<>> /\ call = Head(dbq)
         /\ 1 \in 1 .. Len(dbq) /\ call = dbq[1]
         /\ CallDone(call) \/ CallThrown(call) \/ (Stop /\ Rows' = Rows /\ told' = told)
  BY ExecuteCallCases
<1>2. call \in ToSet(dbq) /\ ToSet(dbq) = ToSet(Tail(dbq)) \cup {call}
  BY <1>1, SetOfTail
<1> DEFINE page == <<"last", PageSize>>
<1>3. page[1] = "last"
  OBVIOUS
<1> HIDE DEF page
<1>4. CASE CallThrown(call)
  <2>1. UNCHANGED <<items, gui, uiq, asked, tab, loadDue>> /\ Rows' = Rows /\ dbq' = Tail(dbq)
        /\ call # page
    BY <1>3, <1>4 DEF CallThrown, Throws, widgets
  <2>2. Shown' = Shown /\ OnTheirWay' = OnTheirWay /\ News' = News
    BY <2>1 DEF Shown, OnTheirWay, News
  <2>3. Covered' = Covered /\ (page \in ToSet(dbq) => page \in ToSet(dbq'))
    BY <1>2, <2>1, <2>2 DEF Covered
  <2> QED
    BY <2>1, <2>2, <2>3, QuietStepKeepsGap DEF Covered, page
<1>5. CASE Stop
  BY <1>5, StopKeepsGap
<1>6. CASE CallDone(call)
  <2> DEFINE vs == ToSet(Victims(call))
  <2>1. /\ Shown' = Shown /\ dbq' = Tail(dbq) /\ asked' = asked \cup vs
        /\ tab' = tab /\ loadDue' = loadDue
        /\ Rows' = IF call[1] = "store" THEN Rows \cup {call[2]} ELSE Rows \ vs
        /\ ToSet(uiq') = ToSet(uiq) \cup (IF call[1] = "store" THEN {<<"new", call[2]>>} ELSE {})
    BY <1>6, AnnouncedSignals DEF CallDone, widgets, Shown
  <2>2. ~Deletes(call) => vs = {}
    BY SetOfEmpty DEF Victims, Deletes
  <2> HIDE DEF vs
  <2>3. CASE call[1] = "store"
    <3>1. PICK w \in Messages : w = call[2]
      BY <2>3 DEF Calls
    <3>2. vs = {} /\ OnTheirWay' = OnTheirWay
      BY <1>1, <1>6, <2>2, <2>3, DoneEffect DEF Deletes
    <3>3. News' = News \cup {w} /\ Rows' = Rows \cup {w} /\ asked' = asked
      <4>1. PICK s \in Signals : s = <<"new", w>> /\ s[1] = "new" /\ s[2] = w
        <5>1. <<"new", w>> \in Signals /\ <<"new", w>>[1] = "new" /\ <<"new", w>>[2] = w
          BY DEF Signals
        <5> QED
          BY <5>1
      <4>2. News' = News \cup {w}
        <5>1. uiq \in Seq(Signals) /\ uiq' = Append(uiq, s)
          BY <1>6, <2>3, <3>1, <4>1 DEF Queues, CallDone, Announced
        <5>2. Named(Append(uiq, s), "new") = Named(uiq, "new") \cup (IF s[1] = "new" THEN {s[2]} ELSE {})
          BY <5>1, NamedOfAppend
        <5> QED
          BY <4>1, <5>1, <5>2 DEF News
      <4> QED
        BY <2>1, <2>3, <3>1, <3>2, <4>2
    <3>4. \A v \in Rows : SortBy[v] < SortBy[w] /\ ~(SortBy[w] < SortBy[v])
      <4> SUFFICES ASSUME NEW v \in Rows PROVE SortBy[v] < SortBy[w] /\ ~(SortBy[w] < SortBy[v])
        OBVIOUS
      <4>1. w \in Named(dbq, "store")
        BY <1>2, <2>3, <3>1 DEF Named
      <4>2. SortBy[v] < SortBy[w]
        BY <4>1 DEF OrderOK, InTime, Past
      <4>3. SortBy[v] \in Nat /\ SortBy[w] \in Nat
        BY RowsAreMessages, HistoryAssumption
      <4> QED
        BY <4>2, <4>3
    <3>5. \A u \in News', v \in Rows' : SortBy[u] < SortBy[v] => v \in News'
      BY <3>3, <3>4 DEF GapOK
    <3>6. Covered' = Covered \cup {w}
      BY <2>1, <3>2, <3>3 DEF Covered
    <3>7. \A u \in Shown' \cup OnTheirWay', v \in Rows' : SortBy[u] < SortBy[v] => v \in Covered'
      BY <2>1, <3>2, <3>3, <3>6 DEF GapOK
    <3>8. Latest(Rows', PageSize) \subseteq Latest(Rows, PageSize) \cup {w}
      BY <3>3, RowsAreMessages, HistoryAssumption, LatestOfMore
    <3>9. page \in ToSet(dbq) => page \in ToSet(dbq')
      BY <1>2, <1>3, <2>1, <2>3
    <3>10. tab' /\ ~loadDue' /\ asked' = {} => page \in ToSet(dbq') \/ Latest(Rows', PageSize) \subseteq Covered'
      BY <2>1, <3>3, <3>6, <3>8, <3>9 DEF GapOK, page
    <3> QED
      BY <3>5, <3>7, <3>10 DEF GapOK, page
  <2>4. CASE call[1] = "last"
    <3>1. PICK n \in Nat : n = call[2] /\ call = <<"last", n>>
      BY <2>4 DEF Calls
    <3>2. OnTheirWay = {} /\ OnTheirWay' = Latest(Rows, n)
      BY <1>1, <1>6, <2>4, <3>1, DoneEffect, LastAreLatest
    <3>3. Rows' = Rows /\ asked' = asked /\ News' = News
      BY <2>1, <2>2, <2>4 DEF Deletes, News, Named
    <3>4. Covered' = Covered \cup Latest(Rows, n)
      BY <2>1, <3>2, <3>3 DEF Covered
    <3>5. ASSUME NEW u \in Shown' \cup OnTheirWay', NEW v \in Rows', SortBy[u] < SortBy[v]
          PROVE  v \in Covered'
      <4>1. CASE u \in Shown
        BY <3>3, <3>4, <3>5, <4>1 DEF GapOK
      <4>2. CASE u \in Latest(Rows, n)
        <5>1. u \in Messages
          BY <4>2, LastAreLatest, LastMessagesIsSequence, ElementOfSeq, LenProperties DEF ToSet
        <5>2. v \in Latest(Rows, n)
          BY <3>3, <3>5, <4>2, <5>1, RowsAreMessages, LatestHaveNoGap
        <5> QED
          BY <3>4, <5>2
      <4> QED
        BY <2>1, <3>2, <3>5, <4>1, <4>2
    <3>6. tab' /\ ~loadDue' /\ asked' = {} => page \in ToSet(dbq') \/ Latest(Rows', PageSize) \subseteq Covered'
      <4>1. CASE page = call
        BY <3>1, <3>3, <3>4, <4>1 DEF page
      <4>2. CASE page # call
        BY <1>2, <2>1, <3>3, <3>4, <4>2 DEF GapOK, page
      <4> QED
        BY <4>1, <4>2
    <3> QED
      BY <3>3, <3>5, <3>6 DEF GapOK, page
  <2>5. CASE call[1] \notin {"store", "last"}
    <3>1. OnTheirWay' = OnTheirWay
      BY <1>1, <1>6, <2>5, DoneEffect
    <3>2. Rows' = Rows \ vs /\ News' = News
      BY <2>1, <2>5 DEF News, Named
    <3>3. Covered' = Covered
      BY <2>1, <3>1, <3>2 DEF Covered
    <3>4. asked' = {} => asked = {} /\ Rows' = Rows
      BY <2>1, <3>2
    <3>5. page \in ToSet(dbq) => page \in ToSet(dbq')
      BY <1>2, <1>3, <2>1, <2>5
    <3>6. tab' /\ ~loadDue' /\ asked' = {} => page \in ToSet(dbq') \/ Latest(Rows', PageSize) \subseteq Covered'
      BY <2>1, <3>3, <3>4, <3>5 DEF GapOK, page
    <3> QED
      BY <2>1, <3>1, <3>2, <3>3, <3>6 DEF GapOK, page
  <2> QED
    BY <2>3, <2>4, <2>5
<1> QED
  BY <1>1, <1>4, <1>5, <1>6

(* A step after which the tab shows and awaits what it did.                *)
LEMMA SameTabKeepsGap ==
    ASSUME GapOK, Rows' = Rows, asked' = asked, News' = News, Shown' = Shown,
           OnTheirWay' = OnTheirWay, ToSet(dbq) \subseteq ToSet(dbq'), tab' = tab, loadDue' = loadDue
    PROVE  GapOK'
<1>1. Covered' = Covered
  BY DEF Covered
<1>2. \A u \in News', v \in Rows' : SortBy[u] < SortBy[v] => v \in News'
  BY DEF GapOK
<1>3. \A u \in Shown' \cup OnTheirWay', v \in Rows' : SortBy[u] < SortBy[v] => v \in Covered'
  BY <1>1 DEF GapOK
<1>4. tab' /\ ~loadDue' /\ asked' = {} =>
         <<"last", PageSize>> \in ToSet(dbq') \/ Latest(Rows', PageSize) \subseteq Covered'
  BY <1>1 DEF GapOK
<1> QED
  BY <1>2, <1>3, <1>4 DEF GapOK

LEMMA NoStoreKeepsCalls ==
    ASSUME Queues, NoStore
    PROVE  ToSet(dbq) \subseteq ToSet(dbq')
<1>1. dbq \in Seq(Calls)
  BY DEF Queues
<1>2. CASE dbq' = dbq
  BY <1>2
<1>3. CASE \E c \in Calls : dbq' = Append(dbq, c)
  BY <1>1, <1>3, SetOfAppend
<1> QED
  BY <1>2, <1>3 DEF NoStore

(* What was to be shown, has its row and is known, is shown.               *)
LEMMA WindowStepKeepsGap == Queues /\ OrderOK /\ TabOK /\ RowsOK /\ GapOK /\ WindowStep => GapOK'
<1> SUFFICES ASSUME Queues, OrderOK, TabOK, RowsOK, GapOK, WindowStep PROVE GapOK'
  OBVIOUS
<1>1. Rows' = Rows /\ asked' = asked /\ mcq' = mcq /\ ToSet(dbq) \subseteq ToSet(dbq')
  BY WindowStepReaches, NoStoreKeepsCalls
<1>2. gui \in Guis /\ uiq \in Seq(Signals) /\ dbq \in Seq(Calls)
  BY DEF Queues
<1>3. CASE LoadLastNMessages
  <2>1. /\ gui.at = "idle" /\ gui'.at = "list" /\ UNCHANGED <<items, uiq>>
        /\ dbq' = Append(dbq, <<"last", PageSize>>)
    BY <1>3 DEF LoadLastNMessages, Idle, Resting
  <2>2. Shown' = Shown /\ News' = News /\ OnTheirWay = {} /\ OnTheirWay' = {}
    BY <2>1 DEF Shown, News, OnTheirWay
  <2>3. <<"last", PageSize>> \in ToSet(dbq')
    <3>1. <<"last", PageSize>> \in Calls
      BY HistoryAssumption DEF Calls
    <3> QED
      BY <1>2, <2>1, <3>1, SetOfAppend
  <2>4. Covered' = Covered
    BY <2>2 DEF Covered
  <2> QED
    BY <1>1, <2>2, <2>3, <2>4, QuietStepKeepsGap DEF Covered
<1>4. CASE ShowLastMessages
  <2>1. /\ gui.at = "next" /\ Show(gui.todo) /\ UNCHANGED <<items, uiq, tab, loadDue>>
        /\ gui.todo \in Seq(Messages)
    BY <1>2, <1>4 DEF ShowLastMessages, Guis
  <2>2. /\ Shown' = Shown /\ News' = News /\ Fetched = {} /\ OnTheirWay = ToSet(gui.todo)
        /\ OnTheirWay' = ToSet(gui.todo) \ known
    BY <2>1, ShowEffect DEF Shown, News, Fetched, OnTheirWay
  <2>3. known \cap Rows \subseteq Shown
    BY <2>2 DEF RowsOK
  <2>4. Covered \cap Rows \subseteq Covered' /\ Shown' \cup OnTheirWay' \subseteq Covered
    BY <2>2, <2>3 DEF Covered
  <2> QED
    BY <1>1, <2>1, <2>2, <2>4, QuietStepKeepsGap
<1>5. CASE OnNewMessage
  <2>1. PICK u \in Messages :
              /\ gui.at = "idle" /\ mcq' = mcq /\ items' = items
              /\ uiq # <<>> /\ uiq' = Tail(uiq) /\ Head(uiq) = <<"new", u>>
              /\ IF tab THEN Show(<<u>>) ELSE UNCHANGED <<known, dbq, gui>>
              /\ <<u>> \in Seq(Messages) /\ ToSet(<<u>>) = {u}
    BY <1>5, ShownMessage
  <2>2. tab' = tab /\ loadDue' = loadDue
    BY <1>5 DEF OnNewMessage
  <2>3. Shown' = Shown /\ OnTheirWay = {} /\ Fetched = {}
    BY <2>1 DEF Shown, OnTheirWay, Fetched
  <2>4. PICK t : t = Tail(uiq)
    OBVIOUS
  <2>5. Head(uiq)[1] = "new" /\ Head(uiq)[2] = u
    BY <2>1
  <2>6. Named(uiq, "new") = Named(t, "new") \cup {u}
    <3>1. Named(uiq, "new") = Named(t, "new") \cup (IF Head(uiq)[1] = "new" THEN {Head(uiq)[2]} ELSE {})
      BY <1>2, <2>1, <2>4, NamedOfTail
    <3> QED
      BY <2>5, <3>1
  <2>7. \A v \in Named(t, "new") : SortBy[u] < SortBy[v]
    BY <1>2, <2>1, <2>4, <2>5, RisingTail DEF OrderOK, InTime
  <2>8. News = News' \cup {u} /\ \A v \in News' : SortBy[u] < SortBy[v]
    BY <2>1, <2>4, <2>6, <2>7 DEF News
  <2>9. ASSUME NEW w \in News', NEW v \in News \cap Rows, SortBy[w] < SortBy[v]
        PROVE  v \in News'
    <3>1. w \in Messages /\ v \in Messages
      <4>1. \A s \in ToSet(uiq) : s[2] \in Messages
        BY <1>2, ElementOfSeq, LenProperties DEF ToSet, Signals
      <4>2. News \subseteq Messages
        BY <4>1 DEF News, Named
      <4> QED
        BY <2>8, <4>2
    <3>2. SortBy[u] \in Nat /\ SortBy[w] \in Nat /\ SortBy[v] \in Nat /\ SortBy[u] < SortBy[w]
      BY <2>8, <3>1, HistoryAssumption
    <3>3. v # u
      BY <2>9, <3>2
    <3> QED
      BY <2>8, <3>3
  <2>10. CASE tab
    <3>1. OnTheirWay' = {u} \ known
      BY <2>1, <2>10, ShowEffect
    <3>2. known \cap Rows \subseteq Shown
      BY <2>3 DEF RowsOK
    <3>3. Covered \cap Rows \subseteq Covered' /\ Shown' \cup OnTheirWay' \subseteq Covered
      BY <2>3, <2>8, <3>1, <3>2 DEF Covered
    <3> QED
      BY <1>1, <2>2, <2>8, <2>9, <3>3, QuietStepKeepsGap
  <2>11. CASE ~tab
    <3>1. items' = <<>> /\ gui' = gui
      BY <2>1, <2>11 DEF TabOK
    <3>2. OnTheirWay' = {}
      BY <2>1, <3>1 DEF OnTheirWay
    <3>3. \A w \in News', v \in Rows' : SortBy[w] < SortBy[v] => v \in News'
      BY <1>1, <2>8, <2>9 DEF GapOK
    <3> QED
      BY <2>2, <2>11, <3>1, <3>2, <3>3, EmptyTabKeepsGap
  <2> QED
    BY <2>10, <2>11
<1>6. CASE AddChatWidgetItem
  <2>1. gui.at = "add" /\ Show(Tail(gui.todo)) /\ UNCHANGED <<uiq, tab, loadDue>> /\ gui.at \in Busy
    BY <1>6 DEF AddChatWidgetItem, Busy
  <2>2. /\ Tail(gui.todo) \in Seq(Messages)
        /\ ToSet(gui.todo) = ToSet(Tail(gui.todo)) \cup {Head(gui.todo)}
    BY <2>1, FirstToShow
  <2>3. Shown' = Shown \cup {Head(gui.todo)} /\ News' = News
    BY <1>6, <2>1, AddedItem DEF News
  <2>4. OnTheirWay = ToSet(gui.todo) /\ Fetched = {Head(gui.todo)}
    BY <2>1 DEF OnTheirWay, Fetched
  <2>5. OnTheirWay' = ToSet(Tail(gui.todo)) \ known
    BY <2>1, <2>2, ShowEffect
  <2>6. known \cap Rows \subseteq Shown'
    BY <2>3, <2>4 DEF RowsOK
  <2>7. Covered \cap Rows \subseteq Covered' /\ Shown' \cup OnTheirWay' \subseteq Covered
    BY <2>2, <2>3, <2>4, <2>5, <2>6 DEF Covered
  <2> QED
    BY <1>1, <2>1, <2>3, <2>7, QuietStepKeepsGap
<1>7. CASE OnMessageChanged
  <2>1. /\ gui.at = "idle" /\ uiq # <<>> /\ uiq' = Tail(uiq) /\ Head(uiq)[1] = "changed"
        /\ UNCHANGED <<items, tab, loadDue>> /\ (gui' = gui \/ gui'.at = "reload")
    BY <1>7 DEF OnMessageChanged, Signalled, Idle, widgets
  <2>2. News' = News
    <3>1. Named(uiq, "new") = Named(Tail(uiq), "new") \cup (IF Head(uiq)[1] = "new" THEN {Head(uiq)[2]} ELSE {})
      BY <1>2, <2>1, NamedOfTail
    <3>2. Named(uiq, "new") = Named(Tail(uiq), "new")
      BY <2>1, <3>1
    <3> QED
      BY <2>1, <3>2 DEF News
  <2>3. Shown' = Shown /\ OnTheirWay' = OnTheirWay
    BY <2>1 DEF Shown, OnTheirWay
  <2> QED
    BY <1>1, <2>1, <2>2, <2>3, SameTabKeepsGap
<1>8. CASE UpdateItem
  <2>1. gui.at = "update" /\ gui'.at = "idle" /\ UNCHANGED <<uiq, tab, loadDue>>
    BY <1>8 DEF UpdateItem, Resting
  <2>2. Shown' = Shown /\ OnTheirWay' = OnTheirWay /\ News' = News
    BY <1>8, <2>1, UpdatedItem DEF OnTheirWay, News
  <2> QED
    BY <1>1, <2>1, <2>2, SameTabKeepsGap
<1>9. CASE OnMessageDeleted
  <2>1. PICK u \in Messages :
              /\ <<"deleted", u>> \in ToSet(uiq)
              /\ Shown' = Shown \ {u}
              /\ ToSet(uiq') = {s \in ToSet(uiq) : s[1] = "new" \/ s[2] # u}
    BY <1>9, DestroyedItem
  <2>2. gui' = gui /\ tab' = tab /\ loadDue' = loadDue
    BY <1>9 DEF OnMessageDeleted
  <2>3. OnTheirWay' = OnTheirWay
    BY <2>2 DEF OnTheirWay
  <2>4. {x \in ToSet(uiq') : x[1] = "new"} = {x \in ToSet(uiq) : x[1] = "new"}
    BY <2>1
  <2>5. News' = News
    BY <2>4 DEF News, Named
  <2>6. u \notin Rows
    BY <2>1 DEF RowsOK, InFlight
  <2>7. Covered \cap Rows \subseteq Covered' /\ Shown' \cup OnTheirWay' \subseteq Covered
    BY <2>1, <2>3, <2>5, <2>6 DEF Covered
  <2> QED
    BY <1>1, <2>2, <2>5, <2>7, QuietStepKeepsGap
<1> QED
  BY <1>3, <1>4, <1>5, <1>6, <1>7, <1>8, <1>9 DEF WindowStep

LEMMA UserStepKeepsGap == Queues /\ GapOK /\ UserStep => GapOK'
<1> SUFFICES ASSUME Queues, GapOK, UserStep PROVE GapOK'
  OBVIOUS
<1>1. /\ Rows' = Rows /\ asked' = asked /\ gui.at = "idle" /\ gui'.at \in {"idle", "list"}
      /\ ToSet(dbq) \subseteq ToSet(dbq')
  BY UserStepReaches, NoStoreKeepsCalls
<1>2. OnTheirWay = {} /\ OnTheirWay' = {}
  BY <1>1 DEF OnTheirWay
<1>3. CASE OpenTab \/ CloseTab
  <2>1. items' = <<>> /\ (~tab' \/ loadDue')
    BY <1>3 DEF OpenTab, CloseTab
  <2>2. News' = News
    <3>1. CASE OpenTab
      BY <3>1 DEF OpenTab, News
    <3>2. CASE CloseTab
      <4>1. {x \in ToSet(uiq') : x[1] = "new"} = {x \in ToSet(uiq) : x[1] = "new"}
        BY <3>2, ClosedTab
      <4> QED
        BY <4>1 DEF News, Named
    <3> QED
      BY <1>3, <3>1, <3>2
  <2>3. \A u \in News', v \in Rows' : SortBy[u] < SortBy[v] => v \in News'
    BY <1>1, <2>2 DEF GapOK
  <2> QED
    BY <1>2, <2>1, <2>3, EmptyTabKeepsGap
<1>4. CASE Shown' = Shown /\ UNCHANGED <<uiq, tab, loadDue>>
  <2>1. News' = News
    BY <1>4 DEF News
  <2> QED
    BY <1>1, <1>2, <1>4, <2>1, SameTabKeepsGap
<1>5. CASE LoadMoreMessages
  BY <1>4, <1>5 DEF LoadMoreMessages, widgets, Shown
<1>6. CASE \E i \in DOMAIN items : DeleteItem(i)
  BY <1>4, <1>6, MarkedItem DEF DeleteItem
<1>7. CASE DeleteByCount \/ DeleteByAge \/ DeleteByDate
  BY <1>4, <1>7, RulesOfTheDialog DEF DeleteMany, widgets, Shown
<1> QED
  BY <1>3, <1>5, <1>6, <1>7 DEF UserStep

LEMMA InitGap == Init => GapOK
<1> SUFFICES ASSUME Init PROVE GapOK
  OBVIOUS
<1>1. items = <<>> /\ OnTheirWay = {} /\ ~tab /\ uiq = <<>>
  BY DEF Init, Resting, OnTheirWay
<1>2. News = {} /\ Shown = {}
  BY <1>1, SetOfEmpty, NothingShown DEF News, Named, Shown, Uids
<1> QED
  BY <1>1, <1>2 DEF GapOK

LEMMA StepKeepsGap == Queues /\ OrderOK /\ TabOK /\ RowsOK /\ GapOK /\ [Next]_vars => GapOK'
<1> SUFFICES ASSUME Queues, OrderOK, TabOK, RowsOK, GapOK, [Next]_vars PROVE GapOK'
  OBVIOUS
<1>1. CASE ExecuteCall
  BY <1>1, ExecuteCallKeepsGap
<1>2. CASE /\ UNCHANGED <<disk, asked, items, gui, tab, loadDue>> /\ News' = News
           /\ ToSet(dbq) \subseteq ToSet(dbq')
  <2>1. Rows' = Rows /\ Shown' = Shown /\ OnTheirWay' = OnTheirWay
    BY <1>2 DEF Rows, Shown, OnTheirWay
  <2> QED
    BY <1>2, <2>1, SameTabKeepsGap
<1>3. ASSUME NEW u \in Messages, StoreMessage(u) \/ StoreResult(u) PROVE GapOK'
  <2>1. PICK kind \in {"store", "result"} : dbq' = Append(dbq, <<kind, u>>)
    BY <1>3 DEF StoreMessage, StoreResult
  <2>2. <<kind, u>> \in Calls
    BY DEF Calls
  <2>3. ToSet(dbq) \subseteq ToSet(dbq')
    BY <2>1, <2>2, SetOfAppend DEF Queues
  <2>4. UNCHANGED <<disk, asked, items, gui, tab, loadDue, uiq>>
    BY <1>3 DEF StoreMessage, StoreResult, tables, widgets, record
  <2>5. News' = News
    BY <2>4 DEF News
  <2> QED
    BY <1>2, <2>3, <2>4, <2>5
<1>4. CASE Relay
  <2>1. UNCHANGED <<disk, asked, items, gui, tab, loadDue, dbq>>
    BY <1>4 DEF Relay, tables, widgets, record
  <2>2. PICK s : /\ ToSet(uiq') = ToSet(uiq) \cup (IF s[2] \in Shown THEN {s} ELSE {})
                 /\ s[1] # "new"
    BY <1>4, RelaySignals
  <2>3. {x \in ToSet(uiq') : x[1] = "new"} = {x \in ToSet(uiq) : x[1] = "new"}
    BY <2>2
  <2>4. News' = News
    BY <2>3 DEF News, Named
  <2> QED
    BY <1>2, <2>1, <2>4
<1>5. CASE WindowStep
  BY <1>5, WindowStepKeepsGap
<1>6. CASE UserStep
  BY <1>6, UserStepKeepsGap
<1>7. CASE Crash \/ Quit
  BY <1>7, StopKeepsGap DEF Crash, Quit
<1>8. CASE Restart \/ UNCHANGED vars
  <2>1. UNCHANGED <<disk, asked, items, gui, tab, loadDue, dbq, uiq>>
    BY <1>8 DEF Restart, vars, tables, widgets, record
  <2>2. News' = News
    BY <2>1 DEF News
  <2> QED
    BY <1>2, <2>1, <2>2
<1> QED
  BY <1>1, <1>3, <1>4, <1>5, <1>6, <1>7, <1>8 DEF Next

-----------------------------------------------------------------------------
(* What the items say: an item says of its message what the table does,    *)
(* unless a change is on its way, or the message is being fetched again,   *)
(* or a change was missed; so does what has just been fetched; and what is *)
(* marked as deleted has a call that deletes it, or no row any more.       *)
Right(x) == x.sent <=> x.uid \in sent

Changing(u) == <<"changed", u>> \in InFlight

Reloading(u) == gui.at \in {"reload", "update"} /\ Head(gui.todo) = u

Marked(x) == x.uid \in Rows \ missed /\ ~x.deleted => Right(x) \/ Changing(x.uid) \/ Reloading(x.uid)

Going(x) == x.deleted => x.uid \notin Rows \/ <<"delete", x.uid>> \in ToSet(dbq)

FetchRight == gui.sent <=> Head(gui.todo) \in sent

AddOK == gui.at = "add" => \/ Head(gui.todo) \in missed
                           \/ FetchRight
                           \/ <<"changed", Head(gui.todo)>> \in ToSet(mcq)

UpdateOK == gui.at = "update" /\ Head(gui.todo) \in Shown \cap Rows =>
               FetchRight \/ Changing(Head(gui.todo))

MarksOK ==
    /\ \A x \in ToSet(items) : Marked(x) /\ Going(x)
    /\ AddOK /\ UpdateOK

LEMMA ItemsAreShown ==
    ASSUME NEW x \in ToSet(items)
    PROVE  x.uid \in Shown
  BY DEF ToSet, Shown

(* An item stays right as long as nothing is lost that would put it right. *)
LEMMA SameItemStaysRight ==
    ASSUME NEW x, Marked(x), Going(x), Rows' = Rows, sent' = sent,
           ToSet(dbq) \subseteq ToSet(dbq'),
           x.uid \in missed => x.uid \in missed',
           Changing(x.uid) => Changing(x.uid)' \/ Reloading(x.uid)' \/ x.deleted,
           Reloading(x.uid) => Reloading(x.uid)'
    PROVE  Marked(x)' /\ Going(x)'
<1>1. Right(x)' <=> Right(x)
  BY DEF Right
<1>2. Marked(x)'
  BY <1>1 DEF Marked
<1>3. Going(x)'
  BY DEF Going
<1> QED
  BY <1>2, <1>3

LEMMA NothingFetched ==
    ASSUME gui'.at \notin {"add", "update"}
    PROVE  AddOK' /\ UpdateOK'
  BY DEF AddOK, UpdateOK

LEMMA EmptyTabKeepsMarks ==
    ASSUME gui'.at = "idle", items' = <<>>
    PROVE  MarksOK'
<1>1. ToSet(items') = {}
  BY SetOfEmpty
<1> QED
  BY <1>1, NothingFetched DEF MarksOK

LEMMA ExecuteCallKeepsMarks ==
    Queues /\ OrderOK /\ DeletesOK /\ TabOK /\ MarksOK /\ ExecuteCall => MarksOK'
<1> SUFFICES ASSUME Queues, OrderOK, DeletesOK, TabOK, MarksOK, ExecuteCall PROVE MarksOK'
  OBVIOUS
<1>1. PICK call \in Calls :
         /\ dbq \in Seq(Calls) /\ dbq # <<>> /\ call = Head(dbq)
         /\ 1 \in 1 .. Len(dbq) /\ call = dbq[1]
         /\ CallDone(call) \/ CallThrown(call) \/ (Stop /\ Rows' = Rows /\ told' = told)
  BY ExecuteCallCases
<1>2. call \in ToSet(dbq) /\ ToSet(dbq) = ToSet(Tail(dbq)) \cup {call}
  BY <1>1, SetOfTail
<1>3. CASE CallThrown(call)
  <2>1. /\ Rows' = Rows /\ UNCHANGED <<sent, gui, items, missed, mcq, uiq>>
        /\ Throws(call) /\ dbq' = Tail(dbq)
    BY <1>3 DEF CallThrown, widgets
  <2>2. InFlight' = InFlight /\ Shown' = Shown
    BY <2>1 DEF InFlight, Shown
  <2>3. FetchRight' <=> FetchRight
    BY <2>1 DEF FetchRight
  <2>4. AddOK' /\ UpdateOK'
    BY <2>1, <2>2, <2>3 DEF MarksOK, AddOK, UpdateOK, Changing
  <2>5. ASSUME NEW x \in ToSet(items) PROVE Marked(x)' /\ Going(x)'
    <3>1. Marked(x) /\ Going(x)
      BY DEF MarksOK
    <3>2. Right(x)' <=> Right(x)
      BY <2>1 DEF Right
    <3>3. Marked(x)'
      BY <2>1, <2>2, <3>1, <3>2 DEF Marked, Changing, Reloading
    <3>4. call = <<"delete", x.uid>> => x.uid \notin Rows
      BY <2>1 DEF Throws
    <3>5. Going(x)'
      BY <1>2, <2>1, <3>1, <3>4 DEF Going
    <3> QED
      BY <3>3, <3>5
  <2> QED
    BY <2>1, <2>4, <2>5 DEF MarksOK
<1>4. CASE Stop
  BY <1>4, EmptyTabKeepsMarks DEF Stop, Resting
<1>5. CASE CallDone(call)
  <2> DEFINE vs == ToSet(Victims(call))
  <2>1. /\ UNCHANGED <<items, missed>> /\ dbq' = Tail(dbq) /\ Shown' = Shown
        /\ Rows' = IF call[1] = "store" THEN Rows \cup {call[2]} ELSE Rows \ vs
        /\ sent' = IF call[1] = "result" THEN sent \cup {call[2]} ELSE sent \ vs
    BY <1>5 DEF CallDone, widgets, Shown
  <2>2. /\ ToSet(mcq) \subseteq ToSet(mcq') /\ ToSet(uiq) \subseteq ToSet(uiq')
        /\ call[1] = "result" => <<"changed", call[2]>> \in ToSet(mcq')
    BY <1>5, AnnouncedSignals DEF CallDone
  <2>3. ~Deletes(call) => vs = {}
    BY SetOfEmpty DEF Victims, Deletes
  <2>4. call[1] = "delete" => call[2] \notin Rows'
    <3>1. SUFFICES ASSUME call[1] = "delete" PROVE call[2] \notin Rows'
      OBVIOUS
    <3>2. call[2] \in Rows => vs = {call[2]}
      <4>1. ToSet(<<call[2]>>) = {call[2]}
        BY DEF ToSet
      <4> QED
        BY <3>1, <4>1 DEF Victims
    <3> QED
      BY <2>1, <3>1, <3>2
  <2> HIDE DEF vs
  <2>5. call[1] = "store" => call[2] \notin Shown
    BY <1>2, StoresAreNew DEF Past, TabOK
  <2>6. InFlight \subseteq InFlight'
    BY <2>2 DEF InFlight
  <2>7. ASSUME NEW u \in Shown, u \in Rows'
        PROVE  u \in Rows /\ (Changing(u)' \/ (u \in sent' <=> u \in sent))
    <3>1. u \in Rows
      BY <2>1, <2>5, <2>7
    <3>2. CASE call[1] = "result"
      BY <2>1, <2>2, <3>1, <3>2 DEF Changing, InFlight
    <3>3. CASE call[1] # "result"
      <4>1. u \notin vs
        BY <2>1, <2>3, <2>7, <3>1 DEF Deletes
      <4> QED
        BY <2>1, <3>1, <3>3, <4>1
    <3> QED
      BY <3>2, <3>3
  <2>8. ASSUME NEW u, Reloading(u) PROVE Reloading(u)'
    <3>1. CASE call[1] = "last"
      BY <1>1, <1>5, <2>8, <3>1, DoneEffect DEF Reloading
    <3>2. CASE call[1] = "message"
      BY <1>1, <1>5, <2>8, <3>2, DoneEffect DEF Reloading
    <3>3. CASE call[1] \notin {"last", "message"}
      BY <1>1, <1>5, <2>8, <3>3, DoneEffect DEF Reloading
    <3> QED
      BY <3>1, <3>2, <3>3
  <2>9. ASSUME NEW x \in ToSet(items) PROVE Marked(x)' /\ Going(x)'
    <3>1. Marked(x) /\ Going(x) /\ x.uid \in Shown
      BY ItemsAreShown DEF MarksOK
    <3>2. Changing(x.uid) => Changing(x.uid)'
      BY <2>6 DEF Changing
    <3>3. x.uid \in Rows' => Changing(x.uid)' \/ (Right(x) => Right(x)')
      BY <2>7, <3>1 DEF Right
    <3>4. x.uid \in Rows' => x.uid \in Rows
      BY <2>7, <3>1
    <3>5. Reloading(x.uid) => Reloading(x.uid)'
      BY <2>8
    <3>6. Marked(x)'
      BY <2>1, <3>1, <3>2, <3>3, <3>4, <3>5 DEF Marked
    <3>7. call = <<"delete", x.uid>> => x.uid \notin Rows'
      BY <2>4
    <3>8. Going(x)'
      BY <1>2, <2>1, <3>1, <3>4, <3>7 DEF Going
    <3> QED
      BY <3>6, <3>8
  <2>10. AddOK' /\ UpdateOK'
    <3>1. CASE call[1] = "last"
      BY <1>1, <1>5, <3>1, DoneEffect, NothingFetched
    <3>2. CASE call[1] = "message"
      <4>1. /\ call[2] = Head(gui.todo) /\ gui'.todo = gui.todo /\ gui'.sent = (call[2] \in sent)
        BY <1>1, <1>5, <3>2, DoneEffect
      <4>2. sent' = sent
        BY <2>1, <2>3, <3>2 DEF Deletes
      <4>3. FetchRight'
        BY <4>1, <4>2, Zenon DEF FetchRight
      <4> QED
        BY <4>3 DEF AddOK, UpdateOK
    <3>3. CASE call[1] \notin {"last", "message"}
      <4>1. gui' = gui
        BY <1>1, <1>5, <3>3, DoneEffect
      <4>2. CASE Deletes(call)
        <5>1. ~Holding(gui)
          BY <1>2, <4>2 DEF DeletesOK, Orderly, NoDeletes
        <5>2. gui'.at \notin {"add", "update"}
          BY <4>1, <5>1 DEF Holding
        <5> QED
          BY <5>2, NothingFetched
      <4>3. CASE call[1] = "result"
        <5>1. sent' = sent \cup {call[2]} /\ Rows' = Rows
          BY <2>1, <2>3, <4>3 DEF Deletes
        <5>2. CASE Head(gui.todo) = call[2]
          BY <2>2, <4>1, <4>3, <5>2 DEF AddOK, UpdateOK, Changing, InFlight
        <5>3. CASE Head(gui.todo) # call[2]
          <6>1. FetchRight' <=> FetchRight
            BY <4>1, <5>1, <5>3 DEF FetchRight
          <6>2. AddOK'
            BY <2>1, <2>2, <4>1, <6>1 DEF MarksOK, AddOK
          <6>3. UpdateOK'
            BY <2>1, <2>6, <4>1, <5>1, <6>1 DEF MarksOK, UpdateOK, Changing
          <6> QED
            BY <6>2, <6>3
        <5> QED
          BY <5>2, <5>3
      <4>4. CASE call[1] = "store"
        <5>1. sent' = sent /\ Rows' = Rows \cup {call[2]}
          BY <2>1, <2>3, <4>4 DEF Deletes
        <5>2. FetchRight' <=> FetchRight
          BY <4>1, <5>1 DEF FetchRight
        <5>3. AddOK'
          BY <2>1, <2>2, <4>1, <5>2 DEF MarksOK, AddOK
        <5>4. UpdateOK'
          BY <2>1, <2>5, <2>6, <4>1, <4>4, <5>1, <5>2 DEF MarksOK, UpdateOK, Changing
        <5> QED
          BY <5>3, <5>4
      <4> QED
        BY <3>3, <4>2, <4>3, <4>4 DEF Calls, Deletes
    <3> QED
      BY <3>1, <3>2, <3>3
  <2> QED
    BY <2>1, <2>9, <2>10 DEF MarksOK
<1> QED
  BY <1>1, <1>3, <1>4, <1>5

(* A step of the window or its user, which has nothing fetched then.       *)
LEMMA ItemsStayRight ==
    ASSUME MarksOK, Rows' = Rows, sent' = sent, ToSet(dbq) \subseteq ToSet(dbq'),
           gui'.at \notin {"add", "update"},
           \A x \in ToSet(items') :
              \/ /\ x \in ToSet(items)
                 /\ x.uid \in missed => x.uid \in missed'
                 /\ Changing(x.uid) => Changing(x.uid)' \/ Reloading(x.uid)' \/ x.deleted
                 /\ Reloading(x.uid) => Reloading(x.uid)'
              \/ Marked(x)' /\ Going(x)'
    PROVE  MarksOK'
<1>1. ASSUME NEW x \in ToSet(items') PROVE Marked(x)' /\ Going(x)'
  <2>1. CASE Marked(x)' /\ Going(x)'
    BY <2>1
  <2>2. CASE /\ x \in ToSet(items)
             /\ x.uid \in missed => x.uid \in missed'
             /\ Changing(x.uid) => Changing(x.uid)' \/ Reloading(x.uid)' \/ x.deleted
             /\ Reloading(x.uid) => Reloading(x.uid)'
    <3>1. Marked(x) /\ Going(x)
      BY <2>2 DEF MarksOK
    <3> QED
      BY <2>2, <3>1, SameItemStaysRight
  <2> QED
    BY <2>1, <2>2
<1> QED
  BY <1>1, NothingFetched DEF MarksOK

LEMMA SameItemsStayRight ==
    ASSUME MarksOK, Rows' = Rows, sent' = sent, ToSet(dbq) \subseteq ToSet(dbq'),
           gui.at \notin {"reload", "update"}, gui'.at \notin {"add", "update"},
           items' = items, missed' = missed, \A u : Changing(u) => Changing(u)'
    PROVE  MarksOK'
<1>1. \A u : ~Reloading(u)
  BY DEF Reloading
<1> QED
  BY <1>1, ItemsStayRight

LEMMA WindowStepKeepsMarks == Queues /\ TabOK /\ MarksOK /\ WindowStep => MarksOK'
<1> SUFFICES ASSUME Queues, TabOK, MarksOK, WindowStep PROVE MarksOK'
  OBVIOUS
<1>1. Rows' = Rows /\ sent' = sent /\ mcq' = mcq /\ ToSet(dbq) \subseteq ToSet(dbq')
  BY WindowStepReaches, NoStoreKeepsCalls
<1>2. gui \in Guis /\ uiq \in Seq(Signals) /\ items \in Seq(Items)
  BY DEF Queues
<1>3. uiq' = uiq => InFlight' = InFlight /\ \A u : Changing(u) => Changing(u)'
  BY <1>1 DEF InFlight, Changing
<1>4. CASE LoadLastNMessages
  <2>1. gui.at = "idle" /\ gui'.at = "list" /\ UNCHANGED <<items, missed, uiq>>
    BY <1>4 DEF LoadLastNMessages, Idle, Resting
  <2> QED
    BY <1>1, <1>3, <2>1, SameItemsStayRight
<1>5. CASE ShowLastMessages
  <2>1. gui.at = "next" /\ gui'.at \in {"idle", "message"} /\ UNCHANGED <<items, missed, uiq>>
    BY <1>2, <1>5, ShowEffect DEF ShowLastMessages, Guis
  <2> QED
    BY <1>1, <1>3, <2>1, SameItemsStayRight
<1>6. CASE OnNewMessage
  <2>1. PICK u \in Messages :
              /\ gui.at = "idle" /\ mcq' = mcq /\ items' = items
              /\ uiq # <<>> /\ uiq' = Tail(uiq) /\ Head(uiq) = <<"new", u>>
              /\ IF tab THEN Show(<<u>>) ELSE UNCHANGED <<known, dbq, gui>>
              /\ <<u>> \in Seq(Messages) /\ ToSet(<<u>>) = {u}
    BY <1>6, ShownMessage
  <2>2. InFlight = InFlight' \cup {<<"new", u>>} /\ missed' = missed
    BY <1>6, <2>1, TakenSignal DEF OnNewMessage
  <2>3. \A v : Changing(v) => Changing(v)'
    BY <2>2 DEF Changing
  <2>4. gui'.at \in {"idle", "message"}
    <3>1. CASE tab
      BY <2>1, <3>1, ShowEffect
    <3>2. CASE ~tab
      BY <2>1, <3>2
    <3> QED
      BY <3>1, <3>2
  <2> QED
    BY <1>1, <2>1, <2>2, <2>3, <2>4, SameItemsStayRight
<1>7. CASE AddChatWidgetItem
  <2>1. gui.at = "add" /\ Show(Tail(gui.todo)) /\ UNCHANGED <<uiq, missed>> /\ gui.at \in Busy
    BY <1>7 DEF AddChatWidgetItem, Busy
  <2>2. Tail(gui.todo) \in Seq(Messages)
    BY <2>1, FirstToShow
  <2>3. gui'.at \in {"idle", "message"}
    BY <2>1, <2>2, ShowEffect
  <2>4. \A u : ~Reloading(u)
    BY <2>1 DEF Reloading
  <2>5. PICK new : new = Item(Head(gui.todo), gui.sent)
    OBVIOUS
  <2>6. ToSet(items') \subseteq ToSet(items) \cup {new}
    BY <1>7, <2>5, AddedItem
  <2>7. new.uid = Head(gui.todo) /\ ~new.deleted
    BY <2>5 DEF Item
  <2>8. Right(new) <=> FetchRight
    <3>1. new.sent = gui.sent
      BY <2>5, Zenon DEF Item
    <3> QED
      BY <2>7, <3>1, Zenon DEF Right, FetchRight
  <2>9. Right(new)' <=> Right(new)
    BY <1>1 DEF Right
  <2>10. new.uid \in missed \/ FetchRight \/ Changing(new.uid)'
    BY <1>1, <2>1, <2>7 DEF MarksOK, AddOK, Changing, InFlight
  <2>11. Marked(new)' /\ Going(new)'
    BY <2>1, <2>7, <2>8, <2>9, <2>10 DEF Marked, Going
  <2> QED
    BY <1>1, <1>3, <2>1, <2>3, <2>4, <2>6, <2>11, ItemsStayRight
<1>8. CASE OnMessageChanged
  <2>1. /\ gui.at = "idle" /\ uiq # <<>> /\ uiq' = Tail(uiq) /\ Head(uiq)[1] = "changed"
        /\ UNCHANGED <<items, missed>>
    BY <1>8 DEF OnMessageChanged, Signalled, Idle, widgets
  <2>2. PICK s \in Signals : s = Head(uiq) /\ InFlight = InFlight' \cup {s}
    BY <1>1, <2>1, TakenSignal
  <2>3. PICK u : u = s[2] /\ s = <<"changed", u>>
    BY <2>1, <2>2 DEF Signals
  <2>4. \/ gui'.at = "reload" /\ gui'.todo = <<u>>
        \/ gui' = gui /\ ~\E i \in DOMAIN items : items[i].uid = u /\ ~items[i].deleted
    <3>1. IF \E i \in DOMAIN items : items[i].uid = u /\ ~items[i].deleted
          THEN gui' = [at |-> "reload", todo |-> <<u>>, sent |-> FALSE]
          ELSE gui' = gui
      BY <1>8, <2>2, <2>3, Zenon DEF OnMessageChanged
    <3> QED
      BY <3>1
  <2>5. gui'.at \notin {"add", "update"}
    BY <2>1, <2>4
  <2>6. \A v : ~Reloading(v)
    BY <2>1 DEF Reloading
  <2>7. ASSUME NEW x \in ToSet(items), Changing(x.uid)
        PROVE  Changing(x.uid)' \/ Reloading(x.uid)' \/ x.deleted
    <3>1. CASE x.uid # u
      BY <2>2, <2>3, <2>7, <3>1 DEF Changing
    <3>2. CASE x.uid = u
      <4>1. CASE gui'.at = "reload" /\ gui'.todo = <<u>>
        BY <3>2, <4>1 DEF Reloading
      <4>2. CASE ~\E i \in DOMAIN items : items[i].uid = u /\ ~items[i].deleted
        <5>1. PICK i \in DOMAIN items : x = items[i]
          BY DEF ToSet
        <5> QED
          BY <3>2, <4>2, <5>1
      <4> QED
        BY <2>4, <4>1, <4>2
    <3> QED
      BY <3>1, <3>2
  <2> QED
    BY <1>1, <2>1, <2>5, <2>6, <2>7, ItemsStayRight
<1>9. CASE UpdateItem
  <2>1. gui.at = "update" /\ gui'.at = "idle" /\ UNCHANGED <<uiq, missed>>
    BY <1>9 DEF UpdateItem, Resting
  <2>2. ASSUME NEW x \in ToSet(items')
        PROVE  \/ /\ x \in ToSet(items)
                  /\ x.uid \in missed => x.uid \in missed'
                  /\ Changing(x.uid) => Changing(x.uid)' \/ Reloading(x.uid)' \/ x.deleted
                  /\ Reloading(x.uid) => Reloading(x.uid)'
               \/ Marked(x)' /\ Going(x)'
    <3>1. PICK y \in ToSet(items) :
                 /\ x.uid = y.uid /\ x.deleted = y.deleted
                 /\ x.uid = Head(gui.todo) => x.sent = gui.sent
                 /\ x.uid # Head(gui.todo) => x = y
      BY <1>9, UpdatedItem
    <3>2. CASE x.uid # Head(gui.todo)
      BY <1>3, <2>1, <3>1, <3>2 DEF Reloading
    <3>3. CASE x.uid = Head(gui.todo)
      <4>1. x.uid \in Shown /\ Marked(y) /\ Going(y)
        BY <3>1, ItemsAreShown DEF MarksOK
      <4>2. Right(x)' <=> FetchRight
        <5>1. Right(x)' <=> Right(x)
          BY <1>1 DEF Right
        <5>2. Right(x) <=> FetchRight
          BY <3>1, <3>3, Zenon DEF Right, FetchRight
        <5> QED
          BY <5>1, <5>2
      <4>3. Marked(x)'
        BY <1>1, <1>3, <2>1, <3>3, <4>1, <4>2 DEF MarksOK, UpdateOK, Marked
      <4>4. x.deleted <=> y.deleted
        BY <3>1, Zenon
      <4>5. Going(x)'
        BY <1>1, <3>1, <4>1, <4>4 DEF Going
      <4> QED
        BY <4>3, <4>5
    <3> QED
      BY <3>2, <3>3
  <2> QED
    BY <1>1, <2>1, <2>2, ItemsStayRight
<1>10. CASE OnMessageDeleted
  <2>1. PICK u \in Messages :
              /\ u = Head(uiq)[2]
              /\ ToSet(items') \subseteq ToSet(items) /\ \A x \in ToSet(items') : x.uid # u
              /\ ToSet(uiq') = {s \in ToSet(uiq) : s[1] = "new" \/ s[2] # u}
    BY <1>10, DestroyedItem
  <2>2. gui.at = "idle" /\ gui' = gui /\ missed' = missed \ {u}
    BY <1>10, <2>1 DEF OnMessageDeleted, Signalled, Idle
  <2>3. \A v : v # u /\ Changing(v) => Changing(v)'
    BY <1>1, <2>1 DEF Changing, InFlight
  <2>4. \A v : ~Reloading(v)
    BY <2>2 DEF Reloading
  <2> QED
    BY <1>1, <2>1, <2>2, <2>3, <2>4, ItemsStayRight
<1> QED
  BY <1>4, <1>5, <1>6, <1>7, <1>8, <1>9, <1>10 DEF WindowStep

LEMMA UserStepKeepsMarks == Queues /\ MarksOK /\ UserStep => MarksOK'
<1> SUFFICES ASSUME Queues, MarksOK, UserStep PROVE MarksOK'
  OBVIOUS
<1>1. /\ Rows' = Rows /\ sent' = sent /\ mcq' = mcq /\ ToSet(dbq) \subseteq ToSet(dbq')
      /\ gui.at = "idle" /\ gui'.at \in {"idle", "list"}
  BY UserStepReaches, NoStoreKeepsCalls
<1>2. uiq' = uiq => \A u : Changing(u) => Changing(u)'
  BY <1>1 DEF InFlight, Changing
<1>3. CASE OpenTab \/ CloseTab
  <2>1. items' = <<>> /\ gui' = gui
    BY <1>3 DEF OpenTab, CloseTab
  <2> QED
    BY <1>1, <2>1, EmptyTabKeepsMarks
<1>4. CASE UNCHANGED <<items, missed, uiq>>
  BY <1>1, <1>2, <1>4, SameItemsStayRight
<1>5. CASE LoadMoreMessages
  BY <1>4, <1>5 DEF LoadMoreMessages, widgets
<1>6. CASE \E i \in DOMAIN items : DeleteItem(i)
  <2>1. PICK i \in DOMAIN items : DeleteItem(i)
    BY <1>6
  <2>2. PICK u \in Messages : u = items[i].uid
    BY <2>1, MarkedItem
  <2>3. \A x \in ToSet(items') : x \in ToSet(items) \/ (x.uid = u /\ x.deleted)
    BY <2>1, <2>2, MarkedItem
  <2>4. uiq' = uiq /\ missed' = missed /\ dbq' = Append(dbq, <<"delete", u>>)
    BY <2>1, <2>2 DEF DeleteItem
  <2>5. <<"delete", u>> \in ToSet(dbq')
    <3>1. <<"delete", u>> \in Calls /\ dbq \in Seq(Calls)
      BY DEF Calls, Queues
    <3> QED
      BY <2>4, <3>1, SetOfAppend
  <2>6. \A x : x.uid = u /\ x.deleted => Marked(x)' /\ Going(x)'
    BY <2>5 DEF Marked, Going
  <2>7. \A v : ~Reloading(v)
    BY <1>1 DEF Reloading
  <2> QED
    BY <1>1, <1>2, <2>3, <2>4, <2>6, <2>7, ItemsStayRight
<1>7. CASE DeleteByCount \/ DeleteByAge \/ DeleteByDate
  BY <1>4, <1>7, RulesOfTheDialog DEF DeleteMany, widgets
<1> QED
  BY <1>3, <1>5, <1>6, <1>7 DEF UserStep

(* A change that comes while an item is made is missed; any other reaches  *)
(* the item.                                                               *)
LEMMA RelayKeepsMarks == Queues /\ MarksOK /\ Relay => MarksOK'
<1> SUFFICES ASSUME Queues, MarksOK, Relay PROVE MarksOK'
  OBVIOUS
<1>1. PICK s \in MSignals :
              /\ s = Head(mcq)
              /\ ToSet(mcq) = ToSet(mcq') \cup {s}
              /\ ToSet(uiq') = ToSet(uiq) \cup (IF s[2] \in Shown THEN {s} ELSE {})
  BY RelaySignals
<1>2. UNCHANGED <<disk, sent, dbq, items, gui>>
  BY DEF Relay, tables, widgets
<1>3. missed' = IF gui.at = "add" /\ Head(gui.todo) = s[2] THEN missed \cup {s[2]} ELSE missed
  BY <1>1 DEF Relay
<1>4. Rows' = Rows /\ Shown' = Shown
  BY <1>2 DEF Rows, Shown
<1>5. ASSUME NEW u \in Shown, Changing(u) PROVE Changing(u)'
  <2>1. CASE s = <<"changed", u>>
    BY <1>1, <2>1 DEF Changing, InFlight
  <2>2. CASE s # <<"changed", u>>
    BY <1>1, <1>5, <2>2 DEF Changing, InFlight
  <2> QED
    BY <2>1, <2>2
<1>6. FetchRight' <=> FetchRight
  BY <1>2 DEF FetchRight
<1>7. ASSUME NEW x \in ToSet(items) PROVE Marked(x)' /\ Going(x)'
  <2>1. Marked(x) /\ Going(x) /\ x.uid \in Shown
    BY ItemsAreShown DEF MarksOK
  <2>2. /\ x.uid \in missed => x.uid \in missed'
        /\ Changing(x.uid) => Changing(x.uid)'
        /\ Reloading(x.uid) => Reloading(x.uid)'
    BY <1>2, <1>3, <1>5, <2>1 DEF Reloading
  <2> QED
    BY <1>2, <1>4, <2>1, <2>2, SameItemStaysRight
<1>8. AddOK'
  <2>1. SUFFICES ASSUME gui.at = "add"
                 PROVE  \/ Head(gui.todo) \in missed'
                        \/ FetchRight
                        \/ <<"changed", Head(gui.todo)>> \in ToSet(mcq')
    BY <1>2, <1>6 DEF AddOK
  <2>2. CASE s = <<"changed", Head(gui.todo)>>
    BY <1>3, <2>1, <2>2
  <2>3. CASE s # <<"changed", Head(gui.todo)>>
    BY <1>1, <1>3, <2>1, <2>3 DEF MarksOK, AddOK
  <2> QED
    BY <2>2, <2>3
<1>9. UpdateOK'
  BY <1>2, <1>4, <1>5, <1>6 DEF MarksOK, UpdateOK
<1> QED
  BY <1>2, <1>7, <1>8, <1>9 DEF MarksOK

LEMMA InitMarks == Init => MarksOK
<1> SUFFICES ASSUME Init PROVE MarksOK
  OBVIOUS
<1>1. gui.at = "idle" /\ items = <<>>
  BY DEF Init, Resting
<1>2. ToSet(items) = {}
  BY <1>1, SetOfEmpty
<1> QED
  BY <1>1, <1>2 DEF MarksOK, AddOK, UpdateOK

LEMMA StepKeepsMarks ==
    Queues /\ OrderOK /\ DeletesOK /\ TabOK /\ MarksOK /\ [Next]_vars => MarksOK'
<1> SUFFICES ASSUME Queues, OrderOK, DeletesOK, TabOK, MarksOK, [Next]_vars PROVE MarksOK'
  OBVIOUS
<1>1. CASE ExecuteCall
  BY <1>1, ExecuteCallKeepsMarks
<1>2. CASE /\ UNCHANGED <<disk, sent, items, gui, mcq, uiq, missed>>
           /\ ToSet(dbq) \subseteq ToSet(dbq')
  <2>1. Rows' = Rows /\ Shown' = Shown /\ InFlight' = InFlight /\ (FetchRight' <=> FetchRight)
    BY <1>2 DEF Rows, Shown, InFlight, FetchRight
  <2>2. AddOK' /\ UpdateOK'
    BY <1>2, <2>1 DEF MarksOK, AddOK, UpdateOK, Changing
  <2>3. ASSUME NEW x \in ToSet(items) PROVE Marked(x)' /\ Going(x)'
    <3>1. Marked(x) /\ Going(x)
      BY DEF MarksOK
    <3>2. /\ Changing(x.uid) => Changing(x.uid)'
          /\ Reloading(x.uid) => Reloading(x.uid)'
      BY <1>2, <2>1 DEF Changing, Reloading
    <3> QED
      BY <1>2, <2>1, <3>1, <3>2, SameItemStaysRight
  <2> QED
    BY <1>2, <2>2, <2>3 DEF MarksOK
<1>3. ASSUME NEW u \in Messages, StoreMessage(u) \/ StoreResult(u) PROVE MarksOK'
  <2>1. PICK kind \in {"store", "result"} : dbq' = Append(dbq, <<kind, u>>)
    BY <1>3 DEF StoreMessage, StoreResult
  <2>2. <<kind, u>> \in Calls
    BY DEF Calls
  <2>3. ToSet(dbq) \subseteq ToSet(dbq')
    BY <2>1, <2>2, SetOfAppend DEF Queues
  <2>4. UNCHANGED <<disk, sent, items, gui, mcq, uiq, missed>>
    BY <1>3 DEF StoreMessage, StoreResult, tables, widgets
  <2> QED
    BY <1>2, <2>3, <2>4
<1>4. CASE Relay
  BY <1>4, RelayKeepsMarks
<1>5. CASE WindowStep
  BY <1>5, WindowStepKeepsMarks
<1>6. CASE UserStep
  BY <1>6, UserStepKeepsMarks
<1>7. CASE Crash \/ Quit
  BY <1>7, EmptyTabKeepsMarks DEF Crash, Quit, Stop, Resting
<1>8. CASE Restart \/ UNCHANGED vars
  BY <1>2, <1>8 DEF Restart, vars, tables, widgets
<1> QED
  BY <1>1, <1>3, <1>4, <1>5, <1>6, <1>7, <1>8 DEF Next

-----------------------------------------------------------------------------
TabInvariant == Queues /\ TabOK /\ SentOK /\ OrderOK /\ DeletesOK /\ RowsOK /\ GapOK /\ MarksOK

LEMMA AlwaysTabInvariant == Spec => []TabInvariant
<1>1. Init => TabInvariant
  BY InitQueues, InitTab, InitSent, InitOrder, InitDeletes, InitRows, InitGap, InitMarks DEF TabInvariant
<1>2. TabInvariant /\ [Next]_vars => TabInvariant'
  BY StepKeepsQueues, StepKeepsTab, StepKeepsSent, StepKeepsOrder, StepKeepsDeletes, StepKeepsRows,
     StepKeepsGap, StepKeepsMarks DEF TabInvariant
<1> QED
  BY <1>1, <1>2, PTL DEF Spec

LEMMA InvariantMeansTabIsRight == TabInvariant => SettledTabIsRight
<1> SUFFICES ASSUME TabInvariant, Settled PROVE
        /\ Shown \subseteq Rows
        /\ \A u \in Shown : \A v \in Rows : SortBy[v] > SortBy[u] => v \in Shown
        /\ asked = {} => ToSet(LastMessages(PageSize)) \subseteq Shown
        /\ \A i \in DOMAIN items :
              items[i].uid \notin missed => (items[i].sent <=> items[i].uid \in sent)
  BY DEF SettledTabIsRight
<1>1. /\ gui.at = "idle" /\ tab /\ ~loadDue /\ dbq = <<>> /\ mcq = <<>> /\ uiq = <<>>
      /\ RowsOK /\ GapOK /\ MarksOK /\ Queues
  BY DEF TabInvariant, Settled
<1>2. /\ ToSet(dbq) = {} /\ InFlight = {} /\ News = {} /\ OnTheirWay = {}
  BY <1>1, SetOfEmpty DEF InFlight, News, Named, OnTheirWay
<1>3. Shown \subseteq Rows /\ Covered = Shown
  BY <1>1, <1>2 DEF RowsOK, Covered
<1>4. ASSUME NEW u \in Shown, NEW v \in Rows, SortBy[v] > SortBy[u] PROVE v \in Shown
  <2>1. SortBy[v] \in Nat /\ SortBy[u] \in Nat
    BY <1>3, RowsAreMessages, HistoryAssumption
  <2>2. SortBy[u] < SortBy[v]
    BY <1>4, <2>1
  <2> QED
    BY <1>1, <1>3, <2>2 DEF GapOK
<1>5. asked = {} => ToSet(LastMessages(PageSize)) \subseteq Shown
  <2>1. ToSet(LastMessages(PageSize)) = Latest(Rows, PageSize)
    BY HistoryAssumption, LastAreLatest
  <2> QED
    BY <1>1, <1>2, <1>3, <2>1 DEF GapOK
<1>6. ASSUME NEW i \in DOMAIN items, items[i].uid \notin missed
      PROVE  items[i].sent <=> items[i].uid \in sent
  <2>1. PICK x \in ToSet(items) : x = items[i]
    BY DEF ToSet
  <2>2. Marked(x) /\ Going(x) /\ x.uid \in Shown
    BY <1>1, ItemsAreShown DEF MarksOK
  <2>3. ~x.deleted
    BY <1>2, <1>3, <2>2 DEF Going
  <2>4. ~Changing(x.uid) /\ ~Reloading(x.uid)
    BY <1>1, <1>2 DEF Changing, Reloading
  <2>5. Right(x)
    BY <1>3, <1>6, <2>1, <2>2, <2>3, <2>4 DEF Marked
  <2> QED
    BY <2>1, <2>5 DEF Right
<1> QED
  BY <1>3, <1>4, <1>5, <1>6

(* A tab that has nothing more to hear of shows the history as it is: only *)
(* what has its row, the newest messages without a gap and at least a page *)
(* of them as long as nothing is deleted, and each as it is in the table   *)
(* (SimpleTabController, ContactChatTab, BackedMessage).                   *)
THEOREM SettledTabIsAlwaysRight == Spec => []SettledTabIsRight
<1> QED
  BY AlwaysTabInvariant, InvariantMeansTabIsRight, PTL

=============================================================================
