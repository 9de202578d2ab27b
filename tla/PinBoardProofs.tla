--------------------------- MODULE PinBoardProofs ---------------------------
(***************************************************************************)
(* Proofs about PinBoard, for any messages, calls and bound of the board.  *)
(***************************************************************************)
EXTENDS PinBoard, SequenceTheorems, FiniteSetTheorems, TLAPS

-----------------------------------------------------------------------------
(***************************************************************************)
(* Ranks: a finite set of numbers is counted from below, without gaps.     *)
(***************************************************************************)
LEMMA RankGrows ==
  ASSUME NEW K \in SUBSET Nat, IsFiniteSet(K), NEW i \in K, NEW j \in K, i < j
  PROVE  Rank(K, i) < Rank(K, j)
<1> DEFINE below(x) == {k \in K : k <= x}
<1>1. /\ IsFiniteSet(below(i)) /\ IsFiniteSet(below(j))
      /\ below(i) \subseteq below(j) /\ below(i) # below(j)
  <2>1. below(i) \in SUBSET K /\ below(j) \in SUBSET K
    OBVIOUS
  <2>2. i \in Nat /\ j \in Nat /\ \A k \in K : k \in Nat
    OBVIOUS
  <2>3. below(i) \subseteq below(j)
    <3>1. \A k \in K : k <= i => k <= j
      BY <2>2
    <3> QED
      BY <3>1
  <2>4. j \in below(j) /\ j \notin below(i)
    BY <2>2
  <2> HIDE DEF below
  <2> QED
    BY <2>1, <2>3, <2>4, FS_Subset
<1> HIDE DEF below
<1>2. /\ Cardinality(below(i)) <= Cardinality(below(j))
      /\ Cardinality(below(i)) # Cardinality(below(j))
  BY <1>1, FS_Subset
<1>3. Cardinality(below(i)) \in Nat /\ Cardinality(below(j)) \in Nat
  BY <1>1, FS_CardinalityType
<1>4. Cardinality(below(i)) < Cardinality(below(j))
  BY <1>2, <1>3
<1> QED
  BY <1>4 DEF below, Rank

LEMMA RankRange ==
  ASSUME NEW K \in SUBSET Nat, IsFiniteSet(K), NEW i \in K
  PROVE  Rank(K, i) \in 1 .. Cardinality(K)
<1> DEFINE below == {k \in K : k <= i}
<1>1. below \in SUBSET K /\ i \in below
  OBVIOUS
<1> HIDE DEF below
<1>2. IsFiniteSet(below) /\ Cardinality(below) <= Cardinality(K)
  BY <1>1, FS_Subset
<1>3. Cardinality(below) \in Nat /\ Cardinality(K) \in Nat /\ Cardinality(below) # 0
  BY <1>1, <1>2, FS_CardinalityType, FS_EmptySet
<1>4. Cardinality(below) \in 1 .. Cardinality(K)
  BY <1>2, <1>3
<1> QED
  BY <1>4 DEF below, Rank

\* An injection between sets of one size meets every rank.
LEMMA RankMeets ==
  ASSUME NEW K \in SUBSET Nat, IsFiniteSet(K)
  PROVE  /\ Cardinality(K) \in Nat
         /\ \A n \in 1 .. Cardinality(K) : \E i \in K : Rank(K, i) = n
         /\ \A i, j \in K : Rank(K, i) = Rank(K, j) => i = j
<1> DEFINE N == Cardinality(K)
           f == [i \in K |-> Rank(K, i)]
<1>1. N \in Nat
  BY FS_CardinalityType
<1>2. f \in [K -> 1 .. N]
  BY RankRange
<1>3. \A i, j \in K : Rank(K, i) = Rank(K, j) => i = j
  <2> SUFFICES ASSUME NEW i \in K, NEW j \in K, Rank(K, i) = Rank(K, j), i # j
               PROVE  FALSE
    OBVIOUS
  <2>1. Rank(K, i) \in Nat /\ (i < j \/ j < i)
    BY <1>1, RankRange
  <2> QED
    BY <2>1, RankGrows
<1>4. f \in Injection(K, 1 .. N)
  BY <1>2, <1>3 DEF Injection, IsInjective
<1>5. IsFiniteSet(1 .. N) /\ Cardinality(1 .. N) = N
  BY <1>1, FS_Interval
<1>6. f \in Surjection(K, 1 .. N)
  <2> HIDE DEF f
  <2> QED
    BY <1>4, <1>5, FS_Injection
<1>7. \A n \in 1 .. N : \E i \in K : Rank(K, i) = n
  BY <1>6 DEF Surjection
<1> QED
  BY <1>1, <1>3, <1>7

\* The n-th number of K.
Nth(K, n) == CHOOSE i \in K : Rank(K, i) = n

LEMMA NthIsRanked ==
  ASSUME NEW K \in SUBSET Nat, IsFiniteSet(K), NEW n \in 1 .. Cardinality(K)
  PROVE  Nth(K, n) \in K /\ Rank(K, Nth(K, n)) = n
BY RankMeets DEF Nth

LEMMA NthOfRank ==
  ASSUME NEW K \in SUBSET Nat, IsFiniteSet(K), NEW i \in K
  PROVE  Nth(K, Rank(K, i)) = i
<1>1. Rank(K, i) \in 1 .. Cardinality(K)
  BY RankRange
<1>2. Nth(K, Rank(K, i)) \in K /\ Rank(K, Nth(K, Rank(K, i))) = Rank(K, i)
  BY <1>1, NthIsRanked
<1>3. \A j, k \in K : Rank(K, j) = Rank(K, k) => j = k
  BY RankMeets
<1> QED
  BY <1>2, <1>3

-----------------------------------------------------------------------------
(***************************************************************************)
(* The filter of chat:unpin.                                               *)
(***************************************************************************)
LEMMA KeptFinite ==
  ASSUME NEW list \in Seq(Pin), NEW m
  PROVE  /\ Kept(list, m) \in SUBSET Nat
         /\ IsFiniteSet(Kept(list, m))
         /\ DOMAIN list = 1 .. Len(list) /\ Len(list) \in Nat
         /\ \A i \in 1 .. Len(list) : list[i] \in Pin
<1>1. /\ DOMAIN list = 1 .. Len(list) /\ Len(list) \in Nat
      /\ \A i \in 1 .. Len(list) : list[i] \in Pin
  BY LenProperties, ElementOfSeq
<1>2. Kept(list, m) \in SUBSET (1 .. Len(list))
  BY <1>1 DEF Kept
<1>3. IsFiniteSet(1 .. Len(list))
  BY <1>1, FS_Interval
<1>4. IsFiniteSet(Kept(list, m))
  BY <1>2, <1>3, FS_Subset
<1> QED
  BY <1>1, <1>2, <1>4

LEMMA FunctionIsSequence ==
  ASSUME NEW S, NEW n \in Nat, NEW f \in [1 .. n -> S]
  PROVE  f \in Seq(S) /\ Len(f) = n
<1>1. f \in Seq(S)
  BY SeqDef
<1>2. DOMAIN f = 1 .. n /\ DOMAIN f = 1 .. Len(f) /\ Len(f) \in Nat
  BY <1>1, LenProperties
<1>3. Len(f) = n
  BY <1>2
<1> QED
  BY <1>1, <1>3

\* The pins that are kept, each at its rank among them.
LEMMA WithoutList ==
  ASSUME NEW list \in Seq(Pin), NEW m
  PROVE  LET K == Kept(list, m) IN
         /\ Without(list, m) \in Seq(Pin)
         /\ Len(Without(list, m)) = Cardinality(K)
         /\ \A n \in 1 .. Cardinality(K) : /\ Nth(K, n) \in K
                                           /\ Without(list, m)[n] = list[Nth(K, n)]
<1> DEFINE K == Kept(list, m)
           f == Without(list, m)
<1>1. /\ K \in SUBSET Nat /\ IsFiniteSet(K) /\ Cardinality(K) \in Nat
      /\ \A i \in K : i \in 1 .. Len(list) /\ list[i] \in Pin
  BY KeptFinite, FS_CardinalityType DEF Kept
<1>2. f = [n \in 1 .. Cardinality(K) |-> list[Nth(K, n)]]
  BY DEF Without, Nth
<1> HIDE DEF K, f
<1>3. \A n \in 1 .. Cardinality(K) : Nth(K, n) \in K
  BY <1>1, NthIsRanked
<1>4. f \in [1 .. Cardinality(K) -> Pin]
  BY <1>1, <1>2, <1>3
<1>5. f \in Seq(Pin) /\ Len(f) = Cardinality(K)
  BY <1>1, <1>4, FunctionIsSequence
<1> QED
  BY <1>2, <1>3, <1>5 DEF K, f

\* The ids that are left, and none of them twice if none was before.
LEMMA WithoutIds ==
  ASSUME NEW list \in Seq(Pin), NEW m
  PROVE  /\ Ids(Without(list, m)) = Ids(list) \ {m}
         /\ (\A i, j \in DOMAIN list : list[i].id = list[j].id => i = j) =>
              \A i, j \in DOMAIN Without(list, m) :
                Without(list, m)[i].id = Without(list, m)[j].id => i = j
<1> DEFINE K == Kept(list, m)
           f == Without(list, m)
<1>1. /\ f \in Seq(Pin) /\ Len(f) = Cardinality(K)
      /\ \A n \in 1 .. Cardinality(K) : Nth(K, n) \in K /\ f[n] = list[Nth(K, n)]
  BY WithoutList
<1>2. K \in SUBSET Nat /\ IsFiniteSet(K)
  BY KeptFinite
<1>3. K = {i \in DOMAIN list : list[i].id # m}
  BY DEF Kept
<1> HIDE DEF K, f
<1>4. DOMAIN f = 1 .. Cardinality(K)
  BY <1>1, LenProperties
<1>5. ASSUME NEW i \in K
      PROVE  Rank(K, i) \in 1 .. Cardinality(K) /\ Nth(K, Rank(K, i)) = i
  <2>1. Rank(K, i) \in 1 .. Cardinality(K)
    BY <1>2, RankRange
  <2>2. Nth(K, Rank(K, i)) = i
    BY <1>2, NthOfRank
  <2> QED
    BY <2>1, <2>2
<1>6. ASSUME NEW x \in Ids(f)
      PROVE  x \in Ids(list) \ {m}
  <2>1. PICK n \in DOMAIN f : x = f[n].id
    BY DEF Ids
  <2>2. Nth(K, n) \in K /\ f[n] = list[Nth(K, n)]
    BY <1>1, <1>4, <2>1
  <2> QED
    BY <1>3, <2>1, <2>2 DEF Ids
<1>7. ASSUME NEW x \in Ids(list) \ {m}
      PROVE  x \in Ids(f)
  <2>1. PICK i \in DOMAIN list : x = list[i].id
    BY DEF Ids
  <2>2. i \in K
    BY <1>3, <2>1
  <2>3. f[Rank(K, i)] = list[i] /\ Rank(K, i) \in DOMAIN f
    BY <1>1, <1>4, <1>5, <2>2
  <2> QED
    BY <2>1, <2>3 DEF Ids
<1>8. ASSUME \A i, j \in DOMAIN list : list[i].id = list[j].id => i = j,
             NEW n \in DOMAIN f, NEW p \in DOMAIN f, f[n].id = f[p].id
      PROVE  n = p
  <2>1. Nth(K, n) = Nth(K, p)
    BY <1>1, <1>3, <1>4, <1>8
  <2>2. Rank(K, Nth(K, n)) = n /\ Rank(K, Nth(K, p)) = p
    BY <1>2, <1>4, NthIsRanked
  <2> QED
    BY <2>1, <2>2
<1>9. Ids(f) = Ids(list) \ {m}
  BY <1>6, <1>7
<1> QED
  BY <1>8, <1>9 DEF f

\* IsPrefix, of sequences of pins.
LEMMA PrefixMeans ==
  ASSUME NEW s \in Seq(Pin), NEW t \in Seq(Pin)
  PROVE  IsPrefix(s, t) <=> /\ Len(s) <= Len(t)
                            /\ \A i \in 1 .. Len(s) : s[i] = t[i]
<1>1. /\ Len(s) \in Nat /\ Len(t) \in Nat
      /\ \A i \in 1 .. Len(s) : s[i] \in Pin
      /\ \A i \in 1 .. Len(t) : t[i] \in Pin
  BY LenProperties, ElementOfSeq
<1> SUFFICES ASSUME Len(s) <= Len(t)
             PROVE  SubSeq(s, 1, Len(s)) = SubSeq(t, 1, Len(s)) <=>
                      \A i \in 1 .. Len(s) : s[i] = t[i]
  BY DEF IsPrefix
<1> DEFINE u == SubSeq(t, 1, Len(s))
<1>2. SubSeq(s, 1, Len(s)) = s
  BY SubSeqFull
<1>3. \A i \in 1 .. Len(s) : t[i] \in Pin
  BY <1>1
<1>4. /\ u \in Seq(Pin)
      /\ Len(u) = Len(s)
      /\ \A i \in 1 .. Len(s) : u[i] = t[i]
  <2>1. /\ u \in Seq(Pin)
        /\ Len(u) = IF 1 <= Len(s) THEN Len(s) - 1 + 1 ELSE 0
        /\ \A i \in 1 .. Len(s) - 1 + 1 : u[i] = t[1 + i - 1]
    BY <1>1, <1>3, SubSeqProperties
  <2> QED
    BY <1>1, <2>1
<1> HIDE DEF u
<1>5. s = u <=> \A i \in 1 .. Len(s) : s[i] = u[i]
  BY <1>4, SeqEqual
<1> QED
  BY <1>2, <1>4, <1>5 DEF u

\* A filter of a prefix is a prefix of the filter.
LEMMA WithoutPrefix ==
  ASSUME NEW s \in Seq(Pin), NEW t \in Seq(Pin), IsPrefix(s, t), NEW m
  PROVE  IsPrefix(Without(s, m), Without(t, m))
<1> DEFINE K == Kept(s, m)
           L == Kept(t, m)
<1>1. /\ Len(s) <= Len(t) /\ \A i \in 1 .. Len(s) : s[i] = t[i]
      /\ Len(s) \in Nat /\ Len(t) \in Nat
      /\ DOMAIN s = 1 .. Len(s) /\ DOMAIN t = 1 .. Len(t)
  BY PrefixMeans, KeptFinite
<1>2. /\ K \in SUBSET Nat /\ IsFiniteSet(K)
      /\ L \in SUBSET Nat /\ IsFiniteSet(L)
  BY KeptFinite
<1>3. K = {i \in L : i <= Len(s)} /\ \A i \in K : i \in 1 .. Len(s)
  BY <1>1 DEF Kept
<1>4. /\ Without(s, m) \in Seq(Pin) /\ Len(Without(s, m)) = Cardinality(K)
      /\ \A n \in 1 .. Cardinality(K) :
           Nth(K, n) \in K /\ Without(s, m)[n] = s[Nth(K, n)]
  BY WithoutList
<1>5. /\ Without(t, m) \in Seq(Pin) /\ Len(Without(t, m)) = Cardinality(L)
      /\ \A n \in 1 .. Cardinality(L) :
           Nth(L, n) \in L /\ Without(t, m)[n] = t[Nth(L, n)]
  BY WithoutList
<1> HIDE DEF K, L
<1>6. /\ Cardinality(K) <= Cardinality(L)
      /\ Cardinality(K) \in Nat /\ Cardinality(L) \in Nat
  BY <1>2, <1>3, FS_Subset, FS_CardinalityType
<1>7. ASSUME NEW i \in K
      PROVE  Rank(K, i) = Rank(L, i)
  <2>1. {j \in K : j <= i} = {j \in L : j <= i}
    <3>1. \A j \in L : j <= i => j <= Len(s)
      BY <1>1, <1>2, <1>3
    <3> QED
      BY <1>3, <3>1
  <2> QED
    BY <2>1 DEF Rank
<1>8. ASSUME NEW n \in 1 .. Cardinality(K)
      PROVE  Without(s, m)[n] = Without(t, m)[n]
  <2>1. Nth(K, n) \in K /\ Rank(K, Nth(K, n)) = n
    BY <1>2, NthIsRanked
  <2>2. Nth(K, n) \in L /\ Rank(L, Nth(K, n)) = n
    BY <1>3, <1>7, <2>1
  <2>3. Nth(L, Rank(L, Nth(K, n))) = Nth(K, n)
    BY <1>2, <2>2, NthOfRank
  <2>4. Nth(L, n) = Nth(K, n) /\ n \in 1 .. Cardinality(L)
    BY <1>6, <2>2, <2>3
  <2> QED
    BY <1>1, <1>3, <1>4, <1>5, <2>1, <2>4
<1> QED
  BY <1>4, <1>5, <1>6, <1>8, PrefixMeans

\* What FinishPin puts in front.
LEMMA Prepended ==
  ASSUME NEW pin \in Pin, NEW s \in Seq(Pin)
  PROVE  /\ <<pin>> \o s \in Seq(Pin)
         /\ Len(<<pin>> \o s) = Len(s) + 1
         /\ DOMAIN (<<pin>> \o s) = 1 .. Len(s) + 1
         /\ \A i \in 1 .. Len(s) + 1 :
              (<<pin>> \o s)[i] = IF i = 1 THEN pin ELSE s[i - 1]
<1>1. <<pin>> \in Seq(Pin) /\ Len(<<pin>>) = 1 /\ <<pin>>[1] = pin /\ Len(s) \in Nat
  OBVIOUS
<1>2. /\ <<pin>> \o s \in Seq(Pin)
      /\ Len(<<pin>> \o s) = 1 + Len(s)
      /\ \A i \in 1 .. 1 + Len(s) :
           (<<pin>> \o s)[i] = IF i <= 1 THEN <<pin>>[i] ELSE s[i - 1]
  BY <1>1, ConcatProperties
<1>3. DOMAIN (<<pin>> \o s) = 1 .. Len(<<pin>> \o s)
  BY <1>2, LenProperties
<1> QED
  BY <1>1, <1>2, <1>3

LEMMA PrependedPrefix ==
  ASSUME NEW pin \in Pin, NEW s \in Seq(Pin), NEW t \in Seq(Pin), IsPrefix(s, t)
  PROVE  IsPrefix(<<pin>> \o s, <<pin>> \o t)
<1>1. /\ Len(s) \in Nat /\ Len(t) \in Nat /\ Len(s) <= Len(t)
      /\ \A i \in 1 .. Len(s) : s[i] = t[i]
  BY PrefixMeans, LenProperties
<1>2. \A i \in 1 .. Len(s) + 1 : (<<pin>> \o s)[i] = (<<pin>> \o t)[i]
  <2> TAKE i \in 1 .. Len(s) + 1
  <2>1. i \in 1 .. Len(t) + 1 /\ (i # 1 => i - 1 \in 1 .. Len(s))
    BY <1>1
  <2>2. (<<pin>> \o s)[i] = IF i = 1 THEN pin ELSE s[i - 1]
    BY Prepended
  <2>3. (<<pin>> \o t)[i] = IF i = 1 THEN pin ELSE t[i - 1]
    BY <2>1, Prepended
  <2> QED
    BY <1>1, <2>1, <2>2, <2>3
<1>3. /\ <<pin>> \o s \in Seq(Pin) /\ Len(<<pin>> \o s) = Len(s) + 1
      /\ <<pin>> \o t \in Seq(Pin) /\ Len(<<pin>> \o t) = Len(t) + 1
  BY Prepended
<1>4. Len(s) + 1 <= Len(t) + 1
  BY <1>1
<1> QED
  BY <1>2, <1>3, <1>4, PrefixMeans

\* The list stays free of repetitions when what is put in front was not there.
LEMMA PrependedIds ==
  ASSUME NEW pin \in Pin, NEW s \in Seq(Pin)
  PROVE  /\ Ids(<<pin>> \o s) = {pin.id} \cup Ids(s)
         /\ /\ pin.id \notin Ids(s)
            /\ \A i, j \in DOMAIN s : s[i].id = s[j].id => i = j
            =>
              \A i, j \in DOMAIN (<<pin>> \o s) :
                (<<pin>> \o s)[i].id = (<<pin>> \o s)[j].id => i = j
<1> DEFINE t == <<pin>> \o s
<1>1. /\ DOMAIN t = 1 .. Len(s) + 1
      /\ \A i \in 1 .. Len(s) + 1 : t[i] = IF i = 1 THEN pin ELSE s[i - 1]
  BY Prepended
<1>2. DOMAIN s = 1 .. Len(s) /\ Len(s) \in Nat
  BY LenProperties
<1> HIDE DEF t
<1>3. ASSUME NEW i \in DOMAIN s
      PROVE  i + 1 \in DOMAIN t /\ t[i + 1] = s[i]
  <2>1. i + 1 \in 1 .. Len(s) + 1 /\ i + 1 # 1 /\ (i + 1) - 1 = i
    BY <1>2
  <2> QED
    BY <1>1, <2>1
<1>4. 1 \in DOMAIN t /\ t[1] = pin
  BY <1>1, <1>2
<1>5. ASSUME NEW i \in DOMAIN t, i # 1
      PROVE  i - 1 \in DOMAIN s /\ t[i] = s[i - 1]
  <2>1. i - 1 \in 1 .. Len(s)
    BY <1>1, <1>2, <1>5
  <2> QED
    BY <1>1, <1>2, <1>5, <2>1
<1>6. Ids(t) \subseteq {pin.id} \cup Ids(s)
  BY <1>4, <1>5 DEF Ids
<1>7. {pin.id} \cup Ids(s) \subseteq Ids(t)
  BY <1>3, <1>4 DEF Ids
<1>8. ASSUME pin.id \notin Ids(s),
             \A i, j \in DOMAIN s : s[i].id = s[j].id => i = j,
             NEW i \in DOMAIN t, NEW j \in DOMAIN t, t[i].id = t[j].id
      PROVE  i = j
  <2>1. i # 1 => t[i].id \in Ids(s)
    BY <1>5 DEF Ids
  <2>2. j # 1 => t[j].id \in Ids(s)
    BY <1>5 DEF Ids
  <2>3. i = 1 <=> j = 1
    BY <1>4, <1>8, <2>1, <2>2
  <2>4. CASE i # 1
    <3>1. /\ i - 1 \in DOMAIN s /\ t[i] = s[i - 1]
          /\ j - 1 \in DOMAIN s /\ t[j] = s[j - 1]
      BY <1>5, <2>3, <2>4
    <3>2. i - 1 = j - 1
      BY <1>8, <3>1
    <3>3. i \in Nat /\ j \in Nat
      BY <1>1, <1>2
    <3> QED
      BY <3>2, <3>3
  <2> QED
    BY <2>3, <2>4
<1> QED
  BY <1>6, <1>7, <1>8 DEF t

-----------------------------------------------------------------------------
(***************************************************************************)
(* The inductive invariant.                                                *)
(***************************************************************************)

\* A call past the lookup found the message not unsent: since then it was
\* not, or the history has it.
LooksHold ==
  \A k \in calls : k.pc = "pin" => row[k.m] # "unsent" \/ k.m \in raced

PinInv == TypeOK /\ BoardFollowsPins /\ LooksHold

LEMMA EmptyPins ==
  /\ <<>> \in Seq(Pin) /\ DOMAIN <<>> = {} /\ Ids(<<>>) = {}
  /\ \A s \in Seq(Pin) : IsPrefix(<<>>, s)
  /\ \A s \in Seq(Pin) : IsPrefix(s, s)
<1>1. <<>> \in Seq(Pin) /\ Len(<<>>) = 0 /\ DOMAIN <<>> = {}
  BY EmptySeq
<1>2. \A s \in Seq(Pin) : Len(s) \in Nat
  BY LenProperties
<1>3. ASSUME NEW s \in Seq(Pin), NEW e \in Seq(Pin), Len(e) = 0
      PROVE  IsPrefix(e, s)
  <2>1. Len(s) \in Nat /\ Len(e) <= Len(s)
    BY <1>2, <1>3
  <2>2. \A i \in 1 .. Len(e) : e[i] = s[i]
    BY <1>3
  <2> QED
    BY <2>1, <2>2, PrefixMeans
<1>4. \A s \in Seq(Pin) : IsPrefix(s, s)
  BY <1>2, PrefixMeans
<1> QED
  BY <1>1, <1>3, <1>4 DEF Ids

LEMMA InitPinInv == Init => PinInv
<1> SUFFICES ASSUME Init PROVE PinInv
  OBVIOUS
<1>1. TypeOK
  BY EmptyPins DEF Init, TypeOK
<1> QED
  BY <1>1 DEF Init, PinInv, BoardFollowsPins, LooksHold

\* The steps that leave the list and the told pins alone.
LEMMA QuietSteps ==
  ASSUME PinInv, UNCHANGED <<pins, board, lapsed>>, room' \in {room, FALSE},
         row' \in [Msg -> {"absent", "live", "unsent"}], wiped' \in BOOLEAN,
         calls' \subseteq Call, raced' \subseteq Msg,
         \A k \in calls' : k.pc = "pin" => k.text \in Wording,
         LooksHold'
  PROVE  PinInv'
<1>1. TypeOK'
  BY DEF PinInv, TypeOK
<1>2. BoardFollowsPins'
  BY DEF PinInv, BoardFollowsPins
<1> QED
  BY <1>1, <1>2 DEF PinInv

LEMMA UnsendPinInv ==
  ASSUME PinInv, NEW m \in Msg, Unsend(m)
  PROVE  PinInv'
<1> USE DEF Unsend
<1>1. row' \in [Msg -> {"absent", "live", "unsent"}]
  BY DEF PinInv, TypeOK
<1>2. raced' \subseteq Msg
  BY DEF PinInv, TypeOK, Call
<1>3. LooksHold'
  <2> SUFFICES ASSUME NEW k \in calls, k.pc = "pin"
               PROVE  row'[k.m] # "unsent" \/ k.m \in raced'
    BY DEF LooksHold
  <2>1. k.m \in Msg /\ (row[k.m] # "unsent" \/ k.m \in raced)
    BY DEF PinInv, LooksHold, TypeOK, Call
  <2>2. CASE k.m = m
    BY <2>2
  <2>3. CASE k.m # m
    BY <2>1, <2>3 DEF PinInv, TypeOK
  <2> QED
    BY <2>2, <2>3
<1> QED
  BY <1>1, <1>2, <1>3, QuietSteps DEF PinInv, TypeOK

LEMMA WipePinInv ==
  ASSUME PinInv, Wipe
  PROVE  PinInv'
<1> USE DEF Wipe
<1>1. LooksHold'
  BY DEF PinInv, LooksHold, TypeOK, Call
<1> QED
  BY <1>1, QuietSteps DEF PinInv, TypeOK

LEMMA CallPinInv ==
  ASSUME PinInv, NEW h \in Handler, NEW m \in Msg, NEW offered \in BOOLEAN,
         BeginPin(h, m, offered)
  PROVE  PinInv'
<1> DEFINE c == [h |-> h, m |-> m, pc |-> "look", offered |-> offered,
                 text |-> "unresolved"]
<1> USE DEF BeginPin
<1>1. c \in Call /\ c.pc = "look" /\ calls' = calls \cup {c}
  BY DEF Call
<1> HIDE DEF c
<1>2. LooksHold'
  BY <1>1 DEF PinInv, LooksHold
<1>3. calls' \subseteq Call /\ \A k \in calls' : k.pc = "pin" => k.text \in Wording
  BY <1>1 DEF PinInv, TypeOK
<1> QED
  BY <1>2, <1>3, QuietSteps DEF PinInv, TypeOK

\* A call goes on only if the row it looked up was not unsent.
LEMMA LookPinInv ==
  ASSUME PinInv, NEW k \in calls, PinLooks(k)
  PROVE  PinInv'
<1> DEFINE c == [k EXCEPT !.pc = "pin", !.text = Resolve(k)]
<1> USE DEF PinLooks
<1>1. k \in Call
  BY DEF PinInv, TypeOK
<1>2. \A x \in calls' : x \in calls \/ x = c
  OBVIOUS
<1>3. CASE Unpinnable(k.m) \/ Resolve(k) = "unresolved"
  <2>1. calls' \subseteq calls
    BY <1>3
  <2>2. LooksHold'
    BY <2>1 DEF PinInv, LooksHold
  <2>3. calls' \subseteq Call /\ \A x \in calls' : x.pc = "pin" => x.text \in Wording
    BY <2>1 DEF PinInv, TypeOK
  <2> QED
    BY <2>2, <2>3, QuietSteps DEF PinInv, TypeOK
<1>4. CASE ~ (Unpinnable(k.m) \/ Resolve(k) = "unresolved")
  <2>1. Resolve(k) \in Wording /\ row[k.m] # "unsent"
    BY <1>4 DEF Resolve, Wording, Unpinnable
  <2>2. c \in Call /\ c.text \in Wording /\ c.m = k.m
    BY <1>1, <2>1 DEF Call
  <2> HIDE DEF c
  <2>3. LooksHold'
    BY <1>2, <2>1, <2>2 DEF PinInv, LooksHold
  <2>4. calls' \subseteq Call /\ \A x \in calls' : x.pc = "pin" => x.text \in Wording
    BY <1>2, <2>2 DEF PinInv, TypeOK
  <2> QED
    BY <2>3, <2>4, QuietSteps DEF PinInv, TypeOK
<1> QED
  BY <1>3, <1>4

LEMMA FinishPinInv ==
  ASSUME PinInv, NEW k \in calls, FinishPin(k)
  PROVE  PinInv'
<1> DEFINE pin == [id |-> k.m, text |-> k.text]
<1>1. /\ k.pc = "pin" /\ calls' = calls \ {k}
      /\ raced' = raced \cap {j.m : j \in {i \in calls \ {k} : i.pc = "pin"}}
      /\ UNCHANGED <<row, wiped, room, lapsed>>
      /\ IF AlreadyPinned(k.m) THEN UNCHANGED <<pins, board>>
         ELSE pins' = <<pin>> \o pins /\ Told(<<pin>> \o board)
  BY DEF FinishPin
<1>2. pin \in Pin /\ pin.id = k.m
  BY <1>1 DEF PinInv, TypeOK, Pin, Call
<1>3. pins \in Seq(Pin) /\ board \in Seq(Pin)
  BY DEF PinInv, TypeOK
<1> HIDE DEF pin
<1>4. LooksHold'
  <2> SUFFICES ASSUME NEW j \in calls', j.pc = "pin"
               PROVE  row'[j.m] # "unsent" \/ j.m \in raced'
    BY DEF LooksHold
  <2>1. j \in calls \ {k} /\ (row[j.m] # "unsent" \/ j.m \in raced)
    BY <1>1 DEF PinInv, LooksHold
  <2> QED
    BY <1>1, <2>1
<1>5. CASE AlreadyPinned(k.m)
  <2>1. calls' \subseteq Call /\ raced' \subseteq Msg
        /\ \A x \in calls' : x.pc = "pin" => x.text \in Wording
    BY <1>1 DEF PinInv, TypeOK
  <2> QED
    BY <1>1, <1>4, <1>5, <2>1, QuietSteps DEF PinInv, TypeOK
<1>6. CASE ~ AlreadyPinned(k.m)
  <2>1. pins' = <<pin>> \o pins /\ board' = IF room THEN <<pin>> \o board ELSE board
    BY <1>1, <1>6 DEF Told
  <2>2. pins' \in Seq(Pin) /\ board' \in Seq(Pin)
    BY <1>2, <1>3, <2>1, Prepended
  <2>3. \A i, j \in DOMAIN pins' : pins'[i].id = pins'[j].id => i = j
    <3>1. \A i, j \in DOMAIN pins : pins[i].id = pins[j].id => i = j
      BY DEF PinInv, TypeOK
    <3>2. pin.id \notin Ids(pins)
      BY <1>2, <1>6 DEF AlreadyPinned
    <3> QED
      BY <1>2, <1>3, <2>1, <3>1, <3>2, PrependedIds
  <2>4. TypeOK'
    BY <1>1, <2>2, <2>3 DEF PinInv, TypeOK
  <2>5. BoardFollowsPins'
    <3> SUFFICES ASSUME room
                 PROVE  IsPrefix(pins, board)' /\ (board' = pins' \/ lapsed)
      BY <1>1 DEF BoardFollowsPins
    <3>1. IsPrefix(pins, board) /\ (board = pins \/ lapsed)
      BY DEF PinInv, BoardFollowsPins
    <3>2. IsPrefix(<<pin>> \o pins, <<pin>> \o board)
      BY <1>2, <1>3, <3>1, PrependedPrefix
    <3> QED
      BY <2>1, <3>1, <3>2
  <2> QED
    BY <1>4, <2>4, <2>5 DEF PinInv
<1> QED
  BY <1>5, <1>6

LEMMA UnpinPinInv ==
  ASSUME PinInv, NEW m \in Msg, Unpin(m)
  PROVE  PinInv'
<1>1. /\ pins' = Without(pins, m)
      /\ board' = IF room THEN Without(board, m) ELSE board
      /\ UNCHANGED <<row, wiped, calls, room, lapsed, raced>>
  BY DEF Unpin, Told
<1>2. pins \in Seq(Pin) /\ board \in Seq(Pin)
  BY DEF PinInv, TypeOK
<1>3. pins' \in Seq(Pin) /\ board' \in Seq(Pin)
  BY <1>1, <1>2, WithoutList
<1>4. \A i, j \in DOMAIN pins' : pins'[i].id = pins'[j].id => i = j
  <2>1. \A i, j \in DOMAIN pins : pins[i].id = pins[j].id => i = j
    BY DEF PinInv, TypeOK
  <2> QED
    BY <1>1, <1>2, <2>1, WithoutIds
<1>5. TypeOK'
  BY <1>1, <1>3, <1>4 DEF PinInv, TypeOK
<1>6. BoardFollowsPins'
  <2> SUFFICES ASSUME room
               PROVE  IsPrefix(pins, board)' /\ (board' = pins' \/ lapsed)
    BY <1>1 DEF BoardFollowsPins
  <2>1. IsPrefix(pins, board) /\ (board = pins \/ lapsed)
    BY DEF PinInv, BoardFollowsPins
  <2>2. IsPrefix(Without(pins, m), Without(board, m))
    BY <1>2, <2>1, WithoutPrefix
  <2> QED
    BY <1>1, <2>1, <2>2
<1>7. LooksHold'
  BY <1>1 DEF PinInv, LooksHold
<1> QED
  BY <1>5, <1>6, <1>7 DEF PinInv

\* The socket fetches, joins or leaves.
LEMMA SocketPinInv ==
  ASSUME PinInv, Fetch \/ Join \/ Leave
  PROVE  PinInv'
<1>1. LooksHold'
  BY DEF PinInv, LooksHold, Fetch, Join, Leave
<1>2. pins \in Seq(Pin) /\ board \in Seq(Pin)
  BY DEF PinInv, TypeOK
<1>3. CASE Fetch
  <2>1. TypeOK'
    BY <1>3 DEF PinInv, TypeOK, Fetch
  <2>2. BoardFollowsPins'
    BY <1>2, <1>3, EmptyPins DEF BoardFollowsPins, Fetch
  <2> QED
    BY <1>1, <2>1, <2>2 DEF PinInv
<1>4. CASE Join
  <2>1. board' \in Seq(Pin) /\ lapsed' \in BOOLEAN /\ room' = TRUE
    BY <1>2, <1>4 DEF Join, Replay
  <2>2. TypeOK'
    BY <1>4, <2>1 DEF PinInv, TypeOK, Join
  <2>3. IsPrefix(pins, board') /\ (board' = pins \/ lapsed')
    <3>1. CASE pins = <<>>
      BY <1>4, <2>1, <3>1, EmptyPins DEF Join
    <3>2. CASE pins # <<>>
      BY <1>2, <1>4, <3>2, EmptyPins DEF Join, Replay
    <3> QED
      BY <3>1, <3>2
  <2>4. BoardFollowsPins'
    BY <1>4, <2>3 DEF Join, BoardFollowsPins
  <2> QED
    BY <1>1, <2>2, <2>4 DEF PinInv
<1>5. CASE Leave
  BY <1>1, <1>5, QuietSteps DEF PinInv, TypeOK, Leave
<1> QED
  BY <1>3, <1>4, <1>5

LEMMA CrashPinInv ==
  ASSUME PinInv, Crash
  PROVE  PinInv'
<1>1. TypeOK'
  BY EmptyPins DEF PinInv, TypeOK, Crash
<1> QED
  BY <1>1 DEF PinInv, BoardFollowsPins, LooksHold, Crash

LEMMA NextPinInv == PinInv /\ [Next]_vars => PinInv'
<1> SUFFICES ASSUME PinInv, [Next]_vars PROVE PinInv'
  OBVIOUS
<1>1. ASSUME NEW m \in Msg, Unsend(m) PROVE PinInv'
  BY <1>1, UnsendPinInv
<1>2. ASSUME NEW m \in Msg, Unpin(m) PROVE PinInv'
  BY <1>2, UnpinPinInv
<1>3. ASSUME NEW m \in Msg, NEW h \in Handler, NEW offered \in BOOLEAN,
             BeginPin(h, m, offered)
      PROVE  PinInv'
  BY <1>3, CallPinInv
<1>4. ASSUME NEW k \in calls, PinLooks(k) PROVE PinInv'
  BY <1>4, LookPinInv
<1>5. ASSUME NEW k \in calls, FinishPin(k) PROVE PinInv'
  BY <1>5, FinishPinInv
<1>6. CASE Fetch \/ Join \/ Leave
  BY <1>6, SocketPinInv
<1>7. CASE Wipe
  BY <1>7, WipePinInv
<1>8. CASE Crash
  BY <1>8, CrashPinInv
<1>9. CASE UNCHANGED vars
  BY <1>9 DEF vars, PinInv, TypeOK, BoardFollowsPins, LooksHold
<1> QED
  BY <1>1, <1>2, <1>3, <1>4, <1>5, <1>6, <1>7, <1>8, <1>9 DEF Next

-----------------------------------------------------------------------------
(***************************************************************************)
(* Theorems.                                                               *)
(***************************************************************************)

\* The inductive invariant holds throughout.
THEOREM PinInvariance == Spec => []PinInv
BY InitPinInv, NextPinInv, PTL DEF Spec

\* chat:pin and chat:unpin keep the types, and a message is pinned at most
\* once however many calls to pin it overlap (pin.handler.ts searches the
\* list again after its await).
THEOREM TypeCorrect == Spec => []TypeOK
<1>1. PinInv => TypeOK
  BY DEF PinInv
<1> QED
  BY <1>1, PinInvariance, PTL

\* What a socket in the room was told of pins, by replay and by broadcast, is
\* the list the server holds, an earlier stay's leftovers aside.
THEOREM BoardCorrect == Spec => []BoardFollowsPins
<1>1. PinInv => BoardFollowsPins
  BY DEF PinInv
<1> QED
  BY <1>1, PinInvariance, PTL

\* A pin step adds no message that was unsent before the call's lookup.
LEMMA StepNoLatePin ==
  ASSUME PinInv, [Next]_vars, NEW m \in Ids(pins') \ Ids(pins)
  PROVE  row[m] # "unsent" \/ m \in raced
<1>1. pins \in Seq(Pin)
  BY DEF PinInv, TypeOK
<1>2. pins' # pins
  OBVIOUS
<1>3. CASE \E k \in calls : FinishPin(k)
  <2>1. PICK k \in calls : FinishPin(k)
    BY <1>3
  <2> DEFINE pin == [id |-> k.m, text |-> k.text]
  <2>2. k.pc = "pin" /\ pins' = <<pin>> \o pins
    BY <1>2, <2>1 DEF FinishPin
  <2>3. pin \in Pin /\ pin.id = k.m
    BY <2>2 DEF PinInv, TypeOK, Pin, Call
  <2> HIDE DEF pin
  <2>4. m = k.m
    BY <1>1, <2>2, <2>3, PrependedIds
  <2> QED
    BY <2>2, <2>4 DEF PinInv, LooksHold
<1>4. CASE \E x \in Msg : Unpin(x)
  <2>1. PICK x \in Msg : Unpin(x)
    BY <1>4
  <2>2. Ids(pins') = Ids(pins) \ {x}
    BY <1>1, <2>1, WithoutIds DEF Unpin
  <2> QED
    BY <2>2
<1>5. CASE Crash
  BY <1>5, EmptyPins DEF Crash
<1>6. (\E k \in calls : FinishPin(k)) \/ (\E x \in Msg : Unpin(x)) \/ Crash
  BY <1>2 DEF Next, vars, Unsend, BeginPin, PinLooks, Fetch, Join, Leave, Wipe
<1> QED
  BY <1>3, <1>4, <1>5, <1>6

\* However the calls to pin and the unsending of messages interleave, what is
\* pinned was not unsent when the call looked, as pin.handler.ts means it.
THEOREM LatePinsCorrect == Spec => NoLatePin
<1>1. PinInv /\ [Next]_vars =>
        [\A m \in Ids(pins') \ Ids(pins) : row[m] # "unsent" \/ m \in raced]_vars
  BY StepNoLatePin
<1> QED
  BY <1>1, PinInvariance, PTL DEF Spec, NoLatePin

=============================================================================
