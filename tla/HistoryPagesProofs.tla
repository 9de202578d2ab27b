------------------------- MODULE HistoryPagesProofs -------------------------
(***************************************************************************)
(* Proofs about HistoryPages, for any messages, page size and clock.       *)
(***************************************************************************)
EXTENDS HistoryPages, SequenceTheorems, FiniteSetTheorems, TLAPS

-----------------------------------------------------------------------------
(***************************************************************************)
(* The order of a conversation, and places in it.                          *)
(***************************************************************************)
LEMMA OlderOrder ==
  ASSUME TypeOK, NEW i \in Id, NEW j \in Id, NEW k \in Id
  PROVE  /\ ~ Older(i, i)
         /\ Older(i, j) /\ Older(j, k) => Older(i, k)
         /\ i = j \/ Older(i, j) \/ Older(j, i)
<1>1. /\ i \in Nat /\ j \in Nat /\ k \in Nat
      /\ at[i] \in Nat /\ at[j] \in Nat /\ at[k] \in Nat
  BY PageAssumption DEF TypeOK
<1> QED
  BY <1>1 DEF Older

\* Of two rows the older has the later place.
LEMMA PlaceGrows ==
  ASSUME TypeOK, NEW S \in SUBSET Id, IsFiniteSet(S),
         NEW i \in S, NEW j \in S, Older(i, j)
  PROVE  Place(S, j) < Place(S, i)
<1> DEFINE upTo(x) == {k \in S : k = x \/ Older(x, k)}
<1>1. upTo(i) \in SUBSET S /\ upTo(j) \in SUBSET S
  OBVIOUS
<1>2. upTo(j) \subseteq upTo(i)
  BY OlderOrder
<1>3. i \in upTo(i) /\ i \notin upTo(j)
  <2>1. ~ Older(j, i) /\ i # j
    BY OlderOrder
  <2> QED
    BY <2>1
<1>4. Place(S, i) = Cardinality(upTo(i)) /\ Place(S, j) = Cardinality(upTo(j))
  BY DEF Place
<1> HIDE DEF upTo
<1>5. IsFiniteSet(upTo(i)) /\ IsFiniteSet(upTo(j))
  BY <1>1, FS_Subset
<1>6. /\ Cardinality(upTo(j)) <= Cardinality(upTo(i))
      /\ Cardinality(upTo(j)) # Cardinality(upTo(i))
  BY <1>2, <1>3, <1>5, FS_Subset
<1>7. Cardinality(upTo(i)) \in Nat /\ Cardinality(upTo(j)) \in Nat
  BY <1>5, FS_CardinalityType
<1> QED
  BY <1>4, <1>6, <1>7

LEMMA PlaceRange ==
  ASSUME NEW S, IsFiniteSet(S), NEW i \in S
  PROVE  Place(S, i) \in 1 .. Cardinality(S) /\ Cardinality(S) \in Nat
<1> DEFINE upTo == {j \in S : j = i \/ Older(i, j)}
<1>1. upTo \in SUBSET S /\ i \in upTo /\ Place(S, i) = Cardinality(upTo)
  BY DEF Place
<1> HIDE DEF upTo
<1>2. IsFiniteSet(upTo) /\ Cardinality(upTo) <= Cardinality(S)
  BY <1>1, FS_Subset
<1>3. Cardinality(upTo) \in Nat /\ Cardinality(S) \in Nat /\ Cardinality(upTo) # 0
  BY <1>1, <1>2, FS_CardinalityType, FS_EmptySet
<1> QED
  BY <1>1, <1>2, <1>3

\* Every place is taken, and by one row.
LEMMA PlacesMeet ==
  ASSUME TypeOK, NEW S \in SUBSET Id, IsFiniteSet(S)
  PROVE  /\ \A n \in 1 .. Cardinality(S) : \E i \in S : Place(S, i) = n
         /\ \A i, j \in S : Place(S, i) = Place(S, j) => i = j
<1> DEFINE N == Cardinality(S)
           f == [i \in S |-> Place(S, i)]
<1>1. N \in Nat
  BY FS_CardinalityType
<1>2. f \in [S -> 1 .. N]
  BY PlaceRange
<1>3. \A i, j \in S : Place(S, i) = Place(S, j) => i = j
  <2> SUFFICES ASSUME NEW i \in S, NEW j \in S, Place(S, i) = Place(S, j), i # j
               PROVE  FALSE
    OBVIOUS
  <2>1. Place(S, i) \in Nat /\ (Older(i, j) \/ Older(j, i))
    BY <1>1, PlaceRange, OlderOrder
  <2> QED
    BY <2>1, PlaceGrows
<1>4. f \in Injection(S, 1 .. N)
  BY <1>2, <1>3 DEF Injection, IsInjective
<1>5. IsFiniteSet(1 .. N) /\ Cardinality(1 .. N) = N
  BY <1>1, FS_Interval
<1>6. f \in Surjection(S, 1 .. N)
  <2> HIDE DEF f
  <2> QED
    BY <1>4, <1>5, FS_Injection
<1>7. \A n \in 1 .. N : \E i \in S : Place(S, i) = n
  BY <1>6 DEF Surjection
<1> QED
  BY <1>3, <1>7

LEMMA FunctionIsSequence ==
  ASSUME NEW S, NEW n \in Nat, NEW f \in [1 .. n -> S]
  PROVE  f \in Seq(S) /\ Len(f) = n /\ DOMAIN f = 1 .. n
<1>1. f \in Seq(S)
  BY SeqDef
<1>2. DOMAIN f = 1 .. n /\ DOMAIN f = 1 .. Len(f) /\ Len(f) \in Nat
  BY <1>1, LenProperties
<1>3. Len(f) = n
  BY <1>2
<1> QED
  BY <1>1, <1>2, <1>3

\* What findMany returns: at most one row more than a page, newest first,
\* and a row it leaves out is older than all of them.
LEMMA NewestList ==
  ASSUME TypeOK, NEW S \in SUBSET Id, IsFiniteSet(S)
  PROVE  /\ Newest(S) \in Seq(S)
         /\ Len(Newest(S)) <= Limit + 1
         /\ \A m, n \in DOMAIN Newest(S) : m < n => Older(Newest(S)[n], Newest(S)[m])
         /\ \A i \in S : \/ i \in Range(Newest(S))
                         \/ /\ Len(Newest(S)) > Limit
                            /\ \A n \in DOMAIN Newest(S) : Older(i, Newest(S)[n])
<1> DEFINE size == IF Cardinality(S) > Limit THEN Limit + 1 ELSE Cardinality(S)
           list == Newest(S)
<1>1. list = [n \in 1 .. size |-> CHOOSE i \in S : Place(S, i) = n]
  BY DEF Newest
<1>2. Cardinality(S) \in Nat /\ Limit \in Nat
  BY FS_CardinalityType, PageAssumption
<1>3. /\ size \in Nat /\ size <= Limit + 1 /\ size <= Cardinality(S)
      /\ size < Cardinality(S) => size > Limit
  BY <1>2
<1> HIDE DEF size, list
<1>4. \A n \in 1 .. size : list[n] \in S /\ Place(S, list[n]) = n
  <2> TAKE n \in 1 .. size
  <2>1. n \in 1 .. Cardinality(S)
    BY <1>2, <1>3
  <2>2. \E i \in S : Place(S, i) = n
    BY <2>1, PlacesMeet
  <2>3. list[n] = CHOOSE i \in S : Place(S, i) = n
    BY <1>1
  <2> QED
    BY <2>2, <2>3
<1>5. list \in Seq(S) /\ Len(list) = size /\ DOMAIN list = 1 .. size
  <2>1. list \in [1 .. size -> S]
    BY <1>1, <1>4
  <2> QED
    BY <1>3, <2>1, FunctionIsSequence
<1>6. ASSUME NEW m \in 1 .. size, NEW i \in S, m < Place(S, i)
      PROVE  Older(i, list[m])
  <2>1. list[m] \in S /\ Place(S, list[m]) = m /\ Place(S, i) \in Nat /\ m \in Nat
    BY <1>3, <1>4, PlaceRange
  <2>2. i # list[m]
    BY <1>6, <2>1
  <2>3. ~ Older(list[m], i)
    <3>1. Older(list[m], i) => Place(S, i) < Place(S, list[m])
      BY <2>1, PlaceGrows
    <3> QED
      BY <1>6, <2>1, <3>1
  <2> QED
    BY <2>1, <2>2, <2>3, OlderOrder
<1>7. \A m, n \in DOMAIN list : m < n => Older(list[n], list[m])
  BY <1>4, <1>5, <1>6
<1>8. ASSUME NEW i \in S
      PROVE  \/ i \in Range(list)
             \/ Len(list) > Limit /\ \A n \in DOMAIN list : Older(i, list[n])
  <2>1. Place(S, i) \in 1 .. Cardinality(S)
    BY PlaceRange
  <2>2. CASE Place(S, i) <= size
    <3>1. Place(S, i) \in 1 .. size
      BY <1>2, <1>3, <2>1, <2>2
    <3>2. list[Place(S, i)] = i
      BY <1>4, <3>1, PlacesMeet
    <3> QED
      BY <1>5, <3>1, <3>2 DEF Range
  <2>3. CASE Place(S, i) > size
    <3>1. size < Cardinality(S) /\ \A n \in 1 .. size : n < Place(S, i)
      BY <1>2, <1>3, <2>1, <2>3
    <3> QED
      BY <1>3, <1>5, <1>6, <3>1
  <2> QED
    BY <1>2, <1>3, <2>1, <2>2, <2>3
<1> QED
  BY <1>3, <1>5, <1>7, <1>8 DEF list

-----------------------------------------------------------------------------
(***************************************************************************)
(* The inductive invariant.                                                *)
(***************************************************************************)

FoundInOrder ==
  \A m, n \in DOMAIN found : m < n => Older(found[n], found[m])

\* The cursor parts what the client has from what a page is taken from.
Parted ==
  /\ cursor = 0 /\ pc # "end" => shown = <<>>
  /\ cursor > 0 /\ pc # "end" => \A n \in DOMAIN shown : cursor <= at[shown[n]]
  /\ pc = "reply" /\ cursor > 0 => \A n \in DOMAIN found : at[found[n]] < cursor
  /\ pc = "reply" => Len(found) <= Limit + 1

\* Of the messages the client began with, those from the cursor on were
\* shown or cut; those before it are found, or older than a full page.
Covered ==
  /\ cursor > 0 /\ pc # "end" =>
       \A i \in start : at[i] >= cursor => i \in Range(shown) \/ at[i] \in cuts
  /\ pc = "reply" =>
       \A i \in start :
         cursor = 0 \/ at[i] < cursor =>
           \/ i \in Range(found)
           \/ HasMore /\ \A n \in DOMAIN found : Older(i, found[n])

PageInv ==
  /\ TypeOK
  /\ IsFiniteSet(rows)
  /\ FoundInOrder
  /\ PagesInOrder
  /\ Parted
  /\ Covered
  /\ NothingSkipped

LEMMA InitPageInv == Init => PageInv
<1> SUFFICES ASSUME Init PROVE PageInv
  OBVIOUS
<1>1. DOMAIN <<>> = {} /\ <<>> \in Seq({})
  BY EmptySeq
<1>2. TypeOK
  <2>1. found \in Seq(rows) /\ shown \in Seq(rows)
    BY <1>1 DEF Init
  <2>2. clock \in 1 .. MaxTime
    BY PageAssumption DEF Init
  <2>3. at \in [Id -> 0 .. clock]
    BY DEF Init
  <2> QED
    BY <2>1, <2>2, <2>3 DEF Init, TypeOK
<1>3. IsFiniteSet(rows)
  BY FS_EmptySet DEF Init
<1> QED
  BY <1>1, <1>2, <1>3
     DEF Init, PageInv, FoundInOrder, PagesInOrder, Parted, Covered, NothingSkipped

\* Messages are sent while the client reads: rows are added, and those there
\* are keep their time.
LEMMA SendingPageInv ==
  ASSUME PageInv, UNCHANGED pageVars, TypeOK', IsFiniteSet(rows'),
         \A i \in rows : at'[i] = at[i]
  PROVE  PageInv'
<1>1. UNCHANGED <<pc, cursor, found, shown, start, cuts>>
  BY DEF pageVars
<1>2. /\ \A n \in DOMAIN found : found[n] \in rows
      /\ \A n \in DOMAIN shown : shown[n] \in rows
      /\ start \subseteq rows
  <2>1. found \in Seq(rows) /\ shown \in Seq(rows) /\ start \subseteq rows
    BY DEF PageInv, TypeOK
  <2> QED
    BY <2>1, LenProperties, ElementOfSeq
<1>3. \A i, j \in rows : Older(i, j)' <=> Older(i, j)
  BY DEF Older
<1>4. FoundInOrder' /\ PagesInOrder'
  BY <1>1, <1>2, <1>3 DEF PageInv, FoundInOrder, PagesInOrder
<1>5. Parted'
  BY <1>1, <1>2 DEF PageInv, Parted
<1>6. HasMore' = HasMore
  BY <1>1 DEF HasMore
<1>7. Covered'
  BY <1>1, <1>2, <1>3, <1>6 DEF PageInv, Covered
<1>8. NothingSkipped'
  BY <1>1, <1>2 DEF PageInv, NothingSkipped
<1> QED
  BY <1>4, <1>5, <1>7, <1>8 DEF PageInv

LEMMA TickPageInv ==
  ASSUME PageInv, Tick
  PROVE  PageInv'
<1>1. TypeOK'
  BY PageAssumption DEF PageInv, TypeOK, Tick, pageVars
<1> QED
  BY <1>1, SendingPageInv DEF Tick, PageInv

LEMMA StampPageInv ==
  ASSUME PageInv, NEW i \in Id, Stamp(i)
  PROVE  PageInv'
<1>1. /\ at \in [Id -> 0 .. clock] /\ rows \subseteq {j \in Id : at[j] > 0}
      /\ clock \in 1 .. MaxTime
      /\ at[i] = 0 /\ at' = [at EXCEPT ![i] = clock]
      /\ UNCHANGED <<clock, rows>> /\ UNCHANGED pageVars
  BY DEF PageInv, TypeOK, Stamp
<1>2. i \notin rows /\ \A j \in rows : at'[j] = at[j]
  BY <1>1
<1>3. at' \in [Id -> 0 .. clock]
  BY <1>1, PageAssumption
<1>4. rows \subseteq {j \in Id : at'[j] > 0}
  BY <1>1, <1>2
<1>5. TypeOK'
  BY <1>1, <1>3, <1>4 DEF PageInv, TypeOK, pageVars
<1> QED
  BY <1>1, <1>2, <1>5, SendingPageInv DEF PageInv

LEMMA InsertPageInv ==
  ASSUME PageInv, NEW i \in Id, Insert(i)
  PROVE  PageInv'
<1>1. /\ rows' = rows \cup {i} /\ at[i] > 0
      /\ UNCHANGED <<clock, at>> /\ UNCHANGED pageVars
  BY DEF Insert
<1>2. IsFiniteSet(rows')
  BY <1>1, FS_AddElement DEF PageInv
<1>3. found \in Seq(rows') /\ shown \in Seq(rows')
  BY <1>1, SeqMonotonic DEF PageInv, TypeOK
<1>4. TypeOK'
  BY <1>1, <1>3 DEF PageInv, TypeOK, pageVars
<1> QED
  BY <1>1, <1>2, <1>4, SendingPageInv

LEMMA RequestPageInv ==
  ASSUME PageInv, Request
  PROVE  PageInv'
<1>1. /\ pc = "idle" /\ pc' = "query"
      /\ UNCHANGED <<clock, at, rows, cursor, found, shown, start, cuts>>
  BY DEF Request, sendVars
<1>2. TypeOK'
  BY <1>1 DEF PageInv, TypeOK
<1>3. FoundInOrder' /\ PagesInOrder'
  BY <1>1 DEF PageInv, FoundInOrder, PagesInOrder, Older
<1> QED
  BY <1>1, <1>2, <1>3 DEF PageInv, Parted, Covered, NothingSkipped

\* findMany finds what is before the cursor, newest first.
LEMMA QueryPageInv ==
  ASSUME PageInv, Query
  PROVE  PageInv'
<1>1. /\ pc = "query" /\ pc' = "reply"
      /\ found' = Newest(Before)
      /\ start' = IF cursor = 0 THEN rows ELSE start
      /\ UNCHANGED <<clock, at, rows, cursor, shown, cuts>>
  BY DEF Query, sendVars
<1>2. /\ TypeOK /\ IsFiniteSet(rows) /\ rows \in SUBSET Id /\ start \subseteq rows
      /\ cursor \in Nat /\ \A i \in rows : at[i] \in Nat
  BY PageAssumption DEF PageInv, TypeOK
<1>3. Before \in SUBSET rows
  BY DEF Before
<1>4. IsFiniteSet(Before) /\ Before \in SUBSET Id
  BY <1>2, <1>3, FS_Subset
<1>5. /\ found' \in Seq(Before)
      /\ Len(found') <= Limit + 1
      /\ \A m, n \in DOMAIN found' : m < n => Older(found'[n], found'[m])
      /\ \A i \in Before : \/ i \in Range(found')
                           \/ /\ Len(found') > Limit
                              /\ \A n \in DOMAIN found' : Older(i, found'[n])
  BY <1>1, <1>2, <1>4, NewestList
<1>6. \A n \in DOMAIN found' : found'[n] \in Before
  BY <1>5, LenProperties, ElementOfSeq
<1>7. TypeOK'
  <2>1. found' \in Seq(rows)
    BY <1>3, <1>5, SeqMonotonic
  <2> QED
    BY <1>1, <1>2, <2>1 DEF TypeOK
<1>8. FoundInOrder' /\ PagesInOrder'
  BY <1>1, <1>5 DEF PageInv, FoundInOrder, PagesInOrder, Older
<1>9. Parted'
  BY <1>1, <1>5, <1>6 DEF PageInv, Parted, Before
<1>10. Covered'
  <2>1. cursor > 0 => \A i \in start : at[i] >= cursor => i \in Range(shown) \/ at[i] \in cuts
    BY <1>1 DEF PageInv, Covered
  <2>2. \A i \in start' : cursor = 0 \/ at[i] < cursor => i \in Before
    BY <1>1, <1>2 DEF Before
  <2>3. HasMore' <=> Len(found') > Limit
    BY DEF HasMore
  <2>4. cursor > 0 => start' = start
    BY <1>1, <1>2
  <2> QED
    BY <1>1, <1>5, <2>1, <2>2, <2>3, <2>4 DEF Covered, Older
<1> QED
  BY <1>1, <1>2, <1>7, <1>8, <1>9, <1>10 DEF PageInv, NothingSkipped

\* The page is what was found, reversed, without the extra row.
LEMMA PageList ==
  ASSUME PageInv
  PROVE  LET n == IF HasMore THEN Limit ELSE Len(found) IN
         /\ n \in Nat /\ n <= Len(found) /\ (HasMore => n = Limit /\ n > 0)
         /\ Page \in Seq(rows) /\ Len(Page) = n /\ DOMAIN Page = 1 .. n
         /\ \A i \in 1 .. n : Page[i] = found[n - i + 1]
<1> DEFINE n == IF HasMore THEN Limit ELSE Len(found)
           list == SubSeq(found, 1, n)
<1>1. /\ found \in Seq(rows) /\ Len(found) \in Nat
      /\ \A i \in 1 .. Len(found) : found[i] \in rows
  BY LenProperties, ElementOfSeq DEF PageInv, TypeOK
<1>2. n \in Nat /\ n <= Len(found) /\ (HasMore => n = Limit /\ n > 0)
  BY <1>1, PageAssumption DEF HasMore
<1>3. Page = Reverse(list)
  BY DEF Page
<1> HIDE DEF n
<1>4. /\ list \in Seq(rows) /\ Len(list) = n
      /\ \A i \in 1 .. n : list[i] = found[i]
  <2>1. \A i \in 1 .. n : found[i] \in rows
    BY <1>1, <1>2
  <2>2. /\ list \in Seq(rows)
        /\ Len(list) = IF 1 <= n THEN n - 1 + 1 ELSE 0
        /\ \A i \in 1 .. n - 1 + 1 : list[i] = found[1 + i - 1]
    BY <1>1, <1>2, <2>1, SubSeqProperties
  <2> QED
    BY <1>2, <2>2
<1> HIDE DEF list
<1>5. Reverse(list) = [i \in 1 .. n |-> list[(n - i) + 1]]
  BY <1>4 DEF Reverse
<1>6. \A i \in 1 .. n : (n - i) + 1 \in 1 .. n
  BY <1>2
<1>7. \A i \in 1 .. n : Reverse(list)[i] = found[n - i + 1] /\ found[n - i + 1] \in rows
  BY <1>1, <1>2, <1>4, <1>5, <1>6
<1>8. Reverse(list) \in [1 .. n -> rows]
  BY <1>5, <1>7
<1>9. Page \in Seq(rows) /\ Len(Page) = n /\ DOMAIN Page = 1 .. n
  BY <1>2, <1>3, <1>8, FunctionIsSequence
<1> QED
  BY <1>2, <1>3, <1>7, <1>9 DEF n

\* The client's list with the page before it.
LEMMA ShownList ==
  ASSUME PageInv, Reply
  PROVE  /\ shown' \in Seq(rows)
         /\ DOMAIN shown' = 1 .. Len(Page) + Len(shown)
         /\ Len(Page) \in Nat /\ Len(shown) \in Nat
         /\ \A i \in 1 .. Len(Page) + Len(shown) :
              shown'[i] = IF i <= Len(Page) THEN Page[i] ELSE shown[i - Len(Page)]
         /\ Range(Page) \subseteq Range(shown') /\ Range(shown) \subseteq Range(shown')
<1>1. Page \in Seq(rows) /\ shown \in Seq(rows) /\ shown' = Page \o shown
  BY PageList DEF PageInv, TypeOK, Reply
<1>2. /\ Len(Page) \in Nat /\ DOMAIN Page = 1 .. Len(Page)
      /\ Len(shown) \in Nat /\ DOMAIN shown = 1 .. Len(shown)
  BY <1>1, LenProperties
<1>3. /\ shown' \in Seq(rows)
      /\ Len(shown') = Len(Page) + Len(shown)
      /\ \A i \in 1 .. Len(Page) + Len(shown) :
           shown'[i] = IF i <= Len(Page) THEN Page[i] ELSE shown[i - Len(Page)]
  BY <1>1, ConcatProperties
<1>4. DOMAIN shown' = 1 .. Len(Page) + Len(shown)
  BY <1>3, LenProperties
<1>5. ASSUME NEW i \in DOMAIN Page
      PROVE  i \in DOMAIN shown' /\ shown'[i] = Page[i]
  BY <1>2, <1>3, <1>4
<1>6. ASSUME NEW i \in DOMAIN shown
      PROVE  i + Len(Page) \in DOMAIN shown' /\ shown'[i + Len(Page)] = shown[i]
  <2>1. /\ i + Len(Page) \in 1 .. Len(Page) + Len(shown)
        /\ ~ (i + Len(Page) <= Len(Page)) /\ i + Len(Page) - Len(Page) = i
    BY <1>2
  <2> QED
    BY <1>3, <1>4, <2>1
<1> QED
  BY <1>2, <1>3, <1>4, <1>5, <1>6 DEF Range

LEMMA ReplyOrder ==
  ASSUME PageInv, Reply
  PROVE  PagesInOrder'
<1> DEFINE n == Len(Page)
<1>1. pc = "reply" /\ UNCHANGED at
  BY DEF Reply, sendVars
<1>2. /\ n \in Nat /\ n <= Len(found)
      /\ \A i \in 1 .. n : Page[i] = found[n - i + 1]
      /\ DOMAIN found = 1 .. Len(found) /\ Len(found) \in Nat
      /\ DOMAIN shown = 1 .. Len(shown) /\ Len(shown) \in Nat
  BY PageList, LenProperties DEF PageInv, TypeOK
<1>3. /\ DOMAIN shown' = 1 .. n + Len(shown)
      /\ \A i \in 1 .. n + Len(shown) :
           shown'[i] = IF i <= n THEN Page[i] ELSE shown[i - n]
  BY ShownList
<1>4. /\ cursor \in Nat
      /\ \A i \in DOMAIN found : at[found[i]] \in Nat
      /\ \A i \in DOMAIN shown : at[shown[i]] \in Nat
  <2>1. \A i \in rows : at[i] \in Nat
    BY PageAssumption DEF PageInv, TypeOK
  <2>2. /\ \A i \in DOMAIN found : found[i] \in rows
        /\ \A i \in DOMAIN shown : shown[i] \in rows
    BY LenProperties, ElementOfSeq DEF PageInv, TypeOK
  <2>3. cursor \in Nat
    BY PageAssumption DEF PageInv, TypeOK
  <2> QED
    BY <2>1, <2>2, <2>3
<1> HIDE DEF n
<1> SUFFICES ASSUME NEW i \in DOMAIN shown', NEW j \in DOMAIN shown', i < j
             PROVE  Older(shown'[i], shown'[j])
  BY <1>1 DEF PagesInOrder, Older
<1>5. i \in Nat /\ j \in Nat /\ 1 <= i /\ j <= n + Len(shown)
  BY <1>2, <1>3
<1>6. ASSUME NEW x \in Nat, 1 <= x, x <= n
      PROVE  /\ n - x + 1 \in DOMAIN found
             /\ shown'[x] = found[n - x + 1]
  <2>1. /\ n \in Nat /\ n <= Len(found) /\ Len(found) \in Nat /\ Len(shown) \in Nat
        /\ DOMAIN found = 1 .. Len(found)
    BY <1>2
  <2>2. x \in 1 .. n /\ x \in 1 .. n + Len(shown) /\ n - x + 1 \in 1 .. Len(found)
    BY <1>6, <2>1
  <2>3. shown'[x] = Page[x]
    BY <1>3, <1>6, <2>2
  <2>4. Page[x] = found[n - x + 1]
    BY <1>2, <2>2
  <2> QED
    BY <2>1, <2>2, <2>3, <2>4
<1>7. ASSUME NEW x \in Nat, n < x, x <= n + Len(shown)
       PROVE  x - n \in DOMAIN shown /\ shown'[x] = shown[x - n]
  <2>1. n \in Nat /\ Len(shown) \in Nat /\ DOMAIN shown = 1 .. Len(shown)
    BY <1>2
  <2>2. x \in 1 .. n + Len(shown) /\ ~ (x <= n) /\ x - n \in 1 .. Len(shown)
    BY <1>7, <2>1
  <2> QED
    BY <1>3, <2>1, <2>2
<1>8. n \in Nat /\ Len(shown) \in Nat
  BY <1>2
<1>9. CASE j <= n
  <2>1. i <= n /\ 1 <= j /\ n - j + 1 < n - i + 1
    BY <1>5, <1>9, <1>8
  <2>2. /\ n - i + 1 \in DOMAIN found /\ n - j + 1 \in DOMAIN found
        /\ shown'[i] = found[n - i + 1] /\ shown'[j] = found[n - j + 1]
    BY <1>5, <1>9, <1>6, <2>1
  <2>3. Older(found[n - i + 1], found[n - j + 1])
    BY <2>1, <2>2 DEF PageInv, FoundInOrder
  <2> QED
    BY <2>2, <2>3
<1>10. CASE i <= n /\ n < j
  <2>1. n - i + 1 \in DOMAIN found /\ j - n \in DOMAIN shown
    BY <1>5, <1>10, <1>6, <1>7
  <2>2. shown'[i] = found[n - i + 1] /\ shown'[j] = shown[j - n]
    BY <1>5, <1>10, <1>6, <1>7
  <2>3. cursor > 0
    BY <1>1, <1>2, <1>4, <2>1, EmptySeq DEF PageInv, Parted
  <2>4. at[found[n - i + 1]] < cursor /\ cursor <= at[shown[j - n]]
    BY <1>1, <2>1, <2>3 DEF PageInv, Parted
  <2> QED
    BY <1>4, <2>1, <2>2, <2>4 DEF Older
<1>11. CASE n < i
  <2>1. n < j /\ i <= n + Len(shown) /\ i - n < j - n
    BY <1>5, <1>11, <1>8
  <2>2. /\ i - n \in DOMAIN shown /\ j - n \in DOMAIN shown
        /\ shown'[i] = shown[i - n] /\ shown'[j] = shown[j - n]
    BY <1>5, <1>11, <1>7, <2>1
  <2>3. Older(shown[i - n], shown[j - n])
    BY <2>1, <2>2 DEF PageInv, PagesInOrder
  <2> QED
    BY <2>2, <2>3
<1> QED
  BY <1>2, <1>5, <1>9, <1>10, <1>11

\* The next cursor is the time of the oldest message the client then has.
LEMMA NextCursorMeans ==
  ASSUME PageInv, Reply, HasMore
  PROVE  /\ NextCursor = at[found[Limit]] /\ NextCursor \in 1 .. clock
         /\ \A i \in DOMAIN shown' : NextCursor <= at[shown'[i]]
         /\ Limit \in DOMAIN found
<1>1. /\ Limit \in Nat \ {0} /\ Len(Page) = Limit /\ Limit <= Len(found)
      /\ Page[1] = found[Limit]
  <2>1. /\ Limit \in Nat \ {0} /\ Len(Page) = Limit /\ Limit <= Len(found)
        /\ \A i \in 1 .. Limit : Page[i] = found[Limit - i + 1]
    BY PageList, PageAssumption
  <2>2. 1 \in 1 .. Limit /\ Limit - 1 + 1 = Limit
    BY <2>1
  <2> QED
    BY <2>1, <2>2
<1>2. Limit \in DOMAIN found
  BY <1>1, LenProperties DEF PageInv, TypeOK
<1>3. found[Limit] \in rows
  BY <1>2, LenProperties, ElementOfSeq DEF PageInv, TypeOK
<1>4. \A i \in rows : at[i] \in 1 .. clock
  BY PageAssumption DEF PageInv, TypeOK
<1>5. /\ shown' \in Seq(rows)
      /\ DOMAIN shown' = 1 .. Limit + Len(shown) /\ Len(shown) \in Nat
      /\ \A i \in 1 .. Limit + Len(shown) : i <= Limit => shown'[i] = Page[i]
  BY <1>1, ShownList
<1>6. 1 \in DOMAIN shown' /\ shown'[1] = found[Limit]
  BY <1>1, <1>5
<1>7. ASSUME NEW i \in DOMAIN shown'
      PROVE  at[found[Limit]] <= at[shown'[i]]
  <2>1. shown'[i] \in rows /\ at[shown'[i]] \in 1 .. clock
    BY <1>4, <1>5, LenProperties, ElementOfSeq
  <2>2. CASE i = 1
    BY <1>3, <1>4, <1>6, <2>2
  <2>3. CASE i # 1
    <3>1. 1 < i
      BY <1>5, <2>3
    <3>2. UNCHANGED at
      BY DEF Reply, sendVars
    <3>3. Older(shown'[1], shown'[i])
      BY <1>6, <3>1, <3>2, ReplyOrder DEF PagesInOrder, Older
    <3> QED
      BY <1>3, <1>4, <1>6, <2>1, <3>3 DEF Older
  <2> QED
    BY <2>2, <2>3
<1> QED
  BY <1>1, <1>2, <1>3, <1>4, <1>7 DEF NextCursor

LEMMA ReplyPageInv ==
  ASSUME PageInv, Reply
  PROVE  PageInv'
<1>1. /\ pc = "reply" /\ found' = <<>>
      /\ UNCHANGED <<clock, at, rows, start>>
      /\ HasMore => /\ pc' = "idle" /\ cursor' = NextCursor
                    /\ cuts' = cuts \cup {NextCursor}
      /\ ~ HasMore => pc' = "end" /\ UNCHANGED <<cursor, cuts>>
  BY DEF Reply, sendVars
<1>2. TypeOK /\ IsFiniteSet(rows)
  BY DEF PageInv
<1>3. DOMAIN <<>> = {} /\ <<>> \in Seq(rows)
  BY EmptySeq
<1>4. TypeOK'
  <2>1. shown' \in Seq(rows)
    BY ShownList
  <2>2. HasMore => NextCursor \in 1 .. clock
    BY NextCursorMeans
  <2>3. cursor' \in 0 .. clock /\ cuts' \subseteq 1 .. clock
    <3>1. cursor \in 0 .. clock /\ cuts \subseteq 1 .. clock /\ 1 .. clock \subseteq 0 .. clock
      BY <1>2, PageAssumption DEF TypeOK
    <3> QED
      BY <1>1, <2>2, <3>1
  <2> QED
    BY <1>1, <1>2, <1>3, <2>1, <2>3 DEF TypeOK
<1>5. FoundInOrder' /\ PagesInOrder'
  BY <1>1, <1>3, ReplyOrder DEF FoundInOrder
<1>6. Parted'
  <2>1. CASE HasMore
    <3>1. cursor' > 0 /\ \A i \in DOMAIN shown' : cursor' <= at[shown'[i]]
      BY <1>1, <1>2, <2>1, NextCursorMeans DEF TypeOK
    <3> QED
      BY <1>1, <1>4, <2>1, <3>1 DEF Parted, TypeOK
  <2>2. CASE ~ HasMore
    BY <1>1, <2>2 DEF Parted
  <2> QED
    BY <2>1, <2>2
\* of the messages the client began with, the page has those not cut
<1>7. ASSUME NEW i \in start, HasMore => at[i] >= NextCursor
      PROVE  i \in Range(shown') \/ at[i] \in cuts'
  <2>1. /\ i \in rows /\ i \in Id /\ at[i] \in Nat /\ cursor \in Nat
        /\ found \in Seq(rows)
        /\ cuts \subseteq cuts'
    BY <1>1, <1>2, PageAssumption DEF TypeOK
  <2>2. CASE cursor > 0 /\ at[i] >= cursor
    <3>1. i \in Range(shown) \/ at[i] \in cuts
      BY <1>1, <2>2 DEF PageInv, Covered
    <3> QED
      BY <2>1, <3>1, ShownList
  <2>3. CASE ~ (cursor > 0 /\ at[i] >= cursor)
    <3>1. \/ i \in Range(found)
          \/ HasMore /\ \A n \in DOMAIN found : Older(i, found[n])
      BY <1>1, <2>1, <2>3 DEF PageInv, Covered
    <3>2. DOMAIN found = 1 .. Len(found) /\ Len(found) \in Nat /\ Limit \in Nat
          /\ Len(found) <= Limit + 1 /\ (HasMore => Len(found) > Limit)
      BY <1>1, <2>1, LenProperties, PageAssumption DEF PageInv, Parted, HasMore
    <3>3. ASSUME HasMore, Older(i, found[Limit])
          PROVE  at[i] \in cuts'
      <4>1. NextCursor = at[found[Limit]] /\ NextCursor \in 1 .. clock
        BY <3>3, NextCursorMeans
      <4>2. at[i] <= NextCursor
        BY <2>1, <3>3, <4>1 DEF Older
      <4>3. at[i] = NextCursor
        BY <1>2, <1>7, <2>1, <3>3, <4>1, <4>2 DEF TypeOK
      <4> QED
        BY <1>1, <3>3, <4>3
    <3>4. CASE i \in Range(found)
      <4>1. PICK m \in DOMAIN found : i = found[m]
        BY <3>4 DEF Range
      <4> DEFINE n == Len(Page)
      <4>2. /\ n = IF HasMore THEN Limit ELSE Len(found)
            /\ \A x \in 1 .. n : Page[x] = found[n - x + 1]
            /\ DOMAIN Page = 1 .. n /\ n \in Nat
        BY PageList
      <4>3. m \in Nat /\ 1 <= m /\ m <= Len(found)
        BY <3>2, <4>1
      <4> HIDE DEF n
      <4>4. CASE m <= n
        <5>1. n - m + 1 \in 1 .. n /\ n - (n - m + 1) + 1 = m
          <6>1. n \in Nat
            BY <4>2
          <6> QED
            BY <4>4, <4>3, <6>1
        <5>2. i \in Range(Page)
          BY <4>1, <4>2, <5>1 DEF Range
        <5> QED
          BY <5>2, ShownList
      <4>5. CASE m > n
        <5>1. HasMore /\ Limit < m
          <6>1. n = IF HasMore THEN Limit ELSE Len(found)
            BY <4>2
          <6>2. CASE HasMore
            <7>1. n = Limit
              BY <6>1, <6>2
            <7> QED
              BY <4>5, <6>2, <7>1
          <6>3. CASE ~ HasMore
            <7>1. n = Len(found) /\ Len(found) \in Nat
              BY <6>1, <6>3, <3>2
            <7>2. FALSE
              BY <4>5, <4>3, <7>1
            <7> QED
              BY <7>2
          <6> QED
            BY <6>2, <6>3
        <5>2. Older(i, found[Limit])
          BY <4>1, <5>1, NextCursorMeans DEF PageInv, FoundInOrder
        <5> QED
          BY <3>3, <5>1, <5>2
      <4> QED
        <5>1. n \in Nat
          BY <4>2
        <5> QED
          BY <4>4, <4>5, <4>3, <5>1
    <3>5. CASE HasMore /\ \A n \in DOMAIN found : Older(i, found[n])
      BY <3>3, <3>5, NextCursorMeans
    <3> QED
      BY <3>1, <3>4, <3>5
  <2> QED
    BY <2>2, <2>3
<1>8. Covered'
  <2>1. CASE HasMore
    BY <1>1, <1>7, <2>1 DEF Covered
  <2>2. CASE ~ HasMore
    BY <1>1, <2>2 DEF Covered
  <2> QED
    BY <2>1, <2>2
<1>9. NothingSkipped'
  BY <1>1, <1>7 DEF NothingSkipped
<1> QED
  BY <1>1, <1>2, <1>4, <1>5, <1>6, <1>8, <1>9 DEF PageInv

LEMMA ReloadPageInv ==
  ASSUME PageInv, Reload
  PROVE  PageInv'
<1>1. /\ pc' = "idle" /\ cursor' = 0 /\ shown' = <<>> /\ start' = {}
      /\ UNCHANGED <<clock, at, rows, found>>
  BY DEF Reload, sendVars
<1>2. DOMAIN <<>> = {} /\ <<>> \in Seq(rows)
  BY EmptySeq
<1>3. TypeOK'
  BY <1>1, <1>2, PageAssumption DEF PageInv, TypeOK, Reload
<1>4. FoundInOrder' /\ PagesInOrder'
  BY <1>1, <1>2 DEF PageInv, FoundInOrder, PagesInOrder, Older
<1> QED
  BY <1>1, <1>3, <1>4 DEF PageInv, Parted, Covered, NothingSkipped

LEMMA NextPageInv == PageInv /\ [Next]_vars => PageInv'
<1> SUFFICES ASSUME PageInv, [Next]_vars PROVE PageInv'
  OBVIOUS
<1>1. CASE Tick
  BY <1>1, TickPageInv
<1>2. CASE \E i \in Id : Stamp(i) \/ Insert(i)
  BY <1>2, StampPageInv, InsertPageInv
<1>3. CASE Request \/ Query
  BY <1>3, RequestPageInv, QueryPageInv
<1>4. CASE Reply \/ Reload
  BY <1>4, ReplyPageInv, ReloadPageInv
<1>5. CASE UNCHANGED vars
  <2>1. TypeOK' /\ IsFiniteSet(rows')
    BY <1>5 DEF vars, sendVars, pageVars, PageInv, TypeOK
  <2> QED
    BY <1>5, <2>1, SendingPageInv DEF vars, sendVars
<1> QED
  BY <1>1, <1>2, <1>3, <1>4, <1>5 DEF Next

-----------------------------------------------------------------------------
(***************************************************************************)
(* Theorems.                                                               *)
(***************************************************************************)

\* The inductive invariant holds throughout.
THEOREM PageInvariance == Spec => []PageInv
BY InitPageInv, NextPageInv, PTL DEF Spec

\* The types; a cursor is the time of a message (getHistory).
THEOREM TypeCorrect == Spec => []TypeOK
<1>1. PageInv => TypeOK
  BY DEF PageInv
<1> QED
  BY <1>1, PageInvariance, PTL

\* However messages are sent meanwhile, the pages put before each other are
\* in the order of the conversation, and have no message twice.
THEOREM OrderCorrect == Spec => []PagesInOrder
<1>1. PageInv => PagesInOrder
  BY DEF PageInv
<1> QED
  BY <1>1, PageInvariance, PTL

\* A client that has read all pages has each message there was at its first
\* one, but those stamped in a millisecond that a page was cut at.
THEOREM PagesCorrect == Spec => []NothingSkipped
<1>1. PageInv => NothingSkipped
  BY DEF PageInv
<1> QED
  BY <1>1, PageInvariance, PTL

=============================================================================
