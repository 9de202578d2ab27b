---------------------------- MODULE ReportsProofs ----------------------------
(***************************************************************************)
(* Proofs about Reports and the lists of Notifications it is built on, for *)
(* any users, connections, reports and caps.                               *)
(***************************************************************************)
EXTENDS Reports, SequenceTheorems, FiniteSetTheorems, TLAPS

-----------------------------------------------------------------------------
(***************************************************************************)
(* The lists of notification.store.ts.  Reports reaches them through four  *)
(* kinds of steps only.                                                    *)
(***************************************************************************)
ShowsList ==
  \A b \in listed :
    LET u == Owner[b] IN
    {x \in shown[b] : x.id + MaxPerUser > made[u]} = RowsOf(inbox[u])

SameMarks ==
  \A b, c \in listed : \A x \in shown[b], y \in shown[c] :
    Owner[b] = Owner[c] /\ x.id = y.id => x.read = y.read

NotesInv == NoteTypeOK /\ KeepsNewest /\ ShowsList

NotesStep ==
  \/ UNCHANGED noteVars
  \/ BellRequest
  \/ \E us \in SUBSET User : Notify(us)
  \/ ForgetNotes

\* A function on 1 .. n is a sequence of that length.
LEMMA FunctionIsSequence ==
  ASSUME NEW S, NEW n \in Nat, NEW f \in [1 .. n -> S]
  PROVE  f \in Seq(S) /\ Len(f) = n
<1>1. f \in Seq(S)
  BY SeqDef
<1>2. DOMAIN f = 1 .. n /\ DOMAIN f = 1 .. Len(f) /\ Len(f) \in Nat
  BY <1>1, LenProperties
<1>3. Len(f) = n
  BY <1>2
<1> QED
  BY <1>1, <1>3

\* What unshift and the cut make of a list: the new row comes first, and the
\* last is dropped when the list was full.
LEMMA PushedList ==
  ASSUME NEW row \in Row, NEW list \in Seq(Row), Len(list) <= MaxPerUser
  PROVE  /\ Pushed(row, list) \in Seq(Row)
         /\ Len(Pushed(row, list)) = Capped(Len(list) + 1)
         /\ \A i \in 1 .. Capped(Len(list) + 1) :
              Pushed(row, list)[i] = IF i = 1 THEN row ELSE list[i - 1]
<1> DEFINE l == <<row>> \o list
           n == Capped(Len(list) + 1)
<1>1. /\ <<row>> \in Seq(Row) /\ Len(<<row>>) = 1 /\ <<row>>[1] = row
      /\ Len(list) \in Nat /\ MaxPerUser \in Nat \ {0}
  BY CapAssumption
<1>2. /\ l \in Seq(Row) /\ Len(l) = Len(list) + 1
      /\ \A i \in 1 .. Len(list) + 1 :
           l[i] = IF i <= 1 THEN <<row>>[i] ELSE list[i - 1]
  BY <1>1, ConcatProperties
<1>3. n \in Nat /\ 1 <= n /\ n <= Len(l)
  BY <1>1, <1>2 DEF Capped
<1>4. \A i \in 1 .. n : l[i] \in Row
  BY <1>2, <1>3, ElementOfSeq
<1>5. /\ SubSeq(l, 1, n) \in Seq(Row)
      /\ Len(SubSeq(l, 1, n)) = n
      /\ \A i \in 1 .. n : SubSeq(l, 1, n)[i] = l[i]
  <2> HIDE DEF l, n
  <2>1. /\ SubSeq(l, 1, n) \in Seq(Row)
        /\ Len(SubSeq(l, 1, n)) = IF 1 <= n THEN n - 1 + 1 ELSE 0
        /\ \A i \in 1 .. n - 1 + 1 : SubSeq(l, 1, n)[i] = l[1 + i - 1]
    BY <1>3, <1>4, SubSeqProperties
  <2> QED
    BY <1>3, <2>1
<1>6. Pushed(row, list) = SubSeq(l, 1, n)
  BY <1>2 DEF Pushed
<1>7. \A i \in 1 .. n : l[i] = IF i = 1 THEN row ELSE list[i - 1]
  BY <1>1, <1>2, <1>3
<1> QED
  BY <1>5, <1>6, <1>7

LEMMA NotesInit == NoteInit => NotesInv
<1> SUFFICES ASSUME NoteInit PROVE NotesInv
  OBVIOUS
<1>1. << >> \in Seq(Row) /\ Len(<< >>) = 0 /\ DOMAIN << >> = {}
  OBVIOUS
<1> QED
  BY <1>1, CapAssumption
     DEF NoteInit, NotesInv, NoteTypeOK, KeepsNewest, ShowsList, Capped

\* What a user's list and a bell must satisfy, so that steps can be looked at
\* one user and one bell at a time.
ListOK(u) ==
  /\ inbox[u] \in Seq(Row)
  /\ Len(inbox[u]) = Capped(made[u])
  /\ \A i \in 1 .. Len(inbox[u]) : inbox[u][i].id = made[u] - i + 1

BellOK(b) ==
  IF b \in listed
    THEN {x \in shown[b] : x.id + MaxPerUser > made[Owner[b]]} =
           {inbox[Owner[b]][i] : i \in 1 .. Len(inbox[Owner[b]])}
    ELSE shown[b] = {}

NotesShape ==
  /\ firstUser \in User \cup {None}
  /\ DOMAIN inbox = User /\ inbox = [u \in User |-> inbox[u]]
  /\ listed \subseteq open /\ open \subseteq Bell
  /\ shown \in [Bell -> SUBSET Row]
  /\ made \in [User -> Nat]

LEMMA NotesByParts ==
  NotesInv <=> /\ NotesShape
               /\ \A u \in User : ListOK(u)
               /\ \A b \in Bell : BellOK(b)
<1>1. ASSUME NEW u \in User, inbox[u] \in Seq(Row)
      PROVE  /\ DOMAIN inbox[u] = 1 .. Len(inbox[u])
             /\ Len(inbox[u]) \in Nat
             /\ RowsOf(inbox[u]) = {inbox[u][i] : i \in 1 .. Len(inbox[u])}
  BY <1>1, LenProperties DEF RowsOf
<1>2. ASSUME NotesInv
      PROVE  /\ NotesShape
             /\ \A u \in User : ListOK(u)
             /\ \A b \in Bell : BellOK(b)
  <2>1. NotesShape /\ \A u \in User : inbox[u] \in Seq(Row)
    BY <1>2 DEF NotesInv, NoteTypeOK, NotesShape
  <2>2. \A u \in User : ListOK(u)
    BY <1>1, <1>2, <2>1 DEF NotesInv, KeepsNewest, ListOK
  <2>3. \A b \in Bell : BellOK(b)
    BY <1>1, <1>2, <2>1, BellAssumption
       DEF NotesInv, NoteTypeOK, ShowsList, BellOK
  <2> QED
    BY <2>1, <2>2, <2>3
<1>3. ASSUME NotesShape, \A u \in User : ListOK(u), \A b \in Bell : BellOK(b)
      PROVE  NotesInv
  <2>1. \A u \in User : inbox[u] \in Seq(Row)
    BY <1>3 DEF ListOK
  <2>2. \A u \in User : Len(inbox[u]) <= MaxPerUser
    <3> TAKE u \in User
    <3>1. made[u] \in Nat /\ MaxPerUser \in Nat
      BY <1>3, CapAssumption DEF NotesShape
    <3> QED
      BY <1>3, <3>1 DEF ListOK, Capped
  <2>3. NoteTypeOK
    BY <1>3, <2>1, <2>2 DEF NotesShape, NoteTypeOK, BellOK
  <2>4. KeepsNewest
    BY <1>1, <1>3, <2>1 DEF ListOK, KeepsNewest
  <2>5. ShowsList
    BY <1>1, <1>3, <2>1, BellAssumption DEF NotesShape, BellOK, ShowsList
  <2> QED
    BY <2>3, <2>4, <2>5 DEF NotesInv
<1> QED
  BY <1>2, <1>3

\* The same after a step.
LEMMA NotesByPartsAfter ==
  (/\ NotesShape
   /\ \A u \in User : ListOK(u)
   /\ \A b \in Bell : BellOK(b))' => NotesInv'
BY NotesByParts, PTL

\* createNotification for some users.
LEMMA NotifyKeeps ==
  ASSUME NotesInv, NEW us \in SUBSET User, Notify(us)
  PROVE  NotesInv'
<1> DEFINE New(u) == [id |-> made[u] + 1, read |-> FALSE]
<1>1. /\ NotesShape
      /\ \A u \in User : ListOK(u)
      /\ \A b \in Bell : BellOK(b)
      /\ MaxPerUser \in Nat \ {0}
  BY NotesByParts, CapAssumption
<1>2. /\ made' = [u \in User |-> IF u \in us THEN made[u] + 1 ELSE made[u]]
      /\ inbox' = [u \in User |-> IF u \in us THEN Pushed(New(u), inbox[u])
                                  ELSE inbox[u]]
      /\ shown' = [b \in Bell |-> IF b \in listed /\ Owner[b] \in us
                                  THEN shown[b] \cup {New(Owner[b])}
                                  ELSE shown[b]]
      /\ UNCHANGED <<firstUser, open, listed>>
  BY DEF Notify
<1>3. ASSUME NEW u \in User
      PROVE  made[u] \in Nat /\ New(u) \in Row /\ New(u).id = made[u] + 1
  <2>1. made[u] \in Nat
    BY <1>1 DEF NotesShape
  <2> QED
    BY <2>1 DEF Row
<1>4. NotesShape'
  BY <1>1, <1>2, <1>3, BellAssumption DEF NotesShape
<1>5. ASSUME NEW u \in us
      PROVE  /\ inbox'[u] \in Seq(Row)
             /\ Len(inbox'[u]) = Capped(made[u] + 1)
             /\ \A i \in 1 .. Capped(made[u] + 1) :
                  inbox'[u][i] = IF i = 1 THEN New(u) ELSE inbox[u][i - 1]
  <2>1. /\ inbox[u] \in Seq(Row) /\ Len(inbox[u]) = Capped(made[u])
        /\ inbox'[u] = Pushed(New(u), inbox[u]) /\ made[u] \in Nat
    BY <1>1, <1>2, <1>3 DEF ListOK
  <2>2. /\ Len(inbox[u]) <= MaxPerUser
        /\ Capped(Len(inbox[u]) + 1) = Capped(made[u] + 1)
    BY <1>1, <2>1 DEF Capped
  <2> HIDE DEF New
  <2> QED
    BY <1>3, <2>1, <2>2, PushedList
<1>6. ASSUME NEW u \in User
      PROVE  ListOK(u)'
  <2>1. CASE u \in us
    <3>1. made'[u] = made[u] + 1 /\ made[u] \in Nat /\ New(u).id = made[u] + 1
      BY <1>2, <1>3, <2>1
    <3>2. /\ Len(inbox[u]) = Capped(made[u])
          /\ \A i \in 1 .. Len(inbox[u]) : inbox[u][i].id = made[u] - i + 1
      BY <1>1 DEF ListOK
    <3>3. ASSUME NEW i \in 1 .. Capped(made[u] + 1)
          PROVE  inbox'[u][i].id = made[u] + 1 - i + 1
      <4>1. i \in Nat /\ (i # 1 => i - 1 \in 1 .. Len(inbox[u]))
        BY <1>1, <3>1, <3>2 DEF Capped
      <4>2. CASE i = 1
        <5>1. inbox'[u][i] = New(u)
          BY <1>5, <2>1, <4>2
        <5> QED
          BY <3>1, <4>2, <5>1
      <4>3. CASE i # 1
        <5>1. inbox'[u][i] = inbox[u][i - 1]
          BY <1>5, <2>1, <4>3
        <5>2. inbox[u][i - 1].id = made[u] - (i - 1) + 1
          BY <3>2, <4>1, <4>3
        <5> QED
          BY <3>1, <4>1, <5>1, <5>2
      <4> QED
        BY <4>2, <4>3
    <3>4. inbox'[u] \in Seq(Row) /\ Len(inbox'[u]) = Capped(made[u] + 1)
      BY <1>5, <2>1
    <3>5. Len(inbox'[u]) = Capped(made'[u])
      BY <3>1, <3>4
    <3>6. \A i \in 1 .. Len(inbox'[u]) : inbox'[u][i].id = made'[u] - i + 1
      BY <3>1, <3>3, <3>4
    <3> QED
      BY <3>4, <3>5, <3>6 DEF ListOK
  <2>2. CASE u \notin us
    BY <1>1, <1>2, <2>2 DEF ListOK
  <2> QED
    BY <2>1, <2>2
<1>7. ASSUME NEW b \in Bell
      PROVE  BellOK(b)'
  <2> DEFINE u == Owner[b]
  <2>1. u \in User /\ BellOK(b)
    BY <1>1, BellAssumption
  <2>2. CASE b \in listed /\ u \in us
    <3> DEFINE n == made[u]
               len == Len(inbox[u])
               old == {inbox[u][i] : i \in 1 .. len}
    <3>1. /\ n \in Nat /\ made'[u] = n + 1 /\ New(u).id = n + 1
          /\ b \in listed' /\ shown'[b] = shown[b] \cup {New(u)}
          /\ shown[b] \subseteq Row
      BY <1>1, <1>2, <1>3, <2>1, <2>2 DEF NotesShape
    <3>2. /\ len = Capped(n)
          /\ \A i \in 1 .. len : inbox[u][i].id = n - i + 1
      BY <1>1, <2>1 DEF ListOK
    <3>3. {x \in shown[b] : x.id + MaxPerUser > n} = old
      BY <2>1, <2>2 DEF BellOK
    <3>4. {x \in shown[b] : x.id + MaxPerUser > n + 1} =
            {x \in old : x.id + MaxPerUser > n + 1}
      BY <1>1, <3>1, <3>3 DEF Row
    <3>5. {x \in old : x.id + MaxPerUser > n + 1} =
            {inbox[u][i - 1] : i \in 2 .. Capped(n + 1)}
      <4>1. ASSUME NEW i \in 1 .. len
            PROVE  /\ inbox[u][i].id + MaxPerUser > n + 1
                     <=> i + 1 \in 2 .. Capped(n + 1)
                   /\ (i + 1) - 1 = i
        <5>1. inbox[u][i].id = n - i + 1 /\ i \in 1 .. Capped(n)
          BY <3>2
        <5> HIDE DEF n, len
        <5> QED
          BY <1>1, <3>1, <5>1 DEF Capped
      <4>2. \A i \in 2 .. Capped(n + 1) : i - 1 \in 1 .. len
        BY <1>1, <3>1, <3>2 DEF Capped
      <4>3. ASSUME NEW x \in old, x.id + MaxPerUser > n + 1
            PROVE  \E i \in 2 .. Capped(n + 1) : x = inbox[u][i - 1]
        <5>1. PICK i \in 1 .. len : x = inbox[u][i]
          OBVIOUS
        <5>2. i + 1 \in 2 .. Capped(n + 1) /\ (i + 1) - 1 = i
          BY <4>1, <4>3, <5>1
        <5> QED
          BY <5>1, <5>2
      <4>4. ASSUME NEW i \in 2 .. Capped(n + 1)
            PROVE  /\ inbox[u][i - 1] \in old
                   /\ inbox[u][i - 1].id + MaxPerUser > n + 1
        <5>1. i - 1 \in 1 .. len /\ (i - 1) + 1 = i
          BY <4>2
        <5> QED
          BY <4>1, <5>1
      <4> QED
        BY <4>3, <4>4
    <3>6. {inbox'[u][i] : i \in 1 .. Len(inbox'[u])} =
            {New(u)} \cup {inbox[u][i - 1] : i \in 2 .. Capped(n + 1)}
      <4>1. 1 \in 1 .. Capped(n + 1) /\ Capped(n + 1) \in Nat
        BY <1>1, <3>1 DEF Capped
      <4>2. \A i \in 1 .. Capped(n + 1) : i = 1 \/ i \in 2 .. Capped(n + 1)
        BY <4>1
      <4>3. /\ Len(inbox'[u]) = Capped(n + 1)
            /\ \A i \in 1 .. Capped(n + 1) :
                 inbox'[u][i] = IF i = 1 THEN New(u) ELSE inbox[u][i - 1]
        BY <1>5, <2>2
      <4>4. \A i \in 2 .. Capped(n + 1) : i \in 1 .. Capped(n + 1) /\ i # 1
        BY <4>1
      <4> HIDE DEF New, n
      <4>5. \A i \in 1 .. Capped(n + 1) :
              inbox'[u][i] \in {New(u)} \cup {inbox[u][j - 1] : j \in 2 .. Capped(n + 1)}
        BY <4>2, <4>3
      <4>6. /\ New(u) \in {inbox'[u][i] : i \in 1 .. Len(inbox'[u])}
            /\ \A j \in 2 .. Capped(n + 1) :
                 inbox[u][j - 1] \in {inbox'[u][i] : i \in 1 .. Len(inbox'[u])}
        <5>1. inbox'[u][1] = New(u)
          BY <4>1, <4>3
        <5>2. \A j \in 2 .. Capped(n + 1) : inbox'[u][j] = inbox[u][j - 1]
          BY <4>3, <4>4
        <5> QED
          BY <4>1, <4>3, <4>4, <5>1, <5>2
      <4> QED
        BY <4>3, <4>5, <4>6
    <3>7. {x \in shown'[b] : x.id + MaxPerUser > n + 1} =
            {New(u)} \cup {x \in shown[b] : x.id + MaxPerUser > n + 1}
      BY <1>1, <3>1
    <3>8. {x \in shown'[b] : x.id + MaxPerUser > made'[u]} =
            {inbox'[u][i] : i \in 1 .. Len(inbox'[u])}
      BY <3>1, <3>4, <3>5, <3>6, <3>7
    <3> QED
      BY <3>1, <3>8 DEF BellOK
  <2>3. CASE ~ (b \in listed /\ u \in us)
    <3>1. shown'[b] = shown[b] /\ (b \in listed' <=> b \in listed)
      BY <1>2, <2>3
    <3>2. u \notin us => inbox'[u] = inbox[u] /\ made'[u] = made[u]
      BY <1>2, <2>1
    <3> QED
      BY <2>1, <2>3, <3>1, <3>2 DEF BellOK
  <2> QED
    BY <2>2, <2>3
<1> QED
  BY <1>4, <1>6, <1>7, NotesByPartsAfter

\* A list of which some rows were marked: nothing moves.
LEMMA MarkedList ==
  ASSUME NEW list \in Seq(Row), NEW new \in [1 .. Len(list) -> Row],
         \A i \in 1 .. Len(list) : new[i].id = list[i].id
  PROVE  new \in Seq(Row) /\ Len(new) = Len(list)
<1>1. Len(list) \in Nat
  BY LenProperties
<1> QED
  BY <1>1, FunctionIsSequence

\* markRead and markAllRead for user v: mark is what becomes of a row, in the
\* list and on the screens of all connections of v.
LEMMA MarkKeeps ==
  ASSUME NotesInv, NEW v \in User, NEW mark \in [Row -> Row],
         \A x \in Row : mark[x].id = x.id,
         inbox' = [inbox EXCEPT ![v] =
                     [i \in 1 .. Len(inbox[v]) |-> mark[inbox[v][i]]]],
         shown' = [c \in Bell |-> IF c \in open /\ Owner[c] = v
                                    THEN {mark[x] : x \in shown[c]}
                                    ELSE shown[c]],
         UNCHANGED <<firstUser, open, listed, made>>
  PROVE  NotesInv'
<1> DEFINE len == Len(inbox[v])
           new == [i \in 1 .. len |-> mark[inbox[v][i]]]
<1>1. /\ NotesShape
      /\ \A u \in User : ListOK(u)
      /\ \A b \in Bell : BellOK(b)
  BY NotesByParts
<1>2. /\ inbox[v] \in Seq(Row) /\ len \in Nat
      /\ \A i \in 1 .. len : inbox[v][i] \in Row
  BY <1>1, LenProperties, ElementOfSeq DEF ListOK
<1>3. /\ inbox'[v] = new
      /\ \A u \in User : u # v => inbox'[u] = inbox[u]
      /\ DOMAIN inbox' = User /\ inbox' = [u \in User |-> inbox'[u]]
  BY <1>1 DEF NotesShape
<1>4. /\ new \in [1 .. len -> Row]
      /\ \A i \in 1 .. len : new[i] = mark[inbox[v][i]]
      /\ \A i \in 1 .. len : new[i].id = inbox[v][i].id
  BY <1>2
<1>5. new \in Seq(Row) /\ Len(new) = len
  <2> HIDE DEF new
  <2> QED
    BY <1>2, <1>4, MarkedList
<1> HIDE DEF new
<1>6. NotesShape'
  BY <1>1, <1>3 DEF NotesShape
<1>7. ASSUME NEW u \in User
      PROVE  ListOK(u)'
  <2>1. CASE u = v
    <3>1. len = Capped(made[v]) /\ \A i \in 1 .. len : inbox[v][i].id = made[v] - i + 1
      BY <1>1 DEF ListOK
    <3>2. /\ inbox'[v] \in Seq(Row) /\ Len(inbox'[v]) = Capped(made'[v])
          /\ \A i \in 1 .. Len(inbox'[v]) : inbox'[v][i].id = made'[v] - i + 1
      BY <1>3, <1>4, <1>5, <3>1
    <3> QED
      BY <2>1, <3>2 DEF ListOK
  <2>2. CASE u # v
    BY <1>1, <1>3, <2>2 DEF ListOK
  <2> QED
    BY <2>1, <2>2
<1> HIDE DEF len
<1>8. ASSUME NEW b \in Bell
      PROVE  BellOK(b)'
  <2>1. BellOK(b) /\ shown[b] \subseteq Row /\ (b \in listed => b \in open)
    BY <1>1 DEF NotesShape
  <2>2. CASE b \in listed /\ Owner[b] = v
    <3> DEFINE u == Owner[b]
    <3>1. /\ shown'[b] = {mark[x] : x \in shown[b]} /\ b \in listed'
          /\ made'[u] = made[u] /\ Len(inbox[u]) = len /\ Len(inbox'[u]) = len
          /\ \A i \in 1 .. len : inbox'[u][i] = mark[inbox[u][i]]
      BY <1>3, <1>4, <1>5, <2>1, <2>2 DEF len
    <3>2. {x \in shown'[b] : x.id + MaxPerUser > made[u]} =
            {mark[x] : x \in {y \in shown[b] : y.id + MaxPerUser > made[u]}}
      BY <2>1, <3>1
    <3>3. {y \in shown[b] : y.id + MaxPerUser > made[u]} =
            {inbox[u][i] : i \in 1 .. len}
      BY <2>1, <2>2, <3>1 DEF BellOK
    <3>4. {inbox'[u][i] : i \in 1 .. len} =
            {mark[x] : x \in {inbox[u][i] : i \in 1 .. len}}
      <4> DEFINE old == {inbox[u][i] : i \in 1 .. len}
      <4>1. \A i \in 1 .. len : inbox[u][i] \in old
        OBVIOUS
      <4>2. \A x \in old : \E i \in 1 .. len : x = inbox[u][i]
        OBVIOUS
      <4> HIDE DEF old
      <4>3. \A i \in 1 .. len : inbox'[u][i] \in {mark[x] : x \in old}
        BY <3>1, <4>1
      <4>4. ASSUME NEW x \in old
            PROVE  mark[x] \in {inbox'[u][i] : i \in 1 .. len}
        <5>1. PICK i \in 1 .. len : x = inbox[u][i]
          BY <4>2
        <5>2. inbox'[u][i] = mark[x]
          BY <3>1, <5>1
        <5> QED
          BY <5>2
      <4>5. {inbox'[u][i] : i \in 1 .. len} = {mark[x] : x \in old}
        BY <4>3, <4>4
      <4> QED
        BY <4>5 DEF old
    <3>5. {x \in shown'[b] : x.id + MaxPerUser > made'[u]} =
            {inbox'[u][i] : i \in 1 .. Len(inbox'[u])}
      BY <3>1, <3>2, <3>3, <3>4
    <3> QED
      BY <3>1, <3>5 DEF BellOK
  <2>3. CASE b \in listed /\ Owner[b] # v
    <3>1. /\ Owner[b] \in User /\ shown'[b] = shown[b]
          /\ inbox'[Owner[b]] = inbox[Owner[b]]
      BY <1>3, <2>3, BellAssumption
    <3> QED
      BY <2>1, <2>3, <3>1 DEF BellOK
  <2>4. CASE b \notin listed
    BY <2>1, <2>4 DEF BellOK
  <2> QED
    BY <2>2, <2>3, <2>4
<1> QED
  BY <1>6, <1>7, <1>8, NotesByPartsAfter

LEMMA ReadKeeps ==
  ASSUME NotesInv, NEW b \in Bell, NEW id \in Nat, Read(b, id)
  PROVE  NotesInv'
<1> DEFINE v == Owner[b]
           mark == [x \in Row |-> IF x.id = id THEN [x EXCEPT !.read = TRUE]
                                  ELSE x]
<1>1. /\ v \in User /\ inbox[v] \in Seq(Row)
      /\ DOMAIN inbox[v] = 1 .. Len(inbox[v])
      /\ \A i \in 1 .. Len(inbox[v]) : inbox[v][i] \in Row
      /\ shown \in [Bell -> SUBSET Row]
  BY BellAssumption, LenProperties, ElementOfSeq DEF NotesInv, NoteTypeOK
<1>2. mark \in [Row -> Row] /\ \A x \in Row : mark[x].id = x.id
  BY DEF Row
<1>3. \A x \in Row : mark[x] = IF x.id = id THEN [x EXCEPT !.read = TRUE] ELSE x
  OBVIOUS
<1> HIDE DEF mark
<1>4. inbox' = [inbox EXCEPT ![v] =
                  [i \in 1 .. Len(inbox[v]) |-> mark[inbox[v][i]]]]
  <2>1. inbox' = [inbox EXCEPT ![v] =
          [i \in 1 .. Len(inbox[v]) |->
             IF inbox[v][i].id = id THEN [inbox[v][i] EXCEPT !.read = TRUE]
             ELSE inbox[v][i]]]
    BY <1>1 DEF Read
  <2>2. [i \in 1 .. Len(inbox[v]) |->
             IF inbox[v][i].id = id THEN [inbox[v][i] EXCEPT !.read = TRUE]
             ELSE inbox[v][i]]
          = [i \in 1 .. Len(inbox[v]) |-> mark[inbox[v][i]]]
    BY <1>1, <1>3
  <2> QED
    BY <2>1, <2>2
<1>5. ASSUME NEW c \in Bell
      PROVE  Mark(shown[c], id) = {mark[x] : x \in shown[c]}
  <2> DEFINE m(x) == IF x.id = id THEN [x EXCEPT !.read = TRUE] ELSE x
  <2>1. \A x \in shown[c] : mark[x] = m(x)
    BY <1>1, <1>3
  <2>2. Mark(shown[c], id) = {m(x) : x \in shown[c]}
    BY DEF Mark
  <2> HIDE DEF m
  <2> QED
    BY <2>1, <2>2, Zenon
<1>6. shown' = [c \in Bell |-> IF c \in open /\ Owner[c] = v
                                 THEN {mark[x] : x \in shown[c]}
                                 ELSE shown[c]]
  BY <1>5 DEF Read, ToldRead, BellsOf
<1>7. UNCHANGED <<firstUser, open, listed, made>>
  BY DEF Read
<1> QED
  BY <1>1, <1>2, <1>4, <1>6, <1>7, MarkKeeps

LEMMA ReadAllKeeps ==
  ASSUME NotesInv, NEW b \in Bell, ReadAll(b)
  PROVE  NotesInv'
<1> DEFINE v == Owner[b]
           mark == [x \in Row |-> [x EXCEPT !.read = TRUE]]
<1>1. /\ v \in User /\ inbox[v] \in Seq(Row)
      /\ DOMAIN inbox[v] = 1 .. Len(inbox[v])
      /\ \A i \in 1 .. Len(inbox[v]) : inbox[v][i] \in Row
      /\ shown \in [Bell -> SUBSET Row]
  BY BellAssumption, LenProperties, ElementOfSeq DEF NotesInv, NoteTypeOK
<1>2. mark \in [Row -> Row] /\ \A x \in Row : mark[x].id = x.id
  BY DEF Row
<1>3. \A x \in Row : mark[x] = [x EXCEPT !.read = TRUE]
  OBVIOUS
<1> HIDE DEF mark
<1>4. inbox' = [inbox EXCEPT ![v] =
                  [i \in 1 .. Len(inbox[v]) |-> mark[inbox[v][i]]]]
  <2>1. inbox' = [inbox EXCEPT ![v] =
          [i \in 1 .. Len(inbox[v]) |-> [inbox[v][i] EXCEPT !.read = TRUE]]]
    BY <1>1 DEF ReadAll
  <2>2. [i \in 1 .. Len(inbox[v]) |-> [inbox[v][i] EXCEPT !.read = TRUE]]
          = [i \in 1 .. Len(inbox[v]) |-> mark[inbox[v][i]]]
    BY <1>1, <1>3
  <2> QED
    BY <2>1, <2>2
<1>5. ASSUME NEW c \in Bell
      PROVE  MarkAll(shown[c]) = {mark[x] : x \in shown[c]}
  <2>1. \A x \in shown[c] : mark[x] = [x EXCEPT !.read = TRUE]
    BY <1>1, <1>3
  <2>2. {mark[x] : x \in shown[c]} = {[x EXCEPT !.read = TRUE] : x \in shown[c]}
    BY <2>1, Zenon
  <2> QED
    BY <2>2 DEF MarkAll
<1>6. shown' = [c \in Bell |-> IF c \in open /\ Owner[c] = v
                                 THEN {mark[x] : x \in shown[c]}
                                 ELSE shown[c]]
  BY <1>5 DEF ReadAll, ToldRead, BellsOf
<1>7. UNCHANGED <<firstUser, open, listed, made>>
  BY DEF ReadAll
<1> QED
  BY <1>1, <1>2, <1>4, <1>6, <1>7, MarkKeeps

\* notification:list: what is shown is the list, all of it under the cap.
LEMMA ListBellKeeps ==
  ASSUME NotesInv, NEW b \in Bell, ListBell(b)
  PROVE  NotesInv'
<1> DEFINE u == Owner[b]
           rows == {inbox[u][i] : i \in 1 .. Len(inbox[u])}
<1>1. /\ NotesShape
      /\ \A v \in User : ListOK(v)
      /\ \A c \in Bell : BellOK(c)
      /\ u \in User
  BY NotesByParts, BellAssumption
<1>2. /\ inbox[u] \in Seq(Row) /\ DOMAIN inbox[u] = 1 .. Len(inbox[u])
      /\ \A i \in 1 .. Len(inbox[u]) : inbox[u][i] \in Row
      /\ made[u] \in Nat /\ MaxPerUser \in Nat
  BY <1>1, LenProperties, ElementOfSeq, CapAssumption DEF ListOK, NotesShape
<1>3. /\ b \in open /\ UNCHANGED <<firstUser, inbox, open, made>>
      /\ shown' = [shown EXCEPT ![b] = rows] /\ listed' = listed \cup {b}
  BY <1>2 DEF ListBell, Listed, RowsOf
<1>4. NotesShape'
  BY <1>1, <1>2, <1>3 DEF NotesShape
<1>5. ASSUME NEW v \in User PROVE ListOK(v)'
  BY <1>1, <1>3 DEF ListOK
<1>6. ASSUME NEW x \in rows PROVE x.id + MaxPerUser > made[u]
  <2>1. PICK i \in 1 .. Len(inbox[u]) : x = inbox[u][i]
    OBVIOUS
  <2>2. x.id = made[u] - i + 1 /\ Len(inbox[u]) = Capped(made[u])
    BY <1>1, <2>1 DEF ListOK
  <2> QED
    BY <1>2, <2>2 DEF Capped
<1>7. ASSUME NEW c \in Bell PROVE BellOK(c)'
  <2>1. CASE c = b
    <3>1. shown'[b] = rows
      BY <1>1, <1>3 DEF NotesShape
    <3>2. {x \in shown'[b] : x.id + MaxPerUser > made[u]} = rows
      BY <1>6, <3>1
    <3> QED
      BY <1>3, <2>1, <3>2 DEF BellOK
  <2>2. CASE c # b
    <3>1. shown'[c] = shown[c] /\ (c \in listed' <=> c \in listed)
      BY <1>1, <1>3, <2>2 DEF NotesShape
    <3> QED
      BY <1>1, <1>3, <3>1 DEF BellOK
  <2> QED
    BY <2>1, <2>2
<1> QED
  BY <1>4, <1>5, <1>7, NotesByPartsAfter

LEMMA OpenCloseKeeps ==
  ASSUME NotesInv, NEW b \in Bell, OpenBell(b) \/ CloseBell(b)
  PROVE  NotesInv'
<1>1. /\ NotesShape
      /\ \A u \in User : ListOK(u)
      /\ \A c \in Bell : BellOK(c)
      /\ Owner[b] \in User
  BY NotesByParts, BellAssumption
<1>2. CASE OpenBell(b)
  <2>1. /\ open' = open \cup {b} /\ firstUser' \in {Owner[b], firstUser}
        /\ UNCHANGED <<inbox, listed, shown, made>>
    BY <1>2 DEF OpenBell
  <2>2. NotesShape'
    BY <1>1, <2>1 DEF NotesShape
  <2>3. ASSUME NEW u \in User PROVE ListOK(u)'
    BY <1>1, <2>1 DEF ListOK
  <2>4. ASSUME NEW c \in Bell PROVE BellOK(c)'
    BY <1>1, <2>1 DEF BellOK
  <2> QED
    BY <2>2, <2>3, <2>4, NotesByPartsAfter
<1>3. CASE CloseBell(b)
  <2>1. /\ open' = open \ {b} /\ listed' = listed \ {b}
        /\ shown' = [shown EXCEPT ![b] = {}]
        /\ UNCHANGED <<firstUser, inbox, made>>
    BY <1>3 DEF CloseBell
  <2>2. NotesShape' /\ (\A u \in User : ListOK(u))'
    BY <1>1, <2>1 DEF NotesShape, ListOK
  <2>3. ASSUME NEW c \in Bell PROVE BellOK(c)'
    BY <1>1, <2>1 DEF NotesShape, BellOK
  <2> QED
    BY <2>2, <2>3, NotesByPartsAfter
<1> QED
  BY <1>2, <1>3

LEMMA ForgetKeeps == ForgetNotes => NotesInv'
<1> SUFFICES ASSUME ForgetNotes PROVE NotesInv'
  OBVIOUS
<1>1. << >> \in Seq(Row) /\ Len(<< >>) = 0 /\ DOMAIN << >> = {}
  OBVIOUS
<1> QED
  BY <1>1, CapAssumption
     DEF ForgetNotes, NotesInv, NoteTypeOK, KeepsNewest, ShowsList, Capped

LEMMA NotesStepKeeps == NotesInv /\ NotesStep => NotesInv'
<1> SUFFICES ASSUME NotesInv, NotesStep PROVE NotesInv'
  OBVIOUS
<1>1. CASE UNCHANGED noteVars
  BY <1>1 DEF noteVars, NotesInv, NoteTypeOK, KeepsNewest, ShowsList
<1>2. ASSUME NEW b \in Bell, NEW x \in shown[b], Read(b, x.id)
      PROVE  NotesInv'
  <2>1. x.id \in Nat
    BY DEF NotesInv, NoteTypeOK, Row
  <2> QED
    BY <1>2, <2>1, ReadKeeps
<1>3. CASE BellRequest
  BY <1>2, <1>3, OpenCloseKeeps, ListBellKeeps, ReadAllKeeps DEF BellRequest
<1> QED
  BY <1>1, <1>3, NotifyKeeps, ForgetKeeps DEF NotesStep

\* What a client shows was made for its user, and what is in the window of
\* the cap is in the list, where no notification is twice.
LEMMA ShownIsMade ==
  ASSUME NotesInv, NEW b \in listed, NEW x \in shown[b]
  PROVE  /\ b \in Bell /\ Owner[b] \in User
         /\ x.id \in Nat /\ made[Owner[b]] \in Nat
         /\ x.id <= made[Owner[b]]
         /\ x.id + MaxPerUser > made[Owner[b]] => x \in RowsOf(inbox[Owner[b]])
<1> DEFINE u == Owner[b]
<1>1. /\ b \in Bell /\ u \in User /\ x \in Row /\ x.id \in Nat
      /\ made[u] \in Nat /\ MaxPerUser \in Nat \ {0}
  BY BellAssumption, CapAssumption DEF NotesInv, NoteTypeOK, Row
<1>2. x.id + MaxPerUser > made[u] => x \in RowsOf(inbox[u])
  BY DEF NotesInv, ShowsList
<1>3. ASSUME x \in RowsOf(inbox[u])
      PROVE  x.id <= made[u]
  <2>1. PICK i \in DOMAIN inbox[u] : x = inbox[u][i]
    BY <1>3 DEF RowsOf
  <2>2. inbox[u] \in Seq(Row)
    BY <1>1 DEF NotesInv, NoteTypeOK
  <2>3. i \in Nat /\ i >= 1
    BY <2>1, <2>2, LenProperties
  <2>4. x.id = made[u] - i + 1
    BY <1>1, <2>1 DEF NotesInv, KeepsNewest
  <2> QED
    BY <1>1, <2>3, <2>4
<1> HIDE DEF u
<1>4. x.id <= made[u]
  BY <1>1, <1>2, <1>3
<1> QED
  BY <1>1, <1>2, <1>4 DEF u

\* Rows of a list are told apart by their ids, and are in the window.
LEMMA ListedOnce ==
  ASSUME NotesInv, NEW u \in User, NEW x \in RowsOf(inbox[u])
  PROVE  /\ x.id + MaxPerUser > made[u]
         /\ \A y \in RowsOf(inbox[u]) : x.id = y.id => x = y
<1>1. /\ inbox[u] \in Seq(Row) /\ Len(inbox[u]) <= MaxPerUser
      /\ made[u] \in Nat /\ MaxPerUser \in Nat \ {0}
  BY CapAssumption DEF NotesInv, NoteTypeOK
<1>2. \A i \in DOMAIN inbox[u] : /\ i \in Nat /\ i <= MaxPerUser
                                 /\ inbox[u][i].id = made[u] - i + 1
  BY <1>1, LenProperties DEF NotesInv, KeepsNewest
<1>3. PICK i \in DOMAIN inbox[u] : x = inbox[u][i]
  BY DEF RowsOf
<1>4. x.id + MaxPerUser > made[u]
  BY <1>1, <1>2, <1>3
<1>5. ASSUME NEW y \in RowsOf(inbox[u]), x.id = y.id
      PROVE  x = y
  <2>1. PICK j \in DOMAIN inbox[u] : y = inbox[u][j]
    BY DEF RowsOf
  <2>2. i = j
    BY <1>1, <1>2, <1>3, <1>5, <2>1
  <2> QED
    BY <1>3, <2>1, <2>2
<1> QED
  BY <1>4, <1>5

\* A mark reaches every connection of the user, or was there before the
\* connection asked for the list.
LEMMA MarksStep == NotesInv /\ SameMarks /\ NotesStep => SameMarks'
<1> SUFFICES ASSUME NotesInv, SameMarks, NotesStep PROVE SameMarks'
  OBVIOUS
<1>0. listed \subseteq open /\ open \subseteq Bell /\ shown \in [Bell -> SUBSET Row]
  BY DEF NotesInv, NoteTypeOK
<1>1. CASE UNCHANGED noteVars
  BY <1>1 DEF noteVars, SameMarks
<1>2. ASSUME NEW us \in SUBSET User, Notify(us)
      PROVE  SameMarks'
  <2> DEFINE New(u) == [id |-> made[u] + 1, read |-> FALSE]
  <2>1. /\ listed' = listed
        /\ \A b \in listed : shown'[b] \subseteq shown[b] \cup {New(Owner[b])}
    BY <1>0, <1>2 DEF Notify
  <2>2. \A b \in listed : \A x \in shown[b] :
          /\ x.id \in Nat /\ made[Owner[b]] \in Nat
          /\ x.id # made[Owner[b]] + 1
    BY ShownIsMade
  <2>3. \A b \in listed : New(Owner[b]).id = made[Owner[b]] + 1
    OBVIOUS
  <2> HIDE DEF New
  <2> QED
    BY <2>1, <2>2, <2>3 DEF SameMarks
<1>3. ASSUME NEW b \in Bell, ListBell(b)
      PROVE  SameMarks'
  <2> DEFINE u == Owner[b]
  <2>1. /\ listed' = listed \cup {b} /\ u \in User
        /\ \A c \in Bell : shown'[c] = IF c = b THEN RowsOf(inbox[u]) ELSE shown[c]
    BY <1>0, <1>3, BellAssumption DEF ListBell, Listed
  <2>2. ASSUME NEW c \in listed', Owner[c] = u,
               NEW x \in RowsOf(inbox[u]), NEW y \in shown'[c], x.id = y.id
        PROVE  x = y
    <3>1. x.id + MaxPerUser > made[u]
      BY <2>1, ListedOnce
    <3>2. y \in RowsOf(inbox[u])
      <4>1. CASE c = b
        BY <2>1, <4>1
      <4>2. CASE c # b
        BY <1>0, <2>1, <2>2, <3>1, <4>2, ShownIsMade
      <4> QED
        BY <4>1, <4>2
    <3> QED
      BY <2>1, <2>2, <3>2, ListedOnce
  <2>3. b \in listed' /\ listed' \subseteq Bell
    BY <1>0, <2>1
  <2> SUFFICES ASSUME NEW c \in listed', NEW d \in listed',
                      NEW x \in shown'[c], NEW y \in shown'[d],
                      Owner[c] = Owner[d], x.id = y.id
               PROVE  x.read = y.read
    BY DEF SameMarks
  <2>4. CASE c = b
    BY <2>1, <2>2, <2>4
  <2>5. CASE d = b
    BY <2>1, <2>2, <2>5
  <2>6. CASE c # b /\ d # b
    BY <1>0, <2>1, <2>3, <2>6 DEF SameMarks
  <2> QED
    BY <2>4, <2>5, <2>6
<1>4. ASSUME NEW b \in Bell, NEW id, Read(b, id)
      PROVE  SameMarks'
  <2>1. /\ listed' = listed
        /\ \A c \in listed : shown'[c] = IF Owner[c] = Owner[b]
                                          THEN Mark(shown[c], id) ELSE shown[c]
    BY <1>0, <1>4 DEF Read, ToldRead, BellsOf
  <2>2. \A rows \in SUBSET Row : \A x \in Mark(rows, id) :
          \E z \in rows : /\ x.id = z.id
                          /\ x.read = IF z.id = id THEN TRUE ELSE z.read
    BY DEF Mark, Row
  <2>3. \A c \in listed : shown[c] \in SUBSET Row
    BY <1>0
  <2> SUFFICES ASSUME NEW c \in listed, NEW d \in listed,
                      NEW x \in shown'[c], NEW y \in shown'[d],
                      Owner[c] = Owner[d], x.id = y.id
               PROVE  x.read = y.read
    BY <2>1 DEF SameMarks
  <2>4. CASE Owner[c] = Owner[b]
    <3>1. x \in Mark(shown[c], id) /\ y \in Mark(shown[d], id)
      BY <2>1, <2>4
    <3>2. PICK z \in shown[c] : /\ x.id = z.id
                                /\ x.read = IF z.id = id THEN TRUE ELSE z.read
      BY <2>2, <2>3, <3>1
    <3>3. PICK w \in shown[d] : /\ y.id = w.id
                                /\ y.read = IF w.id = id THEN TRUE ELSE w.read
      BY <2>2, <2>3, <3>1
    <3>4. z.read = w.read
      <4>1. z.id = w.id
        BY <3>2, <3>3
      <4> QED
        BY <4>1, Zenon DEF SameMarks
    <3> QED
      BY <3>2, <3>3, <3>4
  <2>5. CASE Owner[c] # Owner[b]
    BY <2>1, <2>5 DEF SameMarks
  <2> QED
    BY <2>4, <2>5
<1>5. ASSUME NEW b \in Bell, ReadAll(b)
      PROVE  SameMarks'
  <2>1. /\ listed' = listed
        /\ \A c \in listed : shown'[c] = IF Owner[c] = Owner[b]
                                          THEN MarkAll(shown[c]) ELSE shown[c]
    BY <1>0, <1>5 DEF ReadAll, ToldRead, BellsOf
  <2>2. \A rows \in SUBSET Row : \A x \in MarkAll(rows) : x.read = TRUE
    BY DEF MarkAll, Row
  <2>3. \A c \in listed : shown[c] \in SUBSET Row
    BY <1>0
  <2> SUFFICES ASSUME NEW c \in listed, NEW d \in listed,
                      NEW x \in shown'[c], NEW y \in shown'[d],
                      Owner[c] = Owner[d], x.id = y.id
               PROVE  x.read = y.read
    BY <2>1 DEF SameMarks
  <2>4. CASE Owner[c] = Owner[b]
    BY <2>1, <2>2, <2>3, <2>4
  <2>5. CASE Owner[c] # Owner[b]
    BY <2>1, <2>5 DEF SameMarks
  <2> QED
    BY <2>4, <2>5
<1>6. ASSUME NEW b \in Bell, OpenBell(b) \/ CloseBell(b)
      PROVE  SameMarks'
  <2>1. listed' \subseteq listed
    BY <1>6 DEF OpenBell, CloseBell
  <2>2. \A c \in listed' : shown'[c] = shown[c]
    BY <1>0, <1>6 DEF OpenBell, CloseBell
  <2> QED
    BY <2>1, <2>2 DEF SameMarks
<1>7. CASE ForgetNotes
  BY <1>7 DEF ForgetNotes, SameMarks
<1>8. CASE BellRequest
  BY <1>3, <1>4, <1>5, <1>6, <1>8 DEF BellRequest
<1> QED
  BY <1>1, <1>2, <1>7, <1>8 DEF NotesStep

-----------------------------------------------------------------------------
(***************************************************************************)
(* What the desks were told.                                               *)
(***************************************************************************)

DeskTypeOK ==
  /\ admins \subseteq Staff
  /\ desk \in [Desk -> Token \cup {None}]
  /\ queue \in [Desk -> [Report -> Status]]
  /\ purged \in [Desk -> SUBSET Report]
  /\ outdated \subseteq Connected
  /\ since \in [Report -> Status]

\* A connection starts with nothing told.
Fresh ==
  \A s \in Desk \ Connected :
    queue[s] = [r \in Report |-> "unknown"] /\ purged[s] = {}

DeskInv == DeskTypeOK /\ Fresh /\ ResolvedByAdmins /\ DesksFollowVerdicts

\* What ResolvedByAdmins says, by the token of each connection.
LEMMA TimelyDesks ==
  /\ DeskTypeOK =>
       (ResolvedByAdmins <=> \A s \in Connected \ outdated : Timely(desk[s]))
  /\ (DeskTypeOK =>
       (ResolvedByAdmins <=> \A s \in Connected \ outdated : Timely(desk[s])))'
<1>1. DeskTypeOK =>
        (ResolvedByAdmins <=> \A s \in Connected \ outdated : Timely(desk[s]))
  BY DEF DeskTypeOK, ResolvedByAdmins, Timely, MayResolve, Room, Connected
<1> QED
  BY <1>1, PTL

LEMMA DeskInit == Init => DeskInv
BY ReportAssumption
   DEF Init, DeskInv, DeskTypeOK, Fresh, ResolvedByAdmins,
       DesksFollowVerdicts, Connected, Status

LEMMA DeskCrash == DeskInv /\ Crash => DeskInv'
BY DEF Crash, DeskInv, DeskTypeOK, Fresh, ResolvedByAdmins,
       DesksFollowVerdicts, Connected, Status

\* Steps that tell the desks nothing of reports.
LEMMA DeskFrame ==
  ASSUME DeskInv, UNCHANGED <<roleVars, deskVars>>
  PROVE  DeskInv'
BY DEF roleVars, deskVars, DeskInv, DeskTypeOK, Fresh, ResolvedByAdmins,
       DesksFollowVerdicts, Connected, MayResolve, Room

\* Only connections of the user whose role changes are outdated by it.
LEMMA DeskRole ==
  ASSUME DeskInv, NEW u \in Staff, ChangeRole(u)
  PROVE  DeskInv'
<1>1. /\ admins' = IF u \in admins THEN admins \ {u} ELSE admins \cup {u}
      /\ outdated' = outdated \cup {s \in Connected : desk[s].sub = u}
      /\ UNCHANGED <<desk, queue, purged, since>>
  BY DEF ChangeRole
<1>2. Connected' = Connected
  BY <1>1 DEF Connected
<1>3. DeskTypeOK'
  BY <1>1, <1>2 DEF DeskInv, DeskTypeOK
<1>4. ASSUME NEW s \in Connected' \ outdated'
      PROVE  Timely(desk[s])'
  <2>1. s \in Connected \ outdated /\ desk[s].sub # u
    BY <1>1, <1>2
  <2>2. Timely(desk[s])
    BY <2>1, TimelyDesks DEF DeskInv
  <2> QED
    BY <1>1, <2>1, <2>2 DEF Timely
<1>5. Fresh' /\ DesksFollowVerdicts'
  BY <1>1, <1>2 DEF DeskInv, Fresh, DesksFollowVerdicts
<1> QED
  BY <1>3, <1>4, <1>5, TimelyDesks DEF DeskInv

\* A handshake that was timely leads to a timely token: where there is a
\* cookie, the token of the page is not looked at.
LEMMA DeskOpen ==
  ASSUME DeskInv, NEW s \in Desk, OpenDesk(s)
  PROVE  DeskInv'
<1>1. PICK x \in Handshakes :
        /\ x.token \in Token
        /\ desk' = [desk EXCEPT ![s] = x.token]
        /\ outdated' = IF x.timely THEN outdated ELSE outdated \cup {s}
  BY DEF OpenDesk
<1>2. /\ s \notin Connected
      /\ UNCHANGED <<admins, queue, purged, since>>
  BY DEF OpenDesk, roleVars
<1>3. x.timely => Timely(x.token)
  BY DEF Handshakes, Chosen
<1>4. x.token # None
  BY <1>1, ReportAssumption
<1>5. /\ desk' \in [Desk -> Token \cup {None}]
      /\ desk'[s] = x.token /\ \A d \in Desk : d # s => desk'[d] = desk[d]
  BY <1>1 DEF DeskInv, DeskTypeOK
<1>6. Connected' = Connected \cup {s}
  BY <1>4, <1>5 DEF Connected
<1>7. DeskTypeOK'
  BY <1>1, <1>2, <1>5, <1>6 DEF DeskInv, DeskTypeOK
<1>8. queue[s] = [r \in Report |-> "unknown"] /\ purged[s] = {}
  BY <1>2 DEF DeskInv, Fresh
<1>9. Fresh'
  BY <1>2, <1>6 DEF DeskInv, Fresh
<1>10. ASSUME NEW d \in Connected' \ outdated'
       PROVE  Timely(desk[d])'
  <2>1. CASE d = s
    <3>1. x.timely
      BY <1>1, <2>1, <1>10
    <3> QED
      BY <1>2, <1>3, <1>5, <2>1, <3>1 DEF Timely
  <2>2. CASE d # s
    <3>1. d \in Connected \ outdated /\ d \in Desk
      BY <1>1, <1>6, <1>10, <2>2 DEF Connected
    <3>2. Timely(desk[d])
      BY <3>1, TimelyDesks DEF DeskInv
    <3> QED
      BY <1>2, <1>5, <2>2, <3>1, <3>2 DEF Timely
  <2> QED
    BY <2>1, <2>2
<1>11. DesksFollowVerdicts'
  <2>1. \A d \in Connected : d \in Desk /\ d # s
    BY <1>2 DEF Connected
  <2> QED
    BY <1>2, <1>5, <1>6, <1>8, <2>1 DEF DeskInv, DesksFollowVerdicts
<1> QED
  BY <1>7, <1>9, <1>10, <1>11, TimelyDesks DEF DeskInv

LEMMA DeskClose ==
  ASSUME DeskInv, NEW s \in Desk, CloseDesk(s)
  PROVE  DeskInv'
<1>1. /\ desk' = [desk EXCEPT ![s] = None]
      /\ outdated' = outdated \ {s}
      /\ queue' = [queue EXCEPT ![s] = [r \in Report |-> "unknown"]]
      /\ purged' = [purged EXCEPT ![s] = {}]
      /\ UNCHANGED <<admins, since>>
  BY DEF CloseDesk, roleVars
<1>2. /\ Connected' = Connected \ {s}
      /\ \A d \in Desk : d # s => /\ desk'[d] = desk[d]
                                  /\ queue'[d] = queue[d]
                                  /\ purged'[d] = purged[d]
      /\ queue'[s] = [r \in Report |-> "unknown"] /\ purged'[s] = {}
  BY <1>1 DEF DeskInv, DeskTypeOK, Connected
<1>3. DeskTypeOK'
  BY <1>1, <1>2 DEF DeskInv, DeskTypeOK, Status
<1>4. Fresh'
  BY <1>2 DEF DeskInv, Fresh
<1>5. \A d \in Connected' : d \in Connected /\ d \in Desk /\ d # s
  BY <1>2 DEF Connected
<1>6. ASSUME NEW d \in Connected' \ outdated'
      PROVE  Timely(desk[d])'
  <2>1. Timely(desk[d])
    BY <1>1, <1>5, TimelyDesks DEF DeskInv
  <2> QED
    BY <1>1, <1>2, <1>5, <2>1 DEF Timely
<1>7. DesksFollowVerdicts'
  BY <1>1, <1>2, <1>5 DEF DeskInv, DesksFollowVerdicts
<1> QED
  BY <1>3, <1>4, <1>6, <1>7, TimelyDesks DEF DeskInv

\* A status told to the whole room of admins is what each of them shows, and
\* what was given last wherever the post is removed, provided that those who
\* see an approval have it removed.
LEMMA DeskTold ==
  ASSUME DeskInv, NEW s \in Desk, NEW r \in Report, NEW st \in Status,
         st # "unknown",
         queue' = Tell(Room(s), r, st),
         since' = Given(r, st),
         purged' = IF st = "approved"
                     THEN [d \in Desk |-> IF d \in Connected
                                            THEN purged[d] \cup {r}
                                            ELSE purged[d]]
                     ELSE purged,
         UNCHANGED <<admins, desk, outdated>>
  PROVE  DeskInv'
<1> DEFINE Adm(d) == d \in Connected /\ desk[d].role = "ADMIN"
<1>1. Connected' = Connected /\ DeskTypeOK /\ DesksFollowVerdicts
  BY DEF Connected, DeskInv
<1>2. /\ queue' \in [Desk -> [Report -> Status]]
      /\ \A d \in Desk, x \in Report :
           queue'[d][x] = IF Adm(d) /\ x = r THEN st ELSE queue[d][x]
  BY <1>1 DEF Tell, Room, DeskTypeOK
<1>3. /\ since' \in [Report -> Status]
      /\ \A x \in Report :
           since'[x] = IF x = r /\ (since[r] # "unknown" \/ st = "approved")
                         THEN st ELSE since[x]
  BY <1>1 DEF Given, DeskTypeOK
<1>4. /\ purged' \in [Desk -> SUBSET Report]
      /\ \A d \in Desk :
           purged'[d] = IF st = "approved" /\ d \in Connected
                          THEN purged[d] \cup {r} ELSE purged[d]
  BY <1>1 DEF DeskTypeOK
<1>5. DeskTypeOK'
  BY <1>1, <1>2, <1>3, <1>4 DEF DeskTypeOK
<1>6. Fresh'
  <2> SUFFICES ASSUME NEW d \in Desk, d \notin Connected
               PROVE  queue'[d] = queue[d] /\ purged'[d] = purged[d]
    BY <1>1 DEF DeskInv, Fresh
  <2> QED
    BY <1>4 DEF Tell, Room
<1>7. ResolvedByAdmins'
  BY <1>1 DEF DeskInv, ResolvedByAdmins, MayResolve, Room, Connected
<1>8. ASSUME NEW d \in Connected, NEW x \in Report
      PROVE  /\ queue'[d][x] # "unknown" =>
                  /\ desk[d].role = "ADMIN"
                  /\ \A t \in Connected : queue'[t][x] \in {queue'[d][x], "unknown"}
             /\ x \in purged'[d] => since'[x] # "unknown"
             /\ x \in purged'[d] /\ desk[d].role = "ADMIN"
                  => queue'[d][x] = since'[x]
             /\ queue'[d][x] = "approved" => x \in purged'[d]
  <2>1. /\ queue[d][x] # "unknown" =>
             /\ desk[d].role = "ADMIN"
             /\ \A t \in Connected : queue[t][x] \in {queue[d][x], "unknown"}
        /\ x \in purged[d] => since[x] # "unknown"
        /\ x \in purged[d] /\ desk[d].role = "ADMIN" => queue[d][x] = since[x]
        /\ queue[d][x] = "approved" => x \in purged[d]
    BY <1>1 DEF DesksFollowVerdicts
  <2>2. \A t \in Connected :
          /\ t \in Desk
          /\ queue[t][x] # "unknown" => desk[t].role = "ADMIN"
    BY <1>1 DEF Connected, DesksFollowVerdicts
  <2>3. CASE x = r
    <3>1. /\ queue'[d][r] = IF desk[d].role = "ADMIN" THEN st ELSE queue[d][r]
          /\ \A t \in Connected :
               queue'[t][r] = IF desk[t].role = "ADMIN" THEN st ELSE queue[t][r]
      BY <1>2, <2>2
    <3>2. desk[d].role # "ADMIN" => queue[d][r] = "unknown"
      BY <2>2, <2>3
    <3>3. /\ queue'[d][r] # "unknown" => desk[d].role = "ADMIN"
          /\ desk[d].role = "ADMIN" => queue'[d][r] = st
          /\ \A t \in Connected : queue'[t][r] \in {st, "unknown"}
      BY <2>2, <2>3, <3>1, <3>2
    <3>4. /\ r \in purged'[d] => st = "approved" \/ r \in purged[d]
          /\ st = "approved" => r \in purged'[d]
      BY <1>4, <2>2
    <3>5. r \in purged'[d] => since'[r] = st
      BY <1>3, <2>1, <2>3, <3>4
    <3>6. queue'[d][r] = "approved" => st = "approved"
      BY <3>3
    <3> QED
      BY <2>3, <3>3, <3>4, <3>5, <3>6
  <2>4. CASE x # r
    BY <1>2, <1>3, <1>4, <2>1, <2>2, <2>4
  <2> QED
    BY <2>3, <2>4
<1>9. DesksFollowVerdicts'
  <2> SUFFICES ASSUME NEW d \in Connected, NEW x \in Report
               PROVE  /\ queue'[d][x] # "unknown" =>
                           /\ desk'[d].role = "ADMIN"
                           /\ \A t \in Connected' :
                                queue'[t][x] \in {queue'[d][x], "unknown"}
                      /\ x \in purged'[d] => since'[x] # "unknown"
                      /\ x \in purged'[d] /\ desk'[d].role = "ADMIN"
                           => queue'[d][x] = since'[x]
                      /\ queue'[d][x] = "approved" => x \in purged'[d]
    BY <1>1 DEF DesksFollowVerdicts
  <2> QED
    BY <1>1, <1>8
<1> QED
  BY <1>5, <1>6, <1>7, <1>9 DEF DeskInv

LEMMA DeskEmit ==
  ASSUME DeskInv, NEW s \in Desk, NEW r \in Report, BeginEmit(s, r)
  PROVE  DeskInv'
BY DeskTold DEF BeginEmit, roleVars, Status

LEMMA DeskResolve ==
  ASSUME DeskInv, NEW s \in Desk, NEW r \in Report,
         NEW v \in {"approved", "rejected"}, NEW us, Resolve(s, r, v, us)
  PROVE  DeskInv'
BY DeskTold DEF Resolve, Removes, roleVars, Status

LEMMA DeskStep == DeskInv /\ [Next]_vars => DeskInv'
<1> SUFFICES ASSUME DeskInv, [Next]_vars PROVE DeskInv'
  OBVIOUS
<1>1. CASE Bells \/ UNCHANGED vars
  BY <1>1, DeskFrame DEF Bells, vars
<1>2. ASSUME NEW k \in calls, EmitQuery(k) \/ EmitQueryFails(k) \/ FinishEmit(k)
      PROVE  DeskInv'
  BY <1>2, DeskFrame DEF EmitQuery, EmitQueryFails, FinishEmit
<1>3. ASSUME NEW s \in Desk, NEW r \in Report, BeginEmit(s, r)
      PROVE  DeskInv'
  BY <1>3, DeskEmit
<1>4. ASSUME NEW s \in Desk, NEW r \in Report, NEW v \in {"approved", "rejected"},
             NEW us \in SUBSET {Reporter[r]}, Resolve(s, r, v, us)
      PROVE  DeskInv'
  BY <1>4, DeskResolve
<1>5. ASSUME NEW s \in Desk, OpenDesk(s) \/ CloseDesk(s)
      PROVE  DeskInv'
  BY <1>5, DeskOpen, DeskClose
<1> QED
  BY <1>1, <1>2, <1>3, <1>4, <1>5, DeskRole, DeskCrash DEF Next

-----------------------------------------------------------------------------
(***************************************************************************)
(* Whom the emissions of a report notify.                                  *)
(***************************************************************************)
CallsInv ==
  /\ IsFiniteSet(calls)
  /\ calls \subseteq Call
  /\ admins \subseteq Staff
  /\ steady \subseteq admins
  /\ emits \in [Report -> 0 .. MaxEmits]
  /\ failed \in [Report -> Nat]
  /\ told \in [Report -> [User -> Nat]]

\* The calls of a report are different emissions of it, and one that has its
\* answer has every user who was an admin all along.
CallsOK ==
  /\ \A k \in calls : k.n <= emits[k.r]
  /\ \A j, k \in calls : j.r = k.r /\ j.n = k.n => j = k
  /\ \A k \in calls : k.pc = "reply" => steady \subseteq k.to

CountInv == CallsInv /\ CallsOK /\ NotifiedOncePerEmission

\* The calls of ks about report r.
About(ks, r) == {k \in ks : k.r = r}

LEMMA CountAdd ==
  ASSUME NEW ks, IsFiniteSet(ks), NEW k, k \notin ks, NEW r
  PROVE  /\ IsFiniteSet(ks \cup {k})
         /\ Cardinality(About(ks, r)) \in Nat
         /\ Cardinality(About(ks \cup {k}, r)) =
              IF k.r = r THEN Cardinality(About(ks, r)) + 1
              ELSE Cardinality(About(ks, r))
<1>1. About(ks \cup {k}, r) = IF k.r = r THEN About(ks, r) \cup {k}
                              ELSE About(ks, r)
  BY DEF About
<1>2. IsFiniteSet(About(ks, r)) /\ k \notin About(ks, r)
  BY FS_Subset DEF About
<1> QED
  BY <1>1, <1>2, FS_AddElement, FS_CardinalityType

LEMMA CountRemove ==
  ASSUME NEW ks, IsFiniteSet(ks), NEW k \in ks, NEW r
  PROVE  /\ IsFiniteSet(ks \ {k})
         /\ Cardinality(About(ks, r)) \in Nat
         /\ Cardinality(About(ks \ {k}, r)) \in Nat
         /\ Cardinality(About(ks \ {k}, r)) =
              IF k.r = r THEN Cardinality(About(ks, r)) - 1
              ELSE Cardinality(About(ks, r))
<1>1. About(ks \ {k}, r) = About(ks, r) \ {k} /\ (k.r = r <=> k \in About(ks, r))
  BY DEF About
<1>2. IsFiniteSet(About(ks, r)) /\ IsFiniteSet(ks \ {k})
  BY FS_Subset DEF About
<1>3. /\ IsFiniteSet(About(ks \ {k}, r))
      /\ Cardinality(About(ks \ {k}, r)) =
           IF k \in About(ks, r) THEN Cardinality(About(ks, r)) - 1
           ELSE Cardinality(About(ks, r))
  BY <1>1, <1>2, FS_RemoveElement
<1> QED
  BY <1>1, <1>2, <1>3, FS_CardinalityType

LEMMA CountInit ==
  /\ Init => CountInv
  /\ CountInv /\ Crash => CountInv'
<1>1. /\ \A r : Cardinality(About({}, r)) = 0
      /\ IsFiniteSet({})
  <2>1. \A r : About({}, r) = {}
    BY DEF About
  <2> QED
    BY <2>1, FS_EmptySet
<1>2. /\ \A r : InFlight(r) = Cardinality(About(calls, r))
      /\ (\A r : InFlight(r) = Cardinality(About(calls, r)))'
  BY DEF InFlight, About
<1>3. MaxEmits \in Nat
  BY ReportAssumption
<1>4. Init => CountInv
  BY <1>1, <1>2, <1>3
     DEF Init, CountInv, CallsInv, CallsOK, NotifiedOncePerEmission
<1>5. CountInv /\ Crash => CountInv'
  BY <1>1, <1>2, <1>3
     DEF Crash, CountInv, CallsInv, CallsOK, NotifiedOncePerEmission
<1> QED
  BY <1>4, <1>5

\* What NotifiedOncePerEmission says of a report and a user when n calls are
\* about the report.
Tally(r, u, n) ==
  /\ told[r][u] + failed[r] + n <= emits[r]
  /\ u = Reporter[r] => told[r][u] = 0
  /\ u \in steady \ {Reporter[r]} => told[r][u] + failed[r] + n = emits[r]

LEMMA TallyMeans ==
  ASSUME CallsInv, NEW r \in Report, NEW u \in User
  PROVE  LET done == emits[r] - InFlight(r) IN
         Tally(r, u, Cardinality(About(calls, r))) <=>
           /\ told[r][u] <= done - failed[r]
           /\ u = Reporter[r] => told[r][u] = 0
           /\ u \in steady \ {Reporter[r]} => told[r][u] = done - failed[r]
<1>1. InFlight(r) = Cardinality(About(calls, r))
  BY DEF InFlight, About
<1>2. IsFiniteSet(About(calls, r))
  BY FS_Subset DEF CallsInv, About
<1>3. Cardinality(About(calls, r)) \in Nat
  BY <1>2, FS_CardinalityType
<1>4. told[r][u] \in Nat /\ failed[r] \in Nat /\ emits[r] \in Nat
  BY ReportAssumption DEF CallsInv
<1> QED
  BY <1>1, <1>3, <1>4 DEF Tally

LEMMA TalliesMean ==
  /\ CallsInv =>
       (NotifiedOncePerEmission <=>
          \A r \in Report, u \in User : Tally(r, u, Cardinality(About(calls, r))))
  /\ (CallsInv =>
       (NotifiedOncePerEmission <=>
          \A r \in Report, u \in User : Tally(r, u, Cardinality(About(calls, r)))))'
<1>1. CallsInv =>
       (NotifiedOncePerEmission <=>
          \A r \in Report, u \in User : Tally(r, u, Cardinality(About(calls, r))))
  BY TallyMeans DEF NotifiedOncePerEmission
<1> QED
  BY <1>1, PTL

\* report:emit begins: one emission more, and one call more about it.
LEMMA CountEmit ==
  ASSUME CountInv, NEW s \in Desk, NEW r \in Report, BeginEmit(s, r)
  PROVE  CountInv'
<1> DEFINE k == [r |-> r, n |-> emits[r] + 1, pc |-> "query", to |-> {}]
<1>1. /\ emits[r] < MaxEmits
      /\ emits' = [emits EXCEPT ![r] = @ + 1]
      /\ calls' = calls \cup {k}
      /\ UNCHANGED <<admins, steady, failed, told>>
  BY DEF BeginEmit, roleVars
<1>2. CallsInv /\ CallsOK /\ MaxEmits \in Nat
  BY ReportAssumption DEF CountInv
<1>3. /\ \A x \in Report : emits[x] \in Nat
      /\ \A x \in Report : emits'[x] = IF x = r THEN emits[r] + 1 ELSE emits[x]
      /\ emits' \in [Report -> 0 .. MaxEmits]
  BY <1>1, <1>2 DEF CallsInv
<1>4. /\ k \in Call /\ k.r = r /\ k.n = emits[r] + 1 /\ k.pc = "query"
      /\ \A j \in calls : j.r \in Report /\ j.n \in Nat
  BY <1>1, <1>2, <1>3 DEF Call, CallsInv
<1>5. \A j \in calls : j.r = r => j.n # k.n
  BY <1>2, <1>3, <1>4 DEF CallsOK
<1>6. k \notin calls
  BY <1>4, <1>5
<1> HIDE DEF k
<1>7. CallsInv'
  BY <1>1, <1>2, <1>3, <1>4, <1>6, CountAdd DEF CallsInv
<1>8. CallsOK'
  BY <1>1, <1>2, <1>3, <1>4, <1>5 DEF CallsOK
<1>9. ASSUME NEW x \in Report, NEW u \in User
      PROVE  Tally(x, u, Cardinality(About(calls, x)))'
  <2>1. /\ Tally(x, u, Cardinality(About(calls, x)))
        /\ told[x][u] \in Nat /\ failed[x] \in Nat
    BY <1>2, TalliesMean DEF CountInv, CallsInv
  <2>2. /\ Cardinality(About(calls, x)) \in Nat
        /\ Cardinality(About(calls', x)) =
             IF k.r = x THEN Cardinality(About(calls, x)) + 1
             ELSE Cardinality(About(calls, x))
    <3>1. IsFiniteSet(calls) /\ calls' = calls \cup {k}
      BY <1>1, <1>2 DEF CallsInv
    <3> QED
      BY <1>6, <3>1, CountAdd
  <2> QED
    BY <1>1, <1>3, <1>4, <2>1, <2>2 DEF Tally
<1> QED
  BY <1>7, <1>8, <1>9, TalliesMean DEF CountInv

\* The answer of listAdminIds: whoever was an admin all along is in it.
LEMMA CountQuery ==
  ASSUME CountInv, NEW k \in calls, EmitQuery(k)
  PROVE  CountInv'
<1> DEFINE j == [k EXCEPT !.pc = "reply", !.to = admins]
           rest == calls \ {k}
<1>1. /\ calls' = rest \cup {j}
      /\ UNCHANGED <<admins, steady, emits, failed, told>>
  BY DEF EmitQuery, ListAdminIds, roleVars, tallyVars
<1>2. CallsInv /\ CallsOK /\ k \in Call
  BY DEF CountInv, CallsInv
<1>3. j \in Call /\ j.r = k.r /\ j.n = k.n /\ j.to = admins
  BY <1>2, ReportAssumption DEF Call, CallsInv
<1>4. j \notin rest
  BY <1>2, <1>3 DEF CallsOK
<1> HIDE DEF j
<1>5. CallsInv'
  BY <1>1, <1>2, <1>3, <1>4, CountRemove, CountAdd DEF CallsInv
<1>6. CallsOK'
  BY <1>1, <1>2, <1>3 DEF CallsOK, CallsInv
<1>7. ASSUME NEW x \in Report
      PROVE  Cardinality(About(calls, x))' = Cardinality(About(calls, x))
  <2>1. /\ IsFiniteSet(rest)
        /\ Cardinality(About(calls, x)) \in Nat
        /\ Cardinality(About(rest, x)) =
             IF k.r = x THEN Cardinality(About(calls, x)) - 1
             ELSE Cardinality(About(calls, x))
    BY <1>2, CountRemove DEF CallsInv
  <2>2. Cardinality(About(rest \cup {j}, x)) =
             IF j.r = x THEN Cardinality(About(rest, x)) + 1
             ELSE Cardinality(About(rest, x))
    <3> HIDE DEF rest
    <3>1. IsFiniteSet(rest) /\ j \notin rest
      BY <1>4, <2>1
    <3> QED
      BY <3>1, CountAdd
  <2> QED
    BY <1>1, <1>3, <2>1, <2>2
<1>8. \A x \in Report, u \in User : Tally(x, u, Cardinality(About(calls, x)))'
  BY <1>1, <1>2, <1>7, TalliesMean DEF CountInv, Tally
<1> QED
  BY <1>5, <1>6, <1>8, TalliesMean DEF CountInv

\* The call ends: its emission is counted as failed, or those it is to are
\* notified.
LEMMA CountEnd ==
  ASSUME CountInv, NEW k \in calls, EmitQueryFails(k) \/ FinishEmit(k)
  PROVE  CountInv'
<1> DEFINE us == k.to \ {Reporter[k.r]}
<1>1. calls' = calls \ {k} /\ UNCHANGED <<admins, steady, emits>>
  BY DEF EmitQueryFails, FinishEmit, roleVars
<1>2. CallsInv /\ CallsOK /\ k \in Call /\ k.r \in Report
  BY DEF CountInv, CallsInv, Call
<1>3. CallsOK'
  BY <1>1, <1>2 DEF CallsOK
<1>4. IsFiniteSet(calls')
  BY <1>1, <1>2, FS_RemoveElement DEF CallsInv
<1>5. ASSUME NEW x \in Report
      PROVE  /\ Cardinality(About(calls, x)) \in Nat
             /\ Cardinality(About(calls', x)) =
                  IF k.r = x THEN Cardinality(About(calls, x)) - 1
                  ELSE Cardinality(About(calls, x))
  BY <1>1, <1>2, CountRemove DEF CallsInv
<1>6. ASSUME NEW x \in Report, NEW u \in User
      PROVE  /\ Tally(x, u, Cardinality(About(calls, x)))
             /\ told[x][u] \in Nat /\ failed[x] \in Nat /\ emits[x] \in Nat
  BY <1>2, ReportAssumption, TalliesMean DEF CountInv, CallsInv
<1>7. CASE EmitQueryFails(k)
  <2>1. failed' = [failed EXCEPT ![k.r] = @ + 1] /\ told' = told
    BY <1>7 DEF EmitQueryFails
  <2>2. CallsInv'
    BY <1>1, <1>2, <1>4, <2>1 DEF CallsInv
  <2>3. ASSUME NEW x \in Report, NEW u \in User
        PROVE  Tally(x, u, Cardinality(About(calls, x)))'
    <3>1. failed'[x] = IF k.r = x THEN failed[x] + 1 ELSE failed[x]
      BY <1>2, <2>1 DEF CallsInv
    <3> DEFINE m == Cardinality(About(calls, x))
               n == Cardinality(About(calls', x))
    <3>3. m \in Nat /\ n = IF k.r = x THEN m - 1 ELSE m
      BY <1>5
    <3>4. Tally(x, u, m)
      BY <1>6
    <3> HIDE DEF m, n
    <3>5. /\ told'[x][u] + failed'[x] + n <= emits'[x]
          /\ u = Reporter[x] => told'[x][u] = 0
          /\ u \in steady' \ {Reporter[x]} =>
               told'[x][u] + failed'[x] + n = emits'[x]
      BY <1>1, <1>6, <2>1, <3>1, <3>3, <3>4 DEF Tally
    <3> QED
      BY <3>5 DEF Tally, n
  <2> QED
    BY <1>3, <2>2, <2>3, TalliesMean DEF CountInv
<1>8. CASE FinishEmit(k)
  <2>1. /\ told' = [told EXCEPT ![k.r] = [u \in User |-> IF u \in us THEN @[u] + 1
                                                         ELSE @[u]]]
        /\ failed' = failed /\ steady \subseteq k.to
    BY <1>2, <1>8 DEF FinishEmit, CallsOK
  <2>2. CallsInv'
    BY <1>1, <1>2, <1>4, <2>1 DEF CallsInv
  <2>3. ASSUME NEW x \in Report, NEW u \in User
        PROVE  Tally(x, u, Cardinality(About(calls, x)))'
    <3>1. told'[x][u] = IF k.r = x /\ u \in us THEN told[x][u] + 1 ELSE told[x][u]
      BY <1>2, <2>1 DEF CallsInv
    <3>2. x = k.r => us = k.to \ {Reporter[x]}
      OBVIOUS
    <3> HIDE DEF us
    <3> DEFINE m == Cardinality(About(calls, x))
               n == Cardinality(About(calls', x))
    <3>3. m \in Nat /\ n = IF k.r = x THEN m - 1 ELSE m
      BY <1>5
    <3>4. Tally(x, u, m)
      BY <1>6
    <3> HIDE DEF m, n
    <3>5. /\ told'[x][u] + failed'[x] + n <= emits'[x]
          /\ u = Reporter[x] => told'[x][u] = 0
          /\ u \in steady' \ {Reporter[x]} =>
               told'[x][u] + failed'[x] + n = emits'[x]
      BY <1>1, <1>6, <2>1, <3>1, <3>2, <3>3, <3>4 DEF Tally
    <3> QED
      BY <3>5 DEF Tally, n
  <2> QED
    BY <1>3, <2>2, <2>3, TalliesMean DEF CountInv
<1> QED
  BY <1>7, <1>8

\* Roles change, or none of this does.
LEMMA CountFrame ==
  ASSUME CountInv, UNCHANGED <<calls, emits, failed, told>>,
         admins' \subseteq Staff, steady' \subseteq steady \cap admins'
  PROVE  CountInv'
<1>1. CallsInv' /\ CallsOK'
  BY DEF CountInv, CallsInv, CallsOK
<1>2. \A r \in Report, u \in User : Tally(r, u, Cardinality(About(calls, r)))'
  BY TalliesMean DEF CountInv, Tally
<1> QED
  BY <1>1, <1>2, TalliesMean DEF CountInv

LEMMA CountStep == CountInv /\ [Next]_vars => CountInv'
<1> SUFFICES ASSUME CountInv, [Next]_vars PROVE CountInv'
  OBVIOUS
<1>1. admins \subseteq Staff /\ steady \subseteq admins
  BY DEF CountInv, CallsInv
<1>2. CASE Bells \/ UNCHANGED vars
  BY <1>1, <1>2, CountFrame DEF Bells, vars, roleVars, tallyVars
<1>3. ASSUME NEW u \in Staff, ChangeRole(u)
      PROVE  CountInv'
  BY <1>1, <1>3, CountFrame DEF ChangeRole, tallyVars
<1>4. ASSUME NEW s \in Desk,
             \/ OpenDesk(s)
             \/ CloseDesk(s)
             \/ \E r \in Report : \E v \in {"approved", "rejected"},
                                    us \in SUBSET {Reporter[r]} :
                                   Resolve(s, r, v, us)
      PROVE  CountInv'
  BY <1>1, <1>4, CountFrame DEF OpenDesk, CloseDesk, Resolve, roleVars, tallyVars
<1>5. CASE \E s \in Desk, r \in Report : BeginEmit(s, r)
  BY <1>5, CountEmit
<1>6. CASE \E k \in calls : EmitQuery(k) \/ EmitQueryFails(k) \/ FinishEmit(k)
  BY <1>6, CountQuery, CountEnd
<1> QED
  BY <1>2, <1>3, <1>4, <1>5, <1>6, CountInit DEF Next

-----------------------------------------------------------------------------
(***************************************************************************)
(* Theorems.                                                               *)
(***************************************************************************)

\* Reports touches the lists as NotesStep says.
LEMMA StepIsNotesStep == CountInv /\ [Next]_vars => NotesStep
<1> SUFFICES ASSUME CountInv, [Next]_vars PROVE NotesStep
  OBVIOUS
<1>1. CASE Bells
  BY <1>1, ReportAssumption DEF Bells, EmitNotification, NotesStep
<1>2. ASSUME NEW k \in calls, FinishEmit(k)
      PROVE  NotesStep
  <2>1. k.to \ {Reporter[k.r]} \in SUBSET User
    BY DEF CountInv, CallsInv, Call
  <2> QED
    BY <1>2, <2>1 DEF FinishEmit, NotesStep
<1>3. ASSUME NEW s \in Desk, NEW r \in Report, NEW v \in {"approved", "rejected"},
             NEW us \in SUBSET {Reporter[r]}, Resolve(s, r, v, us)
      PROVE  NotesStep
  <2>1. us \ {desk[s].sub} \in SUBSET User
    BY ReportAssumption
  <2> QED
    BY <1>3, <2>1 DEF Resolve, NotesStep
<1>4. CASE Crash
  BY <1>4 DEF Crash, NotesStep
<1>5. ASSUME NEW s \in Desk,
             \/ OpenDesk(s)
             \/ CloseDesk(s)
             \/ \E r \in Report : BeginEmit(s, r)
      PROVE  NotesStep
  BY <1>5 DEF OpenDesk, CloseDesk, BeginEmit, NotesStep
<1>6. ASSUME NEW k \in calls, EmitQuery(k) \/ EmitQueryFails(k)
      PROVE  NotesStep
  BY <1>6 DEF EmitQuery, EmitQueryFails, NotesStep
<1>7. ASSUME NEW u \in Staff, ChangeRole(u)
      PROVE  NotesStep
  BY <1>7 DEF ChangeRole, NotesStep
<1>8. CASE UNCHANGED vars
  BY <1>8 DEF vars, NotesStep
<1> QED
  BY <1>1, <1>2, <1>3, <1>4, <1>5, <1>6, <1>7, <1>8 DEF Next

\* Lists, marks, desks and emissions.
THEOREM ReportsInvariance ==
  Spec => [](NotesInv /\ SameMarks /\ DeskInv /\ CountInv)
<1>1. Init => NotesInv /\ SameMarks /\ DeskInv /\ CountInv
  <2>1. NoteInit => SameMarks
    BY DEF NoteInit, SameMarks
  <2> QED
    BY <2>1, NotesInit, DeskInit, CountInit DEF Init
<1>2. NotesInv /\ SameMarks /\ DeskInv /\ CountInv /\ [Next]_vars
        => (NotesInv /\ SameMarks /\ DeskInv /\ CountInv)'
  BY StepIsNotesStep, NotesStepKeeps, MarksStep, DeskStep, CountStep
<1> QED
  BY <1>1, <1>2, PTL DEF Spec

\* Types, the cap of the lists and what a connection starts with.
THEOREM TypeCorrect == Spec => []TypeOK
<1>1. NotesInv /\ DeskInv /\ CountInv => TypeOK
  <2> SUFFICES ASSUME NotesInv, DeskInv, CountInv
               PROVE  TypeOK
    OBVIOUS
  <2>1. ASSUME NEW r \in Report, NEW u \in User
        PROVE  /\ failed[r] \in Nat /\ told[r][u] \in Nat
               /\ failed[r] <= emits[r] /\ told[r][u] <= emits[r]
    <3> DEFINE n == Cardinality(About(calls, r))
    <3>1. IsFiniteSet(About(calls, r))
      BY FS_Subset DEF CountInv, CallsInv, About
    <3>2. n \in Nat
      BY <3>1, FS_CardinalityType
    <3>3. Tally(r, u, n) /\ told[r][u] \in Nat /\ failed[r] \in Nat /\ emits[r] \in Nat
      BY TalliesMean, ReportAssumption DEF CountInv, CallsInv
    <3> HIDE DEF n
    <3> QED
      BY <3>2, <3>3 DEF Tally
  <2>2. \A r \in Report : Reporter[r] \in User /\ emits[r] \in 0 .. MaxEmits
    BY ReportAssumption DEF CountInv, CallsInv
  <2>3. failed \in [Report -> 0 .. MaxEmits]
    BY <2>1, <2>2, ReportAssumption DEF CountInv, CallsInv
  <2>4. told \in [Report -> [User -> 0 .. MaxEmits]]
    <3>1. ASSUME NEW r \in Report PROVE told[r] \in [User -> 0 .. MaxEmits]
      BY <2>1, <2>2, ReportAssumption DEF CountInv, CallsInv
    <3> QED
      BY <3>1 DEF CountInv, CallsInv
  <2> QED
    BY <2>3, <2>4 DEF TypeOK, NotesInv, DeskInv, DeskTypeOK, CountInv, CallsInv
<1> QED
  BY <1>1, ReportsInvariance, PTL

\* createNotification keeps the newest MAX_PER_USER of what was made, in
\* order, whatever was read meanwhile.
THEOREM ListsCorrect == Spec => []KeepsNewest
<1>1. NotesInv => KeepsNewest
  BY DEF NotesInv
<1> QED
  BY <1>1, ReportsInvariance, PTL

\* notification:new, notification:read and notification:read-all reach every
\* connection of the user, so that all show what notification:list would.
THEOREM BellsCorrect == Spec => []BellAgrees
<1>1. NotesInv /\ SameMarks => BellAgrees
  BY DEF NotesInv, ShowsList, SameMarks, BellAgrees
<1> QED
  BY <1>1, ReportsInvariance, PTL

\* However many emissions of a report await listAdminIds at once.
THEOREM EmissionsCorrect == Spec => []NotifiedOncePerEmission
<1>1. CountInv => NotifiedOncePerEmission
  BY DEF CountInv
<1> QED
  BY <1>1, ReportsInvariance, PTL

\* Role changes outdate connections and tokens, and nothing else tells
\* isAdmin of a connection from the role of its user: the token of the page
\* does not where the browser sends the cookie of a later sign-in.
THEOREM ResolvedCorrect == Spec => []ResolvedByAdmins
<1>1. DeskInv => ResolvedByAdmins
  BY DEF DeskInv
<1> QED
  BY <1>1, ReportsInvariance, PTL

\* The room of admins is told as one, of an emission and of a verdict, and
\* report:post-removed follows approvals only.
THEOREM DesksCorrect == Spec => []DesksFollowVerdicts
<1>1. DeskInv => DesksFollowVerdicts
  BY DEF DeskInv
<1> QED
  BY <1>1, ReportsInvariance, PTL

=============================================================================
