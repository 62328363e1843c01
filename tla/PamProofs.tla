------------------------------ MODULE PamProofs ------------------------------
(***************************************************************************)
(* What administrators can do to the list of users, for any number of      *)
(* sessions, any passwords and however their messages are cut: the list    *)
(* stays in order and implements a set of users that changes by one at a   *)
(* time, it changes only at the hands of an administrator, a               *)
(* removal leaves an administrator in it, and no message is forgotten.     *)
(***************************************************************************)
EXTENDS Pam, NatLemmas, SequenceTheorems, FiniteSetTheorems

------------------------------------------------------------------------------
(* Sequences.                                                              *)

\* A part of a sequence, by element.
LEMMA PartFacts ==
  ASSUME NEW S, NEW q \in Seq(S), NEW m \in Nat, m >= 1, NEW k \in Nat, k <= Len(q), m <= k + 1
  PROVE  /\ SubSeq(q, m, k) \in Seq(S) /\ Len(SubSeq(q, m, k)) = k - m + 1
         /\ \A i \in 1..k - m + 1 : SubSeq(q, m, k)[i] = q[m + i - 1]
<1>1. Len(q) \in Nat
  BY LenProperties
<1>2. \A i \in m..k : q[i] \in S
  <2> SUFFICES ASSUME NEW i \in m..k PROVE q[i] \in S
    OBVIOUS
  <2>1. i \in 1..Len(q)
    BY <1>1
  <2> QED
    BY <2>1, ElementOfSeq
<1>3. m \in Int /\ k \in Int
  OBVIOUS
<1>4. /\ SubSeq(q, m, k) \in Seq(S)
      /\ Len(SubSeq(q, m, k)) = IF m <= k THEN k - m + 1 ELSE 0
      /\ \A i \in 1..k - m + 1 : SubSeq(q, m, k)[i] = q[m + i - 1]
  BY <1>2, <1>3, SubSeqProperties
<1>5. (IF m <= k THEN k - m + 1 ELSE 0) = k - m + 1
  OBVIOUS
<1> QED
  BY <1>4, <1>5

\* Concatenation, by element.
LEMMA CatFacts ==
  ASSUME NEW S, NEW q \in Seq(S), NEW r \in Seq(S)
  PROVE  /\ q \o r \in Seq(S) /\ Len(q \o r) = Len(q) + Len(r)
         /\ Len(q) \in Nat /\ Len(r) \in Nat
         /\ \A i \in 1..Len(q) + Len(r) :
              (q \o r)[i] = IF i <= Len(q) THEN q[i] ELSE r[i - Len(q)]
BY ConcatProperties, LenProperties

------------------------------------------------------------------------------
(* users.c and list.c                                                      *)

\* A user, whatever its name and its role.
Account == [username : Nat, password : Seq(Nat), privilege_level : Nat]

Sorted(l) == \A i, j \in 1..Len(l) : i < j => l[i].username < l[j].username

\* The first element that has the name, if there is one.
LEMMA FoundFacts ==
  ASSUME NEW l \in Seq(Account), NEW name
  PROVE  LET i == user_get_if_exists(l, name)
         IN  \/ i = 0 /\ \A k \in 1..Len(l) : l[k].username # name
             \/ i \in 1..Len(l) /\ i # 0 /\ l[i].username = name
<1> DEFINE I == {k \in 1..Len(l) : l[k].username = name}
<1>1. user_get_if_exists(l, name) = IF I # {} THEN Min(I) ELSE 0
  BY DEF user_get_if_exists, SelectInSeq
<1>2. CASE I = {}
  BY <1>1, <1>2
<1>3. CASE I # {}
  <2>1. Len(l) \in Nat
    BY LenProperties
  <2>2. I \in SUBSET Nat
    BY <2>1
  <2>3. PICK x \in I : \A y \in I : x <= y
    BY <1>3, <2>2, LeastExists
  <2>4. Min(I) \in I
    BY <2>3, Zenon DEF Min
  <2> QED
    BY <1>1, <1>3, <2>4
<1> QED
  BY <1>2, <1>3

\* Where list_add puts a user.
LEMMA PositionFacts ==
  ASSUME NEW l \in Seq(Account), NEW u \in Account
  PROVE  LET i == Position(l, u)
         IN  /\ i \in 1..Len(l) + 1 /\ (i <= Len(l) => l[i].username >= u.username)
             /\ \A j \in 1..i - 1 : l[j].username < u.username
<1> DEFINE I == {i \in 1..Len(l) + 1 : i <= Len(l) => l[i].username >= u.username}
<1>1. Len(l) \in Nat
  BY LenProperties
<1>2. I \in SUBSET Nat /\ Len(l) + 1 \in I
  BY <1>1
<1>3. PICK x \in I : \A y \in I : x <= y
  BY <1>2, LeastExists
<1>4. ASSUME NEW j \in 1..x - 1 PROVE l[j].username < u.username
  <2>1. j \in 1..Len(l) /\ j \in 1..Len(l) + 1 /\ j < x
    BY <1>1, <1>3
  <2>2. l[j].username \in Nat /\ u.username \in Nat
    <3>1. l[j] \in Account
      BY <2>1, ElementOfSeq
    <3> QED
      BY <3>1 DEF Account
  <2>3. j \notin I
    BY <1>1, <1>3, <2>1
  <2>4. ~(l[j].username >= u.username)
    BY <2>1, <2>3
  <2> QED
    BY <2>2, <2>4
<1>5. \E i \in 1..Len(l) + 1 : /\ i <= Len(l) => l[i].username >= u.username
                               /\ \A j \in 1..i - 1 : l[j].username < u.username
  BY <1>3, <1>4
<1> QED
  BY <1>5, Zenon DEF Position

\* InsertAt, by element.
LEMMA InsertFacts ==
  ASSUME NEW l \in Seq(Account), NEW i \in Nat, i >= 1, i <= Len(l) + 1, NEW u \in Account
  PROVE  LET f == InsertAt(l, i, u)
         IN  /\ f \in Seq(Account) /\ Len(f) = Len(l) + 1
             /\ \A j \in 1..Len(l) + 1 : f[j] = IF j < i THEN l[j] ELSE IF j = i THEN u ELSE l[j - 1]
<1>1. Len(l) \in Nat
  BY LenProperties
<1>2. PICK a, b, c : a = SubSeq(l, 1, i - 1) /\ b = <<u>> /\ c = SubSeq(l, i, Len(l))
  OBVIOUS
<1>3. /\ a \in Seq(Account) /\ Len(a) = i - 1 /\ \A k \in 1..i - 1 : a[k] = l[k]
  <2>1. i - 1 \in Nat /\ 1 \in Nat /\ 1 >= 1 /\ i - 1 <= Len(l) /\ 1 <= i - 1 + 1
    BY <1>1
  <2>2. /\ a \in Seq(Account) /\ Len(a) = i - 1 - 1 + 1
        /\ \A k \in 1..i - 1 - 1 + 1 : a[k] = l[1 + k - 1]
    BY <1>2, <2>1, PartFacts
  <2> QED
    BY <2>2
<1>4. /\ c \in Seq(Account) /\ Len(c) = Len(l) - i + 1
      /\ \A k \in 1..Len(l) - i + 1 : c[k] = l[i + k - 1]
  BY <1>1, <1>2, PartFacts
<1>5. b \in Seq(Account) /\ Len(b) = 1 /\ b[1] = u
  BY <1>2
<1>6. PICK d, f : d = a \o b /\ f = d \o c
  OBVIOUS
<1>7. /\ d \in Seq(Account) /\ Len(d) = i
      /\ \A k \in 1..i : d[k] = IF k <= i - 1 THEN a[k] ELSE b[k - (i - 1)]
  <2>1. /\ d \in Seq(Account) /\ Len(d) = Len(a) + Len(b)
        /\ \A k \in 1..Len(a) + Len(b) : d[k] = IF k <= Len(a) THEN a[k] ELSE b[k - Len(a)]
    BY <1>3, <1>5, <1>6, CatFacts
  <2>2. Len(a) + Len(b) = i
    BY <1>3, <1>5
  <2> QED
    BY <1>3, <2>1, <2>2
<1>8. /\ f \in Seq(Account) /\ Len(f) = Len(l) + 1
      /\ \A k \in 1..Len(l) + 1 : f[k] = IF k <= i THEN d[k] ELSE c[k - i]
  <2>1. /\ f \in Seq(Account) /\ Len(f) = Len(d) + Len(c)
        /\ \A k \in 1..Len(d) + Len(c) : f[k] = IF k <= Len(d) THEN d[k] ELSE c[k - Len(d)]
    BY <1>4, <1>6, <1>7, CatFacts
  <2>2. Len(d) + Len(c) = Len(l) + 1
    BY <1>1, <1>4, <1>7
  <2> QED
    BY <1>7, <2>1, <2>2
<1>9. ASSUME NEW j \in 1..Len(l) + 1
      PROVE  f[j] = IF j < i THEN l[j] ELSE IF j = i THEN u ELSE l[j - 1]
  <2>1. CASE j < i
    <3>1. j \in 1..i - 1 /\ j \in 1..i /\ j <= i /\ j <= i - 1
      BY <2>1
    <3> QED
      BY <1>3, <1>7, <1>8, <2>1, <3>1
  <2>2. CASE j = i
    <3>1. j \in 1..i /\ j <= i /\ ~(j <= i - 1) /\ j - (i - 1) = 1 /\ ~(j < i)
      BY <2>2
    <3> QED
      BY <1>5, <1>7, <1>8, <2>2, <3>1
  <2>3. CASE j > i
    <3>1. /\ ~(j < i) /\ ~(j <= i) /\ j # i /\ j - i \in 1..Len(l) - i + 1
          /\ i + (j - i) - 1 = j - 1
      BY <1>1, <2>3
    <3> QED
      BY <1>4, <1>8, <3>1
  <2> QED
    BY <2>1, <2>2, <2>3
<1>10. f = InsertAt(l, i, u)
  BY <1>2, <1>6 DEF InsertAt
<1> QED
  BY <1>8, <1>9, <1>10

\* RemoveAt, by element.
LEMMA RemoveFacts ==
  ASSUME NEW l \in Seq(Account), NEW i \in Nat, i >= 1, i <= Len(l)
  PROVE  LET f == RemoveAt(l, i)
         IN  /\ f \in Seq(Account) /\ Len(f) = Len(l) - 1
             /\ \A j \in 1..Len(l) - 1 : f[j] = IF j < i THEN l[j] ELSE l[j + 1]
<1>1. Len(l) \in Nat
  BY LenProperties
<1>2. PICK a, c : a = SubSeq(l, 1, i - 1) /\ c = SubSeq(l, i + 1, Len(l))
  OBVIOUS
<1>3. /\ a \in Seq(Account) /\ Len(a) = i - 1 /\ \A k \in 1..i - 1 : a[k] = l[k]
  <2>1. i - 1 \in Nat /\ 1 \in Nat /\ 1 >= 1 /\ i - 1 <= Len(l) /\ 1 <= i - 1 + 1
    BY <1>1
  <2>2. /\ a \in Seq(Account) /\ Len(a) = i - 1 - 1 + 1
        /\ \A k \in 1..i - 1 - 1 + 1 : a[k] = l[1 + k - 1]
    BY <1>2, <2>1, PartFacts
  <2> QED
    BY <2>2
<1>4. /\ c \in Seq(Account) /\ Len(c) = Len(l) - i
      /\ \A k \in 1..Len(l) - i : c[k] = l[i + k]
  <2>1. i + 1 \in Nat /\ i + 1 >= 1 /\ i + 1 <= Len(l) + 1 /\ Len(l) <= Len(l)
    BY <1>1
  <2>2. /\ c \in Seq(Account) /\ Len(c) = Len(l) - (i + 1) + 1
        /\ \A k \in 1..Len(l) - (i + 1) + 1 : c[k] = l[i + 1 + k - 1]
    BY <1>1, <1>2, <2>1, PartFacts
  <2> QED
    BY <1>1, <2>2
<1>5. PICK f : f = a \o c
  OBVIOUS
<1>6. /\ f \in Seq(Account) /\ Len(f) = Len(l) - 1
      /\ \A k \in 1..Len(l) - 1 : f[k] = IF k <= i - 1 THEN a[k] ELSE c[k - (i - 1)]
  <2>1. /\ f \in Seq(Account) /\ Len(f) = Len(a) + Len(c)
        /\ \A k \in 1..Len(a) + Len(c) : f[k] = IF k <= Len(a) THEN a[k] ELSE c[k - Len(a)]
    BY <1>3, <1>4, <1>5, CatFacts
  <2>2. Len(a) + Len(c) = Len(l) - 1
    BY <1>1, <1>3, <1>4
  <2> QED
    BY <1>3, <2>1, <2>2
<1>7. ASSUME NEW j \in 1..Len(l) - 1 PROVE f[j] = IF j < i THEN l[j] ELSE l[j + 1]
  <2>1. CASE j < i
    <3>1. j \in 1..i - 1 /\ j <= i - 1
      BY <2>1
    <3> QED
      BY <1>3, <1>6, <2>1, <3>1
  <2>2. CASE ~(j < i)
    <3>1. ~(j <= i - 1) /\ j - (i - 1) \in 1..Len(l) - i /\ i + (j - (i - 1)) = j + 1
      BY <1>1, <2>2
    <3> QED
      BY <1>4, <1>6, <2>2, <3>1
  <2> QED
    BY <2>1, <2>2
<1>8. f = RemoveAt(l, i)
  BY <1>2, <1>5 DEF RemoveAt
<1> QED
  BY <1>6, <1>7, <1>8

\* The names in a list are numbers.
LEMMA AccountFacts ==
  ASSUME NEW l \in Seq(Account), NEW i \in 1..Len(l)
  PROVE  /\ l[i] \in Account /\ l[i].username \in Nat /\ l[i].privilege_level \in Nat
         /\ l[i].password \in Seq(Nat)
<1>1. l[i] \in Account
  BY ElementOfSeq
<1> QED
  BY <1>1 DEF Account

\* list_add keeps the order, and every name.
LEMMA AddFacts ==
  ASSUME NEW l \in Seq(Account), Sorted(l), NEW u \in Account
  PROVE  /\ list_add(l, u) \in Seq(Account) /\ Sorted(list_add(l, u))
         /\ Names(l) \subseteq Names(list_add(l, u))
<1>1. PICK i : i = Position(l, u)
  OBVIOUS
<1>2. /\ i \in 1..Len(l) + 1 /\ (i <= Len(l) => l[i].username >= u.username)
      /\ \A j \in 1..i - 1 : l[j].username < u.username
  BY <1>1, PositionFacts
<1>3. Len(l) \in Nat
  BY LenProperties
<1>4. CASE i <= Len(l) /\ l[i].username = u.username
  <2>1. list_add(l, u) = l
    BY <1>1, <1>4 DEF list_add
  <2> QED
    BY <2>1
<1>5. CASE ~(i <= Len(l) /\ l[i].username = u.username)
  <2>1. PICK f : f = InsertAt(l, i, u)
    OBVIOUS
  <2>2. list_add(l, u) = f
    BY <1>1, <1>5, <2>1 DEF list_add
  <2>3. i \in Nat /\ i >= 1 /\ i <= Len(l) + 1
    BY <1>2, <1>3
  <2>4. /\ f \in Seq(Account) /\ Len(f) = Len(l) + 1
        /\ \A j \in 1..Len(l) + 1 : f[j] = IF j < i THEN l[j] ELSE IF j = i THEN u ELSE l[j - 1]
    BY <2>1, <2>3, InsertFacts, SMTT(30)
  <2>5. u.username \in Nat
    BY DEF Account
  <2>6. ASSUME NEW k \in 1..Len(l), k >= i PROVE u.username < l[k].username
    <3>1. i \in 1..Len(l) /\ i <= Len(l)
      BY <1>3, <2>3, <2>6
    <3>2. l[i].username \in Nat /\ l[k].username \in Nat
      BY <3>1, AccountFacts
    <3>3. u.username < l[i].username
      BY <1>2, <1>5, <2>5, <3>1, <3>2
    <3>4. i < k => l[i].username < l[k].username
      BY <3>1 DEF Sorted
    <3>5. i < k \/ i = k
      BY <2>3, <2>6
    <3> QED
      BY <2>5, <3>2, <3>3, <3>4, <3>5
  <2>7. ASSUME NEW j \in 1..Len(f), NEW k \in 1..Len(f), j < k
        PROVE  f[j].username < f[k].username
    <3>1. j \in 1..Len(l) + 1 /\ k \in 1..Len(l) + 1
      BY <2>4
    <3>2. CASE k < i
      <4>1. j < i /\ j \in 1..Len(l) /\ k \in 1..Len(l)
        BY <1>3, <2>3, <2>7, <3>1, <3>2
      <4>2. f[j] = l[j] /\ f[k] = l[k]
        BY <2>4, <3>1, <3>2, <4>1
      <4> QED
        BY <2>7, <4>1, <4>2 DEF Sorted
    <3>3. CASE k = i
      <4>1. j < i /\ j \in 1..i - 1 /\ ~(k < i)
        BY <2>3, <2>7, <3>1, <3>3
      <4>2. f[j] = l[j] /\ f[k] = u
        BY <2>4, <3>1, <3>3, <4>1
      <4> QED
        BY <1>2, <4>1, <4>2
    <3>4. CASE k > i
      <4>1. k - 1 \in 1..Len(l) /\ k - 1 >= i /\ ~(k < i) /\ k # i
        BY <1>3, <2>3, <3>1, <3>4
      <4>2. f[k] = l[k - 1]
        BY <2>4, <3>1, <4>1
      <4>3. CASE j < i
        <5>1. j \in 1..Len(l) /\ j < k - 1
          BY <1>3, <2>3, <3>1, <4>1, <4>3
        <5>2. f[j] = l[j]
          BY <2>4, <3>1, <4>3
        <5> QED
          BY <4>1, <4>2, <5>1, <5>2 DEF Sorted
      <4>4. CASE j = i
        <5>1. f[j] = u
          BY <2>3, <2>4, <3>1, <4>4
        <5> QED
          BY <2>6, <4>1, <4>2, <5>1
      <4>5. CASE j > i
        <5>1. j - 1 \in 1..Len(l) /\ ~(j < i) /\ j # i /\ j - 1 < k - 1
          BY <1>3, <2>3, <2>7, <3>1, <4>1, <4>5
        <5>2. f[j] = l[j - 1]
          BY <2>4, <3>1, <5>1
        <5> QED
          BY <4>1, <4>2, <5>1, <5>2 DEF Sorted
      <4> QED
        BY <2>3, <3>1, <4>3, <4>4, <4>5
    <3> QED
      BY <2>3, <3>1, <3>2, <3>3, <3>4
  <2>8. Names(l) \subseteq Names(f)
    <3> SUFFICES ASSUME NEW k \in 1..Len(l) PROVE \E m \in 1..Len(f) : f[m].username = l[k].username
      BY DEF Names
    <3>1. CASE k < i
      <4>1. k \in 1..Len(l) + 1
        BY <1>3
      <4>2. f[k] = l[k] /\ k \in 1..Len(f)
        BY <2>4, <3>1, <4>1
      <4> QED
        BY <4>2
    <3>2. CASE ~(k < i)
      <4>1. k + 1 \in 1..Len(l) + 1 /\ ~(k + 1 < i) /\ k + 1 # i /\ k + 1 - 1 = k
        BY <1>3, <2>3, <3>2
      <4>2. f[k + 1] = l[k] /\ k + 1 \in 1..Len(f)
        BY <2>4, <4>1
      <4> QED
        BY <4>2
    <3> QED
      BY <3>1, <3>2
  <2> QED
    BY <2>2, <2>4, <2>7, <2>8 DEF Sorted
<1> QED
  BY <1>4, <1>5

\* A removal keeps the order, and every user but one.
LEMMA RemovedFacts ==
  ASSUME NEW l \in Seq(Account), Sorted(l), NEW i \in 1..Len(l)
  PROVE  /\ RemoveAt(l, i) \in Seq(Account) /\ Sorted(RemoveAt(l, i))
         /\ \A k \in 1..Len(l) : k # i => \E m \in 1..Len(RemoveAt(l, i)) : RemoveAt(l, i)[m] = l[k]
<1>1. PICK f : f = RemoveAt(l, i)
  OBVIOUS
<1>2. Len(l) \in Nat
  BY LenProperties
<1>3. i \in Nat /\ i >= 1 /\ i <= Len(l)
  BY <1>2
<1>4. /\ f \in Seq(Account) /\ Len(f) = Len(l) - 1
      /\ \A j \in 1..Len(l) - 1 : f[j] = IF j < i THEN l[j] ELSE l[j + 1]
  BY <1>1, <1>3, RemoveFacts
<1>5. ASSUME NEW j \in 1..Len(f), NEW k \in 1..Len(f), j < k
      PROVE  f[j].username < f[k].username
  <2>1. PICK a, b \in 1..Len(l) : a < b /\ f[j] = l[a] /\ f[k] = l[b]
    <3>1. /\ j \in 1..Len(l) - 1 /\ k \in 1..Len(l) - 1 /\ j \in 1..Len(l) /\ k \in 1..Len(l)
          /\ j + 1 \in 1..Len(l) /\ k + 1 \in 1..Len(l) /\ j + 1 < k + 1 /\ j < k + 1
      BY <1>2, <1>4, <1>5
    <3>2. CASE k < i
      <4>1. j < i
        BY <1>3, <1>5, <3>1, <3>2
      <4> QED
        BY <1>4, <1>5, <3>1, <3>2, <4>1
    <3>3. CASE ~(k < i) /\ j < i
      BY <1>4, <3>1, <3>3
    <3>4. CASE ~(k < i) /\ ~(j < i)
      BY <1>4, <3>1, <3>4
    <3> QED
      BY <3>2, <3>3, <3>4
  <2> QED
    BY <2>1 DEF Sorted
<1>6. ASSUME NEW k \in 1..Len(l), k # i PROVE \E m \in 1..Len(f) : f[m] = l[k]
  <2>1. CASE k < i
    <3>1. k \in 1..Len(l) - 1
      BY <1>2, <1>3, <2>1
    <3> QED
      BY <1>4, <2>1, <3>1
  <2>2. CASE ~(k < i)
    <3>1. k - 1 \in 1..Len(l) - 1 /\ ~(k - 1 < i) /\ k - 1 + 1 = k
      BY <1>2, <1>3, <1>6, <2>2
    <3>2. f[k - 1] = l[k]
      BY <1>4, <3>1
    <3> QED
      BY <1>4, <3>1, <3>2
  <2> QED
    BY <2>1, <2>2
<1> QED
  BY <1>1, <1>4, <1>5, <1>6 DEF Sorted

\* A change of a user that leaves its name keeps the order and the names.
LEMMA ChangedFacts ==
  ASSUME NEW l \in Seq(Account), Sorted(l), NEW i \in 1..Len(l), NEW u \in Account,
         u.username = l[i].username
  PROVE  /\ [l EXCEPT ![i] = u] \in Seq(Account) /\ Sorted([l EXCEPT ![i] = u])
         /\ Names([l EXCEPT ![i] = u]) = Names(l)
<1>1. PICK f : f = [l EXCEPT ![i] = u]
  OBVIOUS
<1>2. /\ f \in Seq(Account) /\ Len(f) = Len(l)
      /\ \A j \in 1..Len(l) : f[j] = IF j = i THEN u ELSE l[j]
  BY <1>1, ExceptSeq
<1>3. \A j \in 1..Len(l) : f[j].username = l[j].username
  BY <1>2
<1>4. Sorted(f)
  BY <1>2, <1>3 DEF Sorted
<1>5. Names(f) = Names(l)
  BY <1>2, <1>3 DEF Names
<1> QED
  BY <1>1, <1>2, <1>4, <1>5

\* The elements of a list.
LEMMA ToSetFacts ==
  ASSUME NEW l \in Seq(Account)
  PROVE  /\ Len(l) \in Nat /\ \A i \in 1..Len(l) : l[i] \in ToSet(l)
         /\ \A x \in ToSet(l) : \E i \in 1..Len(l) : l[i] = x
<1>1. Len(l) \in Nat /\ DOMAIN l = 1..Len(l)
  BY LenProperties
<1> QED
  BY <1>1 DEF ToSet

\* list_add adds one user, if there was none of its name.
LEMMA AddedSet ==
  ASSUME NEW l \in Seq(Account), NEW u \in Account, user_get_if_exists(l, u.username) = 0
  PROVE  /\ ToSet(list_add(l, u)) = ToSet(l) \cup {u}
         /\ \A v \in ToSet(l) : v.username # u.username
<1>1. PICK i : i = Position(l, u)
  OBVIOUS
<1>2. i \in 1..Len(l) + 1
  BY <1>1, PositionFacts
<1>3. \A k \in 1..Len(l) : l[k].username # u.username
  BY FoundFacts
<1>4. Len(l) \in Nat /\ \A x : x \in ToSet(l) <=> \E k \in 1..Len(l) : l[k] = x
  BY ToSetFacts
<1>5. i \in Nat /\ i >= 1 /\ i <= Len(l) + 1 /\ (i <= Len(l) => i \in 1..Len(l))
  BY <1>2, <1>4
<1>6. PICK f : f = InsertAt(l, i, u)
  OBVIOUS
<1>7. list_add(l, u) = f
  BY <1>1, <1>3, <1>5, <1>6 DEF list_add
<1>8. /\ f \in Seq(Account) /\ Len(f) = Len(l) + 1
      /\ \A j \in 1..Len(l) + 1 : f[j] = IF j < i THEN l[j] ELSE IF j = i THEN u ELSE l[j - 1]
  BY <1>5, <1>6, InsertFacts, SMTT(30)
<1>9. \A x : x \in ToSet(f) <=> \E k \in 1..Len(l) + 1 : f[k] = x
  BY <1>8, ToSetFacts, SMTT(30)
<1>10. ASSUME NEW x \in ToSet(f) PROVE x \in ToSet(l) \cup {u}
  <2>1. PICK k \in 1..Len(l) + 1 : f[k] = x
    BY <1>9, <1>10
  <2>2. CASE k < i
    <3>1. k \in 1..Len(l) /\ x = l[k]
      BY <1>4, <1>5, <1>8, <2>1, <2>2
    <3> QED
      BY <1>4, <3>1
  <2>3. CASE k = i
    BY <1>5, <1>8, <2>1, <2>3
  <2>4. CASE ~(k < i) /\ k # i
    <3>1. k - 1 \in 1..Len(l) /\ x = l[k - 1]
      BY <1>4, <1>5, <1>8, <2>1, <2>4
    <3> QED
      BY <1>4, <3>1
  <2> QED
    BY <2>2, <2>3, <2>4
<1>11. ASSUME NEW x \in ToSet(l) PROVE x \in ToSet(f)
  <2>1. PICK k \in 1..Len(l) : l[k] = x
    BY <1>4, <1>11
  <2>2. CASE k < i
    <3>1. k \in 1..Len(l) + 1 /\ f[k] = x
      BY <1>4, <1>5, <1>8, <2>1, <2>2
    <3> QED
      BY <1>9, <3>1
  <2>3. CASE ~(k < i)
    <3>1. k + 1 \in 1..Len(l) + 1 /\ ~(k + 1 < i) /\ k + 1 # i /\ k + 1 - 1 = k
      BY <1>4, <1>5, <2>1, <2>3
    <3>2. f[k + 1] = x
      BY <1>8, <2>1, <3>1
    <3> QED
      BY <1>9, <3>1, <3>2
  <2> QED
    BY <2>2, <2>3
<1>12. u \in ToSet(f)
  <2>1. i \in 1..Len(l) + 1 /\ f[i] = u
    BY <1>2, <1>5, <1>8
  <2> QED
    BY <1>9, <2>1
<1>13. ToSet(f) = ToSet(l) \cup {u}
  BY <1>10, <1>11, <1>12
<1> QED
  BY <1>3, <1>4, <1>7, <1>13

\* In a sorted list every user is there once.
LEMMA SortedOnce ==
  ASSUME NEW l \in Seq(Account), Sorted(l), NEW i \in 1..Len(l), NEW j \in 1..Len(l), i # j
  PROVE  l[i].username # l[j].username /\ l[i] # l[j]
<1>1. Len(l) \in Nat /\ l[i].username \in Nat /\ l[j].username \in Nat
  BY AccountFacts, LenProperties
<1>2. i < j \/ j < i
  BY <1>1
<1>3. l[i].username < l[j].username \/ l[j].username < l[i].username
  BY <1>2 DEF Sorted
<1>4. PICK x, y \in Nat : x = l[i].username /\ y = l[j].username
  BY <1>1
<1>5. x # y
  BY <1>3, <1>4
<1> QED
  BY <1>4, <1>5

\* A removal takes one user out,
LEMMA RemovedSet ==
  ASSUME NEW l \in Seq(Account), Sorted(l), NEW i \in 1..Len(l)
  PROVE  l[i] \in ToSet(l) /\ ToSet(RemoveAt(l, i)) = ToSet(l) \ {l[i]}
<1>1. PICK f : f = RemoveAt(l, i)
  OBVIOUS
<1>2. Len(l) \in Nat /\ \A x : x \in ToSet(l) <=> \E k \in 1..Len(l) : l[k] = x
  BY ToSetFacts
<1>3. i \in Nat /\ i >= 1 /\ i <= Len(l)
  BY <1>2
<1>4. /\ f \in Seq(Account) /\ Len(f) = Len(l) - 1
      /\ \A j \in 1..Len(l) - 1 : f[j] = IF j < i THEN l[j] ELSE l[j + 1]
  BY <1>1, <1>3, RemoveFacts
<1>5. \A x : x \in ToSet(f) <=> \E k \in 1..Len(l) - 1 : f[k] = x
  BY <1>4, ToSetFacts
<1>6. ASSUME NEW x \in ToSet(f) PROVE x \in ToSet(l) \ {l[i]}
  <2>1. PICK k \in 1..Len(l) - 1 : f[k] = x
    BY <1>5, <1>6
  <2>2. PICK j \in 1..Len(l) : j # i /\ l[j] = x
    <3>1. CASE k < i
      BY <1>2, <1>3, <1>4, <2>1, <3>1
    <3>2. CASE ~(k < i)
      <4>1. k + 1 \in 1..Len(l) /\ k + 1 # i /\ l[k + 1] = x
        BY <1>2, <1>3, <1>4, <2>1, <3>2
      <4> QED
        BY <4>1
    <3> QED
      BY <3>1, <3>2
  <2> QED
    BY <1>2, <2>2, SortedOnce
<1>7. ASSUME NEW x \in ToSet(l), x # l[i] PROVE x \in ToSet(f)
  <2>1. PICK k \in 1..Len(l) : l[k] = x
    BY <1>2, <1>7
  <2>2. k # i
    BY <1>7, <2>1
  <2>3. PICK m \in 1..Len(f) : f[m] = x
    BY <1>1, <2>1, <2>2, RemovedFacts
  <2> QED
    BY <1>4, <1>5, <2>3
<1>8. l[i] \in ToSet(l)
  BY <1>2
<1> QED
  BY <1>1, <1>6, <1>7, <1>8

\* and a change replaces one.
LEMMA ChangedSet ==
  ASSUME NEW l \in Seq(Account), Sorted(l), NEW i \in 1..Len(l), NEW u \in Account
  PROVE  l[i] \in ToSet(l) /\ ToSet([l EXCEPT ![i] = u]) = (ToSet(l) \ {l[i]}) \cup {u}
<1>1. PICK f : f = [l EXCEPT ![i] = u]
  OBVIOUS
<1>2. /\ f \in Seq(Account) /\ Len(f) = Len(l)
      /\ \A j \in 1..Len(l) : f[j] = IF j = i THEN u ELSE l[j]
  BY <1>1, ExceptSeq
<1>3. \A x : x \in ToSet(l) <=> \E k \in 1..Len(l) : l[k] = x
  BY ToSetFacts
<1>4. \A x : x \in ToSet(f) <=> \E k \in 1..Len(l) : f[k] = x
  BY <1>2, ToSetFacts
<1>5. \A k \in 1..Len(l) : k # i => l[k] # l[i]
  BY SortedOnce
<1>6. ASSUME NEW x \in ToSet(f) PROVE x \in (ToSet(l) \ {l[i]}) \cup {u}
  BY <1>2, <1>3, <1>4, <1>5, <1>6
<1>7. ASSUME NEW x \in (ToSet(l) \ {l[i]}) \cup {u} PROVE x \in ToSet(f)
  BY <1>2, <1>3, <1>4, <1>5, <1>7
<1>8. l[i] \in ToSet(l)
  BY <1>3
<1> QED
  BY <1>1, <1>6, <1>7, <1>8

------------------------------------------------------------------------------
(* The bytes of a request.                                                 *)

\* A byte that is missing is 0.
LEMMA ByteNat == ASSUME NEW b \in Seq(Nat), NEW i \in Nat, i >= 1 PROVE Byte(b, i) \in Nat
<1>1. Len(b) \in Nat
  BY LenProperties
<1>2. CASE i <= Len(b)
  <2>1. i \in 1..Len(b)
    BY <1>1, <1>2
  <2>2. b[i] \in Nat
    BY <2>1, ElementOfSeq
  <2> QED
    BY <1>2, <2>2 DEF Byte
<1>3. CASE ~(i <= Len(b))
  BY <1>3 DEF Byte
<1> QED
  BY <1>2, <1>3

\* A function on 1..n is a sequence.
LEMMA TableSeq == ASSUME NEW n \in Nat, NEW f \in [1..n -> Nat] PROVE f \in Seq(Nat)
OBVIOUS

\* The fields of the body of a request.
LEMMA FieldFacts ==
  ASSUME NEW b \in Seq(Nat), NEW i \in Nat, i >= 1
  PROVE  /\ NameAt(b, i) \in Nat /\ PasswordAt(b, i) \in Seq(Nat) /\ Byte(b, i) \in Nat
         /\ After(b, i) \in Nat /\ After(b, i) >= 1
<1>1. \A k \in Nat : Byte(b, i + k) \in Nat
  <2> SUFFICES ASSUME NEW k \in Nat PROVE Byte(b, i + k) \in Nat
    OBVIOUS
  <2>1. i + k \in Nat /\ i + k >= 1
    OBVIOUS
  <2> QED
    BY <2>1, ByteNat
<1>2. Byte(b, i) \in Nat
  BY ByteNat
<1>3. NameAt(b, i) \in Nat
  BY <1>1 DEF NameAt
<1>4. After(b, i) \in Nat /\ After(b, i) >= 1
  BY <1>2 DEF After
<1>5. PICK f : f = Field(b, i)
  OBVIOUS
<1>6. f \in Seq(Nat)
  <2>1. PICK n : n = Byte(b, i)
    OBVIOUS
  <2>2. n \in Nat /\ f = [k \in 1..n |-> Byte(b, i + k)]
    BY <1>2, <1>5, <2>1 DEF Field
  <2>3. \A k \in 1..n : k \in Nat
    BY <2>2
  <2>4. \A k \in 1..n : Byte(b, i + k) \in Nat
    BY <1>1, <2>3
  <2>5. f \in [1..n -> Nat]
    BY <2>2, <2>4
  <2> QED
    BY <2>2, <2>5, TableSeq
<1>7. PasswordAt(b, i) \in Seq(Nat)
  <2> DEFINE Z == {k \in 1..Len(f) : f[k] = 0}
             e == IF Z # {} THEN Min(Z) ELSE 0
  <2>1. PasswordAt(b, i) = IF e = 0 THEN f ELSE SubSeq(f, 1, e - 1)
    BY <1>5 DEF PasswordAt, SelectInSeq
  <2>2. CASE Z = {}
    BY <1>6, <2>1, <2>2
  <2>3. CASE Z # {}
    <3>1. Len(f) \in Nat
      BY <1>6, LenProperties
    <3>2. Z \in SUBSET Nat
      BY <3>1
    <3>3. PICK x \in Z : \A y \in Z : x <= y
      BY <2>3, <3>2, LeastExists
    <3>4. Min(Z) \in Z
      BY <3>3, Zenon DEF Min
    <3>5. e \in 1..Len(f)
      BY <2>3, <3>4
    <3> HIDE DEF e
    <3>6. e # 0 /\ e - 1 \in Nat /\ e - 1 <= Len(f) /\ 1 <= e - 1 + 1 /\ 1 >= 1 /\ 1 \in Nat
      BY <3>1, <3>5
    <3>7. SubSeq(f, 1, e - 1) \in Seq(Nat)
      BY <1>6, <3>6, PartFacts
    <3> QED
      BY <2>1, <3>6, <3>7
  <2> QED
    BY <2>2, <2>3
<1> QED
  BY <1>2, <1>3, <1>4, <1>7

------------------------------------------------------------------------------
(* The methods.                                                            *)

\* One user is created, removed (and not by itself) or changed, and the others stay.
OneUser(l, m, me) ==
  \/ \E u \in Account :
       /\ \A v \in ToSet(l) : v.username # u.username
       /\ ToSet(m) = ToSet(l) \cup {u}
  \/ \E u \in ToSet(l) : u.username # me /\ ToSet(m) = ToSet(l) \ {u}
  \/ \E u \in ToSet(l), v \in Account :
       /\ \/ v = [u EXCEPT !.password = v.password]
          \/ v = [u EXCEPT !.privilege_level = v.privilege_level]
       /\ ToSet(m) = (ToSet(l) \ {u}) \cup {v}

\* What a request of `me' may make of a list.
Allowed(l, m, me) ==
  /\ m \in Seq(Account) /\ Sorted(m)
  /\ m # l => user_is_admin(l, me) /\ OneUser(l, m, me)
  /\ Names(l) \ Names(m) # {} => HasAdmin(m)

\* A request may always leave the list as it is.
LEMMA AllowedSame ==
  ASSUME NEW l \in Seq(Account), Sorted(l), NEW me PROVE Allowed(l, l, me)
BY DEF Allowed

\* Users whose names and privileges are within their bounds.
Typed(l) == ToSet(l) \subseteq User(Seq(Nat))

\* The name and the privilege in the body of a request for method m are.
Fits(m, b) ==
  /\ NameAt(b, 1) \in 0..Long
  /\ m = ADD => Byte(b, After(b, After(b, 1))) \in 0..255
  /\ m = CHANGE_ROLE => Byte(b, After(b, 1)) \in 0..255

\* The status, and the count of administrators, that a method leaves.
Counted(r, more) ==
  /\ r.status \in 0..6 \cup {Uninit, NullRead}
  /\ r.admins = totalAdmins \/ (more /\ r.admins = totalAdmins + 1)

\* handle_add_user: what it does.
LEMMA AddUserResult ==
  ASSUME NEW me, NEW b
  PROVE  LET i == After(b, 1)
             u == [username |-> NameAt(b, 1), password |-> PasswordAt(b, i),
                   privilege_level |-> Byte(b, After(b, i))]
             r == handle_add_user(me, b)
         IN  /\ Counted(r, TRUE)
             /\ \/ r.list = usersList
                \/ /\ user_is_admin(usersList, me) /\ NameAt(b, 1) # Long
                   /\ user_get_if_exists(usersList, NameAt(b, 1)) = 0
                   /\ r.list = list_add(usersList, u)
<1> DEFINE i == After(b, 1)
           x == NameAt(b, 1)
           p == PasswordAt(b, i)
           t == Byte(b, After(b, i))
           u == [username |-> x, password |-> p, privilege_level |-> t]
           r == handle_add_user(me, b)
<1>1. CASE ~user_is_admin(usersList, me)
  <2>1. r = [list |-> usersList, admins |-> totalAdmins, status |-> UNAUTHORIZED]
    BY <1>1 DEF handle_add_user, Now, Result
  <2> QED
    BY <2>1 DEF Counted, UNAUTHORIZED
<1>2. CASE user_is_admin(usersList, me)
  <2>1. PICK s : s = user_create(usersList, totalAdmins, x, p, t)
    OBVIOUS
  <2>2. PICK answers : answers = [USER_OK |-> SUCCESS, USER_ALREADYEXISTS |-> USER_ALREADY_EXISTS,
                                  USER_CREDTOOLONG |-> CREDTOOLONG]
    OBVIOUS
  <2>3. r = [s EXCEPT !.status = answers[@]]
    BY <1>2, <2>1, <2>2 DEF handle_add_user, Answer
  <2>4. /\ answers["USER_OK"] \in 0..6 /\ answers["USER_ALREADYEXISTS"] \in 0..6
        /\ answers["USER_CREDTOOLONG"] \in 0..6
    BY <2>2 DEF SUCCESS, USER_ALREADY_EXISTS, CREDTOOLONG
  <2> HIDE DEF x, p, t, r
  <2>5. CASE \/ s = [list |-> usersList, admins |-> totalAdmins, status |-> "USER_CREDTOOLONG"]
             \/ s = [list |-> usersList, admins |-> totalAdmins, status |-> "USER_ALREADYEXISTS"]
    <3>1. r.list = usersList /\ r.admins = totalAdmins /\ r.status \in 0..6
      BY <2>3, <2>4, <2>5
    <3> QED
      BY <3>1 DEF Counted, r
  <2>6. CASE /\ x # Long /\ user_get_if_exists(usersList, x) = 0
             /\ s = Result(list_add(usersList, u),
                           IF t = USER_PRIVILEGE_ADMIN THEN totalAdmins + 1 ELSE totalAdmins,
                           "USER_OK")
    <3>1. PICK m, a : /\ m = list_add(usersList, u)
                      /\ a = IF t = USER_PRIVILEGE_ADMIN THEN totalAdmins + 1 ELSE totalAdmins
      OBVIOUS
    <3>2. s = [list |-> m, admins |-> a, status |-> "USER_OK"]
      BY <2>6, <3>1 DEF Result
    <3>3. r.list = m /\ r.admins = a /\ r.status \in 0..6
      BY <2>3, <2>4, <3>2
    <3>4. Counted(r, TRUE)
      BY <3>1, <3>3 DEF Counted
    <3> QED
      BY <1>2, <2>6, <3>1, <3>3, <3>4 DEF r, x, p, t
  <2> QED
    BY <2>1, <2>5, <2>6 DEF user_create, Result
<1> QED
  BY <1>1, <1>2

\* The user that a request to add one makes.
LEMMA NewUser ==
  ASSUME NEW b \in Seq(Nat)
  PROVE  LET i == After(b, 1)
         IN  [username |-> NameAt(b, 1), password |-> PasswordAt(b, i),
              privilege_level |-> Byte(b, After(b, i))] \in Account
<1> DEFINE i == After(b, 1)
<1>1. NameAt(b, 1) \in Nat /\ i \in Nat /\ i >= 1
  BY FieldFacts
<1>2. PasswordAt(b, i) \in Seq(Nat) /\ After(b, i) \in Nat /\ After(b, i) >= 1
  BY <1>1, FieldFacts
<1>3. Byte(b, After(b, i)) \in Nat
  BY <1>2, FieldFacts
<1> QED
  BY <1>1, <1>2, <1>3 DEF Account

\* handle_add_user
LEMMA AddUserAllowed ==
  ASSUME usersList \in Seq(Account), Sorted(usersList), NEW me, NEW b \in Seq(Nat)
  PROVE  /\ Allowed(usersList, handle_add_user(me, b).list, me)
         /\ Typed(usersList) /\ Fits(ADD, b) => Typed(handle_add_user(me, b).list)
<1> DEFINE i == After(b, 1)
           x == NameAt(b, 1)
           p == PasswordAt(b, i)
           t == Byte(b, After(b, i))
<1>1. PICK u, m : /\ u = [username |-> x, password |-> p, privilege_level |-> t]
                  /\ m = handle_add_user(me, b).list
  OBVIOUS
<1>2. u \in Account
  BY <1>1, NewUser
<1>3. \/ m = usersList
      \/ /\ user_is_admin(usersList, me) /\ x # Long
         /\ user_get_if_exists(usersList, x) = 0 /\ m = list_add(usersList, u)
  BY <1>1, AddUserResult
<1>4. CASE m = usersList
  BY <1>1, <1>4, AllowedSame
<1>5. CASE /\ user_is_admin(usersList, me) /\ x # Long
           /\ user_get_if_exists(usersList, x) = 0 /\ m = list_add(usersList, u)
  <2>1. u.username = x /\ u.privilege_level = t /\ u.password = p
    BY <1>1
  <2>2. /\ m \in Seq(Account) /\ Sorted(m)
        /\ Names(usersList) \subseteq Names(m)
    BY <1>2, <1>5, AddFacts
  <2>3. /\ ToSet(m) = ToSet(usersList) \cup {u}
        /\ \A v \in ToSet(usersList) : v.username # u.username
    BY <1>2, <1>5, <2>1, AddedSet
  <2>4. Allowed(usersList, m, me)
    BY <1>2, <1>5, <2>2, <2>3 DEF Allowed, OneUser
  <2>5. ASSUME Fits(ADD, b) PROVE u \in User(Seq(Nat))
    <3>1. x \in 0..Long /\ t \in 0..255
      BY <2>5 DEF Fits
    <3> HIDE DEF x, t, p
    <3>2. x \in Name
      BY <1>5, <3>1, MaxNameAssumption DEF Long, Name
    <3>3. p \in Seq(Nat)
      BY <1>2, <2>1 DEF Account
    <3> QED
      BY <1>1, <3>1, <3>2, <3>3 DEF User
  <2> QED
    BY <1>1, <2>3, <2>4, <2>5 DEF Typed
<1> QED
  BY <1>3, <1>4, <1>5

\* handle_remove_user: what it does.
LEMMA RemoveUserResult ==
  ASSUME NEW me, NEW b
  PROVE  LET name == NameAt(b, 1)
             i == user_get_if_exists(usersList, name)
             r == handle_remove_user(me, b)
         IN  /\ Counted(r, FALSE)
             /\ \/ r.list = usersList
                \/ /\ user_is_admin(usersList, me) /\ me # name /\ i # 0
                   /\ r.list = RemoveAt(usersList, i)
<1> DEFINE name == NameAt(b, 1)
           i == user_get_if_exists(usersList, name)
           r == handle_remove_user(me, b)
           s == user_remove(usersList, totalAdmins, name)
<1>1. PICK answers : answers = [USER_OK |-> SUCCESS, USER_BADUSERNAME |-> BADUSERNAME]
  OBVIOUS
<1>2. answers["USER_OK"] \in 0..6 /\ answers["USER_BADUSERNAME"] \in 0..6
  BY <1>1 DEF SUCCESS, BADUSERNAME
<1>3. \/ r = Now(UNAUTHORIZED) \/ r = Now(NullRead)
      \/ /\ user_is_admin(usersList, me) /\ me # name
         /\ r = [s EXCEPT !.status = answers[@]]
  BY <1>1 DEF handle_remove_user, Answer
<1> HIDE DEF r, name
<1>4. CASE r = Now(UNAUTHORIZED) \/ r = Now(NullRead)
  BY <1>4 DEF Now, Result, Counted, UNAUTHORIZED, r, name
<1>5. CASE /\ user_is_admin(usersList, me) /\ me # name
           /\ r = [s EXCEPT !.status = answers[@]]
  <2>1. CASE i = 0
    <3>1. s = [list |-> usersList, admins |-> totalAdmins, status |-> "USER_BADUSERNAME"]
      BY <2>1 DEF user_remove, Result
    <3> HIDE DEF s
    <3>2. r.list = usersList /\ r.admins = totalAdmins /\ r.status \in 0..6
      BY <1>2, <1>5, <3>1
    <3> QED
      BY <3>2 DEF Counted, r, name
  <2>2. CASE i # 0
    <3>1. PICK m : m = RemoveAt(usersList, i)
      OBVIOUS
    <3>2. s = [list |-> m, admins |-> totalAdmins, status |-> "USER_OK"]
      BY <2>2, <3>1 DEF user_remove, Result, list_remove
    <3> HIDE DEF s
    <3>3. r.list = m /\ r.admins = totalAdmins /\ r.status \in 0..6
      BY <1>2, <1>5, <3>2
    <3> QED
      BY <1>5, <2>2, <3>1, <3>3 DEF Counted, r, name
  <2> QED
    BY <2>1, <2>2
<1> QED
  BY <1>3, <1>4, <1>5

\* handle_remove_user: the administrator that asks for it stays.
LEMMA RemoveUserAllowed ==
  ASSUME usersList \in Seq(Account), Sorted(usersList), NEW me, NEW b \in Seq(Nat)
  PROVE  /\ Allowed(usersList, handle_remove_user(me, b).list, me)
         /\ Typed(usersList) => Typed(handle_remove_user(me, b).list)
<1> DEFINE name == NameAt(b, 1)
           i == user_get_if_exists(usersList, name)
           r == handle_remove_user(me, b).list
<1>1. \/ r = usersList
      \/ user_is_admin(usersList, me) /\ me # name /\ i # 0 /\ r = RemoveAt(usersList, i)
  BY RemoveUserResult
<1> HIDE DEF r, name
<1>2. CASE r = usersList
  BY <1>2, AllowedSame DEF r
<1>3. CASE user_is_admin(usersList, me) /\ me # name /\ i # 0 /\ r = RemoveAt(usersList, i)
  <2>1. i \in 1..Len(usersList) /\ usersList[i].username = name
    BY <1>3, FoundFacts
  <2>2. PICK k : k = user_get_if_exists(usersList, me)
    OBVIOUS
  <2>3. /\ k \in 1..Len(usersList) /\ usersList[k].username = me
        /\ usersList[k].privilege_level = USER_PRIVILEGE_ADMIN
    BY <1>3, <2>2, FoundFacts DEF user_is_admin
  <2> HIDE DEF i
  <2>4. k # i
    BY <1>3, <2>1, <2>3
  <2>5. /\ r \in Seq(Account) /\ Sorted(r)
        /\ \E m \in 1..Len(r) : r[m] = usersList[k]
    BY <1>3, <2>1, <2>3, <2>4, RemovedFacts
  <2>6. HasAdmin(r)
    BY <2>3, <2>5 DEF HasAdmin
  <2>7. usersList[i] \in ToSet(usersList) /\ ToSet(r) = ToSet(usersList) \ {usersList[i]}
    BY <1>3, <2>1, RemovedSet
  <2>8. OneUser(usersList, r, me)
    BY <1>3, <2>1, <2>7 DEF OneUser
  <2>9. Typed(usersList) => Typed(r)
    BY <2>7 DEF Typed
  <2> QED
    BY <1>3, <2>5, <2>6, <2>8, <2>9 DEF Allowed, r
<1> QED
  BY <1>1, <1>2, <1>3

\* handle_change_password: what it does.
LEMMA ChangePasswordResult ==
  ASSUME NEW me, NEW b
  PROVE  LET r == handle_change_password(me, b)
             i == user_get_if_exists(usersList, NameAt(b, 1))
         IN  /\ Counted(r, FALSE)
             /\ \/ r.list = usersList
                \/ /\ user_is_admin(usersList, me) /\ i # 0
                   /\ r.list = [usersList EXCEPT ![i].password =
                                  Overwritten(@, PasswordAt(b, After(b, 1)))]
<1> DEFINE name == NameAt(b, 1)
           p == PasswordAt(b, After(b, 1))
           i == user_get_if_exists(usersList, name)
           r == handle_change_password(me, b)
           s == user_change_password(usersList, totalAdmins, name, p)
<1>1. PICK answers : answers = [USER_OK |-> SUCCESS, USER_BADUSERNAME |-> PAM_ERROR]
  OBVIOUS
<1>2. answers["USER_OK"] \in 0..6 /\ answers["USER_BADUSERNAME"] \in 0..6
  BY <1>1 DEF SUCCESS, PAM_ERROR
<1>3. \/ r = Now(UNAUTHORIZED)
      \/ user_is_admin(usersList, me) /\ r = [s EXCEPT !.status = answers[@]]
  BY <1>1 DEF handle_change_password, Answer
<1> HIDE DEF r, name, p
<1>4. CASE r = Now(UNAUTHORIZED)
  BY <1>4 DEF Now, Result, Counted, UNAUTHORIZED, r, name
<1>5. CASE user_is_admin(usersList, me) /\ r = [s EXCEPT !.status = answers[@]]
  <2>1. CASE i = 0
    <3>1. s = [list |-> usersList, admins |-> totalAdmins, status |-> "USER_BADUSERNAME"]
      BY <2>1 DEF user_change_password, Result
    <3> HIDE DEF s
    <3>2. r.list = usersList /\ r.admins = totalAdmins /\ r.status \in 0..6
      BY <1>2, <1>5, <3>1
    <3> QED
      BY <3>2 DEF Counted, r, name
  <2>2. CASE i # 0
    <3>1. PICK m : m = [usersList EXCEPT ![i].password = Overwritten(@, p)]
      OBVIOUS
    <3>2. s = [list |-> m, admins |-> totalAdmins, status |-> "USER_OK"]
      BY <2>2, <3>1 DEF user_change_password, Result
    <3> HIDE DEF s
    <3>3. r.list = m /\ r.admins = totalAdmins /\ r.status \in 0..6
      BY <1>2, <1>5, <3>2
    <3> QED
      BY <1>5, <2>2, <3>1, <3>3 DEF Counted, r, name, p
  <2> QED
    BY <2>1, <2>2
<1> QED
  BY <1>3, <1>4, <1>5

\* handle_change_password
LEMMA ChangePasswordAllowed ==
  ASSUME usersList \in Seq(Account), Sorted(usersList), NEW me, NEW b \in Seq(Nat)
  PROVE  /\ Allowed(usersList, handle_change_password(me, b).list, me)
         /\ Typed(usersList) => Typed(handle_change_password(me, b).list)
<1> DEFINE name == NameAt(b, 1)
           p == PasswordAt(b, After(b, 1))
           i == user_get_if_exists(usersList, name)
           r == handle_change_password(me, b).list
<1>1. p \in Seq(Nat)
  BY FieldFacts
<1>2. \/ r = usersList
      \/ /\ user_is_admin(usersList, me) /\ i # 0
         /\ r = [usersList EXCEPT ![i].password = Overwritten(@, p)]
  BY ChangePasswordResult
<1> HIDE DEF r, name, p
<1>3. CASE r = usersList
  BY <1>3, AllowedSame DEF r
<1>4. CASE /\ user_is_admin(usersList, me) /\ i # 0
           /\ r = [usersList EXCEPT ![i].password = Overwritten(@, p)]
  <2>1. i \in 1..Len(usersList)
    BY <1>4, FoundFacts
  <2> HIDE DEF i
  <2>2. PICK u : u = [usersList[i] EXCEPT !.password = Overwritten(@, p)]
    OBVIOUS
  <2>3. r = [usersList EXCEPT ![i] = u]
    BY <1>4, <2>2
  <2>4. usersList[i] \in Account /\ usersList[i].password \in Seq(Nat)
    BY <2>1, AccountFacts
  <2>5. Overwritten(usersList[i].password, p) \in Seq(Nat)
    <3>1. PICK o, t : o = usersList[i].password /\ t = SubSeq(o, Len(p) + 1, Len(o))
      OBVIOUS
    <3>2. o \in Seq(Nat) /\ Len(o) \in Nat /\ Len(p) \in Nat
      BY <1>1, <2>4, <3>1, LenProperties
    <3>3. t \in Seq(Nat)
      <4>1. CASE Len(p) <= Len(o)
        BY <3>1, <3>2, <4>1, PartFacts, SMTT(30)
      <4>2. CASE ~(Len(p) <= Len(o))
        <5>1. Len(p) + 1 \in Int /\ Len(o) \in Int /\ Len(o) < Len(p) + 1
          BY <3>2, <4>2
        <5>2. t = <<>>
          BY <3>1, <5>1, SubSeqEmpty
        <5> QED
          BY <5>2
      <4> QED
        BY <4>1, <4>2
    <3>4. p \o t \in Seq(Nat)
      BY <1>1, <3>3, CatFacts
    <3> QED
      BY <3>1, <3>4 DEF Overwritten
  <2>6. /\ u \in Account /\ u.username = usersList[i].username
        /\ u = [usersList[i] EXCEPT !.password = u.password]
    BY <2>2, <2>4, <2>5 DEF Account
  <2>7. r \in Seq(Account) /\ Sorted(r) /\ Names(r) = Names(usersList)
    BY <2>1, <2>3, <2>6, ChangedFacts
  <2>8. /\ usersList[i] \in ToSet(usersList)
        /\ ToSet(r) = (ToSet(usersList) \ {usersList[i]}) \cup {u}
    <3>1. u \in Account
      BY <2>6
    <3>2. /\ usersList[i] \in ToSet(usersList)
          /\ ToSet([usersList EXCEPT ![i] = u]) = (ToSet(usersList) \ {usersList[i]}) \cup {u}
      BY <2>1, <3>1, ChangedSet
    <3> QED
      BY <2>3, <3>2
  <2>9. OneUser(usersList, r, me)
    BY <2>6, <2>8 DEF OneUser
  <2>10. Typed(usersList) => Typed(r)
    <3>1. usersList[i] \in User(Seq(Nat)) => u \in User(Seq(Nat))
      BY <2>2, <2>5 DEF User
    <3> QED
      BY <2>8, <3>1 DEF Typed
  <2> QED
    BY <1>4, <2>7, <2>9, <2>10 DEF Allowed, r
<1> QED
  BY <1>2, <1>3, <1>4

\* handle_change_role: what it does.
LEMMA ChangeRoleResult ==
  ASSUME NEW me, NEW b
  PROVE  LET r == handle_change_role(me, b)
             i == user_get_if_exists(usersList, NameAt(b, 1))
         IN  /\ Counted(r, FALSE)
             /\ \/ r.list = usersList
                \/ /\ user_is_admin(usersList, me) /\ i # 0
                   /\ r.list = [usersList EXCEPT ![i].privilege_level = Byte(b, After(b, 1))]
<1> DEFINE name == NameAt(b, 1)
           p == Byte(b, After(b, 1))
           i == user_get_if_exists(usersList, name)
           r == handle_change_role(me, b)
           s == user_change_role(usersList, totalAdmins, name, p)
<1>1. PICK answers : answers = [USER_OK |-> SUCCESS, USER_BADUSERNAME |-> USER_ALREADY_EXISTS]
  OBVIOUS
<1>2. answers["USER_OK"] \in 0..6 /\ answers["USER_BADUSERNAME"] \in 0..6
  BY <1>1 DEF SUCCESS, USER_ALREADY_EXISTS
<1>3. \/ r = Now(UNAUTHORIZED)
      \/ user_is_admin(usersList, me) /\ r = [s EXCEPT !.status = answers[@]]
  BY <1>1 DEF handle_change_role, Answer
<1> HIDE DEF r, name, p
<1>4. CASE r = Now(UNAUTHORIZED)
  BY <1>4 DEF Now, Result, Counted, UNAUTHORIZED, r, name
<1>5. CASE user_is_admin(usersList, me) /\ r = [s EXCEPT !.status = answers[@]]
  <2>1. CASE i = 0
    <3>1. s = [list |-> usersList, admins |-> totalAdmins, status |-> "USER_BADUSERNAME"]
      BY <2>1 DEF user_change_role, Result
    <3> HIDE DEF s
    <3>2. r.list = usersList /\ r.admins = totalAdmins /\ r.status \in 0..6
      BY <1>2, <1>5, <3>1
    <3> QED
      BY <3>2 DEF Counted, r, name
  <2>2. CASE i # 0
    <3>1. PICK m : m = [usersList EXCEPT ![i].privilege_level = p]
      OBVIOUS
    <3>2. s = [list |-> m, admins |-> totalAdmins, status |-> "USER_OK"]
      BY <2>2, <3>1 DEF user_change_role, Result
    <3> HIDE DEF s
    <3>3. r.list = m /\ r.admins = totalAdmins /\ r.status \in 0..6
      BY <1>2, <1>5, <3>2
    <3> QED
      BY <1>5, <2>2, <3>1, <3>3 DEF Counted, r, name, p
  <2> QED
    BY <2>1, <2>2
<1> QED
  BY <1>3, <1>4, <1>5

\* handle_change_role
LEMMA ChangeRoleAllowed ==
  ASSUME usersList \in Seq(Account), Sorted(usersList), NEW me, NEW b \in Seq(Nat)
  PROVE  /\ Allowed(usersList, handle_change_role(me, b).list, me)
         /\ Typed(usersList) /\ Fits(CHANGE_ROLE, b) => Typed(handle_change_role(me, b).list)
<1> DEFINE name == NameAt(b, 1)
           p == Byte(b, After(b, 1))
           i == user_get_if_exists(usersList, name)
           r == handle_change_role(me, b).list
<1>1. p \in Nat /\ (Fits(CHANGE_ROLE, b) => p \in 0..255)
  BY FieldFacts DEF Fits
<1>2. \/ r = usersList
      \/ /\ user_is_admin(usersList, me) /\ i # 0
         /\ r = [usersList EXCEPT ![i].privilege_level = p]
  BY ChangeRoleResult
<1> HIDE DEF r, name, p
<1>3. CASE r = usersList
  BY <1>3, AllowedSame DEF r
<1>4. CASE /\ user_is_admin(usersList, me) /\ i # 0
           /\ r = [usersList EXCEPT ![i].privilege_level = p]
  <2>1. i \in 1..Len(usersList)
    BY <1>4, FoundFacts
  <2> HIDE DEF i
  <2>2. PICK u : u = [usersList[i] EXCEPT !.privilege_level = p]
    OBVIOUS
  <2>3. r = [usersList EXCEPT ![i] = u]
    BY <1>4, <2>2
  <2>4. usersList[i] \in Account
    BY <2>1, AccountFacts
  <2>5. /\ u \in Account /\ u.username = usersList[i].username
        /\ u = [usersList[i] EXCEPT !.privilege_level = u.privilege_level]
    BY <1>1, <2>2, <2>4 DEF Account
  <2>6. r \in Seq(Account) /\ Sorted(r) /\ Names(r) = Names(usersList)
    BY <2>1, <2>3, <2>5, ChangedFacts
  <2>7. /\ usersList[i] \in ToSet(usersList)
        /\ ToSet(r) = (ToSet(usersList) \ {usersList[i]}) \cup {u}
    <3>1. u \in Account
      BY <2>5
    <3>2. /\ usersList[i] \in ToSet(usersList)
          /\ ToSet([usersList EXCEPT ![i] = u]) = (ToSet(usersList) \ {usersList[i]}) \cup {u}
      BY <2>1, <3>1, ChangedSet
    <3> QED
      BY <2>3, <3>2
  <2>8. OneUser(usersList, r, me)
    BY <2>5, <2>7 DEF OneUser
  <2>9. Typed(usersList) /\ Fits(CHANGE_ROLE, b) => Typed(r)
    <3>1. usersList[i] \in User(Seq(Nat)) /\ p \in 0..255 => u \in User(Seq(Nat))
      BY <2>2 DEF User
    <3> QED
      BY <1>1, <2>7, <3>1 DEF Typed
  <2> QED
    BY <1>4, <2>6, <2>8, <2>9 DEF Allowed, r
<1> QED
  BY <1>2, <1>3, <1>4

\* handle_pam_request_method
LEMMA MethodAllowed ==
  ASSUME usersList \in Seq(Account), Sorted(usersList), NEW me, NEW m, NEW b \in Seq(Nat)
  PROVE  LET r == handle_pam_request_method(me, m, b)
         IN  /\ Allowed(usersList, r.list, me)
             /\ Typed(usersList) /\ Fits(m, b) => Typed(r.list)
             /\ Counted(r, m = ADD)
<1> DEFINE r == handle_pam_request_method(me, m, b)
           Good(q) == /\ Allowed(usersList, q.list, me)
                      /\ Typed(usersList) /\ Fits(m, b) => Typed(q.list)
                      /\ Counted(q, m = ADD)
<1>1. ASSUME NEW st \in 0..6 \cup {Uninit, NullRead}
      PROVE  Good(Now(st))
  BY AllowedSame DEF Now, Result, Counted
<1>2. /\ LIST # ADD /\ LIST # REMOVE /\ LIST # CHANGE_PASSWORD /\ LIST # CHANGE_ROLE
      /\ LIST # METRICS /\ ADD # REMOVE /\ ADD # CHANGE_PASSWORD /\ ADD # CHANGE_ROLE
      /\ ADD # METRICS /\ REMOVE # CHANGE_PASSWORD /\ REMOVE # CHANGE_ROLE
      /\ REMOVE # METRICS /\ CHANGE_PASSWORD # CHANGE_ROLE /\ CHANGE_PASSWORD # METRICS
      /\ CHANGE_ROLE # METRICS
  BY DEF LIST, ADD, REMOVE, CHANGE_PASSWORD, CHANGE_ROLE, METRICS
<1>3. ASSUME NEW q, Counted(q, FALSE) PROVE Counted(q, m = ADD)
  BY <1>3 DEF Counted
<1>4. CASE m = LIST
  <2>1. r = Now(Uninit)
    BY <1>2, <1>4, Zenon DEF handle_pam_request_method, handle_get_connected_users_list
  <2> HIDE DEF Good, r
  <2> QED
    BY <1>1, <2>1 DEF Good, r
<1>5. CASE m = ADD
  <2>1. r = handle_add_user(me, b)
    BY <1>2, <1>5, Zenon DEF handle_pam_request_method
  <2>2. Counted(r, TRUE)
    BY <2>1, AddUserResult
  <2>3. Allowed(usersList, r.list, me) /\ (Typed(usersList) /\ Fits(m, b) => Typed(r.list))
    BY <1>5, <2>1, AddUserAllowed
  <2> HIDE DEF r
  <2> QED
    BY <1>5, <2>2, <2>3 DEF Counted, r
<1>6. CASE m = REMOVE
  <2>1. r = handle_remove_user(me, b)
    BY <1>2, <1>6, Zenon DEF handle_pam_request_method
  <2> QED
    BY <1>3, <2>1, RemoveUserResult, RemoveUserAllowed
<1>7. CASE m = CHANGE_PASSWORD
  <2>1. r = handle_change_password(me, b)
    BY <1>2, <1>7, Zenon DEF handle_pam_request_method
  <2> QED
    BY <1>3, <2>1, ChangePasswordResult, ChangePasswordAllowed
<1>8. CASE m = CHANGE_ROLE
  <2>1. r = handle_change_role(me, b)
    BY <1>2, <1>8, Zenon DEF handle_pam_request_method
  <2> QED
    BY <1>3, <1>8, <2>1, ChangeRoleResult, ChangeRoleAllowed
<1>9. CASE m = METRICS
  <2>1. r = Now(SUCCESS)
    BY <1>2, <1>9, Zenon DEF handle_pam_request_method, handle_get_metrics
  <2> HIDE DEF Good, r
  <2> QED
    BY <1>1, <2>1 DEF Good, r, SUCCESS
<1>10. CASE m \notin {LIST, ADD, REMOVE, CHANGE_PASSWORD, CHANGE_ROLE, METRICS}
  <2>1. r = Now(FAILURE)
    BY <1>10, Zenon DEF handle_pam_request_method
  <2> HIDE DEF Good, r
  <2> QED
    BY <1>1, <2>1 DEF Good, r, FAILURE
<1> QED
  BY <1>4, <1>5, <1>6, <1>7, <1>8, <1>9, <1>10

------------------------------------------------------------------------------
(* The invariant.                                                          *)

\* A message of authentication: the length of the name, which is 1, that of the password,
\* the name and the password.
AuthMessage(w) == Len(w) >= 4 /\ w[2] = 1 /\ Len(w) = 4 + w[3] /\ w[4] \in Name

\* Where the parser of an authentication is: in its inner state u, with the lengths
\* n, it has consumed so much of the message that what is in the buffer, q, and on
\* the way, w, is the rest of it.
AuthParse(u, n, q, w, cl) ==
  \/ /\ u = "VER_N_NUSER_N_NPASS" /\ q = <<>>
     /\ w = <<>> \/ AuthMessage(w)
     /\ cl = "auth_sent" => w # <<>>
  \/ /\ u = "USERNAME" /\ n \in Nat \X Nat /\ n[1] = 1 /\ q = <<>>
     /\ Len(w) = 1 + n[2] /\ w[1] \in Name
  \/ /\ u = "PASS" /\ n \in Nat \X Nat
     /\ Len(q) + Len(w) = n[2] /\ Len(q) < n[2]

\* A request: the length of its body, and where in the body a name and a privilege are.
RequestMessage(w) ==
  /\ Len(w) >= 6 /\ w[3] = 0 /\ w[5] = 0 /\ Len(w) = 6 + w[6]
  /\ Len(w) >= 8 => w[8] \in 0..Long
  /\ w[4] = CHANGE_ROLE => Len(w) = 9 /\ w[7] = 1 /\ w[9] \in 0..255
  /\ w[4] = ADD => Len(w) >= 10 /\ Len(w) = 10 + w[9] /\ w[7] = 1 /\ w[Len(w)] \in 0..255

\* What is known of a session: its state, the inner state, the lengths, the buffer,
\* the wire, whether an answer is being sent, and its client.
SessionOK(st, u, n, q, w, o, cl) ==
  /\ st = "CLOSED" => q = <<>> /\ w = <<>> /\ o = 0 /\ cl = "none"
  /\ cl = "connected" =>
       st = "PAM_AUTH" /\ u = "VER_N_NUSER_N_NPASS" /\ q = <<>> /\ w = <<>> /\ o = 0
  /\ st = "PAM_AUTH" /\ o = 0 => AuthParse(u, n, q, w, cl)
  /\ st = "PAM_AUTH" /\ o = 1 => q = <<>> /\ w = <<>>
  /\ st = "PAM_REQUEST" /\ o = 0 => q = <<>> /\ (w = <<>> \/ RequestMessage(w))
  /\ cl = "req_sent" => st = "PAM_REQUEST" /\ (o = 0 => w # <<>>)

SessionTypes ==
  /\ state \in [Session -> {"CLOSED", "PAM_AUTH", "PAM_REQUEST"}]
  /\ sub \in [Session -> {"NONE", "VER_N_NUSER_N_NPASS", "USERNAME", "PASS",
                          "VER_N_RESERVED"}]
  /\ username \in [Session -> Name]
  /\ lens \in [Session -> Seq(Nat)] /\ buf \in [Session -> Seq(Nat)]
  /\ status \in [Session -> 0..6]
  /\ wire \in [Session -> Seq(Nat)] /\ out \in [Session -> 0..1]
  /\ client \in [Session -> {"none", "connected", "auth_sent", "req_sent", "gone"}]
  /\ proc \in {"up", "aborted", "crashed", "killed"}

\* The sessions that have a request to add a user on the way: each may yet add one to
\* the count of administrators, for which there is room.
Adds(c) == state[c] = "PAM_REQUEST" /\ out[c] = 0 /\ wire[c] # <<>> /\ wire[c][4] = ADD
Adding == {c \in Session : Adds(c)}
RoomForAdmins == totalAdmins \in Nat /\ totalAdmins + Cardinality(Adding) <= MaxAdmins

\* The inductive invariant of the administration.
PamInv ==
  /\ usersList \in Seq(Account) /\ Sorted(usersList) /\ Typed(usersList)
  /\ RoomForAdmins
  /\ SessionTypes
  /\ \A c \in Session :
       SessionOK(state[c], sub[c], lens[c], buf[c], wire[c], out[c], client[c])

\* A session that a step leaves alone.
Kept(d) ==
  /\ state'[d] = state[d] /\ sub'[d] = sub[d] /\ lens'[d] = lens[d] /\ buf'[d] = buf[d]
  /\ wire'[d] = wire[d] /\ out'[d] = out[d] /\ client'[d] = client[d]

\* A step of one session.
LEMMA OneSession ==
  ASSUME PamInv, NEW c \in Session, SessionTypes', \A d \in Session \ {c} : Kept(d),
         SessionOK(state'[c], sub'[c], lens'[c], buf'[c], wire'[c], out'[c], client'[c]),
         usersList' \in Seq(Account), Sorted(usersList'), Typed(usersList'), RoomForAdmins'
  PROVE  PamInv'
<1>1. ASSUME NEW d \in Session
      PROVE  SessionOK(state'[d], sub'[d], lens'[d], buf'[d], wire'[d], out'[d], client'[d])
  <2>1. CASE d = c
    BY <2>1
  <2>2. CASE d # c
    BY <2>2 DEF Kept, PamInv
  <2> QED
    BY <2>1, <2>2
<1> QED
  BY <1>1 DEF PamInv

\* The sessions are finitely many.
LEMMA AddingFacts ==
  /\ IsFiniteSet(Adding) /\ Cardinality(Adding) \in Nat
  /\ Cardinality(Adding) <= Cardinality(Session) /\ Cardinality(Session) \in Nat
<1>1. Adding \subseteq Session
  BY DEF Adding
<1> QED
  BY <1>1, SessionAssumption, FS_Subset, FS_CardinalityType

\* Room stays when no request to add a user is sent and none is carried out.
LEMMA RoomKept ==
  ASSUME RoomForAdmins, totalAdmins' = totalAdmins, Adding' \subseteq Adding
  PROVE  RoomForAdmins'
<1>1. PICK n, m : n = Cardinality(Adding) /\ m = Cardinality(Adding')
  OBVIOUS
<1>2. IsFiniteSet(Adding) /\ n \in Nat
  BY <1>1, AddingFacts
<1>3. m \in Nat /\ m <= n
  BY <1>1, <1>2, FS_Subset, FS_CardinalityType
<1>4. totalAdmins \in Nat /\ totalAdmins + n <= MaxAdmins /\ MaxAdmins \in Nat
  BY <1>1, SessionAssumption DEF RoomForAdmins
<1>5. totalAdmins + m <= MaxAdmins
  BY <1>2, <1>3, <1>4
<1>6. Cardinality(Adding)' = m
  BY <1>1
<1> QED
  BY <1>4, <1>5, <1>6 DEF RoomForAdmins

\* A step of one session leaves the others on their way.
LEMMA AddingKept ==
  ASSUME NEW c \in Session, \A d \in Session \ {c} : Kept(d)
  PROVE  Adding' \subseteq Adding \cup (IF Adds(c)' THEN {c} ELSE {})
<1>1. ASSUME NEW d \in Session, d # c, Adds(d)' PROVE Adds(d)
  BY <1>1 DEF Kept, Adds
<1>2. Adding' = {d \in Session : Adds(d)'}
  BY DEF Adding
<1> QED
  BY <1>1, <1>2 DEF Adding

\* One that leaves the users alone.
LEMMA OneSessionOnly ==
  ASSUME PamInv, NEW c \in Session, SessionTypes', \A d \in Session \ {c} : Kept(d),
         SessionOK(state'[c], sub'[c], lens'[c], buf'[c], wire'[c], out'[c], client'[c]),
         Adds(c)' => Adds(c), UNCHANGED userVars
  PROVE  PamInv'
<1>1. usersList' = usersList /\ totalAdmins' = totalAdmins
  BY DEF userVars
<1>2. usersList' \in Seq(Account) /\ Sorted(usersList') /\ Typed(usersList')
  BY <1>1 DEF PamInv
<1>3. Adding' \subseteq Adding
  BY AddingKept DEF Adding
<1>4. RoomForAdmins'
  BY <1>1, <1>3, RoomKept DEF PamInv
<1> QED
  BY <1>2, <1>4, OneSession

\* pam_done
LEMMA DoneInv == ASSUME PamInv, NEW c \in Session, pam_done(c) PROVE PamInv'
<1>1. SessionTypes /\ <<>> \in Seq(Nat) /\ 0 \in Name /\ SUCCESS \in 0..6
  BY MaxNameAssumption DEF PamInv, Name, SUCCESS
<1>2. SessionTypes'
  BY <1>1 DEF SessionTypes, pam_done
<1>3. \A d \in Session \ {c} : Kept(d)
  BY <1>1 DEF SessionTypes, pam_done, Kept
<1>4. /\ state'[c] = "CLOSED" /\ buf'[c] = <<>> /\ wire'[c] = <<>> /\ out'[c] = 0
      /\ client'[c] = "none"
  BY <1>1 DEF SessionTypes, pam_done
<1>5. SessionOK(state'[c], sub'[c], lens'[c], buf'[c], wire'[c], out'[c], client'[c])
  BY <1>4 DEF SessionOK
<1>6. UNCHANGED userVars
  BY DEF pam_done
<1>7. ~Adds(c)'
  BY <1>4 DEF Adds
<1> QED
  BY <1>2, <1>3, <1>5, <1>6, <1>7, OneSessionOnly

\* The end of the process.
LEMMA DiesInv ==
  ASSUME PamInv, NEW how \in {"aborted", "crashed", "killed"}, Dies(how)
  PROVE  PamInv'
<1>1. <<>> \in Seq(Nat) /\ 0 \in Name /\ SUCCESS \in 0..6
  BY MaxNameAssumption DEF Name, SUCCESS
<1>2. SessionTypes'
  BY <1>1 DEF SessionTypes, Dies, All
<1>3. ASSUME NEW d \in Session
      PROVE  /\ SessionOK(state'[d], sub'[d], lens'[d], buf'[d], wire'[d], out'[d], client'[d])
             /\ ~Adds(d)'
  <2>1. /\ state'[d] = "CLOSED" /\ buf'[d] = <<>> /\ wire'[d] = <<>> /\ out'[d] = 0
        /\ client'[d] = "none"
    BY DEF Dies, All
  <2> QED
    BY <2>1 DEF SessionOK, Adds
<1>4. usersList' = usersList /\ totalAdmins' = totalAdmins
  BY DEF Dies, userVars
<1>5. Adding' \subseteq Adding
  BY <1>3 DEF Adding
<1>6. RoomForAdmins'
  BY <1>4, <1>5, RoomKept DEF PamInv
<1> QED
  BY <1>2, <1>3, <1>4, <1>6 DEF PamInv

\* pam_passive_accept
LEMMA AcceptInv == ASSUME PamInv, NEW c \in Session, pam_passive_accept(c) PROVE PamInv'
<1>1. SessionTypes
  BY DEF PamInv
<1>2. SessionTypes'
  BY <1>1 DEF SessionTypes, pam_passive_accept
<1>3. \A d \in Session \ {c} : Kept(d)
  BY <1>1 DEF SessionTypes, pam_passive_accept, Kept
<1>4. buf[c] = <<>> /\ wire[c] = <<>> /\ out[c] = 0
  BY DEF PamInv, SessionOK, pam_passive_accept
<1>5. /\ state'[c] = "PAM_AUTH" /\ sub'[c] = "VER_N_NUSER_N_NPASS" /\ client'[c] = "connected"
      /\ buf'[c] = <<>> /\ wire'[c] = <<>> /\ out'[c] = 0
  BY <1>1, <1>4 DEF SessionTypes, pam_passive_accept
<1>6. SessionOK(state'[c], sub'[c], lens'[c], buf'[c], wire'[c], out'[c], client'[c])
  BY <1>5 DEF SessionOK, AuthParse
<1>7. UNCHANGED userVars /\ ~Adds(c)'
  BY <1>5 DEF pam_passive_accept, Adds
<1> QED
  BY <1>2, <1>3, <1>6, <1>7, OneSessionOnly

------------------------------------------------------------------------------
(* pam_auth_read                                                           *)

\* buffer_read_adv, by element.
LEMMA DropFacts ==
  ASSUME NEW q \in Seq(Nat), NEW k \in Nat, k <= Len(q)
  PROVE  /\ Drop(q, k) \in Seq(Nat) /\ Len(Drop(q, k)) = Len(q) - k
         /\ \A i \in 1..Len(q) - k : Drop(q, k)[i] = q[k + i]
<1>1. PICK n, d : n = Len(q) /\ d = Drop(q, k)
  OBVIOUS
<1>2. n \in Nat
  BY <1>1, LenProperties
<1>3. k + 1 \in Nat /\ k + 1 >= 1 /\ n <= n /\ k + 1 <= n + 1
  BY <1>1, <1>2
<1>4. /\ d \in Seq(Nat) /\ Len(d) = n - (k + 1) + 1
      /\ \A i \in 1..n - (k + 1) + 1 : d[i] = q[k + 1 + i - 1]
  <2>1. PICK m : m = k + 1
    OBVIOUS
  <2>2. d = SubSeq(q, m, n) /\ m \in Nat /\ m >= 1 /\ n <= Len(q) /\ m <= n + 1
    BY <1>1, <1>2, <1>3, <2>1 DEF Drop
  <2>3. /\ d \in Seq(Nat) /\ Len(d) = n - m + 1
        /\ \A i \in 1..n - m + 1 : d[i] = q[m + i - 1]
    BY <1>2, <2>2, PartFacts
  <2> QED
    BY <2>1, <2>3
<1>5. n - (k + 1) + 1 = n - k
  BY <1>2
<1>6. \A i \in 1..n - k : k + 1 + i - 1 = k + i
  BY <1>2
<1> QED
  BY <1>1, <1>4, <1>5, <1>6

\* What recv has returned, and what it has left.
LEMMA PieceFacts ==
  ASSUME SessionTypes, NEW c \in Session, NEW k \in Pieces(c)
  PROVE  /\ Buffered(c, k) \in Seq(Nat) /\ Drop(wire[c], k) \in Seq(Nat)
         /\ Len(Buffered(c, k)) = Len(buf[c]) + k /\ Len(Drop(wire[c], k)) = Len(wire[c]) - k
         /\ k \in Nat /\ k >= 1 /\ k <= Len(wire[c]) /\ Len(buf[c]) \in Nat /\ Len(wire[c]) \in Nat
         /\ \A i \in 1..k : Buffered(c, k)[Len(buf[c]) + i] = wire[c][i]
         /\ \A i \in 1..Len(wire[c]) - k : Drop(wire[c], k)[i] = wire[c][k + i]
<1>1. PICK q, w : q = buf[c] /\ w = wire[c]
  OBVIOUS
<1>2. q \in Seq(Nat) /\ w \in Seq(Nat)
  BY <1>1 DEF SessionTypes
<1>3. Len(q) \in Nat /\ Len(w) \in Nat
  BY <1>2, LenProperties
<1>4. k \in Nat /\ k >= 1 /\ k <= Len(w) /\ 1 \in Nat /\ 1 >= 1 /\ 1 <= k + 1
  BY <1>1, <1>3 DEF Pieces
<1>5. PICK s : s = SubSeq(w, 1, k)
  OBVIOUS
<1>6. s \in Seq(Nat) /\ Len(s) = k /\ \A i \in 1..k : s[i] = w[i]
  <2>1. /\ s \in Seq(Nat) /\ Len(s) = k - 1 + 1
        /\ \A i \in 1..k - 1 + 1 : s[i] = w[1 + i - 1]
    BY <1>2, <1>4, <1>5, PartFacts
  <2> QED
    BY <1>4, <2>1
<1>7. /\ q \o s \in Seq(Nat) /\ Len(q \o s) = Len(q) + Len(s)
      /\ \A i \in 1..Len(q) + Len(s) : (q \o s)[i] = IF i <= Len(q) THEN q[i] ELSE s[i - Len(q)]
  BY <1>2, <1>6, CatFacts
<1>8. ASSUME NEW i \in 1..k PROVE (q \o s)[Len(q) + i] = w[i]
  <2>1. /\ Len(q) + i \in 1..Len(q) + Len(s) /\ ~(Len(q) + i <= Len(q))
        /\ Len(q) + i - Len(q) = i
    BY <1>3, <1>4, <1>6
  <2> QED
    BY <1>6, <1>7, <2>1
<1>9. /\ Drop(w, k) \in Seq(Nat) /\ Len(Drop(w, k)) = Len(w) - k
      /\ \A i \in 1..Len(w) - k : Drop(w, k)[i] = w[k + i]
  BY <1>2, <1>4, DropFacts
<1>10. Buffered(c, k) = q \o s
  BY <1>1, <1>5 DEF Buffered
<1> QED
  BY <1>1, <1>3, <1>4, <1>6, <1>7, <1>8, <1>9, <1>10

\* A sequence without an element is the empty one.
LEMMA NoElement == ASSUME NEW q \in Seq(Nat), Len(q) = 0 PROVE q = <<>>
BY EmptySeq

\* A session whose authentication waits for more bytes.
LEMMA AwaitInv ==
  ASSUME PamInv, NEW c \in Session, state[c] = "PAM_AUTH", out[c] = 0,
         NEW u \in {"USERNAME", "PASS"}, NEW q \in Seq(Nat), NEW w \in Seq(Nat),
         NEW name \in Name,
         NEW n \in Nat \X Nat, Await(c, u, q, name, n), wire' = [wire EXCEPT ![c] = w],
         client[c] # "connected",
         u = "USERNAME" => n[1] = 1 /\ q = <<>> /\ Len(w) = 1 + n[2] /\ w[1] \in Name,
         u = "PASS" => Len(q) + Len(w) = n[2] /\ Len(q) < n[2]
  PROVE  PamInv'
<1>0. PICK a, b \in Nat : n = <<a, b>>
  OBVIOUS
<1>1. SessionTypes /\ n \in Seq(Nat)
  BY <1>0 DEF PamInv
<1>2. SessionTypes'
  BY <1>1 DEF SessionTypes, Await
<1>3. \A d \in Session \ {c} : Kept(d)
  BY <1>1 DEF SessionTypes, Await, Kept
<1>4. /\ state'[c] = "PAM_AUTH" /\ sub'[c] = u /\ lens'[c] = n /\ buf'[c] = q /\ wire'[c] = w
      /\ out'[c] = 0 /\ client'[c] = client[c]
  BY <1>1 DEF SessionTypes, Await
<1>5. client[c] # "req_sent"
  BY DEF PamInv, SessionOK
<1>6. SessionOK("PAM_AUTH", u, n, q, w, 0, client[c])
  BY <1>5 DEF SessionOK, AuthParse
<1>7. SessionOK(state'[c], sub'[c], lens'[c], buf'[c], wire'[c], out'[c], client'[c])
  BY <1>4, <1>6
<1>8. UNCHANGED userVars /\ ~Adds(c)'
  BY <1>4 DEF Await, Adds
<1> QED
  BY <1>2, <1>3, <1>7, <1>8, OneSessionOnly

\* A request that is carried out leaves room for the others.
LEMMA RoomUsed ==
  ASSUME RoomForAdmins, NEW c \in Session, ~Adds(c)', \A d \in Session \ {c} : Kept(d),
         totalAdmins' = totalAdmins \/ (Adds(c) /\ totalAdmins' = totalAdmins + 1)
  PROVE  RoomForAdmins'
<1>1. Adding' \subseteq Adding
  BY AddingKept
<1>2. CASE totalAdmins' = totalAdmins
  BY <1>1, <1>2, RoomKept
<1>3. CASE Adds(c) /\ totalAdmins' = totalAdmins + 1
  <2>1. c \in Adding /\ c \notin Adding'
    BY <1>3 DEF Adding
  <2>2. PICK n, m : n = Cardinality(Adding) /\ m = Cardinality(Adding')
    OBVIOUS
  <2>3. IsFiniteSet(Adding) /\ n \in Nat
    BY <2>2, AddingFacts
  <2>4. IsFiniteSet(Adding \ {c}) /\ Cardinality(Adding \ {c}) = n - 1
    BY <2>1, <2>2, <2>3, FS_RemoveElement
  <2>5. Adding' \subseteq Adding \ {c}
    BY <1>1, <2>1
  <2>6. m <= n - 1 /\ m \in Nat
    BY <2>2, <2>4, <2>5, FS_Subset, FS_CardinalityType
  <2>7. totalAdmins \in Nat /\ totalAdmins + n <= MaxAdmins /\ MaxAdmins \in Nat
    BY <2>2, SessionAssumption DEF RoomForAdmins
  <2>8. totalAdmins + 1 \in Nat /\ totalAdmins + 1 + m <= MaxAdmins
    BY <2>3, <2>6, <2>7
  <2>9. Cardinality(Adding)' = m
    BY <2>2
  <2> QED
    BY <1>3, <2>8, <2>9 DEF RoomForAdmins
<1> QED
  BY <1>2, <1>3

\* A session that is answered.
LEMMA RespondInv ==
  ASSUME PamInv, NEW c \in Session, state[c] # "CLOSED", client[c] # "connected",
         NEW st \in 0..6, Respond(c, st), NEW w \in Seq(Nat), wire' = [wire EXCEPT ![c] = w],
         state[c] = "PAM_AUTH" => w = <<>>, username' \in [Session -> Name],
         usersList' \in Seq(Account), Sorted(usersList'), Typed(usersList'),
         totalAdmins' = totalAdmins \/ (Adds(c) /\ totalAdmins' = totalAdmins + 1)
  PROVE  PamInv'
<1>1. SessionTypes /\ <<>> \in Seq(Nat)
  BY DEF PamInv
<1>2. SessionTypes'
  BY <1>1 DEF SessionTypes, Respond
<1>3. \A d \in Session \ {c} : Kept(d)
  BY <1>1 DEF SessionTypes, Respond, Kept
<1>4. /\ state'[c] = state[c] /\ out'[c] = 1 /\ client'[c] = client[c] /\ wire'[c] = w
      /\ buf'[c] = <<>>
  BY <1>1 DEF SessionTypes, Respond
<1>5. client[c] = "req_sent" => state[c] = "PAM_REQUEST"
  BY DEF PamInv, SessionOK
<1>6. SessionOK(state'[c], sub'[c], lens'[c], buf'[c], wire'[c], out'[c], client'[c])
  BY <1>4, <1>5 DEF SessionOK
<1>7. ~Adds(c)'
  BY <1>4 DEF Adds
<1>8. RoomForAdmins'
  BY <1>3, <1>7, RoomUsed DEF PamInv
<1> QED
  BY <1>2, <1>3, <1>6, <1>8, OneSession

\* PASS: all that the client has to send has come when the answer is given.
LEMMA ReadPassInv ==
  ASSUME PamInv, NEW c \in Session, state[c] = "PAM_AUTH", out[c] = 0, client[c] # "connected",
         NEW q \in Seq(Nat), NEW w \in Seq(Nat), NEW name \in Name, NEW n \in Nat \X Nat,
         ReadPass(c, q, name, n), state'[c] # "CLOSED" => wire' = [wire EXCEPT ![c] = w],
         Len(q) + Len(w) = n[2]
  PROVE  PamInv'
<1>1. CASE Len(q) < n[2]
  <2>1. Await(c, "PASS", q, name, n)
    BY <1>1 DEF ReadPass
  <2>2. state' = state
    BY <2>1 DEF Await
  <2> QED
    BY <1>1, <2>1, <2>2, AwaitInv
<1>2. CASE ~(Len(q) < n[2])
  <2>1. PICK st \in 0..6 : Respond(c, st)
    BY <1>2 DEF ReadPass, SUCCESS, FAILURE
  <2>2. UNCHANGED userVars /\ username' = [username EXCEPT ![c] = name]
    BY <1>2 DEF ReadPass
  <2>3. state' = state
    BY <2>1 DEF Respond
  <2>4. /\ usersList' \in Seq(Account) /\ Sorted(usersList') /\ Typed(usersList')
        /\ totalAdmins' = totalAdmins
    BY <2>2 DEF userVars, PamInv
  <2>5. username' \in [Session -> Name]
    BY <2>2 DEF PamInv, SessionTypes
  <2>6. w = <<>>
    <3>1. PICK x, y, z : x = Len(q) /\ y = Len(w) /\ z = n[2]
      OBVIOUS
    <3>2. x \in Nat /\ y \in Nat /\ z \in Nat /\ x + y = z /\ ~(x < z)
      BY <1>2, <3>1, LenProperties
    <3>3. y = 0
      BY <3>2
    <3> QED
      BY <3>1, <3>3, NoElement
  <2> QED
    BY <2>1, <2>3, <2>4, <2>5, <2>6, RespondInv
<1> QED
  BY <1>1, <1>2

\* USERNAME
LEMMA ReadUsernameInv ==
  ASSUME PamInv, NEW c \in Session, state[c] = "PAM_AUTH", out[c] = 0, client[c] # "connected",
         NEW q \in Seq(Nat), NEW w \in Seq(Nat), NEW n \in Nat \X Nat,
         ReadUsername(c, q, n), state'[c] # "CLOSED" => wire' = [wire EXCEPT ![c] = w],
         n[1] = 1, Len(q) + Len(w) = 1 + n[2],
         Len(q) >= 1 => q[1] \in Name, Len(q) = 0 => w[1] \in Name
  PROVE  PamInv'
<1>1. n[2] \in Nat /\ Len(q) \in Nat /\ Len(w) \in Nat /\ 1 \in Nat
  BY LenProperties
<1>2. CASE Len(q) < n[1]
  <2>1. Await(c, "USERNAME", q, 0, n)
    BY <1>2 DEF ReadUsername
  <2>2. state' = state
    BY <2>1 DEF Await
  <2>3. Len(q) = 0 /\ 0 + Len(w) = Len(w)
    BY <1>1, <1>2
  <2>4. q = <<>> /\ Len(w) = 1 + n[2] /\ w[1] \in Name
    BY <2>3, NoElement
  <2>5. 0 \in Name
    BY MaxNameAssumption DEF Name
  <2> QED
    BY <2>1, <2>2, <2>4, <2>5, AwaitInv
<1>3. CASE ~(Len(q) < n[1])
  <2>1. PICK d : d = Drop(q, 1)
    OBVIOUS
  <2>2. ReadPass(c, d, q[1], n)
    BY <1>3, <2>1 DEF ReadUsername
  <2>3. 1 <= Len(q) /\ Len(q) >= 1
    BY <1>1, <1>3
  <2>4. d \in Seq(Nat) /\ Len(d) = Len(q) - 1
    BY <1>1, <2>1, <2>3, DropFacts
  <2>5. Len(d) + Len(w) = n[2]
    BY <1>1, <2>4
  <2>6. q[1] \in Name
    BY <2>3
  <2> QED
    BY <2>2, <2>4, <2>5, <2>6, ReadPassInv
<1> QED
  BY <1>2, <1>3

\* VER_N_NUSER_N_NPASS: a cut inside the header ends the session.
LEMMA ReadAuthHeaderInv ==
  ASSUME PamInv, NEW c \in Session, state[c] = "PAM_AUTH", out[c] = 0, client[c] # "connected",
         NEW q \in Seq(Nat), NEW w \in Seq(Nat),
         ReadAuthHeader(c, q), state'[c] # "CLOSED" => wire' = [wire EXCEPT ![c] = w],
         Len(q) >= 3 => q[2] = 1 /\ Len(q) + Len(w) = 4 + q[3],
         Len(q) >= 4 => q[4] \in Name, Len(q) = 3 => w[1] \in Name
  PROVE  PamInv'
<1>1. PICK a, b : a = Byte(q, 2) /\ b = Byte(q, 3)
  OBVIOUS
<1>2. a \in Nat /\ b \in Nat
  BY <1>1, ByteNat
<1>3. PICK n : n = <<a, b>>
  OBVIOUS
<1>4. n \in Nat \X Nat /\ n[1] = a /\ n[2] = b
  BY <1>2, <1>3
<1>5. pam_done(c) \/ (a # 0 /\ b # 0 /\ ReadUsername(c, Drop(q, 3), n))
  BY <1>1, <1>3 DEF ReadAuthHeader
<1>6. CASE pam_done(c)
  BY <1>6, DoneInv
<1>7. CASE a # 0 /\ b # 0 /\ ReadUsername(c, Drop(q, 3), n)
  <2>1. PICK x, y : x = Len(q) /\ y = Len(w)
    OBVIOUS
  <2>2. x \in Nat /\ y \in Nat
    BY <2>1, LenProperties
  <2>3. 3 <= x /\ b = q[3]
    BY <1>1, <1>7, <2>1 DEF Byte
  <2>4. 2 <= x /\ x >= 3
    BY <2>2, <2>3
  <2>5. a = q[2]
    BY <1>1, <2>1, <2>4 DEF Byte
  <2>6. PICK d : d = Drop(q, 3)
    OBVIOUS
  <2>7. d \in Seq(Nat) /\ Len(d) = x - 3 /\ \A i \in 1..x - 3 : d[i] = q[3 + i]
    <3>1. 3 \in Nat /\ 3 <= Len(q)
      BY <2>1, <2>3
    <3>2. /\ Drop(q, 3) \in Seq(Nat) /\ Len(Drop(q, 3)) = Len(q) - 3
          /\ \A i \in 1..Len(q) - 3 : Drop(q, 3)[i] = q[3 + i]
      BY <3>1, DropFacts
    <3> QED
      BY <2>1, <2>6, <3>2
  <2>8. a = 1 /\ x + y = 4 + b
    BY <2>1, <2>3, <2>4, <2>5
  <2>9. n[1] = 1 /\ Len(d) + y = 1 + n[2]
    BY <1>2, <1>4, <2>2, <2>7, <2>8
  <2>10. ASSUME Len(d) >= 1 PROVE d[1] \in Name
    <3>1. x >= 4 /\ 1 \in 1..x - 3 /\ 3 + 1 = 4
      BY <2>2, <2>7, <2>10
    <3>2. q[4] \in Name
      BY <2>1, <3>1
    <3> QED
      BY <2>7, <3>1, <3>2
  <2>11. ASSUME Len(d) = 0 PROVE w[1] \in Name
    <3>1. x = 3
      BY <2>2, <2>7, <2>11
    <3> QED
      BY <2>1, <3>1
  <2>12. ReadUsername(c, d, n)
    BY <1>7, <2>6
  <2> QED
    BY <1>4, <2>1, <2>7, <2>9, <2>10, <2>11, <2>12, ReadUsernameInv
<1> QED
  BY <1>5, <1>6, <1>7

\* pam_auth_read
LEMMA AuthReadInv == ASSUME PamInv, NEW c \in Session, pam_auth_read(c) PROVE PamInv'
<1>1. SessionTypes /\ state[c] = "PAM_AUTH" /\ out[c] = 0
  BY DEF PamInv, pam_auth_read
<1>2. CASE pam_done(c)
  BY <1>2, DoneInv
<1>3. ASSUME NEW k \in Pieces(c), ParseAuth(c, Buffered(c, k)), Received(c, k) PROVE PamInv'
  <2>1. PICK q, w : q = Buffered(c, k) /\ w = Drop(wire[c], k)
    OBVIOUS
  <2>2. PICK v, x, y : v = wire[c] /\ x = Len(buf[c]) /\ y = Len(v)
    OBVIOUS
  <2>3. /\ q \in Seq(Nat) /\ w \in Seq(Nat) /\ Len(q) = x + k /\ Len(w) = y - k
        /\ k \in Nat /\ k >= 1 /\ k <= y /\ x \in Nat /\ y \in Nat
        /\ \A i \in 1..k : q[x + i] = v[i]
        /\ \A i \in 1..y - k : w[i] = v[k + i]
    BY <1>1, <1>3, <2>1, <2>2, PieceFacts
  <2>4. Len(q) + Len(w) = x + y
    BY <2>3
  <2>5. v # <<>>
    <3>1. y # 0
      BY <2>3
    <3>2. v = <<>> => Len(v) = 0
      OBVIOUS
    <3> QED
      BY <2>2, <3>1, <3>2
  <2>6. client[c] # "connected"
    BY <2>2, <2>5 DEF PamInv, SessionOK
  <2>7. state'[c] # "CLOSED" => wire' = [wire EXCEPT ![c] = w]
    BY <1>1, <1>3, <2>1 DEF Received, SessionTypes
  <2>8. AuthParse(sub[c], lens[c], buf[c], v, client[c])
    BY <1>1, <2>2 DEF PamInv, SessionOK
  <2>9. ASSUME buf[c] = <<>> PROVE x = 0 /\ Len(q) = k /\ \A i \in 1..k : q[i] = v[i]
    <3>1. x = 0
      BY <2>2, <2>9
    <3>2. 0 + k = k /\ \A i \in 1..k : 0 + i = i
      BY <2>3
    <3> QED
      BY <2>3, <3>1, <3>2
  <2>10. CASE sub[c] = "VER_N_NUSER_N_NPASS"
    <3>1. ReadAuthHeader(c, q)
      BY <1>3, <2>1, <2>10, Zenon DEF ParseAuth
    <3>2. buf[c] = <<>> /\ AuthMessage(v)
      BY <2>5, <2>8, <2>10 DEF AuthParse
    <3>3. y >= 4 /\ v[2] = 1 /\ y = 4 + v[3] /\ v[4] \in Name
      BY <2>2, <3>2 DEF AuthMessage
    <3>4. x = 0 /\ Len(q) = k /\ \A i \in 1..k : q[i] = v[i]
      BY <2>9, <3>2
    <3>5. ASSUME Len(q) >= 3 PROVE q[2] = 1 /\ Len(q) + Len(w) = 4 + q[3]
      <4>1. 2 \in 1..k /\ 3 \in 1..k /\ 0 + y = y
        BY <2>3, <3>4, <3>5
      <4>2. q[2] = 1 /\ q[3] = v[3]
        BY <3>3, <3>4, <4>1
      <4> QED
        BY <2>4, <3>3, <3>4, <4>1, <4>2
    <3>6. ASSUME Len(q) >= 4 PROVE q[4] \in Name
      <4>1. 4 \in 1..k
        BY <2>3, <3>4, <3>6
      <4> QED
        BY <3>3, <3>4, <4>1
    <3>7. ASSUME Len(q) = 3 PROVE w[1] \in Name
      <4>1. k = 3 /\ 1 \in 1..y - k /\ 3 + 1 = 4
        BY <2>3, <3>3, <3>4, <3>7
      <4> QED
        BY <2>3, <3>3, <4>1
    <3> QED
      BY <1>1, <2>3, <2>6, <2>7, <3>1, <3>5, <3>6, <3>7, ReadAuthHeaderInv
  <2>11. CASE sub[c] = "USERNAME"
    <3>1. ReadUsername(c, q, lens[c])
      BY <1>3, <2>1, <2>11, Zenon DEF ParseAuth
    <3>2. /\ lens[c] \in Nat \X Nat /\ lens[c][1] = 1 /\ buf[c] = <<>>
          /\ y = 1 + lens[c][2] /\ v[1] \in Name
      BY <2>2, <2>8, <2>11 DEF AuthParse
    <3>3. x = 0 /\ Len(q) = k /\ \A i \in 1..k : q[i] = v[i]
      BY <2>9, <3>2
    <3>4. 1 \in 1..k /\ 0 + y = y /\ k # 0
      BY <2>3
    <3>5. Len(q) # 0 /\ q[1] \in Name /\ Len(q) + Len(w) = 1 + lens[c][2]
      BY <2>4, <3>2, <3>3, <3>4
    <3> QED
      BY <1>1, <2>3, <2>6, <2>7, <3>1, <3>2, <3>5, ReadUsernameInv
  <2>12. CASE sub[c] = "PASS"
    <3>1. ReadPass(c, q, username[c], lens[c])
      BY <1>3, <2>1, <2>12, Zenon DEF ParseAuth
    <3>2. lens[c] \in Nat \X Nat /\ Len(q) + Len(w) = lens[c][2]
      BY <2>2, <2>4, <2>8, <2>12 DEF AuthParse
    <3>3. username[c] \in Name
      BY <1>1 DEF SessionTypes
    <3> QED
      BY <1>1, <2>3, <2>6, <2>7, <3>1, <3>2, <3>3, ReadPassInv
  <2> QED
    BY <2>8, <2>10, <2>11, <2>12 DEF AuthParse
<1> QED
  BY <1>2, <1>3 DEF pam_auth_read

------------------------------------------------------------------------------
(* pam_request_read                                                        *)

\* The body of n bytes that is read of what is in the buffer, q.
BodyOf(q, n) == [i \in 1..n |-> Byte(Drop(q, 6), i)]

\* q is the first k bytes of v, and the body b has zeros where v was cut.
Begins(q, v, k) == Len(q) = k /\ \A i \in 1..k : q[i] = v[i]
ZeroBeyond(b, v, k) ==
  \A i \in Nat \ {0} : Byte(b, i) = IF 6 + i <= k THEN v[6 + i] ELSE 0

\* The body that is read of a request v of which k bytes have come, q: where a byte is
\* missing there is a zero.
LEMMA BodyBytes ==
  ASSUME NEW v \in Seq(Nat), NEW k \in Nat, k >= 6, k <= Len(v), NEW q \in Seq(Nat),
         Begins(q, v, k), NEW n \in Nat, Len(v) = 6 + n,
         NEW b, b = BodyOf(q, n)
  PROVE  b \in Seq(Nat) /\ ZeroBeyond(b, v, k)
<1> USE DEF Begins
<1>1. PICK d : d = Drop(q, 6)
  OBVIOUS
<1>2. d \in Seq(Nat) /\ Len(d) = k - 6 /\ \A i \in 1..k - 6 : d[i] = q[6 + i]
  <2>1. 6 \in Nat /\ 6 <= Len(q)
    OBVIOUS
  <2>2. /\ Drop(q, 6) \in Seq(Nat) /\ Len(Drop(q, 6)) = Len(q) - 6
        /\ \A i \in 1..Len(q) - 6 : Drop(q, 6)[i] = q[6 + i]
    BY <2>1, DropFacts
  <2> QED
    BY <1>1, <2>2
<1>3. k <= 6 + n
  OBVIOUS
<1>4. ASSUME NEW i \in Nat \ {0} PROVE Byte(d, i) = IF 6 + i <= k THEN v[6 + i] ELSE 0
  <2>1. CASE 6 + i <= k
    <3>1. i <= k - 6 /\ i \in 1..k - 6 /\ 6 + i \in 1..k
      BY <2>1
    <3> QED
      BY <1>2, <2>1, <3>1 DEF Byte
  <2>2. CASE ~(6 + i <= k)
    <3>1. ~(i <= k - 6)
      BY <2>2
    <3> QED
      BY <1>2, <2>2, <3>1 DEF Byte
  <2> QED
    BY <2>1, <2>2
<1>5. b \in Seq(Nat) /\ Len(b) = n /\ \A i \in 1..n : b[i] = Byte(d, i)
  <2> USE DEF BodyOf
  <2>1. \A i \in 1..n : i \in Nat /\ i >= 1
    OBVIOUS
  <2>2. \A i \in 1..n : Byte(d, i) \in Nat
    BY <1>2, <2>1, ByteNat
  <2>3. b \in [1..n -> Nat]
    BY <1>1, <2>2
  <2>4. b \in Seq(Nat)
    BY <2>3, TableSeq
  <2>5. DOMAIN b = 1..n
    OBVIOUS
  <2>6. Len(b) = n
    BY <2>4, <2>5, LenProperties
  <2> QED
    BY <1>1, <2>4, <2>6
<1>6. ASSUME NEW i \in Nat \ {0} PROVE Byte(b, i) = IF 6 + i <= k THEN v[6 + i] ELSE 0
  <2>1. CASE i <= n
    <3>1. i \in 1..n
      BY <2>1
    <3>2. Byte(b, i) = Byte(d, i)
      BY <1>5, <2>1, <3>1 DEF Byte
    <3> QED
      BY <1>4, <3>2
  <2>2. CASE ~(i <= n)
    <3>1. ~(6 + i <= k)
      BY <1>3, <2>2
    <3>2. Byte(b, i) = 0
      BY <1>5, <2>2 DEF Byte
    <3> QED
      BY <3>1, <3>2
  <2> QED
    BY <2>1, <2>2
<1> QED
  BY <1>5, <1>6 DEF ZeroBeyond

\* However a request is cut, the name and the privilege read of it are within bounds.
LEMMA CutRequestFits ==
  ASSUME NEW v \in Seq(Nat), RequestMessage(v), NEW k \in Nat, k >= 6, k <= Len(v),
         NEW b \in Seq(Nat), ZeroBeyond(b, v, k)
  PROVE  Fits(v[4], b)
<1>0. \A i \in Nat \ {0} : Byte(b, i) = IF 6 + i <= k THEN v[6 + i] ELSE 0
  BY DEF ZeroBeyond
<1>1. PICK y : y = Len(v)
  OBVIOUS
<1>2. y \in Nat /\ k <= y
  BY <1>1, LenProperties
<1>3. PICK b1, b2, b3 : b1 = Byte(b, 1) /\ b2 = Byte(b, 2) /\ b3 = Byte(b, 3)
  OBVIOUS
<1>4. /\ b1 = IF 7 <= k THEN v[7] ELSE 0
      /\ b2 = IF 8 <= k THEN v[8] ELSE 0
      /\ b3 = IF 9 <= k THEN v[9] ELSE 0
  <2>1. /\ 1 \in Nat \ {0} /\ 2 \in Nat \ {0} /\ 3 \in Nat \ {0}
        /\ 6 + 1 = 7 /\ 6 + 2 = 8 /\ 6 + 3 = 9
    OBVIOUS
  <2> QED
    BY <1>0, <1>3, <2>1
<1>5. NameAt(b, 1) \in 0..Long
  <2>1. NameAt(b, 1) = IF b1 = 0 THEN 0 ELSE b2
    BY <1>3 DEF NameAt
  <2>2. 0 \in 0..Long
    BY MaxNameAssumption DEF Long
  <2>3. ASSUME 8 <= k PROVE v[8] \in 0..Long
    <3>1. y >= 8
      BY <1>2, <2>3
    <3> QED
      BY <1>1, <3>1 DEF RequestMessage
  <2> QED
    BY <1>4, <2>1, <2>2, <2>3
<1>6. ASSUME v[7] = 1, k < 7
      PROVE  \A i \in Nat \ {0} : Byte(b, i) = 0
  <2>1. \A i \in Nat \ {0} : ~(6 + i <= k)
    BY <1>6
  <2> QED
    BY <1>0, <2>1
<1>7. After(b, 1) = 2 + b1
  BY <1>3 DEF After
<1>8. ASSUME v[4] = CHANGE_ROLE PROVE Byte(b, After(b, 1)) \in 0..255
  <2>1. v[7] = 1 /\ v[9] \in 0..255
    BY <1>8 DEF RequestMessage
  <2>2. CASE k < 7
    <3>1. b1 = 0
      BY <1>4, <2>2
    <3>2. After(b, 1) \in Nat \ {0}
      BY <1>7, <3>1
    <3>3. Byte(b, After(b, 1)) = 0
      BY <1>6, <2>1, <2>2, <3>2
    <3> QED
      BY <3>3
  <2>3. CASE ~(k < 7)
    <3>1. b1 = 1
      BY <1>4, <2>1, <2>3
    <3>2. After(b, 1) = 3
      BY <1>7, <3>1
    <3>3. b3 = v[9] \/ b3 = 0
      BY <1>4
    <3>4. 0 \in 0..255
      OBVIOUS
    <3>5. b3 \in 0..255
      BY <2>1, <3>3, <3>4, Zenon
    <3>6. Byte(b, After(b, 1)) = b3
      BY <1>3, <3>2
    <3> QED
      BY <3>5, <3>6, Zenon
  <2> QED
    BY <2>2, <2>3
<1>9. ASSUME v[4] = ADD PROVE Byte(b, After(b, After(b, 1))) \in 0..255
  <2>1. v[7] = 1 /\ y >= 10 /\ y = 10 + v[9] /\ v[y] \in 0..255
    BY <1>1, <1>9 DEF RequestMessage
  <2>2. CASE k < 7
    <3>1. b1 = 0
      BY <1>4, <2>2
    <3>2. After(b, 1) = 2
      BY <1>7, <3>1
    <3>3. Byte(b, 2) = 0
      BY <1>6, <2>1, <2>2
    <3>4. After(b, 2) = 3
      BY <3>3 DEF After
    <3>5. Byte(b, 3) = 0
      BY <1>6, <2>1, <2>2
    <3> QED
      BY <3>2, <3>4, <3>5
  <2>3. CASE ~(k < 7)
    <3>1. b1 = 1
      BY <1>4, <2>1, <2>3
    <3>2. After(b, 1) = 3
      BY <1>7, <3>1
    <3>3. After(b, 3) = 4 + b3
      BY <1>3 DEF After
    <3>4. PICK z : z = v[9]
      OBVIOUS
    <3>5. z \in Nat
      <4>1. 9 \in 1..Len(v)
        BY <1>1, <1>2, <2>1
      <4> QED
        BY <3>4, <4>1, ElementOfSeq
    <3>6. b3 \in Nat
      BY <1>4, <3>4, <3>5
    <3>7. PICK i : i = 4 + b3
      OBVIOUS
    <3>8. i \in Nat \ {0}
      BY <3>6, <3>7
    <3>9. Byte(b, i) = IF 6 + i <= k THEN v[6 + i] ELSE 0
      BY <1>0, <3>8
    <3>10. ASSUME 6 + i <= k PROVE v[6 + i] \in 0..255
      <4>1. 9 <= k
        BY <3>6, <3>7, <3>10
      <4>2. b3 = z
        BY <1>4, <3>4, <4>1
      <4>3. 6 + i = y
        <5>1. y = 10 + z /\ i = 4 + z
          BY <2>1, <3>4, <3>7, <4>2
        <5>2. 6 + (4 + z) = 10 + z
          BY <3>5
        <5> QED
          BY <5>1, <5>2
      <4> QED
        BY <2>1, <4>3
    <3>11. Byte(b, i) \in 0..255
      BY <3>9, <3>10
    <3> QED
      BY <3>2, <3>3, <3>7, <3>11
  <2> QED
    BY <2>2, <2>3
<1> QED
  BY <1>5, <1>8, <1>9 DEF Fits

\* A request ends its session or the process, or its answer is given with what its
\* method has made of the users.
LEMMA ReadRequestFacts ==
  ASSUME PamInv, NEW c \in Session, state[c] = "PAM_REQUEST", out[c] = 0,
         NEW k \in Pieces(c), ReadRequest(c, Buffered(c, k))
  PROVE  \/ pam_done(c)
         \/ \E how \in {"aborted", "crashed", "killed"} : Dies(how)
         \/ /\ Allowed(usersList, usersList', username[c]) /\ Typed(usersList')
            /\ totalAdmins' = totalAdmins \/ (Adds(c) /\ totalAdmins' = totalAdmins + 1)
            /\ UNCHANGED username /\ \E st \in 0..6 : Respond(c, st)
<1> DEFINE q == Buffered(c, k)
           v == wire[c]
<1>1. CASE q[1] # PAM_VERSION_1 \/ Byte(q, 2) # RESERVED_BYTE
  BY <1>1 DEF ReadRequest
<1>2. CASE ~(q[1] # PAM_VERSION_1 \/ Byte(q, 2) # RESERVED_BYTE) /\ Len(q) < 6
  BY <1>2 DEF ReadRequest
<1>3. CASE ~(q[1] # PAM_VERSION_1 \/ Byte(q, 2) # RESERVED_BYTE) /\ ~(Len(q) < 6)
  <2>1. SessionTypes /\ v \in Seq(Nat)
    BY DEF PamInv, SessionTypes
  <2>2. /\ q \in Seq(Nat) /\ Len(q) = Len(buf[c]) + k /\ k \in Nat /\ k >= 1 /\ k <= Len(v)
        /\ Len(v) \in Nat
        /\ \A i \in 1..k : q[Len(buf[c]) + i] = v[i]
    BY <2>1, PieceFacts
  <2>3. v # <<>>
    <3>1. Len(v) # 0
      BY <2>2
    <3>2. v = <<>> => Len(v) = 0
      OBVIOUS
    <3> QED
      BY <3>1, <3>2
  <2>4. buf[c] = <<>> /\ RequestMessage(v)
    BY <2>3 DEF PamInv, SessionOK
  <2>5. Len(q) = k /\ \A i \in 1..k : q[i] = v[i]
    <3>1. Len(buf[c]) = 0 /\ 0 + k = k /\ \A i \in 1..k : 0 + i = i
      BY <2>2, <2>4
    <3> QED
      BY <2>2, <3>1
  <2> HIDE DEF q, v
  <2>6. k >= 6 /\ 3 \in 1..k /\ 4 \in 1..k /\ 5 \in 1..k /\ 6 \in 1..k
    BY <1>3, <2>2, <2>5
  <2>7. PICK m, n : m = v[4] /\ n = v[6]
    OBVIOUS
  <2>8. m \in Nat /\ n \in Nat
    <3>1. 4 \in 1..Len(v) /\ 6 \in 1..Len(v)
      BY <2>2, <2>6
    <3> QED
      BY <2>1, <2>7, <3>1, ElementOfSeq
  <2>9. q[3] = 0 /\ q[4] = m /\ q[5] = 0 /\ q[6] = n /\ Len(v) = 6 + n
    BY <2>4, <2>5, <2>6, <2>7 DEF RequestMessage
  <2>10. 256 * q[3] + q[4] = m /\ 256 * q[5] + q[6] = n
    <3>1. 256 * 0 + m = m /\ 256 * 0 + n = n
      BY <2>8
    <3> QED
      BY <2>9, <3>1
  <2>11. ReadBody(c, Drop(q, 6), m, n)
    BY <1>3, <2>10 DEF ReadRequest, q
  <2>12. PICK b : b = BodyOf(q, n)
    OBVIOUS
  <2>13. b \in Seq(Nat) /\ ZeroBeyond(b, v, k)
    <3>1. q \in Seq(Nat) /\ v \in Seq(Nat) /\ k \in Nat /\ k >= 6 /\ k <= Len(v)
      BY <2>1, <2>2, <2>6
    <3>2. Begins(q, v, k) /\ Len(v) = 6 + n
      BY <2>5, <2>9 DEF Begins
    <3> QED
      BY <2>8, <2>12, <3>1, <3>2, BodyBytes
  <2>14. Fits(m, b)
    BY <2>1, <2>2, <2>4, <2>6, <2>7, <2>13, CutRequestFits
  <2>15. PICK r : r = handle_pam_request_method(username[c], m, b)
    OBVIOUS
  <2>16. usersList \in Seq(Account) /\ Sorted(usersList) /\ Typed(usersList)
    BY DEF PamInv
  <2>17. Allowed(usersList, r.list, username[c]) /\ Typed(r.list) /\ Counted(r, m = ADD)
    BY <2>13, <2>14, <2>15, <2>16, MethodAllowed
  <2>18. CASE r.status = NullRead
    <3>1. Dies("crashed")
      BY <2>11, <2>12, <2>15, <2>18 DEF ReadBody, BodyOf
    <3> QED
      BY <3>1
  <2>19. CASE r.status # NullRead
    <3>1. /\ usersList' = r.list /\ totalAdmins' = r.admins /\ UNCHANGED username
          /\ \E st \in IF r.status = Uninit THEN {SUCCESS, FAILURE} ELSE {r.status} :
               Respond(c, st)
      BY <2>11, <2>12, <2>15, <2>19 DEF ReadBody, BodyOf
    <3>2. PICK st \in IF r.status = Uninit THEN {SUCCESS, FAILURE} ELSE {r.status} :
            Respond(c, st)
      BY <3>1
    <3>3. st \in 0..6
      BY <2>17, <2>19 DEF Counted, SUCCESS, FAILURE
    <3>4. m = ADD => Adds(c)
      BY <2>3, <2>7 DEF Adds, v
    <3>5. totalAdmins' = totalAdmins \/ (Adds(c) /\ totalAdmins' = totalAdmins + 1)
      BY <2>17, <3>1, <3>4 DEF Counted
    <3> QED
      BY <2>17, <3>1, <3>2, <3>3, <3>5
  <2> QED
    BY <2>18, <2>19
<1> QED
  BY <1>1, <1>2, <1>3

\* pam_request_read
LEMMA RequestReadInv == ASSUME PamInv, NEW c \in Session, pam_request_read(c) PROVE PamInv'
<1>1. SessionTypes /\ state[c] = "PAM_REQUEST" /\ out[c] = 0
  BY DEF PamInv, pam_request_read
<1>2. CASE pam_done(c)
  BY <1>2, DoneInv
<1>3. ASSUME NEW k \in Pieces(c), ReadRequest(c, Buffered(c, k)), Received(c, k) PROVE PamInv'
  <2>1. PICK w : w = Drop(wire[c], k)
    OBVIOUS
  <2>2. w \in Seq(Nat)
    BY <1>1, <1>3, <2>1, PieceFacts
  <2>3. CASE \E how \in {"aborted", "crashed", "killed"} : Dies(how)
    BY <2>3, DiesInv
  <2>4. CASE /\ Allowed(usersList, usersList', username[c]) /\ Typed(usersList')
             /\ totalAdmins' = totalAdmins \/ (Adds(c) /\ totalAdmins' = totalAdmins + 1)
             /\ UNCHANGED username /\ \E st \in 0..6 : Respond(c, st)
    <3>1. PICK st \in 0..6 : Respond(c, st)
      BY <2>4
    <3>2. usersList' \in Seq(Account) /\ Sorted(usersList') /\ Typed(usersList')
      BY <2>4 DEF Allowed
    <3>3. state' = state
      BY <3>1 DEF Respond
    <3>4. wire' = [wire EXCEPT ![c] = w]
      BY <1>1, <1>3, <2>1, <3>3 DEF Received, SessionTypes
    <3>5. client[c] # "connected"
      BY <1>1 DEF PamInv, SessionOK
    <3>6. username' \in [Session -> Name]
      BY <1>1, <2>4 DEF SessionTypes
    <3> QED
      BY <1>1, <2>2, <2>4, <3>1, <3>2, <3>4, <3>5, <3>6, RespondInv
  <2> QED
    BY <1>1, <1>2, <1>3, <2>3, <2>4, ReadRequestFacts
<1> QED
  BY <1>2, <1>3 DEF pam_request_read

------------------------------------------------------------------------------
(* The writers.                                                            *)

\* A step that changes nothing.
LEMMA StutterInv == ASSUME PamInv, UNCHANGED vars PROVE PamInv'
<1>1. /\ usersList' = usersList /\ totalAdmins' = totalAdmins /\ state' = state /\ sub' = sub
      /\ username' = username /\ lens' = lens /\ buf' = buf /\ status' = status
      /\ wire' = wire /\ out' = out /\ client' = client /\ proc' = proc
  BY DEF vars, userVars, sessionVars
<1>2. SessionTypes'
  BY <1>1 DEF PamInv, SessionTypes
<1>3. Adding' = Adding
  BY <1>1 DEF Adding, Adds
<1>4. RoomForAdmins'
  BY <1>1, <1>3, RoomKept DEF PamInv
<1> QED
  BY <1>1, <1>2, <1>4 DEF PamInv

\* An answer that is not all sent, or cannot be.
LEMMA SendInv == ASSUME PamInv, NEW c \in Session, SendPart(c) \/ SendFails(c) PROVE PamInv'
<1>1. CASE SendPart(c)
  BY <1>1, StutterInv DEF SendPart
<1>2. CASE pam_done(c)
  BY <1>2, DoneInv
<1>3. CASE Dies("killed")
  BY <1>3, DiesInv
<1> QED
  BY <1>1, <1>2, <1>3 DEF SendFails

\* pam_auth_write: a client that waits in PAM_REQUEST has yet to send its request.
LEMMA AuthWriteInv == ASSUME PamInv, NEW c \in Session, pam_auth_write(c) PROVE PamInv'
<1>1. CASE SendPart(c) \/ SendFails(c)
  BY <1>1, SendInv
<1>2. CASE AuthCompleted(c)
  <2>1. SessionTypes
    BY DEF PamInv
  <2>2. SessionTypes'
    BY <1>2, <2>1 DEF SessionTypes, AuthCompleted
  <2>3. \A d \in Session \ {c} : Kept(d)
    BY <1>2, <2>1 DEF SessionTypes, AuthCompleted, Kept
  <2>4. /\ client[c] # "connected" /\ client[c] # "req_sent"
        /\ buf[c] = <<>> /\ wire[c] = <<>>
    BY DEF PamInv, SessionOK, pam_auth_write
  <2>5. /\ state'[c] = "PAM_REQUEST" /\ client'[c] = client[c]
        /\ buf'[c] = <<>> /\ wire'[c] = <<>>
    BY <1>2, <2>1, <2>4 DEF SessionTypes, AuthCompleted
  <2>6. SessionOK(state'[c], sub'[c], lens'[c], buf'[c], wire'[c], out'[c], client'[c])
    BY <2>4, <2>5 DEF SessionOK
  <2>7. UNCHANGED userVars /\ ~Adds(c)'
    BY <1>2, <2>5 DEF AuthCompleted, Adds
  <2> QED
    BY <2>2, <2>3, <2>6, <2>7, OneSessionOnly
<1> QED
  BY <1>1, <1>2 DEF pam_auth_write

\* pam_request_write
LEMMA RequestWriteInv == ASSUME PamInv, NEW c \in Session, pam_request_write(c) PROVE PamInv'
<1>1. CASE SendPart(c) \/ SendFails(c)
  BY <1>1, SendInv
<1>2. CASE pam_done(c)
  BY <1>2, DoneInv
<1> QED
  BY <1>1, <1>2 DEF pam_request_write

------------------------------------------------------------------------------
(* The client.                                                             *)

\* A client that sends w and goes on to cl.
LEMMA SentInv ==
  ASSUME PamInv, NEW c \in Session, NEW w \in Seq(Nat),
         NEW cl \in {"auth_sent", "req_sent"}, wire' = [wire EXCEPT ![c] = w],
         client' = [client EXCEPT ![c] = cl], UNCHANGED <<userVars, sessionVars, proc>>,
         SessionOK(state[c], sub[c], lens[c], buf[c], w, out[c], cl),
         state[c] = "PAM_REQUEST" /\ w[4] = ADD =>
           totalAdmins + Cardinality(Session) <= MaxAdmins
  PROVE  PamInv'
<1>1. SessionTypes
  BY DEF PamInv
<1>2. /\ state' = state /\ sub' = sub /\ lens' = lens /\ buf' = buf /\ out' = out
      /\ username' = username /\ status' = status /\ proc' = proc
      /\ usersList' = usersList /\ totalAdmins' = totalAdmins
  BY DEF sessionVars, userVars
<1>3. SessionTypes'
  BY <1>1, <1>2 DEF SessionTypes
<1>4. \A d \in Session \ {c} : Kept(d)
  BY <1>1, <1>2 DEF SessionTypes, Kept
<1>5. wire'[c] = w /\ client'[c] = cl
  BY <1>1 DEF SessionTypes
<1>6. SessionOK(state'[c], sub'[c], lens'[c], buf'[c], wire'[c], out'[c], client'[c])
  BY <1>2, <1>5
<1>7. RoomForAdmins'
  <2>1. CASE ~Adds(c)'
    BY <1>2, <1>4, <2>1, RoomUsed DEF PamInv
  <2>2. CASE Adds(c)'
    <3>1. totalAdmins + Cardinality(Session) <= MaxAdmins
      BY <1>2, <1>5, <2>2 DEF Adds
    <3>2. PICK n, m : n = Cardinality(Session) /\ m = Cardinality(Adding')
      OBVIOUS
    <3>3. Adding' \subseteq Session
      BY DEF Adding
    <3>4. n \in Nat /\ m \in Nat /\ m <= n
      BY <3>2, <3>3, SessionAssumption, FS_Subset, FS_CardinalityType
    <3>5. totalAdmins \in Nat /\ MaxAdmins \in Nat
      BY SessionAssumption DEF PamInv, RoomForAdmins
    <3>6. totalAdmins + m <= MaxAdmins
      BY <3>1, <3>2, <3>4, <3>5
    <3>7. Cardinality(Adding)' = m
      BY <3>2
    <3> QED
      BY <1>2, <3>5, <3>6, <3>7 DEF RoomForAdmins
  <2> QED
    BY <2>1, <2>2
<1>8. usersList' \in Seq(Account) /\ Sorted(usersList') /\ Typed(usersList')
  BY <1>2 DEF PamInv
<1> QED
  BY <1>3, <1>4, <1>6, <1>7, <1>8, OneSession

\* The characters of a password are bytes.
LEMMA PasswordFacts == ASSUME NEW p \in Password PROVE p \in Seq(Nat)
<1>1. p \in Seq(Nat \ {0})
  BY PasswordAssumption
<1>2. Len(p) \in Nat /\ p \in [1..Len(p) -> Nat \ {0}]
  BY <1>1, LenProperties
<1>3. p \in [1..Len(p) -> Nat]
  BY <1>2
<1> QED
  BY <1>2, <1>3, TableSeq

\* The message of authentication: its third byte is the length of what follows the name.
LEMMA AuthMessageFacts ==
  ASSUME NEW u \in 1..MaxName, NEW p \in Password, NEW w,
         w = <<PAM_VERSION_1, 1, Len(p), u>> \o p
  PROVE  w \in Seq(Nat) /\ w # <<>> /\ AuthMessage(w)
<1>1. p \in Seq(Nat)
  BY PasswordFacts
<1>2. PICK n : n = Len(p)
  OBVIOUS
<1>3. n \in Nat
  BY <1>1, <1>2, LenProperties
<1>4. u \in Nat /\ u \in Name
  BY MaxNameAssumption DEF Name
<1>5. PICK h : h = <<1, 1, n, u>>
  OBVIOUS
<1>6. h \in Seq(Nat) /\ Len(h) = 4 /\ h[2] = 1 /\ h[3] = n /\ h[4] = u
  BY <1>3, <1>4, <1>5
<1>7. w = h \o p
  BY <1>2, <1>5 DEF PAM_VERSION_1
<1>8. /\ w \in Seq(Nat) /\ Len(w) = Len(h) + Len(p)
      /\ \A i \in 1..Len(h) + Len(p) : w[i] = IF i <= Len(h) THEN h[i] ELSE p[i - Len(h)]
  BY <1>1, <1>6, <1>7, CatFacts, SMTT(30)
<1>9. 2 \in 1..4 + n /\ 3 \in 1..4 + n /\ 4 \in 1..4 + n /\ 4 + n >= 4
  BY <1>3
<1>10. w[2] = h[2] /\ w[3] = h[3] /\ w[4] = h[4]
  BY <1>2, <1>6, <1>8, <1>9
<1>11. Len(w) = 4 + n /\ 4 + n # 0
  BY <1>2, <1>3, <1>6, <1>8
<1>12. Len(<<>>) = 0
  OBVIOUS
<1>13. w # <<>>
  BY <1>11, <1>12
<1> QED
  BY <1>4, <1>6, <1>8, <1>9, <1>10, <1>11, <1>13 DEF AuthMessage

\* main, before the answer
LEMMA ClientAuthInv == ASSUME PamInv, NEW c \in Session, ClientAuth(c) PROVE PamInv'
<1>1. PICK u \in 1..MaxName, p \in Password :
        wire' = [wire EXCEPT ![c] = <<PAM_VERSION_1, 1, Len(p), u>> \o p]
  BY DEF ClientAuth
<1>2. PICK w : w = <<PAM_VERSION_1, 1, Len(p), u>> \o p
  OBVIOUS
<1>3. w \in Seq(Nat) /\ w # <<>> /\ AuthMessage(w)
  BY <1>2, AuthMessageFacts
<1>4. wire' = [wire EXCEPT ![c] = w]
  BY <1>1, <1>2
<1>5. /\ state[c] = "PAM_AUTH" /\ sub[c] = "VER_N_NUSER_N_NPASS" /\ buf[c] = <<>>
      /\ out[c] = 0
  BY DEF PamInv, SessionOK, ClientAuth
<1>6. SessionOK(state[c], sub[c], lens[c], buf[c], w, out[c], "auth_sent")
  BY <1>3, <1>5 DEF SessionOK, AuthParse
<1>7. client' = [client EXCEPT ![c] = "auth_sent"] /\ UNCHANGED <<userVars, sessionVars, proc>>
  BY DEF ClientAuth
<1> QED
  BY <1>3, <1>4, <1>5, <1>6, <1>7, SentInv

\* What the body of a request for method m has where the server looks for it.
BodyFor(m, b) ==
  /\ Len(b) >= 2 => b[2] \in 0..Long
  /\ m = CHANGE_ROLE => Len(b) = 3 /\ b[1] = 1 /\ b[3] \in 0..255
  /\ m = ADD => Len(b) >= 4 /\ Len(b) = 4 + b[3] /\ b[1] = 1 /\ b[Len(b)] \in 0..255

\* send_request
LEMMA RequestFacts ==
  ASSUME NEW m \in Nat, NEW b \in Seq(Nat), BodyFor(m, b), NEW w, w = Request(m, b)
  PROVE  w \in Seq(Nat) /\ w # <<>> /\ RequestMessage(w) /\ w[4] = m
<1>1. PICK n : n = Len(b)
  OBVIOUS
<1>2. n \in Nat
  BY <1>1, LenProperties
<1>3. PICK h : h = <<1, 0, 0, m, 0, n>>
  OBVIOUS
<1>4. /\ h \in Seq(Nat) /\ Len(h) = 6 /\ h[3] = 0 /\ h[4] = m /\ h[5] = 0 /\ h[6] = n
  BY <1>2, <1>3
<1>5. w = h \o b
  BY <1>1, <1>3 DEF Request, PAM_VERSION_1, RESERVED_BYTE
<1>6. /\ w \in Seq(Nat) /\ Len(w) = 6 + n
      /\ \A i \in 1..6 + n : w[i] = IF i <= 6 THEN h[i] ELSE b[i - 6]
  <2>1. /\ h \o b \in Seq(Nat) /\ Len(h \o b) = Len(h) + Len(b)
        /\ \A i \in 1..Len(h) + Len(b) : (h \o b)[i] = IF i <= Len(h) THEN h[i] ELSE b[i - Len(h)]
    BY <1>4, CatFacts
  <2> QED
    BY <1>1, <1>4, <1>5, <2>1
<1>7. w # <<>>
  <2>1. 6 + n # 0 /\ Len(<<>>) = 0
    BY <1>2
  <2> QED
    BY <1>6, <2>1
<1>8. w[3] = 0 /\ w[4] = m /\ w[5] = 0 /\ w[6] = n
  <2>1. 3 \in 1..6 + n /\ 4 \in 1..6 + n /\ 5 \in 1..6 + n /\ 6 \in 1..6 + n
    BY <1>2
  <2> QED
    BY <1>4, <1>6, <2>1
<1>9. ASSUME NEW i \in 1..n PROVE w[6 + i] = b[i]
  <2>1. 6 + i \in 1..6 + n /\ ~(6 + i <= 6) /\ 6 + i - 6 = i
    BY <1>2
  <2> QED
    BY <1>6, <2>1
<1>10. ASSUME 6 + n >= 8 PROVE w[8] \in 0..Long
  <2>1. n >= 2 /\ 2 \in 1..n /\ 6 + 2 = 8
    BY <1>2, <1>10
  <2>2. w[8] = b[2]
    BY <1>9, <2>1
  <2> QED
    BY <1>1, <2>1, <2>2 DEF BodyFor
<1>11. ASSUME m = CHANGE_ROLE PROVE 6 + n = 9 /\ w[7] = 1 /\ w[9] \in 0..255
  <2>1. n = 3 /\ b[1] = 1 /\ b[3] \in 0..255
    BY <1>1, <1>11 DEF BodyFor
  <2>2. 1 \in 1..n /\ 3 \in 1..n /\ 6 + 1 = 7 /\ 6 + 3 = 9
    BY <2>1
  <2>3. w[7] = b[1] /\ w[9] = b[3]
    BY <1>9, <2>2
  <2> QED
    BY <2>1, <2>3
<1>12. ASSUME m = ADD
       PROVE  6 + n >= 10 /\ 6 + n = 10 + w[9] /\ w[7] = 1 /\ w[6 + n] \in 0..255
  <2>1. n >= 4 /\ n = 4 + b[3] /\ b[1] = 1 /\ b[n] \in 0..255
    BY <1>1, <1>12 DEF BodyFor
  <2>2. 1 \in 1..n /\ 3 \in 1..n /\ n \in 1..n /\ 6 + 1 = 7 /\ 6 + 3 = 9 /\ 6 + n >= 10
    BY <1>2, <2>1
  <2>3. w[7] = b[1] /\ w[9] = b[3] /\ w[6 + n] = b[n]
    BY <1>9, <2>2
  <2>4. PICK z : z = b[3]
    OBVIOUS
  <2>5. z \in Nat
    <3>1. 3 \in 1..Len(b)
      BY <1>1, <2>2
    <3> QED
      BY <2>4, <3>1, ElementOfSeq
  <2>6. 6 + (4 + z) = 10 + z
    BY <2>5
  <2> QED
    BY <2>1, <2>2, <2>3, <2>4, <2>6
<1>13. PICK y : y = 6 + n
  OBVIOUS
<1>14. y >= 6
  BY <1>2, <1>13
<1>15. /\ Len(w) = y /\ y >= 6 /\ w[3] = 0 /\ w[5] = 0 /\ y = 6 + w[6]
       /\ y >= 8 => w[8] \in 0..Long
       /\ w[4] = CHANGE_ROLE => y = 9 /\ w[7] = 1 /\ w[9] \in 0..255
       /\ w[4] = ADD => y >= 10 /\ y = 10 + w[9] /\ w[7] = 1 /\ w[y] \in 0..255
  BY <1>6, <1>8, <1>10, <1>11, <1>12, <1>13, <1>14
<1>16. RequestMessage(w)
  BY <1>15 DEF RequestMessage
<1> QED
  BY <1>6, <1>7, <1>8, <1>16

\* The name, the length of the password and the password, in the body of a request.
LEMMA CredentialsFacts ==
  ASSUME NEW u \in Nat, NEW p \in Password
  PROVE  LET b == <<1, u, Len(p)>> \o p
         IN  /\ b \in Seq(Nat) /\ Len(b) = 3 + Len(p) /\ Len(p) \in Nat
             /\ b[1] = 1 /\ b[2] = u /\ b[3] = Len(p)
<1>1. p \in Seq(Nat)
  BY PasswordFacts
<1>2. PICK n \in Nat : n = Len(p)
  BY <1>1, LenProperties
<1>3. PICK h : h = <<1, u, n>>
  OBVIOUS
<1>4. h \in Seq(Nat) /\ Len(h) = 3 /\ h[1] = 1 /\ h[2] = u /\ h[3] = n
  BY <1>3
<1>5. /\ h \o p \in Seq(Nat) /\ Len(h \o p) = Len(h) + Len(p)
      /\ \A i \in 1..Len(h) + Len(p) : (h \o p)[i] = IF i <= Len(h) THEN h[i] ELSE p[i - Len(h)]
  BY <1>1, <1>4, CatFacts
<1>6. 1 \in 1..3 + n /\ 2 \in 1..3 + n /\ 3 \in 1..3 + n
  OBVIOUS
<1>7. (h \o p)[1] = 1 /\ (h \o p)[2] = u /\ (h \o p)[3] = n
  BY <1>2, <1>4, <1>5, <1>6
<1>8. <<1, u, Len(p)>> = h
  BY <1>2, <1>3
<1> QED
  BY <1>2, <1>4, <1>5, <1>7, <1>8

\* Every request the client may send, of whatever kind: one to add a user is sent only
\* when there is room.
LEMMA RequestsFacts ==
  ASSUME NEW w \in Requests, totalAdmins \in Nat
  PROVE  /\ w \in Seq(Nat) /\ w # <<>> /\ RequestMessage(w)
         /\ w[4] = ADD => totalAdmins + Cardinality(Session) <= MaxAdmins
<1> DEFINE Good == w \in Seq(Nat) /\ w # <<>> /\ RequestMessage(w)
<1>1. /\ 1..MaxName \subseteq Nat /\ 1..Long \subseteq Nat /\ Role \subseteq 0..255
      /\ Role \subseteq Nat /\ 1..MaxName \subseteq 0..Long /\ 1..Long \subseteq 0..Long
      /\ NewPassword \subseteq Password
  BY MaxNameAssumption, RoleAssumption DEF Long, NewPassword
<1>2. /\ LIST \in Nat /\ METRICS \in Nat /\ NoMethod \in Nat /\ REMOVE \in Nat /\ ADD \in Nat
      /\ CHANGE_PASSWORD \in Nat /\ CHANGE_ROLE \in Nat
      /\ \A m \in {LIST, METRICS, NoMethod, REMOVE, CHANGE_PASSWORD} : m # ADD /\ m # CHANGE_ROLE
      /\ CHANGE_ROLE # ADD
  BY DEF LIST, METRICS, NoMethod, REMOVE, ADD, CHANGE_PASSWORD, CHANGE_ROLE
<1>3. ASSUME NEW m \in {LIST, METRICS, NoMethod}, w = Request(m, <<>>)
      PROVE  Good /\ w[4] # ADD
  <2>1. PICK b : b = <<>>
    OBVIOUS
  <2>2. m \in Nat /\ b \in Seq(Nat) /\ Len(b) = 0 /\ m # ADD /\ m # CHANGE_ROLE
    BY <1>2, <2>1
  <2>3. BodyFor(m, b)
    BY <2>2 DEF BodyFor
  <2> QED
    BY <1>3, <2>1, <2>2, <2>3, RequestFacts
<1>4. ASSUME NEW u \in 1..MaxName, w = Request(REMOVE, <<1, u>>)
      PROVE  Good /\ w[4] # ADD
  <2>1. PICK b : b = <<1, u>>
    OBVIOUS
  <2>2. b \in Seq(Nat) /\ b[2] = u
    BY <1>1, <2>1
  <2>3. BodyFor(REMOVE, b)
    BY <1>1, <1>2, <2>2 DEF BodyFor
  <2> QED
    BY <1>2, <1>4, <2>1, <2>2, <2>3, RequestFacts
<1>5. ASSUME NEW u \in 1..MaxName, NEW p \in NewPassword,
             w = Request(CHANGE_PASSWORD, <<1, u, Len(p)>> \o p)
      PROVE  Good /\ w[4] # ADD
  <2>1. PICK b : b = <<1, u, Len(p)>> \o p
    OBVIOUS
  <2>2. b \in Seq(Nat) /\ b[2] = u
    BY <1>1, <2>1, CredentialsFacts
  <2>3. BodyFor(CHANGE_PASSWORD, b)
    BY <1>1, <1>2, <2>2 DEF BodyFor
  <2>4. w = Request(CHANGE_PASSWORD, b)
    BY <1>5, <2>1
  <2> QED
    BY <1>2, <2>2, <2>3, <2>4, RequestFacts
<1>6. ASSUME NEW u \in 1..MaxName, NEW r \in Role, w = Request(CHANGE_ROLE, <<1, u, r>>)
      PROVE  Good /\ w[4] # ADD
  <2>1. PICK b : b = <<1, u, r>>
    OBVIOUS
  <2>2. b \in Seq(Nat) /\ Len(b) = 3 /\ b[1] = 1 /\ b[2] = u /\ b[3] = r
    BY <1>1, <2>1
  <2>3. BodyFor(CHANGE_ROLE, b)
    BY <1>1, <1>2, <2>2 DEF BodyFor
  <2> QED
    BY <1>2, <1>6, <2>1, <2>2, <2>3, RequestFacts
<1>7. ASSUME NEW u \in 1..Long, NEW p \in NewPassword, NEW r \in Role,
             w = Request(ADD, <<1, u, Len(p)>> \o p \o <<r>>)
      PROVE  Good
  <2>1. PICK h, t, b, n : h = <<1, u, Len(p)>> \o p /\ t = <<r>> /\ b = h \o t /\ n = Len(p)
    OBVIOUS
  <2>2. /\ h \in Seq(Nat) /\ Len(h) = 3 + n /\ n \in Nat
        /\ h[1] = 1 /\ h[2] = u /\ h[3] = n
    BY <1>1, <2>1, CredentialsFacts
  <2>3. t \in Seq(Nat) /\ Len(t) = 1 /\ t[1] = r
    BY <1>1, <2>1
  <2>4. /\ b \in Seq(Nat) /\ Len(b) = Len(h) + Len(t)
        /\ \A i \in 1..Len(h) + Len(t) : b[i] = IF i <= Len(h) THEN h[i] ELSE t[i - Len(h)]
    <3>1. b = h \o t
      BY <2>1
    <3> QED
      BY <2>2, <2>3, <3>1, CatFacts
  <2>5. /\ 3 + n + 1 = 4 + n /\ 4 + n >= 4 /\ 1 \in 1..4 + n /\ 2 \in 1..4 + n /\ 3 \in 1..4 + n
        /\ 4 + n \in 1..4 + n /\ 1 <= 3 + n /\ 2 <= 3 + n /\ 3 <= 3 + n /\ ~(4 + n <= 3 + n)
        /\ 4 + n - (3 + n) = 1
    BY <2>2
  <2>6. /\ Len(b) = 4 + n
        /\ \A i \in 1..4 + n : b[i] = IF i <= 3 + n THEN h[i] ELSE t[i - (3 + n)]
    BY <2>2, <2>3, <2>4, <2>5
  <2>7. b[1] = 1 /\ b[2] = u /\ b[3] = n /\ b[4 + n] = r
    BY <2>2, <2>3, <2>5, <2>6
  <2>8. BodyFor(ADD, b)
    <3>1. u \in 0..Long /\ ADD # CHANGE_ROLE /\ r \in 0..255
      BY <1>1, <1>2
    <3>2. b[Len(b)] = r /\ Len(b) >= 4 /\ Len(b) = 4 + b[3]
      BY <2>5, <2>6, <2>7
    <3>3. b[Len(b)] \in 0..255
      BY <3>1, <3>2, Zenon
    <3> QED
      BY <2>7, <3>1, <3>2, <3>3, Zenon DEF BodyFor
  <2>9. w = Request(ADD, b)
    BY <1>7, <2>1
  <2> QED
    BY <1>2, <2>4, <2>8, <2>9, RequestFacts
<1> DEFINE Plain == {Request(m, <<>>) : m \in {LIST, METRICS, NoMethod}}
           Removals == {Request(REMOVE, <<1, u>>) : u \in 1..MaxName}
           Passwords == {Request(CHANGE_PASSWORD, <<1, u, Len(p)>> \o p) :
                           u \in 1..MaxName, p \in NewPassword}
           Roles == {Request(CHANGE_ROLE, <<1, u, r>>) : u \in 1..MaxName, r \in Role}
           Additions == {Request(ADD, <<1, u, Len(p)>> \o p \o <<r>>) :
                           u \in 1..Long, p \in NewPassword, r \in Role}
<1> HIDE DEF Good
<1>8. /\ w \in Plain => \E m \in {LIST, METRICS, NoMethod} : w = Request(m, <<>>)
      /\ w \in Removals => \E u \in 1..MaxName : w = Request(REMOVE, <<1, u>>)
  OBVIOUS
<1>9. w \in Passwords =>
        \E u \in 1..MaxName, p \in NewPassword : w = Request(CHANGE_PASSWORD, <<1, u, Len(p)>> \o p)
  <2> DEFINE F(u, p) == Request(CHANGE_PASSWORD, <<1, u, Len(p)>> \o p)
  <2>1. Passwords = {F(u, p) : u \in 1..MaxName, p \in NewPassword}
    OBVIOUS
  <2> HIDE DEF F, Passwords
  <2>2. w \in Passwords => \E u \in 1..MaxName, p \in NewPassword : w = F(u, p)
    BY <2>1, SMT
  <2> QED
    BY <2>2 DEF F
<1>10. w \in Roles => \E u \in 1..MaxName, r \in Role : w = Request(CHANGE_ROLE, <<1, u, r>>)
  BY SMT
<1>11. w \in Additions =>
         \E u \in 1..Long, p \in NewPassword, r \in Role :
           w = Request(ADD, <<1, u, Len(p)>> \o p \o <<r>>)
  BY SMTT(30)
<1>12. Requests = Plain \cup Removals \cup Passwords \cup Roles
                  \cup IF totalAdmins + Cardinality(Session) > MaxAdmins THEN {} ELSE Additions
  BY DEF Requests
<1> HIDE DEF Plain, Removals, Passwords, Roles, Additions
<1>13. \/ w \in Plain \/ w \in Removals \/ w \in Passwords \/ w \in Roles
       \/ w \in Additions /\ ~(totalAdmins + Cardinality(Session) > MaxAdmins)
  BY <1>12
<1>14. CASE w \in Plain \/ w \in Removals \/ w \in Passwords \/ w \in Roles
  BY <1>3, <1>4, <1>5, <1>6, <1>8, <1>9, <1>10, <1>14 DEF Good
<1>15. CASE w \in Additions /\ ~(totalAdmins + Cardinality(Session) > MaxAdmins)
  <2>1. Good
    BY <1>7, <1>11, <1>15
  <2>2. PICK n : n = Cardinality(Session)
    OBVIOUS
  <2>3. n \in Nat /\ MaxAdmins \in Nat /\ ~(totalAdmins + n > MaxAdmins)
    BY <1>15, <2>2, SessionAssumption, FS_CardinalityType
  <2>4. totalAdmins + n <= MaxAdmins
    BY <2>3
  <2> QED
    BY <2>1, <2>2, <2>4 DEF Good
<1> QED
  BY <1>13, <1>14, <1>15

\* send_request
LEMMA ClientRequestInv == ASSUME PamInv, NEW c \in Session, ClientRequest(c) PROVE PamInv'
<1>1. PICK w \in Requests : wire' = [wire EXCEPT ![c] = w]
  BY DEF ClientRequest
<1>2. totalAdmins \in Nat
  BY DEF PamInv, RoomForAdmins
<1>3. /\ w \in Seq(Nat) /\ w # <<>> /\ RequestMessage(w)
      /\ w[4] = ADD => totalAdmins + Cardinality(Session) <= MaxAdmins
  BY <1>2, RequestsFacts
<1>4. SessionOK(state[c], sub[c], lens[c], buf[c], w, out[c], "req_sent")
  BY <1>3 DEF ClientRequest, PamInv, SessionOK
<1>5. client' = [client EXCEPT ![c] = "req_sent"] /\ UNCHANGED <<userVars, sessionVars, proc>>
  BY DEF ClientRequest
<1> QED
  BY <1>1, <1>3, <1>4, <1>5, SentInv

\* A client that goes away leaves its bytes on the wire.
LEMMA ClientClosesInv == ASSUME PamInv, NEW c \in Session, ClientCloses(c) PROVE PamInv'
<1>1. SessionTypes
  BY DEF PamInv
<1>2. /\ state' = state /\ sub' = sub /\ lens' = lens /\ buf' = buf /\ out' = out /\ wire' = wire
      /\ username' = username /\ status' = status /\ proc' = proc
      /\ UNCHANGED userVars
  BY DEF ClientCloses, sessionVars
<1>3. SessionTypes'
  BY <1>1, <1>2 DEF SessionTypes, ClientCloses
<1>4. \A d \in Session \ {c} : Kept(d)
  BY <1>1, <1>2 DEF SessionTypes, Kept, ClientCloses
<1>5. client'[c] = "gone" /\ state[c] # "CLOSED"
  BY <1>1 DEF SessionTypes, ClientCloses, PamInv, SessionOK
<1>6. SessionOK(state[c], sub[c], lens[c], buf[c], wire[c], out[c], client[c])
  BY DEF PamInv
<1>7. SessionOK(state[c], sub[c], lens[c], buf[c], wire[c], out[c], "gone")
  BY <1>5, <1>6 DEF SessionOK, AuthParse
<1>8. SessionOK(state'[c], sub'[c], lens'[c], buf'[c], wire'[c], out'[c], client'[c])
  BY <1>2, <1>5, <1>7
<1>9. Adds(c)' => Adds(c)
  BY <1>2 DEF Adds
<1> QED
  BY <1>2, <1>3, <1>4, <1>8, <1>9, OneSessionOnly

------------------------------------------------------------------------------
(* The theorems.                                                           *)

\* The initial state: "admin", and perhaps another user after it.
LEMMA InitInv == ASSUME Init PROVE PamInv
<1>1. PICK a, z : /\ a = [username |-> Admin, password |-> Default, privilege_level |-> 0]
                  /\ z = [username |-> MaxName, password |-> Default, privilege_level |-> 1]
  OBVIOUS
<1>2. /\ a \in Account /\ z \in Account /\ a.username < z.username
      /\ a \in User(Seq(Nat)) /\ z \in User(Seq(Nat))
  <2>1. Default \in Seq(Nat)
    BY PasswordAssumption, PasswordFacts
  <2> QED
    BY <1>1, <2>1, MaxNameAssumption DEF Account, Admin, User, Name
<1>3. usersList = <<a>> \o <<>> \/ usersList = <<a>> \o <<z>>
  BY <1>1 DEF Init
<1>4. PICK l : l = usersList
  OBVIOUS
<1>5. l \in Seq(Account) /\ Sorted(l) /\ \A i \in 1..Len(l) : l[i] = a \/ l[i] = z
  <2>1. CASE l = <<a>> \o <<>>
    <3>1. PICK s, t : s = <<a>> /\ t = <<>>
      OBVIOUS
    <3>2. s \in Seq(Account) /\ t \in Seq(Account) /\ Len(s) = 1 /\ Len(t) = 0 /\ s[1] = a
      BY <1>2, <3>1
    <3>3. /\ l \in Seq(Account) /\ Len(l) = 1
          /\ \A i \in 1..1 : l[i] = IF i <= 1 THEN s[i] ELSE t[i - 1]
      BY <2>1, <3>1, <3>2, CatFacts
    <3>4. l[1] = a
      BY <3>2, <3>3
    <3> QED
      BY <3>3, <3>4 DEF Sorted
  <2>2. CASE l = <<a>> \o <<z>>
    <3>1. PICK s, t : s = <<a>> /\ t = <<z>>
      OBVIOUS
    <3>2. /\ s \in Seq(Account) /\ t \in Seq(Account) /\ Len(s) = 1 /\ Len(t) = 1
          /\ s[1] = a /\ t[1] = z
      BY <1>2, <3>1
    <3>3. /\ l \in Seq(Account) /\ Len(l) = 2
          /\ \A i \in 1..2 : l[i] = IF i <= 1 THEN s[i] ELSE t[i - 1]
      BY <2>2, <3>1, <3>2, CatFacts
    <3>4. l[1] = a /\ l[2] = z
      BY <3>2, <3>3
    <3>5. \A i, j \in 1..2 : i < j => i = 1 /\ j = 2
      OBVIOUS
    <3>6. \A i \in 1..2 : i = 1 \/ i = 2
      OBVIOUS
    <3> QED
      BY <1>2, <3>3, <3>4, <3>5, <3>6 DEF Sorted
  <2> QED
    BY <1>3, <1>4, <2>1, <2>2
<1>6. Typed(l)
  <2>1. ASSUME NEW x \in ToSet(l) PROVE x \in User(Seq(Nat))
    <3>1. PICK i \in 1..Len(l) : x = l[i]
      BY <1>5, ToSetFacts
    <3> QED
      BY <1>2, <1>5, <3>1
  <2> QED
    BY <2>1 DEF Typed
<1>7. SessionTypes
  <2>1. <<>> \in Seq(Nat) /\ 0 \in Name /\ SUCCESS \in 0..6
    BY MaxNameAssumption DEF Name, SUCCESS
  <2> QED
    BY <2>1 DEF Init, SessionTypes, All
<1>8. ASSUME NEW c \in Session
      PROVE  /\ SessionOK(state[c], sub[c], lens[c], buf[c], wire[c], out[c], client[c])
             /\ ~Adds(c)
  BY DEF Init, All, SessionOK, Adds
<1>9. RoomForAdmins
  <2>1. Adding = {}
    BY <1>8 DEF Adding
  <2>2. Cardinality(Adding) = 0
    BY <2>1, FS_EmptySet
  <2>3. totalAdmins = 1 /\ 1 + 0 <= MaxAdmins
    BY SessionAssumption DEF Init
  <2> QED
    BY <2>2, <2>3 DEF RoomForAdmins
<1> QED
  BY <1>4, <1>5, <1>6, <1>7, <1>8, <1>9 DEF PamInv

\* Every step keeps the invariant.
LEMMA NextInv == ASSUME PamInv, [Next]_vars PROVE PamInv'
<1>1. ASSUME NEW c \in Session, Serve(c) PROVE PamInv'
  BY <1>1, AuthReadInv, AuthWriteInv, RequestReadInv, RequestWriteInv DEF Serve
<1>2. CASE Ended
  BY <1>2, StutterInv DEF Ended
<1>3. CASE UNCHANGED vars
  BY <1>3, StutterInv
<1> QED
  BY <1>1, <1>2, <1>3, AcceptInv, ClientAuthInv, ClientRequestInv, ClientClosesInv DEF Next

\* The invariant holds in every reachable state.
LEMMA PamInvariant == Spec => []PamInv
<1>1. Init => PamInv
  BY InitInv
<1>2. PamInv /\ [Next]_vars => PamInv'
  BY NextInv
<1> QED
  BY <1>1, <1>2, PTL DEF Spec

\* Only a request that is read changes the users, and as its method may.
LEMMA UsersChange ==
  ASSUME PamInv, Next, usersList' # usersList
  PROVE  \E c \in Session :
           /\ state[c] = "PAM_REQUEST" /\ out'[c] # out[c]
           /\ Allowed(usersList, usersList', username[c])
<1>1. ASSUME NEW c \in Session, NEW q, NEW name, NEW n, ReadPass(c, q, name, n)
      PROVE  usersList' = usersList
  BY <1>1 DEF ReadPass, Await, userVars
<1>2. ASSUME NEW c \in Session, pam_auth_read(c) PROVE usersList' = usersList
  <2>1. CASE pam_done(c)
    BY <2>1 DEF pam_done, userVars
  <2>2. ASSUME NEW q, NEW n, ReadUsername(c, q, n) PROVE usersList' = usersList
    BY <1>1, <2>2 DEF ReadUsername, Await, userVars
  <2>3. ASSUME NEW q, ReadAuthHeader(c, q) PROVE usersList' = usersList
    BY <2>1, <2>2, <2>3 DEF ReadAuthHeader
  <2>4. ASSUME NEW k \in Pieces(c), ParseAuth(c, Buffered(c, k)) PROVE usersList' = usersList
    <3>1. PICK q : q = Buffered(c, k)
      OBVIOUS
    <3>2. ParseAuth(c, q)
      BY <2>4, <3>1
    <3>3. sub[c] \in {"VER_N_NUSER_N_NPASS", "USERNAME", "PASS"}
      BY <1>2 DEF PamInv, SessionOK, AuthParse, pam_auth_read
    <3>4. CASE sub[c] = "VER_N_NUSER_N_NPASS"
      <4>1. ReadAuthHeader(c, q)
        BY <3>2, <3>4 DEF ParseAuth
      <4> QED
        BY <2>3, <4>1
    <3>5. CASE sub[c] = "USERNAME"
      <4>1. ReadUsername(c, q, lens[c])
        BY <3>2, <3>5 DEF ParseAuth
      <4> QED
        BY <2>2, <4>1
    <3>6. CASE sub[c] = "PASS"
      <4>1. ReadPass(c, q, username[c], lens[c])
        BY <3>2, <3>6 DEF ParseAuth
      <4> QED
        BY <1>1, <4>1
    <3> QED
      BY <3>3, <3>4, <3>5, <3>6
  <2> QED
    BY <1>2, <2>1, <2>4 DEF pam_auth_read
<1>3. ASSUME NEW c \in Session, pam_auth_write(c) \/ pam_request_write(c)
      PROVE  usersList' = usersList
  BY <1>3 DEF pam_auth_write, pam_request_write, SendPart, SendFails, AuthCompleted, pam_done,
              Dies, vars, userVars
<1>4. ASSUME NEW c \in Session, pam_passive_accept(c) \/ ClientAuth(c) \/ ClientRequest(c)
                                \/ ClientCloses(c)
      PROVE  usersList' = usersList
  BY <1>4 DEF pam_passive_accept, ClientAuth, ClientRequest, ClientCloses, userVars
<1>5. Ended => usersList' = usersList
  BY DEF Ended, vars, userVars
<1>6. PICK c \in Session : pam_request_read(c)
  BY <1>2, <1>3, <1>4, <1>5 DEF Next, Serve
<1>7. state[c] = "PAM_REQUEST" /\ out[c] = 0 /\ SessionTypes
  BY <1>6 DEF pam_request_read, PamInv
<1>8. ~pam_done(c) /\ \A how : ~Dies(how)
  BY DEF pam_done, Dies, userVars
<1>9. PICK k \in Pieces(c) : ReadRequest(c, Buffered(c, k))
  BY <1>6, <1>8 DEF pam_request_read
<1>10. Allowed(usersList, usersList', username[c]) /\ \E st : Respond(c, st)
  BY <1>7, <1>8, <1>9, ReadRequestFacts
<1>11. out'[c] = 1
  BY <1>7, <1>10 DEF Respond, SessionTypes
<1>12. out'[c] # out[c]
  BY <1>7, <1>11
<1> QED
  BY <1>7, <1>10, <1>12

\* Every variable of the administration stays within its type: whatever is read of a
\* message that was cut short, a name and a privilege are in range, the status is one of
\* the protocol, and totalAdmins stays below its bound, though requests to add a user
\* that were sent before it was reached are still carried out (pam.c, pamMethods.c).
THEOREM PamTypes == Spec => []TypeOK
<1>1. ASSUME PamInv PROVE TypeOK
  <2>1. PICK l : l = usersList
    OBVIOUS
  <2>2. l \in Seq(Account) /\ Typed(l)
    BY <1>1, <2>1 DEF PamInv
  <2>3. l \in Seq(User(Seq(Nat)))
    <3>1. Len(l) \in Nat /\ l \in [1..Len(l) -> Account]
      BY <2>2, LenProperties
    <3>2. \A i \in 1..Len(l) : l[i] \in User(Seq(Nat))
      BY <2>2, ToSetFacts DEF Typed
    <3>3. PICK S : S = User(Seq(Nat))
      OBVIOUS
    <3>4. l \in [1..Len(l) -> S]
      BY <3>1, <3>2, <3>3
    <3>5. l \in Seq(S)
      BY <3>1, <3>4
    <3> QED
      BY <3>3, <3>5
  <2>4. totalAdmins \in 0..MaxAdmins
    <3>1. PICK n : n = Cardinality(Adding)
      OBVIOUS
    <3>2. /\ n \in Nat /\ totalAdmins \in Nat /\ totalAdmins + n <= MaxAdmins
          /\ MaxAdmins \in Nat
      BY <1>1, <3>1, AddingFacts, SessionAssumption DEF PamInv, RoomForAdmins
    <3> QED
      BY <3>2
  <2>5. SessionTypes
    BY <1>1 DEF PamInv
  <2> QED
    BY <2>1, <2>3, <2>4, <2>5 DEF TypeOK, SessionTypes
<1> QED
  BY <1>1, PamInvariant, PTL

\* The list of users (list.c) stays in strict order, without a name twice, whatever the
\* administrators do and however TCP cuts what they send.
THEOREM UsersStaySorted == Spec => []UsersSorted
<1>1. PamInv => UsersSorted
  BY DEF PamInv, Sorted, UsersSorted
<1> QED
  BY <1>1, PamInvariant, PTL

\* The users change only by a request of a session in the name of a user that is an
\* administrator when the request is carried out (pamMethods.c), whether pam_auth_read
\* has accepted the password of that session or refused it.
THEOREM OnlyAdminsChangeUsers == Spec => ChangesByAdmins
<1>1. PamInv /\ [Next]_vars =>
        [usersList' # usersList =>
           \E c \in Session :
             /\ state[c] = "PAM_REQUEST" /\ out'[c] # out[c]
             /\ user_is_admin(usersList, username[c])]_vars
  BY UsersChange DEF Allowed, vars
<1> QED
  BY <1>1, PamInvariant, PTL DEF Spec, ChangesByAdmins

\* Whatever totalAdmins counts, a removal (handle_remove_user) leaves an administrator.
THEOREM RemovalLeavesAdmin == Spec => RemovalKeepsAnAdmin
<1>1. PamInv /\ [Next]_vars =>
        [Names(usersList) \ Names(usersList') # {} => HasAdmin(usersList')]_vars
  <2>1. ASSUME PamInv, Next, Names(usersList) \ Names(usersList') # {}
        PROVE  HasAdmin(usersList')
    <3>1. usersList' # usersList
      BY <2>1
    <3> QED
      BY <2>1, <3>1, UsersChange DEF Allowed
  <2> QED
    BY <2>1
<1> QED
  BY <1>1, PamInvariant, PTL DEF Spec, RemovalKeepsAnAdmin

\* However the messages are cut, a client whose bytes have all been read by
\* pam_auth_read or pam_request_read is being answered, or its session is over.
THEOREM EveryMessageAnswered == Spec => []NoMessageForgotten
<1>1. ASSUME PamInv PROVE NoMessageForgotten
  <2>1. SUFFICES ASSUME NEW c \in Session, wire[c] = <<>>, out[c] # 1,
                        \/ client[c] = "auth_sent" /\ state[c] = "PAM_AUTH"
                        \/ client[c] = "req_sent" /\ state[c] = "PAM_REQUEST"
                 PROVE  FALSE
    BY DEF NoMessageForgotten
  <2>2. out[c] = 0 /\ Len(wire[c]) = 0 /\ buf[c] \in Seq(Nat)
    BY <1>1, <2>1 DEF PamInv, SessionTypes
  <2>3. SessionOK(state[c], sub[c], lens[c], buf[c], wire[c], out[c], client[c])
    BY <1>1 DEF PamInv
  <2>4. client[c] = "auth_sent" /\ state[c] = "PAM_AUTH"
    BY <2>1, <2>2, <2>3 DEF SessionOK
  <2>5. AuthParse(sub[c], lens[c], buf[c], wire[c], "auth_sent")
    BY <2>2, <2>3, <2>4 DEF SessionOK
  <2>6. PICK q, n : q = Len(buf[c]) /\ n = lens[c]
    OBVIOUS
  <2>7. q \in Nat
    BY <2>2, <2>6, LenProperties
  <2>8. \/ n \in Nat \X Nat /\ 0 = 1 + n[2]
        \/ n \in Nat \X Nat /\ q + 0 = n[2] /\ q < n[2]
    BY <2>1, <2>2, <2>5, <2>6 DEF AuthParse
  <2> QED
    BY <2>7, <2>8
<1> QED
  BY <1>1, PamInvariant, PTL

\* The list of users, through every request of every session, implements the set of
\* AbstractUsers: one user is created, removed or changed at a time, by another that is
\* an administrator, and nobody else is touched (pamMethods.c, users.c and list.c).
THEOREM UsersImplemented == Spec => ImplementsUsers
<1>1. ASSUME Init PROVE Promised!Init
  <2>1. PICK a : a = [username |-> Admin, password |-> Default, privilege_level |-> 0]
    OBVIOUS
  <2>2. PICK l : l = usersList
    OBVIOUS
  <2>3. l \in Seq(Account)
    BY <1>1, <2>2, InitInv DEF PamInv
  <2>4. \E t : l = <<a>> \o t /\ (t = <<>> \/ \E z : t = <<z>>)
    BY <1>1, <2>1, <2>2 DEF Init
  <2>5. 1 \in 1..Len(l) /\ l[1] = a
    BY <2>4
  <2>6. a \in ToSet(l) /\ a.privilege_level = 0
    BY <2>1, <2>3, <2>5, ToSetFacts
  <2> QED
    BY <2>2, <2>6 DEF Promised!Init, Promised!IsAdmin
<1>2. ASSUME PamInv, Next, ToSet(usersList)' # ToSet(usersList)
      PROVE  Promised!Next
  <2>1. usersList' # usersList
    BY <1>2
  <2>2. PICK c \in Session : Allowed(usersList, usersList', username[c])
    BY <1>2, <2>1, UsersChange
  <2>3. user_is_admin(usersList, username[c]) /\ OneUser(usersList, usersList', username[c])
    BY <2>1, <2>2 DEF Allowed
  <2>4. PICK l, m : l = usersList /\ m = usersList'
    OBVIOUS
  <2>5. l \in Seq(Account)
    BY <1>2, <2>4 DEF PamInv
  <2>6. PICK k : k = user_get_if_exists(l, username[c])
    OBVIOUS
  <2>7. /\ k \in 1..Len(l) /\ l[k].username = username[c]
        /\ l[k].privilege_level = USER_PRIVILEGE_ADMIN
    BY <2>3, <2>4, <2>5, <2>6, FoundFacts DEF user_is_admin
  <2>8. PICK me : me = l[k]
    OBVIOUS
  <2>9. me \in ToSet(l) /\ me.username = username[c] /\ me.privilege_level = 0
    BY <2>5, <2>7, <2>8, ToSetFacts DEF USER_PRIVILEGE_ADMIN
  <2>10. me \in ToSet(usersList) /\ Promised!IsAdmin(me)
    BY <2>4, <2>9 DEF Promised!IsAdmin
  <2>11. Promised!Create \/ Promised!Remove(me) \/ Promised!Change
    <3>1. CASE \E u \in Account :
                 /\ \A v \in ToSet(l) : v.username # u.username
                 /\ ToSet(m) = ToSet(l) \cup {u}
      BY <2>4, <3>1 DEF Promised!Create
    <3>2. CASE \E u \in ToSet(l) : u.username # username[c] /\ ToSet(m) = ToSet(l) \ {u}
      BY <2>4, <2>9, <3>2 DEF Promised!Remove
    <3>3. CASE \E u \in ToSet(l), v \in Account :
                 /\ \/ v = [u EXCEPT !.password = v.password]
                    \/ v = [u EXCEPT !.privilege_level = v.privilege_level]
                 /\ ToSet(m) = (ToSet(l) \ {u}) \cup {v}
      BY <2>4, <3>3 DEF Promised!Change
    <3> QED
      BY <2>3, <2>4, <3>1, <3>2, <3>3 DEF OneUser
  <2> QED
    BY <1>2, <2>10, <2>11 DEF Promised!Next
<1>3. PamInv /\ [Next]_vars => [Promised!Next]_(ToSet(usersList))
  <2>1. UNCHANGED vars => ToSet(usersList)' = ToSet(usersList)
    BY DEF vars, userVars, ToSet
  <2> QED
    BY <1>2, <2>1
<1>4. Init => Promised!Init
  BY <1>1
<1> QED
  BY <1>3, <1>4, PamInvariant, PTL DEF Spec, ImplementsUsers, Promised!Spec
=============================================================================
