---------------------------- MODULE LoggerProofs -----------------------------
(***************************************************************************)
(* What the logger does for every size of its queue and every number of    *)
(* records: the linked list of queue.c is the bounded log it stands for,   *)
(* no record disappears, the output is in order, and nothing is dropped    *)
(* because the writer sleeps.                                              *)
(***************************************************************************)
EXTENDS Logger, NatLemmas, SequenceTheorems, FiniteSetTheorems

------------------------------------------------------------------------------
(* Arithmetic of the wake-up.                                              *)

\* Division with remainder.
LEMMA Quotient ==
  ASSUME NEW e \in Nat, e > 0, NEW a \in Nat
  PROVE  \E q, r \in Nat : r < e /\ a = e * q + r
<1> DEFINE Bad == {n \in Nat : ~\E q, r \in Nat : r < e /\ n = e * q + r}
<1>1. SUFFICES ASSUME a \in Bad PROVE FALSE
  OBVIOUS
<1>2. PICK n \in Bad : \A m \in Bad : n <= m
  BY <1>1, LeastExists
<1>3. n # 0
  <2>1. 0 < e /\ 0 = e * 0 + 0
    OBVIOUS
  <2> QED
    BY <1>2, <2>1
<1>4. n - 1 \in Nat /\ n - 1 \notin Bad
  BY <1>2, <1>3
<1>5. PICK q, r \in Nat : r < e /\ n - 1 = e * q + r
  BY <1>4
<1>6. CASE r + 1 < e
  <2>1. r + 1 \in Nat /\ n = e * q + (r + 1)
    BY <1>5
  <2> QED
    BY <1>2, <1>6, <2>1
<1>7. CASE ~(r + 1 < e)
  <2>1. q + 1 \in Nat /\ r + 1 = e
    BY <1>5, <1>7
  <2>2. n = e * (q + 1) + 0
    BY <1>5, <2>1
  <2> QED
    BY <1>2, <2>1, <2>2
<1> QED
  BY <1>6, <1>7

\* The remainder of a division.
LEMMA Remainder ==
  ASSUME NEW e \in Nat, e > 0, NEW a \in Nat, NEW q \in Nat, NEW r \in Nat, r < e, a = e * q + r
  PROVE  a % e = r
OBVIOUS

\* The remainder grows by one with its number, or it is zero.
LEMMA NextRemainder ==
  ASSUME NEW e \in Nat, e > 0, NEW a \in Nat
  PROVE  (a + 1) % e = 0 \/ (a + 1) % e = (a % e) + 1
<1>1. PICK q, r \in Nat : r < e /\ a = e * q + r
  BY Quotient
<1>2. a % e = r
  BY <1>1, Remainder
<1>3. CASE r + 1 < e
  <2>1. r + 1 \in Nat /\ a + 1 \in Nat /\ a + 1 = e * q + (r + 1)
    BY <1>1
  <2>2. (a + 1) % e = r + 1
    BY <1>3, <2>1, Remainder
  <2> QED
    BY <1>2, <2>2
<1>4. CASE ~(r + 1 < e)
  <2>1. q + 1 \in Nat /\ a + 1 \in Nat /\ r + 1 = e
    BY <1>1, <1>4
  <2>2. a + 1 = e * (q + 1) + 0
    BY <1>1, <2>1
  <2>3. (a + 1) % e = 0
    BY <2>1, <2>2, Remainder
  <2> QED
    BY <2>3
<1> QED
  BY <1>3, <1>4

\* MAX_LOG_QUEUE_SIZE / 3, and the remainder by it.
LEMMA EveryFacts ==
  /\ Every \in Nat /\ Every > 0 /\ Every <= max_capacity
  /\ \A a \in Nat : a % Every \in Nat /\ a % Every < Every
<1>1. max_capacity \in Nat /\ max_capacity >= 3
  BY CapacityAssumption, QueueAssumption
<1>2. Every \in Nat /\ Every > 0 /\ Every <= max_capacity
  BY <1>1 DEF Every
<1>3. PICK e : e = Every
  OBVIOUS
<1>4. \A a \in Nat : a % e \in Nat /\ a % e < e
  BY <1>2, <1>3
<1> QED
  BY <1>2, <1>3, <1>4

------------------------------------------------------------------------------
(* The linked list.                                                        *)

\* p are the nodes of q in the order of its links; those of X are allocated too, and
\* are not linked.
IsPath(q, p, X) ==
  /\ p \in Seq(Node) /\ Len(p) = q.size
  /\ Len(p) = 0 => q.first = NULL /\ q.last = NULL
  /\ Len(p) > 0 => q.first = p[1] /\ q.last = p[Len(p)] /\ q.next[p[Len(p)]] = NULL
  /\ \A i \in 1..Len(p) - 1 : q.next[p[i]] = p[i + 1]
  /\ \A i, j \in 1..Len(p) : p[i] = p[j] => i = j
  /\ \A i \in 1..Len(p) : p[i] \notin X
  /\ X \subseteq Node /\ \A n \in X : q.next[n] = NULL
  /\ \A n \in Node : q.data[n] = Free <=> n \notin X /\ \A i \in 1..Len(p) : p[i] # n

\* The elements of q are those of s, in that order.
Stores(q, p, s) ==
  /\ Len(s) = Len(p)
  /\ \A i \in 1..Len(s) : q.data[p[i]] = s[i]

\* q is a well formed queue of elements of E, and its elements are s.
Holds(E, q, s) ==
  /\ q \in Queue(E) /\ s \in Seq(E)
  /\ \E p : IsPath(q, p, {}) /\ Stores(q, p, s)

\* Nodes are numbers, and none is NULL.
LEMMA NodeFacts == Node \subseteq Nat /\ NULL \notin Node /\ NULL \in Nat /\ max_capacity \in Nat
BY CapacityAssumption DEF Node, NULL

\* create_queue
LEMMA CreateHolds == ASSUME NEW E PROVE Holds(E, create_queue, <<>>)
<1>1. create_queue \in Queue(E)
  BY NodeFacts DEF create_queue, Queue
<1>2. PICK p : p = <<>>
  OBVIOUS
<1>3. p \in Seq(Node) /\ Len(p) = 0
  BY <1>2
<1>4. IsPath(create_queue, p, {})
  BY <1>3 DEF IsPath, create_queue
<1>5. <<>> \in Seq(E) /\ Len(<<>>) = 0
  OBVIOUS
<1>6. Stores(create_queue, p, <<>>)
  BY <1>3, <1>5 DEF Stores
<1> QED
  BY <1>1, <1>4, <1>5, <1>6 DEF Holds

\* The nodes of a path, one by one.
LEMMA PathFacts ==
  ASSUME NEW E, NEW q \in Queue(E), NEW p, NEW X, IsPath(q, p, X)
  PROVE  /\ Len(p) \in Nat /\ Len(p) = q.size /\ Len(p) <= max_capacity
         /\ \A i \in 1..Len(p) : p[i] \in Node /\ p[i] # NULL
<1>1. p \in Seq(Node) /\ Len(p) = q.size
  BY DEF IsPath
<1>2. q.size \in 0..max_capacity
  BY DEF Queue
<1>3. \A i \in 1..Len(p) : p[i] \in Node
  BY <1>1, ElementOfSeq
<1> QED
  BY <1>1, <1>2, <1>3, NodeFacts

\* What Contents computes by following the links.
LEMMA ContentsHolds ==
  ASSUME NEW E, NEW q, NEW s, Holds(E, q, s)
  PROVE  Contents(q) = s
<1> DEFINE node[k \in 1..q.size] ==
             IF k = 1 THEN q.first
             ELSE IF node[k - 1] = NULL THEN NULL ELSE q.next[node[k - 1]]
<1>1. q \in Queue(E) /\ s \in Seq(E)
  BY DEF Holds
<1>2. PICK p : IsPath(q, p, {}) /\ Stores(q, p, s)
  BY DEF Holds
<1>3. PICK n : n = q.size
  OBVIOUS
<1>4. n \in Nat /\ Len(p) = n /\ Len(s) = n /\ \A i \in 1..n : p[i] \in Node /\ p[i] # NULL
  BY <1>1, <1>2, <1>3, PathFacts DEF Stores
<1>5. ASSUME NEW k \in 1..n
      PROVE  p[k] = IF k = 1 THEN q.first
                    ELSE IF p[k - 1] = NULL THEN NULL ELSE q.next[p[k - 1]]
  <2>1. CASE k = 1
    BY <1>2, <1>4, <2>1 DEF IsPath
  <2>2. CASE k # 1
    <3>1. k - 1 \in 1..n - 1 /\ k - 1 \in 1..n /\ (k - 1) + 1 = k
      BY <1>4, <2>2
    <3>2. q.next[p[k - 1]] = p[(k - 1) + 1]
      BY <1>2, <1>4, <3>1 DEF IsPath
    <3> QED
      BY <1>4, <2>2, <3>1, <3>2
  <2> QED
    BY <2>1, <2>2
<1>6. p = [k \in 1..n |-> p[k]]
  BY <1>2, <1>4 DEF IsPath
<1>7. p = [k \in 1..q.size |->
             IF k = 1 THEN q.first
             ELSE IF p[k - 1] = NULL THEN NULL ELSE q.next[p[k - 1]]]
  BY <1>3, <1>5, <1>6, Zenon
<1>8. node = [k \in 1..q.size |->
                IF k = 1 THEN q.first
                ELSE IF node[k - 1] = NULL THEN NULL ELSE q.next[node[k - 1]]]
  BY <1>7, Zenon
<1>9. Contents(q) = [k \in 1..q.size |-> IF node[k] = NULL THEN Free ELSE q.data[node[k]]]
  BY Zenon DEF Contents
<1> HIDE DEF node
<1>10. \A k \in 1..n : node[k] = p[k]
  <2> DEFINE Bad == {k \in 1..n : node[k] # p[k]}
  <2>1. SUFFICES ASSUME Bad # {} PROVE FALSE
    OBVIOUS
  <2>2. Bad \in SUBSET Nat
    BY <1>4
  <2>3. PICK k \in Bad : \A m \in Bad : k <= m
    BY <2>1, <2>2, LeastExists
  <2>4. k \in 1..n /\ node[k] # p[k]
    BY <2>3
  <2>5. node[k] = IF k = 1 THEN q.first
                  ELSE IF node[k - 1] = NULL THEN NULL ELSE q.next[node[k - 1]]
    BY <1>3, <1>8, <2>4
  <2>6. k # 1 => node[k - 1] = p[k - 1]
    <3>1. k # 1 => k - 1 \in 1..n /\ ~(k <= k - 1)
      BY <1>4, <2>4
    <3> QED
      BY <2>3, <3>1
  <2> QED
    BY <1>5, <2>4, <2>5, <2>6
<1>11. Contents(q) = [k \in 1..n |-> s[k]]
  <2>1. \A k \in 1..n : (IF node[k] = NULL THEN Free ELSE q.data[node[k]]) = s[k]
    BY <1>2, <1>4, <1>10 DEF Stores
  <2> QED
    BY <1>3, <1>9, <2>1
<1>12. s = [k \in 1..n |-> s[k]]
  BY <1>1, <1>4
<1> QED
  BY <1>11, <1>12

\* dequeue unlinks the first node and frees it; a node of X stays as it is.
LEMMA DequeuePath ==
  ASSUME NEW E, NEW q \in Queue(E), NEW p, NEW X, NEW s \in Seq(E), IsPath(q, p, X),
         Stores(q, p, s), Len(s) > 0
  PROVE  /\ dequeue(q) \in Queue(E) /\ IsPath(dequeue(q), Tail(p), X)
         /\ Stores(dequeue(q), Tail(p), Tail(s)) /\ queue_peek(q) = Head(s)
         /\ \A n \in X : dequeue(q).data[n] = q.data[n]
<1>1. PICK n, f, t : n = Len(p) /\ f = q.first /\ t = Tail(p)
  OBVIOUS
<1>2. /\ n \in Nat /\ n > 0 /\ Len(s) = n /\ q.size = n /\ n <= max_capacity
      /\ \A i \in 1..n : p[i] \in Node /\ p[i] # NULL
  BY <1>1, PathFacts DEF Stores
<1>3. 1 \in 1..n /\ f = p[1] /\ f \in Node /\ f \notin X
  BY <1>1, <1>2 DEF IsPath
<1>4. PICK r : r = dequeue(q)
  OBVIOUS
<1>5. /\ q.next \in [Node -> Node \cup {NULL}] /\ q.data \in [Node -> E \cup {Free}]
      /\ q.last \in Node \cup {NULL}
  BY DEF Queue
<1>6. /\ r.first = q.next[f] /\ r.last = (IF q.next[f] = NULL THEN NULL ELSE q.last)
      /\ r.size = n - 1
      /\ r.next = [q.next EXCEPT ![f] = NULL] /\ r.data = [q.data EXCEPT ![f] = Free]
      /\ r = [first |-> r.first, last |-> r.last, size |-> r.size,
              next |-> r.next, data |-> r.data]
  BY <1>1, <1>2, <1>4 DEF dequeue, Queue
<1>7. r \in Queue(E)
  <2>1. r.first \in Node \cup {NULL} /\ r.last \in Node \cup {NULL}
    BY <1>3, <1>5, <1>6
  <2>2. r.next \in [Node -> Node \cup {NULL}] /\ r.data \in [Node -> E \cup {Free}]
    BY <1>5, <1>6
  <2>3. r.size \in 0..max_capacity
    BY <1>2, <1>6, NodeFacts
  <2> QED
    BY <1>6, <2>1, <2>2, <2>3 DEF Queue
<1>8. /\ t \in Seq(Node) /\ Len(t) = n - 1 /\ \A i \in 1..n - 1 : t[i] = p[i + 1]
  <2>1. p \in Seq(Node) /\ p # <<>>
    BY <1>1, <1>2 DEF IsPath
  <2> QED
    BY <1>1, <1>2, <2>1, HeadTailProperties
<1>9. \A i, j \in 1..n : p[i] = p[j] => i = j
  BY <1>1 DEF IsPath
<1>10. \A i \in 1..n - 1 : t[i] \in Node /\ t[i] # f /\ t[i] \notin X /\ i + 1 \in 1..n
  <2> SUFFICES ASSUME NEW i \in 1..n - 1
               PROVE  t[i] \in Node /\ t[i] # f /\ t[i] \notin X /\ i + 1 \in 1..n
    OBVIOUS
  <2>1. i + 1 \in 1..n /\ i + 1 # 1
    BY <1>2
  <2>2. t[i] = p[i + 1] /\ p[i + 1] # p[1]
    BY <1>3, <1>8, <1>9, <2>1
  <2>3. p[i + 1] \notin X
    BY <1>1, <2>1 DEF IsPath
  <2> QED
    BY <1>2, <1>3, <2>1, <2>2, <2>3
<1>11. \A m \in Node : m # f => r.next[m] = q.next[m] /\ r.data[m] = q.data[m]
  BY <1>5, <1>6
<1>12. n - 1 = 0 => q.next[f] = NULL
  BY <1>1, <1>2, <1>3 DEF IsPath
<1>13. n - 1 > 0 => q.next[f] = t[1] /\ t[1] \in Node /\ t[1] # NULL
  <2>1. n - 1 > 0 => 1 \in 1..n - 1 /\ 1 + 1 = 2
    BY <1>2
  <2>2. n - 1 > 0 => q.next[p[1]] = p[1 + 1]
    BY <1>1, <2>1 DEF IsPath
  <2> QED
    BY <1>3, <1>8, <1>10, <2>1, <2>2, NodeFacts
<1>14. IsPath(r, t, X)
  <2>1. n - 1 = 0 => r.first = NULL /\ r.last = NULL
    BY <1>6, <1>12
  <2>2. n - 1 > 0 => r.first = t[1] /\ r.last = t[n - 1] /\ r.next[t[n - 1]] = NULL
    <3>1. SUFFICES ASSUME n - 1 > 0
                   PROVE  r.first = t[1] /\ r.last = t[n - 1] /\ r.next[t[n - 1]] = NULL
      OBVIOUS
    <3>2. n - 1 \in 1..n - 1 /\ (n - 1) + 1 = n
      BY <1>2, <3>1
    <3>3. t[n - 1] = p[n]
      BY <1>8, <3>2
    <3>4. q.last = p[n] /\ q.next[p[n]] = NULL
      BY <1>1, <1>2 DEF IsPath
    <3> QED
      BY <1>6, <1>10, <1>11, <1>13, <3>1, <3>2, <3>3, <3>4
  <2>3. ASSUME NEW i \in 1..(n - 1) - 1 PROVE r.next[t[i]] = t[i + 1]
    <3>1. i \in 1..n - 1 /\ i + 1 \in 1..n - 1
      BY <1>2
    <3>2. t[i] = p[i + 1] /\ t[i + 1] = p[(i + 1) + 1]
      BY <1>8, <3>1
    <3>3. q.next[p[i + 1]] = p[(i + 1) + 1]
      BY <1>1, <3>1 DEF IsPath
    <3> QED
      BY <1>10, <1>11, <3>1, <3>2, <3>3
  <2>4. ASSUME NEW i \in 1..n - 1, NEW j \in 1..n - 1, t[i] = t[j] PROVE i = j
    <3>1. p[i + 1] = p[j + 1] /\ i + 1 \in 1..n /\ j + 1 \in 1..n
      BY <1>8, <1>10, <2>4
    <3>2. i + 1 = j + 1
      BY <1>9, <3>1
    <3> QED
      BY <1>2, <3>2
  <2>5. X \subseteq Node /\ \A m \in X : r.next[m] = NULL
    BY <1>3, <1>11 DEF IsPath
  <2>6. ASSUME NEW m \in Node
        PROVE  r.data[m] = Free <=> m \notin X /\ \A i \in 1..n - 1 : t[i] # m
    <3>1. CASE m = f
      BY <1>3, <1>5, <1>6, <1>10, <3>1
    <3>2. CASE m # f
      <4>1. q.data[m] = Free <=> m \notin X /\ \A i \in 1..n : p[i] # m
        BY <1>1 DEF IsPath
      <4>2. (\A i \in 1..n : p[i] # m) <=> (\A i \in 1..n - 1 : p[i + 1] # m)
        <5>1. \A i \in 1..n : i = 1 \/ (i - 1 \in 1..n - 1 /\ (i - 1) + 1 = i)
          BY <1>2
        <5> QED
          BY <1>3, <1>10, <3>2, <5>1
      <4> QED
        BY <1>8, <1>11, <3>2, <4>1, <4>2
    <3> QED
      BY <3>1, <3>2
  <2> QED
    BY <1>6, <1>8, <1>10, <2>1, <2>2, <2>3, <2>4, <2>5, <2>6 DEF IsPath
<1>15. Stores(r, t, Tail(s)) /\ queue_peek(q) = Head(s)
  <2>1. s # <<>>
    BY <1>2
  <2>2. PICK u : u = Tail(s)
    OBVIOUS
  <2>3. Len(u) = n - 1 /\ Head(s) = s[1] /\ \A i \in 1..n - 1 : u[i] = s[i + 1]
    BY <1>2, <2>1, <2>2, HeadTailProperties
  <2>4. \A i \in 1..n : q.data[p[i]] = s[i]
    BY <1>2 DEF Stores
  <2>5. queue_peek(q) = Head(s)
    BY <1>1, <1>3, <2>3, <2>4 DEF queue_peek
  <2>6. ASSUME NEW i \in 1..n - 1 PROVE r.data[t[i]] = u[i]
    <3>1. r.data[t[i]] = q.data[t[i]] /\ i + 1 \in 1..n
      BY <1>10, <1>11
    <3> QED
      BY <1>8, <2>3, <2>4, <3>1
  <2> QED
    BY <1>8, <2>2, <2>3, <2>5, <2>6 DEF Stores
<1>16. \A m \in X : r.data[m] = q.data[m]
  BY <1>3, <1>11 DEF IsPath
<1> QED
  BY <1>1, <1>4, <1>7, <1>14, <1>15, <1>16

\* dequeue, of a well formed queue.
LEMMA DequeueHolds ==
  ASSUME NEW E, NEW q, NEW s, Holds(E, q, s), Len(s) > 0
  PROVE  Holds(E, dequeue(q), Tail(s)) /\ queue_peek(q) = Head(s)
<1>1. q \in Queue(E) /\ s \in Seq(E)
  BY DEF Holds
<1>2. PICK p : IsPath(q, p, {}) /\ Stores(q, p, s)
  BY DEF Holds
<1>3. /\ dequeue(q) \in Queue(E) /\ IsPath(dequeue(q), Tail(p), {})
      /\ Stores(dequeue(q), Tail(p), Tail(s)) /\ queue_peek(q) = Head(s)
  BY <1>1, <1>2, DequeuePath
<1>4. Tail(s) \in Seq(E)
  BY <1>1, HeadTailProperties
<1> QED
  BY <1>3, <1>4 DEF Holds

\* There is one node more than the queue may use: malloc finds a free one.
LEMMA MallocFacts ==
  ASSUME NEW E, NEW q \in Queue(E), NEW p, IsPath(q, p, {})
  PROVE  malloc(q) \in Node /\ q.data[malloc(q)] = Free
<1>1. PICK n : n = Len(p)
  OBVIOUS
<1>2. n \in Nat /\ n <= max_capacity /\ \A i \in 1..n : p[i] \in Node
  BY <1>1, PathFacts
<1>3. \E m \in Node : q.data[m] = Free
  <2>1. SUFFICES ASSUME \A m \in Node : q.data[m] # Free PROVE FALSE
    OBVIOUS
  <2>2. \A m \in Node : \E i \in 1..n : p[i] = m
    BY <1>1, <2>1 DEF IsPath
  <2>3. p \in [1..n -> Node]
    BY <1>1, <1>2 DEF IsPath
  <2>4. p \in Surjection(1..n, Node)
    BY <2>2, <2>3 DEF Surjection
  <2>5. ExistsSurjection(1..n, Node)
    BY <2>4, Zenon DEF ExistsSurjection
  <2>6. Cardinality(Node) <= n
    BY <1>2, <2>5, FS_SurjCardinalityBound
  <2>7. PICK c : c = max_capacity + 1
    OBVIOUS
  <2>8. c \in Nat /\ c > n /\ c > 0 /\ Node = 1..c
    BY <1>2, <2>7, NodeFacts DEF Node
  <2>9. Cardinality(1..c) = IF 1 > c THEN 0 ELSE c - 1 + 1
    BY <2>8, FS_Interval
  <2>10. Cardinality(Node) = c
    BY <2>8, <2>9
  <2> QED
    BY <1>2, <2>6, <2>8, <2>10
<1>4. PICK m \in Node : q.data[m] = Free /\ \A k \in Node : q.data[k] = Free => m <= k
  <2> DEFINE S == {k \in Node : q.data[k] = Free}
  <2>1. S \in SUBSET Nat /\ S # {}
    BY <1>3, NodeFacts
  <2>2. PICK m \in S : \A k \in S : m <= k
    BY <2>1, LeastExists
  <2> QED
    BY <2>2
<1>5. \A k \in 1..m - 1 : q.data[k] # Free
  <2>1. \A k \in 1..m - 1 : k \in Node /\ ~(m <= k)
    BY <1>4, NodeFacts DEF Node
  <2> QED
    BY <1>4, <2>1
<1>6. \E i \in Node : q.data[i] = Free /\ \A k \in 1..i - 1 : q.data[k] # Free
  BY <1>4, <1>5
<1> QED
  BY <1>6, Zenon DEF malloc

\* The queue with d in the node n, which is not linked yet.
Stored(q, n, d) == [q EXCEPT !.data[n] = d, !.next[n] = NULL]

\* The new element is stored before the queue is looked at.
LEMMA StorePath ==
  ASSUME NEW E, Free \notin E, NEW q \in Queue(E), NEW p, NEW s \in Seq(E), IsPath(q, p, {}),
         Stores(q, p, s), NEW d \in E, NEW n \in Node, q.data[n] = Free
  PROVE  /\ Stored(q, n, d) \in Queue(E) /\ IsPath(Stored(q, n, d), p, {n})
         /\ Stores(Stored(q, n, d), p, s)
         /\ Stored(q, n, d).data[n] = d /\ Stored(q, n, d).size = q.size
<1>0. PICK r : r = Stored(q, n, d)
  OBVIOUS
<1>1. q.next \in [Node -> Node \cup {NULL}] /\ q.data \in [Node -> E \cup {Free}]
  BY DEF Queue
<1>2. /\ r.first = q.first /\ r.last = q.last /\ r.size = q.size
      /\ r.next = [q.next EXCEPT ![n] = NULL] /\ r.data = [q.data EXCEPT ![n] = d]
      /\ r = [first |-> r.first, last |-> r.last, size |-> r.size,
              next |-> r.next, data |-> r.data]
  BY <1>0 DEF Queue, Stored
<1>3. r.next \in [Node -> Node \cup {NULL}] /\ r.data \in [Node -> E \cup {Free}]
  BY <1>1, <1>2
<1>4. r \in Queue(E)
  BY <1>2, <1>3 DEF Queue
<1>5. PICK k : k = Len(p)
  OBVIOUS
<1>6. k \in Nat /\ \A i \in 1..k : p[i] \in Node
  BY <1>5, PathFacts
<1>7. \A i \in 1..k : p[i] # n
  BY <1>5 DEF IsPath
<1>8. \A m \in Node : m # n => r.next[m] = q.next[m] /\ r.data[m] = q.data[m]
  BY <1>1, <1>2
<1>9. r.next[n] = NULL /\ r.data[n] = d /\ d # Free
  BY <1>1, <1>2
<1>10. IsPath(r, p, {n})
  <2>1. k = 0 => r.first = NULL /\ r.last = NULL
    BY <1>2, <1>5 DEF IsPath
  <2>2. k > 0 => r.first = p[1] /\ r.last = p[k] /\ r.next[p[k]] = NULL
    <3>1. k > 0 => k \in 1..k
      BY <1>6
    <3> QED
      BY <1>2, <1>5, <1>6, <1>7, <1>8, <3>1 DEF IsPath
  <2>3. ASSUME NEW i \in 1..k - 1 PROVE r.next[p[i]] = p[i + 1]
    <3>1. i \in 1..k
      BY <1>6
    <3> QED
      BY <1>5, <1>6, <1>7, <1>8, <3>1 DEF IsPath
  <2>4. ASSUME NEW m \in Node
        PROVE  r.data[m] = Free <=> m \notin {n} /\ \A i \in 1..k : p[i] # m
    BY <1>5, <1>8, <1>9 DEF IsPath
  <2>5. p \in Seq(Node) /\ k = r.size /\ \A i, j \in 1..k : p[i] = p[j] => i = j
    BY <1>2, <1>5 DEF IsPath
  <2> QED
    BY <1>5, <1>7, <1>9, <2>1, <2>2, <2>3, <2>4, <2>5 DEF IsPath
<1>11. Stores(r, p, s)
  BY <1>5, <1>6, <1>7, <1>8 DEF Stores
<1> QED
  BY <1>0, <1>2, <1>4, <1>9, <1>10, <1>11

\* Append, by element.
LEMMA AppendFacts ==
  ASSUME NEW S, NEW p \in Seq(S), NEW n \in S
  PROVE  /\ Append(p, n) \in Seq(S) /\ Len(p) \in Nat /\ Len(Append(p, n)) = Len(p) + 1
         /\ \A i \in 1..Len(p) : Append(p, n)[i] = p[i]
         /\ Append(p, n)[Len(p) + 1] = n
BY AppendProperties, LenProperties

\* The node of the new element becomes the last one.
LEMMA LinkPath ==
  ASSUME NEW E, Free \notin E, NEW q \in Queue(E), NEW p, NEW s \in Seq(E), NEW n \in Node,
         IsPath(q, p, {n}), Stores(q, p, s), Len(p) < max_capacity, q.data[n] \in E
  PROVE  /\ Link(q, n) \in Queue(E) /\ IsPath(Link(q, n), Append(p, n), {})
         /\ Stores(Link(q, n), Append(p, n), Append(s, q.data[n]))
<1>1. PICK k, r, t, u, d : k = Len(p) /\ r = Link(q, n) /\ t = Append(p, n) /\ d = q.data[n]
                           /\ u = Append(s, d)
  OBVIOUS
<1>2. /\ k \in Nat /\ k = q.size /\ k < max_capacity /\ Len(s) = k
      /\ \A i \in 1..k : p[i] \in Node /\ p[i] # NULL
  BY <1>1, PathFacts DEF Stores
<1>3. q.next \in [Node -> Node \cup {NULL}] /\ q.data \in [Node -> E \cup {Free}]
  BY DEF Queue
<1>4. /\ r.first = (IF q.last = NULL THEN n ELSE q.first) /\ r.last = n /\ r.size = k + 1
      /\ r.next = [m \in Node |-> IF m = q.last THEN n ELSE q.next[m]] /\ r.data = q.data
      /\ r = [first |-> r.first, last |-> r.last, size |-> r.size,
              next |-> r.next, data |-> r.data]
  BY <1>1, <1>2 DEF Link, Queue
<1>5. r \in Queue(E)
  <2>1. r.size \in 0..max_capacity
    BY <1>2, <1>4, NodeFacts
  <2>2. r.first \in Node \cup {NULL}
    BY <1>4 DEF Queue
  <2>3. r.next \in [Node -> Node \cup {NULL}]
    BY <1>3, <1>4
  <2> QED
    BY <1>3, <1>4, <2>1, <2>2, <2>3 DEF Queue
<1>6. /\ t \in Seq(Node) /\ Len(t) = k + 1 /\ \A i \in 1..k : t[i] = p[i]
      /\ t[k + 1] = n
  BY <1>1, AppendFacts DEF IsPath
<1>7. /\ u \in Seq(E) /\ Len(u) = k + 1 /\ \A i \in 1..k : u[i] = s[i]
      /\ u[k + 1] = d
  BY <1>1, <1>2, AppendFacts
<1>8. \A i \in 1..k + 1 : i \in 1..k \/ i = k + 1
  BY <1>2
<1>9. \A i \in 1..k : p[i] # n
  BY <1>1 DEF IsPath
<1>10. k = 0 => q.last = NULL
  BY <1>1 DEF IsPath
<1>11. k > 0 => k \in 1..k /\ 1 \in 1..k /\ q.last = p[k] /\ q.first = p[1] /\ q.last # NULL
  BY <1>1, <1>2 DEF IsPath
<1>12. q.last # n
  <2>1. k = 0 \/ k > 0
    BY <1>2
  <2> QED
    BY <1>9, <1>10, <1>11, <2>1, NodeFacts
<1>13. r.next[n] = NULL
  <2>1. q.next[n] = NULL
    BY DEF IsPath
  <2> QED
    BY <1>4, <1>12, <2>1
<1>14. IsPath(r, t, {})
  <2>1. r.first = t[1] /\ r.last = t[k + 1] /\ r.next[t[k + 1]] = NULL
    <3>1. r.first = t[1]
      <4>1. CASE k = 0
        BY <1>4, <1>6, <1>10, <4>1
      <4>2. CASE k > 0
        BY <1>4, <1>6, <1>11, <4>2
      <4> QED
        BY <1>2, <4>1, <4>2
    <3> QED
      BY <1>4, <1>6, <1>13, <3>1
  <2>2. ASSUME NEW i \in 1..(k + 1) - 1 PROVE r.next[t[i]] = t[i + 1]
    <3>1. i \in 1..k /\ k > 0
      BY <1>2
    <3>2. t[i] = p[i] /\ p[i] \in Node
      BY <1>2, <1>6, <3>1
    <3>3. CASE i = k
      BY <1>4, <1>6, <1>11, <3>1, <3>2, <3>3
    <3>4. CASE i # k
      <4>1. i \in 1..k - 1 /\ i + 1 \in 1..k
        BY <1>2, <3>1, <3>4
      <4>2. q.next[p[i]] = p[i + 1] /\ (p[i] = p[k] => i = k)
        BY <1>1, <1>11, <3>1, <4>1 DEF IsPath
      <4>3. p[i] # q.last
        BY <1>11, <3>1, <3>4, <4>2
      <4> QED
        BY <1>4, <1>6, <3>2, <4>1, <4>2, <4>3
    <3> QED
      BY <3>3, <3>4
  <2>3. ASSUME NEW i \in 1..k + 1, NEW j \in 1..k + 1, t[i] = t[j] PROVE i = j
    <3>1. \A a, b \in 1..k : p[a] = p[b] => a = b
      BY <1>1 DEF IsPath
    <3> QED
      BY <1>6, <1>8, <1>9, <2>3, <3>1
  <2>4. ASSUME NEW m \in Node
        PROVE  r.data[m] = Free <=> \A i \in 1..k + 1 : t[i] # m
    <3>1. q.data[m] = Free <=> m \notin {n} /\ \A i \in 1..k : p[i] # m
      BY <1>1 DEF IsPath
    <3>2. k + 1 \in 1..k + 1 /\ \A i \in 1..k : i \in 1..k + 1
      BY <1>2
    <3> QED
      BY <1>4, <1>6, <1>8, <3>1, <3>2
  <2>5. k + 1 > 0 /\ k + 1 # 0
    BY <1>2
  <2> QED
    BY <1>4, <1>6, <2>1, <2>2, <2>3, <2>4, <2>5, SMTT(30) DEF IsPath
<1>15. Stores(r, t, u)
  <2>1. \A i \in 1..k : q.data[p[i]] = s[i]
    BY <1>2 DEF Stores
  <2>2. \A i \in 1..k + 1 : r.data[t[i]] = u[i]
    BY <1>1, <1>4, <1>6, <1>7, <1>8, <2>1
  <2> QED
    BY <1>6, <1>7, <2>2 DEF Stores
<1> QED
  BY <1>1, <1>5, <1>14, <1>15

\* What a full queue keeps when it makes room.
Newest(s) == IF Len(s) >= max_capacity THEN Tail(s) ELSE s

\* enqueue, of a well formed queue: the oldest element makes room when it is full.
LEMMA EnqueueHolds ==
  ASSUME NEW E, Free \notin E, NEW q, NEW s, Holds(E, q, s), NEW d \in E
  PROVE  Holds(E, enqueue(q, d), Append(Newest(s), d))
<1>1. q \in Queue(E) /\ s \in Seq(E)
  BY DEF Holds
<1>2. PICK p : IsPath(q, p, {}) /\ Stores(q, p, s)
  BY DEF Holds
<1>3. PICK n : n = malloc(q)
  OBVIOUS
<1>4. n \in Node /\ q.data[n] = Free
  BY <1>1, <1>2, <1>3, MallocFacts
<1>5. PICK r : r = Stored(q, n, d)
  OBVIOUS
<1>6. /\ r \in Queue(E) /\ IsPath(r, p, {n}) /\ Stores(r, p, s)
      /\ r.data[n] = d /\ r.size = q.size
  BY <1>1, <1>2, <1>4, <1>5, StorePath
<1>7. enqueue(q, d) = Link(IF IsFull(q) THEN dequeue(r) ELSE r, n)
  BY <1>3, <1>5 DEF enqueue, Stored
<1>8. PICK k : k = Len(p)
  OBVIOUS
<1>9. k \in Nat /\ k = q.size /\ k = Len(s) /\ k <= max_capacity
  BY <1>1, <1>2, <1>8, PathFacts DEF Stores
<1>10. IsFull(q) <=> k >= max_capacity
  BY <1>9 DEF IsFull
<1>11. CASE k >= max_capacity
  <2>1. Len(s) > 0
    BY <1>9, <1>11, CapacityAssumption
  <2>2. PICK z, t, u : z = dequeue(r) /\ t = Tail(p) /\ u = Tail(s)
    OBVIOUS
  <2>3. z \in Queue(E) /\ IsPath(z, t, {n}) /\ Stores(z, t, u) /\ z.data[n] = d
    BY <1>1, <1>6, <2>1, <2>2, DequeuePath
  <2>4. u \in Seq(E) /\ Len(u) = k - 1
    BY <1>1, <1>9, <2>1, <2>2, HeadTailProperties
  <2>5. Len(t) < max_capacity
    BY <1>9, <2>3, <2>4, NodeFacts DEF Stores
  <2>6. /\ Link(z, n) \in Queue(E) /\ IsPath(Link(z, n), Append(t, n), {})
        /\ Stores(Link(z, n), Append(t, n), Append(u, d))
    BY <1>4, <2>3, <2>4, <2>5, LinkPath
  <2>7. enqueue(q, d) = Link(z, n)
    BY <1>7, <1>10, <1>11, <2>2
  <2>8. Newest(s) = u
    BY <1>9, <1>11, <2>2 DEF Newest
  <2>9. Append(u, d) \in Seq(E)
    BY <2>4, AppendFacts
  <2> QED
    BY <2>6, <2>7, <2>8, <2>9 DEF Holds
<1>12. CASE ~(k >= max_capacity)
  <2>1. Len(p) < max_capacity
    BY <1>8, <1>9, <1>12, NodeFacts
  <2>2. /\ Link(r, n) \in Queue(E) /\ IsPath(Link(r, n), Append(p, n), {})
        /\ Stores(Link(r, n), Append(p, n), Append(s, d))
    BY <1>1, <1>4, <1>6, <2>1, LinkPath
  <2>3. enqueue(q, d) = Link(r, n)
    BY <1>7, <1>10, <1>12
  <2>4. Newest(s) = s
    BY <1>9, <1>12 DEF Newest
  <2>5. Append(s, d) \in Seq(E)
    BY <1>1, AppendFacts
  <2> QED
    BY <2>2, <2>3, <2>4, <2>5 DEF Holds
<1> QED
  BY <1>11, <1>12

\* The size of a well formed queue.
LEMMA SizeHolds ==
  ASSUME NEW E, NEW q, NEW s, Holds(E, q, s)
  PROVE  /\ s \in Seq(E) /\ Len(s) \in Nat /\ q.size = Len(s) /\ Len(s) <= max_capacity
         /\ IsFull(q) <=> Len(s) >= max_capacity
<1>1. q \in Queue(E) /\ s \in Seq(E)
  BY DEF Holds
<1>2. PICK p : IsPath(q, p, {}) /\ Stores(q, p, s)
  BY DEF Holds
<1>3. q.size = Len(s) /\ Len(s) \in Nat /\ Len(s) <= max_capacity
  BY <1>1, <1>2, PathFacts DEF Stores
<1> QED
  BY <1>1, <1>3 DEF IsFull

------------------------------------------------------------------------------
(* Sequences of records, by their elements and their order.                *)

Increasing(s) == \A i, j \in 1..Len(s) : i < j => s[i] < s[j]

\* ToSet, by index.
LEMMA ToSetFacts ==
  ASSUME NEW S, NEW s \in Seq(S)
  PROVE  Len(s) \in Nat /\ \A x : x \in ToSet(s) <=> x \in S /\ \E i \in 1..Len(s) : s[i] = x
<1>1. Len(s) \in Nat /\ DOMAIN s = 1..Len(s)
  BY LenProperties
<1>2. \A i \in 1..Len(s) : s[i] \in S
  BY ElementOfSeq
<1> QED
  BY <1>1, <1>2 DEF ToSet

\* The empty sequence.
LEMMA EmptyFacts == ToSet(<<>>) = {} /\ Increasing(<<>>) /\ \A S : <<>> \in Seq(S)
<1>1. ToSet(<<>>) = {}
  BY DEF ToSet
<1>2. Len(<<>>) = 0
  OBVIOUS
<1>3. Increasing(<<>>)
  BY <1>2 DEF Increasing
<1> QED
  BY <1>1, <1>3

\* One element more.
LEMMA AppendSet ==
  ASSUME NEW S \in SUBSET Nat, NEW s \in Seq(S), NEW d \in S
  PROVE  /\ Append(s, d) \in Seq(S) /\ ToSet(Append(s, d)) = ToSet(s) \cup {d}
         /\ Increasing(s) /\ (\A x \in ToSet(s) : x < d) => Increasing(Append(s, d))
<1>1. PICK t, n : t = Append(s, d) /\ n = Len(s)
  OBVIOUS
<1>2. /\ t \in Seq(S) /\ n \in Nat /\ Len(t) = n + 1 /\ t[n + 1] = d
      /\ \A i \in 1..n : t[i] = s[i]
  BY <1>1, AppendFacts
<1>3. \A i \in 1..n + 1 : i \in 1..n \/ i = n + 1
  BY <1>2
<1>4. n + 1 \in 1..n + 1 /\ \A i \in 1..n : i \in 1..n + 1
  BY <1>2
<1>5. \A x : x \in ToSet(t) <=> x \in S /\ \E i \in 1..n + 1 : t[i] = x
  BY <1>2, ToSetFacts
<1>6. \A x : x \in ToSet(s) <=> x \in S /\ \E i \in 1..n : s[i] = x
  BY <1>1, ToSetFacts
<1>7. ToSet(t) = ToSet(s) \cup {d}
  <2>1. \A x : x \in ToSet(t) <=> x \in ToSet(s) \/ x = d
    BY <1>2, <1>3, <1>4, <1>5, <1>6
  <2> QED
    BY <2>1
<1>8. ASSUME Increasing(s), \A x \in ToSet(s) : x < d PROVE Increasing(t)
  <2>1. SUFFICES ASSUME NEW i \in 1..n + 1, NEW j \in 1..n + 1, i < j PROVE t[i] < t[j]
    BY <1>2 DEF Increasing
  <2>2. i \in 1..n /\ (j \in 1..n \/ j = n + 1)
    BY <1>2, <2>1
  <2>3. s[i] \in ToSet(s)
    BY <1>1, <1>6, <2>2, ElementOfSeq
  <2>4. CASE j \in 1..n
    <3>1. s[i] < s[j]
      BY <1>1, <1>8, <2>1, <2>2, <2>4 DEF Increasing
    <3> QED
      BY <1>2, <2>2, <2>4, <3>1
  <2>5. CASE j = n + 1
    BY <1>2, <1>8, <2>2, <2>3, <2>5
  <2> QED
    BY <2>2, <2>4, <2>5
<1> QED
  BY <1>1, <1>2, <1>7, <1>8

\* A sequence behind another one.
LEMMA ConcatSet ==
  ASSUME NEW S \in SUBSET Nat, NEW s \in Seq(S), NEW t \in Seq(S)
  PROVE  /\ s \o t \in Seq(S) /\ ToSet(s \o t) = ToSet(s) \cup ToSet(t)
         /\ Increasing(s) /\ Increasing(t) /\ (\A x \in ToSet(s), y \in ToSet(t) : x < y)
              => Increasing(s \o t)
<1>1. PICK u, n, m : u = s \o t /\ n = Len(s) /\ m = Len(t)
  OBVIOUS
<1>2. /\ u \in Seq(S) /\ n \in Nat /\ m \in Nat /\ Len(u) = n + m
      /\ \A i \in 1..n + m : u[i] = IF i <= n THEN s[i] ELSE t[i - n]
  BY <1>1, ConcatProperties, LenProperties
<1>3. \A i \in 1..n + m : IF i <= n THEN i \in 1..n ELSE i - n \in 1..m
  BY <1>2
<1>4. \A i \in 1..n : i \in 1..n + m /\ u[i] = s[i]
  <2>1. \A i \in 1..n : i \in 1..n + m /\ i <= n
    BY <1>2
  <2> QED
    BY <1>2, <2>1
<1>5. \A i \in 1..m : n + i \in 1..n + m /\ u[n + i] = t[i]
  <2>1. \A i \in 1..m : n + i \in 1..n + m /\ ~(n + i <= n) /\ (n + i) - n = i
    BY <1>2
  <2> QED
    BY <1>2, <2>1
<1>6. \A x : x \in ToSet(u) <=> x \in S /\ \E i \in 1..n + m : u[i] = x
  <2>1. u \in Seq(S) /\ Len(u) = n + m
    BY <1>2
  <2>2. \A x : x \in ToSet(u) <=> x \in S /\ \E i \in 1..Len(u) : u[i] = x
    BY <2>1, ToSetFacts
  <2> QED
    BY <2>1, <2>2, Zenon
<1>7. /\ \A x : x \in ToSet(s) <=> x \in S /\ \E i \in 1..n : s[i] = x
      /\ \A x : x \in ToSet(t) <=> x \in S /\ \E i \in 1..m : t[i] = x
  BY <1>1, ToSetFacts
<1>8. ToSet(u) = ToSet(s) \cup ToSet(t)
  <2>1. ASSUME NEW x PROVE x \in ToSet(u) => x \in ToSet(s) \/ x \in ToSet(t)
    BY <1>2, <1>3, <1>6, <1>7
  <2>2. ASSUME NEW x PROVE x \in ToSet(s) => x \in ToSet(u)
    BY <1>4, <1>6, <1>7
  <2>3. ASSUME NEW x PROVE x \in ToSet(t) => x \in ToSet(u)
    BY <1>5, <1>6, <1>7
  <2> QED
    BY <2>1, <2>2, <2>3
<1>9. ASSUME Increasing(s), Increasing(t), \A x \in ToSet(s), y \in ToSet(t) : x < y
      PROVE  Increasing(u)
  <2>1. SUFFICES ASSUME NEW i \in 1..n + m, NEW j \in 1..n + m, i < j PROVE u[i] < u[j]
    BY <1>2 DEF Increasing
  <2>2. CASE j <= n
    <3>1. i <= n /\ i \in 1..n /\ j \in 1..n
      BY <1>2, <2>1, <2>2
    <3> QED
      BY <1>1, <1>4, <1>9, <2>1, <3>1 DEF Increasing
  <2>3. CASE i <= n /\ ~(j <= n)
    <3>1. i \in 1..n /\ j - n \in 1..m
      BY <1>3, <2>3
    <3>2. s[i] \in ToSet(s) /\ t[j - n] \in ToSet(t)
      BY <1>1, <1>7, <3>1, ElementOfSeq
    <3>3. u[i] = s[i] /\ u[j] = t[j - n]
      BY <1>2, <2>3
    <3> QED
      BY <1>9, <3>2, <3>3
  <2>4. CASE ~(i <= n) /\ ~(j <= n)
    <3>1. i - n \in 1..m /\ j - n \in 1..m /\ i - n < j - n
      BY <1>2, <2>1, <2>4
    <3>2. u[i] = t[i - n] /\ u[j] = t[j - n]
      BY <1>2, <2>4
    <3> QED
      BY <1>1, <1>9, <3>1, <3>2 DEF Increasing
  <2> QED
    BY <1>2, <2>1, <2>2, <2>3, <2>4
<1> QED
  BY <1>1, <1>2, <1>8, <1>9

\* Without its first element.
LEMMA TailSet ==
  ASSUME NEW S \in SUBSET Nat, NEW s \in Seq(S), Len(s) > 0, Increasing(s)
  PROVE  /\ Tail(s) \in Seq(S) /\ Head(s) \in S /\ Head(s) \in ToSet(s)
         /\ ToSet(Tail(s)) = ToSet(s) \ {Head(s)}
         /\ Increasing(Tail(s)) /\ \A x \in ToSet(Tail(s)) : Head(s) < x
<1>1. PICK t, n : t = Tail(s) /\ n = Len(s)
  OBVIOUS
<1>2. s # <<>> /\ n \in Nat /\ n > 0 /\ 1 \in 1..n
  BY <1>1, LenProperties
<1>3. /\ t \in Seq(S) /\ Head(s) \in S /\ Len(t) = n - 1 /\ Head(s) = s[1]
      /\ \A i \in 1..n - 1 : t[i] = s[i + 1]
  BY <1>1, <1>2, HeadTailProperties
<1>4. \A i \in 1..n - 1 : i + 1 \in 1..n /\ 1 < i + 1
  BY <1>2
<1>5. \A i \in 1..n : i = 1 \/ (i - 1 \in 1..n - 1 /\ (i - 1) + 1 = i)
  BY <1>2
<1>6. \A x : x \in ToSet(t) <=> x \in S /\ \E i \in 1..n - 1 : t[i] = x
  BY <1>3, ToSetFacts
<1>7. \A x : x \in ToSet(s) <=> x \in S /\ \E i \in 1..n : s[i] = x
  BY <1>1, ToSetFacts
<1>8. \A i \in 1..n - 1 : s[1] < s[i + 1]
  BY <1>1, <1>2, <1>4 DEF Increasing
<1>9. \A x \in ToSet(t) : Head(s) < x /\ x # Head(s)
  <2>1. SUFFICES ASSUME NEW x \in ToSet(t) PROVE Head(s) < x /\ x # Head(s)
    OBVIOUS
  <2>2. x \in Nat /\ Head(s) \in Nat
    BY <1>3, <1>6
  <2>3. PICK i \in 1..n - 1 : t[i] = x
    BY <1>6
  <2>4. Head(s) < x
    BY <1>3, <1>8, <2>3
  <2> QED
    BY <2>2, <2>4
<1>10. ToSet(t) = ToSet(s) \ {Head(s)}
  <2>1. ASSUME NEW x \in ToSet(t) PROVE x \in ToSet(s)
    BY <1>3, <1>4, <1>6, <1>7
  <2>2. ASSUME NEW x \in ToSet(s), x # Head(s) PROVE x \in ToSet(t)
    <3>1. PICK i \in 1..n : s[i] = x
      BY <1>7
    <3>2. i # 1
      BY <1>3, <2>2, <3>1
    <3>3. i - 1 \in 1..n - 1 /\ t[i - 1] = x
      BY <1>3, <1>5, <3>1, <3>2
    <3> QED
      BY <1>6, <1>7, <3>3
  <2> QED
    BY <1>9, <2>1, <2>2
<1>11. Increasing(t)
  <2>1. SUFFICES ASSUME NEW i \in 1..n - 1, NEW j \in 1..n - 1, i < j PROVE t[i] < t[j]
    BY <1>3 DEF Increasing
  <2>2. i + 1 \in 1..n /\ j + 1 \in 1..n /\ i + 1 < j + 1
    BY <1>2, <2>1
  <2>3. s[i + 1] < s[j + 1]
    BY <1>1, <2>2 DEF Increasing
  <2> QED
    BY <1>3, <2>3
<1>12. Head(s) \in ToSet(s)
  BY <1>2, <1>3, <1>7
<1> QED
  BY <1>1, <1>3, <1>9, <1>10, <1>11, <1>12

------------------------------------------------------------------------------
(* flush_all_logs                                                          *)

\* f[k] is what the first k turns of the loop have written.
IsRun(s, W, f, n) ==
  f = [k \in 0..n |->
         IF k = 0 THEN <<>> ELSE IF s[k] \in W THEN Append(f[k - 1], s[k]) ELSE f[k - 1]]

\* There is such a function.
LEMMA RunExists == ASSUME NEW s, NEW W, NEW n \in Nat PROVE \E f : IsRun(s, W, f, n)
<1> DEFINE Bad == {k \in Nat : ~\E f : IsRun(s, W, f, k)}
<1>1. SUFFICES ASSUME n \in Bad PROVE FALSE
  OBVIOUS
<1>2. PICK m \in Bad : \A k \in Bad : m <= k
  BY <1>1, LeastExists
<1>3. CASE m = 0
  <2>1. PICK f : f = [k \in 0..0 |-> <<>>]
    OBVIOUS
  <2>2. \A k \in 0..0 : k = 0
    OBVIOUS
  <2>3. IsRun(s, W, f, 0)
    BY <2>1, <2>2 DEF IsRun
  <2> QED
    BY <1>2, <1>3, <2>3
<1>4. CASE m # 0
  <2>1. m \in Nat /\ m - 1 \in Nat /\ ~(m <= m - 1)
    BY <1>2, <1>4
  <2>2. PICK g : IsRun(s, W, g, m - 1)
    BY <1>2, <2>1
  <2>3. PICK f : f = [k \in 0..m |->
                        IF k # m THEN g[k]
                        ELSE IF s[m] \in W THEN Append(g[m - 1], s[m]) ELSE g[m - 1]]
    OBVIOUS
  <2>4. \A k \in 0..m : k # m => k \in 0..m - 1
    BY <2>1
  <2>5. m \in 0..m /\ m - 1 \in 0..m /\ m - 1 # m
    BY <2>1
  <2>6. f[m - 1] = g[m - 1]
    BY <2>3, <2>5
  <2>7. ASSUME NEW k \in 0..m
        PROVE  f[k] = IF k = 0 THEN <<>>
                      ELSE IF s[k] \in W THEN Append(f[k - 1], s[k]) ELSE f[k - 1]
    <3>1. CASE k = m
      BY <1>4, <2>3, <2>5, <2>6, <3>1
    <3>2. CASE k # m
      <4>1. k \in 0..m - 1 /\ (k # 0 => k - 1 \in 0..m /\ k - 1 # m)
        BY <2>1, <3>2
      <4>2. f[k] = g[k] /\ (k # 0 => f[k - 1] = g[k - 1])
        BY <2>3, <3>2, <4>1
      <4>3. g[k] = IF k = 0 THEN <<>>
                   ELSE IF s[k] \in W THEN Append(g[k - 1], s[k]) ELSE g[k - 1]
        BY <2>2, <4>1 DEF IsRun
      <4> QED
        BY <4>2, <4>3
    <3> QED
      BY <3>1, <3>2
  <2>8. f = [k \in 0..m |-> f[k]]
    BY <2>3
  <2>9. IsRun(s, W, f, m)
    BY <2>7, <2>8, Zenon DEF IsRun
  <2> QED
    BY <1>2, <2>9
<1> QED
  BY <1>3, <1>4

\* The loop writes, in their order, the records of s that are taken whole.
LEMMA FlushedFacts ==
  ASSUME NEW S \in SUBSET Nat, NEW s \in Seq(S), Increasing(s), NEW W
  PROVE  /\ Flushed(s, W) \in Seq(S) /\ Increasing(Flushed(s, W))
         /\ ToSet(Flushed(s, W)) = ToSet(s) \cap W
<1> DEFINE after[k \in 0..Len(s)] ==
             IF k = 0 THEN <<>>
             ELSE IF s[k] \in W THEN Append(after[k - 1], s[k]) ELSE after[k - 1]
<1>1. Flushed(s, W) = after[Len(s)]
  BY Zenon DEF Flushed
<1>2. PICK n : n = Len(s)
  OBVIOUS
<1>3. n \in Nat /\ \A i \in 1..n : s[i] \in S /\ s[i] \in Nat
  BY <1>2, LenProperties, ElementOfSeq
<1>4. \E f : IsRun(s, W, f, Len(s))
  BY <1>2, <1>3, RunExists
<1>5. after = [k \in 0..Len(s) |->
                 IF k = 0 THEN <<>>
                 ELSE IF s[k] \in W THEN Append(after[k - 1], s[k]) ELSE after[k - 1]]
  BY <1>4, Zenon DEF IsRun
<1> HIDE DEF after
<1>6. /\ after[0] = <<>>
      /\ \A k \in 1..n : after[k] = IF s[k] \in W THEN Append(after[k - 1], s[k]) ELSE after[k - 1]
  <2>1. 0 \in 0..n /\ \A k \in 1..n : k \in 0..n /\ k # 0
    BY <1>3
  <2> QED
    BY <1>2, <1>5, <2>1
<1> DEFINE Good(k) ==
             /\ after[k] \in Seq(S) /\ Increasing(after[k])
             /\ \A x : x \in ToSet(after[k]) <=> x \in W /\ \E i \in 1..k : s[i] = x
           Bad == {k \in 0..n : ~Good(k)}
<1>7. Good(0)
  <2>1. \A i \in 1..0 : FALSE
    OBVIOUS
  <2> QED
    BY <1>6, <2>1, EmptyFacts
<1>8. ASSUME NEW k \in 1..n, Good(k - 1) PROVE Good(k)
  <2>1. PICK a, b, x : a = after[k - 1] /\ b = after[k] /\ x = s[k]
    OBVIOUS
  <2>2. /\ a \in Seq(S) /\ Increasing(a)
        /\ \A y : y \in ToSet(a) <=> y \in W /\ \E i \in 1..k - 1 : s[i] = y
    BY <1>8, <2>1
  <2>3. x \in S /\ b = IF x \in W THEN Append(a, x) ELSE a
    BY <1>3, <1>6, <2>1
  <2>4. \A i \in 1..k : i = k \/ i \in 1..k - 1
    BY <1>3
  <2>5. k \in 1..k /\ \A i \in 1..k - 1 : i \in 1..k /\ i \in 1..n /\ i < k
    BY <1>3
  <2>6. CASE x \in W
    <3>1. \A y \in ToSet(a) : y < x
      <4>1. \A i \in 1..k - 1 : s[i] < s[k]
        BY <1>2, <2>5 DEF Increasing
      <4> QED
        BY <2>1, <2>2, <4>1
    <3>2. b \in Seq(S) /\ Increasing(b) /\ ToSet(b) = ToSet(a) \cup {x}
      BY <2>2, <2>3, <2>6, <3>1, AppendSet
    <3>3. \A y : y \in ToSet(b) <=> y \in W /\ \E i \in 1..k : s[i] = y
      BY <2>1, <2>2, <2>4, <2>5, <2>6, <3>2
    <3> QED
      BY <2>1, <3>2, <3>3
  <2>7. CASE x \notin W
    <3>1. b = a
      BY <2>3, <2>7
    <3>2. \A y : y \in ToSet(b) <=> y \in W /\ \E i \in 1..k : s[i] = y
      BY <2>1, <2>2, <2>4, <2>5, <2>7, <3>1
    <3> QED
      BY <2>1, <2>2, <3>1, <3>2
  <2> QED
    BY <2>6, <2>7
<1> HIDE DEF Good
<1>9. Good(n)
  <2>1. SUFFICES ASSUME n \in Bad PROVE FALSE
    BY <1>3
  <2>2. Bad \in SUBSET Nat
    BY <1>3
  <2>3. PICK k \in Bad : \A m \in Bad : k <= m
    BY <2>1, <2>2, LeastExists
  <2>4. k \in 0..n /\ ~Good(k) /\ k # 0
    BY <1>7, <2>3
  <2>5. k \in 1..n /\ k - 1 \in 0..n /\ ~(k <= k - 1)
    BY <1>3, <2>4
  <2>6. Good(k - 1)
    BY <2>3, <2>5
  <2> QED
    BY <1>8, <2>4, <2>5, <2>6
<1> USE DEF Good
<1>10. PICK t : t = Flushed(s, W)
  OBVIOUS
<1>11. /\ t \in Seq(S) /\ Increasing(t)
       /\ \A x : x \in ToSet(t) <=> x \in W /\ \E i \in 1..n : s[i] = x
  BY <1>1, <1>2, <1>9, <1>10
<1>12. \A x : x \in ToSet(s) <=> x \in S /\ \E i \in 1..n : s[i] = x
  BY <1>2, ToSetFacts
<1>13. ToSet(t) = ToSet(s) \cap W
  BY <1>3, <1>11, <1>12
<1> QED
  BY <1>10, <1>11, <1>13

------------------------------------------------------------------------------
(* The invariant.                                                          *)

\* Where the thread is, and what is there at that point.
Control ==
  /\ pc = "start" => freed = 0 /\ writer = "none"
  /\ pc = "over" => freed = 1 /\ writer = "none"
  /\ pc \in {"loop", "formatted", "taken"} => freed = done /\ writer # "none"
  /\ done = 1 => freed = 1
  /\ freed = 0 => logFile # "closed" /\ logId <= MaxLogs /\ lost = {}
  /\ freed = 1 => logQueue = create_queue
  /\ pc \in {"formatted", "taken"} <=> record # NoRecord
  /\ record < logId

\* The records are in the order of their numbers: the ones written, the one taken by
\* the writer, the ones queued, the one formatted.
Order ==
  /\ Increasing(Pending)
  /\ freed = 0 =>
       /\ Increasing(output)
       /\ \A x \in ToSet(Pending) : x < logId
       /\ \A x \in ToSet(output) : x < logId
       /\ \A x \in ToSet(output), y \in ToSet(Pending) : x < y
       /\ pc = "formatted" => \A x \in ToSet(Pending) : x < record
       /\ pc = "taken" => \A x \in ToSet(Pending) : record < x
       /\ record # NoRecord => \A x \in ToSet(output) : x < record
  /\ done = 1 /\ pc = "taken" => Increasing(output)

\* The records below n are in one of the six sets each.
Partition(O, P, R, D, T, L, n) ==
  /\ \A x : x \in O \/ x \in P \/ x \in R \/ x \in D \/ x \in T \/ x \in L <=> x \in 0..n - 1
  /\ \A x : /\ x \in O => x \notin P /\ x \notin R /\ x \notin D /\ x \notin T /\ x \notin L
            /\ x \in P => x \notin R /\ x \notin D /\ x \notin T /\ x \notin L
            /\ x \in R => x \notin D /\ x \notin T /\ x \notin L
            /\ x \in D => x \notin T /\ x \notin L
            /\ x \in T => x \notin L

InHand == {record} \ {NoRecord}

Accounted ==
  Partition(ToSet(output), ToSet(Pending), InHand, dropped, torn, lost, logId)

\* A signal that the process survives loses at most one record.
LostOne ==
  done = 1 => lost = {} \/ (pc \notin {"formatted", "taken"} /\ \E x \in Record : lost = {x})

\* The number of the last record that is in the queue, plus one.
Queued == IF pc = "formatted" THEN logId - 1 ELSE logId

\* A writer that sleeps is woken before many records wait.
Asleep == writer = "OP_NOOP" /\ freed = 0 => Len(Pending) <= Queued % Every

\* The inductive invariant of the logger.
LoggerInv ==
  /\ TypeOK /\ Holds(Record, logQueue, Pending)
  /\ Control /\ Order /\ OutputInOrder /\ Accounted /\ LostOne /\ Asleep

\* Records are numbers, and neither Free nor NoRecord is one.
LEMMA RecordFacts ==
  /\ Record \in SUBSET Nat /\ Free \notin Record /\ NoRecord \notin Nat /\ NoRecord \in Int
  /\ 0 \in Record /\ MaxLogs \in Nat /\ MaxLogs >= 1
BY MaxLogsAssumption DEF Record, Free, NoRecord

\* What is known of the queue.
LEMMA PendingFacts ==
  ASSUME LoggerInv
  PROVE  /\ Pending \in Seq(Record) /\ Len(Pending) \in Nat /\ Len(Pending) <= max_capacity
         /\ logQueue.size = Len(Pending) /\ (IsFull(logQueue) <=> Len(Pending) >= max_capacity)
         /\ logQueue \in Queue(Record) /\ ToSet(Pending) \subseteq Record
<1>1. Holds(Record, logQueue, Pending)
  BY DEF LoggerInv
<1>2. /\ Pending \in Seq(Record) /\ Len(Pending) \in Nat /\ Len(Pending) <= max_capacity
      /\ logQueue.size = Len(Pending) /\ (IsFull(logQueue) <=> Len(Pending) >= max_capacity)
  BY <1>1, SizeHolds
<1>3. logQueue \in Queue(Record)
  BY <1>1 DEF Holds
<1>4. ToSet(Pending) \subseteq Record
  BY <1>2, ToSetFacts
<1> QED
  BY <1>2, <1>3, <1>4

\* The queue without its records.
LEMMA CreatedFacts ==
  /\ Holds(Record, create_queue, <<>>) /\ Contents(create_queue) = <<>>
  /\ create_queue \in Queue(Record)
<1>1. Holds(Record, create_queue, <<>>)
  BY CreateHolds
<1>2. Contents(create_queue) = <<>>
  BY <1>1, ContentsHolds
<1> QED
  BY <1>1, <1>2 DEF Holds

\* A record that is newer than those queued joins them, and costs the oldest its place
\* when the queue is full.
LEMMA JoinFacts ==
  ASSUME LoggerInv, NEW d \in Record, \A x \in ToSet(Pending) : x < d,
         NEW t, t = Append(Newest(Pending), d)
  PROVE  /\ Holds(Record, enqueue(logQueue, d), t) /\ Contents(enqueue(logQueue, d)) = t
         /\ enqueue(logQueue, d) \in Queue(Record) /\ t \in Seq(Record) /\ Increasing(t)
         /\ Len(t) <= Len(Pending) + 1
         /\ LastDropped \subseteq ToSet(Pending)
         /\ ToSet(t) = (ToSet(Pending) \ LastDropped) \cup {d}
<1>1. PICK q, s : q = logQueue /\ s = Pending
  OBVIOUS
<1>2. Holds(Record, q, s) /\ Increasing(s)
  BY <1>1 DEF LoggerInv, Order
<1>3. /\ s \in Seq(Record) /\ Len(s) \in Nat /\ Len(s) <= max_capacity
      /\ IsFull(q) <=> Len(s) >= max_capacity
  BY <1>1, PendingFacts
<1>4. Holds(Record, enqueue(q, d), t)
  BY <1>1, <1>2, EnqueueHolds, RecordFacts
<1>5. Contents(enqueue(q, d)) = t
  BY <1>4, ContentsHolds
<1>6. enqueue(q, d) \in Queue(Record)
  BY <1>4 DEF Holds
<1>7. PICK z : z = Newest(s)
  OBVIOUS
<1>8. /\ z \in Seq(Record) /\ Increasing(z) /\ ToSet(z) = ToSet(s) \ LastDropped
      /\ LastDropped \subseteq ToSet(s) /\ Len(z) <= Len(s)
  <2>1. CASE Len(s) >= max_capacity
    <3>1. Len(s) > 0
      BY <1>3, <2>1, CapacityAssumption
    <3>2. queue_peek(q) = Head(s)
      BY <1>2, <3>1, DequeueHolds
    <3>3. LastDropped = {Head(s)}
      BY <1>1, <1>3, <2>1, <3>2 DEF LastDropped
    <3>4. z = Tail(s)
      BY <1>7, <2>1 DEF Newest
    <3>5. Len(Tail(s)) = Len(s) - 1
      BY <1>3, <3>1, HeadTailProperties
    <3>6. /\ Tail(s) \in Seq(Record) /\ Head(s) \in ToSet(s)
          /\ ToSet(Tail(s)) = ToSet(s) \ {Head(s)} /\ Increasing(Tail(s))
      BY <1>2, <1>3, <3>1, TailSet, RecordFacts
    <3> QED
      BY <1>3, <3>3, <3>4, <3>5, <3>6
  <2>2. CASE ~(Len(s) >= max_capacity)
    <3>1. z = s /\ LastDropped = {}
      BY <1>1, <1>3, <1>7, <2>2 DEF Newest, LastDropped
    <3> QED
      BY <1>2, <1>3, <3>1
  <2> QED
    BY <2>1, <2>2
<1>9. \A x \in ToSet(z) : x < d
  BY <1>1, <1>8
<1>10. t = Append(z, d)
  BY <1>1, <1>7
<1>11. t \in Seq(Record) /\ Increasing(t) /\ ToSet(t) = ToSet(z) \cup {d}
  BY <1>8, <1>9, <1>10, AppendSet, RecordFacts
<1>12. Len(t) <= Len(s) + 1
  <2>1. Len(t) = Len(z) + 1 /\ Len(z) \in Nat
    BY <1>8, <1>10, AppendFacts
  <2> QED
    BY <1>3, <1>8, <2>1
<1> QED
  BY <1>1, <1>4, <1>5, <1>6, <1>8, <1>11, <1>12

\* What a flush adds to the output, of newer records than those written.
LEMMA OntoFacts ==
  ASSUME LoggerInv, NEW t \in Seq(Record), Increasing(t), Increasing(output),
         \A x \in ToSet(output), y \in ToSet(t) : x < y, NEW whole \in SUBSET ToSet(t),
         output' = output \o Flushed(t, whole)
  PROVE  /\ output' \in Seq(Record) /\ Increasing(output')
         /\ ToSet(output') = ToSet(output) \cup whole
<1>1. PICK u : u = Flushed(t, whole)
  OBVIOUS
<1>2. u \in Seq(Record) /\ Increasing(u) /\ ToSet(u) = ToSet(t) \cap whole
  BY <1>1, FlushedFacts, RecordFacts
<1>3. ToSet(u) = whole
  BY <1>2
<1>4. output \in Seq(Record)
  BY DEF LoggerInv, TypeOK
<1>5. \A x \in ToSet(output), y \in ToSet(u) : x < y
  BY <1>3
<1>6. /\ output \o u \in Seq(Record) /\ ToSet(output \o u) = ToSet(output) \cup ToSet(u)
      /\ Increasing(output \o u)
  BY <1>2, <1>4, <1>5, ConcatSet, RecordFacts
<1> QED
  BY <1>1, <1>3, <1>6

\* A flush to an open descriptor, of newer records than those written.
LEMMA FlushToFacts ==
  ASSUME LoggerInv, NEW t \in Seq(Record), Increasing(t), Increasing(output),
         \A x \in ToSet(output), y \in ToSet(t) : x < y, FlushTo(t)
  PROVE  \E whole \in SUBSET ToSet(t) :
           /\ output' \in Seq(Record) /\ Increasing(output')
           /\ ToSet(output') = ToSet(output) \cup whole
           /\ torn' = torn \cup (ToSet(t) \ whole) /\ lost' = lost
<1>1. PICK whole \in SUBSET ToSet(t) :
        output' = output \o Flushed(t, whole) /\ torn' = torn \cup (ToSet(t) \ whole)
  BY DEF FlushTo
<1>2. lost' = lost
  BY DEF FlushTo
<1>3. /\ output' \in Seq(Record) /\ Increasing(output')
      /\ ToSet(output') = ToSet(output) \cup whole
  BY <1>1, OntoFacts
<1> QED
  BY <1>1, <1>2, <1>3

\* An increasing output is in order.
LEMMA IncreasingInOrder == ASSUME Increasing(output) PROVE OutputInOrder
BY DEF Increasing, OutputInOrder

------------------------------------------------------------------------------
(* Logging.                                                                *)

\* format_log_message
LEMMA FormatInv == ASSUME LoggerInv, format_log_message PROVE LoggerInv'
<1>1. /\ pc = "loop" /\ freed = 0 /\ logId < MaxLogs /\ record' = logId /\ logId' = logId + 1
      /\ pc' = "formatted" /\ logQueue' = logQueue /\ freed' = freed /\ logFile' = logFile
      /\ writer' = writer /\ done' = done /\ output' = output /\ dropped' = dropped
      /\ torn' = torn /\ lost' = lost
  BY DEF format_log_message, ghosts
<1>2. TypeOK /\ Control /\ Order /\ OutputInOrder /\ Accounted /\ LostOne /\ Asleep
  BY DEF LoggerInv
<1>3. logId \in Nat /\ record = NoRecord /\ NoRecord \notin Nat
  BY <1>1, <1>2, RecordFacts DEF Control, TypeOK
<1>4. Pending' = Pending
  BY <1>1 DEF Pending
<1>5. logId \in Record
  BY <1>1, <1>3, RecordFacts DEF Record
<1>6. TypeOK'
  <2>1. logId + 1 \in 0..MaxLogs + 1
    BY <1>1, <1>3, RecordFacts
  <2> QED
    BY <1>1, <1>2, <1>5, <2>1 DEF TypeOK
<1>7. Holds(Record, logQueue, Pending)'
  BY <1>1, <1>4 DEF LoggerInv
<1>8. Control'
  BY <1>1, <1>2, <1>3, RecordFacts DEF Control
<1>9. Order'
  <2>1. \A x \in ToSet(Pending) : x < logId /\ x \in Nat
    BY <1>1, <1>2, PendingFacts, RecordFacts DEF Order
  <2>2. \A x \in ToSet(output) : x < logId /\ x \in Nat
    <3>1. output \in Seq(Record)
      BY <1>2 DEF TypeOK
    <3> QED
      BY <1>1, <1>2, <3>1, ToSetFacts, RecordFacts DEF Order
  <2>3. Increasing(Pending') /\ Increasing(output')
    BY <1>1, <1>2, <1>4 DEF Order
  <2>4. \A x \in ToSet(output), y \in ToSet(Pending) : x < y
    BY <1>1, <1>2 DEF Order
  <2>5. \A x \in ToSet(Pending') : x < logId' /\ x < record'
    BY <1>1, <1>3, <1>4, <2>1
  <2>6. \A x \in ToSet(output') : x < logId' /\ x < record'
    BY <1>1, <1>3, <2>2
  <2>7. pc' # "taken"
    BY <1>1
  <2> QED
    BY <1>1, <1>4, <2>3, <2>4, <2>5, <2>6, <2>7 DEF Order
<1>10. OutputInOrder'
  BY <1>1, <1>2 DEF OutputInOrder
<1>11. Accounted'
  <2>1. InHand = {} /\ InHand' = {logId}
    BY <1>1, <1>3 DEF InHand
  <2>2. \A x : x \in 0..(logId + 1) - 1 <=> x \in 0..logId - 1 \/ x = logId
    BY <1>3
  <2>3. logId \notin 0..logId - 1
    BY <1>3
  <2> QED
    BY <1>1, <1>2, <1>4, <2>1, <2>2, <2>3 DEF Accounted, Partition
<1>12. LostOne'
  BY <1>1, <1>2 DEF LostOne, Control
<1>13. Asleep'
  <2>1. Queued' = Queued
    BY <1>1, <1>3 DEF Queued
  <2> QED
    BY <1>1, <1>2, <1>4, <2>1 DEF Asleep
<1> QED
  BY <1>6, <1>7, <1>8, <1>9, <1>10, <1>11, <1>12, <1>13 DEF LoggerInv

\* The wake-up leaves a writer that is registered registered.
LEMMA WakeFacts ==
  ASSUME TypeOK, NEW n
  PROVE  /\ Wake(n) \in {"none", "OP_WRITE", "OP_NOOP"} /\ (Wake(n) = "none" <=> writer = "none")
         /\ Wake(n) = "OP_NOOP" =>
              writer = "OP_NOOP" /\ (logFile = "closed" \/ n % Every # 0)
BY DEF Wake, TypeOK

\* log_message, after a signal: the record is lost.
LEMMA LogLostInv == ASSUME LoggerInv, log_message, freed = 1 PROVE LoggerInv'
<1>1. /\ pc = "formatted" /\ lost' = lost \cup {record} /\ logQueue' = logQueue
      /\ dropped' = dropped /\ writer' = Wake(logId) /\ record' = NoRecord /\ pc' = "loop"
      /\ freed' = freed /\ logId' = logId /\ logFile' = logFile /\ done' = done
      /\ output' = output /\ torn' = torn
  BY DEF log_message
<1>2. TypeOK /\ Control /\ Order /\ OutputInOrder /\ Accounted /\ LostOne
  BY DEF LoggerInv
<1>3. record # NoRecord /\ record \in Record /\ logId \in Nat /\ done = 1 /\ lost = {}
  BY <1>1, <1>2 DEF Control, TypeOK, LostOne
<1>4. Pending' = Pending
  BY <1>1 DEF Pending
<1>5. TypeOK'
  BY <1>1, <1>2, <1>3, WakeFacts DEF TypeOK
<1>6. Holds(Record, logQueue, Pending)'
  BY <1>1, <1>4 DEF LoggerInv
<1>7. Control'
  <2>1. NoRecord < logId
    BY <1>3 DEF NoRecord
  <2> QED
    BY <1>1, <1>2, <1>3, <2>1, WakeFacts DEF Control
<1>8. Order'
  BY <1>1, <1>2, <1>3, <1>4 DEF Order
<1>9. OutputInOrder'
  BY <1>1, <1>2 DEF OutputInOrder
<1>10. Accounted'
  <2>1. InHand = {record} /\ InHand' = {}
    BY <1>1, <1>3 DEF InHand
  <2> QED
    BY <1>1, <1>2, <1>4, <2>1 DEF Accounted, Partition
<1>11. LostOne'
  BY <1>1, <1>3 DEF LostOne
<1>12. Asleep'
  BY <1>1 DEF Asleep
<1> QED
  BY <1>5, <1>6, <1>7, <1>8, <1>9, <1>10, <1>11, <1>12 DEF LoggerInv

\* log_message, with its queue.
LEMMA LogQueuedInv == ASSUME LoggerInv, log_message, freed = 0 PROVE LoggerInv'
<1>1. /\ pc = "formatted" /\ lost' = lost /\ logQueue' = enqueue(logQueue, record)
      /\ dropped' = dropped \cup LastDropped /\ writer' = Wake(logId) /\ record' = NoRecord
      /\ pc' = "loop" /\ freed' = freed /\ logId' = logId /\ logFile' = logFile /\ done' = done
      /\ output' = output /\ torn' = torn
  BY DEF log_message, LastDropped
<1>2. TypeOK /\ Control /\ Order /\ OutputInOrder /\ Accounted /\ LostOne /\ Asleep
  BY DEF LoggerInv
<1>3. /\ record # NoRecord /\ record \in Record /\ record \in Nat /\ logId \in Nat /\ done = 0
      /\ record < logId /\ logFile # "closed"
  BY <1>1, <1>2, RecordFacts DEF Control, TypeOK
<1>4. PICK t : t = Append(Newest(Pending), record)
  OBVIOUS
<1>5. \A x \in ToSet(Pending) : x < record
  BY <1>1, <1>2 DEF Order
<1>6. /\ Holds(Record, logQueue', t) /\ Contents(logQueue') = t
      /\ logQueue' \in Queue(Record) /\ t \in Seq(Record) /\ Increasing(t)
      /\ Len(t) <= Len(Pending) + 1
      /\ LastDropped \subseteq ToSet(Pending)
      /\ ToSet(t) = (ToSet(Pending) \ LastDropped) \cup {record}
  BY <1>1, <1>3, <1>4, <1>5, JoinFacts
<1>7. Pending' = t
  BY <1>6 DEF Pending
<1>8. ToSet(Pending) \subseteq Record /\ Len(Pending) \in Nat
  BY PendingFacts
<1>9. TypeOK'
  BY <1>1, <1>2, <1>6, <1>8, WakeFacts DEF TypeOK
<1>10. Holds(Record, logQueue, Pending)'
  BY <1>6, <1>7
<1>11. Control'
  <2>1. NoRecord < logId
    BY <1>3 DEF NoRecord
  <2> QED
    BY <1>1, <1>2, <1>3, <2>1, WakeFacts DEF Control
<1>12. Order'
  <2>1. \A x \in ToSet(t) : x < logId
    <3>1. \A x \in ToSet(Pending) : x < logId
      BY <1>2 DEF Order
    <3> QED
      BY <1>3, <1>6, <3>1
  <2>2. \A x \in ToSet(output), y \in ToSet(t) : x < y
    <3>1. /\ \A x \in ToSet(output), y \in ToSet(Pending) : x < y
          /\ \A x \in ToSet(output) : x < record
      BY <1>2, <1>3 DEF Order
    <3> QED
      BY <1>6, <3>1
  <2>3. Increasing(output) /\ \A x \in ToSet(output) : x < logId
    BY <1>2 DEF Order
  <2> QED
    BY <1>1, <1>3, <1>6, <1>7, <2>1, <2>2, <2>3 DEF Order
<1>13. OutputInOrder'
  BY <1>1, <1>2 DEF OutputInOrder
<1>14. Accounted'
  <2>1. InHand = {record} /\ InHand' = {}
    BY <1>1, <1>3 DEF InHand
  <2> QED
    BY <1>1, <1>2, <1>6, <1>7, <2>1 DEF Accounted, Partition
<1>15. LostOne'
  BY <1>1, <1>3 DEF LostOne
<1>16. Asleep'
  <2>1. SUFFICES ASSUME writer' = "OP_NOOP" PROVE Len(t) <= logId % Every
    BY <1>1, <1>7 DEF Asleep, Queued
  <2>2. writer = "OP_NOOP" /\ logId % Every # 0
    BY <1>1, <1>2, <1>3, <2>1, WakeFacts
  <2>3. PICK a : a = logId - 1
    OBVIOUS
  <2>4. a \in Nat /\ a + 1 = logId
    BY <1>3, <2>3
  <2>5. Len(Pending) <= a % Every
    BY <1>1, <1>2, <2>2, <2>3 DEF Asleep, Queued
  <2>6. logId % Every = (a % Every) + 1
    BY <2>2, <2>4, EveryFacts, NextRemainder
  <2>7. PICK l, m, b : l = Len(t) /\ m = Len(Pending) /\ b = a % Every
    OBVIOUS
  <2>8. l \in Nat /\ m \in Nat /\ b \in Nat /\ l <= m + 1 /\ m <= b
    BY <1>6, <1>8, <2>4, <2>5, <2>7, EveryFacts, LenProperties
  <2>9. l <= b + 1
    BY <2>8
  <2> QED
    BY <2>6, <2>7, <2>9
<1> QED
  BY <1>9, <1>10, <1>11, <1>12, <1>13, <1>14, <1>15, <1>16 DEF LoggerInv

\* log_message
LEMMA LogInv == ASSUME LoggerInv, log_message PROVE LoggerInv'
<1>1. freed \in 0..1
  BY DEF LoggerInv, TypeOK
<1> QED
  BY <1>1, LogLostInv, LogQueuedInv

------------------------------------------------------------------------------
(* Writing.                                                                *)

\* write_logs_deferred, up to the call of write
LEMMA TakeInv == ASSUME LoggerInv, write_logs_take PROVE LoggerInv'
<1>1. /\ pc = "loop" /\ writer = "OP_WRITE" /\ queue_size > 0 /\ record' = queue_peek(logQueue)
      /\ logQueue' = dequeue(logQueue) /\ pc' = "taken" /\ freed' = freed /\ logId' = logId
      /\ logFile' = logFile /\ writer' = writer /\ done' = done /\ output' = output
      /\ dropped' = dropped /\ torn' = torn /\ lost' = lost
  BY DEF write_logs_take, Taken, ghosts
<1>2. TypeOK /\ Control /\ Order /\ OutputInOrder /\ Accounted /\ LostOne
  BY DEF LoggerInv
<1>3. freed = 0 /\ logQueue.size > 0
  BY <1>1, <1>2 DEF queue_size, TypeOK
<1>4. PICK s : s = Pending
  OBVIOUS
<1>5. s \in Seq(Record) /\ Len(s) > 0 /\ Increasing(s) /\ Holds(Record, logQueue, s)
  BY <1>2, <1>3, <1>4, PendingFacts DEF LoggerInv, Order
<1>6. Holds(Record, logQueue', Tail(s)) /\ record' = Head(s)
  BY <1>1, <1>5, DequeueHolds
<1>7. /\ Tail(s) \in Seq(Record) /\ Head(s) \in Record /\ Head(s) \in ToSet(s)
      /\ ToSet(Tail(s)) = ToSet(s) \ {Head(s)}
      /\ Increasing(Tail(s)) /\ \A x \in ToSet(Tail(s)) : Head(s) < x
  BY <1>5, TailSet, RecordFacts
<1>8. Pending' = Tail(s)
  BY <1>6, ContentsHolds DEF Pending
<1>9. /\ logQueue' \in Queue(Record) /\ record = NoRecord /\ record' \in Nat
      /\ record' # NoRecord
  BY <1>1, <1>2, <1>6, <1>7, RecordFacts DEF Holds, Control
<1>10. TypeOK'
  BY <1>1, <1>2, <1>6, <1>7, <1>9 DEF TypeOK
<1>11. Holds(Record, logQueue, Pending)'
  BY <1>6, <1>8
<1>12. Control'
  <2>1. record' < logId
    BY <1>2, <1>3, <1>4, <1>6, <1>7 DEF Order
  <2> QED
    BY <1>1, <1>2, <1>3, <1>9, <2>1 DEF Control
<1>13. Order'
  BY <1>1, <1>2, <1>3, <1>4, <1>6, <1>7, <1>8 DEF Order, Control
<1>14. OutputInOrder'
  BY <1>1, <1>2 DEF OutputInOrder
<1>15. Accounted'
  <2>1. InHand = {} /\ InHand' = {Head(s)}
    BY <1>6, <1>9 DEF InHand
  <2> QED
    BY <1>1, <1>2, <1>4, <1>7, <1>8, <2>1 DEF Accounted, Partition
<1>16. LostOne'
  BY <1>1, <1>2, <1>3 DEF LostOne, Control
<1>17. Asleep'
  BY <1>1 DEF Asleep
<1> QED
  BY <1>10, <1>11, <1>12, <1>13, <1>14, <1>15, <1>16, <1>17 DEF LoggerInv

\* A writer that is put to sleep, or is not.
LEMMA SleepFacts ==
  ASSUME LoggerInv, pc \in {"loop", "taken"}, writer' = writer \/ (queue_size = 0 /\ writer' = Sleep),
         freed' = freed, logId' = logId, logFile' = logFile, logQueue' = logQueue, pc' = "loop"
  PROVE  writer' \in {"OP_WRITE", "OP_NOOP"} /\ Asleep'
<1>1. TypeOK /\ Control /\ Asleep
  BY DEF LoggerInv
<1>2. writer' \in {"OP_WRITE", "OP_NOOP"}
  BY <1>1 DEF TypeOK, Control, Sleep
<1>3. Pending' = Pending /\ Queued' = Queued
  BY DEF Pending, Queued
<1>4. CASE writer' = writer
  BY <1>1, <1>2, <1>3, <1>4 DEF Asleep
<1>5. CASE queue_size = 0
  <2>1. freed = 0 => Len(Pending) = 0
    BY <1>1, <1>5, PendingFacts DEF queue_size
  <2>2. Queued \in Nat
    BY <1>1 DEF Queued, TypeOK
  <2>3. freed = 0 => Len(Pending) <= Queued % Every
    BY <2>1, <2>2, EveryFacts
  <2> QED
    BY <1>2, <1>3, <2>3 DEF Asleep
<1> QED
  BY <1>4, <1>5

\* write_logs_deferred, with nothing to write
LEMMA IdleInv == ASSUME LoggerInv, write_logs_idle PROVE LoggerInv'
<1>1. /\ pc = "loop" /\ queue_size = 0 /\ writer' = Sleep /\ pc' = pc /\ logQueue' = logQueue
      /\ freed' = freed /\ logId' = logId /\ record' = record /\ logFile' = logFile
      /\ done' = done /\ output' = output /\ dropped' = dropped /\ torn' = torn /\ lost' = lost
  BY DEF write_logs_idle, ghosts
<1>2. TypeOK /\ Control /\ Order /\ OutputInOrder /\ Accounted /\ LostOne
  BY DEF LoggerInv
<1>3. writer' \in {"OP_WRITE", "OP_NOOP"} /\ Asleep'
  BY <1>1, SleepFacts
<1>4. Pending' = Pending
  BY <1>1 DEF Pending
<1>5. TypeOK' /\ Control'
  BY <1>1, <1>2, <1>3 DEF TypeOK, Control
<1>6. Order' /\ OutputInOrder' /\ LostOne'
  BY <1>1, <1>2, <1>4 DEF Order, OutputInOrder, LostOne
<1>7. Accounted'
  BY <1>1, <1>2, <1>4 DEF Accounted, InHand
<1>8. Holds(Record, logQueue, Pending)'
  BY <1>1, <1>4 DEF LoggerInv
<1> QED
  BY <1>3, <1>5, <1>6, <1>7, <1>8 DEF LoggerInv

\* The record a signal has found in hand may follow the last words of its handler.
LEMMA LateInOrder ==
  ASSUME output \in Seq(Record), Increasing(output), record \in Record,
         record \notin ToSet(output), output' = Append(output, record), done' = 1
  PROVE  OutputInOrder'
<1>1. PICK t, n : t = Append(output, record) /\ n = Len(output)
  OBVIOUS
<1>2. /\ n \in Nat /\ Len(t) = n + 1 /\ t[n + 1] = record /\ output' = t
      /\ \A i \in 1..n : t[i] = output[i]
  BY <1>1, AppendFacts
<1>3. \A i \in 1..n : output[i] # record
  BY <1>1, ToSetFacts
<1>4. ASSUME NEW i \in 1..n + 1, NEW j \in 1..n + 1, i < j
      PROVE  t[i] < t[j] \/ (j = n + 1 /\ t[i] # t[j])
  <2>1. i \in 1..n /\ (j \in 1..n \/ j = n + 1)
    BY <1>2, <1>4
  <2>2. CASE j \in 1..n
    <3>1. output[i] < output[j]
      BY <1>1, <1>4, <2>1, <2>2 DEF Increasing
    <3> QED
      BY <1>2, <2>1, <2>2, <3>1
  <2>3. CASE j = n + 1
    BY <1>2, <1>3, <2>1, <2>3
  <2> QED
    BY <2>1, <2>2, <2>3
<1> QED
  BY <1>2, <1>4 DEF OutputInOrder

\* write_logs_deferred, from the call of write
LEMMA WriteInv == ASSUME LoggerInv, write_logs_write PROVE LoggerInv'
<1>1. /\ pc = "taken" /\ record' = NoRecord /\ pc' = "loop" /\ logQueue' = logQueue
      /\ freed' = freed /\ logId' = logId /\ logFile' = logFile /\ done' = done
      /\ dropped' = dropped
  BY DEF write_logs_write
<1>2. TypeOK /\ Control /\ Order /\ OutputInOrder /\ Accounted /\ LostOne
  BY DEF LoggerInv
<1>3. /\ record # NoRecord /\ record \in Record /\ logId \in Nat /\ record < logId
      /\ NoRecord < logId /\ freed = done /\ done \in 0..1 /\ output \in Seq(Record)
  BY <1>1, <1>2 DEF Control, TypeOK, NoRecord
<1>4. Pending' = Pending
  BY <1>1 DEF Pending
<1>5. InHand = {record} /\ InHand' = {}
  BY <1>1, <1>3 DEF InHand
<1>6. Increasing(output) /\ Increasing(Pending) /\ record \notin ToSet(output)
  BY <1>1, <1>2, <1>3, <1>5 DEF Order, Accounted, Partition
<1>7. writer' = writer \/ (queue_size = 0 /\ writer' = Sleep)
  BY DEF write_logs_write, WriteWhole, WritePart, WriteFails, SleepIfDrained
<1>8. writer' \in {"OP_WRITE", "OP_NOOP"} /\ Asleep'
  BY <1>1, <1>7, SleepFacts
<1>9. Holds(Record, logQueue, Pending)'
  BY <1>1, <1>4 DEF LoggerInv
<1>10. CASE WriteWhole
  <2>1. /\ logFile # "closed" /\ output' = Append(output, record) /\ torn' = torn
        /\ lost' = lost
    BY <1>10 DEF WriteWhole
  <2>2. /\ output' \in Seq(Record) /\ ToSet(output') = ToSet(output) \cup {record}
        /\ (\A x \in ToSet(output) : x < record) => Increasing(output')
    BY <1>3, <1>6, <2>1, AppendSet, RecordFacts
  <2>3. TypeOK'
    BY <1>1, <1>2, <1>8, <2>1, <2>2 DEF TypeOK
  <2>4. Control'
    BY <1>1, <1>2, <1>3, <1>8, <2>1 DEF Control
  <2>5. freed = 0 => Increasing(output')
    BY <1>2, <1>3, <2>2 DEF Order
  <2>6. Order'
    <3>1. freed = 0 => \A x \in ToSet(output') : x < logId
      BY <1>2, <1>3, <2>2 DEF Order
    <3>2. freed = 0 => \A x \in ToSet(output'), y \in ToSet(Pending) : x < y
      BY <1>1, <1>2, <2>2 DEF Order
    <3>3. freed = 0 => \A x \in ToSet(Pending) : x < logId
      BY <1>2 DEF Order
    <3> QED
      BY <1>1, <1>4, <1>6, <2>5, <3>1, <3>2, <3>3 DEF Order
  <2>7. OutputInOrder'
    <3>1. CASE done = 0
      <4>1. Increasing(output')
        BY <1>3, <2>5, <3>1
      <4> QED
        BY <4>1 DEF OutputInOrder, Increasing
    <3>2. CASE done = 1
      BY <1>1, <1>3, <1>6, <2>1, <3>2, LateInOrder
    <3> QED
      BY <1>3, <3>1, <3>2
  <2>8. Accounted'
    BY <1>1, <1>2, <1>4, <1>5, <2>1, <2>2 DEF Accounted, Partition
  <2>9. LostOne'
    BY <1>1, <1>2, <2>1 DEF LostOne
  <2> QED
    BY <1>8, <1>9, <2>3, <2>4, <2>6, <2>7, <2>8, <2>9 DEF LoggerInv
<1>11. CASE WritePart
  <2>1. torn' = torn \cup {record} /\ output' = output /\ lost' = lost
    BY <1>11 DEF WritePart
  <2>2. TypeOK'
    BY <1>1, <1>2, <1>3, <1>8, <2>1 DEF TypeOK
  <2>3. Control'
    BY <1>1, <1>2, <1>3, <1>8, <2>1 DEF Control
  <2>4. Order'
    BY <1>1, <1>2, <1>4, <2>1 DEF Order
  <2>5. OutputInOrder'
    BY <1>1, <1>2, <2>1 DEF OutputInOrder
  <2>6. Accounted'
    BY <1>1, <1>2, <1>4, <1>5, <2>1 DEF Accounted, Partition
  <2>7. LostOne'
    BY <1>1, <1>2, <2>1 DEF LostOne
  <2> QED
    BY <1>8, <1>9, <2>2, <2>3, <2>4, <2>5, <2>6, <2>7 DEF LoggerInv
<1>12. CASE WriteFails
  <2>1. logFile = "closed" /\ lost' = lost \cup {record} /\ output' = output /\ torn' = torn
    BY <1>12 DEF WriteFails
  <2>2. freed = 1 /\ lost = {}
    BY <1>1, <1>2, <1>3, <2>1 DEF Control, LostOne
  <2>3. TypeOK'
    BY <1>1, <1>2, <1>3, <1>8, <2>1 DEF TypeOK
  <2>4. Control'
    BY <1>1, <1>2, <1>3, <1>8, <2>2 DEF Control
  <2>5. Order'
    BY <1>1, <1>2, <1>4, <2>1, <2>2 DEF Order
  <2>6. OutputInOrder'
    BY <1>1, <1>2, <2>1 DEF OutputInOrder
  <2>7. Accounted'
    BY <1>1, <1>2, <1>4, <1>5, <2>1 DEF Accounted, Partition
  <2>8. LostOne'
    BY <1>1, <1>3, <2>1, <2>2 DEF LostOne
  <2> QED
    BY <1>8, <1>9, <2>3, <2>4, <2>5, <2>6, <2>7, <2>8 DEF LoggerInv
<1> QED
  BY <1>10, <1>11, <1>12 DEF write_logs_write

------------------------------------------------------------------------------
(* The end.                                                                *)

\* What is queued with a last record.
LEMMA LastFacts ==
  ASSUME LoggerInv, freed = 0
  PROVE  /\ logId \in Record /\ Contents(WithLast) \in Seq(Record)
         /\ Increasing(Contents(WithLast)) /\ LastDropped \subseteq ToSet(Pending)
         /\ ToSet(Contents(WithLast)) = (ToSet(Pending) \ LastDropped) \cup {logId}
         /\ \A x \in ToSet(output), y \in ToSet(Contents(WithLast)) : x < y
<1>1. logId \in Record
  BY RecordFacts DEF LoggerInv, TypeOK, Control, Record
<1>2. PICK t : t = Append(Newest(Pending), logId)
  OBVIOUS
<1>3. \A x \in ToSet(Pending) : x < logId
  BY DEF LoggerInv, Order
<1>4. /\ Contents(WithLast) = t /\ t \in Seq(Record) /\ Increasing(t)
      /\ LastDropped \subseteq ToSet(Pending)
      /\ ToSet(t) = (ToSet(Pending) \ LastDropped) \cup {logId}
  BY <1>1, <1>2, <1>3, JoinFacts DEF WithLast
<1>5. \A x \in ToSet(output), y \in ToSet(t) : x < y
  <2>1. /\ \A x \in ToSet(output), y \in ToSet(Pending) : x < y
        /\ \A x \in ToSet(output) : x < logId
    BY DEF LoggerInv, Order
  <2> QED
    BY <1>4, <2>1
<1> QED
  BY <1>1, <1>4, <1>5

\* The state of the queue and of the file once free_logger has run.
LEMMA FreeFacts ==
  ASSUME TypeOK, free_logger
  PROVE  /\ freed' = 1 /\ logQueue' = create_queue /\ Pending' = <<>>
         /\ logFile' \in {"stdout", "file", "closed"} /\ Holds(Record, logQueue, Pending)'
         /\ logQueue' \in Queue(Record) /\ ToSet(Pending') = {} /\ Increasing(Pending')
<1>1. freed' = 1 /\ logQueue' = create_queue /\ logFile' \in {"stdout", "file", "closed"}
  BY DEF free_logger
<1>2. Pending' = <<>>
  BY <1>1, CreatedFacts DEF Pending
<1>3. ToSet(Pending') = {} /\ Increasing(Pending')
  BY <1>2, EmptyFacts
<1>4. Holds(Record, logQueue, Pending)' /\ logQueue' \in Queue(Record)
  BY <1>1, <1>2, CreatedFacts
<1> QED
  BY <1>1, <1>2, <1>3, <1>4

\* signal_handler
LEMMA SignalInv == ASSUME LoggerInv, signal_handler PROVE LoggerInv'
<1>1. /\ pc \in {"loop", "formatted", "taken"} /\ done = 0 /\ logId' = logId + 1
      /\ FlushTo(Contents(WithLast)) /\ dropped' = dropped \cup LastDropped /\ free_logger
      /\ writer' = Wake(logId + 1) /\ done' = 1 /\ pc' = pc /\ record' = record
  BY DEF signal_handler, FlushFirst
<1>2. TypeOK /\ Control /\ Order /\ OutputInOrder /\ Accounted /\ LostOne
  BY DEF LoggerInv
<1>3. /\ freed = 0 /\ lost = {} /\ Increasing(output) /\ logId \in Nat /\ logId <= MaxLogs
      /\ MaxLogs \in Nat
  BY <1>1, <1>2, RecordFacts DEF Control, Order, TypeOK
<1>4. PICK t : t = Contents(WithLast)
  OBVIOUS
<1>5. /\ logId \in Record /\ t \in Seq(Record) /\ Increasing(t)
      /\ LastDropped \subseteq ToSet(Pending)
      /\ ToSet(t) = (ToSet(Pending) \ LastDropped) \cup {logId}
      /\ \A x \in ToSet(output), y \in ToSet(t) : x < y
  BY <1>3, <1>4, LastFacts
<1>6. PICK whole \in SUBSET ToSet(t) :
        /\ output' \in Seq(Record) /\ Increasing(output')
        /\ ToSet(output') = ToSet(output) \cup whole
        /\ torn' = torn \cup (ToSet(t) \ whole) /\ lost' = lost
  BY <1>1, <1>3, <1>4, <1>5, FlushToFacts
<1>7. /\ freed' = 1 /\ logQueue' = create_queue
      /\ logFile' \in {"stdout", "file", "closed"} /\ Holds(Record, logQueue, Pending)'
      /\ logQueue' \in Queue(Record) /\ ToSet(Pending') = {} /\ Increasing(Pending')
  BY <1>1, <1>2, FreeFacts
<1>8. ToSet(Pending) \subseteq Record /\ ToSet(t) \subseteq Record
  BY <1>5, PendingFacts
<1>9. TypeOK'
  <2>1. logId + 1 \in 0..MaxLogs + 1
    BY <1>3
  <2>2. dropped' \subseteq Record /\ torn' \subseteq Record /\ lost' \subseteq Record
    BY <1>1, <1>2, <1>5, <1>6, <1>8 DEF TypeOK
  <2>3. writer' \in {"none", "OP_WRITE", "OP_NOOP"}
    BY <1>1, <1>2, WakeFacts
  <2> QED
    BY <1>1, <1>2, <1>6, <1>7, <2>1, <2>2, <2>3 DEF TypeOK
<1>10. Control'
  <2>1. writer' # "none"
    BY <1>1, <1>2, WakeFacts DEF Control
  <2>2. record < logId + 1
    BY <1>2, <1>3, RecordFacts DEF Control, TypeOK
  <2> QED
    BY <1>1, <1>2, <1>7, <2>1, <2>2 DEF Control
<1>11. Order'
  BY <1>6, <1>7 DEF Order
<1>12. OutputInOrder'
  BY <1>6 DEF OutputInOrder, Increasing
<1>13. Accounted'
  <2>1. InHand' = InHand
    BY <1>1 DEF InHand
  <2>2. \A x : x \in 0..(logId + 1) - 1 <=> x \in 0..logId - 1 \/ x = logId
    BY <1>3
  <2>3. logId \notin 0..logId - 1
    BY <1>3
  <2> QED
    BY <1>1, <1>2, <1>5, <1>6, <1>7, <2>1, <2>2, <2>3 DEF Accounted, Partition
<1>14. LostOne' /\ Asleep'
  BY <1>3, <1>6, <1>7 DEF LostOne, Asleep
<1> QED
  BY <1>7, <1>9, <1>10, <1>11, <1>12, <1>13, <1>14 DEF LoggerInv

\* signal_handler in the middle of enqueue
LEMMA InEnqueueInv == ASSUME LoggerInv, signal_in_enqueue PROVE LoggerInv'
<1>1. PICK t : t = Contents(enqueue(logQueue, record))
  OBVIOUS
<1>2. /\ pc = "formatted" /\ done = 0 /\ logId' = logId + 1
      /\ lost' = lost \cup {logId} /\ dropped' = dropped \cup LastDropped /\ free_logger
      /\ writer' = Wake(logId + 1) /\ done' = 1 /\ record' = NoRecord /\ pc' = "loop"
  BY DEF signal_in_enqueue
<1>3. PICK whole \in SUBSET ToSet(t) :
        output' = output \o Flushed(t, whole) /\ torn' = torn \cup (ToSet(t) \ whole)
  BY <1>1 DEF signal_in_enqueue
<1>4. TypeOK /\ Control /\ Order /\ Accounted
  BY DEF LoggerInv
<1>5. /\ freed = 0 /\ lost = {} /\ Increasing(output) /\ logId \in Nat /\ logId <= MaxLogs
      /\ MaxLogs \in Nat /\ logId \in Record /\ record \in Record /\ record # NoRecord
      /\ record < logId /\ writer # "none"
  BY <1>2, <1>4, RecordFacts DEF Control, Order, TypeOK, Record
<1>6. \A x \in ToSet(Pending) : x < record
  BY <1>2, <1>4, <1>5 DEF Order
<1>7. /\ t \in Seq(Record) /\ Increasing(t) /\ LastDropped \subseteq ToSet(Pending)
      /\ ToSet(t) = (ToSet(Pending) \ LastDropped) \cup {record}
  <2>1. PICK z : z = Append(Newest(Pending), record)
    OBVIOUS
  <2>2. /\ Contents(enqueue(logQueue, record)) = z /\ z \in Seq(Record) /\ Increasing(z)
        /\ LastDropped \subseteq ToSet(Pending)
        /\ ToSet(z) = (ToSet(Pending) \ LastDropped) \cup {record}
    BY <1>5, <1>6, <2>1, JoinFacts
  <2> QED
    BY <1>1, <2>2
<1>8. \A x \in ToSet(output), y \in ToSet(t) : x < y
  <2>1. /\ \A x \in ToSet(output), y \in ToSet(Pending) : x < y
        /\ \A x \in ToSet(output) : x < record
    BY <1>4, <1>5 DEF Order
  <2> QED
    BY <1>7, <2>1
<1>9. /\ output' \in Seq(Record) /\ Increasing(output')
      /\ ToSet(output') = ToSet(output) \cup whole
  BY <1>3, <1>5, <1>7, <1>8, OntoFacts
<1>10. /\ freed' = 1 /\ logQueue' = create_queue
       /\ logFile' \in {"stdout", "file", "closed"} /\ Holds(Record, logQueue, Pending)'
       /\ logQueue' \in Queue(Record) /\ ToSet(Pending') = {} /\ Increasing(Pending')
  BY <1>2, <1>4, FreeFacts
<1>11. ToSet(Pending) \subseteq Record /\ ToSet(t) \subseteq Record
  BY <1>5, <1>7, PendingFacts
<1>12. TypeOK'
  <2>1. logId + 1 \in 0..MaxLogs + 1
    BY <1>5
  <2>2. dropped' \subseteq Record /\ torn' \subseteq Record /\ lost' \subseteq Record
    BY <1>2, <1>3, <1>4, <1>5, <1>7, <1>11 DEF TypeOK
  <2>3. writer' \in {"none", "OP_WRITE", "OP_NOOP"}
    BY <1>2, <1>4, WakeFacts
  <2> QED
    BY <1>2, <1>9, <1>10, <2>1, <2>2, <2>3 DEF TypeOK
<1>13. Control'
  <2>1. writer' # "none"
    BY <1>2, <1>4, <1>5, WakeFacts DEF Control
  <2>2. NoRecord < logId + 1
    BY <1>5 DEF NoRecord
  <2> QED
    BY <1>2, <1>10, <2>1, <2>2 DEF Control
<1>14. Order'
  BY <1>2, <1>9, <1>10 DEF Order
<1>15. OutputInOrder'
  BY <1>9 DEF OutputInOrder, Increasing
<1>16. Accounted'
  <2>1. InHand' = {} /\ InHand = {record}
    BY <1>2, <1>5 DEF InHand
  <2>2. \A x : x \in 0..(logId + 1) - 1 <=> x \in 0..logId - 1 \/ x = logId
    BY <1>5
  <2>3. logId \notin 0..logId - 1
    BY <1>5
  <2> QED
    BY <1>2, <1>3, <1>4, <1>5, <1>7, <1>9, <1>10, <2>1, <2>2, <2>3 DEF Accounted, Partition
<1>17. LostOne' /\ Asleep'
  BY <1>2, <1>5, <1>10 DEF LostOne, Asleep
<1> QED
  BY <1>10, <1>12, <1>13, <1>14, <1>15, <1>16, <1>17 DEF LoggerInv

\* signal_handler in the middle of dequeue
LEMMA InDequeueInv == ASSUME LoggerInv, signal_in_dequeue PROVE LoggerInv'
<1>1. PICK t : t = Contents(WithLast)
  OBVIOUS
<1>2. /\ pc \in {"formatted", "loop"} /\ done = 0 /\ logId' = logId + 1
      /\ dropped' = dropped \cup LastDropped /\ free_logger
      /\ pc' = "over" /\ writer' = "none" /\ record' = NoRecord /\ torn' = torn /\ done' = done
  BY DEF signal_in_dequeue
<1>3. PICK whole \in SUBSET ToSet(t) :
        /\ output' = output \o Flushed(t, whole)
        /\ lost' = lost \cup (ToSet(t) \ whole) \cup InHand
  BY <1>1 DEF signal_in_dequeue, InHand
<1>4. TypeOK /\ Control /\ Order /\ Accounted
  BY DEF LoggerInv
<1>5. /\ freed = 0 /\ lost = {} /\ Increasing(output) /\ logId \in Nat /\ logId <= MaxLogs
      /\ MaxLogs \in Nat /\ InHand \subseteq Record
  BY <1>2, <1>4, RecordFacts DEF Control, Order, TypeOK, InHand
<1>6. /\ logId \in Record /\ t \in Seq(Record) /\ Increasing(t)
      /\ LastDropped \subseteq ToSet(Pending)
      /\ ToSet(t) = (ToSet(Pending) \ LastDropped) \cup {logId}
      /\ \A x \in ToSet(output), y \in ToSet(t) : x < y
  BY <1>1, <1>5, LastFacts
<1>7. /\ output' \in Seq(Record) /\ Increasing(output')
      /\ ToSet(output') = ToSet(output) \cup whole
  BY <1>3, <1>5, <1>6, OntoFacts
<1>8. /\ freed' = 1 /\ logQueue' = create_queue
      /\ logFile' \in {"stdout", "file", "closed"} /\ Holds(Record, logQueue, Pending)'
      /\ logQueue' \in Queue(Record) /\ ToSet(Pending') = {} /\ Increasing(Pending')
  BY <1>2, <1>4, FreeFacts
<1>9. ToSet(Pending) \subseteq Record /\ ToSet(t) \subseteq Record
  BY <1>6, PendingFacts
<1>10. TypeOK'
  <2>1. logId + 1 \in 0..MaxLogs + 1
    BY <1>5
  <2>2. dropped' \subseteq Record /\ torn' \subseteq Record /\ lost' \subseteq Record
    BY <1>2, <1>3, <1>4, <1>5, <1>6, <1>9 DEF TypeOK
  <2> QED
    BY <1>2, <1>4, <1>7, <1>8, <2>1, <2>2 DEF TypeOK
<1>11. Control'
  <2>1. NoRecord < logId + 1
    BY <1>5 DEF NoRecord
  <2> QED
    BY <1>2, <1>8, <2>1 DEF Control
<1>12. Order'
  BY <1>2, <1>8 DEF Order
<1>13. OutputInOrder'
  BY <1>7 DEF OutputInOrder, Increasing
<1>14. Accounted'
  <2>1. InHand' = {}
    BY <1>2 DEF InHand
  <2>2. \A x : x \in 0..(logId + 1) - 1 <=> x \in 0..logId - 1 \/ x = logId
    BY <1>5
  <2>3. logId \notin 0..logId - 1
    BY <1>5
  <2> QED
    BY <1>2, <1>3, <1>4, <1>5, <1>6, <1>7, <1>8, <2>1, <2>2, <2>3 DEF Accounted, Partition
<1>15. LostOne' /\ Asleep'
  BY <1>2, <1>8 DEF LostOne, Asleep
<1> QED
  BY <1>8, <1>10, <1>11, <1>12, <1>13, <1>14, <1>15 DEF LoggerInv

\* LOG_FATAL and free_logger, at the end of main
LEMMA FatalInv == ASSUME LoggerInv, FatalError, pc \in {"start", "loop"}, done = 0 PROVE LoggerInv'
<1>1. /\ freed = 0 /\ logId' = logId + 1 /\ FlushWhereOpen(Contents(WithLast))
      /\ dropped' = dropped \cup LastDropped /\ free_logger /\ pc' = "over"
      /\ writer' = "none" /\ record' = record /\ done' = done
  BY DEF FatalError
<1>2. TypeOK /\ Control /\ Order /\ OutputInOrder /\ Accounted
  BY DEF LoggerInv
<1>3. /\ lost = {} /\ Increasing(output) /\ logId \in Nat /\ logId <= MaxLogs
      /\ MaxLogs \in Nat /\ record = NoRecord /\ output \in Seq(Record)
  BY <1>1, <1>2, RecordFacts DEF Control, Order, TypeOK
<1>4. PICK t : t = Contents(WithLast)
  OBVIOUS
<1>5. /\ logId \in Record /\ t \in Seq(Record) /\ Increasing(t)
      /\ LastDropped \subseteq ToSet(Pending)
      /\ ToSet(t) = (ToSet(Pending) \ LastDropped) \cup {logId}
      /\ \A x \in ToSet(output), y \in ToSet(t) : x < y
  BY <1>1, <1>4, LastFacts
<1>6. PICK whole \in SUBSET ToSet(t), gone \in SUBSET ToSet(t) :
        /\ output' \in Seq(Record) /\ Increasing(output')
        /\ ToSet(output') = ToSet(output) \cup whole
        /\ torn' = torn \cup ((ToSet(t) \ whole) \ gone) /\ lost' = lost \cup gone
        /\ whole \cap gone = {}
  <2>1. CASE logFile = "file"
    <3>1. lost' = lost \cup ToSet(t) /\ output' = output /\ torn' = torn
      BY <1>1, <1>4, <2>1 DEF FlushWhereOpen, FlushToNowhere
    <3>2. /\ ToSet(output') = ToSet(output) \cup {}
          /\ torn' = torn \cup ((ToSet(t) \ {}) \ ToSet(t)) /\ {} \cap ToSet(t) = {}
      BY <3>1
    <3> QED
      BY <1>3, <3>1, <3>2
  <2>2. CASE logFile # "file"
    <3>1. FlushTo(t)
      BY <1>1, <1>4, <2>2 DEF FlushWhereOpen
    <3>2. PICK whole \in SUBSET ToSet(t) :
            /\ output' \in Seq(Record) /\ Increasing(output')
            /\ ToSet(output') = ToSet(output) \cup whole
            /\ torn' = torn \cup (ToSet(t) \ whole) /\ lost' = lost
      BY <1>3, <1>5, <3>1, FlushToFacts
    <3>3. torn' = torn \cup ((ToSet(t) \ whole) \ {}) /\ lost' = lost \cup {} /\ whole \cap {} = {}
      BY <3>2
    <3> QED
      BY <3>2, <3>3
  <2> QED
    BY <2>1, <2>2
<1>7. /\ freed' = 1 /\ logQueue' = create_queue
      /\ logFile' \in {"stdout", "file", "closed"} /\ Holds(Record, logQueue, Pending)'
      /\ logQueue' \in Queue(Record) /\ ToSet(Pending') = {} /\ Increasing(Pending')
  BY <1>1, <1>2, FreeFacts
<1>8. ToSet(Pending) \subseteq Record /\ ToSet(t) \subseteq Record
  BY <1>5, PendingFacts
<1>9. TypeOK'
  <2>1. logId + 1 \in 0..MaxLogs + 1
    BY <1>3
  <2>2. dropped' \subseteq Record /\ torn' \subseteq Record /\ lost' \subseteq Record
    BY <1>1, <1>2, <1>5, <1>6, <1>8 DEF TypeOK
  <2> QED
    BY <1>1, <1>2, <1>6, <1>7, <2>1, <2>2 DEF TypeOK
<1>10. Control'
  <2>1. NoRecord < logId + 1
    BY <1>3 DEF NoRecord
  <2> QED
    BY <1>1, <1>3, <1>7, <2>1 DEF Control
<1>11. Order'
  BY <1>1, <1>7 DEF Order
<1>12. OutputInOrder'
  BY <1>6 DEF OutputInOrder, Increasing
<1>13. Accounted'
  <2>1. InHand' = {} /\ InHand = {}
    BY <1>1, <1>3 DEF InHand
  <2>2. \A x : x \in 0..(logId + 1) - 1 <=> x \in 0..logId - 1 \/ x = logId
    BY <1>3
  <2>3. logId \notin 0..logId - 1
    BY <1>3
  <2> QED
    BY <1>1, <1>2, <1>5, <1>6, <1>7, <2>1, <2>2, <2>3 DEF Accounted, Partition
<1>14. LostOne' /\ Asleep'
  BY <1>1, <1>7 DEF LostOne, Asleep
<1> QED
  BY <1>7, <1>9, <1>10, <1>11, <1>12, <1>13, <1>14 DEF LoggerInv

\* The loop of main ends.
LEMMA FinallyInv == ASSUME LoggerInv, finally PROVE LoggerInv'
<1>1. /\ pc = "loop" /\ done = 1 /\ pc' = "over" /\ writer' = "none" /\ logQueue' = logQueue
      /\ freed' = freed /\ logId' = logId /\ record' = record /\ logFile' = logFile
      /\ done' = done /\ output' = output /\ dropped' = dropped /\ torn' = torn /\ lost' = lost
  BY DEF finally, ghosts
<1>2. TypeOK /\ Control /\ Order /\ OutputInOrder /\ Accounted /\ LostOne
  BY DEF LoggerInv
<1>3. Pending' = Pending /\ freed = 1
  BY <1>1, <1>2 DEF Pending, Control
<1>4. TypeOK' /\ Control'
  BY <1>1, <1>2, <1>3 DEF TypeOK, Control
<1>5. Order' /\ OutputInOrder' /\ LostOne' /\ Asleep'
  BY <1>1, <1>2, <1>3 DEF Order, OutputInOrder, LostOne, Asleep
<1>6. Accounted'
  BY <1>1, <1>2, <1>3 DEF Accounted, InHand
<1>7. Holds(Record, logQueue, Pending)'
  BY <1>1, <1>3 DEF LoggerInv
<1> QED
  BY <1>4, <1>5, <1>6, <1>7 DEF LoggerInv

\* logger_register_selector
LEMMA RegisterInv == ASSUME LoggerInv, logger_register_selector PROVE LoggerInv'
<1>1. TypeOK /\ Control /\ Order /\ OutputInOrder /\ Accounted /\ LostOne
  BY DEF LoggerInv
<1>2. pc = "start" /\ freed = 0 /\ done = 0
  BY <1>1 DEF logger_register_selector, Control, TypeOK
<1>3. CASE FatalError
  BY <1>2, <1>3, FatalInv
<1>4. CASE /\ pc' = "loop" /\ writer' = "OP_WRITE"
           /\ UNCHANGED <<logQueue, freed, logId, record, logFile, done, ghosts>>
  <2>1. /\ pc' = "loop" /\ writer' = "OP_WRITE" /\ logQueue' = logQueue
        /\ freed' = freed /\ logId' = logId /\ record' = record /\ logFile' = logFile
        /\ done' = done /\ output' = output /\ dropped' = dropped /\ torn' = torn /\ lost' = lost
    BY <1>4 DEF ghosts
  <2>2. Pending' = Pending
    BY <2>1 DEF Pending
  <2>3. TypeOK' /\ Control'
    BY <1>1, <1>2, <2>1 DEF TypeOK, Control
  <2>4. Order' /\ OutputInOrder' /\ LostOne' /\ Asleep'
    BY <1>1, <1>2, <2>1, <2>2 DEF Order, OutputInOrder, LostOne, Asleep
  <2>5. Accounted'
    BY <1>1, <2>1, <2>2 DEF Accounted, InHand
  <2>6. Holds(Record, logQueue, Pending)'
    BY <2>1, <2>2 DEF LoggerInv
  <2> QED
    BY <2>3, <2>4, <2>5, <2>6 DEF LoggerInv
<1> QED
  BY <1>3, <1>4 DEF logger_register_selector

\* A step that changes nothing.
LEMMA StutterInv == ASSUME LoggerInv, UNCHANGED vars PROVE LoggerInv'
<1>1. /\ pc' = pc /\ writer' = writer /\ logQueue' = logQueue
      /\ freed' = freed /\ logId' = logId /\ record' = record /\ logFile' = logFile
      /\ done' = done /\ output' = output /\ dropped' = dropped /\ torn' = torn /\ lost' = lost
  BY DEF vars, ghosts
<1>2. TypeOK /\ Control /\ Order /\ OutputInOrder /\ Accounted /\ LostOne /\ Asleep
  BY DEF LoggerInv
<1>3. Pending' = Pending /\ Queued' = Queued
  BY <1>1 DEF Pending, Queued
<1>4. TypeOK' /\ Control'
  BY <1>1, <1>2 DEF TypeOK, Control
<1>5. Order' /\ OutputInOrder' /\ LostOne' /\ Asleep'
  BY <1>1, <1>2, <1>3 DEF Order, OutputInOrder, LostOne, Asleep
<1>6. Accounted'
  BY <1>1, <1>2, <1>3 DEF Accounted, InHand
<1>7. Holds(Record, logQueue, Pending)'
  BY <1>1, <1>3 DEF LoggerInv
<1> QED
  BY <1>4, <1>5, <1>6, <1>7 DEF LoggerInv

\* The queue logger_init leaves: empty, or with the record of its warning.
LEMMA InitQueue ==
  ASSUME Init
  PROVE  /\ Holds(Record, logQueue, Pending) /\ Increasing(Pending) /\ logId \in 0..1
         /\ \/ Pending = <<>> /\ ToSet(Pending) = {} /\ logId = 0
            \/ Pending = <<0>> /\ ToSet(Pending) = {0} /\ logId = 1
<1>1. CASE logQueue = create_queue /\ logId = 0
  BY <1>1, CreatedFacts, EmptyFacts DEF Pending
<1>2. CASE logQueue = enqueue(create_queue, 0) /\ logId = 1
  <2>1. PICK e, t : e = <<>> /\ t = Append(e, 0)
    OBVIOUS
  <2>2. Holds(Record, create_queue, e) /\ e \in Seq(Record) /\ Increasing(e) /\ ToSet(e) = {}
    BY <2>1, CreatedFacts, EmptyFacts
  <2>3. Newest(e) = e
    <3>1. Len(e) = 0 /\ ~(0 >= max_capacity)
      BY <2>1, CapacityAssumption
    <3> QED
      BY <3>1 DEF Newest
  <2>4. Holds(Record, enqueue(create_queue, 0), t)
    BY <2>1, <2>2, <2>3, EnqueueHolds, RecordFacts
  <2>5. Pending = t
    BY <1>2, <2>4, ContentsHolds DEF Pending
  <2>6. Increasing(t) /\ ToSet(t) = ToSet(e) \cup {0}
    BY <2>1, <2>2, AppendSet, RecordFacts, ZenonT(30)
  <2>7. t = <<0>>
    BY <2>1
  <2>8. ToSet(t) = {0}
    BY <2>2, <2>6
  <2> QED
    BY <1>2, <2>4, <2>5, <2>6, <2>7, <2>8
<1> QED
  BY <1>1, <1>2 DEF Init

\* The initial state.
LEMMA InitInv == ASSUME Init PROVE LoggerInv
<1>1. /\ Holds(Record, logQueue, Pending) /\ Increasing(Pending) /\ logId \in 0..1
      /\ ToSet(Pending) = 0..logId - 1
  <2>1. 0..0 - 1 = {} /\ 0..1 - 1 = {0}
    OBVIOUS
  <2> QED
    BY <2>1, InitQueue
<1>2. /\ pc = "start" /\ freed = 0 /\ record = NoRecord /\ writer = "none" /\ done = 0
      /\ logFile \in {"file", "stdout"}
      /\ output = <<>> /\ dropped = {} /\ torn = {} /\ lost = {}
  BY DEF Init
<1>3. logQueue \in Queue(Record)
  BY <1>1 DEF Holds
<1>4. ToSet(output) = {} /\ Increasing(output) /\ output \in Seq(Record) /\ Len(output) = 0
  BY <1>2, EmptyFacts
<1>5. TypeOK
  <2>1. logId \in 0..MaxLogs + 1
    BY <1>1, RecordFacts
  <2> QED
    BY <1>2, <1>3, <1>4, <2>1 DEF TypeOK
<1>6. Control
  BY <1>1, <1>2, RecordFacts DEF Control, NoRecord
<1>7. Order
  <2>1. \A x \in ToSet(Pending) : x < logId
    BY <1>1
  <2> QED
    BY <1>1, <1>2, <1>4, <2>1 DEF Order
<1>8. OutputInOrder
  BY <1>4, IncreasingInOrder
<1>9. Accounted
  BY <1>1, <1>2, <1>4 DEF Accounted, Partition, InHand
<1>10. LostOne /\ Asleep
  BY <1>2 DEF LostOne, Asleep
<1> QED
  BY <1>1, <1>5, <1>6, <1>7, <1>8, <1>9, <1>10 DEF LoggerInv

\* Every step keeps the invariant.
LEMMA NextInv == ASSUME LoggerInv, [Next]_vars PROVE LoggerInv'
<1>1. CASE logger_register_selector
  BY <1>1, RegisterInv
<1>2. CASE Log
  BY <1>2, FormatInv, LogInv DEF Log
<1>3. CASE write_logs_deferred
  BY <1>3, TakeInv, WriteInv, IdleInv DEF write_logs_deferred
<1>4. CASE signal_handler
  BY <1>4, SignalInv
<1>5. CASE serving_error
  BY <1>5, FatalInv DEF serving_error
<1>6. CASE finally
  BY <1>6, FinallyInv
<1>7. CASE Rest \/ UNCHANGED vars
  BY <1>7, StutterInv DEF Rest
<1>8. CASE signal_in_enqueue
  BY <1>8, InEnqueueInv
<1>9. CASE signal_in_dequeue
  BY <1>9, InDequeueInv
<1> QED
  BY <1>1, <1>2, <1>3, <1>4, <1>5, <1>6, <1>7, <1>8, <1>9 DEF Next

\* The invariant holds in every reachable state.
LEMMA LoggerInvariant == Spec => []LoggerInv
<1>1. Init => LoggerInv
  BY InitInv
<1>2. LoggerInv /\ [Next]_vars => LoggerInv'
  BY NextInv
<1> QED
  BY <1>1, <1>2, PTL DEF Spec

------------------------------------------------------------------------------
(* The theorems.                                                           *)

\* The fields of the logger and of its queue, the links among them, are what the code
\* takes them for.
THEOREM LoggerTypes == Spec => []TypeOK
<1>1. LoggerInv => TypeOK
  BY DEF LoggerInv
<1> QED
  BY <1>1, LoggerInvariant, PTL

\* Records are written in the order of their numbers, but for the one that a signal
\* finds in the hands of write_logs_deferred.
THEOREM OutputStaysInOrder == Spec => []OutputInOrder
<1>1. LoggerInv => OutputInOrder
  BY DEF LoggerInv
<1> QED
  BY <1>1, LoggerInvariant, PTL

\* No record of logger_log_message_deferred disappears, and a signal
\* that the process survives loses at most one.
THEOREM NoRecordVanishes == Spec => []RecordsAccounted
<1>1. ASSUME LoggerInv PROVE RecordsAccounted
  <2>1. TypeOK /\ Control /\ Accounted /\ LostOne
    BY <1>1 DEF LoggerInv
  <2>2. PICK O, P, R : O = ToSet(output) /\ P = ToSet(Pending) /\ R = {record} \ {NoRecord}
    OBVIOUS
  <2>3. (IF freed = 1 THEN {} ELSE ToSet(Pending)) = P
    <3>1. freed = 1 => ToSet(Pending) = {}
      BY <2>1, CreatedFacts, EmptyFacts DEF Control, Pending
    <3> QED
      BY <2>2, <3>1
  <2>4. Partition(O, P, R, dropped, torn, lost, logId)
    BY <2>1, <2>2 DEF Accounted, InHand
  <2>5. PICK places : places = <<O, P, R, dropped, torn, lost>>
    OBVIOUS
  <2>6. /\ places[1] = O /\ places[2] = P /\ places[3] = R /\ places[4] = dropped
        /\ places[5] = torn /\ places[6] = lost /\ Len(places) = 6 /\ DOMAIN places = 1..6
    BY <2>5
  <2>7. \A i \in 1..6 : i = 1 \/ i = 2 \/ i = 3 \/ i = 4 \/ i = 5 \/ i = 6
    OBVIOUS
  <2>8. UNION ToSet(places) = 0..logId - 1
    <3>1. ToSet(places) = {O, P, R, dropped, torn, lost}
      BY <2>6, <2>7 DEF ToSet
    <3>2. \A x : x \in UNION ToSet(places) <=>
                   x \in O \/ x \in P \/ x \in R \/ x \in dropped \/ x \in torn \/ x \in lost
      BY <3>1
    <3> QED
      BY <2>4, <3>2 DEF Partition
  <2>9. ASSUME NEW i \in 1..6, NEW j \in 1..6, i # j PROVE places[i] \cap places[j] = {}
    BY <2>4, <2>6, <2>7, <2>9 DEF Partition
  <2>10. done = 1 => Cardinality(lost) <= 1
    <3>1. Cardinality({}) = 0 /\ \A x : Cardinality({x}) = 1
      BY FS_EmptySet, FS_Singleton
    <3>2. done = 1 => lost = {} \/ \E x : lost = {x}
      BY <2>1 DEF LostOne
    <3>3. done = 1 => Cardinality(lost) = 0 \/ Cardinality(lost) = 1
      BY <3>1, <3>2, Zenon
    <3> QED
      BY <3>3
  <2> QED
    BY <2>2, <2>3, <2>5, <2>6, <2>8, <2>9, <2>10 DEF RecordsAccounted
<1> QED
  BY <1>1, LoggerInvariant, PTL

\* A queue that is full is being emptied.
LEMMA FullAwake ==
  ASSUME LoggerInv, freed = 0, LastDropped # {}, pc # "start"
  PROVE  writer = "OP_WRITE"
<1>1. TypeOK /\ Control /\ Asleep
  BY DEF LoggerInv
<1>2. writer # "none" /\ logId \in Nat
  BY <1>1 DEF TypeOK, Control
<1>3. Queued \in Nat
  <2>1. pc = "formatted" => record \in Nat /\ record < logId
    BY <1>1, RecordFacts DEF Control, TypeOK
  <2>2. pc = "formatted" => logId - 1 \in Nat
    BY <1>2, <2>1
  <2> QED
    BY <1>2, <2>2 DEF Queued
<1>4. Len(Pending) >= max_capacity /\ Len(Pending) \in Nat
  BY PendingFacts DEF LastDropped
<1>5. ~(Len(Pending) <= Queued % Every)
  <2>1. PICK l, m : l = Len(Pending) /\ m = Queued % Every
    OBVIOUS
  <2>2. m \in Nat /\ m < Every /\ Every \in Nat /\ Every <= max_capacity /\ l \in Nat
        /\ l >= max_capacity /\ max_capacity \in Nat
    BY <1>3, <1>4, <2>1, EveryFacts, NodeFacts
  <2>3. ~(l <= m)
    BY <2>2
  <2> QED
    BY <2>1, <2>3
<1> QED
  BY <1>1, <1>2, <1>5 DEF Asleep, TypeOK

\* A record is dropped only while the writer is awake: logger_register_selector wakes it
\* before a queue that is left to itself is full.
THEOREM NoDropAsleep == Spec => DropsOnlyUnderLoad
<1>1. ASSUME LoggerInv, Next, dropped' # dropped PROVE writer = "OP_WRITE" \/ pc = "start"
  <2>1. CASE FatalError
    BY <1>1, <2>1, FullAwake DEF FatalError
  <2>2. CASE signal_handler
    <3>1. freed = 0 /\ pc # "start" /\ dropped' = dropped \cup LastDropped
      BY <1>1, <2>2 DEF signal_handler, LoggerInv, Control
    <3> QED
      BY <1>1, <3>1, FullAwake
  <2>3. CASE log_message
    <3>1. freed = 0 /\ pc # "start" /\ dropped' = dropped \cup LastDropped
      BY <1>1, <2>3 DEF log_message, LastDropped, LoggerInv, TypeOK
    <3> QED
      BY <1>1, <3>1, FullAwake
  <2>4. CASE signal_in_enqueue \/ signal_in_dequeue
    <3>1. freed = 0 /\ pc # "start" /\ dropped' = dropped \cup LastDropped
      BY <1>1, <2>4 DEF signal_in_enqueue, signal_in_dequeue, LoggerInv, Control
    <3> QED
      BY <1>1, <3>1, FullAwake
  <2> QED
    BY <1>1, <2>1, <2>2, <2>3, <2>4
       DEF Next, logger_register_selector, Log, format_log_message, write_logs_deferred,
           write_logs_take, write_logs_idle, write_logs_write, serving_error, finally, Rest,
           vars, ghosts
<1>2. LoggerInv /\ [Next]_vars =>
        [dropped' # dropped => writer = "OP_WRITE" \/ pc = "start"]_vars
  BY <1>1
<1> QED
  BY <1>2, LoggerInvariant, PTL DEF Spec, DropsOnlyUnderLoad

\* The linked list of queue.c is, through every operation of the logger, the bounded log
\* that forgets its oldest record.
THEOREM QueueImplementsLog == Spec => ImplementsLog
<1>1. Init => Promised!Init
  BY InitQueue DEF Promised!Init
<1>2. ASSUME LoggerInv, Next, Pending' # Pending
      PROVE  Promised!Log \/ Promised!Write \/ Promised!Flush
  <2>1. CASE free_logger
    BY <2>1, CreatedFacts DEF free_logger, Pending, Promised!Flush
  <2>2. CASE write_logs_take
    <3>1. logQueue' = dequeue(logQueue) /\ Len(Pending) > 0 /\ Pending # <<>>
      BY <1>2, <2>2, PendingFacts DEF write_logs_take, Taken, queue_size
    <3>2. Holds(Record, logQueue', Tail(Pending))
      BY <1>2, <3>1, DequeueHolds DEF LoggerInv
    <3>3. Pending' = Tail(Pending)
      BY <3>2, ContentsHolds DEF Pending
    <3> QED
      BY <3>1, <3>3 DEF Promised!Write
  <2>3. CASE log_message
    <3>1. logQueue' # logQueue /\ freed \in 0..1
      BY <1>2 DEF Pending, LoggerInv, TypeOK
    <3>2. freed = 0 /\ logQueue' = enqueue(logQueue, record)
      BY <2>3, <3>1 DEF log_message
    <3>3. record \in Record /\ \A x \in ToSet(Pending) : x < record
      BY <1>2, <2>3, <3>2 DEF log_message, LoggerInv, Control, TypeOK, Order
    <3>4. Pending' = Append(Newest(Pending), record)
      BY <1>2, <3>2, <3>3, JoinFacts DEF Pending
    <3>5. \A i \in 1..Len(Pending) : Pending[i] < record
      BY <1>2, <3>3, PendingFacts, ToSetFacts, ElementOfSeq
    <3>6. Promised!Newest(Pending) = Newest(Pending)
      BY DEF Promised!Newest, Newest
    <3> QED
      BY <3>3, <3>4, <3>5, <3>6 DEF Promised!Log
  <2>4. logQueue' # logQueue
    BY <1>2 DEF Pending
  <2> QED
    BY <1>2, <2>1, <2>2, <2>3, <2>4
       DEF Next, logger_register_selector, Log, format_log_message, write_logs_deferred,
           write_logs_idle, write_logs_write, serving_error, FatalError, signal_handler,
           signal_in_enqueue, signal_in_dequeue, finally, Rest, vars
<1>3. LoggerInv /\ [Next]_vars =>
        [Promised!Log \/ Promised!Write \/ Promised!Flush]_Pending
  <2>1. UNCHANGED vars => Pending' = Pending
    BY DEF vars, Pending
  <2> QED
    BY <1>2, <2>1
<1> QED
  BY <1>1, <1>3, LoggerInvariant, PTL DEF Spec, ImplementsLog, Promised!Spec
==============================================================================
