---------------------------- MODULE SelectorProofs ---------------------------
(***************************************************************************)
(* What pselect is given agrees with the table, the table misses at most   *)
(* the entry right behind its end, and no finished job is slept on, for    *)
(* any descriptors, any limits and any number of threads.                  *)
(***************************************************************************)
EXTENDS Selector, NatLemmas

\* The fields of a struct fdselector.
Fields(t, fds, size, max, master) ==
  t = [fds |-> fds, fd_size |-> size, max_fd |-> max, master |-> master]

Entries == [Fd -> (SUBSET Op) \cup {Unused}]

InUse(fds) == {f \in Fd : fds[f] # Unused}
WatchedBy(fds) == {e \in Fd \X Op : e[2] \in fds[e[1]]}

\* max is the greatest of the entries in use, or 0 when there are none.
Greatest(fds, max) ==
  IF InUse(fds) = {} THEN max = 0 ELSE max \in InUse(fds) /\ \A f \in InUse(fds) : f <= max

\* A table, of so many entries, that is as it should be.
TableOK(t, size) ==
  \E fds, max :
    fds \in Entries /\ Fields(t, fds, size, max, WatchedBy(fds)) /\ Greatest(fds, max)

\* Before pselect, and in it, a job in the list has its signal.
JobsSignalled ==
  phase \in {"top", "entered", "pselect"} /\ jobs # <<>> =>
    alarm = 1 \/ \E t \in Thread : thread[t] = "pushed"

\* A thread at work has the descriptor of its job.
Threads ==
  /\ thread \in [Thread -> {"none", "resolving", "pushed"}]
  /\ tfd \in [Thread -> Fd \cup {NoFd}]
  /\ \A t \in Thread : thread[t] = "resolving" => tfd[t] \in Fd

\* The jobs, in the list, being gone through and under way, are of descriptors.
JobTypes == jobs \in Seq(Fd) /\ job \in Seq(Fd) /\ Threads

\* The sizes a table can have, from the first one on.
Sizes == next_capacity(Capacity)..ItemsMax + 1

\* The size of the table that there is, until it is freed.
SizeIs(size) == IF phase = "destroyed" THEN size = 0 ELSE size \in Sizes

Table == \E size : SizeIs(size) /\ TableOK(s, size)

\* What the variables of the loop hold.
LoopTypes ==
  /\ slave \subseteq Fd \X Op
  /\ phase \in {"top", "entered", "pselect", "events", "lock", "jobs", "destroyed"}
  /\ alarm \in 0..1 /\ done \in 0..1 /\ proc \in {"up", "corrupt"}
  /\ ready \subseteq Fd \X Op /\ waiting \subseteq Fd

\* The inductive invariant of the selector.
SelectorInv == Table /\ JobsSignalled /\ JobTypes /\ LoopTypes

------------------------------------------------------------------------------
(* The table.                                                              *)

\* An interest is not the mark of an entry that is free.
LEMMA UnusedFacts == (\A i \in SUBSET Op : i # Unused) /\ Unused \cap Op = {}
BY DEF Unused, Op

\* A table that is as it should be is one that pselect watches.
LEMMA TableWatched == ASSUME NEW size, TableOK(s, size) PROVE PselectWatchesTable
<1>1. PICK fds, max :
        fds \in Entries /\ Fields(s, fds, size, max, WatchedBy(fds)) /\ Greatest(fds, max)
  BY DEF TableOK
<1>2. s.fds = fds /\ s.max_fd = max /\ s.master = WatchedBy(fds)
  BY <1>1 DEF Fields
<1>3. Watched(s) = WatchedBy(fds) /\ {f \in Fd : ITEM_USED(s, f)} = InUse(fds)
  BY <1>2 DEF Watched, WatchedBy, ITEM_USED, InUse
<1> QED
  BY <1>1, <1>2, <1>3 DEF PselectWatchesTable, Greatest

\* items_update_fdset_for_fd brings the master sets up to date with one entry.
LEMMA UpdatedFields ==
  ASSUME NEW old \in Entries, NEW f \in Fd, NEW i \in (SUBSET Op) \cup {Unused}, NEW size, NEW max,
         NEW t, Fields(t, [old EXCEPT ![f] = i], size, max, WatchedBy(old))
  PROVE  Fields(Updated(t, f), [old EXCEPT ![f] = i], size, max,
                WatchedBy([old EXCEPT ![f] = i]))
<1> DEFINE new == [old EXCEPT ![f] = i]
<1>1. Updated(t, f) = [fds |-> new, fd_size |-> size, max_fd |-> max,
                       master |-> (WatchedBy(old) \ ({f} \X Op)) \cup ({f} \X (new[f] \cap Op))]
  BY DEF Fields, Updated
<1>2. (WatchedBy(old) \ ({f} \X Op)) \cup ({f} \X (new[f] \cap Op)) = WatchedBy(new)
  BY DEF WatchedBy, Entries
<1> QED
  BY <1>1, <1>2 DEF Fields

\* selector_register.
LEMMA RegisterOK ==
  ASSUME NEW t, NEW size, TableOK(t, size), NEW f \in Fd, NEW i \in SUBSET Op
  PROVE  TableOK(selector_register(t, f, i), IF INVALID_FD(f) THEN size ELSE SizeFor(size, f))
<1> USE FdAssumption
<1>1. PICK fds, max :
        fds \in Entries /\ Fields(t, fds, size, max, WatchedBy(fds)) /\ Greatest(fds, max)
  BY DEF TableOK
<1> DEFINE n == SizeFor(size, f)
           grown == [t EXCEPT !.fd_size = n]
           new == [fds EXCEPT ![f] = i]
           top == IF f > max THEN f ELSE max
           u == [grown EXCEPT !.fds[f] = i, !.max_fd = IF f > @ THEN f ELSE @]
<1>2. CASE INVALID_FD(f)
  BY <1>2 DEF selector_register
<1>a. t.fd_size = size
  BY <1>1 DEF Fields
<1> HIDE DEF n
<1>3. Fields(grown, fds, n, max, WatchedBy(fds))
  BY <1>1 DEF Fields
<1>4. CASE ~INVALID_FD(f) /\ ITEM_USED(t, f)
  <2>1. selector_register(t, f, i) = grown
    BY <1>4, <1>a DEF selector_register, n
  <2> QED
    BY <1>1, <1>3, <1>4, <2>1 DEF TableOK, n
<1>5. CASE ~INVALID_FD(f) /\ ~ITEM_USED(t, f)
  <2>1. selector_register(t, f, i) = Updated(u, f)
    BY <1>5, <1>a DEF selector_register, n
  <2>2. Fields(u, new, n, top, WatchedBy(fds))
    <3>1. grown = [fds |-> fds, fd_size |-> n, max_fd |-> max, master |-> WatchedBy(fds)]
      BY <1>3 DEF Fields
    <3> HIDE DEF grown
    <3>2. u = [fds |-> new, fd_size |-> n, max_fd |-> top, master |-> WatchedBy(fds)]
      <4>1. grown.fds = fds /\ grown.max_fd = max
        BY <3>1
      <4> HIDE DEF new, top
      <4>2. u = [grown EXCEPT !.fds = new, !.max_fd = top]
        BY <3>1, <4>1 DEF new, top
      <4> HIDE DEF u
      <4> QED
        BY <3>1, <4>2
    <3> QED
      BY <3>2 DEF Fields
  <2>3. Fields(Updated(u, f), new, n, top, WatchedBy(new))
    BY <1>1, <2>2, UpdatedFields
  <2>4. new \in Entries
    BY <1>1 DEF Entries
  <2>5. InUse(new) = InUse(fds) \cup {f}
    BY <1>1, UnusedFacts DEF InUse, Entries
  <2>6. Greatest(new, top)
    <3>1. max \in Nat /\ f \in Nat /\ InUse(fds) \subseteq Nat
      <4>1. InUse(fds) \subseteq Nat
        BY DEF InUse
      <4> QED
        BY <1>1, <4>1 DEF Greatest
    <3>2. CASE InUse(fds) = {}
      <4>1. max = 0 /\ top = f
        BY <1>1, <3>1, <3>2 DEF Greatest
      <4> QED
        <5> HIDE DEF new, top
        <5> QED
          BY <2>5, <3>1, <3>2, <4>1 DEF Greatest
    <3>3. CASE InUse(fds) # {}
      <4>1. max \in InUse(fds) /\ \A g \in InUse(fds) : g <= max
        BY <1>1, <3>3 DEF Greatest
      <4>2. top \in InUse(new) /\ \A g \in InUse(new) : g <= top
        <5> HIDE DEF new
        <5> QED
          BY <2>5, <3>1, <4>1
      <4> QED
        BY <4>2 DEF Greatest
    <3> QED
      BY <3>2, <3>3
  <2> QED
    BY <1>5, <2>1, <2>3, <2>4, <2>6 DEF TableOK, n
<1> QED
  BY <1>2, <1>4, <1>5

\* selector_set_interest.
LEMMA SetInterestOK ==
  ASSUME NEW t, NEW size, TableOK(t, size), NEW f \in Fd, NEW i \in SUBSET Op
  PROVE  TableOK(selector_set_interest(t, f, i), size)
<1> USE FdAssumption
<1>1. PICK fds, max :
        fds \in Entries /\ Fields(t, fds, size, max, WatchedBy(fds)) /\ Greatest(fds, max)
  BY DEF TableOK
<1> DEFINE new == [fds EXCEPT ![f] = i]
           u == [t EXCEPT !.fds[f] = i]
<1>2. CASE INVALID_FD(f) \/ ~ITEM_USED(t, f)
  BY <1>2 DEF selector_set_interest
<1>3. CASE ~(INVALID_FD(f) \/ ~ITEM_USED(t, f))
  <2>1. selector_set_interest(t, f, i) = Updated(u, f)
    BY <1>3 DEF selector_set_interest
  <2>2. Fields(u, new, size, max, WatchedBy(fds))
    BY <1>1 DEF Fields, Entries
  <2>3. Fields(Updated(u, f), new, size, max, WatchedBy(new))
    BY <1>1, <2>2, UpdatedFields
  <2>4. new \in Entries
    BY <1>1 DEF Entries
  <2>5. fds[f] # Unused
    BY <1>1, <1>3 DEF ITEM_USED, Fields
  <2>6. InUse(new) = InUse(fds)
    BY <2>5, UnusedFacts DEF InUse, Entries
  <2>7. Greatest(new, max)
    BY <1>1, <2>6 DEF Greatest
  <2> QED
    BY <2>1, <2>3, <2>4, <2>7 DEF TableOK
<1> QED
  BY <1>2, <1>3

\* selector_unregister_fd: the greatest entry is looked for among those that
\* are left, below the one that was.
LEMMA UnregisterOK ==
  ASSUME NEW t, NEW size, TableOK(t, size), NEW f \in Fd
  PROVE  TableOK(selector_unregister_fd(t, f), size)
<1> USE FdAssumption
<1>1. PICK fds, max :
        fds \in Entries /\ Fields(t, fds, size, max, WatchedBy(fds)) /\ Greatest(fds, max)
  BY DEF TableOK
<1> DEFINE empty == [fds EXCEPT ![f] = {}]
           new == [fds EXCEPT ![f] = Unused]
           v == [t EXCEPT !.fds[f] = {}]
           w == selector_set_interest(t, f, {})
           u == [w EXCEPT !.fds[f] = Unused]
<1>2. CASE INVALID_FD(f) \/ ~ITEM_USED(t, f)
  BY <1>2 DEF selector_unregister_fd
<1>3. CASE ~(INVALID_FD(f) \/ ~ITEM_USED(t, f))
  <2>1. /\ selector_unregister_fd(t, f) = [u EXCEPT !.max_fd = items_max_fd(u)]
        /\ w = Updated(v, f)
    BY <1>3 DEF selector_unregister_fd, selector_set_interest
  <2> HIDE DEF w
  <2>2. Fields(v, empty, size, max, WatchedBy(fds))
    BY <1>1 DEF Fields, Entries
  <2>3. Fields(w, empty, size, max, WatchedBy(empty))
    BY <1>1, <2>1, <2>2, UpdatedFields
  <2>4. WatchedBy(empty) = WatchedBy(new) /\ new \in Entries /\ [empty EXCEPT ![f] = Unused] = new
    BY <1>1, UnusedFacts DEF WatchedBy, Entries
  <2>5. Fields(u, new, size, max, WatchedBy(new))
    <3>1. w = [fds |-> empty, fd_size |-> size, max_fd |-> max, master |-> WatchedBy(new)]
      BY <2>3, <2>4 DEF Fields
    <3> HIDE DEF empty, new
    <3>2. u = [fds |-> new, fd_size |-> size, max_fd |-> max, master |-> WatchedBy(new)]
      BY <2>4, <3>1
    <3> QED
      BY <3>2 DEF Fields
  <2> HIDE DEF u
  <2> DEFINE m == items_max_fd(u)
  <2>6. Fields([u EXCEPT !.max_fd = m], new, size, m, WatchedBy(new))
    <3>1. u = [fds |-> new, fd_size |-> size, max_fd |-> max, master |-> WatchedBy(new)]
      BY <2>5 DEF Fields
    <3> HIDE DEF m, new
    <3> QED
      BY <3>1 DEF Fields
  <2>7. InUse(new) \subseteq InUse(fds) /\ InUse(fds) # {}
    BY <1>1, <1>3 DEF InUse, Entries, Fields, ITEM_USED
  <2>8. /\ max \in Nat /\ \A g \in InUse(new) : g <= max
        /\ InUse(new) \in SUBSET Nat
    BY <1>1, <2>7 DEF Greatest, InUse
  <2>9. {g \in Fd : g <= u.max_fd /\ ITEM_USED(u, g)} = InUse(new)
    BY <2>5, <2>8 DEF Fields, ITEM_USED, InUse
  <2> DEFINE used == {g \in Fd : g <= u.max_fd /\ ITEM_USED(u, g)}
  <2>10. m = IF used = {} THEN 0 ELSE CHOOSE g \in used : \A h \in used : h <= g
    BY Zenon DEF items_max_fd
  <2>11. Greatest(new, m)
    <3> HIDE DEF m, new, used
    <3>1. CASE used = {}
      BY <2>9, <2>10, <3>1 DEF Greatest, used
    <3>2. CASE used # {}
      <4>1. \E g \in used : \A h \in used : h <= g
        BY <2>8, <2>9, <3>2, GreatestExists DEF used
      <4>2. m \in used /\ \A h \in used : h <= m
        BY <2>10, <3>2, <4>1, Zenon
      <4> QED
        BY <2>9, <3>2, <4>2 DEF Greatest, used
    <3> QED
      BY <3>1, <3>2
  <2> QED
    BY <2>1, <2>4, <2>6, <2>11 DEF TableOK
<1> QED
  BY <1>2, <1>3

\* selector_new.
LEMMA NewOK == ASSUME NEW size PROVE TableOK([selector_new EXCEPT !.fd_size = size], size)
<1> DEFINE fds == [f \in Fd |-> Unused]
<1>1. Fields([selector_new EXCEPT !.fd_size = size], fds, size, 0, {})
  BY DEF Fields, selector_new
<1>2. fds \in Entries /\ InUse(fds) = {} /\ WatchedBy(fds) = {}
  BY UnusedFacts DEF Entries, InUse, WatchedBy
<1> QED
  BY <1>1, <1>2 DEF TableOK, Greatest

------------------------------------------------------------------------------
(* The sizes.                                                              *)

\* f is the loop of next_capacity on the numbers up to m.
IsShift(f, m) == f = [k \in 0..m |-> IF k = 0 THEN 1 ELSE 2 * f[k \div 2]]

\* Halving goes down, to a number that is not negative.
LEMMA HalfFacts ==
  ASSUME NEW k \in Nat, k # 0
  PROVE  k \div 2 \in Nat /\ k \div 2 < k /\ k < 2 * (k \div 2) + 2
OBVIOUS

\* There is such a function: one for the numbers below m can be extended to m.
LEMMA ShiftExists == ASSUME NEW m \in Nat PROVE \E f : IsShift(f, m)
<1> DEFINE Bad == {k \in Nat : ~\E f : IsShift(f, k)}
<1>1. SUFFICES ASSUME m \in Bad PROVE FALSE
  OBVIOUS
<1>2. PICK k \in Bad : \A j \in Bad : k <= j
  <2>1. Bad \in SUBSET Nat /\ Bad # {}
    BY <1>1
  <2> HIDE DEF Bad
  <2> QED
    BY <2>1, LeastExists
<1>3. CASE k = 0
  <2> DEFINE g == [j \in 0..0 |-> 1]
  <2>1. g = [j \in 0..0 |-> IF j = 0 THEN 1 ELSE 2 * g[j \div 2]]
    <3>1. \A j \in 0..0 : j = 0
      OBVIOUS
    <3> HIDE DEF g
    <3>2. g = [j \in 0..0 |-> 1]
      BY DEF g
    <3> QED
      BY <3>1, <3>2
  <2>2. IsShift(g, k)
    BY <1>3, <2>1 DEF IsShift
  <2> QED
    BY <1>2, <2>2
<1>4. CASE k # 0
  <2>1. k \in Nat /\ k - 1 \in Nat /\ k - 1 \notin Bad
    BY <1>2, <1>4
  <2>2. PICK f : IsShift(f, k - 1)
    BY <2>1
  <2> DEFINE g == [j \in 0..k |-> IF j = k THEN 2 * f[k \div 2] ELSE f[j]]
  <2>3. \A j \in 0..k : j # 0 => j \div 2 \in 0..k - 1
    BY <2>1, HalfFacts
  <2>4. \A j \in 0..k - 1 : f[j] = IF j = 0 THEN 1 ELSE 2 * f[j \div 2]
    BY <2>2 DEF IsShift
  <2>5. \A j \in 0..k - 1 : j \in 0..k /\ j # k
    BY <2>1
  <2>6. \A j \in 0..k - 1 : g[j] = f[j]
    BY <2>5
  <2>7. ASSUME NEW j \in 0..k PROVE g[j] = IF j = 0 THEN 1 ELSE 2 * g[j \div 2]
    <3>1. j # 0 => g[j \div 2] = f[j \div 2]
      BY <2>3, <2>6
    <3>2. CASE j = k
      <4>1. g[j] = 2 * f[k \div 2]
        BY <3>2
      <4> HIDE DEF g
      <4> QED
        BY <1>4, <3>1, <3>2, <4>1
    <3>3. CASE j # k
      <4>1. j \in 0..k - 1
        BY <2>1, <3>3
      <4>2. g[j] = f[j]
        BY <2>6, <4>1
      <4> HIDE DEF g
      <4> QED
        BY <2>4, <3>1, <4>1, <4>2
    <3> QED
      BY <3>2, <3>3
  <2>8. g = [j \in 0..k |-> g[j]]
    OBVIOUS
  <2> HIDE DEF g
  <2>9. g = [j \in 0..k |-> IF j = 0 THEN 1 ELSE 2 * g[j \div 2]]
    BY <2>7, <2>8
  <2>10. IsShift(g, k)
    BY <2>9 DEF IsShift
  <2> QED
    BY <1>2, <2>10
<1> QED
  BY <1>3, <1>4

\* The assert of next_capacity: the power of two is above n.
LEMMA PowerFacts == ASSUME NEW n \in Nat PROVE Power(n) \in Nat /\ Power(n) > n
<1> DEFINE shifted[k \in 0..n] == IF k = 0 THEN 1 ELSE 2 * shifted[k \div 2]
<1>1. Power(n) = shifted[n]
  BY Zenon DEF Power
<1>2. \E f : IsShift(f, n)
  BY ShiftExists
<1>3. shifted = [k \in 0..n |-> IF k = 0 THEN 1 ELSE 2 * shifted[k \div 2]]
  BY <1>2, Zenon DEF IsShift
<1> HIDE DEF shifted
<1>4. \A k \in 0..n : shifted[k] = IF k = 0 THEN 1 ELSE 2 * shifted[k \div 2]
  BY <1>3
<1> DEFINE Good(k) == shifted[k] \in Nat /\ shifted[k] > k
           Bad == {k \in 0..n : ~Good(k)}
<1>5. SUFFICES ASSUME Bad # {} PROVE FALSE
  <2>1. n \in 0..n
    OBVIOUS
  <2> QED
    BY <1>1, <2>1
<1>6. PICK k \in Bad : \A j \in Bad : k <= j
  <2>1. Bad \in SUBSET Nat
    OBVIOUS
  <2> HIDE DEF Bad
  <2> QED
    BY <1>5, <2>1, LeastExists
<1>7. k \in 0..n /\ ~Good(k)
  BY <1>6
<1>8. k # 0
  BY <1>4, <1>7
<1>9. PICK h : h = k \div 2
  OBVIOUS
<1>10. h \in 0..n /\ h < k /\ k < 2 * h + 2 /\ h \in Nat
  BY <1>7, <1>8, <1>9, HalfFacts
<1>11. h \notin Bad
  BY <1>6, <1>7, <1>10
<1>12. Good(h)
  BY <1>10, <1>11
<1>13. shifted[k] = 2 * shifted[h]
  BY <1>4, <1>7, <1>8, <1>9
<1> QED
  BY <1>7, <1>10, <1>12, <1>13

\* A table has at most one entry more than the platform can handle, and is larger than
\* what was asked for.
LEMMA CapacityFacts ==
  ASSUME NEW n \in Nat
  PROVE  next_capacity(n) \in 1..ItemsMax + 1 /\ (n <= ItemsMax => n < next_capacity(n))
BY PowerFacts, SizeAssumption DEF next_capacity

\* The table of a descriptor that is taken has one of the sizes, and is no smaller
\* than it was.
LEMMA SizeFacts ==
  ASSUME NEW size \in Sizes
  PROVE  /\ size \in 1..ItemsMax + 1
         /\ \A f \in Fd : ~INVALID_FD(f) => SizeFor(size, f) \in Sizes /\ size <= SizeFor(size, f)
<1>1. Capacity \in Nat /\ ItemsMax \in Nat
  BY SizeAssumption
<1>2. next_capacity(Capacity) \in 1..ItemsMax + 1
  BY <1>1, CapacityFacts
<1>3. size \in 1..ItemsMax + 1 /\ size >= next_capacity(Capacity)
  BY <1>1, <1>2 DEF Sizes
<1>4. ASSUME NEW f \in Fd, ~INVALID_FD(f)
      PROVE  SizeFor(size, f) \in Sizes /\ size <= SizeFor(size, f)
  <2>1. f \in Nat /\ f < ItemsMax
    BY <1>1, <1>4, FdAssumption DEF INVALID_FD
  <2>2. CASE f > size
    <3>1. SizeFor(size, f) = next_capacity(f)
      BY <1>3, <2>1, <2>2 DEF SizeFor, ensure_capacity
    <3>2. next_capacity(f) \in 1..ItemsMax + 1 /\ f < next_capacity(f)
      BY <1>1, <2>1, CapacityFacts
    <3> QED
      BY <1>1, <1>2, <1>3, <2>1, <2>2, <3>1, <3>2 DEF Sizes
  <2>3. CASE ~(f > size)
    BY <1>3, <2>3 DEF SizeFor
  <2> QED
    BY <2>2, <2>3
<1> QED
  BY <1>3, <1>4
\* The table that main has made.
LEMMA FirstSize == ensure_capacity(0, Capacity) \in Sizes
<1>1. Capacity \in Nat /\ ~(Capacity < 0) /\ ItemsMax \in Nat
  BY SizeAssumption
<1>2. ensure_capacity(0, Capacity) = next_capacity(Capacity)
  BY <1>1 DEF ensure_capacity
<1> QED
  BY <1>1, <1>2, CapacityFacts DEF Sizes

------------------------------------------------------------------------------
(* The steps.                                                              *)

\* A handler leaves the table as it should be, whatever it registers and
\* unregisters, and a thread that it starts has a descriptor.
LEMMA HandlerOK ==
  ASSUME NEW size \in Sizes, TableOK(s, size), JobTypes, LoopTypes, NEW f \in Fd,
         HandleRead(f) \/ HandleWrite(f) \/ HandleBlock(f) \/ DoesNothing
  PROVE  /\ \E z \in Sizes : TableOK(s', z)
         /\ Threads' /\ proc' \in {"up", "corrupt"}
         /\ \A u \in Thread : thread'[u] # thread[u] => tfd'[u] \in Fd
<1> DEFINE Goal == /\ \E z \in Sizes : TableOK(s', z)
                   /\ Threads' /\ proc' \in {"up", "corrupt"}
                   /\ \A u \in Thread : thread'[u] # thread[u] => tfd'[u] \in Fd
<1> USE FdAssumption
<1>0. Threads /\ proc \in {"up", "corrupt"}
  BY DEF JobTypes, LoopTypes
<1>1. ASSUME NEW t, NEW z \in Sizes, TableOK(t, z), Leave(t) PROVE Goal
  <2>1. s' = t /\ proc' = proc /\ thread' = thread /\ tfd' = tfd
    BY <1>1 DEF Leave, threadVars
  <2> QED
    BY <1>0, <1>1, <2>1 DEF Threads
<1>2. CASE DoesNothing
  BY <1>1, <1>2 DEF DoesNothing
<1>3. CASE Registers
  <2>1. PICK g \in Fd, i \in {{"READ"}, {"WRITE"}} :
          \/ Leave(selector_register(s, g, i))
          \/ DoesNothing
          \/ s' = selector_register(s, g, i) /\ proc' = "corrupt" /\ UNCHANGED threadVars
    BY <1>3 DEF Registers
  <2>2. PICK z : z = IF INVALID_FD(g) THEN size ELSE SizeFor(size, g)
    OBVIOUS
  <2>3. TableOK(selector_register(s, g, i), z)
    BY <2>2, RegisterOK DEF Op
  <2>4. z \in Sizes
    BY <2>2, SizeFacts
  <2>5. CASE Leave(selector_register(s, g, i))
    BY <1>1, <2>3, <2>4, <2>5
  <2>6. CASE s' = selector_register(s, g, i) /\ proc' = "corrupt" /\ UNCHANGED threadVars
    BY <1>0, <2>3, <2>4, <2>6 DEF threadVars, Threads
  <2> QED
    BY <1>2, <2>1, <2>5, <2>6
<1>4. CASE SetsInterest(f)
  BY <1>1, <1>4, SetInterestOK DEF SetsInterest
<1>5. CASE Unregisters(f)
  <2>1. PICK g \in Fd : Leave(selector_unregister_fd(selector_unregister_fd(s, g), f))
    BY <1>5 DEF Unregisters
  <2>2. TableOK(selector_unregister_fd(s, g), size)
    BY UnregisterOK
  <2>3. TableOK(selector_unregister_fd(selector_unregister_fd(s, g), f), size)
    BY <2>2, UnregisterOK
  <2> QED
    BY <1>1, <2>1, <2>3
<1>6. CASE StartsJob(f)
  <2>1. PICK t \in Thread :
          /\ thread' = [thread EXCEPT ![t] = "resolving"] /\ tfd' = [tfd EXCEPT ![t] = f]
          /\ UNCHANGED <<s, proc>>
    BY <1>6 DEF StartsJob
  <2> QED
    BY <1>0, <2>1 DEF Threads
<1> QED
  BY <1>2, <1>3, <1>4, <1>5, <1>6 DEF HandleRead, HandleWrite, HandleBlock

\* What a handler leaves of the events and of the jobs under way.
LEMMA AftermathTypes ==
  ASSUME LoopTypes, NEW event, NEW notified, Aftermath(event, notified),
         \A u \in Thread : thread'[u] # thread[u] => tfd'[u] \in Fd
  PROVE  ready' \subseteq Fd \X Op /\ waiting' \subseteq Fd
<1>1. ready' \subseteq ready
  BY DEF Aftermath
<1>2. ASSUME NEW f \in waiting' PROVE f \in Fd
  <2>1. f \in waiting \/ \E t \in Thread : thread'[t] # thread[t] /\ f = tfd'[t]
    BY <1>2 DEF Aftermath
  <2> QED
    BY <2>1 DEF LoopTypes
<1> QED
  BY <1>1, <1>2 DEF LoopTypes

\* The invariant holds of the selector that main has made.
LEMMA InitInv == Init => SelectorInv
<1> SUFFICES ASSUME Init PROVE SelectorInv
  OBVIOUS
<1>1. PICK size : size = ensure_capacity(0, Capacity)
  OBVIOUS
<1>2. TableOK(selector_new, size)
  <2>1. selector_new = [selector_new EXCEPT !.fd_size = size]
    BY <1>1 DEF selector_new
  <2> QED
    BY <2>1, NewOK
<1>3. size \in Sizes
  BY <1>1, FirstSize
<1>4. PICK z \in Sizes : TableOK(s, z)
  <2> DEFINE z == IF INVALID_FD(Listener) THEN size ELSE SizeFor(size, Listener)
  <2>1. TableOK(s, z)
    BY <1>2, RegisterOK, FdAssumption DEF Init, Op
  <2>2. z \in Sizes
    BY <1>3, SizeFacts, FdAssumption
  <2> QED
    BY <2>1, <2>2
<1>5. Table
  BY <1>4 DEF Init, Table, SizeIs
<1>6. JobsSignalled /\ JobTypes /\ LoopTypes
  BY DEF Init, JobsSignalled, JobTypes, Threads, LoopTypes
<1> QED
  BY <1>5, <1>6 DEF SelectorInv

\* A step that leaves the table, the jobs and the threads alone.
LEMMA LoopStep ==
  ASSUME SelectorInv, UNCHANGED <<s, jobs, job, threadVars>>, LoopTypes',
         phase' = "destroyed" <=> phase = "destroyed",
         phase' \in {"top", "entered", "pselect"} =>
           phase \in {"top", "entered", "pselect"} /\ (alarm = 1 => alarm' = 1)
  PROVE  SelectorInv'
<1>1. Table'
  BY DEF SelectorInv, Table, TableOK, SizeIs
<1>2. JobsSignalled' /\ JobTypes'
  BY DEF SelectorInv, JobsSignalled, JobTypes, Threads, threadVars
<1> QED
  BY <1>1, <1>2 DEF SelectorInv

\* Every step of the loop, of the threads and of the kernel keeps it.
LEMMA NextInv == SelectorInv /\ [Next]_vars => SelectorInv'
<1> SUFFICES ASSUME SelectorInv, [Next]_vars PROVE SelectorInv'
  OBVIOUS
<1>1. Table /\ JobsSignalled /\ JobTypes /\ LoopTypes
  BY DEF SelectorInv
<1>2. PICK size : SizeIs(size) /\ TableOK(s, size)
  BY <1>1 DEF Table
<1>3. CASE EnterSelect \/ CallPselect
  BY <1>1, <1>3, LoopStep DEF EnterSelect, CallPselect, LoopTypes, SelectorInv
<1>4. CASE PselectReady \/ PselectInterrupted \/ PselectTimeout \/ end_iteration
  <2>1. Reported \subseteq Fd \X Op
    BY <1>1 DEF Reported, LoopTypes
  <2> QED
    BY <1>1, <1>4, <2>1, LoopStep
       DEF PselectReady, PselectInterrupted, PselectTimeout, end_iteration, LoopTypes
<1>5. CASE BecomesReady \/ Terminate
  <2>1. Watched(s) \subseteq Fd \X Op
    BY DEF Watched
  <2> QED
    BY <1>1, <1>5, <2>1, LoopStep DEF BecomesReady, Terminate, loopVars, LoopTypes, Up
<1>6. ASSUME NEW e, handle_event(e) PROVE SelectorInv'
  <2>1. e[1] \in Fd
    BY <1>6 DEF handle_event, Watched
  <2>2. /\ phase = "events" /\ phase' = "events" /\ slave' \subseteq slave
        /\ UNCHANGED <<jobs, job, alarm, done>> /\ Aftermath({e}, {})
    BY <1>6 DEF handle_event
  <2>3. size \in Sizes
    BY <1>2, <2>2 DEF SizeIs
  <2>4. /\ \E z \in Sizes : TableOK(s', z)
        /\ Threads' /\ proc' \in {"up", "corrupt"}
        /\ \A u \in Thread : thread'[u] # thread[u] => tfd'[u] \in Fd
    BY <1>1, <1>2, <1>6, <2>1, <2>3, HandlerOK DEF handle_event
  <2>5. ready' \subseteq Fd \X Op /\ waiting' \subseteq Fd
    BY <1>1, <2>2, <2>4, AftermathTypes
  <2>6. Table'
    BY <2>2, <2>4 DEF Table, SizeIs
  <2>7. JobsSignalled' /\ JobTypes' /\ LoopTypes'
    BY <1>1, <2>2, <2>4, <2>5 DEF JobsSignalled, JobTypes, LoopTypes
  <2> QED
    BY <2>6, <2>7 DEF SelectorInv
<1>7. ASSUME NEW e, skip_event(e) PROVE SelectorInv'
  BY <1>1, <1>7, LoopStep DEF skip_event, LoopTypes
<1>8. CASE lock_jobs
  <2>1. /\ UNCHANGED <<s, slave, jobs, thread, tfd, alarm, done, proc, ready, waiting>>
        /\ job' = jobs /\ phase = "lock" /\ phase' = "jobs"
    BY <1>8 DEF lock_jobs, threadVars
  <2>2. Table'
    BY <1>2, <2>1 DEF Table, TableOK, SizeIs
  <2> QED
    BY <1>1, <2>1, <2>2 DEF SelectorInv, JobsSignalled, JobTypes, Threads, LoopTypes
<1>9. CASE notify_job
  <2>1. /\ job \in Seq(Fd) /\ job # <<>> /\ job' = Tail(job) /\ phase = "jobs" /\ phase' = "jobs"
        /\ UNCHANGED <<slave, jobs, alarm, done>> /\ Aftermath({}, {Head(job)})
    BY <1>1, <1>9 DEF notify_job, JobTypes, Threads
  <2>2. Head(job) \in Fd /\ job' \in Seq(Fd)
    BY <2>1
  <2>3. size \in Sizes
    BY <1>2, <2>1 DEF SizeIs
  <2>4. /\ \E z \in Sizes : TableOK(s', z)
        /\ Threads' /\ proc' \in {"up", "corrupt"}
        /\ \A u \in Thread : thread'[u] # thread[u] => tfd'[u] \in Fd
    BY <1>1, <1>2, <1>9, <2>2, <2>3, HandlerOK DEF notify_job
  <2>5. ready' \subseteq Fd \X Op /\ waiting' \subseteq Fd
    BY <1>1, <2>1, <2>4, AftermathTypes
  <2>6. Table'
    BY <2>1, <2>4 DEF Table, SizeIs
  <2>7. JobsSignalled' /\ JobTypes' /\ LoopTypes'
    BY <1>1, <2>1, <2>2, <2>4, <2>5 DEF JobsSignalled, JobTypes, LoopTypes
  <2> QED
    BY <2>6, <2>7 DEF SelectorInv
<1>10. CASE unlock_jobs
  <2>1. /\ UNCHANGED <<s, slave, job, thread, tfd, alarm, done, proc, ready, waiting>>
        /\ jobs' = <<>> /\ phase = "jobs" /\ phase' = "top"
    BY <1>10 DEF unlock_jobs, threadVars
  <2>2. Table'
    BY <1>2, <2>1 DEF Table, TableOK, SizeIs
  <2> QED
    BY <1>1, <2>1, <2>2 DEF SelectorInv, JobsSignalled, JobTypes, Threads, LoopTypes
<1>11. CASE selector_destroy
  <2>1. /\ UNCHANGED <<slave, job, thread, tfd, alarm, done, proc>> /\ jobs' = <<>>
        /\ phase' = "destroyed" /\ ready' = {} /\ waiting' = {}
        /\ s' = [selector_new EXCEPT !.fd_size = 0]
    BY <1>11 DEF selector_destroy, threadVars
  <2>2. TableOK(s', 0)
    BY <2>1, NewOK
  <2>3. Table'
    BY <2>1, <2>2 DEF Table, SizeIs
  <2> QED
    BY <1>1, <2>1, <2>3 DEF SelectorInv, JobsSignalled, JobTypes, Threads, LoopTypes
<1>12. ASSUME NEW t \in Thread, PushJob(t) PROVE SelectorInv'
  <2>1. /\ thread[t] = "resolving" /\ thread' = [thread EXCEPT ![t] = "pushed"]
        /\ (jobs' = jobs \/ jobs' = <<tfd[t]>> \o jobs)
        /\ UNCHANGED <<s, slave, job, phase, tfd, alarm, done, ready, waiting>>
        /\ proc' \in {proc, "corrupt"}
    BY <1>12 DEF PushJob, loopVars
  <2>2. thread'[t] = "pushed" /\ tfd[t] \in Fd /\ jobs' \in Seq(Fd)
    BY <1>1, <2>1, SMTT(30) DEF JobTypes, Threads
  <2>3. JobTypes'
    BY <1>1, <2>1, <2>2 DEF JobTypes, Threads
  <2>4. Table'
    BY <1>2, <2>1 DEF Table, TableOK, SizeIs
  <2>5. LoopTypes'
    BY <1>1, <2>1 DEF LoopTypes
  <2> QED
    BY <2>2, <2>3, <2>4, <2>5 DEF SelectorInv, JobsSignalled
<1>13. ASSUME NEW t \in Thread, KillSelector(t) PROVE SelectorInv'
  <2>1. /\ thread' = [thread EXCEPT ![t] = "none"] /\ tfd' = [tfd EXCEPT ![t] = NoFd]
        /\ (phase = "destroyed" /\ alarm' = alarm) \/ alarm' = 1
        /\ UNCHANGED <<s, slave, job, jobs, phase, done, ready, waiting>>
        /\ proc' \in {proc, "corrupt"}
    BY <1>13 DEF KillSelector, Pending, loopVars
  <2>2. JobTypes'
    BY <1>1, <2>1 DEF JobTypes, Threads
  <2>3. Table'
    BY <1>2, <2>1 DEF Table, TableOK, SizeIs
  <2>4. LoopTypes'
    BY <1>1, <2>1 DEF LoopTypes
  <2> QED
    BY <2>1, <2>2, <2>3, <2>4 DEF SelectorInv, JobsSignalled
<1>14. CASE UNCHANGED vars
  BY <1>1, <1>14, LoopStep DEF vars, loopVars, LoopTypes
<1> QED
  BY <1>3, <1>4, <1>5, <1>6, <1>7, <1>8, <1>9, <1>10, <1>11, <1>12, <1>13, <1>14
     DEF Next, Loop, selector_select, selector_notify_block, Ended

\* SelectorInv holds in every state the selector can be in.
LEMMA AlwaysInv == Spec => []SelectorInv
BY InitInv, NextInv, PTL DEF Spec

\* The master sets and max_fd are what the table says, for any descriptors and
\* whatever the handlers register and unregister: pselect is asked about every
\* interest and handle_iteration comes to every entry.
THEOREM TableIsWatched == Spec => []PselectWatchesTable
<1>1. SelectorInv => PselectWatchesTable
  BY TableWatched DEF SelectorInv, Table
<1> QED
  BY <1>1, AlwaysInv, PTL

\* However many threads push jobs, and wherever the loop is when they do, the
\* selector never sleeps in pselect on a job without its signal on the way.
THEOREM WakeupIsKept == Spec => []NoLostWakeup
<1>1. SelectorInv => NoLostWakeup
  BY DEF SelectorInv, JobsSignalled, NoLostWakeup
<1> QED
  BY <1>1, AlwaysInv, PTL

\* Every variable of the selector, of its loop and of the threads keeps its type: the
\* table never has more than ITEMS_MAX_SIZE + 1 entries, and max_fd is that of a
\* descriptor.
THEOREM SelectorTypes == Spec => []TypeOK
<1>1. ASSUME SelectorInv PROVE TypeOK
  <2>1. Table /\ JobTypes /\ LoopTypes
    BY <1>1 DEF SelectorInv
  <2>2. PICK size : SizeIs(size) /\ TableOK(s, size)
    BY <2>1 DEF Table
  <2>3. size \in 0..ItemsMax + 1
    BY <2>2, SizeFacts, SizeAssumption DEF SizeIs
  <2>4. PICK fds, max :
          fds \in Entries /\ Fields(s, fds, size, max, WatchedBy(fds)) /\ Greatest(fds, max)
    BY <2>2 DEF TableOK
  <2>5. max \in Fd \cup {0} /\ WatchedBy(fds) \in SUBSET (Fd \X Op)
    BY <2>4 DEF Greatest, InUse, WatchedBy
  <2>6. s \in [fds : [Fd -> (SUBSET Op) \cup {Unused}], fd_size : 0..ItemsMax + 1,
               max_fd : Fd \cup {0}, master : SUBSET (Fd \X Op)]
    BY <2>3, <2>4, <2>5 DEF Fields, Entries
  <2> QED
    BY <2>1, <2>6 DEF TypeOK, JobTypes, Threads, LoopTypes
<1> QED
  BY <1>1, AlwaysInv, PTL

------------------------------------------------------------------------------
(* The table misses at most the entry behind its end.                      *)

\* The entries in use are below n.
Within(t, n) == \A f \in Fd : ITEM_USED(t, f) => f < n

\* What the selector keeps to until it is destroyed: only descriptors that the
\* platform can handle are in use, and they lie in the table, but for the one that
\* was written behind its end.
CoversInv ==
  phase # "destroyed" =>
    /\ Within(s, ItemsMax)
    /\ proc = "up" => Within(s, s.fd_size)
    /\ proc = "corrupt" => s.max_fd = s.fd_size

\* The size, and the entries, of a table that is as it should be.
LEMMA FieldFacts ==
  ASSUME NEW t, NEW size, TableOK(t, size)
  PROVE  t.fd_size = size /\ t.fds \in Entries
BY DEF TableOK, Fields

\* Its max_fd is the greatest entry in use.
LEMMA MaxFacts ==
  ASSUME NEW t, NEW size, TableOK(t, size)
  PROVE  /\ t.max_fd = 0 \/ (t.max_fd \in Fd /\ ITEM_USED(t, t.max_fd))
         /\ \A f \in Fd : ITEM_USED(t, f) => f <= t.max_fd
<1>1. PICK fds, max :
        fds \in Entries /\ Fields(t, fds, size, max, WatchedBy(fds)) /\ Greatest(fds, max)
  BY DEF TableOK
<1>2. t.fds = fds /\ t.max_fd = max
  BY <1>1 DEF Fields
<1>3. \A f \in Fd : ITEM_USED(t, f) <=> f \in InUse(fds)
  BY <1>2 DEF ITEM_USED, InUse
<1>4. InUse(fds) \subseteq Fd
  BY DEF InUse
<1> QED
  BY <1>1, <1>2, <1>3, <1>4 DEF Greatest

\* The entry that selector_register leaves no room for is the one right behind the end.
LEMMA OnlyTheEnd ==
  ASSUME NEW size \in Sizes, NEW f \in Fd, ~INVALID_FD(f), ~HasRoom(size, f)
  PROVE  f = size /\ SizeFor(size, f) = size
<1>1. f \in Nat /\ f < ItemsMax /\ size \in Nat /\ ItemsMax \in Nat
  BY SizeFacts, FdAssumption, SizeAssumption DEF INVALID_FD
<1>2. CASE f > size
  <2>1. SizeFor(size, f) = next_capacity(f)
    BY <1>1, <1>2 DEF SizeFor, ensure_capacity
  <2>2. f < next_capacity(f)
    BY <1>1, CapacityFacts
  <2> QED
    BY <2>1, <2>2 DEF HasRoom
<1>3. CASE ~(f > size)
  BY <1>1, <1>3 DEF SizeFor, HasRoom
<1> QED
  BY <1>2, <1>3

\* selector_register uses no entry but the one that is registered.
LEMMA RegisterUses ==
  ASSUME NEW t, NEW size, TableOK(t, size), NEW f \in Fd, NEW i \in SUBSET Op, ~INVALID_FD(f)
  PROVE  /\ \A g \in Fd : ITEM_USED(selector_register(t, f, i), g) => g = f \/ ITEM_USED(t, g)
         /\ ITEM_USED(selector_register(t, f, i), f)
<1>1. PICK fds, max :
        fds \in Entries /\ Fields(t, fds, size, max, WatchedBy(fds)) /\ Greatest(fds, max)
  BY DEF TableOK
<1>2. t = [fds |-> fds, fd_size |-> size, max_fd |-> max, master |-> WatchedBy(fds)]
  BY <1>1 DEF Fields
<1>3. PICK n : n = SizeFor(t.fd_size, f)
  OBVIOUS
<1>4. PICK grown : grown = [t EXCEPT !.fd_size = n]
  OBVIOUS
<1>5. grown = [fds |-> fds, fd_size |-> n, max_fd |-> max, master |-> WatchedBy(fds)]
  BY <1>2, <1>4
<1>6. PICK top : top = IF f > max THEN f ELSE max
  OBVIOUS
<1>7. PICK new : new = [fds EXCEPT ![f] = i]
  OBVIOUS
<1>8. PICK w : w = [grown EXCEPT !.fds[f] = i, !.max_fd = IF f > @ THEN f ELSE @]
  OBVIOUS
<1>9. w = [fds |-> new, fd_size |-> n, max_fd |-> top, master |-> WatchedBy(fds)]
  BY <1>5, <1>6, <1>7, <1>8
<1>10. Updated(w, f).fds = new
  BY <1>9 DEF Updated
<1>11. PICK u : u = selector_register(t, f, i)
  OBVIOUS
<1>12. u = IF ITEM_USED(t, f) THEN grown ELSE Updated(w, f)
  BY <1>3, <1>4, <1>8, <1>11 DEF selector_register
<1>13. t.fds = fds /\ grown.fds = fds
  BY <1>2, <1>5
<1>14. new[f] = i /\ i # Unused /\ \A g \in Fd : g # f => new[g] = fds[g]
  BY <1>1, <1>7, UnusedFacts DEF Entries
<1>15. CASE ITEM_USED(t, f)
  BY <1>11, <1>12, <1>13, <1>15 DEF ITEM_USED
<1>16. CASE ~ITEM_USED(t, f)
  BY <1>10, <1>11, <1>12, <1>13, <1>14, <1>16 DEF ITEM_USED
<1> QED
  BY <1>15, <1>16

\* What is in use stays below a limit that the descriptor is below,
LEMMA RegisterWithin ==
  ASSUME NEW t, NEW size, TableOK(t, size), NEW n \in Nat, NEW m \in Nat, n <= m, Within(t, n),
         NEW f \in Fd, NEW i \in SUBSET Op, INVALID_FD(f) \/ f < m
  PROVE  Within(selector_register(t, f, i), m)
<1>1. Fd \subseteq Nat
  BY FdAssumption
<1>2. CASE INVALID_FD(f)
  BY <1>1, <1>2 DEF selector_register, Within
<1>3. CASE ~INVALID_FD(f)
  BY <1>1, <1>3, RegisterUses DEF Within
<1> QED
  BY <1>2, <1>3

\* and an entry written behind the end of the table is the greatest.
LEMMA RegisterBehind ==
  ASSUME NEW t, NEW size \in Sizes, TableOK(t, size), Within(t, size),
         NEW f \in Fd, NEW i \in SUBSET Op, ~INVALID_FD(f), ~HasRoom(size, f)
  PROVE  selector_register(t, f, i).max_fd = selector_register(t, f, i).fd_size
<1>1. f = size /\ SizeFor(size, f) = size
  BY OnlyTheEnd
<1>2. PICK u : u = selector_register(t, f, i)
  OBVIOUS
<1>3. TableOK(u, size)
  BY <1>1, <1>2, RegisterOK
<1>4. u.fd_size = size /\ f <= u.max_fd
  BY <1>2, <1>3, FieldFacts, MaxFacts, RegisterUses
<1>5. u.max_fd = 0 \/ (u.max_fd \in Fd /\ (u.max_fd = f \/ ITEM_USED(t, u.max_fd)))
  BY <1>2, <1>3, MaxFacts, RegisterUses
<1>6. size \in Nat /\ size > 0 /\ Fd \subseteq Nat
  BY SizeFacts, SizeAssumption, FdAssumption
<1>7. u.max_fd = f
  BY <1>1, <1>4, <1>5, <1>6 DEF Within
<1> QED
  BY <1>1, <1>2, <1>4, <1>7

\* selector_set_interest uses no other entry,
LEMMA SetInterestWithin ==
  ASSUME NEW t, NEW size, TableOK(t, size), NEW n, Within(t, n), NEW f \in Fd, NEW i \in SUBSET Op
  PROVE  Within(selector_set_interest(t, f, i), n)
<1>1. PICK fds, max :
        fds \in Entries /\ Fields(t, fds, size, max, WatchedBy(fds)) /\ Greatest(fds, max)
  BY DEF TableOK
<1>2. CASE INVALID_FD(f) \/ ~ITEM_USED(t, f)
  BY <1>2 DEF selector_set_interest
<1>3. CASE ~(INVALID_FD(f) \/ ~ITEM_USED(t, f))
  <2>1. t = [fds |-> fds, fd_size |-> size, max_fd |-> max, master |-> WatchedBy(fds)]
    BY <1>1 DEF Fields
  <2>2. PICK new : new = [fds EXCEPT ![f] = i]
    OBVIOUS
  <2>3. PICK w : w = [t EXCEPT !.fds[f] = i]
    OBVIOUS
  <2>4. w = [fds |-> new, fd_size |-> size, max_fd |-> max, master |-> WatchedBy(fds)]
    BY <2>1, <2>2, <2>3
  <2>5. selector_set_interest(t, f, i) = Updated(w, f)
    BY <1>3, <2>3 DEF selector_set_interest
  <2>6. Updated(w, f).fds = new
    BY <2>4 DEF Updated
  <2>7. fds[f] # Unused
    BY <1>3, <2>1 DEF ITEM_USED
  <2> QED
    BY <1>1, <2>1, <2>2, <2>5, <2>6, <2>7 DEF Within, ITEM_USED, Entries
<1> QED
  BY <1>2, <1>3

\* and neither does selector_unregister_fd.
LEMMA UnregisterWithin ==
  ASSUME NEW t, NEW size, TableOK(t, size), NEW n, Within(t, n), NEW f \in Fd
  PROVE  Within(selector_unregister_fd(t, f), n)
<1>1. CASE INVALID_FD(f) \/ ~ITEM_USED(t, f)
  BY <1>1 DEF selector_unregister_fd
<1>2. CASE ~(INVALID_FD(f) \/ ~ITEM_USED(t, f))
  <2>1. PICK v : v = selector_set_interest(t, f, {})
    OBVIOUS
  <2>2. TableOK(v, size) /\ Within(v, n)
    BY <2>1, SetInterestOK, SetInterestWithin
  <2>3. PICK fds, max :
          fds \in Entries /\ Fields(v, fds, size, max, WatchedBy(fds)) /\ Greatest(fds, max)
    BY <2>2 DEF TableOK
  <2>4. v = [fds |-> fds, fd_size |-> size, max_fd |-> max, master |-> WatchedBy(fds)]
    BY <2>3 DEF Fields
  <2>5. PICK new : new = [fds EXCEPT ![f] = Unused]
    OBVIOUS
  <2>6. PICK u : u = [v EXCEPT !.fds[f] = Unused]
    OBVIOUS
  <2>7. u = [fds |-> new, fd_size |-> size, max_fd |-> max, master |-> WatchedBy(fds)]
    BY <2>4, <2>5, <2>6
  <2>8. selector_unregister_fd(t, f) = [u EXCEPT !.max_fd = items_max_fd(u)]
    BY <1>2, <2>1, <2>6 DEF selector_unregister_fd
  <2>9. PICK m : m = items_max_fd(u)
    OBVIOUS
  <2>10. selector_unregister_fd(t, f) =
           [fds |-> new, fd_size |-> size, max_fd |-> m, master |-> WatchedBy(fds)]
    BY <2>7, <2>8, <2>9
  <2> QED
    BY <2>2, <2>3, <2>4, <2>5, <2>10 DEF Within, ITEM_USED, Entries
<1> QED
  BY <1>1, <1>2

\* A handler writes in the table, or right behind its end.
LEMMA HandlerCovers ==
  ASSUME NEW size \in Sizes, TableOK(s, size), Within(s, ItemsMax), Within(s, size), proc = "up",
         NEW f \in Fd, HandleRead(f) \/ HandleWrite(f) \/ HandleBlock(f) \/ DoesNothing
  PROVE  /\ Within(s', ItemsMax)
         /\ proc' = "up" => Within(s', s'.fd_size)
         /\ proc' = "corrupt" => s'.max_fd = s'.fd_size
<1> DEFINE Goal == /\ Within(s', ItemsMax)
                   /\ proc' = "up" => Within(s', s'.fd_size)
                   /\ proc' = "corrupt" => s'.max_fd = s'.fd_size
<1>0. s.fd_size = size /\ size \in Nat /\ ItemsMax \in Nat /\ Fd \subseteq Nat
  BY FieldFacts, SizeFacts, SizeAssumption, FdAssumption
<1>1. ASSUME NEW t, Leave(t), Within(t, ItemsMax), Within(t, t.fd_size) PROVE Goal
  BY <1>1 DEF Leave
<1>2. CASE DoesNothing
  BY <1>0, <1>1, <1>2 DEF DoesNothing
<1>3. CASE Registers
  <2>1. PICK g \in Fd, i \in {{"READ"}, {"WRITE"}} :
          IF INVALID_FD(g) \/ HasRoom(s.fd_size, g) THEN Leave(selector_register(s, g, i))
          ELSE \/ DoesNothing
               \/ s' = selector_register(s, g, i) /\ proc' = "corrupt" /\ UNCHANGED threadVars
    BY <1>3 DEF Registers
  <2>2. PICK u : u = selector_register(s, g, i)
    OBVIOUS
  <2>3. PICK z : z = IF INVALID_FD(g) THEN size ELSE SizeFor(size, g)
    OBVIOUS
  <2>4. z \in Nat /\ size <= z
    BY <1>0, <2>3, SizeFacts DEF Sizes
  <2>5. u.fd_size = z
    BY <2>2, <2>3, RegisterOK, FieldFacts DEF Op
  <2>6. Within(u, ItemsMax)
    <3>1. INVALID_FD(g) \/ g < ItemsMax
      BY <1>0 DEF INVALID_FD
    <3> QED
      BY <1>0, <2>2, <3>1, RegisterWithin DEF Op
  <2>7. CASE INVALID_FD(g) \/ HasRoom(s.fd_size, g)
    <3>1. INVALID_FD(g) \/ g < z
      BY <1>0, <2>3, <2>7 DEF HasRoom
    <3>2. Within(u, z)
      BY <1>0, <2>2, <2>4, <3>1, RegisterWithin DEF Op
    <3> QED
      BY <1>1, <2>1, <2>2, <2>5, <2>6, <2>7, <3>2
  <2>8. CASE ~(INVALID_FD(g) \/ HasRoom(s.fd_size, g))
    <3>1. u.max_fd = u.fd_size
      BY <1>0, <2>2, <2>8, RegisterBehind DEF Op
    <3> QED
      BY <1>2, <2>1, <2>2, <2>6, <2>8, <3>1
  <2> QED
    BY <2>7, <2>8
<1>4. CASE SetsInterest(f)
  <2>1. PICK i \in SUBSET Op : Leave(selector_set_interest(s, f, i))
    BY <1>4 DEF SetsInterest
  <2>2. selector_set_interest(s, f, i).fd_size = size
    BY SetInterestOK, FieldFacts
  <2> QED
    BY <1>1, <2>1, <2>2, SetInterestWithin
<1>5. CASE Unregisters(f)
  <2>1. PICK g \in Fd : Leave(selector_unregister_fd(selector_unregister_fd(s, g), f))
    BY <1>5 DEF Unregisters
  <2>2. PICK v : v = selector_unregister_fd(s, g)
    OBVIOUS
  <2>3. TableOK(v, size) /\ Within(v, size) /\ Within(v, ItemsMax)
    BY <2>2, UnregisterOK, UnregisterWithin
  <2>4. PICK u : u = selector_unregister_fd(v, f)
    OBVIOUS
  <2>5. TableOK(u, size) /\ Within(u, size) /\ Within(u, ItemsMax)
    BY <2>3, <2>4, UnregisterOK, UnregisterWithin
  <2> QED
    BY <1>1, <2>1, <2>2, <2>4, <2>5, FieldFacts
<1>6. CASE StartsJob(f)
  BY <1>0, <1>6 DEF StartsJob
<1> QED
  BY <1>2, <1>3, <1>4, <1>5, <1>6 DEF HandleRead, HandleWrite, HandleBlock

\* The listener is within the table that main has made, or right behind its end.
LEMMA InitCovers == ASSUME Init PROVE CoversInv
<1>1. PICK size : size = ensure_capacity(0, Capacity)
  OBVIOUS
<1>2. TableOK(selector_new, size) /\ selector_new.fd_size = size
  <2>1. selector_new = [selector_new EXCEPT !.fd_size = size]
    BY <1>1 DEF selector_new
  <2> QED
    BY <2>1, NewOK, FieldFacts
<1>3. size \in Sizes
  BY <1>1, FirstSize
<1>4. \A n : Within(selector_new, n)
  BY DEF Within, selector_new, ITEM_USED
<1>5. size \in Nat /\ ItemsMax \in Nat /\ Listener \in Fd /\ Fd \subseteq Nat
  BY <1>3, SizeFacts, SizeAssumption, FdAssumption
<1>6. /\ s = selector_register(selector_new, Listener, {"READ"})
      /\ proc = IF INVALID_FD(Listener) \/ HasRoom(size, Listener) THEN "up" ELSE "corrupt"
  BY <1>2 DEF Init
<1>7. PICK z : z = IF INVALID_FD(Listener) THEN size ELSE SizeFor(size, Listener)
  OBVIOUS
<1>8. z \in Nat /\ size <= z
  BY <1>3, <1>5, <1>7, SizeFacts DEF Sizes
<1>9. s.fd_size = z
  BY <1>2, <1>5, <1>6, <1>7, RegisterOK, FieldFacts DEF Op
<1>10. Within(s, ItemsMax)
  <2>1. INVALID_FD(Listener) \/ Listener < ItemsMax
    BY <1>5 DEF INVALID_FD
  <2> QED
    BY <1>2, <1>4, <1>5, <1>6, <2>1, RegisterWithin DEF Op
<1>11. CASE INVALID_FD(Listener) \/ HasRoom(size, Listener)
  <2>1. INVALID_FD(Listener) \/ Listener < z
    BY <1>7, <1>11 DEF HasRoom
  <2>2. Within(s, z)
    BY <1>2, <1>4, <1>5, <1>6, <1>8, <2>1, RegisterWithin DEF Op
  <2> QED
    BY <1>6, <1>9, <1>10, <1>11, <2>2 DEF CoversInv
<1>12. CASE ~(INVALID_FD(Listener) \/ HasRoom(size, Listener))
  <2>1. s.max_fd = s.fd_size
    BY <1>2, <1>3, <1>4, <1>5, <1>6, <1>12, RegisterBehind DEF Op
  <2> QED
    BY <1>6, <1>10, <1>12, <2>1 DEF CoversInv
<1> QED
  BY <1>11, <1>12

\* No step leaves the table while there is one, but to the entry behind its end.
LEMMA NextCovers ==
  ASSUME SelectorInv, CoversInv, [Next]_vars PROVE CoversInv'
<1>1. Table /\ JobTypes
  BY DEF SelectorInv
<1>2. ASSUME UNCHANGED s, proc' = proc, phase' = "destroyed" \/ phase # "destroyed"
      PROVE  CoversInv'
  BY <1>2 DEF CoversInv, Within, ITEM_USED
<1>3. CASE EnterSelect \/ CallPselect \/ PselectReady \/ PselectInterrupted \/ PselectTimeout
  BY <1>2, <1>3 DEF EnterSelect, CallPselect, PselectReady, PselectInterrupted, PselectTimeout
<1>4. CASE end_iteration \/ lock_jobs \/ unlock_jobs
  BY <1>2, <1>4 DEF end_iteration, lock_jobs, unlock_jobs
<1>5. CASE BecomesReady \/ Terminate
  BY <1>2, <1>5 DEF BecomesReady, Terminate, Up, loopVars
<1>6. ASSUME phase # "destroyed", phase' = phase, proc = "up", NEW f \in Fd,
             HandleRead(f) \/ HandleWrite(f) \/ HandleBlock(f) \/ DoesNothing
      PROVE  CoversInv'
  <2>1. PICK size \in Sizes : TableOK(s, size)
    BY <1>1, <1>6 DEF Table, SizeIs
  <2>2. Within(s, ItemsMax) /\ Within(s, size)
    BY <1>6, <2>1, FieldFacts DEF CoversInv
  <2>3. /\ Within(s', ItemsMax)
        /\ proc' = "up" => Within(s', s'.fd_size)
        /\ proc' = "corrupt" => s'.max_fd = s'.fd_size
    BY <1>6, <2>1, <2>2, HandlerCovers
  <2> QED
    BY <2>3 DEF CoversInv, Within, ITEM_USED
<1>7. ASSUME NEW e, handle_event(e) PROVE CoversInv'
  <2>1. e[1] \in Fd
    BY <1>7 DEF handle_event, Watched
  <2> QED
    BY <1>6, <1>7, <2>1 DEF handle_event
<1>8. ASSUME NEW e, skip_event(e) PROVE CoversInv'
  BY <1>2, <1>8 DEF skip_event
<1>9. CASE notify_job
  <2>1. job \in Seq(Fd) /\ job # <<>> /\ phase = "jobs" /\ phase' = phase
    BY <1>1, <1>9 DEF notify_job, JobTypes
  <2>2. Head(job) \in Fd
    BY <2>1
  <2> QED
    BY <1>6, <1>9, <2>1, <2>2 DEF notify_job
<1>10. CASE selector_destroy
  BY <1>10 DEF selector_destroy, CoversInv
<1>11. ASSUME NEW t \in Thread, PushJob(t) \/ KillSelector(t) PROVE CoversInv'
  <2>1. UNCHANGED <<s, phase>> /\ (phase # "destroyed" => proc' = proc)
    BY <1>11 DEF PushJob, KillSelector, loopVars
  <2> QED
    BY <2>1 DEF CoversInv, Within, ITEM_USED
<1>12. CASE UNCHANGED vars
  BY <1>2, <1>12 DEF vars, loopVars, CoversInv, Within, ITEM_USED
<1> QED
  BY <1>3, <1>4, <1>5, <1>7, <1>8, <1>9, <1>10, <1>11, <1>12
     DEF Next, Loop, selector_select, selector_notify_block, Ended

\* CoversInv holds in every state the selector can be in.
LEMMA AlwaysCovers == Spec => []CoversInv
<1>1. Init => CoversInv
  BY InitCovers
<1>2. SelectorInv /\ CoversInv /\ [Next]_vars => CoversInv'
  BY NextCovers
<1> QED
  BY <1>1, <1>2, AlwaysInv, PTL DEF Spec

\* For any capacity and any descriptors, and while the selector is not destroyed: what
\* selector_register writes and handle_iteration reads lies in the table that
\* ensure_capacity has left, unless the descriptor is the size of the table.
THEOREM TableMissesOnlyItsEnd == Spec => []TableCovers
<1>1. SelectorInv /\ CoversInv => TableCovers
  <2> SUFFICES ASSUME SelectorInv, CoversInv, phase # "destroyed", proc = "up"
               PROVE  s.max_fd < s.fd_size
    BY DEF TableCovers, CoversInv
  <2>1. PICK size \in Sizes : TableOK(s, size)
    BY DEF SelectorInv, Table, SizeIs
  <2>2. size \in 1..ItemsMax + 1 /\ ItemsMax \in Nat /\ s.fd_size = size
    BY <2>1, SizeFacts, SizeAssumption, FieldFacts
  <2>3. s.max_fd = 0 \/ (s.max_fd \in Fd /\ ITEM_USED(s, s.max_fd))
    BY <2>1, MaxFacts
  <2> QED
    BY <2>2, <2>3 DEF CoversInv, Within
<1> QED
  BY <1>1, AlwaysInv, AlwaysCovers, PTL

\* A capacity whose first table already has an entry for every descriptor the platform
\* can handle, as the default of 1024 has (and any from 512 on, when ITEMS_MAX_SIZE is
\* 1024), leaves nothing to be missed: the table never grows, and nothing is ever
\* written behind it.
THEOREM DefaultIsLargeEnough ==
  ASSUME next_capacity(Capacity) >= ItemsMax PROVE Spec => []NoOverrun
<1>1. SelectorInv /\ CoversInv => NoOverrun
  <2> SUFFICES ASSUME SelectorInv, CoversInv, phase # "destroyed", proc = "corrupt"
               PROVE  FALSE
    BY DEF NoOverrun, SelectorInv, LoopTypes
  <2>1. PICK size \in Sizes : TableOK(s, size)
    BY DEF SelectorInv, Table, SizeIs
  <2>2. size \in 1..ItemsMax + 1 /\ ItemsMax \in Nat /\ s.fd_size = size /\ size >= ItemsMax
    <3>1. Capacity \in Nat /\ next_capacity(Capacity) \in 1..ItemsMax + 1 /\ ItemsMax \in Nat
      BY SizeAssumption, CapacityFacts
    <3>2. size \in 1..ItemsMax + 1 /\ s.fd_size = size
      BY <2>1, SizeFacts, FieldFacts
    <3> QED
      BY <3>1, <3>2 DEF Sizes
  <2>3. s.max_fd = 0 \/ (s.max_fd \in Fd /\ ITEM_USED(s, s.max_fd))
    BY <2>1, MaxFacts
  <2> QED
    BY <2>2, <2>3, FdAssumption DEF CoversInv, Within
<1> QED
  BY <1>1, AlwaysInv, AlwaysCovers, PTL

\* The capacity of the build's default, SELECTOR_CAPACITY = ITEMS_MAX_SIZE, is one.
LEMMA DefaultCapacity == Capacity = ItemsMax => next_capacity(Capacity) >= ItemsMax
BY PowerFacts, SizeAssumption DEF next_capacity
==============================================================================
