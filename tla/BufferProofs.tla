---------------------------- MODULE BufferProofs -----------------------------
(***************************************************************************)
(* The pointers of buffer.c stay ordered, a drained buffer is always       *)
(* rewound, and every operation is the queue operation of AbstractBuffer,  *)
(* for every capacity and every set of byte values.                        *)
(***************************************************************************)
EXTENDS Buffer, SequenceTheorems, TLAPS

\* The inductive invariant: the pointers index the storage, in order, and
\* meet only at its beginning.
Inv == TypeOK /\ PointersOrdered

\* Every operation of buffer.h keeps the pointers in the storage and in order
\* and rewinds a buffer it drains.
LEMMA InvStep == Inv /\ [Next]_vars => Inv'
<1> SUFFICES ASSUME Inv, [Next]_vars PROVE Inv'
  OBVIOUS
<1> USE CapAssumption, ByteAssumption
    DEF Inv, TypeOK, PointersOrdered
<1>1. ASSUME NEW n \in 0..Cap, NEW s \in [1..n -> Byte], buffer_write_adv(s)
      PROVE  Inv'
  <2>1. Len(s) = n /\ s \in Seq(Byte)
    OBVIOUS
  <2>2. Stored(s) \in [1..Cap -> Byte]
    BY <1>1, <2>1 DEF Stored
  <2> QED
    BY <1>1, <2>1, <2>2 DEF buffer_write_adv
<1>2. ASSUME NEW n \in 0..Cap, buffer_read_adv(n)
      PROVE  Inv'
  BY <1>2 DEF buffer_read_adv, Consume
<1>3. ASSUME NEW c \in Byte, buffer_write(c)
      PROVE  Inv'
  <2>1. Len(<<c>>) = 1 /\ <<c>>[1] = c
    OBVIOUS
  <2>2. Stored(<<c>>) \in [1..Cap -> Byte]
    BY <2>1 DEF Stored
  <2> QED
    BY <1>3, <2>2 DEF buffer_write, buffer_can_write
<1>4. CASE buffer_read
  BY <1>4 DEF buffer_read, buffer_can_read, Consume
<1>5. CASE buffer_compact
  <2>1. Moved \in [1..Cap -> Byte]
    BY DEF Moved
  <2> QED
    BY <1>5, <2>1 DEF buffer_compact
<1>6. CASE buffer_reset
  BY <1>6 DEF buffer_reset
<1>7. CASE UNCHANGED vars
  BY <1>7 DEF vars
<1> QED
  BY <1>1, <1>2, <1>3, <1>4, <1>5, <1>6, <1>7 DEF Next

\* R <= W <= limit, as buffer.h states it, and the rewinding of a drained
\* buffer, in every reachable state.
THEOREM BufferInvariant == Spec => [](TypeOK /\ PointersOrdered)
<1>1. Init => Inv
  BY CapAssumption, ByteAssumption
     DEF Init, Inv, TypeOK, PointersOrdered
<1> QED
  BY <1>1, InvStep, PTL DEF Spec, Inv

------------------------------------------------------------------------------
\* The bytes between two offsets of the storage.
LEMMA Window ==
  ASSUME NEW f \in [1..Cap -> Byte], NEW m \in 0..Cap, NEW n \in m..Cap
  PROVE  /\ SubSeq(f, m + 1, n) \in Seq(Byte)
         /\ Len(SubSeq(f, m + 1, n)) = n - m
         /\ \A i \in 1..n - m : SubSeq(f, m + 1, n)[i] = f[m + i]
<1>1. \A i \in m + 1 .. n : f[i] \in Byte
  BY CapAssumption
<1>2. m + 1 \in Int /\ n \in Int
  BY CapAssumption
<1>3. /\ SubSeq(f, m + 1, n) \in Seq(Byte)
      /\ Len(SubSeq(f, m + 1, n)) = IF m + 1 <= n THEN n - (m + 1) + 1 ELSE 0
      /\ \A i \in 1..n - (m + 1) + 1 : SubSeq(f, m + 1, n)[i] = f[m + 1 + i - 1]
  BY <1>1, <1>2, SubSeqProperties
<1> QED
  BY <1>3, CapAssumption

\* Two windows of equal length whose bytes agree hold the same queue.
LEMMA SameWindow ==
  ASSUME NEW f \in [1..Cap -> Byte], NEW m \in 0..Cap, NEW n \in m..Cap,
         NEW g \in [1..Cap -> Byte], NEW j \in 0..Cap, NEW k \in j..Cap,
         n - m = k - j,
         \A i \in 1..n - m : f[m + i] = g[j + i]
  PROVE  SubSeq(f, m + 1, n) = SubSeq(g, j + 1, k)
<1> DEFINE s == SubSeq(f, m + 1, n)
           t == SubSeq(g, j + 1, k)
<1>1. s \in Seq(Byte) /\ Len(s) = n - m /\ \A i \in 1..n - m : s[i] = f[m + i]
  BY Window
<1>2. t \in Seq(Byte) /\ Len(t) = k - j /\ \A i \in 1..k - j : t[i] = g[j + i]
  BY Window
<1> HIDE DEF s, t
<1>3. s = t
  BY <1>1, <1>2, SeqEqual
<1> QED
  BY <1>3 DEF s, t

\* Extending a window by bytes that spell s appends s to the queue.
LEMMA ExtendedWindow ==
  ASSUME NEW f \in [1..Cap -> Byte], NEW r \in 0..Cap, NEW w \in r..Cap,
         NEW g \in [1..Cap -> Byte], NEW s \in Seq(Byte),
         w + Len(s) <= Cap,
         \A i \in 1..w : g[i] = f[i],
         \A i \in 1..Len(s) : g[w + i] = s[i]
  PROVE  SubSeq(g, r + 1, w + Len(s)) = SubSeq(f, r + 1, w) \o s
<1> DEFINE n == w + Len(s)
           new == SubSeq(g, r + 1, n)
           old == SubSeq(f, r + 1, w)
<1>1. n \in r..Cap /\ Len(s) \in Nat
  BY CapAssumption
<1>2. new \in Seq(Byte) /\ Len(new) = n - r /\ \A i \in 1..n - r : new[i] = g[r + i]
  <2> HIDE DEF n
  <2> QED
    BY <1>1, Window
<1>3. old \in Seq(Byte) /\ Len(old) = w - r /\ \A i \in 1..w - r : old[i] = f[r + i]
  BY Window
<1> HIDE DEF new, old
<1>4. old \o s \in Seq(Byte) /\ Len(old \o s) = n - r
  <2>1. old \o s \in Seq(Byte) /\ Len(old \o s) = Len(old) + Len(s)
    BY <1>3, ConcatProperties
  <2> QED
    BY <1>1, <1>3, <2>1
<1>5. ASSUME NEW i \in 1..n - r
      PROVE  new[i] = (old \o s)[i]
  <2>1. CASE i <= w - r
    <3>1. (old \o s)[i] = f[r + i]
      BY <1>3, <2>1
    <3> QED
      BY <1>1, <1>2, <2>1, <3>1, CapAssumption
  <2>2. CASE ~(i <= w - r)
    <3>1. (old \o s)[i] = s[i - (w - r)]
      BY <1>1, <1>3, <2>2
    <3>2. i - (w - r) \in 1..Len(s) /\ w + (i - (w - r)) = r + i
      BY <1>1, <2>2, CapAssumption
    <3>3. g[w + (i - (w - r))] = s[i - (w - r)]
      BY <3>2
    <3> QED
      BY <1>2, <3>1, <3>2, <3>3
  <2> QED
    BY <2>1, <2>2
<1>6. new = old \o s
  BY <1>2, <1>4, <1>5, SeqEqual
<1> QED
  BY <1>6 DEF new, old

\* Dropping n bytes of a window leaves the window that starts n further.
LEMMA ShortenedWindow ==
  ASSUME NEW f \in [1..Cap -> Byte], NEW r \in 0..Cap, NEW w \in r..Cap,
         NEW n \in 0..w - r
  PROVE  SubSeq(SubSeq(f, r + 1, w), n + 1, w - r) = SubSeq(f, r + n + 1, w)
<1> DEFINE s == SubSeq(f, r + 1, w)
           t == SubSeq(s, n + 1, w - r)
           u == SubSeq(f, r + n + 1, w)
<1>1. s \in Seq(Byte) /\ Len(s) = w - r /\ \A i \in 1..w - r : s[i] = f[r + i]
  BY Window
<1>2. u \in Seq(Byte) /\ Len(u) = w - (r + n)
      /\ \A i \in 1..w - (r + n) : u[i] = f[r + n + i]
  <2>1. r + n \in 0..Cap /\ w \in r + n .. Cap
    BY CapAssumption
  <2> QED
    BY <2>1, Window
<1> HIDE DEF s, u
<1>3. t \in Seq(Byte) /\ Len(t) = w - r - n
      /\ \A i \in 1..w - r - n : t[i] = s[n + i]
  BY <1>1
<1> HIDE DEF t
<1>4. t = u
  BY <1>1, <1>2, <1>3, SeqEqual
<1> QED
  BY <1>4 DEF s, t, u

------------------------------------------------------------------------------
\* Moving the read pointer by n, with the rewinding, advances the queue by n.
LEMMA ConsumeAdvances ==
  ASSUME Inv, NEW n \in 0..write - read, Consume(n), data' = data
  PROVE  Contents' = Queued!Advance(Contents, n)
<1> USE CapAssumption
<1> DEFINE s0 == SubSeq(data, read + 1, write)
<1>t. data \in [1..Cap -> Byte] /\ read \in 0..Cap /\ write \in read..Cap
  BY DEF Inv, TypeOK, PointersOrdered
<1>c. s0 \in Seq(Byte) /\ Len(s0) = write - read
  BY <1>t, Window
<1>b. Contents.q = s0 /\ Contents.start = read
  BY DEF Contents
<1>b2. Contents' = [q |-> SubSeq(data', read' + 1, write'), start |-> read']
  BY DEF Contents
<1> HIDE DEF s0
<1>1. CASE n = write - read
  <2>1. read' = 0 /\ write' = 0
    BY <1>1, <1>t DEF Consume
  <2>2. SubSeq(data', 0 + 1, 0) = <<>>
    BY SubSeqEmpty
  <2>3. Contents' = [q |-> <<>>, start |-> 0]
    BY <1>b2, <2>1, <2>2
  <2> QED
    BY <1>1, <1>b, <1>c, <2>3 DEF Queued!Advance, Queued!EmptyQueue
<1>2. CASE n # write - read
  <2>1. read' = read + n /\ write' = write
    BY <1>2, <1>t DEF Consume
  <2>2. SubSeq(s0, n + 1, write - read) = SubSeq(data, read + n + 1, write)
    BY <1>t, ShortenedWindow DEF s0
  <2>3. Contents' = [q |-> SubSeq(s0, n + 1, Len(s0)), start |-> read + n]
    BY <1>b2, <1>c, <2>1, <2>2
  <2> QED
    BY <1>2, <1>b, <1>c, <2>3 DEF Queued!Advance
<1> QED
  BY <1>1, <1>2

\* Filling the offered region and advancing the write pointer appends to the queue.
LEMMA FillAppends ==
  ASSUME Inv, NEW s \in Seq(Byte), buffer_write_adv(s)
  PROVE  Queued!Fill(s)
<1> USE CapAssumption
<1> DEFINE s0 == SubSeq(data, read + 1, write)
<1>t. data \in [1..Cap -> Byte] /\ read \in 0..Cap /\ write \in read..Cap
  BY DEF Inv, TypeOK, PointersOrdered
<1>c. s0 \in Seq(Byte) /\ Len(s0) = write - read
  BY <1>t, Window
<1>b. Contents = [q |-> s0, start |-> read]
  BY DEF Contents
<1> HIDE DEF s0
<1>1. Len(s) \in Nat /\ write + Len(s) <= Cap
  BY <1>t DEF buffer_write_adv
<1>2. Stored(s) \in [1..Cap -> Byte]
  BY <1>t DEF Stored
<1>3. \A i \in 1..write : Stored(s)[i] = data[i]
  BY <1>t, <1>1 DEF Stored
<1>4. \A i \in 1..Len(s) : Stored(s)[write + i] = s[i]
  BY <1>t, <1>1 DEF Stored
<1>5. SubSeq(Stored(s), read + 1, write + Len(s)) = s0 \o s
  BY <1>t, <1>1, <1>2, <1>3, <1>4, ExtendedWindow, ZenonT(30) DEF s0
<1>6. Contents' = [q |-> s0 \o s, start |-> read]
  BY <1>5 DEF buffer_write_adv, Contents
<1>7. Len(s) <= Queued!Room(Contents)
  BY <1>t, <1>b, <1>c, <1>1 DEF Queued!Room
<1>8. Queued!Put(Contents, s) = [q |-> s0 \o s, start |-> read]
  BY <1>b DEF Queued!Put
<1> QED
  BY <1>6, <1>7, <1>8 DEF buffer_write_adv, Queued!Fill

\* One operation on the pointers is one operation on the queue.
LEMMA QueueStep == Inv /\ Next => [Queued!Next]_(Queued!vars)
<1> SUFFICES ASSUME Inv, Next PROVE Queued!Next \/ UNCHANGED Queued!vars
  OBVIOUS
<1> USE CapAssumption
<1> DEFINE s0 == SubSeq(data, read + 1, write)
<1>t. /\ data \in [1..Cap -> Byte] /\ read \in 0..Cap /\ write \in read..Cap
      /\ read = write => read = 0 /\ write = 0
  BY DEF Inv, TypeOK, PointersOrdered
<1>c. s0 \in Seq(Byte) /\ Len(s0) = write - read
      /\ \A i \in 1..write - read : s0[i] = data[read + i]
  BY <1>t, Window
<1>b. Contents = [q |-> s0, start |-> read]
  BY DEF Contents
<1>b2. Contents' = [q |-> SubSeq(data, read + 1, write)', start |-> read']
  BY DEF Contents
<1> HIDE DEF s0
<1>1. ASSUME NEW n \in 0..Cap, NEW s \in [1..n -> Byte], buffer_write_adv(s)
      PROVE  Queued!Fill(s)
  <2>1. s \in Seq(Byte)
    OBVIOUS
  <2> QED
    BY <1>1, <2>1, FillAppends
<1>2. ASSUME NEW n \in 0..Cap, buffer_read_adv(n)
      PROVE  Queued!ReadAdv(n)
  <2>1. CASE read + n <= write
    <3>1. n \in 0..write - read /\ Consume(n) /\ data' = data
      BY <1>2, <1>t, <2>1 DEF buffer_read_adv
    <3>2. Contents' = Queued!Advance(Contents, n)
      BY <3>1, ConsumeAdvances
    <3>3. n <= Len(Contents.q)
      BY <1>b, <1>c, <3>1
    <3> QED
      BY <1>2, <2>1, <3>2, <3>3 DEF buffer_read_adv, Queued!ReadAdv
  <2>2. CASE ~(read + n <= write)
    <3>1. ~(n <= Len(Contents.q))
      BY <1>t, <1>b, <1>c, <2>2
    <3>2. Contents' = Contents
      BY <1>2, <2>2 DEF buffer_read_adv, Contents
    <3> QED
      BY <1>2, <2>2, <3>1, <3>2 DEF buffer_read_adv, Queued!ReadAdv
  <2> QED
    BY <2>1, <2>2
<1>3. ASSUME NEW c \in Byte, buffer_write(c)
      PROVE  Queued!WriteByte(c)
  <2>1. CASE buffer_can_write
    <3>1. <<c>> \in Seq(Byte) /\ Len(<<c>>) = 1 /\ <<c>>[1] = c
      OBVIOUS
    <3>2. Stored(<<c>>) \in [1..Cap -> Byte]
      BY <1>t, <3>1 DEF Stored
    <3>3. write + 1 <= Cap
      BY <1>t, <2>1 DEF buffer_can_write
    <3>4. \A i \in 1..write : Stored(<<c>>)[i] = data[i]
      BY <1>t, <3>1 DEF Stored
    <3>5. \A i \in 1..1 : Stored(<<c>>)[write + i] = <<c>>[i]
      BY <1>t, <3>1, <3>3 DEF Stored
    <3>6. SubSeq(Stored(<<c>>), read + 1, write + 1) = s0 \o <<c>>
      BY <1>t, <3>1, <3>2, <3>3, <3>4, <3>5, ExtendedWindow DEF s0
    <3>7. Contents' = [q |-> s0 \o <<c>>, start |-> read]
      BY <1>3, <1>b2, <2>1, <3>6 DEF buffer_write
    <3>8. Queued!CanWrite(Contents)
      BY <1>t, <1>b, <1>c, <3>3 DEF Queued!CanWrite, Queued!Room
    <3> QED
      BY <1>3, <1>b, <3>7, <3>8 DEF buffer_write, Queued!WriteByte, Queued!Put
  <2>2. CASE ~buffer_can_write
    <3>1. ~Queued!CanWrite(Contents)
      BY <1>t, <1>b, <1>c, <2>2 DEF buffer_can_write, Queued!CanWrite, Queued!Room
    <3>2. Contents' = Contents
      BY <1>3, <2>2 DEF buffer_write, Contents
    <3> QED
      BY <1>3, <3>1, <3>2 DEF buffer_write, Queued!WriteByte
  <2> QED
    BY <2>1, <2>2
<1>4. ASSUME buffer_read
      PROVE  Queued!ReadByte
  <2>1. CASE buffer_can_read
    <3>1. 1 \in 0..write - read /\ Consume(1) /\ data' = data
      BY <1>4, <1>t, <2>1 DEF buffer_read, buffer_can_read
    <3>2. Contents' = Queued!Advance(Contents, 1)
      BY <3>1, ConsumeAdvances
    <3>3. Queued!CanRead(Contents) /\ Head(Contents.q) = data[read + 1]
      BY <1>b, <1>c, <3>1 DEF Queued!CanRead
    <3> QED
      BY <1>4, <2>1, <3>2, <3>3 DEF buffer_read, Queued!ReadByte
  <2>2. CASE ~buffer_can_read
    <3>1. ~Queued!CanRead(Contents)
      BY <1>t, <1>b, <1>c, <2>2 DEF buffer_can_read, Queued!CanRead
    <3>2. Contents' = Contents
      BY <1>4, <2>2 DEF buffer_read, Contents
    <3> QED
      BY <1>4, <2>2, <3>1, <3>2 DEF buffer_read, Queued!ReadByte
  <2> QED
    BY <2>1, <2>2
<1>5. ASSUME buffer_compact
      PROVE  Queued!Compact
  <2> DEFINE d == IF read = 0 \/ read = write THEN data ELSE Moved
  <2>1. d \in [1..Cap -> Byte]
    BY <1>t DEF Moved
  <2>2. \A i \in 1..write - read : d[0 + i] = data[read + i]
    BY <1>t DEF Moved
  <2>3. 0 \in 0..Cap /\ write - read \in 0..Cap /\ (write - read) - 0 = write - read
    BY <1>t
  <2>4. data' = d /\ read' = 0 /\ write' = write - read
    BY <1>5 DEF buffer_compact
  <2> HIDE DEF d
  <2>5. SubSeq(d, 0 + 1, write - read) = s0
    BY <1>t, <2>1, <2>2, <2>3, SameWindow DEF s0
  <2>6. Contents' = [q |-> s0, start |-> 0]
    BY <1>b2, <2>4, <2>5
  <2> QED
    BY <1>5, <1>b, <2>6 DEF buffer_compact, Queued!Compact
<1>6. ASSUME buffer_reset
      PROVE  Queued!Reset
  <2>1. read' = 0 /\ write' = 0
    BY <1>6 DEF buffer_reset
  <2>2. SubSeq(data', 0 + 1, 0) = <<>>
    BY SubSeqEmpty
  <2>3. Contents' = [q |-> <<>>, start |-> 0]
    BY <2>1, <2>2 DEF Contents
  <2> QED
    BY <1>6, <2>3 DEF buffer_reset, Queued!Reset, Queued!EmptyQueue
<1> QED
  BY <1>1, <1>2, <1>3, <1>4, <1>5, <1>6 DEF Next, Queued!Next

\* buffer.c implements the bounded byte queue its callers rely on.
THEOREM BufferRefinement == Spec => ImplementsQueue
<1>1. Init => Queued!Init
  <2> SUFFICES ASSUME Init PROVE Queued!Init
    OBVIOUS
  <2>1. SubSeq(data, 0 + 1, 0) = <<>>
    BY SubSeqEmpty
  <2> QED
    BY <2>1 DEF Init, Queued!Init, Contents, Queued!EmptyQueue
<1>2. Inv /\ [Next]_vars => [Queued!Next]_(Queued!vars)
  <2>1. UNCHANGED vars => UNCHANGED Queued!vars
    BY DEF vars, Queued!vars, Contents
  <2> QED
    BY <2>1, QueueStep
<1>3. Spec => []Inv
  BY BufferInvariant, PTL DEF Inv
<1> QED
  BY <1>1, <1>2, <1>3, PTL DEF Spec, ImplementsQueue, Queued!Spec
==============================================================================
