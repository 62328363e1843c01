----------------------------- MODULE CopyProofs ------------------------------
(***************************************************************************)
(* The relay keeps the streams intact and its interests exact, for every   *)
(* buffer capacity, every kernel window and any number of bytes.           *)
(***************************************************************************)
EXTENDS Copy, SequenceTheorems, TLAPS

\* The arrival with pipelined bytes: the client is not watched until the first
\* send to the origin, though its CopySt already says READ.
Parked ==
  /\ interests["client"] = {"READ"} /\ registered["client"] = {}
  /\ interests["origin"] = {"WRITE"} /\ registered["origin"] = {"WRITE"}
  /\ CanRead(buf["origin"]) /\ ~CanRead(buf["client"])

\* Outside that arrival the selector holds the interests of the CopySts, ...
FieldsRegistered == Parked \/ registered = interests

\* ... and they are the ones the buffers call for, less the closed directions.
InterestsExact ==
  Parked \/ \A s \in Side :
    /\ "READ" \in interests[s] => CanWrite(buf[Other(s)])
    /\ "WRITE" \in interests[s] => CanRead(buf[s])
    /\ state = "COPY" /\ CanRead(buf[s]) /\ s \notin wrShut => "WRITE" \in interests[s]
    /\ state = "COPY" /\ CanWrite(buf[Other(s)]) /\ s \notin rdShut => "READ" \in interests[s]

\* What select saw is still so when handle_iteration comes to it.
EventsFresh ==
  \A s \in Side : /\ <<s, "READ">> \in todo => Readable(s)
                  /\ <<s, "WRITE">> \in todo => Writable(s)

\* The inductive invariant.
RelayInv ==
  /\ TypeOK /\ StreamIntegrity /\ FieldsRegistered /\ InterestsExact
  /\ EventsFresh /\ ShutdownsJustified

------------------------------------------------------------------------------
(* Facts about the buffers.                                                *)

\* Putting at most Room(b) bytes into a buffer leaves a well-formed buffer.
LEMMA PutQueue ==
  ASSUME NEW b \in Queue(Nat), NEW s \in Seq(Nat), s # <<>>, Len(s) <= Room(b)
  PROVE  Put(b, s) \in Queue(Nat) /\ Put(b, s).q = b.q \o s
<1> USE CapAssumption DEF Queue, Put, Room
<1>1. /\ b.q \in Seq(Nat) /\ b.start \in 0..Cap
      /\ Len(s) \in Nat \ {0} /\ Len(b.q) \in Nat
  BY EmptySeq
<1>2. /\ b.q \o s \in Seq(Nat) /\ Len(b.q \o s) = Len(b.q) + Len(s)
  BY <1>1, ConcatProperties
<1>3. b.q \o s # <<>>
  BY <1>1, <1>2
<1> QED
  BY <1>1, <1>2, <1>3

\* Consuming n bytes of a buffer leaves a well-formed buffer with the rest.
LEMMA AdvanceQueue ==
  ASSUME NEW b \in Queue(Nat), NEW n \in 1..Len(b.q)
  PROVE  /\ Advance(b, n) \in Queue(Nat)
         /\ Advance(b, n).q = SubSeq(b.q, n + 1, Len(b.q))
<1> USE CapAssumption DEF Queue, Advance, EmptyQueue
<1>1. b.q \in Seq(Nat) /\ b.start \in 0..Cap /\ Len(b.q) \in Nat
  OBVIOUS
<1>2. CASE n = Len(b.q)
  <2>1. SubSeq(b.q, n + 1, Len(b.q)) = <<>>
    BY <1>1, <1>2, SubSeqEmpty
  <2> QED
    BY <1>2, <2>1
<1>3. CASE n # Len(b.q)
  <2>1. SubSeq(b.q, n + 1, Len(b.q)) \in Seq(Nat)
    BY <1>1
  <2>2. Len(SubSeq(b.q, n + 1, Len(b.q))) = Len(b.q) - n
    BY <1>1, <1>3
  <2>3. SubSeq(b.q, n + 1, Len(b.q)) # <<>>
    <3>1. Len(b.q) - n # 0
      BY <1>1, <1>3
    <3>2. Len(<<>>) = 0
      OBVIOUS
    <3> QED
      BY <2>2, <3>1, <3>2, Zenon
  <2> QED
    BY <1>1, <1>3, <2>1, <2>2, <2>3, SMTT(30)
<1> QED
  BY <1>2, <1>3

------------------------------------------------------------------------------
(* Facts about the streams: d was delivered, q is buffered, r is unread.   *)

\* Concatenation of streams is associative.
LEMMA Assoc ==
  \A a, b, c \in Seq(Nat) : (a \o b) \o c = a \o (b \o c)
BY ConcatAssociative, SMTT(30)

\* A sequence cut in two.
LEMMA CutInTwo ==
  ASSUME NEW s \in Seq(Nat), NEW n \in 0..Len(s)
  PROVE  /\ SubSeq(s, 1, n) \in Seq(Nat) /\ Len(SubSeq(s, 1, n)) = n
         /\ SubSeq(s, n + 1, Len(s)) \in Seq(Nat)
         /\ SubSeq(s, 1, n) \o SubSeq(s, n + 1, Len(s)) = s
<1>1. Len(s) \in Nat
  OBVIOUS
<1>2. SubSeq(s, 1, n) \in Seq(Nat) /\ Len(SubSeq(s, 1, n)) = n
      /\ SubSeq(s, n + 1, Len(s)) \in Seq(Nat)
  BY <1>1
<1>3. SubSeq(s, 1, n) \o SubSeq(s, n + 1, Len(s)) = SubSeq(s, 1, Len(s))
  <2>1. 1 \in 1..Len(s) + 1 /\ n \in 1 - 1 .. Len(s) /\ Len(s) \in n..Len(s)
    BY <1>1
  <2> QED
    BY <2>1, ConcatAdjacentSubSeq, Zenon
<1>4. SubSeq(s, 1, Len(s)) = s
  BY SubSeqFull
<1> QED
  BY <1>2, <1>3, <1>4

\* A recv moves the first bytes of r to the end of q.
LEMMA StreamReceived ==
  ASSUME NEW d \in Seq(Nat), NEW q \in Seq(Nat), NEW r \in Seq(Nat), NEW n \in 0..Len(r)
  PROVE  d \o ((q \o SubSeq(r, 1, n)) \o SubSeq(r, n + 1, Len(r))) = d \o (q \o r)
<1> DEFINE x == SubSeq(r, 1, n)
           y == SubSeq(r, n + 1, Len(r))
<1>1. x \in Seq(Nat) /\ y \in Seq(Nat) /\ x \o y = r
  BY CutInTwo
<1> HIDE DEF x, y
<1>2. (q \o x) \o y = q \o (x \o y)
  BY <1>1, Assoc, ZenonT(30)
<1> QED
  BY <1>1, <1>2 DEF x, y

\* A send moves the first bytes of q to the end of d.
LEMMA StreamSent ==
  ASSUME NEW d \in Seq(Nat), NEW q \in Seq(Nat), NEW r \in Seq(Nat), NEW n \in 0..Len(q)
  PROVE  (d \o SubSeq(q, 1, n)) \o (SubSeq(q, n + 1, Len(q)) \o r) = d \o (q \o r)
<1> DEFINE x == SubSeq(q, 1, n)
           y == SubSeq(q, n + 1, Len(q))
<1>0. x \o y = q
  BY CutInTwo
<1>1. x \in Seq(Nat) /\ y \in Seq(Nat)
  BY CutInTwo
<1> HIDE DEF x, y
<1>2. y \o r \in Seq(Nat)
  BY <1>1, ConcatProperties
<1>3. (d \o x) \o (y \o r) = d \o (x \o (y \o r))
  BY <1>1, <1>2, Assoc, ZenonT(30)
<1>4. x \o (y \o r) = (x \o y) \o r
  BY <1>1, Assoc, ZenonT(30)
<1> QED
  BY <1>0, <1>3, <1>4 DEF x, y

\* The peer's next byte extends the unread bytes and the stream.
LEMMA StreamGrows ==
  ASSUME NEW d \in Seq(Nat), NEW q \in Seq(Nat), NEW r \in Seq(Nat), NEW k \in Nat,
         d \o (q \o r) = Stream(k)
  PROVE  d \o (q \o Append(r, k + 1)) = Stream(k + 1)
<1>1. k + 1 \in Nat
  OBVIOUS
<1>2. Append(r, k + 1) = r \o <<k + 1>> /\ <<k + 1>> \in Seq(Nat)
  BY <1>1, AppendIsConcat
<1>3. q \o (r \o <<k + 1>>) = (q \o r) \o <<k + 1>>
  BY <1>2, Assoc, Zenon
<1>4. q \o r \in Seq(Nat)
  BY ConcatProperties
<1>5. d \o ((q \o r) \o <<k + 1>>) = (d \o (q \o r)) \o <<k + 1>>
  BY <1>2, <1>4, Assoc, ZenonT(30)
<1>6. Stream(k) \in Seq(Nat) /\ Len(Stream(k)) = k
  BY DEF Stream
<1>7. Stream(k + 1) \in Seq(Nat) /\ Len(Stream(k + 1)) = k + 1
  BY DEF Stream
<1>8. Stream(k) \o <<k + 1>> = Stream(k + 1)
  <2>1. Stream(k) \o <<k + 1>> \in Seq(Nat) /\ Len(Stream(k) \o <<k + 1>>) = k + 1
    BY <1>2, <1>6, ConcatProperties
  <2>2. \A i \in 1..k + 1 : (Stream(k) \o <<k + 1>>)[i] = Stream(k + 1)[i]
    BY <1>2, <1>6 DEF Stream
  <2> QED
    BY <1>7, <2>1, <2>2, SeqEqual
<1> QED
  BY <1>2, <1>3, <1>5, <1>8

------------------------------------------------------------------------------
(* The steps.                                                              *)

\* The arrival establishes the invariant.
LEMMA InitInv == Init => RelayInv
<1> SUFFICES ASSUME Init PROVE RelayInv
  OBVIOUS
<1> USE CapAssumption, TxCapAssumption, MaxBytesAssumption
<1> DEFINE Arrived(k, off) ==
        /\ k = 0 => off = 0
        /\ buf = [s \in Side |-> IF s = "origin" THEN [q |-> Stream(k), start |-> off]
                                 ELSE EmptyQueue]
        /\ sent = [s \in Side |-> IF s = "client" THEN k ELSE 0]
        /\ interests = ArrivalInterests(k)
        /\ registered = [ArrivalInterests(k) EXCEPT !["client"] = IF k > 0 THEN {} ELSE @]
<1>0. PICK k \in 0..Least(Cap, MaxBytes) : \E off \in 0..Cap - k : Arrived(k, off)
  BY DEF Init
<1>1. PICK off \in 0..Cap - k : Arrived(k, off)
  BY <1>0
<1>2. k \in Nat /\ k <= Cap /\ k <= MaxBytes
  BY DEF Least
<1>3. Stream(k) \in Seq(Nat) /\ Len(Stream(k)) = k
  BY <1>2 DEF Stream
<1>4. k # 0 => Stream(k) # <<>>
  BY <1>3
<1>5. k = 0 => Stream(k) = <<>>
  BY <1>3, EmptySeq
<1>6. [q |-> Stream(k), start |-> off] \in Queue(Nat)
  BY <1>1, <1>2, <1>3, <1>4, <1>5 DEF Queue
<1>7. EmptyQueue \in Queue(Nat)
  BY DEF Queue, EmptyQueue
<1>8. /\ buf \in [Side -> Queue(Nat)]
      /\ buf["origin"] = [q |-> Stream(k), start |-> off] /\ buf["client"] = EmptyQueue
      /\ sent["client"] = k /\ sent["origin"] = 0
      /\ sent \in [Side -> 0..MaxBytes]
  BY <1>1, <1>2, <1>6, <1>7 DEF Side
<1>9. /\ interests \in [Side -> SUBSET Op] /\ registered \in [Side -> SUBSET Op]
      /\ interests["client"] = {"READ"}
      /\ interests["origin"] = IF k > 0 THEN {"WRITE"} ELSE {"READ"}
      /\ registered["client"] = IF k > 0 THEN {} ELSE {"READ"}
      /\ registered["origin"] = interests["origin"]
  BY <1>1 DEF ArrivalInterests, Side, Op
<1>10. TypeOK
  BY <1>8, <1>9 DEF Init, TypeOK
<1>11. StreamIntegrity
  <2>1. rx["client"] = <<>> /\ rx["origin"] = <<>>
        /\ delivered["client"] = <<>> /\ delivered["origin"] = <<>>
    BY DEF Init, Side
  <2>2. <<>> \o (Stream(k) \o <<>>) = Stream(k)
    BY <1>3, ConcatEmptySeq
  <2>3. Stream(0) = <<>>
    BY DEF Stream
  <2>4. <<>> \o (<<>> \o <<>>) = <<>>
    OBVIOUS
  <2>5. delivered["client"] \o (buf["client"].q \o rx["origin"]) = Stream(sent["origin"])
    BY <1>8, <2>1, <2>3, <2>4 DEF EmptyQueue
  <2>6. delivered["origin"] \o (buf["origin"].q \o rx["client"]) = Stream(sent["client"])
    BY <1>8, <2>1, <2>2
  <2> QED
    BY <2>5, <2>6 DEF StreamIntegrity, Side, Other
<1>12. CanRead(buf["origin"]) <=> k > 0
  BY <1>2, <1>3, <1>8 DEF CanRead
<1>13. FieldsRegistered /\ InterestsExact
  <2>1. CASE k > 0
    <3>1. ~CanRead(buf["client"])
      BY <1>8 DEF CanRead, EmptyQueue
    <3> QED
      BY <1>9, <1>12, <2>1, <3>1 DEF FieldsRegistered, InterestsExact, Parked
  <2>2. CASE k = 0
    <3>1. registered = interests
      BY <1>9, <2>2 DEF Side
    <3>2. buf["origin"] = EmptyQueue
      BY <1>1, <1>5, <1>8, <2>2 DEF EmptyQueue
    <3>3. CanWrite(EmptyQueue) /\ ~CanRead(EmptyQueue)
      BY DEF CanWrite, CanRead, Room, EmptyQueue
    <3>4. rdShut = {} /\ wrShut = {}
      BY DEF Init
    <3> QED
      BY <1>8, <1>9, <2>2, <3>1, <3>2, <3>3, <3>4
         DEF FieldsRegistered, InterestsExact, Side, Other
  <2> QED
    BY <1>2, <2>1, <2>2
<1>14. EventsFresh /\ ShutdownsJustified
  BY DEF Init, EventsFresh, ShutdownsJustified
<1> QED
  BY <1>10, <1>11, <1>13, <1>14 DEF RelayInv

\* What a peer does changes only its stream, its window or its fate.
LEMMA PeerStep ==
  ASSUME RelayInv, Peer
  PROVE  RelayInv'
<1> USE CapAssumption, TxCapAssumption, MaxBytesAssumption
<1>k. UNCHANGED <<buf, interests, registered, state, metrics, lower, todo, delivered, rdShut, wrShut>>
  BY DEF Peer, PeerSend, PeerRead, PeerClose, PeerReset, proxyVars, shutVars, peerVars
<1>1. FieldsRegistered' /\ InterestsExact'
  BY <1>k DEF RelayInv, FieldsRegistered, InterestsExact, Parked
<1>2. ASSUME NEW s \in Side, PeerSend(s)
      PROVE  TypeOK' /\ StreamIntegrity' /\ EventsFresh' /\ ShutdownsJustified'
  <2>1. UNCHANGED <<fin, rst, inflight>>
    BY <1>2 DEF PeerSend
  <2>2. /\ sent[s] \in Nat /\ sent[s] + 1 \in 0..MaxBytes
        /\ rx[s] \in Seq(Nat)
    BY <1>2 DEF RelayInv, TypeOK, PeerSend
  <2>3. Append(rx[s], sent[s] + 1) \in Seq(Nat) /\ Append(rx[s], sent[s] + 1) # <<>>
    BY <2>2, AppendProperties, SMTT(30)
  <2>4. TypeOK'
    BY <1>2, <1>k, <2>1, <2>2, <2>3 DEF RelayInv, TypeOK, PeerSend
  <2>5. StreamIntegrity'
    <3> SUFFICES ASSUME NEW t \in Side
                 PROVE  delivered[t] \o (buf[t].q \o rx'[Other(t)]) = Stream(sent'[Other(t)])
      BY <1>k DEF StreamIntegrity
    <3>1. delivered[t] \o (buf[t].q \o rx[Other(t)]) = Stream(sent[Other(t)])
      BY DEF RelayInv, StreamIntegrity
    <3>2. /\ delivered[t] \in Seq(Nat) /\ buf[t].q \in Seq(Nat)
          /\ rx[Other(t)] \in Seq(Nat) /\ Other(t) \in Side
      BY DEF RelayInv, TypeOK, Queue, Other, Side
    <3>3. CASE Other(t) = s
      <4>1. rx'[Other(t)] = Append(rx[Other(t)], sent[Other(t)] + 1)
            /\ sent'[Other(t)] = sent[Other(t)] + 1
        BY <1>2, <3>3 DEF PeerSend, RelayInv, TypeOK
      <4>2. sent[Other(t)] \in Nat
        BY <2>2, <3>3
      <4>3. delivered[t] \o (buf[t].q \o Append(rx[Other(t)], sent[Other(t)] + 1))
              = Stream(sent[Other(t)] + 1)
        BY <3>1, <3>2, <4>2, StreamGrows, ZenonT(60)
      <4> QED
        BY <4>1, <4>3, Zenon
    <3>4. CASE Other(t) # s
      <4>1. rx'[Other(t)] = rx[Other(t)] /\ sent'[Other(t)] = sent[Other(t)]
        BY <1>2, <3>2, <3>4 DEF PeerSend, RelayInv, TypeOK
      <4> QED
        BY <3>1, <4>1
    <3> QED
      BY <3>3, <3>4
  <2>6. EventsFresh'
    BY <1>2, <1>k, <2>1, <2>3
       DEF RelayInv, TypeOK, EventsFresh, Readable, Writable, PeerSend
  <2>7. ShutdownsJustified'
    BY <1>k, <2>1 DEF RelayInv, ShutdownsJustified
  <2> QED
    BY <2>4, <2>5, <2>6, <2>7
<1>3. ASSUME NEW s \in Side, PeerRead(s)
      PROVE  TypeOK' /\ StreamIntegrity' /\ EventsFresh' /\ ShutdownsJustified'
  <2>1. UNCHANGED <<sent, fin, rst, rx>>
    BY <1>3 DEF PeerRead, peerVars
  <2>2. TypeOK'
    BY <1>3, <1>k, <2>1, SMTT(30) DEF RelayInv, TypeOK, PeerRead
  <2>3. StreamIntegrity' /\ ShutdownsJustified'
    BY <1>k, <2>1 DEF RelayInv, StreamIntegrity, ShutdownsJustified
  <2>4. \A t \in Side : inflight[t] < TxCap => inflight'[t] < TxCap
    BY <1>3 DEF RelayInv, TypeOK, PeerRead
  <2>5. EventsFresh'
    BY <1>k, <2>1, <2>4 DEF RelayInv, EventsFresh, Readable, Writable
  <2> QED
    BY <2>2, <2>3, <2>5
<1>4. ASSUME NEW s \in Side, PeerClose(s) \/ PeerReset(s)
      PROVE  TypeOK' /\ StreamIntegrity' /\ EventsFresh' /\ ShutdownsJustified'
  <2>1. /\ UNCHANGED <<sent, rx, inflight>>
        /\ fin \subseteq fin' /\ rst \subseteq rst'
        /\ fin' \subseteq fin \cup {s} /\ rst' \subseteq rst \cup {s}
    BY <1>4 DEF PeerClose, PeerReset
  <2>2. TypeOK'
    BY <1>k, <2>1 DEF RelayInv, TypeOK
  <2>3. StreamIntegrity'
    BY <1>k, <2>1 DEF RelayInv, StreamIntegrity
  <2>4. EventsFresh'
    BY <1>k, <2>1 DEF RelayInv, EventsFresh, Readable, Writable
  <2>5. ShutdownsJustified'
    BY <1>k, <2>1 DEF RelayInv, ShutdownsJustified
  <2> QED
    BY <2>2, <2>3, <2>4, <2>5
<1> QED
  BY <1>1, <1>2, <1>3, <1>4 DEF Peer, RelayInv

\* The selector's own steps only fill or empty the set of pending events.
LEMMA SelectorStep ==
  ASSUME RelayInv, Select \/ \E s \in Side, op \in Op : Skip(s, op)
  PROVE  RelayInv'
<1>1. UNCHANGED <<buf, interests, registered, state, metrics, lower, sent, fin, rst,
                  rx, inflight, delivered, rdShut, wrShut>>
  BY DEF Select, Skip, proxyVars, peerVars, shutVars
<1>2. todo' \subseteq Side \X Op
  BY DEF Select, Skip, RelayInv, TypeOK
<1>3. TypeOK'
  BY <1>1, <1>2 DEF RelayInv, TypeOK
<1>4. StreamIntegrity' /\ ShutdownsJustified' /\ FieldsRegistered' /\ InterestsExact'
  BY <1>1 DEF RelayInv, StreamIntegrity, ShutdownsJustified, FieldsRegistered,
              InterestsExact, Parked
<1>5. EventsFresh'
  <2>1. CASE Select
    BY <1>1, <2>1 DEF Select, IsReady, EventsFresh, Readable, Writable
  <2>2. CASE \E s \in Side, op \in Op : Skip(s, op)
    <3>1. todo' \subseteq todo
      BY <2>2 DEF Skip
    <3> QED
      BY <1>1, <3>1 DEF RelayInv, EventsFresh, Readable, Writable
  <2> QED
    BY <2>1, <2>2
<1> QED
  BY <1>3, <1>4, <1>5 DEF RelayInv

\* The interests after a handler that moved bytes are exact by construction,
\* given that the buffers are well formed.
LEMMA WantedExact ==
  ASSUME Continue(Wanted(buf'))
  PROVE  /\ interests' \in [Side -> SUBSET Op] /\ registered' \in [Side -> SUBSET Op]
         /\ state' \in {"COPY", "DONE"}
         /\ FieldsRegistered' /\ InterestsExact'
<1>1. Wanted(buf') \in [Side -> SUBSET Op]
  BY DEF Wanted, Op
<1>2. interests' = Wanted(buf') /\ registered' = Wanted(buf')
  BY DEF Continue
<1>3. \A s \in Side : Wanted(buf')[s] = (IF CanWrite(buf'[Other(s)]) THEN {"READ"} ELSE {})
                                        \cup (IF CanRead(buf'[s]) THEN {"WRITE"} ELSE {})
  BY DEF Wanted
<1>4. InterestsExact'
  BY <1>2, <1>3 DEF InterestsExact
<1> QED
  BY <1>1, <1>2, <1>4 DEF Continue, FieldsRegistered

\* The end of one direction, decided by a peer of that direction.
LEMMA EndDirectionStep ==
  ASSUME RelayInv, NEW from \in Side, EndDirection(from, Other(from)),
         state = "COPY", Parked => from = "client",
         todo' \subseteq todo,
         UNCHANGED <<buf, metrics, lower, sent, fin, rst, rx, inflight, delivered>>,
         from \in fin \cup rst \/ Other(from) \in rst
  PROVE  RelayInv'
<1> DEFINE to == Other(from)
           w == [interests EXCEPT ![from] = @ \ {"READ"}, ![to] = @ \ {"WRITE"}]
<1>1. to \in Side /\ to # from /\ Other(to) = from
      /\ \A s \in Side : s = from \/ s = to
  BY DEF Side, Other
<1>2. interests \in [Side -> SUBSET Op]
  BY DEF RelayInv, TypeOK
<1>3. /\ w \in [Side -> SUBSET Op]
      /\ w[from] = interests[from] \ {"READ"} /\ w[to] = interests[to] \ {"WRITE"}
  BY <1>1, <1>2 DEF Op
<1>4. /\ interests' = w /\ registered' = w /\ state' \in {"COPY", "DONE"}
      /\ rdShut' = rdShut \cup {from} /\ wrShut' = wrShut \cup {to}
  BY DEF EndDirection, Continue
<1> HIDE DEF w
<1>5. TypeOK'
  BY <1>1, <1>3, <1>4 DEF RelayInv, TypeOK
<1>6. StreamIntegrity'
  BY DEF RelayInv, StreamIntegrity
<1>7. FieldsRegistered'
  BY <1>4 DEF FieldsRegistered
<1>8. InterestsExact'
  <2>1. CASE Parked
    <3>1. interests'["client"] = {} /\ interests'["origin"] = {}
      BY <1>3, <1>4, <2>1 DEF Parked, Other
    <3>2. state' = "DONE"
      BY <1>3, <1>4, <3>1 DEF EndDirection, Continue, Side
    <3> QED
      BY <3>1, <3>2 DEF InterestsExact, Side
  <2>2. CASE ~Parked
    <3>1. \A s \in Side :
            /\ "READ" \in interests[s] => CanWrite(buf[Other(s)])
            /\ "WRITE" \in interests[s] => CanRead(buf[s])
            /\ CanRead(buf[s]) /\ s \notin wrShut => "WRITE" \in interests[s]
            /\ CanWrite(buf[Other(s)]) /\ s \notin rdShut => "READ" \in interests[s]
      BY <2>2 DEF RelayInv, InterestsExact
    <3> QED
      BY <1>1, <1>3, <1>4, <3>1 DEF InterestsExact
  <2> QED
    BY <2>1, <2>2
<1>9. EventsFresh'
  BY <1>4 DEF RelayInv, EventsFresh, Readable, Writable
<1>10. ShutdownsJustified'
  BY <1>1, <1>4 DEF RelayInv, ShutdownsJustified
<1> QED
  BY <1>5, <1>6, <1>7, <1>8, <1>9, <1>10 DEF RelayInv

\* socksv5_copy_read: bytes move from the socket of s to the other's buffer, or
\* the direction ends because there will be no more.
LEMMA ReadStep ==
  ASSUME RelayInv, NEW s \in Side, copy_read(s)
  PROVE  RelayInv'
<1> USE CapAssumption, TxCapAssumption
<1> DEFINE to == Other(s)
           n == Least(Room(buf[to]), Len(rx[s]))
<1>1. to \in Side /\ to # s /\ Other(to) = s /\ \A t \in Side : t = s \/ t = to
  BY DEF Side, Other
<1>2. /\ state = "COPY" /\ "READ" \in registered[s]
      /\ <<s, "READ">> \in todo /\ todo' = todo \ {<<s, "READ">>}
      /\ UNCHANGED <<lower, sent, fin, rst>>
  BY DEF copy_read, Dispatch, IsNext, peerVars
<1>3. ~Parked
  BY <1>2 DEF Parked, Side
<1>4. CanWrite(buf[to])
  BY <1>2, <1>3 DEF RelayInv, FieldsRegistered, InterestsExact
<1>5. Readable(s)
  BY <1>2 DEF RelayInv, EventsFresh
<1>t. /\ buf \in [Side -> Queue(Nat)] /\ rx \in [Side -> Seq(Nat)]
      /\ delivered \in [Side -> Seq(Nat)]
      /\ metrics \in [totalBytesReceived : Nat, totalBytesSent : Nat]
  BY DEF RelayInv, TypeOK
<1>6. CASE rx[s] # <<>>
  <2>1. /\ buf' = [buf EXCEPT ![to] = Put(@, SubSeq(rx[s], 1, n))]
        /\ rx' = [rx EXCEPT ![s] = SubSeq(@, n + 1, Len(@))]
        /\ metrics' = CountBytes(metrics, 0, n)
        /\ Continue(Wanted(buf'))
        /\ UNCHANGED <<inflight, delivered, rdShut, wrShut>>
    BY <1>4, <1>6 DEF copy_read, shutVars
  <2>2. Len(rx[s]) \in Nat \ {0} /\ Room(buf[to]) \in Nat \ {0}
    <3>1. Len(rx[s]) \in Nat \ {0}
      BY <1>t, <1>6, EmptySeq
    <3>2. Room(buf[to]) \in Int
      BY <1>1, <1>t DEF Room, Queue
    <3> QED
      BY <1>4, <3>1, <3>2 DEF CanWrite
  <2>3. n \in 1..Len(rx[s]) /\ n <= Room(buf[to])
    BY <2>2 DEF Least
  <2> HIDE DEF n
  <2>4. /\ SubSeq(rx[s], 1, n) \in Seq(Nat) /\ Len(SubSeq(rx[s], 1, n)) = n
        /\ SubSeq(rx[s], n + 1, Len(rx[s])) \in Seq(Nat)
    BY <1>t, <2>3, CutInTwo, SMTT(30)
  <2>5. SubSeq(rx[s], 1, n) # <<>>
    BY <2>3, <2>4
  <2>6. /\ Put(buf[to], SubSeq(rx[s], 1, n)) \in Queue(Nat)
        /\ Put(buf[to], SubSeq(rx[s], 1, n)).q = buf[to].q \o SubSeq(rx[s], 1, n)
    BY <1>1, <1>t, <2>3, <2>4, <2>5, PutQueue
  <2>7. /\ buf' \in [Side -> Queue(Nat)] /\ rx' \in [Side -> Seq(Nat)]
        /\ buf'[to].q = buf[to].q \o SubSeq(rx[s], 1, n) /\ buf'[s] = buf[s]
        /\ rx'[s] = SubSeq(rx[s], n + 1, Len(rx[s])) /\ rx'[to] = rx[to]
    BY <1>1, <1>t, <2>1, <2>4, <2>6
  <2>8. metrics' \in [totalBytesReceived : Nat, totalBytesSent : Nat]
    BY <1>t, <2>1, <2>2, <2>3 DEF CountBytes
  <2>9. TypeOK'
    BY <1>2, <2>1, <2>7, <2>8, WantedExact DEF RelayInv, TypeOK
  <2>10. StreamIntegrity'
    <3>0. buf[to].q \in Seq(Nat)
      BY <1>1, <1>t DEF Queue
    <3>a. delivered[to] \in Seq(Nat) /\ rx[s] \in Seq(Nat) /\ n \in 0..Len(rx[s])
      BY <1>1, <1>t, <2>2, <2>3
    <3>b. delivered[to] \o ((buf[to].q \o SubSeq(rx[s], 1, n))
                             \o SubSeq(rx[s], n + 1, Len(rx[s])))
            = delivered[to] \o (buf[to].q \o rx[s])
      BY <3>0, <3>a, StreamReceived, ZenonT(30)
    <3>1. delivered[to] \o (buf'[to].q \o rx'[s]) = delivered[to] \o (buf[to].q \o rx[s])
      BY <2>7, <3>b, Zenon
    <3>2. delivered[to] \o (buf[to].q \o rx[s]) = Stream(sent[s])
      BY <1>1 DEF RelayInv, StreamIntegrity
    <3>3. delivered[s] \o (buf[s].q \o rx[to]) = Stream(sent[to])
      BY <1>1 DEF RelayInv, StreamIntegrity
    <3> QED
      BY <1>1, <1>2, <2>1, <2>7, <3>1, <3>2, <3>3 DEF StreamIntegrity
  <2>11. EventsFresh'
    BY <1>1, <1>2, <2>1, <2>7 DEF RelayInv, EventsFresh, Readable, Writable
  <2>12. ShutdownsJustified'
    BY <1>2, <2>1 DEF RelayInv, ShutdownsJustified
  <2> QED
    BY <2>1, <2>9, <2>10, <2>11, <2>12, WantedExact DEF RelayInv
<1>7. CASE rx[s] = <<>>
  <2>1. EndDirection(s, Other(s)) /\ UNCHANGED <<buf, metrics, rx, inflight, delivered>>
    BY <1>4, <1>7 DEF copy_read
  <2>2. s \in fin \cup rst \/ Other(s) \in rst
    BY <1>5, <1>7 DEF Readable, RelayInv, ShutdownsJustified
  <2> QED
    BY <1>2, <1>3, <2>1, <2>2, EndDirectionStep
<1> QED
  BY <1>6, <1>7

\* socksv5_copy_write: bytes move from the buffer of s to its socket, or the
\* direction ends because its peer has reset, or the process is killed.
LEMMA WriteStep ==
  ASSUME RelayInv, NEW s \in Side, copy_write(s)
  PROVE  RelayInv'
<1> USE CapAssumption, TxCapAssumption
<1> DEFINE o == Other(s)
           n == Least(Len(buf[s].q), TxCap - inflight[s])
<1>1. o \in Side /\ o # s /\ Other(o) = s /\ \A t \in Side : t = s \/ t = o
  BY DEF Side, Other
<1>2. /\ state = "COPY" /\ "WRITE" \in registered[s]
      /\ <<s, "WRITE">> \in todo /\ todo' = todo \ {<<s, "WRITE">>}
      /\ UNCHANGED <<lower, sent, fin, rst>>
  BY DEF copy_write, Dispatch, IsNext, peerVars
<1>3. CanRead(buf[s])
  BY <1>1, <1>2 DEF RelayInv, FieldsRegistered, InterestsExact, Parked, Side
<1>4. Writable(s)
  BY <1>2 DEF RelayInv, EventsFresh
<1>t. /\ buf \in [Side -> Queue(Nat)] /\ rx \in [Side -> Seq(Nat)]
      /\ delivered \in [Side -> Seq(Nat)] /\ inflight \in [Side -> 0..TxCap]
      /\ metrics \in [totalBytesReceived : Nat, totalBytesSent : Nat]
  BY DEF RelayInv, TypeOK
<1>5. CASE Accepted(s)
  <2>1. /\ inflight[s] < TxCap
        /\ delivered' = [delivered EXCEPT ![s] = @ \o SubSeq(buf[s].q, 1, n)]
        /\ inflight' = [inflight EXCEPT ![s] = @ + n]
        /\ buf' = [buf EXCEPT ![s] = Advance(@, n)]
        /\ metrics' = CountBytes(metrics, n, 0)
        /\ Continue(Wanted(buf'))
        /\ UNCHANGED <<rx, rdShut, wrShut>>
    BY <1>5 DEF Accepted, shutVars
  <2>2. buf[s] \in Queue(Nat) /\ buf[s].q \in Seq(Nat) /\ Len(buf[s].q) \in Nat \ {0}
    <3>1. buf[s] \in Queue(Nat)
      BY <1>t
    <3>2. buf[s].q \in Seq(Nat)
      BY <3>1 DEF Queue
    <3> QED
      BY <1>3, <3>1, <3>2 DEF CanRead
  <2>3. inflight[s] \in 0..TxCap
    BY <1>t
  <2>4. n \in 1..Len(buf[s].q) /\ inflight[s] + n \in 0..TxCap
    <3> DEFINE l == Len(buf[s].q)
               i == inflight[s]
    <3>1. l \in Nat \ {0} /\ i \in 0..TxCap /\ i < TxCap
      BY <2>1, <2>2, <2>3
    <3> HIDE DEF l, i
    <3>2. Least(l, TxCap - i) \in 1..l /\ i + Least(l, TxCap - i) \in 0..TxCap
      BY <3>1 DEF Least
    <3> QED
      BY <3>2 DEF l, i
  <2> HIDE DEF n
  <2>n. n \in 0..Len(buf[s].q)
    BY <2>2, <2>4
  <2>5. /\ SubSeq(buf[s].q, 1, n) \in Seq(Nat)
        /\ SubSeq(buf[s].q, n + 1, Len(buf[s].q)) \in Seq(Nat)
    BY <2>2, <2>n, CutInTwo, Zenon
  <2>6. /\ Advance(buf[s], n) \in Queue(Nat)
        /\ Advance(buf[s], n).q = SubSeq(buf[s].q, n + 1, Len(buf[s].q))
    BY <2>2, <2>4, AdvanceQueue
  <2>7. delivered[s] \o SubSeq(buf[s].q, 1, n) \in Seq(Nat)
    BY <1>t, <2>5, ConcatProperties
  <2>8. /\ buf' \in [Side -> Queue(Nat)] /\ delivered' \in [Side -> Seq(Nat)]
        /\ inflight' \in [Side -> 0..TxCap] /\ inflight'[o] = inflight[o]
        /\ buf'[s].q = SubSeq(buf[s].q, n + 1, Len(buf[s].q)) /\ buf'[o] = buf[o]
        /\ delivered'[s] = delivered[s] \o SubSeq(buf[s].q, 1, n)
        /\ delivered'[o] = delivered[o]
    BY <1>1, <1>t, <2>1, <2>4, <2>6, <2>7
  <2>9. metrics' \in [totalBytesReceived : Nat, totalBytesSent : Nat]
    BY <1>t, <2>1, <2>2, <2>4, SMTT(30) DEF CountBytes
  <2>10. TypeOK'
    BY <1>2, <2>1, <2>8, <2>9, WantedExact DEF RelayInv, TypeOK
  <2>11. StreamIntegrity'
    <3>a. delivered[s] \in Seq(Nat) /\ rx[o] \in Seq(Nat)
      BY <1>1, <1>t
    <3>b. (delivered[s] \o SubSeq(buf[s].q, 1, n))
            \o (SubSeq(buf[s].q, n + 1, Len(buf[s].q)) \o rx[o])
            = delivered[s] \o (buf[s].q \o rx[o])
      BY <2>2, <2>n, <3>a, StreamSent, ZenonT(30)
    <3>1. delivered'[s] \o (buf'[s].q \o rx[o]) = delivered[s] \o (buf[s].q \o rx[o])
      BY <2>8, <3>b, Zenon
    <3>2. delivered[s] \o (buf[s].q \o rx[o]) = Stream(sent[o])
      BY <1>1 DEF RelayInv, StreamIntegrity
    <3>3. delivered[o] \o (buf[o].q \o rx[s]) = Stream(sent[s])
      BY <1>1 DEF RelayInv, StreamIntegrity
    <3> QED
      BY <1>1, <1>2, <2>1, <2>8, <3>1, <3>2, <3>3 DEF StreamIntegrity
  <2>12. EventsFresh'
    BY <1>1, <1>2, <2>1, <2>8 DEF RelayInv, EventsFresh, Readable, Writable
  <2>13. ShutdownsJustified'
    BY <1>2, <2>1 DEF RelayInv, ShutdownsJustified
  <2> QED
    BY <2>1, <2>10, <2>11, <2>12, <2>13, WantedExact DEF RelayInv
<1>6. CASE Refused(s)
  <2>1. /\ EndDirection(o, Other(o)) /\ s \in rst
        /\ UNCHANGED <<buf, metrics, rx, inflight, delivered>>
    BY <1>1, <1>4, <1>6, <1>t DEF Refused, Writable
  <2>2. Parked => o = "client"
    BY <1>1, <1>2 DEF Parked, Side, Other
  <2> QED
    BY <1>1, <1>2, <2>1, <2>2, EndDirectionStep
<1>7. CASE BrokenPipe(s)
  <2>1. /\ state' = "KILLED"
        /\ UNCHANGED <<buf, interests, registered, metrics, rx, inflight, delivered, rdShut, wrShut>>
    BY <1>7 DEF BrokenPipe, Sigpipe, shutVars
  <2>2. TypeOK' /\ StreamIntegrity' /\ ShutdownsJustified'
    BY <1>2, <2>1 DEF RelayInv, TypeOK, StreamIntegrity, ShutdownsJustified
  <2>3. FieldsRegistered' /\ InterestsExact' /\ EventsFresh'
    BY <1>2, <2>1 DEF RelayInv, FieldsRegistered, InterestsExact, Parked, EventsFresh,
                      Readable, Writable
  <2> QED
    BY <2>2, <2>3 DEF RelayInv
<1> QED
  BY <1>3, <1>5, <1>6, <1>7 DEF copy_write

\* Every step of the peers, the selector and the handlers keeps the invariant.
LEMMA RelayStep == RelayInv /\ [Next]_vars => RelayInv'
<1> SUFFICES ASSUME RelayInv, [Next]_vars PROVE RelayInv'
  OBVIOUS
<1>1. CASE UNCHANGED vars
  BY <1>1 DEF vars, proxyVars, peerVars, shutVars, RelayInv, TypeOK, StreamIntegrity,
              FieldsRegistered, InterestsExact, Parked, EventsFresh, ShutdownsJustified,
              Readable, Writable
<1>2. CASE Peer
  BY <1>2, PeerStep
<1>3. CASE Loop
  BY <1>3, SelectorStep, ReadStep, WriteStep DEF Loop
<1>4. CASE Ended
  BY <1>1, <1>4 DEF Ended
<1> QED
  BY <1>1, <1>2, <1>3, <1>4 DEF Next

LEMMA RelayInvariant == Spec => []RelayInv
BY InitInv, RelayStep, PTL DEF Spec

\* The variables of the relay keep their types: no buffer ever holds more than
\* its storage, whatever the order of events.
THEOREM RelayTypeOK == Spec => []TypeOK
<1>1. RelayInv => TypeOK
  BY DEF RelayInv
<1> QED
  BY <1>1, RelayInvariant, PTL

\* The relay never loses, repeats or reorders a byte it has taken.
THEOREM RelayStreamIntegrity == Spec => []StreamIntegrity
<1>1. RelayInv => StreamIntegrity
  BY DEF RelayInv
<1> QED
  BY <1>1, RelayInvariant, PTL

\* The selector is never asked for an event the handler has no use for, ...
THEOREM RelayInterestsHaveWork == Spec => []InterestsHaveWork
<1>1. RelayInv => InterestsHaveWork
  BY DEF RelayInv, FieldsRegistered, InterestsExact, InterestsHaveWork, Parked, Side
<1> QED
  BY <1>1, RelayInvariant, PTL

\* ... and always for one that an open direction waits for.
THEOREM RelayNothingForgotten == Spec => []NothingForgotten
<1>1. RelayInv => NothingForgotten
  <2> SUFFICES ASSUME RelayInv PROVE NothingForgotten
    OBVIOUS
  <2>1. CASE Parked
    BY <2>1 DEF Parked, NothingForgotten, Side
  <2>2. CASE ~Parked
    BY <2>2 DEF RelayInv, FieldsRegistered, InterestsExact, NothingForgotten
  <2> QED
    BY <2>1, <2>2
<1> QED
  BY <1>1, RelayInvariant, PTL

\* A direction is shut down only after one of its peers closed or failed.
THEOREM RelayShutdownsJustified == Spec => []ShutdownsJustified
<1>1. RelayInv => ShutdownsJustified
  BY DEF RelayInv
<1> QED
  BY <1>1, RelayInvariant, PTL
==============================================================================
