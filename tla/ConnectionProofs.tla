--------------------------- MODULE ConnectionProofs --------------------------
(***************************************************************************)
(* The descriptors, the table of the selector and the connections agree,   *)
(* for any number of connections, of resolver threads, of descriptors and  *)
(* of addresses.                                                           *)
(***************************************************************************)
EXTENDS Connection, NatLemmas, FiniteSetTheorems, SequenceTheorems

\* The passive socket was reported while there was room for one more.
PassiveHasRoom == <<Passive, "READ">> \in todo => currentConnections < MaxCount

\* A thread at work has its copy of the key of a connection.
ThreadsHaveKeys ==
  \A t \in Thread : tst[t] # "idle" => tslot[t] \in Slot /\ tfd[t] \in Fd

\* A struct that is not a live connection names no descriptor.
OthersHoldNothing ==
  \A s \in Slot : state[s] \notin Live => client_fd[s] = NoFd /\ origin_fd[s] = NoFd

\* The client of a connection is registered from accept to close, ...
ClientRegistered == \A s \in Slot : state[s] \in Live => owner[client_fd[s]] = s

\* ... its origin from the attempt to connect on.  What a failed attempt leaves
\* in origin_fd is not registered, or the next attempt would lose an entry.
OriginFits(s, st, r, fd, o) ==
  /\ st \in {"CONNECT", "COPY"} => fd # NoFd /\ o = s
  /\ st \in {"GREETING", "AUTH", "REQUEST"} => fd = NoFd \/ o = Unused
  /\ st = "REPLY" /\ r = "SUCCEDED" => fd = NoFd \/ o = s
  /\ st = "REPLY" /\ r # "SUCCEDED" => fd = NoFd \/ o = Unused

OriginRegistered ==
  \A s \in Slot : OriginFits(s, state[s], rep[s], origin_fd[s], owner[origin_fd[s]])

\* The part of the invariant that speaks of descriptors.
TableInv ==
  /\ HandlersOwnDescriptors /\ DescriptorsDisjoint /\ OthersHoldNothing
  /\ ClientRegistered /\ OriginRegistered /\ InterestsHandled

\* The inductive invariant of all the connections.
ConnectionInv ==
  /\ TypeOK /\ PassiveHasRoom /\ ThreadsHaveKeys /\ TableInv /\ WaitingIsServed

------------------------------------------------------------------------------
(* Facts about the constants and the operators.                            *)

\* A descriptor is a number, and neither -1 nor the passive socket's.
LEMMA FdFacts == Fd \subseteq Nat /\ NoFd \notin Fd /\ Passive \notin Fd
BY SizeAssumption DEF Fd, NoFd, Passive

\* The handlers of every state, without the CASE.
LEMMA HandlersOf ==
  /\ Handlers("GREETING") = Op /\ Handlers("AUTH") = Op /\ Handlers("COPY") = Op
  /\ Handlers("REQUEST") = {"READ"}
  /\ Handlers("CONNECT") = {"WRITE"} /\ Handlers("REPLY") = {"WRITE"}
BY DEF Handlers

Socket == {"free", "connecting", "connected", "failed"}

\* socket and accept return a descriptor that is free.
LEMMA LeastIsFree ==
  ASSUME NEW k \in [Fd -> Socket], FreeFds(k) # {}
  PROVE  Least(FreeFds(k)) \in Fd /\ k[Least(FreeFds(k))] = "free"
<1> DEFINE S == FreeFds(k)
<1>1. S \in SUBSET Nat
  BY FdFacts DEF FreeFds
<1>2. \E x \in S : \A y \in S : x <= y
  BY <1>1, LeastExists, Zenon
<1>3. Least(S) \in S
  BY <1>2, Zenon DEF Least
<1> QED
  BY <1>3 DEF FreeFds

\* What a closed connection takes off the count is a number.
LEMMA RegisteredCount ==
  ASSUME NEW s \in Slot PROVE Cardinality(Registered(s)) \in Nat
<1>1. IsFiniteSet({client_fd[s]}) /\ IsFiniteSet({client_fd[s]} \cup {origin_fd[s]})
  BY FS_Singleton, FS_AddElement, Zenon
<1>2. Registered(s) \subseteq {client_fd[s]} \cup {origin_fd[s]}
  BY DEF Registered, Held
<1>3. IsFiniteSet(Registered(s))
  BY <1>1, <1>2, FS_Subset, Zenon
<1> QED
  BY <1>3, FS_CardinalityType, Zenon

------------------------------------------------------------------------------
(* What handlers do, and the descriptors.                                  *)

\* A jump to another state that leaves the descriptors alone.
LEMMA MoveStep ==
  ASSUME TypeOK, TableInv, NEW s \in Slot, state[s] \in Live, NEW st \in Live, NEW r,
         OriginFits(s, st, r, origin_fd[s], owner[origin_fd[s]]),
         state' = [state EXCEPT ![s] = st], rep' = [rep EXCEPT ![s] = r],
         UNCHANGED <<client_fd, origin_fd, owner, sock>>,
         \A g \in Fd : owner[g] # s => interest'[g] = interest[g],
         \A g \in Fd : owner[g] = s => interest'[g] \subseteq Handlers(st)
  PROVE  TableInv'
<1> USE SlotAssumption, FdFacts DEF TypeOK
<1>1. HandlersOwnDescriptors'
  BY DEF TableInv, HandlersOwnDescriptors, Held
<1>a. \A r1 \in Slot : (state'[r1] \in Live <=> state[r1] \in Live) /\ Held(r1)' = Held(r1)
  BY DEF Held
<1>2. DescriptorsDisjoint'
  BY <1>a DEF TableInv, DescriptorsDisjoint
<1>b. OthersHoldNothing' /\ ClientRegistered'
  BY <1>a DEF TableInv, OthersHoldNothing, ClientRegistered
<1>3. OriginRegistered'
  BY DEF TableInv, OriginRegistered, OriginFits
<1>4. InterestsHandled'
  BY DEF TableInv, InterestsHandled, HandlersOwnDescriptors
<1> QED
  BY <1>1, <1>2, <1>b, <1>3, <1>4 DEF TableInv

\* A registered descriptor that a connection holds is registered for it.
LEMMA HeldMeansOwned ==
  ASSUME TypeOK, TableInv, NEW s \in Slot, state[s] \in Live, NEW g \in Fd
  PROVE  g \in Registered(s) <=> owner[g] = s
<1> USE SlotAssumption, FdFacts DEF TypeOK
<1>1. ASSUME owner[g] = s PROVE g \in Registered(s)
  BY <1>1 DEF TableInv, HandlersOwnDescriptors, Registered
<1>2. ASSUME g \in Held(s), owner[g] # Unused PROVE owner[g] = s
  <2>1. owner[g] \in Slot /\ g \in Held(owner[g])
    BY <1>2 DEF TableInv, HandlersOwnDescriptors
  <2> QED
    BY <1>2, <2>1 DEF TableInv, DescriptorsDisjoint
<1> QED
  BY <1>1, <1>2 DEF Registered

\* socksv5_done takes the connection and all its descriptors away.
LEMMA DoneStep ==
  ASSUME TypeOK, TableInv, NEW s \in Slot, state[s] \in Live, socksv5_done(s)
  PROVE  TableInv'
<1> USE SlotAssumption, FdFacts DEF TypeOK
<1>1. /\ state' = [state EXCEPT ![s] = "FREE"] /\ rep' = [rep EXCEPT ![s] = "NONE"]
      /\ client_fd' = [client_fd EXCEPT ![s] = NoFd]
      /\ origin_fd' = [origin_fd EXCEPT ![s] = NoFd]
  BY DEF socksv5_done, Goto
<1>2. /\ \A g \in Fd : owner'[g] = IF owner[g] = s THEN Unused ELSE owner[g]
      /\ \A g \in Fd : owner[g] # s => interest'[g] = interest[g]
  BY HeldMeansOwned DEF socksv5_done, Goto
<1>3. \A g \in Fd : sock'[g] = IF g \in Held(s) THEN "free" ELSE sock[g]
  BY DEF socksv5_done
<1>4. /\ \A r \in Slot \ {s} : /\ state'[r] = state[r] /\ rep'[r] = rep[r]
                              /\ client_fd'[r] = client_fd[r] /\ origin_fd'[r] = origin_fd[r]
                              /\ Held(r)' = Held(r) /\ Held(r) \cap Held(s) = {}
      /\ state'[s] \notin Live /\ client_fd'[s] = NoFd /\ origin_fd'[s] = NoFd
      /\ Held(s)' = {}
  <2>1. \A r \in Slot \ {s} : Held(r) \cap Held(s) = {}
    BY DEF TableInv, DescriptorsDisjoint
  <2> QED
    BY <1>1, <2>1, ZenonT(30) DEF Held, Live, Handshake
<1>5. HandlersOwnDescriptors'
  <2> SUFFICES ASSUME NEW f \in Fd, owner'[f] # Unused
               PROVE  /\ state'[owner'[f]] \in Live /\ f \in (Held(owner[f]))'
                      /\ sock'[f] # "free"
    BY Zenon DEF HandlersOwnDescriptors
  <2>1. owner'[f] = owner[f] /\ owner[f] \in Slot \ {s}
    BY <1>2
  <2>2. state[owner[f]] \in Live /\ f \in Held(owner[f]) /\ sock[f] # "free"
    BY <2>1 DEF TableInv, HandlersOwnDescriptors
  <2> QED
    BY <1>3, <1>4, <2>1, <2>2
<1>6. DescriptorsDisjoint'
  <2> SUFFICES ASSUME NEW r \in Slot, state'[r] \in Live
               PROVE  /\ client_fd'[r] \in Fd /\ client_fd'[r] # origin_fd'[r]
                      /\ \A f \in Held(r)' : sock'[f] # "free"
                      /\ \A q \in Slot \ {r} : Held(q)' \cap Held(r)' = {}
    BY Zenon DEF DescriptorsDisjoint
  <2>1. r # s /\ state[r] \in Live
    BY <1>4
  <2>2. /\ client_fd[r] \in Fd /\ client_fd[r] # origin_fd[r]
        /\ \A f \in Held(r) : sock[f] # "free"
        /\ \A q \in Slot \ {r} : Held(q) \cap Held(r) = {}
    BY <2>1 DEF TableInv, DescriptorsDisjoint
  <2>3. Held(r) \subseteq Fd
    BY DEF Held
  <2>4. \A f \in Held(r)' : sock'[f] # "free"
    BY <1>3, <1>4, <2>1, <2>2, <2>3
  <2>5. \A q \in Slot \ {r} : Held(q)' \cap Held(r)' = {}
    BY <1>4, <2>1, <2>2, SMTT(30)
  <2> QED
    BY <1>4, <2>1, <2>2, <2>4, <2>5
<1>7. OthersHoldNothing'
  BY <1>4 DEF TableInv, OthersHoldNothing
<1>a. ClientRegistered'
  <2> SUFFICES ASSUME NEW r \in Slot, state'[r] \in Live PROVE owner'[client_fd'[r]] = r
    BY DEF ClientRegistered
  <2>1. r # s /\ state[r] \in Live
    BY <1>4
  <2>2. client_fd[r] \in Fd /\ owner[client_fd[r]] = r
    BY <2>1 DEF TableInv, DescriptorsDisjoint, ClientRegistered
  <2> QED
    BY <1>2, <1>4, <2>1, <2>2, ZenonT(30)
<1>8. OriginRegistered'
  <2> SUFFICES ASSUME NEW r \in Slot
               PROVE  OriginFits(r, state'[r], rep'[r], origin_fd'[r], owner'[origin_fd'[r]])
    BY DEF OriginRegistered
  <2>1. CASE r = s
    BY <1>1, <2>1 DEF OriginFits
  <2>2. CASE r # s
    <3>1. OriginFits(r, state[r], rep[r], origin_fd[r], owner[origin_fd[r]])
      BY DEF TableInv, OriginRegistered
    <3>2. /\ state'[r] = state[r] /\ rep'[r] = rep[r] /\ origin_fd'[r] = origin_fd[r]
          /\ origin_fd[r] \in Fd \cup {NoFd}
      BY <1>4, <2>2
    <3>3. CASE origin_fd[r] = NoFd
      BY <3>1, <3>2, <3>3 DEF OriginFits
    <3>4. CASE origin_fd[r] \in Fd
      BY <1>2, <2>2, <3>1, <3>2, <3>4, ZenonT(60) DEF OriginFits
    <3> QED
      BY <3>2, <3>3, <3>4
  <2> QED
    BY <2>1, <2>2
<1>9. InterestsHandled'
  <2> SUFFICES ASSUME NEW f \in Fd, owner'[f] # Unused
               PROVE  interest'[f] \subseteq Handlers(state'[owner'[f]])
    BY DEF InterestsHandled
  <2>1. owner'[f] = owner[f] /\ owner[f] \in Slot \ {s}
    BY <1>2
  <2> QED
    BY <1>2, <1>4, <2>1 DEF TableInv, InterestsHandled
<1> QED
  BY <1>5, <1>6, <1>7, <1>8, <1>9, <1>a DEF TableInv

\* A connection gets another origin, fd, or none.  What it had is unregistered.
LEMMA OriginStep ==
  ASSUME TypeOK, TableInv, NEW s \in Slot, state[s] \in Live, NEW st \in Live, NEW r,
         NEW fd \in Fd \cup {NoFd},
         state' = [state EXCEPT ![s] = st], rep' = [rep EXCEPT ![s] = r],
         client_fd' = client_fd, origin_fd' = [origin_fd EXCEPT ![s] = fd],
         \A g \in Fd \ {origin_fd[s], fd} : sock'[g] = sock[g] /\ owner'[g] = owner[g],
         origin_fd[s] \in Fd \ {fd} => owner'[origin_fd[s]] = Unused,
         fd \in Fd => /\ sock'[fd] # "free" /\ owner'[fd] \in {s, Unused}
                     /\ fd # client_fd[s] /\ \A q \in Slot \ {s} : fd \notin Held(q),
         OriginFits(s, st, r, fd, owner'[fd]),
         \A g \in Fd : owner'[g] \notin {s, Unused} => interest'[g] = interest[g],
         \A g \in Fd : owner'[g] = s => interest'[g] \subseteq Handlers(st)
  PROVE  TableInv'
<1> USE SlotAssumption, FdFacts DEF TypeOK
<1>1. /\ client_fd[s] \in Fd /\ client_fd[s] # origin_fd[s] /\ owner[client_fd[s]] = s
      /\ sock[client_fd[s]] # "free"
      /\ \A q \in Slot \ {s} : Held(q) \cap Held(s) = {}
  <2>1. /\ client_fd[s] \in Fd /\ client_fd[s] # origin_fd[s] /\ owner[client_fd[s]] = s
        /\ \A g \in Held(s) : sock[g] # "free"
        /\ \A q \in Slot \ {s} : Held(q) \cap Held(s) = {}
    BY DEF TableInv, DescriptorsDisjoint, ClientRegistered
  <2>2. client_fd[s] \in Held(s)
    BY <2>1 DEF Held
  <2> QED
    BY <2>1, <2>2
<1>2. /\ \A q \in Slot \ {s} : /\ state'[q] = state[q] /\ rep'[q] = rep[q]
                              /\ client_fd'[q] = client_fd[q] /\ origin_fd'[q] = origin_fd[q]
                              /\ Held(q)' = Held(q)
      /\ state'[s] = st /\ rep'[s] = r /\ client_fd'[s] = client_fd[s] /\ origin_fd'[s] = fd
      /\ Held(s)' = {client_fd[s], fd} \ {NoFd}
  BY DEF Held
<1>3. \A q \in Slot \ {s} : \A g \in Held(q) :
        g \in Fd \ {origin_fd[s], fd} /\ sock'[g] = sock[g] /\ owner'[g] = owner[g]
  <2> SUFFICES ASSUME NEW q \in Slot \ {s}, NEW g \in Held(q) PROVE g \in Fd \ {origin_fd[s], fd}
    OBVIOUS
  <2>a. g \in Fd /\ g # NoFd
    BY DEF Held
  <2>1. g \in Fd /\ g \notin Held(s) /\ g # NoFd
    BY <1>1, <2>a
  <2> QED
    BY <2>1 DEF Held
<1>4. /\ owner'[client_fd[s]] = s /\ sock'[client_fd[s]] # "free"
      /\ client_fd[s] # fd
  BY <1>1
<1>5. ASSUME NEW f \in Fd, owner'[f] # Unused, owner'[f] # s
      PROVE  owner'[f] = owner[f] /\ owner[f] \in Slot \ {s} /\ sock'[f] = sock[f]
  <2>1. f \notin {origin_fd[s], fd}
    BY <1>5
  <2> QED
    BY <1>5, <2>1
<1>6. HandlersOwnDescriptors'
  <2> SUFFICES ASSUME NEW f \in Fd, owner'[f] # Unused
               PROVE  /\ state'[owner'[f]] \in Live /\ f \in (Held(owner[f]))'
                      /\ sock'[f] # "free"
    BY Zenon DEF HandlersOwnDescriptors
  <2>1. CASE owner'[f] = s
    <3>1. CASE f = fd
      BY <1>2, <2>1, <3>1 DEF Held
    <3>2. CASE f # fd
      <4>1. f # origin_fd[s] /\ owner[f] = s /\ sock'[f] = sock[f]
        BY <2>1, <3>2
      <4>2. f = client_fd[s]
        BY <4>1 DEF TableInv, HandlersOwnDescriptors, Held
      <4> QED
        BY <1>2, <1>4, <2>1, <4>2 DEF Held
    <3> QED
      BY <3>1, <3>2
  <2>2. CASE owner'[f] # s
    <3>1. owner'[f] = owner[f] /\ owner[f] \in Slot \ {s} /\ sock'[f] = sock[f]
      BY <1>5, <2>2
    <3>2. state[owner[f]] \in Live /\ f \in Held(owner[f]) /\ sock[f] # "free"
      BY <3>1 DEF TableInv, HandlersOwnDescriptors
    <3> QED
      BY <1>2, <3>1, <3>2 DEF Held
  <2> QED
    BY <2>1, <2>2
<1>7. DescriptorsDisjoint'
  <2> SUFFICES ASSUME NEW q \in Slot, state'[q] \in Live
               PROVE  /\ client_fd'[q] \in Fd /\ client_fd'[q] # origin_fd'[q]
                      /\ \A f \in Held(q)' : sock'[f] # "free"
                      /\ \A p \in Slot \ {q} : Held(p)' \cap Held(q)' = {}
    BY Zenon DEF DescriptorsDisjoint
  <2>1. ASSUME NEW p \in Slot \ {s} PROVE Held(p) \cap Held(s)' = {}
    <3>1. client_fd[s] \in Held(s)
      BY <1>1 DEF Held
    <3>2. client_fd[s] \notin Held(p) /\ fd \notin Held(p)
      <4>1. fd = NoFd => fd \notin Held(p)
        BY DEF Held
      <4> QED
        BY <1>1, <3>1, <4>1
    <3> QED
      BY <1>2, <3>2
  <2>2. CASE q = s
    BY <1>1, <1>2, <1>4, <2>1, <2>2
  <2>3. CASE q # s
    <3>1. /\ client_fd[q] \in Fd /\ client_fd[q] # origin_fd[q]
          /\ \A f \in Held(q) : sock[f] # "free"
          /\ \A p \in Slot \ {q} : Held(p) \cap Held(q) = {}
      BY <1>2, <2>3 DEF TableInv, DescriptorsDisjoint
    <3>2. \A f \in Held(q)' : sock'[f] # "free"
      BY <1>2, <1>3, <2>3, <3>1
    <3>3. ASSUME NEW p \in Slot \ {q} PROVE Held(p)' \cap Held(q)' = {}
      <4>1. CASE p = s
        BY <1>2, <2>1, <2>3, <4>1
      <4>2. CASE p # s
        BY <1>2, <2>3, <3>1, <4>2
      <4> QED
        BY <4>1, <4>2
    <3> QED
      BY <1>2, <2>3, <3>1, <3>2, <3>3
  <2> QED
    BY <2>2, <2>3
<1>8. OthersHoldNothing'
  BY <1>2 DEF TableInv, OthersHoldNothing
<1>9. ClientRegistered'
  <2> SUFFICES ASSUME NEW q \in Slot, state'[q] \in Live PROVE owner'[client_fd'[q]] = q
    BY DEF ClientRegistered
  <2>1. CASE q = s
    BY <1>2, <1>4, <2>1
  <2>2. CASE q # s
    <3>1. owner[client_fd[q]] = q /\ client_fd[q] \in Held(q)
      BY <1>2, <2>2 DEF TableInv, ClientRegistered, DescriptorsDisjoint, Held
    <3> QED
      BY <1>2, <1>3, <2>2, <3>1
  <2> QED
    BY <2>1, <2>2
<1>10. OriginRegistered'
  <2> SUFFICES ASSUME NEW q \in Slot
               PROVE  OriginFits(q, state'[q], rep'[q], origin_fd'[q], owner'[origin_fd'[q]])
    BY DEF OriginRegistered
  <2>1. CASE q = s
    BY <1>2, <2>1
  <2>2. CASE q # s
    <3>1. OriginFits(q, state[q], rep[q], origin_fd[q], owner[origin_fd[q]])
      BY DEF TableInv, OriginRegistered
    <3>2. CASE origin_fd[q] = NoFd
      BY <1>2, <2>2, <3>1, <3>2 DEF OriginFits
    <3>3. CASE origin_fd[q] # NoFd
      <4>1. origin_fd[q] \in Held(q)
        BY <3>3 DEF Held
      <4> QED
        BY <1>2, <1>3, <2>2, <3>1, <4>1
    <3> QED
      BY <3>2, <3>3
  <2> QED
    BY <2>1, <2>2
<1>11. InterestsHandled'
  <2> SUFFICES ASSUME NEW f \in Fd, owner'[f] # Unused
               PROVE  interest'[f] \subseteq Handlers(state'[owner'[f]])
    BY DEF InterestsHandled
  <2>1. CASE owner'[f] = s
    BY <1>2, <2>1
  <2>2. CASE owner'[f] # s
    <3>1. owner'[f] = owner[f] /\ owner[f] \in Slot \ {s}
      BY <1>5, <2>2
    <3>2. interest'[f] = interest[f] /\ state'[owner[f]] = state[owner[f]]
      BY <1>2, <2>2, <3>1
    <3> QED
      BY <3>1, <3>2 DEF TableInv, InterestsHandled
  <2> QED
    BY <2>1, <2>2
<1> QED
  BY <1>6, <1>7, <1>8, <1>9, <1>10, <1>11 DEF TableInv

------------------------------------------------------------------------------
(* The outcomes of a handler.                                              *)

ConnTypes ==
  /\ state \in [Slot -> Live \cup {"FREE", "LEAKED"}]
  /\ sub \in [Slot -> {"NONE", "READING", "AUTH_METHOD", "AUTH_METHOD_INVALID",
                       "AUTH_SUCCESS", "AUTH_FAILURE", "VER_CMD_ATYP", "DST_LEN",
                       "DST_RES"}]
  /\ client_fd \in [Slot -> Fd \cup {NoFd}] /\ origin_fd \in [Slot -> Fd \cup {NoFd}]
  /\ resolution \in [Slot -> 0..MaxAddrs]
  /\ rep \in [Slot -> {"NONE", "SUCCEDED", "FAILED"}]
  /\ owner \in [Fd -> Slot \cup {Unused}] /\ interest \in [Fd -> SUBSET Op]
  /\ sock \in [Fd -> Socket]

Waiting(s) == state[s] = "REQUEST" /\ sub[s] = "DST_RES"

\* What every outcome leaves, the start of a resolution excepted: the invariant
\* of the descriptors, the threads as they are, and nobody new who waits.
Settled ==
  /\ ConnTypes' /\ TableInv' /\ UNCHANGED threadVars
  /\ currentConnections' \in 0..currentConnections
  /\ proc' \in {"up", "aborted", "crashed", "killed"}
  /\ \A s \in Slot : proc' = "up" /\ Waiting(s)' =>
       proc = "up" /\ Waiting(s) /\ client_fd'[s] = client_fd[s]

\* A connection that is not connecting or relaying, with its origin, if it has
\* one, not registered.
Apart(s) == state[s] \in Live /\ (origin_fd[s] = NoFd \/ owner[origin_fd[s]] = Unused)

\* Such a connection has one entry in the table, its client's.
LEMMA ApartOwner ==
  ASSUME TypeOK, TableInv, NEW s \in Slot, Apart(s), NEW g \in Fd
  PROVE  owner[g] = s <=> g = client_fd[s]
<1> USE SlotAssumption, FdFacts DEF TypeOK
<1>1. owner[g] = s => g \in Held(s) /\ g # origin_fd[s]
  BY DEF TableInv, HandlersOwnDescriptors, Apart
<1>2. owner[client_fd[s]] = s
  BY DEF TableInv, ClientRegistered, Apart
<1> QED
  BY <1>1, <1>2 DEF Held

\* A handler that changes nothing, ...
LEMMA StaySettled == ASSUME TypeOK, TableInv, Stay PROVE Settled
<1>1. TableInv'
  BY DEF Stay, connVars, tableVars, TableInv, HandlersOwnDescriptors, DescriptorsDisjoint,
         OthersHoldNothing, ClientRegistered, OriginRegistered, InterestsHandled, Held
<1> QED
  BY <1>1, SizeAssumption
     DEF Stay, connVars, tableVars, threadVars, TypeOK, Settled, ConnTypes, Waiting, Socket

\* ... one in which the process ends, ...
LEMMA DiesSettled ==
  ASSUME TypeOK, TableInv, NEW how \in {"aborted", "crashed", "killed"}, Dies(how) PROVE Settled
<1>1. TableInv'
  BY DEF Dies, connVars, tableVars, TableInv, HandlersOwnDescriptors, DescriptorsDisjoint,
         OthersHoldNothing, ClientRegistered, OriginRegistered, InterestsHandled, Held
<1> QED
  BY <1>1, SizeAssumption
     DEF Dies, connVars, tableVars, threadVars, TypeOK, Settled, ConnTypes, Waiting, Socket

\* ... one that closes the connection.
LEMMA DoneSettled ==
  ASSUME TypeOK, TableInv, NEW s \in Slot, state[s] \in Live, socksv5_done(s) PROVE Settled
<1>1. TableInv'
  BY DoneStep
<1>2. ConnTypes'
  BY SizeAssumption DEF socksv5_done, Goto, TypeOK, ConnTypes, Socket
<1>3. currentConnections' \in 0..currentConnections
  <2>1. Cardinality(Registered(s)) \in Nat
    BY RegisteredCount
  <2>2. currentConnections \in Nat
    BY SizeAssumption DEF TypeOK
  <2> QED
    BY <2>1, <2>2 DEF socksv5_done, Closed
<1>4. ASSUME NEW q \in Slot, Waiting(q)' PROVE Waiting(q) /\ client_fd'[q] = client_fd[q]
  BY <1>4 DEF socksv5_done, Goto, Waiting, TypeOK
<1> QED
  BY <1>1, <1>2, <1>3, <1>4 DEF Settled, socksv5_done, threadVars, TypeOK

\* Advance and ToReply.
LEMMA JumpSettled ==
  ASSUME TypeOK, TableInv, NEW s \in Slot, Apart(s), NEW st \in Handshake \ {"CONNECT"},
         NEW u \in {"NONE", "READING", "AUTH_METHOD", "AUTH_METHOD_INVALID", "AUTH_SUCCESS",
                    "AUTH_FAILURE", "VER_CMD_ATYP", "DST_LEN"},
         NEW r \in {"NONE", "FAILED"}, NEW i \in SUBSET Handlers(st),
         Goto(s, st, u, r, ClientInterest(s, i)),
         UNCHANGED <<client_fd, origin_fd, resolution, owner, threadVars, sock,
                     currentConnections, proc>>
  PROVE  Settled /\ ~Waiting(s)'
<1> USE SlotAssumption, FdFacts
<1>1. /\ state' = [state EXCEPT ![s] = st] /\ sub' = [sub EXCEPT ![s] = u]
      /\ rep' = [rep EXCEPT ![s] = r] /\ interest' = [interest EXCEPT ![client_fd[s]] = i]
  BY DEF Goto, ClientInterest
<1>2. i \subseteq Op /\ st \in Live
  BY HandlersOf DEF Op, Live, Handshake
<1>3. TableInv'
  <2>1. OriginFits(s, st, r, origin_fd[s], owner[origin_fd[s]])
    BY DEF OriginFits, Apart, Handshake
  <2>2. \A g \in Fd : owner[g] # s => interest'[g] = interest[g]
    BY <1>1, ApartOwner DEF TypeOK
  <2>3. \A g \in Fd : owner[g] = s => interest'[g] \subseteq Handlers(st)
    BY <1>1, ApartOwner DEF TypeOK
  <2> QED
    BY <1>1, <1>2, <2>1, <2>2, <2>3, MoveStep DEF Apart
<1>4. ConnTypes'
  BY <1>1, <1>2 DEF TypeOK, ConnTypes, Socket
<1>5. \A q \in Slot : Waiting(q)' => q # s /\ Waiting(q) /\ client_fd'[q] = client_fd[q]
  BY <1>1 DEF Waiting, TypeOK
<1> QED
  BY <1>3, <1>4, <1>5, SizeAssumption DEF Settled, TypeOK

\* An attempt to connect, from a table (o, i) and sockets k that have nothing
\* registered for the origin.
LEMMA TrySettled ==
  ASSUME TypeOK, TableInv, NEW s \in Slot, state[s] \in Live, NEW n \in 1..MaxAddrs,
         NEW k \in [Fd -> Socket], NEW o \in [Fd -> Slot \cup {Unused}],
         NEW i \in [Fd -> SUBSET Op],
         \A g \in Fd \ {origin_fd[s]} : k[g] = sock[g] /\ o[g] = owner[g] /\ i[g] = interest[g],
         origin_fd[s] \in Fd => o[origin_fd[s]] = Unused,
         try_connection(s, n, k, o, i)
  PROVE  Settled /\ (proc' = "up" => ~Waiting(s)')
<1> USE SlotAssumption, FdFacts
<1>1. CASE FreeFds(k) = {}
  <2>1. Dies("crashed")
    BY <1>1 DEF try_connection
  <2> QED
    BY <2>1, DiesSettled DEF Dies
<1>2. CASE FreeFds(k) # {}
  <2> DEFINE f == Least(FreeFds(k))
             watched == f < FdSetSize /\ o[f] = Unused
  <2>1. f \in Fd /\ k[f] = "free"
    BY <1>2, LeastIsFree
  <2> HIDE DEF f
  <2>2. PICK left \in 1..n :
          /\ resolution' = [resolution EXCEPT ![s] = left]
          /\ origin_fd' = [origin_fd EXCEPT ![s] = f]
          /\ \/ /\ sock' = [k EXCEPT ![f] = "connecting"] /\ watched
                /\ owner' = [o EXCEPT ![f] = s]
                /\ Goto(s, "CONNECT", "NONE", "NONE",
                        [i EXCEPT ![client_fd[s]] = {"WRITE"}, ![f] = {"WRITE"}])
             \/ /\ \/ sock' = [k EXCEPT ![f] = "connecting"] /\ ~watched
                   \/ sock' = [k EXCEPT ![f] = "connected"]
                   \/ sock' = [k EXCEPT ![f] = "failed"] /\ left = 1
                /\ owner' = o
                /\ Goto(s, "REPLY", "NONE", "FAILED",
                        [i EXCEPT ![client_fd[s]] = {"WRITE"}])
          /\ UNCHANGED <<client_fd, threadVars, currentConnections, proc>>
    BY <1>2 DEF try_connection, f
  <2>3. /\ client_fd[s] \in Fd /\ client_fd[s] # origin_fd[s]
        /\ \A q \in Slot \ {s} : Held(q) \cap Held(s) = {}
        /\ \A g \in Held(s) : sock[g] # "free"
        /\ \A q \in Slot : \A g \in Held(q) : sock[g] # "free"
    <3>1. \A q \in Slot : state[q] \notin Live => Held(q) = {}
      BY DEF TableInv, OthersHoldNothing, Held
    <3> QED
      BY <3>1 DEF TableInv, DescriptorsDisjoint
  <2>4. f # client_fd[s] /\ \A q \in Slot \ {s} : f \notin Held(q)
    <3>1. client_fd[s] \in Held(s)
      BY <2>3 DEF Held
    <3>2. \A q \in Slot \ {s} : origin_fd[s] \in Fd => origin_fd[s] \notin Held(q)
      <4>1. origin_fd[s] \in Fd => origin_fd[s] \in Held(s)
        BY DEF Held
      <4> QED
        BY <2>3, <4>1
    <3>3. f # origin_fd[s] => sock[f] = "free"
      BY <2>1
    <3> QED
      BY <2>1, <2>3, <3>1, <3>2, <3>3
  <2>5. o[f] = Unused
    <3>1. CASE f = origin_fd[s]
      BY <2>1, <3>1
    <3>2. CASE f # origin_fd[s]
      BY <2>1, <3>2 DEF TableInv, HandlersOwnDescriptors, TypeOK
    <3> QED
      BY <3>1, <3>2
  <2>6. \A g \in Fd : o[g] = s => g = client_fd[s]
    BY DEF TableInv, HandlersOwnDescriptors, Held
  <2>7. /\ \A g \in Fd \ {origin_fd[s], f} : sock'[g] = sock[g] /\ owner'[g] = owner[g]
        /\ origin_fd[s] \in Fd \ {f} => owner'[origin_fd[s]] = Unused
        /\ sock'[f] # "free" /\ owner'[f] \in {s, Unused}
    BY <2>1, <2>2, <2>5
  <2>8. ASSUME NEW st \in {"CONNECT", "REPLY"}, NEW r \in {"NONE", "FAILED"},
               NEW j \in [Fd -> SUBSET Op], Goto(s, st, "NONE", r, j),
               OriginFits(s, st, r, f, owner'[f]),
               \A g \in Fd : owner'[g] \notin {s, Unused} => j[g] = interest[g],
               \A g \in Fd : owner'[g] = s => j[g] \subseteq {"WRITE"}
        PROVE  Settled /\ ~Waiting(s)'
    <3>1. /\ state' = [state EXCEPT ![s] = st] /\ sub' = [sub EXCEPT ![s] = "NONE"]
          /\ rep' = [rep EXCEPT ![s] = r] /\ interest' = j
      BY <2>8 DEF Goto
    <3>2. st \in Live /\ Handlers(st) = {"WRITE"}
      BY HandlersOf DEF Live, Handshake
    <3>3. TableInv'
      <4>1. /\ f \in Fd \cup {NoFd} /\ client_fd' = client_fd
            /\ origin_fd' = [origin_fd EXCEPT ![s] = f]
        BY <2>1, <2>2
      <4>2. f \in Fd => /\ sock'[f] # "free" /\ owner'[f] \in {s, Unused}
                       /\ f # client_fd[s] /\ \A q \in Slot \ {s} : f \notin Held(q)
        BY <2>4, <2>7
      <4>3. \A g \in Fd : owner'[g] = s => interest'[g] \subseteq Handlers(st)
        BY <2>8, <3>1, <3>2
      <4>4. \A g \in Fd : owner'[g] \notin {s, Unused} => interest'[g] = interest[g]
        BY <2>8, <3>1
      <4> QED
        BY <2>7, <2>8, <3>1, <3>2, <4>1, <4>2, <4>3, <4>4, OriginStep, Zenon
    <3>4. ConnTypes'
      <4>1. left \in 0..MaxAddrs
        BY SizeAssumption
      <4>2. sock' \in [Fd -> Socket] /\ owner' \in [Fd -> Slot \cup {Unused}]
        BY <2>1, <2>2 DEF Socket
      <4>3. resolution' \in [Slot -> 0..MaxAddrs] /\ origin_fd' \in [Slot -> Fd \cup {NoFd}]
        BY <2>1, <2>2, <4>1 DEF TypeOK
      <4> QED
        BY <2>2, <2>8, <3>1, <3>2, <4>2, <4>3 DEF TypeOK, ConnTypes
    <3>5. \A q \in Slot : Waiting(q)' => q # s /\ Waiting(q) /\ client_fd'[q] = client_fd[q]
      BY <2>2, <3>1 DEF Waiting, TypeOK
    <3> QED
      BY <2>2, <3>3, <3>4, <3>5, SizeAssumption DEF Settled, TypeOK
  <2>9. CASE owner' = o
    <3>1. Goto(s, "REPLY", "NONE", "FAILED", [i EXCEPT ![client_fd[s]] = {"WRITE"}])
      BY <2>1, <2>2, <2>5, <2>9
    <3> DEFINE j == [i EXCEPT ![client_fd[s]] = {"WRITE"}]
    <3>2. j \in [Fd -> SUBSET Op]
      BY DEF Op
    <3>3. OriginFits(s, "REPLY", "FAILED", f, owner'[f])
      BY <2>5, <2>9 DEF OriginFits
    <3>4. \A g \in Fd : o[g] = s => j[g] \subseteq {"WRITE"}
      BY <2>3, <2>6
    <3>5. \A g \in Fd : o[g] \notin {s, Unused} => j[g] = interest[g]
      <4>1. o[client_fd[s]] = s
        BY <2>3 DEF TableInv, ClientRegistered
      <4> QED
        BY <2>3, <4>1
    <3> QED
      BY <2>8, <2>9, <3>1, <3>2, <3>3, <3>4, <3>5
  <2>10. CASE owner' = [o EXCEPT ![f] = s] /\ owner' # o
    <3> DEFINE j == [i EXCEPT ![client_fd[s]] = {"WRITE"}, ![f] = {"WRITE"}]
    <3>1. Goto(s, "CONNECT", "NONE", "NONE", j)
      BY <2>2, <2>10
    <3>2. j \in [Fd -> SUBSET Op]
      BY DEF Op
    <3>a. owner'[f] = s
      BY <2>1, <2>10
    <3>3. OriginFits(s, "CONNECT", "NONE", f, owner'[f])
      BY <2>1, <3>a DEF OriginFits
    <3>4. \A g \in Fd : owner'[g] = s => j[g] \subseteq {"WRITE"}
      BY <2>1, <2>3, <2>6, <2>10
    <3>5. \A g \in Fd : owner'[g] \notin {s, Unused} => j[g] = interest[g]
      <4>1. o[client_fd[s]] = s
        BY <2>3 DEF TableInv, ClientRegistered
      <4> QED
        BY <2>1, <2>3, <2>10, <4>1
    <3> QED
      BY <2>8, <3>1, <3>2, <3>3, <3>4, <3>5
  <2> QED
    BY <2>2, <2>9, <2>10
<1> QED
  BY <1>1, <1>2

\* connect_to_dest.
LEMMA DestSettled ==
  ASSUME TypeOK, TableInv, NEW s \in Slot, Apart(s), NEW n \in 0..MaxAddrs,
         connect_to_dest(s, n)
  PROVE  Settled /\ (proc' = "up" => ~Waiting(s)')
<1> USE SlotAssumption, FdFacts
<1>1. CASE n = 0
  <2>1. ToReply(s, "FAILED")
    BY <1>1 DEF connect_to_dest
  <2>2. {"WRITE"} \in SUBSET Handlers("REPLY") /\ "REPLY" \in Handshake \ {"CONNECT"}
    BY HandlersOf DEF Handshake
  <2> QED
    BY <2>1, <2>2, JumpSettled DEF ToReply
<1>2. CASE n # 0
  <2>1. n \in 1..MaxAddrs
    BY <1>2, SizeAssumption
  <2>2. try_connection(s, n, sock, owner, interest)
    BY <1>2 DEF connect_to_dest
  <2>3. /\ sock \in [Fd -> Socket] /\ owner \in [Fd -> Slot \cup {Unused}]
        /\ interest \in [Fd -> SUBSET Op]
    BY DEF TypeOK, Socket
  <2>4. state[s] \in Live /\ (origin_fd[s] \in Fd => owner[origin_fd[s]] = Unused)
    BY DEF Apart
  <2> QED
    BY <2>1, <2>2, <2>3, <2>4, TrySettled
<1> QED
  BY <1>1, <1>2

\* What the invariant says of the connection a handler is called for.
LEMMA DispatchFacts ==
  ASSUME TypeOK, TableInv, NEW f \in Fd, NEW op, NEW st, Dispatch(f, op, st)
  PROVE  /\ owner[f] \in Slot /\ state[owner[f]] = st /\ st \in Live /\ proc = "up"
         /\ todo' \subseteq todo /\ phase' = phase
         /\ st \in {"GREETING", "AUTH", "REQUEST"} => Apart(owner[f])
<1>1. owner[f] \in Slot /\ state[owner[f]] = st /\ st \in Live
  BY DEF Dispatch, TypeOK, TableInv, HandlersOwnDescriptors
<1>2. OriginFits(owner[f], st, rep[owner[f]], origin_fd[owner[f]], owner[origin_fd[owner[f]]])
  BY <1>1 DEF TableInv, OriginRegistered
<1> QED
  BY <1>1, <1>2 DEF OriginFits, Apart, Dispatch

\* A step of the handshake.
LEMMA AdvanceSettled ==
  ASSUME TypeOK, TableInv, NEW s \in Slot, Apart(s), NEW st \in {"GREETING", "AUTH", "REQUEST"},
         NEW u \in {"READING", "AUTH_METHOD", "AUTH_METHOD_INVALID", "AUTH_SUCCESS",
                    "AUTH_FAILURE", "VER_CMD_ATYP", "DST_LEN"},
         NEW i \in {{"READ"}, {"WRITE"}}, st = "REQUEST" => i = {"READ"},
         Advance(s, st, u, i)
  PROVE  Settled
<1>1. i \in SUBSET Handlers(st) /\ st \in Handshake \ {"CONNECT"}
  BY HandlersOf DEF Handshake, Op
<1>2. Goto(s, st, u, "NONE", ClientInterest(s, i))
  BY DEF Advance
<1>3. UNCHANGED <<client_fd, origin_fd, resolution, owner, threadVars, sock,
                  currentConnections, proc>>
  BY DEF Advance
<1> QED
  BY <1>1, <1>2, <1>3, JumpSettled

\* greeting_read, greeting_write, auth_read and auth_write.
LEMMA HandshakeSettled ==
  ASSUME TypeOK, TableInv, NEW f \in Fd,
         greeting_read(f) \/ greeting_write(f) \/ auth_read(f) \/ auth_write(f)
  PROVE  Settled /\ todo' \subseteq todo /\ phase' = phase /\ jobs' = jobs
<1> DEFINE s == owner[f]
<1>1. PICK op \in Op, st \in {"GREETING", "AUTH"} : Dispatch(f, op, st)
  BY DEF greeting_read, greeting_write, auth_read, auth_write, Op
<1>2. s \in Slot /\ state[s] \in Live /\ Apart(s) /\ todo' \subseteq todo /\ phase' = phase
  BY <1>1, DispatchFacts
<1>3. jobs' = jobs
  BY DEF greeting_read, greeting_write, auth_read, auth_write
<1>4. ASSUME socksv5_done(s) PROVE Settled
  BY <1>2, <1>4, DoneSettled
<1>5. ASSUME Stay PROVE Settled
  BY <1>5, StaySettled
<1>6. ASSUME NEW q \in {"GREETING", "AUTH", "REQUEST"},
             NEW u \in {"READING", "AUTH_METHOD", "AUTH_METHOD_INVALID", "AUTH_SUCCESS",
                        "AUTH_FAILURE", "VER_CMD_ATYP"},
             NEW i \in {{"READ"}, {"WRITE"}}, q = "REQUEST" => i = {"READ"},
             Advance(s, q, u, i)
      PROVE  Settled
  BY <1>2, <1>6, AdvanceSettled
<1>7. Settled
  <2> HIDE DEF s
  <2> QED
    BY <1>4, <1>5, <1>6 DEF greeting_read, greeting_write, auth_read, auth_write, s
<1> QED
  BY <1>2, <1>3, <1>7

\* connect_write: the connection is there, the next address is tried, or there
\* is none left.
LEMMA ConnectWriteSettled ==
  ASSUME TypeOK, TableInv, NEW f \in Fd, connect_write(f)
  PROVE  Settled /\ todo' \subseteq todo /\ phase' = phase /\ jobs' = jobs
<1> USE SlotAssumption, FdFacts
<1> DEFINE s == owner[f]
           o == origin_fd[s]
           n == resolution[s]
           k == [sock EXCEPT ![o] = "free"]
           own == [owner EXCEPT ![o] = Unused]
           int == [interest EXCEPT ![o] = {}]
<1>1. Dispatch(f, "WRITE", "CONNECT") /\ jobs' = jobs
  BY DEF connect_write
<1>2. /\ s \in Slot /\ state[s] = "CONNECT" /\ "CONNECT" \in Live
      /\ todo' \subseteq todo /\ phase' = phase
  BY <1>1, DispatchFacts
<1>3. o \in Fd /\ owner[o] = s
  BY <1>2 DEF TableInv, OriginRegistered, OriginFits, TypeOK
<1>4. client_fd[s] \in Fd /\ client_fd[s] # o /\ owner[client_fd[s]] = s
  BY <1>2 DEF TableInv, DescriptorsDisjoint, ClientRegistered
<1>5. \A g \in Fd : owner[g] = s => g \in {client_fd[s], o}
  BY <1>2 DEF TableInv, HandlersOwnDescriptors, Held
<1>6. n \in 0..MaxAddrs
  BY <1>2 DEF TypeOK
<1>7. CASE n = 0
  <2>1. Dies("crashed")
    BY <1>7 DEF connect_write
  <2> QED
    BY <1>1, <1>2, <2>1, DiesSettled
<1>8. ASSUME NEW r \in {"SUCCEDED", "FAILED"},
             Goto(s, "REPLY", "NONE", r, [int EXCEPT ![client_fd[s]] = {"WRITE"}]),
             TableInv', UNCHANGED <<client_fd, resolution, threadVars, currentConnections, proc>>,
             origin_fd' \in [Slot -> Fd \cup {NoFd}], sock' \in [Fd -> Socket],
             owner' \in [Fd -> Slot \cup {Unused}]
      PROVE  Settled
  <2>1. /\ state' = [state EXCEPT ![s] = "REPLY"] /\ sub' = [sub EXCEPT ![s] = "NONE"]
        /\ rep' = [rep EXCEPT ![s] = r]
        /\ interest' = [int EXCEPT ![client_fd[s]] = {"WRITE"}]
    BY <1>8 DEF Goto
  <2>2. interest' \in [Fd -> SUBSET Op]
    BY <1>3, <1>4, <2>1 DEF TypeOK, Op
  <2>3. ConnTypes'
    BY <1>2, <1>8, <2>1, <2>2 DEF TypeOK, ConnTypes, Live, Handshake
  <2>4. \A q \in Slot : Waiting(q)' => Waiting(q) /\ client_fd'[q] = client_fd[q]
    BY <1>2, <1>8, <2>1 DEF Waiting, TypeOK
  <2> QED
    BY <1>8, <2>3, <2>4, SizeAssumption DEF Settled, TypeOK
<1>9. CASE n # 0 /\ sock[o] # "failed"
  <2>1. /\ Goto(s, "REPLY", "NONE", "SUCCEDED", [int EXCEPT ![client_fd[s]] = {"WRITE"}])
        /\ UNCHANGED <<client_fd, origin_fd, resolution, owner, threadVars, sock,
                       currentConnections, proc>>
    BY <1>9 DEF connect_write
  <2>2. /\ state' = [state EXCEPT ![s] = "REPLY"] /\ rep' = [rep EXCEPT ![s] = "SUCCEDED"]
        /\ interest' = [int EXCEPT ![client_fd[s]] = {"WRITE"}]
    BY <2>1 DEF Goto
  <2>3. \A g \in Fd : owner[g] # s => interest'[g] = interest[g]
    BY <1>3, <1>4, <2>2 DEF TypeOK
  <2>4. \A g \in Fd : owner[g] = s => interest'[g] \subseteq Handlers("REPLY")
    BY <1>3, <1>4, <1>5, <2>2, HandlersOf DEF TypeOK
  <2>5. OriginFits(s, "REPLY", "SUCCEDED", origin_fd[s], owner[origin_fd[s]])
    BY <1>3 DEF OriginFits
  <2>6. "REPLY" \in Live
    BY DEF Live, Handshake
  <2>7. TableInv'
    <3>1. state[s] \in Live /\ UNCHANGED <<client_fd, origin_fd, owner, sock>>
      BY <1>2, <2>1
    <3> HIDE DEF s
    <3> QED
      BY <1>2, <3>1, <2>2, <2>3, <2>4, <2>5, <2>6, MoveStep
  <2> QED
    BY <1>1, <1>2, <1>8, <2>1, <2>7 DEF TypeOK, Socket
<1>10. CASE n # 0 /\ sock[o] = "failed" /\ n > 1
  <2>1. try_connection(s, n - 1, k, own, int)
    BY <1>10 DEF connect_write
  <2>2. /\ k \in [Fd -> Socket] /\ own \in [Fd -> Slot \cup {Unused}]
        /\ int \in [Fd -> SUBSET Op]
    BY DEF TypeOK, Socket
  <2>3. n - 1 \in 1..MaxAddrs
    BY <1>6, <1>10, SizeAssumption
  <2>4. /\ \A g \in Fd \ {origin_fd[s]} : k[g] = sock[g] /\ own[g] = owner[g] /\ int[g] = interest[g]
        /\ origin_fd[s] \in Fd => own[origin_fd[s]] = Unused
    BY <1>3 DEF TypeOK
  <2>5. Settled
    <3> HIDE DEF s, n, k, own, int
    <3> QED
      BY <1>2, <2>1, <2>2, <2>3, <2>4, TrySettled
  <2> QED
    BY <1>1, <1>2, <2>5
<1>11. CASE n = 1 /\ sock[o] = "failed"
  <2>1. PICK r \in {"SUCCEDED", "FAILED"} :
          /\ sock' = k /\ owner' = own /\ ForgetOrigin(s)
          /\ Goto(s, "REPLY", "NONE", r, [int EXCEPT ![client_fd[s]] = {"WRITE"}])
          /\ UNCHANGED <<client_fd, resolution, threadVars, currentConnections, proc>>
    BY <1>11 DEF connect_write
  <2>2. /\ state' = [state EXCEPT ![s] = "REPLY"] /\ rep' = [rep EXCEPT ![s] = r]
        /\ interest' = [int EXCEPT ![client_fd[s]] = {"WRITE"}]
        /\ origin_fd' = [origin_fd EXCEPT ![s] = NoFd] /\ client_fd' = client_fd
    BY <2>1 DEF Goto, ForgetOrigin
  <2>3. \A g \in Fd \ {origin_fd[s], NoFd} : sock'[g] = sock[g] /\ owner'[g] = owner[g]
    BY <2>1 DEF TypeOK
  <2>4. origin_fd[s] \in Fd \ {NoFd} => owner'[origin_fd[s]] = Unused
    BY <2>1 DEF TypeOK
  <2>5. \A g \in Fd : owner'[g] \notin {s, Unused} => interest'[g] = interest[g]
    BY <1>3, <1>4, <2>1, <2>2 DEF TypeOK
  <2>6. \A g \in Fd : owner'[g] = s => interest'[g] \subseteq Handlers("REPLY")
    BY <1>2, <1>3, <1>4, <1>5, <2>1, <2>2, HandlersOf DEF TypeOK
  <2>7. OriginFits(s, "REPLY", r, NoFd, owner'[NoFd])
    BY DEF OriginFits
  <2>8. "REPLY" \in Live
    BY DEF Live, Handshake
  <2>9. TableInv'
    <3>1. state[s] \in Live /\ NoFd \in Fd \cup {NoFd} /\ NoFd \notin Fd
      BY <1>2
    <3> HIDE DEF s
    <3> QED
      BY <1>2, <3>1, <2>2, <2>3, <2>4, <2>5, <2>6, <2>7, <2>8, OriginStep
  <2>10. /\ origin_fd' \in [Slot -> Fd \cup {NoFd}] /\ sock' \in [Fd -> Socket]
         /\ owner' \in [Fd -> Slot \cup {Unused}]
    BY <2>1, <2>2 DEF TypeOK, Socket
  <2> QED
    BY <1>1, <1>2, <1>8, <2>1, <2>9, <2>10
<1> QED
  BY <1>6, <1>7, <1>9, <1>10, <1>11

\* reply_write: the relay begins only for an origin that is registered.
LEMMA ReplyWriteSettled ==
  ASSUME TypeOK, TableInv, NEW f \in Fd, reply_write(f)
  PROVE  Settled /\ todo' \subseteq todo /\ phase' = phase /\ jobs' = jobs
<1> USE SlotAssumption, FdFacts
<1> DEFINE s == owner[f]
<1>1. Dispatch(f, "WRITE", "REPLY") /\ jobs' = jobs
  BY DEF reply_write
<1>2. /\ s \in Slot /\ state[s] = "REPLY" /\ state[s] \in Live
      /\ todo' \subseteq todo /\ phase' = phase
  BY <1>1, DispatchFacts
<1>3. OriginFits(s, "REPLY", rep[s], origin_fd[s], owner[origin_fd[s]])
  BY <1>2 DEF TableInv, OriginRegistered
<1>4. ASSUME socksv5_done(s) PROVE Settled
  BY <1>2, <1>4, DoneSettled
<1>5. ASSUME Stay PROVE Settled
  BY <1>5, StaySettled
<1>6. ASSUME Dies("killed") PROVE Settled
  BY <1>6, DiesSettled
<1>7. ASSUME rep[s] # "SUCCEDED", Advance(s, "REQUEST", "VER_CMD_ATYP", {"READ"})
      PROVE  Settled
  <2>1. Apart(s)
    BY <1>2, <1>3, <1>7 DEF OriginFits, Apart
  <2> QED
    BY <1>2, <1>7, <2>1, AdvanceSettled
<1>8. ASSUME rep[s] = "SUCCEDED", FoundBndInfo(s),
             Goto(s, "COPY", "NONE", "NONE",
                  [interest EXCEPT ![client_fd[s]] = Op, ![origin_fd[s]] = Op]),
             UNCHANGED <<client_fd, origin_fd, resolution, owner, threadVars,
                         sock, currentConnections, proc>>
      PROVE  Settled
  <2>1. /\ state' = [state EXCEPT ![s] = "COPY"] /\ sub' = [sub EXCEPT ![s] = "NONE"]
        /\ rep' = [rep EXCEPT ![s] = "NONE"]
        /\ interest' = [interest EXCEPT ![client_fd[s]] = Op, ![origin_fd[s]] = Op]
    BY <1>8 DEF Goto
  <2>2. /\ origin_fd[s] \in Fd /\ owner[origin_fd[s]] = s
        /\ client_fd[s] \in Fd /\ owner[client_fd[s]] = s
    BY <1>2, <1>3, <1>8
       DEF OriginFits, FoundBndInfo, TypeOK, TableInv, DescriptorsDisjoint, ClientRegistered
  <2>3. \A g \in Fd : owner[g] # s => interest'[g] = interest[g]
    BY <2>1, <2>2 DEF TypeOK
  <2>4. interest' \in [Fd -> SUBSET Op]
    BY <2>1, <2>2 DEF TypeOK
  <2>5. \A g \in Fd : owner[g] = s => interest'[g] \subseteq Handlers("COPY")
    BY <2>4, HandlersOf
  <2>6. OriginFits(s, "COPY", "NONE", origin_fd[s], owner[origin_fd[s]]) /\ "COPY" \in Live
    BY <2>2 DEF OriginFits, Live
  <2>7. TableInv'
    <3> HIDE DEF s
    <3> QED
      BY <1>2, <1>8, <2>1, <2>3, <2>5, <2>6, MoveStep
  <2>8. ConnTypes'
    BY <1>2, <1>8, <2>1, <2>4, <2>6 DEF TypeOK, ConnTypes, Socket
  <2>9. \A q \in Slot : Waiting(q)' => Waiting(q) /\ client_fd'[q] = client_fd[q]
    BY <1>2, <1>8, <2>1 DEF Waiting, TypeOK
  <2> QED
    BY <1>8, <2>7, <2>8, <2>9, SizeAssumption DEF Settled, TypeOK
<1>9. Settled
  <2> HIDE DEF s
  <2> QED
    BY <1>4, <1>5, <1>6, <1>7, <1>8 DEF reply_write, s
<1> QED
  BY <1>1, <1>2, <1>9

\* copy_event.
LEMMA CopySettled ==
  ASSUME TypeOK, TableInv, NEW f \in Fd, NEW op, copy_event(f, op)
  PROVE  Settled /\ todo' \subseteq todo /\ phase' = phase /\ jobs' = jobs
<1>1. /\ owner[f] \in Slot /\ state[owner[f]] \in Live
      /\ todo' \subseteq todo /\ phase' = phase /\ jobs' = jobs
  BY DispatchFacts DEF copy_event
<1>2. CASE socksv5_done(owner[f])
  BY <1>1, <1>2, DoneSettled
<1>3. CASE Stay
  BY <1>1, <1>3, StaySettled
<1>4. CASE Dies("killed")
  BY <1>1, <1>4, DiesSettled
<1> QED
  BY <1>2, <1>3, <1>4 DEF copy_event

\* request_read, but for the start of a resolution.
LEMMA RequestSettled ==
  ASSUME TypeOK, TableInv, NEW s \in Slot, Apart(s),
         \/ socksv5_done(s) \/ Stay
         \/ Advance(s, "REQUEST", "DST_LEN", {"READ"})
         \/ ToReply(s, "FAILED")
         \/ connect_to_dest(s, 1)
  PROVE  Settled
<1>1. CASE socksv5_done(s)
  BY <1>1, DoneSettled DEF Apart
<1>2. CASE Stay
  BY <1>2, StaySettled
<1>3. CASE Advance(s, "REQUEST", "DST_LEN", {"READ"})
  BY <1>3, AdvanceSettled
<1>4. CASE ToReply(s, "FAILED")
  <2>1. connect_to_dest(s, 0) /\ 0 \in 0..MaxAddrs
    BY <1>4, SizeAssumption DEF connect_to_dest
  <2> QED
    BY <2>1, DestSettled
<1>5. CASE connect_to_dest(s, 1)
  <2>1. 1 \in 0..MaxAddrs
    BY SizeAssumption
  <2> QED
    BY <1>5, <2>1, DestSettled
<1> QED
  BY <1>1, <1>2, <1>3, <1>4, <1>5

------------------------------------------------------------------------------
(* The invariant is inductive.                                             *)

\* The part of the invariant that does not speak of who waits, after a handler.
LEMMA SettledRest ==
  ASSUME ConnectionInv, Settled, todo' \subseteq todo, phase' = phase, jobs' \in Seq(Fd)
  PROVE  TypeOK' /\ PassiveHasRoom' /\ ThreadsHaveKeys' /\ TableInv'
<1>1. currentConnections \in 0..MaxCount /\ MaxCount \in Nat
  BY SizeAssumption DEF ConnectionInv, TypeOK
<1>2. currentConnections' \in 0..currentConnections
  BY DEF Settled
<1>3. currentConnections' \in 0..MaxCount
  BY <1>1, <1>2
<1>4. TypeOK'
  BY <1>3 DEF ConnectionInv, Settled, TypeOK, ConnTypes, Socket, threadVars
<1>5. PassiveHasRoom'
  BY <1>1, <1>2 DEF ConnectionInv, PassiveHasRoom
<1>6. ThreadsHaveKeys'
  BY DEF ConnectionInv, Settled, ThreadsHaveKeys, threadVars
<1> QED
  BY <1>4, <1>5, <1>6 DEF Settled

\* A handler that settles leaves the invariant.
LEMMA FinishStep ==
  ASSUME ConnectionInv, Settled, todo' \subseteq todo, phase' = phase, jobs' = jobs
  PROVE  ConnectionInv'
<1>1. jobs' \in Seq(Fd)
  BY DEF ConnectionInv, TypeOK
<1>2. TypeOK' /\ PassiveHasRoom' /\ ThreadsHaveKeys' /\ TableInv'
  BY <1>1, SettledRest
<1>3. WaitingIsServed'
  <2> SUFFICES ASSUME NEW q \in Slot, proc' = "up", Waiting(q)'
               PROVE  \/ \E t \in Thread : tst'[t] # "idle" /\ tfd'[t] = client_fd'[q]
                      \/ \E i \in 1..Len(jobs') : jobs'[i] = client_fd'[q]
    BY DEF WaitingIsServed, Waiting
  <2>1. proc = "up" /\ Waiting(q) /\ client_fd'[q] = client_fd[q]
    BY DEF Settled
  <2>2. tst' = tst /\ tfd' = tfd
    BY DEF Settled, threadVars
  <2> QED
    BY <2>1, <2>2 DEF ConnectionInv, WaitingIsServed, Waiting
<1> QED
  BY <1>2, <1>3 DEF ConnectionInv

\* resolve_fqdn: the connection waits, for the thread that was started.
LEMMA ResolveStep ==
  ASSUME ConnectionInv, NEW s \in Slot, Apart(s), state[s] = "REQUEST", resolve_fqdn(s),
         todo' \subseteq todo, phase' = phase, jobs' = jobs
  PROVE  ConnectionInv'
<1> USE SlotAssumption, FdFacts
<1>1. CASE \A t \in Thread : tst[t] # "idle"
  <2>1. ToReply(s, "FAILED")
    BY <1>1 DEF resolve_fqdn
  <2> QED
    BY <2>1, RequestSettled, FinishStep DEF ConnectionInv
<1>2. CASE ~(\A t \in Thread : tst[t] # "idle")
  <2>1. PICK t \in Thread :
          /\ tst[t] = "idle"
          /\ tst' = [tst EXCEPT ![t] = "resolving"]
          /\ tslot' = [tslot EXCEPT ![t] = s]
          /\ tfd' = [tfd EXCEPT ![t] = client_fd[s]]
          /\ sub' = [sub EXCEPT ![s] = "DST_RES"]
          /\ UNCHANGED <<state, client_fd, origin_fd, resolution, rep, tableVars, sock,
                         currentConnections, proc>>
    BY <1>2 DEF resolve_fqdn
  <2>2. client_fd[s] \in Fd
    BY DEF ConnectionInv, TableInv, DescriptorsDisjoint, Apart
  <2>3. TypeOK'
    BY <2>1, <2>2 DEF ConnectionInv, TypeOK, tableVars
  <2>4. PassiveHasRoom'
    BY <2>1 DEF ConnectionInv, PassiveHasRoom
  <2>5. ThreadsHaveKeys'
    BY <2>1, <2>2 DEF ConnectionInv, ThreadsHaveKeys, TypeOK
  <2>6. TableInv'
    BY <2>1 DEF ConnectionInv, tableVars, TableInv, HandlersOwnDescriptors, DescriptorsDisjoint,
         OthersHoldNothing, ClientRegistered, OriginRegistered, InterestsHandled, Held
  <2>7. WaitingIsServed'
    <3> SUFFICES ASSUME NEW q \in Slot, proc' = "up", Waiting(q)'
                 PROVE  \/ \E u \in Thread : tst'[u] # "idle" /\ tfd'[u] = client_fd'[q]
                        \/ \E i \in 1..Len(jobs') : jobs'[i] = client_fd'[q]
      BY DEF WaitingIsServed, Waiting
    <3>1. CASE q = s
      BY <2>1, <3>1 DEF ConnectionInv, TypeOK
    <3>2. CASE q # s
      <4>1. proc = "up" /\ Waiting(q) /\ client_fd'[q] = client_fd[q]
        BY <2>1, <3>2 DEF Waiting, ConnectionInv, TypeOK
      <4>2. CASE \E u \in Thread : tst[u] # "idle" /\ tfd[u] = client_fd[q]
        BY <2>1, <4>1, <4>2 DEF ConnectionInv, TypeOK
      <4>3. CASE \E i \in 1..Len(jobs) : jobs[i] = client_fd[q]
        BY <4>1, <4>3
      <4> QED
        BY <4>1, <4>2, <4>3 DEF ConnectionInv, WaitingIsServed, Waiting
    <3> QED
      BY <3>1, <3>2
  <2> QED
    BY <2>3, <2>4, <2>5, <2>6, <2>7 DEF ConnectionInv
<1> QED
  BY <1>1, <1>2

\* request_read.
LEMMA RequestReadStep ==
  ASSUME ConnectionInv, NEW f \in Fd, request_read(f) PROVE ConnectionInv'
<1> DEFINE s == owner[f]
<1>1. Dispatch(f, "READ", "REQUEST") /\ jobs' = jobs
  BY DEF request_read
<1>2. /\ s \in Slot /\ state[s] = "REQUEST" /\ Apart(s)
      /\ todo' \subseteq todo /\ phase' = phase
  BY <1>1, DispatchFacts DEF ConnectionInv
<1>3. CASE resolve_fqdn(s)
  BY <1>1, <1>2, <1>3, ResolveStep
<1>4. CASE ~resolve_fqdn(s)
  <2>1. \/ socksv5_done(s) \/ Stay
        \/ Advance(s, "REQUEST", "DST_LEN", {"READ"})
        \/ ToReply(s, "FAILED")
        \/ connect_to_dest(s, 1)
    BY <1>4 DEF request_read
  <2>2. Settled
    <3> HIDE DEF s
    <3> QED
      BY <1>2, <2>1, RequestSettled DEF ConnectionInv
  <2> QED
    BY <1>1, <1>2, <2>2, FinishStep
<1> QED
  BY <1>3, <1>4

\* handle_block_notifications: the connection a job is for waits no longer, or
\* the process has ended.
LEMMA RequestBlockStep ==
  ASSUME ConnectionInv, request_block PROVE ConnectionInv'
<1> DEFINE f == Head(jobs)
<1>1. /\ proc = "up" /\ jobs \in Seq(Fd) /\ jobs # <<>> /\ jobs' = Tail(jobs)
      /\ todo' \subseteq todo /\ phase' = phase
  BY DEF request_block, ConnectionInv, TypeOK
<1>2. /\ f \in Fd /\ f = jobs[1] /\ jobs' \in Seq(Fd) /\ Len(jobs) \in Nat
      /\ Len(jobs') = Len(jobs) - 1
      /\ \A i \in 1..Len(jobs') : jobs'[i] = jobs[i + 1]
  BY <1>1
<1>3. PICK s \in Slot \cup {Unused} : s = owner[f]
  BY <1>2 DEF ConnectionInv, TypeOK
<1>4. Settled /\ (s \in Slot /\ proc' = "up" /\ Waiting(s) => ~Waiting(s)')
  <2> HIDE DEF f
  <2>1. CASE s = Unused
    <3>1. Stay
      BY <1>3, <2>1 DEF request_block, f
    <3> QED
      BY <2>1, <3>1, StaySettled, SlotAssumption DEF ConnectionInv
  <2>2. CASE s # Unused /\ state[s] # "REQUEST"
    <3>1. Dies("aborted")
      BY <1>3, <2>2 DEF request_block, f
    <3> QED
      BY <2>2, <3>1, DiesSettled DEF ConnectionInv, Waiting
  <2>3. CASE s # Unused /\ state[s] = "REQUEST"
    <3>1. connect_to_dest(s, resolution[s])
      BY <1>3, <2>3 DEF request_block, f
    <3>2. s \in Slot /\ resolution[s] \in 0..MaxAddrs
      BY <1>3, <2>3 DEF ConnectionInv, TypeOK
    <3>3. Apart(s)
      BY <2>3, <3>2 DEF Apart, ConnectionInv, TableInv, OriginRegistered, OriginFits, Live, Handshake
    <3> QED
      BY <3>1, <3>2, <3>3, DestSettled DEF ConnectionInv
  <2> QED
    BY <2>1, <2>2, <2>3
<1>5. TypeOK' /\ PassiveHasRoom' /\ ThreadsHaveKeys' /\ TableInv'
  BY <1>1, <1>2, <1>4, SettledRest
<1>6. WaitingIsServed'
  <2> SUFFICES ASSUME NEW q \in Slot, proc' = "up", Waiting(q)'
               PROVE  \/ \E t \in Thread : tst'[t] # "idle" /\ tfd'[t] = client_fd'[q]
                      \/ \E i \in 1..Len(jobs') : jobs'[i] = client_fd'[q]
    BY DEF WaitingIsServed, Waiting
  <2>1. proc = "up" /\ Waiting(q) /\ client_fd'[q] = client_fd[q]
    BY <1>4 DEF Settled
  <2>2. tst' = tst /\ tfd' = tfd
    BY <1>4 DEF Settled, threadVars
  <2>3. CASE \E t \in Thread : tst[t] # "idle" /\ tfd[t] = client_fd[q]
    BY <2>1, <2>2, <2>3
  <2>4. ASSUME NEW i \in 1..Len(jobs), jobs[i] = client_fd[q]
        PROVE  \E j \in 1..Len(jobs') : jobs'[j] = client_fd'[q]
    <3>1. i # 1
      <4>1. SUFFICES ASSUME i = 1 PROVE FALSE
        OBVIOUS
      <4>2. owner[client_fd[q]] = q
        BY <2>1 DEF Waiting, ConnectionInv, TableInv, ClientRegistered, Live, Handshake
      <4>3. s = q
        BY <1>2, <1>3, <2>4, <4>1, <4>2
      <4> QED
        BY <1>4, <2>1, <4>3
    <3>2. i - 1 \in 1..Len(jobs') /\ jobs'[i - 1] = jobs[i]
      BY <1>2, <3>1
    <3> QED
      BY <2>1, <2>4, <3>2
  <2> QED
    BY <2>1, <2>3, <2>4 DEF ConnectionInv, WaitingIsServed, Waiting
<1> QED
  BY <1>5, <1>6 DEF ConnectionInv

\* Steps that leave the connections and the table alone.
LEMMA TableSame ==
  ASSUME TableInv, UNCHANGED <<state, client_fd, origin_fd, rep, owner, interest, sock>>
  PROVE  TableInv'
BY DEF TableInv, HandlersOwnDescriptors, DescriptorsDisjoint, OthersHoldNothing,
       ClientRegistered, OriginRegistered, InterestsHandled, Held

\* Nobody new waits, and nothing is taken from those who do.
LEMMA WaitSame ==
  ASSUME WaitingIsServed, UNCHANGED <<tst, tfd, jobs>>,
         \A q \in Slot : proc' = "up" /\ Waiting(q)' =>
           proc = "up" /\ Waiting(q) /\ client_fd'[q] = client_fd[q]
  PROVE  WaitingIsServed'
<1> SUFFICES ASSUME NEW q \in Slot, proc' = "up", Waiting(q)'
             PROVE  \/ \E t \in Thread : tst'[t] # "idle" /\ tfd'[t] = client_fd'[q]
                    \/ \E i \in 1..Len(jobs') : jobs'[i] = client_fd'[q]
  BY DEF WaitingIsServed, Waiting
<1>1. proc = "up" /\ Waiting(q) /\ client_fd'[q] = client_fd[q]
  OBVIOUS
<1> QED
  BY <1>1 DEF WaitingIsServed, Waiting

\* A new connection gets a descriptor that nobody holds.
LEMMA AcceptTable ==
  ASSUME TypeOK, TableInv, NEW s \in Slot, state[s] = "FREE", NEW f \in Fd, sock[f] = "free",
         owner' = [owner EXCEPT ![f] = s], sock' = [sock EXCEPT ![f] = "connected"],
         client_fd' = [client_fd EXCEPT ![s] = f],
         Goto(s, "GREETING", "READING", "NONE", [interest EXCEPT ![f] = {"READ"}]),
         origin_fd' = origin_fd
  PROVE  TableInv'
<1> USE SlotAssumption, FdFacts DEF TypeOK
<1>1. /\ state' = [state EXCEPT ![s] = "GREETING"] /\ rep' = [rep EXCEPT ![s] = "NONE"]
      /\ interest' = [interest EXCEPT ![f] = {"READ"}]
  BY DEF Goto
<1>2. "FREE" \notin Live /\ "GREETING" \in Live
  BY DEF Live, Handshake
<1>3. client_fd[s] = NoFd /\ origin_fd[s] = NoFd
  BY <1>2 DEF TableInv, OthersHoldNothing
<1>4. \A q \in Slot : f \notin Held(q)
  <2> SUFFICES ASSUME NEW q \in Slot PROVE f \notin Held(q)
    OBVIOUS
  <2>1. CASE state[q] \in Live
    BY <2>1 DEF TableInv, DescriptorsDisjoint
  <2>2. CASE state[q] \notin Live
    BY <2>2 DEF TableInv, OthersHoldNothing, Held
  <2> QED
    BY <2>1, <2>2
<1>5. owner[f] = Unused
  BY DEF TableInv, HandlersOwnDescriptors
<1>6. /\ \A q \in Slot \ {s} : /\ state'[q] = state[q] /\ rep'[q] = rep[q]
                              /\ client_fd'[q] = client_fd[q] /\ origin_fd'[q] = origin_fd[q]
                              /\ Held(q)' = Held(q)
      /\ state'[s] = "GREETING" /\ client_fd'[s] = f /\ origin_fd'[s] = NoFd
      /\ Held(s)' = {f}
  BY <1>1, <1>3 DEF Held
<1>7. /\ \A g \in Fd \ {f} : owner'[g] = owner[g] /\ sock'[g] = sock[g] /\ interest'[g] = interest[g]
      /\ owner'[f] = s /\ sock'[f] = "connected" /\ interest'[f] = {"READ"}
      /\ \A g \in Fd \ {f} : owner[g] # s
  <2>1. \A g \in Fd : owner[g] # s
    BY <1>2 DEF TableInv, HandlersOwnDescriptors
  <2> QED
    BY <1>1, <2>1
<1>8. HandlersOwnDescriptors'
  <2> SUFFICES ASSUME NEW g \in Fd, owner'[g] # Unused
               PROVE  /\ state'[owner'[g]] \in Live /\ g \in (Held(owner[g]))'
                      /\ sock'[g] # "free"
    BY Zenon DEF HandlersOwnDescriptors
  <2>1. CASE g = f
    BY <1>2, <1>6, <1>7, <2>1 DEF Held
  <2>2. CASE g # f
    <3>a. owner'[g] = owner[g] /\ sock'[g] = sock[g] /\ owner[g] # s
      BY <1>7, <2>2
    <3>1. owner'[g] = owner[g] /\ owner[g] \in Slot \ {s} /\ sock'[g] = sock[g]
      BY <3>a
    <3>2. state[owner[g]] \in Live /\ g \in Held(owner[g]) /\ sock[g] # "free"
      BY <3>1 DEF TableInv, HandlersOwnDescriptors
    <3> QED
      BY <1>6, <3>1, <3>2 DEF Held
  <2> QED
    BY <2>1, <2>2
<1>9. DescriptorsDisjoint'
  <2> SUFFICES ASSUME NEW q \in Slot, state'[q] \in Live
               PROVE  /\ client_fd'[q] \in Fd /\ client_fd'[q] # origin_fd'[q]
                      /\ \A g \in Held(q)' : sock'[g] # "free"
                      /\ \A p \in Slot \ {q} : Held(p)' \cap Held(q)' = {}
    BY Zenon DEF DescriptorsDisjoint
  <2>1. CASE q = s
    BY <1>4, <1>6, <1>7, <2>1
  <2>2. CASE q # s
    <3>1. /\ client_fd[q] \in Fd /\ client_fd[q] # origin_fd[q]
          /\ \A g \in Held(q) : sock[g] # "free"
          /\ \A p \in Slot \ {q} : Held(p) \cap Held(q) = {}
      BY <1>6, <2>2 DEF TableInv, DescriptorsDisjoint
    <3>2. Held(q) \subseteq Fd \ {f}
      BY <1>4 DEF Held
    <3>3. \A g \in Held(q)' : sock'[g] # "free"
      BY <1>6, <1>7, <2>2, <3>1, <3>2
    <3>4. ASSUME NEW p \in Slot \ {q} PROVE Held(p)' \cap Held(q)' = {}
      <4>1. CASE p = s
        BY <1>6, <2>2, <3>2, <4>1
      <4>2. CASE p # s
        BY <1>6, <2>2, <3>1, <4>2
      <4> QED
        BY <4>1, <4>2
    <3> QED
      BY <1>6, <2>2, <3>1, <3>3, <3>4
  <2> QED
    BY <2>1, <2>2
<1>10. OthersHoldNothing'
  BY <1>2, <1>6 DEF TableInv, OthersHoldNothing
<1>11. ClientRegistered'
  <2> SUFFICES ASSUME NEW q \in Slot, state'[q] \in Live PROVE owner'[client_fd'[q]] = q
    BY DEF ClientRegistered
  <2>1. CASE q = s
    BY <1>6, <1>7, <2>1
  <2>2. CASE q # s
    <3>1. client_fd[q] \in Fd \ {f} /\ owner[client_fd[q]] = q
      BY <1>4, <1>6, <2>2 DEF TableInv, ClientRegistered, DescriptorsDisjoint, Held
    <3> QED
      BY <1>6, <1>7, <2>2, <3>1
  <2> QED
    BY <2>1, <2>2
<1>12. OriginRegistered'
  <2> SUFFICES ASSUME NEW q \in Slot
               PROVE  OriginFits(q, state'[q], rep'[q], origin_fd'[q], owner'[origin_fd'[q]])
    BY DEF OriginRegistered
  <2>1. CASE q = s
    BY <1>6, <2>1 DEF OriginFits
  <2>2. CASE q # s
    <3>1. OriginFits(q, state[q], rep[q], origin_fd[q], owner[origin_fd[q]])
      BY DEF TableInv, OriginRegistered
    <3>2. CASE origin_fd[q] = NoFd
      BY <1>6, <2>2, <3>1, <3>2 DEF OriginFits
    <3>3. CASE origin_fd[q] # NoFd
      <4>1. origin_fd[q] \in Fd \ {f}
        BY <1>4, <3>3 DEF Held
      <4> QED
        BY <1>6, <1>7, <2>2, <3>1, <4>1
    <3> QED
      BY <3>2, <3>3
  <2> QED
    BY <2>1, <2>2
<1>13. InterestsHandled'
  <2> SUFFICES ASSUME NEW g \in Fd, owner'[g] # Unused
               PROVE  interest'[g] \subseteq Handlers(state'[owner'[g]])
    BY DEF InterestsHandled
  <2>1. CASE g = f
    BY <1>6, <1>7, <2>1, HandlersOf DEF Op
  <2>2. CASE g # f
    <3>1. owner'[g] = owner[g] /\ owner[g] \in Slot \ {s} /\ interest'[g] = interest[g]
      BY <1>7, <2>2
    <3> QED
      BY <1>6, <3>1 DEF TableInv, InterestsHandled
  <2> QED
    BY <2>1, <2>2
<1> QED
  BY <1>8, <1>9, <1>10, <1>11, <1>12, <1>13 DEF TableInv

\* socksv5_passive_accept.
LEMMA AcceptStep ==
  ASSUME ConnectionInv, socksv5_passive_accept PROVE ConnectionInv'
<1> USE SlotAssumption, FdFacts
<1>1. /\ todo' = todo \ {<<Passive, "READ">>} /\ UNCHANGED <<phase, threadVars, jobs, proc>>
      /\ <<Passive, "READ">> \in todo
  BY DEF socksv5_passive_accept, IsNext
<1>2. TypeOK /\ TableInv /\ WaitingIsServed /\ ThreadsHaveKeys
  BY DEF ConnectionInv
<1>3. currentConnections + 1 \in 0..MaxCount
  <2>1. currentConnections < MaxCount
    BY <1>1 DEF ConnectionInv, PassiveHasRoom
  <2> QED
    BY <1>2, <2>1, SizeAssumption DEF TypeOK
<1>4. PassiveHasRoom'
  BY <1>1 DEF PassiveHasRoom
<1>5. ThreadsHaveKeys'
  BY <1>1, <1>2 DEF ThreadsHaveKeys, threadVars
<1>6. ASSUME TableInv', ConnTypes', currentConnections' \in 0..MaxCount,
             \A q \in Slot : Waiting(q)' => Waiting(q) /\ client_fd'[q] = client_fd[q]
      PROVE  ConnectionInv'
  <2>1. TypeOK'
    BY <1>1, <1>2, <1>6 DEF TypeOK, ConnTypes, Socket, threadVars
  <2>2. UNCHANGED <<tst, tfd, jobs>>
    BY <1>1 DEF threadVars
  <2>3. WaitingIsServed'
    BY <1>1, <1>2, <1>6, <2>2, WaitSame
  <2> QED
    BY <1>4, <1>5, <1>6, <2>1, <2>3 DEF ConnectionInv
<1>7. ASSUME UNCHANGED <<connVars, tableVars, sock>>,
             currentConnections' \in {currentConnections, currentConnections + 1}
      PROVE  ConnectionInv'
  <2>1. TableInv'
    BY <1>2, <1>7, TableSame DEF connVars, tableVars
  <2>2. ConnTypes' /\ currentConnections' \in 0..MaxCount
    BY <1>2, <1>3, <1>7 DEF connVars, tableVars, TypeOK, ConnTypes, Socket
  <2> QED
    BY <1>6, <1>7, <2>1, <2>2 DEF connVars, Waiting
<1>8. CASE FreeFds(sock) = {}
  BY <1>7, <1>8 DEF socksv5_passive_accept
<1>9. CASE FreeFds(sock) # {}
  <2> DEFINE f == Least(FreeFds(sock))
             free == {s \in Slot : state[s] = "FREE"}
  <2>1. f \in Fd /\ sock[f] = "free"
    BY <1>2, <1>9, LeastIsFree DEF TypeOK, Socket
  <2>2. CASE free = {}
    BY <1>7, <1>9, <2>2 DEF socksv5_passive_accept
  <2>3. CASE free # {}
    <3>1. PICK s \in free :
            IF f < FdSetSize /\ owner[f] = Unused
            THEN /\ owner' = [owner EXCEPT ![f] = s]
                 /\ sock' = [sock EXCEPT ![f] = "connected"]
                 /\ client_fd' = [client_fd EXCEPT ![s] = f]
                 /\ Goto(s, "GREETING", "READING", "NONE",
                         [interest EXCEPT ![f] = {"READ"}])
                 /\ UNCHANGED <<origin_fd, resolution>>
            ELSE /\ state' = [state EXCEPT ![s] = "LEAKED"]
                 /\ UNCHANGED <<sub, client_fd, origin_fd, resolution, rep, tableVars, sock>>
      BY <1>9, <2>3 DEF socksv5_passive_accept
    <3>2. currentConnections' = currentConnections + 1
      BY <1>9 DEF socksv5_passive_accept
    <3>3. s \in Slot /\ state[s] = "FREE"
      OBVIOUS
    <3> HIDE DEF f, free
    <3>4. CASE f < FdSetSize /\ owner[f] = Unused
      <4>1. TableInv'
        BY <1>2, <2>1, <3>1, <3>3, <3>4, AcceptTable
      <4>2. /\ state' = [state EXCEPT ![s] = "GREETING"] /\ sub' = [sub EXCEPT ![s] = "READING"]
            /\ rep' = [rep EXCEPT ![s] = "NONE"] /\ interest' = [interest EXCEPT ![f] = {"READ"}]
        BY <3>1, <3>4 DEF Goto
      <4>3. ConnTypes'
        <5>1. /\ owner' \in [Fd -> Slot \cup {Unused}] /\ sock' \in [Fd -> Socket]
              /\ client_fd' \in [Slot -> Fd \cup {NoFd}]
          <6>1. /\ owner' = [owner EXCEPT ![f] = s] /\ sock' = [sock EXCEPT ![f] = "connected"]
                /\ client_fd' = [client_fd EXCEPT ![s] = f]
            BY <3>1, <3>4
          <6>2. sock \in [Fd -> Socket] /\ "connected" \in Socket
            BY <1>2 DEF TypeOK, Socket
          <6> QED
            BY <1>2, <2>1, <3>3, <6>1, <6>2 DEF TypeOK
        <5>2. /\ state' \in [Slot -> Live \cup {"FREE", "LEAKED"}]
              /\ interest' \in [Fd -> SUBSET Op]
          BY <1>2, <2>1, <3>3, <4>2 DEF TypeOK, Live, Handshake, Op
        <5> QED
          BY <1>2, <3>1, <3>3, <3>4, <4>2, <5>1, <5>2 DEF TypeOK, ConnTypes
      <4>4. \A q \in Slot : Waiting(q)' => Waiting(q) /\ client_fd'[q] = client_fd[q]
        BY <1>2, <3>1, <3>3, <3>4, <4>2 DEF Waiting, TypeOK
      <4> QED
        BY <1>3, <1>6, <3>2, <4>1, <4>3, <4>4
    <3>5. CASE ~(f < FdSetSize /\ owner[f] = Unused)
      <4>1. /\ state' = [state EXCEPT ![s] = "LEAKED"]
            /\ UNCHANGED <<sub, client_fd, origin_fd, resolution, rep, owner, interest, sock>>
        BY <3>1, <3>5 DEF tableVars
      <4>2. "FREE" \notin Live /\ "LEAKED" \notin Live
        BY DEF Live, Handshake
      <4>3. /\ \A q \in Slot : state'[q] \in Live <=> state[q] \in Live
            /\ \A q \in Slot : state[q] \in Live => state'[q] = state[q]
            /\ \A q \in Slot : Held(q)' = Held(q)
        BY <1>2, <3>3, <4>1, <4>2 DEF TypeOK, Held
      <4>4. HandlersOwnDescriptors'
        BY <1>2, <4>1, <4>3 DEF TableInv, HandlersOwnDescriptors, TypeOK, Held
      <4>5. DescriptorsDisjoint' /\ OthersHoldNothing' /\ ClientRegistered'
        BY <1>2, <4>1, <4>3
           DEF TableInv, DescriptorsDisjoint, OthersHoldNothing, ClientRegistered
      <4>6. OriginRegistered'
        BY <1>2, <3>3, <4>1 DEF TableInv, OriginRegistered, OriginFits, TypeOK
      <4>7. InterestsHandled'
        BY <1>2, <4>1, <4>3 DEF TableInv, InterestsHandled, HandlersOwnDescriptors, TypeOK
      <4>8. ConnTypes'
        BY <1>2, <3>3, <4>1 DEF TypeOK, ConnTypes, Socket
      <4>9. \A q \in Slot : Waiting(q)' => Waiting(q) /\ client_fd'[q] = client_fd[q]
        BY <1>2, <3>3, <4>1 DEF Waiting, TypeOK
      <4>10. TableInv'
        BY <4>4, <4>5, <4>6, <4>7 DEF TableInv
      <4> QED
        BY <1>3, <1>6, <3>2, <4>8, <4>9, <4>10
    <3> QED
      BY <3>4, <3>5
  <2> QED
    BY <2>2, <2>3
<1> QED
  BY <1>8, <1>9

\* Steps of the loop that call no handler.
LEMMA LoopSteps ==
  ASSUME ConnectionInv, Select \/ Skip \/ Lock \/ Unlock PROVE ConnectionInv'
<1> USE SlotAssumption, FdFacts
<1>1. UNCHANGED <<connVars, tableVars, threadVars, jobs, sock, currentConnections, proc>>
  BY DEF Select, Skip, Lock, Unlock
<1>2. TableInv' /\ ThreadsHaveKeys'
  BY <1>1, TableSame DEF ConnectionInv, connVars, tableVars, threadVars, ThreadsHaveKeys
<1>3. WaitingIsServed'
  BY <1>1 DEF ConnectionInv, connVars, threadVars, WaitingIsServed
<1>4. /\ todo' \subseteq (Fd \X Op) \cup {<<Passive, "READ">>}
      /\ phase' \in {"select", "events", "jobs"}
      /\ <<Passive, "READ">> \in todo' => currentConnections < MaxCount
  <2>1. CASE Select
    <3>1. Watched \subseteq Fd \X Op
      BY DEF Watched
    <3>2. \A e \in Fd \X Op : e # <<Passive, "READ">>
      OBVIOUS
    <3> QED
      BY <2>1, <3>1, <3>2 DEF Select
  <2>2. CASE Skip \/ Lock \/ Unlock
    BY <2>2 DEF Skip, Lock, Unlock, ConnectionInv, TypeOK, PassiveHasRoom
  <2> QED
    BY <2>1, <2>2
<1>5. TypeOK'
  BY <1>1, <1>4 DEF ConnectionInv, TypeOK, connVars, tableVars, threadVars
<1>6. PassiveHasRoom'
  BY <1>1, <1>4 DEF PassiveHasRoom
<1> QED
  BY <1>2, <1>3, <1>5, <1>6 DEF ConnectionInv

\* resolve_fqdn_blocking: only the list of addresses is written.
LEMMA BlockingStep ==
  ASSUME ConnectionInv, NEW t \in Thread, resolve_fqdn_blocking(t) PROVE ConnectionInv'
<1>1. /\ tst[t] = "resolving" /\ tst' = [tst EXCEPT ![t] = "resolved"]
      /\ UNCHANGED <<state, sub, client_fd, origin_fd, rep, owner, interest, todo, phase,
                     tslot, tfd, jobs, sock, currentConnections, proc>>
  BY DEF resolve_fqdn_blocking, tableVars
<1>2. tslot[t] \in Slot
  BY <1>1 DEF ConnectionInv, ThreadsHaveKeys
<1>3. resolution' \in [Slot -> 0..MaxAddrs]
  <2>1. PICK n \in 0..MaxAddrs : resolution' = IF state[tslot[t]] \in Live
                     THEN [resolution EXCEPT ![tslot[t]] = n] ELSE resolution
    BY DEF resolve_fqdn_blocking
  <2> QED
    BY <1>2, <2>1 DEF ConnectionInv, TypeOK
<1>4. TypeOK'
  BY <1>1, <1>3 DEF ConnectionInv, TypeOK
<1>5. \A u \in Thread : tst'[u] # "idle" <=> tst[u] # "idle"
  BY <1>1 DEF ConnectionInv, TypeOK
<1>6. ThreadsHaveKeys' /\ PassiveHasRoom'
  BY <1>1, <1>5 DEF ConnectionInv, ThreadsHaveKeys, PassiveHasRoom
<1>7. TableInv'
  BY <1>1, TableSame DEF ConnectionInv
<1>8. WaitingIsServed'
  BY <1>1, <1>5 DEF ConnectionInv, WaitingIsServed
<1> QED
  BY <1>4, <1>6, <1>7, <1>8 DEF ConnectionInv

\* selector_notify_block: the thread ends, and its job stands for it.
LEMMA NotifyStep ==
  ASSUME ConnectionInv, NEW t \in Thread, selector_notify_block(t) PROVE ConnectionInv'
<1> USE SlotAssumption, FdFacts
<1>1. /\ tst[t] = "resolved" /\ tst' = [tst EXCEPT ![t] = "idle"]
      /\ tslot' = [tslot EXCEPT ![t] = Unused] /\ tfd' = [tfd EXCEPT ![t] = NoFd]
      /\ jobs' = <<tfd[t]>> \o jobs
      /\ UNCHANGED <<state, sub, client_fd, origin_fd, resolution, rep, owner, interest, todo,
                     phase, sock, currentConnections, proc>>
  BY DEF selector_notify_block, connVars, tableVars
<1>2. tfd[t] \in Fd /\ jobs \in Seq(Fd)
  BY <1>1 DEF ConnectionInv, ThreadsHaveKeys, TypeOK
<1>3. /\ jobs' \in Seq(Fd) /\ Len(jobs') = Len(jobs) + 1 /\ Len(jobs) \in Nat
      /\ jobs'[1] = tfd[t] /\ \A i \in 1..Len(jobs) : jobs'[i + 1] = jobs[i]
  BY <1>1, <1>2
<1>4. TypeOK'
  BY <1>1, <1>3 DEF ConnectionInv, TypeOK
<1>5. ThreadsHaveKeys' /\ PassiveHasRoom'
  BY <1>1 DEF ConnectionInv, ThreadsHaveKeys, PassiveHasRoom, TypeOK
<1>6. TableInv'
  BY <1>1, TableSame DEF ConnectionInv
<1>7. WaitingIsServed'
  <2> SUFFICES ASSUME NEW q \in Slot, proc' = "up", Waiting(q)'
               PROVE  \/ \E u \in Thread : tst'[u] # "idle" /\ tfd'[u] = client_fd'[q]
                      \/ \E i \in 1..Len(jobs') : jobs'[i] = client_fd'[q]
    BY DEF WaitingIsServed, Waiting
  <2>1. \/ \E u \in Thread : tst[u] # "idle" /\ tfd[u] = client_fd[q]
        \/ \E i \in 1..Len(jobs) : jobs[i] = client_fd[q]
    BY <1>1 DEF ConnectionInv, WaitingIsServed, Waiting
  <2>2. CASE \E i \in 1..Len(jobs) : jobs[i] = client_fd[q]
    <3>1. PICK i \in 1..Len(jobs) : jobs[i] = client_fd[q]
      BY <2>2
    <3>2. i + 1 \in 1..Len(jobs') /\ jobs'[i + 1] = client_fd'[q]
      BY <1>1, <1>3, <3>1
    <3> QED
      BY <3>2
  <2>3. CASE tfd[t] = client_fd[q]
    <3>1. 1 \in 1..Len(jobs') /\ jobs'[1] = client_fd'[q]
      BY <1>1, <1>3, <2>3
    <3> QED
      BY <3>1
  <2>4. ASSUME NEW u \in Thread \ {t}, tst[u] # "idle", tfd[u] = client_fd[q]
        PROVE  tst'[u] # "idle" /\ tfd'[u] = client_fd'[q]
    BY <1>1, <2>4 DEF ConnectionInv, TypeOK
  <2> QED
    BY <2>1, <2>2, <2>3, <2>4
<1> QED
  BY <1>4, <1>5, <1>6, <1>7 DEF ConnectionInv

\* The kernel's part: a socket that was not free is not free.
LEMMA ConnectedStep ==
  ASSUME ConnectionInv, NEW f \in Fd, NEW r \in {"connected", "failed"}, Connected(f, r)
  PROVE  ConnectionInv'
<1>1. /\ sock[f] = "connecting" /\ sock' = [sock EXCEPT ![f] = r]
      /\ UNCHANGED <<state, sub, client_fd, origin_fd, resolution, rep, owner, interest, todo,
                     phase, threadVars, jobs, currentConnections, proc>>
  BY DEF Connected, connVars, tableVars
<1>2. \A g \in Fd : sock'[g] = "free" <=> sock[g] = "free"
  BY <1>1 DEF ConnectionInv, TypeOK
<1>3. \A q \in Slot : Held(q)' = Held(q) /\ Held(q) \subseteq Fd
  BY <1>1, FdFacts DEF Held, ConnectionInv, TypeOK
<1>4. TypeOK' /\ ThreadsHaveKeys' /\ PassiveHasRoom'
  BY <1>1 DEF ConnectionInv, TypeOK, ThreadsHaveKeys, PassiveHasRoom, threadVars
<1>5. HandlersOwnDescriptors'
  BY <1>1, <1>2 DEF ConnectionInv, TableInv, HandlersOwnDescriptors, Held
<1>6. DescriptorsDisjoint'
  BY <1>1, <1>2, <1>3 DEF ConnectionInv, TableInv, DescriptorsDisjoint
<1>7. OthersHoldNothing' /\ ClientRegistered' /\ OriginRegistered' /\ InterestsHandled'
  BY <1>1 DEF ConnectionInv, TableInv, OthersHoldNothing, ClientRegistered,
              OriginRegistered, InterestsHandled
<1>8. WaitingIsServed'
  BY <1>1 DEF ConnectionInv, WaitingIsServed, threadVars
<1> QED
  BY <1>4, <1>5, <1>6, <1>7, <1>8 DEF ConnectionInv, TableInv

------------------------------------------------------------------------------
\* ConnectionInv holds when the loop starts.
LEMMA InitInv == Init => ConnectionInv
<1> SUFFICES ASSUME Init PROVE ConnectionInv
  OBVIOUS
<1> USE SlotAssumption, SizeAssumption
<1>1. TypeOK
  BY DEF Init, TypeOK, Op
<1>2. "FREE" \notin Live /\ "FREE" # "REQUEST"
  BY DEF Live, Handshake
<1>3. PassiveHasRoom /\ ThreadsHaveKeys /\ WaitingIsServed
  BY DEF Init, PassiveHasRoom, ThreadsHaveKeys, WaitingIsServed
<1>4. TableInv
  BY <1>2 DEF Init, TableInv, HandlersOwnDescriptors, DescriptorsDisjoint, OthersHoldNothing,
              ClientRegistered, OriginRegistered, OriginFits, InterestsHandled
<1> QED
  BY <1>1, <1>3, <1>4 DEF ConnectionInv

\* Every step of the loop, the threads and the network keeps ConnectionInv.
LEMMA NextInv == ConnectionInv /\ [Next]_vars => ConnectionInv'
<1> SUFFICES ASSUME ConnectionInv, [Next]_vars PROVE ConnectionInv'
  OBVIOUS
<1>1. TypeOK /\ TableInv
  BY DEF ConnectionInv
<1>2. CASE UNCHANGED vars
  <2>1. UNCHANGED <<connVars, tableVars, todo, phase, threadVars, jobs, sock,
                    currentConnections, proc>>
    BY <1>2 DEF vars
  <2>2. Stay /\ todo' \subseteq todo /\ phase' = phase /\ jobs' = jobs
    BY <2>1 DEF Stay
  <2> QED
    BY <1>1, <2>2, StaySettled, FinishStep
<1>3. CASE Loop
  <2>1. CASE Select \/ Skip \/ Lock \/ Unlock
    BY <2>1, LoopSteps
  <2>2. CASE request_block
    BY <2>2, RequestBlockStep
  <2>3. CASE socksv5_passive_accept
    BY <2>3, AcceptStep
  <2>4. ASSUME NEW f \in Fd,
               greeting_read(f) \/ greeting_write(f) \/ auth_read(f) \/ auth_write(f)
        PROVE  ConnectionInv'
    BY <1>1, <2>4, HandshakeSettled, FinishStep
  <2>5. ASSUME NEW f \in Fd, request_read(f) PROVE ConnectionInv'
    BY <2>5, RequestReadStep
  <2>6. ASSUME NEW f \in Fd, connect_write(f) PROVE ConnectionInv'
    BY <1>1, <2>6, ConnectWriteSettled, FinishStep
  <2>7. ASSUME NEW f \in Fd, reply_write(f) PROVE ConnectionInv'
    BY <1>1, <2>7, ReplyWriteSettled, FinishStep
  <2>8. ASSUME NEW f \in Fd, copy_event(f, "READ") \/ copy_event(f, "WRITE")
        PROVE  ConnectionInv'
    BY <1>1, <2>8, CopySettled, FinishStep
  <2> QED
    BY <1>3, <2>1, <2>2, <2>3, <2>4, <2>5, <2>6, <2>7, <2>8 DEF Loop
<1>4. CASE \E t \in Thread : Resolver(t)
  BY <1>4, BlockingStep, NotifyStep DEF Resolver
<1>5. CASE Network
  BY <1>5, ConnectedStep DEF Network
<1>6. CASE Ended
  BY <1>2, <1>6 DEF Ended
<1> QED
  BY <1>2, <1>3, <1>4, <1>5, <1>6 DEF Next

\* ConnectionInv holds in every state the proxy can be in.
LEMMA AlwaysInv == Spec => []ConnectionInv
BY InitInv, NextInv, PTL DEF Spec

\* Every variable keeps the values the code gives it: a descriptor in a struct
\* is one the process may have or -1, and the count of connections never leaves
\* its bound, though a close may count twice.
THEOREM ConnectionTypes == Spec => []TypeOK
<1>1. ConnectionInv => TypeOK
  BY DEF ConnectionInv
<1> QED
  BY <1>1, AlwaysInv, PTL

\* handle_iteration never calls a handler of socks5nio.c with a freed struct, or
\* with a descriptor that is another connection's: however many connections,
\* descriptors and resolver threads there are, and however both numbers and
\* memory are handed out again.
THEOREM NoStaleHandler == Spec => []HandlersOwnDescriptors
<1>1. ConnectionInv => HandlersOwnDescriptors
  BY DEF ConnectionInv, TableInv
<1> QED
  BY <1>1, AlwaysInv, PTL

\* socksv5_done and connect_write close only descriptors that are open and
\* their own.
THEOREM NoForeignClose == Spec => []DescriptorsDisjoint
<1>1. ConnectionInv => DescriptorsDisjoint
  BY DEF ConnectionInv, TableInv
<1> QED
  BY <1>1, AlwaysInv, PTL

\* The asserts of stm_handler_read and stm_handler_write never fail.
THEOREM NoUnhandledEvent == Spec => []InterestsHandled
<1>1. ConnectionInv => InterestsHandled
  BY DEF ConnectionInv, TableInv
<1> QED
  BY <1>1, AlwaysInv, PTL

\* A connection that relays has both its descriptors registered, for itself.
THEOREM RelayIsComplete == Spec => []RelayHasBothEnds
<1>1. ConnectionInv => RelayHasBothEnds
  <2> SUFFICES ASSUME ConnectionInv, NEW s \in Slot, state[s] = "COPY"
               PROVE  /\ origin_fd[s] \in Fd
                      /\ owner[client_fd[s]] = s /\ owner[origin_fd[s]] = s
    BY DEF RelayHasBothEnds
  <2>1. owner[client_fd[s]] = s
    BY DEF ConnectionInv, TableInv, ClientRegistered, Live
  <2>2. OriginFits(s, "COPY", rep[s], origin_fd[s], owner[origin_fd[s]])
    BY DEF ConnectionInv, TableInv, OriginRegistered
  <2> QED
    BY <2>1, <2>2 DEF OriginFits, ConnectionInv, TypeOK
<1> QED
  BY <1>1, AlwaysInv, PTL

\* While the process is up, a connection that waits for a name has a thread at
\* work for it or a job in the list: no interleaving of the loop with any number
\* of threads, of closes and of accepts loses the notification.
THEOREM NoLostResolution == Spec => []WaitingIsServed
<1>1. ConnectionInv => WaitingIsServed
  BY DEF ConnectionInv
<1> QED
  BY <1>1, AlwaysInv, PTL

------------------------------------------------------------------------------
(* What a step does for one connection, it does to no other.               *)

\* The entry, the interest and the socket of f are what they were.
SameDescriptor(f) == owner'[f] = owner[f] /\ interest'[f] = interest[f] /\ sock'[f] = sock[f]

\* The step writes to no struct but c's, and to no descriptor but c's and free ones.
Confined(c) ==
  /\ \A r \in Slot \ {c} : Struct(r)' = Struct(r)
  /\ \A f \in Fd : f \in Held(c) \/ sock[f] = "free" \/ SameDescriptor(f)

\* What OthersUntouched says of one step.
LeavesOthers ==
  \A r, s \in Slot :
    r # s /\ Struct(r)' # Struct(r) /\ state[s] \in Live =>
      \A f \in Held(s) :
        owner'[f] = owner[f] /\ interest'[f] = interest[f] /\ sock'[f] = sock[f]

\* The descriptors of a connection are neither free nor another's.
LEMMA ConfinedIsEnough ==
  ASSUME TypeOK, TableInv, NEW c \in Slot, Confined(c) PROVE LeavesOthers
<1> SUFFICES ASSUME NEW r \in Slot, NEW s \in Slot, r # s, Struct(r)' # Struct(r),
                    state[s] \in Live, NEW f \in Held(s)
             PROVE  SameDescriptor(f)
  BY Zenon DEF LeavesOthers, SameDescriptor
<1>1. c # s
  BY DEF Confined
<1>2. f \in Fd
  BY DEF Held, TypeOK
<1>3. f \notin Held(c) /\ sock[f] # "free"
  BY <1>1 DEF TableInv, DescriptorsDisjoint
<1> QED
  BY <1>2, <1>3 DEF Confined

\* A step that writes to no struct has nothing to leave alone.
LEMMA QuietIsEnough == ASSUME UNCHANGED connVars PROVE LeavesOthers
BY DEF LeavesOthers, Struct, connVars

\* A connection that has a client holds that descriptor, and its origin's if any.
LEMMA OwnDescriptors ==
  ASSUME TypeOK, TableInv, NEW s \in Slot, state[s] \in Live
  PROVE  /\ client_fd[s] \in Fd /\ client_fd[s] \in Held(s)
         /\ origin_fd[s] \in Fd => origin_fd[s] \in Held(s)
BY FdFacts DEF TypeOK, TableInv, DescriptorsDisjoint, Held

\* Only the struct of s is written.
LEMMA OneStruct ==
  ASSUME TypeOK, NEW s \in Slot, NEW r \in Slot \ {s}, NEW st, NEW u, NEW p,
         NEW c, NEW o, NEW n, NEW i, Goto(s, st, u, p, i),
         client_fd' = client_fd \/ client_fd' = [client_fd EXCEPT ![s] = c],
         origin_fd' = origin_fd \/ origin_fd' = [origin_fd EXCEPT ![s] = o],
         resolution' = resolution \/ resolution' = [resolution EXCEPT ![s] = n]
  PROVE  Struct(r)' = Struct(r)
<1>1. state'[r] = state[r] /\ sub'[r] = sub[r] /\ rep'[r] = rep[r]
  BY DEF Goto, TypeOK
<1>2. client_fd'[r] = client_fd[r] /\ origin_fd'[r] = origin_fd[r]
      /\ resolution'[r] = resolution[r]
  BY DEF TypeOK
<1> QED
  BY <1>1, <1>2 DEF Struct

\* Nothing changes for any connection, or the process ends.
LEMMA StayConfined ==
  ASSUME Stay \/ (\E how : Dies(how)) PROVE LeavesOthers
BY QuietIsEnough DEF Stay, Dies

\* socksv5_done closes and unregisters what the connection holds.
LEMMA DoneConfined ==
  ASSUME TypeOK, TableInv, NEW s \in Slot, socksv5_done(s) PROVE Confined(s)
<1>1. \A r \in Slot \ {s} : Struct(r)' = Struct(r)
  BY OneStruct DEF socksv5_done
<1>2. ASSUME NEW f \in Fd, f \notin Held(s) PROVE SameDescriptor(f)
  <2>1. f \notin Registered(s)
    BY <1>2 DEF Registered
  <2> QED
    BY <1>2, <2>1 DEF socksv5_done, Goto, SameDescriptor
<1> QED
  BY <1>1, <1>2 DEF Confined

\* A jump that sets the interest of the client, of the origin, or of both.
LEMMA GotoConfined ==
  ASSUME TypeOK, TableInv, NEW s \in Slot, state[s] \in Live, NEW st, NEW u, NEW p, NEW i,
         Goto(s, st, u, p, i), UNCHANGED <<client_fd, origin_fd, resolution, owner, sock>>,
         \A f \in Fd : f # client_fd[s] /\ f # origin_fd[s] => i[f] = interest[f]
  PROVE  Confined(s)
<1>1. \A r \in Slot \ {s} : Struct(r)' = Struct(r)
  BY OneStruct
<1>2. interest' = i
  BY DEF Goto
<1>3. ASSUME NEW f \in Fd, f \notin Held(s) PROVE SameDescriptor(f)
  <2>1. f # client_fd[s] /\ f # origin_fd[s]
    BY <1>3, OwnDescriptors
  <2> QED
    BY <1>2, <2>1 DEF SameDescriptor
<1> QED
  BY <1>1, <1>3 DEF Confined

\* A step of the handshake, and to_reply_state.
LEMMA AdvanceConfined ==
  ASSUME TypeOK, TableInv, NEW s \in Slot, state[s] \in Live,
         (\E st, u, i : Advance(s, st, u, i)) \/ (\E r : ToReply(s, r))
  PROVE  Confined(s)
<1>1. PICK st, u, p, i : /\ Goto(s, st, u, p, ClientInterest(s, i))
                         /\ UNCHANGED <<client_fd, origin_fd, resolution, owner, sock>>
  BY DEF Advance, ToReply
<1>2. \A f \in Fd : f # client_fd[s] /\ f # origin_fd[s] => ClientInterest(s, i)[f] = interest[f]
  BY DEF ClientInterest, TypeOK
<1> QED
  BY <1>1, <1>2, GotoConfined

\* try_connection uses the descriptor the caller has closed, or one nobody has.
LEMMA TryConfined ==
  ASSUME TypeOK, TableInv, NEW s \in Slot, state[s] \in Live, NEW n,
         NEW k \in [Fd -> Socket], NEW o \in [Fd -> Slot \cup {Unused}],
         NEW i \in [Fd -> SUBSET Op],
         \A g \in Fd \ {origin_fd[s]} : k[g] = sock[g] /\ o[g] = owner[g] /\ i[g] = interest[g],
         try_connection(s, n, k, o, i)
  PROVE  LeavesOthers
<1>1. CASE FreeFds(k) = {}
  BY <1>1, StayConfined DEF try_connection
<1>2. CASE FreeFds(k) # {}
  <2> DEFINE f == Least(FreeFds(k))
  <2>1. f \in Fd /\ k[f] = "free"
    BY <1>2, LeastIsFree
  <2> HIDE DEF f
  <2>2. PICK left \in 1..n :
          /\ resolution' = [resolution EXCEPT ![s] = left]
          /\ origin_fd' = [origin_fd EXCEPT ![s] = f]
          /\ \E r \in {"connecting", "connected", "failed"} : sock' = [k EXCEPT ![f] = r]
          /\ \/ /\ owner' = [o EXCEPT ![f] = s]
                /\ Goto(s, "CONNECT", "NONE", "NONE",
                        [i EXCEPT ![client_fd[s]] = {"WRITE"}, ![f] = {"WRITE"}])
             \/ /\ owner' = o
                /\ Goto(s, "REPLY", "NONE", "FAILED",
                        [i EXCEPT ![client_fd[s]] = {"WRITE"}])
          /\ client_fd' = client_fd
    BY <1>2 DEF try_connection, f
  <2>3. \A r \in Slot \ {s} : Struct(r)' = Struct(r)
    BY <2>2, OneStruct
  <2>4. ASSUME NEW g \in Fd, g \notin Held(s), sock[g] # "free" PROVE SameDescriptor(g)
    <3>1. g # client_fd[s] /\ g # origin_fd[s]
      BY <2>4, OwnDescriptors
    <3>2. k[g] = sock[g] /\ o[g] = owner[g] /\ i[g] = interest[g]
      BY <3>1
    <3>3. g # f
      BY <2>1, <2>4, <3>2
    <3>4. owner'[g] = o[g] /\ sock'[g] = k[g]
      BY <2>2, <3>3
    <3>5. interest'[g] = i[g]
      BY <2>2, <3>1, <3>3 DEF Goto
    <3> QED
      BY <3>2, <3>4, <3>5 DEF SameDescriptor
  <2>5. Confined(s)
    BY <2>3, <2>4 DEF Confined
  <2> QED
    BY <2>5, ConfinedIsEnough
<1> QED
  BY <1>1, <1>2

LEMMA DestConfined ==
  ASSUME TypeOK, TableInv, NEW s \in Slot, state[s] \in Live, NEW n, connect_to_dest(s, n)
  PROVE  LeavesOthers
<1>1. CASE n = 0
  BY <1>1, AdvanceConfined, ConfinedIsEnough DEF connect_to_dest
<1>2. CASE n # 0
  <2>1. /\ sock \in [Fd -> Socket] /\ owner \in [Fd -> Slot \cup {Unused}]
        /\ interest \in [Fd -> SUBSET Op]
    BY DEF TypeOK, Socket
  <2>2. try_connection(s, n, sock, owner, interest)
    BY <1>2 DEF connect_to_dest
  <2> QED
    BY <2>1, <2>2, TryConfined
<1> QED
  BY <1>1, <1>2

\* resolve_fqdn writes to a thread and to the connection, to no descriptor.
LEMMA ResolveConfined ==
  ASSUME TypeOK, TableInv, NEW s \in Slot, state[s] \in Live, resolve_fqdn(s)
  PROVE  LeavesOthers
<1>1. CASE \A t \in Thread : tst[t] # "idle"
  BY <1>1, AdvanceConfined, ConfinedIsEnough DEF resolve_fqdn
<1>2. CASE ~ \A t \in Thread : tst[t] # "idle"
  <2>1. /\ sub' = [sub EXCEPT ![s] = "DST_RES"]
        /\ UNCHANGED <<state, client_fd, origin_fd, resolution, rep, owner, interest, sock>>
    BY <1>2 DEF resolve_fqdn, tableVars
  <2>2. \A r \in Slot \ {s} : Struct(r)' = Struct(r)
    BY <2>1 DEF Struct, TypeOK
  <2>3. Confined(s)
    BY <2>1, <2>2 DEF Confined, SameDescriptor
  <2> QED
    BY <2>3, ConfinedIsEnough
<1> QED
  BY <1>1, <1>2

\* connect_write closes the socket of its own origin.
LEMMA ConnectWriteConfined ==
  ASSUME TypeOK, TableInv, NEW f \in Fd, connect_write(f) PROVE LeavesOthers
<1> DEFINE s == owner[f]
           o == origin_fd[s]
           n == resolution[s]
           k == [sock EXCEPT ![o] = "free"]
           own == [owner EXCEPT ![o] = Unused]
           int == [interest EXCEPT ![o] = {}]
<1>1. s \in Slot /\ state[s] \in Live
  BY DispatchFacts DEF connect_write
<1>2. /\ k \in [Fd -> Socket] /\ own \in [Fd -> Slot \cup {Unused}]
      /\ int \in [Fd -> SUBSET Op]
      /\ \A g \in Fd \ {o} : k[g] = sock[g] /\ own[g] = owner[g] /\ int[g] = interest[g]
  <2>1. k \in [Fd -> Socket] /\ own \in [Fd -> Slot \cup {Unused}]
    BY DEF TypeOK, Socket
  <2>2. int \in [Fd -> SUBSET Op]
    BY DEF TypeOK
  <2>3. \A g \in Fd \ {o} : k[g] = sock[g] /\ own[g] = owner[g] /\ int[g] = interest[g]
    BY DEF TypeOK
  <2> QED
    BY <2>1, <2>2, <2>3
<1>3. ASSUME Dies("crashed") PROVE LeavesOthers
  BY <1>3, StayConfined
<1>4. ASSUME Goto(s, "REPLY", "NONE", "SUCCEDED", [int EXCEPT ![client_fd[s]] = {"WRITE"}]),
             UNCHANGED <<client_fd, origin_fd, resolution, owner, sock>>
      PROVE  LeavesOthers
  <2>1. \A g \in Fd : g # client_fd[s] /\ g # origin_fd[s] =>
          [int EXCEPT ![client_fd[s]] = {"WRITE"}][g] = interest[g]
    BY <1>2
  <2>2. Confined(s)
    BY <1>1, <1>4, <2>1, GotoConfined
  <2> QED
    BY <1>1, <2>2, ConfinedIsEnough
<1>5. ASSUME try_connection(s, n - 1, k, own, int) PROVE LeavesOthers
  <2> HIDE DEF s, k, own, int, n
  <2> QED
    BY <1>1, <1>2, <1>5, TryConfined
<1>6. ASSUME NEW r, sock' = k, owner' = own, ForgetOrigin(s),
             Goto(s, "REPLY", "NONE", r, [int EXCEPT ![client_fd[s]] = {"WRITE"}]),
             UNCHANGED <<client_fd, resolution>>
      PROVE  LeavesOthers
  <2>1. \A q \in Slot \ {s} : Struct(q)' = Struct(q)
    BY <1>1, <1>6, OneStruct DEF ForgetOrigin
  <2>2. ASSUME NEW g \in Fd, g \notin Held(s) PROVE SameDescriptor(g)
    <3>1. g # client_fd[s] /\ g # o
      BY <1>1, <2>2, OwnDescriptors
    <3>2. interest'[g] = int[g]
      BY <1>2, <1>6, <3>1 DEF Goto
    <3> QED
      BY <1>2, <1>6, <3>1, <3>2 DEF SameDescriptor
  <2>3. Confined(s)
    BY <2>1, <2>2 DEF Confined
  <2> QED
    BY <1>1, <2>3, ConfinedIsEnough
<1>7. \/ Dies("crashed")
      \/ /\ Goto(s, "REPLY", "NONE", "SUCCEDED", [int EXCEPT ![client_fd[s]] = {"WRITE"}])
         /\ UNCHANGED <<client_fd, origin_fd, resolution, owner, sock>>
      \/ try_connection(s, n - 1, k, own, int)
      \/ \E r \in {"SUCCEDED", "FAILED"} :
           /\ sock' = k /\ owner' = own /\ ForgetOrigin(s)
           /\ Goto(s, "REPLY", "NONE", r, [int EXCEPT ![client_fd[s]] = {"WRITE"}])
           /\ UNCHANGED <<client_fd, resolution>>
  BY Zenon DEF connect_write
<1> QED
  BY <1>3, <1>4, <1>5, <1>6, <1>7

\* greeting_read, greeting_write, auth_read, auth_write and request_read.
LEMMA HandshakeConfined ==
  ASSUME TypeOK, TableInv, NEW f \in Fd,
         \/ greeting_read(f) \/ greeting_write(f) \/ auth_read(f) \/ auth_write(f)
         \/ request_read(f)
  PROVE  LeavesOthers
<1> DEFINE s == owner[f]
<1>1. s \in Slot /\ state[s] \in Live
  BY DispatchFacts DEF greeting_read, greeting_write, auth_read, auth_write, request_read
<1>2. ASSUME socksv5_done(s) PROVE LeavesOthers
  BY <1>1, <1>2, DoneConfined, ConfinedIsEnough
<1>3. ASSUME NEW st, NEW u, NEW i, Advance(s, st, u, i) PROVE LeavesOthers
  BY <1>1, <1>3, AdvanceConfined, ConfinedIsEnough
<1>4. ASSUME NEW r, ToReply(s, r) PROVE LeavesOthers
  BY <1>1, <1>4, AdvanceConfined, ConfinedIsEnough
<1>5. CASE greeting_read(f) \/ greeting_write(f) \/ auth_read(f) \/ auth_write(f)
  <2>1. socksv5_done(s) \/ Stay \/ \E st, u, i : Advance(s, st, u, i)
    BY <1>5 DEF greeting_read, greeting_write, auth_read, auth_write
  <2> QED
    BY <1>2, <1>3, <2>1, StayConfined
<1>6. CASE request_read(f)
  <2>1. \/ socksv5_done(s) \/ Stay \/ Advance(s, "REQUEST", "DST_LEN", {"READ"})
        \/ ToReply(s, "FAILED") \/ connect_to_dest(s, 1) \/ resolve_fqdn(s)
    BY <1>6 DEF request_read
  <2> QED
    BY <1>1, <1>2, <1>3, <1>4, <2>1, StayConfined, DestConfined, ResolveConfined
<1> QED
  BY <1>5, <1>6

\* reply_write and the handlers of COPY.
LEMMA RelayConfined ==
  ASSUME TypeOK, TableInv, NEW f \in Fd,
         reply_write(f) \/ copy_event(f, "READ") \/ copy_event(f, "WRITE")
  PROVE  LeavesOthers
<1> DEFINE s == owner[f]
           i == [interest EXCEPT ![client_fd[s]] = Op, ![origin_fd[s]] = Op]
<1>1. s \in Slot /\ state[s] \in Live
  BY DispatchFacts DEF reply_write, copy_event
<1>2. \/ socksv5_done(s) \/ Stay \/ Dies("killed")
      \/ Advance(s, "REQUEST", "VER_CMD_ATYP", {"READ"})
      \/ /\ Goto(s, "COPY", "NONE", "NONE", i)
         /\ UNCHANGED <<client_fd, origin_fd, resolution, owner, sock>>
  BY DEF reply_write, copy_event
<1>3. ASSUME Goto(s, "COPY", "NONE", "NONE", i),
             UNCHANGED <<client_fd, origin_fd, resolution, owner, sock>>
      PROVE  Confined(s)
  <2>1. \A g \in Fd : g # client_fd[s] /\ g # origin_fd[s] => i[g] = interest[g]
    BY DEF TypeOK
  <2> QED
    BY <1>1, <1>3, <2>1, GotoConfined
<1> QED
  BY <1>1, <1>2, <1>3, StayConfined, DoneConfined, AdvanceConfined, ConfinedIsEnough

\* request_block works for the connection the table names, if any.
LEMMA BlockConfined == ASSUME TypeOK, TableInv, request_block PROVE LeavesOthers
<1> DEFINE f == Head(jobs)
           s == owner[f]
<1>1. f \in Fd
  BY DEF request_block, TypeOK
<1>2. CASE s = Unused \/ state[s] # "REQUEST"
  BY <1>2, StayConfined DEF request_block
<1>3. CASE s # Unused /\ state[s] = "REQUEST"
  <2>1. s \in Slot /\ state[s] \in Live
    BY <1>1, <1>3 DEF TypeOK, Live, Handshake
  <2>2. connect_to_dest(s, resolution[s])
    BY <1>3 DEF request_block
  <2> QED
    BY <2>1, <2>2, DestConfined
<1> QED
  BY <1>2, <1>3

\* socksv5_passive_accept takes a struct and a descriptor that are both free.
LEMMA AcceptConfined ==
  ASSUME TypeOK, TableInv, socksv5_passive_accept PROVE LeavesOthers
<1>1. CASE UNCHANGED connVars
  BY <1>1, QuietIsEnough
<1>2. CASE ~ UNCHANGED connVars
  <2> DEFINE f == Least(FreeFds(sock))
  <2>1. FreeFds(sock) # {}
    BY <1>2 DEF socksv5_passive_accept
  <2>2. f \in Fd /\ sock[f] = "free"
    <3>1. sock \in [Fd -> Socket]
      BY DEF TypeOK, Socket
    <3> QED
      BY <2>1, <3>1, LeastIsFree
  <2>3. PICK s \in Slot :
          \/ /\ owner' = [owner EXCEPT ![f] = s]
             /\ sock' = [sock EXCEPT ![f] = "connected"]
             /\ client_fd' = [client_fd EXCEPT ![s] = f]
             /\ Goto(s, "GREETING", "READING", "NONE", [interest EXCEPT ![f] = {"READ"}])
             /\ UNCHANGED <<origin_fd, resolution>>
          \/ /\ state' = [state EXCEPT ![s] = "LEAKED"]
             /\ UNCHANGED <<sub, client_fd, origin_fd, resolution, rep, owner, interest, sock>>
    BY <1>2, <2>1 DEF socksv5_passive_accept, tableVars
  <2> HIDE DEF f
  <2>4. \A r \in Slot \ {s} : Struct(r)' = Struct(r)
    <3>1. CASE Goto(s, "GREETING", "READING", "NONE", [interest EXCEPT ![f] = {"READ"}])
               /\ client_fd' = [client_fd EXCEPT ![s] = f]
               /\ UNCHANGED <<origin_fd, resolution>>
      BY <3>1, OneStruct
    <3>2. CASE state' = [state EXCEPT ![s] = "LEAKED"]
               /\ UNCHANGED <<sub, client_fd, origin_fd, resolution, rep>>
      BY <3>2 DEF Struct, TypeOK
    <3> QED
      BY <2>3, <3>1, <3>2
  <2>5. ASSUME NEW g \in Fd, g # f PROVE SameDescriptor(g)
    BY <2>3, <2>5 DEF SameDescriptor, Goto, TypeOK
  <2>6. Confined(s)
    BY <2>2, <2>4, <2>5 DEF Confined
  <2> QED
    BY <2>6, ConfinedIsEnough
<1> QED
  BY <1>1, <1>2

\* resolve_fqdn_blocking, a thread beside the loop, writes to one struct, and to
\* no descriptor.
LEMMA BlockingConfined ==
  ASSUME ConnectionInv, NEW t \in Thread, resolve_fqdn_blocking(t) PROVE LeavesOthers
<1>1. tslot[t] \in Slot
  BY DEF ConnectionInv, ThreadsHaveKeys, resolve_fqdn_blocking
<1>2. TypeOK /\ TableInv
  BY DEF ConnectionInv
<1>3. UNCHANGED <<state, sub, client_fd, origin_fd, rep, owner, interest, sock>>
  BY DEF resolve_fqdn_blocking, tableVars
<1>4. \A r \in Slot \ {tslot[t]} : resolution'[r] = resolution[r]
  BY <1>2 DEF resolve_fqdn_blocking, TypeOK
<1>5. Confined(tslot[t])
  BY <1>3, <1>4 DEF Confined, Struct, SameDescriptor
<1> QED
  BY <1>1, <1>2, <1>5, ConfinedIsEnough

LEMMA NextLeavesOthers == ConnectionInv /\ [Next]_vars => LeavesOthers
<1> SUFFICES ASSUME ConnectionInv, [Next]_vars PROVE LeavesOthers
  OBVIOUS
<1>1. TypeOK /\ TableInv
  BY DEF ConnectionInv
<1>2. CASE UNCHANGED vars
  BY <1>2, QuietIsEnough DEF vars
<1>3. CASE Loop
  <2>1. CASE Select \/ Skip \/ Lock \/ Unlock
    BY <2>1, QuietIsEnough DEF Select, Skip, Lock, Unlock
  <2>2. CASE request_block \/ socksv5_passive_accept
    BY <1>1, <2>2, BlockConfined, AcceptConfined
  <2>3. CASE \E f \in Fd : \/ greeting_read(f) \/ greeting_write(f) \/ auth_read(f)
                           \/ auth_write(f) \/ request_read(f)
    BY <1>1, <2>3, HandshakeConfined
  <2>4. CASE \E f \in Fd : connect_write(f)
    BY <1>1, <2>4, ConnectWriteConfined
  <2>5. CASE \E f \in Fd : reply_write(f) \/ copy_event(f, "READ") \/ copy_event(f, "WRITE")
    BY <1>1, <2>5, RelayConfined
  <2> QED
    BY <1>3, <2>1, <2>2, <2>3, <2>4, <2>5 DEF Loop
<1>4. CASE \E t \in Thread : Resolver(t)
  <2>1. ASSUME NEW t \in Thread, selector_notify_block(t) PROVE LeavesOthers
    BY <2>1, QuietIsEnough DEF selector_notify_block
  <2> QED
    BY <1>4, <2>1, BlockingConfined DEF Resolver
<1>5. CASE Network
  BY <1>5, QuietIsEnough DEF Network, Connected
<1>6. CASE Ended
  BY <1>2, <1>6 DEF Ended
<1> QED
  BY <1>2, <1>3, <1>4, <1>5, <1>6 DEF Next

\* No step taken for one connection, by its handlers, by socksv5_done or by its
\* resolver thread, closes, unregisters, hands out again or changes the interest
\* of a descriptor of another one, however the numbers are handed out again.
THEOREM StepsAreConfined == Spec => OthersUntouched
<1>1. ConnectionInv /\ [Next]_vars => [LeavesOthers]_vars
  BY NextLeavesOthers
<1>2. Spec => [][LeavesOthers]_vars
  BY <1>1, AlwaysInv, PTL DEF Spec
<1> QED
  BY <1>2 DEF OthersUntouched, LeavesOthers
==============================================================================
