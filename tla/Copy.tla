-------------------------------- MODULE Copy ---------------------------------
(***************************************************************************)
(* The relay of a SOCKS connection: state COPY of the connection machine   *)
(* (src/src/server/states/copy.c), driven by the readiness loop of         *)
(* src/src/shared/selector.c over two non-blocking sockets.                *)
(*                                                                         *)
(* buf[s] is the buffer of bytes to be written to side s, the `buffer' of  *)
(* the CopySt of s.  The i-th byte a peer sends is the number i.  The      *)
(* sockets and the peers behind them are external: a recv takes what has   *)
(* arrived, a send what the peer's window has room for, and the half       *)
(* closes and resets of a peer may happen at any time.                     *)
(***************************************************************************)
EXTENDS ByteQueue

CONSTANTS
  TxCap,      \* bytes the kernel holds for a peer before send would block
  MaxBytes    \* bound: bytes a peer ever sends

ASSUME TxCapAssumption == TxCap \in Nat \ {0}
ASSUME MaxBytesAssumption == MaxBytes \in Nat

Side == {"client", "origin"}
Other(s) == IF s = "client" THEN "origin" ELSE "client"

Op == {"READ", "WRITE"}     \* OP_READ and OP_WRITE; OP_NOOP is the empty set

VARIABLES
  buf,          \* buf[s]: client_buffer for the origin, origin_buffer for the client
  interests,    \* interests[s]: the field of the CopySt of s
  registered,   \* registered[s]: the interest the selector holds for the fd of s
  state,        \* "COPY", "DONE" (both fds closed), "KILLED" (SIGPIPE, whole process)
  metrics,      \* the byte totals of metrics.c
  lower,        \* the side whose fd is the smaller one
  todo,         \* ready events of this selector iteration not yet dispatched
  sent,         \* sent[s]: bytes the peer of s has sent
  rx,           \* rx[s]: of those, the ones the kernel holds unread
  inflight,     \* inflight[s]: bytes accepted for s its peer has not consumed
  delivered,    \* delivered[s]: every byte send accepted for s
  fin, rst,     \* sides whose peer has closed its direction, or reset
  rdShut, wrShut  \* sides the proxy has shut down for reading, for writing

proxyVars == <<buf, interests, registered, state, metrics>>
peerVars == <<sent, fin, rst>>
shutVars == <<rdShut, wrShut>>
vars == <<proxyVars, lower, todo, peerVars, rx, inflight, delivered, shutVars>>

\* The stream of a peer that has sent n bytes.
Stream(n) == [i \in 1..n |-> i]

Least(m, n) == IF m < n THEN m ELSE n

------------------------------------------------------------------------------
(* The sockets (external).                                                 *)

\* select reports s readable: bytes, an end of stream or an error to collect.
Readable(s) == rx[s] # <<>> \/ s \in fin \cup rst \cup rdShut

\* select reports s writable: room, or a send that would fail at once.
Writable(s) == inflight[s] < TxCap \/ s \in rst \cup wrShut

PeerSend(s) ==
  /\ state = "COPY" /\ s \notin fin \cup rst
  /\ sent[s] < MaxBytes
  /\ sent' = [sent EXCEPT ![s] = @ + 1]
  /\ rx' = [rx EXCEPT ![s] = Append(@, sent[s] + 1)]
  /\ UNCHANGED <<proxyVars, lower, todo, fin, rst, inflight, delivered, shutVars>>

PeerRead(s) ==
  /\ state = "COPY" /\ s \notin rst
  /\ inflight[s] > 0
  /\ inflight' = [inflight EXCEPT ![s] = @ - 1]
  /\ UNCHANGED <<proxyVars, lower, todo, peerVars, rx, delivered, shutVars>>

PeerClose(s) ==
  /\ state = "COPY" /\ s \notin fin \cup rst
  /\ fin' = fin \cup {s}
  /\ UNCHANGED <<proxyVars, lower, todo, sent, rst, rx, inflight, delivered, shutVars>>

PeerReset(s) ==
  /\ state = "COPY" /\ s \notin rst
  /\ rst' = rst \cup {s}
  /\ UNCHANGED <<proxyVars, lower, todo, sent, fin, rx, inflight, delivered, shutVars>>

------------------------------------------------------------------------------
(* The selector.                                                           *)

\* handle_iteration visits the descriptors in ascending order, and reads
\* before it writes: the event it comes to next.
Rank(e) == (IF e[1] = lower THEN 0 ELSE 2) + (IF e[2] = "READ" THEN 0 ELSE 1)

IsNext(e) == e \in todo /\ \A f \in todo : Rank(e) <= Rank(f)

\* (Mutant) Dispatching on the interest alone, without FD_ISSET.
IsRegistered(e) == e[2] \in registered[e[1]]

IsReady(e) ==
  /\ e[2] \in registered[e[1]]
  /\ IF e[2] = "READ" THEN Readable(e[1]) ELSE Writable(e[1])

\* selector_select: pselect returns with at least one event.
Select ==
  /\ state = "COPY" /\ todo = {}
  /\ todo' = {e \in Side \X Op : IsReady(e)}
  /\ todo' # {}
  /\ UNCHANGED <<proxyVars, lower, peerVars, rx, inflight, delivered, shutVars>>

\* handle_iteration checks the interest again when it comes to an event.
Dispatch(s, op) ==
  /\ state = "COPY" /\ IsNext(<<s, op>>)
  /\ op \in registered[s]
  /\ todo' = todo \ {<<s, op>>}

Skip(s, op) ==
  /\ state = "COPY" /\ IsNext(<<s, op>>)
  /\ op \notin registered[s]
  /\ todo' = todo \ {<<s, op>>}
  /\ UNCHANGED <<proxyVars, lower, peerVars, rx, inflight, delivered, shutVars>>

------------------------------------------------------------------------------
(* The handlers of COPY.                                                   *)

\* (Mutant) READ whatever the room.
WantedAlwaysReads(b) ==
  [s \in Side |-> {"READ"} \cup (IF CanRead(b[s]) THEN {"WRITE"} ELSE {})]

\* (Mutant) A side with bytes to get is no longer read.
WantedHalfDuplex(b) ==
  [s \in Side |-> IF CanRead(b[s]) THEN {"WRITE"}
                  ELSE IF CanWrite(b[Other(s)]) THEN {"READ"} ELSE {}]

\* update_target_interests: it is symmetric in its two sides.
Wanted(b) ==
  [s \in Side |-> (IF CanWrite(b[Other(s)]) THEN {"READ"} ELSE {})
                  \cup (IF CanRead(b[s]) THEN {"WRITE"} ELSE {})]

\* register_bytes_transferred: what metrics.c does with its two arguments.
CountBytes(m, first, second) ==
  [totalBytesReceived |-> m.totalBytesReceived + first,
   totalBytesSent |-> m.totalBytesSent + second]

\* The end of both handlers once the interests are known: COPY while one is
\* left, else DONE, and socksv5_done unregisters and closes both descriptors.
Continue(wanted) ==
  /\ interests' = wanted /\ registered' = wanted
  /\ state' = IF \E s \in Side : wanted[s] # {} THEN "COPY" ELSE "DONE"

\* (Mutant) The sockets are shut down and the interests left as they were.
EndDirectionStillWatched(from, to) ==
  /\ rdShut' = rdShut \cup {from}
  /\ wrShut' = wrShut \cup {to}
  /\ Continue(interests)

\* The shutdowns of a direction: bytes from `from' to `to' end here.
EndDirection(from, to) ==
  /\ rdShut' = rdShut \cup {from}
  /\ wrShut' = wrShut \cup {to}
  /\ Continue([interests EXCEPT ![from] = @ \ {"READ"}, ![to] = @ \ {"WRITE"}])

\* A handler's early return: the buffer has nothing for it to do.
ReturnCopy == UNCHANGED <<proxyVars, rx, inflight, delivered, shutVars>>

\* socksv5_copy_read, on the descriptor of side s.
copy_read(s) ==
  LET to == Other(s)
      n == Least(Room(buf[to]), Len(rx[s]))
  IN  /\ Dispatch(s, "READ")
      /\ IF ~CanWrite(buf[to]) THEN ReturnCopy
         ELSE IF rx[s] # <<>>
         THEN /\ buf' = [buf EXCEPT ![to] = Put(@, SubSeq(rx[s], 1, n))]
              /\ rx' = [rx EXCEPT ![s] = SubSeq(@, n + 1, Len(@))]
              /\ metrics' = CountBytes(metrics, 0, n)
              /\ Continue(Wanted(buf'))
              /\ UNCHANGED <<inflight, delivered, shutVars>>
         ELSE /\ EndDirection(s, to)
              /\ UNCHANGED <<buf, metrics, rx, inflight, delivered>>
      /\ UNCHANGED <<lower, peerVars>>

\* send on a socket that can never send again raises SIGPIPE, which the
\* process does not ignore.
Sigpipe ==
  /\ state' = "KILLED"
  /\ UNCHANGED <<buf, interests, registered, metrics, rx, inflight, delivered, shutVars>>

\* (Mutant) The buffer is reset after a send that took only some of it.
AcceptedThenReset(s) ==
  LET n == Least(Len(buf[s].q), TxCap - inflight[s])
  IN  /\ s \notin wrShut \cup rst /\ inflight[s] < TxCap
      /\ delivered' = [delivered EXCEPT ![s] = @ \o SubSeq(buf[s].q, 1, n)]
      /\ inflight' = [inflight EXCEPT ![s] = @ + n]
      /\ buf' = [buf EXCEPT ![s] = EmptyQueue]
      /\ metrics' = CountBytes(metrics, n, 0)
      /\ Continue(Wanted(buf'))
      /\ UNCHANGED <<rx, shutVars>>

\* send accepts what there is room for.
Accepted(s) ==
  LET n == Least(Len(buf[s].q), TxCap - inflight[s])
  IN  /\ s \notin wrShut \cup rst /\ inflight[s] < TxCap
      /\ delivered' = [delivered EXCEPT ![s] = @ \o SubSeq(buf[s].q, 1, n)]
      /\ inflight' = [inflight EXCEPT ![s] = @ + n]
      /\ buf' = [buf EXCEPT ![s] = Advance(@, n)]
      /\ metrics' = CountBytes(metrics, n, 0)
      /\ Continue(Wanted(buf'))
      /\ UNCHANGED <<rx, shutVars>>

\* send returns -1: the peer has reset, or (EAGAIN) there is no room.
Refused(s) ==
  /\ s \notin wrShut
  /\ s \in rst \/ inflight[s] = TxCap
  /\ EndDirection(Other(s), s)
  /\ UNCHANGED <<buf, metrics, rx, inflight, delivered>>

\* send raises SIGPIPE: after a shutdown always, after a reset sometimes (the
\* error of the reset may have been collected already).
BrokenPipe(s) == s \in wrShut \cup rst /\ Sigpipe

\* socksv5_copy_write, on the descriptor of side s.
copy_write(s) ==
  /\ Dispatch(s, "WRITE")
  /\ IF ~CanRead(buf[s]) THEN ReturnCopy
     ELSE Accepted(s) \/ Refused(s) \/ BrokenPipe(s)
  /\ UNCHANGED <<lower, peerVars>>

------------------------------------------------------------------------------
\* (Mutant) An arrival that overlooks the pipelined bytes.
ArrivalIgnoresPipelined(k) == [s \in Side |-> {"READ"}]

\* socksv5_copy_arrival.  The client may have pipelined k bytes behind its
\* request; they wait in client_buffer, at any offset the handshake left.
ArrivalInterests(k) ==
  [s \in Side |-> IF s = "origin" /\ k > 0 THEN {"WRITE"} ELSE {"READ"}]

Init ==
  \E k \in 0..Least(Cap, MaxBytes) : \E off \in 0..Cap - k :
    /\ k = 0 => off = 0
    /\ buf = [s \in Side |-> IF s = "origin" THEN [q |-> Stream(k), start |-> off]
                             ELSE EmptyQueue]
    /\ sent = [s \in Side |-> IF s = "client" THEN k ELSE 0]
    /\ interests = ArrivalInterests(k)
    /\ registered = [ArrivalInterests(k) EXCEPT !["client"] = IF k > 0 THEN {} ELSE @]
    /\ state = "COPY"
    /\ metrics = [totalBytesReceived |-> 0, totalBytesSent |-> 0]
    /\ lower \in Side
    /\ todo = {}
    /\ rx = [s \in Side |-> <<>>] /\ delivered = [s \in Side |-> <<>>]
    /\ inflight = [s \in Side |-> 0]
    /\ fin = {} /\ rst = {} /\ rdShut = {} /\ wrShut = {}

Peer == \E s \in Side : PeerSend(s) \/ PeerRead(s) \/ PeerClose(s) \/ PeerReset(s)

Loop ==
  \/ Select
  \/ \E s \in Side : copy_read(s) \/ copy_write(s) \/ \E op \in Op : Skip(s, op)

\* The relay has ended; the descriptors are closed or the process is gone.
Ended == state # "COPY" /\ UNCHANGED vars

Next == Peer \/ Loop \/ Ended

\* The selector loop never blocks while an event is ready (pselect returns,
\* and every handler is non-blocking), and a peer that has not failed goes on
\* consuming what it was sent.
Fairness == WF_vars(Loop) /\ \A s \in Side : WF_vars(PeerRead(s))

Spec == Init /\ [][Next]_vars /\ Fairness

------------------------------------------------------------------------------
TypeOK ==
  /\ buf \in [Side -> Queue(Nat)]
  /\ interests \in [Side -> SUBSET Op]
  /\ registered \in [Side -> SUBSET Op]
  /\ state \in {"COPY", "DONE", "KILLED"}
  /\ metrics \in [totalBytesReceived : Nat, totalBytesSent : Nat]
  /\ lower \in Side
  /\ todo \subseteq Side \X Op
  /\ sent \in [Side -> 0..MaxBytes]
  /\ rx \in [Side -> Seq(Nat)]
  /\ inflight \in [Side -> 0..TxCap]
  /\ delivered \in [Side -> Seq(Nat)]
  /\ fin \subseteq Side /\ rst \subseteq Side
  /\ rdShut \subseteq Side /\ wrShut \subseteq Side

\* The relay neither loses, repeats nor reorders a byte it has taken: what was
\* written to a side, what waits in its buffer and what is still unread are,
\* in that order, exactly the stream the other peer sent.
StreamIntegrity ==
  \A s \in Side :
    delivered[s] \o (buf[s].q \o rx[Other(s)]) = Stream(sent[Other(s)])

\* A handler that is called has work: READ is registered only while the other
\* side's buffer has room and WRITE only while the side's buffer has bytes, so
\* the level-triggered loop never spins on the early returns of the handlers.
InterestsHaveWork ==
  \A s \in Side :
    /\ "READ" \in registered[s] => CanWrite(buf[Other(s)])
    /\ "WRITE" \in registered[s] => CanRead(buf[s])

\* No side is forgotten: while its direction is open, a side with bytes to get
\* is watched for writing, and a side whose bytes fit is watched for reading,
\* or will be once the pipelined bytes registered at arrival are flushed.
NothingForgotten ==
  state = "COPY" =>
    \A s \in Side :
      /\ CanRead(buf[s]) /\ s \notin wrShut => "WRITE" \in registered[s]
      /\ CanWrite(buf[Other(s)]) /\ s \notin rdShut
           => "READ" \in registered[s] \/ "WRITE" \in registered["origin"]

\* A direction is shut down only because one of its two peers really closed or
\* failed: readiness seen by select is still true when its event is reached,
\* so no EAGAIN is ever taken for an end of stream.
ShutdownsJustified ==
  /\ \A s \in rdShut : s \in fin \cup rst \/ Other(s) \in rst
  /\ \A s \in wrShut : s \in rst \/ Other(s) \in fin \cup rst

\* Once both peers have closed or failed, the connection ends: neither the
\* interests update_target_interests revives nor a byte left in a buffer can
\* keep it open.  (Neither peer comes back, so that this is a leads-to.)
RelayEnds == []<>(fin \cup rst # Side \/ state # "COPY")

\* While both peers stay, every byte one sends reaches the other.
EveryByteForwarded ==
  []<>(fin \cup rst # {} \/ \A s \in Side : Len(delivered[s]) = sent[Other(s)])
==============================================================================
