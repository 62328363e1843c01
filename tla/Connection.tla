------------------------------ MODULE Connection -----------------------------
(***************************************************************************)
(* The life of the SOCKS connections of the proxy, from accept to close:   *)
(* the state machine of src/src/server/socks5nio.c with the handlers of    *)
(* src/src/server/states/, the descriptor table and the loop of            *)
(* src/src/shared/selector.c, and the threads that resolve names.          *)
(*                                                                         *)
(* What the peers send is not kept: a handler that parses has one outcome  *)
(* for each way its input can leave it.  Module Copy has the bytes of      *)
(* state COPY.  A struct socks5 is a cell of memory, which malloc hands    *)
(* out again after a free; a descriptor is handed out again after a close. *)
(***************************************************************************)
EXTENDS Integers, Sequences, FiniteSets

CONSTANTS
  Slot,       \* the cells of memory for a struct socks5
  Unused,     \* FD_UNUSED: the owner of a table entry that is free
  Thread,     \* the resolver threads the process may have at once
  MaxFd,      \* descriptors the process may have open besides the passive one
  FdSetSize,  \* ITEMS_MAX_SIZE: the selector takes descriptors below it
  MaxAddrs,   \* bound: addresses of a name
  MaxCount    \* bound: currentConnections

ASSUME SlotAssumption == IsFiniteSet(Slot) /\ Unused \notin Slot
ASSUME SizeAssumption ==
  MaxFd \in Nat /\ FdSetSize \in Nat /\ MaxAddrs \in Nat \ {0} /\ MaxCount \in Nat

Fd == 1..MaxFd
NoFd == -1
Passive == 0    \* the listening socket: the lowest of the descriptors
Op == {"READ", "WRITE"}

Handshake == {"GREETING", "AUTH", "REQUEST", "CONNECT", "REPLY"}
Live == Handshake \cup {"COPY"}

VARIABLES
  state,        \* state[s]: the current state of stm; "FREE", or "LEAKED" (never freed)
  sub,          \* sub[s]: how far the handler of the state has come
  client_fd, origin_fd, resolution,   \* resolution[s]: addresses left, 0 for NULL
  rep,          \* rep[s]: client.reply.rep; "NONE" while the union holds other data
  owner,        \* owner[f]: the data of the table entry of f
  interest,     \* interest[f]: its interest
  todo,         \* bits of slave_r and slave_w still to be looked at
  phase,        \* where selector_select is: "select", "events" or "jobs" (mutex held)
  tst, tslot, tfd,  \* the resolver threads: their step, and their copy of the key
  jobs,         \* resolution_jobs: the descriptors to be notified, last one first
  sock,         \* sock[f]: the kernel's socket
  currentConnections,
  proc          \* "up", "aborted" (assert), "crashed" (NULL) or "killed" (SIGPIPE)

connVars == <<state, sub, client_fd, origin_fd, resolution, rep>>
tableVars == <<owner, interest>>
threadVars == <<tst, tslot, tfd>>
vars == <<connVars, tableVars, todo, phase, threadVars, jobs, sock,
          currentConnections, proc>>

Least(S) == CHOOSE x \in S : \A y \in S : x <= y

FreeFds(k) == {f \in Fd : k[f] = "free"}

------------------------------------------------------------------------------
(* The selector.                                                           *)

\* A socket that is still connecting is neither readable nor writable; what
\* the peers of the others do is not known.
MayBeReady(f) == sock[f] # "connecting"

Watched == {e \in Fd \X Op : owner[e[1]] # Unused /\ e[2] \in interest[e[1]]}

\* selector_select: pselect reports some of the watched events, or none (a
\* signal or the timeout).
Select ==
  /\ proc = "up" /\ phase = "select"
  /\ todo' \in SUBSET ({e \in Watched : MayBeReady(e[1])}
                       \cup IF currentConnections < MaxCount
                            THEN {<<Passive, "READ">>} ELSE {})
  /\ phase' = "events"
  /\ UNCHANGED <<connVars, tableVars, threadVars, jobs, sock, currentConnections, proc>>

\* handle_iteration goes up the descriptors, and reads before it writes.
Rank(e) == 2 * e[1] + (IF e[2] = "READ" THEN 0 ELSE 1)

IsNext(f, op) == <<f, op>> \in todo /\ \A e \in todo : Rank(<<f, op>>) <= Rank(e)

\* The entry of f is looked at again when its turn comes: it may have been
\* unregistered, or be another connection's, since pselect returned.
Dispatch(f, op, st) ==
  /\ proc = "up" /\ phase = "events" /\ IsNext(f, op)
  /\ owner[f] # Unused /\ op \in interest[f]
  /\ state[owner[f]] = st
  /\ todo' = todo \ {<<f, op>>}
  /\ UNCHANGED phase

Skip ==
  /\ proc = "up" /\ phase = "events"
  /\ \E f \in Fd, op \in Op :
       /\ IsNext(f, op)
       /\ owner[f] = Unused \/ op \notin interest[f]
       /\ todo' = todo \ {<<f, op>>}
  /\ UNCHANGED <<connVars, tableVars, phase, threadVars, jobs, sock, currentConnections, proc>>

\* handle_block_notifications takes the mutex, and later releases it.
Lock ==
  /\ proc = "up" /\ phase = "events" /\ todo = {}
  /\ phase' = "jobs"
  /\ UNCHANGED <<connVars, tableVars, todo, threadVars, jobs, sock, currentConnections, proc>>

Unlock ==
  /\ proc = "up" /\ phase = "jobs" /\ jobs = <<>>
  /\ phase' = "select"
  /\ UNCHANGED <<connVars, tableVars, todo, threadVars, jobs, sock, currentConnections, proc>>

------------------------------------------------------------------------------
(* What handlers do.                                                       *)

\* The handler returns the state it was called in and changes nothing else.
Stay == UNCHANGED <<connVars, tableVars, threadVars, sock, currentConnections, proc>>

\* The process ends inside a handler.
Dies(how) ==
  /\ proc' = how
  /\ UNCHANGED <<connVars, tableVars, threadVars, sock, currentConnections>>

\* (Mutant) The interest is added to what there was.
ClientInterestToo(s, i) == [interest EXCEPT ![client_fd[s]] = @ \cup i]

\* selector_set_interest on the client's descriptor.
ClientInterest(s, i) == [interest EXCEPT ![client_fd[s]] = i]

\* The jump to another state: what on_arrival leaves in sub and in rep, and
\* the interests the handler has set.
Goto(s, st, u, r, i) ==
  /\ state' = [state EXCEPT ![s] = st]
  /\ sub' = [sub EXCEPT ![s] = u]
  /\ rep' = [rep EXCEPT ![s] = r]
  /\ interest' = i

\* A step of the handshake: nothing but the state and the interest of the client.
Advance(s, st, u, i) ==
  /\ Goto(s, st, u, "NONE", ClientInterest(s, i))
  /\ UNCHANGED <<client_fd, origin_fd, resolution, owner, threadVars, sock,
                 currentConnections, proc>>

\* to_reply_state
ToReply(s, r) ==
  /\ Goto(s, "REPLY", "NONE", r, ClientInterest(s, {"WRITE"}))
  /\ UNCHANGED <<client_fd, origin_fd, resolution, owner, threadVars, sock,
                 currentConnections, proc>>

Held(s) == {client_fd[s], origin_fd[s]} \ {NoFd}

\* (Mutant) Only the client's descriptor is unregistered.
RegisteredClient(s) == {client_fd[s]}

\* The descriptors of s that the table has.
Registered(s) == {f \in Held(s) : owner[f] # Unused}

\* (Mutant) Without the guard against a count below zero.
ClosedUnguarded(n) == currentConnections' = currentConnections - n

\* register_connection_closed, n times.
Closed(n) == currentConnections' = IF n > currentConnections THEN 0 ELSE currentConnections - n

\* socksv5_done: the descriptors are unregistered and closed, and the struct
\* freed.  Unregistering a descriptor runs socksv5_close, which counts a
\* closed connection each time.
socksv5_done(s) ==
  /\ owner' = [f \in Fd |-> IF f \in Registered(s) THEN Unused ELSE owner[f]]
  /\ sock' = [f \in Fd |-> IF f \in Held(s) THEN "free" ELSE sock[f]]
  /\ Closed(Cardinality(Registered(s)))
  /\ Goto(s, "FREE", "NONE", "NONE",
          [f \in Fd |-> IF f \in Registered(s) THEN {} ELSE interest[f]])
  /\ client_fd' = [client_fd EXCEPT ![s] = NoFd]
  /\ origin_fd' = [origin_fd EXCEPT ![s] = NoFd]
  /\ resolution' = [resolution EXCEPT ![s] = 0]
  /\ UNCHANGED <<threadVars, proc>>

------------------------------------------------------------------------------
(* Accepting a connection.                                                 *)

\* socksv5_passive_accept.  A connection that cannot be served is closed, but
\* stays counted, and key->data is still NULL: a struct already allocated is
\* never freed.
socksv5_passive_accept ==
  /\ proc = "up" /\ phase = "events" /\ IsNext(Passive, "READ")
  /\ todo' = todo \ {<<Passive, "READ">>}
  /\ IF FreeFds(sock) = {}
     THEN UNCHANGED <<connVars, tableVars, sock, currentConnections>>
     ELSE LET f == Least(FreeFds(sock))
              free == {s \in Slot : state[s] = "FREE"}
          IN  /\ currentConnections' = currentConnections + 1
              /\ IF free = {}
                 THEN UNCHANGED <<connVars, tableVars, sock>>
                 ELSE \E s \in free :
                        IF f < FdSetSize /\ owner[f] = Unused
                        THEN /\ owner' = [owner EXCEPT ![f] = s]
                             /\ sock' = [sock EXCEPT ![f] = "connected"]
                             /\ client_fd' = [client_fd EXCEPT ![s] = f]
                             /\ Goto(s, "GREETING", "READING", "NONE",
                                     [interest EXCEPT ![f] = {"READ"}])
                             /\ UNCHANGED <<origin_fd, resolution>>
                        ELSE /\ state' = [state EXCEPT ![s] = "LEAKED"]
                             /\ UNCHANGED <<sub, client_fd, origin_fd, resolution, rep,
                                            tableVars, sock>>
  /\ UNCHANGED <<phase, threadVars, jobs, proc>>

------------------------------------------------------------------------------
(* Greeting and authentication.                                            *)

\* greeting_read: recv fails, ends with nothing buffered, or the greeting is
\* not valid; it is incomplete; or the answer is queued.
greeting_read(f) ==
  LET s == owner[f]
  IN  /\ Dispatch(f, "READ", "GREETING")
      /\ \/ socksv5_done(s)
         \/ Stay
         \/ \E method \in {"AUTH_METHOD", "AUTH_METHOD_INVALID"} :
              Advance(s, "GREETING", method, {"WRITE"})
      /\ UNCHANGED jobs

\* greeting_write: send fails, takes a part, or takes the whole answer.
greeting_write(f) ==
  LET s == owner[f]
  IN  /\ Dispatch(f, "WRITE", "GREETING")
      /\ \/ socksv5_done(s)
         \/ Stay
         \/ IF sub[s] = "AUTH_METHOD"
            THEN Advance(s, "AUTH", "READING", {"READ"})
            ELSE Advance(s, "REQUEST", "VER_CMD_ATYP", {"READ"})
      /\ UNCHANGED jobs

auth_read(f) ==
  LET s == owner[f]
  IN  /\ Dispatch(f, "READ", "AUTH")
      /\ \/ socksv5_done(s)
         \/ Stay
         \/ \E result \in {"AUTH_SUCCESS", "AUTH_FAILURE"} :
              Advance(s, "AUTH", result, {"WRITE"})
      /\ UNCHANGED jobs

\* auth_write: a client that failed is told so, and closed.
auth_write(f) ==
  LET s == owner[f]
  IN  /\ Dispatch(f, "WRITE", "AUTH")
      /\ \/ socksv5_done(s)
         \/ Stay
         \/ /\ sub[s] = "AUTH_SUCCESS"
            /\ Advance(s, "REQUEST", "VER_CMD_ATYP", {"READ"})
      /\ UNCHANGED jobs

------------------------------------------------------------------------------
(* Connecting to the origin.                                               *)

\* try_connection for s, from a list of n addresses, with the sockets k, the
\* owners o and the interests i the caller leaves it, and what its callers do
\* with the result.  The addresses before the last `left' fail in connect at
\* once; with no descriptor to be had, the list is followed to its end and
\* beyond.  CONNECTION_DONE has the value of NETWORK_UNREACHABLE, and is taken
\* for it.
try_connection(s, n, k, o, i) ==
  IF FreeFds(k) = {} THEN Dies("crashed")
  ELSE LET f == Least(FreeFds(k))
           watched == f < FdSetSize /\ o[f] = Unused
       IN  \E left \in 1..n :
             /\ resolution' = [resolution EXCEPT ![s] = left]
             /\ origin_fd' = [origin_fd EXCEPT ![s] = f]
             /\ \/ /\ sock' = [k EXCEPT ![f] = "connecting"] /\ watched
                   /\ owner' = [o EXCEPT ![f] = s]
                   /\ Goto(s, "CONNECT", "NONE", "NONE",
                           [i EXCEPT ![client_fd[s]] = {"WRITE"}, ![f] = {"WRITE"}])
                \/ /\ \/ sock' = [k EXCEPT ![f] = "connecting"] /\ ~watched
                      \/ sock' = [k EXCEPT ![f] = "connected"]
                      \/ sock' = [k EXCEPT ![f] = "failed"] /\ left = 1
                   /\ owner' = o
                   /\ Goto(s, "REPLY", "NONE", "FAILED",
                           [i EXCEPT ![client_fd[s]] = {"WRITE"}])
             /\ UNCHANGED <<client_fd, threadVars, currentConnections, proc>>

\* connect_to_dest, once there is a list of n addresses.
connect_to_dest(s, n) ==
  IF n = 0 THEN ToReply(s, "FAILED") ELSE try_connection(s, n, sock, owner, interest)

\* (Mutant) The number of the closed descriptor is kept.
KeepOrigin(s) == UNCHANGED origin_fd

\* The descriptor of the origin has been closed for good.
ForgetOrigin(s) == origin_fd' = [origin_fd EXCEPT ![s] = NoFd]

\* connect_write, for the origin's descriptor and for the client's alike.
connect_write(f) ==
  LET s == owner[f]
      o == origin_fd[s]
      n == resolution[s]
      k == [sock EXCEPT ![o] = "free"]
      own == [owner EXCEPT ![o] = Unused]
      int == [interest EXCEPT ![o] = {}]
  IN  /\ Dispatch(f, "WRITE", "CONNECT")
      /\ IF n = 0 THEN Dies("crashed")
         ELSE IF sock[o] # "failed"
         THEN /\ Goto(s, "REPLY", "NONE", "SUCCEDED",
                      [int EXCEPT ![client_fd[s]] = {"WRITE"}])
              /\ UNCHANGED <<client_fd, origin_fd, resolution, owner, threadVars, sock,
                             currentConnections, proc>>
         ELSE IF n > 1 THEN try_connection(s, n - 1, k, own, int)
         ELSE \* an error number that is also a reply code leaves rep at ret, 0
              \E r \in {"SUCCEDED", "FAILED"} :
                /\ sock' = k /\ owner' = own
                /\ ForgetOrigin(s)
                /\ Goto(s, "REPLY", "NONE", r, [int EXCEPT ![client_fd[s]] = {"WRITE"}])
                /\ UNCHANGED <<client_fd, resolution, threadVars, currentConnections, proc>>
      /\ UNCHANGED jobs

------------------------------------------------------------------------------
(* The request, and the resolution of names.                               *)

\* resolve_fqdn: a detached thread with a copy of the key.
resolve_fqdn(s) ==
  IF \A t \in Thread : tst[t] # "idle" THEN ToReply(s, "FAILED")
  ELSE \E t \in Thread :
         /\ tst[t] = "idle"
         /\ tst' = [tst EXCEPT ![t] = "resolving"]
         /\ tslot' = [tslot EXCEPT ![t] = s]
         /\ tfd' = [tfd EXCEPT ![t] = client_fd[s]]
         /\ sub' = [sub EXCEPT ![s] = "DST_RES"]
         /\ UNCHANGED <<state, client_fd, origin_fd, resolution, rep, tableVars, sock,
                        currentConnections, proc>>

\* request_read, with resolve_dst_address.  Once the name is being resolved
\* (DST_RES) any further byte, or the end of the client's stream, starts
\* another resolution.
request_read(f) ==
  LET s == owner[f]
  IN  /\ Dispatch(f, "READ", "REQUEST")
      /\ IF sub[s] = "DST_RES" THEN resolve_fqdn(s)
         ELSE \/ socksv5_done(s)            \* no bytes at all
              \/ Stay                       \* too few
              \/ Advance(s, "REQUEST", "DST_LEN", {"READ"})
              \/ ToReply(s, "FAILED")       \* not valid, or not supported
              \/ connect_to_dest(s, 1)      \* an address
              \/ resolve_fqdn(s)            \* a name
      /\ UNCHANGED jobs

\* resolve_fqdn_blocking: getaddrinfo stores its result in the connection the
\* key points to, whatever has become of it (a write to freed memory is lost).
resolve_fqdn_blocking(t) ==
  /\ proc = "up" /\ tst[t] = "resolving"
  /\ tst' = [tst EXCEPT ![t] = "resolved"]
  /\ \E n \in 0..MaxAddrs :
       resolution' = IF state[tslot[t]] \in Live
                     THEN [resolution EXCEPT ![tslot[t]] = n] ELSE resolution
  /\ UNCHANGED <<state, sub, client_fd, origin_fd, rep, tableVars, todo, phase,
                 tslot, tfd, jobs, sock, currentConnections, proc>>

\* (Mutant) A resolution that failed is not notified.
NotifyUnlessFailed(t) ==
  /\ proc = "up" /\ tst[t] = "resolved" /\ phase # "jobs"
  /\ jobs' = IF resolution[tslot[t]] = 0 THEN jobs ELSE <<tfd[t]>> \o jobs
  /\ tst' = [tst EXCEPT ![t] = "idle"]
  /\ tslot' = [tslot EXCEPT ![t] = Unused] /\ tfd' = [tfd EXCEPT ![t] = NoFd]
  /\ UNCHANGED <<connVars, tableVars, todo, phase, sock, currentConnections, proc>>

\* selector_notify_block, at the end of the thread.
selector_notify_block(t) ==
  /\ proc = "up" /\ tst[t] = "resolved" /\ phase # "jobs"
  /\ jobs' = <<tfd[t]>> \o jobs
  /\ tst' = [tst EXCEPT ![t] = "idle"]
  /\ tslot' = [tslot EXCEPT ![t] = Unused] /\ tfd' = [tfd EXCEPT ![t] = NoFd]
  /\ UNCHANGED <<connVars, tableVars, todo, phase, sock, currentConnections, proc>>

\* handle_block_notifications, one job: request_block in state REQUEST, an
\* assert of stm_handler_block in any other.
request_block ==
  LET f == Head(jobs)
      s == owner[f]
  IN  /\ proc = "up" /\ phase = "jobs" /\ jobs # <<>>
      /\ jobs' = Tail(jobs)
      /\ IF s = Unused THEN Stay
         ELSE IF state[s] # "REQUEST" THEN Dies("aborted")
         ELSE connect_to_dest(s, resolution[s])
      /\ UNCHANGED <<todo, phase>>

------------------------------------------------------------------------------
(* The reply, and the relay.                                               *)

\* (Mutant) reply_write sends what there is, whatever reply_arrival found.
ReplyUnconditionally(s) == TRUE

\* found_bnd_info: getsockname worked when the reply was put together.
FoundBndInfo(s) == origin_fd[s] # NoFd

\* reply_write: a send that fails or takes a part leaves the state as it is
\* (its error is lost in a size_t), one more to a client that has gone raises
\* SIGPIPE.
reply_write(f) ==
  LET s == owner[f]
  IN  /\ Dispatch(f, "WRITE", "REPLY")
      /\ IF ~FoundBndInfo(s) THEN socksv5_done(s)
         ELSE \/ Stay
              \/ Dies("killed")
              \/ IF rep[s] = "SUCCEDED"
                 THEN /\ Goto(s, "COPY", "NONE", "NONE",
                              [interest EXCEPT ![client_fd[s]] = Op, ![origin_fd[s]] = Op])
                      /\ UNCHANGED <<client_fd, origin_fd, resolution, owner, threadVars,
                                     sock, currentConnections, proc>>
                 ELSE Advance(s, "REQUEST", "VER_CMD_ATYP", {"READ"})
      /\ UNCHANGED jobs

\* The handlers of COPY.  Which of the two operations are of interest changes
\* with the buffers, in module Copy; here either descriptor may be reported for
\* either, and the handler ends the connection or does not.
copy_event(f, op) ==
  /\ Dispatch(f, op, "COPY")
  /\ socksv5_done(owner[f]) \/ Stay \/ Dies("killed")
  /\ UNCHANGED jobs

------------------------------------------------------------------------------
\* The kernel ends an attempt to connect (external).
Connected(f, r) ==
  /\ proc = "up" /\ sock[f] = "connecting"
  /\ sock' = [sock EXCEPT ![f] = r]
  /\ UNCHANGED <<connVars, tableVars, todo, phase, threadVars, jobs,
                 currentConnections, proc>>

Init ==
  /\ state = [s \in Slot |-> "FREE"]
  /\ sub = [s \in Slot |-> "NONE"] /\ rep = [s \in Slot |-> "NONE"]
  /\ client_fd = [s \in Slot |-> NoFd] /\ origin_fd = [s \in Slot |-> NoFd]
  /\ resolution = [s \in Slot |-> 0]
  /\ owner = [f \in Fd |-> Unused] /\ interest = [f \in Fd |-> {}]
  /\ todo = {} /\ phase = "select"
  /\ tst = [t \in Thread |-> "idle"]
  /\ tslot = [t \in Thread |-> Unused] /\ tfd = [t \in Thread |-> NoFd]
  /\ jobs = <<>>
  /\ sock = [f \in Fd |-> "free"]
  /\ currentConnections = 0 /\ proc = "up"

Loop ==
  \/ Select \/ Skip \/ Lock \/ Unlock \/ request_block
  \/ socksv5_passive_accept
  \/ \E f \in Fd : \/ greeting_read(f) \/ greeting_write(f)
                   \/ auth_read(f) \/ auth_write(f)
                   \/ request_read(f) \/ connect_write(f) \/ reply_write(f)
                   \/ copy_event(f, "READ") \/ copy_event(f, "WRITE")

Resolver(t) == resolve_fqdn_blocking(t) \/ selector_notify_block(t)

Network == \E f \in Fd : Connected(f, "connected") \/ Connected(f, "failed")

Ended == proc # "up" /\ UNCHANGED vars

Next == Loop \/ (\E t \in Thread : Resolver(t)) \/ Network \/ Ended

\* The loop runs on (pselect returns at the latest at its timeout) and every
\* getaddrinfo returns.  A thread that waits for the mutex gets it although the
\* loop takes it again and again: the loop is out of it while pselect waits.
Fairness ==
  /\ WF_vars(Loop)
  /\ \A t \in Thread : WF_vars(resolve_fqdn_blocking(t)) /\ SF_vars(selector_notify_block(t))

Spec == Init /\ [][Next]_vars /\ Fairness

------------------------------------------------------------------------------
TypeOK ==
  /\ state \in [Slot -> Live \cup {"FREE", "LEAKED"}]
  /\ sub \in [Slot -> {"NONE", "READING", "AUTH_METHOD", "AUTH_METHOD_INVALID",
                       "AUTH_SUCCESS", "AUTH_FAILURE", "VER_CMD_ATYP", "DST_LEN",
                       "DST_RES"}]
  /\ client_fd \in [Slot -> Fd \cup {NoFd}] /\ origin_fd \in [Slot -> Fd \cup {NoFd}]
  /\ resolution \in [Slot -> 0..MaxAddrs]
  /\ rep \in [Slot -> {"NONE", "SUCCEDED", "FAILED"}]
  /\ owner \in [Fd -> Slot \cup {Unused}] /\ interest \in [Fd -> SUBSET Op]
  /\ todo \subseteq (Fd \X Op) \cup {<<Passive, "READ">>}
  /\ phase \in {"select", "events", "jobs"}
  /\ tst \in [Thread -> {"idle", "resolving", "resolved"}]
  /\ tslot \in [Thread -> Slot \cup {Unused}] /\ tfd \in [Thread -> Fd \cup {NoFd}]
  /\ jobs \in Seq(Fd)
  /\ sock \in [Fd -> {"free", "connecting", "connected", "failed"}]
  /\ currentConnections \in 0..MaxCount
  /\ proc \in {"up", "aborted", "crashed", "killed"}

\* The selector never calls a handler with a struct that was freed: what it
\* has registered is an open descriptor of a live connection, that very
\* connection's, however descriptors and memory are handed out again.
HandlersOwnDescriptors ==
  \A f \in Fd : owner[f] # Unused =>
    /\ state[owner[f]] \in Live
    /\ f \in Held(owner[f])
    /\ sock[f] # "free"

\* No descriptor is held twice, nor held after it was closed: socksv5_done and
\* connect_write never close a descriptor that is another connection's.
DescriptorsDisjoint ==
  \A s \in Slot : state[s] \in Live =>
    /\ client_fd[s] \in Fd /\ client_fd[s] # origin_fd[s]
    /\ \A f \in Held(s) : sock[f] # "free"
    /\ \A r \in Slot \ {s} : Held(r) \cap Held(s) = {}

Struct(s) == <<state[s], sub[s], client_fd[s], origin_fd[s], resolution[s], rep[s]>>

\* What is done for one connection, to its very end, is never done to another: the
\* step that changes the struct of r closes, unregisters or hands out again no
\* descriptor of s, and leaves alone what s waits for.
OthersUntouched ==
  [][\A r, s \in Slot :
       r # s /\ Struct(r)' # Struct(r) /\ state[s] \in Live =>
         \A f \in Held(s) :
           owner'[f] = owner[f] /\ interest'[f] = interest[f] /\ sock'[f] = sock[f]]_vars

\* Which of on_read_ready and on_write_ready a state has, in socks5States.
Handlers(st) ==
  CASE st \in {"GREETING", "AUTH", "COPY"} -> Op
    [] st = "REQUEST" -> {"READ"}
    [] OTHER -> {"WRITE"}

\* The asserts of stm_handler_read and stm_handler_write never fail: no
\* descriptor of a connection, the origin's included, is ever watched for an
\* event that the state has no handler for.
InterestsHandled ==
  \A f \in Fd : owner[f] # Unused => interest[f] \subseteq Handlers(state[owner[f]])

\* A connection relays between two registered descriptors: COPY is never
\* entered on the strength of a reply code alone.
RelayHasBothEnds ==
  \A s \in Slot : state[s] = "COPY" =>
    /\ origin_fd[s] \in Fd
    /\ owner[client_fd[s]] = s /\ owner[origin_fd[s]] = s

\* A connection that waits for a name is always going to be notified: a thread
\* is still at work for it, or its job is in the list.
WaitingIsServed ==
  \A s \in Slot : proc = "up" /\ state[s] = "REQUEST" /\ sub[s] = "DST_RES" =>
    \/ \E t \in Thread : tst[t] # "idle" /\ tfd[t] = client_fd[s]
    \/ \E i \in 1..Len(jobs) : jobs[i] = client_fd[s]

\* A resolution is taken up: the connection leaves REQUEST, with an answer for
\* its client or a connection to the origin, or the process has ended.
ResolutionTakenUp ==
  \A s \in Slot :
    (state[s] = "REQUEST" /\ sub[s] = "DST_RES")
      ~> (proc # "up" \/ ~(state[s] = "REQUEST" /\ sub[s] = "DST_RES"))

\* What stm_handler_block asserts: a notification finds its connection in a
\* state that has a block handler.
BlockHandlerExists == proc # "aborted"

\* What connect_write logs before it answers with success, "Connected to
\* origin": the socket of the origin is connected.
SuccessMeansConnected ==
  \A s \in Slot : rep[s] = "SUCCEDED" /\ origin_fd[s] # NoFd => sock[origin_fd[s]] = "connected"
==============================================================================
