------------------------------ MODULE Selector -------------------------------
(***************************************************************************)
(* The selector (src/src/shared/selector.c) and the loop of main that runs *)
(* it: the table of descriptors and its growth, the sets that pselect is   *)
(* given, and the two ways of waking a thread that sleeps in pselect: the  *)
(* signal of a thread that has finished a blocking job, and the signal     *)
(* that ends the server.                                                   *)
(*                                                                         *)
(* Of a handler only what it does to the selector is kept: it registers,   *)
(* unregisters, changes an interest or starts a job, as the handlers of    *)
(* the server do.  SIGALRM is blocked but in pselect; SIGTERM is not, and  *)
(* comes at any time.                                                      *)
(***************************************************************************)
EXTENDS Integers, Sequences, FiniteSets

CONSTANTS
  Fd,         \* the descriptors the kernel hands out
  Listener,   \* the one that is listened on
  Thread,     \* bound: the threads for blocking jobs at one time
  Capacity,   \* SELECTOR_CAPACITY, a setting of the build
  ItemsMax    \* ITEMS_MAX_SIZE, that is FD_SETSIZE

ASSUME SizeAssumption == ItemsMax \in Nat /\ Capacity \in 0..ItemsMax
ASSUME FdAssumption == IsFiniteSet(Fd) /\ Fd \subseteq Nat /\ Listener \in Fd

Op == {"READ", "WRITE"}
Unused == {"FD_UNUSED"}     \* the entry of no descriptor
NoFd == -1

VARIABLES
  s,          \* the struct fdselector: fds, fd_size, max_fd, master_r and master_w
  slave,      \* slave_r and slave_w: the events of this iteration still to come to
  jobs,       \* resolution_jobs, the newest first
  job,        \* handle_block_notifications: the jobs still to come to
  phase,      \* "top", "entered", "pselect", "events", "lock", "jobs" (mutex held)
              \* or "destroyed"
  alarm,      \* 1 while a SIGALRM is pending
  done,       \* 1 once signal_handler has run
  proc,       \* "up", or "corrupt" after an access to memory that is not there
  thread,     \* thread[t]: "none", "resolving" or "pushed" (its signal not sent)
  tfd,        \* tfd[t]: the descriptor of its job
  ready,      \* the watched events for which the kernel has something
  waiting     \* ghost: descriptors whose job is under way and not notified

loopVars == <<s, slave, job, phase>>
threadVars == <<thread, tfd>>
vars == <<loopVars, jobs, alarm, done, proc, threadVars, ready, waiting>>

------------------------------------------------------------------------------
(* The table.                                                              *)

ITEM_USED(t, f) == t.fds[f] # Unused
Watched(t) == {e \in Fd \X Op : e[2] \in t.fds[e[1]]}

\* 1UL << bits, for the bits that the loop of next_capacity counts in n: the power
\* of two above n.
Power(n) ==
  LET shifted[k \in 0..n] == IF k = 0 THEN 1 ELSE 2 * shifted[k \div 2]
  IN  shifted[n]

\* (Mutant) The size is not limited to what the platform can handle.
NextUnlimited(n) == Power(n) + 1

\* That power, at most ITEMS_MAX_SIZE, and one more.
next_capacity(n) == (IF Power(n) > ItemsMax THEN ItemsMax ELSE Power(n)) + 1

\* The size that ensure_capacity(n) leaves, for an n the platform can handle.
ensure_capacity(size, n) == IF n < size THEN size ELSE next_capacity(n)

INVALID_FD(f) == f < 0 \/ f >= ItemsMax

\* items_update_fdset_for_fd: the bits of f in the master sets.
Updated(t, f) == [t EXCEPT !.master = (@ \ ({f} \X Op)) \cup ({f} \X (t.fds[f] \cap Op))]

\* (Mutant) The search stops short of the greatest descriptor.
MaxFdExclusive(t) ==
  LET used == {f \in Fd : f < t.max_fd /\ ITEM_USED(t, f)}
  IN  IF used = {} THEN 0 ELSE CHOOSE f \in used : \A g \in used : g <= f

items_max_fd(t) ==
  LET used == {f \in Fd : f <= t.max_fd /\ ITEM_USED(t, f)}
  IN  IF used = {} THEN 0 ELSE CHOOSE f \in used : \A g \in used : g <= f

\* (Mutant) The table is never made larger.
SizeStays(size, f) == size

\* The size of the table when selector_register comes to the entry of f.
SizeFor(size, f) == IF f > size THEN ensure_capacity(size, f) ELSE size

selector_register(t, f, i) ==
  LET grown == [t EXCEPT !.fd_size = SizeFor(@, f)]
  IN  IF INVALID_FD(f) THEN t
      ELSE IF ITEM_USED(t, f) THEN grown
      ELSE Updated([grown EXCEPT !.fds[f] = i, !.max_fd = IF f > @ THEN f ELSE @], f)

selector_set_interest(t, f, i) ==
  IF INVALID_FD(f) \/ ~ITEM_USED(t, f) THEN t ELSE Updated([t EXCEPT !.fds[f] = i], f)

\* The handler's handle_close is the business of the handler.
selector_unregister_fd(t, f) ==
  IF INVALID_FD(f) \/ ~ITEM_USED(t, f) THEN t
  ELSE LET u == [selector_set_interest(t, f, {}) EXCEPT !.fds[f] = Unused]
       IN  [u EXCEPT !.max_fd = items_max_fd(u)]

selector_new ==
  [fds |-> [f \in Fd |-> Unused], fd_size |-> ensure_capacity(0, Capacity),
   max_fd |-> 0, master |-> {}]

------------------------------------------------------------------------------
(* What the handlers do to the selector, each time they are called.        *)

Leave(t) == s' = t /\ UNCHANGED <<proc, threadVars>>

DoesNothing == Leave(s)

\* The entry of f lies in the table that selector_register leaves for it.
HasRoom(size, f) == f < SizeFor(size, f)

\* A connection is accepted, or an origin connected to.  The memory behind the end
\* of the table may look like an entry in use, and if not it is overwritten.
Registers ==
  \E g \in Fd, i \in {{"READ"}, {"WRITE"}} :
    /\ ~ITEM_USED(s, g)
    /\ IF INVALID_FD(g) \/ HasRoom(s.fd_size, g) THEN Leave(selector_register(s, g, i))
       ELSE \/ DoesNothing
            \/ s' = selector_register(s, g, i) /\ proc' = "corrupt" /\ UNCHANGED threadVars

SetsInterest(f) == \E i \in SUBSET Op : Leave(selector_set_interest(s, f, i))

\* A connection ends, with one descriptor or with two.
Unregisters(f) ==
  \E g \in Fd \ {Listener} : Leave(selector_unregister_fd(selector_unregister_fd(s, g), f))

\* A name is to be resolved.
StartsJob(f) ==
  \E t \in Thread :
    /\ thread[t] = "none"
    /\ thread' = [thread EXCEPT ![t] = "resolving"] /\ tfd' = [tfd EXCEPT ![t] = f]
    /\ UNCHANGED <<s, proc>>

\* No handler of the server registers from handle_read a descriptor of its own
\* that is also watched for writing: the entry handle_iteration goes on with
\* would have moved.
HandleRead(f) ==
  IF f = Listener THEN Registers \/ DoesNothing
  ELSE \/ SetsInterest(f) \/ Unregisters(f) \/ StartsJob(f)
       \/ s.fds[f] = {"READ"} /\ Registers

HandleWrite(f) == SetsInterest(f) \/ Unregisters(f) \/ Registers

HandleBlock(f) == SetsInterest(f) \/ Unregisters(f) \/ Registers

\* What a handler leaves of the events and of the jobs under way, of which it
\* has taken `event' and `notified'.
Aftermath(event, notified) ==
  /\ ready' = (ready \ event) \cap Watched(s')
  /\ waiting' = {f \in (waiting \ notified) \cup {tfd'[t] : t \in {u \in Thread : thread'[u] # thread[u]}} :
                   ITEM_USED(s', f)}

------------------------------------------------------------------------------
(* selector_select.                                                        *)

Up == proc = "up" /\ phase # "destroyed"

\* (Mutant) The number of descriptors is taken to be the greatest of them.
NfdsShort == s.max_fd

\* The first argument of pselect.
Nfds == s.max_fd + 1

\* What pselect would report.
Reported == {e \in ready \cap s.master : e[1] < Nfds}

\* The loop of main looks at done, and calls selector_select,
EnterSelect ==
  /\ proc = "up" /\ phase = "top" /\ done = 0
  /\ phase' = "entered"
  /\ UNCHANGED <<s, slave, job, jobs, alarm, done, proc, threadVars, ready, waiting>>

\* which copies the master sets and calls pselect.
CallPselect ==
  /\ proc = "up" /\ phase = "entered"
  /\ phase' = "pselect"
  /\ UNCHANGED <<s, slave, job, jobs, alarm, done, proc, threadVars, ready, waiting>>

\* Events come before a pending signal, which may or may not be taken with them.
PselectReady ==
  /\ proc = "up" /\ phase = "pselect" /\ Reported # {}
  /\ slave' = Reported /\ phase' = "events"
  /\ alarm' \in {0, alarm}
  /\ UNCHANGED <<s, job, jobs, done, proc, threadVars, ready, waiting>>

\* EINTR: no event is looked at.
PselectInterrupted ==
  /\ proc = "up" /\ phase = "pselect" /\ Reported = {} /\ alarm = 1
  /\ alarm' = 0 /\ phase' = "lock"
  /\ UNCHANGED <<s, slave, job, jobs, done, proc, threadVars, ready, waiting>>

\* (Mutant) pselect without a limit of time.
PselectForever == FALSE

\* Ten seconds without an event.
PselectTimeout ==
  /\ proc = "up" /\ phase = "pselect" /\ Reported = {} /\ alarm = 0
  /\ phase' = "events"
  /\ UNCHANGED <<s, slave, job, jobs, alarm, done, proc, threadVars, ready, waiting>>

\* handle_iteration goes up the table, and reads before it writes.
IsNext(e) ==
  /\ e \in slave
  /\ \A d \in slave : d[1] > e[1] \/ (d[1] = e[1] /\ (e[2] = "READ" \/ d[2] = "WRITE"))

handle_event(e) ==
  /\ proc = "up" /\ phase = "events" /\ IsNext(e)
  /\ e \in Watched(s)
  /\ slave' = slave \ {e}
  /\ IF e[2] = "READ" THEN HandleRead(e[1]) ELSE HandleWrite(e[1])
  /\ Aftermath({e}, {})
  /\ UNCHANGED <<job, phase, jobs, alarm, done>>

\* The entry is no longer used, or no longer interested.
skip_event(e) ==
  /\ proc = "up" /\ phase = "events" /\ IsNext(e)
  /\ e \notin Watched(s)
  /\ slave' = slave \ {e}
  /\ UNCHANGED <<s, job, phase, jobs, alarm, done, proc, threadVars, ready, waiting>>

end_iteration ==
  /\ proc = "up" /\ phase = "events" /\ slave = {}
  /\ phase' = "lock"
  /\ UNCHANGED <<s, slave, job, jobs, alarm, done, proc, threadVars, ready, waiting>>

\* handle_block_notifications.
lock_jobs ==
  /\ proc = "up" /\ phase = "lock"
  /\ phase' = "jobs" /\ job' = jobs
  /\ UNCHANGED <<s, slave, jobs, alarm, done, proc, threadVars, ready, waiting>>

notify_job ==
  /\ proc = "up" /\ phase = "jobs" /\ job # <<>>
  /\ job' = Tail(job)
  /\ IF ITEM_USED(s, Head(job)) THEN HandleBlock(Head(job)) ELSE DoesNothing
  /\ Aftermath({}, {Head(job)})
  /\ UNCHANGED <<slave, phase, jobs, alarm, done>>

unlock_jobs ==
  /\ proc = "up" /\ phase = "jobs" /\ job = <<>>
  /\ jobs' = <<>> /\ phase' = "top"
  /\ UNCHANGED <<s, slave, job, alarm, done, proc, threadVars, ready, waiting>>

\* The loop of main has ended: every descriptor is unregistered, and the table,
\* the jobs and the selector are freed.
selector_destroy ==
  /\ proc = "up" /\ phase = "top" /\ done = 1
  /\ phase' = "destroyed" /\ s' = [selector_new EXCEPT !.fd_size = 0]
  /\ jobs' = <<>> /\ ready' = {} /\ waiting' = {}
  /\ UNCHANGED <<slave, job, alarm, done, proc, threadVars>>

------------------------------------------------------------------------------
(* selector_notify_block, in a thread of its own.                          *)

\* (Mutant) The list is changed without the mutex.
NoMutex == TRUE

MutexFree == phase # "jobs"

\* A selector that has been destroyed is memory that has been freed.
PushJob(t) ==
  /\ proc = "up" /\ thread[t] = "resolving" /\ MutexFree
  /\ thread' = [thread EXCEPT ![t] = "pushed"]
  /\ IF phase = "destroyed" THEN proc' = "corrupt" /\ UNCHANGED jobs
     ELSE jobs' = <<tfd[t]>> \o jobs /\ UNCHANGED proc
  /\ UNCHANGED <<loopVars, alarm, done, tfd, ready, waiting>>

\* (Mutant) A signal that is not blocked is handled, and gone, at once.
PendingUnblocked == IF phase = "pselect" THEN 1 ELSE alarm

\* A signal that is blocked stays pending until pselect.
Pending == 1

KillSelector(t) ==
  /\ proc = "up" /\ thread[t] = "pushed"
  /\ IF phase = "destroyed" THEN proc' = "corrupt" /\ UNCHANGED alarm
     ELSE alarm' = Pending /\ UNCHANGED proc
  /\ thread' = [thread EXCEPT ![t] = "none"] /\ tfd' = [tfd EXCEPT ![t] = NoFd]
  /\ UNCHANGED <<loopVars, jobs, done, ready, waiting>>

selector_notify_block(t) == PushJob(t) \/ KillSelector(t)

------------------------------------------------------------------------------
\* The kernel has something for a descriptor that is watched.
BecomesReady ==
  /\ Up
  /\ \E e \in Watched(s) \ ready : ready' = ready \cup {e}
  /\ UNCHANGED <<loopVars, jobs, alarm, done, proc, threadVars, waiting>>

\* signal_handler sets done.  Only a thread in pselect is woken by it.
Terminate ==
  /\ Up /\ done = 0
  /\ done' = 1
  /\ phase' = IF phase = "pselect" THEN "lock" ELSE phase
  /\ UNCHANGED <<s, slave, job, jobs, alarm, proc, threadVars, ready, waiting>>

Init ==
  /\ s = selector_register(selector_new, Listener, {"READ"})
  /\ slave = {} /\ jobs = <<>> /\ job = <<>> /\ phase = "top"
  /\ alarm = 0 /\ done = 0
  /\ proc = IF INVALID_FD(Listener) \/ HasRoom(selector_new.fd_size, Listener) THEN "up"
            ELSE "corrupt"
  /\ thread = [t \in Thread |-> "none"] /\ tfd = [t \in Thread |-> NoFd]
  /\ ready = {} /\ waiting = {}

selector_select ==
  \/ EnterSelect \/ CallPselect \/ PselectReady \/ PselectInterrupted \/ end_iteration
  \/ \E e \in slave : handle_event(e) \/ skip_event(e)
  \/ lock_jobs \/ notify_job \/ unlock_jobs

Loop == selector_select \/ selector_destroy

Ended == ~Up /\ UNCHANGED vars

Next ==
  \/ Loop \/ PselectTimeout
  \/ \E t \in Thread : selector_notify_block(t)
  \/ BecomesReady \/ Terminate \/ Ended

\* The loop goes on while it can, time passes, getaddrinfo returns, and a thread
\* gets a mutex that is free again and again, as that of a sleeping loop is.
Fairness ==
  /\ WF_vars(Loop) /\ WF_vars(PselectTimeout)
  /\ \A t \in Thread : SF_vars(selector_notify_block(t))

Spec == Init /\ [][Next]_vars /\ Fairness

------------------------------------------------------------------------------
TypeOK ==
  /\ s \in [fds : [Fd -> (SUBSET Op) \cup {Unused}], fd_size : 0..ItemsMax + 1,
            max_fd : Fd \cup {0}, master : SUBSET (Fd \X Op)]
  /\ slave \subseteq Fd \X Op /\ jobs \in Seq(Fd) /\ job \in Seq(Fd)
  /\ phase \in {"top", "entered", "pselect", "events", "lock", "jobs", "destroyed"}
  /\ alarm \in 0..1 /\ done \in 0..1 /\ proc \in {"up", "corrupt"}
  /\ thread \in [Thread -> {"none", "resolving", "pushed"}]
  /\ tfd \in [Thread -> Fd \cup {NoFd}]
  /\ ready \subseteq Fd \X Op /\ waiting \subseteq Fd

\* What pselect is given is what the table says: the master sets hold exactly
\* the interests of the entries in use, and max_fd, which bounds both pselect and
\* handle_iteration, is the greatest of them, whatever was registered and
\* unregistered in between.
PselectWatchesTable ==
  /\ s.master = Watched(s)
  /\ LET used == {f \in Fd : ITEM_USED(s, f)}
     IN  IF used = {} THEN s.max_fd = 0
         ELSE s.max_fd \in used /\ \A f \in used : f <= s.max_fd

\* The only entry ever missed is the one right behind the end of the table, which
\* selector_register makes no room for (fd > fd_size where fd >= fd_size is meant):
\* whatever was registered before and however the table has grown, the others are
\* written, and read by handle_iteration, where there is memory for them.
TableCovers ==
  phase # "destroyed" =>
    /\ proc = "up" => s.max_fd < s.fd_size
    /\ proc = "corrupt" => s.max_fd = s.fd_size

\* Nothing is written behind the table while there is one: "garantizar cierta
\* cantidad de elemenos en `fds'" (ensure_capacity), and a connection too many is
\* refused (docs/REPORT.md, 4).
NoOverrun == phase # "destroyed" => proc = "up"

\* The thread of the selector never sleeps on a finished job: when one is in the
\* list, the signal that ends pselect is pending or about to be sent.
NoLostWakeup ==
  phase = "pselect" /\ jobs # <<>> => alarm = 1 \/ \E t \in Thread : thread[t] = "pushed"

\* Every blocking job ends in a call of handle_block, unless its descriptor is
\* unregistered or the server ends: none is lost between the list, its mutex and
\* the signal.  (Here and below []<>(~p \/ q) is p ~> ~p \/ q.)
JobNotified == \A f \in Fd : []<>(f \notin waiting \/ ~Up)

\* An event of a descriptor that is watched is served, whatever the others do:
\* handlers that register, unregister and grow the table in the middle of an
\* iteration hide no descriptor from the next.
ReadyIsServed == \A e \in Fd \X Op : []<>(e \notin ready \/ ~Up)

\* A signal ends the server, also when it comes after the loop has looked at
\* `done' and before pselect (done stays 1, so that this is done = 1 ~> ~Up).
SignalEndsLoop == []<>(done = 0 \/ ~Up)
==============================================================================
