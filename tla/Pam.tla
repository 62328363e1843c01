--------------------------------- MODULE Pam ---------------------------------
(***************************************************************************)
(* The administration protocol: the server of src/src/server/pam/ over the *)
(* users of module Users, and the client of src/src/client/ as its peer.   *)
(*                                                                         *)
(* Bytes are kept, for what the server does depends on where TCP cuts a    *)
(* message: a name and a character of a password are a byte each, and recv *)
(* returns any part of what the client has sent.  Its messages are far     *)
(* smaller than a buffer (PAM_BUFFER_SIZE), so that there always is room.  *)
(* Of an answer only the status is kept, and whether it has been sent.     *)
(***************************************************************************)
EXTENDS Users, FiniteSets

CONSTANTS
  Session,      \* the connections of administrators there may be at once
  Password,     \* the passwords that clients use
  Default,      \* the one the first users have
  Role,         \* the roles that clients ask for: any byte, as atoi made it
  Cut,          \* bound: the sizes of the pieces a message may arrive in
  MaxAdmins     \* bound: totalAdmins

ASSUME SessionAssumption == IsFiniteSet(Session) /\ MaxAdmins \in Nat \ {0} /\ Cut \subseteq Nat
ASSUME PasswordAssumption ==
  Password \subseteq Seq(Nat \ {0}) /\ Default \in Password
ASSUME RoleAssumption == Role \subseteq 0..255

PAM_VERSION_1 == 1
RESERVED_BYTE == 0

LIST == 1
ADD == 2
REMOVE == 3
CHANGE_PASSWORD == 4
CHANGE_ROLE == 5
METRICS == 6
NoMethod == 7     \* one of the reserved ones, from some other client

SUCCESS == 0
FAILURE == 1
UNAUTHORIZED == 2
USER_ALREADY_EXISTS == 3
CREDTOOLONG == 5
BADUSERNAME == 6
PAM_ERROR == 3    \* a state of the machine, which the methods also use as a status

Uninit == -1      \* the status is what malloc left in the struct
NullRead == -2    \* there is none: a NULL pointer was followed

VARIABLES
  usersList, totalAdmins,
  state,      \* state[c]: "CLOSED", "PAM_AUTH" or "PAM_REQUEST"
  sub,        \* sub[c]: auth.state or request.state
  username,   \* username[c]: auth.username
  lens,       \* lens[c]: n_user and n_pass
  buf,        \* buf[c]: client_buffer while it is read into, its unread bytes
  status,     \* status[c]: auth.status or request.status
  out,        \* out[c]: 1 while the answer is not all sent, with OP_WRITE; else 0
  wire,       \* wire[c]: bytes the client has sent, not yet received
  client,     \* client[c]: how far the client has come
  proc        \* "up", "aborted" (assert), "crashed" (NULL) or "killed" (SIGPIPE)

userVars == <<usersList, totalAdmins>>
sessionVars == <<state, sub, username, lens, buf, status, out>>
vars == <<userVars, sessionVars, wire, client, proc>>

------------------------------------------------------------------------------
(* The methods, on the body of a request.                                  *)

\* buffer_read: 0 when there is nothing left.
Byte(b, i) == IF i <= Len(b) THEN b[i] ELSE 0

\* A length and so many bytes, and where the next field begins.
Field(b, i) == [k \in 1..Byte(b, i) |-> Byte(b, i + k)]
After(b, i) == i + 1 + Byte(b, i)

\* Such a field as a string, which ends at a zero: a name, or a password.
NameAt(b, i) == IF Byte(b, i) = 0 THEN 0 ELSE Byte(b, i + 1)
PasswordAt(b, i) ==
  LET f == Field(b, i)
      end == SelectInSeq(f, LAMBDA x : x = 0)
  IN  IF end = 0 THEN f ELSE SubSeq(f, 1, end - 1)

Now(st) == Result(usersList, totalAdmins, st)

\* The switch on the status of an operation.
Answer(r, statuses) == [r EXCEPT !.status = statuses[@]]

handle_add_user(me, b) ==
  IF ~user_is_admin(usersList, me) THEN Now(UNAUTHORIZED)
  ELSE Answer(user_create(usersList, totalAdmins, NameAt(b, 1),
                          PasswordAt(b, After(b, 1)), Byte(b, After(b, After(b, 1)))),
              [USER_OK |-> SUCCESS, USER_ALREADYEXISTS |-> USER_ALREADY_EXISTS,
               USER_CREDTOOLONG |-> CREDTOOLONG])

\* (Mutant) An administrator may remove itself.
RemoveAnybody(me, b) ==
  LET name == NameAt(b, 1)
      i == user_get_if_exists(usersList, name)
  IN  IF ~user_is_admin(usersList, me) THEN Now(UNAUTHORIZED)
      ELSE IF totalAdmins = 1 /\ i = 0 THEN Now(NullRead)
      ELSE IF totalAdmins = 1 /\ usersList[i].privilege_level = USER_PRIVILEGE_ADMIN
      THEN Now(UNAUTHORIZED)
      ELSE Answer(user_remove(usersList, totalAdmins, name),
                  [USER_OK |-> SUCCESS, USER_BADUSERNAME |-> BADUSERNAME])

\* With one administrator counted, the user to be removed is looked at before
\* it is known to exist.
handle_remove_user(me, b) ==
  LET name == NameAt(b, 1)
      i == user_get_if_exists(usersList, name)
  IN  IF ~user_is_admin(usersList, me) THEN Now(UNAUTHORIZED)
      ELSE IF totalAdmins = 1 /\ i = 0 THEN Now(NullRead)
      ELSE IF \/ totalAdmins = 1 /\ usersList[i].privilege_level = USER_PRIVILEGE_ADMIN
              \/ me = name
      THEN Now(UNAUTHORIZED)
      ELSE Answer(user_remove(usersList, totalAdmins, name),
                  [USER_OK |-> SUCCESS, USER_BADUSERNAME |-> BADUSERNAME])

\* The case of an unknown user falls through to the default.
handle_change_password(me, b) ==
  IF ~user_is_admin(usersList, me) THEN Now(UNAUTHORIZED)
  ELSE Answer(user_change_password(usersList, totalAdmins, NameAt(b, 1),
                                   PasswordAt(b, After(b, 1))),
              [USER_OK |-> SUCCESS, USER_BADUSERNAME |-> PAM_ERROR])

\* (Mutant) Anybody may change a role.
ChangeRoleUnguarded(me, b) ==
  Answer(user_change_role(usersList, totalAdmins, NameAt(b, 1), Byte(b, After(b, 1))),
         [USER_OK |-> SUCCESS, USER_BADUSERNAME |-> USER_ALREADY_EXISTS])

handle_change_role(me, b) ==
  IF ~user_is_admin(usersList, me) THEN Now(UNAUTHORIZED)
  ELSE Answer(user_change_role(usersList, totalAdmins, NameAt(b, 1), Byte(b, After(b, 1))),
              [USER_OK |-> SUCCESS, USER_BADUSERNAME |-> USER_ALREADY_EXISTS])

\* The two that only read.  The listing sets no status.
handle_get_connected_users_list == Now(Uninit)
handle_get_metrics == Now(SUCCESS)

handle_pam_request_method(me, m, b) ==
  CASE m = LIST -> handle_get_connected_users_list
    [] m = ADD -> handle_add_user(me, b)
    [] m = REMOVE -> handle_remove_user(me, b)
    [] m = CHANGE_PASSWORD -> handle_change_password(me, b)
    [] m = CHANGE_ROLE -> handle_change_role(me, b)
    [] m = METRICS -> handle_get_metrics
    [] OTHER -> Now(FAILURE)

------------------------------------------------------------------------------
(* The connections.                                                        *)

\* pam_done: the descriptor is unregistered and closed, and pam_close frees the
\* struct.  The client sees the end of the connection and is gone too.
pam_done(c) ==
  /\ state' = [state EXCEPT ![c] = "CLOSED"] /\ sub' = [sub EXCEPT ![c] = "NONE"]
  /\ username' = [username EXCEPT ![c] = 0] /\ lens' = [lens EXCEPT ![c] = <<>>]
  /\ buf' = [buf EXCEPT ![c] = <<>>]
  /\ status' = [status EXCEPT ![c] = SUCCESS] /\ out' = [out EXCEPT ![c] = 0]
  /\ wire' = [wire EXCEPT ![c] = <<>>] /\ client' = [client EXCEPT ![c] = "none"]
  /\ UNCHANGED <<userVars, proc>>

\* The process ends, and every connection with it.
All(v) == [c \in Session |-> v]

Dies(how) ==
  /\ proc' = how
  /\ state' = All("CLOSED") /\ sub' = All("NONE") /\ username' = All(0) /\ lens' = All(<<>>)
  /\ buf' = All(<<>>) /\ status' = All(SUCCESS) /\ out' = All(0)
  /\ wire' = All(<<>>) /\ client' = All("none")
  /\ UNCHANGED userVars

\* pam_passive_accept, when everything it does succeeds; otherwise nothing is left.
pam_passive_accept(c) ==
  /\ proc = "up" /\ state[c] = "CLOSED"
  /\ state' = [state EXCEPT ![c] = "PAM_AUTH"]
  /\ sub' = [sub EXCEPT ![c] = "VER_N_NUSER_N_NPASS"]
  /\ client' = [client EXCEPT ![c] = "connected"]
  /\ UNCHANGED <<userVars, username, lens, buf, status, out, wire, proc>>

\* recv returns 0 or -1: the client has closed, or reset with bytes unread.
RecvEnds(c) == client[c] = "gone"

\* buffer_read_adv(n)
Drop(q, n) == SubSeq(q, n + 1, Len(q))

\* The handler returns its state: it goes on when more bytes arrive.
Await(c, u, q, name, n) ==
  /\ sub' = [sub EXCEPT ![c] = u] /\ buf' = [buf EXCEPT ![c] = q]
  /\ username' = [username EXCEPT ![c] = name] /\ lens' = [lens EXCEPT ![c] = n]
  /\ UNCHANGED <<userVars, state, status, out, client, proc>>

\* buffer_reset, the answer, and OP_WRITE.
Respond(c, st) ==
  /\ buf' = [buf EXCEPT ![c] = <<>>] /\ lens' = [lens EXCEPT ![c] = <<>>]
  /\ status' = [status EXCEPT ![c] = st]
  /\ out' = [out EXCEPT ![c] = 1]
  /\ UNCHANGED <<state, sub, client, proc>>

\* The three parts of pam_auth_read.  What the first one compares with 3 is the
\* room left in the buffer: it does not wait, and bytes that are missing are 0.
ReadPass(c, q, name, n) ==
  IF Len(q) < n[2] THEN Await(c, "PASS", q, name, n)
  ELSE /\ Respond(c, IF user_authenticate(usersList, name, SubSeq(q, 1, n[2]))
                     THEN SUCCESS ELSE FAILURE)
       /\ username' = [username EXCEPT ![c] = name]
       /\ UNCHANGED userVars

ReadUsername(c, q, n) ==
  IF Len(q) < n[1] THEN Await(c, "USERNAME", q, 0, n)
  ELSE ReadPass(c, Drop(q, n[1]), q[1], n)

ReadAuthHeader(c, q) ==
  LET n == <<Byte(q, 2), Byte(q, 3)>>
  IN  IF q[1] # PAM_VERSION_1 \/ n[1] = 0 \/ n[2] = 0 THEN pam_done(c)
      ELSE ReadUsername(c, Drop(q, 3), n)

\* The inner state says which part the bytes received go to; each part goes on to
\* the next one.
ParseAuth(c, q) ==
  CASE sub[c] = "VER_N_NUSER_N_NPASS" -> ReadAuthHeader(c, q)
    [] sub[c] = "USERNAME" -> ReadUsername(c, q, lens[c])
    [] sub[c] = "PASS" -> ReadPass(c, q, username[c], lens[c])

\* What recv may return, and what it leaves on the wire of an open session.
Pieces(c) == {k \in 1..Len(wire[c]) : k \in Cut \/ k = Len(wire[c])}
Buffered(c, k) == buf[c] \o SubSeq(wire[c], 1, k)
Received(c, k) ==
  state'[c] # "CLOSED" => wire' = [wire EXCEPT ![c] = Drop(@, k)]

pam_auth_read(c) ==
  /\ proc = "up" /\ state[c] = "PAM_AUTH" /\ out[c] = 0
  /\ \/ RecvEnds(c) /\ pam_done(c)
     \/ \E k \in Pieces(c) : ParseAuth(c, Buffered(c, k)) /\ Received(c, k)

\* (Mutant) The reader waits for one byte more than the body has.
ReadBodyWaits(c, q, m, n) ==
  IF Len(q) <= n THEN Await(c, sub[c], q, username[c], <<>>) ELSE pam_done(c)

\* READ_BODY: what is compared with read_nbody is the room left in the buffer;
\* bytes of the body that have not arrived are read as zeros.
ReadBody(c, q, m, n) ==
  LET r == handle_pam_request_method(username[c], m, [i \in 1..n |-> Byte(q, i)])
  IN  IF r.status = NullRead THEN Dies("crashed")
      ELSE /\ usersList' = r.list /\ totalAdmins' = r.admins
           /\ \E st \in IF r.status = Uninit THEN {SUCCESS, FAILURE} ELSE {r.status} :
                Respond(c, st)
           /\ UNCHANGED username

\* The version and the reserved byte, the method and the length of the body.
\* They too are compared with the room, and do not wait: a reserved byte that is
\* missing is 0, and without the other four buffer_read_adv asserts.
ReadRequest(c, q) ==
  IF q[1] # PAM_VERSION_1 \/ Byte(q, 2) # RESERVED_BYTE THEN pam_done(c)
  ELSE IF Len(q) < 6 THEN Dies("aborted")
  ELSE ReadBody(c, Drop(q, 6), 256 * q[3] + q[4], 256 * q[5] + q[6])

pam_request_read(c) ==
  /\ proc = "up" /\ state[c] = "PAM_REQUEST" /\ out[c] = 0
  /\ \/ RecvEnds(c) /\ pam_done(c)
     \/ \E k \in Pieces(c) : ReadRequest(c, Buffered(c, k)) /\ Received(c, k)

\* send takes a part of the answer, the rest of which waits for the next OP_WRITE, or
\* fails when the client has gone (with SIGPIPE, perhaps).
SendPart(c) == UNCHANGED vars

SendFails(c) ==
  /\ client[c] = "gone"
  /\ pam_done(c) \/ Dies("killed")

\* pam_auth_write goes on to PAM_REQUEST whatever the status.
AuthCompleted(c) ==
  /\ out' = [out EXCEPT ![c] = 0]
  /\ state' = [state EXCEPT ![c] = "PAM_REQUEST"]
  /\ sub' = [sub EXCEPT ![c] = "VER_N_RESERVED"]
  /\ UNCHANGED <<userVars, username, lens, buf, status, wire, client, proc>>

pam_auth_write(c) ==
  /\ proc = "up" /\ state[c] = "PAM_AUTH" /\ out[c] = 1
  /\ SendPart(c) \/ SendFails(c) \/ AuthCompleted(c)

pam_request_write(c) ==
  /\ proc = "up" /\ state[c] = "PAM_REQUEST" /\ out[c] = 1
  /\ SendPart(c) \/ SendFails(c) \/ pam_done(c)

------------------------------------------------------------------------------
(* The client.                                                             *)

\* main: one message of authentication.
ClientAuth(c) ==
  /\ proc = "up" /\ client[c] = "connected"
  /\ \E u \in 1..MaxName, p \in Password :
       wire' = [wire EXCEPT ![c] = <<PAM_VERSION_1, 1, Len(p), u>> \o p]
  /\ client' = [client EXCEPT ![c] = "auth_sent"]
  /\ UNCHANGED <<userVars, sessionVars, proc>>

\* send_request, with the bodies of add_user, remove_user, change_password and
\* change_role.
Request(m, body) == <<PAM_VERSION_1, RESERVED_BYTE, 0, m, 0, Len(body)>> \o body

\* The passwords they give to users; that of the first ones is not given again.
NewPassword == Password \ {Default}

Requests ==
  {Request(m, <<>>) : m \in {LIST, METRICS, NoMethod}}
  \cup {Request(REMOVE, <<1, u>>) : u \in 1..MaxName}
  \cup {Request(CHANGE_PASSWORD, <<1, u, Len(p)>> \o p) : u \in 1..MaxName, p \in NewPassword}
  \cup {Request(CHANGE_ROLE, <<1, u, r>>) : u \in 1..MaxName, r \in Role}
  \cup IF totalAdmins + Cardinality(Session) > MaxAdmins THEN {}
       ELSE {Request(ADD, <<1, u, Len(p)>> \o p \o <<r>>) :
               u \in 1..Long, p \in NewPassword, r \in Role}

\* One request, once the authentication is answered: main goes on only when it has
\* succeeded, but some other client may go on anyway.
ClientRequest(c) ==
  /\ proc = "up" /\ client[c] = "auth_sent" /\ state[c] = "PAM_REQUEST"
  /\ \E r \in Requests : wire' = [wire EXCEPT ![c] = r]
  /\ client' = [client EXCEPT ![c] = "req_sent"]
  /\ UNCHANGED <<userVars, sessionVars, proc>>

\* The client of the repository closes when it was refused, and any may be stopped.
ClientCloses(c) ==
  /\ proc = "up" /\ client[c] \in {"connected", "auth_sent", "req_sent"}
  /\ client' = [client EXCEPT ![c] = "gone"]
  /\ UNCHANGED <<userVars, sessionVars, wire, proc>>

------------------------------------------------------------------------------
\* users_init, and the users of the command line.
Init ==
  /\ \E more \in BOOLEAN :
       usersList = <<[username |-> Admin, password |-> Default, privilege_level |-> 0]>>
                   \o IF more THEN <<[username |-> MaxName, password |-> Default,
                                      privilege_level |-> 1]>> ELSE <<>>
  /\ totalAdmins = 1
  /\ state = All("CLOSED") /\ sub = All("NONE") /\ username = All(0) /\ lens = All(<<>>)
  /\ buf = All(<<>>) /\ status = All(SUCCESS) /\ out = All(0)
  /\ wire = All(<<>>) /\ client = All("none")
  /\ proc = "up"

Serve(c) ==
  pam_auth_read(c) \/ pam_auth_write(c) \/ pam_request_read(c) \/ pam_request_write(c)

Ended == proc # "up" /\ UNCHANGED vars

Next ==
  \/ \E c \in Session : \/ Serve(c) \/ pam_passive_accept(c)
                        \/ ClientAuth(c) \/ ClientRequest(c) \/ ClientCloses(c)
  \/ Ended

Spec == Init /\ [][Next]_vars

------------------------------------------------------------------------------
TypeOK ==
  /\ usersList \in Seq(User(Seq(Nat))) /\ totalAdmins \in 0..MaxAdmins
  /\ state \in [Session -> {"CLOSED", "PAM_AUTH", "PAM_REQUEST"}]
  /\ sub \in [Session -> {"NONE", "VER_N_NUSER_N_NPASS", "USERNAME", "PASS",
                          "VER_N_RESERVED"}]
  /\ username \in [Session -> Name] /\ lens \in [Session -> Seq(Nat)]
  /\ buf \in [Session -> Seq(Nat)]
  /\ status \in [Session -> 0..6] /\ out \in [Session -> 0..1]
  /\ wire \in [Session -> Seq(Nat)]
  /\ client \in [Session -> {"none", "connected", "auth_sent", "req_sent", "gone"}]
  /\ proc \in {"up", "aborted", "crashed", "killed"}

\* Whatever the administrators do, and in whatever order their requests come,
\* the list of users is in strict order: list_add finds the right place, and no
\* name is there twice.
UsersSorted ==
  \A i, j \in 1..Len(usersList) :
    i < j => usersList[i].username < usersList[j].username

Names(l) == {l[i].username : i \in 1..Len(l)}

HasAdmin(l) == \E i \in 1..Len(l) : l[i].privilege_level = USER_PRIVILEGE_ADMIN

\* A request is judged by the privilege of the user its session has named, and as it
\* is when the request is carried out, not as it was when the session began: the
\* users change only at the hands of a session in the name of an administrator of
\* that moment, be it with the password of that user or not.
ChangesByAdmins ==
  [][usersList' # usersList =>
       \E c \in Session :
         /\ state[c] = "PAM_REQUEST" /\ out'[c] # out[c]
         /\ user_is_admin(usersList, username[c])]_vars

\* "Un cliente autenticado podra enviar pedidos" (PROTOCOL.md): the users change only
\* at the hands of a session whose authentication has succeeded.
ChangesByAuthenticated ==
  [][usersList' # usersList =>
       \E c \in Session :
         state[c] = "PAM_REQUEST" /\ out'[c] # out[c] /\ status[c] = SUCCESS]_vars

\* A removal never leaves the proxy without an administrator, although
\* totalAdmins, which is to guard it, falls behind the list.
RemovalKeepsAnAdmin ==
  [][Names(usersList) \ Names(usersList') # {} => HasAdmin(usersList')]_vars

Promised == INSTANCE AbstractUsers WITH users <- ToSet(usersList)

\* The sorted list, with its walks to the place of a name, behaves as the set that an
\* administrator changes one user at a time: whatever is linked in or out of the list,
\* and whatever a request that was cut short is taken for, no other user is lost or
\* altered.
ImplementsUsers == Promised!Spec

\* No message is forgotten: once all the bytes of a client that now waits have been
\* read, however they were cut, its answer is being sent or its session is over.
\* A reader that waited for more would wait for good.
NoMessageForgotten ==
  \A c \in Session :
    /\ proc = "up" /\ wire[c] = <<>>
    /\ \/ client[c] = "auth_sent" /\ state[c] = "PAM_AUTH"
       \/ client[c] = "req_sent" /\ state[c] = "PAM_REQUEST"
    => out[c] = 1
==============================================================================
