------------------------------ MODULE Handshake ------------------------------
(***************************************************************************)
(* The handshake of one SOCKS client, byte by byte: the greeting, the      *)
(* authentication and the request (states/greeting.c, auth.c, request.c),  *)
(* from the accepted connection to the moment its target is known.  What   *)
(* follows is module Connection, where these handlers are only outcomes.   *)
(*                                                                         *)
(* TCP delivers what the client sends in any pieces.  A client speaks in   *)
(* lockstep, each message after the answer to the one before, or pipelines *)
(* all of them and the first bytes for the origin.  It may go away at any  *)
(* time.  The buffers have room for the whole of it.                       *)
(***************************************************************************)
EXTENDS Naturals, Sequences, SequencesExt

CONSTANTS
  Mode,       \* ways of speaking: some of "lockstep", "pipelining"
  Offer,      \* lists of methods a client may offer
  Host,       \* hosts a client may ask for, as records of atyp and bytes
  Port,       \* ports, as pairs of bytes
  AddrLen     \* bound: IPv4_ADDR_LEN and IPv6_ADDR_LEN

Bytes == Seq(0..255)

SOCKS5_VERSION == 5
AUTH_VERSION == 1
CONNECT_CMD == 1
RSV == 0
IPv4_ADDR == 1
FQDN == 3
IPv6_ADDR == 4
NO_AUTH_METHOD == 0
AUTH_METHOD == 2
AUTH_METHOD_INVALID == 255
AUTH_SUCCESS == 0
AUTH_FAILURE == 1

\* The messages of a client are those of RFC 1928: a length that it sends fits in
\* a byte and is not 0, and an address has the length its type calls for.
ASSUME ClientAssumption ==
  /\ Mode \subseteq {"lockstep", "pipelining"} /\ AddrLen \in Nat
  /\ \A o \in Offer : o \in Bytes /\ Len(o) \in 1..255
  /\ \A h \in Host : /\ h \in [atyp : {IPv4_ADDR, FQDN, IPv6_ADDR}, bytes : Bytes]
                      /\ IF h.atyp = FQDN THEN Len(h.bytes) \in 1..255
                         ELSE Len(h.bytes) = AddrLen
  /\ \A p \in Port : p \in Bytes /\ Len(p) = 2

None == 256                     \* not a byte

\* users.c knows one user; the name and the password of a client are a byte each.
Credential == {7, 8}
user_authenticate(name, pass) == name = <<7>> /\ pass = <<7>>

Payload == <<99>>               \* what a pipelining client sends behind its request

VARIABLES
  script,     \* what the client has to say, chosen once
  client,     \* how far it has come
  wire,       \* bytes it has sent that recv has not returned
  state,      \* GREETING, AUTH, REQUEST, REPLY; then CONNECTING, CLOSED or KILLED
  sub,        \* the inner state of the greeting, auth or request
  n,          \* n_methods, ulen, plen or, of a request, atyp
  username,
  buf,        \* client_buffer
  answer,     \* the second byte of the answer in origin_buffer
  out,        \* bytes of it not yet sent: OP_WRITE while there are, else OP_READ
  target,     \* the host and port asked for, once they are known
  split       \* ghost: 1 once the length of a name was read before the name was there

parserVars == <<sub, n, username, buf>>
vars == <<script, client, wire, state, parserVars, answer, out, target, split>>

------------------------------------------------------------------------------
(* The messages of the client.                                             *)

Greeting == <<SOCKS5_VERSION, Len(script.offer)>> \o script.offer

\* A client that offers no authentication sends none, whatever it is answered.
Offered == AUTH_METHOD \in ToSet(script.offer)
Auth == IF Offered THEN <<AUTH_VERSION, 1, script.user, 1, script.pass>> ELSE <<>>

RequestHeader == <<SOCKS5_VERSION, CONNECT_CMD, RSV, script.host.atyp>>
HostField == IF script.host.atyp = FQDN
             THEN <<Len(script.host.bytes)>> \o script.host.bytes
             ELSE script.host.bytes
Request == RequestHeader \o HostField \o script.port

------------------------------------------------------------------------------
(* What the handlers have in common.                                       *)

Drop(q, k) == SubSeq(q, k + 1, Len(q))

\* buffer_read of an empty buffer gives 0.
Byte(q, i) == IF i <= Len(q) THEN q[i] ELSE 0

Listening(st) == state = st /\ out = 0

\* ERROR or DONE: socksv5_done.
Close ==
  /\ state' = "CLOSED"
  /\ UNCHANGED <<parserVars, answer, out, target, split>>

\* The handler returns its state, to go on when more bytes arrive.
Await(inner, q, len, name) ==
  /\ sub' = inner /\ buf' = q /\ n' = len /\ username' = name
  /\ UNCHANGED <<state, answer, out, target, split>>

\* Two bytes go to origin_buffer, and the interest is OP_WRITE.
Respond(a, q) ==
  /\ answer' = a /\ out' = 2 /\ buf' = q
  /\ UNCHANGED <<state, sub, n, username, target, split>>

\* recv at the end of a stream.
AtEnd == client = "gone" /\ wire = <<>>

\* What recv may return: some of the bytes, or none at the end of the stream.
Pieces == IF AtEnd THEN {0} ELSE 1..Len(wire)
Received(k) == buf \o SubSeq(wire, 1, k)

------------------------------------------------------------------------------
(* greeting.c                                                              *)

\* The loop over the methods stops at the first that will do.
FirstAuth(q, len) ==
  IF \E i \in 1..len : q[i] = AUTH_METHOD
  THEN CHOOSE i \in 1..len : q[i] = AUTH_METHOD /\ \A j \in 1..i - 1 : q[j] # AUTH_METHOD
  ELSE 0

\* (Mutant) One byte more than the methods is waited for.
ReadMethodsLate(q, len) ==
  IF Len(q) <= len THEN Await("METHODS", q, len, username)
  ELSE Respond(AUTH_METHOD, Drop(q, len))

\* METHODS.  A client that offers no authentication gets no acceptable method.
ReadMethods(q, len) ==
  IF Len(q) < len THEN Await("METHODS", q, len, username)
  ELSE IF FirstAuth(q, len) > 0 THEN Respond(AUTH_METHOD, Drop(q, FirstAuth(q, len)))
  ELSE Respond(AUTH_METHOD_INVALID, Drop(q, len))

\* VER_N_NMETHODS
ReadGreeting(q) ==
  IF Len(q) < 2 THEN Await(sub, q, n, username)
  ELSE IF q[1] # SOCKS5_VERSION \/ q[2] = 0 THEN Close
  ELSE ReadMethods(Drop(q, 2), q[2])

greeting_read ==
  /\ Listening("GREETING")
  /\ \E k \in Pieces :
       /\ IF Received(k) = <<>> THEN Close
          ELSE IF sub = "VER_N_NMETHODS" THEN ReadGreeting(Received(k))
          ELSE ReadMethods(Received(k), n)
       /\ wire' = Drop(wire, k)
  /\ UNCHANGED <<script, client>>

------------------------------------------------------------------------------
(* auth.c                                                                  *)

ReadPassword(q, len, name) ==
  IF Len(q) < len THEN Await("AUTH_PASSWD", q, len, name)
  ELSE Respond(IF user_authenticate(name, SubSeq(q, 1, len)) THEN AUTH_SUCCESS
               ELSE AUTH_FAILURE, Drop(q, len))

ReadPlen(q, name) ==
  IF q = <<>> THEN Await("AUTH_PLEN", q, 0, name)
  ELSE IF q[1] = 0 THEN Close
  ELSE ReadPassword(Drop(q, 1), q[1], name)

\* (Mutant) The name is taken as it stands, zeros for what is missing.
ReadUsernameEarly(q, len) == ReadPlen(Drop(q, len), [i \in 1..len |-> Byte(q, i)])

ReadUsername(q, len) ==
  IF Len(q) < len THEN Await("AUTH_UNAME", q, len, <<>>)
  ELSE ReadPlen(Drop(q, len), SubSeq(q, 1, len))

ReadUlen(q) ==
  IF q = <<>> THEN Await("AUTH_ULEN", q, 0, <<>>)
  ELSE IF q[1] = 0 THEN Close
  ELSE ReadUsername(Drop(q, 1), q[1])

ReadAuth(q) ==
  IF q = <<>> THEN Await("AUTH_VER", q, 0, <<>>)
  ELSE IF q[1] # AUTH_VERSION THEN Close
  ELSE ReadUlen(Drop(q, 1))

\* The inner state says which part the bytes go to; each goes on to the next.
ParseAuth(q) ==
  CASE sub = "AUTH_VER" -> ReadAuth(q)
    [] sub = "AUTH_ULEN" -> ReadUlen(q)
    [] sub = "AUTH_UNAME" -> ReadUsername(q, n)
    [] sub = "AUTH_PLEN" -> ReadPlen(q, username)
    [] sub = "AUTH_PASSWD" -> ReadPassword(q, n, username)

\* (Mutant) The end of the stream is not looked at.
AuthEndsUnseen(q) == FALSE

\* Nothing was received and nothing is left: the client has closed.
AuthEnds(q) == q = <<>>

auth_read ==
  /\ Listening("AUTH")
  /\ \E k \in Pieces :
       LET q == Received(k)
       IN  /\ IF AuthEnds(q) THEN Close ELSE ParseAuth(q)
           /\ wire' = Drop(wire, k)
  /\ UNCHANGED <<script, client>>

\* A reset: recv returns -1, which the greeting and the authentication notice.
recv_fails ==
  /\ client = "gone" /\ (Listening("GREETING") \/ Listening("AUTH"))
  /\ Close /\ wire' = <<>>
  /\ UNCHANGED <<script, client>>

------------------------------------------------------------------------------
(* request.c                                                               *)

\* to_reply_state.  There is no socket to the origin yet, so that reply_arrival
\* finds no address to report, and what is left in the buffer is never looked at.
Fails ==
  /\ state' = "REPLY"
  /\ UNCHANGED <<parserVars, answer, out, target, split>>

\* get_ipv4_address, get_ipv6_address or get_fqdn, and get_port: bytes that are
\* missing are 0.
Resolve(q, len) ==
  /\ state' = "CONNECTING"
  /\ target' = [host |-> SubSeq(q, 1, len), port |-> <<Byte(q, len + 1), Byte(q, len + 2)>>]
  /\ buf' = Drop(q, len + 2)
  /\ UNCHANGED <<sub, n, username, answer, out, split>>

\* (Mutant) The address is waited for, the port is not.
EnoughForAddress(q, len) == Len(q) >= len

\* One byte of the port is waited for, the other is not.
Enough(q, len) == Len(q) >= len + 1

\* DST_LEN.  The length of a name is consumed whether the name is there or not,
\* and the inner state stays DST_LEN.
ReadFqdn(q) ==
  IF q[1] = 0 THEN Fails
  ELSE IF Len(q) >= q[1] + 2 THEN Resolve(Drop(q, 1), q[1])
  ELSE /\ sub' = "DST_LEN" /\ buf' = Drop(q, 1) /\ n' = FQDN /\ split' = 1
       /\ UNCHANGED <<state, username, answer, out, target>>

ReadAddress(q, atyp) ==
  IF Enough(q, AddrLen) THEN Resolve(q, AddrLen)
  ELSE Await("DST_LEN", q, atyp, username)

\* What is there when resolve_dst_address has called recv: nothing is taken for
\* the end of the stream.
ReadDst(q, atyp) ==
  IF q = <<>> THEN Close
  ELSE IF atyp = FQDN THEN ReadFqdn(q)
  ELSE ReadAddress(q, atyp)

\* VER_CMD_ATYP
ValidHeader(q) ==
  /\ q[1] = SOCKS5_VERSION /\ q[2] = CONNECT_CMD /\ q[3] = RSV
  /\ q[4] \in {IPv4_ADDR, FQDN, IPv6_ADDR}

\* Behind a valid header m more bytes may come in time for the second recv.
request_header ==
  /\ Listening("REQUEST") /\ sub = "VER_CMD_ATYP"
  /\ \E k \in Pieces, m \in 0..Len(wire) :
       LET q == Received(k)
       IN  /\ k + m <= Len(wire)
           /\ \/ m = 0 /\ q = <<>> /\ Close
              \/ m = 0 /\ Len(q) \in 1..3 /\ Await(sub, q, n, username)
              \/ m = 0 /\ Len(q) > 3 /\ ~ValidHeader(q) /\ Fails
              \/ Len(q) > 3 /\ ValidHeader(q) /\ ReadDst(Drop(Received(k + m), 4), q[4])
           /\ wire' = Drop(wire, k + m)
  /\ UNCHANGED <<script, client>>

\* In DST_LEN there is one recv, that of resolve_dst_address.
request_address ==
  /\ Listening("REQUEST") /\ sub = "DST_LEN"
  /\ \E k \in Pieces : ReadDst(Received(k), n) /\ wire' = Drop(wire, k)
  /\ UNCHANGED <<script, client>>

request_read == request_header \/ request_address

\* reply_write: without an address to report there is no answer.
reply_write == state = "REPLY" /\ Close /\ UNCHANGED <<script, client, wire>>

------------------------------------------------------------------------------
(* The answers.                                                            *)

Arrive(st, inner) ==
  /\ state' = st /\ sub' = inner /\ out' = 0 /\ n' = 0 /\ username' = <<>>
  /\ UNCHANGED <<buf, answer, target, split>>

\* greeting_write, when all is sent.  Anything but AUTH_METHOD goes on to REQUEST.
GreetingCompleted ==
  /\ state = "GREETING"
  /\ IF answer = AUTH_METHOD THEN Arrive("AUTH", "AUTH_VER") ELSE Arrive("REQUEST", "VER_CMD_ATYP")

\* (Mutant) The connection goes on after a failed authentication.
AuthCompletedAnyway == state = "AUTH" /\ Arrive("REQUEST", "VER_CMD_ATYP")

\* auth_write, when all is sent.
AuthCompleted ==
  /\ state = "AUTH"
  /\ IF answer = AUTH_SUCCESS THEN Arrive("REQUEST", "VER_CMD_ATYP") ELSE Close

SendPart ==
  /\ out = 2 /\ out' = 1
  /\ UNCHANGED <<state, parserVars, answer, target, split>>

\* A client that has gone makes send fail, with SIGPIPE perhaps.
SendFails ==
  /\ client = "gone"
  /\ \/ Close
     \/ state' = "KILLED" /\ UNCHANGED <<parserVars, answer, out, target, split>>

answer_write ==
  /\ state \in {"GREETING", "AUTH"} /\ out > 0
  /\ GreetingCompleted \/ AuthCompleted \/ SendPart \/ SendFails
  /\ UNCHANGED <<script, client, wire>>

------------------------------------------------------------------------------
(* The client.                                                             *)

Over == state \in {"CLOSED", "KILLED"}

Says(message, next) == wire' = wire \o message /\ client' = next

\* A client that has no acceptable method should go, but may go on to its request.
ClientSpeaks ==
  /\ \/ client = "greeting_sent" /\ state = "AUTH" /\ Says(Auth, "auth_sent")
     \/ client = "greeting_sent" /\ state = "REQUEST" /\ Says(<<>>, "gone")
     \/ client = "greeting_sent" /\ state = "REQUEST" /\ Says(Request, "request_sent")
     \/ client = "auth_sent" /\ state = "REQUEST" /\ Says(Request, "request_sent")
     \/ client \in {"request_sent", "all_sent"} /\ state = "CONNECTING" /\ Says(<<>>, "served")
     \/ client \notin {"gone", "served"} /\ Over /\ Says(<<>>, "gone")
  /\ UNCHANGED <<script, state, parserVars, answer, out, target, split>>

ClientGoes ==
  /\ client \notin {"gone", "served"} /\ ~Over
  /\ client' = "gone"
  /\ UNCHANGED <<script, wire, state, parserVars, answer, out, target, split>>

------------------------------------------------------------------------------
Script == [mode : Mode, offer : Offer, user : Credential, pass : Credential,
           host : Host, port : Port]

\* An accepted connection, and a client with its first message on the way.
Init ==
  /\ script \in Script
  /\ client = IF script.mode = "lockstep" THEN "greeting_sent" ELSE "all_sent"
  /\ wire = IF script.mode = "lockstep" THEN Greeting
            ELSE Greeting \o Auth \o Request \o Payload
  /\ state = "GREETING" /\ sub = "VER_N_NMETHODS" /\ n = 0 /\ username = <<>>
  /\ buf = <<>> /\ answer = None /\ out = 0
  /\ target = [host |-> <<>>, port |-> <<>>] /\ split = 0

Serve == greeting_read \/ auth_read \/ request_read \/ answer_write \/ reply_write

\* Bytes may never come again, and a loop that spins changes nothing.
Rest ==
  /\ Over \/ state = "CONNECTING" \/ wire = <<>>
  /\ UNCHANGED vars

Next == Serve \/ recv_fails \/ ClientSpeaks \/ ClientGoes \/ Rest

\* The loop serves a descriptor that is ready, and the client goes on when it is
\* answered.  No connection need ever be reset.
Fairness == WF_vars(Serve) /\ WF_vars(ClientSpeaks)

Spec == Init /\ [][Next]_vars /\ Fairness

------------------------------------------------------------------------------
TypeOK ==
  /\ client \in {"greeting_sent", "auth_sent", "request_sent", "all_sent", "served", "gone"}
  /\ wire \in Bytes /\ buf \in Bytes /\ username \in Bytes
  /\ state \in {"GREETING", "AUTH", "REQUEST", "REPLY", "CONNECTING", "CLOSED", "KILLED"}
  /\ sub \in {"VER_N_NMETHODS", "METHODS", "AUTH_VER", "AUTH_ULEN", "AUTH_UNAME",
              "AUTH_PLEN", "AUTH_PASSWD", "VER_CMD_ATYP", "DST_LEN"}
  /\ n \in 0..255 /\ answer \in 0..256 /\ out \in 0..2 /\ split \in 0..1
  /\ target \in [host : Bytes, port : Bytes]

\* The loop over the methods leaves those behind AUTH_METHOD in the buffer, in
\* front of the next message.
MethodsLeftOver == AUTH_METHOD \in ToSet(Front(script.offer))

\* However the messages are cut, and whether or not they are pipelined, the method
\* answered is the one the whole list of methods calls for, and the verdict is that
\* of the credentials the client has sent, unless methods left over from the
\* greeting come before them.
AnswersFollowMessages ==
  out > 0 =>
    /\ state = "GREETING" =>
         answer = IF Offered THEN AUTH_METHOD ELSE AUTH_METHOD_INVALID
    /\ state = "AUTH" /\ ~MethodsLeftOver =>
         answer = IF user_authenticate(<<script.user>>, <<script.pass>>) THEN AUTH_SUCCESS
                  ELSE AUTH_FAILURE

\* A client that offers to authenticate itself reaches a target only with the right
\* credentials, in lockstep or not: no cut of the messages leads around them once
\* the method is chosen.
ChosenAuthIsRequired ==
  state = "CONNECTING" /\ Offered => user_authenticate(<<script.user>>, <<script.pass>>)

\* A client without an acceptable method is refused, "No acceptable methods"
\* (greeting.c), and the proxy authenticates its clients (REPORT.md, 2): a target is
\* reached only by one that has proved who it is.
TargetMeansAuthenticated ==
  state = "CONNECTING" => Offered /\ user_authenticate(<<script.user>>, <<script.pass>>)

\* The target is the one the request names, and the request is consumed to its
\* last byte, so that what is relayed next begins with the first byte meant for
\* the origin.  Two cuts are excepted: one before the last byte of the port,
\* which is then 0 and relayed, and one inside a name.
TargetIsRequested ==
  state = "CONNECTING" /\ split = 0 =>
    LET behind == IF script.mode = "lockstep" THEN <<>> ELSE Payload
    IN  /\ target.host = script.host.bytes /\ target.port[1] = script.port[1]
        /\ \/ target.port = script.port /\ buf \o wire = behind
           \/ target.port[2] = 0 /\ buf \o wire = <<script.port[2]>> \o behind

\* A client that speaks in lockstep and waits is answered, or its connection is
\* closed: no state of the parsers waits for bytes that are not to come, except
\* where methods are left over or a cut inside a name has lost its length.
LockstepAnswered ==
  \A at \in {"greeting_sent", "auth_sent", "request_sent"} :
    client = at ~> (client # at \/ MethodsLeftOver \/ split = 1)

\* A client that goes away is noticed, and its connection closed, unless it has
\* left an incomplete message behind.
GoneIsNoticed == client = "gone" ~> (Over \/ state = "CONNECTING" \/ buf # <<>>)

==============================================================================
