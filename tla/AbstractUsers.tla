---------------------------- MODULE AbstractUsers ----------------------------
(***************************************************************************)
(* What the administration promises of the users: they are a set, in which *)
(* one user at a time is created, removed or changed, in the name of an    *)
(* administrator of the moment, and the others stay as they are.  A new    *)
(* user has a name of its own; nobody can remove himself; and a user keeps *)
(* its name, with a new password or a new privilege but not both.          *)
(***************************************************************************)
VARIABLE users      \* records of a username, a password and a privilege_level

IsAdmin(u) == u \in users /\ u.privilege_level = 0

Init == \E u \in users : IsAdmin(u)

Create ==
  \E u \in users' :
    /\ \A v \in users : v.username # u.username
    /\ users' = users \cup {u}

Remove(me) == \E u \in users \ {me} : users' = users \ {u}

Change ==
  \E u \in users, v \in users' :
    /\ \/ v = [u EXCEPT !.password = v.password]
       \/ v = [u EXCEPT !.privilege_level = v.privilege_level]
    /\ users' = (users \ {u}) \cup {v}

Next ==
  /\ users' # users
  /\ \E me \in users : IsAdmin(me) /\ (Create \/ Remove(me) \/ Change)

Spec == Init /\ [][Next]_users
==============================================================================
