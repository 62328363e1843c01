-------------------------------- MODULE Users --------------------------------
(***************************************************************************)
(* The users of the proxy (src/src/server/users.c) over the sorted list of *)
(* src/src/shared/list.c.  A name is its place in the order of strcmp, 0   *)
(* the empty one; a password is the sequence of its characters.  Every     *)
(* operation is a function from the list and the count of administrators   *)
(* to what it leaves of them and the status it returns.                    *)
(***************************************************************************)
EXTENDS Integers, Sequences, SequencesExt

CONSTANT MaxName    \* bound: the greatest name of a user

\* There is another one beside "admin".
ASSUME MaxNameAssumption == MaxName \in Nat /\ MaxName >= 2

Long == MaxName + 1     \* a name of 255 characters
Name == 0..MaxName
Admin == 1              \* the name "admin"

USER_PRIVILEGE_ADMIN == 0
USER_PRIVILEGE_DEFAULT == 1

\* The privilege is whatever byte a request had for it: only that of an
\* administrator is ever compared with.
User(S) == [username : Name, password : S, privilege_level : 0..255]

------------------------------------------------------------------------------
(* The list.                                                               *)

\* list_add: the first element that is not smaller, or the end.
Position(l, u) ==
  CHOOSE i \in 1..Len(l) + 1 :
    /\ i <= Len(l) => l[i].username >= u.username
    /\ \A j \in 1..i - 1 : l[j].username < u.username

\* (Mutant) The walk stops one element early.
ListAddEarly(l, u) ==
  LET i == Position(l, u)
  IN  IF i <= Len(l) /\ l[i].username = u.username THEN l
      ELSE InsertAt(l, IF i = 1 THEN 1 ELSE i - 1, u)

\* (Mutant) The new node is linked behind its predecessor and not to its successor.
ListAddUnlinked(l, u) ==
  LET i == Position(l, u)
  IN  IF i <= Len(l) /\ l[i].username = u.username THEN l
      ELSE SubSeq(l, 1, i - 1) \o <<u>>

list_add(l, u) ==
  LET i == Position(l, u)
  IN  IF i <= Len(l) /\ l[i].username = u.username THEN l ELSE InsertAt(l, i, u)

\* user_get_if_exists: the place of a user in the list, 0 for NULL.
user_get_if_exists(l, name) == SelectInSeq(l, LAMBDA u : u.username = name)

list_remove(l, name) == RemoveAt(l, user_get_if_exists(l, name))

------------------------------------------------------------------------------
(* The operations: what becomes of the list and of totalAdmins.            *)

Result(l, admins, status) == [list |-> l, admins |-> admins, status |-> status]

user_is_admin(l, name) ==
  LET i == user_get_if_exists(l, name)
  IN  i # 0 /\ l[i].privilege_level = USER_PRIVILEGE_ADMIN

\* (Mutant) Without the test of the length of the name.
CreateAnyLength(l, admins, name, password, role) ==
  IF user_get_if_exists(l, name) # 0 THEN Result(l, admins, "USER_ALREADYEXISTS")
  ELSE Result(list_add(l, [username |-> name, password |-> password,
                           privilege_level |-> role]),
              IF role = USER_PRIVILEGE_ADMIN THEN admins + 1 ELSE admins, "USER_OK")

user_create(l, admins, name, password, role) ==
  IF name = Long THEN Result(l, admins, "USER_CREDTOOLONG")
  ELSE IF user_get_if_exists(l, name) # 0 THEN Result(l, admins, "USER_ALREADYEXISTS")
  ELSE Result(list_add(l, [username |-> name, password |-> password,
                           privilege_level |-> role]),
              IF role = USER_PRIVILEGE_ADMIN THEN admins + 1 ELSE admins, "USER_OK")

\* The count of administrators stays as it is.
user_remove(l, admins, name) ==
  IF user_get_if_exists(l, name) = 0 THEN Result(l, admins, "USER_BADUSERNAME")
  ELSE Result(list_remove(l, name), admins, "USER_OK")

\* memcpy copies the characters of the new password without its terminator:
\* what the old one had beyond them stays.
Overwritten(old, new) == new \o SubSeq(old, Len(new) + 1, Len(old))

user_change_password(l, admins, name, new) ==
  LET i == user_get_if_exists(l, name)
  IN  IF i = 0 THEN Result(l, admins, "USER_BADUSERNAME")
      ELSE Result([l EXCEPT ![i].password = Overwritten(@, new)], admins, "USER_OK")

user_change_role(l, admins, name, role) ==
  LET i == user_get_if_exists(l, name)
  IN  IF i = 0 THEN Result(l, admins, "USER_BADUSERNAME")
      ELSE Result([l EXCEPT ![i].privilege_level = role], admins, "USER_OK")

user_authenticate(l, name, password) ==
  LET i == user_get_if_exists(l, name) IN i # 0 /\ l[i].password = password
==============================================================================
