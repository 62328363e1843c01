------------------------------- MODULE MCPam --------------------------------
(* Two administrators for TLC. *)
EXTENDS Pam, TLC

CONSTANTS c1, c2    \* model values: sessions

Passwords == {<<1>>, <<2>>}
DefaultPassword == <<1>>

Symmetry == Permutations(Session)
==============================================================================
