---------------------------- MODULE MCConnection -----------------------------
(* Instances of Connection for TLC.                                        *)
EXTENDS Connection

CONSTANTS s1, s2, t1, t2
==============================================================================
