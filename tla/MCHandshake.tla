---------------------------- MODULE MCHandshake ------------------------------
(* The clients of the runs of Handshake.                                   *)
EXTENDS Handshake

Offers == {<<0>>, <<2>>, <<0, 2>>, <<2, 0>>, <<2, 1>>, <<2, 2>>}
\* The client of REPORT.md (7.2) offers 0x02.
AuthOffers == {o \in Offers : AUTH_METHOD \in ToSet(o)}
Hosts == {[atyp |-> IPv4_ADDR, bytes |-> <<10, 0>>], [atyp |-> IPv6_ADDR, bytes |-> <<0, 1>>],
          [atyp |-> FQDN, bytes |-> <<1>>], [atyp |-> FQDN, bytes |-> <<2, 1>>]}
Ports == {<<0, 80>>, <<31, 144>>}
==============================================================================
