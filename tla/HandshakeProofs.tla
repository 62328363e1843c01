--------------------------- MODULE HandshakeProofs ---------------------------
(***************************************************************************)
(* The answers and the target of a client follow from its messages, for    *)
(* any lists of methods, hosts and ports and however TCP cuts the stream.  *)
(*                                                                         *)
(* The argument keeps, for every state of the parsers, the position in the *)
(* stream of the client up to which it has been consumed.                  *)
(***************************************************************************)
EXTENDS Handshake, NatLemmas, SequenceTheorems

HasAuth(sc) == \E i \in 1..Len(sc.offer) : sc.offer[i] = AUTH_METHOD

GreetingOf(sc) == <<SOCKS5_VERSION, Len(sc.offer)>> \o sc.offer
AuthOf(sc) == IF HasAuth(sc) THEN <<AUTH_VERSION, 1, sc.user, 1, sc.pass>> ELSE <<>>
HeaderOf(sc) == <<SOCKS5_VERSION, CONNECT_CMD, RSV, sc.host.atyp>>
HostOf(sc) == IF sc.host.atyp = FQDN THEN <<Len(sc.host.bytes)>> \o sc.host.bytes
              ELSE sc.host.bytes
RequestOf(sc) == HeaderOf(sc) \o HostOf(sc) \o sc.port
BehindOf(sc) == IF sc.mode = "lockstep" THEN <<>> ELSE Payload

\* All that the client of a script has to say.
Stream(sc) == GreetingOf(sc) \o AuthOf(sc) \o RequestOf(sc) \o BehindOf(sc)

\* Where in it the greeting ends, where the request begins, and the bytes of the host.
G(sc) == 2 + Len(sc.offer)
R(sc) == G(sc) + (IF HasAuth(sc) THEN 5 ELSE 0)
H(sc) == R(sc) + 4 + (IF sc.host.atyp = FQDN THEN 1 ELSE 0)

------------------------------------------------------------------------------
(* Sequences of bytes.                                                     *)

\* The bytes of a buffer are bytes.
LEMMA ByteFacts ==
  ASSUME NEW q \in Bytes
  PROVE  Len(q) \in Nat /\ (\A i \in 1..Len(q) : q[i] \in 0..255) /\ (q = <<>> <=> Len(q) = 0)
<1>1. Len(q) \in Nat
  BY LenProperties DEF Bytes
<1>2. \A i \in 1..Len(q) : q[i] \in 0..255
  BY ElementOfSeq DEF Bytes
<1>3. q = <<>> <=> Len(q) = 0
  BY EmptySeq, Zenon DEF Bytes
<1> QED
  BY <1>1, <1>2, <1>3

\* f is q followed by r.
IsCat(f, q, r) ==
  /\ f \in Bytes /\ Len(f) = Len(q) + Len(r)
  /\ \A i \in 1..Len(q) : f[i] = q[i]
  /\ \A i \in 1..Len(r) : f[Len(q) + i] = r[i]

\* Concatenation, by element.
LEMMA Cat == ASSUME NEW q \in Bytes, NEW r \in Bytes PROVE IsCat(q \o r, q, r)
<1>1. Len(q) \in Nat /\ Len(r) \in Nat
  BY ByteFacts
<1>2. /\ q \o r \in Seq(0..255) /\ Len(q \o r) = Len(q) + Len(r)
      /\ \A i \in 1..Len(q) + Len(r) :
           (q \o r)[i] = IF i <= Len(q) THEN q[i] ELSE r[i - Len(q)]
  BY ConcatProperties, ZenonT(60) DEF Bytes
<1>3. ASSUME NEW i \in 1..Len(r) PROVE (q \o r)[Len(q) + i] = r[i]
  <2>1. Len(q) + i \in 1..Len(q) + Len(r) /\ ~(Len(q) + i <= Len(q)) /\ Len(q) + i - Len(q) = i
    BY <1>1
  <2> QED
    BY <1>2, <2>1
<1> QED
  BY <1>1, <1>2, <1>3 DEF IsCat, Bytes

\* f is what is left of q when k bytes are taken from it.
IsDrop(f, q, k) ==
  /\ f \in Bytes /\ Len(f) = Len(q) - k
  /\ \A i \in 1..Len(q) - k : f[i] = q[k + i]

\* What buffer_read leaves, by element.
LEMMA DropFacts == ASSUME NEW q \in Bytes, NEW k \in 0..Len(q) PROVE IsDrop(Drop(q, k), q, k)
<1>1. Len(q) \in Nat /\ \A i \in 1..Len(q) : q[i] \in 0..255
  BY ByteFacts
<1>2. k + 1 \in Int /\ Len(q) \in Int /\ \A i \in k + 1 .. Len(q) : q[i] \in 0..255
  BY <1>1
<1>3. /\ SubSeq(q, k + 1, Len(q)) \in Seq(0..255)
      /\ Len(SubSeq(q, k + 1, Len(q))) = IF k + 1 <= Len(q) THEN Len(q) - (k + 1) + 1 ELSE 0
      /\ \A i \in 1..Len(q) - (k + 1) + 1 : SubSeq(q, k + 1, Len(q))[i] = q[k + 1 + i - 1]
  BY <1>2, SubSeqProperties
<1> QED
  BY <1>1, <1>3 DEF Bytes, Drop, IsDrop

\* One that goes to the end or beyond it leaves nothing.
LEMMA DropAll ==
  ASSUME NEW q \in Bytes, NEW k \in Nat, k >= Len(q) PROVE Drop(q, k) = <<>>
<1>1. Len(q) \in Int /\ k + 1 \in Int /\ Len(q) < k + 1
  BY ByteFacts
<1> QED
  BY <1>1, SubSeqEmpty DEF Drop

\* What is taken, by element.
LEMMA TakeFacts ==
  ASSUME NEW q \in Bytes, NEW k \in 0..Len(q)
  PROVE  /\ SubSeq(q, 1, k) \in Bytes /\ Len(SubSeq(q, 1, k)) = k
         /\ \A i \in 1..k : SubSeq(q, 1, k)[i] = q[i]
<1>1. Len(q) \in Nat /\ \A i \in 1..Len(q) : q[i] \in 0..255
  BY ByteFacts
<1>2. 1 \in Int /\ k \in Int /\ \A i \in 1..k : q[i] \in 0..255
  BY <1>1
<1>3. /\ SubSeq(q, 1, k) \in Seq(0..255)
      /\ Len(SubSeq(q, 1, k)) = IF 1 <= k THEN k - 1 + 1 ELSE 0
      /\ \A i \in 1..k - 1 + 1 : SubSeq(q, 1, k)[i] = q[1 + i - 1]
  BY <1>2, SubSeqProperties
<1> QED
  BY <1>1, <1>3 DEF Bytes

\* A sequence is its elements.
LEMMA SameBytes ==
  ASSUME NEW q \in Bytes, NEW r \in Bytes, Len(q) = Len(r), \A i \in 1..Len(q) : q[i] = r[i]
  PROVE  q = r
BY SeqEqual, Zenon DEF Bytes

\* F is the stream of sc, by element.
StreamIs(F, sc, g, r, h, b, be) ==
  /\ F \in Bytes /\ Len(F) = h + b + 2 + Len(be)
  /\ F[1] = SOCKS5_VERSION /\ F[2] = Len(sc.offer)
  /\ \A i \in 1..Len(sc.offer) : F[2 + i] = sc.offer[i]
  /\ HasAuth(sc) => /\ F[g + 1] = AUTH_VERSION /\ F[g + 2] = 1 /\ F[g + 3] = sc.user
                    /\ F[g + 4] = 1 /\ F[g + 5] = sc.pass
  /\ F[r + 1] = SOCKS5_VERSION /\ F[r + 2] = CONNECT_CMD /\ F[r + 3] = RSV
  /\ F[r + 4] = sc.host.atyp
  /\ sc.host.atyp = FQDN => F[r + 5] = b
  /\ \A i \in 1..b : F[h + i] = sc.host.bytes[i]
  /\ F[h + b + 1] = sc.port[1] /\ F[h + b + 2] = sc.port[2]
  /\ \A i \in 1..Len(be) : F[h + b + 2 + i] = be[i]

\* F is made of the messages of sc, and what comes behind them.
MessagesAre(F, sc, g, r) ==
  /\ GreetingOf(sc) \in Bytes /\ Len(GreetingOf(sc)) = g
  /\ \A i \in 1..g : F[i] = GreetingOf(sc)[i]
  /\ AuthOf(sc) \in Bytes /\ r = g + Len(AuthOf(sc))
  /\ \A i \in 1..Len(AuthOf(sc)) : F[g + i] = AuthOf(sc)[i]
  /\ RequestOf(sc) \in Bytes /\ Len(F) = r + Len(RequestOf(sc)) + Len(BehindOf(sc))
  /\ \A i \in 1..Len(RequestOf(sc)) : F[r + i] = RequestOf(sc)[i]

\* What a client says, in the order in which it says it.
LEMMA StreamFacts ==
  ASSUME NEW sc \in Script
  PROVE  /\ StreamIs(Stream(sc), sc, G(sc), R(sc), H(sc), Len(sc.host.bytes), BehindOf(sc))
         /\ MessagesAre(Stream(sc), sc, G(sc), R(sc))
         /\ G(sc) \in Nat /\ R(sc) \in Nat /\ H(sc) \in Nat /\ Len(sc.host.bytes) \in Nat
         /\ Len(BehindOf(sc)) \in Nat /\ BehindOf(sc) \in Bytes
         /\ Len(sc.offer) \in 1..255 /\ G(sc) = 2 + Len(sc.offer)
         /\ G(sc) <= R(sc) /\ (HasAuth(sc) => R(sc) = G(sc) + 5) /\ (~HasAuth(sc) => R(sc) = G(sc))
         /\ H(sc) \in {R(sc) + 4, R(sc) + 5}
         /\ H(sc) = R(sc) + 5 <=> sc.host.atyp = FQDN
<1>1. /\ sc.offer \in Bytes /\ Len(sc.offer) \in 1..255 /\ sc.port \in Bytes /\ Len(sc.port) = 2
      /\ sc.host.bytes \in Bytes /\ sc.host.atyp \in {1, 3, 4}
      /\ sc.host.atyp = FQDN => Len(sc.host.bytes) \in 1..255
      /\ sc.user \in 0..255 /\ sc.pass \in 0..255
  BY ClientAssumption, SMTT(30) DEF Script, Credential, IPv4_ADDR, FQDN, IPv6_ADDR
<1> DEFINE g1 == <<SOCKS5_VERSION, Len(sc.offer)>>
           gr == GreetingOf(sc)
           au == AuthOf(sc)
           he == HeaderOf(sc)
           ho == HostOf(sc)
           re == RequestOf(sc)
           be == BehindOf(sc)
           b == Len(sc.host.bytes)
           x == IF sc.host.atyp = FQDN THEN 1 ELSE 0
           g == G(sc)
           r == R(sc)
           y == IF HasAuth(sc) THEN 5 ELSE 0
<1>2. /\ g1 \in Bytes /\ Len(g1) = 2 /\ g1[1] = SOCKS5_VERSION /\ g1[2] = Len(sc.offer)
  BY <1>1, SMTT(30) DEF Bytes, SOCKS5_VERSION
<1>3. /\ au \in Bytes /\ Len(au) = y
      /\ HasAuth(sc) => /\ au[1] = AUTH_VERSION /\ au[2] = 1 /\ au[3] = sc.user
                        /\ au[4] = 1 /\ au[5] = sc.pass
  <2>1. PICK m : m = <<AUTH_VERSION, 1, sc.user, 1, sc.pass>>
    OBVIOUS
  <2>2. /\ m \in Bytes /\ Len(m) = 5 /\ m[1] = AUTH_VERSION /\ m[2] = 1 /\ m[3] = sc.user
        /\ m[4] = 1 /\ m[5] = sc.pass
    BY <1>1, <2>1, SMTT(30) DEF Bytes, AUTH_VERSION
  <2>3. <<>> \in Bytes /\ Len(<<>>) = 0
    BY DEF Bytes
  <2>4. au = IF HasAuth(sc) THEN m ELSE <<>>
    BY <2>1 DEF AuthOf
  <2> HIDE DEF au
  <2>5. CASE HasAuth(sc)
    BY <2>2, <2>4, <2>5
  <2>6. CASE ~HasAuth(sc)
    BY <2>3, <2>4, <2>6, SMTT(30)
  <2> QED
    BY <2>5, <2>6
<1>4. /\ he \in Bytes /\ Len(he) = 4 /\ he[1] = SOCKS5_VERSION /\ he[2] = CONNECT_CMD
      /\ he[3] = RSV /\ he[4] = sc.host.atyp
  BY <1>1, SMTT(30) DEF Bytes, HeaderOf, SOCKS5_VERSION, CONNECT_CMD, RSV
<1>5. be \in Bytes /\ Len(be) \in Nat
  <2>1. be = <<>> \/ be = <<99>>
    BY DEF BehindOf, Payload
  <2>2. <<>> \in Bytes /\ <<99>> \in Bytes
    BY DEF Bytes
  <2> QED
    BY <2>1, <2>2, ByteFacts
<1>a. x \in Nat /\ b \in Nat /\ g \in Nat /\ y \in {0, 5} /\ r = g + y /\ r \in Nat
  <2>1. b \in Nat
    BY <1>1, ByteFacts
  <2>2. x \in Nat /\ y \in {0, 5} /\ r = g + y /\ g = 2 + Len(sc.offer)
    BY DEF G, R
  <2> HIDE DEF x, y, r, g, b
  <2> QED
    BY <1>1, <2>1, <2>2, SMTT(30)
<1>c. g = 2 + Len(sc.offer) /\ x \in {0, 1} /\ (x = 1 <=> sc.host.atyp = FQDN)
  BY DEF G
<1>6. /\ ho \in Bytes /\ Len(ho) = x + b /\ (x = 1 => ho[1] = b)
      /\ \A i \in 1..b : ho[x + i] = sc.host.bytes[i]
  <2>1. CASE sc.host.atyp = FQDN
    <3>1. <<b>> \in Bytes /\ Len(<<b>>) = 1 /\ <<b>>[1] = b
      BY <1>1, <2>1, SMTT(30) DEF Bytes
    <3>2. ho = <<b>> \o sc.host.bytes /\ x = 1
      BY <2>1 DEF HostOf
    <3>3. IsCat(ho, <<b>>, sc.host.bytes)
      BY <1>1, <3>1, <3>2, Cat, SMTT(30)
    <3>4. /\ ho \in Bytes /\ Len(ho) = 1 + b /\ (\A i \in 1..1 : ho[i] = <<b>>[i])
          /\ \A i \in 1..b : ho[1 + i] = sc.host.bytes[i]
      <4> HIDE DEF ho, x
      <4> QED
        BY <3>1, <3>3, Zenon DEF IsCat, b
    <3>5. ho[1] = b
      <4>1. 1 \in 1..1
        OBVIOUS
      <4>2. ho[1] = <<b>>[1]
        BY <3>4, <4>1, SMTT(30)
      <4> QED
        BY <3>1, <4>2
    <3> HIDE DEF ho, x, b
    <3> QED
      BY <3>2, <3>4, <3>5
  <2>2. CASE sc.host.atyp # FQDN
    <3>1. ho = sc.host.bytes /\ x = 0
      BY <2>2, SMTT(30) DEF HostOf
    <3> HIDE DEF ho, x
    <3> QED
      BY <1>1, <1>a, <3>1, SMTT(30)
  <2> QED
    BY <2>1, <2>2
<1>7. /\ gr \in Bytes /\ Len(gr) = g /\ gr[1] = g1[1] /\ gr[2] = g1[2]
      /\ \A i \in 1..Len(sc.offer) : gr[2 + i] = sc.offer[i]
  <2>1. IsCat(gr, g1, sc.offer)
    BY <1>1, <1>2, Cat DEF GreetingOf
  <2> HIDE DEF gr, g1
  <2> QED
    BY <1>1, <1>2, <1>a, <1>c, <2>1, SMTT(30) DEF IsCat
<1>8. he \o ho \in Bytes /\ IsCat(he \o ho, he, ho)
  BY <1>4, <1>6, Cat DEF IsCat
<1>9. IsCat(re, he \o ho, sc.port)
  BY <1>1, <1>8, Cat DEF RequestOf
<1> DEFINE f2 == gr \o au
           f3 == f2 \o re
           F == f3 \o be
<1>10. IsCat(f2, gr, au)
  BY <1>3, <1>7, Cat
<1>11. IsCat(f3, f2, re)
  BY <1>9, <1>10, Cat DEF IsCat
<1>12. IsCat(F, f3, be)
  BY <1>5, <1>11, Cat DEF IsCat
<1>13. F = Stream(sc)
  BY DEF Stream
<1>d. (HasAuth(sc) => y = 5) /\ (~HasAuth(sc) => y = 0)
  OBVIOUS
<1>14. H(sc) = r + 4 + x
  BY DEF H
<1> DEFINE hh == he \o ho
<1> HIDE DEF g1, au, he, ho, be, gr, x, b, g, r, y, re, f2, f3, F, hh
<1>b. Len(sc.offer) \in 1..255
  BY <1>1
<1>15. /\ Len(hh) = 4 + x + b /\ Len(re) = 6 + x + b /\ Len(f2) = r
       /\ Len(f3) = r + 6 + x + b /\ Len(F) = r + 6 + x + b + Len(be) /\ F \in Bytes
  <2>1. Len(hh) = 4 + x + b
    BY <1>a, <1>4, <1>6, <1>8, SMTT(30) DEF IsCat, hh
  <2>2. Len(re) = 6 + x + b
    BY <1>a, <1>1, <1>9, <2>1 DEF IsCat, hh
  <2>3. Len(f2) = r
    BY <1>a, <1>3, <1>7, <1>10 DEF IsCat
  <2>4. Len(f3) = r + 6 + x + b
    <3>1. Len(f3) = Len(f2) + Len(re)
      BY <1>11, ZenonT(60) DEF IsCat
    <3> QED
      BY <1>a, <2>2, <2>3, <3>1
  <2> QED
    BY <1>12, <2>1, <2>2, <2>3, <2>4 DEF IsCat
<1>16. /\ \A i \in 1..4 : hh[i] = he[i]
       /\ \A i \in 1..x + b : hh[4 + i] = ho[i]
       /\ \A i \in 1..4 + x + b : re[i] = hh[i]
       /\ \A i \in 1..2 : re[4 + x + b + i] = sc.port[i]
  <2>1. IsCat(hh, he, ho) /\ IsCat(re, hh, sc.port)
    BY <1>8, <1>9 DEF hh
  <2> QED
    BY <1>1, <1>4, <1>6, <1>15, <2>1 DEF IsCat
<1>17. /\ \A i \in 1..g : f2[i] = gr[i]
       /\ \A i \in 1..y : f2[g + i] = au[i]
       /\ \A i \in 1..r : f3[i] = f2[i]
       /\ \A i \in 1..6 + x + b : f3[r + i] = re[i]
       /\ \A i \in 1..r + 6 + x + b : F[i] = f3[i]
       /\ \A i \in 1..Len(be) : F[r + 6 + x + b + i] = be[i]
  BY <1>3, <1>7, <1>10, <1>11, <1>12, <1>15 DEF IsCat
<1>18. ASSUME NEW i \in 1..g PROVE F[i] = gr[i]
  <2>1. i \in 1..r /\ i \in 1..r + 6 + x + b
    BY <1>a
  <2> QED
    BY <1>17, <2>1
<1>19. ASSUME NEW i \in 1..y PROVE F[g + i] = au[i]
  <2>1. g + i \in 1..r /\ g + i \in 1..r + 6 + x + b
    BY <1>a
  <2> QED
    BY <1>17, <2>1
<1>20. ASSUME NEW i \in 1..6 + x + b PROVE F[r + i] = re[i]
  <2>1. r + i \in 1..r + 6 + x + b
    BY <1>a
  <2> QED
    BY <1>17, <2>1
<1>21. ASSUME NEW i \in 1..4 PROVE F[r + i] = he[i]
  <2>1. i \in 1..6 + x + b /\ i \in 1..4 + x + b
    BY <1>a
  <2> QED
    BY <1>16, <1>20, <2>1
<1>22. ASSUME NEW i \in 1..x + b PROVE F[r + 4 + i] = ho[i]
  <2>1. 4 + i \in 1..6 + x + b /\ 4 + i \in 1..4 + x + b /\ r + (4 + i) = r + 4 + i
    BY <1>a
  <2>2. F[r + (4 + i)] = re[4 + i] /\ re[4 + i] = hh[4 + i] /\ hh[4 + i] = ho[i]
    BY <1>16, <1>20, <2>1
  <2> QED
    BY <2>1, <2>2
<1>23. ASSUME NEW i \in 1..b PROVE F[r + 4 + x + i] = sc.host.bytes[i]
  <2>1. x + i \in 1..x + b /\ r + 4 + (x + i) = r + 4 + x + i
    BY <1>a
  <2>2. F[r + 4 + (x + i)] = ho[x + i] /\ ho[x + i] = sc.host.bytes[i]
    BY <1>6, <1>22, <2>1
  <2> QED
    BY <2>1, <2>2
<1>24. F[r + 4 + x + b + 1] = sc.port[1] /\ F[r + 4 + x + b + 2] = sc.port[2]
  <2>1. /\ 4 + x + b + 1 \in 1..6 + x + b /\ 4 + x + b + 2 \in 1..6 + x + b
        /\ r + (4 + x + b + 1) = r + 4 + x + b + 1
        /\ r + (4 + x + b + 2) = r + 4 + x + b + 2
    BY <1>a
  <2>2. /\ F[r + (4 + x + b + 1)] = re[4 + x + b + 1]
        /\ F[r + (4 + x + b + 2)] = re[4 + x + b + 2]
    BY <1>20, <2>1
  <2>3. re[4 + x + b + 1] = sc.port[1] /\ re[4 + x + b + 2] = sc.port[2]
    BY <1>16
  <2> QED
    BY <2>1, <2>2, <2>3
<1>25. ASSUME NEW i \in 1..Len(be) PROVE F[r + 4 + x + b + 2 + i] = be[i]
  <2>1. r + 4 + x + b + 2 + i = r + 6 + x + b + i
    BY <1>5, <1>a
  <2> QED
    BY <1>17, <2>1
<1>26. sc.host.atyp = FQDN => F[r + 5] = b
  <2>1. SUFFICES ASSUME sc.host.atyp = FQDN PROVE F[r + 5] = b
    OBVIOUS
  <2>2. x = 1
    BY <2>1 DEF x
  <2>3. 1 \in 1..x + b /\ r + 4 + 1 = r + 5
    BY <1>a, <2>2
  <2>4. F[r + 4 + 1] = ho[1] /\ ho[1] = b
    BY <1>6, <1>22, <2>2, <2>3
  <2> QED
    BY <2>3, <2>4
<1>27. /\ F[1] = SOCKS5_VERSION /\ F[2] = Len(sc.offer)
       /\ \A i \in 1..Len(sc.offer) : F[2 + i] = sc.offer[i]
  <2>1. 1 \in 1..g /\ 2 \in 1..g /\ \A i \in 1..Len(sc.offer) : 2 + i \in 1..g
    BY <1>a, <1>b, <1>c
  <2> QED
    BY <1>2, <1>7, <1>18, <2>1
<1>28. HasAuth(sc) => /\ F[g + 1] = AUTH_VERSION /\ F[g + 2] = 1 /\ F[g + 3] = sc.user
                      /\ F[g + 4] = 1 /\ F[g + 5] = sc.pass
  BY <1>3, <1>d, <1>19
<1>29. /\ F[r + 1] = SOCKS5_VERSION /\ F[r + 2] = CONNECT_CMD /\ F[r + 3] = RSV
       /\ F[r + 4] = sc.host.atyp
  BY <1>4, <1>21
<1>30. Len(F) = H(sc) + b + 2 + Len(be) /\ H(sc) \in Nat
  BY <1>5, <1>a, <1>14, <1>15
<1>31. H(sc) \in {r + 4, r + 5} /\ (H(sc) = r + 5 <=> sc.host.atyp = FQDN)
  BY <1>a, <1>c, <1>14
<1>32. StreamIs(F, sc, g, r, H(sc), b, be)
  BY <1>14, <1>15, <1>23, <1>24, <1>25, <1>26, <1>27, <1>28, <1>29, <1>30 DEF StreamIs
<1>33. re \in Bytes /\ Len(F) = r + Len(re) + Len(be)
  <2>1. re \in Bytes
    BY <1>9 DEF IsCat
  <2>2. Len(re) = 6 + x + b /\ Len(F) = r + 6 + x + b + Len(be)
    BY <1>15
  <2> QED
    BY <1>5, <1>a, <2>1, <2>2
<1>34. MessagesAre(F, sc, g, r)
  <2>1. \A i \in 1..Len(re) : F[r + i] = re[i]
    BY <1>15, <1>20
  <2> QED
    BY <1>3, <1>7, <1>18, <1>19, <1>33, <1>a, <2>1 DEF MessagesAre, gr, au, re, be
<1> QED
  <2>1. /\ r \in Nat /\ g \in Nat /\ g <= r
        /\ (HasAuth(sc) => r = g + 5) /\ (~HasAuth(sc) => r = g)
    BY <1>a, <1>d, SMTT(30)
  <2> QED
    BY <1>b, <1>5, <1>a, <1>c, <1>13, <1>30, <1>31, <1>32, <1>34, <2>1, SMTT(30) DEF g, r, be, b

------------------------------------------------------------------------------
(* The position in the stream.                                             *)

\* How much of its stream, t bytes, a client in state cl has sent.
Sent(sc, cl, t) ==
  /\ cl = "greeting_sent" => sc.mode = "lockstep" /\ t = G(sc)
  /\ cl = "auth_sent" => sc.mode = "lockstep" /\ t = R(sc)
  /\ cl \in {"request_sent", "all_sent", "served"} => t = Len(Stream(sc))
  /\ t \in {G(sc), R(sc), Len(Stream(sc))}

\* What is in the buffer, q, and on the way, w, is the stream from c on.
At(sc, cl, q, w, c) ==
  /\ \A i \in 1..Len(q) : q[i] = Stream(sc)[c + i]
  /\ \A i \in 1..Len(w) : w[i] = Stream(sc)[c + Len(q) + i]
  /\ Sent(sc, cl, c + Len(q) + Len(w))

\* A recv moves bytes, and not the position.
LEMMA AtReceive ==
  ASSUME NEW sc, NEW cl, NEW q \in Bytes, NEW w \in Bytes, NEW c \in Nat, NEW k \in 0..Len(w),
         At(sc, cl, q, w, c)
  PROVE  At(sc, cl, q \o SubSeq(w, 1, k), Drop(w, k), c)
<1> DEFINE s == SubSeq(w, 1, k)
           f == q \o s
           d == Drop(w, k)
           F == Stream(sc)
<1>1. s \in Bytes /\ Len(s) = k /\ \A i \in 1..k : s[i] = w[i]
  BY TakeFacts
<1>2. IsCat(f, q, s)
  BY <1>1, Cat
<1>3. IsDrop(d, w, k)
  BY DropFacts
<1>4. Len(q) \in Nat /\ Len(w) \in Nat
  BY ByteFacts
<1> HIDE DEF s, f, d, F
<1>5. /\ \A i \in 1..Len(q) : q[i] = F[c + i]
      /\ \A i \in 1..Len(w) : w[i] = F[c + Len(q) + i]
      /\ Sent(sc, cl, c + Len(q) + Len(w))
  BY DEF At, F
<1>6. Len(f) = Len(q) + k /\ Len(d) = Len(w) - k
  BY <1>1, <1>2, <1>3 DEF IsCat, IsDrop
<1>7. ASSUME NEW i \in 1..Len(f) PROVE f[i] = F[c + i]
  <2>1. CASE i \in 1..Len(q)
    BY <1>2, <1>5, <2>1 DEF IsCat
  <2>2. CASE i \notin 1..Len(q)
    <3>1. i - Len(q) \in 1..k /\ i - Len(q) \in 1..Len(w) /\ Len(q) + (i - Len(q)) = i
          /\ c + Len(q) + (i - Len(q)) = c + i
      BY <1>4, <1>6, <2>2
    <3>2. f[Len(q) + (i - Len(q))] = s[i - Len(q)]
      BY <1>1, <1>2, <3>1 DEF IsCat
    <3>3. w[i - Len(q)] = F[c + Len(q) + (i - Len(q))]
      BY <1>5, <3>1
    <3> QED
      BY <1>1, <3>1, <3>2, <3>3
  <2> QED
    BY <2>1, <2>2
<1>8. ASSUME NEW i \in 1..Len(d) PROVE d[i] = F[c + Len(f) + i]
  <2>1. i \in 1..Len(w) - k /\ k + i \in 1..Len(w) /\ c + Len(q) + (k + i) = c + Len(f) + i
    BY <1>4, <1>6
  <2>2. d[i] = w[k + i] /\ w[k + i] = F[c + Len(q) + (k + i)]
    BY <1>3, <1>5, <2>1 DEF IsDrop
  <2> QED
    BY <2>1, <2>2
<1>9. c + Len(f) + Len(d) = c + Len(q) + Len(w)
  BY <1>4, <1>6
<1>10. At(sc, cl, f, d, c)
  BY <1>5, <1>7, <1>8, <1>9 DEF At, F
<1> QED
  BY <1>10 DEF f, d, s

\* Bytes that are read move the position.
LEMMA AtDrop ==
  ASSUME NEW sc, NEW cl, NEW q \in Bytes, NEW w \in Bytes, NEW c \in Nat, NEW j \in 0..Len(q),
         At(sc, cl, q, w, c)
  PROVE  At(sc, cl, Drop(q, j), w, c + j)
<1> DEFINE d == Drop(q, j)
           F == Stream(sc)
<1>1. IsDrop(d, q, j)
  BY DropFacts
<1>2. Len(q) \in Nat /\ Len(w) \in Nat
  BY ByteFacts
<1> HIDE DEF d, F
<1>3. /\ \A i \in 1..Len(q) : q[i] = F[c + i]
      /\ \A i \in 1..Len(w) : w[i] = F[c + Len(q) + i]
      /\ Sent(sc, cl, c + Len(q) + Len(w))
  BY DEF At, F
<1>4. Len(d) = Len(q) - j
  BY <1>1 DEF IsDrop
<1>5. ASSUME NEW i \in 1..Len(d) PROVE d[i] = F[c + j + i]
  <2>1. i \in 1..Len(q) - j /\ j + i \in 1..Len(q) /\ c + (j + i) = c + j + i
    BY <1>2, <1>4
  <2> QED
    BY <1>1, <1>3, <2>1 DEF IsDrop
<1>6. ASSUME NEW i \in 1..Len(w) PROVE w[i] = F[c + j + Len(d) + i]
  <2>1. c + j + Len(d) + i = c + Len(q) + i
    BY <1>2, <1>4
  <2> QED
    BY <1>3, <2>1
<1>7. c + j + Len(d) + Len(w) = c + Len(q) + Len(w)
  BY <1>2, <1>4
<1>8. At(sc, cl, d, w, c + j)
  BY <1>3, <1>5, <1>6, <1>7 DEF At, F
<1> QED
  BY <1>8 DEF d

------------------------------------------------------------------------------
(* The invariant.                                                          *)

LeftOver(sc) == \E i \in 1..Len(sc.offer) - 1 : sc.offer[i] = AUTH_METHOD

Method(sc) == IF HasAuth(sc) THEN AUTH_METHOD ELSE AUTH_METHOD_INVALID
Verdict(sc) ==
  IF user_authenticate(<<sc.user>>, <<sc.pass>>) THEN AUTH_SUCCESS ELSE AUTH_FAILURE

AuthSubs == {"AUTH_VER", "AUTH_ULEN", "AUTH_UNAME", "AUTH_PLEN", "AUTH_PASSWD"}

\* A client that has to authenticate itself has done so.
Admitted ==
  HasAuth(script) => Verdict(script) = AUTH_SUCCESS /\ client # "greeting_sent"

\* The parsers have come this far.
Here(c) == At(script, client, buf, wire, c)

GreetingInv ==
  state = "GREETING" =>
    /\ out = 0 => \/ sub = "VER_N_NMETHODS" /\ Here(0)
                  \/ sub = "METHODS" /\ n = Len(script.offer) /\ Here(2)
    /\ out > 0 => answer = Method(script) /\ (~LeftOver(script) => Here(G(script)))

\* The inner state of the authentication, and how far it has come.
AuthAt(sc, cl, inner, len, name, q, w) ==
  \/ inner = "AUTH_VER" /\ At(sc, cl, q, w, G(sc))
  \/ inner = "AUTH_ULEN" /\ At(sc, cl, q, w, G(sc) + 1)
  \/ inner = "AUTH_UNAME" /\ len = 1 /\ At(sc, cl, q, w, G(sc) + 2)
  \/ inner = "AUTH_PLEN" /\ name = <<sc.user>> /\ At(sc, cl, q, w, G(sc) + 3)
  \/ inner = "AUTH_PASSWD" /\ len = 1 /\ name = <<sc.user>> /\ At(sc, cl, q, w, G(sc) + 4)

AuthInv ==
  state = "AUTH" =>
    /\ sub \in AuthSubs /\ HasAuth(script)
    /\ ~LeftOver(script) =>
         /\ out = 0 => AuthAt(script, client, sub, n, username, buf, wire)
         /\ out > 0 => answer = Verdict(script) /\ Here(R(script))

\* Who is not admitted is not asked for a request, but a client that has nothing to
\* authenticate itself with is.
RequestInv ==
  state = "REQUEST" =>
    /\ out = 0
    /\ ~LeftOver(script) =>
         /\ Admitted
         /\ \/ sub = "VER_CMD_ATYP" /\ Here(R(script))
            \/ sub = "DST_LEN" /\ (split = 0 => n = script.host.atyp /\ Here(R(script) + 4))

TargetInv ==
  state = "CONNECTING" /\ ~LeftOver(script) =>
    Admitted /\ TargetIsRequested

\* The inductive invariant of the handshake.
HandshakeInv ==
  script \in Script /\ TypeOK /\ GreetingInv /\ AuthInv /\ RequestInv /\ TargetInv

\* The loop over the methods stops before the last of them just when AUTH_METHOD is
\* among those before it, and finds AUTH_METHOD just when it is in the list.
LEMMA MethodFacts ==
  ASSUME script \in Script
  PROVE  /\ MethodsLeftOver <=> LeftOver(script)
         /\ Offered <=> HasAuth(script)
<1>1. PICK o : o = script.offer
  OBVIOUS
<1>2. o \in Bytes /\ Len(o) \in 1..255 /\ DOMAIN o = 1..Len(o)
  <2>1. o \in Bytes /\ Len(o) \in 1..255
    BY <1>1, ClientAssumption, SMTT(30) DEF Script
  <2> QED
    BY <2>1, LenProperties, SMTT(30) DEF Bytes
<1>3. PICK f : f = Front(o)
  OBVIOUS
<1>4. f \in Bytes /\ Len(f) = Len(o) - 1 /\ \A i \in 1..Len(o) - 1 : f[i] = o[i]
  <2>1. Len(o) - 1 \in 0..Len(o)
    BY <1>2
  <2> QED
    BY <1>2, <1>3, <2>1, TakeFacts DEF Front
<1>5. DOMAIN f = 1..Len(f)
  BY <1>4, LenProperties DEF Bytes
<1>6. MethodsLeftOver <=> LeftOver(script)
  BY <1>1, <1>3, <1>4, <1>5, SMTT(30) DEF MethodsLeftOver, LeftOver, ToSet
<1>7. Offered <=> HasAuth(script)
  BY <1>1, <1>2 DEF Offered, ToSet, HasAuth
<1> QED
  BY <1>6, <1>7

------------------------------------------------------------------------------
(* What the handlers have in common.                                       *)

\* The connection ends, or its request fails: no part of the invariant but the
\* types speaks of it any more.
LEMMA EndInv ==
  ASSUME HandshakeInv, state' \in {"CLOSED", "KILLED", "REPLY"}, wire' \in Bytes,
         UNCHANGED <<parserVars, answer, out, target, split, script, client>>
  PROVE  HandshakeInv'
BY DEF HandshakeInv, TypeOK, GreetingInv, AuthInv, RequestInv, TargetInv, parserVars

\* Close, with what is left on the way.
LEMMA CloseInv ==
  ASSUME HandshakeInv, Close, wire' \in Bytes, UNCHANGED <<script, client>> PROVE HandshakeInv'
BY EndInv DEF Close

\* Await leaves the types as they are.
LEMMA AwaitTypes ==
  ASSUME HandshakeInv, NEW q \in Bytes, NEW len \in 0..255, NEW name \in Bytes,
         NEW inner \in {"VER_N_NMETHODS", "METHODS", "VER_CMD_ATYP", "DST_LEN"} \cup AuthSubs,
         Await(inner, q, len, name), wire' \in Bytes, UNCHANGED <<script, client>>
  PROVE  script' \in Script /\ TypeOK'
BY DEF HandshakeInv, TypeOK, Await, AuthSubs

\* So does Respond.
LEMMA RespondTypes ==
  ASSUME HandshakeInv, NEW q \in Bytes, NEW a \in 0..255, Respond(a, q), wire' \in Bytes,
         UNCHANGED <<script, client>>
  PROVE  script' \in Script /\ TypeOK'
BY DEF HandshakeInv, TypeOK, Respond

\* What recv has returned, and what it has left.
LEMMA ReceivedFacts ==
  ASSUME TypeOK, NEW k \in 0..Len(wire)
  PROVE  /\ Received(k) \in Bytes /\ Drop(wire, k) \in Bytes
         /\ \A c \in Nat : Here(c) => At(script, client, Received(k), Drop(wire, k), c)
<1>1. wire \in Bytes /\ buf \in Bytes
  BY DEF TypeOK
<1>2. SubSeq(wire, 1, k) \in Bytes
  BY <1>1, TakeFacts
<1>3. IsCat(buf \o SubSeq(wire, 1, k), buf, SubSeq(wire, 1, k))
  BY <1>1, <1>2, Cat
<1>4. IsDrop(Drop(wire, k), wire, k)
  BY <1>1, DropFacts
<1>5. ASSUME NEW c \in Nat, Here(c) PROVE At(script, client, Received(k), Drop(wire, k), c)
  BY <1>1, <1>5, AtReceive DEF Here, Received
<1> QED
  BY <1>3, <1>4, <1>5 DEF IsCat, IsDrop, Received

\* What recv may return is part of what is on the way.
LEMMA PiecesFacts == ASSUME TypeOK, NEW k \in Pieces PROVE k \in 0..Len(wire)
<1>1. Len(wire) \in Nat
  BY ByteFacts DEF TypeOK
<1>2. k = 0 \/ k \in 1..Len(wire)
  BY DEF Pieces
<1> QED
  BY <1>1, <1>2

\* A byte of the buffer is the byte of the stream at its place.
LEMMA AtByte ==
  ASSUME NEW sc, NEW cl, NEW q, NEW w, NEW c, At(sc, cl, q, w, c), NEW i \in 1..Len(q)
  PROVE  q[i] = Stream(sc)[c + i]
BY DEF At

------------------------------------------------------------------------------
(* greeting.c                                                              *)

\* The loop over the methods: the first that will do, or none.
LEMMA FirstAuthFacts ==
  ASSUME NEW q, NEW len \in Nat
  PROVE  /\ (\E i \in 1..len : q[i] = AUTH_METHOD) =>
              FirstAuth(q, len) \in 1..len /\ q[FirstAuth(q, len)] = AUTH_METHOD
         /\ ~(\E i \in 1..len : q[i] = AUTH_METHOD) => FirstAuth(q, len) = 0
<1> DEFINE S == {i \in 1..len : q[i] = AUTH_METHOD}
<1>1. ASSUME \E i \in 1..len : q[i] = AUTH_METHOD
      PROVE  FirstAuth(q, len) \in 1..len /\ q[FirstAuth(q, len)] = AUTH_METHOD
  <2>1. S \in SUBSET Nat /\ S # {}
    BY <1>1
  <2>2. PICK x \in S : \A y \in S : x <= y
    BY <2>1, LeastExists
  <2>3. x \in 1..len /\ q[x] = AUTH_METHOD /\ \A j \in 1..x - 1 : q[j] # AUTH_METHOD
    BY <2>2
  <2>4. \E i \in 1..len : q[i] = AUTH_METHOD /\ \A j \in 1..i - 1 : q[j] # AUTH_METHOD
    BY <2>3
  <2> QED
    BY <1>1, <2>4, Zenon DEF FirstAuth
<1>2. ASSUME ~(\E i \in 1..len : q[i] = AUTH_METHOD) PROVE FirstAuth(q, len) = 0
  BY <1>2, Zenon DEF FirstAuth
<1> QED
  BY <1>1, <1>2

\* METHODS: the answer is the one the whole list calls for.
LEMMA ReadMethodsInv ==
  ASSUME HandshakeInv, state = "GREETING", out = 0, NEW q \in Bytes, NEW w \in Bytes,
         NEW len, len = Len(script.offer), At(script, client, q, w, 2),
         ReadMethods(q, len), wire' = w, UNCHANGED <<script, client>>
  PROVE  HandshakeInv'
<1>1. script \in Script /\ TypeOK
  BY DEF HandshakeInv
<1>2. /\ len \in 1..255 /\ G(script) = 2 + len
      /\ \A i \in 1..len : Stream(script)[2 + i] = script.offer[i]
  BY <1>1, StreamFacts DEF StreamIs
<1>3. Len(q) \in Nat
  BY ByteFacts
<1>4. CASE Len(q) < len
  <2>1. Await("METHODS", q, len, username)
    BY <1>4, SMTT(30) DEF ReadMethods
  <2>a. len \in 0..255 /\ username \in Bytes /\ wire' \in Bytes
    BY <1>1, <1>2, SMTT(30) DEF TypeOK
  <2>2. script' \in Script /\ TypeOK'
    BY <2>1, <2>a, AwaitTypes
  <2>3. /\ state' = "GREETING" /\ sub' = "METHODS" /\ n' = len /\ buf' = q /\ out' = 0
    BY <2>1 DEF Await
  <2>4. Here(2)'
    BY <2>3 DEF Here
  <2> QED
    BY <2>2, <2>3, <2>4 DEF HandshakeInv, GreetingInv, AuthInv, RequestInv, TargetInv
<1>5. ASSUME NEW a \in 0..255, NEW j \in 0..Len(q), Respond(a, Drop(q, j)), a = Method(script),
             ~LeftOver(script) => j = len
      PROVE  HandshakeInv'
  <2>1. Drop(q, j) \in Bytes
    BY DropFacts DEF IsDrop
  <2>2. script' \in Script /\ TypeOK'
    BY <1>5, <2>1, RespondTypes
  <2>3. state' = "GREETING" /\ answer' = a /\ out' = 2 /\ buf' = Drop(q, j)
    BY <1>5 DEF Respond
  <2>4. ASSUME ~LeftOver(script) PROVE At(script, client, Drop(q, j), w, G(script))
    <3>1. At(script, client, Drop(q, j), w, 2 + j)
      BY AtDrop
    <3> QED
      BY <1>2, <1>5, <2>4, <3>1
  <2>5. ~LeftOver(script') => Here(G(script))'
    BY <2>3, <2>4 DEF Here
  <2> QED
    BY <1>5, <2>2, <2>3, <2>5 DEF HandshakeInv, GreetingInv, AuthInv, RequestInv, TargetInv
<1>6. CASE Len(q) >= len
  <2>1. \A i \in 1..len : q[i] = script.offer[i]
    <3> SUFFICES ASSUME NEW i \in 1..len PROVE q[i] = script.offer[i]
      OBVIOUS
    <3>1. i \in 1..Len(q)
      BY <1>2, <1>3, <1>6
    <3> QED
      BY <1>2, <3>1, AtByte, SMTT(30)
  <2> DEFINE f == FirstAuth(q, len)
  <2>2. CASE HasAuth(script)
    <3>1. \E i \in 1..len : q[i] = AUTH_METHOD
      BY <2>1, <2>2 DEF HasAuth
    <3>2. f \in 1..len /\ q[f] = AUTH_METHOD
      BY <1>2, <3>1, FirstAuthFacts, SMTT(30)
    <3> HIDE DEF f
    <3>3. f > 0 /\ f \in 0..Len(q) /\ ~(Len(q) < len)
      BY <1>2, <1>3, <1>6, <3>2, SMTT(30)
    <3>4. Respond(AUTH_METHOD, Drop(q, f))
      BY <3>3 DEF ReadMethods, f
    <3>5. ~LeftOver(script) => f = len
      BY <1>2, <2>1, <3>2, SMTT(30) DEF LeftOver
    <3>6. AUTH_METHOD = Method(script) /\ AUTH_METHOD \in 0..255
      BY <2>2 DEF Method, AUTH_METHOD
    <3> QED
      BY <1>5, <3>3, <3>4, <3>5, <3>6
  <2>3. CASE ~HasAuth(script)
    <3>1. ~(\E i \in 1..len : q[i] = AUTH_METHOD)
      BY <2>1, <2>3 DEF HasAuth
    <3>2. f = 0
      BY <1>2, <3>1, FirstAuthFacts, SMTT(30)
    <3>3. Respond(AUTH_METHOD_INVALID, Drop(q, len)) /\ len \in 0..Len(q)
      BY <1>2, <1>3, <1>6, <3>2 DEF ReadMethods
    <3>4. AUTH_METHOD_INVALID = Method(script) /\ AUTH_METHOD_INVALID \in 0..255
      BY <2>3 DEF Method, AUTH_METHOD_INVALID
    <3> QED
      BY <1>5, <3>3, <3>4
  <2> QED
    BY <2>2, <2>3, SMTT(30)
<1> QED
  BY <1>2, <1>3, <1>4, <1>6, SMTT(30)

\* greeting_read.
LEMMA GreetingReadInv == ASSUME HandshakeInv, greeting_read PROVE HandshakeInv'
<1>1. TypeOK /\ GreetingInv /\ script \in Script
  BY DEF HandshakeInv
<1>2. state = "GREETING" /\ out = 0 /\ UNCHANGED <<script, client>>
  BY DEF greeting_read, Listening
<1>3. PICK k \in Pieces :
        /\ IF Received(k) = <<>> THEN Close
           ELSE IF sub = "VER_N_NMETHODS" THEN ReadGreeting(Received(k))
           ELSE ReadMethods(Received(k), n)
        /\ wire' = Drop(wire, k)
  BY DEF greeting_read
<1>4. k \in 0..Len(wire)
  BY <1>1, PiecesFacts
<1>5. PICK q, w : q = Received(k) /\ w = Drop(wire, k)
  OBVIOUS
<1>6. q \in Bytes /\ w \in Bytes /\ \A c \in Nat : Here(c) => At(script, client, q, w, c)
  BY <1>1, <1>4, <1>5, ReceivedFacts
<1>7. CASE q = <<>>
  <2>1. Close /\ wire' \in Bytes
    BY <1>3, <1>5, <1>6, <1>7
  <2> QED
    BY <1>2, <2>1, CloseInv
<1>8. CASE q # <<>> /\ sub = "VER_N_NMETHODS"
  <2>1. ReadGreeting(q)
    BY <1>3, <1>5, <1>8
  <2>2. At(script, client, q, w, 0)
    BY <1>1, <1>2, <1>6, <1>8 DEF GreetingInv
  <2>3. Len(q) \in Nat
    BY <1>6, ByteFacts
  <2>4. CASE Len(q) < 2
    <3>1. Await(sub, q, n, username)
      BY <2>1, <2>4 DEF ReadGreeting
    <3>2. wire' \in Bytes /\ n \in 0..255 /\ username \in Bytes
      BY <1>1, <1>3, <1>5, <1>6 DEF TypeOK
    <3>3. script' \in Script /\ TypeOK'
      BY <1>2, <1>6, <1>8, <3>1, <3>2, AwaitTypes
    <3>4. state' = "GREETING" /\ sub' = "VER_N_NMETHODS" /\ buf' = q /\ out' = 0 /\ wire' = w
      BY <1>2, <1>3, <1>5, <1>8, <3>1 DEF Await
    <3>5. Here(0)'
      BY <1>2, <2>2, <3>4 DEF Here
    <3> QED
      BY <3>3, <3>4, <3>5 DEF HandshakeInv, GreetingInv, AuthInv, RequestInv, TargetInv
  <2>5. CASE ~(Len(q) < 2)
    <3>1. 1 \in 1..Len(q) /\ 2 \in 1..Len(q) /\ 2 \in 0..Len(q)
      BY <2>3, <2>5
    <3>2. q[1] = Stream(script)[0 + 1] /\ q[2] = Stream(script)[0 + 2]
      BY <2>2, <3>1, AtByte, SMTT(30)
    <3>a. /\ Stream(script)[1] = SOCKS5_VERSION /\ Stream(script)[2] = Len(script.offer)
          /\ Len(script.offer) \in 1..255
      BY <1>1, StreamFacts DEF StreamIs
    <3>c. 0 + 1 = 1 /\ 0 + 2 = 2
      OBVIOUS
    <3>d. Len(script.offer) \in 1..255
      BY <3>a, Zenon
    <3>b. \A l \in 1..255 : l # 0
      OBVIOUS
    <3>3. q[1] = SOCKS5_VERSION /\ q[2] = Len(script.offer) /\ q[2] # 0
      BY <3>2, <3>a, <3>b, <3>c, <3>d, Zenon
    <3>4. ReadMethods(Drop(q, 2), q[2])
      BY <2>1, <2>5, <3>3 DEF ReadGreeting
    <3>5. At(script, client, Drop(q, 2), w, 0 + 2) /\ Drop(q, 2) \in Bytes
      BY <1>6, <2>2, <3>1, AtDrop, DropFacts DEF IsDrop
    <3>6. At(script, client, Drop(q, 2), w, 2)
      BY <3>5
    <3> QED
      BY <1>2, <1>3, <1>5, <1>6, <3>3, <3>4, <3>5, <3>6, ReadMethodsInv
  <2> QED
    BY <2>4, <2>5
<1>9. CASE q # <<>> /\ sub # "VER_N_NMETHODS"
  <2>1. ReadMethods(q, n)
    BY <1>3, <1>5, <1>9
  <2>2. n = Len(script.offer) /\ At(script, client, q, w, 2)
    BY <1>1, <1>2, <1>6, <1>9 DEF GreetingInv
  <2> QED
    BY <1>2, <1>3, <1>5, <1>6, <2>1, <2>2, ReadMethodsInv
<1> QED
  BY <1>7, <1>8, <1>9

------------------------------------------------------------------------------
(* auth.c                                                                  *)

\* A byte of the buffer, as part of the stream, and what is left behind it.
LEMMA TakeByte ==
  ASSUME NEW sc, NEW cl, NEW q \in Bytes, NEW w, NEW c \in Nat, w \in Bytes, q # <<>>
  PROVE  /\ q[1] \in 0..255 /\ Drop(q, 1) \in Bytes /\ 1 \in 0..Len(q)
         /\ At(sc, cl, q, w, c) =>
              q[1] = Stream(sc)[c + 1] /\ At(sc, cl, Drop(q, 1), w, c + 1)
<1>1. Len(q) \in Nat /\ Len(q) # 0
  BY ByteFacts
<1>2. 1 \in 1..Len(q) /\ 1 \in 0..Len(q)
  BY <1>1
<1>3. q[1] \in 0..255 /\ Drop(q, 1) \in Bytes
  BY <1>2, ByteFacts, DropFacts DEF IsDrop
<1>4. ASSUME At(sc, cl, q, w, c)
      PROVE  q[1] = Stream(sc)[c + 1] /\ At(sc, cl, Drop(q, 1), w, c + 1)
  <2>1. q[1] = Stream(sc)[c + 1]
    BY <1>2, <1>4, AtByte
  <2>2. At(sc, cl, Drop(q, 1), w, c + 1)
    BY <1>2, <1>4, AtDrop
  <2> QED
    BY <2>1, <2>2
<1> QED
  BY <1>2, <1>3, <1>4

\* A name or a password of one byte.
LEMMA TakeOne == ASSUME NEW q \in Bytes, 1 \in 1..Len(q) PROVE SubSeq(q, 1, 1) = <<q[1]>>
<1>1. PICK p, r : p = SubSeq(q, 1, 1) /\ r = <<q[1]>>
  OBVIOUS
<1>2. 1 \in 0..Len(q) /\ 1 \in 1..1
  BY ByteFacts
<1>3. p \in Bytes /\ Len(p) = 1 /\ p[1] = q[1]
  BY <1>1, <1>2, TakeFacts
<1>4. r \in Bytes /\ Len(r) = 1 /\ r[1] = q[1]
  BY <1>1, ByteFacts DEF Bytes
<1>5. \A i \in 1..Len(p) : p[i] = r[i]
  BY <1>3, <1>4
<1>6. p = r
  BY <1>3, <1>4, <1>5, SameBytes
<1> QED
  BY <1>1, <1>6

\* The authentication waits for more bytes.
LEMMA AuthAwaitInv ==
  ASSUME HandshakeInv, state = "AUTH", out = 0, NEW q \in Bytes, NEW w \in Bytes,
         NEW inner \in AuthSubs, NEW len \in 0..255, NEW name \in Bytes,
         Await(inner, q, len, name), wire' = w, UNCHANGED <<script, client>>,
         ~LeftOver(script) => AuthAt(script, client, inner, len, name, q, w)
  PROVE  HandshakeInv'
<1>1. script' \in Script /\ TypeOK'
  BY AwaitTypes
<1>2. /\ state' = "AUTH" /\ sub' = inner /\ n' = len /\ username' = name /\ buf' = q
      /\ out' = 0
  BY DEF Await
<1>3. AuthInv'
  BY <1>2 DEF HandshakeInv, AuthInv
<1> QED
  BY <1>1, <1>2, <1>3 DEF HandshakeInv, GreetingInv, RequestInv, TargetInv

\* The authentication has its verdict.
LEMMA AuthRespondInv ==
  ASSUME HandshakeInv, state = "AUTH", out = 0, NEW q \in Bytes, NEW w \in Bytes,
         NEW a \in 0..255, Respond(a, q), wire' = w, UNCHANGED <<script, client>>,
         ~LeftOver(script) => a = Verdict(script) /\ At(script, client, q, w, R(script))
  PROVE  HandshakeInv'
<1>1. script' \in Script /\ TypeOK'
  BY RespondTypes
<1>2. state' = "AUTH" /\ sub' = sub /\ answer' = a /\ buf' = q /\ out' = 2
  BY DEF Respond
<1>3. sub \in AuthSubs /\ HasAuth(script)
  BY DEF HandshakeInv, AuthInv
<1>4. ~LeftOver(script') => Here(R(script))'
  BY <1>2 DEF Here
<1>5. AuthInv'
  BY <1>2, <1>3, <1>4 DEF AuthInv
<1> QED
  BY <1>1, <1>2, <1>5 DEF HandshakeInv, GreetingInv, RequestInv, TargetInv

\* AUTH_PASSWD: the verdict is that of the name and the password of the client.
LEMMA ReadPasswordInv ==
  ASSUME HandshakeInv, state = "AUTH", out = 0, NEW q \in Bytes, NEW w \in Bytes,
         NEW len \in 0..255, NEW name \in Bytes,
         ReadPassword(q, len, name), wire' = w, UNCHANGED <<script, client>>,
         ~LeftOver(script) => /\ len = 1 /\ name = <<script.user>>
                              /\ At(script, client, q, w, G(script) + 4)
  PROVE  HandshakeInv'
<1>1. Len(q) \in Nat
  BY ByteFacts
<1>2. CASE Len(q) < len
  <2>1. Await("AUTH_PASSWD", q, len, name)
    BY <1>2 DEF ReadPassword
  <2>2. "AUTH_PASSWD" \in AuthSubs
    BY DEF AuthSubs
  <2>3. ~LeftOver(script) => AuthAt(script, client, "AUTH_PASSWD", len, name, q, w)
    BY DEF AuthAt
  <2> QED
    BY <2>1, <2>2, <2>3, AuthAwaitInv
<1>3. CASE ~(Len(q) < len)
  <2> DEFINE a == IF user_authenticate(name, SubSeq(q, 1, len)) THEN AUTH_SUCCESS
                  ELSE AUTH_FAILURE
             p == SubSeq(q, 1, len)
  <2>1. Respond(a, Drop(q, len)) /\ a \in 0..255
    BY <1>3 DEF ReadPassword, AUTH_SUCCESS, AUTH_FAILURE
  <2>2. len \in 0..Len(q)
    BY <1>1, <1>3
  <2>3. Drop(q, len) \in Bytes
    BY <2>2, DropFacts DEF IsDrop
  <2>4. ASSUME ~LeftOver(script)
        PROVE  a = Verdict(script) /\ At(script, client, Drop(q, len), w, R(script))
    <3>1. script \in Script /\ HasAuth(script) /\ len = 1 /\ 1 \in 1..Len(q)
      BY <1>1, <2>2, <2>4, SMTT(30) DEF HandshakeInv, AuthInv
    <3>2. /\ G(script) \in Nat /\ Stream(script)[G(script) + 5] = script.pass
          /\ R(script) = G(script) + 5
      BY <3>1, StreamFacts DEF StreamIs
    <3>3. G(script) + 4 \in Nat /\ G(script) + 4 + 1 = G(script) + 5
      BY <3>2
    <3>4. q[1] = Stream(script)[G(script) + 4 + 1]
      BY <2>4, <3>1, AtByte
    <3>5. At(script, client, Drop(q, len), w, G(script) + 4 + 1)
      BY <2>2, <2>4, <3>1, <3>3, AtDrop
    <3>8. p = <<q[1]>>
      BY <3>1, TakeOne
    <3>9. p = <<script.pass>> /\ name = <<script.user>>
      BY <2>4, <3>2, <3>3, <3>4, <3>8
    <3> QED
      BY <3>2, <3>3, <3>5, <3>9 DEF Verdict
  <2> HIDE DEF a
  <2> QED
    BY <2>1, <2>3, <2>4, AuthRespondInv
<1> QED
  BY <1>2, <1>3

\* AUTH_PLEN
LEMMA ReadPlenInv ==
  ASSUME HandshakeInv, state = "AUTH", out = 0, NEW q \in Bytes, NEW w \in Bytes,
         NEW name \in Bytes, ReadPlen(q, name), wire' = w, UNCHANGED <<script, client>>,
         ~LeftOver(script) => /\ name = <<script.user>>
                              /\ At(script, client, q, w, G(script) + 3)
  PROVE  HandshakeInv'
<1>1. CASE q = <<>>
  <2>1. Await("AUTH_PLEN", q, 0, name)
    BY <1>1 DEF ReadPlen
  <2>2. "AUTH_PLEN" \in AuthSubs /\ 0 \in 0..255
    BY DEF AuthSubs
  <2>3. ~LeftOver(script) => AuthAt(script, client, "AUTH_PLEN", 0, name, q, w)
    BY DEF AuthAt
  <2> QED
    BY <2>1, <2>2, <2>3, AuthAwaitInv
<1>2. CASE q # <<>> /\ q[1] = 0
  <2>1. Close
    BY <1>2 DEF ReadPlen
  <2> QED
    BY <2>1, CloseInv
<1>3. CASE q # <<>> /\ q[1] # 0
  <2>1. ReadPassword(Drop(q, 1), q[1], name)
    BY <1>3 DEF ReadPlen
  <2>2. script \in Script /\ HasAuth(script)
    BY DEF HandshakeInv, AuthInv
  <2>3. G(script) \in Nat /\ Stream(script)[G(script) + 4] = 1
    BY <2>2, StreamFacts DEF StreamIs
  <2>4. G(script) + 3 \in Nat /\ G(script) + 3 + 1 = G(script) + 4
    BY <2>3
  <2>5. /\ q[1] \in 0..255 /\ Drop(q, 1) \in Bytes
        /\ At(script, client, q, w, G(script) + 3) =>
             /\ q[1] = Stream(script)[G(script) + 3 + 1]
             /\ At(script, client, Drop(q, 1), w, G(script) + 3 + 1)
    BY <1>3, <2>4, TakeByte
  <2>6. ~LeftOver(script) => q[1] = 1 /\ At(script, client, Drop(q, 1), w, G(script) + 4)
    BY <2>3, <2>4, <2>5
  <2> QED
    BY <2>1, <2>5, <2>6, ReadPasswordInv, SMTT(30)
<1> QED
  BY <1>1, <1>2, <1>3

\* AUTH_UNAME: the name is complete when it is taken.
LEMMA ReadUsernameInv ==
  ASSUME HandshakeInv, state = "AUTH", out = 0, NEW q \in Bytes, NEW w \in Bytes,
         NEW len \in 0..255, ReadUsername(q, len), wire' = w, UNCHANGED <<script, client>>,
         ~LeftOver(script) => len = 1 /\ At(script, client, q, w, G(script) + 2)
  PROVE  HandshakeInv'
<1>1. Len(q) \in Nat
  BY ByteFacts
<1>2. CASE Len(q) < len
  <2>1. Await("AUTH_UNAME", q, len, <<>>)
    BY <1>2 DEF ReadUsername
  <2>2. "AUTH_UNAME" \in AuthSubs /\ <<>> \in Bytes
    BY DEF AuthSubs, Bytes
  <2>3. ~LeftOver(script) => AuthAt(script, client, "AUTH_UNAME", len, <<>>, q, w)
    BY DEF AuthAt
  <2> QED
    BY <2>1, <2>2, <2>3, AuthAwaitInv
<1>3. CASE ~(Len(q) < len)
  <2> DEFINE p == SubSeq(q, 1, len)
  <2>1. ReadPlen(Drop(q, len), p)
    BY <1>3 DEF ReadUsername
  <2>2. len \in 0..Len(q)
    BY <1>1, <1>3
  <2>3. Drop(q, len) \in Bytes /\ p \in Bytes
    BY <2>2, DropFacts, TakeFacts DEF IsDrop
  <2>4. ASSUME ~LeftOver(script)
        PROVE  p = <<script.user>> /\ At(script, client, Drop(q, len), w, G(script) + 3)
    <3>1. script \in Script /\ HasAuth(script) /\ len = 1 /\ 1 \in 1..Len(q)
      BY <1>1, <2>2, <2>4, SMTT(30) DEF HandshakeInv, AuthInv
    <3>2. /\ G(script) \in Nat /\ Stream(script)[G(script) + 3] = script.user
      BY <3>1, StreamFacts DEF StreamIs
    <3>3. G(script) + 2 \in Nat /\ G(script) + 2 + 1 = G(script) + 3
      BY <3>2
    <3>4. q[1] = Stream(script)[G(script) + 2 + 1]
      BY <2>4, <3>1, AtByte
    <3>5. At(script, client, Drop(q, len), w, G(script) + 2 + 1)
      BY <2>2, <2>4, <3>1, <3>3, AtDrop
    <3>8. p = <<q[1]>>
      BY <3>1, TakeOne
    <3> QED
      BY <3>2, <3>3, <3>4, <3>5, <3>8
  <2> HIDE DEF p
  <2> QED
    BY <2>1, <2>3, <2>4, ReadPlenInv
<1> QED
  BY <1>2, <1>3

\* AUTH_ULEN
LEMMA ReadUlenInv ==
  ASSUME HandshakeInv, state = "AUTH", out = 0, NEW q \in Bytes, NEW w \in Bytes,
         ReadUlen(q), wire' = w, UNCHANGED <<script, client>>,
         ~LeftOver(script) => At(script, client, q, w, G(script) + 1)
  PROVE  HandshakeInv'
<1>1. CASE q = <<>>
  <2>1. Await("AUTH_ULEN", q, 0, <<>>)
    BY <1>1 DEF ReadUlen
  <2>2. "AUTH_ULEN" \in AuthSubs /\ 0 \in 0..255 /\ <<>> \in Bytes
    BY DEF AuthSubs, Bytes
  <2>3. ~LeftOver(script) => AuthAt(script, client, "AUTH_ULEN", 0, <<>>, q, w)
    BY DEF AuthAt
  <2> QED
    BY <2>1, <2>2, <2>3, AuthAwaitInv
<1>2. CASE q # <<>> /\ q[1] = 0
  <2>1. Close
    BY <1>2 DEF ReadUlen
  <2> QED
    BY <2>1, CloseInv
<1>3. CASE q # <<>> /\ q[1] # 0
  <2>1. ReadUsername(Drop(q, 1), q[1])
    BY <1>3 DEF ReadUlen
  <2>2. script \in Script /\ HasAuth(script)
    BY SMTT(30) DEF HandshakeInv, AuthInv
  <2>3. G(script) \in Nat /\ Stream(script)[G(script) + 2] = 1
    BY <2>2, StreamFacts DEF StreamIs
  <2>4. G(script) + 1 \in Nat /\ G(script) + 1 + 1 = G(script) + 2
    BY <2>3
  <2>5. /\ q[1] \in 0..255 /\ Drop(q, 1) \in Bytes
        /\ At(script, client, q, w, G(script) + 1) =>
             /\ q[1] = Stream(script)[G(script) + 1 + 1]
             /\ At(script, client, Drop(q, 1), w, G(script) + 1 + 1)
    BY <1>3, <2>4, TakeByte
  <2>6. ~LeftOver(script) => q[1] = 1 /\ At(script, client, Drop(q, 1), w, G(script) + 2)
    BY <2>3, <2>4, <2>5
  <2> QED
    BY <2>1, <2>5, <2>6, ReadUsernameInv, SMTT(30)
<1> QED
  BY <1>1, <1>2, <1>3

\* AUTH_VER
LEMMA ReadAuthInv ==
  ASSUME HandshakeInv, state = "AUTH", out = 0, NEW q \in Bytes, NEW w \in Bytes,
         ReadAuth(q), q # <<>>, wire' = w, UNCHANGED <<script, client>>,
         ~LeftOver(script) => At(script, client, q, w, G(script))
  PROVE  HandshakeInv'
<1>1. CASE q[1] # AUTH_VERSION
  <2>1. Close
    BY <1>1 DEF ReadAuth
  <2> QED
    BY <2>1, CloseInv
<1>2. CASE q[1] = AUTH_VERSION
  <2>1. ReadUlen(Drop(q, 1))
    BY <1>2 DEF ReadAuth
  <2>2. script \in Script
    BY SMTT(30) DEF HandshakeInv
  <2>3. G(script) \in Nat
    BY <2>2, StreamFacts
  <2>4. /\ Drop(q, 1) \in Bytes
        /\ At(script, client, q, w, G(script)) => At(script, client, Drop(q, 1), w, G(script) + 1)
    BY <2>3, TakeByte
  <2> QED
    BY <2>1, <2>4, ReadUlenInv
<1> QED
  BY <1>1, <1>2

\* auth_read.
LEMMA AuthReadInv == ASSUME HandshakeInv, auth_read PROVE HandshakeInv'
<1>1. TypeOK /\ AuthInv /\ script \in Script
  BY DEF HandshakeInv
<1>2. state = "AUTH" /\ out = 0 /\ UNCHANGED <<script, client>>
  BY DEF auth_read, Listening
<1>3. PICK k \in Pieces : /\ IF AuthEnds(Received(k)) THEN Close ELSE ParseAuth(Received(k))
                          /\ wire' = Drop(wire, k)
  BY DEF auth_read
<1>4. k \in 0..Len(wire)
  BY <1>1, PiecesFacts
<1>5. PICK q, w : q = Received(k) /\ w = Drop(wire, k)
  OBVIOUS
<1>6. q \in Bytes /\ w \in Bytes /\ \A c \in Nat : Here(c) => At(script, client, q, w, c)
  BY <1>1, <1>4, <1>5, ReceivedFacts
<1>7. CASE q = <<>>
  <2>1. Close /\ wire' \in Bytes
    BY <1>3, <1>5, <1>6, <1>7 DEF AuthEnds
  <2> QED
    BY <1>2, <2>1, CloseInv
<1>8. CASE q # <<>>
  <2>1. ParseAuth(q) /\ wire' = w
    BY <1>3, <1>5, <1>8 DEF AuthEnds
  <2>2. n \in 0..255 /\ username \in Bytes /\ sub \in AuthSubs
    BY <1>1, <1>2 DEF TypeOK, AuthInv
  <2>3. G(script) \in Nat
    BY <1>1, StreamFacts
  <2>4. \A d \in 0..4 : Here(G(script) + d) => At(script, client, q, w, G(script) + d)
    <3> SUFFICES ASSUME NEW d \in 0..4, Here(G(script) + d)
                 PROVE  At(script, client, q, w, G(script) + d)
      OBVIOUS
    <3>1. G(script) + d \in Nat
      BY <2>3
    <3> QED
      BY <1>6, <3>1
  <2>5. ~LeftOver(script) => AuthAt(script, client, sub, n, username, buf, wire)
    BY <1>1, <1>2 DEF AuthInv
  <2>6. Here(G(script)) => At(script, client, q, w, G(script))
    BY <1>6, <2>3
  <2>7. CASE sub = "AUTH_VER"
    <3>1. ReadAuth(q)
      BY <2>1, <2>7, Zenon DEF ParseAuth
    <3>2. ~LeftOver(script) => At(script, client, q, w, G(script))
      BY <2>5, <2>6, <2>7 DEF AuthAt, Here
    <3> QED
      BY <1>2, <1>6, <1>8, <2>1, <3>1, <3>2, ReadAuthInv
  <2>8. CASE sub = "AUTH_ULEN"
    <3>1. ReadUlen(q)
      BY <2>1, <2>8, Zenon DEF ParseAuth
    <3>2. ~LeftOver(script) => At(script, client, q, w, G(script) + 1)
      BY <2>4, <2>5, <2>8 DEF AuthAt, Here
    <3> QED
      BY <1>2, <1>6, <2>1, <3>1, <3>2, ReadUlenInv
  <2>9. CASE sub = "AUTH_UNAME"
    <3>1. ReadUsername(q, n)
      BY <2>1, <2>9, Zenon DEF ParseAuth
    <3>2. ~LeftOver(script) => n = 1 /\ At(script, client, q, w, G(script) + 2)
      BY <2>4, <2>5, <2>9 DEF AuthAt, Here
    <3> QED
      BY <1>2, <1>6, <2>1, <2>2, <3>1, <3>2, ReadUsernameInv
  <2>10. CASE sub = "AUTH_PLEN"
    <3>1. ReadPlen(q, username)
      BY <2>1, <2>10, Zenon DEF ParseAuth
    <3>2. ~LeftOver(script) =>
            username = <<script.user>> /\ At(script, client, q, w, G(script) + 3)
      BY <2>4, <2>5, <2>10 DEF AuthAt, Here
    <3> QED
      BY <1>2, <1>6, <2>1, <2>2, <3>1, <3>2, ReadPlenInv
  <2>11. CASE sub = "AUTH_PASSWD"
    <3>1. ReadPassword(q, n, username)
      BY <2>1, <2>11, Zenon DEF ParseAuth
    <3>2. ~LeftOver(script) => /\ n = 1 /\ username = <<script.user>>
                               /\ At(script, client, q, w, G(script) + 4)
      BY <2>4, <2>5, <2>11 DEF AuthAt, Here
    <3> QED
      BY <1>2, <1>6, <2>1, <2>2, <3>1, <3>2, ReadPasswordInv
  <2> QED
    BY <2>2, <2>7, <2>8, <2>9, <2>10, <2>11 DEF AuthSubs
<1> QED
  BY <1>7, <1>8

\* recv_fails.
LEMMA RecvFailsInv == ASSUME HandshakeInv, recv_fails PROVE HandshakeInv'
<1>1. Close /\ wire' = <<>> /\ UNCHANGED <<script, client>>
  BY DEF recv_fails
<1>2. <<>> \in Bytes
  BY DEF Bytes
<1> QED
  BY <1>1, <1>2, CloseInv

------------------------------------------------------------------------------
(* request.c                                                               *)

\* A byte that is missing is 0.
LEMMA ByteTypes == ASSUME NEW q \in Bytes, NEW i \in Nat, i > 0 PROVE Byte(q, i) \in 0..255
<1>1. Len(q) \in Nat /\ \A j \in 1..Len(q) : q[j] \in 0..255
  BY ByteFacts
<1> QED
  BY <1>1 DEF Byte

\* Once the client has sent more than its credentials it has sent everything: what
\* is in the buffer and on the way is the rest of the stream.
LEMMA AtRest ==
  ASSUME NEW sc \in Script, NEW cl, NEW q \in Bytes, NEW w \in Bytes, NEW c \in Nat,
         At(sc, cl, q, w, c), c > R(sc)
  PROVE  c \in 0..Len(Stream(sc)) /\ q \o w = Drop(Stream(sc), c)
<1> DEFINE F == Stream(sc)
           f == q \o w
           d == Drop(F, c)
<1>1. /\ G(sc) \in Nat /\ R(sc) \in Nat /\ G(sc) <= R(sc)
      /\ F \in Bytes /\ Len(q) \in Nat /\ Len(w) \in Nat
  BY StreamFacts, ByteFacts DEF StreamIs
<1>2. Len(F) \in Nat
  BY <1>1, ByteFacts
<1>3. IsCat(f, q, w)
  BY Cat
<1>4. /\ \A i \in 1..Len(q) : q[i] = F[c + i]
      /\ \A i \in 1..Len(w) : w[i] = F[c + Len(q) + i]
      /\ c + Len(q) + Len(w) \in {G(sc), R(sc), Len(F)}
  BY DEF At, Sent
<1> HIDE DEF F, f
<1>5. c + Len(q) + Len(w) = Len(F) /\ c \in 0..Len(F)
  BY <1>1, <1>2, <1>4
<1>6. IsDrop(d, F, c)
  BY <1>1, <1>5, DropFacts
<1> HIDE DEF d
<1>7. Len(f) = Len(d) /\ f \in Bytes /\ d \in Bytes /\ Len(f) = Len(q) + Len(w)
  BY <1>1, <1>2, <1>3, <1>5, <1>6 DEF IsCat, IsDrop
<1>8. ASSUME NEW i \in 1..Len(f) PROVE f[i] = d[i]
  <2>1. d[i] = F[c + i]
    <3>1. i \in 1..Len(F) - c
      BY <1>1, <1>2, <1>5, <1>7
    <3> QED
      BY <1>6, <3>1 DEF IsDrop
  <2>2. CASE i \in 1..Len(q)
    BY <1>3, <1>4, <2>1, <2>2 DEF IsCat
  <2>3. CASE i \notin 1..Len(q)
    <3>1. i - Len(q) \in 1..Len(w) /\ Len(q) + (i - Len(q)) = i
          /\ c + Len(q) + (i - Len(q)) = c + i
      BY <1>1, <1>7, <2>3
    <3>2. f[Len(q) + (i - Len(q))] = w[i - Len(q)]
      BY <1>3, <3>1 DEF IsCat
    <3>3. w[i - Len(q)] = F[c + Len(q) + (i - Len(q))]
      BY <1>4, <3>1
    <3> QED
      BY <2>1, <3>1, <3>2, <3>3
  <2> QED
    BY <2>2, <2>3
<1>9. f = d
  BY <1>7, <1>8, SameBytes
<1> QED
  BY <1>5, <1>9 DEF F, f, d

\* Behind the request is what is meant for the origin, and before that the last
\* byte of the port.
LEMMA TailFacts ==
  ASSUME NEW sc \in Script
  PROVE  LET e == H(sc) + Len(sc.host.bytes)
         IN  /\ Drop(Stream(sc), e + 2) = BehindOf(sc)
             /\ Drop(Stream(sc), e + 1) = <<sc.port[2]>> \o BehindOf(sc)
<1> DEFINE e == H(sc) + Len(sc.host.bytes)
           F == Stream(sc)
           be == BehindOf(sc)
           po == <<sc.port[2]>>
<1>1. /\ e \in Nat /\ F \in Bytes /\ be \in Bytes /\ Len(be) \in Nat
      /\ Len(F) = e + 2 + Len(be) /\ F[e + 2] = sc.port[2]
      /\ \A i \in 1..Len(be) : F[e + 2 + i] = be[i]
  <2>1. /\ StreamIs(F, sc, G(sc), R(sc), H(sc), Len(sc.host.bytes), be) /\ H(sc) \in Nat
        /\ Len(sc.host.bytes) \in Nat /\ be \in Bytes /\ Len(be) \in Nat
    BY StreamFacts
  <2>2. e \in Nat
    BY <2>1, SMTT(30)
  <2> HIDE DEF F, be
  <2> QED
    BY <2>1, <2>2 DEF StreamIs
<1>2. po \in Bytes /\ Len(po) = 1 /\ po[1] = sc.port[2]
  <2>1. sc.port \in Bytes /\ Len(sc.port) = 2
    BY ClientAssumption DEF Script
  <2>a. 2 \in 1..Len(sc.port)
    BY <2>1
  <2>2. sc.port[2] \in 0..255
    BY <2>1, <2>a, ByteFacts
  <2> QED
    BY <2>2 DEF Bytes
<1> HIDE DEF e, F, be, po
<1>3. Drop(F, e + 2) = be
  <2>1. PICK d : d = Drop(F, e + 2)
    OBVIOUS
  <2>2. IsDrop(d, F, e + 2)
    BY <1>1, <2>1, DropFacts
  <2>3. d \in Bytes /\ Len(d) = Len(be)
    BY <1>1, <2>2 DEF IsDrop
  <2>4. \A i \in 1..Len(d) : d[i] = be[i]
    BY <1>1, <2>2, <2>3 DEF IsDrop
  <2>5. d = be
    BY <1>1, <2>3, <2>4, SameBytes
  <2> QED
    BY <2>1, <2>5
<1>4. Drop(F, e + 1) = po \o be
  <2>1. PICK d, f : d = Drop(F, e + 1) /\ f = po \o be
    OBVIOUS
  <2>2. IsDrop(d, F, e + 1)
    BY <1>1, <2>1, DropFacts
  <2>3. IsCat(f, po, be)
    BY <1>1, <1>2, <2>1, Cat
  <2>4. d \in Bytes /\ f \in Bytes /\ Len(d) = 1 + Len(be) /\ Len(f) = 1 + Len(be)
    BY <1>1, <1>2, <2>2, <2>3 DEF IsDrop, IsCat
  <2>5. ASSUME NEW i \in 1..Len(d) PROVE d[i] = f[i]
    <3>1. d[i] = F[e + 1 + i]
      <4>1. i \in 1..Len(F) - (e + 1)
        BY <1>1, <2>4
      <4> QED
        BY <2>2, <4>1 DEF IsDrop
    <3>2. CASE i = 1
      <4>1. f[1] = po[1] /\ e + 1 + 1 = e + 2
        BY <1>1, <1>2, <2>3 DEF IsCat
      <4> QED
        BY <1>1, <1>2, <3>1, <3>2, <4>1
    <3>3. CASE i # 1
      <4>1. i - 1 \in 1..Len(be) /\ 1 + (i - 1) = i /\ e + 2 + (i - 1) = e + 1 + i
        BY <1>1, <2>4, <3>3
      <4>2. f[1 + (i - 1)] = be[i - 1]
        BY <1>2, <2>3, <4>1 DEF IsCat
      <4>3. F[e + 2 + (i - 1)] = be[i - 1]
        BY <1>1, <4>1
      <4> QED
        BY <3>1, <4>1, <4>2, <4>3
    <3> QED
      BY <3>2, <3>3
  <2>6. d = f
    BY <2>4, <2>5, SameBytes
  <2> QED
    BY <2>1, <2>6
<1> QED
  BY <1>3, <1>4 DEF e, F, be, po

\* The host, the port and what is left are those of the client, the last byte of
\* the port perhaps excepted.
LEMMA ResolvedIsRequested ==
  ASSUME script \in Script, NEW q \in Bytes, NEW w \in Bytes, NEW len \in Nat,
         len = Len(script.host.bytes), Len(q) >= len + 1, At(script, client, q, w, H(script)),
         Resolve(q, len), wire' = w, UNCHANGED <<script, client>>
  PROVE  TargetIsRequested'
<1> DEFINE F == Stream(script)
           h == H(script)
           be == BehindOf(script)
<1>1. /\ h \in Nat /\ R(script) \in Nat /\ h > R(script) /\ F[h + len + 1] = script.port[1]
      /\ F[h + len + 2] = script.port[2]
      /\ \A i \in 1..len : F[h + i] = script.host.bytes[i]
  <2>1. /\ h \in Nat /\ R(script) \in Nat /\ h \in {R(script) + 4, R(script) + 5}
        /\ StreamIs(F, script, G(script), R(script), h, len, be)
    BY StreamFacts
  <2>2. h > R(script)
    BY <2>1
  <2> QED
    BY <2>1, <2>2 DEF StreamIs
<1>h. h \in Nat /\ R(script) \in Nat /\ h > R(script)
  BY <1>1
<1>2. Len(q) \in Nat
  BY ByteFacts, SMTT(30)
<1>3. script.host.bytes \in Bytes /\ script.port \in Bytes /\ Len(script.port) = 2
  BY ClientAssumption DEF Script
<1> HIDE DEF F, h, be
<1>4. \A i \in 1..Len(q) : q[i] = F[h + i]
  BY DEF At, F, h
<1>5. SubSeq(q, 1, len) = script.host.bytes
  <2>1. PICK p : p = SubSeq(q, 1, len)
    OBVIOUS
  <2>2. len \in 0..Len(q)
    BY <1>2
  <2>3. p \in Bytes /\ Len(p) = len /\ \A i \in 1..len : p[i] = q[i]
    BY <2>1, <2>2, TakeFacts
  <2>4. ASSUME NEW i \in 1..Len(p) PROVE p[i] = script.host.bytes[i]
    <3>1. i \in 1..len /\ i \in 1..Len(q)
      BY <2>2, <2>3
    <3> QED
      BY <1>1, <1>4, <2>3, <3>1
  <2>a. Len(p) = Len(script.host.bytes)
    BY <2>3
  <2>5. p = script.host.bytes
    BY <1>3, <2>3, <2>4, <2>a, SameBytes
  <2> QED
    BY <2>1, <2>5
<1>6. q[len + 1] = script.port[1] /\ Byte(q, len + 1) = script.port[1]
  <2>1. len + 1 \in 1..Len(q) /\ len + 1 <= Len(q) /\ h + (len + 1) = h + len + 1
    BY <1>h, <1>2
  <2>2. q[len + 1] = F[h + (len + 1)]
    BY <1>4, <2>1
  <2> QED
    BY <1>1, <2>1, <2>2 DEF Byte
<1>7. PICK b1, b2 : b1 = Byte(q, len + 1) /\ b2 = Byte(q, len + 2)
  OBVIOUS
<1>8. /\ target' = [host |-> SubSeq(q, 1, len), port |-> <<b1, b2>>] /\ buf' = Drop(q, len + 2)
      /\ script' = script
  BY <1>7 DEF Resolve
<1>9. target'.host = script.host.bytes /\ target'.port = <<b1, b2>> /\ b1 = script.port[1]
  BY <1>5, <1>6, <1>7, <1>8
<1>10. target'.port[1] = script.port[1] /\ target'.port[2] = b2
  BY <1>9
<1>11. \/ target'.port = script.port /\ buf' \o wire' = be
       \/ target'.port[2] = 0 /\ buf' \o wire' = <<script.port[2]>> \o be
  <2>1. CASE Len(q) >= len + 2
    <3>1. /\ len + 2 \in 1..Len(q) /\ len + 2 \in 0..Len(q) /\ len + 2 <= Len(q)
          /\ h + (len + 2) = h + len + 2
      BY <1>h, <1>2, <2>1, SMTT(30)
    <3>2. b2 = script.port[2]
      <4>1. q[len + 2] = F[h + (len + 2)]
        BY <1>4, <3>1
      <4> QED
        BY <1>1, <1>7, <3>1, <4>1 DEF Byte
    <3>3. target'.port = script.port
      <4>1. script.port = <<script.port[1], script.port[2]>>
        <5>1. \A i \in 1..2 : script.port[i] \in 0..255
          BY <1>3, ByteFacts
        <5>2. PICK r : r = <<script.port[1], script.port[2]>>
          OBVIOUS
        <5>3. r \in Bytes /\ Len(r) = 2 /\ r[1] = script.port[1] /\ r[2] = script.port[2]
          BY <5>1, <5>2 DEF Bytes
        <5>4. \A i \in 1..Len(r) : r[i] = script.port[i]
          BY <5>3
        <5>5. r = script.port
          BY <1>3, <5>3, <5>4, SameBytes
        <5> QED
          BY <5>2, <5>5
      <4> QED
        BY <1>9, <3>2, <4>1
    <3>4. At(script, client, Drop(q, len + 2), w, h + (len + 2)) /\ Drop(q, len + 2) \in Bytes
      BY <1>1, <3>1, AtDrop, DropFacts DEF IsDrop, h
    <3>5. h + (len + 2) \in Nat /\ h + (len + 2) > R(script)
      BY <1>1, SMTT(30)
    <3>a. PICK d, c : d = Drop(q, len + 2) /\ c = h + (len + 2)
      OBVIOUS
    <3>b. /\ c \in Nat /\ c > R(script) /\ At(script, client, d, w, c)
          /\ d \in Bytes /\ script \in Script
      BY <3>4, <3>5, <3>a
    <3>c. d \o w = Drop(F, c)
      BY <3>b, AtRest DEF F
    <3>6. Drop(q, len + 2) \o w = Drop(F, h + (len + 2))
      BY <3>a, <3>c
    <3>7. Drop(F, h + len + 2) = be
      BY TailFacts DEF F, h, be
    <3> QED
      BY <1>8, <3>1, <3>3, <3>6, <3>7
  <2>2. CASE ~(Len(q) >= len + 2)
    <3>1. Len(q) = len + 1 /\ ~(len + 2 <= Len(q)) /\ len + 1 \in 0..Len(q)
          /\ h + (len + 1) = h + len + 1 /\ h + (len + 1) \in Nat
          /\ h + (len + 1) > R(script) /\ len + 1 \in Nat /\ len + 2 \in Nat
          /\ len + 1 >= Len(q) /\ len + 2 >= Len(q)
      BY <1>h, <1>2, <2>2, SMTT(30)
    <3>2. b2 = 0
      BY <1>7, <3>1 DEF Byte
    <3>3. Drop(q, len + 1) = <<>> /\ Drop(q, len + 2) = <<>>
      BY <3>1, DropAll
    <3>4. At(script, client, Drop(q, len + 1), w, h + (len + 1)) /\ Drop(q, len + 1) \in Bytes
      BY <1>1, <3>1, AtDrop, DropFacts DEF IsDrop, h
    <3>a. PICK d, c : d = Drop(q, len + 1) /\ c = h + (len + 1)
      OBVIOUS
    <3>b. /\ c \in Nat /\ c > R(script) /\ At(script, client, d, w, c)
          /\ d \in Bytes /\ script \in Script
      BY <3>1, <3>4, <3>a
    <3>c. d \o w = Drop(F, c)
      BY <3>b, AtRest DEF F
    <3>5. Drop(q, len + 1) \o w = Drop(F, h + (len + 1))
      BY <3>a, <3>c
    <3>6. Drop(F, h + len + 1) = <<script.port[2]>> \o be
      BY TailFacts DEF F, h, be
    <3> QED
      BY <1>8, <1>10, <3>1, <3>2, <3>3, <3>5, <3>6
  <2> QED
    BY <2>1, <2>2
<1>12. (IF script'.mode = "lockstep" THEN <<>> ELSE Payload) = be
  BY <1>8 DEF be, BehindOf
<1> QED
  BY <1>8, <1>9, <1>10, <1>11, <1>12 DEF TargetIsRequested

\* The target of a request is known.
LEMMA ResolveInv ==
  ASSUME HandshakeInv, state = "REQUEST", NEW q \in Bytes, NEW w \in Bytes, NEW len \in Nat,
         Len(q) >= len + 1, Resolve(q, len), wire' = w, UNCHANGED <<script, client>>,
         ~LeftOver(script) =>
           /\ Admitted
           /\ split = 0 => len = Len(script.host.bytes) /\ At(script, client, q, w, H(script))
  PROVE  HandshakeInv'
<1>1. script \in Script /\ TypeOK
  BY DEF HandshakeInv
<1>2. Len(q) \in Nat
  BY ByteFacts
<1>3. SubSeq(q, 1, len) \in Bytes
  <2>1. len \in 0..Len(q)
    BY <1>2
  <2> QED
    BY <2>1, TakeFacts
<1>4. <<Byte(q, len + 1), Byte(q, len + 2)>> \in Bytes
  <2>1. Byte(q, len + 1) \in 0..255 /\ Byte(q, len + 2) \in 0..255
    BY ByteTypes, SMTT(30)
  <2> QED
    BY <2>1 DEF Bytes
<1>5. Drop(q, len + 2) \in Bytes
  <2>1. CASE len + 2 \in 0..Len(q)
    BY <2>1, DropFacts DEF IsDrop
  <2>2. CASE len + 2 \notin 0..Len(q)
    <3>1. len + 2 \in Nat /\ len + 2 >= Len(q)
      BY <1>2, <2>2
    <3>2. Drop(q, len + 2) = <<>>
      BY <3>1, DropAll
    <3>3. <<>> \in Bytes
      BY DEF Bytes
    <3> QED
      BY <3>2, <3>3
  <2> QED
    BY <2>1, <2>2
<1>6. script' \in Script /\ TypeOK'
  <2>1. target' \in [host : Bytes, port : Bytes]
    BY <1>3, <1>4 DEF Resolve
  <2> QED
    BY <1>1, <1>5, <2>1 DEF TypeOK, Resolve
<1>7. TargetIsRequested' \/ LeftOver(script)
  <2>1. CASE LeftOver(script)
    BY <2>1
  <2>2. CASE ~LeftOver(script) /\ split = 0
    BY <1>1, <2>2, ResolvedIsRequested
  <2>3. CASE split # 0
    BY <2>3 DEF TargetIsRequested, Resolve
  <2> QED
    BY <2>1, <2>2, <2>3
<1>8. TargetInv'
  BY <1>7 DEF TargetInv, Admitted
<1>9. state' = "CONNECTING"
  BY DEF Resolve
<1> QED
  BY <1>6, <1>8, <1>9 DEF HandshakeInv, GreetingInv, AuthInv, RequestInv

\* DST_LEN of a name: its length is consumed with the name, or lost.
LEMMA ReadFqdnInv ==
  ASSUME HandshakeInv, state = "REQUEST", out = 0, NEW q \in Bytes, NEW w \in Bytes, q # <<>>,
         ReadFqdn(q), wire' = w, UNCHANGED <<script, client>>,
         ~LeftOver(script) =>
           /\ Admitted
           /\ split = 0 => /\ script.host.atyp = FQDN
                           /\ At(script, client, q, w, R(script) + 4)
  PROVE  HandshakeInv'
<1>1. script \in Script /\ TypeOK
  BY SMTT(30) DEF HandshakeInv
<1>2. R(script) \in Nat
  BY <1>1, StreamFacts
<1>3. /\ q[1] \in 0..255 /\ Drop(q, 1) \in Bytes
      /\ At(script, client, q, w, R(script) + 4) =>
           /\ q[1] = Stream(script)[R(script) + 4 + 1]
           /\ At(script, client, Drop(q, 1), w, R(script) + 4 + 1)
  <2>1. R(script) + 4 \in Nat
    BY <1>2
  <2> QED
    BY <2>1, TakeByte
<1>4. CASE q[1] = 0
  <2>1. Fails
    BY <1>4 DEF ReadFqdn
  <2> QED
    BY <2>1, EndInv DEF Fails
<1>5. CASE q[1] # 0 /\ Len(q) >= q[1] + 2
  <2>1. Resolve(Drop(q, 1), q[1])
    BY <1>5 DEF ReadFqdn
  <2>2. PICK len, d : len = q[1] /\ d = Drop(q, 1)
    OBVIOUS
  <2>3. len \in Nat /\ Len(q) \in Nat /\ 1 \in 0..Len(q) /\ Len(q) >= len + 2
    <3>1. len \in 0..255 /\ Len(q) >= len + 2
      BY <1>3, <1>5, <2>2
    <3>2. Len(q) \in Nat
      BY ByteFacts
    <3> QED
      BY <3>1, <3>2
  <2>4. Len(d) = Len(q) - 1
    BY <2>2, <2>3, DropFacts DEF IsDrop
  <2>5. Len(d) >= len + 1
    BY <2>3, <2>4
  <2>6. ASSUME ~LeftOver(script), split = 0
        PROVE  len = Len(script.host.bytes) /\ At(script, client, d, w, H(script))
    <3>1. script.host.atyp = FQDN /\ At(script, client, q, w, R(script) + 4)
      BY <2>6, SMTT(30)
    <3>2. /\ Stream(script)[R(script) + 5] = Len(script.host.bytes)
          /\ H(script) = R(script) + 5
      BY <1>1, <3>1, StreamFacts DEF StreamIs
    <3>3. R(script) + 4 + 1 = R(script) + 5
      BY <1>2
    <3> QED
      BY <1>3, <2>2, <3>1, <3>2, <3>3
  <2>7. Resolve(d, len) /\ d \in Bytes
    BY <1>3, <2>1, <2>2
  <2> QED
    BY <2>3, <2>5, <2>6, <2>7, ResolveInv
<1>6. CASE q[1] # 0 /\ ~(Len(q) >= q[1] + 2)
  <2>1. /\ sub' = "DST_LEN" /\ buf' = Drop(q, 1) /\ n' = FQDN /\ split' = 1
        /\ UNCHANGED <<state, username, answer, out, target>>
    BY <1>6 DEF ReadFqdn
  <2>2. script' \in Script /\ TypeOK'
    BY <1>1, <1>3, <2>1 DEF TypeOK, FQDN
  <2>3. RequestInv'
    BY <2>1 DEF RequestInv, Admitted
  <2> QED
    BY <2>1, <2>2, <2>3 DEF HandshakeInv, GreetingInv, AuthInv, TargetInv
<1> QED
  BY <1>4, <1>5, <1>6

\* DST_LEN of an address.
LEMMA ReadAddressInv ==
  ASSUME HandshakeInv, state = "REQUEST", out = 0, NEW q \in Bytes, NEW w \in Bytes,
         NEW atyp \in 0..255, atyp # FQDN,
         ReadAddress(q, atyp), wire' = w, UNCHANGED <<script, client>>,
         ~LeftOver(script) =>
           /\ Admitted
           /\ split = 0 => /\ atyp = script.host.atyp
                           /\ At(script, client, q, w, R(script) + 4)
  PROVE  HandshakeInv'
<1>1. script \in Script /\ TypeOK
  BY SMTT(30) DEF HandshakeInv
<1>2. AddrLen \in Nat /\ (script.host.atyp # FQDN => Len(script.host.bytes) = AddrLen)
  BY <1>1, ClientAssumption DEF Script
<1>3. CASE Enough(q, AddrLen)
  <2>1. Resolve(q, AddrLen) /\ Len(q) >= AddrLen + 1
    BY <1>3 DEF ReadAddress, Enough
  <2>2. ASSUME ~LeftOver(script), split = 0
        PROVE  AddrLen = Len(script.host.bytes) /\ At(script, client, q, w, H(script))
    <3>1. script.host.atyp # FQDN /\ At(script, client, q, w, R(script) + 4)
      BY <2>2
    <3>2. /\ H(script) \in {R(script) + 4, R(script) + 5}
          /\ H(script) = R(script) + 5 <=> script.host.atyp = FQDN
      BY <1>1, StreamFacts
    <3> QED
      BY <1>2, <3>1, <3>2
  <2> QED
    BY <1>2, <2>1, <2>2, ResolveInv
<1>4. CASE ~Enough(q, AddrLen)
  <2>1. Await("DST_LEN", q, atyp, username)
    BY <1>4 DEF ReadAddress
  <2>2. username \in Bytes
    BY <1>1 DEF TypeOK
  <2>3. script' \in Script /\ TypeOK'
    BY <2>1, <2>2, AwaitTypes
  <2>4. state' = "REQUEST" /\ sub' = "DST_LEN" /\ n' = atyp /\ buf' = q /\ UNCHANGED <<out, split>>
    BY <2>1 DEF Await
  <2>5. ~LeftOver(script) /\ split = 0 => Here(R(script) + 4)'
    BY <2>4 DEF Here
  <2>6. RequestInv'
    BY <2>4, <2>5 DEF RequestInv, Admitted
  <2> QED
    BY <2>3, <2>4, <2>6 DEF HandshakeInv, GreetingInv, AuthInv, TargetInv
<1> QED
  BY <1>3, <1>4

\* resolve_dst_address, with what its recv has returned.
LEMMA ReadDstInv ==
  ASSUME HandshakeInv, state = "REQUEST", out = 0, NEW q \in Bytes, NEW w \in Bytes,
         NEW atyp \in 0..255, ReadDst(q, atyp), wire' = w, UNCHANGED <<script, client>>,
         ~LeftOver(script) =>
           /\ Admitted
           /\ split = 0 => /\ atyp = script.host.atyp
                           /\ At(script, client, q, w, R(script) + 4)
  PROVE  HandshakeInv'
<1>1. CASE q = <<>>
  <2>1. Close
    BY <1>1 DEF ReadDst
  <2> QED
    BY <2>1, CloseInv
<1>2. CASE q # <<>> /\ atyp = FQDN
  <2>1. ReadFqdn(q)
    BY <1>2 DEF ReadDst
  <2> QED
    BY <1>2, <2>1, ReadFqdnInv
<1>3. CASE q # <<>> /\ atyp # FQDN
  <2>1. ReadAddress(q, atyp)
    BY <1>3 DEF ReadDst
  <2> QED
    BY <1>3, <2>1, ReadAddressInv
<1> QED
  BY <1>1, <1>2, <1>3

\* The fourth byte of a request is the type of its address.
LEMMA HeaderFacts ==
  ASSUME NEW sc \in Script, NEW cl, NEW q \in Bytes, NEW w, Len(q) > 3,
         At(sc, cl, q, w, R(sc))
  PROVE  q[4] = sc.host.atyp
<1>1. Stream(sc)[R(sc) + 4] = sc.host.atyp
  BY StreamFacts DEF StreamIs
<1>2. 4 \in 1..Len(q)
  BY ByteFacts
<1>3. q[4] = Stream(sc)[R(sc) + 4]
  BY <1>2, AtByte
<1> QED
  BY <1>1, <1>3

\* request_header.
LEMMA RequestHeaderInv == ASSUME HandshakeInv, request_header PROVE HandshakeInv'
<1>1. TypeOK /\ RequestInv /\ script \in Script
  BY DEF HandshakeInv
<1>2. /\ state = "REQUEST" /\ out = 0 /\ sub = "VER_CMD_ATYP" /\ UNCHANGED <<script, client>>
  BY DEF request_header, Listening
<1>3. PICK k \in Pieces, m \in 0..Len(wire) :
        /\ k + m <= Len(wire)
        /\ \/ m = 0 /\ Received(k) = <<>> /\ Close
           \/ m = 0 /\ Len(Received(k)) \in 1..3 /\ Await(sub, Received(k), n, username)
           \/ m = 0 /\ Len(Received(k)) > 3 /\ ~ValidHeader(Received(k)) /\ Fails
           \/ /\ Len(Received(k)) > 3 /\ ValidHeader(Received(k))
              /\ ReadDst(Drop(Received(k + m), 4), Received(k)[4])
        /\ wire' = Drop(wire, k + m)
  BY DEF request_header
<1>4. Len(wire) \in Nat /\ k \in 0..Len(wire)
  BY <1>1, PiecesFacts, ByteFacts DEF TypeOK
<1>5. k + m \in 0..Len(wire)
  BY <1>3, <1>4
<1>6. PICK q, q2, w, w2 : /\ q = Received(k) /\ q2 = Received(k + m)
                          /\ w = Drop(wire, k) /\ w2 = Drop(wire, k + m)
  OBVIOUS
<1>7. /\ q \in Bytes /\ w \in Bytes
      /\ \A c \in Nat : Here(c) => At(script, client, q, w, c)
  BY <1>1, <1>4, <1>6, ReceivedFacts
<1>8. /\ q2 \in Bytes /\ w2 \in Bytes
      /\ \A c \in Nat : Here(c) => At(script, client, q2, w2, c)
  BY <1>1, <1>5, <1>6, ReceivedFacts
<1>9. Len(q) = Len(buf) + k /\ Len(q2) = Len(buf) + (k + m) /\ Len(buf) \in Nat
  <2>1. buf \in Bytes /\ wire \in Bytes /\ Len(buf) \in Nat
    BY <1>1, ByteFacts DEF TypeOK
  <2>2. SubSeq(wire, 1, k) \in Bytes /\ Len(SubSeq(wire, 1, k)) = k
    BY <1>4, <2>1, TakeFacts
  <2>3. SubSeq(wire, 1, k + m) \in Bytes /\ Len(SubSeq(wire, 1, k + m)) = k + m
    BY <1>5, <2>1, TakeFacts
  <2>4. IsCat(q, buf, SubSeq(wire, 1, k)) /\ IsCat(q2, buf, SubSeq(wire, 1, k + m))
    BY <1>6, <2>1, <2>2, <2>3, Cat DEF Received
  <2> QED
    BY <2>1, <2>2, <2>3, <2>4 DEF IsCat
<1>10. R(script) \in Nat
  BY <1>1, StreamFacts
<1>11. wire' = w2 /\ wire' \in Bytes /\ (m = 0 => w2 = w)
  <2>1. m = 0 => k + m = k
    BY <1>4
  <2> QED
    BY <1>3, <1>6, <1>8, <2>1
<1>12. CASE Close
  BY <1>2, <1>11, <1>12, CloseInv
<1>13. CASE Fails
  BY <1>2, <1>11, <1>13, EndInv DEF Fails
<1>14. CASE m = 0 /\ Await(sub, q, n, username)
  <2>1. n \in 0..255 /\ username \in Bytes
    BY <1>1 DEF TypeOK
  <2>2. script' \in Script /\ TypeOK'
    BY <1>2, <1>7, <1>11, <1>14, <2>1, AwaitTypes
  <2>3. state' = "REQUEST" /\ sub' = "VER_CMD_ATYP" /\ buf' = q /\ out' = 0 /\ wire' = w
    BY <1>2, <1>11, <1>14 DEF Await
  <2>4. Here(R(script)) => Here(R(script))'
    <3>1. Here(R(script)) => At(script, client, q, w, R(script))
      BY <1>7, <1>10
    <3> QED
      BY <1>2, <2>3, <3>1 DEF Here
  <2>5. RequestInv'
    BY <1>1, <1>2, <2>3, <2>4 DEF RequestInv, Admitted
  <2> QED
    BY <2>2, <2>3, <2>5 DEF HandshakeInv, GreetingInv, AuthInv, TargetInv
<1>15. CASE Len(q) > 3 /\ ValidHeader(q) /\ ReadDst(Drop(q2, 4), q[4])
  <2>1. q[4] \in 0..255
    BY <1>15 DEF ValidHeader, IPv4_ADDR, FQDN, IPv6_ADDR
  <2>2. 4 \in 0..Len(q2)
    BY <1>4, <1>9, <1>15
  <2>3. Drop(q2, 4) \in Bytes
    BY <1>8, <2>2, DropFacts DEF IsDrop
  <2>4. ASSUME ~LeftOver(script)
        PROVE  /\ Admitted /\ q[4] = script.host.atyp
               /\ At(script, client, Drop(q2, 4), w2, R(script) + 4)
    <3>2. Admitted /\ Here(R(script))
      BY <1>1, <1>2, <2>4 DEF RequestInv
    <3>3. At(script, client, q, w, R(script)) /\ At(script, client, q2, w2, R(script))
      BY <1>7, <1>8, <1>10, <3>2
    <3>4. q[4] = script.host.atyp
      BY <1>1, <1>7, <1>15, <3>3, HeaderFacts
    <3>5. At(script, client, Drop(q2, 4), w2, R(script) + 4)
      BY <1>8, <1>10, <2>2, <3>3, AtDrop
    <3> QED
      BY <3>2, <3>4, <3>5
  <2> QED
    BY <1>2, <1>8, <1>11, <1>15, <2>1, <2>3, <2>4, ReadDstInv
<1> QED
  BY <1>3, <1>6, <1>12, <1>13, <1>14, <1>15

\* request_address.
LEMMA RequestAddressInv == ASSUME HandshakeInv, request_address PROVE HandshakeInv'
<1>1. TypeOK /\ RequestInv /\ script \in Script
  BY DEF HandshakeInv
<1>2. state = "REQUEST" /\ out = 0 /\ sub = "DST_LEN" /\ UNCHANGED <<script, client>>
  BY DEF request_address, Listening
<1>3. PICK k \in Pieces : ReadDst(Received(k), n) /\ wire' = Drop(wire, k)
  BY DEF request_address
<1>4. k \in 0..Len(wire)
  BY <1>1, PiecesFacts
<1>5. PICK q, w : q = Received(k) /\ w = Drop(wire, k)
  OBVIOUS
<1>6. q \in Bytes /\ w \in Bytes /\ \A c \in Nat : Here(c) => At(script, client, q, w, c)
  BY <1>1, <1>4, <1>5, ReceivedFacts
<1>7. R(script) + 4 \in Nat
  BY <1>1, StreamFacts
<1>8. ReadDst(q, n) /\ wire' = w /\ n \in 0..255
  BY <1>1, <1>3, <1>5 DEF TypeOK
<1>9. ~LeftOver(script) =>
        /\ Admitted
        /\ split = 0 => n = script.host.atyp /\ At(script, client, q, w, R(script) + 4)
  BY <1>1, <1>2, <1>6, <1>7 DEF RequestInv
<1> QED
  BY <1>2, <1>6, <1>8, <1>9, ReadDstInv, SMTT(30)

\* reply_write.
LEMMA ReplyWriteInv == ASSUME HandshakeInv, reply_write PROVE HandshakeInv'
<1>1. Close /\ UNCHANGED <<script, client, wire>>
  BY DEF reply_write
<1>2. wire \in Bytes
  BY DEF HandshakeInv, TypeOK
<1> QED
  BY <1>1, <1>2, CloseInv

------------------------------------------------------------------------------
(* The answers.                                                            *)

\* answer_write.
LEMMA AnswerWriteInv == ASSUME HandshakeInv, answer_write PROVE HandshakeInv'
<1>1. TypeOK /\ GreetingInv /\ AuthInv /\ script \in Script
  BY DEF HandshakeInv
<1>2. out > 0 /\ UNCHANGED <<script, client, wire>>
  BY DEF answer_write
<1>3. wire' \in Bytes
  BY <1>1, <1>2 DEF TypeOK
<1>4. ASSUME NEW st \in {"AUTH", "REQUEST"}, NEW inner \in {"AUTH_VER", "VER_CMD_ATYP"},
             Arrive(st, inner)
      PROVE  /\ script' \in Script /\ TypeOK' /\ state' = st /\ sub' = inner /\ out' = 0
             /\ \A c \in Nat : Here(c) => At(script', client', buf', wire', c)
  <2>1. <<>> \in Bytes
    BY DEF Bytes
  <2>2. TypeOK' /\ script' \in Script
    BY <1>1, <1>2, <1>4, <2>1 DEF TypeOK, Arrive
  <2>3. state' = st /\ sub' = inner /\ out' = 0 /\ buf' = buf
    BY <1>4 DEF Arrive
  <2>4. \A c \in Nat : Here(c) => At(script', client', buf', wire', c)
    BY <1>2, <2>3, SMTT(30) DEF Here
  <2> QED
    BY <2>2, <2>3, <2>4
<1>5. /\ G(script) \in Nat /\ R(script) \in Nat /\ (HasAuth(script) => R(script) = G(script) + 5)
      /\ (~HasAuth(script) => R(script) = G(script))
  BY <1>1, StreamFacts
<1>6. CASE GreetingCompleted
  <2>1. state = "GREETING" /\ answer = Method(script) /\ (~LeftOver(script) => Here(G(script)))
    BY <1>1, <1>2, <1>6 DEF GreetingCompleted, GreetingInv
  <2>2. CASE answer = AUTH_METHOD
    <3>1. Arrive("AUTH", "AUTH_VER")
      BY <1>6, <2>2 DEF GreetingCompleted
    <3>2. /\ script' \in Script /\ TypeOK' /\ state' = "AUTH" /\ sub' = "AUTH_VER" /\ out' = 0
          /\ ~LeftOver(script) => At(script', client', buf', wire', G(script))
      BY <1>4, <1>5, <2>1, <3>1
    <3>3. HasAuth(script)
      BY <2>1, <2>2 DEF Method, AUTH_METHOD, AUTH_METHOD_INVALID
    <3>4. AuthInv'
      BY <1>2, <3>2, <3>3 DEF AuthInv, AuthAt, AuthSubs
    <3> QED
      BY <3>2, <3>4 DEF HandshakeInv, GreetingInv, RequestInv, TargetInv
  <2>3. CASE answer # AUTH_METHOD
    <3>1. Arrive("REQUEST", "VER_CMD_ATYP")
      BY <1>6, <2>3 DEF GreetingCompleted
    <3>2. /\ script' \in Script /\ TypeOK' /\ state' = "REQUEST" /\ sub' = "VER_CMD_ATYP"
          /\ out' = 0 /\ (~LeftOver(script) => At(script', client', buf', wire', G(script)))
      BY <1>4, <1>5, <2>1, <3>1
    <3>a. ~HasAuth(script) /\ R(script) = G(script)
      BY <1>5, <2>1, <2>3 DEF Method
    <3>3. RequestInv'
      BY <1>2, <3>2, <3>a DEF RequestInv, Admitted, Here
    <3> QED
      BY <3>2, <3>3 DEF HandshakeInv, GreetingInv, AuthInv, TargetInv
  <2> QED
    BY <2>2, <2>3
<1>7. CASE AuthCompleted
  <2>1. state = "AUTH" /\ (~LeftOver(script) => answer = Verdict(script) /\ Here(R(script)))
    BY <1>1, <1>2, <1>7 DEF AuthCompleted, AuthInv
  <2>2. CASE answer = AUTH_SUCCESS
    <3>1. Arrive("REQUEST", "VER_CMD_ATYP")
      BY <1>7, <2>2 DEF AuthCompleted
    <3>2. /\ script' \in Script /\ TypeOK' /\ state' = "REQUEST" /\ sub' = "VER_CMD_ATYP"
          /\ out' = 0 /\ (~LeftOver(script) => At(script', client', buf', wire', R(script)))
      BY <1>4, <1>5, <2>1, <3>1
    <3>a. ~LeftOver(script) /\ HasAuth(script) => client # "greeting_sent"
      <4> SUFFICES ASSUME ~LeftOver(script), HasAuth(script), client = "greeting_sent"
                   PROVE  FALSE
        OBVIOUS
      <4>1. R(script) + Len(buf) + Len(wire) = G(script)
        BY <2>1 DEF Here, At, Sent
      <4>2. Len(buf) \in Nat /\ Len(wire) \in Nat
        BY <1>1, ByteFacts DEF TypeOK
      <4> QED
        BY <1>5, <4>1, <4>2
    <3>3. RequestInv'
      BY <1>2, <2>1, <2>2, <3>2, <3>a DEF RequestInv, Admitted, Here
    <3> QED
      BY <3>2, <3>3 DEF HandshakeInv, GreetingInv, AuthInv, TargetInv
  <2>3. CASE answer # AUTH_SUCCESS
    <3>1. Close
      BY <1>7, <2>3 DEF AuthCompleted
    <3> QED
      BY <1>2, <1>3, <3>1, CloseInv
  <2> QED
    BY <2>2, <2>3
<1>8. CASE SendPart
  <2>1. /\ out' = 1 /\ UNCHANGED <<script, client, wire, state, sub, n, username, buf, answer,
                                   target, split>>
    BY <1>2, <1>8 DEF SendPart, parserVars
  <2>2. TypeOK'
    BY <1>1, <2>1 DEF TypeOK
  <2>3. \A c : Here(c) => At(script', client', buf', wire', c)
    BY <2>1 DEF Here
  <2>4. GreetingInv' /\ AuthInv'
    BY <1>1, <1>2, <2>1, <2>3 DEF GreetingInv, AuthInv, Here
  <2>5. state \in {"GREETING", "AUTH"}
    BY DEF answer_write
  <2> QED
    BY <1>1, <2>1, <2>2, <2>4, <2>5 DEF HandshakeInv, RequestInv, TargetInv
<1>9. CASE SendFails
  BY <1>2, <1>3, <1>9, EndInv DEF SendFails, Close
<1> QED
  BY <1>6, <1>7, <1>8, <1>9 DEF answer_write

------------------------------------------------------------------------------
(* The client.                                                             *)

\* Bytes that are on the way, and how far the client has come, are all the same to
\* the parsers as long as what was the stream from a place on still is.
LEMMA ClientInv ==
  ASSUME HandshakeInv, wire' \in Bytes, state = "CONNECTING" => wire' = wire,
         client' \in {"auth_sent", "request_sent", "served", "gone"},
         \/ state = "REQUEST" /\ LeftOver(script)
         \/ \A c \in Nat : Here(c) => At(script, client', buf, wire', c),
         UNCHANGED <<script, state, parserVars, answer, out, target, split>>
  PROVE  HandshakeInv'
<1>1. script \in Script /\ TypeOK /\ GreetingInv /\ AuthInv /\ RequestInv /\ TargetInv
  BY DEF HandshakeInv
<1>2. UNCHANGED <<script, state, sub, n, username, buf, answer, out, target, split>>
  BY SMTT(30) DEF parserVars
<1>3. G(script) \in Nat /\ R(script) \in Nat
  BY <1>1, StreamFacts
<1>4. TypeOK'
  BY <1>1, <1>2 DEF TypeOK
<1>5. TargetInv'
  BY <1>1, <1>2 DEF TargetInv, TargetIsRequested, Admitted
<1>6. CASE state = "REQUEST" /\ LeftOver(script)
  BY <1>1, <1>2, <1>4, <1>5, <1>6 DEF HandshakeInv, GreetingInv, AuthInv, RequestInv
<1>7. CASE \A c \in Nat : Here(c) => At(script, client', buf, wire', c)
  <2>1. \A c \in Nat : Here(c) => At(script', client', buf', wire', c)
    BY <1>2, <1>7
  <2>2. /\ Here(0) => At(script', client', buf', wire', 0)
        /\ Here(2) => At(script', client', buf', wire', 2)
        /\ Here(G(script)) => At(script', client', buf', wire', G(script'))
        /\ Here(R(script)) => At(script', client', buf', wire', R(script'))
    BY <1>2, <1>3, <2>1
  <2>3. /\ Here(G(script) + 1) => At(script', client', buf', wire', G(script') + 1)
        /\ Here(G(script) + 2) => At(script', client', buf', wire', G(script') + 2)
        /\ Here(G(script) + 3) => At(script', client', buf', wire', G(script') + 3)
        /\ Here(G(script) + 4) => At(script', client', buf', wire', G(script') + 4)
        /\ Here(R(script) + 4) => At(script', client', buf', wire', R(script') + 4)
    <3>1. script' = script
      BY <1>2
    <3>2. /\ G(script) + 1 \in Nat /\ G(script) + 2 \in Nat /\ G(script) + 3 \in Nat
          /\ G(script) + 4 \in Nat /\ R(script) + 4 \in Nat
      BY <1>3
    <3> QED
      BY <2>1, <3>1, <3>2
  <2>4. GreetingInv'
    BY <1>1, <1>2, <2>2 DEF GreetingInv, Here
  <2>5. AuthInv'
    <3>1. AuthAt(script, client, sub, n, username, buf, wire) =>
            AuthAt(script', client', sub', n', username', buf', wire')
      BY <1>2, <2>2, <2>3 DEF AuthAt, Here
    <3> QED
      BY <1>1, <1>2, <2>2, <3>1 DEF AuthInv, Here
  <2>6. RequestInv'
    BY <1>1, <1>2, <2>2, <2>3 DEF RequestInv, Admitted, Here
  <2> QED
    BY <1>1, <1>2, <1>4, <1>5, <2>4, <2>5, <2>6 DEF HandshakeInv
<1> QED
  BY <1>6, <1>7

\* A client that says no more only leaves its state.
LEMMA SilentInv ==
  ASSUME HandshakeInv, wire' = wire, client' \in {"served", "gone"},
         client' = "served" => client \in {"request_sent", "all_sent"},
         UNCHANGED <<script, state, parserVars, answer, out, target, split>>
  PROVE  HandshakeInv'
<1>1. \A t : Sent(script, client, t) => Sent(script, client', t)
  BY DEF Sent
<1>2. \A c \in Nat : Here(c) => At(script, client', buf, wire', c)
  BY <1>1 DEF Here, At
<1>3. wire' \in Bytes
  BY DEF HandshakeInv, TypeOK
<1> QED
  BY <1>2, <1>3, ClientInv

\* A message that is the next part of the stream continues it.
LEMMA AtSays ==
  ASSUME NEW sc \in Script, NEW cl, NEW next, NEW q \in Bytes, NEW w \in Bytes, NEW c \in Nat,
         At(sc, cl, q, w, c), NEW m \in Bytes, NEW t \in Nat, c + Len(q) + Len(w) = t,
         \A i \in 1..Len(m) : Stream(sc)[t + i] = m[i], Sent(sc, next, t + Len(m))
  PROVE  At(sc, next, q, w \o m, c)
<1> DEFINE F == Stream(sc)
<1>1. PICK f : f = w \o m
  OBVIOUS
<1>2. IsCat(f, w, m)
  BY <1>1, Cat
<1>3. Len(q) \in Nat /\ Len(w) \in Nat /\ Len(m) \in Nat
  BY ByteFacts
<1>4. /\ \A i \in 1..Len(q) : q[i] = F[c + i]
      /\ \A i \in 1..Len(w) : w[i] = F[c + Len(q) + i]
  BY DEF At
<1> HIDE DEF F
<1>5. Len(f) = Len(w) + Len(m)
  BY <1>2 DEF IsCat
<1>6. ASSUME NEW i \in 1..Len(f) PROVE f[i] = F[c + Len(q) + i]
  <2>1. CASE i \in 1..Len(w)
    BY <1>2, <1>4, <2>1 DEF IsCat
  <2>2. CASE i \notin 1..Len(w)
    <3>1. /\ i - Len(w) \in 1..Len(m) /\ Len(w) + (i - Len(w)) = i
          /\ t + (i - Len(w)) = c + Len(q) + i
      <4>1. PICK x, y, z : x = Len(q) /\ y = Len(w) /\ z = Len(m)
        OBVIOUS
      <4>2. x \in Nat /\ y \in Nat /\ z \in Nat /\ i \in 1..y + z /\ i \notin 1..y
        BY <1>3, <1>5, <2>2, <4>1
      <4>3. i - y \in 1..z /\ y + (i - y) = i /\ c + x + y + (i - y) = c + x + i
        BY <4>2
      <4> QED
        BY <4>1, <4>3
    <3>2. f[Len(w) + (i - Len(w))] = m[i - Len(w)]
      BY <1>2, <3>1 DEF IsCat
    <3>3. F[t + (i - Len(w))] = m[i - Len(w)]
      BY <3>1 DEF F
    <3> QED
      BY <3>1, <3>2, <3>3
  <2> QED
    BY <2>1, <2>2
<1>7. c + Len(q) + Len(f) = t + Len(m)
  BY <1>3, <1>5, SMTT(30)
<1>8. At(sc, next, q, f, c)
  BY <1>4, <1>6, <1>7 DEF At, F
<1> QED
  BY <1>1, <1>8

\* ClientSpeaks.
LEMMA ClientSpeaksInv == ASSUME HandshakeInv, ClientSpeaks PROVE HandshakeInv'
<1>1. TypeOK /\ script \in Script
  BY DEF HandshakeInv
<1>2. UNCHANGED <<script, state, parserVars, answer, out, target, split>>
  BY DEF ClientSpeaks
<1>3. wire \in Bytes /\ buf \in Bytes
  BY <1>1 DEF TypeOK
<1>4. ASSUME NEW m \in Bytes, NEW next, Says(m, next)
      PROVE  client' = next /\ wire' = wire \o m /\ wire' \in Bytes
  BY <1>3, <1>4, Cat DEF Says, IsCat
<1>5. ASSUME NEW next, Says(<<>>, next) PROVE client' = next /\ wire' = wire
  BY <1>3, <1>5, ConcatEmptySeq, Zenon DEF Says, Bytes
<1>6. /\ MessagesAre(Stream(script), script, G(script), R(script)) /\ G(script) \in Nat
      /\ R(script) \in Nat /\ Len(BehindOf(script)) \in Nat
      /\ ~HasAuth(script) => R(script) = G(script)
  BY <1>1, StreamFacts
<1>7. CASE client = "greeting_sent" /\ state = "AUTH" /\ Says(Auth, "auth_sent")
  <2>1. /\ AuthOf(script) \in Bytes /\ R(script) = G(script) + Len(AuthOf(script))
        /\ \A i \in 1..Len(AuthOf(script)) :
             Stream(script)[G(script) + i] = AuthOf(script)[i]
    BY <1>6 DEF MessagesAre
  <2>2. PICK m : m = AuthOf(script)
    OBVIOUS
  <2>3. /\ m \in Bytes /\ R(script) = G(script) + Len(m)
        /\ \A i \in 1..Len(m) : Stream(script)[G(script) + i] = m[i]
    BY <2>1, <2>2
  <2>4. Says(m, "auth_sent")
    <3>1. Auth = m
      BY <1>1, <2>2, MethodFacts DEF Auth, AuthOf
    <3> QED
      BY <1>7, <3>1
  <2>5. client' = "auth_sent" /\ wire' = wire \o m /\ wire' \in Bytes
    BY <1>4, <2>3, <2>4
  <2>6. ASSUME NEW c \in Nat, Here(c) PROVE At(script, client', buf, wire', c)
    <3>1. /\ At(script, client, buf, wire, c) /\ script.mode = "lockstep"
          /\ c + Len(buf) + Len(wire) = G(script)
      BY <1>7, <2>6 DEF Here, At, Sent
    <3>2. Sent(script, "auth_sent", G(script) + Len(m))
      BY <2>3, <3>1 DEF Sent
    <3> QED
      BY <1>1, <1>3, <1>6, <2>3, <2>5, <3>1, <3>2, AtSays
  <2> QED
    BY <1>2, <1>7, <2>5, <2>6, ClientInv
<1>8. CASE /\ client \in {"greeting_sent", "auth_sent"} /\ state = "REQUEST"
           /\ Says(Request, "request_sent")
  <2>1. /\ RequestOf(script) \in Bytes
        /\ \A i \in 1..Len(RequestOf(script)) :
             Stream(script)[R(script) + i] = RequestOf(script)[i]
        /\ Len(Stream(script)) = R(script) + Len(RequestOf(script)) + Len(BehindOf(script))
    BY <1>6 DEF MessagesAre
  <2>2. PICK m : m = RequestOf(script)
    OBVIOUS
  <2>3. /\ m \in Bytes /\ Len(Stream(script)) = R(script) + Len(m) + Len(BehindOf(script))
        /\ \A i \in 1..Len(m) : Stream(script)[R(script) + i] = m[i]
    BY <2>1, <2>2
  <2>4. Says(m, "request_sent")
    BY <1>8, <2>2 DEF Request, RequestHeader, HostField, RequestOf, HeaderOf, HostOf
  <2>5. client' = "request_sent" /\ wire' = wire \o m /\ wire' \in Bytes
    BY <1>4, <2>3, <2>4
  <2>6. CASE LeftOver(script)
    BY <1>2, <1>8, <2>5, <2>6, ClientInv
  <2>7. CASE ~LeftOver(script)
    <3>1. client = "greeting_sent" => R(script) = G(script)
      BY <1>6, <1>8, <2>7 DEF HandshakeInv, RequestInv, Admitted
    <3>2. ASSUME NEW c \in Nat, Here(c) PROVE At(script, client', buf, wire', c)
      <4>1. /\ At(script, client, buf, wire, c) /\ script.mode = "lockstep"
            /\ c + Len(buf) + Len(wire) = R(script)
        BY <1>8, <3>1, <3>2 DEF Here, At, Sent
      <4>2. Len(BehindOf(script)) = 0
        BY <4>1 DEF BehindOf
      <4>3. R(script) + Len(m) = Len(Stream(script))
        <5>1. Len(m) \in Nat
          BY <2>3, ByteFacts
        <5>2. Len(Stream(script)) = R(script) + Len(m) + Len(BehindOf(script))
          BY <2>3
        <5>3. R(script) \in Nat
          BY <1>6
        <5> QED
          BY <4>2, <5>1, <5>2, <5>3
      <4>4. Sent(script, "request_sent", R(script) + Len(m))
        BY <4>3 DEF Sent
      <4> QED
        BY <1>1, <1>3, <1>6, <2>3, <2>5, <4>1, <4>3, <4>4, AtSays
    <3> QED
      BY <1>2, <1>8, <2>5, <3>2, ClientInv
  <2> QED
    BY <2>6, <2>7
<1>9. CASE Says(<<>>, "gone")
  BY <1>2, <1>5, <1>9, SilentInv
<1>10. CASE client \in {"request_sent", "all_sent"} /\ Says(<<>>, "served")
  BY <1>2, <1>5, <1>10, SilentInv
<1> QED
  BY <1>7, <1>8, <1>9, <1>10 DEF ClientSpeaks

\* ClientGoes.
LEMMA ClientGoesInv == ASSUME HandshakeInv, ClientGoes PROVE HandshakeInv'
BY SilentInv DEF ClientGoes

------------------------------------------------------------------------------
(* The theorems.                                                           *)

\* An accepted connection is at the beginning of the stream of its client.
LEMMA InitInv == ASSUME Init PROVE HandshakeInv
<1>1. script \in Script
  BY DEF Init
<1>2. /\ MessagesAre(Stream(script), script, G(script), R(script)) /\ G(script) \in Nat
      /\ StreamIs(Stream(script), script, G(script), R(script), H(script),
                  Len(script.host.bytes), BehindOf(script))
  BY <1>1, StreamFacts
<1>3. PICK F, gr : F = Stream(script) /\ gr = GreetingOf(script)
  OBVIOUS
<1>4. /\ gr \in Bytes /\ Len(gr) = G(script) /\ (\A i \in 1..G(script) : F[i] = gr[i])
      /\ F \in Bytes
  BY <1>2, <1>3 DEF MessagesAre, StreamIs
<1>5. /\ buf = <<>> /\ Len(buf) = 0 /\ buf \in Bytes /\ <<>> \in Bytes
  BY DEF Init, Bytes
<1>6. wire \in Bytes /\ client \in {"greeting_sent", "all_sent"} /\ Here(0)
  <2>1. CASE script.mode = "lockstep"
    <3>1. client = "greeting_sent" /\ wire = gr
      BY <1>3, <2>1 DEF Init, Greeting, GreetingOf
    <3>2. 0 + Len(buf) + Len(wire) = G(script)
      BY <1>2, <1>4, <1>5, <3>1
    <3>3. ASSUME NEW i \in 1..Len(wire) PROVE wire[i] = F[0 + Len(buf) + i]
      <4>1. i \in 1..G(script) /\ 0 + Len(buf) + i = i
        BY <1>2, <1>4, <1>5, <3>1
      <4> QED
        BY <1>4, <3>1, <4>1
    <3>4. Sent(script, client, 0 + Len(buf) + Len(wire))
      BY <2>1, <3>1, <3>2 DEF Sent
    <3>5. Here(0)
      BY <1>3, <1>5, <3>3, <3>4 DEF Here, At
    <3> QED
      BY <1>4, <3>1, <3>5
  <2>2. CASE script.mode # "lockstep"
    <3>a. Auth = AuthOf(script)
      BY <1>1, MethodFacts, SMTT(30) DEF Auth, AuthOf
    <3>1. client = "all_sent" /\ wire = F
      BY <1>3, <2>2, <3>a, ZenonT(30)
         DEF Init, Greeting, Request, RequestHeader, HostField, Stream, GreetingOf,
             RequestOf, HeaderOf, HostOf, BehindOf
    <3>2. Len(F) \in Nat
      BY <1>4, ByteFacts
    <3>3. 0 + Len(buf) + Len(wire) = Len(F)
      BY <1>5, <3>1, <3>2
    <3>4. ASSUME NEW i \in 1..Len(wire) PROVE wire[i] = F[0 + Len(buf) + i]
      <4>1. 0 + Len(buf) + i = i
        BY <1>5, <3>1, <3>2
      <4> QED
        BY <3>1, <4>1
    <3>5. Sent(script, client, 0 + Len(buf) + Len(wire))
      BY <1>3, <3>1, <3>3 DEF Sent
    <3>6. Here(0)
      BY <1>3, <1>5, <3>4, <3>5 DEF Here, At
    <3> QED
      BY <1>4, <3>1, <3>6, SMTT(30)
  <2> QED
    BY <2>1, <2>2
<1>7. /\ state = "GREETING" /\ sub = "VER_N_NMETHODS" /\ n = 0 /\ username = <<>>
      /\ answer = 256 /\ out = 0 /\ target = [host |-> <<>>, port |-> <<>>] /\ split = 0
  BY DEF Init, None
<1>8. target \in [host : Bytes, port : Bytes]
  BY <1>5, <1>7
<1>9. TypeOK
  BY <1>5, <1>6, <1>7, <1>8 DEF TypeOK
<1> QED
  BY <1>1, <1>6, <1>7, <1>9 DEF HandshakeInv, GreetingInv, AuthInv, RequestInv, TargetInv

\* Every step keeps the parsers in the stream.
LEMMA NextInv == ASSUME HandshakeInv, [Next]_vars PROVE HandshakeInv'
<1>1. CASE Next
  <2>1. CASE greeting_read
    BY <2>1, GreetingReadInv
  <2>2. CASE auth_read
    BY <2>2, AuthReadInv
  <2>3. CASE request_header
    BY <2>3, RequestHeaderInv
  <2>4. CASE request_address
    BY <2>4, RequestAddressInv
  <2>5. CASE answer_write
    BY <2>5, AnswerWriteInv
  <2>6. CASE reply_write
    BY <2>6, ReplyWriteInv
  <2>7. CASE recv_fails
    BY <2>7, RecvFailsInv
  <2>8. CASE ClientSpeaks
    BY <2>8, ClientSpeaksInv
  <2>9. CASE ClientGoes
    BY <2>9, ClientGoesInv
  <2>10. ASSUME UNCHANGED vars PROVE HandshakeInv'
    BY <2>10, SMTT(30) DEF HandshakeInv, TypeOK, GreetingInv, AuthInv, RequestInv, TargetInv, Here,
                 TargetIsRequested, Admitted, vars, parserVars
  <2> QED
    BY <1>1, <2>1, <2>2, <2>3, <2>4, <2>5, <2>6, <2>7, <2>8, <2>9, <2>10
       DEF Next, Serve, request_read, Rest
<1>2. CASE UNCHANGED vars
  BY <1>2, SMTT(30) DEF HandshakeInv, TypeOK, GreetingInv, AuthInv, RequestInv, TargetInv, Here,
              TargetIsRequested, Admitted, vars, parserVars
<1> QED
  BY <1>1, <1>2

\* The parsers of a connection are in the stream of its client.
LEMMA HandshakeSafe == Spec => []HandshakeInv
<1>1. Init => HandshakeInv
  BY InitInv
<1>2. HandshakeInv /\ [Next]_vars => HandshakeInv'
  BY NextInv
<1> QED
  BY <1>1, <1>2, PTL DEF Spec

\* The variables of greeting.c, auth.c and request.c keep their types: a length
\* and an answer stay bytes, and the buffer holds bytes.
THEOREM HandshakeTypes == Spec => []TypeOK
<1>1. HandshakeInv => TypeOK
  BY DEF HandshakeInv
<1> QED
  BY <1>1, HandshakeSafe, PTL

\* greeting_read answers as the whole list of methods calls for, and auth_read as
\* the credentials do, however the stream is cut.
THEOREM AnswersAreRight == Spec => []AnswersFollowMessages
<1>1. HandshakeInv => AnswersFollowMessages
  BY MethodFacts
     DEF HandshakeInv, GreetingInv, AuthInv, AnswersFollowMessages, Method, Verdict
<1> QED
  BY <1>1, HandshakeSafe, PTL

\* Once greeting_read has chosen to authenticate a client, request_read reaches a
\* target for it only if auth_read has found its credentials right, unless methods
\* were left over in the buffer.
THEOREM NoWayAround == Spec => [](MethodsLeftOver \/ ChosenAuthIsRequired)
<1>1. HandshakeInv => MethodsLeftOver \/ ChosenAuthIsRequired
  BY MethodFacts
     DEF HandshakeInv, TargetInv, Admitted, ChosenAuthIsRequired, Verdict, AUTH_SUCCESS,
         AUTH_FAILURE
<1> QED
  BY <1>1, HandshakeSafe, PTL

\* The target is the one of the request, and what is relayed begins behind it,
\* unless methods were left over in the buffer.
THEOREM TargetIsRight == Spec => [](MethodsLeftOver \/ TargetIsRequested)
<1>1. HandshakeInv => MethodsLeftOver \/ TargetIsRequested
  BY MethodFacts DEF HandshakeInv, TargetInv, TargetIsRequested
<1> QED
  BY <1>1, HandshakeSafe, PTL
=============================================================================
