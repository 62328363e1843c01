--------------------------- MODULE AbstractBuffer ----------------------------
(***************************************************************************)
(* What buffer.c promises its callers: a bounded first-in first-out queue  *)
(* of bytes that gets its whole room back when it is drained, compacted or *)
(* reset.  One action per operation of src/src/shared/include/buffer.h.    *)
(***************************************************************************)
EXTENDS ByteQueue

CONSTANT Byte   \* the values a byte takes; buffer_read returns 0 when empty

VARIABLES
  buf,      \* the buffer, as a queue with an offset
  ret,      \* what the last buffer_read returned
  proc      \* "up", or "aborted": an assert of buffer.c failed and the process is gone

vars == <<buf, ret, proc>>

Init == buf = EmptyQueue /\ ret = 0 /\ proc = "up"

Fill(s) ==
  /\ proc = "up"
  /\ Len(s) <= Room(buf)
  /\ buf' = Put(buf, s)
  /\ UNCHANGED <<ret, proc>>

ReadAdv(n) ==
  /\ proc = "up"
  /\ IF n <= Len(buf.q)
     THEN buf' = Advance(buf, n) /\ UNCHANGED proc
     ELSE proc' = "aborted" /\ UNCHANGED buf
  /\ UNCHANGED ret

WriteByte(c) ==
  /\ proc = "up"
  /\ buf' = IF CanWrite(buf) THEN Put(buf, <<c>>) ELSE buf
  /\ UNCHANGED <<ret, proc>>

ReadByte ==
  /\ proc = "up"
  /\ IF CanRead(buf)
     THEN ret' = Head(buf.q) /\ buf' = Advance(buf, 1)
     ELSE ret' = 0 /\ UNCHANGED buf
  /\ UNCHANGED proc

Compact ==
  /\ proc = "up"
  /\ buf' = [buf EXCEPT !.start = 0]
  /\ UNCHANGED <<ret, proc>>

Reset ==
  /\ proc = "up"
  /\ buf' = EmptyQueue
  /\ UNCHANGED <<ret, proc>>

Next ==
  \/ \E n \in 0..Cap : \E s \in [1..n -> Byte] : Fill(s)
  \/ \E n \in 0..Cap : ReadAdv(n)
  \/ \E c \in Byte : WriteByte(c)
  \/ ReadByte
  \/ Compact
  \/ Reset

Spec == Init /\ [][Next]_vars
==============================================================================
