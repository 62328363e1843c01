------------------------------- MODULE Buffer --------------------------------
(***************************************************************************)
(* src/src/shared/buffer.c: a byte buffer with a read and a write pointer  *)
(* into fixed storage.  Pointers are offsets from `data' (0..Cap), so the  *)
(* limit is Cap; data[i] is the byte at offset i - 1.                      *)
(***************************************************************************)
EXTENDS ByteQueue

CONSTANT Byte   \* the values a byte takes; buffer_read returns 0 when empty

ASSUME ByteAssumption == 0 \in Byte

VARIABLES
  data,     \* the storage handed to buffer_init
  read,     \* the read pointer
  write,    \* the write pointer
  ret,      \* what the last buffer_read returned
  proc      \* "up", or "aborted": an assert failed (the build keeps asserts)

vars == <<data, read, write, ret, proc>>

Init ==
  /\ data = [i \in 1..Cap |-> 0]
  /\ read = 0 /\ write = 0
  /\ ret = 0 /\ proc = "up"

buffer_can_write == Cap - write > 0

buffer_can_read == write - read > 0

\* (Mutant) A compaction that moves one byte too few.
MovedShort == [i \in 1..Cap |-> IF i < write - read THEN data[read + i] ELSE data[i]]

\* memmove(b->data, b->read, write - read)
Moved == [i \in 1..Cap |-> IF i <= write - read THEN data[read + i] ELSE data[i]]

\* The storage once s has been copied to the write pointer.
Stored(s) == [i \in 1..Cap |->
                IF i \in write + 1 .. write + Len(s) THEN s[i - write] ELSE data[i]]

\* buffer_compact
buffer_compact ==
  /\ proc = "up"
  /\ data' = IF read = 0 \/ read = write THEN data ELSE Moved
  /\ read' = 0
  /\ write' = write - read
  /\ UNCHANGED <<ret, proc>>

\* buffer_reset
buffer_reset ==
  /\ proc = "up"
  /\ read' = 0 /\ write' = 0
  /\ UNCHANGED <<data, ret, proc>>

\* A caller fills what buffer_write_ptr offered (recv, memcpy) and reports it
\* with buffer_write_adv; a caller never copies more than it was offered.
buffer_write_adv(s) ==
  /\ proc = "up"
  /\ Len(s) <= Cap - write
  /\ data' = Stored(s)
  /\ write' = write + Len(s)
  /\ UNCHANGED <<read, ret, proc>>

\* The pointer move of buffer_read_adv, with the compaction of a drained buffer.
Consume(n) ==
  IF read + n = write
  THEN read' = 0 /\ write' = 0
  ELSE read' = read + n /\ UNCHANGED write

\* (Mutant) buffer_read_adv without its assert.
ReadAdvUnchecked(n) ==
  /\ proc = "up"
  /\ Consume(n)
  /\ UNCHANGED <<data, ret, proc>>

\* buffer_read_adv; callers do pass more than there is (pamRequest.c), and the
\* assert then ends the process.
buffer_read_adv(n) ==
  /\ proc = "up"
  /\ IF read + n <= write
     THEN Consume(n) /\ UNCHANGED proc
     ELSE proc' = "aborted" /\ UNCHANGED <<read, write>>
  /\ UNCHANGED <<data, ret>>

\* buffer_write: one byte, dropped without a word when the buffer is full.
buffer_write(c) ==
  /\ proc = "up"
  /\ IF buffer_can_write
     THEN data' = Stored(<<c>>) /\ write' = write + 1
     ELSE UNCHANGED <<data, write>>
  /\ UNCHANGED <<read, ret, proc>>

\* buffer_read: one byte, 0 when there is none.
buffer_read ==
  /\ proc = "up"
  /\ IF buffer_can_read
     THEN ret' = data[read + 1] /\ Consume(1)
     ELSE ret' = 0 /\ UNCHANGED <<read, write>>
  /\ UNCHANGED <<data, proc>>

Next ==
  \/ \E n \in 0..Cap : \E s \in [1..n -> Byte] : buffer_write_adv(s)
  \/ \E n \in 0..Cap : buffer_read_adv(n)
  \/ \E c \in Byte : buffer_write(c)
  \/ buffer_read
  \/ buffer_compact
  \/ buffer_reset

Spec == Init /\ [][Next]_vars

------------------------------------------------------------------------------
TypeOK ==
  /\ data \in [1..Cap -> Byte]
  /\ read \in 0..Cap /\ write \in 0..Cap
  /\ ret \in Byte
  /\ proc \in {"up", "aborted"}

\* The invariant buffer.h states, R <= W <= limit, after any sequence of
\* operations: no pointer leaves the storage and none passes the other.  And
\* buffer_read_adv rewinds a drained buffer: an empty one always offers its whole
\* storage, so a relay that drains a buffer can always read again.
PointersOrdered ==
  /\ read <= write /\ write <= Cap
  /\ read = write => read = 0

\* The bytes between the pointers, as the queue the callers see.
Contents == [q |-> SubSeq(data, read + 1, write), start |-> read]

Queued == INSTANCE AbstractBuffer WITH buf <- Contents

\* Every operation on the pointers is the queue operation its caller expects:
\* no byte is lost, repeated or reordered by the memmove or the rewinding.
ImplementsQueue == Queued!Spec

==============================================================================
