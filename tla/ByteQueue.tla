------------------------------ MODULE ByteQueue ------------------------------
(***************************************************************************)
(* The byte buffers of the proxy (src/src/shared/buffer.c) as their        *)
(* callers see them: the unread bytes in order, and how far into the       *)
(* storage the first of them lies.  The offset is kept because a buffer is *)
(* not a ring: the bytes before the read pointer cannot be filled again    *)
(* until the buffer is rewound, so the room a caller sees depends on it.   *)
(* Module Buffer has the pointers and is shown to implement this view.     *)
(***************************************************************************)
EXTENDS Integers, Sequences

CONSTANT Cap    \* the n of buffer_init: the bytes of storage of a buffer

ASSUME CapAssumption == Cap \in Nat \ {0}

\* A buffer: its unread bytes q, and the offset of the first of them.  They lie
\* within the storage, and a buffer without any is rewound.
Queue(S) == {b \in [q : Seq(S), start : 0..Cap] :
               /\ b.start + Len(b.q) <= Cap
               /\ b.q = <<>> => b.start = 0}

EmptyQueue == [q |-> <<>>, start |-> 0]

\* (Mutant) The room of a ring, forgetting the bytes before the read pointer.
RoomOfRing(b) == Cap - Len(b.q)

\* What buffer_write_ptr reports: the bytes between the write pointer and the limit.
Room(b) == Cap - (b.start + Len(b.q))

CanWrite(b) == Room(b) > 0

CanRead(b) == Len(b.q) > 0

\* Filling the region of buffer_write_ptr with s, then buffer_write_adv(Len(s)).
Put(b, s) == [q |-> b.q \o s, start |-> b.start]

\* buffer_read_adv: n bytes are consumed; a drained buffer is rewound.
Advance(b, n) ==
  IF n = Len(b.q)
  THEN EmptyQueue
  ELSE [q |-> SubSeq(b.q, n + 1, Len(b.q)), start |-> b.start + n]
==============================================================================
