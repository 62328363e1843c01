------------------------------- MODULE Queue ---------------------------------
(***************************************************************************)
(* The queue of src/src/shared/queue.c: a singly linked list of nodes from *)
(* `first' to `last', of at most max_capacity elements, that makes room    *)
(* for a new element by dropping its oldest.                               *)
(*                                                                         *)
(* A queue is a record of its fields and of the nodes of memory it may     *)
(* use: a node that is not allocated holds Free.  Which of the free nodes  *)
(* malloc returns is of no importance, because no code compares addresses; *)
(* it is the least one, so that a node freed is soon handed out again.     *)
(***************************************************************************)
EXTENDS Integers, Sequences

CONSTANT max_capacity

ASSUME CapacityAssumption == max_capacity \in Nat \ {0}

NULL == 0
Node == 1..max_capacity + 1     \* enqueue allocates before it drops
Free == -1                      \* not an element

Queue(Elem) ==
  [first : Node \cup {NULL}, last : Node \cup {NULL}, size : 0..max_capacity,
   next : [Node -> Node \cup {NULL}], data : [Node -> Elem \cup {Free}]]

create_queue ==
  [first |-> NULL, last |-> NULL, size |-> 0,
   next |-> [n \in Node |-> NULL], data |-> [n \in Node |-> Free]]

\* (Mutant) `last' is left behind when the list runs empty.
DequeueKeepsLast(q) ==
  [q EXCEPT !.first = q.next[@],
            !.size = @ - 1,
            !.next[q.first] = NULL,
            !.data[q.first] = Free]

\* Of a queue that is not empty; what it returns is Peek.
dequeue(q) ==
  [q EXCEPT !.first = q.next[@],
            !.last = IF q.next[q.first] = NULL THEN NULL ELSE @,
            !.size = @ - 1,
            !.next[q.first] = NULL,
            !.data[q.first] = Free]

queue_peek(q) == q.data[q.first]

malloc(q) == CHOOSE n \in Node : q.data[n] = Free /\ \A k \in 1..n - 1 : q.data[k] # Free

\* The node is linked behind `last', or is the first one of an empty list.
Link(q, n) ==
  [q EXCEPT !.first = IF q.last = NULL THEN n ELSE @,
            !.next = [k \in Node |-> IF k = q.last THEN n ELSE @[k]],
            !.last = n,
            !.size = @ + 1]

IsFull(q) == q.size >= max_capacity

enqueue(q, d) ==
  LET n == malloc(q)
      stored == [q EXCEPT !.data[n] = d, !.next[n] = NULL]
  IN  Link(IF IsFull(q) THEN dequeue(stored) ELSE stored, n)

\* The elements in the order the links give them.
Contents(q) ==
  LET node[k \in 1..q.size] ==
        IF k = 1 THEN q.first
        ELSE IF node[k - 1] = NULL THEN NULL ELSE q.next[node[k - 1]]
  IN  [k \in 1..q.size |-> IF node[k] = NULL THEN Free ELSE q.data[node[k]]]
==============================================================================
