------------------------------- MODULE Logger --------------------------------
(***************************************************************************)
(* The logger (src/src/server/logger.c): records are formatted and queued  *)
(* by whoever logs, and written one at a time by a handler of the selector *)
(* when its descriptor is writable.  Signals (server.c, signal_handler)    *)
(* interrupt the single thread that does both.                             *)
(*                                                                         *)
(* A record is its number, logAlwaysIncrementalId.  A record that is       *)
(* neither in the queue nor in `output' is in one of the ghosts: dropped   *)
(* by the queue, torn by a write that took a part of it or nothing, or     *)
(* lost: given to a queue or to a descriptor that is no longer there.      *)
(***************************************************************************)
EXTENDS Queue, FiniteSets, SequencesExt

CONSTANT MaxLogs    \* bound: records logged but for the last, of level FATAL

\* MAX_LOG_QUEUE_SIZE is a setting of the build; below 3 the remainder that
\* decides on the wake-up divides by zero.
ASSUME QueueAssumption == max_capacity >= 3
ASSUME MaxLogsAssumption == MaxLogs \in Nat \ {0}     \* logger_init may log one

Every == max_capacity \div 3

NoRecord == -1

VARIABLES
  pc,           \* "start", "loop", "formatted", "taken" (in a handler) or "over"
  logQueue,     \* the queue, of which there is none once `freed'
  freed,        \* 1 once logQueue is NULL, else 0
  logId,        \* logAlwaysIncrementalId
  record,       \* formattedMsg or currentLog: the record in hand
  logFile,      \* "stdout", "file" or "closed" (-1)
  writer,       \* the descriptor in the selector: "none", "OP_WRITE" or "OP_NOOP"
  done,         \* 1 once signal_handler has run to its end, else 0
  output,       \* the records written, in that order
  dropped, torn, lost

ghosts == <<output, dropped, torn, lost>>
vars == <<pc, logQueue, freed, logId, record, logFile, writer, done, ghosts>>

Pending == Contents(logQueue)

queue_size == IF freed = 1 THEN 0 ELSE logQueue.size

------------------------------------------------------------------------------
(* Logging.                                                                *)

\* format_log_message, the first half of logger_log_message_deferred: the
\* record has its number.  Without a queue the call returns at once.
format_log_message ==
  /\ pc = "loop" /\ freed = 0 /\ logId < MaxLogs
  /\ record' = logId /\ logId' = logId + 1
  /\ pc' = "formatted"
  /\ UNCHANGED <<logQueue, freed, logFile, writer, done, ghosts>>

\* logger_register_selector, called every so many records.  It does not get
\* past selector_fd_set_nio when the file is closed.
Wake(id) ==
  IF writer # "none" /\ id % Every = 0 /\ logFile # "closed" THEN "OP_WRITE" ELSE writer

\* The second half: enqueue (of nothing, when a signal has freed the queue in
\* between) and the wake-up.
log_message ==
  /\ pc = "formatted"
  /\ IF freed = 1
     THEN lost' = lost \cup {record} /\ UNCHANGED <<logQueue, dropped>>
     ELSE /\ logQueue' = enqueue(logQueue, record)
          /\ dropped' = IF IsFull(logQueue) THEN dropped \cup {queue_peek(logQueue)} ELSE dropped
          /\ UNCHANGED lost
  /\ writer' = Wake(logId)
  /\ record' = NoRecord /\ pc' = "loop"
  /\ UNCHANGED <<freed, logId, logFile, done, output, torn>>

------------------------------------------------------------------------------
(* Writing.  The loop of write_logs_deferred writes one record for a call: *)
(* its second round finds toRead # 0 and leaves.                           *)

\* logger_unregister_selector fails when the file is closed.
Sleep == IF logFile = "closed" THEN writer ELSE "OP_NOOP"

\* (Mutant) The record is looked at and stays in the queue.
TakePeek(q) == q

Taken(q) == dequeue(q)

\* write_logs_deferred up to the call of write.
write_logs_take ==
  /\ pc = "loop" /\ writer = "OP_WRITE" /\ queue_size > 0
  /\ record' = queue_peek(logQueue) /\ logQueue' = Taken(logQueue)
  /\ pc' = "taken"
  /\ UNCHANGED <<freed, logId, logFile, writer, done, ghosts>>

write_logs_idle ==
  /\ pc = "loop" /\ writer = "OP_WRITE" /\ queue_size = 0
  /\ writer' = Sleep
  /\ UNCHANGED <<pc, logQueue, freed, logId, record, logFile, done, ghosts>>

\* (Mutant) The writer is put to sleep after every record written whole.
SleepAlways == Sleep

SleepIfDrained == IF queue_size = 0 THEN Sleep ELSE writer

\* The call of write and the rest: all of the record, or a part of it or
\* nothing, in which case the rest of it is forgotten.
WriteWhole ==
  /\ logFile # "closed"
  /\ output' = Append(output, record) /\ writer' = SleepIfDrained
  /\ UNCHANGED <<torn, lost>>

WritePart ==
  /\ logFile # "closed"
  /\ torn' = torn \cup {record} /\ UNCHANGED <<output, writer, lost>>

WriteFails ==
  /\ logFile = "closed"
  /\ lost' = lost \cup {record} /\ UNCHANGED <<output, writer, torn>>

write_logs_write ==
  /\ pc = "taken"
  /\ WriteWhole \/ WritePart \/ WriteFails
  /\ record' = NoRecord /\ pc' = "loop"
  /\ UNCHANGED <<logQueue, freed, logId, logFile, done, dropped>>

------------------------------------------------------------------------------
(* The end.                                                                *)

\* The loop of flush_all_logs over the records of s, of which write takes some whole.
Flushed(s, whole) ==
  LET after[k \in 0..Len(s)] ==
        IF k = 0 THEN <<>>
        ELSE IF s[k] \in whole THEN Append(after[k - 1], s[k]) ELSE after[k - 1]
  IN  after[Len(s)]

\* flush_all_logs, of the records of s, to an open descriptor: some of them may
\* not be taken whole.
FlushTo(s) ==
  \E whole \in SUBSET ToSet(s) :
    /\ output' = output \o Flushed(s, whole)
    /\ torn' = torn \cup (ToSet(s) \ whole)
    /\ UNCHANGED lost

\* flush_all_logs to a descriptor that free_logger has closed.
FlushToNowhere(s) == lost' = lost \cup ToSet(s) /\ UNCHANGED <<output, torn>>

FlushWhereOpen(s) == IF logFile = "file" THEN FlushToNowhere(s) ELSE FlushTo(s)

\* What is queued after a last record has been logged.
WithLast == enqueue(logQueue, logId)
LastDropped == IF IsFull(logQueue) THEN {queue_peek(logQueue)} ELSE {}

\* free_logger: the queue is gone, and the file closed.
free_logger ==
  /\ freed' = 1 /\ logQueue' = create_queue
  /\ logFile' = IF logFile = "stdout" THEN logFile ELSE "closed"

\* (Mutant) The handler relies on the flush of free_logger, which has closed
\* the file.
SignalFlush(s) == FlushWhereOpen(s)

\* signal_handler's own flush_all_logs comes before free_logger.
FlushFirst(s) == FlushTo(s)

\* signal_handler, between two operations on the queue.  A second signal finds no
\* queue and does nothing.
signal_handler ==
  /\ pc \in {"loop", "formatted", "taken"} /\ done = 0
  /\ logId' = logId + 1
  /\ FlushFirst(Contents(WithLast))
  /\ dropped' = dropped \cup LastDropped
  /\ free_logger
  /\ writer' = Wake(logId + 1)
  /\ done' = 1
  /\ UNCHANGED <<pc, record>>

\* signal_handler in the middle of an enqueue, whose node is linked and not yet
\* counted: flush_all_logs stops one short of the end, and free_queue throws the
\* handler's own record away.  What enqueue still adds to the freed queue changes
\* nothing.  (A node that is not yet `last' is overwritten by the handler's: the
\* record is lost as in log_message after signal_handler.)
signal_in_enqueue ==
  LET flushed == Contents(enqueue(logQueue, record)) IN
  /\ pc = "formatted" /\ done = 0
  /\ logId' = logId + 1
  /\ \E whole \in SUBSET ToSet(flushed) :
       /\ output' = output \o Flushed(flushed, whole)
       /\ torn' = torn \cup (ToSet(flushed) \ whole)
  /\ lost' = lost \cup {logId}
  /\ dropped' = dropped \cup LastDropped
  /\ free_logger
  /\ writer' = Wake(logId + 1)
  /\ done' = 1 /\ record' = NoRecord /\ pc' = "loop"

\* signal_handler in the middle of a dequeue, that of the writer or of an enqueue
\* without room, or of a malloc or a free.  With `first' moved and the size as it
\* was, the flush runs past the end of the list; with `first' not moved yet, dequeue
\* goes on in memory that the handler has freed; just in front of the dequeue of
\* write_logs_deferred, currentLog stays NULL.  The process dies, and what was not
\* written until then is lost with it.
signal_in_dequeue ==
  LET unwritten == Contents(WithLast) IN
  /\ pc = "formatted" \/ (pc = "loop" /\ writer = "OP_WRITE" /\ queue_size > 0)
  /\ done = 0
  /\ logId' = logId + 1
  /\ \E whole \in SUBSET ToSet(unwritten) :
       /\ output' = output \o Flushed(unwritten, whole)
       /\ lost' = lost \cup (ToSet(unwritten) \ whole) \cup ({record} \ {NoRecord})
  /\ dropped' = dropped \cup LastDropped
  /\ free_logger
  /\ pc' = "over" /\ writer' = "none" /\ record' = NoRecord
  /\ UNCHANGED <<torn, done>>

\* The end of main after an error: LOG_FATAL and free_logger.
FatalError ==
  /\ freed = 0
  /\ logId' = logId + 1
  /\ FlushWhereOpen(Contents(WithLast))
  /\ dropped' = dropped \cup LastDropped
  /\ free_logger
  /\ pc' = "over" /\ writer' = "none"
  /\ UNCHANGED <<record, done>>

\* selector_select fails, in an iteration without a signal.
serving_error == pc = "loop" /\ done = 0 /\ FatalError

\* The loop of main ends; selector_destroy unregisters the descriptor.
finally ==
  /\ pc = "loop" /\ done = 1
  /\ pc' = "over" /\ writer' = "none"
  /\ UNCHANGED <<logQueue, freed, logId, record, logFile, done, ghosts>>

------------------------------------------------------------------------------
\* logger_init.  With no file, or one that cannot be opened, it logs a record.
Init ==
  /\ pc = "start" /\ freed = 0 /\ record = NoRecord /\ writer = "none" /\ done = 0
  /\ \/ logFile = "file" /\ logQueue = create_queue /\ logId = 0
     \/ logFile = "stdout" /\ logQueue = enqueue(create_queue, 0) /\ logId = 1
  /\ output = <<>> /\ dropped = {} /\ torn = {} /\ lost = {}

\* logger_register_selector, called by main.
logger_register_selector ==
  /\ pc = "start"
  /\ \/ pc' = "loop" /\ writer' = "OP_WRITE"
        /\ UNCHANGED <<logQueue, freed, logId, record, logFile, done, ghosts>>
     \/ FatalError

Log == format_log_message \/ log_message
write_logs_deferred == write_logs_take \/ write_logs_write \/ write_logs_idle

\* Nothing more happens in the process that has ended, or in one that is not
\* asked to log and is not stopped.
Rest == (pc = "over" \/ (pc = "loop" /\ writer # "OP_WRITE")) /\ UNCHANGED vars

Next ==
  \/ logger_register_selector \/ Log \/ write_logs_deferred
  \/ signal_handler \/ signal_in_enqueue \/ signal_in_dequeue
  \/ serving_error \/ finally \/ Rest

\* The thread goes on with what it has begun, and the descriptor of the log is
\* writable again and again: whoever reads it goes on reading.
Fairness == WF_vars(log_message) /\ WF_vars(write_logs_deferred)

Spec == Init /\ [][Next]_vars /\ Fairness

------------------------------------------------------------------------------
Record == 0..MaxLogs

Promised == INSTANCE AbstractLog WITH pending <- Pending, Limit <- max_capacity

TypeOK ==
  /\ pc \in {"start", "loop", "formatted", "taken", "over"}
  /\ logQueue \in Queue(Record) /\ freed \in 0..1
  /\ logId \in 0..MaxLogs + 1
  /\ record \in Record \cup {NoRecord}
  /\ logFile \in {"stdout", "file", "closed"}
  /\ writer \in {"none", "OP_WRITE", "OP_NOOP"} /\ done \in 0..1
  /\ output \in Seq(Record)
  /\ dropped \subseteq Record /\ torn \subseteq Record /\ lost \subseteq Record

\* The linked list of queue.c, with its dangling-prone `last' and its reuse of
\* nodes, behaves as the bounded log that forgets its oldest record.
ImplementsLog == Promised!Spec

\* A record is dropped only while the writer is awake and cannot keep up: never
\* because write_logs_deferred was left asleep.
DropsOnlyUnderLoad ==
  [][dropped' # dropped => writer = "OP_WRITE" \/ pc = "start"]_vars

\* The log is in order: records are written by increasing numbers, each at most
\* once.  The one exception is the record a signal finds in the writer's hands,
\* which follows the last words of signal_handler.
OutputInOrder ==
  \A i, j \in 1..Len(output) :
    i < j => output[i] < output[j] \/ (done = 1 /\ j = Len(output) /\ output[i] # output[j])

\* No record disappears: each number given is, exactly once, in the output, in
\* the queue, in hand, or known to be dropped, torn or lost.  A signal that the
\* process survives loses at most one, in hand when it came or the handler's own: all
\* that were queued are written before free_logger closes the file.
RecordsAccounted ==
  LET places == <<ToSet(output), IF freed = 1 THEN {} ELSE ToSet(Pending),
                  {record} \ {NoRecord}, dropped, torn, lost>>
  IN  /\ UNION ToSet(places) = 0..logId - 1
      /\ \A i, j \in 1..Len(places) : i # j => places[i] \cap places[j] = {}
      /\ done = 1 => Cardinality(lost) <= 1

\* No record is held back for more than MAX_LOG_QUEUE_SIZE / 3 later ones: once
\* so many have been logged, it leaves the queue.
HeldBackNoLonger ==
  \A r \in Record :
    []<>(logId < r + Every \/ r \notin ToSet(Pending))
==============================================================================
