----------------------------- MODULE FileTracer -----------------------------
(***************************************************************************)
(* FileTracer (src/src/tracing.cpp, POSIX build): a JSON Lines file shared *)
(* by the threads of any number of generations.  The line is dumped before *)
(* mutex is taken; limit check, fwrite, optional fflush and the update of  *)
(* bytes_written happen under it.  stdio keeps a buffer between the tracer *)
(* and the file and passes on any prefix of it when it likes; a write or a *)
(* flush may fail half way; the process may crash and open the file again. *)
(***************************************************************************)
EXTENDS Integers, Sequences

CONSTANTS
    Threads, NoThread,  \* threads that record events
    Sizes,              \* sizes of lines, newline included
    Limits,             \* values of FileTracerOptions::max_bytes
    MaxEvents,          \* bound: events recorded
    MaxOpens            \* bound: FileTracer objects constructed, one by one

ASSUME ThreadsAssumption == NoThread \notin Threads
ASSUME SizesAssumption == Sizes \subseteq Nat \ {0}
ASSUME LimitsAssumption == Limits \subseteq Nat /\ 0 \in Limits
ASSUME FileBounds == MaxEvents \in Nat /\ MaxOpens \in Nat

VARIABLES
    disk,           \* the bytes of the file
    buffer,         \* the bytes in the FILE object
    options,        \* FileTracerOptions of the current object
    open, opens,    \* is there an object; how many were constructed
    bytes_written,
    mutex,          \* the thread that holds it, or NoThread
    pc,             \* [Threads -> place in record]
    line,           \* [Threads -> the event being recorded and its size]
    events,         \* number of events so far
    outcome,        \* history: how the last record of each thread ended
    initial,        \* history: size of the file when it was opened
    failed,         \* history: did a write or flush fail since then
    kept            \* history: events accepted by objects that flush each event

file == <<disk, buffer>>
object == <<options, open, opens, initial>>
vars == <<file, object, bytes_written, mutex, pc, line, events, outcome,
          failed, kept>>

Options == [append : BOOLEAN, flush_each_event : BOOLEAN, max_bytes : Limits]
Defaults == [append |-> TRUE, flush_each_event |-> FALSE, max_bytes |-> 0]

NoEvent == [id |-> 0, size |-> 1]

\* A byte is known by its event and its position in that event's line.
Line(e) == [k \in 1..e.size |-> [event |-> e.id, at |-> k, last |-> k = e.size]]
Prefix(s, n) == SubSeq(s, 1, n)
Suffix(s, n) == SubSeq(s, n + 1, Len(s))

\* The stream holds bytes and has passed on any number of them.
Holds(bytes) ==
    \E n \in 0..Len(bytes) :
        disk' = disk \o Prefix(bytes, n) /\ buffer' = Suffix(bytes, n)

\* After an error the C library keeps the rest or drops it.
HoldsOrDrops(bytes) ==
    \/ Holds(bytes)
    \/ \E n \in 0..Len(bytes) :
          disk' = disk \o Prefix(bytes, n) /\ buffer' = <<>>

Init ==
    /\ disk = <<>> /\ buffer = <<>>
    /\ options = Defaults
    /\ open = FALSE /\ opens = 0
    /\ bytes_written = 0
    /\ mutex = NoThread
    /\ pc = [t \in Threads |-> "idle"]
    /\ line = [t \in Threads |-> NoEvent]
    /\ events = 0
    /\ outcome = [t \in Threads |-> "none"]
    /\ initial = 0
    /\ failed = FALSE
    /\ kept = <<>>

\* Faulty: an appending tracer starts to count from zero.
OpenFromZero ==
    /\ ~open
    /\ opens < MaxOpens
    /\ options' \in Options
    /\ disk' = IF options'.append THEN disk ELSE <<>>
    /\ kept' = IF options'.append THEN kept ELSE <<>>
    /\ bytes_written' = 0
    /\ initial' = Len(disk')
    /\ open' = TRUE
    /\ opens' = opens + 1
    /\ failed' = FALSE
    /\ UNCHANGED <<buffer, mutex, pc, line, events, outcome>>

Open ==
    /\ ~open
    /\ opens < MaxOpens
    /\ options' \in Options
    /\ disk' = IF options'.append THEN disk ELSE <<>>
    /\ kept' = IF options'.append THEN kept ELSE <<>>
    /\ bytes_written' = Len(disk')
    /\ initial' = Len(disk')
    /\ open' = TRUE
    /\ opens' = opens + 1
    /\ failed' = FALSE
    /\ UNCHANGED <<buffer, mutex, pc, line, events, outcome>>

Dump(t, size) ==
    /\ open
    /\ pc[t] = "idle"
    /\ events < MaxEvents
    /\ events' = events + 1
    /\ line' = [line EXCEPT ![t] = [id |-> events', size |-> size]]
    /\ pc' = [pc EXCEPT ![t] = "dumped"]
    /\ outcome' = [outcome EXCEPT ![t] = "none"]
    /\ UNCHANGED <<file, object, bytes_written, mutex, failed, kept>>

\* Faulty: the mutex does not exclude anyone.
LockIgnored(t) ==
    /\ pc[t] = "dumped"
    /\ mutex' = t
    /\ pc' = [pc EXCEPT ![t] = "locked"]
    /\ UNCHANGED <<file, object, bytes_written, line, events, outcome, failed, kept>>

Lock(t) ==
    /\ pc[t] = "dumped"
    /\ mutex = NoThread
    /\ mutex' = t
    /\ pc' = [pc EXCEPT ![t] = "locked"]
    /\ UNCHANGED <<file, object, bytes_written, line, events, outcome, failed, kept>>

\* record returns or throws; std::lock_guard releases the mutex either way.
Leave(t, how) ==
    /\ mutex' = NoThread
    /\ pc' = [pc EXCEPT ![t] = "idle"]
    /\ line' = [line EXCEPT ![t] = NoEvent]
    /\ outcome' = [outcome EXCEPT ![t] = how]
    /\ UNCHANGED <<object, events>>

Smaller(a, b) == IF a < b THEN a ELSE b

\* Faulty: refuses a line that fills the file exactly.
ExceedsOrReaches(size) ==
    LET max == options.max_bytes
    IN  max # 0 /\ size >= max - Smaller(bytes_written, max)

Exceeds(size) ==
    LET max == options.max_bytes
    IN  max # 0 /\ size > max - Smaller(bytes_written, max)

\* Faulty: the mutex is not released when the limit is reached.
RefuseLocked(t) ==
    /\ pc[t] = "locked"
    /\ Exceeds(line[t].size)
    /\ pc' = [pc EXCEPT ![t] = "idle"]
    /\ line' = [line EXCEPT ![t] = NoEvent]
    /\ outcome' = [outcome EXCEPT ![t] = "refused"]
    /\ UNCHANGED <<file, object, bytes_written, mutex, events, failed, kept>>

Refuse(t) ==
    /\ pc[t] = "locked"
    /\ Exceeds(line[t].size)
    /\ Leave(t, "refused")
    /\ UNCHANGED <<file, bytes_written, failed, kept>>

Write(t) ==
    /\ pc[t] = "locked"
    /\ ~Exceeds(line[t].size)
    /\ Holds(buffer \o Line(line[t]))
    /\ pc' = [pc EXCEPT ![t] = "written"]
    /\ UNCHANGED <<object, bytes_written, mutex, line, events, outcome, failed, kept>>

\* fwrite takes fewer bytes than it was given.
WriteFails(t) ==
    /\ pc[t] = "locked"
    /\ ~Exceeds(line[t].size)
    /\ \E n \in 0..(line[t].size - 1) :
          HoldsOrDrops(buffer \o Prefix(Line(line[t]), n))
    /\ failed' = TRUE
    /\ Leave(t, "failed")
    /\ UNCHANGED <<bytes_written, kept>>

FlushFails(t) ==
    /\ pc[t] = "written"
    /\ options.flush_each_event
    /\ HoldsOrDrops(buffer)
    /\ failed' = TRUE
    /\ Leave(t, "failed")
    /\ UNCHANGED <<bytes_written, kept>>

\* Faulty: the event is accepted before it is flushed.
AcceptUnflushed(t) ==
    /\ pc[t] = "written"
    /\ UNCHANGED file
    /\ kept' = IF options.flush_each_event THEN Append(kept, line[t]) ELSE kept
    /\ bytes_written' = bytes_written + line[t].size
    /\ Leave(t, "accepted")
    /\ UNCHANGED failed

Accept(t) ==
    /\ pc[t] = "written"
    /\ \/ /\ options.flush_each_event
          /\ disk' = disk \o buffer
          /\ buffer' = <<>>
          /\ kept' = Append(kept, line[t])
       \/ /\ ~options.flush_each_event
          /\ UNCHANGED <<file, kept>>
    /\ bytes_written' = bytes_written + line[t].size
    /\ Leave(t, "accepted")
    /\ UNCHANGED failed

\* The object and its fields are gone.
Gone ==
    /\ open
    /\ open' = FALSE
    /\ buffer' = <<>>
    /\ options' = Defaults
    /\ bytes_written' = 0
    /\ initial' = 0
    /\ failed' = FALSE
    /\ mutex' = NoThread
    /\ pc' = [t \in Threads |-> "idle"]
    /\ line' = [t \in Threads |-> NoEvent]
    /\ outcome' = [t \in Threads |-> "none"]
    /\ UNCHANGED <<opens, events, kept>>

\* The destructor: nobody records any more, fclose's result is ignored.
Close ==
    /\ \A t \in Threads : pc[t] = "idle"
    /\ \E n \in 0..Len(buffer) : disk' = disk \o Prefix(buffer, n)
    /\ Gone

Crash == Gone /\ UNCHANGED disk

Record(t) ==
    \/ Lock(t) \/ Refuse(t) \/ Write(t) \/ WriteFails(t)
    \/ FlushFails(t) \/ Accept(t)

Next ==
    \/ Open \/ Close \/ Crash
    \/ \E t \in Threads : Record(t) \/ \E size \in Sizes : Dump(t, size)

\* Threads are scheduled; nobody has to open, close or record.
Spec == Init /\ [][Next]_vars /\ \A t \in Threads : WF_vars(Record(t))

-----------------------------------------------------------------------------
(***************************************************************************)
(* Properties.                                                             *)
(***************************************************************************)
Byte == [event : 0..MaxEvents, at : Nat, last : BOOLEAN]

TypeOK ==
    /\ disk \in Seq(Byte) /\ buffer \in Seq(Byte)
    /\ options \in Options
    /\ open \in BOOLEAN /\ opens \in 0..MaxOpens
    /\ bytes_written \in Nat
    /\ mutex \in Threads \cup {NoThread}
    /\ pc \in [Threads -> {"idle", "dumped", "locked", "written"}]
    /\ line \in [Threads -> [id : 0..MaxEvents, size : Sizes \cup {1}]]
    /\ events \in 0..MaxEvents
    /\ outcome \in [Threads -> {"none", "accepted", "refused", "failed"}]
    /\ initial \in Nat
    /\ failed \in BOOLEAN
    /\ kept \in Seq([id : 0..MaxEvents, size : Sizes])
    /\ \A t \in Threads : pc[t] \in {"locked", "written"} <=> mutex = t

\* Unless a write failed, neither threads that record at once nor objects
\* that append to an old file make it larger than max_bytes; a file that was
\* already larger does not grow.
WithinLimit ==
    open /\ ~failed /\ options.max_bytes # 0 =>
        Len(disk) + Len(buffer) <=
            IF initial > options.max_bytes THEN initial ELSE options.max_bytes

\* Unless a write failed, an event is refused only if the file, with what is
\* still buffered, has no room for its line.
RefusesOnlyWhenFull ==
    [][\A t \in Threads :
          outcome'[t] = "refused" /\ outcome[t] # "refused" /\ ~failed =>
              Len(disk) + Len(buffer) + line[t].size > options.max_bytes]_vars

\* Once record has returned to a thread with flush_each_event set, the event
\* survives crashes, failing writes of later events and a failing fclose:
\* the lines of these events are in the file, complete and in this order.
FlushedEventsSurvive ==
    LET whole(k, e) ==
            /\ k + e.size - 1 <= Len(disk)
            /\ SubSeq(disk, k, k + e.size - 1) = Line(e)
    IN  \E start \in [DOMAIN kept -> DOMAIN disk] :
            /\ \A k \in DOMAIN kept : whole(start[k], kept[k])
            /\ \A j, k \in DOMAIN kept : j < k => start[j] < start[k]

\* Every record call returns or throws, on every path out of the mutex.
RecordReturns == \A t \in Threads : pc[t] # "idle" ~> pc[t] = "idle"

\* tracing.hpp:119 calls the file JSON Lines: an event that record accepted
\* is a line of its own.
LinesAreWhole ==
    \A k \in DOMAIN disk :
        disk[k].at = 1 /\ (\E j \in DOMAIN kept : kept[j].id = disk[k].event)
            => k = 1 \/ disk[k - 1].last
=============================================================================
