-------------------------------- MODULE Logger --------------------------------
(***************************************************************************)
(* Messages on their way to the log file: threads of the server call       *)
(* writeReq, which takes a logMessage from a pool, fills it and queues it  *)
(* (messageLogger.cpp); one logging thread moves the queue into a queue of *)
(* its own, writes the messages and returns them to the pool; the          *)
(* destructor of the logger stops that thread (logger.cpp:91-192).         *)
(*                                                                         *)
(* A critical section is one step, but for the logging thread's on         *)
(* queueCS, in which it also resets the event that others set outside of   *)
(* it.  Requests above the logging level return at once and are left out;  *)
(* a log line is known by its writer and its number.                       *)
(***************************************************************************)
EXTENDS Naturals, Sequences, FiniteSets, SequencesExt

CONSTANTS
    Writers,     \* threads that call writeReq
    Grow,        \* messages made when there are none (1000)
    NoMessage,   \* a null pointer
    MaxLogs,     \* bound: calls of writeReq by each thread
    CanFail      \* bound: writeLog may fail

ASSUME LoggerAssumption ==
    /\ IsFiniteSet(Writers)
    /\ Grow \in Nat \ {0} /\ MaxLogs \in Nat
    /\ NoMessage \notin Nat
    /\ CanFail \in BOOLEAN

VARIABLES
    made,             \* number of logMessages made; they are 1 .. made
    line,             \* what they say
    logMessagePool, logMessageQueue,
    loggingEvent, runFlag,
    lpc, localQueue, msg,         \* the logging thread
    wpc, wmsg, logs,              \* the writers, and how often each has called
    mpc,                          \* the thread that destroys the logger
    requested,                    \* history: the lines queued so far
    file                          \* the log file

poolVars   == <<made, line, logMessagePool>>
threadVars == <<lpc, localQueue, msg>>
writerVars == <<wpc, wmsg, logs>>
vars == <<poolVars, logMessageQueue, loggingEvent, runFlag, threadVars, writerVars, mpc, requested, file>>

\* The logger is made with Grow messages and its thread.
Init ==
    /\ made = Grow
    /\ line = [m \in 1 .. Grow |-> <<>>]
    /\ logMessagePool = [i \in 1 .. Grow |-> i]
    /\ logMessageQueue = <<>>
    /\ loggingEvent = FALSE
    /\ runFlag = TRUE
    /\ lpc = "while" /\ localQueue = <<>> /\ msg = NoMessage
    /\ wpc = [w \in Writers |-> "out"]
    /\ wmsg = [w \in Writers |-> NoMessage]
    /\ logs = [w \in Writers |-> 0]
    /\ mpc = "alive"
    /\ requested = <<>>
    /\ file = <<>>

----------------------------------------------------------------------------
(* writeReq.  What a thread does in it once the logger is destroyed is     *)
(* undefined and not modelled.                                             *)

Crashed == lpc = "crashed"

Goto(w, label) == ~Crashed /\ mpc # "gone" /\ wpc' = [wpc EXCEPT ![w] = label]

\* A request is refused as soon as the destructor has begun.
WriteReq(w) ==
    /\ wpc[w] = "out" /\ logs[w] < MaxLogs
    /\ runFlag
    /\ logs' = [logs EXCEPT ![w] = @ + 1]
    /\ Goto(w, "alloc")
    /\ UNCHANGED <<poolVars, logMessageQueue, loggingEvent, runFlag, threadVars, wmsg, mpc, requested, file>>

\* The pool when a message is to be taken from it.
Stocked ==
    IF logMessagePool = <<>> THEN [i \in 1 .. Grow |-> made + i] ELSE logMessagePool

PoolAlloc_NoPop(w) ==
    /\ wpc[w] = "alloc"
    /\ made' = IF logMessagePool = <<>> THEN made + Grow ELSE made
    /\ wmsg' = [wmsg EXCEPT ![w] = Last(Stocked)]
    /\ logMessagePool' = Stocked
    /\ line' = [m \in 1 .. made' |->
           IF m = Last(Stocked) THEN <<w, logs[w]>> ELSE IF m <= made THEN line[m] ELSE <<>>]
    /\ Goto(w, "push")
    /\ UNCHANGED <<logMessageQueue, loggingEvent, runFlag, threadVars, logs, mpc, requested, file>>

\* Under poolCS a message is taken from the pool; then it is filled.
PoolAlloc(w) ==
    /\ wpc[w] = "alloc"
    /\ made' = IF logMessagePool = <<>> THEN made + Grow ELSE made
    /\ wmsg' = [wmsg EXCEPT ![w] = Last(Stocked)]
    /\ logMessagePool' = Front(Stocked)
    /\ line' = [m \in 1 .. made' |->
           IF m = Last(Stocked) THEN <<w, logs[w]>> ELSE IF m <= made THEN line[m] ELSE <<>>]
    /\ Goto(w, "push")
    /\ UNCHANGED <<logMessageQueue, loggingEvent, runFlag, threadVars, logs, mpc, requested, file>>

\* Under queueCS it is queued.
Push(w) ==
    /\ wpc[w] = "push" /\ lpc # "reset"
    /\ logMessageQueue' = Append(logMessageQueue, wmsg[w])
    /\ requested' = Append(requested, line[wmsg[w]])
    /\ wmsg' = [wmsg EXCEPT ![w] = NoMessage]
    /\ Goto(w, "signal")
    /\ UNCHANGED <<poolVars, loggingEvent, runFlag, threadVars, logs, mpc, file>>

Signal_OnlyFirst(w) ==
    /\ wpc[w] = "signal"
    /\ loggingEvent' = (loggingEvent \/ Len(logMessageQueue) = 1)
    /\ Goto(w, "out")
    /\ UNCHANGED <<poolVars, logMessageQueue, runFlag, threadVars, wmsg, logs, mpc, requested, file>>

\* Outside of queueCS the event is set.
Signal(w) ==
    /\ wpc[w] = "signal"
    /\ loggingEvent' = TRUE
    /\ Goto(w, "out")
    /\ UNCHANGED <<poolVars, logMessageQueue, runFlag, threadVars, wmsg, logs, mpc, requested, file>>

InWriteReq(w) == PoolAlloc(w) \/ Push(w) \/ Signal(w)

----------------------------------------------------------------------------
(* loggingThreadProc. *)

While ==
    /\ lpc = "while"
    /\ lpc' = IF runFlag THEN "wait" ELSE "ended"
    /\ UNCHANGED <<poolVars, logMessageQueue, loggingEvent, runFlag, localQueue, msg, writerVars, mpc,
                   requested, file>>

\* The event stays set until it is reset.
Wait ==
    /\ lpc = "wait" /\ loggingEvent
    /\ lpc' = "move"
    /\ UNCHANGED <<poolVars, logMessageQueue, loggingEvent, runFlag, localQueue, msg, writerVars, mpc,
                   requested, file>>

Move_AsStack ==
    /\ lpc = "move"
    /\ localQueue' = localQueue \o Reverse(logMessageQueue)
    /\ logMessageQueue' = <<>>
    /\ lpc' = "reset"
    /\ UNCHANGED <<poolVars, loggingEvent, runFlag, msg, writerVars, mpc, requested, file>>

\* It enters queueCS and moves all that is queued.
Move ==
    /\ lpc = "move"
    /\ localQueue' = localQueue \o logMessageQueue
    /\ logMessageQueue' = <<>>
    /\ lpc' = "reset"
    /\ UNCHANGED <<poolVars, loggingEvent, runFlag, msg, writerVars, mpc, requested, file>>

\* It resets the event and leaves queueCS.
ResetEvent ==
    /\ lpc = "reset"
    /\ loggingEvent' = FALSE
    /\ lpc' = "write"
    /\ UNCHANGED <<poolVars, logMessageQueue, runFlag, localQueue, msg, writerVars, mpc, requested, file>>

\* The next message is written; if that fails the process is ended.
WriteLog ==
    /\ lpc = "write" /\ localQueue # <<>>
    /\ msg' = Head(localQueue)
    /\ localQueue' = Tail(localQueue)
    /\ \/ file' = Append(file, line[msg']) /\ lpc' = "free"
       \/ CanFail /\ lpc' = "crashed" /\ UNCHANGED file
    /\ UNCHANGED <<poolVars, logMessageQueue, loggingEvent, runFlag, writerVars, mpc, requested>>

\* Under poolCS it returns to the pool.
PoolFree ==
    /\ lpc = "free"
    /\ logMessagePool' = Append(logMessagePool, msg)
    /\ msg' = NoMessage
    /\ lpc' = "write"
    /\ UNCHANGED <<made, line, logMessageQueue, loggingEvent, runFlag, localQueue, writerVars, mpc,
                   requested, file>>

\* Without the lock it tests whether more was queued meanwhile.
AnyMore ==
    /\ lpc = "write" /\ localQueue = <<>>
    /\ lpc' = IF logMessageQueue # <<>> THEN "move" ELSE "while"
    /\ UNCHANGED <<poolVars, logMessageQueue, loggingEvent, runFlag, localQueue, msg, writerVars, mpc,
                   requested, file>>

LoggingThread == While \/ Wait \/ Move \/ ResetEvent \/ WriteLog \/ PoolFree \/ AnyMore

----------------------------------------------------------------------------
(* ~logger. *)

ClearFlag ==
    /\ mpc = "alive" /\ ~Crashed
    /\ runFlag' = FALSE
    /\ mpc' = "wake"
    /\ UNCHANGED <<poolVars, logMessageQueue, loggingEvent, threadVars, writerVars, requested, file>>

WakeThread_NoEvent ==
    /\ mpc = "wake" /\ ~Crashed
    /\ mpc' = "join"
    /\ UNCHANGED <<poolVars, logMessageQueue, loggingEvent, runFlag, threadVars, writerVars, requested, file>>

WakeThread ==
    /\ mpc = "wake" /\ ~Crashed
    /\ loggingEvent' = TRUE
    /\ mpc' = "join"
    /\ UNCHANGED <<poolVars, logMessageQueue, runFlag, threadVars, writerVars, requested, file>>

\* When the thread has ended, the messages of the pool and those that are still
\* queued are deleted, and the locks.
JoinAndDelete ==
    /\ mpc = "join" /\ lpc = "ended"
    /\ logMessagePool' = <<>>
    /\ logMessageQueue' = <<>>
    /\ mpc' = "gone"
    /\ UNCHANGED <<made, line, loggingEvent, runFlag, threadVars, writerVars, requested, file>>

Destructor == WakeThread \/ JoinAndDelete

Next ==
    \/ LoggingThread
    \/ \E w \in Writers : WriteReq(w) \/ InWriteReq(w)
    \/ ClearFlag \/ Destructor

\* The operating system runs the threads: one that is in writeReq, the logging thread and a destructor that has
\* begun go on; nobody has to log anything or to destroy the logger.
Fairness ==
    /\ WF_vars(LoggingThread)
    /\ \A w \in Writers : WF_vars(InWriteReq(w))
    /\ WF_vars(Destructor)

Spec == Init /\ [][Next]_vars /\ Fairness

----------------------------------------------------------------------------
TypeOK ==
    /\ made \in Nat /\ line \in [1 .. made -> {<<>>} \union (Writers \X (1 .. MaxLogs))]
    /\ logMessagePool \in Seq(1 .. made)
    /\ logMessageQueue \in Seq(1 .. made) /\ localQueue \in Seq(1 .. made)
    /\ {loggingEvent, runFlag} \subseteq BOOLEAN
    /\ lpc \in {"while", "wait", "move", "reset", "write", "free", "ended", "crashed"}
    /\ mpc \in {"alive", "wake", "join", "gone"}
    /\ wpc \in [Writers -> {"out", "alloc", "push", "signal"}]
    /\ msg \in 1 .. made \union {NoMessage}
    /\ wmsg \in [Writers -> 1 .. made \union {NoMessage}]

InHand == ({msg} \union Range(wmsg)) \ {NoMessage}
Listed == logMessagePool \o logMessageQueue \o localQueue

\* Between a writer, the queue, the logging thread and the pool, each message is
\* in exactly one place until the logger is destroyed: none leaks, and no writer
\* fills one that is still to be written (messageLogger.cpp:20, logger.cpp:184).
EveryMessageInOnePlace ==
    /\ TypeOK
    /\ IsInjective(Listed) /\ Range(Listed) \intersect InHand = {}
    /\ \A v, w \in Writers : v # w /\ wmsg[v] # NoMessage => wmsg[v] # wmsg[w]
    /\ \A w \in Writers : msg # NoMessage => msg # wmsg[w]
    /\ mpc # "gone" => Range(Listed) \union InHand = 1 .. made

Lines(q) == [i \in DOMAIN q |-> line[q[i]]]

\* What is written are the lines that were requested, each once and in the order
\* in which they were queued, and the rest still says what was requested; only
\* what is queued when the logger is destroyed, or in hand when writeLog fails,
\* is missing (logger.cpp:164-187).
WrittenInOrder ==
    IF mpc = "gone" \/ Crashed THEN IsPrefix(file, requested)
    ELSE file \o Lines(localQueue) \o Lines(logMessageQueue) = requested

\* Every line that is queued gets written, though the thread tests for more
\* without the lock and resets the event that writers set without it, UNLESS the
\* destructor begins first: the thread may see that before it sees the line, and
\* the destructor deletes it unwritten (logger.cpp:154, 172, 188).
EveryLineIsWritten ==
    \A k \in 1 .. MaxLogs * Cardinality(Writers) :
        Len(requested) >= k ~> Len(file) >= k \/ ~runFlag \/ Crashed

\* The destructor does not wait for ever: the thread sees runFlag, whether it is
\* about to wait, waiting, or about to reset the event (logger.cpp:117-132).
DestructorReturns == mpc = "wake" ~> mpc = "gone" \/ Crashed
================================================================================
