----------------------------- MODULE LoggingSystem -----------------------------
(***************************************************************************)
(* core_logging_system: a queue of messages filled by any thread and one   *)
(* thread, process(), that hands each message to the registered loggers.   *)
(*                                                                         *)
(* A step of a thread ends where it releases a mutex, sends a notification *)
(* or reads something it does not hold the mutex for.  loggerMutex_ is     *)
(* held exactly while the thread is in its loop over the loggers.  The     *)
(* n-th message logged is the number n.                                    *)
(***************************************************************************)
EXTENDS Integers, SequencesExt

CONSTANTS
  Clients,        \* the threads that log, flush and shut down
  Loggers,
  MaxMessages     \* bound on the messages logged

ASSUME LoggingAssumption == MaxMessages \in Nat

VARIABLES
  messages,       \* messages_
  loggers,        \* loggers_
  running,        \* running_
  at,             \* where process() is
  current,        \* its currentMessage
  remaining,      \* the loggers its loop has still to call
  client,         \* [Clients -> the call the thread is in]
  logged,         \* messages logged so far
  delivered,      \* [Loggers -> messages out() was called with]
  owed,           \* messages logged when shutdown was called
  down            \* shutdown has returned

logVars == <<messages, loggers, running, at, current, remaining, client, logged,
             delivered, owed, down>>
processVars == <<at, current, remaining, delivered>>
downVars == <<owed, down>>

Stages == {"check", "front", "broadcast", "out", "pop", "idle", "notify", "sleep",
           "asleep", "ended"}
Idle == [call |-> "idle"]
Calling(c) == client[c] # Idle
FlushWait == {c \in Clients : client[c].call = "flush"}

LogInit ==
  /\ messages = <<>> /\ loggers = <<>> /\ running = TRUE
  /\ at = "check" /\ current = 0 /\ remaining = <<>>
  /\ client = [c \in Clients |-> Idle]
  /\ logged = 0 /\ delivered = [l \in Loggers |-> <<>>]
  /\ owed = 0 /\ down = FALSE

-----------------------------------------------------------------------------
(* Definitions whose name ends in Faulty are plausible mistakes; nothing     *)
(* refers to them, they document which property would notice.               *)
(*                                                                          *)
(* process()                                                                 *)

\* messageMutex_ is taken for isEmpty and again for the front message.
CheckEmpty ==
  /\ at = "check"
  /\ at' = IF messages = <<>> THEN "idle" ELSE "front"
  /\ UNCHANGED <<messages, loggers, running, current, remaining, client, logged, delivered, downVars>>

TakeFront ==
  /\ at = "front"
  /\ current' = Head(messages) /\ at' = "broadcast"
  /\ UNCHANGED <<messages, loggers, running, remaining, client, logged, delivered, downVars>>

\* The message is deleted when the loop is over.
LockLoggers ==
  /\ at = "broadcast"
  /\ remaining' = loggers
  /\ \/ loggers = <<>> /\ at' = "pop" /\ current' = 0
     \/ loggers # <<>> /\ at' = "out" /\ UNCHANGED current
  /\ UNCHANGED <<messages, loggers, running, client, logged, delivered, downVars>>

CallLogger ==
  /\ at = "out"
  /\ delivered' = [delivered EXCEPT ![Head(remaining)] = Append(@, current)]
  /\ remaining' = Tail(remaining)
  /\ \/ Len(remaining) = 1 /\ at' = "pop" /\ current' = 0
     \/ Len(remaining) > 1 /\ UNCHANGED <<at, current>>
  /\ UNCHANGED <<messages, loggers, running, client, logged, downVars>>

\* The queue is emptied instead of popped.
PopMessageFaulty ==
  /\ at = "pop"
  /\ messages' = <<>> /\ at' = "check"
  /\ UNCHANGED <<loggers, running, current, remaining, client, logged, delivered, downVars>>

PopMessage ==
  /\ at = "pop"
  /\ messages' = Tail(messages) /\ at' = "check"
  /\ UNCHANGED <<loggers, running, current, remaining, client, logged, delivered, downVars>>

\* running_ is read without the mutex.
LeaveIfStopped ==
  /\ at = "idle"
  /\ at' = IF running THEN "notify" ELSE "ended"
  /\ UNCHANGED <<messages, loggers, running, current, remaining, client, logged, delivered, downVars>>

\* notify_all wakes every flush that waits now; flush has no predicate.
NotifyFlush ==
  /\ at = "notify"
  /\ client' = [c \in Clients |-> IF c \in FlushWait THEN Idle ELSE client[c]]
  /\ at' = "sleep"
  /\ UNCHANGED <<messages, loggers, running, current, remaining, logged, delivered, downVars>>

Awake == ~running \/ messages # <<>>

WaitMessage ==
  /\ at = "sleep"
  /\ at' = IF Awake THEN "check" ELSE "asleep"
  /\ UNCHANGED <<messages, loggers, running, current, remaining, client, logged, delivered, downVars>>

process ==
  \/ CheckEmpty \/ TakeFront \/ LockLoggers \/ CallLogger \/ PopMessage
  \/ LeaveIfStopped \/ NotifyFlush \/ WaitMessage

\* processorCV_.notify_one
Wake == at' = IF at = "asleep" THEN "sleep" ELSE at

-----------------------------------------------------------------------------
(* The calls of client c.                                                    *)

Enter(c, record) == ~Calling(c) /\ client' = [client EXCEPT ![c] = record]
Return(c) == client' = [client EXCEPT ![c] = Idle]

log(c) ==
  /\ logged < MaxMessages
  /\ Enter(c, [call |-> "log"])
  /\ logged' = logged + 1
  /\ messages' = Append(messages, logged')
  /\ UNCHANGED <<loggers, running, processVars, downVars>>

LogNotify(c) ==
  /\ client[c].call = "log"
  /\ Return(c) /\ Wake
  /\ UNCHANGED <<messages, loggers, running, logged, current, remaining, delivered, downVars>>

flush(c) ==
  /\ ~Calling(c)
  /\ IF messages = <<>> THEN UNCHANGED client
                        ELSE Enter(c, [call |-> "flush", goal |-> logged])
  /\ UNCHANGED <<messages, loggers, running, logged, processVars, downVars>>

\* Both wait for loggerMutex_.
LoggersFree == at # "out"

registerLogger(c, l) ==
  /\ ~Calling(c) /\ LoggersFree
  /\ loggers' = IF Contains(loggers, l) THEN loggers ELSE Append(loggers, l)
  /\ UNCHANGED <<messages, running, client, logged, processVars, downVars>>

\* find, and erase when the logger was found.
Erase(l) ==
  \/ \E i \in 1..Len(loggers) : loggers[i] = l /\ loggers' = RemoveAt(loggers, i)
  \/ ~Contains(loggers, l) /\ UNCHANGED loggers

\* The list changes without loggerMutex_.
UnregisterLoggerFaulty(c, l) ==
  /\ ~Calling(c)
  /\ Erase(l)
  /\ UNCHANGED <<messages, running, client, logged, processVars, downVars>>

unregisterLogger(c, l) ==
  /\ ~Calling(c) /\ LoggersFree
  /\ Erase(l)
  /\ UNCHANGED <<messages, running, client, logged, processVars, downVars>>

\* shutdown waits for the queue to drain, clears running_, notifies and joins.
shutdown(c) ==
  /\ ~down /\ \A d \in Clients : client[d].call \notin {"drain", "drained", "stop", "join"}
  /\ Enter(c, [call |-> "drain"])
  /\ owed' = logged
  /\ UNCHANGED <<messages, loggers, running, logged, processVars, down>>

\* The loop that waits for the queue is left out.
DrainedFaulty == TRUE

Drained == messages = <<>>

\* The queue is read without the mutex, which running_ is then cleared under.
SeeDrained(c) ==
  /\ client[c].call = "drain" /\ Drained
  /\ client' = [client EXCEPT ![c] = [call |-> "drained"]]
  /\ UNCHANGED <<messages, loggers, running, logged, processVars, downVars>>

StopRunning(c) ==
  /\ client[c].call = "drained"
  /\ client' = [client EXCEPT ![c] = [call |-> "stop"]]
  /\ running' = FALSE
  /\ UNCHANGED <<messages, loggers, logged, processVars, downVars>>

NotifyStop(c) ==
  /\ client[c].call = "stop"
  /\ client' = [client EXCEPT ![c] = [call |-> "join"]]
  /\ Wake
  /\ UNCHANGED <<messages, loggers, running, logged, current, remaining, delivered, downVars>>

JoinProcessor(c) ==
  /\ client[c].call = "join" /\ at = "ended"
  /\ Return(c)
  /\ down' = TRUE
  /\ UNCHANGED <<messages, loggers, running, logged, processVars, owed>>

\* What a client inside a call does next.
ClientStep(c) ==
  LogNotify(c) \/ SeeDrained(c) \/ StopRunning(c) \/ NotifyStop(c) \/ JoinProcessor(c)

ClientCall(c) ==
  \/ log(c) \/ flush(c) \/ shutdown(c)
  \/ \E l \in Loggers : registerLogger(c, l) \/ unregisterLogger(c, l)

LogNext == process \/ \E c \in Clients : ClientStep(c) \/ ClientCall(c)

LogSpec == LogInit /\ [][LogNext]_logVars

-----------------------------------------------------------------------------
CallRecord == [call : {"idle", "log", "drain", "drained", "stop", "join"}]
              \cup [call : {"flush"}, goal : Nat]

LogTypeOK ==
  /\ messages \in Seq(1..MaxMessages) /\ logged \in 0..MaxMessages
  /\ loggers \in Seq(Loggers) /\ remaining \in Seq(Loggers)
  /\ running \in BOOLEAN /\ down \in BOOLEAN
  /\ at \in Stages
  /\ current # 0 <=> at \in {"broadcast", "out"}
  /\ current \in 0..MaxMessages /\ owed \in 0..MaxMessages
  /\ client \in [Clients -> CallRecord]
  /\ delivered \in [Loggers -> Seq(1..MaxMessages)]

\* A logger is called only while it is registered, so an object that has been
\* unregistered, and may be gone, is never called although the thread was in the
\* middle of its loop when unregisterLogger was called.
CalledIsRegistered ==
  \A k \in 1..Len(remaining) : Contains(loggers, remaining[k])

\* When shutdown returns the thread has ended and has handed out every message
\* logged before the call, although it may have found the queue empty and read
\* running_ on either side of the message.
ShutdownDelivers ==
  down => at = "ended" /\ \A k \in 1..Len(messages) : messages[k] > owed

\* A listener that collects the messages of an operation calls flush first and
\* expects all of them: when flush returns, everything logged before the call
\* has been handed out.
FlushDelivers ==
  [][\A c \in Clients : client[c].call = "flush" /\ client'[c] = Idle =>
       \A k \in 1..Len(messages) : messages[k] > client[c].goal]_logVars

\* The thread and its queue implement the promise: a message counts as handed out
\* when the loop over the loggers begins, although they are called one by one and
\* the message stays in the queue until the loop is done.
Channel == INSTANCE MessageChannel WITH
  queue <- IF at \in {"out", "pop"} THEN Tail(messages) ELSE messages,
  sent <- logged,
  registered <- ToSet(loggers),
  received <- [l \in Loggers |-> IF Contains(remaining, l) THEN Append(delivered[l], current)
                                                         ELSE delivered[l]]
ImplementsChannel == Channel!Spec
=============================================================================
