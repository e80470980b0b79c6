----------------------------- MODULE ServicesProofs -----------------------------
(***************************************************************************)
(* Proofs about the logging system and about the composition of the        *)
(* services, for every number of threads, loggers, messages and jobs: the  *)
(* logging system's invariants, and that every step of its queue and its   *)
(* thread is a step of MessageChannel; that the services leave one         *)
(* another's state alone, so that all this holds of the composition; and   *)
(* that the background worker loses no job, calls none twice, and none     *)
(* after its destructor has joined the threads.                            *)
(***************************************************************************)
EXTENDS Services, SequenceTheorems, FiniteSetTheorems, TLAPS

-----------------------------------------------------------------------------
(* The logging system *)

Stopping == {c \in Clients : client[c].call \in {"drained", "stop", "join"}}

\* No logger is registered twice, or called twice for one message.
NoDuplicates == IsInjective(loggers) /\ IsInjective(remaining)

\* The loop has loggers left exactly while it is going on, and they are registered.
LoopOK ==
  /\ remaining # <<>> <=> at = "out"
  /\ CalledIsRegistered

\* The queue holds the last messages logged, and the first of them is the one the
\* thread is working on.
QueueOK ==
  /\ \A k \in 1..Len(messages) : messages[k] = logged - Len(messages) + k
  /\ Len(messages) <= logged
  /\ at \in {"front", "broadcast", "out", "pop"} => messages # <<>>
  /\ at \in {"broadcast", "out"} => current = messages[1]

\* running_ is cleared by a shutdown that found the queue empty, and the thread
\* ends only afterwards.
StopOK ==
  /\ owed <= logged
  /\ ~running => Stopping # {} \/ down
  /\ Stopping # {} \/ down => \A k \in 1..Len(messages) : messages[k] > owed
  /\ at = "ended" => ~running
  /\ down => at = "ended"

\* The inductive invariant.
IInv == LogTypeOK /\ NoDuplicates /\ LoopOK /\ QueueOK /\ StopOK

USE LoggingAssumption DEF Stages, Idle

\* The initial state satisfies the invariant.
LEMMA InitEstablishes == LogInit => IInv
<1> SUFFICES ASSUME LogInit PROVE IInv
  OBVIOUS
<1>1. LogTypeOK
  <2>1. Idle \in CallRecord
    BY DEF CallRecord
  <2>2. client \in [Clients -> CallRecord]
    BY <2>1 DEF LogInit
  <2>3. delivered \in [Loggers -> Seq(1..MaxMessages)]
    <3>1. <<>> \in Seq(1..MaxMessages)
      BY EmptySeq
    <3> QED
      BY <3>1 DEF LogInit
  <2>4. messages \in Seq(1..MaxMessages) /\ loggers \in Seq(Loggers) /\ remaining \in Seq(Loggers)
    BY DEF LogInit
  <2>5. /\ running \in BOOLEAN /\ down \in BOOLEAN /\ at \in Stages
        /\ current = 0 /\ at = "check" /\ owed = 0 /\ logged = 0
    BY DEF LogInit
  <2> QED
    BY <2>2, <2>3, <2>4, <2>5 DEF LogTypeOK
<1>2. NoDuplicates /\ LoopOK
  BY DEF LogInit, NoDuplicates, IsInjective, LoopOK, CalledIsRegistered
<1>3. QueueOK /\ StopOK
  BY DEF LogInit, QueueOK, StopOK
<1> QED
  BY <1>1, <1>2, <1>3 DEF IInv

\* What taking the first element off a sequence leaves.
LEMMA TailFacts ==
  ASSUME NEW S, NEW s \in Seq(S), s # <<>>
  PROVE  /\ Tail(s) \in Seq(S) /\ Len(Tail(s)) = Len(s) - 1 /\ Len(s) \in Nat \ {0}
         /\ \A k \in 1..Len(Tail(s)) : Tail(s)[k] = s[k + 1]
         /\ Head(s) = s[1] /\ s[1] \in S
         /\ Tail(s) = <<>> <=> Len(s) = 1
<1>1. Tail(s) \in Seq(S) /\ Len(Tail(s)) = Len(s) - 1 /\ Len(s) \in Nat \ {0}
  OBVIOUS
<1>2. \A k \in 1..Len(Tail(s)) : Tail(s)[k] = s[k + 1]
  OBVIOUS
<1>3. Head(s) = s[1] /\ s[1] \in S
  OBVIOUS
<1>4. Tail(s) = <<>> <=> Len(Tail(s)) = 0
  BY <1>1, EmptySeq
<1>5. Tail(s) = <<>> <=> Len(s) = 1
  BY <1>1, <1>4
<1> QED
  BY <1>1, <1>2, <1>3, <1>5

\* A step of process() that only looks at the queue or at running_.
LEMMA Looking ==
  ASSUME IInv, CheckEmpty \/ LeaveIfStopped \/ NotifyFlush \/ WaitMessage PROVE IInv'
<1> USE DEF IInv
<1>1. UNCHANGED <<messages, loggers, running, current, remaining, logged, delivered, downVars>>
  BY DEF CheckEmpty, LeaveIfStopped, NotifyFlush, WaitMessage
<1>2. LogTypeOK'
  <2>1. client' \in [Clients -> CallRecord]
    <3>1. Idle \in CallRecord /\ client \in [Clients -> CallRecord]
      BY DEF LogTypeOK, CallRecord
    <3> QED
      BY <3>1 DEF CheckEmpty, LeaveIfStopped, NotifyFlush, WaitMessage
  <2> QED
    BY <1>1, <2>1 DEF LogTypeOK, downVars, CheckEmpty, LeaveIfStopped, NotifyFlush, WaitMessage
<1>3. Stopping' = Stopping
  <2>1. \A c \in Clients : client'[c].call \in {"drained", "stop", "join"} <=> client[c].call \in {"drained", "stop", "join"}
    BY DEF CheckEmpty, LeaveIfStopped, NotifyFlush, WaitMessage, FlushWait
  <2> QED
    BY <2>1 DEF Stopping
<1>4. at' \notin {"out", "broadcast", "pop"} /\ at \notin {"out", "broadcast", "pop"}
      /\ (at' = "front" => messages # <<>>) /\ at # "ended" /\ (at' = "ended" => ~running)
  BY DEF CheckEmpty, LeaveIfStopped, NotifyFlush, WaitMessage
<1>5. NoDuplicates' /\ LoopOK'
  BY <1>1, <1>4 DEF NoDuplicates, LoopOK, CalledIsRegistered, Contains
<1>6. QueueOK' /\ StopOK'
  BY <1>1, <1>3, <1>4 DEF QueueOK, StopOK, downVars
<1> QED
  BY <1>2, <1>5, <1>6

\* process() takes the front message and goes through the loop over the loggers.
LEMMA Broadcasting ==
  ASSUME IInv, TakeFront \/ LockLoggers \/ CallLogger PROVE IInv'
<1> USE DEF IInv
<1>1. /\ UNCHANGED <<messages, loggers, running, client, logged, downVars>>
      /\ at \in {"front", "broadcast", "out"} /\ at' \in {"broadcast", "out", "pop"}
      /\ messages # <<>>
  BY DEF TakeFront, LockLoggers, CallLogger, QueueOK, downVars, LogTypeOK
<1>2. Stopping' = Stopping
  BY <1>1 DEF Stopping
<1>3. Head(messages) = messages[1] /\ messages[1] \in 1..MaxMessages
  BY <1>1, TailFacts DEF LogTypeOK
<1>4. StopOK'
  BY <1>1, <1>2 DEF StopOK, downVars
<1>5. CASE TakeFront
  <2>1. LogTypeOK'
    BY <1>1, <1>3, <1>5 DEF TakeFront, LogTypeOK, downVars
  <2>2. NoDuplicates' /\ LoopOK'
    BY <1>5 DEF TakeFront, NoDuplicates, LoopOK, CalledIsRegistered, Contains
  <2>3. QueueOK'
    BY <1>1, <1>3, <1>5 DEF TakeFront, QueueOK
  <2> QED
    BY <1>4, <2>1, <2>2, <2>3
<1>6. CASE LockLoggers
  <2>1. LogTypeOK'
    BY <1>1, <1>6 DEF LockLoggers, LogTypeOK, downVars
  <2>2. NoDuplicates' /\ LoopOK'
    BY <1>1, <1>6 DEF LockLoggers, NoDuplicates, LoopOK, CalledIsRegistered, Contains, LogTypeOK
  <2>3. QueueOK'
    BY <1>1, <1>6 DEF LockLoggers, QueueOK
  <2> QED
    BY <1>4, <2>1, <2>2, <2>3
<1>7. CASE CallLogger
  <2>1. remaining # <<>> /\ remaining \in Seq(Loggers)
    BY <1>7 DEF CallLogger, LoopOK, LogTypeOK
  <2>2. /\ remaining' = Tail(remaining) /\ remaining' \in Seq(Loggers)
        /\ Len(remaining') = Len(remaining) - 1 /\ Len(remaining) \in Nat \ {0}
        /\ \A k \in 1..Len(remaining') : remaining'[k] = remaining[k + 1]
        /\ Head(remaining) \in Loggers
        /\ remaining' = <<>> <=> Len(remaining) = 1
    BY <1>7, <2>1, TailFacts DEF CallLogger
  <2>3. LogTypeOK'
    <3>1. delivered' \in [Loggers -> Seq(1..MaxMessages)]
      <4>1. current \in 1..MaxMessages
        BY <1>3, <1>7 DEF CallLogger, QueueOK
      <4>2. delivered[Head(remaining)] \in Seq(1..MaxMessages)
        BY <2>2 DEF LogTypeOK
      <4>3. Append(delivered[Head(remaining)], current) \in Seq(1..MaxMessages)
        BY <4>1, <4>2, AppendProperties
      <4> QED
        BY <1>7, <2>2, <4>3 DEF CallLogger, LogTypeOK
    <3>2. (current' # 0 <=> at' \in {"broadcast", "out"}) /\ current' \in 0..MaxMessages
      BY <1>7, <2>2 DEF CallLogger, LogTypeOK
    <3> QED
      BY <1>1, <2>2, <3>1, <3>2 DEF LogTypeOK, downVars
  <2>4. NoDuplicates'
    <3>1. \A a, b \in 1..Len(remaining) : remaining[a] = remaining[b] => a = b
      <4>1. DOMAIN remaining = 1..Len(remaining)
        BY <2>1, LenProperties
      <4> QED
        BY <4>1 DEF NoDuplicates, IsInjective
    <3>2. \A a, b \in 1..Len(remaining') : remaining'[a] = remaining'[b] => a = b
      <4> SUFFICES ASSUME NEW a \in 1..Len(remaining'), NEW b \in 1..Len(remaining'),
                          remaining'[a] = remaining'[b]
                   PROVE  a = b
        OBVIOUS
      <4>1. a + 1 \in 1..Len(remaining) /\ b + 1 \in 1..Len(remaining)
        BY <2>2
      <4>2. a + 1 = b + 1
        BY <2>2, <3>1, <4>1
      <4> QED
        BY <4>2
    <3>3. DOMAIN remaining' = 1..Len(remaining')
      BY <2>2
    <3>4. IsInjective(remaining')
      BY <3>2, <3>3 DEF IsInjective
    <3> QED
      BY <1>1, <3>4 DEF NoDuplicates
  <2>5. LoopOK'
    <3>1. \A k \in 1..Len(remaining) : Contains(loggers, remaining[k])
      BY DEF LoopOK, CalledIsRegistered
    <3>2. \A k \in 1..Len(remaining') : Contains(loggers, remaining'[k])
      BY <2>2, <3>1
    <3>3. CalledIsRegistered'
      BY <1>1, <3>2 DEF CalledIsRegistered, Contains
    <3> QED
      BY <1>7, <2>1, <2>2, <3>3 DEF CallLogger, LoopOK
  <2>6. QueueOK'
    BY <1>1, <1>7, <2>2 DEF CallLogger, QueueOK
  <2> QED
    BY <1>4, <2>3, <2>4, <2>5, <2>6
<1> QED
  BY <1>5, <1>6, <1>7

\* process() takes the message off the queue.
LEMMA Popping ==
  ASSUME IInv, PopMessage PROVE IInv'
<1> USE DEF IInv, PopMessage
<1>1. /\ UNCHANGED <<loggers, running, current, remaining, client, logged, delivered, owed, down>>
      /\ at' = "check" /\ messages \in Seq(1..MaxMessages) /\ messages # <<>>
  BY DEF QueueOK, LogTypeOK, downVars
<1>2. /\ messages' = Tail(messages) /\ messages' \in Seq(1..MaxMessages)
      /\ Len(messages') = Len(messages) - 1 /\ Len(messages) \in Nat \ {0}
      /\ \A k \in 1..Len(messages') : messages'[k] = messages[k + 1]
  BY <1>1, TailFacts
<1>3. LogTypeOK'
  BY <1>1, <1>2 DEF LogTypeOK
<1>4. NoDuplicates' /\ LoopOK'
  BY <1>1 DEF NoDuplicates, LoopOK, CalledIsRegistered, Contains
<1>5. QueueOK'
  BY <1>1, <1>2 DEF QueueOK, LogTypeOK
<1>6. StopOK'
  BY <1>1, <1>2 DEF StopOK, Stopping
<1> QED
  BY <1>3, <1>4, <1>5, <1>6

\* A call that neither touches the thread nor the loggers, and queues nothing.
LEMMA SameQueue ==
  ASSUME IInv, LogTypeOK', StopOK',
         UNCHANGED <<messages, loggers, logged, current, remaining>>,
         at' = at \/ (at = "asleep" /\ at' = "sleep")
  PROVE  IInv'
<1>1. NoDuplicates' /\ LoopOK'
  BY DEF IInv, NoDuplicates, LoopOK, CalledIsRegistered, Contains
<1>2. QueueOK'
  BY DEF IInv, QueueOK
<1> QED
  BY <1>1, <1>2 DEF IInv

\* log appends the next number.
LEMMA Logging ==
  ASSUME IInv, NEW c \in Clients, log(c) PROVE IInv'
<1> USE DEF IInv, log, Enter, Calling
<1>1. messages \in Seq(1..MaxMessages) /\ logged \in Nat /\ logged + 1 \in 1..MaxMessages
  BY DEF LogTypeOK
<1>2. /\ messages' \in Seq(1..MaxMessages) /\ Len(messages') = Len(messages) + 1
      /\ \A k \in 1..Len(messages) : messages'[k] = messages[k]
      /\ messages'[Len(messages) + 1] = logged + 1 /\ Len(messages) \in Nat
  BY <1>1, AppendProperties
<1>3. LogTypeOK'
  <2>1. [call |-> "log"] \in CallRecord
    BY DEF CallRecord
  <2> QED
    BY <1>1, <1>2, <2>1 DEF LogTypeOK, processVars, downVars
<1>4. NoDuplicates' /\ LoopOK'
  BY DEF NoDuplicates, LoopOK, CalledIsRegistered, Contains, processVars
<1>5. QueueOK'
  <2>1. ASSUME NEW k \in 1..Len(messages')
        PROVE  messages'[k] = logged' - Len(messages') + k
    <3>1. CASE k \in 1..Len(messages)
      <4>1. messages[k] = logged - Len(messages) + k
        BY <3>1 DEF QueueOK
      <4> QED
        BY <1>1, <1>2, <3>1, <4>1
    <3>2. CASE k = Len(messages) + 1
      BY <1>1, <1>2, <3>2
    <3> QED
      BY <1>2, <3>1, <3>2
  <2>2. at \in {"broadcast", "out"} => messages'[1] = messages[1]
    BY <1>2 DEF QueueOK
  <2>3. messages' # <<>>
    BY <1>2
  <2> QED
    BY <1>1, <1>2, <2>1, <2>2, <2>3 DEF QueueOK, processVars
<1>6. StopOK'
  <2>1. Stopping' = Stopping
    BY DEF Stopping, LogTypeOK
  <2>2. ASSUME Stopping # {} \/ down, NEW k \in 1..Len(messages') PROVE messages'[k] > owed
    <3>1. CASE k \in 1..Len(messages)
      BY <1>2, <2>2, <3>1 DEF StopOK
    <3>2. CASE k = Len(messages) + 1
      BY <1>1, <1>2, <3>2 DEF StopOK, LogTypeOK
    <3> QED
      BY <1>2, <3>1, <3>2
  <2> QED
    BY <1>1, <2>1, <2>2 DEF StopOK, processVars, downVars, LogTypeOK
<1> QED
  BY <1>3, <1>4, <1>5, <1>6

\* The notification of log and the calls of flush.
LEMMA NotifyingAndFlushing ==
  ASSUME IInv, NEW c \in Clients, LogNotify(c) \/ flush(c) PROVE IInv'
<1> USE DEF IInv
<1>1. /\ UNCHANGED <<messages, loggers, running, logged, current, remaining, delivered, owed, down>>
      /\ at' = at \/ (at = "asleep" /\ at' = "sleep")
  <2>1. CASE LogNotify(c)
    BY <2>1 DEF LogNotify, Wake, downVars
  <2>2. CASE flush(c)
    BY <2>2 DEF flush, processVars, downVars
  <2> QED
    BY <2>1, <2>2
<1>2. client' \in [Clients -> CallRecord]
  <2>1. Idle \in CallRecord /\ [call |-> "flush", goal |-> logged] \in CallRecord
    BY DEF CallRecord, LogTypeOK
  <2> QED
    BY <2>1 DEF LogNotify, Return, flush, Enter, LogTypeOK
<1>3. Stopping' = Stopping
  <2>1. \A d \in Clients : client'[d].call \in {"drained", "stop", "join"} <=> client[d].call \in {"drained", "stop", "join"}
    <3>1. CASE LogNotify(c)
      BY <3>1 DEF LogNotify, Return, LogTypeOK
    <3>2. CASE flush(c)
      <4>1. CASE client' = client
        BY <4>1
      <4>2. CASE client' = [client EXCEPT ![c] = [call |-> "flush", goal |-> logged]]
        <5>1. client[c].call = "idle" /\ client'[c].call = "flush"
          BY <3>2, <4>2 DEF flush, Calling, LogTypeOK
        <5>2. \A d \in Clients \ {c} : client'[d] = client[d]
          BY <4>2 DEF LogTypeOK
        <5> QED
          BY <5>1, <5>2
      <4> QED
        BY <3>2, <4>1, <4>2 DEF flush, Enter
    <3> QED
      BY <3>1, <3>2
  <2> QED
    BY <2>1 DEF Stopping
<1>4. LogTypeOK' /\ StopOK'
  BY <1>1, <1>2, <1>3 DEF LogTypeOK, StopOK
<1> QED
  BY <1>1, <1>4, SameQueue

\* The calls and steps of a shutdown.
LEMMA ShuttingDown ==
  ASSUME IInv, NEW c \in Clients,
         shutdown(c) \/ SeeDrained(c) \/ StopRunning(c) \/ NotifyStop(c) \/ JoinProcessor(c)
  PROVE  IInv'
<1> USE DEF IInv, processVars, downVars
<1>1. /\ UNCHANGED <<messages, loggers, logged, current, remaining, delivered>>
      /\ at' = at \/ (at = "asleep" /\ at' = "sleep")
  <2>1. CASE NotifyStop(c)
    BY <2>1 DEF NotifyStop, Wake
  <2>2. CASE ~NotifyStop(c)
    BY <2>2 DEF shutdown, SeeDrained, StopRunning, JoinProcessor
  <2> QED
    BY <2>1, <2>2
<1>2. client' \in [Clients -> CallRecord]
  <2>1. /\ Idle \in CallRecord
        /\ \A name \in {"drain", "drained", "stop", "join"} : [call |-> name] \in CallRecord
    BY DEF CallRecord
  <2> QED
    BY <2>1 DEF shutdown, SeeDrained, StopRunning, NotifyStop, JoinProcessor, Return, Enter, LogTypeOK
<1>3. LogTypeOK'
  BY <1>1, <1>2 DEF LogTypeOK, shutdown, SeeDrained, StopRunning, NotifyStop, JoinProcessor
<1>4. CASE shutdown(c)
  <2>1. Stopping = {} /\ ~down
    BY <1>4 DEF shutdown, Stopping
  <2>2. running /\ owed' = logged
    BY <1>4, <2>1 DEF shutdown, StopOK
  <2>3. Stopping' = {}
    BY <1>4, <2>1 DEF shutdown, Enter, Stopping, LogTypeOK
  <2> QED
    BY <1>1, <1>3, <1>4, <2>1, <2>2, <2>3, SameQueue DEF shutdown, StopOK, LogTypeOK
<1>5. CASE StopRunning(c)
  <2>1. c \in Stopping /\ c \in Stopping'
    BY <1>5 DEF StopRunning, Stopping, LogTypeOK
  <2> QED
    BY <1>1, <1>3, <1>5, <2>1, SameQueue DEF StopRunning, StopOK
<1>6. CASE NotifyStop(c)
  <2>1. c \in Stopping /\ c \in Stopping'
    BY <1>6 DEF NotifyStop, Stopping, LogTypeOK
  <2> QED
    BY <1>1, <1>3, <1>6, <2>1, SameQueue DEF NotifyStop, StopOK
<1>7. CASE JoinProcessor(c)
  <2>1. c \in Stopping
    BY <1>7 DEF JoinProcessor, Stopping
  <2> QED
    BY <1>1, <1>3, <1>7, <2>1, SameQueue DEF JoinProcessor, StopOK
<1>8. CASE SeeDrained(c)
  <2>1. c \in Stopping' /\ messages = <<>>
    BY <1>8 DEF SeeDrained, Drained, Stopping, LogTypeOK
  <2>2. messages' = <<>> /\ Len(messages') = 0
    BY <1>8, <2>1 DEF SeeDrained
  <2> QED
    BY <1>1, <1>3, <1>8, <2>1, <2>2, SameQueue DEF SeeDrained, StopOK
<1> QED
  BY <1>4, <1>5, <1>6, <1>7, <1>8

\* The list after the first occurrence of l was erased.
LEMMA EraseFacts ==
  ASSUME NEW S, NEW s \in Seq(S), NEW i \in 1..Len(s), IsInjective(s)
  PROVE  /\ RemoveAt(s, i) \in Seq(S) /\ IsInjective(RemoveAt(s, i))
         /\ ToSet(RemoveAt(s, i)) = ToSet(s) \ {s[i]}
<1> DEFINE t == RemoveAt(s, i)
<1>1. /\ t \in Seq(S) /\ Len(t) = Len(s) - 1 /\ Len(s) \in Nat
      /\ \A k \in 1..Len(t) : t[k] = IF k < i THEN s[k] ELSE s[k + 1]
  <2> DEFINE u == SubSeq(s, 1, i - 1)
             v == SubSeq(s, i + 1, Len(s))
  <2>1. u \in Seq(S) /\ Len(u) = i - 1 /\ \A k \in 1..(i - 1) : u[k] = s[k]
    OBVIOUS
  <2>2. v \in Seq(S) /\ Len(v) = Len(s) - i /\ \A k \in 1..(Len(s) - i) : v[k] = s[k + i]
    OBVIOUS
  <2>3. t = u \o v /\ Len(s) \in Nat /\ i \in Int
    BY LenProperties DEF RemoveAt
  <2> HIDE DEF t, u, v
  <2>4. /\ t \in Seq(S) /\ Len(t) = Len(u) + Len(v)
        /\ \A k \in 1..Len(t) : t[k] = IF k <= Len(u) THEN u[k] ELSE v[k - Len(u)]
    <3>1. /\ u \o v \in Seq(S) /\ Len(u \o v) = Len(u) + Len(v)
          /\ \A k \in 1..(Len(u) + Len(v)) :
               (u \o v)[k] = IF k <= Len(u) THEN u[k] ELSE v[k - Len(u)]
      BY <2>1, <2>2, ConcatProperties
    <3> QED
      BY <2>3, <3>1
  <2>5. Len(t) = Len(s) - 1
    BY <2>1, <2>2, <2>3, <2>4
  <2>6. ASSUME NEW k \in 1..Len(t) PROVE t[k] = IF k < i THEN s[k] ELSE s[k + 1]
    <3>1. CASE k < i
      BY <2>1, <2>3, <2>4, <3>1
    <3>2. CASE k >= i
      <4>1. k - Len(u) \in 1..(Len(s) - i) /\ k - Len(u) + i = k + 1
        BY <2>1, <2>3, <2>5, <3>2
      <4> QED
        BY <2>1, <2>2, <2>3, <2>4, <3>2, <4>1
    <3> QED
      BY <2>3, <2>5, <3>1, <3>2
  <2> QED
    BY <2>3, <2>4, <2>5, <2>6
<1>2. DOMAIN s = 1..Len(s) /\ DOMAIN t = 1..Len(t)
  BY <1>1, LenProperties
<1>3. \A a, b \in 1..Len(s) : s[a] = s[b] => a = b
  BY <1>2 DEF IsInjective
<1>4. IsInjective(t)
  <2> SUFFICES ASSUME NEW a \in 1..Len(t), NEW b \in 1..Len(t), t[a] = t[b] PROVE a = b
    BY <1>2 DEF IsInjective
  <2> QED
    BY <1>1, <1>3
<1>5. ToSet(t) = ToSet(s) \ {s[i]}
  <2>1. ASSUME NEW x \in ToSet(t) PROVE x \in ToSet(s) \ {s[i]}
    <3>1. PICK k \in 1..Len(t) : x = t[k]
      BY <1>2, <2>1 DEF ToSet
    <3>2. PICK m \in 1..Len(s) : m # i /\ x = s[m]
      BY <1>1, <3>1
    <3> QED
      BY <1>2, <1>3, <3>2 DEF ToSet
  <2>2. ASSUME NEW x \in ToSet(s) \ {s[i]} PROVE x \in ToSet(t)
    <3>1. PICK m \in 1..Len(s) : x = s[m] /\ m # i
      BY <1>2, <2>2 DEF ToSet
    <3>2. CASE m < i
      <4>1. m \in 1..Len(t) /\ t[m] = x
        BY <1>1, <3>1, <3>2
      <4> QED
        BY <1>2, <4>1 DEF ToSet
    <3>3. CASE m > i
      <4>1. m - 1 \in 1..Len(t) /\ t[m - 1] = x
        BY <1>1, <3>1, <3>3
      <4> QED
        BY <1>2, <4>1 DEF ToSet
    <3> QED
      BY <3>1, <3>2, <3>3
  <2> QED
    BY <2>1, <2>2
<1> QED
  BY <1>1, <1>4, <1>5

\* The list after a new logger was appended.
LEMMA AppendFacts ==
  ASSUME NEW S, NEW s \in Seq(S), NEW x \in S, IsInjective(s), ~Contains(s, x)
  PROVE  /\ Append(s, x) \in Seq(S) /\ IsInjective(Append(s, x))
         /\ ToSet(Append(s, x)) = ToSet(s) \cup {x}
<1> DEFINE t == Append(s, x)
<1>1. /\ t \in Seq(S) /\ Len(t) = Len(s) + 1 /\ Len(s) \in Nat
      /\ t[Len(s) + 1] = x /\ \A k \in 1..Len(s) : t[k] = s[k]
  BY AppendProperties
<1>2. DOMAIN s = 1..Len(s) /\ DOMAIN t = 1..(Len(s) + 1)
  BY <1>1, LenProperties
<1>3. IsInjective(t)
  <2> SUFFICES ASSUME NEW a \in 1..(Len(s) + 1), NEW b \in 1..(Len(s) + 1), t[a] = t[b]
               PROVE  a = b
    BY <1>2 DEF IsInjective
  <2>1. \A k \in 1..Len(s) : s[k] # x
    BY DEF Contains
  <2>2. CASE a \in 1..Len(s) /\ b \in 1..Len(s)
    BY <1>1, <1>2, <2>2 DEF IsInjective
  <2>3. CASE a = Len(s) + 1 \/ b = Len(s) + 1
    BY <1>1, <2>1, <2>3
  <2> QED
    BY <1>1, <2>2, <2>3
<1>4. ToSet(t) = ToSet(s) \cup {x}
  BY <1>1, <1>2 DEF ToSet
<1> QED
  BY <1>1, <1>3, <1>4

\* Loggers come and go only while the thread is not in its loop.
LEMMA Registering ==
  ASSUME IInv, NEW c \in Clients, NEW l \in Loggers,
         registerLogger(c, l) \/ unregisterLogger(c, l)
  PROVE  /\ IInv' /\ at # "out"
         /\ \/ ToSet(loggers') = ToSet(loggers) \cup {l}
            \/ ToSet(loggers') = ToSet(loggers) \ {l}
<1> USE DEF IInv, processVars, downVars
<1>1. /\ UNCHANGED <<messages, running, client, logged, at, current, remaining, delivered, owed, down>>
      /\ at # "out"
  BY DEF registerLogger, unregisterLogger, LoggersFree
<1>2. loggers \in Seq(Loggers) /\ IsInjective(loggers) /\ DOMAIN loggers = 1..Len(loggers)
  BY LenProperties DEF LogTypeOK, NoDuplicates
<1>3. /\ loggers' \in Seq(Loggers) /\ IsInjective(loggers')
      /\ \/ ToSet(loggers') = ToSet(loggers) \cup {l}
         \/ ToSet(loggers') = ToSet(loggers) \ {l}
  <2>1. CASE registerLogger(c, l)
    <3>1. CASE Contains(loggers, l)
      <4>1. l \in ToSet(loggers)
        BY <1>2, <3>1 DEF Contains, ToSet
      <4>2. loggers' = loggers
        BY <2>1, <3>1 DEF registerLogger
      <4> QED
        BY <1>2, <4>1, <4>2
    <3>2. CASE ~Contains(loggers, l)
      BY <1>2, <2>1, <3>2, AppendFacts DEF registerLogger
    <3> QED
      BY <3>1, <3>2
  <2>2. CASE unregisterLogger(c, l)
    <3>1. ASSUME NEW i \in 1..Len(loggers), loggers[i] = l, loggers' = RemoveAt(loggers, i)
          PROVE  /\ loggers' \in Seq(Loggers) /\ IsInjective(loggers')
                 /\ ToSet(loggers') = ToSet(loggers) \ {l}
      BY <1>2, <3>1, EraseFacts
    <3>2. ASSUME ~Contains(loggers, l), loggers' = loggers
          PROVE  /\ loggers' \in Seq(Loggers) /\ IsInjective(loggers')
                 /\ ToSet(loggers') = ToSet(loggers) \ {l}
      <4>1. l \notin ToSet(loggers)
        BY <1>2, <3>2 DEF Contains, ToSet
      <4> QED
        BY <1>2, <3>2, <4>1
    <3> QED
      BY <2>2, <3>1, <3>2 DEF unregisterLogger, Erase
  <2> QED
    BY <2>1, <2>2
<1>4. LogTypeOK'
  BY <1>1, <1>3 DEF LogTypeOK
<1>5. NoDuplicates'
  BY <1>1, <1>3 DEF NoDuplicates
<1>6. LoopOK'
  <2>1. remaining' = <<>>
    BY <1>1 DEF LoopOK
  <2> QED
    BY <1>1, <2>1 DEF LoopOK, CalledIsRegistered
<1>7. QueueOK' /\ StopOK'
  BY <1>1 DEF QueueOK, StopOK, Stopping
<1> QED
  BY <1>1, <1>3, <1>4, <1>5, <1>6, <1>7

\* Every step preserves the invariant.
LEMMA StepPreserves == IInv /\ [LogNext]_logVars => IInv'
<1> SUFFICES ASSUME IInv, [LogNext]_logVars PROVE IInv'
  OBVIOUS
<1>1. CASE UNCHANGED logVars
  BY <1>1 DEF logVars, IInv, LogTypeOK, NoDuplicates, LoopOK, CalledIsRegistered, QueueOK, StopOK,
     Stopping
<1> QED
  BY <1>1, Looking, Broadcasting, Popping, Logging, NotifyingAndFlushing, ShuttingDown, Registering
  DEF LogNext, process, ClientStep, ClientCall

\* The invariant holds in every reachable state.
THEOREM Invariance == LogSpec => []IInv
BY InitEstablishes, StepPreserves, PTL DEF LogSpec

\* The state keeps its type.
THEOREM LogTypeCorrect == LogSpec => []LogTypeOK
BY Invariance, PTL DEF IInv

\* Only registered loggers are called.
THEOREM LoggersAlive == LogSpec => []CalledIsRegistered
BY Invariance, PTL DEF IInv, LoopOK

\* A shutdown hands out every message logged before it.
THEOREM ShutdownComplete == LogSpec => []ShutdownDelivers
<1>1. IInv => ShutdownDelivers
  BY DEF IInv, StopOK, ShutdownDelivers
<1> QED
  BY Invariance, <1>1, PTL

-----------------------------------------------------------------------------
(* The refinement.  MappedQueue and MappedReceived are the mapped variables. *)

MappedQueue == IF at \in {"out", "pop"} THEN Tail(messages) ELSE messages
MappedReceived ==
  [l \in Loggers |-> IF Contains(remaining, l) THEN Append(delivered[l], current)
                                              ELSE delivered[l]]

\* Outside of the loop the mapping hides nothing.
LEMMA OutsideLoop == IInv /\ at # "out" => MappedReceived = delivered
<1> SUFFICES ASSUME IInv, at # "out" PROVE MappedReceived = delivered
  OBVIOUS
<1>1. \A l \in Loggers : ~Contains(remaining, l)
  BY DEF IInv, LoopOK, Contains
<1>2. delivered \in [Loggers -> Seq(1..MaxMessages)]
  BY DEF IInv, LogTypeOK
<1> QED
  BY <1>1, <1>2 DEF MappedReceived

\* The loop as a whole hands the message out, at its first step.
LEMMA HandsOut ==
  ASSUME IInv, LockLoggers PROVE Channel!Hand
<1> USE DEF IInv, LockLoggers
<1>1. messages # <<>> /\ current = Head(messages) /\ remaining' = loggers
      /\ UNCHANGED <<messages, loggers, logged, delivered>>
      /\ at = "broadcast" /\ at' \in {"out", "pop"}
  BY TailFacts DEF QueueOK, LogTypeOK
<1>2. \A l \in Loggers : Contains(loggers, l) <=> l \in ToSet(loggers)
  BY LenProperties DEF LogTypeOK, Contains, ToSet
<1>3. MappedReceived = delivered
  BY <1>1, OutsideLoop
<1>4. MappedReceived' = [l \in Loggers |-> IF l \in ToSet(loggers) THEN Append(MappedReceived[l], Head(messages))
                                                           ELSE MappedReceived[l]]
  <2>1. ASSUME NEW l \in Loggers
        PROVE  (IF Contains(remaining', l) THEN Append(delivered[l], current') ELSE delivered[l])
               = IF l \in ToSet(loggers) THEN Append(MappedReceived[l], Head(messages)) ELSE MappedReceived[l]
    <3>1. CASE Contains(loggers, l)
      <4>1. loggers # <<>> /\ current' = current
        BY <3>1 DEF Contains
      <4> QED
        BY <1>1, <1>2, <1>3, <3>1, <4>1 DEF Contains
    <3>2. CASE ~Contains(loggers, l)
      BY <1>1, <1>2, <1>3, <3>2 DEF Contains
    <3> QED
      BY <3>1, <3>2
  <2> QED
    BY <1>1, <2>1 DEF MappedReceived
<1> QED
  BY <1>1, <1>4 DEF Channel!Hand, MappedReceived

\* What the mapped variables depend on.
LEMMA SameChannel ==
  ASSUME MappedQueue' = MappedQueue, MappedReceived' = MappedReceived, UNCHANGED <<logged, loggers>>
  PROVE  UNCHANGED Channel!vars
BY DEF Channel!vars, MappedQueue, MappedReceived

\* A call inside the loop takes a logger from those left to those called.
LEMMA LoopStutters ==
  ASSUME IInv, CallLogger PROVE UNCHANGED Channel!vars
<1> USE DEF IInv, CallLogger
<1>1. /\ remaining # <<>> /\ remaining \in Seq(Loggers) /\ IsInjective(remaining)
      /\ delivered \in [Loggers -> Seq(1..MaxMessages)]
      /\ at = "out" /\ at' \in {"out", "pop"}
      /\ UNCHANGED <<messages, loggers, logged>>
  BY DEF LoopOK, LogTypeOK, NoDuplicates
<1>2. /\ remaining' = Tail(remaining) /\ Head(remaining) = remaining[1]
      /\ Len(remaining') = Len(remaining) - 1 /\ Len(remaining) \in Nat \ {0}
      /\ \A k \in 1..Len(remaining') : remaining'[k] = remaining[k + 1]
      /\ Head(remaining) \in Loggers
  BY <1>1, TailFacts
<1>3. \A a, b \in 1..Len(remaining) : remaining[a] = remaining[b] => a = b
  <2>1. DOMAIN remaining = 1..Len(remaining)
    BY <1>1, LenProperties
  <2> QED
    BY <1>1, <2>1 DEF IsInjective
<1>4. ASSUME NEW l \in Loggers
      PROVE  (IF Contains(remaining', l) THEN Append(delivered'[l], current') ELSE delivered'[l])
             = IF Contains(remaining, l) THEN Append(delivered[l], current) ELSE delivered[l]
  <2>1. CASE l = Head(remaining)
    <3>1. Contains(remaining, l)
      BY <1>2, <2>1 DEF Contains
    <3>2. ~Contains(remaining', l)
      <4> SUFFICES ASSUME NEW k \in 1..Len(remaining'), remaining'[k] = l PROVE FALSE
        BY DEF Contains
      <4>1. k + 1 \in 1..Len(remaining) /\ 1 \in 1..Len(remaining) /\ remaining[k + 1] = remaining[1]
        BY <1>2, <2>1
      <4>2. k + 1 = 1
        BY <1>3, <4>1
      <4> QED
        BY <1>2, <4>2
    <3>3. delivered'[l] = Append(delivered[l], current)
      BY <1>1, <1>2, <2>1
    <3> QED
      BY <3>1, <3>2, <3>3
  <2>2. CASE l # Head(remaining)
    <3>1. delivered'[l] = delivered[l]
      BY <1>1, <2>2
    <3>2. ASSUME Contains(remaining, l) PROVE Contains(remaining', l)
      <4>1. PICK k \in 1..Len(remaining) : remaining[k] = l
        BY <3>2 DEF Contains
      <4>2. k # 1
        BY <1>2, <2>2, <4>1
      <4>3. k - 1 \in 1..Len(remaining') /\ remaining'[k - 1] = l
        BY <1>2, <4>1, <4>2
      <4> QED
        BY <4>3 DEF Contains
    <3>3. ASSUME Contains(remaining', l) PROVE Contains(remaining, l) /\ current' = current
      <4>1. PICK k \in 1..Len(remaining') : remaining'[k] = l
        BY <3>3 DEF Contains
      <4>2. k + 1 \in 1..Len(remaining) /\ remaining[k + 1] = l /\ Len(remaining) # 1
        BY <1>2, <4>1
      <4> QED
        BY <4>2 DEF Contains
    <3> QED
      BY <3>1, <3>2, <3>3
  <2> QED
    BY <2>1, <2>2
<1>5. MappedReceived' = MappedReceived
  BY <1>4 DEF MappedReceived
<1>6. MappedQueue' = MappedQueue
  BY <1>1 DEF MappedQueue
<1> QED
  BY <1>1, <1>5, <1>6, SameChannel

\* log sends.
LEMMA LogSends ==
  ASSUME IInv, NEW c \in Clients, log(c) PROVE Channel!Send
<1> USE DEF IInv, log
<1>1. /\ logged' = logged + 1 /\ messages' = Append(messages, logged')
      /\ UNCHANGED <<loggers, at, current, remaining, delivered>>
  BY DEF processVars
<1>2. MappedQueue' = Append(MappedQueue, logged')
  <2>1. CASE at \in {"out", "pop"}
    <3>1. messages \in Seq(1..MaxMessages) /\ messages # <<>> /\ logged' \in 1..MaxMessages
      BY <2>1 DEF QueueOK, LogTypeOK
    <3>2. Tail(Append(messages, logged')) = Append(Tail(messages), logged')
      BY <3>1
    <3> QED
      BY <1>1, <2>1, <3>2 DEF MappedQueue
  <2>2. CASE at \notin {"out", "pop"}
    BY <1>1, <2>2 DEF MappedQueue
  <2> QED
    BY <2>1, <2>2
<1>3. MappedReceived' = MappedReceived
  BY <1>1 DEF MappedReceived, Contains
<1> QED
  BY <1>1, <1>2, <1>3 DEF Channel!Send, MappedQueue, MappedReceived

\* The initial state is one of MessageChannel.
LEMMA InitMaps == LogInit => Channel!Init
<1> SUFFICES ASSUME LogInit PROVE Channel!Init
  OBVIOUS
<1>1. \A l \in Loggers : ~Contains(remaining, l)
  BY DEF LogInit, Contains
<1>2. ToSet(loggers) = {}
  BY DEF LogInit, ToSet
<1> QED
  BY <1>1, <1>2 DEF LogInit, Channel!Init

\* Every step is a step of MessageChannel or changes nothing it sees.
LEMMA StepMaps == IInv /\ IInv' /\ [LogNext]_logVars => [Channel!Next]_(Channel!vars)
<1> SUFFICES ASSUME IInv, IInv', [LogNext]_logVars PROVE [Channel!Next]_(Channel!vars)
  OBVIOUS
<1>1. ASSUME at \notin {"out", "pop"}, at' \notin {"out", "pop"},
             UNCHANGED <<messages, loggers, logged, delivered>>
      PROVE  UNCHANGED Channel!vars
  <2>1. \A l \in Loggers : ~Contains(remaining, l) /\ ~Contains(remaining', l)
    BY <1>1 DEF IInv, LoopOK, Contains
  <2>2. MappedQueue' = MappedQueue /\ MappedReceived' = MappedReceived
    BY <1>1, <2>1 DEF MappedQueue, MappedReceived
  <2> QED
    BY <1>1, <2>2, SameChannel
<1>2. CASE CheckEmpty \/ TakeFront \/ LeaveIfStopped \/ NotifyFlush \/ WaitMessage
  BY <1>1, <1>2 DEF CheckEmpty, TakeFront, LeaveIfStopped, NotifyFlush, WaitMessage
<1>3. CASE LockLoggers
  BY <1>3, HandsOut DEF Channel!Next
<1>4. CASE CallLogger
  BY <1>4, LoopStutters
<1>5. CASE PopMessage
  <2>1. MappedReceived = delivered /\ MappedReceived' = delivered /\ UNCHANGED <<loggers, logged>>
    <3>1. \A l \in Loggers : ~Contains(remaining, l) /\ ~Contains(remaining', l)
      BY <1>5 DEF IInv, LoopOK, PopMessage, Contains
    <3>2. delivered' = delivered /\ delivered \in [Loggers -> Seq(1..MaxMessages)]
      BY <1>5 DEF IInv, LogTypeOK, PopMessage
    <3> QED
      BY <1>5, <3>1, <3>2 DEF MappedReceived, PopMessage
  <2>2. MappedQueue' = MappedQueue
    BY <1>5 DEF PopMessage, MappedQueue
  <2> QED
    BY <2>1, <2>2, SameChannel
<1>6. ASSUME NEW c \in Clients, log(c) PROVE Channel!Next
  BY <1>6, LogSends DEF Channel!Next
<1>7. ASSUME NEW c \in Clients,
             LogNotify(c) \/ flush(c) \/ shutdown(c) \/ SeeDrained(c) \/ StopRunning(c) \/ NotifyStop(c)
             \/ JoinProcessor(c)
      PROVE  UNCHANGED Channel!vars
  <2>1. /\ UNCHANGED <<messages, loggers, logged, current, remaining, delivered>>
        /\ at' \in {"out", "pop"} <=> at \in {"out", "pop"}
    <3>1. CASE LogNotify(c) \/ NotifyStop(c)
      BY <3>1 DEF LogNotify, NotifyStop, Wake
    <3>2. CASE flush(c) \/ shutdown(c) \/ SeeDrained(c) \/ StopRunning(c) \/ JoinProcessor(c)
      BY <3>2 DEF flush, shutdown, SeeDrained, StopRunning, JoinProcessor, processVars
    <3> QED
      BY <1>7, <3>1, <3>2
  <2> QED
    BY <2>1, SameChannel DEF MappedQueue, MappedReceived, Contains
<1>8. ASSUME NEW c \in Clients, NEW l \in Loggers, registerLogger(c, l) \/ unregisterLogger(c, l)
      PROVE  Channel!Subscribe(l) \/ Channel!Unsubscribe(l)
  <2>1. UNCHANGED <<messages, logged, at, current, remaining, delivered>>
    BY <1>8 DEF registerLogger, unregisterLogger, processVars
  <2>2. MappedQueue' = MappedQueue /\ MappedReceived' = MappedReceived
    BY <2>1 DEF MappedQueue, MappedReceived, Contains
  <2>3. \/ ToSet(loggers') = ToSet(loggers) \cup {l}
        \/ ToSet(loggers') = ToSet(loggers) \ {l}
    BY <1>8, Registering
  <2> QED
    BY <2>1, <2>2, <2>3 DEF Channel!Subscribe, Channel!Unsubscribe, MappedQueue, MappedReceived
<1>9. CASE UNCHANGED logVars
  BY <1>9, SameChannel DEF logVars, MappedQueue, MappedReceived, Contains
<1> QED
  BY <1>2, <1>3, <1>4, <1>5, <1>6, <1>7, <1>8, <1>9
  DEF LogNext, process, ClientStep, ClientCall, Channel!Next

\* The logging system keeps the promise of MessageChannel: every message is handed
\* out once, in order, to the loggers registered at that moment.
THEOREM LoggingImplementsChannel == LogSpec => ImplementsChannel
BY Invariance, InitMaps, StepMaps, PTL DEF LogSpec, Channel!Spec, ImplementsChannel

-----------------------------------------------------------------------------
(* The composition *)

\* A step of the composition is a step of the logging system or leaves it alone.
LEMMA StepIsLogging == [Next]_vars => [LogNext]_logVars
<1> SUFFICES ASSUME [Next]_vars PROVE [LogNext]_logVars
  OBVIOUS
<1>0. Main \in Clients /\ Runners = Clients
  BY ServicesAssumption DEF Runners
<1>1. CASE Processor \/ OwnerLogs
  BY <1>0, <1>1 DEF Processor, OwnerLogs, LogNext, ClientCall
<1>2. CASE OwnerQueues
  BY <1>2 DEF OwnerQueues
<1>3. ASSUME NEW t \in Runners, JobLogs(t) \/ JobQueues(t) \/ Runs(t)
      PROVE  [LogNext]_logVars
  <2>1. CASE JobLogs(t)
    BY <1>0, <2>1 DEF JobLogs, LogNext, ClientCall
  <2>2. CASE JobQueues(t)
    BY <2>2 DEF JobQueues
  <2>3. CASE Runs(t)
    BY <1>0, <2>3 DEF Runs, JobReturns, LogNext
  <2> QED
    BY <1>3, <2>1, <2>2, <2>3
<1>4. CASE UNCHANGED vars
  BY <1>4 DEF vars
<1> QED
  BY <1>1, <1>2, <1>3, <1>4 DEF Next

\* The composition runs the logging system, whatever the worker and its jobs do.
THEOREM RunsLogging == Spec => LogSpec
<1>1. Init => LogInit
  BY DEF Init
<1> QED
  BY <1>1, StepIsLogging, PTL DEF Spec, LogSpec

-----------------------------------------------------------------------------
(* The background worker.                                                    *)

Pushing == {u \in Runners : queuing[u] \in {"background", "foreground"}}

\* Calls that have read exit_ but not yet entered a queue count against the bound.
WorkerInv == WorkerTypeOK /\ queued + Cardinality(Pushing) <= MaxJobs

\* The part of JobsAccounted that is about the jobs.
Accounted ==
  /\ 1..queued = Waiting \cup Taken \cup started
  /\ started \cap (Waiting \cup Taken) = {} /\ Waiting \cap Taken = {}
  /\ \A t, u \in Runners : runner[t] = "taken" /\ runner[u] = "taken" /\ job[t] = job[u] => t = u

\* Where the jobs are; no queue holds one twice.
JobSets ==
  /\ Accounted
  /\ IsInjective(backgroundJobs) /\ IsInjective(foregroundJobs)
  /\ Range(backgroundJobs) \cap Range(foregroundJobs) = {}

\* Only a thread inside a job queues another, except for the owner, which does neither
\* once it has entered the destructor; the destructor returns to ended threads.
StagesOK ==
  /\ \A w \in Workers : queuing[w] # "no" => InJob(w)
  /\ life # "alive" => runner[Main] = "idle" /\ queuing[Main] = "no"
  /\ life = "gone" => \A w \in Workers : runner[w] = "ended"

JobInv == WorkerInv /\ JobSets /\ StagesOK

\* A step of the worker, whoever takes it.
WorkerStep ==
  \/ \E q \in {"background", "foreground"} : life = "alive" /\ queueJob(Main, q)
  \/ \E t \in Runners :
       \/ /\ runner[t] = "run" /\ Goto(t, "ran")
          /\ UNCHANGED <<backgroundJobs, foregroundJobs, exit, queuing, queued, job, started, life>>
       \/ JobQueues(t) \/ JobDone(t) \/ QueueStep(t) \/ BackgroundStep(t)
  \/ Destroy \/ ForegroundStep

USE WorkerAssumption

\* A step of the composition is a step of the worker or leaves it alone.
LEMMA StepIsWorker == [Next]_vars => [WorkerStep]_workerVars
<1> SUFFICES ASSUME [Next]_vars PROVE [WorkerStep]_workerVars
  OBVIOUS
<1>0. Main \in Runners
  BY DEF Runners
<1>1. CASE Processor \/ OwnerLogs
  BY <1>1 DEF Processor, OwnerLogs
<1>2. CASE OwnerQueues
  BY <1>2 DEF OwnerQueues, WorkerStep
<1>3. ASSUME NEW t \in Runners, JobLogs(t) \/ JobQueues(t) \/ Runs(t)
      PROVE  [WorkerStep]_workerVars
  BY <1>3 DEF JobLogs, Runs, JobReturns, WorkerStep
<1>4. CASE UNCHANGED vars
  BY <1>4 DEF vars
<1> QED
  BY <1>1, <1>2, <1>3, <1>4 DEF Next

\* The set of pushing threads is finite, and grows or shrinks by one thread.
LEMMA PushingFinite ==
  /\ IsFiniteSet(Pushing) /\ Cardinality(Pushing) \in Nat
  /\ \A t \in Pushing : Cardinality(Pushing \ {t}) = Cardinality(Pushing) - 1
  /\ \A t \in Runners \ Pushing : Cardinality(Pushing \cup {t}) = Cardinality(Pushing) + 1
<1>1. IsFiniteSet(Runners)
  BY FS_AddElement DEF Runners
<1>2. IsFiniteSet(Pushing)
  BY <1>1, FS_Subset DEF Pushing
<1> QED
  BY <1>2, FS_CardinalityType, FS_RemoveElement, FS_AddElement

\* The worker starts in a state that satisfies its invariant.
LEMMA WorkerInitEstablishes == WorkerInit => WorkerInv
<1> SUFFICES ASSUME WorkerInit PROVE WorkerInv
  OBVIOUS
<1>1. Pushing = {}
  BY DEF WorkerInit, Pushing
<1>2. Cardinality(Pushing) = 0
  BY <1>1, FS_EmptySet
<1>3. backgroundJobs \in Seq(1..MaxJobs) /\ foregroundJobs \in Seq(1..MaxJobs)
  BY EmptySeq DEF WorkerInit
<1>4. runner \in [Runners -> RunnerStages] /\ queuing \in [Runners -> {"no", "background", "notify", "foreground"}]
  BY DEF WorkerInit, RunnerStages
<1>5. exit = FALSE /\ queued = 0 /\ started = {} /\ life = "alive"
  BY DEF WorkerInit
<1>6. started \in SUBSET (1..MaxJobs) /\ queued \in 0..MaxJobs
  BY <1>5
<1>8. job \in [Runners -> 0..MaxJobs]
  BY DEF WorkerInit
<1>7. WorkerTypeOK
  BY <1>3, <1>4, <1>5, <1>6, <1>8 DEF WorkerTypeOK
<1> QED
  BY <1>2, <1>5, <1>7 DEF WorkerInv

\* A step that pushes nothing: the queues can only lose a job.
LEMMA WorkerQuiet ==
  ASSUME WorkerInv, WorkerTypeOK', queued' = queued, Pushing' = Pushing
  PROVE  WorkerInv'
BY DEF WorkerInv

\* Jobs are taken off a queue.
LEMMA Taking ==
  ASSUME WorkerInv, NEW t \in Runners, TakeJob(t) \/ (t = Main /\ ForegroundJob)
  PROVE  WorkerInv'
<1> USE DEF WorkerInv, WorkerTypeOK, Take, Goto, TakeJob, ForegroundJob, RunnerStages
<1>1. CASE TakeJob(t)
  <2>1. backgroundJobs' \in Seq(1..MaxJobs) /\ Head(backgroundJobs) \in 1..MaxJobs
    BY <1>1, TailFacts
  <2>2. WorkerTypeOK'
    BY <1>1, <2>1
  <2>3. Pushing' = Pushing
    BY <1>1 DEF Pushing
  <2> QED
    BY <1>1, <2>2, <2>3
<1>2. CASE t = Main /\ ForegroundJob
  <2>1. foregroundJobs' \in Seq(1..MaxJobs) /\ Head(foregroundJobs) \in 1..MaxJobs
    BY <1>2, TailFacts
  <2>2. WorkerTypeOK'
    BY <1>2, <2>1
  <2>3. Pushing' = Pushing
    BY <1>2 DEF Pushing
  <2> QED
    BY <1>2, <2>2, <2>3
<1> QED
  BY <1>1, <1>2

\* The job that a thread has taken is called.
LEMMA Calls ==
  ASSUME WorkerInv, JobSets, NEW t \in Runners, CallJob(t)
  PROVE  WorkerInv'
<1>1. job[t] \in 1..MaxJobs
  BY DEF JobSets, Accounted, Taken, CallJob, WorkerInv, WorkerTypeOK
<1>3. started' \in SUBSET (1..MaxJobs)
  BY <1>1 DEF CallJob, WorkerInv, WorkerTypeOK
<1>4. job' \in [Runners -> 0..MaxJobs] /\ runner' \in [Runners -> RunnerStages]
  BY DEF CallJob, Goto, RunnerStages, WorkerInv, WorkerTypeOK
<1>2. WorkerTypeOK' /\ Pushing' = Pushing /\ queued' = queued
  BY <1>3, <1>4 DEF CallJob, WorkerInv, WorkerTypeOK, Pushing
<1> QED
  BY <1>2, WorkerQuiet

\* A thread that has read exit_ enters its job in a queue.
LEMMA Pushes ==
  ASSUME WorkerInv, NEW t \in Runners, PushBackground(t) \/ PushForeground(t)
  PROVE  WorkerInv'
<1> USE DEF WorkerInv, WorkerTypeOK, PushBackground, PushForeground, Queue
<1>1. t \in Pushing /\ Pushing' = Pushing \ {t}
  BY DEF Pushing
<1>2. Cardinality(Pushing') = Cardinality(Pushing) - 1 /\ Cardinality(Pushing) \in Nat
      /\ Cardinality(Pushing') \in Nat
  <2>1. IsFiniteSet(Pushing')
    BY <1>1, PushingFinite, FS_RemoveElement
  <2> QED
    BY <1>1, <2>1, PushingFinite, FS_CardinalityType
<1>3. queued' = queued + 1 /\ queued' \in 1..MaxJobs
  BY <1>2
<1>5. queued \in Nat /\ queued + Cardinality(Pushing) <= MaxJobs
  OBVIOUS
<1>4. WorkerTypeOK'
  <2>1. CASE PushBackground(t)
    <3>1. backgroundJobs' \in Seq(1..MaxJobs)
      BY <1>3, <2>1, AppendProperties
    <3> QED
      BY <1>3, <2>1, <3>1
  <2>2. CASE PushForeground(t)
    <3>1. foregroundJobs' \in Seq(1..MaxJobs)
      BY <1>3, <2>2, AppendProperties
    <3> QED
      BY <1>3, <2>2, <3>1
  <2> QED
    BY <2>1, <2>2
<1> HIDE DEF WorkerTypeOK, PushBackground, PushForeground, Queue
<1>6. queued' + Cardinality(Pushing') <= MaxJobs
  BY <1>2, <1>3, <1>5, WorkerAssumption
<1> QED
  BY <1>4, <1>6

\* A thread reads exit_ and is about to push.
LEMMA Begins ==
  ASSUME WorkerInv, NEW t \in Runners, NEW q \in {"background", "foreground"},
         MayQueue(t), Queue(t, q),
         UNCHANGED <<backgroundJobs, foregroundJobs, exit, queued, job, started, life>>,
         runner' = runner \/ Goto(t, "ran")
  PROVE  WorkerInv'
<1> USE DEF WorkerInv, WorkerTypeOK, MayQueue, Queue
<1>1. t \in Runners \ Pushing /\ Pushing' = Pushing \cup {t}
  BY DEF Pushing
<1>2. Cardinality(Pushing') = Cardinality(Pushing) + 1 /\ Cardinality(Pushing) \in Nat
  BY <1>1, PushingFinite
<1>3. queued + Cardinality(Pushing) < MaxJobs
  BY DEF Pushing
<1>4. WorkerTypeOK'
  BY DEF Goto, RunnerStages
<1>5. queued \in Nat /\ queued' = queued
  OBVIOUS
<1> HIDE DEF WorkerTypeOK, MayQueue, Queue
<1>6. queued' + Cardinality(Pushing') <= MaxJobs
  BY <1>2, <1>3, <1>5, WorkerAssumption
<1> QED
  BY <1>4, <1>6

\* Every step keeps the type of the worker's state and the bound on its jobs.
LEMMA WorkerStepPreserves == WorkerInv /\ JobSets /\ [WorkerStep]_workerVars => WorkerInv'
<1> SUFFICES ASSUME WorkerInv, JobSets, [WorkerStep]_workerVars PROVE WorkerInv'
  OBVIOUS
<1>1. ASSUME NEW t \in Runners, NEW q \in {"background", "foreground"}, queueJob(t, q) \/ JobQueues(t)
      PROVE  WorkerInv'
  BY <1>1, Begins DEF queueJob, JobQueues
<1>2. ASSUME NEW t \in Runners, PushBackground(t) \/ PushForeground(t)
      PROVE  WorkerInv'
  BY <1>2, Pushes
<1>3. ASSUME NEW t \in Runners, TakeJob(t) \/ (t = Main /\ ForegroundJob) \/ CallJob(t)
      PROVE  WorkerInv'
  BY <1>3, Taking, Calls
<1>4. ASSUME NEW t \in Runners,
             \/ /\ runner[t] = "run" /\ Goto(t, "ran")
                /\ UNCHANGED <<backgroundJobs, foregroundJobs, exit, queuing, queued, job, started, life>>
             \/ JobDone(t) \/ CheckExit(t) \/ SleepOrLeave(t)
      PROVE  WorkerInv'
  <2>1. UNCHANGED <<backgroundJobs, foregroundJobs, exit, queuing, queued, job, started, life>>
    BY <1>4 DEF JobDone, CheckExit, SleepOrLeave
  <2>2. runner' \in [Runners -> RunnerStages]
    BY <1>4 DEF JobDone, CheckExit, SleepOrLeave, Goto, RunnerStages, WorkerInv, WorkerTypeOK
  <2>3. WorkerTypeOK' /\ Pushing' = Pushing
    BY <2>1, <2>2 DEF WorkerInv, WorkerTypeOK, Pushing
  <2> QED
    BY <2>1, <2>3, WorkerQuiet
<1>5. ASSUME NEW t \in Runners, NotifyOne(t) PROVE WorkerInv'
  <2>1. UNCHANGED <<backgroundJobs, foregroundJobs, exit, queued, job, started, life>>
    BY <1>5 DEF NotifyOne
  <2>2. runner' \in [Runners -> RunnerStages]
    BY <1>5 DEF NotifyOne, Goto, Runners, RunnerStages, WorkerInv, WorkerTypeOK
  <2>3. queuing' = [queuing EXCEPT ![t] = "no"] /\ queuing[t] = "notify"
    BY <1>5 DEF NotifyOne, Queue
  <2>4. Pushing' = Pushing
    BY <2>3 DEF WorkerInv, WorkerTypeOK, Pushing
  <2>5. WorkerTypeOK'
    BY <2>1, <2>2, <2>3 DEF WorkerInv, WorkerTypeOK
  <2> QED
    BY <2>1, <2>4, <2>5, WorkerQuiet
<1>6. CASE Destroy \/ Update \/ UpdateDone \/ Joined
  <2>1. UNCHANGED <<backgroundJobs, foregroundJobs, queuing, queued, job, started>>
    BY <1>6 DEF Destroy, Update, UpdateDone, Joined
  <2>2. /\ runner' \in [Runners -> RunnerStages] /\ exit' \in BOOLEAN
        /\ life' \in {"alive", "joining", "gone"}
    BY <1>6 DEF Destroy, Update, UpdateDone, Joined, Goto, RunnerStages, WorkerInv, WorkerTypeOK
  <2>3. WorkerTypeOK' /\ Pushing' = Pushing
    BY <2>1, <2>2 DEF WorkerInv, WorkerTypeOK, Pushing
  <2> QED
    BY <2>1, <2>3, WorkerQuiet
<1>7. CASE UNCHANGED workerVars
  <2>1. WorkerTypeOK' /\ Pushing' = Pushing
    BY <1>7 DEF workerVars, WorkerInv, WorkerTypeOK, Pushing
  <2> QED
    BY <1>7, <2>1, WorkerQuiet DEF workerVars
<1>8. Main \in Runners
  BY DEF Runners
<1> QED
  BY <1>1, <1>2, <1>3, <1>4, <1>5, <1>6, <1>7, <1>8
  DEF WorkerStep, QueueStep, BackgroundStep, ForegroundStep

-----------------------------------------------------------------------------
(* Where the jobs are.                                                       *)

\* What is left of a queue without its head.
LEMMA RestOfQueue ==
  ASSUME NEW s \in Seq(1..MaxJobs), s # <<>>, IsInjective(s)
  PROVE  /\ IsInjective(Tail(s)) /\ Head(s) \in Range(s)
         /\ Range(Tail(s)) = Range(s) \ {Head(s)}
<1> DEFINE r == Tail(s)
<1>1. /\ r \in Seq(1..MaxJobs) /\ Len(r) = Len(s) - 1 /\ Len(s) \in Nat \ {0}
      /\ \A k \in 1..Len(r) : r[k] = s[k + 1]
      /\ Head(s) = s[1]
  BY TailFacts
<1>2. DOMAIN s = 1..Len(s) /\ DOMAIN r = 1..Len(r)
  BY <1>1, LenProperties
<1> HIDE DEF r
<1>3. \A a, b \in 1..Len(s) : s[a] = s[b] => a = b
  BY <1>2 DEF IsInjective
<1>4. IsInjective(r)
  <2> SUFFICES ASSUME NEW a \in 1..Len(r), NEW b \in 1..Len(r), r[a] = r[b] PROVE a = b
    BY <1>2 DEF IsInjective
  <2>1. s[a + 1] = s[b + 1]
    BY <1>1
  <2>2. a \in Nat /\ b \in Nat /\ a + 1 \in 1..Len(s) /\ b + 1 \in 1..Len(s)
    BY <1>1
  <2>3. a + 1 = b + 1
    BY <1>3, <2>1, <2>2
  <2> QED
    BY <2>2, <2>3
<1>5. Head(s) \in Range(s)
  BY <1>1, <1>2 DEF Range
<1>6. ASSUME NEW x \in Range(r) PROVE x \in Range(s) \ {Head(s)}
  <2>1. PICK k \in 1..Len(r) : x = r[k]
    BY <1>2 DEF Range
  <2>2. k + 1 \in 1..Len(s) /\ k + 1 # 1 /\ x = s[k + 1] /\ 1 \in 1..Len(s)
    BY <1>1, <2>1
  <2> QED
    BY <1>1, <1>2, <1>3, <2>2 DEF Range
<1>7. ASSUME NEW x \in Range(s) \ {Head(s)} PROVE x \in Range(r)
  <2>1. PICK m \in 1..Len(s) : x = s[m]
    BY <1>2 DEF Range
  <2>2. m # 1
    BY <1>1, <2>1
  <2>3. m - 1 \in 1..Len(r) /\ r[m - 1] = x
    BY <1>1, <2>1, <2>2
  <2> QED
    BY <1>2, <2>3 DEF Range
<1> QED
  BY <1>4, <1>5, <1>6, <1>7 DEF r

\* A queue with a new job at its end.
LEMMA LongerQueue ==
  ASSUME NEW s \in Seq(1..MaxJobs), NEW x \in 1..MaxJobs, IsInjective(s), x \notin Range(s)
  PROVE  IsInjective(Append(s, x)) /\ Range(Append(s, x)) = Range(s) \cup {x}
<1>1. ~Contains(s, x) /\ ToSet(s) = Range(s) /\ ToSet(Append(s, x)) = Range(Append(s, x))
  BY LenProperties DEF Contains, Range, ToSet
<1> QED
  BY <1>1, AppendFacts

\* A step that neither queues, takes nor calls a job.
LEMMA JobsStay ==
  ASSUME JobSets, UNCHANGED <<backgroundJobs, foregroundJobs, queued, job, started>>,
         \A u \in Runners : runner'[u] = "taken" <=> runner[u] = "taken"
  PROVE  JobSets'
<1>1. Taken' = Taken /\ Waiting' = Waiting
  BY DEF Taken, Waiting
<1> QED
  BY <1>1 DEF JobSets, Accounted

\* The first job of either queue moves into the hands of a thread.
LEMMA JobTaken ==
  ASSUME JobSets, WorkerInv, NEW t \in Runners, TakeJob(t) \/ (t = Main /\ ForegroundJob)
  PROVE  JobSets'
<1> USE DEF JobSets, Accounted, Waiting
<1>1. PICK x \in Waiting :
        /\ job' = [job EXCEPT ![t] = x] /\ runner' = [runner EXCEPT ![t] = "taken"]
        /\ runner[t] # "taken"
        /\ Waiting' = Waiting \ {x}
        /\ IsInjective(backgroundJobs') /\ IsInjective(foregroundJobs')
        /\ Range(backgroundJobs') \cap Range(foregroundJobs') = {}
        /\ UNCHANGED <<queued, started>>
  <2>1. CASE TakeJob(t)
    <3>1. /\ IsInjective(backgroundJobs') /\ Head(backgroundJobs) \in Range(backgroundJobs)
          /\ Range(backgroundJobs') = Range(backgroundJobs) \ {Head(backgroundJobs)}
      BY <2>1, RestOfQueue DEF TakeJob, WorkerInv, WorkerTypeOK
    <3>2. Head(backgroundJobs) \in Waiting
      BY <3>1
    <3> WITNESS Head(backgroundJobs) \in Waiting
    <3> QED
      BY <2>1, <3>1 DEF TakeJob, Take, Goto
  <2>2. CASE t = Main /\ ForegroundJob
    <3>1. /\ IsInjective(foregroundJobs') /\ Head(foregroundJobs) \in Range(foregroundJobs)
          /\ Range(foregroundJobs') = Range(foregroundJobs) \ {Head(foregroundJobs)}
      BY <2>2, RestOfQueue DEF ForegroundJob, WorkerInv, WorkerTypeOK
    <3>2. Head(foregroundJobs) \in Waiting
      BY <3>1
    <3> WITNESS Head(foregroundJobs) \in Waiting
    <3> QED
      BY <2>2, <3>1 DEF ForegroundJob, Take, Goto
  <2> QED
    BY <2>1, <2>2
<1> HIDE DEF Waiting
<1>2. job'[t] = x /\ runner'[t] = "taken" /\ \A u \in Runners \ {t} : job'[u] = job[u] /\ runner'[u] = runner[u]
  BY <1>1 DEF WorkerInv, WorkerTypeOK
<1>3. Taken' = Taken \cup {x}
  BY <1>1, <1>2 DEF Taken
<1>4. x \notin Taken /\ x \notin started
  BY <1>1
<1>5. ASSUME NEW a \in Runners, NEW b \in Runners,
             runner'[a] = "taken", runner'[b] = "taken", job'[a] = job'[b]
      PROVE  a = b
  BY <1>2, <1>4, <1>5 DEF Taken
<1> QED
  BY <1>1, <1>3, <1>4, <1>5

\* A job is called by the thread that has taken it.
LEMMA JobCalled ==
  ASSUME JobSets, WorkerInv, NEW t \in Runners, CallJob(t)
  PROVE  JobSets'
<1> USE DEF JobSets, Accounted
<1>1. /\ runner[t] = "taken" /\ runner'[t] = "run" /\ started' = started \cup {job[t]}
      /\ \A u \in Runners \ {t} : job'[u] = job[u] /\ runner'[u] = runner[u]
      /\ UNCHANGED <<backgroundJobs, foregroundJobs, queued>>
  BY DEF CallJob, Goto, WorkerInv, WorkerTypeOK
<1>2. Taken' = Taken \ {job[t]} /\ job[t] \in Taken
  BY <1>1 DEF Taken
<1>3. Waiting' = Waiting
  BY <1>1 DEF Waiting
<1> QED
  BY <1>1, <1>2, <1>3

\* A new job enters one of the queues.
LEMMA JobPushed ==
  ASSUME JobSets, WorkerInv, NEW t \in Runners, PushBackground(t) \/ PushForeground(t)
  PROVE  JobSets'
<1> USE DEF JobSets, Accounted
<1>0. queued' = queued + 1 /\ queued' \in 1..MaxJobs /\ queued \in Nat
  <2>1. WorkerInv'
    BY Pushes
  <2> QED
    BY <2>1 DEF PushBackground, PushForeground, WorkerInv, WorkerTypeOK
<1>1. queued' \notin Waiting \cup Taken \cup started /\ 1..queued' = (1..queued) \cup {queued'}
  BY <1>0
<1>2. /\ Waiting' = Waiting \cup {queued'}
      /\ IsInjective(backgroundJobs') /\ IsInjective(foregroundJobs')
      /\ Range(backgroundJobs') \cap Range(foregroundJobs') = {}
  <2>1. CASE PushBackground(t)
    <3>1. IsInjective(backgroundJobs') /\ Range(backgroundJobs') = Range(backgroundJobs) \cup {queued'}
      BY <1>0, <1>1, <2>1, LongerQueue DEF PushBackground, WorkerInv, WorkerTypeOK, Waiting
    <3> QED
      BY <1>1, <2>1, <3>1 DEF PushBackground, Waiting
  <2>2. CASE PushForeground(t)
    <3>1. IsInjective(foregroundJobs') /\ Range(foregroundJobs') = Range(foregroundJobs) \cup {queued'}
      BY <1>0, <1>1, <2>2, LongerQueue DEF PushForeground, WorkerInv, WorkerTypeOK, Waiting
    <3> QED
      BY <1>1, <2>2, <3>1 DEF PushForeground, Waiting
  <2> QED
    BY <2>1, <2>2
<1>3. Taken' = Taken /\ UNCHANGED <<started, runner, job>>
  BY DEF PushBackground, PushForeground, Taken
<1> QED
  BY <1>1, <1>2, <1>3

\* Every step keeps track of the jobs.
LEMMA JobSetsPreserved == WorkerInv /\ JobSets /\ [WorkerStep]_workerVars => JobSets'
<1> SUFFICES ASSUME WorkerInv, JobSets, [WorkerStep]_workerVars PROVE JobSets'
  OBVIOUS
<1>1. ASSUME NEW t \in Runners,
             \/ TakeJob(t) \/ (t = Main /\ ForegroundJob) \/ CallJob(t)
             \/ PushBackground(t) \/ PushForeground(t)
      PROVE  JobSets'
  BY <1>1, JobTaken, JobCalled, JobPushed
<1>2. ASSUME NEW t \in Runners, NEW q \in {"background", "foreground"},
             \/ queueJob(t, q) \/ JobQueues(t) \/ JobDone(t)
             \/ CheckExit(t) \/ SleepOrLeave(t) \/ NotifyOne(t)
             \/ /\ runner[t] = "run" /\ Goto(t, "ran")
                /\ UNCHANGED <<backgroundJobs, foregroundJobs, exit, queuing, queued, job, started, life>>
      PROVE  JobSets'
  <2>1. UNCHANGED <<backgroundJobs, foregroundJobs, queued, job, started>>
    BY <1>2 DEF queueJob, JobQueues, JobDone, CheckExit, SleepOrLeave, NotifyOne
  <2>2. \A u \in Runners : runner'[u] = "taken" <=> runner[u] = "taken"
    BY <1>2 DEF queueJob, JobQueues, JobDone, InJob, CheckExit, SleepOrLeave, NotifyOne, Goto,
       Runners, WorkerInv, WorkerTypeOK
  <2> QED
    BY <2>1, <2>2, JobsStay
<1>3. CASE Destroy \/ Update \/ UpdateDone \/ Joined \/ UNCHANGED workerVars
  <2>1. UNCHANGED <<backgroundJobs, foregroundJobs, queued, job, started>>
    BY <1>3 DEF Destroy, Update, UpdateDone, Joined, workerVars
  <2>2. \A u \in Runners : runner'[u] = "taken" <=> runner[u] = "taken"
    BY <1>3 DEF Destroy, Update, UpdateDone, Joined, workerVars, Goto, Runners, WorkerInv, WorkerTypeOK
  <2> QED
    BY <2>1, <2>2, JobsStay
<1>4. Main \in Runners
  BY DEF Runners
<1> QED
  BY <1>1, <1>2, <1>3, <1>4 DEF WorkerStep, QueueStep, BackgroundStep, ForegroundStep

\* Every step keeps the threads where they belong.
LEMMA StagesPreserved == WorkerInv /\ StagesOK /\ [WorkerStep]_workerVars => StagesOK'
<1> SUFFICES ASSUME WorkerInv, StagesOK, [WorkerStep]_workerVars PROVE StagesOK'
  OBVIOUS
<1> USE DEF StagesOK, InJob, Goto, Queue, WorkerInv, WorkerTypeOK
<1>0. Main \in Runners /\ Main \notin Workers /\ Workers \subseteq Runners
  BY DEF Runners
<1>1. CASE \E q \in {"background", "foreground"} : life = "alive" /\ queueJob(Main, q)
  BY <1>0, <1>1 DEF queueJob
<1>2. ASSUME NEW t \in Runners, JobQueues(t)
      PROVE  StagesOK'
  BY <1>0, <1>2 DEF JobQueues
<1>3. ASSUME NEW t \in Runners,
             \/ JobDone(t)
             \/ /\ runner[t] = "run" /\ Goto(t, "ran")
                /\ UNCHANGED <<backgroundJobs, foregroundJobs, exit, queuing, queued, job, started, life>>
      PROVE  StagesOK'
  BY <1>0, <1>3 DEF JobDone
<1>4. ASSUME NEW t \in Runners, PushBackground(t) \/ PushForeground(t) PROVE StagesOK'
  BY <1>0, <1>4 DEF PushBackground, PushForeground
<1>5. ASSUME NEW t \in Runners, NotifyOne(t) PROVE StagesOK'
  <2>1. CASE UNCHANGED runner
    BY <1>0, <1>5, <2>1 DEF NotifyOne
  <2>2. CASE \E w \in Workers : runner[w] = "asleep" /\ Goto(w, "wait")
    <3>1. PICK w \in Workers : runner[w] = "asleep" /\ runner' = [runner EXCEPT ![w] = "wait"]
      BY <2>2
    <3>2. queuing[w] = "no" /\ life # "gone" /\ w # Main
      BY <1>0, <3>1
    <3> QED
      BY <1>0, <1>5, <3>1, <3>2 DEF NotifyOne
  <2> QED
    BY <1>5, <2>1, <2>2 DEF NotifyOne
<1>6. ASSUME NEW t \in Runners, CheckExit(t) \/ SleepOrLeave(t) \/ TakeJob(t) PROVE StagesOK'
  BY <1>0, <1>6 DEF CheckExit, SleepOrLeave, TakeJob, Take
<1>7. ASSUME NEW t \in Runners, CallJob(t) PROVE StagesOK'
  BY <1>0, <1>7 DEF CallJob
<1>8. CASE Destroy
  BY <1>0, <1>8 DEF Destroy
<1>9. CASE Update \/ UpdateDone \/ ForegroundJob
  BY <1>0, <1>9 DEF Update, UpdateDone, ForegroundJob, Take
<1>10. CASE Joined \/ UNCHANGED workerVars
  BY <1>0, <1>10 DEF Joined, workerVars
<1> QED
  BY <1>1, <1>2, <1>3, <1>4, <1>5, <1>6, <1>7, <1>8, <1>9, <1>10
  DEF WorkerStep, QueueStep, BackgroundStep, ForegroundStep

\* The worker's invariant holds in every reachable state of the composition.
THEOREM WorkerInvariance == Spec => []JobInv
<1>1. Init => JobInv
  <2> SUFFICES ASSUME Init PROVE JobInv
    OBVIOUS
  <2>1. WorkerInv
    BY WorkerInitEstablishes DEF Init
  <2>2. Waiting = {} /\ Taken = {} /\ started = {} /\ queued = 0
    BY DEF Init, WorkerInit, Waiting, Taken, Range
  <2>3. \A t, u \in Runners : runner[t] # "taken"
    BY DEF Init, WorkerInit
  <2>4. JobSets
    BY <2>2, <2>3 DEF JobSets, Accounted, Init, WorkerInit, IsInjective, Range
  <2>5. StagesOK
    BY DEF StagesOK, Init, WorkerInit, Runners
  <2> QED
    BY <2>1, <2>4, <2>5 DEF JobInv
<1>2. JobInv /\ [Next]_vars => JobInv'
  BY StepIsWorker, WorkerStepPreserves, JobSetsPreserved, StagesPreserved DEF JobInv
<1> QED
  BY <1>1, <1>2, PTL DEF Spec

\* Both services keep the type of their state.
THEOREM TypeCorrect == Spec => []TypeOK
<1>1. JobInv => WorkerTypeOK
  BY DEF JobInv, WorkerInv
<1>2. LogTypeOK /\ WorkerTypeOK => TypeOK
  BY DEF TypeOK
<1> QED
  BY <1>1, <1>2, WorkerInvariance, RunsLogging, LogTypeCorrect, PTL

\* No job is lost or called twice, wherever the threads are when exit_ is set, and none is
\* about to run, runs or queues another once the destructor has returned.
THEOREM JobsAccountedHolds == Spec => []JobsAccounted
<1>1. JobInv => JobsAccounted
  <2> SUFFICES ASSUME JobInv PROVE JobsAccounted
    OBVIOUS
  <2>1. Accounted
    BY DEF JobInv, JobSets
  <2>2. life = "gone" => \A t \in Runners : runner[t] # "taken" /\ ~InJob(t) /\ queuing[t] = "no"
    BY DEF JobInv, StagesOK, InJob, Runners
  <2> QED
    BY <2>1, <2>2 DEF JobsAccounted, Accounted
<1> QED
  BY <1>1, WorkerInvariance, PTL

\* In the composition only registered loggers are called.
THEOREM ServicesLoggersAlive == Spec => []CalledIsRegistered
BY RunsLogging, LoggersAlive, PTL

\* In the composition a shutdown hands out every message logged before it.
THEOREM ServicesShutdownComplete == Spec => []ShutdownDelivers
BY RunsLogging, ShutdownComplete, PTL

\* In the composition the logging system keeps the promise of MessageChannel.
THEOREM ServicesImplementChannel == Spec => ImplementsChannel
BY RunsLogging, LoggingImplementsChannel, PTL
=============================================================================
