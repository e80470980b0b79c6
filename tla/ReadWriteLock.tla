---------------------------- MODULE ReadWriteLock ----------------------------
(***************************************************************************)
(* core_common/wg_read_write_lock: a reader/writer lock made of a mutex, a *)
(* writer flag, a reader count and one condition variable, and the two     *)
(* guard classes every client takes it through.                            *)
(*                                                                         *)
(* A guard object is an element of Guards; ThreadOf says which thread      *)
(* constructs it.  A thread that copies a read guard (the copy constructor *)
(* locks again) simply owns several guards, so recursive reading needs no  *)
(* counter per thread.  Everything a member function does while it holds   *)
(* mutex_ is one step; blocking in unlocked_.wait is membership in         *)
(* "waiting", which notify_all empties.                                    *)
(***************************************************************************)
EXTENDS Integers, FiniteSets

CONSTANTS Threads,      \* the threads that use the lock
          Guards,       \* guard objects; each is constructed at most once
          ThreadOf      \* [Guards -> Threads]

ASSUME GuardsAssumption ==
  /\ IsFiniteSet(Guards)
  /\ ThreadOf \in [Guards -> Threads]

VARIABLES
  writer,     \* writer_
  readers,    \* readers_
  guard,      \* stage of each guard object
  waiting     \* guards whose constructor is blocked in unlocked_.wait

vars == <<writer, readers, guard, waiting>>

Stages == {"unborn", "readCall", "reading", "writeCall", "writing", "dead"}

Mine(g) == {h \in Guards : ThreadOf[h] = ThreadOf[g]}
Calling(h) == guard[h] \in {"readCall", "writeCall"}

ReadHeld == {g \in Guards : guard[g] = "reading"}
WriteHeld == {g \in Guards : guard[g] = "writing"}

Init ==
  /\ writer = FALSE
  /\ readers = 0
  /\ guard = [g \in Guards |-> "unborn"]
  /\ waiting = {}

-----------------------------------------------------------------------------
\* A thread constructs a guard: it runs one constructor at a time.  Read guards
\* nest; no client takes the lock for writing while it holds it.
EnterRead(g) ==
  /\ guard[g] = "unborn"
  /\ \A h \in Mine(g) : ~Calling(h) /\ guard[h] # "writing"
  /\ guard' = [guard EXCEPT ![g] = "readCall"]
  /\ UNCHANGED <<writer, readers, waiting>>

EnterWrite(g) ==
  /\ guard[g] = "unborn"
  /\ \A h \in Mine(g) : guard[h] \in {"unborn", "dead"}
  /\ guard' = [guard EXCEPT ![g] = "writeCall"]
  /\ UNCHANGED <<writer, readers, waiting>>

(* Definitions whose name ends in Faulty are plausible mistakes; nothing refers to *)
(* them, they document which property would notice.                               *)

\* Writers first: a reader also waits behind a queued writer.
ReadWaitFaulty(g) ==
  /\ guard[g] = "readCall" /\ g \notin waiting
  /\ writer \/ \E h \in waiting : guard[h] = "writeCall"
  /\ waiting' = waiting \cup {g}
  /\ UNCHANGED <<writer, readers, guard>>

\* One turn of the loop of read_lock under mutex_.
ReadWait(g) ==
  /\ guard[g] = "readCall" /\ g \notin waiting
  /\ writer
  /\ waiting' = waiting \cup {g}
  /\ UNCHANGED <<writer, readers, guard>>

ReadLock(g) ==
  /\ guard[g] = "readCall" /\ g \notin waiting
  /\ ~writer
  /\ readers' = readers + 1
  /\ guard' = [guard EXCEPT ![g] = "reading"]
  /\ UNCHANGED <<writer, waiting>>

\* One turn of the loop of write_lock under mutex_.
WriteWait(g) ==
  /\ guard[g] = "writeCall" /\ g \notin waiting
  /\ writer \/ 0 < readers
  /\ waiting' = waiting \cup {g}
  /\ UNCHANGED <<writer, readers, guard>>

\* The writer looks at the writer flag alone.
WriteLockFaulty(g) ==
  /\ guard[g] = "writeCall" /\ g \notin waiting
  /\ ~writer
  /\ writer' = TRUE
  /\ guard' = [guard EXCEPT ![g] = "writing"]
  /\ UNCHANGED <<readers, waiting>>

WriteLock(g) ==
  /\ guard[g] = "writeCall" /\ g \notin waiting
  /\ ~(writer \/ 0 < readers)
  /\ writer' = TRUE
  /\ guard' = [guard EXCEPT ![g] = "writing"]
  /\ UNCHANGED <<readers, waiting>>

\* No clamp and the wrong comparison: the last reader does not notify.
ReadUnlockSilentFaulty(g) ==
  /\ guard[g] = "reading"
  /\ \A h \in Mine(g) : ~Calling(h)
  /\ guard' = [guard EXCEPT ![g] = "dead"]
  /\ readers' = readers - 1
  /\ UNCHANGED <<writer, waiting>>

\* The first reader to leave resets the count.
ReadUnlockResetFaulty(g) ==
  /\ guard[g] = "reading"
  /\ \A h \in Mine(g) : ~Calling(h)
  /\ guard' = [guard EXCEPT ![g] = "dead"]
  /\ readers' = 0
  /\ waiting' = {}
  /\ UNCHANGED writer

\* The count is clamped at zero and only the last reader notifies.
ReadUnlock(g) ==
  /\ guard[g] = "reading"
  /\ \A h \in Mine(g) : ~Calling(h)
  /\ guard' = [guard EXCEPT ![g] = "dead"]
  /\ IF 0 >= readers - 1
       THEN readers' = 0 /\ waiting' = {}
       ELSE readers' = readers - 1 /\ UNCHANGED waiting
  /\ UNCHANGED writer

WriteUnlock(g) ==
  /\ guard[g] = "writing"
  /\ writer' = FALSE
  /\ waiting' = {}
  /\ guard' = [guard EXCEPT ![g] = "dead"]
  /\ UNCHANGED readers

\* What the thread that runs the constructor or the destructor of g does next.
Progress(g) ==
  \/ ReadWait(g) \/ ReadLock(g) \/ WriteWait(g) \/ WriteLock(g)
  \/ ReadUnlock(g) \/ WriteUnlock(g)

Next == \E g \in Guards : EnterRead(g) \/ EnterWrite(g) \/ Progress(g)

Spec == Init /\ [][Next]_vars

\* Threads keep running, leave their critical sections, and a notified thread
\* runs again.
FairSpec == Spec /\ \A g \in Guards : WF_vars(Progress(g))

-----------------------------------------------------------------------------
\* The type of the state.
TypeOK ==
  /\ writer \in BOOLEAN
  /\ readers \in Nat
  /\ guard \in [Guards -> Stages]
  /\ waiting \in SUBSET Guards

\* A thread runs one constructor at a time, takes the lock for writing only when
\* it holds nothing, and only threads inside a constructor sleep.
CallDiscipline ==
  /\ waiting \subseteq {g \in Guards : Calling(g)}
  /\ \A g \in Guards : \A h \in Mine(g) \ {g} :
       /\ Calling(g) => ~Calling(h)
       /\ guard[g] = "writeCall" => guard[h] \in {"unborn", "dead"}

\* A writer is alone: nobody reads and nobody else writes while a write guard is
\* held (wg_read_write_lock::write_lock, read_lock).
Exclusion ==
  \A g \in WriteHeld : ReadHeld = {} /\ WriteHeld = {g}

\* readers_ is the number of live read guards, copies included, so the clamp in
\* read_unlock never hides an unbalanced unlock.
ReadersCounted ==
  /\ readers = Cardinality(ReadHeld)
  /\ writer <=> WriteHeld # {}

\* The lock is what the rest of the program takes it for: its counters, flag and
\* sleeping threads implement the lock whose guards are taken and dropped in one
\* step each, any number of readers or one writer.
Shared == INSTANCE SharedLock WITH reading <- ReadHeld, writing <- WriteHeld
ImplementsSharedLock == Shared!Spec

\* No wake-up is lost: a constructor sleeps in unlocked_ only while some guard is
\* held whose destructor will notify it, although readers but the last one leave
\* without notifying.
NoLostWakeup ==
  waiting # {} => ReadHeld # {} \/ WriteHeld # {}

\* A thread that already reads is never put to sleep by a nested read lock (the
\* copy constructor of wg_read_lock_guard), although a writer may be queueing.
NestedReadNeverBlocks ==
  \A g \in waiting : \A h \in Mine(g) : guard[h] # "reading"

\* Every constructor returns once the guards it contends with are finitely many:
\* no combination of sleeping readers and writers is stuck.
EveryCallReturns ==
  \A g \in Guards : Calling(g) ~> ~Calling(g)
=============================================================================
