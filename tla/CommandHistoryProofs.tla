------------------------- MODULE CommandHistoryProofs -------------------------
(***************************************************************************)
(* For any commands, any bounds and any use of the manager: the order in   *)
(* which commands finish; where currentIndex_, previousSelectedIndex_ and  *)
(* index_ point while undo, redo, moveCommandIndex and removeCommands are  *)
(* under way; what may enter the history; and the type of the whole state. *)
(* The last parts say what every step does to the documents, and what the  *)
(* instances have recorded, for CommandDocumentProofs.                     *)
(***************************************************************************)
EXTENDS CommandManagerProofs

-----------------------------------------------------------------------------
(* The invariant holds *)

LEMMA InitOrdered == Init => OInv
<1> SUFFICES ASSUME Init PROVE OInv
  OBVIOUS
<1>1. Basics /\ Ids = {}
  BY InitEstablishes, BasicsHold DEF Init, Ids
<1>2. /\ Depth = 1 /\ Inst(1) = Root /\ Queue(1) = <<>> /\ Groups(1) = <<Root>>
      /\ Len(Queue(1)) = 0 /\ Len(Groups(1)) = 1
  BY DEF Init, Depth, Inst, Queue, Groups, MakeFrame
<1>3. \A t \in Threads : stack[t] = <<>> /\ \A k, at, i : ~Does(t, k, at, i)
  BY DEF Init, Does
<1>4. \A n \in 1 .. Depth : n = 1 /\ ~(n \in 2 .. Depth) /\ ~(n \in 1 .. Depth - 1)
  BY <1>2
<1>5. \A n : ~(n \in 2 .. Depth) /\ ~(n \in 1 .. Depth - 1)
  BY <1>2
<1>6. \A a : ~(a \in 1 .. 0) /\ ~(a \in 2 .. 1)
  OBVIOUS
<1>7. Recorded /\ OwnerActs
  BY <1>1, <1>3 DEF Recorded, OwnerActs
<1>8. Homes
  BY <1>1, <1>2, <1>4, <1>5, <1>6 DEF Homes
<1>9. Grouped
  BY <1>2, <1>4, <1>5, <1>6 DEF Grouped
<1>10. Nestings /\ Spinning
  BY <1>3, <1>5 DEF Nestings, Spinning
<1>11. QueueOrder
  BY <1>2, <1>4, <1>5, <1>6 DEF QueueOrder
<1>12. Statuses /\ Accounted /\ Fifo /\ HomeThere
  BY <1>1, <1>3 DEF Statuses, Accounted, Fifo, HomeThere
<1> QED
  BY <1>7, <1>8, <1>9, <1>10, <1>11, <1>12 DEF OInv, Placed, Ordered

LEMMA StepOrdered == IInv /\ OInv /\ [Next]_vars => OInv'
<1> SUFFICES ASSUME IInv, OInv, [Next]_vars PROVE OInv'
  OBVIOUS
<1>1. IInv' /\ Basics /\ Recorded /\ OwnerActs /\ StackShape
  BY StepPreserves, BasicsHold DEF OInv, IInv, Shape
<1>2. Basics' /\ StepKind
  BY <1>1, BasicsNext, EveryStepKind
<1>3. Kept /\ Recorded'
  BY <1>1, <1>2, KeptStep
<1>4. OwnerActs'
  BY <1>1, OwnerActsStep
<1>5. Placed'
  BY <1>1, <1>2, <1>3, HomesStep, GroupedStep, NestingsStep, SpinningStep, QueueOrderStep DEF Placed
<1>6. Ordered'
  BY <1>1, <1>2, <1>3, StatusesStep, AccountedStep, FifoStep, HomeThereStep DEF Ordered
<1> QED
  BY <1>3, <1>4, <1>5, <1>6 DEF OInv

\* Where every instance is, and what of it is finished, whatever the threads do.
THEOREM OrderInvariance == Spec => [](IInv /\ OInv)
<1>1. Init => IInv /\ OInv
  BY InitEstablishes, InitOrdered
<1>2. IInv /\ OInv /\ [Next]_vars => (IInv /\ OInv)'
  BY StepPreserves, StepOrdered
<1> QED
  BY <1>1, <1>2, PTL DEF Spec

\* popFrame pops a frame whose batches are closed and whose queue is used up: see
\* PopFrameAsserts.
THEOREM PopFrameAssertsHolds == Spec => []PopFrameAsserts
<1>1. IInv /\ OInv => PopFrameAsserts
  <2> SUFFICES ASSUME IInv, OInv, NEW t \in Threads, At(t, "spin"), ~SubCommandsLeft(Top(t).inst)
               PROVE  /\ BackFrame.commandStack = <<Top(t).inst>>
                      /\ BackFrame.stackQueue = <<Top(t).inst>>
                      /\ Len(commandFrames) > 1
    BY DEF PopFrameAsserts
  <2> DEFINE L == Depth
  <2>1. /\ Inst(L) = Top(t).inst /\ Queue(L) = <<>> /\ L > 1 /\ L \in Nat
        /\ BackFrame = commandFrames[L]
        /\ Len(stack[t]) \in Owning(t) /\ Top(t) = stack[t][Len(stack[t])]
    BY PopReached
  <2>2. Does(t, Len(stack[t]), "spin", Inst(L)) /\ L \in 2 .. Depth /\ L \in 1 .. Depth
    BY <2>1 DEF Does, At, Owning
  <2>3. Len(Open(L)) = 1
    BY <2>2 DEF OInv, Placed, Spinning
  <2>4. Len(Groups(L)) = 1
    <3>1. PICK d : Nested(L, d)
      BY <2>2 DEF OInv, Placed, Nestings
    <3>2. Len(Queue(L)) + 1 = 1 /\ ~(L < Depth)
      BY <2>1
    <3>3. d[1] = Len(Open(L)) /\ d[1] = Len(Groups(L))
      BY <3>1, <3>2 DEF Nested, Standing
    <3> QED
      BY <2>3, <3>3
  <2>5. Groups(L)[1] = Inst(L) /\ Open(L)[1] = Inst(L)
    BY <2>2 DEF OInv, Placed, Grouped, Nestings
  <2>6. Groups(L) \in Seq(Nat) /\ Open(L) \in Seq(Nat)
    <3>1. commandFrames[L] \in FrameRecord
      BY <2>2 DEF IInv, Shape, Depth
    <3> QED
      BY <3>1 DEF FrameRecord, Groups, Open
  <2>7. \A s \in Seq(Nat) : Len(s) = 1 => s = <<s[1]>>
    OBVIOUS
  <2>8. Groups(L) = <<Inst(L)>> /\ Open(L) = <<Inst(L)>>
    BY <2>3, <2>4, <2>5, <2>6, <2>7
  <2> QED
    BY <2>1, <2>8 DEF Groups, Open, Depth
<1> QED
  BY <1>1, OrderInvariance, PTL

\* The commands of a frame finish in the order they were queued: see FifoCompletion.
THEOREM FifoCompletionHolds == Spec => []FifoCompletion
<1>1. OInv => FifoCompletion
  BY DEF OInv, Ordered, Fifo, Finished, FifoCompletion
<1> QED
  BY <1>1, OrderInvariance, PTL

\* A command is complete only after everything it queued: see SubCommandsFirst.
THEOREM SubCommandsFirstHolds == Spec => []SubCommandsFirst
<1>1. IInv /\ OInv => SubCommandsFirst
  <2> SUFFICES ASSUME IInv, OInv, NEW i \in Ids, instances[i].home # Root,
                      Complete(instances[i].home)
               PROVE  Finished(i) \/ LeftBehind(i)
    BY DEF SubCommandsFirst, Finished, LeftBehind, Closing
  <2> DEFINE h == instances[i].home
  <2>1. InFrame(h) => h \in Ids
    BY BasicsHold, PlacesInIds DEF OInv, Placed
  <2>2. ~InFrame(h)
    BY <2>1 DEF OInv, Ordered, Statuses, Complete
  <2> QED
    BY <2>2 DEF OInv, Ordered, HomeThere
<1> QED
  BY <1>1, OrderInvariance, PTL

-----------------------------------------------------------------------------
(* The indices into the history *)

\* The call that undoes or redoes is waiting for its job i.
Waits(i) == 2 \in DOMAIN stack[Owner] /\ stack[Owner][2].at \in Waiting /\ stack[Owner][2].inst = i

Moving == Calling("move")
Job(i) == i \in Ids /\ instances[i].kind = "undoRedo" /\ ~Complete(i)

\* Outside moveCommandIndex the indices agree and no job is unfinished; inside, the
\* only unfinished job is the one it waits for, which moves to where the index points,
\* unless the history has since been extended.
Selected ==
  /\ previousSelectedIndex \in NoSelection .. Len(history) - 1
  /\ currentIndex \in Int /\ currentIndex >= NoSelection
  /\ index \in NoSelection .. Len(history) - 1
  /\ ~Moving => currentIndex = previousSelectedIndex /\ index = previousSelectedIndex
  /\ \A i : Job(i) =>
       Moving /\ Waits(i) /\ currentIndex \in {previousSelectedIndex, instances[i].target}
  /\ Calling("undo") => currentIndex >= 0

Entered == history \in Seq(Ids) /\ pendingHistory \in Seq(Ids)
IndexInv == Entered /\ Selected

\* A wait ends when its instance is complete.
WaitsKept == \A i : Waits(i) => Waits(i)' \/ Complete(i)
NoNewJob == \A i : Job(i)' => Job(i) /\ instances'[i].target = instances[i].target

\* The calls of the application and what they do to the indices.
Inside == SameCalls /\ WaitsKept /\ NoNewJob /\ UNCHANGED historyVars
Entering == SameCalls /\ WaitsKept /\ UNCHANGED instances /\ pendingHistory # <<>> /\ TakePending
Outside == /\ ~Moving /\ ~Moving' /\ NoNewJob /\ UNCHANGED historyVars
           /\ Calling("undo")' => CanUndo
Moves(target) ==
  /\ ~Moving /\ MoveCommandIndex(target)
  /\ Above(Owner, 0, <<Act("move", Root), Act("waitStart", Count + 1), Act("loop", Root)>>)
  /\ \/ target \in NoSelection .. Len(history) - 1
     \/ target = currentIndex + 1
     \/ Calling("undo") /\ target = currentIndex - 1
MoveReturns == MoveDone /\ Len(stack[Owner]) = 1 /\ Above(Owner, 0, <<>>)
Removes == RemoveCall /\ ~Moving /\ Above(Owner, 0, <<>>)

CallKind ==
  \/ Inside \/ Entering \/ Outside \/ MoveReturns \/ Removes
  \/ \E target : Moves(target)
  \/ UndoEntry \/ RedoEntry

\* Inner moves leave the wait for a job alone.
LEMMA InnerKeepsWaits ==
  ASSUME StackShape, NEW t \in Threads, InnerMove(t)
  PROVE  WaitsKept
<1> SUFFICES ASSUME NEW i, Waits(i), ~Complete(i) PROVE Waits(i)'
  BY DEF WaitsKept
<1>1. Len(stack[t]) \in Nat /\ Inner(<<>>) /\ DOMAIN stack[t] = 1 .. Len(stack[t])
  BY OwningDomain, InnerActs
<1>2. ASSUME NEW n, NEW acts, Above(t, n, acts), t = Owner => n >= 2
      PROVE  Waits(i)'
  <2>1. CASE t = Owner
    <3>1. 2 \in DOMAIN stack'[Owner] /\ 2 \in 1 .. n /\ stack'[Owner][2] = stack[Owner][2]
      BY <1>2, <2>1 DEF Above
    <3> QED
      BY <3>1 DEF Waits
  <2>2. CASE t # Owner
    <3>1. stack'[Owner] = stack[Owner]
      BY <1>2, <2>2 DEF Above, Threads
    <3> QED
      BY <3>1 DEF Waits
  <2> QED
    BY <2>1, <2>2
<1>3. CASE UNCHANGED stack
  BY <1>3 DEF Waits
<1>4. t = Owner => Len(stack[t]) >= 2
  BY <1>1 DEF Waits
<1>5. ASSUME NEW acts, Inner(acts), Push(t, acts) PROVE Waits(i)'
  <2>1. Above(t, Len(stack[t]), acts)
    BY <1>5, PushAbove DEF Inner
  <2> QED
    BY <1>2, <1>4, <2>1
<1>6. ASSUME Running(t), Top(t).at \in Waiting => WaitNext(t) \/ WaitStart(t),
             Pop(t) \/ \E acts : Inner(acts) /\ ReplaceTop(t, acts)
      PROVE  Waits(i)'
  <2>1. PICK acts : /\ Above(t, Len(stack[t]) - 1, acts) /\ Len(stack[t]) > 0
                    /\ Top(t) = stack[t][Len(stack[t])]
                    /\ Pop(t) \/ ReplaceTop(t, acts)
    BY <1>1, <1>6, PopAbove, ReplaceAbove DEF Inner
  <2>2. CASE t # Owner \/ Len(stack[t]) > 2
    BY <1>1, <1>2, <2>1, <2>2
  <2>3. CASE t = Owner /\ Len(stack[t]) = 2
    <3>1. Top(t).at \in Waiting /\ Top(t).inst = i
      BY <2>1, <2>3 DEF Waits
    <3>2. ~WaitNext(t)
      BY <3>1 DEF WaitNext, Complete
    <3>3. WaitStart(t)
      BY <1>6, <3>1, <3>2
    <3>4. ReplaceTop(t, <<WaitAct(t, i)>>) /\ Listed(<<WaitAct(t, i)>>)
          /\ Len(<<WaitAct(t, i)>>) = 1
      BY <3>1, <3>3, TuplesListed DEF WaitStart
    <3>5. Above(t, Len(stack[t]) - 1, <<WaitAct(t, i)>>)
      BY <1>6, <3>4, ReplaceAbove
    <3>6. 2 \in DOMAIN stack'[t] /\ stack'[t][2] = <<WaitAct(t, i)>>[1]
      <4>1. 1 + 1 = 2 /\ 1 \in 1 .. 1 /\ Len(stack[t]) - 1 = 1
        BY <2>3
      <4> QED
        BY <3>4, <3>5, <4>1 DEF Above
    <3>7. WaitAct(t, i).at = "wait" /\ WaitAct(t, i).inst = i
      BY ActFields DEF WaitAct
    <3> QED
      BY <2>3, <3>6, <3>7 DEF Waits, Waiting
  <2>4. t # Owner \/ Len(stack[t]) > 2 \/ (t = Owner /\ Len(stack[t]) = 2)
    <3>1. Len(stack[t]) \in Nat
      BY <1>1
    <3>2. \A m \in Nat : m >= 2 => m > 2 \/ m = 2
      OBVIOUS
    <3> QED
      BY <1>4, <3>1, <3>2
  <2> QED
    BY <2>2, <2>3, <2>4
<1> QED
  BY <1>3, <1>5, <1>6 DEF InnerMove

\* Steps that queue no job leave no new one.
LEMMA JobsStay ==
  ASSUME IInv, Basics, Basics', OInv, Kept, StepKind,
         \A k, target : ~Queueing(k, "undoRedo", UndoRedoClass, target)
  PROVE  NoNewJob
<1> SUFFICES ASSUME NEW i, Job(i)' PROVE Job(i) /\ instances'[i].target = instances[i].target
  BY DEF NoNewJob
<1>1. \A j \in Ids : instances'[j].kind = instances[j].kind /\ instances'[j].target = instances[j].target
  BY DEF Kept, SameKind
<1>2. ASSUME NEW k, NEW kind, NEW class, NEW target, Queueing(k, kind, class, target)
      PROVE  i \in Ids /\ (Complete(i) => Complete(i)')
  <2>1. kind # "undoRedo"
    BY <1>2 DEF Queueing
  <2>2. /\ Ids' = 1 .. Count + 1 /\ Ids = 1 .. Count /\ Count \in Nat
        /\ instances'[Count + 1].kind = kind
        /\ \A j \in 1 .. Count : instances'[j] = instances[j]
    BY <1>2 DEF Queueing, Enqueued, Basics, MakeCommand
  <2> QED
    BY <2>1, <2>2 DEF Job, Complete
<1>3. Follows(instances', instances) => Ids' = Ids
  BY TableKept
<1>4. ASSUME Neutral PROVE i \in Ids /\ (Complete(i) => Complete(i)')
  BY <1>3, <1>4 DEF Neutral, SameTables, Job, Complete
<1>5. ASSUME NEW L, NEW j, Dequeued(L, j), Follows(instances', instances)
      PROVE  i \in Ids /\ (Complete(i) => Complete(i)')
  <2>1. L = Depth /\ Len(Queue(L)) > 0 /\ j = Queue(L)[1] /\ L \in 1 .. Depth /\ 1 \in 1 .. Len(Queue(L))
    BY <1>5 DEF Dequeued, Basics, FramesSized, Sized
  <2>2. InQueue(j)
    BY <2>1 DEF InQueue
  <2>3. instances[j].status = "Queued"
    BY <2>1, <2>2 DEF OInv, Ordered, Statuses, Basics
  <2> QED
    BY <1>3, <1>5, <2>3 DEF Dequeued, Job, Complete
<1>6. ASSUME NEW L, NEW closes, NEW done, Popping(L, closes, done)
      PROVE  i \in Ids /\ (Complete(i) => Complete(i)')
  BY <1>3, <1>6 DEF Popping, SameTables, Job, Complete
<1>7. ASSUME NEW t, NEW k, NEW at, NEW j, Finishing(t, k, at, j)
      PROVE  i \in Ids /\ (Complete(i) => Complete(i)')
  BY <1>3, <1>7 DEF Finishing, SameTables, Job, Complete
<1>8. i \in Ids /\ (Complete(i) => Complete(i)')
  BY <1>2, <1>3, <1>4, <1>5, <1>6, <1>7 DEF StepKind, Neutral, Taking, Taken, Starting, SameTables,
     Job, Complete
<1> QED
  BY <1>1, <1>8 DEF Job

\* A job is queued by moveCommandIndex only.
LEMMA NoJobQueued ==
  ASSUME IInv, OInv, [Next]_vars,
         \/ Ids' = Ids
         \/ \E t \in Threads : \E kind, class, target, rest :
              /\ kind # "undoRedo"
              /\ t = Owner \/ Owning(t) # {}
              /\ QueueCommand(t, kind, class, target, rest)
  PROVE  NoNewJob
<1>1. IInv' /\ Basics /\ Recorded
  BY StepPreserves, BasicsHold DEF OInv
<1>2. Basics' /\ StepKind
  BY <1>1, BasicsNext, EveryStepKind
<1>3. Kept
  BY <1>1, <1>2, KeptStep
<1>4. ASSUME NEW k, NEW target, Queueing(k, "undoRedo", UndoRedoClass, target) PROVE FALSE
  <2>1. /\ Count' = Count + 1 /\ Ids = 1 .. Count /\ Ids' = 1 .. Count + 1 /\ Count \in Nat
        /\ instances'[Count + 1].kind = "undoRedo"
    BY <1>1, <1>2, <1>4 DEF Queueing, Enqueued, Basics, MakeCommand
  <2>2. Ids' # Ids
    BY <2>1
  <2>3. PICK t, kind, class, x, rest :
          /\ t \in Threads /\ kind # "undoRedo"
          /\ t = Owner \/ Owning(t) # {}
          /\ QueueCommand(t, kind, class, x, rest)
    BY <2>2
  <2>4. \E l : Enqueued(l, kind, class, x)
    BY <2>3, QueueCommandEffect
  <2>5. instances'[Count + 1].kind = kind
    BY <2>4 DEF Enqueued, MakeCommand
  <2> QED
    BY <2>1, <2>3, <2>5
<1> QED
  BY <1>1, <1>2, <1>3, <1>4, JobsStay

\* A thread inside the calls changes no index but when it takes over what is pending.
LEMMA ThreadCallKind ==
  ASSUME IInv, OInv, NEW t \in Threads, ThreadStep(t), [Next]_vars
  PROVE  Inside \/ Entering
<1>1. StackShape /\ OwnerActs /\ Recorded /\ Basics
  BY BasicsHold DEF IInv, Shape, OInv
<1>2. SameCalls /\ WaitsKept
  BY <1>1, ThreadInner, InnerKeepsCalls, InnerKeepsWaits
<1>3. Follows(instances', instances) => Ids' = Ids
  BY <1>1, TableKept
<1>4. CASE LoopEnds(t)
  <2>1. NoNewJob /\ UNCHANGED instances
    BY <1>4, NoJobQueued DEF LoopEnds, Ids
  <2>2. (pendingHistory # <<>> /\ TakePending) \/ UNCHANGED historyVars
    BY <1>4 DEF LoopEnds
  <2> QED
    BY <1>2, <2>1, <2>2 DEF Inside, Entering
<1>5. UNCHANGED historyVars \/ LoopEnds(t)
  BY DEF ThreadStep, TakeCommand, TakeUndoRedo, ExecWrite, ExecQueue, ExecBatch, ExecWait, Execute,
         SpinProcess, PopFrame, Rollback, WaitProcess, WaitNext, WaitStart, Flush
<1>6. CASE TakeCommand(t) \/ TakeUndoRedo(t)
  <2>1. Follows(instances', instances)
    BY <1>1, <1>6, TakeCommandKind, TakeUndoRedoKind DEF Taking, Starting, SameTables
  <2> QED
    BY <1>2, <1>3, <1>4, <1>5, <2>1, NoJobQueued DEF Inside
<1>7. CASE ExecWrite(t) \/ Execute(t)
  <2>1. Follows(instances', instances)
    BY <1>1, <1>7, ExecWriteKind, ExecuteKind DEF Neutral, SameTables
  <2> QED
    BY <1>2, <1>3, <1>4, <1>5, <2>1, NoJobQueued DEF Inside
<1>8. CASE ExecQueue(t) \/ ExecBatch(t)
  <2>1. Owning(t) # {}
    BY <1>8, ExecutingFrame DEF ExecQueue, ExecBatch, Executing
  <2>2. \E kind, class : kind # "undoRedo" /\ QueueCommand(t, kind, class, NoSelection, <<>>)
    BY <1>8 DEF ExecQueue, ExecBatch, Closers
  <2>3. NoNewJob
    BY <2>1, <2>2, NoJobQueued
  <2> QED
    BY <1>2, <1>4, <1>5, <2>3 DEF Inside
<1>9. CASE PopFrame(t) \/ Rollback(t)
  <2>1. Follows(instances', instances)
    BY <1>1, <1>9, PopFrameKind, RollbackKind DEF Popping, Finishing, SameTables
  <2> QED
    BY <1>2, <1>3, <1>4, <1>5, <2>1, NoJobQueued DEF Inside
<1>10. CASE ExecWait(t) \/ SpinProcess(t) \/ WaitProcess(t) \/ WaitNext(t) \/ WaitStart(t) \/ Flush(t)
  <2>1. UNCHANGED instances
    BY <1>10 DEF ExecWait, SpinProcess, WaitProcess, WaitNext, WaitStart, Flush
  <2>2. NoNewJob
    BY <2>1, NoJobQueued DEF Ids
  <2> QED
    BY <1>2, <1>4, <1>5, <2>2 DEF Inside
<1> QED
  BY <1>4, <1>6, <1>7, <1>8, <1>9, <1>10 DEF ThreadStep

\* A call on top of the owner's activations is the only one.
LEMMA TopCall ==
  ASSUME StackShape, OwnerActs, NEW c \in Calls, At(Owner, c)
  PROVE  /\ Len(stack[Owner]) = 1 /\ Calling(c) /\ \A d : Calling(d) => d = c
         /\ Pop(Owner) => OwnerActs' /\ Above(Owner, 0, <<>>) /\ \A d : ~Calling(d)'
<1>1. Owner \in Threads /\ Running(Owner) /\ Outer(<<>>) /\ Len(<<>>) = 0
  BY InnerActs, TuplesListed DEF Threads, At, Inner, Outer
<1>2. DOMAIN stack[Owner] = 1 .. Len(stack[Owner]) /\ Len(stack[Owner]) \in Nat
  BY <1>1, OwningDomain
<1>3. Len(stack[Owner]) > 0
  BY <1>1, <1>2 DEF Running, StackShape, Listed
<1>4. Top(Owner) = stack[Owner][Len(stack[Owner])] /\ Len(stack[Owner]) \in DOMAIN stack[Owner]
  BY <1>2, <1>3 DEF Top, Last
<1>5. Len(stack[Owner]) = 1
  BY <1>1, <1>4 DEF OwnerActs, Calls, At
<1>6. Calling(c) /\ \A d : Calling(d) => d = c
  BY <1>4, <1>5 DEF Calling, At
<1>7. ASSUME Pop(Owner) PROVE OwnerActs' /\ Above(Owner, 0, <<>>) /\ \A d : ~Calling(d)'
  <2>1. OwnerActs' /\ Above(Owner, 0, <<>>)
    BY <1>1, <1>7, OuterCalls DEF At
  <2>2. DOMAIN stack'[Owner] = 1 .. 0
    BY <1>1, <2>1 DEF Above
  <2> QED
    BY <2>1, <2>2 DEF Calling
<1> QED
  BY <1>5, <1>6, <1>7

\* What the owner does between its calls of the manager's threads.
LEMMA OwnerCallKind ==
  ASSUME IInv, OInv, OwnerStep, [Next]_vars
  PROVE  CallKind
<1>1. StackShape /\ OwnerActs /\ Recorded /\ Basics /\ Owner \in Threads
  BY BasicsHold DEF IInv, Shape, OInv, Threads
<1>2. CASE ThreadStep(Owner)
  BY <1>1, <1>2, ThreadCallKind DEF CallKind
<1>3. CASE UndoCall \/ RedoCall
  <2>1. PICK c, target :
          /\ c \in {"undo", "redo"} /\ At(Owner, c) /\ MoveCommandIndex(target)
          /\ target = currentIndex + 1 \/ (c = "undo" /\ target = currentIndex - 1)
    BY <1>3 DEF UndoCall, RedoCall
  <2>2. Calling(c) /\ ~Moving
    BY <1>1, <2>1, TopCall DEF Calls, Moving
  <2>3. Above(Owner, 0, <<Act("move", Root), Act("waitStart", Len(instances) + 1), Act("loop", Root)>>)
    BY <1>1, <2>1, MoveCommandIndexKind
  <2> QED
    BY <2>1, <2>2, <2>3 DEF CallKind, Moves, Count
<1>4. CASE UndoEntry \/ RedoEntry
  BY <1>4 DEF CallKind
<1>5. CASE UndoRedoDone \/ UndoRedoFails
  <2>1. InnerMove(Owner) /\ UNCHANGED historyVars
    BY <1>5 DEF UndoRedoDone, UndoRedoFails, InnerMove, Calls, Waiting, At
  <2>2. Ids' = Ids
    BY <1>1, <1>5, UndoRedoKind, TableKept DEF Finishing, SameTables
  <2> QED
    BY <1>1, <2>1, <2>2, InnerKeepsCalls, InnerKeepsWaits, NoJobQueued DEF CallKind, Inside
<1>6. CASE MoveDone
  BY <1>1, <1>6, TopCall DEF MoveDone, Calls, CallKind, MoveReturns
<1>7. CASE RemoveCall
  <2>1. "remove" \in Calls /\ "remove" # "move"
    BY DEF Calls
  <2> QED
    BY <1>1, <1>7, <2>1, TopCall DEF RemoveCall, CallKind, Removes, Moving
<1>8. CASE UpdateDone \/ FiniJoin
  <2>1. PICK c \in {"update", "join"} : At(Owner, c) /\ Pop(Owner)
    BY <1>8 DEF UpdateDone, FiniJoin
  <2>2. UNCHANGED historyVars /\ UNCHANGED instances
    BY <1>8 DEF UpdateDone, FiniJoin, CallVars
  <2>3. c \in Calls /\ c # "move"
    BY DEF Calls
  <2>4. ~Moving /\ \A d : ~Calling(d)'
    BY <1>1, <2>1, <2>3, TopCall DEF Moving
  <2> QED
    BY <2>2, <2>4, NoJobQueued DEF CallKind, Outside, Moving, Ids
<1>9. CASE FiniExit
  <2>1. "fini" \in Calls /\ "fini" # "move" /\ At(Owner, "fini") /\ ReplaceTop(Owner, <<Act("join", Root)>>)
        /\ UNCHANGED historyVars /\ UNCHANGED instances
    BY <1>9 DEF FiniExit, Calls
  <2>2. ~Moving
    BY <1>1, <2>1, TopCall DEF Moving
  <2>3. Above(Owner, 0, <<Act("join", Root)>>)
    BY <1>1, <2>1, InnerActs, OuterCalls DEF At
  <2>4. stack'[Owner][1].at = "join"
    <3>1. 0 + 1 = 1 /\ 1 \in 1 .. 1 /\ Len(<<Act("join", Root)>>) = 1
      BY TuplesListed
    <3>2. stack'[Owner][1] = Act("join", Root)
      BY <2>3, <3>1 DEF Above
    <3> QED
      BY <3>2, ActFields
  <2> QED
    BY <2>1, <2>2, <2>4, NoJobQueued DEF CallKind, Outside, Moving, Calling, Ids
<1> QED
  BY <1>2, <1>3, <1>4, <1>5, <1>6, <1>7, <1>8, <1>9 DEF OwnerStep

\* What begins when no call is in progress.
LEMMA AppPushes ==
  ASSUME StackShape, OwnerActs, stack[Owner] = <<>>, NEW acts, Outer(acts), Len(acts) > 0,
         Push(Owner, acts)
  PROVE  \A c : /\ ~Calling(c)
                /\ Calling(c)' <=> acts[1].at = c
<1>1. Owner \in Threads /\ Len(stack[Owner]) = 0 /\ DOMAIN stack[Owner] = 1 .. Len(stack[Owner])
  BY OwningDomain DEF Threads
<1>2. Above(Owner, 0, acts)
  BY OuterCalls
<1>3. 0 + 1 = 1 /\ 1 \in 1 .. Len(acts) /\ DOMAIN stack'[Owner] = 1 .. Len(acts)
  BY <1>2 DEF Above
<1>4. stack'[Owner][1] = acts[1]
  BY <1>2, <1>3 DEF Above
<1> QED
  BY <1>1, <1>3, <1>4 DEF Calling

\* What the application does.
LEMMA AppCallKind ==
  ASSUME IInv, OInv, AppStep, [Next]_vars
  PROVE  CallKind
<1>1. StackShape /\ OwnerActs /\ Recorded /\ Basics /\ Owner \in Threads
  BY BasicsHold DEF IInv, Shape, OInv, Threads
<1>2. stack[Owner] = <<>>
  BY DEF AppStep, AppQueue, AppBatch, AppWait, AppUndo, AppRedo, AppMove, AppRemove, AppFlush,
         AppUpdate, AppFini, MayMove, Idle
<1>3. ~Calling("move")
  BY <1>1, <1>2, OwningDomain DEF Calling
<1>4. /\ \A a, i : a \notin Calls => InnerAct(Act(a, i))
      /\ InnerAct(Act("loop", Root)) /\ InnerAct(Act("flush", Root))
  BY ActsInner DEF Calls
<1>5. /\ \A a : Outer(<<a>>) /\ Len(<<a>>) = 1 /\ <<a>>[1] = a
      /\ \A a, b : InnerAct(b) => Outer(<<a, b>>)
      /\ \A a, b : Len(<<a, b>>) = 2 /\ <<a, b>>[1] = a
  BY InnerActs, TuplesListed
<1>6. /\ \A a : Push(Owner, <<a>>) => \A c : Calling(c)' <=> a.at = c
      /\ \A a, b : InnerAct(b) /\ Push(Owner, <<a, b>>) => \A c : Calling(c)' <=> a.at = c
  <2>1. ASSUME NEW a, Push(Owner, <<a>>), NEW c PROVE Calling(c)' <=> a.at = c
    <3>1. Outer(<<a>>) /\ Len(<<a>>) > 0
      BY <1>5
    <3> QED
      BY <1>1, <1>2, <1>5, <2>1, <3>1, AppPushes
  <2>2. ASSUME NEW a, NEW b, InnerAct(b), Push(Owner, <<a, b>>), NEW c
        PROVE  Calling(c)' <=> a.at = c
    <3>1. Outer(<<a, b>>) /\ Len(<<a, b>>) > 0
      BY <1>5, <2>2
    <3> QED
      BY <1>1, <1>2, <1>5, <2>2, <3>1, AppPushes
  <2> QED
    BY <2>1, <2>2
<1>7. \A a, i : Act(a, i).at = a /\ \A x : [Act(a, i) EXCEPT !.before = x].at = a
  BY ActFields
<1>8. \A a : <<>> \o <<a>> = <<a>>
  OBVIOUS
<1>9. CASE AppMove
  <2>1. PICK target \in NoSelection .. Len(history) - 1 : MoveCommandIndex(target)
    BY <1>9 DEF AppMove
  <2>2. Above(Owner, 0, <<Act("move", Root), Act("waitStart", Len(instances) + 1), Act("loop", Root)>>)
    BY <1>1, <1>2, <2>1, MoveCommandIndexKind
  <2> QED
    BY <1>3, <2>1, <2>2 DEF CallKind, Moves, Count, Moving
<1>10. ASSUME UNCHANGED historyVars, NoNewJob, ~Calling("move")', Calling("undo")' => CanUndo
       PROVE  CallKind
  BY <1>3, <1>10 DEF CallKind, Outside, Moving
<1>11. CASE AppQueue \/ AppBatch
  <2>1. PICK kind, class : /\ kind # "undoRedo"
                           /\ QueueCommand(Owner, kind, class, NoSelection, <<>>)
    BY <1>11 DEF AppQueue, AppBatch, Closers
  <2>2. NoNewJob
    BY <1>1, <2>1, NoJobQueued
  <2>3. Push(Owner, <<Act("loop", Root)>>)
    BY <1>8, <2>1 DEF QueueCommand
  <2>4. \A c : Calling(c)' <=> "loop" = c
    BY <1>6, <1>7, <2>3
  <2>5. UNCHANGED historyVars
    BY <1>11 DEF AppQueue, AppBatch, CallVars
  <2> QED
    BY <1>10, <2>2, <2>4, <2>5
<1>12. CASE AppFini
  <2>1. /\ QueueCommand(Owner, "abort", BatchClass, NoSelection, <<Act("fini", Root)>>)
        /\ UNCHANGED historyVars
    BY <1>12 DEF AppFini, CallVars
  <2>2. NoNewJob
    BY <1>1, <2>1, NoJobQueued
  <2> DEFINE acts == <<Act("fini", Root)>> \o <<Act("loop", Root)>>
  <2>3. /\ Listed(acts) /\ Len(acts) = 2 /\ acts[1] = Act("fini", Root)
        /\ acts[2] = Act("loop", Root)
    <3>1. /\ Listed(<<Act("fini", Root)>>) /\ Len(<<Act("fini", Root)>>) = 1
          /\ Listed(<<Act("loop", Root)>>) /\ Len(<<Act("loop", Root)>>) = 1
      BY TuplesListed
    <3>2. /\ Listed(acts) /\ Len(acts) = 2
          /\ \A k \in 1 .. 1 : acts[k] = <<Act("fini", Root)>>[k]
          /\ \A k \in 2 .. 2 : acts[k] = <<Act("loop", Root)>>[k - 1]
      BY <3>1, ListedConcat
    <3> HIDE DEF acts
    <3> QED
      BY <3>2
  <2>4. Push(Owner, acts)
    BY <2>1 DEF QueueCommand
  <2> HIDE DEF acts
  <2>5. Outer(acts)
    BY <1>4, <2>3 DEF Outer
  <2>6. \A c : Calling(c)' <=> "fini" = c
    BY <1>1, <1>2, <1>7, <2>3, <2>4, <2>5, AppPushes
  <2> QED
    BY <1>10, <2>1, <2>2, <2>6
<1>13. CASE AppWait \/ AppUndo \/ AppRedo \/ AppRemove \/ AppFlush \/ AppUpdate
  <2>1. UNCHANGED historyVars /\ UNCHANGED instances
    BY <1>13 DEF AppWait, AppUndo, AppRedo, AppRemove, AppFlush, AppUpdate, CallVars
  <2>2. NoNewJob
    BY <2>1, NoJobQueued DEF Ids
  <2>3. CASE AppUndo
    <3>1. Push(Owner, <<Act("undo", Root), Act("flush", Root)>>) /\ CanUndo
      BY <2>3 DEF AppUndo
    <3>2. \A c : Calling(c)' <=> "undo" = c
      BY <1>4, <1>6, <1>7, <3>1
    <3> QED
      BY <1>10, <2>1, <2>2, <3>1, <3>2
  <2>4. CASE ~AppUndo
    <3>1. PICK a \in {"wait", "redo", "remove", "flush", "update"} :
            \E act : /\ act.at = a
                     /\ Push(Owner, <<act>>) \/ \E b : InnerAct(b) /\ Push(Owner, <<act, b>>)
      <4>1. CASE AppWait
        <5>1. PICK i : Push(Owner, <<WaitAct(Owner, i)>>)
          BY <4>1 DEF AppWait
        <5>2. WaitAct(Owner, i).at = "wait"
          BY <1>7 DEF WaitAct
        <5> QED
          BY <5>1, <5>2
      <4>2. CASE AppRedo
        BY <1>4, <1>7, <4>2 DEF AppRedo
      <4>3. CASE AppRemove
        BY <1>4, <1>7, <4>3 DEF AppRemove
      <4>4. CASE AppFlush
        BY <1>4, <1>7, <4>4 DEF AppFlush
      <4>5. CASE AppUpdate
        BY <1>4, <1>7, <4>5 DEF AppUpdate
      <4> QED
        BY <1>13, <2>4, <4>1, <4>2, <4>3, <4>4, <4>5
    <3>2. \A c : Calling(c)' <=> a = c
      BY <1>6, <3>1
    <3> QED
      BY <1>10, <2>1, <2>2, <3>1, <3>2
  <2> QED
    BY <2>3, <2>4
<1> QED
  BY <1>9, <1>11, <1>12, <1>13 DEF AppStep

\* Every step is of one of these kinds.
LEMMA EveryCallKind ==
  ASSUME IInv, OInv, [Next]_vars
  PROVE  CallKind
<1>1. StackShape /\ OwnerActs /\ Recorded /\ Basics /\ Worker \in Threads
  BY BasicsHold DEF IInv, Shape, OInv, Threads
<1>2. CASE UNCHANGED vars \/ WorkerTurn \/ WorkerWoken
  <2>1. InnerMove(Worker) /\ UNCHANGED historyVars /\ UNCHANGED instances
    <3>1. Inner(<<Act("loop", Root)>>)
      BY InnerActs, ActsInner DEF Calls
    <3> QED
      BY <1>2, <3>1 DEF vars, WorkerTurn, WorkerWoken, InnerMove
  <2> QED
    BY <1>1, <2>1, InnerKeepsCalls, InnerKeepsWaits, NoJobQueued DEF Inside, CallKind, Ids
<1>3. CASE WorkerStep /\ ~WorkerTurn /\ ~WorkerWoken
  BY <1>1, <1>3, ThreadCallKind DEF WorkerStep, CallKind
<1> QED
  BY <1>2, <1>3, OwnerCallKind, AppCallKind DEF Next

-----------------------------------------------------------------------------
(* What removeCommands leaves *)

\* The first n elements of s.
Firsts(s, n) == {s[k] : k \in 1 .. n}

\* Of the first n entries, those not removed are kept ...
KeptEntries(kept, n, removed) ==
  /\ Len(kept) <= n /\ Firsts(kept, Len(kept)) = Firsts(history, n) \ removed
  /\ (\A a, b \in 1 .. Len(history) : history[a] = history[b] => a = b) =>
       \A a, b \in 1 .. Len(kept) : kept[a] = kept[b] => a = b

\* ... and idx, that was at, points to the last of them that was not after it.
Pointed(kept, idx, at, n, removed) ==
  /\ n <= at + 1 => idx + 1 = Len(kept) + at + 1 - n
  /\ n >= at + 1 => /\ idx + 1 \in 0 .. Len(kept)
                    /\ Firsts(kept, idx + 1) = Firsts(history, at + 1) \ removed

LEMMA MovedDown ==
  ASSUME NEW at \in Nat, NEW idx \in Int
  PROVE  Moved(at, idx) = IF at <= idx THEN idx - 1 ELSE idx
<1>1. idx >= 0 => Max({idx - 1, NoSelection}) = idx - 1
  BY DEF Max, NoSelection
<1> QED
  BY <1>1 DEF Moved

LEMMA FirstsGrow ==
  ASSUME NEW S, NEW s \in Seq(S), NEW x \in S
  PROVE  /\ Append(s, x) \in Seq(S) /\ Len(Append(s, x)) = Len(s) + 1
         /\ Firsts(Append(s, x), Len(s) + 1) = Firsts(s, Len(s)) \cup {x}
         /\ \A n \in Nat : n <= Len(s) => Firsts(Append(s, x), n) = Firsts(s, n)
<1>1. /\ Append(s, x) \in Seq(S) /\ Len(Append(s, x)) = Len(s) + 1 /\ Len(s) \in Nat
      /\ \A k \in 1 .. Len(s) : Append(s, x)[k] = s[k]
      /\ Append(s, x)[Len(s) + 1] = x
  OBVIOUS
<1>2. \A n \in Nat : n <= Len(s) => Firsts(Append(s, x), n) = Firsts(s, n)
  BY <1>1 DEF Firsts
<1>3. \A k : k \in 1 .. Len(s) + 1 <=> k \in 1 .. Len(s) \/ k = Len(s) + 1
  BY <1>1
<1>4. Firsts(Append(s, x), Len(s) + 1) = Firsts(s, Len(s)) \cup {x}
  BY <1>1, <1>3 DEF Firsts
<1> QED
  BY <1>1, <1>2, <1>4

\* One entry more is looked at: it is removed ...
LEMMA EntryRemoved ==
  ASSUME NEW S, history \in Seq(S), NEW n \in 1 .. Len(history), NEW removed,
         NEW kept \in Seq(S), KeptEntries(kept, n - 1, removed), history[n] \in removed
  PROVE  /\ KeptEntries(kept, n, removed)
         /\ \A at \in NoSelection .. Len(history) - 1 : \A idx \in Int :
              Pointed(kept, idx, at, n - 1, removed) =>
                Pointed(kept, Moved(Len(kept), idx), at, n, removed)
<1>1. n \in Nat /\ Len(kept) \in Nat /\ n > 0 /\ Len(history) \in Nat
  OBVIOUS
<1>2. \A k : k \in 1 .. n <=> k \in 1 .. n - 1 \/ k = n
  BY <1>1
<1>3. Firsts(history, n) \ removed = Firsts(history, n - 1) \ removed
  BY <1>2 DEF Firsts
<1>4. KeptEntries(kept, n, removed)
  BY <1>1, <1>3 DEF KeptEntries
<1>5. ASSUME NEW at \in NoSelection .. Len(history) - 1, NEW idx \in Int,
             Pointed(kept, idx, at, n - 1, removed)
      PROVE  Pointed(kept, Moved(Len(kept), idx), at, n, removed)
  <2>1. /\ Moved(Len(kept), idx) = IF Len(kept) <= idx THEN idx - 1 ELSE idx
        /\ at \in Int
    BY <1>1, MovedDown DEF NoSelection
  <2>2. CASE n <= at
    <3>1. idx + 1 = Len(kept) + at + 1 - (n - 1)
      BY <1>1, <1>5, <2>1, <2>2 DEF Pointed
    <3>2. Moved(Len(kept), idx) = idx - 1
      BY <1>1, <2>1, <2>2, <3>1
    <3> QED
      BY <1>1, <2>1, <2>2, <3>1, <3>2 DEF Pointed
  <2>3. CASE n = at + 1
    <3>1. idx + 1 = Len(kept) + at + 1 - (n - 1)
      BY <1>1, <1>5, <2>1, <2>3 DEF Pointed
    <3>2. Moved(Len(kept), idx) = Len(kept) - 1
      BY <1>1, <2>1, <2>3, <3>1
    <3>3. Moved(Len(kept), idx) + 1 = Len(kept)
      BY <1>1, <3>2
    <3>4. Firsts(kept, Moved(Len(kept), idx) + 1) = Firsts(history, at + 1) \ removed
      BY <1>4, <2>3, <3>3 DEF KeptEntries
    <3>5. Len(kept) = Len(kept) + at + 1 - n
      BY <1>1, <2>1, <2>3
    <3> QED
      BY <1>1, <3>3, <3>4, <3>5 DEF Pointed
  <2>4. CASE n > at + 1
    <3>1. /\ idx + 1 \in 0 .. Len(kept)
          /\ Firsts(kept, idx + 1) = Firsts(history, at + 1) \ removed
      BY <1>1, <1>5, <2>1, <2>4 DEF Pointed
    <3>2. Moved(Len(kept), idx) = idx
      BY <1>1, <2>1, <3>1
    <3> QED
      BY <1>1, <2>1, <2>4, <3>1, <3>2 DEF Pointed
  <2> QED
    BY <1>1, <2>1, <2>2, <2>3, <2>4
<1> QED
  BY <1>4, <1>5

\* ... or stays.
LEMMA EntryKept ==
  ASSUME NEW S, history \in Seq(S), NEW n \in 1 .. Len(history), NEW removed,
         NEW kept \in Seq(S), KeptEntries(kept, n - 1, removed), history[n] \notin removed
  PROVE  /\ KeptEntries(Append(kept, history[n]), n, removed)
         /\ \A at \in NoSelection .. Len(history) - 1 : \A idx \in Int :
              Pointed(kept, idx, at, n - 1, removed) =>
                Pointed(Append(kept, history[n]), idx, at, n, removed)
<1> DEFINE x == history[n]
           more == Append(kept, x)
<1>1. n \in Nat /\ Len(kept) \in Nat /\ n > 0 /\ x \in S /\ Len(history) \in Nat
  OBVIOUS
<1>2. \A k : k \in 1 .. n <=> k \in 1 .. n - 1 \/ k = n
  BY <1>1
<1>3. Firsts(history, n) \ removed = (Firsts(history, n - 1) \ removed) \cup {x}
  BY <1>2 DEF Firsts
<1>4. /\ Len(more) = Len(kept) + 1 /\ Firsts(more, Len(kept) + 1) = Firsts(kept, Len(kept)) \cup {x}
      /\ \A m \in Nat : m <= Len(kept) => Firsts(more, m) = Firsts(kept, m)
      /\ \A k \in 1 .. Len(kept) : more[k] = kept[k]
      /\ more[Len(kept) + 1] = x
  <2> HIDE DEF x
  <2>1. /\ \A k \in 1 .. Len(kept) : more[k] = kept[k]
        /\ more[Len(kept) + 1] = x
    BY <1>1
  <2> QED
    BY <1>1, <2>1, FirstsGrow
<1>5. Firsts(more, Len(more)) = Firsts(history, n) \ removed
  BY <1>3, <1>4 DEF KeptEntries
<1> HIDE DEF more, x
<1>6. ASSUME \A a, b \in 1 .. Len(history) : history[a] = history[b] => a = b,
             NEW a \in 1 .. Len(more), NEW b \in 1 .. Len(more), more[a] = more[b]
      PROVE  a = b
  <2>1. \A k \in 1 .. Len(kept) : kept[k] # x
    <3>1. ASSUME NEW k \in 1 .. Len(kept), kept[k] = x PROVE FALSE
      <4>1. x \in Firsts(history, n - 1)
        BY <3>1 DEF KeptEntries, Firsts
      <4>2. PICK m \in 1 .. n - 1 : history[m] = x
        BY <4>1 DEF Firsts
      <4>3. m \in 1 .. Len(history) /\ m # n
        BY <1>1
      <4> QED
        BY <1>6, <4>2, <4>3 DEF x
    <3> QED
      BY <3>1
  <2>2. \A c, d \in 1 .. Len(kept) : kept[c] = kept[d] => c = d
    BY <1>6 DEF KeptEntries
  <2>3. \A k \in 1 .. Len(more) : k \in 1 .. Len(kept) \/ k = Len(kept) + 1
    BY <1>1, <1>4
  <2> QED
    BY <1>4, <1>6, <2>1, <2>2, <2>3
<1>7. KeptEntries(more, n, removed)
  <2>1. Len(more) <= n
    BY <1>1, <1>4 DEF KeptEntries
  <2> QED
    BY <1>5, <1>6, <2>1 DEF KeptEntries
<1>8. ASSUME NEW at \in NoSelection .. Len(history) - 1, NEW idx \in Int,
             Pointed(kept, idx, at, n - 1, removed)
      PROVE  Pointed(more, idx, at, n, removed)
  <2>1. at \in Int
    BY DEF NoSelection
  <2>2. CASE n <= at
    BY <1>1, <1>4, <1>8, <2>1, <2>2 DEF Pointed
  <2>3. CASE n = at + 1
    <3>1. idx + 1 = Len(kept) + at + 1 - (n - 1)
      BY <1>1, <1>8, <2>1, <2>3 DEF Pointed
    <3>2. idx + 1 = Len(more)
      BY <1>1, <1>4, <2>1, <2>3, <3>1
    <3>3. Firsts(more, idx + 1) = Firsts(history, at + 1) \ removed
      BY <1>5, <2>3, <3>2
    <3>4. Len(more) = Len(more) + at + 1 - n
      BY <1>1, <1>4, <2>1, <2>3
    <3>5. Len(more) \in Nat
      BY <1>1, <1>4
    <3> QED
      BY <3>2, <3>3, <3>4, <3>5 DEF Pointed
  <2>4. CASE n > at + 1
    <3>1. /\ idx + 1 \in 0 .. Len(kept)
          /\ Firsts(kept, idx + 1) = Firsts(history, at + 1) \ removed
      BY <1>1, <1>8, <2>1, <2>4 DEF Pointed
    <3>2. Firsts(more, idx + 1) = Firsts(kept, idx + 1) /\ idx + 1 \in 0 .. Len(more)
      BY <1>1, <1>4, <3>1
    <3> QED
      BY <1>1, <2>1, <2>4, <3>1, <3>2 DEF Pointed
  <2> QED
    BY <1>1, <2>1, <2>2, <2>3, <2>4
<1> QED
  BY <1>7, <1>8 DEF more, x

\* What is left once all entries have been looked at.
LEMMA EraseLeaves ==
  ASSUME NEW S, history \in Seq(S), NEW removed,
         currentIndex \in NoSelection .. Len(history) - 1,
         previousSelectedIndex \in NoSelection .. Len(history) - 1
  PROVE  LET left == Erase(removed)
         IN /\ left.kept \in Seq(S) /\ KeptEntries(left.kept, Len(history), removed)
            /\ left.current \in Int /\ left.previous \in Int
            /\ Pointed(left.kept, left.current, currentIndex, Len(history), removed)
            /\ Pointed(left.kept, left.previous, previousSelectedIndex, Len(history), removed)
            /\ currentIndex = previousSelectedIndex => left.current = left.previous
<1> DEFINE n == Len(history)
           V == [kept : Seq(S), current : Int, previous : Int]
           first == [kept |-> <<>>, current |-> currentIndex, previous |-> previousSelectedIndex]
           After(l, k) ==
             IF history[k] \in removed
               THEN [l EXCEPT !.current = Moved(Len(l.kept), @),
                              !.previous = Moved(Len(l.kept), @)]
               ELSE [l EXCEPT !.kept = Append(@, history[k])]
           step == [k \in 1 .. n |-> [l \in V |-> After(l, k)]]
           left == CHOOSE f : f = [k \in 0 .. n |->
                     IF k = 0
                       THEN [kept |-> <<>>, current |-> currentIndex,
                             previous |-> previousSelectedIndex]
                       ELSE IF history[k] \in removed
                         THEN [f[k - 1] EXCEPT !.current = Moved(Len(f[k - 1].kept), @),
                                               !.previous = Moved(Len(f[k - 1].kept), @)]
                         ELSE [f[k - 1] EXCEPT !.kept = Append(@, history[k])]]
<1>1. Erase(removed) = left[n]
  BY DEF Erase
<1>2. /\ n \in Nat /\ \A k \in 1 .. n : history[k] \in S
      /\ currentIndex \in Int /\ previousSelectedIndex \in Int
  BY DEF NoSelection
<1> HIDE DEF n
<1>3. ASSUME NEW l \in V, NEW k \in 1 .. n
      PROVE  /\ After(l, k) \in V
             /\ history[k] \in removed =>
                  /\ After(l, k).kept = l.kept
                  /\ After(l, k).current = Moved(Len(l.kept), l.current)
                  /\ After(l, k).previous = Moved(Len(l.kept), l.previous)
             /\ history[k] \notin removed =>
                  /\ After(l, k).kept = Append(l.kept, history[k])
                  /\ After(l, k).current = l.current /\ After(l, k).previous = l.previous
  <2>1. l.kept \in Seq(S) /\ l.current \in Int /\ l.previous \in Int /\ Len(l.kept) \in Nat
    OBVIOUS
  <2>2. Moved(Len(l.kept), l.current) \in Int /\ Moved(Len(l.kept), l.previous) \in Int
    BY <2>1, MovedDown
  <2>3. Append(l.kept, history[k]) \in Seq(S)
    BY <1>2, <2>1
  <2> QED
    BY <2>1, <2>2, <2>3
<1>4. step \in Steps(n, V)
  <2> HIDE DEF After, V
  <2> QED
    BY <1>3 DEF Steps
<1>5. first \in V
  BY <1>2
<1>6. PICK f : Run(f, n, V, first, step)
  <2> HIDE DEF V, first, step
  <2> QED
    BY <1>2, <1>4, <1>5, RecursionExists
<1>7. f \in [0 .. n -> V] /\ f[0] = first /\ \A k \in 1 .. n : f[k] = step[k][f[k - 1]]
  BY <1>6 DEF Run
<1> HIDE DEF V
<1>8. \A k \in 1 .. n : f[k] = After(f[k - 1], k)
  <2> HIDE DEF After
  <2> SUFFICES ASSUME NEW k \in 1 .. n PROVE f[k] = After(f[k - 1], k)
    OBVIOUS
  <2>1. k - 1 \in 0 .. n
    BY <1>2
  <2>2. f[k - 1] \in V
    BY <1>7, <2>1
  <2> QED
    BY <1>7, <2>2
<1>9. f = [k \in 0 .. n |-> IF k = 0 THEN first ELSE After(f[k - 1], k)]
  <2> HIDE DEF After, first
  <2> QED
    BY <1>2, <1>7, <1>8
<1>10. left = [k \in 0 .. n |-> IF k = 0 THEN first ELSE After(left[k - 1], k)]
  BY <1>9
<1> HIDE DEF left, After
<1> DEFINE Good(l, k) ==
             /\ l \in V /\ KeptEntries(l.kept, k, removed)
             /\ Pointed(l.kept, l.current, currentIndex, k, removed)
             /\ Pointed(l.kept, l.previous, previousSelectedIndex, k, removed)
             /\ currentIndex = previousSelectedIndex => l.current = l.previous
           T == {k \in 0 .. n : Good(left[k], k)}
<1>11. 0 \in T
  <2>1. left[0] = first /\ 0 \in 0 .. n
    BY <1>2, <1>10
  <2>2. \A s : Firsts(s, 0) = {}
    BY DEF Firsts
  <2>3. first.kept = <<>> /\ first.current = currentIndex /\ first.previous = previousSelectedIndex
        /\ Len(<<>>) = 0
    OBVIOUS
  <2>4. KeptEntries(<<>>, 0, removed)
    BY <2>2, <2>3 DEF KeptEntries
  <2>5. ASSUME NEW at \in NoSelection .. n - 1 PROVE Pointed(<<>>, at, at, 0, removed)
    <3>1. at \in Int /\ at >= -1
      BY <2>5 DEF NoSelection
    <3>2. 0 >= at + 1 => at + 1 = 0
      BY <3>1
    <3> QED
      BY <2>2, <2>3, <3>1, <3>2 DEF Pointed
  <2>6. Pointed(<<>>, currentIndex, currentIndex, 0, removed)
        /\ Pointed(<<>>, previousSelectedIndex, previousSelectedIndex, 0, removed)
    BY <2>5 DEF n
  <2> QED
    BY <1>5, <2>1, <2>3, <2>4, <2>6
<1>12. ASSUME NEW k \in 1 .. n, k - 1 \in T PROVE k \in T
  <2>1. Good(left[k - 1], k - 1) /\ k \in 0 .. n /\ k \in 1 .. Len(history)
    BY <1>2, <1>12 DEF n
  <2>2. left[k] = After(left[k - 1], k)
    BY <1>2, <1>10, <2>1
  <2> PICK l : l = left[k - 1]
    OBVIOUS
  <2>3. /\ l.kept \in Seq(S) /\ l.current \in Int /\ l.previous \in Int
    BY <2>1 DEF V
  <2>4. /\ l \in V /\ KeptEntries(l.kept, k - 1, removed)
        /\ Pointed(l.kept, l.current, currentIndex, k - 1, removed)
        /\ Pointed(l.kept, l.previous, previousSelectedIndex, k - 1, removed)
        /\ currentIndex = previousSelectedIndex => l.current = l.previous
    BY <2>1
  <2>5. After(l, k) \in V
    BY <1>3, <2>4
  <2>6. CASE history[k] \in removed
    <3>1. /\ After(l, k).kept = l.kept
          /\ After(l, k).current = Moved(Len(l.kept), l.current)
          /\ After(l, k).previous = Moved(Len(l.kept), l.previous)
      BY <1>3, <2>4, <2>6
    <3>2. /\ KeptEntries(l.kept, k, removed)
          /\ Pointed(l.kept, Moved(Len(l.kept), l.current), currentIndex, k, removed)
          /\ Pointed(l.kept, Moved(Len(l.kept), l.previous), previousSelectedIndex, k, removed)
      BY <2>1, <2>3, <2>4, <2>6, EntryRemoved
    <3> QED
      BY <2>1, <2>2, <2>4, <2>5, <3>1, <3>2
  <2>7. CASE history[k] \notin removed
    <3>1. /\ After(l, k).kept = Append(l.kept, history[k])
          /\ After(l, k).current = l.current /\ After(l, k).previous = l.previous
      BY <1>3, <2>4, <2>7
    <3>2. /\ KeptEntries(Append(l.kept, history[k]), k, removed)
          /\ Pointed(Append(l.kept, history[k]), l.current, currentIndex, k, removed)
          /\ Pointed(Append(l.kept, history[k]), l.previous, previousSelectedIndex, k, removed)
      BY <2>1, <2>3, <2>4, <2>7, EntryKept
    <3> QED
      BY <2>1, <2>2, <2>4, <2>5, <3>1, <3>2
  <2> QED
    BY <2>6, <2>7
<1> HIDE DEF T
<1>13. 0 .. n \subseteq T
  BY <1>2, <1>11, <1>12, InductionUpTo
<1>14. Good(left[n], n)
  BY <1>2, <1>13 DEF T
<1> QED
  BY <1>1, <1>14 DEF V, n

-----------------------------------------------------------------------------
(* The indices stay in the history *)

\* What the owner leaves when it takes over what is pending.
LEMMA TakePendingLeaves ==
  ASSUME NEW S, history \in Seq(S), pendingHistory \in Seq(S), TakePending,
         currentIndex \in Int, currentIndex >= NoSelection
  PROVE  \E n \in 0 .. Len(history) :
           /\ n = currentIndex + 1 \/ (n = Len(history) /\ n <= currentIndex + 1)
           /\ history' \in Seq(S) /\ Len(history') = n + Len(pendingHistory)
           /\ \A k \in 1 .. n : history'[k] = history[k]
           /\ \A k \in 1 .. Len(pendingHistory) : history'[n + k] = pendingHistory[k]
           /\ pendingHistory' = <<>>
           /\ currentIndex' = Len(history') - 1 /\ previousSelectedIndex' = Len(history') - 1
           /\ index' = Len(history') - 1
<1> DEFINE kept == IF Len(history) > currentIndex + 1
                     THEN SubSeq(history, 1, currentIndex + 1) ELSE history
           n == IF Len(history) > currentIndex + 1 THEN currentIndex + 1 ELSE Len(history)
<1>1. Len(history) \in Nat /\ currentIndex + 1 \in Nat
  BY DEF NoSelection
<1>2. /\ kept \in Seq(S) /\ Len(kept) = n /\ n \in 0 .. Len(history)
      /\ \A k \in 1 .. n : kept[k] = history[k]
  <2>1. CASE Len(history) > currentIndex + 1
    <3>1. \A k \in 1 .. currentIndex + 1 : history[k] \in S
      BY <1>1, <2>1
    <3>2. /\ SubSeq(history, 1, currentIndex + 1) \in Seq(S)
          /\ Len(SubSeq(history, 1, currentIndex + 1)) = currentIndex + 1
          /\ \A k \in 1 .. currentIndex + 1 : SubSeq(history, 1, currentIndex + 1)[k] = history[k]
      BY <1>1, <2>1, <3>1, SubSeqProperties
    <3> QED
      BY <1>1, <2>1, <3>2
  <2>2. CASE ~(Len(history) > currentIndex + 1)
    BY <1>1, <2>2
  <2> QED
    BY <2>1, <2>2
<1>3. /\ history' = kept \o pendingHistory /\ pendingHistory' = <<>>
      /\ currentIndex' = Len(kept) + Len(pendingHistory) - 1
      /\ previousSelectedIndex' = Len(kept) + Len(pendingHistory) - 1
      /\ index' = Len(kept) + Len(pendingHistory) - 1
  BY DEF TakePending
<1>4. n = currentIndex + 1 \/ (n = Len(history) /\ n <= currentIndex + 1)
  BY <1>1
<1> HIDE DEF kept, n
<1>5. /\ history' \in Seq(S) /\ Len(history') = n + Len(pendingHistory)
      /\ \A k \in 1 .. n : history'[k] = history[k]
      /\ \A k \in 1 .. Len(pendingHistory) : history'[n + k] = pendingHistory[k]
  BY <1>2, <1>3
<1>6. /\ n \in 0 .. Len(history) /\ currentIndex' = Len(history') - 1
      /\ previousSelectedIndex' = Len(history') - 1 /\ index' = Len(history') - 1
  BY <1>2, <1>3, <1>5
<1> QED
  BY <1>3, <1>4, <1>5, <1>6

LEMMA EnteredStep ==
  ASSUME StackShape, Basics, OInv, Kept, StepKind, IndexInv
  PROVE  Entered'
<1>1. history \in Seq(Ids) /\ pendingHistory \in Seq(Ids) /\ Ids \subseteq Ids'
  BY DEF IndexInv, Entered, Kept
<1>2. /\ \A s : s \in Seq(Ids) => s \in Seq(Ids')
      /\ currentIndex \in NoSelection .. Len(history) - 1 => currentIndex \in Int
      /\ previousSelectedIndex \in NoSelection .. Len(history) - 1
      /\ currentIndex \in Int /\ currentIndex >= NoSelection
  BY <1>1 DEF IndexInv, Selected
<1>3. CASE SameHistory
  BY <1>1, <1>2, <1>3 DEF SameHistory, Entered
<1>4. CASE TakePending
  <2>1. history' \in Seq(Ids) /\ pendingHistory' = <<>>
    BY <1>1, <1>2, <1>4, TakePendingLeaves
  <2>2. <<>> \in Seq(Ids')
    OBVIOUS
  <2> QED
    BY <1>2, <2>1, <2>2 DEF Entered
<1>5. ASSUME RemoveCall, ~Moving
      PROVE  Entered'
  <2>1. PICK removed : history' = Erase(removed).kept /\ UNCHANGED pendingHistory
    BY <1>5 DEF RemoveCall
  <2>2. currentIndex = previousSelectedIndex
    BY <1>5 DEF IndexInv, Selected
  <2>3. history' \in Seq(Ids)
    BY <1>1, <1>2, <2>1, <2>2, EraseLeaves
  <2> QED
    BY <1>1, <1>2, <2>1, <2>3 DEF Entered
<1>6. CASE \E L, closes, done : Popping(L, closes, done)
  <2>1. PICK L, closes, done : Popping(L, closes, done)
    BY <1>6
  <2>2. done \in Ids /\ UNCHANGED history
    BY <2>1, PopLeaves DEF Leaving, Popping
  <2>3. UNCHANGED pendingHistory \/ pendingHistory' = Append(pendingHistory, done)
    BY <2>1 DEF Popping
  <2>4. pendingHistory' \in Seq(Ids)
    BY <1>1, <2>2, <2>3
  <2> QED
    BY <1>1, <1>2, <2>2, <2>4 DEF Entered
<1>7. RemoveCall => ~Moving
  <2>1. "remove" \in Calls /\ OwnerActs
    BY DEF Calls, OInv
  <2> QED
    BY <2>1, TopCall DEF RemoveCall, Moving
<1> QED
  BY <1>3, <1>4, <1>5, <1>6, <1>7 DEF StepKind, Neutral, Queueing, Taking, Starting, Finishing

LEMMA SelectedInside ==
  ASSUME Selected, Inside \/ Outside
  PROVE  Selected'
<1>1. CASE Inside
  <2>1. /\ Moving' <=> Moving
        /\ Calling("undo")' <=> Calling("undo")
        /\ UNCHANGED <<history, currentIndex, previousSelectedIndex, index>>
    BY <1>1 DEF Inside, SameCalls, Moving, Calls, historyVars
  <2>2. ASSUME NEW i, Job(i)'
        PROVE  /\ Moving' /\ Waits(i)'
               /\ currentIndex' \in {previousSelectedIndex', instances'[i].target}
    <3>1. Job(i) /\ instances'[i].target = instances[i].target
      BY <1>1, <2>2 DEF Inside, NoNewJob
    <3>2. Waits(i)'
      BY <1>1, <3>1 DEF Selected, Inside, WaitsKept, Job
    <3> QED
      BY <2>1, <3>1, <3>2 DEF Selected
  <2> QED
    BY <2>1, <2>2 DEF Selected
<1>2. CASE Outside
  <2>1. ~Moving /\ ~Moving' /\ UNCHANGED <<history, currentIndex, previousSelectedIndex, index>>
    BY <1>2 DEF Outside, historyVars
  <2>2. \A i : ~Job(i)'
    BY <1>2, <2>1 DEF Outside, NoNewJob, Selected
  <2>3. Calling("undo")' => currentIndex' >= 0
    <3>1. SUFFICES ASSUME Calling("undo")' PROVE currentIndex' >= 0
      OBVIOUS
    <3>2. CanUndo /\ currentIndex = previousSelectedIndex /\ previousSelectedIndex \in Int
      BY <1>2, <2>1, <3>1 DEF Outside, Selected
    <3> QED
      BY <2>1, <3>2 DEF CanUndo
  <2> QED
    BY <2>1, <2>2, <2>3 DEF Selected
<1> QED
  BY <1>1, <1>2

LEMMA SelectedEntering ==
  ASSUME Entered, Selected, Entering
  PROVE  Selected'
<1>1. /\ Moving' <=> Moving
      /\ Calling("undo")' <=> Calling("undo")
      /\ instances' = instances /\ WaitsKept /\ TakePending /\ pendingHistory # <<>>
  BY DEF Entering, SameCalls, Moving, Calls
<1>2. /\ history \in Seq(Ids) /\ pendingHistory \in Seq(Ids)
      /\ currentIndex \in Int /\ currentIndex >= NoSelection
  BY DEF Entered, Selected
<1>3. PICK n \in 0 .. Len(history) :
        /\ Len(history') = n + Len(pendingHistory) /\ currentIndex' = Len(history') - 1
        /\ previousSelectedIndex' = Len(history') - 1 /\ index' = Len(history') - 1
  BY <1>1, <1>2, TakePendingLeaves
<1>4. Len(pendingHistory) \in Nat /\ Len(pendingHistory) > 0 /\ n \in Nat
  BY <1>1, <1>2
<1>5. Len(history') \in Nat /\ Len(history') > 0
  BY <1>3, <1>4
<1>6. \A i : Job(i)' => Waits(i)' /\ Moving'
  <2>1. \A i : Job(i)' => Job(i)
    BY <1>1 DEF Job, Ids, Complete
  <2> QED
    BY <1>1, <2>1 DEF Selected, WaitsKept, Job
<1> QED
  BY <1>3, <1>5, <1>6 DEF Selected, NoSelection

LEMMA SelectedMoves ==
  ASSUME IInv, IInv', Selected, NEW target, Moves(target)
  PROVE  Selected'
<1> DEFINE acts == <<Act("move", Root), Act("waitStart", Count + 1), Act("loop", Root)>>
<1>1. /\ ~Moving /\ currentIndex = previousSelectedIndex
      /\ previousSelectedIndex \in NoSelection .. Len(history) - 1 /\ currentIndex \in Int
      /\ \A i : ~Job(i)
  BY DEF Moves, Selected
<1>2. /\ previousSelectedIndex' = currentIndex /\ currentIndex' = target
      /\ instances' = Append(instances,
           MakeCommand("undoRedo", UndoRedoClass, target, currentFrame[Owner]))
      /\ UNCHANGED <<history, index>>
  BY DEF Moves, MoveCommandIndex
<1>3. target \in Int /\ target >= NoSelection
  BY <1>1 DEF Moves, Selected, NoSelection
<1>4. /\ Above(Owner, 0, acts) /\ Len(acts) = 3
      /\ acts[1] = Act("move", Root) /\ acts[2] = Act("waitStart", Count + 1)
  BY TuplesListed DEF Moves
<1> HIDE DEF acts
<1>5. /\ 1 \in 1 .. 3 /\ 2 \in 1 .. 3 /\ 0 + 1 = 1 /\ 0 + 2 = 2 /\ 0 + 3 = 3
      /\ DOMAIN stack'[Owner] = 1 .. 3
      /\ stack'[Owner][1] = acts[1] /\ stack'[Owner][2] = acts[2]
  BY <1>4 DEF Above
<1>0. PICK job : job = Count + 1
  OBVIOUS
<1>6. Moving' /\ ~Calling("undo")' /\ Waits(job)'
  BY <1>0, <1>4, <1>5, ActFields DEF Moving, Calling, Waits, Waiting
<1>7. ASSUME NEW i, Job(i)'
      PROVE  Waits(i)' /\ currentIndex' = instances'[i].target
  <2>1. /\ Ids' = 1 .. Count + 1 /\ Ids = 1 .. Count /\ Count \in Nat
        /\ \A j \in 1 .. Count : instances'[j] = instances[j]
        /\ instances'[Count + 1].target = target
    <3>1. PICK k : Enqueued(k, "undoRedo", UndoRedoClass, target)
      BY MoveCommandIndexEffect DEF Moves
    <3>2. Ids = 1 .. Count /\ Ids' = 1 .. Count'
      BY BasicsHold, BasicsNext DEF Basics
    <3> QED
      BY <3>1, <3>2 DEF Enqueued, MakeCommand
  <2>2. i \in 1 .. Count + 1
    BY <1>7, <2>1 DEF Job
  <2>3. i = Count + 1
    <3>1. i \in 1 .. Count => Job(i)
      BY <1>7, <2>1 DEF Job, Complete
    <3> QED
      BY <1>1, <2>1, <2>2, <3>1
  <2> QED
    BY <1>0, <1>2, <1>6, <2>1, <2>3
<1> QED
  BY <1>1, <1>2, <1>3, <1>6, <1>7 DEF Selected

LEMMA SelectedReturns ==
  ASSUME IInv, Entered, Selected, MoveReturns \/ Removes
  PROVE  Selected'
<1>1. StackShape /\ Owner \in Threads
  BY DEF IInv, Shape, Threads
<1>2. \A c : ~Calling(c)'
  <2>1. Above(Owner, 0, <<>>) /\ Len(<<>>) = 0
    BY DEF MoveReturns, Removes
  <2>2. DOMAIN stack'[Owner] = 1 .. 0
    BY <2>1 DEF Above
  <2> QED
    BY <2>2 DEF Calling
<1>3. instances' = instances
  BY DEF MoveReturns, MoveDone, Removes, RemoveCall
<1>4. \A i : ~Job(i)'
  <2>1. \A i : Job(i)' => Job(i)
    BY <1>3 DEF Job, Ids, Complete
  <2>2. \A i : ~Job(i)
    <3>1. CASE Removes
      BY <3>1 DEF Selected, Removes
    <3>2. CASE MoveReturns
      <4>1. 2 \notin DOMAIN stack[Owner]
        BY <1>1, <3>2, OwningDomain DEF MoveReturns
      <4> QED
        BY <4>1 DEF Selected, Waits
    <3> QED
      BY <3>1, <3>2
  <2> QED
    BY <2>1, <2>2
<1>5. CASE MoveReturns
  <2>1. /\ currentIndex' = previousSelectedIndex /\ index' = previousSelectedIndex
        /\ UNCHANGED <<history, previousSelectedIndex>>
    BY <1>5 DEF MoveReturns, MoveDone
  <2>2. /\ previousSelectedIndex \in NoSelection .. Len(history) - 1
        /\ previousSelectedIndex \in Int /\ previousSelectedIndex >= NoSelection
    BY DEF Selected, NoSelection
  <2> QED
    BY <1>2, <1>4, <2>1, <2>2 DEF Selected, Moving
<1>6. CASE Removes
  <2>1. PICK removed :
          LET left == Erase(removed)
          IN /\ history' = left.kept
             /\ previousSelectedIndex' = left.previous
             /\ currentIndex' = left.current /\ index' = left.current
    BY <1>6 DEF Removes, RemoveCall
  <2>2. /\ history \in Seq(Ids) /\ currentIndex = previousSelectedIndex
        /\ currentIndex \in NoSelection .. Len(history) - 1
    BY <1>6 DEF Removes, Selected, Entered
  <2>3. /\ history' \in Seq(Ids) /\ currentIndex' \in Int
        /\ previousSelectedIndex' = currentIndex' /\ index' = currentIndex'
        /\ Pointed(history', currentIndex', currentIndex, Len(history), removed)
    BY <2>1, <2>2, EraseLeaves
  <2>4. Len(history) \in Nat /\ Len(history') \in Nat
    BY <2>2, <2>3
  <2>5. Len(history) >= currentIndex + 1
    BY <2>2, <2>4 DEF NoSelection
  <2>6. currentIndex' + 1 \in 0 .. Len(history')
    BY <2>3, <2>5 DEF Pointed
  <2>7. currentIndex' \in NoSelection .. Len(history') - 1 /\ currentIndex' >= NoSelection
    <3>1. currentIndex' \in Int
      BY <2>3
    <3>2. \A m \in Int : \A l \in Nat : m + 1 \in 0 .. l => m \in -1 .. l - 1 /\ m >= -1
      OBVIOUS
    <3> QED
      BY <2>4, <2>6, <3>1, <3>2 DEF NoSelection
  <2> QED
    BY <1>2, <1>4, <2>3, <2>7 DEF Selected, Moving
<1> QED
  BY <1>5, <1>6

LEMMA TopDoes ==
  ASSUME StackShape, NEW t \in Threads, NEW at, At(t, at)
  PROVE  Does(t, Len(stack[t]), at, Top(t).inst) /\ Len(stack[t]) > 0
<1>1. DOMAIN stack[t] = 1 .. Len(stack[t]) /\ Len(stack[t]) \in Nat /\ stack[t] # <<>>
  BY OwningDomain DEF At, Running
<1>2. Len(stack[t]) > 0
  BY <1>1 DEF StackShape, Listed
<1> QED
  BY <1>1, <1>2 DEF Does, At, Top, Last

\* undoRedo moves the index towards the target of its job, and not beyond it.
LEMMA SelectedEntry ==
  ASSUME IInv, OInv, Entered, Selected, UndoEntry \/ RedoEntry
  PROVE  Selected'
<1>0. PICK i : i = Top(Owner).inst
  OBVIOUS
<1>1. StackShape /\ Owner \in Threads /\ OwnerActs
  BY DEF IInv, Shape, Threads, OInv
<1>2. /\ At(Owner, "undoRedo") /\ ~UndoRedoEnds(i)
      /\ UNCHANGED <<stack, instances, history, currentIndex, index>>
  BY <1>0 DEF UndoEntry, RedoEntry
<1>3. Job(i)
  <2>1. Does(Owner, Len(stack[Owner]), "undoRedo", i)
    BY <1>0, <1>1, <1>2, TopDoes
  <2>2. i \in Ids /\ instances[i].status = "Running" /\ instances[i].kind = "undoRedo"
    BY <1>1, <2>1 DEF OInv, Ordered, Statuses, Holding
  <2> QED
    BY <2>2 DEF Job, Complete
<1>4. /\ Moving /\ Waits(i) /\ ~Calling("undo")
      /\ previousSelectedIndex # currentIndex /\ currentIndex = instances[i].target
      /\ history # <<>> /\ ~(instances[i].target >= Len(history))
      /\ \A j : Job(j) => j = i
  BY <1>2, <1>3 DEF Selected, UndoRedoEnds, Moving, Calling, Waits
<1>5. /\ Moving' /\ ~Calling("undo")' /\ Waits(i)'
      /\ \A j : Job(j)' => Job(j)
  BY <1>2, <1>4 DEF Moving, Calling, Waits, Job, Ids, Complete
<1>6. previousSelectedIndex' \in NoSelection .. Len(history) - 1
  <2>1. /\ previousSelectedIndex \in NoSelection .. Len(history) - 1
        /\ currentIndex \in Int /\ currentIndex >= NoSelection /\ Len(history) \in Nat
        /\ currentIndex < Len(history)
    BY <1>4 DEF Selected, Entered
  <2>2. \/ previousSelectedIndex > currentIndex /\ previousSelectedIndex' = previousSelectedIndex - 1
        \/ previousSelectedIndex < currentIndex /\ previousSelectedIndex' = previousSelectedIndex + 1
    BY DEF UndoEntry, RedoEntry
  <2> QED
    BY <2>1, <2>2 DEF NoSelection
<1>7. \A j : Job(j)' =>
        Moving' /\ Waits(j)' /\ currentIndex' \in {previousSelectedIndex', instances'[j].target}
  BY <1>2, <1>4, <1>5
<1> QED
  BY <1>2, <1>5, <1>6, <1>7 DEF Selected

LEMMA StepIndexed == IInv /\ OInv /\ IndexInv /\ [Next]_vars => IndexInv'
<1> SUFFICES ASSUME IInv, OInv, IndexInv, [Next]_vars PROVE IndexInv'
  OBVIOUS
<1>1. IInv' /\ Basics /\ Recorded /\ StackShape
  BY StepPreserves, BasicsHold DEF OInv, IInv, Shape
<1>2. Basics' /\ StepKind
  BY <1>1, BasicsNext, EveryStepKind DEF OInv
<1>3. Kept
  BY <1>1, <1>2, KeptStep
<1>4. Entered'
  BY <1>1, <1>2, <1>3, EnteredStep
<1>5. Selected'
  BY <1>1, EveryCallKind, SelectedInside, SelectedEntering, SelectedMoves, SelectedReturns,
     SelectedEntry DEF CallKind, IndexInv
<1> QED
  BY <1>4, <1>5 DEF IndexInv

\* The indices point into the history, and differ only while a move is under way.
THEOREM IndexInvariance == Spec => [](IInv /\ OInv /\ IndexInv)
<1>1. Init => IndexInv
  <2> SUFFICES ASSUME Init PROVE IndexInv
    OBVIOUS
  <2>1. /\ history = <<>> /\ pendingHistory = <<>> /\ instances = <<>> /\ stack[Owner] = <<>>
        /\ currentIndex = NoSelection /\ previousSelectedIndex = NoSelection /\ index = NoSelection
    BY DEF Init, Threads
  <2>2. Entered /\ Len(history) = 0 /\ \A c : ~Calling(c)
    BY <2>1 DEF Entered, Calling
  <2>3. \A i : ~Job(i)
    BY <2>1 DEF Job, Ids
  <2> QED
    BY <2>1, <2>2, <2>3 DEF IndexInv, Selected, Moving, NoSelection
<1>2. IndexInv /\ [Next]_vars /\ (IInv /\ OInv) => IndexInv'
  BY StepIndexed
<1> QED
  BY <1>1, <1>2, OrderInvariance, PTL DEF Spec

\* Between calls currentIndex_, previousSelectedIndex_ and index_ agree: see IndicesAgree.
THEOREM IndicesAgreeHolds == Spec => []IndicesAgree
<1>1. IndexInv => IndicesAgree
  <2> SUFFICES ASSUME IndexInv, stack[Owner] = <<>>
               PROVE  /\ currentIndex = previousSelectedIndex /\ index = previousSelectedIndex
                      /\ currentIndex \in NoSelection .. Len(history) - 1
    BY DEF IndicesAgree
  <2>1. ~Moving
    BY DEF Moving, Calling
  <2> QED
    BY <2>1 DEF IndexInv, Selected
<1> QED
  BY <1>1, IndexInvariance, PTL

\* Whatever its flush took into the history, undo() has an entry to undo: see UndoAsserts.
THEOREM UndoAssertsHolds == Spec => []UndoAsserts
<1>1. IInv /\ OInv /\ IndexInv => UndoAsserts
  <2> SUFFICES ASSUME IInv, OInv, IndexInv, At(Owner, "undo")
               PROVE  currentIndex >= 0 /\ CanUndo
    BY DEF UndoAsserts
  <2>1. "undo" \in Calls /\ "move" # "undo" /\ StackShape /\ OwnerActs
    BY DEF Calls, OInv, IInv, Shape
  <2>2. Calling("undo") /\ ~Moving
    BY <2>1, TopCall DEF Moving
  <2>3. /\ currentIndex >= 0 /\ currentIndex = previousSelectedIndex
        /\ previousSelectedIndex \in NoSelection .. Len(history) - 1
        /\ history \in Seq(Ids)
    BY <2>2 DEF IndexInv, Selected, Entered
  <2>4. ~(previousSelectedIndex < 0) /\ history # <<>>
    BY <2>3 DEF NoSelection
  <2> QED
    BY <2>3, <2>4 DEF CanUndo
<1> QED
  BY <1>1, IndexInvariance, PTL

LEMMA RangeFirsts ==
  ASSUME NEW S, NEW s \in Seq(S), NEW n \in 0 .. Len(s)
  PROVE  Range(SubSeq(s, 1, n)) = Firsts(s, n) /\ Range(s) = Firsts(s, Len(s))
<1>1. Len(s) \in Nat /\ n \in Nat /\ DOMAIN s = 1 .. Len(s)
  OBVIOUS
<1>2. \A k \in 1 .. n : s[k] \in S
  BY <1>1
<1>3. /\ DOMAIN SubSeq(s, 1, n) = 1 .. n
      /\ \A k \in 1 .. n : SubSeq(s, 1, n)[k] = s[k]
  <2>1. /\ SubSeq(s, 1, n) \in Seq(S) /\ Len(SubSeq(s, 1, n)) = n
        /\ \A k \in 1 .. n : SubSeq(s, 1, n)[k] = s[k]
    BY <1>1, <1>2, SubSeqProperties
  <2> QED
    BY <2>1
<1> QED
  BY <1>1, <1>3 DEF Range, Firsts

\* While removeCommands is on top, nothing else moves the history or the indices.
LEMMA RemoveAlone ==
  ASSUME Owner # Worker, At(Owner, "remove"), [Next]_vars
  PROVE  RemoveCall \/ UNCHANGED historyVars
<1>1. CASE UNCHANGED vars
  BY <1>1 DEF vars
<1>2. ~AppStep
  BY DEF At, Running, AppStep, AppQueue, AppBatch, AppWait, AppUndo, AppRedo, AppMove,
         AppRemove, AppFlush, AppUpdate, AppFini, MayMove, Idle
<1>3. ~ThreadStep(Owner)
  BY DEF At, ThreadStep, LoopEnds, TakeCommand, TakeUndoRedo, Executing, ExecWrite, ExecQueue,
         ExecBatch, ExecWait, Execute, SpinProcess, PopFrame, Rollback, WaitProcess, WaitNext,
         WaitStart, Flush
<1>4. CASE OwnerStep
  BY <1>3, <1>4 DEF At, OwnerStep, UndoCall, RedoCall, UndoEntry, RedoEntry, UndoRedoDone,
     UndoRedoFails, MoveDone, UpdateDone, FiniExit, FiniJoin
<1>5. CASE WorkerStep
  BY <1>5 DEF WorkerStep, WorkerTurn, WorkerWoken, ThreadStep, LoopEnds, TakeCommand, TakeUndoRedo,
     ExecWrite, ExecQueue, ExecBatch, ExecWait, Execute, SpinProcess, PopFrame, Rollback,
     WaitProcess, WaitNext, WaitStart, Flush
<1> QED
  BY <1>1, <1>2, <1>4, <1>5 DEF Next

\* removeCommands keeps the boundary between done and undone entries, whichever entries
\* it erases: see RemovalKeepsBoundary.
THEOREM RemovalKeepsBoundaryHolds == Spec => RemovalKeepsBoundary
<1> DEFINE Boundary == At(Owner, "remove") =>
             Range(SubSeq(history', 1, currentIndex' + 1)) =
               Range(SubSeq(history, 1, currentIndex + 1)) \cap Range(history')
<1>1. IInv /\ OInv /\ IndexInv /\ [Next]_vars => Boundary
  <2> SUFFICES ASSUME IInv, OInv, IndexInv, [Next]_vars, At(Owner, "remove")
               PROVE  Range(SubSeq(history', 1, currentIndex' + 1)) =
                        Range(SubSeq(history, 1, currentIndex + 1)) \cap Range(history')
    OBVIOUS
  <2>1. "remove" \in Calls /\ "move" # "remove" /\ StackShape /\ OwnerActs
    BY DEF Calls, OInv, IInv, Shape
  <2>2. ~Moving
    BY <2>1, TopCall DEF Moving
  <2>3. /\ history \in Seq(Ids) /\ Len(history) \in Nat
        /\ currentIndex = previousSelectedIndex
        /\ currentIndex \in NoSelection .. Len(history) - 1
    BY <2>2 DEF IndexInv, Selected, Entered
  <2>4. /\ currentIndex + 1 \in 0 .. Len(history) /\ Len(history) >= currentIndex + 1
    BY <2>3 DEF NoSelection
  <2>5. /\ Range(SubSeq(history, 1, currentIndex + 1)) = Firsts(history, currentIndex + 1)
        /\ Range(history) = Firsts(history, Len(history))
    BY <2>3, <2>4, RangeFirsts
  <2>6. Firsts(history, currentIndex + 1) \subseteq Firsts(history, Len(history))
    BY <2>3, <2>4 DEF Firsts
  <2>7. CASE UNCHANGED historyVars
    BY <2>5, <2>6, <2>7 DEF historyVars
  <2>8. CASE RemoveCall
    <3>1. PICK removed : history' = Erase(removed).kept /\ currentIndex' = Erase(removed).current
      BY <2>8 DEF RemoveCall
    <3>2. /\ history' \in Seq(Ids) /\ KeptEntries(history', Len(history), removed)
          /\ Pointed(history', currentIndex', currentIndex, Len(history), removed)
      BY <2>3, <3>1, EraseLeaves
    <3>3. /\ currentIndex' + 1 \in 0 .. Len(history')
          /\ Firsts(history', currentIndex' + 1) = Firsts(history, currentIndex + 1) \ removed
          /\ Firsts(history', Len(history')) = Firsts(history, Len(history)) \ removed
      BY <2>4, <3>2 DEF Pointed, KeptEntries
    <3>4. /\ Range(SubSeq(history', 1, currentIndex' + 1)) = Firsts(history', currentIndex' + 1)
          /\ Range(history') = Firsts(history', Len(history'))
      BY <3>2, <3>3, RangeFirsts
    <3> QED
      BY <2>5, <2>6, <3>3, <3>4
  <2>9. Owner # Worker
    BY ConstantsAssumption
  <2> QED
    BY <2>7, <2>8, <2>9, RemoveAlone
<1>2. Boundary => [Boundary]_vars
  OBVIOUS
<1> QED
  BY <1>1, <1>2, IndexInvariance, PTL DEF RemovalKeepsBoundary, Spec

-----------------------------------------------------------------------------
(* What the history holds *)

Child(c) == \E i \in Ids : \E k \in DOMAIN instances[i].children : instances[i].children[k] = c

\* The command under way on the root frame, or the batch that is open there.
Outermost(c) ==
  \/ Depth > 1 /\ Len(Groups(1)) = 1 /\ c = Inst(2)
  \/ Len(Groups(1)) > 1 /\ c = Groups(1)[2]

\* A command becomes a child when it starts, and only inside another command or a batch.
Childless == \A c : Child(c) => c \in Ids /\ instances[c].status # "Queued" /\ ~Outermost(c)

Entry(e) ==
  /\ e \in Ids /\ Complete(e)
  /\ instances[e].home = Root /\ instances[e].error # "failed" /\ ~Child(e)
Once(s) == \A j, k \in 1 .. Len(s) : s[j] = s[k] => j = k

Entries ==
  /\ \A k \in 1 .. Len(history) : Entry(history[k])
  /\ \A k \in 1 .. Len(pendingHistory) : Entry(pendingHistory[k])
  /\ Once(history) /\ Once(pendingHistory)
  /\ \A j \in 1 .. Len(history) : \A k \in 1 .. Len(pendingHistory) :
       history[j] # pendingHistory[k]

HInv == Childless /\ Entries

\* An instance is queued once, and keeps its error code once it is complete.
LEMMA StatusSteps ==
  ASSUME Basics, OInv, StepKind
  PROVE  \A j \in Ids :
           /\ instances[j].status # "Queued" => instances'[j].status # "Queued"
           /\ Complete(j) => Complete(j)' /\ instances'[j].error = instances[j].error
<1>0. Statuses
  BY DEF OInv, Ordered
<1>1. CASE Neutral
  BY <1>1 DEF Neutral, Complete
<1>2. CASE \E k, kind, class, target : Queueing(k, kind, class, target)
  BY <1>2 DEF Queueing, Enqueued, Basics, Complete
<1>3. ASSUME NEW L, NEW i, Dequeued(L, i), NEW j \in Ids
      PROVE  /\ instances[j].status # "Queued" => instances'[j].status # "Queued"
             /\ Complete(j) => Complete(j)' /\ instances'[j].error = instances[j].error
  <2>1. InQueue(i) /\ i \in Ids
    <3>1. L \in 1 .. Depth /\ 1 \in 1 .. Len(Queue(L)) /\ Queue(L)[1] = i
      BY <1>3 DEF Dequeued, Basics, FramesSized, Sized
    <3> QED
      BY <3>1 DEF InQueue, Basics
  <2>2. instances[i].status = "Queued"
    BY <1>0, <2>1 DEF Statuses
  <2> QED
    BY <1>3, <2>2 DEF Dequeued, Complete
<1>4. CASE \E L, i : Taking(L, i)
  BY <1>3, <1>4 DEF Taking, Taken
<1>5. CASE \E t, k, L, i : Starting(t, k, L, i)
  BY <1>3, <1>5 DEF Starting
<1>6. CASE \E L, closes, done : Popping(L, closes, done)
  <2>1. PICK L, closes, done : Popping(L, closes, done)
    BY <1>6
  <2>2. Leaving(L, closes, done)
    BY <2>1, PopLeaves
  <2>3. InGroup(done) \/ InFrame(done)
    BY <2>2 DEF Leaving, InFrame
  <2>4. instances[done].status = "Running"
    BY <1>0, <2>2, <2>3 DEF Statuses, Leaving
  <2>5. \A j \in Ids : /\ instances'[j].status \in {instances[j].status, "Complete"}
                       /\ j # done => instances'[j].error = instances[j].error
    BY <2>1 DEF Popping
  <2> QED
    BY <2>4, <2>5 DEF Complete
<1>7. CASE \E t, k, at, i : Finishing(t, k, at, i)
  BY <1>7 DEF Finishing, Complete
<1> QED
  BY <1>1, <1>2, <1>4, <1>5, <1>6, <1>7 DEF StepKind

\* Nothing but a command that starts becomes a child.
LEMMA ChildSteps ==
  ASSUME Basics, Basics', OInv, StepKind, NEW c, Child(c)'
  PROVE  Child(c) \/ \E L : Taking(L, c) /\ Last(Groups(L)) # Root
<1>0. PICK i \in Ids' : \E k \in DOMAIN instances'[i].children : instances'[i].children[k] = c
  BY DEF Child
<1>1. PICK k \in DOMAIN instances'[i].children : instances'[i].children[k] = c
  BY <1>0
<1>2. CASE SameTables
  <2>1. Ids' = Ids
    BY <1>2, TableKept DEF SameTables
  <2> QED
    BY <1>1, <1>2, <2>1 DEF SameTables, NoNewChild, Child
<1>3. CASE \E m, kind, class, target : Queueing(m, kind, class, target)
  <2>1. /\ Ids = 1 .. Count /\ Ids' = 1 .. Count + 1 /\ Count \in Nat
        /\ \A j \in 1 .. Count : instances'[j] = instances[j]
        /\ instances'[Count + 1].children = <<>>
    BY <1>3 DEF Queueing, Enqueued, Basics, MakeCommand
  <2>2. i # Count + 1
    BY <1>1, <2>1
  <2>3. i \in Ids
    BY <2>1, <2>2
  <2> QED
    BY <1>1, <2>1, <2>3 DEF Child
<1>4. CASE \E L, j : Taking(L, j)
  <2>1. PICK L, j : Taking(L, j)
    BY <1>4
  <2>2. Ids' = Ids
    BY <2>1, TableKept DEF Taking
  <2> QED
    BY <1>1, <2>1, <2>2 DEF Taking, Child
<1> QED
  BY <1>2, <1>3, <1>4 DEF StepKind, Neutral, Starting, Popping, Finishing

LEMMA ChildlessStep ==
  ASSUME Basics, Basics', OInv, StepKind, Kept, Childless
  PROVE  Childless'
<1>0. /\ Depth \in Nat /\ Depth > 0 /\ 1 \in 1 .. Depth /\ Len(Groups(1)) \in Nat
      /\ Statuses /\ Grouped /\ \A j \in Ids : j \in Ids'
      /\ \A n \in Nat : 1 < n => 2 \in 1 .. n /\ 2 \in 2 .. n /\ n # 1
  <2>1. Depth \in Nat /\ Depth > 0 /\ FramesSized /\ Statuses /\ Grouped
    BY DEF Basics, FramesSized, OInv, Ordered, Placed
  <2>2. 1 \in 1 .. Depth
    BY <2>1
  <2>3. Len(Groups(1)) \in Nat
    BY <2>1, <2>2 DEF FramesSized, Sized
  <2>4. \A j \in Ids : j \in Ids'
    BY DEF Kept
  <2>5. \A n \in Nat : 1 < n => 2 \in 1 .. n /\ 2 \in 2 .. n /\ n # 1
    OBVIOUS
  <2> QED
    BY <2>1, <2>2, <2>3, <2>4, <2>5
<1>1. ASSUME NEW c, Child(c)' PROVE c \in Ids' /\ instances'[c].status # "Queued"
  <2>1. CASE Child(c)
    BY <1>0, <2>1, StatusSteps DEF Childless
  <2>2. CASE \E L : Taking(L, c)
    BY <1>0, <2>2 DEF Taking, Taken, Dequeued
  <2> QED
    BY <1>1, <2>1, <2>2, ChildSteps
<1>2. ASSUME NEW c, Outermost(c) PROVE c \in Ids => instances[c].status = "Running"
  <2>1. InFrame(c) \/ InGroup(c)
    BY <1>0, <1>2 DEF Outermost, InFrame, InGroup
  <2> QED
    BY <1>0, <2>1 DEF Statuses
<1>3. ASSUME NEW c, Outermost(c)'
      PROVE  Outermost(c) \/ \E L : Taking(L, c) /\ Last(Groups(L)) = Root
  <2>1. CASE /\ Depth' = Depth \/ (Depth > 1 /\ Depth' \in Nat)
             /\ Groups(1)' = Groups(1)
             /\ Depth' > 1 => Inst(2)' = Inst(2)
             /\ Depth' > 1 => Depth > 1
    BY <1>3, <2>1 DEF Outermost
  <2>2. CASE FramesKept \/ \E k, kind, class, target : Queueing(k, kind, class, target)
    BY <1>0, <2>1, <2>2 DEF FramesKept, Queueing, Enqueued
  <2>3. CASE \E t, k, L, i : Starting(t, k, L, i)
    BY <1>0, <2>1, <2>3 DEF Starting, Dequeued
  <2>4. CASE \E L, closes, done : Popping(L, closes, done)
    <3>1. PICK L, closes, done : Popping(L, closes, done)
      BY <2>4
    <3>2. Popped(L, closes) /\ L = Depth /\ L > 1 /\ Depth' = L - 1
      BY <3>1 DEF Popping, Popped
    <3>3. CASE L - 1 = 1
      <4>1. Len(Groups(1)') > 1 => Len(Groups(1)) > 1 /\ Groups(1)'[2] = Groups(1)[2]
        BY <1>0, <3>2, <3>3 DEF Popped, Shortened
      <4> QED
        BY <1>3, <3>2, <3>3, <4>1 DEF Outermost
    <3>4. CASE L - 1 # 1
      <4>1. 1 \in 1 .. L - 1 /\ 2 \in 1 .. L - 1 /\ Depth > 1
        BY <1>0, <3>2, <3>4
      <4> QED
        BY <1>0, <2>1, <3>2, <3>4, <4>1 DEF Popped
    <3> QED
      BY <3>3, <3>4
  <2>5. CASE \E L, i : Taking(L, i)
    <3>1. PICK L, i : Taking(L, i)
      BY <2>5
    <3>2. /\ L = Depth /\ Depth' = L + 1 /\ Inst(L + 1)' = i /\ L \in Nat
          /\ \A n \in 1 .. L : Inst(n)' = Inst(n) /\ (n # L => Groups(n)' = Groups(n))
          /\ Groups(L)' = Groups(L) \/ Extended(Groups(L)', Groups(L), i)
      BY <1>0, <3>1 DEF Taking, Taken, Dequeued
    <3>3. CASE L # 1
      <4>1. 1 \in 1 .. L /\ 2 \in 1 .. L /\ Depth > 1
        BY <1>0, <3>2, <3>3
      <4> QED
        BY <1>3, <3>2, <3>3, <4>1 DEF Outermost
    <3>4. CASE L = 1 /\ Len(Groups(1)) > 1
      <4>1. Len(Groups(1)') > 1 /\ Groups(1)'[2] = Groups(1)[2]
        BY <1>0, <3>2, <3>4 DEF Extended
      <4> QED
        BY <1>3, <3>4, <4>1 DEF Outermost
    <3>5. CASE L = 1 /\ ~(Len(Groups(1)) > 1)
      <4>1. Len(Groups(1)) = 1 /\ Groups(1)[1] = Inst(1) /\ Inst(1) = Root
        <5>1. Len(Groups(1)) > 0 /\ Groups(1)[1] = Inst(1) /\ Inst(1) = Root
          BY <1>0 DEF Grouped, Basics
        <5>2. \A m \in Nat : m > 0 /\ ~(m > 1) => m = 1
          OBVIOUS
        <5> QED
          BY <1>0, <3>5, <5>1, <5>2
      <4>2. Last(Groups(L)) = Root
        BY <3>5, <4>1 DEF Last
      <4>3. c = i
        BY <1>0, <1>3, <3>2, <3>5, <4>1 DEF Outermost, Extended
      <4> QED
        BY <3>1, <4>2, <4>3
    <3> QED
      BY <3>3, <3>4, <3>5
  <2> QED
    BY <2>2, <2>3, <2>4, <2>5 DEF StepKind, Neutral, Finishing
<1>4. ASSUME NEW c, Child(c)', Outermost(c)' PROVE FALSE
  <2>1. ASSUME NEW L, Taking(L, c) PROVE c \in Ids /\ instances[c].status = "Queued" /\ L = Depth
    <3>1. InQueue(c) /\ c \in Ids /\ L = Depth
      BY <2>1, TakenPlaces DEF Taking, Taken, Dequeued
    <3> QED
      BY <1>0, <3>1 DEF Statuses
  <2>2. ~Child(c) \/ ~Outermost(c)
    BY DEF Childless
  <2>3. CASE Child(c)
    BY <1>3, <1>4, <2>1, <2>2, <2>3 DEF Childless
  <2>4. CASE \E L : Taking(L, c) /\ Last(Groups(L)) # Root
    BY <1>2, <1>3, <1>4, <2>1, <2>4
  <2> QED
    BY <1>4, <2>3, <2>4, ChildSteps
<1> QED
  BY <1>1, <1>4 DEF Childless

\* An entry of the history stays as it is.
LEMMA EntryStays ==
  ASSUME Basics, Basics', OInv, StepKind, Kept, NEW e, Entry(e)
  PROVE  Entry(e)'
<1>1. e \in Ids /\ Complete(e) /\ instances[e].status # "Queued"
  BY DEF Entry, Complete
<1>2. /\ e \in Ids' /\ Complete(e)' /\ instances'[e].error = instances[e].error
      /\ instances'[e].home = instances[e].home
  BY <1>1, StatusSteps DEF Kept, SameKind
<1>3. ~Child(e)'
  <2>1. ASSUME NEW L, Taking(L, e) PROVE FALSE
    <3>1. InQueue(e)
      BY <2>1, TakenPlaces DEF Taking
    <3> QED
      BY <1>1, <3>1 DEF OInv, Ordered, Statuses
  <2> QED
    BY <2>1, ChildSteps DEF Entry
<1> QED
  BY <1>2, <1>3 DEF Entry

\* What popFrame adds to the history is a whole root command.
LEMMA EntryAdded ==
  ASSUME Basics, Basics', OInv, Kept, StepKind, Childless, NEW L, NEW closes, NEW done,
         Popping(L, closes, done), Last(Groups(L - 1)') = Root,
         Complete(done)', instances'[done].error # "failed"
  PROVE  Entry(done)' /\ ~Complete(done)
<1>1. /\ Leaving(L, closes, done) /\ Popped(L, closes)
      /\ done = IF closes THEN Groups(L - 1)[Len(Groups(L - 1))] ELSE Inst(L)
  <2>1. Leaving(L, closes, done)
    BY PopLeaves
  <2> QED
    BY <2>1 DEF Popping, Leaving
<1>2. /\ L = Depth /\ L > 1 /\ L - 1 \in 1 .. Depth /\ L \in Nat /\ done \in Ids /\ done \in Ids'
      /\ Grouped /\ Statuses /\ Inst(1) = Root /\ Root \notin Ids
  BY <1>1 DEF Leaving, OInv, Ordered, Placed, Kept, Basics, Root
<1>3. InGroup(done) \/ InFrame(done)
  BY <1>1 DEF Leaving, InFrame
<1>4. instances[done].status = "Running"
  BY <1>2, <1>3 DEF Statuses
<1>5. PICK s : s = Groups(L - 1)'
  OBVIOUS
<1>6. /\ Len(Groups(L - 1)) \in Nat /\ Len(Groups(L - 1)) > 0
      /\ Groups(L - 1)[1] = Inst(L - 1)
      /\ \A k \in 2 .. Len(Groups(L - 1)) :
           Groups(L - 1)[k] \in Ids /\ instances[Groups(L - 1)[k]].home = Inst(L - 1)
  BY <1>2 DEF Grouped, Basics, FramesSized, Sized
<1>7. /\ closes => Len(Groups(L - 1)) > 1
      /\ IF closes THEN Shortened(s, Groups(L - 1)) ELSE s = Groups(L - 1)
      /\ s[Len(s)] = Root
  BY <1>1, <1>5 DEF Popped, Leaving, Last
<1>8. PICK m : m = Len(s) /\ m \in 1 .. Len(Groups(L - 1)) /\ s[m] = Groups(L - 1)[m]
  BY <1>6, <1>7 DEF Shortened
<1>9. m = 1 /\ Inst(L - 1) = Root
  <2>1. m \in Nat /\ ~(m \in 2 .. Len(Groups(L - 1)))
    BY <1>2, <1>6, <1>7, <1>8
  <2> QED
    BY <1>6, <1>7, <1>8, <2>1
<1>10. L = 2
  <2>1. 1 \in 1 .. Depth /\ L - 1 = 1
    BY <1>2, <1>9 DEF Basics
  <2> QED
    BY <1>2, <2>1
<1>11. Outermost(done) /\ instances[done].home = Root
  <2>1. CASE closes
    <3>1. Len(Groups(1)) = 2 /\ done = Groups(1)[2] /\ 2 \in 2 .. Len(Groups(1))
      BY <1>1, <1>6, <1>7, <1>8, <1>9, <1>10, <2>1 DEF Shortened
    <3> QED
      BY <1>6, <1>9, <1>10, <3>1 DEF Outermost
  <2>2. CASE ~closes
    <3>1. Len(Groups(1)) = 1 /\ done = Inst(2) /\ Depth > 1
      <4>1. L - 1 = 1 /\ s = Groups(1) /\ Len(s) = 1
        BY <1>7, <1>8, <1>9, <1>10, <2>2
      <4> QED
        BY <1>1, <1>2, <1>10, <2>2, <4>1
    <3> QED
      BY <1>1, <1>9, <1>10, <2>2, <3>1 DEF Outermost, Leaving
  <2> QED
    BY <2>1, <2>2
<1>12. ~Child(done)'
  <2>1. ASSUME NEW K, Taking(K, done) PROVE FALSE
    <3>1. InQueue(done)
      BY <2>1, TakenPlaces DEF Taking
    <3> QED
      BY <1>2, <1>4, <3>1 DEF Statuses
  <2> QED
    BY <1>11, <2>1, ChildSteps DEF Childless
<1> QED
  BY <1>2, <1>4, <1>11, <1>12 DEF Entry, Kept, SameKind, Complete

\* Entries, whichever history and pending there are.
EntriesOf(h, p) ==
  /\ \A k \in 1 .. Len(h) : Entry(h[k])
  /\ \A k \in 1 .. Len(p) : Entry(p[k])
  /\ Once(h) /\ Once(p)
  /\ \A j \in 1 .. Len(h) : \A k \in 1 .. Len(p) : h[j] # p[k]

\* The first n elements of h, and then those of p.
Joined(g, h, n, p) ==
  /\ Len(g) = n + Len(p) /\ \A k \in 1 .. n : g[k] = h[k]
  /\ \A k \in 1 .. Len(p) : g[n + k] = p[k]

\* Some of the entries, in their order.
LEMMA EntriesTaken ==
  ASSUME NEW h, NEW p, NEW g, EntriesOf(h, p),
         Len(h) \in Nat, Len(p) \in Nat, NEW n \in 0 .. Len(h), Joined(g, h, n, p)
  PROVE  EntriesOf(g, <<>>)
<1>1. /\ n \in Nat /\ Len(g) \in Nat /\ Len(g) = n + Len(p)
      /\ \A k \in 1 .. n : g[k] = h[k]
      /\ \A k \in 1 .. Len(p) : g[n + k] = p[k]
  BY DEF Joined
<1>2. \A k \in 1 .. Len(g) : \/ k \in 1 .. n /\ k \in 1 .. Len(h)
                             \/ k - n \in 1 .. Len(p) /\ n + (k - n) = k /\ k \notin 1 .. n
  BY <1>1
<1>3. \A k \in 1 .. Len(g) : \/ k \in 1 .. n /\ k \in 1 .. Len(h) /\ g[k] = h[k]
                             \/ k - n \in 1 .. Len(p) /\ g[k] = p[k - n] /\ k \notin 1 .. n
  <2> TAKE k \in 1 .. Len(g)
  <2>1. CASE k \in 1 .. n
    <3>1. k \in 1 .. Len(h)
      BY <1>1, <2>1
    <3> QED
      BY <1>1, <2>1, <3>1
  <2>2. CASE k \notin 1 .. n
    <3>1. k - n \in 1 .. Len(p) /\ n + (k - n) = k
      BY <1>2, <2>2
    <3>2. g[n + (k - n)] = p[k - n]
      BY <1>1, <3>1
    <3> QED
      BY <2>2, <3>1, <3>2
  <2> QED
    BY <2>1, <2>2
<1>4. \A k \in 1 .. Len(g) : Entry(g[k])
  BY <1>3 DEF EntriesOf
<1>5. \A j, k \in 1 .. Len(g) : g[j] = g[k] => j = k
  <2> SUFFICES ASSUME NEW j \in 1 .. Len(g), NEW k \in 1 .. Len(g), g[j] = g[k] PROVE j = k
    OBVIOUS
  <2>1. CASE j \in 1 .. n /\ k \in 1 .. n
    BY <1>3, <2>1 DEF EntriesOf, Once
  <2>2. CASE j \notin 1 .. n /\ k \notin 1 .. n
    <3>1. j - n = k - n
      BY <1>3, <2>2 DEF EntriesOf, Once
    <3> QED
      BY <1>1, <3>1
  <2>3. CASE j \in 1 .. n /\ k \notin 1 .. n
    <3>1. j \in 1 .. Len(h) /\ k - n \in 1 .. Len(p) /\ h[j] = p[k - n]
      BY <1>1, <1>3, <2>3
    <3> QED
      BY <3>1 DEF EntriesOf
  <2>4. CASE j \notin 1 .. n /\ k \in 1 .. n
    <3>1. k \in 1 .. Len(h) /\ j - n \in 1 .. Len(p) /\ h[k] = p[j - n]
      BY <1>1, <1>3, <2>4
    <3> QED
      BY <3>1 DEF EntriesOf
  <2> QED
    BY <2>1, <2>2, <2>3, <2>4
<1> QED
  BY <1>4, <1>5 DEF EntriesOf, Once

LEMMA EntriesStep ==
  ASSUME StackShape, Basics, Basics', OInv, Kept, StepKind, IndexInv, HInv
  PROVE  Entries'
<1>0. EntriesOf(history, pendingHistory) /\ \A e : Entry(e) => Entry(e)'
  BY EntryStays DEF HInv, Entries, EntriesOf
<1>1. /\ history \in Seq(Ids) /\ pendingHistory \in Seq(Ids)
      /\ Len(history) \in Nat /\ Len(pendingHistory) \in Nat
      /\ currentIndex \in Int /\ currentIndex >= NoSelection
  BY DEF IndexInv, Entered, Selected
<1>2. ASSUME EntriesOf(history', pendingHistory')
      PROVE  Entries'
  BY <1>0, <1>2 DEF EntriesOf, Entries, Once
<1>3. CASE SameHistory
  BY <1>0, <1>2, <1>3 DEF SameHistory
<1>4. CASE TakePending
  <2>1. PICK n \in 0 .. Len(history) :
          Joined(history', history, n, pendingHistory) /\ pendingHistory' = <<>>
    BY <1>1, <1>4, TakePendingLeaves DEF Joined
  <2>2. EntriesOf(history', <<>>)
    BY <1>0, <1>1, <2>1, EntriesTaken
  <2> QED
    BY <1>2, <2>1, <2>2
<1>5. CASE RemoveCall
  <2>1. "remove" \in Calls /\ OwnerActs
    BY DEF Calls, OInv
  <2>2. ~Moving
    BY <1>5, <2>1, TopCall DEF RemoveCall, Moving
  <2>3. PICK removed : history' = Erase(removed).kept /\ UNCHANGED pendingHistory
    BY <1>5 DEF RemoveCall
  <2>4. currentIndex = previousSelectedIndex /\ currentIndex \in NoSelection .. Len(history) - 1
    BY <2>2 DEF IndexInv, Selected
  <2>5. KeptEntries(history', Len(history), removed)
    BY <1>1, <2>3, <2>4, EraseLeaves
  <2>6. \A k \in 1 .. Len(history') : \E j \in 1 .. Len(history) : history'[k] = history[j]
    BY <2>5 DEF KeptEntries, Firsts
  <2>7. Once(history')
    BY <1>0, <2>5 DEF EntriesOf, KeptEntries, Once
  <2>8. EntriesOf(history', pendingHistory)
    BY <1>0, <2>6, <2>7 DEF EntriesOf
  <2> QED
    BY <1>2, <2>3, <2>8
<1>6. CASE \E L, closes, done : Popping(L, closes, done)
  <2>1. PICK L, closes, done : Popping(L, closes, done)
    BY <1>6
  <2>2. UNCHANGED history /\ done \in Ids
    BY <2>1, PopLeaves DEF Leaving, Popping
  <2>3. CASE UNCHANGED pendingHistory
    BY <1>0, <1>2, <2>2, <2>3
  <2>4. CASE ~UNCHANGED pendingHistory
    <3>1. /\ Last(Groups(L - 1)') = Root /\ pendingHistory' = Append(pendingHistory, done)
          /\ instances'[done].status = "Complete" /\ instances'[done].error # "failed"
      BY <2>1, <2>2, <2>4 DEF Popping
    <3>2. Entry(done)' /\ ~Complete(done)
      BY <2>1, <3>1, EntryAdded DEF HInv, Complete
    <3>3. \A e : Entry(e) => e # done
      BY <3>2 DEF Entry
    <3>4. /\ Len(pendingHistory') = Len(pendingHistory) + 1
          /\ pendingHistory'[Len(pendingHistory) + 1] = done
          /\ \A k \in 1 .. Len(pendingHistory) : pendingHistory'[k] = pendingHistory[k]
      BY <1>1, <2>2, <3>1
    <3>5. \A k \in 1 .. Len(pendingHistory') :
            k \in 1 .. Len(pendingHistory) \/ k = Len(pendingHistory) + 1
      BY <1>1, <3>4
    <3>6. /\ Once(pendingHistory') /\ Once(history')
          /\ \A j \in 1 .. Len(history') : \A k \in 1 .. Len(pendingHistory') :
               history'[j] # pendingHistory'[k]
      BY <1>0, <2>2, <3>3, <3>4, <3>5 DEF EntriesOf, Once
    <3>7. /\ \A k \in 1 .. Len(history') : Entry(history[k])
          /\ \A k \in 1 .. Len(pendingHistory') : Entry(pendingHistory'[k]) \/ pendingHistory'[k] = done
      BY <1>0, <2>2, <3>4, <3>5 DEF EntriesOf
    <3>8. \A e : Entry(e) \/ e = done => Entry(e)'
      BY <1>0, <3>2
    <3> QED
      BY <2>2, <3>6, <3>7, <3>8 DEF Entries, Once
  <2> QED
    BY <2>3, <2>4
<1> QED
  BY <1>3, <1>4, <1>5, <1>6 DEF StepKind, Neutral, Queueing, Taking, Starting, Finishing

LEMMA StepEntered == IInv /\ OInv /\ IndexInv /\ HInv /\ [Next]_vars => HInv'
<1> SUFFICES ASSUME IInv, OInv, IndexInv, HInv, [Next]_vars PROVE HInv'
  OBVIOUS
<1>1. IInv' /\ Basics /\ Recorded /\ StackShape
  BY StepPreserves, BasicsHold DEF OInv, IInv, Shape
<1>2. Basics' /\ StepKind
  BY <1>1, BasicsNext, EveryStepKind DEF OInv
<1>3. Kept
  BY <1>1, <1>2, KeptStep
<1> QED
  BY <1>1, <1>2, <1>3, ChildlessStep, EntriesStep DEF HInv

\* What the history and the pending history hold, and who is a child of whom.
THEOREM EntriesInvariance == Spec => [](IInv /\ OInv /\ IndexInv /\ HInv)
<1>1. Init => HInv
  <2> SUFFICES ASSUME Init PROVE HInv
    OBVIOUS
  <2>1. Ids = {} /\ Len(history) = 0 /\ Len(pendingHistory) = 0
    BY DEF Init, Ids
  <2> QED
    BY <2>1 DEF HInv, Childless, Child, Entries, Once
<1>2. HInv /\ [Next]_vars /\ (IInv /\ OInv /\ IndexInv) => HInv'
  BY StepEntered
<1> QED
  BY <1>1, <1>2, IndexInvariance, PTL DEF Spec

\* Whole root commands enter the history, each once: see HistoryOfRoots.
THEOREM HistoryOfRootsHolds == Spec => []HistoryOfRoots
<1>1. OInv /\ IndexInv /\ HInv => HistoryOfRoots
  <2> SUFFICES ASSUME OInv, IndexInv, HInv PROVE HistoryOfRoots
    OBVIOUS
  <2> DEFINE entries == history \o pendingHistory
             n == Len(history)
  <2>1. /\ history \in Seq(Ids) /\ pendingHistory \in Seq(Ids) /\ n \in Nat
        /\ Len(pendingHistory) \in Nat
    BY DEF IndexInv, Entered
  <2>2. /\ DOMAIN entries = 1 .. Len(entries) /\ Joined(entries, history, n, pendingHistory)
        /\ n \in 0 .. Len(history)
    BY <2>1 DEF Joined
  <2> HIDE DEF entries
  <2>3. EntriesOf(entries, <<>>)
    <3>1. EntriesOf(history, pendingHistory)
      BY DEF HInv, Entries, EntriesOf
    <3> QED
      BY <2>1, <2>2, <3>1, EntriesTaken
  <2>4. ASSUME NEW e, Entry(e), NEW i \in Ids PROVE ~Contains(instances[i].children, e)
    <3>1. DOMAIN instances[i].children = 1 .. Len(instances[i].children)
      BY ListedDomain DEF OInv, Recorded, InstanceRecord
    <3> QED
      BY <2>4, <3>1 DEF Entry, Child, Contains
  <2>5. \A k \in DOMAIN entries :
          /\ instances[entries[k]].home = Root
          /\ instances[entries[k]].error # "failed"
          /\ \A i \in Ids : ~Contains(instances[i].children, entries[k])
    BY <2>2, <2>3, <2>4 DEF EntriesOf, Entry
  <2> QED
    BY <2>2, <2>3, <2>5 DEF HistoryOfRoots, EntriesOf, Once, entries
<1> QED
  BY <1>1, EntriesInvariance, PTL

-----------------------------------------------------------------------------
(* Nothing else runs while the index moves *)

\* No command runs or waits to enter the history, and only jobs are queued.
Calm ==
  /\ Depth = 1 /\ Len(pendingHistory) = 0
  /\ \A a \in 1 .. Len(Queue(1)) : instances[Queue(1)[a]].kind = "undoRedo"

\* undo and redo flush before they move the index.
Prompted == Calling("undo") \/ Calling("redo")
Flushing == 2 \in DOMAIN stack[Owner] /\ stack[Owner][2].at = "flush"
Alone == Len(stack[Owner]) = 1

Still == (Moving => Calm) /\ (Prompted => Flushing \/ (Alone /\ Calm))

\* When no command runs, a thread queues nothing.
LEMMA ThreadQueuesNothing ==
  ASSUME IInv, OInv, Calm, NEW t \in Threads, ThreadStep(t)
  PROVE  Ids' = Ids
<1>1. StackShape /\ OwnerActs /\ Recorded /\ Basics
  BY BasicsHold DEF IInv, Shape, OInv
<1>2. Owning(t) = {}
  <2>1. \A k \in Owning(t) : \E n \in 2 .. Len(commandFrames) : TRUE
    BY DEF IInv, Owned
  <2>2. 2 .. Len(commandFrames) = {}
    BY DEF Calm, Depth
  <2> QED
    BY <2>1, <2>2
<1>3. ~At(t, "exec")
  BY <1>2, ExecutingFrame
<1>4. Follows(instances', instances) => Ids' = Ids
  BY <1>1, TableKept
<1>5. CASE TakeCommand(t) \/ TakeUndoRedo(t)
  BY <1>1, <1>4, <1>5, TakeCommandKind, TakeUndoRedoKind DEF Taking, Starting, SameTables
<1>6. CASE PopFrame(t) \/ Rollback(t)
  BY <1>1, <1>4, <1>6, PopFrameKind, RollbackKind DEF Popping, Finishing, SameTables
<1>7. CASE LoopEnds(t) \/ SpinProcess(t) \/ WaitProcess(t) \/ WaitNext(t) \/ WaitStart(t) \/ Flush(t)
  BY <1>7 DEF LoopEnds, SpinProcess, WaitProcess, WaitNext, WaitStart, Flush, Ids
<1> QED
  BY <1>3, <1>5, <1>6, <1>7
  DEF ThreadStep, Executing, ExecWrite, ExecQueue, ExecBatch, ExecWait, Execute

\* What queues while it is calm is the start of a move.
LEMMA MovesOnly ==
  ASSUME IInv, OInv, Calm, [Next]_vars
  PROVE  \/ Ids' = Ids \/ UndoCall \/ RedoCall \/ stack[Owner] = <<>>
<1>1. StackShape /\ OwnerActs /\ Recorded /\ Basics /\ Owner \in Threads /\ Worker \in Threads
  BY BasicsHold DEF IInv, Shape, OInv, Threads
<1>2. CASE UNCHANGED vars
  BY <1>2 DEF vars, Ids
<1>3. CASE AppStep
  BY <1>3 DEF AppStep, AppQueue, AppBatch, AppWait, AppUndo, AppRedo, AppMove, AppRemove, AppFlush,
         AppUpdate, AppFini, MayMove, Idle
<1>4. CASE OwnerStep
  <2>1. CASE UndoRedoDone \/ UndoRedoFails
    BY <1>1, <2>1, UndoRedoKind, TableKept DEF Finishing, SameTables
  <2>2. CASE UndoEntry \/ RedoEntry \/ MoveDone \/ RemoveCall \/ UpdateDone \/ FiniExit \/ FiniJoin
    BY <2>2 DEF UndoEntry, RedoEntry, MoveDone, RemoveCall, UpdateDone, FiniExit, FiniJoin, CallVars, Ids
  <2> QED
    BY <1>1, <1>4, <2>1, <2>2, ThreadQueuesNothing DEF OwnerStep
<1>5. CASE WorkerStep
  <2>1. CASE WorkerTurn \/ WorkerWoken
    BY <2>1 DEF WorkerTurn, WorkerWoken, Ids
  <2> QED
    BY <1>1, <1>5, <2>1, ThreadQueuesNothing DEF WorkerStep
<1> QED
  BY <1>2, <1>3, <1>4, <1>5 DEF Next

\* Queueing a job keeps it calm ...
LEMMA CalmMove ==
  ASSUME IInv, OInv, [Next]_vars, Calm, NEW target, MoveCommandIndex(target)
  PROVE  Calm'
<1>1. /\ Basics /\ Kept /\ Depth \in Nat
  <2>1. IInv' /\ Basics
    BY StepPreserves, BasicsHold
  <2> QED
    BY <2>1, BasicsNext, EveryStepKind, KeptStep DEF OInv, Basics, FramesSized
<1>2. PICK k \in 1 .. Depth : Enqueued(k, "undoRedo", UndoRedoClass, target)
  BY MoveCommandIndexEffect
<1>3. /\ Depth' = 1 /\ Extended(Queue(1)', Queue(1), Count + 1)
      /\ instances'[Count + 1].kind = "undoRedo"
      /\ \A a \in 1 .. Len(Queue(1)) : Queue(1)[a] \in Ids
      /\ Len(Queue(1)) \in Nat
  <2>1. k = 1 /\ 1 \in 1 .. Depth
    BY <1>2 DEF Calm
  <2> QED
    BY <1>1, <1>2, <2>1 DEF Enqueued, MakeCommand, Calm, Basics, FramesSized, Sized
<1>4. \A a \in 1 .. Len(Queue(1)') : instances'[Queue(1)'[a]].kind = "undoRedo"
  <2> TAKE a \in 1 .. Len(Queue(1)')
  <2>1. CASE a \in 1 .. Len(Queue(1))
    BY <1>1, <1>3, <2>1 DEF Extended, Calm, Kept, SameKind
  <2>2. CASE a = Len(Queue(1)) + 1
    BY <1>3, <2>2 DEF Extended
  <2> QED
    BY <1>3, <2>1, <2>2 DEF Extended
<1>5. pendingHistory' = pendingHistory
  BY DEF MoveCommandIndex
<1> QED
  BY <1>3, <1>4, <1>5 DEF Calm

\* ... and so does everything else that may happen during a call.
LEMMA CalmStep ==
  ASSUME IInv, OInv, [Next]_vars, Calm, stack[Owner] # <<>>
  PROVE  Calm'
<1>1. /\ Basics /\ Basics' /\ Kept /\ StepKind
  <2>1. IInv' /\ Basics
    BY StepPreserves, BasicsHold
  <2> QED
    BY <2>1, BasicsNext, EveryStepKind, KeptStep DEF OInv
<1>2. /\ Depth = 1 /\ 1 \in 1 .. Depth /\ Len(Queue(1)) \in Nat /\ Len(pendingHistory) = 0
      /\ \A a \in 1 .. Len(Queue(1)) : /\ Queue(1)[a] \in Ids
                                       /\ instances[Queue(1)[a]].kind = "undoRedo"
                                       /\ instances'[Queue(1)[a]].kind = "undoRedo"
  BY <1>1 DEF Calm, Basics, FramesSized, Sized, Kept, SameKind
<1>3. UNCHANGED pendingHistory \/ TakePending => Len(pendingHistory') = 0
  BY <1>2 DEF TakePending
<1>4. CASE FramesKept /\ (UNCHANGED pendingHistory \/ TakePending)
  BY <1>2, <1>3, <1>4 DEF FramesKept, Calm
<1>5. CASE \E k, kind, class, target : Queueing(k, kind, class, target)
  <2>1. Ids' # Ids
    <3>1. Ids = 1 .. Count /\ Ids' = 1 .. Count + 1 /\ Count \in Nat
      BY <1>1, <1>5 DEF Queueing, Enqueued, Basics
    <3> QED
      BY <3>1
  <2>2. UndoCall \/ RedoCall
    BY <2>1, MovesOnly
  <2> QED
    BY <2>2, CalmMove DEF UndoCall, RedoCall
<1>6. ASSUME NEW L, NEW i, Dequeued(L, i)
      PROVE  L = 1 /\ instances[i].kind = "undoRedo" /\ Shifted(Queue(1)', Queue(1))
  <2>1. L = 1 /\ i = Queue(1)[1] /\ Shifted(Queue(1)', Queue(1)) /\ 1 \in 1 .. Len(Queue(1))
    BY <1>2, <1>6 DEF Dequeued
  <2> QED
    BY <1>2, <2>1
<1>7. ~\E L, i : Taking(L, i)
  BY <1>6 DEF Taking, Taken
<1>8. CASE \E t, k, L, i : Starting(t, k, L, i)
  <2>1. PICK t, k, L, i : Starting(t, k, L, i)
    BY <1>8
  <2>2. Dequeued(L, i) /\ Depth' = L /\ UNCHANGED pendingHistory
    BY <2>1 DEF Starting, SameHistory
  <2>3. /\ Depth' = 1 /\ Len(Queue(1)') = Len(Queue(1)) - 1
        /\ \A a \in 1 .. Len(Queue(1)) - 1 : Queue(1)'[a] = Queue(1)[a + 1]
    BY <1>6, <2>2 DEF Shifted
  <2>4. \A a \in 1 .. Len(Queue(1)) - 1 : a + 1 \in 1 .. Len(Queue(1))
    BY <1>2
  <2> QED
    BY <1>2, <1>3, <2>2, <2>3, <2>4 DEF Calm
<1>9. ~\E L, closes, done : Popping(L, closes, done)
  BY <1>2 DEF Popping, Popped
<1> QED
  BY <1>1, <1>4, <1>5, <1>7, <1>8, <1>9
  DEF StepKind, Neutral, Finishing, SameHistory, RemoveCall

\* A flush goes on while activations come and go above it.
LEMMA FlushStays ==
  ASSUME StackShape, NEW t \in Threads, InnerMove(t), Flushing,
         \/ t # Owner \/ Len(stack[t]) > 2
         \/ UNCHANGED stack \/ \E acts : Inner(acts) /\ Push(t, acts)
  PROVE  Flushing'
<1>1. Len(stack[t]) \in Nat /\ Inner(<<>>) /\ DOMAIN stack[t] = 1 .. Len(stack[t])
  BY OwningDomain, InnerActs
<1>2. ASSUME NEW n, NEW acts, Above(t, n, acts), t = Owner => n >= 2
      PROVE  Flushing'
  <2>1. CASE t = Owner
    <3>1. 2 \in DOMAIN stack'[Owner] /\ 2 \in 1 .. n /\ stack'[Owner][2] = stack[Owner][2]
      BY <1>2, <2>1 DEF Above
    <3> QED
      BY <3>1 DEF Flushing
  <2>2. CASE t # Owner
    <3>1. stack'[Owner] = stack[Owner]
      BY <1>2, <2>2 DEF Above, Threads
    <3> QED
      BY <3>1 DEF Flushing
  <2> QED
    BY <2>1, <2>2
<1>3. CASE UNCHANGED stack
  BY <1>3 DEF Flushing
<1>4. t = Owner => Len(stack[t]) >= 2
  BY <1>1 DEF Flushing
<1>5. ASSUME NEW acts, Inner(acts), Push(t, acts) PROVE Flushing'
  <2>1. Above(t, Len(stack[t]), acts)
    BY <1>5, PushAbove DEF Inner
  <2> QED
    BY <1>2, <1>4, <2>1
<1>6. ASSUME Running(t), Pop(t) \/ \E acts : Inner(acts) /\ ReplaceTop(t, acts),
             t # Owner \/ Len(stack[t]) > 2
      PROVE  Flushing'
  <2>1. PICK acts : Above(t, Len(stack[t]) - 1, acts)
    BY <1>1, <1>6, PopAbove, ReplaceAbove DEF Inner
  <2> QED
    BY <1>1, <1>2, <1>6, <2>1
<1> QED
  BY <1>3, <1>5, <1>6 DEF InnerMove

\* It returns when nothing is left to do.
LEMMA FlushReturns ==
  ASSUME IInv, OInv, Flushing, Len(stack[Owner]) = 2, ThreadStep(Owner)
  PROVE  Flushing' \/ (Alone' /\ Calm')
<1>1. StackShape /\ Owner \in Threads /\ Running(Owner) /\ InnerMove(Owner)
  BY ThreadInner DEF IInv, Shape, Threads, Flushing, Running
<1>2. At(Owner, "flush")
  BY <1>1 DEF Flushing, At, Top, Last
<1>3. Flush(Owner)
  BY <1>2 DEF At, ThreadStep, LoopEnds, TakeCommand, TakeUndoRedo, Executing, ExecWrite, ExecQueue,
         ExecBatch, ExecWait, Execute, SpinProcess, PopFrame, Rollback, WaitProcess, WaitNext, WaitStart
<1>4. CASE ~FlushDone
  <2>1. Push(Owner, <<Act("loop", Root)>>) /\ Inner(<<Act("loop", Root)>>)
    BY <1>3, <1>4, InnerActs, ActsInner DEF Flush, Calls
  <2> QED
    BY <1>1, <2>1, FlushStays
<1>5. CASE FlushDone
  <2>1. Above(Owner, 1, <<>>)
    <3>1. Pop(Owner)
      BY <1>3, <1>5 DEF Flush
    <3>2. Above(Owner, Len(stack[Owner]) - 1, <<>>)
      BY <1>1, <3>1, PopAbove
    <3>3. Len(stack[Owner]) - 1 = 1
      OBVIOUS
    <3> QED
      BY <3>2, <3>3
  <2>2. Len(stack'[Owner]) = 1
    BY <2>1 DEF Above
  <2>3. Depth = 1 /\ Queue(1) = <<>> /\ pendingHistory = <<>>
        /\ UNCHANGED <<commandFrames, instances, pendingHistory>>
    BY <1>3, <1>5 DEF Flush, FlushDone, Depth, Queue
  <2>4. Depth' = 1 /\ Queue(1)' = <<>> /\ pendingHistory' = <<>>
    BY <2>3 DEF Depth, Queue
  <2>5. Len(Queue(1)') = 0 /\ Len(pendingHistory') = 0
    BY <2>4
  <2> QED
    BY <2>2, <2>4, <2>5 DEF Alone, Calm
<1> QED
  BY <1>4, <1>5

\* The calls that wait do not see what others do ...
LEMMA StillAside ==
  ASSUME IInv, OInv, Still, [Next]_vars, stack'[Owner] = stack[Owner]
  PROVE  Still'
<1>1. \A c : Calling(c)' <=> Calling(c)
  BY DEF Calling
<1>2. (Flushing' <=> Flushing) /\ (Alone' <=> Alone)
  BY DEF Flushing, Alone
<1>3. (\E c : Calling(c)) => stack[Owner] # <<>>
  BY DEF Calling
<1>4. Calm /\ (\E c : Calling(c)) => Calm'
  BY <1>3, CalmStep
<1> QED
  BY <1>1, <1>2, <1>4 DEF Still, Moving, Prompted

\* ... and their own steps keep it calm.
LEMMA StillInside ==
  ASSUME IInv, OInv, Still, [Next]_vars, ThreadStep(Owner) \/ UndoRedoDone \/ UndoRedoFails
  PROVE  Still'
<1>1. StackShape /\ OwnerActs /\ Owner \in Threads /\ InnerMove(Owner)
  BY ThreadInner
  DEF IInv, Shape, OInv, Threads, UndoRedoDone, UndoRedoFails, InnerMove, Calls, Waiting, At
<1>2. SameCalls
  BY <1>1, InnerKeepsCalls
<1>3. /\ Moving' <=> Moving
      /\ Prompted' <=> Prompted
  BY <1>2 DEF SameCalls, Calls, Moving, Prompted
<1>4. PICK a : a \notin Calls /\ At(Owner, a) /\ (UndoRedoDone \/ UndoRedoFails => a = "undoRedo")
  BY DEF Calls, At, ThreadStep, LoopEnds, TakeCommand, TakeUndoRedo, Executing, ExecWrite,
         ExecQueue, ExecBatch, ExecWait, Execute, SpinProcess, PopFrame, Rollback, WaitProcess,
         WaitNext, WaitStart, Flush, UndoRedoDone, UndoRedoFails
<1>5. stack[Owner] # <<>>
  BY <1>4 DEF At, Running
<1>6. Moving => Calm'
  BY <1>5, CalmStep DEF Still
<1>7. Prompted => ~Alone
  BY <1>4 DEF Prompted, Alone, Calling, At, Top, Last, Calls
<1>8. ASSUME Flushing PROVE Flushing' \/ (Alone' /\ Calm')
  <2>1. Len(stack[Owner]) = 2 \/ Len(stack[Owner]) > 2
    <3>1. Len(stack[Owner]) \in Nat /\ 2 \in 1 .. Len(stack[Owner])
      BY <1>1, <1>8, OwningDomain DEF Flushing
    <3>2. \A m \in Nat : 2 \in 1 .. m => m = 2 \/ m > 2
      OBVIOUS
    <3> QED
      BY <3>1, <3>2
  <2>2. CASE Len(stack[Owner]) = 2
    <3>1. a = "flush"
      BY <1>4, <1>8, <2>2 DEF Flushing, At, Top, Last
    <3> QED
      BY <1>4, <1>8, <2>2, <3>1, FlushReturns
  <2>3. CASE Len(stack[Owner]) > 2
    BY <1>1, <1>8, <2>3, FlushStays
  <2> QED
    BY <2>1, <2>2, <2>3
<1> QED
  BY <1>3, <1>6, <1>7, <1>8 DEF Still

\* A call that begins is the first activation of the owner.
LEMMA FirstCall ==
  ASSUME NEW acts, Above(Owner, 0, acts), Len(acts) > 0
  PROVE  \A c : Calling(c)' <=> acts[1].at = c
<1>1. 0 + 1 = 1 /\ 1 \in 1 .. Len(acts) /\ DOMAIN stack'[Owner] = 1 .. Len(acts)
  BY DEF Above
<1>2. stack'[Owner][1] = acts[1]
  BY <1>1 DEF Above
<1> QED
  BY <1>1, <1>2 DEF Calling

\* undo and redo move the index when their flush has returned.
LEMMA StillMoves ==
  ASSUME IInv, OInv, Still, [Next]_vars, UndoCall \/ RedoCall \/ (AppMove /\ "moveAnyTime" \notin Ops)
  PROVE  Still'
<1>1. StackShape /\ OwnerActs /\ Owner \in Threads /\ DOMAIN stack[Owner] = 1 .. Len(stack[Owner])
  BY OwningDomain DEF IInv, Shape, OInv, Threads
<1>2. PICK target : /\ MoveCommandIndex(target)
                    /\ stack[Owner] = <<>> \/ At(Owner, "undo") \/ At(Owner, "redo")
  BY DEF UndoCall, RedoCall, AppMove, MayMove, Idle
<1>3. Calm
  <2>1. CASE UndoCall \/ RedoCall
    <3>1. Alone /\ Prompted
      BY <1>1, <2>1, TopCall DEF UndoCall, RedoCall, Calls, Alone, Prompted
    <3>2. ~Flushing
      BY <1>1, <3>1 DEF Alone, Flushing
    <3> QED
      BY <3>1, <3>2 DEF Still
  <2>2. CASE AppMove /\ "moveAnyTime" \notin Ops
    <3>1. Depth = 1 /\ Queue(1) = <<>> /\ pendingHistory = <<>>
      BY <2>2 DEF AppMove, FlushDone, Depth, Queue
    <3>2. Len(Queue(1)) = 0 /\ Len(pendingHistory) = 0
      BY <3>1
    <3> QED
      BY <3>1, <3>2 DEF Calm
  <2> QED
    BY <2>1, <2>2
<1>4. Calm'
  BY <1>2, <1>3, CalmMove
<1>5. Above(Owner, 0, <<Act("move", Root), Act("waitStart", Len(instances) + 1), Act("loop", Root)>>)
  BY <1>1, <1>2, MoveCommandIndexKind DEF OInv
<1>6. \A c : Calling(c)' <=> "move" = c
  <2> DEFINE acts == <<Act("move", Root), Act("waitStart", Len(instances) + 1), Act("loop", Root)>>
  <2>1. Len(acts) > 0 /\ acts[1] = Act("move", Root)
    OBVIOUS
  <2> HIDE DEF acts
  <2>2. acts[1].at = "move"
    BY <2>1, ActFields
  <2>3. Above(Owner, 0, acts)
    BY <1>5 DEF acts
  <2> QED
    BY <2>1, <2>2, <2>3, FirstCall
<1> QED
  BY <1>4, <1>6 DEF Still, Prompted

\* The other calls of the owner end or go on as calls that move nothing.
LEMMA CallsEnd ==
  ASSUME IInv, OInv, MoveDone \/ RemoveCall \/ UpdateDone \/ FiniJoin \/ FiniExit
  PROVE  ~Moving' /\ ~Prompted'
<1>1. StackShape /\ OwnerActs
  BY DEF IInv, Shape, OInv
<1>2. CASE MoveDone \/ RemoveCall \/ UpdateDone \/ FiniJoin
  <2>1. PICK c \in Calls : At(Owner, c) /\ Pop(Owner)
    BY <1>2 DEF MoveDone, RemoveCall, UpdateDone, FiniJoin, Calls
  <2>2. \A d : ~Calling(d)'
    BY <1>1, <2>1, TopCall
  <2> QED
    BY <2>2 DEF Moving, Prompted
<1>3. CASE FiniExit
  <2>1. At(Owner, "fini") /\ "fini" \in Calls /\ ReplaceTop(Owner, <<Act("join", Root)>>)
    BY <1>3 DEF FiniExit, Calls
  <2>2. Above(Owner, 0, <<Act("join", Root)>>)
    BY <1>1, <2>1, InnerActs, OuterCalls DEF At
  <2>3. Len(<<Act("join", Root)>>) > 0 /\ <<Act("join", Root)>>[1].at = "join"
    BY ActFields
  <2>4. \A c : Calling(c)' <=> "join" = c
    BY <2>2, <2>3, FirstCall
  <2> QED
    BY <2>4 DEF Moving, Prompted
<1> QED
  BY <1>2, <1>3

\* Only undo, redo and moveCommandIndex begin to move the index.
LEMMA OthersBegin ==
  ASSUME IInv, OInv, AppStep, ~AppMove, ~AppUndo, ~AppRedo
  PROVE  ~Moving' /\ ~Prompted'
<1>1. StackShape /\ OwnerActs /\ Owner \in Threads
  BY DEF IInv, Shape, OInv, Threads
<1>2. stack[Owner] = <<>>
  BY DEF AppStep, AppQueue, AppBatch, AppWait, AppUndo, AppRedo, AppMove, AppRemove, AppFlush,
         AppUpdate, AppFini, MayMove, Idle
<1>3. \A a, i : Act(a, i).at = a /\ \A x : [Act(a, i) EXCEPT !.before = x].at = a
  BY ActFields
<1>4. /\ \A a : Outer(<<a>>) /\ Len(<<a>>) = 1 /\ <<a>>[1] = a
      /\ \A a, b : InnerAct(b) => Outer(<<a, b>>)
      /\ \A a, b : Len(<<a, b>>) = 2 /\ <<a, b>>[1] = a /\ <<a, b>>[2] = b
  BY InnerActs, TuplesListed
<1>5. InnerAct(Act("loop", Root)) /\ InnerAct(Act("flush", Root))
  BY ActsInner DEF Calls
<1>6. ASSUME NEW acts, Outer(acts), Len(acts) > 0, Push(Owner, acts)
      PROVE  Above(Owner, 0, acts) /\ \A c : Calling(c)' <=> acts[1].at = c
  BY <1>1, <1>2, <1>6, OuterCalls, FirstCall
<1>7. ASSUME NEW acts, Outer(acts), Len(acts) > 0, Push(Owner, acts),
             acts[1].at \notin {"move", "undo", "redo"}
      PROVE  ~Moving' /\ ~Prompted'
  BY <1>6, <1>7 DEF Moving, Prompted
<1>8. CASE AppQueue \/ AppBatch
  <2>1. PICK kind, class : QueueCommand(Owner, kind, class, NoSelection, <<>>)
    BY <1>8 DEF AppQueue, AppBatch
  <2>2. <<>> \o <<Act("loop", Root)>> = <<Act("loop", Root)>>
    OBVIOUS
  <2>3. Push(Owner, <<Act("loop", Root)>>)
    BY <2>1, <2>2 DEF QueueCommand
  <2>4. /\ Outer(<<Act("loop", Root)>>) /\ Len(<<Act("loop", Root)>>) > 0
        /\ <<Act("loop", Root)>>[1].at = "loop"
    BY <1>3, <1>4
  <2> QED
    BY <1>7, <2>3, <2>4
<1>9. CASE AppFini
  <2>1. QueueCommand(Owner, "abort", BatchClass, NoSelection, <<Act("fini", Root)>>)
    BY <1>9 DEF AppFini
  <2> DEFINE acts == <<Act("fini", Root)>> \o <<Act("loop", Root)>>
  <2>2. Listed(acts) /\ Len(acts) = 2 /\ acts[1] = Act("fini", Root) /\ acts[2] = Act("loop", Root)
    <3>1. /\ Listed(<<Act("fini", Root)>>) /\ Len(<<Act("fini", Root)>>) = 1
          /\ Listed(<<Act("loop", Root)>>) /\ Len(<<Act("loop", Root)>>) = 1
      BY TuplesListed
    <3>2. /\ Listed(acts) /\ Len(acts) = 2
          /\ \A k \in 1 .. 1 : acts[k] = <<Act("fini", Root)>>[k]
          /\ \A k \in 2 .. 2 : acts[k] = <<Act("loop", Root)>>[k - 1]
      BY <3>1, ListedConcat
    <3> HIDE DEF acts
    <3> QED
      BY <3>2
  <2>3. Push(Owner, acts)
    BY <2>1 DEF QueueCommand
  <2> HIDE DEF acts
  <2>4. Outer(acts) /\ Len(acts) > 0 /\ acts[1].at = "fini"
    BY <1>3, <1>5, <2>2 DEF Outer
  <2> QED
    BY <1>7, <2>3, <2>4
<1>10. CASE AppWait \/ AppFlush
  <2>1. PICK a : Push(Owner, <<a>>) /\ a.at \in {"wait", "flush"}
    <3>1. CASE AppWait
      <4>1. PICK i : Push(Owner, <<WaitAct(Owner, i)>>)
        BY <3>1 DEF AppWait
      <4>2. WaitAct(Owner, i).at = "wait"
        BY <1>3 DEF WaitAct
      <4> QED
        BY <4>1, <4>2
    <3>2. CASE AppFlush
      BY <1>3, <3>2 DEF AppFlush
    <3> QED
      BY <1>10, <3>1, <3>2
  <2>2. Outer(<<a>>) /\ Len(<<a>>) > 0 /\ <<a>>[1] = a
    BY <1>4
  <2> QED
    BY <1>7, <2>1, <2>2
<1>11. CASE AppRemove \/ AppUpdate
  <2>1. PICK a, b : Push(Owner, <<a, b>>) /\ a.at \in {"remove", "update"} /\ InnerAct(b)
    BY <1>3, <1>5, <1>11 DEF AppRemove, AppUpdate
  <2>2. Outer(<<a, b>>) /\ Len(<<a, b>>) > 0 /\ <<a, b>>[1] = a
    BY <1>4, <2>1
  <2> QED
    BY <1>7, <2>1, <2>2
<1> QED
  BY <1>8, <1>9, <1>10, <1>11 DEF AppStep

\* What undo and redo begin is still: they flush first.
LEMMA StillBegins ==
  ASSUME IInv, OInv, AppUndo \/ AppRedo
  PROVE  Still'
<1>1. StackShape /\ OwnerActs /\ Owner \in Threads
  BY DEF IInv, Shape, OInv, Threads
<1>2. stack[Owner] = <<>>
  BY DEF AppUndo, AppRedo, MayMove, Idle
<1>3. \A a, i : Act(a, i).at = a /\ \A x : [Act(a, i) EXCEPT !.before = x].at = a
  BY ActFields
<1>4. /\ \A a : Outer(<<a>>) /\ Len(<<a>>) = 1 /\ <<a>>[1] = a
      /\ \A a, b : InnerAct(b) => Outer(<<a, b>>)
      /\ \A a, b : Len(<<a, b>>) = 2 /\ <<a, b>>[1] = a /\ <<a, b>>[2] = b
  BY InnerActs, TuplesListed
<1>5. InnerAct(Act("loop", Root)) /\ InnerAct(Act("flush", Root))
  BY ActsInner DEF Calls
<1>6. ASSUME NEW acts, Outer(acts), Len(acts) > 0, Push(Owner, acts)
      PROVE  Above(Owner, 0, acts) /\ \A c : Calling(c)' <=> acts[1].at = c
  BY <1>1, <1>2, <1>6, OuterCalls, FirstCall
<1> QED
  <2>1. PICK c \in {"undo", "redo"} : Push(Owner, <<Act(c, Root), Act("flush", Root)>>)
    BY DEF AppUndo, AppRedo
  <2> DEFINE acts == <<Act(c, Root), Act("flush", Root)>>
  <2>2. Outer(acts) /\ Len(acts) = 2 /\ acts[1].at = c /\ acts[2].at = "flush"
    BY <1>3, <1>4, <1>5
  <2>3. Push(Owner, acts)
    BY <2>1
  <2> HIDE DEF acts
  <2>4. Above(Owner, 0, acts) /\ \A d : Calling(d)' <=> acts[1].at = d
    BY <1>6, <2>2, <2>3
  <2>5. 2 \in DOMAIN stack'[Owner] /\ stack'[Owner][2] = acts[2]
    <3>1. 0 + 2 = 2 /\ 2 \in 1 .. 2
      OBVIOUS
    <3> QED
      BY <2>2, <2>4, <3>1 DEF Above
  <2> QED
    BY <2>2, <2>4, <2>5 DEF Still, Moving, Prompted, Flushing

\* Nothing else runs while the index moves, for an application that moves it only after
\* a flush.
LEMMA StepStill ==
  ASSUME "moveAnyTime" \notin Ops, IInv, OInv, Still, [Next]_vars
  PROVE  Still'
<1>1. CASE UNCHANGED vars
  BY <1>1, StillAside DEF vars
<1>2. CASE WorkerStep
  <2>1. StackShape /\ Worker \in Threads /\ Worker # Owner
    BY ConstantsAssumption DEF IInv, Shape, Threads
  <2>2. stack'[Owner] = stack[Owner]
    <3>1. stack = [t \in Threads |-> stack[t]] /\ Owner \in Threads
      BY <2>1 DEF StackShape, Threads
    <3>2. InnerMove(Worker) \/ UNCHANGED stack \/ Push(Worker, <<Act("loop", Root)>>)
      BY <1>2, <2>1, ThreadInner DEF WorkerStep, WorkerTurn, WorkerWoken
    <3> QED
      BY <2>1, <3>1, <3>2 DEF InnerMove, Push, Pop, ReplaceTop
  <2> QED
    BY <2>2, StillAside
<1>3. CASE UndoEntry \/ RedoEntry
  BY <1>3, StillAside DEF UndoEntry, RedoEntry
<1>4. CASE AppMove
  BY <1>4, StillMoves
<1>5. CASE AppStep
  BY <1>4, <1>5, StillBegins, OthersBegin DEF Still
<1>6. CASE MoveDone \/ RemoveCall \/ UpdateDone \/ FiniJoin \/ FiniExit
  BY <1>6, CallsEnd DEF Still
<1> QED
  BY <1>1, <1>2, <1>3, <1>5, <1>6, StillInside, StillMoves DEF Next, OwnerStep

LEMMA PrefixKept ==
  ASSUME NEW S, NEW s \in Seq(S), NEW new \in Seq(S), NEW n \in 0 .. Len(s), n <= Len(new),
         \A k \in 1 .. n : new[k] = s[k]
  PROVE  IsPrefix(SubSeq(s, 1, n), new)
<1>1. n \in Nat /\ Len(SubSeq(s, 1, n)) = n /\ SubSeq(s, 1, n) = [k \in 1 .. n |-> s[k]]
  OBVIOUS
<1>2. SubSeq(new, 1, n) = [k \in 1 .. n |-> s[k]]
  OBVIOUS
<1>3. SubSeq(SubSeq(s, 1, n), 1, n) = SubSeq(s, 1, n)
  <2>1. SubSeq(s, 1, n) \in Seq(S)
    OBVIOUS
  <2> QED
    BY <1>1, <2>1
<1> QED
  BY <1>1, <1>2, <1>3 DEF IsPrefix

\* The indices and the stillness around them hold together.
LEMMA StillInvariance ==
  ASSUME "moveAnyTime" \notin Ops
  PROVE  Spec => [](IInv /\ OInv /\ IndexInv /\ Still)
<1>1. Init => Still
  BY DEF Init, Still, Moving, Prompted, Calling, Threads
<1>2. Still /\ [Next]_vars /\ (IInv /\ OInv /\ IndexInv) => Still'
  BY StepStill
<1> QED
  BY <1>1, <1>2, IndexInvariance, PTL DEF Spec

\* An entry whose effect is in the document stays in the history, whatever finishes while
\* the index moves: see AppliedEntriesStay. It holds for callers of moveCommandIndex that
\* have flushed; one that has not can lose such an entry.
THEOREM AppliedEntriesStayHolds ==
  ASSUME "moveAnyTime" \notin Ops
  PROVE  Spec => AppliedEntriesStay
<1> DEFINE Stays == ~At(Owner, "remove") =>
                      IsPrefix(SubSeq(history, 1, previousSelectedIndex + 1), history')
<1>1. (IInv /\ OInv /\ IndexInv /\ Still) /\ [Next]_vars => Stays
  <2> SUFFICES ASSUME IInv, OInv, IndexInv, Still, [Next]_vars, ~At(Owner, "remove")
               PROVE  IsPrefix(SubSeq(history, 1, previousSelectedIndex + 1), history')
    OBVIOUS
  <2>1. /\ history \in Seq(Ids) /\ pendingHistory \in Seq(Ids) /\ Len(history) \in Nat
        /\ currentIndex \in Int /\ currentIndex >= NoSelection
        /\ previousSelectedIndex + 1 \in 0 .. Len(history)
    BY DEF IndexInv, Selected, Entered, NoSelection
  <2>2. CASE history' = history
    <3>1. previousSelectedIndex + 1 <= Len(history)
      BY <2>1
    <3> QED
      BY <2>1, <2>2, <3>1, PrefixKept
  <2>3. CASE Entering
    <3>1. ~Moving
      <4>1. Calm => pendingHistory = <<>>
        BY <2>1 DEF Calm
      <4> QED
        BY <2>3, <4>1 DEF Entering, Still
    <3>2. currentIndex = previousSelectedIndex
      BY <3>1 DEF IndexInv, Selected
    <3>3. PICK n \in 0 .. Len(history) :
            /\ n = currentIndex + 1 \/ (n = Len(history) /\ n <= currentIndex + 1)
            /\ history' \in Seq(Ids) /\ Len(history') = n + Len(pendingHistory)
            /\ \A k \in 1 .. n : history'[k] = history[k]
      BY <2>1, <2>3, TakePendingLeaves DEF Entering
    <3>4. n = previousSelectedIndex + 1 /\ n <= Len(history')
      BY <2>1, <3>2, <3>3
    <3> QED
      BY <2>1, <3>3, <3>4, PrefixKept
  <2>4. history' = history \/ Entering
    <3>1. CallKind
      BY EveryCallKind
    <3> QED
      BY <3>1 DEF CallKind, Inside, Outside, MoveReturns, MoveDone, Removes, RemoveCall, Moves,
                  MoveCommandIndex, UndoEntry, RedoEntry, historyVars
  <2> QED
    BY <2>2, <2>3, <2>4
<1>2. AppliedEntriesStay <=> [][Stays]_vars
  BY PTL DEF AppliedEntriesStay
<1> QED
  BY <1>1, <1>2, StillInvariance, PTL DEF Spec

-----------------------------------------------------------------------------
(* What the tables of instances hold of documents *)

SameValues(r, s) == r.own = s.own /\ r.data = s.data /\ r.wrote = s.wrote

\* The fields of an instance that say nothing of documents.
LEMMA OtherFields ==
  ASSUME NEW table, NEW i, NEW x
  PROVE  \A j \in DOMAIN table :
           /\ SameValues(SetStatus(table, i, x)[j], table[j])
           /\ SameValues(SetError(table, i, x)[j], table[j])
           /\ SameValues(SetChildren(table, i, x)[j], table[j])
           /\ SetWrote(table, i, x)[j].own = table[j].own
           /\ SetWrote(table, i, x)[j].data = table[j].data
           /\ SetData(table, i, x)[j].own = table[j].own
           /\ SetData(table, i, x)[j].wrote = table[j].wrote
           /\ j # i => SetData(table, i, x)[j] = table[j]
BY DEF SetStatus, SetError, SetChildren, SetWrote, SetData, SameValues

LEMMA DataField ==
  ASSUME NEW table, Table(table), NEW i, NEW x
  PROVE  \A j \in Ids : SetData(table, i, x)[j].data = IF j = i THEN x ELSE table[j].data
<1> SUFFICES ASSUME NEW j \in Ids
             PROVE  SetData(table, i, x)[j].data = IF j = i THEN x ELSE table[j].data
  OBVIOUS
<1>1. j \in DOMAIN table /\ InstanceRecord(table[j])
  BY DEF Table, SameIds, Ids
<1>2. [table[j] EXCEPT !.data = x].data = x
  BY <1>1 DEF InstanceRecord
<1> QED
  BY <1>1, <1>2 DEF SetData

\* Adding a child and compressing children say nothing of documents either.
LEMMA ChildrenValues ==
  ASSUME NEW table, Table(table), NEW i, NEW parent
  PROVE  \A j \in Ids : /\ SameValues(AddChild(table, parent, i)[j], table[j])
                        /\ SameValues(ConsolidateChildren(table, i)[j], table[j])
<1>1. Ids = DOMAIN table
  BY DEF Table, SameIds, Ids
<1>2. \A j \in Ids : SameValues(table[j], table[j])
  BY DEF SameValues
<1>3. \A x : \A j \in Ids : SameValues(SetChildren(table, i, x)[j], table[j])
  BY <1>1, OtherFields
<1>4. \A x : \A j \in Ids : SameValues(SetChildren(table, parent, x)[j], table[j])
  BY <1>1, OtherFields
<1>5. \/ AddChild(table, parent, i) = table
      \/ \E x : AddChild(table, parent, i) = SetChildren(table, parent, x)
  BY DEF AddChild, SetChildren
<1>6. \E x : ConsolidateChildren(table, i) = SetChildren(table, i, x)
  BY DEF ConsolidateChildren, SetChildren
<1> QED
  BY <1>2, <1>3, <1>4, <1>5, <1>6

\* Undo data go to the parent, if there is one.
Handed(new, table, i, parent) ==
  \A j \in Ids :
    /\ new[j].own = table[j].own /\ new[j].wrote = table[j].wrote
    /\ new[j].data = IF j = i THEN <<>>
                     ELSE IF j = parent THEN Consolidate(table[j].data, table[i].data)
                     ELSE table[j].data

LEMMA HandToParentValues ==
  ASSUME NEW table, Table(table), NEW i, NEW parent
  PROVE  LET new == HandToParent(table, i, parent)
         IN IF ~table[i].class.canUndo \/ parent = Root
              THEN \A j \in Ids : SameValues(new[j], table[j])
              ELSE Handed(new, table, i, parent)
<1> DEFINE joined == Consolidate(table[parent].data, table[i].data)
           handed == SetData(table, parent, joined)
           moved == SetData(handed, i, <<>>)
           new == HandToParent(table, i, parent)
<1>1. moved = [table EXCEPT ![parent].data = Consolidate(@, table[i].data), ![i].data = <<>>]
  BY DEF SetData
<1>2. IF ~table[i].class.canUndo \/ parent = Root
        THEN new = table \/ new = ConsolidateChildren(table, i)
        ELSE new = moved \/ new = ConsolidateChildren(moved, parent)
  <2> HIDE DEF moved
  <2> QED
    BY <1>1 DEF HandToParent
<1> HIDE DEF new, joined
<1>3. CASE ~table[i].class.canUndo \/ parent = Root
  <2>1. \A j \in Ids : SameValues(table[j], table[j]) /\ SameValues(ConsolidateChildren(table, i)[j], table[j])
    BY ChildrenValues DEF SameValues
  <2> QED
    BY <1>2, <1>3, <2>1 DEF new
<1>4. CASE ~(~table[i].class.canUndo \/ parent = Root)
  <2>1. Table(handed)
    BY DataUpdate DEF Follows
  <2>2. \A j \in Ids : /\ handed[j].own = table[j].own /\ handed[j].wrote = table[j].wrote
                       /\ handed[j].data = IF j = parent THEN joined ELSE table[j].data
    BY OtherFields, DataField DEF Table, SameIds, Ids
  <2> HIDE DEF handed
  <2>3. Table(moved)
    BY <2>1, DataUpdate DEF Follows
  <2>4. \A j \in Ids : /\ moved[j].own = handed[j].own /\ moved[j].wrote = handed[j].wrote
                       /\ moved[j].data = IF j = i THEN <<>> ELSE handed[j].data
    BY <2>1, OtherFields, DataField DEF Table, SameIds, Ids
  <2> HIDE DEF moved
  <2>5. Handed(moved, table, i, parent)
    BY <2>2, <2>4 DEF Handed, joined
  <2>6. \A j \in Ids : SameValues(ConsolidateChildren(moved, parent)[j], moved[j])
    BY <2>3, ChildrenValues
  <2>7. Handed(new, table, i, parent)
    BY <1>2, <1>4, <2>5, <2>6 DEF Handed, SameValues
  <2> QED
    BY <1>4, <2>7 DEF new
<1> QED
  BY <1>3, <1>4

\* setValue records in the lists of those who listen.
LEMMA WritePropsValues ==
  ASSUME Recorded, NEW t, NEW written, NEW doc, NEW new
  PROVE  LET table == WriteProps(t, instances, written, doc, new)
         IN \A j \in Ids : /\ table[j].data = instances[j].data
                           /\ table[j].wrote = instances[j].wrote
                           /\ table[j].own = IF j \in Listening(t)
                                               THEN RecordWrites(instances[j].own, written, doc, new)
                                               ELSE instances[j].own
<1> DEFINE table == WriteProps(t, instances, written, doc, new)
           r(j) == RecordWrites(instances[j].own, written, doc, new)
<1> SUFFICES ASSUME NEW j \in Ids
             PROVE  /\ table[j].data = instances[j].data
                    /\ table[j].wrote = instances[j].wrote
                    /\ table[j].own = IF j \in Listening(t) THEN r(j) ELSE instances[j].own
  OBVIOUS
<1>1. table[j] = IF j \in Listening(t) THEN [instances[j] EXCEPT !.own = r(j)] ELSE instances[j]
  BY DEF WriteProps, Ids
<1>2. InstanceRecord(instances[j])
  BY DEF Recorded
<1> HIDE DEF r, table
<1>3. LET s == [instances[j] EXCEPT !.own = r(j)]
      IN s.data = instances[j].data /\ s.wrote = instances[j].wrote /\ s.own = r(j)
  BY <1>2 DEF InstanceRecord
<1> QED
  BY <1>1, <1>3

\* The instances that are queued.
Known(kind, class) ==
  \/ kind = "set" /\ class \in Classes
  \/ kind \in {"begin", "end"} /\ class = BatchClass
  \/ kind = "abort" /\ class = BatchClass /\ ("abort" \in Ops \/ "fini" \in Ops)
  \/ kind = "undoRedo" /\ class = UndoRedoClass

\* What a step that is none of these leaves alone.
SameDocuments ==
  /\ UNCHANGED document /\ Ids \subseteq Ids'
  /\ \A j \in Ids : /\ SameValues(instances'[j], instances[j])
                    /\ instances'[j].error = instances[j].error
  /\ \A j \in Ids' \ Ids : \E kind, class, target, home :
       /\ Known(kind, class)
       /\ instances'[j] = MakeCommand(kind, class, target, home)
Documenting ==
  \/ \E t \in Threads : ExecWrite(t) \/ Execute(t) \/ PopFrame(t) \/ Rollback(t)
  \/ UndoEntry \/ RedoEntry \/ UndoRedoFails

\* A command that may queue commands on its frame.
Compound(i) == i \in Ids /\ instances[i].kind = "set" /\ instances[i].class.queues

\* No activation has pushed a frame, or come to spin.
NoNewOwner ==
  \A t \in Threads : \A k, i : \A at \in {"exec", "spin"} :
    Does(t, k, at, i)' => Does(t, k, at, i)

\* What the other steps leave alone.
Aside ==
  /\ SameDocuments /\ Depth' = Depth /\ NoNewOwner
  /\ \A j \in Ids : instances'[j].children = instances[j].children
  /\ \A j \in Ids' \ Ids : instances'[j].home = Root \/ Compound(instances'[j].home)

LEMMA AboveQuiet ==
  ASSUME NEW t \in Threads, NEW n, NEW acts, Above(t, n, acts), Quiet(acts)
  PROVE  NoNewOwner
<1> SUFFICES ASSUME NEW u \in Threads, NEW k, NEW i, NEW at \in {"exec", "spin"}, Does(u, k, at, i)'
             PROVE  Does(u, k, at, i)
  BY DEF NoNewOwner
<1>1. CASE u # t
  BY <1>1 DEF Above, Does
<1>2. CASE u = t
  <2>1. /\ k \in 1 .. n + Len(acts) /\ n \in Nat /\ n <= Len(stack[t]) /\ Len(acts) \in Nat
        /\ DOMAIN stack[t] = 1 .. Len(stack[t]) /\ Len(stack[t]) \in Nat
    BY <1>2 DEF Above, Does
  <2>2. CASE k <= n
    <3>1. k \in 1 .. n /\ k \in DOMAIN stack[t]
      BY <2>1, <2>2
    <3> QED
      BY <1>2, <3>1 DEF Above, Does
  <2>3. CASE ~(k <= n)
    <3>1. k - n \in 1 .. Len(acts) /\ n + (k - n) = k
      BY <2>1, <2>3
    <3>2. stack'[t][k] = acts[k - n]
      BY <3>1 DEF Above
    <3>3. k - n \in DOMAIN acts
      BY <3>1 DEF Quiet, Listed
    <3> QED
      BY <1>2, <3>2, <3>3 DEF Quiet, Does
  <2> QED
    BY <2>2, <2>3
<1> QED
  BY <1>1, <1>2

LEMMA QuietMoves ==
  ASSUME StackShape, NEW t \in Threads, NEW acts, Quiet(acts)
  PROVE  /\ Push(t, acts) => NoNewOwner
         /\ Running(t) /\ ReplaceTop(t, acts) => NoNewOwner
         /\ Running(t) /\ Pop(t) => NoNewOwner
<1>1. Listed(acts) /\ Quiet(<<>>)
  BY QuietActs DEF Quiet
<1>2. Push(t, acts) => NoNewOwner
  BY <1>1, PushAbove, AboveQuiet
<1>3. Running(t) /\ ReplaceTop(t, acts) => NoNewOwner
  BY <1>1, ReplaceAbove, AboveQuiet
<1>4. Running(t) /\ Pop(t) => NoNewOwner
  BY <1>1, PopAbove, AboveQuiet
<1> QED
  BY <1>2, <1>3, <1>4

LEMMA SameTableAside ==
  ASSUME UNCHANGED <<document, instances, commandFrames>>, NoNewOwner
  PROVE  Aside
BY DEF Aside, SameDocuments, SameValues, Ids, Depth

LEMMA EnqueuedAside ==
  ASSUME Basics, Basics', UNCHANGED document, NEW k, NEW kind, NEW class, NEW target,
         Enqueued(k, kind, class, target), Known(kind, class), NoNewOwner,
         Inst(k) = Root \/ Compound(Inst(k))
  PROVE  Aside
<1>1. Ids = 1 .. Count /\ Count \in Nat /\ Ids' = 1 .. Count' /\ Count' = Count + 1
  BY DEF Basics, Enqueued
<1>2. /\ \A j \in 1 .. Count : instances'[j] = instances[j]
      /\ instances'[Count + 1] = MakeCommand(kind, class, target, Inst(k))
      /\ Depth' = Depth
  BY DEF Enqueued
<1>3. \A j \in Ids' \ Ids : j = Count + 1
  BY <1>1
<1>4. instances'[Count + 1].home = Inst(k)
  BY <1>2 DEF MakeCommand
<1>5. SameDocuments
  BY <1>1, <1>2, <1>3 DEF SameDocuments, SameValues
<1> QED
  BY <1>1, <1>2, <1>3, <1>4, <1>5 DEF Aside

LEMMA TakeCommandDocuments ==
  ASSUME IInv, Recorded, NEW t \in Threads, TakeCommand(t)
  PROVE  SameDocuments
<1> DEFINE i == BackFrame.commandQueue[1]
           parent == Last(BackFrame.commandStack)
           started == SetStatus(instances, i, "Running")
<1>1. instances' = AddChild(started, parent, i) /\ UNCHANGED document
  BY DEF TakeCommand, SetStatus
<1>2. Table(instances) /\ Ids = DOMAIN instances
  BY InstancesTable DEF Ids
<1> HIDE DEF i, parent
<1>3. Table(started) /\ \A j \in Ids : SameValues(started[j], instances[j])
  BY <1>2, StatusUpdate, OtherFields DEF Follows
<1> HIDE DEF started
<1>4. \A j \in Ids : SameValues(instances'[j], started[j])
  BY <1>1, <1>3, ChildrenValues
<1>5. Follows(instances', started)
  BY <1>1, <1>3, AddChildFollows
<1>6. Ids' = Ids
  BY <1>5 DEF Follows, Table, SameIds, Ids
<1>7. \A j \in Ids : instances'[j].error = instances[j].error
  BY <1>1, <1>2, <1>3, StatusUpdate, AddChildFollows DEF started
<1> QED
  BY <1>1, <1>3, <1>4, <1>6, <1>7 DEF SameDocuments, SameValues

LEMMA StatusAside ==
  ASSUME IInv, Recorded, NEW i, instances' = SetStatus(instances, i, "Complete") \/
                                instances' = SetStatus(instances, i, "Running"),
         UNCHANGED document, Depth' = Depth, NoNewOwner
  PROVE  Aside
<1>1. Table(instances) /\ Ids = DOMAIN instances
  BY InstancesTable DEF Ids
<1>2. \A j \in Ids : SameValues(instances'[j], instances[j])
  BY <1>1, OtherFields
<1>3. Ids' = Ids
  BY DEF SetStatus, Ids
<1>4. \A j \in Ids : /\ instances'[j].error = instances[j].error
                     /\ instances'[j].children = instances[j].children
  BY <1>1, StatusUpdate
<1>5. SameDocuments
  BY <1>2, <1>3, <1>4 DEF SameDocuments
<1> QED
  BY <1>3, <1>4, <1>5 DEF Aside

\* A thread that executes a command that queues others queues them on its frame.
LEMMA QueuesOnFrame ==
  ASSUME IInv, Basics, NEW t \in Threads, Executing(t), instances[Top(t).inst].class.queues
  PROVE  currentFrame[t] = Top(t).inst /\ Compound(Top(t).inst) /\ Owning(t) # {}
<1>1. /\ At(t, "exec") /\ instances[Top(t).inst].kind = "set"
      /\ currentFrame[t] = Top(t).inst /\ Len(stack[t]) \in Owning(t)
      /\ Top(t) = stack[t][Len(stack[t])]
  BY ExecutingFrame DEF Executing
<1>2. PICK n \in 2 .. Len(commandFrames) : commandFrames[n].instance = stack[t][Len(stack[t])].inst
  BY <1>1 DEF IInv, Owned
<1>3. Top(t).inst \in Ids
  BY <1>1, <1>2 DEF Basics, Inst, Depth
<1> QED
  BY <1>1, <1>3 DEF Compound

\* What a thread does is of one of these kinds ...
LEMMA ThreadAside ==
  ASSUME IInv, IInv', OInv, NEW t \in Threads, ThreadStep(t)
  PROVE  Aside \/ TakeCommand(t) \/ ExecWrite(t) \/ Execute(t) \/ PopFrame(t) \/ Rollback(t)
<1>1. Recorded /\ Basics /\ Basics' /\ StackShape
  BY BasicsHold, BasicsNext DEF OInv, IInv, Shape
<1>2. CASE TakeUndoRedo(t)
  <2>1. \E i : instances' = SetStatus(instances, i, "Running") /\ UNCHANGED document
    BY <1>2 DEF TakeUndoRedo, SetStatus
  <2>2. PICK L, i \in Nat :
          Dequeued(L, i) /\ Depth' = L /\ Push(t, <<Act("undoRedo", i), Act("flush", Root)>>)
    BY <1>1, <1>2, TakeUndoRedoEffect
  <2>3. Depth' = Depth
    BY <2>2 DEF Dequeued
  <2>4. NoNewOwner
    BY <1>1, <2>2, ActsQuiet, QuietMoves
  <2> QED
    BY <1>1, <2>1, <2>3, <2>4, StatusAside
<1>3. CASE ExecQueue(t) \/ ExecBatch(t)
  <2>1. Executing(t) /\ instances[Top(t).inst].class.queues /\ UNCHANGED document
    BY <1>3 DEF ExecQueue, ExecBatch
  <2>2. currentFrame[t] = Top(t).inst /\ Compound(Top(t).inst) /\ Owning(t) # {}
    BY <1>1, <2>1, QueuesOnFrame
  <2>3. PICK kind, class : Known(kind, class) /\ QueueCommand(t, kind, class, NoSelection, <<>>)
    BY <1>3 DEF ExecQueue, ExecBatch, Known, Closers
  <2>4. PICK k \in 1 .. Depth :
          Inst(k) = currentFrame[t] /\ Enqueued(k, kind, class, NoSelection)
    BY <2>2, <2>3, QueueCommandEffect
  <2>5. Push(t, <<>> \o <<Act("loop", Root)>>)
    BY <2>3 DEF QueueCommand
  <2>6. NoNewOwner
    BY <1>1, <2>5, QuietActs, ActsQuiet, QuietConcat, QuietMoves
  <2> QED
    BY <1>1, <2>1, <2>2, <2>3, <2>4, <2>6, EnqueuedAside
<1>4. CASE LoopEnds(t)
  <2>1. UNCHANGED <<document, instances, commandFrames>> /\ Running(t) /\ Pop(t)
    BY <1>4 DEF LoopEnds, At
  <2> QED
    BY <1>1, <2>1, QuietActs, QuietMoves, SameTableAside
<1>5. CASE ExecWait(t) \/ SpinProcess(t) \/ WaitProcess(t) \/ WaitNext(t) \/ WaitStart(t) \/ Flush(t)
  <2>1. UNCHANGED <<document, instances, commandFrames>> /\ Running(t)
    BY <1>5 DEF ExecWait, SpinProcess, WaitProcess, WaitNext, WaitStart, Flush, Executing, At
  <2>2. \E acts : Quiet(acts) /\ (Push(t, acts) \/ ReplaceTop(t, acts) \/ Pop(t))
    <3>1. CASE ExecWait(t)
      <4>1. PICK c : Push(t, <<WaitAct(t, c)>>)
        BY <3>1 DEF ExecWait
      <4> QED
        BY <4>1, ActsQuiet DEF WaitAct
    <3>2. CASE SpinProcess(t) \/ WaitProcess(t) \/ Flush(t)
      <4>1. Push(t, <<Act("loop", Root)>>) \/ Pop(t)
        BY <3>2 DEF SpinProcess, WaitProcess, Flush
      <4> QED
        BY <4>1, ActsQuiet
    <3>3. CASE WaitNext(t)
      <4>1. Pop(t) \/ \E i, x : ReplaceTop(t, <<[Act("wait", i) EXCEPT !.before = x]>>)
        BY <3>3 DEF WaitNext
      <4> QED
        BY <4>1, ActsQuiet, QuietActs
    <3>4. CASE WaitStart(t)
      <4>1. ReplaceTop(t, <<WaitAct(t, Top(t).inst)>>)
        BY <3>4 DEF WaitStart
      <4> QED
        BY <4>1, ActsQuiet DEF WaitAct
    <3> QED
      BY <1>5, <3>1, <3>2, <3>3, <3>4
  <2> QED
    BY <1>1, <2>1, <2>2, QuietMoves, SameTableAside
<1> QED
  BY <1>2, <1>3, <1>4, <1>5 DEF ThreadStep

\* ... and so is every step.
LEMMA AsideKind ==
  ASSUME IInv, IInv', OInv, [Next]_vars
  PROVE  \/ Aside
         \/ \E t \in Threads : TakeCommand(t) \/ ExecWrite(t) \/ Execute(t) \/ PopFrame(t) \/ Rollback(t)
         \/ UndoEntry \/ RedoEntry \/ UndoRedoFails
<1> DEFINE Other == \/ \E t \in Threads : \/ TakeCommand(t) \/ ExecWrite(t) \/ Execute(t)
                                          \/ PopFrame(t) \/ Rollback(t)
                    \/ UndoEntry \/ RedoEntry \/ UndoRedoFails
<1>1. /\ Recorded /\ Basics /\ Basics' /\ Owner \in Threads /\ Worker \in Threads
      /\ StackShape /\ OwnerActs
  BY BasicsHold, BasicsNext DEF OInv, Threads, IInv, Shape
<1>2. UNCHANGED stack => NoNewOwner
  BY DEF NoNewOwner, Does
<1>3. CASE UNCHANGED vars
  BY <1>2, <1>3, SameTableAside DEF vars
<1>4. ASSUME NEW t \in Threads, ThreadStep(t) PROVE Aside \/ Other
  BY <1>4, ThreadAside
<1>5. ASSUME NEW target, MoveCommandIndex(target),
             stack[Owner] = <<>> \/ At(Owner, "undo") \/ At(Owner, "redo")
      PROVE  Aside
  <2> DEFINE acts == <<Act("move", Root), Act("waitStart", Len(instances) + 1), Act("loop", Root)>>
  <2>1. PICK k : Queueing(k, "undoRedo", UndoRedoClass, target)
    BY <1>1, <1>5, MoveCommandIndexKind
  <2>2. Above(Owner, 0, acts) /\ Quiet(acts)
    BY <1>1, <1>5, MoveCommandIndexKind, ActsQuiet
  <2>3. NoNewOwner
    <3> HIDE DEF acts
    <3> QED
      BY <1>1, <2>2, AboveQuiet
  <2>4. Enqueued(k, "undoRedo", UndoRedoClass, target) /\ Inst(k) = Root
    BY <2>1 DEF Queueing
  <2>5. Known("undoRedo", UndoRedoClass) /\ UNCHANGED document
    BY <1>5 DEF Known, MoveCommandIndex
  <2> QED
    BY <1>1, <2>3, <2>4, <2>5, EnqueuedAside
<1>6. ASSUME NEW kind, NEW class, Known(kind, class), NEW rest, Quiet(rest), UNCHANGED document,
             stack[Owner] = <<>>, QueueCommand(Owner, kind, class, NoSelection, rest)
      PROVE  Aside
  <2>1. PICK k \in 1 .. Depth :
          Inst(k) = currentFrame[Owner] /\ Enqueued(k, kind, class, NoSelection)
    BY <1>1, <1>6, QueueCommandEffect
  <2>2. Owning(Owner) = {}
    BY <1>6 DEF Owning
  <2>3. Inst(k) = Root
    BY <2>1, <2>2, RootFrame
  <2>4. Push(Owner, rest \o <<Act("loop", Root)>>)
    BY <1>6 DEF QueueCommand
  <2>5. NoNewOwner
    BY <1>1, <1>6, <2>4, ActsQuiet, QuietConcat, QuietMoves
  <2> QED
    BY <1>1, <1>6, <2>1, <2>3, <2>5, EnqueuedAside
<1>7. CASE OwnerStep
  <2>1. CASE UndoCall \/ RedoCall
    BY <1>5, <2>1 DEF UndoCall, RedoCall
  <2>2. CASE UndoEntry \/ RedoEntry \/ UndoRedoFails
    BY <2>2
  <2>3. CASE UndoRedoDone
    <3>1. PICK i : instances' = SetStatus(instances, i, "Complete") /\ UNCHANGED document
      BY <2>3 DEF UndoRedoDone, SetStatus
    <3>2. Depth' = Depth /\ Running(Owner) /\ Pop(Owner)
      BY <2>3 DEF UndoRedoDone, At, Depth
    <3>3. NoNewOwner
      BY <1>1, <3>2, QuietActs, QuietMoves
    <3> QED
      BY <1>1, <3>1, <3>2, <3>3, StatusAside
  <2>4. CASE MoveDone \/ RemoveCall \/ UpdateDone \/ FiniExit \/ FiniJoin
    <3>1. /\ UNCHANGED <<document, instances, commandFrames>> /\ Running(Owner)
          /\ Pop(Owner) \/ ReplaceTop(Owner, <<Act("join", Root)>>)
      BY <2>4 DEF MoveDone, RemoveCall, UpdateDone, FiniExit, FiniJoin, CallVars, At
    <3>2. NoNewOwner
      BY <1>1, <3>1, ActsQuiet, QuietMoves
    <3> QED
      BY <3>1, <3>2, SameTableAside
  <2> QED
    BY <1>1, <1>4, <1>7, <2>1, <2>2, <2>3, <2>4 DEF OwnerStep
<1>8. CASE WorkerStep
  <2>1. CASE WorkerTurn \/ WorkerWoken
    <3>1. /\ UNCHANGED <<document, instances, commandFrames>>
          /\ UNCHANGED stack \/ Push(Worker, <<Act("loop", Root)>>)
      BY <2>1 DEF WorkerTurn, WorkerWoken
    <3>2. NoNewOwner
      BY <1>1, <1>2, <3>1, ActsQuiet, QuietMoves
    <3> QED
      BY <3>1, <3>2, SameTableAside
  <2> QED
    BY <1>1, <1>4, <1>8, <2>1 DEF WorkerStep
<1>9. CASE AppStep
  <2>1. CASE AppQueue \/ AppBatch \/ AppFini
    <3>1. /\ UNCHANGED document /\ stack[Owner] = <<>>
          /\ \E kind, class : \E rest \in {<<>>, <<Act("fini", Root)>>} :
               Known(kind, class) /\ QueueCommand(Owner, kind, class, NoSelection, rest)
      BY <2>1 DEF AppQueue, AppBatch, AppFini, CallVars, Known, Closers, Idle
    <3>2. \A rest \in {<<>>, <<Act("fini", Root)>>} : Quiet(rest)
      BY QuietActs, ActsQuiet
    <3> QED
      BY <1>6, <3>1, <3>2
  <2>2. CASE AppMove
    BY <1>5, <2>2 DEF AppMove, MayMove, Idle
  <2>3. CASE AppWait \/ AppUndo \/ AppRedo \/ AppRemove \/ AppFlush \/ AppUpdate
    <3>1. UNCHANGED <<document, instances, commandFrames>>
      BY <2>3 DEF AppWait, AppUndo, AppRedo, AppRemove, AppFlush, AppUpdate, CallVars
    <3>2. \/ \E i : Push(Owner, <<WaitAct(Owner, i)>>)
          \/ \E a : a \notin {"exec", "spin"} /\ Push(Owner, <<Act(a, Root), Act("flush", Root)>>)
          \/ Push(Owner, <<Act("flush", Root)>>)
          \/ Push(Owner, <<Act("update", Root), Act("loop", Root)>>)
      BY <2>3 DEF AppWait, AppUndo, AppRedo, AppRemove, AppFlush, AppUpdate
    <3>3. NoNewOwner
      BY <1>1, <3>2, ActsQuiet, QuietMoves DEF WaitAct
    <3> QED
      BY <3>1, <3>3, SameTableAside
  <2> QED
    BY <1>9, <2>1, <2>2, <2>3 DEF AppStep
<1> QED
  BY <1>3, <1>7, <1>8, <1>9 DEF Next

LEMMA DocumentKind ==
  ASSUME IInv, IInv', OInv, [Next]_vars
  PROVE  SameDocuments \/ Documenting
BY AsideKind, TakeCommandDocuments DEF Aside, Documenting, OInv

-----------------------------------------------------------------------------
(* The types of the activations *)

\* An activation of t when there are n instances.
ActTyped(t, a, n) ==
  /\ a.at \in Places /\ a.inst \in 0 .. n /\ a.prev \in NoFrame .. n
  /\ a.before \in Seq(1 .. n)
  /\ a.at = "waitStart" => t = Owner
  /\ a.at = "remove" => "remove" \in Ops

ActsTyped == \A t \in Threads : \A k \in DOMAIN stack[t] : ActTyped(t, stack[t][k], Count)

\* Some activations of t go, typed ones come.
TypedMove(t) ==
  \/ UNCHANGED stack
  \/ \E acts : /\ Listed(acts) /\ \A k \in 1 .. Len(acts) : ActTyped(t, acts[k], Count')
               /\ Push(t, acts) \/ (Running(t) /\ ReplaceTop(t, acts))
  \/ Running(t) /\ Pop(t)

LEMMA ActTypedMore ==
  ASSUME NEW t, NEW a, NEW m \in Nat, NEW n \in Nat, m <= n, ActTyped(t, a, m)
  PROVE  ActTyped(t, a, n)
<1>1. 0 .. m \subseteq 0 .. n /\ NoFrame .. m \subseteq NoFrame .. n /\ 1 .. m \subseteq 1 .. n
  BY DEF NoFrame
<1>2. a.before \in Seq(1 .. n)
  <2>1. a.before \in Seq(1 .. m)
    BY DEF ActTyped
  <2> QED
    BY <1>1, <2>1
<1> QED
  BY <1>1, <1>2 DEF ActTyped

LEMMA AboveTyped ==
  ASSUME ActsTyped, NEW t \in Threads, NEW n, NEW acts, Above(t, n, acts),
         \A k \in 1 .. Len(acts) : ActTyped(t, acts[k], Count'),
         Count \in Nat, Count' \in Nat, Count <= Count'
  PROVE  ActsTyped'
<1> SUFFICES ASSUME NEW u \in Threads, NEW k \in DOMAIN stack'[u]
             PROVE  ActTyped(u, stack'[u][k], Count')
  BY DEF ActsTyped, ActTyped
<1>1. ASSUME NEW j \in DOMAIN stack[u] PROVE ActTyped(u, stack[u][j], Count')
  BY <1>1, ActTypedMore DEF ActsTyped
<1>2. CASE u # t
  BY <1>1, <1>2 DEF Above
<1>3. CASE u = t /\ k \in 1 .. n
  BY <1>1, <1>3 DEF Above
<1>4. CASE u = t /\ k \notin 1 .. n
  <2>1. /\ n \in Nat /\ Len(acts) \in Nat /\ DOMAIN stack'[t] = 1 .. n + Len(acts)
        /\ \A l \in 1 .. Len(acts) : stack'[t][n + l] = acts[l]
    BY DEF Above
  <2>2. k - n \in 1 .. Len(acts) /\ n + (k - n) = k
    BY <1>4, <2>1
  <2> QED
    BY <1>4, <2>1, <2>2
<1> QED
  BY <1>2, <1>3, <1>4

LEMMA TypedMoves ==
  ASSUME StackShape, ActsTyped, NEW t \in Threads, TypedMove(t),
         Count \in Nat, Count' \in Nat, Count <= Count'
  PROVE  ActsTyped'
<1>1. CASE UNCHANGED stack
  <2>1. \A u \in Threads : \A k \in DOMAIN stack[u] : ActTyped(u, stack[u][k], Count')
    BY ActTypedMore DEF ActsTyped
  <2> QED
    BY <1>1, <2>1 DEF ActsTyped, ActTyped
<1>2. ASSUME NEW acts, Listed(acts), \A k \in 1 .. Len(acts) : ActTyped(t, acts[k], Count'),
             Push(t, acts) \/ (Running(t) /\ ReplaceTop(t, acts))
      PROVE  ActsTyped'
  <2>1. \E n : Above(t, n, acts)
    BY <1>2, PushAbove, ReplaceAbove
  <2> QED
    BY <1>2, <2>1, AboveTyped
<1>3. CASE Running(t) /\ Pop(t)
  <2>1. \E n : Above(t, n, <<>>)
    BY <1>3, PopAbove
  <2>2. \A k \in 1 .. Len(<<>>) : ActTyped(t, <<>>[k], Count')
    OBVIOUS
  <2> QED
    BY <2>1, <2>2, AboveTyped
<1> QED
  BY <1>1, <1>2, <1>3 DEF TypedMove

\* What Act makes.
LEMMA ActsOfType ==
  ASSUME NEW t, NEW n \in Nat, NEW at \in Places, at = "waitStart" => t = Owner,
         at = "remove" => "remove" \in Ops, NEW i \in 0 .. n
  PROVE  /\ ActTyped(t, Act(at, i), n)
         /\ \A x \in NoFrame .. n : ActTyped(t, [Act(at, i) EXCEPT !.prev = x], n)
         /\ \A x \in Seq(1 .. n) : ActTyped(t, [Act(at, i) EXCEPT !.before = x], n)
<1>1. NoFrame \in NoFrame .. n /\ <<>> \in Seq(1 .. n)
  BY DEF NoFrame
<1> QED
  BY <1>1 DEF ActTyped, Act

\* One to three of them.
LEMMA TypedTuples ==
  ASSUME NEW t, NEW n
  PROVE  /\ \A a : ActTyped(t, a, n) =>
              Listed(<<a>>) /\ \A k \in 1 .. Len(<<a>>) : ActTyped(t, <<a>>[k], n)
         /\ \A a, b : ActTyped(t, a, n) /\ ActTyped(t, b, n) =>
              Listed(<<a, b>>) /\ \A k \in 1 .. Len(<<a, b>>) : ActTyped(t, <<a, b>>[k], n)
         /\ \A a, b, c : ActTyped(t, a, n) /\ ActTyped(t, b, n) /\ ActTyped(t, c, n) =>
              Listed(<<a, b, c>>) /\ \A k \in 1 .. Len(<<a, b, c>>) : ActTyped(t, <<a, b, c>>[k], n)
<1>1. /\ \A a : <<a>>[1] = a
      /\ \A a, b : <<a, b>>[1] = a /\ <<a, b>>[2] = b
      /\ \A a, b, c : <<a, b, c>>[1] = a /\ <<a, b, c>>[2] = b /\ <<a, b, c>>[3] = c
  OBVIOUS
<1>2. 1 .. 1 = {1} /\ 1 .. 2 = {1, 2} /\ 1 .. 3 = {1, 2, 3}
  OBVIOUS
<1>3. \A k : k \in {1} <=> k = 1
  OBVIOUS
<1>4. \A a : ActTyped(t, a, n) => \A k \in {1} : ActTyped(t, <<a>>[k], n)
  BY <1>1
<1>5. \A a, b : ActTyped(t, a, n) /\ ActTyped(t, b, n) =>
         \A k \in {1, 2} : ActTyped(t, <<a, b>>[k], n)
  BY <1>1
<1>6. \A a, b, c : ActTyped(t, a, n) /\ ActTyped(t, b, n) /\ ActTyped(t, c, n) =>
         \A k \in {1, 2, 3} : ActTyped(t, <<a, b, c>>[k], n)
  BY <1>1
<1> QED
  BY <1>2, <1>4, <1>5, <1>6, TuplesListed

\* A finite set of numbers has a maximum.
LEMMA MaxElement ==
  ASSUME NEW n \in Nat, NEW S \in SUBSET (1 .. n), S # {}
  PROVE  Max(S) \in S
<1> DEFINE T == {n - k : k \in S}
<1>1. T \in SUBSET Nat /\ T # {}
  <2>1. \A k \in S : n - k \in Nat
    OBVIOUS
  <2> QED
    BY <2>1
<1>2. PICK x \in T : \A y \in T : x <= y
  <2> HIDE DEF T
  <2> QED
    BY <1>1, LeastElement
<1>3. PICK k \in S : x = n - k
  BY <1>2
<1>4. \A j \in S : k >= j
  <2> TAKE j \in S
  <2>1. n - j \in T
    OBVIOUS
  <2>2. n - k <= n - j
    BY <1>2, <1>3, <2>1
  <2> QED
    BY <2>2
<1> QED
  BY <1>3, <1>4 DEF Max

\* A sequence of numbers that are all in S.
LEMMA SeqWithin ==
  ASSUME NEW R, NEW s \in Seq(R), NEW S, \A k \in 1 .. Len(s) : s[k] \in S
  PROVE  s \in Seq(S)
<1>1. Len(s) \in Nat /\ s = [k \in 1 .. Len(s) |-> s[k]]
  OBVIOUS
<1>2. s \in [1 .. Len(s) -> S]
  BY <1>1
<1> QED
  BY <1>1, <1>2, SeqDef

\* What a thread remembers when it begins to wait.
LEMMA WaitRangeTyped ==
  ASSUME NEW S, NEW frame, frame.commandQueue \in Seq(S), NEW i
  PROVE  WaitRange(frame, i) \in Seq(S)
<1> DEFINE queue == frame.commandQueue
           last == IF Contains(queue, i) THEN CHOOSE k \in DOMAIN queue : queue[k] = i
                                         ELSE Len(queue) + 1
           open == {k \in 1 .. last - 1 : Contains(frame.stackQueue, queue[k])}
           first == IF open = {} THEN 1 ELSE Max(open)
<1>1. Len(queue) \in Nat /\ DOMAIN queue = 1 .. Len(queue)
  OBVIOUS
<1>2. last \in 1 .. Len(queue) + 1
  <2>1. CASE Contains(queue, i)
    <3>1. \E k \in DOMAIN queue : queue[k] = i
      BY <2>1 DEF Contains
    <3>2. last \in DOMAIN queue
      BY <2>1, <3>1
    <3> QED
      BY <1>1, <3>2
  <2> QED
    BY <1>1, <2>1
<1>3. first \in 1 .. Len(queue) + 1
  <2>1. CASE open # {}
    <3>1. open \in SUBSET (1 .. last - 1) /\ last - 1 \in Nat
      BY <1>1, <1>2
    <3>2. Max(open) \in open
      <4> HIDE DEF open, last
      <4> QED
        BY <2>1, <3>1, MaxElement
    <3>3. Max(open) \in 1 .. last - 1
      BY <3>1, <3>2
    <3> HIDE DEF open, last
    <3> QED
      BY <1>1, <1>2, <2>1, <3>3
  <2>2. CASE open = {}
    <3> HIDE DEF open
    <3> QED
      BY <1>1, <2>2
  <2> QED
    BY <2>1, <2>2
<1>4. WaitRange(frame, i) = SubSeq(queue, first, last - 1)
  BY DEF WaitRange
<1> HIDE DEF queue, last, first
<1>5. queue \in Seq(S)
  BY DEF queue
<1> QED
  BY <1>1, <1>2, <1>3, <1>4, <1>5

\* The frame a thread works on, and what it finds queued there.
LEMMA CurrentTyped ==
  ASSUME IInv
  PROVE  /\ \A t \in Threads : currentFrame[t] \in NoFrame .. Count
         /\ \A t \in Threads : t = Owner \/ Owning(t) # {} =>
              Frame(currentFrame[t]).commandQueue \in Seq(1 .. Count)
<1>1. Basics /\ StackShape /\ Chained /\ Owned
  BY BasicsHold DEF IInv, Shape
<1>2. Ids = 1 .. Count /\ Count \in Nat /\ \A n \in 2 .. Depth : Inst(n) \in Ids
  BY <1>1 DEF Basics
<1>3. ASSUME NEW t \in Threads PROVE currentFrame[t] \in NoFrame .. Count
  <2>1. Innermost(t, currentFrame[t])
    BY <1>1 DEF Chained
  <2>2. \A j \in Owning(t) : stack[t][j].inst \in 1 .. Count
    BY <1>1, <1>2 DEF Owned, Inst, Depth
  <2> QED
    BY <1>2, <2>1, <2>2 DEF Innermost, Root, NoFrame
<1>4. ASSUME NEW t \in Threads, t = Owner \/ Owning(t) # {}
      PROVE  Frame(currentFrame[t]).commandQueue \in Seq(1 .. Count)
  <2>1. PICK k : k = FrameIndex(currentFrame[t])
    OBVIOUS
  <2>2. k \in DOMAIN commandFrames /\ Frame(currentFrame[t]) = commandFrames[k]
    BY <1>4, <2>1, CurrentFrameInst DEF Frame
  <2>3. commandFrames[k].commandQueue \in Seq(Nat)
    BY <2>2, FrameTypes DEF IInv
  <2>4. \A a \in 1 .. Len(commandFrames[k].commandQueue) :
          commandFrames[k].commandQueue[a] \in 1 .. Count
    BY <1>1, <1>2, <2>2 DEF Basics, FramesSized, Queue, Depth
  <2> QED
    BY <2>2, <2>3, <2>4, SeqWithin
<1> QED
  BY <1>3, <1>4

\* The instance popFrame deals with.
LEMMA DoneTyped ==
  ASSUME Basics, Grouped, NEW L, L \in 2 .. Depth, NEW closes,
         closes => Last(Groups(L - 1)) # Root, NEW done,
         done = IF closes THEN Last(Groups(L - 1)) ELSE Inst(L)
  PROVE  done \in Ids
<1>1. CASE ~closes
  BY <1>1 DEF Basics
<1>2. CASE closes
  <2>1. L - 1 \in 1 .. Depth /\ Depth \in Nat
    BY DEF Basics, FramesSized
  <2>2. Len(Groups(L - 1)) \in Nat /\ Len(Groups(L - 1)) > 0 /\ Groups(L - 1)[1] = Inst(L - 1)
    BY <2>1 DEF Grouped, Basics, FramesSized, Sized
  <2>3. done = Groups(L - 1)[Len(Groups(L - 1))] /\ done # Root
    BY <1>2 DEF Last
  <2>4. CASE Len(Groups(L - 1)) = 1
    BY <2>1, <2>2, <2>3, <2>4 DEF Basics
  <2>5. CASE Len(Groups(L - 1)) # 1
    <3>1. \A n \in Nat : n > 0 /\ n # 1 => n \in 2 .. n
      OBVIOUS
    <3>2. Len(Groups(L - 1)) \in 2 .. Len(Groups(L - 1))
      BY <2>2, <2>5, <3>1
    <3> QED
      BY <2>1, <2>3, <3>2 DEF Grouped
  <2> QED
    BY <2>4, <2>5
<1> QED
  BY <1>1, <1>2

\* The activations that a thread's steps add are of the type.
LEMMA ThreadTyped ==
  ASSUME IInv, OInv, ActsTyped, NEW t \in Threads, ThreadStep(t),
         Count' \in Nat, Count <= Count'
  PROVE  TypedMove(t)
<1>0. /\ StackShape /\ Basics /\ Recorded /\ Grouped
      /\ Ids = 1 .. Count /\ Count \in Nat
  BY BasicsHold DEF IInv, Shape, OInv, Placed, Basics
<1>1. \A at \in Places : at # "waitStart" /\ at # "remove" => \A i \in 0 .. Count' :
         /\ ActTyped(t, Act(at, i), Count')
         /\ \A x \in NoFrame .. Count' : ActTyped(t, [Act(at, i) EXCEPT !.prev = x], Count')
         /\ \A x \in Seq(1 .. Count') : ActTyped(t, [Act(at, i) EXCEPT !.before = x], Count')
  BY ActsOfType
<1>2. ASSUME NEW a, ActTyped(t, a, Count') PROVE
        /\ Push(t, <<a>>) => TypedMove(t)
        /\ Running(t) /\ ReplaceTop(t, <<a>>) => TypedMove(t)
        /\ \A b : ActTyped(t, b, Count') /\ Push(t, <<a, b>>) => TypedMove(t)
  BY <1>2, TypedTuples DEF TypedMove
<1>3. ActTyped(t, Act("loop", Root), Count')
  BY <1>1, <1>0 DEF Places, Root
<1>4. Push(t, <<Act("loop", Root)>>) => TypedMove(t)
  BY <1>2, <1>3
<1>5. ASSUME Running(t)
      PROVE  /\ ActTyped(t, Top(t), Count) /\ ActTyped(t, Top(t), Count')
             /\ Top(t) = stack[t][Len(stack[t])] /\ Len(stack[t]) \in DOMAIN stack[t]
  <2>1. Top(t) = stack[t][Len(stack[t])]
    BY DEF Top, Last
  <2>2. At(t, Top(t).at)
    BY <1>5 DEF At
  <2>3. Len(stack[t]) \in DOMAIN stack[t]
    BY <1>0, <2>2, TopDoes DEF Does
  <2> QED
    BY <1>0, <2>1, <2>3, ActTypedMore DEF ActsTyped
<1>6. ASSUME NEW i \in 0 .. Count, t = Owner \/ Owning(t) # {}
      PROVE  ActTyped(t, WaitAct(t, i), Count')
  <2>1. WaitRange(Frame(currentFrame[t]), i) \in Seq(1 .. Count)
    BY <1>6, CurrentTyped, WaitRangeTyped
  <2>2. WaitRange(Frame(currentFrame[t]), i) \in Seq(1 .. Count')
    <3>1. 1 .. Count \subseteq 1 .. Count'
      BY <1>0
    <3> QED
      BY <2>1, <3>1, SeqMonotonic
  <2>3. i \in 0 .. Count' /\ "wait" \in Places /\ "wait" # "waitStart" /\ "wait" # "remove"
    BY <1>0 DEF Places
  <2> QED
    BY <1>1, <2>2, <2>3 DEF WaitAct
<1>7. CASE LoopEnds(t) \/ Rollback(t)
  BY <1>7 DEF LoopEnds, Rollback, At, TypedMove
<1>8. CASE SpinProcess(t) \/ WaitProcess(t)
  BY <1>4, <1>8 DEF SpinProcess, WaitProcess
<1>9. CASE Flush(t)
  BY <1>4, <1>9 DEF Flush, At, TypedMove
<1>10. CASE ExecWrite(t)
  BY <1>10 DEF ExecWrite, TypedMove
<1>11. CASE ExecQueue(t) \/ ExecBatch(t)
  <2>1. Push(t, <<>> \o <<Act("loop", Root)>>)
    BY <1>11 DEF ExecQueue, ExecBatch, QueueCommand
  <2>2. <<>> \o <<Act("loop", Root)>> = <<Act("loop", Root)>>
    OBVIOUS
  <2> QED
    BY <1>4, <2>1, <2>2
<1>12. CASE TakeCommand(t)
  <2>1. PICK i : i \in Ids /\ Push(t, <<[Act("exec", i) EXCEPT !.prev = currentFrame[t]]>>)
    BY <1>0, <1>12, TakeCommandEffect
  <2>2. i \in 0 .. Count' /\ currentFrame[t] \in NoFrame .. Count' /\ "exec" \in Places
    BY <1>0, <2>1, CurrentTyped DEF Places, NoFrame
  <2>3. ActTyped(t, [Act("exec", i) EXCEPT !.prev = currentFrame[t]], Count')
    BY <1>1, <2>2
  <2> QED
    BY <1>2, <2>1, <2>3
<1>13. CASE TakeUndoRedo(t)
  <2>1. PICK i : i \in Ids /\ Push(t, <<Act("undoRedo", i), Act("flush", Root)>>)
    BY <1>0, <1>13, TakeUndoRedoEffect
  <2>2. i \in 0 .. Count' /\ Root \in 0 .. Count' /\ "undoRedo" \in Places /\ "flush" \in Places
    BY <1>0, <2>1 DEF Places, Root
  <2>3. ActTyped(t, Act("undoRedo", i), Count') /\ ActTyped(t, Act("flush", Root), Count')
    BY <1>1, <2>2
  <2> QED
    BY <1>2, <2>1, <2>3
<1>14. CASE ExecWait(t)
  <2>1. PICK i : i \in Ids /\ Push(t, <<WaitAct(t, i)>>)
    BY <1>14 DEF ExecWait, Ids
  <2>2. At(t, "exec")
    BY <1>14 DEF ExecWait, Executing
  <2>3. Owning(t) # {}
    BY <2>2, ExecutingFrame
  <2> QED
    BY <1>0, <1>2, <1>6, <2>1, <2>3
<1>15. CASE Execute(t)
  <2>1. Running(t) /\ ReplaceTop(t, <<[Top(t) EXCEPT !.at = "spin"]>>)
    BY <1>15 DEF Execute, At
  <2>2. ActTyped(t, Top(t), Count') /\ ActivationRecord(Top(t))
    BY <1>0, <1>5, <2>1 DEF StackShape
  <2>3. ActTyped(t, [Top(t) EXCEPT !.at = "spin"], Count')
    BY <2>2 DEF ActTyped, ActivationRecord, Places
  <2> QED
    BY <1>2, <2>1, <2>3
<1>16. CASE PopFrame(t)
  <2>1. \A n \in 1 .. Depth : Groups(n) # <<>>
    BY <1>0 DEF Grouped
  <2>2. \E L \in Nat : \E closes \in BOOLEAN : \E done :
          /\ Popped(L, closes)
          /\ closes => Last(Groups(L - 1)) # Root
          /\ done = IF closes THEN Last(Groups(L - 1)) ELSE Inst(L)
          /\ Pop(t) \/ ReplaceTop(t, <<Act("rollback", done)>>)
    BY <1>0, <1>16, <2>1, PopFrameEffect DEF LeftOpen, Completed, GivenUp
  <2>a. PICK L \in Nat : \E closes \in BOOLEAN : \E done :
          /\ Popped(L, closes)
          /\ closes => Last(Groups(L - 1)) # Root
          /\ done = IF closes THEN Last(Groups(L - 1)) ELSE Inst(L)
          /\ Pop(t) \/ ReplaceTop(t, <<Act("rollback", done)>>)
    BY <2>2
  <2>b. PICK closes \in BOOLEAN, done \in {Last(Groups(L - 1)), Inst(L)} :
          /\ Popped(L, closes)
          /\ closes => Last(Groups(L - 1)) # Root
          /\ done = IF closes THEN Last(Groups(L - 1)) ELSE Inst(L)
          /\ Pop(t) \/ ReplaceTop(t, <<Act("rollback", done)>>)
    BY <2>a
  <2>3. L \in 2 .. Depth
    BY <2>b DEF Popped
  <2>4. done \in Ids
    BY <1>0, <2>b, <2>3, DoneTyped
  <2>5. ActTyped(t, Act("rollback", done), Count')
    <3>1. done \in 0 .. Count' /\ "rollback" \in Places
      BY <1>0, <2>4 DEF Places
    <3> QED
      BY <1>1, <3>1
  <2>6. Running(t)
    BY <1>16 DEF PopFrame, At
  <2> QED
    BY <1>2, <2>b, <2>5, <2>6 DEF TypedMove
<1>17. CASE WaitNext(t)
  <2> DEFINE before == Top(t).before
             groups == {k \in DOMAIN before : Contains(instances[before[k]].children, Top(t).inst)}
  <2>1. /\ Running(t)
        /\ \/ Pop(t)
           \/ groups # {} /\ ReplaceTop(t, <<[Act("wait", before[Max(groups)]) EXCEPT
                                              !.before = SubSeq(before, 1, Max(groups) - 1)]>>)
    BY <1>17 DEF WaitNext, At
  <2>2. before \in Seq(1 .. Count')
    BY <1>5, <2>1 DEF ActTyped
  <2>3. ASSUME groups # {} PROVE
          /\ before[Max(groups)] \in 0 .. Count'
          /\ SubSeq(before, 1, Max(groups) - 1) \in Seq(1 .. Count')
    <3>1. groups \in SUBSET (1 .. Len(before)) /\ Len(before) \in Nat
      BY <2>2
    <3> HIDE DEF groups, before
    <3>2. Max(groups) \in 1 .. Len(before)
      BY <2>3, <3>1, MaxElement
    <3> QED
      BY <2>2, <3>1, <3>2
  <2>4. groups # {} =>
          ActTyped(t, [Act("wait", before[Max(groups)]) EXCEPT !.before = SubSeq(before, 1, Max(groups) - 1)],
                   Count')
    <3>1. "wait" \in Places /\ "wait" # "waitStart" /\ "wait" # "remove"
      BY DEF Places
    <3> HIDE DEF groups, before
    <3> QED
      BY <1>1, <2>3, <3>1
  <2> HIDE DEF groups, before
  <2> QED
    BY <1>2, <2>1, <2>4 DEF TypedMove
<1>18. CASE WaitStart(t)
  <2>1. Running(t) /\ Top(t).at = "waitStart" /\ ReplaceTop(t, <<WaitAct(t, Top(t).inst)>>)
    BY <1>18 DEF WaitStart, At
  <2>2. t = Owner /\ Top(t).inst \in 0 .. Count
    BY <1>5, <2>1 DEF ActTyped
  <2> QED
    BY <1>0, <1>2, <1>6, <2>1, <2>2
<1> QED
  BY <1>7, <1>8, <1>9, <1>10, <1>11, <1>12, <1>13, <1>14, <1>15, <1>16, <1>17, <1>18 DEF ThreadStep

\* What the owner and the worker add outside the calls of the manager is of the type, too.
LEMMA ActsTypedStep ==
  ASSUME IInv, OInv, ActsTyped, [Next]_vars, Count' \in Nat, Count <= Count'
  PROVE  ActsTyped'
<1>0. /\ StackShape /\ Basics /\ OwnerActs /\ Ids = 1 .. Count /\ Count \in Nat
      /\ Owner \in Threads /\ Worker \in Threads
  BY BasicsHold DEF IInv, Shape, OInv, Basics, Threads
<1>1. ASSUME NEW t \in Threads, TypedMove(t) PROVE ActsTyped'
  BY <1>0, <1>1, TypedMoves
<1>2. ASSUME NEW t \in Threads, ThreadStep(t) PROVE ActsTyped'
  BY <1>1, <1>2, ThreadTyped
<1>3. /\ Root \in 0 .. Count' /\ Root \in 0 .. Count
      /\ {"loop", "flush", "undo", "redo", "update", "fini", "join", "move"} \subseteq
           Places \ {"waitStart", "remove"}
      /\ "remove" \in Places
  BY <1>0 DEF Root, Places
<1>4. /\ \A at \in {"loop", "flush", "undo", "redo", "update", "fini", "join", "move"} :
           \A t : ActTyped(t, Act(at, Root), Count')
      /\ "remove" \in Ops => \A t : ActTyped(t, Act("remove", Root), Count')
  BY <1>3, ActsOfType
<1>5. ASSUME NEW t \in Threads, NEW a, ActTyped(t, a, Count'),
             Push(t, <<a>>) \/ (Running(t) /\ ReplaceTop(t, <<a>>))
             \/ \E b : ActTyped(t, b, Count') /\ Push(t, <<a, b>>)
      PROVE  TypedMove(t)
  BY <1>5, TypedTuples DEF TypedMove
<1>6. ASSUME NEW target, MoveCommandIndex(target),
             stack[Owner] = <<>> \/ At(Owner, "undo") \/ At(Owner, "redo")
      PROVE  ActsTyped'
  <2> DEFINE job == Len(instances) + 1
             acts == <<Act("move", Root), Act("waitStart", job), Act("loop", Root)>>
  <2>1. Above(Owner, 0, acts)
    BY <1>0, <1>6, MoveCommandIndexKind
  <2>2. Count' = Count + 1
    BY <1>6, MoveCommandIndexEffect DEF Enqueued
  <2>3. job \in 0 .. Count' /\ "waitStart" \in Places
    BY <1>0, <2>2 DEF Count, Places
  <2>4. ActTyped(Owner, Act("waitStart", job), Count')
    BY <2>3, ActsOfType
  <2>5. \A k \in 1 .. Len(acts) : ActTyped(Owner, acts[k], Count')
    BY <1>4, <2>4, TypedTuples
  <2> HIDE DEF acts
  <2> QED
    BY <1>0, <2>1, <2>5, AboveTyped
<1>7. CASE OwnerStep
  <2>1. CASE UndoCall \/ RedoCall
    BY <1>6, <2>1 DEF UndoCall, RedoCall
  <2>2. CASE UndoEntry \/ RedoEntry
    BY <1>0, <1>1, <2>2 DEF UndoEntry, RedoEntry, TypedMove
  <2>3. CASE UndoRedoDone \/ UndoRedoFails \/ MoveDone \/ RemoveCall \/ UpdateDone \/ FiniJoin
    BY <1>0, <1>1, <2>3 DEF UndoRedoDone, UndoRedoFails, MoveDone, RemoveCall, UpdateDone,
       FiniJoin, At, TypedMove
  <2>4. CASE FiniExit
    BY <1>0, <1>1, <1>4, <1>5, <2>4 DEF FiniExit, At
  <2> QED
    BY <1>0, <1>2, <1>7, <2>1, <2>2, <2>3, <2>4 DEF OwnerStep
<1>8. CASE WorkerStep
  <2>1. CASE WorkerTurn \/ WorkerWoken
    <3>1. UNCHANGED stack \/ Push(Worker, <<Act("loop", Root)>>)
      BY <2>1 DEF WorkerTurn, WorkerWoken
    <3> QED
      BY <1>0, <1>1, <1>4, <1>5, <3>1 DEF TypedMove
  <2> QED
    BY <1>0, <1>2, <1>8, <2>1 DEF WorkerStep
<1>9. CASE AppStep
  <2>1. CASE AppMove
    BY <1>6, <2>1 DEF AppMove, MayMove, Idle
  <2>2. CASE AppQueue \/ AppBatch
    <3>1. Push(Owner, <<>> \o <<Act("loop", Root)>>)
      BY <2>2 DEF AppQueue, AppBatch, QueueCommand
    <3>2. <<>> \o <<Act("loop", Root)>> = <<Act("loop", Root)>>
      OBVIOUS
    <3> QED
      BY <1>0, <1>1, <1>4, <1>5, <3>1, <3>2
  <2>3. CASE AppFini
    <3>1. Push(Owner, <<Act("fini", Root)>> \o <<Act("loop", Root)>>)
      BY <2>3 DEF AppFini, QueueCommand
    <3> DEFINE first == <<Act("fini", Root)>>
               second == <<Act("loop", Root)>>
               acts == first \o second
    <3>2. /\ Listed(first) /\ \A k \in 1 .. Len(first) : ActTyped(Owner, first[k], Count')
          /\ Listed(second) /\ \A k \in 1 .. Len(second) : ActTyped(Owner, second[k], Count')
      BY <1>4, TypedTuples
    <3>3. Push(Owner, acts)
      BY <3>1
    <3> HIDE DEF first, second
    <3>4. /\ Listed(acts) /\ Len(first) \in Nat /\ Len(second) \in Nat
          /\ Len(acts) = Len(first) + Len(second)
          /\ \A k \in 1 .. Len(first) : acts[k] = first[k]
          /\ \A k \in Len(first) + 1 .. Len(first) + Len(second) : acts[k] = second[k - Len(first)]
      BY <3>2, ListedConcat
    <3>5. \A k \in 1 .. Len(acts) : ActTyped(Owner, acts[k], Count')
      <4> TAKE k \in 1 .. Len(acts)
      <4>1. CASE k \in 1 .. Len(first)
        BY <3>2, <3>4, <4>1
      <4>2. CASE k \notin 1 .. Len(first)
        <5>1. /\ k \in Len(first) + 1 .. Len(first) + Len(second)
              /\ k - Len(first) \in 1 .. Len(second)
          BY <3>4, <4>2
        <5> QED
          BY <3>2, <3>4, <5>1
      <4> QED
        BY <4>1, <4>2
    <3> HIDE DEF acts
    <3>6. TypedMove(Owner)
      BY <3>3, <3>4, <3>5 DEF TypedMove
    <3> QED
      BY <1>0, <1>1, <3>6
  <2>4. CASE AppWait
    <3>1. PICK i \in 1 .. Count : Push(Owner, <<WaitAct(Owner, i)>>)
      BY <1>0, <2>4 DEF AppWait, Ids
    <3>2. WaitRange(Frame(currentFrame[Owner]), i) \in Seq(1 .. Count')
      <4>1. 1 .. Count \subseteq 1 .. Count'
        BY <1>0
      <4>2. WaitRange(Frame(currentFrame[Owner]), i) \in Seq(1 .. Count)
        BY <1>0, CurrentTyped, WaitRangeTyped
      <4> QED
        BY <4>1, <4>2, SeqMonotonic
    <3>3. i \in 0 .. Count' /\ "wait" \in Places /\ "wait" # "waitStart" /\ "wait" # "remove"
      BY <1>0 DEF Places
    <3>4. ActTyped(Owner, WaitAct(Owner, i), Count')
      BY <3>2, <3>3, ActsOfType DEF WaitAct
    <3> QED
      BY <1>0, <1>1, <1>5, <3>1, <3>4
  <2>5. CASE AppUndo \/ AppRedo \/ AppRemove \/ AppFlush \/ AppUpdate
    <3>1. \/ Push(Owner, <<Act("flush", Root)>>)
          \/ \E a \in {"undo", "redo", "remove", "update"} : (a = "remove" => "remove" \in Ops) /\ \E b \in {"flush", "loop"} :
               Push(Owner, <<Act(a, Root), Act(b, Root)>>)
      BY <2>5 DEF AppUndo, AppRedo, AppRemove, AppFlush, AppUpdate
    <3> QED
      BY <1>0, <1>1, <1>4, <1>5, <3>1
  <2> QED
    BY <1>9, <2>1, <2>2, <2>3, <2>4, <2>5 DEF AppStep
<1>10. CASE UNCHANGED vars
  BY <1>0, <1>1, <1>10 DEF vars, TypedMove
<1> QED
  BY <1>7, <1>8, <1>9, <1>10 DEF Next

-----------------------------------------------------------------------------
(* The types of the frames *)

OpenIn == \A n \in 1 .. Depth : \A a \in 1 .. Len(Open(n)) : Open(n)[a] \in 0 .. Count

LEMMA StackQueueWithin ==
  ASSUME NEW S, NEW queue \in Seq(S), NEW kind, NEW i \in S
  PROVE  StackQueueAfter(queue, kind, i) \in Seq(S)
<1>1. Append(queue, i) \in Seq(S) /\ Front(queue) \in Seq(S)
  BY DEF Front
<1> QED
  BY <1>1 DEF StackQueueAfter

LEMMA OpenInStep ==
  ASSUME IInv, IInv', OInv, StepKind, OpenIn, Count <= Count'
  PROVE  OpenIn'
<1>0. /\ Basics /\ Basics' /\ Ids = 1 .. Count /\ Count \in Nat /\ Count' \in Nat
      /\ \A i \in 0 .. Count : i \in 0 .. Count'
  BY BasicsHold, BasicsNext DEF Basics
<1> SUFFICES ASSUME NEW n \in 1 .. Depth', NEW a \in 1 .. Len(Open(n)')
             PROVE  Open(n)'[a] \in 0 .. Count'
  BY DEF OpenIn
<1>1. ASSUME n \in 1 .. Depth, Open(n)' = Open(n) PROVE Open(n)'[a] \in 0 .. Count'
  BY <1>0, <1>1 DEF OpenIn
<1>2. CASE Neutral
  BY <1>1, <1>2 DEF Neutral, FramesKept
<1>3. ASSUME NEW k, NEW kind, NEW class, NEW target, Queueing(k, kind, class, target)
      PROVE  Open(n)'[a] \in 0 .. Count'
  <2>1. Enqueued(k, kind, class, target)
    BY <1>3 DEF Queueing
  <2>2. CASE n # k
    BY <1>1, <2>1, <2>2 DEF Enqueued
  <2>3. CASE n = k
    <3>1. /\ n \in 1 .. Depth /\ Open(n)' = StackQueueAfter(Open(n), kind, Count + 1)
          /\ Count' = Count + 1
      BY <2>1, <2>3 DEF Enqueued
    <3>2. Open(n) \in Seq(Nat)
      BY <1>0, <3>1, FrameTypes DEF IInv, Open, Depth
    <3>3. \A b \in 1 .. Len(Open(n)) : Open(n)[b] \in 0 .. Count'
      BY <1>0, <3>1 DEF OpenIn
    <3>4. Open(n) \in Seq(0 .. Count')
      BY <3>2, <3>3, SeqWithin
    <3>5. Count + 1 \in 0 .. Count'
      BY <1>0, <3>1
    <3>6. StackQueueAfter(Open(n), kind, Count + 1) \in Seq(0 .. Count')
      BY <3>4, <3>5, StackQueueWithin
    <3> QED
      BY <3>1, <3>6
  <2> QED
    BY <2>2, <2>3
<1>4. ASSUME NEW L, NEW i, Taking(L, i) PROVE Open(n)'[a] \in 0 .. Count'
  <2>1. /\ L = Depth /\ Depth' = L + 1 /\ Open(L + 1)' = <<i>> /\ i \in Ids
        /\ \A m \in 1 .. L : Open(m)' = Open(m)
    BY <1>4 DEF Taking, Taken, Dequeued
  <2>2. CASE n = L + 1
    BY <1>0, <2>1, <2>2
  <2>3. CASE n # L + 1
    <3>1. n \in 1 .. L
      BY <1>0, <2>1, <2>3 DEF Basics, FramesSized
    <3> QED
      BY <1>1, <2>1, <3>1
  <2> QED
    BY <2>2, <2>3
<1>5. ASSUME NEW t, NEW k, NEW L, NEW i, Starting(t, k, L, i) PROVE Open(n)'[a] \in 0 .. Count'
  BY <1>1, <1>5 DEF Starting, Dequeued
<1>6. ASSUME NEW L, NEW closes, NEW done, Popping(L, closes, done) PROVE Open(n)'[a] \in 0 .. Count'
  <2>1. L = Depth /\ Depth' = L - 1 /\ \A m \in 1 .. L - 1 : Open(m)' = Open(m)
    BY <1>6 DEF Popping, Popped
  <2>2. n \in 1 .. L - 1 /\ n \in 1 .. Depth
    BY <1>0, <2>1 DEF Basics, FramesSized
  <2> QED
    BY <1>1, <2>1, <2>2
<1>7. ASSUME NEW t, NEW k, NEW at, NEW i, Finishing(t, k, at, i) PROVE Open(n)'[a] \in 0 .. Count'
  BY <1>1, <1>7 DEF Finishing, FramesKept
<1> QED
  BY <1>2, <1>3, <1>4, <1>5, <1>6, <1>7 DEF StepKind

LEMMA FramesTyped ==
  ASSUME IInv, Grouped, OpenIn
  PROVE  \A k \in DOMAIN commandFrames :
           /\ commandFrames[k].instance \in 0 .. Count
           /\ commandFrames[k].commandStack \in Seq(0 .. Count)
           /\ commandFrames[k].stackQueue \in Seq(0 .. Count)
           /\ commandFrames[k].commandQueue \in Seq(Ids)
<1> SUFFICES ASSUME NEW k \in DOMAIN commandFrames
             PROVE  /\ Inst(k) \in 0 .. Count /\ Groups(k) \in Seq(0 .. Count)
                    /\ Open(k) \in Seq(0 .. Count) /\ Queue(k) \in Seq(Ids)
  BY DEF Inst, Groups, Open, Queue
<1>1. /\ Basics /\ Ids = 1 .. Count /\ Count \in Nat /\ k \in 1 .. Depth /\ Depth \in Nat
      /\ Queue(k) \in Seq(Nat) /\ Groups(k) \in Seq(Nat) /\ Open(k) \in Seq(Nat)
  BY BasicsHold, FrameTypes DEF IInv, Basics, FramesSized, Queue, Groups, Open
<1>2. Inst(k) \in 0 .. Count
  BY <1>1 DEF Basics, Root
<1>3. \A a \in 1 .. Len(Groups(k)) : Groups(k)[a] \in 0 .. Count
  <2> TAKE a \in 1 .. Len(Groups(k))
  <2>1. a = 1 \/ a \in 2 .. Len(Groups(k))
    BY <1>1
  <2> QED
    BY <1>1, <1>2, <2>1 DEF Grouped
<1>4. \A a \in 1 .. Len(Queue(k)) : Queue(k)[a] \in Ids
  BY <1>1 DEF Basics
<1> QED
  BY <1>1, <1>2, <1>3, <1>4, SeqWithin DEF OpenIn

-----------------------------------------------------------------------------
(* The number of instances *)

\* What a call of the application that is no move begins with.
LEMMA AppBegins ==
  ASSUME IInv, OInv, AppStep, ~AppMove
  PROVE  Prompted' => MayMove /\ UNCHANGED instances
<1>1. StackShape /\ OwnerActs /\ Owner \in Threads
  BY DEF IInv, Shape, OInv, Threads
<1>2. stack[Owner] = <<>>
  BY DEF AppStep, AppQueue, AppBatch, AppWait, AppUndo, AppRedo, AppMove, AppRemove, AppFlush,
         AppUpdate, AppFini, MayMove, Idle
<1>3. CASE AppUndo \/ AppRedo
  BY <1>3 DEF AppUndo, AppRedo
<1>4. ASSUME NEW acts, Listed(acts), acts[1].at \notin {"undo", "redo"}, Push(Owner, acts)
      PROVE  ~Prompted'
  <2>1. Above(Owner, 0, acts)
    BY <1>1, <1>2, <1>4, PushAbove
  <2>2. 1 \in DOMAIN stack'[Owner] => stack'[Owner][1] = acts[1]
    <3>1. 0 + 1 = 1 /\ DOMAIN stack'[Owner] = 1 .. Len(acts) /\ Len(acts) \in Nat
      BY <2>1 DEF Above
    <3> QED
      BY <2>1, <3>1 DEF Above
  <2> QED
    BY <1>4, <2>2 DEF Prompted, Calling
<1>5. /\ \A a, i : Act(a, i).at = a
      /\ \A i : WaitAct(Owner, i).at = "wait"
  BY ActFields DEF WaitAct
<1>6. /\ \A a : Listed(<<a>>) /\ <<a>>[1] = a
      /\ \A a, b : Listed(<<a, b>>) /\ <<a, b>>[1] = a
  BY TuplesListed
<1>7. CASE AppQueue \/ AppBatch
  <2>0. <<>> \o <<Act("loop", Root)>> = <<Act("loop", Root)>>
    OBVIOUS
  <2>1. Push(Owner, <<Act("loop", Root)>>)
    BY <1>7, <2>0 DEF AppQueue, AppBatch, QueueCommand
  <2>2. <<Act("loop", Root)>>[1].at \notin {"undo", "redo"} /\ Listed(<<Act("loop", Root)>>)
    BY <1>5, <1>6
  <2> QED
    BY <1>4, <2>1, <2>2
<1>8. CASE AppFini
  <2> DEFINE acts == <<Act("fini", Root)>> \o <<Act("loop", Root)>>
  <2>1. Push(Owner, acts)
    BY <1>8 DEF AppFini, QueueCommand
  <2>2. Listed(acts) /\ acts[1] = Act("fini", Root)
    <3>1. /\ Listed(<<Act("fini", Root)>>) /\ Len(<<Act("fini", Root)>>) = 1
          /\ Listed(<<Act("loop", Root)>>) /\ Len(<<Act("loop", Root)>>) = 1
      BY TuplesListed
    <3>2. /\ Listed(acts)
          /\ \A k \in 1 .. 1 : acts[k] = <<Act("fini", Root)>>[k]
      BY <3>1, ListedConcat
    <3> HIDE DEF acts
    <3> QED
      BY <3>2
  <2> HIDE DEF acts
  <2>3. acts[1].at \notin {"undo", "redo"}
    BY <1>5, <2>2
  <2> QED
    BY <1>4, <2>1, <2>2, <2>3
<1>9. CASE AppWait \/ AppFlush
  <2>1. PICK a : Push(Owner, <<a>>) /\ a.at \notin {"undo", "redo"}
    BY <1>5, <1>9 DEF AppWait, AppFlush
  <2>2. <<a>>[1].at \notin {"undo", "redo"} /\ Listed(<<a>>)
    BY <1>6, <2>1
  <2> QED
    BY <1>4, <2>1, <2>2
<1>10. CASE AppRemove \/ AppUpdate
  <2>0. PICK c \in {"remove", "update"} : \E d : Push(Owner, <<Act(c, Root), Act(d, Root)>>)
    BY <1>10 DEF AppRemove, AppUpdate
  <2>1. PICK a, b : Push(Owner, <<a, b>>) /\ a.at \notin {"undo", "redo"}
    BY <1>5, <2>0
  <2>2. <<a, b>>[1].at \notin {"undo", "redo"} /\ Listed(<<a, b>>)
    BY <1>6, <2>1
  <2> QED
    BY <1>4, <2>1, <2>2
<1> QED
  BY <1>3, <1>7, <1>8, <1>9, <1>10 DEF AppStep

\* queueCommand stays within the bound; only moveCommandIndex may go beyond it by one.
Counted == Count <= MaxInstances + 1 /\ (Prompted => Count <= MaxInstances)

LEMMA CountedStep ==
  ASSUME IInv, IInv', OInv, Counted, [Next]_vars
  PROVE  Counted'
<1>0. /\ StackShape /\ OwnerActs /\ Recorded /\ Basics /\ Basics' /\ Kept
      /\ Owner \in Threads /\ Worker \in Threads /\ Owner # Worker
      /\ Count \in Nat /\ Count' \in Nat /\ Ids = 1 .. Count /\ Ids' = 1 .. Count'
      /\ MaxInstances \in Nat
  <2>1. /\ StackShape /\ OwnerActs /\ Recorded /\ Basics /\ Basics'
    BY BasicsHold, BasicsNext DEF IInv, Shape, OInv
  <2> QED
    BY <2>1, EveryStepKind, KeptStep, ConstantsAssumption DEF Basics, Threads
<1>1. ASSUME Follows(instances', instances) PROVE Count' = Count
  <2>1. Ids' = Ids
    BY <1>0, <1>1, TableKept
  <2> QED
    BY <1>0, <2>1
<1>2. ASSUME NEW t \in Threads, t = Owner \/ Owning(t) # {}, NEW kind, NEW class, NEW rest,
             QueueCommand(t, kind, class, NoSelection, rest)
      PROVE  Count' <= MaxInstances
  <2>1. Count + 1 <= MaxInstances
    BY <1>2 DEF QueueCommand, Count
  <2>2. Count' = Count + 1
    BY <1>2, QueueCommandEffect DEF Enqueued
  <2> QED
    BY <2>1, <2>2
<1>3. ASSUME NEW t \in Threads, ThreadStep(t) PROVE Count' = Count \/ Count' <= MaxInstances
  <2>1. CASE TakeCommand(t)
    BY <1>0, <1>1, <2>1, TakeCommandEffect
  <2>2. CASE TakeUndoRedo(t)
    BY <1>0, <1>1, <2>2, TakeUndoRedoEffect
  <2>3. CASE ExecQueue(t) \/ ExecBatch(t)
    <3>1. \E kind, class : QueueCommand(t, kind, class, NoSelection, <<>>)
      BY <2>3 DEF ExecQueue, ExecBatch
    <3>2. At(t, "exec")
      BY <2>3 DEF ExecQueue, ExecBatch, Executing
    <3> QED
      BY <1>2, <3>1, <3>2, ExecutingFrame
  <2>4. CASE ExecWrite(t) \/ Execute(t)
    BY <1>0, <1>1, <2>4, ExecWriteKind, ExecuteKind DEF Neutral, SameTables
  <2>5. CASE PopFrame(t)
    <3>1. \A n \in 1 .. Depth : Groups(n) # <<>>
      BY DEF OInv, Placed, Grouped
    <3> QED
      BY <1>0, <1>1, <2>5, <3>1, PopFrameEffect
  <2>6. CASE Rollback(t)
    BY <1>0, <1>1, <2>6, RollbackKind DEF Finishing, SameTables
  <2>7. CASE \/ LoopEnds(t) \/ ExecWait(t) \/ SpinProcess(t) \/ WaitProcess(t) \/ WaitNext(t)
             \/ WaitStart(t) \/ Flush(t)
    BY <2>7 DEF LoopEnds, ExecWait, SpinProcess, WaitProcess, WaitNext, WaitStart, Flush, Count
  <2> QED
    BY <1>3, <2>1, <2>2, <2>3, <2>4, <2>5, <2>6, <2>7 DEF ThreadStep
<1>4. ASSUME SameCalls, Count' = Count \/ Count' <= MaxInstances PROVE Counted'
  BY <1>0, <1>4 DEF Counted, SameCalls, Prompted, Calls
<1>5. ASSUME UNCHANGED instances, Prompted' => Prompted \/ MayMove PROVE Counted'
  BY <1>0, <1>5 DEF Counted, MayMove, Count
<1>6. ASSUME NEW target, MoveCommandIndex(target), Count <= MaxInstances,
             stack[Owner] = <<>> \/ At(Owner, "undo") \/ At(Owner, "redo")
      PROVE  Counted'
  <2> DEFINE acts == <<Act("move", Root), Act("waitStart", Len(instances) + 1), Act("loop", Root)>>
  <2>1. Above(Owner, 0, acts)
    BY <1>0, <1>6, MoveCommandIndexKind
  <2>2. Len(acts) > 0 /\ acts[1] = Act("move", Root)
    OBVIOUS
  <2> HIDE DEF acts
  <2>3. ~Prompted'
    BY <2>1, <2>2, FirstCall, ActFields DEF Prompted
  <2>4. Count' = Count + 1
    BY <1>6, MoveCommandIndexEffect DEF Enqueued
  <2> QED
    BY <1>0, <1>6, <2>3, <2>4 DEF Counted
<1>7. CASE OwnerStep
  <2>1. CASE ThreadStep(Owner)
    BY <1>0, <1>3, <1>4, <2>1, ThreadInner, InnerKeepsCalls
  <2>2. CASE UndoCall \/ RedoCall
    <3>1. Prompted
      BY <1>0, <2>2, TopCall DEF UndoCall, RedoCall, Calls, Prompted
    <3> QED
      BY <1>6, <2>2, <3>1 DEF UndoCall, RedoCall, Counted
  <2>3. CASE UndoEntry \/ RedoEntry
    <3>1. UNCHANGED <<stack, instances>>
      BY <2>3 DEF UndoEntry, RedoEntry
    <3> QED
      BY <1>5, <3>1 DEF Prompted, Calling
  <2>4. CASE UndoRedoDone \/ UndoRedoFails
    <3>1. InnerMove(Owner)
      BY <2>4 DEF UndoRedoDone, UndoRedoFails, InnerMove, Calls, Waiting, At
    <3> QED
      BY <1>0, <1>1, <1>4, <2>4, <3>1, InnerKeepsCalls, UndoRedoKind DEF Finishing, SameTables
  <2>5. CASE MoveDone \/ RemoveCall \/ UpdateDone \/ FiniJoin
    <3>1. PICK c \in Calls : At(Owner, c) /\ Pop(Owner)
      BY <2>5 DEF MoveDone, RemoveCall, UpdateDone, FiniJoin, Calls
    <3>2. ~Prompted'
      BY <1>0, <3>1, TopCall DEF Prompted
    <3>3. UNCHANGED instances
      BY <2>5 DEF MoveDone, RemoveCall, UpdateDone, FiniJoin, CallVars
    <3> QED
      BY <1>5, <3>2, <3>3
  <2>6. CASE FiniExit
    <3>1. At(Owner, "fini") /\ "fini" \in Calls /\ ReplaceTop(Owner, <<Act("join", Root)>>)
          /\ UNCHANGED instances
      BY <2>6 DEF FiniExit, Calls
    <3>2. Above(Owner, 0, <<Act("join", Root)>>)
      BY <1>0, <3>1, InnerActs, OuterCalls DEF At
    <3>3. Len(<<Act("join", Root)>>) > 0 /\ <<Act("join", Root)>>[1].at = "join"
      BY ActFields
    <3>4. ~Prompted'
      BY <3>2, <3>3, FirstCall DEF Prompted
    <3> QED
      BY <1>5, <3>1, <3>4
  <2> QED
    BY <1>7, <2>1, <2>2, <2>3, <2>4, <2>5, <2>6 DEF OwnerStep
<1>8. CASE WorkerStep
  <2>1. CASE ThreadStep(Worker)
    BY <1>0, <1>3, <1>4, <2>1, ThreadInner, InnerKeepsCalls
  <2>2. CASE WorkerTurn \/ WorkerWoken
    <3>1. /\ UNCHANGED instances
          /\ UNCHANGED stack \/ Push(Worker, <<Act("loop", Root)>>)
      BY <2>2 DEF WorkerTurn, WorkerWoken
    <3>2. Inner(<<Act("loop", Root)>>)
      BY InnerActs, ActsInner DEF Calls
    <3>3. InnerMove(Worker)
      BY <3>1, <3>2 DEF InnerMove
    <3> QED
      BY <1>0, <1>4, <3>1, <3>3, InnerKeepsCalls DEF Count
  <2> QED
    BY <1>8, <2>1, <2>2 DEF WorkerStep
<1>9. CASE AppStep
  <2>1. CASE AppMove
    BY <1>0, <1>6, <2>1 DEF AppMove, MayMove, Idle, Count
  <2>2. CASE AppQueue \/ AppBatch \/ AppFini
    <3>1. Count' <= MaxInstances
      BY <1>0, <1>2, <2>2 DEF AppQueue, AppBatch, AppFini
    <3> QED
      BY <1>0, <3>1 DEF Counted
  <2>3. CASE ~AppMove /\ UNCHANGED instances
    BY <1>5, <1>9, <2>3, AppBegins
  <2> QED
    BY <1>9, <2>1, <2>2, <2>3 DEF AppStep, AppWait, AppUndo, AppRedo, AppRemove, AppFlush, AppUpdate
<1>10. CASE UNCHANGED vars
  <2>1. UNCHANGED <<stack, instances>>
    BY <1>10 DEF vars
  <2> QED
    BY <1>5, <2>1 DEF Prompted, Calling
<1> QED
  BY <1>7, <1>8, <1>9, <1>10 DEF Next

-----------------------------------------------------------------------------
(* The types of the documents *)

\* The values are ids, or the initial 0.
Values == 0 .. Count
InstanceDocumented(r) == r.own \in Lists(Values) /\ r.data \in DataOf(Values)
Documented == document \in Docs(Values) /\ \A i \in Ids : InstanceDocumented(instances[i])

\* What setValue and a roll back leave.
LEMMA WritePropsTyped ==
  ASSUME Basics, Recorded, Documented, NEW t, NEW written \in SUBSET Props, NEW new \in Docs(Values)
  PROVE  LET table == WriteProps(t, instances, written, document, new)
         IN /\ \A j \in Ids : table[j].own \in Lists(Values) /\ table[j].data \in DataOf(Values)
            /\ Table(table)
<1> DEFINE table == WriteProps(t, instances, written, document, new)
<1>1. \A j \in Ids : /\ table[j].data = instances[j].data
                     /\ table[j].own = IF j \in Listening(t)
                                         THEN RecordWrites(instances[j].own, written, document, new)
                                         ELSE instances[j].own
  BY WritePropsValues
<1>2. \A j \in Ids : RecordWrites(instances[j].own, written, document, new) \in Lists(Values)
  <2> SUFFICES ASSUME NEW j \in Ids
               PROVE  RecordWrites(instances[j].own, written, document, new) \in Lists(Values)
    OBVIOUS
  <2>1. instances[j].own \in Lists(Values) /\ document \in Docs(Values)
    BY DEF Documented, InstanceDocumented
  <2> QED
    BY <2>1, RecordTyped
<1>3. Table(table)
  BY WritePropsFollows DEF Follows
<1> HIDE DEF table
<1> QED
  BY <1>1, <1>2, <1>3 DEF Documented, InstanceDocumented, table

LEMMA ExecWriteDocumented ==
  ASSUME IInv, Recorded, Documented, NEW t \in Threads, ExecWrite(t)
  PROVE  /\ document' \in Docs(Values)
         /\ \A i \in Ids : InstanceDocumented(instances'[i])
<1>1. Basics /\ Ids = 1 .. Count /\ Count \in Nat
  BY BasicsHold DEF Basics
<1>2. PICK i : i = Top(t).inst
  OBVIOUS
<1>3. PICK p \in Props :
        /\ document' = [document EXCEPT ![p] = i]
        /\ instances' = [WriteProps(t, instances, {p}, document, [document EXCEPT ![p] = i])
                           EXCEPT ![i].wrote = TRUE]
  BY <1>2 DEF ExecWrite
<1>4. i \in Values
  <2>1. Len(stack[t]) \in Owning(t) /\ i = stack[t][Len(stack[t])].inst
    BY <1>2, ExecutingFrame DEF ExecWrite, Executing
  <2>2. \E n \in 2 .. Depth : Inst(n) = i
    BY <2>1 DEF IInv, Owned, Depth, Inst
  <2> QED
    BY <1>1, <2>2 DEF Basics, Values
<1>5. document' \in Docs(Values)
  BY <1>3, <1>4 DEF Documented, Docs
<1>6. PICK table : table = WriteProps(t, instances, {p}, document, document')
  OBVIOUS
<1>7. {p} \in SUBSET Props
  OBVIOUS
<1>8. Table(table) /\ \A j \in Ids : table[j].own \in Lists(Values) /\ table[j].data \in DataOf(Values)
  BY <1>1, <1>5, <1>6, <1>7, WritePropsTyped
<1>9. instances' = SetWrote(table, i, TRUE)
  BY <1>3, <1>6 DEF SetWrote
<1>10. \A j \in Ids : instances'[j].own = table[j].own /\ instances'[j].data = table[j].data
  <2>1. Ids = DOMAIN table
    BY <1>8 DEF Table, SameIds, Ids
  <2>2. \A j \in DOMAIN table : /\ SetWrote(table, i, TRUE)[j].own = table[j].own
                                /\ SetWrote(table, i, TRUE)[j].data = table[j].data
    BY DEF SetWrote
  <2> QED
    BY <1>9, <2>1, <2>2
<1>11. ASSUME NEW j \in Ids PROVE InstanceDocumented(instances'[j])
  BY <1>8, <1>10 DEF InstanceDocumented
<1> QED
  BY <1>5, <1>11

LEMMA ExecuteDocumented ==
  ASSUME IInv, Recorded, Documented, NEW t \in Threads, Execute(t)
  PROVE  \A i \in Ids : InstanceDocumented(instances'[i])
<1>1. PICK i : i = Top(t).inst
  OBVIOUS
<1>2. PICK entry : entry = [mergeable |-> ~instances[i].class.custom, helpers |-> instances[i].own]
  OBVIOUS
<1>3. PICK e : instances' = [instances EXCEPT ![i].error = e, ![i].data = Append(@, entry)]
  BY <1>1, <1>2 DEF Execute
<1>4. Table(instances) /\ Ids = DOMAIN instances
  BY InstancesTable DEF Ids
<1> SUFFICES ASSUME NEW j \in Ids PROVE InstanceDocumented(instances'[j])
  OBVIOUS
<1>5. CASE j # i
  <2>1. instances'[j] = instances[j]
    BY <1>3, <1>4, <1>5
  <2> QED
    BY <2>1 DEF Documented
<1>6. CASE j = i
  <2>1. instances'[j] = [instances[j] EXCEPT !.error = e, !.data = Append(@, entry)]
    BY <1>3, <1>4, <1>6
  <2>2. InstanceRecord(instances[j])
    BY DEF Recorded
  <2>3. instances'[j].own = instances[j].own /\ instances'[j].data = Append(instances[j].data, entry)
    BY <2>1, <2>2 DEF InstanceRecord
  <2>4. instances[j].own \in Lists(Values) /\ instances[j].data \in DataOf(Values)
    BY DEF Documented, InstanceDocumented
  <2>5. entry \in DataEntry(Values)
    <3>1. (~instances[i].class.custom) \in BOOLEAN
      OBVIOUS
    <3> QED
      BY <1>2, <1>6, <2>4, <3>1 DEF DataEntry
  <2>6. Append(instances[j].data, entry) \in DataOf(Values)
    BY <2>4, <2>5 DEF DataOf
  <2> QED
    BY <2>3, <2>4, <2>6 DEF InstanceDocumented
<1> QED
  BY <1>5, <1>6

\* What popFrame makes of the instance done, exactly.
PopOutcome(t, i, closes, done, parent) ==
  LET table == IF closes THEN SetError(instances, done, instances[i].error) ELSE instances
  IN \/ instances[i].kind = "begin" /\ Pop(t) /\ UNCHANGED <<instances, pendingHistory>>
     \/ /\ instances[i].kind # "begin" /\ Succeeded(table, done)
        /\ instances' = SetStatus(HandToParent(table, done, parent), done, "Complete")
        /\ pendingHistory' = IF parent = Root /\ table[done].class.canUndo
                               THEN Append(pendingHistory, done) ELSE pendingHistory
        /\ Pop(t)
     \/ /\ instances[i].kind # "begin" /\ ~Succeeded(table, done) /\ ~table[done].class.canUndo
        /\ instances' = SetStatus(table, done, "Complete") /\ Pop(t) /\ UNCHANGED pendingHistory
     \/ /\ instances[i].kind # "begin" /\ ~Succeeded(table, done) /\ table[done].class.canUndo
        /\ instances' = table /\ ReplaceTop(t, <<Act("rollback", done)>>) /\ UNCHANGED pendingHistory

PopDone(t, L, closes, done) ==
  /\ Popped(L, closes) /\ L \in 2 .. Depth /\ Inst(L) = Top(t).inst /\ Queue(L) = <<>>
  /\ closes <=> Closing(Inst(L)) /\ Last(Groups(L - 1)) # Root
  /\ done = IF closes THEN Last(Groups(L - 1)) ELSE Inst(L)
  /\ done \in Ids
  /\ PopOutcome(t, Inst(L), closes, done, Last(Groups(L - 1)'))

LEMMA PopFrameExact ==
  ASSUME IInv, Grouped, NEW t \in Threads, PopFrame(t)
  PROVE  \E L \in Nat : \E closes \in BOOLEAN : \E done \in Ids : PopDone(t, L, closes, done)
<1>0. Basics /\ \A n \in 1 .. Depth : Groups(n) # <<>>
  BY BasicsHold DEF Grouped
<1> DEFINE i == Top(t).inst
<1>1. PICK L : L = Depth
  OBVIOUS
<1>2. Inst(L) = i /\ Queue(L) = <<>> /\ L > 1 /\ L \in Nat
  BY <1>1, PopReached DEF PopFrame
<1>3. /\ commandFrames \in Seq(FrameRecord) /\ L = Len(commandFrames)
  BY <1>1 DEF IInv, Shape, Depth
<1>4. Last(Front(commandFrames)) = commandFrames[L - 1]
  <2>1. PICK new : new = FramesBelow(commandFrames, FALSE)
    OBVIOUS
  <2> QED
    BY <1>2, <1>3, <2>1, FrontFrames
<1>5. PICK group : group = Last(Groups(L - 1))
  OBVIOUS
<1>6. PICK closes \in BOOLEAN : closes <=> instances[i].kind \in {"end", "abort"} /\ group # Root
  OBVIOUS
<1>7. PICK done : done = IF closes THEN group ELSE i
  OBVIOUS
<1>8. PICK table : table = IF closes THEN SetError(instances, done, instances[i].error) ELSE instances
  OBVIOUS
<1>9. PICK parent : parent = Last(Last(commandFrames').commandStack)
  OBVIOUS
<1>10. /\ commandFrames' = FramesBelow(commandFrames, closes)
       /\ CASE instances[i].kind = "begin" -> Pop(t) /\ UNCHANGED <<instances, pendingHistory>>
            [] instances[i].kind # "begin" /\ Succeeded(table, done) ->
                 /\ instances' = SetStatus(HandToParent(table, done, parent), done, "Complete")
                 /\ pendingHistory' = IF parent = Root /\ table[done].class.canUndo
                                        THEN Append(pendingHistory, done) ELSE pendingHistory
                 /\ Pop(t)
            [] instances[i].kind # "begin" /\ ~Succeeded(table, done) /\ ~table[done].class.canUndo ->
                 /\ instances' = SetStatus(table, done, "Complete")
                 /\ Pop(t)
                 /\ UNCHANGED pendingHistory
            [] instances[i].kind # "begin" /\ ~Succeeded(table, done) /\ table[done].class.canUndo ->
                 /\ instances' = table
                 /\ ReplaceTop(t, <<Act("rollback", done)>>)
                 /\ UNCHANGED pendingHistory
  BY <1>4, <1>5, <1>6, <1>7, <1>8, <1>9
     DEF PopFrame, SetStatus, SetError, Groups, FramesBelow
<1>11. closes => commandFrames[L - 1].commandStack # <<>>
  <2>1. L - 1 \in 1 .. Depth
    BY <1>1, <1>2
  <2> QED
    BY <1>0, <2>1 DEF Groups
<1>12. /\ Len(commandFrames') = L - 1 /\ Last(commandFrames') = commandFrames'[L - 1]
       /\ \A n \in 1 .. L - 1 : /\ commandFrames'[n].instance = commandFrames[n].instance
                                /\ commandFrames'[n].commandQueue = commandFrames[n].commandQueue
                                /\ commandFrames'[n].stackQueue = commandFrames[n].stackQueue
                                /\ n # L - 1 =>
                                     commandFrames'[n].commandStack = commandFrames[n].commandStack
       /\ IF closes THEN /\ Len(commandFrames[L - 1].commandStack) > 0
                         /\ Shortened(commandFrames'[L - 1].commandStack,
                                      commandFrames[L - 1].commandStack)
                    ELSE commandFrames'[L - 1].commandStack = commandFrames[L - 1].commandStack
  BY <1>2, <1>3, <1>10, <1>11, FrontFrames
<1>13. Popped(L, closes)
  BY <1>1, <1>2, <1>12 DEF Popped, Depth, Inst, Queue, Groups, Open
<1>14. parent = Last(Groups(L - 1)')
  BY <1>9, <1>12 DEF Groups
<1> HIDE DEF i
<1>15. PopOutcome(t, i, closes, done, parent)
  BY <1>8, <1>10 DEF PopOutcome
<1>16. L \in 2 .. Depth
  BY <1>1, <1>2
<1>17. done \in Ids
  BY <1>0, <1>5, <1>6, <1>7, <1>2, <1>16, DoneTyped
<1>18. PopDone(t, L, closes, done)
  BY <1>2, <1>5, <1>6, <1>7, <1>13, <1>14, <1>15, <1>16, <1>17 DEF PopDone, Closing, i
<1> QED
  BY <1>2, <1>17, <1>18

LEMMA PopFrameDocumented ==
  ASSUME IInv, Recorded, Grouped, Documented, NEW t \in Threads, PopFrame(t)
  PROVE  \A i \in Ids : InstanceDocumented(instances'[i])
<1> DEFINE Typed(table) == Table(table) /\ \A j \in Ids : InstanceDocumented(table[j])
<1>1. Typed(instances) /\ Ids = DOMAIN instances
  BY InstancesTable DEF Documented, Ids
<1>2. ASSUME NEW table, Typed(table), NEW new, NEW i, NEW x,
             new = SetStatus(table, i, x) \/ new = SetError(table, i, x)
      PROVE  Typed(new)
  <2>1. Table(new)
    BY <1>2, StatusUpdate, ErrorUpdate DEF Follows
  <2>2. \A j \in Ids : SameValues(new[j], table[j])
    BY <1>2, OtherFields DEF Table, SameIds, Ids
  <2> QED
    BY <1>2, <2>1, <2>2 DEF SameValues, InstanceDocumented
<1>3. ASSUME NEW table, Typed(table), NEW i \in Ids, NEW parent
      PROVE  Typed(HandToParent(table, i, parent))
  <2>1. PICK new : new = HandToParent(table, i, parent)
    OBVIOUS
  <2>2. Table(new)
    BY <1>3, <2>1, HandToParentFollows DEF Fine, Follows
  <2>3. \/ \A j \in Ids : SameValues(new[j], table[j])
        \/ Handed(new, table, i, parent)
    BY <1>3, <2>1, HandToParentValues
  <2>4. CASE \A j \in Ids : SameValues(new[j], table[j])
    BY <1>3, <2>1, <2>2, <2>4 DEF SameValues, InstanceDocumented
  <2>5. CASE Handed(new, table, i, parent)
    <3> SUFFICES ASSUME NEW j \in Ids PROVE InstanceDocumented(new[j])
      BY <2>1, <2>2
    <3>1. /\ new[j].own = table[j].own
          /\ new[j].data = IF j = i THEN <<>>
                           ELSE IF j = parent THEN Consolidate(table[j].data, table[i].data)
                           ELSE table[j].data
      BY <2>5 DEF Handed
    <3>2. table[j].own \in Lists(Values) /\ table[j].data \in DataOf(Values)
      BY <1>3 DEF InstanceDocumented
    <3>3. <<>> \in DataOf(Values)
      BY ListTypes
    <3>4. table[i].data \in DataOf(Values)
      BY <1>3 DEF InstanceDocumented
    <3>5. Consolidate(table[j].data, table[i].data) \in DataOf(Values)
      BY <3>2, <3>4, ConsolidateUndo
    <3> QED
      BY <3>1, <3>2, <3>3, <3>5 DEF InstanceDocumented
  <2> QED
    BY <2>3, <2>4, <2>5
<1>4. PICK done \in Ids : \E i, closes, parent : PopOutcome(t, i, closes, done, parent)
  BY PopFrameExact DEF PopDone
<1>a. PICK i, closes, parent : PopOutcome(t, i, closes, done, parent)
  BY <1>4
<1>5. PICK table : table = IF closes THEN SetError(instances, done, instances[i].error) ELSE instances
  OBVIOUS
<1>6. Typed(table)
  BY <1>1, <1>2, <1>5
<1>7. PICK handed : handed = HandToParent(table, done, parent)
  OBVIOUS
<1>8. Typed(handed)
  BY <1>3, <1>6, <1>7
<1>9. \/ UNCHANGED instances \/ instances' = SetStatus(handed, done, "Complete")
      \/ instances' = SetStatus(table, done, "Complete") \/ instances' = table
  BY <1>a, <1>5, <1>7 DEF PopOutcome
<1> HIDE DEF Typed
<1>10. Typed(instances')
  BY <1>1, <1>2, <1>6, <1>8, <1>9
<1> QED
  BY <1>10 DEF Typed

LEMMA RollbackDocumented ==
  ASSUME IInv, Recorded, Documented, NEW t \in Threads, Rollback(t), Top(t).inst \in Ids
  PROVE  /\ document' \in Docs(Values)
         /\ \A i \in Ids : InstanceDocumented(instances'[i])
<1>1. PICK i \in Ids : i = Top(t).inst
  OBVIOUS
<1>2. PICK data \in Undoable(instances[i].data) :
        /\ document' = Undo(data, document)
        /\ instances' = SetStatus(WriteProps(t, instances, Written(data), document, document'),
                                  i, "Complete")
  BY <1>1 DEF Rollback, SetStatus
<1>3. PICK table : table = WriteProps(t, instances, Written(data), document, document')
  OBVIOUS
<1>4. document' = Undo(data, document) /\ instances' = SetStatus(table, i, "Complete")
  BY <1>2, <1>3
<1>5. data \in DataOf(Values) /\ document \in Docs(Values)
  <2>1. instances[i].data \in DataOf(Values) /\ document \in Docs(Values)
    BY DEF Documented, InstanceDocumented
  <2> QED
    BY <1>2, <2>1, StoppedTyped
<1>6. document' \in Docs(Values) /\ Written(data) \in SUBSET Props
  BY <1>4, <1>5, UndoTyped, WrittenProps
<1>7. Table(table) /\ \A j \in Ids : table[j].own \in Lists(Values) /\ table[j].data \in DataOf(Values)
  BY <1>3, <1>6, BasicsHold, WritePropsTyped
<1>8. \A j \in Ids : SameValues(instances'[j], table[j])
  BY <1>4, <1>7, OtherFields DEF Table, SameIds, Ids
<1> QED
  BY <1>6, <1>7, <1>8 DEF SameValues, InstanceDocumented

\* Where undoRedo stands when it undoes or redoes an entry.
LEMMA EntryIndex ==
  ASSUME IInv, OInv, Entered, Selected, UndoEntry \/ RedoEntry \/ UndoRedoFails
  PROVE  /\ previousSelectedIndex > currentIndex =>
              previousSelectedIndex + 1 \in 1 .. Len(history)
         /\ previousSelectedIndex < currentIndex =>
              previousSelectedIndex + 2 \in 1 .. Len(history)
<1>0. PICK i : i = Top(Owner).inst
  OBVIOUS
<1>1. StackShape /\ Owner \in Threads
  BY DEF IInv, Shape, Threads
<1>2. At(Owner, "undoRedo") /\ ~UndoRedoEnds(i)
  BY <1>0 DEF UndoEntry, RedoEntry, UndoRedoFails
<1>3. Job(i)
  <2>1. Does(Owner, Len(stack[Owner]), "undoRedo", i)
    BY <1>0, <1>1, <1>2, TopDoes
  <2>2. i \in Ids /\ instances[i].status = "Running" /\ instances[i].kind = "undoRedo"
    BY <1>1, <2>1 DEF OInv, Ordered, Statuses, Holding
  <2> QED
    BY <2>2 DEF Job, Complete
<1>4. /\ previousSelectedIndex # currentIndex /\ currentIndex = instances[i].target
      /\ ~(instances[i].target >= Len(history))
  BY <1>2, <1>3 DEF Selected, UndoRedoEnds
<1>5. /\ previousSelectedIndex \in NoSelection .. Len(history) - 1
      /\ currentIndex \in Int /\ currentIndex >= NoSelection /\ Len(history) \in Nat
      /\ currentIndex < Len(history)
  BY <1>4 DEF Selected, Entered
<1> QED
  BY <1>5 DEF UndoEntry, RedoEntry, NoSelection

LEMMA DocumentedStep ==
  ASSUME IInv, IInv', OInv, Entered, Selected, Documented, [Next]_vars
  PROVE  Documented'
<1>1. /\ Recorded /\ Grouped /\ Basics /\ Basics' /\ Kept /\ Ids = 1 .. Count /\ Count \in Nat
      /\ Ids' = 1 .. Count' /\ Count' \in Nat
  <2>1. Recorded /\ Basics /\ Basics' /\ StepKind /\ Grouped
    BY BasicsHold, BasicsNext, EveryStepKind DEF OInv, Placed
  <2> QED
    BY <2>1, KeptStep DEF Basics
<1>2. ASSUME Ids' = Ids, document' \in Docs(Values),
             \A j \in Ids : InstanceDocumented(instances'[j])
      PROVE  Documented'
  <2>1. Count' = Count
    BY <1>1, <1>2
  <2>2. Values' = Values
    BY <2>1 DEF Values
  <2> QED
    BY <1>2, <2>2 DEF Documented, InstanceDocumented
<1>3. CASE SameDocuments
  <2>1. Values \subseteq Values'
    BY <1>1, <1>3 DEF Values, SameDocuments
  <2>2. /\ Docs(Values) \subseteq Docs(Values') /\ Lists(Values) \subseteq Lists(Values')
        /\ DataOf(Values) \subseteq DataOf(Values')
    BY <2>1, ListTypes
  <2>3. NoHelpers \in Lists(Values') /\ <<>> \in DataOf(Values')
    BY ListTypes
  <2>4. ASSUME NEW j \in Ids' PROVE InstanceDocumented(instances[j])'
    <3>1. CASE j \in Ids
      <4>1. SameValues(instances'[j], instances[j])
        BY <1>3, <3>1 DEF SameDocuments
      <4>2. instances[j].own \in Lists(Values) /\ instances[j].data \in DataOf(Values)
        BY <3>1 DEF Documented, InstanceDocumented
      <4> QED
        BY <2>2, <4>1, <4>2 DEF SameValues, InstanceDocumented
    <3>2. CASE j \notin Ids
      <4>1. \E kind, class, target, home : instances'[j] = MakeCommand(kind, class, target, home)
        BY <1>3, <3>2 DEF SameDocuments
      <4>2. instances'[j].own = NoHelpers /\ instances'[j].data = <<>>
        BY <4>1 DEF MakeCommand
      <4> QED
        BY <2>3, <4>2 DEF InstanceDocumented
    <3> QED
      BY <3>1, <3>2
  <2>5. document' \in Docs(Values')
    BY <1>3, <2>2 DEF SameDocuments, Documented
  <2> QED
    BY <2>4, <2>5 DEF Documented
<1>4. ASSUME NEW t \in Threads, ExecWrite(t) PROVE Documented'
  <2>1. Ids' = Ids
    BY <1>1, <1>4, ExecWriteKind, TableKept DEF Neutral, SameTables
  <2> QED
    BY <1>1, <1>2, <1>4, <2>1, ExecWriteDocumented
<1>5. ASSUME NEW t \in Threads, Execute(t) PROVE Documented'
  <2>1. Ids' = Ids
    BY <1>1, <1>5, ExecuteKind, TableKept DEF Neutral, SameTables
  <2>2. document' = document
    BY <1>5 DEF Execute
  <2> QED
    BY <1>1, <1>2, <1>5, <2>1, <2>2, ExecuteDocumented DEF Documented
<1>6. ASSUME NEW t \in Threads, PopFrame(t) PROVE Documented'
  <2>1. PICK L, closes, done : Popping(L, closes, done)
    BY <1>6, PopFrameKind
  <2>2. Ids' = Ids
    BY <1>1, <2>1, TableKept DEF Popping, SameTables
  <2>3. document' = document
    BY <1>6 DEF PopFrame
  <2> QED
    BY <1>1, <1>2, <1>6, <2>2, <2>3, PopFrameDocumented DEF Documented
<1>7. ASSUME NEW t \in Threads, Rollback(t) PROVE Documented'
  <2>1. Ids' = Ids
    BY <1>1, <1>7, RollbackKind, TableKept DEF Finishing, SameTables
  <2>2. Top(t).inst \in Ids
    <3>1. StackShape /\ At(t, "rollback")
      BY <1>7 DEF Rollback, IInv, Shape
    <3>2. Does(t, Len(stack[t]), "rollback", Top(t).inst)
      BY <3>1, TopDoes
    <3> QED
      BY <3>2 DEF OInv, Ordered, Statuses, Holding
  <2> QED
    BY <1>1, <1>2, <1>7, <2>1, <2>2, RollbackDocumented
<1>8. CASE UndoEntry \/ RedoEntry
  <2>1. UNCHANGED instances
    BY <1>8 DEF UndoEntry, RedoEntry
  <2>2. \E k \in 1 .. Len(history) : \/ document' = Undo(instances[history[k]].data, document)
                                     \/ document' = Redo(instances[history[k]].data, document)
    BY <1>8, EntryIndex DEF UndoEntry, RedoEntry
  <2>3. PICK i \in Ids : \/ document' = Undo(instances[i].data, document)
                         \/ document' = Redo(instances[i].data, document)
    BY <2>2 DEF Entered
  <2>4. instances[i].data \in DataOf(Values) /\ document \in Docs(Values)
    BY DEF Documented, InstanceDocumented
  <2>5. document' \in Docs(Values)
    BY <2>3, <2>4, UndoTyped
  <2>6. Ids' = Ids /\ \A j \in Ids : InstanceDocumented(instances'[j])
    BY <2>1 DEF Ids, Documented
  <2> QED
    BY <1>2, <2>5, <2>6
<1>9. CASE UndoRedoFails
  <2>1. Ids' = Ids /\ \A j \in Ids : SameValues(instances'[j], instances[j])
    <3>1. PICK i : instances' = SetStatus(instances, i, "Complete")
      BY <1>9 DEF UndoRedoFails, SetStatus
    <3>2. Table(instances)
      BY <1>1, InstancesTable
    <3> QED
      BY <3>1, <3>2, OtherFields DEF SetStatus, Ids
  <2>2. \E k \in 1 .. Len(history) : \E part :
          \/ part \in StoppedUndo(instances[history[k]].data) /\ document' = Undo(part, document)
          \/ part \in StoppedRedo(instances[history[k]].data) /\ document' = Redo(part, document)
    BY <1>9, EntryIndex DEF UndoRedoFails
  <2>3. PICK i \in Ids : \E part :
          \/ part \in StoppedUndo(instances[i].data) /\ document' = Undo(part, document)
          \/ part \in StoppedRedo(instances[i].data) /\ document' = Redo(part, document)
    BY <2>2 DEF Entered
  <2>4. instances[i].data \in DataOf(Values) /\ document \in Docs(Values)
    BY DEF Documented, InstanceDocumented
  <2>5. PICK part \in DataOf(Values) :
          document' = Undo(part, document) \/ document' = Redo(part, document)
    BY <2>3, <2>4, StoppedTyped
  <2>6. document' \in Docs(Values)
    BY <2>4, <2>5, UndoTyped
  <2>7. ASSUME NEW j \in Ids PROVE InstanceDocumented(instances'[j])
    <3>1. instances[j].own \in Lists(Values) /\ instances[j].data \in DataOf(Values)
      BY DEF Documented, InstanceDocumented
    <3> QED
      BY <2>1, <3>1 DEF SameValues, InstanceDocumented
  <2> QED
    BY <1>2, <2>1, <2>6, <2>7
<1> QED
  BY <1>3, <1>4, <1>5, <1>6, <1>7, <1>8, <1>9, DocumentKind DEF Documenting

-----------------------------------------------------------------------------
(* The type of the state *)

Switched == /\ ownerWakeUp \in BOOLEAN /\ exiting \in BOOLEAN
            /\ worker \in {"running", "waiting", "woken", "exited"}

LEMMA SwitchedStep ==
  ASSUME Switched, [Next]_vars
  PROVE  Switched'
<1> USE DEF Switched, wakeVars, CallVars
<1>1. ASSUME NEW t, ThreadStep(t) PROVE Switched'
  <2>1. CASE LoopEnds(t)
    BY <2>1 DEF LoopEnds, NotifyWorker
  <2>2. CASE ~LoopEnds(t)
    BY <1>1, <2>2 DEF ThreadStep, TakeCommand, TakeUndoRedo, ExecWrite, ExecQueue, ExecBatch,
       ExecWait, Execute, SpinProcess, PopFrame, Rollback, WaitProcess, WaitNext, WaitStart, Flush
  <2> QED
    BY <2>1, <2>2
<1>2. CASE OwnerStep
  BY <1>1, <1>2 DEF OwnerStep, UndoCall, RedoCall, MoveCommandIndex, UndoEntry, RedoEntry,
     UndoRedoDone, UndoRedoFails, MoveDone, RemoveCall, UpdateDone, FiniExit, FiniJoin, NotifyWorker
<1>3. CASE WorkerStep
  BY <1>1, <1>3 DEF WorkerStep, WorkerTurn, WorkerWoken
<1>4. CASE AppStep
  BY <1>4 DEF AppStep, AppQueue, AppBatch, AppWait, AppUndo, AppRedo, AppMove, MoveCommandIndex,
     AppRemove, AppFlush, AppUpdate, AppFini
<1> QED
  BY <1>2, <1>3, <1>4 DEF Next, vars

TInv == ActsTyped /\ OpenIn /\ Counted /\ Documented /\ Switched

LEMMA StepTyped == IInv /\ OInv /\ IndexInv /\ TInv /\ [Next]_vars => TInv'
<1> SUFFICES ASSUME IInv, OInv, IndexInv, TInv, [Next]_vars PROVE TInv'
  OBVIOUS
<1>1. IInv' /\ Basics /\ Recorded /\ Entered /\ Selected
  BY StepPreserves, BasicsHold DEF OInv, IndexInv
<1>2. Basics' /\ StepKind
  BY <1>1, BasicsNext, EveryStepKind
<1>3. Kept
  BY <1>1, <1>2, KeptStep
<1>4. Count' \in Nat /\ Count <= Count'
  <2>1. Ids = 1 .. Count /\ Count \in Nat /\ Ids' = 1 .. Count' /\ Count' \in Nat
    BY <1>1, <1>2 DEF Basics
  <2>2. Ids \subseteq Ids'
    BY <1>3 DEF Kept
  <2> QED
    BY <2>1, <2>2
<1>5. ActsTyped'
  BY <1>4, ActsTypedStep DEF TInv
<1>6. OpenIn'
  BY <1>1, <1>2, <1>4, OpenInStep DEF TInv
<1>7. Counted'
  BY <1>1, CountedStep DEF TInv
<1>8. Documented'
  BY <1>1, DocumentedStep DEF TInv
<1>9. Switched'
  BY SwitchedStep DEF TInv
<1> QED
  BY <1>5, <1>6, <1>7, <1>8, <1>9 DEF TInv

\* What the type of the state rests on.
THEOREM TypeInvariance == Spec => [](IInv /\ OInv /\ IndexInv /\ TInv)
<1>1. Init => TInv
  <2> SUFFICES ASSUME Init PROVE TInv
    OBVIOUS
  <2>1. /\ instances = <<>> /\ Count = 0 /\ Ids = {} /\ commandFrames = <<MakeFrame(Root)>>
        /\ document = [p \in Props |-> 0] /\ \A t \in Threads : stack[t] = <<>>
    BY DEF Init, Count, Ids
  <2>2. ActsTyped /\ Switched
    <3>1. \A t \in Threads : DOMAIN stack[t] = {}
      BY <2>1
    <3>2. ActsTyped
      BY <3>1 DEF ActsTyped
    <3> QED
      BY <3>2 DEF Init, Switched
  <2>3. OpenIn
    <3>1. Depth = 1 /\ Open(1) = <<Root>>
      BY <2>1 DEF Depth, Open, MakeFrame
    <3>2. \A n \in 1 .. 1 : n = 1
      OBVIOUS
    <3>3. \A a \in 1 .. Len(<<Root>>) : <<Root>>[a] \in 0 .. Count
      BY <2>1 DEF Root
    <3> QED
      BY <3>1, <3>2, <3>3 DEF OpenIn
  <2>4. Counted
    <3>1. ~Prompted /\ Owner \in Threads
      BY <2>1 DEF Prompted, Calling, Threads
    <3> QED
      BY <2>1, <3>1, ConstantsAssumption DEF Counted
  <2>5. Documented
    BY <2>1 DEF Documented, Docs, Values
  <2> QED
    BY <2>2, <2>3, <2>4, <2>5 DEF TInv
<1>2. TInv /\ [Next]_vars /\ (IInv /\ OInv /\ IndexInv) => TInv'
  BY StepTyped
<1> QED
  BY <1>1, <1>2, IndexInvariance, PTL DEF Spec

\* Every state has the type TypeOK states.
THEOREM TypeOKHolds == Spec => []TypeOK
<1>1. IInv /\ OInv /\ IndexInv /\ TInv => TypeOK
  <2> SUFFICES ASSUME IInv, OInv, IndexInv, TInv PROVE TypeOK
    OBVIOUS
  <2>1. \A t \in Threads : \A k \in DOMAIN stack[t] :
          /\ stack[t][k].at \in Places
          /\ stack[t][k].inst \in 0 .. Count
          /\ stack[t][k].prev \in NoFrame .. Count
    BY DEF TInv, ActsTyped, ActTyped
  <2>2. commandFrames # <<>>
    BY DEF IInv, Shape
  <2>3. \A k \in DOMAIN commandFrames :
          /\ commandFrames[k].instance \in 0 .. Count
          /\ commandFrames[k].commandStack \in Seq(0 .. Count)
          /\ commandFrames[k].stackQueue \in Seq(0 .. Count)
          /\ commandFrames[k].commandQueue \in Seq(Ids)
    BY FramesTyped DEF OInv, Placed, TInv
  <2>4. Count <= MaxInstances + 1 /\ document \in [Props -> 0 .. Count]
    BY DEF TInv, Counted, Documented, Docs, Values
  <2>5. /\ history \in Seq(Ids) /\ pendingHistory \in Seq(Ids)
        /\ index \in NoSelection .. Len(history) - 1
        /\ previousSelectedIndex \in NoSelection .. Len(history) - 1
    BY DEF IndexInv, Entered, Selected
  <2>6. /\ ownerWakeUp \in BOOLEAN /\ exiting \in BOOLEAN
        /\ worker \in {"running", "waiting", "woken", "exited"}
    BY DEF TInv, Switched
  <2> QED
    BY <2>1, <2>2, <2>3, <2>4, <2>5, <2>6 DEF TypeOK, Count
<1> QED
  BY <1>1, TypeInvariance, PTL
-----------------------------------------------------------------------------
(* What the steps that change the document or the frames do, exactly *)

SameEntries == UNCHANGED <<history, pendingHistory, previousSelectedIndex, currentIndex>>
FramesSame == Depth' = Depth /\ \A n \in 1 .. Depth : Inst(n)' = Inst(n) /\ Groups(n)' = Groups(n)

\* No activation has come to do this.
NoNew(at) == \A t \in Threads : \A k, i : Does(t, k, at, i)' => Does(t, k, at, i)

\* Where the activations of a new state come from.
LEMMA AboveDoes ==
  ASSUME NEW t \in Threads, NEW n, NEW acts, Above(t, n, acts),
         NEW u \in Threads, NEW k, NEW at, NEW i, Does(u, k, at, i)'
  PROVE  \/ Does(u, k, at, i) /\ (u = t => k <= n)
         \/ u = t /\ \E m \in 1 .. Len(acts) : acts[m].at = at /\ acts[m].inst = i
<1>1. CASE u # t
  BY <1>1 DEF Above, Does
<1>2. CASE u = t
  <2>1. /\ k \in 1 .. n + Len(acts) /\ n \in Nat /\ n <= Len(stack[t]) /\ Len(acts) \in Nat
        /\ DOMAIN stack[t] = 1 .. Len(stack[t]) /\ Len(stack[t]) \in Nat
    BY <1>2 DEF Above, Does
  <2>2. CASE k <= n
    <3>1. k \in 1 .. n /\ k \in DOMAIN stack[t]
      BY <2>1, <2>2
    <3>2. stack'[t][k] = stack[t][k]
      BY <3>1 DEF Above
    <3>3. Does(u, k, at, i)
      BY <1>2, <3>1, <3>2 DEF Does
    <3> QED
      BY <2>2, <3>3
  <2>3. CASE ~(k <= n)
    <3>1. k - n \in 1 .. Len(acts) /\ n + (k - n) = k
      BY <2>1, <2>3
    <3>2. stack'[t][k] = acts[k - n]
      BY <3>1 DEF Above
    <3>3. acts[k - n].at = at /\ acts[k - n].inst = i
      BY <1>2, <3>2 DEF Does
    <3> QED
      BY <1>2, <3>1, <3>3
  <2> QED
    BY <2>2, <2>3
<1> QED
  BY <1>1, <1>2

\* The same when one activation comes.
LEMMA OneComes ==
  ASSUME NEW t \in Threads, NEW n, NEW a, Above(t, n, <<a>>),
         NEW u \in Threads, NEW k, NEW at, NEW i, Does(u, k, at, i)'
  PROVE  \/ Does(u, k, at, i) /\ (u = t => k <= n)
         \/ u = t /\ a.at = at /\ a.inst = i
<1>1. PICK acts : acts = <<a>>
  OBVIOUS
<1>2. Len(acts) = 1 /\ acts[1] = a
  BY <1>1
<1>3. Above(t, n, acts)
  BY <1>1
<1>4. \/ Does(u, k, at, i) /\ (u = t => k <= n)
      \/ u = t /\ \E m \in 1 .. Len(acts) : acts[m].at = at /\ acts[m].inst = i
  BY <1>3, AboveDoes
<1>5. 1 .. Len(acts) = {1}
  BY <1>2
<1> QED
  BY <1>2, <1>4, <1>5

\* The frames and their batches change only when a frame comes or goes, and only then is
\* something about to be rolled back.
LEMMA StepFrames ==
  ASSUME Basics, StepKind, Depth' = Depth
  PROVE  FramesSame /\ NoNew("rollback")
<1>0. Depth \in Nat /\ "rollback" \in Holding /\ "rollback" # "undoRedo"
  BY DEF Basics, FramesSized, Holding
<1>a. SameHeld => NoNew("rollback")
  BY <1>0 DEF SameHeld, NoNew
<1>1. CASE Neutral
  BY <1>1, <1>a DEF Neutral, FramesKept, FramesSame
<1>2. ASSUME NEW k, NEW kind, NEW class, NEW target, Queueing(k, kind, class, target)
      PROVE  FramesSame /\ NoNew("rollback")
  BY <1>2, <1>a DEF Queueing, Enqueued, FramesSame
<1>3. ASSUME NEW L, NEW i, Taking(L, i) PROVE FALSE
  BY <1>0, <1>3 DEF Taking, Taken, Dequeued
<1>4. ASSUME NEW t, NEW k, NEW L, NEW i, Starting(t, k, L, i)
      PROVE  FramesSame /\ NoNew("rollback")
  <2>1. FramesSame
    BY <1>4 DEF Starting, Dequeued, FramesSame
  <2>2. HeldGained(t, k, "undoRedo", i)
    BY <1>4 DEF Starting
  <2>3. NoNew("rollback")
    BY <1>0, <2>2 DEF HeldGained, NoNew
  <2> QED
    BY <2>1, <2>3
<1>5. ASSUME NEW L, NEW closes, NEW done, Popping(L, closes, done) PROVE FALSE
  BY <1>0, <1>5 DEF Popping, Popped
<1>6. ASSUME NEW t, NEW k, NEW at, NEW i, Finishing(t, k, at, i)
      PROVE  FramesSame /\ NoNew("rollback")
  BY <1>0, <1>6 DEF Finishing, FramesKept, FramesSame, HeldLost, NoNew
<1> QED
  BY <1>1, <1>2, <1>3, <1>4, <1>5, <1>6 DEF StepKind

\* A command gets its frame, and its parent a child.
TakeEffect(L, i) ==
  /\ Taken(L, i) /\ i \in Ids /\ SameDocuments /\ Ids' = Ids /\ SameEntries
  /\ LET parent == Last(Groups(L))
     IN \A j \in Ids : instances'[j].children =
          IF j = parent /\ parent # Root /\ ~Closing(i) THEN Append(instances[j].children, i)
          ELSE instances[j].children
  /\ \A t \in Threads : \A k, j : Does(t, k, "exec", j)' => Does(t, k, "exec", j) \/ j = i
  /\ NoNew("spin") /\ NoNew("rollback")

\* Taking a command.
LEMMA TakeExact ==
  ASSUME IInv, Recorded, NEW t \in Threads, TakeCommand(t)
  PROVE  \E L, i : TakeEffect(L, i)
<1>0. Basics /\ Table(instances) /\ Ids = DOMAIN instances /\ StackShape
  BY BasicsHold, InstancesTable DEF Ids, IInv, Shape
<1>1. PICK L, i \in Nat :
        /\ Taken(L, i) /\ i \in Ids /\ Follows(instances', instances)
        /\ Push(t, <<[Act("exec", i) EXCEPT !.prev = currentFrame[t]]>>)
  BY TakeCommandEffect
<1>2. SameDocuments /\ Ids' = Ids /\ SameEntries
  BY <1>0, <1>1, TakeCommandDocuments, TableKept DEF TakeCommand, SameEntries, historyVars
<1>3. PICK parent : parent = Last(Groups(L))
  OBVIOUS
<1>4. PICK table : table = SetStatus(instances, i, "Running")
  OBVIOUS
<1>5. /\ commandFrames \in Seq(FrameRecord) /\ commandFrames # <<>> /\ L = Depth
      /\ i = Queue(L)[1]
  BY <1>1 DEF IInv, Shape, Taken, Dequeued
<1>6. BackFrame = commandFrames[L]
  BY <1>5 DEF BackFrame, Last, Depth
<1>7. instances' = AddChild(table, parent, i)
  BY <1>3, <1>4, <1>5, <1>6 DEF TakeCommand, SetStatus, Queue, Groups
<1>8. Table(table) /\ \A j \in Ids : /\ table[j].children = instances[j].children
                                     /\ table[j].kind = instances[j].kind
  BY <1>0, <1>4, StatusUpdate DEF Follows, SameKind
<1>9. \A j \in Ids : instances'[j].children =
        IF j = parent /\ parent # Root /\ ~Closing(i) THEN Append(instances[j].children, i)
        ELSE instances[j].children
  <2>1. table[i].kind = instances[i].kind
    BY <1>1, <1>8
  <2>2. CASE parent = Root \/ Closing(i)
    BY <1>7, <1>8, <2>1, <2>2 DEF AddChild, Closing
  <2>3. CASE ~(parent = Root \/ Closing(i))
    <3>1. instances' = SetChildren(table, parent, Append(table[parent].children, i))
      BY <1>7, <2>1, <2>3 DEF AddChild, Closing, SetChildren
    <3>2. \A j \in Ids : InstanceRecord(table[j]) /\ j \in DOMAIN table
      BY <1>8 DEF Table, SameIds, Ids
    <3>3. \A j \in Ids : instances'[j] = IF j = parent
                           THEN [table[j] EXCEPT !.children = Append(table[parent].children, i)]
                           ELSE table[j]
      BY <3>1, <3>2 DEF SetChildren
    <3>4. \A j \in Ids : \A x : [table[j] EXCEPT !.children = x].children = x
      BY <3>2 DEF InstanceRecord
    <3>5. \A j \in Ids : instances'[j].children =
            IF j = parent THEN Append(table[j].children, i) ELSE table[j].children
      <4> SUFFICES ASSUME NEW j \in Ids
                   PROVE  instances'[j].children =
                            IF j = parent THEN Append(table[j].children, i) ELSE table[j].children
        OBVIOUS
      <4>1. PICK x : x = Append(table[parent].children, i)
        OBVIOUS
      <4>2. instances'[j] = IF j = parent THEN [table[j] EXCEPT !.children = x] ELSE table[j]
        BY <3>3, <4>1
      <4>3. [table[j] EXCEPT !.children = x].children = x
        BY <3>4
      <4> QED
        BY <4>1, <4>2, <4>3
    <3>6. parent # Root /\ ~Closing(i)
      BY <2>3
    <3>7. SUFFICES ASSUME NEW j \in Ids
                   PROVE  instances'[j].children =
                            IF j = parent THEN Append(instances[j].children, i)
                            ELSE instances[j].children
      BY <3>6
    <3>8. table[j].children = instances[j].children
      BY <1>8
    <3> QED
      BY <3>5, <3>8
  <2> QED
    BY <2>2, <2>3
<1>10. PICK a : a = [Act("exec", i) EXCEPT !.prev = currentFrame[t]]
  OBVIOUS
<1>11. a.at = "exec" /\ a.inst = i
  BY <1>10, ActFields
<1>12. Listed(<<a>>)
  BY TuplesListed
<1>13. Above(t, Len(stack[t]), <<a>>)
  BY <1>0, <1>1, <1>10, <1>12, PushAbove
<1>14. ASSUME NEW u \in Threads, NEW k, NEW at, NEW j, Does(u, k, at, j)'
       PROVE  Does(u, k, at, j) \/ (at = "exec" /\ j = i)
  BY <1>11, <1>13, <1>14, OneComes
<1>15. NoNew("spin") /\ NoNew("rollback")
  BY <1>14 DEF NoNew
<1> QED
  BY <1>1, <1>2, <1>3, <1>9, <1>14, <1>15 DEF TakeEffect

\* The command at the top of a thread has a frame.
LEMMA TopFrame ==
  ASSUME IInv, NEW t \in Threads, At(t, "exec") \/ At(t, "spin")
  PROVE  /\ Top(t).inst \in Ids /\ InFrame(Top(t).inst)
         /\ Len(stack[t]) \in Owning(t) /\ Top(t) = stack[t][Len(stack[t])]
         /\ Len(stack[t]) \in DOMAIN stack[t]
<1>1. Listed(stack[t]) /\ stack[t] # <<>> /\ Top(t).at \in {"exec", "spin"}
  BY DEF IInv, Shape, StackShape, At, Running
<1>2. Len(stack[t]) \in DOMAIN stack[t]
  BY <1>1 DEF Listed
<1>3. Top(t) = stack[t][Len(stack[t])]
  BY <1>1 DEF Top, Last
<1>4. Len(stack[t]) \in Owning(t)
  BY <1>1, <1>2, <1>3 DEF Owning
<1>5. \E n \in 2 .. Depth : Inst(n) = Top(t).inst
  BY <1>3, <1>4 DEF IInv, Owned, Depth, Inst
<1>6. Basics
  BY BasicsHold
<1>7. \A n \in 2 .. Depth : n \in 1 .. Depth /\ Inst(n) \in Ids
  BY <1>6 DEF Basics, FramesSized
<1> QED
  BY <1>2, <1>3, <1>4, <1>5, <1>7 DEF InFrame

\* The values of some properties change: the commands that listen on thread t record it.
Recording(t, written) ==
  /\ Ids' = Ids
  /\ \A j \in Ids :
       /\ instances'[j].data = instances[j].data /\ instances'[j].error = instances[j].error
       /\ instances'[j].children = instances[j].children
       /\ instances'[j].own = IF j \in Listening(t)
                                THEN RecordWrites(instances[j].own, written, document, document')
                                ELSE instances[j].own

\* What WriteProps records.
LEMMA RecordingHolds ==
  ASSUME IInv, Recorded, NEW t, NEW written, NEW i, NEW x, NEW table,
         table = WriteProps(t, instances, written, document, document'),
         instances' = SetWrote(table, i, x) \/ instances' = SetStatus(table, i, x)
  PROVE  Recording(t, written)
<1>1. Ids = DOMAIN instances /\ Basics
  BY BasicsHold DEF Ids
<1>2. Follows(table, instances) /\ SameProgress(table, instances) /\ Table(table)
  BY WritePropsFollows DEF Follows
<1>3. \A j \in Ids : /\ table[j].data = instances[j].data
                     /\ table[j].own = IF j \in Listening(t)
                                THEN RecordWrites(instances[j].own, written, document, document')
                                ELSE instances[j].own
  BY WritePropsValues
<1>4. /\ Follows(instances', table)
      /\ \A j \in Ids : /\ instances'[j].error = table[j].error
                        /\ instances'[j].children = table[j].children
  <2>1. CASE instances' = SetWrote(table, i, x)
    BY <1>2, <2>1, WroteUpdate
  <2>2. CASE instances' = SetStatus(table, i, x)
    BY <1>2, <2>2, StatusUpdate
  <2> QED
    BY <2>1, <2>2
<1>5. \A j \in Ids : instances'[j].own = table[j].own /\ instances'[j].data = table[j].data
  <2>1. Ids = DOMAIN table
    BY <1>2 DEF Table, SameIds, Ids
  <2> QED
    BY <2>1, OtherFields DEF SameValues
<1>6. Ids' = Ids
  BY <1>1, <1>2, <1>4, FollowsOn, TableKept
<1> QED
  BY <1>2, <1>3, <1>4, <1>5, <1>6 DEF Recording, SameProgress

\* A command sets a property.
WriteEffect(t, i) ==
  /\ At(t, "exec") /\ i = Top(t).inst /\ i \in Ids
  /\ instances[i].kind = "set" /\ instances[i].class.writes
  /\ UNCHANGED <<stack, commandFrames>> /\ SameEntries
  /\ \E p \in Props : document' = [document EXCEPT ![p] = i] /\ Recording(t, {p})

\* A command writes.
LEMMA WriteExact ==
  ASSUME IInv, Recorded, NEW t \in Threads, ExecWrite(t)
  PROVE  WriteEffect(t, Top(t).inst)
<1>2. PICK i : i = Top(t).inst
  OBVIOUS
<1>3. PICK p \in Props :
        /\ document' = [document EXCEPT ![p] = i]
        /\ instances' = [WriteProps(t, instances, {p}, document, [document EXCEPT ![p] = i])
                           EXCEPT ![i].wrote = TRUE]
  BY <1>2 DEF ExecWrite
<1>4. PICK table : table = WriteProps(t, instances, {p}, document, document')
  OBVIOUS
<1>5. instances' = SetWrote(table, i, TRUE)
  BY <1>3, <1>4 DEF SetWrote
<1>6. Recording(t, {p})
  BY <1>4, <1>5, RecordingHolds
<1>7. /\ At(t, "exec") /\ instances[i].kind = "set" /\ instances[i].class.writes
      /\ UNCHANGED <<stack, commandFrames>> /\ SameEntries
  BY <1>2 DEF ExecWrite, Executing, SameEntries, historyVars
<1>8. i \in Ids
  BY <1>2, <1>7, TopFrame
<1> QED
  BY <1>2, <1>3, <1>6, <1>7, <1>8 DEF WriteEffect

\* A failed command, or batch, is undone.
RollbackEffect(t, i) ==
  /\ \E k : Does(t, k, "rollback", i)
  /\ document' = Undo(instances[i].data, document) /\ Recording(t, Written(instances[i].data))
  /\ UNCHANGED commandFrames /\ SameEntries
  /\ NoNewOwner /\ NoNew("rollback")

\* A failed command or batch is rolled back.
LEMMA RollbackExact ==
  ASSUME IInv, Recorded, NEW t \in Threads, Rollback(t), "undoFails" \notin Ops
  PROVE  RollbackEffect(t, Top(t).inst)
<1>1. PICK i : i = Top(t).inst
  OBVIOUS
<1>2. PICK data : data = instances[i].data
  OBVIOUS
<1>3. PICK table : table = WriteProps(t, instances, Written(data), document, document')
  OBVIOUS
<1>4. document' = Undo(data, document) /\ instances' = SetStatus(table, i, "Complete")
  <2>1. Undoable(data) = {data}
    BY DEF Undoable
  <2> QED
    BY <1>1, <1>2, <1>3, <2>1 DEF Rollback, SetStatus
<1>5. Recording(t, Written(data))
  BY <1>3, <1>4, RecordingHolds
<1>6. /\ At(t, "rollback") /\ Running(t) /\ Pop(t) /\ UNCHANGED commandFrames /\ SameEntries
      /\ StackShape
  BY DEF Rollback, At, SameEntries, historyVars, IInv, Shape
<1>7. Above(t, Len(stack[t]) - 1, <<>>) /\ Len(stack[t]) > 0 /\ Top(t) = stack[t][Len(stack[t])]
  BY <1>6, PopAbove
<1>8. Does(t, Len(stack[t]), "rollback", i)
  BY <1>1, <1>6, <1>7 DEF Above, Does, At
<1>9. NoNewOwner /\ NoNew("rollback")
  <2>1. Len(<<>>) = 0 /\ 1 .. 0 = {}
    OBVIOUS
  <2>2. ASSUME NEW u \in Threads, NEW k, NEW at, NEW j, Does(u, k, at, j)'
        PROVE  Does(u, k, at, j)
    BY <1>7, <2>1, <2>2, AboveDoes
  <2> QED
    BY <2>2 DEF NoNewOwner, NoNew
<1> QED
  BY <1>1, <1>2, <1>4, <1>5, <1>6, <1>8, <1>9 DEF RollbackEffect

\* execute() returns.
ReturnEffect(t, i) ==
  /\ At(t, "exec") /\ i = Top(t).inst /\ i \in Ids /\ Ids' = Ids
  /\ UNCHANGED <<document, commandFrames>> /\ SameEntries
  /\ \A j \in Ids : /\ instances'[j].own = instances[j].own
                    /\ instances'[j].children = instances[j].children
                    /\ j # i => /\ instances'[j].data = instances[j].data
                                /\ instances'[j].error = instances[j].error
  /\ \E m \in BOOLEAN : instances'[i].data =
              Append(instances[i].data, [mergeable |-> m, helpers |-> instances[i].own])
  /\ LET kind == instances[i].kind
         e == instances'[i].error
     IN /\ e \in {"ok", "batch", "failed"}
        /\ kind \in {"begin", "end"} => e = "batch"
        /\ kind = "set" => e = "ok" \/ (e = "failed" /\ instances[i].class.fails)
  /\ \A u \in Threads : \A k, j :
       /\ Does(u, k, "exec", j)' => Does(u, k, "exec", j) /\ j # i
       /\ Does(u, k, "spin", j)' => Does(u, k, "spin", j) \/ j = i
  /\ NoNew("rollback")

\* What the instances are.
Kinds == \A i \in Ids : Known(instances[i].kind, instances[i].class)

\* A command returns.
LEMMA ReturnExact ==
  ASSUME IInv, Recorded, Kinds, NEW t \in Threads, Execute(t),
         instances[Top(t).inst].kind # "undoRedo"
  PROVE  ReturnEffect(t, Top(t).inst)
<1>1. PICK i : i = Top(t).inst
  OBVIOUS
<1>2. PICK entry : entry = [mergeable |-> ~instances[i].class.custom, helpers |-> instances[i].own]
  OBVIOUS
<1> DEFINE errors == CASE instances[i].kind \in {"begin", "end"} -> {"batch"}
                       [] instances[i].kind = "abort" -> {"failed"}
                       [] instances[i].class.fails -> {"ok", "failed"}
                       [] OTHER -> {"ok"}
<1>3. PICK e \in errors :
        instances' = [instances EXCEPT ![i].error = e, ![i].data = Append(@, entry)]
  BY <1>1, <1>2 DEF Execute
<1>4. Table(instances) /\ Ids = DOMAIN instances /\ StackShape
  BY InstancesTable DEF Ids, IInv, Shape
<1>5. At(t, "exec") /\ Running(t) /\ UNCHANGED <<document, commandFrames>> /\ SameEntries
  BY DEF Execute, At, SameEntries, historyVars
<1>6. /\ i \in Ids /\ Len(stack[t]) \in Owning(t) /\ Top(t) = stack[t][Len(stack[t])]
      /\ Len(stack[t]) \in DOMAIN stack[t]
  BY <1>1, <1>5, TopFrame
<1>7. Ids' = Ids
  BY <1>3, <1>4 DEF Ids
<1>8. \A j \in Ids : j # i => instances'[j] = instances[j]
  BY <1>3, <1>4
<1>9. instances'[i] = [instances[i] EXCEPT !.error = e, !.data = Append(@, entry)]
  BY <1>3, <1>4, <1>6
<1>10. /\ instances'[i].own = instances[i].own /\ instances'[i].children = instances[i].children
       /\ instances'[i].error = e /\ instances'[i].data = Append(instances[i].data, entry)
  BY <1>6, <1>9 DEF Recorded, InstanceRecord
<1>11. \A j \in Ids : /\ instances'[j].own = instances[j].own
                      /\ instances'[j].children = instances[j].children
                      /\ j # i => /\ instances'[j].data = instances[j].data
                                  /\ instances'[j].error = instances[j].error
  BY <1>8, <1>10
<1>12. \E m \in BOOLEAN : instances'[i].data =
                Append(instances[i].data, [mergeable |-> m, helpers |-> instances[i].own])
  <2>1. (~instances[i].class.custom) \in BOOLEAN
    OBVIOUS
  <2> QED
    BY <1>2, <1>10, <2>1
<1>13. /\ e \in {"ok", "batch", "failed"}
       /\ instances[i].kind \in {"begin", "end"} => e = "batch"
       /\ instances[i].kind = "set" => e = "ok" \/ (e = "failed" /\ instances[i].class.fails)
  <2>0. /\ instances[i].kind \in {"set", "begin", "end", "abort"}
        /\ instances[i].kind # "set" => ~instances[i].class.fails
    BY <1>1, <1>6 DEF Kinds, Known, BatchClass
  <2>1. CASE instances[i].kind \in {"begin", "end"}
    <3>1. errors = {"batch"}
      BY <2>0, <2>1
    <3> QED
      BY <2>1, <3>1
  <2>2. CASE instances[i].kind = "abort"
    <3>1. errors = {"failed"}
      BY <2>0, <2>2
    <3> QED
      BY <2>2, <3>1
  <2>3. CASE instances[i].kind = "set"
    <3>1. errors = IF instances[i].class.fails THEN {"ok", "failed"} ELSE {"ok"}
      BY <2>3
    <3> QED
      BY <2>3, <3>1
  <2> QED
    BY <2>0, <2>1, <2>2, <2>3
<1>14. PICK act : act = [Top(t) EXCEPT !.at = "spin"]
  OBVIOUS
<1>15. act.at = "spin" /\ act.inst = i
  <2>1. ActivationRecord(Top(t))
    BY <1>4, <1>6 DEF StackShape
  <2> QED
    BY <1>1, <1>14, <2>1 DEF ActivationRecord
<1>16. Above(t, Len(stack[t]) - 1, <<act>>)
  <2>1. ReplaceTop(t, <<act>>) /\ Listed(<<act>>)
    BY <1>14, TuplesListed DEF Execute
  <2> QED
    BY <1>4, <1>5, <2>1, ReplaceAbove
<1>17. ASSUME NEW u \in Threads, NEW k, NEW at, NEW j, Does(u, k, at, j)'
       PROVE  \/ Does(u, k, at, j) /\ (u = t => k <= Len(stack[t]) - 1)
              \/ at = "spin" /\ j = i
  <2>1. \/ Does(u, k, at, j) /\ (u = t => k <= Len(stack[t]) - 1)
        \/ u = t /\ act.at = at /\ act.inst = j
    BY <1>16, <1>17, OneComes
  <2> QED
    BY <1>15, <2>1
<1>18. ASSUME NEW u \in Threads, NEW k, NEW j, Does(u, k, "exec", j)'
       PROVE  Does(u, k, "exec", j) /\ j # i
  <2>1. Does(u, k, "exec", j) /\ (u = t => k <= Len(stack[t]) - 1)
    BY <1>17, <1>18
  <2>2. k \in Owning(u) /\ stack[u][k].inst = j
    BY <2>1 DEF Does, Owning
  <2>3. stack[t][Len(stack[t])].inst = i
    BY <1>1, <1>6
  <2>4. ASSUME j = i PROVE FALSE
    <3>1. u = t /\ k = Len(stack[t])
      BY <1>6, <2>2, <2>3, <2>4 DEF IInv, Distinct, OneOwner
    <3>2. Len(stack[t]) \in Nat
      BY <1>4 DEF StackShape, Listed
    <3> QED
      BY <2>1, <3>1, <3>2
  <2> QED
    BY <2>1, <2>4
<1>19. \A u \in Threads : \A k, j :
         /\ Does(u, k, "exec", j)' => Does(u, k, "exec", j) /\ j # i
         /\ Does(u, k, "spin", j)' => Does(u, k, "spin", j) \/ j = i
  BY <1>17, <1>18
<1>20. NoNew("rollback")
  BY <1>17 DEF NoNew
<1> HIDE DEF errors
<1> QED
  BY <1>1, <1>5, <1>6, <1>7, <1>10, <1>11, <1>12, <1>13, <1>19, <1>20 DEF ReturnEffect

\* An instance that had children keeps some of them.
ChildrenStay(new, table) == \A j \in Ids : new[j].children = <<>> => table[j].children = <<>>

\* Gathering the undo data of the children loses no child.
LEMMA ConsolidateStay ==
  ASSUME NEW table, Table(table), NEW i
  PROVE  ChildrenStay(ConsolidateChildren(table, i), table)
<1> DEFINE c == Compressed(table, table[i].children)
           new == SetChildren(table, i, c)
<1>1. ConsolidateChildren(table, i) = new
  BY DEF ConsolidateChildren, SetChildren
<1>2. CASE i \in Ids
  <2>1. Listed(table[i].children)
    BY <1>2 DEF InstanceRecord, Table
  <2>2. Listed(c) /\ (c = <<>> => table[i].children = <<>>)
    BY <2>1, CompressedSome
  <2> HIDE DEF c
  <2>3. \A j \in Ids : new[j].children = IF j = i THEN c ELSE table[j].children
    BY <2>2, ChildrenUpdate
  <2> QED
    BY <1>1, <2>2, <2>3 DEF ChildrenStay
<1>3. CASE i \notin Ids
  <2>1. new = table
    BY <1>3 DEF SameIds, Ids, Table, SetChildren
  <2> QED
    BY <1>1, <2>1 DEF ChildrenStay
<1> QED
  BY <1>2, <1>3

\* Nor does handing them to the parent.
LEMMA HandToParentStay ==
  ASSUME NEW table, Table(table), NEW i, NEW parent
  PROVE  ChildrenStay(HandToParent(table, i, parent), table)
<1> DEFINE handed == SetData(table, parent, Consolidate(table[parent].data, table[i].data))
           moved == SetData(handed, i, <<>>)
           new == HandToParent(table, i, parent)
<1>1. moved = [table EXCEPT ![parent].data = Consolidate(@, table[i].data), ![i].data = <<>>]
  BY DEF SetData
<1>2. \/ new = table \/ new = ConsolidateChildren(table, i)
      \/ new = moved \/ new = ConsolidateChildren(moved, parent)
  <2> HIDE DEF moved
  <2> QED
    BY <1>1 DEF HandToParent
<1> HIDE DEF new
<1>3. Table(handed) /\ \A j \in Ids : handed[j].children = table[j].children
  BY DataUpdate DEF Follows
<1> HIDE DEF handed
<1>4. Table(moved) /\ \A j \in Ids : moved[j].children = table[j].children
  BY <1>3, DataUpdate DEF Follows
<1> HIDE DEF moved
<1>5. ChildrenStay(ConsolidateChildren(moved, parent), moved)
  BY <1>4, ConsolidateStay
<1>6. ChildrenStay(ConsolidateChildren(table, i), table)
  BY ConsolidateStay
<1>7. ChildrenStay(new, table)
  BY <1>2, <1>4, <1>5, <1>6 DEF ChildrenStay
<1> QED
  BY <1>7 DEF new

\* popFrame: done stays open, or gives its data to its parent or, at the root, to the
\* history, or failed and keeps them.
SucceedsNow(i) ==
  \/ instances'[i].error = "ok"
  \/ instances'[i].error = "batch" /\ instances[i].children # <<>>
SameData == \A j \in Ids : instances'[j].data = instances[j].data

Opened(i) == instances[i].kind = "begin" /\ SameData /\ UNCHANGED pendingHistory /\ NoNew("rollback")
HandedUp(i, done, parent) ==
  /\ instances[i].kind # "begin" /\ SucceedsNow(done) /\ instances[done].class.canUndo
  /\ parent # Root /\ Handed(instances', instances, done, parent) /\ UNCHANGED pendingHistory
  /\ NoNew("rollback")
EnteredNow(i, done, parent) ==
  /\ instances[i].kind # "begin" /\ SucceedsNow(done) /\ instances[done].class.canUndo
  /\ parent = Root /\ SameData /\ pendingHistory' = Append(pendingHistory, done)
  /\ NoNew("rollback")
KeptBack(i, done) ==
  /\ instances[i].kind # "begin" /\ ~(SucceedsNow(done) /\ instances[done].class.canUndo)
  /\ SameData /\ UNCHANGED pendingHistory
  /\ \A t \in Threads : \A k, j :
       Does(t, k, "rollback", j)' => Does(t, k, "rollback", j) \/ j = done

PopEffect(L, closes, done) ==
  /\ Popped(L, closes) /\ Queue(L) = <<>>
  /\ \E t \in Threads : \E k : Does(t, k, "spin", Inst(L))
  /\ closes \in BOOLEAN /\ (closes <=> Closing(Inst(L)) /\ Last(Groups(L - 1)) # Root)
  /\ done = IF closes THEN Last(Groups(L - 1)) ELSE Inst(L)
  /\ done \in Ids /\ Ids' = Ids
  /\ UNCHANGED <<document, history, previousSelectedIndex, currentIndex>>
  /\ \A j \in Ids : /\ instances'[j].own = instances[j].own
                    /\ instances'[j].error = IF closes /\ j = done THEN instances[Inst(L)].error
                                             ELSE instances[j].error
  /\ ChildrenStay(instances', instances)
  /\ NoNewOwner
  /\ \/ Opened(Inst(L)) \/ HandedUp(Inst(L), done, Last(Groups(L - 1)'))
     \/ EnteredNow(Inst(L), done, Last(Groups(L - 1)')) \/ KeptBack(Inst(L), done)

\* What happens to the activations.
LEMMA PopMoves ==
  ASSUME StackShape, NEW t \in Threads, Running(t), NEW done
  PROVE  /\ Pop(t) => NoNewOwner /\ NoNew("rollback")
         /\ ReplaceTop(t, <<Act("rollback", done)>>) =>
              /\ NoNewOwner
              /\ \A u \in Threads : \A k, j :
                   Does(u, k, "rollback", j)' => Does(u, k, "rollback", j) \/ j = done
<1>1. ASSUME Pop(t) PROVE NoNewOwner /\ NoNew("rollback")
  <2>1. Above(t, Len(stack[t]) - 1, <<>>)
    BY <1>1, PopAbove
  <2>2. Len(<<>>) = 0 /\ 1 .. 0 = {}
    OBVIOUS
  <2>3. ASSUME NEW u \in Threads, NEW k, NEW at, NEW j, Does(u, k, at, j)'
        PROVE  Does(u, k, at, j)
    BY <2>1, <2>2, <2>3, AboveDoes
  <2> QED
    BY <2>3 DEF NoNewOwner, NoNew
<1>2. ASSUME ReplaceTop(t, <<Act("rollback", done)>>)
      PROVE  /\ NoNewOwner
             /\ \A u \in Threads : \A k, j :
                  Does(u, k, "rollback", j)' => Does(u, k, "rollback", j) \/ j = done
  <2>1. PICK a : a = Act("rollback", done)
    OBVIOUS
  <2>2. a.at = "rollback" /\ a.inst = done
    BY <2>1, ActFields
  <2>3. ReplaceTop(t, <<a>>) /\ Listed(<<a>>)
    BY <1>2, <2>1, TuplesListed
  <2>4. Above(t, Len(stack[t]) - 1, <<a>>)
    BY <2>3, ReplaceAbove
  <2>5. ASSUME NEW u \in Threads, NEW k, NEW at, NEW j, Does(u, k, at, j)'
        PROVE  Does(u, k, at, j) \/ (at = "rollback" /\ j = done)
    <3>1. Does(u, k, at, j) \/ (a.at = at /\ a.inst = j)
      BY <2>4, <2>5, OneComes
    <3> QED
      BY <2>2, <3>1
  <2>6. NoNewOwner
    <3> SUFFICES ASSUME NEW u \in Threads, NEW k, NEW i, NEW at \in {"exec", "spin"},
                        Does(u, k, at, i)'
                 PROVE  Does(u, k, at, i)
      BY DEF NoNewOwner
    <3>1. at # "rollback"
      OBVIOUS
    <3> QED
      BY <2>5, <3>1
  <2> QED
    BY <2>5, <2>6
<1> QED
  BY <1>1, <1>2

\* The end of a command, or of the batch it closes.
LEMMA PopExact ==
  ASSUME IInv, OInv, NEW t \in Threads, PopFrame(t)
  PROVE  \E L, closes, done : PopEffect(L, closes, done)
<1>0. /\ Basics /\ Recorded /\ Grouped /\ Table(instances) /\ Ids = DOMAIN instances /\ StackShape
      /\ Running(t) /\ At(t, "spin")
  BY BasicsHold, InstancesTable DEF OInv, Placed, Ids, IInv, Shape, PopFrame, At
<1>1. PICK L \in Nat : \E closes \in BOOLEAN : \E done \in Ids : PopDone(t, L, closes, done)
  BY <1>0, PopFrameExact
<1>2. PICK closes \in BOOLEAN : \E done \in Ids : PopDone(t, L, closes, done)
  BY <1>1
<1>3. PICK done \in Ids : PopDone(t, L, closes, done)
  BY <1>2
<1>4. PICK i : i = Inst(L)
  OBVIOUS
<1>5. PICK parent : parent = Last(Groups(L - 1)')
  OBVIOUS
<1>6. PICK table : table = IF closes THEN SetError(instances, done, instances[i].error) ELSE instances
  OBVIOUS
<1>7. /\ Table(table)
      /\ \A j \in Ids : /\ SameValues(table[j], instances[j])
                        /\ table[j].error = IF closes /\ j = done THEN instances[i].error
                                            ELSE instances[j].error
                        /\ table[j].children = instances[j].children
                        /\ SameKind(table[j], instances[j])
  <2>1. CASE closes
    BY <1>0, <1>6, <2>1, ErrorUpdate, OtherFields DEF Follows
  <2>2. CASE ~closes
    BY <1>0, <1>6, <2>2 DEF SameValues, SameKind
  <2> QED
    BY <2>1, <2>2
<1>8. PICK handed : handed = HandToParent(table, done, parent)
  OBVIOUS
<1>9. /\ Table(handed) /\ ChildrenStay(handed, table)
      /\ \A j \in Ids : handed[j].error = table[j].error
      /\ IF ~table[done].class.canUndo \/ parent = Root
           THEN \A j \in Ids : SameValues(handed[j], table[j])
           ELSE Handed(handed, table, done, parent)
  BY <1>7, <1>8, HandToParentFollows, HandToParentValues, HandToParentStay DEF Fine, Follows
<1>10. \A new : Table(new) =>
         LET s == SetStatus(new, done, "Complete")
         IN \A j \in Ids : /\ SameValues(s[j], new[j]) /\ s[j].error = new[j].error
                           /\ s[j].children = new[j].children
  <2> SUFFICES ASSUME NEW new, Table(new)
               PROVE  LET s == SetStatus(new, done, "Complete")
                      IN \A j \in Ids : /\ SameValues(s[j], new[j]) /\ s[j].error = new[j].error
                                        /\ s[j].children = new[j].children
    OBVIOUS
  <2>1. Ids = DOMAIN new
    BY DEF Table, SameIds, Ids
  <2> QED
    BY <2>1, StatusUpdate, OtherFields
<1>11. Succeeded(table, done) <=>
         \/ table[done].error = "ok"
         \/ table[done].error = "batch" /\ instances[done].children # <<>>
  BY <1>7 DEF Succeeded
<1>12. table[done].class.canUndo = instances[done].class.canUndo
  BY <1>7 DEF SameKind
<1>13. \/ instances[i].kind = "begin" /\ Pop(t) /\ UNCHANGED <<instances, pendingHistory>>
       \/ /\ instances[i].kind # "begin" /\ Succeeded(table, done)
          /\ instances' = SetStatus(handed, done, "Complete")
          /\ pendingHistory' = IF parent = Root /\ table[done].class.canUndo
                                 THEN Append(pendingHistory, done) ELSE pendingHistory
          /\ Pop(t)
       \/ /\ instances[i].kind # "begin" /\ ~Succeeded(table, done) /\ ~table[done].class.canUndo
          /\ instances' = SetStatus(table, done, "Complete") /\ Pop(t) /\ UNCHANGED pendingHistory
       \/ /\ instances[i].kind # "begin" /\ ~Succeeded(table, done) /\ table[done].class.canUndo
          /\ instances' = table /\ ReplaceTop(t, <<Act("rollback", done)>>) /\ UNCHANGED pendingHistory
  BY <1>3, <1>4, <1>5, <1>6, <1>8 DEF PopDone, PopOutcome
<1>14. instances[i].kind = "begin" => ~closes
  BY <1>3, <1>4 DEF PopDone, Closing
<1>15. /\ \A j \in Ids : /\ instances'[j].own = instances[j].own
                         /\ instances'[j].error = table[j].error
       /\ ChildrenStay(instances', instances)
  <2>1. CASE UNCHANGED instances /\ ~closes
    BY <1>6, <2>1 DEF ChildrenStay
  <2>2. CASE instances' = SetStatus(handed, done, "Complete")
    <3>1. \A j \in Ids : handed[j].own = table[j].own
      BY <1>9 DEF SameValues, Handed
    <3> QED
      BY <1>7, <1>9, <1>10, <2>2, <3>1 DEF ChildrenStay, SameValues
  <2>3. CASE instances' = SetStatus(table, done, "Complete") \/ instances' = table
    BY <1>7, <1>10, <2>3 DEF ChildrenStay, SameValues
  <2> QED
    BY <1>13, <1>14, <2>1, <2>2, <2>3
<1>16. SucceedsNow(done) <=> Succeeded(table, done)
  BY <1>11, <1>15 DEF SucceedsNow
<1>17. Pop(t) => NoNewOwner /\ NoNew("rollback")
  BY <1>0, PopMoves
<1>18. /\ NoNewOwner
       /\ Opened(i) \/ HandedUp(i, done, parent) \/ EnteredNow(i, done, parent) \/ KeptBack(i, done)
  <2>1. CASE instances[i].kind = "begin" /\ Pop(t) /\ UNCHANGED <<instances, pendingHistory>>
    BY <1>17, <2>1 DEF Opened, SameData
  <2>2. CASE /\ instances[i].kind # "begin" /\ Succeeded(table, done)
             /\ instances' = SetStatus(handed, done, "Complete")
             /\ pendingHistory' = IF parent = Root /\ table[done].class.canUndo
                                    THEN Append(pendingHistory, done) ELSE pendingHistory
             /\ Pop(t)
    <3>1. \A j \in Ids : SameValues(instances'[j], handed[j])
      BY <1>9, <1>10, <2>2
    <3>2. CASE ~table[done].class.canUndo \/ parent = Root
      <4>1. SameData
        BY <1>7, <1>9, <3>1, <3>2 DEF SameData, SameValues
      <4> QED
        BY <1>12, <1>16, <1>17, <2>2, <3>2, <4>1 DEF EnteredNow, KeptBack, NoNew
    <3>3. CASE ~(~table[done].class.canUndo \/ parent = Root)
      <4>1. Handed(handed, table, done, parent)
        BY <1>9, <3>3
      <4>2. \A j \in Ids : SameValues(table[j], instances[j])
        BY <1>7
      <4>3. Handed(instances', instances, done, parent)
        BY <3>1, <4>1, <4>2, <1>3 DEF Handed, SameValues
      <4> QED
        BY <1>12, <1>16, <1>17, <2>2, <3>3, <4>3 DEF HandedUp
    <3> QED
      BY <3>2, <3>3
  <2>3. CASE /\ instances[i].kind # "begin" /\ ~Succeeded(table, done)
             /\ ~table[done].class.canUndo
             /\ instances' = SetStatus(table, done, "Complete") /\ Pop(t) /\ UNCHANGED pendingHistory
    <3>1. SameData
      BY <1>7, <1>10, <2>3 DEF SameData, SameValues
    <3> QED
      BY <1>16, <1>17, <2>3, <3>1 DEF KeptBack, NoNew
  <2>4. CASE /\ instances[i].kind # "begin" /\ ~Succeeded(table, done) /\ table[done].class.canUndo
             /\ instances' = table /\ ReplaceTop(t, <<Act("rollback", done)>>)
             /\ UNCHANGED pendingHistory
    <3>1. SameData
      BY <1>7, <2>4 DEF SameData, SameValues
    <3>2. /\ NoNewOwner
          /\ \A u \in Threads : \A k, j :
               Does(u, k, "rollback", j)' => Does(u, k, "rollback", j) \/ j = done
      BY <1>0, <2>4, PopMoves
    <3> QED
      BY <1>16, <2>4, <3>1, <3>2 DEF KeptBack
  <2> QED
    BY <1>13, <2>1, <2>2, <2>3, <2>4
<1>19. UNCHANGED <<document, history, previousSelectedIndex, currentIndex>>
  BY DEF PopFrame, historyVars
<1>20. /\ Popped(L, closes) /\ Queue(L) = <<>>
       /\ closes <=> Closing(i) /\ Last(Groups(L - 1)) # Root
       /\ done = IF closes THEN Last(Groups(L - 1)) ELSE i
       /\ i = Top(t).inst
  BY <1>3, <1>4 DEF PopDone
<1>21. Does(t, Len(stack[t]), "spin", i)
  BY <1>0, <1>20, TopFrame DEF Does, At
<1>22. Ids' = Ids
  <2>1. Table(instances')
    <3>1. \A new : Table(new) => Table(SetStatus(new, done, "Complete"))
      BY StatusUpdate DEF Follows
    <3> QED
      BY <1>0, <1>7, <1>9, <1>13, <3>1
  <2> QED
    BY <2>1 DEF Table, SameIds, Ids
<1>23. \A j \in Ids : instances'[j].error = IF closes /\ j = done THEN instances[i].error
                                            ELSE instances[j].error
  BY <1>7, <1>15
<1>24. PopEffect(L, closes, done)
  BY <1>4, <1>5, <1>15, <1>18, <1>19, <1>20, <1>21, <1>22, <1>23 DEF PopEffect
<1> QED
  BY <1>24

-----------------------------------------------------------------------------
(* What every step does to the documents and to the entries of the history *)

SameRows == UNCHANGED <<history, pendingHistory, previousSelectedIndex>>

\* The owner takes over what is pending, between its moves.
TakesPending == TakePending /\ pendingHistory # <<>> /\ currentIndex = previousSelectedIndex

\* Which steps change the history or the entry that is selected.
LEMMA HistoryAside ==
  ASSUME IInv, OInv, IndexInv, Still, ActsTyped, "remove" \notin Ops, [Next]_vars
  PROVE  \/ SameRows \/ TakesPending
         \/ \E t \in Threads : PopFrame(t)
         \/ UndoEntry \/ RedoEntry
<1>1. /\ Owner \in Threads /\ Worker \in Threads /\ StackShape /\ OwnerActs /\ Entered /\ Selected
  BY DEF Threads, OInv, IInv, Shape, IndexInv
<1>2. Moving => pendingHistory = <<>>
  <2>1. Moving => Len(pendingHistory) = 0
    BY DEF Still, Calm
  <2> QED
    BY <1>1, <2>1 DEF Entered
<1>3. ASSUME NEW t, ThreadStep(t) PROVE SameRows \/ TakesPending \/ PopFrame(t)
  <2>1. CASE LoopEnds(t)
    <3>1. UNCHANGED <<pendingHistory, historyVars>> \/ (pendingHistory # <<>> /\ TakePending)
      BY <2>1 DEF LoopEnds
    <3>2. pendingHistory # <<>> => currentIndex = previousSelectedIndex
      BY <1>1, <1>2 DEF Selected
    <3> QED
      BY <3>1, <3>2 DEF SameRows, TakesPending, historyVars
  <2>2. CASE ~LoopEnds(t)
    BY <1>3, <2>2 DEF ThreadStep, TakeCommand, TakeUndoRedo, ExecWrite, ExecQueue, ExecBatch,
       ExecWait, Execute, SpinProcess, Rollback, WaitProcess, WaitNext, WaitStart, Flush,
       SameRows, historyVars
  <2> QED
    BY <2>1, <2>2
<1>4. ASSUME NEW target, MoveCommandIndex(target),
             stack[Owner] = <<>> \/ At(Owner, "undo") \/ At(Owner, "redo")
      PROVE  SameRows
  <2>1. ~Moving
    <3>1. CASE stack[Owner] = <<>>
      <4>1. DOMAIN stack[Owner] = {}
        BY <3>1
      <4> QED
        BY <4>1 DEF Moving, Calling
    <3>2. CASE At(Owner, "undo")
      <4>1. "undo" \in Calls /\ "move" # "undo"
        BY DEF Calls
      <4> QED
        BY <1>1, <3>2, <4>1, TopCall DEF Moving
    <3>3. CASE At(Owner, "redo")
      <4>1. "redo" \in Calls /\ "move" # "redo"
        BY DEF Calls
      <4> QED
        BY <1>1, <3>3, <4>1, TopCall DEF Moving
    <3> QED
      BY <1>4, <3>1, <3>2, <3>3
  <2>2. currentIndex = previousSelectedIndex
    BY <1>1, <2>1 DEF Selected
  <2> QED
    BY <1>4, <2>2 DEF MoveCommandIndex, SameRows
<1>5. ~RemoveCall
  <2> SUFFICES ASSUME RemoveCall PROVE FALSE
    OBVIOUS
  <2>1. At(Owner, "remove")
    BY DEF RemoveCall
  <2>2. Does(Owner, Len(stack[Owner]), "remove", Top(Owner).inst)
    BY <1>1, <2>1, TopDoes
  <2>3. ActTyped(Owner, stack[Owner][Len(stack[Owner])], Count)
    BY <1>1, <2>2 DEF ActsTyped, Does
  <2> QED
    BY <2>2, <2>3 DEF Does, ActTyped
<1>6. CASE UNCHANGED vars
  BY <1>6 DEF vars, historyVars, SameRows
<1>7. CASE OwnerStep
  <2>1. CASE UndoCall \/ RedoCall
    BY <1>4, <2>1 DEF UndoCall, RedoCall
  <2>2. CASE UndoRedoDone \/ UndoRedoFails \/ MoveDone \/ UpdateDone \/ FiniExit \/ FiniJoin
    BY <2>2 DEF UndoRedoDone, UndoRedoFails, MoveDone, UpdateDone, FiniExit, FiniJoin,
       SameRows, historyVars, CallVars
  <2> QED
    BY <1>1, <1>3, <1>5, <1>7, <2>1, <2>2 DEF OwnerStep
<1>8. CASE WorkerStep
  BY <1>1, <1>3, <1>8 DEF WorkerStep, WorkerTurn, WorkerWoken, SameRows, historyVars
<1>9. CASE AppStep
  <2>1. CASE AppMove
    BY <1>4, <2>1 DEF AppMove, MayMove, Idle
  <2>2. CASE ~AppMove
    BY <1>9, <2>2 DEF AppStep, AppQueue, AppBatch, AppWait, AppUndo, AppRedo,
       AppRemove, AppFlush, AppUpdate, AppFini, CallVars, SameRows, historyVars
  <2> QED
    BY <2>1, <2>2
<1> QED
  BY <1>6, <1>7, <1>8, <1>9 DEF Next

\* Steps that neither run commands nor move the document.
Bystanding == Aside /\ FramesSame /\ NoNew("rollback")

\* undoRedo undoes or redoes an entry.
Stepping == UndoEntry \/ RedoEntry

Takes(L, i) == TakeEffect(L, i) /\ Taking(L, i)
Pops(L, closes, done) == PopEffect(L, closes, done) /\ Popping(L, closes, done)

EffectKind ==
  \/ Bystanding
  \/ \E L, i : Takes(L, i)
  \/ \E t \in Threads : \E i : WriteEffect(t, i) \/ ReturnEffect(t, i) \/ RollbackEffect(t, i)
  \/ \E L, closes, done : Pops(L, closes, done)
  \/ Stepping

\* Every step is of one of these kinds.
LEMMA EveryEffectKind ==
  ASSUME IInv, IInv', OInv, ActsTyped, Kinds, [Next]_vars, "undoFails" \notin Ops
  PROVE  EffectKind
<1>1. Recorded /\ Basics /\ StepKind
  BY BasicsHold, EveryStepKind DEF OInv
<1>2. ASSUME NEW t \in Threads, TakeCommand(t) PROVE EffectKind
  <2>1. PICK L, i : TakeEffect(L, i)
    BY <1>1, <1>2, TakeExact
  <2>2. PICK M, j : Taking(M, j)
    BY <1>1, <1>2, TakeCommandKind
  <2>3. M = L /\ j = i
    BY <2>1, <2>2 DEF TakeEffect, Taking, Taken, Dequeued
  <2> QED
    BY <2>1, <2>2, <2>3 DEF EffectKind, Takes
<1>3. ASSUME NEW t \in Threads, ExecWrite(t) PROVE EffectKind
  BY <1>1, <1>3, WriteExact DEF EffectKind
<1>4. ASSUME NEW t \in Threads, Execute(t) PROVE EffectKind
  <2>1. PICK i : i = Top(t).inst
    OBVIOUS
  <2>2. At(t, "exec")
    BY <1>4 DEF Execute
  <2>3. i \in Ids /\ InFrame(i)
    BY <2>1, <2>2, TopFrame
  <2>4. PICK n \in 1 .. Depth : Inst(n) = i
    BY <2>3 DEF InFrame
  <2>5. instances[i].kind # "undoRedo"
    <3>1. CASE n = 1
      BY <1>1, <2>3, <2>4, <3>1 DEF Basics, Root
    <3>2. CASE n # 1
      <4>1. n \in 2 .. Depth
        BY <1>1, <2>4, <3>2 DEF Basics, FramesSized
      <4> QED
        BY <2>4, <4>1 DEF OInv, Placed, Homes
    <3> QED
      BY <3>1, <3>2
  <2> QED
    BY <1>1, <1>4, <2>1, <2>5, ReturnExact DEF EffectKind
<1>5. ASSUME NEW t \in Threads, PopFrame(t) PROVE EffectKind
  <2>1. PICK L, closes, done : PopEffect(L, closes, done)
    BY <1>5, PopExact
  <2>2. PICK M, c, d : Popping(M, c, d)
    BY <1>5, PopFrameKind
  <2>3. M = L
    BY <2>1, <2>2 DEF PopEffect, Popping, Popped
  <2>4. c = closes
    BY <2>1, <2>2, <2>3 DEF PopEffect, Popping
  <2>5. d = done
    BY <2>1, <2>2, <2>3, <2>4 DEF PopEffect, Popping
  <2> QED
    BY <2>1, <2>2, <2>3, <2>4, <2>5 DEF EffectKind, Pops
<1>6. ASSUME NEW t \in Threads, Rollback(t) PROVE EffectKind
  BY <1>1, <1>6, RollbackExact DEF EffectKind
<1>7. CASE Aside
  <2>1. Depth' = Depth
    BY <1>7 DEF Aside
  <2>2. FramesSame /\ NoNew("rollback")
    BY <1>1, <2>1, StepFrames
  <2> QED
    BY <1>7, <2>2 DEF Bystanding, EffectKind
<1>8. ~UndoRedoFails
  BY DEF UndoRedoFails
<1> QED
  BY <1>2, <1>3, <1>4, <1>5, <1>6, <1>7, <1>8, AsideKind DEF EffectKind, Stepping

-----------------------------------------------------------------------------
(* Applications whose history accounts for the document *)

\* Nothing is aborted or removed, no undo or redo fails, and the index moves only after a
\* flush; what writes or queues commands can be undone and does not fail; and what queues
\* commands keeps undo data of its own.
Orderly ==
  /\ \A op \in {"abort", "fini", "remove", "moveAnyTime", "undoFails"} : op \notin Ops
  /\ \A c \in Classes : /\ c.writes \/ c.queues => c.canUndo /\ ~c.fails
                        /\ c.queues => c.custom /\ ~c.writes

\* Commands are queued outside, or by a compound one.
HomesCompound == \A i \in Ids : instances[i].home = Root \/ Compound(instances[i].home)

\* What the class of an instance says of it.
LEMMA KindParts ==
  ASSUME Orderly, Kinds, NEW i \in Ids
  PROVE  /\ instances[i].kind \in {"set", "begin", "end", "undoRedo"}
         /\ instances[i].kind # "set" => /\ ~instances[i].class.writes /\ ~instances[i].class.queues
                                         /\ instances[i].class.canUndo
         /\ instances[i].class.writes \/ instances[i].class.queues =>
              instances[i].class.canUndo /\ ~instances[i].class.fails
         /\ instances[i].class.queues => instances[i].class.custom /\ ~instances[i].class.writes
<1>1. Known(instances[i].kind, instances[i].class)
  BY DEF Kinds
<1>2. CASE instances[i].kind = "set" /\ instances[i].class \in Classes
  BY <1>2 DEF Orderly
<1>3. CASE instances[i].kind \in {"begin", "end"} /\ instances[i].class = BatchClass
  BY <1>3 DEF BatchClass
<1>4. CASE instances[i].kind = "undoRedo" /\ instances[i].class = UndoRedoClass
  <2>1. ~UndoRedoClass.writes /\ ~UndoRedoClass.queues /\ UndoRedoClass.canUndo
    <3>1. PICK b : b = BatchClass
      OBVIOUS
    <3>2. /\ b \in [affinity : {b.affinity}, custom : {b.custom}, canUndo : {b.canUndo}, writes : {b.writes},
                    fails : {b.fails}, queues : {b.queues}, context : {b.context}]
          /\ ~b.writes /\ ~b.queues /\ b.canUndo
      BY <3>1 DEF BatchClass
    <3>3. UndoRedoClass = [b EXCEPT !.affinity = "UI"]
      BY <3>1 DEF UndoRedoClass
    <3> QED
      BY <3>2, <3>3
  <2>2. PICK c : c = instances[i].class
    OBVIOUS
  <2>3. ~c.writes /\ ~c.queues /\ c.canUndo
    BY <1>4, <2>1, <2>2
  <2> QED
    BY <1>4, <2>2, <2>3
<1>5. ~("abort" \in Ops \/ "fini" \in Ops)
  BY DEF Orderly
<1> QED
  BY <1>1, <1>2, <1>3, <1>4, <1>5 DEF Known

\* A command with a frame above its own is a compound one.
LEMMA RunsBelow ==
  ASSUME Basics, OInv, HomesCompound, NEW n \in 2 .. Depth, n < Depth
  PROVE  Compound(Inst(n))
<1>1. n + 1 \in 2 .. Depth /\ (n + 1) - 1 = n
  BY DEF Basics, FramesSized
<1>2. Inst(n) \in Ids /\ Inst(n) # Root /\ Inst(n + 1) \in Ids
  BY <1>1 DEF Basics, Root
<1>3. instances[Inst(n + 1)].home = Inst(n)
  <2>1. instances[Inst(n + 1)].home = Inst((n + 1) - 1)
    BY <1>1 DEF OInv, Placed, Homes
  <2> QED
    BY <1>1, <2>1
<1> QED
  BY <1>2, <1>3 DEF HomesCompound

\* Who executes or spins has a frame.
LEMMA OwnsFrame ==
  ASSUME IInv, NEW t \in Threads, NEW k, NEW i, NEW at \in {"exec", "spin"}, Does(t, k, at, i)
  PROVE  /\ k \in Owning(t) /\ stack[t][k].inst = i /\ i \in Ids /\ InFrame(i)
         /\ \E n \in 2 .. Depth : Inst(n) = i
<1>1. k \in Owning(t) /\ stack[t][k].inst = i
  BY DEF Does, Owning
<1>2. \E n \in 2 .. Depth : Inst(n) = i
  BY <1>1 DEF IInv, Owned, Depth, Inst
<1>3. Basics
  BY BasicsHold
<1> QED
  BY <1>1, <1>2, <1>3 DEF Basics, FramesSized, InFrame

\* A command that writes runs on the back frame, and it alone records.
LEMMA WriterAlone ==
  ASSUME Orderly, Kinds, HomesCompound, IInv, OInv, NEW t \in Threads, At(t, "exec"),
         NEW i, i = Top(t).inst, instances[i].class.writes
  PROVE  Depth \in 2 .. Depth /\ Inst(Depth) = i /\ Listening(t) = {i}
<1>1. Basics /\ Listed(stack[t])
  BY BasicsHold DEF IInv, Shape, StackShape
<1>2. /\ i \in Ids /\ Len(stack[t]) \in Owning(t) /\ Top(t) = stack[t][Len(stack[t])]
      /\ Len(stack[t]) \in DOMAIN stack[t]
  BY TopFrame
<1>3. PICK n \in 2 .. Depth : Inst(n) = i
  BY <1>2 DEF IInv, Owned, Depth, Inst
<1>4. ~instances[i].class.queues
  BY <1>2, KindParts
<1>5. n = Depth
  <2>1. ~(n < Depth)
    BY <1>1, <1>3, <1>4, RunsBelow DEF Compound
  <2> QED
    BY <1>1, <2>1 DEF Basics, FramesSized
<1>6. ASSUME NEW k \in DOMAIN stack[t], stack[t][k].at = "exec", k # Len(stack[t])
      PROVE  instances[stack[t][k].inst].class.custom
  <2>1. k \in Owning(t) /\ k < Len(stack[t])
    BY <1>1, <1>6 DEF Owning, Listed
  <2>2. PICK m \in 2 .. Depth : Inst(m) = stack[t][k].inst
    BY <2>1 DEF IInv, Owned, Depth, Inst
  <2>3. m \in DOMAIN commandFrames /\ n \in DOMAIN commandFrames
    BY <1>1 DEF Basics, FramesSized
  <2>4. commandFrames[m].instance = stack[t][k].inst
    BY <2>2 DEF Inst
  <2>5. commandFrames[n].instance = stack[t][Len(stack[t])].inst
    BY <1>2, <1>3 DEF Inst
  <2>6. m < n
    BY <1>2, <2>1, <2>3, <2>4, <2>5 DEF IInv, Distinct
  <2>7. Compound(Inst(m))
    BY <1>1, <1>5, <2>6, RunsBelow
  <2> QED
    BY <2>2, <2>7, KindParts DEF Compound
<1>7. Listening(t) = {i}
  <2>1. \A k \in DOMAIN stack[t] :
          stack[t][k].at = "exec" /\ (instances[stack[t][k].inst].class.custom => k = Len(stack[t]))
            <=> k = Len(stack[t])
    <3>1. stack[t][Len(stack[t])].at = "exec"
      BY <1>2 DEF At
    <3> QED
      BY <1>6, <3>1
  <2>2. stack[t][Len(stack[t])].inst = i
    BY <1>2
  <2> QED
    BY <1>2, <2>1, <2>2 DEF Listening
<1> QED
  BY <1>3, <1>5, <1>7

\* Who records runs.
LEMMA ListeningRuns ==
  ASSUME IInv, OInv, NEW t \in Threads
  PROVE  \A j \in Listening(t) : j \in Ids /\ InFrame(j) /\ instances[j].status = "Running"
<1> SUFFICES ASSUME NEW j \in Listening(t)
             PROVE  j \in Ids /\ InFrame(j) /\ instances[j].status = "Running"
  OBVIOUS
<1>1. PICK k \in DOMAIN stack[t] : stack[t][k].at = "exec" /\ stack[t][k].inst = j
  BY DEF Listening
<1>2. Does(t, k, "exec", j)
  BY <1>1 DEF Does
<1>3. j \in Ids /\ InFrame(j)
  BY <1>2, OwnsFrame
<1> QED
  BY <1>3 DEF OInv, Ordered, Statuses

-----------------------------------------------------------------------------
(* What the instances have recorded *)

\* An instance that waits has done nothing.
Pristine == \A i \in Ids : instances[i].status = "Queued" =>
  instances[i].error = "none" /\ instances[i].own = NoHelpers /\ instances[i].data = <<>>

\* A command has an error code when it has returned.
Returned == \A t \in Threads : \A k, i :
  /\ Does(t, k, "exec", i) => instances[i].error = "none"
  /\ Does(t, k, "spin", i) => instances[i].error # "none"

\* A batch that something was begun in has children.
Filled(n) ==
  \A k \in 1 .. Len(Groups(n)) : Groups(n)[k] # Root =>
    /\ k < Len(Groups(n)) => instances[Groups(n)[k]].children # <<>>
    /\ k = Len(Groups(n)) /\ n < Depth /\ Inst(n + 1) # Groups(n)[k] /\ ~Closing(Inst(n + 1)) =>
         instances[Groups(n)[k]].children # <<>>
Behind == \A n \in 1 .. Depth : Filled(n)

\* Whatever has an effect succeeds ...
OkErrors == \A i \in Ids :
  /\ instances[i].kind = "set" /\ (instances[i].class.writes \/ instances[i].class.queues) =>
       instances[i].error \in {"none", "ok"}
  /\ instances[i].kind \in {"begin", "end"} => instances[i].error \in {"none", "batch"}

\* ... only what writes records ...
Clean == \A i \in Ids : instances[i].own # NoHelpers =>
  instances[i].kind = "set" /\ instances[i].class.writes

\* ... and only that, what queues commands, and a batch that has some, has an effect.
Idles(i) ==
  \/ instances[i].kind = "set" /\ ~instances[i].class.writes /\ ~instances[i].class.queues
  \/ instances[i].kind \in {"end", "undoRedo"}
  \/ instances[i].kind = "begin" /\ instances[i].children = <<>>
Effectless == \A i \in Ids : Idles(i) => Written(instances[i].data) = {}

\* What is rolled back has none.
Rolled == \A t \in Threads : \A k, i :
  Does(t, k, "rollback", i) => Written(instances[i].data) = {}

RInv == /\ Kinds /\ HomesCompound /\ Pristine /\ Returned /\ Behind
        /\ OkErrors /\ Clean /\ Effectless /\ Rolled

-----------------------------------------------------------------------------
(* Steps keep the records *)

\* New instances come with steps that leave the document alone.
LEMMA EffectIds ==
  ASSUME EffectKind
  PROVE  Bystanding \/ Ids' = Ids
<1>1. Stepping => Ids' = Ids
  BY DEF Stepping, UndoEntry, RedoEntry, Ids
<1> QED
  BY <1>1 DEF EffectKind, Takes, TakeEffect, WriteEffect, ReturnEffect, RollbackEffect, Recording,
     Pops, PopEffect

\* Steps keep Kinds.
LEMMA KindsStep ==
  ASSUME Kept, EffectKind, Kinds
  PROVE  Kinds'
<1> SUFFICES ASSUME NEW i \in Ids' PROVE Known(instances'[i].kind, instances'[i].class)
  BY DEF Kinds, Known
<1>1. CASE i \in Ids
  BY <1>1 DEF Kept, SameKind, Kinds
<1>2. CASE i \notin Ids
  <2>1. SameDocuments
    BY <1>2, EffectIds DEF Bystanding, Aside
  <2>2. \E kind, class, target, home :
          Known(kind, class) /\ instances'[i] = MakeCommand(kind, class, target, home)
    BY <1>2, <2>1 DEF SameDocuments
  <2> QED
    BY <2>2 DEF MakeCommand
<1> QED
  BY <1>1, <1>2

\* Steps keep HomesCompound.
LEMMA HomesCompoundStep ==
  ASSUME Kept, EffectKind, HomesCompound
  PROVE  HomesCompound'
<1>1. \A j : Compound(j) => j \in Ids' /\ instances'[j].kind = "set" /\ instances'[j].class.queues
  BY DEF Compound, Kept, SameKind
<1> SUFFICES ASSUME NEW i \in Ids', NEW home, home = instances'[i].home
             PROVE  home = Root \/ Compound(home)
  BY <1>1 DEF HomesCompound, Compound
<1>2. CASE i \in Ids
  BY <1>2 DEF Kept, SameKind, HomesCompound
<1>3. CASE i \notin Ids
  BY <1>3, EffectIds DEF Bystanding, Aside
<1> QED
  BY <1>2, <1>3

\* The batch or command that popFrame finds on top once the frame, and the batch it may
\* close, are gone.
LEMMA PopParent ==
  ASSUME Basics, OInv, HomesCompound, NEW L, NEW closes, NEW done, Popping(L, closes, done),
         NEW parent, parent = Last(Groups(L - 1)')
  PROVE  /\ L - 1 \in 1 .. Depth /\ L - 1 < Depth
         /\ \E m \in 1 .. Len(Groups(L - 1)) :
              /\ parent = Groups(L - 1)[m]
              /\ m = IF closes THEN Len(Groups(L - 1)) - 1 ELSE Len(Groups(L - 1))
              /\ m = Len(Groups(L - 1)')
              /\ m > 1 => instances[parent].kind = "begin"
              /\ m = 1 => parent = Inst(L - 1)
         /\ parent # Root => /\ parent \in Ids /\ (InFrame(parent) \/ InGroup(parent))
                             /\ instances[parent].status = "Running"
                             /\ Compound(parent) \/ instances[parent].kind = "begin"
         /\ instances[Inst(L)].kind # "begin" => parent # done
<1>1. Leaving(L, closes, done) /\ Popped(L, closes) /\ Grouped /\ Statuses
  BY PopLeaves DEF Popping, OInv, Placed, Ordered
<1>2. L - 1 \in 1 .. Depth /\ L - 1 < Depth /\ L \in 2 .. Depth /\ L \in 1 .. Depth /\ L - 1 # L
  BY <1>1 DEF Leaving
<1>3. PICK n \in 1 .. Depth : n = L - 1
  BY <1>2
<1>4. /\ Sized(Groups(n)) /\ Len(Groups(n)) > 0 /\ Groups(n)[1] = Inst(n)
  BY <1>1 DEF Basics, FramesSized, Grouped
<1>5. PICK m : m = IF closes THEN Len(Groups(n)) - 1 ELSE Len(Groups(n))
  OBVIOUS
<1>6. /\ m \in 1 .. Len(Groups(n)) /\ m = Len(Groups(n)') /\ Groups(n)'[m] = Groups(n)[m]
  <2>1. CASE closes
    BY <1>1, <1>3, <1>4, <1>5, <2>1 DEF Leaving, Popped, Shortened, Sized
  <2>2. CASE ~closes
    BY <1>1, <1>3, <1>4, <1>5, <2>2 DEF Leaving, Popped, Sized
  <2> QED
    BY <2>1, <2>2
<1>7. parent = Groups(n)[m]
  BY <1>3, <1>6 DEF Last
<1>8. m > 1 => parent \in Ids /\ instances[parent].kind = "begin" /\ InGroup(parent)
  <2>1. m > 1 => m \in 2 .. Len(Groups(n))
    BY <1>4, <1>6 DEF Sized
  <2> QED
    BY <1>1, <1>7, <2>1 DEF Grouped, InGroup
<1>9. m = 1 => parent = Inst(n) /\ InFrame(parent)
  BY <1>4, <1>7 DEF InFrame
<1>10. m = 1 \/ m > 1
  BY <1>4, <1>6 DEF Sized
<1>11. m = 1 /\ parent # Root => Compound(parent)
  <2> SUFFICES ASSUME m = 1, parent # Root PROVE Compound(parent)
    OBVIOUS
  <2>1. n # 1
    BY <1>9 DEF Basics
  <2>2. n \in 2 .. Depth /\ n < Depth
    BY <1>2, <1>3, <2>1
  <2> QED
    BY <1>9, <2>2, RunsBelow
<1>12. parent # Root => parent \in Ids /\ instances[parent].status = "Running"
  BY <1>1, <1>8, <1>9, <1>10, <1>11 DEF Compound, Statuses
<1>13. ASSUME instances[Inst(L)].kind # "begin", parent = done PROVE FALSE
  <2>1. CASE closes
    <3>1. /\ Len(Groups(n)) > 1 /\ done = Groups(n)[Len(Groups(n))] /\ ~InFrame(done)
      BY <1>1, <1>3, <2>1 DEF Leaving
    <3>2. m = Len(Groups(n)) - 1
      BY <1>5, <2>1
    <3>3. m > 1
      BY <1>9, <1>10, <1>13, <3>1
    <3>4. m \in 2 .. Len(Groups(n)) /\ Len(Groups(n)) \in 2 .. Len(Groups(n)) /\ m # Len(Groups(n))
      <4>1. PICK l \in Nat : l = Len(Groups(n))
        BY <1>4 DEF Sized
      <4> QED
        BY <3>2, <3>3, <4>1
    <3>5. Groups(n)[m] = Groups(n)[Len(Groups(n))]
      BY <1>7, <1>13, <3>1
    <3> QED
      BY <1>1, <3>4, <3>5 DEF Grouped
  <2>2. CASE ~closes
    <3>1. done = Inst(L)
      BY <1>1, <2>2 DEF Leaving
    <3>2. parent = Inst(n)
      BY <1>8, <1>9, <1>10, <1>13, <3>1
    <3> QED
      BY <1>2, <1>3, <1>13, <3>1, <3>2 DEF Basics
  <2> QED
    BY <2>1, <2>2
<1> QED
  BY <1>2, <1>3, <1>5, <1>6, <1>7, <1>8, <1>9, <1>10, <1>11, <1>12, <1>13

\* Nothing happens to an instance that waits.
LEMMA QueuedUntouched ==
  ASSUME IInv, OInv, HomesCompound, EffectKind, NEW i \in Ids, instances[i].status = "Queued"
  PROVE  /\ instances'[i].error = instances[i].error
         /\ instances'[i].own = instances[i].own /\ instances'[i].data = instances[i].data
<1>1. Basics /\ Statuses
  BY BasicsHold DEF OInv, Ordered
<1>2. ~InFrame(i) /\ ~InGroup(i)
  BY <1>1 DEF Statuses
<1>3. CASE Bystanding \/ \E L, j : Takes(L, j)
  BY <1>3 DEF Bystanding, Aside, Takes, TakeEffect, SameDocuments, SameValues
<1>4. ASSUME NEW t \in Threads, NEW j, WriteEffect(t, j) \/ RollbackEffect(t, j)
      PROVE  /\ instances'[i].error = instances[i].error
             /\ instances'[i].own = instances[i].own /\ instances'[i].data = instances[i].data
  <2>1. PICK written : Recording(t, written)
    BY <1>4 DEF WriteEffect, RollbackEffect
  <2>2. i \notin Listening(t)
    BY <1>2, ListeningRuns
  <2> QED
    BY <2>1, <2>2 DEF Recording
<1>5. ASSUME NEW t \in Threads, NEW j, ReturnEffect(t, j)
      PROVE  /\ instances'[i].error = instances[i].error
             /\ instances'[i].own = instances[i].own /\ instances'[i].data = instances[i].data
  <2>1. i # j
    BY <1>2, <1>5, TopFrame DEF ReturnEffect
  <2> QED
    BY <1>5, <2>1 DEF ReturnEffect
<1>6. ASSUME NEW L, NEW closes, NEW done, Pops(L, closes, done)
      PROVE  /\ instances'[i].error = instances[i].error
             /\ instances'[i].own = instances[i].own /\ instances'[i].data = instances[i].data
  <2>1. Popping(L, closes, done) /\ PopEffect(L, closes, done)
    BY <1>6 DEF Pops
  <2>2. Leaving(L, closes, done)
    BY <1>1, <2>1, PopLeaves
  <2>3. InFrame(done) \/ InGroup(done)
    BY <2>2 DEF Leaving, InFrame
  <2>4. i # done
    BY <1>2, <2>3
  <2>5. PICK parent : parent = Last(Groups(L - 1)')
    OBVIOUS
  <2>6. parent # Root => InFrame(parent) \/ InGroup(parent)
    BY <1>1, <2>1, <2>5, PopParent
  <2>7. parent # Root => i # parent
    BY <1>2, <2>6
  <2>8. instances'[i].data = instances[i].data
    BY <2>1, <2>4, <2>5, <2>7 DEF PopEffect, Opened, HandedUp, EnteredNow, KeptBack, SameData, Handed
  <2> QED
    BY <2>1, <2>4, <2>8 DEF PopEffect
<1>7. CASE Stepping
  BY <1>7 DEF Stepping, UndoEntry, RedoEntry
<1> QED
  BY <1>3, <1>4, <1>5, <1>6, <1>7 DEF EffectKind

\* Steps keep Pristine.
LEMMA PristineStep ==
  ASSUME IInv, OInv, HomesCompound, StepKind, EffectKind, Pristine
  PROVE  Pristine'
<1> SUFFICES ASSUME NEW i \in Ids', instances'[i].status = "Queued"
             PROVE  /\ instances'[i].error = "none" /\ instances'[i].own = NoHelpers
                    /\ instances'[i].data = <<>>
  BY DEF Pristine, NoHelpers
<1>1. CASE i \in Ids
  <2>1. instances[i].status = "Queued"
    BY <1>1, BasicsHold, StatusSteps
  <2> QED
    BY <1>1, <2>1, QueuedUntouched DEF Pristine
<1>2. CASE i \notin Ids
  <2>1. SameDocuments
    BY <1>2, EffectIds DEF Bystanding, Aside
  <2>2. \E kind, class, target, home :
          Known(kind, class) /\ instances'[i] = MakeCommand(kind, class, target, home)
    BY <1>2, <2>1 DEF SameDocuments
  <2> QED
    BY <2>2 DEF MakeCommand
<1> QED
  BY <1>1, <1>2

\* Steps keep Returned.
LEMMA ReturnedStep ==
  ASSUME IInv, OInv, Pristine, EffectKind, Returned
  PROVE  Returned'
<1> DEFINE Error(i) == instances'[i].error
<1>0. Basics /\ Statuses
  BY BasicsHold DEF OInv, Ordered
<1>1. SUFFICES ASSUME NEW t \in Threads, NEW k, NEW i
               PROVE  /\ Does(t, k, "exec", i)' => Error(i) = "none"
                      /\ Does(t, k, "spin", i)' => Error(i) # "none"
  BY DEF Returned
<1>2. \A at \in {"exec", "spin"} : Does(t, k, at, i) => i \in Ids /\ InFrame(i)
  BY OwnsFrame
<1>3. ASSUME i \in Ids => instances'[i].error = instances[i].error, NoNewOwner
      PROVE  /\ Does(t, k, "exec", i)' => Error(i) = "none"
             /\ Does(t, k, "spin", i)' => Error(i) # "none"
  BY <1>2, <1>3 DEF Returned, NoNewOwner
<1>4. CASE Bystanding
  BY <1>3, <1>4 DEF Bystanding, Aside, SameDocuments
<1>5. ASSUME NEW L, NEW j, Takes(L, j)
      PROVE  /\ Does(t, k, "exec", i)' => Error(i) = "none"
             /\ Does(t, k, "spin", i)' => Error(i) # "none"
  <2>1. Taken(L, j) /\ j \in Ids /\ \A l \in Ids : instances'[l].error = instances[l].error
    BY <1>5 DEF Takes, TakeEffect, SameDocuments
  <2>2. InQueue(j)
    BY <1>0, <2>1, TakenPlaces
  <2>3. instances[j].error = "none"
    BY <1>0, <2>1, <2>2 DEF Statuses, Pristine
  <2>4. Does(t, k, "exec", i)' => Does(t, k, "exec", i) \/ i = j
    BY <1>5 DEF Takes, TakeEffect
  <2>5. Does(t, k, "spin", i)' => Does(t, k, "spin", i)
    BY <1>5 DEF Takes, TakeEffect, NoNew
  <2> QED
    BY <1>2, <2>1, <2>3, <2>4, <2>5 DEF Returned
<1>6. ASSUME NEW u \in Threads, NEW j, WriteEffect(u, j) \/ RollbackEffect(u, j)
      PROVE  /\ Does(t, k, "exec", i)' => Error(i) = "none"
             /\ Does(t, k, "spin", i)' => Error(i) # "none"
  <2>1. PICK written : Recording(u, written)
    BY <1>6 DEF WriteEffect, RollbackEffect
  <2>2. NoNewOwner
    BY <1>6 DEF WriteEffect, RollbackEffect, NoNewOwner, Does
  <2> QED
    BY <1>3, <2>1, <2>2 DEF Recording
<1>7. ASSUME NEW u \in Threads, NEW j, ReturnEffect(u, j)
      PROVE  /\ Does(t, k, "exec", i)' => Error(i) = "none"
             /\ Does(t, k, "spin", i)' => Error(i) # "none"
  <2>1. /\ Does(t, k, "exec", i)' => Does(t, k, "exec", i) /\ i # j
        /\ Does(t, k, "spin", i)' => Does(t, k, "spin", i) \/ i = j
    BY <1>7 DEF ReturnEffect
  <2>2. /\ instances'[j].error \in {"ok", "batch", "failed"}
        /\ \A l \in Ids : l # j => instances'[l].error = instances[l].error
    BY <1>7 DEF ReturnEffect
  <2>3. CASE i = j
    BY <2>1, <2>2, <2>3
  <2>4. CASE i # j
    BY <1>2, <2>1, <2>2, <2>4 DEF Returned
  <2> QED
    BY <2>3, <2>4
<1>8. ASSUME NEW L, NEW closes, NEW done, Pops(L, closes, done)
      PROVE  /\ Does(t, k, "exec", i)' => Error(i) = "none"
             /\ Does(t, k, "spin", i)' => Error(i) # "none"
  <2>1. Leaving(L, closes, done) /\ NoNewOwner
    BY <1>0, <1>8, PopLeaves DEF Pops, PopEffect
  <2>2. closes => ~InFrame(done)
    BY <2>1 DEF Leaving
  <2>3. \A l \in Ids : ~(closes /\ l = done) => instances'[l].error = instances[l].error
    BY <1>8 DEF Pops, PopEffect
  <2>4. \A at \in {"exec", "spin"} : Does(t, k, at, i)' => Does(t, k, at, i)
    BY <2>1 DEF NoNewOwner
  <2> QED
    BY <1>2, <2>2, <2>3, <2>4 DEF Returned
<1>9. CASE Stepping
  <2>1. NoNewOwner /\ UNCHANGED instances
    BY <1>9 DEF Stepping, UndoEntry, RedoEntry, NoNewOwner, Does
  <2> QED
    BY <1>3, <2>1
<1> QED
  BY <1>4, <1>5, <1>6, <1>7, <1>8, <1>9 DEF EffectKind

\* The frames change with a frame that comes or goes; children go only by compression.
LEMMA EffectFrames ==
  ASSUME Basics, EffectKind
  PROVE  /\ FramesSame \/ (\E L, i : Takes(L, i)) \/ \E L, closes, done : Pops(L, closes, done)
         /\ ChildrenStay(instances', instances)
<1>1. UNCHANGED commandFrames => FramesSame
  BY DEF FramesSame, Depth, Inst, Groups
<1>2. Stepping => UNCHANGED <<commandFrames, instances>>
  BY DEF Stepping, UndoEntry, RedoEntry
<1>3. ASSUME NEW L, NEW i, TakeEffect(L, i) PROVE ChildrenStay(instances', instances)
  <2> SUFFICES ASSUME NEW j \in Ids, instances'[j].children = <<>>
               PROVE  instances[j].children = <<>>
    BY DEF ChildrenStay
  <2>1. PICK c : c = instances[j].children
    OBVIOUS
  <2>2. instances'[j].children = Append(c, i) \/ instances'[j].children = c
    BY <1>3, <2>1 DEF TakeEffect
  <2>3. Append(c, i) # <<>>
    OBVIOUS
  <2> QED
    BY <2>1, <2>2, <2>3
<1>4. (\A j \in Ids : instances'[j].children = instances[j].children) =>
        ChildrenStay(instances', instances)
  BY DEF ChildrenStay
<1>5. CASE Bystanding
  BY <1>4, <1>5 DEF Bystanding, Aside
<1>6. ASSUME NEW t \in Threads, NEW i, WriteEffect(t, i) \/ ReturnEffect(t, i) \/ RollbackEffect(t, i)
      PROVE  FramesSame /\ ChildrenStay(instances', instances)
  BY <1>1, <1>4, <1>6 DEF WriteEffect, ReturnEffect, RollbackEffect, Recording
<1>7. ASSUME NEW L, NEW closes, NEW done, PopEffect(L, closes, done)
      PROVE  ChildrenStay(instances', instances)
  BY <1>7 DEF PopEffect
<1> QED
  BY <1>1, <1>2, <1>3, <1>4, <1>5, <1>6, <1>7 DEF EffectKind, Bystanding, Takes, Pops

\* What a frame's groups are.
LEMMA GroupIds ==
  ASSUME Basics, Grouped, NEW n \in 1 .. Depth, NEW k \in 1 .. Len(Groups(n))
  PROVE  /\ Groups(n)[k] \in Ids \cup {Root}
         /\ k = 1 => Groups(n)[k] = Inst(n)
         /\ k > 1 => /\ k \in 2 .. Len(Groups(n)) /\ Groups(n)[k] \in Ids
                     /\ instances[Groups(n)[k]].kind = "begin"
                     /\ instances[Groups(n)[k]].home = Inst(n)
<1>1. Sized(Groups(n)) /\ Groups(n)[1] = Inst(n)
  BY DEF Basics, FramesSized, Grouped
<1>2. k > 1 => k \in 2 .. Len(Groups(n))
  BY <1>1 DEF Sized
<1>3. k = 1 \/ k > 1
  BY <1>1 DEF Sized
<1>4. Inst(n) \in Ids \cup {Root}
  <2>1. n = 1 \/ n \in 2 .. Depth
    BY DEF Basics, FramesSized
  <2> QED
    BY <2>1 DEF Basics
<1>5. ASSUME k > 1
      PROVE  /\ Groups(n)[k] \in Ids /\ instances[Groups(n)[k]].kind = "begin"
             /\ instances[Groups(n)[k]].home = Inst(n)
  BY <1>2, <1>5 DEF Grouped
<1> QED
  BY <1>1, <1>2, <1>3, <1>4, <1>5

\* A frame that does not change stays filled.
LEMMA FilledSame ==
  ASSUME Basics, Grouped, Kept, ChildrenStay(instances', instances), NEW n \in 1 .. Depth, Filled(n),
         Groups(n)' = Groups(n), n < Depth' => n < Depth /\ Inst(n + 1)' = Inst(n + 1)
  PROVE  Filled(n)'
<1> SUFFICES ASSUME NEW k \in 1 .. Len(Groups(n)), NEW P, P = Groups(n)[k], P # Root
             PROVE  /\ k < Len(Groups(n)) => instances'[P].children # <<>>
                    /\ k = Len(Groups(n)) /\ n < Depth' /\ Inst(n + 1)' # P /\ ~Closing(Inst(n + 1))' =>
                         instances'[P].children # <<>>
  BY DEF Filled
<1>1. P \in Ids
  BY GroupIds
<1>2. instances[P].children # <<>> => instances'[P].children # <<>>
  BY <1>1 DEF ChildrenStay
<1>3. n < Depth' => (Closing(Inst(n + 1))' <=> Closing(Inst(n + 1)))
  <2>1. n < Depth => Inst(n + 1) \in Ids
    <3>1. n < Depth => n + 1 \in 2 .. Depth
      BY DEF Basics, FramesSized
    <3> QED
      BY <3>1 DEF Basics
  <2>2. \A i \in Ids : instances'[i].kind = instances[i].kind
    BY DEF Kept, SameKind
  <2> QED
    BY <2>1, <2>2 DEF Closing
<1> QED
  BY <1>2, <1>3 DEF Filled

\* Steps keep Behind.
LEMMA BehindStep ==
  ASSUME Basics, OInv, Kept, EffectKind, Behind
  PROVE  Behind'
<1>0. Grouped /\ ChildrenStay(instances', instances)
  BY EffectFrames DEF OInv, Placed
<1>a. SUFFICES ASSUME NEW n \in 1 .. Depth' PROVE Filled(n)'
  BY DEF Behind
<1>b. Depth \in Nat /\ Depth > 0
  BY DEF Basics, FramesSized
<1>1. CASE FramesSame
  <2>1. n \in 1 .. Depth /\ Depth' = Depth
    BY <1>1 DEF FramesSame
  <2>2. n < Depth => n + 1 \in 1 .. Depth
    BY <1>b, <2>1
  <2> QED
    BY <1>0, <1>1, <2>1, <2>2, FilledSame DEF FramesSame, Behind
<1>2. ASSUME NEW L, NEW i, Takes(L, i) PROVE Filled(n)'
  <2>1. Taken(L, i) /\ i \in Ids /\ L = Depth /\ Depth' = L + 1
    BY <1>2 DEF Takes, TakeEffect, Taken, Dequeued
  <2>2. PICK parent : parent = Last(Groups(L))
    OBVIOUS
  <2>3. /\ \A m \in 1 .. L : Inst(m)' = Inst(m) /\ (m # L => Groups(m)' = Groups(m))
        /\ Inst(L + 1)' = i /\ Groups(L + 1)' = <<i>>
        /\ IF instances[i].kind = "begin" THEN Extended(Groups(L)', Groups(L), i)
                                          ELSE Groups(L)' = Groups(L)
    BY <2>1 DEF Taken, Dequeued
  <2>4. CASE n < L
    <3>1. n \in 1 .. Depth /\ n + 1 \in 1 .. L /\ n # L /\ n \in 1 .. L /\ n < Depth
      BY <1>b, <2>1, <2>4
    <3> QED
      BY <1>0, <2>3, <3>1, FilledSame DEF Behind
  <2>5. CASE n = L + 1
    <3>1. Len(Groups(n)') = 1 /\ ~(n < Depth')
      <4>1. Len(<<i>>) = 1
        OBVIOUS
      <4> QED
        BY <1>b, <2>1, <2>3, <2>5, <4>1
    <3>2. \A k \in 1 .. 1 : ~(k < 1)
      OBVIOUS
    <3> QED
      BY <3>1, <3>2 DEF Filled
  <2>6. CASE n = L
    <3>1. Sized(Groups(L)) /\ Len(Groups(L)) > 0 /\ L \in 1 .. Depth
      BY <1>0, <1>b, <2>1 DEF Basics, FramesSized, Grouped
    <3>2. parent = Groups(L)[Len(Groups(L))]
      BY <2>2 DEF Last
    <3>3. parent # Root /\ ~Closing(i) => parent \in Ids /\ instances'[parent].children # <<>>
      <4> SUFFICES ASSUME parent # Root, ~Closing(i)
                   PROVE  parent \in Ids /\ instances'[parent].children # <<>>
        OBVIOUS
      <4>1. Len(Groups(L)) \in 1 .. Len(Groups(L))
        BY <3>1 DEF Sized
      <4>2. parent \in Ids
        BY <1>0, <3>1, <3>2, <4>1, GroupIds
      <4>3. PICK c : c = instances[parent].children
        OBVIOUS
      <4>4. instances'[parent].children = Append(c, i)
        BY <1>2, <2>2, <4>2, <4>3 DEF Takes, TakeEffect
      <4>5. Append(c, i) # <<>>
        OBVIOUS
      <4> QED
        BY <4>2, <4>4, <4>5
    <3>4. SUFFICES ASSUME NEW k \in 1 .. Len(Groups(L)'), NEW P, P = Groups(L)'[k], P # Root
          PROVE  /\ k < Len(Groups(L)') => instances'[P].children # <<>>
                 /\ k = Len(Groups(L)') /\ i # P /\ ~Closing(i)' => instances'[P].children # <<>>
      BY <2>3, <2>6 DEF Filled, Closing
    <3>5. Closing(i)' <=> Closing(i)
      BY <2>1 DEF Kept, SameKind, Closing
    <3>6. CASE instances[i].kind = "begin"
      <4>1. /\ Extended(Groups(L)', Groups(L), i) /\ ~Closing(i)
            /\ Len(Groups(L)') = Len(Groups(L)) + 1
        BY <2>3, <3>6 DEF Closing, Extended
      <4>2. k < Len(Groups(L)') => k \in 1 .. Len(Groups(L)) /\ P = Groups(L)[k]
        BY <3>1, <3>4, <4>1 DEF Extended, Sized
      <4>3. k = Len(Groups(L)') => P = i
        BY <3>4, <4>1 DEF Extended
      <4>4. ASSUME k < Len(Groups(L)') PROVE instances'[P].children # <<>>
        <5>1. CASE k = Len(Groups(L))
          BY <3>2, <3>3, <3>4, <4>1, <4>2, <4>4, <5>1
        <5>2. CASE k # Len(Groups(L))
          <6>1. k < Len(Groups(L)) /\ P = Groups(L)[k] /\ k \in 1 .. Len(Groups(L))
            <7>1. PICK l \in Nat : l = Len(Groups(L))
              BY <3>1 DEF Sized
            <7>2. k \in 1 .. l /\ P = Groups(L)[k] /\ k # l
              BY <4>2, <4>4, <5>2, <7>1
            <7> QED
              BY <7>1, <7>2
          <6>2. instances[P].children # <<>>
            <7>1. Filled(L)
              BY <3>1 DEF Behind
            <7>2. Groups(L)[k] # Root
              BY <3>4, <6>1
            <7>3. instances[Groups(L)[k]].children # <<>>
              BY <6>1, <7>1, <7>2 DEF Filled
            <7> QED
              BY <6>1, <7>3
          <6>3. P \in Ids
            BY <1>0, <3>1, <3>4, <6>1, GroupIds
          <6> QED
            BY <1>0, <6>2, <6>3 DEF ChildrenStay
        <5> QED
          BY <5>1, <5>2
      <4> QED
        BY <4>3, <4>4
    <3>7. CASE instances[i].kind # "begin"
      <4>1. Groups(L)' = Groups(L) /\ k \in 1 .. Len(Groups(L)) /\ P = Groups(L)[k]
        BY <2>3, <3>4, <3>7
      <4>2. k < Len(Groups(L)) => instances'[P].children # <<>>
        <5>1. k < Len(Groups(L)) => instances[P].children # <<>>
          BY <3>1, <3>4, <4>1 DEF Behind, Filled
        <5>2. P \in Ids
          BY <1>0, <3>1, <3>4, <4>1, GroupIds
        <5> QED
          BY <1>0, <5>1, <5>2 DEF ChildrenStay
      <4>3. k = Len(Groups(L)) /\ ~Closing(i) => instances'[P].children # <<>>
        BY <3>2, <3>3, <3>4, <4>1
      <4> QED
        BY <3>5, <4>1, <4>2, <4>3
    <3> QED
      BY <3>6, <3>7
  <2>7. n < L \/ n = L \/ n = L + 1
    BY <1>b, <2>1
  <2> QED
    BY <2>4, <2>5, <2>6, <2>7
<1>3. ASSUME NEW L, NEW closes, NEW done, Pops(L, closes, done) PROVE Filled(n)'
  <2>1. Popped(L, closes) /\ Leaving(L, closes, done)
    BY <1>3, PopLeaves DEF Pops, PopEffect
  <2>2. L = Depth /\ Depth' = L - 1 /\ L \in Nat /\ L > 1
    BY <1>b, <2>1 DEF Popped
  <2>3. n \in 1 .. Depth /\ n < Depth /\ n \in 1 .. L - 1
    BY <1>b, <2>2
  <2>4. /\ \A m \in 1 .. L - 1 : Inst(m)' = Inst(m) /\ (m # L - 1 => Groups(m)' = Groups(m))
        /\ IF closes THEN Len(Groups(L - 1)) > 0 /\ Shortened(Groups(L - 1)', Groups(L - 1))
                     ELSE Groups(L - 1)' = Groups(L - 1)
    BY <2>1 DEF Popped
  <2>5. CASE n # L - 1
    <3>1. n + 1 \in 1 .. L - 1
      BY <2>2, <2>3, <2>5
    <3> QED
      BY <1>0, <2>2, <2>3, <2>4, <2>5, <3>1, FilledSame DEF Behind
  <2>6. CASE n = L - 1
    <3>1. ~(n < Depth') /\ Sized(Groups(n))
      BY <2>2, <2>3, <2>6 DEF Basics, FramesSized
    <3>2. SUFFICES ASSUME NEW k \in 1 .. Len(Groups(n)'), NEW P, P = Groups(n)'[k], P # Root,
                          k < Len(Groups(n)')
                   PROVE  instances'[P].children # <<>>
      BY <3>1 DEF Filled
    <3>3. k \in 1 .. Len(Groups(n)) /\ k < Len(Groups(n)) /\ P = Groups(n)[k]
      <4>1. CASE closes
        <5>1. Shortened(Groups(n)', Groups(n)) /\ Len(Groups(n)') = Len(Groups(n)) - 1
          BY <2>4, <2>6, <4>1 DEF Shortened
        <5>2. k \in 1 .. Len(Groups(n)) - 1 /\ k \in 1 .. Len(Groups(n)) /\ k < Len(Groups(n))
          BY <3>1, <3>2, <5>1 DEF Sized
        <5> QED
          BY <3>2, <5>1, <5>2 DEF Shortened
      <4>2. CASE ~closes
        BY <2>4, <2>6, <3>2, <4>2
      <4> QED
        BY <4>1, <4>2
    <3>4. instances[P].children # <<>> /\ P \in Ids
      BY <1>0, <2>3, <3>2, <3>3, GroupIds DEF Behind, Filled
    <3> QED
      BY <1>0, <3>4 DEF ChildrenStay
  <2> QED
    BY <2>5, <2>6
<1> QED
  BY <1>1, <1>2, <1>3, EffectFrames

\* A new instance has no error, no undo data, and nothing recorded.
LEMMA NewInstance ==
  ASSUME EffectKind, NEW i \in Ids', i \notin Ids
  PROVE  /\ instances'[i].error = "none" /\ instances'[i].own = NoHelpers
         /\ instances'[i].data = <<>> /\ instances'[i].children = <<>>
<1>1. SameDocuments
  BY EffectIds DEF Bystanding, Aside
<1>2. \E kind, class, target, home :
        Known(kind, class) /\ instances'[i] = MakeCommand(kind, class, target, home)
  BY <1>1 DEF SameDocuments
<1> QED
  BY <1>2 DEF MakeCommand

\* Steps keep OkErrors.
LEMMA OkErrorsStep ==
  ASSUME Orderly, Basics, OInv, Kept, EffectKind, Kinds, OkErrors
  PROVE  OkErrors'
<1> DEFINE Ok(i, e) ==
      /\ instances[i].kind = "set" /\ (instances[i].class.writes \/ instances[i].class.queues) =>
           e \in {"none", "ok"}
      /\ instances[i].kind \in {"begin", "end"} => e \in {"none", "batch"}
<1>1. SUFFICES ASSUME NEW i \in Ids PROVE Ok(i, instances'[i].error)
  <2>1. \A i \in Ids' : i \in Ids \/ instances'[i].error = "none"
    BY NewInstance
  <2>2. \A i \in Ids : instances'[i].kind = instances[i].kind /\ instances'[i].class = instances[i].class
    BY DEF Kept, SameKind
  <2> QED
    BY <1>1, <2>1, <2>2 DEF OkErrors
<1>2. Ok(i, instances[i].error)
  BY DEF OkErrors
<1>3. ASSUME NEW t \in Threads, NEW j, ReturnEffect(t, j) PROVE Ok(i, instances'[i].error)
  <2>1. CASE i = j
    <3>1. instances[i].class.writes \/ instances[i].class.queues => ~instances[i].class.fails
      BY KindParts
    <3> QED
      BY <1>3, <2>1, <3>1 DEF ReturnEffect
  <2>2. CASE i # j
    BY <1>2, <1>3, <2>2 DEF ReturnEffect
  <2> QED
    BY <2>1, <2>2
<1>4. ASSUME NEW L, NEW closes, NEW done, Pops(L, closes, done) PROVE Ok(i, instances'[i].error)
  <2>1. CASE closes /\ i = done
    <3>1. Leaving(L, closes, done)
      BY <1>4, PopLeaves DEF Pops
    <3>2. Inst(L) \in Ids /\ Closing(Inst(L)) /\ instances[done].kind = "begin"
      BY <2>1, <3>1 DEF Leaving
    <3>3. instances[Inst(L)].kind = "end"
      BY <3>2, KindParts DEF Closing
    <3>4. instances[Inst(L)].error \in {"none", "batch"}
      BY <3>2, <3>3 DEF OkErrors
    <3>5. instances'[i].error = instances[Inst(L)].error
      BY <1>4, <2>1 DEF Pops, PopEffect
    <3> QED
      BY <2>1, <3>2, <3>4, <3>5
  <2>2. CASE ~(closes /\ i = done)
    BY <1>2, <1>4, <2>2 DEF Pops, PopEffect
  <2> QED
    BY <2>1, <2>2
<1>5. CASE Stepping
  BY <1>2, <1>5 DEF Stepping, UndoEntry, RedoEntry
<1>6. CASE Bystanding \/ \E L, j : Takes(L, j)
  BY <1>2, <1>6 DEF Bystanding, Aside, Takes, TakeEffect, SameDocuments
<1>7. ASSUME NEW t \in Threads, NEW j, WriteEffect(t, j) \/ RollbackEffect(t, j)
      PROVE  Ok(i, instances'[i].error)
  BY <1>2, <1>7 DEF WriteEffect, RollbackEffect, Recording
<1> QED
  BY <1>3, <1>4, <1>5, <1>6, <1>7 DEF EffectKind

\* Nothing is recorded of nothing.
LEMMA RecordNothing ==
  ASSUME NEW W, NEW list \in Lists(W), NEW doc, NEW new
  PROVE  RecordWrites(list, {}, doc, new) = list
<1>1. list = [q \in DOMAIN list |-> list[q]]
  BY ListFields
<1>2. RecordWrites(list, {}, doc, new) = [q \in DOMAIN list \cup {} |-> list[q]]
  BY DEF RecordWrites
<1>3. DOMAIN list \cup {} = DOMAIN list
  OBVIOUS
<1> QED
  BY <1>1, <1>2, <1>3

\* What is rolled back leaves the document, and what is recorded, as they are.
LEMMA RollbackNothing ==
  ASSUME OInv, Documented, Rolled, NEW t \in Threads, NEW i, RollbackEffect(t, i)
  PROVE  /\ document' = document /\ i \in Ids
         /\ \A j \in Ids : instances'[j].own = instances[j].own
<1>1. PICK k : Does(t, k, "rollback", i)
  BY DEF RollbackEffect
<1>2. i \in Ids /\ Written(instances[i].data) = {}
  BY <1>1 DEF Rolled, OInv, Ordered, Statuses, Holding
<1>3. instances[i].data \in DataOf(Values) /\ document \in Docs(Values)
  BY <1>2 DEF Documented, InstanceDocumented
<1>4. document' = document
  <2>1. document' = Undo(instances[i].data, document)
    BY DEF RollbackEffect
  <2> QED
    BY <1>2, <1>3, <2>1, EffectlessUndo
<1>5. ASSUME NEW j \in Ids PROVE instances'[j].own = instances[j].own
  <2>1. Recording(t, {})
    BY <1>2 DEF RollbackEffect
  <2>2. instances'[j].own = instances[j].own \/
        instances'[j].own = RecordWrites(instances[j].own, {}, document, document')
    BY <2>1 DEF Recording
  <2>3. instances[j].own \in Lists(Values)
    BY DEF Documented, InstanceDocumented
  <2> QED
    BY <2>2, <2>3, RecordNothing
<1> QED
  BY <1>2, <1>4, <1>5

\* Steps keep Clean.
LEMMA CleanStep ==
  ASSUME Orderly, IInv, OInv, Kept, EffectKind, Kinds, HomesCompound, Documented, Rolled, Clean
  PROVE  Clean'
<1>1. \A i \in Ids : instances'[i].kind = instances[i].kind /\ instances'[i].class = instances[i].class
  BY DEF Kept, SameKind
<1>2. SUFFICES ASSUME NEW i \in Ids, instances'[i].own # instances[i].own
               PROVE  instances[i].kind = "set" /\ instances[i].class.writes
  <2>1. ASSUME NEW j \in Ids', instances'[j].own # NoHelpers
        PROVE  instances'[j].kind = "set" /\ instances'[j].class.writes
    <3>1. j \in Ids
      BY <2>1, NewInstance
    <3>2. CASE instances'[j].own # instances[j].own
      BY <1>1, <1>2, <3>1, <3>2
    <3>3. CASE instances'[j].own = instances[j].own
      BY <1>1, <2>1, <3>1, <3>3 DEF Clean
    <3> QED
      BY <3>2, <3>3
  <2> QED
    BY <2>1 DEF Clean, NoHelpers
<1>3. CASE Bystanding \/ \E L, j : Takes(L, j)
  BY <1>2, <1>3 DEF Bystanding, Aside, Takes, TakeEffect, SameDocuments, SameValues
<1>4. ASSUME NEW t \in Threads, NEW j, WriteEffect(t, j)
      PROVE  instances[i].kind = "set" /\ instances[i].class.writes
  <2>1. /\ At(t, "exec") /\ j = Top(t).inst /\ instances[j].class.writes
        /\ instances[j].kind = "set"
    BY <1>4 DEF WriteEffect
  <2>2. Listening(t) = {j}
    BY <2>1, WriterAlone
  <2>3. i \in Listening(t)
    BY <1>2, <1>4 DEF WriteEffect, Recording
  <2> QED
    BY <2>1, <2>2, <2>3
<1>5. ASSUME NEW t \in Threads, NEW j, ReturnEffect(t, j) PROVE FALSE
  BY <1>2, <1>5 DEF ReturnEffect
<1>6. ASSUME NEW t \in Threads, NEW j, RollbackEffect(t, j) PROVE FALSE
  BY <1>2, <1>6, RollbackNothing
<1>7. ASSUME NEW L, NEW closes, NEW done, Pops(L, closes, done) PROVE FALSE
  BY <1>2, <1>7 DEF Pops, PopEffect
<1>8. CASE Stepping
  BY <1>2, <1>8 DEF Stepping, UndoEntry, RedoEntry
<1> QED
  BY <1>3, <1>4, <1>5, <1>6, <1>7, <1>8 DEF EffectKind

\* Undo data of entries that change nothing.
LEMMA WrittenNone ==
  /\ Written(<<>>) = {}
  /\ \A W : \A data \in DataOf(W) : \A m :
       Written(data) = {} => Written(Append(data, [mergeable |-> m, helpers |-> NoHelpers])) = {}
<1>1. Written(<<>>) = {}
  <2>1. DOMAIN <<>> = {}
    OBVIOUS
  <2> QED
    BY <2>1 DEF Written
<1>2. ASSUME NEW W, NEW data \in DataOf(W), NEW e, e.helpers = NoHelpers, Written(data) = {}
      PROVE  Written(Append(data, e)) = {}
  <2>1. DOMAIN NoHelpers = {}
    BY DEF NoHelpers
  <2>2. data \in Seq(DataEntry(W))
    BY DEF DataOf
  <2>3. /\ DOMAIN Append(data, e) = 1 .. Len(data) + 1 /\ Len(data) \in Nat
        /\ DOMAIN data = 1 .. Len(data)
        /\ \A k \in 1 .. Len(data) : Append(data, e)[k] = data[k]
        /\ Append(data, e)[Len(data) + 1] = e
    BY <2>2
  <2>4. \A k \in DOMAIN data : DOMAIN data[k].helpers = {}
    BY <1>2 DEF Written
  <2>5. ASSUME NEW k \in DOMAIN Append(data, e) PROVE DOMAIN Append(data, e)[k].helpers = {}
    <3>1. CASE k \in 1 .. Len(data)
      BY <2>3, <2>4, <3>1
    <3>2. CASE k = Len(data) + 1
      BY <1>2, <2>1, <2>3, <3>2
    <3> QED
      BY <2>3, <2>5, <3>1, <3>2
  <2> QED
    BY <2>5 DEF Written
<1>3. \A m : [mergeable |-> m, helpers |-> NoHelpers].helpers = NoHelpers
  OBVIOUS
<1> QED
  BY <1>1, <1>2, <1>3

\* What popFrame keeps back has changed nothing: only what has no effect fails.
LEMMA KeptBackNothing ==
  ASSUME Orderly, Basics, OInv, RInv, NEW L, NEW closes, NEW done, Pops(L, closes, done),
         KeptBack(Inst(L), done)
  PROVE  Written(instances[done].data) = {}
<1>1. Leaving(L, closes, done) /\ Kinds /\ Returned /\ OkErrors /\ Effectless
  BY PopLeaves DEF Pops, RInv
<1>2. /\ \E t \in Threads : \E k : Does(t, k, "spin", Inst(L))
      /\ instances'[done].error = IF closes THEN instances[Inst(L)].error ELSE instances[done].error
      /\ closes \in BOOLEAN
  BY DEF Pops, PopEffect
<1>3. Inst(L) \in Ids /\ done \in Ids /\ instances[Inst(L)].error # "none"
  BY <1>1, <1>2 DEF Leaving, Returned
<1>4. SUFFICES Idles(done)
  BY <1>1, <1>3 DEF Effectless
<1>5. CASE closes
  <2>1. Closing(Inst(L)) /\ instances[done].kind = "begin"
    BY <1>1, <1>5 DEF Leaving
  <2>2. instances[Inst(L)].kind = "end"
    BY <1>1, <1>3, <2>1, KindParts DEF Closing
  <2>3. instances'[done].error = "batch"
    BY <1>1, <1>2, <1>3, <1>5, <2>2 DEF OkErrors
  <2>4. instances[done].class.canUndo
    BY <1>1, <1>3, <2>1, KindParts
  <2> QED
    BY <2>1, <2>3, <2>4 DEF KeptBack, SucceedsNow, Idles
<1>6. CASE ~closes
  <2>1. done = Inst(L) /\ instances[done].kind # "undoRedo"
    BY <1>1, <1>6 DEF Leaving
  <2>2. instances[done].kind \in {"set", "end"}
    BY <1>1, <1>3, <2>1, KindParts DEF KeptBack
  <2>3. CASE instances[done].class.writes \/ instances[done].class.queues
    <3>1. instances[done].kind = "end" => Idles(done)
      BY DEF Idles
    <3>2. instances[done].class.canUndo
      BY <1>1, <1>3, <2>3, KindParts
    <3>3. instances[done].kind = "set" => instances'[done].error = "ok"
      BY <1>1, <1>2, <1>3, <1>6, <2>1, <2>3 DEF OkErrors
    <3> QED
      BY <2>2, <3>1, <3>2, <3>3 DEF KeptBack, SucceedsNow
  <2> QED
    BY <2>2, <2>3 DEF Idles
<1> QED
  BY <1>2, <1>5, <1>6

\* What a command is handed to is compound, or a batch with children.
LEMMA HandedParent ==
  ASSUME Basics, OInv, HomesCompound, Behind, NEW L, NEW closes, NEW done, Pops(L, closes, done),
         NEW parent, parent = Last(Groups(L - 1)'), HandedUp(Inst(L), done, parent)
  PROVE  /\ parent \in Ids /\ parent # done
         /\ InFrame(parent) \/ InGroup(parent)
         /\ Compound(parent) \/ (instances[parent].kind = "begin" /\ instances[parent].children # <<>>)
<1>1. Popping(L, closes, done) /\ Leaving(L, closes, done)
  BY PopLeaves DEF Pops
<1>2. /\ L - 1 \in 1 .. Depth /\ L - 1 < Depth
      /\ \E m \in 1 .. Len(Groups(L - 1)) :
           /\ parent = Groups(L - 1)[m]
           /\ m = IF closes THEN Len(Groups(L - 1)) - 1 ELSE Len(Groups(L - 1))
      /\ parent # Root => /\ parent \in Ids /\ (InFrame(parent) \/ InGroup(parent))
                          /\ Compound(parent) \/ instances[parent].kind = "begin"
      /\ instances[Inst(L)].kind # "begin" => parent # done
  BY <1>1, PopParent
<1>3. parent # Root /\ instances[Inst(L)].kind # "begin"
  BY DEF HandedUp
<1>4. ASSUME instances[parent].kind = "begin" PROVE instances[parent].children # <<>>
  <2>1. PICK m \in 1 .. Len(Groups(L - 1)) :
          /\ parent = Groups(L - 1)[m]
          /\ m = IF closes THEN Len(Groups(L - 1)) - 1 ELSE Len(Groups(L - 1))
    BY <1>2
  <2>2. Filled(L - 1)
    BY <1>2 DEF Behind
  <2>3. Sized(Groups(L - 1))
    BY <1>2 DEF Basics, FramesSized
  <2>4. (L - 1) + 1 = L
    BY <1>1 DEF Leaving
  <2>5. CASE closes
    <3>1. m < Len(Groups(L - 1))
      BY <2>1, <2>3, <2>5 DEF Sized
    <3> QED
      BY <1>3, <2>1, <2>2, <3>1 DEF Filled
  <2>6. CASE ~closes
    <3>1. m = Len(Groups(L - 1)) /\ Last(Groups(L - 1)) = parent
      BY <2>1, <2>6 DEF Last
    <3>2. ~Closing(Inst(L))
      BY <1>1, <1>3, <2>6, <3>1 DEF Popping
    <3>3. Inst((L - 1) + 1) # Groups(L - 1)[m] /\ ~Closing(Inst((L - 1) + 1))
      BY <1>3, <1>4, <2>1, <2>4, <3>2
    <3>4. Groups(L - 1)[m] # Root
      BY <1>3, <2>1
    <3>5. instances[Groups(L - 1)[m]].children # <<>>
      BY <1>2, <2>1, <2>2, <3>1, <3>3, <3>4 DEF Filled
    <3> QED
      BY <2>1, <3>5
  <2>7. closes \in BOOLEAN
    BY <1>1 DEF Popping
  <2> QED
    BY <2>5, <2>6, <2>7
<1> QED
  BY <1>2, <1>3, <1>4

\* The undo data after a step: the same, but for what returns and what is handed up.
LEMMA DataSteps ==
  ASSUME EffectKind, NEW i \in Ids
  PROVE  \/ instances'[i].data = instances[i].data
         \/ \E t \in Threads : ReturnEffect(t, i)
         \/ \E L, closes, done : /\ Pops(L, closes, done)
                                 /\ HandedUp(Inst(L), done, Last(Groups(L - 1)'))
                                 /\ i = done \/ i = Last(Groups(L - 1)')
<1>1. CASE Bystanding \/ \E L, j : Takes(L, j)
  BY <1>1 DEF Bystanding, Aside, Takes, TakeEffect, SameDocuments, SameValues
<1>2. ASSUME NEW t \in Threads, NEW j, ReturnEffect(t, j)
      PROVE  instances'[i].data = instances[i].data \/ ReturnEffect(t, i)
  <2>1. i # j => instances'[i].data = instances[i].data
    BY <1>2 DEF ReturnEffect
  <2> QED
    BY <1>2, <2>1
<1>3. ASSUME NEW t \in Threads, NEW j, WriteEffect(t, j) \/ RollbackEffect(t, j)
      PROVE  instances'[i].data = instances[i].data
  BY <1>3 DEF WriteEffect, RollbackEffect, Recording
<1>4. CASE Stepping
  BY <1>4 DEF Stepping, UndoEntry, RedoEntry
<1>5. ASSUME NEW L, NEW closes, NEW done, Pops(L, closes, done)
      PROVE  \/ instances'[i].data = instances[i].data
             \/ /\ HandedUp(Inst(L), done, Last(Groups(L - 1)'))
                /\ i = done \/ i = Last(Groups(L - 1)')
  <2>1. PICK parent : parent = Last(Groups(L - 1)')
    OBVIOUS
  <2>2. Opened(Inst(L)) \/ HandedUp(Inst(L), done, parent) \/ EnteredNow(Inst(L), done, parent)
        \/ KeptBack(Inst(L), done)
    BY <1>5, <2>1 DEF Pops, PopEffect
  <2>3. CASE HandedUp(Inst(L), done, parent)
    <3>1. i # done /\ i # parent => instances'[i].data = instances[i].data
      BY <2>3 DEF HandedUp, Handed
    <3> QED
      BY <2>1, <2>3, <3>1
  <2> QED
    BY <2>2, <2>3 DEF Opened, EnteredNow, KeptBack, SameData
<1> QED
  BY <1>1, <1>2, <1>3, <1>4, <1>5 DEF EffectKind

\* Steps keep Effectless.
LEMMA EffectlessStep ==
  ASSUME Orderly, Basics, OInv, Kept, EffectKind, Documented, RInv
  PROVE  Effectless'
<1>1. /\ HomesCompound /\ Behind /\ Clean /\ Effectless
      /\ ChildrenStay(instances', instances)
      /\ \A i \in Ids : instances'[i].kind = instances[i].kind /\ instances'[i].class = instances[i].class
  BY EffectFrames DEF RInv, Kept, SameKind
<1>2. SUFFICES ASSUME NEW i \in Ids', Idles(i)' PROVE Written(instances'[i].data) = {}
  BY DEF Effectless
<1>3. CASE i \notin Ids
  BY <1>3, NewInstance, WrittenNone
<1>4. CASE i \in Ids
  <2>1. Idles(i)
    BY <1>1, <1>2, <1>4 DEF Idles, ChildrenStay
  <2>2. Written(instances[i].data) = {}
    BY <1>1, <1>4, <2>1 DEF Effectless
  <2>3. ASSUME NEW t \in Threads, ReturnEffect(t, i) PROVE Written(instances'[i].data) = {}
    <3>1. PICK m : instances'[i].data =
                     Append(instances[i].data, [mergeable |-> m, helpers |-> instances[i].own])
      BY <2>3 DEF ReturnEffect
    <3>2. instances[i].own = NoHelpers
      BY <1>1, <1>4, <2>1 DEF Clean, Idles
    <3>3. instances[i].data \in DataOf(Values)
      BY <1>4 DEF Documented, InstanceDocumented
    <3>4. PICK data \in DataOf(Values) : data = instances[i].data
      BY <3>3
    <3>5. Written(Append(data, [mergeable |-> m, helpers |-> NoHelpers])) = {}
      BY <2>2, <3>4, WrittenNone
    <3> QED
      BY <3>1, <3>2, <3>4, <3>5
  <2>4. ASSUME NEW L, NEW closes, NEW done, Pops(L, closes, done),
               NEW parent, parent = Last(Groups(L - 1)'), HandedUp(Inst(L), done, parent),
               i = done \/ i = parent
        PROVE  Written(instances'[i].data) = {}
    <3>1. CASE i = done
      <4>1. instances'[i].data = <<>>
        BY <1>4, <2>4, <3>1 DEF HandedUp, Handed
      <4> QED
        BY <4>1, WrittenNone
    <3>2. CASE i = parent
      BY <1>1, <2>1, <2>4, <3>2, HandedParent DEF Idles, Compound
    <3> QED
      BY <2>4, <3>1, <3>2
  <2> QED
    BY <1>4, <2>2, <2>3, <2>4, DataSteps
<1> QED
  BY <1>3, <1>4

\* The stacks stay.
LEMMA NothingNew == UNCHANGED stack => NoNew("rollback")
<1> SUFFICES ASSUME UNCHANGED stack, NEW t \in Threads, NEW k, NEW i, NEW at, Does(t, k, at, i)'
             PROVE  Does(t, k, at, i)
  BY DEF NoNew
<1> QED
  BY DEF Does

\* Steps keep Rolled.
LEMMA RolledStep ==
  ASSUME Orderly, IInv, Basics, OInv, EffectKind, RInv
  PROVE  Rolled'
<1>1. Rolled /\ HomesCompound /\ Behind /\ Statuses
  BY DEF RInv, OInv, Ordered
<1>2. SUFFICES ASSUME NEW t \in Threads, NEW k, NEW i, Does(t, k, "rollback", i)'
               PROVE  Written(instances'[i].data) = {}
  BY DEF Rolled
<1>3. CASE Does(t, k, "rollback", i)
  <2>1. i \in Ids /\ ~InFrame(i) /\ ~InGroup(i) /\ Written(instances[i].data) = {}
    BY <1>1, <1>3 DEF Statuses, Holding, Rolled
  <2>2. ASSUME NEW u \in Threads, ReturnEffect(u, i) PROVE FALSE
    BY <2>1, <2>2, TopFrame DEF ReturnEffect
  <2>3. ASSUME NEW L, NEW closes, NEW done, Pops(L, closes, done),
               NEW parent, parent = Last(Groups(L - 1)'), HandedUp(Inst(L), done, parent),
               i = done \/ i = parent
        PROVE  Written(instances'[i].data) = {}
    <3>1. i = done
      BY <1>1, <2>1, <2>3, HandedParent
    <3>2. instances'[i].data = <<>>
      BY <2>1, <2>3, <3>1 DEF HandedUp, Handed
    <3> QED
      BY <3>2, WrittenNone
  <2> QED
    BY <2>1, <2>2, <2>3, DataSteps
<1>4. CASE ~Does(t, k, "rollback", i)
  <2>1. ~NoNew("rollback")
    BY <1>2, <1>4 DEF NoNew
  <2>2. PICK L, closes, done : Pops(L, closes, done)
    <3>1. Stepping \/ (\E u \in Threads : \E j : WriteEffect(u, j)) => NoNew("rollback")
      BY NothingNew DEF WriteEffect, Stepping, UndoEntry, RedoEntry
    <3>2. \/ Bystanding \/ \E L, j : Takes(L, j)
          \/ \E u \in Threads : \E j : ReturnEffect(u, j) \/ RollbackEffect(u, j)
          => NoNew("rollback")
      BY DEF Bystanding, Takes, TakeEffect, ReturnEffect, RollbackEffect
    <3> QED
      BY <2>1, <3>1, <3>2 DEF EffectKind
  <2>3. KeptBack(Inst(L), done)
    BY <2>1, <2>2 DEF Pops, PopEffect, Opened, HandedUp, EnteredNow
  <2>4. i = done /\ i \in Ids
    BY <1>2, <1>4, <2>2, <2>3 DEF KeptBack, Pops, PopEffect
  <2>5. Written(instances[i].data) = {}
    BY <2>2, <2>3, <2>4, KeptBackNothing
  <2> QED
    BY <2>3, <2>4, <2>5 DEF KeptBack, SameData
<1> QED
  BY <1>3, <1>4

\* A step keeps the records.
LEMMA RInvStep ==
  ASSUME Orderly, IInv, IInv', OInv, TInv, RInv, [Next]_vars
  PROVE  EffectKind /\ Kept /\ RInv'
<1>2. Basics /\ Basics' /\ StepKind /\ Recorded
  BY BasicsHold, BasicsNext, EveryStepKind DEF OInv
<1>3. Kept
  BY <1>2, KeptStep
<1>4. ActsTyped /\ Documented
  BY DEF TInv
<1>5. /\ Kinds /\ HomesCompound /\ Pristine /\ Returned /\ Behind
      /\ OkErrors /\ Clean /\ Effectless /\ Rolled
  BY DEF RInv
<1>6. EffectKind
  BY <1>4, <1>5, EveryEffectKind DEF Orderly
<1>7. Kinds' /\ HomesCompound'
  BY <1>3, <1>5, <1>6, KindsStep, HomesCompoundStep
<1>8. Pristine' /\ Returned'
  BY <1>2, <1>5, <1>6, PristineStep, ReturnedStep
<1>9. Behind' /\ OkErrors'
  BY <1>2, <1>3, <1>5, <1>6, BehindStep, OkErrorsStep
<1>10. Clean' /\ Effectless' /\ Rolled'
  BY <1>2, <1>3, <1>4, <1>5, <1>6, CleanStep, EffectlessStep, RolledStep
<1> QED
  BY <1>3, <1>6, <1>7, <1>8, <1>9, <1>10 DEF RInv

-----------------------------------------------------------------------------
(* The batches the application opens outside any command *)

\* The application is about to move the index, or does.
Shut == Moving \/ Prompted

\* The batches begun on the root frame are those its queue has begun and not closed;
\* none is open while the index moves.
RootNested == Deep(1) /\ (Shut => Len(Open(1)) = 1)

\* Who queues the begin or the end of a batch on the root frame.
LEMMA RootQueuer ==
  ASSUME IInv, OInv, [Next]_vars,
         NEW kind \in {"begin", "end", "abort"}, NEW class, NEW target,
         Queueing(1, kind, class, target)
  PROVE  /\ \/ AppFini /\ kind = "abort"
            \/ /\ AppBatch
               /\ IF kind = "begin" THEN OpenGroup => "nestedBatch" \in Ops
                                    ELSE Len(Open(1)) > 1
         /\ ~AppUndo /\ ~AppRedo /\ ~AppMove
<1>1. /\ StackShape /\ OwnerActs /\ Recorded /\ Basics /\ Basics'
      /\ Owner \in Threads /\ Worker \in Threads
  <2>1. IInv'
    BY StepPreserves
  <2> QED
    BY <2>1, BasicsHold, BasicsNext DEF IInv, Shape, OInv, Threads
<1>2. /\ Ids' # Ids /\ instances'[Count + 1].kind = kind /\ instances'[Count + 1].home = Root
      /\ Count \in Nat
  <2>1. /\ Count' = Count + 1 /\ Count \in Nat
        /\ instances'[Count + 1] = MakeCommand(kind, class, target, Inst(1))
    BY DEF Queueing, Enqueued
  <2>2. Ids = 1 .. Count /\ Ids' = 1 .. Count + 1
    BY <1>1, <2>1 DEF Basics
  <2>3. Ids' # Ids
    BY <2>1, <2>2
  <2> QED
    BY <1>1, <2>1, <2>3 DEF MakeCommand, Basics
<1>3. ASSUME NEW t \in Threads, t = Owner \/ Owning(t) # {}, NEW a, NEW c, NEW x, NEW rest,
             QueueCommand(t, a, c, x, rest)
      PROVE  a = kind /\ currentFrame[t] = Root
  <2>1. \E k \in 1 .. Depth : Inst(k) = currentFrame[t] /\ Enqueued(k, a, c, x)
    BY <1>3, QueueCommandEffect
  <2> QED
    BY <1>2, <2>1 DEF Enqueued, MakeCommand
<1>4. ASSUME NEW x, MoveCommandIndex(x) PROVE FALSE
  <2>1. \E k \in 1 .. Depth : Enqueued(k, "undoRedo", UndoRedoClass, x)
    BY <1>4, MoveCommandIndexEffect
  <2> QED
    BY <1>2, <2>1 DEF Enqueued, MakeCommand
<1>5. Follows(instances', instances) => Ids' = Ids
  BY <1>1, TableKept
<1>6. ASSUME NEW t \in Threads, ThreadStep(t) PROVE FALSE
  <2>1. CASE TakeCommand(t) \/ TakeUndoRedo(t)
    BY <1>1, <1>2, <1>5, <2>1, TakeCommandKind, TakeUndoRedoKind DEF Taking, Starting, SameTables
  <2>2. CASE PopFrame(t) \/ Rollback(t)
    BY <1>1, <1>2, <1>5, <2>2, PopFrameKind, RollbackKind DEF Popping, Finishing, SameTables
  <2>3. CASE ExecWrite(t) \/ Execute(t)
    BY <1>1, <1>2, <1>5, <2>3, ExecWriteKind, ExecuteKind DEF Neutral, SameTables
  <2>4. CASE ExecQueue(t) \/ ExecBatch(t)
    <3>1. At(t, "exec")
      BY <2>4 DEF ExecQueue, ExecBatch, Executing
    <3>2. Owning(t) # {} /\ currentFrame[t] = Top(t).inst /\ Top(t).inst \in Ids
      BY <3>1, ExecutingFrame, TopFrame
    <3>3. Root \notin Ids
      BY <1>1 DEF Basics, Root
    <3>4. \E a, c : QueueCommand(t, a, c, NoSelection, <<>>)
      BY <2>4 DEF ExecQueue, ExecBatch
    <3> QED
      BY <1>3, <3>2, <3>3, <3>4
  <2>5. CASE \/ LoopEnds(t) \/ ExecWait(t) \/ SpinProcess(t) \/ WaitProcess(t) \/ WaitNext(t)
             \/ WaitStart(t) \/ Flush(t)
    <3>1. UNCHANGED instances
      BY <2>5 DEF LoopEnds, ExecWait, SpinProcess, WaitProcess, WaitNext, WaitStart, Flush
    <3> QED
      BY <1>2, <3>1 DEF Ids
  <2> QED
    BY <1>6, <2>1, <2>2, <2>3, <2>4, <2>5 DEF ThreadStep
<1>7. ~UNCHANGED vars
  BY <1>2 DEF vars, Ids
<1>8. ~OwnerStep
  <2>1. ~(UndoRedoDone \/ UndoRedoFails)
    BY <1>1, <1>2, <1>5, UndoRedoKind DEF Finishing, SameTables
  <2>2. UNCHANGED instances => FALSE
    BY <1>2 DEF Ids
  <2>3. ~(UndoCall \/ RedoCall)
    BY <1>4 DEF UndoCall, RedoCall
  <2>4. ~(UndoEntry \/ RedoEntry \/ MoveDone \/ RemoveCall \/ UpdateDone \/ FiniExit \/ FiniJoin)
    BY <2>2 DEF UndoEntry, RedoEntry, MoveDone, RemoveCall, UpdateDone, FiniExit, FiniJoin
  <2> QED
    BY <1>1, <1>6, <2>1, <2>3, <2>4 DEF OwnerStep
<1>9. ~WorkerStep
  <2>1. ~(WorkerTurn \/ WorkerWoken)
    BY <1>2 DEF WorkerTurn, WorkerWoken, Ids
  <2> QED
    BY <1>1, <1>6, <2>1 DEF WorkerStep
<1>10. AppStep
  BY <1>7, <1>8, <1>9 DEF Next
<1>11. (AppBatch \/ AppFini) /\ ~AppUndo /\ ~AppRedo /\ ~AppMove
  <2>1. ~AppQueue
    BY <1>1, <1>3 DEF AppQueue
  <2>2. ~AppMove
    BY <1>4 DEF AppMove
  <2>3. ~(AppWait \/ AppUndo \/ AppRedo \/ AppRemove \/ AppFlush \/ AppUpdate)
    BY <1>2 DEF AppWait, AppUndo, AppRedo, AppRemove, AppFlush, AppUpdate, Ids
  <2> QED
    BY <1>10, <2>1, <2>2, <2>3 DEF AppStep
<1>12. AppFini => kind = "abort"
  BY <1>1, <1>3 DEF AppFini
<1>13. ASSUME AppBatch
       PROVE  IF kind = "begin" THEN OpenGroup => "nestedBatch" \in Ops ELSE Len(Open(1)) > 1
  <2>1. PICK a : /\ IF a = "begin" THEN OpenGroup => "nestedBatch" \in Ops ELSE OpenGroup
                 /\ QueueCommand(Owner, a, BatchClass, NoSelection, <<>>)
    BY <1>13 DEF AppBatch
  <2>2. a = kind
    BY <1>1, <1>3, <2>1
  <2> QED
    BY <2>1, <2>2 DEF OpenGroup, Open
<1> QED
  BY <1>11, <1>12, <1>13

\* A job leaves the queue of the root frame.
LEMMA DeepStarted ==
  ASSUME Basics, OInv, Kept, NEW t, NEW k, NEW L, NEW i, Starting(t, k, L, i)
  PROVE  /\ L = 1 /\ Open(1)' = Open(1)
         /\ Deep(1) => Deep(1)'
<1>1. /\ Depth' = L /\ L = Depth /\ i = Queue(L)[1] /\ Len(Queue(L)) > 0
      /\ instances[i].kind = "undoRedo" /\ i \in Ids /\ Shifted(Queue(L)', Queue(L))
      /\ Inst(L)' = Inst(L) /\ Open(L)' = Open(L) /\ Groups(L)' = Groups(L)
  <2>1. L \in 1 .. L
    BY DEF Starting, Dequeued, Basics, FramesSized
  <2> QED
    BY <2>1 DEF Starting, Dequeued
<1>2. L = 1
  <2>1. L \in 1 .. Depth /\ 1 \in 1 .. Depth /\ 1 \in 1 .. Len(Queue(L))
    BY <1>1 DEF Basics, FramesSized, Sized
  <2>2. Inst(L) = Root
    BY <1>1, <2>1 DEF OInv, Placed, Homes
  <2> QED
    BY <2>1, <2>2 DEF Basics
<1>3. PICK m \in Nat : m = Len(Queue(1))
  BY <1>1, <1>2 DEF Basics, FramesSized, Sized
<1>4. /\ \A j \in Ids : instances'[j].kind = instances[j].kind
      /\ \A a \in 1 .. m : Queue(1)[a] \in Ids
  BY <1>1, <1>2, <1>3 DEF Kept, SameKind, Basics
<1>5. ASSUME Deep(1) PROVE Deep(1)'
  <2>1. PICK d : Nested(1, d)
    BY <1>5 DEF Deep
  <2>2. /\ d \in [1 .. m + 1 -> Nat \ {0}] /\ d[m + 1] = Len(Open(1)) /\ d[1] = Len(Groups(1))
        /\ \A a \in 1 .. m : d[a + 1] = DepthAfter(d[a], instances[Queue(1)[a]].kind)
    <3>1. ~(1 < Depth)
      BY <1>1, <1>2
    <3>2. Standing(1) = Len(Groups(1))
      BY <3>1 DEF Standing
    <3> QED
      BY <1>3, <2>1, <3>2 DEF Nested
  <2>3. PICK e \in [1 .. m -> Nat \ {0}] : \A a \in 1 .. m : e[a] = d[a + 1]
    BY <1>1, <1>2, <1>3, <2>2, ProfileEdits
  <2>4. Len(Queue(1)') = m - 1 /\ \A a \in 1 .. m - 1 : Queue(1)'[a] = Queue(1)[a + 1]
    BY <1>1, <1>2, <1>3 DEF Shifted
  <2>5. e[1] = Standing(1)'
    <3>1. 1 \in 1 .. m /\ 1 + 1 = 2
      BY <1>1, <1>2, <1>3
    <3>2. e[1] = d[1 + 1] /\ d[1 + 1] = DepthAfter(d[1], "undoRedo")
      BY <1>1, <1>2, <2>2, <2>3, <3>1
    <3> QED
      BY <1>1, <1>2, <2>2, <3>2 DEF DepthAfter, Standing
  <2>6. Len(Queue(1)') + 1 = m /\ e[m] = Len(Open(1)')
    <3>1. m \in 1 .. m
      BY <1>1, <1>2, <1>3
    <3> QED
      BY <1>1, <1>2, <2>2, <2>3, <2>4, <3>1
  <2>7. ASSUME NEW a \in 1 .. m - 1
        PROVE  e[a + 1] = DepthAfter(e[a], instances'[Queue(1)'[a]].kind)
    <3>1. a + 1 \in 1 .. m /\ a \in 1 .. m
      OBVIOUS
    <3>2. Queue(1)'[a] = Queue(1)[a + 1] /\ Queue(1)[a + 1] \in Ids
      BY <1>4, <2>4, <3>1
    <3>3. d[(a + 1) + 1] = DepthAfter(d[a + 1], instances[Queue(1)[a + 1]].kind)
      BY <2>2, <3>1
    <3>4. e[a + 1] = d[(a + 1) + 1] /\ e[a] = d[a + 1]
      BY <2>3, <3>1
    <3> QED
      BY <1>4, <3>2, <3>3, <3>4
  <2>8. Nested(1, e)'
    BY <2>3, <2>4, <2>5, <2>6, <2>7 DEF Nested
  <2> QED
    BY <1>1, <1>2, <1>5, <2>8 DEF Deep
<1> QED
  BY <1>1, <1>2, <1>5

\* When the application begins to move the index no batch is open.
LEMMA ShutBegins ==
  ASSUME IInv, OInv, [Next]_vars, Shut'
  PROVE  Shut \/ ~OpenGroup
<1>1. StackShape /\ OwnerActs /\ Owner \in Threads /\ Worker \in Threads
  BY DEF IInv, Shape, OInv, Threads
<1>2. stack'[Owner] = stack[Owner] => Shut
  BY DEF Shut, Moving, Prompted, Calling
<1>3. ASSUME NEW t \in Threads, InnerMove(t) PROVE Shut
  <2>1. SameCalls
    BY <1>1, <1>3, InnerKeepsCalls
  <2> QED
    BY <2>1 DEF Shut, Moving, Prompted, SameCalls, Calls
<1>4. ASSUME NEW t \in Threads, ThreadStep(t) PROVE Shut
  BY <1>3, <1>4, ThreadInner
<1>5. CASE OwnerStep
  <2>1. CASE UndoCall \/ RedoCall
    BY <1>1, <2>1, TopCall DEF UndoCall, RedoCall, Calls, Shut, Prompted
  <2>2. CASE UndoEntry \/ RedoEntry
    BY <1>2, <2>2 DEF UndoEntry, RedoEntry
  <2>3. CASE UndoRedoDone \/ UndoRedoFails
    <3>1. InnerMove(Owner)
      BY <2>3 DEF UndoRedoDone, UndoRedoFails, InnerMove, Calls, Waiting, At
    <3> QED
      BY <1>1, <1>3, <3>1
  <2>4. CASE MoveDone \/ RemoveCall \/ UpdateDone \/ FiniJoin \/ FiniExit
    BY <2>4, CallsEnd DEF Shut
  <2> QED
    BY <1>1, <1>4, <1>5, <2>1, <2>2, <2>3, <2>4 DEF OwnerStep
<1>6. CASE WorkerStep
  <2>1. CASE WorkerTurn \/ WorkerWoken
    <3>1. UNCHANGED stack \/ Push(Worker, <<Act("loop", Root)>>)
      BY <2>1 DEF WorkerTurn, WorkerWoken
    <3>2. stack = [t \in Threads |-> stack[t]] /\ Worker # Owner
      BY <1>1, ConstantsAssumption DEF StackShape
    <3>3. stack'[Owner] = stack[Owner]
      BY <1>1, <3>1, <3>2 DEF Push
    <3> QED
      BY <1>2, <3>3
  <2> QED
    BY <1>1, <1>4, <1>6, <2>1 DEF WorkerStep
<1>7. CASE AppStep
  <2>1. CASE AppUndo \/ AppRedo \/ AppMove
    BY <2>1 DEF AppUndo, AppRedo, AppMove, MayMove
  <2> QED
    BY <1>7, <2>1, OthersBegin DEF Shut
<1>8. CASE UNCHANGED vars
  BY <1>2, <1>8 DEF vars
<1> QED
  BY <1>5, <1>6, <1>7, <1>8 DEF Next

\* Steps keep RootNested.
LEMMA RootNestedStep ==
  ASSUME IInv, IInv', OInv, RootNested, [Next]_vars, "fini" \notin Ops
  PROVE  RootNested'
<1>1. Basics /\ Basics' /\ StepKind /\ Kept
  <2>1. Basics /\ Basics' /\ StepKind
    BY BasicsHold, BasicsNext, EveryStepKind
  <2> QED
    BY <2>1, KeptStep DEF OInv
<1>2. /\ Depth \in Nat /\ Depth' \in Nat /\ 1 \in 1 .. Depth /\ 1 + 1 = 2 /\ Deep(1)
  BY <1>1 DEF Basics, FramesSized, RootNested
<1>3. ASSUME FramesKept PROVE Deep(1)' /\ Open(1)' = Open(1)
  <2>1. 1 < Depth => 2 \in 1 .. Depth
    BY <1>2
  <2>2. Deep(1)'
    BY <1>1, <1>2, <1>3, <2>1, DeepKept DEF FramesKept
  <2> QED
    BY <1>2, <1>3, <2>2 DEF FramesKept
<1>4. ASSUME NEW k, NEW kind, NEW class, NEW target, Queueing(k, kind, class, target)
      PROVE  Deep(1)' /\ (Open(1)' = Open(1) \/ ~Shut')
  <2>1. /\ Depth' = Depth /\ \A m \in 1 .. Depth : Inst(m)' = Inst(m) /\ Groups(m)' = Groups(m)
        /\ \A m \in 1 .. Depth : m # k => Queue(m)' = Queue(m) /\ Open(m)' = Open(m)
    BY <1>4 DEF Queueing, Enqueued
  <2>2. CASE k # 1
    <3>1. 1 < Depth => 2 \in 1 .. Depth
      BY <1>2
    <3>2. Deep(1)'
      BY <1>1, <1>2, <2>1, <2>2, <3>1, DeepKept
    <3> QED
      BY <1>2, <2>1, <2>2, <3>2
  <2>3. CASE k = 1
    <3>1. Queueing(1, kind, class, target)
      BY <1>4, <2>3
    <3>2. kind \in {"begin", "end", "abort"} =>
             /\ AppBatch /\ (kind # "begin" => Len(Open(1)) > 1)
             /\ ~AppUndo /\ ~AppRedo /\ ~AppMove
      BY <3>1, RootQueuer DEF AppFini
    <3>3. /\ Deep(1)'
          /\ kind \notin {"begin", "end", "abort"} => Open(1)' = Open(1)
      BY <1>1, <1>2, <3>1, <3>2, DeepEnqueued
    <3>4. AppBatch /\ ~AppUndo /\ ~AppRedo /\ ~AppMove => ~Shut'
      BY OthersBegin DEF AppStep, Shut
    <3> QED
      BY <3>2, <3>3, <3>4
  <2> QED
    BY <2>2, <2>3
<1>5. ASSUME NEW L, NEW i, Taking(L, i)
      PROVE  Deep(1)' /\ Open(1)' = Open(1)
  <2>1. /\ Depth' = L + 1 /\ L = Depth
        /\ \A m \in 1 .. L : /\ Inst(m)' = Inst(m) /\ Open(m)' = Open(m)
                             /\ m # L => Queue(m)' = Queue(m) /\ Groups(m)' = Groups(m)
    BY <1>5 DEF Taking, Taken, Dequeued
  <2>2. CASE L = 1
    BY <1>1, <1>2, <1>5, <2>1, <2>2, DeepTaken
  <2>3. CASE L # 1
    <3>1. 2 \in 1 .. L /\ 1 < Depth' /\ 1 < Depth
      BY <1>2, <2>1, <2>3
    <3> QED
      BY <1>1, <1>2, <2>1, <2>3, <3>1, DeepKept
  <2> QED
    BY <2>2, <2>3
<1>6. ASSUME NEW L, NEW closes, NEW done, Popping(L, closes, done)
      PROVE  Deep(1)' /\ Open(1)' = Open(1)
  <2>1. /\ Depth' = L - 1 /\ L = Depth /\ L > 1
        /\ \A m \in 1 .. L - 1 : /\ Inst(m)' = Inst(m) /\ Open(m)' = Open(m)
                                 /\ Queue(m)' = Queue(m)
                                 /\ m # L - 1 => Groups(m)' = Groups(m)
    BY <1>6 DEF Popping, Popped
  <2>2. 1 \in 1 .. L - 1
    BY <1>2, <2>1
  <2>3. CASE L = 2
    <3>1. Deep(L - 1)
      BY <1>2, <2>3
    <3>2. Deep(L - 1)'
      BY <1>1, <1>6, <3>1, DeepPopped
    <3>3. Deep(1)'
      BY <2>3, <3>2
    <3> QED
      BY <2>1, <2>2, <3>3
  <2>4. CASE L # 2
    <3>1. 2 \in 1 .. L - 1 /\ 1 < Depth' /\ 1 < Depth /\ 1 # L - 1
      BY <1>2, <2>1, <2>4
    <3> QED
      BY <1>1, <1>2, <2>1, <2>2, <3>1, DeepKept
  <2> QED
    BY <2>3, <2>4
<1>7. ASSUME NEW t, NEW k, NEW L, NEW i, Starting(t, k, L, i)
      PROVE  Deep(1)' /\ Open(1)' = Open(1)
  BY <1>1, <1>2, <1>7, DeepStarted
<1>8. Deep(1)' /\ (Open(1)' = Open(1) \/ ~Shut')
  BY <1>1, <1>3, <1>4, <1>5, <1>6, <1>7 DEF StepKind, Neutral, Finishing
<1>9. ASSUME Shut' PROVE Len(Open(1)') = 1
  <2>1. Len(Open(1)) \in Nat \ {0}
    <3>1. PICK d : Nested(1, d)
      BY <1>2 DEF Deep
    <3>2. Len(Queue(1)) + 1 \in 1 .. Len(Queue(1)) + 1
      BY <1>1, <1>2 DEF Basics, FramesSized, Sized
    <3> QED
      BY <3>1, <3>2 DEF Nested
  <2>2. Shut \/ ~(Len(Open(1)) > 1)
    BY <1>9, ShutBegins DEF OpenGroup, Open
  <2>3. \A x : x \in Nat \ {0} /\ ~(x > 1) => x = 1
    OBVIOUS
  <2>4. Len(Open(1)) = 1
    BY <2>1, <2>2, <2>3 DEF RootNested
  <2>5. Open(1)' = Open(1)
    BY <1>8, <1>9
  <2> QED
    BY <2>4, <2>5
<1> QED
  BY <1>8, <1>9 DEF RootNested

\* With only jobs left on the root frame, it has no batch when none is open.
LEMMA RootOnly ==
  ASSUME Basics, OInv, RootNested, Depth = 1, Len(Open(1)) <= 1,
         \A a \in 1 .. Len(Queue(1)) : instances[Queue(1)[a]].kind = "undoRedo"
  PROVE  Len(Groups(1)) = 1 /\ Groups(1)[1] = Root
<1>1. /\ 1 \in 1 .. Depth /\ Inst(1) = Root /\ Grouped
  BY DEF Basics, FramesSized, OInv, Placed
<1>2. PICK m \in Nat : m = Len(Queue(1))
  BY <1>1 DEF Basics, FramesSized, Sized
<1>3. Groups(1)[1] = Root
  BY <1>1 DEF Grouped
<1>4. PICK d : Nested(1, d)
  BY DEF RootNested, Deep
<1>5. Standing(1) = Len(Groups(1))
  <2>1. ~(1 < Depth)
    OBVIOUS
  <2> QED
    BY <2>1 DEF Standing
<1>6. /\ d \in [1 .. m + 1 -> Nat \ {0}] /\ d[m + 1] = Len(Open(1)) /\ d[1] = Len(Groups(1))
      /\ \A a \in 1 .. m : d[a + 1] = DepthAfter(d[a], instances[Queue(1)[a]].kind)
  BY <1>2, <1>4, <1>5 DEF Nested
<1>7. \A a \in 1 .. m : d[a + 1] = d[a]
  BY <1>2, <1>6 DEF DepthAfter
<1> DEFINE S == {a \in 0 .. m : d[a + 1] = d[1]}
<1>8. 0 \in S
  BY <1>2
<1>9. ASSUME NEW a \in 1 .. m, a - 1 \in S PROVE a \in S
  <2>1. d[(a - 1) + 1] = d[1] /\ (a - 1) + 1 = a /\ a \in 0 .. m
    BY <1>2, <1>9
  <2> QED
    BY <1>7, <2>1
<1>10. 0 .. m \subseteq S
  <2> HIDE DEF S
  <2> QED
    BY <1>2, <1>8, <1>9, InductionUpTo
<1>11. d[m + 1] = d[1] /\ m + 1 \in 1 .. m + 1
  BY <1>2, <1>10
<1>12. Len(Open(1)) \in Nat \ {0}
  BY <1>6, <1>11
<1>13. \A x \in Nat \ {0} : x <= 1 => x = 1
  OBVIOUS
<1>14. Len(Open(1)) = 1
  BY <1>12, <1>13
<1> QED
  BY <1>3, <1>6, <1>11, <1>14

\* No batch is open at first.
LEMMA RootNestedInit == Init => RootNested
<1> SUFFICES ASSUME Init PROVE RootNested
  OBVIOUS
<1>1. commandFrames = <<MakeFrame(Root)>>
  BY DEF Init
<1>2. Depth = 1 /\ Inst(1) = Root /\ Queue(1) = <<>> /\ Groups(1) = <<Root>> /\ Open(1) = <<Root>>
  BY <1>1 DEF Depth, Inst, Queue, Groups, Open, MakeFrame
<1>3. Len(Queue(1)) = 0 /\ Len(Groups(1)) = 1 /\ Len(Open(1)) = 1 /\ Open(1)[1] = Root
  BY <1>2
<1>4. Standing(1) = 1
  <2>1. ~(1 < Depth)
    BY <1>2
  <2> QED
    BY <1>3, <2>1 DEF Standing
<1>5. [a \in 1 .. 1 |-> 1] \in [1 .. 1 -> Nat \ {0}]
  OBVIOUS
<1>6. Nested(1, [a \in 1 .. 1 |-> 1])
  <2>1. Len(Queue(1)) + 1 = 1 /\ 1 \in 1 .. 1 /\ 1 .. Len(Queue(1)) = {}
    BY <1>3
  <2> QED
    BY <1>3, <1>4, <1>5, <2>1 DEF Nested
<1> QED
  BY <1>2, <1>3, <1>6 DEF RootNested, Deep

-----------------------------------------------------------------------------
(* The document between the commands *)

\* A mark is a document for each instance, and one for the root frame.
Marks == [Nat -> Docs(Nat)]
Blank == [p \in Props |-> 0]

\* The undo data of an instance lead from one document to another, and back.
Turns(data, a, b) == Redo(data, a) = b /\ Undo(data, b) = a

\* f[i] is the document as i found it, g[i] as i has left it so far; before and after
\* that both are the same.
Turned(f, g) == \A i \in Ids : Turns(instances[i].data, f[i], g[i])
Fresh(f, g) == \A i \in Nat : i > Count => f[i] = g[i]

\* Each one found what the one before it left.
Linked(f, g, s) == \A k \in 1 .. Len(s) - 1 : g[s[k]] = f[s[k + 1]]

\* The history up to its selected entry.
Base(g) == IF previousSelectedIndex < 0 THEN Blank ELSE g[history[previousSelectedIndex + 1]]
HistoryMarked(f, g) == (Len(history) > 0 => f[history[1]] = Blank) /\ Linked(f, g, history)

\* What is pending follows the selected entry, and leads to where the root frame is.
PendingMarked(f, g) ==
  /\ Len(pendingHistory) = 0 => g[Root] = Base(g)
  /\ Len(pendingHistory) > 0 => /\ f[pendingHistory[1]] = Base(g)
                                /\ g[pendingHistory[Len(pendingHistory)]] = g[Root]
  /\ Linked(f, g, pendingHistory)

\* A batch begins where the command it is in was, and so does a command.
Latest(n) == Groups(n)[Len(Groups(n))]
GroupsMarked(f, g) == \A n \in 1 .. Depth :
  Linked(f, g, Groups(n)) /\ (n < Depth => g[Latest(n)] = f[Inst(n + 1)])

\* What the running command has recorded and not handed over leads to the document.
Unhanded == IF Depth > 1 /\ instances[Inst(Depth)].error = "none"
              THEN instances[Inst(Depth)].own ELSE NoHelpers
DocumentMarked(g) == /\ UndoHelpers(Unhanded, document) = g[Latest(Depth)]
                     /\ RedoHelpers(Unhanded, g[Latest(Depth)]) = document

Marked(f, g) == /\ Turned(f, g) /\ Fresh(f, g) /\ HistoryMarked(f, g) /\ PendingMarked(f, g)
                /\ GroupsMarked(f, g) /\ DocumentMarked(g)
MInv == \E f, g \in Marks : Marked(f, g)

\* An empty list changes no document.
LEMMA NothingUnhanded ==
  ASSUME NEW W, NEW doc \in Docs(W)
  PROVE  UndoHelpers(NoHelpers, doc) = doc /\ RedoHelpers(NoHelpers, doc) = doc
<1>1. DOMAIN NoHelpers = {}
  BY DEF NoHelpers
<1>2. doc = [q \in DOMAIN doc |-> doc[q]]
  BY DEF Docs
<1> QED
  BY <1>1, <1>2 DEF UndoHelpers, RedoHelpers

\* Documents and undo data have numbers as values.
LEMMA Numbered ==
  ASSUME Basics, Documented
  PROVE  /\ document \in Docs(Nat)
         /\ \A i \in Ids : instances[i].data \in DataOf(Nat) /\ instances[i].own \in Lists(Nat)
<1>1. Values \subseteq Nat
  BY DEF Values, Basics
<1>2. Docs(Values) \subseteq Docs(Nat) /\ Lists(Values) \subseteq Lists(Nat)
      /\ DataOf(Values) \subseteq DataOf(Nat)
  BY <1>1, ListTypes
<1> QED
  BY <1>2 DEF Documented, InstanceDocumented

\* A command that runs others records nothing.
LEMMA CompoundClean ==
  ASSUME Orderly, Kinds, Clean, NEW i, Compound(i)
  PROVE  instances[i].own = NoHelpers
<1>1. i \in Ids /\ instances[i].class.queues
  BY DEF Compound
<1>2. ~instances[i].class.writes
  BY <1>1, KindParts
<1> QED
  BY <1>1, <1>2 DEF Clean

\* The back frame has nothing to hand over when it runs commands.
LEMMA NothingBelow ==
  ASSUME Orderly, Kinds, Clean, Inst(Depth) = Root \/ Compound(Inst(Depth)), Basics
  PROVE  Unhanded = NoHelpers
<1>1. CASE Compound(Inst(Depth))
  BY <1>1, CompoundClean DEF Unhanded
<1>2. CASE Inst(Depth) = Root
  <2>1. ~(Depth > 1)
    <3>1. Depth \in Nat /\ Depth > 0 /\ Inst(1) = Root
      BY DEF Basics, FramesSized
    <3>2. 1 \in 1 .. Depth /\ Depth \in 1 .. Depth
      BY <3>1
    <3>3. Depth = 1
      BY <1>2, <3>1, <3>2 DEF Basics
    <3> QED
      BY <3>3
  <2> QED
    BY <2>1 DEF Unhanded
<1> QED
  BY <1>1, <1>2

\* The document is where the latest batch or command is.
LEMMA DocumentThere ==
  ASSUME NEW g \in Marks, Basics, Documented, DocumentMarked(g), Unhanded = NoHelpers,
         Latest(Depth) \in Nat
  PROVE  document = g[Latest(Depth)]
<1>1. g[Latest(Depth)] \in Docs(Nat)
  BY DEF Marks
<1>2. RedoHelpers(NoHelpers, g[Latest(Depth)]) = g[Latest(Depth)]
  BY <1>1, NothingUnhanded
<1> QED
  BY <1>2 DEF DocumentMarked

-----------------------------------------------------------------------------
(* What undo data write, property by property *)

\* The k-th entry is the first that writes p: what it writes is what stays.
Earliest(data, p, k) ==
  /\ k \in DOMAIN data /\ p \in DOMAIN data[k].helpers
  /\ \A l \in 1 .. k - 1 : p \notin DOMAIN data[l].helpers

\* Only values of V occur, which says for each property which these are.
DocWithin(V, doc) == \A p \in Props : doc[p] \in V[p]
ListWithin(V, l) == \A p \in DOMAIN l : l[p].pre \in V[p] /\ l[p].post \in V[p]
DataWithin(V, data) == \A k \in DOMAIN data : ListWithin(V, data[k].helpers)

\* One more entry.
LEMMA AppendFields ==
  ASSUME NEW W, NEW data \in DataOf(W), NEW e \in DataEntry(W)
  PROVE  /\ Len(data) \in Nat /\ DOMAIN data = 1 .. Len(data)
         /\ DOMAIN Append(data, e) = 1 .. Len(data) + 1 /\ Append(data, e)[Len(data) + 1] = e
         /\ \A k \in 1 .. Len(data) : Append(data, e)[k] = data[k]
         /\ Written(Append(data, e)) = Written(data) \cup DOMAIN e.helpers
         /\ Append(data, e) \in DataOf(W)
<1>1. /\ Len(data) \in Nat /\ DOMAIN data = 1 .. Len(data)
      /\ DOMAIN Append(data, e) = 1 .. Len(data) + 1 /\ Append(data, e)[Len(data) + 1] = e
      /\ \A k \in 1 .. Len(data) : Append(data, e)[k] = data[k]
      /\ Append(data, e) \in DataOf(W)
  BY DEF DataOf
<1>2. Written(Append(data, e)) = Written(data) \cup DOMAIN e.helpers
  <2>1. PICK n \in Nat : n = Len(data)
    BY <1>1
  <2>2. \A k : k \in 1 .. n + 1 <=> k \in 1 .. n \/ k = n + 1
    BY <2>1
  <2>3. PICK more : more = Append(data, e)
    OBVIOUS
  <2>4. /\ DOMAIN more = 1 .. n + 1 /\ more[n + 1] = e /\ DOMAIN data = 1 .. n
        /\ \A k \in 1 .. n : more[k] = data[k]
    BY <1>1, <2>1, <2>3
  <2>5. \A p : p \in Written(more) <=> \E k \in 1 .. n + 1 : p \in DOMAIN more[k].helpers
    BY <2>4 DEF Written
  <2>6. \A p : p \in Written(data) <=> \E k \in 1 .. n : p \in DOMAIN data[k].helpers
    BY <2>4 DEF Written
  <2>7. \A p : p \in Written(more) <=> p \in Written(data) \/ p \in DOMAIN e.helpers
    BY <2>2, <2>4, <2>5, <2>6
  <2> QED
    BY <2>3, <2>7
<1> QED
  BY <1>1, <1>2

\* Undo leaves of each property what the earliest entry that writes it restores; Redo leaves
\* what some entry wrote.
LEMMA UndoWrites ==
  ASSUME NEW W, NEW data \in DataOf(W), NEW p \in Props
  PROVE  \A doc \in Docs(W) :
           /\ p \notin Written(data) => Undo(data, doc)[p] = doc[p]
           /\ p \in Written(data) =>
                \E k : Earliest(data, p, k) /\ Undo(data, doc)[p] = data[k].helpers[p].pre
           /\ \/ Redo(data, doc)[p] = doc[p]
              \/ \E k \in DOMAIN data : /\ p \in DOMAIN data[k].helpers
                                        /\ Redo(data, doc)[p] = data[k].helpers[p].post
<1> DEFINE Told(d) == \A doc \in Docs(W) :
             /\ p \notin Written(d) => Undo(d, doc)[p] = doc[p]
             /\ p \in Written(d) =>
                  \E k : Earliest(d, p, k) /\ Undo(d, doc)[p] = d[k].helpers[p].pre
             /\ \/ Redo(d, doc)[p] = doc[p]
                \/ \E k \in DOMAIN d : /\ p \in DOMAIN d[k].helpers
                                       /\ Redo(d, doc)[p] = d[k].helpers[p].post
           P == {d \in DataOf(W) : Told(d)}
<1>1. <<>> \in P
  <2>1. <<>> \in DataOf(W) /\ [mergeable |-> TRUE, helpers |-> NoHelpers] \in DataEntry(W)
    BY ListTypes DEF DataEntry
  <2>2. \A doc : Undo(<<>>, doc) = doc /\ Redo(<<>>, doc) = doc
    BY <2>1, UndoAppend
  <2>3. Written(<<>>) = {}
    BY DEF Written
  <2> QED
    BY <2>1, <2>2, <2>3
<1>2. ASSUME NEW d \in DataOf(W), NEW e \in DataEntry(W), d \in P PROVE Append(d, e) \in P
  <2>1. PICK more : more = Append(d, e)
    OBVIOUS
  <2>2. PICK n : n = Len(d)
    OBVIOUS
  <2>3. /\ n \in Nat /\ DOMAIN d = 1 .. n /\ DOMAIN more = 1 .. n + 1 /\ more[n + 1] = e
        /\ \A k \in 1 .. n : more[k] = d[k]
        /\ Written(more) = Written(d) \cup DOMAIN e.helpers /\ more \in DataOf(W)
    BY <2>1, <2>2, AppendFields
  <2>4. e.helpers \in Lists(W) /\ Told(d)
    BY <1>2 DEF DataEntry
  <2>5. SUFFICES ASSUME NEW doc \in Docs(W)
                 PROVE  /\ p \notin Written(more) => Undo(more, doc)[p] = doc[p]
                        /\ p \in Written(more) =>
                             \E k : Earliest(more, p, k) /\ Undo(more, doc)[p] = more[k].helpers[p].pre
                        /\ \/ Redo(more, doc)[p] = doc[p]
                           \/ \E k \in DOMAIN more : /\ p \in DOMAIN more[k].helpers
                                                     /\ Redo(more, doc)[p] = more[k].helpers[p].post
    BY <2>1, <2>3
  <2>6. PICK back : back = UndoHelpers(e.helpers, doc)
    OBVIOUS
  <2>7. PICK forth : forth = Redo(d, doc)
    OBVIOUS
  <2>8. /\ back \in Docs(W) /\ forth \in Docs(W)
        /\ Undo(more, doc) = Undo(d, back) /\ Redo(more, doc) = RedoHelpers(e.helpers, forth)
    BY <2>1, <2>4, <2>6, <2>7, HelpersTyped, UndoTyped, UndoAppend
  <2>9. /\ back[p] = IF p \in DOMAIN e.helpers THEN e.helpers[p].pre ELSE doc[p]
        /\ Redo(more, doc)[p] = IF p \in DOMAIN e.helpers THEN e.helpers[p].post ELSE forth[p]
    BY <2>6, <2>8 DEF UndoHelpers, RedoHelpers, Docs
  <2>10. ASSUME p \notin Written(more) PROVE Undo(more, doc)[p] = doc[p]
    BY <2>3, <2>4, <2>8, <2>9, <2>10
  <2>11. ASSUME p \in Written(more)
         PROVE  \E k : Earliest(more, p, k) /\ Undo(more, doc)[p] = more[k].helpers[p].pre
    <3>1. CASE p \in Written(d)
      <4>1. PICK k : Earliest(d, p, k) /\ Undo(d, back)[p] = d[k].helpers[p].pre
        BY <2>4, <2>8, <3>1
      <4>2. k \in 1 .. n /\ p \in DOMAIN d[k].helpers
        BY <2>3, <4>1 DEF Earliest
      <4>3. more[k] = d[k] /\ k \in DOMAIN more /\ \A l \in 1 .. k - 1 : more[l] = d[l]
        BY <2>3, <4>2
      <4>4. Earliest(more, p, k)
        BY <4>1, <4>3 DEF Earliest
      <4> QED
        BY <2>8, <4>1, <4>3, <4>4
    <3>2. CASE p \notin Written(d)
      <4>1. Undo(d, back)[p] = back[p] /\ p \in DOMAIN e.helpers
        BY <2>3, <2>4, <2>8, <2>11, <3>2
      <4>2. \A l \in 1 .. n : p \notin DOMAIN d[l].helpers
        BY <2>3, <3>2 DEF Written
      <4>3. n + 1 \in DOMAIN more /\ \A l \in 1 .. (n + 1) - 1 : l \in 1 .. n /\ more[l] = d[l]
        BY <2>3
      <4>4. Earliest(more, p, n + 1)
        BY <2>3, <4>1, <4>2, <4>3 DEF Earliest
      <4> QED
        BY <2>3, <2>8, <2>9, <4>1, <4>4
    <3> QED
      BY <3>1, <3>2
  <2>12. \/ Redo(more, doc)[p] = doc[p]
         \/ \E k \in DOMAIN more : /\ p \in DOMAIN more[k].helpers
                                   /\ Redo(more, doc)[p] = more[k].helpers[p].post
    <3>1. CASE p \in DOMAIN e.helpers
      <4>1. n + 1 \in DOMAIN more
        BY <2>3
      <4> QED
        BY <2>3, <2>9, <3>1, <4>1
    <3>2. CASE p \notin DOMAIN e.helpers
      <4>1. \/ forth[p] = doc[p]
            \/ \E k \in DOMAIN d : p \in DOMAIN d[k].helpers /\ forth[p] = d[k].helpers[p].post
        BY <2>4, <2>7
      <4>2. \A k \in DOMAIN d : k \in DOMAIN more /\ more[k] = d[k]
        BY <2>3
      <4> QED
        BY <2>9, <3>2, <4>1, <4>2
    <3> QED
      BY <3>1, <3>2
  <2> QED
    BY <2>10, <2>11, <2>12
<1>3. DataOf(W) \subseteq P
  <2> HIDE DEF P
  <2> QED
    BY <1>1, <1>2, AppendInduction DEF DataOf
<1> QED
  BY <1>3

\* Undo and redo bring only such values into the document.
LEMMA UndoWithin ==
  ASSUME NEW W, NEW data \in DataOf(W), NEW doc \in Docs(W), NEW V,
         DataWithin(V, data), DocWithin(V, doc)
  PROVE  DocWithin(V, Undo(data, doc)) /\ DocWithin(V, Redo(data, doc))
<1> SUFFICES ASSUME NEW p \in Props
             PROVE  Undo(data, doc)[p] \in V[p] /\ Redo(data, doc)[p] \in V[p]
  BY DEF DocWithin
<1>1. /\ p \notin Written(data) => Undo(data, doc)[p] = doc[p]
      /\ p \in Written(data) =>
           \E k : Earliest(data, p, k) /\ Undo(data, doc)[p] = data[k].helpers[p].pre
      /\ \/ Redo(data, doc)[p] = doc[p]
         \/ \E k \in DOMAIN data : /\ p \in DOMAIN data[k].helpers
                                   /\ Redo(data, doc)[p] = data[k].helpers[p].post
  BY UndoWrites
<1>2. \A k \in DOMAIN data : p \in DOMAIN data[k].helpers =>
        data[k].helpers[p].pre \in V[p] /\ data[k].helpers[p].post \in V[p]
  BY DEF DataWithin, ListWithin
<1> QED
  BY <1>1, <1>2 DEF DocWithin, Earliest

\* Consolidating one entry more.
OneMore(data, e, new) ==
  \/ /\ Len(data) > 0 /\ DOMAIN new = 1 .. Len(data)
     /\ \A k \in 1 .. Len(data) - 1 : new[k] = data[k]
     /\ new[Len(data)].helpers = Merge(data[Len(data)].helpers, e.helpers)
  \/ /\ DOMAIN new = 1 .. Len(data) + 1
     /\ \A k \in 1 .. Len(data) : new[k] = data[k]
     /\ new[Len(data) + 1] = e

\* Handing over one entry appends it or merges it into the last one.
LEMMA ConsolidateOne ==
  ASSUME NEW W, NEW data \in DataOf(W), NEW e \in DataEntry(W)
  PROVE  OneMore(data, e, Consolidate(data, <<e>>))
<1>1. PICK n : n = Len(data)
  OBVIOUS
<1>2. n \in Nat /\ DOMAIN data = 1 .. n /\ data \in Seq(DataEntry(W))
  BY <1>1 DEF DataOf
<1>3. <<e>> \in Seq(DataEntry(W)) /\ <<e>>[1] = e /\ Len(<<e>>) = 1 /\ <<e>> # <<>>
  OBVIOUS
<1>4. CASE data # <<>> /\ data[n].mergeable /\ e.mergeable
  <2>1. n > 0 /\ n \in 1 .. n /\ data[n] \in DataEntry(W)
    BY <1>1, <1>2, <1>4
  <2>2. PICK h : h = Merge(data[n].helpers, e.helpers)
    OBVIOUS
  <2>3. h \in Lists(W)
    <3>1. data[n].helpers \in Lists(W) /\ e.helpers \in Lists(W)
      BY <2>1 DEF DataEntry
    <3> QED
      BY <2>2, <3>1, MergeTyped
  <2>4. PICK m : m = [data[n] EXCEPT !.helpers = h]
    OBVIOUS
  <2>5. m \in DataEntry(W) /\ m.helpers = h
    BY <2>1, <2>3, <2>4 DEF DataEntry
  <2>6. PICK merged : merged = [data EXCEPT ![n] = m]
    OBVIOUS
  <2>7. /\ merged \in Seq(DataEntry(W)) /\ Len(merged) = n /\ merged[n] = m
        /\ \A k \in 1 .. n - 1 : merged[k] = data[k]
    BY <1>1, <1>2, <2>1, <2>5, <2>6
  <2>8. Consolidate(data, <<e>>) = [data EXCEPT ![n].helpers = h] \o Tail(<<e>>)
    BY <1>1, <1>3, <1>4, <2>2 DEF Consolidate
  <2>9. [data EXCEPT ![n].helpers = h] = merged
    BY <2>4, <2>6
  <2>10. Tail(<<e>>) = <<>>
    OBVIOUS
  <2>11. PICK new : new = Consolidate(data, <<e>>)
    OBVIOUS
  <2>12. new = merged
    <3>1. merged \o <<>> = merged
      BY <2>7
    <3> QED
      BY <2>8, <2>9, <2>10, <2>11, <3>1
  <2>13. DOMAIN new = 1 .. n
    BY <2>7, <2>12
  <2> QED
    BY <1>1, <2>1, <2>2, <2>5, <2>7, <2>11, <2>12, <2>13 DEF OneMore
<1>5. CASE ~(data # <<>> /\ data[n].mergeable /\ e.mergeable)
  <2>1. Consolidate(data, <<e>>) = data \o <<e>>
    BY <1>1, <1>3, <1>5 DEF Consolidate
  <2>2. PICK new : new = data \o <<e>>
    OBVIOUS
  <2>3. DOMAIN new = 1 .. n + 1 /\ (\A k \in 1 .. n : new[k] = data[k]) /\ new[n + 1] = e
    BY <1>1, <1>2, <1>3, <2>2
  <2> QED
    BY <1>1, <2>1, <2>2, <2>3 DEF OneMore
<1> QED
  BY <1>4, <1>5

\* What was written first stays so; the new entry comes first for new properties only.
LEMMA ConsolidateWrites ==
  ASSUME NEW W, NEW data \in DataOf(W), NEW e \in DataEntry(W), NEW new, OneMore(data, e, new)
  PROVE  /\ Written(new) = Written(data) \cup DOMAIN e.helpers
         /\ \A V : DataWithin(V, data) /\ ListWithin(V, e.helpers) => DataWithin(V, new)
         /\ \A p, k : Earliest(new, p, k) =>
              \/ Earliest(data, p, k) /\ new[k].helpers[p].pre = data[k].helpers[p].pre
              \/ /\ p \notin Written(data) /\ p \in DOMAIN e.helpers
                 /\ new[k].helpers[p].pre = e.helpers[p].pre
<1>1. PICK n : n = Len(data)
  OBVIOUS
<1>2. n \in Nat /\ DOMAIN data = 1 .. n
  BY <1>1 DEF DataOf
<1>3. \A p : p \in Written(data) <=> \E k \in 1 .. n : p \in DOMAIN data[k].helpers
  BY <1>2 DEF Written
<1>4. CASE /\ n > 0 /\ DOMAIN new = 1 .. n
           /\ \A k \in 1 .. n - 1 : new[k] = data[k]
           /\ new[n].helpers = Merge(data[n].helpers, e.helpers)
  <2>1. \A k : k \in 1 .. n <=> k \in 1 .. n - 1 \/ k = n
    BY <1>2, <1>4
  <2>2. DOMAIN new[n].helpers = DOMAIN data[n].helpers \cup DOMAIN e.helpers
    BY <1>4 DEF Merge
  <2>3. \A p \in DOMAIN data[n].helpers \cup DOMAIN e.helpers :
          /\ new[n].helpers[p].pre = IF p \in DOMAIN data[n].helpers THEN data[n].helpers[p].pre
                                                                   ELSE e.helpers[p].pre
          /\ new[n].helpers[p].post = IF p \in DOMAIN e.helpers THEN e.helpers[p].post
                                                                ELSE data[n].helpers[p].post
    BY <1>4 DEF Merge
  <2>4. \A p : p \in Written(new) <=> \E k \in 1 .. n : p \in DOMAIN new[k].helpers
    BY <1>4 DEF Written
  <2>5. \A p : p \in Written(new) <=> p \in Written(data) \cup DOMAIN e.helpers
    BY <1>3, <1>4, <2>1, <2>2, <2>4
  <2>6. ASSUME NEW V, DataWithin(V, data), ListWithin(V, e.helpers) PROVE DataWithin(V, new)
    <3>1. \A k \in 1 .. n : ListWithin(V, data[k].helpers)
      BY <1>2, <2>6 DEF DataWithin
    <3>2. n \in 1 .. n
      BY <2>1
    <3>3. ListWithin(V, new[n].helpers)
      BY <2>2, <2>3, <2>6, <3>1, <3>2 DEF ListWithin
    <3> QED
      BY <1>4, <2>1, <3>1, <3>3 DEF DataWithin
  <2>7. ASSUME NEW p, NEW k, Earliest(new, p, k)
        PROVE  \/ Earliest(data, p, k) /\ new[k].helpers[p].pre = data[k].helpers[p].pre
               \/ /\ p \notin Written(data) /\ p \in DOMAIN e.helpers
                  /\ new[k].helpers[p].pre = e.helpers[p].pre
    <3>1. k \in 1 .. n /\ p \in DOMAIN new[k].helpers
      BY <1>4, <2>7 DEF Earliest
    <3>2. \A l \in 1 .. k - 1 : l \in 1 .. n - 1 /\ new[l] = data[l] /\ p \notin DOMAIN data[l].helpers
      BY <1>2, <1>4, <2>7, <3>1 DEF Earliest
    <3>3. CASE p \in DOMAIN data[k].helpers
      <4>1. Earliest(data, p, k)
        BY <1>2, <3>1, <3>2, <3>3 DEF Earliest
      <4>2. new[k].helpers[p].pre = data[k].helpers[p].pre
        BY <1>4, <2>1, <2>3, <3>1, <3>3
      <4> QED
        BY <4>1, <4>2
    <3>4. CASE p \notin DOMAIN data[k].helpers
      <4>1. k = n
        BY <1>4, <2>1, <3>1, <3>4
      <4>2. p \in DOMAIN e.helpers /\ new[k].helpers[p].pre = e.helpers[p].pre
        BY <2>2, <2>3, <3>1, <3>4, <4>1
      <4>3. \A l \in 1 .. n : p \notin DOMAIN data[l].helpers
        BY <2>1, <3>2, <3>4, <4>1
      <4> QED
        BY <1>3, <4>2, <4>3
    <3> QED
      BY <3>3, <3>4
  <2> QED
    BY <2>5, <2>6, <2>7
<1>5. CASE /\ DOMAIN new = 1 .. n + 1
           /\ \A k \in 1 .. n : new[k] = data[k]
           /\ new[n + 1] = e
  <2>1. \A k : k \in 1 .. n + 1 <=> k \in 1 .. n \/ k = n + 1
    BY <1>2
  <2>2. \A p : p \in Written(new) <=> \E k \in 1 .. n + 1 : p \in DOMAIN new[k].helpers
    BY <1>5 DEF Written
  <2>3. \A p : p \in Written(new) <=> p \in Written(data) \cup DOMAIN e.helpers
    BY <1>3, <1>5, <2>1, <2>2
  <2>4. ASSUME NEW V, DataWithin(V, data), ListWithin(V, e.helpers) PROVE DataWithin(V, new)
    BY <1>2, <1>5, <2>1, <2>4 DEF DataWithin
  <2>5. ASSUME NEW p, NEW k, Earliest(new, p, k)
        PROVE  \/ Earliest(data, p, k) /\ new[k].helpers[p].pre = data[k].helpers[p].pre
               \/ /\ p \notin Written(data) /\ p \in DOMAIN e.helpers
                  /\ new[k].helpers[p].pre = e.helpers[p].pre
    <3>1. (k \in 1 .. n \/ k = n + 1) /\ p \in DOMAIN new[k].helpers
      BY <1>5, <2>1, <2>5 DEF Earliest
    <3>2. CASE k \in 1 .. n
      <4>1. \A l \in 1 .. k - 1 : l \in 1 .. n
        BY <1>2, <3>2
      <4>2. Earliest(data, p, k)
        BY <1>2, <1>5, <2>5, <3>1, <3>2, <4>1 DEF Earliest
      <4> QED
        BY <1>5, <3>2, <4>2
    <3>3. CASE k = n + 1
      <4>1. \A l \in 1 .. n : l \in 1 .. k - 1
        BY <1>2, <3>3
      <4>2. \A l \in 1 .. n : p \notin DOMAIN data[l].helpers
        BY <1>5, <2>5, <4>1 DEF Earliest
      <4> QED
        BY <1>3, <1>5, <3>1, <3>3, <4>2
    <3> QED
      BY <3>1, <3>2, <3>3
  <2> QED
    BY <2>3, <2>4, <2>5
<1> QED
  BY <1>1, <1>4, <1>5 DEF OneMore

=============================================================================
