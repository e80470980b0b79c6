--------------------------- MODULE CommandManager ---------------------------
(***************************************************************************)
(* core_command_system: CommandManagerImpl with its two threads, the owner *)
(* (UI) thread and the worker (command) thread, in one environment.        *)
(*                                                                         *)
(* workerMutex_ is taken and released many times by each call, so a call   *)
(* is modelled as a stack of activations per thread; one step runs from    *)
(* one acquisition of the mutex to its next release (or, for user code,    *)
(* between two calls of the manager).  Activations:                        *)
(*   loop      processCommands                                             *)
(*   exec      job->execute() of an instance, mutex released               *)
(*   spin      the loop that waits for the sub commands of an instance     *)
(*   rollback  instance->undo() in popFrame, mutex released                *)
(*   wait      waitForInstance; "before" are the queued instances it may   *)
(*             still find the enclosing batches in                         *)
(*   flush     flush                                                       *)
(*   undoRedo  CommandManager::undoRedo run by an UndoRedoCommand          *)
(*   move      the tail of moveCommandIndex                                *)
(*   undo, redo, remove, update, fini   the rest of those calls            *)
(*                                                                         *)
(* Instance ids are given in the order of the queueCommand calls; 0 stands *)
(* for the null instance of the root frame, and frames are named by their  *)
(* instance.  Every write of a command stores its own id, so a value tells *)
(* who wrote it.                                                           *)
(***************************************************************************)
EXTENDS UndoRedoData, FiniteSets, SequencesExt

CONSTANTS
  Owner, Worker,    \* ownerThreadId_, workerThreadId_
  Props,            \* the properties commands write
  Classes,          \* the registered commands: see ClassRecord
  Ops,              \* which calls the application makes
  MaxInstances,     \* bound on the number of command instances
  MaxFrames         \* bound on the nesting of commands

Threads == {Owner, Worker}

\* What the manager asks of a Command: its threadAffinity, customUndo, canUndo;
\* and what its execute() does: write a property, fail, queue sub commands.
\* context is the context id of a SetReflectedPropertyCommand, or "none".
ClassRecord == [affinity : {"UI", "COMMAND", "ANY"}, custom : BOOLEAN, canUndo : BOOLEAN,
                writes : BOOLEAN, fails : BOOLEAN, queues : BOOLEAN, context : STRING]

ASSUME ConstantsAssumption ==
  /\ Owner # Worker
  /\ Classes \subseteq ClassRecord
  /\ MaxInstances \in Nat /\ MaxFrames \in Nat

VARIABLES
  stack,                  \* [Threads -> Seq(Activation)]: the calls in progress
  commandFrames,          \* commandFrames_
  currentFrame,           \* currentFrame_, thread local
  instances,              \* every CommandInstance, by id
  document,               \* the reflected properties
  pendingHistory,         \* pendingHistory_
  history,                \* history_
  currentIndex,           \* CommandManagerImpl::currentIndex_
  previousSelectedIndex,  \* HistoryEnvComponentState::previousSelectedIndex_
  index,                  \* HistoryEnvComponentState::index_
  ownerWakeUp,            \* ownerWakeUp_
  worker,                 \* "running", "waiting" in workerWakeUp_, "woken", "exited"
  exiting                 \* exiting_

historyVars == <<history, currentIndex, previousSelectedIndex, index>>
wakeVars == <<ownerWakeUp, worker, exiting>>
vars == <<stack, commandFrames, currentFrame, instances, document, pendingHistory,
          historyVars, wakeVars>>

NoSelection == -1
NoFrame == -1
Root == 0

-----------------------------------------------------------------------------
(* Instances and frames *)

BatchClass == [affinity |-> "ANY", custom |-> FALSE, canUndo |-> TRUE, writes |-> FALSE,
               fails |-> FALSE, queues |-> FALSE, context |-> "none"]
UndoRedoClass == [BatchClass EXCEPT !.affinity = "UI"]

\* makeCommand: target is the argument of an UndoRedoCommand, home the frame the
\* instance is queued on, own the list its listener fills while it executes.
MakeCommand(kind, class, target, home) ==
  [kind |-> kind, class |-> class, target |-> target, home |-> home,
   status |-> "Queued", error |-> "none", wrote |-> FALSE, children |-> <<>>,
   own |-> NoHelpers, data |-> <<>>]

MakeFrame(i) ==
  [instance |-> i, stackQueue |-> <<i>>, commandStack |-> <<i>>, commandQueue |-> <<>>]

BackFrame == Last(commandFrames)
FrameIndex(i) == CHOOSE k \in DOMAIN commandFrames : commandFrames[k].instance = i
Frame(i) == commandFrames[FrameIndex(i)]

(* Definitions whose name ends in Faulty are plausible mistakes; nothing refers to *)
(* them, they document which property would notice.                               *)

\* Only ABORTED counts as a failure of a batch, an empty one included.
SucceededFaulty(table, i) == table[i].error \in {"ok", "batch", "failed"}

\* isCommandSuccess(instance->getErrorCode()): a batch fails when it was aborted or
\* has no child, whatever its children returned.
Succeeded(table, i) ==
  \/ table[i].error = "ok"
  \/ table[i].error = "batch" /\ table[i].children # <<>>

(* Activations *)

\* prev is the local previousFrame of the processCommands call that runs inst.
Act(at, i) == [at |-> at, inst |-> i, prev |-> NoFrame, before |-> <<>>]
Running(t) == stack[t] # <<>>
Top(t) == Last(stack[t])
At(t, at) == Running(t) /\ Top(t).at = at
Push(t, acts) == stack' = [stack EXCEPT ![t] = @ \o acts]
Pop(t) == stack' = [stack EXCEPT ![t] = Front(@)]
ReplaceTop(t, acts) == stack' = [stack EXCEPT ![t] = Front(@) \o acts]

\* The commands that account for a value set on thread t: every executing command
\* there whose listener is connected, and a custom one for what it sets itself.
Listening(t) ==
  {stack[t][k].inst : k \in
     {k \in DOMAIN stack[t] :
        /\ stack[t][k].at = "exec"
        /\ instances[stack[t][k].inst].class.custom => k = Len(stack[t])}}

\* setValue on thread t: every connected listener of that thread records.
WriteProps(t, table, written, doc, new) ==
  [i \in DOMAIN table |->
    IF i \in Listening(t) THEN [table[i] EXCEPT !.own = RecordWrites(@, written, doc, new)]
    ELSE table[i]]

Init ==
  /\ stack = [t \in Threads |-> <<>>]
  /\ commandFrames = <<MakeFrame(Root)>>
  /\ currentFrame = [t \in Threads |-> IF t = Owner THEN Root ELSE NoFrame]
  /\ instances = <<>>
  /\ document = [p \in Props |-> 0]
  /\ pendingHistory = <<>>
  /\ history = <<>>
  /\ currentIndex = NoSelection
  /\ previousSelectedIndex = NoSelection
  /\ index = NoSelection
  /\ ownerWakeUp = FALSE
  /\ worker = "running"
  /\ exiting = FALSE

-----------------------------------------------------------------------------
(* queueCommand *)

\* What an End or an Abort does to the stack queue of its frame: the group it
\* closes leaves; an unmatched one only warns once the queue is empty.
StackQueueAfter(queue, kind, i) ==
  CASE kind = "begin" -> Append(queue, i)
    [] kind \in {"end", "abort"} -> IF queue = <<>> THEN queue ELSE Front(queue)
    [] OTHER -> queue

\* The instance goes to the front of its queue.
QueueCommandFaulty(t, kind, class, target, rest) ==
  LET i == Len(instances) + 1
      k == FrameIndex(currentFrame[t])
  IN /\ i <= MaxInstances
     /\ instances' = Append(instances, MakeCommand(kind, class, target, currentFrame[t]))
     /\ commandFrames' =
          [commandFrames EXCEPT
             ![k].commandQueue = <<i>> \o @,
             ![k].stackQueue = StackQueueAfter(@, kind, i)]
     /\ Push(t, rest \o <<Act("loop", Root)>>)

\* Queue an instance on the current frame of t and run processCommands; rest is
\* what the caller does afterwards.
QueueCommand(t, kind, class, target, rest) ==
  LET i == Len(instances) + 1
      k == FrameIndex(currentFrame[t])
  IN /\ i <= MaxInstances
     /\ instances' = Append(instances, MakeCommand(kind, class, target, currentFrame[t]))
     /\ commandFrames' =
          [commandFrames EXCEPT
             ![k].commandQueue = Append(@, i),
             ![k].stackQueue = StackQueueAfter(@, kind, i)]
     /\ Push(t, rest \o <<Act("loop", Root)>>)

(* processCommands *)

CanRun(t, i) ==
  /\ instances[i].class.affinity = "UI" => t = Owner
  /\ instances[i].class.affinity = "COMMAND" => t = Worker

\* The last entry counts from one.
TakePendingIndexFaulty ==
  LET kept == IF Len(history) > currentIndex + 1
                THEN SubSeq(history, 1, currentIndex + 1) ELSE history
      last == Len(kept) + Len(pendingHistory)
  IN /\ history' = kept \o pendingHistory
     /\ pendingHistory' = <<>>
     /\ currentIndex' = last /\ previousSelectedIndex' = last /\ index' = last

\* The selected entry is erased too.
TakePendingEraseFaulty ==
  LET kept == IF Len(history) > currentIndex
                THEN SubSeq(history, 1, currentIndex) ELSE history
      last == Len(kept) + Len(pendingHistory) - 1
  IN /\ history' = kept \o pendingHistory
     /\ pendingHistory' = <<>>
     /\ currentIndex' = last /\ previousSelectedIndex' = last /\ index' = last

\* The owner moves finished commands into the history: entries after the current
\* index go first, and the new last entry becomes the selected one.
TakePending ==
  LET kept == IF Len(history) > currentIndex + 1
                THEN SubSeq(history, 1, currentIndex + 1) ELSE history
      last == Len(kept) + Len(pendingHistory) - 1
  IN /\ history' = kept \o pendingHistory
     /\ pendingHistory' = <<>>
     /\ currentIndex' = last /\ previousSelectedIndex' = last /\ index' = last

\* The worker is not notified.
NotifyWorkerFaulty == UNCHANGED worker

\* workerWakeUp_.notify_all()
NotifyWorker == worker' = IF worker = "waiting" THEN "woken" ELSE worker

\* The loop ends: the back frame's queue is empty, or its first command belongs to
\* the other thread, which is woken.
LoopEnds(t) ==
  LET queue == BackFrame.commandQueue
      foreign == queue # <<>> /\ ~CanRun(t, queue[1])
  IN /\ At(t, "loop")
     /\ queue = <<>> \/ foreign
     /\ ownerWakeUp' = (ownerWakeUp \/ (t = Worker /\ (foreign \/ pendingHistory # <<>>)))
     /\ IF t = Owner /\ foreign THEN NotifyWorker ELSE UNCHANGED worker
     /\ IF t = Owner /\ pendingHistory # <<>> THEN TakePending
          ELSE UNCHANGED <<pendingHistory, historyVars>>
     /\ Pop(t)
     /\ UNCHANGED <<commandFrames, currentFrame, instances, document, exiting>>

\* The group is opened in the frame that has just been pushed.
PushFrameFaulty(frames, i) ==
  LET pushed == Append(frames, MakeFrame(i))
  IN IF instances[i].kind = "begin"
       THEN [pushed EXCEPT ![Len(pushed)].commandStack = Append(@, i)] ELSE pushed

\* pushFrame: the instance joins the group on top of the back frame (a batch group
\* or the frame's own command); a Begin opens a group there.
PushFrame(frames, i) ==
  LET back == Len(frames)
      opened == IF instances[i].kind = "begin"
                  THEN [frames EXCEPT ![back].commandStack = Append(@, i)] ELSE frames
  IN Append(opened, MakeFrame(i))

AddChild(table, parent, i) ==
  IF parent = Root \/ table[i].kind \in {"end", "abort"} THEN table
  ELSE [table EXCEPT ![parent].children = Append(@, i)]

\* The command stays in its queue.
PopFrontFaulty(frames) == frames

PopFront(frames) == [frames EXCEPT ![Len(frames)].commandQueue = Tail(@)]

TakeCommand(t) ==
  LET queue == BackFrame.commandQueue
      i == queue[1]
      parent == Last(BackFrame.commandStack)
  IN /\ At(t, "loop")
     /\ queue # <<>> /\ CanRun(t, i)
     /\ instances[i].kind # "undoRedo"
     /\ commandFrames' = PushFrame(PopFront(commandFrames), i)
     /\ instances' = AddChild([instances EXCEPT ![i].status = "Running"], parent, i)
     /\ currentFrame' = [currentFrame EXCEPT ![t] = i]
     /\ Push(t, <<[Act("exec", i) EXCEPT !.prev = currentFrame[t]]>>)
     /\ UNCHANGED <<document, pendingHistory, historyVars, wakeVars>>

\* An UndoRedoCommand runs without a frame; undoRedo begins with getHistory, which
\* flushes.
TakeUndoRedo(t) ==
  LET queue == BackFrame.commandQueue
      i == queue[1]
  IN /\ At(t, "loop")
     /\ queue # <<>> /\ CanRun(t, i)
     /\ instances[i].kind = "undoRedo"
     /\ commandFrames' = PopFront(commandFrames)
     /\ instances' = [instances EXCEPT ![i].status = "Running"]
     /\ Push(t, <<Act("undoRedo", i), Act("flush", Root)>>)
     /\ UNCHANGED <<currentFrame, document, pendingHistory, historyVars, wakeVars>>

-----------------------------------------------------------------------------
(* Command::execute, user code that runs without the mutex *)

Executing(t) == At(t, "exec") /\ instances[Top(t).inst].kind = "set"

\* A command that writes does so once.
ExecWrite(t) ==
  LET i == Top(t).inst
  IN /\ Executing(t)
     /\ instances[i].class.writes /\ ~instances[i].wrote
     /\ \E p \in Props :
          LET new == [document EXCEPT ![p] = i]
          IN /\ document' = new
             /\ instances' = [WriteProps(t, instances, {p}, document, new) EXCEPT ![i].wrote = TRUE]
     /\ UNCHANGED <<stack, commandFrames, currentFrame, pendingHistory, historyVars, wakeVars>>

\* A command queues a sub command.
ExecQueue(t) ==
  /\ Executing(t)
  /\ instances[Top(t).inst].class.queues
  /\ Len(commandFrames) < MaxFrames
  /\ \E c \in Classes : QueueCommand(t, "set", c, NoSelection, <<>>)
  /\ UNCHANGED <<currentFrame, document, pendingHistory, historyVars, wakeVars>>

\* How this application closes a batch: "abort" says that it may abort one.
Closers == {"end"} \cup (Ops \cap {"abort"})

\* Commands that open a batch close it themselves.
ExecBatch(t) ==
  /\ Executing(t)
  /\ instances[Top(t).inst].class.queues
  /\ "nestedBatch" \in Ops
  /\ \/ QueueCommand(t, "begin", BatchClass, NoSelection, <<>>)
     \/ /\ Len(Frame(Top(t).inst).stackQueue) > 1
        /\ \E kind \in Closers : QueueCommand(t, kind, BatchClass, NoSelection, <<>>)
  /\ UNCHANGED <<currentFrame, document, pendingHistory, historyVars, wakeVars>>

\* execute() returns: the instance's own undo data follows what its sub commands
\* have already handed to it.
Execute(t) ==
  LET i == Top(t).inst
      entry == [mergeable |-> ~instances[i].class.custom, helpers |-> instances[i].own]
      errors == CASE instances[i].kind \in {"begin", "end"} -> {"batch"}
                  [] instances[i].kind = "abort" -> {"failed"}
                  [] instances[i].class.fails -> {"ok", "failed"}
                  [] OTHER -> {"ok"}
  IN /\ At(t, "exec")
     /\ instances[i].class.writes => instances[i].wrote
     /\ instances[i].kind = "set" => Len(Frame(i).stackQueue) = 1
     /\ \E e \in errors :
          instances' = [instances EXCEPT ![i].error = e, ![i].data = Append(@, entry)]
     /\ ReplaceTop(t, <<[Top(t) EXCEPT !.at = "spin"]>>)
     /\ UNCHANGED <<commandFrames, currentFrame, document, pendingHistory, historyVars, wakeVars>>

-----------------------------------------------------------------------------
(* The end of a command *)

\* Only the own queue, or only the frames above, are looked at.
SubCommandsLeftQueueFaulty(i) == Frame(i).commandQueue # <<>>
SubCommandsLeftFrameFaulty(i) == BackFrame.instance # i

\* The sub commands of the instance, or of a frame above it, are not finished yet.
SubCommandsLeft(i) == Frame(i).commandQueue # <<>> \/ BackFrame.instance # i

SpinProcess(t) ==
  /\ At(t, "spin")
  /\ SubCommandsLeft(Top(t).inst)
  /\ Push(t, <<Act("loop", Root)>>)
  /\ UNCHANGED <<commandFrames, currentFrame, instances, document, pendingHistory,
                 historyVars, wakeVars>>

\* CommandInstance::consolidateChildren: of neighbouring SetReflectedProperty
\* commands with the same context id only the last stays.
Compressed(table, children) ==
  LET compressible(a, b) == /\ table[a].class.context # "none"
                            /\ table[a].class.context = table[b].class.context
      kept[n \in 0 .. Len(children)] ==
        IF n = 0 THEN <<>>
        ELSE IF kept[n - 1] # <<>> /\ compressible(Last(kept[n - 1]), children[n])
          THEN Front(kept[n - 1]) \o <<children[n]>>
          ELSE Append(kept[n - 1], children[n])
  IN kept[Len(children)]

ConsolidateChildren(table, i) ==
  [table EXCEPT ![i].children = Compressed(table, @)]

\* The undo data of i moves to its parent, or stays with it when i is a root.
HandToParent(table, i, parent) ==
  IF ~table[i].class.canUndo THEN table
  ELSE IF parent = Root
    THEN IF table[i].kind = "begin" THEN ConsolidateChildren(table, i) ELSE table
  ELSE LET moved == [table EXCEPT ![parent].data = Consolidate(@, table[i].data),
                                  ![i].data = <<>>]
       IN IF table[parent].kind = "begin" THEN ConsolidateChildren(moved, parent) ELSE moved

\* popFrame: i is the instance of the popped frame; an End or an Abort completes the
\* Begin on top of the enclosing command stack instead of itself.  A failed
\* instance is undone before it is complete, with the mutex released.
PopFrame(t) ==
  LET i == Top(t).inst
      below == Front(commandFrames)
      group == Last(below).commandStack
      closes == instances[i].kind \in {"end", "abort"} /\ Last(group) # Root
      done == IF closes THEN Last(group) ELSE i
      frames == IF closes THEN [below EXCEPT ![Len(below)].commandStack = Front(@)] ELSE below
      parent == Last(Last(frames).commandStack)
      table == IF closes THEN [instances EXCEPT ![done].error = instances[i].error] ELSE instances
      ok == Succeeded(table, done)
  IN /\ At(t, "spin")
     /\ ~SubCommandsLeft(i)
     /\ commandFrames' = frames
     /\ currentFrame' = [currentFrame EXCEPT ![t] = Top(t).prev]
     /\ CASE instances[i].kind = "begin" ->
               Pop(t) /\ UNCHANGED <<instances, pendingHistory>>
          [] instances[i].kind # "begin" /\ ok ->
               /\ instances' = [HandToParent(table, done, parent) EXCEPT ![done].status = "Complete"]
               /\ pendingHistory' = IF parent = Root /\ table[done].class.canUndo
                                      THEN Append(pendingHistory, done) ELSE pendingHistory
               /\ Pop(t)
          [] instances[i].kind # "begin" /\ ~ok /\ ~table[done].class.canUndo ->
               /\ instances' = [table EXCEPT ![done].status = "Complete"]
               /\ Pop(t)
               /\ UNCHANGED pendingHistory
          [] instances[i].kind # "begin" /\ ~ok /\ table[done].class.canUndo ->
               /\ instances' = table
               /\ ReplaceTop(t, <<Act("rollback", done)>>)
               /\ UNCHANGED pendingHistory
     /\ UNCHANGED <<document, historyVars, wakeVars>>

\* What undo() may apply of data: all of it, or what comes before a failure.
Undoable(data) == {data} \cup (IF "undoFails" \in Ops THEN StoppedUndo(data) ELSE {})

\* The rest of popFrame for a failed instance; the result of undo() is ignored.
Rollback(t) ==
  LET i == Top(t).inst
  IN /\ At(t, "rollback")
     /\ \E part \in Undoable(instances[i].data) :
          /\ document' = Undo(part, document)
          /\ instances' = [WriteProps(t, instances, Written(part), document, document')
                               EXCEPT ![i].status = "Complete"]
     /\ Pop(t)
     /\ UNCHANGED <<commandFrames, currentFrame, pendingHistory, historyVars, wakeVars>>

-----------------------------------------------------------------------------
(* waitForInstance *)

\* The queued instances before i, from the innermost open batch of the frame that
\* is still queued itself; the end of the queue when i has left it.
WaitRange(frame, i) ==
  LET queue == frame.commandQueue
      last == IF Contains(queue, i) THEN CHOOSE k \in DOMAIN queue : queue[k] = i
                                    ELSE Len(queue) + 1
      open == {k \in 1 .. last - 1 : Contains(frame.stackQueue, queue[k])}
      first == IF open = {} THEN 1 ELSE Max(open)
  IN SubSeq(queue, first, last - 1)

WaitAct(t, i) == [Act("wait", i) EXCEPT !.before = WaitRange(Frame(currentFrame[t]), i)]

WaitProcess(t) ==
  /\ At(t, "wait")
  /\ instances[Top(t).inst].status # "Complete"
  /\ Push(t, <<Act("loop", Root)>>)
  /\ UNCHANGED <<commandFrames, currentFrame, instances, document, pendingHistory,
                 historyVars, wakeVars>>

\* The awaited instance is complete: go on with the group it belongs to if one of
\* the remembered instances is its parent, else return.
WaitNext(t) ==
  LET before == Top(t).before
      groups == {k \in DOMAIN before : Contains(instances[before[k]].children, Top(t).inst)}
  IN /\ At(t, "wait")
     /\ instances[Top(t).inst].status = "Complete"
     /\ IF groups = {} THEN Pop(t)
        ELSE ReplaceTop(t, <<[Act("wait", before[Max(groups)]) EXCEPT
                                !.before = SubSeq(before, 1, Max(groups) - 1)]>>)
     /\ UNCHANGED <<commandFrames, currentFrame, instances, document, pendingHistory,
                    historyVars, wakeVars>>

\* moveCommandIndex begins its wait once queueCommand has returned.
WaitStart(t) ==
  /\ At(t, "waitStart")
  /\ ReplaceTop(t, <<WaitAct(t, Top(t).inst)>>)
  /\ UNCHANGED <<commandFrames, currentFrame, instances, document, pendingHistory,
                 historyVars, wakeVars>>

\* A command waits for a sub command it has queued.
ExecWait(t) ==
  LET i == Top(t).inst
  IN /\ Executing(t)
     /\ instances[i].class.queues
     /\ \E c \in DOMAIN instances :
          /\ instances[c].home = i /\ instances[c].kind = "set"
          /\ instances[c].status # "Complete"
          /\ Push(t, <<WaitAct(t, c)>>)
     /\ UNCHANGED <<commandFrames, currentFrame, instances, document, pendingHistory,
                    historyVars, wakeVars>>

(* flush *)

FlushDone ==
  /\ Len(commandFrames) = 1 /\ commandFrames[1].commandQueue = <<>>
  /\ pendingHistory = <<>>

Flush(t) ==
  /\ At(t, "flush")
  /\ IF FlushDone THEN Pop(t) ELSE Push(t, <<Act("loop", Root)>>)
  /\ UNCHANGED <<commandFrames, currentFrame, instances, document, pendingHistory,
                 historyVars, wakeVars>>

-----------------------------------------------------------------------------
(* Undo and redo: owner thread only *)

\* moveCommandIndex(target): the job is queued, executed and waited for, then "move"
\* takes over the index that was reached.
MoveCommandIndex(target) ==
  /\ previousSelectedIndex' = currentIndex
  /\ currentIndex' = target
  /\ LET job == Len(instances) + 1
         k == FrameIndex(currentFrame[Owner])
     IN /\ instances' = Append(instances,
             MakeCommand("undoRedo", UndoRedoClass, target, currentFrame[Owner]))
        /\ commandFrames' = [commandFrames EXCEPT ![k].commandQueue = Append(@, job)]
        /\ stack' = [stack EXCEPT ![Owner] =
             (IF @ = <<>> THEN <<>> ELSE Front(@))
               \o <<Act("move", Root), Act("waitStart", job), Act("loop", Root)>>]
  /\ UNCHANGED <<currentFrame, document, pendingHistory, history, index, wakeVars>>

\* The index that was asked for stays although undoRedo gave up before it.
MoveDoneFaulty ==
  /\ At(Owner, "move")
  /\ index' = currentIndex
  /\ Pop(Owner)
  /\ UNCHANGED <<commandFrames, currentFrame, instances, document, pendingHistory, history,
                 currentIndex, previousSelectedIndex, wakeVars>>

MoveDone ==
  /\ At(Owner, "move")
  /\ currentIndex' = previousSelectedIndex
  /\ index' = previousSelectedIndex
  /\ Pop(Owner)
  /\ UNCHANGED <<commandFrames, currentFrame, instances, document, pendingHistory, history,
                 previousSelectedIndex, wakeVars>>

\* Only the history is looked at.
CanUndoFaulty == history # <<>>

CanUndo == ~(history = <<>> \/ previousSelectedIndex < 0)
CanRedo == history # <<>> /\ previousSelectedIndex # Len(history) - 1

\* undo() and redo() after their flush; their TF_ASSERTs do not stop a release build.
UndoCall ==
  /\ At(Owner, "undo")
  /\ MoveCommandIndex(currentIndex - 1)

RedoCall ==
  /\ At(Owner, "redo")
  /\ MoveCommandIndex(currentIndex + 1)

\* CommandManager::undoRedo after its flush, one history entry per step.
UndoRedoEnds(i) ==
  \/ history = <<>>
  \/ previousSelectedIndex = instances[i].target
  \/ instances[i].target >= Len(history)
  \/ previousSelectedIndex = currentIndex

UndoRedoDone ==
  LET i == Top(Owner).inst
  IN /\ At(Owner, "undoRedo")
     /\ UndoRedoEnds(i)
     /\ instances' = [instances EXCEPT ![i].status = "Complete"]
     /\ Pop(Owner)
     /\ UNCHANGED <<commandFrames, currentFrame, document, pendingHistory, historyVars, wakeVars>>

UndoEntry ==
  /\ At(Owner, "undoRedo")
  /\ ~UndoRedoEnds(Top(Owner).inst)
  /\ previousSelectedIndex > currentIndex
  /\ document' = Undo(instances[history[previousSelectedIndex + 1]].data, document)
  /\ previousSelectedIndex' = previousSelectedIndex - 1
  /\ UNCHANGED <<stack, commandFrames, currentFrame, instances, pendingHistory, history,
                 currentIndex, index, wakeVars>>

RedoEntry ==
  /\ At(Owner, "undoRedo")
  /\ ~UndoRedoEnds(Top(Owner).inst)
  /\ previousSelectedIndex < currentIndex
  /\ document' = Redo(instances[history[previousSelectedIndex + 2]].data, document)
  /\ previousSelectedIndex' = previousSelectedIndex + 1
  /\ UNCHANGED <<stack, commandFrames, currentFrame, instances, pendingHistory, history,
                 currentIndex, index, wakeVars>>

\* An entry cannot be undone or redone to its end (an object is gone): undoRedo gives
\* up, and what was written back stays.
UndoRedoFails ==
  LET i == Top(Owner).inst
  IN /\ "undoFails" \in Ops
     /\ At(Owner, "undoRedo")
     /\ ~UndoRedoEnds(i)
     /\ \/ /\ previousSelectedIndex > currentIndex
           /\ \E part \in StoppedUndo(instances[history[previousSelectedIndex + 1]].data) :
                document' = Undo(part, document)
        \/ /\ previousSelectedIndex < currentIndex
           /\ \E part \in StoppedRedo(instances[history[previousSelectedIndex + 2]].data) :
                document' = Redo(part, document)
     /\ instances' = [instances EXCEPT ![i].status = "Complete"]
     /\ Pop(Owner)
     /\ UNCHANGED <<commandFrames, currentFrame, pendingHistory, historyVars, wakeVars>>

(* removeCommands, after its flush: each erased entry at or before an index moves *)
(* that index down.                                                               *)

\* Every erased entry moves the index.
MovedFaulty(at, idx) == Max({idx - 1, NoSelection})

Moved(at, idx) == IF at <= idx THEN Max({idx - 1, NoSelection}) ELSE idx

Erase(removed) ==
  LET left[n \in 0 .. Len(history)] ==    \* once history[1 .. n] has been looked at
        IF n = 0
          THEN [kept |-> <<>>, current |-> currentIndex, previous |-> previousSelectedIndex]
          ELSE IF history[n] \in removed
            THEN [left[n - 1] EXCEPT !.current = Moved(Len(left[n - 1].kept), @),
                                     !.previous = Moved(Len(left[n - 1].kept), @)]
            ELSE [left[n - 1] EXCEPT !.kept = Append(@, history[n])]
  IN left[Len(history)]

RemoveCall ==
  /\ At(Owner, "remove")
  /\ \E removed \in SUBSET Range(history) :
       LET left == Erase(removed)
       IN /\ history' = left.kept
          /\ previousSelectedIndex' = left.previous
          /\ currentIndex' = left.current /\ index' = left.current
  /\ Pop(Owner)
  /\ UNCHANGED <<commandFrames, currentFrame, instances, document, pendingHistory, wakeVars>>

-----------------------------------------------------------------------------
(* The application on the owner thread, between calls of the manager *)

Idle == stack[Owner] = <<>> /\ ~exiting
OpenGroup == Len(commandFrames[1].stackQueue) > 1
CallVars == <<currentFrame, document, pendingHistory, historyVars, wakeVars>>

AppQueue ==
  /\ Idle
  /\ \E c \in Classes : QueueCommand(Owner, "set", c, NoSelection, <<>>)
  /\ UNCHANGED CallVars

AppBatch ==
  /\ Idle /\ "batch" \in Ops
  /\ \E kind \in {"begin"} \cup Closers :
       /\ IF kind = "begin" THEN OpenGroup => "nestedBatch" \in Ops ELSE OpenGroup
       /\ QueueCommand(Owner, kind, BatchClass, NoSelection, <<>>)
  /\ UNCHANGED CallVars

AppWait ==
  /\ Idle /\ "wait" \in Ops
  /\ OpenGroup => "waitInBatch" \in Ops
  /\ \E i \in DOMAIN instances :
       /\ instances[i].home = Root /\ instances[i].kind = "set"
       /\ instances[i].status # "Complete"
       /\ Push(Owner, <<WaitAct(Owner, i)>>)
  /\ UNCHANGED <<commandFrames, instances, CallVars>>

\* Undo, redo and the history view are used outside a batch; the callers of undo
\* and redo ask canUndo and canRedo first.  MaxInstances bounds these calls: the job
\* itself may be one instance more.
MayMove == Idle /\ ~OpenGroup /\ Len(instances) < MaxInstances

AppUndo ==
  /\ MayMove /\ "undo" \in Ops
  /\ CanUndo
  /\ Push(Owner, <<Act("undo", Root), Act("flush", Root)>>)
  /\ UNCHANGED <<commandFrames, instances, CallVars>>

AppRedo ==
  /\ MayMove /\ "redo" \in Ops
  /\ CanRedo
  /\ Push(Owner, <<Act("redo", Root), Act("flush", Root)>>)
  /\ UNCHANGED <<commandFrames, instances, CallVars>>

\* moveCommandIndex, which does not flush: "move" is a caller that has, "moveAnyTime"
\* one that has not.
AppMove ==
  /\ MayMove
  /\ "moveAnyTime" \in Ops \/ ("move" \in Ops /\ FlushDone)
  /\ \E target \in NoSelection .. Len(history) - 1 :
       target # currentIndex /\ MoveCommandIndex(target)

AppRemove ==
  /\ Idle /\ "remove" \in Ops /\ ~OpenGroup
  /\ history # <<>>
  /\ Push(Owner, <<Act("remove", Root), Act("flush", Root)>>)
  /\ UNCHANGED <<commandFrames, instances, CallVars>>

\* getHistory
AppFlush ==
  /\ Idle /\ "flush" \in Ops
  /\ ~FlushDone
  /\ Push(Owner, <<Act("flush", Root)>>)
  /\ UNCHANGED <<commandFrames, instances, CallVars>>

\* update, called on every tick of the application; it returns early unless it was
\* asked to wake up, and clears the request after processCommands.
AppUpdate ==
  /\ Idle
  /\ ownerWakeUp
  /\ Push(Owner, <<Act("update", Root), Act("loop", Root)>>)
  /\ UNCHANGED <<commandFrames, instances, CallVars>>

UpdateDone ==
  /\ At(Owner, "update")
  /\ ownerWakeUp' = FALSE
  /\ Pop(Owner)
  /\ UNCHANGED <<commandFrames, currentFrame, instances, document, pendingHistory, historyVars,
                 worker, exiting>>

\* fini aborts the innermost batch, open or not, stops the worker and joins it.
AppFini ==
  /\ Idle /\ "fini" \in Ops
  /\ QueueCommand(Owner, "abort", BatchClass, NoSelection, <<Act("fini", Root)>>)
  /\ UNCHANGED CallVars

FiniExit ==
  /\ At(Owner, "fini")
  /\ exiting' = TRUE
  /\ NotifyWorker
  /\ ReplaceTop(Owner, <<Act("join", Root)>>)
  /\ UNCHANGED <<commandFrames, currentFrame, instances, document, pendingHistory, historyVars,
                 ownerWakeUp>>

FiniJoin ==
  /\ At(Owner, "join")
  /\ worker = "exited"
  /\ Pop(Owner)
  /\ UNCHANGED <<commandFrames, instances, CallVars>>

(* threadFunc *)

HasWork == BackFrame.commandQueue # <<>>

\* The head of the while loop, and the first evaluation of the predicate.
WorkerTurn ==
  /\ worker = "running" /\ stack[Worker] = <<>>
  /\ IF exiting THEN worker' = "exited" /\ UNCHANGED stack
     ELSE IF HasWork THEN Push(Worker, <<Act("loop", Root)>>) /\ UNCHANGED worker
     ELSE worker' = "waiting" /\ UNCHANGED stack
  /\ UNCHANGED <<commandFrames, currentFrame, instances, document, pendingHistory, historyVars,
                 ownerWakeUp, exiting>>

\* A notified worker evaluates the predicate again.
WorkerWoken ==
  /\ worker = "woken"
  /\ IF HasWork \/ exiting
       THEN worker' = "running" /\ Push(Worker, <<Act("loop", Root)>>)
       ELSE worker' = "waiting" /\ UNCHANGED stack
  /\ UNCHANGED <<commandFrames, currentFrame, instances, document, pendingHistory, historyVars,
                 ownerWakeUp, exiting>>

-----------------------------------------------------------------------------
\* What a thread does inside the manager or inside a command.
ThreadStep(t) ==
  \/ LoopEnds(t) \/ TakeCommand(t) \/ TakeUndoRedo(t)
  \/ ExecWrite(t) \/ ExecQueue(t) \/ ExecBatch(t) \/ ExecWait(t) \/ Execute(t)
  \/ SpinProcess(t) \/ PopFrame(t) \/ Rollback(t)
  \/ WaitProcess(t) \/ WaitNext(t) \/ WaitStart(t) \/ Flush(t)

OwnerStep ==
  \/ ThreadStep(Owner)
  \/ UndoCall \/ RedoCall \/ UndoEntry \/ RedoEntry \/ UndoRedoDone \/ UndoRedoFails \/ MoveDone
  \/ RemoveCall \/ UpdateDone \/ FiniExit \/ FiniJoin

WorkerStep == ThreadStep(Worker) \/ WorkerTurn \/ WorkerWoken

AppStep ==
  \/ AppQueue \/ AppBatch \/ AppWait \/ AppUndo \/ AppRedo \/ AppMove \/ AppRemove \/ AppFlush
  \/ AppUpdate \/ AppFini

Next == OwnerStep \/ WorkerStep \/ AppStep

Spec == Init /\ [][Next]_vars

\* Both threads run; the application keeps ticking.
FairSpec == Spec /\ WF_vars(OwnerStep) /\ WF_vars(WorkerStep) /\ WF_vars(AppUpdate)
=============================================================================
