-------------------------- MODULE CommandProperties --------------------------
(* What CommandManager promises.                                             *)
EXTENDS CommandManager

Ids == DOMAIN instances
Complete(i) == instances[i].status = "Complete"
RollingBack(i) == \E t \in Threads : \E k \in DOMAIN stack[t] :
                     stack[t][k].at = "rollback" /\ stack[t][k].inst = i

\* The activations of thread t that have pushed a frame and not popped it.
Owning(t) == {k \in DOMAIN stack[t] : stack[t][k].at \in {"exec", "spin"}}

\* frame is what t was working on when its k-th activation began.
Enclosing(t, k, frame) ==
  \/ /\ frame = IF t = Owner THEN Root ELSE NoFrame
     /\ \A j \in Owning(t) : k <= j
  \/ \E j \in Owning(t) :
       /\ j < k /\ frame = stack[t][j].inst
       /\ \A l \in Owning(t) : l < k => l <= j

\* Nothing is queued, running or waiting to enter the history, and no call is in
\* progress.
Quiescent ==
  /\ FlushDone /\ ~OpenGroup
  /\ \A t \in Threads : stack[t] = <<>>

-----------------------------------------------------------------------------
(* Types *)

Places == {"loop", "exec", "spin", "rollback", "wait", "waitStart", "flush", "undoRedo",
           "move", "undo", "redo", "remove", "update", "fini", "join"}

\* The type of the state.
TypeOK ==
  /\ \A t \in Threads : \A k \in DOMAIN stack[t] :
       /\ stack[t][k].at \in Places
       /\ stack[t][k].inst \in 0 .. Len(instances)
       /\ stack[t][k].prev \in NoFrame .. Len(instances)
  /\ commandFrames # <<>>
  /\ \A k \in DOMAIN commandFrames :
       /\ commandFrames[k].instance \in 0 .. Len(instances)
       /\ commandFrames[k].commandStack \in Seq(0 .. Len(instances))
       /\ commandFrames[k].stackQueue \in Seq(0 .. Len(instances))
       /\ commandFrames[k].commandQueue \in Seq(Ids)
  /\ Len(instances) <= MaxInstances + 1
  /\ document \in [Props -> 0 .. Len(instances)]
  /\ history \in Seq(Ids) /\ pendingHistory \in Seq(Ids)
  /\ ownerWakeUp \in BOOLEAN /\ exiting \in BOOLEAN
  /\ worker \in {"running", "waiting", "woken", "exited"}
  /\ index \in NoSelection .. Len(history) - 1
  /\ previousSelectedIndex \in NoSelection .. Len(history) - 1

-----------------------------------------------------------------------------
(* Frames *)

\* Every frame above the root is owned by an activation of a thread ...
FramesOwned ==
  \A n \in 2 .. Len(commandFrames) : \E t \in Threads : \E k \in Owning(t) :
    commandFrames[n].instance = stack[t][k].inst

\* ... by one only ...
OneOwner ==
  \A t, u \in Threads : \A j \in Owning(t), k \in Owning(u) :
    stack[t][j].inst = stack[u][k].inst => t = u /\ j = k

\* ... and the frames of a thread are nested like its activations.
FramesNested ==
  \A t \in Threads : \A k \in Owning(t) : \E n \in 2 .. Len(commandFrames) :
    /\ commandFrames[n].instance = stack[t][k].inst
    /\ \A j \in Owning(t) : j < k =>
         \E m \in 2 .. n - 1 : commandFrames[m].instance = stack[t][j].inst

\* commandFrames_ is one stack shared by two threads, which push and pop frames in
\* any interleaving: no frame is lost or left behind by its thread, and currentFrame_
\* is always the thread's innermost one, so that a sub command is queued under its own
\* parent (pushFrame, popFrame, THREAD_LOCAL currentFrame_).
FrameDiscipline ==
  /\ commandFrames[1].instance = Root
  /\ FramesOwned /\ OneOwner /\ FramesNested
  /\ \A t \in Threads : Enclosing(t, Len(stack[t]) + 1, currentFrame[t])

\* A command is executed once: no instance waits in two places of the queues, or in a
\* queue while its own frame is pushed (queueCommand, pop_front in processCommands).
QueuedOnce ==
  \A m, n \in DOMAIN commandFrames : \A a \in DOMAIN commandFrames[m].commandQueue :
    /\ commandFrames[n].instance # commandFrames[m].commandQueue[a]
    /\ \A b \in DOMAIN commandFrames[n].commandQueue :
         commandFrames[m].commandQueue[a] = commandFrames[n].commandQueue[b] => m = n /\ a = b

\* The assertions of popFrame: when the back frame is popped its own instance is the
\* only one left on its command stack, and both of its queues are used up.
PopFrameAsserts ==
  \A t \in Threads :
    At(t, "spin") /\ ~SubCommandsLeft(Top(t).inst) =>
      /\ BackFrame.commandStack = <<Top(t).inst>>
      /\ BackFrame.stackQueue = <<Top(t).inst>>
      /\ Len(commandFrames) > 1

\* Commands queued on one frame finish in the order they were queued, whichever
\* threads run them; only the roll back of a failed one may lag behind
\* (processCommands; test_objects.cpp asserts it of three sub commands).
FifoCompletion ==
  \A i, j \in Ids :
    /\ i < j /\ instances[i].home = instances[j].home
    /\ instances[i].kind = "set" /\ instances[j].kind = "set" /\ Complete(j)
    => Complete(i) \/ RollingBack(i)

\* A command is complete only when everything it queued is: no sub command is left
\* in a queue nobody will look at again or still runs on the other thread.
SubCommandsFirst ==
  \A i \in Ids :
    instances[i].home # Root /\ Complete(instances[i].home) =>
      \/ Complete(i) \/ RollingBack(i)
      \/ instances[i].kind \in {"end", "abort"} /\ instances[i].status = "Running"

-----------------------------------------------------------------------------
(* History *)

\* The history accounts for the document.  At rest, undoing the entries up to the
\* index, newest first, leads to the initial document; each of them can be redone and
\* then is back where it was; and the entries after the index can be redone in turn,
\* each of which undo takes back.  Failed commands have left no trace.
HistoryConsistent ==
  LET at == currentIndex + 1
      data(k) == instances[history[k]].data
      before[k \in 0 .. at] ==              \* the document once entry k + 1 is undone
        IF k = at THEN document ELSE Undo(data(k + 1), before[k + 1])
      after[k \in at .. Len(history)] ==    \* the document once entry k is redone
        IF k = at THEN document ELSE Redo(data(k), after[k - 1])
  IN Quiescent =>
       /\ before[0] = [p \in Props |-> 0]
       /\ \A k \in 1 .. at : Redo(data(k), before[k - 1]) = before[k]
       /\ \A k \in at + 1 .. Len(history) : Undo(data(k), after[k]) = after[k - 1]

\* The instances whose undo data i has gathered: its children and theirs.
Members(i) ==
  LET reached[n \in Nat] ==
        IF n = 0 THEN {i}
        ELSE reached[n - 1] \cup UNION {Range(instances[j].children) : j \in reached[n - 1]}
  IN reached[Len(instances)]

\* An aborted batch leaves no trace: once popFrame has rolled all of it back no property
\* holds a value that one of its commands wrote, on whichever threads these ran.  (An
\* undo() that fails half-way leaves what it did not reach; popFrame does not look.)
RollbackErases ==
  [][ \A t \in Threads :
        /\ At(t, "rollback") /\ stack'[t] = Front(stack[t])
        /\ document' = Undo(instances[Top(t).inst].data, document)
        => \A p \in Props : document'[p] \notin Members(Top(t).inst) ]_vars

\* Only whole root commands enter the history, each once: no sub command, no member
\* of a batch and no failed command can be undone by itself.
HistoryOfRoots ==
  LET entries == history \o pendingHistory
  IN /\ \A j, k \in DOMAIN entries : entries[j] = entries[k] => j = k
     /\ \A k \in DOMAIN entries :
          /\ instances[entries[k]].home = Root
          /\ instances[entries[k]].error # "failed"
          /\ \A i \in Ids : ~Contains(instances[i].children, entries[k])

\* Between calls the three indices agree, and they point into the history.
IndicesAgree ==
  stack[Owner] = <<>> =>
    /\ currentIndex = previousSelectedIndex /\ index = previousSelectedIndex
    /\ currentIndex \in NoSelection .. Len(history) - 1

\* "erase all history after the current index" drops undone entries only: an entry
\* whose effect is in the document stays, except when removeCommands erases it.
AppliedEntriesStay ==
  [][ ~At(Owner, "remove") =>
        IsPrefix(SubSeq(history, 1, previousSelectedIndex + 1), history') ]_vars

\* removeCommands keeps the boundary between done and undone entries where it was: of
\* the entries that stay, those before the index are the ones that were before it.
RemovalKeepsBoundary ==
  [][ At(Owner, "remove") =>
        Range(SubSeq(history', 1, currentIndex' + 1)) =
          Range(SubSeq(history, 1, currentIndex + 1)) \cap Range(history') ]_vars

\* Once the last command the application queued has succeeded, its value is in the
\* document: nothing queued before it still writes.
LastWriteVisible ==
  \A i \in Ids :
    /\ instances[i].home = Root /\ instances[i].wrote
    /\ Complete(i) /\ instances[i].error = "ok"
    /\ \A j \in Ids : instances[j].home = Root => j <= i
    => \E p \in Props : document[p] = i

\* redo() asserts canRedo() after its flush.
RedoAsserts == At(Owner, "redo") => CanRedo

\* undo() asserts that there is something to undo.
UndoAsserts == At(Owner, "undo") => currentIndex >= 0 /\ CanUndo

\* waitForInstance waits for the outermost closed batch of the awaited command, never
\* for a batch that the waiting thread itself has still to close.
NeverWaitsForOpenBatch ==
  \A t \in Threads :
    At(t, "wait") => ~Contains(Frame(currentFrame[t]).stackQueue, Top(t).inst)
                     \/ Top(t).inst = currentFrame[t]

-----------------------------------------------------------------------------
(* Progress *)

\* Every command queued is executed to its end, on the thread it belongs to.
EveryCommandCompletes ==
  \A i \in 1 .. MaxInstances :
    (i \in Ids /\ instances[i].kind = "set") ~> (i \in Ids /\ Complete(i))

\* Every call the application makes returns.
CallsReturn == stack[Owner] # <<>> ~> stack[Owner] = <<>>

\* Finished commands reach the history although nobody calls the manager again.
PendingIsTaken == pendingHistory # <<>> ~> pendingHistory = <<>>
=============================================================================
