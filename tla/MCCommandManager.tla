--------------------------- MODULE MCCommandManager ---------------------------
(* Command classes for the runs of CommandManager.                            *)
EXTENDS CommandProperties

Class(affinity, writes, fails, queues) ==
  [affinity |-> affinity, custom |-> queues, canUndo |-> TRUE, writes |-> writes,
   fails |-> fails, queues |-> queues, context |-> "none"]

\* Leaf commands that set a property on either thread, one of which may fail, and
\* compound commands, which have custom undo and only queue sub commands; one of
\* these may fail and cannot be undone.
ThreadedClasses ==
  {Class("UI", TRUE, TRUE, FALSE), Class("COMMAND", TRUE, FALSE, FALSE),
   [Class("ANY", FALSE, TRUE, TRUE) EXCEPT !.canUndo = FALSE],
   Class("COMMAND", FALSE, FALSE, TRUE)}

\* Leaf commands only.
LeafClasses ==
  {Class("UI", TRUE, FALSE, FALSE), Class("COMMAND", TRUE, FALSE, FALSE)}

\* SetReflectedPropertyCommands of one context, which batches compress, and a command
\* that opens batches of its own.
BatchedClasses ==
  {[Class("COMMAND", TRUE, FALSE, FALSE) EXCEPT !.context = "edit"],
   Class("UI", FALSE, FALSE, TRUE)}

\* A command of the worker.
WorkerLeaves == {Class("COMMAND", TRUE, FALSE, FALSE)}
=============================================================================
