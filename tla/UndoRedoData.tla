---------------------------- MODULE UndoRedoData ----------------------------
(***************************************************************************)
(* The undo/redo data of core_command_system.  While a command executes, a *)
(* property listener records the first value and the last value of every   *)
(* property it sets (PropertyAccessorWrapper); when the command's frame is *)
(* popped that record moves to the enclosing command                       *)
(* (CommandInstance::consolidateUndoRedoData), and undo and redo write the *)
(* recorded values back.                                                   *)
(*                                                                         *)
(* A document maps properties to values.  A helper list is a function from *)
(* the properties it has recorded; two properties never overlap.  An entry *)
(* of undoRedoData_ that consolidation may not merge (custom undo data, or *)
(* a single reflected method) is marked as such; it still writes values.   *)
(***************************************************************************)
EXTENDS Integers, Sequences

\* An empty undoRedoHelperList_.
NoHelpers == [p \in {} |-> p]

\* preSetValue keeps the pre-value of the first write, postSetValue takes the
\* value after every write.
Record(list, p, old, new) ==
  [q \in DOMAIN list \cup {p} |->
    IF q # p THEN list[q]
    ELSE [pre |-> IF p \in DOMAIN list THEN list[p].pre ELSE old, post |-> new]]

\* Several properties written at once, as undoing a helper list does.
RecordWrites(list, written, doc, new) ==
  [q \in DOMAIN list \cup written |->
    IF q \in written THEN Record(list, q, doc[q], new[q])[q] ELSE list[q]]

(* Definitions whose name ends in Faulty are plausible mistakes; nothing refers to *)
(* them, they document which property would notice.                               *)

\* The child's helper replaces the parent's.
MergeFaulty(list, child) ==
  [q \in DOMAIN list \cup DOMAIN child |->
    IF q \in DOMAIN child THEN child[q] ELSE list[q]]

\* The child's helpers enter the parent's list: an already recorded property
\* takes only the child's post-value, another property is appended.
Merge(list, child) ==
  [q \in DOMAIN list \cup DOMAIN child |->
    [pre |-> IF q \in DOMAIN list THEN list[q].pre ELSE child[q].pre,
     post |-> IF q \in DOMAIN child THEN child[q].post ELSE list[q].post]]

\* Only data that merges is kept.
ConsolidateFaulty(parent, child) == parent

\* consolidateUndoRedoData(parent): the last entry of the parent and the first
\* of the child merge when both are plain reflection data, the rest is appended.
Consolidate(parent, child) ==
  IF /\ parent # <<>> /\ parent[Len(parent)].mergeable
     /\ child # <<>> /\ child[1].mergeable
    THEN [parent EXCEPT ![Len(parent)].helpers = Merge(@, child[1].helpers)]
           \o Tail(child)
    ELSE parent \o child

\* applyReflectedProperties, undoing or redoing one helper list.
UndoHelpers(list, doc) ==
  [q \in DOMAIN doc |-> IF q \in DOMAIN list THEN list[q].pre ELSE doc[q]]

RedoHelpers(list, doc) ==
  [q \in DOMAIN doc |-> IF q \in DOMAIN list THEN list[q].post ELSE doc[q]]

\* The properties an entry list writes back.
Written(data) == UNION {DOMAIN data[k].helpers : k \in DOMAIN data}

\* CommandInstance::undo runs undoRedoData_ backwards, redo runs it forwards.
Undo(data, doc) ==
  LET back[k \in 0 .. Len(data)] ==    \* the document once data[k + 1 ..] is undone
        IF k = Len(data) THEN doc
        ELSE UndoHelpers(data[k + 1].helpers, back[k + 1])
  IN back[0]

Redo(data, doc) ==
  LET forth[k \in 0 .. Len(data)] ==
        IF k = 0 THEN doc
        ELSE RedoHelpers(data[k].helpers, forth[k - 1])
  IN forth[Len(data)]

-----------------------------------------------------------------------------
(* undo() and redo() stop at the first helper that cannot be applied (its object is *)
(* gone) and at the first entry that returns false; what they wrote before stays.    *)

Cut(entry, S) == [entry EXCEPT !.helpers = [q \in S |-> @[q]]]

\* What is applied of an entry that fails: not all helpers of a reflected one (any of
\* its properties may be the last), whatever custom data had written.
Stopped(entry) ==
  {Cut(entry, S) : S \in {done \in SUBSET DOMAIN entry.helpers :
                            entry.mergeable => done # DOMAIN entry.helpers}}

\* What is undone, or redone, of data when some entry fails.
StoppedUndo(data) ==
  UNION {{<<part>> \o SubSeq(data, k + 1, Len(data)) : part \in Stopped(data[k])} :
           k \in DOMAIN data}

StoppedRedo(data) ==
  UNION {{SubSeq(data, 1, k - 1) \o <<part>> : part \in Stopped(data[k])} :
           k \in DOMAIN data}
=============================================================================
