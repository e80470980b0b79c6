------------------------- MODULE CommandDocumentProofs -------------------------
(***************************************************************************)
(* The document and the undo data.                                         *)
(*                                                                         *)
(* For the applications Orderly describes, the history accounts for the    *)
(* document.  Every command is given two marks, the document it began with *)
(* and the one it has led to so far.  Its undo data lead from the first to *)
(* the second and back, and it began where the one before it ended, in the *)
(* history, among what is pending and in the frames.  The lemmas show for  *)
(* each kind of step that such marks still exist after it.                 *)
(*                                                                         *)
(* For the applications Flat describes, an aborted batch leaves no trace.  *)
(* Every value in the document and in the undo data is the initial one or  *)
(* that of a command that has recorded the property; a batch has the undo  *)
(* data of every command that ran in it; and what these restore first goes *)
(* back to before the batch.                                               *)
(***************************************************************************)
EXTENDS CommandHistoryProofs

-----------------------------------------------------------------------------
(* Marks in the history, in the frames and in the document *)

\* The marks of what is complete stay.
SameComplete(f, g, f2, g2) == \A i \in Ids : Complete(i) => f2[i] = f[i] /\ g2[i] = g[i]

\* What is in the history, or waits to enter it, is complete.
LEMMA EntriesComplete ==
  ASSUME Entered, HInv
  PROVE  /\ Len(history) \in Nat /\ Len(pendingHistory) \in Nat
         /\ \A k \in 1 .. Len(history) : history[k] \in Ids /\ Complete(history[k])
         /\ \A k \in 1 .. Len(pendingHistory) :
              pendingHistory[k] \in Ids /\ Complete(pendingHistory[k])
BY DEF Entered, HInv, Entries, Entry

\* The document of the selected entry stays.
LEMMA BaseKept ==
  ASSUME Entered, Selected, HInv, UNCHANGED <<history, previousSelectedIndex>>,
         NEW f, NEW g, NEW f2, NEW g2, SameComplete(f, g, f2, g2), HistoryMarked(f, g)
  PROVE  HistoryMarked(f2, g2)' /\ Base(g2)' = Base(g)
<1>1. /\ Len(history) \in Nat
      /\ \A k \in 1 .. Len(history) : /\ f2[history[k]] = f[history[k]]
                                      /\ g2[history[k]] = g[history[k]]
  BY EntriesComplete DEF SameComplete
<1>2. Base(g2)' = Base(g)
  <2>1. previousSelectedIndex \in Int /\ previousSelectedIndex <= Len(history) - 1
        /\ (previousSelectedIndex < 0 \/ previousSelectedIndex >= 0)
    BY <1>1 DEF Selected, NoSelection
  <2>2. CASE previousSelectedIndex < 0
    BY <2>2 DEF Base
  <2>3. CASE previousSelectedIndex >= 0
    <3>1. previousSelectedIndex + 1 \in 1 .. Len(history)
      BY <1>1, <2>1, <2>3
    <3>2. g2[history[previousSelectedIndex + 1]] = g[history[previousSelectedIndex + 1]]
      BY <1>1, <3>1
    <3> QED
      BY <2>1, <2>3, <3>2 DEF Base
  <2> QED
    BY <2>1, <2>2, <2>3
<1>3. Len(history) > 0 => f2[history[1]] = Blank
  <2>1. Len(history) > 0 => 1 \in 1 .. Len(history)
    BY <1>1
  <2> QED
    BY <1>1, <2>1 DEF HistoryMarked
<1>4. Linked(f2, g2, history)
  <2> SUFFICES ASSUME NEW k \in 1 .. Len(history) - 1
               PROVE  g2[history[k]] = f2[history[k + 1]]
    BY DEF Linked
  <2>1. k \in 1 .. Len(history) /\ k + 1 \in 1 .. Len(history)
    BY <1>1
  <2>2. g[history[k]] = f[history[k + 1]]
    BY DEF HistoryMarked, Linked
  <2> QED
    BY <1>1, <2>1, <2>2
<1>5. HistoryMarked(f2, g2)'
  BY <1>3, <1>4 DEF HistoryMarked, Linked, Blank
<1> QED
  BY <1>2, <1>5

\* The links between what is pending.
LEMMA PendingLinks ==
  ASSUME Entered, HInv, NEW f, NEW g, NEW f2, NEW g2, SameComplete(f, g, f2, g2),
         Linked(f, g, pendingHistory)
  PROVE  /\ Linked(f2, g2, pendingHistory)
         /\ Len(pendingHistory) > 0 =>
              /\ f2[pendingHistory[1]] = f[pendingHistory[1]]
              /\ g2[pendingHistory[Len(pendingHistory)]] = g[pendingHistory[Len(pendingHistory)]]
<1>1. /\ Len(pendingHistory) \in Nat
      /\ \A k \in 1 .. Len(pendingHistory) : /\ f2[pendingHistory[k]] = f[pendingHistory[k]]
                                             /\ g2[pendingHistory[k]] = g[pendingHistory[k]]
  BY EntriesComplete DEF SameComplete
<1>2. Linked(f2, g2, pendingHistory)
  <2> SUFFICES ASSUME NEW k \in 1 .. Len(pendingHistory) - 1
               PROVE  g2[pendingHistory[k]] = f2[pendingHistory[k + 1]]
    BY DEF Linked
  <2>1. k \in 1 .. Len(pendingHistory) /\ k + 1 \in 1 .. Len(pendingHistory)
    BY <1>1
  <2>2. g[pendingHistory[k]] = f[pendingHistory[k + 1]]
    BY DEF Linked
  <2> QED
    BY <1>1, <2>1, <2>2
<1>3. Len(pendingHistory) > 0 =>
        1 \in 1 .. Len(pendingHistory) /\ Len(pendingHistory) \in 1 .. Len(pendingHistory)
  BY <1>1
<1> QED
  BY <1>1, <1>2, <1>3

\* The marks of the entries stay.
LEMMA RowsKept ==
  ASSUME Entered, Selected, HInv, SameRows, NEW f, NEW g, NEW f2, NEW g2,
         SameComplete(f, g, f2, g2), g2[Root] = g[Root],
         HistoryMarked(f, g), PendingMarked(f, g)
  PROVE  HistoryMarked(f2, g2)' /\ PendingMarked(f2, g2)'
<1>1. HistoryMarked(f2, g2)' /\ Base(g2)' = Base(g)
  BY BaseKept DEF SameRows
<1>2. /\ Linked(f2, g2, pendingHistory)
      /\ Len(pendingHistory) > 0 =>
              /\ f2[pendingHistory[1]] = f[pendingHistory[1]]
              /\ g2[pendingHistory[Len(pendingHistory)]] = g[pendingHistory[Len(pendingHistory)]]
  BY PendingLinks DEF PendingMarked
<1>3. pendingHistory' = pendingHistory
  BY DEF SameRows
<1>4. Linked(f2, g2, pendingHistory)'
  BY <1>2, <1>3 DEF Linked
<1>5. /\ Len(pendingHistory') = 0 => g2[Root] = Base(g2)'
      /\ Len(pendingHistory') > 0 =>
           /\ f2[pendingHistory'[1]] = Base(g2)'
           /\ g2[pendingHistory'[Len(pendingHistory')]] = g2[Root]
  BY <1>1, <1>2, <1>3 DEF PendingMarked
<1>6. PendingMarked(f2, g2)'
  BY <1>4, <1>5 DEF PendingMarked
<1> QED
  BY <1>1, <1>6

\* The owner takes over what is pending.
LEMMA TakenOver ==
  ASSUME Entered, Selected, TakesPending, NEW f, NEW g, HistoryMarked(f, g), PendingMarked(f, g)
  PROVE  HistoryMarked(f, g)' /\ PendingMarked(f, g)'
<1>1. /\ history \in Seq(Ids) /\ pendingHistory \in Seq(Ids) /\ Len(history) \in Nat
      /\ currentIndex \in Int /\ currentIndex >= NoSelection
      /\ currentIndex = previousSelectedIndex /\ pendingHistory # <<>>
      /\ currentIndex + 1 \in 0 .. Len(history)
  BY DEF Entered, Selected, TakesPending, NoSelection
<1>2. PICK n \in 0 .. Len(history) :
           /\ n = currentIndex + 1 \/ (n = Len(history) /\ n <= currentIndex + 1)
           /\ history' \in Seq(Ids) /\ Len(history') = n + Len(pendingHistory)
           /\ \A k \in 1 .. n : history'[k] = history[k]
           /\ \A k \in 1 .. Len(pendingHistory) : history'[n + k] = pendingHistory[k]
           /\ pendingHistory' = <<>>
           /\ currentIndex' = Len(history') - 1 /\ previousSelectedIndex' = Len(history') - 1
           /\ index' = Len(history') - 1
  BY <1>1, TakePendingLeaves DEF TakesPending
<1>3. n = currentIndex + 1 /\ n \in Nat
  BY <1>1, <1>2
<1>4. PICK m \in Nat : m = Len(pendingHistory) /\ m > 0
  BY <1>1
<1>5. /\ Base(g) = IF n = 0 THEN Blank ELSE g[history[n]]
      /\ f[pendingHistory[1]] = Base(g) /\ g[pendingHistory[m]] = g[Root]
      /\ \A k \in 1 .. m - 1 : g[pendingHistory[k]] = f[pendingHistory[k + 1]]
  <2>1. previousSelectedIndex < 0 <=> n = 0
    BY <1>1, <1>3
  <2> QED
    BY <1>1, <1>3, <1>4, <2>1 DEF Base, PendingMarked, Linked
<1>6. Len(history') = n + m /\ n + m \in Nat /\ n + m > 0
  BY <1>2, <1>3, <1>4
<1>7. f[history'[1]] = Blank
  <2>1. CASE n = 0
    <3>1. 1 \in 1 .. m /\ n + 1 = 1
      BY <1>4, <2>1
    <3>2. history'[1] = pendingHistory[1]
      BY <1>2, <1>4, <3>1
    <3> QED
      BY <1>5, <2>1, <3>2
  <2>2. CASE n # 0
    <3>1. 1 \in 1 .. n /\ Len(history) > 0
      BY <1>1, <1>2, <1>3, <2>2
    <3> QED
      BY <1>2, <3>1 DEF HistoryMarked
  <2> QED
    BY <2>1, <2>2
<1>8. ASSUME NEW k \in 1 .. n + m - 1
      PROVE  g[history'[k]] = f[history'[k + 1]]
  <2>1. CASE k < n
    <3>1. k \in 1 .. n /\ k + 1 \in 1 .. n /\ k \in 1 .. Len(history) - 1
      BY <1>1, <1>2, <1>3, <1>8, <2>1
    <3> QED
      BY <1>2, <3>1 DEF HistoryMarked, Linked
  <2>2. CASE k = n
    <3>1. k \in 1 .. n /\ n # 0 /\ 1 \in 1 .. m
      BY <1>3, <1>4, <1>8, <2>2
    <3>2. history'[k] = history[n] /\ history'[k + 1] = pendingHistory[1]
      BY <1>2, <1>4, <2>2, <3>1
    <3> QED
      BY <1>5, <3>1, <3>2
  <2>3. CASE k > n
    <3>1. PICK j \in Nat : j = k - n /\ j \in 1 .. m - 1 /\ j \in 1 .. m /\ j + 1 \in 1 .. m
      BY <1>3, <1>4, <1>8, <2>3
    <3>2. k = n + j /\ k + 1 = n + (j + 1)
      BY <1>3, <3>1
    <3>3. history'[k] = pendingHistory[j] /\ history'[k + 1] = pendingHistory[j + 1]
      BY <1>2, <1>4, <3>1, <3>2
    <3> QED
      BY <1>5, <3>1, <3>3
  <2> QED
    BY <1>3, <1>4, <1>8, <2>1, <2>2, <2>3
<1>9. HistoryMarked(f, g)'
  BY <1>6, <1>7, <1>8 DEF HistoryMarked, Linked, Blank
<1>10. Base(g)' = g[Root]
  <2>1. previousSelectedIndex' = n + m - 1 /\ ~(n + m - 1 < 0) /\ (n + m - 1) + 1 = n + m
    BY <1>2, <1>6
  <2>2. history'[n + m] = pendingHistory[m]
    <3>1. m \in 1 .. m
      BY <1>4
    <3> QED
      BY <1>2, <1>4, <3>1
  <2> QED
    BY <1>5, <2>1, <2>2 DEF Base
<1>11. Len(pendingHistory') = 0
  BY <1>2
<1>12. PendingMarked(f, g)'
  BY <1>10, <1>11 DEF PendingMarked, Linked
<1> QED
  BY <1>9, <1>12

\* Frames that stay.
LEMMA FramesKeep ==
  ASSUME Basics, FramesSame, NEW f, NEW g
  PROVE  /\ GroupsMarked(f, g) => GroupsMarked(f, g)'
         /\ Latest(Depth)' = Latest(Depth) /\ Inst(Depth)' = Inst(Depth)
<1>1. Depth' = Depth /\ Depth \in 1 .. Depth
  BY DEF FramesSame, Basics, FramesSized
<1>2. PICK L : L = Depth /\ L \in 1 .. Depth
  BY <1>1
<1>3. Inst(L)' = Inst(L) /\ Groups(L)' = Groups(L)
  BY <1>2 DEF FramesSame
<1>4. Latest(Depth)' = Latest(Depth) /\ Inst(Depth)' = Inst(Depth)
  <2>1. Latest(Depth)' = Latest(L)' /\ Inst(Depth)' = Inst(L)'
    BY <1>1, <1>2 DEF Latest, Inst, Groups
  <2> QED
    BY <1>2, <1>3, <2>1 DEF Latest
<1>5. ASSUME GroupsMarked(f, g), NEW n \in 1 .. Depth'
      PROVE  Linked(f, g, Groups(n)') /\ (n < Depth' => g[Latest(n)'] = f[Inst(n + 1)'])
  <2>1. n \in 1 .. Depth /\ (n < Depth => n + 1 \in 1 .. Depth)
    BY <1>1, <1>5 DEF Basics, FramesSized
  <2>2. Groups(n)' = Groups(n) /\ (n < Depth => Inst(n + 1)' = Inst(n + 1))
    BY <2>1 DEF FramesSame
  <2> QED
    BY <1>1, <1>5, <2>1, <2>2 DEF GroupsMarked, Latest
<1>6. GroupsMarked(f, g) => GroupsMarked(f, g)'
  BY <1>5 DEF GroupsMarked, Latest, Linked
<1> QED
  BY <1>4, <1>6

-----------------------------------------------------------------------------
(* Steps keep the marks *)

\* Steps aside keep the marks.
LEMMA Bystands ==
  ASSUME Basics, Basics', Entered, Selected, HInv, Documented, Bystanding, SameRows \/ TakesPending,
         NEW f \in Marks, NEW g \in Marks, Marked(f, g)
  PROVE  Marked(f, g)'
<1>1. /\ SameDocuments /\ FramesSame /\ Ids = 1 .. Count /\ Ids' = 1 .. Count'
      /\ Count \in Nat /\ Count' \in Nat /\ Ids \subseteq Ids'
  BY DEF Bystanding, Aside, SameDocuments, Basics
<1>2. Turned(f, g)'
  <2> SUFFICES ASSUME NEW j \in Ids' PROVE Turns(instances'[j].data, f[j], g[j])
    BY DEF Turned, Turns
  <2>1. CASE j \in Ids
    BY <1>1, <2>1 DEF SameDocuments, SameValues, Marked, Turned
  <2>2. CASE j \notin Ids
    <3>1. instances'[j].data = <<>>
      <4>1. j \in Ids' \ Ids
        BY <2>2
      <4>2. PICK kind, class, target, home : instances'[j] = MakeCommand(kind, class, target, home)
        BY <1>1, <4>1 DEF SameDocuments
      <4> QED
        BY <4>2 DEF MakeCommand
    <3>2. j \in Nat /\ j > Count
      BY <1>1, <2>2
    <3>3. f[j] = g[j]
      BY <3>2 DEF Marked, Fresh
    <3>4. <<>> \in DataOf(Nat)
      BY ListTypes
    <3>5. Redo(<<>>, f[j]) = f[j] /\ Undo(<<>>, f[j]) = f[j]
      <4>1. [mergeable |-> TRUE, helpers |-> NoHelpers] \in DataEntry(Nat)
        BY ListTypes DEF DataEntry
      <4> QED
        BY <3>4, <4>1, UndoAppend
    <3> QED
      BY <3>1, <3>3, <3>5 DEF Turns
  <2> QED
    BY <2>1, <2>2
<1>3. Fresh(f, g)'
  <2>1. Count <= Count'
    <3>1. Count > 0 => Count \in 1 .. Count'
      BY <1>1
    <3> QED
      BY <1>1, <3>1
  <2>2. \A i \in Nat : i > Count' => i > Count
    BY <1>1, <2>1
  <2> QED
    BY <2>2 DEF Marked, Fresh
<1>4. HistoryMarked(f, g)' /\ PendingMarked(f, g)'
  <2>1. CASE SameRows
    BY <2>1, RowsKept DEF SameComplete, Marked
  <2>2. CASE TakesPending
    BY <2>2, TakenOver DEF Marked
  <2> QED
    BY <2>1, <2>2
<1>5. /\ GroupsMarked(f, g)'
      /\ Latest(Depth)' = Latest(Depth) /\ Inst(Depth)' = Inst(Depth)
  BY <1>1, FramesKeep DEF Marked
<1>6. Unhanded' = Unhanded
  <2>1. Depth' = Depth
    BY <1>1 DEF FramesSame
  <2>2. CASE Depth > 1
    <3>1. Depth \in 2 .. Depth
      BY <2>2 DEF Basics, FramesSized
    <3>2. PICK j \in Ids : j = Inst(Depth)
      BY <3>1 DEF Basics
    <3>3. instances'[j].own = instances[j].own /\ instances'[j].error = instances[j].error
      BY <1>1 DEF SameDocuments, SameValues
    <3> QED
      BY <1>5, <2>1, <2>2, <3>2, <3>3 DEF Unhanded
  <2>3. CASE ~(Depth > 1)
    BY <2>1, <2>3 DEF Unhanded
  <2> QED
    BY <2>2, <2>3
<1>7. DocumentMarked(g)'
  BY <1>1, <1>5, <1>6 DEF DocumentMarked, Marked, SameDocuments
<1> QED
  BY <1>2, <1>3, <1>4, <1>5, <1>7 DEF Marked

\* Steps that only change what is recorded: data, ids and frames stay.
LEMMA RecordsKept ==
  ASSUME Basics, Entered, Selected, HInv, SameRows, FramesSame, Ids' = Ids, Count' = Count,
         \A j \in Ids : instances'[j].data = instances[j].data,
         NEW f \in Marks, NEW g \in Marks, Marked(f, g), DocumentMarked(g)'
  PROVE  Marked(f, g)'
<1>1. Turned(f, g)' /\ Fresh(f, g)'
  BY DEF Marked, Turned, Fresh, Turns
<1>2. HistoryMarked(f, g)' /\ PendingMarked(f, g)'
  BY RowsKept DEF SameComplete, Marked
<1>3. GroupsMarked(f, g)'
  BY FramesKeep DEF Marked
<1> QED
  BY <1>1, <1>2, <1>3 DEF Marked

\* A table with the same ids is as long.
LEMMA SameCount ==
  ASSUME Basics, Basics', Ids' = Ids
  PROVE  Count' = Count
<1>1. Ids = 1 .. Count /\ Ids' = 1 .. Count' /\ Count \in Nat /\ Count' \in Nat
  BY DEF Basics
<1>2. \A m, n \in Nat : 1 .. m = 1 .. n => m = n
  <2> SUFFICES ASSUME NEW m \in Nat, NEW n \in Nat, 1 .. m = 1 .. n PROVE m = n
    OBVIOUS
  <2>1. m > 0 => m \in 1 .. n
    OBVIOUS
  <2>2. n > 0 => n \in 1 .. m
    OBVIOUS
  <2> QED
    BY <2>1, <2>2
<1> QED
  BY <1>1, <1>2

\* The frames stay.
LEMMA UnchangedFrames ==
  ASSUME UNCHANGED commandFrames PROVE FramesSame
BY DEF FramesSame, Depth, Inst, Groups

\* Rolling back keeps the marks: in an orderly application it writes nothing.
LEMMA RollsBack ==
  ASSUME Basics, Basics', OInv, Entered, Selected, HInv, Documented, Rolled,
         NEW t \in Threads, NEW i, RollbackEffect(t, i),
         NEW f \in Marks, NEW g \in Marks, Marked(f, g)
  PROVE  Marked(f, g)'
<1>1. /\ document' = document /\ \A j \in Ids : instances'[j].own = instances[j].own
  BY RollbackNothing
<1>2. /\ FramesSame /\ SameRows /\ Ids' = Ids /\ Count' = Count
      /\ \A j \in Ids : /\ instances'[j].data = instances[j].data
                        /\ instances'[j].error = instances[j].error
  BY SameCount, UnchangedFrames DEF RollbackEffect, Recording, SameEntries, SameRows
<1>3. Latest(Depth)' = Latest(Depth) /\ Inst(Depth)' = Inst(Depth) /\ Depth' = Depth
  BY <1>2, FramesKeep DEF FramesSame
<1>4. Unhanded' = Unhanded
  <2>1. CASE Depth > 1
    <3>1. Depth \in 2 .. Depth
      BY <2>1 DEF Basics, FramesSized
    <3>2. PICK j \in Ids : j = Inst(Depth)
      BY <3>1 DEF Basics
    <3>3. instances'[j].own = instances[j].own /\ instances'[j].error = instances[j].error
      BY <1>1, <1>2
    <3> QED
      BY <1>3, <2>1, <3>2, <3>3 DEF Unhanded
  <2>2. CASE ~(Depth > 1)
    BY <1>3, <2>2 DEF Unhanded
  <2> QED
    BY <2>1, <2>2
<1>5. DocumentMarked(g)'
  BY <1>1, <1>3, <1>4 DEF DocumentMarked, Marked
<1> QED
  BY <1>2, <1>5, RecordsKept

\* What a list does to a document does not depend on values it has written over.
LEMMA RecordFurther ==
  ASSUME NEW W, NEW list \in Lists(W), NEW doc \in Docs(W), NEW new \in Docs(W),
         NEW base \in Docs(W), NEW p \in Props,
         \A q \in Props : q # p => new[q] = doc[q],
         UndoHelpers(list, doc) = base, RedoHelpers(list, base) = doc
  PROVE  LET wrote == RecordWrites(list, {p}, doc, new)
         IN UndoHelpers(wrote, new) = base /\ RedoHelpers(wrote, base) = new
<1> DEFINE wrote == RecordWrites(list, {p}, doc, new)
<1>1. DOMAIN doc = Props /\ DOMAIN new = Props /\ DOMAIN base = Props
  BY DEF Docs
<1>2. DOMAIN list \subseteq Props
  BY ListFields
<1>3. DOMAIN wrote = DOMAIN list \cup {p}
  BY DEF RecordWrites
<1>4. \A q \in DOMAIN list : q # p => wrote[q] = list[q]
  BY DEF RecordWrites
<1>5. /\ wrote[p].pre = IF p \in DOMAIN list THEN list[p].pre ELSE doc[p]
      /\ wrote[p].post = new[p]
  <2>1. wrote[p] = Record(list, p, doc[p], new[p])[p]
    BY DEF RecordWrites
  <2> QED
    BY <2>1 DEF Record
<1>6. \A q \in Props : base[q] = IF q \in DOMAIN list THEN list[q].pre ELSE doc[q]
  BY <1>1 DEF UndoHelpers
<1>7. \A q \in Props : doc[q] = IF q \in DOMAIN list THEN list[q].post ELSE base[q]
  BY <1>1 DEF RedoHelpers
<1>8. UndoHelpers(wrote, new) = base
  <2>1. ASSUME NEW q \in Props
        PROVE  (IF q \in DOMAIN wrote THEN wrote[q].pre ELSE new[q]) = base[q]
    <3> HIDE DEF wrote
    <3>1. CASE q = p
      BY <1>3, <1>5, <1>6, <3>1
    <3>2. CASE q # p
      BY <1>3, <1>4, <1>6, <3>2
    <3> QED
      BY <3>1, <3>2
  <2>2. base = [q \in Props |-> base[q]]
    BY DEF Docs
  <2> QED
    BY <1>1, <2>1, <2>2 DEF UndoHelpers
<1>9. RedoHelpers(wrote, base) = new
  <2>1. ASSUME NEW q \in Props
        PROVE  (IF q \in DOMAIN wrote THEN wrote[q].post ELSE base[q]) = new[q]
    <3> HIDE DEF wrote
    <3>1. CASE q = p
      BY <1>3, <1>5, <3>1
    <3>2. CASE q # p
      BY <1>3, <1>4, <1>7, <3>2
    <3> QED
      BY <3>1, <3>2
  <2>2. new = [q \in Props |-> new[q]]
    BY DEF Docs
  <2> QED
    BY <1>1, <2>1, <2>2 DEF RedoHelpers
<1> QED
  BY <1>8, <1>9

\* A write keeps the marks.
LEMMA Writes ==
  ASSUME Orderly, IInv, Basics, Basics', OInv, Entered, Selected, HInv, Documented, Documented', RInv,
         NEW t \in Threads, NEW i, WriteEffect(t, i),
         NEW f \in Marks, NEW g \in Marks, Marked(f, g)
  PROVE  Marked(f, g)'
<1>1. PICK p \in Props : document' = [document EXCEPT ![p] = i] /\ Recording(t, {p})
  BY DEF WriteEffect
<1>2. At(t, "exec") /\ i = Top(t).inst /\ instances[i].class.writes /\ i \in Ids
  BY DEF WriteEffect
<1>3. Depth \in 2 .. Depth /\ Inst(Depth) = i /\ Listening(t) = {i}
  BY <1>2, WriterAlone DEF RInv
<1>4. /\ FramesSame /\ SameRows /\ Ids' = Ids /\ Count' = Count
      /\ \A j \in Ids : /\ instances'[j].data = instances[j].data
                        /\ instances'[j].error = instances[j].error
  BY <1>1, SameCount, UnchangedFrames DEF WriteEffect, Recording, SameEntries, SameRows
<1>5. Latest(Depth)' = Latest(Depth) /\ Inst(Depth)' = Inst(Depth) /\ Depth' = Depth
  BY <1>4, FramesKeep DEF FramesSame
<1>6. instances[i].error = "none"
  <2>1. Does(t, Len(stack[t]), "exec", i)
    BY <1>2, TopFrame DEF Does, At
  <2> QED
    BY <2>1 DEF RInv, Returned
<1>7. Depth > 1
  BY <1>3 DEF Basics, FramesSized
<1>8. Unhanded = instances[i].own /\ Unhanded' = instances'[i].own
  BY <1>2, <1>3, <1>4, <1>5, <1>6, <1>7 DEF Unhanded
<1>9. instances'[i].own = RecordWrites(instances[i].own, {p}, document, document')
  BY <1>1, <1>2, <1>3 DEF Recording
<1>10. document \in Docs(Nat) /\ document' \in Docs(Nat) /\ instances[i].own \in Lists(Nat)
  <2>1. document \in Docs(Nat) /\ instances[i].own \in Lists(Nat)
    BY <1>2, Numbered
  <2>2. Docs(Values)' \subseteq Docs(Nat)
    <3>1. Values' \subseteq Nat
      BY DEF Values, Basics
    <3>2. PICK V : V = Values'
      OBVIOUS
    <3>3. Docs(V) \subseteq Docs(Nat)
      BY <3>1, <3>2, ListTypes
    <3> QED
      BY <3>2, <3>3 DEF Docs
  <2> QED
    BY <2>1, <2>2 DEF Documented
<1>11. g[Latest(Depth)] \in Docs(Nat)
  <2>1. Depth \in 1 .. Depth
    BY DEF Basics, FramesSized
  <2>2. Latest(Depth) \in Nat
    <3>1. Len(Groups(Depth)) \in 1 .. Len(Groups(Depth))
      BY <2>1 DEF OInv, Placed, Grouped, Basics, FramesSized, Sized
    <3>2. Latest(Depth) \in Ids \cup {Root}
      BY <2>1, <3>1, GroupIds DEF OInv, Placed, Latest
    <3> QED
      BY <3>2 DEF Basics, Root
  <2> QED
    BY <2>2 DEF Marks
<1>12. \A q \in Props : q # p => document'[q] = document[q]
  BY <1>1, <1>10 DEF Docs
<1>13. /\ UndoHelpers(instances[i].own, document) = g[Latest(Depth)]
       /\ RedoHelpers(instances[i].own, g[Latest(Depth)]) = document
  BY <1>8 DEF Marked, DocumentMarked
<1>14. /\ UndoHelpers(instances'[i].own, document') = g[Latest(Depth)]
       /\ RedoHelpers(instances'[i].own, g[Latest(Depth)]) = document'
  BY <1>9, <1>10, <1>11, <1>12, <1>13, RecordFurther
<1>15. DocumentMarked(g)'
  BY <1>5, <1>8, <1>14 DEF DocumentMarked
<1> QED
  BY <1>4, <1>15, RecordsKept

\* Where the frames stand in the tables.
LEMMA LatestThere ==
  ASSUME Basics, Grouped, NEW n \in 1 .. Depth
  PROVE  /\ Len(Groups(n)) \in Nat \ {0} /\ Latest(n) \in Ids \cup {Root} /\ Latest(n) \in Nat
         /\ \A k \in 1 .. Len(Groups(n)) : Groups(n)[k] \in Ids \cup {Root} /\ Groups(n)[k] \in Nat
<1>1. Len(Groups(n)) \in Nat \ {0}
  BY DEF Grouped, Basics, FramesSized, Sized
<1>2. \A k \in 1 .. Len(Groups(n)) : Groups(n)[k] \in Ids \cup {Root}
  BY GroupIds
<1>3. Ids \cup {Root} \subseteq Nat
  BY DEF Basics, Root
<1>4. Len(Groups(n)) \in 1 .. Len(Groups(n))
  BY <1>1
<1> QED
  BY <1>1, <1>2, <1>3, <1>4 DEF Latest

\* One mark is another.
LEMMA MarkChange ==
  ASSUME NEW g \in Marks, NEW i \in Nat, NEW doc \in Docs(Nat)
  PROVE  \E g2 \in Marks : g2[i] = doc /\ \A j \in Nat : j # i => g2[j] = g[j]
<1> DEFINE g2 == [g EXCEPT ![i] = doc]
<1>1. g2 \in Marks /\ g2[i] = doc /\ \A j \in Nat : j # i => g2[j] = g[j]
  BY DEF Marks
<1> QED
  BY <1>1

\* One entry more.
LEMMA AppendTurns ==
  ASSUME NEW data \in DataOf(Nat), NEW m \in BOOLEAN, NEW list \in Lists(Nat), NEW doc
  PROVE  LET more == Append(data, [mergeable |-> m, helpers |-> list])
         IN /\ Undo(more, doc) = Undo(data, UndoHelpers(list, doc))
            /\ Redo(more, doc) = RedoHelpers(list, Redo(data, doc))
<1>1. [mergeable |-> m, helpers |-> list] \in DataEntry(Nat)
  BY DEF DataEntry
<1> QED
  BY <1>1, UndoAppend

\* A command returns: what it has recorded becomes part of its undo data.
LEMMA ReturnsNothing ==
  ASSUME Orderly, IInv, Basics, Basics', OInv, Entered, Selected, HInv, Documented, RInv,
         NEW t \in Threads, NEW i, ReturnEffect(t, i), instances[i].own = NoHelpers,
         NEW f \in Marks, NEW g \in Marks, Marked(f, g)
  PROVE  Marked(f, g)'
<1>1. /\ i \in Ids /\ Ids' = Ids /\ Count' = Count /\ FramesSame /\ SameRows
      /\ UNCHANGED <<document, commandFrames>>
  BY SameCount, UnchangedFrames DEF ReturnEffect, SameEntries, SameRows
<1>2. \A j \in Ids : /\ instances'[j].own = instances[j].own
                     /\ j # i => /\ instances'[j].data = instances[j].data
                                 /\ instances'[j].error = instances[j].error
  BY DEF ReturnEffect
<1>3. PICK m \in BOOLEAN : instances'[i].data =
              Append(instances[i].data, [mergeable |-> m, helpers |-> NoHelpers])
  BY DEF ReturnEffect
<1>4. Turned(f, g)'
  <2> SUFFICES ASSUME NEW j \in Ids PROVE Turns(instances'[j].data, f[j], g[j])
    BY <1>1 DEF Turned, Turns
  <2>1. Turns(instances[j].data, f[j], g[j])
    BY DEF Marked, Turned
  <2>2. CASE j # i
    BY <1>2, <2>1, <2>2
  <2>3. CASE j = i
    <3>1. instances[j].data \in DataOf(Nat) /\ f[j] \in Docs(Nat) /\ g[j] \in Docs(Nat)
      <4>1. j \in Nat
        BY DEF Basics
      <4> QED
        BY <4>1, Numbered DEF Marks
    <3>2. /\ Undo(instances'[j].data, g[j]) = Undo(instances[j].data, UndoHelpers(NoHelpers, g[j]))
          /\ Redo(instances'[j].data, f[j]) = RedoHelpers(NoHelpers, Redo(instances[j].data, f[j]))
      <4>1. NoHelpers \in Lists(Nat)
        BY ListTypes
      <4>2. PICK data \in DataOf(Nat) : data = instances[j].data
        BY <3>1
      <4>3. PICK list \in Lists(Nat) : list = NoHelpers
        BY <4>1
      <4>4. /\ Undo(Append(data, [mergeable |-> m, helpers |-> list]), g[j])
                 = Undo(data, UndoHelpers(list, g[j]))
            /\ Redo(Append(data, [mergeable |-> m, helpers |-> list]), f[j])
                 = RedoHelpers(list, Redo(data, f[j]))
        BY AppendTurns
      <4> QED
        BY <1>3, <2>3, <4>2, <4>3, <4>4
    <3>3. /\ UndoHelpers(NoHelpers, g[j]) = g[j] /\ RedoHelpers(NoHelpers, g[j]) = g[j]
      BY <3>1, NothingUnhanded
    <3> QED
      BY <2>1, <3>2, <3>3 DEF Turns
  <2> QED
    BY <2>2, <2>3
<1>5. Fresh(f, g)' /\ HistoryMarked(f, g)' /\ PendingMarked(f, g)'
  <2>1. Fresh(f, g)'
    BY <1>1 DEF Marked, Fresh
  <2> QED
    BY <1>1, <2>1, RowsKept DEF SameComplete, Marked
<1>6. GroupsMarked(f, g)' /\ Latest(Depth)' = Latest(Depth) /\ Inst(Depth)' = Inst(Depth) /\ Depth' = Depth
  BY <1>1, FramesKeep DEF Marked, FramesSame
<1>7. Unhanded' = Unhanded
  <2>1. CASE Depth > 1
    <3>1. Depth \in 2 .. Depth
      BY <2>1 DEF Basics, FramesSized
    <3>2. PICK j \in Ids : j = Inst(Depth)
      BY <3>1 DEF Basics
    <3>3. CASE j = i
      BY <1>2, <1>6, <2>1, <3>2, <3>3 DEF Unhanded
    <3>4. CASE j # i
      <4>1. instances'[j].own = instances[j].own /\ instances'[j].error = instances[j].error
        BY <1>2, <3>4
      <4> QED
        BY <1>6, <2>1, <3>2, <4>1 DEF Unhanded
    <3> QED
      BY <3>3, <3>4
  <2>2. CASE ~(Depth > 1)
    BY <1>6, <2>2 DEF Unhanded
  <2> QED
    BY <2>1, <2>2
<1>8. DocumentMarked(g)'
  BY <1>1, <1>6, <1>7 DEF DocumentMarked, Marked
<1> QED
  BY <1>4, <1>5, <1>6, <1>8 DEF Marked

\* A command that wrote returns: it has led to the document.
LEMMA ReturnsSome ==
  ASSUME Orderly, IInv, Basics, Basics', OInv, Entered, Selected, HInv, Documented, RInv,
         NEW t \in Threads, NEW i, ReturnEffect(t, i), instances[i].own # NoHelpers,
         NEW f \in Marks, NEW g \in Marks, Marked(f, g)
  PROVE  \E g2 \in Marks : Marked(f, g2)'
<1>1. /\ i \in Ids /\ Ids' = Ids /\ Count' = Count /\ FramesSame /\ SameRows
      /\ UNCHANGED <<document, commandFrames>> /\ At(t, "exec") /\ i = Top(t).inst
      /\ i \in Nat
  BY SameCount, UnchangedFrames DEF ReturnEffect, SameEntries, SameRows, Basics
<1>2. \A j \in Ids : /\ instances'[j].own = instances[j].own
                     /\ j # i => /\ instances'[j].data = instances[j].data
                                 /\ instances'[j].error = instances[j].error
  BY DEF ReturnEffect
<1>3. PICK m \in BOOLEAN : instances'[i].data =
              Append(instances[i].data, [mergeable |-> m, helpers |-> instances[i].own])
  BY DEF ReturnEffect
<1>4. instances[i].kind = "set" /\ instances[i].class.writes /\ ~instances[i].class.queues
  <2>1. instances[i].kind = "set" /\ instances[i].class.writes
    BY <1>1 DEF RInv, Clean
  <2> QED
    BY <1>1, <2>1, KindParts DEF RInv
<1>5. Depth \in 2 .. Depth /\ Inst(Depth) = i
  BY <1>1, <1>4, WriterAlone DEF RInv
<1>6. Len(Groups(Depth)) = 1 /\ Latest(Depth) = i
  <2>1. Depth \in 1 .. Depth
    BY <1>5 DEF Basics, FramesSized
  <2>2. Len(Groups(Depth)) \in Nat \ {0} /\ Groups(Depth)[1] = i
    BY <1>5, <2>1, LatestThere DEF OInv, Placed, Grouped
  <2>3. ~(Len(Groups(Depth)) > 1)
    <3> SUFFICES ASSUME Len(Groups(Depth)) > 1 PROVE FALSE
      OBVIOUS
    <3>1. 2 \in 2 .. Len(Groups(Depth))
      BY <2>2
    <3>2. Groups(Depth)[2] \in Ids /\ instances[Groups(Depth)[2]].home = i
      BY <1>5, <2>1, <3>1 DEF OInv, Placed, Grouped
    <3>3. i # Root
      BY <1>1 DEF Basics, Root
    <3>4. Compound(i)
      BY <3>2, <3>3 DEF RInv, HomesCompound
    <3> QED
      BY <1>4, <3>4 DEF Compound
  <2>4. Len(Groups(Depth)) = 1
    BY <2>2, <2>3
  <2> QED
    BY <2>2, <2>4 DEF Latest
<1>7. instances[i].error = "none" /\ instances'[i].error # "none"
  <2>1. Does(t, Len(stack[t]), "exec", i)
    BY <1>1, TopFrame DEF Does, At
  <2>2. instances'[i].error \in {"ok", "batch", "failed"}
    BY DEF ReturnEffect
  <2> QED
    BY <2>1, <2>2 DEF RInv, Returned
<1>8. Depth > 1 /\ Depth \in Nat
  BY <1>5 DEF Basics, FramesSized
<1>9. Unhanded = instances[i].own
  BY <1>5, <1>7, <1>8 DEF Unhanded
<1>10. Latest(Depth)' = i /\ Inst(Depth)' = i /\ Depth' = Depth
  BY <1>1, <1>5, <1>6, FramesKeep DEF FramesSame
<1>11. Unhanded' = NoHelpers
  BY <1>7, <1>10 DEF Unhanded
<1>12. /\ UndoHelpers(instances[i].own, document) = g[i]
       /\ RedoHelpers(instances[i].own, g[i]) = document
  BY <1>6, <1>9 DEF Marked, DocumentMarked
<1>13. /\ document \in Docs(Nat) /\ instances[i].data \in DataOf(Nat)
       /\ instances[i].own \in Lists(Nat) /\ f[i] \in Docs(Nat) /\ g[i] \in Docs(Nat)
  BY <1>1, Numbered DEF Marks
<1>22. PICK doc \in Docs(Nat) : doc = document
  BY <1>13
<1>23. \E g2 \in Marks : g2[i] = doc /\ \A j \in Nat : j # i => g2[j] = g[j]
  BY <1>1, MarkChange
<1>14. PICK g2 \in Marks : g2[i] = document /\ \A j \in Nat : j # i => g2[j] = g[j]
  BY <1>22, <1>23
<1>15. Turned(f, g2)'
  <2> SUFFICES ASSUME NEW j \in Ids PROVE Turns(instances'[j].data, f[j], g2[j])
    BY <1>1 DEF Turned, Turns
  <2>1. Turns(instances[j].data, f[j], g[j])
    BY DEF Marked, Turned
  <2>2. CASE j # i
    <3>1. j \in Nat
      BY DEF Basics
    <3> QED
      BY <1>2, <1>14, <2>1, <2>2, <3>1
  <2>3. CASE j = i
    <3>1. /\ Undo(instances'[i].data, document)
               = Undo(instances[i].data, UndoHelpers(instances[i].own, document))
          /\ Redo(instances'[i].data, f[i])
               = RedoHelpers(instances[i].own, Redo(instances[i].data, f[i]))
      BY <1>3, <1>13, AppendTurns
    <3> QED
      BY <1>12, <1>14, <2>1, <2>3, <3>1 DEF Turns
  <2> QED
    BY <2>2, <2>3
<1>16. instances[i].status = "Running" /\ ~Complete(i)
  <2>1. InFrame(i)
    BY <1>1, TopFrame
  <2> QED
    BY <1>1, <2>1 DEF OInv, Ordered, Statuses, Complete
<1>17. Fresh(f, g2)' /\ HistoryMarked(f, g2)' /\ PendingMarked(f, g2)'
  <2>1. Fresh(f, g2)'
    <3>1. \A j \in Nat : j > Count => j # i
      BY <1>1 DEF Basics
    <3> QED
      BY <1>1, <1>14, <3>1 DEF Marked, Fresh
  <2>2. SameComplete(f, g, f, g2)
    <3>1. \A j \in Ids : Complete(j) => j # i /\ j \in Nat
      BY <1>16 DEF Basics
    <3> QED
      BY <1>14, <3>1 DEF SameComplete
  <2>3. g2[Root] = g[Root]
    <3>1. Root \in Nat /\ Root # i
      BY <1>1 DEF Basics, Root
    <3> QED
      BY <1>14, <3>1
  <2> QED
    BY <1>1, <2>1, <2>2, <2>3, RowsKept DEF Marked
<1>18. ASSUME NEW n \in 1 .. Depth
       PROVE  \A k \in 1 .. Len(Groups(n)) : Groups(n)[k] = i => n = Depth /\ k = 1
  <2> SUFFICES ASSUME NEW k \in 1 .. Len(Groups(n)), Groups(n)[k] = i
               PROVE  n = Depth /\ k = 1
    OBVIOUS
  <2>1. k = 1
    BY <1>4, GroupIds, LatestThere DEF OInv, Placed
  <2>2. Groups(n)[k] = Inst(n)
    BY <2>1, GroupIds DEF OInv, Placed
  <2>3. Depth \in 1 .. Depth
    BY <1>8
  <2> QED
    BY <1>5, <2>1, <2>2, <2>3 DEF Basics
<1>19. GroupsMarked(f, g2)
  <2> SUFFICES ASSUME NEW n \in 1 .. Depth
               PROVE  Linked(f, g2, Groups(n)) /\ (n < Depth => g2[Latest(n)] = f[Inst(n + 1)])
    BY DEF GroupsMarked
  <2>1. Linked(f, g, Groups(n)) /\ (n < Depth => g[Latest(n)] = f[Inst(n + 1)])
    BY DEF Marked, GroupsMarked
  <2>2. /\ Len(Groups(n)) \in Nat \ {0} /\ Latest(n) \in Nat
        /\ \A k \in 1 .. Len(Groups(n)) : Groups(n)[k] \in Nat
    BY LatestThere DEF OInv, Placed
  <2>3. ASSUME NEW k \in 1 .. Len(Groups(n)) - 1
        PROVE  g2[Groups(n)[k]] = f[Groups(n)[k + 1]]
    <3>1. k \in 1 .. Len(Groups(n)) /\ Len(Groups(n)) > 1
      BY <2>2
    <3>2. Groups(n)[k] # i
      BY <1>6, <1>18, <3>1
    <3>3. g2[Groups(n)[k]] = g[Groups(n)[k]]
      BY <1>14, <2>2, <3>1, <3>2
    <3> QED
      BY <2>1, <3>3 DEF Linked
  <2>4. ASSUME n < Depth PROVE g2[Latest(n)] = f[Inst(n + 1)]
    <3>1. Len(Groups(n)) \in 1 .. Len(Groups(n)) /\ n # Depth
      BY <1>8, <2>2, <2>4
    <3>2. Latest(n) # i
      BY <1>18, <3>1 DEF Latest
    <3> QED
      BY <1>14, <2>1, <2>2, <2>4, <3>2
  <2> QED
    BY <2>3, <2>4 DEF Linked
<1>20. GroupsMarked(f, g2)'
  <2> QED
    BY <1>1, <1>19, FramesKeep
<1>21. DocumentMarked(g2)'
  <2>1. UndoHelpers(NoHelpers, document) = document /\ RedoHelpers(NoHelpers, document) = document
    BY <1>13, NothingUnhanded
  <2> QED
    BY <1>1, <1>10, <1>11, <1>14, <2>1 DEF DocumentMarked
<1> QED
  BY <1>14, <1>15, <1>17, <1>20, <1>21 DEF Marked

\* The root frame while the index moves.
LEMMA MovingAlone ==
  ASSUME IInv, OInv, Selected, Still, RootNested, At(Owner, "undoRedo")
  PROVE  /\ Depth = 1 /\ Len(pendingHistory) = 0 /\ Moving
         /\ Len(Groups(1)) = 1 /\ Groups(1)[1] = Root
<1>1. Owner \in Threads /\ StackShape /\ Basics
  BY BasicsHold DEF Threads, IInv, Shape
<1>2. Does(Owner, Len(stack[Owner]), "undoRedo", Top(Owner).inst)
  BY <1>1, TopDoes
<1>3. PICK i : i = Top(Owner).inst
  OBVIOUS
<1>4. "undoRedo" \in Holding
  BY DEF Holding
<1>5. i \in Ids /\ instances[i].status = "Running" /\ instances[i].kind = "undoRedo"
  BY <1>1, <1>2, <1>3, <1>4 DEF OInv, Ordered, Statuses
<1>6. Job(i)
  BY <1>5 DEF Job, Complete
<1>7. Moving
  BY <1>6 DEF Selected
<1>9. \A x : x = 1 => x <= 1
  OBVIOUS
<1>8. Calm /\ Len(Open(1)) = 1
  BY <1>7 DEF Still, RootNested, Shut
<1> QED
  BY <1>1, <1>7, <1>8, <1>9, RootOnly DEF Calm

\* While undoRedo runs, the selected entry has led to the document.
LEMMA DocumentBase ==
  ASSUME IInv, OInv, Selected, Still, RootNested, Documented, At(Owner, "undoRedo"),
         NEW f \in Marks, NEW g \in Marks, Marked(f, g)
  PROVE  document = Base(g) /\ Latest(Depth) = Root
<1>1. /\ Depth = 1 /\ Len(pendingHistory) = 0 /\ Len(Groups(1)) = 1 /\ Groups(1)[1] = Root
  BY MovingAlone
<1>2. Latest(Depth) = Root /\ Root \in Nat
  BY <1>1 DEF Latest, Root
<1>3. Unhanded = NoHelpers
  <2>1. ~(Depth > 1)
    BY <1>1
  <2> QED
    BY <2>1 DEF Unhanded
<1>4. document = g[Root]
  BY <1>2, <1>3, BasicsHold, DocumentThere DEF Marked
<1> QED
  BY <1>1, <1>2, <1>4 DEF Marked, PendingMarked

\* undoRedo goes from one entry to the next.
LEMMA Strides ==
  ASSUME IInv, OInv, IndexInv, Documented, NEW f, NEW g, Marked(f, g),
         document = Base(g), Stepping
  PROVE  /\ document' = Base(g)'
         /\ UNCHANGED <<stack, commandFrames, instances, pendingHistory, history>>
<1>1. /\ Len(history) \in Nat /\ history \in Seq(Ids)
      /\ previousSelectedIndex \in Int /\ previousSelectedIndex >= -1
      /\ previousSelectedIndex <= Len(history) - 1
  BY DEF IndexInv, Entered, Selected, NoSelection
<1>2. /\ UndoEntry => previousSelectedIndex + 1 \in 1 .. Len(history)
      /\ RedoEntry => previousSelectedIndex + 2 \in 1 .. Len(history)
  BY EntryIndex DEF Stepping, IndexInv, UndoEntry, RedoEntry
<1>3. /\ \A k \in 1 .. Len(history) : /\ Redo(instances[history[k]].data, f[history[k]]) = g[history[k]]
                                      /\ Undo(instances[history[k]].data, g[history[k]]) = f[history[k]]
      /\ \A k \in 1 .. Len(history) - 1 : g[history[k]] = f[history[k + 1]]
      /\ Len(history) > 0 => f[history[1]] = Blank
  BY <1>1 DEF Marked, Turned, Turns, HistoryMarked, Linked
<1>4. UNCHANGED <<stack, commandFrames, instances, pendingHistory, history>>
  BY DEF Stepping, UndoEntry, RedoEntry
<1>5. CASE UndoEntry
  <2>1. PICK k \in 1 .. Len(history) : k = previousSelectedIndex + 1
    BY <1>2, <1>5
  <2>2. /\ document' = Undo(instances[history[previousSelectedIndex + 1]].data, document)
        /\ previousSelectedIndex' = previousSelectedIndex - 1
    BY <1>5 DEF UndoEntry
  <2>3. document' = Undo(instances[history[k]].data, document) /\ previousSelectedIndex' = k - 2
    BY <1>1, <2>1, <2>2
  <2>4. document = g[history[k]]
    <3>1. ~(previousSelectedIndex < 0)
      BY <1>1, <2>1
    <3> QED
      BY <2>1, <3>1 DEF Base
  <2>5. document' = f[history[k]]
    BY <1>3, <2>3, <2>4
  <2>6. CASE k = 1
    <3>1. k - 2 < 0 /\ Len(history) > 0
      BY <1>1, <2>6
    <3> QED
      BY <1>3, <1>4, <2>3, <2>5, <2>6, <3>1 DEF Base, Blank
  <2>7. CASE k # 1
    <3>1. PICK j \in 1 .. Len(history) - 1 : j = k - 1
      BY <1>1, <2>7
    <3>2. ~(k - 2 < 0) /\ (k - 2) + 1 = j /\ j + 1 = k
      BY <1>1, <3>1
    <3>3. g[history[j]] = f[history[k]]
      BY <1>3, <3>1, <3>2
    <3>4. Base(g)' = g[history[j]]
      BY <1>4, <2>3, <3>2 DEF Base
    <3> QED
      BY <1>4, <2>5, <3>3, <3>4
  <2> QED
    BY <2>6, <2>7
<1>6. CASE RedoEntry
  <2>1. PICK k \in 1 .. Len(history) : k = previousSelectedIndex + 2
    BY <1>2, <1>6
  <2>2. /\ document' = Redo(instances[history[previousSelectedIndex + 2]].data, document)
        /\ previousSelectedIndex' = previousSelectedIndex + 1
    BY <1>6 DEF RedoEntry
  <2>3. document' = Redo(instances[history[k]].data, document) /\ previousSelectedIndex' = k - 1
    BY <1>1, <2>1, <2>2
  <2>4. document = f[history[k]]
    <3>1. CASE k = 1
      <4>1. previousSelectedIndex < 0 /\ Len(history) > 0
        BY <1>1, <2>1, <3>1
      <4> QED
        BY <1>3, <3>1, <4>1 DEF Base
    <3>2. CASE k # 1
      <4>1. PICK j \in 1 .. Len(history) - 1 : j = k - 1
        BY <1>1, <3>2
      <4>2. ~(previousSelectedIndex < 0) /\ previousSelectedIndex + 1 = j /\ j + 1 = k
        BY <1>1, <2>1, <3>2, <4>1
      <4>3. g[history[j]] = f[history[k]]
        BY <1>3, <4>1, <4>2
      <4> QED
        BY <4>2, <4>3 DEF Base
    <3> QED
      BY <3>1, <3>2
  <2>5. document' = g[history[k]]
    BY <1>3, <2>3, <2>4
  <2>6. ~(k - 1 < 0) /\ (k - 1) + 1 = k
    BY <1>1
  <2>7. Base(g)' = g[history[k]]
    BY <1>4, <2>3, <2>6 DEF Base
  <2> QED
    BY <1>4, <2>5, <2>7
<1> QED
  BY <1>4, <1>5, <1>6 DEF Stepping

\* Undoing or redoing an entry keeps the marks.
LEMMA Strode ==
  ASSUME IInv, IInv', OInv, IndexInv, HInv, Still, RootNested, Documented, Documented', Stepping,
         NEW f \in Marks, NEW g \in Marks, Marked(f, g)
  PROVE  \E g2 \in Marks : Marked(f, g2)'
<1>1. At(Owner, "undoRedo")
  BY DEF Stepping, UndoEntry, RedoEntry
<1>2. /\ Depth = 1 /\ Len(pendingHistory) = 0 /\ Len(Groups(1)) = 1 /\ Groups(1)[1] = Root
      /\ Basics /\ Basics'
  BY <1>1, MovingAlone, BasicsHold, BasicsNext DEF IndexInv
<1>3. document = Base(g) /\ Latest(Depth) = Root
  BY <1>1, DocumentBase DEF IndexInv
<1>4. /\ document' = Base(g)'
      /\ UNCHANGED <<stack, commandFrames, instances, pendingHistory, history>>
  BY <1>3, Strides
<1>5. PICK doc \in Docs(Nat) : doc = document'
  <2>1. Values' \subseteq Nat
    BY <1>2 DEF Values, Basics
  <2>2. PICK V : V = Values'
    OBVIOUS
  <2>3. Docs(V) \subseteq Docs(Nat)
    BY <2>1, <2>2, ListTypes
  <2> QED
    BY <2>2, <2>3 DEF Documented, Docs
<1>6. Root \in Nat /\ Root \notin Ids /\ \A j \in Ids : j \in Nat
  BY <1>2 DEF Basics, Root
<1>7. \E g2 \in Marks : g2[Root] = doc /\ \A j \in Nat : j # Root => g2[j] = g[j]
  BY <1>6, MarkChange
<1>8. PICK g2 \in Marks : g2[Root] = doc /\ \A j \in Nat : j # Root => g2[j] = g[j]
  BY <1>7
<1>9. \A j \in Ids : g2[j] = g[j]
  BY <1>6, <1>8
<1>10. Turned(f, g2)'
  BY <1>4, <1>9 DEF Marked, Turned, Turns, Ids
<1>11. Fresh(f, g2)'
  <2>1. \A j \in Nat : j > Count => j # Root
    BY <1>2 DEF Basics, Root
  <2> QED
    BY <1>4, <1>8, <2>1 DEF Marked, Fresh, Count
<1>12. /\ Len(history) \in Nat /\ \A k \in 1 .. Len(history) : history[k] \in Ids
  BY DEF IndexInv, Entered
<1>13. HistoryMarked(f, g2)'
  <2>1. ASSUME NEW k \in 1 .. Len(history) - 1 PROVE g2[history[k]] = f[history[k + 1]]
    <3>1. k \in 1 .. Len(history)
      BY <1>12
    <3> QED
      BY <1>9, <1>12, <3>1 DEF Marked, HistoryMarked, Linked
  <2> QED
    BY <1>4, <2>1 DEF Marked, HistoryMarked, Linked, Blank
<1>14. Base(g2)' = Base(g)'
  <2>1. PICK n : n = previousSelectedIndex' /\ n \in Int /\ n >= -1 /\ n <= Len(history) - 1
    <3>1. /\ UndoEntry => previousSelectedIndex + 1 \in 1 .. Len(history)
          /\ RedoEntry => previousSelectedIndex + 2 \in 1 .. Len(history)
      BY EntryIndex DEF Stepping, IndexInv, UndoEntry, RedoEntry
    <3>2. previousSelectedIndex \in Int
      BY DEF IndexInv, Selected, NoSelection
    <3>3. CASE UndoEntry
      BY <1>12, <3>1, <3>2, <3>3 DEF UndoEntry
    <3>4. CASE RedoEntry
      BY <1>12, <3>1, <3>2, <3>4 DEF RedoEntry
    <3> QED
      BY <3>3, <3>4 DEF Stepping
  <2>2. n < 0 \/ n + 1 \in 1 .. Len(history)
    <3>1. PICK m \in Nat : m = Len(history)
      BY <1>12
    <3>2. n \in Int /\ n >= -1 /\ n <= m - 1
      BY <2>1, <3>1
    <3>3. n < 0 \/ n + 1 \in 1 .. m
      BY <3>2
    <3> QED
      BY <3>1, <3>3
  <2> QED
    BY <1>4, <1>9, <1>12, <2>1, <2>2 DEF Base, Blank
<1>15. PendingMarked(f, g2)'
  <2>1. Len(pendingHistory') = 0
    BY <1>2, <1>4
  <2>2. g2[Root] = Base(g2)'
    BY <1>4, <1>5, <1>8, <1>14
  <2> QED
    BY <2>1, <2>2 DEF PendingMarked, Linked
<1>16. GroupsMarked(f, g2)'
  <2>1. Depth' = 1 /\ Len(Groups(1)') = 1
    BY <1>2, <1>4 DEF Depth, Groups
  <2>2. \A n \in 1 .. Depth' : n = 1 /\ ~(n < Depth') /\ 1 .. Len(Groups(n)') - 1 = {}
    BY <2>1
  <2> QED
    BY <2>2 DEF GroupsMarked, Linked
<1>17. DocumentMarked(g2)'
  <2>1. Latest(Depth)' = Root
    BY <1>3, <1>4 DEF Latest, Groups, Depth
  <2>2. Unhanded' = NoHelpers
    <3>2. Depth' = 1
      BY <1>2, <1>4 DEF Depth
    <3>1. ~(Depth' > 1)
      BY <3>2
    <3> QED
      BY <3>1 DEF Unhanded
  <2>3. UndoHelpers(NoHelpers, doc) = doc /\ RedoHelpers(NoHelpers, doc) = doc
    BY NothingUnhanded
  <2> QED
    BY <1>5, <1>8, <2>1, <2>2, <2>3 DEF DocumentMarked
<1> QED
  BY <1>10, <1>11, <1>13, <1>15, <1>16, <1>17 DEF Marked

\* Where a command is when its turn comes.
LEMMA TurnComes ==
  ASSUME Orderly, IInv, OInv, RInv, NEW L, NEW i, Takes(L, i)
  PROVE  /\ L = Depth /\ L \in 1 .. Depth /\ L \in Nat /\ i \in Ids /\ i \in Nat /\ i # Root
         /\ instances[i].status = "Queued"
         /\ \A n \in 1 .. Depth : Inst(n) # i
         /\ \A n \in 1 .. Depth : \A k \in 1 .. Len(Groups(n)) : Groups(n)[k] # i
         /\ Inst(L) = Root \/ Compound(Inst(L))
<1>1. Basics /\ Grouped /\ Homes /\ Statuses
  BY BasicsHold DEF OInv, Placed, Ordered
<1>2. /\ L = Depth /\ Len(Queue(L)) > 0 /\ i = Queue(L)[1] /\ i \in Ids
  BY DEF Takes, TakeEffect, Taken, Dequeued
<1>3. L \in 1 .. Depth /\ L \in Nat /\ 1 \in 1 .. Len(Queue(L))
  BY <1>1, <1>2 DEF Basics, FramesSized, Sized
<1>4. InQueue(i)
  BY <1>2, <1>3 DEF InQueue
<1>5. instances[i].status = "Queued" /\ i \in Nat /\ i # Root
  BY <1>1, <1>2, <1>4 DEF Statuses, Basics, Root
<1>6. ~InFrame(i) /\ ~InGroup(i)
  <2>1. "Queued" # "Running"
    OBVIOUS
  <2> QED
    BY <1>1, <1>2, <1>5, <2>1 DEF Statuses
<1>7. \A n \in 1 .. Depth : Inst(n) # i
  BY <1>6 DEF InFrame
<1>8. ASSUME NEW n \in 1 .. Depth, NEW k \in 1 .. Len(Groups(n)) PROVE Groups(n)[k] # i
  <2>1. CASE k = 1
    BY <1>1, <1>7, <2>1, GroupIds
  <2>2. CASE k > 1
    <3>1. k \in 2 .. Len(Groups(n))
      BY <1>1, <2>2, GroupIds
    <3> QED
      BY <1>6, <3>1 DEF InGroup
  <2>3. Len(Groups(n)) \in Nat
    BY <1>1, LatestThere
  <2> QED
    BY <2>1, <2>2, <2>3
<1>9. instances[i].home = Inst(L)
  BY <1>1, <1>2, <1>3 DEF Homes
<1>10. Inst(L) = Root \/ Compound(Inst(L))
  BY <1>2, <1>9 DEF RInv, HomesCompound
<1> QED
  BY <1>2, <1>3, <1>5, <1>7, <1>8, <1>10

\* The groups of the frames when a command is taken.
LEMMA TakenGroups ==
  ASSUME Basics, Basics', Grouped, NEW L \in 1 .. Depth, L = Depth, NEW i \in Nat, Taken(L, i),
         \A n \in 1 .. Depth : Inst(n) # i,
         \A n \in 1 .. Depth : \A k \in 1 .. Len(Groups(n)) : Groups(n)[k] # i,
         NEW f \in Marks, NEW g \in Marks, GroupsMarked(f, g), g[Latest(L)] = document,
         NEW f2 \in Marks, f2[i] = document, \A j \in Nat : j # i => f2[j] = f[j],
         NEW g2 \in Marks, g2[i] = document, \A j \in Nat : j # i => g2[j] = g[j]
  PROVE  GroupsMarked(f2, g2)' /\ Latest(Depth)' = i
<1>1. /\ Depth' = L + 1 /\ L \in Nat
      /\ Inst(L + 1)' = i /\ Groups(L + 1)' = <<i>>
      /\ \A n \in 1 .. L : Inst(n)' = Inst(n) /\ (n # L => Groups(n)' = Groups(n))
      /\ IF instances[i].kind = "begin" THEN Extended(Groups(L)', Groups(L), i)
                                        ELSE Groups(L)' = Groups(L)
  BY DEF Taken, Dequeued, Basics, FramesSized
<1>2. Len(Groups(L + 1)') = 1 /\ Groups(L + 1)'[1] = i
  BY <1>1
<1>3. Latest(L + 1)' = i
  BY <1>2 DEF Latest
<1>4. Latest(Depth)' = i
  BY <1>1, <1>3 DEF Latest, Groups, Depth
<1>5. \A n \in 1 .. L : Inst(n) \in Nat
  BY DEF Basics, FramesSized
<1>6. ASSUME NEW n \in 1 .. Depth
      PROVE  /\ Len(Groups(n)) \in Nat \ {0} /\ Latest(n) \in Nat /\ Latest(n) # i
             /\ \A k \in 1 .. Len(Groups(n)) : Groups(n)[k] \in Nat
             /\ Linked(f2, g2, Groups(n))
  <2>1. /\ Len(Groups(n)) \in Nat \ {0} /\ Latest(n) \in Nat
        /\ \A k \in 1 .. Len(Groups(n)) : Groups(n)[k] \in Nat
    BY LatestThere
  <2>2. Latest(n) # i
    <3>1. Len(Groups(n)) \in 1 .. Len(Groups(n))
      BY <2>1
    <3> QED
      BY <3>1 DEF Latest
  <2>3. ASSUME NEW k \in 1 .. Len(Groups(n)) - 1
        PROVE  g2[Groups(n)[k]] = f2[Groups(n)[k + 1]]
    <3>1. k \in 1 .. Len(Groups(n)) /\ k + 1 \in 1 .. Len(Groups(n))
      BY <2>1
    <3>2. g2[Groups(n)[k]] = g[Groups(n)[k]] /\ f2[Groups(n)[k + 1]] = f[Groups(n)[k + 1]]
      BY <2>1, <3>1
    <3> QED
      BY <3>2 DEF GroupsMarked, Linked
  <2> QED
    BY <2>1, <2>2, <2>3 DEF Linked
<1>7. ASSUME NEW n \in 1 .. L, n # L
      PROVE  Linked(f2, g2, Groups(n)') /\ g2[Latest(n)'] = f2[Inst(n + 1)']
  <2>1. n + 1 \in 1 .. L /\ n < Depth
    BY <1>1, <1>7
  <2>2. Groups(n)' = Groups(n) /\ Inst(n + 1)' = Inst(n + 1)
    BY <1>1, <1>7, <2>1
  <2>3. g[Latest(n)] = f[Inst(n + 1)]
    BY <1>7, <2>1 DEF GroupsMarked
  <2>4. f2[Inst(n + 1)] = f[Inst(n + 1)] /\ g2[Latest(n)] = g[Latest(n)]
    BY <1>5, <1>6, <2>1
  <2> QED
    BY <1>6, <2>2, <2>3, <2>4 DEF Latest
<1>8. Linked(f2, g2, Groups(L)') /\ g2[Latest(L)'] = f2[Inst(L + 1)']
  <2>1. g2[Latest(L)] = document
    BY <1>6
  <2>2. CASE instances[i].kind # "begin"
    BY <1>1, <1>6, <2>1, <2>2 DEF Latest
  <2>3. CASE instances[i].kind = "begin"
    <3>1. PICK m \in Nat \ {0} : m = Len(Groups(L))
      BY <1>6
    <3>2. /\ Len(Groups(L)') = m + 1 /\ Groups(L)'[m + 1] = i
          /\ \A a \in 1 .. m : Groups(L)'[a] = Groups(L)[a]
      BY <1>1, <2>3, <3>1 DEF Extended
    <3>3. ASSUME NEW k \in 1 .. m PROVE g2[Groups(L)'[k]] = f2[Groups(L)'[k + 1]]
      <4>1. CASE k = m
        <5>1. Groups(L)'[k] = Latest(L) /\ Groups(L)'[k + 1] = i
          BY <3>1, <3>2, <4>1 DEF Latest
        <5> QED
          BY <2>1, <5>1
      <4>2. CASE k # m
        <5>1. k \in 1 .. m - 1 /\ k + 1 \in 1 .. m
          BY <3>1, <4>2
        <5>2. Groups(L)'[k] = Groups(L)[k] /\ Groups(L)'[k + 1] = Groups(L)[k + 1]
          BY <3>2, <5>1
        <5>3. g2[Groups(L)[k]] = f2[Groups(L)[k + 1]]
          BY <1>6, <3>1, <5>1 DEF Linked
        <5> QED
          BY <5>2, <5>3
      <4> QED
        BY <4>1, <4>2
    <3>4. Linked(f2, g2, Groups(L)')
      <4>1. (m + 1) - 1 = m
        BY <3>1
      <4> QED
        BY <3>2, <3>3, <4>1 DEF Linked
    <3>5. Latest(L)' = i
      BY <3>2 DEF Latest
    <3> QED
      BY <1>1, <3>4, <3>5
  <2> QED
    BY <2>2, <2>3
<1>9. ASSUME NEW n \in 1 .. Depth'
      PROVE  Linked(f2, g2, Groups(n)') /\ (n < Depth' => g2[Latest(n)'] = f2[Inst(n + 1)'])
  <2>1. CASE n = L + 1
    <3>1. ~(n < Depth')
      BY <1>1, <2>1
    <3>2. Groups(n)' = <<i>>
      BY <1>1, <2>1
    <3>3. Len(<<i>>) - 1 = 0 /\ 1 .. 0 = {}
      OBVIOUS
    <3>4. Linked(f2, g2, <<i>>)
      BY <3>3 DEF Linked
    <3> QED
      BY <3>1, <3>2, <3>4
  <2>2. CASE n = L
    BY <1>8, <2>2
  <2>3. CASE n # L /\ n # L + 1
    <3>1. n \in 1 .. L
      BY <1>1, <2>3
    <3> QED
      BY <1>7, <2>3, <3>1
  <2> QED
    BY <2>1, <2>2, <2>3
<1> QED
  BY <1>4, <1>9 DEF GroupsMarked, Latest, Linked

\* A command that is taken begins with the document there is.
LEMMA Begins ==
  ASSUME Orderly, IInv, IInv', OInv, IndexInv, HInv, Documented, RInv,
         NEW L, NEW i, Takes(L, i), NEW f \in Marks, NEW g \in Marks, Marked(f, g)
  PROVE  \E f2, g2 \in Marks : Marked(f2, g2)'
<1>1. Basics /\ Basics' /\ Grouped
  BY BasicsHold, BasicsNext DEF OInv, Placed
<1>2. /\ L = Depth /\ L \in 1 .. Depth /\ L \in Nat /\ i \in Ids /\ i \in Nat /\ i # Root
      /\ instances[i].status = "Queued"
      /\ \A n \in 1 .. Depth : Inst(n) # i
      /\ \A n \in 1 .. Depth : \A k \in 1 .. Len(Groups(n)) : Groups(n)[k] # i
      /\ Inst(L) = Root \/ Compound(Inst(L))
  BY TurnComes
<1>3. /\ Taken(L, i) /\ SameRows /\ Ids' = Ids /\ UNCHANGED document
      /\ \A j \in Ids : /\ instances'[j].own = instances[j].own
                        /\ instances'[j].data = instances[j].data
                        /\ instances'[j].error = instances[j].error
  BY DEF Takes, TakeEffect, SameEntries, SameRows, SameDocuments, SameValues
<1>4. Count' = Count
  BY <1>1, <1>3, SameCount
<1>5. document \in Docs(Nat)
  BY <1>1, Numbered
<1>6. g[Latest(L)] = document
  <2>1. Unhanded = NoHelpers
    BY <1>1, <1>2, NothingBelow DEF RInv
  <2>2. Latest(Depth) \in Nat
    BY <1>1, <1>2, LatestThere
  <2> QED
    BY <1>1, <1>2, <2>1, <2>2, DocumentThere DEF Marked
<1>7. PICK doc \in Docs(Nat) : doc = document
  BY <1>5
<1>8. /\ \E f2 \in Marks : f2[i] = doc /\ \A j \in Nat : j # i => f2[j] = f[j]
      /\ \E g2 \in Marks : g2[i] = doc /\ \A j \in Nat : j # i => g2[j] = g[j]
  BY <1>2, MarkChange
<1>9. PICK f2 \in Marks : f2[i] = doc /\ \A j \in Nat : j # i => f2[j] = f[j]
  BY <1>8
<1>10. PICK g2 \in Marks : g2[i] = doc /\ \A j \in Nat : j # i => g2[j] = g[j]
  BY <1>8
<1>11. GroupsMarked(f2, g2)' /\ Latest(Depth)' = i
  BY <1>1, <1>2, <1>3, <1>6, <1>7, <1>9, <1>10, TakenGroups DEF Marked
<1>12. instances[i].data = <<>> /\ instances[i].own = NoHelpers
  BY <1>2 DEF RInv, Pristine
<1>13. Turned(f2, g2)'
  <2> SUFFICES ASSUME NEW j \in Ids PROVE Turns(instances[j].data, f2[j], g2[j])
    BY <1>3 DEF Turned, Turns
  <2>1. CASE j = i
    <3>1. Redo(<<>>, doc) = doc /\ Undo(<<>>, doc) = doc
      <4>1. /\ [mergeable |-> TRUE, helpers |-> NoHelpers] \in DataEntry(Nat)
            /\ <<>> \in DataOf(Nat)
        BY ListTypes DEF DataEntry
      <4> QED
        BY <4>1, UndoAppend
    <3> QED
      BY <1>9, <1>10, <1>12, <2>1, <3>1 DEF Turns
  <2>2. CASE j # i
    <3>1. j \in Nat
      BY <1>1 DEF Basics
    <3> QED
      BY <1>9, <1>10, <2>2, <3>1 DEF Marked, Turned
  <2> QED
    BY <2>1, <2>2
<1>14. Fresh(f2, g2)'
  BY <1>4, <1>9, <1>10 DEF Marked, Fresh
<1>15. HistoryMarked(f2, g2)' /\ PendingMarked(f2, g2)'
  <2>1. SameComplete(f, g, f2, g2)
    <3>1. \A j \in Ids : Complete(j) => j # i /\ j \in Nat
      BY <1>1, <1>2 DEF Basics, Complete
    <3> QED
      BY <1>9, <1>10, <3>1 DEF SameComplete
  <2>2. g2[Root] = g[Root]
    BY <1>2, <1>10 DEF Root
  <2> QED
    BY <1>3, <2>1, <2>2, RowsKept DEF Marked, IndexInv
<1>16. DocumentMarked(g2)'
  <2>1. Unhanded' = NoHelpers
    <3>1. Inst(Depth)' = i
      BY <1>3 DEF Taken, Inst, Depth
    <3>2. instances'[i].own = NoHelpers
      BY <1>2, <1>3, <1>12
    <3> QED
      BY <3>1, <3>2 DEF Unhanded
  <2>2. UndoHelpers(NoHelpers, doc) = doc /\ RedoHelpers(NoHelpers, doc) = doc
    BY NothingUnhanded
  <2> QED
    BY <1>3, <1>7, <1>10, <1>11, <2>1, <2>2 DEF DocumentMarked
<1> QED
  BY <1>11, <1>13, <1>14, <1>15, <1>16 DEF Marked

\* The frames that popFrame leaves.
LEMMA PopShape ==
  ASSUME Basics, Grouped, NEW L, NEW closes, Popped(L, closes),
         closes => Len(Groups(L - 1)) > 1
  PROVE  /\ L = Depth /\ L \in Nat /\ L > 1 /\ Depth' = L - 1 /\ L - 1 \in 1 .. Depth
         /\ L \in 2 .. Depth /\ L \in 1 .. Depth /\ L - 1 \in Nat \ {0}
         /\ \A n \in 1 .. L - 1 :
              /\ n \in 1 .. Depth /\ Inst(n)' = Inst(n) /\ (n # L - 1 => Groups(n)' = Groups(n))
              /\ Len(Groups(n)') \in Nat \ {0}
              /\ \A k \in 1 .. Len(Groups(n)') :
                   k \in 1 .. Len(Groups(n)) /\ Groups(n)'[k] = Groups(n)[k]
<1>1. L = Depth /\ Depth' = L - 1 /\ L > 1 /\ Depth \in Nat
  BY DEF Popped, Basics, FramesSized
<1>2. /\ L \in Nat /\ L - 1 \in 1 .. Depth /\ L \in 2 .. Depth /\ L \in 1 .. Depth
      /\ L - 1 \in Nat \ {0} /\ \A n \in 1 .. L - 1 : n \in 1 .. Depth
  BY <1>1
<1>3. \A n \in 1 .. L - 1 : Inst(n)' = Inst(n) /\ (n # L - 1 => Groups(n)' = Groups(n))
  BY DEF Popped
<1>4. ASSUME NEW n \in 1 .. L - 1
      PROVE  /\ Len(Groups(n)') \in Nat \ {0}
             /\ \A k \in 1 .. Len(Groups(n)') :
                  k \in 1 .. Len(Groups(n)) /\ Groups(n)'[k] = Groups(n)[k]
  <2>1. n \in 1 .. Depth
    BY <1>2
  <2>2. Len(Groups(n)) \in Nat \ {0}
    BY <2>1, LatestThere
  <2>3. CASE Groups(n)' = Groups(n)
    BY <2>2, <2>3
  <2>4. CASE n = L - 1 /\ closes
    <3>1. PICK m \in Nat \ {0} : m = Len(Groups(n)) /\ m > 1
      BY <2>2, <2>4
    <3>2. Shortened(Groups(n)', Groups(n))
      BY <2>4 DEF Popped
    <3>3. Len(Groups(n)') = m - 1 /\ \A a \in 1 .. m - 1 : Groups(n)'[a] = Groups(n)[a]
      BY <3>1, <3>2 DEF Shortened
    <3>4. m - 1 \in Nat \ {0} /\ 1 .. m - 1 \subseteq 1 .. m
      BY <3>1
    <3> QED
      BY <3>1, <3>3, <3>4
  <2>5. n = L - 1 /\ ~closes => Groups(n)' = Groups(n)
    BY DEF Popped
  <2> QED
    BY <1>3, <2>3, <2>4, <2>5
<1> QED
  BY <1>1, <1>2, <1>3, <1>4

\* What is done is in no frame any more ...
LEMMA DoneGone ==
  ASSUME Basics, OInv, NEW L, NEW closes, NEW done, Popping(L, closes, done),
         instances[Inst(L)].kind # "begin"
  PROVE  \A n \in 1 .. L - 1 :
           Inst(n) # done /\ \A k \in 1 .. Len(Groups(n)') : Groups(n)'[k] # done
<1>1. Leaving(L, closes, done) /\ Grouped
  BY PopLeaves DEF OInv, Placed
<1>2. Popped(L, closes)
  BY DEF Popping
<1>3. /\ Depth' = L - 1
      /\ \A n \in 1 .. L - 1 :
              /\ n \in 1 .. Depth /\ Inst(n)' = Inst(n)
              /\ Len(Groups(n)') \in Nat \ {0}
              /\ \A k \in 1 .. Len(Groups(n)') :
                   k \in 1 .. Len(Groups(n)) /\ Groups(n)'[k] = Groups(n)[k]
  BY <1>1, <1>2, PopShape DEF Leaving
<1>4. ~InFrame(done)'
  BY <1>1, PoppedPlaces DEF Leaving
<1>5. ~InGroup(done)'
  <2>1. closes \in BOOLEAN
    BY DEF Popping
  <2>2. CASE closes
    BY <2>2, PoppedPlaces
  <2>3. CASE ~closes
    <3>1. ~InGroup(done)
      BY <1>1, <2>3 DEF Leaving
    <3> QED
      BY <3>1, PoppedPlaces
  <2> QED
    BY <2>1, <2>2, <2>3
<1>6. ASSUME NEW n \in 1 .. L - 1 PROVE Inst(n) # done
  <2>1. n \in 1 .. Depth' /\ Inst(n)' = Inst(n)
    BY <1>3
  <2> QED
    BY <1>4, <2>1 DEF InFrame
<1>7. ASSUME NEW n \in 1 .. L - 1, NEW k \in 1 .. Len(Groups(n)') PROVE Groups(n)'[k] # done
  <2>1. n \in 1 .. Depth' /\ n \in 1 .. Depth /\ Groups(n)'[k] = Groups(n)[k]
        /\ Len(Groups(n)') \in Nat
    BY <1>3
  <2>2. CASE k = 1
    BY <1>1, <1>6, <2>1, <2>2 DEF Grouped
  <2>3. CASE k # 1
    <3>1. k \in 2 .. Len(Groups(n)')
      BY <2>1, <2>3
    <3> QED
      BY <1>5, <2>1, <3>1 DEF InGroup
  <2> QED
    BY <2>2, <2>3
<1> QED
  BY <1>6, <1>7

\* ... and the batch or command that now is on top is there once.
LEMMA ParentOnce ==
  ASSUME Basics, OInv, HomesCompound, NEW L, NEW closes, NEW done, Popping(L, closes, done),
         NEW parent, parent = Last(Groups(L - 1)')
  PROVE  \A n \in 1 .. L - 1 : \A k \in 1 .. Len(Groups(n)') :
           Groups(n)'[k] = parent => n = L - 1 /\ k = Len(Groups(L - 1)')
<1>1. Leaving(L, closes, done) /\ Grouped
  BY PopLeaves DEF OInv, Placed
<1>2. Popped(L, closes)
  BY DEF Popping
<1>3. /\ L = Depth /\ L \in 2 .. Depth /\ L - 1 \in 1 .. L - 1 /\ L - 1 \in 1 .. Depth
      /\ \A n \in 1 .. L - 1 :
              /\ n \in 1 .. Depth
              /\ Len(Groups(n)') \in Nat \ {0}
              /\ \A k \in 1 .. Len(Groups(n)') :
                   k \in 1 .. Len(Groups(n)) /\ Groups(n)'[k] = Groups(n)[k]
  <2>1. /\ L = Depth /\ L \in 2 .. Depth /\ L - 1 \in 1 .. Depth /\ L - 1 \in Nat \ {0}
        /\ \A n \in 1 .. L - 1 :
              /\ n \in 1 .. Depth
              /\ Len(Groups(n)') \in Nat \ {0}
              /\ \A k \in 1 .. Len(Groups(n)') :
                   k \in 1 .. Len(Groups(n)) /\ Groups(n)'[k] = Groups(n)[k]
    BY <1>1, <1>2, PopShape DEF Leaving
  <2>2. L - 1 \in 1 .. L - 1
    BY <2>1
  <2> QED
    BY <2>1, <2>2
<1>4. PICK m : m = Len(Groups(L - 1)')
  OBVIOUS
<1>5. /\ m \in Nat \ {0} /\ m \in 1 .. Len(Groups(L - 1)') /\ m \in 1 .. Len(Groups(L - 1))
      /\ parent = Groups(L - 1)[m]
  <2>1. m \in Nat \ {0} /\ m \in 1 .. Len(Groups(L - 1)')
    BY <1>3, <1>4
  <2> QED
    BY <1>3, <1>4, <2>1 DEF Last
<1>6. ASSUME NEW n \in 1 .. L - 1
      PROVE  Inst(n) = Root \/ Compound(Inst(n))
  <2>1. n + 1 \in 2 .. Depth
    BY <1>3
  <2>2. instances[Inst(n + 1)].home = Inst(n) /\ Inst(n + 1) \in Ids
    <3>1. \A x : x \in 1 .. L - 1 => (x + 1) - 1 = x
      BY <1>3
    <3>2. (n + 1) - 1 = n
      BY <3>1
    <3> QED
      BY <2>1, <3>2 DEF OInv, Placed, Homes, Basics
  <2> QED
    BY <2>2 DEF HomesCompound
<1>7. ASSUME NEW n \in 1 .. Depth, NEW k \in 2 .. Len(Groups(n))
      PROVE  /\ Groups(n)[k] \in Ids /\ instances[Groups(n)[k]].kind = "begin"
             /\ instances[Groups(n)[k]].home = Inst(n)
             /\ \A j \in 2 .. Len(Groups(n)) : Groups(n)[j] = Groups(n)[k] => j = k
  BY <1>1 DEF Grouped
<1>8. ASSUME NEW n \in 1 .. L - 1, NEW k \in 2 .. Len(Groups(n)), NEW l \in 1 .. L - 1
      PROVE  Groups(n)[k] # Inst(l)
  <2>1. Groups(n)[k] \in Ids /\ instances[Groups(n)[k]].kind = "begin"
    BY <1>3, <1>7
  <2>2. Groups(n)[k] # Root
    BY <2>1 DEF Basics, Root
  <2> QED
    BY <1>6, <2>1, <2>2 DEF Compound
<1>9. ASSUME NEW n \in 1 .. L - 1, NEW k \in 1 .. Len(Groups(n)'), Groups(n)'[k] = parent
      PROVE  n = L - 1 /\ k = m
  <2>1. /\ k \in 1 .. Len(Groups(n)) /\ Groups(n)[k] = Groups(L - 1)[m] /\ k \in Nat /\ n \in 1 .. Depth
        /\ Len(Groups(n)) \in Nat /\ Len(Groups(L - 1)) \in Nat
    <3>1. n \in 1 .. Depth /\ L - 1 \in 1 .. Depth
      BY <1>3
    <3>2. Len(Groups(n)) \in Nat /\ Len(Groups(L - 1)) \in Nat
      BY <3>1 DEF Basics, FramesSized, Sized
    <3>3. k \in 1 .. Len(Groups(n)) /\ Groups(n)'[k] = Groups(n)[k]
      BY <1>3
    <3> QED
      BY <1>5, <1>9, <3>1, <3>2, <3>3
  <2>2. /\ k = 1 => Groups(n)[k] = Inst(n)
        /\ m = 1 => Groups(L - 1)[m] = Inst(L - 1)
    BY <1>1, <1>3, <2>1 DEF Grouped
  <2>3. /\ k # 1 => k \in 2 .. Len(Groups(n))
        /\ m # 1 => m \in 2 .. Len(Groups(L - 1))
    BY <1>5, <2>1
  <2>4. CASE k = 1 /\ m = 1
    BY <1>3, <2>1, <2>2, <2>4 DEF Basics
  <2>5. CASE k # 1 /\ m = 1
    BY <1>3, <1>8, <2>1, <2>2, <2>3, <2>5
  <2>6. CASE k = 1 /\ m # 1
    BY <1>3, <1>8, <2>1, <2>2, <2>3, <2>6
  <2>7. CASE k # 1 /\ m # 1
    <3>1. Inst(n) = Inst(L - 1)
      <4>1. instances[Groups(n)[k]].home = Inst(n)
        BY <1>7, <2>1, <2>3, <2>7
      <4>2. instances[Groups(L - 1)[m]].home = Inst(L - 1)
        BY <1>3, <1>7, <2>3, <2>7
      <4> QED
        BY <2>1, <4>1, <4>2
    <3>2. n = L - 1
      BY <1>3, <2>1, <3>1 DEF Basics
    <3> QED
      BY <1>3, <1>7, <2>1, <2>3, <2>7, <3>2
  <2> QED
    BY <2>4, <2>5, <2>6, <2>7
<1> QED
  BY <1>4, <1>9

\* The marks of the frames that are left.
LEMMA PoppedGroups ==
  ASSUME Basics, Grouped, NEW L, NEW closes, Popped(L, closes),
         closes => Len(Groups(L - 1)) > 1,
         NEW f, NEW g, NEW f2, NEW g2, GroupsMarked(f, g),
         \A n \in 1 .. L - 1 :
           /\ f2[Inst(n)] = f[Inst(n)]
           /\ \A k \in 1 .. Len(Groups(n)') :
                /\ f2[Groups(n)'[k]] = f[Groups(n)'[k]]
                /\ n # L - 1 \/ k # Len(Groups(n)') => g2[Groups(n)'[k]] = g[Groups(n)'[k]]
  PROVE  GroupsMarked(f2, g2)'
<1>1. /\ L = Depth /\ L \in Nat /\ L > 1 /\ Depth' = L - 1
      /\ \A n \in 1 .. L - 1 :
              /\ n \in 1 .. Depth /\ Inst(n)' = Inst(n) /\ (n # L - 1 => Groups(n)' = Groups(n))
              /\ Len(Groups(n)') \in Nat \ {0}
              /\ \A k \in 1 .. Len(Groups(n)') :
                   k \in 1 .. Len(Groups(n)) /\ Groups(n)'[k] = Groups(n)[k]
  BY PopShape
<1>2. ASSUME NEW n \in 1 .. L - 1
      PROVE  Linked(f2, g2, Groups(n)') /\ (n < L - 1 => g2[Latest(n)'] = f2[Inst(n + 1)'])
  <2>1. Linked(f, g, Groups(n)) /\ (n < Depth => g[Latest(n)] = f[Inst(n + 1)])
    BY <1>1 DEF GroupsMarked
  <2>2. PICK m \in Nat \ {0} : m = Len(Groups(n)')
    BY <1>1
  <2>3. ASSUME NEW k \in 1 .. m - 1 PROVE g2[Groups(n)'[k]] = f2[Groups(n)'[k + 1]]
    <3>1. k \in 1 .. m /\ k + 1 \in 1 .. m /\ k # m
      BY <2>2
    <3>2. /\ Groups(n)'[k] = Groups(n)[k] /\ Groups(n)'[k + 1] = Groups(n)[k + 1]
          /\ k + 1 \in 1 .. Len(Groups(n)) /\ Len(Groups(n)) \in Nat
      BY <1>1, <2>2, <3>1 DEF Basics, FramesSized, Sized
    <3>3. k \in 1 .. Len(Groups(n)) - 1
      BY <3>1, <3>2
    <3>4. g[Groups(n)[k]] = f[Groups(n)[k + 1]]
      BY <2>1, <3>3 DEF Linked
    <3>5. /\ g2[Groups(n)'[k]] = g[Groups(n)'[k]]
          /\ f2[Groups(n)'[k + 1]] = f[Groups(n)'[k + 1]]
      BY <2>2, <3>1
    <3> QED
      BY <3>2, <3>4, <3>5
  <2>4. ASSUME n < L - 1 PROVE g2[Latest(n)'] = f2[Inst(n + 1)']
    <3>1. n + 1 \in 1 .. L - 1 /\ n # L - 1 /\ n < Depth /\ m \in 1 .. m
      BY <1>1, <2>2, <2>4
    <3>2. Groups(n)' = Groups(n) /\ Inst(n + 1)' = Inst(n + 1)
      BY <1>1, <3>1
    <3>3. g2[Groups(n)'[m]] = g[Groups(n)'[m]] /\ f2[Inst(n + 1)] = f[Inst(n + 1)]
      BY <2>2, <3>1
    <3> QED
      BY <2>1, <2>2, <3>1, <3>2, <3>3 DEF Latest
  <2> QED
    BY <2>2, <2>3, <2>4 DEF Linked
<1> QED
  BY <1>1, <1>2 DEF GroupsMarked, Latest, Linked

\* popFrame: the document is where the command has led it, and nothing else is recorded.
LEMMA PopDocument ==
  ASSUME Orderly, IInv, OInv, Documented, RInv, NEW L, NEW closes, NEW done, Pops(L, closes, done),
         NEW f \in Marks, NEW g \in Marks, Marked(f, g)
  PROVE  /\ Inst(L) \in Ids /\ L \in Nat /\ L - 1 \in 1 .. Depth /\ L = Depth
         /\ document = g[Inst(L)] /\ g[Latest(L - 1)] = f[Inst(L)]
         /\ Unhanded' = NoHelpers /\ Latest(Depth)' = Last(Groups(L - 1)')
<1>1. Basics /\ Grouped /\ Homes /\ Popping(L, closes, done) /\ PopEffect(L, closes, done)
  BY BasicsHold DEF OInv, Placed, Pops
<1>2. Leaving(L, closes, done) /\ Popped(L, closes)
  BY <1>1, PopLeaves DEF Popping
<1>3. /\ L = Depth /\ L \in Nat /\ L > 1 /\ Depth' = L - 1 /\ L - 1 \in 1 .. Depth
      /\ L \in 2 .. Depth /\ L \in 1 .. Depth /\ L - 1 \in Nat \ {0} /\ L - 1 \in 1 .. L - 1
      /\ Inst(L - 1)' = Inst(L - 1)
  <2>1. /\ L = Depth /\ L \in Nat /\ L > 1 /\ Depth' = L - 1 /\ L - 1 \in 1 .. Depth
        /\ L \in 2 .. Depth /\ L \in 1 .. Depth /\ L - 1 \in Nat \ {0}
        /\ \A n \in 1 .. L - 1 : Inst(n)' = Inst(n)
    BY <1>1, <1>2, PopShape DEF Leaving
  <2>2. L - 1 \in 1 .. L - 1
    BY <2>1
  <2> QED
    BY <2>1, <2>2
<1>4. Inst(L) \in Ids /\ instances[Inst(L)].home = Inst(L - 1) /\ Len(Groups(L)) = 1
  BY <1>2 DEF Leaving
<1>5. Latest(L) = Inst(L) /\ Inst(L) \in Nat
  BY <1>1, <1>3, <1>4 DEF Grouped, Latest, Basics
<1>6. instances[Inst(L)].error # "none"
  <2>1. PICK t \in Threads : \E k : Does(t, k, "spin", Inst(L))
    BY <1>1 DEF PopEffect
  <2> QED
    BY <2>1 DEF RInv, Returned
<1>7. Unhanded = NoHelpers
  BY <1>3, <1>6 DEF Unhanded
<1>8. document = g[Inst(L)]
  <2>1. Latest(Depth) = Inst(L)
    BY <1>3, <1>5
  <2> QED
    BY <1>1, <1>5, <1>7, <2>1, DocumentThere DEF Marked
<1>9. g[Latest(L - 1)] = f[Inst(L)]
  <2>1. L - 1 < Depth /\ (L - 1) + 1 = L
    BY <1>3
  <2>2. PICK n \in 1 .. Depth : n = L - 1
    BY <1>3
  <2>3. g[Latest(n)] = f[Inst(n + 1)]
    BY <2>1, <2>2 DEF Marked, GroupsMarked
  <2> QED
    BY <2>1, <2>2, <2>3
<1>10. Inst(Depth)' = Inst(L - 1) /\ Latest(Depth)' = Last(Groups(L - 1)')
  <2>1. Inst(Depth)' = Inst(L - 1)' /\ Latest(Depth)' = Latest(L - 1)'
    BY <1>3 DEF Inst, Latest, Groups, Depth
  <2> QED
    BY <1>3, <2>1 DEF Latest, Last
<1>11. Unhanded' = NoHelpers
  <2>1. Inst(L - 1) = Root \/ Compound(Inst(L - 1))
    BY <1>4 DEF RInv, HomesCompound
  <2>2. CASE Compound(Inst(L - 1))
    <3>1. Inst(L - 1) \in Ids
      BY <2>2 DEF Compound
    <3>2. instances'[Inst(L - 1)].own = NoHelpers
      BY <1>1, <2>2, <3>1, CompoundClean DEF PopEffect, RInv
    <3> QED
      BY <1>10, <3>2 DEF Unhanded
  <2>3. CASE Inst(L - 1) = Root
    <3>1. L - 1 = 1
      <4>1. 1 \in 1 .. Depth /\ Inst(1) = Root
        BY <1>1, <1>3 DEF Basics
      <4> QED
        BY <1>1, <1>3, <2>3, <4>1 DEF Basics
    <3>2. ~(Depth' > 1)
      BY <1>3, <3>1
    <3> QED
      BY <3>2 DEF Unhanded
  <2> QED
    BY <2>1, <2>2, <2>3
<1> QED
  BY <1>3, <1>4, <1>8, <1>9, <1>10, <1>11

\* What is done led from its parent's document to the present one.
LEMMA DoneMarks ==
  ASSUME Orderly, IInv, OInv, Documented, RInv, NEW L, NEW closes, NEW done, Pops(L, closes, done),
         NEW f \in Marks, NEW g \in Marks, Marked(f, g), instances[Inst(L)].kind # "begin",
         NEW parent, parent = Last(Groups(L - 1)')
  PROVE  /\ g[done] = document /\ g[parent] = f[done] /\ done \in Ids /\ parent \in Nat
         /\ parent # done
<1>1. Basics /\ Grouped /\ Homes /\ Popping(L, closes, done)
  BY BasicsHold DEF OInv, Placed, Pops
<1>2. Leaving(L, closes, done) /\ Popped(L, closes)
  BY <1>1, PopLeaves DEF Popping
<1>3. /\ Inst(L) \in Ids /\ L \in Nat /\ L - 1 \in 1 .. Depth /\ L = Depth
      /\ document = g[Inst(L)] /\ g[Latest(L - 1)] = f[Inst(L)]
  BY PopDocument
<1>4. PICK m \in 1 .. Len(Groups(L - 1)) :
              /\ parent = Groups(L - 1)[m]
              /\ m = IF closes THEN Len(Groups(L - 1)) - 1 ELSE Len(Groups(L - 1))
  BY <1>1, PopParent DEF RInv
<1>5. parent # done /\ done \in Ids
  BY <1>1, <1>2, PopParent DEF RInv, Leaving
<1>6. parent \in Nat /\ Len(Groups(L - 1)) \in Nat
  BY <1>1, <1>3, <1>4, LatestThere
<1>7. closes \in BOOLEAN
  BY <1>1 DEF Popping
<1>8. CASE ~closes
  <2>1. done = Inst(L)
    BY <1>2, <1>8 DEF Leaving
  <2>2. parent = Latest(L - 1)
    BY <1>4, <1>8 DEF Latest
  <2> QED
    BY <1>3, <1>5, <1>6, <2>1, <2>2
<1>9. CASE closes
  <2>1. Closing(Inst(L)) /\ done = Latest(L - 1) /\ m = Len(Groups(L - 1)) - 1
    BY <1>2, <1>4, <1>9 DEF Leaving, Latest
  <2>2. f[Inst(L)] = g[Inst(L)]
    <3>1. instances[Inst(L)].kind = "end"
      BY <1>3, <2>1, KindParts DEF RInv, Closing
    <3>2. Written(instances[Inst(L)].data) = {}
      BY <1>3, <3>1 DEF RInv, Effectless, Idles
    <3>3. instances[Inst(L)].data \in DataOf(Nat) /\ f[Inst(L)] \in Docs(Nat)
      <4>1. Inst(L) \in Nat
        BY <1>1, <1>3 DEF Basics
      <4> QED
        BY <1>1, <1>3, <4>1, Numbered DEF Marks
    <3>4. Redo(instances[Inst(L)].data, f[Inst(L)]) = f[Inst(L)]
      BY <3>2, <3>3, EffectlessUndo
    <3>5. Redo(instances[Inst(L)].data, f[Inst(L)]) = g[Inst(L)]
      BY <1>3 DEF Marked, Turned, Turns
    <3> QED
      BY <3>4, <3>5
  <2>3. g[parent] = f[done]
    <3>1. PICK n \in 1 .. Depth : n = L - 1
      BY <1>3
    <3>2. m \in 1 .. Len(Groups(n)) - 1 /\ m + 1 = Len(Groups(n))
      BY <1>4, <1>6, <2>1, <3>1
    <3>3. g[Groups(n)[m]] = f[Groups(n)[m + 1]]
      BY <3>2 DEF Marked, GroupsMarked, Linked
    <3> QED
      BY <1>4, <2>1, <3>1, <3>2, <3>3 DEF Latest
  <2> QED
    BY <1>3, <1>5, <1>6, <2>1, <2>2, <2>3
<1> QED
  BY <1>7, <1>8, <1>9

\* A batch stays open.
LEMMA StaysOpen ==
  ASSUME Orderly, IInv, IInv', OInv, IndexInv, HInv, Documented, RInv,
         NEW L, NEW closes, NEW done, Pops(L, closes, done), Opened(Inst(L)),
         NEW f \in Marks, NEW g \in Marks, Marked(f, g)
  PROVE  Marked(f, g)'
<1>1. Basics /\ Basics' /\ Grouped /\ Popping(L, closes, done) /\ PopEffect(L, closes, done)
  BY BasicsHold, BasicsNext DEF OInv, Placed, Pops
<1>2. Leaving(L, closes, done) /\ Popped(L, closes) /\ ~closes
  BY <1>1, PopLeaves DEF Popping, Leaving, Opened
<1>3. /\ Inst(L) \in Ids /\ L \in Nat /\ L - 1 \in 1 .. Depth /\ L = Depth
      /\ document = g[Inst(L)]
      /\ Unhanded' = NoHelpers /\ Latest(Depth)' = Last(Groups(L - 1)')
  BY PopDocument
<1>4. Ids' = Ids /\ Count' = Count /\ SameData /\ SameRows /\ document' = document
  BY <1>1, SameCount DEF PopEffect, Opened, SameRows
<1>5. Turned(f, g)' /\ Fresh(f, g)'
  BY <1>4 DEF Marked, Turned, Fresh, Turns, SameData
<1>6. HistoryMarked(f, g)' /\ PendingMarked(f, g)'
  BY <1>4, RowsKept DEF SameComplete, Marked, IndexInv
<1>7. GroupsMarked(f, g)'
  BY <1>1, <1>2, PoppedGroups DEF Marked
<1>8. Latest(Depth)' = Inst(L)
  <2>1. Groups(L - 1)' = Groups(L - 1)
    BY <1>2 DEF Popped
  <2>2. L - 1 \in 1 .. Depth - 1 /\ (L - 1) + 1 = L
    BY <1>3
  <2>3. PICK n \in 1 .. Depth - 1 : n = L - 1
    BY <2>2
  <2>4. Groups(n)[Len(Groups(n))] = Inst(n + 1)
    BY <1>1, <2>2, <2>3 DEF Grouped, Opened
  <2> QED
    BY <1>3, <2>1, <2>2, <2>3, <2>4 DEF Last
<1>9. DocumentMarked(g)'
  <2>1. document \in Docs(Nat)
    BY <1>1, Numbered
  <2>2. UndoHelpers(NoHelpers, document) = document /\ RedoHelpers(NoHelpers, document) = document
    BY <2>1, NothingUnhanded
  <2> QED
    BY <1>3, <1>4, <1>8, <2>2 DEF DocumentMarked
<1> QED
  BY <1>5, <1>6, <1>7, <1>9 DEF Marked

\* What fails has changed nothing.
LEMMA FailsIdle ==
  ASSUME Orderly, IInv, IInv', OInv, IndexInv, HInv, Documented, RInv,
         NEW L, NEW closes, NEW done, Pops(L, closes, done), KeptBack(Inst(L), done),
         NEW f \in Marks, NEW g \in Marks, Marked(f, g)
  PROVE  Marked(f, g)'
<1>1. Basics /\ Basics' /\ Grouped /\ Popping(L, closes, done) /\ PopEffect(L, closes, done)
  BY BasicsHold, BasicsNext DEF OInv, Placed, Pops
<1>2. Leaving(L, closes, done) /\ Popped(L, closes)
  BY <1>1, PopLeaves DEF Popping
<1>3. Unhanded' = NoHelpers /\ Latest(Depth)' = Last(Groups(L - 1)')
  BY PopDocument
<1>4. PICK parent : parent = Last(Groups(L - 1)')
  OBVIOUS
<1>5. g[done] = document /\ g[parent] = f[done] /\ done \in Ids
  BY <1>4, DoneMarks DEF KeptBack
<1>6. Ids' = Ids /\ Count' = Count /\ SameData /\ SameRows /\ document' = document
  BY <1>1, SameCount DEF PopEffect, KeptBack, SameRows
<1>7. Turned(f, g)' /\ Fresh(f, g)'
  BY <1>6 DEF Marked, Turned, Fresh, Turns, SameData
<1>8. HistoryMarked(f, g)' /\ PendingMarked(f, g)'
  BY <1>6, RowsKept DEF SameComplete, Marked, IndexInv
<1>9. GroupsMarked(f, g)'
  BY <1>1, <1>2, PoppedGroups DEF Marked, Leaving
<1>10. f[done] = g[done]
  <2>1. Written(instances[done].data) = {}
    BY <1>1, KeptBackNothing
  <2>2. instances[done].data \in DataOf(Nat) /\ f[done] \in Docs(Nat)
    <3>1. done \in Nat
      BY <1>1, <1>5 DEF Basics
    <3> QED
      BY <1>1, <1>5, <3>1, Numbered DEF Marks
  <2>3. Redo(instances[done].data, f[done]) = f[done]
    BY <2>1, <2>2, EffectlessUndo
  <2>4. Redo(instances[done].data, f[done]) = g[done]
    BY <1>5 DEF Marked, Turned, Turns
  <2> QED
    BY <2>3, <2>4
<1>11. DocumentMarked(g)'
  <2>1. document \in Docs(Nat)
    BY <1>1, Numbered
  <2>2. UndoHelpers(NoHelpers, document) = document /\ RedoHelpers(NoHelpers, document) = document
    BY <2>1, NothingUnhanded
  <2> QED
    BY <1>3, <1>4, <1>5, <1>6, <1>10, <2>2 DEF DocumentMarked
<1> QED
  BY <1>7, <1>8, <1>9, <1>11 DEF Marked

\* The frames that are left when the mark of what is done, and that of the parent, change.
LEMMA PoppedKeep ==
  ASSUME Orderly, IInv, OInv, RInv, NEW L, NEW closes, NEW done, Pops(L, closes, done),
         instances[Inst(L)].kind # "begin", NEW parent, parent = Last(Groups(L - 1)'),
         NEW f, NEW g, NEW f2, NEW g2, GroupsMarked(f, g),
         \A j \in Nat : j # done => f2[j] = f[j], \A j \in Nat : j # parent => g2[j] = g[j]
  PROVE  GroupsMarked(f2, g2)'
<1>1. Basics /\ Grouped /\ Popping(L, closes, done) /\ HomesCompound
  BY BasicsHold DEF OInv, Placed, Pops, RInv
<1>2. Leaving(L, closes, done) /\ Popped(L, closes)
  BY <1>1, PopLeaves DEF Popping
<1>3. \A n \in 1 .. L - 1 :
           Inst(n) # done /\ \A k \in 1 .. Len(Groups(n)') : Groups(n)'[k] # done
  BY <1>1, DoneGone
<1>4. \A n \in 1 .. L - 1 : \A k \in 1 .. Len(Groups(n)') :
           Groups(n)'[k] = parent => n = L - 1 /\ k = Len(Groups(L - 1)')
  BY <1>1, ParentOnce
<1>5. \A n \in 1 .. L - 1 :
        /\ Inst(n) \in Nat /\ n \in 1 .. Depth
        /\ \A k \in 1 .. Len(Groups(n)') : k \in 1 .. Len(Groups(n)) /\ Groups(n)'[k] = Groups(n)[k]
  BY <1>1, <1>2, PopShape DEF Leaving, Basics, FramesSized
<1>6. ASSUME NEW n \in 1 .. L - 1, NEW k \in 1 .. Len(Groups(n)') PROVE Groups(n)'[k] \in Nat
  <2>1. n \in 1 .. Depth /\ k \in 1 .. Len(Groups(n)) /\ Groups(n)'[k] = Groups(n)[k]
    BY <1>5
  <2>2. Groups(n)[k] \in Nat
    BY <1>1, <2>1, LatestThere
  <2> QED
    BY <2>1, <2>2
<1>7. \A n \in 1 .. L - 1 :
           /\ f2[Inst(n)] = f[Inst(n)]
           /\ \A k \in 1 .. Len(Groups(n)') :
                /\ f2[Groups(n)'[k]] = f[Groups(n)'[k]]
                /\ n # L - 1 \/ k # Len(Groups(n)') => g2[Groups(n)'[k]] = g[Groups(n)'[k]]
  BY <1>3, <1>4, <1>5, <1>6
<1>8. closes => Len(Groups(L - 1)) > 1
  BY <1>2 DEF Leaving
<1> QED
  BY <1>1, <1>2, <1>7, <1>8, PoppedGroups

\* A command hands its undo data to the batch or command it belongs to.
LEMMA HandsUp ==
  ASSUME Orderly, IInv, IInv', OInv, IndexInv, HInv, Documented, RInv,
         NEW L, NEW closes, NEW done, Pops(L, closes, done),
         NEW parent, parent = Last(Groups(L - 1)'), HandedUp(Inst(L), done, parent),
         NEW f \in Marks, NEW g \in Marks, Marked(f, g)
  PROVE  \E f2, g2 \in Marks : Marked(f2, g2)'
<1>1. Basics /\ Basics' /\ Grouped /\ Popping(L, closes, done) /\ PopEffect(L, closes, done)
  BY BasicsHold, BasicsNext DEF OInv, Placed, Pops
<1>2. Leaving(L, closes, done) /\ Popped(L, closes)
  BY <1>1, PopLeaves DEF Popping
<1>3. Unhanded' = NoHelpers /\ Latest(Depth)' = parent
  BY PopDocument
<1>4. g[done] = document /\ g[parent] = f[done] /\ done \in Ids /\ parent # done
  BY DoneMarks DEF HandedUp
<1>5. Ids' = Ids /\ Count' = Count /\ SameRows /\ document' = document
  BY <1>1, SameCount DEF PopEffect, HandedUp, SameRows
<1>6. parent \in Ids /\ parent # Root /\ instances[parent].status = "Running"
  BY <1>1, PopParent DEF HandedUp, RInv
<1>7. instances[done].status = "Running"
  <2>1. InFrame(done) \/ InGroup(done)
    <3>1. L \in 1 .. Depth /\ closes \in BOOLEAN
      BY <1>1, <1>2 DEF Leaving, Popping
    <3> QED
      BY <1>2, <3>1 DEF Leaving, InFrame
  <2> QED
    BY <1>4, <2>1 DEF OInv, Ordered, Statuses
<1>8. done \in Nat /\ parent \in Nat /\ done # Root /\ \A j \in Ids : j \in Nat /\ j # Root
  BY <1>1, <1>4, <1>6 DEF Basics, Root
<1>9. PICK doc \in Docs(Nat) : doc = document
  BY <1>1, Numbered
<1>10. /\ \E f2 \in Marks : f2[done] = doc /\ \A j \in Nat : j # done => f2[j] = f[j]
       /\ \E g2 \in Marks : g2[parent] = doc /\ \A j \in Nat : j # parent => g2[j] = g[j]
  BY <1>8, MarkChange
<1>11. PICK f2 \in Marks : f2[done] = doc /\ \A j \in Nat : j # done => f2[j] = f[j]
  BY <1>10
<1>12. PICK g2 \in Marks : g2[parent] = doc /\ \A j \in Nat : j # parent => g2[j] = g[j]
  BY <1>10
<1>13. \A j \in Ids : instances'[j].data =
                        IF j = done THEN <<>>
                        ELSE IF j = parent THEN Consolidate(instances[j].data, instances[done].data)
                        ELSE instances[j].data
  BY DEF HandedUp, Handed
<1>14. ASSUME NEW j \in Ids PROVE Turns(instances'[j].data, f2[j], g2[j])
  <2>1. CASE j = done
    <3>1. Redo(<<>>, doc) = doc /\ Undo(<<>>, doc) = doc
      <4>1. /\ [mergeable |-> TRUE, helpers |-> NoHelpers] \in DataEntry(Nat)
            /\ <<>> \in DataOf(Nat)
        BY ListTypes DEF DataEntry
      <4> QED
        BY <4>1, UndoAppend
    <3>2. g2[done] = doc /\ f2[done] = doc
      BY <1>4, <1>8, <1>9, <1>11, <1>12
    <3> QED
      BY <1>13, <2>1, <3>1, <3>2 DEF Turns
  <2>2. CASE j = parent
    <3>1. PICK mine \in DataOf(Nat) : mine = instances[parent].data
      BY <1>1, <1>6, Numbered
    <3>2. PICK its \in DataOf(Nat) : its = instances[done].data
      BY <1>1, <1>4, Numbered
    <3>3. \A x : /\ Undo(Consolidate(mine, its), x) = Undo(mine, Undo(its, x))
                 /\ Redo(Consolidate(mine, its), x) = Redo(its, Redo(mine, x))
      BY ConsolidateUndo
    <3>4. /\ Redo(mine, f[parent]) = g[parent] /\ Undo(mine, g[parent]) = f[parent]
          /\ Redo(its, f[done]) = g[done] /\ Undo(its, g[done]) = f[done]
      BY <1>4, <1>6, <3>1, <3>2 DEF Marked, Turned, Turns
    <3>5. f2[parent] = f[parent] /\ g2[parent] = doc /\ g[done] = doc /\ g[parent] = f[done]
      BY <1>4, <1>8, <1>9, <1>11, <1>12
    <3>6. Turns(Consolidate(mine, its), f2[parent], g2[parent])
      BY <3>3, <3>4, <3>5 DEF Turns
    <3>7. instances'[j].data = Consolidate(mine, its)
      BY <1>4, <1>13, <2>2, <3>1, <3>2
    <3> QED
      BY <2>2, <3>6, <3>7
  <2>3. CASE j # done /\ j # parent
    <3>1. instances'[j].data = instances[j].data /\ f2[j] = f[j] /\ g2[j] = g[j]
      BY <1>8, <1>11, <1>12, <1>13, <2>3
    <3> QED
      BY <3>1 DEF Marked, Turned
  <2> QED
    BY <2>1, <2>2, <2>3
<1>15. Turned(f2, g2)'
  BY <1>5, <1>14 DEF Turned, Turns
<1>16. Fresh(f2, g2)'
  <2>1. \A j \in Nat : j > Count => j # done /\ j # parent
    BY <1>1, <1>4, <1>6 DEF Basics
  <2> QED
    BY <1>5, <1>11, <1>12, <2>1 DEF Marked, Fresh
<1>17. HistoryMarked(f2, g2)' /\ PendingMarked(f2, g2)'
  <2>1. SameComplete(f, g, f2, g2)
    <3>1. \A j \in Ids : Complete(j) => j # done /\ j # parent
      BY <1>6, <1>7 DEF Complete
    <3> QED
      BY <1>8, <1>11, <1>12, <3>1 DEF SameComplete
  <2>2. g2[Root] = g[Root]
    BY <1>6, <1>12 DEF Root
  <2> QED
    BY <1>5, <2>1, <2>2, RowsKept DEF Marked, IndexInv
<1>18. GroupsMarked(f2, g2)'
  BY <1>11, <1>12, PoppedKeep DEF HandedUp, Marked
<1>19. DocumentMarked(g2)'
  <2>1. UndoHelpers(NoHelpers, doc) = doc /\ RedoHelpers(NoHelpers, doc) = doc
    BY NothingUnhanded
  <2> QED
    BY <1>3, <1>5, <1>9, <1>12, <2>1 DEF DocumentMarked
<1> QED
  BY <1>15, <1>16, <1>17, <1>18, <1>19 DEF Marked

\* A command outside any other becomes pending.
LEMMA EntersPending ==
  ASSUME Orderly, IInv, IInv', OInv, IndexInv, HInv, Documented, RInv,
         NEW L, NEW closes, NEW done, Pops(L, closes, done),
         NEW parent, parent = Last(Groups(L - 1)'), EnteredNow(Inst(L), done, parent),
         NEW f \in Marks, NEW g \in Marks, Marked(f, g)
  PROVE  \E g2 \in Marks : Marked(f, g2)'
<1>1. Basics /\ Basics' /\ Grouped /\ Popping(L, closes, done) /\ PopEffect(L, closes, done)
  BY BasicsHold, BasicsNext DEF OInv, Placed, Pops
<1>2. Unhanded' = NoHelpers /\ Latest(Depth)' = parent
  BY PopDocument
<1>3. g[done] = document /\ g[parent] = f[done] /\ done \in Ids /\ parent # done /\ parent = Root
  BY DoneMarks DEF EnteredNow
<1>4. /\ Ids' = Ids /\ Count' = Count /\ SameData /\ document' = document
      /\ UNCHANGED <<history, previousSelectedIndex>>
      /\ pendingHistory' = Append(pendingHistory, done)
  BY <1>1, SameCount DEF PopEffect, EnteredNow
<1>5. Root \in Nat /\ \A j \in Ids : j \in Nat /\ j # Root
  BY <1>1 DEF Basics, Root
<1>6. PICK doc \in Docs(Nat) : doc = document
  BY <1>1, Numbered
<1>7. \E g2 \in Marks : g2[Root] = doc /\ \A j \in Nat : j # Root => g2[j] = g[j]
  BY <1>5, MarkChange
<1>8. PICK g2 \in Marks : g2[Root] = doc /\ \A j \in Nat : j # Root => g2[j] = g[j]
  BY <1>7
<1>9. \A j \in Ids : g2[j] = g[j]
  BY <1>5, <1>8
<1>10. Turned(f, g2)'
  BY <1>4, <1>9 DEF Marked, Turned, Turns, SameData
<1>11. Fresh(f, g2)'
  <2>1. \A j \in Nat : j > Count => j # Root
    BY <1>1 DEF Basics, Root
  <2> QED
    BY <1>4, <1>8, <2>1 DEF Marked, Fresh
<1>12. SameComplete(f, g, f, g2)
  BY <1>9 DEF SameComplete
<1>13. HistoryMarked(f, g2)' /\ Base(g2)' = Base(g)
  BY <1>4, <1>12, BaseKept DEF Marked, IndexInv
<1>14. /\ Linked(f, g2, pendingHistory)
       /\ Len(pendingHistory) > 0 =>
              g2[pendingHistory[Len(pendingHistory)]] = g[pendingHistory[Len(pendingHistory)]]
  BY <1>12, PendingLinks DEF Marked, PendingMarked, IndexInv
<1>15. PICK m \in Nat : m = Len(pendingHistory)
  BY DEF IndexInv, Entered
<1>16. /\ Len(pendingHistory') = m + 1 /\ pendingHistory'[m + 1] = done
       /\ \A k \in 1 .. m : pendingHistory'[k] = pendingHistory[k]
  BY <1>3, <1>4, <1>15 DEF IndexInv, Entered
<1>17. PendingMarked(f, g2)'
  <2>1. f[pendingHistory'[1]] = Base(g2)'
    <3>1. CASE m = 0
      BY <1>3, <1>13, <1>15, <1>16, <3>1 DEF Marked, PendingMarked
    <3>2. CASE m # 0
      <4>1. 1 \in 1 .. m
        BY <3>2
      <4>2. m > 0
        BY <3>2
      <4> QED
        BY <1>13, <1>15, <1>16, <4>1, <4>2 DEF Marked, PendingMarked
    <3> QED
      BY <3>1, <3>2
  <2>2. g2[pendingHistory'[m + 1]] = g2[Root]
    BY <1>3, <1>6, <1>8, <1>9, <1>16
  <2>3. ASSUME NEW k \in 1 .. m PROVE g2[pendingHistory'[k]] = f[pendingHistory'[k + 1]]
    <3>1. CASE k = m
      <4>1. m > 0
        BY <3>1
      <4> QED
        BY <1>3, <1>14, <1>15, <1>16, <3>1, <4>1 DEF Marked, PendingMarked
    <3>2. CASE k # m
      <4>1. k \in 1 .. m - 1 /\ k + 1 \in 1 .. m
        BY <3>2
      <4> QED
        BY <1>14, <1>15, <1>16, <4>1 DEF Linked
    <3> QED
      BY <3>1, <3>2
  <2>4. Len(pendingHistory') > 0 /\ Len(pendingHistory') # 0 /\ Len(pendingHistory') - 1 = m
    BY <1>16
  <2> QED
    BY <1>16, <2>1, <2>2, <2>3, <2>4 DEF PendingMarked, Linked
<1>18. GroupsMarked(f, g2)'
  BY <1>3, <1>8, PoppedKeep DEF EnteredNow, Marked
<1>19. DocumentMarked(g2)'
  <2>1. UndoHelpers(NoHelpers, doc) = doc /\ RedoHelpers(NoHelpers, doc) = doc
    BY NothingUnhanded
  <2> QED
    BY <1>2, <1>3, <1>4, <1>6, <1>8, <2>1 DEF DocumentMarked
<1> QED
  BY <1>10, <1>11, <1>13, <1>17, <1>18, <1>19 DEF Marked

\* The end of a command, or of a batch, keeps the marks.
LEMMA PopsMarked ==
  ASSUME Orderly, IInv, IInv', OInv, IndexInv, HInv, Documented, RInv,
         NEW L, NEW closes, NEW done, Pops(L, closes, done),
         NEW f \in Marks, NEW g \in Marks, Marked(f, g)
  PROVE  \E f2, g2 \in Marks : Marked(f2, g2)'
<1>1. PICK parent : parent = Last(Groups(L - 1)')
  OBVIOUS
<1>2. \/ Opened(Inst(L)) \/ HandedUp(Inst(L), done, parent)
      \/ EnteredNow(Inst(L), done, parent) \/ KeptBack(Inst(L), done)
  BY <1>1 DEF Pops, PopEffect
<1>3. CASE Opened(Inst(L))
  <2>1. Marked(f, g)'
    BY <1>3, StaysOpen
  <2> QED
    BY <2>1
<1>4. CASE HandedUp(Inst(L), done, parent)
  BY <1>1, <1>4, HandsUp
<1>5. CASE EnteredNow(Inst(L), done, parent)
  <2>1. PICK g2 \in Marks : Marked(f, g2)'
    BY <1>1, <1>5, EntersPending
  <2> QED
    BY <2>1
<1>6. CASE KeptBack(Inst(L), done)
  <2>1. Marked(f, g)'
    BY <1>6, FailsIdle
  <2> QED
    BY <2>1
<1> QED
  BY <1>2, <1>3, <1>4, <1>5, <1>6

\* Every step keeps the marks, or sets them anew for what it begins or ends.
LEMMA MInvStep ==
  ASSUME Orderly, IInv, IInv', OInv, IndexInv, HInv, Still, TInv, TInv', RInv, RootNested, MInv,
         [Next]_vars
  PROVE  MInv'
<1>1. EffectKind
  BY RInvStep
<1>2. Documented /\ Documented' /\ Basics /\ Basics' /\ Entered /\ Selected /\ Rolled
  BY BasicsHold, BasicsNext DEF TInv, IndexInv, RInv
<1>3. \E f, g \in Marks : Marked(f, g)
  BY DEF MInv
<1>4. PICK f : f \in Marks /\ \E g \in Marks : Marked(f, g)
  BY <1>3
<1>5. PICK g : g \in Marks /\ Marked(f, g)
  BY <1>4
<1> SUFFICES \E f2, g2 \in Marks : Marked(f2, g2)'
  BY DEF MInv
<1>6. ASSUME Marked(f, g)' PROVE \E f2, g2 \in Marks : Marked(f2, g2)'
  BY <1>4, <1>5, <1>6
<1>7. ASSUME NEW g2 \in Marks, Marked(f, g2)' PROVE \E f3, g3 \in Marks : Marked(f3, g3)'
  BY <1>4, <1>7
<1>8. CASE Bystanding /\ (SameRows \/ TakesPending)
  <2>1. Marked(f, g)'
    BY <1>2, <1>4, <1>5, <1>8, Bystands
  <2> QED
    BY <1>6, <2>1
<1>9. ASSUME NEW L, NEW i, Takes(L, i) PROVE \E f2, g2 \in Marks : Marked(f2, g2)'
  BY <1>2, <1>4, <1>5, <1>9, Begins
<1>10. ASSUME NEW t \in Threads, NEW i, WriteEffect(t, i)
       PROVE  \E f2, g2 \in Marks : Marked(f2, g2)'
  <2>1. Marked(f, g)'
    BY <1>2, <1>4, <1>5, <1>10, Writes
  <2> QED
    BY <1>6, <2>1
<1>11. ASSUME NEW t \in Threads, NEW i, ReturnEffect(t, i)
       PROVE  \E f2, g2 \in Marks : Marked(f2, g2)'
  <2>1. CASE instances[i].own = NoHelpers
    <3>1. Marked(f, g)'
      BY <1>2, <1>4, <1>5, <1>11, <2>1, ReturnsNothing
    <3> QED
      BY <1>6, <3>1
  <2>2. CASE instances[i].own # NoHelpers
    <3>1. \E g2 \in Marks : Marked(f, g2)'
      BY <1>2, <1>4, <1>5, <1>11, <2>2, ReturnsSome
    <3> QED
      BY <1>7, <3>1
  <2> QED
    BY <2>1, <2>2
<1>12. ASSUME NEW t \in Threads, NEW i, RollbackEffect(t, i)
       PROVE  \E f2, g2 \in Marks : Marked(f2, g2)'
  <2>1. Marked(f, g)'
    BY <1>2, <1>4, <1>5, <1>12, RollsBack
  <2> QED
    BY <1>6, <2>1
<1>13. ASSUME NEW L, NEW closes, NEW done, Pops(L, closes, done)
       PROVE  \E f2, g2 \in Marks : Marked(f2, g2)'
  BY <1>2, <1>4, <1>5, <1>13, PopsMarked
<1>14. CASE Stepping
  <2>1. \E g2 \in Marks : Marked(f, g2)'
    BY <1>2, <1>4, <1>5, <1>14, Strode
  <2> QED
    BY <1>7, <2>1
<1>15. CASE Bystanding
  <2>1. SameRows \/ TakesPending \/ (\E t \in Threads : PopFrame(t)) \/ Stepping
    BY HistoryAside DEF Orderly, TInv, Stepping
  <2>2. ASSUME NEW t \in Threads, PopFrame(t) PROVE FALSE
    <3>1. PICK L, closes, done : PopEffect(L, closes, done)
      BY <2>2, PopExact DEF TInv
    <3> QED
      BY <1>2, <1>15, <3>1 DEF Bystanding, FramesSame, PopEffect, Popped, Basics, FramesSized
  <2> QED
    BY <1>8, <1>14, <1>15, <2>1, <2>2
<1> QED
  BY <1>1, <1>9, <1>10, <1>11, <1>12, <1>13, <1>14, <1>15 DEF EffectKind

\* Before anything is queued.
LEMMA RInvInit == Init => RInv
<1> SUFFICES ASSUME Init PROVE RInv
  OBVIOUS
<1>1. instances = <<>> /\ commandFrames = <<MakeFrame(Root)>> /\ \A t \in Threads : stack[t] = <<>>
  BY DEF Init
<1>2. Ids = {}
  BY <1>1 DEF Ids
<1>3. Depth = 1 /\ Groups(1) = <<Root>>
  BY <1>1 DEF Depth, Groups, MakeFrame
<1>4. \A t \in Threads : DOMAIN stack[t] = {}
  BY <1>1
<1>5. \A t \in Threads : \A k, at, i : ~Does(t, k, at, i)
  BY <1>4 DEF Does
<1>6. Behind
  <2>1. \A n \in 1 .. 1 : n = 1
    OBVIOUS
  <2>2. Len(<<Root>>) = 1 /\ <<Root>>[1] = Root
    OBVIOUS
  <2>3. Filled(1)
    BY <1>3, <2>1, <2>2 DEF Filled
  <2> QED
    BY <1>3, <2>1, <2>3 DEF Behind
<1>7. Returned /\ Rolled
  BY <1>5 DEF Returned, Rolled
<1>8. Kinds /\ HomesCompound /\ Pristine /\ OkErrors /\ Clean /\ Effectless
  BY <1>2 DEF Kinds, HomesCompound, Pristine, OkErrors, Clean, Effectless
<1> QED
  BY <1>6, <1>7, <1>8 DEF RInv

\* Before anything is queued every mark is the initial document.
LEMMA MInvInit == Init => MInv
<1> SUFFICES ASSUME Init PROVE MInv
  OBVIOUS
<1>1. /\ instances = <<>> /\ commandFrames = <<MakeFrame(Root)>> /\ document = Blank
      /\ history = <<>> /\ pendingHistory = <<>> /\ previousSelectedIndex = NoSelection
  BY DEF Init, Blank
<1>2. Ids = {} /\ Len(history) = 0 /\ Len(pendingHistory) = 0
  BY <1>1 DEF Ids
<1>3. Depth = 1 /\ Groups(1) = <<Root>>
  BY <1>1 DEF Depth, Groups, MakeFrame
<1>4. Len(Groups(1)) = 1 /\ Groups(1)[1] = Root /\ Latest(1) = Root /\ Root \in Nat
  BY <1>3 DEF Latest, Root
<1>5. Blank \in Docs(Nat)
  BY DEF Blank, Docs
<1>6. PICK f : f = [i \in Nat |-> Blank]
  OBVIOUS
<1>7. f \in Marks /\ \A i \in Nat : f[i] = Blank
  BY <1>5, <1>6 DEF Marks
<1>8. Turned(f, f) /\ Fresh(f, f)
  BY <1>2 DEF Turned, Fresh
<1>9. \A k \in 1 .. 0 - 1 : FALSE
  OBVIOUS
<1>10. Linked(f, f, history) /\ Linked(f, f, pendingHistory)
  BY <1>2, <1>9 DEF Linked
<1>11. Base(f) = Blank
  BY <1>1 DEF Base, NoSelection
<1>12. HistoryMarked(f, f) /\ PendingMarked(f, f)
  BY <1>2, <1>4, <1>7, <1>10, <1>11 DEF HistoryMarked, PendingMarked
<1>13. GroupsMarked(f, f)
  <2>1. \A n \in 1 .. 1 : n = 1
    OBVIOUS
  <2>2. 1 .. 1 - 1 = {}
    OBVIOUS
  <2>3. Linked(f, f, Groups(1))
    BY <1>4, <2>2 DEF Linked
  <2> QED
    BY <1>3, <2>1, <2>3 DEF GroupsMarked
<1>14. DocumentMarked(f)
  <2>1. Unhanded = NoHelpers
    BY <1>3 DEF Unhanded
  <2>2. UndoHelpers(NoHelpers, Blank) = Blank /\ RedoHelpers(NoHelpers, Blank) = Blank
    BY <1>5, NothingUnhanded
  <2> QED
    BY <1>1, <1>3, <1>4, <1>7, <2>1, <2>2 DEF DocumentMarked
<1> QED
  BY <1>7, <1>8, <1>12, <1>13, <1>14 DEF MInv, Marked

-----------------------------------------------------------------------------
(* The history accounts for the document *)

\* Each command has a document it began with and one it has led to; each began where the
\* one before it ended, and its undo data lead from the one to the other and back.
THEOREM MarksInvariance ==
  ASSUME Orderly
  PROVE  Spec => [](IInv /\ OInv /\ IndexInv /\ HInv /\ Still /\ TInv /\ RInv /\ RootNested /\ MInv)
<1>1. "moveAnyTime" \notin Ops /\ "fini" \notin Ops
  BY DEF Orderly
<1>2. Spec => [](IInv /\ OInv /\ IndexInv /\ Still)
  BY <1>1, StillInvariance
<1>3. Init => RInv /\ RootNested /\ MInv
  BY RInvInit, RootNestedInit, MInvInit
<1> DEFINE Rest == IInv /\ OInv /\ IndexInv /\ HInv /\ Still /\ TInv
<1>4. Spec => []Rest
  BY <1>2, EntriesInvariance, TypeInvariance, PTL
<1>5. ASSUME RInv, RootNested, MInv, [Next]_vars, Rest, Rest'
      PROVE  RInv' /\ RootNested' /\ MInv'
  <2>1. RInv'
    BY <1>5, RInvStep
  <2>2. RootNested'
    BY <1>1, <1>5, RootNestedStep
  <2>3. MInv'
    BY <1>5, MInvStep
  <2> QED
    BY <2>1, <2>2, <2>3
<1> HIDE DEF Rest
<1>6. (RInv /\ RootNested /\ MInv) /\ [Next]_vars /\ Rest /\ Rest' => (RInv /\ RootNested /\ MInv)'
  BY <1>5
<1>7. Spec => [](Rest /\ RInv /\ RootNested /\ MInv)
  BY <1>3, <1>4, <1>6, PTL DEF Spec
<1> QED
  BY <1>7 DEF Rest

\* At rest the selected entry has led to the document.
LEMMA RestingBase ==
  ASSUME IInv, OInv, IndexInv, RootNested, Documented, Quiescent,
         NEW f \in Marks, NEW g \in Marks, Marked(f, g)
  PROVE  document = Base(g) /\ currentIndex = previousSelectedIndex
<1>1. Basics /\ Grouped
  BY BasicsHold DEF OInv, Placed
<1>2. /\ Depth = 1 /\ Queue(1) = <<>> /\ Len(pendingHistory) = 0 /\ ~(Len(Open(1)) > 1)
      /\ \A t \in Threads : stack[t] = <<>>
  BY DEF Quiescent, FlushDone, OpenGroup, Depth, Queue, Open
<1>3. Len(Groups(1)) = 1 /\ Groups(1)[1] = Root
  <2>1. Len(Open(1)) \in Nat
    BY <1>1, <1>2 DEF Basics, FramesSized
  <2>2. Len(Open(1)) <= 1
    BY <1>2, <2>1
  <2>3. \A a \in 1 .. Len(Queue(1)) : FALSE
    BY <1>2
  <2> QED
    BY <1>1, <1>2, <2>2, <2>3, RootOnly
<1>4. Latest(1) = Root /\ Root \in Nat
  BY <1>3 DEF Latest, Root
<1>5. Unhanded = NoHelpers
  BY <1>2 DEF Unhanded
<1>6. document = g[Root]
  BY <1>1, <1>2, <1>4, <1>5, DocumentThere DEF Marked
<1>7. g[Root] = Base(g)
  BY <1>2 DEF Marked, PendingMarked
<1>8. ~Moving
  <2>1. Owner \in Threads
    BY DEF Threads
  <2>2. DOMAIN stack[Owner] = {} /\ Len(stack[Owner]) = 0
    BY <1>2, <2>1
  <2> QED
    BY <1>2, <2>1, <2>2 DEF Moving, Calling
<1> QED
  BY <1>6, <1>7, <1>8 DEF IndexInv, Selected

\* The documents between the entries of the history.
Stages(g) == [k \in 0 .. Len(history) |-> IF k = 0 THEN Blank ELSE g[history[k]]]

\* Each entry leads from one of these documents to the next and back.
LEMMA StagesTurn ==
  ASSUME IndexInv, NEW f \in Marks, NEW g \in Marks, Marked(f, g)
  PROVE  /\ Stages(g)[0] = Blank /\ Stages(g)[previousSelectedIndex + 1] = Base(g)
         /\ \A k \in 1 .. Len(history) :
              /\ Redo(instances[history[k]].data, Stages(g)[k - 1]) = Stages(g)[k]
              /\ Undo(instances[history[k]].data, Stages(g)[k]) = Stages(g)[k - 1]
<1>1. PICK n \in Nat : n = Len(history)
  BY DEF IndexInv, Entered
<1>2. history \in Seq(Ids) /\ \A k \in 1 .. n : history[k] \in Ids
  BY <1>1 DEF IndexInv, Entered
<1>3. previousSelectedIndex \in Int /\ previousSelectedIndex >= -1 /\ previousSelectedIndex <= n - 1
  BY <1>1 DEF IndexInv, Selected, NoSelection
<1>4. /\ Stages(g)[0] = Blank /\ \A k \in 1 .. n : Stages(g)[k] = g[history[k]]
      /\ \A k \in 1 .. n : k - 1 \in 0 .. n
  BY <1>1 DEF Stages
<1>5. Stages(g)[previousSelectedIndex + 1] = Base(g)
  <2>1. CASE previousSelectedIndex < 0
    <3>1. previousSelectedIndex + 1 = 0
      BY <1>3, <2>1
    <3> QED
      BY <1>4, <2>1, <3>1 DEF Base
  <2>2. CASE ~(previousSelectedIndex < 0)
    <3>1. previousSelectedIndex + 1 \in 1 .. n
      BY <1>3, <2>2
    <3> QED
      BY <1>4, <2>2, <3>1 DEF Base
  <2> QED
    BY <2>1, <2>2
<1>6. SUFFICES ASSUME NEW k \in 1 .. n
               PROVE  /\ Redo(instances[history[k]].data, Stages(g)[k - 1]) = Stages(g)[k]
                      /\ Undo(instances[history[k]].data, Stages(g)[k]) = Stages(g)[k - 1]
  BY <1>1, <1>4, <1>5
<1>7. f[history[k]] = Stages(g)[k - 1]
  <2>1. CASE k = 1
    BY <1>1, <1>4, <2>1 DEF Marked, HistoryMarked
  <2>2. CASE k # 1
    <3>1. PICK j \in 1 .. n - 1 : j = k - 1
      BY <2>2
    <3>2. j + 1 = k /\ j \in 1 .. n /\ j \in 1 .. Len(history) - 1
      BY <1>1, <3>1
    <3>3. g[history[j]] = f[history[j + 1]]
      BY <3>2 DEF Marked, HistoryMarked, Linked
    <3> QED
      BY <1>4, <3>1, <3>2, <3>3
  <2> QED
    BY <2>1, <2>2
<1>8. Turns(instances[history[k]].data, f[history[k]], g[history[k]])
  BY <1>2 DEF Marked, Turned
<1> QED
  BY <1>4, <1>7, <1>8 DEF Turns

\* The history accounts for the document: see HistoryConsistent. It holds for orderly
\* applications, in any order of any number of calls.
THEOREM HistoryConsistentHolds ==
  ASSUME Orderly
  PROVE  Spec => []HistoryConsistent
<1>1. IInv /\ OInv /\ IndexInv /\ TInv /\ RootNested /\ MInv => HistoryConsistent
  <2> SUFFICES ASSUME IInv, OInv, IndexInv, TInv, RootNested, MInv PROVE HistoryConsistent
    OBVIOUS
  <2> DEFINE at == currentIndex + 1
             data(k) == instances[history[k]].data
             before == CHOOSE h : h = [k \in 0 .. at |->
                         IF k = at THEN document ELSE Undo(data(k + 1), h[k + 1])]
             after == CHOOSE h : h = [k \in at .. Len(history) |->
                        IF k = at THEN document ELSE Redo(data(k), h[k - 1])]
  <2> SUFFICES ASSUME Quiescent
               PROVE  /\ before[0] = [p \in Props |-> 0]
                      /\ \A k \in 1 .. at : Redo(data(k), before[k - 1]) = before[k]
                      /\ \A k \in at + 1 .. Len(history) : Undo(data(k), after[k]) = after[k - 1]
    BY DEF HistoryConsistent
  <2>1. \E f, g \in Marks : Marked(f, g)
    BY DEF MInv
  <2>2. PICK f : f \in Marks /\ \E g \in Marks : Marked(f, g)
    BY <2>1
  <2>3. PICK g : g \in Marks /\ Marked(f, g)
    BY <2>2
  <2>4. document = Base(g) /\ currentIndex = previousSelectedIndex
    BY <2>2, <2>3, RestingBase DEF TInv
  <2>5. PICK n \in Nat : n = Len(history)
    BY DEF IndexInv, Entered
  <2>6. PICK m \in 0 .. n : m = at
    BY <2>4, <2>5 DEF IndexInv, Selected, NoSelection
  <2>7. PICK stage : stage = Stages(g)
    OBVIOUS
  <2>8. /\ stage[0] = [p \in Props |-> 0] /\ stage[m] = document
        /\ \A k \in 1 .. n : Redo(data(k), stage[k - 1]) = stage[k]
                             /\ Undo(data(k), stage[k]) = stage[k - 1]
    BY <2>2, <2>3, <2>4, <2>5, <2>6, <2>7, StagesTurn DEF Blank
  <2> HIDE DEF at, data
  <2>9. /\ before = [k \in 0 .. m |-> IF k = m THEN document ELSE Undo(data(k + 1), before[k + 1])]
    <3>1. PICK h : h = [k \in 0 .. m |-> stage[k]]
      OBVIOUS
    <3>2. h = [k \in 0 .. m |-> IF k = m THEN document ELSE Undo(data(k + 1), h[k + 1])]
      <4> SUFFICES ASSUME NEW k \in 0 .. m
                   PROVE  stage[k] = IF k = m THEN document ELSE Undo(data(k + 1), h[k + 1])
        BY <3>1
      <4>1. CASE k = m
        BY <2>8, <4>1
      <4>2. CASE k # m
        <5>1. k + 1 \in 1 .. n /\ k + 1 \in 0 .. m /\ k + 1 - 1 = k
          BY <4>2
        <5>2. Undo(data(k + 1), stage[k + 1]) = stage[k + 1 - 1]
          BY <2>8, <5>1
        <5> QED
          BY <3>1, <4>2, <5>1, <5>2
      <4> QED
        BY <4>1, <4>2
    <3> QED
      BY <2>6, <3>2
  <2>10. after = [k \in m .. n |-> IF k = m THEN document ELSE Redo(data(k), after[k - 1])]
    <3>1. PICK h : h = [k \in m .. n |-> stage[k]]
      OBVIOUS
    <3>2. h = [k \in m .. n |-> IF k = m THEN document ELSE Redo(data(k), h[k - 1])]
      <4> SUFFICES ASSUME NEW k \in m .. n
                   PROVE  stage[k] = IF k = m THEN document ELSE Redo(data(k), h[k - 1])
        BY <3>1
      <4>1. CASE k = m
        BY <2>8, <4>1
      <4>2. CASE k # m
        <5>1. k \in 1 .. n /\ k - 1 \in m .. n
          BY <4>2
        <5>2. Redo(data(k), stage[k - 1]) = stage[k]
          BY <2>8, <5>1
        <5> QED
          BY <3>1, <4>2, <5>1, <5>2
      <4> QED
        BY <4>1, <4>2
    <3> QED
      BY <2>5, <2>6, <3>2
  <2> HIDE DEF before, after
  <2>11. \A k \in 0 .. m : before[k] = stage[k]
    <3> DEFINE S == {k \in 0 .. m : before[m - k] = stage[m - k]}
    <3>1. 0 \in S
      <4>1. m - 0 = m /\ 0 \in 0 .. m /\ m \in 0 .. m
        OBVIOUS
      <4> QED
        BY <2>8, <2>9, <4>1
    <3>2. ASSUME NEW k \in 1 .. m, k - 1 \in S PROVE k \in S
      <4>1. PICK j \in 0 .. m : j = m - k
        OBVIOUS
      <4>2. j # m /\ m - (k - 1) = j + 1 /\ j + 1 \in 1 .. n /\ j + 1 - 1 = j /\ k \in 0 .. m
        BY <4>1
      <4>3. before[j + 1] = stage[j + 1]
        BY <3>2, <4>2
      <4>4. before[j] = Undo(data(j + 1), before[j + 1])
        BY <2>9, <4>2
      <4>5. Undo(data(j + 1), stage[j + 1]) = stage[j + 1 - 1]
        BY <2>8, <4>2
      <4> QED
        BY <4>1, <4>2, <4>3, <4>4, <4>5
    <3>3. m \in Nat
      OBVIOUS
    <3> HIDE DEF S
    <3>4. 0 .. m \subseteq S
      BY <3>1, <3>2, <3>3, InductionUpTo
    <3>5. SUFFICES ASSUME NEW k \in 0 .. m PROVE before[k] = stage[k]
      OBVIOUS
    <3>6. m - k \in S /\ m - (m - k) = k
      BY <3>4
    <3> QED
      BY <3>6 DEF S
  <2>12. \A k \in m .. n : after[k] = stage[k]
    <3>1. PICK r \in Nat : r = n - m
      OBVIOUS
    <3> DEFINE S == {k \in 0 .. r : after[m + k] = stage[m + k]}
    <3>2. 0 \in S
      <4>1. m + 0 = m /\ 0 \in 0 .. r /\ m \in m .. n
        OBVIOUS
      <4> QED
        BY <2>8, <2>10, <4>1
    <3>3. ASSUME NEW k \in 1 .. r, k - 1 \in S PROVE k \in S
      <4>1. PICK j \in m .. n : j = m + k
        BY <3>1
      <4>2. j # m /\ m + (k - 1) = j - 1 /\ j \in 1 .. n /\ k \in 0 .. r
        BY <4>1
      <4>3. after[j - 1] = stage[j - 1]
        BY <3>3, <4>2
      <4>4. after[j] = Redo(data(j), after[j - 1])
        BY <2>10, <4>2
      <4>5. Redo(data(j), stage[j - 1]) = stage[j]
        BY <2>8, <4>2
      <4> QED
        BY <4>1, <4>2, <4>3, <4>4, <4>5
    <3> HIDE DEF S
    <3>4. 0 .. r \subseteq S
      BY <3>2, <3>3, InductionUpTo
    <3>5. SUFFICES ASSUME NEW k \in m .. n PROVE after[k] = stage[k]
      OBVIOUS
    <3>6. k - m \in S /\ m + (k - m) = k
      BY <3>1, <3>4
    <3> QED
      BY <3>6 DEF S
  <2>13. before[0] = [p \in Props |-> 0]
    BY <2>8, <2>11
  <2>14. \A k \in 1 .. m : Redo(data(k), before[k - 1]) = before[k]
    <3> SUFFICES ASSUME NEW k \in 1 .. m PROVE Redo(data(k), before[k - 1]) = before[k]
      OBVIOUS
    <3>1. k \in 1 .. n /\ k \in 0 .. m /\ k - 1 \in 0 .. m
      OBVIOUS
    <3> QED
      BY <2>8, <2>11, <3>1
  <2>15. \A k \in m + 1 .. n : Undo(data(k), after[k]) = after[k - 1]
    <3> SUFFICES ASSUME NEW k \in m + 1 .. n PROVE Undo(data(k), after[k]) = after[k - 1]
      OBVIOUS
    <3>1. k \in 1 .. n /\ k \in m .. n /\ k - 1 \in m .. n
      OBVIOUS
    <3> QED
      BY <2>8, <2>12, <3>1
  <2> QED
    BY <2>5, <2>6, <2>13, <2>14, <2>15
<1> QED
  BY <1>1, MarksInvariance, PTL

-----------------------------------------------------------------------------
(* Applications whose aborted batches leave no trace *)

\* Commands run no others and batches are not nested; what writes can be undone and does
\* not fail, and no undo or redo fails.  Batches may be aborted, by the application or by
\* fini, and the index moves at any time.
Flat ==
  /\ "nestedBatch" \notin Ops /\ "undoFails" \notin Ops
  /\ \A c \in Classes : ~c.queues /\ (c.writes => c.canUndo /\ ~c.fails)

\* Every command is queued on the root frame.
LEMMA FlatHomes ==
  ASSUME Flat, Kinds, HomesCompound
  PROVE  \A i \in Ids : ~Compound(i) /\ instances[i].home = Root
<1>1. \A i : ~Compound(i)
  BY DEF Flat, Kinds, Known, Compound
<1> QED
  BY <1>1 DEF HomesCompound

\* At most one command runs, and only the root frame has a queue.
LEMMA FlatFrames ==
  ASSUME Flat, Kinds, HomesCompound, Basics, OInv
  PROVE  /\ Depth \in {1, 2} /\ 1 \in 1 .. Depth
         /\ Depth > 1 => Depth = 2 /\ 2 \in 1 .. Depth /\ Inst(2) \in Ids
         /\ \A n \in 1 .. Depth : Len(Queue(n)) > 0 => n = 1
<1>1. Depth \in Nat /\ Depth > 0 /\ Inst(1) = Root /\ 1 \in 1 .. Depth
  BY DEF Basics, FramesSized
<1>2. ASSUME Depth > 1 PROVE Depth = 2
  <2>1. Depth \in 2 .. Depth /\ Depth - 1 \in 1 .. Depth
    BY <1>1, <1>2
  <2>2. Inst(Depth) \in Ids /\ instances[Inst(Depth)].home = Inst(Depth - 1)
    BY <2>1 DEF Basics, OInv, Placed, Homes
  <2>3. Inst(Depth - 1) = Inst(1)
    BY <1>1, <2>2, FlatHomes
  <2>4. Depth - 1 = 1
    BY <1>1, <2>1, <2>3 DEF Basics
  <2> QED
    BY <1>1, <2>4
<1>3. ASSUME NEW n \in 1 .. Depth, Len(Queue(n)) > 0 PROVE n = 1
  <2>1. 1 \in 1 .. Len(Queue(n))
    BY <1>3 DEF Basics, FramesSized, Sized
  <2>2. Queue(n)[1] \in Ids /\ instances[Queue(n)[1]].home = Inst(n)
    BY <2>1 DEF Basics, OInv, Placed, Homes
  <2>3. Inst(n) = Inst(1)
    BY <1>1, <2>2, FlatHomes
  <2> QED
    BY <1>1, <2>3 DEF Basics
<1>4. Depth > 1 => 2 \in 1 .. Depth /\ 2 \in 2 .. Depth
  BY <1>1
<1> QED
  BY <1>1, <1>2, <1>3, <1>4 DEF Basics

\* The application has called fini.
Over == exiting \/ Calling("fini")

\* Only fini closes a batch that is not open.
Leaves == Open(1) = <<>> => Over

\* fini is the last call.
LEMMA OverStep ==
  ASSUME IInv, OInv, [Next]_vars, Over
  PROVE  Over'
<1>1. StackShape /\ OwnerActs /\ Owner \in Threads /\ Worker \in Threads
  BY DEF IInv, Shape, OInv, Threads
<1>2. CASE UNCHANGED vars
  BY <1>2 DEF vars, wakeVars, Over, Calling
<1>3. ASSUME NEW t \in Threads, InnerMove(t), UNCHANGED exiting PROVE Over'
  <2>1. SameCalls
    BY <1>1, <1>3, InnerKeepsCalls
  <2> QED
    BY <1>3, <2>1 DEF Over, SameCalls, Calls
<1>4. ASSUME NEW t \in Threads, ThreadStep(t) PROVE Over'
  <2>1. InnerMove(t)
    BY <1>4, ThreadInner
  <2>2. UNCHANGED exiting
    <3>1. CASE \/ LoopEnds(t) \/ TakeCommand(t) \/ TakeUndoRedo(t)
               \/ ExecWrite(t) \/ ExecQueue(t) \/ ExecBatch(t) \/ ExecWait(t) \/ Execute(t)
      BY <3>1 DEF LoopEnds, TakeCommand, TakeUndoRedo, ExecWrite, ExecQueue, ExecBatch, ExecWait,
         Execute, wakeVars
    <3>2. CASE \/ SpinProcess(t) \/ PopFrame(t) \/ Rollback(t)
               \/ WaitProcess(t) \/ WaitNext(t) \/ WaitStart(t) \/ Flush(t)
      BY <3>2 DEF SpinProcess, PopFrame, Rollback, WaitProcess, WaitNext, WaitStart, Flush, wakeVars
    <3> QED
      BY <1>4, <3>1, <3>2 DEF ThreadStep
  <2> QED
    BY <1>3, <2>1, <2>2
<1>5. ASSUME NEW c \in Calls, At(Owner, c), c # "fini", UNCHANGED exiting PROVE Over'
  BY <1>1, <1>5, TopCall DEF Over, Calls
<1>6. CASE OwnerStep
  <2>1. CASE UndoCall \/ RedoCall
    BY <1>5, <2>1 DEF UndoCall, RedoCall, MoveCommandIndex, wakeVars, Calls
  <2>2. CASE UndoEntry \/ RedoEntry
    BY <2>2 DEF UndoEntry, RedoEntry, wakeVars, Over, Calling
  <2>3. CASE UndoRedoDone \/ UndoRedoFails
    <3>1. InnerMove(Owner) /\ UNCHANGED exiting
      BY <2>3 DEF UndoRedoDone, UndoRedoFails, InnerMove, Calls, Waiting, At, wakeVars
    <3> QED
      BY <1>1, <1>3, <3>1
  <2>4. CASE MoveDone \/ RemoveCall \/ UpdateDone \/ FiniJoin
    BY <1>5, <2>4 DEF MoveDone, RemoveCall, UpdateDone, FiniJoin, CallVars, wakeVars, Calls
  <2>5. CASE FiniExit
    BY <2>5 DEF FiniExit, Over
  <2> QED
    BY <1>1, <1>4, <1>6, <2>1, <2>2, <2>3, <2>4, <2>5 DEF OwnerStep
<1>7. CASE WorkerStep
  <2>1. CASE WorkerTurn \/ WorkerWoken
    <3>1. (UNCHANGED stack \/ Push(Worker, <<Act("loop", Root)>>)) /\ UNCHANGED exiting
      BY <2>1 DEF WorkerTurn, WorkerWoken
    <3>2. stack = [t \in Threads |-> stack[t]] /\ Worker # Owner
      BY <1>1, ConstantsAssumption DEF StackShape
    <3>3. stack'[Owner] = stack[Owner]
      BY <1>1, <3>1, <3>2 DEF Push
    <3> QED
      BY <3>1, <3>3 DEF Over, Calling
  <2> QED
    BY <1>1, <1>4, <1>7, <2>1 DEF WorkerStep
<1>8. CASE AppStep
  <2>1. Idle
    BY <1>8 DEF AppStep, AppQueue, AppBatch, AppWait, AppUndo, AppRedo, AppMove, AppRemove, AppFlush,
       AppUpdate, AppFini, MayMove
  <2>2. ~Calling("fini")
    BY <2>1 DEF Idle, Calling
  <2> QED
    BY <2>1, <2>2 DEF Idle, Over
<1> QED
  BY <1>2, <1>6, <1>7, <1>8 DEF Next

\* The stack queue of the root frame changes with a begin, an end or an abort.
LEMMA RootOpen ==
  ASSUME Basics, StepKind
  PROVE  \/ Open(1)' = Open(1)
         \/ \E kind \in {"begin", "end", "abort"} : \E class, target : Queueing(1, kind, class, target)
<1>1. 1 \in 1 .. Depth /\ Depth \in Nat
  BY DEF Basics, FramesSized
<1>2. FramesKept => Open(1)' = Open(1)
  BY <1>1 DEF FramesKept
<1>3. ASSUME NEW k, NEW kind, NEW class, NEW target, Queueing(k, kind, class, target)
      PROVE  Open(1)' = Open(1) \/ (k = 1 /\ kind \in {"begin", "end", "abort"})
  BY <1>1, <1>3 DEF Queueing, Enqueued, StackQueueAfter
<1>4. ASSUME NEW L, NEW i, Dequeued(L, i) PROVE Open(1)' = Open(1)
  BY <1>1, <1>4 DEF Dequeued
<1>5. ASSUME NEW L, NEW closes, Popped(L, closes) PROVE Open(1)' = Open(1)
  <2>1. 1 \in 1 .. L - 1
    BY <1>1, <1>5 DEF Popped
  <2> QED
    BY <1>5, <2>1 DEF Popped
<1> QED
  BY <1>2, <1>3, <1>4, <1>5 DEF StepKind, Neutral, Taking, Taken, Starting, Popping, Finishing

\* Who closes or opens a batch, and what is open then.
LEMMA FlatQueuer ==
  ASSUME Flat, IInv, OInv, [Next]_vars, Leaves,
         NEW kind \in {"begin", "end", "abort"}, NEW class, NEW target,
         Queueing(1, kind, class, target)
  PROVE  /\ kind = "begin" => Len(Open(1)) = 1 /\ Len(Open(1)') = 2
         /\ Open(1)' = <<>> => Over'
<1>1. Basics /\ 1 \in 1 .. Depth /\ Count \in Nat
  BY BasicsHold DEF Basics, FramesSized
<1>2. PICK open \in Seq(Nat) : open = Open(1)
  <2>1. commandFrames[1] \in FrameRecord
    BY <1>1 DEF IInv, Shape, Depth
  <2> QED
    BY <2>1 DEF FrameRecord, Open
<1>0. /\ open \in Seq(Nat) /\ Len(open) \in Nat /\ (open = <<>> <=> Len(open) = 0)
      /\ \A x \in Nat : Len(Append(open, x)) = Len(open) + 1
  BY <1>2, EmptySeq, AppendProperties
<1>3. Open(1)' = StackQueueAfter(open, kind, Count + 1)
  BY <1>1, <1>2 DEF Queueing, Enqueued
<1>4. \/ AppFini /\ kind = "abort"
      \/ /\ AppBatch
         /\ IF kind = "begin" THEN OpenGroup => "nestedBatch" \in Ops ELSE Len(open) > 1
  BY <1>2, RootQueuer
<1>5. CASE kind = "begin"
  <2>1. Idle /\ ~(Len(open) > 1)
    BY <1>2, <1>4, <1>5 DEF Flat, OpenGroup, Open, AppBatch
  <2>2. open # <<>>
    BY <1>2, <2>1 DEF Leaves, Over, Idle, Calling
  <2>3. Len(open) = 1
    <3>1. PICK n \in Nat : n = Len(open)
      BY <1>0
    <3> QED
      BY <1>0, <2>1, <2>2, <3>1
  <2>4. Open(1)' = Append(open, Count + 1)
    BY <1>3, <1>5 DEF StackQueueAfter
  <2>5. Len(Append(open, Count + 1)) = 2 /\ Append(open, Count + 1) # <<>>
    <3>1. PICK x \in Nat : x = Count + 1
      BY <1>1
    <3>2. Len(Append(open, x)) = 2
      BY <1>0, <2>3, <3>1
    <3>3. Append(open, x) # <<>>
      BY <3>2
    <3> QED
      BY <3>1, <3>2, <3>3
  <2> QED
    BY <1>2, <1>5, <2>3, <2>4, <2>5
<1>6. CASE AppFini
  <2>1. StackShape /\ Owner \in Threads /\ stack[Owner] = <<>> /\ Len(stack[Owner]) = 0
    BY <1>6 DEF AppFini, Idle, IInv, Shape, Threads
  <2>2. PICK acts : acts = <<Act("fini", Root)>> \o <<Act("loop", Root)>>
    OBVIOUS
  <2>3. Listed(acts) /\ Len(acts) = 2 /\ acts[1] = Act("fini", Root)
    <3>1. PICK a, b : a = <<Act("fini", Root)>> /\ b = <<Act("loop", Root)>>
      OBVIOUS
    <3>2. Listed(a) /\ Listed(b) /\ Len(a) = 1 /\ Len(b) = 1 /\ a[1] = Act("fini", Root)
      BY <3>1, TuplesListed
    <3>3. Listed(a \o b) /\ Len(a \o b) = 1 + 1 /\ (a \o b)[1] = a[1]
      <4>1. /\ Listed(a \o b) /\ Len(a \o b) = Len(a) + Len(b)
            /\ \A k \in 1 .. Len(a) : (a \o b)[k] = a[k]
        BY <3>2, ListedConcat
      <4>2. 1 \in 1 .. Len(a)
        BY <3>2
      <4> QED
        BY <3>2, <4>1, <4>2
    <3> QED
      BY <2>2, <3>1, <3>2, <3>3
  <2>4. Push(Owner, acts)
    BY <1>6, <2>2 DEF AppFini, QueueCommand
  <2>5. Above(Owner, 0, acts)
    BY <2>1, <2>3, <2>4, PushAbove
  <2>6. stack'[Owner][0 + 1] = acts[1] /\ DOMAIN stack'[Owner] = 1 .. 0 + 2
    BY <2>3, <2>5 DEF Above
  <2>7. Over'
    BY <2>3, <2>6 DEF Over, Calling, Act
  <2> QED
    BY <1>4, <1>6, <1>5, <2>7
<1>7. CASE ~AppFini /\ kind # "begin"
  <2>1. Len(open) > 1 /\ open # <<>>
    BY <1>0, <1>4, <1>7
  <2>2. Open(1)' = Front(open)
    BY <1>3, <1>7, <2>1 DEF StackQueueAfter
  <2>3. Len(Front(open)) = Len(open) - 1
    BY <1>0, <2>1, SequenceEmptyOrAppend DEF Front
  <2>4. Front(open) # <<>>
    BY <1>0, <2>1, <2>3
  <2> QED
    BY <1>7, <2>2, <2>4
<1> QED
  BY <1>5, <1>6, <1>7

\* Steps keep Leaves.
LEMMA LeavesStep ==
  ASSUME Flat, IInv, OInv, Basics, StepKind, [Next]_vars, Leaves
  PROVE  Leaves'
<1>1. CASE Open(1)' = Open(1)
  BY <1>1, OverStep DEF Leaves
<1>2. CASE \E kind \in {"begin", "end", "abort"} : \E class, target : Queueing(1, kind, class, target)
  BY <1>2, FlatQueuer DEF Leaves
<1> QED
  BY <1>1, <1>2, RootOpen

\* Where a batch is open, or begins, on the root frame: before its queue, in it, and where a
\* begin may be queued next.
Opens(a) ==
  \/ a = 0 /\ Standing(1) > 1
  \/ a \in 1 .. Len(Queue(1)) /\ instances[Queue(1)[a]].kind = "begin"
  \/ a = Len(Queue(1)) + 1 /\ Len(Open(1)) <= 1

\* Between two of these places a batch is closed; so one is never begun in another.
Apart == \A a, b \in 0 .. Len(Queue(1)) + 1 :
  a < b /\ Opens(a) /\ Opens(b) => \E c \in a + 1 .. b - 1 : Closing(Queue(1)[c])
Alternates == Len(Groups(1)) <= 2 /\ Apart

\* The queue of the root frame.
LEMMA RootQueue ==
  ASSUME Basics
  PROVE  /\ 1 \in 1 .. Depth /\ Len(Queue(1)) \in Nat
         /\ \A a \in 1 .. Len(Queue(1)) : Queue(1)[a] \in Ids
BY DEF Basics, FramesSized, Sized

\* The queue stays.
LEMMA ApartFewer ==
  ASSUME Basics, Kept, Apart, Queue(1)' = Queue(1), Open(1)' = Open(1),
         Standing(1)' > 1 => Standing(1) > 1
  PROVE  Apart'
<1>1. /\ Len(Queue(1)) \in Nat
      /\ \A a \in 1 .. Len(Queue(1)) : /\ Queue(1)[a] \in Ids
                                       /\ instances'[Queue(1)[a]].kind = instances[Queue(1)[a]].kind
  BY RootQueue DEF Kept, SameKind
<1>2. \A a : Opens(a)' => Opens(a)
  BY <1>1 DEF Opens
<1>3. \A a \in 1 .. Len(Queue(1)) : Closing(Queue(1)[a]) => Closing(Queue(1)[a])'
  BY <1>1 DEF Closing
<1> SUFFICES ASSUME NEW a \in 0 .. Len(Queue(1)) + 1, NEW b \in 0 .. Len(Queue(1)) + 1,
                    a < b, Opens(a), Opens(b)
             PROVE  \E c \in a + 1 .. b - 1 : Closing(Queue(1)[c])'
  BY <1>2 DEF Apart
<1>4. PICK c \in a + 1 .. b - 1 : Closing(Queue(1)[c])
  BY DEF Apart
<1>5. c \in 1 .. Len(Queue(1))
  BY <1>1
<1> QED
  BY <1>3, <1>4, <1>5 DEF Closing

\* The first command leaves the queue.
LEMMA ApartShifted ==
  ASSUME Basics, Kept, Apart, Len(Queue(1)) > 0, Shifted(Queue(1)', Queue(1)), Open(1)' = Open(1),
         Standing(1)' > 1 => \/ instances[Queue(1)[1]].kind = "begin"
                             \/ Standing(1) > 1 /\ ~Closing(Queue(1)[1])
  PROVE  Apart'
<1>1. PICK n \in Nat : n = Len(Queue(1)) /\ n > 0
  BY RootQueue
<1>2. /\ \A a \in 1 .. n : /\ Queue(1)[a] \in Ids
                           /\ instances'[Queue(1)[a]].kind = instances[Queue(1)[a]].kind
      /\ Len(Queue(1)') = n - 1 /\ \A a \in 1 .. n - 1 : Queue(1)'[a] = Queue(1)[a + 1]
  BY <1>1, RootQueue DEF Kept, SameKind, Shifted
<1>3. ASSUME NEW a \in 1 .. n, Opens(a)' PROVE Opens(a + 1)
  <2>1. CASE a \in 1 .. n - 1 /\ instances'[Queue(1)'[a]].kind = "begin"
    <3>1. a + 1 \in 1 .. n
      BY <1>1, <2>1
    <3> QED
      BY <1>1, <1>2, <2>1, <3>1 DEF Opens
  <2>2. CASE a = n /\ Len(Open(1)) <= 1
    BY <1>1, <2>2 DEF Opens
  <2> QED
    BY <1>2, <1>3, <2>1, <2>2 DEF Opens
<1>4. ASSUME NEW a \in 0 .. n, NEW b \in 0 .. n, a < b, Opens(a)', Opens(b)'
      PROVE  \E c \in a + 1 .. b - 1 : Closing(Queue(1)[c])'
  <2>1. ASSUME NEW c \in a + 2 .. b, Closing(Queue(1)[c])
        PROVE  \E d \in a + 1 .. b - 1 : Closing(Queue(1)[d])'
    <3>1. c - 1 \in a + 1 .. b - 1 /\ c - 1 \in 1 .. n - 1 /\ (c - 1) + 1 = c /\ c \in 1 .. n
      OBVIOUS
    <3>2. Queue(1)'[c - 1] = Queue(1)[c]
      BY <1>2, <3>1
    <3>3. Closing(Queue(1)[c - 1])'
      BY <1>2, <2>1, <3>1, <3>2 DEF Closing
    <3> QED
      BY <3>1, <3>3
  <2>2. b \in 1 .. n /\ b + 1 \in 0 .. n + 1 /\ Opens(b + 1)
    BY <1>3, <1>4
  <2>3. CASE a > 0 \/ instances[Queue(1)[1]].kind = "begin"
    <3>1. Opens(a + 1) /\ a + 1 \in 0 .. n + 1 /\ a + 1 < b + 1
      <4>1. CASE a > 0
        BY <1>3, <1>4, <4>1
      <4>2. CASE a = 0 /\ instances[Queue(1)[1]].kind = "begin"
        BY <1>1, <1>4, <4>2 DEF Opens
      <4> QED
        BY <2>3, <4>1, <4>2
    <3>2. PICK c \in (a + 1) + 1 .. (b + 1) - 1 : Closing(Queue(1)[c])
      BY <1>1, <2>2, <3>1 DEF Apart
    <3> QED
      BY <2>1, <3>2
  <2>4. CASE a = 0 /\ instances[Queue(1)[1]].kind # "begin"
    <3>1. Standing(1)' > 1
      BY <1>2, <1>4, <2>4 DEF Opens
    <3>2. Opens(0) /\ ~Closing(Queue(1)[1]) /\ 0 \in 0 .. n + 1 /\ 0 < b + 1
      BY <1>1, <2>4, <3>1 DEF Opens
    <3>3. PICK c \in 0 + 1 .. (b + 1) - 1 : Closing(Queue(1)[c])
      BY <1>1, <2>2, <3>2 DEF Apart
    <3>4. c \in a + 2 .. b
      BY <2>4, <3>2, <3>3
    <3> QED
      BY <2>1, <3>3, <3>4
  <2> QED
    BY <2>3, <2>4
<1>5. Len(Queue(1)') + 1 = n
  BY <1>2
<1> QED
  BY <1>4, <1>5 DEF Apart

\* A command joins the queue.
LEMMA ApartExtended ==
  ASSUME Basics, Kept, Apart, NEW i, Extended(Queue(1)', Queue(1), i),
         Standing(1)' > 1 => Standing(1) > 1,
         \/ instances'[i].kind = "begin" /\ Len(Open(1)) <= 1 /\ ~(Len(Open(1)') <= 1)
         \/ Closing(i)'
         \/ instances'[i].kind # "begin" /\ Open(1)' = Open(1)
  PROVE  Apart'
<1>1. PICK n \in Nat : n = Len(Queue(1))
  BY RootQueue
<1>2. /\ \A a \in 1 .. n : /\ Queue(1)[a] \in Ids
                           /\ instances'[Queue(1)[a]].kind = instances[Queue(1)[a]].kind
                           /\ Queue(1)'[a] = Queue(1)[a]
      /\ Len(Queue(1)') = n + 1 /\ Queue(1)'[n + 1] = i
  BY <1>1, RootQueue DEF Kept, SameKind, Extended
<1>3. \A a \in 0 .. n : Opens(a)' => Opens(a)
  <2>1. \A a \in 0 .. n : a # n + 1 /\ a # (n + 1) + 1 /\ (a # 0 => a \in 1 .. n)
    OBVIOUS
  <2> QED
    BY <1>1, <1>2, <2>1 DEF Opens
<1>4. \A a \in 1 .. n : Closing(Queue(1)[a]) => Closing(Queue(1)[a])'
  BY <1>2 DEF Closing
<1>5. ASSUME NEW a \in 0 .. n + 2, NEW b \in 0 .. n + 2, a < b, Opens(a)', Opens(b)'
      PROVE  \E c \in a + 1 .. b - 1 : Closing(Queue(1)[c])'
  <2>0. a \in 0 .. n + 1 /\ (b \in 0 .. n \/ b = n + 1 \/ b = n + 2)
    BY <1>5
  <2>1. ASSUME NEW c \in a + 1 .. n, Closing(Queue(1)[c]), c < b
        PROVE  \E d \in a + 1 .. b - 1 : Closing(Queue(1)[d])'
    <3>1. c \in 1 .. n /\ c \in a + 1 .. b - 1
      BY <1>1, <1>5, <2>1
    <3> QED
      BY <1>4, <2>1, <3>1
  <2>2. CASE b \in 0 .. n
    <3>1. a \in 0 .. n + 1 /\ b \in 0 .. n + 1 /\ a \in 0 .. n
      BY <1>1, <1>5, <2>2
    <3>2. PICK c \in a + 1 .. b - 1 : Closing(Queue(1)[c])
      BY <1>1, <1>3, <1>5, <2>2, <3>1 DEF Apart
    <3>3. c \in a + 1 .. n /\ c < b
      BY <1>1, <2>2, <3>1, <3>2
    <3> QED
      BY <2>1, <3>2, <3>3
  <2>3. ASSUME a \in 0 .. n, Opens(n + 1), b > n
        PROVE  \E c \in a + 1 .. b - 1 : Closing(Queue(1)[c])'
    <3>1. a \in 0 .. n + 1 /\ n + 1 \in 0 .. n + 1 /\ a < n + 1
      BY <1>1, <2>3
    <3>2. PICK c \in a + 1 .. (n + 1) - 1 : Closing(Queue(1)[c])
      BY <1>1, <1>3, <1>5, <2>3, <3>1 DEF Apart
    <3>3. c \in a + 1 .. n /\ c < b
      BY <1>1, <2>3, <3>1, <3>2
    <3> QED
      BY <2>1, <3>2, <3>3
  <2>4. CASE b = n + 1
    <3>1. a \in 0 .. n /\ b > n
      BY <1>1, <1>5, <2>4
    <3>2. instances'[i].kind = "begin"
      <4>1. n + 1 # 0 /\ n + 1 # (n + 1) + 1
        BY <1>1
      <4> QED
        BY <1>2, <1>5, <2>4, <4>1 DEF Opens
    <3>3. Opens(n + 1)
      BY <1>1, <3>2 DEF Opens, Closing
    <3> QED
      BY <2>3, <3>1, <3>3
  <2>5. CASE b = n + 2
    <3>1. Len(Open(1)') <= 1
      <4>1. n + 2 # 0 /\ n + 2 \notin 1 .. n + 1
        BY <1>1
      <4> QED
        BY <1>2, <1>5, <2>5, <4>1 DEF Opens
    <3>2. CASE a = n + 1
      <4>1. n + 1 # 0 /\ n + 1 # (n + 1) + 1
        BY <1>1
      <4>2. instances'[i].kind = "begin"
        BY <1>2, <1>5, <3>2, <4>1 DEF Opens
      <4> QED
        BY <3>1, <4>2 DEF Closing
    <3>3. CASE a # n + 1 /\ Closing(i)'
      <4>1. n + 1 \in a + 1 .. b - 1
        BY <1>1, <1>5, <2>5, <3>3
      <4> QED
        BY <1>2, <3>3, <4>1 DEF Closing
    <3>4. CASE a # n + 1 /\ Open(1)' = Open(1)
      <4>1. a \in 0 .. n /\ b > n
        BY <1>1, <1>5, <2>5, <3>4
      <4>2. Opens(n + 1)
        BY <1>1, <3>1, <3>4 DEF Opens
      <4> QED
        BY <2>3, <4>1, <4>2
    <3> QED
      BY <3>1, <3>2, <3>3, <3>4
  <2> QED
    BY <2>0, <2>2, <2>4, <2>5
<1>6. Len(Queue(1)') + 1 = n + 2
  BY <1>1, <1>2
<1> QED
  BY <1>5, <1>6 DEF Apart

\* Who comes is queued on the root frame.
LEMMA FlatQueued ==
  ASSUME Flat, Kinds, HomesCompound, Basics, Basics', EffectKind,
         NEW k, NEW kind, NEW class, NEW target, Queueing(k, kind, class, target)
  PROVE  k = 1
<1>1. /\ k \in 1 .. Depth /\ Count' = Count + 1 /\ Count \in Nat
      /\ instances'[Count + 1] = MakeCommand(kind, class, target, Inst(k))
  BY DEF Queueing, Enqueued
<1>2. Count + 1 \in Ids' /\ Count + 1 \notin Ids
  BY <1>1 DEF Basics
<1>3. Aside
  BY <1>2, EffectIds DEF Bystanding
<1>4. instances'[Count + 1].home = Root
  BY <1>2, <1>3, FlatHomes DEF Aside, Compound, Flat, Kinds, Known
<1>5. Inst(k) = Inst(1) /\ 1 \in 1 .. Depth
  BY <1>1, <1>4 DEF MakeCommand, Basics, FramesSized
<1> QED
  BY <1>1, <1>5 DEF Basics

\* Batches are begun when none stands.
LEMMA FlatBegins ==
  ASSUME Flat, Kinds, HomesCompound, Basics, OInv, Alternates, NEW L, NEW i, Taken(L, i)
  PROVE  /\ L = 1 /\ Depth = 1 /\ i = Queue(1)[1] /\ Len(Queue(1)) > 0
         /\ Depth' = 2 /\ Inst(2)' = i
         /\ instances[i].kind = "begin" => Len(Groups(1)) = 1
<1>1. /\ L = Depth /\ Len(Queue(L)) > 0 /\ i = Queue(L)[1] /\ Depth' = L + 1 /\ Inst(L + 1)' = i
  BY DEF Taken, Dequeued
<1>2. L \in 1 .. Depth /\ Depth \in Nat
  BY <1>1 DEF Basics, FramesSized
<1>3. L = 1
  BY <1>1, <1>2, FlatFrames
<1>4. ASSUME instances[i].kind = "begin" PROVE Len(Groups(1)) = 1
  <2>1. PICK n \in Nat : n = Len(Queue(1)) /\ n > 0
    BY <1>1, <1>3, RootQueue
  <2>2. Opens(1) /\ 0 \in 0 .. n + 1 /\ 1 \in 0 .. n + 1 /\ 0 + 1 .. 1 - 1 = {}
    BY <1>1, <1>3, <1>4, <2>1 DEF Opens
  <2>3. ~Opens(0)
    BY <2>1, <2>2 DEF Alternates, Apart
  <2>4. Standing(1) = Len(Groups(1))
    BY <1>1, <1>3 DEF Standing
  <2>5. Len(Groups(1)) > 0 /\ Len(Groups(1)) \in Nat
    BY <1>1, <1>2, <1>3 DEF OInv, Placed, Grouped, Basics, FramesSized, Sized
  <2>6. ~(Len(Groups(1)) > 1)
    BY <2>3, <2>4 DEF Opens
  <2>7. \A m \in Nat : m > 0 /\ ~(m > 1) => m = 1
    OBVIOUS
  <2> QED
    BY <2>5, <2>6, <2>7
<1> QED
  BY <1>1, <1>3, <1>4

\* Steps keep Alternates.
LEMMA AlternatesStep ==
  ASSUME Flat, Kinds, HomesCompound, IInv, OInv, Basics, Basics', Kept, EffectKind, StepKind,
         [Next]_vars, Leaves, Alternates
  PROVE  Alternates'
<1>1. /\ 1 \in 1 .. Depth /\ Depth \in Nat /\ Depth \in {1, 2} /\ Len(Groups(1)) \in Nat
      /\ Len(Groups(1)) > 0 /\ 1 + 1 = 2 /\ (1 < Depth => 2 \in 1 .. Depth /\ Inst(2) \in Ids)
      /\ Len(Groups(1)) <= 2 /\ Apart
  BY FlatFrames DEF Basics, FramesSized, Sized, Alternates, OInv, Placed, Grouped
<1>2. \A j \in Ids : instances'[j].kind = instances[j].kind
  BY DEF Kept, SameKind
<1>3. ASSUME Depth' = Depth, Groups(1)' = Groups(1), 1 < Depth => Inst(2)' = Inst(2)
      PROVE  Standing(1)' = Standing(1) /\ Len(Groups(1)') <= 2
  BY <1>1, <1>2, <1>3 DEF Standing, Closing
<1>4. ASSUME FramesKept PROVE Alternates'
  <2>1. Standing(1)' = Standing(1) /\ Len(Groups(1)') <= 2
    BY <1>1, <1>3, <1>4 DEF FramesKept
  <2> QED
    BY <1>1, <1>4, <2>1, ApartFewer DEF FramesKept, Alternates
<1>5. ASSUME NEW k, NEW kind, NEW class, NEW target, Queueing(k, kind, class, target)
      PROVE  Alternates'
  <2>1. k = 1
    BY <1>5, FlatQueued
  <2>2. /\ Depth' = Depth /\ \A n \in 1 .. Depth : Inst(n)' = Inst(n) /\ Groups(n)' = Groups(n)
        /\ Extended(Queue(1)', Queue(1), Count + 1)
        /\ Open(1)' = StackQueueAfter(Open(1), kind, Count + 1)
        /\ instances'[Count + 1].kind = kind
    BY <1>5, <2>1 DEF Queueing, Enqueued, MakeCommand
  <2>3. Standing(1)' = Standing(1) /\ Len(Groups(1)') <= 2
    BY <1>1, <1>3, <2>2
  <2>4. \/ kind = "begin" /\ Len(Open(1)) <= 1 /\ ~(Len(Open(1)') <= 1)
        \/ kind \in {"end", "abort"}
        \/ kind # "begin" /\ Open(1)' = Open(1)
    <3>1. CASE kind = "begin"
      <4>1. Len(Open(1)) = 1 /\ Len(Open(1)') = 2
        BY <1>5, <2>1, <3>1, FlatQueuer
      <4> QED
        BY <3>1, <4>1
    <3>2. CASE kind \notin {"begin", "end", "abort"}
      BY <2>2, <3>2 DEF StackQueueAfter
    <3> QED
      BY <3>1, <3>2
  <2>5. Apart'
    BY <1>1, <2>2, <2>3, <2>4, ApartExtended DEF Closing
  <2> QED
    BY <2>3, <2>5 DEF Alternates
<1>6. ASSUME NEW L, NEW i, Taking(L, i) PROVE Alternates'
  <2>1. Taken(L, i) /\ i \in Ids
    BY <1>6 DEF Taking
  <2>2. /\ L = 1 /\ Depth = 1 /\ i = Queue(1)[1] /\ Len(Queue(1)) > 0
        /\ Depth' = 2 /\ Inst(2)' = i /\ (instances[i].kind = "begin" => Len(Groups(1)) = 1)
    BY <2>1, FlatBegins
  <2>3. /\ Open(1)' = Open(1) /\ Shifted(Queue(1)', Queue(1))
        /\ IF instances[i].kind = "begin" THEN Extended(Groups(1)', Groups(1), i)
                                          ELSE Groups(1)' = Groups(1)
    BY <1>1, <2>1, <2>2 DEF Taken, Dequeued
  <2>4. Len(Groups(1)') <= 2
    BY <1>1, <2>2, <2>3 DEF Extended
  <2>5. Standing(1) = Len(Groups(1))
    BY <2>2 DEF Standing
  <2>6. Standing(1)' = IF Closing(i) THEN Len(Groups(1)') - 1 ELSE Len(Groups(1)')
    BY <1>2, <2>1, <2>2 DEF Standing, Closing
  <2>7. Standing(1)' > 1 => instances[i].kind = "begin" \/ (Standing(1) > 1 /\ ~Closing(i))
    BY <1>1, <2>3, <2>4, <2>5, <2>6
  <2>8. Apart'
    BY <1>1, <2>2, <2>3, <2>7, ApartShifted
  <2> QED
    BY <2>4, <2>8 DEF Alternates
<1>7. ASSUME NEW t, NEW k, NEW L, NEW i, Starting(t, k, L, i) PROVE Alternates'
  <2>1. L = 1 /\ Open(1)' = Open(1)
    BY <1>7, DeepStarted
  <2>2. /\ Depth = 1 /\ Depth' = 1 /\ Groups(1)' = Groups(1) /\ Len(Queue(1)) > 0
        /\ Shifted(Queue(1)', Queue(1)) /\ instances[Queue(1)[1]].kind = "undoRedo"
    BY <1>7, <2>1 DEF Starting, Dequeued
  <2>3. Standing(1)' = Standing(1) /\ Len(Groups(1)') <= 2
    BY <1>1, <1>3, <2>2
  <2>4. Apart'
    BY <1>1, <2>1, <2>2, <2>3, ApartShifted DEF Closing
  <2> QED
    BY <2>3, <2>4 DEF Alternates
<1>8. ASSUME NEW L, NEW closes, NEW done, Popping(L, closes, done) PROVE Alternates'
  <2>1. /\ L = Depth /\ L > 1 /\ Depth' = L - 1 /\ Leaving(L, closes, done)
        /\ \A n \in 1 .. L - 1 : /\ Inst(n)' = Inst(n) /\ Open(n)' = Open(n) /\ Queue(n)' = Queue(n)
                                 /\ n # L - 1 => Groups(n)' = Groups(n)
        /\ IF closes THEN Shortened(Groups(L - 1)', Groups(L - 1))
                     ELSE Groups(L - 1)' = Groups(L - 1)
        /\ closes <=> Closing(Inst(L)) /\ Last(Groups(L - 1)) # Root
    BY <1>8, PopLeaves DEF Popping, Popped
  <2>2. L = 2 /\ L - 1 = 1 /\ 1 \in 1 .. L - 1
    BY <1>1, <2>1
  <2>3. /\ Depth' = 1 /\ Open(1)' = Open(1) /\ Queue(1)' = Queue(1)
        /\ IF closes THEN Shortened(Groups(1)', Groups(1)) ELSE Groups(1)' = Groups(1)
    BY <2>1, <2>2
  <2>4. Len(Groups(1)') <= 2
    BY <1>1, <2>3 DEF Shortened
  <2>5. Standing(1)' = Len(Groups(1)')
    BY <2>3 DEF Standing
  <2>6. Standing(1) = IF Closing(Inst(2)) THEN Len(Groups(1)) - 1 ELSE Len(Groups(1))
    BY <2>1, <2>2 DEF Standing
  <2>7. Standing(1)' > 1 => Standing(1) > 1
    <3>1. CASE closes
      BY <1>1, <2>1, <2>2, <2>3, <2>5, <2>6, <3>1 DEF Shortened
    <3>2. CASE ~Closing(Inst(2))
      BY <1>1, <2>1, <2>2, <2>3, <2>5, <2>6, <3>2
    <3>3. CASE ~closes /\ Closing(Inst(2))
      <4>1. Last(Groups(1)) = Root
        BY <2>1, <2>2, <3>3
      <4>2. Len(Groups(1)) = 1
        <5>1. ASSUME Len(Groups(1)) = 2 PROVE FALSE
          <6>1. 2 \in 2 .. Len(Groups(1))
            BY <5>1
          <6>2. Groups(1)[2] \in Ids
            BY <1>1, <6>1 DEF OInv, Placed, Grouped
          <6> QED
            BY <4>1, <5>1, <6>2 DEF Last, Basics, Root
        <5>2. \A m \in Nat : m > 0 /\ m <= 2 /\ m # 2 => m = 1
          OBVIOUS
        <5> QED
          BY <1>1, <5>1, <5>2
      <4>3. Groups(1)' = Groups(1)
        BY <2>3, <3>3
      <4>4. Standing(1)' = 1
        BY <2>5, <4>2, <4>3
      <4> QED
        BY <4>4
    <3> QED
      BY <3>1, <3>2, <3>3
  <2>8. Apart'
    BY <1>1, <2>3, <2>7, ApartFewer
  <2> QED
    BY <2>4, <2>8 DEF Alternates
<1> QED
  BY <1>4, <1>5, <1>6, <1>7, <1>8 DEF StepKind, Neutral, Finishing

-----------------------------------------------------------------------------
(* Who wrote what *)

Within(v, b) == \E k \in DOMAIN instances[b].children : instances[b].children[k] = v
Writer(i) == i \in Ids /\ instances[i].kind = "set" /\ instances[i].class.writes

\* A value is the initial one or was written by a command that has recorded the property.
Signed(p, x) == x = 0 \/ (Writer(x) /\ p \in DOMAIN instances[x].own)
Signs == [p \in Props |-> {x \in 0 .. Count : Signed(p, x)}]
AllSigned ==
  /\ DocWithin(Signs, document)
  /\ \A i \in Ids : ListWithin(Signs, instances[i].own) /\ DataWithin(Signs, instances[i].data)

\* Undo data come with the error code, writers do not fail and are not rolled back.
NoneYet == \A i \in Ids :
  instances[i].kind = "set" /\ instances[i].error = "none" => instances[i].data = <<>>
WritersOk == \A i : Writer(i) => instances[i].error \in {"none", "ok"}
Rolls == \A t \in Threads : \A k, i : Does(t, k, "rollback", i) => ~Writer(i)

\* Only batches have children, and these have none.
QueuedAlone == \A i \in Ids : instances[i].status = "Queued" => instances[i].children = <<>>
Flattened == \A b \in Ids : \A v : Within(v, b) =>
  instances[b].kind = "begin" /\ v \in Ids /\ instances[v].kind = "set"

\* What is on the back frame has no children, belongs to the latest batch, and when it has
\* returned its undo data are what it has recorded.
LeafRuns == Depth > 1 =>
  /\ instances[Inst(2)].children = <<>>
  /\ \A b \in Ids : Within(Inst(2), b) => b = Latest(1)
  /\ instances[Inst(2)].kind = "set" /\ instances[Inst(2)].error # "none" =>
       \E m \in BOOLEAN : instances[Inst(2)].data =
         <<[mergeable |-> m, helpers |-> instances[Inst(2)].own]>>

\* A batch has the undo data of what its commands have recorded ...
HandedOver == \A b \in Ids : \A v : Within(v, b) /\ Writer(v) /\ ~(Depth > 1 /\ v = Inst(2)) =>
  DOMAIN instances[v].own \subseteq Written(instances[b].data)

\* ... and neither these nor what it records itself lead back to what one of them wrote.
FromBefore == \A b \in Ids : \A p, k : Earliest(instances[b].data, p, k) =>
  ~Within(instances[b].data[k].helpers[p].pre, b)
OwnBefore == \A i \in Ids : \A p \in DOMAIN instances[i].own :
  instances[i].own[p].pre # i /\ ~Within(instances[i].own[p].pre, i)

EInv == /\ Kinds /\ HomesCompound /\ Pristine /\ Returned /\ Alternates /\ Leaves
        /\ AllSigned /\ NoneYet /\ WritersOk /\ Rolls /\ QueuedAlone /\ Flattened /\ LeafRuns
        /\ HandedOver /\ FromBefore /\ OwnBefore

-----------------------------------------------------------------------------
(* The kinds of steps, and what they write *)

\* Nothing recorded changes.
Steady ==
  /\ FramesSame /\ NoNew("rollback")
  /\ \A j \in Ids : /\ j \in Ids'
                    /\ instances'[j].own = instances[j].own /\ instances'[j].data = instances[j].data
                    /\ instances'[j].error = instances[j].error
                    /\ instances'[j].children = instances[j].children

\* The running command may record something.
Records ==
  /\ FramesSame /\ NoNew("rollback") /\ \E t \in Threads, written \in SUBSET Props : Recording(t, written)

\* What the steps of any kind do to records, undo data, error codes and children.
LEMMA FiveEffects ==
  ASSUME EffectKind, OInv, Documented
  PROVE  \/ Steady \/ Records
         \/ \E L, i : Takes(L, i)
         \/ \E t \in Threads : \E i : ReturnEffect(t, i)
         \/ \E L, closes, done : Pops(L, closes, done)
<1>1. CASE Bystanding
  BY <1>1 DEF Bystanding, Aside, SameDocuments, SameValues, Steady
<1>2. CASE Stepping
  <2>1. UNCHANGED <<stack, commandFrames, instances>>
    BY <1>2 DEF Stepping, UndoEntry, RedoEntry
  <2>2. FramesSame /\ NoNew("rollback")
    BY <2>1, UnchangedFrames, NothingNew
  <2>3. Ids' = Ids
    BY <2>1 DEF Ids
  <2> QED
    BY <2>1, <2>2, <2>3 DEF Steady
<1>3. ASSUME NEW t \in Threads, NEW i, WriteEffect(t, i) PROVE Records
  <2>1. PICK p \in Props : Recording(t, {p})
    BY <1>3 DEF WriteEffect
  <2>2. FramesSame /\ NoNew("rollback") /\ {p} \in SUBSET Props
    BY <1>3, UnchangedFrames, NothingNew DEF WriteEffect
  <2> QED
    BY <2>1, <2>2 DEF Records
<1>4. ASSUME NEW t \in Threads, NEW i, RollbackEffect(t, i) PROVE Records
  <2>1. FramesSame /\ NoNew("rollback") /\ Recording(t, Written(instances[i].data))
    BY <1>4, UnchangedFrames DEF RollbackEffect
  <2>2. i \in Ids
    BY <1>4 DEF RollbackEffect, OInv, Ordered, Statuses, Holding
  <2>3. Written(instances[i].data) \in SUBSET Props
    <3>1. instances[i].data \in Seq(DataEntry(Values))
      BY <2>2 DEF Documented, InstanceDocumented, DataOf
    <3>2. \A k \in DOMAIN instances[i].data : DOMAIN instances[i].data[k].helpers \subseteq Props
      <4>1. ASSUME NEW k \in DOMAIN instances[i].data
            PROVE  DOMAIN instances[i].data[k].helpers \subseteq Props
        <5>1. instances[i].data[k] \in DataEntry(Values)
          BY <3>1, <4>1
        <5>2. PICK l : l = instances[i].data[k].helpers
          OBVIOUS
        <5>3. l \in Lists(Values)
          BY <5>1, <5>2 DEF DataEntry
        <5>4. DOMAIN l \subseteq Props
          BY <5>3 DEF Lists
        <5> QED
          BY <5>2, <5>4
      <4> QED
        BY <4>1
    <3> QED
      BY <3>2 DEF Written
  <2> QED
    BY <2>1, <2>3 DEF Records
<1> QED
  BY <1>1, <1>2, <1>3, <1>4 DEF EffectKind

\* Only the running command records, before it returns.
LEMMA ListeningInner ==
  ASSUME Flat, Kinds, HomesCompound, Basics, IInv, OInv, Returned, NEW t \in Threads
  PROVE  \A j \in Listening(t) : /\ j \in Ids /\ Depth > 1 /\ j = Inst(2)
                                 /\ instances[j].error = "none"
<1> SUFFICES ASSUME NEW j \in Listening(t)
             PROVE  /\ j \in Ids /\ Depth > 1 /\ j = Inst(2) /\ instances[j].error = "none"
  OBVIOUS
<1>1. PICK k \in DOMAIN stack[t] : stack[t][k].at = "exec" /\ stack[t][k].inst = j
  BY DEF Listening
<1>2. Does(t, k, "exec", j)
  BY <1>1 DEF Does
<1>3. j \in Ids /\ \E n \in 2 .. Depth : Inst(n) = j
  BY <1>2, OwnsFrame
<1>4. Depth \in {1, 2} /\ \A n \in 2 .. Depth : n = 2 /\ Depth > 1
  <2>1. Depth \in {1, 2}
    BY FlatFrames
  <2> QED
    BY <2>1
<1> QED
  BY <1>2, <1>3, <1>4 DEF Returned

\* Records keep more and more properties.
LEMMA RecordingGrows ==
  ASSUME Flat, Kinds, HomesCompound, Basics, IInv, OInv, Returned,
         NEW t \in Threads, NEW written, Recording(t, written), NEW j \in Ids
  PROVE  /\ DOMAIN instances[j].own \subseteq DOMAIN instances'[j].own
         /\ instances'[j].own # instances[j].own =>
              Depth > 1 /\ j = Inst(2) /\ instances[j].error = "none" /\ j \in Listening(t)
         /\ \A p \in DOMAIN instances'[j].own :
              \/ p \in DOMAIN instances[j].own /\ instances'[j].own[p].pre = instances[j].own[p].pre
              \/ /\ p \in written /\ p \notin DOMAIN instances[j].own
                 /\ j \in Listening(t) /\ Depth > 1 /\ j = Inst(2)
                 /\ instances'[j].own[p].pre = document[p]
         /\ \A p \in DOMAIN instances'[j].own :
              \/ p \in DOMAIN instances[j].own /\ instances'[j].own[p].post = instances[j].own[p].post
              \/ p \in written /\ instances'[j].own[p].post = document'[p]
<1>1. CASE j \notin Listening(t)
  <2>1. instances'[j].own = instances[j].own
    BY <1>1 DEF Recording
  <2> QED
    BY <2>1
<1>2. CASE j \in Listening(t)
  <2>1. PICK l : l = instances[j].own
    OBVIOUS
  <2>2. PICK m : m = RecordWrites(l, written, document, document')
    OBVIOUS
  <2>3. instances'[j].own = m
    BY <1>2, <2>1, <2>2 DEF Recording
  <2>4. DOMAIN m = DOMAIN l \cup written
    BY <2>2 DEF RecordWrites
  <2>5. ASSUME NEW p \in DOMAIN m
        PROVE  /\ m[p].pre = IF p \in DOMAIN l THEN l[p].pre ELSE document[p]
               /\ m[p].post = IF p \in written THEN document'[p] ELSE l[p].post
    <3>1. CASE p \in written
      <4>1. m[p] = Record(l, p, document[p], document'[p])[p]
        BY <2>2, <2>4, <3>1 DEF RecordWrites
      <4>2. m[p] = [pre |-> IF p \in DOMAIN l THEN l[p].pre ELSE document[p], post |-> document'[p]]
        BY <4>1 DEF Record
      <4> QED
        BY <3>1, <4>2
    <3>2. CASE p \notin written
      <4>1. m[p] = l[p] /\ p \in DOMAIN l
        BY <2>2, <2>4, <3>2 DEF RecordWrites
      <4> QED
        BY <3>2, <4>1
    <3> QED
      BY <3>1, <3>2
  <2>6. Depth > 1 /\ j = Inst(2) /\ instances[j].error = "none"
    BY <1>2, ListeningInner
  <2> QED
    BY <1>2, <2>1, <2>3, <2>4, <2>5, <2>6
<1> QED
  BY <1>1, <1>2

\* The only number, or one of the second to the last.
LEMMA Ends == \A m \in Nat : m > 0 => m = 1 \/ m \in 2 .. m
OBVIOUS

\* A writer can be undone and runs nothing.
LEMMA FlatWriter ==
  ASSUME Flat, Kinds, Basics, NEW i, Writer(i)
  PROVE  /\ i \in Ids /\ instances[i].kind = "set" /\ instances[i].class.canUndo
         /\ ~instances[i].class.fails /\ i # 0
<1>1. instances[i].class \in Classes /\ instances[i].class.writes
  BY DEF Writer, Kinds, Known
<1>2. i \in Ids
  BY DEF Writer
<1>3. i # 0
  BY <1>2 DEF Basics
<1> QED
  BY <1>1, <1>2, <1>3 DEF Writer, Flat

\* Kinds and ids stay, records grow, and so does what is signed.
LEMMA WritersStay ==
  ASSUME Kept
  PROVE  /\ \A i \in Ids : Writer(i)' <=> Writer(i)
         /\ \A i : Writer(i)' => i \in Ids'
BY DEF Kept, SameKind, Writer

\* Taking a command gives it to the batch that stands, if there is one.
LEMMA FlatTakes ==
  ASSUME Flat, Kinds, HomesCompound, Basics, OInv, Alternates, Pristine, QueuedAlone, HInv,
         NEW L, NEW i, Takes(L, i)
  PROVE  /\ L = 1 /\ Depth = 1 /\ Depth' = 2 /\ Inst(2)' = i /\ i \in Ids /\ i # 0 /\ Ids' = Ids
         /\ \A b \in Ids : ~Within(i, b)
         /\ instances[i].children = <<>> /\ instances[i].own = NoHelpers
         /\ instances[i].error = "none"
         /\ \A j \in Ids : /\ instances'[j].own = instances[j].own
                           /\ instances'[j].data = instances[j].data
                           /\ instances'[j].error = instances[j].error
         /\ instances'[i].children = <<>>
         /\ \A b \in Ids : \A v : Within(v, b)' =>
              \/ Within(v, b)
              \/ /\ v = i /\ instances[i].kind = "set" /\ instances[b].kind = "begin"
                 /\ b = Latest(1)'
<1>1. Taken(L, i) /\ i \in Ids /\ SameDocuments /\ Ids' = Ids /\ instances[i].kind # "undoRedo"
  BY DEF Takes, TakeEffect, Taking
<1>2. /\ L = 1 /\ Depth = 1 /\ Depth' = 2 /\ Inst(2)' = i /\ i = Queue(1)[1] /\ Len(Queue(1)) > 0
      /\ instances[i].kind = "begin" => Len(Groups(1)) = 1
  BY <1>1, FlatBegins
<1>3. InQueue(i)
  <2>1. 1 \in 1 .. Len(Queue(1)) /\ 1 \in 1 .. Depth
    BY <1>2, RootQueue
  <2> QED
    BY <1>2, <2>1 DEF InQueue
<1>4. instances[i].status = "Queued"
  BY <1>1, <1>3 DEF OInv, Ordered, Statuses
<1>5. ~Child(i)
  BY <1>4 DEF HInv, Childless
<1>6. \A b \in Ids : ~Within(i, b)
  BY <1>5 DEF Child, Within
<1>7. /\ instances[i].children = <<>> /\ instances[i].own = NoHelpers /\ instances[i].error = "none"
  BY <1>1, <1>4 DEF QueuedAlone, Pristine
<1>8. \A j \in Ids : /\ instances'[j].own = instances[j].own
                     /\ instances'[j].data = instances[j].data
                     /\ instances'[j].error = instances[j].error
  BY <1>1 DEF SameDocuments, SameValues
<1>9. PICK parent : parent = Last(Groups(1))
  OBVIOUS
<1>10. \A j \in Ids : instances'[j].children =
          IF j = parent /\ parent # Root /\ ~Closing(i) THEN Append(instances[j].children, i)
          ELSE instances[j].children
  BY <1>2, <1>9 DEF Takes, TakeEffect
<1>11. /\ Len(Groups(1)) \in Nat /\ Len(Groups(1)) > 0 /\ Groups(1)[1] = Root /\ 1 \in 1 .. Depth
       /\ parent = Latest(1)
       /\ \A k \in 2 .. Len(Groups(1)) : Groups(1)[k] \in Ids /\ instances[Groups(1)[k]].kind = "begin"
  BY <1>9, RootQueue DEF OInv, Placed, Grouped, Basics, FramesSized, Sized, Latest, Last
<1>12. parent # Root => /\ Len(Groups(1)) # 1 /\ parent \in Ids /\ instances[parent].kind = "begin"
  <2>1. Len(Groups(1)) = 1 \/ Len(Groups(1)) \in 2 .. Len(Groups(1))
    BY <1>11, Ends
  <2> QED
    BY <1>11, <2>1 DEF Latest
<1>13. parent # Root => ~InQueue(parent)
  <2>1. ASSUME parent # Root PROVE InGroup(parent)
    <3>1. Len(Groups(1)) \in 2 .. Len(Groups(1))
      BY <1>11, <1>12, <2>1, Ends
    <3> QED
      BY <1>11, <3>1 DEF InGroup, Latest
  <2> QED
    BY <1>12, <2>1 DEF OInv, Ordered, Statuses
<1>14. instances'[i].children = <<>>
  BY <1>1, <1>3, <1>7, <1>10, <1>13
<1>15. ASSUME NEW b \in Ids, NEW v, Within(v, b)', ~Within(v, b)
       PROVE  v = i /\ instances[i].kind = "set" /\ instances[b].kind = "begin" /\ b = Latest(1)'
  <2>1. b = parent /\ parent # Root /\ ~Closing(i) /\ instances'[b].children = Append(instances[b].children, i)
    BY <1>10, <1>15 DEF Within
  <2>2. v = i
    <3>1. PICK s : s = instances[b].children
      OBVIOUS
    <3>2. Listed(s)
      BY <3>1 DEF OInv, Recorded, InstanceRecord
    <3>3. \A k \in DOMAIN Append(s, i) : Append(s, i)[k] = i \/ (k \in DOMAIN s /\ Append(s, i)[k] = s[k])
      BY <3>2 DEF Listed
    <3> QED
      BY <1>15, <2>1, <3>1, <3>3 DEF Within
  <2>3. instances[b].kind = "begin" /\ instances[i].kind # "begin"
    BY <1>2, <1>12, <2>1
  <2>4. instances[i].kind = "set"
    BY <1>1, <2>1, <2>3 DEF Kinds, Known, Closing
  <2>5. Groups(1)' = Groups(1)
    BY <1>1, <1>2, <2>3 DEF Taken
  <2> QED
    BY <1>11, <2>1, <2>2, <2>3, <2>4, <2>5 DEF Latest
<1> QED
  BY <1>1, <1>2, <1>6, <1>7, <1>8, <1>14, <1>15 DEF Basics

\* The end of a command, or of the batch it closes.
LEMMA FlatPops ==
  ASSUME Flat, Kinds, HomesCompound, Basics, OInv, Returned, Alternates, WritersOk,
         NEW L, NEW closes, NEW done, Pops(L, closes, done)
  PROVE  /\ L = 2 /\ Depth > 1 /\ Depth' = 1 /\ Inst(2) \in Ids /\ done \in Ids /\ Ids' = Ids
         /\ instances[Inst(2)].error # "none"
         /\ closes => instances[done].kind = "begin" /\ Last(Groups(1)') = Root
         /\ ~closes => done = Inst(2) /\ Last(Groups(1)') = Latest(1)
         /\ HandedUp(Inst(2), done, Last(Groups(1)')) =>
              /\ ~closes /\ instances[done].kind = "set" /\ Latest(1) \in Ids /\ Latest(1) # done
              /\ instances[Latest(1)].kind = "begin"
         /\ Writer(done) => ~closes /\ SucceedsNow(done) /\ instances[done].class.canUndo
<1>1. /\ PopEffect(L, closes, done) /\ Popping(L, closes, done) /\ Leaving(L, closes, done)
      /\ Popped(L, closes)
  BY PopLeaves DEF Pops, Popping
<1>2. L = 2 /\ L - 1 = 1 /\ Depth > 1 /\ Depth' = 1 /\ Inst(2) \in Ids
  <2>1. L = Depth /\ L > 1 /\ Depth' = L - 1
    BY <1>1 DEF Popped
  <2>2. Depth > 1 => Depth = 2 /\ Inst(2) \in Ids
    BY FlatFrames
  <2> QED
    BY <2>1, <2>2
<1>3. done \in Ids /\ Ids' = Ids /\ closes \in BOOLEAN
  BY <1>1 DEF PopEffect
<1>4. instances[Inst(2)].error # "none"
  BY <1>1, <1>2 DEF PopEffect, Returned
<1>5. /\ Len(Groups(1)) \in Nat /\ Len(Groups(1)) > 0 /\ Len(Groups(1)) <= 2 /\ Groups(1)[1] = Root
      /\ \A k \in 2 .. Len(Groups(1)) : /\ Groups(1)[k] \in Ids
                                        /\ instances[Groups(1)[k]].kind = "begin"
                                        /\ \A m \in 1 .. Depth : Inst(m) = Groups(1)[k] => m = 1 + 1 /\ k = Len(Groups(1))
  BY RootQueue DEF OInv, Placed, Grouped, Basics, FramesSized, Sized, Alternates
<1>6. ASSUME closes PROVE instances[done].kind = "begin" /\ Last(Groups(1)') = Root
  <2>1. instances[done].kind = "begin" /\ Len(Groups(1)) > 1
    BY <1>1, <1>2, <1>6 DEF Leaving
  <2>2. Shortened(Groups(1)', Groups(1))
    BY <1>1, <1>2, <1>6 DEF Popped
  <2>3. Len(Groups(1)') = 1 /\ Groups(1)'[1] = Groups(1)[1]
    <3>1. \A m \in Nat : m > 1 /\ m <= 2 => m = 2 /\ m - 1 = 1 /\ 1 \in 1 .. m - 1
      OBVIOUS
    <3>2. Len(Groups(1)) - 1 = 1 /\ 1 \in 1 .. Len(Groups(1)) - 1
      BY <1>5, <2>1, <3>1
    <3> QED
      BY <2>2, <3>2 DEF Shortened
  <2> QED
    BY <1>5, <2>1, <2>3 DEF Last
<1>7. ASSUME ~closes PROVE done = Inst(2) /\ Last(Groups(1)') = Latest(1)
  <2>1. done = Inst(2)
    BY <1>1, <1>2, <1>7 DEF Leaving
  <2>2. Groups(1)' = Groups(1)
    BY <1>1, <1>2, <1>7 DEF Popped
  <2> QED
    BY <2>1, <2>2 DEF Last, Latest
<1>8. ASSUME HandedUp(Inst(2), done, Last(Groups(1)'))
      PROVE  /\ ~closes /\ instances[done].kind = "set" /\ Latest(1) \in Ids /\ Latest(1) # done
             /\ instances[Latest(1)].kind = "begin"
  <2>1. Last(Groups(1)') # Root /\ instances[Inst(2)].kind # "begin"
    BY <1>8 DEF HandedUp
  <2>2. ~closes /\ done = Inst(2) /\ Latest(1) # Root
    BY <1>6, <1>7, <2>1
  <2>3. ~Closing(Inst(2))
    <3>1. Last(Groups(1)) # Root
      BY <2>2 DEF Last, Latest
    <3> QED
      BY <1>1, <1>2, <2>2, <3>1 DEF PopEffect
  <2>4. instances[done].kind = "set"
    <3>1. 2 \in 2 .. Depth
      BY <1>2 DEF Basics, FramesSized
    <3>2. instances[Inst(2)].kind # "undoRedo"
      BY <3>1 DEF OInv, Placed, Homes
    <3> QED
      BY <1>2, <2>1, <2>2, <2>3, <3>2 DEF Kinds, Known, Closing
  <2>5. Latest(1) \in Ids /\ instances[Latest(1)].kind = "begin"
    <3>1. Len(Groups(1)) = 1 \/ Len(Groups(1)) \in 2 .. Len(Groups(1))
      BY <1>5, Ends
    <3> QED
      BY <1>5, <2>2, <3>1 DEF Latest
  <2> QED
    BY <2>2, <2>4, <2>5
<1>9. ASSUME Writer(done)
      PROVE  ~closes /\ SucceedsNow(done) /\ instances[done].class.canUndo
  <2>1. instances[done].kind = "set" /\ instances[done].class.canUndo
    BY <1>9, FlatWriter
  <2>2. ~closes /\ done = Inst(2)
    BY <1>6, <1>7, <2>1
  <2>3. instances[done].error = "ok"
    BY <1>4, <1>9, <2>2 DEF WritersOk
  <2>4. instances'[done].error = instances[done].error
    BY <1>1, <1>3, <2>2 DEF PopEffect
  <2> QED
    BY <2>1, <2>2, <2>3, <2>4 DEF SucceedsNow
<1> QED
  BY <1>2, <1>3, <1>4, <1>6, <1>7, <1>8, <1>9

-----------------------------------------------------------------------------
(* What a step of such an application changes *)

FlatStep == /\ IInv /\ IInv' /\ OInv /\ IndexInv /\ HInv /\ ActsTyped /\ Documented /\ Documented'
            /\ [Next]_vars /\ EInv

\* The parts of FlatStep, and what they say of the step.
LEMMA FlatParts ==
  ASSUME Flat, FlatStep
  PROVE  /\ Basics /\ Basics' /\ StepKind /\ Kept /\ EffectKind
         /\ Kinds /\ HomesCompound /\ Pristine /\ Returned /\ Alternates /\ Leaves
         /\ AllSigned /\ NoneYet /\ WritersOk /\ Rolls /\ QueuedAlone /\ Flattened /\ LeafRuns
         /\ HandedOver /\ FromBefore /\ OwnBefore
         /\ IInv /\ OInv /\ IndexInv /\ HInv /\ Documented /\ Documented' /\ [Next]_vars
<1>1. /\ IInv /\ IInv' /\ OInv /\ IndexInv /\ HInv /\ ActsTyped /\ Documented /\ Documented' /\ [Next]_vars
      /\ EInv
  BY DEF FlatStep
<1>2. Basics /\ Basics' /\ StepKind /\ Recorded
  BY <1>1, BasicsHold, BasicsNext, EveryStepKind DEF OInv
<1>3. Kept
  BY <1>2, KeptStep
<1>4. EffectKind
  BY <1>1, EveryEffectKind DEF EInv, Flat
<1> QED
  BY <1>1, <1>2, <1>3, <1>4 DEF EInv

\* Every step of a flat application is one of the five.
LEMMA FlatEffects ==
  ASSUME Flat, FlatStep
  PROVE  \/ Steady \/ Records
         \/ \E L, i : Takes(L, i)
         \/ \E t \in Threads : \E i : ReturnEffect(t, i)
         \/ \E L, closes, done : Pops(L, closes, done)
BY FlatParts, FiveEffects

\* The command on the back frame returns.
LEMMA FlatReturns ==
  ASSUME Flat, FlatStep, NEW t \in Threads, NEW i, ReturnEffect(t, i)
  PROVE  /\ Depth > 1 /\ i = Inst(2) /\ i \in Ids /\ Ids' = Ids /\ FramesSame
         /\ instances[i].error = "none" /\ instances'[i].error # "none"
         /\ instances[i].kind = "set" => /\ instances[i].data = <<>>
                                         /\ \/ instances'[i].error = "ok"
                                            \/ instances[i].class.fails
         /\ \E m \in BOOLEAN : instances'[i].data =
              Append(instances[i].data, [mergeable |-> m, helpers |-> instances[i].own])
         /\ \A j \in Ids : /\ instances'[j].own = instances[j].own
                           /\ instances'[j].children = instances[j].children
                           /\ j # i => /\ instances'[j].data = instances[j].data
                                       /\ instances'[j].error = instances[j].error
<1>1. /\ At(t, "exec") /\ i = Top(t).inst /\ i \in Ids /\ Ids' = Ids
      /\ UNCHANGED <<document, commandFrames>>
      /\ IInv /\ Flat /\ Kinds /\ HomesCompound /\ Basics /\ OInv /\ Returned /\ NoneYet
  BY FlatParts DEF ReturnEffect
<1>2. Listed(stack[t]) /\ StackShape
  BY <1>1 DEF IInv, Shape, StackShape
<1>3. Len(stack[t]) \in Owning(t) /\ Top(t) = stack[t][Len(stack[t])] /\ Len(stack[t]) \in DOMAIN stack[t]
  BY <1>1, TopFrame
<1>4. Does(t, Len(stack[t]), "exec", i)
  BY <1>1, <1>3 DEF Does, At
<1>5. \E n \in 2 .. Depth : Inst(n) = i
  BY <1>1, <1>4, OwnsFrame
<1>6. Depth > 1 /\ i = Inst(2)
  <2>1. Depth \in {1, 2}
    BY <1>1, FlatFrames
  <2>2. \A n \in 2 .. Depth : n = 2 /\ Depth > 1
    BY <2>1
  <2> QED
    BY <1>5, <2>2
<1>7. instances[i].error = "none"
  BY <1>1, <1>4 DEF Returned
<1>8. instances[i].kind = "set" => instances[i].data = <<>>
  BY <1>1, <1>7 DEF NoneYet
<1>9. FramesSame
  BY <1>1, UnchangedFrames
<1> QED
  BY <1>1, <1>6, <1>7, <1>8, <1>9 DEF ReturnEffect

\* Records grow by what the command on the back frame finds and leaves in the document.
LEMMA OwnSteps ==
  ASSUME Flat, FlatStep, NEW j \in Ids
  PROVE  /\ DOMAIN instances[j].own \subseteq DOMAIN instances'[j].own
         /\ instances'[j].own # instances[j].own =>
              /\ Records /\ Depth > 1 /\ j = Inst(2) /\ instances[j].error = "none"
         /\ \A p \in DOMAIN instances'[j].own :
              \/ p \in DOMAIN instances[j].own /\ instances'[j].own[p].pre = instances[j].own[p].pre
              \/ /\ p \notin DOMAIN instances[j].own /\ Depth > 1 /\ j = Inst(2)
                 /\ instances'[j].own[p].pre = document[p]
         /\ \A p \in DOMAIN instances'[j].own :
              \/ p \in DOMAIN instances[j].own /\ instances'[j].own[p].post = instances[j].own[p].post
              \/ instances'[j].own[p].post = document'[p]
<1>1. CASE Records
  <2>1. PICK t \in Threads, written \in SUBSET Props : Recording(t, written)
    BY <1>1 DEF Records
  <2>2. Kinds /\ HomesCompound /\ Basics /\ IInv /\ OInv /\ Returned
    BY FlatParts
  <2> QED
    BY <1>1, <2>1, <2>2, RecordingGrows
<1>2. CASE instances'[j].own = instances[j].own
  BY <1>2
<1>3. CASE ~Records
  <2>1. instances'[j].own = instances[j].own
    <3>1. CASE Steady
      BY <3>1 DEF Steady
    <3>2. CASE \E L, i : Takes(L, i)
      BY <3>2 DEF Takes, TakeEffect, SameDocuments, SameValues
    <3>3. CASE \E t \in Threads : \E i : ReturnEffect(t, i)
      BY <3>3 DEF ReturnEffect
    <3>4. CASE \E L, closes, done : Pops(L, closes, done)
      BY <3>4 DEF Pops, PopEffect
    <3> QED
      BY <1>3, <3>1, <3>2, <3>3, <3>4, FlatEffects
  <2> QED
    BY <1>2, <2>1
<1> QED
  BY <1>1, <1>3

\* Error codes are set when a command returns, or a batch is closed.
LEMMA ErrorSteps ==
  ASSUME Flat, FlatStep, NEW j \in Ids
  PROVE  \/ instances'[j].error = instances[j].error
         \/ /\ instances'[j].error # "none"
            /\ instances[j].kind = "set" => /\ instances'[j].error = "ok" \/ instances[j].class.fails
                                            /\ Depth > 1 /\ j = Inst(2)
<1>1. CASE Steady \/ Records
  BY <1>1 DEF Steady, Records, Recording
<1>2. CASE \E L, i : Takes(L, i)
  BY <1>2 DEF Takes, TakeEffect, SameDocuments
<1>3. ASSUME NEW t \in Threads, NEW i, ReturnEffect(t, i)
      PROVE  \/ instances'[j].error = instances[j].error
             \/ /\ instances'[j].error # "none"
                /\ instances[j].kind = "set" => /\ instances'[j].error = "ok" \/ instances[j].class.fails
                                                /\ Depth > 1 /\ j = Inst(2)
  BY <1>3, FlatReturns
<1>4. ASSUME NEW L, NEW closes, NEW done, Pops(L, closes, done)
      PROVE  \/ instances'[j].error = instances[j].error
             \/ instances'[j].error # "none" /\ instances[j].kind = "begin"
  <2>1. /\ L = 2 /\ instances[Inst(2)].error # "none"
        /\ closes => instances[done].kind = "begin"
    BY <1>4, FlatParts, FlatPops
  <2>2. instances'[j].error = IF closes /\ j = done THEN instances[Inst(L)].error
                              ELSE instances[j].error
    BY <1>4 DEF Pops, PopEffect
  <2> QED
    BY <2>1, <2>2
<1> QED
  BY <1>1, <1>2, <1>3, <1>4, FlatEffects

\* A batch gets a child when a command is taken.
LEMMA WithinSteps ==
  ASSUME Flat, FlatStep, NEW b \in Ids, NEW v, Within(v, b)'
  PROVE  Within(v, b) \/ \E L : Takes(L, v)
<1>1. CASE Steady \/ Records \/ \E t \in Threads : \E i : ReturnEffect(t, i)
  BY <1>1 DEF Steady, Records, Recording, ReturnEffect, Within
<1>2. ASSUME NEW L, NEW i, Takes(L, i) PROVE Within(v, b) \/ Takes(L, v)
  BY <1>2, FlatParts, FlatTakes
<1>3. CASE \E L, closes, done : Pops(L, closes, done)
  BY <1>3 DEF Pops, Popping, SameTables, NoNewChild, Within
<1> QED
  BY <1>1, <1>2, <1>3, FlatEffects

\* Undo data come with the return, and move from a command to its batch.
LEMMA DataFlow ==
  ASSUME Flat, FlatStep, NEW i \in Ids
  PROVE  \/ instances'[i].data = instances[i].data
         \/ \E t \in Threads : ReturnEffect(t, i)
         \/ instances'[i].data = <<>> /\ instances[i].kind = "set"
         \/ /\ i = Latest(1) /\ instances[i].kind = "begin" /\ Depth > 1 /\ Depth' = 1
            /\ Inst(2) # i /\ Inst(2) \in Ids /\ Ids' = Ids
            /\ \E m \in BOOLEAN : instances'[i].data =
                 Consolidate(instances[i].data,
                             <<[mergeable |-> m, helpers |-> instances[Inst(2)].own]>>)
<1>1. ASSUME NEW L, NEW closes, NEW done, Pops(L, closes, done),
             HandedUp(Inst(L), done, Last(Groups(L - 1)')), i = done \/ i = Last(Groups(L - 1)')
      PROVE  \/ instances'[i].data = <<>> /\ instances[i].kind = "set"
             \/ /\ i = Latest(1) /\ instances[i].kind = "begin" /\ Depth > 1 /\ Depth' = 1
                /\ Inst(2) # i /\ Inst(2) \in Ids /\ Ids' = Ids
                /\ \E m \in BOOLEAN : instances'[i].data =
                     Consolidate(instances[i].data,
                                 <<[mergeable |-> m, helpers |-> instances[Inst(2)].own]>>)
  <2>1. /\ L = 2 /\ L - 1 = 1 /\ Depth > 1 /\ Depth' = 1 /\ Inst(2) \in Ids /\ Ids' = Ids
        /\ instances[Inst(2)].error # "none"
        /\ ~closes => done = Inst(2) /\ Last(Groups(1)') = Latest(1)
        /\ HandedUp(Inst(2), done, Last(Groups(1)')) =>
              /\ ~closes /\ instances[done].kind = "set" /\ Latest(1) \in Ids /\ Latest(1) # done
              /\ instances[Latest(1)].kind = "begin"
    BY <1>1, FlatParts, FlatPops
  <2>2. HandedUp(Inst(2), done, Last(Groups(1)'))
    BY <1>1, <2>1
  <2>3. /\ done = Inst(2) /\ Last(Groups(1)') = Latest(1) /\ instances[done].kind = "set"
        /\ Latest(1) # done /\ instances[Latest(1)].kind = "begin"
    BY <2>1, <2>2
  <2>4. instances'[i].data = IF i = done THEN <<>>
                             ELSE IF i = Latest(1)
                               THEN Consolidate(instances[i].data, instances[done].data)
                             ELSE instances[i].data
    BY <2>2, <2>3 DEF HandedUp, Handed
  <2>5. \E m \in BOOLEAN : instances[done].data =
          <<[mergeable |-> m, helpers |-> instances[Inst(2)].own]>>
    BY <2>1, <2>3, FlatParts DEF LeafRuns
  <2>6. i = done \/ i = Latest(1)
    BY <1>1, <2>1, <2>3
  <2> QED
    BY <2>1, <2>3, <2>4, <2>5, <2>6
<1> QED
  BY <1>1, FlatParts, DataSteps

\* What is new has no children.
LEMMA NewChildless ==
  ASSUME Flat, FlatStep, NEW b \in Ids', b \notin Ids
  PROVE  \A v : ~Within(v, b)'
<1>1. instances'[b].children = <<>>
  BY FlatParts, NewInstance
<1> QED
  BY <1>1 DEF Within

\* Steps keep NoneYet.
LEMMA NoneYetStep ==
  ASSUME Flat, FlatStep
  PROVE  NoneYet'
<1> SUFFICES ASSUME NEW i \in Ids', instances'[i].kind = "set", instances'[i].error = "none"
             PROVE  instances'[i].data = <<>>
  BY DEF NoneYet
<1>1. CASE i \notin Ids
  BY <1>1, FlatParts, NewInstance
<1>2. CASE i \in Ids
  <2>1. instances[i].kind = "set"
    BY <1>2, FlatParts DEF Kept, SameKind
  <2>2. instances[i].error = "none"
    BY <1>2, ErrorSteps
  <2>3. instances[i].data = <<>>
    BY <1>2, <2>1, <2>2, FlatParts DEF NoneYet
  <2>4. ~\E t \in Threads : ReturnEffect(t, i)
    BY FlatReturns
  <2> QED
    BY <1>2, <2>1, <2>3, <2>4, DataFlow
<1> QED
  BY <1>1, <1>2

\* Steps keep WritersOk.
LEMMA WritersOkStep ==
  ASSUME Flat, FlatStep
  PROVE  WritersOk'
<1> SUFFICES ASSUME NEW i, Writer(i)' PROVE instances'[i].error \in {"none", "ok"}
  BY DEF WritersOk
<1>0. i \in Ids'
  BY DEF Writer
<1>1. CASE i \notin Ids
  BY <1>0, <1>1, FlatParts, NewInstance
<1>2. CASE i \in Ids
  <2>1. Writer(i)
    BY <1>2, FlatParts, WritersStay
  <2>2. instances[i].kind = "set" /\ ~instances[i].class.fails
    BY <2>1, FlatParts, FlatWriter
  <2>3. instances[i].error \in {"none", "ok"}
    BY <2>1, FlatParts DEF WritersOk
  <2> QED
    BY <1>2, <2>2, <2>3, ErrorSteps
<1> QED
  BY <1>1, <1>2

\* Steps keep Rolls.
LEMMA RollsStep ==
  ASSUME Flat, FlatStep
  PROVE  Rolls'
<1> SUFFICES ASSUME NEW t \in Threads, NEW k, NEW i, Does(t, k, "rollback", i)'
             PROVE  ~Writer(i)'
  BY DEF Rolls
<1>1. ASSUME Does(t, k, "rollback", i) PROVE ~Writer(i)'
  <2>1. i \in Ids
    BY <1>1, FlatParts DEF OInv, Ordered, Statuses, Holding
  <2> QED
    BY <1>1, <2>1, FlatParts, WritersStay DEF Rolls
<1>2. NoNew("rollback") => Does(t, k, "rollback", i)
  BY DEF NoNew
<1>3. CASE Steady \/ Records \/ (\E L, j : Takes(L, j)) \/ \E u \in Threads : \E j : ReturnEffect(u, j)
  BY <1>1, <1>2, <1>3 DEF Steady, Records, Takes, TakeEffect, ReturnEffect
<1>4. ASSUME NEW L, NEW closes, NEW done, Pops(L, closes, done) PROVE ~Writer(i)'
  <2>1. \/ NoNew("rollback")
        \/ KeptBack(Inst(L), done)
    BY <1>4 DEF Pops, PopEffect, Opened, HandedUp, EnteredNow
  <2>2. CASE KeptBack(Inst(L), done)
    <3>1. Does(t, k, "rollback", i) \/ i = done
      BY <2>2 DEF KeptBack
    <3>2. ~Writer(done) /\ done \in Ids
      BY <1>4, <2>2, FlatParts, FlatPops DEF KeptBack
    <3>3. ~Writer(done)'
      BY <3>2, FlatParts, WritersStay
    <3> QED
      BY <1>1, <3>1, <3>3
  <2> QED
    BY <1>1, <1>2, <2>1, <2>2
<1> QED
  BY <1>3, <1>4, FlatEffects

\* Steps keep Flattened.
LEMMA FlattenedStep ==
  ASSUME Flat, FlatStep
  PROVE  Flattened'
<1> SUFFICES ASSUME NEW b \in Ids', NEW v, Within(v, b)'
             PROVE  instances'[b].kind = "begin" /\ v \in Ids' /\ instances'[v].kind = "set"
  BY DEF Flattened
<1>1. b \in Ids
  BY NewChildless
<1>2. instances[b].kind = "begin" /\ v \in Ids /\ instances[v].kind = "set"
  <2>1. CASE Within(v, b)
    BY <1>1, <2>1, FlatParts DEF Flattened
  <2>2. ASSUME NEW L, Takes(L, v), ~Within(v, b)
        PROVE  instances[b].kind = "begin" /\ v \in Ids /\ instances[v].kind = "set"
    BY <1>1, <2>2, FlatParts, FlatTakes
  <2> QED
    BY <1>1, <2>1, <2>2, WithinSteps
<1> QED
  BY <1>1, <1>2, FlatParts DEF Kept, SameKind

\* Steps keep QueuedAlone.
LEMMA QueuedAloneStep ==
  ASSUME Flat, FlatStep
  PROVE  QueuedAlone'
<1> SUFFICES ASSUME NEW i \in Ids', instances'[i].status = "Queued"
             PROVE  instances'[i].children = <<>>
  BY DEF QueuedAlone
<1>1. CASE i \notin Ids
  BY <1>1, FlatParts, NewInstance
<1>2. CASE i \in Ids
  <2>1. instances[i].status = "Queued"
    BY <1>2, FlatParts, StatusSteps
  <2>2. instances[i].children = <<>>
    BY <1>2, <2>1, FlatParts DEF QueuedAlone
  <2>3. ~InGroup(i)
    BY <1>2, <2>1, FlatParts DEF OInv, Ordered, Statuses
  <2>4. CASE Steady \/ Records \/ \E u \in Threads : \E j : ReturnEffect(u, j)
    BY <1>2, <2>2, <2>4 DEF Steady, Records, Recording, ReturnEffect
  <2>5. ASSUME NEW v, Within(v, i)' PROVE FALSE
    <3>1. ~Within(v, i)
      BY <2>2 DEF Within
    <3>2. PICK L : Takes(L, v)
      BY <1>2, <2>5, <3>1, WithinSteps
    <3>3. instances[i].kind = "begin" /\ i = Latest(1)'
      BY <1>2, <2>5, <3>1, <3>2, FlatParts, FlatTakes
    <3>4. L = 1 /\ Taken(L, v) /\ instances[v].kind = "set"
      BY <1>2, <2>5, <3>1, <3>2, FlatParts, FlatTakes DEF Takes, TakeEffect
    <3>5. Groups(1)' = Groups(1)
      BY <3>4 DEF Taken
    <3>6. i = Latest(1) /\ i # 0
      BY <1>2, <3>3, <3>5, FlatParts DEF Latest, Basics
    <3>7. Len(Groups(1)) \in Nat /\ Len(Groups(1)) > 0 /\ Groups(1)[1] = Root /\ 1 \in 1 .. Depth
      BY FlatParts, RootQueue DEF OInv, Placed, Grouped, Basics, FramesSized, Sized
    <3>8. Len(Groups(1)) \in 2 .. Len(Groups(1))
      BY <3>6, <3>7, Ends DEF Latest, Root
    <3> QED
      BY <2>3, <3>6, <3>7, <3>8 DEF InGroup, Latest
  <2>6. Listed(instances'[i].children)
    <3>1. Recorded'
      BY FlatParts, KeptStep DEF OInv
    <3> QED
      BY <3>1 DEF Recorded, InstanceRecord
  <2>7. DOMAIN instances'[i].children = {}
    BY <2>5 DEF Within
  <2> QED
    BY <2>6, <2>7 DEF Listed
<1> QED
  BY <1>1, <1>2

\* Steps keep LeafRuns.
LEMMA LeafRunsStep ==
  ASSUME Flat, FlatStep
  PROVE  LeafRuns'
<1> DEFINE Entry2(e) == \E m \in BOOLEAN : instances'[e].data =
               <<[mergeable |-> m, helpers |-> instances'[e].own]>>
<1>1. SUFFICES ASSUME Depth' > 1
               PROVE  /\ instances'[Inst(2)'].children = <<>>
                      /\ \A b \in Ids' : Within(Inst(2), b)' => b = Latest(1)'
                      /\ instances'[Inst(2)'].kind = "set" /\ instances'[Inst(2)'].error # "none" =>
                           Entry2(Inst(2)')
  BY DEF LeafRuns
<1>2. ASSUME NEW L, NEW i, Takes(L, i)
      PROVE  /\ instances'[Inst(2)'].children = <<>>
             /\ \A b \in Ids' : Within(Inst(2), b)' => b = Latest(1)'
             /\ instances'[Inst(2)'].kind = "set" /\ instances'[Inst(2)'].error # "none" =>
                  Entry2(Inst(2)')
  <2>1. /\ Inst(2)' = i /\ i \in Ids /\ Ids' = Ids /\ instances[i].error = "none"
        /\ \A b \in Ids : ~Within(i, b)
        /\ instances'[i].error = instances[i].error /\ instances'[i].children = <<>>
        /\ \A b \in Ids : \A v : Within(v, b)' => Within(v, b) \/ (v = i /\ b = Latest(1)')
    BY <1>2, FlatParts, FlatTakes
  <2>2. \A b \in Ids' : Within(Inst(2), b)' => b = Latest(1)'
    <3> SUFFICES ASSUME NEW b \in Ids', Within(Inst(2), b)' PROVE b = Latest(1)'
      OBVIOUS
    <3>1. Within(i, b)'
      BY <2>1 DEF Within
    <3> QED
      BY <2>1, <3>1
  <2> QED
    BY <2>1, <2>2
<1>3. ASSUME NEW L, NEW closes, NEW done, Pops(L, closes, done) PROVE FALSE
  <2>1. Depth' = 1
    BY <1>3, FlatParts, FlatPops
  <2> QED
    BY <1>1, <2>1
<1>4. ASSUME FramesSame, \A j \in Ids : instances'[j].children = instances[j].children,
             \A j \in Ids : \/ /\ instances'[j].own = instances[j].own
                               /\ instances'[j].data = instances[j].data
                               /\ instances'[j].error = instances[j].error
                            \/ instances'[j].error = "none"
                            \/ instances[j].kind = "set" /\ j = Inst(2) => Entry2(j)
      PROVE  /\ instances'[Inst(2)'].children = <<>>
             /\ \A b \in Ids' : Within(Inst(2), b)' => b = Latest(1)'
             /\ instances'[Inst(2)'].kind = "set" /\ instances'[Inst(2)'].error # "none" =>
                  Entry2(Inst(2)')
  <2>1. Depth > 1 /\ Inst(2) \in Ids /\ 2 \in 1 .. Depth /\ 1 \in 1 .. Depth
    BY <1>1, <1>4, FlatParts, FlatFrames DEF FramesSame
  <2>2. Inst(2)' = Inst(2) /\ Groups(1)' = Groups(1)
    BY <1>4, <2>1 DEF FramesSame
  <2>3. /\ instances[Inst(2)].children = <<>>
        /\ \A b \in Ids : Within(Inst(2), b) => b = Latest(1)
        /\ instances[Inst(2)].kind = "set" /\ instances[Inst(2)].error # "none" =>
             \E m \in BOOLEAN : instances[Inst(2)].data =
               <<[mergeable |-> m, helpers |-> instances[Inst(2)].own]>>
    BY <2>1, FlatParts DEF LeafRuns
  <2>4. instances'[Inst(2)].kind = instances[Inst(2)].kind
    BY <2>1, FlatParts DEF Kept, SameKind
  <2>5. ASSUME NEW b \in Ids', Within(Inst(2), b)' PROVE b = Latest(1)'
    <3>1. b \in Ids
      BY <2>5, NewChildless
    <3>2. Within(Inst(2), b)
      BY <1>4, <2>2, <2>5, <3>1 DEF Within
    <3> QED
      BY <2>2, <2>3, <3>1, <3>2 DEF Latest
  <2>6. instances'[Inst(2)].kind = "set" /\ instances'[Inst(2)].error # "none" => Entry2(Inst(2))
    BY <1>4, <2>1, <2>3, <2>4
  <2> HIDE DEF Entry2
  <2> QED
    BY <1>4, <2>1, <2>2, <2>3, <2>5, <2>6
<1>5. CASE Steady
  BY <1>4, <1>5 DEF Steady
<1>6. CASE Records
  <2>1. \A j \in Ids : /\ instances'[j].children = instances[j].children
                       /\ instances'[j].data = instances[j].data
                       /\ instances'[j].error = instances[j].error
    BY <1>6 DEF Records, Recording
  <2>2. \A j \in Ids : instances'[j].own = instances[j].own \/ instances'[j].error = "none"
    BY <2>1, OwnSteps
  <2> QED
    BY <1>4, <1>6, <2>1, <2>2 DEF Records
<1>7. ASSUME NEW t \in Threads, NEW i, ReturnEffect(t, i)
      PROVE  /\ instances'[Inst(2)'].children = <<>>
             /\ \A b \in Ids' : Within(Inst(2), b)' => b = Latest(1)'
             /\ instances'[Inst(2)'].kind = "set" /\ instances'[Inst(2)'].error # "none" =>
                  Entry2(Inst(2)')
  <2>1. /\ i = Inst(2) /\ i \in Ids /\ FramesSame /\ (instances[i].kind = "set" => instances[i].data = <<>>)
        /\ \A j \in Ids : /\ instances'[j].own = instances[j].own
                          /\ instances'[j].children = instances[j].children
                          /\ j # i => /\ instances'[j].data = instances[j].data
                                      /\ instances'[j].error = instances[j].error
    BY <1>7, FlatReturns
  <2>2. PICK m \in BOOLEAN : instances'[i].data =
              Append(instances[i].data, [mergeable |-> m, helpers |-> instances[i].own])
    BY <1>7, FlatReturns
  <2>3. instances[i].kind = "set" => Entry2(i)
    <3>1. \A e : Append(<<>>, e) = <<e>>
      OBVIOUS
    <3> QED
      BY <2>1, <2>2, <3>1
  <2> HIDE DEF Entry2
  <2> QED
    BY <1>4, <2>1, <2>3
<1> QED
  BY <1>2, <1>3, <1>5, <1>6, <1>7, FlatEffects

-----------------------------------------------------------------------------
(* The values *)

\* What is signed stays signed.
LEMMA SignsGrow ==
  ASSUME Flat, FlatStep
  PROVE  /\ \A p, x : x \in 0 .. Count /\ Signed(p, x) => x \in (0 .. Count)' /\ Signed(p, x)'
         /\ \A p \in Props : Signs[p] \subseteq Signs'[p]
<1>1. Count \in Nat /\ Count' \in Nat /\ Ids = 1 .. Count /\ Ids' = 1 .. Count' /\ Ids \subseteq Ids'
  BY FlatParts DEF Basics, Kept
<1>2. Count <= Count'
  BY <1>1
<1>3. ASSUME NEW p, NEW x \in 0 .. Count, Signed(p, x) PROVE x \in 0 .. Count' /\ Signed(p, x)'
  <2>1. CASE x = 0
    BY <1>1, <2>1 DEF Signed
  <2>2. CASE Writer(x) /\ p \in DOMAIN instances[x].own
    <3>1. x \in Ids
      BY <2>2 DEF Writer
    <3>2. Writer(x)'
      BY <2>2, <3>1, FlatParts, WritersStay
    <3>3. p \in DOMAIN instances'[x].own
      BY <2>2, <3>1, OwnSteps
    <3> QED
      BY <1>1, <1>2, <3>2, <3>3 DEF Signed
  <2> QED
    BY <1>3, <2>1, <2>2 DEF Signed
<1> QED
  BY <1>3 DEF Signs

\* Every value of the document stays signed.
LEMMA DocumentSigned ==
  ASSUME Flat, FlatStep
  PROVE  DocWithin(Signs', document')
<1>1. /\ DocWithin(Signs, document) /\ (\A i \in Ids : DataWithin(Signs, instances[i].data))
      /\ EffectKind /\ OInv /\ Documented /\ HInv
  BY FlatParts DEF AllSigned
<1>2. ASSUME DocWithin(Signs, document') PROVE DocWithin(Signs', document')
  BY <1>2, SignsGrow DEF DocWithin
<1>3. CASE document' = document
  BY <1>1, <1>2, <1>3
<1>4. document \in Docs(Values) /\ \A i \in Ids : instances[i].data \in DataOf(Values)
  BY <1>1 DEF Documented, InstanceDocumented
<1>5. ASSUME NEW i \in Ids,
             document' = Undo(instances[i].data, document) \/ document' = Redo(instances[i].data, document)
      PROVE  DocWithin(Signs', document')
  <2>1. DocWithin(Signs, Undo(instances[i].data, document)) /\ DocWithin(Signs, Redo(instances[i].data, document))
    BY <1>1, <1>4, UndoWithin
  <2> QED
    BY <1>2, <1>5, <2>1
<1>6. ASSUME NEW t \in Threads, NEW i, WriteEffect(t, i) PROVE DocWithin(Signs', document')
  <2>1. PICK p \in Props : document' = [document EXCEPT ![p] = i] /\ Recording(t, {p})
    BY <1>6 DEF WriteEffect
  <2>2. /\ At(t, "exec") /\ i = Top(t).inst /\ i \in Ids
        /\ instances[i].kind = "set" /\ instances[i].class.writes
    BY <1>6 DEF WriteEffect
  <2>3. i \in Listening(t)
    <3>1. /\ Len(stack[t]) \in Owning(t) /\ Top(t) = stack[t][Len(stack[t])]
          /\ Len(stack[t]) \in DOMAIN stack[t] /\ stack[t][Len(stack[t])].at = "exec"
      BY <2>2, FlatParts, TopFrame DEF At
    <3> QED
      BY <2>2, <3>1 DEF Listening
  <2>4. p \in DOMAIN instances'[i].own
    BY <2>1, <2>2, <2>3 DEF Recording, RecordWrites
  <2>5. Writer(i)' /\ Count' = Count /\ Ids' = Ids
    <3>1. Ids' = Ids
      BY <2>1 DEF Recording
    <3>2. 1 .. Count = 1 .. Count' /\ Count \in Nat /\ Count' \in Nat
      BY <3>1, FlatParts DEF Basics
    <3>3. Count' = Count
      BY <3>2
    <3> QED
      BY <2>2, <3>1, <3>3, FlatParts, WritersStay DEF Writer
  <2>6. i \in Signs'[p]
    <3>1. i \in 0 .. Count'
      BY <2>2, <2>5, FlatParts DEF Basics
    <3>2. Signed(p, i)'
      BY <2>4, <2>5 DEF Signed
    <3> QED
      BY <3>1, <3>2 DEF Signs
  <2>7. ASSUME NEW q \in Props PROVE document'[q] \in Signs'[q]
    <3>1. document'[q] = IF q = p THEN i ELSE document[q]
      BY <1>4, <2>1 DEF Docs
    <3>2. document[q] \in Signs'[q]
      BY <1>1, SignsGrow DEF DocWithin
    <3> QED
      BY <2>6, <3>1, <3>2
  <2> QED
    BY <2>7 DEF DocWithin
<1>7. ASSUME NEW t \in Threads, NEW i, RollbackEffect(t, i) PROVE DocWithin(Signs', document')
  <2>1. i \in Ids
    BY <1>1, <1>7 DEF RollbackEffect, OInv, Ordered, Statuses, Holding
  <2> QED
    BY <1>5, <1>7, <2>1 DEF RollbackEffect
<1>8. CASE Stepping
  <2>1. \E k \in 1 .. Len(history) : \/ document' = Undo(instances[history[k]].data, document)
                                     \/ document' = Redo(instances[history[k]].data, document)
    BY <1>8, FlatParts, EntryIndex DEF Stepping, UndoEntry, RedoEntry, IndexInv
  <2>2. \E i \in Ids : \/ document' = Undo(instances[i].data, document)
                       \/ document' = Redo(instances[i].data, document)
    BY <2>1, FlatParts DEF IndexInv, Entered
  <2> QED
    BY <1>5, <2>2
<1>9. CASE Bystanding \/ (\E L, i : Takes(L, i)) \/ (\E L, closes, done : Pops(L, closes, done))
           \/ \E t \in Threads : \E i : ReturnEffect(t, i)
  BY <1>3, <1>9 DEF Bystanding, Aside, SameDocuments, Takes, TakeEffect, Pops, PopEffect, ReturnEffect
<1> QED
  BY <1>1, <1>6, <1>7, <1>8, <1>9 DEF EffectKind

\* The types of what is recorded.
LEMMA FlatTyped ==
  ASSUME Flat, FlatStep
  PROVE  /\ document \in Docs(Values)
         /\ \A i \in Ids : /\ instances[i].own \in Lists(Values) /\ instances[i].data \in DataOf(Values)
                           /\ DOMAIN instances[i].own \subseteq Props
                           /\ \A m \in BOOLEAN :
                                [mergeable |-> m, helpers |-> instances[i].own] \in DataEntry(Values)
                           /\ \A k \in DOMAIN instances[i].data :
                                DOMAIN instances[i].data[k].helpers \subseteq Props
         /\ \A i \in Ids' : DOMAIN instances'[i].own \subseteq Props
<1>1. Documented /\ Documented'
  BY FlatParts
<1>2. \A W : \A l \in Lists(W) : DOMAIN l \subseteq Props
  BY DEF Lists
<1>3. ASSUME NEW i \in Ids
      PROVE  /\ instances[i].own \in Lists(Values) /\ instances[i].data \in DataOf(Values)
             /\ DOMAIN instances[i].own \subseteq Props
             /\ \A m \in BOOLEAN :
                  [mergeable |-> m, helpers |-> instances[i].own] \in DataEntry(Values)
             /\ \A k \in DOMAIN instances[i].data :
                  DOMAIN instances[i].data[k].helpers \subseteq Props
  <2>1. instances[i].own \in Lists(Values) /\ instances[i].data \in DataOf(Values)
    BY <1>1 DEF Documented, InstanceDocumented
  <2>2. ASSUME NEW k \in DOMAIN instances[i].data
        PROVE  DOMAIN instances[i].data[k].helpers \subseteq Props
    <3>1. instances[i].data[k] \in DataEntry(Values)
      BY <2>1, <2>2 DEF DataOf
    <3>2. instances[i].data[k].helpers \in Lists(Values)
      BY <3>1 DEF DataEntry
    <3> QED
      BY <1>2, <3>2
  <2> QED
    BY <1>2, <2>1, <2>2 DEF DataEntry
<1>4. \A i \in Ids' : DOMAIN instances'[i].own \subseteq Props
  BY <1>1, <1>2 DEF Documented, InstanceDocumented
<1> QED
  BY <1>1, <1>3, <1>4 DEF Documented

\* What a command that is taken may have written is nowhere.
LEMMA TakenUnsigned ==
  ASSUME Flat, FlatStep, NEW L, NEW x, Takes(L, x), NEW p
  PROVE  ~Signed(p, x)
<1>1. x # 0 /\ instances[x].own = NoHelpers
  BY FlatParts, FlatTakes
<1>2. p \notin DOMAIN NoHelpers
  BY DEF NoHelpers
<1> QED
  BY <1>1, <1>2 DEF Signed

\* What handing over one entry does.
LEMMA OneHanded ==
  ASSUME Flat, FlatStep, NEW b \in Ids, NEW v \in Ids, NEW m \in BOOLEAN, NEW new,
         new = Consolidate(instances[b].data, <<[mergeable |-> m, helpers |-> instances[v].own]>>)
  PROVE  /\ Written(new) = Written(instances[b].data) \cup DOMAIN instances[v].own
         /\ \A V : DataWithin(V, instances[b].data) /\ ListWithin(V, instances[v].own) => DataWithin(V, new)
         /\ \A p, k : Earliest(new, p, k) =>
              \/ /\ Earliest(instances[b].data, p, k)
                 /\ new[k].helpers[p].pre = instances[b].data[k].helpers[p].pre
              \/ /\ p \notin Written(instances[b].data) /\ p \in DOMAIN instances[v].own
                 /\ new[k].helpers[p].pre = instances[v].own[p].pre
<1>1. PICK e : e = [mergeable |-> m, helpers |-> instances[v].own]
  OBVIOUS
<1>2. e \in DataEntry(Values) /\ e.helpers = instances[v].own /\ instances[b].data \in DataOf(Values)
  BY <1>1, FlatTyped
<1>3. OneMore(instances[b].data, e, new)
  BY <1>1, <1>2, ConsolidateOne
<1> QED
  BY <1>2, <1>3, ConsolidateWrites

\* What handing over the data of a command that returned, or returning, adds.
LEMMA OneAppended ==
  ASSUME Flat, FlatStep, NEW i \in Ids, NEW m \in BOOLEAN, NEW new,
         new = Append(instances[i].data, [mergeable |-> m, helpers |-> instances[i].own])
  PROVE  /\ Written(new) = Written(instances[i].data) \cup DOMAIN instances[i].own
         /\ \A V : DataWithin(V, instances[i].data) /\ ListWithin(V, instances[i].own) => DataWithin(V, new)
<1>1. PICK e : e = [mergeable |-> m, helpers |-> instances[i].own]
  OBVIOUS
<1>2. e \in DataEntry(Values) /\ e.helpers = instances[i].own /\ instances[i].data \in DataOf(Values)
  BY <1>1, FlatTyped
<1>3. PICK n : n = Len(instances[i].data)
  OBVIOUS
<1>4. /\ n \in Nat /\ DOMAIN instances[i].data = 1 .. n /\ DOMAIN new = 1 .. n + 1 /\ new[n + 1] = e
      /\ \A k \in 1 .. n : new[k] = instances[i].data[k]
      /\ Written(new) = Written(instances[i].data) \cup DOMAIN e.helpers
  BY <1>1, <1>2, <1>3, AppendFields
<1>5. \A k : k \in 1 .. n + 1 <=> k \in 1 .. n \/ k = n + 1
  BY <1>4
<1>6. ASSUME NEW V, DataWithin(V, instances[i].data), ListWithin(V, instances[i].own)
      PROVE  DataWithin(V, new)
  BY <1>2, <1>4, <1>5, <1>6 DEF DataWithin
<1> QED
  BY <1>2, <1>4, <1>6

\* Steps keep AllSigned.
LEMMA AllSignedStep ==
  ASSUME Flat, FlatStep
  PROVE  AllSigned'
<1>1. DocWithin(Signs', document')
  BY DocumentSigned
<1>2. /\ DocWithin(Signs, document)
      /\ \A i \in Ids : ListWithin(Signs, instances[i].own) /\ DataWithin(Signs, instances[i].data)
  BY FlatParts DEF AllSigned
<1>3. \A l : DOMAIN l \subseteq Props /\ ListWithin(Signs, l) => ListWithin(Signs', l)
  BY SignsGrow DEF ListWithin
<1>4. ASSUME NEW i \in Ids PROVE ListWithin(Signs', instances[i].own) /\ DataWithin(Signs', instances[i].data)
  BY <1>2, <1>3, FlatTyped DEF DataWithin
<1>5. ASSUME NEW i \in Ids PROVE ListWithin(Signs', instances'[i].own)
  <2> SUFFICES ASSUME NEW p \in DOMAIN instances'[i].own
               PROVE  instances'[i].own[p].pre \in Signs'[p] /\ instances'[i].own[p].post \in Signs'[p]
    BY DEF ListWithin
  <2>1. p \in Props
    BY FlatTyped, FlatParts DEF Kept
  <2>2. document[p] \in Signs'[p] /\ document'[p] \in Signs'[p]
    BY <1>1, <1>2, <2>1, SignsGrow DEF DocWithin
  <2>3. p \in DOMAIN instances[i].own =>
          instances[i].own[p].pre \in Signs'[p] /\ instances[i].own[p].post \in Signs'[p]
    BY <1>4 DEF ListWithin
  <2> QED
    BY <2>2, <2>3, OwnSteps
<1>6. ASSUME NEW i \in Ids PROVE DataWithin(Signs', instances'[i].data)
  <2>1. CASE instances'[i].data = instances[i].data
    BY <1>4, <2>1
  <2>2. ASSUME NEW t \in Threads, ReturnEffect(t, i) PROVE DataWithin(Signs', instances'[i].data)
    <3>1. PICK m \in BOOLEAN : instances'[i].data =
              Append(instances[i].data, [mergeable |-> m, helpers |-> instances[i].own])
      BY <2>2 DEF ReturnEffect
    <3> QED
      BY <1>4, <3>1, OneAppended
  <2>3. CASE instances'[i].data = <<>>
    BY <2>3 DEF DataWithin
  <2>4. ASSUME Inst(2) \in Ids, NEW m \in BOOLEAN, instances'[i].data =
                 Consolidate(instances[i].data,
                             <<[mergeable |-> m, helpers |-> instances[Inst(2)].own]>>)
        PROVE  DataWithin(Signs', instances'[i].data)
    BY <1>4, <2>4, OneHanded
  <2> QED
    BY <2>1, <2>2, <2>3, <2>4, DataFlow
<1>7. ASSUME NEW i \in Ids', i \notin Ids
      PROVE  ListWithin(Signs', instances'[i].own) /\ DataWithin(Signs', instances'[i].data)
  <2>1. instances'[i].own = NoHelpers /\ instances'[i].data = <<>>
    BY <1>7, FlatParts, NewInstance
  <2> QED
    BY <2>1 DEF NoHelpers, ListWithin, DataWithin
<1> QED
  BY <1>1, <1>5, <1>6, <1>7 DEF AllSigned

\* What the data of a batch write only grows.
LEMMA WrittenGrows ==
  ASSUME Flat, FlatStep, NEW b \in Ids, instances[b].kind # "set"
  PROVE  Written(instances[b].data) \subseteq Written(instances'[b].data)
<1>1. ASSUME NEW t \in Threads, ReturnEffect(t, b)
      PROVE  Written(instances[b].data) \subseteq Written(instances'[b].data)
  <2>1. PICK m \in BOOLEAN : instances'[b].data =
            Append(instances[b].data, [mergeable |-> m, helpers |-> instances[b].own])
    BY <1>1 DEF ReturnEffect
  <2> QED
    BY <2>1, OneAppended
<1>2. ASSUME Inst(2) \in Ids, NEW m \in BOOLEAN, instances'[b].data =
               Consolidate(instances[b].data,
                           <<[mergeable |-> m, helpers |-> instances[Inst(2)].own]>>)
      PROVE  Written(instances[b].data) \subseteq Written(instances'[b].data)
  BY <1>2, OneHanded
<1> QED
  BY <1>1, <1>2, DataFlow

\* Steps keep HandedOver: a batch has the undo data of a command when its frame is popped.
LEMMA HandedOverStep ==
  ASSUME Flat, FlatStep
  PROVE  HandedOver'
<1> SUFFICES ASSUME NEW b \in Ids', NEW v, Within(v, b)', Writer(v)', ~(Depth' > 1 /\ v = Inst(2)')
             PROVE  DOMAIN instances'[v].own \subseteq Written(instances'[b].data)
  BY DEF HandedOver
<1>1. b \in Ids
  BY NewChildless
<1>2. Within(v, b)
  <2>1. ASSUME NEW L, Takes(L, v) PROVE FALSE
    <3>1. Depth' = 2 /\ Inst(2)' = v
      BY <2>1, FlatParts, FlatTakes
    <3> QED
      BY <3>1
  <2> QED
    BY <1>1, <2>1, WithinSteps
<1>3. instances[b].kind = "begin" /\ v \in Ids /\ instances[v].kind = "set"
  BY <1>1, <1>2, FlatParts DEF Flattened
<1>4. Writer(v)
  BY <1>3, FlatParts, WritersStay
<1>5. CASE ~(Depth > 1 /\ v = Inst(2))
  <2>1. DOMAIN instances[v].own \subseteq Written(instances[b].data)
    BY <1>1, <1>2, <1>4, <1>5, FlatParts DEF HandedOver
  <2>2. instances'[v].own = instances[v].own
    BY <1>3, <1>5, OwnSteps
  <2> QED
    BY <1>1, <1>3, <2>1, <2>2, WrittenGrows
<1>6. CASE Depth > 1 /\ v = Inst(2)
  <2>1. ~FramesSame
    <3>1. 2 \in 1 .. Depth
      BY <1>6, FlatParts, FlatFrames
    <3> QED
      BY <1>6, <3>1 DEF FramesSame
  <2>2. ~\E L, i : Takes(L, i)
    <3>1. ASSUME NEW L, NEW i, Takes(L, i) PROVE FALSE
      <4>1. Depth = 1
        BY <3>1, FlatParts, FlatTakes
      <4> QED
        BY <1>6, <4>1
    <3> QED
      BY <3>1
  <2>3. ~\E t \in Threads : \E i : ReturnEffect(t, i)
    BY <2>1, FlatReturns
  <2>4. PICK L, closes, done : Pops(L, closes, done)
    BY <2>1, <2>2, <2>3, FlatEffects DEF Steady, Records
  <2>5. /\ L = 2 /\ L - 1 = 1 /\ instances[Inst(2)].error # "none"
        /\ ~closes => done = Inst(2) /\ Last(Groups(1)') = Latest(1)
        /\ Writer(done) => ~closes /\ SucceedsNow(done) /\ instances[done].class.canUndo
    BY <2>4, FlatParts, FlatPops
  <2>6. PopEffect(L, closes, done)
    BY <2>4 DEF Pops
  <2>7. ~closes
    BY <1>3, <1>6, <2>5, <2>6 DEF PopEffect, Closing
  <2>8. done = v /\ SucceedsNow(v) /\ instances[v].class.canUndo
    BY <1>4, <1>6, <2>5, <2>7
  <2>9. b = Latest(1) /\ b # 0 /\ b # v
    <3>1. b = Latest(1)
      BY <1>1, <1>2, <1>6, FlatParts DEF LeafRuns
    <3> QED
      BY <1>1, <1>3, <3>1, FlatParts DEF Basics
  <2>10. HandedUp(v, v, b)
    <3>1. Last(Groups(L - 1)') = b /\ Inst(L) = v
      BY <1>6, <2>5, <2>7, <2>9
    <3>2. Opened(v) \/ HandedUp(v, v, b) \/ EnteredNow(v, v, b) \/ KeptBack(v, v)
      BY <2>6, <2>8, <3>1 DEF PopEffect
    <3>3. ~Opened(v) /\ ~EnteredNow(v, v, b) /\ ~KeptBack(v, v)
      BY <1>3, <2>8, <2>9 DEF Opened, EnteredNow, KeptBack, Root
    <3> QED
      BY <3>2, <3>3
  <2>11. /\ instances'[b].data = Consolidate(instances[b].data, instances[v].data)
         /\ instances'[v].own = instances[v].own
    BY <1>1, <1>3, <2>9, <2>10 DEF HandedUp, Handed
  <2>12. PICK m \in BOOLEAN : instances[v].data = <<[mergeable |-> m, helpers |-> instances[v].own]>>
    BY <1>3, <1>6, <2>5, FlatParts DEF LeafRuns
  <2> QED
    BY <1>1, <1>3, <2>11, <2>12, OneHanded
<1> QED
  BY <1>5, <1>6

\* Steps keep FromBefore: what a command records of a property its batch had not written
\* before was not written by one of the batch.
LEMMA FromBeforeStep ==
  ASSUME Flat, FlatStep
  PROVE  FromBefore'
<1> SUFFICES ASSUME NEW b \in Ids', NEW p, NEW k, Earliest(instances'[b].data, p, k),
                    NEW x, x = instances'[b].data[k].helpers[p].pre, Within(x, b)'
             PROVE  FALSE
  BY DEF FromBefore, Within
<1>1. b \in Ids
  BY NewChildless
<1>2. instances[b].kind = "begin" /\ x \in Ids' /\ x # 0
  <2>1. instances'[b].kind = "begin" /\ x \in Ids'
    BY FlattenedStep DEF Flattened
  <2> QED
    BY <1>1, <2>1, FlatParts DEF Kept, SameKind, Basics
<1>3. Within(x, b) \/ \E L : Takes(L, x)
  BY <1>1, WithinSteps
<1>4. /\ \A q, l : Earliest(instances[b].data, q, l) => ~Within(instances[b].data[l].helpers[q].pre, b)
      /\ DataWithin(Signs, instances[b].data)
  BY <1>1, FlatParts DEF FromBefore, AllSigned
<1>5. CASE instances'[b].data = instances[b].data
  <2>1. ~Within(x, b)
    BY <1>4, <1>5
  <2>2. PICK L : Takes(L, x)
    BY <1>3, <2>1
  <2>3. k \in DOMAIN instances[b].data /\ p \in DOMAIN instances[b].data[k].helpers
    BY <1>5 DEF Earliest
  <2>4. p \in Props /\ x \in Signs[p]
    BY <1>1, <1>4, <1>5, <2>3, FlatTyped DEF DataWithin, ListWithin
  <2> QED
    BY <2>2, <2>4, TakenUnsigned DEF Signs
<1>6. ASSUME NEW t \in Threads, ReturnEffect(t, b) PROVE FALSE
  <2>1. Depth > 1 /\ b = Inst(2) /\ instances'[b].children = instances[b].children
    BY <1>1, <1>6, FlatReturns
  <2>2. instances[b].children = <<>>
    BY <2>1, FlatParts DEF LeafRuns
  <2> QED
    BY <2>1, <2>2 DEF Within
<1>7. ASSUME Depth > 1, Inst(2) \in Ids, Inst(2) # b, NEW m \in BOOLEAN,
             instances'[b].data = Consolidate(instances[b].data,
                                    <<[mergeable |-> m, helpers |-> instances[Inst(2)].own]>>)
      PROVE  FALSE
  <2>1. Within(x, b)
    <3>1. ASSUME NEW L, Takes(L, x) PROVE FALSE
      <4>1. Depth = 1
        BY <3>1, FlatParts, FlatTakes
      <4> QED
        BY <1>7, <4>1
    <3> QED
      BY <1>3, <3>1
  <2>2. \/ Earliest(instances[b].data, p, k) /\ x = instances[b].data[k].helpers[p].pre
        \/ /\ p \notin Written(instances[b].data) /\ p \in DOMAIN instances[Inst(2)].own
           /\ x = instances[Inst(2)].own[p].pre
    <3>1. PICK new : new = instances'[b].data
      OBVIOUS
    <3>2. Earliest(new, p, k) /\ x = new[k].helpers[p].pre
      BY <3>1
    <3>3. PICK v : v = Inst(2)
      OBVIOUS
    <3>4. v \in Ids /\ new = Consolidate(instances[b].data,
                                  <<[mergeable |-> m, helpers |-> instances[v].own]>>)
      BY <1>7, <3>1, <3>3
    <3>5. \A q, l : Earliest(new, q, l) =>
            \/ /\ Earliest(instances[b].data, q, l)
               /\ new[l].helpers[q].pre = instances[b].data[l].helpers[q].pre
            \/ /\ q \notin Written(instances[b].data) /\ q \in DOMAIN instances[v].own
               /\ new[l].helpers[q].pre = instances[v].own[q].pre
      BY <1>1, <3>4, OneHanded
    <3> QED
      BY <3>2, <3>3, <3>5
  <2>3. p \notin Written(instances[b].data) /\ p \in DOMAIN instances[Inst(2)].own
        /\ x = instances[Inst(2)].own[p].pre
    BY <1>4, <2>1, <2>2
  <2>4. x # Inst(2)
    BY <1>7, <2>3, FlatParts DEF OwnBefore
  <2>5. p \in Props /\ x \in Signs[p]
    BY <1>7, <2>3, FlatTyped, FlatParts DEF AllSigned, ListWithin
  <2>6. Writer(x) /\ p \in DOMAIN instances[x].own
    BY <1>2, <2>5 DEF Signs, Signed
  <2>7. DOMAIN instances[x].own \subseteq Written(instances[b].data)
    BY <1>1, <2>1, <2>4, <2>6, FlatParts DEF HandedOver
  <2> QED
    BY <2>3, <2>6, <2>7
<1> QED
  BY <1>1, <1>2, <1>5, <1>6, <1>7, DataFlow

\* Steps keep OwnBefore.
LEMMA OwnBeforeStep ==
  ASSUME Flat, FlatStep
  PROVE  OwnBefore'
<1> SUFFICES ASSUME NEW i \in Ids', NEW p \in DOMAIN instances'[i].own,
                    NEW x, x = instances'[i].own[p].pre
             PROVE  x # i /\ ~Within(x, i)'
  BY DEF OwnBefore, Within
<1>1. i \in Ids
  <2>1. ASSUME i \notin Ids PROVE FALSE
    <3>1. instances'[i].own = NoHelpers
      BY <2>1, FlatParts, NewInstance
    <3> QED
      BY <3>1 DEF NoHelpers
  <2> QED
    BY <2>1
<1>2. p \in Props /\ i # 0
  BY <1>1, FlatTyped, FlatParts DEF Basics
<1>3. CASE p \in DOMAIN instances[i].own /\ x = instances[i].own[p].pre
  <2>1. x # i /\ ~Within(x, i)
    BY <1>1, <1>3, FlatParts DEF OwnBefore
  <2>2. x \in Signs[p]
    BY <1>1, <1>3, FlatParts DEF AllSigned, ListWithin
  <2>3. ~\E L : Takes(L, x)
    BY <1>2, <2>2, TakenUnsigned DEF Signs
  <2> QED
    BY <1>1, <2>1, <2>3, WithinSteps
<1>4. CASE p \notin DOMAIN instances[i].own /\ Depth > 1 /\ i = Inst(2) /\ x = document[p]
  <2>1. x \in Signs[p]
    BY <1>2, <1>4, FlatParts DEF AllSigned, DocWithin
  <2>2. x # i
    BY <1>2, <1>4, <2>1 DEF Signs, Signed
  <2>3. ~Within(x, i)
    BY <1>4, FlatParts DEF LeafRuns, Within
  <2>4. ~\E L : Takes(L, x)
    BY <1>2, <2>1, TakenUnsigned DEF Signs
  <2> QED
    BY <1>1, <2>2, <2>3, <2>4, WithinSteps
<1> QED
  BY <1>1, <1>3, <1>4, OwnSteps

-----------------------------------------------------------------------------
(* Every step keeps it *)

\* Steps keep EInv.
LEMMA EInvStep ==
  ASSUME Flat, FlatStep
  PROVE  EInv'
<1>1. /\ Basics /\ Basics' /\ StepKind /\ Kept /\ EffectKind /\ Kinds /\ HomesCompound /\ Pristine
      /\ Returned /\ Alternates /\ Leaves /\ IInv /\ OInv /\ [Next]_vars
  BY FlatParts
<1>2. Kinds' /\ HomesCompound' /\ Pristine' /\ Returned' /\ Alternates' /\ Leaves'
  BY <1>1, KindsStep, HomesCompoundStep, PristineStep, ReturnedStep, AlternatesStep, LeavesStep
<1>3. AllSigned' /\ NoneYet' /\ WritersOk' /\ Rolls'
  BY AllSignedStep, NoneYetStep, WritersOkStep, RollsStep
<1>4. QueuedAlone' /\ Flattened' /\ LeafRuns'
  BY QueuedAloneStep, FlattenedStep, LeafRunsStep
<1>5. HandedOver' /\ FromBefore' /\ OwnBefore'
  BY HandedOverStep, FromBeforeStep, OwnBeforeStep
<1> QED
  BY <1>2, <1>3, <1>4, <1>5 DEF EInv

\* Before anything is queued every value is the initial one.
LEMMA EInvInit == Init => EInv
<1> SUFFICES ASSUME Init PROVE EInv
  OBVIOUS
<1>1. /\ instances = <<>> /\ commandFrames = <<MakeFrame(Root)>> /\ document = Blank
      /\ \A t \in Threads : stack[t] = <<>>
  BY DEF Init, Blank
<1>2. Ids = {} /\ Count = 0
  BY <1>1 DEF Ids, Count
<1>3. Depth = 1 /\ Groups(1) = <<Root>> /\ Queue(1) = <<>> /\ Open(1) = <<Root>>
  BY <1>1 DEF Depth, Groups, Queue, Open, MakeFrame
<1>4. \A t \in Threads : DOMAIN stack[t] = {}
  BY <1>1
<1>5. \A t \in Threads : \A k, at, i : ~Does(t, k, at, i)
  BY <1>4 DEF Does
<1>6. Returned /\ Rolls
  BY <1>5 DEF Returned, Rolls
<1>7. Kinds /\ HomesCompound /\ Pristine /\ NoneYet /\ QueuedAlone /\ Flattened /\ HandedOver
      /\ FromBefore /\ OwnBefore
  BY <1>2 DEF Kinds, HomesCompound, Pristine, NoneYet, QueuedAlone, Flattened, HandedOver,
     FromBefore, OwnBefore
<1>8. WritersOk
  BY <1>2 DEF WritersOk, Writer
<1>9. Leaves
  <2>1. Len(<<Root>>) = 1 /\ Len(<<>>) = 0
    OBVIOUS
  <2> QED
    BY <1>3, <2>1 DEF Leaves
<1>10. LeafRuns
  BY <1>3 DEF LeafRuns
<1>11. Alternates
  <2>1. Len(<<Root>>) = 1 /\ Len(<<>>) = 0
    OBVIOUS
  <2>2. Standing(1) = 1 /\ Len(Queue(1)) = 0
    BY <1>3, <2>1 DEF Standing
  <2>3. ~Opens(0)
    BY <2>2 DEF Opens
  <2>4. \A a, b \in 0 .. 0 + 1 : a < b => a = 0
    OBVIOUS
  <2>5. Apart
    <3> SUFFICES ASSUME NEW a \in 0 .. Len(Queue(1)) + 1, NEW b \in 0 .. Len(Queue(1)) + 1,
                        a < b, Opens(a)
                 PROVE  FALSE
      BY DEF Apart
    <3>1. a \in 0 .. 0 + 1 /\ b \in 0 .. 0 + 1
      BY <2>2
    <3> QED
      BY <2>3, <2>4, <3>1
  <2>6. Len(Groups(1)) <= 2
    <3>1. PICK m : m = Len(Groups(1))
      OBVIOUS
    <3>2. m = 1
      BY <1>3, <2>1, <3>1, Zenon
    <3>3. m <= 2
      BY <3>2
    <3> QED
      BY <3>1, <3>3, Zenon
  <2> QED
    BY <2>5, <2>6 DEF Alternates
<1>12. AllSigned
  <2>1. DocWithin(Signs, document)
    <3>1. \A p \in Props : document[p] = 0
      BY <1>1 DEF Blank
    <3> QED
      BY <1>2, <3>1 DEF DocWithin, Signs, Signed
  <2> QED
    BY <1>2, <2>1 DEF AllSigned
<1> QED
  BY <1>6, <1>7, <1>8, <1>9, <1>10, <1>11, <1>12 DEF EInv

-----------------------------------------------------------------------------
(* The commands of a batch *)

\* In such an application they are the batch and its children.
LEMMA FlatMembers ==
  ASSUME IInv, OInv, Flattened, NEW i \in Ids
  PROVE  \A v \in Members(i) : v = i \/ Within(v, i)
<1>0. Basics /\ \A j \in Ids : Listed(instances[j].children)
  BY BasicsHold DEF OInv, Recorded, InstanceRecord
<1>1. PICK all : all = {v \in Ids : v = i \/ Within(v, i)}
  OBVIOUS
<1>2. \A j \in Ids : \A v : v \in Range(instances[j].children) <=> Within(v, j)
  BY DEF Range, Within
<1>3. ASSUME NEW j \in all PROVE \A v \in Range(instances[j].children) : v \in all
  <2>1. j \in Ids /\ (j = i \/ Within(j, i))
    BY <1>1
  <2>2. CASE j = i
    BY <1>1, <1>2, <2>1, <2>2 DEF Flattened
  <2>3. CASE Within(j, i)
    <3>1. instances[j].kind = "set"
      BY <2>3 DEF Flattened
    <3>2. \A v : ~Within(v, j)
      BY <2>1, <3>1 DEF Flattened
    <3> QED
      BY <1>2, <2>1, <3>2
  <2> QED
    BY <2>1, <2>2, <2>3
<1>4. PICK one : one = {i} \cup UNION {Range(instances[j].children) : j \in {i}}
  OBVIOUS
<1>5. i \in all /\ one \subseteq all /\ i \in one
  BY <1>1, <1>3, <1>4
<1>6. one \cup UNION {Range(instances[j].children) : j \in one} = one
  <2>1. ASSUME NEW j \in one, NEW v \in Range(instances[j].children) PROVE v \in one
    <3>1. CASE j = i
      BY <1>4, <2>1, <3>1
    <3>2. CASE j # i
      <4>1. j \in Ids /\ Within(j, i)
        BY <1>1, <1>5, <3>2
      <4>2. instances[j].kind = "set"
        BY <4>1 DEF Flattened
      <4> QED
        BY <1>2, <2>1, <4>1, <4>2 DEF Flattened
    <3> QED
      BY <3>1, <3>2
  <2> QED
    BY <2>1
<1> DEFINE reached == CHOOSE f : f = [n \in Nat |->
              IF n = 0 THEN {i}
              ELSE f[n - 1] \cup UNION {Range(instances[j].children) : j \in f[n - 1]}]
           some == [n \in Nat |-> IF n = 0 THEN {i} ELSE one]
<1>7. some = [n \in Nat |-> IF n = 0 THEN {i}
              ELSE some[n - 1] \cup UNION {Range(instances[j].children) : j \in some[n - 1]}]
  <2>1. ASSUME NEW n \in Nat, n # 0
        PROVE  one = some[n - 1] \cup UNION {Range(instances[j].children) : j \in some[n - 1]}
    <3>1. CASE n = 1
      <4>1. some[n - 1] = {i}
        BY <3>1
      <4> HIDE DEF some
      <4> QED
        BY <1>4, <4>1
    <3>2. CASE n # 1
      <4>1. some[n - 1] = one
        BY <2>1, <3>2
      <4> HIDE DEF some
      <4> QED
        BY <1>6, <4>1
    <3> QED
      BY <3>1, <3>2
  <2> QED
    BY <2>1
<1>8. reached = [n \in Nat |-> IF n = 0 THEN {i}
              ELSE reached[n - 1] \cup UNION {Range(instances[j].children) : j \in reached[n - 1]}]
  <2>1. \E f : f = [n \in Nat |-> IF n = 0 THEN {i}
              ELSE f[n - 1] \cup UNION {Range(instances[j].children) : j \in f[n - 1]}]
    <3> HIDE DEF some, reached
    <3> QED
      BY <1>7
  <2> HIDE DEF some
  <2> QED
    BY <2>1
<1>9. Members(i) = reached[Count]
  BY DEF Members, Count
<1> HIDE DEF reached, some
<1>10. reached[0] = {i} /\ \A n \in Nat : n + 1 \in Nat /\ reached[n + 1] =
          reached[n] \cup UNION {Range(instances[j].children) : j \in reached[n]}
  <2>1. \A n \in Nat : n + 1 \in Nat /\ n + 1 # 0 /\ (n + 1) - 1 = n
    OBVIOUS
  <2>2. \A m \in Nat : reached[m] = IF m = 0 THEN {i}
          ELSE reached[m - 1] \cup UNION {Range(instances[j].children) : j \in reached[m - 1]}
    BY <1>8, Zenon
  <2>3. 0 \in Nat
    OBVIOUS
  <2>4. reached[0] = {i}
    BY <2>2, <2>3
  <2>5. ASSUME NEW n \in Nat
        PROVE  reached[n + 1] = reached[n] \cup UNION {Range(instances[j].children) : j \in reached[n]}
    <3>1. PICK m \in Nat : m = n + 1 /\ m # 0 /\ m - 1 = n
      BY <2>1
    <3>2. reached[m] = reached[m - 1] \cup UNION {Range(instances[j].children) : j \in reached[m - 1]}
      BY <2>2, <3>1
    <3> QED
      BY <3>1, <3>2
  <2> QED
    BY <2>1, <2>4, <2>5
<1>11. PICK S : S = {n \in Nat : reached[n] \subseteq all}
  OBVIOUS
<1>12. 0 \in S /\ \A n \in Nat : n \in S => n + 1 \in S
  BY <1>3, <1>5, <1>10, <1>11
<1>13. Nat \subseteq S
  BY <1>12, Induction
<1>14. Members(i) \subseteq all
  BY <1>0, <1>9, <1>11, <1>13 DEF Basics
<1> QED
  BY <1>1, <1>14

-----------------------------------------------------------------------------
(* The end of a roll back *)

\* A roll back ends in its own step only.
LEMMA RollbackAlone ==
  ASSUME StackShape, [Next]_vars, NEW t \in Threads, At(t, "rollback"),
         stack'[t] = Front(stack[t])
  PROVE  Rollback(t)
<1>1. stack'[t] # stack[t]
  <2>1. Listed(stack[t]) /\ stack[t] # <<>>
    BY DEF StackShape, At, Running
  <2>2. PICK n : n = Len(stack[t])
    OBVIOUS
  <2>3. n \in Nat /\ Len(Front(stack[t])) = n - 1
    BY <2>1, <2>2, ListedFront
  <2>4. n - 1 # n
    BY <2>3
  <2> QED
    BY <2>2, <2>3, <2>4
<1>2. stack = [u \in Threads |-> stack[u]]
  BY DEF StackShape
<1>3. ~UNCHANGED stack
  BY <1>1
<1>4. ASSUME NEW u \in Threads, u # t
      PROVE  ~Pop(u) /\ \A acts : ~Push(u, acts) /\ ~ReplaceTop(u, acts)
  BY <1>1, <1>2, <1>4 DEF Pop, Push, ReplaceTop
<1>5. ASSUME NEW u \in Threads, ThreadStep(u) PROVE u = t /\ Rollback(t)
  <2>1. u = t
    <3>1. ASSUME NEW kind, NEW class, NEW target, NEW rest, QueueCommand(u, kind, class, target, rest)
          PROVE  \E acts : Push(u, acts)
      BY <3>1 DEF QueueCommand
    <3>2. Pop(u) \/ \E acts : Push(u, acts) \/ ReplaceTop(u, acts)
      <4>1. CASE LoopEnds(u) \/ TakeCommand(u) \/ TakeUndoRedo(u) \/ ExecWait(u) \/ Execute(u)
        BY <4>1 DEF LoopEnds, TakeCommand, TakeUndoRedo, ExecWait, Execute
      <4>2. CASE ExecWrite(u)
        BY <1>3, <4>2 DEF ExecWrite
      <4>3. CASE ExecQueue(u)
        BY <3>1, <4>3 DEF ExecQueue
      <4>4. CASE ExecBatch(u)
        BY <3>1, <4>4 DEF ExecBatch
      <4>5. CASE SpinProcess(u) \/ Rollback(u) \/ WaitProcess(u) \/ WaitStart(u)
        BY <4>5 DEF SpinProcess, Rollback, WaitProcess, WaitStart
      <4>6. CASE WaitNext(u) \/ Flush(u)
        BY <4>6 DEF WaitNext, Flush
      <4>7. CASE PopFrame(u)
        BY <4>7 DEF PopFrame
      <4> QED
        BY <1>5, <4>1, <4>2, <4>3, <4>4, <4>5, <4>6, <4>7 DEF ThreadStep
    <3> QED
      BY <1>4, <3>2
  <2> QED
    BY <1>5, <2>1 DEF At, ThreadStep, LoopEnds, TakeCommand, TakeUndoRedo, Executing, ExecWrite,
       ExecQueue, ExecBatch, ExecWait, Execute, SpinProcess, PopFrame, WaitProcess, WaitNext,
       WaitStart, Flush
<1>6. Owner \in Threads /\ Worker \in Threads /\ (t = Owner \/ t = Worker)
  BY DEF Threads
<1>7. CASE OwnerStep
  <2>1. ~UndoEntry /\ ~RedoEntry
    BY <1>3 DEF UndoEntry, RedoEntry
  <2>2. CASE t = Owner
    BY <1>5, <1>6, <1>7, <2>2 DEF At, OwnerStep, UndoCall, RedoCall, UndoEntry, RedoEntry,
       UndoRedoDone, UndoRedoFails, MoveDone, RemoveCall, UpdateDone, FiniExit, FiniJoin
  <2>3. CASE t # Owner
    <3>1. ~UndoCall /\ ~RedoCall
      BY <1>1, <1>2, <1>6, <2>3 DEF UndoCall, RedoCall, MoveCommandIndex
    <3>2. ~UndoRedoDone /\ ~UndoRedoFails /\ ~MoveDone /\ ~RemoveCall /\ ~UpdateDone /\ ~FiniExit
          /\ ~FiniJoin
      BY <1>4, <1>6, <2>3 DEF UndoRedoDone, UndoRedoFails, MoveDone, RemoveCall, UpdateDone,
         FiniExit, FiniJoin
    <3> QED
      BY <1>5, <1>6, <1>7, <2>1, <3>1, <3>2 DEF OwnerStep
  <2> QED
    BY <2>2, <2>3
<1>8. CASE WorkerStep
  <2>1. CASE ThreadStep(Worker)
    BY <1>5, <1>6, <2>1
  <2>2. CASE WorkerTurn \/ WorkerWoken
    <3>1. Push(Worker, <<Act("loop", Root)>>)
      BY <1>3, <2>2 DEF WorkerTurn, WorkerWoken
    <3>2. t = Worker
      BY <1>4, <1>6, <3>1
    <3>3. stack'[t] = stack[t] \o <<Act("loop", Root)>>
      BY <1>2, <1>6, <3>1, <3>2 DEF Push
    <3>4. Listed(stack[t]) /\ stack[t] # <<>>
      BY DEF StackShape, At, Running
    <3>5. PICK act : act = <<Act("loop", Root)>>
      OBVIOUS
    <3>6. Listed(act) /\ Len(act) = 1
      BY <3>5, TuplesListed
    <3>7. PICK n : n = Len(stack[t])
      OBVIOUS
    <3>8. n \in Nat /\ Len(Front(stack[t])) = n - 1 /\ Len(stack[t] \o act) = n + 1
      <4>1. n \in Nat /\ Len(Front(stack[t])) = n - 1
        BY <3>4, <3>7, ListedFront
      <4>2. Len(stack[t] \o act) = n + 1
        <5>1. Len(stack[t] \o act) = Len(stack[t]) + Len(act)
          BY <3>4, <3>6, ListedConcat
        <5> QED
          BY <3>6, <3>7, <5>1, Zenon
      <4> QED
        BY <4>1, <4>2
    <3>9. n - 1 # n + 1
      BY <3>8
    <3> QED
      BY <3>3, <3>5, <3>8, <3>9
  <2> QED
    BY <1>8, <2>1, <2>2 DEF WorkerStep
<1>9. CASE AppStep
  <2>1. stack[Owner] = <<>>
    BY <1>9 DEF AppStep, AppQueue, AppBatch, AppWait, AppUndo, AppRedo, AppMove, AppRemove, AppFlush,
       AppUpdate, AppFini, MayMove, Idle
  <2>2. t # Owner
    BY <2>1 DEF At, Running
  <2>3. ~\E acts : Push(Owner, acts)
    BY <1>4, <1>6, <2>2
  <2>4. CASE AppMove
    BY <1>1, <1>2, <1>6, <2>2, <2>4 DEF AppMove, MoveCommandIndex
  <2>5. CASE AppQueue \/ AppBatch \/ AppFini
    BY <2>3, <2>5 DEF AppQueue, AppBatch, AppFini, QueueCommand
  <2> QED
    BY <1>9, <2>3, <2>4, <2>5 DEF AppStep, AppWait, AppUndo, AppRedo, AppRemove, AppFlush, AppUpdate
<1> QED
  BY <1>3, <1>7, <1>8, <1>9 DEF Next, vars

\* What a batch has written is gone when its roll back ends.
LEMMA Erases ==
  ASSUME Flat, FlatStep, NEW t \in Threads, At(t, "rollback"), stack'[t] = Front(stack[t]),
         NEW p \in Props
  PROVE  document'[p] \notin Members(Top(t).inst)
<1>1. PICK i : i = Top(t).inst
  OBVIOUS
<1>2. IInv /\ OInv /\ StackShape /\ Recorded /\ Basics /\ [Next]_vars
  BY FlatParts DEF IInv, Shape, OInv
<1>3. RollbackEffect(t, i)
  <2>1. Rollback(t)
    BY <1>2, RollbackAlone
  <2> QED
    BY <1>1, <1>2, <2>1, RollbackExact DEF Flat
<1>4. PICK k : Does(t, k, "rollback", i)
  BY <1>3 DEF RollbackEffect
<1>5. i \in Ids /\ ~InGroup(i) /\ ~Writer(i) /\ i # 0
  <2>1. i \in Ids /\ ~InGroup(i)
    BY <1>2, <1>4 DEF OInv, Ordered, Statuses, Holding
  <2>2. ~Writer(i)
    BY <1>4, FlatParts DEF Rolls
  <2> QED
    BY <1>2, <2>1, <2>2 DEF Basics
<1>6. document' = Undo(instances[i].data, document)
  BY <1>3 DEF RollbackEffect
<1>7. /\ document \in Docs(Values) /\ instances[i].data \in DataOf(Values)
      /\ \A l \in DOMAIN instances[i].data : DOMAIN instances[i].data[l].helpers \subseteq Props
  BY <1>5, FlatTyped
<1>8. /\ p \notin Written(instances[i].data) => document'[p] = document[p]
      /\ p \in Written(instances[i].data) =>
           \E l : Earliest(instances[i].data, p, l)
                  /\ document'[p] = instances[i].data[l].helpers[p].pre
  BY <1>6, <1>7, UndoWrites
<1>9. DocWithin(Signs, document) /\ DataWithin(Signs, instances[i].data)
  BY <1>5, FlatParts DEF AllSigned
<1>10. PICK x : x = document'[p]
  OBVIOUS
<1>11. x \in Signs[p] /\ ~Within(x, i)
  <2>1. CASE p \in Written(instances[i].data)
    <3>1. PICK l : Earliest(instances[i].data, p, l) /\ x = instances[i].data[l].helpers[p].pre
      BY <1>8, <1>10, <2>1
    <3>2. l \in DOMAIN instances[i].data /\ p \in DOMAIN instances[i].data[l].helpers
      BY <3>1 DEF Earliest
    <3>3. x \in Signs[p]
      BY <1>9, <3>1, <3>2 DEF DataWithin, ListWithin
    <3>4. ~Within(x, i)
      BY <1>5, <3>1, FlatParts DEF FromBefore
    <3> QED
      BY <3>3, <3>4
  <2>2. CASE p \notin Written(instances[i].data)
    <3>1. x = document[p] /\ x \in Signs[p]
      BY <1>8, <1>9, <1>10, <2>2 DEF DocWithin
    <3>2. ASSUME Within(x, i) PROVE FALSE
      <4>1. x \in Ids /\ x # 0
        BY <1>2, <1>5, <3>2, FlatParts DEF Flattened, Basics
      <4>2. Writer(x) /\ p \in DOMAIN instances[x].own
        BY <3>1, <4>1 DEF Signs, Signed
      <4>3. Depth > 1 /\ x = Inst(2)
        BY <1>5, <2>2, <3>2, <4>2, FlatParts DEF HandedOver
      <4>4. i = Latest(1)
        BY <1>5, <3>2, <4>3, FlatParts DEF LeafRuns
      <4>5. Len(Groups(1)) \in Nat /\ Len(Groups(1)) > 0 /\ Groups(1)[1] = Root /\ 1 \in 1 .. Depth
        BY FlatParts, RootQueue DEF OInv, Placed, Grouped, Basics, FramesSized, Sized
      <4>6. Len(Groups(1)) \in 2 .. Len(Groups(1))
        BY <1>5, <4>4, <4>5, Ends DEF Latest, Root
      <4> QED
        BY <1>5, <4>4, <4>5, <4>6 DEF InGroup, Latest
    <3> QED
      BY <3>1, <3>2
  <2> QED
    BY <2>1, <2>2
<1>12. x # i
  BY <1>5, <1>11 DEF Signs, Signed
<1>13. IInv /\ OInv /\ Flattened
  BY FlatParts
<1> QED
  BY <1>1, <1>5, <1>10, <1>11, <1>12, <1>13, FlatMembers

-----------------------------------------------------------------------------
(* Aborted batches leave no trace *)

\* Every value in the document is accounted for by the command that wrote it, and the
\* undo data of a batch write all that its commands have written, and nothing of theirs.
THEOREM TracelessInvariance ==
  ASSUME Flat
  PROVE  Spec => [](IInv /\ OInv /\ IndexInv /\ HInv /\ TInv /\ EInv)
<1> DEFINE Rest == IInv /\ OInv /\ IndexInv /\ HInv /\ TInv
<1>1. Spec => []Rest
  BY EntriesInvariance, TypeInvariance, PTL
<1>2. Init => EInv
  BY EInvInit
<1>3. ASSUME EInv, [Next]_vars, Rest, Rest' PROVE EInv'
  <2>1. FlatStep
    BY <1>3 DEF FlatStep, TInv
  <2> QED
    BY <2>1, EInvStep
<1> HIDE DEF Rest
<1>4. EInv /\ [Next]_vars /\ Rest /\ Rest' => EInv'
  BY <1>3
<1>5. Spec => [](Rest /\ EInv)
  BY <1>1, <1>2, <1>4, PTL DEF Spec
<1> QED
  BY <1>5 DEF Rest

\* An aborted batch leaves no trace: see RollbackErases. It holds for flat applications,
\* whichever threads their commands run on.
THEOREM RollbackErasesHolds ==
  ASSUME Flat
  PROVE  Spec => RollbackErases
<1> DEFINE Erased == \A t \in Threads :
             /\ At(t, "rollback") /\ stack'[t] = Front(stack[t])
             /\ document' = Undo(instances[Top(t).inst].data, document)
             => \A p \in Props : document'[p] \notin Members(Top(t).inst)
           Rest == IInv /\ OInv /\ IndexInv /\ HInv /\ TInv /\ EInv
<1>1. Spec => []Rest
  BY TracelessInvariance
<1>2. Rest /\ Rest' /\ [Next]_vars => Erased
  <2> SUFFICES ASSUME Rest, Rest', [Next]_vars PROVE Erased
    OBVIOUS
  <2>1. FlatStep
    BY DEF FlatStep, TInv
  <2> QED
    BY <2>1, Erases
<1> HIDE DEF Rest, Erased
<1>3. Erased => [Erased]_vars
  OBVIOUS
<1>4. Spec => [][Erased]_vars
  BY <1>1, <1>2, <1>3, PTL DEF Spec
<1> QED
  BY <1>4 DEF Erased, RollbackErases
=============================================================================
