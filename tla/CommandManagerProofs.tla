------------------------- MODULE CommandManagerProofs -------------------------
(***************************************************************************)
(* What the proofs about the command manager start from.  First recursion  *)
(* and the undo data: recording and merging helper lists keep the effect   *)
(* of undo and redo, for any properties, values and documents, and so do   *)
(* appending to whole undo data and consolidating them.  Then FrameDisci-  *)
(* pline and QueuedOnce, for any commands, any bounds and any use of the   *)
(* manager: a step either leaves the frames and their owners alone, or     *)
(* queues an instance, takes one out of a queue, pushes a frame or pops    *)
(* one; the lemmas treat these kinds of steps, StepPreserves sorts the     *)
(* actions into them.  The last parts say field by field what the steps    *)
(* do, and show that each keeps the order of the queues and groups, which  *)
(* CommandHistoryProofs collects into invariants.                          *)
(***************************************************************************)
EXTENDS CommandProperties, SequenceTheorems, WellFoundedInduction, TLAPS

-----------------------------------------------------------------------------
(* Induction over the natural numbers, and the functions recursion over them defines, *)
(* stated about sets instead of predicates: a set can be given to a lemma where an    *)
(* operator cannot.                                                                   *)

\* A set of numbers that is not empty has a least element.
LEMMA LeastElement ==
  ASSUME NEW S \in SUBSET Nat, S # {}
  PROVE  \E x \in S : \A y \in S : x <= y
<1> DEFINE less == {pair \in Nat \X Nat : pair[1] < pair[2]}
<1>1. IsWellFoundedOn(less, Nat)
  BY NatLessThanWellFounded DEF OpToRel
<1>2. \A x, y \in Nat : <<x, y>> \in less <=> x < y
  OBVIOUS
<1> HIDE DEF less
<1>3. PICK x \in S : \A y \in S : <<y, x>> \notin less
  BY <1>1, WFMin
<1>4. x \in Nat /\ \A y \in S : y \in Nat
  OBVIOUS
<1>5. \A y \in S : ~(y < x)
  BY <1>2, <1>3, <1>4
<1>6. \A y \in S : x <= y
  BY <1>4, <1>5
<1> QED
  BY <1>6

\* Induction: what contains 0 and the successors of its elements contains all numbers.
LEMMA Induction ==
  ASSUME NEW S, 0 \in S, \A n \in Nat : n \in S => n + 1 \in S
  PROVE  Nat \subseteq S
<1> SUFFICES ASSUME NEW n \in Nat, n \notin S PROVE FALSE
  OBVIOUS
<1>1. PICK x \in Nat \ S : \A y \in Nat \ S : x <= y
  BY LeastElement
<1>2. x - 1 \in Nat /\ x - 1 \in S
  BY <1>1
<1> QED
  BY <1>2

\* Induction up to n.
LEMMA InductionUpTo ==
  ASSUME NEW n \in Nat, NEW S, 0 \in S, \A k \in 1 .. n : k - 1 \in S => k \in S
  PROVE  0 .. n \subseteq S
<1> DEFINE T == {k \in Nat : k <= n => k \in S}
<1>1. 0 \in T
  OBVIOUS
<1>2. ASSUME NEW k \in Nat, k \in T PROVE k + 1 \in T
  <2> SUFFICES ASSUME k + 1 <= n PROVE k + 1 \in S
    OBVIOUS
  <2>1. k \in S /\ k + 1 \in 1 .. n /\ (k + 1) - 1 = k
    BY <1>2
  <2> QED
    BY <2>1
<1>3. Nat \subseteq T
  <2> HIDE DEF T
  <2> QED
    BY <1>1, <1>2, Induction
<1> QED
  BY <1>3

\* What happens to a value of V in each of n steps.
Steps(n, V) == [1 .. n -> [V -> V]]

\* f records the values of V from the first one on.
Run(f, n, V, first, step) ==
  f \in [0 .. n -> V] /\ f[0] = first /\ \A k \in 1 .. n : f[k] = step[k][f[k - 1]]

\* Recursion: steps can be run from any first value.
LEMMA RecursionExists ==
  ASSUME NEW n \in Nat, NEW V, NEW first \in V, NEW step \in Steps(n, V)
  PROVE  \E f : Run(f, n, V, first, step)
<1> USE DEF Steps
<1> DEFINE S == {m \in 0 .. n : \E f : Run(f, m, V, first, step)}
<1>1. 0 \in S
  <2>1. Run([k \in 0 .. 0 |-> first], 0, V, first, step)
    BY DEF Run
  <2> QED
    BY <2>1
<1>2. ASSUME NEW m \in 1 .. n, m - 1 \in S PROVE m \in S
  <2>1. PICK f : Run(f, m - 1, V, first, step)
    BY <1>2
  <2> DEFINE g == [k \in 0 .. m |-> IF k = m THEN step[m][f[m - 1]] ELSE f[k]]
  <2>2. f[m - 1] \in V
    BY <2>1 DEF Run
  <2>3. step[m][f[m - 1]] \in V
    BY <2>2
  <2>4. g \in [0 .. m -> V] /\ g[0] = first
    BY <2>1, <2>3 DEF Run
  <2>5. g[m] = step[m][g[m - 1]]
    BY <2>1 DEF Run
  <2>6. \A k \in 1 .. m - 1 : g[k] = f[k] /\ g[k - 1] = f[k - 1]
    BY <2>1 DEF Run
  <2>7. \A k \in 1 .. m : g[k] = step[k][g[k - 1]]
    BY <2>1, <2>5, <2>6 DEF Run
  <2> HIDE DEF g
  <2>8. Run(g, m, V, first, step)
    BY <2>4, <2>7 DEF Run
  <2> QED
    BY <2>8
<1>3. 0 .. n \subseteq S
  <2> HIDE DEF S
  <2> QED
    BY <1>1, <1>2, InductionUpTo
<1> QED
  BY <1>3

-----------------------------------------------------------------------------
(* Why consolidation is allowed to forget who wrote what *)

\* Setting some properties while a listener records: undoing its list from the new
\* document leads where undoing the older list from the old document did
\* (PropertyAccessorWrapper keeps the first pre-value).
THEOREM RecordUndo ==
  ASSUME NEW list, NEW written, NEW doc, NEW new,
         DOMAIN new = DOMAIN doc,
         \A q \in DOMAIN doc : q \notin written => new[q] = doc[q]
  PROVE  UndoHelpers(RecordWrites(list, written, doc, new), new) = UndoHelpers(list, doc)
<1> DEFINE recorded == RecordWrites(list, written, doc, new)
<1>1. DOMAIN recorded = DOMAIN list \cup written
  BY DEF RecordWrites
<1>2. \A q \in DOMAIN list \ written : recorded[q] = list[q]
  BY DEF RecordWrites
<1>3. \A q \in written : recorded[q].pre = IF q \in DOMAIN list THEN list[q].pre ELSE doc[q]
  BY DEF RecordWrites, Record
<1> HIDE DEF recorded
<1>4. \A q \in DOMAIN doc : (IF q \in DOMAIN recorded THEN recorded[q].pre ELSE new[q]) =
                            (IF q \in DOMAIN list THEN list[q].pre ELSE doc[q])
  BY <1>1, <1>2, <1>3
<1> QED
  BY <1>4 DEF UndoHelpers, recorded

\* The recorded post-values are those of the document, so that redoing the list on
\* the document changes nothing (postSetValue follows every write).
THEOREM RecordRedo ==
  ASSUME NEW list, NEW written, NEW doc, NEW new,
         doc = [q \in DOMAIN doc |-> doc[q]], new = [q \in DOMAIN doc |-> new[q]],
         \A q \in DOMAIN doc : q \notin written => new[q] = doc[q],
         RedoHelpers(list, doc) = doc
  PROVE  RedoHelpers(RecordWrites(list, written, doc, new), new) = new
<1> DEFINE recorded == RecordWrites(list, written, doc, new)
<1>1. DOMAIN recorded = DOMAIN list \cup written /\ DOMAIN new = DOMAIN doc
  BY DEF RecordWrites
<1>2. \A q \in DOMAIN list \ written : recorded[q] = list[q]
  BY DEF RecordWrites
<1>3. \A q \in written : recorded[q].post = new[q]
  BY DEF RecordWrites, Record
<1>4. \A q \in DOMAIN doc : q \in DOMAIN list => list[q].post = doc[q]
  <2>1. \A q \in DOMAIN doc : RedoHelpers(list, doc)[q] = doc[q]
    OBVIOUS
  <2> QED
    BY <2>1 DEF RedoHelpers
<1> HIDE DEF recorded
<1>5. \A q \in DOMAIN new : (IF q \in DOMAIN recorded THEN recorded[q].post ELSE new[q]) = new[q]
  BY <1>1, <1>2, <1>3, <1>4
<1> QED
  BY <1>1, <1>5 DEF RedoHelpers, recorded

\* Undoing a merged list is undoing the child's, then the parent's
\* (consolidateUndoRedoData keeps the parent's pre-values).
THEOREM MergeUndo ==
  ASSUME NEW list, NEW child, NEW doc
  PROVE  UndoHelpers(Merge(list, child), doc) = UndoHelpers(list, UndoHelpers(child, doc))
BY DEF UndoHelpers, Merge

\* Redoing a merged list is redoing the parent's, then the child's
\* (consolidateUndoRedoData takes the child's post-values).
THEOREM MergeRedo ==
  ASSUME NEW list, NEW child, NEW doc
  PROVE  RedoHelpers(Merge(list, child), doc) = RedoHelpers(child, RedoHelpers(list, doc))
BY DEF RedoHelpers, Merge

-----------------------------------------------------------------------------
(* Frames and their owners *)

Count == Len(instances)

\* A finite sequence, whatever its elements are.
Listed(s) == s \in Seq({s[k] : k \in DOMAIN s})

ActivationRecord(a) ==
  a \in [at : {a.at}, inst : {a.inst}, prev : {a.prev}, before : {a.before}]
FrameRecord == [instance : Nat, stackQueue : Seq(Nat), commandStack : Seq(Nat),
                commandQueue : Seq(Nat)]

\* The part of the type invariant the argument needs.
StackShape ==
  /\ stack = [t \in Threads |-> stack[t]]
  /\ \A t \in Threads :
       Listed(stack[t]) /\ \A k \in DOMAIN stack[t] : ActivationRecord(stack[t][k])

Shape ==
  /\ StackShape
  /\ currentFrame = [t \in Threads |-> currentFrame[t]]
  /\ commandFrames \in Seq(FrameRecord) /\ commandFrames # <<>>
  /\ Listed(instances)

\* Every frame above the root is owned, and every owner has its frame.
Owned ==
  /\ commandFrames[1].instance = Root
  /\ FramesOwned
  /\ \A t \in Threads : \A k \in Owning(t) : \E n \in 2 .. Len(commandFrames) :
       commandFrames[n].instance = stack[t][k].inst

\* Instances tell frames and owners apart, and owners are nested like their frames.
Distinct ==
  /\ \A m, n \in DOMAIN commandFrames :
       commandFrames[m].instance = commandFrames[n].instance => m = n
  /\ OneOwner
  /\ \A t \in Threads : \A j, k \in Owning(t) : \A m, n \in DOMAIN commandFrames :
       /\ j < k
       /\ commandFrames[m].instance = stack[t][j].inst
       /\ commandFrames[n].instance = stack[t][k].inst
       => m < n

\* frame is that of the innermost owner.
Innermost(t, frame) ==
  \/ Owning(t) = {} /\ frame = (IF t = Owner THEN Root ELSE NoFrame)
  \/ \E j \in Owning(t) : frame = stack[t][j].inst /\ \A l \in Owning(t) : l <= j

\* Each activation remembers the frame to go back to.
Chained ==
  \A t \in Threads :
    /\ \A k \in Owning(t) : Enclosing(t, k, stack[t][k].prev)
    /\ Innermost(t, currentFrame[t])

\* An instance is queued once, and not while it runs.
Queued ==
  /\ \A n \in DOMAIN commandFrames : commandFrames[n].instance <= Count
  /\ \A n \in DOMAIN commandFrames : \A a \in DOMAIN commandFrames[n].commandQueue :
       /\ commandFrames[n].commandQueue[a] \in 1 .. Count
       /\ \A m \in DOMAIN commandFrames :
            commandFrames[m].instance # commandFrames[n].commandQueue[a]
  /\ \A m, n \in DOMAIN commandFrames :
       \A a \in DOMAIN commandFrames[m].commandQueue,
          b \in DOMAIN commandFrames[n].commandQueue :
         commandFrames[m].commandQueue[a] = commandFrames[n].commandQueue[b] => m = n /\ a = b

IInv == Shape /\ Owned /\ Distinct /\ Chained /\ Queued

-----------------------------------------------------------------------------
(* Sequences *)

\* A sequence is listed by its own elements.
LEMMA ListedIsSeq ==
  ASSUME NEW S, NEW s \in Seq(S)
  PROVE  Listed(s)
<1>1. s \in [1 .. Len(s) -> {s[k] : k \in DOMAIN s}]
  OBVIOUS
<1> QED
  BY <1>1 DEF Listed

\* A table with the same domain is a sequence of the same length.
LEMMA ListedDomain ==
  ASSUME NEW s, Listed(s), NEW t, t = [k \in DOMAIN s |-> t[k]]
  PROVE  Listed(t) /\ Len(t) = Len(s) /\ DOMAIN t = 1 .. Len(s) /\ Len(s) \in Nat
<1>1. DOMAIN s = 1 .. Len(s) /\ Len(s) \in Nat
  BY DEF Listed
<1>2. t \in Seq({t[k] : k \in DOMAIN t})
  BY <1>1
<1> QED
  BY <1>1, <1>2 DEF Listed

\* What concatenation does to listed sequences.
LEMMA ListedConcat ==
  ASSUME NEW s, NEW t, Listed(s), Listed(t)
  PROVE  /\ Listed(s \o t)
         /\ Len(s) \in Nat /\ Len(t) \in Nat
         /\ DOMAIN (s \o t) = 1 .. Len(s) + Len(t)
         /\ Len(s \o t) = Len(s) + Len(t)
         /\ \A k \in 1 .. Len(s) : (s \o t)[k] = s[k]
         /\ \A k \in Len(s) + 1 .. Len(s) + Len(t) : (s \o t)[k] = t[k - Len(s)]
<1> DEFINE S == {s[k] : k \in DOMAIN s} \cup {t[k] : k \in DOMAIN t}
<1>1. s \in Seq(S) /\ t \in Seq(S)
  BY DEF Listed
<1>2. s \o t \in Seq(S)
  BY <1>1
<1>3. Listed(s \o t)
  BY <1>2, ListedIsSeq
<1> HIDE DEF S
<1> QED
  BY <1>1, <1>2, <1>3

\* What dropping the last element does to one.
LEMMA ListedFront ==
  ASSUME NEW s, Listed(s), s # <<>>
  PROVE  /\ Listed(Front(s)) /\ Len(s) \in Nat /\ Len(s) > 0
         /\ Len(Front(s)) = Len(s) - 1 /\ DOMAIN Front(s) = 1 .. Len(s) - 1
         /\ \A k \in 1 .. Len(s) - 1 : Front(s)[k] = s[k]
<1> DEFINE S == {s[k] : k \in DOMAIN s}
<1>1. s \in Seq(S)
  BY DEF Listed
<1> HIDE DEF S
<1>2. Len(s) \in Nat /\ Len(s) > 0
  BY <1>1
<1>3. Len(SubSeq(s, 1, Len(s) - 1)) = Len(s) - 1
  <2>1. CASE Len(s) = 1
    BY <1>1, <2>1
  <2>2. CASE Len(s) > 1
    BY <1>1, <2>2
  <2> QED
    BY <1>2, <2>1, <2>2
<1>4. Len(Front(s)) = Len(s) - 1
  BY <1>3 DEF Front
<1>5. Front(s) \in Seq(S) /\ \A k \in 1 .. Len(s) - 1 : Front(s)[k] = s[k]
  BY <1>1, <1>2 DEF Front
<1> QED
  BY <1>2, <1>4, <1>5, ListedIsSeq

\* Front keeps the type of a sequence of instances.
LEMMA FrontOfNats ==
  ASSUME NEW s \in Seq(Nat) PROVE Front(s) \in Seq(Nat)
BY DEF Front

-----------------------------------------------------------------------------
(* Activations *)

SameOwners ==
  \A t \in Threads :
    /\ Owning(t)' = Owning(t)
    /\ \A k \in Owning(t) : stack'[t][k].inst = stack[t][k].inst
                           /\ stack'[t][k].prev = stack[t][k].prev

\* The activations of t after a step that keeps the n oldest and has no owner
\* above them.
LEMMA KeepOldest ==
  ASSUME StackShape, NEW t \in Threads, NEW new, Listed(new), NEW n \in Nat,
         n <= Len(stack[t]), n <= Len(new),
         \A k \in 1 .. n : new[k] = stack[t][k],
         \A k \in DOMAIN new :
           k > n => ActivationRecord(new[k]) /\ new[k].at \notin {"exec", "spin"},
         stack' = [stack EXCEPT ![t] = new]
  PROVE  /\ StackShape'
         /\ \A u \in Threads : u # t => stack'[u] = stack[u]
         /\ \A k : k \in Owning(t)' <=> k \in Owning(t) /\ k <= n
         /\ \A k \in Owning(t)' : stack'[t][k] = stack[t][k]
<1>1. /\ stack'[t] = new
      /\ \A u \in Threads : u # t => stack'[u] = stack[u]
      /\ stack' = [u \in Threads |-> stack'[u]]
  BY DEF StackShape
<1>2. DOMAIN new = 1 .. Len(new) /\ Len(new) \in Nat
  BY DEF Listed
<1>3. DOMAIN stack[t] = 1 .. Len(stack[t]) /\ Len(stack[t]) \in Nat
  BY DEF Listed, StackShape
<1>4. \A k \in DOMAIN new : ActivationRecord(new[k])
  BY <1>2, <1>3 DEF StackShape
<1>5. StackShape'
  <2>1. ASSUME NEW u \in Threads
        PROVE  Listed(stack'[u]) /\ \A k \in DOMAIN stack'[u] : ActivationRecord(stack'[u][k])
    <3>1. CASE u = t
      BY <3>1, <1>1, <1>4
    <3>2. CASE u # t
      BY <3>2, <1>1 DEF StackShape
    <3> QED
      BY <3>1, <3>2
  <2> QED
    BY <1>1, <2>1 DEF StackShape
<1>6. ASSUME NEW k PROVE k \in Owning(t)' <=> k \in Owning(t) /\ k <= n
  BY <1>1, <1>2, <1>3 DEF Owning
<1>7. ASSUME NEW k \in Owning(t)' PROVE stack'[t][k] = stack[t][k]
  BY <1>1, <1>2, <1>3 DEF Owning
<1> QED
  BY <1>1, <1>5, <1>6, <1>7

Quiet(acts) ==
  /\ Listed(acts)
  /\ \A k \in DOMAIN acts : ActivationRecord(acts[k]) /\ acts[k].at \notin {"exec", "spin"}

QuietAct(a) == ActivationRecord(a) /\ a.at \notin {"exec", "spin"}

\* Sequences of up to three activations that own no frame.
LEMMA QuietActs ==
  /\ Quiet(<<>>)
  /\ \A a : QuietAct(a) => Quiet(<<a>>)
  /\ \A a, b : QuietAct(a) /\ QuietAct(b) => Quiet(<<a, b>>)
  /\ \A a, b, c : QuietAct(a) /\ QuietAct(b) /\ QuietAct(c) => Quiet(<<a, b, c>>)
<1>1. Quiet(<<>>)
  <2>1. <<>> \in Seq({}) /\ DOMAIN <<>> = {}
    OBVIOUS
  <2>2. Listed(<<>>)
    BY <2>1, ListedIsSeq
  <2> QED
    BY <2>1, <2>2 DEF Quiet
<1>2. ASSUME NEW a, QuietAct(a) PROVE Quiet(<<a>>)
  <2>1. <<a>> \in Seq({a})
    OBVIOUS
  <2>2. Listed(<<a>>)
    BY <2>1, ListedIsSeq
  <2> QED
    BY <1>2, <2>2 DEF Quiet, QuietAct
<1>3. ASSUME NEW a, NEW b, QuietAct(a), QuietAct(b) PROVE Quiet(<<a, b>>)
  <2>1. <<a, b>> \in Seq({a, b})
    OBVIOUS
  <2>2. Listed(<<a, b>>)
    BY <2>1, ListedIsSeq
  <2> QED
    BY <1>3, <2>2 DEF Quiet, QuietAct
<1>4. ASSUME NEW a, NEW b, NEW c, QuietAct(a), QuietAct(b), QuietAct(c)
      PROVE  Quiet(<<a, b, c>>)
  <2>1. <<a, b, c>> \in Seq({a, b, c})
    OBVIOUS
  <2>2. Listed(<<a, b, c>>)
    BY <2>1, ListedIsSeq
  <2> QED
    BY <1>4, <2>2 DEF Quiet, QuietAct
<1> QED
  BY <1>1, <1>2, <1>3, <1>4

\* What Act makes and EXCEPT changes.
LEMMA ActQuiet ==
  ASSUME NEW at, NEW i
  PROVE  /\ ActivationRecord(Act(at, i)) /\ Act(at, i).at = at
         /\ \A x : ActivationRecord([Act(at, i) EXCEPT !.before = x])
                 /\ [Act(at, i) EXCEPT !.before = x].at = at
         /\ \A x : ActivationRecord([Act(at, i) EXCEPT !.prev = x])
                 /\ [Act(at, i) EXCEPT !.prev = x].at = at
                 /\ [Act(at, i) EXCEPT !.prev = x].prev = x
                 /\ [Act(at, i) EXCEPT !.prev = x].inst = i
BY DEF Act, ActivationRecord

\* New activations outside a command own no frame.
LEMMA ActsQuiet ==
  ASSUME NEW a, NEW i, a \notin {"exec", "spin"}
  PROVE  /\ Quiet(<<Act(a, i)>>)
         /\ \A x : Quiet(<<[Act(a, i) EXCEPT !.before = x]>>)
         /\ \A b, j : b \notin {"exec", "spin"} =>
              /\ Quiet(<<Act(a, i), Act(b, j)>>)
              /\ \A c, k : c \notin {"exec", "spin"} =>
                   Quiet(<<Act(a, i), Act(b, j), Act(c, k)>>)
<1>1. \A b, j : b \notin {"exec", "spin"} => QuietAct(Act(b, j))
  BY ActQuiet DEF QuietAct
<1>2. QuietAct(Act(a, i)) /\ \A x : QuietAct([Act(a, i) EXCEPT !.before = x])
  BY ActQuiet DEF QuietAct
<1> QED
  BY <1>1, <1>2, QuietActs

\* Pushing such activations leaves the owners alone.
LEMMA PushQuiet ==
  ASSUME StackShape, NEW t \in Threads, NEW acts, Quiet(acts), Push(t, acts)
  PROVE  StackShape' /\ SameOwners
<1> DEFINE new == stack[t] \o acts
<1>1. Listed(stack[t]) /\ Listed(acts)
  BY DEF StackShape, Quiet
<1>2. /\ Listed(new) /\ Len(stack[t]) \in Nat /\ Len(new) = Len(stack[t]) + Len(acts) /\ Len(acts) \in Nat
      /\ DOMAIN new = 1 .. Len(stack[t]) + Len(acts)
      /\ \A k \in 1 .. Len(stack[t]) : new[k] = stack[t][k]
      /\ \A k \in Len(stack[t]) + 1 .. Len(stack[t]) + Len(acts) : new[k] = acts[k - Len(stack[t])]
  BY <1>1, ListedConcat
<1>3. stack' = [stack EXCEPT ![t] = new]
  BY DEF Push
<1> HIDE DEF new
<1>4. DOMAIN stack[t] = 1 .. Len(stack[t]) /\ DOMAIN acts = 1 .. Len(acts)
  BY <1>1 DEF Listed
<1>5. \A k \in DOMAIN new : k > Len(stack[t]) =>
         ActivationRecord(new[k]) /\ new[k].at \notin {"exec", "spin"}
  <2> SUFFICES ASSUME NEW k \in DOMAIN new, k > Len(stack[t])
               PROVE  ActivationRecord(new[k]) /\ new[k].at \notin {"exec", "spin"}
    OBVIOUS
  <2>1. k - Len(stack[t]) \in DOMAIN acts /\ new[k] = acts[k - Len(stack[t])]
    BY <1>2, <1>4
  <2> QED
    BY <2>1 DEF Quiet
<1>6. Len(stack[t]) <= Len(stack[t]) /\ Len(stack[t]) <= Len(new)
  BY <1>2
<1>7. /\ StackShape'
      /\ \A u \in Threads : u # t => stack'[u] = stack[u]
      /\ \A k : k \in Owning(t)' <=> k \in Owning(t) /\ k <= Len(stack[t])
      /\ \A k \in Owning(t)' : stack'[t][k] = stack[t][k]
  BY <1>2, <1>3, <1>5, <1>6, KeepOldest
<1>8. \A k \in Owning(t) : k <= Len(stack[t])
  BY <1>4 DEF Owning
<1>9. Owning(t)' = Owning(t) /\ \A u \in Threads : u # t => Owning(u)' = Owning(u)
  BY <1>7, <1>8 DEF Owning
<1>10. \A u \in Threads : \A k \in Owning(u) : stack'[u][k] = stack[u][k]
  BY <1>7, <1>9
<1> QED
  BY <1>7, <1>9, <1>10 DEF SameOwners

\* Owner a of thread t comes or goes; other says what the activations are otherwise.
OthersKeep(t, a) ==
  /\ \A u \in Threads : u # t => Owning(u)' = Owning(u)
  /\ \A u \in Threads : \A k \in Owning(u) : u # t \/ k # a =>
       stack'[u][k].inst = stack[u][k].inst /\ stack'[u][k].prev = stack[u][k].prev

\* The top activation of t is gone, others that are no owners may have replaced it.
TopRemoved(t) ==
  /\ StackShape'
  /\ \A u \in Threads : u # t => stack'[u] = stack[u]
  /\ Owning(t)' = Owning(t) \ {Len(stack[t])}
  /\ \A k \in Owning(t)' : stack'[t][k] = stack[t][k]

\* Owners are positions of the stack.
LEMMA OwningDomain ==
  ASSUME StackShape, NEW t \in Threads
  PROVE  /\ DOMAIN stack[t] = 1 .. Len(stack[t]) /\ Len(stack[t]) \in Nat
         /\ \A k \in Owning(t) : k \in Nat /\ k <= Len(stack[t]) /\ k \in DOMAIN stack[t]
<1>1. DOMAIN stack[t] = 1 .. Len(stack[t]) /\ Len(stack[t]) \in Nat
  BY DEF StackShape, Listed
<1> QED
  BY <1>1 DEF Owning

\* TakeCommand pushes an owner.
LEMMA PushOwner ==
  ASSUME StackShape, NEW t \in Threads, NEW act, ActivationRecord(act), act.at = "exec",
         Push(t, <<act>>)
  PROVE  LET a == Len(stack[t]) + 1
         IN /\ StackShape' /\ OthersKeep(t, a) /\ a \in Nat
            /\ \A k \in Owning(t) : k \in Nat /\ k < a
            /\ Owning(t)' = Owning(t) \cup {a}
            /\ stack'[t][a] = act
<1> DEFINE n == Len(stack[t])
           new == stack[t] \o <<act>>
<1>1. /\ DOMAIN stack[t] = 1 .. n /\ n \in Nat /\ Listed(stack[t])
      /\ \A k \in Owning(t) : k \in Nat /\ k <= n
  BY OwningDomain DEF StackShape
<1>2. Listed(<<act>>) /\ Len(<<act>>) = 1 /\ <<act>>[1] = act
  <2>1. <<act>> \in Seq({act}) /\ Len(<<act>>) = 1 /\ <<act>>[1] = act
    OBVIOUS
  <2> QED
    BY <2>1, ListedIsSeq
<1>3. /\ Listed(new) /\ DOMAIN new = 1 .. n + 1
      /\ \A k \in 1 .. n : new[k] = stack[t][k]
      /\ \A k \in n + 1 .. n + 1 : new[k] = <<act>>[k - n]
  <2> HIDE DEF n
  <2> QED
    BY <1>1, <1>2, ListedConcat DEF n
<1>4. new[n + 1] = act
  BY <1>1, <1>2, <1>3
<1>5. /\ stack' = [stack EXCEPT ![t] = new]
  BY DEF Push
<1> HIDE DEF new, n
<1>6. /\ stack'[t] = new
      /\ \A u \in Threads : u # t => stack'[u] = stack[u]
      /\ stack' = [u \in Threads |-> stack'[u]]
  BY <1>5 DEF StackShape
<1>7. \A k \in DOMAIN new : ActivationRecord(new[k])
  BY <1>1, <1>3, <1>4 DEF StackShape
<1>8. StackShape'
  <2>1. ASSUME NEW u \in Threads
        PROVE  Listed(stack'[u]) /\ \A k \in DOMAIN stack'[u] : ActivationRecord(stack'[u][k])
    <3>1. CASE u = t
      BY <1>3, <1>6, <1>7, <3>1
    <3>2. CASE u # t
      BY <1>6, <3>2 DEF StackShape
    <3> QED
      BY <3>1, <3>2
  <2> QED
    BY <1>6, <2>1 DEF StackShape
<1>9. Owning(t)' = Owning(t) \cup {n + 1}
  BY <1>1, <1>3, <1>4, <1>6 DEF Owning
<1>10. \A k \in Owning(t) : stack'[t][k] = stack[t][k]
  BY <1>1, <1>3, <1>6 DEF Owning
<1>11. \A u \in Threads : u # t => Owning(u)' = Owning(u)
  BY <1>6 DEF Owning
<1>12. OthersKeep(t, n + 1)
  BY <1>6, <1>10, <1>11 DEF OthersKeep
<1>13. stack'[t][n + 1] = act /\ \A k \in Owning(t) : k < n + 1
  BY <1>1, <1>4, <1>6
<1> QED
  BY <1>1, <1>8, <1>9, <1>12, <1>13 DEF n

\* Replacing the top activation removes it.
LEMMA ReplaceRemoves ==
  ASSUME StackShape, NEW t \in Threads, Running(t), NEW acts, Quiet(acts), ReplaceTop(t, acts)
  PROVE  TopRemoved(t)
<1> DEFINE front == Front(stack[t])
           new == front \o acts
           n == Len(front)
<1>1. Listed(stack[t]) /\ Listed(acts) /\ stack[t] # <<>>
  BY DEF StackShape, Quiet, Running
<1>2. /\ Listed(front) /\ Len(stack[t]) \in Nat /\ Len(stack[t]) > 0
      /\ n = Len(stack[t]) - 1 /\ n \in Nat
      /\ \A k \in 1 .. n : front[k] = stack[t][k]
  <2>1. /\ Listed(front) /\ Len(stack[t]) \in Nat /\ Len(stack[t]) > 0
        /\ Len(front) = Len(stack[t]) - 1
        /\ \A k \in 1 .. Len(stack[t]) - 1 : front[k] = stack[t][k]
    BY <1>1, ListedFront
  <2> HIDE DEF front
  <2> QED
    BY <2>1
<1>3. stack' = [stack EXCEPT ![t] = new]
  BY DEF ReplaceTop
<1> HIDE DEF front
<1>4. /\ Listed(new) /\ Len(new) = n + Len(acts) /\ Len(acts) \in Nat
      /\ DOMAIN new = 1 .. n + Len(acts)
      /\ \A k \in 1 .. n : new[k] = front[k]
      /\ \A k \in n + 1 .. n + Len(acts) : new[k] = acts[k - n]
  BY <1>1, <1>2, ListedConcat
<1> HIDE DEF new, n
<1>5. DOMAIN acts = 1 .. Len(acts)
  BY <1>1 DEF Listed
<1>6. \A k \in DOMAIN new : k > n => ActivationRecord(new[k]) /\ new[k].at \notin {"exec", "spin"}
  <2> SUFFICES ASSUME NEW k \in DOMAIN new, k > n
               PROVE  ActivationRecord(new[k]) /\ new[k].at \notin {"exec", "spin"}
    OBVIOUS
  <2>1. n \in Nat /\ Len(acts) \in Nat /\ k \in n + 1 .. n + Len(acts)
    BY <1>2, <1>4
  <2>2. k - n \in 1 .. Len(acts)
    BY <2>1
  <2>3. new[k] = acts[k - n]
    BY <1>4, <2>1
  <2> QED
    BY <1>5, <2>2, <2>3 DEF Quiet
<1>7. n \in Nat /\ n <= Len(stack[t]) /\ n <= Len(new) /\ \A k \in 1 .. n : new[k] = stack[t][k]
  BY <1>2, <1>4
<1>8. /\ StackShape'
      /\ \A u \in Threads : u # t => stack'[u] = stack[u]
      /\ \A k : k \in Owning(t)' <=> k \in Owning(t) /\ k <= n
      /\ \A k \in Owning(t)' : stack'[t][k] = stack[t][k]
  BY <1>3, <1>4, <1>6, <1>7, KeepOldest
<1> QED
  BY <1>2, <1>8, OwningDomain DEF TopRemoved

\* Popping does, too.
LEMMA PopRemoves ==
  ASSUME StackShape, NEW t \in Threads, Running(t), Pop(t)
  PROVE  TopRemoved(t)
<1> DEFINE front == Front(stack[t])
           n == Len(stack[t]) - 1
<1>1. Listed(stack[t]) /\ stack[t] # <<>>
  BY DEF StackShape, Running
<1>2. /\ Listed(front) /\ Len(stack[t]) \in Nat /\ Len(stack[t]) > 0 /\ Len(front) = n
      /\ DOMAIN front = 1 .. n /\ \A k \in 1 .. n : front[k] = stack[t][k]
  BY <1>1, ListedFront
<1>3. stack' = [stack EXCEPT ![t] = front]
  BY DEF Pop
<1> HIDE DEF front
<1>4. \A k \in DOMAIN front : k > n =>
         ActivationRecord(front[k]) /\ front[k].at \notin {"exec", "spin"}
  BY <1>2
<1>5. n \in Nat /\ n <= Len(stack[t]) /\ n <= Len(front)
  BY <1>2
<1> HIDE DEF n
<1>6. /\ StackShape'
      /\ \A u \in Threads : u # t => stack'[u] = stack[u]
      /\ \A k : k \in Owning(t)' <=> k \in Owning(t) /\ k <= n
      /\ \A k \in Owning(t)' : stack'[t][k] = stack[t][k]
  BY <1>2, <1>3, <1>4, <1>5, KeepOldest
<1> QED
  BY <1>2, <1>6, OwningDomain DEF TopRemoved, n

\* The top activation was no owner.
LEMMA QuietTopRemoved ==
  ASSUME StackShape, NEW t \in Threads, Running(t), Top(t).at \notin {"exec", "spin"},
         TopRemoved(t)
  PROVE  StackShape' /\ SameOwners
<1>1. Len(stack[t]) \notin Owning(t)
  BY DEF Owning, Top, Last
<1>2. \A u \in Threads : u # t => Owning(u)' = Owning(u)
  BY DEF TopRemoved, Owning
<1> QED
  BY <1>1, <1>2 DEF TopRemoved, SameOwners

\* Replacing an activation that owns no frame leaves the owners alone.
LEMMA ReplaceQuiet ==
  ASSUME StackShape, NEW t \in Threads, Running(t), Top(t).at \notin {"exec", "spin"},
         NEW acts, Quiet(acts), ReplaceTop(t, acts)
  PROVE  StackShape' /\ SameOwners
BY ReplaceRemoves, QuietTopRemoved

\* So does popping one.
LEMMA PopQuiet ==
  ASSUME StackShape, NEW t \in Threads, Running(t), Top(t).at \notin {"exec", "spin"}, Pop(t)
  PROVE  StackShape' /\ SameOwners
BY PopRemoves, QuietTopRemoved

-----------------------------------------------------------------------------
(* Frames: steps that push and pop none *)

\* What Shape says of the frames and their fields.
LEMMA FrameTypes ==
  ASSUME Shape
  PROVE  /\ DOMAIN commandFrames = 1 .. Len(commandFrames) /\ Len(commandFrames) \in Nat
         /\ Len(commandFrames) \in DOMAIN commandFrames /\ 1 \in DOMAIN commandFrames
         /\ BackFrame = commandFrames[Len(commandFrames)]
         /\ \A n \in DOMAIN commandFrames :
              /\ commandFrames[n] \in FrameRecord
              /\ commandFrames[n].instance \in Nat
              /\ commandFrames[n].commandQueue \in Seq(Nat)
              /\ commandFrames[n].commandStack \in Seq(Nat)
              /\ commandFrames[n].stackQueue \in Seq(Nat)
<1>1. commandFrames \in Seq(FrameRecord) /\ commandFrames # <<>>
  BY DEF Shape
<1>2. \A n \in DOMAIN commandFrames : commandFrames[n] \in FrameRecord
  BY <1>1
<1>3. /\ DOMAIN commandFrames = 1 .. Len(commandFrames) /\ Len(commandFrames) \in Nat
      /\ Len(commandFrames) \in DOMAIN commandFrames /\ 1 \in DOMAIN commandFrames
  BY <1>1
<1> QED
  BY <1>2, <1>3 DEF FrameRecord, BackFrame, Last

\* When the frames keep their instances and the activations their owners, only the
\* queues can change.
LEMMA SameFrames ==
  ASSUME Shape, Owned, Distinct, Chained, StackShape', SameOwners,
         commandFrames' \in Seq(FrameRecord), Len(commandFrames') = Len(commandFrames),
         \A n \in DOMAIN commandFrames :
           commandFrames'[n].instance = commandFrames[n].instance,
         currentFrame' = currentFrame, Listed(instances)'
  PROVE  Shape' /\ Owned' /\ Distinct' /\ Chained'
<1>1. /\ DOMAIN commandFrames' = DOMAIN commandFrames
      /\ DOMAIN commandFrames = 1 .. Len(commandFrames)
      /\ Len(commandFrames) \in Nat /\ Len(commandFrames) > 0
  BY DEF Shape
<1>2. Shape'
  <2>1. commandFrames' # <<>>
    BY <1>1
  <2> QED
    BY <2>1 DEF Shape
<1>3. Owned'
  <2>1. 1 \in DOMAIN commandFrames /\ 2 .. Len(commandFrames) \subseteq DOMAIN commandFrames
    BY <1>1
  <2>2. commandFrames'[1].instance = Root
    BY <2>1 DEF Owned
  <2>3. FramesOwned'
    BY <2>1 DEF Owned, FramesOwned, SameOwners
  <2>4. \A t \in Threads : \A k \in Owning(t)' : \E n \in 2 .. Len(commandFrames') :
          commandFrames'[n].instance = stack'[t][k].inst
    BY <2>1 DEF Owned, SameOwners
  <2> QED
    BY <2>2, <2>3, <2>4 DEF Owned
<1>4. Distinct'
  <2>1. OneOwner'
    BY DEF Distinct, OneOwner, SameOwners
  <2> QED
    BY <1>1, <2>1 DEF Distinct, SameOwners
<1>5. Chained'
  <2> SUFFICES ASSUME NEW t \in Threads
               PROVE  /\ \A k \in Owning(t)' : Enclosing(t, k, stack[t][k].prev)'
                      /\ Innermost(t, currentFrame[t])'
    BY DEF Chained
  <2>1. \A k \in Owning(t) : Enclosing(t, k, stack[t][k].prev)'
    <3> SUFFICES ASSUME NEW k \in Owning(t) PROVE Enclosing(t, k, stack[t][k].prev)'
      OBVIOUS
    <3>1. stack'[t][k].prev = stack[t][k].prev
      BY DEF SameOwners
    <3>2. Enclosing(t, k, stack[t][k].prev)
      BY DEF Chained
    <3> QED
      BY <3>1, <3>2 DEF Enclosing, SameOwners
  <2>2. Innermost(t, currentFrame[t])'
    BY DEF Chained, Innermost, SameOwners
  <2> QED
    BY <2>1, <2>2 DEF SameOwners
<1> QED
  BY <1>2, <1>3, <1>4, <1>5

\* A step that changes neither frames nor owners.
LEMMA NeutralStep ==
  ASSUME IInv, StackShape', SameOwners, UNCHANGED <<commandFrames, currentFrame>>,
         Listed(instances)', Count' = Count
  PROVE  IInv'
<1>1. Shape' /\ Owned' /\ Distinct' /\ Chained'
  BY SameFrames DEF IInv, Shape
<1>2. Queued'
  BY DEF IInv, Queued
<1> QED
  BY <1>1, <1>2 DEF IInv

\* The first instance leaves the queue of the back frame.
LEMMA DequeueStep ==
  ASSUME IInv, StackShape', SameOwners, UNCHANGED currentFrame,
         BackFrame.commandQueue # <<>>, commandFrames' = PopFront(commandFrames),
         Listed(instances)', Count' = Count
  PROVE  IInv'
<1> DEFINE last == Len(commandFrames)
           queue == commandFrames[last].commandQueue
<1>1. /\ DOMAIN commandFrames = 1 .. last /\ last \in Nat /\ last \in DOMAIN commandFrames
      /\ commandFrames[last] \in FrameRecord /\ queue \in Seq(Nat) /\ queue # <<>>
  BY FrameTypes DEF IInv
<1>2. /\ Tail(queue) \in Seq(Nat) /\ Len(queue) \in Nat
      /\ DOMAIN Tail(queue) = 1 .. Len(queue) - 1 /\ DOMAIN queue = 1 .. Len(queue)
      /\ \A a \in DOMAIN Tail(queue) : Tail(queue)[a] = queue[a + 1] /\ a + 1 \in DOMAIN queue
  BY <1>1
<1>3. /\ DOMAIN commandFrames' = DOMAIN commandFrames
      /\ \A n \in DOMAIN commandFrames : n # last => commandFrames'[n] = commandFrames[n]
      /\ commandFrames'[last] = [commandFrames[last] EXCEPT !.commandQueue = Tail(queue)]
  BY <1>1 DEF PopFront, IInv, Shape
<1> HIDE DEF queue
<1>4. /\ commandFrames'[last] \in FrameRecord
      /\ commandFrames'[last].instance = commandFrames[last].instance
      /\ commandFrames'[last].commandQueue = Tail(queue)
  BY <1>1, <1>2, <1>3 DEF FrameRecord
<1>5. commandFrames' \in Seq(FrameRecord) /\ Len(commandFrames') = last
  BY <1>1, <1>3, <1>4 DEF PopFront, IInv, Shape
<1>6. Shape' /\ Owned' /\ Distinct' /\ Chained'
  BY <1>3, <1>4, <1>5, SameFrames DEF IInv
<1>7. Queued'
  <2> DEFINE old(n, a) == IF n = last THEN a + 1 ELSE a
  <2>1. \A n \in DOMAIN commandFrames : commandFrames'[n].instance = commandFrames[n].instance
    BY <1>3, <1>4
  <2>2. \A n \in DOMAIN commandFrames : \A a \in DOMAIN commandFrames'[n].commandQueue :
          /\ old(n, a) \in DOMAIN commandFrames[n].commandQueue
          /\ commandFrames'[n].commandQueue[a] = commandFrames[n].commandQueue[old(n, a)]
    <3> SUFFICES ASSUME NEW n \in DOMAIN commandFrames,
                        NEW a \in DOMAIN commandFrames'[n].commandQueue
                 PROVE  /\ old(n, a) \in DOMAIN commandFrames[n].commandQueue
                        /\ commandFrames'[n].commandQueue[a] =
                             commandFrames[n].commandQueue[old(n, a)]
      OBVIOUS
    <3>1. CASE n = last
      BY <1>2, <1>4, <3>1 DEF queue
    <3>2. CASE n # last
      BY <1>3, <3>2
    <3> QED
      BY <3>1, <3>2
  <2>3. \A n \in DOMAIN commandFrames :
          \A a, b \in DOMAIN commandFrames'[n].commandQueue : old(n, a) = old(n, b) => a = b
    <3> SUFFICES ASSUME NEW n \in DOMAIN commandFrames,
                        NEW a \in DOMAIN commandFrames'[n].commandQueue,
                        NEW b \in DOMAIN commandFrames'[n].commandQueue,
                        old(n, a) = old(n, b)
                 PROVE  a = b
      OBVIOUS
    <3>1. CASE n = last
      <4>1. a \in DOMAIN Tail(queue) /\ b \in DOMAIN Tail(queue)
        BY <1>4, <3>1
      <4> QED
        BY <1>2, <3>1, <4>1
    <3>2. CASE n # last
      BY <3>2
    <3> QED
      BY <3>1, <3>2
  <2> HIDE DEF old
  <2> QED
    BY <1>3, <2>1, <2>2, <2>3 DEF IInv, Queued
<1> QED
  BY <1>6, <1>7 DEF IInv

\* A new instance enters the queue of the k-th frame.
LEMMA EnqueueStep ==
  ASSUME IInv, StackShape', SameOwners, UNCHANGED currentFrame,
         NEW k \in DOMAIN commandFrames, NEW frame \in FrameRecord,
         frame.instance = commandFrames[k].instance,
         frame.commandQueue = Append(commandFrames[k].commandQueue, Count + 1),
         commandFrames' = [commandFrames EXCEPT ![k] = frame],
         Listed(instances)', Count' = Count + 1
  PROVE  IInv'
<1> DEFINE queue == commandFrames[k].commandQueue
<1>1. /\ DOMAIN commandFrames' = DOMAIN commandFrames
      /\ \A n \in DOMAIN commandFrames : n # k => commandFrames'[n] = commandFrames[n]
      /\ commandFrames'[k] = frame
      /\ commandFrames' \in Seq(FrameRecord) /\ Len(commandFrames') = Len(commandFrames)
  BY DEF IInv, Shape
<1>2. Shape' /\ Owned' /\ Distinct' /\ Chained'
  BY <1>1, SameFrames DEF IInv
<1>3. /\ queue \in Seq(Nat) /\ Count \in Nat
      /\ \A n \in DOMAIN commandFrames : commandFrames[n].instance \in Nat
  BY FrameTypes DEF IInv, Count, Shape, Listed
<1>4. /\ DOMAIN queue = 1 .. Len(queue) /\ Len(queue) \in Nat
      /\ DOMAIN frame.commandQueue = 1 .. Len(queue) + 1
      /\ \A a \in DOMAIN queue : frame.commandQueue[a] = queue[a]
      /\ frame.commandQueue[Len(queue) + 1] = Count + 1
  BY <1>3
<1>5. \A n \in DOMAIN commandFrames : commandFrames'[n].instance = commandFrames[n].instance
  BY <1>1
<1>6. \A n \in DOMAIN commandFrames : \A a \in DOMAIN commandFrames'[n].commandQueue :
        \/ n = k /\ a = Len(queue) + 1 /\ commandFrames'[n].commandQueue[a] = Count + 1
        \/ /\ a \in DOMAIN commandFrames[n].commandQueue
           /\ commandFrames'[n].commandQueue[a] = commandFrames[n].commandQueue[a]
  <2> SUFFICES ASSUME NEW n \in DOMAIN commandFrames,
                      NEW a \in DOMAIN commandFrames'[n].commandQueue
               PROVE  \/ n = k /\ a = Len(queue) + 1
                         /\ commandFrames'[n].commandQueue[a] = Count + 1
                      \/ /\ a \in DOMAIN commandFrames[n].commandQueue
                         /\ commandFrames'[n].commandQueue[a] = commandFrames[n].commandQueue[a]
    OBVIOUS
  <2>1. CASE n = k
    <3>1. commandFrames'[n].commandQueue = frame.commandQueue
      BY <1>1, <2>1
    <3>2. a \in 1 .. Len(queue) + 1
      BY <1>4, <3>1
    <3>3. CASE a = Len(queue) + 1
      BY <1>4, <2>1, <3>1, <3>3
    <3>4. CASE a \in 1 .. Len(queue)
      BY <1>4, <2>1, <3>1, <3>4
    <3> QED
      BY <1>4, <3>2, <3>3, <3>4
  <2>2. CASE n # k
    BY <1>1, <2>2
  <2> QED
    BY <2>1, <2>2
<1> HIDE DEF queue
<1>7. Queued'
  <2>1. \A n \in DOMAIN commandFrames : commandFrames'[n].instance <= Count'
    BY <1>3, <1>5 DEF IInv, Queued
  <2>2. \A n \in DOMAIN commandFrames : \A a \in DOMAIN commandFrames[n].commandQueue :
          commandFrames[n].commandQueue[a] \in 1 .. Count
    BY DEF IInv, Queued
  <2>3. \A n \in DOMAIN commandFrames : \A a \in DOMAIN commandFrames'[n].commandQueue :
          /\ commandFrames'[n].commandQueue[a] \in 1 .. Count'
          /\ \A m \in DOMAIN commandFrames :
               commandFrames'[m].instance # commandFrames'[n].commandQueue[a]
    <3> SUFFICES ASSUME NEW n \in DOMAIN commandFrames,
                        NEW a \in DOMAIN commandFrames'[n].commandQueue
                 PROVE  /\ commandFrames'[n].commandQueue[a] \in 1 .. Count'
                        /\ \A m \in DOMAIN commandFrames :
                             commandFrames[m].instance # commandFrames'[n].commandQueue[a]
      BY <1>5
    <3>1. CASE commandFrames'[n].commandQueue[a] = Count + 1
      BY <1>3, <3>1 DEF IInv, Queued
    <3>2. CASE /\ a \in DOMAIN commandFrames[n].commandQueue
               /\ commandFrames'[n].commandQueue[a] = commandFrames[n].commandQueue[a]
      BY <1>3, <3>2 DEF IInv, Queued
    <3> QED
      BY <1>6, <3>1, <3>2
  <2>4. \A m, n \in DOMAIN commandFrames :
          \A a \in DOMAIN commandFrames'[m].commandQueue,
             b \in DOMAIN commandFrames'[n].commandQueue :
            commandFrames'[m].commandQueue[a] = commandFrames'[n].commandQueue[b]
              => m = n /\ a = b
    <3> SUFFICES ASSUME NEW m \in DOMAIN commandFrames, NEW n \in DOMAIN commandFrames,
                        NEW a \in DOMAIN commandFrames'[m].commandQueue,
                        NEW b \in DOMAIN commandFrames'[n].commandQueue,
                        commandFrames'[m].commandQueue[a] = commandFrames'[n].commandQueue[b]
                 PROVE  m = n /\ a = b
      OBVIOUS
    <3>1. CASE commandFrames'[m].commandQueue[a] = Count + 1
      BY <1>3, <1>6, <2>2, <3>1
    <3>2. CASE commandFrames'[m].commandQueue[a] # Count + 1
      BY <1>6, <3>2 DEF IInv, Queued
    <3> QED
      BY <3>1, <3>2
  <2> QED
    BY <1>1, <2>1, <2>3, <2>4 DEF Queued
<1> QED
  BY <1>2, <1>7 DEF IInv

-----------------------------------------------------------------------------
(* Frames: a command starts *)

\* The first instance of the back frame's queue gets a frame and an owner on t.
LEMMA StartOwner ==
  ASSUME IInv, NEW t \in Threads, NEW a \in Nat, NEW i,
         \A k \in Owning(t) : k \in Nat /\ k < a,
         Owning(t)' = Owning(t) \cup {a}, OthersKeep(t, a),
         stack'[t][a].inst = i, stack'[t][a].prev = currentFrame[t],
         \A n \in DOMAIN commandFrames : commandFrames[n].instance # i,
         currentFrame' = [currentFrame EXCEPT ![t] = i],
         Len(commandFrames') = Len(commandFrames) + 1,
         DOMAIN commandFrames' = 1 .. Len(commandFrames) + 1,
         \A n \in DOMAIN commandFrames :
           commandFrames'[n].instance = commandFrames[n].instance,
         commandFrames'[Len(commandFrames) + 1].instance = i
  PROVE  Owned' /\ Distinct' /\ Chained'
<1> DEFINE L == Len(commandFrames)
<1>1. L \in Nat /\ L > 0 /\ DOMAIN commandFrames = 1 .. L
  BY FrameTypes DEF IInv
<1>2. \A u \in Threads : \A k \in Owning(u) :
        /\ stack'[u][k].inst = stack[u][k].inst
        /\ stack'[u][k].prev = stack[u][k].prev
        /\ stack[u][k].inst # i
  <2>1. \A u \in Threads : \A k \in Owning(u) : stack[u][k].inst # i
    BY <1>1 DEF IInv, Owned
  <2>2. a \notin Owning(t)
    OBVIOUS
  <2> QED
    BY <2>1, <2>2 DEF OthersKeep
<1>3. \A u \in Threads : \A k \in Owning(u)' : k \in Owning(u) \/ (u = t /\ k = a)
  BY DEF OthersKeep
<1>4. \A u \in Threads : Owning(u) \subseteq Owning(u)'
  BY DEF OthersKeep
<1> HIDE DEF L
<1>5. Owned'
  <2>1. FramesOwned'
    <3> SUFFICES ASSUME NEW n \in 2 .. L + 1
                 PROVE  \E u \in Threads : \E k \in Owning(u)' :
                          commandFrames'[n].instance = stack'[u][k].inst
      BY DEF FramesOwned, L
    <3>1. CASE n = L + 1
      BY <3>1 DEF L
    <3>2. CASE n \in 2 .. L
      <4>1. PICK u \in Threads : \E k \in Owning(u) : commandFrames[n].instance = stack[u][k].inst
        BY <3>2 DEF IInv, Owned, FramesOwned, L
      <4>2. PICK k \in Owning(u) : commandFrames[n].instance = stack[u][k].inst
        BY <4>1
      <4>3. commandFrames'[n].instance = commandFrames[n].instance
        BY <1>1, <3>2
      <4> QED
        BY <1>2, <1>4, <4>2, <4>3
    <3> QED
      BY <1>1, <3>1, <3>2
  <2>2. ASSUME NEW u \in Threads, NEW k \in Owning(u)'
        PROVE  \E n \in 2 .. L + 1 : commandFrames'[n].instance = stack'[u][k].inst
    <3>1. CASE u = t /\ k = a
      <4>1. L + 1 \in 2 .. L + 1
        BY <1>1
      <4> QED
        BY <3>1, <4>1 DEF L
    <3>2. CASE k \in Owning(u)
      <4>1. PICK n \in 2 .. L : commandFrames[n].instance = stack[u][k].inst
        BY <3>2 DEF IInv, Owned, L
      <4>2. n \in DOMAIN commandFrames /\ n \in 2 .. L + 1
        BY <1>1
      <4> QED
        BY <1>2, <3>2, <4>1, <4>2
    <3> QED
      BY <1>3, <3>1, <3>2
  <2>3. commandFrames'[1].instance = Root
    BY <1>1 DEF IInv, Owned
  <2> QED
    BY <2>1, <2>2, <2>3 DEF Owned, L
<1>6. Distinct'
  <2>1. \A m, n \in DOMAIN commandFrames' :
          commandFrames'[m].instance = commandFrames'[n].instance => m = n
    BY <1>1 DEF IInv, Distinct, L
  <2>2. OneOwner'
    BY <1>2, <1>3 DEF IInv, Distinct, OneOwner
  <2>3. ASSUME NEW u \in Threads, NEW j \in Owning(u)', NEW k \in Owning(u)',
               NEW m \in DOMAIN commandFrames', NEW n \in DOMAIN commandFrames',
               j < k, commandFrames'[m].instance = stack'[u][j].inst,
               commandFrames'[n].instance = stack'[u][k].inst
        PROVE  m < n
    <3>1. j \in Owning(u)
      BY <1>3, <2>3
    <3>2. m \in DOMAIN commandFrames /\ m \in 1 .. L
      BY <1>1, <1>2, <2>3, <3>1 DEF L
    <3>3. CASE u = t /\ k = a
      <4>1. n = L + 1
        BY <1>1, <2>3, <3>3 DEF L
      <4> QED
        BY <1>1, <3>2, <4>1
    <3>4. CASE k \in Owning(u)
      <4>1. n \in DOMAIN commandFrames
        BY <1>1, <1>2, <2>3, <3>4 DEF L
      <4> QED
        BY <1>2, <2>3, <3>1, <3>2, <3>4, <4>1 DEF IInv, Distinct
    <3> QED
      BY <1>3, <3>3, <3>4
  <2> QED
    BY <2>1, <2>2, <2>3 DEF Distinct
<1>7. Chained'
  <2> SUFFICES ASSUME NEW u \in Threads
               PROVE  /\ \A k \in Owning(u)' : Enclosing(u, k, stack[u][k].prev)'
                      /\ Innermost(u, currentFrame[u])'
    BY DEF Chained
  <2>1. CASE u # t
    <3>1. \A k \in Owning(u) : Enclosing(u, k, stack[u][k].prev)
      BY DEF IInv, Chained
    <3>2. \A k \in Owning(u) : Enclosing(u, k, stack[u][k].prev)'
      BY <1>2, <2>1, <3>1 DEF Enclosing, OthersKeep
    <3>3. Innermost(u, currentFrame[u])'
      BY <1>2, <2>1 DEF IInv, Chained, Innermost, OthersKeep, Shape
    <3> QED
      BY <2>1, <3>2, <3>3 DEF OthersKeep
  <2>2. CASE u = t
    <3>1. ASSUME NEW k \in Owning(t) PROVE Enclosing(t, k, stack[t][k].prev)'
      <4>1. Enclosing(t, k, stack[t][k].prev)
        BY DEF IInv, Chained
      <4>2. k < a
        OBVIOUS
      <4> QED
        BY <1>2, <4>1, <4>2 DEF Enclosing
    <3>2. Enclosing(t, a, stack[t][a].prev)'
      <4>1. Innermost(t, currentFrame[t])
        BY DEF IInv, Chained
      <4> QED
        BY <1>2, <4>1 DEF Innermost, Enclosing
    <3>3. Innermost(t, currentFrame[t])'
      <4>1. currentFrame'[t] = i
        BY DEF IInv, Shape
      <4>2. \A l \in Owning(t)' : l <= a
        OBVIOUS
      <4> QED
        BY <4>1, <4>2 DEF Innermost
    <3> QED
      BY <2>2, <3>1, <3>2, <3>3
  <2> QED
    BY <2>1, <2>2
<1> QED
  BY <1>5, <1>6, <1>7

\* What that means for the queues.
LEMMA StartQueued ==
  ASSUME IInv, BackFrame.commandQueue # <<>>, NEW i, i = BackFrame.commandQueue[1],
         Count' = Count,
         DOMAIN commandFrames' = 1 .. Len(commandFrames) + 1,
         \A n \in DOMAIN commandFrames :
           commandFrames'[n].instance = commandFrames[n].instance,
         \A n \in DOMAIN commandFrames : n # Len(commandFrames) =>
           commandFrames'[n].commandQueue = commandFrames[n].commandQueue,
         commandFrames'[Len(commandFrames)].commandQueue = Tail(BackFrame.commandQueue),
         commandFrames'[Len(commandFrames) + 1].instance = i,
         commandFrames'[Len(commandFrames) + 1].commandQueue = <<>>
  PROVE  Queued' /\ i \in 1 .. Count
         /\ \A n \in DOMAIN commandFrames : commandFrames[n].instance # i
<1> DEFINE last == Len(commandFrames)
           queue == BackFrame.commandQueue
           shift(n) == IF n = last THEN 1 ELSE 0
<1>1. /\ DOMAIN commandFrames = 1 .. last /\ last \in Nat /\ last > 0
      /\ queue = commandFrames[last].commandQueue
      /\ \A n \in DOMAIN commandFrames : commandFrames[n].commandQueue \in Seq(Nat)
  BY FrameTypes DEF IInv
<1>2. queue \in Seq(Nat) /\ queue # <<>>
  BY <1>1
<1> HIDE DEF queue
<1>3. /\ 1 \in DOMAIN queue
      /\ \A a \in DOMAIN Tail(queue) :
           a + 1 \in DOMAIN queue /\ a \in Nat /\ a > 0 /\ Tail(queue)[a] = queue[a + 1]
  BY <1>2
<1>4. i = queue[1] /\ commandFrames'[last].commandQueue = Tail(queue)
  BY DEF queue
<1> HIDE DEF last
<1>5. i \in 1 .. Count /\ \A n \in DOMAIN commandFrames : commandFrames[n].instance # i
  BY <1>1, <1>3, <1>4 DEF IInv, Queued
<1>6. \A n \in DOMAIN commandFrames' : \A a \in DOMAIN commandFrames'[n].commandQueue :
        /\ n \in DOMAIN commandFrames /\ a \in Nat
        /\ a + shift(n) \in DOMAIN commandFrames[n].commandQueue
        /\ commandFrames'[n].commandQueue[a] = commandFrames[n].commandQueue[a + shift(n)]
        /\ commandFrames'[n].commandQueue[a] # i
  <2> SUFFICES ASSUME NEW n \in DOMAIN commandFrames',
                      NEW a \in DOMAIN commandFrames'[n].commandQueue
               PROVE  /\ n \in DOMAIN commandFrames /\ a \in Nat
                      /\ a + shift(n) \in DOMAIN commandFrames[n].commandQueue
                      /\ commandFrames'[n].commandQueue[a] =
                           commandFrames[n].commandQueue[a + shift(n)]
                      /\ commandFrames[n].commandQueue[a + shift(n)] # i
    OBVIOUS
  <2>1. n # last + 1
    <3>1. DOMAIN <<>> = {}
      OBVIOUS
    <3> QED
      BY <3>1 DEF last
  <2>2. n \in DOMAIN commandFrames
    BY <1>1, <2>1 DEF last
  <2>3. CASE n = last
    <3>1. a \in DOMAIN Tail(queue)
      BY <1>4, <2>3
    <3>2. a + 1 \in DOMAIN queue /\ a \in Nat /\ a + 1 # 1 /\ Tail(queue)[a] = queue[a + 1]
      BY <1>3, <3>1
    <3>3. queue[a + 1] # i
      BY <1>1, <1>3, <1>4, <2>2, <2>3, <3>2 DEF IInv, Queued
    <3> QED
      BY <1>1, <1>4, <2>2, <2>3, <3>2, <3>3
  <2>4. CASE n # last
    <3>1. commandFrames'[n].commandQueue = commandFrames[n].commandQueue
      BY <2>2, <2>4 DEF last
    <3>2. a \in Nat
      BY <1>1, <2>2, <3>1
    <3>3. commandFrames[n].commandQueue[a] # i
      BY <1>1, <1>3, <1>4, <2>2, <2>4, <3>1 DEF IInv, Queued
    <3> QED
      BY <2>2, <2>4, <3>1, <3>2, <3>3
  <2> QED
    BY <2>3, <2>4
<1> HIDE DEF shift
<1>7. \A m \in DOMAIN commandFrames' :
        \/ m \in DOMAIN commandFrames /\ commandFrames'[m].instance = commandFrames[m].instance
        \/ commandFrames'[m].instance = i
  BY <1>1 DEF last
<1>8. \A n \in DOMAIN commandFrames' : commandFrames'[n].instance <= Count'
  BY <1>5, <1>7 DEF IInv, Queued
<1>9. \A n \in DOMAIN commandFrames' : \A a \in DOMAIN commandFrames'[n].commandQueue :
        /\ commandFrames'[n].commandQueue[a] \in 1 .. Count'
        /\ \A m \in DOMAIN commandFrames' :
             commandFrames'[m].instance # commandFrames'[n].commandQueue[a]
  <2> SUFFICES ASSUME NEW n \in DOMAIN commandFrames',
                      NEW a \in DOMAIN commandFrames'[n].commandQueue
               PROVE  /\ commandFrames'[n].commandQueue[a] \in 1 .. Count
                      /\ \A m \in DOMAIN commandFrames' :
                           commandFrames'[m].instance # commandFrames'[n].commandQueue[a]
    OBVIOUS
  <2>1. PICK b \in DOMAIN commandFrames[n].commandQueue :
          n \in DOMAIN commandFrames /\ commandFrames'[n].commandQueue[a] # i
          /\ commandFrames'[n].commandQueue[a] = commandFrames[n].commandQueue[b]
    BY <1>6
  <2>2. /\ commandFrames[n].commandQueue[b] \in 1 .. Count
        /\ \A m \in DOMAIN commandFrames :
             commandFrames[m].instance # commandFrames[n].commandQueue[b]
    BY <2>1 DEF IInv, Queued
  <2> QED
    BY <1>7, <2>1, <2>2
<1>10. \A m, n \in DOMAIN commandFrames' :
         \A a \in DOMAIN commandFrames'[m].commandQueue,
            b \in DOMAIN commandFrames'[n].commandQueue :
           commandFrames'[m].commandQueue[a] = commandFrames'[n].commandQueue[b]
             => m = n /\ a = b
  <2> SUFFICES ASSUME NEW m \in DOMAIN commandFrames', NEW n \in DOMAIN commandFrames',
                      NEW a \in DOMAIN commandFrames'[m].commandQueue,
                      NEW b \in DOMAIN commandFrames'[n].commandQueue,
                      commandFrames'[m].commandQueue[a] = commandFrames'[n].commandQueue[b]
               PROVE  m = n /\ a = b
    OBVIOUS
  <2>1. m = n /\ a + shift(m) = b + shift(n)
    BY <1>6 DEF IInv, Queued
  <2> QED
    BY <1>6, <2>1 DEF shift
<1> QED
  BY <1>5, <1>8, <1>9, <1>10 DEF Queued

-----------------------------------------------------------------------------
(* Frames: a command ends *)

\* The innermost owner a of thread t, whose frame is the back frame, goes with it.
LEMMA EndOwner ==
  ASSUME IInv, NEW t \in Threads, NEW a \in Owning(t),
         \A k \in Owning(t) : k \in Nat /\ k <= a,
         BackFrame.instance = stack[t][a].inst,
         Owning(t)' = Owning(t) \ {a}, OthersKeep(t, a),
         currentFrame' = [currentFrame EXCEPT ![t] = stack[t][a].prev],
         Len(commandFrames') = Len(commandFrames) - 1,
         DOMAIN commandFrames' = 1 .. Len(commandFrames) - 1,
         \A n \in DOMAIN commandFrames' :
           /\ commandFrames'[n].instance = commandFrames[n].instance
           /\ commandFrames'[n].commandQueue = commandFrames[n].commandQueue,
         Count' = Count
  PROVE  Owned' /\ Distinct' /\ Chained' /\ Queued' /\ Len(commandFrames) > 1
<1> DEFINE L == Len(commandFrames)
<1>1. L \in Nat /\ L > 0 /\ DOMAIN commandFrames = 1 .. L /\ L \in DOMAIN commandFrames
      /\ BackFrame = commandFrames[L]
  BY FrameTypes DEF IInv
<1>2. commandFrames[L].instance = stack[t][a].inst
  BY <1>1
<1>3. L > 1
  <2>1. PICK n \in 2 .. L : commandFrames[n].instance = stack[t][a].inst
    BY DEF IInv, Owned
  <2> QED
    BY <1>1, <1>2, <2>1 DEF IInv, Distinct
<1>4. \A u \in Threads : \A k \in Owning(u)' :
        /\ k \in Owning(u) /\ (u = t => k # a)
        /\ stack'[u][k].inst = stack[u][k].inst
        /\ stack'[u][k].prev = stack[u][k].prev
  BY DEF OthersKeep
<1>5. \A u \in Threads : \A k \in Owning(u) : (u = t /\ k = a) \/ k \in Owning(u)'
  BY DEF OthersKeep
<1> HIDE DEF L
<1>6. Owned'
  <2>1. FramesOwned'
    <3> SUFFICES ASSUME NEW n \in 2 .. L - 1
                 PROVE  \E u \in Threads : \E k \in Owning(u)' :
                          commandFrames'[n].instance = stack'[u][k].inst
      BY DEF FramesOwned, L
    <3>1. n \in 2 .. L /\ n \in DOMAIN commandFrames /\ n \in DOMAIN commandFrames' /\ n # L
      BY <1>1 DEF L
    <3>2. PICK u \in Threads : \E k \in Owning(u) : commandFrames[n].instance = stack[u][k].inst
      BY <3>1 DEF IInv, Owned, FramesOwned, L
    <3>3. PICK k \in Owning(u) : commandFrames[n].instance = stack[u][k].inst
      BY <3>2
    <3>4. ~(u = t /\ k = a)
      BY <1>1, <1>2, <3>1, <3>3 DEF IInv, Distinct
    <3> QED
      BY <1>4, <1>5, <3>1, <3>3, <3>4
  <2>2. ASSUME NEW u \in Threads, NEW k \in Owning(u)'
        PROVE  \E n \in 2 .. L - 1 : commandFrames'[n].instance = stack'[u][k].inst
    <3>1. k \in Owning(u) /\ (u = t => k # a) /\ stack'[u][k].inst = stack[u][k].inst
      BY <1>4
    <3>2. PICK n \in 2 .. L : commandFrames[n].instance = stack[u][k].inst
      BY <3>1 DEF IInv, Owned, L
    <3>3. stack[u][k].inst # stack[t][a].inst
      BY <3>1 DEF IInv, Distinct, OneOwner
    <3>4. n \in 2 .. L - 1 /\ n \in DOMAIN commandFrames'
      BY <1>1, <1>2, <3>2, <3>3 DEF L
    <3> QED
      BY <3>1, <3>2, <3>4
  <2>3. commandFrames'[1].instance = Root
    BY <1>1, <1>3 DEF IInv, Owned, L
  <2> QED
    BY <2>1, <2>2, <2>3 DEF Owned, L
<1>7. DOMAIN commandFrames' \subseteq DOMAIN commandFrames
  BY <1>1 DEF L
<1>8. Distinct'
  <2>1. OneOwner'
    BY <1>4 DEF IInv, Distinct, OneOwner
  <2> QED
    BY <1>4, <1>7, <2>1 DEF IInv, Distinct
<1>9. Chained'
  <2> SUFFICES ASSUME NEW u \in Threads
               PROVE  /\ \A k \in Owning(u)' : Enclosing(u, k, stack[u][k].prev)'
                      /\ Innermost(u, currentFrame[u])'
    BY DEF Chained
  <2>1. CASE u # t
    <3>1. \A k \in Owning(u) : Enclosing(u, k, stack[u][k].prev)
      BY DEF IInv, Chained
    <3>2. \A k \in Owning(u)' : Enclosing(u, k, stack[u][k].prev)'
      BY <1>4, <2>1, <3>1 DEF Enclosing, OthersKeep
    <3>3. Innermost(u, currentFrame[u])'
      BY <1>4, <2>1 DEF IInv, Chained, Innermost, OthersKeep, Shape
    <3> QED
      BY <3>2, <3>3
  <2>2. CASE u = t
    <3>1. ASSUME NEW k \in Owning(t)' PROVE Enclosing(t, k, stack[t][k].prev)'
      <4>1. Enclosing(t, k, stack[t][k].prev) /\ k < a
        BY <1>4 DEF IInv, Chained
      <4> QED
        BY <1>4, <4>1 DEF Enclosing
    <3>2. Innermost(t, currentFrame[t])'
      <4>1. currentFrame'[t] = stack[t][a].prev
        BY DEF IInv, Shape
      <4>2. Enclosing(t, a, stack[t][a].prev)
        BY DEF IInv, Chained
      <4>3. \A k \in Owning(t)' : k < a
        BY <1>4
      <4> QED
        BY <1>4, <4>1, <4>2, <4>3 DEF Innermost, Enclosing
    <3> QED
      BY <2>2, <3>1, <3>2
  <2> QED
    BY <2>1, <2>2
<1>10. Queued'
  <2>1. \A n \in DOMAIN commandFrames' :
          /\ n \in DOMAIN commandFrames
          /\ commandFrames'[n].instance = commandFrames[n].instance
          /\ commandFrames'[n].commandQueue = commandFrames[n].commandQueue
    BY <1>7
  <2>2. \A n \in DOMAIN commandFrames' : commandFrames'[n].instance <= Count'
    BY <2>1 DEF IInv, Queued
  <2>3. \A n \in DOMAIN commandFrames' : \A b \in DOMAIN commandFrames'[n].commandQueue :
          /\ commandFrames'[n].commandQueue[b] \in 1 .. Count'
          /\ \A m \in DOMAIN commandFrames' :
               commandFrames'[m].instance # commandFrames'[n].commandQueue[b]
    BY <2>1 DEF IInv, Queued
  <2>4. \A m, n \in DOMAIN commandFrames' :
          \A b \in DOMAIN commandFrames'[m].commandQueue,
             c \in DOMAIN commandFrames'[n].commandQueue :
            commandFrames'[m].commandQueue[b] = commandFrames'[n].commandQueue[c]
              => m = n /\ b = c
    <3>1. \A m, n \in DOMAIN commandFrames :
            \A b \in DOMAIN commandFrames[m].commandQueue,
               c \in DOMAIN commandFrames[n].commandQueue :
              commandFrames[m].commandQueue[b] = commandFrames[n].commandQueue[c]
                => m = n /\ b = c
      BY DEF IInv, Queued
    <3> QED
      BY <2>1, <3>1
  <2> QED
    BY <2>2, <2>3, <2>4 DEF Queued
<1> QED
  BY <1>3, <1>6, <1>8, <1>9, <1>10 DEF L

-----------------------------------------------------------------------------
(* The table of instances keeps its length *)

SameIds(table) == table = [i \in DOMAIN instances |-> table[i]]

\* A table with the same ids is a sequence of the same length.
LEMMA SameIdsCount ==
  ASSUME Listed(instances), SameIds(instances')
  PROVE  Listed(instances)' /\ Count' = Count
BY ListedDomain DEF SameIds, Count, Listed

\* Changing fields of an instance keeps the ids.
LEMMA SameIdsExcept ==
  ASSUME NEW table, SameIds(table), NEW i
  PROVE  /\ \A x : SameIds([table EXCEPT ![i].status = x])
         /\ \A x : SameIds([table EXCEPT ![i].error = x])
         /\ \A x : SameIds([table EXCEPT ![i].wrote = x])
         /\ \A x : SameIds([table EXCEPT ![i].children = x])
         /\ \A x, y : SameIds([table EXCEPT ![i].error = x, ![i].data = y])
         /\ \A j, x, y : SameIds([table EXCEPT ![i].data = x, ![j].data = y])
BY DEF SameIds

\* So does recording a write ...
LEMMA SameIdsWriteProps ==
  ASSUME NEW t, NEW written, NEW doc, NEW new
  PROVE  SameIds(WriteProps(t, instances, written, doc, new))
BY DEF SameIds, WriteProps

\* ... compressing children ...
LEMMA SameIdsConsolidate ==
  ASSUME NEW table, SameIds(table), NEW i
  PROVE  SameIds(ConsolidateChildren(table, i))
BY DEF SameIds, ConsolidateChildren

\* ... handing undo data to the parent ...
LEMMA SameIdsHandToParent ==
  ASSUME NEW table, SameIds(table), NEW i, NEW parent
  PROVE  SameIds(HandToParent(table, i, parent))
<1> DEFINE moved == [table EXCEPT ![parent].data = Consolidate(@, table[i].data),
                                  ![i].data = <<>>]
<1>1. SameIds(moved)
  BY DEF SameIds
<1>2. SameIds(ConsolidateChildren(table, i))
  BY SameIdsConsolidate
<1> HIDE DEF moved
<1>3. SameIds(ConsolidateChildren(moved, parent))
  BY <1>1, SameIdsConsolidate
<1> QED
  BY <1>1, <1>2, <1>3 DEF HandToParent, moved

\* ... and adding a child.
LEMMA SameIdsAddChild ==
  ASSUME NEW table, SameIds(table), NEW i, NEW parent
  PROVE  SameIds(AddChild(table, parent, i))
BY DEF SameIds, AddChild

\* queueCommand makes the next id.
LEMMA ListedAppend ==
  ASSUME Listed(instances), NEW c, instances' = Append(instances, c)
  PROVE  Listed(instances)' /\ Count' = Count + 1
<1> DEFINE S == {instances[k] : k \in DOMAIN instances} \cup {c}
<1>1. instances \in Seq(S)
  BY DEF Listed
<1>2. instances' \in Seq(S) /\ Len(instances') = Len(instances) + 1
  BY <1>1
<1> QED
  BY <1>2, ListedIsSeq DEF Count, Listed

-----------------------------------------------------------------------------
(* queueCommand *)

\* Quiet sequences one after the other.
LEMMA QuietConcat ==
  ASSUME NEW acts, Quiet(acts), NEW more, Quiet(more)
  PROVE  Quiet(acts \o more)
<1>1. /\ Listed(acts \o more) /\ Len(acts) \in Nat /\ Len(more) \in Nat
      /\ DOMAIN (acts \o more) = 1 .. Len(acts) + Len(more)
      /\ \A k \in 1 .. Len(acts) : (acts \o more)[k] = acts[k]
      /\ \A k \in Len(acts) + 1 .. Len(acts) + Len(more) : (acts \o more)[k] = more[k - Len(acts)]
  BY ListedConcat DEF Quiet
<1>2. DOMAIN acts = 1 .. Len(acts) /\ DOMAIN more = 1 .. Len(more)
  BY DEF Quiet, Listed
<1>3. ASSUME NEW k \in DOMAIN (acts \o more)
      PROVE  ActivationRecord((acts \o more)[k]) /\ (acts \o more)[k].at \notin {"exec", "spin"}
  <2>1. CASE k \in 1 .. Len(acts)
    <3>1. (acts \o more)[k] = acts[k] /\ k \in DOMAIN acts
      BY <1>1, <1>2, <2>1
    <3> QED
      BY <3>1 DEF Quiet
  <2>2. CASE k \in Len(acts) + 1 .. Len(acts) + Len(more)
    <3>1. (acts \o more)[k] = more[k - Len(acts)] /\ k - Len(acts) \in DOMAIN more
      BY <1>1, <1>2, <2>2
    <3> QED
      BY <3>1 DEF Quiet
  <2> QED
    BY <1>1, <2>1, <2>2
<1> QED
  BY <1>1, <1>3 DEF Quiet

\* A thread that may queue commands works on a frame.
LEMMA CurrentFrameExists ==
  ASSUME IInv, NEW t \in Threads, t = Owner \/ Owning(t) # {}
  PROVE  FrameIndex(currentFrame[t]) \in DOMAIN commandFrames
<1>1. Innermost(t, currentFrame[t])
  BY DEF IInv, Chained
<1>2. DOMAIN commandFrames = 1 .. Len(commandFrames) /\ 1 \in DOMAIN commandFrames
      /\ Len(commandFrames) \in Nat
  BY FrameTypes DEF IInv
<1>3. \E k \in DOMAIN commandFrames : commandFrames[k].instance = currentFrame[t]
  <2>1. CASE Owning(t) = {}
    BY <1>1, <1>2, <2>1 DEF Innermost, IInv, Owned
  <2>2. CASE Owning(t) # {}
    <3>1. PICK j \in Owning(t) : currentFrame[t] = stack[t][j].inst
      BY <1>1, <2>2 DEF Innermost
    <3>2. PICK n \in 2 .. Len(commandFrames) : commandFrames[n].instance = stack[t][j].inst
      BY DEF IInv, Owned
    <3> QED
      BY <1>2, <3>1, <3>2
  <2> QED
    BY <2>1, <2>2
<1> QED
  BY <1>3 DEF FrameIndex

\* The type of a frame's open groups.
LEMMA StackQueueType ==
  ASSUME NEW queue \in Seq(Nat), NEW kind, NEW i \in Nat
  PROVE  StackQueueAfter(queue, kind, i) \in Seq(Nat)
<1>1. Append(queue, i) \in Seq(Nat) /\ Front(queue) \in Seq(Nat)
  BY FrontOfNats
<1> QED
  BY <1>1 DEF StackQueueAfter

\* Changing the queues of a frame keeps its type and its instance.
LEMMA FrameUpdate ==
  ASSUME NEW old \in FrameRecord, NEW q \in Seq(Nat), NEW r \in Seq(Nat)
  PROVE  /\ [old EXCEPT !.commandQueue = q] \in FrameRecord
         /\ [old EXCEPT !.commandQueue = q].instance = old.instance
         /\ [old EXCEPT !.commandQueue = q].commandQueue = q
         /\ [old EXCEPT !.commandQueue = q, !.stackQueue = r] \in FrameRecord
         /\ [old EXCEPT !.commandQueue = q, !.stackQueue = r].instance = old.instance
         /\ [old EXCEPT !.commandQueue = q, !.stackQueue = r].commandQueue = q
         /\ [old EXCEPT !.commandStack = q] \in FrameRecord
         /\ [old EXCEPT !.commandStack = q].instance = old.instance
         /\ [old EXCEPT !.commandStack = q].commandQueue = old.commandQueue
BY DEF FrameRecord

\* queueCommand enqueues an instance and owns no new frame.
LEMMA QueueCommandStep ==
  ASSUME IInv, NEW t \in Threads, t = Owner \/ Owning(t) # {},
         NEW kind, NEW class, NEW target, NEW rest, Quiet(rest),
         QueueCommand(t, kind, class, target, rest), UNCHANGED currentFrame
  PROVE  IInv'
<1> DEFINE k == FrameIndex(currentFrame[t])
           old == commandFrames[k]
           frame == [old EXCEPT !.commandQueue = Append(@, Count + 1),
                                !.stackQueue = StackQueueAfter(@, kind, Count + 1)]
           queue == Append(old.commandQueue, Count + 1)
           groups == StackQueueAfter(old.stackQueue, kind, Count + 1)
<1>1. k \in DOMAIN commandFrames
  BY CurrentFrameExists
<1>2. /\ Listed(instances)' /\ Count' = Count + 1 /\ Count \in Nat
  <2>1. \E c : instances' = Append(instances, c)
    BY DEF QueueCommand
  <2>2. Listed(instances)
    BY DEF IInv, Shape
  <2>3. Listed(instances)' /\ Count' = Count + 1
    BY <2>1, <2>2, ListedAppend
  <2> QED
    BY <2>2, <2>3 DEF Count, Listed
<1>3. commandFrames' = [commandFrames EXCEPT ![k] = frame]
  BY DEF QueueCommand, Count
<1> HIDE DEF k
<1>4. /\ old \in FrameRecord /\ old.stackQueue \in Seq(Nat) /\ old.commandQueue \in Seq(Nat)
  BY <1>1, FrameTypes DEF IInv
<1> HIDE DEF old
<1>5. StackQueueAfter(old.stackQueue, kind, Count + 1) \in Seq(Nat)
  BY <1>2, <1>4, StackQueueType
<1>6. /\ frame \in FrameRecord /\ frame.instance = old.instance
      /\ frame.commandQueue = Append(old.commandQueue, Count + 1)
  <2>1. queue \in Seq(Nat) /\ groups \in Seq(Nat)
    BY <1>2, <1>4, <1>5
  <2>2. frame = [old EXCEPT !.commandQueue = queue, !.stackQueue = groups]
    OBVIOUS
  <2> HIDE DEF queue, groups, frame
  <2>3. /\ frame \in FrameRecord /\ frame.instance = old.instance
        /\ frame.commandQueue = queue
    BY <1>4, <2>1, <2>2 DEF FrameRecord
  <2> QED
    BY <2>3 DEF queue
<1> HIDE DEF frame
<1>7. StackShape' /\ SameOwners
  <2>1. Quiet(<<Act("loop", Root)>>)
    BY ActsQuiet
  <2>2. Quiet(rest \o <<Act("loop", Root)>>)
    BY <2>1, QuietConcat
  <2> QED
    BY <2>2, PushQuiet DEF QueueCommand, IInv, Shape
<1> QED
  BY <1>1, <1>2, <1>3, <1>6, <1>7, EnqueueStep DEF old

\* moveCommandIndex enqueues its job.
LEMMA MoveCommandIndexStep ==
  ASSUME IInv, stack[Owner] = <<>> \/ (Running(Owner) /\ Top(Owner).at \notin {"exec", "spin"}),
         NEW target, MoveCommandIndex(target)
  PROVE  IInv'
<1> DEFINE k == FrameIndex(currentFrame[Owner])
           old == commandFrames[k]
           frame == [old EXCEPT !.commandQueue = Append(@, Count + 1)]
           acts == <<Act("move", Root), Act("waitStart", Count + 1), Act("loop", Root)>>
<1>1. k \in DOMAIN commandFrames
  BY CurrentFrameExists DEF Threads
<1>2. /\ Listed(instances)' /\ Count' = Count + 1 /\ Count \in Nat
  <2>1. \E c : instances' = Append(instances, c)
    BY DEF MoveCommandIndex
  <2>2. Listed(instances)
    BY DEF IInv, Shape
  <2>3. Listed(instances)' /\ Count' = Count + 1
    BY <2>1, <2>2, ListedAppend
  <2> QED
    BY <2>2, <2>3 DEF Count, Listed
<1>3. commandFrames' = [commandFrames EXCEPT ![k] = frame]
  BY DEF MoveCommandIndex, Count
<1> HIDE DEF k
<1>4. /\ old \in FrameRecord /\ old.commandQueue \in Seq(Nat)
  BY <1>1, FrameTypes DEF IInv
<1> HIDE DEF old
<1>5. /\ frame \in FrameRecord /\ frame.instance = old.instance
      /\ frame.commandQueue = Append(old.commandQueue, Count + 1)
  <2> DEFINE queue == Append(old.commandQueue, Count + 1)
  <2>1. queue \in Seq(Nat)
    BY <1>2, <1>4
  <2>2. frame = [old EXCEPT !.commandQueue = queue]
    OBVIOUS
  <2> HIDE DEF queue, frame
  <2>3. /\ frame \in FrameRecord /\ frame.instance = old.instance /\ frame.commandQueue = queue
    BY <1>4, <2>1, <2>2 DEF FrameRecord
  <2> QED
    BY <2>3 DEF queue
<1> HIDE DEF frame
<1>6. StackShape' /\ SameOwners
  <2>1. Quiet(acts)
    BY ActsQuiet
  <2>2. CASE stack[Owner] = <<>>
    <3>1. stack' = [stack EXCEPT ![Owner] = <<>> \o acts]
      BY <2>2 DEF MoveCommandIndex, Count
    <3>2. Push(Owner, acts)
      BY <2>2, <3>1 DEF Push
    <3> QED
      BY <2>1, <3>2, PushQuiet DEF IInv, Shape, Threads
  <2>3. CASE Running(Owner) /\ Top(Owner).at \notin {"exec", "spin"}
    <3>1. ReplaceTop(Owner, acts)
      BY <2>3 DEF MoveCommandIndex, ReplaceTop, Running, Count
    <3> QED
      BY <2>1, <2>3, <3>1, ReplaceQuiet DEF IInv, Shape, Threads
  <2> QED
    BY <2>2, <2>3
<1>7. currentFrame' = currentFrame
  BY DEF MoveCommandIndex
<1> QED
  BY <1>1, <1>2, <1>3, <1>5, <1>6, <1>7, EnqueueStep DEF old

-----------------------------------------------------------------------------
(* The steps that touch an owner *)

\* execute() returns.
LEMMA ExecuteStep ==
  ASSUME IInv, NEW t \in Threads, Execute(t)
  PROVE  IInv'
<1> DEFINE spin == [Top(t) EXCEPT !.at = "spin"]
           front == Front(stack[t])
           n == Len(stack[t])
<1>1. /\ StackShape /\ Listed(stack[t]) /\ stack[t] # <<>> /\ Top(t).at = "exec"
      /\ stack' = [stack EXCEPT ![t] = front \o <<spin>>]
  BY DEF Execute, At, Running, ReplaceTop, IInv, Shape, StackShape
<1>2. /\ Listed(front) /\ n \in Nat /\ n > 0 /\ Len(front) = n - 1
      /\ \A k \in 1 .. n - 1 : front[k] = stack[t][k]
  BY <1>1, ListedFront
<1>3. Top(t) = stack[t][n] /\ n \in DOMAIN stack[t] /\ DOMAIN stack[t] = 1 .. n
  BY <1>1, <1>2, OwningDomain DEF Top, Last
<1>4. ActivationRecord(Top(t))
  BY <1>1, <1>3 DEF StackShape
<1>5. ActivationRecord(spin) /\ spin.at = "spin" /\ spin.inst = Top(t).inst /\ spin.prev = Top(t).prev
  BY <1>4 DEF ActivationRecord
<1> HIDE DEF spin, front
<1>6. /\ Listed(front \o <<spin>>) /\ DOMAIN (front \o <<spin>>) = 1 .. n
      /\ \A k \in 1 .. n - 1 : (front \o <<spin>>)[k] = stack[t][k]
      /\ (front \o <<spin>>)[n] = spin
  <2>1. <<spin>> \in Seq({spin}) /\ Len(<<spin>>) = 1 /\ <<spin>>[1] = spin
    OBVIOUS
  <2>2. Listed(<<spin>>)
    BY <2>1, ListedIsSeq
  <2> HIDE DEF n
  <2>3. /\ Listed(front \o <<spin>>)
        /\ DOMAIN (front \o <<spin>>) = 1 .. (n - 1) + 1
        /\ \A k \in 1 .. n - 1 : (front \o <<spin>>)[k] = front[k]
        /\ \A k \in (n - 1) + 1 .. (n - 1) + 1 :
             (front \o <<spin>>)[k] = <<spin>>[k - (n - 1)]
    BY <1>2, <2>1, <2>2, ListedConcat
  <2>4. n \in (n - 1) + 1 .. (n - 1) + 1 /\ n - (n - 1) = 1 /\ (n - 1) + 1 = n
    BY <1>2
  <2>5. (front \o <<spin>>)[n] = spin
    BY <2>1, <2>3, <2>4
  <2> QED
    BY <1>2, <2>3, <2>4, <2>5
<1> DEFINE new == front \o <<spin>>
<1> HIDE DEF new
<1>7. /\ stack'[t] = new
      /\ \A u \in Threads : u # t => stack'[u] = stack[u]
      /\ stack' = [u \in Threads |-> stack'[u]]
  BY <1>1 DEF StackShape, new
<1>8. /\ DOMAIN new = 1 .. n /\ Listed(new) /\ new[n] = spin
      /\ \A k \in 1 .. n : k # n => new[k] = stack[t][k]
  BY <1>2, <1>6 DEF new
<1>9. StackShape'
  <2>1. \A k \in DOMAIN new : ActivationRecord(new[k])
    BY <1>1, <1>3, <1>5, <1>8 DEF StackShape
  <2>2. ASSUME NEW u \in Threads
        PROVE  Listed(stack'[u]) /\ \A k \in DOMAIN stack'[u] : ActivationRecord(stack'[u][k])
    <3>1. CASE u = t
      BY <1>7, <1>8, <2>1, <3>1
    <3>2. CASE u # t
      BY <1>1, <1>7, <3>2 DEF StackShape
    <3> QED
      BY <3>1, <3>2
  <2> QED
    BY <1>7, <2>2 DEF StackShape
<1>10. SameOwners
  <2>1. \A u \in Threads : u # t => Owning(u)' = Owning(u)
    BY <1>7 DEF Owning
  <2>2. Owning(t)' = Owning(t)
    BY <1>1, <1>3, <1>5, <1>7, <1>8 DEF Owning
  <2>3. \A k \in DOMAIN stack[t] : stack'[t][k].inst = stack[t][k].inst
                                /\ stack'[t][k].prev = stack[t][k].prev
    BY <1>3, <1>5, <1>7, <1>8
  <2> QED
    BY <1>7, <2>1, <2>2, <2>3 DEF SameOwners, Owning
<1>11. Listed(instances)' /\ Count' = Count
  <2>1. SameIds(instances')
    BY DEF Execute, SameIds
  <2> QED
    BY <2>1, SameIdsCount DEF IInv, Shape
<1> QED
  BY <1>9, <1>10, <1>11, NeutralStep DEF Execute

\* Changing one frame.
LEMMA FrameReplaced ==
  ASSUME NEW frames \in Seq(FrameRecord), NEW k \in DOMAIN frames, NEW frame \in FrameRecord,
         NEW new, new = [frames EXCEPT ![k] = frame]
  PROVE  /\ new \in Seq(FrameRecord) /\ Len(new) = Len(frames) /\ new[k] = frame
         /\ \A n \in DOMAIN frames : n # k => new[n] = frames[n]
OBVIOUS

\* What pushFrame does to the frames.
LEMMA PushFrameShape ==
  ASSUME NEW frames \in Seq(FrameRecord), frames # <<>>, NEW i \in Nat
  PROVE  /\ PushFrame(frames, i) \in Seq(FrameRecord)
         /\ Len(PushFrame(frames, i)) = Len(frames) + 1
         /\ \A n \in 1 .. Len(frames) :
              /\ PushFrame(frames, i)[n].instance = frames[n].instance
              /\ PushFrame(frames, i)[n].commandQueue = frames[n].commandQueue
         /\ PushFrame(frames, i)[Len(frames) + 1].instance = i
         /\ PushFrame(frames, i)[Len(frames) + 1].commandQueue = <<>>
<1> DEFINE back == Len(frames)
           grouped == Append(frames[back].commandStack, i)
           group == [frames[back] EXCEPT !.commandStack = grouped]
           opened == IF instances[i].kind = "begin" THEN [frames EXCEPT ![back] = group] ELSE frames
<1>1. back \in Nat /\ back > 0 /\ frames[back] \in FrameRecord /\ DOMAIN frames = 1 .. back
  OBVIOUS
<1>2. grouped \in Seq(Nat)
  BY <1>1 DEF FrameRecord
<1>3. /\ group \in FrameRecord /\ group.instance = frames[back].instance
      /\ group.commandQueue = frames[back].commandQueue
  <2> HIDE DEF grouped
  <2> QED
    BY <1>1, <1>2, FrameUpdate
<1>4. PushFrame(frames, i) = Append(opened, MakeFrame(i))
  BY DEF PushFrame
<1> HIDE DEF group
<1>5. /\ opened \in Seq(FrameRecord) /\ Len(opened) = back
      /\ \A n \in 1 .. back : /\ opened[n].instance = frames[n].instance
                             /\ opened[n].commandQueue = frames[n].commandQueue
  <2>1. CASE instances[i].kind = "begin"
    <3>1. opened = [frames EXCEPT ![back] = group]
      BY <2>1
    <3> HIDE DEF opened, back
    <3>2. back \in DOMAIN frames
      BY <1>1
    <3>3. /\ opened \in Seq(FrameRecord) /\ Len(opened) = Len(frames) /\ opened[back] = group
          /\ \A n \in DOMAIN frames : n # back => opened[n] = frames[n]
      BY <1>3, <3>1, <3>2, FrameReplaced
    <3> QED
      BY <1>1, <1>3, <3>3 DEF back
  <2>2. CASE instances[i].kind # "begin"
    BY <1>1, <2>2
  <2> QED
    BY <2>1, <2>2
<1> HIDE DEF opened
<1>6. /\ MakeFrame(i) \in FrameRecord /\ MakeFrame(i).instance = i
      /\ MakeFrame(i).commandQueue = <<>>
  BY DEF MakeFrame, FrameRecord
<1> QED
  BY <1>1, <1>4, <1>5, <1>6

\* processCommands starts the first command of the back frame.
LEMMA TakeCommandStep ==
  ASSUME IInv, NEW t \in Threads, TakeCommand(t)
  PROVE  IInv'
<1> DEFINE L == Len(commandFrames)
           queue == BackFrame.commandQueue
           i == queue[1]
           mid == PopFront(commandFrames)
           act == [Act("exec", i) EXCEPT !.prev = currentFrame[t]]
           a == Len(stack[t]) + 1
<1>1. /\ queue # <<>>
      /\ commandFrames' = PushFrame(mid, i)
      /\ currentFrame' = [currentFrame EXCEPT ![t] = i]
      /\ Push(t, <<act>>)
  BY DEF TakeCommand
<1>2. /\ L \in Nat /\ L > 0 /\ DOMAIN commandFrames = 1 .. L
      /\ BackFrame = commandFrames[L] /\ commandFrames[L] \in FrameRecord
      /\ commandFrames \in Seq(FrameRecord) /\ queue \in Seq(Nat)
  BY FrameTypes DEF IInv, Shape
<1>3. i \in Nat /\ Tail(queue) \in Seq(Nat)
  BY <1>1, <1>2
<1>4. /\ mid \in Seq(FrameRecord) /\ mid # <<>> /\ Len(mid) = L
      /\ \A n \in 1 .. L : mid[n].instance = commandFrames[n].instance
      /\ \A n \in 1 .. L : n # L => mid[n].commandQueue = commandFrames[n].commandQueue
      /\ mid[L].commandQueue = Tail(queue)
  <2> DEFINE rest == [commandFrames[L] EXCEPT !.commandQueue = Tail(queue)]
  <2>1. mid = [commandFrames EXCEPT ![L] = rest]
    BY <1>2 DEF PopFront
  <2>2. /\ rest \in FrameRecord /\ rest.instance = commandFrames[L].instance
        /\ rest.commandQueue = Tail(queue)
    <3> HIDE DEF L, queue
    <3> QED
      BY <1>2, <1>3, FrameUpdate
  <2> HIDE DEF rest, mid, queue
  <2> HIDE DEF L
  <2>3. L \in DOMAIN commandFrames
    BY <1>2
  <2>4. /\ mid \in Seq(FrameRecord) /\ Len(mid) = Len(commandFrames) /\ mid[L] = rest
        /\ \A n \in DOMAIN commandFrames : n # L => mid[n] = commandFrames[n]
    BY <1>2, <2>1, <2>2, <2>3, FrameReplaced
  <2>5. mid # <<>> /\ Len(mid) = L /\ \A n \in 1 .. L : n # L => mid[n] = commandFrames[n]
    <3>1. Len(mid) = L
      BY <2>4 DEF L
    <3>2. mid # <<>>
      BY <1>2, <3>1
    <3> QED
      BY <1>2, <2>4, <3>1, <3>2
  <2>6. \A n \in 1 .. L : mid[n].instance = commandFrames[n].instance
    BY <2>2, <2>4, <2>5
  <2> QED
    BY <1>2, <2>2, <2>4, <2>5, <2>6
<1> HIDE DEF mid, queue, i, L
<1>5. /\ commandFrames' \in Seq(FrameRecord) /\ Len(commandFrames') = L + 1
      /\ \A n \in 1 .. L : /\ commandFrames'[n].instance = mid[n].instance
                          /\ commandFrames'[n].commandQueue = mid[n].commandQueue
      /\ commandFrames'[L + 1].instance = i
      /\ commandFrames'[L + 1].commandQueue = <<>>
  <2> DEFINE frames == PushFrame(mid, i)
  <2>1. /\ frames \in Seq(FrameRecord) /\ Len(frames) = Len(mid) + 1
        /\ \A n \in 1 .. Len(mid) : /\ frames[n].instance = mid[n].instance
                                   /\ frames[n].commandQueue = mid[n].commandQueue
        /\ frames[Len(mid) + 1].instance = i /\ frames[Len(mid) + 1].commandQueue = <<>>
    BY <1>3, <1>4, PushFrameShape
  <2>2. commandFrames' = frames /\ Len(mid) = L
    BY <1>1, <1>4
  <2> HIDE DEF frames
  <2> QED
    BY <2>1, <2>2
<1>6. /\ DOMAIN commandFrames' = 1 .. L + 1 /\ commandFrames' # <<>>
      /\ \A n \in DOMAIN commandFrames :
           commandFrames'[n].instance = commandFrames[n].instance
      /\ \A n \in DOMAIN commandFrames :
           n # L => commandFrames'[n].commandQueue = commandFrames[n].commandQueue
      /\ commandFrames'[L].commandQueue = Tail(queue)
  <2>1. DOMAIN commandFrames' = 1 .. L + 1
    BY <1>2, <1>5
  <2>2. commandFrames' # <<>>
    BY <1>2, <2>1
  <2>3. \A n \in DOMAIN commandFrames :
          /\ n \in 1 .. L
          /\ commandFrames'[n].instance = mid[n].instance
          /\ commandFrames'[n].commandQueue = mid[n].commandQueue
    BY <1>2, <1>5
  <2>4. L \in DOMAIN commandFrames
    BY <1>2
  <2> QED
    BY <1>4, <2>1, <2>2, <2>3, <2>4
<1>7. Listed(instances)' /\ Count' = Count
  <2>1. SameIds([instances EXCEPT ![i].status = "Running"])
    BY DEF SameIds
  <2>2. SameIds(instances')
    BY <2>1, SameIdsAddChild DEF TakeCommand, i, queue
  <2> QED
    BY <2>2, SameIdsCount DEF IInv, Shape
<1>8. Queued' /\ i \in 1 .. Count /\ \A n \in DOMAIN commandFrames : commandFrames[n].instance # i
  BY <1>1, <1>5, <1>6, <1>7, StartQueued DEF L, queue, i
<1>9. /\ StackShape' /\ OthersKeep(t, a) /\ a \in Nat
      /\ \A k \in Owning(t) : k \in Nat /\ k < a
      /\ Owning(t)' = Owning(t) \cup {a}
      /\ stack'[t][a].inst = i /\ stack'[t][a].prev = currentFrame[t]
  <2>1. /\ ActivationRecord(act) /\ act.at = "exec" /\ act.inst = i /\ act.prev = currentFrame[t]
    BY ActQuiet
  <2> HIDE DEF act
  <2> QED
    BY <1>1, <2>1, PushOwner DEF IInv, Shape
<1> HIDE DEF a
<1>10. Owned' /\ Distinct' /\ Chained'
  BY <1>1, <1>5, <1>6, <1>8, <1>9, StartOwner DEF L
<1>11. Shape'
  BY <1>1, <1>5, <1>6, <1>7, <1>9 DEF Shape, IInv
<1> QED
  BY <1>8, <1>10, <1>11 DEF IInv

\* popFrame removes the back frame and its owner.
LEMMA PopFrameStep ==
  ASSUME IInv, NEW t \in Threads, PopFrame(t)
  PROVE  IInv'
<1> DEFINE L == Len(commandFrames)
           a == Len(stack[t])
           below == Front(commandFrames)
<1>1. /\ StackShape /\ Running(t) /\ Top(t).at = "spin"
      /\ BackFrame.instance = Top(t).inst
      /\ currentFrame' = [currentFrame EXCEPT ![t] = Top(t).prev]
  BY DEF PopFrame, At, SubCommandsLeft, IInv, Shape
<1>2. TopRemoved(t)
  <2>1. Pop(t) \/ \E i : ReplaceTop(t, <<Act("rollback", i)>>)
    BY DEF PopFrame
  <2>2. \A i : Quiet(<<Act("rollback", i)>>)
    BY ActsQuiet
  <2> QED
    BY <1>1, <2>1, <2>2, PopRemoves, ReplaceRemoves
<1>3. /\ a \in Owning(t) /\ Top(t) = stack[t][a]
      /\ \A k \in Owning(t) : k \in Nat /\ k <= a
  <2>1. DOMAIN stack[t] = 1 .. a /\ a \in Nat /\ a > 0
    BY <1>1, OwningDomain DEF Running, StackShape, Listed
  <2> QED
    BY <1>1, <2>1, OwningDomain DEF Owning, Top, Last
<1>4. StackShape' /\ OthersKeep(t, a) /\ Owning(t)' = Owning(t) \ {a}
  BY <1>2, <1>3 DEF TopRemoved, OthersKeep, Owning
<1>5. /\ L \in Nat /\ L > 0 /\ below \in Seq(FrameRecord) /\ Len(below) = L - 1
      /\ \A n \in 1 .. L - 1 : below[n] = commandFrames[n]
  <2>1. commandFrames \in Seq(FrameRecord) /\ commandFrames # <<>>
    BY DEF IInv, Shape
  <2>2. Listed(commandFrames)
    BY <2>1, ListedIsSeq
  <2>3. /\ L \in Nat /\ L > 0 /\ Len(below) = L - 1 /\ DOMAIN below = 1 .. L - 1
        /\ \A n \in 1 .. L - 1 : below[n] = commandFrames[n]
    BY <2>1, <2>2, ListedFront
  <2>4. below \in Seq(FrameRecord)
    BY <2>1, <2>3 DEF Front
  <2> QED
    BY <2>3, <2>4
<1> HIDE DEF below
<1>6. /\ commandFrames' \in Seq(FrameRecord) /\ Len(commandFrames') = L - 1
      /\ \A n \in 1 .. L - 1 : /\ commandFrames'[n].instance = commandFrames[n].instance
                              /\ commandFrames'[n].commandQueue = commandFrames[n].commandQueue
  <2> DEFINE back == Len(below)
             popped == Front(below[back].commandStack)
             group == [below[back] EXCEPT !.commandStack = popped]
  <2>1. \/ commandFrames' = below
        \/ commandFrames' = [below EXCEPT ![back] = group]
    BY DEF PopFrame, below
  <2>2. CASE commandFrames' = below
    BY <1>5, <2>2
  <2>3. CASE commandFrames' = [below EXCEPT ![back] = group] /\ back \in DOMAIN below
    <3>1. below[back] \in FrameRecord /\ below[back].commandStack \in Seq(Nat)
      <4>1. below[back] \in FrameRecord
        BY <1>5, <2>3
      <4> QED
        BY <4>1 DEF FrameRecord
    <3>2. popped \in Seq(Nat)
      BY <3>1, FrontOfNats
    <3>3. /\ group \in FrameRecord /\ group.instance = below[back].instance
          /\ group.commandQueue = below[back].commandQueue
      <4> HIDE DEF popped, back
      <4> QED
        BY <3>1, <3>2, FrameUpdate
    <3> HIDE DEF group
    <3> QED
      BY <1>5, <2>3, <3>3
  <2>4. CASE commandFrames' = [below EXCEPT ![back] = group] /\ back \notin DOMAIN below
    <3>1. commandFrames' = below
      BY <1>5, <2>4
    <3> QED
      BY <1>5, <3>1
  <2> QED
    BY <2>1, <2>2, <2>3, <2>4
<1>7. Listed(instances)' /\ Count' = Count
  <2>1. SameIds(instances')
    <3> DEFINE i == Top(t).inst
               under == Front(commandFrames)
               group == Last(under).commandStack
               closes == instances[i].kind \in {"end", "abort"} /\ Last(group) # Root
               done == IF closes THEN Last(group) ELSE i
               frames == IF closes
                           THEN [under EXCEPT ![Len(under)].commandStack = Front(@)] ELSE under
               parent == Last(Last(frames).commandStack)
               table == IF closes
                          THEN [instances EXCEPT ![done].error = instances[i].error]
                          ELSE instances
    <3>1. \/ instances' = instances \/ instances' = table
          \/ instances' = [HandToParent(table, done, parent) EXCEPT ![done].status = "Complete"]
          \/ instances' = [table EXCEPT ![done].status = "Complete"]
      BY DEF PopFrame
    <3>2. SameIds(instances)
      BY ListedDomain DEF SameIds, IInv, Shape, Listed
    <3> HIDE DEF parent, closes, done
    <3>3. SameIds(table)
      BY <3>2 DEF SameIds
    <3> HIDE DEF table
    <3>4. /\ SameIds([table EXCEPT ![done].status = "Complete"])
          /\ SameIds(HandToParent(table, done, parent))
      BY <3>3, SameIdsExcept, SameIdsHandToParent
    <3>5. SameIds([HandToParent(table, done, parent) EXCEPT ![done].status = "Complete"])
      BY <3>4, SameIdsExcept
    <3> QED
      BY <3>1, <3>2, <3>3, <3>4, <3>5
  <2> QED
    BY <2>1, SameIdsCount DEF IInv, Shape
<1>8. Owned' /\ Distinct' /\ Chained' /\ Queued' /\ L > 1
  <2>1. DOMAIN commandFrames' = 1 .. L - 1
    BY <1>5, <1>6
  <2> HIDE DEF a
  <2> QED
    BY <1>1, <1>3, <1>4, <1>6, <1>7, <2>1, EndOwner DEF L
<1>9. Shape'
  <2>1. commandFrames' # <<>>
    BY <1>5, <1>6, <1>8
  <2> QED
    BY <1>1, <1>4, <1>6, <1>7, <2>1 DEF Shape, IInv
<1> QED
  BY <1>8, <1>9 DEF IInv

-----------------------------------------------------------------------------
(* The invariant *)

\* The initial state satisfies the invariant.
LEMMA InitEstablishes == Init => IInv
<1> SUFFICES ASSUME Init PROVE IInv
  OBVIOUS
<1>1. Listed(<<>>) /\ DOMAIN <<>> = {}
  BY QuietActs DEF Quiet
<1>2. StackShape /\ \A t \in Threads : stack[t] = <<>> /\ Owning(t) = {}
  BY <1>1 DEF Init, StackShape, Owning
<1>3. /\ MakeFrame(Root) \in FrameRecord /\ MakeFrame(Root).instance = Root
      /\ MakeFrame(Root).commandQueue = <<>>
  BY DEF MakeFrame, FrameRecord, Root
<1>4. commandFrames = <<MakeFrame(Root)>>
  BY DEF Init
<1> HIDE DEF MakeFrame
<1>5. /\ commandFrames \in Seq(FrameRecord) /\ commandFrames # <<>>
      /\ Len(commandFrames) = 1 /\ DOMAIN commandFrames = {1}
      /\ commandFrames[1].instance = Root /\ commandFrames[1].commandQueue = <<>>
  BY <1>3, <1>4
<1>6. Count = 0
  BY DEF Init, Count
<1>7. Shape
  BY <1>1, <1>2, <1>5 DEF Init, Shape
<1>8. Owned /\ Distinct
  BY <1>2, <1>5 DEF Owned, FramesOwned, Distinct, OneOwner
<1>9. Chained
  BY <1>2 DEF Init, Chained, Innermost
<1>10. Queued
  BY <1>1, <1>5, <1>6 DEF Queued, Root
<1> QED
  BY <1>7, <1>8, <1>9, <1>10 DEF IInv

\* Steps that leave the activations alone.
LEMMA SameStack ==
  ASSUME StackShape, stack' = stack
  PROVE  StackShape' /\ SameOwners
BY DEF StackShape, SameOwners, Owning

\* Steps that keep the instances.
LEMMA SameTable ==
  ASSUME IInv, SameIds(instances')
  PROVE  Listed(instances)' /\ Count' = Count
BY SameIdsCount DEF IInv, Shape

\* Steps that change activations only.
LEMMA NeutralStack ==
  ASSUME IInv, StackShape', SameOwners, UNCHANGED <<commandFrames, currentFrame, instances>>
  PROVE  IInv'
BY NeutralStep DEF IInv, Shape, Count, Listed

\* A step of a thread inside the manager or inside a command.
LEMMA ThreadStepPreserves ==
  ASSUME IInv, NEW t \in Threads, ThreadStep(t)
  PROVE  IInv'
<1> USE DEF At
<1>1. StackShape
  BY DEF IInv, Shape
<1>2. CASE LoopEnds(t)
  BY <1>1, <1>2, PopQuiet, NeutralStack DEF LoopEnds
<1>3. CASE TakeCommand(t)
  BY <1>3, TakeCommandStep
<1>4. CASE TakeUndoRedo(t)
  <2>1. \E i : Push(t, <<Act("undoRedo", i), Act("flush", Root)>>)
    BY <1>4 DEF TakeUndoRedo
  <2>2. StackShape' /\ SameOwners
    BY <1>1, <2>1, ActsQuiet, PushQuiet
  <2>3. SameIds(instances')
    BY <1>4 DEF TakeUndoRedo, SameIds
  <2> QED
    BY <1>4, <2>2, <2>3, SameTable, DequeueStep DEF TakeUndoRedo
<1>5. CASE ExecWrite(t)
  <2>1. SameIds(instances')
    <3> DEFINE new(p) == [document EXCEPT ![p] = Top(t).inst]
    <3>1. PICK p \in Props :
            instances' = [WriteProps(t, instances, {p}, document, new(p))
                            EXCEPT ![Top(t).inst].wrote = TRUE]
      BY <1>5 DEF ExecWrite
    <3>2. SameIds(WriteProps(t, instances, {p}, document, new(p)))
      BY SameIdsWriteProps
    <3> HIDE DEF new
    <3> QED
      BY <3>1, <3>2, SameIdsExcept
  <2> QED
    BY <1>1, <1>5, <2>1, SameStack, SameTable, NeutralStep DEF ExecWrite
<1>6. Executing(t) => Owning(t) # {}
  <2>1. Executing(t) => Len(stack[t]) \in DOMAIN stack[t]
    BY <1>1 DEF Executing, Running, StackShape, Listed
  <2> QED
    BY <2>1 DEF Executing, Top, Last, Owning
<1>7. CASE ExecQueue(t)
  BY <1>6, <1>7, QuietActs, QueueCommandStep DEF ExecQueue
<1>8. CASE ExecBatch(t)
  BY <1>6, <1>8, QuietActs, QueueCommandStep DEF ExecBatch
<1>9. CASE ExecWait(t)
  <2>1. \E c : Push(t, <<WaitAct(t, c)>>)
    BY <1>9 DEF ExecWait
  <2>2. StackShape' /\ SameOwners
    BY <1>1, <2>1, ActsQuiet, PushQuiet DEF WaitAct
  <2> QED
    BY <1>9, <2>2, NeutralStack DEF ExecWait
<1>10. CASE Execute(t)
  BY <1>10, ExecuteStep
<1>11. CASE SpinProcess(t)
  BY <1>1, <1>11, ActsQuiet, PushQuiet, NeutralStack DEF SpinProcess
<1>12. CASE PopFrame(t)
  BY <1>12, PopFrameStep
<1>13. CASE Rollback(t)
  <2>1. PICK part, i : instances' = [WriteProps(t, instances, Written(part), document, document')
                                       EXCEPT ![i].status = "Complete"]
    BY <1>13 DEF Rollback
  <2>3. SameIds(instances')
    <3>1. SameIds(WriteProps(t, instances, Written(part), document, document'))
      BY SameIdsWriteProps
    <3> QED
      BY <2>1, <3>1, SameIdsExcept
  <2>2. StackShape' /\ SameOwners
    BY <1>1, <1>13, PopQuiet DEF Rollback
  <2> QED
    BY <1>13, <2>2, <2>3, SameTable, NeutralStep DEF Rollback
<1>14. CASE WaitProcess(t)
  BY <1>1, <1>14, ActsQuiet, PushQuiet, NeutralStack DEF WaitProcess
<1>15. CASE WaitNext(t)
  <2>1. Pop(t) \/ \E i, x : ReplaceTop(t, <<[Act("wait", i) EXCEPT !.before = x]>>)
    BY <1>15 DEF WaitNext
  <2>2. StackShape' /\ SameOwners
    BY <1>1, <1>15, <2>1, ActsQuiet, PopQuiet, ReplaceQuiet DEF WaitNext
  <2> QED
    BY <1>15, <2>2, NeutralStack DEF WaitNext
<1>16. CASE WaitStart(t)
  <2>1. Quiet(<<WaitAct(t, Top(t).inst)>>)
    BY ActsQuiet DEF WaitAct
  <2>2. StackShape' /\ SameOwners
    BY <1>1, <1>16, <2>1, ReplaceQuiet DEF WaitStart
  <2> QED
    BY <1>16, <2>2, NeutralStack DEF WaitStart
<1>17. CASE Flush(t)
  BY <1>1, <1>17, ActsQuiet, PushQuiet, PopQuiet, NeutralStack DEF Flush
<1> QED
  BY <1>2, <1>3, <1>4, <1>5, <1>7, <1>8, <1>9, <1>10, <1>11, <1>12, <1>13, <1>14, <1>15,
     <1>16, <1>17 DEF ThreadStep

\* A step of the owner thread.
LEMMA OwnerStepPreserves ==
  ASSUME IInv, OwnerStep
  PROVE  IInv'
<1> USE DEF At
<1>1. StackShape /\ Owner \in Threads
  BY DEF IInv, Shape, Threads
<1>2. CASE ThreadStep(Owner)
  BY <1>1, <1>2, ThreadStepPreserves
<1>3. CASE UndoCall
  BY <1>3, MoveCommandIndexStep DEF UndoCall
<1>4. CASE RedoCall
  BY <1>4, MoveCommandIndexStep DEF RedoCall
<1>5. CASE UndoEntry \/ RedoEntry
  BY <1>1, <1>5, SameStack, NeutralStack DEF UndoEntry, RedoEntry
<1>6. CASE UndoRedoDone \/ UndoRedoFails
  <2>1. SameIds(instances')
    BY <1>6 DEF UndoRedoDone, UndoRedoFails, SameIds
  <2>2. StackShape' /\ SameOwners
    BY <1>1, <1>6, PopQuiet DEF UndoRedoDone, UndoRedoFails
  <2> QED
    BY <1>6, <2>1, <2>2, SameTable, NeutralStep DEF UndoRedoDone, UndoRedoFails
<1>7. CASE MoveDone \/ RemoveCall \/ UpdateDone
  BY <1>1, <1>7, PopQuiet, NeutralStack DEF MoveDone, RemoveCall, UpdateDone
<1>8. CASE FiniExit
  BY <1>1, <1>8, ActsQuiet, ReplaceQuiet, NeutralStack DEF FiniExit
<1>9. CASE FiniJoin
  BY <1>1, <1>9, PopQuiet, NeutralStack DEF FiniJoin, CallVars
<1> QED
  BY <1>2, <1>3, <1>4, <1>5, <1>6, <1>7, <1>8, <1>9 DEF OwnerStep

\* A step of the worker thread.
LEMMA WorkerStepPreserves ==
  ASSUME IInv, WorkerStep
  PROVE  IInv'
<1>1. StackShape /\ Worker \in Threads
  BY DEF IInv, Shape, Threads
<1>2. CASE ThreadStep(Worker)
  BY <1>1, <1>2, ThreadStepPreserves
<1>3. CASE WorkerTurn \/ WorkerWoken
  <2>1. Push(Worker, <<Act("loop", Root)>>) \/ UNCHANGED stack
    BY <1>3 DEF WorkerTurn, WorkerWoken
  <2>2. StackShape' /\ SameOwners
    BY <1>1, <2>1, ActsQuiet, PushQuiet, SameStack
  <2> QED
    BY <1>3, <2>2, NeutralStack DEF WorkerTurn, WorkerWoken
<1> QED
  BY <1>2, <1>3 DEF WorkerStep

\* A call of the application.
LEMMA AppStepPreserves ==
  ASSUME IInv, AppStep
  PROVE  IInv'
<1> USE DEF CallVars
<1>1. StackShape /\ Owner \in Threads
  BY DEF IInv, Shape, Threads
<1>2. CASE AppQueue
  BY <1>1, <1>2, QuietActs, QueueCommandStep DEF AppQueue
<1>3. CASE AppBatch
  BY <1>1, <1>3, QuietActs, QueueCommandStep DEF AppBatch
<1>4. CASE AppWait
  <2>1. \E i : Push(Owner, <<WaitAct(Owner, i)>>)
    BY <1>4 DEF AppWait
  <2>2. StackShape' /\ SameOwners
    BY <1>1, <2>1, ActsQuiet, PushQuiet DEF WaitAct
  <2> QED
    BY <1>4, <2>2, NeutralStack DEF AppWait
<1>5. CASE AppMove
  BY <1>5, MoveCommandIndexStep DEF AppMove, MayMove, Idle
<1>6. CASE AppUndo \/ AppRedo \/ AppRemove \/ AppFlush \/ AppUpdate
  <2>1. \/ \E a : a \notin {"exec", "spin"} /\ Push(Owner, <<Act(a, Root), Act("flush", Root)>>)
        \/ Push(Owner, <<Act("flush", Root)>>)
        \/ Push(Owner, <<Act("update", Root), Act("loop", Root)>>)
    BY <1>6 DEF AppUndo, AppRedo, AppRemove, AppFlush, AppUpdate
  <2>2. StackShape' /\ SameOwners
    BY <1>1, <2>1, ActsQuiet, PushQuiet
  <2> QED
    BY <1>6, <2>2, NeutralStack DEF AppUndo, AppRedo, AppRemove, AppFlush, AppUpdate
<1>7. CASE AppFini
  BY <1>1, <1>7, ActsQuiet, QueueCommandStep DEF AppFini
<1> QED
  BY <1>2, <1>3, <1>4, <1>5, <1>6, <1>7 DEF AppStep

\* Every step preserves the invariant.
LEMMA StepPreserves == IInv /\ [Next]_vars => IInv'
<1> SUFFICES ASSUME IInv, [Next]_vars PROVE IInv'
  OBVIOUS
<1>1. CASE Next
  BY <1>1, OwnerStepPreserves, WorkerStepPreserves, AppStepPreserves DEF Next
<1>2. CASE UNCHANGED vars
  BY <1>2, SameStack, NeutralStack DEF vars, IInv, Shape
<1> QED
  BY <1>1, <1>2

\* The strengthening is an invariant: the frames and the owners of the two threads
\* describe each other, and every instance is queued or running at most once.
THEOREM Invariance == Spec => []IInv
BY InitEstablishes, StepPreserves, PTL DEF Spec

\* commandFrames_ and currentFrame_ keep their discipline whatever the two threads
\* do and however many commands there are: see FrameDiscipline.
THEOREM FrameDisciplineHolds == Spec => []FrameDiscipline
<1>1. IInv => FrameDiscipline
  <2> SUFFICES ASSUME IInv PROVE FrameDiscipline
    OBVIOUS
  <2>1. \A t \in Threads : Enclosing(t, Len(stack[t]) + 1, currentFrame[t])
    <3> SUFFICES ASSUME NEW t \in Threads
                 PROVE  Enclosing(t, Len(stack[t]) + 1, currentFrame[t])
      OBVIOUS
    <3>1. \A j \in Owning(t) : j < Len(stack[t]) + 1
      BY OwningDomain DEF IInv, Shape
    <3> QED
      BY <3>1 DEF IInv, Chained, Innermost, Enclosing
  <2>2. FramesNested
    <3> SUFFICES ASSUME NEW t \in Threads, NEW k \in Owning(t)
                 PROVE  \E n \in 2 .. Len(commandFrames) :
                          /\ commandFrames[n].instance = stack[t][k].inst
                          /\ \A j \in Owning(t) : j < k =>
                               \E m \in 2 .. n - 1 : commandFrames[m].instance = stack[t][j].inst
      BY DEF FramesNested
    <3>1. DOMAIN commandFrames = 1 .. Len(commandFrames) /\ Len(commandFrames) \in Nat
      BY FrameTypes DEF IInv
    <3>2. PICK n \in 2 .. Len(commandFrames) : commandFrames[n].instance = stack[t][k].inst
      BY DEF IInv, Owned
    <3>3. ASSUME NEW j \in Owning(t), j < k
          PROVE  \E m \in 2 .. n - 1 : commandFrames[m].instance = stack[t][j].inst
      <4>1. PICK m \in 2 .. Len(commandFrames) : commandFrames[m].instance = stack[t][j].inst
        BY DEF IInv, Owned
      <4>2. m < n
        BY <3>1, <3>2, <3>3, <4>1 DEF IInv, Distinct
      <4> QED
        BY <3>1, <4>1, <4>2
    <3> QED
      BY <3>2, <3>3
  <2> QED
    BY <2>1, <2>2 DEF FrameDiscipline, IInv, Owned, Distinct
<1> QED
  BY <1>1, Invariance, PTL

\* No command is executed twice, however many are queued from wherever: see QueuedOnce.
THEOREM QueuedOnceHolds == Spec => []QueuedOnce
<1>1. IInv => QueuedOnce
  BY DEF IInv, Queued, QueuedOnce
<1> QED
  BY <1>1, Invariance, PTL

-----------------------------------------------------------------------------
(* What undo data do to a document *)

\* Documents, helper lists, entries and undo data with values in W.
Docs(W) == [Props -> W]
Lists(W) == UNION {[S -> [pre : W, post : W]] : S \in SUBSET Props}
DataEntry(W) == [mergeable : BOOLEAN, helpers : Lists(W)]
DataOf(W) == Seq(DataEntry(W))

\* Induction over sequences that grow at the end.
LEMMA AppendInduction ==
  ASSUME NEW S, NEW P, <<>> \in P, \A s \in Seq(S) : \A x \in S : s \in P => Append(s, x) \in P
  PROVE  Seq(S) \subseteq P
<1> DEFINE N == {n \in Nat : \A s \in Seq(S) : Len(s) = n => s \in P}
<1>1. 0 \in N
  OBVIOUS
<1>2. ASSUME NEW n \in Nat, n \in N PROVE n + 1 \in N
  <2> SUFFICES ASSUME NEW s \in Seq(S), Len(s) = n + 1 PROVE s \in P
    OBVIOUS
  <2> DEFINE f == SubSeq(s, 1, n)
  <2>1. f \in Seq(S) /\ Len(f) = n /\ s[n + 1] \in S
    OBVIOUS
  <2>2. s = Append(f, s[n + 1])
    OBVIOUS
  <2> HIDE DEF f
  <2>3. f \in P
    BY <1>2, <2>1
  <2> QED
    BY <2>1, <2>2, <2>3
<1>3. Nat \subseteq N
  <2> HIDE DEF N
  <2> QED
    BY <1>1, <1>2, Induction
<1> QED
  BY <1>3

Undoes(f, data, doc) ==
  f = [k \in 0 .. Len(data) |->
        IF k = Len(data) THEN doc ELSE UndoHelpers(data[k + 1].helpers, f[k + 1])]
Redoes(f, data, doc) ==
  f = [k \in 0 .. Len(data) |->
        IF k = 0 THEN doc ELSE RedoHelpers(data[k].helpers, f[k - 1])]

\* The documents in between are determined ...
LEMMA UndoesOnce ==
  ASSUME NEW W, NEW data \in DataOf(W), NEW doc, NEW f, NEW g,
         Undoes(f, data, doc), Undoes(g, data, doc)
  PROVE  f = g
<1> DEFINE n == Len(data)
           S == {k \in 0 .. n : f[n - k] = g[n - k]}
<1>1. n \in Nat
  BY DEF DataOf
<1>2. f = [k \in 0 .. n |-> IF k = n THEN doc ELSE UndoHelpers(data[k + 1].helpers, f[k + 1])]
  BY DEF Undoes
<1>3. g = [k \in 0 .. n |-> IF k = n THEN doc ELSE UndoHelpers(data[k + 1].helpers, g[k + 1])]
  BY DEF Undoes
<1> HIDE DEF n
<1>4. 0 \in S
  BY <1>1, <1>2, <1>3
<1>5. ASSUME NEW k \in 1 .. n, k - 1 \in S PROVE k \in S
  <2>1. n - k \in 0 .. n /\ n - k # n /\ (n - k) + 1 = n - (k - 1)
    BY <1>1
  <2>2. f[n - (k - 1)] = g[n - (k - 1)]
    BY <1>5
  <2>3. /\ f[n - k] = UndoHelpers(data[(n - k) + 1].helpers, f[(n - k) + 1])
        /\ g[n - k] = UndoHelpers(data[(n - k) + 1].helpers, g[(n - k) + 1])
    BY <1>2, <1>3, <2>1
  <2>4. f[n - k] = g[n - k] /\ k \in 0 .. n
    BY <1>1, <2>1, <2>2, <2>3
  <2> QED
    BY <2>4
<1>6. 0 .. n \subseteq S
  <2> HIDE DEF S
  <2> QED
    BY <1>1, <1>4, <1>5, InductionUpTo
<1>7. \A k \in 0 .. n : n - k \in 0 .. n /\ n - (n - k) = k
  BY <1>1
<1>8. \A k \in 0 .. n : f[k] = g[k]
  BY <1>6, <1>7
<1> HIDE DEF S
<1> QED
  BY <1>2, <1>3, <1>8

LEMMA RedoesOnce ==
  ASSUME NEW W, NEW data \in DataOf(W), NEW doc, NEW f, NEW g,
         Redoes(f, data, doc), Redoes(g, data, doc)
  PROVE  f = g
<1> DEFINE n == Len(data)
           S == {k \in 0 .. n : f[k] = g[k]}
<1>1. n \in Nat
  BY DEF DataOf
<1>2. f = [k \in 0 .. n |-> IF k = 0 THEN doc ELSE RedoHelpers(data[k].helpers, f[k - 1])]
  BY DEF Redoes
<1>3. g = [k \in 0 .. n |-> IF k = 0 THEN doc ELSE RedoHelpers(data[k].helpers, g[k - 1])]
  BY DEF Redoes
<1> HIDE DEF n
<1>4. 0 \in S
  BY <1>1, <1>2, <1>3
<1>5. ASSUME NEW k \in 1 .. n, k - 1 \in S PROVE k \in S
  BY <1>1, <1>2, <1>3, <1>5
<1>6. 0 .. n \subseteq S
  <2> HIDE DEF S
  <2> QED
    BY <1>1, <1>4, <1>5, InductionUpTo
<1> QED
  BY <1>2, <1>3, <1>6

\* ... and one entry more adds one.
LEMMA AppendUndoes ==
  ASSUME NEW W, NEW data \in DataOf(W), NEW e \in DataEntry(W), NEW doc, NEW f,
         Undoes(f, data, UndoHelpers(e.helpers, doc))
  PROVE  \E g : Undoes(g, Append(data, e), doc) /\ g[0] = f[0]
<1> DEFINE n == Len(data)
           more == Append(data, e)
           g == [k \in 0 .. n + 1 |-> IF k = n + 1 THEN doc ELSE f[k]]
<1>1. n \in Nat /\ Len(more) = n + 1 /\ more[n + 1] = e /\ \A k \in 1 .. n : more[k] = data[k]
  BY DEF DataOf
<1>2. f = [k \in 0 .. n |-> IF k = n THEN UndoHelpers(e.helpers, doc)
                           ELSE UndoHelpers(data[k + 1].helpers, f[k + 1])]
  BY DEF Undoes
<1> HIDE DEF n, more
<1>3. \A k \in 0 .. n + 1 : g[k] = IF k = n + 1 THEN doc
                                   ELSE UndoHelpers(more[k + 1].helpers, g[k + 1])
  <2> SUFFICES ASSUME NEW k \in 0 .. n PROVE g[k] = UndoHelpers(more[k + 1].helpers, g[k + 1])
    BY <1>1
  <2>1. CASE k = n
    BY <1>1, <1>2, <2>1
  <2>2. CASE k \in 0 .. n - 1
    <3>1. k + 1 \in 0 .. n /\ k # n /\ k + 1 # n + 1 /\ k + 1 \in 1 .. n /\ k # n + 1 /\ k \in 0 .. n + 1
          /\ k + 1 \in 0 .. n + 1
      BY <1>1, <2>2
    <3>2. f[k] = UndoHelpers(data[k + 1].helpers, f[k + 1])
      BY <1>2, <3>1
    <3> QED
      BY <1>1, <3>1, <3>2
  <2> QED
    BY <1>1, <2>1, <2>2
<1>4. g = [k \in 0 .. Len(more) |->
             IF k = Len(more) THEN doc ELSE UndoHelpers(more[k + 1].helpers, g[k + 1])]
  BY <1>1, <1>3
<1>5. g[0] = f[0]
  BY <1>1
<1> HIDE DEF g
<1> QED
  BY <1>4, <1>5 DEF Undoes, more

LEMMA AppendRedoes ==
  ASSUME NEW W, NEW data \in DataOf(W), NEW e \in DataEntry(W), NEW doc, NEW f,
         Redoes(f, data, doc)
  PROVE  \E g : /\ Redoes(g, Append(data, e), doc)
                /\ g[Len(data) + 1] = RedoHelpers(e.helpers, f[Len(data)])
<1> DEFINE n == Len(data)
           more == Append(data, e)
           g == [k \in 0 .. n + 1 |-> IF k = n + 1 THEN RedoHelpers(e.helpers, f[n]) ELSE f[k]]
<1>1. n \in Nat /\ Len(more) = n + 1 /\ more[n + 1] = e /\ \A k \in 1 .. n : more[k] = data[k]
  BY DEF DataOf
<1>2. f = [k \in 0 .. n |-> IF k = 0 THEN doc ELSE RedoHelpers(data[k].helpers, f[k - 1])]
  BY DEF Redoes
<1> HIDE DEF n, more
<1>3. \A k \in 0 .. n + 1 : g[k] = IF k = 0 THEN doc ELSE RedoHelpers(more[k].helpers, g[k - 1])
  <2> SUFFICES ASSUME NEW k \in 0 .. n + 1
               PROVE  g[k] = IF k = 0 THEN doc ELSE RedoHelpers(more[k].helpers, g[k - 1])
    OBVIOUS
  <2>1. CASE k = n + 1
    BY <1>1, <2>1
  <2>2. CASE k \in 1 .. n
    <3>1. k # n + 1 /\ k - 1 # n + 1 /\ k # 0 /\ k - 1 \in 0 .. n + 1 /\ k \in 0 .. n
      BY <1>1, <2>2
    <3>2. f[k] = RedoHelpers(data[k].helpers, f[k - 1])
      BY <1>2, <3>1
    <3> QED
      BY <1>1, <2>2, <3>1, <3>2
  <2>3. CASE k = 0
    BY <1>1, <1>2, <2>3
  <2> QED
    BY <1>1, <2>1, <2>2, <2>3
<1>4. g = [k \in 0 .. Len(more) |-> IF k = 0 THEN doc ELSE RedoHelpers(more[k].helpers, g[k - 1])]
  BY <1>1, <1>3
<1>5. g[n + 1] = RedoHelpers(e.helpers, f[n])
  BY <1>1
<1> HIDE DEF g
<1> QED
  BY <1>4, <1>5 DEF Redoes, more, n

LEMMA NoneUndoes ==
  ASSUME NEW doc
  PROVE  \E f : Undoes(f, <<>>, doc) /\ Redoes(f, <<>>, doc) /\ f[0] = doc
<1> DEFINE f == [k \in 0 .. 0 |-> doc]
<1>1. f = [k \in 0 .. 0 |-> IF k = 0 THEN doc ELSE UndoHelpers(<<>>[k + 1].helpers, f[k + 1])]
  OBVIOUS
<1>2. f = [k \in 0 .. 0 |-> IF k = 0 THEN doc ELSE RedoHelpers(<<>>[k].helpers, f[k - 1])]
  OBVIOUS
<1>3. Len(<<>>) = 0 /\ f[0] = doc
  OBVIOUS
<1> HIDE DEF f
<1> QED
  BY <1>1, <1>2, <1>3 DEF Undoes, Redoes

\* There always are such documents, and Undo and Redo lead where they do.
LEMMA UndoesSome ==
  ASSUME NEW W, NEW data \in DataOf(W)
  PROVE  \A doc : /\ \E f : Undoes(f, data, doc) /\ Undo(data, doc) = f[0]
                  /\ \E f : Redoes(f, data, doc) /\ Redo(data, doc) = f[Len(data)]
<1> DEFINE P == {d \in DataOf(W) : \A doc : (\E f : Undoes(f, d, doc)) /\ \E f : Redoes(f, d, doc)}
<1>1. <<>> \in P
  <2>1. <<>> \in DataOf(W)
    BY DEF DataOf
  <2>2. ASSUME NEW doc PROVE (\E f : Undoes(f, <<>>, doc)) /\ \E f : Redoes(f, <<>>, doc)
    BY NoneUndoes
  <2> QED
    BY <2>1, <2>2
<1>2. ASSUME NEW d \in DataOf(W), NEW e \in DataEntry(W), d \in P PROVE Append(d, e) \in P
  <2>1. Append(d, e) \in DataOf(W)
    BY DEF DataOf
  <2> SUFFICES ASSUME NEW doc
               PROVE  (\E f : Undoes(f, Append(d, e), doc)) /\ \E f : Redoes(f, Append(d, e), doc)
    BY <2>1
  <2>2. (\E f : Undoes(f, d, UndoHelpers(e.helpers, doc))) /\ \E f : Redoes(f, d, doc)
    BY <1>2
  <2> QED
    BY <2>2, AppendUndoes, AppendRedoes
<1>3. DataOf(W) \subseteq P
  <2> HIDE DEF P
  <2> QED
    BY <1>1, <1>2, AppendInduction DEF DataOf
<1> SUFFICES ASSUME NEW doc
             PROVE  /\ \E f : Undoes(f, data, doc) /\ Undo(data, doc) = f[0]
                    /\ \E f : Redoes(f, data, doc) /\ Redo(data, doc) = f[Len(data)]
  OBVIOUS
<1>4. (\E f : Undoes(f, data, doc)) /\ \E f : Redoes(f, data, doc)
  BY <1>3
<1> DEFINE back == CHOOSE f : f = [k \in 0 .. Len(data) |->
                     IF k = Len(data) THEN doc ELSE UndoHelpers(data[k + 1].helpers, f[k + 1])]
           forth == CHOOSE f : f = [k \in 0 .. Len(data) |->
                     IF k = 0 THEN doc ELSE RedoHelpers(data[k].helpers, f[k - 1])]
<1>5. Undo(data, doc) = back[0] /\ Redo(data, doc) = forth[Len(data)]
  BY DEF Undo, Redo
<1>6. Undoes(back, data, doc)
  <2>1. \E f : f = [k \in 0 .. Len(data) |->
                     IF k = Len(data) THEN doc ELSE UndoHelpers(data[k + 1].helpers, f[k + 1])]
    BY <1>4 DEF Undoes
  <2>2. back = [k \in 0 .. Len(data) |->
                     IF k = Len(data) THEN doc ELSE UndoHelpers(data[k + 1].helpers, back[k + 1])]
    BY <2>1
  <2> HIDE DEF back
  <2> QED
    BY <2>2 DEF Undoes
<1>7. Redoes(forth, data, doc)
  <2>1. \E f : f = [k \in 0 .. Len(data) |->
                     IF k = 0 THEN doc ELSE RedoHelpers(data[k].helpers, f[k - 1])]
    BY <1>4 DEF Redoes
  <2>2. forth = [k \in 0 .. Len(data) |->
                     IF k = 0 THEN doc ELSE RedoHelpers(data[k].helpers, forth[k - 1])]
    BY <2>1
  <2> HIDE DEF forth
  <2> QED
    BY <2>2 DEF Redoes
<1> QED
  BY <1>5, <1>6, <1>7

\* Undo and redo, entry by entry.
LEMMA UndoAppend ==
  ASSUME NEW W, NEW data \in DataOf(W), NEW e \in DataEntry(W), NEW doc
  PROVE  /\ Undo(Append(data, e), doc) = Undo(data, UndoHelpers(e.helpers, doc))
         /\ Redo(Append(data, e), doc) = RedoHelpers(e.helpers, Redo(data, doc))
         /\ Undo(<<>>, doc) = doc /\ Redo(<<>>, doc) = doc
<1>1. Append(data, e) \in DataOf(W) /\ <<>> \in DataOf(W)
      /\ Len(Append(data, e)) = Len(data) + 1 /\ Len(<<>>) = 0
  BY DEF DataOf
<1>2. Undo(Append(data, e), doc) = Undo(data, UndoHelpers(e.helpers, doc))
  <2>1. PICK f : /\ Undoes(f, data, UndoHelpers(e.helpers, doc))
                 /\ Undo(data, UndoHelpers(e.helpers, doc)) = f[0]
    BY UndoesSome
  <2>2. PICK g : Undoes(g, Append(data, e), doc) /\ g[0] = f[0]
    BY <2>1, AppendUndoes
  <2>3. PICK h : Undoes(h, Append(data, e), doc) /\ Undo(Append(data, e), doc) = h[0]
    BY <1>1, UndoesSome
  <2> QED
    BY <1>1, <2>1, <2>2, <2>3, UndoesOnce
<1>3. Redo(Append(data, e), doc) = RedoHelpers(e.helpers, Redo(data, doc))
  <2>1. PICK f : Redoes(f, data, doc) /\ Redo(data, doc) = f[Len(data)]
    BY UndoesSome
  <2>2. PICK g : /\ Redoes(g, Append(data, e), doc)
                 /\ g[Len(data) + 1] = RedoHelpers(e.helpers, f[Len(data)])
    BY <2>1, AppendRedoes
  <2>3. PICK h : /\ Redoes(h, Append(data, e), doc)
                 /\ Redo(Append(data, e), doc) = h[Len(Append(data, e))]
    BY <1>1, UndoesSome
  <2> QED
    BY <1>1, <2>1, <2>2, <2>3, RedoesOnce
<1>4. Undo(<<>>, doc) = doc /\ Redo(<<>>, doc) = doc
  BY <1>1, UndoesSome, NoneUndoes, UndoesOnce, RedoesOnce
<1> QED
  BY <1>2, <1>3, <1>4

\* Undoing data that follow others undoes them first; redoing does so last.
LEMMA UndoConcat ==
  ASSUME NEW W, NEW first \in DataOf(W), NEW second \in DataOf(W)
  PROVE  \A doc : /\ Undo(first \o second, doc) = Undo(first, Undo(second, doc))
                  /\ Redo(first \o second, doc) = Redo(second, Redo(first, doc))
<1> DEFINE P == {d \in DataOf(W) :
                   \A doc : /\ Undo(first \o d, doc) = Undo(first, Undo(d, doc))
                            /\ Redo(first \o d, doc) = Redo(d, Redo(first, doc))}
<1>1. <<>> \in P
  <2>1. first \o <<>> = first /\ <<>> \in DataOf(W)
    BY DEF DataOf
  <2>2. [mergeable |-> TRUE, helpers |-> NoHelpers] \in DataEntry(W)
    <3>1. NoHelpers \in [{} -> [pre : W, post : W]] /\ {} \in SUBSET Props
      BY DEF NoHelpers
    <3> QED
      BY <3>1 DEF DataEntry, Lists
  <2>3. \A doc : Undo(<<>>, doc) = doc /\ Redo(<<>>, doc) = doc
    BY <2>1, <2>2, UndoAppend
  <2> QED
    BY <2>1, <2>3
<1>2. ASSUME NEW d \in DataOf(W), NEW e \in DataEntry(W), d \in P PROVE Append(d, e) \in P
  <2>1. /\ Append(d, e) \in DataOf(W) /\ first \o d \in DataOf(W)
        /\ first \o Append(d, e) = Append(first \o d, e)
    BY DEF DataOf
  <2> SUFFICES ASSUME NEW doc
               PROVE  /\ Undo(Append(first \o d, e), doc) = Undo(first, Undo(Append(d, e), doc))
                      /\ Redo(Append(first \o d, e), doc) = Redo(Append(d, e), Redo(first, doc))
    BY <2>1
  <2>2. /\ Undo(Append(first \o d, e), doc) = Undo(first \o d, UndoHelpers(e.helpers, doc))
        /\ Redo(Append(first \o d, e), doc) = RedoHelpers(e.helpers, Redo(first \o d, doc))
    BY <2>1, UndoAppend
  <2>3. /\ Undo(Append(d, e), doc) = Undo(d, UndoHelpers(e.helpers, doc))
        /\ Redo(Append(d, e), Redo(first, doc)) = RedoHelpers(e.helpers, Redo(d, Redo(first, doc)))
    BY UndoAppend
  <2>4. /\ Undo(first \o d, UndoHelpers(e.helpers, doc)) =
             Undo(first, Undo(d, UndoHelpers(e.helpers, doc)))
        /\ Redo(first \o d, doc) = Redo(d, Redo(first, doc))
    BY <1>2
  <2> QED
    BY <2>2, <2>3, <2>4
<1>3. DataOf(W) \subseteq P
  <2> HIDE DEF P
  <2> QED
    BY <1>1, <1>2, AppendInduction DEF DataOf
<1> QED
  BY <1>3

\* The empty list, and values that may be more.
LEMMA ListTypes ==
  ASSUME NEW W
  PROVE  /\ NoHelpers \in Lists(W) /\ <<>> \in DataOf(W)
         /\ \A V : W \subseteq V => /\ Docs(W) \subseteq Docs(V) /\ Lists(W) \subseteq Lists(V)
                                    /\ DataOf(W) \subseteq DataOf(V)
<1>1. NoHelpers \in [{} -> [pre : W, post : W]] /\ {} \in SUBSET Props
  BY DEF NoHelpers
<1>2. NoHelpers \in Lists(W)
  BY <1>1 DEF Lists
<1>3. ASSUME NEW V, W \subseteq V
      PROVE  /\ Docs(W) \subseteq Docs(V) /\ Lists(W) \subseteq Lists(V)
             /\ DataOf(W) \subseteq DataOf(V)
  <2>1. Docs(W) \subseteq Docs(V)
    BY <1>3 DEF Docs
  <2>2. \A S : [S -> [pre : W, post : W]] \subseteq [S -> [pre : V, post : V]]
    BY <1>3
  <2>3. Lists(W) \subseteq Lists(V)
    BY <2>2 DEF Lists
  <2>4. DataEntry(W) \subseteq DataEntry(V)
    BY <2>3 DEF DataEntry
  <2>5. DataOf(W) \subseteq DataOf(V)
    BY <2>4 DEF DataOf
  <2> QED
    BY <2>1, <2>3, <2>5
<1> QED
  BY <1>2, <1>3 DEF DataOf

\* What a list looks like.
LEMMA ListFields ==
  ASSUME NEW W
  PROVE  \A l : l \in Lists(W) <=> /\ DOMAIN l \subseteq Props /\ l = [q \in DOMAIN l |-> l[q]]
                                   /\ \A q \in DOMAIN l : l[q] \in [pre : W, post : W]
<1>1. ASSUME NEW l, l \in Lists(W)
      PROVE  /\ DOMAIN l \subseteq Props /\ l = [q \in DOMAIN l |-> l[q]]
             /\ \A q \in DOMAIN l : l[q] \in [pre : W, post : W]
  <2>1. PICK S \in SUBSET Props : l \in [S -> [pre : W, post : W]]
    BY <1>1 DEF Lists
  <2> QED
    BY <2>1
<1>2. ASSUME NEW l, DOMAIN l \subseteq Props, l = [q \in DOMAIN l |-> l[q]],
             \A q \in DOMAIN l : l[q] \in [pre : W, post : W]
      PROVE  l \in Lists(W)
  <2>1. l \in [DOMAIN l -> [pre : W, post : W]]
    BY <1>2
  <2> QED
    BY <1>2, <2>1 DEF Lists
<1> QED
  BY <1>1, <1>2

LEMMA RecordTyped ==
  ASSUME NEW W, NEW list \in Lists(W), NEW written \in SUBSET Props,
         NEW doc \in Docs(W), NEW new \in Docs(W)
  PROVE  RecordWrites(list, written, doc, new) \in Lists(W)
<1> DEFINE r == RecordWrites(list, written, doc, new)
<1>1. DOMAIN list \subseteq Props /\ \A q \in DOMAIN list : list[q] \in [pre : W, post : W]
  BY ListFields
<1>2. DOMAIN r = DOMAIN list \cup written /\ r = [q \in DOMAIN r |-> r[q]]
  BY DEF RecordWrites
<1>3. \A q \in DOMAIN list \ written : r[q] = list[q]
  BY DEF RecordWrites
<1>4. \A q \in written : r[q] = [pre |-> IF q \in DOMAIN list THEN list[q].pre ELSE doc[q],
                                 post |-> new[q]]
  BY DEF RecordWrites, Record
<1>5. \A q \in written : doc[q] \in W /\ new[q] \in W
  BY DEF Docs
<1>6. \A q \in DOMAIN list : list[q].pre \in W
  BY <1>1
<1> HIDE DEF r
<1>7. \A q \in DOMAIN r : r[q] \in [pre : W, post : W]
  BY <1>1, <1>2, <1>3, <1>4, <1>5, <1>6
<1>8. r \in Lists(W)
  BY <1>1, <1>2, <1>7, ListFields
<1> QED
  BY <1>8 DEF r

LEMMA MergeTyped ==
  ASSUME NEW W, NEW list \in Lists(W), NEW child \in Lists(W)
  PROVE  Merge(list, child) \in Lists(W)
<1> DEFINE r == Merge(list, child)
<1>1. /\ DOMAIN list \subseteq Props /\ \A q \in DOMAIN list : list[q] \in [pre : W, post : W]
      /\ DOMAIN child \subseteq Props /\ \A q \in DOMAIN child : child[q] \in [pre : W, post : W]
  BY ListFields
<1>2. DOMAIN r = DOMAIN list \cup DOMAIN child /\ r = [q \in DOMAIN r |-> r[q]]
  BY DEF Merge
<1>3. \A q \in DOMAIN r :
        r[q] = [pre |-> IF q \in DOMAIN list THEN list[q].pre ELSE child[q].pre,
                post |-> IF q \in DOMAIN child THEN child[q].post ELSE list[q].post]
  BY DEF Merge
<1>4. /\ \A q \in DOMAIN list : list[q].pre \in W /\ list[q].post \in W
      /\ \A q \in DOMAIN child : child[q].pre \in W /\ child[q].post \in W
  BY <1>1
<1> HIDE DEF r
<1>5. ASSUME NEW q \in DOMAIN r PROVE r[q] \in [pre : W, post : W]
  <2>1. q \in DOMAIN list \/ q \in DOMAIN child
    BY <1>2
  <2>2. /\ (IF q \in DOMAIN list THEN list[q].pre ELSE child[q].pre) \in W
        /\ (IF q \in DOMAIN child THEN child[q].post ELSE list[q].post) \in W
    BY <1>4, <2>1
  <2> QED
    BY <1>3, <2>2
<1>6. r \in Lists(W)
  BY <1>1, <1>2, <1>5, ListFields
<1> QED
  BY <1>6 DEF r

\* Undo data stay undo data, and lead from documents to documents.
LEMMA HelpersTyped ==
  ASSUME NEW W, NEW list \in Lists(W), NEW doc \in Docs(W)
  PROVE  UndoHelpers(list, doc) \in Docs(W) /\ RedoHelpers(list, doc) \in Docs(W)
<1>1. \A q \in DOMAIN list : list[q].pre \in W /\ list[q].post \in W
  BY ListFields
<1>2. DOMAIN doc = Props /\ \A q \in Props : doc[q] \in W
  BY DEF Docs
<1> QED
  BY <1>1, <1>2 DEF UndoHelpers, RedoHelpers, Docs

LEMMA UndoTyped ==
  ASSUME NEW W, NEW data \in DataOf(W)
  PROVE  \A doc \in Docs(W) : Undo(data, doc) \in Docs(W) /\ Redo(data, doc) \in Docs(W)
<1> DEFINE P == {d \in DataOf(W) :
                   \A doc \in Docs(W) : Undo(d, doc) \in Docs(W) /\ Redo(d, doc) \in Docs(W)}
<1>1. <<>> \in P
  <2>1. <<>> \in DataOf(W) /\ [mergeable |-> TRUE, helpers |-> NoHelpers] \in DataEntry(W)
    BY ListTypes DEF DataEntry
  <2> QED
    BY <2>1, UndoAppend
<1>2. ASSUME NEW d \in DataOf(W), NEW e \in DataEntry(W), d \in P PROVE Append(d, e) \in P
  <2>1. Append(d, e) \in DataOf(W) /\ e.helpers \in Lists(W)
    BY DEF DataOf, DataEntry
  <2> SUFFICES ASSUME NEW doc \in Docs(W)
               PROVE  Undo(Append(d, e), doc) \in Docs(W) /\ Redo(Append(d, e), doc) \in Docs(W)
    BY <2>1
  <2>2. UndoHelpers(e.helpers, doc) \in Docs(W) /\ Redo(d, doc) \in Docs(W)
    BY <1>2, <2>1, HelpersTyped
  <2> QED
    BY <1>2, <2>1, <2>2, HelpersTyped, UndoAppend
<1>3. DataOf(W) \subseteq P
  <2> HIDE DEF P
  <2> QED
    BY <1>1, <1>2, AppendInduction DEF DataOf
<1> QED
  BY <1>3

LEMMA WrittenProps ==
  ASSUME NEW W, NEW data \in DataOf(W)
  PROVE  Written(data) \subseteq Props
<1>1. \A k \in DOMAIN data : data[k] \in DataEntry(W)
  BY DEF DataOf
<1>2. \A k \in DOMAIN data : DOMAIN data[k].helpers \subseteq Props
  BY <1>1, ListFields DEF DataEntry
<1> QED
  BY <1>2 DEF Written

\* What undo and redo apply of the data when they stop half-way is undo data too.
LEMMA StoppedEntry ==
  ASSUME NEW W, NEW entry \in DataEntry(W), NEW part \in Stopped(entry)
  PROVE  part \in DataEntry(W)
<1>1. PICK S \in SUBSET DOMAIN entry.helpers : part = Cut(entry, S)
  BY DEF Stopped
<1>2. entry.helpers \in Lists(W) /\ entry.mergeable \in BOOLEAN
  BY DEF DataEntry
<1>3. DOMAIN entry.helpers \subseteq Props /\ \A q \in S : entry.helpers[q] \in [pre : W, post : W]
  BY <1>2, ListFields
<1>4. PICK list : list = [q \in S |-> entry.helpers[q]]
  OBVIOUS
<1>5. list \in [S -> [pre : W, post : W]] /\ S \in SUBSET Props
  BY <1>1, <1>3, <1>4
<1>6. list \in Lists(W)
  BY <1>5 DEF Lists
<1>7. part = [entry EXCEPT !.helpers = list]
  BY <1>1, <1>4 DEF Cut
<1> QED
  BY <1>6, <1>7 DEF DataEntry

LEMMA StoppedTyped ==
  ASSUME NEW W, NEW data \in DataOf(W)
  PROVE  /\ StoppedUndo(data) \subseteq DataOf(W) /\ StoppedRedo(data) \subseteq DataOf(W)
         /\ Undoable(data) \subseteq DataOf(W)
<1>1. \A k \in DOMAIN data : data[k] \in DataEntry(W)
  BY DEF DataOf
<1>2. ASSUME NEW k \in DOMAIN data, NEW part \in Stopped(data[k])
      PROVE  /\ <<part>> \o SubSeq(data, k + 1, Len(data)) \in DataOf(W)
             /\ SubSeq(data, 1, k - 1) \o <<part>> \in DataOf(W)
  <2>1. part \in DataEntry(W)
    BY <1>1, <1>2, StoppedEntry
  <2>2. /\ SubSeq(data, k + 1, Len(data)) \in Seq(DataEntry(W))
        /\ SubSeq(data, 1, k - 1) \in Seq(DataEntry(W))
    BY DEF DataOf
  <2> QED
    BY <2>1, <2>2 DEF DataOf
<1>3. StoppedUndo(data) \subseteq DataOf(W)
  <2> SUFFICES ASSUME NEW x \in StoppedUndo(data) PROVE x \in DataOf(W)
    OBVIOUS
  <2>1. PICK k \in DOMAIN data : \E part \in Stopped(data[k]) :
                                 x = <<part>> \o SubSeq(data, k + 1, Len(data))
    BY DEF StoppedUndo
  <2> QED
    BY <1>2, <2>1
<1>4. StoppedRedo(data) \subseteq DataOf(W)
  <2> SUFFICES ASSUME NEW x \in StoppedRedo(data) PROVE x \in DataOf(W)
    OBVIOUS
  <2>1. PICK k \in DOMAIN data : \E part \in Stopped(data[k]) :
                                 x = SubSeq(data, 1, k - 1) \o <<part>>
    BY DEF StoppedRedo
  <2> QED
    BY <1>2, <2>1
<1> QED
  BY <1>3, <1>4 DEF Undoable

\* The last entry x of the parent and the first entry c of the child become one.
Merges(W, parent, child) ==
  \E first, rest \in DataOf(W) : \E x, c, m \in DataEntry(W) :
    /\ parent = Append(first, x) /\ child = Append(<<>>, c) \o rest
    /\ m.helpers = Merge(x.helpers, c.helpers)
    /\ Consolidate(parent, child) = Append(first, m) \o rest

\* What consolidateUndoRedoData does with both data.
LEMMA ConsolidateParts ==
  ASSUME NEW W, NEW parent \in DataOf(W), NEW child \in DataOf(W)
  PROVE  Consolidate(parent, child) = parent \o child \/ Merges(W, parent, child)
<1> SUFFICES ASSUME parent # <<>>, parent[Len(parent)].mergeable,
                    child # <<>>, child[1].mergeable
             PROVE  Merges(W, parent, child)
  BY DEF Consolidate
<1> DEFINE n == Len(parent)
           first == SubSeq(parent, 1, n - 1)
           x == parent[n]
           c == child[1]
           m == [x EXCEPT !.helpers = Merge(@, c.helpers)]
<1>1. /\ n \in Nat /\ n > 0 /\ x \in DataEntry(W) /\ c \in DataEntry(W)
      /\ first \in DataOf(W) /\ Tail(child) \in DataOf(W)
  BY DEF DataOf
<1>2. m \in DataEntry(W) /\ m.helpers = Merge(x.helpers, c.helpers)
  <2>1. x.helpers \in Lists(W) /\ c.helpers \in Lists(W)
    BY <1>1 DEF DataEntry
  <2>2. Merge(x.helpers, c.helpers) \in Lists(W)
    BY <2>1, MergeTyped
  <2> HIDE DEF x, c
  <2> QED
    BY <1>1, <2>2 DEF DataEntry
<1>3. parent = Append(first, x) /\ child = Append(<<>>, c) \o Tail(child)
  BY DEF DataOf
<1>4. [parent EXCEPT ![n].helpers = Merge(@, c.helpers)] = Append(first, m)
  <2>1. [parent EXCEPT ![n].helpers = Merge(@, c.helpers)] = [parent EXCEPT ![n] = m]
    OBVIOUS
  <2>2. [parent EXCEPT ![n] = m] = Append(first, m)
    <3>1. parent \in Seq(DataEntry(W)) /\ n \in Nat /\ n > 0
      BY <1>1 DEF DataOf
    <3>2. first \in Seq(DataEntry(W)) /\ Len(first) = n - 1 /\ \A k \in 1 .. n - 1 : first[k] = parent[k]
      <4>3. Len(first) = n - 1
        <5>1. CASE n = 1
          BY <3>1, <5>1
        <5>2. CASE n > 1
          BY <3>1, <5>2
        <5> HIDE DEF n, first
        <5>3. n = 1 \/ n > 1
          BY <3>1
        <5> QED
          BY <5>1, <5>2, <5>3
      <4>4. first \in Seq(DataEntry(W))
        BY <1>1 DEF DataOf
      <4>5. \A k \in 1 .. n - 1 : first[k] = parent[k]
        BY <3>1
      <4> QED
        BY <4>3, <4>4, <4>5
    <3> HIDE DEF m, first
    <3>3. /\ [parent EXCEPT ![n] = m] \in Seq(DataEntry(W)) /\ Append(first, m) \in Seq(DataEntry(W))
          /\ Len([parent EXCEPT ![n] = m]) = n /\ Len(Append(first, m)) = n
      BY <1>2, <3>1, <3>2
    <3>4. \A k \in 1 .. n : [parent EXCEPT ![n] = m][k] = Append(first, m)[k]
      BY <1>2, <3>1, <3>2
    <3> HIDE DEF n
    <3> QED
      BY <3>3, <3>4, SeqEqual
  <2> QED
    BY <2>1, <2>2
<1>5. Consolidate(parent, child) = Append(first, m) \o Tail(child)
  BY <1>4 DEF Consolidate
<1> HIDE DEF first, x, c, m
<1> QED
  BY <1>1, <1>2, <1>3, <1>5 DEF Merges

\* Consolidated data undo and redo like the parent's and the child's.
LEMMA ConsolidateUndo ==
  ASSUME NEW W, NEW parent \in DataOf(W), NEW child \in DataOf(W)
  PROVE  /\ Consolidate(parent, child) \in DataOf(W)
         /\ \A doc : /\ Undo(Consolidate(parent, child), doc) = Undo(parent, Undo(child, doc))
                     /\ Redo(Consolidate(parent, child), doc) = Redo(child, Redo(parent, doc))
<1>1. CASE Consolidate(parent, child) = parent \o child
  <2>1. parent \o child \in DataOf(W)
    BY DEF DataOf
  <2> QED
    BY <1>1, <2>1, UndoConcat
<1>2. ASSUME NEW first \in DataOf(W), NEW rest \in DataOf(W), NEW x \in DataEntry(W),
             NEW c \in DataEntry(W), NEW m \in DataEntry(W),
             parent = Append(first, x), child = Append(<<>>, c) \o rest,
             m.helpers = Merge(x.helpers, c.helpers),
             Consolidate(parent, child) = Append(first, m) \o rest
      PROVE  /\ Consolidate(parent, child) \in DataOf(W)
             /\ \A doc : /\ Undo(Consolidate(parent, child), doc) = Undo(parent, Undo(child, doc))
                         /\ Redo(Consolidate(parent, child), doc) = Redo(child, Redo(parent, doc))
  <2>1. /\ Append(first, m) \in DataOf(W) /\ Append(<<>>, c) \in DataOf(W) /\ <<>> \in DataOf(W)
        /\ Append(first, m) \o rest \in DataOf(W)
    BY DEF DataOf
  <2> SUFFICES ASSUME NEW doc
               PROVE  /\ Undo(Append(first, m) \o rest, doc) = Undo(parent, Undo(child, doc))
                      /\ Redo(Append(first, m) \o rest, doc) = Redo(child, Redo(parent, doc))
    BY <1>2, <2>1
  <2>2. /\ Undo(Append(first, m) \o rest, doc) = Undo(Append(first, m), Undo(rest, doc))
        /\ Redo(Append(first, m) \o rest, doc) = Redo(rest, Redo(Append(first, m), doc))
    BY <2>1, UndoConcat
  <2>3. /\ Undo(child, doc) = Undo(Append(<<>>, c), Undo(rest, doc))
        /\ Redo(child, Redo(parent, doc)) = Redo(rest, Redo(Append(<<>>, c), Redo(parent, doc)))
    <3>1. \A d : /\ Undo(Append(<<>>, c) \o rest, d) = Undo(Append(<<>>, c), Undo(rest, d))
                 /\ Redo(Append(<<>>, c) \o rest, d) = Redo(rest, Redo(Append(<<>>, c), d))
      BY <2>1, UndoConcat
    <3> QED
      BY <1>2, <3>1
  <2>4. /\ Undo(Append(<<>>, c), Undo(rest, doc)) = UndoHelpers(c.helpers, Undo(rest, doc))
        /\ Redo(Append(<<>>, c), Redo(parent, doc)) = RedoHelpers(c.helpers, Redo(parent, doc))
    <3>1. \A d : /\ Undo(Append(<<>>, c), d) = Undo(<<>>, UndoHelpers(c.helpers, d))
                 /\ Redo(Append(<<>>, c), d) = RedoHelpers(c.helpers, Redo(<<>>, d))
                 /\ Undo(<<>>, d) = d /\ Redo(<<>>, d) = d
      <4> SUFFICES ASSUME NEW d
                   PROVE  /\ Undo(Append(<<>>, c), d) = Undo(<<>>, UndoHelpers(c.helpers, d))
                          /\ Redo(Append(<<>>, c), d) = RedoHelpers(c.helpers, Redo(<<>>, d))
                          /\ Undo(<<>>, d) = d /\ Redo(<<>>, d) = d
        OBVIOUS
      <4> DEFINE none == <<>>
      <4>1. none \in DataOf(W)
        BY <2>1
      <4> HIDE DEF none
      <4>2. /\ Undo(Append(none, c), d) = Undo(none, UndoHelpers(c.helpers, d))
            /\ Redo(Append(none, c), d) = RedoHelpers(c.helpers, Redo(none, d))
            /\ Undo(<<>>, d) = d /\ Redo(<<>>, d) = d
        BY <4>1, UndoAppend
      <4> QED
        BY <4>2 DEF none
    <3> QED
      BY <3>1
  <2>5. \A d : /\ Undo(Append(first, m), d) =
                    Undo(first, UndoHelpers(x.helpers, UndoHelpers(c.helpers, d)))
               /\ Redo(Append(first, m), d) =
                    RedoHelpers(c.helpers, RedoHelpers(x.helpers, Redo(first, d)))
               /\ Undo(parent, d) = Undo(first, UndoHelpers(x.helpers, d))
               /\ Redo(parent, d) = RedoHelpers(x.helpers, Redo(first, d))
    <3> SUFFICES ASSUME NEW d
                 PROVE  /\ Undo(Append(first, m), d) =
                             Undo(first, UndoHelpers(x.helpers, UndoHelpers(c.helpers, d)))
                        /\ Redo(Append(first, m), d) =
                             RedoHelpers(c.helpers, RedoHelpers(x.helpers, Redo(first, d)))
                        /\ Undo(parent, d) = Undo(first, UndoHelpers(x.helpers, d))
                        /\ Redo(parent, d) = RedoHelpers(x.helpers, Redo(first, d))
      OBVIOUS
    <3>1. /\ Undo(Append(first, m), d) = Undo(first, UndoHelpers(m.helpers, d))
          /\ Redo(Append(first, m), d) = RedoHelpers(m.helpers, Redo(first, d))
          /\ Undo(Append(first, x), d) = Undo(first, UndoHelpers(x.helpers, d))
          /\ Redo(Append(first, x), d) = RedoHelpers(x.helpers, Redo(first, d))
      BY UndoAppend
    <3> QED
      BY <1>2, <3>1, MergeUndo, MergeRedo
  <2> QED
    BY <2>2, <2>3, <2>4, <2>5
<1>3. CASE Merges(W, parent, child)
  BY <1>2, <1>3 DEF Merges
<1> QED
  BY <1>1, <1>3, ConsolidateParts

\* Data that write nothing leave a document as it is.
LEMMA EffectlessUndo ==
  ASSUME NEW W, NEW data \in DataOf(W), Written(data) = {}, NEW doc \in Docs(W)
  PROVE  Undo(data, doc) = doc /\ Redo(data, doc) = doc
<1> DEFINE P == {d \in DataOf(W) : Written(d) = {} => Undo(d, doc) = doc /\ Redo(d, doc) = doc}
<1>1. <<>> \in P
  <2>1. <<>> \in DataOf(W) /\ [mergeable |-> TRUE, helpers |-> NoHelpers] \in DataEntry(W)
    BY ListTypes DEF DataEntry
  <2> QED
    BY <2>1, UndoAppend
<1>2. ASSUME NEW d \in DataOf(W), NEW e \in DataEntry(W), d \in P PROVE Append(d, e) \in P
  <2>1. Append(d, e) \in DataOf(W)
    BY DEF DataOf
  <2> SUFFICES ASSUME Written(Append(d, e)) = {}
               PROVE  Undo(Append(d, e), doc) = doc /\ Redo(Append(d, e), doc) = doc
    BY <2>1
  <2>2. /\ DOMAIN Append(d, e) = 1 .. Len(d) + 1 /\ Append(d, e)[Len(d) + 1] = e /\ Len(d) \in Nat
        /\ DOMAIN d = 1 .. Len(d) /\ \A k \in 1 .. Len(d) : Append(d, e)[k] = d[k]
    BY DEF DataOf
  <2>3. ASSUME NEW k \in 1 .. Len(d) + 1
        PROVE  DOMAIN Append(d, e)[k].helpers = {}
    <3>1. PICK both : both = Append(d, e)
      OBVIOUS
    <3>2. DOMAIN both[k].helpers \subseteq Written(both)
      BY <2>2, <3>1 DEF Written
    <3> QED
      BY <3>1, <3>2
  <2>4. DOMAIN e.helpers = {} /\ \A k \in 1 .. Len(d) : DOMAIN d[k].helpers = {}
    BY <2>2, <2>3
  <2>5. Written(d) = {}
    BY <2>2, <2>4 DEF Written
  <2>6. Undo(d, doc) = doc /\ Redo(d, doc) = doc
    BY <1>2, <2>5
  <2>7. UndoHelpers(e.helpers, doc) = doc /\ RedoHelpers(e.helpers, doc) = doc
    BY <2>4 DEF UndoHelpers, RedoHelpers, Docs
  <2> QED
    BY <2>6, <2>7, UndoAppend
<1>3. DataOf(W) \subseteq P
  <2> HIDE DEF P
  <2> QED
    BY <1>1, <1>2, AppendInduction DEF DataOf
<1> QED
  BY <1>3

-----------------------------------------------------------------------------
(* Activations, one by one *)

\* The stack of t now holds its n oldest activations and acts above them.
Above(t, n, acts) ==
  /\ n \in Nat /\ n <= Len(stack[t]) /\ Len(acts) \in Nat
  /\ \A u \in Threads : u # t => stack'[u] = stack[u]
  /\ DOMAIN stack[t] = 1 .. Len(stack[t]) /\ Len(stack[t]) \in Nat
  /\ DOMAIN stack'[t] = 1 .. n + Len(acts) /\ Len(stack'[t]) = n + Len(acts)
  /\ \A k \in 1 .. n : stack'[t][k] = stack[t][k]
  /\ \A k \in 1 .. Len(acts) : stack'[t][n + k] = acts[k]

\* Up to three activations form a listed sequence.
LEMMA TuplesListed ==
  /\ Listed(<<>>) /\ Len(<<>>) = 0
  /\ \A a : Listed(<<a>>) /\ Len(<<a>>) = 1
  /\ \A a, b : Listed(<<a, b>>) /\ Len(<<a, b>>) = 2
  /\ \A a, b, c : Listed(<<a, b, c>>) /\ Len(<<a, b, c>>) = 3
<1>1. <<>> \in Seq({})
  OBVIOUS
<1>2. ASSUME NEW a PROVE <<a>> \in Seq({a})
  OBVIOUS
<1>3. ASSUME NEW a, NEW b PROVE <<a, b>> \in Seq({a, b})
  OBVIOUS
<1>4. ASSUME NEW a, NEW b, NEW c PROVE <<a, b, c>> \in Seq({a, b, c})
  OBVIOUS
<1> QED
  BY <1>1, <1>2, <1>3, <1>4, ListedIsSeq

\* Replacing the activations of t above the n oldest.
LEMMA AboveConcat ==
  ASSUME StackShape, NEW t \in Threads, NEW kept, Listed(kept), NEW acts, Listed(acts),
         Len(kept) <= Len(stack[t]), \A k \in 1 .. Len(kept) : kept[k] = stack[t][k],
         stack' = [stack EXCEPT ![t] = kept \o acts]
  PROVE  Above(t, Len(kept), acts)
<1> DEFINE n == Len(kept)
           new == kept \o acts
<1>1. /\ n \in Nat /\ Len(acts) \in Nat /\ DOMAIN new = 1 .. n + Len(acts)
      /\ Len(new) = n + Len(acts)
      /\ \A k \in 1 .. n : new[k] = kept[k]
      /\ \A k \in n + 1 .. n + Len(acts) : new[k] = acts[k - n]
  BY ListedConcat
<1>2. stack'[t] = new /\ \A u \in Threads : u # t => stack'[u] = stack[u]
  BY DEF StackShape
<1>3. DOMAIN stack[t] = 1 .. Len(stack[t]) /\ Len(stack[t]) \in Nat
  BY OwningDomain
<1> HIDE DEF new, n
<1>4. ASSUME NEW k \in 1 .. Len(acts) PROVE stack'[t][n + k] = acts[k]
  <2>1. n + k \in n + 1 .. n + Len(acts) /\ (n + k) - n = k
    BY <1>1
  <2> QED
    BY <1>1, <1>2, <2>1
<1>5. n <= Len(stack[t]) /\ \A k \in 1 .. n : kept[k] = stack[t][k]
  BY DEF n
<1>6. Above(t, n, acts)
  BY <1>1, <1>2, <1>3, <1>4, <1>5 DEF Above
<1> QED
  BY <1>6 DEF n

\* Push keeps all activations.
LEMMA PushAbove ==
  ASSUME StackShape, NEW t \in Threads, NEW acts, Listed(acts), Push(t, acts)
  PROVE  Above(t, Len(stack[t]), acts)
<1>1. Listed(stack[t]) /\ Len(stack[t]) \in Nat
  BY OwningDomain DEF StackShape
<1>2. Len(stack[t]) <= Len(stack[t])
  BY <1>1
<1> QED
  BY <1>1, <1>2, AboveConcat DEF Push

\* ReplaceTop keeps all but the top.
LEMMA ReplaceAbove ==
  ASSUME StackShape, NEW t \in Threads, Running(t), NEW acts, Listed(acts), ReplaceTop(t, acts)
  PROVE  Above(t, Len(stack[t]) - 1, acts) /\ Len(stack[t]) > 0 /\ Top(t) = stack[t][Len(stack[t])]
<1>1. Listed(stack[t]) /\ Len(stack[t]) \in Nat
  BY OwningDomain DEF StackShape
<1>2. /\ Listed(Front(stack[t])) /\ Len(stack[t]) > 0 /\ Len(Front(stack[t])) = Len(stack[t]) - 1
      /\ \A k \in 1 .. Len(stack[t]) - 1 : Front(stack[t])[k] = stack[t][k]
  BY <1>1, ListedFront DEF Running
<1>3. Len(Front(stack[t])) <= Len(stack[t])
  BY <1>1, <1>2
<1>4. Above(t, Len(Front(stack[t])), acts)
  BY <1>2, <1>3, AboveConcat DEF ReplaceTop
<1> QED
  BY <1>2, <1>4 DEF Top, Last

\* So does Pop.
LEMMA PopAbove ==
  ASSUME StackShape, NEW t \in Threads, Running(t), Pop(t)
  PROVE  Above(t, Len(stack[t]) - 1, <<>>) /\ Len(stack[t]) > 0 /\ Top(t) = stack[t][Len(stack[t])]
<1>1. Listed(stack[t]) /\ Len(stack[t]) \in Nat /\ Listed(<<>>)
  BY OwningDomain, TuplesListed DEF StackShape
<1>2. /\ Listed(Front(stack[t])) /\ Len(stack[t]) > 0 /\ Len(Front(stack[t])) = Len(stack[t]) - 1
      /\ DOMAIN Front(stack[t]) = 1 .. Len(stack[t]) - 1
      /\ \A k \in 1 .. Len(stack[t]) - 1 : Front(stack[t])[k] = stack[t][k]
  BY <1>1, ListedFront DEF Running
<1>3. stack' = [stack EXCEPT ![t] = Front(stack[t])]
  BY DEF Pop
<1>4. Front(stack[t]) \o <<>> = Front(stack[t])
  BY <1>2 DEF Listed
<1>5. Len(Front(stack[t])) <= Len(stack[t])
  BY <1>1, <1>2
<1>6. Above(t, Len(Front(stack[t])), <<>>)
  BY <1>1, <1>2, <1>3, <1>4, <1>5, AboveConcat
<1> QED
  BY <1>2, <1>6 DEF Top, Last

-----------------------------------------------------------------------------
(* Instances *)

\* The part of an instance's type the argument needs.
InstanceRecord(r) ==
  /\ r \in [kind : {r.kind}, class : {r.class}, target : {r.target}, home : {r.home},
            status : {r.status}, error : {r.error}, wrote : {r.wrote},
            children : {r.children}, own : {r.own}, data : {r.data}]
  /\ Listed(r.children)

Recorded == \A i \in Ids : InstanceRecord(instances[i])

\* What never changes of an instance.
SameKind(r, s) == r.kind = s.kind /\ r.class = s.class /\ r.target = s.target /\ r.home = s.home

\* Changing one field of an instance, or two.
LEMMA RecordUpdate ==
  ASSUME NEW r, InstanceRecord(r)
  PROVE  /\ \A x : LET s == [r EXCEPT !.status = x]
                   IN /\ InstanceRecord(s) /\ SameKind(s, r) /\ s.status = x
                      /\ s.error = r.error /\ s.children = r.children
         /\ \A x : LET s == [r EXCEPT !.error = x]
                   IN /\ InstanceRecord(s) /\ SameKind(s, r) /\ s.status = r.status
                      /\ s.error = x /\ s.children = r.children
         /\ \A x : LET s == [r EXCEPT !.wrote = x]
                   IN /\ InstanceRecord(s) /\ SameKind(s, r) /\ s.status = r.status
                      /\ s.error = r.error /\ s.children = r.children
         /\ \A x : LET s == [r EXCEPT !.own = x]
                   IN /\ InstanceRecord(s) /\ SameKind(s, r) /\ s.status = r.status
                      /\ s.error = r.error /\ s.children = r.children
         /\ \A x : LET s == [r EXCEPT !.data = x]
                   IN /\ InstanceRecord(s) /\ SameKind(s, r) /\ s.status = r.status
                      /\ s.error = r.error /\ s.children = r.children
         /\ \A x : Listed(x) =>
              LET s == [r EXCEPT !.children = x]
              IN /\ InstanceRecord(s) /\ SameKind(s, r) /\ s.status = r.status
                 /\ s.error = r.error /\ s.children = x
BY DEF InstanceRecord, SameKind

\* A table of instances with the current ids.
Table(table) == SameIds(table) /\ \A j \in Ids : InstanceRecord(table[j])

\* new may follow table: the kinds are the same.
Follows(new, table) == Table(new) /\ \A j \in Ids : SameKind(new[j], table[j])

SetStatus(table, i, x) == [table EXCEPT ![i].status = x]
SetError(table, i, x) == [table EXCEPT ![i].error = x]
SetWrote(table, i, x) == [table EXCEPT ![i].wrote = x]
SetData(table, i, x) == [table EXCEPT ![i].data = x]
SetChildren(table, i, x) == [table EXCEPT ![i].children = x]

SetAt(table, i, r) == [table EXCEPT ![i] = r]

\* Replacing an instance in a table.
LEMMA TableReplace ==
  ASSUME NEW table, Table(table), NEW i, NEW r,
         i \in Ids => InstanceRecord(r) /\ SameKind(r, table[i])
  PROVE  LET new == SetAt(table, i, r)
         IN /\ Follows(new, table)
            /\ \A j \in Ids : new[j] = IF j = i THEN r ELSE table[j]
<1> DEFINE new == SetAt(table, i, r)
<1>1. DOMAIN table = Ids /\ \A j \in Ids : SameKind(table[j], table[j])
  BY DEF Table, SameIds, SameKind, Ids
<1>2. SameIds(new) /\ \A j \in Ids : new[j] = IF j = i THEN r ELSE table[j]
  BY <1>1 DEF Table, SameIds, Ids, SetAt
<1> HIDE DEF new
<1> QED
  BY <1>1, <1>2 DEF Follows, Table, new

\* Changing one field of an instance there.
LEMMA StatusUpdate ==
  ASSUME NEW table, Table(table), NEW i, NEW x
  PROVE  LET new == SetStatus(table, i, x)
         IN /\ Follows(new, table)
            /\ \A j \in Ids : /\ new[j].status = IF j = i THEN x ELSE table[j].status
                              /\ new[j].error = table[j].error
                              /\ new[j].children = table[j].children
<1> DEFINE r == [table[i] EXCEPT !.status = x]
           new == SetAt(table, i, r)
<1>1. i \in Ids => /\ InstanceRecord(r) /\ SameKind(r, table[i])
                   /\ r.status = x /\ r.error = table[i].error
                   /\ r.children = table[i].children
  BY RecordUpdate DEF Table
<1>2. SetStatus(table, i, x) = new
  BY DEF SetStatus, SetAt
<1> HIDE DEF r
<1>3. /\ Follows(new, table)
      /\ \A j \in Ids : new[j] = IF j = i THEN r ELSE table[j]
  BY <1>1, TableReplace
<1> HIDE DEF new
<1> QED
  BY <1>1, <1>2, <1>3

LEMMA ErrorUpdate ==
  ASSUME NEW table, Table(table), NEW i, NEW x
  PROVE  LET new == SetError(table, i, x)
         IN /\ Follows(new, table)
            /\ \A j \in Ids : /\ new[j].status = table[j].status
                              /\ new[j].error = IF j = i THEN x ELSE table[j].error
                              /\ new[j].children = table[j].children
<1> DEFINE r == [table[i] EXCEPT !.error = x]
           new == SetAt(table, i, r)
<1>1. i \in Ids => /\ InstanceRecord(r) /\ SameKind(r, table[i])
                   /\ r.status = table[i].status /\ r.error = x
                   /\ r.children = table[i].children
  BY RecordUpdate DEF Table
<1>2. SetError(table, i, x) = new
  BY DEF SetError, SetAt
<1> HIDE DEF r
<1>3. /\ Follows(new, table)
      /\ \A j \in Ids : new[j] = IF j = i THEN r ELSE table[j]
  BY <1>1, TableReplace
<1> HIDE DEF new
<1> QED
  BY <1>1, <1>2, <1>3

LEMMA WroteUpdate ==
  ASSUME NEW table, Table(table), NEW i, NEW x
  PROVE  LET new == SetWrote(table, i, x)
         IN /\ Follows(new, table)
            /\ \A j \in Ids : /\ new[j].status = table[j].status
                              /\ new[j].error = table[j].error
                              /\ new[j].children = table[j].children
<1> DEFINE r == [table[i] EXCEPT !.wrote = x]
           new == SetAt(table, i, r)
<1>1. i \in Ids => /\ InstanceRecord(r) /\ SameKind(r, table[i])
                   /\ r.status = table[i].status /\ r.error = table[i].error
                   /\ r.children = table[i].children
  BY RecordUpdate DEF Table
<1>2. SetWrote(table, i, x) = new
  BY DEF SetWrote, SetAt
<1> HIDE DEF r
<1>3. /\ Follows(new, table)
      /\ \A j \in Ids : new[j] = IF j = i THEN r ELSE table[j]
  BY <1>1, TableReplace
<1> HIDE DEF new
<1> QED
  BY <1>1, <1>2, <1>3

LEMMA DataUpdate ==
  ASSUME NEW table, Table(table), NEW i, NEW x
  PROVE  LET new == SetData(table, i, x)
         IN /\ Follows(new, table)
            /\ \A j \in Ids : /\ new[j].status = table[j].status
                              /\ new[j].error = table[j].error
                              /\ new[j].children = table[j].children
<1> DEFINE r == [table[i] EXCEPT !.data = x]
           new == SetAt(table, i, r)
<1>1. i \in Ids => /\ InstanceRecord(r) /\ SameKind(r, table[i])
                   /\ r.status = table[i].status /\ r.error = table[i].error
                   /\ r.children = table[i].children
  BY RecordUpdate DEF Table
<1>2. SetData(table, i, x) = new
  BY DEF SetData, SetAt
<1> HIDE DEF r
<1>3. /\ Follows(new, table)
      /\ \A j \in Ids : new[j] = IF j = i THEN r ELSE table[j]
  BY <1>1, TableReplace
<1> HIDE DEF new
<1> QED
  BY <1>1, <1>2, <1>3

LEMMA ChildrenUpdate ==
  ASSUME NEW table, Table(table), NEW i, NEW x, Listed(x)
  PROVE  LET new == SetChildren(table, i, x)
         IN /\ Follows(new, table)
            /\ \A j \in Ids : /\ new[j].status = table[j].status
                              /\ new[j].error = table[j].error
                              /\ new[j].children = IF j = i THEN x ELSE table[j].children
<1> DEFINE r == [table[i] EXCEPT !.children = x]
           new == SetAt(table, i, r)
<1>1. i \in Ids => /\ InstanceRecord(r) /\ SameKind(r, table[i])
                   /\ r.status = table[i].status /\ r.error = table[i].error
                   /\ r.children = x
  BY RecordUpdate DEF Table
<1>2. SetChildren(table, i, x) = new
  BY DEF SetChildren, SetAt
<1> HIDE DEF r
<1>3. /\ Follows(new, table)
      /\ \A j \in Ids : new[j] = IF j = i THEN r ELSE table[j]
  BY <1>1, TableReplace
<1> HIDE DEF new
<1> QED
  BY <1>1, <1>2, <1>3

\* What the steps that only touch data leave alone.
SameProgress(new, table) ==
  \A j \in Ids : /\ new[j].status = table[j].status /\ new[j].error = table[j].error
                 /\ new[j].children = table[j].children

\* No instance has gained a child.
NoNewChild(new, table) ==
  \A j \in Ids : \A k \in DOMAIN new[j].children :
    \E l \in DOMAIN table[j].children : new[j].children[k] = table[j].children[l]

\* Any number of changes one after the other.
LEMMA FollowsOn ==
  ASSUME NEW table, NEW new, NEW newer, Follows(new, table), Follows(newer, new)
  PROVE  Follows(newer, table)
BY DEF Follows, SameKind

\* A table follows itself.
LEMMA FollowsItself ==
  ASSUME NEW table, Table(table)
  PROVE  Follows(table, table)
BY DEF Follows, SameKind, Table

\* setValue changes nothing but recorded values.
LEMMA WritePropsFollows ==
  ASSUME Recorded, NEW t, NEW written, NEW doc, NEW new
  PROVE  LET table == WriteProps(t, instances, written, doc, new)
         IN Follows(table, instances) /\ SameProgress(table, instances)
<1> DEFINE table == WriteProps(t, instances, written, doc, new)
<1>1. SameIds(table)
  BY SameIdsWriteProps
<1>2. \A j \in Ids : \/ table[j] = instances[j]
                     \/ \E x : table[j] = [instances[j] EXCEPT !.own = x]
  BY DEF WriteProps, Ids
<1> HIDE DEF table
<1>3. ASSUME NEW j \in Ids
      PROVE  /\ InstanceRecord(table[j]) /\ SameKind(table[j], instances[j])
             /\ table[j].status = instances[j].status /\ table[j].error = instances[j].error
             /\ table[j].children = instances[j].children
  <2>1. InstanceRecord(instances[j]) /\ SameKind(instances[j], instances[j])
    BY DEF Recorded, SameKind
  <2>2. CASE table[j] = instances[j]
    BY <2>1, <2>2
  <2>3. ASSUME NEW x, table[j] = [instances[j] EXCEPT !.own = x]
        PROVE  /\ InstanceRecord(table[j]) /\ SameKind(table[j], instances[j])
               /\ table[j].status = instances[j].status /\ table[j].error = instances[j].error
               /\ table[j].children = instances[j].children
    BY <2>1, <2>3, RecordUpdate
  <2> QED
    BY <1>2, <2>2, <2>3
<1> QED
  BY <1>1, <1>3 DEF Follows, SameProgress, Table, table

\* consolidateChildren keeps some of the children.
LEMMA CompressedSome ==
  ASSUME NEW table, NEW children, Listed(children)
  PROVE  /\ Listed(Compressed(table, children))
         /\ \A k \in DOMAIN Compressed(table, children) :
              \E l \in DOMAIN children : Compressed(table, children)[k] = children[l]
         /\ children # <<>> => Compressed(table, children) # <<>>
<1> DEFINE n == Len(children)
           S == {children[l] : l \in DOMAIN children}
           compressible(a, b) == /\ table[a].class.context # "none"
                                 /\ table[a].class.context = table[b].class.context
           After(s, c) == IF s # <<>> /\ compressible(Last(s), c) THEN Front(s) \o <<c>>
                          ELSE Append(s, c)
           step == [k \in 1 .. n |-> [s \in Seq(S) |-> After(s, children[k])]]
           kept == CHOOSE f : f = [k \in 0 .. n |->
                     IF k = 0 THEN <<>>
                     ELSE IF f[k - 1] # <<>> /\ compressible(Last(f[k - 1]), children[k])
                       THEN Front(f[k - 1]) \o <<children[k]>>
                       ELSE Append(f[k - 1], children[k])]
<1>1. Compressed(table, children) = kept[n]
  BY DEF Compressed
<1>2. DOMAIN children = 1 .. n /\ n \in Nat
  BY DEF Listed
<1>3. ASSUME NEW s \in Seq(S), NEW k \in 1 .. n PROVE After(s, children[k]) \in Seq(S)
  <2>1. children[k] \in S
    BY <1>2
  <2>2. Front(s) \in Seq(S) \/ s = <<>>
    BY DEF Front
  <2> HIDE DEF S
  <2>3. <<children[k]>> \in Seq(S) /\ Append(s, children[k]) \in Seq(S)
    BY <2>1
  <2> HIDE DEF compressible
  <2> QED
    BY <2>1, <2>2, <2>3
<1>4. step \in Steps(n, Seq(S))
  <2> HIDE DEF After, S
  <2> QED
    BY <1>3 DEF Steps
<1>5. <<>> \in Seq(S)
  OBVIOUS
<1> HIDE DEF S
<1>6. \E f : Run(f, n, Seq(S), <<>>, step)
  <2> HIDE DEF n, step
  <2> QED
    BY <1>2, <1>4, <1>5, RecursionExists
<1>7. PICK f \in [0 .. n -> Seq(S)] : f[0] = <<>> /\ \A k \in 1 .. n : f[k] = step[k][f[k - 1]]
  BY <1>6 DEF Run
<1>8. \A k \in 1 .. n : f[k] = After(f[k - 1], children[k])
  <2> HIDE DEF After
  <2> SUFFICES ASSUME NEW k \in 1 .. n PROVE f[k] = After(f[k - 1], children[k])
    OBVIOUS
  <2>1. k - 1 \in 0 .. n
    BY <1>2
  <2>2. f[k - 1] \in Seq(S)
    BY <2>1
  <2> QED
    BY <1>7, <2>2
<1>9. f = [k \in 0 .. n |-> IF k = 0 THEN <<>> ELSE After(f[k - 1], children[k])]
  <2> HIDE DEF After
  <2> QED
    BY <1>2, <1>7, <1>8
<1>10. kept = [k \in 0 .. n |-> IF k = 0 THEN <<>> ELSE After(kept[k - 1], children[k])]
  <2> HIDE DEF n, compressible
  <2> QED
    BY <1>9
<1> HIDE DEF kept
<1>11. 0 .. n \subseteq {k \in 0 .. n : kept[k] \in Seq(S)}
  <2> DEFINE T == {k \in 0 .. n : kept[k] \in Seq(S)}
  <2> HIDE DEF After
  <2>1. 0 \in T
    BY <1>2, <1>5, <1>10
  <2>2. ASSUME NEW k \in 1 .. n, k - 1 \in T PROVE k \in T
    <3>1. kept[k] = After(kept[k - 1], children[k]) /\ k \in 0 .. n
      BY <1>2, <1>10
    <3> QED
      BY <1>3, <2>2, <3>1
  <2> HIDE DEF T
  <2>3. n \in Nat
    BY <1>2
  <2>4. 0 .. n \subseteq T
    <3> HIDE DEF n
    <3> QED
      BY <2>1, <2>2, <2>3, InductionUpTo
  <2> QED
    BY <2>4 DEF T
<1>12. kept[n] \in Seq(S)
  BY <1>2, <1>11
<1>13. \A k \in DOMAIN kept[n] : kept[n][k] \in S
  BY <1>12
<1>14. children # <<>> => kept[n] # <<>>
  <2> SUFFICES ASSUME children # <<>> PROVE kept[n] # <<>>
    OBVIOUS
  <2>1. n # 0
    BY DEF Listed
  <2>2. n \in 1 .. n /\ n \in 0 .. n /\ n - 1 \in 0 .. n
    BY <1>2, <2>1
  <2>3. PICK s : s = kept[n - 1]
    OBVIOUS
  <2>4. s \in Seq(S)
    BY <1>11, <2>2, <2>3
  <2>5. kept[n] = After(s, children[n])
    <3> HIDE DEF After, n
    <3> QED
      BY <1>10, <2>1, <2>2, <2>3
  <2>6. PICK c \in S : c = children[n]
    BY <1>2, <2>2 DEF S
  <2>7. Append(s, c) # <<>>
    BY <2>4
  <2>8. s # <<>> => Front(s) \o <<c>> # <<>>
    <3> SUFFICES ASSUME s # <<>> PROVE Front(s) \o <<c>> # <<>>
      OBVIOUS
    <3>1. Front(s) \in Seq(S)
      BY <2>4 DEF Front
    <3>2. <<c>> \in Seq(S) /\ Len(<<c>>) = 1
      OBVIOUS
    <3>3. Len(Front(s) \o <<c>>) = Len(Front(s)) + 1 /\ Len(Front(s)) \in Nat
      BY <3>1, <3>2
    <3>4. Len(<<>>) = 0
      OBVIOUS
    <3> QED
      BY <3>3, <3>4
  <2> HIDE DEF compressible, n
  <2> QED
    BY <2>5, <2>6, <2>7, <2>8
<1> QED
  BY <1>1, <1>12, <1>13, <1>14, ListedIsSeq DEF S

\* consolidateChildren ...
LEMMA ConsolidateFollows ==
  ASSUME NEW table, Table(table), NEW i
  PROVE  LET new == ConsolidateChildren(table, i)
         IN /\ Follows(new, table) /\ NoNewChild(new, table)
            /\ \A j \in Ids : new[j].status = table[j].status /\ new[j].error = table[j].error
<1> DEFINE c == Compressed(table, table[i].children)
           new == SetChildren(table, i, c)
<1>1. ConsolidateChildren(table, i) = new
  BY DEF ConsolidateChildren, SetChildren
<1>2. CASE i \in Ids
  <2>1. Listed(table[i].children)
    BY <1>2 DEF InstanceRecord, Table
  <2>2. Listed(c) /\ \A k \in DOMAIN c : \E l \in DOMAIN table[i].children : c[k] = table[i].children[l]
    BY <2>1, CompressedSome
  <2> HIDE DEF c
  <2>3. /\ Follows(new, table)
        /\ \A j \in Ids : /\ new[j].status = table[j].status
                          /\ new[j].error = table[j].error
                          /\ new[j].children = IF j = i THEN c ELSE table[j].children
    BY <2>2, ChildrenUpdate
  <2> HIDE DEF new
  <2>4. NoNewChild(new, table)
    BY <1>2, <2>2, <2>3 DEF NoNewChild
  <2> QED
    BY <1>1, <2>3, <2>4
<1>3. CASE i \notin Ids
  <2>1. new = table
    BY <1>3 DEF SameIds, Ids, Table, SetChildren
  <2> HIDE DEF new
  <2> QED
    BY <1>1, <2>1, FollowsItself DEF NoNewChild
<1> QED
  BY <1>2, <1>3

\* new comes from table by steps that complete nothing and add no child.
Fine(new, table) ==
  /\ Follows(new, table) /\ NoNewChild(new, table)
  /\ \A j \in Ids : new[j].status = table[j].status /\ new[j].error = table[j].error

\* ... handing undo data to the parent ...
LEMMA HandToParentFollows ==
  ASSUME NEW table, Table(table), NEW i, NEW parent
  PROVE  Fine(HandToParent(table, i, parent), table)
<1> DEFINE joined == Consolidate(table[parent].data, table[i].data)
           handed == SetData(table, parent, joined)
           moved == SetData(handed, i, <<>>)
<1>1. moved = [table EXCEPT ![parent].data = Consolidate(@, table[i].data), ![i].data = <<>>]
  BY DEF SetData
<1>2. \/ HandToParent(table, i, parent) = table
      \/ HandToParent(table, i, parent) = ConsolidateChildren(table, i)
      \/ HandToParent(table, i, parent) = moved
      \/ HandToParent(table, i, parent) = ConsolidateChildren(moved, parent)
  <2> HIDE DEF moved
  <2> QED
    BY <1>1 DEF HandToParent
<1>3. Fine(table, table)
  BY FollowsItself DEF NoNewChild, Fine
<1>4. Fine(ConsolidateChildren(table, i), table)
  BY ConsolidateFollows DEF Fine
<1> HIDE DEF joined
<1>5. Follows(handed, table) /\ SameProgress(handed, table)
  BY DataUpdate DEF SameProgress
<1> HIDE DEF handed
<1>6. Follows(moved, handed) /\ SameProgress(moved, handed)
  BY <1>5, DataUpdate DEF SameProgress, Follows
<1> HIDE DEF moved
<1>7. Fine(moved, table)
  BY <1>5, <1>6, FollowsOn DEF SameProgress, NoNewChild, Fine
<1>8. Fine(ConsolidateChildren(moved, parent), table)
  <2> DEFINE new == ConsolidateChildren(moved, parent)
  <2>1. Fine(new, moved)
    BY <1>7, ConsolidateFollows DEF Follows, Fine
  <2> HIDE DEF new
  <2>2. Follows(new, table)
    BY <1>7, <2>1, FollowsOn DEF Fine
  <2>3. NoNewChild(new, table)
    BY <1>7, <2>1 DEF NoNewChild, Fine
  <2>4. \A j \in Ids : new[j].status = table[j].status /\ new[j].error = table[j].error
    BY <1>7, <2>1 DEF Fine
  <2> QED
    BY <2>2, <2>3, <2>4 DEF Fine, new
<1> QED
  BY <1>2, <1>3, <1>4, <1>7, <1>8

\* ... and adding a child.
LEMMA AddChildFollows ==
  ASSUME NEW table, Table(table), NEW parent, NEW i
  PROVE  LET new == AddChild(table, parent, i)
         IN /\ Follows(new, table)
            /\ \A j \in Ids : /\ new[j].status = table[j].status /\ new[j].error = table[j].error
                              /\ \A k \in DOMAIN new[j].children :
                                   \/ \E l \in DOMAIN table[j].children :
                                        new[j].children[k] = table[j].children[l]
                                   \/ new[j].children[k] = i /\ j = parent /\ parent # Root
<1> DEFINE c == Append(table[parent].children, i)
           new == SetChildren(table, parent, c)
<1>1. \/ AddChild(table, parent, i) = table
      \/ parent # Root /\ AddChild(table, parent, i) = new
  <2>1. new = [table EXCEPT ![parent].children = Append(@, i)]
    BY DEF SetChildren
  <2> HIDE DEF new
  <2> QED
    BY <2>1 DEF AddChild
<1>2. CASE AddChild(table, parent, i) = table
  BY <1>2, FollowsItself
<1>3. CASE parent # Root /\ AddChild(table, parent, i) = new /\ parent \notin Ids
  <2>1. new = table
    BY <1>3 DEF SameIds, Ids, Table, SetChildren
  <2> HIDE DEF new
  <2> QED
    BY <1>3, <2>1, FollowsItself
<1>4. CASE parent # Root /\ AddChild(table, parent, i) = new /\ parent \in Ids
  <2> DEFINE old == table[parent].children
             S == {old[k] : k \in DOMAIN old} \cup {i}
  <2>1. Listed(old)
    BY <1>4 DEF InstanceRecord, Table
  <2>2. old \in Seq(S)
    BY <2>1 DEF Listed
  <2>3. c = Append(old, i) /\ i \in S
    OBVIOUS
  <2> HIDE DEF S, old, c
  <2>4. /\ c \in Seq(S) /\ DOMAIN old = 1 .. Len(old) /\ Len(old) \in Nat
        /\ DOMAIN c = 1 .. Len(old) + 1 /\ c[Len(old) + 1] = i
        /\ \A k \in 1 .. Len(old) : c[k] = old[k]
    BY <2>2, <2>3
  <2>5. Listed(c) /\ \A k \in DOMAIN c : (\E l \in DOMAIN old : c[k] = old[l]) \/ c[k] = i
    BY <2>4, ListedIsSeq
  <2>6. /\ Follows(new, table)
        /\ \A j \in Ids : /\ new[j].status = table[j].status
                          /\ new[j].error = table[j].error
                          /\ new[j].children = IF j = parent THEN c ELSE table[j].children
    BY <2>5, ChildrenUpdate
  <2> HIDE DEF new
  <2> QED
    BY <1>4, <2>5, <2>6 DEF old
<1> QED
  BY <1>1, <1>2, <1>3, <1>4

-----------------------------------------------------------------------------
(* What the steps do to the frames, field by field *)

Depth == Len(commandFrames)
Inst(n) == commandFrames[n].instance
Queue(n) == commandFrames[n].commandQueue
Groups(n) == commandFrames[n].commandStack
Open(n) == commandFrames[n].stackQueue

Sized(s) == DOMAIN s = 1 .. Len(s) /\ Len(s) \in Nat
Extended(s, old, x) ==
  Len(s) = Len(old) + 1 /\ s[Len(old) + 1] = x /\ \A a \in 1 .. Len(old) : s[a] = old[a]
Shortened(s, old) == Len(s) = Len(old) - 1 /\ \A a \in 1 .. Len(old) - 1 : s[a] = old[a]
Shifted(s, old) == Len(s) = Len(old) - 1 /\ \A a \in 1 .. Len(old) - 1 : s[a] = old[a + 1]

FramesSized ==
  /\ DOMAIN commandFrames = 1 .. Depth /\ Depth \in Nat /\ Depth > 0
  /\ \A n \in 1 .. Depth : /\ Inst(n) \in Nat
                           /\ Sized(Queue(n)) /\ Sized(Groups(n)) /\ Sized(Open(n))

\* Sizes follow from the types, before and after a step.
LEMMA TypedSized ==
  ASSUME NEW frames \in Seq(FrameRecord), frames # <<>>
  PROVE  /\ DOMAIN frames = 1 .. Len(frames) /\ Len(frames) \in Nat /\ Len(frames) > 0
         /\ \A n \in 1 .. Len(frames) :
              /\ frames[n].instance \in Nat
              /\ Sized(frames[n].commandQueue) /\ Sized(frames[n].commandStack)
              /\ Sized(frames[n].stackQueue)
<1>1. DOMAIN frames = 1 .. Len(frames) /\ Len(frames) \in Nat /\ Len(frames) > 0
  OBVIOUS
<1>2. \A s \in Seq(Nat) : Sized(s)
  BY DEF Sized
<1>3. ASSUME NEW n \in 1 .. Len(frames)
      PROVE  /\ frames[n].instance \in Nat /\ frames[n].commandQueue \in Seq(Nat)
             /\ frames[n].commandStack \in Seq(Nat) /\ frames[n].stackQueue \in Seq(Nat)
  <2>1. frames[n] \in FrameRecord
    BY <1>1, <1>3
  <2> QED
    BY <2>1 DEF FrameRecord
<1> QED
  BY <1>1, <1>2, <1>3

LEMMA ShapeSized ==
  /\ IInv => FramesSized
  /\ IInv' => FramesSized'
<1>1. ASSUME NEW frames \in Seq(FrameRecord), frames # <<>>
      PROVE  /\ DOMAIN frames = 1 .. Len(frames) /\ Len(frames) \in Nat /\ Len(frames) > 0
             /\ \A n \in 1 .. Len(frames) :
                  /\ frames[n].instance \in Nat
                  /\ Sized(frames[n].commandQueue) /\ Sized(frames[n].commandStack)
                  /\ Sized(frames[n].stackQueue)
  BY <1>1, TypedSized
<1>2. IInv => FramesSized
  BY <1>1 DEF IInv, Shape, FramesSized, Depth, Inst, Queue, Groups, Open
<1>3. IInv' => FramesSized'
  BY <1>1 DEF IInv, Shape, FramesSized, Depth, Inst, Queue, Groups, Open
<1> QED
  BY <1>2, <1>3

\* Changing fields of a frame leaves the others alone.
LEMMA FrameEdit ==
  ASSUME NEW old \in FrameRecord, NEW q, NEW r
  PROVE  /\ LET s == [old EXCEPT !.commandQueue = q]
            IN /\ s.instance = old.instance /\ s.commandQueue = q
               /\ s.commandStack = old.commandStack /\ s.stackQueue = old.stackQueue
         /\ LET s == [old EXCEPT !.commandQueue = q, !.stackQueue = r]
            IN /\ s.instance = old.instance /\ s.commandQueue = q
               /\ s.commandStack = old.commandStack /\ s.stackQueue = r
         /\ LET s == [old EXCEPT !.commandStack = q]
            IN /\ s.instance = old.instance /\ s.commandQueue = old.commandQueue
               /\ s.commandStack = q /\ s.stackQueue = old.stackQueue
BY DEF FrameRecord

\* Sequences of instances with one more or one less.
LEMMA SeqEdits ==
  ASSUME NEW s \in Seq(Nat)
  PROVE  /\ \A i \in Nat : Extended(Append(s, i), s, i)
         /\ s # <<>> => Shortened(Front(s), s) /\ Shifted(Tail(s), s) /\ Len(s) > 0
<1>1. \A i \in Nat : Extended(Append(s, i), s, i)
  BY DEF Extended
<1>2. s # <<>> => Shifted(Tail(s), s) /\ Len(s) > 0
  BY DEF Shifted
<1>3. Listed(s)
  BY ListedIsSeq
<1>4. s # <<>> => Shortened(Front(s), s)
  BY <1>3, ListedFront DEF Shortened
<1> QED
  BY <1>1, <1>2, <1>4

\* An instance joins the end of the queue of frame k.
Enqueued(k, kind, class, target) ==
  /\ k \in 1 .. Depth /\ Depth' = Depth
  /\ \A n \in 1 .. Depth :
       /\ Inst(n)' = Inst(n) /\ Groups(n)' = Groups(n)
       /\ n # k => Queue(n)' = Queue(n) /\ Open(n)' = Open(n)
  /\ Extended(Queue(k)', Queue(k), Count + 1)
  /\ Open(k)' = StackQueueAfter(Open(k), kind, Count + 1)
  /\ Count' = Count + 1 /\ Count \in Nat
  /\ \A j \in 1 .. Count : instances'[j] = instances[j]
  /\ instances'[Count + 1] = MakeCommand(kind, class, target, Inst(k))

\* The first instance of the back frame's queue leaves it ...
Dequeued(L, i) ==
  /\ L = Depth /\ Len(Queue(L)) > 0 /\ i = Queue(L)[1] /\ Shifted(Queue(L)', Queue(L))
  /\ \A n \in 1 .. L : /\ Inst(n)' = Inst(n) /\ Open(n)' = Open(n)
                       /\ n # L => Queue(n)' = Queue(n) /\ Groups(n)' = Groups(n)
  /\ SameIds(instances')
  /\ \A j \in Ids : /\ SameKind(instances'[j], instances[j])
                    /\ instances'[j].status = IF j = i THEN "Running" ELSE instances[j].status
                    /\ instances'[j].error = instances[j].error

\* ... and gets a frame of its own.
Taken(L, i) ==
  /\ Dequeued(L, i) /\ Depth' = L + 1
  /\ IF instances[i].kind = "begin" THEN Extended(Groups(L)', Groups(L), i)
                                    ELSE Groups(L)' = Groups(L)
  /\ Inst(L + 1)' = i /\ Queue(L + 1)' = <<>>
  /\ Groups(L + 1)' = <<i>> /\ Open(L + 1)' = <<i>>

\* The back frame is gone; closes says that the group on top of the one below is, too.
Popped(L, closes) ==
  /\ L = Depth /\ Depth' = L - 1 /\ L > 1
  /\ \A n \in 1 .. L - 1 :
       /\ Inst(n)' = Inst(n) /\ Open(n)' = Open(n) /\ Queue(n)' = Queue(n)
       /\ n # L - 1 => Groups(n)' = Groups(n)
  /\ IF closes THEN Len(Groups(L - 1)) > 0 /\ Shortened(Groups(L - 1)', Groups(L - 1))
               ELSE Groups(L - 1)' = Groups(L - 1)

FramesKept == Depth' = Depth /\ \A n \in 1 .. Depth :
  Inst(n)' = Inst(n) /\ Open(n)' = Open(n) /\ Queue(n)' = Queue(n) /\ Groups(n)' = Groups(n)

\* queueCommand, whatever changes besides the queue.
LEMMA EnqueueEffect ==
  ASSUME IInv, NEW k \in DOMAIN commandFrames, NEW kind, NEW class, NEW target,
         NEW frame, commandFrames' = [commandFrames EXCEPT ![k] = frame],
         frame.instance = Inst(k) /\ frame.commandStack = Groups(k),
         Extended(frame.commandQueue, Queue(k), Count + 1),
         frame.stackQueue = StackQueueAfter(Open(k), kind, Count + 1),
         instances' = Append(instances, MakeCommand(kind, class, target, Inst(k)))
  PROVE  Enqueued(k, kind, class, target)
<1>1. DOMAIN commandFrames = 1 .. Depth /\ Depth \in Nat
  BY ShapeSized DEF FramesSized
<1>2. /\ Len(commandFrames') = Depth /\ commandFrames'[k] = frame
      /\ \A n \in 1 .. Depth : n # k => commandFrames'[n] = commandFrames[n]
  BY <1>1 DEF IInv, Shape, Depth
<1>3. Listed(instances) /\ Count \in Nat
  BY DEF IInv, Shape, Listed, Count
<1>4. /\ Len(instances') = Count + 1 /\ \A j \in 1 .. Count : instances'[j] = instances[j]
      /\ instances'[Count + 1] = MakeCommand(kind, class, target, Inst(k))
  <2> DEFINE c == MakeCommand(kind, class, target, Inst(k))
             S == {instances[j] : j \in DOMAIN instances} \cup {c}
  <2>1. instances \in Seq(S) /\ c \in S
    BY <1>3 DEF Listed
  <2> HIDE DEF c, S
  <2>2. instances' = Append(instances, c)
    BY DEF c
  <2> QED
    BY <1>3, <2>1, <2>2 DEF Count, c
<1> QED
  BY <1>1, <1>2, <1>3, <1>4 DEF Enqueued, Depth, Inst, Queue, Groups, Open, Count

\* A thread that may queue commands works on a frame.
LEMMA CurrentFrameInst ==
  ASSUME IInv, NEW t \in Threads, t = Owner \/ Owning(t) # {}
  PROVE  LET k == FrameIndex(currentFrame[t])
         IN k \in DOMAIN commandFrames /\ commandFrames[k].instance = currentFrame[t]
<1>1. Innermost(t, currentFrame[t])
  BY DEF IInv, Chained
<1>2. \E k \in DOMAIN commandFrames : commandFrames[k].instance = currentFrame[t]
  <2>1. 1 \in DOMAIN commandFrames /\ DOMAIN commandFrames = 1 .. Depth /\ Depth \in Nat
    BY ShapeSized DEF FramesSized
  <2>2. CASE Owning(t) = {}
    BY <1>1, <2>1, <2>2 DEF Innermost, IInv, Owned
  <2>3. CASE Owning(t) # {}
    <3>1. PICK j \in Owning(t) : currentFrame[t] = stack[t][j].inst
      BY <1>1, <2>3 DEF Innermost
    <3>2. PICK n \in 2 .. Len(commandFrames) : commandFrames[n].instance = stack[t][j].inst
      BY DEF IInv, Owned
    <3> QED
      BY <2>1, <3>1, <3>2 DEF Depth
  <2> QED
    BY <2>2, <2>3
<1> QED
  BY <1>2 DEF FrameIndex

LEMMA QueueCommandEffect ==
  ASSUME IInv, NEW t \in Threads, t = Owner \/ Owning(t) # {},
         NEW kind, NEW class, NEW target, NEW rest,
         QueueCommand(t, kind, class, target, rest)
  PROVE  \E k \in 1 .. Depth : Inst(k) = currentFrame[t] /\ Enqueued(k, kind, class, target)
<1>1. PICK k \in DOMAIN commandFrames :
        k = FrameIndex(currentFrame[t]) /\ commandFrames[k].instance = currentFrame[t]
  BY CurrentFrameInst
<1> DEFINE old == commandFrames[k]
           queue == Append(old.commandQueue, Count + 1)
           open == StackQueueAfter(old.stackQueue, kind, Count + 1)
           frame == [old EXCEPT !.commandQueue = queue, !.stackQueue = open]
<1>2. commandFrames' = [commandFrames EXCEPT ![k] = frame]
  BY <1>1 DEF QueueCommand, Count
<1>3. /\ old \in FrameRecord /\ old.commandQueue \in Seq(Nat)
      /\ DOMAIN commandFrames = 1 .. Depth /\ Count \in Nat
  BY FrameTypes DEF IInv, Shape, Depth, Count, Listed
<1>4. Extended(queue, old.commandQueue, Count + 1)
  BY <1>3, SeqEdits
<1>5. /\ frame.instance = old.instance /\ frame.commandQueue = queue
      /\ frame.commandStack = old.commandStack /\ frame.stackQueue = open
  <2> HIDE DEF queue, open, old
  <2> QED
    BY <1>3, FrameEdit
<1> HIDE DEF frame
<1>6. instances' = Append(instances, MakeCommand(kind, class, target, Inst(k)))
  BY <1>1 DEF QueueCommand, Inst
<1>7. Enqueued(k, kind, class, target)
  BY <1>2, <1>4, <1>5, <1>6, EnqueueEffect DEF Inst, Queue, Groups, Open
<1> QED
  BY <1>1, <1>3, <1>7 DEF Inst

LEMMA MoveCommandIndexEffect ==
  ASSUME IInv, NEW target, MoveCommandIndex(target)
  PROVE  \E k \in 1 .. Depth :
           Inst(k) = currentFrame[Owner] /\ Enqueued(k, "undoRedo", UndoRedoClass, target)
<1>1. PICK k \in DOMAIN commandFrames :
        k = FrameIndex(currentFrame[Owner]) /\ commandFrames[k].instance = currentFrame[Owner]
  BY CurrentFrameInst DEF Threads
<1> DEFINE old == commandFrames[k]
           queue == Append(old.commandQueue, Count + 1)
           frame == [old EXCEPT !.commandQueue = queue]
<1>2. commandFrames' = [commandFrames EXCEPT ![k] = frame]
  BY <1>1 DEF MoveCommandIndex, Count
<1>3. /\ old \in FrameRecord /\ old.commandQueue \in Seq(Nat)
      /\ DOMAIN commandFrames = 1 .. Depth /\ Count \in Nat
  BY FrameTypes DEF IInv, Shape, Depth, Count, Listed
<1>4. Extended(queue, old.commandQueue, Count + 1)
  BY <1>3, SeqEdits
<1>5. /\ frame.instance = old.instance /\ frame.commandQueue = queue
      /\ frame.commandStack = old.commandStack /\ frame.stackQueue = old.stackQueue
  <2> HIDE DEF queue, old
  <2> QED
    BY <1>3, FrameEdit
<1> HIDE DEF frame
<1>6. instances' = Append(instances, MakeCommand("undoRedo", UndoRedoClass, target, Inst(k)))
  BY <1>1 DEF MoveCommandIndex, Inst
<1>7. StackQueueAfter(Open(k), "undoRedo", Count + 1) = Open(k)
  BY DEF StackQueueAfter
<1>8. Enqueued(k, "undoRedo", UndoRedoClass, target)
  BY <1>2, <1>4, <1>5, <1>6, <1>7, EnqueueEffect DEF Inst, Queue, Groups, Open
<1> QED
  BY <1>1, <1>3, <1>8 DEF Inst

\* pop_front on the back frame's queue.
LEMMA PopFrontEffect ==
  ASSUME IInv, NEW L, L = Depth, Queue(L) # <<>>
  PROVE  LET mid == PopFront(commandFrames)
         IN /\ mid \in Seq(FrameRecord) /\ Len(mid) = L /\ L \in Nat /\ L > 0
            /\ Shifted(mid[L].commandQueue, Queue(L)) /\ Len(Queue(L)) > 0
            /\ Queue(L)[1] \in Ids
            /\ \A n \in 1 .. L : /\ mid[n].instance = Inst(n) /\ mid[n].stackQueue = Open(n)
                                 /\ mid[n].commandStack = Groups(n)
                                 /\ n # L => mid[n].commandQueue = Queue(n)
<1> DEFINE mid == PopFront(commandFrames)
           old == commandFrames[L]
           rest == Tail(old.commandQueue)
           frame == [old EXCEPT !.commandQueue = rest]
<1>1. /\ L \in Nat /\ L > 0 /\ DOMAIN commandFrames = 1 .. L /\ L \in DOMAIN commandFrames
      /\ commandFrames \in Seq(FrameRecord) /\ old \in FrameRecord
      /\ old.commandQueue \in Seq(Nat) /\ Sized(Queue(L))
  BY ShapeSized, FrameTypes DEF IInv, Shape, FramesSized, Depth
<1>2. mid = [commandFrames EXCEPT ![L] = frame]
  BY DEF PopFront, Depth
<1>3. Shifted(rest, old.commandQueue) /\ Len(old.commandQueue) > 0 /\ rest \in Seq(Nat)
  BY <1>1, SeqEdits DEF Queue
<1>4. /\ frame.instance = old.instance /\ frame.commandQueue = rest /\ frame \in FrameRecord
      /\ frame.commandStack = old.commandStack /\ frame.stackQueue = old.stackQueue
  <2> HIDE DEF rest, old
  <2>1. frame \in FrameRecord
    BY <1>1, <1>3 DEF FrameRecord
  <2>2. /\ frame.instance = old.instance /\ frame.commandQueue = rest
        /\ frame.commandStack = old.commandStack /\ frame.stackQueue = old.stackQueue
    BY <1>1, FrameEdit
  <2> QED
    BY <2>1, <2>2
<1> HIDE DEF frame, mid, rest
<1>5. /\ mid \in Seq(FrameRecord) /\ Len(mid) = Len(commandFrames) /\ mid[L] = frame
      /\ \A n \in DOMAIN commandFrames : n # L => mid[n] = commandFrames[n]
  BY <1>1, <1>2, <1>4, FrameReplaced
<1>6. Queue(L)[1] \in Ids
  <2>1. 1 \in DOMAIN Queue(L)
    BY <1>1, <1>3 DEF Queue, Sized
  <2>2. Queue(L)[1] \in 1 .. Count
    BY <1>1, <2>1 DEF IInv, Queued, Queue
  <2> QED
    BY <2>2 DEF IInv, Shape, Listed, Ids, Count
<1>7. \A n \in 1 .. L : /\ mid[n].instance = Inst(n) /\ mid[n].stackQueue = Open(n)
                        /\ mid[n].commandStack = Groups(n)
                        /\ n # L => mid[n].commandQueue = Queue(n)
  <2> HIDE DEF old
  <2>1. \A n \in 1 .. L : n = L => mid[n] = frame
    BY <1>5
  <2> QED
    BY <1>1, <1>4, <1>5, <2>1 DEF Inst, Queue, Groups, Open, old
<1> QED
  BY <1>1, <1>3, <1>4, <1>5, <1>6, <1>7 DEF Queue, mid, Depth

\* pushFrame.
LEMMA PushFrameEffect ==
  ASSUME NEW frames \in Seq(FrameRecord), NEW L, L = Len(frames), L > 0, NEW i \in Nat,
         NEW new, new = PushFrame(frames, i)
  PROVE  /\ Len(new) = L + 1
         /\ \A n \in 1 .. L : /\ new[n].instance = frames[n].instance
                              /\ new[n].commandQueue = frames[n].commandQueue
                              /\ new[n].stackQueue = frames[n].stackQueue
                              /\ n # L => new[n].commandStack = frames[n].commandStack
         /\ IF instances[i].kind = "begin"
              THEN Extended(new[L].commandStack, frames[L].commandStack, i)
              ELSE new[L].commandStack = frames[L].commandStack
         /\ new[L + 1].instance = i /\ new[L + 1].commandQueue = <<>>
         /\ new[L + 1].commandStack = <<i>> /\ new[L + 1].stackQueue = <<i>>
<1> DEFINE old == frames[L]
           grouped == Append(old.commandStack, i)
           group == [old EXCEPT !.commandStack = grouped]
           opened == IF instances[i].kind = "begin" THEN [frames EXCEPT ![L] = group] ELSE frames
<1>1. /\ L \in Nat /\ L \in DOMAIN frames /\ DOMAIN frames = 1 .. L /\ old \in FrameRecord
      /\ old.commandStack \in Seq(Nat)
  <2>1. L \in Nat /\ L \in DOMAIN frames /\ DOMAIN frames = 1 .. L /\ old \in FrameRecord
    OBVIOUS
  <2> QED
    BY <2>1 DEF FrameRecord
<1>2. Extended(grouped, old.commandStack, i) /\ grouped \in Seq(Nat)
  BY <1>1, SeqEdits
<1>3. /\ group \in FrameRecord /\ group.instance = old.instance
      /\ group.commandQueue = old.commandQueue /\ group.stackQueue = old.stackQueue
      /\ group.commandStack = grouped
  <2> HIDE DEF grouped, old
  <2>1. group \in FrameRecord
    BY <1>1, <1>2 DEF FrameRecord
  <2>2. /\ group.instance = old.instance /\ group.commandQueue = old.commandQueue
        /\ group.stackQueue = old.stackQueue /\ group.commandStack = grouped
    BY <1>1, FrameEdit
  <2> QED
    BY <2>1, <2>2
<1>4. new = Append(opened, MakeFrame(i))
  BY DEF PushFrame
<1>5. /\ MakeFrame(i) \in FrameRecord /\ MakeFrame(i).instance = i
      /\ MakeFrame(i).commandQueue = <<>> /\ MakeFrame(i).commandStack = <<i>>
      /\ MakeFrame(i).stackQueue = <<i>>
  BY DEF MakeFrame, FrameRecord
<1> HIDE DEF group, grouped
<1>6. /\ opened \in Seq(FrameRecord) /\ Len(opened) = L
      /\ \A n \in 1 .. L : n # L => opened[n] = frames[n]
      /\ opened[L] = IF instances[i].kind = "begin" THEN group ELSE frames[L]
  <2>1. CASE instances[i].kind = "begin"
    <3>1. opened = [frames EXCEPT ![L] = group]
      BY <2>1
    <3> HIDE DEF opened, old
    <3>2. /\ opened \in Seq(FrameRecord) /\ Len(opened) = Len(frames) /\ opened[L] = group
          /\ \A n \in DOMAIN frames : n # L => opened[n] = frames[n]
      BY <1>1, <1>3, <3>1, FrameReplaced
    <3> QED
      BY <1>1, <2>1, <3>2
  <2>2. CASE instances[i].kind # "begin"
    BY <1>1, <2>2
  <2> QED
    BY <2>1, <2>2
<1> HIDE DEF opened
<1>7. /\ Len(new) = L + 1 /\ new[L + 1] = MakeFrame(i) /\ \A n \in 1 .. L : new[n] = opened[n]
  <2> HIDE DEF old
  <2> QED
    BY <1>1, <1>4, <1>5, <1>6
<1> QED
  BY <1>1, <1>2, <1>3, <1>5, <1>6, <1>7 DEF old

\* What ids, kinds and records are like after a table that follows the current one.
LEMMA FollowsRecorded ==
  ASSUME Listed(instances), Follows(instances', instances)
  PROVE  Recorded' /\ Ids' = Ids /\ Count' = Count
<1>1. DOMAIN instances' = DOMAIN instances
  BY DEF Follows, Table, SameIds
<1>2. Count' = Count
  BY SameIdsCount DEF Follows, Table
<1> QED
  BY <1>1, <1>2 DEF Follows, Table, Recorded, Ids

\* The instances are a table.
LEMMA InstancesTable ==
  ASSUME IInv, Recorded
  PROVE  Table(instances)
BY ListedDomain DEF Table, SameIds, IInv, Shape, Listed, Recorded

\* processCommands takes a command: it gets a frame, and its parent a child.
LEMMA TakeCommandEffect ==
  ASSUME IInv, Recorded, NEW t \in Threads, TakeCommand(t)
  PROVE  \E L, i \in Nat :
           /\ Taken(L, i) /\ i \in Ids /\ instances[i].kind # "undoRedo"
           /\ Follows(instances', instances)
           /\ \A j \in Ids : \A k \in DOMAIN instances'[j].children :
                \/ \E l \in DOMAIN instances[j].children :
                     instances'[j].children[k] = instances[j].children[l]
                \/ instances'[j].children[k] = i /\ Last(Groups(L)) # Root
           /\ Push(t, <<[Act("exec", i) EXCEPT !.prev = currentFrame[t]]>>)
<1>1. PICK L : L = Depth
  OBVIOUS
<1>2. BackFrame = commandFrames[L]
  BY <1>1, FrameTypes DEF IInv, Depth
<1>3. PICK i : i = Queue(L)[1]
  OBVIOUS
<1>4. PICK parent : parent = Last(Groups(L))
  OBVIOUS
<1>5. /\ Queue(L) # <<>> /\ instances[i].kind # "undoRedo"
      /\ commandFrames' = PushFrame(PopFront(commandFrames), i)
      /\ instances' = AddChild(SetStatus(instances, i, "Running"), parent, i)
      /\ Push(t, <<[Act("exec", i) EXCEPT !.prev = currentFrame[t]]>>)
  BY <1>2, <1>3, <1>4 DEF TakeCommand, Queue, Groups, SetStatus
<1> DEFINE mid == PopFront(commandFrames)
           table == SetStatus(instances, i, "Running")
<1>6. /\ mid \in Seq(FrameRecord) /\ Len(mid) = L /\ L \in Nat /\ L > 0
      /\ Shifted(mid[L].commandQueue, Queue(L)) /\ Len(Queue(L)) > 0 /\ i \in Ids
      /\ \A n \in 1 .. L : /\ mid[n].instance = Inst(n) /\ mid[n].stackQueue = Open(n)
                           /\ mid[n].commandStack = Groups(n)
                           /\ n # L => mid[n].commandQueue = Queue(n)
  BY <1>1, <1>3, <1>5, PopFrontEffect
<1>7. i \in Nat /\ L = Len(mid)
  BY <1>6 DEF IInv, Shape, Listed, Ids
<1>8. /\ Len(commandFrames') = L + 1
      /\ \A n \in 1 .. L : /\ commandFrames'[n].instance = mid[n].instance
                           /\ commandFrames'[n].commandQueue = mid[n].commandQueue
                           /\ commandFrames'[n].stackQueue = mid[n].stackQueue
                           /\ n # L => commandFrames'[n].commandStack = mid[n].commandStack
      /\ IF instances[i].kind = "begin"
           THEN Extended(commandFrames'[L].commandStack, mid[L].commandStack, i)
           ELSE commandFrames'[L].commandStack = mid[L].commandStack
      /\ commandFrames'[L + 1].instance = i /\ commandFrames'[L + 1].commandQueue = <<>>
      /\ commandFrames'[L + 1].commandStack = <<i>> /\ commandFrames'[L + 1].stackQueue = <<i>>
  <2> HIDE DEF mid, table
  <2> QED
    BY <1>5, <1>6, <1>7, PushFrameEffect DEF mid
<1>9. /\ Follows(table, instances)
      /\ \A j \in Ids : /\ table[j].status = IF j = i THEN "Running" ELSE instances[j].status
                        /\ table[j].error = instances[j].error
                        /\ table[j].children = instances[j].children
  BY InstancesTable, StatusUpdate
<1>10. /\ Follows(instances', table)
       /\ \A j \in Ids : /\ instances'[j].status = table[j].status
                         /\ instances'[j].error = table[j].error
                         /\ \A k \in DOMAIN instances'[j].children :
                              \/ \E l \in DOMAIN table[j].children :
                                   instances'[j].children[k] = table[j].children[l]
                              \/ instances'[j].children[k] = i /\ j = parent /\ parent # Root
  <2> HIDE DEF table
  <2>1. Table(table)
    BY <1>9 DEF Follows
  <2>2. instances' = AddChild(table, parent, i)
    BY <1>5 DEF table
  <2> QED
    BY <2>1, <2>2, AddChildFollows
<1> HIDE DEF mid, table
<1>11. Follows(instances', instances)
  BY <1>9, <1>10, FollowsOn
<1>12. Dequeued(L, i)
  <2>1. \A n \in 1 .. L : Inst(n)' = Inst(n) /\ Open(n)' = Open(n)
    BY <1>5, <1>6, <1>8 DEF Inst, Open, mid
  <2>2. \A n \in 1 .. L : n # L => Queue(n)' = Queue(n) /\ Groups(n)' = Groups(n)
    BY <1>5, <1>6, <1>8 DEF Queue, Groups, mid
  <2>3. L \in 1 .. L /\ Queue(L)' = mid[L].commandQueue
    BY <1>5, <1>6, <1>8 DEF Queue, mid
  <2>4. \A j \in Ids : /\ SameKind(instances'[j], instances[j])
                       /\ instances'[j].status = IF j = i THEN "Running" ELSE instances[j].status
                       /\ instances'[j].error = instances[j].error
    BY <1>9, <1>10, <1>11 DEF Follows
  <2> QED
    BY <1>1, <1>3, <1>6, <1>11, <2>1, <2>2, <2>3, <2>4 DEF Dequeued, Follows, Table
<1>13. Taken(L, i)
  BY <1>5, <1>6, <1>8, <1>12 DEF Taken, Depth, Inst, Queue, Groups, Open, mid
<1>14. \A j \in Ids : \A k \in DOMAIN instances'[j].children :
         \/ \E l \in DOMAIN instances[j].children :
              instances'[j].children[k] = instances[j].children[l]
         \/ instances'[j].children[k] = i /\ Last(Groups(L)) # Root
  BY <1>4, <1>9, <1>10
<1>15. L \in Nat /\ i \in Nat /\ i \in Ids
  BY <1>6, <1>7
<1> QED
  BY <1>5, <1>11, <1>13, <1>14, <1>15

\* processCommands takes an UndoRedoCommand.
LEMMA TakeUndoRedoEffect ==
  ASSUME IInv, Recorded, NEW t \in Threads, TakeUndoRedo(t)
  PROVE  \E L, i \in Nat :
           /\ Dequeued(L, i) /\ Depth' = L /\ Groups(L)' = Groups(L)
           /\ i \in Ids /\ instances[i].kind = "undoRedo" /\ CanRun(t, i)
           /\ Follows(instances', instances) /\ NoNewChild(instances', instances)
           /\ Push(t, <<Act("undoRedo", i), Act("flush", Root)>>)
<1>1. PICK L : L = Depth
  OBVIOUS
<1>2. BackFrame = commandFrames[L]
  BY <1>1, FrameTypes DEF IInv, Depth
<1>3. PICK i : i = Queue(L)[1]
  OBVIOUS
<1> DEFINE mid == PopFront(commandFrames)
<1>4. /\ Queue(L) # <<>> /\ instances[i].kind = "undoRedo" /\ CanRun(t, i)
      /\ commandFrames' = mid
      /\ instances' = [instances EXCEPT ![i].status = "Running"]
      /\ Push(t, <<Act("undoRedo", i), Act("flush", Root)>>)
  BY <1>2, <1>3 DEF TakeUndoRedo, Queue
<1>5. /\ mid \in Seq(FrameRecord) /\ Len(mid) = L /\ L \in Nat /\ L > 0
      /\ Shifted(mid[L].commandQueue, Queue(L)) /\ Len(Queue(L)) > 0 /\ i \in Ids
      /\ \A n \in 1 .. L : /\ mid[n].instance = Inst(n) /\ mid[n].stackQueue = Open(n)
                           /\ mid[n].commandStack = Groups(n)
                           /\ n # L => mid[n].commandQueue = Queue(n)
  BY <1>1, <1>3, <1>4, PopFrontEffect
<1> HIDE DEF mid
<1>6. i \in Nat
  BY <1>5 DEF IInv, Shape, Listed, Ids
<1>7. /\ Follows(instances', instances)
      /\ \A j \in Ids : /\ instances'[j].status = IF j = i THEN "Running" ELSE instances[j].status
                        /\ instances'[j].error = instances[j].error
                        /\ instances'[j].children = instances[j].children
  <2>1. instances' = SetStatus(instances, i, "Running")
    BY <1>4 DEF SetStatus
  <2> QED
    BY <2>1, InstancesTable, StatusUpdate
<1>8. Dequeued(L, i)
  <2>1. \A n \in 1 .. L : Inst(n)' = Inst(n) /\ Open(n)' = Open(n)
    BY <1>4, <1>5 DEF Inst, Open
  <2>2. \A n \in 1 .. L : n # L => Queue(n)' = Queue(n) /\ Groups(n)' = Groups(n)
    BY <1>4, <1>5 DEF Queue, Groups
  <2>3. Queue(L)' = mid[L].commandQueue
    BY <1>4 DEF Queue
  <2> QED
    BY <1>1, <1>3, <1>5, <1>7, <2>1, <2>2, <2>3 DEF Dequeued, Follows, Table
<1>9. Groups(L)' = Groups(L) /\ Depth' = L
  BY <1>4, <1>5 DEF Groups, Depth
<1> QED
  BY <1>4, <1>5, <1>6, <1>7, <1>8, <1>9 DEF NoNewChild

\* When popFrame is reached the back frame is the command's own, and its queue is used up.
LEMMA PopReached ==
  ASSUME IInv, NEW t \in Threads, At(t, "spin"), ~SubCommandsLeft(Top(t).inst)
  PROVE  /\ Inst(Depth) = Top(t).inst /\ Queue(Depth) = <<>> /\ Depth > 1 /\ Depth \in Nat
         /\ BackFrame = commandFrames[Depth]
         /\ Len(stack[t]) \in Owning(t) /\ Top(t) = stack[t][Len(stack[t])]
<1>1. FramesSized /\ StackShape
  BY ShapeSized DEF IInv, Shape
<1>2. BackFrame = commandFrames[Depth]
  BY DEF BackFrame, Last, Depth
<1>3. Inst(Depth) = Top(t).inst
  BY <1>2 DEF SubCommandsLeft, Inst
<1>4. DOMAIN stack[t] = 1 .. Len(stack[t]) /\ Len(stack[t]) \in Nat /\ stack[t] # <<>>
  BY <1>1, OwningDomain DEF At, Running
<1>5. Len(stack[t]) > 0
  BY <1>1, <1>4 DEF StackShape, Listed
<1>6. Top(t) = stack[t][Len(stack[t])]
  BY DEF Top, Last
<1>7. Len(stack[t]) \in Owning(t)
  BY <1>4, <1>5, <1>6 DEF Owning, At
<1>8. PICK n \in 2 .. Depth : commandFrames[n].instance = Top(t).inst
  BY <1>6, <1>7 DEF IInv, Owned, Depth
<1>9. \A m \in DOMAIN commandFrames : commandFrames[m].instance = Top(t).inst => m = Depth
  BY <1>1, <1>3 DEF IInv, Distinct, Inst, FramesSized
<1>10. n = Depth /\ Depth > 1 /\ Depth \in DOMAIN commandFrames
  BY <1>1, <1>8, <1>9 DEF FramesSized
<1>11. FrameIndex(Top(t).inst) = Depth
  BY <1>3, <1>9, <1>10 DEF FrameIndex, Inst
<1>12. Queue(Depth) = <<>>
  BY <1>11 DEF SubCommandsLeft, Frame, Queue
<1> QED
  BY <1>1, <1>2, <1>3, <1>6, <1>7, <1>10, <1>12 DEF FramesSized

\* The frames below the back one, with the group on top of them closed or not.
FramesBelow(frames, closes) ==
  IF closes THEN [Front(frames) EXCEPT ![Len(Front(frames))].commandStack = Front(@)]
  ELSE Front(frames)

\* What the back frame leaves behind.
LEMMA FrontFrames ==
  ASSUME NEW frames \in Seq(FrameRecord), NEW L, L = Len(frames), L > 1,
         NEW closes \in BOOLEAN, closes => frames[L - 1].commandStack # <<>>,
         NEW new, new = FramesBelow(frames, closes)
  PROVE  /\ Len(new) = L - 1 /\ Last(Front(frames)) = frames[L - 1] /\ Last(new) = new[L - 1]
         /\ \A n \in 1 .. L - 1 : /\ new[n].instance = frames[n].instance
                                  /\ new[n].commandQueue = frames[n].commandQueue
                                  /\ new[n].stackQueue = frames[n].stackQueue
                                  /\ n # L - 1 => new[n].commandStack = frames[n].commandStack
         /\ IF closes THEN /\ Len(frames[L - 1].commandStack) > 0
                           /\ Shortened(new[L - 1].commandStack, frames[L - 1].commandStack)
                      ELSE new[L - 1].commandStack = frames[L - 1].commandStack
<1> DEFINE below == Front(frames)
           old == frames[L - 1]
           popped == Front(old.commandStack)
           group == [old EXCEPT !.commandStack = popped]
<1>1. L \in Nat /\ frames # <<>> /\ Listed(frames)
  BY ListedIsSeq
<1>2. /\ Len(below) = L - 1 /\ DOMAIN below = 1 .. L - 1
      /\ \A n \in 1 .. L - 1 : below[n] = frames[n]
  BY <1>1, ListedFront
<1>3. below \in Seq(FrameRecord)
  BY <1>1, <1>2 DEF Front
<1>4. old \in FrameRecord /\ L - 1 \in DOMAIN below /\ L - 1 \in 1 .. L - 1
  BY <1>1, <1>2
<1>5. old.commandStack \in Seq(Nat)
  BY <1>4 DEF FrameRecord
<1>6. Last(below) = old
  BY <1>2, <1>4 DEF Last
<1> HIDE DEF below
<1>7. CASE ~closes
  <2>1. new = below
    BY <1>7 DEF below, FramesBelow
  <2> QED
    BY <1>2, <1>4, <1>6, <1>7, <2>1 DEF Last, below
<1>8. CASE closes
  <2>1. old.commandStack # <<>>
    BY <1>8
  <2>2. popped \in Seq(Nat) /\ Shortened(popped, old.commandStack) /\ Len(old.commandStack) > 0
    BY <1>5, <2>1, FrontOfNats, SeqEdits
  <2>3. new = [below EXCEPT ![L - 1] = group]
    BY <1>2, <1>4, <1>8 DEF below, FramesBelow
  <2>4. /\ group.instance = old.instance /\ group.commandQueue = old.commandQueue
        /\ group.stackQueue = old.stackQueue /\ group.commandStack = popped
        /\ group \in FrameRecord
    <3> HIDE DEF popped, old
    <3>1. group \in FrameRecord
      BY <1>4, <2>2 DEF FrameRecord
    <3> QED
      BY <1>4, <3>1, FrameEdit
  <2> HIDE DEF group, popped
  <2>5. /\ Len(new) = Len(below) /\ new[L - 1] = group
        /\ \A n \in DOMAIN below : n # L - 1 => new[n] = below[n]
    BY <1>3, <1>4, <2>3, <2>4, FrameReplaced
  <2>6. \A n \in 1 .. L - 1 : n = L - 1 => new[n] = group
    BY <2>5
  <2>7. Last(new) = new[L - 1]
    BY <1>2, <2>5 DEF Last
  <2>8. \A n \in 1 .. L - 1 : /\ new[n].instance = frames[n].instance
                              /\ new[n].commandQueue = frames[n].commandQueue
                              /\ new[n].stackQueue = frames[n].stackQueue
                              /\ n # L - 1 => new[n].commandStack = frames[n].commandStack
    BY <1>2, <2>4, <2>5, <2>6
  <2> QED
    BY <1>2, <1>6, <1>8, <2>2, <2>4, <2>5, <2>7, <2>8 DEF below
<1> QED
  BY <1>7, <1>8

\* How popFrame deals with the instance done, whose frame and group are gone by then: a
\* Begin stays open, a success is complete, a failure is too or will be rolled back.
LeftOpen(t, done) ==
  /\ Pop(t) /\ UNCHANGED pendingHistory
  /\ \A j \in Ids : instances'[j].status = instances[j].status

Completed(t, done, parent) ==
  /\ Pop(t)
  /\ \A j \in Ids : instances'[j].status = IF j = done THEN "Complete" ELSE instances[j].status
  /\ \/ UNCHANGED pendingHistory
     \/ /\ parent = Root /\ pendingHistory' = Append(pendingHistory, done)
        /\ done \in Ids => instances'[done].error # "failed"

GivenUp(t, done) ==
  /\ ReplaceTop(t, <<Act("rollback", done)>>) /\ UNCHANGED pendingHistory
  /\ \A j \in Ids : instances'[j].status = instances[j].status

\* What popFrame does to the tables of instances.
LEMMA PopFrameTables ==
  ASSUME IInv, Recorded, NEW t \in Threads, NEW i, NEW done, NEW closes \in BOOLEAN, NEW parent,
         NEW table, table = IF closes THEN SetError(instances, done, instances[i].error)
                                      ELSE instances,
         CASE instances[i].kind = "begin" -> Pop(t) /\ UNCHANGED <<instances, pendingHistory>>
           [] instances[i].kind # "begin" /\ Succeeded(table, done) ->
                /\ instances' = SetStatus(HandToParent(table, done, parent), done, "Complete")
                /\ pendingHistory' = IF parent = Root /\ table[done].class.canUndo
                                       THEN Append(pendingHistory, done) ELSE pendingHistory
                /\ Pop(t)
           [] instances[i].kind # "begin" /\ ~Succeeded(table, done) /\ ~table[done].class.canUndo ->
                /\ instances' = SetStatus(table, done, "Complete")
                /\ Pop(t)
                /\ UNCHANGED pendingHistory
           [] instances[i].kind # "begin" /\ ~Succeeded(table, done) /\ table[done].class.canUndo ->
                /\ instances' = table
                /\ ReplaceTop(t, <<Act("rollback", done)>>)
                /\ UNCHANGED pendingHistory
  PROVE  /\ Follows(instances', instances) /\ NoNewChild(instances', instances)
         /\ \A j \in Ids : j # done => instances'[j].error = instances[j].error
         /\ IF instances[i].kind = "begin" THEN LeftOpen(t, done)
            ELSE Completed(t, done, parent) \/ GivenUp(t, done)
<1>1. Table(instances) /\ Follows(instances, instances)
  BY InstancesTable, FollowsItself
<1>2. /\ Follows(table, instances)
      /\ \A j \in Ids : /\ table[j].status = instances[j].status
                        /\ table[j].children = instances[j].children
                        /\ j # done => table[j].error = instances[j].error
  <2>1. CASE closes
    <3>1. table = SetError(instances, done, instances[i].error)
      BY <2>1
    <3> QED
      BY <1>1, <3>1, ErrorUpdate
  <2>2. CASE ~closes
    BY <1>1, <2>2
  <2> QED
    BY <2>1, <2>2
<1>3. Table(table)
  BY <1>2 DEF Follows
<1>4. NoNewChild(table, instances)
  BY <1>2 DEF NoNewChild
<1>5. CASE instances[i].kind = "begin"
  <2>1. Pop(t) /\ UNCHANGED <<instances, pendingHistory>>
    BY <1>5
  <2> QED
    BY <1>1, <1>5, <2>1 DEF LeftOpen, NoNewChild
<1>6. CASE instances[i].kind # "begin" /\ Succeeded(table, done)
  <2> DEFINE handed == HandToParent(table, done, parent)
  <2>1. /\ instances' = SetStatus(handed, done, "Complete")
        /\ pendingHistory' = IF parent = Root /\ table[done].class.canUndo
                               THEN Append(pendingHistory, done) ELSE pendingHistory
        /\ Pop(t)
    BY <1>6
  <2>2. Fine(handed, table)
    BY <1>3, HandToParentFollows
  <2> HIDE DEF handed
  <2>3. Table(handed)
    BY <2>2 DEF Fine, Follows
  <2>4. /\ Follows(instances', handed)
        /\ \A j \in Ids : /\ instances'[j].status = IF j = done THEN "Complete" ELSE handed[j].status
                          /\ instances'[j].error = handed[j].error
                          /\ instances'[j].children = handed[j].children
    BY <2>1, <2>3, StatusUpdate
  <2>5. Follows(instances', instances)
    BY <1>2, <2>2, <2>4, FollowsOn DEF Fine
  <2>6. NoNewChild(instances', instances)
    BY <1>4, <2>2, <2>4 DEF NoNewChild, Fine
  <2>7. done \in Ids => instances'[done].error # "failed"
    BY <1>6, <2>2, <2>4 DEF Fine, Succeeded
  <2>8. \A j \in Ids : /\ instances'[j].status = IF j = done THEN "Complete" ELSE instances[j].status
                       /\ j # done => instances'[j].error = instances[j].error
    BY <1>2, <2>2, <2>4 DEF Fine
  <2> QED
    BY <1>6, <2>1, <2>5, <2>6, <2>7, <2>8 DEF Completed
<1>7. CASE instances[i].kind # "begin" /\ ~Succeeded(table, done) /\ ~table[done].class.canUndo
  <2>1. instances' = SetStatus(table, done, "Complete") /\ Pop(t) /\ UNCHANGED pendingHistory
    BY <1>7
  <2>2. /\ Follows(instances', table)
        /\ \A j \in Ids : /\ instances'[j].status = IF j = done THEN "Complete" ELSE table[j].status
                          /\ instances'[j].error = table[j].error
                          /\ instances'[j].children = table[j].children
    BY <1>3, <2>1, StatusUpdate
  <2>3. Follows(instances', instances)
    BY <1>2, <2>2, FollowsOn
  <2>4. NoNewChild(instances', instances)
    BY <1>4, <2>2 DEF NoNewChild
  <2> QED
    BY <1>2, <1>7, <2>1, <2>2, <2>3, <2>4 DEF Completed
<1>8. CASE instances[i].kind # "begin" /\ ~Succeeded(table, done) /\ table[done].class.canUndo
  <2>1. instances' = table /\ ReplaceTop(t, <<Act("rollback", done)>>) /\ UNCHANGED pendingHistory
    BY <1>8
  <2> QED
    BY <1>2, <1>4, <1>8, <2>1 DEF GivenUp
<1> QED
  BY <1>5, <1>6, <1>7, <1>8

\* popFrame.
LEMMA PopFrameEffect ==
  ASSUME IInv, Recorded, NEW t \in Threads, PopFrame(t),
         \A n \in 1 .. Depth : Groups(n) # <<>>
  PROVE  \E L \in Nat : \E closes \in BOOLEAN : \E done :
           /\ Popped(L, closes) /\ Inst(L) = Top(t).inst /\ Queue(L) = <<>>
           /\ closes <=> instances[Inst(L)].kind \in {"end", "abort"} /\ Last(Groups(L - 1)) # Root
           /\ done = IF closes THEN Last(Groups(L - 1)) ELSE Inst(L)
           /\ Follows(instances', instances) /\ NoNewChild(instances', instances)
           /\ \A j \in Ids : j # done => instances'[j].error = instances[j].error
           /\ IF instances[Inst(L)].kind = "begin" THEN LeftOpen(t, done)
              ELSE Completed(t, done, Last(Groups(L - 1)')) \/ GivenUp(t, done)
<1> DEFINE i == Top(t).inst
<1>1. PICK L : L = Depth
  OBVIOUS
<1>2. Inst(L) = i /\ Queue(L) = <<>> /\ L > 1 /\ L \in Nat
  BY <1>1, PopReached DEF PopFrame
<1>3. /\ commandFrames \in Seq(FrameRecord) /\ L = Len(commandFrames)
  BY <1>1 DEF IInv, Shape, Depth
<1>4. Last(Front(commandFrames)) = commandFrames[L - 1]
  <2>1. PICK new : new = FramesBelow(commandFrames, FALSE)
    OBVIOUS
  <2> QED
    BY <1>2, <1>3, <2>1, FrontFrames
<1>5. PICK group : group = Last(Groups(L - 1))
  OBVIOUS
<1>6. PICK closes \in BOOLEAN : closes <=> instances[i].kind \in {"end", "abort"} /\ group # Root
  OBVIOUS
<1>7. PICK done : done = IF closes THEN group ELSE i
  OBVIOUS
<1>8. PICK table : table = IF closes THEN SetError(instances, done, instances[i].error) ELSE instances
  OBVIOUS
<1>9. PICK parent : parent = Last(Last(commandFrames').commandStack)
  OBVIOUS
<1>10. /\ commandFrames' = FramesBelow(commandFrames, closes)
       /\ CASE instances[i].kind = "begin" -> Pop(t) /\ UNCHANGED <<instances, pendingHistory>>
            [] instances[i].kind # "begin" /\ Succeeded(table, done) ->
                 /\ instances' = SetStatus(HandToParent(table, done, parent), done, "Complete")
                 /\ pendingHistory' = IF parent = Root /\ table[done].class.canUndo
                                        THEN Append(pendingHistory, done) ELSE pendingHistory
                 /\ Pop(t)
            [] instances[i].kind # "begin" /\ ~Succeeded(table, done) /\ ~table[done].class.canUndo ->
                 /\ instances' = SetStatus(table, done, "Complete")
                 /\ Pop(t)
                 /\ UNCHANGED pendingHistory
            [] instances[i].kind # "begin" /\ ~Succeeded(table, done) /\ table[done].class.canUndo ->
                 /\ instances' = table
                 /\ ReplaceTop(t, <<Act("rollback", done)>>)
                 /\ UNCHANGED pendingHistory
  BY <1>4, <1>5, <1>6, <1>7, <1>8, <1>9
     DEF PopFrame, SetStatus, SetError, Groups, FramesBelow
<1>11. closes => commandFrames[L - 1].commandStack # <<>>
  <2>1. L - 1 \in 1 .. Depth
    BY <1>1, <1>2
  <2> QED
    BY <2>1 DEF Groups
<1>12. /\ Len(commandFrames') = L - 1 /\ Last(commandFrames') = commandFrames'[L - 1]
       /\ \A n \in 1 .. L - 1 : /\ commandFrames'[n].instance = commandFrames[n].instance
                                /\ commandFrames'[n].commandQueue = commandFrames[n].commandQueue
                                /\ commandFrames'[n].stackQueue = commandFrames[n].stackQueue
                                /\ n # L - 1 =>
                                     commandFrames'[n].commandStack = commandFrames[n].commandStack
       /\ IF closes THEN /\ Len(commandFrames[L - 1].commandStack) > 0
                         /\ Shortened(commandFrames'[L - 1].commandStack,
                                      commandFrames[L - 1].commandStack)
                    ELSE commandFrames'[L - 1].commandStack = commandFrames[L - 1].commandStack
  BY <1>2, <1>3, <1>10, <1>11, FrontFrames
<1>13. Popped(L, closes)
  BY <1>1, <1>2, <1>12 DEF Popped, Depth, Inst, Queue, Groups, Open
<1>14. parent = Last(Groups(L - 1)')
  BY <1>9, <1>12 DEF Groups
<1> HIDE DEF i
<1>15. /\ Follows(instances', instances) /\ NoNewChild(instances', instances)
       /\ \A j \in Ids : j # done => instances'[j].error = instances[j].error
       /\ IF instances[i].kind = "begin" THEN LeftOpen(t, done)
          ELSE Completed(t, done, parent) \/ GivenUp(t, done)
  BY <1>8, <1>10, PopFrameTables
<1>16. /\ Popped(L, closes) /\ Inst(L) = Top(t).inst /\ Queue(L) = <<>>
       /\ closes <=> instances[Inst(L)].kind \in {"end", "abort"} /\ Last(Groups(L - 1)) # Root
       /\ done = IF closes THEN Last(Groups(L - 1)) ELSE Inst(L)
       /\ Follows(instances', instances) /\ NoNewChild(instances', instances)
       /\ \A j \in Ids : j # done => instances'[j].error = instances[j].error
       /\ IF instances[Inst(L)].kind = "begin" THEN LeftOpen(t, done)
          ELSE Completed(t, done, Last(Groups(L - 1)')) \/ GivenUp(t, done)
  BY <1>2, <1>5, <1>6, <1>7, <1>13, <1>14, <1>15 DEF i
<1> QED
  BY <1>2, <1>16

-----------------------------------------------------------------------------
(* What the steps do to the activations *)

\* The k-th activation of thread t is of this kind and for instance i.
Does(t, k, at, i) == k \in DOMAIN stack[t] /\ stack[t][k].at = at /\ stack[t][k].inst = i

\* The activations that keep an instance unfinished after its frame is gone.
Holding == {"rollback", "undoRedo"}

SameHeld ==
  \A t \in Threads : \A k, i : \A at \in Holding : Does(t, k, at, i)' <=> Does(t, k, at, i)
HeldGained(u, l, a, j) ==
  /\ \A at, i : ~Does(u, l, at, i) \/ at \notin Holding
  /\ \A t \in Threads : \A k, i : \A at \in Holding :
       Does(t, k, at, i)' <=> Does(t, k, at, i) \/ (t = u /\ k = l /\ at = a /\ i = j)
HeldLost(u, l, a, j) ==
  /\ Does(u, l, a, j)
  /\ \A t \in Threads : \A k, i : \A at \in Holding :
       Does(t, k, at, i)' <=> Does(t, k, at, i) /\ ~(t = u /\ k = l)
NoNewSpin == \A t \in Threads : \A k, i : Does(t, k, "spin", i)' => Does(t, k, "spin", i)

Plain(acts) == Listed(acts) /\ \A k \in 1 .. Len(acts) : acts[k].at \notin Holding \cup {"spin"}

PlainAct(a) == a.at \notin Holding \cup {"spin"}

\* Up to three new activations that hold nothing.
LEMMA PlainActs ==
  /\ Plain(<<>>)
  /\ \A a : PlainAct(a) => Plain(<<a>>)
  /\ \A a, b : PlainAct(a) /\ PlainAct(b) => Plain(<<a, b>>)
  /\ \A a, b, c : PlainAct(a) /\ PlainAct(b) /\ PlainAct(c) => Plain(<<a, b, c>>)
<1>1. Plain(<<>>)
  BY TuplesListed DEF Plain, PlainAct
<1>2. ASSUME NEW a, PlainAct(a) PROVE Plain(<<a>>)
  <2>1. \A k \in 1 .. 1 : <<a>>[k] = a
    OBVIOUS
  <2> QED
    BY <1>2, <2>1, TuplesListed DEF Plain, PlainAct
<1>3. ASSUME NEW a, NEW b, PlainAct(a), PlainAct(b)
      PROVE  Plain(<<a, b>>)
  <2>1. \A k \in 1 .. 2 : <<a, b>>[k] = a \/ <<a, b>>[k] = b
    OBVIOUS
  <2> QED
    BY <1>3, <2>1, TuplesListed DEF Plain, PlainAct
<1>4. ASSUME NEW a, NEW b, NEW c, PlainAct(a),
             PlainAct(b), PlainAct(c)
      PROVE  Plain(<<a, b, c>>)
  <2>1. \A k \in 1 .. 3 : <<a, b, c>>[k] = a \/ <<a, b, c>>[k] = b \/ <<a, b, c>>[k] = c
    OBVIOUS
  <2> QED
    BY <1>4, <2>1, TuplesListed DEF Plain, PlainAct
<1> QED
  BY <1>1, <1>2, <1>3, <1>4

\* What Act makes.
LEMMA ActFields ==
  ASSUME NEW at, NEW i
  PROVE  /\ Act(at, i).at = at /\ Act(at, i).inst = i
         /\ \A x : [Act(at, i) EXCEPT !.before = x].at = at
                /\ [Act(at, i) EXCEPT !.before = x].inst = i
         /\ \A x : [Act(at, i) EXCEPT !.prev = x].at = at
                /\ [Act(at, i) EXCEPT !.prev = x].inst = i
BY DEF Act

\* Activations that hold nothing come, others that hold nothing go.
LEMMA AbovePlain ==
  ASSUME NEW t \in Threads, NEW n, NEW acts, Above(t, n, acts), Plain(acts),
         \A k \in n + 1 .. Len(stack[t]) : stack[t][k].at \notin Holding
  PROVE  SameHeld /\ NoNewSpin
<1>1. /\ n \in Nat /\ n <= Len(stack[t]) /\ Len(acts) \in Nat /\ Len(stack[t]) \in Nat
      /\ DOMAIN stack[t] = 1 .. Len(stack[t]) /\ DOMAIN stack'[t] = 1 .. n + Len(acts)
      /\ \A u \in Threads : u # t => stack'[u] = stack[u]
      /\ \A k \in 1 .. n : stack'[t][k] = stack[t][k]
      /\ \A k \in 1 .. Len(acts) : stack'[t][n + k] = acts[k]
  BY DEF Above
<1>2. ASSUME NEW k \in n + 1 .. n + Len(acts)
      PROVE  stack'[t][k].at \notin Holding \cup {"spin"}
  <2>1. k - n \in 1 .. Len(acts) /\ n + (k - n) = k
    BY <1>1
  <2> QED
    BY <1>1, <2>1 DEF Plain
<1>3. \A k : k \in DOMAIN stack'[t] => k \in 1 .. n \/ k \in n + 1 .. n + Len(acts)
  BY <1>1
<1>4. \A k : k \in DOMAIN stack[t] => k \in 1 .. n \/ k \in n + 1 .. Len(stack[t])
  BY <1>1
<1>5. \A k \in 1 .. n : k \in DOMAIN stack[t] /\ k \in DOMAIN stack'[t]
  BY <1>1
<1>6. ASSUME NEW k, NEW i, NEW at, at \in Holding \cup {"spin"}, Does(t, k, at, i)'
      PROVE  Does(t, k, at, i)
  BY <1>1, <1>2, <1>3, <1>5, <1>6 DEF Does
<1>7. ASSUME NEW k, NEW i, NEW at \in Holding, Does(t, k, at, i)
      PROVE  Does(t, k, at, i)'
  BY <1>1, <1>4, <1>5, <1>7 DEF Does
<1>8. \A u \in Threads : \A k, at, i : u # t => (Does(u, k, at, i)' <=> Does(u, k, at, i))
  BY <1>1 DEF Does
<1> QED
  BY <1>6, <1>7, <1>8 DEF SameHeld, NoNewSpin

\* An activation that holds an instance comes first of those that are new.
LEMMA AboveGains ==
  ASSUME NEW t \in Threads, NEW n, NEW acts, Above(t, n, acts), Len(acts) > 0,
         NEW a \in Holding, NEW j, acts[1].at = a, acts[1].inst = j,
         \A k \in 2 .. Len(acts) : acts[k].at \notin Holding \cup {"spin"},
         \A k \in n + 1 .. Len(stack[t]) : stack[t][k].at \notin Holding
  PROVE  HeldGained(t, n + 1, a, j) /\ NoNewSpin
<1>1. /\ n \in Nat /\ n <= Len(stack[t]) /\ Len(acts) \in Nat /\ Len(stack[t]) \in Nat
      /\ DOMAIN stack[t] = 1 .. Len(stack[t]) /\ DOMAIN stack'[t] = 1 .. n + Len(acts)
      /\ \A u \in Threads : u # t => stack'[u] = stack[u]
      /\ \A k \in 1 .. n : stack'[t][k] = stack[t][k]
      /\ \A k \in 1 .. Len(acts) : stack'[t][n + k] = acts[k]
  BY DEF Above
<1>2. stack'[t][n + 1] = acts[1] /\ n + 1 \in DOMAIN stack'[t]
  BY <1>1
<1>3. ASSUME NEW k \in n + 2 .. n + Len(acts)
      PROVE  stack'[t][k].at \notin Holding \cup {"spin"}
  <2>1. PICK m : m = k - n
    OBVIOUS
  <2>2. m \in 2 .. Len(acts) /\ m \in 1 .. Len(acts) /\ n + m = k
    BY <1>1, <2>1
  <2>3. stack'[t][n + m] = acts[m]
    BY <1>1, <2>2
  <2> QED
    BY <2>2, <2>3
<1>4. \A k : k \in DOMAIN stack'[t] => k \in 1 .. n \/ k = n + 1 \/ k \in n + 2 .. n + Len(acts)
  BY <1>1
<1>5. \A k : k \in DOMAIN stack[t] => k \in 1 .. n \/ k \in n + 1 .. Len(stack[t])
  BY <1>1
<1>6. \A k \in 1 .. n : k \in DOMAIN stack[t] /\ k \in DOMAIN stack'[t] /\ k # n + 1
  BY <1>1
<1>7. "spin" \notin Holding
  BY DEF Holding
<1>8. ASSUME NEW k, NEW i, NEW at, at \in Holding \cup {"spin"}, Does(t, k, at, i)'
      PROVE  Does(t, k, at, i) \/ (k = n + 1 /\ at = a /\ i = j)
  BY <1>1, <1>2, <1>3, <1>4, <1>6, <1>8 DEF Does
<1>9. ASSUME NEW k, NEW i, NEW at \in Holding, Does(t, k, at, i)
      PROVE  Does(t, k, at, i)' /\ k # n + 1
  BY <1>1, <1>5, <1>6, <1>9 DEF Does
<1>10. Does(t, n + 1, a, j)'
  BY <1>2 DEF Does
<1>11. \A u \in Threads : \A k, at, i : u # t => (Does(u, k, at, i)' <=> Does(u, k, at, i))
  BY <1>1 DEF Does
<1>12. NoNewSpin
  BY <1>7, <1>8, <1>11 DEF NoNewSpin
<1>13. \A at, i : ~Does(t, n + 1, at, i) \/ at \notin Holding
  BY <1>9
<1> QED
  BY <1>8, <1>9, <1>10, <1>11, <1>12, <1>13 DEF HeldGained

\* The top activation, which holds an instance, goes.
LEMMA PopLoses ==
  ASSUME StackShape, NEW t \in Threads, Running(t), Pop(t), Top(t).at \in Holding
  PROVE  HeldLost(t, Len(stack[t]), Top(t).at, Top(t).inst) /\ NoNewSpin
<1>1. /\ Above(t, Len(stack[t]) - 1, <<>>) /\ Len(stack[t]) > 0
      /\ Top(t) = stack[t][Len(stack[t])] /\ Len(<<>>) = 0
  BY PopAbove, TuplesListed
<1>2. /\ Len(stack[t]) \in Nat
      /\ DOMAIN stack[t] = 1 .. Len(stack[t]) /\ DOMAIN stack'[t] = 1 .. Len(stack[t]) - 1
      /\ \A u \in Threads : u # t => stack'[u] = stack[u]
      /\ \A k \in 1 .. Len(stack[t]) - 1 : stack'[t][k] = stack[t][k]
  BY <1>1 DEF Above
<1>3. Len(stack[t]) \in DOMAIN stack[t]
  BY <1>1, <1>2
<1>4. \A k : k \in DOMAIN stack'[t] <=> k \in DOMAIN stack[t] /\ k # Len(stack[t])
  BY <1>1, <1>2
<1>5. \A k \in DOMAIN stack'[t] : stack'[t][k] = stack[t][k]
  BY <1>2
<1>6. \A k, at, i : Does(t, k, at, i)' <=> Does(t, k, at, i) /\ k # Len(stack[t])
  BY <1>4, <1>5 DEF Does
<1>7. \A u \in Threads : \A k, at, i : u # t => (Does(u, k, at, i)' <=> Does(u, k, at, i))
  BY <1>2 DEF Does
<1>8. Does(t, Len(stack[t]), Top(t).at, Top(t).inst)
  BY <1>1, <1>3 DEF Does
<1> QED
  BY <1>6, <1>7, <1>8 DEF HeldLost, NoNewSpin

\* Push, ReplaceTop and Pop of activations that hold nothing.
LEMMA PlainStacks ==
  ASSUME StackShape, NEW t \in Threads, NEW acts, Plain(acts)
  PROVE  /\ Push(t, acts) => SameHeld /\ NoNewSpin
         /\ Running(t) /\ Top(t).at \notin Holding /\ ReplaceTop(t, acts) => SameHeld /\ NoNewSpin
         /\ Running(t) /\ Top(t).at \notin Holding /\ Pop(t) => SameHeld /\ NoNewSpin
<1>1. Listed(acts) /\ Len(stack[t]) \in Nat /\ Plain(<<>>)
  BY OwningDomain, PlainActs DEF Plain
<1>2. ASSUME Push(t, acts) PROVE SameHeld /\ NoNewSpin
  <2>1. \A k \in Len(stack[t]) + 1 .. Len(stack[t]) : stack[t][k].at \notin Holding
    BY <1>1
  <2> QED
    BY <1>1, <1>2, <2>1, PushAbove, AbovePlain
<1>3. Len(stack[t]) > 0 => \A k \in (Len(stack[t]) - 1) + 1 .. Len(stack[t]) : k = Len(stack[t])
  BY <1>1
<1>4. ASSUME Running(t), Top(t).at \notin Holding, ReplaceTop(t, acts)
      PROVE  SameHeld /\ NoNewSpin
  <2>1. /\ Above(t, Len(stack[t]) - 1, acts) /\ Len(stack[t]) > 0
        /\ Top(t) = stack[t][Len(stack[t])]
    BY <1>1, <1>4, ReplaceAbove
  <2>2. \A k \in (Len(stack[t]) - 1) + 1 .. Len(stack[t]) : stack[t][k].at \notin Holding
    BY <1>3, <1>4, <2>1
  <2> QED
    BY <2>1, <2>2, AbovePlain
<1>5. ASSUME Running(t), Top(t).at \notin Holding, Pop(t)
      PROVE  SameHeld /\ NoNewSpin
  <2>1. /\ Above(t, Len(stack[t]) - 1, <<>>) /\ Len(stack[t]) > 0
        /\ Top(t) = stack[t][Len(stack[t])]
    BY <1>5, PopAbove
  <2>2. \A k \in (Len(stack[t]) - 1) + 1 .. Len(stack[t]) : stack[t][k].at \notin Holding
    BY <1>3, <1>5, <2>1
  <2> QED
    BY <1>1, <2>1, <2>2, AbovePlain
<1> QED
  BY <1>2, <1>4, <1>5

-----------------------------------------------------------------------------
(* Where an instance can be *)

InQueue(i) == \E n \in 1 .. Depth : \E a \in 1 .. Len(Queue(n)) : Queue(n)[a] = i
InFrame(i) == \E n \in 1 .. Depth : Inst(n) = i
InGroup(i) == \E n \in 1 .. Depth : \E k \in 2 .. Len(Groups(n)) : Groups(n)[k] = i

Closing(i) == instances[i].kind \in {"end", "abort"}
Finished(i) == Complete(i) \/ RollingBack(i)

\* An End or an Abort is left behind once it has closed its group.
LeftBehind(i) == Closing(i) /\ instances[i].status = "Running"

\* The calls of the application are the oldest activations of the owner thread.
OwnerActs ==
  \A t \in Threads : \A k \in DOMAIN stack[t] :
    stack[t][k].at \in {"undo", "redo", "remove", "move", "update", "fini", "join"} =>
      t = Owner /\ k = 1

\* Instances are queued on the frame that runs them; jobs run outside any command.
Homes ==
  /\ \A n \in 1 .. Depth : \A a \in 1 .. Len(Queue(n)) :
       instances[Queue(n)[a]].home = Inst(n)
  /\ \A n \in 2 .. Depth : /\ instances[Inst(n)].home = Inst(n - 1)
                           /\ instances[Inst(n)].kind # "undoRedo"
  /\ \A i \in Ids : instances[i].kind = "undoRedo" =>
       instances[i].home = Root /\ instances[i].class.affinity = "UI"

\* The command stack of a frame: its own instance and the batches begun there.
Grouped ==
  /\ \A n \in 1 .. Depth : Len(Groups(n)) > 0 /\ Groups(n)[1] = Inst(n)
  /\ \A n \in 1 .. Depth : \A k \in 2 .. Len(Groups(n)) :
       /\ Groups(n)[k] \in Ids
       /\ instances[Groups(n)[k]].kind = "begin" /\ instances[Groups(n)[k]].home = Inst(n)
       /\ \A j \in 2 .. Len(Groups(n)) : Groups(n)[j] = Groups(n)[k] => j = k
       /\ \A m \in 1 .. Depth : Inst(m) = Groups(n)[k] => m = n + 1 /\ k = Len(Groups(n))
  /\ \A n \in 1 .. Depth - 1 :
       instances[Inst(n + 1)].kind = "begin" => Groups(n)[Len(Groups(n))] = Inst(n + 1)

DepthAfter(d, kind) ==
  CASE kind = "begin" -> d + 1
    [] kind \in {"end", "abort"} -> d - 1
    [] OTHER -> d

\* The depth of the command stack of frame n once the group on top is closed, if the
\* frame above is about to.
Standing(n) ==
  IF n < Depth /\ Closing(Inst(n + 1)) THEN Len(Groups(n)) - 1 ELSE Len(Groups(n))

\* Running what is queued turns the command stack into the stack queue, in depth, and
\* never closes more than what is open.
Nested(n, d) ==
  /\ d \in [1 .. Len(Queue(n)) + 1 -> Nat \ {0}]
  /\ d[1] = Standing(n)
  /\ \A a \in 1 .. Len(Queue(n)) : d[a + 1] = DepthAfter(d[a], instances[Queue(n)[a]].kind)
  /\ d[Len(Queue(n)) + 1] = Len(Open(n))

Nestings ==
  \A n \in 2 .. Depth :
    /\ \E d : Nested(n, d)
    /\ Open(n)[1] = Inst(n)
    /\ instances[Inst(n)].kind # "set" => Len(Open(n)) = 1

\* A command has closed its batches when it returns from execute.
Spinning ==
  \A t \in Threads : \A k, i : Does(t, k, "spin", i) =>
    \A n \in 1 .. Depth : Inst(n) = i => Len(Open(n)) = 1

\* The status of an instance says where it is.
Statuses ==
  /\ \A i \in Ids : InQueue(i) => instances[i].status = "Queued"
  /\ \A i \in Ids : InFrame(i) \/ InGroup(i) => instances[i].status = "Running"
  /\ \A t \in Threads : \A k, i : \A at \in Holding : Does(t, k, at, i) =>
       /\ i \in Ids /\ instances[i].status = "Running"
       /\ ~InFrame(i) /\ ~InGroup(i)
       /\ at = "undoRedo" <=> instances[i].kind = "undoRedo"
       /\ \A u \in Threads : \A l : \A a \in Holding : Does(u, l, a, i) => t = u /\ k = l

\* Instances are queued in the order of their ids.
QueueOrder ==
  /\ \A n \in 1 .. Depth : \A a, b \in 1 .. Len(Queue(n)) : a < b => Queue(n)[a] < Queue(n)[b]
  /\ \A n \in 1 .. Depth - 1 : \A a \in 1 .. Len(Queue(n)) : Inst(n + 1) < Queue(n)[a]

\* No instance is lost.
Accounted ==
  \A i \in Ids : instances[i].kind # "undoRedo" =>
    Finished(i) \/ InQueue(i) \/ InFrame(i) \/ InGroup(i) \/ LeftBehind(i)

\* FifoCompletion, also when both are still rolled back.
Fifo ==
  \A i, j \in Ids :
    /\ i < j /\ instances[i].home = instances[j].home
    /\ instances[i].kind = "set" /\ instances[j].kind = "set" /\ Finished(j)
    => Finished(i)

\* The frame of a command stays until its sub commands are finished.
HomeThere ==
  \A i \in Ids : instances[i].home # Root =>
    InFrame(instances[i].home) \/ Finished(i) \/ LeftBehind(i)

Placed == Homes /\ Grouped /\ Nestings /\ Spinning /\ QueueOrder
Ordered == Statuses /\ Accounted /\ Fifo /\ HomeThere
OInv == Recorded /\ OwnerActs /\ Placed /\ Ordered
-----------------------------------------------------------------------------
(* The kinds of steps *)

SameTables == Follows(instances', instances) /\ NoNewChild(instances', instances)
SameHistory == UNCHANGED <<history, pendingHistory>>

\* Nothing is queued, started or finished.  A command that returns begins to spin when
\* its batches are closed; an error code is set while the command still runs.
Neutral ==
  /\ FramesKept /\ SameTables /\ SameHeld
  /\ \A j \in Ids : /\ instances'[j].status = instances[j].status
                    /\ \/ instances'[j].error = instances[j].error
                       \/ instances[j].status = "Running"
  /\ \A t \in Threads : \A k, i : Does(t, k, "spin", i)' =>
       \/ Does(t, k, "spin", i)
       \/ \A n \in 1 .. Depth : Inst(n) = i => Len(Open(n)) = 1
  /\ SameHistory \/ TakePending \/ RemoveCall

\* An instance is queued on frame k; batches are begun and closed by a command that runs.
Queueing(k, kind, class, target) ==
  /\ Enqueued(k, kind, class, target) /\ SameHeld /\ NoNewSpin /\ SameHistory
  /\ kind # "set" /\ k > 1 =>
       /\ instances[Inst(k)].kind = "set"
       /\ \A t \in Threads : \A l : ~Does(t, l, "spin", Inst(k))
       /\ kind \in {"end", "abort"} => Len(Open(k)) > 1
  /\ kind = "undoRedo" => Inst(k) = Root /\ class = UndoRedoClass

\* An instance gets its frame ...
Taking(L, i) ==
  /\ Taken(L, i) /\ i \in Ids /\ instances[i].kind # "undoRedo"
  /\ Follows(instances', instances)
  /\ \A j \in Ids : \A k \in DOMAIN instances'[j].children :
       \/ \E l \in DOMAIN instances[j].children :
            instances'[j].children[k] = instances[j].children[l]
       \/ instances'[j].children[k] = i /\ Last(Groups(L)) # Root
  /\ SameHeld /\ NoNewSpin /\ SameHistory

\* ... or is a job, which has none.
Starting(t, k, L, i) ==
  /\ Dequeued(L, i) /\ Depth' = L /\ Groups(L)' = Groups(L)
  /\ t \in Threads /\ i \in Ids /\ instances[i].kind = "undoRedo"
  /\ SameTables /\ HeldGained(t, k, "undoRedo", i) /\ NoNewSpin /\ SameHistory

\* The frame of a command that spins goes; done is complete, or will be rolled back.
Popping(L, closes, done) ==
  /\ Popped(L, closes) /\ Queue(L) = <<>>
  /\ \E t \in Threads : \E k : Does(t, k, "spin", Inst(L))
  /\ closes \in BOOLEAN /\ (closes <=> Closing(Inst(L)) /\ Last(Groups(L - 1)) # Root)
  /\ done = IF closes THEN Last(Groups(L - 1)) ELSE Inst(L)
  /\ SameTables /\ NoNewSpin /\ UNCHANGED history
  /\ \A j \in Ids : j # done => instances'[j].error = instances[j].error
  /\ \/ /\ instances[Inst(L)].kind = "begin" /\ SameHeld /\ UNCHANGED pendingHistory
        /\ \A j \in Ids : instances'[j].status = instances[j].status
     \/ /\ instances[Inst(L)].kind # "begin" /\ SameHeld
        /\ \A j \in Ids :
             instances'[j].status = IF j = done THEN "Complete" ELSE instances[j].status
        /\ \/ UNCHANGED pendingHistory
           \/ /\ Last(Groups(L - 1)') = Root /\ pendingHistory' = Append(pendingHistory, done)
              /\ done \in Ids => instances'[done].error # "failed"
     \/ /\ instances[Inst(L)].kind # "begin" /\ UNCHANGED pendingHistory
        /\ \E t \in Threads : \E k : HeldGained(t, k, "rollback", done)
        /\ \A j \in Ids : instances'[j].status = instances[j].status

\* A roll back or a job ends.
Finishing(t, k, at, i) ==
  /\ FramesKept /\ SameTables /\ at \in Holding /\ t \in Threads
  /\ HeldLost(t, k, at, i) /\ NoNewSpin /\ SameHistory
  /\ \A j \in Ids : /\ instances'[j].status = IF j = i THEN "Complete" ELSE instances[j].status
                    /\ instances'[j].error = instances[j].error

StepKind ==
  \/ Neutral
  \/ \E k, kind, class, target : Queueing(k, kind, class, target)
  \/ \E L, i : Taking(L, i)
  \/ \E t, k, L, i : Starting(t, k, L, i)
  \/ \E L, closes, done : Popping(L, closes, done)
  \/ \E t, k, at, i : Finishing(t, k, at, i)

\* Steps that change neither frames nor instances, and start or end nothing.
LEMMA NeutralQuiet ==
  ASSUME IInv, Recorded, UNCHANGED <<commandFrames, instances>>, SameHeld, NoNewSpin,
         SameHistory \/ TakePending \/ RemoveCall
  PROVE  Neutral
<1>1. Follows(instances', instances)
  BY InstancesTable, FollowsItself
<1>2. FramesKept
  BY DEF FramesKept, Depth, Inst, Queue, Groups, Open
<1> QED
  BY <1>1, <1>2 DEF Neutral, SameTables, NoNewChild, NoNewSpin

\* The activations stay.
LEMMA StackKept ==
  ASSUME UNCHANGED stack
  PROVE  SameHeld /\ NoNewSpin
BY DEF SameHeld, NoNewSpin, Does

\* setValue, and the end of a roll back that uses it.
LEMMA WriteTables ==
  ASSUME IInv, Recorded, NEW t, NEW written, NEW doc, NEW new, NEW i, NEW x, NEW table,
         table = WriteProps(t, instances, written, doc, new)
  PROVE  /\ instances' = SetWrote(table, i, x) =>
              SameTables /\ SameProgress(instances', instances)
         /\ instances' = SetStatus(table, i, "Complete") =>
              /\ SameTables
              /\ \A j \in Ids :
                   /\ instances'[j].status = IF j = i THEN "Complete" ELSE instances[j].status
                   /\ instances'[j].error = instances[j].error
<1>1. Follows(table, instances) /\ SameProgress(table, instances)
  BY WritePropsFollows
<1>2. Table(table)
  BY <1>1 DEF Follows
<1>3. ASSUME instances' = SetWrote(table, i, x)
      PROVE  SameTables /\ SameProgress(instances', instances)
  <2>1. Follows(instances', table) /\ SameProgress(instances', table)
    BY <1>2, <1>3, WroteUpdate DEF SameProgress
  <2>2. Follows(instances', instances)
    BY <1>1, <2>1, FollowsOn
  <2> QED
    BY <1>1, <2>1, <2>2 DEF SameTables, NoNewChild, SameProgress
<1>4. ASSUME instances' = SetStatus(table, i, "Complete")
      PROVE  /\ SameTables
             /\ \A j \in Ids :
                  /\ instances'[j].status = IF j = i THEN "Complete" ELSE instances[j].status
                  /\ instances'[j].error = instances[j].error
  <2>1. /\ Follows(instances', table)
        /\ \A j \in Ids : /\ instances'[j].status = IF j = i THEN "Complete" ELSE table[j].status
                          /\ instances'[j].error = table[j].error
                          /\ instances'[j].children = table[j].children
    BY <1>2, <1>4, StatusUpdate
  <2>2. Follows(instances', instances)
    BY <1>1, <2>1, FollowsOn
  <2> QED
    BY <1>1, <2>1, <2>2 DEF SameTables, NoNewChild, SameProgress
<1> QED
  BY <1>3, <1>4

LEMMA ExecWriteKind ==
  ASSUME IInv, Recorded, NEW t \in Threads, ExecWrite(t)
  PROVE  Neutral
<1>1. PICK p \in Props :
        instances' = SetWrote(WriteProps(t, instances, {p}, document,
                                         [document EXCEPT ![p] = Top(t).inst]),
                              Top(t).inst, TRUE)
  BY DEF ExecWrite, SetWrote
<1>2. SameTables /\ SameProgress(instances', instances)
  BY <1>1, WriteTables
<1>3. FramesKept
  BY DEF ExecWrite, FramesKept, Depth, Inst, Queue, Groups, Open
<1>4. SameHeld /\ NoNewSpin /\ SameHistory
  BY StackKept DEF ExecWrite, SameHistory, historyVars
<1> QED
  BY <1>2, <1>3, <1>4 DEF Neutral, SameProgress, NoNewSpin

\* execute() returns.
LEMMA ExecuteKind ==
  ASSUME IInv, OInv, NEW t \in Threads, Execute(t)
  PROVE  Neutral
<1> DEFINE i == Top(t).inst
           act == [Top(t) EXCEPT !.at = "spin"]
           entry == [mergeable |-> ~instances[i].class.custom, helpers |-> instances[i].own]
<1> PICK a : a = Len(stack[t])
  OBVIOUS
<1>1. /\ Running(t) /\ Top(t).at = "exec" /\ ReplaceTop(t, <<act>>) /\ SameHistory
      /\ UNCHANGED commandFrames
      /\ instances[i].kind = "set" => Len(Frame(i).stackQueue) = 1
  BY DEF Execute, At, SameHistory, historyVars
<1>2. PICK e : instances' = [instances EXCEPT ![i].error = e, ![i].data = Append(@, entry)]
  BY DEF Execute
<1>3. StackShape /\ Listed(<<act>>) /\ Len(<<act>>) = 1
  BY TuplesListed DEF IInv, Shape
<1>4. Above(t, a - 1, <<act>>) /\ a > 0 /\ Top(t) = stack[t][a]
  BY <1>1, <1>3, ReplaceAbove
<1>5. /\ a \in Nat /\ DOMAIN stack[t] = 1 .. a /\ DOMAIN stack'[t] = 1 .. a
      /\ \A u \in Threads : u # t => stack'[u] = stack[u]
      /\ \A k \in 1 .. a - 1 : stack'[t][k] = stack[t][k]
      /\ stack'[t][a] = act
  BY <1>3, <1>4 DEF Above
<1>6. a \in DOMAIN stack[t] /\ a \in Owning(t)
  BY <1>1, <1>4, <1>5 DEF Owning
<1>7. act.at = "spin" /\ act.inst = i
  <2>1. ActivationRecord(Top(t))
    BY <1>3, <1>4, <1>6 DEF StackShape
  <2> QED
    BY <2>1 DEF ActivationRecord
<1>8. PICK n \in 2 .. Depth : Inst(n) = i
  BY <1>4, <1>6 DEF IInv, Owned, Depth, Inst
<1>9. \A m \in 1 .. Depth : Inst(m) = i => m = n
  BY <1>8, ShapeSized DEF IInv, Distinct, Inst, FramesSized
<1>10. Len(Open(n)) = 1
  <2>1. CASE instances[i].kind = "set"
    <3>1. n \in DOMAIN commandFrames
      BY ShapeSized DEF FramesSized
    <3>2. FrameIndex(i) = n
      BY <1>8, <1>9, <3>1, ShapeSized DEF FrameIndex, Inst, FramesSized
    <3> QED
      BY <1>1, <2>1, <3>2 DEF Frame, Open
  <2>2. CASE instances[i].kind # "set"
    BY <1>8, <2>2 DEF OInv, Placed, Nestings
  <2> QED
    BY <2>1, <2>2
<1> HIDE DEF act
<1>11. \A k, at, j : Does(t, k, at, j) /\ k # a <=> Does(t, k, at, j)' /\ k # a
  BY <1>5 DEF Does
<1>12. \A u \in Threads : \A k, at, j : u # t => (Does(u, k, at, j)' <=> Does(u, k, at, j))
  BY <1>5 DEF Does
<1>13. \A at, j : /\ Does(t, a, at, j) => at = "exec"
                  /\ Does(t, a, at, j)' => at = "spin" /\ j = i
  BY <1>1, <1>4, <1>5, <1>7 DEF Does
<1>14. SameHeld
  <2>1. ASSUME NEW u \in Threads, NEW k, NEW j, NEW at \in Holding
        PROVE  Does(u, k, at, j)' <=> Does(u, k, at, j)
    <3>1. CASE u # t
      BY <1>12, <3>1
    <3>2. CASE u = t /\ k # a
      BY <1>11, <3>2
    <3>3. CASE u = t /\ k = a
      BY <1>13, <3>3 DEF Holding
    <3> QED
      BY <3>1, <3>2, <3>3
  <2> QED
    BY <2>1 DEF SameHeld
<1>15. ASSUME NEW u \in Threads, NEW k, NEW j, Does(u, k, "spin", j)'
       PROVE  \/ Does(u, k, "spin", j)
              \/ \A m \in 1 .. Depth : Inst(m) = j => Len(Open(m)) = 1
  <2>1. CASE u = t /\ k = a
    <3>1. j = i
      BY <1>13, <1>15, <2>1
    <3> QED
      BY <1>9, <1>10, <3>1
  <2>2. CASE u = t /\ k # a
    BY <1>11, <1>15, <2>2
  <2>3. CASE u # t
    BY <1>12, <1>15, <2>3
  <2> QED
    BY <2>1, <2>2, <2>3
<1>16. FramesKept
  BY <1>1 DEF FramesKept, Depth, Inst, Queue, Groups, Open
<1>17. /\ SameTables
       /\ \A j \in Ids : /\ instances'[j].status = instances[j].status
                         /\ j # i => instances'[j].error = instances[j].error
  <2> DEFINE failed == SetError(instances, i, e)
             data == Append(instances[i].data, entry)
  <2>1. instances' = SetData(failed, i, data)
    <3>1. i \in DOMAIN instances => failed[i].data = instances[i].data
      BY DEF SetError, OInv, Recorded, InstanceRecord, Ids
    <3> HIDE DEF entry
    <3> QED
      BY <1>2, <3>1 DEF SetError, SetData
  <2> HIDE DEF data, i
  <2>2. Table(instances)
    BY InstancesTable DEF OInv
  <2>3. /\ Follows(failed, instances)
        /\ \A j \in Ids : /\ failed[j].status = instances[j].status
                          /\ failed[j].error = IF j = i THEN e ELSE instances[j].error
                          /\ failed[j].children = instances[j].children
    BY <2>2, ErrorUpdate
  <2> HIDE DEF failed
  <2>4. /\ Follows(instances', failed)
        /\ \A j \in Ids : /\ instances'[j].status = failed[j].status
                          /\ instances'[j].error = failed[j].error
                          /\ instances'[j].children = failed[j].children
    BY <2>1, <2>3, DataUpdate DEF Follows
  <2>5. Follows(instances', instances)
    BY <2>3, <2>4, FollowsOn
  <2> QED
    BY <2>3, <2>4, <2>5 DEF SameTables, NoNewChild
<1>18. i \in Ids => instances[i].status = "Running"
  <2>1. InFrame(i)
    BY <1>8, ShapeSized DEF InFrame, FramesSized
  <2> QED
    BY <2>1 DEF OInv, Ordered, Statuses
<1> HIDE DEF i
<1> QED
  BY <1>1, <1>14, <1>15, <1>16, <1>17, <1>18 DEF Neutral

\* What the caller of queueCommand does next holds nothing either.
LEMMA PlainConcat ==
  ASSUME NEW rest, Plain(rest)
  PROVE  Plain(rest \o <<Act("loop", Root)>>)
<1>1. Listed(rest) /\ Listed(<<Act("loop", Root)>>) /\ Len(<<Act("loop", Root)>>) = 1
  BY TuplesListed DEF Plain
<1> DEFINE acts == rest \o <<Act("loop", Root)>>
<1>2. /\ Listed(acts) /\ Len(rest) \in Nat /\ Len(acts) = Len(rest) + 1
      /\ \A k \in 1 .. Len(rest) : acts[k] = rest[k]
      /\ \A k \in Len(rest) + 1 .. Len(rest) + 1 : acts[k] = <<Act("loop", Root)>>[k - Len(rest)]
  BY <1>1, ListedConcat
<1> HIDE DEF acts
<1>3. acts[Len(rest) + 1] = Act("loop", Root)
  BY <1>2
<1>4. \A k \in 1 .. Len(acts) : k \in 1 .. Len(rest) \/ k = Len(rest) + 1
  BY <1>2
<1>5. Act("loop", Root).at \notin Holding \cup {"spin"}
  BY ActFields DEF Holding
<1> QED
  BY <1>2, <1>3, <1>4, <1>5 DEF Plain, acts

\* A thread that runs no command works on the root frame.
LEMMA RootFrame ==
  ASSUME IInv, Owning(Owner) = {}
  PROVE  currentFrame[Owner] = Root
BY DEF IInv, Chained, Innermost, Threads

\* Which frame a command that executes works on.
LEMMA ExecutingFrame ==
  ASSUME IInv, NEW t \in Threads, At(t, "exec")
  PROVE  /\ currentFrame[t] = Top(t).inst /\ Len(stack[t]) \in Owning(t)
         /\ Top(t) = stack[t][Len(stack[t])]
         /\ \A u \in Threads : \A l : ~Does(u, l, "spin", Top(t).inst)
<1>1. DOMAIN stack[t] = 1 .. Len(stack[t]) /\ Len(stack[t]) \in Nat /\ Len(stack[t]) > 0
  BY OwningDomain DEF At, Running, IInv, Shape, StackShape, Listed
<1>2. Top(t) = stack[t][Len(stack[t])]
  BY DEF Top, Last
<1>3. Len(stack[t]) \in Owning(t)
  BY <1>1, <1>2 DEF Owning, At
<1>4. \A k \in Owning(t) : k \in Nat /\ k <= Len(stack[t])
  BY OwningDomain DEF IInv, Shape
<1>5. PICK j \in Owning(t) : currentFrame[t] = stack[t][j].inst /\ \A l \in Owning(t) : l <= j
  BY <1>3 DEF IInv, Chained, Innermost
<1>6. j = Len(stack[t])
  BY <1>1, <1>3, <1>4, <1>5
<1>7. ASSUME NEW u \in Threads, NEW l, Does(u, l, "spin", Top(t).inst) PROVE FALSE
  <2>1. l \in Owning(u) /\ stack[u][l].inst = Top(t).inst
    BY <1>7 DEF Does, Owning
  <2>2. u = t /\ l = Len(stack[t])
    BY <1>2, <1>3, <2>1 DEF IInv, Distinct, OneOwner
  <2> QED
    BY <1>2, <1>7, <2>2 DEF Does, At
<1> QED
  BY <1>2, <1>3, <1>5, <1>6, <1>7

\* queueCommand.
LEMMA QueueCommandKind ==
  ASSUME IInv, NEW t \in Threads, t = Owner \/ Owning(t) # {},
         NEW kind, NEW class, NEW target, NEW rest, Plain(rest),
         QueueCommand(t, kind, class, target, rest), SameHistory, kind # "undoRedo",
         \/ kind = "set"
         \/ t = Owner /\ Owning(t) = {}
         \/ /\ Executing(t)
            /\ kind \in {"end", "abort"} => Len(Frame(Top(t).inst).stackQueue) > 1
  PROVE  \E k : Queueing(k, kind, class, target)
<1>1. PICK k \in 1 .. Depth : Inst(k) = currentFrame[t] /\ Enqueued(k, kind, class, target)
  BY QueueCommandEffect
<1>2. SameHeld /\ NoNewSpin
  <2>1. Push(t, rest \o <<Act("loop", Root)>>) /\ Plain(rest \o <<Act("loop", Root)>>)
    BY PlainConcat DEF QueueCommand
  <2> QED
    BY <2>1, PlainStacks DEF IInv, Shape
<1>3. ASSUME kind # "set", k > 1
      PROVE  /\ instances[Inst(k)].kind = "set"
             /\ \A u \in Threads : \A l : ~Does(u, l, "spin", Inst(k))
             /\ kind \in {"end", "abort"} => Len(Open(k)) > 1
  <2>1. FramesSized /\ k \in DOMAIN commandFrames
    BY ShapeSized DEF FramesSized
  <2>2. ~(t = Owner /\ Owning(t) = {})
    <3>1. 1 \in DOMAIN commandFrames /\ commandFrames[1].instance = Root
      BY <2>1 DEF FramesSized, IInv, Owned
    <3>2. Inst(k) # Root
      BY <1>3, <2>1, <3>1 DEF IInv, Distinct, Inst
    <3> QED
      BY <1>1, <3>2, RootFrame
  <2>3. Executing(t) /\ (kind \in {"end", "abort"} => Len(Frame(Top(t).inst).stackQueue) > 1)
    BY <1>3, <2>2
  <2>4. /\ currentFrame[t] = Top(t).inst
        /\ \A u \in Threads : \A l : ~Does(u, l, "spin", Top(t).inst)
    BY <2>3, ExecutingFrame DEF Executing
  <2>5. FrameIndex(Top(t).inst) = k
    BY <1>1, <2>1, <2>4 DEF FrameIndex, Inst, IInv, Distinct
  <2> QED
    BY <1>1, <2>3, <2>4, <2>5 DEF Executing, Frame, Open
<1>4. Queueing(k, kind, class, target)
  BY <1>1, <1>2, <1>3 DEF Queueing
<1> QED
  BY <1>4

\* moveCommandIndex.
LEMMA MoveCommandIndexKind ==
  ASSUME IInv, OwnerActs, NEW target, MoveCommandIndex(target),
         stack[Owner] = <<>> \/ At(Owner, "undo") \/ At(Owner, "redo")
  PROVE  /\ \E k : Queueing(k, "undoRedo", UndoRedoClass, target)
         /\ Above(Owner, 0, <<Act("move", Root), Act("waitStart", Len(instances) + 1),
                              Act("loop", Root)>>)
<1> DEFINE acts == <<Act("move", Root), Act("waitStart", Len(instances) + 1), Act("loop", Root)>>
           kept == IF stack[Owner] = <<>> THEN <<>> ELSE Front(stack[Owner])
<1>1. StackShape /\ Owner \in Threads /\ Listed(stack[Owner])
  BY DEF IInv, Shape, StackShape, Threads
<1>2. /\ Len(stack[Owner]) \in Nat /\ DOMAIN stack[Owner] = 1 .. Len(stack[Owner])
      /\ Top(Owner) = stack[Owner][Len(stack[Owner])]
  BY <1>1, OwningDomain DEF Top, Last
<1>3. stack[Owner] # <<>> => Len(stack[Owner]) = 1
  <2> SUFFICES ASSUME stack[Owner] # <<>> PROVE Len(stack[Owner]) = 1
    OBVIOUS
  <2>1. Len(stack[Owner]) > 0
    BY <1>1 DEF Listed
  <2>2. Len(stack[Owner]) \in DOMAIN stack[Owner]
    BY <1>2, <2>1
  <2>3. stack[Owner][Len(stack[Owner])].at \in {"undo", "redo"}
    BY <1>2 DEF At
  <2> QED
    BY <1>1, <2>2, <2>3 DEF OwnerActs
<1>4. Listed(kept) /\ Len(kept) = 0
  <2>1. CASE stack[Owner] = <<>>
    BY <2>1, TuplesListed
  <2>2. CASE stack[Owner] # <<>>
    <3>1. Listed(Front(stack[Owner])) /\ Len(Front(stack[Owner])) = Len(stack[Owner]) - 1
      BY <1>1, <2>2, ListedFront
    <3>2. kept = Front(stack[Owner])
      BY <2>2
    <3>3. Len(stack[Owner]) - 1 = 0
      BY <1>3, <2>2
    <3> HIDE DEF kept
    <3> QED
      BY <3>1, <3>2, <3>3
  <2> QED
    BY <2>1, <2>2
<1>5. stack' = [stack EXCEPT ![Owner] = kept \o acts]
  BY <1>1 DEF MoveCommandIndex
<1> HIDE DEF kept
<1>6. Listed(acts) /\ Plain(acts)
  BY TuplesListed, PlainActs, ActFields DEF PlainAct, Holding
<1> HIDE DEF acts
<1>7. Len(kept) <= Len(stack[Owner]) /\ \A k \in 1 .. Len(kept) : kept[k] = stack[Owner][k]
  BY <1>2, <1>4
<1>8. Above(Owner, 0, acts)
  BY <1>1, <1>4, <1>5, <1>6, <1>7, AboveConcat
<1>9. \A k \in 1 .. Len(stack[Owner]) : stack[Owner][k].at \in {"undo", "redo"}
  BY <1>2, <1>3 DEF At, Running
<1>10. SameHeld /\ NoNewSpin
  <2>1. \A k \in 0 + 1 .. Len(stack[Owner]) : stack[Owner][k].at \notin Holding
    BY <1>9 DEF Holding
  <2> QED
    BY <1>1, <1>6, <1>8, <2>1, AbovePlain
<1>11. currentFrame[Owner] = Root
  BY <1>2, <1>9, RootFrame DEF Owning
<1>12. PICK k \in 1 .. Depth :
         Inst(k) = currentFrame[Owner] /\ Enqueued(k, "undoRedo", UndoRedoClass, target)
  BY MoveCommandIndexEffect
<1>13. k > 1 => FALSE
  <2>1. FramesSized /\ commandFrames[1].instance = Root
    BY ShapeSized DEF IInv, Owned
  <2> QED
    BY <1>11, <1>12, <2>1 DEF IInv, Distinct, Inst, FramesSized
<1>14. Queueing(k, "undoRedo", UndoRedoClass, target)
  BY <1>10, <1>11, <1>12, <1>13 DEF Queueing, SameHistory, MoveCommandIndex
<1> QED
  BY <1>8, <1>14 DEF acts

LEMMA TakeCommandKind ==
  ASSUME IInv, Recorded, NEW t \in Threads, TakeCommand(t)
  PROVE  \E L, i : Taking(L, i)
<1>1. PICK L \in Nat, i \in Nat :
           /\ Taken(L, i) /\ i \in Ids /\ instances[i].kind # "undoRedo"
           /\ Follows(instances', instances)
           /\ \A j \in Ids : \A k \in DOMAIN instances'[j].children :
                \/ \E l \in DOMAIN instances[j].children :
                     instances'[j].children[k] = instances[j].children[l]
                \/ instances'[j].children[k] = i /\ Last(Groups(L)) # Root
           /\ Push(t, <<[Act("exec", i) EXCEPT !.prev = currentFrame[t]]>>)
  BY TakeCommandEffect
<1>2. SameHeld /\ NoNewSpin
  <2>1. Plain(<<[Act("exec", i) EXCEPT !.prev = currentFrame[t]]>>)
    <3>1. [Act("exec", i) EXCEPT !.prev = currentFrame[t]].at = "exec"
      BY ActFields
    <3>2. PlainAct([Act("exec", i) EXCEPT !.prev = currentFrame[t]])
      BY <3>1 DEF PlainAct, Holding
    <3> QED
      BY <3>2, PlainActs
  <2> QED
    BY <1>1, <2>1, PlainStacks DEF IInv, Shape
<1>3. SameHistory
  BY DEF TakeCommand, SameHistory, historyVars
<1>4. Taking(L, i)
  BY <1>1, <1>2, <1>3 DEF Taking
<1> QED
  BY <1>4

LEMMA TakeUndoRedoKind ==
  ASSUME IInv, Recorded, NEW t \in Threads, TakeUndoRedo(t)
  PROVE  \E k, L, i : Starting(t, k, L, i)
<1>1. PICK L \in Nat, i \in Nat :
           /\ Dequeued(L, i) /\ Depth' = L /\ Groups(L)' = Groups(L)
           /\ i \in Ids /\ instances[i].kind = "undoRedo" /\ CanRun(t, i)
           /\ Follows(instances', instances) /\ NoNewChild(instances', instances)
           /\ Push(t, <<Act("undoRedo", i), Act("flush", Root)>>)
  BY TakeUndoRedoEffect
<1> DEFINE acts == <<Act("undoRedo", i), Act("flush", Root)>>
<1>2. Listed(acts) /\ Len(acts) = 2 /\ acts[1].at = "undoRedo" /\ acts[1].inst = i
      /\ \A k \in 2 .. 2 : acts[k].at = "flush"
  BY TuplesListed, ActFields
<1>3. Push(t, acts) /\ StackShape
  BY <1>1 DEF IInv, Shape
<1> HIDE DEF acts
<1>4. Above(t, Len(stack[t]), acts) /\ Len(stack[t]) \in Nat
  BY <1>2, <1>3, PushAbove, OwningDomain
<1>5. /\ \A k \in 2 .. Len(acts) : acts[k].at \notin Holding \cup {"spin"}
      /\ \A k \in Len(stack[t]) + 1 .. Len(stack[t]) : stack[t][k].at \notin Holding
  BY <1>2, <1>4 DEF Holding
<1>6. HeldGained(t, Len(stack[t]) + 1, "undoRedo", i) /\ NoNewSpin
  <2>1. Len(acts) > 0 /\ "undoRedo" \in Holding
    BY <1>2 DEF Holding
  <2> QED
    BY <1>2, <1>4, <1>5, <2>1, AboveGains
<1>7. SameHistory
  BY DEF TakeUndoRedo, SameHistory, historyVars
<1>8. Starting(t, Len(stack[t]) + 1, L, i)
  BY <1>1, <1>6, <1>7 DEF Starting, SameTables
<1> QED
  BY <1>8

LEMMA PopFrameKind ==
  ASSUME IInv, OInv, NEW t \in Threads, PopFrame(t)
  PROVE  \E L, closes, done : Popping(L, closes, done)
<1>1. \A n \in 1 .. Depth : Groups(n) # <<>>
  BY DEF OInv, Placed, Grouped
<1>2. PICK L, closes, done :
           /\ L \in Nat /\ closes \in BOOLEAN
           /\ Popped(L, closes) /\ Inst(L) = Top(t).inst /\ Queue(L) = <<>>
           /\ closes <=> instances[Inst(L)].kind \in {"end", "abort"} /\ Last(Groups(L - 1)) # Root
           /\ done = IF closes THEN Last(Groups(L - 1)) ELSE Inst(L)
           /\ Follows(instances', instances) /\ NoNewChild(instances', instances)
           /\ \A j \in Ids : j # done => instances'[j].error = instances[j].error
           /\ IF instances[Inst(L)].kind = "begin" THEN LeftOpen(t, done)
              ELSE Completed(t, done, Last(Groups(L - 1)')) \/ GivenUp(t, done)
  BY <1>1, PopFrameEffect DEF OInv
<1>3. Running(t) /\ Top(t).at = "spin" /\ StackShape /\ UNCHANGED history
  BY DEF PopFrame, At, IInv, Shape, historyVars
<1>4. Does(t, Len(stack[t]), "spin", Inst(L))
  <2>1. Len(stack[t]) \in Owning(t) /\ Top(t) = stack[t][Len(stack[t])]
    BY PopReached DEF PopFrame
  <2> QED
    BY <1>2, <1>3, <2>1 DEF Does, Owning
<1>5. Pop(t) => SameHeld /\ NoNewSpin
  BY <1>3, PlainStacks, PlainActs DEF Holding
<1>6. GivenUp(t, done) => NoNewSpin /\ \E k : HeldGained(t, k, "rollback", done)
  <2> SUFFICES ASSUME GivenUp(t, done) PROVE NoNewSpin /\ \E k : HeldGained(t, k, "rollback", done)
    OBVIOUS
  <2> DEFINE acts == <<Act("rollback", done)>>
  <2>1. Listed(acts) /\ Len(acts) = 1 /\ acts[1].at = "rollback" /\ acts[1].inst = done
    BY TuplesListed, ActFields
  <2>2. ReplaceTop(t, acts)
    BY DEF GivenUp
  <2> HIDE DEF acts
  <2>3. /\ Above(t, Len(stack[t]) - 1, acts) /\ Len(stack[t]) \in Nat
        /\ Len(stack[t]) > 0 /\ Top(t) = stack[t][Len(stack[t])]
    BY <1>3, <2>1, <2>2, ReplaceAbove, OwningDomain
  <2>4. \A k \in (Len(stack[t]) - 1) + 1 .. Len(stack[t]) : stack[t][k].at \notin Holding
    BY <1>3, <2>3 DEF Holding
  <2>5. /\ \A k \in 2 .. Len(acts) : acts[k].at \notin Holding \cup {"spin"}
        /\ Len(acts) > 0 /\ "rollback" \in Holding
    BY <2>1 DEF Holding
  <2> QED
    BY <2>1, <2>3, <2>4, <2>5, AboveGains
<1>7. /\ Popped(L, closes) /\ Queue(L) = <<>>
      /\ \E u \in Threads : \E k : Does(u, k, "spin", Inst(L))
      /\ closes \in BOOLEAN /\ (closes <=> Closing(Inst(L)) /\ Last(Groups(L - 1)) # Root)
      /\ done = IF closes THEN Last(Groups(L - 1)) ELSE Inst(L)
      /\ SameTables /\ UNCHANGED history
      /\ \A j \in Ids : j # done => instances'[j].error = instances[j].error
  BY <1>2, <1>3, <1>4 DEF Closing, SameTables
<1>8. NoNewSpin
  BY <1>2, <1>5, <1>6 DEF LeftOpen, Completed
<1>9. \/ /\ instances[Inst(L)].kind = "begin" /\ SameHeld /\ UNCHANGED pendingHistory
         /\ \A j \in Ids : instances'[j].status = instances[j].status
      \/ /\ instances[Inst(L)].kind # "begin" /\ SameHeld
         /\ \A j \in Ids :
              instances'[j].status = IF j = done THEN "Complete" ELSE instances[j].status
         /\ \/ UNCHANGED pendingHistory
            \/ /\ Last(Groups(L - 1)') = Root /\ pendingHistory' = Append(pendingHistory, done)
               /\ done \in Ids => instances'[done].error # "failed"
      \/ /\ instances[Inst(L)].kind # "begin" /\ UNCHANGED pendingHistory
         /\ \E u \in Threads : \E k : HeldGained(u, k, "rollback", done)
         /\ \A j \in Ids : instances'[j].status = instances[j].status
  <2>1. CASE instances[Inst(L)].kind = "begin"
    BY <1>2, <1>5, <2>1 DEF LeftOpen
  <2>2. CASE instances[Inst(L)].kind # "begin" /\ Completed(t, done, Last(Groups(L - 1)'))
    BY <1>5, <2>2 DEF Completed
  <2>3. CASE instances[Inst(L)].kind # "begin" /\ GivenUp(t, done)
    <3>1. \E k : HeldGained(t, k, "rollback", done)
      BY <1>6, <2>3
    <3> QED
      BY <2>3, <3>1 DEF GivenUp
  <2> QED
    BY <1>2, <2>1, <2>2, <2>3
<1>10. Popping(L, closes, done)
  BY <1>7, <1>8, <1>9 DEF Popping
<1> QED
  BY <1>10

\* The end of a roll back, and of a job.
LEMMA RollbackKind ==
  ASSUME IInv, Recorded, NEW t \in Threads, Rollback(t)
  PROVE  \E k, i : Finishing(t, k, "rollback", i)
<1> DEFINE i == Top(t).inst
<1>1. /\ Running(t) /\ Top(t).at = "rollback" /\ Pop(t) /\ StackShape /\ SameHistory
      /\ UNCHANGED commandFrames
  BY DEF Rollback, At, IInv, Shape, SameHistory, historyVars
<1>2. HeldLost(t, Len(stack[t]), "rollback", i) /\ NoNewSpin
  BY <1>1, PopLoses DEF Holding
<1>3. PICK part : instances' = SetStatus(WriteProps(t, instances, Written(part), document,
                                                    document'), i, "Complete")
  BY DEF Rollback, SetStatus
<1>4. /\ SameTables
      /\ \A j \in Ids : /\ instances'[j].status = IF j = i THEN "Complete" ELSE instances[j].status
                        /\ instances'[j].error = instances[j].error
  <2> HIDE DEF i
  <2> QED
    BY <1>3, WriteTables
<1>5. FramesKept
  BY <1>1 DEF FramesKept, Depth, Inst, Queue, Groups, Open
<1> HIDE DEF i
<1>6. Finishing(t, Len(stack[t]), "rollback", i)
  BY <1>1, <1>2, <1>4, <1>5 DEF Finishing, Holding
<1> QED
  BY <1>6

LEMMA UndoRedoKind ==
  ASSUME IInv, Recorded, UndoRedoDone \/ UndoRedoFails
  PROVE  \E k, i : Finishing(Owner, k, "undoRedo", i)
<1> DEFINE i == Top(Owner).inst
<1>1. /\ Running(Owner) /\ Top(Owner).at = "undoRedo" /\ Pop(Owner) /\ StackShape /\ SameHistory
      /\ UNCHANGED commandFrames /\ Owner \in Threads
      /\ instances' = SetStatus(instances, i, "Complete")
  BY DEF UndoRedoDone, UndoRedoFails, At, IInv, Shape, SameHistory, historyVars, SetStatus, Threads
<1>2. HeldLost(Owner, Len(stack[Owner]), "undoRedo", i) /\ NoNewSpin
  BY <1>1, PopLoses DEF Holding
<1> HIDE DEF i
<1>3. /\ Follows(instances', instances)
      /\ \A j \in Ids : /\ instances'[j].status = IF j = i THEN "Complete" ELSE instances[j].status
                        /\ instances'[j].error = instances[j].error
                        /\ instances'[j].children = instances[j].children
  BY <1>1, InstancesTable, StatusUpdate
<1>4. FramesKept
  BY <1>1 DEF FramesKept, Depth, Inst, Queue, Groups, Open
<1>5. Finishing(Owner, Len(stack[Owner]), "undoRedo", i)
  BY <1>1, <1>2, <1>3, <1>4 DEF Finishing, Holding, SameTables, NoNewChild
<1> QED
  BY <1>5

\* New activations outside a command hold nothing.
LEMMA ActsPlain ==
  ASSUME NEW a, NEW i, a \notin Holding \cup {"spin"}
  PROVE  /\ Plain(<<Act(a, i)>>)
         /\ \A x : Plain(<<[Act(a, i) EXCEPT !.before = x]>>)
         /\ \A b, j : b \notin Holding \cup {"spin"} => Plain(<<Act(a, i), Act(b, j)>>)
<1>1. \A b, j : b \notin Holding \cup {"spin"} => PlainAct(Act(b, j))
  BY ActFields DEF PlainAct
<1>2. PlainAct(Act(a, i)) /\ \A x : PlainAct([Act(a, i) EXCEPT !.before = x])
  BY ActFields DEF PlainAct
<1> QED
  BY <1>1, <1>2, PlainActs

LEMMA WaitActPlain ==
  ASSUME NEW t, NEW i
  PROVE  Plain(<<WaitAct(t, i)>>)
BY ActsPlain DEF WaitAct, Holding

\* Every step of a thread is of one of the kinds ...
LEMMA ThreadKind ==
  ASSUME IInv, OInv, NEW t \in Threads, ThreadStep(t)
  PROVE  StepKind
<1> USE DEF At
<1>1. StackShape /\ Recorded
  BY DEF IInv, Shape, OInv
<1>2. CASE LoopEnds(t)
  <2>1. SameHeld /\ NoNewSpin
    BY <1>1, <1>2, PlainStacks, PlainActs DEF LoopEnds, Holding
  <2>2. SameHistory \/ TakePending
    BY <1>2 DEF LoopEnds, SameHistory, historyVars
  <2> QED
    BY <1>1, <1>2, <2>1, <2>2, NeutralQuiet DEF LoopEnds, StepKind
<1>3. CASE TakeCommand(t)
  BY <1>1, <1>3, TakeCommandKind DEF StepKind
<1>4. CASE TakeUndoRedo(t)
  BY <1>1, <1>4, TakeUndoRedoKind DEF StepKind
<1>5. CASE ExecWrite(t)
  BY <1>1, <1>5, ExecWriteKind DEF StepKind
<1>6. Executing(t) => Owning(t) # {}
  BY ExecutingFrame DEF Executing
<1>7. CASE ExecQueue(t)
  <2>1. PICK c \in Classes : QueueCommand(t, "set", c, NoSelection, <<>>)
    BY <1>7 DEF ExecQueue
  <2>2. SameHistory /\ Executing(t)
    BY <1>7 DEF ExecQueue, SameHistory, historyVars
  <2>3. \E k : Queueing(k, "set", c, NoSelection)
    BY <1>6, <2>1, <2>2, PlainActs, QueueCommandKind
  <2> QED
    BY <2>3 DEF StepKind
<1>8. CASE ExecBatch(t)
  <2>1. SameHistory /\ Executing(t)
    BY <1>8 DEF ExecBatch, SameHistory, historyVars
  <2>2. PICK kind : /\ QueueCommand(t, kind, BatchClass, NoSelection, <<>>)
                    /\ kind \in {"begin", "end", "abort"}
                    /\ kind # "begin" => Len(Frame(Top(t).inst).stackQueue) > 1
    BY <1>8 DEF ExecBatch, Closers
  <2>3. kind # "undoRedo" /\ (kind \in {"end", "abort"} => Len(Frame(Top(t).inst).stackQueue) > 1)
    BY <2>2
  <2>4. \E k : Queueing(k, kind, BatchClass, NoSelection)
    BY <1>6, <2>1, <2>2, <2>3, PlainActs, QueueCommandKind
  <2> QED
    BY <2>4 DEF StepKind
<1>9. CASE ExecWait(t)
  <2>1. \E c : Push(t, <<WaitAct(t, c)>>)
    BY <1>9 DEF ExecWait
  <2>2. SameHeld /\ NoNewSpin /\ SameHistory
    BY <1>1, <1>9, <2>1, WaitActPlain, PlainStacks DEF ExecWait, SameHistory, historyVars
  <2> QED
    BY <1>1, <1>9, <2>2, NeutralQuiet DEF ExecWait, StepKind
<1>10. CASE Execute(t)
  BY <1>10, ExecuteKind DEF StepKind
<1>11. Plain(<<Act("loop", Root)>>) /\ Plain(<<>>)
  BY ActsPlain, PlainActs DEF Holding
<1>12. CASE SpinProcess(t)
  <2>1. SameHeld /\ NoNewSpin /\ SameHistory
    BY <1>1, <1>11, <1>12, PlainStacks DEF SpinProcess, SameHistory, historyVars
  <2> QED
    BY <1>1, <1>12, <2>1, NeutralQuiet DEF SpinProcess, StepKind
<1>13. CASE PopFrame(t)
  BY <1>13, PopFrameKind DEF StepKind
<1>14. CASE Rollback(t)
  BY <1>1, <1>14, RollbackKind DEF StepKind
<1>15. CASE WaitProcess(t)
  <2>1. SameHeld /\ NoNewSpin /\ SameHistory
    BY <1>1, <1>11, <1>15, PlainStacks DEF WaitProcess, SameHistory, historyVars
  <2> QED
    BY <1>1, <1>15, <2>1, NeutralQuiet DEF WaitProcess, StepKind
<1>16. CASE WaitNext(t)
  <2>1. Pop(t) \/ \E i, x : ReplaceTop(t, <<[Act("wait", i) EXCEPT !.before = x]>>)
    BY <1>16 DEF WaitNext
  <2>2. Running(t) /\ Top(t).at \notin Holding /\ SameHistory
    BY <1>16 DEF WaitNext, SameHistory, historyVars, Holding
  <2>3. \A i, x : Plain(<<[Act("wait", i) EXCEPT !.before = x]>>)
    BY ActsPlain DEF Holding
  <2>4. SameHeld /\ NoNewSpin
    BY <1>1, <1>11, <2>1, <2>2, <2>3, PlainStacks
  <2> QED
    BY <1>1, <1>16, <2>2, <2>4, NeutralQuiet DEF WaitNext, StepKind
<1>17. CASE WaitStart(t)
  <2>1. Running(t) /\ Top(t).at \notin Holding /\ SameHistory
    BY <1>17 DEF WaitStart, SameHistory, historyVars, Holding
  <2>2. SameHeld /\ NoNewSpin
    BY <1>1, <1>17, <2>1, WaitActPlain, PlainStacks DEF WaitStart
  <2> QED
    BY <1>1, <1>17, <2>1, <2>2, NeutralQuiet DEF WaitStart, StepKind
<1>18. CASE Flush(t)
  <2>1. Running(t) /\ Top(t).at \notin Holding /\ SameHistory
    BY <1>18 DEF Flush, SameHistory, historyVars, Holding
  <2>2. SameHeld /\ NoNewSpin
    BY <1>1, <1>11, <1>18, <2>1, PlainStacks DEF Flush
  <2> QED
    BY <1>1, <1>18, <2>1, <2>2, NeutralQuiet DEF Flush, StepKind
<1> QED
  BY <1>2, <1>3, <1>4, <1>5, <1>7, <1>8, <1>9, <1>10, <1>12, <1>13, <1>14, <1>15, <1>16, <1>17,
     <1>18 DEF ThreadStep

\* ... of the owner outside commands ...
LEMMA OwnerKind ==
  ASSUME IInv, OInv, OwnerStep
  PROVE  StepKind
<1>1. StackShape /\ Recorded /\ Owner \in Threads /\ OwnerActs
  BY DEF IInv, Shape, OInv, Threads
<1>2. CASE ThreadStep(Owner)
  BY <1>1, <1>2, ThreadKind
<1>3. CASE UndoCall
  <2>1. \E k : Queueing(k, "undoRedo", UndoRedoClass, currentIndex - 1)
    BY <1>1, <1>3, MoveCommandIndexKind DEF UndoCall
  <2> QED
    BY <2>1 DEF StepKind
<1>4. CASE RedoCall
  <2>1. \E k : Queueing(k, "undoRedo", UndoRedoClass, currentIndex + 1)
    BY <1>1, <1>4, MoveCommandIndexKind DEF RedoCall
  <2> QED
    BY <2>1 DEF StepKind
<1>5. CASE UndoEntry \/ RedoEntry
  <2>1. SameHeld /\ NoNewSpin /\ SameHistory
    BY <1>5, StackKept DEF UndoEntry, RedoEntry, SameHistory
  <2> QED
    BY <1>1, <1>5, <2>1, NeutralQuiet DEF UndoEntry, RedoEntry, StepKind
<1>6. CASE UndoRedoDone \/ UndoRedoFails
  BY <1>1, <1>6, UndoRedoKind DEF StepKind
<1>7. CASE MoveDone \/ RemoveCall \/ UpdateDone
  <2>1. Running(Owner) /\ Top(Owner).at \notin Holding /\ Pop(Owner)
    BY <1>7 DEF MoveDone, RemoveCall, UpdateDone, At, Holding
  <2>2. SameHeld /\ NoNewSpin
    BY <1>1, <2>1, PlainActs, PlainStacks
  <2>3. SameHistory \/ RemoveCall
    BY <1>7 DEF MoveDone, UpdateDone, SameHistory, historyVars
  <2>4. UNCHANGED <<commandFrames, instances>>
    BY <1>7 DEF MoveDone, RemoveCall, UpdateDone
  <2> QED
    BY <1>1, <2>2, <2>3, <2>4, NeutralQuiet DEF StepKind
<1>8. CASE FiniExit
  <2>1. Running(Owner) /\ Top(Owner).at \notin Holding /\ SameHistory
    BY <1>8 DEF FiniExit, At, Holding, SameHistory, historyVars
  <2>2. Plain(<<Act("join", Root)>>)
    BY ActsPlain DEF Holding
  <2>3. SameHeld /\ NoNewSpin
    BY <1>1, <1>8, <2>1, <2>2, PlainStacks DEF FiniExit
  <2> QED
    BY <1>1, <1>8, <2>1, <2>3, NeutralQuiet DEF FiniExit, StepKind
<1>9. CASE FiniJoin
  <2>1. Running(Owner) /\ Top(Owner).at \notin Holding /\ SameHistory
    BY <1>9 DEF FiniJoin, At, Holding, SameHistory, historyVars, CallVars
  <2>2. SameHeld /\ NoNewSpin
    BY <1>1, <1>9, <2>1, PlainActs, PlainStacks DEF FiniJoin
  <2> QED
    BY <1>1, <1>9, <2>1, <2>2, NeutralQuiet DEF FiniJoin, StepKind
<1> QED
  BY <1>2, <1>3, <1>4, <1>5, <1>6, <1>7, <1>8, <1>9 DEF OwnerStep

\* ... of the worker ...
LEMMA WorkerKind ==
  ASSUME IInv, OInv, WorkerStep
  PROVE  StepKind
<1>1. StackShape /\ Recorded /\ Worker \in Threads
  BY DEF IInv, Shape, OInv, Threads
<1>2. CASE ThreadStep(Worker)
  BY <1>1, <1>2, ThreadKind
<1>3. CASE WorkerTurn \/ WorkerWoken
  <2>1. Push(Worker, <<Act("loop", Root)>>) \/ UNCHANGED stack
    BY <1>3 DEF WorkerTurn, WorkerWoken
  <2>2. Plain(<<Act("loop", Root)>>)
    BY ActsPlain DEF Holding
  <2>3. SameHeld /\ NoNewSpin
    BY <1>1, <2>1, <2>2, PlainStacks, StackKept
  <2>4. SameHistory /\ UNCHANGED <<commandFrames, instances>>
    BY <1>3 DEF WorkerTurn, WorkerWoken, SameHistory, historyVars
  <2> QED
    BY <1>1, <2>3, <2>4, NeutralQuiet DEF StepKind
<1> QED
  BY <1>2, <1>3 DEF WorkerStep

\* ... and of the application.
LEMMA AppKind ==
  ASSUME IInv, OInv, AppStep
  PROVE  StepKind
<1>1. StackShape /\ Recorded /\ Owner \in Threads /\ OwnerActs
  BY DEF IInv, Shape, OInv, Threads
<1>2. stack[Owner] = <<>> => Owning(Owner) = {}
  BY DEF Owning
<1>3. stack[Owner] = <<>>
  BY DEF AppStep, AppQueue, AppBatch, AppWait, AppUndo, AppRedo, AppMove, AppRemove, AppFlush,
         AppUpdate, AppFini, MayMove, Idle
<1>4. CASE AppMove
  <2>1. PICK target : MoveCommandIndex(target)
    BY <1>4 DEF AppMove
  <2>2. \E k : Queueing(k, "undoRedo", UndoRedoClass, target)
    BY <1>1, <1>3, <2>1, MoveCommandIndexKind
  <2> QED
    BY <2>2 DEF StepKind
<1>5. CASE AppQueue
  <2>1. PICK c \in Classes : QueueCommand(Owner, "set", c, NoSelection, <<>>)
    BY <1>5 DEF AppQueue
  <2>2. SameHistory
    BY <1>5 DEF AppQueue, SameHistory, historyVars, CallVars
  <2>3. \E k : Queueing(k, "set", c, NoSelection)
    BY <1>1, <2>1, <2>2, PlainActs, QueueCommandKind
  <2> QED
    BY <2>3 DEF StepKind
<1>6. CASE AppBatch
  <2>1. PICK kind \in {"begin", "end", "abort"} :
          QueueCommand(Owner, kind, BatchClass, NoSelection, <<>>)
    BY <1>6 DEF AppBatch, Closers
  <2>2. SameHistory /\ kind # "undoRedo"
    BY <1>6 DEF AppBatch, SameHistory, historyVars, CallVars
  <2>3. \E k : Queueing(k, kind, BatchClass, NoSelection)
    BY <1>1, <1>2, <1>3, <2>1, <2>2, PlainActs, QueueCommandKind
  <2> QED
    BY <2>3 DEF StepKind
<1>7. CASE AppFini
  <2>1. QueueCommand(Owner, "abort", BatchClass, NoSelection, <<Act("fini", Root)>>)
    BY <1>7 DEF AppFini
  <2>2. SameHistory
    BY <1>7 DEF AppFini, SameHistory, historyVars, CallVars
  <2>3. Plain(<<Act("fini", Root)>>)
    BY ActsPlain DEF Holding
  <2>4. \E k : Queueing(k, "abort", BatchClass, NoSelection)
    BY <1>1, <1>2, <1>3, <2>1, <2>2, <2>3, QueueCommandKind
  <2> QED
    BY <2>4 DEF StepKind
<1>8. CASE AppWait \/ AppUndo \/ AppRedo \/ AppRemove \/ AppFlush \/ AppUpdate
  <2>1. \E acts : Plain(acts) /\ Push(Owner, acts)
    <3>1. CASE AppWait
      BY <3>1, WaitActPlain DEF AppWait
    <3>2. CASE AppUndo
      BY <3>2, ActsPlain DEF AppUndo, Holding
    <3>3. CASE AppRedo
      BY <3>3, ActsPlain DEF AppRedo, Holding
    <3>4. CASE AppRemove
      BY <3>4, ActsPlain DEF AppRemove, Holding
    <3>5. CASE AppFlush
      BY <3>5, ActsPlain DEF AppFlush, Holding
    <3>6. CASE AppUpdate
      BY <3>6, ActsPlain DEF AppUpdate, Holding
    <3> QED
      BY <1>8, <3>1, <3>2, <3>3, <3>4, <3>5, <3>6
  <2>2. SameHeld /\ NoNewSpin
    BY <1>1, <2>1, PlainStacks
  <2>3. SameHistory /\ UNCHANGED <<commandFrames, instances>>
    BY <1>8 DEF AppWait, AppUndo, AppRedo, AppRemove, AppFlush, AppUpdate, CallVars, SameHistory,
                historyVars
  <2> QED
    BY <1>1, <2>2, <2>3, NeutralQuiet DEF StepKind
<1> QED
  BY <1>4, <1>5, <1>6, <1>7, <1>8 DEF AppStep

LEMMA EveryStepKind ==
  ASSUME IInv, OInv, [Next]_vars
  PROVE  StepKind
<1>1. CASE UNCHANGED vars
  BY <1>1, StackKept, NeutralQuiet DEF vars, historyVars, SameHistory, OInv, StepKind
<1> QED
  BY <1>1, OwnerKind, WorkerKind, AppKind DEF Next

-----------------------------------------------------------------------------
(* Where the steps put the instances *)

Basics ==
  /\ FramesSized /\ Ids = 1 .. Count /\ Count \in Nat /\ Inst(1) = Root
  /\ \A n \in 2 .. Depth : Inst(n) \in Ids
  /\ \A m, n \in 1 .. Depth : Inst(m) = Inst(n) => m = n
  /\ \A n \in 1 .. Depth : \A a \in 1 .. Len(Queue(n)) :
       /\ Queue(n)[a] \in Ids
       /\ \A m \in 1 .. Depth : Inst(m) # Queue(n)[a]
       /\ \A m \in 1 .. Depth : \A b \in 1 .. Len(Queue(m)) :
            Queue(m)[b] = Queue(n)[a] => m = n /\ a = b

\* What FrameDiscipline's invariant says of the fields.
LEMMA BasicsHold == IInv => Basics
<1> SUFFICES ASSUME IInv PROVE Basics
  OBVIOUS
<1>1. FramesSized
  BY ShapeSized
<1>2. Ids = 1 .. Count /\ Count \in Nat
  BY DEF IInv, Shape, Listed, Count, Ids
<1>3. Inst(1) = Root
  BY DEF IInv, Owned, Inst
<1>4. \A m, n \in 1 .. Depth : Inst(m) = Inst(n) => m = n
  BY <1>1 DEF IInv, Distinct, Inst, FramesSized
<1>5. ASSUME NEW n \in 2 .. Depth PROVE Inst(n) \in Ids
  <2>1. n \in 1 .. Depth /\ 1 \in 1 .. Depth /\ n # 1
    BY <1>1 DEF FramesSized
  <2>2. Inst(n) \in Nat /\ Inst(n) # Root
    BY <1>1, <1>3, <1>4, <2>1 DEF FramesSized
  <2>3. Inst(n) <= Count
    BY <1>1, <2>1 DEF IInv, Queued, Inst, FramesSized
  <2> QED
    BY <1>2, <2>2, <2>3 DEF Root
<1>6. \A n \in 1 .. Depth : DOMAIN Queue(n) = 1 .. Len(Queue(n))
  BY <1>1 DEF FramesSized, Sized
<1>7. ASSUME NEW n \in 1 .. Depth, NEW a \in 1 .. Len(Queue(n))
      PROVE  /\ Queue(n)[a] \in Ids
             /\ \A m \in 1 .. Depth : Inst(m) # Queue(n)[a]
             /\ \A m \in 1 .. Depth : \A b \in 1 .. Len(Queue(m)) :
                  Queue(m)[b] = Queue(n)[a] => m = n /\ a = b
  <2>1. DOMAIN commandFrames = 1 .. Depth
    BY <1>1 DEF FramesSized
  <2> QED
    BY <1>2, <1>6, <2>1 DEF IInv, Queued, Inst, Queue
<1> QED
  BY <1>1, <1>2, <1>3, <1>4, <1>5, <1>7 DEF Basics

\* ... and after a step.
LEMMA BasicsNext == IInv' => Basics'
BY BasicsHold, PTL

\* Steps that keep the frames keep the places.
LEMMA KeptPlaces ==
  ASSUME FramesKept
  PROVE  \A i : (InQueue(i)' <=> InQueue(i)) /\ (InFrame(i)' <=> InFrame(i))
             /\ (InGroup(i)' <=> InGroup(i))
BY DEF FramesKept, InQueue, InFrame, InGroup

LEMMA EnqueuedPlaces ==
  ASSUME Basics, NEW k, NEW kind, NEW class, NEW target, Enqueued(k, kind, class, target)
  PROVE  \A i : (InQueue(i)' <=> InQueue(i) \/ i = Count + 1) /\ (InFrame(i)' <=> InFrame(i))
             /\ (InGroup(i)' <=> InGroup(i))
<1>1. \A i : (InFrame(i)' <=> InFrame(i)) /\ (InGroup(i)' <=> InGroup(i))
  BY DEF InFrame, InGroup, Enqueued
<1>2. /\ k \in 1 .. Depth /\ Depth' = Depth /\ Len(Queue(k)) \in Nat
      /\ Len(Queue(k)') = Len(Queue(k)) + 1 /\ Queue(k)'[Len(Queue(k)) + 1] = Count + 1
      /\ \A a \in 1 .. Len(Queue(k)) : Queue(k)'[a] = Queue(k)[a]
      /\ \A n \in 1 .. Depth : n # k => Queue(n)' = Queue(n)
  BY DEF Enqueued, Basics, FramesSized, Sized, Extended
<1>3. ASSUME NEW i, InQueue(i)' PROVE InQueue(i) \/ i = Count + 1
  <2>1. PICK n \in 1 .. Depth : \E a \in 1 .. Len(Queue(n)') : Queue(n)'[a] = i
    BY <1>2, <1>3 DEF InQueue
  <2>2. PICK a \in 1 .. Len(Queue(n)') : Queue(n)'[a] = i
    BY <2>1
  <2>3. CASE n # k
    BY <1>2, <2>2, <2>3 DEF InQueue
  <2>4. CASE n = k
    <3>1. a \in 1 .. Len(Queue(k)) \/ a = Len(Queue(k)) + 1
      BY <1>2, <2>2, <2>4
    <3> QED
      BY <1>2, <2>2, <2>4, <3>1 DEF InQueue
  <2> QED
    BY <2>3, <2>4
<1>4. ASSUME NEW i, InQueue(i) PROVE InQueue(i)'
  <2>1. PICK n \in 1 .. Depth : \E a \in 1 .. Len(Queue(n)) : Queue(n)[a] = i
    BY <1>4 DEF InQueue
  <2>2. PICK a \in 1 .. Len(Queue(n)) : Queue(n)[a] = i
    BY <2>1
  <2>3. a \in 1 .. Len(Queue(n)') /\ Queue(n)'[a] = i
    <3>1. CASE n # k
      BY <1>2, <2>2, <3>1
    <3>2. CASE n = k
      BY <1>2, <2>2, <3>2
    <3> QED
      BY <3>1, <3>2
  <2> QED
    BY <1>2, <2>3 DEF InQueue
<1>5. PICK x : x = Count + 1
  OBVIOUS
<1>6. InQueue(x)'
  <2>1. Len(Queue(k)) + 1 \in 1 .. Len(Queue(k)') /\ Queue(k)'[Len(Queue(k)) + 1] = x
    BY <1>2, <1>5
  <2>2. \E n \in 1 .. Depth' : \E a \in 1 .. Len(Queue(n)') : Queue(n)'[a] = x
    BY <1>2, <2>1
  <2> QED
    BY <2>2 DEF InQueue
<1> QED
  BY <1>1, <1>3, <1>4, <1>5, <1>6

LEMMA DequeuedQueue ==
  ASSUME Basics, NEW L, NEW i, Dequeued(L, i),
         Depth' = L \/ (Depth' = L + 1 /\ Queue(L + 1)' = <<>>)
  PROVE  InQueue(i) /\ \A j : InQueue(j)' <=> InQueue(j) /\ j # i
<1>1. /\ L = Depth /\ L \in 1 .. Depth /\ L \in Nat /\ Len(Queue(L)) \in Nat /\ Len(Queue(L)) > 0
      /\ 1 \in 1 .. Len(Queue(L)) /\ Queue(L)[1] = i
      /\ Len(Queue(L)') = Len(Queue(L)) - 1
      /\ \A a \in 1 .. Len(Queue(L)) - 1 : Queue(L)'[a] = Queue(L)[a + 1]
      /\ \A n \in 1 .. L : n # L => Queue(n)' = Queue(n)
  BY DEF Dequeued, Basics, FramesSized, Sized, Shifted
<1>2. \A n \in 1 .. Depth : \A a \in 1 .. Len(Queue(n)) : Queue(n)[a] = i => n = L /\ a = 1
  BY <1>1 DEF Basics
<1>3. InQueue(i)
  BY <1>1 DEF InQueue
<1>4. ASSUME NEW j, InQueue(j)' PROVE InQueue(j) /\ j # i
  <2>1. PICK n \in 1 .. Depth' : \E a \in 1 .. Len(Queue(n)') : Queue(n)'[a] = j
    BY <1>4 DEF InQueue
  <2>2. PICK a \in 1 .. Len(Queue(n)') : Queue(n)'[a] = j
    BY <2>1
  <2>3. n \in 1 .. L
    <3>1. Len(<<>>) = 0
      OBVIOUS
    <3>2. Depth' = L + 1 /\ n = L + 1 => FALSE
      BY <2>2, <3>1
    <3> QED
      BY <1>1, <2>1, <3>2
  <2>4. CASE n # L
    <3>1. a \in 1 .. Len(Queue(n)) /\ Queue(n)[a] = j
      BY <1>1, <2>2, <2>3, <2>4
    <3>2. InQueue(j)
      BY <1>1, <2>3, <3>1 DEF InQueue
    <3> QED
      BY <1>1, <1>2, <2>3, <2>4, <3>1, <3>2
  <2>5. CASE n = L
    <3>1. a + 1 \in 1 .. Len(Queue(L)) /\ Queue(L)[a + 1] = j /\ a + 1 # 1
      BY <1>1, <2>2, <2>5
    <3>2. InQueue(j)
      BY <1>1, <3>1 DEF InQueue
    <3> QED
      BY <1>1, <1>2, <3>1, <3>2
  <2> QED
    BY <2>4, <2>5
<1>5. ASSUME NEW j, InQueue(j), j # i PROVE InQueue(j)'
  <2>1. PICK n \in 1 .. Depth : \E a \in 1 .. Len(Queue(n)) : Queue(n)[a] = j
    BY <1>5 DEF InQueue
  <2>2. PICK a \in 1 .. Len(Queue(n)) : Queue(n)[a] = j
    BY <2>1
  <2>3. n \in 1 .. Depth'
    BY <1>1
  <2>4. CASE n # L
    BY <1>1, <2>2, <2>3, <2>4 DEF InQueue
  <2>5. CASE n = L
    <3>1. a - 1 \in 1 .. Len(Queue(L)) - 1 /\ (a - 1) + 1 = a
      BY <1>1, <1>5, <2>2, <2>5
    <3>2. a - 1 \in 1 .. Len(Queue(L)') /\ Queue(L)'[a - 1] = j
      BY <1>1, <2>2, <2>5, <3>1
    <3> QED
      BY <2>3, <2>5, <3>2 DEF InQueue
  <2> QED
    BY <2>4, <2>5
<1> QED
  BY <1>3, <1>4, <1>5

LEMMA TakenPlaces ==
  ASSUME Basics, NEW L, NEW i, Taken(L, i)
  PROVE  /\ InQueue(i)
         /\ \A j : /\ InQueue(j)' <=> InQueue(j) /\ j # i
                   /\ InFrame(j)' <=> InFrame(j) \/ j = i
                   /\ InGroup(j)' <=> InGroup(j) \/ (j = i /\ instances[i].kind = "begin"
                                                     /\ Len(Groups(L)) > 0)
<1>1. Dequeued(L, i) /\ Depth' = L + 1 /\ Queue(L + 1)' = <<>> /\ L = Depth
  BY DEF Taken, Dequeued
<1>2. InQueue(i) /\ \A j : InQueue(j)' <=> InQueue(j) /\ j # i
  BY <1>1, DequeuedQueue
<1>3. /\ L \in Nat /\ \A n \in 1 .. L : Inst(n)' = Inst(n) /\ (n # L => Groups(n)' = Groups(n))
      /\ \A n : n \in 1 .. Depth' <=> n \in 1 .. Depth \/ n = L + 1
      /\ Inst(L + 1)' = i /\ Groups(L + 1)' = <<i>> /\ L > 0
      /\ \A n \in 1 .. L : Len(Groups(n)) \in Nat
  BY <1>1 DEF Taken, Dequeued, Basics, FramesSized, Sized
<1>4. \A j : InFrame(j)' <=> InFrame(j) \/ j = i
  BY <1>1, <1>3 DEF InFrame
<1>5. ASSUME NEW j, InGroup(j)'
      PROVE  InGroup(j) \/ (j = i /\ instances[i].kind = "begin" /\ Len(Groups(L)) > 0)
  <2>1. PICK n \in 1 .. Depth' : \E k \in 2 .. Len(Groups(n)') : Groups(n)'[k] = j
    BY <1>5 DEF InGroup
  <2>2. PICK k \in 2 .. Len(Groups(n)') : Groups(n)'[k] = j
    BY <2>1
  <2>3. n # L + 1
    <3>1. Len(<<i>>) = 1
      OBVIOUS
    <3>2. 2 .. 1 = {}
      OBVIOUS
    <3> QED
      BY <1>3, <2>2, <3>1, <3>2
  <2>4. CASE n # L
    BY <1>1, <1>3, <2>2, <2>3, <2>4 DEF InGroup
  <2>5. CASE n = L /\ instances[i].kind # "begin"
    BY <1>1, <1>3, <2>2, <2>5 DEF InGroup, Taken
  <2>6. CASE n = L /\ instances[i].kind = "begin"
    <3>1. Extended(Groups(L)', Groups(L), i)
      BY <2>6 DEF Taken
    <3>2. k \in 2 .. Len(Groups(L)) \/ (k = Len(Groups(L)) + 1 /\ Len(Groups(L)) > 0)
      BY <1>1, <1>3, <2>2, <2>6, <3>1 DEF Extended
    <3> QED
      BY <1>1, <1>3, <2>2, <2>6, <3>1, <3>2 DEF Extended, InGroup
  <2> QED
    BY <2>4, <2>5, <2>6
<1>6. ASSUME NEW j, InGroup(j) PROVE InGroup(j)'
  <2>0. PICK n \in 1 .. L : \E k \in 2 .. Len(Groups(n)) : Groups(n)[k] = j
    BY <1>1, <1>6 DEF InGroup
  <2>1. PICK k \in 2 .. Len(Groups(n)) : Groups(n)[k] = j
    BY <2>0
  <2>2. k \in 2 .. Len(Groups(n)') /\ Groups(n)'[k] = j
    <3>1. CASE n # L
      BY <1>3, <2>1, <3>1
    <3>2. CASE n = L
      BY <1>3, <2>1, <3>2 DEF Taken, Extended
    <3> QED
      BY <3>1, <3>2
  <2> QED
    BY <1>1, <1>3, <2>2 DEF InGroup
<1>7. ASSUME instances[i].kind = "begin", Len(Groups(L)) > 0 PROVE InGroup(i)'
  <2>1. Extended(Groups(L)', Groups(L), i)
    BY <1>7 DEF Taken
  <2>2. Len(Groups(L)) + 1 \in 2 .. Len(Groups(L)') /\ Groups(L)'[Len(Groups(L)) + 1] = i
    BY <1>3, <1>7, <2>1 DEF Extended
  <2>3. L \in 1 .. Depth'
    BY <1>1, <1>3
  <2>4. \E n \in 1 .. Depth' : \E k \in 2 .. Len(Groups(n)') : Groups(n)'[k] = i
    BY <2>2, <2>3
  <2> QED
    BY <2>4 DEF InGroup
<1> QED
  BY <1>2, <1>4, <1>5, <1>6, <1>7

\* The table of instances only grows, and what an instance is never changes.
Kept == \A j \in Ids : j \in Ids' /\ SameKind(instances'[j], instances[j])

LEMMA TableKept ==
  ASSUME Basics, Follows(instances', instances)
  PROVE  Ids' = Ids /\ Kept /\ Recorded'
<1>1. Ids' = Ids
  BY SameIdsCount DEF Follows, Table, Ids, Basics, SameIds
<1> QED
  BY <1>1 DEF Follows, Table, Kept, Recorded

LEMMA KeptStep ==
  ASSUME Basics, Basics', Recorded, StepKind
  PROVE  Kept /\ Recorded'
<1>1. CASE \E k, kind, class, target : Queueing(k, kind, class, target)
  <2>1. PICK k, kind, class, target : Enqueued(k, kind, class, target)
    BY <1>1 DEF Queueing
  <2>2. /\ Ids = 1 .. Count /\ Count \in Nat /\ \A j \in 1 .. Count : instances'[j] = instances[j]
        /\ instances'[Count + 1] = MakeCommand(kind, class, target, Inst(k))
        /\ Ids' = 1 .. Count + 1
    BY <2>1 DEF Enqueued, Basics
  <2>3. InstanceRecord(MakeCommand(kind, class, target, Inst(k)))
    BY TuplesListed DEF InstanceRecord, MakeCommand
  <2> QED
    BY <2>2, <2>3 DEF Recorded, Kept, SameKind
<1> QED
  BY <1>1, TableKept DEF StepKind, Neutral, Taking, Starting, Popping, Finishing, SameTables

\* What holds of the back frame, and of what is done, when popFrame is reached.
Leaving(L, closes, done) ==
  /\ L = Depth /\ L \in 2 .. Depth /\ L \in 1 .. Depth /\ L - 1 \in 1 .. Depth /\ L \in Nat
  /\ \A n : n \in 1 .. L - 1 <=> n \in 1 .. Depth /\ n # L
  /\ Len(Groups(L)) = 1 /\ Len(Open(L)) = 1
  /\ Inst(L) \in Ids /\ instances[Inst(L)].home = Inst(L - 1) /\ done \in Ids
  /\ instances[done].kind # "undoRedo"
  /\ IF closes THEN /\ Len(Groups(L - 1)) > 1 /\ instances[done].kind = "begin"
                    /\ InGroup(done) /\ ~InFrame(done) /\ Closing(Inst(L)) /\ done # Inst(L)
                    /\ done = Groups(L - 1)[Len(Groups(L - 1))]
               ELSE done = Inst(L)
  /\ IF instances[Inst(L)].kind = "begin" THEN ~closes /\ InGroup(Inst(L))
                                          ELSE ~InGroup(Inst(L))

LEMMA PopLeaves ==
  ASSUME Basics, OInv, NEW L, NEW closes, NEW done, Popping(L, closes, done)
  PROVE  Leaving(L, closes, done)
<1>1. /\ L = Depth /\ L > 1 /\ Queue(L) = <<>>
      /\ closes \in BOOLEAN /\ (closes <=> Closing(Inst(L)) /\ Last(Groups(L - 1)) # Root)
      /\ done = IF closes THEN Last(Groups(L - 1)) ELSE Inst(L)
  BY DEF Popping, Popped
<1>2. /\ L \in 2 .. Depth /\ L \in 1 .. Depth /\ L - 1 \in 1 .. Depth /\ L \in Nat
      /\ L - 1 \in 1 .. Depth - 1
      /\ \A n : n \in 1 .. L - 1 <=> n \in 1 .. Depth /\ n # L
  BY <1>1 DEF Basics, FramesSized
<1>3. /\ Inst(L) \in Ids /\ instances[Inst(L)].home = Inst(L - 1)
      /\ instances[Inst(L)].kind # "undoRedo" /\ Inst(L) # Inst(L - 1)
  BY <1>2 DEF Basics, OInv, Placed, Homes
<1>4. Len(Open(L)) = 1
  <2>1. PICK t \in Threads : \E k : Does(t, k, "spin", Inst(L))
    BY DEF Popping
  <2> QED
    BY <1>2, <2>1 DEF OInv, Placed, Spinning
<1>5. Len(Groups(L)) = 1
  <2>1. PICK d : Nested(L, d)
    BY <1>2 DEF OInv, Placed, Nestings
  <2>2. Len(Queue(L)) + 1 = 1
    BY <1>1
  <2>3. d[1] = Len(Open(L)) /\ d[1] = Standing(L)
    BY <2>1, <2>2 DEF Nested
  <2>4. ~(L < Depth)
    BY <1>1, <1>2
  <2>5. Standing(L) = Len(Groups(L))
    BY <2>4 DEF Standing
  <2> QED
    BY <1>4, <2>3, <2>5
<1>6. Last(Groups(L - 1)) = Groups(L - 1)[Len(Groups(L - 1))] /\ Len(Groups(L - 1)) \in Nat
  BY <1>2 DEF Last, Basics, FramesSized, Sized
<1>7. Len(Groups(L - 1)) > 0 /\ Groups(L - 1)[1] = Inst(L - 1)
  BY <1>2 DEF OInv, Placed, Grouped
<1>8. ASSUME NEW k \in 2 .. Len(Groups(L - 1))
      PROVE  /\ Groups(L - 1)[k] \in Ids /\ instances[Groups(L - 1)[k]].kind = "begin"
             /\ InGroup(Groups(L - 1)[k])
  BY <1>2, <1>8 DEF OInv, Placed, Grouped, InGroup
<1>9. ASSUME closes
      PROVE  /\ Len(Groups(L - 1)) > 1 /\ instances[done].kind = "begin" /\ done \in Ids
             /\ InGroup(done) /\ ~InFrame(done) /\ Closing(Inst(L)) /\ done # Inst(L)
             /\ done = Groups(L - 1)[Len(Groups(L - 1))]
  <2>1. Len(Groups(L - 1)) > 1
    <3>1. CASE L - 1 = 1
      <4>1. Len(Groups(L - 1)) # 1
        BY <1>1, <1>6, <1>7, <1>9, <3>1 DEF Basics
      <4> QED
        BY <1>6, <1>7, <4>1
    <3>2. CASE L - 1 # 1
      <4>1. PICK d : Nested(L - 1, d)
        BY <1>2, <3>2 DEF OInv, Placed, Nestings
      <4>2. Len(Queue(L - 1)) \in Nat
        BY <1>2 DEF Basics, FramesSized, Sized
      <4>3. d[1] \in Nat \ {0} /\ d[1] = Standing(L - 1)
        BY <4>1, <4>2 DEF Nested
      <4>4. (L - 1) + 1 = L /\ L - 1 < Depth
        BY <1>1, <1>2
      <4>5. Standing(L - 1) = Len(Groups(L - 1)) - 1
        BY <1>1, <1>9, <4>4 DEF Standing
      <4> QED
        BY <1>6, <4>3, <4>5
    <3> QED
      BY <3>1, <3>2
  <2>2. Len(Groups(L - 1)) \in 2 .. Len(Groups(L - 1))
    BY <1>6, <2>1
  <2>3. done = Groups(L - 1)[Len(Groups(L - 1))]
    BY <1>1, <1>6, <1>9
  <2>4. /\ instances[done].kind = "begin" /\ done \in Ids /\ InGroup(done)
    BY <1>8, <2>2, <2>3
  <2>5. done # Inst(L)
    BY <1>1, <1>9, <2>4 DEF Closing
  <2>6. ASSUME NEW m \in 1 .. Depth, Inst(m) = done PROVE FALSE
    <3>0. \A n \in 1 .. Depth : \A k \in 2 .. Len(Groups(n)) : \A l \in 1 .. Depth :
            Inst(l) = Groups(n)[k] => l = n + 1
      BY DEF OInv, Placed, Grouped
    <3>1. m = (L - 1) + 1
      BY <1>2, <2>2, <2>3, <2>6, <3>0
    <3>2. m = L
      BY <1>2, <3>1
    <3> QED
      BY <2>5, <2>6, <3>2
  <2> QED
    BY <1>1, <1>9, <2>1, <2>3, <2>4, <2>5, <2>6 DEF InFrame
<1>10. ASSUME instances[Inst(L)].kind = "begin"
       PROVE  ~closes /\ InGroup(Inst(L))
  <2>1. ~closes
    BY <1>1, <1>10 DEF Closing
  <2>2. Groups(L - 1)[Len(Groups(L - 1))] = Inst(L)
    <3>1. (L - 1) + 1 = L
      BY <1>2
    <3> QED
      BY <1>2, <1>10, <3>1 DEF OInv, Placed, Grouped
  <2>3. Len(Groups(L - 1)) # 1
    BY <1>3, <1>7, <2>2
  <2>4. Len(Groups(L - 1)) \in 2 .. Len(Groups(L - 1))
    BY <1>6, <1>7, <2>3
  <2> QED
    BY <1>8, <2>1, <2>2, <2>4
<1>11. ASSUME instances[Inst(L)].kind # "begin"
       PROVE  ~InGroup(Inst(L))
  BY <1>11 DEF OInv, Placed, Grouped, InGroup
<1>12. CASE closes
  BY <1>1, <1>2, <1>3, <1>4, <1>5, <1>9, <1>10, <1>11, <1>12 DEF Leaving
<1>13. CASE ~closes
  BY <1>1, <1>2, <1>3, <1>4, <1>5, <1>10, <1>11, <1>13 DEF Leaving
<1> QED
  BY <1>12, <1>13

LEMMA PoppedPlaces ==
  ASSUME Basics, OInv, NEW L, NEW closes, NEW done, Popping(L, closes, done)
  PROVE  \A j : /\ InQueue(j)' <=> InQueue(j)
                /\ InFrame(j)' <=> InFrame(j) /\ j # Inst(L)
                /\ InGroup(j)' <=> InGroup(j) /\ (closes => j # done)
<1>1. Leaving(L, closes, done)
  BY PopLeaves
<1>2. /\ Depth' = L - 1 /\ closes \in BOOLEAN /\ Queue(L) = <<>>
      /\ \A n \in 1 .. L - 1 : /\ Inst(n)' = Inst(n) /\ Queue(n)' = Queue(n)
                               /\ n # L - 1 => Groups(n)' = Groups(n)
      /\ IF closes THEN Shortened(Groups(L - 1)', Groups(L - 1))
                   ELSE Groups(L - 1)' = Groups(L - 1)
  BY DEF Popping, Popped
<1>3. Len(Queue(L)) = 0
  BY <1>2
<1>4. /\ L - 1 \in 1 .. Depth /\ L = Depth /\ L \in 1 .. Depth
      /\ \A n : n \in 1 .. L - 1 <=> n \in 1 .. Depth /\ n # L
      /\ Len(Groups(L)) = 1 /\ L - 1 # L
  BY <1>1 DEF Leaving
<1>5. \A j : InQueue(j)' <=> InQueue(j)
  BY <1>2, <1>3, <1>4 DEF InQueue
<1>6. \A j : InFrame(j)' <=> InFrame(j) /\ j # Inst(L)
  BY <1>2, <1>4 DEF InFrame, Basics
<1>7. ASSUME NEW j, InGroup(j)' PROVE InGroup(j) /\ (closes => j # done)
  <2>0. PICK n \in 1 .. Depth' : \E k \in 2 .. Len(Groups(n)') : Groups(n)'[k] = j
    BY <1>7 DEF InGroup
  <2>1. PICK k \in 2 .. Len(Groups(n)') : Groups(n)'[k] = j
    BY <2>0
  <2>2. n \in 1 .. L - 1 /\ n \in 1 .. Depth
    BY <1>2, <1>4
  <2>3. Len(Groups(n)) \in Nat /\ Len(Groups(L - 1)) \in Nat
    BY <1>4, <2>2 DEF Basics, FramesSized, Sized
  <2>4. k \in 2 .. Len(Groups(n)) /\ Groups(n)[k] = j /\ (closes /\ n = L - 1 => k # Len(Groups(n)))
    <3>1. CASE closes /\ n = L - 1
      BY <1>2, <2>1, <2>3, <3>1 DEF Shortened
    <3>2. CASE ~(closes /\ n = L - 1)
      BY <1>2, <2>1, <2>2, <3>2
    <3> QED
      BY <3>1, <3>2
  <2>5. InGroup(j)
    BY <2>2, <2>4 DEF InGroup
  <2>6. ASSUME closes, j = done PROVE FALSE
    <3>1. Len(Groups(L - 1)) > 1 /\ done = Groups(L - 1)[Len(Groups(L - 1))]
      BY <1>1, <2>6 DEF Leaving
    <3>2. Len(Groups(L - 1)) \in 2 .. Len(Groups(L - 1))
      BY <2>3, <3>1
    <3>3. CASE n = L - 1
      <4>1. \A a, b \in 2 .. Len(Groups(n)) : Groups(n)[a] = Groups(n)[b] => a = b
        BY <2>2 DEF OInv, Placed, Grouped
      <4> QED
        BY <2>4, <2>6, <3>1, <3>2, <3>3, <4>1
    <3>4. CASE n # L - 1
      <4>1. instances[j].home = Inst(n) /\ instances[done].home = Inst(L - 1)
        BY <1>4, <2>2, <2>4, <3>1, <3>2 DEF OInv, Placed, Grouped
      <4> QED
        BY <1>4, <2>2, <2>6, <3>4, <4>1 DEF Basics
    <3> QED
      BY <3>3, <3>4
  <2> QED
    BY <2>5, <2>6
<1>8. ASSUME NEW j, InGroup(j), closes => j # done PROVE InGroup(j)'
  <2>0. PICK n \in 1 .. Depth : \E k \in 2 .. Len(Groups(n)) : Groups(n)[k] = j
    BY <1>8 DEF InGroup
  <2>1. PICK k \in 2 .. Len(Groups(n)) : Groups(n)[k] = j
    BY <2>0
  <2>2. n # L
    BY <1>4, <2>1
  <2>3. n \in 1 .. L - 1 /\ Len(Groups(n)) \in Nat
    BY <1>4, <2>2 DEF Basics, FramesSized, Sized
  <2>4. k \in 2 .. Len(Groups(n)') /\ Groups(n)'[k] = j
    <3>1. CASE closes /\ n = L - 1
      <4>1. done = Groups(L - 1)[Len(Groups(L - 1))]
        BY <1>1, <3>1 DEF Leaving
      <4>2. k # Len(Groups(n))
        BY <1>8, <2>1, <3>1, <4>1
      <4> QED
        BY <1>2, <2>1, <2>3, <3>1, <4>2 DEF Shortened
    <3>2. CASE ~(closes /\ n = L - 1)
      BY <1>2, <2>1, <2>3, <3>2
    <3> QED
      BY <3>1, <3>2
  <2> QED
    BY <1>2, <2>3, <2>4 DEF InGroup
<1> QED
  BY <1>5, <1>6, <1>7, <1>8

-----------------------------------------------------------------------------
(* The places stay in order *)

\* Where the frames of a new state come from ...
LEMMA InstSources ==
  ASSUME Basics, StepKind
  PROVE  \A n \in 1 .. Depth' :
           \/ n \in 1 .. Depth /\ Inst(n)' = Inst(n)
           \/ \E L, i : Taking(L, i) /\ n = L + 1 /\ L = Depth /\ Inst(n)' = i
<1> SUFFICES ASSUME NEW n \in 1 .. Depth'
             PROVE  \/ n \in 1 .. Depth /\ Inst(n)' = Inst(n)
                    \/ \E L, i : Taking(L, i) /\ n = L + 1 /\ L = Depth /\ Inst(n)' = i
  OBVIOUS
<1>0. Depth \in Nat
  BY DEF Basics, FramesSized
<1>1. CASE FramesKept
  BY <1>1 DEF FramesKept
<1>2. ASSUME NEW k, NEW kind, NEW class, NEW target, Queueing(k, kind, class, target)
      PROVE  n \in 1 .. Depth /\ Inst(n)' = Inst(n)
  BY <1>2 DEF Queueing, Enqueued
<1>3. ASSUME NEW L, NEW i, Taking(L, i)
      PROVE  \/ n \in 1 .. Depth /\ Inst(n)' = Inst(n)
             \/ Taking(L, i) /\ n = L + 1 /\ L = Depth /\ Inst(n)' = i
  <2>1. /\ L = Depth /\ Depth' = L + 1 /\ Inst(L + 1)' = i
        /\ \A l \in 1 .. L : Inst(l)' = Inst(l)
    BY <1>3 DEF Taking, Taken, Dequeued
  <2>2. n \in 1 .. L \/ n = L + 1
    BY <1>0, <2>1
  <2> QED
    BY <1>3, <2>1, <2>2
<1>4. ASSUME NEW t, NEW k, NEW L, NEW i, Starting(t, k, L, i)
      PROVE  n \in 1 .. Depth /\ Inst(n)' = Inst(n)
  BY <1>4 DEF Starting, Dequeued
<1>5. ASSUME NEW L, NEW closes, NEW done, Popping(L, closes, done)
      PROVE  n \in 1 .. Depth /\ Inst(n)' = Inst(n)
  BY <1>0, <1>5 DEF Popping, Popped
<1> QED
  BY <1>1, <1>2, <1>3, <1>4, <1>5 DEF StepKind, Neutral, Finishing

\* ... and what is in their queues.
LEMMA QueueSources ==
  ASSUME Basics, StepKind
  PROVE  \A n \in 1 .. Depth' : \A a \in 1 .. Len(Queue(n)') :
           /\ n \in 1 .. Depth /\ Inst(n)' = Inst(n)
           /\ \/ \E b \in 1 .. Len(Queue(n)) : Queue(n)'[a] = Queue(n)[b]
              \/ \E kind, class, target :
                   /\ Queueing(n, kind, class, target)
                   /\ Queue(n)'[a] = Count + 1 /\ a = Len(Queue(n)) + 1
<1> SUFFICES ASSUME NEW n \in 1 .. Depth', NEW a \in 1 .. Len(Queue(n)')
             PROVE  /\ n \in 1 .. Depth /\ Inst(n)' = Inst(n)
                    /\ \/ \E b \in 1 .. Len(Queue(n)) : Queue(n)'[a] = Queue(n)[b]
                       \/ \E kind, class, target :
                            /\ Queueing(n, kind, class, target)
                            /\ Queue(n)'[a] = Count + 1 /\ a = Len(Queue(n)) + 1
  OBVIOUS
<1>0. Depth \in Nat /\ \A m \in 1 .. Depth : Len(Queue(m)) \in Nat
  BY DEF Basics, FramesSized, Sized
<1>1. CASE FramesKept
  BY <1>1 DEF FramesKept
<1>2. ASSUME NEW k, NEW kind, NEW class, NEW target, Queueing(k, kind, class, target)
      PROVE  /\ n \in 1 .. Depth /\ Inst(n)' = Inst(n)
             /\ \/ \E b \in 1 .. Len(Queue(n)) : Queue(n)'[a] = Queue(n)[b]
                \/ /\ Queueing(n, kind, class, target)
                   /\ Queue(n)'[a] = Count + 1 /\ a = Len(Queue(n)) + 1
  <2>1. /\ n \in 1 .. Depth /\ Inst(n)' = Inst(n) /\ (n # k => Queue(n)' = Queue(n))
        /\ Extended(Queue(k)', Queue(k), Count + 1)
    BY <1>2 DEF Queueing, Enqueued
  <2>2. CASE n # k
    BY <2>1, <2>2
  <2>3. CASE n = k
    <3>1. a \in 1 .. Len(Queue(n)) \/ a = Len(Queue(n)) + 1
      BY <1>0, <2>1, <2>3 DEF Extended
    <3> QED
      BY <1>2, <2>1, <2>3, <3>1 DEF Extended
  <2> QED
    BY <2>2, <2>3
<1>3. ASSUME NEW L, NEW i, Dequeued(L, i), n \in 1 .. L
      PROVE  /\ n \in 1 .. Depth /\ Inst(n)' = Inst(n)
             /\ \E b \in 1 .. Len(Queue(n)) : Queue(n)'[a] = Queue(n)[b]
  <2>1. /\ n \in 1 .. Depth /\ Inst(n)' = Inst(n) /\ (n # L => Queue(n)' = Queue(n))
        /\ Shifted(Queue(L)', Queue(L)) /\ L \in 1 .. Depth
    BY <1>0, <1>3 DEF Dequeued
  <2>2. CASE n # L
    BY <2>1, <2>2
  <2>3. CASE n = L
    <3>1. a \in 1 .. Len(Queue(n)) - 1 /\ a + 1 \in 1 .. Len(Queue(n))
      BY <1>0, <2>1, <2>3 DEF Shifted
    <3> QED
      BY <2>1, <2>3, <3>1 DEF Shifted
  <2> QED
    BY <2>2, <2>3
<1>4. ASSUME NEW L, NEW i, Taking(L, i)
      PROVE  Dequeued(L, i) /\ n \in 1 .. L
  <2>1. Dequeued(L, i) /\ Depth' = L + 1 /\ Queue(L + 1)' = <<>> /\ L = Depth
    BY <1>4 DEF Taking, Taken, Dequeued
  <2>2. Len(<<>>) = 0
    OBVIOUS
  <2>3. n # L + 1
    BY <2>1, <2>2
  <2> QED
    BY <1>0, <2>1, <2>3
<1>5. ASSUME NEW t, NEW k, NEW L, NEW i, Starting(t, k, L, i)
      PROVE  Dequeued(L, i) /\ n \in 1 .. L
  BY <1>5 DEF Starting
<1>6. ASSUME NEW L, NEW closes, NEW done, Popping(L, closes, done)
      PROVE  n \in 1 .. Depth /\ Inst(n)' = Inst(n) /\ Queue(n)' = Queue(n)
  BY <1>0, <1>6 DEF Popping, Popped
<1> QED
  BY <1>1, <1>2, <1>3, <1>4, <1>5, <1>6 DEF StepKind, Neutral, Finishing

LEMMA HomesStep ==
  ASSUME Basics, Basics', OInv, Kept, StepKind
  PROVE  Homes'
<1>0. Homes
  BY DEF OInv, Placed
<1>1. \A j \in Ids : /\ j \in Ids' /\ instances'[j].home = instances[j].home
                     /\ instances'[j].kind = instances[j].kind
                     /\ instances'[j].class = instances[j].class
  BY DEF Kept, SameKind
<1>2. ASSUME NEW k, NEW kind, NEW class, NEW target, Queueing(k, kind, class, target)
      PROVE  /\ instances'[Count + 1].home = Inst(k) /\ Ids' = Ids \cup {Count + 1}
             /\ instances'[Count + 1].kind = "undoRedo" =>
                  Inst(k) = Root /\ instances'[Count + 1].class.affinity = "UI"
  <2>1. instances'[Count + 1] = MakeCommand(kind, class, target, Inst(k)) /\ Count' = Count + 1
    BY <1>2 DEF Queueing, Enqueued
  <2>2. Ids' = 1 .. Count + 1 /\ Ids = 1 .. Count /\ Count \in Nat
    BY <2>1 DEF Basics
  <2> QED
    BY <1>2, <2>1, <2>2 DEF MakeCommand, Queueing, UndoRedoClass, BatchClass
<1>3. ASSUME NEW n \in 1 .. Depth', NEW a \in 1 .. Len(Queue(n)')
      PROVE  instances'[Queue(n)'[a]].home = Inst(n)'
  <2>1. n \in 1 .. Depth /\ Inst(n)' = Inst(n)
    BY QueueSources
  <2>2. CASE \E b \in 1 .. Len(Queue(n)) : Queue(n)'[a] = Queue(n)[b]
    <3>1. PICK b \in 1 .. Len(Queue(n)) : Queue(n)'[a] = Queue(n)[b]
      BY <2>2
    <3>2. Queue(n)[b] \in Ids
      BY <2>1 DEF Basics
    <3> QED
      BY <1>0, <1>1, <2>1, <3>1, <3>2 DEF Homes
  <2>3. CASE \E kind, class, target : Queueing(n, kind, class, target) /\ Queue(n)'[a] = Count + 1
    BY <1>2, <2>1, <2>3
  <2> QED
    BY <2>2, <2>3, QueueSources
<1>4. ASSUME NEW n \in 2 .. Depth'
      PROVE  instances'[Inst(n)'].home = Inst(n - 1)' /\ instances'[Inst(n)'].kind # "undoRedo"
  <2>1. n \in 1 .. Depth' /\ n - 1 \in 1 .. Depth' /\ n \in Nat
    BY DEF Basics, FramesSized
  <2>2. CASE n \in 1 .. Depth /\ Inst(n)' = Inst(n)
    <3>1. n \in 2 .. Depth /\ n - 1 \in 1 .. Depth /\ Depth \in Nat
      BY <2>1, <2>2 DEF Basics, FramesSized
    <3>2. Inst(n - 1)' = Inst(n - 1)
      <4>1. ASSUME NEW L, L = Depth PROVE n - 1 # L + 1
        BY <2>1, <3>1, <4>1
      <4> QED
        BY <2>1, <4>1, InstSources
    <3>3. Inst(n) \in Ids
      BY <3>1 DEF Basics
    <3> QED
      BY <1>0, <1>1, <2>2, <3>1, <3>2, <3>3 DEF Homes
  <2>3. ASSUME NEW L, NEW i, Taking(L, i), n = L + 1, L = Depth, Inst(n)' = i
        PROVE  instances'[Inst(n)'].home = Inst(n - 1)' /\ instances'[Inst(n)'].kind # "undoRedo"
    <3>1. /\ Len(Queue(L)) > 0 /\ i = Queue(L)[1] /\ \A m \in 1 .. L : Inst(m)' = Inst(m)
          /\ i \in Ids /\ instances[i].kind # "undoRedo"
      BY <2>3 DEF Taking, Taken, Dequeued
    <3>2. n - 1 = L /\ L \in 1 .. Depth /\ 1 \in 1 .. Len(Queue(L))
      BY <2>3, <3>1 DEF Basics, FramesSized, Sized
    <3>3. instances[i].home = Inst(L)
      BY <1>0, <3>1, <3>2 DEF Homes
    <3> QED
      BY <1>1, <2>3, <3>1, <3>2, <3>3
  <2> QED
    BY <2>1, <2>2, <2>3, InstSources
<1>5. ASSUME NEW i \in Ids', instances'[i].kind = "undoRedo"
      PROVE  instances'[i].home = Root /\ instances'[i].class.affinity = "UI"
  <2>1. CASE i \in Ids
    BY <1>0, <1>1, <1>5, <2>1 DEF Homes
  <2>2. CASE \E k, kind, class, target : Queueing(k, kind, class, target)
    BY <1>2, <1>5, <2>1, <2>2
  <2>3. CASE Ids' = Ids
    BY <2>1, <2>3
  <2> QED
    BY <2>2, <2>3, TableKept DEF StepKind, Neutral, Taking, Starting, Popping, Finishing, SameTables
<1> QED
  BY <1>3, <1>4, <1>5 DEF Homes

\* Grouped, for one frame and for one batch begun there.
GroupsFrom(n) == Len(Groups(n)) > 0 /\ Groups(n)[1] = Inst(n)
GroupAt(n, k) ==
  /\ Groups(n)[k] \in Ids
  /\ instances[Groups(n)[k]].kind = "begin" /\ instances[Groups(n)[k]].home = Inst(n)
  /\ \A j \in 2 .. Len(Groups(n)) : Groups(n)[j] = Groups(n)[k] => j = k
  /\ \A m \in 1 .. Depth : Inst(m) = Groups(n)[k] => m = n + 1 /\ k = Len(Groups(n))
BeginAbove(n) ==
  instances[Inst(n + 1)].kind = "begin" => Groups(n)[Len(Groups(n))] = Inst(n + 1)

LEMMA GroupedParts ==
  Grouped <=> /\ \A n \in 1 .. Depth : GroupsFrom(n) /\ \A k \in 2 .. Len(Groups(n)) : GroupAt(n, k)
              /\ \A n \in 1 .. Depth - 1 : BeginAbove(n)
BY DEF Grouped, GroupsFrom, GroupAt, BeginAbove

LEMMA GroupedPartsNext ==
  Grouped' <=>
    /\ \A n \in 1 .. Depth' : GroupsFrom(n)' /\ \A k \in 2 .. Len(Groups(n)') : GroupAt(n, k)'
    /\ \A n \in 1 .. Depth' - 1 : BeginAbove(n)'
BY DEF Grouped, GroupsFrom, GroupAt, BeginAbove

LEMMA GroupedStep ==
  ASSUME Basics, Basics', OInv, Kept, StepKind
  PROVE  Grouped'
<1>0. /\ \A n \in 1 .. Depth : GroupsFrom(n) /\ \A k \in 2 .. Len(Groups(n)) : GroupAt(n, k)
      /\ \A n \in 1 .. Depth - 1 : BeginAbove(n)
      /\ Depth \in Nat /\ Depth' \in Nat
      /\ \A n \in 1 .. Depth : Len(Groups(n)) \in Nat
  BY GroupedParts DEF OInv, Placed, Basics, FramesSized, Sized
<1>1. \A j \in Ids : /\ j \in Ids' /\ instances'[j].home = instances[j].home
                     /\ instances'[j].kind = instances[j].kind
  BY DEF Kept, SameKind
<1>2. \A n \in 1 .. Depth - 1 : n \in 1 .. Depth /\ n + 1 \in 1 .. Depth /\ Inst(n + 1) \in Ids
  BY DEF Basics, FramesSized
<1>3. CASE Depth' = Depth /\ \A n \in 1 .. Depth : Groups(n)' = Groups(n) /\ Inst(n)' = Inst(n)
  <2>1. ASSUME NEW n \in 1 .. Depth'
        PROVE  GroupsFrom(n)' /\ \A k \in 2 .. Len(Groups(n)') : GroupAt(n, k)'
    BY <1>0, <1>1, <1>3 DEF GroupsFrom, GroupAt
  <2>2. ASSUME NEW n \in 1 .. Depth' - 1
        PROVE  BeginAbove(n)'
    BY <1>0, <1>1, <1>2, <1>3 DEF BeginAbove
  <2> QED
    BY <2>1, <2>2, GroupedPartsNext
<1>4. ASSUME NEW L, NEW i, Taking(L, i) PROVE Grouped'
  <2>1. /\ L = Depth /\ Depth' = L + 1 /\ L \in 1 .. Depth /\ i \in Ids /\ Len(Queue(L)) > 0
        /\ i = Queue(L)[1] /\ Inst(L + 1)' = i /\ Groups(L + 1)' = <<i>>
        /\ \A n \in 1 .. L : Inst(n)' = Inst(n) /\ (n # L => Groups(n)' = Groups(n))
        /\ IF instances[i].kind = "begin" THEN Extended(Groups(L)', Groups(L), i)
                                          ELSE Groups(L)' = Groups(L)
    BY <1>4, <1>0 DEF Taking, Taken, Dequeued, Basics, FramesSized
  <2>2. /\ \A n : n \in 1 .. Depth' <=> n \in 1 .. Depth \/ n = L + 1
        /\ 1 \in 1 .. Len(Queue(L)) /\ L + 1 # L
    <3>1. Len(Queue(L)) \in Nat
      BY <2>1 DEF Basics, FramesSized, Sized
    <3> QED
      BY <1>0, <2>1, <3>1
  <2>3. instances[i].home = Inst(L) /\ ~InGroup(i)
    <3>1. InQueue(i)
      BY <2>1, <2>2 DEF InQueue
    <3> QED
      BY <2>1, <2>2, <3>1 DEF OInv, Placed, Homes, Ordered, Statuses
  <2>4. \A n \in 1 .. Depth : \A k \in 2 .. Len(Groups(n)) : Groups(n)[k] # i
    BY <2>3 DEF InGroup
  <2>5. \A n \in 1 .. Depth : n # L + 1 /\ Inst(n) # i
    BY <2>1, <2>2, <1>0 DEF Basics
  <2>6. ASSUME NEW n \in 1 .. Depth, n # L
        PROVE  GroupsFrom(n)' /\ \A k \in 2 .. Len(Groups(n)') : GroupAt(n, k)'
    <3>1. Groups(n)' = Groups(n) /\ Inst(n)' = Inst(n)
      BY <2>1, <2>6
    <3>2. GroupsFrom(n)'
      BY <1>0, <3>1 DEF GroupsFrom
    <3>3. ASSUME NEW k \in 2 .. Len(Groups(n)') PROVE GroupAt(n, k)'
      <4>1. GroupAt(n, k) /\ Groups(n)[k] # i
        BY <1>0, <2>4, <3>1
      <4>2. \A m \in 1 .. Depth' : Inst(m)' = Groups(n)[k] => m = n + 1 /\ k = Len(Groups(n))
        BY <2>1, <2>2, <4>1 DEF GroupAt
      <4> QED
        BY <1>1, <3>1, <4>1, <4>2 DEF GroupAt
    <3> QED
      BY <3>2, <3>3
  <2>7. GroupsFrom(L)' /\ \A k \in 2 .. Len(Groups(L)') : GroupAt(L, k)'
    <3>1. \A k \in 1 .. Len(Groups(L)) : Groups(L)'[k] = Groups(L)[k]
      BY <2>1 DEF Extended
    <3>2. Len(Groups(L)) > 0 /\ Groups(L)[1] = Inst(L) /\ Len(Groups(L)) \in Nat
      BY <1>0, <2>1 DEF GroupsFrom
    <3>3. \/ Len(Groups(L)') = Len(Groups(L))
          \/ /\ Len(Groups(L)') = Len(Groups(L)) + 1 /\ Groups(L)'[Len(Groups(L)) + 1] = i
             /\ instances[i].kind = "begin"
      BY <2>1 DEF Extended
    <3>4. GroupsFrom(L)'
      BY <2>1, <3>1, <3>2, <3>3 DEF GroupsFrom
    <3>5. ASSUME NEW k \in 2 .. Len(Groups(L)') PROVE GroupAt(L, k)'
      <4>1. CASE k \in 2 .. Len(Groups(L))
        <5>1. GroupAt(L, k) /\ Groups(L)'[k] = Groups(L)[k] /\ Groups(L)[k] # i
          BY <1>0, <2>1, <2>4, <3>1, <3>2, <4>1
        <5>2. \A m \in 1 .. Depth' : Inst(m)' # Groups(L)[k]
          BY <2>1, <2>2, <2>5, <5>1 DEF GroupAt
        <5>3. \A j \in 2 .. Len(Groups(L)') : Groups(L)'[j] = Groups(L)[k] => j = k
          <6>1. \A j \in 2 .. Len(Groups(L)') : j \in 2 .. Len(Groups(L)) \/ Groups(L)'[j] = i
            BY <3>2, <3>3
          <6>2. \A j \in 2 .. Len(Groups(L)) : Groups(L)'[j] = Groups(L)[j]
            BY <3>1, <3>2
          <6> QED
            BY <5>1, <6>1, <6>2 DEF GroupAt
        <5> QED
          BY <1>1, <2>1, <5>1, <5>2, <5>3 DEF GroupAt
      <4>2. CASE k \notin 2 .. Len(Groups(L))
        <5>1. /\ k = Len(Groups(L)') /\ Groups(L)'[k] = i /\ instances[i].kind = "begin"
          BY <3>2, <3>3, <4>2
        <5>2. \A j \in 2 .. Len(Groups(L)') : Groups(L)'[j] = i => j = k
          <6>1. \A j \in 2 .. Len(Groups(L)') : j = k \/ j \in 2 .. Len(Groups(L))
            BY <3>2, <3>3, <5>1
          <6>2. \A j \in 2 .. Len(Groups(L)) : Groups(L)'[j] # i
            BY <2>1, <2>4, <3>1, <3>2
          <6> QED
            BY <6>1, <6>2
        <5>3. \A m \in 1 .. Depth' : Inst(m)' = i => m = L + 1
          BY <2>1, <2>2, <2>5
        <5> QED
          BY <1>1, <2>1, <2>3, <5>1, <5>2, <5>3 DEF GroupAt
      <4> QED
        BY <4>1, <4>2
    <3> QED
      BY <3>4, <3>5
  <2>8. GroupsFrom(L + 1)' /\ \A k \in 2 .. Len(Groups(L + 1)') : GroupAt(L + 1, k)'
    <3>1. Len(<<i>>) = 1 /\ <<i>>[1] = i /\ 2 .. 1 = {}
      OBVIOUS
    <3>2. PICK n : n = L + 1
      OBVIOUS
    <3>3. Groups(n)' = <<i>> /\ Inst(n)' = i
      BY <2>1, <3>2
    <3>4. Len(Groups(n)') = 1 /\ Groups(n)'[1] = Inst(n)'
      BY <3>1, <3>3
    <3>5. GroupsFrom(n)' /\ \A k \in 2 .. Len(Groups(n)') : FALSE
      BY <3>1, <3>4 DEF GroupsFrom
    <3> QED
      BY <3>2, <3>5
  <2>9. ASSUME NEW n \in 1 .. Depth' - 1
        PROVE  BeginAbove(n)'
    <3>1. CASE n = L
      <4>1. instances'[i].kind = "begin" => Groups(L)'[Len(Groups(L)')] = i
        BY <1>0, <1>1, <2>1 DEF Extended
      <4> QED
        BY <2>1, <3>1, <4>1 DEF BeginAbove
    <3>2. CASE n # L
      <4>1. n \in 1 .. Depth - 1
        BY <1>0, <2>1, <3>2
      <4> QED
        BY <1>0, <1>1, <1>2, <2>1, <3>2, <4>1 DEF BeginAbove
    <3> QED
      BY <3>1, <3>2
  <2>10. ASSUME NEW n \in 1 .. Depth'
         PROVE  GroupsFrom(n)' /\ \A k \in 2 .. Len(Groups(n)') : GroupAt(n, k)'
    BY <2>2, <2>6, <2>7, <2>8
  <2> QED
    BY <2>9, <2>10, GroupedPartsNext
<1>5. ASSUME NEW L, NEW closes, NEW done, Popping(L, closes, done) PROVE Grouped'
  <2>1. Leaving(L, closes, done)
    BY <1>5, PopLeaves
  <2>2. /\ Depth' = L - 1 /\ L = Depth /\ closes \in BOOLEAN
        /\ \A n \in 1 .. L - 1 : Inst(n)' = Inst(n) /\ (n # L - 1 => Groups(n)' = Groups(n))
        /\ IF closes THEN Shortened(Groups(L - 1)', Groups(L - 1))
                     ELSE Groups(L - 1)' = Groups(L - 1)
    BY <1>5 DEF Popping, Popped
  <2>3. /\ \A n : n \in 1 .. L - 1 <=> n \in 1 .. Depth /\ n # L
        /\ closes => Len(Groups(L - 1)) > 1
        /\ L \in Nat /\ L - 1 \in 1 .. Depth
    BY <2>1 DEF Leaving
  <2>4. ASSUME NEW n \in 1 .. L - 1
        PROVE  /\ Len(Groups(n)') > 0 /\ Len(Groups(n)') <= Len(Groups(n))
               /\ Len(Groups(n)') \in Nat
               /\ n # L - 1 => Len(Groups(n)') = Len(Groups(n))
               /\ \A k \in 1 .. Len(Groups(n)') : Groups(n)'[k] = Groups(n)[k]
    <3>1. Len(Groups(n)) \in Nat /\ Len(Groups(n)) > 0
      BY <1>0, <2>3 DEF GroupsFrom
    <3>2. CASE closes /\ n = L - 1
      BY <2>2, <2>3, <3>1, <3>2 DEF Shortened
    <3>3. CASE ~(closes /\ n = L - 1)
      <4>1. Groups(n)' = Groups(n)
        BY <2>2, <3>3
      <4> QED
        BY <3>1, <4>1
    <3> QED
      BY <3>2, <3>3
  <2>5. ASSUME NEW n \in 1 .. Depth'
        PROVE  GroupsFrom(n)' /\ \A k \in 2 .. Len(Groups(n)') : GroupAt(n, k)'
    <3>0. n \in 1 .. L - 1 /\ n \in 1 .. Depth /\ n \in Nat
      BY <2>2, <2>3
    <3>a. /\ Len(Groups(n)') > 0 /\ Len(Groups(n)') <= Len(Groups(n))
          /\ Len(Groups(n)') \in Nat /\ Len(Groups(n)) \in Nat
          /\ \A k \in 1 .. Len(Groups(n)') : Groups(n)'[k] = Groups(n)[k]
      BY <1>0, <2>4, <3>0
    <3>b. 1 \in 1 .. Len(Groups(n)')
      BY <3>a
    <3>1. GroupsFrom(n)'
      BY <1>0, <2>2, <3>0, <3>a, <3>b DEF GroupsFrom
    <3>2. ASSUME NEW k \in 2 .. Len(Groups(n)') PROVE GroupAt(n, k)'
      <4>1. k \in 2 .. Len(Groups(n)) /\ Groups(n)'[k] = Groups(n)[k]
        BY <3>a
      <4>2. GroupAt(n, k)
        BY <1>0, <3>0, <4>1
      <4>3. \A j \in 2 .. Len(Groups(n)') :
              j \in 2 .. Len(Groups(n)) /\ Groups(n)'[j] = Groups(n)[j]
        BY <3>a
      <4>4. \A m \in 1 .. Depth' : Inst(m)' = Groups(n)[k] => m = n + 1 /\ k = Len(Groups(n)')
        <5>1. ASSUME NEW m \in 1 .. Depth', Inst(m)' = Groups(n)[k]
              PROVE  m = n + 1 /\ k = Len(Groups(n)')
          <6>1. m \in 1 .. L - 1 /\ m \in 1 .. Depth /\ Inst(m) = Groups(n)[k]
            BY <2>2, <2>3, <5>1
          <6>2. m = n + 1 /\ k = Len(Groups(n))
            BY <4>2, <6>1 DEF GroupAt
          <6>3. n # L - 1
            BY <2>3, <6>1, <6>2
          <6> QED
            BY <2>4, <3>0, <6>2, <6>3
        <5> QED
          BY <5>1
      <4> QED
        BY <1>1, <2>2, <3>0, <4>1, <4>2, <4>3, <4>4 DEF GroupAt
    <3> QED
      BY <3>1, <3>2
  <2>6. ASSUME NEW n \in 1 .. Depth' - 1
        PROVE  BeginAbove(n)'
    <3>1. n \in 1 .. Depth - 1 /\ n \in 1 .. L - 1 /\ n # L - 1 /\ n + 1 \in 1 .. L - 1
      BY <1>0, <2>2, <2>3
    <3>2. Groups(n)' = Groups(n) /\ Inst(n + 1)' = Inst(n + 1)
      BY <2>2, <3>1
    <3> QED
      BY <1>0, <1>1, <1>2, <3>1, <3>2 DEF BeginAbove
  <2> QED
    BY <2>5, <2>6, GroupedPartsNext
<1>6. CASE \E k, kind, class, target : Queueing(k, kind, class, target)
  BY <1>3, <1>6 DEF Queueing, Enqueued
<1>7. CASE \E t, k, L, i : Starting(t, k, L, i)
  BY <1>3, <1>7 DEF Starting, Dequeued
<1>8. CASE FramesKept
  BY <1>3, <1>8 DEF FramesKept
<1> QED
  BY <1>4, <1>5, <1>6, <1>7, <1>8 DEF StepKind, Neutral, Finishing

\* Nestings, for one frame; the first part holds of the root frame too when nothing
\* closes a batch there that is not open.
Deep(n) == (\E d : Nested(n, d)) /\ Open(n)[1] = Inst(n)
Nests(n) == Deep(n) /\ (instances[Inst(n)].kind # "set" => Len(Open(n)) = 1)

LEMMA NestsParts ==
  /\ Nestings <=> \A n \in 2 .. Depth : Nests(n)
  /\ Nestings' <=> \A n \in 2 .. Depth' : Nests(n)'
BY DEF Nestings, Nests, Deep

\* A frame nothing happens to, and below one whose instance is the same.
LEMMA DeepKept ==
  ASSUME Basics, Kept, NEW n \in 1 .. Depth, Deep(n),
         Inst(n)' = Inst(n), Queue(n)' = Queue(n), Groups(n)' = Groups(n), Open(n)' = Open(n),
         n < Depth' <=> n < Depth, n < Depth => Inst(n + 1)' = Inst(n + 1)
  PROVE  Deep(n)'
<1>1. PICK d : Nested(n, d)
  BY DEF Deep
<1>2. \A j \in Ids : instances'[j].kind = instances[j].kind
  BY DEF Kept, SameKind
<1>3. \A a \in 1 .. Len(Queue(n)) : Queue(n)[a] \in Ids
  BY DEF Basics
<1>4. n < Depth => Inst(n + 1) \in Ids
  <2>1. n < Depth => n + 1 \in 2 .. Depth
    BY DEF Basics, FramesSized
  <2> QED
    BY <2>1 DEF Basics
<1>5. Standing(n)' = Standing(n)
  BY <1>2, <1>4 DEF Standing, Closing
<1>6. Nested(n, d)'
  BY <1>1, <1>2, <1>3, <1>5 DEF Nested
<1> QED
  BY <1>6 DEF Deep

LEMMA NestsKept ==
  ASSUME Basics, Kept, NEW n \in 2 .. Depth, Nests(n),
         Inst(n)' = Inst(n), Queue(n)' = Queue(n), Groups(n)' = Groups(n), Open(n)' = Open(n),
         n < Depth' <=> n < Depth, n < Depth => Inst(n + 1)' = Inst(n + 1)
  PROVE  Nests(n)'
<1>1. n \in 1 .. Depth /\ Inst(n) \in Ids
  BY DEF Basics, FramesSized
<1>2. Deep(n)'
  BY <1>1, DeepKept DEF Nests
<1> QED
  BY <1>1, <1>2 DEF Nests, Kept, SameKind

\* The stack queue after queueCommand.
LEMMA StackQueueDepth ==
  ASSUME NEW q \in Seq(Nat), NEW kind, NEW i \in Nat, Len(q) > 0,
         kind \in {"end", "abort"} => Len(q) > 1,
         NEW s, s = StackQueueAfter(q, kind, i)
  PROVE  /\ Len(s) = DepthAfter(Len(q), kind) /\ Len(s) \in Nat \ {0} /\ s[1] = q[1]
         /\ kind \notin {"begin", "end", "abort"} => s = q
<1>1. CASE kind = "begin"
  BY <1>1 DEF StackQueueAfter, DepthAfter
<1>2. CASE kind \in {"end", "abort"}
  <2>1. q # <<>> /\ kind # "begin"
    BY <1>2
  <2>2. s = Front(q) /\ Len(q) \in Nat
    BY <1>2, <2>1 DEF StackQueueAfter
  <2>3. Shortened(s, q)
    BY <2>1, <2>2, SeqEdits
  <2>4. Len(s) = Len(q) - 1 /\ s[1] = q[1]
    BY <1>2, <2>2, <2>3 DEF Shortened
  <2> QED
    BY <1>2, <2>1, <2>2, <2>4 DEF DepthAfter
<1>3. CASE kind \notin {"begin", "end", "abort"}
  <2>1. s = q /\ DepthAfter(Len(q), kind) = Len(q)
    BY <1>3 DEF StackQueueAfter, DepthAfter
  <2> QED
    BY <1>3, <2>1
<1> QED
  BY <1>1, <1>2, <1>3

\* Depth profiles with one more or one less step.
LEMMA ProfileEdits ==
  ASSUME NEW m \in Nat, NEW d \in [1 .. m + 1 -> Nat \ {0}]
  PROVE  /\ \A x \in Nat \ {0} :
              \E e \in [1 .. m + 2 -> Nat \ {0}] :
                e[m + 2] = x /\ \A a \in 1 .. m + 1 : e[a] = d[a]
         /\ m > 0 => \E e \in [1 .. m -> Nat \ {0}] : \A a \in 1 .. m : e[a] = d[a + 1]
<1>1. ASSUME NEW x \in Nat \ {0}
      PROVE  \E e \in [1 .. m + 2 -> Nat \ {0}] :
                e[m + 2] = x /\ \A a \in 1 .. m + 1 : e[a] = d[a]
  <2> DEFINE e == [a \in 1 .. m + 2 |-> IF a = m + 2 THEN x ELSE d[a]]
  <2>1. e \in [1 .. m + 2 -> Nat \ {0}]
    <3>1. \A a \in 1 .. m + 2 : a = m + 2 \/ a \in 1 .. m + 1
      OBVIOUS
    <3> QED
      BY <3>1
  <2>2. e[m + 2] = x /\ \A a \in 1 .. m + 1 : e[a] = d[a]
    OBVIOUS
  <2> HIDE DEF e
  <2> QED
    BY <2>1, <2>2
<1>2. ASSUME m > 0
      PROVE  \E e \in [1 .. m -> Nat \ {0}] : \A a \in 1 .. m : e[a] = d[a + 1]
  <2> DEFINE e == [a \in 1 .. m |-> d[a + 1]]
  <2>1. e \in [1 .. m -> Nat \ {0}] /\ \A a \in 1 .. m : e[a] = d[a + 1]
    OBVIOUS
  <2> HIDE DEF e
  <2> QED
    BY <2>1
<1> QED
  BY <1>1, <1>2

\* The frame an instance is queued on.
LEMMA DeepEnqueued ==
  ASSUME IInv, Basics, Kept, NEW k \in 1 .. Depth, Deep(k),
         NEW kind, NEW class, NEW target, Queueing(k, kind, class, target),
         kind \in {"end", "abort"} => Len(Open(k)) > 1
  PROVE  /\ Deep(k)'
         /\ kind \notin {"begin", "end", "abort"} => Open(k)' = Open(k)
<1>1. PICK d : Nested(k, d)
  BY DEF Deep
<1>2. /\ Depth' = Depth /\ \A n \in 1 .. Depth : Inst(n)' = Inst(n) /\ Groups(n)' = Groups(n)
      /\ Extended(Queue(k)', Queue(k), Count + 1)
      /\ Open(k)' = StackQueueAfter(Open(k), kind, Count + 1) /\ Count \in Nat
      /\ instances'[Count + 1] = MakeCommand(kind, class, target, Inst(k))
  BY DEF Queueing, Enqueued
<1>3. \A j \in Ids : instances'[j].kind = instances[j].kind
  BY DEF Kept, SameKind
<1>4. /\ \A a \in 1 .. Len(Queue(k)) : Queue(k)[a] \in Ids
      /\ Len(Queue(k)) \in Nat
      /\ k < Depth => k + 1 \in 1 .. Depth /\ Inst(k + 1) \in Ids
  <2>1. k < Depth => k + 1 \in 1 .. Depth /\ k + 1 \in 2 .. Depth
    BY DEF Basics, FramesSized
  <2> QED
    BY <2>1 DEF Basics, FramesSized, Sized
<1>5. Standing(k)' = Standing(k)
  BY <1>2, <1>3, <1>4 DEF Standing, Closing
<1>6. d[Len(Queue(k)) + 1] = Len(Open(k)) /\ d \in [1 .. Len(Queue(k)) + 1 -> Nat \ {0}]
  BY <1>1 DEF Nested
<1>7. Len(Open(k)) > 0 /\ Open(k)[1] = Inst(k)
  BY <1>4, <1>6 DEF Deep
<1>9. Open(k) \in Seq(Nat)
  <2>1. commandFrames[k] \in FrameRecord
    BY <1>4 DEF IInv, Shape, Depth
  <2> QED
    BY <2>1 DEF FrameRecord, Open
<1>10. PICK s : s = StackQueueAfter(Open(k), kind, Count + 1)
  OBVIOUS
<1>11. /\ Len(s) = DepthAfter(Len(Open(k)), kind) /\ Len(s) \in Nat \ {0} /\ s[1] = Open(k)[1]
       /\ kind \notin {"begin", "end", "abort"} => s = Open(k)
  <2>1. Count + 1 \in Nat /\ (kind \in {"end", "abort"} => Len(Open(k)) > 1)
    BY <1>2
  <2> QED
    BY <1>7, <1>9, <1>10, <2>1, StackQueueDepth
<1>12. PICK e \in [1 .. Len(Queue(k)) + 2 -> Nat \ {0}] :
         e[Len(Queue(k)) + 2] = Len(s) /\ \A a \in 1 .. Len(Queue(k)) + 1 : e[a] = d[a]
  <2>1. PICK m \in Nat : m = Len(Queue(k))
    BY <1>4
  <2>2. d \in [1 .. m + 1 -> Nat \ {0}]
    BY <1>6, <2>1
  <2>3. \A x \in Nat \ {0} :
          \E e \in [1 .. m + 2 -> Nat \ {0}] :
            e[m + 2] = x /\ \A a \in 1 .. m + 1 : e[a] = d[a]
    BY <2>2, ProfileEdits
  <2> QED
    BY <1>11, <2>1, <2>3
<1>13. Len(Queue(k)') = Len(Queue(k)) + 1 /\ Len(Queue(k)') + 1 = Len(Queue(k)) + 2
  BY <1>2, <1>4 DEF Extended
<1>14. ASSUME NEW a \in 1 .. Len(Queue(k)')
       PROVE  e[a + 1] = DepthAfter(e[a], instances'[Queue(k)'[a]].kind)
  <2>1. CASE a \in 1 .. Len(Queue(k))
    <3>1. a + 1 \in 1 .. Len(Queue(k)) + 1 /\ a \in 1 .. Len(Queue(k)) + 1
      BY <1>4, <2>1
    <3>2. d[a + 1] = DepthAfter(d[a], instances[Queue(k)[a]].kind)
      BY <1>1, <2>1 DEF Nested
    <3>3. Queue(k)'[a] = Queue(k)[a]
      BY <1>2, <2>1 DEF Extended
    <3> QED
      BY <1>3, <1>4, <1>12, <2>1, <3>1, <3>2, <3>3
  <2>2. CASE a = Len(Queue(k)) + 1
    <3>1. a + 1 = Len(Queue(k)) + 2 /\ a \in 1 .. Len(Queue(k)) + 1
      BY <1>4, <2>2
    <3>2. Queue(k)'[a] = Count + 1 /\ instances'[Count + 1].kind = kind
      BY <1>2, <2>2 DEF Extended, MakeCommand
    <3> QED
      BY <1>6, <1>11, <1>12, <2>2, <3>1, <3>2
  <2> QED
    BY <1>4, <1>13, <2>1, <2>2
<1>15. e[1] = Standing(k)'
  <2>1. 1 \in 1 .. Len(Queue(k)) + 1
    BY <1>4
  <2> QED
    BY <1>1, <1>5, <1>12, <2>1 DEF Nested
<1>16. Open(k)' = s
  BY <1>2, <1>10
<1>17. Nested(k, e)'
  BY <1>12, <1>13, <1>14, <1>15, <1>16 DEF Nested
<1> QED
  BY <1>2, <1>7, <1>11, <1>16, <1>17 DEF Deep

LEMMA NestsEnqueued ==
  ASSUME IInv, Basics, Kept, NEW k \in 2 .. Depth, Nests(k),
         NEW kind, NEW class, NEW target, Queueing(k, kind, class, target)
  PROVE  Nests(k)'
<1>1. k \in 1 .. Depth /\ k > 1 /\ Inst(k) \in Ids /\ Inst(k) # Root
  BY DEF Basics, FramesSized, Root
<1>2. kind # "set" /\ kind # "undoRedo" =>
        instances[Inst(k)].kind = "set" /\ (kind \in {"end", "abort"} => Len(Open(k)) > 1)
  BY <1>1 DEF Queueing
<1>3. /\ Deep(k)' /\ (kind \notin {"begin", "end", "abort"} => Open(k)' = Open(k))
  BY <1>1, <1>2, DeepEnqueued DEF Nests
<1>4. Inst(k)' = Inst(k) /\ instances'[Inst(k)].kind = instances[Inst(k)].kind
  BY <1>1 DEF Queueing, Enqueued, Kept, SameKind
<1>5. kind # "undoRedo"
  BY <1>1 DEF Queueing
<1>6. kind = "set" => Open(k)' = Open(k)
  BY <1>3
<1> QED
  BY <1>2, <1>3, <1>4, <1>5, <1>6 DEF Nests

\* The frame an instance leaves, and the one it gets.
LEMMA DeepTaken ==
  ASSUME Basics, Kept, NEW L, NEW i, Taking(L, i)
  PROVE  /\ Deep(L) => Deep(L)'
         /\ Deep(L + 1)' /\ Len(Open(L + 1)') = 1
<1>1. /\ L = Depth /\ Depth' = L + 1 /\ L \in 1 .. Depth /\ L \in Nat
      /\ i \in Ids /\ Len(Queue(L)) > 0 /\ Len(Queue(L)) \in Nat
      /\ i = Queue(L)[1] /\ Inst(L + 1)' = i /\ Groups(L + 1)' = <<i>>
      /\ Queue(L + 1)' = <<>> /\ Open(L + 1)' = <<i>>
      /\ Inst(L)' = Inst(L) /\ Open(L)' = Open(L) /\ Shifted(Queue(L)', Queue(L))
      /\ IF instances[i].kind = "begin" THEN Extended(Groups(L)', Groups(L), i)
                                        ELSE Groups(L)' = Groups(L)
      /\ Len(Groups(L)) \in Nat
  BY DEF Taking, Taken, Dequeued, Basics, FramesSized, Sized
<1>2. \A j \in Ids : instances'[j].kind = instances[j].kind
  BY DEF Kept, SameKind
<1>3. \A a \in 1 .. Len(Queue(L)) : Queue(L)[a] \in Ids
  BY <1>1 DEF Basics
<1>4. ASSUME Deep(L) PROVE Deep(L)'
  <2>2. PICK d : Nested(L, d)
    BY <1>4 DEF Deep
  <2>3. PICK m \in Nat : m = Len(Queue(L))
    BY <1>1
  <2>4. /\ d \in [1 .. m + 1 -> Nat \ {0}] /\ d[m + 1] = Len(Open(L))
        /\ \A a \in 1 .. m : d[a + 1] = DepthAfter(d[a], instances[Queue(L)[a]].kind)
    BY <2>2, <2>3 DEF Nested
  <2>5. PICK e \in [1 .. m -> Nat \ {0}] : \A a \in 1 .. m : e[a] = d[a + 1]
    BY <1>1, <2>3, <2>4, ProfileEdits
  <2>6. d[1] = Len(Groups(L))
    <3>1. ~(L < Depth)
      BY <1>1
    <3> QED
      BY <2>2, <3>1 DEF Nested, Standing
  <2>7. Len(Queue(L)') = m - 1 /\ \A a \in 1 .. m - 1 : Queue(L)'[a] = Queue(L)[a + 1]
    BY <1>1, <2>3 DEF Shifted
  <2>8. e[1] = Standing(L)'
    <3>1. e[1] = DepthAfter(Len(Groups(L)), instances[i].kind)
      <4>1. 1 \in 1 .. m /\ 1 + 1 = 2
        BY <1>1, <2>3
      <4>2. e[1] = d[1 + 1] /\ d[1 + 1] = DepthAfter(d[1], instances[Queue(L)[1]].kind)
        BY <2>4, <2>5, <4>1
      <4> QED
        BY <1>1, <2>6, <4>2
    <3>2. L < Depth' /\ instances'[Inst(L + 1)'].kind = instances[i].kind
      BY <1>1, <1>2
    <3>3. Standing(L)' = IF instances[i].kind \in {"end", "abort"}
                           THEN Len(Groups(L)') - 1 ELSE Len(Groups(L)')
      BY <3>2 DEF Standing, Closing
    <3>4. CASE instances[i].kind = "begin"
      <4>1. Len(Groups(L)') = Len(Groups(L)) + 1
        BY <1>1, <3>4 DEF Extended
      <4> QED
        BY <3>1, <3>3, <3>4, <4>1 DEF DepthAfter
    <3>5. CASE instances[i].kind # "begin"
      BY <1>1, <3>1, <3>3, <3>5 DEF DepthAfter
    <3> QED
      BY <3>4, <3>5
  <2>9. Nested(L, e)'
    <3>1. Len(Queue(L)') + 1 = m
      BY <2>7
    <3>2. e[m] = Len(Open(L)')
      <4>1. m \in 1 .. m
        BY <1>1, <2>3
      <4> QED
        BY <1>1, <2>4, <2>5, <4>1
    <3>3. ASSUME NEW a \in 1 .. m - 1
          PROVE  e[a + 1] = DepthAfter(e[a], instances'[Queue(L)'[a]].kind)
      <4>1. a + 1 \in 1 .. m /\ a \in 1 .. m
        OBVIOUS
      <4>2. Queue(L)'[a] = Queue(L)[a + 1] /\ Queue(L)[a + 1] \in Ids
        BY <1>3, <2>3, <2>7, <4>1
      <4>3. d[(a + 1) + 1] = DepthAfter(d[a + 1], instances[Queue(L)[a + 1]].kind)
        BY <2>4, <4>1
      <4>4. e[a + 1] = d[(a + 1) + 1] /\ e[a] = d[a + 1]
        BY <2>5, <4>1
      <4> QED
        BY <1>2, <4>2, <4>3, <4>4
    <3> QED
      BY <2>5, <2>7, <2>8, <3>1, <3>2, <3>3 DEF Nested
  <2> QED
    BY <1>1, <1>4, <2>9 DEF Deep
<1>5. Deep(L + 1)' /\ Len(Open(L + 1)') = 1
  <2>1. PICK n : n = L + 1
    OBVIOUS
  <2>2. /\ Inst(n)' = i /\ Groups(n)' = <<i>> /\ Queue(n)' = <<>> /\ Open(n)' = <<i>> /\ Depth' = n
    BY <1>1, <2>1
  <2>3. Len(<<i>>) = 1 /\ <<i>>[1] = i /\ Len(<<>>) = 0
    OBVIOUS
  <2>4. Standing(n)' = 1
    <3>1. ~(n < Depth')
      BY <1>1, <2>1, <2>2
    <3> QED
      BY <2>2, <2>3, <3>1 DEF Standing
  <2>5. PICK d \in [1 .. 1 -> Nat \ {0}] : d[1] = 1
    <3>1. [a \in 1 .. 1 |-> 1] \in [1 .. 1 -> Nat \ {0}] /\ [a \in 1 .. 1 |-> 1][1] = 1
      OBVIOUS
    <3> QED
      BY <3>1
  <2>6. Nested(n, d)'
    <3>1. Len(Queue(n)') + 1 = 1 /\ Len(Open(n)') = 1 /\ \A a \in 1 .. Len(Queue(n)') : FALSE
      BY <2>2, <2>3
    <3> QED
      BY <2>4, <2>5, <3>1 DEF Nested
  <2>7. Deep(n)' /\ Len(Open(n)') = 1
    BY <2>2, <2>3, <2>6 DEF Deep
  <2> QED
    BY <2>1, <2>7
<1> QED
  BY <1>4, <1>5

LEMMA NestsTaken ==
  ASSUME Basics, OInv, Kept, NEW L, NEW i, Taking(L, i)
  PROVE  /\ L > 1 => Nests(L)'
         /\ Nests(L + 1)'
<1>1. /\ L \in 1 .. Depth /\ (L > 1 => L \in 2 .. Depth /\ Inst(L) \in Ids)
      /\ Inst(L)' = Inst(L) /\ Open(L)' = Open(L)
  BY DEF Taking, Taken, Dequeued, Basics, FramesSized
<1>2. (Deep(L) => Deep(L)') /\ Deep(L + 1)' /\ Len(Open(L + 1)') = 1
  BY DeepTaken
<1>3. ASSUME L > 1 PROVE Nests(L)'
  <2>1. Nests(L)
    BY <1>1, <1>3, NestsParts DEF OInv, Placed
  <2> QED
    BY <1>1, <1>2, <1>3, <2>1 DEF Nests, Kept, SameKind
<1> QED
  BY <1>2, <1>3 DEF Nests

\* The frame below the one that goes.
LEMMA DeepPopped ==
  ASSUME Basics, OInv, Kept, NEW L, NEW closes, NEW done, Popping(L, closes, done), Deep(L - 1)
  PROVE  Deep(L - 1)'
<1>1. Leaving(L, closes, done)
  BY PopLeaves
<1>2. /\ Depth' = L - 1 /\ closes \in BOOLEAN /\ L = Depth
      /\ \A n \in 1 .. L - 1 : Inst(n)' = Inst(n) /\ Queue(n)' = Queue(n) /\ Open(n)' = Open(n)
      /\ IF closes THEN Shortened(Groups(L - 1)', Groups(L - 1))
                   ELSE Groups(L - 1)' = Groups(L - 1)
  BY DEF Popping, Popped
<1>3. PICK n : n = L - 1
  OBVIOUS
<1>4. n \in 1 .. Depth /\ n \in 1 .. L - 1 /\ n < Depth /\ n + 1 = L
  BY <1>1, <1>2, <1>3 DEF Leaving
<1>5. Deep(n)
  BY <1>3
<1>6. PICK d : Nested(n, d)
  BY <1>5 DEF Deep
<1>7. \A j \in Ids : instances'[j].kind = instances[j].kind
  BY DEF Kept, SameKind
<1>8. (\A a \in 1 .. Len(Queue(n)) : Queue(n)[a] \in Ids)
      /\ Len(Groups(n)) \in Nat
  BY <1>4 DEF Basics, FramesSized, Sized
<1>9. closes <=> Closing(Inst(L))
  <2>1. ASSUME Closing(Inst(L)) PROVE Last(Groups(n)) # Root
    <3>1. Len(Groups(n)) > 0 /\ Groups(n)[1] = Inst(n)
          /\ \A k \in 2 .. Len(Groups(n)) : Groups(n)[k] \in Ids
      BY <1>4 DEF OInv, Placed, Grouped
    <3>2. Len(Groups(n)) \in 2 .. Len(Groups(n))
      <4>1. Standing(n) = Len(Groups(n)) - 1
        BY <1>4, <2>1 DEF Standing
      <4>2. Standing(n) \in Nat \ {0}
        <5>1. PICK m \in Nat : m = Len(Queue(n))
          BY <1>4 DEF Basics, FramesSized, Sized
        <5>2. d \in [1 .. m + 1 -> Nat \ {0}] /\ d[1] = Standing(n) /\ 1 \in 1 .. m + 1
          BY <1>6, <5>1 DEF Nested
        <5> QED
          BY <5>2
      <4>3. PICK k \in Nat : k = Len(Groups(n))
        BY <1>8
      <4>4. PICK s \in Nat \ {0} : s = Standing(n)
        BY <4>2
      <4>5. s = k - 1
        BY <4>1, <4>3, <4>4
      <4>6. k \in 2 .. k
        BY <4>5
      <4> QED
        BY <4>3, <4>6
    <3>3. Groups(n)[Len(Groups(n))] \in Ids
      BY <1>8, <3>1, <3>2
    <3>4. Root \notin Ids
      BY DEF Basics, Root
    <3> QED
      BY <3>3, <3>4 DEF Last
  <2> QED
    BY <1>3, <2>1 DEF Popping
<1>10. Standing(n)' = Standing(n)
  <2>1. Standing(n)' = Len(Groups(n)')
    <3>1. ~(n < Depth')
      BY <1>2, <1>3, <1>4
    <3> QED
      BY <3>1 DEF Standing
  <2>2. Standing(n) = IF closes THEN Len(Groups(n)) - 1 ELSE Len(Groups(n))
    BY <1>4, <1>9 DEF Standing
  <2> QED
    BY <1>2, <1>3, <2>1, <2>2 DEF Shortened
<1>11. Inst(n)' = Inst(n) /\ Queue(n)' = Queue(n) /\ Open(n)' = Open(n)
  BY <1>2, <1>4
<1>12. Nested(n, d)'
  BY <1>6, <1>7, <1>8, <1>10, <1>11 DEF Nested
<1>13. Deep(n)'
  BY <1>5, <1>11, <1>12 DEF Deep
<1> QED
  BY <1>3, <1>13

LEMMA NestsPopped ==
  ASSUME Basics, OInv, Kept, NEW L, NEW closes, NEW done, Popping(L, closes, done), L > 2
  PROVE  Nests(L - 1)'
<1>1. Leaving(L, closes, done)
  BY PopLeaves
<1>2. PICK n : n = L - 1
  OBVIOUS
<1>3. n \in 2 .. Depth /\ n \in 1 .. L - 1
  BY <1>1, <1>2 DEF Leaving
<1>4. Nests(n) /\ Inst(n) \in Ids /\ Inst(n)' = Inst(n) /\ Open(n)' = Open(n)
  BY <1>3, NestsParts DEF OInv, Placed, Popping, Popped, Basics
<1>5. Deep(n)'
  BY <1>2, <1>4, DeepPopped DEF Nests
<1>6. Nests(n)'
  BY <1>4, <1>5 DEF Nests, Kept, SameKind
<1> QED
  BY <1>2, <1>6

LEMMA NestingsStep ==
  ASSUME IInv, Basics, Basics', OInv, Kept, StepKind
  PROVE  Nestings'
<1>0. /\ Depth \in Nat /\ Depth' \in Nat /\ \A n \in 2 .. Depth : Nests(n)
  BY NestsParts DEF OInv, Placed, Basics, FramesSized
<1>1. ASSUME NEW n \in 2 .. Depth' PROVE Nests(n)'
  <2>1. CASE FramesKept
    <3>1. n \in 2 .. Depth /\ (n < Depth => n + 1 \in 1 .. Depth) /\ n \in 1 .. Depth
      BY <1>0, <2>1 DEF FramesKept
    <3> QED
      BY <1>0, <2>1, <3>1, NestsKept DEF FramesKept
  <2>2. ASSUME NEW k, NEW kind, NEW class, NEW target, Queueing(k, kind, class, target)
        PROVE  Nests(n)'
    <3>1. /\ Depth' = Depth /\ \A m \in 1 .. Depth : Inst(m)' = Inst(m) /\ Groups(m)' = Groups(m)
          /\ \A m \in 1 .. Depth : m # k => Queue(m)' = Queue(m) /\ Open(m)' = Open(m)
      BY <2>2 DEF Queueing, Enqueued
    <3>2. n \in 2 .. Depth /\ (n < Depth => n + 1 \in 1 .. Depth) /\ n \in 1 .. Depth
      BY <1>0, <3>1
    <3>3. CASE n = k
      BY <1>0, <2>2, <3>2, <3>3, NestsEnqueued
    <3>4. CASE n # k
      BY <1>0, <3>1, <3>2, <3>4, NestsKept
    <3> QED
      BY <3>3, <3>4
  <2>3. ASSUME NEW L, NEW i, Taking(L, i)
        PROVE  Nests(n)'
    <3>1. /\ Depth' = L + 1 /\ L = Depth
          /\ \A m \in 1 .. L : /\ Inst(m)' = Inst(m) /\ Open(m)' = Open(m)
                               /\ m # L => Queue(m)' = Queue(m) /\ Groups(m)' = Groups(m)
      BY <2>3 DEF Taking, Taken, Dequeued
    <3>2. CASE n = L + 1
      BY <2>3, <3>2, NestsTaken
    <3>3. CASE n = L
      BY <1>0, <2>3, <3>1, <3>3, NestsTaken
    <3>4. CASE n # L + 1 /\ n # L
      <4>1. n \in 2 .. Depth /\ n + 1 \in 1 .. L /\ n \in 1 .. L /\ n < Depth' /\ n < Depth
        BY <1>0, <3>1, <3>4
      <4> QED
        BY <1>0, <3>1, <3>4, <4>1, NestsKept
    <3> QED
      BY <3>2, <3>3, <3>4
  <2>4. ASSUME NEW t, NEW k, NEW L, NEW i, Starting(t, k, L, i)
        PROVE  Nests(n)'
    <3>1. /\ Depth' = L /\ L = Depth /\ i = Queue(L)[1] /\ Len(Queue(L)) > 0
          /\ instances[i].kind = "undoRedo" /\ i \in Ids
      BY <2>4 DEF Starting, Dequeued
    <3>2. L \in 1 .. Depth /\ 1 \in 1 .. Depth /\ 1 \in 1 .. Len(Queue(L))
      BY <3>1 DEF Basics, FramesSized, Sized
    <3>3. Inst(L) = Root
      BY <3>1, <3>2 DEF OInv, Placed, Homes
    <3>4. L = 1
      BY <3>2, <3>3 DEF Basics
    <3> QED
      BY <3>1, <3>4
  <2>5. ASSUME NEW L, NEW closes, NEW done, Popping(L, closes, done)
        PROVE  Nests(n)'
    <3>1. /\ Depth' = L - 1 /\ L = Depth
          /\ \A m \in 1 .. L - 1 : /\ Inst(m)' = Inst(m) /\ Open(m)' = Open(m)
                                   /\ Queue(m)' = Queue(m)
                                   /\ m # L - 1 => Groups(m)' = Groups(m)
      BY <2>5 DEF Popping, Popped
    <3>2. CASE n = L - 1
      BY <1>0, <2>5, <3>1, <3>2, NestsPopped
    <3>3. CASE n # L - 1
      <4>1. n \in 2 .. Depth /\ n + 1 \in 1 .. L - 1 /\ n \in 1 .. L - 1 /\ n < Depth' /\ n < Depth
        BY <1>0, <3>1, <3>3
      <4> QED
        BY <1>0, <3>1, <3>3, <4>1, NestsKept
    <3> QED
      BY <3>2, <3>3
  <2> QED
    BY <2>1, <2>2, <2>3, <2>4, <2>5 DEF StepKind, Neutral, Finishing
<1> QED
  BY <1>1, NestsParts

\* An activation that spins is for a command with a frame above the root.
LEMMA SpinsAbove ==
  ASSUME IInv, NEW t \in Threads, NEW k, NEW i, Does(t, k, "spin", i)
  PROVE  /\ \E n \in 2 .. Depth : Inst(n) = i
         /\ i \in Ids /\ InFrame(i)
<1>1. k \in Owning(t) /\ stack[t][k].inst = i
  BY DEF Does, Owning
<1>2. PICK n \in 2 .. Depth : Inst(n) = i
  BY <1>1 DEF IInv, Owned, Depth, Inst
<1>3. n \in 1 .. Depth
  BY ShapeSized DEF FramesSized
<1> QED
  BY <1>2, <1>3, BasicsHold DEF Basics, InFrame

LEMMA SpinningStep ==
  ASSUME IInv, Basics, OInv, StepKind
  PROVE  Spinning'
<1>0. Spinning
  BY DEF OInv, Placed
<1>1. ASSUME NEW t \in Threads, NEW k, NEW i, Does(t, k, "spin", i)',
             NEW n \in 1 .. Depth', Inst(n)' = i
      PROVE  Len(Open(n)') = 1
  <2>1. ASSUME Does(t, k, "spin", i), n \in 1 .. Depth, Inst(n)' = Inst(n),
               Open(n)' = Open(n)
        PROVE  Len(Open(n)') = 1
    BY <1>0, <1>1, <2>1 DEF Spinning
  <2>2. CASE Neutral
    <3>1. n \in 1 .. Depth /\ Inst(n)' = Inst(n) /\ Open(n)' = Open(n)
      BY <2>2 DEF Neutral, FramesKept
    <3>2. \/ Does(t, k, "spin", i)
          \/ \A m \in 1 .. Depth : Inst(m) = i => Len(Open(m)) = 1
      BY <1>1, <2>2 DEF Neutral
    <3> QED
      BY <1>1, <2>1, <3>1, <3>2
  <2>3. ASSUME NEW l, NEW kind, NEW class, NEW target, Queueing(l, kind, class, target)
        PROVE  Len(Open(n)') = 1
    <3>1. Does(t, k, "spin", i)
      BY <1>1, <2>3 DEF Queueing, NoNewSpin
    <3>2. /\ n \in 1 .. Depth /\ Inst(n)' = Inst(n) /\ (n # l => Open(n)' = Open(n))
          /\ Open(l)' = StackQueueAfter(Open(l), kind, Count + 1)
      BY <2>3 DEF Queueing, Enqueued
    <3>3. CASE n # l
      BY <2>1, <3>1, <3>2, <3>3
    <3>4. CASE n = l
      <4>1. l > 1
        <5>1. PICK m \in 2 .. Depth : Inst(m) = i
          BY <3>1, SpinsAbove
        <5>2. m \in 1 .. Depth
          BY DEF Basics, FramesSized
        <5>3. m = n
          BY <1>1, <3>2, <5>1, <5>2 DEF Basics
        <5> QED
          BY <3>4, <5>3 DEF Basics, FramesSized
      <4>2. kind = "set"
        BY <1>1, <2>3, <3>1, <3>2, <3>4, <4>1 DEF Queueing
      <4>3. Open(n)' = Open(n)
        BY <3>2, <3>4, <4>2 DEF StackQueueAfter
      <4> QED
        BY <2>1, <3>1, <3>2, <4>3
    <3> QED
      BY <3>3, <3>4
  <2>4. ASSUME NEW L, NEW j, Taking(L, j)
        PROVE  Len(Open(n)') = 1
    <3>1. Does(t, k, "spin", i)
      BY <1>1, <2>4 DEF Taking, NoNewSpin
    <3>2. /\ L = Depth /\ Depth' = L + 1 /\ Open(L + 1)' = <<j>>
          /\ \A m \in 1 .. L : Inst(m)' = Inst(m) /\ Open(m)' = Open(m)
      BY <2>4 DEF Taking, Taken, Dequeued
    <3>3. n \in 1 .. L \/ n = L + 1
      BY <3>2 DEF Basics, FramesSized
    <3>4. Len(<<j>>) = 1
      OBVIOUS
    <3> QED
      BY <2>1, <3>1, <3>2, <3>3, <3>4
  <2>5. ASSUME NEW u, NEW l, NEW L, NEW j, Starting(u, l, L, j)
        PROVE  Len(Open(n)') = 1
    <3>1. Does(t, k, "spin", i)
      BY <1>1, <2>5 DEF Starting, NoNewSpin
    <3> QED
      BY <2>1, <2>5, <3>1 DEF Starting, Dequeued
  <2>6. ASSUME NEW L, NEW closes, NEW done, Popping(L, closes, done)
        PROVE  Len(Open(n)') = 1
    <3>1. Does(t, k, "spin", i)
      BY <1>1, <2>6 DEF Popping, NoNewSpin
    <3>2. L = Depth /\ n \in 1 .. L - 1 /\ Inst(n)' = Inst(n) /\ Open(n)' = Open(n)
      BY <2>6 DEF Popping, Popped
    <3>3. n \in 1 .. Depth
      BY <3>2 DEF Basics, FramesSized
    <3> QED
      BY <2>1, <3>1, <3>2, <3>3
  <2>7. ASSUME NEW u, NEW l, NEW at, NEW j, Finishing(u, l, at, j)
        PROVE  Len(Open(n)') = 1
    <3>1. Does(t, k, "spin", i)
      BY <1>1, <2>7 DEF Finishing, NoNewSpin
    <3> QED
      BY <2>1, <2>7, <3>1 DEF Finishing, FramesKept
  <2> QED
    BY <2>2, <2>3, <2>4, <2>5, <2>6, <2>7 DEF StepKind
<1> QED
  BY <1>1 DEF Spinning

LEMMA QueueOrderStep ==
  ASSUME Basics, Basics', OInv, StepKind
  PROVE  QueueOrder'
<1>0. /\ \A n \in 1 .. Depth : \A a, b \in 1 .. Len(Queue(n)) : a < b => Queue(n)[a] < Queue(n)[b]
      /\ \A n \in 1 .. Depth - 1 : \A a \in 1 .. Len(Queue(n)) : Inst(n + 1) < Queue(n)[a]
  BY DEF OInv, Placed, QueueOrder
<1>1. Depth \in Nat /\ \A n \in 1 .. Depth : Len(Queue(n)) \in Nat
  BY DEF Basics, FramesSized, Sized
<1>2. CASE FramesKept
  <2>1. \A n \in 1 .. Depth - 1 : n \in 1 .. Depth /\ n + 1 \in 1 .. Depth
    BY <1>1
  <2>2. Depth' = Depth /\ \A n \in 1 .. Depth : Queue(n)' = Queue(n) /\ Inst(n)' = Inst(n)
    BY <1>2 DEF FramesKept
  <2> QED
    BY <1>0, <2>1, <2>2 DEF QueueOrder
<1>3. ASSUME NEW k, NEW kind, NEW class, NEW target, Queueing(k, kind, class, target)
      PROVE  QueueOrder'
  <2>1. /\ Depth' = Depth /\ \A n \in 1 .. Depth : Inst(n)' = Inst(n) /\ (n # k => Queue(n)' = Queue(n))
        /\ Extended(Queue(k)', Queue(k), Count + 1) /\ k \in 1 .. Depth
    BY <1>3 DEF Queueing, Enqueued
  <2>2. /\ Count \in Nat /\ \A n \in 1 .. Depth : \A a \in 1 .. Len(Queue(n)) : Queue(n)[a] < Count + 1
    BY DEF Basics
  <2>3. \A n \in 1 .. Depth - 1 : n \in 1 .. Depth /\ n + 1 \in 1 .. Depth /\ Inst(n + 1) < Count + 1
    <3>1. \A n \in 1 .. Depth - 1 : n + 1 \in 2 .. Depth
      BY <1>1
    <3> QED
      BY <1>1, <3>1 DEF Basics
  <2>4. \A a \in 1 .. Len(Queue(k)') :
          \/ a \in 1 .. Len(Queue(k)) /\ Queue(k)'[a] = Queue(k)[a]
          \/ a = Len(Queue(k)) + 1 /\ Queue(k)'[a] = Count + 1
    BY <1>1, <2>1 DEF Extended
  <2>5. ASSUME NEW n \in 1 .. Depth', NEW a \in 1 .. Len(Queue(n)'), NEW b \in 1 .. Len(Queue(n)'), a < b
        PROVE  Queue(n)'[a] < Queue(n)'[b]
    <3>1. CASE n # k
      BY <1>0, <2>1, <2>5, <3>1
    <3>2. CASE n = k
      <4>1. a \in 1 .. Len(Queue(k)) /\ Queue(k)'[a] = Queue(k)[a]
        BY <1>1, <2>1, <2>4, <2>5, <3>2 DEF Extended
      <4> QED
        BY <1>0, <2>1, <2>2, <2>4, <2>5, <3>2, <4>1
    <3> QED
      BY <3>1, <3>2
  <2>6. ASSUME NEW n \in 1 .. Depth' - 1, NEW a \in 1 .. Len(Queue(n)')
        PROVE  Inst(n + 1)' < Queue(n)'[a]
    <3>1. n \in 1 .. Depth - 1 /\ n \in 1 .. Depth /\ n + 1 \in 1 .. Depth /\ Inst(n + 1) < Count + 1
      BY <2>1, <2>3
    <3>2. CASE n # k
      BY <1>0, <2>1, <3>1, <3>2
    <3>3. CASE n = k
      BY <1>0, <2>1, <2>4, <3>1, <3>3
    <3> QED
      BY <3>2, <3>3
  <2> QED
    BY <2>5, <2>6 DEF QueueOrder
<1>4. ASSUME NEW L, NEW i, Dequeued(L, i)
      PROVE  /\ L = Depth
             /\ \A n \in 1 .. L : \A a, b \in 1 .. Len(Queue(n)') : a < b => Queue(n)'[a] < Queue(n)'[b]
             /\ \A n \in 1 .. L - 1 : \A a \in 1 .. Len(Queue(n)') : Inst(n + 1)' < Queue(n)'[a]
             /\ \A a \in 1 .. Len(Queue(L)') : i < Queue(L)'[a]
  <2>1. /\ L = Depth /\ L \in 1 .. Depth /\ Len(Queue(L)) > 0 /\ i = Queue(L)[1]
        /\ \A n \in 1 .. L : Inst(n)' = Inst(n) /\ (n # L => Queue(n)' = Queue(n))
        /\ Shifted(Queue(L)', Queue(L))
    BY <1>4 DEF Dequeued, Basics, FramesSized
  <2>2. \A a \in 1 .. Len(Queue(L)') : /\ a + 1 \in 1 .. Len(Queue(L)) /\ 1 \in 1 .. Len(Queue(L))
                                       /\ 1 < a + 1 /\ Queue(L)'[a] = Queue(L)[a + 1]
    BY <1>1, <2>1 DEF Shifted
  <2>3. ASSUME NEW n \in 1 .. L, NEW a \in 1 .. Len(Queue(n)'), NEW b \in 1 .. Len(Queue(n)'), a < b
        PROVE  Queue(n)'[a] < Queue(n)'[b]
    <3>1. CASE n # L
      BY <1>0, <2>1, <2>3, <3>1
    <3>2. CASE n = L
      <4>1. /\ a + 1 \in 1 .. Len(Queue(L)) /\ b + 1 \in 1 .. Len(Queue(L)) /\ a + 1 < b + 1
            /\ Queue(L)'[a] = Queue(L)[a + 1] /\ Queue(L)'[b] = Queue(L)[b + 1]
        BY <2>2, <2>3, <3>2
      <4> QED
        BY <1>0, <2>1, <3>2, <4>1
    <3> QED
      BY <3>1, <3>2
  <2>4. ASSUME NEW n \in 1 .. L - 1, NEW a \in 1 .. Len(Queue(n)')
        PROVE  Inst(n + 1)' < Queue(n)'[a]
    <3>1. n \in 1 .. Depth - 1 /\ n \in 1 .. L /\ n # L /\ n + 1 \in 1 .. L
      BY <1>1, <2>1
    <3> QED
      BY <1>0, <2>1, <3>1
  <2> QED
    BY <1>0, <2>1, <2>2, <2>3, <2>4
<1>5. ASSUME NEW L, NEW i, Taking(L, i)
      PROVE  QueueOrder'
  <2>1. Dequeued(L, i) /\ Depth' = L + 1 /\ Queue(L + 1)' = <<>> /\ Inst(L + 1)' = i
    BY <1>5 DEF Taking, Taken
  <2>2. Len(<<>>) = 0 /\ \A n \in 1 .. Depth' : n \in 1 .. L \/ n = L + 1
    BY <1>1, <1>4, <2>1
  <2>3. \A n \in 1 .. Depth' - 1 : n \in 1 .. L - 1 \/ n = L
    BY <1>1, <1>4, <2>1
  <2> QED
    BY <1>4, <2>1, <2>2, <2>3 DEF QueueOrder
<1>6. ASSUME NEW t, NEW k, NEW L, NEW i, Starting(t, k, L, i)
      PROVE  QueueOrder'
  BY <1>4, <1>6 DEF QueueOrder, Starting
<1>7. ASSUME NEW L, NEW closes, NEW done, Popping(L, closes, done)
      PROVE  QueueOrder'
  <2>1. /\ L = Depth /\ Depth' = L - 1
        /\ \A n \in 1 .. L - 1 : Inst(n)' = Inst(n) /\ Queue(n)' = Queue(n)
    BY <1>7 DEF Popping, Popped
  <2>2. /\ \A n \in 1 .. Depth' : n \in 1 .. Depth /\ n \in 1 .. L - 1
        /\ \A n \in 1 .. Depth' - 1 :
             n \in 1 .. Depth - 1 /\ n \in 1 .. L - 1 /\ n + 1 \in 1 .. L - 1
    BY <1>1, <2>1
  <2>3. \A n \in 1 .. Depth' : \A a, b \in 1 .. Len(Queue(n)') : a < b => Queue(n)'[a] < Queue(n)'[b]
    BY <1>0, <2>1, <2>2
  <2>4. \A n \in 1 .. Depth' - 1 : \A a \in 1 .. Len(Queue(n)') : Inst(n + 1)' < Queue(n)'[a]
    BY <1>0, <2>1, <2>2
  <2> QED
    BY <2>3, <2>4 DEF QueueOrder
<1> QED
  BY <1>2, <1>3, <1>5, <1>6, <1>7 DEF StepKind, Neutral, Finishing

-----------------------------------------------------------------------------
(* The instances finish in order *)

\* Statuses, for one instance and for what holds it.
StatusFits(i) ==
  /\ InQueue(i) => instances[i].status = "Queued"
  /\ InFrame(i) \/ InGroup(i) => instances[i].status = "Running"
HeldFits(t, k, at, i) ==
  /\ i \in Ids /\ instances[i].status = "Running"
  /\ ~InFrame(i) /\ ~InGroup(i)
  /\ at = "undoRedo" <=> instances[i].kind = "undoRedo"
  /\ \A u \in Threads : \A l : \A a \in Holding : Does(u, l, a, i) => t = u /\ k = l

LEMMA StatusParts ==
  /\ Statuses <=> /\ \A i \in Ids : StatusFits(i)
                  /\ \A t \in Threads : \A k, i : \A at \in Holding :
                       Does(t, k, at, i) => HeldFits(t, k, at, i)
  /\ Statuses' <=> /\ \A i \in Ids' : StatusFits(i)'
                   /\ \A t \in Threads : \A k, i : \A at \in Holding :
                        Does(t, k, at, i)' => HeldFits(t, k, at, i)'
BY DEF Statuses, StatusFits, HeldFits

\* Every place holds instances of the table, the root frame apart.
LEMMA PlacesInIds ==
  ASSUME Basics, Grouped
  PROVE  \A i : /\ InQueue(i) => i \in Ids
                /\ InGroup(i) => i \in Ids /\ instances[i].kind = "begin"
                /\ InFrame(i) => i \in Ids \cup {Root}
<1>1. \A n \in 1 .. Depth : n = 1 \/ n \in 2 .. Depth
  BY DEF Basics, FramesSized
<1>2. ASSUME NEW i, InQueue(i) PROVE i \in Ids
  BY <1>2 DEF InQueue, Basics
<1>3. ASSUME NEW i, InGroup(i) PROVE i \in Ids /\ instances[i].kind = "begin"
  BY <1>3 DEF InGroup, Grouped
<1>4. ASSUME NEW i, InFrame(i) PROVE i \in Ids \cup {Root}
  BY <1>1, <1>4 DEF InFrame, Basics
<1> QED
  BY <1>2, <1>3, <1>4

\* When nothing changes its place or status.
LEMMA StatusesKept ==
  ASSUME Statuses, Basics, Kept, Ids' = Ids, SameHeld,
         \A j \in Ids : instances'[j].status = instances[j].status,
         \A j : (InQueue(j)' => InQueue(j)) /\ (InFrame(j)' => InFrame(j))
                /\ (InGroup(j)' => InGroup(j))
  PROVE  Statuses'
<1>1. /\ \A i \in Ids : StatusFits(i)
      /\ \A t \in Threads : \A k, i : \A at \in Holding : Does(t, k, at, i) => HeldFits(t, k, at, i)
  BY StatusParts
<1>2. \A i \in Ids' : StatusFits(i)'
  BY <1>1 DEF StatusFits
<1>3. ASSUME NEW t \in Threads, NEW k, NEW i, NEW at \in Holding, Does(t, k, at, i)'
      PROVE  HeldFits(t, k, at, i)'
  <2>1. HeldFits(t, k, at, i)
    BY <1>1, <1>3 DEF SameHeld
  <2>2. i \in Ids' /\ instances'[i].status = "Running" /\ instances'[i].kind = instances[i].kind
    BY <2>1 DEF HeldFits, Kept, SameKind
  <2>3. \A u \in Threads : \A l : \A a \in Holding : Does(u, l, a, i)' => t = u /\ k = l
    BY <2>1 DEF HeldFits, SameHeld
  <2> QED
    BY <2>1, <2>2, <2>3 DEF HeldFits
<1> QED
  BY <1>2, <1>3, StatusParts

\* When i is complete, and no longer anywhere.
LEMMA StatusesComplete ==
  ASSUME Statuses, Basics, Kept, Ids' = Ids, NEW i,
         \A t \in Threads : \A k, j : \A at \in Holding :
           Does(t, k, at, j)' => Does(t, k, at, j) /\ j # i,
         \A j \in Ids : j # i => instances'[j].status = instances[j].status,
         \A j : /\ InQueue(j)' => InQueue(j) /\ j # i
                /\ InFrame(j)' => InFrame(j) /\ j # i
                /\ InGroup(j)' => InGroup(j) /\ j # i
  PROVE  Statuses'
<1>1. /\ \A j \in Ids : StatusFits(j)
      /\ \A t \in Threads : \A k, j : \A at \in Holding : Does(t, k, at, j) => HeldFits(t, k, at, j)
  BY StatusParts
<1>2. \A j \in Ids' : StatusFits(j)'
  BY <1>1 DEF StatusFits
<1>3. ASSUME NEW t \in Threads, NEW k, NEW j, NEW at \in Holding, Does(t, k, at, j)'
      PROVE  HeldFits(t, k, at, j)'
  <2>1. HeldFits(t, k, at, j) /\ j # i
    BY <1>1, <1>3
  <2>2. j \in Ids' /\ instances'[j].status = "Running" /\ instances'[j].kind = instances[j].kind
    BY <2>1 DEF HeldFits, Kept, SameKind
  <2>3. \A u \in Threads : \A l : \A a \in Holding : Does(u, l, a, j)' => t = u /\ k = l
    BY <2>1 DEF HeldFits
  <2> QED
    BY <2>1, <2>2, <2>3 DEF HeldFits
<1> QED
  BY <1>2, <1>3, StatusParts

\* When an activation begins to hold i, which is, or becomes, Running.
LEMMA StatusesHeld ==
  ASSUME Statuses, Basics, Kept, Ids' = Ids, NEW i \in Ids,
         NEW u \in Threads, NEW l, NEW a \in Holding, HeldGained(u, l, a, i),
         a = "undoRedo" <=> instances[i].kind = "undoRedo",
         \A t \in Threads : \A k : \A at \in Holding : ~Does(t, k, at, i),
         instances'[i].status = "Running",
         \A j \in Ids : j # i => instances'[j].status = instances[j].status,
         \A j : /\ InQueue(j)' => InQueue(j) /\ j # i
                /\ InFrame(j)' => InFrame(j) /\ j # i
                /\ InGroup(j)' => InGroup(j) /\ j # i
  PROVE  Statuses'
<1>1. /\ \A j \in Ids : StatusFits(j)
      /\ \A t \in Threads : \A k, j : \A at \in Holding : Does(t, k, at, j) => HeldFits(t, k, at, j)
  BY StatusParts
<1>2. \A j \in Ids' : StatusFits(j)'
  BY <1>1 DEF StatusFits
<1>3. \A t \in Threads : \A k, j : \A at \in Holding :
        Does(t, k, at, j)' <=> Does(t, k, at, j) \/ (t = u /\ k = l /\ at = a /\ i = j)
  BY DEF HeldGained
<1>4. ASSUME NEW t \in Threads, NEW k, NEW j, NEW at \in Holding, Does(t, k, at, j)'
      PROVE  HeldFits(t, k, at, j)'
  <2>1. CASE j = i
    <3>1. t = u /\ k = l /\ at = a
      BY <1>3, <1>4, <2>1
    <3>2. \A v \in Threads : \A m : \A b \in Holding : Does(v, m, b, i)' => v = u /\ m = l
      BY <1>3
    <3>3. i \in Ids' /\ instances'[i].kind = instances[i].kind
      BY DEF Kept, SameKind
    <3> QED
      BY <2>1, <3>1, <3>2, <3>3 DEF HeldFits
  <2>2. CASE j # i
    <3>1. HeldFits(t, k, at, j)
      BY <1>1, <1>3, <1>4, <2>2
    <3>2. j \in Ids' /\ instances'[j].status = "Running" /\ instances'[j].kind = instances[j].kind
      BY <2>2, <3>1 DEF HeldFits, Kept, SameKind
    <3>3. \A v \in Threads : \A m : \A b \in Holding : Does(v, m, b, j)' => t = v /\ k = m
      BY <1>3, <2>2, <3>1 DEF HeldFits
    <3> QED
      BY <3>1, <3>2, <3>3 DEF HeldFits
  <2> QED
    BY <2>1, <2>2
<1> QED
  BY <1>2, <1>4, StatusParts

\* What is queued holds no thread back; neither does what has a frame or an open group.
LEMMA HeldNowhere ==
  ASSUME Basics, Statuses, NEW i \in Ids, InQueue(i) \/ InFrame(i) \/ InGroup(i)
  PROVE  /\ \A t \in Threads : \A k : \A at \in Holding : ~Does(t, k, at, i)
         /\ InQueue(i) => ~InFrame(i) /\ ~InGroup(i) /\ instances[i].status = "Queued"
         /\ InFrame(i) \/ InGroup(i) => ~InQueue(i) /\ instances[i].status = "Running"
<1>1. /\ StatusFits(i)
      /\ \A t \in Threads : \A k, j : \A at \in Holding : Does(t, k, at, j) => HeldFits(t, k, at, j)
  BY StatusParts
<1> QED
  BY <1>1 DEF StatusFits, HeldFits

LEMMA StatusesStep ==
  ASSUME IInv, Basics, Basics', OInv, Kept, StepKind
  PROVE  Statuses'
<1>0. Statuses /\ Grouped /\ Homes
  BY DEF OInv, Ordered, Placed
<1>a. Follows(instances', instances) => Ids' = Ids
  BY TableKept
<1>1. CASE Neutral
  BY <1>0, <1>1, <1>a, KeptPlaces, StatusesKept DEF Neutral, SameTables
<1>2. ASSUME NEW k, NEW kind, NEW class, NEW target, Queueing(k, kind, class, target)
      PROVE  Statuses'
  <2>1. /\ SameHeld /\ Count' = Count + 1 /\ Count \in Nat /\ Ids = 1 .. Count
        /\ \A j \in 1 .. Count : instances'[j] = instances[j]
        /\ instances'[Count + 1].status = "Queued"
    BY <1>2 DEF Queueing, Enqueued, MakeCommand, Basics
  <2>2. \A i : (InQueue(i)' <=> InQueue(i) \/ i = Count + 1) /\ (InFrame(i)' <=> InFrame(i))
               /\ (InGroup(i)' <=> InGroup(i))
    BY <1>2, EnqueuedPlaces DEF Queueing
  <2>3. /\ \A i \in Ids : StatusFits(i)
        /\ \A t \in Threads : \A l, i : \A at \in Holding : Does(t, l, at, i) => HeldFits(t, l, at, i)
    BY <1>0, StatusParts
  <2>4. \A i \in Ids' : i \in Ids \/ i = Count + 1
    BY <2>1 DEF Basics
  <2>5. ASSUME NEW i \in Ids' PROVE StatusFits(i)'
    <3>1. CASE i \in Ids
      <4>1. i # Count + 1 /\ instances'[i] = instances[i]
        BY <2>1, <3>1
      <4> QED
        BY <2>2, <2>3, <3>1, <4>1 DEF StatusFits
    <3>2. CASE i = Count + 1
      <4>1. Count + 1 \notin Ids /\ Count + 1 # Root
        BY <2>1 DEF Root
      <4>2. ~InFrame(i) /\ ~InGroup(i)
        BY <1>0, <3>2, <4>1, PlacesInIds
      <4> QED
        BY <2>1, <2>2, <3>2, <4>2 DEF StatusFits
    <3> QED
      BY <2>4, <3>1, <3>2
  <2>6. ASSUME NEW t \in Threads, NEW l, NEW i, NEW at \in Holding, Does(t, l, at, i)'
        PROVE  HeldFits(t, l, at, i)'
    <3>1. HeldFits(t, l, at, i)
      BY <2>1, <2>3, <2>6 DEF SameHeld
    <3>2. i \in Ids' /\ instances'[i] = instances[i]
      BY <2>1, <3>1 DEF HeldFits, Kept
    <3>3. \A u \in Threads : \A m : \A a \in Holding : Does(u, m, a, i)' => t = u /\ l = m
      BY <2>1, <3>1 DEF HeldFits, SameHeld
    <3> QED
      BY <2>2, <3>1, <3>2, <3>3 DEF HeldFits
  <2> QED
    BY <2>5, <2>6, StatusParts
<1>3. ASSUME NEW L, NEW i, Taking(L, i)
      PROVE  Statuses'
  <2>1. /\ Taken(L, i) /\ SameHeld /\ i \in Ids /\ Ids' = Ids
        /\ \A j \in Ids : instances'[j].status = IF j = i THEN "Running" ELSE instances[j].status
    BY <1>3, <1>a DEF Taking, Taken, Dequeued
  <2>2. /\ InQueue(i)
        /\ \A j : /\ InQueue(j)' <=> InQueue(j) /\ j # i
                  /\ InFrame(j)' <=> InFrame(j) \/ j = i
                  /\ InGroup(j)' => InGroup(j) \/ j = i
    BY <2>1, TakenPlaces
  <2>3. /\ \A t \in Threads : \A k : \A at \in Holding : ~Does(t, k, at, i)
        /\ ~InFrame(i) /\ ~InGroup(i)
    BY <1>0, <2>1, <2>2, HeldNowhere
  <2>4. /\ \A j \in Ids : StatusFits(j)
        /\ \A t \in Threads : \A l, j : \A at \in Holding : Does(t, l, at, j) => HeldFits(t, l, at, j)
    BY <1>0, StatusParts
  <2>5. ASSUME NEW j \in Ids' PROVE StatusFits(j)'
    BY <2>1, <2>2, <2>4 DEF StatusFits
  <2>6. ASSUME NEW t \in Threads, NEW l, NEW j, NEW at \in Holding, Does(t, l, at, j)'
        PROVE  HeldFits(t, l, at, j)'
    <3>1. HeldFits(t, l, at, j) /\ j # i
      BY <2>1, <2>3, <2>4, <2>6 DEF SameHeld
    <3>2. j \in Ids' /\ instances'[j].status = "Running" /\ instances'[j].kind = instances[j].kind
      BY <2>1, <3>1 DEF HeldFits, Kept, SameKind
    <3>3. \A u \in Threads : \A m : \A a \in Holding : Does(u, m, a, j)' => t = u /\ l = m
      BY <2>1, <3>1 DEF HeldFits, SameHeld
    <3> QED
      BY <2>2, <3>1, <3>2, <3>3 DEF HeldFits
  <2> QED
    BY <2>5, <2>6, StatusParts
<1>4. ASSUME NEW t, NEW k, NEW L, NEW i, Starting(t, k, L, i)
      PROVE  Statuses'
  <2>1. /\ Dequeued(L, i) /\ Depth' = L /\ i \in Ids /\ Ids' = Ids /\ t \in Threads
        /\ instances[i].kind = "undoRedo" /\ HeldGained(t, k, "undoRedo", i)
        /\ L = Depth /\ Groups(L)' = Groups(L)
        /\ \A n \in 1 .. L : Inst(n)' = Inst(n) /\ (n # L => Groups(n)' = Groups(n))
        /\ \A j \in Ids : instances'[j].status = IF j = i THEN "Running" ELSE instances[j].status
    BY <1>4, <1>a DEF Starting, Dequeued, SameTables
  <2>2. InQueue(i) /\ \A j : InQueue(j)' <=> InQueue(j) /\ j # i
    BY <2>1, DequeuedQueue
  <2>3. \A j : (InFrame(j)' <=> InFrame(j)) /\ (InGroup(j)' <=> InGroup(j))
    <3>1. Depth' = Depth /\ \A n \in 1 .. Depth : Inst(n)' = Inst(n) /\ Groups(n)' = Groups(n)
      BY <2>1
    <3> QED
      BY <3>1 DEF InFrame, InGroup
  <2>4. /\ \A u \in Threads : \A l : \A at \in Holding : ~Does(u, l, at, i)
        /\ ~InFrame(i) /\ ~InGroup(i)
    BY <1>0, <2>1, <2>2, HeldNowhere
  <2>5. "undoRedo" \in Holding
    BY DEF Holding
  <2> QED
    BY <1>0, <2>1, <2>2, <2>3, <2>4, <2>5, StatusesHeld
<1>5. ASSUME NEW L, NEW closes, NEW done, Popping(L, closes, done)
      PROVE  Statuses'
  <2>1. Leaving(L, closes, done) /\ Ids' = Ids
    BY <1>5, <1>a, PopLeaves DEF Popping, SameTables
  <2>2. \A j : /\ InQueue(j)' <=> InQueue(j)
               /\ InFrame(j)' <=> InFrame(j) /\ j # Inst(L)
               /\ InGroup(j)' <=> InGroup(j) /\ (closes => j # done)
    BY <1>5, PoppedPlaces
  <2>3. /\ done \in Ids /\ instances[done].kind # "undoRedo" /\ (InFrame(done) \/ InGroup(done))
        /\ closes => ~InFrame(done)
        /\ ~closes => done = Inst(L)
        /\ instances[Inst(L)].kind # "begin" => ~InGroup(Inst(L))
    BY <2>1 DEF Leaving, InFrame
  <2>4. /\ ~InQueue(done) /\ instances[done].status = "Running"
        /\ \A t \in Threads : \A k : \A at \in Holding : ~Does(t, k, at, done)
    BY <1>0, <2>3, HeldNowhere
  <2>5. instances[Inst(L)].kind # "begin" =>
          \A j : /\ InQueue(j)' => InQueue(j) /\ j # done
                 /\ InFrame(j)' => InFrame(j) /\ j # done
                 /\ InGroup(j)' => InGroup(j) /\ j # done
    BY <2>2, <2>3, <2>4
  <2>6. CASE /\ instances[Inst(L)].kind = "begin" /\ SameHeld
             /\ \A j \in Ids : instances'[j].status = instances[j].status
    BY <1>0, <2>1, <2>2, <2>6, StatusesKept
  <2>7. CASE /\ instances[Inst(L)].kind # "begin" /\ SameHeld
             /\ \A j \in Ids :
                  instances'[j].status = IF j = done THEN "Complete" ELSE instances[j].status
    <3>1. \A t \in Threads : \A k, j : \A at \in Holding :
            Does(t, k, at, j)' => Does(t, k, at, j) /\ j # done
      BY <2>4, <2>7 DEF SameHeld
    <3> QED
      BY <1>0, <2>1, <2>5, <2>7, <3>1, StatusesComplete
  <2>8. CASE /\ instances[Inst(L)].kind # "begin"
             /\ \E t \in Threads : \E k : HeldGained(t, k, "rollback", done)
             /\ \A j \in Ids : instances'[j].status = instances[j].status
    <3>0. PICK t \in Threads : \E k : HeldGained(t, k, "rollback", done)
      BY <2>8
    <3>1. PICK k : HeldGained(t, k, "rollback", done)
      BY <3>0
    <3>2. "rollback" \in Holding /\ "rollback" # "undoRedo"
      BY DEF Holding
    <3>3. instances'[done].status = "Running"
      BY <2>3, <2>4, <2>8
    <3> QED
      BY <1>0, <2>1, <2>3, <2>4, <2>5, <2>8, <3>1, <3>2, <3>3, StatusesHeld
  <2> QED
    BY <1>5, <2>6, <2>7, <2>8 DEF Popping
<1>6. ASSUME NEW t, NEW k, NEW at, NEW i, Finishing(t, k, at, i)
      PROVE  Statuses'
  <2>1. /\ t \in Threads /\ at \in Holding /\ HeldLost(t, k, at, i) /\ Ids' = Ids
        /\ \A j \in Ids : instances'[j].status = IF j = i THEN "Complete" ELSE instances[j].status
        /\ \A j : (InQueue(j)' <=> InQueue(j)) /\ (InFrame(j)' <=> InFrame(j))
                  /\ (InGroup(j)' <=> InGroup(j))
    BY <1>6, <1>a, KeptPlaces DEF Finishing, SameTables
  <2>2. HeldFits(t, k, at, i)
    BY <1>0, <2>1, StatusParts DEF HeldLost
  <2>3. ~InQueue(i)
    BY <1>0, <2>2, StatusParts DEF HeldFits, StatusFits
  <2>4. \A u \in Threads : \A l, j : \A a \in Holding :
          Does(u, l, a, j)' => Does(u, l, a, j) /\ j # i
    BY <2>1, <2>2 DEF HeldLost, HeldFits
  <2>5. \A j : /\ InQueue(j)' => InQueue(j) /\ j # i
               /\ InFrame(j)' => InFrame(j) /\ j # i
               /\ InGroup(j)' => InGroup(j) /\ j # i
    BY <2>1, <2>2, <2>3 DEF HeldFits
  <2> QED
    BY <1>0, <2>1, <2>4, <2>5, StatusesComplete
<1> QED
  BY <1>1, <1>2, <1>3, <1>4, <1>5, <1>6 DEF StepKind

LEMMA RollingHeld ==
  /\ \A i : RollingBack(i) <=> \E t \in Threads : \E k : Does(t, k, "rollback", i)
  /\ \A i : RollingBack(i)' <=> \E t \in Threads : \E k : Does(t, k, "rollback", i)'
BY DEF RollingBack, Does

\* How a step changes what an instance has reached.
LEMMA Progress ==
  ASSUME IInv, Basics, Basics', OInv, Kept, StepKind
  PROVE  /\ \A i \in Ids : Finished(i) => Finished(i)'
         /\ \A i \in Ids : LeftBehind(i) => LeftBehind(i)' \/ Finished(i)'
         /\ \A i \in Ids' : Finished(i)' =>
              \/ i \in Ids /\ (Finished(i) \/ instances[i].kind = "undoRedo")
              \/ \E L, closes, done :
                   Popping(L, closes, done) /\ i = done /\ instances[Inst(L)].kind # "begin"
<1>0. Statuses
  BY DEF OInv, Ordered
<1>a. Follows(instances', instances) => Ids' = Ids
  BY TableKept
<1>b. \A i \in Ids : instances'[i].kind = instances[i].kind
  BY DEF Kept, SameKind
<1>c. "rollback" \in Holding
  BY DEF Holding
<1>d. \A t \in Threads : \A k, i : \A at \in Holding : Does(t, k, at, i) =>
        i \in Ids /\ (at = "undoRedo" <=> instances[i].kind = "undoRedo")
  BY <1>0 DEF Statuses
<1>1. ASSUME Ids' = Ids, SameHeld, \A j \in Ids : instances'[j].status = instances[j].status
      PROVE  /\ \A i \in Ids : Finished(i) <=> Finished(i)'
             /\ \A i \in Ids : LeftBehind(i) => LeftBehind(i)'
  <2>1. \A i : RollingBack(i) <=> RollingBack(i)'
    BY <1>1, <1>c, RollingHeld DEF SameHeld
  <2> QED
    BY <1>1, <1>b, <2>1 DEF Finished, Complete, LeftBehind, Closing
<1>2. CASE Neutral
  BY <1>1, <1>2, <1>a DEF Neutral, SameTables
<1>3. ASSUME NEW k, NEW kind, NEW class, NEW target, Queueing(k, kind, class, target)
      PROVE  /\ \A i \in Ids : Finished(i) => Finished(i)'
             /\ \A i \in Ids : LeftBehind(i) => LeftBehind(i)'
             /\ \A i \in Ids' : Finished(i)' => i \in Ids /\ Finished(i)
  <2>1. /\ SameHeld /\ Count' = Count + 1 /\ Count \in Nat /\ Ids = 1 .. Count
        /\ \A j \in 1 .. Count : instances'[j] = instances[j]
        /\ instances'[Count + 1].status = "Queued" /\ Ids' = 1 .. Count'
    BY <1>3 DEF Queueing, Enqueued, MakeCommand, Basics
  <2>2. \A i : RollingBack(i) <=> RollingBack(i)'
    BY <1>c, <2>1, RollingHeld DEF SameHeld
  <2>3. ASSUME NEW i \in Ids', i \notin Ids PROVE ~Finished(i)'
    <3>1. i = Count + 1
      BY <2>1, <2>3
    <3>2. ~RollingBack(i)
      BY <1>c, <1>d, <2>3, RollingHeld
    <3> QED
      BY <2>1, <2>2, <3>1, <3>2 DEF Finished, Complete
  <2> QED
    BY <2>1, <2>2, <2>3 DEF Finished, Complete, LeftBehind, Closing
<1>4. ASSUME NEW L, NEW i, Dequeued(L, i), Ids' = Ids, i \in Ids,
             \A j : RollingBack(j) <=> RollingBack(j)', instances[i].status = "Queued"
      PROVE  /\ \A j \in Ids : Finished(j) <=> Finished(j)'
             /\ \A j \in Ids : LeftBehind(j) => LeftBehind(j)'
  <2>1. \A j \in Ids : instances'[j].status = IF j = i THEN "Running" ELSE instances[j].status
    BY <1>4 DEF Dequeued
  <2> QED
    BY <1>4, <1>b, <2>1 DEF Finished, Complete, LeftBehind, Closing
<1>5. ASSUME NEW L, NEW i, Taking(L, i)
      PROVE  /\ \A j \in Ids : Finished(j) <=> Finished(j)'
             /\ \A j \in Ids : LeftBehind(j) => LeftBehind(j)'
             /\ Ids' = Ids
  <2>1. Taken(L, i) /\ SameHeld /\ i \in Ids /\ Ids' = Ids
    BY <1>5, <1>a DEF Taking
  <2>2. InQueue(i)
    BY <2>1, TakenPlaces
  <2>3. \A j : RollingBack(j) <=> RollingBack(j)'
    BY <1>c, <2>1, RollingHeld DEF SameHeld
  <2> QED
    BY <1>0, <1>4, <2>1, <2>2, <2>3 DEF Taken, Statuses
<1>6. ASSUME NEW t, NEW k, NEW L, NEW i, Starting(t, k, L, i)
      PROVE  /\ \A j \in Ids : Finished(j) <=> Finished(j)'
             /\ \A j \in Ids : LeftBehind(j) => LeftBehind(j)'
             /\ Ids' = Ids
  <2>1. Dequeued(L, i) /\ Depth' = L /\ i \in Ids /\ Ids' = Ids /\ HeldGained(t, k, "undoRedo", i)
    BY <1>6, <1>a DEF Starting, SameTables
  <2>2. InQueue(i)
    BY <2>1, DequeuedQueue
  <2>3. \A j : RollingBack(j) <=> RollingBack(j)'
    BY <1>c, <2>1, RollingHeld DEF HeldGained
  <2> QED
    BY <1>0, <1>4, <2>1, <2>2, <2>3 DEF Statuses
<1>7. ASSUME NEW L, NEW closes, NEW done, Popping(L, closes, done)
      PROVE  /\ \A j \in Ids : Finished(j) => Finished(j)'
             /\ \A j \in Ids : LeftBehind(j) => LeftBehind(j)' \/ Finished(j)'
             /\ \A j \in Ids' : Finished(j)' =>
                  j \in Ids /\ (Finished(j) \/ (j = done /\ instances[Inst(L)].kind # "begin"))
             /\ instances[Inst(L)].kind # "begin" => Finished(done)'
  <2>0. Ids' = Ids /\ done \in Ids
    BY <1>7, <1>a, PopLeaves DEF Popping, SameTables, Leaving
  <2>1. CASE /\ instances[Inst(L)].kind = "begin" /\ SameHeld
             /\ \A j \in Ids : instances'[j].status = instances[j].status
    BY <1>1, <2>0, <2>1
  <2>2. CASE /\ instances[Inst(L)].kind # "begin" /\ SameHeld
             /\ \A j \in Ids :
                  instances'[j].status = IF j = done THEN "Complete" ELSE instances[j].status
    <3>1. \A j : RollingBack(j) <=> RollingBack(j)'
      BY <1>c, <2>2, RollingHeld DEF SameHeld
    <3> QED
      BY <1>b, <2>0, <2>2, <3>1 DEF Finished, Complete, LeftBehind, Closing
  <2>3. CASE /\ instances[Inst(L)].kind # "begin"
             /\ \E t \in Threads : \E k : HeldGained(t, k, "rollback", done)
             /\ \A j \in Ids : instances'[j].status = instances[j].status
    <3>1. \A j : RollingBack(j)' <=> RollingBack(j) \/ j = done
      BY <1>c, <2>3, RollingHeld DEF HeldGained
    <3> QED
      BY <1>b, <2>0, <2>3, <3>1 DEF Finished, Complete, LeftBehind, Closing
  <2> QED
    BY <1>7, <2>1, <2>2, <2>3 DEF Popping
<1>8. ASSUME NEW t, NEW k, NEW at, NEW i, Finishing(t, k, at, i)
      PROVE  /\ \A j \in Ids : Finished(j) => Finished(j)'
             /\ \A j \in Ids : LeftBehind(j) => LeftBehind(j)' \/ Finished(j)'
             /\ \A j \in Ids' : Finished(j)' =>
                  j \in Ids /\ (Finished(j) \/ instances[j].kind = "undoRedo")
  <2>1. /\ t \in Threads /\ at \in Holding /\ HeldLost(t, k, at, i) /\ Ids' = Ids
        /\ \A j \in Ids : instances'[j].status = IF j = i THEN "Complete" ELSE instances[j].status
    BY <1>8, <1>a DEF Finishing, SameTables
  <2>2. /\ Does(t, k, at, i) /\ i \in Ids /\ (at = "undoRedo" <=> instances[i].kind = "undoRedo")
    BY <1>d, <2>1 DEF HeldLost
  <2>3. \A j : RollingBack(j)' => RollingBack(j)
    BY <1>c, <2>1, RollingHeld DEF HeldLost
  <2>4. ASSUME NEW j, j # i, RollingBack(j) PROVE RollingBack(j)'
    <3>1. PICK u \in Threads : \E l : Does(u, l, "rollback", j)
      BY <2>4, RollingHeld
    <3>2. PICK l : Does(u, l, "rollback", j)
      BY <3>1
    <3>3. ~(u = t /\ l = k)
      BY <2>2, <2>4, <3>2 DEF Does
    <3>4. Does(u, l, "rollback", j)'
      BY <1>c, <2>1, <3>2, <3>3 DEF HeldLost
    <3> QED
      BY <3>4, RollingHeld
  <2>5. RollingBack(i) \/ instances[i].kind = "undoRedo"
    <3>1. at = "rollback" \/ at = "undoRedo"
      BY <2>1 DEF Holding
    <3> QED
      BY <2>1, <2>2, <3>1, RollingHeld
  <2>6. \A j \in Ids : /\ Finished(j) => Finished(j)'
                       /\ Finished(j)' => Finished(j) \/ j = i
                       /\ LeftBehind(j) => LeftBehind(j)' \/ Finished(j)'
    BY <1>b, <2>1, <2>3, <2>4 DEF Finished, Complete, LeftBehind, Closing
  <2>7. Finished(i) \/ instances[i].kind = "undoRedo"
    BY <2>5 DEF Finished
  <2> QED
    BY <2>1, <2>6, <2>7
<1> QED
  BY <1>1, <1>2, <1>a, <1>3, <1>5, <1>6, <1>7, <1>8 DEF StepKind, Neutral, SameTables

LEMMA AccountedStep ==
  ASSUME IInv, Basics, Basics', OInv, Kept, StepKind
  PROVE  Accounted'
<1>0. /\ \A i \in Ids : instances[i].kind # "undoRedo" =>
           Finished(i) \/ InQueue(i) \/ InFrame(i) \/ InGroup(i) \/ LeftBehind(i)
      /\ \A i \in Ids : Finished(i) => Finished(i)'
      /\ \A i \in Ids : LeftBehind(i) => LeftBehind(i)' \/ Finished(i)'
      /\ \A i \in Ids : instances'[i].kind = instances[i].kind
      /\ \A i : InGroup(i) => instances[i].kind = "begin"
  BY Progress, PlacesInIds DEF OInv, Ordered, Placed, Accounted, Kept, SameKind
<1>a. Follows(instances', instances) => Ids' = Ids
  BY TableKept
<1>1. CASE Ids' = Ids /\ \A j : (InQueue(j) => InQueue(j)' \/ InFrame(j)'
                                      \/ (j \in Ids /\ instances[j].kind = "undoRedo"))
                             /\ (InFrame(j) => InFrame(j)') /\ (InGroup(j) => InGroup(j)')
  BY <1>0, <1>1 DEF Accounted
<1>2. CASE FramesKept /\ Ids' = Ids
  BY <1>1, <1>2, KeptPlaces
<1>3. ASSUME NEW k, NEW kind, NEW class, NEW target, Queueing(k, kind, class, target)
      PROVE  Accounted'
  <2>1. Ids' = 1 .. Count + 1 /\ Ids = 1 .. Count /\ Count \in Nat
    BY <1>3 DEF Queueing, Enqueued, Basics
  <2>2. \A i \in Ids' : i \in Ids \/ i = Count + 1
    BY <2>1
  <2>3. \A i : (InQueue(i)' <=> InQueue(i) \/ i = Count + 1) /\ (InFrame(i)' <=> InFrame(i))
               /\ (InGroup(i)' <=> InGroup(i))
    BY <1>3, EnqueuedPlaces DEF Queueing
  <2> QED
    BY <1>0, <2>2, <2>3 DEF Accounted
<1>4. ASSUME NEW L, NEW i, Taking(L, i)
      PROVE  Accounted'
  <2>1. Taken(L, i) /\ Ids' = Ids
    BY <1>4, <1>a DEF Taking
  <2> QED
    BY <1>1, <2>1, TakenPlaces
<1>5. ASSUME NEW t, NEW k, NEW L, NEW i, Starting(t, k, L, i)
      PROVE  Accounted'
  <2>1. /\ Dequeued(L, i) /\ Depth' = L /\ Ids' = Ids /\ i \in Ids
        /\ instances[i].kind = "undoRedo"
        /\ L = Depth /\ Groups(L)' = Groups(L)
        /\ \A n \in 1 .. L : Inst(n)' = Inst(n) /\ (n # L => Groups(n)' = Groups(n))
    BY <1>5, <1>a DEF Starting, Dequeued, SameTables
  <2>2. \A j : InQueue(j)' <=> InQueue(j) /\ j # i
    BY <2>1, DequeuedQueue
  <2>3. Depth' = Depth /\ \A n \in 1 .. Depth : Inst(n)' = Inst(n) /\ Groups(n)' = Groups(n)
    BY <2>1
  <2>4. \A j : (InFrame(j)' <=> InFrame(j)) /\ (InGroup(j)' <=> InGroup(j))
    BY <2>3 DEF InFrame, InGroup
  <2> QED
    BY <1>1, <2>1, <2>2, <2>4
<1>6. ASSUME NEW L, NEW closes, NEW done, Popping(L, closes, done)
      PROVE  Accounted'
  <2>1. Leaving(L, closes, done) /\ Ids' = Ids
    BY <1>6, <1>a, PopLeaves DEF Popping, SameTables
  <2>2. \A j : /\ InQueue(j)' <=> InQueue(j)
               /\ InFrame(j)' <=> InFrame(j) /\ j # Inst(L)
               /\ InGroup(j)' <=> InGroup(j) /\ (closes => j # done)
    BY <1>6, PoppedPlaces
  <2>3. instances[Inst(L)].kind # "begin" => Finished(done)'
    <3>1. /\ SameHeld /\ Ids' = Ids
          /\ \A j \in Ids :
               instances'[j].status = IF j = done THEN "Complete" ELSE instances[j].status
          => Finished(done)'
      BY <2>1 DEF Finished, Complete, Leaving
    <3>2. (\E t \in Threads : \E k : HeldGained(t, k, "rollback", done)) => Finished(done)'
      <4>1. "rollback" \in Holding
        BY DEF Holding
      <4>2. (\E t \in Threads : \E k : HeldGained(t, k, "rollback", done)) => RollingBack(done)'
        BY <4>1, RollingHeld DEF HeldGained
      <4> QED
        BY <4>2 DEF Finished
    <3> QED
      BY <1>6, <2>1, <3>1, <3>2 DEF Popping
  <2>4. /\ Inst(L) \in Ids /\ InFrame(Inst(L)) /\ done \in Ids
        /\ ~closes => done = Inst(L)
        /\ closes => Closing(Inst(L)) /\ done # Inst(L) /\ instances[done].kind = "begin"
        /\ instances[Inst(L)].kind = "begin" => ~closes /\ InGroup(Inst(L))
    BY <2>1 DEF Leaving, InFrame
  <2>5. closes => LeftBehind(Inst(L)) /\ Closing(Inst(L)) /\ instances[Inst(L)].kind # "begin"
    BY <2>4 DEF OInv, Ordered, Statuses, LeftBehind, Closing
  <2>6. ASSUME NEW j \in Ids', instances'[j].kind # "undoRedo"
        PROVE  Finished(j)' \/ InQueue(j)' \/ InFrame(j)' \/ InGroup(j)' \/ LeftBehind(j)'
    <3>1. \/ Finished(j) \/ InQueue(j) \/ InFrame(j) \/ InGroup(j) \/ LeftBehind(j)
      BY <1>0, <2>1, <2>6
    <3>2. CASE Finished(j) \/ InQueue(j) \/ LeftBehind(j)
      BY <1>0, <2>1, <2>2, <3>2
    <3>3. CASE j = Inst(L)
      BY <1>0, <2>1, <2>2, <2>3, <2>4, <2>5, <3>3
    <3>4. CASE j # Inst(L) /\ (InFrame(j) \/ InGroup(j))
      BY <2>2, <2>3, <2>4, <2>5, <3>4
    <3> QED
      BY <3>1, <3>2, <3>3, <3>4
  <2> QED
    BY <2>6 DEF Accounted
<1> QED
  BY <1>2, <1>a, <1>3, <1>4, <1>5, <1>6 DEF StepKind, Neutral, Finishing, SameTables

LEMMA FifoStep ==
  ASSUME IInv, Basics, Basics', OInv, Kept, StepKind
  PROVE  Fifo'
<1>0. Fifo /\ Accounted /\ Homes /\ QueueOrder
  BY DEF OInv, Ordered, Placed
<1>1. /\ \A i \in Ids : Finished(i) => Finished(i)'
      /\ \A i \in Ids' : Finished(i)' =>
           \/ i \in Ids /\ (Finished(i) \/ instances[i].kind = "undoRedo")
           \/ \E L, closes, done :
                Popping(L, closes, done) /\ i = done /\ instances[Inst(L)].kind # "begin"
  BY Progress
<1>2. Ids = 1 .. Count /\ Ids' = 1 .. Count' /\ Count \in Nat /\ Count' \in Nat
      /\ \A j \in Ids : j \in Ids'
  BY DEF Basics, Kept
<1>3. ASSUME NEW i \in Ids', NEW j \in Ids', i < j, instances'[i].home = instances'[j].home,
             instances'[i].kind = "set", instances'[j].kind = "set", Finished(j)'
      PROVE  Finished(i)'
  <2>1. CASE j \in Ids /\ (Finished(j) \/ instances[j].kind = "undoRedo")
    <3>1. i \in Ids
      BY <1>2, <1>3, <2>1
    <3>2. /\ instances[i].home = instances[j].home
          /\ instances[i].kind = "set" /\ instances[j].kind = "set"
      BY <1>3, <2>1, <3>1 DEF Kept, SameKind
    <3> QED
      BY <1>0, <1>1, <1>3, <2>1, <3>1, <3>2 DEF Fifo
  <2>2. ASSUME NEW L, NEW closes, Popping(L, closes, j)
        PROVE  Finished(i)'
    <3>1. Leaving(L, closes, j)
      BY <2>2, PopLeaves
    <3>2. j \in Ids /\ L = Depth /\ L \in 2 .. Depth /\ L \in 1 .. Depth /\ L - 1 \in 1 .. Depth
          /\ L \in Nat
      BY <3>1 DEF Leaving
    <3>3. i \in Ids
      BY <1>2, <1>3, <3>2
    <3>4. /\ instances[i].home = instances[j].home
          /\ instances[i].kind = "set" /\ instances[j].kind = "set"
      BY <1>3, <3>2, <3>3 DEF Kept, SameKind
    <3>5. j = Inst(L) /\ instances[i].home = Inst(L - 1)
      BY <3>1, <3>4 DEF Leaving
    <3>6. ~LeftBehind(i)
      BY <3>4 DEF LeftBehind, Closing
    <3>7. ~InGroup(i)
      BY <3>4, PlacesInIds DEF OInv, Placed
    <3>8. ASSUME InFrame(i) PROVE FALSE
      <4>1. PICK n \in 1 .. Depth : Inst(n) = i
        BY <3>8 DEF InFrame
      <4>2. n # 1
        BY <3>3, <4>1 DEF Basics, Root
      <4>3. n \in 2 .. Depth /\ n - 1 \in 1 .. Depth /\ n \in Nat
        BY <3>2, <4>1, <4>2
      <4>4. Inst(n - 1) = Inst(L - 1)
        BY <1>0, <3>5, <4>1, <4>3 DEF Homes
      <4>5. n - 1 = L - 1
        BY <3>2, <4>3, <4>4 DEF Basics
      <4>6. i = j
        BY <3>2, <3>5, <4>1, <4>3, <4>5
      <4> QED
        BY <1>2, <1>3, <3>2, <3>3, <4>6
    <3>9. ASSUME InQueue(i) PROVE FALSE
      <4>1. PICK n \in 1 .. Depth : \E a \in 1 .. Len(Queue(n)) : Queue(n)[a] = i
        BY <3>9 DEF InQueue
      <4>2. PICK a \in 1 .. Len(Queue(n)) : Queue(n)[a] = i
        BY <4>1
      <4>3. Inst(n) = Inst(L - 1)
        BY <1>0, <3>5, <4>2 DEF Homes
      <4>4. n = L - 1
        BY <3>2, <4>3 DEF Basics
      <4>5. n \in 1 .. Depth - 1 /\ n + 1 = L
        BY <3>2, <4>4
      <4>6. Inst(L) < i
        BY <1>0, <4>2, <4>5 DEF QueueOrder
      <4> QED
        BY <1>2, <1>3, <3>2, <3>3, <3>5, <4>6
    <3>10. Finished(i)
      BY <1>0, <3>3, <3>4, <3>6, <3>7, <3>8, <3>9 DEF Accounted
    <3> QED
      BY <1>1, <3>3, <3>10
  <2> QED
    BY <1>1, <1>3, <2>1, <2>2
<1> QED
  BY <1>3 DEF Fifo

LEMMA HomeThereStep ==
  ASSUME IInv, Basics, Basics', OInv, Kept, StepKind
  PROVE  HomeThere'
<1>0. HomeThere /\ Accounted /\ Homes /\ Grouped
  BY DEF OInv, Ordered, Placed
<1>1. /\ \A i \in Ids : Finished(i) => Finished(i)'
      /\ \A i \in Ids : LeftBehind(i) => LeftBehind(i)' \/ Finished(i)'
      /\ \A i \in Ids : instances'[i].home = instances[i].home
  BY Progress DEF Kept, SameKind
<1>a. Follows(instances', instances) => Ids' = Ids
  BY TableKept
<1>2. CASE Ids' = Ids /\ \A j : InFrame(j) => InFrame(j)'
  BY <1>0, <1>1, <1>2 DEF HomeThere
<1>3. CASE FramesKept /\ Ids' = Ids
  BY <1>2, <1>3, KeptPlaces
<1>4. ASSUME NEW k, NEW kind, NEW class, NEW target, Queueing(k, kind, class, target)
      PROVE  HomeThere'
  <2>1. /\ Ids' = 1 .. Count + 1 /\ Ids = 1 .. Count /\ Count \in Nat /\ k \in 1 .. Depth
        /\ instances'[Count + 1].home = Inst(k)
    BY <1>4 DEF Queueing, Enqueued, Basics, MakeCommand
  <2>2. \A i \in Ids' : i \in Ids \/ i = Count + 1
    BY <2>1
  <2>3. \A i : InFrame(i)' <=> InFrame(i)
    BY <1>4, EnqueuedPlaces DEF Queueing
  <2>4. InFrame(instances'[Count + 1].home)
    BY <2>1 DEF InFrame
  <2> QED
    BY <1>0, <1>1, <2>2, <2>3, <2>4 DEF HomeThere
<1>5. ASSUME NEW L, NEW i, Taking(L, i)
      PROVE  HomeThere'
  <2>1. Taken(L, i) /\ Ids' = Ids
    BY <1>5, <1>a DEF Taking
  <2> QED
    BY <1>2, <2>1, TakenPlaces
<1>6. ASSUME NEW t, NEW k, NEW L, NEW i, Starting(t, k, L, i)
      PROVE  HomeThere'
  <2>1. /\ Ids' = Ids /\ Depth' = Depth /\ \A n \in 1 .. Depth : Inst(n)' = Inst(n)
    BY <1>6, <1>a DEF Starting, Dequeued, SameTables
  <2> QED
    BY <1>2, <2>1 DEF InFrame
<1>7. ASSUME NEW L, NEW closes, NEW done, Popping(L, closes, done)
      PROVE  HomeThere'
  <2>1. Leaving(L, closes, done) /\ Ids' = Ids
    BY <1>7, <1>a, PopLeaves DEF Popping, SameTables
  <2>2. \A j : InFrame(j)' <=> InFrame(j) /\ j # Inst(L)
    BY <1>7, PoppedPlaces
  <2>3. /\ L = Depth /\ L \in 1 .. Depth /\ L \in Nat /\ Len(Groups(L)) = 1 /\ Queue(L) = <<>>
        /\ Inst(L) \in Ids
    BY <1>7, <2>1 DEF Leaving, Popping
  <2>4. ASSUME NEW i \in Ids, instances[i].home = Inst(L)
        PROVE  Finished(i) \/ LeftBehind(i)
    <3>1. Inst(L) # Root
      BY <2>3 DEF Basics, Root
    <3>2. instances[i].kind # "undoRedo"
      BY <1>0, <2>4, <3>1 DEF Homes
    <3>3. ASSUME InQueue(i) PROVE FALSE
      <4>1. PICK n \in 1 .. Depth : \E a \in 1 .. Len(Queue(n)) : Queue(n)[a] = i
        BY <3>3 DEF InQueue
      <4>2. Inst(n) = Inst(L)
        BY <1>0, <2>4, <4>1 DEF Homes
      <4>3. n = L
        BY <2>3, <4>2 DEF Basics
      <4>4. Len(Queue(L)) = 0
        BY <2>3
      <4> QED
        BY <4>1, <4>3, <4>4
    <3>4. ASSUME InFrame(i) PROVE FALSE
      <4>1. PICK n \in 1 .. Depth : Inst(n) = i
        BY <3>4 DEF InFrame
      <4>2. n # 1
        BY <4>1 DEF Basics, Root
      <4>3. n \in 2 .. Depth /\ n - 1 \in 1 .. Depth /\ n \in Nat
        BY <2>3, <4>1, <4>2
      <4>4. Inst(n - 1) = Inst(L)
        BY <1>0, <2>4, <4>1, <4>3 DEF Homes
      <4>5. n - 1 = L
        BY <2>3, <4>3, <4>4 DEF Basics
      <4> QED
        BY <2>3, <4>3, <4>5
    <3>5. ASSUME InGroup(i) PROVE FALSE
      <4>1. PICK n \in 1 .. Depth : \E k \in 2 .. Len(Groups(n)) : Groups(n)[k] = i
        BY <3>5 DEF InGroup
      <4>2. Inst(n) = Inst(L)
        BY <1>0, <2>4, <4>1 DEF Grouped
      <4>3. n = L
        BY <2>3, <4>2 DEF Basics
      <4>4. PICK k \in 2 .. 1 : TRUE
        BY <2>3, <4>1, <4>3
      <4> QED
        BY <4>4
    <3> QED
      BY <1>0, <3>2, <3>3, <3>4, <3>5 DEF Accounted
  <2> QED
    BY <1>0, <1>1, <2>1, <2>2, <2>4 DEF HomeThere
<1> QED
  BY <1>3, <1>a, <1>4, <1>5, <1>6, <1>7 DEF StepKind, Neutral, Finishing, SameTables

-----------------------------------------------------------------------------
(* The calls of the application *)

Calls == {"undo", "redo", "remove", "move", "update", "fini", "join"}

\* The application is in this call.
Calling(c) == 1 \in DOMAIN stack[Owner] /\ stack[Owner][1].at = c

SameCalls == OwnerActs' /\ \A c \in Calls : Calling(c)' <=> Calling(c)

\* Activations none of which, or of which only the first, is a call of the application.
InnerAct(a) == a.at \notin Calls
Inner(acts) == Listed(acts) /\ \A k \in 1 .. Len(acts) : InnerAct(acts[k])
Outer(acts) == Listed(acts) /\ \A k \in 2 .. Len(acts) : InnerAct(acts[k])

LEMMA InnerActs ==
  /\ Inner(<<>>)
  /\ \A a : Outer(<<a>>) /\ (InnerAct(a) => Inner(<<a>>))
  /\ \A a, b : InnerAct(b) => Outer(<<a, b>>) /\ (InnerAct(a) => Inner(<<a, b>>))
  /\ \A a, b, c : InnerAct(b) /\ InnerAct(c) => Outer(<<a, b, c>>)
<1>1. Inner(<<>>)
  BY TuplesListed DEF Inner
<1>2. ASSUME NEW a PROVE Outer(<<a>>) /\ (InnerAct(a) => Inner(<<a>>))
  <2>1. \A k \in 1 .. 1 : <<a>>[k] = a
    OBVIOUS
  <2>2. 2 .. 1 = {}
    OBVIOUS
  <2> QED
    BY <2>1, <2>2, TuplesListed DEF Inner, Outer
<1>3. ASSUME NEW a, NEW b, InnerAct(b)
      PROVE  Outer(<<a, b>>) /\ (InnerAct(a) => Inner(<<a, b>>))
  <2>1. /\ \A k \in 1 .. 2 : <<a, b>>[k] = a \/ <<a, b>>[k] = b
        /\ \A k \in 2 .. 2 : <<a, b>>[k] = b
    OBVIOUS
  <2> QED
    BY <1>3, <2>1, TuplesListed DEF Inner, Outer
<1>4. ASSUME NEW a, NEW b, NEW c, InnerAct(b), InnerAct(c)
      PROVE  Outer(<<a, b, c>>)
  <2>1. \A k \in 2 .. 3 : <<a, b, c>>[k] = b \/ <<a, b, c>>[k] = c
    OBVIOUS
  <2> QED
    BY <1>4, <2>1, TuplesListed DEF Outer
<1> QED
  BY <1>1, <1>2, <1>3, <1>4

\* Which activations are inner ones.
LEMMA ActsInner ==
  ASSUME NEW a, NEW i, a \notin Calls
  PROVE  InnerAct(Act(a, i)) /\ \A x : InnerAct([Act(a, i) EXCEPT !.before = x])
                                      /\ InnerAct([Act(a, i) EXCEPT !.prev = x])
BY ActFields DEF InnerAct

Waiting == {"wait", "waitStart"}

\* A thread moves inside the calls in progress; a wait goes on when it may.
InnerMove(t) ==
  \/ UNCHANGED stack
  \/ \E acts : Inner(acts) /\ Push(t, acts)
  \/ /\ Running(t) /\ Top(t).at \notin Calls
     /\ Pop(t) \/ \E acts : Inner(acts) /\ ReplaceTop(t, acts)
     /\ Top(t).at \in Waiting => WaitNext(t) \/ WaitStart(t)

\* Activations come above others that are no calls.
LEMMA AboveInner ==
  ASSUME OwnerActs, NEW t \in Threads, NEW n, NEW acts, Above(t, n, acts), Inner(acts),
         \A k \in n + 1 .. Len(stack[t]) : stack[t][k].at \notin Calls
  PROVE  SameCalls
<1>1. /\ n \in Nat /\ n <= Len(stack[t]) /\ Len(acts) \in Nat /\ Len(stack[t]) \in Nat
      /\ DOMAIN stack[t] = 1 .. Len(stack[t]) /\ DOMAIN stack'[t] = 1 .. n + Len(acts)
      /\ Len(stack'[t]) = n + Len(acts)
      /\ \A u \in Threads : u # t => stack'[u] = stack[u]
      /\ \A k \in 1 .. n : stack'[t][k] = stack[t][k]
      /\ \A k \in 1 .. Len(acts) : stack'[t][n + k] = acts[k]
  BY DEF Above
<1>2. \A k \in DOMAIN stack'[t] :
        \/ k \in 1 .. n /\ k \in DOMAIN stack[t] /\ stack'[t][k] = stack[t][k]
        \/ k \notin 1 .. n /\ stack'[t][k].at \notin Calls
  <2>1. ASSUME NEW k \in DOMAIN stack'[t], k \notin 1 .. n PROVE stack'[t][k].at \notin Calls
    <3>1. k - n \in 1 .. Len(acts) /\ n + (k - n) = k
      BY <1>1, <2>1
    <3> QED
      BY <1>1, <3>1 DEF Inner, InnerAct
  <2>2. \A k \in 1 .. n : k \in DOMAIN stack[t] /\ stack'[t][k] = stack[t][k]
    BY <1>1
  <2> QED
    BY <2>1, <2>2
<1>3. OwnerActs'
  <2>1. ASSUME NEW u \in Threads, NEW k \in DOMAIN stack'[u], stack'[u][k].at \in Calls
        PROVE  u = Owner /\ k = 1
    <3>1. k \in DOMAIN stack[u] /\ stack[u][k].at \in Calls
      BY <1>1, <1>2, <2>1
    <3> QED
      BY <3>1 DEF OwnerActs, Calls
  <2> QED
    BY <2>1 DEF OwnerActs, Calls
<1>4. ASSUME NEW c \in Calls PROVE Calling(c)' <=> Calling(c)
  <2>1. CASE t # Owner
    BY <1>1, <2>1 DEF Calling, Threads
  <2>2. CASE t = Owner
    <3>1. 1 \in 1 .. n \/ 1 \in n + 1 .. Len(stack[t]) \/ 1 \notin DOMAIN stack[t]
      BY <1>1
    <3>2. 1 \in 1 .. n => 1 \in DOMAIN stack[t] /\ 1 \in DOMAIN stack'[t]
      BY <1>1
    <3> QED
      BY <1>1, <1>2, <1>4, <2>2, <3>1, <3>2 DEF Calling
  <2> QED
    BY <2>1, <2>2
<1> QED
  BY <1>3, <1>4 DEF SameCalls

\* A step inside the calls leaves the calls alone ...
LEMMA InnerKeepsCalls ==
  ASSUME StackShape, OwnerActs, NEW t \in Threads, InnerMove(t)
  PROVE  SameCalls
<1>1. Len(stack[t]) \in Nat /\ Inner(<<>>)
  BY OwningDomain, InnerActs
<1>2. ASSUME NEW acts, Inner(acts), Push(t, acts) PROVE SameCalls
  <2>1. Listed(acts) /\ \A k \in Len(stack[t]) + 1 .. Len(stack[t]) : stack[t][k].at \notin Calls
    BY <1>1, <1>2 DEF Inner
  <2> QED
    BY <1>1, <1>2, <2>1, PushAbove, AboveInner
<1>3. Len(stack[t]) > 0 => \A k \in (Len(stack[t]) - 1) + 1 .. Len(stack[t]) : k = Len(stack[t])
  BY <1>1
<1>4. ASSUME NEW acts, Inner(acts), Running(t), Top(t).at \notin Calls, ReplaceTop(t, acts)
      PROVE  SameCalls
  <2>1. Above(t, Len(stack[t]) - 1, acts) /\ Len(stack[t]) > 0 /\ Top(t) = stack[t][Len(stack[t])]
    BY <1>4, ReplaceAbove DEF Inner
  <2>2. \A k \in (Len(stack[t]) - 1) + 1 .. Len(stack[t]) : stack[t][k].at \notin Calls
    BY <1>3, <1>4, <2>1
  <2> QED
    BY <1>4, <2>1, <2>2, AboveInner
<1>5. ASSUME Running(t), Top(t).at \notin Calls, Pop(t)
      PROVE  SameCalls
  <2>1. Above(t, Len(stack[t]) - 1, <<>>) /\ Len(stack[t]) > 0 /\ Top(t) = stack[t][Len(stack[t])]
    BY <1>5, PopAbove
  <2>2. \A k \in (Len(stack[t]) - 1) + 1 .. Len(stack[t]) : stack[t][k].at \notin Calls
    BY <1>3, <1>5, <2>1
  <2> QED
    BY <1>1, <2>1, <2>2, AboveInner
<1>6. CASE UNCHANGED stack
  BY <1>6 DEF SameCalls, OwnerActs, Calling
<1> QED
  BY <1>2, <1>4, <1>5, <1>6 DEF InnerMove

\* ... and a call begins, goes on or ends as the only activation of the owner.
LEMMA OuterCalls ==
  ASSUME StackShape, OwnerActs, NEW acts, Outer(acts),
         \/ stack[Owner] = <<>> /\ Push(Owner, acts)
         \/ /\ Running(Owner) /\ Top(Owner).at \in Calls
            /\ ReplaceTop(Owner, acts) \/ (acts = <<>> /\ Pop(Owner))
  PROVE  /\ OwnerActs' /\ Above(Owner, 0, acts)
         /\ Running(Owner) => Len(stack[Owner]) = 1 /\ Top(Owner) = stack[Owner][1]
<1>0. Owner \in Threads /\ Listed(acts) /\ \A k \in 2 .. Len(acts) : acts[k].at \notin Calls
  BY DEF Threads, Outer, InnerAct
<1>1. ASSUME stack[Owner] = <<>>, Push(Owner, acts)
      PROVE  Above(Owner, 0, acts) /\ ~Running(Owner)
  <2>1. Len(stack[Owner]) = 0 /\ ~Running(Owner)
    BY <1>1 DEF Running
  <2> QED
    BY <1>0, <1>1, <2>1, PushAbove
<1>2. ASSUME Running(Owner), Top(Owner).at \in Calls,
             ReplaceTop(Owner, acts) \/ (acts = <<>> /\ Pop(Owner))
      PROVE  Above(Owner, 0, acts) /\ Len(stack[Owner]) = 1 /\ Top(Owner) = stack[Owner][1]
  <2>1. Above(Owner, Len(stack[Owner]) - 1, acts) /\ Top(Owner) = stack[Owner][Len(stack[Owner])]
        /\ Len(stack[Owner]) > 0
    BY <1>0, <1>2, ReplaceAbove, PopAbove
  <2>2. Len(stack[Owner]) \in DOMAIN stack[Owner]
    BY <1>0, <2>1, OwningDomain
  <2>3. Len(stack[Owner]) = 1
    BY <1>0, <1>2, <2>1, <2>2 DEF OwnerActs, Calls
  <2> QED
    BY <2>1, <2>3
<1>3. /\ Above(Owner, 0, acts)
      /\ Running(Owner) => Len(stack[Owner]) = 1 /\ Top(Owner) = stack[Owner][1]
  BY <1>1, <1>2
<1>4. OwnerActs'
  <2>1. /\ DOMAIN stack'[Owner] = 1 .. Len(acts) /\ Len(acts) \in Nat
        /\ \A u \in Threads : u # Owner => stack'[u] = stack[u]
        /\ \A k \in 1 .. Len(acts) : stack'[Owner][k] = acts[k]
    BY <1>3 DEF Above
  <2>2. ASSUME NEW u \in Threads, NEW k \in DOMAIN stack'[u], stack'[u][k].at \in Calls
        PROVE  u = Owner /\ k = 1
    <3>1. CASE u # Owner
      BY <2>1, <2>2, <3>1 DEF OwnerActs, Calls
    <3>2. CASE u = Owner
      <4>1. k \in 1 .. Len(acts) /\ acts[k].at \in Calls
        BY <2>1, <2>2, <3>2
      <4>2. k \notin 2 .. Len(acts)
        BY <1>0, <4>1
      <4> QED
        BY <2>1, <3>2, <4>1, <4>2
    <3> QED
      BY <3>1, <3>2
  <2> QED
    BY <2>2 DEF OwnerActs, Calls
<1> QED
  BY <1>3, <1>4

LEMMA ThreadInner ==
  ASSUME NEW t \in Threads, ThreadStep(t)
  PROVE  InnerMove(t)
<1> USE DEF At
<1>1. /\ \A a, i : a \notin Calls => InnerAct(Act(a, i))
      /\ \A a, i, x : a \notin Calls => InnerAct([Act(a, i) EXCEPT !.before = x])
      /\ \A a, i, x : a \notin Calls => InnerAct([Act(a, i) EXCEPT !.prev = x])
  BY ActsInner
<1>2. /\ Inner(<<>>) /\ \A a : InnerAct(a) => Inner(<<a>>)
      /\ \A a, b : InnerAct(a) /\ InnerAct(b) => Inner(<<a, b>>)
  BY InnerActs
<1>3. /\ "loop" \notin Calls /\ "exec" \notin Calls /\ "spin" \notin Calls
      /\ "rollback" \notin Calls /\ "wait" \notin Calls /\ "waitStart" \notin Calls
      /\ "flush" \notin Calls /\ "undoRedo" \notin Calls
      /\ {"loop", "exec", "spin", "rollback", "flush"} \cap Waiting = {}
  BY DEF Calls, Waiting
<1>4. Inner(<<Act("loop", Root)>>) /\ \A i : Inner(<<WaitAct(t, i)>>)
  BY <1>1, <1>2, <1>3 DEF WaitAct
<1>5. CASE LoopEnds(t)
  BY <1>3, <1>5 DEF LoopEnds, InnerMove
<1>6. CASE TakeCommand(t)
  <2>1. \E i, x : Push(t, <<[Act("exec", i) EXCEPT !.prev = x]>>)
    BY <1>6 DEF TakeCommand
  <2> QED
    BY <1>1, <1>2, <1>3, <2>1 DEF InnerMove
<1>7. CASE TakeUndoRedo(t)
  <2>1. \E i : Push(t, <<Act("undoRedo", i), Act("flush", Root)>>)
    BY <1>7 DEF TakeUndoRedo
  <2> QED
    BY <1>1, <1>2, <1>3, <2>1 DEF InnerMove
<1>8. CASE ExecWrite(t)
  BY <1>8 DEF ExecWrite, InnerMove
<1>9. CASE ExecQueue(t) \/ ExecBatch(t)
  <2>1. Push(t, <<>> \o <<Act("loop", Root)>>)
    BY <1>9 DEF ExecQueue, ExecBatch, QueueCommand
  <2>2. <<>> \o <<Act("loop", Root)>> = <<Act("loop", Root)>>
    OBVIOUS
  <2> QED
    BY <1>4, <2>1, <2>2 DEF InnerMove
<1>10. CASE ExecWait(t)
  BY <1>4, <1>10 DEF ExecWait, InnerMove
<1>11. CASE Execute(t)
  <2>1. /\ Running(t) /\ Top(t).at = "exec"
        /\ ReplaceTop(t, <<[Top(t) EXCEPT !.at = "spin"]>>)
    BY <1>11 DEF Execute
  <2>2. InnerAct([Top(t) EXCEPT !.at = "spin"])
    BY <1>3, <2>1 DEF InnerAct
  <2> QED
    BY <1>2, <1>3, <2>1, <2>2 DEF InnerMove
<1>12. CASE SpinProcess(t)
  BY <1>4, <1>12 DEF SpinProcess, InnerMove
<1>13. CASE PopFrame(t)
  <2>1. /\ Running(t) /\ Top(t).at = "spin"
        /\ Pop(t) \/ \E done : ReplaceTop(t, <<Act("rollback", done)>>)
    BY <1>13 DEF PopFrame
  <2> QED
    BY <1>1, <1>2, <1>3, <2>1 DEF InnerMove
<1>14. CASE Rollback(t)
  BY <1>3, <1>14 DEF Rollback, InnerMove
<1>15. CASE WaitProcess(t)
  BY <1>4, <1>15 DEF WaitProcess, InnerMove
<1>16. CASE WaitNext(t)
  <2>1. /\ Running(t) /\ Top(t).at = "wait"
        /\ Pop(t) \/ \E i, x : ReplaceTop(t, <<[Act("wait", i) EXCEPT !.before = x]>>)
    BY <1>16 DEF WaitNext
  <2> QED
    BY <1>1, <1>2, <1>3, <1>16, <2>1 DEF InnerMove
<1>17. CASE WaitStart(t)
  BY <1>3, <1>4, <1>17 DEF WaitStart, InnerMove
<1>18. CASE Flush(t)
  BY <1>3, <1>4, <1>18 DEF Flush, InnerMove
<1> QED
  BY <1>5, <1>6, <1>7, <1>8, <1>9, <1>10, <1>11, <1>12, <1>13, <1>14, <1>15, <1>16, <1>17,
     <1>18 DEF ThreadStep

\* The calls stay where they are.
LEMMA OwnerActsStep ==
  ASSUME StackShape, OwnerActs, [Next]_vars
  PROVE  OwnerActs'
<1> USE DEF At
<1>0. Owner \in Threads /\ Worker \in Threads
  BY DEF Threads
<1>1. ASSUME NEW t \in Threads, InnerMove(t) PROVE OwnerActs'
  BY <1>1, InnerKeepsCalls DEF SameCalls
<1>2. ASSUME NEW acts, Outer(acts),
             \/ stack[Owner] = <<>> /\ Push(Owner, acts)
             \/ /\ Running(Owner) /\ Top(Owner).at \in Calls
                /\ ReplaceTop(Owner, acts) \/ (acts = <<>> /\ Pop(Owner))
      PROVE  OwnerActs'
  BY <1>2, OuterCalls
<1>3. /\ \A a, i : a \notin Calls => InnerAct(Act(a, i))
      /\ \A a, i, x : a \notin Calls => InnerAct([Act(a, i) EXCEPT !.before = x])
  BY ActsInner
<1>4. /\ Outer(<<>>) /\ \A a : Outer(<<a>>)
      /\ \A a, b : InnerAct(b) => Outer(<<a, b>>)
      /\ \A a, b, c : InnerAct(b) /\ InnerAct(c) => Outer(<<a, b, c>>)
  BY InnerActs DEF Inner, Outer
<1>5. InnerAct(Act("loop", Root)) /\ InnerAct(Act("flush", Root))
      /\ \A i : InnerAct(Act("waitStart", i))
  BY <1>3 DEF Calls
<1>6. Inner(<<Act("loop", Root)>>)
  BY <1>5, InnerActs
<1>7. CASE OwnerStep
  <2>1. CASE ThreadStep(Owner)
    BY <1>0, <1>1, <2>1, ThreadInner
  <2>2. CASE UndoCall \/ RedoCall
    <3>1. /\ Running(Owner) /\ Top(Owner).at \in Calls
          /\ \E job : stack' = [stack EXCEPT ![Owner] =
               (IF @ = <<>> THEN <<>> ELSE Front(@))
                 \o <<Act("move", Root), Act("waitStart", job), Act("loop", Root)>>]
      BY <2>2 DEF UndoCall, RedoCall, MoveCommandIndex, Calls
    <3>2. \E job : ReplaceTop(Owner, <<Act("move", Root), Act("waitStart", job), Act("loop", Root)>>)
      BY <3>1 DEF ReplaceTop, Running
    <3> QED
      BY <1>2, <1>4, <1>5, <3>1, <3>2
  <2>3. CASE UndoEntry \/ RedoEntry
    BY <2>3 DEF UndoEntry, RedoEntry, OwnerActs
  <2>4. CASE UndoRedoDone \/ UndoRedoFails
    <3>1. InnerMove(Owner)
      BY <2>4 DEF UndoRedoDone, UndoRedoFails, InnerMove, Calls, Waiting
    <3> QED
      BY <1>0, <1>1, <3>1
  <2>5. CASE MoveDone \/ RemoveCall \/ UpdateDone \/ FiniJoin
    <3>1. Running(Owner) /\ Top(Owner).at \in Calls /\ Pop(Owner)
      BY <2>5 DEF MoveDone, RemoveCall, UpdateDone, FiniJoin, Calls
    <3> QED
      BY <1>2, <1>4, <3>1
  <2>6. CASE FiniExit
    <3>1. Running(Owner) /\ Top(Owner).at \in Calls /\ ReplaceTop(Owner, <<Act("join", Root)>>)
      BY <2>6 DEF FiniExit, Calls
    <3> QED
      BY <1>2, <1>4, <3>1
  <2> QED
    BY <1>7, <2>1, <2>2, <2>3, <2>4, <2>5, <2>6 DEF OwnerStep
<1>8. CASE WorkerStep
  <2>1. CASE ThreadStep(Worker)
    BY <1>0, <1>1, <2>1, ThreadInner
  <2>2. CASE WorkerTurn \/ WorkerWoken
    <3>1. InnerMove(Worker)
      BY <1>6, <2>2 DEF WorkerTurn, WorkerWoken, InnerMove
    <3> QED
      BY <1>0, <1>1, <3>1
  <2> QED
    BY <1>8, <2>1, <2>2 DEF WorkerStep
<1>9. CASE AppStep
  <2>1. stack[Owner] = <<>>
    BY <1>9 DEF AppStep, AppQueue, AppBatch, AppWait, AppUndo, AppRedo, AppMove, AppRemove, AppFlush,
         AppUpdate, AppFini, MayMove, Idle
  <2>2. ASSUME NEW acts, Outer(acts), Push(Owner, acts) PROVE OwnerActs'
    BY <1>2, <2>1, <2>2
  <2>3. \A a : <<>> \o <<a>> = <<a>>
    OBVIOUS
  <2>4. ASSUME NEW a, NEW b, InnerAct(b) PROVE Outer(<<a>> \o <<b>>)
    <3> DEFINE acts == <<a>> \o <<b>>
    <3>1. Listed(<<a>>) /\ Listed(<<b>>) /\ Len(<<a>>) = 1 /\ Len(<<b>>) = 1
      BY TuplesListed
    <3>2. /\ Listed(acts) /\ Len(acts) = 2
          /\ \A k \in 2 .. 2 : acts[k] = <<b>>[k - 1]
      BY <3>1, ListedConcat
    <3> HIDE DEF acts
    <3>3. \A k \in 2 .. 2 : acts[k] = b
      BY <3>2
    <3>4. Outer(acts)
      BY <2>4, <3>2, <3>3 DEF Outer
    <3> QED
      BY <3>4 DEF acts
  <2>5. CASE AppQueue \/ AppBatch
    <3>1. Push(Owner, <<>> \o <<Act("loop", Root)>>)
      BY <2>5 DEF AppQueue, AppBatch, QueueCommand
    <3> QED
      BY <1>4, <2>2, <2>3, <3>1
  <2>6. CASE AppWait
    BY <1>4, <2>2, <2>6 DEF AppWait
  <2>7. CASE AppUndo \/ AppRedo \/ AppRemove
    <3>1. \E a : Push(Owner, <<Act(a, Root), Act("flush", Root)>>)
      BY <2>7 DEF AppUndo, AppRedo, AppRemove
    <3> QED
      BY <1>4, <1>5, <2>2, <3>1
  <2>8. CASE AppMove
    <3>1. \E job : stack' = [stack EXCEPT ![Owner] =
               (IF @ = <<>> THEN <<>> ELSE Front(@))
                 \o <<Act("move", Root), Act("waitStart", job), Act("loop", Root)>>]
      BY <2>8 DEF AppMove, MoveCommandIndex
    <3>2. PICK job : stack' = [stack EXCEPT ![Owner] =
                 <<>> \o <<Act("move", Root), Act("waitStart", job), Act("loop", Root)>>]
      BY <2>1, <3>1
    <3>3. stack[Owner] \o <<Act("move", Root), Act("waitStart", job), Act("loop", Root)>>
            = <<>> \o <<Act("move", Root), Act("waitStart", job), Act("loop", Root)>>
      BY <2>1
    <3>4. Push(Owner, <<Act("move", Root), Act("waitStart", job), Act("loop", Root)>>)
      BY <3>2, <3>3 DEF Push
    <3> QED
      BY <1>4, <1>5, <2>2, <3>4
  <2>9. CASE AppFlush
    BY <1>4, <2>2, <2>9 DEF AppFlush
  <2>10. CASE AppUpdate
    BY <1>4, <1>5, <2>2, <2>10 DEF AppUpdate
  <2>11. CASE AppFini
    <3>1. Push(Owner, <<Act("fini", Root)>> \o <<Act("loop", Root)>>)
      BY <2>11 DEF AppFini, QueueCommand
    <3> QED
      BY <1>5, <2>2, <2>4, <3>1
  <2> QED
    BY <1>9, <2>5, <2>6, <2>7, <2>8, <2>9, <2>10, <2>11 DEF AppStep
<1>10. CASE UNCHANGED vars
  BY <1>10 DEF vars, OwnerActs
<1> QED
  BY <1>7, <1>8, <1>9, <1>10 DEF Next

=============================================================================
