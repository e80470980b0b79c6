--------------------------- MODULE FilteredListProofs ---------------------------
(***************************************************************************)
(* Proofs about FilteredListModel for any number of detached threads, any  *)
(* items, filters and sources, threads that setSource overtakes, sources   *)
(* that die and removals of hidden items included: scans exclude one       *)
(* another and the changes of the source, and keep their place while the   *)
(* source is there; the map, and a view that follows the signals, mirror   *)
(* the source until a removal has lowered entries it should not; and the   *)
(* list implements FilteredView.                                           *)
(***************************************************************************)
EXTENDS FilteredListModel, FiniteSetTheorems, SequenceTheorems, TLAPS

Holding == {"scan", "finish", "ending", "notify"}
Changing == {"insert", "remove", "change"}

\* The part of the type that the argument uses.
Shape ==
  /\ pc \in [Threads -> Stages]
  /\ DOMAIN scan = Threads
  /\ \A t \in Threads : scan[t] = [i |-> scan[t].i, index |-> scan[t].index,
                                   count |-> scan[t].count]
  /\ ~connected => source = <<>>
  /\ Running(Main) => call = Idle
  /\ call.op \in Changing => connected
  /\ call.op \in {"halt", "drop", "replace"} =>
       /\ call = [op |-> call.op, to |-> call.to]
       /\ ~call.to.present => call.to.items = <<>>

\* The mutex belongs to the thread in the second half of remapIndices, or to Main
\* between the two signals of a change.
MutexOwned ==
  /\ \A t \in Threads : pc[t] \in Holding => eventControl = t
  /\ call.op \in Changing => eventControl = Main

\* The first inductive invariant.
IInv == Shape /\ MutexOwned

USE FilteredAssumption DEF Stages, Counted, Holding, Changing, Idle

\* The initial state satisfies the invariant.
LEMMA InitEstablishes == Init => IInv
<1> SUFFICES ASSUME Init PROVE IInv
  OBVIOUS
<1>1. \A t \in Threads : pc[t] = "none" /\ scan[t] = NoScan
  BY DEF Init
<1>2. Shape
  <2>1. pc \in [Threads -> Stages] /\ DOMAIN scan = Threads
    BY DEF Init
  <2> QED
    BY <1>1, <2>1 DEF Shape, Init, NoScan, Running
<1>3. MutexOwned
  BY <1>1 DEF MutexOwned, Init
<1> QED
  BY <1>2, <1>3 DEF IInv

\* A thread takes a step without the mutex, or waits for it.
LEMMA Quiet ==
  ASSUME IInv, NEW t \in Threads, CountUp(t) \/ FilteringBegin(t) \/ FinishScan(t)
  PROVE  IInv'
<1> USE DEF IInv
<1>1. PICK stage \in {"counted", "begun", "ending"} :
        /\ pc[t] # "none" /\ pc' = [pc EXCEPT ![t] = stage]
        /\ stage = "ending" => pc[t] = "finish"
        /\ UNCHANGED <<connected, source, eventControl, scan, call>>
  BY DEF CountUp, FilteringBegin, FinishScan, Goto, modelVars, lockVars
<1>2. pc' \in [Threads -> Stages] /\ \A u \in Threads : pc'[u] = IF u = t THEN stage ELSE pc[u]
  BY <1>1 DEF Shape
<1>3. Shape'
  BY <1>1, <1>2 DEF Shape, Running
<1>4. MutexOwned'
  BY <1>1, <1>2 DEF MutexOwned
<1> QED
  BY <1>3, <1>4

\* A scan starts with the mutex, and judges one item after the other.
LEMMA Scans ==
  ASSUME IInv, NEW t \in Threads, StartScan(t) \/ ScanItem(t)
  PROVE  IInv'
<1> USE DEF IInv
<1>1. PICK stage \in {"scan", "finish"} :
        /\ pc[t] \in {"begun", "scan"} /\ pc' = [pc EXCEPT ![t] = stage]
        /\ UNCHANGED <<connected, source, call>>
  BY DEF StartScan, ScanItem, Advance, Goto, modelVars
<1>2. pc' \in [Threads -> Stages] /\ \A u \in Threads : pc'[u] = IF u = t THEN stage ELSE pc[u]
  BY <1>1 DEF Shape
<1>3. CASE StartScan(t)
  <2>1. /\ eventControl = NoThread /\ eventControl' = t /\ pc[t] = "begun"
        /\ DOMAIN scan' = Threads
        /\ \A u \in Threads : scan'[u] = IF u = t THEN [i |-> 0, index |-> 0, count |-> Len(source)]
                                                  ELSE scan[u]
        /\ stage = IF source = <<>> THEN "finish" ELSE "scan"
    BY <1>1, <1>2, <1>3 DEF StartScan, Goto, Shape
  <2>2. Shape'
    BY <1>1, <1>2, <2>1 DEF Shape, Running
  <2>3. MutexOwned'
    <3>1. \A u \in Threads : pc[u] \notin Holding
      BY <2>1 DEF MutexOwned, Threads
    <3>2. call.op \notin Changing
      BY <2>1 DEF MutexOwned
    <3> QED
      BY <1>1, <1>2, <2>1, <3>1, <3>2 DEF MutexOwned
  <2> QED
    BY <2>2, <2>3
<1>4. CASE ScanItem(t)
  <2>1. UNCHANGED eventControl /\ pc[t] = "scan"
    BY <1>1, <1>4 DEF ScanItem, lockVars
  <2>2. PICK shown \in {0, 1} :
          scan' = [scan EXCEPT ![t].i = @ + 1, ![t].index = @ + shown]
    BY <1>4 DEF ScanItem, Advance
  <2>3. DOMAIN scan' = Threads /\ \A u \in Threads \ {t} : scan'[u] = scan[u]
    BY <2>2 DEF Shape
  <2>4. scan'[t] = [scan[t] EXCEPT !.i = @ + 1, !.index = @ + shown]
    BY <2>2 DEF Shape
  <2>5. scan'[t] = [i |-> scan[t].i + 1, index |-> scan[t].index + shown, count |-> scan[t].count]
    BY <2>4 DEF Shape
  <2>6. Shape'
    BY <1>1, <1>2, <2>3, <2>5 DEF Shape, Running
  <2>7. MutexOwned'
    BY <1>1, <1>2, <2>1 DEF MutexOwned
  <2> QED
    BY <2>6, <2>7
<1> QED
  BY <1>3, <1>4

\* A thread leaves remapIndices, having told the listener or not.
LEMMA Leaves ==
  ASSUME IInv, NEW t \in Threads, FilteringGoesOn(t) \/ FilteringEnds(t) \/ FilteringEnd(t)
  PROVE  IInv'
<1> USE DEF IInv
<1>1. PICK stage \in {"notify", "none"} :
        /\ pc[t] \in {"ending", "notify"} /\ pc' = [pc EXCEPT ![t] = stage]
        /\ UNCHANGED <<connected, source, call>>
        /\ stage = "notify" => eventControl' = eventControl /\ scan' = scan
        /\ stage = "none" => eventControl' = NoThread /\ scan' = [scan EXCEPT ![t] = NoScan]
  BY DEF FilteringGoesOn, FilteringEnds, FilteringEnd, Leave, Goto, modelVars, lockVars
<1>2. pc' \in [Threads -> Stages] /\ \A u \in Threads : pc'[u] = IF u = t THEN stage ELSE pc[u]
  BY <1>1 DEF Shape
<1>3. DOMAIN scan' = Threads /\ \A u \in Threads : scan'[u] = scan[u] \/ (u = t /\ scan'[u] = NoScan)
  BY <1>1 DEF Shape
<1>4. Shape'
  BY <1>1, <1>2, <1>3 DEF Shape, Running, NoScan
<1>5. eventControl = t
  BY <1>1 DEF MutexOwned
<1>6. MutexOwned'
  <2>1. \A u \in Threads \ {t} : pc[u] \notin Holding
    BY <1>5 DEF MutexOwned
  <2>2. call.op \notin Changing
    BY <1>1, <1>5 DEF MutexOwned, Shape, Running
  <2> QED
    BY <1>1, <1>2, <1>5, <2>1, <2>2 DEF MutexOwned
<1> QED
  BY <1>4, <1>6

\* A call of Main that touches neither the source, nor the mutex, nor a scan.
LEMMA OtherCall ==
  ASSUME IInv, UNCHANGED <<connected, source, eventControl, pc, scan>>,
         Running(Main) => call' = Idle, call'.op \notin Changing \cup {"halt", "drop", "replace"}
  PROVE  IInv'
BY DEF IInv, Shape, Running, MutexOwned

\* A refresh puts a thread that does not run on its way.
LEMMA Spawns ==
  ASSUME IInv, NEW t \in Threads, pc[t] = "none", pc' = [pc EXCEPT ![t] = "spawned"],
         call' = Idle, UNCHANGED <<connected, source, eventControl, scan>>
  PROVE  IInv'
<1> USE DEF IInv
<1>1. pc' \in [Threads -> Stages] /\ \A u \in Threads : pc'[u] = IF u = t THEN "spawned" ELSE pc[u]
  BY DEF Shape
<1>2. Shape'
  BY <1>1 DEF Shape, Running
<1>3. MutexOwned'
  BY <1>1 DEF MutexOwned
<1> QED
  BY <1>2, <1>3

\* The calls that refresh.
LEMMA Refreshing ==
  ASSUME IInv,
         \/ \E f \in Filters : SetFilter(f) \/ FilterChanged(f)
         \/ \E w \in BOOLEAN : Refresh(w)
         \/ RefreshReturns \/ RefreshInPlace \/ RefreshDetached
  PROVE  IInv'
<1>1. CASE \/ \E f \in Filters : SetFilter(f) \/ FilterChanged(f)
           \/ \E w \in BOOLEAN : Refresh(w)
  <2>1. /\ UNCHANGED <<connected, source, eventControl, pc, scan>>
        /\ ~Running(Main) /\ call'.op = "refresh"
    BY <1>1 DEF SetFilter, FilterChanged, Refresh, Begins, modelVars, lockVars, scanVars
  <2> QED
    BY <2>1, OtherCall
<1>2. CASE RefreshReturns
  <2>1. UNCHANGED <<connected, source, eventControl, pc, scan>> /\ call' = Idle
    BY <1>2 DEF RefreshReturns, Done, modelVars, lockVars, scanVars
  <2> QED
    BY <2>1, OtherCall
<1>3. CASE RefreshInPlace
  <2>1. call # Idle
    BY <1>3 DEF RefreshInPlace
  <2>2. Main \in Threads /\ pc[Main] = "none"
    BY <2>1 DEF IInv, Shape, Running, Threads
  <2> QED
    BY <1>3, <2>2, Spawns DEF RefreshInPlace, Done, Goto, modelVars, lockVars
<1>4. CASE RefreshDetached
  <2>1. PICK t \in Refreshers : pc[t] = "none" /\ Goto(t, "spawned")
    BY <1>4 DEF RefreshDetached
  <2>2. t \in Threads
    BY DEF Threads
  <2> QED
    BY <1>4, <2>1, <2>2, Spawns DEF RefreshDetached, Done, Goto, modelVars, lockVars
<1> QED
  BY <1>1, <1>2, <1>3, <1>4

\* setSource, until the new source is there.
LEMMA Halts ==
  ASSUME IInv,
         \/ \E s : SetSource(s) /\ (~s.present => s.items = <<>>)
         \/ RemappingHalted \/ Disconnect \/ ReplaceSource
  PROVE  IInv'
<1> USE DEF IInv
<1>1. CASE \E s : SetSource(s) /\ (~s.present => s.items = <<>>)
  <2>1. PICK s : SetSource(s) /\ (~s.present => s.items = <<>>)
    BY <1>1
  <2>2. /\ UNCHANGED <<connected, source, eventControl, pc, scan>>
        /\ ~Running(Main) /\ call' = [op |-> "halt", to |-> s]
    BY <2>1 DEF SetSource, Begins, modelVars, lockVars
  <2> QED
    BY <2>1, <2>2 DEF Shape, Running, MutexOwned
<1>2. CASE RemappingHalted \/ Disconnect
  <2>1. PICK op \in {"drop", "replace"} :
          /\ UNCHANGED <<pc, scan, eventControl>>
          /\ UNCHANGED <<connected, source>> \/ (~connected' /\ source' = <<>>)
          /\ call.op \in {"halt", "drop"} /\ call' = [call EXCEPT !.op = op]
    BY <1>2 DEF RemappingHalted, Disconnect, modelVars, lockVars, scanVars
  <2>2. call' = [op |-> op, to |-> call.to] /\ pc[Main] = "none"
        /\ (~call.to.present => call.to.items = <<>>)
    BY <2>1 DEF Shape, Running
  <2>3. call'.op = op /\ call'.to = call.to
    BY <2>2
  <2>4. Shape'
    <3>1. call' = [op |-> call'.op, to |-> call'.to] /\ (~call'.to.present => call'.to.items = <<>>)
      BY ONLY <2>2, <2>3
    <3>2. ~connected' => source' = <<>>
      BY <2>1 DEF Shape
    <3>3. call'.op \notin Changing
      BY <2>3
    <3> QED
      BY <2>1, <2>2, <3>1, <3>2, <3>3 DEF Shape, Running
  <2>5. MutexOwned'
    BY <2>1, <2>3 DEF MutexOwned
  <2> QED
    BY <2>4, <2>5
<1>3. CASE ReplaceSource
  <2>1. /\ UNCHANGED <<pc, scan, eventControl>> /\ call.op = "replace" /\ call' = Idle
        /\ connected' = call.to.present /\ source' = call.to.items
    BY <1>3 DEF ReplaceSource, Done, lockVars
  <2> QED
    BY <2>1 DEF Shape, Running, MutexOwned
<1> QED
  BY <1>1, <1>2, <1>3

\* The source dies, whatever is going on.
LEMMA Dies ==
  ASSUME IInv, SourceDestroyed PROVE IInv'
<1>1. /\ UNCHANGED <<pc, scan, eventControl>> /\ ~Running(Main) /\ call' = Idle
      /\ ~connected' /\ source' = <<>>
  BY DEF SourceDestroyed, Begins, scanVars, lockVars
<1> QED
  BY <1>1 DEF IInv, Shape, Running, MutexOwned

\* The pre signal of the source comes: nobody holds the mutex.
LEMMA ChangeBegins ==
  ASSUME IInv,
         \/ \E index \in 0..MaxLen, new \in NewItems : preItemsInserted(index, new)
         \/ \E index \in 0..MaxLen, count \in 1..MaxLen : preItemsRemoved(index, count)
         \/ \E k \in 1..MaxLen, data \in Kinds : preItemDataChanged(k, data)
  PROVE  IInv'
<1> USE DEF IInv
<1>1. /\ UNCHANGED <<pc, scan, connected, source>> /\ ~Running(Main) /\ call = Idle
      /\ connected /\ eventControl = NoThread
      /\ eventControl' = Main /\ call'.op \in Changing
  BY DEF preItemsInserted, preItemsRemoved, preItemDataChanged, TakeEventControl,
         Begins, scanVars, modelVars
<1>2. \A t \in Threads : pc[t] \notin Holding
  BY <1>1 DEF MutexOwned, Threads
<1> QED
  BY <1>1, <1>2 DEF Shape, Running, MutexOwned

\* The post signal of the source: the mutex is Main's until now.
LEMMA ChangeEnds ==
  ASSUME IInv, postItemsInserted \/ postItemsRemoved \/ postItemDataChanged
  PROVE  IInv'
<1> USE DEF IInv
<1>1. /\ UNCHANGED <<pc, scan, connected>>
      /\ call.op \in Changing /\ call' = Idle /\ eventControl' = NoThread
      /\ connected
  BY DEF postItemsInserted, postItemsRemoved, postItemDataChanged, Done, scanVars, Shape
<1>2. \A t \in Threads : pc[t] \notin Holding
  BY <1>1 DEF MutexOwned, Shape, Running
<1> QED
  BY <1>1, <1>2 DEF Shape, Running, MutexOwned

\* Every step preserves the invariant.
LEMMA StepPreserves ==
  ASSUME IInv, [Next]_vars PROVE IInv'
<1>1. CASE Application
  <2>1. CASE \E s \in Sources : SetSource([present |-> TRUE, items |-> s])
    BY <2>1, Halts
  <2>2. CASE SetSource([present |-> FALSE, items |-> <<>>])
    BY <2>2, Halts
  <2> QED
    BY <1>1, <2>1, <2>2, Refreshing, Dies, ChangeBegins DEF Application
<1>2. CASE Continue
  BY <1>2, Refreshing, Halts, ChangeEnds DEF Continue
<1>3. ASSUME NEW t \in Threads, remapIndices(t) PROVE IInv'
  BY <1>3, Quiet, Scans, Leaves DEF remapIndices
<1>4. CASE UNCHANGED vars
  <2>1. UNCHANGED <<connected, source, eventControl, pc, scan, call>>
    BY <1>4 DEF vars
  <2> QED
    BY <2>1 DEF IInv, Shape, Running, MutexOwned
<1> QED
  BY <1>1, <1>2, <1>3, <1>4 DEF Next

\* The mutex has one owner: a thread from the beginning of its scan until it leaves
\* remapIndices, or Main between the two signals of a change, although setSource and a
\* dying source take nothing.
THEOREM Invariance == Spec => []IInv
BY InitEstablishes, StepPreserves, PTL DEF Spec

-----------------------------------------------------------------------------
(* The operators on sequences the handlers are made of.                     *)

\* A sequence is one of the set its elements are in.
LEMMA Retype ==
  ASSUME NEW S, NEW T, NEW s \in Seq(S), \A k \in 1..Len(s) : s[k] \in T
  PROVE  s \in Seq(T)
<1>1. s \in [1..Len(s) -> S] /\ Len(s) \in Nat
  BY LenProperties
<1>2. s \in [1..Len(s) -> T]
  BY <1>1
<1> QED
  BY <1>1, <1>2, SeqDef

\* r is s with new put in at p, entry by entry.
Insertion(r, s, p, new) ==
  /\ Len(r) = Len(s) + Len(new)
  /\ \A k \in 1..(Len(s) + Len(new)) :
       /\ k <= p => r[k] = s[k]
       /\ p < k /\ k <= p + Len(new) => r[k] = new[k - p]
       /\ p + Len(new) < k => r[k] = s[k - Len(new)]

\* What Inserted puts where.
LEMMA InsertedFacts ==
  ASSUME NEW S, NEW s \in Seq(S), NEW new \in Seq(S), NEW p \in 0..Len(s)
  PROVE  Inserted(s, p, new) \in Seq(S) /\ Insertion(Inserted(s, p, new), s, p, new)
<1> DEFINE first == SubSeq(s, 1, p)
           rest == SubSeq(s, p + 1, Len(s))
           both == first \o new
<1>1. Len(s) \in Nat /\ Len(new) \in Nat /\ \A k \in 1..Len(s) : s[k] \in S
  BY ElementOfSeq, LenProperties
<1>2. first \in Seq(S) /\ Len(first) = p /\ \A k \in 1..p : first[k] = s[k]
  <2>1. \A k \in 1..p : s[k] \in S
    BY <1>1
  <2>2. /\ first \in Seq(S) /\ Len(first) = IF 1 <= p THEN p - 1 + 1 ELSE 0
        /\ \A k \in 1..(p - 1 + 1) : first[k] = s[1 + k - 1]
    BY <2>1, <1>1, SubSeqProperties
  <2> HIDE DEF first
  <2> QED
    BY <2>2, <1>1
<1>3. /\ rest \in Seq(S) /\ Len(rest) = Len(s) - p
      /\ \A k \in 1..(Len(s) - p) : rest[k] = s[p + k]
  <2>1. \A k \in (p + 1)..Len(s) : s[k] \in S
    BY <1>1
  <2>2. p + 1 \in Int /\ Len(s) \in Int
    BY <1>1
  <2>3. /\ rest \in Seq(S) /\ Len(rest) = IF p + 1 <= Len(s) THEN Len(s) - (p + 1) + 1 ELSE 0
        /\ \A k \in 1..(Len(s) - (p + 1) + 1) : rest[k] = s[(p + 1) + k - 1]
    BY <2>1, <2>2, SubSeqProperties
  <2> HIDE DEF rest
  <2>4. \A n \in Nat : p <= n => (IF p + 1 <= n THEN n - (p + 1) + 1 ELSE 0) = n - p
    OBVIOUS
  <2>5. Len(rest) = Len(s) - p
    BY <2>3, <2>4, <1>1
  <2>6. ASSUME NEW k \in 1..(Len(s) - p) PROVE rest[k] = s[p + k]
    <3>1. k \in 1..(Len(s) - (p + 1) + 1) /\ (p + 1) + k - 1 = p + k
      BY <1>1
    <3> QED
      BY <3>1, <2>3
  <2> QED
    BY <2>3, <2>5, <2>6
<1> HIDE DEF first, rest
<1>4. /\ both \in Seq(S) /\ Len(both) = p + Len(new)
      /\ \A k \in 1..(p + Len(new)) : both[k] = IF k <= p THEN first[k] ELSE new[k - p]
  <2>1. /\ both \in Seq(S) /\ Len(both) = Len(first) + Len(new)
        /\ \A k \in 1..(Len(first) + Len(new)) :
             both[k] = IF k <= Len(first) THEN first[k] ELSE new[k - Len(first)]
    <3>1. first \in Seq(S)
      BY <1>2
    <3> QED
      BY ONLY <3>1, new \in Seq(S), ConcatProperties DEF both
  <2>2. Len(first) = p
    BY <1>2
  <2> HIDE DEF both
  <2> QED
    BY ONLY <2>1, <2>2
<1> HIDE DEF both
<1>5. /\ both \o rest \in Seq(S) /\ Len(both \o rest) = Len(both) + Len(rest)
      /\ \A k \in 1..(Len(both) + Len(rest)) :
           (both \o rest)[k] = IF k <= Len(both) THEN both[k] ELSE rest[k - Len(both)]
  <2>1. both \in Seq(S) /\ rest \in Seq(S)
    BY <1>3, <1>4
  <2> QED
    BY ONLY <2>1, ConcatProperties
<1>6. Inserted(s, p, new) = both \o rest
  BY DEF Inserted, both, first, rest
<1> DEFINE r == both \o rest
<1> HIDE DEF r
<1>7. \A k \in 1..(Len(s) + Len(new)) :
        /\ k <= p => r[k] = s[k]
        /\ p < k /\ k <= p + Len(new) => r[k] = new[k - p]
        /\ p + Len(new) < k => r[k] = s[k - Len(new)]
  <2> TAKE k \in 1..(Len(s) + Len(new))
  <2>1. r[k] = IF k <= p + Len(new) THEN both[k] ELSE rest[k - (p + Len(new))]
    <3>1. Len(both) = p + Len(new) /\ Len(rest) = Len(s) - p
      BY <1>3, <1>4
    <3>2. k \in 1..((p + Len(new)) + (Len(s) - p))
      BY <1>1
    <3>3. \A j \in 1..((p + Len(new)) + (Len(s) - p)) :
            r[j] = IF j <= p + Len(new) THEN both[j] ELSE rest[j - (p + Len(new))]
      BY ONLY <1>5, <3>1 DEF r
    <3> QED
      BY ONLY <3>2, <3>3
  <2>2. CASE k <= p
    BY <1>1, <1>2, <1>4, <2>1, <2>2
  <2>3. CASE p < k /\ k <= p + Len(new)
    BY <1>1, <1>4, <2>1, <2>3
  <2>4. CASE p + Len(new) < k
    <3>1. k - (p + Len(new)) \in 1..(Len(s) - p) /\ p + (k - (p + Len(new))) = k - Len(new)
      BY <1>1, <2>4
    <3>2. rest[k - (p + Len(new))] = s[k - Len(new)]
      BY <3>1, <1>3
    <3> QED
      BY <1>1, <2>1, <2>4, <3>2
  <2> QED
    BY <1>1, <2>2, <2>3, <2>4
<1>8. r \in Seq(S) /\ Len(r) = Len(s) + Len(new)
  <2>1. r \in Seq(S) /\ Len(r) = (p + Len(new)) + (Len(s) - p)
    BY <1>3, <1>4, <1>5 DEF r
  <2> QED
    BY <1>1, <2>1
<1>9. r = Inserted(s, p, new)
  BY <1>6 DEF r
<1>10. Insertion(r, s, p, new)
  BY <1>7, <1>8 DEF Insertion
<1> QED
  BY <1>8, <1>9, <1>10

\* r is s without the n entries behind p.
Removal(r, s, p, n) ==
  /\ Len(r) = Len(s) - n
  /\ \A k \in 1..(Len(s) - n) : (k <= p => r[k] = s[k]) /\ (p < k => r[k] = s[k + n])

\* What Removed leaves.
LEMMA RemovedFacts ==
  ASSUME NEW S, NEW s \in Seq(S), NEW p \in Nat, NEW n \in Nat, p + n <= Len(s)
  PROVE  Removed(s, p, n) \in Seq(S) /\ Removal(Removed(s, p, n), s, p, n)
<1> DEFINE first == SubSeq(s, 1, p)
           rest == SubSeq(s, p + n + 1, Len(s))
<1>1. Len(s) \in Nat /\ \A k \in 1..Len(s) : s[k] \in S
  BY ElementOfSeq, LenProperties
<1>2. first \in Seq(S) /\ Len(first) = p /\ \A k \in 1..p : first[k] = s[k]
  <2>1. \A k \in 1..p : s[k] \in S
    BY <1>1
  <2>2. /\ first \in Seq(S) /\ Len(first) = IF 1 <= p THEN p - 1 + 1 ELSE 0
        /\ \A k \in 1..(p - 1 + 1) : first[k] = s[1 + k - 1]
    BY <2>1, <1>1, SubSeqProperties
  <2> HIDE DEF first
  <2> QED
    BY <2>2, <1>1
<1>3. /\ rest \in Seq(S) /\ Len(rest) = Len(s) - (p + n)
      /\ \A k \in 1..(Len(s) - (p + n)) : rest[k] = s[(p + n) + k]
  <2>1. \A k \in (p + n + 1)..Len(s) : s[k] \in S
    BY <1>1
  <2>2. p + n + 1 \in Int /\ Len(s) \in Int
    BY <1>1
  <2>3. /\ rest \in Seq(S)
        /\ Len(rest) = IF p + n + 1 <= Len(s) THEN Len(s) - (p + n + 1) + 1 ELSE 0
        /\ \A k \in 1..(Len(s) - (p + n + 1) + 1) : rest[k] = s[(p + n + 1) + k - 1]
    BY <2>1, <2>2, SubSeqProperties
  <2> HIDE DEF rest
  <2>4. \A l \in Nat : p + n <= l => (IF p + n + 1 <= l THEN l - (p + n + 1) + 1 ELSE 0) = l - (p + n)
    OBVIOUS
  <2>5. Len(rest) = Len(s) - (p + n)
    BY <2>3, <2>4, <1>1
  <2>6. ASSUME NEW k \in 1..(Len(s) - (p + n)) PROVE rest[k] = s[(p + n) + k]
    <3>1. k \in 1..(Len(s) - (p + n + 1) + 1) /\ (p + n + 1) + k - 1 = (p + n) + k
      BY <1>1
    <3> QED
      BY <3>1, <2>3
  <2> QED
    BY <2>3, <2>5, <2>6
<1> HIDE DEF first, rest
<1>4. /\ first \o rest \in Seq(S) /\ Len(first \o rest) = Len(first) + Len(rest)
      /\ \A k \in 1..(Len(first) + Len(rest)) :
           (first \o rest)[k] = IF k <= Len(first) THEN first[k] ELSE rest[k - Len(first)]
  BY <1>2, <1>3, ConcatProperties
<1>5. Removed(s, p, n) = first \o rest
  BY DEF Removed, first, rest
<1> DEFINE r == first \o rest
<1> HIDE DEF r
<1>6. \A k \in 1..(Len(s) - n) : /\ k <= p => r[k] = s[k]
                                 /\ p < k => r[k] = s[k + n]
  <2> TAKE k \in 1..(Len(s) - n)
  <2>1. r[k] = IF k <= p THEN first[k] ELSE rest[k - p]
    BY <1>1, <1>2, <1>3, <1>4 DEF r
  <2>2. CASE k <= p
    BY <1>1, <1>2, <2>1, <2>2
  <2>3. CASE p < k
    <3>1. k - p \in 1..(Len(s) - (p + n)) /\ (p + n) + (k - p) = k + n
      BY <1>1, <2>3
    <3>2. rest[k - p] = s[k + n]
      BY <3>1, <1>3
    <3> QED
      BY <1>1, <2>1, <2>3, <3>2
  <2> QED
    BY <1>1, <2>2, <2>3
<1>7. r \in Seq(S) /\ Len(r) = Len(s) - n
  <2>1. r \in Seq(S) /\ Len(r) = p + (Len(s) - (p + n))
    BY <1>2, <1>3, <1>4 DEF r
  <2> QED
    BY <1>1, <2>1
<1>8. r = Removed(s, p, n)
  BY <1>5 DEF r
<1>9. Removal(r, s, p, n)
  BY <1>6, <1>7 DEF Removal
<1> QED
  BY <1>7, <1>8, <1>9

\* Where a set of indices that is closed downwards ends.
LEMMA CutPoint ==
  ASSUME NEW n \in Nat, NEW S \in SUBSET (1..n), \A k \in S : \A j \in 1..k : j \in S
  PROVE  Cardinality(S) \in 0..n /\ \A k \in 1..n : k \in S <=> k <= Cardinality(S)
<1>1. \A k \in 0..n : IsFiniteSet(1..k) /\ Cardinality(1..k) = k
  <2> TAKE k \in 0..n
  <2>1. IsFiniteSet(1..k) /\ Cardinality(1..k) = IF 1 > k THEN 0 ELSE k - 1 + 1
    BY FS_Interval
  <2> QED
    BY <2>1
<1>2. IsFiniteSet(S) /\ Cardinality(S) \in Nat /\ Cardinality(S) <= n
  <2> DEFINE all == 1..n
  <2>1. IsFiniteSet(all) /\ Cardinality(all) = n /\ S \in SUBSET all
    BY <1>1
  <2> HIDE DEF all
  <2>2. IsFiniteSet(S) /\ Cardinality(S) <= n
    BY <2>1, FS_Subset
  <2> QED
    BY <2>2, FS_CardinalityType
<1>3. ASSUME NEW k \in 1..n, k \in S PROVE k <= Cardinality(S)
  <2>1. 1..k \subseteq S
    BY <1>3
  <2> QED
    BY <2>1, <1>1, <1>2, FS_Subset
<1>4. ASSUME NEW k \in 1..n, k \notin S PROVE Cardinality(S) < k
  <2>1. S \subseteq 1..(k - 1)
    <3> SUFFICES ASSUME NEW j \in S PROVE j < k
      OBVIOUS
    <3>1. ~(k <= j)
      BY <1>4
    <3> QED
      BY <3>1
  <2>2. k - 1 \in 0..n
    OBVIOUS
  <2>3. Cardinality(S) <= k - 1
    BY <2>1, <2>2, <1>1, FS_Subset
  <2> QED
    BY <2>3, <1>2
<1> QED
  BY <1>2, <1>3, <1>4

\* The entries of the map are in ascending order.
Rising(m) == \A j, k \in 1..Len(m) : j < k => m[j] < m[k]

\* std::lower_bound finds the one place in an ascending map.
LEMMA LowerBoundFacts ==
  ASSUME NEW m \in Seq(Int), Rising(m), NEW x \in Int, NEW p \in LowerBounds(m, x)
  PROVE  p \in 0..Len(m) /\ \A k \in 1..Len(m) : m[k] < x <=> k <= p
<1>1. Len(m) \in Nat /\ \A k \in 1..Len(m) : m[k] \in Int
  BY ElementOfSeq, LenProperties
<1>2. p \in 0..Len(m) /\ (p = 0 \/ m[p] < x) /\ (p = Len(m) \/ m[p + 1] >= x)
  BY DEF LowerBounds
<1>3. ASSUME NEW k \in 1..Len(m), k <= p PROVE m[k] < x
  <2>1. p \in 1..Len(m) /\ m[p] < x /\ (k = p \/ k < p)
    BY <1>1, <1>2, <1>3
  <2>2. k = p \/ m[k] < m[p]
    BY <2>1 DEF Rising
  <2> QED
    BY <1>1, <2>1, <2>2
<1>4. ASSUME NEW k \in 1..Len(m), ~(k <= p) PROVE ~(m[k] < x)
  <2>1. p + 1 \in 1..Len(m) /\ m[p + 1] >= x /\ (k = p + 1 \/ p + 1 < k)
    BY <1>1, <1>2, <1>4
  <2>2. k = p + 1 \/ m[p + 1] < m[k]
    BY <2>1 DEF Rising
  <2> QED
    BY <1>1, <2>1, <2>2
<1> QED
  BY <1>2, <1>3, <1>4

\* The entries in a range of indices are next to one another, from the first of them on.
LEMMA RangeCount ==
  ASSUME NEW m \in Seq(Int), Rising(m), NEW y \in Int, NEW a \in 0..Len(m),
         \A k \in 1..Len(m) : k <= a => m[k] < y,
         NEW hit, hit \subseteq (a + 1)..Len(m),
         \A k \in (a + 1)..Len(m) : k \in hit <=> \A j \in (a + 1)..k : m[j] <= y - 1
  PROVE  /\ Cardinality(hit) \in 0..(Len(m) - a) /\ (hit = {} <=> Cardinality(hit) = 0)
         /\ \A k \in 1..Len(m) : m[k] < y <=> k <= a + Cardinality(hit)
<1> DEFINE S == {k \in 1..Len(m) : m[k] < y}
           b == Cardinality(S)
<1>1. Len(m) \in Nat /\ \A k \in 1..Len(m) : m[k] \in Int
  BY ElementOfSeq, LenProperties
<1>2. b \in 0..Len(m) /\ \A k \in 1..Len(m) : m[k] < y <=> k <= b
  <2>1. ASSUME NEW k \in S, NEW j \in 1..k PROVE j \in S
    <3>1. j \in 1..Len(m) /\ k \in 1..Len(m) /\ m[k] < y /\ (j = k \/ j < k)
      BY <1>1, <2>1
    <3>2. j = k \/ m[j] < m[k]
      BY <3>1 DEF Rising
    <3> QED
      BY <1>1, <3>1, <3>2
  <2>2. \A k \in 1..Len(m) : k \in S <=> m[k] < y
    OBVIOUS
  <2>3. S \in SUBSET (1..Len(m))
    OBVIOUS
  <2> HIDE DEF S
  <2>4. b \in 0..Len(m) /\ \A k \in 1..Len(m) : k \in S <=> k <= b
    BY <1>1, <2>1, <2>3, CutPoint
  <2> QED
    BY <2>2, <2>4
<1> HIDE DEF b
<1>3. a <= b
  <2> SUFFICES ASSUME b < a PROVE FALSE
    BY <1>1, <1>2
  <2>1. a \in 1..Len(m) /\ m[a] < y /\ ~(a <= b)
    BY <1>1, <1>2
  <2> QED
    BY <1>2, <2>1
<1>4. hit = (a + 1)..b
  <2>1. ASSUME NEW k \in (a + 1)..Len(m) PROVE k \in hit <=> k <= b
    <3>1. \A j \in (a + 1)..k : j \in 1..Len(m) /\ (m[j] <= y - 1 <=> j <= b)
      <4> TAKE j \in (a + 1)..k
      <4>1. j \in 1..Len(m)
        BY <1>1, <2>1
      <4>2. m[j] \in Int /\ (m[j] < y <=> j <= b)
        BY <1>1, <1>2, <4>1
      <4> QED
        BY <4>1, <4>2
    <3>2. k \in (a + 1)..k /\ \A j \in (a + 1)..k : k <= b => j <= b
      BY <1>1, <1>2, <2>1
    <3> QED
      BY <3>1, <3>2
  <2>2. hit \subseteq (a + 1)..Len(m) /\ (a + 1)..b \subseteq (a + 1)..Len(m)
    BY <1>1, <1>2
  <2>3. \A k \in (a + 1)..Len(m) : k \in (a + 1)..b <=> k <= b
    BY <1>1, <1>2
  <2> QED
    BY <2>1, <2>2, <2>3
<1>5. Cardinality((a + 1)..b) = IF a + 1 > b THEN 0 ELSE b - (a + 1) + 1
  BY <1>1, <1>2, FS_Interval
<1>6. Cardinality((a + 1)..b) = b - a /\ ((a + 1)..b = {} <=> b - a = 0)
  <2>1. a \in Int /\ b \in Int
    BY <1>1, <1>2
  <2>2. CASE a = b
    BY ONLY <1>5, <2>1, <2>2
  <2>3. CASE a < b
    <3>1. b \in (a + 1)..b /\ b - a # 0
      BY ONLY <2>1, <2>3
    <3> QED
      BY ONLY <1>5, <2>1, <2>3, <3>1
  <2> QED
    BY ONLY <1>3, <2>1, <2>2, <2>3
<1>8. Cardinality(hit) = b - a /\ (hit = {} <=> b - a = 0)
  BY <1>4, <1>6
<1>9. b - a \in 0..(Len(m) - a) /\ a + (b - a) = b
  BY <1>1, <1>2, <1>3
<1> QED
  BY <1>2, <1>8, <1>9

\* m has an entry for i.
Points(m, i) == \E k \in 1..Len(m) : m[k] = i

\* A set of numbers can be listed in ascending order.
LEMMA AscendingFacts ==
  ASSUME NEW lo \in Int, NEW hi \in Int, NEW S \in SUBSET (lo..hi)
  PROVE  /\ Ascending(S) \in Seq(S) /\ Rising(Ascending(S))
         /\ \A x \in S : Points(Ascending(S), x)
<1> DEFINE n == Cardinality(S)
           upTo(x) == {y \in S : y <= x}
           rank == [x \in S |-> Cardinality(upTo(x))]
<1>1. IsFiniteSet(S) /\ n \in Nat /\ \A x \in S : x \in Int
  <2>1. IsFiniteSet(lo..hi)
    BY FS_Interval
  <2>2. IsFiniteSet(S)
    BY <2>1, FS_Subset
  <2>3. n \in Nat
    BY <2>2, FS_CardinalityType
  <2> QED
    BY <2>2, <2>3
<1>2. ASSUME NEW x \in S PROVE IsFiniteSet(upTo(x)) /\ rank[x] \in 1..n
  <2>1. upTo(x) \subseteq S /\ x \in upTo(x)
    OBVIOUS
  <2> HIDE DEF upTo
  <2>2. IsFiniteSet(upTo(x)) /\ Cardinality(upTo(x)) <= n
    BY <1>1, <2>1, FS_Subset
  <2>3. Cardinality(upTo(x)) \in Nat /\ Cardinality(upTo(x)) # 0
    BY <2>1, <2>2, FS_EmptySet, FS_CardinalityType
  <2> QED
    BY <2>2, <2>3, <1>1
<1>3. ASSUME NEW x \in S, NEW y \in S, x < y PROVE rank[x] < rank[y]
  <2>1. upTo(x) \subseteq upTo(y) /\ y \in upTo(y) /\ y \notin upTo(x)
    <3>1. \A z \in S : z <= x => z <= y
      BY <1>1, <1>3
    <3>2. y <= y /\ ~(y <= x)
      BY <1>1, <1>3
    <3> QED
      BY <3>1, <3>2
  <2>2. IsFiniteSet(upTo(y)) /\ rank[x] \in Nat /\ rank[y] \in Nat
    <3>1. IsFiniteSet(upTo(y)) /\ rank[x] \in 1..n /\ rank[y] \in 1..n
      BY <1>2
    <3> HIDE DEF upTo, rank, n
    <3> QED
      BY <3>1
  <2>3. rank[x] = Cardinality(upTo(x)) /\ rank[y] = Cardinality(upTo(y))
    OBVIOUS
  <2> HIDE DEF upTo, rank
  <2>4. Cardinality(upTo(x)) <= Cardinality(upTo(y)) /\ Cardinality(upTo(x)) # Cardinality(upTo(y))
    BY <2>1, <2>2, FS_Subset
  <2> QED
    BY <2>2, <2>3, <2>4
<1>4. rank \in [S -> 1..n]
  BY <1>2
<1> HIDE DEF rank, upTo
<1>5. rank \in Injection(S, 1..n)
  <2>1. \A x, y \in S : rank[x] = rank[y] => x = y
    <3> SUFFICES ASSUME NEW x \in S, NEW y \in S, rank[x] = rank[y], x # y PROVE FALSE
      OBVIOUS
    <3>1. x < y \/ y < x
      OBVIOUS
    <3>2. rank[x] \in Int /\ rank[y] \in Int
      BY <1>4
    <3> QED
      BY <1>3, <3>1, <3>2
  <2> QED
    BY <1>4, <2>1 DEF Injection, IsInjective
<1>6. rank \in Surjection(S, 1..n)
  <2>1. IsFiniteSet(1..n) /\ Cardinality(1..n) = IF 1 > n THEN 0 ELSE n - 1 + 1
    BY <1>1, FS_Interval
  <2>2. Cardinality(1..n) = n
    BY <1>1, <2>1
  <2> QED
    BY <1>5, <2>1, <2>2, FS_Injection
<1>7. \A k \in 1..n : \E x \in S : rank[x] = k
  BY <1>6 DEF Surjection
<1> DEFINE m == [k \in 1..n |-> CHOOSE x \in S : rank[x] = k]
<1>8. m \in [1..n -> S] /\ \A k \in 1..n : rank[m[k]] = k
  BY <1>7
<1> HIDE DEF m
<1>9. \A j, k \in 1..n : j < k => m[j] < m[k]
  <2> SUFFICES ASSUME NEW j \in 1..n, NEW k \in 1..n, j < k PROVE m[j] < m[k]
    OBVIOUS
  <2>1. m[j] \in S /\ m[k] \in S /\ rank[m[j]] = j /\ rank[m[k]] = k /\ j \in Int /\ k \in Int
    BY <1>8
  <2>2. \A x, y \in S : rank[x] \in Int /\ rank[y] \in Int /\ rank[x] < rank[y] => x < y
    <3> SUFFICES ASSUME NEW x \in S, NEW y \in S, rank[x] \in Int, rank[y] \in Int,
                        rank[x] < rank[y], ~(x < y)
                 PROVE  FALSE
      OBVIOUS
    <3>1. x = y \/ y < x
      BY <1>1
    <3> QED
      BY <1>3, <3>1
  <2> HIDE DEF n
  <2> QED
    BY <2>1, <2>2
<1> DEFINE r == Ascending(S)
<1>10. r \in [1..n -> S] /\ \A j, k \in 1..n : j < k => r[j] < r[k]
  BY <1>8, <1>9 DEF Ascending
<1> HIDE DEF r
<1>11. r \in Seq(S) /\ Len(r) = n
  BY <1>1, <1>10, SeqDef
<1>12. r \in Surjection(1..n, S)
  <2>1. \A j, k \in 1..n : r[j] = r[k] => j = k
    <3> SUFFICES ASSUME NEW j \in 1..n, NEW k \in 1..n, r[j] = r[k], j # k PROVE FALSE
      OBVIOUS
    <3>1. r[j] \in S /\ r[k] \in S
      BY <1>10
    <3>2. r[j] \in Int /\ r[k] \in Int
      BY <1>1, <3>1
    <3> HIDE DEF n
    <3>3. j < k \/ k < j
      BY <1>1
    <3> QED
      BY <3>2, <3>3, <1>10
  <2>2. r \in Injection(1..n, S)
    BY <1>10, <2>1 DEF Injection, IsInjective
  <2>3. IsFiniteSet(1..n) /\ Cardinality(1..n) = IF 1 > n THEN 0 ELSE n - 1 + 1
    BY <1>1, FS_Interval
  <2>4. Cardinality(1..n) = n
    BY <1>1, <2>3
  <2> QED
    BY <1>1, <2>2, <2>4, FS_Injection
<1>13. \A x \in S : \E k \in 1..n : r[k] = x
  BY <1>12 DEF Surjection
<1>14. Rising(r)
  BY <1>10, <1>11 DEF Rising
<1> QED
  BY <1>11, <1>13, <1>14 DEF r, Points

\* The map m points into the list s in ascending order, and v shows what it points at.
Mirrors(s, m, v) ==
  /\ m \in Seq(0..(Len(s) - 1)) /\ Rising(m)
  /\ v \in Seq(Items) /\ Len(v) = Len(m)
  /\ \A k \in 1..Len(m) : v[k] = s[m[k] + 1]

\* What Mirrors says of single entries, and of the view as a whole.
LEMMA MirrorFacts ==
  ASSUME NEW s \in Seq(Items), NEW m, NEW v, Mirrors(s, m, v)
  PROVE  /\ m \in Seq(Int) /\ Len(m) \in Nat /\ Len(s) \in Nat
         /\ \A k \in 1..Len(m) : m[k] \in 0..(Len(s) - 1) /\ s[m[k] + 1] \in Items
         /\ v = ItemsAt(s, m)
<1>1. Len(m) \in Nat /\ Len(s) \in Nat
  BY LenProperties DEF Mirrors
<1>2. \A k \in 1..Len(m) : m[k] \in 0..(Len(s) - 1)
  BY ElementOfSeq DEF Mirrors
<1>3. \A k \in 1..Len(m) : s[m[k] + 1] \in Items
  <2> TAKE k \in 1..Len(m)
  <2>1. m[k] + 1 \in 1..Len(s)
    BY <1>1, <1>2
  <2> QED
    BY <2>1, ElementOfSeq
<1>4. m \in Seq(Int)
  BY <1>2, Retype DEF Mirrors
<1>5. v = ItemsAt(s, m)
  <2>1. v \in [1..Len(m) -> Items]
    BY LenProperties DEF Mirrors
  <2> QED
    BY <2>1 DEF Mirrors, ItemsAt
<1> QED
  BY <1>1, <1>2, <1>3, <1>4, <1>5

\* How Mirrors is shown, entry by entry.
LEMMA Mirroring ==
  ASSUME NEW s \in Seq(Items), NEW m \in Seq(Int), NEW v \in Seq(Items), Len(v) = Len(m),
         \A k \in 1..Len(m) : m[k] \in 0..(Len(s) - 1) /\ v[k] = s[m[k] + 1],
         Rising(m)
  PROVE  Mirrors(s, m, v)
BY Retype DEF Mirrors

\* What the map points at is a list of items.
LEMMA ItemsAtFacts ==
  ASSUME NEW s \in Seq(Items), NEW m \in Seq(Int),
         \A k \in 1..Len(m) : m[k] \in 0..(Len(s) - 1)
  PROVE  /\ ItemsAt(s, m) \in Seq(Items) /\ Len(ItemsAt(s, m)) = Len(m)
         /\ \A k \in 1..Len(m) : ItemsAt(s, m)[k] = s[m[k] + 1]
<1>1. Len(m) \in Nat /\ Len(s) \in Nat
  BY LenProperties
<1>2. \A k \in 1..Len(m) : s[m[k] + 1] \in Items
  <2> TAKE k \in 1..Len(m)
  <2>1. m[k] + 1 \in 1..Len(s)
    BY <1>1
  <2> QED
    BY <2>1, ElementOfSeq
<1> DEFINE v == ItemsAt(s, m)
<1>3. v \in [1..Len(m) -> Items] /\ \A k \in 1..Len(m) : v[k] = s[m[k] + 1]
  BY <1>2 DEF ItemsAt
<1> HIDE DEF v
<1>4. v \in Seq(Items)
  BY <1>1, <1>3, SeqDef
<1>5. Len(v) = Len(m)
  <2>1. DOMAIN v = 1..Len(v) /\ DOMAIN v = 1..Len(m) /\ Len(v) \in Nat
    BY <1>3, <1>4, LenProperties
  <2> QED
    BY <2>1, <1>1
<1> QED
  BY <1>3, <1>4, <1>5 DEF v

\* A single entry points at a single item.
LEMMA ItemAt ==
  ASSUME NEW s, NEW i PROVE ItemsAt(s, <<i>>) = <<s[i + 1]>>
<1>1. Len(<<i>>) = 1 /\ <<i>>[1] = i
  OBVIOUS
<1> QED
  BY <1>1 DEF ItemsAt

\* The first n entries of m are indices of a list of N items, in ascending order.
Ordered(m, n, N) ==
  /\ \A k \in 1..n : m[k] \in 0..(N - 1)
  /\ \A j, k \in 1..n : j < k => m[j] < m[k]

\* p of the first n entries of m are below x.
CutAt(m, n, x, p) == \A k \in 1..n : m[k] < x <=> k <= p

\* r has x at p, and what s has elsewhere; or lacks what s has there.
PutIn(r, s, n, p, x) ==
  \A k \in 1..(n + 1) : /\ k <= p => r[k] = s[k]
                        /\ k = p + 1 => r[k] = x
                        /\ p + 1 < k => r[k] = s[k - 1]
TakenOut(r, s, n, p, c) ==
  \A k \in 1..(n - c) : (k <= p => r[k] = s[k]) /\ (p < k => r[k] = s[k + c])

\* A single entry is put in.
LEMMA InsertionOfOne ==
  ASSUME NEW r, NEW s, NEW x, NEW n \in Nat, n = Len(s), NEW p \in 0..n, Insertion(r, s, p, <<x>>)
  PROVE  Len(r) = n + 1 /\ PutIn(r, s, n, p, x)
<1> DEFINE new == <<x>>
<1>1. Len(new) = 1 /\ new[1] = x
  OBVIOUS
<1>2. Insertion(r, s, p, new)
  OBVIOUS
<1> HIDE DEF new
<1>3. /\ Len(r) = n + 1
      /\ \A k \in 1..(n + 1) : /\ k <= p => r[k] = s[k]
                               /\ p < k /\ k <= p + 1 => r[k] = new[k - p]
                               /\ p + 1 < k => r[k] = s[k - 1]
  BY <1>1, <1>2 DEF Insertion
<1>4. \A k \in 1..(n + 1) : k = p + 1 => r[k] = x
  <2> SUFFICES ASSUME NEW k \in 1..(n + 1), k = p + 1 PROVE r[k] = x
    OBVIOUS
  <2>1. k - p = 1 /\ p < k /\ k <= p + 1
    OBVIOUS
  <2> QED
    BY <2>1, <1>1, <1>3
<1> QED
  BY <1>3, <1>4 DEF PutIn

\* An index that is not in the map goes to the place of its lower bound.
LEMMA RisingInsert ==
  ASSUME NEW n \in Nat, NEW N \in Nat, NEW p \in 0..n, NEW i \in 0..(N - 1), NEW m, NEW r,
         Ordered(m, n, N), CutAt(m, n, i, p), CutAt(m, n, i + 1, p), PutIn(r, m, n, p, i)
  PROVE  Ordered(r, n + 1, N) /\ CutAt(r, n + 1, i + 1, p + 1)
<1> USE DEF Ordered, CutAt, PutIn
<1>0. \A k \in 1..n : m[k] \in 0..(N - 1) /\ m[k] # i /\ (m[k] < i <=> k <= p)
  OBVIOUS
<1>1. ASSUME NEW k \in 1..(n + 1)
      PROVE  \/ k <= p /\ k \in 1..n /\ r[k] = m[k] /\ m[k] < i
             \/ k = p + 1 /\ r[k] = i
             \/ p + 1 < k /\ k - 1 \in 1..n /\ r[k] = m[k - 1] /\ i < m[k - 1]
  <2>1. CASE k <= p
    BY <1>0, <2>1
  <2>2. CASE k = p + 1
    BY <2>2
  <2>3. CASE p + 1 < k
    <3>1. k - 1 \in 1..n /\ ~(k - 1 <= p) /\ r[k] = m[k - 1]
      BY <2>3
    <3>2. m[k - 1] \in 0..(N - 1) /\ m[k - 1] # i /\ ~(m[k - 1] < i)
      BY <1>0, <3>1
    <3> QED
      BY <2>3, <3>1, <3>2
  <2> QED
    BY <2>1, <2>2, <2>3
<1>2. ASSUME NEW k \in 1..(n + 1) PROVE r[k] \in 0..(N - 1) /\ (r[k] < i + 1 <=> k <= p + 1)
  <2>1. CASE k <= p
    BY <1>1, <2>1
  <2>2. CASE k = p + 1
    BY <1>1, <2>2
  <2>3. CASE p + 1 < k
    <3>1. k - 1 \in 1..n /\ r[k] = m[k - 1] /\ i < m[k - 1]
      BY <1>1, <2>3
    <3>2. m[k - 1] \in 0..(N - 1)
      BY <3>1
    <3> QED
      BY <2>3, <3>1, <3>2
  <2> QED
    BY <2>1, <2>2, <2>3
<1>3. ASSUME NEW j \in 1..(n + 1), NEW k \in 1..(n + 1), j < k PROVE r[j] < r[k]
  <2>1. CASE k <= p
    BY <1>1, <1>3, <2>1
  <2>2. CASE k = p + 1
    BY <1>1, <1>3, <2>2
  <2>3. CASE p + 1 < k
    <3>1. k - 1 \in 1..n /\ r[k] = m[k - 1] /\ i < m[k - 1] /\ m[k - 1] \in Int
      BY <1>1, <2>3
    <3>2. CASE j <= p
      BY <1>1, <3>1, <3>2
    <3>3. CASE j = p + 1
      BY <1>1, <3>1, <3>3
    <3>4. CASE p + 1 < j
      <4>1. j - 1 \in 1..n /\ r[j] = m[j - 1] /\ j - 1 < k - 1
        BY <1>1, <1>3, <3>4
      <4> QED
        BY <3>1, <4>1
    <3> QED
      BY <3>2, <3>3, <3>4
  <2> QED
    BY <2>1, <2>2, <2>3
<1> QED
  BY <1>2, <1>3

\* An item that was hidden is shown.
LEMMA InsertOne ==
  ASSUME NEW s \in Seq(Items), NEW m, NEW v, Mirrors(s, m, v),
         NEW i \in 0..(Len(s) - 1), NEW p \in 0..Len(m),
         CutAt(m, Len(m), i, p), CutAt(m, Len(m), i + 1, p)
  PROVE  /\ Mirrors(s, Inserted(m, p, <<i>>), Inserted(v, p, <<s[i + 1]>>))
         /\ Len(Inserted(m, p, <<i>>)) = Len(m) + 1
         /\ CutAt(Inserted(m, p, <<i>>), Len(m) + 1, i + 1, p + 1)
<1> DEFINE r == Inserted(m, p, <<i>>)
           x == s[i + 1]
           w == Inserted(v, p, <<x>>)
<1>1. /\ m \in Seq(Int) /\ Len(m) \in Nat /\ Len(s) \in Nat
      /\ Ordered(m, Len(m), Len(s))
  BY MirrorFacts DEF Mirrors, Rising, Ordered
<1>2. v \in Seq(Items) /\ Len(v) = Len(m) /\ \A k \in 1..Len(m) : v[k] = s[m[k] + 1]
  BY DEF Mirrors
<1>3. PICK n \in Nat, N \in Nat : n = Len(m) /\ N = Len(s)
  BY <1>1
<1>4. i \in 0..(N - 1) /\ p \in 0..n /\ i \in Int
  BY <1>3
<1>5. x \in Items
  <2>1. i + 1 \in 1..Len(s)
    BY <1>3
  <2> QED
    BY <2>1, ElementOfSeq
<1> HIDE DEF x
<1>6. r \in Seq(Int) /\ w \in Seq(Items) /\ Insertion(r, m, p, <<i>>) /\ Insertion(w, v, p, <<x>>)
  <2>1. <<i>> \in Seq(Int) /\ <<x>> \in Seq(Items)
    BY <1>4, <1>5
  <2> QED
    BY <1>1, <1>2, <2>1, InsertedFacts
<1> HIDE DEF r, w
<1>7. Len(r) = n + 1 /\ PutIn(r, m, n, p, i) /\ Len(w) = n + 1 /\ PutIn(w, v, n, p, x)
  <2>1. n = Len(v)
    BY <1>2, <1>3
  <2> QED
    BY <1>3, <1>4, <1>6, <2>1, InsertionOfOne
<1>8. Ordered(r, n + 1, N) /\ CutAt(r, n + 1, i + 1, p + 1)
  BY <1>1, <1>3, <1>4, <1>7, RisingInsert
<1>9. ASSUME NEW k \in 1..(n + 1) PROVE w[k] = s[r[k] + 1]
  <2>1. CASE k <= p
    <3>1. k \in 1..n
      BY <1>4, <2>1
    <3> QED
      BY <1>2, <1>3, <1>7, <2>1, <3>1 DEF PutIn
  <2>2. CASE k = p + 1
    BY <1>4, <1>7, <2>2 DEF PutIn, x
  <2>3. CASE p + 1 < k
    <3>1. k - 1 \in 1..n
      BY <1>4, <2>3
    <3>2. w[k] = v[k - 1] /\ r[k] = m[k - 1]
      BY <1>7, <2>3 DEF PutIn
    <3>3. v[k - 1] = s[m[k - 1] + 1]
      BY <1>2, <1>3, <3>1
    <3> QED
      BY <3>2, <3>3
  <2> QED
    BY <1>4, <2>1, <2>2, <2>3
<1>10. Mirrors(s, r, w)
  <2>1. \A k \in 1..Len(r) : r[k] \in 0..(Len(s) - 1) /\ w[k] = s[r[k] + 1]
    BY <1>3, <1>7, <1>8, <1>9 DEF Ordered
  <2>2. Rising(r)
    BY <1>7, <1>8 DEF Rising, Ordered
  <2> QED
    BY <1>6, <1>7, <2>1, <2>2, Mirroring
<1> QED
  BY <1>3, <1>7, <1>8, <1>10 DEF r, w, x

\* An entry leaves the map.
LEMMA RisingRemove ==
  ASSUME NEW n \in Nat, NEW N \in Nat, NEW p \in 0..(n - 1), NEW m, NEW r,
         Ordered(m, n, N), TakenOut(r, m, n, p, 1)
  PROVE  Ordered(r, n - 1, N) /\ CutAt(r, n - 1, m[p + 1] + 1, p)
<1> USE DEF Ordered, CutAt, TakenOut
<1>1. p + 1 \in 1..n
  OBVIOUS
<1>2. ASSUME NEW k \in 1..(n - 1)
      PROVE  /\ r[k] \in 0..(N - 1)
             /\ k <= p => r[k] < m[p + 1]
             /\ p < k => m[p + 1] < r[k]
  <2>1. k \in 1..n /\ k + 1 \in 1..n
    OBVIOUS
  <2> QED
    BY <1>1, <2>1
<1>3. ASSUME NEW j \in 1..(n - 1), NEW k \in 1..(n - 1), j < k PROVE r[j] < r[k]
  <2>1. j \in 1..n /\ k \in 1..n /\ j + 1 \in 1..n /\ k + 1 \in 1..n
    OBVIOUS
  <2>2. CASE k <= p
    BY <1>3, <2>1, <2>2
  <2>3. CASE p < k
    BY <1>3, <2>1, <2>3
  <2> QED
    BY <2>2, <2>3
<1> QED
  BY <1>2, <1>3

\* An item that was shown is hidden.
LEMMA RemoveOne ==
  ASSUME NEW s \in Seq(Items), NEW m, NEW v, Mirrors(s, m, v),
         NEW p \in Nat, p < Len(m)
  PROVE  /\ Mirrors(s, Removed(m, p, 1), Removed(v, p, 1))
         /\ Len(Removed(m, p, 1)) = Len(m) - 1
         /\ CutAt(Removed(m, p, 1), Len(m) - 1, m[p + 1] + 1, p)
<1> DEFINE r == Removed(m, p, 1)
           w == Removed(v, p, 1)
<1>1. /\ m \in Seq(Int) /\ Len(m) \in Nat /\ Len(s) \in Nat
      /\ Ordered(m, Len(m), Len(s))
  BY MirrorFacts DEF Mirrors, Rising, Ordered
<1>2. v \in Seq(Items) /\ Len(v) = Len(m) /\ \A k \in 1..Len(m) : v[k] = s[m[k] + 1]
  BY DEF Mirrors
<1>3. PICK n \in Nat, N \in Nat : n = Len(m) /\ N = Len(s)
  BY <1>1
<1>4. p \in 0..(n - 1) /\ p + 1 <= n
  BY <1>3
<1>5. r \in Seq(Int) /\ w \in Seq(Items) /\ Removal(r, m, p, 1) /\ Removal(w, v, p, 1)
  <2>1. 1 \in Nat /\ p + 1 <= Len(m) /\ p + 1 <= Len(v)
    BY <1>2, <1>3, <1>4
  <2> QED
    BY <1>1, <1>2, <2>1, RemovedFacts
<1> HIDE DEF r, w
<1>6. Len(r) = n - 1 /\ TakenOut(r, m, n, p, 1) /\ Len(w) = n - 1 /\ TakenOut(w, v, n, p, 1)
  BY <1>2, <1>3, <1>5 DEF Removal, TakenOut
<1>7. Ordered(r, n - 1, N) /\ CutAt(r, n - 1, m[p + 1] + 1, p)
  BY <1>1, <1>3, <1>4, <1>6, RisingRemove
<1>8. ASSUME NEW k \in 1..(n - 1) PROVE w[k] = s[r[k] + 1]
  <2>1. k \in 1..n /\ k + 1 \in 1..n
    OBVIOUS
  <2>2. CASE k <= p
    BY <1>2, <1>3, <1>6, <2>1, <2>2 DEF TakenOut
  <2>3. CASE p < k
    BY <1>2, <1>3, <1>6, <2>1, <2>3 DEF TakenOut
  <2> QED
    BY <1>4, <2>2, <2>3
<1>9. Mirrors(s, r, w)
  <2>1. \A k \in 1..Len(r) : r[k] \in 0..(Len(s) - 1) /\ w[k] = s[r[k] + 1]
    BY <1>3, <1>6, <1>7, <1>8 DEF Ordered
  <2>2. Rising(r)
    BY <1>6, <1>7 DEF Rising, Ordered
  <2> QED
    BY <1>5, <1>6, <2>1, <2>2, Mirroring
<1> QED
  BY <1>3, <1>6, <1>7, <1>9 DEF r, w

\* The first p of the n entries of m are below a, the others are not below b.
Gap(m, n, p, a, b) == \A k \in 1..n : (k <= p => m[k] < a) /\ (p < k => b <= m[k])

\* r has the q entries of new at p, and the n entries of s elsewhere.
PutAllIn(r, s, n, p, new, q) ==
  \A k \in 1..(n + q) : /\ k <= p => r[k] = s[k]
                        /\ p < k /\ k <= p + q => r[k] = new[k - p]
                        /\ p + q < k => r[k] = s[k - q]

\* Indices in ascending order go where their range has been left free.
LEMMA RisingMerge ==
  ASSUME NEW n \in Nat, NEW q \in Nat, NEW N \in Nat, NEW p \in 0..n, NEW a \in Int, NEW b \in Int,
         NEW m, NEW ids, NEW r, Ordered(m, n, N), Ordered(ids, q, N), Gap(m, n, p, a, b),
         \A k \in 1..q : a <= ids[k] /\ ids[k] < b, a <= b, PutAllIn(r, m, n, p, ids, q)
  PROVE  Ordered(r, n + q, N)
<1>1. ASSUME NEW k \in 1..(n + q)
      PROVE  \/ k <= p /\ k \in 1..n /\ r[k] = m[k] /\ m[k] \in 0..(N - 1) /\ m[k] < a
             \/ /\ p < k /\ k <= p + q /\ k - p \in 1..q /\ r[k] = ids[k - p]
                /\ ids[k - p] \in 0..(N - 1) /\ a <= ids[k - p] /\ ids[k - p] < b
             \/ /\ p + q < k /\ k - q \in 1..n /\ r[k] = m[k - q]
                /\ m[k - q] \in 0..(N - 1) /\ b <= m[k - q]
  <2>1. CASE k <= p
    <3>1. k \in 1..n
      BY <2>1
    <3> QED
      BY <2>1, <3>1 DEF Ordered, Gap, PutAllIn
  <2>2. CASE p < k /\ k <= p + q
    <3>1. k - p \in 1..q
      BY <2>2
    <3> QED
      BY <2>2, <3>1 DEF Ordered, PutAllIn
  <2>3. CASE p + q < k
    <3>1. k - q \in 1..n /\ p < k - q
      BY <2>3
    <3> QED
      BY <2>3, <3>1 DEF Ordered, Gap, PutAllIn
  <2> QED
    BY <2>1, <2>2, <2>3
<1>2. ASSUME NEW k \in 1..(n + q) PROVE r[k] \in 0..(N - 1)
  BY <1>1
<1>3. ASSUME NEW j \in 1..(n + q), NEW k \in 1..(n + q), j < k PROVE r[j] < r[k]
  <2>1. CASE k <= p
    <3>1. j \in 1..n /\ k \in 1..n /\ r[j] = m[j] /\ r[k] = m[k]
      BY <1>1, <1>3, <2>1
    <3> QED
      BY <1>3, <3>1 DEF Ordered
  <2>2. CASE p < k /\ k <= p + q
    <3>1. CASE j <= p
      BY <1>1, <2>2, <3>1
    <3>2. CASE p < j
      <4>1. j - p \in 1..q /\ k - p \in 1..q /\ j - p < k - p /\ r[j] = ids[j - p] /\ r[k] = ids[k - p]
        BY <1>1, <1>3, <2>2, <3>2
      <4> QED
        BY <4>1 DEF Ordered
    <3> QED
      BY <3>1, <3>2
  <2>3. CASE p + q < k
    <3>1. CASE j <= p + q
      BY <1>1, <2>3, <3>1
    <3>2. CASE p + q < j
      <4>1. j - q \in 1..n /\ k - q \in 1..n /\ j - q < k - q /\ r[j] = m[j - q] /\ r[k] = m[k - q]
        BY <1>1, <1>3, <2>3, <3>2
      <4> QED
        BY <4>1 DEF Ordered
    <3> QED
      BY <3>1, <3>2
  <2> QED
    BY <2>1, <2>2, <2>3
<1> QED
  BY <1>2, <1>3 DEF Ordered

\* v shows what the n entries of m point at in s.
Shows(s, m, v, n) == \A k \in 1..n : v[k] = s[m[k] + 1]

\* The same for what is put in.
LEMMA ShowsMerge ==
  ASSUME NEW n \in Nat, NEW q \in Nat, NEW p \in 0..n, NEW s, NEW m, NEW v, NEW ids, NEW new,
         NEW r, NEW w, Shows(s, m, v, n), Shows(s, ids, new, q),
         PutAllIn(r, m, n, p, ids, q), PutAllIn(w, v, n, p, new, q)
  PROVE  Shows(s, r, w, n + q)
<1> SUFFICES ASSUME NEW k \in 1..(n + q) PROVE w[k] = s[r[k] + 1]
  BY DEF Shows
<1>1. CASE k <= p
  <2>1. k \in 1..n /\ r[k] = m[k] /\ w[k] = v[k]
    BY <1>1 DEF PutAllIn
  <2> QED
    BY <2>1 DEF Shows
<1>2. CASE p < k /\ k <= p + q
  <2>1. k - p \in 1..q /\ r[k] = ids[k - p] /\ w[k] = new[k - p]
    BY <1>2 DEF PutAllIn
  <2> QED
    BY <2>1 DEF Shows
<1>3. CASE p + q < k
  <2>1. k - q \in 1..n /\ r[k] = m[k - q] /\ w[k] = v[k - q]
    BY <1>3 DEF PutAllIn
  <2> QED
    BY <2>1 DEF Shows
<1> QED
  BY <1>1, <1>2, <1>3

\* The entries of m behind p are c higher in up.
Lifted(up, m, n, p, c) ==
  \A k \in 1..n : up[k] = IF k > p THEN m[k] + c ELSE m[k]

\* The entries of m behind the q entries at a are c lower in down.
Lowered(down, m, n, a, q, c) ==
  \A k \in 1..(n - q) : down[k] = IF k <= a THEN m[k] ELSE m[k + q] - c

\* The entries behind an insertion into the source move up with the items.
LEMMA ShiftedUp ==
  ASSUME NEW n \in Nat, NEW N \in Nat, NEW c \in Nat, NEW index \in 0..N, NEW p \in 0..n,
         NEW m, NEW v, NEW s, NEW new, NEW t, NEW up,
         Ordered(m, n, N), CutAt(m, n, index, p), Shows(s, m, v, n), PutAllIn(t, s, N, index, new, c),
         Lifted(up, m, n, p, c)
  PROVE  Ordered(up, n, N + c) /\ Gap(up, n, p, index, index + c) /\ Shows(t, up, v, n)
<1>1. ASSUME NEW k \in 1..n
      PROVE  /\ m[k] \in 0..(N - 1)
             /\ \/ k <= p /\ m[k] < index /\ up[k] = m[k]
                \/ p < k /\ index <= m[k] /\ up[k] = m[k] + c
  BY DEF Ordered, CutAt, Lifted
<1>2. Ordered(up, n, N + c)
  <2>1. \A k \in 1..n : up[k] \in 0..(N + c - 1)
    BY <1>1
  <2>2. ASSUME NEW j \in 1..n, NEW k \in 1..n, j < k PROVE up[j] < up[k]
    <3>1. m[j] < m[k]
      BY <2>2 DEF Ordered
    <3> QED
      BY <1>1, <2>2, <3>1
  <2> QED
    BY <2>1, <2>2 DEF Ordered
<1>3. Gap(up, n, p, index, index + c)
  BY <1>1 DEF Gap
<1>4. ASSUME NEW k \in 1..n PROVE v[k] = t[up[k] + 1]
  <2>1. CASE k <= p
    <3>1. m[k] + 1 \in 1..(N + c) /\ m[k] + 1 <= index /\ up[k] = m[k]
      BY <1>1, <2>1
    <3>2. t[m[k] + 1] = s[m[k] + 1]
      BY <3>1 DEF PutAllIn
    <3> QED
      BY <3>1, <3>2 DEF Shows
  <2>2. CASE p < k
    <3>1. /\ m[k] + c + 1 \in 1..(N + c) /\ index <= m[k] /\ m[k] \in Nat
          /\ up[k] = m[k] + c
      BY <1>1, <2>2
    <3>2. PICK j \in 1..(N + c) : j = m[k] + c + 1
      BY <3>1
    <3>3. index + c < j /\ j - c = m[k] + 1
      BY <3>1, <3>2
    <3>4. t[j] = s[j - c]
      BY <3>3 DEF PutAllIn
    <3>5. v[k] = s[m[k] + 1] /\ up[k] + 1 = j
      BY <3>1, <3>2 DEF Shows
    <3> QED
      BY <3>3, <3>4, <3>5
  <2> QED
    BY <2>1, <2>2
<1> QED
  BY <1>2, <1>3, <1>4 DEF Shows

\* The entries behind a removal from the source move down with the items.
LEMMA ShiftedDown ==
  ASSUME NEW n \in Nat, NEW N \in Nat, NEW c \in Nat, NEW index \in 0..N, index + c <= N,
         NEW a \in 0..n, NEW q \in 0..(n - a), NEW m, NEW v, NEW s, NEW t, NEW w, NEW down,
         Ordered(m, n, N), CutAt(m, n, index, a), CutAt(m, n, index + c, a + q), Shows(s, m, v, n),
         TakenOut(t, s, N, index, c), TakenOut(w, v, n, a, q),
         Lowered(down, m, n, a, q, c)
  PROVE  Ordered(down, n - q, N - c) /\ Shows(t, down, w, n - q)
<1>1. ASSUME NEW k \in 1..(n - q)
      PROVE  \/ k <= a /\ k \in 1..n /\ down[k] = m[k] /\ m[k] \in 0..(N - 1) /\ m[k] < index
             \/ /\ a < k /\ k + q \in 1..n /\ down[k] = m[k + q] - c
                /\ m[k + q] \in 0..(N - 1) /\ index + c <= m[k + q]
  <2>1. CASE k <= a
    <3>1. k \in 1..n
      OBVIOUS
    <3> QED
      BY <2>1, <3>1 DEF Ordered, CutAt, Lowered
  <2>2. CASE a < k
    <3>1. k + q \in 1..n /\ ~(k + q <= a + q)
      BY <2>2
    <3> QED
      BY <2>2, <3>1 DEF Ordered, CutAt, Lowered
  <2> QED
    BY <2>1, <2>2
<1>2. ASSUME NEW k \in 1..(n - q) PROVE down[k] \in 0..(N - c - 1)
  BY <1>1
<1>3. ASSUME NEW j \in 1..(n - q), NEW k \in 1..(n - q), j < k PROVE down[j] < down[k]
  <2>1. CASE k <= a
    <3>1. j \in 1..n /\ k \in 1..n /\ down[j] = m[j] /\ down[k] = m[k]
      BY <1>1, <1>3, <2>1
    <3> QED
      BY <1>3, <3>1 DEF Ordered
  <2>2. CASE a < k /\ j <= a
    BY <1>1, <2>2
  <2>3. CASE a < j
    <3>1. /\ j + q \in 1..n /\ k + q \in 1..n /\ down[j] = m[j + q] - c /\ down[k] = m[k + q] - c
          /\ j + q < k + q /\ m[j + q] \in Int /\ m[k + q] \in Int
      BY <1>1, <1>3, <2>3
    <3>2. m[j + q] < m[k + q]
      BY <3>1 DEF Ordered
    <3> QED
      BY <3>1, <3>2
  <2> QED
    BY <2>1, <2>2, <2>3
<1>4. ASSUME NEW k \in 1..(n - q) PROVE w[k] = t[down[k] + 1]
  <2>1. CASE k <= a
    <3>1. k \in 1..n /\ down[k] = m[k] /\ m[k] + 1 \in 1..(N - c) /\ m[k] + 1 <= index
      BY <1>1, <2>1
    <3>2. w[k] = v[k] /\ t[m[k] + 1] = s[m[k] + 1]
      BY <2>1, <3>1 DEF TakenOut
    <3> QED
      BY <3>1, <3>2 DEF Shows
  <2>2. CASE a < k
    <3>1. /\ k + q \in 1..n /\ down[k] = m[k + q] - c
          /\ m[k + q] - c + 1 \in 1..(N - c) /\ index < m[k + q] - c + 1
          /\ m[k + q] - c + 1 + c = m[k + q] + 1
      BY <1>1, <2>2
    <3>2. w[k] = v[k + q] /\ t[m[k + q] - c + 1] = s[m[k + q] + 1]
      BY <2>2, <3>1 DEF TakenOut
    <3> QED
      BY <3>1, <3>2 DEF Shows
  <2> QED
    BY <2>1, <2>2
<1> QED
  BY <1>2, <1>3, <1>4 DEF Ordered, Shows

\* Mirrors in these terms.
LEMMA MirrorTerms ==
  ASSUME NEW s \in Seq(Items), NEW m, NEW v, NEW n \in Nat, NEW N \in Nat, N = Len(s),
         n = Len(m), Mirrors(s, m, v)
  PROVE  /\ Ordered(m, n, N) /\ Shows(s, m, v, n)
         /\ m \in Seq(Int) /\ v \in Seq(Items) /\ n = Len(v)
<1>1. m \in Seq(Int) /\ \A k \in 1..n : m[k] \in 0..(N - 1)
  BY MirrorFacts
<1> QED
  BY <1>1 DEF Mirrors, Rising, Ordered, Shows

\* And the other way round.
LEMMA MirrorFromTerms ==
  ASSUME NEW s \in Seq(Items), NEW m \in Seq(Int), NEW v \in Seq(Items), NEW n \in Nat, NEW N \in Nat,
         N = Len(s), n = Len(m), n = Len(v), Ordered(m, n, N), Shows(s, m, v, n)
  PROVE  Mirrors(s, m, v)
<1>1. Rising(m) /\ \A k \in 1..Len(m) : m[k] \in 0..(Len(s) - 1) /\ v[k] = s[m[k] + 1]
  BY DEF Rising, Ordered, Shows
<1> QED
  BY <1>1, Mirroring

\* A number that size_t can hold is what it was.
LEMMA FitsSize ==
  ASSUME NEW N \in Nat, NEW c \in Nat, N + c < SizeModulus, NEW x \in 0..(N - 1)
  PROVE  (x + c) % SizeModulus = x + c
<1>1. x + c \in 0..(SizeModulus - 1)
  OBVIOUS
<1>2. \A y \in 0..(SizeModulus - 1) : y % SizeModulus = y
  OBVIOUS
<1> QED
  BY <1>1, <1>2

\* Subtraction in size_t does not wrap when what is taken off is there.
LEMMA NoWrap ==
  ASSUME NEW x \in Nat, NEW c \in Nat, c <= x, x < SizeModulus
  PROVE  Minus(x, c) = x - c
<1>1. (x - c) \in 0..(SizeModulus - 1) /\ x + SizeModulus - c = (x - c) + SizeModulus
  OBVIOUS
<1>2. \A y \in 0..(SizeModulus - 1) : (y + SizeModulus) % SizeModulus = y
  OBVIOUS
<1> QED
  BY <1>1, <1>2 DEF Minus

\* Items come into the source; those the filter accepts are shown.
LEMMA InsertMany ==
  ASSUME NEW s \in Seq(Items), NEW m, NEW v, Mirrors(s, m, v),
         NEW index \in 0..Len(s), NEW new \in Seq(Items),
         NEW ids \in Seq(Int), Rising(ids),
         \A k \in 1..Len(ids) : index <= ids[k] /\ ids[k] < index + Len(new),
         NEW t, t = Inserted(s, index, new), Len(s) + Len(new) < SizeModulus,
         NEW p \in 0..Len(m), CutAt(m, Len(m), index, p)
  PROVE  /\ t \in Seq(Items) /\ Len(t) = Len(s) + Len(new)
         /\ Mirrors(t, Inserted(ShiftUp(m, p, Len(new)), p, ids), Inserted(v, p, ItemsAt(t, ids)))
<1>1. PICK n \in Nat, N \in Nat, c \in Nat, q \in Nat :
        n = Len(m) /\ N = Len(s) /\ c = Len(new) /\ q = Len(ids)
  BY LenProperties DEF Mirrors
<1>2. /\ Ordered(m, n, N) /\ Shows(s, m, v, n)
      /\ m \in Seq(Int) /\ v \in Seq(Items) /\ n = Len(v)
  BY <1>1, MirrorTerms
<1>3. p \in 0..n /\ CutAt(m, n, index, p)
  BY <1>1
<1>4. t \in Seq(Items) /\ Len(t) = N + c /\ PutAllIn(t, s, N, index, new, c)
  <2>1. t \in Seq(Items) /\ Insertion(t, s, index, new)
    BY InsertedFacts
  <2> QED
    BY <1>1, <2>1 DEF Insertion, PutAllIn
<1> DEFINE up == ShiftUp(m, p, Len(new))
           iv == ItemsAt(t, ids)
           r == Inserted(up, p, ids)
           w == Inserted(v, p, iv)
<1>5. up \in Seq(Int) /\ n = Len(up) /\ Lifted(up, m, n, p, c)
  <2>1. up = [k \in 1..n |-> IF k > p THEN m[k] + c ELSE m[k]]
    <3>1. up = [k \in 1..n |-> IF k > p THEN (m[k] + c) % SizeModulus ELSE m[k]]
      BY <1>1 DEF ShiftUp
    <3>2. \A k \in 1..n : (m[k] + c) % SizeModulus = m[k] + c
      <4> TAKE k \in 1..n
      <4>1. m[k] \in 0..(N - 1) /\ N + c < SizeModulus
        BY <1>1, <1>2 DEF Ordered
      <4> QED
        BY ONLY <4>1, N \in Nat, c \in Nat, FitsSize
    <3> HIDE DEF up
    <3> QED
      BY <3>1, <3>2
  <2>2. \A k \in 1..n : m[k] \in Int
    BY <1>2 DEF Ordered
  <2> HIDE DEF up
  <2>3. up \in [1..n -> Int]
    BY <2>1, <2>2
  <2>4. Lifted(up, m, n, p, c)
    BY <2>1 DEF Lifted
  <2>5. up \in Seq(Int)
    BY <2>3, SeqDef
  <2>6. 1..Len(up) = 1..n /\ Len(up) \in Nat /\ n \in Nat
    BY <2>3, <2>5, LenProperties
  <2>7. Len(up) = n
    BY ONLY <2>6
  <2> QED
    BY <2>4, <2>5, <2>7
<1> HIDE DEF up
<1>6. Ordered(up, n, N + c) /\ Gap(up, n, p, index, index + c) /\ Shows(t, up, v, n)
  <2>1. index \in 0..N
    BY <1>1
  <2> QED
    BY <1>2, <1>3, <1>4, <1>5, <2>1, ShiftedUp
<1>7. Ordered(ids, q, N + c) /\ \A k \in 1..q : index <= ids[k] /\ ids[k] < index + c
  <2>1. \A k \in 1..q : ids[k] \in Int /\ index <= ids[k] /\ ids[k] < index + c
    BY <1>1, ElementOfSeq
  <2>2. \A k \in 1..q : ids[k] \in 0..(N + c - 1)
    BY <1>1, <2>1
  <2> QED
    BY <1>1, <2>1, <2>2 DEF Ordered, Rising
<1>8. iv \in Seq(Items) /\ Len(iv) = q /\ Shows(t, ids, iv, q)
  <2>1. \A k \in 1..Len(ids) : ids[k] \in 0..(Len(t) - 1)
    BY <1>1, <1>4, <1>7 DEF Ordered
  <2>2. /\ iv \in Seq(Items) /\ Len(iv) = Len(ids)
        /\ \A k \in 1..Len(ids) : iv[k] = t[ids[k] + 1]
    BY <1>4, <2>1, ItemsAtFacts
  <2> QED
    BY <1>1, <2>2 DEF Shows
<1> HIDE DEF iv
<1>9. /\ r \in Seq(Int) /\ Len(r) = n + q /\ PutAllIn(r, up, n, p, ids, q)
      /\ w \in Seq(Items) /\ Len(w) = n + q /\ PutAllIn(w, v, n, p, iv, q)
  <2>1. p \in 0..Len(up) /\ p \in 0..Len(v)
    BY <1>2, <1>3, <1>5
  <2>2. r \in Seq(Int) /\ Insertion(r, up, p, ids) /\ w \in Seq(Items) /\ Insertion(w, v, p, iv)
    BY <1>2, <1>5, <1>8, <2>1, InsertedFacts
  <2> HIDE DEF r, w
  <2> QED
    BY <1>1, <1>2, <1>5, <1>8, <2>2 DEF Insertion, PutAllIn
<1> HIDE DEF r, w
<1>10. Ordered(r, n + q, N + c)
  <2>1. index \in Int /\ index + c \in Int /\ index <= index + c /\ N + c \in Nat
    BY <1>1
  <2> QED
    BY <1>3, <1>6, <1>7, <1>9, <2>1, RisingMerge
<1>11. Shows(t, r, w, n + q)
  BY <1>3, <1>6, <1>8, <1>9, ShowsMerge
<1>12. Mirrors(t, r, w)
  <2>1. n + q \in Nat /\ N + c \in Nat
    OBVIOUS
  <2> QED
    BY <1>4, <1>9, <1>10, <1>11, <2>1, MirrorFromTerms
<1> QED
  BY <1>1, <1>4, <1>12 DEF r, w, up, iv

\* Items leave the source, and those among them that are shown leave the view.
LEMMA RemoveMany ==
  ASSUME NEW s \in Seq(Items), NEW m, NEW v, Mirrors(s, m, v), Len(s) < SizeModulus,
         NEW index \in Nat, NEW c \in Nat, index + c <= Len(s),
         NEW update, update.index \in 0..Len(m), CutAt(m, Len(m), index, update.index),
         update.count \in 0..(Len(m) - update.index),
         CutAt(m, Len(m), index + c, update.index + update.count)
  PROVE  /\ Removed(s, index, c) \in Seq(Items) /\ Len(Removed(s, index, c)) = Len(s) - c
         /\ Mirrors(Removed(s, index, c), ShiftDown(m, update, c),
                    Removed(v, update.index, update.count))
<1>1. PICK n \in Nat, N \in Nat : n = Len(m) /\ N = Len(s)
  BY LenProperties DEF Mirrors
<1>2. /\ Ordered(m, n, N) /\ Shows(s, m, v, n)
      /\ m \in Seq(Int) /\ v \in Seq(Items) /\ n = Len(v)
  BY <1>1, MirrorTerms
<1>3. PICK a \in 0..n, b \in 0..n : /\ a = update.index /\ CutAt(m, n, index, a)
                                    /\ b = a + update.count /\ CutAt(m, n, index + c, b)
  <2>1. update.index \in 0..n /\ update.index + update.count \in 0..n
    BY <1>1
  <2> QED
    BY <1>1, <2>1
<1>4. PICK q \in 0..(n - a) : q = update.count /\ b = a + q /\ a = update.index
  BY <1>1, <1>3
<1> DEFINE t == Removed(s, index, c)
           down == ShiftDown(m, update, c)
           w == Removed(v, update.index, update.count)
<1>5. t \in Seq(Items) /\ Len(t) = N - c /\ TakenOut(t, s, N, index, c)
  <2>1. t \in Seq(Items) /\ Removal(t, s, index, c)
    BY RemovedFacts
  <2> HIDE DEF t
  <2> QED
    BY <1>1, <2>1 DEF Removal, TakenOut
<1>6. w \in Seq(Items) /\ Len(w) = n - q /\ TakenOut(w, v, n, a, q)
  <2>1. w = Removed(v, a, q) /\ a \in Nat /\ q \in Nat /\ a + q <= Len(v)
    BY <1>2, <1>4
  <2> HIDE DEF w
  <2>2. w \in Seq(Items) /\ Removal(w, v, a, q)
    BY <1>2, <2>1, RemovedFacts
  <2> QED
    BY <1>2, <2>2 DEF Removal, TakenOut
<1>7. /\ down \in Seq(Int) /\ Len(down) = n - q
      /\ Lowered(down, m, n, a, q, c)
  <2>1. down = [k \in 1..(n - q) |-> IF k <= a THEN m[k] ELSE Minus(m[k + q], c)]
    BY <1>1, <1>4 DEF ShiftDown
  <2>2. ASSUME NEW k \in 1..(n - q), ~(k <= a) PROVE Minus(m[k + q], c) = m[k + q] - c
    <3>1. k + q \in 1..n /\ ~(k + q <= b)
      <4>1. b = a + q /\ a \in 0..n /\ q \in 0..(n - a) /\ k \in 1..(n - q) /\ a < k
        BY <1>3, <1>4, <2>2
      <4> QED
        BY ONLY <4>1, n \in Nat
    <3>2. m[k + q] \in 0..(N - 1) /\ ~(m[k + q] < index + c)
      BY <3>1, <1>2, <1>3 DEF Ordered, CutAt
    <3>3. m[k + q] \in Nat /\ c <= m[k + q] /\ m[k + q] < SizeModulus
      BY <3>2, <1>1
    <3> QED
      BY ONLY <3>3, c \in Nat, NoWrap
  <2>3. \A k \in 1..n : m[k] \in Int
    BY <1>2 DEF Ordered
  <2> HIDE DEF down
  <2>4. Lowered(down, m, n, a, q, c)
    BY <2>1, <2>2 DEF Lowered
  <2>5. n - q \in Nat /\ DOMAIN down = 1..(n - q)
    BY <2>1
  <2>6. ASSUME NEW k \in 1..(n - q) PROVE down[k] \in Int
    <3>1. k \in 1..n /\ k + q \in 1..n
      OBVIOUS
    <3>2. m[k] \in Int /\ m[k + q] \in Int
      BY <2>3, <3>1
    <3>3. down[k] = IF k <= a THEN m[k] ELSE m[k + q] - c
      BY <2>4 DEF Lowered
    <3> QED
      BY ONLY <3>2, <3>3, c \in Nat
  <2>7. down \in [1..(n - q) -> Int]
    BY <2>1, <2>5, <2>6
  <2>8. down \in Seq(Int)
    BY <2>5, <2>7, SeqDef
  <2>9. DOMAIN down = 1..Len(down) /\ Len(down) \in Nat
    BY <2>8, LenProperties
  <2>10. Len(down) = n - q
    BY ONLY <2>5, <2>9
  <2> QED
    BY <2>4, <2>8, <2>10
<1> HIDE DEF t, down, w
<1>8. Ordered(down, n - q, N - c) /\ Shows(t, down, w, n - q)
  <2>1. index \in 0..N /\ index + c <= N /\ CutAt(m, n, index + c, a + q)
    BY <1>1, <1>3, <1>4
  <2> QED
    BY <1>2, <1>3, <1>5, <1>6, <1>7, <2>1, ShiftedDown
<1>9. Mirrors(t, down, w)
  <2>1. n - q \in Nat /\ N - c \in Nat
    BY <1>1
  <2> QED
    BY <1>5, <1>6, <1>7, <1>8, <2>1, MirrorFromTerms
<1> QED
  BY <1>1, <1>5, <1>9 DEF t, down, w

-----------------------------------------------------------------------------
(* The map and the view.                                                    *)

\* What size_t can hold.
SizeT == 0..(SizeModulus - 1)

\* The types of the state.
DataOK ==
  /\ connected \in BOOLEAN /\ stop \in BOOLEAN /\ busy \in BOOLEAN /\ shifted \in BOOLEAN
  /\ source \in Seq(Items) /\ Len(source) <= MaxLen
  /\ kind \in [Items -> Kinds] /\ filter \in SUBSET Kinds
  /\ indexMap \in Seq(SizeT)
  /\ eventControl \in Threads \cup {NoThread}
  /\ remapping \in 0..(CounterModulus - 1)
  /\ scan \in [Threads -> [i : 0..MaxLen, index : Nat, count : 0..MaxLen]]
  /\ lastUpdate \in [index : Nat, count : Nat, valid : BOOLEAN]

\* What the operation Main is in the middle of was called with.
CallOK ==
  /\ call.op \in {"halt", "drop", "replace"} =>
       /\ call.to.present \in BOOLEAN
       /\ call.to.items \in Seq(Items) /\ Len(call.to.items) <= MaxLen
  /\ call.op = "insert" =>
       /\ call.index \in 0..Len(source)
       /\ call.new \in Seq(Items) /\ Len(source) + Len(call.new) <= MaxLen
  /\ call.op = "remove" =>
       call.index \in Nat /\ call.count \in Nat /\ call.index + call.count <= Len(source)
  /\ call.op = "change" => call.index \in 0..(Len(source) - 1) /\ call.data \in Kinds

\* The map mirrors the source; while a removal is announced, what will be left of it.
MapOK ==
  /\ Sound /\ call.op # "remove" => Mirrors(source, indexMap, view)
  /\ Sound /\ call.op = "remove" =>
       /\ Mirrors(Removed(source, call.index, call.count), indexMap,
                  Removed(view, lastUpdate.index, lastUpdate.count))
       /\ view \in Seq(Items)
  /\ call.op # "remove" \/ ~lastUpdate.valid => lastUpdate = NoUpdate

\* A scan is at the lower bound of the item it is about to judge, in the list it counted,
\* and only a scan that was stopped ends before the last item.
ScanOK ==
  \A t \in Threads :
    /\ pc[t] \in {"scan", "finish"} => scan[t].index \in 0..Len(indexMap)
    /\ pc[t] = "scan" => scan[t].i < scan[t].count /\ (connected => scan[t].count = Len(source))
    /\ pc[t] \in {"scan", "finish"} /\ Sound =>
         /\ scan[t].i \in 0..Len(source)
         /\ CutAt(indexMap, Len(indexMap), scan[t].i, scan[t].index)
         /\ pc[t] = "finish" => stop \/ scan[t].i = Len(source)

\* The second inductive invariant, over the first one.
MInv == DataOK /\ CallOK /\ MapOK /\ ScanOK

\* A map that mirrors a list in bounds has entries size_t can hold.
LEMMA MapTyped ==
  ASSUME NEW s \in Seq(Items), Len(s) <= MaxLen, NEW m, NEW v, Mirrors(s, m, v)
  PROVE  m \in Seq(SizeT)
<1>1. m \in Seq(Int) /\ Len(s) \in Nat /\ \A k \in 1..Len(m) : m[k] \in 0..(Len(s) - 1)
  BY MirrorFacts
<1>2. \A k \in 1..Len(m) : m[k] \in SizeT
  <2> TAKE k \in 1..Len(m)
  <2>1. m[k] \in 0..(Len(s) - 1)
    BY <1>1
  <2> QED
    BY <1>1, <2>1 DEF SizeT
<1> QED
  BY <1>1, <1>2, Retype

\* Shifting wraps as size_t does: what comes of it are entries again.
LEMMA ShiftUpTyped ==
  ASSUME NEW m \in Seq(SizeT), NEW p, NEW c \in Nat
  PROVE  ShiftUp(m, p, c) \in Seq(SizeT) /\ Len(ShiftUp(m, p, c)) = Len(m)
<1>1. PICK n \in Nat : n = Len(m) /\ \A k \in 1..n : m[k] \in SizeT
  BY LenProperties, ElementOfSeq
<1>2. ASSUME NEW k \in 1..n PROVE (m[k] + c) % SizeModulus \in SizeT
  <2>1. m[k] + c \in Nat
    BY <1>1 DEF SizeT
  <2>2. \A x \in Nat : x % SizeModulus \in 0..(SizeModulus - 1)
    OBVIOUS
  <2> QED
    BY <2>1, <2>2 DEF SizeT
<1> DEFINE r == ShiftUp(m, p, c)
<1>3. r = [k \in 1..n |-> IF k > p THEN (m[k] + c) % SizeModulus ELSE m[k]]
  BY <1>1 DEF ShiftUp
<1> HIDE DEF r
<1>4. r \in [1..n -> SizeT]
  <2>1. \A k \in 1..n : (IF k > p THEN (m[k] + c) % SizeModulus ELSE m[k]) \in SizeT
    BY <1>1, <1>2
  <2> QED
    BY <1>3, <2>1
<1>5. r \in Seq(SizeT) /\ Len(r) = n
  BY <1>1, <1>4, LenProperties, SeqDef
<1> QED
  BY <1>1, <1>5 DEF r

LEMMA ShiftDownTyped ==
  ASSUME NEW m \in Seq(SizeT), NEW update, update.index \in Nat, update.count \in 0..Len(m),
         NEW c \in Nat, c <= MaxLen
  PROVE  ShiftDown(m, update, c) \in Seq(SizeT)
<1>1. PICK n \in Nat, q \in Nat, a \in Nat :
        n = Len(m) /\ q = update.count /\ a = update.index /\ q <= n
        /\ \A k \in 1..n : m[k] \in SizeT
  BY LenProperties, ElementOfSeq
<1>2. ASSUME NEW k \in 1..n PROVE Minus(m[k], c) \in SizeT
  <2>1. m[k] + SizeModulus - c \in Nat
    BY <1>1 DEF SizeT
  <2>2. \A x \in Nat : x % SizeModulus \in 0..(SizeModulus - 1)
    OBVIOUS
  <2> QED
    BY <2>1, <2>2 DEF SizeT, Minus
<1> DEFINE r == ShiftDown(m, update, c)
<1>3. r = [k \in 1..(n - q) |-> IF k <= a THEN m[k] ELSE Minus(m[k + q], c)]
  BY <1>1 DEF ShiftDown
<1> HIDE DEF r
<1>4. n - q \in Nat
  BY <1>1
<1>5. r \in [1..(n - q) -> SizeT]
  <2>1. \A k \in 1..(n - q) : k \in 1..n /\ k + q \in 1..n
    BY <1>1
  <2>2. \A k \in 1..(n - q) : (IF k <= a THEN m[k] ELSE Minus(m[k + q], c)) \in SizeT
    BY <1>1, <1>2, <2>1
  <2> QED
    BY <1>3, <2>2
<1>6. r \in Seq(SizeT)
  BY <1>4, <1>5, SeqDef
<1> QED
  BY <1>6 DEF r

\* What mapIndices collects mirrors the source.
LEMMA MatchingMirrors ==
  ASSUME NEW s \in Seq(Items) PROVE Mirrors(s, Matching(s), ItemsAt(s, Matching(s)))
<1> DEFINE shown == {i \in 0..(Len(s) - 1) : filterMatched(s[i + 1])}
           m == Ascending(shown)
<1>1. Len(s) \in Nat
  BY LenProperties
<1>2. shown \in SUBSET (0..(Len(s) - 1)) /\ 0 \in Int /\ Len(s) - 1 \in Int
  BY <1>1
<1>3. Matching(s) = m
  BY DEF Matching
<1> HIDE DEF shown
<1>4. m \in Seq(shown) /\ Rising(m)
  BY <1>2, AscendingFacts
<1> HIDE DEF m
<1>5. \A k \in 1..Len(m) : m[k] \in 0..(Len(s) - 1)
  BY <1>2, <1>4, ElementOfSeq
<1>6. m \in Seq(Int)
  BY <1>4, <1>5, Retype
<1>7. /\ ItemsAt(s, m) \in Seq(Items) /\ Len(ItemsAt(s, m)) = Len(m)
      /\ \A k \in 1..Len(m) : ItemsAt(s, m)[k] = s[m[k] + 1]
  BY <1>5, <1>6, ItemsAtFacts
<1>8. Mirrors(s, m, ItemsAt(s, m))
  BY <1>4, <1>5, <1>6, <1>7, Mirroring
<1> QED
  BY <1>3, <1>8

\* The empty list mirrors the empty list.
LEMMA InitMirrors == Init => MInv
<1> SUFFICES ASSUME Init PROVE MInv
  OBVIOUS
<1>1. scan \in [Threads -> [i : 0..MaxLen, index : Nat, count : 0..MaxLen]]
  BY DEF Init, NoScan
<1>2. DataOK
  <2>1. source \in Seq(Items) /\ Len(source) = 0 /\ indexMap \in Seq(SizeT)
    BY DEF Init
  <2>2. lastUpdate \in [index : Nat, count : Nat, valid : BOOLEAN]
    BY DEF Init, NoUpdate
  <2>3. /\ connected \in BOOLEAN /\ stop \in BOOLEAN /\ busy \in BOOLEAN /\ shifted \in BOOLEAN
        /\ kind \in [Items -> Kinds] /\ filter \in SUBSET Kinds
        /\ eventControl \in Threads \cup {NoThread} /\ remapping \in 0..(CounterModulus - 1)
    <3>1. remapping = 0 /\ 0 \in 0..(CounterModulus - 1)
      BY DEF Init, CounterModulus
    <3>2. filter \in SUBSET Kinds
      BY DEF Init
    <3> QED
      BY <3>1, <3>2 DEF Init
  <2>4. Len(source) <= MaxLen
    BY <2>1
  <2> QED
    BY <1>1, <2>1, <2>2, <2>3, <2>4 DEF DataOK
<1>3. \A t \in Threads : pc[t] = "none"
  BY DEF Init
<1> QED
  BY <1>2, <1>3 DEF MInv, CallOK, MapOK, ScanOK, Sound, Init

\* MapOK speaks of nothing but the two lists, the map, the view and the removal.
LEMMA MapUnchanged ==
  ASSUME MapOK, UNCHANGED <<connected, source, indexMap, view, lastUpdate, shifted>>,
         call' = call \/ (call.op # "remove" /\ call'.op # "remove")
  PROVE  MapOK'
BY DEF MapOK, Sound

\* A step of a thread that neither reads nor changes the map.
LEMMA MapQuiet ==
  ASSUME IInv, MInv, NEW t \in Threads,
         \/ CountUp(t) \/ FilteringBegin(t)
         \/ FilteringGoesOn(t) \/ FilteringEnds(t) \/ FilteringEnd(t)
  PROVE  MInv'
<1> USE DEF MInv
<1>1. PICK stage \in Stages \ {"scan", "finish"} :
        /\ pc' = [pc EXCEPT ![t] = stage]
        /\ UNCHANGED <<connected, source, kind, filter, indexMap, lastUpdate, view, shifted, stop, call>>
        /\ eventControl' \in {eventControl, NoThread} /\ busy' \in {busy, TRUE, FALSE}
        /\ remapping' = remapping \/ remapping' = (remapping + 1) % CounterModulus
        /\ scan' = scan \/ scan' = [scan EXCEPT ![t] = NoScan]
  BY DEF CountUp, FilteringBegin, FilteringGoesOn, FilteringEnds, FilteringEnd, Leave, Goto,
         modelVars, mapVars, lockVars
<1>2. \A u \in Threads : pc'[u] = IF u = t THEN stage ELSE pc[u]
  BY <1>1 DEF IInv, Shape
<1>3. scan' \in [Threads -> [i : 0..MaxLen, index : Nat, count : 0..MaxLen]]
  <2>1. NoScan \in [i : 0..MaxLen, index : Nat, count : 0..MaxLen]
    BY DEF NoScan
  <2> QED
    BY <1>1, <2>1 DEF DataOK
<1>4. \A u \in Threads : u # t => scan'[u] = scan[u]
  BY <1>1 DEF DataOK
<1>5. remapping' \in 0..(CounterModulus - 1)
  <2>1. remapping \in 0..255
    BY DEF DataOK, CounterModulus
  <2> QED
    BY ONLY <1>1, <2>1 DEF CounterModulus
<1>6. DataOK'
  BY <1>1, <1>3, <1>5 DEF DataOK
<1>7. CallOK' /\ MapOK'
  BY <1>1, MapUnchanged DEF CallOK
<1>8. ScanOK'
  BY <1>1, <1>2, <1>4 DEF ScanOK, Sound
<1> QED
  BY <1>6, <1>7, <1>8

\* A scan starts below the first entry of the map.
LEMMA MapStartScan ==
  ASSUME IInv, MInv, NEW t \in Threads, StartScan(t) PROVE MInv'
<1> USE DEF MInv
<1>1. /\ pc[t] = "begun" /\ eventControl = NoThread /\ eventControl' = t
      /\ UNCHANGED <<connected, source, kind, filter, indexMap, lastUpdate, view, shifted,
                     remapping, stop, busy, call>>
  BY DEF StartScan, modelVars, mapVars
<1>2. /\ scan' = [scan EXCEPT ![t] = [i |-> 0, index |-> 0, count |-> Len(source)]]
      /\ pc' = [pc EXCEPT ![t] = IF source = <<>> THEN "finish" ELSE "scan"]
  BY DEF StartScan, Goto
<1>3. call.op # "remove"
  BY <1>1 DEF IInv, MutexOwned, Threads
<1>4. /\ \A u \in Threads : u # t => pc'[u] = pc[u] /\ scan'[u] = scan[u]
      /\ scan'[t] = [i |-> 0, index |-> 0, count |-> Len(source)]
      /\ pc'[t] = IF source = <<>> THEN "finish" ELSE "scan"
  BY <1>2 DEF IInv, Shape
<1>5. source \in Seq(Items) /\ Len(source) \in 0..MaxLen /\ (source = <<>> <=> Len(source) = 0)
  BY EmptySeq, LenProperties DEF DataOK
<1>6. scan' \in [Threads -> [i : 0..MaxLen, index : Nat, count : 0..MaxLen]]
  <2>1. [i |-> 0, index |-> 0, count |-> Len(source)] \in [i : 0..MaxLen, index : Nat, count : 0..MaxLen]
    BY <1>5
  <2> QED
    BY <1>2, <2>1 DEF DataOK
<1>7. DataOK'
  BY <1>1, <1>6 DEF DataOK
<1>8. CallOK' /\ MapOK'
  BY <1>1, MapUnchanged DEF CallOK
<1>9. Len(indexMap) \in Nat /\ \A k \in 1..Len(indexMap) : indexMap[k] \in Nat
  BY LenProperties, ElementOfSeq DEF DataOK, SizeT
<1>10. 0 \in 0..Len(indexMap) /\ CutAt(indexMap, Len(indexMap), 0, 0)
  BY <1>9 DEF CutAt
<1>11. ScanOK'
  <2>1. ASSUME NEW u \in Threads, u # t
        PROVE  /\ pc'[u] \in {"scan", "finish"} => scan'[u].index \in 0..Len(indexMap)
               /\ pc'[u] = "scan" => scan'[u].i < scan'[u].count /\ (connected => scan'[u].count = Len(source))
               /\ pc'[u] \in {"scan", "finish"} /\ Sound =>
                    /\ scan'[u].i \in 0..Len(source)
                    /\ CutAt(indexMap, Len(indexMap), scan'[u].i, scan'[u].index)
                    /\ pc'[u] = "finish" => stop \/ scan'[u].i = Len(source)
    BY <1>4, <2>1 DEF ScanOK
  <2>2. scan'[t].i = 0 /\ scan'[t].index = 0 /\ scan'[t].count = Len(source)
    BY <1>4
  <2>3. 0 \in 0..Len(source) /\ (source # <<>> => 0 < Len(source)) /\ (source = <<>> => Len(source) = 0)
    BY <1>5
  <2> QED
    BY <1>1, <1>4, <1>10, <2>1, <2>2, <2>3 DEF ScanOK, Sound
<1> QED
  BY <1>7, <1>8, <1>11

\* How the place of an index follows from that of the one before.
LEMMA NextCut ==
  ASSUME NEW m \in Seq(Int), Rising(m), NEW i \in Int, NEW p \in 0..Len(m), CutAt(m, Len(m), i, p)
  PROVE  /\ p < Len(m) /\ m[p + 1] = i => CutAt(m, Len(m), i + 1, p + 1)
         /\ ~(p < Len(m) /\ m[p + 1] = i) => CutAt(m, Len(m), i + 1, p)
<1>1. PICK n \in Nat : n = Len(m)
  BY LenProperties
<1>2. \A k \in 1..n : m[k] \in Int /\ (m[k] < i <=> k <= p)
  BY <1>1, ElementOfSeq DEF CutAt
<1>3. \A j, k \in 1..n : j < k => m[j] < m[k]
  BY <1>1 DEF Rising
<1>4. p \in 0..n
  BY <1>1
<1>5. ASSUME p < n, m[p + 1] = i, NEW k \in 1..n PROVE m[k] < i + 1 <=> k <= p + 1
  <2> DEFINE q == p + 1
  <2>1. q \in 1..n /\ m[q] = i /\ m[k] \in Int
    BY <1>2, <1>4, <1>5
  <2> HIDE DEF q
  <2>2. CASE k = q
    BY <2>1, <2>2 DEF q
  <2>3. CASE k < q
    <3>1. m[k] < m[q]
      BY <1>3, <2>1, <2>3
    <3> QED
      BY <2>1, <2>3, <3>1 DEF q
  <2>4. CASE q < k
    <3>1. m[q] < m[k]
      BY <1>3, <2>1, <2>4
    <3> QED
      BY <2>1, <2>4, <3>1 DEF q
  <2> QED
    BY <2>1, <2>2, <2>3, <2>4
<1>6. ASSUME ~(p < n /\ m[p + 1] = i), NEW k \in 1..n PROVE m[k] < i + 1 <=> k <= p
  <2>1. m[k] \in Int /\ (m[k] < i <=> k <= p)
    BY <1>2
  <2>2. m[k] # i
    <3> SUFFICES ASSUME m[k] = i PROVE FALSE
      OBVIOUS
    <3> DEFINE q == p + 1
    <3>1. p < n /\ q \in 1..n /\ q <= k /\ ~(q <= p)
      BY <1>4, <2>1
    <3> HIDE DEF q
    <3>2. m[q] \in Int /\ ~(m[q] < i) /\ m[q] # i
      BY <1>2, <1>6, <3>1 DEF q
    <3>3. q = k \/ m[q] < m[k]
      BY <1>3, <3>1
    <3> QED
      BY <3>2, <3>3
  <2> QED
    BY <2>1, <2>2
<1> QED
  BY <1>1, <1>5, <1>6 DEF CutAt

\* What one turn of the loop does to the map, whatever state it is in.
LEMMA ScanItemTyped ==
  ASSUME IInv, MInv, NEW t \in Threads, ScanItem(t)
  PROVE  /\ indexMap' \in Seq(SizeT)
         /\ \E shown \in {0, 1} :
              /\ scan' = [scan EXCEPT ![t].i = @ + 1, ![t].index = @ + shown]
              /\ pc' = [pc EXCEPT ![t] = IF stop \/ scan[t].i + 1 = Len(source) THEN "finish" ELSE "scan"]
              /\ scan[t].index + shown \in 0..Len(indexMap')
<1> USE DEF MInv
<1> DEFINE i == scan[t].i
           p == scan[t].index
           m == indexMap
           indexInList == p < Len(indexMap) /\ indexMap[p + 1] = i
<1>1. /\ p \in 0..Len(m) /\ i < scan[t].count /\ scan[t].count = Len(source) /\ i \in 0..MaxLen
      /\ m \in Seq(SizeT) /\ Len(m) \in Nat /\ Len(source) <= MaxLen /\ Len(source) \in Nat
  BY LenProperties DEF ScanItem, ScanOK, DataOK
<1>2. ASSUME NEW shown \in {0, 1}, Advance(t, shown)
      PROVE  /\ scan' = [scan EXCEPT ![t].i = @ + 1, ![t].index = @ + shown]
             /\ pc' = [pc EXCEPT ![t] = IF stop \/ scan[t].i + 1 = Len(source) THEN "finish" ELSE "scan"]
  BY <1>1, <1>2 DEF Advance, Goto
<1>3. \/ Advance(t, 1) /\ indexInList /\ indexMap' = m
      \/ Advance(t, 0) /\ indexInList /\ indexMap' = Removed(m, p, 1)
      \/ Advance(t, 1) /\ indexMap' = Inserted(m, p, <<i>>)
      \/ Advance(t, 0) /\ indexMap' = m
  BY DEF ScanItem
<1> HIDE DEF i, p, m
<1>4. CASE Advance(t, 1) /\ indexInList /\ indexMap' = m
  <2>1. p + 1 \in 0..Len(m)
    BY <1>1, <1>4 DEF m
  <2> QED
    BY <1>1, <1>2, <1>4, <2>1 DEF p
<1>5. CASE Advance(t, 0) /\ indexInList /\ indexMap' = Removed(m, p, 1)
  <2>1. p \in Nat /\ 1 \in Nat /\ p + 1 <= Len(m) /\ p + 0 = p
    BY <1>1, <1>5 DEF m
  <2>2. Removed(m, p, 1) \in Seq(SizeT) /\ Len(Removed(m, p, 1)) = Len(m) - 1
    BY <1>1, <2>1, RemovedFacts DEF Removal
  <2>3. p + 0 \in 0..(Len(m) - 1)
    BY <1>1, <2>1
  <2> QED
    BY <1>2, <1>5, <2>2, <2>3 DEF p
<1>6. CASE Advance(t, 1) /\ indexMap' = Inserted(m, p, <<i>>)
  <2>1. i \in SizeT
    BY <1>1 DEF SizeT
  <2>2. <<i>> \in Seq(SizeT) /\ Len(<<i>>) = 1
    BY <2>1
  <2>3. Inserted(m, p, <<i>>) \in Seq(SizeT) /\ Len(Inserted(m, p, <<i>>)) = Len(m) + 1
    <3>1. /\ Inserted(m, p, <<i>>) \in Seq(SizeT)
          /\ Insertion(Inserted(m, p, <<i>>), m, p, <<i>>)
      BY <1>1, <2>2, InsertedFacts
    <3> QED
      BY <1>1, <2>2, <3>1 DEF Insertion
  <2>4. p + 1 \in 0..(Len(m) + 1)
    BY <1>1
  <2> QED
    BY <1>2, <1>6, <2>3, <2>4 DEF p
<1>7. CASE Advance(t, 0) /\ indexMap' = m
  <2>1. p + 0 = p
    BY <1>1
  <2> QED
    BY <1>1, <1>2, <1>7, <2>1 DEF p
<1> QED
  BY <1>3, <1>4, <1>5, <1>6, <1>7

\* What it does to a map that mirrors the source.
LEMMA ScanItemMirrors ==
  ASSUME IInv, MInv, NEW t \in Threads, ScanItem(t), Sound
  PROVE  /\ Mirrors(source, indexMap', view')
         /\ scan'[t].i = scan[t].i + 1 /\ scan'[t].i \in 0..Len(source)
         /\ CutAt(indexMap', Len(indexMap'), scan[t].i + 1, scan'[t].index)
<1> USE DEF MInv
<1> DEFINE i == scan[t].i
           p == scan[t].index
           m == indexMap
           itemInFilter == i < Len(source) /\ filterMatched(source[i + 1])
           indexInList == p < Len(indexMap) /\ indexMap[p + 1] = i
<1>1. /\ pc[t] = "scan" /\ connected
      /\ UNCHANGED <<connected, source, kind, filter, lastUpdate, eventControl, stop, busy, call>>
  BY DEF ScanItem, modelVars, lockVars
<1>2. call.op # "remove"
  <2>1. call.op \in Changing => t = Main /\ Running(Main)
    BY <1>1 DEF IInv, MutexOwned, Running
  <2> QED
    BY <2>1 DEF IInv, Shape
<1>3. /\ Mirrors(source, m, view) /\ p \in 0..Len(m) /\ i \in 0..(Len(source) - 1)
      /\ CutAt(m, Len(m), i, p) /\ source \in Seq(Items) /\ Len(source) <= MaxLen
      /\ Len(source) \in Nat /\ m \in Seq(Int) /\ Len(m) \in Nat
      /\ \A k \in 1..Len(m) : m[k] \in 0..(Len(source) - 1)
  <2>1. Mirrors(source, m, view) /\ source \in Seq(Items)
    BY <1>2 DEF MapOK, DataOK
  <2>2. Len(source) \in Nat /\ m \in Seq(Int) /\ Len(m) \in Nat
        /\ \A k \in 1..Len(m) : m[k] \in 0..(Len(source) - 1)
    BY <2>1, MirrorFacts
  <2> QED
    BY <1>1, <2>1, <2>2 DEF ScanOK, DataOK
<1>4. ASSUME NEW shown \in {0, 1}, Advance(t, shown)
      PROVE  scan'[t].i = i + 1 /\ scan'[t].index = p + shown
  <2>1. scan'[t] = [scan[t] EXCEPT !.i = @ + 1, !.index = @ + shown]
    BY <1>4 DEF Advance, IInv, Shape
  <2> QED
    BY <2>1 DEF IInv, Shape
<1>5. /\ indexInList => CutAt(m, Len(m), i + 1, p + 1)
      /\ ~indexInList => CutAt(m, Len(m), i + 1, p)
  <2>1. i \in Int /\ Rising(m)
    BY <1>3 DEF Mirrors
  <2> QED
    BY <1>3, <2>1, NextCut
<1>6. i + 1 \in 0..Len(source)
  BY <1>3
<1>7. CASE itemInFilter /\ indexInList /\ Advance(t, 1) /\ UNCHANGED <<indexMap, view>>
  BY <1>3, <1>4, <1>5, <1>6, <1>7
<1>8. CASE /\ ~itemInFilter /\ indexInList /\ Advance(t, 0)
           /\ indexMap' = Removed(indexMap, p, 1) /\ view' = Removed(view, p, 1)
  <2>1. p \in Nat /\ p < Len(m) /\ m[p + 1] = i /\ p + 0 = p
    BY <1>3, <1>8
  <2>2. /\ Mirrors(source, indexMap', view') /\ Len(indexMap') = Len(m) - 1
        /\ CutAt(indexMap', Len(m) - 1, m[p + 1] + 1, p)
    <3>1. source \in Seq(Items) /\ Mirrors(source, m, view)
      BY <1>3
    <3>2. indexMap' = Removed(m, p, 1) /\ view' = Removed(view, p, 1)
      BY <1>8
    <3> HIDE DEF i, p, m
    <3> QED
      BY ONLY <2>1, <3>1, <3>2, RemoveOne
  <2> QED
    BY <1>4, <1>6, <1>8, <2>1, <2>2
<1>9. CASE /\ itemInFilter /\ ~indexInList /\ Advance(t, 1)
           /\ indexMap' = Inserted(indexMap, p, <<i>>)
           /\ view' = Inserted(view, p, ItemsAt(source, <<i>>))
  <2>1. view' = Inserted(view, p, <<source[i + 1]>>)
    BY <1>9, ItemAt
  <2>2. /\ Mirrors(source, indexMap', view') /\ Len(indexMap') = Len(m) + 1
        /\ CutAt(indexMap', Len(m) + 1, i + 1, p + 1)
    <3>1. CutAt(m, Len(m), i + 1, p)
      BY <1>5, <1>9
    <3>2. /\ source \in Seq(Items) /\ Mirrors(source, m, view) /\ i \in 0..(Len(source) - 1)
          /\ p \in 0..Len(m) /\ CutAt(m, Len(m), i, p)
      BY <1>3
    <3>3. indexMap' = Inserted(m, p, <<i>>)
      BY <1>9
    <3> HIDE DEF i, p, m
    <3> QED
      BY ONLY <2>1, <3>1, <3>2, <3>3, InsertOne
  <2> QED
    BY <1>4, <1>6, <1>9, <2>2
<1>10. CASE ~itemInFilter /\ ~indexInList /\ Advance(t, 0) /\ UNCHANGED <<indexMap, view>>
  <2>1. p + 0 = p
    BY <1>3
  <2> QED
    BY <1>3, <1>4, <1>5, <1>6, <1>10, <2>1
<1> QED
  BY <1>7, <1>8, <1>9, <1>10 DEF ScanItem

\* A scan judges an item: the entry at the scan's place is that item's or above it.
LEMMA MapScanItem ==
  ASSUME IInv, MInv, NEW t \in Threads, ScanItem(t) PROVE MInv'
<1> USE DEF MInv
<1>1. /\ pc[t] = "scan" /\ connected
      /\ UNCHANGED <<connected, source, kind, filter, lastUpdate, shifted, eventControl, remapping,
                     stop, busy, call>>
  BY DEF ScanItem, modelVars, lockVars
<1>2. call.op # "remove" /\ \A u \in Threads : u # t => pc[u] \notin Holding
  <2>1. \A u \in Threads : u # t => pc[u] \notin Holding
    BY <1>1 DEF IInv, MutexOwned
  <2>2. call.op \in Changing => t = Main /\ Running(Main)
    BY <1>1 DEF IInv, MutexOwned, Running
  <2> QED
    BY <2>1, <2>2 DEF IInv, Shape
<1>3. PICK shown \in {0, 1}, stage \in {"scan", "finish"} :
        /\ indexMap' \in Seq(SizeT)
        /\ scan' = [scan EXCEPT ![t].i = @ + 1, ![t].index = @ + shown]
        /\ pc' = [pc EXCEPT ![t] = stage]
        /\ stage = IF stop \/ scan[t].i + 1 = Len(source) THEN "finish" ELSE "scan"
        /\ scan[t].index + shown \in 0..Len(indexMap')
  BY ScanItemTyped
<1>4. /\ \A u \in Threads : u # t => pc'[u] = pc[u] /\ scan'[u] = scan[u]
      /\ scan'[t] = [scan[t] EXCEPT !.i = @ + 1, !.index = @ + shown] /\ pc'[t] = stage
  BY <1>3 DEF IInv, Shape
<1>5. scan'[t] = [i |-> scan[t].i + 1, index |-> scan[t].index + shown, count |-> scan[t].count]
  BY <1>4 DEF IInv, Shape
<1>6. /\ scan[t].i \in 0..MaxLen /\ scan[t].count \in 0..MaxLen /\ scan[t].i < scan[t].count
      /\ scan[t].count = Len(source) /\ scan[t].index \in Nat
  BY <1>1 DEF DataOK, ScanOK
<1>7. DataOK'
  <2>1. scan'[t] \in [i : 0..MaxLen, index : Nat, count : 0..MaxLen]
    <3>1. scan[t].i + 1 \in 0..MaxLen /\ scan[t].index + shown \in Nat
      BY <1>6
    <3> QED
      BY <1>5, <1>6, <3>1
  <2>2. DOMAIN scan' = Threads /\ scan' = [u \in Threads |-> scan'[u]]
    BY <1>3 DEF DataOK
  <2>3. \A u \in Threads : scan'[u] \in [i : 0..MaxLen, index : Nat, count : 0..MaxLen]
    BY <1>4, <2>1 DEF DataOK
  <2>4. scan' \in [Threads -> [i : 0..MaxLen, index : Nat, count : 0..MaxLen]]
    BY <2>2, <2>3
  <2> QED
    BY <1>1, <1>3, <2>4 DEF DataOK
<1>8. CallOK'
  BY <1>1 DEF CallOK
<1>9. MapOK'
  <2>1. Sound => Mirrors(source, indexMap', view')
    BY ScanItemMirrors
  <2> QED
    BY <1>1, <1>2, <2>1 DEF MapOK, Sound
<1>10. ScanOK'
  <2>1. scan'[t].i = scan[t].i + 1 /\ scan'[t].index = scan[t].index + shown /\ scan'[t].count = Len(source)
    BY <1>5, <1>6
  <2>2. \A u \in Threads : u # t => pc'[u] \notin {"scan", "finish"}
    BY <1>2, <1>4
  <2>3. stage = "scan" => scan'[t].i < scan'[t].count
    BY <1>3, <1>6, <2>1
  <2>4. Sound => /\ scan'[t].i \in 0..Len(source)
                 /\ CutAt(indexMap', Len(indexMap'), scan'[t].i, scan'[t].index)
    BY <2>1, ScanItemMirrors
  <2>5. stage = "finish" => stop \/ scan'[t].i = Len(source)
    BY <1>3, <2>1
  <2> QED
    BY <1>1, <1>3, <1>4, <2>1, <2>2, <2>3, <2>4, <2>5 DEF ScanOK, Sound
<1> QED
  BY <1>7, <1>8, <1>9, <1>10

\* A scan that was not stopped has judged every item, so it cuts nothing off the map.
LEMMA MapFinishScan ==
  ASSUME IInv, MInv, NEW t \in Threads, FinishScan(t) PROVE MInv'
<1> USE DEF MInv
<1>1. /\ pc[t] = "finish" /\ pc' = [pc EXCEPT ![t] = "ending"]
      /\ UNCHANGED <<connected, source, kind, filter, lastUpdate, view, shifted, eventControl, stop,
                     scan, busy, call>>
      /\ IF stop THEN indexMap' = indexMap ELSE indexMap' = SubSeq(indexMap, 1, scan[t].index)
      /\ remapping' = (remapping + CounterModulus - 1) % CounterModulus
  BY DEF FinishScan, Goto, modelVars, lockVars
<1>2. \A u \in Threads : pc'[u] = IF u = t THEN "ending" ELSE pc[u]
  BY <1>1 DEF IInv, Shape
<1>3. call.op # "remove" /\ \A u \in Threads : u # t => pc[u] \notin Holding
  <2>1. \A u \in Threads : u # t => pc[u] \notin Holding
    BY <1>1 DEF IInv, MutexOwned
  <2>2. call.op \in Changing => t = Main /\ Running(Main)
    BY <1>1 DEF IInv, MutexOwned, Running
  <2> QED
    BY <2>1, <2>2 DEF IInv, Shape
<1>4. indexMap' \in Seq(SizeT)
  <2>1. PICK n \in Nat : n = Len(indexMap) /\ \A k \in 1..n : indexMap[k] \in SizeT
    BY LenProperties, ElementOfSeq DEF DataOK
  <2>2. scan[t].index \in 0..n
    BY <1>1, <2>1 DEF ScanOK
  <2>3. SubSeq(indexMap, 1, scan[t].index) \in Seq(SizeT)
    <3>1. indexMap \in Seq(SizeT) /\ 1 \in 1..(n + 1) /\ scan[t].index \in 0..n
      BY <2>1, <2>2 DEF DataOK
    <3>2. \A k \in 1..scan[t].index : indexMap[k] \in SizeT
      BY <2>1, <2>2
    <3> QED
      BY <2>1, <3>1, <3>2, SubSeqProperties
  <2> QED
    BY <1>1, <2>3 DEF DataOK
<1>5. Sound => indexMap' = indexMap
  <2> SUFFICES ASSUME Sound, ~stop PROVE indexMap' = indexMap
    BY <1>1
  <2> DEFINE n == Len(indexMap)
             p == scan[t].index
  <2>1. /\ indexMap \in Seq(Int) /\ n \in Nat
        /\ \A k \in 1..n : indexMap[k] \in 0..(Len(source) - 1)
    <3>1. source \in Seq(Items) /\ Mirrors(source, indexMap, view)
      BY <1>3 DEF MapOK, DataOK
    <3> QED
      BY <3>1, MirrorFacts
  <2>2. p \in 0..n /\ CutAt(indexMap, n, Len(source), p)
    BY <1>1 DEF ScanOK
  <2>3. p = n
    <3> SUFFICES ASSUME p < n PROVE FALSE
      BY <2>1, <2>2
    <3>1. n \in 1..n /\ ~(n <= p)
      BY <2>1, <2>2
    <3>2. ~(indexMap[n] < Len(source)) /\ indexMap[n] \in 0..(Len(source) - 1)
      BY <2>1, <2>2, <3>1 DEF CutAt
    <3>3. Len(source) \in Nat
      BY LenProperties DEF DataOK
    <3> QED
      BY <3>2, <3>3
  <2>4. SubSeq(indexMap, 1, Len(indexMap)) = indexMap
    BY <2>1, SubSeqFull
  <2> QED
    BY <1>1, <2>3, <2>4
<1>6. DataOK'
  <2>1. remapping' \in 0..(CounterModulus - 1)
    <3>1. remapping \in 0..255
      BY DEF DataOK, CounterModulus
    <3> QED
      BY ONLY <1>1, <3>1 DEF CounterModulus
  <2> QED
    BY <1>1, <1>4, <2>1 DEF DataOK
<1>7. CallOK'
  BY <1>1 DEF CallOK
<1>8. MapOK'
  BY <1>1, <1>3, <1>5 DEF MapOK, Sound
<1>9. ScanOK'
  BY <1>1, <1>2, <1>3 DEF ScanOK
<1> QED
  BY <1>6, <1>7, <1>8, <1>9

\* The calls that refresh leave the map to the threads.
LEMMA MapRefreshing ==
  ASSUME IInv, MInv,
         \/ \E f \in Filters : SetFilter(f) \/ FilterChanged(f)
         \/ \E w \in BOOLEAN : Refresh(w)
         \/ RefreshReturns \/ RefreshInPlace \/ RefreshDetached
  PROVE  MInv'
<1> USE DEF MInv
<1>1. /\ UNCHANGED <<connected, source, kind, indexMap, lastUpdate, view, shifted, eventControl,
                     remapping, stop, scan, busy>>
      /\ call.op \in {"idle", "refresh"} /\ call'.op \in {"idle", "refresh"}
      /\ filter' = filter \/ filter' \in Filters
  <2>1. CASE \/ \E f \in Filters : SetFilter(f) \/ FilterChanged(f)
             \/ \E w \in BOOLEAN : Refresh(w)
    BY <2>1 DEF SetFilter, FilterChanged, Refresh, Begins, modelVars, mapVars, lockVars, scanVars
  <2>2. CASE RefreshReturns \/ RefreshInPlace \/ RefreshDetached
    BY <2>2 DEF RefreshReturns, RefreshInPlace, RefreshDetached, Done, modelVars, mapVars, lockVars, scanVars
  <2> QED
    BY <2>1, <2>2
<1>2. pc' = pc \/ \E t \in Threads : pc' = [pc EXCEPT ![t] = "spawned"]
  <2>1. CASE \/ \E f \in Filters : SetFilter(f) \/ FilterChanged(f)
             \/ \E w \in BOOLEAN : Refresh(w) \/ RefreshReturns
    BY <2>1 DEF SetFilter, FilterChanged, Refresh, RefreshReturns, scanVars
  <2>2. CASE RefreshInPlace
    BY <2>2 DEF RefreshInPlace, Goto, Threads
  <2>3. CASE RefreshDetached
    BY <2>3 DEF RefreshDetached, Goto, Threads
  <2> QED
    BY <2>1, <2>2, <2>3
<1>3. filter' \in SUBSET Kinds
  BY <1>1 DEF DataOK
<1>4. DataOK'
  BY <1>1, <1>3 DEF DataOK
<1>5. CallOK'
  BY <1>1 DEF CallOK
<1>6. MapOK'
  BY <1>1 DEF MapOK, Sound
<1>7. ScanOK'
  <2>1. CASE pc' = pc
    BY <1>1, <2>1 DEF ScanOK, Sound
  <2>2. CASE \E t \in Threads : pc' = [pc EXCEPT ![t] = "spawned"]
    <3>1. PICK t \in Threads : pc' = [pc EXCEPT ![t] = "spawned"]
      BY <2>2
    <3>2. \A u \in Threads : pc'[u] = IF u = t THEN "spawned" ELSE pc[u]
      BY <3>1 DEF IInv, Shape
    <3> QED
      BY <1>1, <3>2 DEF ScanOK, Sound
  <2> QED
    BY <1>2, <2>1, <2>2
<1> QED
  BY <1>4, <1>5, <1>6, <1>7

\* setSource begins, and waits: from now on a scan may end early.
LEMMA MapHalts ==
  ASSUME IInv, MInv,
         \/ RemappingHalted
         \/ \E s : /\ SetSource(s) /\ s.present \in BOOLEAN
                   /\ s.items \in Seq(Items) /\ Len(s.items) <= MaxLen
  PROVE  MInv'
<1> USE DEF MInv
<1>1. CASE RemappingHalted
  <2>1. /\ UNCHANGED <<connected, source, kind, filter, indexMap, lastUpdate, view, shifted,
                       eventControl, remapping, scan, busy, pc, stop>>
        /\ call.op = "halt" /\ call' = [call EXCEPT !.op = "drop"]
    BY <1>1 DEF RemappingHalted, modelVars, mapVars, lockVars, scanVars
  <2>2. call'.op = "drop" /\ call'.to = call.to
    BY <2>1 DEF IInv, Shape
  <2> QED
    BY <2>1, <2>2 DEF DataOK, CallOK, MapOK, ScanOK, Sound
<1>2. CASE \E s : /\ SetSource(s) /\ s.present \in BOOLEAN
                  /\ s.items \in Seq(Items) /\ Len(s.items) <= MaxLen
  <2>1. PICK s : /\ SetSource(s) /\ s.present \in BOOLEAN
                 /\ s.items \in Seq(Items) /\ Len(s.items) <= MaxLen
    BY <1>2
  <2>2. /\ UNCHANGED <<connected, source, kind, filter, indexMap, lastUpdate, view, shifted,
                       eventControl, remapping, scan, busy, pc>>
        /\ stop' = TRUE /\ call = Idle /\ call' = [op |-> "halt", to |-> s]
    BY <2>1 DEF SetSource, Begins, modelVars, mapVars, lockVars
  <2>3. DataOK'
    BY <2>2 DEF DataOK
  <2>4. CallOK' /\ MapOK'
    BY <2>1, <2>2, MapUnchanged DEF CallOK
  <2>5. ScanOK'
    BY <2>2 DEF ScanOK, Sound
  <2> QED
    BY <2>3, <2>4, <2>5
<1> QED
  BY <1>1, <1>2

\* The source is given up, or dies: there is nothing to mirror.
LEMMA MapDisconnects ==
  ASSUME IInv, MInv, Disconnect \/ SourceDestroyed PROVE MInv'
<1> USE DEF MInv
<1>1. /\ UNCHANGED <<kind, filter, indexMap, lastUpdate, view, shifted, eventControl, remapping,
                     scan, busy, pc, stop>>
      /\ connected' = FALSE /\ source' = <<>>
  BY DEF Disconnect, SourceDestroyed, mapVars, lockVars, scanVars
<1>2. call.op # "remove" /\ \/ call'.op = "idle"
                            \/ call.op = "drop" /\ call'.op = "replace" /\ call'.to = call.to
  <2>1. CASE Disconnect
    <3>1. call.op = "drop" /\ call' = [call EXCEPT !.op = "replace"]
      BY <2>1 DEF Disconnect
    <3> QED
      BY <3>1 DEF IInv, Shape
  <2>2. CASE SourceDestroyed
    BY <2>2 DEF SourceDestroyed, Begins
  <2> QED
    BY <2>1, <2>2
<1>3. DataOK'
  <2>1. source' \in Seq(Items) /\ Len(source') = 0
    BY <1>1
  <2>2. Len(source') <= MaxLen
    BY <2>1
  <2> QED
    BY <1>1, <2>1, <2>2 DEF DataOK
<1>4. CallOK' /\ MapOK'
  BY <1>1, <1>2 DEF CallOK, MapOK, Sound
<1>5. ScanOK'
  BY <1>1 DEF ScanOK, Sound
<1> QED
  BY <1>3, <1>4, <1>5

\* Nobody scans while the mutex is free or the source is being changed.
LEMMA NobodyScans ==
  ASSUME IInv, eventControl = NoThread \/ call.op \in Changing
  PROVE  \A t \in Threads : pc[t] \notin {"scan", "finish"}
<1> SUFFICES ASSUME NEW t \in Threads, pc[t] \in {"scan", "finish"} PROVE FALSE
  OBVIOUS
<1>1. eventControl = t /\ t # NoThread
  BY DEF IInv, MutexOwned, Threads
<1>2. call.op \in Changing /\ t = Main /\ Running(Main)
  BY <1>1 DEF IInv, MutexOwned, Running
<1> QED
  BY <1>2 DEF IInv, Shape

\* The new source is mapped afresh, and the view with it; nobody scans.
LEMMA MapReplaces ==
  ASSUME IInv, MInv, ReplaceSource PROVE MInv'
<1> USE DEF MInv
<1>1. /\ UNCHANGED <<kind, filter, lastUpdate, eventControl, scan, busy, pc>> /\ stop' = FALSE
      /\ connected' = call.to.present /\ source' = call.to.items /\ call.op = "replace" /\ call' = Idle
      /\ IF call.to.present THEN indexMap' = Matching(source') /\ shifted' = FALSE
                            ELSE UNCHANGED <<indexMap, shifted>>
      /\ view' = IF call.to.present THEN ItemsAt(source', indexMap') ELSE <<>>
      /\ remapping' = 0 /\ eventControl = NoThread
  BY DEF ReplaceSource, Done, lockVars
<1>2. source' \in Seq(Items) /\ Len(source') <= MaxLen /\ connected' \in BOOLEAN
  BY <1>1 DEF CallOK
<1>3. connected' => Mirrors(source', indexMap', view')
  <2>1. PICK s \in Seq(Items) : s = source'
    BY <1>2
  <2>2. Mirrors(s, Matching(s), ItemsAt(s, Matching(s)))
    BY MatchingMirrors
  <2>3. connected' => indexMap' = Matching(s) /\ view' = ItemsAt(s, indexMap')
    BY <1>1, <2>1
  <2> QED
    BY <2>1, <2>2, <2>3
<1>4. indexMap' \in Seq(SizeT)
  <2>1. CASE connected'
    BY <1>2, <1>3, <2>1, MapTyped
  <2>2. CASE ~connected'
    BY <1>1, <2>2 DEF DataOK
  <2> QED
    BY <2>1, <2>2
<1>5. DataOK'
  <2>1. remapping' \in 0..(CounterModulus - 1) /\ shifted' \in BOOLEAN
    <3>1. remapping' = 0 /\ 0 \in 0..(CounterModulus - 1)
      BY <1>1 DEF CounterModulus
    <3>2. shifted' \in BOOLEAN
      BY <1>1 DEF DataOK
    <3> QED
      BY <3>1, <3>2
  <2> QED
    BY <1>1, <1>2, <1>4, <2>1 DEF DataOK
<1>6. CallOK' /\ MapOK'
  BY <1>1, <1>3 DEF CallOK, MapOK, Sound
<1>7. ScanOK'
  BY <1>1, NobodyScans DEF ScanOK
<1> QED
  BY <1>5, <1>6, <1>7

\* The pre signals that leave the map alone.
LEMMA MapAnnounces ==
  ASSUME IInv, MInv,
         \/ \E index \in 0..MaxLen, new \in NewItems : preItemsInserted(index, new)
         \/ \E k \in 1..MaxLen, data \in Kinds : preItemDataChanged(k, data)
  PROVE  MInv'
<1> USE DEF MInv
<1>1. /\ UNCHANGED <<connected, source, kind, filter, indexMap, lastUpdate, view, shifted, remapping,
                     scan, busy, pc, stop>>
      /\ call = Idle /\ call'.op # "remove" /\ eventControl' = Main
  BY DEF preItemsInserted, preItemDataChanged, TakeEventControl, Begins, modelVars, mapVars, scanVars
<1>2. CallOK'
  <2>1. CASE \E index \in 0..MaxLen, new \in NewItems : preItemsInserted(index, new)
    <3>1. PICK index \in 0..MaxLen, new \in NewItems : preItemsInserted(index, new)
      BY <2>1
    <3>2. /\ call' = [op |-> "insert", index |-> index, new |-> new]
          /\ index <= Len(source) /\ Len(source) + Len(new) <= MaxLen
      BY <3>1 DEF preItemsInserted, TakeEventControl, Begins
    <3>3. new \in Seq(Items) /\ Len(source) \in Nat
      <4>1. PICK n \in 1..2 : new \in [1..n -> Items]
        BY DEF NewItems
      <4>2. n \in Nat
        BY <4>1
      <4> QED
        BY <4>1, <4>2, SeqDef, LenProperties DEF DataOK
    <3> QED
      BY <1>1, <3>2, <3>3 DEF CallOK
  <2>2. CASE \E k \in 1..MaxLen, data \in Kinds : preItemDataChanged(k, data)
    <3>1. PICK k \in 1..MaxLen, data \in Kinds : preItemDataChanged(k, data)
      BY <2>2
    <3>2. call' = [op |-> "change", index |-> k - 1, data |-> data] /\ k \in 1..Len(source)
      BY <3>1 DEF preItemDataChanged, TakeEventControl, Begins
    <3>3. k - 1 \in 0..(Len(source) - 1)
      <4>1. Len(source) \in Nat
        BY LenProperties DEF DataOK
      <4> QED
        BY <3>2, <4>1
    <3> QED
      BY <1>1, <3>2, <3>3 DEF CallOK
  <2> QED
    BY <2>1, <2>2
<1>3. DataOK'
  BY <1>1 DEF DataOK, Threads
<1>4. MapOK'
  BY <1>1 DEF MapOK, Sound
<1>5. ScanOK'
  BY <1>1 DEF ScanOK, Sound
<1> QED
  BY <1>2, <1>3, <1>4, <1>5

\* findItemsToRemove finds no more entries than there are behind its start.
LEMMA FoundTyped ==
  ASSUME NEW n \in Nat, n = Len(indexMap), NEW from \in 0..n, NEW last,
         lastUpdate = NoUpdate, NEW update, update = findItemsToRemove(from, last)
  PROVE  /\ update \in [index : Nat, count : Nat, valid : BOOLEAN]
         /\ update.count \in 0..n
         /\ ~update.valid => update = NoUpdate
<1> DEFINE run == {k \in (from + 1)..n : \A j \in (from + 1)..k : indexMap[j] <= last}
<1>1. update = [index |-> IF run = {} THEN 0 ELSE from, count |-> Cardinality(run), valid |-> run # {}]
  BY DEF findItemsToRemove, NoUpdate
<1>2. Cardinality(run) \in 0..n
  <2>1. from + 1 \in Int /\ n \in Int
    OBVIOUS
  <2>2. /\ IsFiniteSet((from + 1)..n)
        /\ Cardinality((from + 1)..n) = IF from + 1 > n THEN 0 ELSE n - (from + 1) + 1
    BY <2>1, FS_Interval
  <2>3. run \subseteq (from + 1)..n
    OBVIOUS
  <2> HIDE DEF run
  <2>4. /\ Cardinality(run) \in Nat /\ Cardinality(run) <= Cardinality((from + 1)..n)
    BY <2>2, <2>3, FS_Subset, FS_CardinalityType
  <2> QED
    BY <2>2, <2>4
<1>3. run = {} => Cardinality(run) = 0
  BY FS_EmptySet
<1> HIDE DEF run
<1>4. update.count = Cardinality(run) /\ update.valid = (run # {})
  BY <1>1
<1>5. update \in [index : Nat, count : Nat, valid : BOOLEAN]
  <2>1. (IF run = {} THEN 0 ELSE from) \in Nat /\ Cardinality(run) \in Nat
    BY <1>2
  <2> QED
    BY <1>1, <2>1
<1>6. ~update.valid => update = NoUpdate
  BY <1>1, <1>3, <1>4 DEF NoUpdate
<1> QED
  BY <1>2, <1>4, <1>5, <1>6

\* In an ascending map it finds the entries between the two lower bounds. When it finds
\* none it leaves the offset at 0, which is right if no shown item is before them.
LEMMA FoundRange ==
  ASSUME NEW m \in Seq(Int), m = indexMap, Rising(m), NEW index \in Nat, NEW count \in Nat,
         lastUpdate = NoUpdate, NEW from \in LowerBounds(m, index),
         NEW update, update = findItemsToRemove(from, index + count - 1), ~(update.index < from)
  PROVE  /\ update.index \in 0..Len(m) /\ CutAt(m, Len(m), index, update.index)
         /\ update.count \in 0..(Len(m) - update.index)
         /\ CutAt(m, Len(m), index + count, update.index + update.count)
<1>1. PICK n \in Nat : n = Len(m)
  BY LenProperties
<1>2. from \in 0..n /\ \A k \in 1..n : m[k] \in Int /\ (m[k] < index <=> k <= from)
  <2>1. index \in Int
    OBVIOUS
  <2> QED
    BY <1>1, <2>1, LowerBoundFacts, ElementOfSeq
<1>3. PICK y \in Int : y = index + count
  OBVIOUS
<1>4. PICK hit : hit = {k \in (from + 1)..Len(m) : \A j \in (from + 1)..k : m[j] <= y - 1}
  OBVIOUS
<1>5. update = [index |-> IF hit = {} THEN 0 ELSE from, count |-> Cardinality(hit), valid |-> hit # {}]
  BY <1>3, <1>4 DEF findItemsToRemove, NoUpdate
<1>6. /\ Cardinality(hit) \in 0..(Len(m) - from) /\ (hit = {} <=> Cardinality(hit) = 0)
      /\ \A k \in 1..Len(m) : m[k] < y <=> k <= from + Cardinality(hit)
  <2>1. \A k \in 1..Len(m) : k <= from => m[k] < y
    BY <1>1, <1>2, <1>3
  <2>2. from \in 0..Len(m)
    BY <1>1, <1>2
  <2>3. hit \subseteq (from + 1)..Len(m)
    BY <1>4
  <2>4. \A k \in (from + 1)..Len(m) : k \in hit <=> \A j \in (from + 1)..k : m[j] <= y - 1
    BY <1>4
  <2> QED
    BY <2>1, <2>2, <2>3, <2>4, RangeCount
<1>7. update.index = from /\ update.count = Cardinality(hit)
  <2>1. update.index = IF hit = {} THEN 0 ELSE from
    BY <1>5
  <2>2. update.count = Cardinality(hit)
    BY <1>5
  <2>3. hit = {} => from = 0
    BY <1>2, <2>1
  <2> QED
    BY <2>1, <2>2, <2>3
<1> QED
  BY <1>1, <1>2, <1>3, <1>6, <1>7 DEF CutAt

\* A removal is announced: the map is already what it will be afterwards, unless entries
\* of items that stay have been lowered.
LEMMA MapRemoves ==
  ASSUME IInv, MInv,
         NEW index \in 0..MaxLen, NEW count \in 1..MaxLen, preItemsRemoved(index, count)
  PROVE  MInv'
<1> USE DEF MInv
<1>0. PICK from \in LowerBounds(indexMap, index) :
        /\ lastUpdate' = findItemsToRemove(from, index + count - 1)
        /\ indexMap' = ShiftDown(indexMap, findItemsToRemove(from, index + count - 1), count)
        /\ shifted' = (shifted \/ findItemsToRemove(from, index + count - 1).index < from)
  BY DEF preItemsRemoved
<1>1. PICK update :
        /\ from \in LowerBounds(indexMap, index)
        /\ update = findItemsToRemove(from, index + count - 1)
        /\ lastUpdate' = update /\ indexMap' = ShiftDown(indexMap, update, count)
        /\ shifted' = (shifted \/ update.index < from)
  BY <1>0
<1>2. /\ UNCHANGED <<connected, source, kind, filter, view, remapping, scan, busy, pc, stop>>
      /\ connected /\ call = Idle /\ eventControl = NoThread /\ eventControl' = Main
      /\ call' = [op |-> "remove", index |-> index, count |-> count]
      /\ index + count <= Len(source)
  BY DEF preItemsRemoved, TakeEventControl, Begins, modelVars, scanVars
<1>3. PICK n \in Nat : n = Len(indexMap) /\ from \in 0..n
  BY LenProperties DEF DataOK, LowerBounds
<1>4. /\ source \in Seq(Items) /\ Len(source) <= MaxLen /\ Len(source) \in Nat
      /\ lastUpdate = NoUpdate /\ index \in Nat /\ count \in Nat
  BY <1>2, LenProperties DEF DataOK, MapOK
<1>5. /\ update \in [index : Nat, count : Nat, valid : BOOLEAN] /\ update.count \in 0..n
      /\ ~update.valid => update = NoUpdate
  BY <1>1, <1>3, <1>4, FoundTyped
<1>6. indexMap' \in Seq(SizeT)
  <2>1. indexMap \in Seq(SizeT) /\ update.index \in Nat /\ count <= MaxLen
    BY <1>5 DEF DataOK
  <2> QED
    BY <1>1, <1>3, <1>4, <1>5, <2>1, ShiftDownTyped
<1>7. ASSUME Sound' PROVE Mirrors(Removed(source, index, count), indexMap',
                                  Removed(view, update.index, update.count)) /\ view \in Seq(Items)
  <2>1. Sound /\ ~(update.index < from)
    BY <1>1, <1>2, <1>7 DEF Sound
  <2>2. Mirrors(source, indexMap, view)
    BY <1>2, <2>1 DEF MapOK
  <2>3. indexMap \in Seq(Int) /\ Rising(indexMap) /\ view \in Seq(Items)
    BY <1>4, <2>2, MirrorFacts DEF Mirrors
  <2>4. /\ update.index \in 0..Len(indexMap) /\ CutAt(indexMap, Len(indexMap), index, update.index)
        /\ update.count \in 0..(Len(indexMap) - update.index)
        /\ CutAt(indexMap, Len(indexMap), index + count, update.index + update.count)
    BY <1>1, <1>4, <2>1, <2>3, FoundRange
  <2>5. Len(source) < SizeModulus
    BY <1>4
  <2>6. Mirrors(Removed(source, index, count), ShiftDown(indexMap, update, count),
                Removed(view, update.index, update.count))
    BY ONLY <1>2, <1>4, <2>2, <2>4, <2>5, RemoveMany
  <2> QED
    BY <1>1, <2>3, <2>6
<1>8. DataOK'
  <2>1. shifted' \in BOOLEAN
    BY <1>1 DEF DataOK
  <2> QED
    BY <1>1, <1>2, <1>5, <1>6, <2>1 DEF DataOK, Threads
<1>9. CallOK'
  BY <1>2, <1>4 DEF CallOK
<1>10. MapOK'
  BY <1>1, <1>2, <1>5, <1>7 DEF MapOK
<1>11. ScanOK'
  BY <1>2, NobodyScans DEF ScanOK
<1> QED
  BY <1>8, <1>9, <1>10, <1>11

\* The items have come.
LEMMA MapInserted ==
  ASSUME IInv, MInv, postItemsInserted PROVE MInv'
<1> USE DEF MInv
<1>1. PICK t, index, new : t = Inserted(source, index, new) /\ index = call.index /\ new = call.new
  OBVIOUS
<1> DEFINE S == {i \in index..(index + Len(new) - 1) : filterMatched(t[i + 1])}
<1>2. PICK ids : ids = Ascending(S)
  OBVIOUS
<1>3. PICK p \in LowerBounds(indexMap, index) :
        /\ indexMap' = Inserted(ShiftUp(indexMap, p, Len(new)), p, ids)
        /\ view' = Inserted(view, p, ItemsAt(t, ids))
  BY <1>1, <1>2 DEF postItemsInserted, filterMatched
<1>4. /\ UNCHANGED <<connected, kind, filter, lastUpdate, shifted, remapping, scan, busy, pc, stop>>
      /\ call.op = "insert" /\ call' = Idle /\ eventControl' = NoThread
      /\ source' = t
  BY <1>1 DEF postItemsInserted, Done, scanVars
<1>5. connected
  BY <1>4 DEF IInv, Shape
<1>6. /\ source \in Seq(Items) /\ Len(source) \in Nat
      /\ index \in 0..Len(source) /\ new \in Seq(Items) /\ Len(new) \in Nat
      /\ Len(source) + Len(new) <= MaxLen
  BY <1>1, <1>4, LenProperties DEF DataOK, CallOK
<1>7. /\ ids \in Seq(Int) /\ Rising(ids) /\ ids \in Seq(SizeT)
      /\ \A k \in 1..Len(ids) : index <= ids[k] /\ ids[k] < index + Len(new)
  <2>1. S \in SUBSET (index..(index + Len(new) - 1)) /\ index \in Int /\ index + Len(new) - 1 \in Int
    BY <1>6
  <2>2. \A i \in S : i \in Int /\ index <= i /\ i < index + Len(new) /\ i \in SizeT
    BY <1>6 DEF SizeT
  <2> HIDE DEF S
  <2>3. ids \in Seq(S) /\ Rising(ids)
    BY <1>2, <2>1, AscendingFacts
  <2>4. \A k \in 1..Len(ids) : ids[k] \in S
    BY <2>3, ElementOfSeq
  <2>5. ids \in Seq(Int) /\ ids \in Seq(SizeT)
    BY <2>2, <2>3, <2>4, Retype
  <2> QED
    BY <2>2, <2>3, <2>4, <2>5
<1> HIDE DEF S
<1>8. t \in Seq(Items) /\ Len(t) = Len(source) + Len(new)
  <2>1. t \in Seq(Items) /\ Insertion(t, source, index, new)
    BY <1>1, <1>6, InsertedFacts
  <2> QED
    BY <1>6, <2>1 DEF Insertion
<1>9. ASSUME Sound PROVE Mirrors(t, indexMap', view')
  <2>1. Mirrors(source, indexMap, view)
    BY <1>4, <1>9 DEF MapOK
  <2>2. indexMap \in Seq(Int) /\ Rising(indexMap) /\ index \in Int
    BY <1>6, <2>1, MirrorFacts DEF Mirrors
  <2>3. p \in 0..Len(indexMap) /\ CutAt(indexMap, Len(indexMap), index, p)
    BY <2>2, LowerBoundFacts DEF CutAt
  <2>4. Len(source) + Len(new) < SizeModulus
    BY <1>6
  <2>5. Mirrors(t, Inserted(ShiftUp(indexMap, p, Len(new)), p, ids), Inserted(view, p, ItemsAt(t, ids)))
    BY ONLY <1>1, <1>6, <1>7, <2>1, <2>3, <2>4, InsertMany
  <2> QED
    BY <1>3, <2>5
<1>10. indexMap' \in Seq(SizeT)
  <2> DEFINE up == ShiftUp(indexMap, p, Len(new))
  <2>1. up \in Seq(SizeT) /\ Len(up) = Len(indexMap)
    BY <1>6, ShiftUpTyped DEF DataOK
  <2>2. p \in 0..Len(indexMap)
    BY DEF LowerBounds
  <2>3. indexMap' = Inserted(up, p, ids)
    BY <1>3
  <2> HIDE DEF up
  <2> QED
    BY <1>7, <2>1, <2>2, <2>3, InsertedFacts
<1>11. DataOK'
  BY <1>4, <1>6, <1>8, <1>10 DEF DataOK
<1>12. CallOK' /\ MapOK'
  BY <1>4, <1>9 DEF CallOK, MapOK, Sound
<1>13. ScanOK'
  BY <1>4, NobodyScans DEF ScanOK
<1> QED
  BY <1>11, <1>12, <1>13

\* The signal is skipped when no shown item goes, and then nothing goes from the view.
LEMMA ViewRemoved ==
  ASSUME MInv, postItemsRemoved
  PROVE  /\ lastUpdate' = NoUpdate
         /\ Sound => view' = Removed(view, lastUpdate.index, lastUpdate.count)
<1>1. /\ call.op = "remove"
      /\ IF lastUpdate.valid
           THEN /\ view' = Removed(view, lastUpdate.index, lastUpdate.count)
                /\ lastUpdate' = NoUpdate
           ELSE UNCHANGED <<view, lastUpdate>>
  BY DEF postItemsRemoved
<1>2. CASE lastUpdate.valid
  BY <1>1, <1>2
<1>3. CASE ~lastUpdate.valid
  <2>1. lastUpdate = NoUpdate /\ (Sound => view \in Seq(Items))
    BY <1>1, <1>3 DEF MInv, MapOK
  <2>2. ASSUME Sound PROVE Removed(view, 0, 0) = view
    <3>1. PICK n \in Nat : n = Len(view)
      BY <2>1, <2>2, LenProperties
    <3>2. Removed(view, 0, 0) \in Seq(Items) /\ Removal(Removed(view, 0, 0), view, 0, 0)
      <4>1. 0 \in Nat /\ 0 + 0 <= Len(view)
        BY <3>1
      <4> QED
        BY <2>1, <2>2, <4>1, RemovedFacts
    <3>3. /\ Len(Removed(view, 0, 0)) = n
          /\ \A k \in 1..n : Removed(view, 0, 0)[k] = view[k]
      BY <3>1, <3>2 DEF Removal
    <3> QED
      BY <2>1, <2>2, <3>1, <3>2, <3>3, SeqEqual
  <2>3. lastUpdate.index = 0 /\ lastUpdate.count = 0
    BY <2>1 DEF NoUpdate
  <2> QED
    BY <1>1, <1>3, <2>1, <2>2, <2>3
<1> QED
  BY <1>2, <1>3

\* The items have gone.
LEMMA MapRemoved ==
  ASSUME IInv, MInv, postItemsRemoved PROVE MInv'
<1> USE DEF MInv
<1>1. /\ UNCHANGED <<connected, kind, filter, indexMap, shifted, remapping, scan, busy, pc, stop>>
      /\ call.op = "remove" /\ call' = Idle /\ eventControl' = NoThread
      /\ source' = Removed(source, call.index, call.count)
  BY DEF postItemsRemoved, Done, scanVars
<1>2. /\ source \in Seq(Items) /\ Len(source) \in Nat /\ Len(source) <= MaxLen
      /\ call.index \in Nat /\ call.count \in Nat /\ call.index + call.count <= Len(source)
  BY <1>1, LenProperties DEF DataOK, CallOK
<1>3. source' \in Seq(Items) /\ Len(source') <= MaxLen
  <2>1. /\ Removed(source, call.index, call.count) \in Seq(Items)
        /\ Len(Removed(source, call.index, call.count)) = Len(source) - call.count
    <3>1. /\ Removed(source, call.index, call.count) \in Seq(Items)
          /\ Removal(Removed(source, call.index, call.count), source, call.index, call.count)
      BY <1>2, RemovedFacts
    <3> QED
      BY <3>1 DEF Removal
  <2> QED
    BY <1>1, <1>2, <2>1
<1>4. /\ Sound => view' = Removed(view, lastUpdate.index, lastUpdate.count)
      /\ lastUpdate' = NoUpdate
  BY ViewRemoved
<1>5. Sound => Mirrors(source', indexMap', view')
  BY <1>1, <1>4 DEF MapOK
<1>6. DataOK'
  <2>1. NoUpdate \in [index : Nat, count : Nat, valid : BOOLEAN]
    BY DEF NoUpdate
  <2> QED
    BY <1>1, <1>3, <1>4, <2>1 DEF DataOK
<1>7. CallOK' /\ MapOK'
  BY <1>1, <1>4, <1>5 DEF CallOK, MapOK, Sound
<1>8. ScanOK'
  BY <1>1, NobodyScans DEF ScanOK
<1> QED
  BY <1>6, <1>7, <1>8

\* The data of an item have changed: it comes, goes, or stays as it was.
LEMMA MapItemChanged ==
  ASSUME IInv, MInv, postItemDataChanged PROVE MInv'
<1> USE DEF MInv
<1>1. PICK i, data : i = call.index /\ data = call.data
  OBVIOUS
<1>2. PICK p \in LowerBounds(indexMap, i) :
        LET was == p < Len(indexMap) /\ indexMap[p + 1] = i
            now == data \in filter
        IN \/ /\ now /\ ~was
              /\ indexMap' = Inserted(indexMap, p, <<i>>)
              /\ view' = Inserted(view, p, <<source[i + 1]>>)
           \/ /\ ~now /\ was
              /\ indexMap' = Removed(indexMap, p, 1)
              /\ view' = Removed(view, p, 1)
           \/ UNCHANGED <<indexMap, view>>
  BY <1>1 DEF postItemDataChanged, checkUpdateType
<1> DEFINE was == p < Len(indexMap) /\ indexMap[p + 1] = i
           now == data \in filter
<1>3. /\ UNCHANGED <<connected, source, filter, lastUpdate, shifted, remapping, scan, busy, pc, stop>>
      /\ call.op = "change" /\ call' = Idle /\ eventControl' = NoThread
      /\ kind' = [kind EXCEPT ![source[i + 1]] = data]
  BY <1>1 DEF postItemDataChanged, Done, scanVars
<1>4. /\ source \in Seq(Items) /\ Len(source) \in Nat /\ Len(source) <= MaxLen
      /\ i \in 0..(Len(source) - 1) /\ data \in Kinds
      /\ indexMap \in Seq(SizeT) /\ Len(indexMap) \in Nat /\ p \in 0..Len(indexMap)
  BY <1>1, <1>3, LenProperties DEF DataOK, CallOK, LowerBounds
<1>5. ASSUME Sound PROVE Mirrors(source, indexMap', view')
  <2>1. Mirrors(source, indexMap, view)
    BY <1>3, <1>5 DEF MapOK
  <2>2. indexMap \in Seq(Int) /\ Rising(indexMap) /\ i \in Int
    BY <1>4, <2>1, MirrorFacts DEF Mirrors
  <2>3. CutAt(indexMap, Len(indexMap), i, p)
    BY <2>2, LowerBoundFacts DEF CutAt
  <2>4. CASE /\ ~was
             /\ indexMap' = Inserted(indexMap, p, <<i>>)
             /\ view' = Inserted(view, p, <<source[i + 1]>>)
    <3>1. CutAt(indexMap, Len(indexMap), i + 1, p)
      BY <1>4, <2>2, <2>3, <2>4, NextCut
    <3> QED
      BY <1>4, <2>1, <2>3, <2>4, <3>1, InsertOne
  <2>5. CASE was /\ indexMap' = Removed(indexMap, p, 1) /\ view' = Removed(view, p, 1)
    <3>1. p \in Nat /\ p < Len(indexMap)
      BY <1>4, <2>5
    <3> QED
      BY <1>4, <2>1, <2>5, <3>1, RemoveOne
  <2>6. CASE UNCHANGED <<indexMap, view>>
    BY <2>1, <2>6
  <2> QED
    BY <1>2, <2>4, <2>5, <2>6
<1>6. indexMap' \in Seq(SizeT)
  <2>1. CASE indexMap' = Inserted(indexMap, p, <<i>>)
    <3>1. i \in SizeT
      BY <1>4 DEF SizeT
    <3>2. <<i>> \in Seq(SizeT)
      BY <3>1
    <3> QED
      BY <1>4, <2>1, <3>2, InsertedFacts
  <2>2. CASE was /\ indexMap' = Removed(indexMap, p, 1)
    <3>1. p \in Nat /\ 1 \in Nat /\ p + 1 <= Len(indexMap)
      BY <1>4, <2>2
    <3> QED
      BY <1>4, <2>2, <3>1, RemovedFacts
  <2>3. CASE UNCHANGED indexMap
    BY <1>4, <2>3
  <2> QED
    BY <1>2, <2>1, <2>2, <2>3
<1> HIDE DEF was, now
<1>7. kind' \in [Items -> Kinds]
  BY <1>3, <1>4 DEF DataOK
<1>8. DataOK'
  BY <1>3, <1>6, <1>7 DEF DataOK
<1>9. CallOK' /\ MapOK'
  BY <1>3, <1>5 DEF CallOK, MapOK, Sound
<1>10. ScanOK'
  BY <1>3, NobodyScans DEF ScanOK
<1> QED
  BY <1>8, <1>9, <1>10

\* Every step preserves the second invariant, over the first.
LEMMA StepMirrors ==
  ASSUME IInv, MInv, [Next]_vars PROVE MInv'
<1>1. CASE Application
  <2>1. CASE \E s \in Sources : SetSource([present |-> TRUE, items |-> s])
    <3>1. PICK s \in Sources : SetSource([present |-> TRUE, items |-> s])
      BY <2>1
    <3>2. PICK to : to = [present |-> TRUE, items |-> s]
      OBVIOUS
    <3>3. to.present \in BOOLEAN /\ to.items \in Seq(Items) /\ Len(to.items) <= MaxLen
      BY <3>2, SourcesAssumption
    <3>4. SetSource(to)
      BY <3>1, <3>2
    <3> QED
      BY <3>3, <3>4, MapHalts
  <2>2. CASE SetSource([present |-> FALSE, items |-> <<>>])
    <3>1. PICK to : to = [present |-> FALSE, items |-> <<>>]
      OBVIOUS
    <3>2. to.present \in BOOLEAN /\ to.items \in Seq(Items) /\ Len(to.items) <= MaxLen
      BY <3>1, FilteredAssumption
    <3>3. SetSource(to)
      BY <2>2, <3>1
    <3> QED
      BY <3>2, <3>3, MapHalts
  <2> QED
    BY <1>1, <2>1, <2>2, MapRefreshing, MapDisconnects, MapAnnounces, MapRemoves DEF Application
<1>2. CASE Continue
  BY <1>2, MapRefreshing, MapHalts, MapDisconnects, MapReplaces, MapInserted, MapRemoved,
     MapItemChanged DEF Continue
<1>3. ASSUME NEW t \in Threads, remapIndices(t) PROVE MInv'
  BY <1>3, MapQuiet, MapStartScan, MapScanItem, MapFinishScan DEF remapIndices
<1>4. CASE UNCHANGED vars
  <2>1. UNCHANGED <<connected, source, kind, filter, indexMap, eventControl, remapping, stop,
                    lastUpdate, pc, scan, call, view, busy, shifted>>
    BY <1>4 DEF vars
  <2>2. DataOK' /\ CallOK' /\ MapOK'
    BY <2>1 DEF MInv, DataOK, CallOK, MapOK, Sound
  <2>3. ScanOK'
    BY <2>1 DEF MInv, ScanOK, Sound
  <2> QED
    BY <2>2, <2>3 DEF MInv
<1> QED
  BY <1>1, <1>2, <1>3, <1>4 DEF Next

\* Between the two signals of a removal the map is already that of what will be left; at
\* every other moment the map, ascending and in range, mirrors the source in the view,
\* wherever a scan is and however it was stopped or overtaken, until a removal of hidden
\* items lowers entries of items that stay; a new source makes good for that.
THEOREM MapInvariance == Spec => [](IInv /\ MInv)
<1> DEFINE Both == IInv /\ MInv
<1>1. Init => Both
  BY InitEstablishes, InitMirrors
<1>2. Both /\ [Next]_vars => Both'
  BY StepPreserves, StepMirrors
<1> HIDE DEF Both
<1>3. Spec => []Both
  BY <1>1, <1>2, PTL DEF Spec
<1> QED
  BY <1>3 DEF Both

\* The type of the state, in every case: a place a scan or a handler uses is inside the
\* map, so every entry is one size_t can hold, also those that are lowered below zero.
THEOREM TypeCorrect == Spec => []TypeOK
<1>1. IInv /\ MInv => TypeOK
  BY DEF TypeOK, IInv, Shape, MInv, DataOK, SizeT
<1> QED
  BY <1>1, MapInvariance, PTL

\* Between two changes of the source the map is ascending and points into it, so what
\* item and index read is there and std::lower_bound may be used.
THEOREM MapPoints == Spec => []MapPointsIntoSource
<1>1. IInv /\ MInv => MapPointsIntoSource
  <2> SUFFICES ASSUME MInv, AtRest, ~shifted PROVE
        /\ \A k \in 1..Len(indexMap) : indexMap[k] < Len(source)
        /\ \A j, k \in 1..Len(indexMap) : j < k => indexMap[j] < indexMap[k]
    BY DEF MapPointsIntoSource
  <2>1. source \in Seq(Items) /\ Mirrors(source, indexMap, view)
    BY DEF MInv, MapOK, DataOK, AtRest, Sound
  <2>2. \A k \in 1..Len(indexMap) : indexMap[k] \in 0..(Len(source) - 1)
    BY <2>1, MirrorFacts
  <2>3. Len(source) \in Nat
    BY <2>1, LenProperties
  <2>4. \A k \in 1..Len(indexMap) : indexMap[k] < Len(source)
    BY ONLY <2>2, <2>3
  <2>5. \A j, k \in 1..Len(indexMap) : j < k => indexMap[j] < indexMap[k]
    BY <2>1 DEF Mirrors, Rising
  <2> QED
    BY <2>4, <2>5
<1> QED
  BY <1>1, MapInvariance, PTL

\* A view that applies every signal shows what item and size return: each signal
\* names the range that changed, for scans, insertions, removals and changed data.
THEOREM ViewMirrors == Spec => []ViewMirrorsModel
<1>1. IInv /\ MInv => ViewMirrorsModel
  <2> SUFFICES ASSUME MInv, AtRest, ~shifted PROVE view = ItemsAt(source, indexMap)
    BY DEF ViewMirrorsModel
  <2>1. source \in Seq(Items) /\ Mirrors(source, indexMap, view)
    BY DEF MInv, MapOK, DataOK, AtRest, Sound
  <2> QED
    BY <2>1, MirrorFacts
<1> QED
  BY <1>1, MapInvariance, PTL

\* While the source is there a scan reads the list it has counted, and has its place in
\* the map, whatever the handlers of the source's signals want to do meanwhile.
THEOREM ScansKeepPlace == Spec => []ScanKeepsPlace
<1>1. IInv /\ MInv => ScanKeepsPlace
  <2> SUFFICES ASSUME MInv, NEW t \in Threads, pc[t] = "scan", connected
               PROVE  /\ scan[t].count = Len(source) /\ scan[t].i < scan[t].count
                      /\ ~shifted => scan[t].index \in LowerBounds(indexMap, scan[t].i)
    BY DEF ScanKeepsPlace
  <2>1. scan[t].count = Len(source) /\ scan[t].i < scan[t].count
    BY DEF MInv, ScanOK
  <2>2. ASSUME ~shifted PROVE scan[t].index \in LowerBounds(indexMap, scan[t].i)
    <3>1. PICK n \in Nat, p \in Nat, x \in Int :
            p <= n /\ n = Len(indexMap) /\ p = scan[t].index /\ x = scan[t].i
      <4>1. Len(indexMap) \in Nat /\ scan[t].index \in 0..Len(indexMap) /\ scan[t].i \in Int
        BY LenProperties DEF MInv, DataOK, ScanOK
      <4> QED
        BY <4>1
    <3>2. \A k \in 1..n : indexMap[k] \in Int /\ (indexMap[k] < x <=> k <= p)
      <4>1. CutAt(indexMap, n, x, p)
        BY <2>2, <3>1 DEF MInv, ScanOK, Sound
      <4>2. \A k \in 1..n : indexMap[k] \in Int
        BY <3>1, ElementOfSeq DEF MInv, DataOK, SizeT
      <4> QED
        BY <4>1, <4>2 DEF CutAt
    <3>3. p = 0 \/ indexMap[p] < x
      BY <3>1, <3>2
    <3>4. p = n \/ indexMap[p + 1] >= x
      <4> SUFFICES ASSUME p # n PROVE indexMap[p + 1] >= x
        OBVIOUS
      <4>1. p + 1 \in 1..n /\ ~(p + 1 <= p)
        BY <3>1
      <4> QED
        BY <3>2, <4>1
    <3> QED
      BY <3>1, <3>3, <3>4 DEF LowerBounds
  <2> QED
    BY <2>1, <2>2
<1> QED
  BY <1>1, MapInvariance, PTL

-----------------------------------------------------------------------------
(* The list implements the promise of FilteredView.                         *)

Different(s) == \A j, k \in 1..Len(s) : s[j] = s[k] => j = k
Contents(s) == Promise!Contents(s)

\* What the abstract steps need of the source: its items are different from one
\* another, and from those that are announced; and which items of the view go with
\* the range of the source that goes.
GoingOK ==
  /\ lastUpdate.index + lastUpdate.count <= Len(view)
  /\ \A k \in 1..Len(view) : view[k] \in Contents(Removed(source, call.index, call.count))
       <=> (k <= lastUpdate.index \/ lastUpdate.index + lastUpdate.count < k)
SourceOK ==
  /\ Different(source)
  /\ call.op \in {"halt", "drop", "replace"} => Different(call.to.items)
  /\ call.op = "replace" => ~connected
  /\ call.op = "insert" =>
       /\ Different(call.new) /\ Len(call.new) > 0
       /\ \A j \in 1..Len(source), k \in 1..Len(call.new) : source[j] # call.new[k]
  /\ call.op = "remove" => call.count > 0 /\ (Sound => GoingOK)

\* Items that are different from one another, and from those there are, are put in.
LEMMA InsertedDifferent ==
  ASSUME NEW s \in Seq(Items), NEW new \in Seq(Items), NEW p \in 0..Len(s),
         Different(s), Different(new),
         \A j \in 1..Len(s), k \in 1..Len(new) : s[j] # new[k]
  PROVE  Different(Inserted(s, p, new))
<1>1. PICK n \in Nat, c \in Nat : n = Len(s) /\ c = Len(new)
  BY LenProperties
<1>2. PICK r : r = Inserted(s, p, new)
  OBVIOUS
<1>3. Len(r) = n + c /\ PutAllIn(r, s, n, p, new, c)
  <2>1. Insertion(r, s, p, new)
    BY <1>2, InsertedFacts
  <2> QED
    BY <1>1, <2>1 DEF Insertion, PutAllIn
<1>4. p \in 0..n
  BY <1>1
<1>5. ASSUME NEW k \in 1..(n + c)
      PROVE  \/ k <= p /\ k \in 1..n /\ r[k] = s[k]
             \/ p < k /\ k <= p + c /\ k - p \in 1..c /\ r[k] = new[k - p]
             \/ p + c < k /\ k - c \in 1..n /\ r[k] = s[k - c]
  BY <1>3, <1>4 DEF PutAllIn
<1>6. ASSUME NEW j \in 1..(n + c), NEW k \in 1..(n + c), r[j] = r[k] PROVE j = k
  <2>1. /\ \A a, b \in 1..n : s[a] = s[b] => a = b
        /\ \A a, b \in 1..c : new[a] = new[b] => a = b
        /\ \A a \in 1..n, b \in 1..c : s[a] # new[b]
    BY <1>1 DEF Different
  <2>2. CASE k <= p /\ k \in 1..n /\ r[k] = s[k]
    BY <1>4, <1>5, <1>6, <2>1, <2>2
  <2>3. CASE p < k /\ k <= p + c /\ k - p \in 1..c /\ r[k] = new[k - p]
    <3>1. p < j /\ j <= p + c /\ j - p \in 1..c /\ r[j] = new[j - p]
      BY <1>5, <1>6, <2>1, <2>3
    <3>2. j - p = k - p
      BY <1>6, <2>1, <2>3, <3>1
    <3> QED
      BY <1>4, <3>2
  <2>4. CASE p + c < k /\ k - c \in 1..n /\ r[k] = s[k - c]
    <3>1. \/ j <= p /\ j \in 1..n /\ r[j] = s[j]
          \/ p + c < j /\ j - c \in 1..n /\ r[j] = s[j - c]
      BY <1>5, <1>6, <2>1, <2>4
    <3> QED
      BY <1>4, <1>6, <2>1, <2>4, <3>1
  <2> QED
    BY <1>5, <2>2, <2>3, <2>4
<1> QED
  BY <1>2, <1>3, <1>6 DEF Different

\* What is left when a range goes: every item that is not in it, and nothing twice.
LEMMA RemovedKeeps ==
  ASSUME NEW s \in Seq(Items), Different(s), NEW p \in Nat, NEW c \in Nat, p + c <= Len(s)
  PROVE  /\ Different(Removed(s, p, c))
         /\ \A x \in 1..Len(s) : s[x] \in Contents(Removed(s, p, c)) <=> (x <= p \/ p + c < x)
<1>1. PICK n \in Nat : n = Len(s)
  BY LenProperties
<1>2. PICK r : r = Removed(s, p, c)
  OBVIOUS
<1>3. Len(r) = n - c /\ TakenOut(r, s, n, p, c)
  <2>1. Removal(r, s, p, c)
    BY <1>2, RemovedFacts
  <2> QED
    BY <1>1, <2>1 DEF Removal, TakenOut
<1>4. ASSUME NEW k \in 1..(n - c)
      PROVE  \/ k <= p /\ k \in 1..n /\ r[k] = s[k]
             \/ p < k /\ k + c \in 1..n /\ r[k] = s[k + c]
  BY <1>1, <1>3 DEF TakenOut
<1>5. \A a, b \in 1..n : s[a] = s[b] => a = b
  BY <1>1 DEF Different
<1>6. Different(r)
  <2> SUFFICES ASSUME NEW j \in 1..(n - c), NEW k \in 1..(n - c), r[j] = r[k] PROVE j = k
    BY <1>3 DEF Different
  <2> QED
    BY <1>4, <1>5
<1>7. ASSUME NEW x \in 1..n PROVE s[x] \in Contents(r) <=> (x <= p \/ p + c < x)
  <2>1. s[x] \in Contents(r) <=> \E k \in 1..(n - c) : r[k] = s[x]
    BY <1>3 DEF Contents, Promise!Contents
  <2>2. ASSUME NEW k \in 1..(n - c), r[k] = s[x] PROVE x <= p \/ p + c < x
    <3>1. \/ k <= p /\ k \in 1..n /\ s[k] = s[x]
          \/ p < k /\ k + c \in 1..n /\ s[k + c] = s[x]
      BY <1>4, <2>2
    <3>2. (k <= p /\ k = x) \/ (p < k /\ k + c = x)
      BY <1>5, <3>1
    <3> QED
      BY <3>2
  <2>3. CASE x <= p
    <3>1. x \in 1..(n - c) /\ r[x] = s[x]
      BY <1>1, <1>3, <2>3 DEF TakenOut
    <3> QED
      BY <2>1, <2>3, <3>1
  <2>4. CASE p + c < x
    <3>1. PICK k \in 1..(n - c) : k + c = x /\ p < k
      <4>1. x - c \in 1..(n - c) /\ (x - c) + c = x /\ p < x - c
        BY <2>4
      <4> QED
        BY <4>1
    <3>2. r[k] = s[x]
      BY <1>3, <3>1 DEF TakenOut
    <3> QED
      BY <2>1, <2>4, <3>2
  <2> QED
    BY <2>1, <2>2, <2>3, <2>4
<1> QED
  BY <1>1, <1>2, <1>6, <1>7

\* The items a removal takes from the view are those it takes from the source.
LEMMA RangeGoes ==
  ASSUME NEW s \in Seq(Items), Different(s), NEW m, NEW v, Mirrors(s, m, v),
         NEW index \in Nat, NEW c \in Nat, index + c <= Len(s),
         NEW a \in 0..Len(m), CutAt(m, Len(m), index, a),
         NEW q \in 0..(Len(m) - a), CutAt(m, Len(m), index + c, a + q)
  PROVE  /\ a + q <= Len(v)
         /\ \A k \in 1..Len(v) :
              v[k] \in Contents(Removed(s, index, c)) <=> (k <= a \/ a + q < k)
<1>1. PICK n \in Nat, N \in Nat : n = Len(m) /\ N = Len(s)
  BY LenProperties DEF Mirrors
<1>2. /\ Ordered(m, n, N) /\ Shows(s, m, v, n)
      /\ m \in Seq(Int) /\ n = Len(v)
  BY <1>1, MirrorTerms
<1>3. /\ a \in 0..n /\ CutAt(m, n, index, a)
      /\ a + q \in 0..n /\ CutAt(m, n, index + c, a + q)
  BY <1>1
<1>4. ASSUME NEW k \in 1..n
      PROVE  v[k] \in Contents(Removed(s, index, c)) <=> (k <= a \/ a + q < k)
  <2>1. m[k] \in 0..(N - 1) /\ m[k] + 1 \in 1..N /\ v[k] = s[m[k] + 1]
    <3>1. m[k] \in 0..(N - 1)
      BY <1>2 DEF Ordered
    <3>2. m[k] + 1 \in 1..N
      BY ONLY <3>1, N \in Nat
    <3>3. v[k] = s[m[k] + 1]
      BY <1>2 DEF Shows
    <3> QED
      BY <3>1, <3>2, <3>3
  <2>2. s[m[k] + 1] \in Contents(Removed(s, index, c)) <=> (m[k] + 1 <= index \/ index + c < m[k] + 1)
    <3>1. \A x \in 1..N : s[x] \in Contents(Removed(s, index, c)) <=> (x <= index \/ index + c < x)
      BY <1>1, RemovedKeeps
    <3> QED
      BY ONLY <2>1, <3>1
  <2>3. m[k] + 1 <= index <=> k <= a
    <3>1. m[k] < index <=> k <= a
      BY <1>3 DEF CutAt
    <3>2. m[k] \in Int
      BY <2>1
    <3> QED
      BY ONLY <3>1, <3>2, index \in Nat
  <2>4. index + c < m[k] + 1 <=> a + q < k
    <3>1. m[k] < index + c <=> k <= a + q
      BY <1>3 DEF CutAt
    <3>2. m[k] \in Int /\ k \in Int /\ a + q \in Int /\ index + c \in Int
      BY <1>3, <2>1
    <3> QED
      BY ONLY <3>1, <3>2
  <2> QED
    BY <2>1, <2>2, <2>3, <2>4
<1> QED
  BY <1>2, <1>3, <1>4

\* The threads leave the source and the operation of Main alone, and while a removal
\* is announced the view as well.
LEMMA ThreadsKeepSource ==
  ASSUME IInv, SourceOK, NEW t \in Threads, remapIndices(t) PROVE SourceOK'
<1>1. UNCHANGED <<connected, source, call, lastUpdate, shifted>>
  BY DEF remapIndices, CountUp, FilteringBegin, StartScan, ScanItem, FinishScan, FilteringGoesOn,
         FilteringEnds, FilteringEnd, modelVars, mapVars
<1>2. view' = view \/ pc[t] = "scan"
  BY DEF remapIndices, CountUp, FilteringBegin, StartScan, ScanItem, FinishScan, FilteringGoesOn,
         FilteringEnds, FilteringEnd, mapVars
<1>3. pc[t] = "scan" => call.op # "remove"
  <2> SUFFICES ASSUME pc[t] = "scan", call.op \in Changing PROVE FALSE
    OBVIOUS
  <2>1. eventControl = t /\ eventControl = Main
    BY DEF IInv, MutexOwned
  <2> QED
    BY <2>1 DEF IInv, Shape, Running
<1>4. call.op = "remove" /\ Sound' => GoingOK'
  BY <1>1, <1>2, <1>3 DEF SourceOK, GoingOK, Sound
<1> QED
  BY <1>1, <1>4 DEF SourceOK

\* The steps of Main that keep the source, and announce no change of it.
LEMMA RefreshKeepsSource ==
  ASSUME SourceOK, UNCHANGED source,
         call.op \in {"idle", "refresh"}, call'.op \in {"idle", "refresh", "change"}
  PROVE  SourceOK'
BY DEF SourceOK

\* setSource, from the call to the new source.
LEMMA NewSourceOK ==
  ASSUME SourceOK, IInv,
         \/ \E s \in Sources : SetSource([present |-> TRUE, items |-> s])
         \/ SetSource([present |-> FALSE, items |-> <<>>])
         \/ RemappingHalted \/ Disconnect \/ ReplaceSource \/ SourceDestroyed
  PROVE  SourceOK'
<1>1. Different(<<>>)
  BY DEF Different
<1>2. CASE \E s \in Sources : SetSource([present |-> TRUE, items |-> s])
  <2>1. PICK s \in Sources : SetSource([present |-> TRUE, items |-> s])
    BY <1>2
  <2>2. Different(s)
    <3>1. s \in Seq(Items) /\ IsInjective(s)
      BY SourcesAssumption
    <3>2. DOMAIN s = 1..Len(s)
      BY <3>1, LenProperties
    <3> QED
      BY <3>1, <3>2 DEF Different, IsInjective
  <2>3. /\ source' = source /\ call'.op = "halt" /\ call'.to.items = s
    BY <2>1 DEF SetSource, Begins, modelVars
  <2> QED
    BY <2>2, <2>3 DEF SourceOK
<1>3. CASE SetSource([present |-> FALSE, items |-> <<>>])
  <2>1. /\ source' = source /\ call'.op = "halt" /\ call'.to.items = <<>>
    BY <1>3 DEF SetSource, Begins, modelVars
  <2> QED
    BY <1>1, <2>1 DEF SourceOK
<1>4. CASE Disconnect
  <2>1. /\ source' = <<>> /\ ~connected' /\ call'.op = "replace" /\ call'.to = call.to
        /\ call.op = "drop"
    BY <1>4 DEF Disconnect, IInv, Shape
  <2> QED
    BY <1>1, <2>1 DEF SourceOK
<1>5. CASE ReplaceSource
  <2>1. source' = call.to.items /\ call.op = "replace" /\ call'.op = "idle"
    BY <1>5 DEF ReplaceSource, Done
  <2> QED
    BY <2>1 DEF SourceOK
<1>6. CASE SourceDestroyed
  <2>1. source' = <<>> /\ call'.op = "idle"
    BY <1>6 DEF SourceDestroyed, Begins
  <2> QED
    BY <1>1, <2>1 DEF SourceOK
<1>7. CASE RemappingHalted
  <2>1. UNCHANGED <<connected, source>> /\ call'.op = "drop" /\ call'.to = call.to /\ call.op = "halt"
    BY <1>7 DEF RemappingHalted, modelVars, IInv, Shape
  <2> QED
    BY <2>1 DEF SourceOK
<1> QED
  BY <1>2, <1>3, <1>4, <1>5, <1>6, <1>7

\* The new items are none of those that are there.
LEMMA NewItemsOK ==
  ASSUME SourceOK, NEW index \in 0..MaxLen, NEW new \in NewItems, preItemsInserted(index, new)
  PROVE  SourceOK'
<1>1. source' = source /\ call'.op = "insert" /\ call'.new = new
  BY DEF preItemsInserted, TakeEventControl, Begins, modelVars
<1>2. PICK n \in 1..2 : new \in [1..n -> Items]
  BY DEF NewItems
<1>3. Len(new) = n /\ DOMAIN new = 1..n
  <2>1. n \in Nat
    BY <1>2
  <2>2. new \in Seq(Items)
    BY <1>2, <2>1, SeqDef
  <2> QED
    BY <1>2, <2>1, <2>2, LenProperties
<1>4. /\ Different(new) /\ Len(new) > 0
      /\ \A j \in 1..Len(source), k \in 1..Len(new) : source[j] # new[k]
  BY <1>2, <1>3 DEF NewItems, Different, IsInjective
<1> QED
  BY <1>1, <1>4 DEF SourceOK

\* The view knows the range that goes.
LEMMA GoingItemsOK ==
  ASSUME MInv, SourceOK,
         NEW index \in 0..MaxLen, NEW count \in 1..MaxLen, preItemsRemoved(index, count)
  PROVE  SourceOK'
<1>0. PICK from \in LowerBounds(indexMap, index) :
        /\ lastUpdate' = findItemsToRemove(from, index + count - 1)
        /\ shifted' = (shifted \/ findItemsToRemove(from, index + count - 1).index < from)
  BY DEF preItemsRemoved
<1>1. PICK update :
        /\ from \in LowerBounds(indexMap, index)
        /\ update = findItemsToRemove(from, index + count - 1)
        /\ lastUpdate' = update /\ shifted' = (shifted \/ update.index < from)
  BY <1>0
<1>2. /\ UNCHANGED <<connected, source, view>> /\ connected /\ call = Idle
      /\ call' = [op |-> "remove", index |-> index, count |-> count]
      /\ index + count <= Len(source)
  BY DEF preItemsRemoved, TakeEventControl, Begins, modelVars
<1>3. index \in Nat /\ count \in Nat /\ count > 0
  OBVIOUS
<1>4. ASSUME Sound' PROVE GoingOK'
  <2>1. Sound /\ ~(update.index < from)
    BY <1>1, <1>2, <1>4 DEF Sound
  <2>2. /\ source \in Seq(Items) /\ Different(source)
        /\ Mirrors(source, indexMap, view) /\ lastUpdate = NoUpdate
    BY <1>2, <2>1 DEF MInv, DataOK, MapOK, SourceOK
  <2>3. indexMap \in Seq(Int) /\ Rising(indexMap)
    BY <2>2, MirrorFacts DEF Mirrors
  <2>4. /\ update.index \in 0..Len(indexMap) /\ CutAt(indexMap, Len(indexMap), index, update.index)
        /\ update.count \in 0..(Len(indexMap) - update.index)
        /\ CutAt(indexMap, Len(indexMap), index + count, update.index + update.count)
    BY <1>1, <1>3, <2>1, <2>2, <2>3, FoundRange
  <2>5. /\ update.index + update.count <= Len(view)
        /\ \A k \in 1..Len(view) : view[k] \in Contents(Removed(source, index, count))
             <=> (k <= update.index \/ update.index + update.count < k)
    BY ONLY <1>2, <1>3, <2>2, <2>4, RangeGoes
  <2> QED
    BY <1>1, <1>2, <2>5 DEF GoingOK
<1> QED
  BY <1>2, <1>3, <1>4 DEF SourceOK

\* The change is made.
LEMMA ChangedOK ==
  ASSUME MInv, SourceOK, postItemsInserted \/ postItemsRemoved \/ postItemDataChanged
  PROVE  SourceOK'
<1>1. call'.op = "idle"
  BY DEF postItemsInserted, postItemsRemoved, postItemDataChanged, Done
<1>2. source \in Seq(Items)
  BY DEF MInv, DataOK
<1>3. Different(source')
  <2>1. CASE postItemsInserted
    <3>1. call.op = "insert" /\ source' = Inserted(source, call.index, call.new)
      BY <2>1 DEF postItemsInserted
    <3> QED
      BY <1>2, <3>1, InsertedDifferent DEF SourceOK, MInv, CallOK
  <2>2. CASE postItemsRemoved
    <3>1. call.op = "remove" /\ source' = Removed(source, call.index, call.count)
      BY <2>2 DEF postItemsRemoved
    <3> QED
      BY <1>2, <3>1, RemovedKeeps DEF SourceOK, MInv, CallOK
  <2>3. CASE postItemDataChanged
    BY <2>3 DEF postItemDataChanged, SourceOK
  <2> QED
    BY <2>1, <2>2, <2>3
<1> QED
  BY <1>1, <1>3 DEF SourceOK

\* Every step preserves what the refinement needs of the source.
LEMMA StepKeepsSource ==
  ASSUME IInv, MInv, SourceOK, [Next]_vars PROVE SourceOK'
<1>1. CASE Application
  <2>1. CASE \/ \E f \in Filters : SetFilter(f) \/ FilterChanged(f)
             \/ \E w \in BOOLEAN : Refresh(w)
    <3>1. UNCHANGED source /\ call.op = "idle" /\ call'.op = "refresh"
      BY <2>1 DEF SetFilter, FilterChanged, Refresh, Begins, modelVars
    <3> QED
      BY <3>1, RefreshKeepsSource
  <2>2. CASE \E k \in 1..MaxLen, data \in Kinds : preItemDataChanged(k, data)
    <3>1. UNCHANGED source /\ call.op = "idle" /\ call'.op = "change"
      BY <2>2 DEF preItemDataChanged, TakeEventControl, Begins, modelVars
    <3> QED
      BY <3>1, RefreshKeepsSource
  <2> QED
    BY <1>1, <2>1, <2>2, NewSourceOK, NewItemsOK, GoingItemsOK DEF Application
<1>2. CASE Continue
  <2>1. CASE RefreshReturns \/ RefreshInPlace \/ RefreshDetached
    <3>1. UNCHANGED source /\ call.op = "refresh" /\ call'.op = "idle"
      BY <2>1 DEF RefreshReturns, RefreshInPlace, RefreshDetached, Done, modelVars
    <3> QED
      BY <3>1, RefreshKeepsSource
  <2> QED
    BY <1>2, <2>1, NewSourceOK, ChangedOK DEF Continue
<1>3. ASSUME NEW t \in Threads, remapIndices(t) PROVE SourceOK'
  BY <1>3, ThreadsKeepSource
<1>4. CASE UNCHANGED vars
  <2>1. UNCHANGED <<connected, shifted, source, call, view, lastUpdate>>
    BY <1>4 DEF vars
  <2>2. Sound' = Sound /\ GoingOK' = GoingOK
    BY <2>1 DEF Sound, GoingOK
  <2> QED
    BY <2>1, <2>2 DEF SourceOK
<1> QED
  BY <1>1, <1>2, <1>3, <1>4 DEF Next

\* A view that mirrors the source is what the entries of the map select.
LEMMA MapSelects ==
  ASSUME NEW s \in Seq(Items), NEW m, NEW v, Mirrors(s, m, v),
         NEW S, \A i \in 1..Len(s) : s[i] \in S <=> Points(m, i - 1)
  PROVE  Promise!Selects(v, s, S)
<1>1. PICK n \in Nat, N \in Nat : n = Len(m) /\ N = Len(s)
  BY LenProperties DEF Mirrors
<1>2. /\ Ordered(m, n, N) /\ Shows(s, m, v, n) /\ v \in [1..n -> Items] /\ n = Len(v)
  BY <1>1, MirrorTerms, LenProperties DEF Mirrors
<1> DEFINE at == [k \in 1..n |-> m[k] + 1]
<1>3. at \in [1..n -> 1..N] /\ \A k \in 1..n : at[k] = m[k] + 1
  <2>1. \A k \in 1..n : m[k] + 1 \in 1..N
    BY <1>2 DEF Ordered
  <2> QED
    BY <2>1
<1>4. \A j, k \in 1..n : j < k => at[j] < at[k]
  <2>1. \A k \in 1..n : m[k] \in Int
    BY <1>2 DEF Ordered
  <2>2. \A j, k \in 1..n : j < k => m[j] < m[k]
    BY <1>2 DEF Ordered
  <2> QED
    BY <1>3, <2>1, <2>2
<1> HIDE DEF at
<1>5. v = [k \in 1..n |-> s[at[k]]]
  BY <1>2, <1>3 DEF Shows
<1>6. \A i \in 1..N : s[i] \in S <=> \E k \in 1..n : at[k] = i
  <2> TAKE i \in 1..N
  <2>1. s[i] \in S <=> \E k \in 1..n : m[k] = i - 1
    BY <1>1 DEF Points
  <2>2. \A k \in 1..n : at[k] = i <=> m[k] = i - 1
    BY <1>2, <1>3 DEF Ordered
  <2> QED
    BY <2>1, <2>2
<1> QED
  BY <1>1, <1>2, <1>3, <1>4, <1>5, <1>6 DEF Promise!Selects

\* The view contains an item exactly if the map has an entry for it.
LEMMA ShownPoints ==
  ASSUME NEW s \in Seq(Items), Different(s), NEW m, NEW v, Mirrors(s, m, v), NEW i \in 1..Len(s)
  PROVE  s[i] \in Contents(v) <=> Points(m, i - 1)
<1>1. PICK n \in Nat, N \in Nat : n = Len(m) /\ N = Len(s)
  BY LenProperties DEF Mirrors
<1>2. Ordered(m, n, N) /\ Shows(s, m, v, n) /\ n = Len(v)
  BY <1>1, MirrorTerms DEF Mirrors
<1>3. ASSUME NEW k \in 1..n PROVE v[k] = s[i] <=> m[k] = i - 1
  <2>1. m[k] + 1 \in 1..N /\ m[k] \in Int /\ v[k] = s[m[k] + 1] /\ i \in 1..N
    BY <1>1, <1>2 DEF Ordered, Shows
  <2>2. s[m[k] + 1] = s[i] <=> m[k] + 1 = i
    BY <1>1, <2>1 DEF Different
  <2> QED
    BY <2>1, <2>2
<1> QED
  BY <1>1, <1>2, <1>3 DEF Contents, Promise!Contents, Points

\* Which entries the map has after each of its changes.
LEMMA PointsInserted ==
  ASSUME NEW m \in Seq(Int), NEW new \in Seq(Int), NEW p \in 0..Len(m), NEW i
  PROVE  Points(Inserted(m, p, new), i) <=> Points(m, i) \/ Points(new, i)
<1>1. PICK n \in Nat, c \in Nat : n = Len(m) /\ c = Len(new)
  BY LenProperties
<1>2. PICK r : r = Inserted(m, p, new)
  OBVIOUS
<1>3. Len(r) = n + c /\ PutAllIn(r, m, n, p, new, c)
  <2>1. Insertion(r, m, p, new)
    BY <1>2, InsertedFacts
  <2> QED
    BY <1>1, <2>1 DEF Insertion, PutAllIn
<1>4. p \in 0..n
  BY <1>1
<1>5. ASSUME NEW k \in 1..(n + c), r[k] = i PROVE Points(m, i) \/ Points(new, i)
  <2>1. \/ k \in 1..n /\ r[k] = m[k]
        \/ k - p \in 1..c /\ r[k] = new[k - p]
        \/ k - c \in 1..n /\ r[k] = m[k - c]
    BY <1>3, <1>4 DEF PutAllIn
  <2> QED
    BY <1>1, <1>5, <2>1 DEF Points
<1>6. ASSUME NEW k \in 1..n, m[k] = i PROVE Points(r, i)
  <2>1. PICK j \in 1..(n + c) : (k <= p /\ j = k) \/ (p < k /\ j = k + c)
    <3>1. k \in 1..(n + c) /\ k + c \in 1..(n + c) /\ (k <= p \/ p < k)
      BY <1>4
    <3> QED
      BY <3>1
  <2>2. r[j] = m[k]
    <3>1. CASE k <= p /\ j = k
      BY <1>3, <3>1 DEF PutAllIn
    <3>2. CASE p < k /\ j = k + c
      <4>1. p + c < j /\ j - c = k
        BY <1>4, <3>2
      <4> QED
        BY <1>3, <4>1 DEF PutAllIn
    <3> QED
      BY <2>1, <3>1, <3>2
  <2> QED
    BY <1>3, <1>6, <2>2 DEF Points
<1>7. ASSUME NEW k \in 1..c, new[k] = i PROVE Points(r, i)
  <2>1. PICK j \in 1..(n + c) : j = p + k
    BY <1>4
  <2>2. r[j] = new[j - p] /\ j - p = k
    BY <1>3, <1>4, <2>1 DEF PutAllIn
  <2> QED
    BY <1>3, <1>7, <2>2 DEF Points
<1> QED
  BY <1>1, <1>2, <1>3, <1>5, <1>6, <1>7 DEF Points

LEMMA PointsRemoved ==
  ASSUME NEW m \in Seq(Int), Rising(m), NEW p \in Nat, p < Len(m), NEW i
  PROVE  Points(Removed(m, p, 1), i) <=> Points(m, i) /\ i # m[p + 1]
<1>1. PICK n \in Nat : n = Len(m)
  BY LenProperties
<1>2. PICK r : r = Removed(m, p, 1)
  OBVIOUS
<1>3. /\ Len(r) = n - 1
      /\ \A k \in 1..(n - 1) : (k <= p => r[k] = m[k]) /\ (p < k => r[k] = m[k + 1])
  <2>1. Removal(r, m, p, 1)
    <3>1. 1 \in Nat /\ p + 1 <= Len(m)
      BY <1>1
    <3> QED
      BY <1>2, <3>1, RemovedFacts
  <2> QED
    BY <1>1, <2>1 DEF Removal
<1>4. /\ \A k \in 1..n : m[k] \in Int
      /\ \A j, k \in 1..n : j < k => m[j] < m[k]
  BY <1>1, ElementOfSeq DEF Rising
<1>5. ASSUME NEW j \in 1..n, NEW k \in 1..n, m[j] = m[k] PROVE j = k
  <2>1. j < k \/ k < j \/ j = k
    OBVIOUS
  <2> QED
    BY <1>4, <1>5, <2>1
<1>6. p + 1 \in 1..n
  BY <1>1
<1>7. ASSUME NEW k \in 1..(n - 1), r[k] = i PROVE Points(m, i) /\ i # m[p + 1]
  <2>1. PICK j \in 1..n : r[k] = m[j] /\ j # p + 1
    <3>1. k \in 1..n /\ k + 1 \in 1..n
      OBVIOUS
    <3>2. (r[k] = m[k] /\ k # p + 1) \/ (r[k] = m[k + 1] /\ k + 1 # p + 1)
      BY <1>3
    <3> QED
      BY <3>1, <3>2
  <2> QED
    BY <1>1, <1>5, <1>6, <1>7, <2>1 DEF Points
<1>8. ASSUME NEW k \in 1..n, m[k] = i, i # m[p + 1] PROVE Points(r, i)
  <2>1. PICK j \in 1..(n - 1) : (j <= p /\ j = k) \/ (p < j /\ j + 1 = k)
    <3>1. CASE k <= p
      <4>1. k \in 1..(n - 1)
        BY <1>6, <3>1
      <4> QED
        BY <3>1, <4>1
    <3>2. CASE p < k
      <4>1. k # p + 1
        BY <1>8
      <4>2. k - 1 \in 1..(n - 1) /\ p < k - 1 /\ (k - 1) + 1 = k
        BY <3>2, <4>1
      <4> QED
        BY <4>2
    <3> QED
      BY <3>1, <3>2
  <2>2. r[j] = m[k]
    BY <1>3, <2>1
  <2> QED
    BY <1>3, <1>8, <2>2 DEF Points
<1> QED
  BY <1>1, <1>2, <1>3, <1>7, <1>8 DEF Points

LEMMA PointsShifted ==
  ASSUME NEW N \in Nat, NEW m \in Seq(Int), \A k \in 1..Len(m) : m[k] \in 0..(N - 1),
         NEW index \in Int, NEW c \in Nat, N + c < SizeModulus,
         NEW p \in 0..Len(m), CutAt(m, Len(m), index, p), NEW i \in Int
  PROVE  /\ ShiftUp(m, p, c) \in Seq(Int) /\ Len(ShiftUp(m, p, c)) = Len(m)
         /\ Points(ShiftUp(m, p, c), i)
              <=> (i < index /\ Points(m, i)) \/ (index + c <= i /\ Points(m, i - c))
<1>1. PICK n \in Nat : n = Len(m)
  BY LenProperties
<1>2. PICK r : r = ShiftUp(m, p, c)
  OBVIOUS
<1>3. \A k \in 1..n : m[k] \in Int /\ (m[k] + c) % SizeModulus = m[k] + c /\ (m[k] < index <=> k <= p)
  <2> TAKE k \in 1..n
  <2>1. m[k] \in 0..(N - 1) /\ (m[k] < index <=> k <= p)
    BY <1>1 DEF CutAt
  <2>2. (m[k] + c) % SizeModulus = m[k] + c
    BY <2>1, FitsSize
  <2> QED
    BY <2>1, <2>2
<1>4. /\ r \in Seq(Int) /\ Len(r) = n
      /\ \A k \in 1..n : r[k] = IF k <= p THEN m[k] ELSE m[k] + c
  <2>1. r = [k \in 1..n |-> IF k > p THEN (m[k] + c) % SizeModulus ELSE m[k]]
    BY <1>1, <1>2 DEF ShiftUp
  <2>2. \A k \in 1..n : r[k] = IF k <= p THEN m[k] ELSE m[k] + c
    <3> TAKE k \in 1..n
    <3>1. k > p <=> ~(k <= p)
      BY <1>1
    <3>2. r[k] = IF k > p THEN (m[k] + c) % SizeModulus ELSE m[k]
      BY <2>1
    <3> QED
      BY <1>3, <3>1, <3>2
  <2>3. \A k \in 1..n : (IF k <= p THEN m[k] ELSE m[k] + c) \in Int
    BY <1>3
  <2>4. r \in [1..n -> Int]
    BY <2>1, <2>2, <2>3
  <2>5. r \in Seq(Int) /\ Len(r) = n
    BY <2>4, LenProperties, SeqDef
  <2> QED
    BY <2>2, <2>5
<1>5. ASSUME NEW k \in 1..n
      PROVE  r[k] = i <=> (i < index /\ m[k] = i) \/ (index + c <= i /\ m[k] = i - c)
  <2>1. PICK x, y : x \in Int /\ x = m[k] /\ y = r[k] /\ y = IF x < index THEN x ELSE x + c
    BY <1>3, <1>4
  <2>2. y = i <=> (i < index /\ x = i) \/ (index + c <= i /\ x = i - c)
    <3>1. CASE x < index
      BY <2>1, <3>1
    <3>2. CASE ~(x < index)
      <4>1. y = x + c /\ x \in Int /\ index <= x
        BY <2>1, <3>2
      <4> QED
        BY ONLY <4>1, index \in Int, c \in Nat, i \in Int
    <3> QED
      BY <3>1, <3>2
  <2> QED
    BY <2>1, <2>2
<1> QED
  BY <1>1, <1>2, <1>4, <1>5 DEF Points

LEMMA PointsAscending ==
  ASSUME NEW lo \in Int, NEW hi \in Int, NEW S, S \in SUBSET (lo..hi), NEW i
  PROVE  Points(Ascending(S), i) <=> i \in S
<1>1. PICK m : m = Ascending(S)
  OBVIOUS
<1>2. m \in Seq(S) /\ \A x \in S : Points(m, x)
  BY <1>1, AscendingFacts
<1>3. \A k \in 1..Len(m) : m[k] \in S
  BY <1>2, ElementOfSeq
<1> QED
  BY <1>1, <1>2, <1>3 DEF Points

LEMMA CutPoints ==
  ASSUME NEW m \in Seq(Int), Rising(m), NEW i \in Int, NEW p \in 0..Len(m), CutAt(m, Len(m), i, p)
  PROVE  Points(m, i) <=> p < Len(m) /\ m[p + 1] = i
<1>1. PICK n \in Nat : n = Len(m)
  BY LenProperties
<1>2. \A k \in 1..n : m[k] \in Int /\ (m[k] < i <=> k <= p)
  BY <1>1, ElementOfSeq DEF CutAt
<1>3. ASSUME NEW k \in 1..n, m[k] = i PROVE p < n /\ m[p + 1] = i
  <2>1. ~(k <= p) /\ p \in 0..n
    BY <1>1, <1>2, <1>3
  <2>2. p + 1 \in 1..n /\ (k = p + 1 \/ p + 1 < k)
    BY <2>1
  <2>3. p + 1 < k => m[p + 1] < i
    BY <1>1, <1>3, <2>2 DEF Rising
  <2>4. ~(m[p + 1] < i)
    BY <1>2, <2>1, <2>2
  <2> QED
    BY <1>3, <2>1, <2>2, <2>3, <2>4
<1>4. p < n => p + 1 \in 1..n
  BY <1>1
<1> QED
  BY <1>1, <1>3, <1>4 DEF Points

\* The map gets, or loses, the entry of one item.
LEMMA OneOn ==
  ASSUME NEW s \in Seq(Items), Different(s), NEW m, NEW v, Mirrors(s, m, v),
         NEW r, NEW w, Mirrors(s, r, w), NEW i \in 0..(Len(s) - 1),
         \A j \in Int : Points(r, j) <=> Points(m, j) \/ j = i
  PROVE  Promise!Selects(w, s, Contents(v) \cup {s[i + 1]})
<1>1. PICK N \in Nat : N = Len(s)
  BY LenProperties
<1>2. ASSUME NEW k \in 1..N
      PROVE  s[k] \in Contents(v) \cup {s[i + 1]} <=> Points(r, k - 1)
  <2>1. s[k] \in Contents(v) <=> Points(m, k - 1)
    BY <1>1, ShownPoints
  <2>2. s[k] = s[i + 1] <=> k - 1 = i
    BY <1>1 DEF Different
  <2> QED
    BY <2>1, <2>2
<1> QED
  BY <1>1, <1>2, MapSelects

LEMMA OneOff ==
  ASSUME NEW s \in Seq(Items), Different(s), NEW m, NEW v, Mirrors(s, m, v),
         NEW r, NEW w, Mirrors(s, r, w), NEW i \in 0..(Len(s) - 1),
         \A j \in Int : Points(r, j) <=> Points(m, j) /\ j # i
  PROVE  Promise!Selects(w, s, Contents(v) \ {s[i + 1]})
<1>1. PICK N \in Nat : N = Len(s)
  BY LenProperties
<1>2. ASSUME NEW k \in 1..N
      PROVE  s[k] \in Contents(v) \ {s[i + 1]} <=> Points(r, k - 1)
  <2>1. s[k] \in Contents(v) <=> Points(m, k - 1)
    BY <1>1, ShownPoints
  <2>2. s[k] = s[i + 1] <=> k - 1 = i
    BY <1>1 DEF Different
  <2> QED
    BY <2>1, <2>2
<1> QED
  BY <1>1, <1>2, MapSelects

\* The steps of the promise, while it stands, and when it does not.
LEMMA PromisedCorrection ==
  ASSUME Sound, Sound', UNCHANGED <<source, kind, filter>>, NEW x \in Contents(source),
         \/ /\ x \in Contents(view) /\ kind[x] \notin filter
            /\ Promise!Selects(view', source, Contents(view) \ {x})
         \/ /\ x \notin Contents(view) /\ kind[x] \in filter
            /\ Promise!Selects(view', source, Contents(view) \cup {x})
  PROVE  Promise!Next
BY DEF Promise!Next, Promise!Correct, Contents

LEMMA PromisedInsertion ==
  ASSUME Sound, Sound', UNCHANGED <<kind, filter>>, Len(source') > Len(source),
         Promise!Selects(source, source', Contents(source)),
         Promise!Selects(view', source', Contents(view) \cup
           {x \in Contents(source') \ Contents(source) : kind[x] \in filter})
  PROVE  Promise!Next
BY DEF Promise!Next, Promise!InsertItems, Contents

LEMMA PromisedRemoval ==
  ASSUME Sound, Sound', UNCHANGED <<kind, filter>>, Len(source') < Len(source),
         Promise!Selects(source', source, Contents(source')),
         Promise!Selects(view', view, Contents(source'))
  PROVE  Promise!Next
BY DEF Promise!Next, Promise!RemoveItems, Contents

LEMMA PromisedChange ==
  ASSUME Sound, Sound', UNCHANGED <<source, filter>>, NEW x \in Contents(source),
         kind' \in [Items -> Kinds], \A y \in Items \ {x} : kind'[y] = kind[y],
         \/ kind'[x] \in filter /\ Promise!Selects(view', source, Contents(view) \cup {x})
         \/ kind'[x] \notin filter /\ Promise!Selects(view', source, Contents(view) \ {x})
  PROVE  Promise!Next
BY DEF Promise!Next, Promise!ChangeItem, Contents

LEMMA PromisedDisconnection ==
  ASSUME ~Sound', UNCHANGED <<kind, filter>> PROVE Promise!Next
BY DEF Promise!Next, Promise!Disconnect

LEMMA PromisedConnection ==
  ASSUME ~Sound, Sound', UNCHANGED <<kind, filter>>,
         Promise!Selects(view', source', {x \in Contents(source') : kind[x] \in filter})
  PROVE  Promise!Next
BY DEF Promise!Next, Promise!Connect, Contents

LEMMA PromisedUnseen ==
  ASSUME ~Sound, ~Sound', UNCHANGED filter, kind' \in [Items -> Kinds] PROVE Promise!Next
BY DEF Promise!Next, Promise!ChangeUnseen

\* One turn of the loop puts one item right, or none.
LEMMA ScanPromised ==
  ASSUME IInv, MInv, SourceOK, MInv', Sound, NEW t \in Threads, ScanItem(t)
  PROVE  Promise!Next \/ UNCHANGED Promise!vars
<1> DEFINE i == scan[t].i
           p == scan[t].index
           x == source[i + 1]
           itemInFilter == i < Len(source) /\ filterMatched(x)
           indexInList == p < Len(indexMap) /\ indexMap[p + 1] = i
<1>1. pc[t] = "scan" /\ UNCHANGED <<connected, source, kind, filter, call>> /\ Sound'
  BY DEF ScanItem, modelVars, Sound
<1>2. eventControl = t
  BY <1>1 DEF IInv, MutexOwned
<1>3. call.op # "remove"
  <2> SUFFICES ASSUME call.op \in Changing PROVE FALSE
    OBVIOUS
  <2>1. t = Main /\ pc[Main] = "none"
    BY <1>2 DEF IInv, MutexOwned, Shape, Running
  <2> QED
    BY <1>1, <2>1
<1>4. /\ source \in Seq(Items) /\ Len(source) \in Nat /\ Different(source)
      /\ Mirrors(source, indexMap, view) /\ Mirrors(source, indexMap', view')
      /\ p \in 0..Len(indexMap) /\ i \in 0..Len(source) /\ i < Len(source)
      /\ CutAt(indexMap, Len(indexMap), i, p)
  <2>1. /\ source \in Seq(Items) /\ Len(source) \in Nat /\ Different(source)
        /\ Mirrors(source, indexMap, view) /\ Mirrors(source, indexMap', view')
    BY <1>1, <1>3, LenProperties DEF MInv, DataOK, MapOK, SourceOK
  <2>2. /\ p \in 0..Len(indexMap) /\ i \in 0..Len(source) /\ i < Len(source)
        /\ CutAt(indexMap, Len(indexMap), i, p)
    BY <1>1 DEF MInv, ScanOK, Sound
  <2> QED
    BY <2>1, <2>2
<1>5. /\ indexMap \in Seq(Int) /\ Rising(indexMap) /\ Len(indexMap) \in Nat
      /\ i \in 0..(Len(source) - 1) /\ i + 1 \in 1..Len(source) /\ i \in Int
  BY <1>4, MirrorFacts DEF Mirrors
<1>6. /\ \/ itemInFilter /\ indexInList /\ UNCHANGED view
         \/ ~itemInFilter /\ indexInList /\ indexMap' = Removed(indexMap, p, 1)
         \/ /\ itemInFilter /\ ~indexInList
            /\ indexMap' = Inserted(indexMap, p, <<i>>)
         \/ ~itemInFilter /\ ~indexInList /\ UNCHANGED view
  BY DEF ScanItem
<1>7. itemInFilter <=> kind[x] \in filter
  BY <1>4 DEF filterMatched
<1>8. indexInList <=> x \in Contents(view)
  <2>1. indexInList <=> Points(indexMap, i)
    BY <1>4, <1>5, CutPoints
  <2>2. x \in Contents(view) <=> Points(indexMap, (i + 1) - 1)
    BY <1>4, <1>5, ShownPoints
  <2>3. (i + 1) - 1 = i
    BY <1>5
  <2> QED
    BY <2>1, <2>2, <2>3
<1>9. x \in Contents(source)
  BY <1>5 DEF Contents, Promise!Contents
<1> HIDE DEF x, itemInFilter
<1>10. CASE UNCHANGED view
  BY <1>1, <1>10 DEF Promise!vars
<1>11. CASE ~itemInFilter /\ indexInList /\ indexMap' = Removed(indexMap, p, 1)
  <2>1. \A j \in Int : Points(indexMap', j) <=> Points(indexMap, j) /\ j # i
    <3>1. p \in Nat /\ p < Len(indexMap) /\ indexMap[p + 1] = i
      BY <1>4, <1>11
    <3> HIDE DEF i, p
    <3> QED
      BY <1>5, <1>11, <3>1, PointsRemoved
  <2>2. Promise!Selects(view', source, Contents(view) \ {x})
    BY <1>4, <1>5, <2>1, OneOff DEF x
  <2> HIDE DEF indexInList
  <2> QED
    BY <1>1, <1>7, <1>8, <1>9, <1>11, <2>2, PromisedCorrection
<1>12. CASE itemInFilter /\ ~indexInList /\ indexMap' = Inserted(indexMap, p, <<i>>)
  <2>1. \A j \in Int : Points(indexMap', j) <=> Points(indexMap, j) \/ j = i
    <3>1. <<i>> \in Seq(Int) /\ \A j : Points(<<i>>, j) <=> j = i
      BY <1>5 DEF Points
    <3> HIDE DEF i, p
    <3> QED
      BY <1>4, <1>5, <1>12, <3>1, PointsInserted
  <2>2. Promise!Selects(view', source, Contents(view) \cup {x})
    BY <1>4, <1>5, <2>1, OneOn DEF x
  <2> HIDE DEF indexInList
  <2> QED
    BY <1>1, <1>7, <1>8, <1>9, <1>12, <2>2, PromisedCorrection
<1> QED
  BY <1>6, <1>10, <1>11, <1>12

\* The changed item is judged anew, and no other.
LEMMA ChangePromised ==
  ASSUME MInv, SourceOK, MInv', Sound, postItemDataChanged PROVE Promise!Next
<1>1. PICK i, data : i = call.index /\ data = call.data
  OBVIOUS
<1>2. PICK p \in LowerBounds(indexMap, i) :
        LET was == p < Len(indexMap) /\ indexMap[p + 1] = i
            now == data \in filter
        IN \/ now /\ ~was /\ indexMap' = Inserted(indexMap, p, <<i>>)
           \/ ~now /\ was /\ indexMap' = Removed(indexMap, p, 1)
           \/ (now <=> was) /\ UNCHANGED <<indexMap, view>>
  BY <1>1 DEF postItemDataChanged, checkUpdateType
<1> DEFINE was == p < Len(indexMap) /\ indexMap[p + 1] = i
           now == data \in filter
           x == source[i + 1]
<1>3. /\ UNCHANGED <<connected, shifted, source, filter>> /\ Sound'
      /\ call.op = "change" /\ call' = Idle
      /\ kind' = [kind EXCEPT ![x] = data]
  BY <1>1 DEF postItemDataChanged, Done, Sound
<1>4. /\ source \in Seq(Items) /\ Len(source) \in Nat /\ Different(source)
      /\ Mirrors(source, indexMap, view) /\ Mirrors(source, indexMap', view')
      /\ i \in 0..(Len(source) - 1) /\ data \in Kinds /\ kind \in [Items -> Kinds]
  BY <1>1, <1>3, LenProperties DEF MInv, DataOK, CallOK, MapOK, SourceOK
<1>5. /\ indexMap \in Seq(Int) /\ Rising(indexMap) /\ Len(indexMap) \in Nat
      /\ i + 1 \in 1..Len(source) /\ i \in Int
      /\ p \in 0..Len(indexMap) /\ CutAt(indexMap, Len(indexMap), i, p)
  <2>1. indexMap \in Seq(Int) /\ Rising(indexMap) /\ Len(indexMap) \in Nat
    BY <1>4, MirrorFacts DEF Mirrors
  <2>2. i \in Int /\ i + 1 \in 1..Len(source)
    BY <1>4
  <2> QED
    BY <2>1, <2>2, LowerBoundFacts DEF CutAt
<1>6. was <=> Points(indexMap, i)
  BY <1>5, CutPoints
<1>7. x \in Items /\ x \in Contents(source)
  BY <1>4, <1>5, ElementOfSeq DEF Contents, Promise!Contents
<1>8. /\ kind' \in [Items -> Kinds] /\ kind'[x] = data
      /\ \A y \in Items \ {x} : kind'[y] = kind[y]
  BY <1>3, <1>4, <1>7
<1> HIDE DEF x
<1>9. CASE now /\ \A j \in Int : Points(indexMap', j) <=> Points(indexMap, j) \/ j = i
  <2>1. Promise!Selects(view', source, Contents(view) \cup {x})
    BY <1>4, <1>9, OneOn DEF x
  <2> QED
    BY <1>3, <1>7, <1>8, <1>9, <2>1, PromisedChange
<1>10. CASE ~now /\ \A j \in Int : Points(indexMap', j) <=> Points(indexMap, j) /\ j # i
  <2>1. Promise!Selects(view', source, Contents(view) \ {x})
    BY <1>4, <1>10, OneOff DEF x
  <2> QED
    BY <1>3, <1>7, <1>8, <1>10, <2>1, PromisedChange
<1>11. CASE now /\ ~was /\ indexMap' = Inserted(indexMap, p, <<i>>)
  <2>1. <<i>> \in Seq(Int) /\ \A j : Points(<<i>>, j) <=> j = i
    BY <1>5 DEF Points
  <2>2. \A j \in Int : Points(indexMap', j) <=> Points(indexMap, j) \/ j = i
    BY <1>5, <1>11, <2>1, PointsInserted
  <2> QED
    BY <1>9, <1>11, <2>2
<1>12. CASE ~now /\ was /\ indexMap' = Removed(indexMap, p, 1)
  <2>1. p \in Nat /\ p < Len(indexMap) /\ indexMap[p + 1] = i
    BY <1>5, <1>12
  <2>2. \A j \in Int : Points(indexMap', j) <=> Points(indexMap, j) /\ j # i
    BY <1>5, <1>12, <2>1, PointsRemoved
  <2> QED
    BY <1>10, <1>12, <2>2
<1>13. CASE (now <=> was) /\ UNCHANGED <<indexMap, view>>
  BY <1>6, <1>9, <1>10, <1>13
<1> QED
  BY <1>2, <1>11, <1>12, <1>13

\* What a sequence becomes when a range goes from it is what its other items select.
LEMMA RemovalSelects ==
  ASSUME NEW s \in Seq(Items), NEW p \in Nat, NEW c \in Nat, p + c <= Len(s), NEW S,
         \A k \in 1..Len(s) : s[k] \in S <=> (k <= p \/ p + c < k)
  PROVE  Promise!Selects(Removed(s, p, c), s, S) /\ Len(Removed(s, p, c)) = Len(s) - c
<1>1. PICK n \in Nat : n = Len(s)
  BY LenProperties
<1>2. PICK r : r = Removed(s, p, c)
  OBVIOUS
<1>3. r \in Seq(Items) /\ Len(r) = n - c /\ TakenOut(r, s, n, p, c)
  <2>1. r \in Seq(Items) /\ Removal(r, s, p, c)
    BY <1>2, RemovedFacts
  <2> QED
    BY <1>1, <2>1 DEF Removal, TakenOut
<1> DEFINE at == [k \in 1..(n - c) |-> IF k <= p THEN k ELSE k + c]
<1>4. /\ at \in [1..(n - c) -> 1..n]
      /\ \A k \in 1..(n - c) : (k <= p => at[k] = k) /\ (p < k => at[k] = k + c)
  <2>1. \A k \in 1..(n - c) : (IF k <= p THEN k ELSE k + c) \in 1..n
    BY <1>1
  <2> QED
    BY <2>1
<1> HIDE DEF at
<1>5. \A j, k \in 1..(n - c) : j < k => at[j] < at[k]
  <2> SUFFICES ASSUME NEW j \in 1..(n - c), NEW k \in 1..(n - c), j < k PROVE at[j] < at[k]
    OBVIOUS
  <2>1. (at[j] = j /\ j <= p) \/ (at[j] = j + c /\ p < j)
    BY <1>4
  <2>2. (at[k] = k /\ k <= p) \/ (at[k] = k + c /\ p < k)
    BY <1>4
  <2> QED
    BY <2>1, <2>2
<1>6. r = [k \in 1..(n - c) |-> s[at[k]]]
  <2>1. ASSUME NEW k \in 1..(n - c) PROVE r[k] = s[at[k]]
    <3>1. (k <= p => r[k] = s[k]) /\ (p < k => r[k] = s[k + c]) /\ (k <= p \/ p < k)
      BY <1>3 DEF TakenOut
    <3>2. (k <= p => at[k] = k) /\ (p < k => at[k] = k + c)
      BY <1>4
    <3> QED
      BY ONLY <3>1, <3>2
  <2>2. r \in [1..(n - c) -> Items]
    BY <1>3, LenProperties
  <2> QED
    BY <2>1, <2>2
<1>7. \A i \in 1..n : s[i] \in S <=> \E k \in 1..(n - c) : at[k] = i
  <2> TAKE i \in 1..n
  <2>1. s[i] \in S <=> (i <= p \/ p + c < i)
    BY <1>1
  <2>2. ASSUME NEW k \in 1..(n - c), at[k] = i PROVE i <= p \/ p + c < i
    <3>1. (at[k] = k /\ k <= p) \/ (at[k] = k + c /\ p < k)
      BY <1>4
    <3> QED
      BY <2>2, <3>1
  <2>3. CASE i <= p
    <3>1. i \in 1..(n - c)
      BY <1>1, <2>3
    <3> QED
      BY <1>4, <2>1, <2>3, <3>1
  <2>4. CASE p + c < i
    <3>1. i - c \in 1..(n - c) /\ p < i - c /\ (i - c) + c = i
      BY <2>4
    <3> QED
      BY <1>4, <2>1, <2>4, <3>1
  <2> QED
    BY <2>1, <2>2, <2>3, <2>4
<1>8. Promise!Selects(r, s, S)
  <2>1. PICK q : q = n - c
    OBVIOUS
  <2>2. /\ at \in [1..q -> 1..n] /\ r = [k \in 1..q |-> s[at[k]]]
        /\ \A j, k \in 1..q : j < k => at[j] < at[k]
        /\ \A i \in 1..n : s[i] \in S <=> \E k \in 1..q : at[k] = i
    BY <1>4, <1>5, <1>6, <1>7, <2>1
  <2>3. q = Len(r) /\ n = Len(s)
    BY <1>1, <1>3, <2>1
  <2> QED
    BY ONLY <2>2, <2>3 DEF Promise!Selects
<1> QED
  BY <1>1, <1>2, <1>3, <1>8

\* When other items are put in, those that were there select what was there.
LEMMA InsertionSelects ==
  ASSUME NEW s \in Seq(Items), NEW new \in Seq(Items), NEW p \in 0..Len(s),
         \A j \in 1..Len(s), k \in 1..Len(new) : s[j] # new[k],
         NEW t, t = Inserted(s, p, new)
  PROVE  /\ t \in Seq(Items) /\ Len(t) = Len(s) + Len(new)
         /\ Promise!Selects(s, t, Contents(s))
         /\ \A k \in 1..Len(t) :
              /\ k <= p => t[k] = s[k] /\ k \in 1..Len(s)
              /\ p + Len(new) < k => t[k] = s[k - Len(new)] /\ k - Len(new) \in 1..Len(s)
              /\ t[k] \in Contents(s) <=> (k <= p \/ p + Len(new) < k)
<1>1. PICK n \in Nat, c \in Nat : n = Len(s) /\ c = Len(new)
  BY LenProperties
<1>2. t \in Seq(Items) /\ Len(t) = n + c /\ PutAllIn(t, s, n, p, new, c)
  <2>1. t \in Seq(Items) /\ Insertion(t, s, p, new)
    BY InsertedFacts
  <2> QED
    BY <1>1, <2>1 DEF Insertion, PutAllIn
<1>3. p \in 0..n
  BY <1>1
<1>4. ASSUME NEW k \in 1..(n + c)
      PROVE  /\ k <= p => t[k] = s[k] /\ k \in 1..n
             /\ p + c < k => t[k] = s[k - c] /\ k - c \in 1..n
             /\ p < k /\ k <= p + c => t[k] = new[k - p] /\ k - p \in 1..c
  BY <1>2, <1>3 DEF PutAllIn
<1>5. ASSUME NEW k \in 1..(n + c)
      PROVE  t[k] \in Contents(s) <=> (k <= p \/ p + c < k)
  <2>1. \A x : x \in Contents(s) <=> \E j \in 1..n : s[j] = x
    BY <1>1 DEF Contents, Promise!Contents
  <2>2. CASE k <= p \/ p + c < k
    BY <1>4, <2>1, <2>2
  <2>3. CASE p < k /\ k <= p + c
    <3>1. k - p \in 1..c /\ t[k] = new[k - p]
      BY <1>4, <2>3
    <3>2. \A j \in 1..n : s[j] # new[k - p]
      BY <1>1, <3>1
    <3>3. ~(k <= p) /\ ~(p + c < k)
      BY <1>3, <2>3
    <3> QED
      BY <2>1, <3>1, <3>2, <3>3
  <2> QED
    BY <1>3, <2>2, <2>3
<1> DEFINE at == [k \in 1..n |-> IF k <= p THEN k ELSE k + c]
<1>6. /\ at \in [1..n -> 1..(n + c)]
      /\ \A k \in 1..n : (k <= p => at[k] = k) /\ (p < k => at[k] = k + c)
  <2>1. \A k \in 1..n : (IF k <= p THEN k ELSE k + c) \in 1..(n + c)
    BY <1>3
  <2> QED
    BY <1>3, <2>1
<1> HIDE DEF at
<1>7. \A j, k \in 1..n : j < k => at[j] < at[k]
  <2> SUFFICES ASSUME NEW j \in 1..n, NEW k \in 1..n, j < k PROVE at[j] < at[k]
    OBVIOUS
  <2>1. (at[j] = j /\ j <= p) \/ (at[j] = j + c /\ p < j)
    BY <1>3, <1>6
  <2>2. (at[k] = k /\ k <= p) \/ (at[k] = k + c /\ p < k)
    BY <1>3, <1>6
  <2> QED
    BY <1>3, <2>1, <2>2
<1>8. s = [k \in 1..n |-> t[at[k]]]
  <2>1. ASSUME NEW k \in 1..n PROVE s[k] = t[at[k]]
    <3>1. CASE k <= p
      <4>1. k \in 1..(n + c) /\ at[k] = k
        BY <1>6, <3>1
      <4> QED
        BY <1>4, <3>1, <4>1
    <3>2. CASE p < k
      <4>1. k + c \in 1..(n + c) /\ at[k] = k + c /\ p + c < k + c /\ (k + c) - c = k
        BY <1>3, <1>6, <3>2
      <4> QED
        BY <1>4, <4>1
    <3> QED
      BY <1>3, <3>1, <3>2
  <2>2. s \in [1..n -> Items]
    BY <1>1, LenProperties
  <2> QED
    BY <2>1, <2>2
<1>9. \A i \in 1..(n + c) : t[i] \in Contents(s) <=> \E k \in 1..n : at[k] = i
  <2> TAKE i \in 1..(n + c)
  <2>1. t[i] \in Contents(s) <=> (i <= p \/ p + c < i)
    BY <1>5
  <2>2. ASSUME NEW k \in 1..n, at[k] = i PROVE i <= p \/ p + c < i
    <3>1. (at[k] = k /\ k <= p) \/ (at[k] = k + c /\ p < k)
      BY <1>3, <1>6
    <3> QED
      BY <1>3, <2>2, <3>1
  <2>3. CASE i <= p
    <3>1. i \in 1..n
      BY <1>3, <2>3
    <3> QED
      BY <1>6, <2>1, <2>3, <3>1
  <2>4. CASE p + c < i
    <3>1. i - c \in 1..n /\ p < i - c /\ (i - c) + c = i
      BY <1>3, <2>4
    <3> QED
      BY <1>6, <2>1, <2>4, <3>1
  <2> QED
    BY <2>1, <2>2, <2>3, <2>4
<1>10. Promise!Selects(s, t, Contents(s))
  <2>1. PICK q : q = n + c
    OBVIOUS
  <2>2. /\ at \in [1..n -> 1..q] /\ s = [k \in 1..n |-> t[at[k]]]
        /\ \A j, k \in 1..n : j < k => at[j] < at[k]
        /\ \A i \in 1..q : t[i] \in Contents(s) <=> \E k \in 1..n : at[k] = i
    BY <1>6, <1>7, <1>8, <1>9, <2>1
  <2>3. q = Len(t) /\ n = Len(s)
    BY <1>1, <1>2, <2>1
  <2> QED
    BY ONLY <2>2, <2>3 DEF Promise!Selects
<1> QED
  BY <1>1, <1>2, <1>4, <1>5, <1>10

\* The items that come, and of those the accepted ones in the view, in one piece.
LEMMA InsertPromised ==
  ASSUME MInv, SourceOK, MInv', Sound, postItemsInserted PROVE Promise!Next
<1>1. PICK t, index, new : t = Inserted(source, index, new) /\ index = call.index /\ new = call.new
  OBVIOUS
<1> DEFINE S == {i \in index..(index + Len(new) - 1) : filterMatched(t[i + 1])}
           kept == Contents(view) \cup {x \in Contents(t) \ Contents(source) : kind[x] \in filter}
<1>2. PICK ids : ids = Ascending(S)
  OBVIOUS
<1>3. /\ UNCHANGED <<kind, filter>> /\ Sound'
      /\ call.op = "insert" /\ call' = Idle /\ source' = t
  BY <1>1, <1>2 DEF postItemsInserted, Done, Sound
<1>0. PICK p \in LowerBounds(indexMap, index) :
        indexMap' = Inserted(ShiftUp(indexMap, p, Len(new)), p, ids)
  BY <1>1, <1>2 DEF postItemsInserted, filterMatched
<1>4. PICK up : /\ p \in LowerBounds(indexMap, index)
                /\ up = ShiftUp(indexMap, p, Len(new)) /\ indexMap' = Inserted(up, p, ids)
  BY <1>0
<1>5. PICK N \in Nat, c \in Nat : N = Len(source) /\ c = Len(new)
  BY <1>1, <1>3, LenProperties DEF MInv, DataOK, CallOK
<1>6. /\ source \in Seq(Items) /\ Different(source) /\ new \in Seq(Items)
      /\ Mirrors(source, indexMap, view) /\ Mirrors(t, indexMap', view')
      /\ index \in 0..N /\ c > 0 /\ N + c <= MaxLen
      /\ \A j \in 1..Len(source), k \in 1..Len(new) : source[j] # new[k]
  BY <1>1, <1>3, <1>5 DEF MInv, DataOK, CallOK, MapOK, SourceOK
<1>7. /\ indexMap \in Seq(Int) /\ Rising(indexMap)
      /\ p \in 0..Len(indexMap) /\ CutAt(indexMap, Len(indexMap), index, p)
      /\ \A k \in 1..Len(indexMap) : indexMap[k] \in 0..(N - 1)
  <2>1. /\ indexMap \in Seq(Int) /\ Rising(indexMap)
        /\ \A k \in 1..Len(indexMap) : indexMap[k] \in 0..(N - 1)
    BY <1>5, <1>6, MirrorFacts DEF Mirrors
  <2>2. index \in Int
    BY <1>6
  <2> QED
    BY <2>1, <2>2, LowerBoundFacts DEF CutAt
<1>8. /\ t \in Seq(Items) /\ Len(t) = N + c
      /\ Promise!Selects(source, t, Contents(source))
      /\ \A k \in 1..(N + c) :
           /\ k <= index => t[k] = source[k] /\ k \in 1..N
           /\ index + c < k => t[k] = source[k - c] /\ k - c \in 1..N
           /\ t[k] \in Contents(source) <=> (k <= index \/ index + c < k)
  <2>1. index \in 0..Len(source)
    BY <1>5, <1>6
  <2>2. /\ t \in Seq(Items) /\ Len(t) = Len(source) + Len(new)
        /\ Promise!Selects(source, t, Contents(source))
        /\ \A k \in 1..Len(t) :
             /\ k <= index => t[k] = source[k] /\ k \in 1..Len(source)
             /\ index + Len(new) < k => t[k] = source[k - Len(new)] /\ k - Len(new) \in 1..Len(source)
             /\ t[k] \in Contents(source) <=> (k <= index \/ index + Len(new) < k)
    <3>1. /\ source \in Seq(Items) /\ new \in Seq(Items) /\ index \in 0..Len(source)
          /\ \A j \in 1..Len(source), k \in 1..Len(new) : source[j] # new[k]
          /\ t = Inserted(source, index, new)
      BY <1>1, <1>6, <2>1
    <3> QED
      BY ONLY <3>1, InsertionSelects
  <2> QED
    BY <1>5, <2>2
<1>9. /\ ids \in Seq(Int)
      /\ \A i \in Int : Points(ids, i) <=> index <= i /\ i < index + c /\ filterMatched(t[i + 1])
  <2>1. S \in SUBSET (index..(index + c - 1)) /\ index \in Int /\ index + c - 1 \in Int
    BY <1>5, <1>6
  <2>2. \A i \in Int : i \in S <=> index <= i /\ i < index + c /\ filterMatched(t[i + 1])
    BY <1>5, <1>6
  <2> HIDE DEF S
  <2>3. \A i : Points(ids, i) <=> i \in S
    BY <1>2, <2>1, PointsAscending
  <2>4. ids \in Seq(S)
    BY <1>2, <2>1, AscendingFacts
  <2>5. \A i \in S : i \in Int
    BY <2>1
  <2>6. ids \in Seq(Int)
    BY <2>4, <2>5, ElementOfSeq, Retype
  <2> QED
    BY <2>2, <2>3, <2>6
<1> HIDE DEF S
<1>10. ASSUME NEW i \in Int
       PROVE  Points(indexMap', i)
                <=> \/ i < index /\ Points(indexMap, i)
                    \/ index + c <= i /\ Points(indexMap, i - c)
                    \/ index <= i /\ i < index + c /\ filterMatched(t[i + 1])
  <2>1. index \in Int /\ N + c < SizeModulus
    BY <1>5, <1>6
  <2>2. /\ up \in Seq(Int) /\ Len(up) = Len(indexMap)
        /\ Points(up, i) <=> (i < index /\ Points(indexMap, i)) \/ (index + c <= i /\ Points(indexMap, i - c))
    <3>1. up = ShiftUp(indexMap, p, c)
      BY <1>4, <1>5
    <3> QED
      BY <1>7, <2>1, <3>1, PointsShifted
  <2>3. Points(indexMap', i) <=> Points(up, i) \/ Points(ids, i)
    <3>1. p \in 0..Len(up)
      BY <1>7, <2>2
    <3> QED
      BY <1>4, <1>9, <2>2, <3>1, PointsInserted
  <2> QED
    BY <1>9, <2>2, <2>3
<1>11. \A k \in 1..N : source[k] \in Contents(view) <=> Points(indexMap, k - 1)
  BY <1>5, <1>6, ShownPoints
<1>12. \A x \in Contents(view) : x \in Contents(source)
  <2>1. \A k \in 1..Len(view) : view[k] \in Contents(source)
    <3> TAKE k \in 1..Len(view)
    <3>1. Len(view) = Len(indexMap) /\ view[k] = source[indexMap[k] + 1]
      BY <1>6 DEF Mirrors
    <3>2. indexMap[k] \in 0..(Len(source) - 1) /\ Len(source) \in Nat
      BY <1>6, <3>1, MirrorFacts
    <3>3. indexMap[k] + 1 \in 1..Len(source)
      BY <3>2
    <3> QED
      BY <3>1, <3>3 DEF Contents, Promise!Contents
  <2> QED
    BY <2>1 DEF Contents, Promise!Contents
<1>13. ASSUME NEW k \in 1..Len(t) PROVE t[k] \in kept <=> Points(indexMap', k - 1)
  <2>1. k \in 1..(N + c) /\ k - 1 \in Int /\ (k - 1) + 1 = k
    BY <1>8
  <2>2. /\ k <= index => t[k] = source[k] /\ k \in 1..N
        /\ index + c < k => t[k] = source[k - c] /\ k - c \in 1..N
        /\ t[k] \in Contents(source) <=> (k <= index \/ index + c < k)
    BY <1>8, <2>1
  <2>3. t[k] \in Contents(t)
    BY DEF Contents, Promise!Contents
  <2>4. t[k] \in kept <=> \/ t[k] \in Contents(view)
                          \/ t[k] \notin Contents(source) /\ filterMatched(t[k])
    BY <2>3 DEF filterMatched
  <2> HIDE DEF kept
  <2>5. CASE k <= index
    <3>1. t[k] \in Contents(view) <=> Points(indexMap, k - 1)
      BY <1>11, <2>2, <2>5
    <3>2. k - 1 < index /\ ~(index + c <= k - 1) /\ ~(index <= k - 1)
      BY <1>6, <2>1, <2>5
    <3>3. Points(indexMap', k - 1) <=> Points(indexMap, k - 1)
      BY <1>10, <2>1, <3>2
    <3> QED
      BY <2>2, <2>4, <2>5, <3>1, <3>3
  <2>6. CASE index + c < k
    <3>1. t[k] \in Contents(view) <=> Points(indexMap, (k - c) - 1)
      BY <1>11, <2>2, <2>6
    <3>2. index + c <= k - 1 /\ ~(k - 1 < index) /\ ~(k - 1 < index + c) /\ (k - 1) - c = (k - c) - 1
      BY <1>6, <2>1, <2>6
    <3>3. Points(indexMap', k - 1) <=> Points(indexMap, (k - c) - 1)
      BY <1>10, <2>1, <3>2
    <3> QED
      BY <2>2, <2>4, <2>6, <3>1, <3>3
  <2>7. CASE index < k /\ k <= index + c
    <3>1. index <= k - 1 /\ k - 1 < index + c /\ ~(k - 1 < index) /\ ~(index + c <= k - 1)
          /\ ~(k <= index) /\ ~(index + c < k)
      BY <1>6, <2>1, <2>7
    <3>2. Points(indexMap', k - 1) <=> filterMatched(t[k])
      BY <1>10, <2>1, <3>1
    <3>3. t[k] \notin Contents(source) /\ t[k] \notin Contents(view)
      BY <1>12, <2>2, <3>1
    <3> QED
      BY <2>4, <3>2, <3>3
  <2> QED
    BY <1>6, <2>1, <2>5, <2>6, <2>7
<1> HIDE DEF kept
<1>14. Promise!Selects(view', t, kept)
  BY <1>6, <1>8, <1>13, MapSelects
<1>15. Len(source') > Len(source)
  BY <1>3, <1>5, <1>6, <1>8
<1> QED
  BY <1>3, <1>8, <1>14, <1>15, PromisedInsertion DEF kept

\* The items that go, from the view as well.
LEMMA RemovePromised ==
  ASSUME MInv, SourceOK, Sound, postItemsRemoved PROVE Promise!Next
<1>1. /\ UNCHANGED <<kind, filter>> /\ Sound' /\ call.op = "remove"
      /\ source' = Removed(source, call.index, call.count)
      /\ view' = Removed(view, lastUpdate.index, lastUpdate.count)
  BY ViewRemoved DEF postItemsRemoved, Sound
<1>3. /\ source \in Seq(Items) /\ Different(source) /\ view \in Seq(Items)
      /\ call.index \in Nat /\ call.count \in Nat /\ call.count > 0
      /\ call.index + call.count <= Len(source)
      /\ lastUpdate.index \in Nat /\ lastUpdate.count \in Nat
      /\ lastUpdate.index + lastUpdate.count <= Len(view)
      /\ \A k \in 1..Len(view) : view[k] \in Contents(source')
           <=> (k <= lastUpdate.index \/ lastUpdate.index + lastUpdate.count < k)
  BY <1>1 DEF MInv, DataOK, CallOK, MapOK, SourceOK, GoingOK
<1>4. Promise!Selects(source', source, Contents(source')) /\ Len(source') = Len(source) - call.count
  <2>1. \A k \in 1..Len(source) : source[k] \in Contents(source')
          <=> (k <= call.index \/ call.index + call.count < k)
    BY <1>1, <1>3, RemovedKeeps
  <2> QED
    BY <1>1, <1>3, <2>1, RemovalSelects
<1>5. Promise!Selects(view', view, Contents(source'))
  BY <1>1, <1>3, RemovalSelects
<1>6. Len(source') < Len(source)
  <2>1. Len(source) \in Nat
    BY <1>3, LenProperties
  <2> QED
    BY <1>3, <1>4, <2>1
<1> QED
  BY <1>1, <1>4, <1>5, <1>6, PromisedRemoval

\* The new source, with what the filter accepts of it.
LEMMA ReplacePromised ==
  ASSUME MInv, SourceOK, MInv', ReplaceSource PROVE Promise!Next
<1>1. /\ UNCHANGED <<kind, filter>> /\ call.op = "replace" /\ call' = Idle
      /\ connected' = call.to.present /\ source' = call.to.items
      /\ call.to.present => indexMap' = Matching(source') /\ ~shifted'
  BY DEF ReplaceSource, Done
<1>2. ~Sound
  BY <1>1 DEF SourceOK, Sound
<1>3. CASE ~call.to.present
  <2>1. ~Sound'
    BY <1>1, <1>3 DEF Sound
  <2> QED
    BY <1>1, <2>1, PromisedDisconnection
<1>4. CASE call.to.present
  <2>1. PICK s \in Seq(Items) : s = source'
    BY <1>1 DEF MInv, CallOK
  <2>2. Sound' /\ Mirrors(s, indexMap', view') /\ indexMap' = Matching(s)
    BY <1>1, <1>4, <2>1 DEF MInv, MapOK, Sound
  <2> DEFINE shown == {i \in 0..(Len(s) - 1) : filterMatched(s[i + 1])}
             accepted == {x \in Contents(s) : kind[x] \in filter}
  <2>3. PICK N \in Nat : N = Len(s)
    BY LenProperties
  <2>4. shown \in SUBSET (0..(N - 1)) /\ N - 1 \in Int /\ 0 \in Int
    BY <2>3
  <2>5. \A k \in 1..N : k - 1 \in shown <=> filterMatched(s[k])
    <3> TAKE k \in 1..N
    <3>1. k - 1 \in 0..(Len(s) - 1) /\ (k - 1) + 1 = k
      BY <2>3
    <3> QED
      BY <3>1
  <2>6. Matching(s) = Ascending(shown)
    BY DEF Matching
  <2> HIDE DEF shown
  <2>7. \A i : Points(indexMap', i) <=> i \in shown
    <3>1. \A i : Points(Ascending(shown), i) <=> i \in shown
      BY <2>4, PointsAscending
    <3>2. indexMap' = Ascending(shown)
      BY <2>2, <2>6
    <3> QED
      BY <3>1, <3>2
  <2>8. \A k \in 1..Len(s) : s[k] \in accepted <=> Points(indexMap', k - 1)
    <3> TAKE k \in 1..Len(s)
    <3>1. s[k] \in accepted <=> filterMatched(s[k])
      BY DEF Contents, Promise!Contents, filterMatched
    <3> QED
      BY <2>3, <2>5, <2>7, <3>1
  <2> HIDE DEF accepted
  <2>9. Promise!Selects(view', s, accepted)
    BY <2>2, <2>8, MapSelects
  <2> QED
    BY <1>1, <1>2, <2>1, <2>2, <2>9, PromisedConnection DEF accepted
<1> QED
  BY <1>3, <1>4

\* Every step of the list is a step of the promise, or nothing the view can see.
LEMMA StepPromised ==
  ASSUME IInv, MInv, SourceOK, MInv', [Next]_vars
  PROVE  [Promise!Next]_(Promise!vars)
<1>1. ASSUME UNCHANGED <<connected, shifted, source, kind, filter, view>>
      PROVE  UNCHANGED Promise!vars
  BY <1>1 DEF Promise!vars, Sound
<1>2. CASE Application
  <2>1. CASE \E f \in Filters : SetFilter(f) \/ FilterChanged(f)
    <3>1. filter' \in SUBSET Kinds /\ UNCHANGED <<connected, shifted, source, kind, view>>
      BY <2>1 DEF SetFilter, FilterChanged, mapVars
    <3> QED
      BY <3>1 DEF Promise!Next, Promise!ChangeFilter, Sound
  <2>2. CASE SourceDestroyed
    <3>1. ~Sound' /\ UNCHANGED <<kind, filter>>
      BY <2>2 DEF SourceDestroyed, Sound
    <3> QED
      BY <3>1, PromisedDisconnection
  <2>3. CASE \E index \in 0..MaxLen, count \in 1..MaxLen : preItemsRemoved(index, count)
    <3>1. /\ UNCHANGED <<connected, source, kind, filter, view>>
          /\ shifted' \/ UNCHANGED shifted
      BY <2>3 DEF preItemsRemoved, modelVars, MInv, DataOK
    <3>2. CASE shifted'
      BY <3>1, <3>2, PromisedDisconnection DEF Sound
    <3> QED
      BY <1>1, <3>1, <3>2
  <2>4. CASE \/ \E w \in BOOLEAN : Refresh(w)
             \/ \E s \in Sources : SetSource([present |-> TRUE, items |-> s])
             \/ SetSource([present |-> FALSE, items |-> <<>>])
             \/ \E index \in 0..MaxLen, new \in NewItems : preItemsInserted(index, new)
             \/ \E k \in 1..MaxLen, data \in Kinds : preItemDataChanged(k, data)
    <3>1. UNCHANGED <<connected, shifted, source, kind, filter, view>>
      BY <2>4 DEF Refresh, SetSource, preItemsInserted, preItemDataChanged, modelVars, mapVars
    <3> QED
      BY <1>1, <3>1
  <2> QED
    BY <1>2, <2>1, <2>2, <2>3, <2>4 DEF Application
<1>3. CASE Continue
  <2>1. CASE RefreshReturns \/ RefreshInPlace \/ RefreshDetached \/ RemappingHalted
    <3>1. UNCHANGED <<connected, shifted, source, kind, filter, view>>
      BY <2>1 DEF RefreshReturns, RefreshInPlace, RefreshDetached, RemappingHalted, modelVars, mapVars
    <3> QED
      BY <1>1, <3>1
  <2>2. CASE Disconnect
    <3>1. ~Sound' /\ UNCHANGED <<kind, filter>>
      BY <2>2 DEF Disconnect, Sound
    <3> QED
      BY <3>1, PromisedDisconnection
  <2>3. CASE postItemsInserted \/ postItemsRemoved \/ postItemDataChanged
    <3>1. CASE Sound
      BY <2>3, <3>1, InsertPromised, RemovePromised, ChangePromised
    <3>2. CASE ~Sound
      <4>1. ~Sound' /\ UNCHANGED filter
        BY <2>3, <3>2 DEF postItemsInserted, postItemsRemoved, postItemDataChanged, Sound
      <4>2. kind' \in [Items -> Kinds]
        BY DEF MInv, DataOK
      <4> QED
        BY <3>2, <4>1, <4>2, PromisedUnseen
    <3> QED
      BY <3>1, <3>2
  <2> QED
    BY <1>3, <2>1, <2>2, <2>3, ReplacePromised DEF Continue
<1>4. ASSUME NEW t \in Threads, remapIndices(t) PROVE [Promise!Next]_(Promise!vars)
  <2>1. CASE ScanItem(t)
    <3>1. CASE Sound
      BY <2>1, <3>1, ScanPromised
    <3>2. CASE ~Sound
      <4>1. ~Sound' /\ UNCHANGED <<kind, filter>>
        BY <2>1, <3>2 DEF ScanItem, modelVars, Sound
      <4> QED
        BY <4>1, PromisedDisconnection
    <3> QED
      BY <3>1, <3>2
  <2>2. CASE ~ScanItem(t)
    <3>1. UNCHANGED <<connected, shifted, source, kind, filter, view>>
      BY <1>4, <2>2 DEF remapIndices, CountUp, FilteringBegin, StartScan, FinishScan,
                        FilteringGoesOn, FilteringEnds, FilteringEnd, modelVars, mapVars
    <3> QED
      BY <1>1, <3>1
  <2> QED
    BY <2>1, <2>2
<1>5. CASE UNCHANGED vars
  BY <1>1, <1>5 DEF vars
<1> QED
  BY <1>2, <1>3, <1>4, <1>5 DEF Next

\* The list with its threads, locks and map implements FilteredView: a view that
\* applies the signals sees every change of the source in one piece, and between them
\* corrections of one item at a time, each of them right by the filter of the moment.
THEOREM ListImplementsView == Spec => ImplementsView
<1>1. Init => SourceOK /\ Promise!Init
  BY DEF Init, SourceOK, Different, Promise!Init, Sound
<1>2. IInv /\ MInv /\ SourceOK /\ [Next]_vars => SourceOK'
  BY StepKeepsSource
<1>3. Spec => []SourceOK
  BY <1>1, <1>2, MapInvariance, PTL DEF Spec
<1>4. IInv /\ MInv /\ MInv' /\ SourceOK /\ [Next]_vars => [Promise!Next]_(Promise!vars)
  BY StepPromised
<1> QED
  BY <1>1, <1>3, <1>4, MapInvariance, PTL DEF Spec, Promise!Spec, ImplementsView

=============================================================================
