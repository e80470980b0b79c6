--------------------------- MODULE FilteredListModel ---------------------------
(***************************************************************************)
(* core_data_model/filtered_list_model: a list model that shows the items  *)
(* of a source model its filter accepts, through a map from its own        *)
(* indices to those of the source, and brings the map up to date on        *)
(* detached threads when the filter changes.                               *)
(*                                                                         *)
(* Main owns the model, changes the source and calls setFilter, setSource  *)
(* and refresh, as WGFilteredListModel does on the user interface thread;  *)
(* Refreshers are the detached threads.  eventControlMutex_ is a variable; *)
(* indexMapMutex_ protects nothing else once reads are on Main.  Indices   *)
(* count from 0 as in the code; sequences from 1.                          *)
(***************************************************************************)
EXTENDS Integers, FiniteSets, SequencesExt

CONSTANTS
  Main,            \* the thread that owns the model
  Refreshers,      \* bound on the detached threads that exist at once
  Items, Kinds,    \* items, and what a filter can tell of their data
  Filters,         \* the filters the application sets, as sets of kinds
  Sources,         \* the lists setSource is called with
  MaxLen,          \* bound on the length of the source
  MaxCalls,        \* bound on the calls of the application
  SizeModulus,     \* stands for 2^(width of size_t)
  NoThread

ASSUME FilteredAssumption ==
  /\ Main \notin Refreshers /\ NoThread \notin Refreshers \cup {Main}
  /\ IsFiniteSet(Refreshers)
  /\ Filters \subseteq SUBSET Kinds
  /\ MaxLen \in Nat /\ MaxCalls \in Nat
  /\ SizeModulus \in Nat /\ SizeModulus > 2 * MaxLen

\* Every position of a source is an item of its own, so none is there twice.
ASSUME SourcesAssumption ==
  \A s \in Sources : s \in Seq(Items) /\ IsInjective(s) /\ Len(s) <= MaxLen

Threads == Refreshers \cup {Main}
CounterModulus == 256     \* remapping_ is an atomic_uint_fast8_t

VARIABLES
  connected,      \* model_ is not null
  source,         \* the items of *model_
  kind,           \* the data of the items
  filter,         \* what *listFilter_ accepts; Kinds for a null filter
  indexMap,       \* indexMap_
  eventControl,   \* owner of eventControlMutex_
  remapping,      \* remapping_
  stop,           \* stopRemapping_
  lastUpdate,     \* lastUpdateData_
  pc,             \* [Threads -> Stages] of remapIndices
  scan,           \* [Threads -> the locals of remapIndices]
  call,           \* the operation Main is in the middle of
  view,           \* the items of a view that applies every signal
  busy,           \* between onFilteringBegin and onFilteringEnd, as a listener sees it
  calls,          \* calls of the application so far
  shifted         \* for the properties only: a removal has lowered entries of items that
                  \* stayed where they were, and no source has been set since

vars == <<connected, source, kind, filter, indexMap, eventControl, remapping, stop,
          lastUpdate, pc, scan, call, view, busy, calls, shifted>>

modelVars == <<connected, source, kind, filter>>
mapVars == <<indexMap, lastUpdate, view, shifted>>
lockVars == <<eventControl>>
scanVars == <<remapping, stop, pc, scan, busy>>

Idle == [op |-> "idle"]
NoUpdate == [index |-> 0, count |-> 0, valid |-> FALSE]
NoScan == [i |-> 0, index |-> 0, count |-> 0]
Counted == {"counted", "begun", "scan", "finish"}
Stages == {"none", "spawned", "ending", "notify"} \cup Counted
Running(t) == pc[t] # "none"

filterMatched(x) == kind[x] \in filter

\* A set of indices, from the lowest on, as mapIndices and insertItems collect them.
Ascending(S) ==
  CHOOSE m \in [1..Cardinality(S) -> S] : \A j, k \in 1..Cardinality(S) : j < k => m[j] < m[k]
Matching(s) == Ascending({i \in 0..(Len(s) - 1) : filterMatched(s[i + 1])})
ItemsAt(s, m) == [k \in 1..Len(m) |-> s[m[k] + 1]]

\* std::lower_bound, as an offset from begin.  It is one place when m ascends; otherwise
\* bisection ends between a smaller entry and one that is not, wherever it finds the two.
LowerBounds(m, x) ==
  {p \in 0..Len(m) : (p = 0 \/ m[p] < x) /\ (p = Len(m) \/ m[p + 1] >= x)}
Minus(a, b) == (a + SizeModulus - b) % SizeModulus

\* What a listener does with signalPostItemsInserted and signalPostItemsRemoved.
Inserted(s, index, new) == SubSeq(s, 1, index) \o new \o SubSeq(s, index + 1, Len(s))
Removed(s, index, count) == SubSeq(s, 1, index) \o SubSeq(s, index + count + 1, Len(s))

Init ==
  /\ connected = FALSE /\ source = <<>>
  /\ kind \in [Items -> Kinds]
  /\ filter = Kinds
  /\ indexMap = <<>> /\ lastUpdate = NoUpdate /\ view = <<>>
  /\ eventControl = NoThread
  /\ remapping = 0 /\ stop = FALSE /\ busy = FALSE
  /\ pc = [t \in Threads |-> "none"]
  /\ scan = [t \in Threads |-> NoScan]
  /\ call = Idle /\ calls = 0 /\ shifted = FALSE

-----------------------------------------------------------------------------
(* Definitions whose name ends in Faulty are plausible mistakes; nothing     *)
(* refers to them, they document which property would notice.               *)
(*                                                                          *)
(* remapIndices, on a detached thread or, for refresh(true), on Main.       *)

Goto(t, stage) == pc' = [pc EXCEPT ![t] = stage]

CountUp(t) ==
  /\ pc[t] = "spawned"
  /\ remapping' = (remapping + 1) % CounterModulus
  /\ Goto(t, "counted")
  /\ UNCHANGED <<modelVars, mapVars, lockVars, stop, scan, call, busy, calls>>

FilteringBegin(t) ==
  /\ pc[t] = "counted"
  /\ busy' = TRUE
  /\ Goto(t, "begun")
  /\ UNCHANGED <<modelVars, mapVars, lockVars, remapping, stop, scan, call, calls>>

\* The loop runs up to and including the size.
StartScanFaulty(t) ==
  /\ pc[t] = "begun" /\ eventControl = NoThread
  /\ eventControl' = t
  /\ scan' = [scan EXCEPT ![t] = [i |-> 0, index |-> 0, count |-> Len(source) + 1]]
  /\ Goto(t, "scan")
  /\ UNCHANGED <<modelVars, mapVars, remapping, stop, call, busy, calls>>

StartScan(t) ==
  /\ pc[t] = "begun" /\ eventControl = NoThread
  /\ eventControl' = t
  /\ scan' = [scan EXCEPT ![t] = [i |-> 0, index |-> 0, count |-> Len(source)]]
  /\ Goto(t, IF source = <<>> THEN "finish" ELSE "scan")
  /\ UNCHANGED <<modelVars, mapVars, remapping, stop, call, busy, calls>>

\* The loop goes on with the next item unless it is stopped.
Advance(t, shown) ==
  /\ scan' = [scan EXCEPT ![t].i = @ + 1, ![t].index = @ + shown]
  /\ Goto(t, IF stop \/ scan[t].i + 1 = scan[t].count THEN "finish" ELSE "scan")

\* One turn of the loop, with the signals it sends.  Where model_ is null by now the code
\* calls through it; the thread then takes no further step.
ScanItem(t) ==
  LET i == scan[t].i
      index == scan[t].index
      itemInFilter == i < Len(source) /\ filterMatched(source[i + 1])
      indexInList == index < Len(indexMap) /\ indexMap[index + 1] = i
  IN
  /\ pc[t] = "scan" /\ connected
  /\ \/ /\ itemInFilter /\ indexInList
        /\ Advance(t, 1)
        /\ UNCHANGED <<indexMap, view>>
     \/ /\ ~itemInFilter /\ indexInList
        /\ Advance(t, 0)
        /\ indexMap' = Removed(indexMap, index, 1)
        /\ view' = Removed(view, index, 1)
     \/ /\ itemInFilter /\ ~indexInList
        /\ Advance(t, 1)
        /\ indexMap' = Inserted(indexMap, index, <<i>>)
        /\ view' = Inserted(view, index, ItemsAt(source, <<i>>))
     \/ /\ ~itemInFilter /\ ~indexInList
        /\ Advance(t, 0)
        /\ UNCHANGED <<indexMap, view>>
  /\ UNCHANGED <<modelVars, lastUpdate, shifted, lockVars, remapping, stop, call, busy, calls>>

\* A scan that was stopped cuts the map where it got to.
FinishScanCutFaulty(t) ==
  /\ pc[t] = "finish"
  /\ indexMap' = SubSeq(indexMap, 1, scan[t].index)
  /\ remapping' = (remapping + CounterModulus - 1) % CounterModulus
  /\ Goto(t, "ending")
  /\ UNCHANGED <<modelVars, view, lastUpdate, shifted, lockVars, stop, scan, call, busy, calls>>

\* resize tells nobody of the entries it drops.
FinishScan(t) ==
  /\ pc[t] = "finish"
  /\ IF stop THEN UNCHANGED indexMap ELSE indexMap' = SubSeq(indexMap, 1, scan[t].index)
  /\ remapping' = (remapping + CounterModulus - 1) % CounterModulus
  /\ Goto(t, "ending")
  /\ UNCHANGED <<modelVars, view, lastUpdate, shifted, lockVars, stop, scan, call, busy, calls>>

\* The thread leaves remapIndices: the guard releases the mutex.
Leave(t) ==
  /\ Goto(t, "none")
  /\ scan' = [scan EXCEPT ![t] = NoScan]
  /\ eventControl' = NoThread

LastOne == remapping = 0

FilteringGoesOn(t) ==
  /\ pc[t] = "ending" /\ ~LastOne
  /\ Leave(t)
  /\ UNCHANGED <<modelVars, mapVars, remapping, stop, call, busy, calls>>

FilteringEnds(t) ==
  /\ pc[t] = "ending" /\ LastOne
  /\ Goto(t, "notify")
  /\ UNCHANGED <<modelVars, mapVars, lockVars, remapping, stop, scan, call, busy, calls>>

FilteringEnd(t) ==
  /\ pc[t] = "notify"
  /\ busy' = FALSE
  /\ Leave(t)
  /\ UNCHANGED <<modelVars, mapVars, remapping, stop, call, calls>>

remapIndices(t) ==
  \/ CountUp(t) \/ FilteringBegin(t) \/ StartScan(t) \/ ScanItem(t)
  \/ FinishScan(t) \/ FilteringGoesOn(t) \/ FilteringEnds(t) \/ FilteringEnd(t)

-----------------------------------------------------------------------------
(* The calls of the owner.                                                  *)

Begins(record) ==
  /\ call = Idle /\ ~Running(Main) /\ calls < MaxCalls
  /\ call' = record
  /\ calls' = calls + 1

Done == call' = Idle /\ UNCHANGED calls

\* setFilter waits for the scan that is running, if there is one.
SetFilter(f) ==
  /\ eventControl = NoThread
  /\ Begins([op |-> "refresh", wait |-> FALSE])
  /\ filter' = f
  /\ UNCHANGED <<connected, source, kind, mapVars, lockVars, scanVars>>

\* The text of the filter changes under the model, which then refreshes.
FilterChanged(f) ==
  /\ Begins([op |-> "refresh", wait |-> FALSE])
  /\ filter' = f
  /\ UNCHANGED <<connected, source, kind, mapVars, lockVars, scanVars>>

Refresh(w) ==
  /\ Begins([op |-> "refresh", wait |-> w])
  /\ UNCHANGED <<modelVars, mapVars, lockVars, scanVars>>

\* One refresh at a time is thought to be enough.
RefreshPendingFaulty == remapping > 0

RefreshPending == remapping > 1

RefreshReturns ==
  /\ call.op = "refresh"
  /\ ~connected \/ (~call.wait /\ RefreshPending)
  /\ Done
  /\ UNCHANGED <<modelVars, mapVars, lockVars, scanVars>>

RefreshInPlace ==
  /\ call.op = "refresh" /\ call.wait /\ connected
  /\ Goto(Main, "spawned")
  /\ Done
  /\ UNCHANGED <<modelVars, mapVars, lockVars, remapping, stop, scan, busy>>

RefreshDetached ==
  /\ call.op = "refresh" /\ ~call.wait /\ connected /\ ~RefreshPending
  /\ \E t \in Refreshers : pc[t] = "none" /\ Goto(t, "spawned")
  /\ Done
  /\ UNCHANGED <<modelVars, mapVars, lockVars, remapping, stop, scan, busy>>

\* setSource: haltRemapping, which drops the source, and then the new source.
SetSource(s) ==
  /\ Begins([op |-> "halt", to |-> s])
  /\ stop' = TRUE
  /\ UNCHANGED <<modelVars, mapVars, lockVars, remapping, pc, scan, busy>>

\* No thread is counted at this moment.  One that has not counted itself yet is not
\* waited for.
RemappingHalted ==
  /\ call.op = "halt" /\ remapping = 0
  /\ call' = [call EXCEPT !.op = "drop"]
  /\ UNCHANGED <<modelVars, mapVars, lockVars, scanVars, calls>>

\* The end of haltRemapping drops the source without taking the mutex.
Disconnect ==
  /\ call.op = "drop"
  /\ connected' = FALSE /\ source' = <<>>
  /\ call' = [call EXCEPT !.op = "replace"]
  /\ UNCHANGED <<kind, filter, mapVars, lockVars, scanVars, calls>>

\* mapIndices returns before it clears the map when there is no source.  The
\* client resets its view, as WGListModel does on sourceChanged.
ReplaceSource ==
  /\ call.op = "replace" /\ eventControl = NoThread
  /\ connected' = call.to.present /\ source' = call.to.items
  /\ IF call.to.present THEN indexMap' = Matching(source') /\ shifted' = FALSE
                        ELSE UNCHANGED <<indexMap, shifted>>
  /\ view' = IF call.to.present THEN ItemsAt(source', indexMap') ELSE <<>>
  /\ remapping' = 0 /\ stop' = FALSE
  /\ Done
  /\ UNCHANGED <<kind, filter, lastUpdate, lockVars, pc, scan, busy>>

\* onDestructing drops the source, whatever threads are doing; nothing is signalled
\* and no scan is stopped.
SourceDestroyed ==
  /\ connected
  /\ Begins(Idle)
  /\ connected' = FALSE /\ source' = <<>>
  /\ UNCHANGED <<kind, filter, mapVars, lockVars, scanVars>>

-----------------------------------------------------------------------------
(* Changes of the source.  The handler of the pre signal takes               *)
(* eventControlMutex_, which the handler of the post signal releases.        *)

\* The mutex is not waited for.
TakeEventControlFaulty(record) ==
  /\ connected
  /\ Begins(record)
  /\ eventControl' = Main

TakeEventControl(record) ==
  /\ connected /\ eventControl = NoThread
  /\ Begins(record)
  /\ eventControl' = Main

preItemsInserted(index, new) ==
  /\ index <= Len(source) /\ Len(source) + Len(new) <= MaxLen
  /\ TakeEventControl([op |-> "insert", index |-> index, new |-> new])
  /\ UNCHANGED <<modelVars, mapVars, scanVars>>

\* The entries from the lower bound of the insertion on move up.
ShiftUp(m, newIndex, count) ==
  [k \in 1..Len(m) |-> IF k > newIndex THEN (m[k] + count) % SizeModulus ELSE m[k]]

postItemsInserted ==
  LET index == call.index
      count == Len(call.new)
      newIndices == Ascending({i \in index..(index + count - 1) : filterMatched(source'[i + 1])})
  IN
  /\ call.op = "insert"
  /\ source' = Inserted(source, index, call.new)
  /\ \E newIndex \in LowerBounds(indexMap, index) :
       /\ indexMap' = Inserted(ShiftUp(indexMap, newIndex, count), newIndex, newIndices)
       /\ view' = Inserted(view, newIndex, ItemsAt(source', newIndices))
  /\ eventControl' = NoThread
  /\ Done
  /\ UNCHANGED <<connected, kind, filter, lastUpdate, shifted, scanVars>>

\* The run of entries from the lower bound on that are not behind the last removed item.
\* The offset of the range is left as it was, at zero, when there are none.
findItemsToRemove(from, lastSourceIndex) ==
  LET run == {k \in (from + 1)..Len(indexMap) :
                \A j \in (from + 1)..k : indexMap[j] <= lastSourceIndex}
  IN [index |-> IF run = {} THEN lastUpdate.index ELSE from,
      count |-> Cardinality(run),
      valid |-> run # {} \/ lastUpdate.valid]

\* The entries behind the removed ones are moved but not lowered.
ShiftDownFaulty(m, update, count) == Removed(m, update.index, update.count)

ShiftDown(m, update, count) ==
  [k \in 1..(Len(m) - update.count) |->
     IF k <= update.index THEN m[k] ELSE Minus(m[k + update.count], count)]

\* When no shown item goes, the shift starts at zero, before the lower bound; a shown item
\* in between stays where it is, but its entry is lowered.
preItemsRemoved(index, count) ==
  /\ index + count <= Len(source)
  /\ TakeEventControl([op |-> "remove", index |-> index, count |-> count])
  /\ \E from \in LowerBounds(indexMap, index) :
       LET update == findItemsToRemove(from, index + count - 1) IN
       /\ lastUpdate' = update
       /\ indexMap' = ShiftDown(indexMap, update, count)
       /\ shifted' = (shifted \/ update.index < from)
  /\ UNCHANGED <<modelVars, view, scanVars>>

postItemsRemoved ==
  /\ call.op = "remove"
  /\ source' = Removed(source, call.index, call.count)
  /\ IF lastUpdate.valid
       THEN /\ view' = Removed(view, lastUpdate.index, lastUpdate.count)
            /\ lastUpdate' = NoUpdate
       ELSE UNCHANGED <<view, lastUpdate>>
  /\ eventControl' = NoThread
  /\ Done
  /\ UNCHANGED <<connected, kind, filter, indexMap, shifted, scanVars>>

preItemDataChanged(k, data) ==
  /\ k \in 1..Len(source)
  /\ TakeEventControl([op |-> "change", index |-> k - 1, data |-> data])
  /\ UNCHANGED <<modelVars, mapVars, scanVars>>

\* The item is judged before its data changes.
CheckUpdateTypeFaulty(was, data) ==
  LET now == kind[source[call.index + 1]] \in filter
  IN IF now = was THEN "IGNORE" ELSE IF now THEN "INSERT" ELSE "REMOVE"

checkUpdateType(was, data) ==
  LET now == data \in filter
  IN IF now = was THEN "IGNORE" ELSE IF now THEN "INSERT" ELSE "REMOVE"

postItemDataChanged ==
  LET i == call.index
      x == source[i + 1]
  IN
  /\ call.op = "change"
  /\ kind' = [kind EXCEPT ![x] = call.data]
  /\ \E newIndex \in LowerBounds(indexMap, i) :
       LET was == newIndex < Len(indexMap) /\ indexMap[newIndex + 1] = i
           type == checkUpdateType(was, call.data)
       IN CASE type = "INSERT" -> /\ indexMap' = Inserted(indexMap, newIndex, <<i>>)
                                  /\ view' = Inserted(view, newIndex, <<x>>)
            [] type = "REMOVE" -> /\ indexMap' = Removed(indexMap, newIndex, 1)
                                  /\ view' = Removed(view, newIndex, 1)
            [] OTHER -> UNCHANGED <<indexMap, view>>
  /\ eventControl' = NoThread
  /\ Done
  /\ UNCHANGED <<connected, source, filter, lastUpdate, shifted, scanVars>>

-----------------------------------------------------------------------------
NewItems == {new \in UNION {[1..n -> Items] : n \in 1..2} :
               /\ IsInjective(new)
               /\ \A k \in 1..Len(new) : \A j \in 1..Len(source) : new[k] # source[j]}

Application ==
  \/ \E f \in Filters : SetFilter(f) \/ FilterChanged(f)
  \/ \E w \in BOOLEAN : Refresh(w)
  \/ \E s \in Sources : SetSource([present |-> TRUE, items |-> s])
  \/ SetSource([present |-> FALSE, items |-> <<>>])
  \/ SourceDestroyed
  \/ \E index \in 0..MaxLen, new \in NewItems : preItemsInserted(index, new)
  \/ \E index \in 0..MaxLen, count \in 1..MaxLen : preItemsRemoved(index, count)
  \/ \E k \in 1..MaxLen, data \in Kinds : preItemDataChanged(k, data)

Continue ==
  \/ RefreshReturns \/ RefreshInPlace \/ RefreshDetached
  \/ RemappingHalted \/ Disconnect \/ ReplaceSource
  \/ postItemsInserted \/ postItemsRemoved \/ postItemDataChanged

Next == Application \/ Continue \/ \E t \in Threads : remapIndices(t)

Spec == Init /\ [][Next]_vars

\* A call that has begun goes on, and so does every thread; calls of the
\* application are not fair.
FairSpec ==
  Spec /\ WF_vars(Continue) /\ \A t \in Threads : WF_vars(remapIndices(t))

-----------------------------------------------------------------------------
\* The type of the state.
TypeOK ==
  /\ connected \in BOOLEAN /\ stop \in BOOLEAN /\ busy \in BOOLEAN
  /\ source \in Seq(Items) /\ kind \in [Items -> Kinds] /\ filter \in SUBSET Kinds
  /\ indexMap \in Seq(0..(SizeModulus - 1))
  /\ eventControl \in Threads \cup {NoThread}
  /\ remapping \in 0..(CounterModulus - 1)
  /\ pc \in [Threads -> Stages]
  /\ scan \in [Threads -> [i : 0..MaxLen, index : Nat, count : 0..MaxLen]]
  /\ lastUpdate \in [index : Nat, count : Nat, valid : BOOLEAN]

AtRest == connected /\ call.op \notin {"insert", "remove", "change"}

\* Between two changes of the source every entry of the map points into it, in
\* ascending order: what std::lower_bound, item and index rely on although scans
\* on other threads and shifts of the map by the handlers come in any order.  Not so
\* after a removal that has lowered entries it should not.
MapPointsIntoSource ==
  AtRest /\ ~shifted =>
    /\ \A k \in 1..Len(indexMap) : indexMap[k] < Len(source)
    /\ \A j, k \in 1..Len(indexMap) : j < k => indexMap[j] < indexMap[k]

\* A view that applies the insert and remove signals one by one shows what item
\* and size would return: every signal names the range that really changed,
\* and a resize, which sends none, never cuts entries off.
ViewMirrorsModel ==
  AtRest /\ ~shifted => view = ItemsAt(source, indexMap)

\* As long as the source is there a scan keeps its place in it and in the map, whatever
\* the handlers of source events want to do meanwhile: the list it counted has not changed,
\* and the entries of the items it has judged are the ones before its index.
ScanKeepsPlace ==
  \A t \in Threads : pc[t] = "scan" /\ connected =>
    /\ scan[t].count = Len(source) /\ scan[t].i < scan[t].count
    /\ ~shifted => scan[t].index \in LowerBounds(indexMap, scan[t].i)

\* A thread scans a source that has gone, or remapping_ does not count the threads: what
\* may become of a thread that setSource has not waited for, or of a source that dies.
Crashed == ~connected /\ \E t \in Threads : pc[t] = "scan"
Miscounted == remapping # Cardinality({t \in Threads : pc[t] \in Counted})

\* When the calls have ended, the list comes to show exactly what the filter accepts,
\* although refresh drops a request when two are already counted, a scan may be stopped
\* anywhere, and setSource waits for scans to end.
Settles ==
  <>[](Crashed \/ Miscounted \/
       /\ call = Idle /\ \A t \in Threads : ~Running(t)
       /\ connected /\ ~shifted => indexMap = Matching(source))

\* Every step is one the view was promised, until a removal has lowered entries it should
\* not; setting a source makes good for it.
Sound == connected /\ ~shifted
Promise == INSTANCE FilteredView WITH source <- IF Sound THEN source ELSE <<>>,
                                      view <- IF Sound THEN view ELSE <<>>
ImplementsView == Promise!Spec

-----------------------------------------------------------------------------
(* What comments say of the code, and the code does not do.                  *)

\* "all indices after the remove point need to be adjusted by subtracting one": the
\* entries of items before it stay as they are.
EntriesBeforeStay ==
  [][call = Idle /\ call'.op = "remove" =>
       \A k \in 1..Len(indexMap) : indexMap[k] < call'.index => indexMap'[k] = indexMap[k]]_vars

\* "Kill any current remapping going on in the background": when setSource has dropped the
\* old source nobody is scanning it any more.
RemappingKilled == call.op = "replace" => \A t \in Threads : pc[t] # "scan"
=============================================================================
