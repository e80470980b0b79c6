----------------------------- MODULE FilteredView -----------------------------
(***************************************************************************)
(* What a filtered list promises to its view, whatever threads, locks and  *)
(* index map it uses: the view shows items of the source in the order of   *)
(* the source, every change of the source reaches it in one piece, and     *)
(* between changes it is corrected one item at a time, each correction     *)
(* bringing it closer to the items the filter accepts.                     *)
(***************************************************************************)
EXTENDS Integers, Sequences, FiniteSets

CONSTANTS Items, Kinds

VARIABLES source, kind, filter, view

vars == <<source, kind, filter, view>>

Contents(s) == {s[k] : k \in 1..Len(s)}

\* v is what is left of s when the items that are not in S go: at says where each is in s.
Selects(v, s, S) ==
  \E at \in [1..Len(v) -> 1..Len(s)] :
    /\ v = [k \in 1..Len(v) |-> s[at[k]]]
    /\ \A j, k \in 1..Len(v) : j < k => at[j] < at[k]
    /\ \A i \in 1..Len(s) : s[i] \in S <=> \E k \in 1..Len(v) : at[k] = i

Init ==
  /\ source = <<>> /\ view = <<>>
  /\ kind \in [Items -> Kinds]
  /\ filter = Kinds

ChangeFilter ==
  /\ filter' \in SUBSET Kinds
  /\ UNCHANGED <<source, kind, view>>

\* One item the view is wrong about is put right.
Correct ==
  \E x \in Contents(source) :
    /\ (x \in Contents(view)) # (kind[x] \in filter)
    /\ Selects(view', source, IF x \in Contents(view)
                                THEN Contents(view) \ {x} ELSE Contents(view) \cup {x})
    /\ UNCHANGED <<source, kind, filter>>

\* Items come, or go; the view follows for exactly those items.
InsertItems ==
  /\ Len(source') > Len(source)
  /\ Selects(source, source', Contents(source))
  /\ Selects(view', source', Contents(view) \cup
               {x \in Contents(source') \ Contents(source) : kind[x] \in filter})
  /\ UNCHANGED <<kind, filter>>

RemoveItems ==
  /\ Len(source') < Len(source)
  /\ Selects(source', source, Contents(source'))
  /\ Selects(view', view, Contents(source'))
  /\ UNCHANGED <<kind, filter>>

\* The item whose data changes is judged anew, and only that item.
ChangeItem ==
  \E x \in Contents(source) :
    /\ kind' \in [Items -> Kinds]
    /\ \A y \in Items \ {x} : kind'[y] = kind[y]
    /\ Selects(view', source, IF kind'[x] \in filter
                                THEN Contents(view) \cup {x} ELSE Contents(view) \ {x})
    /\ UNCHANGED <<source, filter>>

\* A source is given up before another one is connected; the view starts again
\* from what the filter accepts.
Disconnect ==
  /\ source' = <<>> /\ view' = <<>>
  /\ UNCHANGED <<kind, filter>>

Connect ==
  /\ source = <<>>
  /\ Selects(view', source', {x \in Contents(source') : kind[x] \in filter})
  /\ UNCHANGED <<kind, filter>>

\* Nothing is promised of items while no source is shown.
ChangeUnseen ==
  /\ source = <<>> /\ source' = <<>> /\ view' = <<>>
  /\ kind' \in [Items -> Kinds]
  /\ UNCHANGED filter

Next == ChangeFilter \/ Correct \/ InsertItems \/ RemoveItems \/ ChangeItem
        \/ Disconnect \/ Connect \/ ChangeUnseen

Spec == Init /\ [][Next]_vars
=============================================================================
