------------------------------ MODULE SharedLock ------------------------------
(* What a reader/writer lock promises: any number of guards read at once, or   *)
(* one of them writes alone.                                                   *)
CONSTANT Guards

VARIABLES reading, writing

vars == <<reading, writing>>

Init == reading = {} /\ writing = {}

AcquireRead(g) ==
  /\ g \notin reading /\ writing = {}
  /\ reading' = reading \cup {g}
  /\ UNCHANGED writing

AcquireWrite(g) ==
  /\ reading = {} /\ writing = {}
  /\ writing' = {g}
  /\ UNCHANGED reading

ReleaseRead(g) ==
  /\ g \in reading
  /\ reading' = reading \ {g}
  /\ UNCHANGED writing

ReleaseWrite(g) ==
  /\ g \in writing
  /\ writing' = writing \ {g}
  /\ UNCHANGED reading

Next == \E g \in Guards : \/ AcquireRead(g) \/ AcquireWrite(g)
                          \/ ReleaseRead(g) \/ ReleaseWrite(g)

Spec == Init /\ [][Next]_vars
=============================================================================
