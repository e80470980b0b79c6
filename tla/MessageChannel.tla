---------------------------- MODULE MessageChannel ----------------------------
(* What the logging system promises: messages are handed, in the order in     *)
(* which they were logged and each exactly once, to every logger registered   *)
(* at that moment.                                                            *)
EXTENDS Integers, Sequences

CONSTANT Loggers

VARIABLES queue, sent, registered, received

vars == <<queue, sent, registered, received>>

Init ==
  /\ queue = <<>> /\ sent = 0
  /\ registered = {}
  /\ received = [l \in Loggers |-> <<>>]

Send ==
  /\ sent' = sent + 1
  /\ queue' = Append(queue, sent')
  /\ UNCHANGED <<registered, received>>

Hand ==
  /\ queue # <<>>
  /\ queue' = Tail(queue)
  /\ received' = [l \in Loggers |-> IF l \in registered THEN Append(received[l], Head(queue))
                                                        ELSE received[l]]
  /\ UNCHANGED <<sent, registered>>

Subscribe(l) ==
  /\ registered' = registered \cup {l}
  /\ UNCHANGED <<queue, sent, received>>

Unsubscribe(l) ==
  /\ registered' = registered \ {l}
  /\ UNCHANGED <<queue, sent, received>>

Next == Send \/ Hand \/ \E l \in Loggers : Subscribe(l) \/ Unsubscribe(l)

Spec == Init /\ [][Next]_vars
=============================================================================
