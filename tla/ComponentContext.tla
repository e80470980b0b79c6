--------------------------- MODULE ComponentContext ---------------------------
(***************************************************************************)
(* The dependency system: interfaces registered in the global context, the *)
(* contexts of the modules that forward its notifications, and their two   *)
(* kinds of listeners: the holder of a Depends, which caches a pointer to  *)
(* an interface, and the executor behind registerCallback, which calls an  *)
(* init function when all interfaces it needs are there and a fini         *)
(* function before one of them goes.                                       *)
(*                                                                         *)
(* Everything happens on one thread, but the functions called register and *)
(* deregister interfaces themselves, so notifications nest: "active" is    *)
(* the stack of the calls in progress, the innermost one last.  A plugin   *)
(* registers an implementation in PostLoad when it is in Initial, and in   *)
(* the init function of its executor otherwise; a fini function takes back *)
(* what init registered.                                                   *)
(*                                                                         *)
(* Definitions whose name ends in Faulty are plausible mistakes; nothing   *)
(* refers to them, they document which property would notice.              *)
(***************************************************************************)
EXTENDS Integers, SequencesExt

CONSTANTS
  Plugins,
  Interfaces,
  Implementations,
  Face,           \* [Implementations -> Interfaces]
  Provider,       \* [Implementations -> Plugins]
  Initial,        \* the implementations registered in PostLoad
  Needs,          \* [Plugins -> the arguments of the functions of its executor]
  Wants,          \* [Plugins -> the interface its holder caches]
  Late,           \* plugins whose holder is constructed by the init function
  Null

ASSUME ContextAssumption ==
  /\ Face \in [Implementations -> Interfaces]
  /\ Provider \in [Implementations -> Plugins]
  /\ Initial \subseteq Implementations /\ Null \notin Implementations
  /\ Needs \in [Plugins -> SUBSET Interfaces]
  /\ Wants \in [Plugins -> Interfaces]
  /\ Late \subseteq Plugins

VARIABLES
  contexts,       \* the contexts of modules, as listed in listeners_ of the global one
  listeners,      \* [Plugins -> listeners_ of its context]
  interfaces,     \* interfaces_ of the global context
  inited,         \* [Plugins -> inited_ of its executor]
  cached,         \* [Plugins -> pValue_ of its holder]
  active

contextVars == <<contexts, listeners, interfaces, inited, cached, active>>

ByPostLoad(p) == {i \in Initial : Provider[i] = p}
ByCallback(p) == {i \in Implementations \ Initial : Provider[i] = p}
Provided(p) == ByPostLoad(p) \cup ByCallback(p)
Registered(face) == {i \in interfaces : Face[i] = face}
Available(p) == \A face \in Needs[p] : Registered(face) # {}
Has(p, listener) == Contains(listeners[p], listener)

\* All listeners of all contexts, and those of a set of them that are notified next:
\* contexts are notified in their order, the listeners of a context in theirs.  While
\* calls are in progress both only grow at their ends, so a copy has the same order.
Listeners == Plugins \X {"holder", "executor"}
AllListeners == {l \in Listeners : Contains(contexts, l[1]) /\ Has(l[1], l[2])}

Position(s, x) == CHOOSE k \in DOMAIN s : s[k] = x
Precedes(l, m) ==
  \/ Position(contexts, l[1]) < Position(contexts, m[1])
  \/ l[1] = m[1] /\ Position(listeners[l[1]], l[2]) < Position(listeners[l[1]], m[2])
NextOf(S) == {l \in S : \A m \in S \ {l} : Precedes(l, m)}

ContextInit ==
  /\ contexts = <<>> /\ listeners = [p \in Plugins |-> <<>>]
  /\ interfaces = {}
  /\ inited = [p \in Plugins |-> FALSE] /\ cached = [p \in Plugins |-> Null]
  /\ active = <<>>

Busy == active # <<>>
Innermost == Last(active)
Call(call) == active' = Append(active, call)
Return == active' = Front(active)
Goes(op) == Busy /\ Innermost.op = op

-----------------------------------------------------------------------------
(* registerInterface and deregisterInterface.                                *)

\* The interface is there before anybody is notified.
registerInterface(i) ==
  /\ interfaces' = interfaces \cup {i}
  /\ Call([op |-> "registered", impl |-> i, called |-> {}])

\* The interface is gone before anybody is notified.
DeregisterInterfaceFaulty(i) ==
  /\ interfaces' = interfaces \ {i}
  /\ Call([op |-> "deregistered", impl |-> i, left |-> AllListeners])

\* The listeners are copied, and the interface stays until they have been called.
deregisterInterface(i) ==
  /\ UNCHANGED interfaces
  /\ Call([op |-> "deregistered", impl |-> i, left |-> AllListeners])

\* The notifications are repeated until they change no list of listeners, and
\* nobody is called twice.  A holder that a nested call adds to a context already
\* notified is notified here too, with an interface that it has found by itself.
Uncalled == AllListeners \ Innermost.called

RegistrationDone ==
  /\ Goes("registered") /\ Uncalled = {}
  /\ Return
  /\ UNCHANGED <<contexts, listeners, interfaces, inited, cached>>

DeregistrationDone ==
  /\ Goes("deregistered") /\ Innermost.left = {}
  /\ interfaces' = interfaces \ {Innermost.impl}
  /\ Return
  /\ UNCHANGED <<contexts, listeners, inited, cached>>

\* The innermost call has taken its next listener.
CalledOne(l) == [Innermost EXCEPT !.called = @ \cup {l}]
LeftOne(l) == [Innermost EXCEPT !.left = @ \ {l}]

-----------------------------------------------------------------------------
(* Holders of Depends.                                                       *)

\* The constructor listens first and asks afterwards; interfaces_ is not ordered,
\* so any implementation may be the answer.
Answers(p) == IF Registered(Wants[p]) = {} THEN {Null} ELSE Registered(Wants[p])
Holds(p) == \E answer \in Answers(p) : cached' = [cached EXCEPT ![p] = answer]

HolderRegistered ==
  /\ Goes("registered")
  /\ \E l \in NextOf(Uncalled) :
       /\ l[2] = "holder"
       /\ cached' = [cached EXCEPT ![l[1]] =
                       IF Wants[l[1]] = Face[Innermost.impl] THEN Innermost.impl ELSE @]
       /\ active' = Append(Front(active), CalledOne(l))
  /\ UNCHANGED <<contexts, listeners, interfaces, inited>>

HolderDeregistered ==
  /\ Goes("deregistered")
  /\ \E l \in NextOf(Innermost.left) :
       /\ l[2] = "holder"
       /\ cached' = [cached EXCEPT ![l[1]] = IF @ = Innermost.impl THEN Null ELSE @]
       /\ active' = Append(Front(active), LeftOne(l))
  /\ UNCHANGED <<contexts, listeners, interfaces, inited>>

-----------------------------------------------------------------------------
(* Executors of callbacks.                                                   *)

\* onInterfaceRegistered: the init function is called when everything needed is
\* there, and constructs the holder of a plugin in Late the first time.
Executes(p) == ~inited[p] /\ Available(p)

\* A second holder is constructed when the function is called again.
ExecuteFaulty(p) ==
  /\ inited' = [inited EXCEPT ![p] = TRUE]
  /\ IF p \in Late
       THEN listeners' = [listeners EXCEPT ![p] = Append(@, "holder")] /\ Holds(p)
       ELSE UNCHANGED <<listeners, cached>>

Execute(p) ==
  /\ inited' = [inited EXCEPT ![p] = TRUE]
  /\ IF p \in Late /\ ~Has(p, "holder")
       THEN listeners' = [listeners EXCEPT ![p] = Append(@, "holder")] /\ Holds(p)
       ELSE UNCHANGED <<listeners, cached>>

InitCall(p) == [op |-> "init", plugin |-> p]
FiniCall(p) == [op |-> "fini", plugin |-> p]

ExecutorRegistered ==
  /\ Goes("registered")
  /\ \E l \in NextOf(Uncalled) :
       /\ l[2] = "executor"
       /\ \/ /\ Executes(l[1]) /\ Execute(l[1])
             /\ active' = Front(active) \o <<CalledOne(l), InitCall(l[1])>>
          \/ /\ ~Executes(l[1])
             /\ active' = Append(Front(active), CalledOne(l))
             /\ UNCHANGED <<listeners, inited, cached>>
  /\ UNCHANGED <<contexts, interfaces>>

\* onInterfaceDeregistered: the fini function is called before the interface goes.
ExecutorDeregistered ==
  /\ Goes("deregistered")
  /\ \E l \in NextOf(Innermost.left) :
       /\ l[2] = "executor"
       /\ \/ /\ inited[l[1]] /\ Face[Innermost.impl] \in Needs[l[1]]
             /\ active' = Front(active) \o <<LeftOne(l), FiniCall(l[1])>>
          \/ /\ ~(inited[l[1]] /\ Face[Innermost.impl] \in Needs[l[1]])
             /\ active' = Append(Front(active), LeftOne(l))
  /\ UNCHANGED <<contexts, listeners, interfaces, inited, cached>>

InitFunction ==
  /\ Goes("init")
  /\ \/ \E i \in ByCallback(Innermost.plugin) \ interfaces : registerInterface(i)
     \/ ByCallback(Innermost.plugin) \subseteq interfaces /\ Return /\ UNCHANGED interfaces
  /\ UNCHANGED <<contexts, listeners, inited, cached>>

\* inited_ is never taken back.
FiniFunctionFaulty ==
  /\ Goes("fini")
  /\ \/ \E i \in ByCallback(Innermost.plugin) \cap interfaces : deregisterInterface(i)
     \/ ByCallback(Innermost.plugin) \cap interfaces = {} /\ Return /\ UNCHANGED interfaces
  /\ UNCHANGED <<contexts, listeners, inited, cached>>

\* inited_ is reset when the function has returned.
FiniFunction ==
  /\ Goes("fini")
  /\ \/ /\ \E i \in ByCallback(Innermost.plugin) \cap interfaces : deregisterInterface(i)
        /\ UNCHANGED inited
     \/ /\ ByCallback(Innermost.plugin) \cap interfaces = {}
        /\ inited' = [inited EXCEPT ![Innermost.plugin] = FALSE]
        /\ Return /\ UNCHANGED interfaces
  /\ UNCHANGED <<contexts, listeners, cached>>

Notify ==
  \/ RegistrationDone \/ DeregistrationDone
  \/ HolderRegistered \/ HolderDeregistered
  \/ ExecutorRegistered \/ ExecutorDeregistered
  \/ InitFunction \/ FiniFunction

-----------------------------------------------------------------------------
Calls ==
  [op : {"registered"}, impl : Implementations, called : SUBSET Listeners]
  \cup [op : {"deregistered"}, impl : Implementations, left : SUBSET Listeners]
  \cup [op : {"init", "fini"}, plugin : Plugins]

ContextTypeOK ==
  /\ contexts \in Seq(Plugins) /\ IsInjective(contexts)
  /\ listeners \in [Plugins -> Seq({"holder", "executor"})]
  /\ \A p \in Plugins : IsInjective(listeners[p])
  /\ interfaces \in SUBSET Implementations
  /\ inited \in [Plugins -> BOOLEAN] /\ cached \in [Plugins -> Implementations \cup {Null}]
  /\ active \in Seq(Calls)
=============================================================================
