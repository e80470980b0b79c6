----------------------------- MODULE PluginManager -----------------------------
(***************************************************************************)
(* GenericPluginManager: plugins are loaded, initialised, finalised,       *)
(* unloaded and destroyed in steps, each for a list of plugins at a time,  *)
(* while other plugins keep running and depend on them.                    *)
(*                                                                         *)
(* A step notifies its plugins one after another; what a plugin does when  *)
(* it is notified makes calls of ComponentContext, which have to return    *)
(* before the next plugin's turn.  "agenda" is what is left of the step.   *)
(* What plugins do of their own in Initialise and Finalise is left out.    *)
(* Every library can be loaded.                                            *)
(***************************************************************************)
EXTENDS ComponentContext

CONSTANTS
  Lazy,           \* plugins that leave deregistering to the destructor of their context
  MaxSteps        \* bound on the steps run

ASSUME PluginAssumption == IsFiniteSet(Plugins) /\ Lazy \subseteq Plugins /\ MaxSteps \in Nat

VARIABLES
  pluginStates,   \* pluginStates_, "none" for a plugin that is not in it
  agenda,
  steps

pluginVars == <<pluginStates, agenda, steps>>
vars == <<contextVars, pluginVars>>

Init ==
  /\ ContextInit
  /\ pluginStates = [p \in Plugins |-> "none"]
  /\ agenda = <<>> /\ steps = 0

\* Lists of plugins, without repetitions, that are all in one state.
Lists(state) ==
  {s \in UNION {[1..n -> {p \in Plugins : pluginStates[p] = state}] : n \in 1..Cardinality(Plugins)} :
     IsInjective(s)}

Turns(stage, names) == [k \in 1..Len(names) |-> [stage |-> stage, plugin |-> names[k]]]

\* No step is in progress.
Idle == agenda = <<>> /\ ~Busy

\* The states of the plugins, which nothing reads during a step, are set at once.
Run(turns) ==
  /\ Idle /\ steps < MaxSteps
  /\ agenda' = turns
  /\ steps' = steps + 1
  /\ UNCHANGED contextVars

Enter(names, state) ==
  pluginStates' = [p \in Plugins |-> IF Contains(names, p) THEN state ELSE pluginStates[p]]

\* Libraries and contexts first, then every PluginMain, then PostLoad.
runLoadStep ==
  \E names \in Lists("none") :
    /\ Run(Turns("load", names) \o Turns("create", names) \o Turns("postLoad", names))
    /\ Enter(names, "PostLoad")

runInitiliseStep ==
  \E names \in Lists("PostLoad") : Run(<<>>) /\ Enter(names, "Initialise")

runFinaliseStep ==
  \E names \in Lists("Initialise") : Run(<<>>) /\ Enter(names, "Finalise")

runUnloadStep ==
  \E names \in Lists("Finalise") :
    /\ Run(Turns("unload", Reverse(names)))
    /\ Enter(names, "Unload")

\* Every PluginMain first, then the contexts.
runDestroyStep ==
  \E names \in Lists("Unload") :
    /\ Run(Turns("destroy", Reverse(names)) \o Turns("context", Reverse(names)))
    /\ Enter(names, "none")

-----------------------------------------------------------------------------
(* The turn of one plugin.                                                   *)

Turn(stage) == ~Busy /\ agenda # <<>> /\ Head(agenda).stage = stage
Plugin == Head(agenda).plugin
TurnEnds == agenda' = Tail(agenda)

LoadPlugin ==
  /\ Turn("load")
  /\ contexts' = Append(contexts, Plugin)
  /\ TurnEnds
  /\ UNCHANGED <<listeners, interfaces, inited, cached, active, pluginStates, steps>>

\* The new executor waits for the next registration.
CreatePluginFaulty ==
  /\ Turn("create")
  /\ listeners' = [listeners EXCEPT ![Plugin] =
                     IF Plugin \in Late THEN <<"executor">> ELSE <<"holder", "executor">>]
  /\ IF Plugin \in Late THEN UNCHANGED cached ELSE Holds(Plugin)
  /\ TurnEnds
  /\ UNCHANGED <<contexts, interfaces, inited, active, pluginStates, steps>>

\* The constructor of the PluginMain: a holder, unless it comes later, and the
\* executor, which is told of every interface that is there.
CreatePlugin ==
  /\ Turn("create")
  /\ LET starts == Available(Plugin) /\ interfaces # {}
         holder == Plugin \notin Late \/ starts
     IN /\ listeners' = [listeners EXCEPT ![Plugin] =
                           IF Plugin \notin Late THEN <<"holder", "executor">>
                           ELSE IF starts THEN <<"executor", "holder">> ELSE <<"executor">>]
        /\ IF holder THEN Holds(Plugin) ELSE UNCHANGED cached
        /\ inited' = [inited EXCEPT ![Plugin] = starts]
        /\ IF starts THEN Call(InitCall(Plugin)) ELSE UNCHANGED active
  /\ TurnEnds
  /\ UNCHANGED <<contexts, interfaces, pluginStates, steps>>

PostLoad ==
  /\ Turn("postLoad")
  /\ LET left == ByPostLoad(Plugin) \ interfaces
     IN \/ (\E i \in left : registerInterface(i)) /\ UNCHANGED agenda
        \/ left = {} /\ TurnEnds /\ UNCHANGED <<interfaces, active>>
  /\ UNCHANGED <<contexts, listeners, inited, cached, pluginStates, steps>>

UnloadPlugin ==
  /\ Turn("unload")
  /\ LET left == IF Plugin \in Lazy THEN {} ELSE Provided(Plugin) \cap interfaces
     IN \/ (\E i \in left : deregisterInterface(i)) /\ UNCHANGED agenda
        \/ left = {} /\ TurnEnds /\ UNCHANGED <<interfaces, active>>
  /\ UNCHANGED <<contexts, listeners, inited, cached, pluginStates, steps>>

\* The executor goes, with a last call of its fini function, and then the
\* PluginMain with its holder.
DestroyPlugin ==
  /\ Turn("destroy")
  /\ \/ /\ inited[Plugin]
        /\ Call(FiniCall(Plugin))
        /\ UNCHANGED <<listeners, cached, agenda>>
     \/ /\ ~inited[Plugin]
        /\ listeners' = [listeners EXCEPT ![Plugin] = <<>>]
        /\ cached' = [cached EXCEPT ![Plugin] = Null]
        /\ TurnEnds /\ UNCHANGED active
  /\ UNCHANGED <<contexts, interfaces, inited, pluginStates, steps>>

\* The context goes without the interfaces registered through it.
DestroyContextFaulty ==
  /\ Turn("context")
  /\ contexts' = RemoveAt(contexts, Position(contexts, Plugin))
  /\ TurnEnds
  /\ UNCHANGED <<listeners, interfaces, active, inited, cached, pluginStates, steps>>

\* What is still registered through the context goes with it.
DestroyContext ==
  /\ Turn("context")
  /\ LET left == Provided(Plugin) \cap interfaces
     IN \/ /\ \E i \in left : deregisterInterface(i)
           /\ UNCHANGED <<contexts, agenda>>
        \/ /\ left = {}
           /\ contexts' = RemoveAt(contexts, Position(contexts, Plugin))
           /\ TurnEnds /\ UNCHANGED <<interfaces, active>>
  /\ UNCHANGED <<listeners, inited, cached, pluginStates, steps>>

Step ==
  \/ LoadPlugin \/ CreatePlugin \/ PostLoad \/ UnloadPlugin \/ DestroyPlugin
  \/ DestroyContext

Next ==
  \/ runLoadStep \/ runInitiliseStep \/ runFinaliseStep \/ runUnloadStep \/ runDestroyStep
  \/ Step
  \/ Notify /\ UNCHANGED pluginVars

Spec == Init /\ [][Next]_vars

-----------------------------------------------------------------------------
States == {"none", "PostLoad", "Initialise", "Finalise", "Unload"}
StageNames == {"load", "create", "postLoad", "unload", "destroy", "context"}

\* The type of the state; no module has two contexts, and no plugin listens twice with
\* its holder or its executor, however often its init function has been called.
TypeOK ==
  /\ ContextTypeOK
  /\ pluginStates \in [Plugins -> States]
  /\ agenda \in Seq([stage : StageNames, plugin : Plugins])
  /\ steps \in 0..MaxSteps

\* An executor counts as initialised only while everything it needs is registered,
\* however init and fini functions nest, so the assertion of finiStaticInit never
\* fires and a fini function may still use its arguments; and when a step is over,
\* every executor that has everything it needs is initialised.
CallbacksMatch ==
  /\ \A p \in Plugins : inited[p] => Available(p)
  /\ Idle => \A p \in Plugins : Has(p, "executor") /\ Available(p) => inited[p]

\* A pointer that a Depends caches never outlives the registration of the
\* implementation, and when a step is over it is there if the interface has one.
PointersCurrent ==
  /\ \A p \in Plugins : cached[p] # Null => cached[p] \in Registered(Wants[p])
  /\ Idle => \A p \in Plugins :
       Has(p, "holder") /\ Registered(Wants[p]) # {} => cached[p] # Null

\* When the library of a plugin is gone nothing refers to it: it has no context, no
\* listener, no implementation of it is registered and nobody caches one, although
\* others went on depending on it until the end.
NothingLeftBehind ==
  Idle => \A p \in Plugins : pluginStates[p] = "none" =>
    /\ ~Contains(contexts, p) /\ listeners[p] = <<>> /\ ~inited[p]
    /\ Provided(p) \cap interfaces = {}
    /\ \A q \in Plugins : cached[q] \notin Provided(p)
=============================================================================
