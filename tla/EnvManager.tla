------------------------------ MODULE EnvManager ------------------------------
(***************************************************************************)
(* core_environment_system: the environments an application edits in, the  *)
(* state each registered component keeps for each of them, and the active  *)
(* environment, which other threads read through a LockedState while the   *)
(* main thread switches, resets and removes.                               *)
(*                                                                         *)
(* activeEnvironmentLock_ is a SharedLock, which ReadWriteLock implements. *)
(* A LockedState is a read guard; copying one locks again, which no other  *)
(* reader notices, so it is one guard here.  Every call but the ones that  *)
(* return a LockedState is made on the main thread, so the stage of the    *)
(* call in progress is one variable.  The component History is the command *)
(* manager, which keeps pointers into its state of the active environment. *)
(*                                                                         *)
(* Definitions whose name ends in Faulty are plausible mistakes; nothing   *)
(* refers to them, they document which property would notice.              *)
(***************************************************************************)
EXTENDS Integers, FiniteSets

CONSTANTS
  Default,        \* defaultEnviromentId
  Envs,           \* the other environments an application may create
  Components,     \* components that may register
  History,        \* the command manager
  Guards,         \* LockedStates of other threads
  MainGuard,      \* the guards of the main thread
  Nothing,
  MaxCalls,       \* bound on the calls on the main thread
  MaxLocks        \* bound on the LockedStates taken

ASSUME EnvironmentAssumption ==
  /\ Default \notin Envs /\ History \in Components
  /\ MainGuard \notin Guards
  /\ MaxCalls \in Nat /\ MaxLocks \in Nat

AllEnvs == Envs \cup {Default}

VARIABLES
  created,        \* envMap_
  states,         \* [AllEnvs -> components with a state there]
  epoch,          \* [AllEnvs -> how often its states were destroyed]
  active,         \* activeEnv_
  components,     \* envComponentMap_
  ready,          \* components between initEnvComponent and finiEnvComponent
  call,           \* the call in progress on the main thread, and its stage
  reading, writing,  \* activeEnvironmentLock_
  held,           \* [Guards -> what the LockedState refers to]
  told,           \* [Components -> the last callback about a change]
  selected,       \* the state that History's previousSelectedIndex_ points into
  calls, locks

vars == <<created, states, epoch, active, components, ready, call, reading, writing,
          held, told, selected, calls, locks>>
envVars == <<created, states, epoch, active>>
componentVars == <<components, ready>>
heldVars == <<held, locks>>
toldVars == <<told, selected>>

Lock == INSTANCE SharedLock WITH Guards <- Guards \cup {MainGuard}

Idle == [stage |-> "idle"]
Existing == created \cup {Default}
StateOf(e, c) == [env |-> e, epoch |-> epoch[e], component |-> c]
Alive(s) == s.env \in Existing /\ s.epoch = epoch[s.env] /\ s.component \in states[s.env]

Init ==
  /\ created = {}
  /\ states = [e \in AllEnvs |-> {}] /\ epoch = [e \in AllEnvs |-> 0]
  /\ active = Default
  /\ components = {} /\ ready = {}
  /\ call = Idle /\ calls = 0
  /\ reading = {} /\ writing = {}
  /\ held = [g \in Guards |-> Nothing] /\ locks = 0
  /\ told = [c \in Components |-> Nothing] /\ selected = Nothing

-----------------------------------------------------------------------------
(* LockedStates of other threads.                                            *)

\* getActiveStateForEnvComponent takes the read lock, finds the state of the
\* active environment and keeps a copy of the guard.
getActiveState(g, c) ==
  /\ held[g] = Nothing /\ locks < MaxLocks
  /\ c \in ready
  /\ Lock!AcquireRead(g)
  /\ held' = [held EXCEPT ![g] = StateOf(active, c)]
  /\ locks' = locks + 1
  /\ UNCHANGED <<envVars, componentVars, call, toldVars, calls>>

\* The pointer goes, but a copy of the guard stays.
DropStateFaulty(g) ==
  /\ g \in reading
  /\ held' = [held EXCEPT ![g] = Nothing]
  /\ UNCHANGED <<envVars, componentVars, reading, writing, call, toldVars, calls, locks>>

DropState(g) ==
  /\ Lock!ReleaseRead(g)
  /\ held' = [held EXCEPT ![g] = Nothing]
  /\ UNCHANGED <<envVars, componentVars, call, toldVars, calls, locks>>

-----------------------------------------------------------------------------
(* Calls on the main thread.                                                 *)

Begins(record) ==
  /\ call = Idle /\ calls < MaxCalls
  /\ call' = record
  /\ calls' = calls + 1

Continues(record) == call' = record /\ UNCHANGED calls

Change(op, new, victims) ==
  [stage |-> "pre", op |-> op, old |-> active, new |-> new, victims |-> victims]

createNewEnvironment(e) ==
  /\ e \notin created
  /\ Begins(Idle)
  /\ created' = created \cup {e}
  /\ states' = [states EXCEPT ![e] = components]
  /\ UNCHANGED <<epoch, active, componentVars, reading, writing, heldVars, toldVars>>

\* Nothing happens when the environment is active already.
switchEnvironment(e) ==
  /\ e \in Existing \ {active}
  /\ Begins(Change("switch", e, {}))
  /\ UNCHANGED <<envVars, componentVars, reading, writing, heldVars, toldVars>>

\* The active environment is replaced without telling anybody.
RemoveEnvironmentFaulty(e) ==
  /\ e \in created
  /\ IF e = active
       THEN Begins([Change("switch", Default, {e}) EXCEPT !.stage = "lock"])
       ELSE Begins([stage |-> "erase", victims |-> {e}])
  /\ UNCHANGED <<envVars, componentVars, reading, writing, heldVars, toldVars>>

\* Switches away from the environment first when it is the active one.
removeEnvironment(e) ==
  /\ e \in created
  /\ IF e = active THEN Begins(Change("switch", Default, {e}))
                   ELSE Begins([stage |-> "erase", victims |-> {e}])
  /\ UNCHANGED <<envVars, componentVars, reading, writing, heldVars, toldVars>>

\* On exit: the default environment, and then every other one is removed.
shutdownEnvironments ==
  /\ created # {}
  /\ IF active # Default THEN Begins(Change("switch", Default, created))
                         ELSE Begins([stage |-> "erase", victims |-> created])
  /\ UNCHANGED <<envVars, componentVars, reading, writing, heldVars, toldVars>>

\* The default environment is not in envMap_, so it is never reset.
resetCurrentEnvironment ==
  /\ active # Default
  /\ Begins(Change("reset", active, {}))
  /\ UNCHANGED <<envVars, componentVars, reading, writing, heldVars, toldVars>>

registerEnvComponent(c) ==
  /\ c \notin components
  /\ Begins([stage |-> "lock", op |-> "register", component |-> c])
  /\ components' = components \cup {c}
  /\ told' = [told EXCEPT ![c] = Nothing]
  /\ UNCHANGED <<envVars, ready, reading, writing, heldVars, selected>>

\* The command manager's fini keeps its pointer, which dangles once the states are gone.
deregisterEnvComponent(c) ==
  /\ c \in components
  /\ Begins([stage |-> "lock", op |-> "deregister", component |-> c])
  /\ components' = components \ {c} /\ ready' = ready \ {c}
  /\ UNCHANGED <<envVars, reading, writing, heldVars, toldVars>>

\* firePreEnvChange; the command manager lets go of its pointer.
FirePreKeepFaulty ==
  /\ call.stage = "pre"
  /\ told' = [c \in Components |-> IF c \in components
                THEN [kind |-> "pre", old |-> call.old, new |-> call.new] ELSE told[c]]
  /\ UNCHANGED selected
  /\ Continues([call EXCEPT !.stage = "lock"])
  /\ UNCHANGED <<envVars, componentVars, reading, writing, heldVars>>

firePreEnvChange ==
  /\ call.stage = "pre"
  /\ told' = [c \in Components |-> IF c \in components
                THEN [kind |-> "pre", old |-> call.old, new |-> call.new] ELSE told[c]]
  /\ selected' = IF History \in components THEN Nothing ELSE selected
  /\ Continues([call EXCEPT !.stage = "lock"])
  /\ UNCHANGED <<envVars, componentVars, reading, writing, heldVars>>

\* The environment is changed without waiting for the readers.
TakeWriteLockFaulty ==
  /\ call.stage = "lock"
  /\ writing' = {MainGuard} /\ UNCHANGED reading
  /\ Continues([call EXCEPT !.stage = "locked"])
  /\ UNCHANGED <<envVars, componentVars, heldVars, toldVars>>

TakeWriteLock ==
  /\ call.stage = "lock"
  /\ Lock!AcquireWrite(MainGuard)
  /\ Continues([call EXCEPT !.stage = "locked"])
  /\ UNCHANGED <<envVars, componentVars, heldVars, toldVars>>

SetActive ==
  /\ call.stage = "locked" /\ call.op = "switch"
  /\ active' = call.new
  /\ Lock!ReleaseWrite(MainGuard)
  /\ Continues([call EXCEPT !.stage = "post"])
  /\ UNCHANGED <<created, states, epoch, componentVars, heldVars, toldVars>>

ResetStates ==
  /\ call.stage = "locked" /\ call.op = "reset"
  /\ states' = [states EXCEPT ![active] = components]
  /\ epoch' = [epoch EXCEPT ![active] = @ + 1]
  /\ Lock!ReleaseWrite(MainGuard)
  /\ Continues([call EXCEPT !.stage = "post"])
  /\ UNCHANGED <<created, active, componentVars, heldVars, toldVars>>

\* A component that comes late gets its state in the active environment alone.
RegisterStatesFaulty ==
  /\ call.stage = "locked" /\ call.op = "register"
  /\ states' = [states EXCEPT ![active] = @ \cup {call.component}]
  /\ ready' = ready \cup {call.component}
  /\ selected' = IF call.component = History THEN StateOf(active, History) ELSE selected
  /\ Lock!ReleaseWrite(MainGuard)
  /\ Continues(Idle)
  /\ UNCHANGED <<created, epoch, active, components, heldVars, told>>

\* Every environment gets a state of the component; the command manager's init
\* then takes its pointer.
RegisterStates ==
  /\ call.stage = "locked" /\ call.op = "register"
  /\ states' = [e \in AllEnvs |-> IF e \in Existing THEN states[e] \cup {call.component}
                                                    ELSE states[e]]
  /\ ready' = ready \cup {call.component}
  /\ selected' = IF call.component = History THEN StateOf(active, History) ELSE selected
  /\ Lock!ReleaseWrite(MainGuard)
  /\ Continues(Idle)
  /\ UNCHANGED <<created, epoch, active, components, heldVars, told>>

DeregisterStates ==
  /\ call.stage = "locked" /\ call.op = "deregister"
  /\ states' = [e \in AllEnvs |-> states[e] \ {call.component}]
  /\ Lock!ReleaseWrite(MainGuard)
  /\ Continues(Idle)
  /\ UNCHANGED <<created, epoch, active, componentVars, heldVars, toldVars>>

firePostEnvChange ==
  /\ call.stage = "post"
  /\ told' = [c \in Components |-> IF c \in components
                THEN [kind |-> "post", old |-> call.old, new |-> call.new] ELSE told[c]]
  /\ selected' = IF History \in components THEN StateOf(active, History) ELSE selected
  /\ Continues(IF call.victims = {} THEN Idle
                                    ELSE [stage |-> "erase", victims |-> call.victims])
  /\ UNCHANGED <<envVars, componentVars, reading, writing, heldVars>>

\* fini and erase, without the lock.
EraseEnvironment ==
  /\ call.stage = "erase"
  /\ \E e \in call.victims :
       /\ created' = created \ {e}
       /\ states' = [states EXCEPT ![e] = {}]
       /\ epoch' = [epoch EXCEPT ![e] = @ + 1]
       /\ Continues(IF call.victims = {e} THEN Idle
                    ELSE [call EXCEPT !.victims = @ \ {e}])
  /\ UNCHANGED <<active, componentVars, reading, writing, heldVars, toldVars>>

Application ==
  \/ \E e \in Envs : createNewEnvironment(e) \/ removeEnvironment(e)
  \/ \E e \in AllEnvs : switchEnvironment(e)
  \/ shutdownEnvironments \/ resetCurrentEnvironment
  \/ \E c \in Components : registerEnvComponent(c) \/ deregisterEnvComponent(c)

Continue ==
  \/ firePreEnvChange \/ TakeWriteLock \/ SetActive \/ ResetStates \/ RegisterStates
  \/ DeregisterStates \/ firePostEnvChange \/ EraseEnvironment

Next ==
  \/ Application \/ Continue
  \/ \E g \in Guards : DropState(g) \/ \E c \in Components : getActiveState(g, c)

Spec == Init /\ [][Next]_vars

\* The main thread goes on, and every LockedState is dropped in the end.
FairSpec == Spec /\ WF_vars(Continue) /\ \A g \in Guards : WF_vars(DropState(g))

-----------------------------------------------------------------------------
\* The type of the state.
StateRecord == [env : AllEnvs, epoch : Nat, component : Components]
Callback == [kind : {"pre", "post"}, old : AllEnvs, new : AllEnvs]
Stages == {"idle", "pre", "lock", "locked", "post", "erase"}

TypeOK ==
  /\ created \in SUBSET Envs /\ active \in Existing
  /\ states \in [AllEnvs -> SUBSET Components] /\ epoch \in [AllEnvs -> Nat]
  /\ ready \subseteq components /\ components \in SUBSET Components
  /\ call.stage \in Stages
  /\ reading \in SUBSET Guards /\ writing \in SUBSET {MainGuard}
  /\ held \in [Guards -> StateRecord \cup {Nothing}]
  /\ told \in [Components -> Callback \cup {Nothing}]
  /\ selected \in StateRecord \cup {Nothing}

\* What a thread holds through a LockedState is alive and belongs to the active
\* environment for as long as it holds it, whatever the main thread switches,
\* resets, removes or deregisters.
HeldStateIsActive ==
  \A g \in reading : held[g].env = active /\ Alive(held[g])

\* Every component that may be asked for its state has one in every environment,
\* including those made before it registered and those reset since; the search in
\* getComponentState never fails.
StatesComplete ==
  writing = {} => \A e \in Existing : ready \subseteq states[e]

\* The callbacks of a change come in pairs around it and agree with it: from the
\* time the active environment may change until the change is over, every
\* registered component has been told which change it is, and between changes the
\* last one it was told of led to the environment that is active.
Changing == call.stage \in {"lock", "locked", "post"} /\ call.op \in {"switch", "reset"}
CallbacksPaired ==
  \A c \in components :
    IF Changing
      THEN told[c] = [kind |-> "pre", old |-> call.old, new |-> call.new]
      ELSE told[c] # Nothing => told[c].kind = "post" /\ told[c].new = active

\* While the command manager is registered, from its init to its fini, the pointer it
\* keeps into its state of the active environment never outlives that state, and between
\* calls it is the active one's.  After fini it does outlive it: nothing clears it.
PointerFollows ==
  History \in ready =>
    /\ selected # Nothing => Alive(selected)
    /\ call = Idle => selected = StateOf(active, History)

\* Every call on the main thread returns: a switch waits for readers, which do
\* not wait for it.
CallsReturn == []<>(call = Idle)
=============================================================================
