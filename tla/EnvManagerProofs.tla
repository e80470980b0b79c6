--------------------------- MODULE EnvManagerProofs ---------------------------
(***************************************************************************)
(* Proofs about EnvManager for every set of environments, components and   *)
(* threads, and any number of calls.                                       *)
(***************************************************************************)
EXTENDS EnvManager, TLAPS

ChangeRecord == [stage : {"pre", "lock", "locked", "post"}, op : {"switch", "reset"},
                 old : AllEnvs, new : AllEnvs, victims : SUBSET Envs]
RegisterRecord == [stage : {"lock", "locked"}, op : {"register", "deregister"},
                   component : Components]
EraseRecord == [stage : {"erase"}, victims : SUBSET Envs]

\* What the call in progress knows stays true until it uses it.
CallOK ==
  /\ call \in {Idle} \cup ChangeRecord \cup RegisterRecord \cup EraseRecord
  /\ call.stage \in {"pre", "lock", "locked", "post"} /\ call.op \in {"switch", "reset"} =>
       /\ call.new \in Existing \ call.victims /\ call.victims \subseteq created
       /\ call.op = "reset" => call.new = active
       /\ active = IF call.stage = "post" THEN call.new ELSE call.old
  /\ call.stage = "erase" => call.victims \subseteq created \ {active}
  /\ ready = IF call.stage \in {"lock", "locked"} /\ call.op = "register"
               THEN components \ {call.component} ELSE components
  /\ call.stage \in {"lock", "locked"} /\ call.op = "register" => call.component \in components
  /\ call.stage \in {"lock", "locked"} /\ call.op = "deregister" => call.component \notin components

\* The lock is held for writing exactly while the call is at its critical section.
LockOK ==
  /\ writing = IF call.stage = "locked" THEN {MainGuard} ELSE {}
  /\ writing # {} => reading = {}

\* States are there at all times, not only while nobody writes.
AlwaysComplete == \A e \in Existing : ready \subseteq states[e]

\* The registered command manager's pointer is the active environment's but in the middle
\* of a change.
PointerExact ==
  History \in ready => selected = IF Changing THEN Nothing ELSE StateOf(active, History)

\* The inductive invariant.
IInv ==
  /\ TypeOK /\ CallOK /\ LockOK
  /\ HeldStateIsActive /\ AlwaysComplete /\ PointerExact /\ CallbacksPaired

USE DEF Idle, Existing, AllEnvs

\* The initial state satisfies the invariant.
LEMMA InitEstablishes == Init => IInv
BY EnvironmentAssumption DEF Init, IInv, TypeOK, CallOK, LockOK, HeldStateIsActive,
   AlwaysComplete, PointerExact, CallbacksPaired, Changing, Stages

\* A thread takes or drops a LockedState.
LEMMA LockedStates ==
  ASSUME IInv, NEW g \in Guards,
         DropState(g) \/ \E c \in Components : getActiveState(g, c)
  PROVE  IInv'
<1> USE DEF IInv, TypeOK
<1>1. UNCHANGED <<envVars, componentVars, call, toldVars, writing>>
  BY DEF DropState, getActiveState, Lock!AcquireRead, Lock!ReleaseRead
<1>2. CallOK' /\ AlwaysComplete' /\ PointerExact' /\ CallbacksPaired'
  BY <1>1 DEF CallOK, AlwaysComplete, PointerExact, CallbacksPaired, Changing, StateOf,
     envVars, componentVars, toldVars
<1>3. CASE DropState(g)
  BY <1>1, <1>2, <1>3 DEF DropState, Lock!ReleaseRead, LockOK, HeldStateIsActive, Alive,
     envVars, componentVars, toldVars, Stages
<1>4. ASSUME NEW c \in Components, getActiveState(g, c) PROVE IInv'
  <2>1. active \in Existing /\ c \in states[active]
    BY <1>4 DEF getActiveState, AlwaysComplete
  <2>2. StateOf(active, c) \in StateRecord /\ Alive(StateOf(active, c))
    BY <2>1 DEF StateOf, StateRecord, Alive
  <2>3. HeldStateIsActive'
    BY <1>1, <1>4, <2>2 DEF getActiveState, Lock!AcquireRead, HeldStateIsActive, Alive,
       envVars, StateOf
  <2>4. TypeOK' /\ LockOK'
    BY <1>1, <1>4, <2>2 DEF getActiveState, Lock!AcquireRead, LockOK, envVars,
       componentVars, toldVars
  <2> QED
    BY <1>2, <2>3, <2>4
<1> QED
  BY <1>3, <1>4

\* A step that leaves the environments alone and neither takes nor drops a lock.
LEMMA HeldUnchanged ==
  ASSUME HeldStateIsActive, UNCHANGED <<envVars, reading, held>>
  PROVE  HeldStateIsActive'
BY DEF HeldStateIsActive, Alive, envVars

\* The beginning of a call keeps the invariant.
LEMMA Calls ==
  ASSUME IInv, Application PROVE IInv'
<1> USE DEF IInv, TypeOK, Begins, Stages
<1>0. call = Idle /\ writing = {} /\ ready = components
  <2>1. call = Idle
    BY DEF Application, createNewEnvironment, removeEnvironment, switchEnvironment,
       shutdownEnvironments, resetCurrentEnvironment, registerEnvComponent,
       deregisterEnvComponent
  <2> QED
    BY <2>1 DEF LockOK, CallOK
<1>1. ASSUME NEW e \in Envs, createNewEnvironment(e) PROVE IInv'
  <2> USE <1>1 DEF createNewEnvironment, heldVars, componentVars, toldVars
  <2>1. HeldStateIsActive'
    BY <1>0, EnvironmentAssumption DEF HeldStateIsActive, Alive
  <2>2. AlwaysComplete'
    BY <1>0 DEF AlwaysComplete
  <2>3. PointerExact' /\ CallbacksPaired'
    BY <1>0 DEF PointerExact, CallbacksPaired, Changing, StateOf
  <2>4. CallOK' /\ LockOK'
    BY <1>0 DEF CallOK, LockOK
  <2> QED
    BY <2>1, <2>2, <2>3, <2>4
<1>2. ASSUME NEW e \in AllEnvs, switchEnvironment(e) PROVE IInv'
  <2> USE <1>2 DEF switchEnvironment, heldVars, componentVars, toldVars, envVars
  <2>1. call' = [stage |-> "pre", op |-> "switch", old |-> active, new |-> e, victims |-> {}]
        /\ call' \in ChangeRecord
    BY DEF Change, ChangeRecord
  <2>2. CallOK' /\ LockOK'
    BY <1>0, <2>1 DEF CallOK, LockOK
  <2>3. PointerExact' /\ CallbacksPaired' /\ AlwaysComplete'
    BY <1>0, <2>1 DEF PointerExact, CallbacksPaired, Changing, StateOf, AlwaysComplete
  <2> QED
    BY <2>1, <2>2, <2>3, HeldUnchanged
<1>3. ASSUME NEW victims \in SUBSET created, victims # {},
             call' = IF active \in victims
                       THEN Change("switch", Default, victims)
                       ELSE [stage |-> "erase", victims |-> victims],
             UNCHANGED <<envVars, componentVars, reading, writing, heldVars, toldVars>>
      PROVE  IInv'
  <2> USE <1>3 DEF heldVars, componentVars, toldVars, envVars
  <2>1. victims \in SUBSET Envs /\ Default \notin victims
    BY EnvironmentAssumption
  <2>2. call' \in ChangeRecord \cup EraseRecord
    BY <2>1 DEF Change, ChangeRecord, EraseRecord
  <2>3. CallOK' /\ LockOK'
    BY <1>0, <2>1, <2>2 DEF CallOK, LockOK, Change
  <2>4. PointerExact' /\ CallbacksPaired' /\ AlwaysComplete'
    BY <1>0 DEF PointerExact, CallbacksPaired, Changing, StateOf, AlwaysComplete, Change
  <2>5. TypeOK'
    BY <1>0 DEF Change
  <2> QED
    BY <2>3, <2>4, <2>5, HeldUnchanged
<1>4. ASSUME NEW e \in Envs, removeEnvironment(e) PROVE IInv'
  <2>1. {e} \in SUBSET created /\ {e} # {} /\ (active \in {e} <=> e = active)
    BY <1>4 DEF removeEnvironment
  <2>2. call' = IF active \in {e} THEN Change("switch", Default, {e})
                                  ELSE [stage |-> "erase", victims |-> {e}]
    BY <1>4, <2>1 DEF removeEnvironment
  <2>3. UNCHANGED <<envVars, componentVars, reading, writing, heldVars, toldVars>>
    BY <1>4 DEF removeEnvironment
  <2> QED
    BY <1>3, <2>1, <2>2, <2>3
<1>5. CASE shutdownEnvironments
  <2>1. active # Default <=> active \in created
    BY EnvironmentAssumption
  <2>2. call' = IF active \in created THEN Change("switch", Default, created)
                                      ELSE [stage |-> "erase", victims |-> created]
    BY <1>5, <2>1 DEF shutdownEnvironments
  <2>3. created # {} /\ UNCHANGED <<envVars, componentVars, reading, writing, heldVars, toldVars>>
    BY <1>5 DEF shutdownEnvironments
  <2> QED
    BY <1>3, <2>2, <2>3
<1>6. CASE resetCurrentEnvironment
  <2> USE <1>6 DEF resetCurrentEnvironment, heldVars, componentVars, toldVars, envVars
  <2>1. call' = [stage |-> "pre", op |-> "reset", old |-> active, new |-> active, victims |-> {}]
        /\ call' \in ChangeRecord
    BY DEF Change, ChangeRecord
  <2>2. CallOK' /\ LockOK'
    BY <1>0, <2>1 DEF CallOK, LockOK
  <2>3. PointerExact' /\ CallbacksPaired' /\ AlwaysComplete'
    BY <1>0, <2>1 DEF PointerExact, CallbacksPaired, Changing, StateOf, AlwaysComplete
  <2> QED
    BY <2>1, <2>2, <2>3, HeldUnchanged
<1>7. ASSUME NEW c \in Components, registerEnvComponent(c) PROVE IInv'
  <2> USE <1>7 DEF registerEnvComponent, heldVars, componentVars, toldVars, envVars
  <2>1. call' \in RegisterRecord
    BY DEF RegisterRecord
  <2>2. CallOK' /\ LockOK'
    BY <1>0, <2>1 DEF CallOK, LockOK
  <2>3. PointerExact' /\ CallbacksPaired' /\ AlwaysComplete'
    BY <1>0 DEF PointerExact, CallbacksPaired, Changing, StateOf, AlwaysComplete
  <2>4. TypeOK'
    BY <1>0
  <2> QED
    BY <2>2, <2>3, <2>4, HeldUnchanged
<1>8. ASSUME NEW c \in Components, deregisterEnvComponent(c) PROVE IInv'
  <2> USE <1>8 DEF deregisterEnvComponent, heldVars, componentVars, toldVars, envVars
  <2>1. call' \in RegisterRecord
    BY DEF RegisterRecord
  <2>2. CallOK' /\ LockOK'
    BY <1>0, <2>1 DEF CallOK, LockOK
  <2>3. PointerExact' /\ CallbacksPaired' /\ AlwaysComplete'
    BY <1>0 DEF PointerExact, CallbacksPaired, Changing, StateOf, AlwaysComplete
  <2>4. TypeOK'
    BY <1>0
  <2> QED
    BY <2>2, <2>3, <2>4, HeldUnchanged
<1> QED
  BY <1>1, <1>2, <1>4, <1>5, <1>6, <1>7, <1>8 DEF Application

\* The callbacks before a change, which take the pointer, and the write lock.
LEMMA BeforeChange ==
  ASSUME IInv, firePreEnvChange \/ TakeWriteLock PROVE IInv'
<1> USE DEF IInv, TypeOK, Continues, Stages, heldVars, componentVars, toldVars, envVars
<1>1. CASE firePreEnvChange
  <2> USE <1>1 DEF firePreEnvChange
  <2>1. call \in ChangeRecord /\ call' \in ChangeRecord
    BY DEF CallOK, ChangeRecord, RegisterRecord, EraseRecord
  <2>2. CallOK' /\ LockOK'
    BY <2>1 DEF CallOK, LockOK, ChangeRecord
  <2>3. Changing' /\ ready = components
    BY <2>1 DEF Changing, CallOK, ChangeRecord
  <2>4. PointerExact'
    BY <2>3 DEF PointerExact
  <2>5. CallbacksPaired'
    BY <2>1, <2>3 DEF CallbacksPaired, ChangeRecord
  <2>6. AlwaysComplete'
    BY DEF AlwaysComplete
  <2>7. TypeOK'
    BY <2>1 DEF ChangeRecord, Callback
  <2> QED
    BY <2>2, <2>4, <2>5, <2>6, <2>7, HeldUnchanged
<1>2. CASE TakeWriteLock
  <2> USE <1>2 DEF TakeWriteLock, Lock!AcquireWrite
  <2>1. call \in ChangeRecord \cup RegisterRecord /\ call' \in ChangeRecord \cup RegisterRecord
    BY DEF CallOK, ChangeRecord, RegisterRecord, EraseRecord
  <2>2. CallOK' /\ LockOK'
    BY <2>1 DEF CallOK, LockOK, ChangeRecord, RegisterRecord
  <2>3. /\ Changing' <=> Changing
        /\ call'.op = call.op
        /\ Changing => call'.old = call.old /\ call'.new = call.new
    BY <2>1 DEF Changing, ChangeRecord, RegisterRecord
  <2>4. PointerExact' /\ CallbacksPaired' /\ AlwaysComplete'
    BY <2>3 DEF PointerExact, StateOf, CallbacksPaired, AlwaysComplete
  <2>5. HeldStateIsActive'
    BY DEF HeldStateIsActive, Alive
  <2>6. TypeOK'
    BY <2>1
  <2> QED
    BY <2>2, <2>4, <2>5, <2>6
<1> QED
  BY <1>1, <1>2

\* What is done under the write lock, when no LockedState is held.
LEMMA UnderLock ==
  ASSUME IInv, SetActive \/ ResetStates \/ RegisterStates \/ DeregisterStates PROVE IInv'
<1> USE DEF IInv, TypeOK, Continues, Stages, heldVars, componentVars, toldVars, envVars,
        Lock!ReleaseWrite
<1>1. reading = {} /\ reading' = {} /\ writing' = {} /\ HeldStateIsActive'
  BY DEF LockOK, SetActive, ResetStates, RegisterStates, DeregisterStates, HeldStateIsActive
<1>2. CASE SetActive
  <2> USE <1>2 DEF SetActive
  <2>1. call \in ChangeRecord /\ call' \in ChangeRecord
    BY DEF CallOK, ChangeRecord, RegisterRecord, EraseRecord
  <2>2. CallOK' /\ LockOK'
    BY <1>1, <2>1 DEF CallOK, LockOK, ChangeRecord
  <2>3. Changing /\ Changing' /\ call'.old = call.old /\ call'.new = call.new
    BY <2>1 DEF Changing, ChangeRecord
  <2>4. PointerExact' /\ CallbacksPaired' /\ AlwaysComplete'
    BY <2>3 DEF PointerExact, CallbacksPaired, AlwaysComplete
  <2>5. TypeOK'
    BY <1>1, <2>1 DEF CallOK, ChangeRecord
  <2> QED
    BY <1>1, <2>2, <2>4, <2>5
<1>3. CASE ResetStates
  <2> USE <1>3 DEF ResetStates
  <2>1. call \in ChangeRecord /\ call' \in ChangeRecord
    BY DEF CallOK, ChangeRecord, RegisterRecord, EraseRecord
  <2>2. CallOK' /\ LockOK'
    BY <1>1, <2>1 DEF CallOK, LockOK, ChangeRecord
  <2>3. Changing /\ Changing' /\ call'.old = call.old /\ call'.new = call.new
    BY <2>1 DEF Changing, ChangeRecord
  <2>4. PointerExact' /\ CallbacksPaired' /\ AlwaysComplete'
    BY <2>3 DEF PointerExact, CallbacksPaired, AlwaysComplete
  <2>5. TypeOK'
    BY <1>1, <2>1
  <2> QED
    BY <1>1, <2>2, <2>4, <2>5
<1>4. CASE RegisterStates
  <2> USE <1>4 DEF RegisterStates
  <2>1. /\ call \in RegisterRecord /\ call' = Idle
        /\ call.component \in components /\ ready = components \ {call.component}
        /\ ready' = components
    BY DEF CallOK, ChangeRecord, RegisterRecord, EraseRecord
  <2>2. CallOK' /\ LockOK'
    BY <1>1, <2>1 DEF CallOK, LockOK
  <2>3. ~Changing /\ ~Changing'
    BY <2>1 DEF Changing
  <2>4. AlwaysComplete'
    BY <2>1 DEF AlwaysComplete
  <2>5. PointerExact' /\ CallbacksPaired'
    BY <2>1, <2>3 DEF PointerExact, CallbacksPaired, StateOf
  <2>6. TypeOK'
    <3>1. selected' \in StateRecord \cup {Nothing}
      BY EnvironmentAssumption DEF StateOf, StateRecord
    <3> QED
      BY <1>1, <2>1, <3>1 DEF RegisterRecord
  <2> QED
    BY <1>1, <2>2, <2>4, <2>5, <2>6
<1>5. CASE DeregisterStates
  <2> USE <1>5 DEF DeregisterStates
  <2>1. /\ call \in RegisterRecord /\ call' = Idle
        /\ call.component \notin components /\ ready = components
    BY DEF CallOK, ChangeRecord, RegisterRecord, EraseRecord
  <2>2. CallOK' /\ LockOK'
    BY <1>1, <2>1 DEF CallOK, LockOK
  <2>3. ~Changing /\ ~Changing'
    BY <2>1 DEF Changing
  <2>4. AlwaysComplete'
    BY <2>1 DEF AlwaysComplete
  <2>5. PointerExact' /\ CallbacksPaired'
    BY <2>1, <2>3 DEF PointerExact, CallbacksPaired, StateOf
  <2>6. TypeOK'
    BY <1>1, <2>1
  <2> QED
    BY <1>1, <2>2, <2>4, <2>5, <2>6
<1> QED
  BY <1>2, <1>3, <1>4, <1>5

\* The callbacks after a change, which give the pointer back.
LEMMA AfterChange ==
  ASSUME IInv, firePostEnvChange PROVE IInv'
<1> USE DEF IInv, TypeOK, Continues, Stages, componentVars, envVars, firePostEnvChange
<1>1. /\ call \in ChangeRecord /\ ready = components
      /\ call' = IF call.victims = {} THEN Idle
                                      ELSE [stage |-> "erase", victims |-> call.victims]
  BY DEF CallOK, ChangeRecord, RegisterRecord, EraseRecord
<1>2. call' \in {Idle} \cup EraseRecord
  BY <1>1 DEF ChangeRecord, EraseRecord
<1>3. CallOK' /\ LockOK'
  <2>1. call.victims \subseteq created \ {active}
    BY <1>1 DEF CallOK, ChangeRecord
  <2>2. call'.stage \in {"idle", "erase"} /\ (call'.stage = "erase" => call'.victims = call.victims)
    BY <1>1
  <2>3. CallOK'
    BY <1>1, <1>2, <2>1, <2>2 DEF CallOK
  <2>4. LockOK'
    BY <1>1, <2>2 DEF LockOK, ChangeRecord
  <2> QED
    BY <2>3, <2>4
<1>4. ~Changing'
  BY <1>1 DEF Changing
<1>5. Changing /\ call.new = active
  BY <1>1 DEF Changing, CallOK, ChangeRecord
<1>6. PointerExact'
  BY <1>1, <1>4, <1>5 DEF PointerExact, StateOf
<1>7. CallbacksPaired'
  BY <1>1, <1>4, <1>5 DEF CallbacksPaired
<1>8. AlwaysComplete'
  BY DEF AlwaysComplete
<1>9. TypeOK'
  <2>1. StateOf(active, History) \in StateRecord
    BY EnvironmentAssumption DEF StateOf, StateRecord
  <2>2. [kind |-> "post", old |-> call.old, new |-> call.new] \in Callback
    BY <1>1 DEF Callback, ChangeRecord
  <2> QED
    BY <1>1, <2>1, <2>2 DEF heldVars
<1> QED
  BY <1>3, <1>6, <1>7, <1>8, <1>9, HeldUnchanged DEF heldVars

\* An environment goes: it is neither the active one nor locked by anybody.
LEMMA Erasing ==
  ASSUME IInv, EraseEnvironment PROVE IInv'
<1> USE DEF IInv, TypeOK, Continues, Stages, heldVars, componentVars, toldVars
<1>1. PICK e \in call.victims :
        /\ created' = created \ {e}
        /\ states' = [states EXCEPT ![e] = {}]
        /\ epoch' = [epoch EXCEPT ![e] = @ + 1]
        /\ call' = IF call.victims = {e} THEN Idle ELSE [call EXCEPT !.victims = @ \ {e}]
  BY DEF EraseEnvironment
<1>2. /\ call \in EraseRecord /\ e \in created \ {active} /\ e \in Envs
      /\ ready = components /\ UNCHANGED <<active, components, ready, reading, writing>>
  BY <1>1 DEF EraseEnvironment, CallOK, ChangeRecord, RegisterRecord, EraseRecord
<1>3. call' \in {Idle} \cup EraseRecord /\ (call' # Idle => call'.victims = call.victims \ {e})
  BY <1>1, <1>2 DEF EraseRecord
<1>4. CallOK' /\ LockOK'
  BY <1>1, <1>2, <1>3 DEF CallOK, LockOK, EraseRecord
<1>5. ~Changing /\ ~Changing'
  BY <1>2, <1>3 DEF Changing, EraseRecord
<1>6. PointerExact' /\ CallbacksPaired'
  BY <1>1, <1>2, <1>5 DEF EraseEnvironment, PointerExact, CallbacksPaired, StateOf
<1>7. AlwaysComplete'
  BY <1>1, <1>2, EnvironmentAssumption DEF AlwaysComplete
<1>8. HeldStateIsActive'
  <2>1. UNCHANGED <<held, reading, active>>
    BY DEF EraseEnvironment
  <2>2. epoch'[active] = epoch[active] /\ states'[active] = states[active] /\ active \in Existing'
    BY <1>1, <1>2
  <2>3. ASSUME NEW g \in reading PROVE held[g].env = active /\ Alive(held[g])'
    <3>1. held[g].env = active /\ Alive(held[g])
      BY DEF HeldStateIsActive
    <3> QED
      BY <2>1, <2>2, <3>1 DEF Alive
  <2> QED
    BY <2>1, <2>3 DEF HeldStateIsActive
<1>9. TypeOK'
  BY <1>1, <1>2, <1>3, EnvironmentAssumption DEF EraseEnvironment, EraseRecord
<1> QED
  BY <1>4, <1>6, <1>7, <1>8, <1>9

\* Every step preserves the invariant.
LEMMA StepPreserves == IInv /\ [Next]_vars => IInv'
<1> SUFFICES ASSUME IInv, [Next]_vars PROVE IInv'
  OBVIOUS
<1>1. CASE UNCHANGED vars
  BY <1>1 DEF vars, IInv, TypeOK, CallOK, LockOK, HeldStateIsActive, AlwaysComplete,
     PointerExact, CallbacksPaired, Changing, Alive, StateOf
<1> QED
  BY <1>1, LockedStates, Calls, BeforeChange, UnderLock, AfterChange, Erasing
  DEF Next, Continue

\* The invariant holds in every reachable state.
THEOREM Invariance == Spec => []IInv
BY InitEstablishes, StepPreserves, PTL DEF Spec

\* The state keeps its type.
THEOREM TypeCorrect == Spec => []TypeOK
BY Invariance, PTL DEF IInv

\* A LockedState refers to a live state of the active environment while it is held.
THEOREM LockedStatesValid == Spec => []HeldStateIsActive
BY Invariance, PTL DEF IInv

\* Every component that may ask for its state has one in every environment.
THEOREM StatesAlwaysThere == Spec => []StatesComplete
<1>1. IInv => StatesComplete
  BY DEF IInv, AlwaysComplete, StatesComplete
<1> QED
  BY Invariance, <1>1, PTL

\* The callbacks of a change come in pairs that agree with it.
THEOREM CallbacksAgree == Spec => []CallbacksPaired
BY Invariance, PTL DEF IInv

\* While the command manager is registered its pointer is valid, and right between calls.
THEOREM PointerValid == Spec => []PointerFollows
<1>1. IInv => PointerFollows
  <2> SUFFICES ASSUME IInv, History \in ready
               PROVE  /\ selected # Nothing => Alive(selected)
                      /\ call = Idle => selected = StateOf(active, History)
    BY DEF PointerFollows
  <2>1. ASSUME selected # Nothing PROVE Alive(selected)
    <3>1. selected = StateOf(active, History) /\ History \in states[active] /\ active \in Existing
      BY <2>1 DEF IInv, PointerExact, AlwaysComplete, TypeOK
    <3> QED
      BY <3>1 DEF Alive, StateOf
  <2>2. ASSUME call = Idle PROVE selected = StateOf(active, History)
    BY <2>2 DEF IInv, PointerExact, Changing
  <2> QED
    BY <2>1, <2>2
<1> QED
  BY Invariance, <1>1, PTL
=============================================================================
