------------------------- MODULE ReadWriteLockProofs -------------------------
(***************************************************************************)
(* Proofs about ReadWriteLock for every finite set of guards and every     *)
(* assignment of guards to threads.                                        *)
(***************************************************************************)
EXTENDS ReadWriteLock, FiniteSetTheorems, TLAPS

\* The inductive invariant: the counters describe the held guards, and the call
\* discipline of the threads is kept.
IInv ==
  /\ TypeOK
  /\ ReadersCounted
  /\ Exclusion
  /\ NoLostWakeup
  /\ NestedReadNeverBlocks
  /\ CallDiscipline

USE DEF Stages

\* The set of read guards is finite, so its cardinality is a natural number that
\* is zero only when nobody reads.
LEMMA ReadHeldFinite ==
  /\ IsFiniteSet(ReadHeld)
  /\ Cardinality(ReadHeld) \in Nat
  /\ Cardinality(ReadHeld) = 0 <=> ReadHeld = {}
<1>1. ReadHeld \subseteq Guards
  BY DEF ReadHeld
<1>2. IsFiniteSet(ReadHeld)
  BY <1>1, FS_Subset, GuardsAssumption
<1> QED
  BY <1>2, FS_CardinalityType, FS_EmptySet

\* The initial state satisfies the invariant.
LEMMA InitEstablishes == Init => IInv
<1> SUFFICES ASSUME Init PROVE IInv
  OBVIOUS
<1>1. ReadHeld = {} /\ WriteHeld = {}
  BY DEF Init, ReadHeld, WriteHeld
<1>2. Cardinality(ReadHeld) = 0
  BY <1>1, FS_EmptySet
<1> QED
  BY <1>1, <1>2 DEF Init, IInv, TypeOK, ReadersCounted, Exclusion, NoLostWakeup,
     NestedReadNeverBlocks, CallDiscipline, Calling, Mine

\* A step that changes neither the set of readers nor the set of writers.
LEMMA SameHolders ==
  ASSUME IInv, TypeOK', CallDiscipline',
         UNCHANGED <<writer, readers>>,
         ReadHeld' = ReadHeld, WriteHeld' = WriteHeld,
         waiting' # {} => ReadHeld # {} \/ WriteHeld # {},
         NestedReadNeverBlocks'
  PROVE  IInv'
BY DEF IInv, ReadersCounted, Exclusion, NoLostWakeup

\* Every step preserves the invariant.
LEMMA StepPreserves == IInv /\ [Next]_vars => IInv'
<1> SUFFICES ASSUME IInv, [Next]_vars PROVE IInv'
  OBVIOUS
<1> USE DEF IInv, TypeOK
<1>1. ASSUME NEW g \in Guards, EnterRead(g) PROVE IInv'
  <2>1. ReadHeld' = ReadHeld /\ WriteHeld' = WriteHeld
    BY <1>1 DEF EnterRead, ReadHeld, WriteHeld
  <2>2. CallDiscipline'
    BY <1>1 DEF EnterRead, CallDiscipline, Calling, Mine
  <2>3. NestedReadNeverBlocks'
    BY <1>1 DEF EnterRead, NestedReadNeverBlocks, Mine
  <2>4. TypeOK'
    BY <1>1 DEF EnterRead
  <2> QED
    BY <1>1, <2>1, <2>2, <2>3, <2>4, SameHolders DEF EnterRead, NoLostWakeup
<1>2. ASSUME NEW g \in Guards, EnterWrite(g) PROVE IInv'
  <2>1. ReadHeld' = ReadHeld /\ WriteHeld' = WriteHeld
    BY <1>2 DEF EnterWrite, ReadHeld, WriteHeld
  <2>2. CallDiscipline'
    BY <1>2 DEF EnterWrite, CallDiscipline, Calling, Mine
  <2>3. NestedReadNeverBlocks'
    BY <1>2 DEF EnterWrite, NestedReadNeverBlocks, Mine
  <2>4. TypeOK'
    BY <1>2 DEF EnterWrite
  <2> QED
    BY <1>2, <2>1, <2>2, <2>3, <2>4, SameHolders DEF EnterWrite, NoLostWakeup
<1>3. ASSUME NEW g \in Guards, ReadWait(g) PROVE IInv'
  <2>1. ReadHeld' = ReadHeld /\ WriteHeld' = WriteHeld
    BY <1>3 DEF ReadWait, ReadHeld, WriteHeld
  <2>2. ReadHeld = {} /\ WriteHeld # {}
    BY <1>3 DEF ReadWait, ReadersCounted, Exclusion
  <2>3. CallDiscipline'
    BY <1>3 DEF ReadWait, CallDiscipline, Calling, Mine
  <2>4. NestedReadNeverBlocks'
    BY <1>3, <2>2 DEF ReadWait, NestedReadNeverBlocks, Mine, ReadHeld
  <2>5. TypeOK'
    BY <1>3 DEF ReadWait
  <2> QED
    BY <1>3, <2>1, <2>2, <2>3, <2>4, <2>5, SameHolders DEF ReadWait
<1>4. ASSUME NEW g \in Guards, WriteWait(g) PROVE IInv'
  <2>1. ReadHeld' = ReadHeld /\ WriteHeld' = WriteHeld
    BY <1>4 DEF WriteWait, ReadHeld, WriteHeld
  <2>2. ReadHeld # {} \/ WriteHeld # {}
    BY <1>4, ReadHeldFinite DEF WriteWait, ReadersCounted
  <2>3. CallDiscipline'
    BY <1>4 DEF WriteWait, CallDiscipline, Calling, Mine
  <2>4. \A h \in Mine(g) : guard[h] # "reading"
    BY <1>4 DEF WriteWait, CallDiscipline, Mine
  <2>5. NestedReadNeverBlocks'
    BY <1>4, <2>4 DEF WriteWait, NestedReadNeverBlocks, Mine
  <2>6. TypeOK'
    BY <1>4 DEF WriteWait
  <2> QED
    BY <1>4, <2>1, <2>2, <2>3, <2>5, <2>6, SameHolders DEF WriteWait
<1>5. ASSUME NEW g \in Guards, ReadLock(g) PROVE IInv'
  <2>1. ReadHeld' = ReadHeld \cup {g} /\ g \notin ReadHeld
    BY <1>5 DEF ReadLock, ReadHeld
  <2>2. Cardinality(ReadHeld') = Cardinality(ReadHeld) + 1
    BY <2>1, ReadHeldFinite, FS_AddElement
  <2>3. WriteHeld = {} /\ WriteHeld' = {}
    BY <1>5 DEF ReadLock, ReadersCounted, WriteHeld
  <2>4. TypeOK'
    BY <1>5 DEF ReadLock
  <2>5. ReadersCounted' /\ Exclusion' /\ NoLostWakeup'
    BY <1>5, <2>1, <2>2, <2>3 DEF ReadLock, ReadersCounted, Exclusion, NoLostWakeup
  <2>6. CallDiscipline'
    BY <1>5 DEF ReadLock, CallDiscipline, Calling, Mine
  <2>7. NestedReadNeverBlocks'
    BY <1>5 DEF ReadLock, CallDiscipline, NestedReadNeverBlocks, Calling, Mine
  <2> QED
    BY <2>4, <2>5, <2>6, <2>7
<1>6. ASSUME NEW g \in Guards, WriteLock(g) PROVE IInv'
  <2>1. ReadHeld = {} /\ WriteHeld = {}
    BY <1>6, ReadHeldFinite DEF WriteLock, ReadersCounted
  <2>2. ReadHeld' = {} /\ WriteHeld' = {g}
    BY <1>6, <2>1 DEF WriteLock, ReadHeld, WriteHeld
  <2>3. TypeOK'
    BY <1>6 DEF WriteLock
  <2>4. ReadersCounted' /\ Exclusion' /\ NoLostWakeup'
    BY <1>6, <2>1, <2>2 DEF WriteLock, ReadersCounted, Exclusion, NoLostWakeup
  <2>5. CallDiscipline'
    BY <1>6 DEF WriteLock, CallDiscipline, Calling, Mine
  <2>6. NestedReadNeverBlocks'
    BY <1>6 DEF WriteLock, NestedReadNeverBlocks, Mine
  <2> QED
    BY <2>3, <2>4, <2>5, <2>6
<1>7. ASSUME NEW g \in Guards, ReadUnlock(g) PROVE IInv'
  <2>1. ReadHeld' = ReadHeld \ {g} /\ g \in ReadHeld /\ WriteHeld' = WriteHeld
    BY <1>7 DEF ReadUnlock, ReadHeld, WriteHeld
  <2>2. /\ Cardinality(ReadHeld') = Cardinality(ReadHeld) - 1
        /\ Cardinality(ReadHeld') \in Nat
        /\ Cardinality(ReadHeld') = 0 <=> ReadHeld' = {}
    <3>1. IsFiniteSet(ReadHeld')
      BY <2>1, ReadHeldFinite, FS_RemoveElement
    <3> QED
      BY <3>1, <2>1, ReadHeldFinite, FS_RemoveElement, FS_CardinalityType, FS_EmptySet
  <2>3. TypeOK'
    BY <1>7 DEF ReadUnlock
  <2>4. ReadersCounted'
    BY <1>7, <2>1, <2>2 DEF ReadUnlock, ReadersCounted
  <2>5. Exclusion'
    BY <1>7, <2>1 DEF ReadUnlock, Exclusion
  <2>6. NoLostWakeup'
    BY <1>7, <2>1, <2>2 DEF ReadUnlock, NoLostWakeup, ReadersCounted
  <2>7. CallDiscipline'
    BY <1>7 DEF ReadUnlock, CallDiscipline, Calling, Mine
  <2>8. NestedReadNeverBlocks'
    BY <1>7 DEF ReadUnlock, NestedReadNeverBlocks, Mine
  <2> QED
    BY <2>3, <2>4, <2>5, <2>6, <2>7, <2>8
<1>8. ASSUME NEW g \in Guards, WriteUnlock(g) PROVE IInv'
  <2>1. ReadHeld = {} /\ WriteHeld = {g}
    BY <1>8 DEF WriteUnlock, Exclusion, WriteHeld
  <2>2. ReadHeld' = {} /\ WriteHeld' = {}
    BY <1>8, <2>1 DEF WriteUnlock, ReadHeld, WriteHeld
  <2>3. TypeOK'
    BY <1>8 DEF WriteUnlock
  <2>4. ReadersCounted' /\ Exclusion' /\ NoLostWakeup'
    BY <1>8, <2>1, <2>2 DEF WriteUnlock, ReadersCounted, Exclusion, NoLostWakeup
  <2>5. CallDiscipline' /\ NestedReadNeverBlocks'
    BY <1>8 DEF WriteUnlock, CallDiscipline, NestedReadNeverBlocks, Calling, Mine
  <2> QED
    BY <2>3, <2>4, <2>5
<1>9. CASE UNCHANGED vars
  BY <1>9 DEF vars, ReadersCounted, Exclusion, NoLostWakeup, NestedReadNeverBlocks,
     CallDiscipline, ReadHeld, WriteHeld, Calling, Mine
<1> QED
  BY <1>1, <1>2, <1>3, <1>4, <1>5, <1>6, <1>7, <1>8, <1>9 DEF Next, Progress

\* The invariant holds in every reachable state.
THEOREM Invariance == Spec => []IInv
BY InitEstablishes, StepPreserves, PTL DEF Spec

\* The state keeps its type.
THEOREM TypeCorrect == Spec => []TypeOK
BY Invariance, PTL DEF IInv

\* wg_read_write_lock excludes: a held write guard is the only held guard.
THEOREM MutualExclusion == Spec => []Exclusion
BY Invariance, PTL DEF IInv

\* readers_ counts the live read guards and writer_ the live write guard.
THEOREM CountersExact == Spec => []ReadersCounted
BY Invariance, PTL DEF IInv

\* A sleeping constructor always has a holder that will notify it.
THEOREM WakeupSafety == Spec => []NoLostWakeup
BY Invariance, PTL DEF IInv

\* A thread that reads is never blocked by a nested read lock.
THEOREM NestedReads == Spec => []NestedReadNeverBlocks
BY Invariance, PTL DEF IInv

\* Every step is a step of SharedLock, or changes none of the held guards.
LEMMA StepMaps == IInv /\ [Next]_vars => [Shared!Next]_(Shared!vars)
<1> SUFFICES ASSUME IInv, [Next]_vars PROVE [Shared!Next]_(Shared!vars)
  OBVIOUS
<1> USE DEF IInv, TypeOK
<1>1. ASSUME NEW g \in Guards,
             EnterRead(g) \/ EnterWrite(g) \/ ReadWait(g) \/ WriteWait(g)
      PROVE  UNCHANGED Shared!vars
  BY <1>1 DEF EnterRead, EnterWrite, ReadWait, WriteWait, Shared!vars, ReadHeld, WriteHeld
<1>2. ASSUME NEW g \in Guards, ReadLock(g) PROVE Shared!AcquireRead(g)
  <2>1. g \notin ReadHeld /\ WriteHeld = {} /\ WriteHeld' = {}
    BY <1>2 DEF ReadLock, ReadersCounted, ReadHeld, WriteHeld
  <2>2. ReadHeld' = ReadHeld \cup {g}
    BY <1>2 DEF ReadLock, ReadHeld
  <2> QED
    BY <2>1, <2>2 DEF Shared!AcquireRead
<1>3. ASSUME NEW g \in Guards, WriteLock(g) PROVE Shared!AcquireWrite(g)
  <2>1. ReadHeld = {} /\ WriteHeld = {}
    BY <1>3, ReadHeldFinite DEF WriteLock, ReadersCounted
  <2>2. ReadHeld' = {} /\ WriteHeld' = {g}
    BY <1>3, <2>1 DEF WriteLock, ReadHeld, WriteHeld
  <2> QED
    BY <2>1, <2>2 DEF Shared!AcquireWrite
<1>4. ASSUME NEW g \in Guards, ReadUnlock(g) PROVE Shared!ReleaseRead(g)
  BY <1>4 DEF ReadUnlock, ReadHeld, WriteHeld, Shared!ReleaseRead
<1>5. ASSUME NEW g \in Guards, WriteUnlock(g) PROVE Shared!ReleaseWrite(g)
  BY <1>5 DEF WriteUnlock, ReadHeld, WriteHeld, Shared!ReleaseWrite
<1>6. CASE UNCHANGED vars
  BY <1>6 DEF vars, Shared!vars, ReadHeld, WriteHeld
<1> QED
  BY <1>1, <1>2, <1>3, <1>4, <1>5, <1>6 DEF Next, Progress, Shared!Next

\* wg_read_write_lock implements SharedLock, which EnvManager is built on.
THEOREM LockImplementsShared == Spec => ImplementsSharedLock
<1>1. Init => Shared!Init
  BY DEF Init, Shared!Init, ReadHeld, WriteHeld
<1> QED
  BY Invariance, <1>1, StepMaps, PTL DEF Spec, Shared!Spec, ImplementsSharedLock
=============================================================================
