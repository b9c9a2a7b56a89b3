----------------------- MODULE SeqNoMemoryMap_proofs ------------------------
(***************************************************************************)
(* Theorems about SeqNoMemoryMap, for any set of threads, any bounds and   *)
(* any width of the int.                                                   *)
(***************************************************************************)
EXTENDS SeqNoMemoryMap, TLAPS

USE DEF StoreConstants

\* Incrementing an int yields an int: it wraps instead of leaving the range.
LEMMA WrapInRange ==
    ASSUME NEW n \in IntRange PROVE Wrap(n + 1) \in IntRange
BY StoreAssumption DEF IntRange, Wrap

\* The constructor leaves an int.
LEMMA OpenedInRange ==
    ASSUME NEW file \in IntRange PROVE Opened(file) \in IntRange
BY StoreAssumption DEF IntRange, Opened, Restored

\* No thread in the increment, no value on its way.
LEMMA RestTyped ==
    /\ 0 \in IntRange
    /\ [t \in Threads |-> "idle"] \in [Threads -> IncPcs]
    /\ [t \in Threads |-> 0] \in [Threads -> IntRange]
<1>1. 0 \in IntRange
    BY StoreAssumption DEF IntRange
<1>2. "idle" \in IncPcs
    BY Zenon DEF IncPcs
<1> QED
    BY <1>1, <1>2, Zenon

\* Every step of every thread, a start and a death of the process keep the types.
LEMMA TypeStep == TypeOK /\ [Next]_vars => TypeOK'
<1> SUFFICES ASSUME TypeOK, [Next]_vars PROVE TypeOK'
    OBVIOUS
<1> USE DEF TypeOK
<1>1. CASE Open
    BY <1>1, OpenedInRange DEF Open
<1>2. CASE Crash
  <2>1. /\ incPc' \in [Threads -> IncPcs]
        /\ incArg' \in [Threads -> IntRange]
        /\ seqNo' \in IntRange
    BY <1>2, RestTyped, Zenon DEF Crash
  <2>2. up' \in BOOLEAN /\ crashes' = crashes + 1 /\ UNCHANGED <<mmap, base, increments>>
    BY <1>2, Zenon DEF Crash
  <2> QED
    BY <2>1, <2>2
<1>3. ASSUME NEW t \in Threads, Call(t) PROVE TypeOK'
    BY <1>3 DEF Call, IncPcs
<1>4. ASSUME NEW t \in Threads, FetchAdd(t) PROVE TypeOK'
    BY <1>4, WrapInRange DEF FetchAdd, IncPcs
<1>5. ASSUME NEW t \in Threads, LoadVal(t) PROVE TypeOK'
    BY <1>5 DEF LoadVal, IncPcs
<1>6. ASSUME NEW t \in Threads, StoreSeqNo(t) PROVE TypeOK'
    BY <1>6 DEF StoreSeqNo, IncPcs
<1>7. ASSUME NEW t \in Threads, LoadSeqNo(t) PROVE TypeOK'
    BY <1>7 DEF LoadSeqNo, IncPcs
<1>8. ASSUME NEW t \in Threads, StoreMap(t) PROVE TypeOK'
    BY <1>8, RestTyped DEF StoreMap, IncPcs
<1>9. CASE UNCHANGED vars
    BY <1>9 DEF vars
<1> QED
    BY <1>1, <1>2, <1>3, <1>4, <1>5, <1>6, <1>7, <1>8, <1>9 DEF Next, Increment

\* The initial states are typed.
LEMMA TypeInit == Init => TypeOK
<1> SUFFICES ASSUME Init PROVE TypeOK
    OBVIOUS
<1>1. /\ incPc \in [Threads -> IncPcs]
      /\ incArg \in [Threads -> IntRange]
    BY RestTyped, Zenon DEF Init
<1> QED
    BY <1>1, RestTyped, StoreAssumption DEF Init, TypeOK

\* Every variable keeps its type, the ints of the code their width.
THEOREM TypeCorrect == Spec => []TypeOK
    BY TypeInit, TypeStep, PTL DEF Spec

-----------------------------------------------------------------------------
\* No process, no thread in the increment.
DeadIdle == ~up => AllIdle

AheadInv == TypeOK /\ DeadIdle /\ NeverAhead

\* Every step keeps the counter, the file and the values in flight in bounds.
LEMMA AheadStep == AheadInv /\ [Next]_vars => AheadInv'
<1> SUFFICES ASSUME AheadInv, [Next]_vars PROVE DeadIdle' /\ NeverAhead'
    BY TypeStep DEF AheadInv
<1>0. TypeOK /\ DeadIdle /\ NeverAhead /\ TypeOK'
    BY TypeStep DEF AheadInv
<1> USE <1>0 DEF TypeOK, DeadIdle, NeverAhead, AllIdle, IncPcs, IntRange
<1>1. CASE Open
    BY <1>1 DEF Open
<1>2. CASE Crash
    BY <1>2, Zenon DEF Crash
<1>3. ASSUME NEW t \in Threads, Call(t) PROVE DeadIdle' /\ NeverAhead'
    BY <1>3 DEF Call
<1>4. ASSUME NEW t \in Threads, FetchAdd(t) PROVE DeadIdle' /\ NeverAhead'
  <2>1. Wrap(seqNo + 1) <= seqNo + 1
    BY StoreAssumption DEF Wrap
  <2> QED
    BY <1>4, <2>1 DEF FetchAdd
<1>5. ASSUME NEW t \in Threads, LoadVal(t) PROVE DeadIdle' /\ NeverAhead'
    BY <1>5 DEF LoadVal
<1>6. ASSUME NEW t \in Threads, StoreSeqNo(t) PROVE DeadIdle' /\ NeverAhead'
    BY <1>6 DEF StoreSeqNo
<1>7. ASSUME NEW t \in Threads, LoadSeqNo(t) PROVE DeadIdle' /\ NeverAhead'
    BY <1>7 DEF LoadSeqNo
<1>8. ASSUME NEW t \in Threads, StoreMap(t) PROVE DeadIdle' /\ NeverAhead'
    BY <1>8 DEF StoreMap
<1>9. CASE UNCHANGED vars
    BY <1>9 DEF vars
<1> QED
    BY <1>1, <1>2, <1>3, <1>4, <1>5, <1>6, <1>7, <1>8, <1>9 DEF Next, Increment

\* ... and they start so.
LEMMA AheadInit == Init => AheadInv
<1> SUFFICES ASSUME Init PROVE AheadInv
    OBVIOUS
<1>1. TypeOK
    BY TypeInit
<1>2. DeadIdle /\ NeverAhead
    BY Zenon DEF Init, DeadIdle, AllIdle, NeverAhead
<1> QED
    BY <1>1, <1>2 DEF AheadInv

\* Whether or not the increments of several threads overlap, the counter, the
\* file and every value in flight stay at or below base + increments.
THEOREM NeverAheadCorrect == Spec => []NeverAhead
<1>1. AheadInv => NeverAhead
    BY DEF AheadInv
<1> QED
    BY <1>1, AheadInit, AheadStep, PTL DEF Spec

-----------------------------------------------------------------------------
\* What holds at each access when increments do not overlap: the file is one
\* increment behind the counter until the last access of the increment.
OneIncrement ==
    \A t, u \in Threads : incPc[t] # "idle" /\ incPc[u] # "idle" => t = u

CounterAndFile ==
    /\ up /\ AllIdle => mmap = seqNo
    /\ \A t \in Threads :
        /\ incPc[t] = "fetchAdd" => mmap = seqNo
        /\ incPc[t] \in IncPcs \ {"idle", "fetchAdd"} => seqNo = Wrap(mmap + 1)
        /\ incPc[t] \in {"storeSeqNo", "storeMap"} => incArg[t] = seqNo

Counted ==
    up => /\ increments >= 0
          /\ base >= 0
          /\ base + increments <= IntMax => seqNo = base + increments

SerialInv == TypeOK /\ DeadIdle /\ OneIncrement /\ CounterAndFile /\ Counted

\* The initial states are as they are when increments do not overlap.
LEMMA SerialInit == Init => SerialInv
<1> SUFFICES ASSUME Init PROVE SerialInv
    OBVIOUS
<1>1. TypeOK
    BY TypeInit
<1>2. DeadIdle /\ OneIncrement /\ Counted
    BY Zenon DEF Init, DeadIdle, AllIdle, OneIncrement, Counted
<1>3. CounterAndFile
    BY Zenon DEF Init, CounterAndFile, IncPcs
<1> QED
    BY <1>1, <1>2, <1>3 DEF SerialInv

\* Every step keeps that, if two threads are never in the increment at once.
LEMMA SerialStep == ASSUME ~Overlap PROVE SerialInv /\ [Next]_vars => SerialInv'
<1> SUFFICES ASSUME SerialInv, [Next]_vars
             PROVE  DeadIdle' /\ OneIncrement' /\ CounterAndFile' /\ Counted'
    BY TypeStep DEF SerialInv
<1>0. TypeOK /\ DeadIdle /\ OneIncrement /\ CounterAndFile /\ Counted /\ TypeOK'
    BY TypeStep DEF SerialInv
<1> USE <1>0 DEF TypeOK, DeadIdle, OneIncrement, CounterAndFile, Counted, AllIdle,
                 IncPcs, IntRange
<1>1. CASE Open
  <2>1. Opened(mmap) >= 0
    BY StoreAssumption DEF Opened, Restored
  <2> QED
    BY <1>1, <2>1 DEF Open
<1>2. CASE Crash
  <2>1. /\ ~up'
        /\ incPc' = [t \in Threads |-> "idle"]
    BY <1>2, Zenon DEF Crash
  <2> QED
    BY <2>1, Zenon
<1>3. ASSUME NEW t \in Threads, Call(t)
      PROVE  DeadIdle' /\ OneIncrement' /\ CounterAndFile' /\ Counted'
    BY <1>3 DEF Call
<1>4. ASSUME NEW t \in Threads, FetchAdd(t)
      PROVE  DeadIdle' /\ OneIncrement' /\ CounterAndFile' /\ Counted'
    BY <1>4, StoreAssumption DEF FetchAdd, Wrap
<1>5. ASSUME NEW t \in Threads, LoadVal(t)
      PROVE  DeadIdle' /\ OneIncrement' /\ CounterAndFile' /\ Counted'
    BY <1>5 DEF LoadVal
<1>6. ASSUME NEW t \in Threads, StoreSeqNo(t)
      PROVE  DeadIdle' /\ OneIncrement' /\ CounterAndFile' /\ Counted'
    BY <1>6 DEF StoreSeqNo
<1>7. ASSUME NEW t \in Threads, LoadSeqNo(t)
      PROVE  DeadIdle' /\ OneIncrement' /\ CounterAndFile' /\ Counted'
    BY <1>7 DEF LoadSeqNo
<1>8. ASSUME NEW t \in Threads, StoreMap(t)
      PROVE  DeadIdle' /\ OneIncrement' /\ CounterAndFile' /\ Counted'
    BY <1>8 DEF StoreMap
<1>9. CASE UNCHANGED vars
    BY <1>9 DEF vars
<1> QED
    BY <1>1, <1>2, <1>3, <1>4, <1>5, <1>6, <1>7, <1>8, <1>9 DEF Next, Increment

\* Without overlap, file and memory agree whenever no increment is under way.
THEOREM SettledCorrect == ASSUME ~Overlap PROVE Spec => []SettledAgreement
<1>1. SerialInv => SettledAgreement
    BY DEF SerialInv, CounterAndFile, SettledAgreement
<1> QED
    BY <1>1, SerialInit, SerialStep, PTL DEF Spec

\* Without overlap, every completed increment counts, up to the wrap of the int.
THEOREM IncrementsCorrect == ASSUME ~Overlap PROVE Spec => []IncrementsNotLost
<1>1. SerialInv => IncrementsNotLost
    BY DEF SerialInv, Counted, IncrementsNotLost
<1> QED
    BY <1>1, SerialInit, SerialStep, PTL DEF Spec

\* Without overlap and without resetSeqNo, nothing but the wrap of the int,
\* not even a death in the middle of an increment, takes the file back.
THEOREM RegressCorrect ==
    ASSUME ~Overlap, ~ResetSeqNo PROVE Spec => FileRegressesOnlyOnWrap
<1>1. ASSUME SerialInv, [Next]_vars
      PROVE  mmap' < mmap => mmap = IntMax /\ mmap' = -IntMax - 1
  <2>1. TypeOK /\ CounterAndFile /\ mmap' \in IntRange
    BY <1>1, TypeStep DEF SerialInv, TypeOK
  <2>2. ASSUME Open PROVE mmap' >= mmap
    BY <2>1, <2>2, StoreAssumption DEF Open, Opened, Restored, TypeOK, IntRange
  <2>3. ASSUME NEW t \in Threads, StoreMap(t)
        PROVE  mmap' = Wrap(mmap + 1)
    BY <2>1, <2>3 DEF StoreMap, CounterAndFile, IncPcs
  <2>4. ASSUME NEW t \in Threads, Call(t) \/ FetchAdd(t) \/ LoadVal(t) \/ StoreSeqNo(t) \/ LoadSeqNo(t)
        PROVE  mmap' = mmap
    BY <2>4, Zenon DEF Call, FetchAdd, LoadVal, StoreSeqNo, LoadSeqNo
  <2>5. Crash \/ UNCHANGED vars => mmap' = mmap
    BY Zenon DEF Crash, vars
  <2>6. Open \/ mmap' = mmap \/ mmap' = Wrap(mmap + 1)
    BY <1>1, <2>3, <2>4, <2>5, Zenon DEF Next, Increment
  <2> QED
    BY <2>1, <2>2, <2>6, StoreAssumption DEF Wrap, TypeOK, IntRange
<1> QED
    BY <1>1, SerialInit, SerialStep, PTL DEF Spec, FileRegressesOnlyOnWrap
=============================================================================
