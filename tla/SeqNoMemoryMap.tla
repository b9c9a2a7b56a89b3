--------------------------- MODULE SeqNoMemoryMap ---------------------------
(***************************************************************************)
(* FIX::SeqNoMemoryMap: the next outgoing sequence number, held twice, in  *)
(* the atomic `_seqNo' and in an int mapped MAP_SHARED from a file, so     *)
(* that a new process resumes where the last one stopped.                  *)
(*                                                                         *)
(* incrementAndGetSeqNo() is five separate accesses to the shared state,   *)
(* one action each: the atomicity of `_seqNo' is that of one access.       *)
(* The map survives the death of the process, `_seqNo' does not.           *)
(***************************************************************************)
EXTENDS Integers

CONSTANTS
    Threads,         \* threads that call incrementAndGetSeqNo()
    BeginSeqNo,      \* the setting beginSeqNo
    ResetSeqNo,      \* the setting resetSeqNo: reset the number on start
    IntMax,          \* largest value of the C++ int
    FileContents,    \* what a file of an earlier process may hold, 0 if none
    Overlap,         \* may two threads be in incrementAndGetSeqNo() at once?
    MaxIncrements,   \* bound: increments by one process
    MaxCrashes       \* bound: deaths of the process

IntRange == (-IntMax - 1) .. IntMax

StoreConstants ==
    /\ IntMax \in Nat
    /\ BeginSeqNo \in 0 .. IntMax
    /\ ResetSeqNo \in BOOLEAN
    /\ Overlap \in BOOLEAN
    /\ FileContents \subseteq IntRange
    /\ MaxIncrements \in Nat
    /\ MaxCrashes \in Nat

ASSUME StoreAssumption == StoreConstants

VARIABLES
    up,          \* is a process running?
    mmap,        \* the int in the mapped file
    seqNo,       \* the atomic _seqNo (0 when no process runs)
    incPc,       \* incPc[t]: the next access t makes in the increment
    incArg,      \* incArg[t]: the value t has loaded and not yet stored, else 0
    base,        \* history: the number this process started with
    increments,  \* history: fetch_add calls of this process
    crashes      \* history: deaths so far

vars == <<up, mmap, seqNo, incPc, incArg, base, increments, crashes>>

IncPcs == {"idle", "fetchAdd", "loadVal", "storeSeqNo", "loadSeqNo", "storeMap"}

TypeOK ==
    /\ up \in BOOLEAN
    /\ mmap \in IntRange
    /\ seqNo \in IntRange
    /\ incPc \in [Threads -> IncPcs]
    /\ incArg \in [Threads -> IntRange]
    /\ base \in IntRange
    /\ increments \in Nat
    /\ crashes \in Nat

-----------------------------------------------------------------------------
\* Two's complement: one past IntMax is the most negative int.
MutantWrap(n) == n
Wrap(n) == IF n > IntMax THEN n - 2 * IntMax - 2 ELSE n

\* The number the constructor leaves in _seqNo and in the map.
MutantRestored(file) == BeginSeqNo
Restored(file) == IF file > 0 THEN file ELSE BeginSeqNo

\* ... and after the constructor of the adaptor has applied resetSeqNo.
Opened(file) == IF ResetSeqNo THEN BeginSeqNo ELSE Restored(file)

AllIdle == \A t \in Threads : incPc[t] = "idle"

Init ==
    /\ up = FALSE
    /\ mmap \in FileContents
    /\ seqNo = 0
    /\ incPc = [t \in Threads |-> "idle"]
    /\ incArg = [t \in Threads |-> 0]
    /\ base = 0
    /\ increments = 0
    /\ crashes = 0

\* A process starts: constructor, then resetSeqNo() if the setting asks.
Open ==
    /\ ~up
    /\ up' = TRUE
    /\ seqNo' = Opened(mmap)
    /\ mmap' = Opened(mmap)
    /\ base' = Opened(mmap)
    /\ increments' = 0
    /\ UNCHANGED <<incPc, incArg, crashes>>

\* A thread enters incrementAndGetSeqNo().
Call(t) ==
    /\ up
    /\ incPc[t] = "idle"
    /\ increments < MaxIncrements
    /\ Overlap \/ AllIdle
    /\ incPc' = [incPc EXCEPT ![t] = "fetchAdd"]
    /\ UNCHANGED <<up, mmap, seqNo, incArg, base, increments, crashes>>

\* _seqNo.fetch_add(1)
MutantFetchAdd(t) ==
    /\ incPc[t] = "fetchAdd"
    /\ increments' = increments + 1
    /\ incPc' = [incPc EXCEPT ![t] = "loadVal"]
    /\ UNCHANGED <<up, mmap, seqNo, incArg, base, crashes>>
FetchAdd(t) ==
    /\ incPc[t] = "fetchAdd"
    /\ seqNo' = Wrap(seqNo + 1)
    /\ increments' = increments + 1
    /\ incPc' = [incPc EXCEPT ![t] = "loadVal"]
    /\ UNCHANGED <<up, mmap, incArg, base, crashes>>

\* The argument of setSeqNo(_seqNo) is loaded: not the result of fetch_add.
LoadVal(t) ==
    /\ incPc[t] = "loadVal"
    /\ incArg' = [incArg EXCEPT ![t] = seqNo]
    /\ incPc' = [incPc EXCEPT ![t] = "storeSeqNo"]
    /\ UNCHANGED <<up, mmap, seqNo, base, increments, crashes>>

\* _seqNo = val
MutantStoreSeqNo(t) ==
    /\ incPc[t] = "storeSeqNo"
    /\ seqNo' = Wrap(incArg[t] + 1)
    /\ incPc' = [incPc EXCEPT ![t] = "loadSeqNo"]
    /\ UNCHANGED <<up, mmap, incArg, base, increments, crashes>>
StoreSeqNo(t) ==
    /\ incPc[t] = "storeSeqNo"
    /\ seqNo' = incArg[t]
    /\ incPc' = [incPc EXCEPT ![t] = "loadSeqNo"]
    /\ UNCHANGED <<up, mmap, incArg, base, increments, crashes>>

\* The right-hand side of _mmap[0] = _seqNo is loaded again.
LoadSeqNo(t) ==
    /\ incPc[t] = "loadSeqNo"
    /\ incArg' = [incArg EXCEPT ![t] = seqNo]
    /\ incPc' = [incPc EXCEPT ![t] = "storeMap"]
    /\ UNCHANGED <<up, mmap, seqNo, base, increments, crashes>>

\* _mmap[0] = ...; the value the method returns is used by no caller.
MutantStoreMap(t) ==
    /\ incPc[t] = "storeMap"
    /\ incArg' = [incArg EXCEPT ![t] = 0]
    /\ incPc' = [incPc EXCEPT ![t] = "idle"]
    /\ UNCHANGED <<up, mmap, seqNo, base, increments, crashes>>
StoreMap(t) ==
    /\ incPc[t] = "storeMap"
    /\ mmap' = incArg[t]
    /\ incArg' = [incArg EXCEPT ![t] = 0]
    /\ incPc' = [incPc EXCEPT ![t] = "idle"]
    /\ UNCHANGED <<up, seqNo, base, increments, crashes>>

\* The process dies at any point: _seqNo is gone, the shared map stays.
Crash ==
    /\ up
    /\ crashes < MaxCrashes
    /\ up' = FALSE
    /\ seqNo' = 0
    /\ incPc' = [t \in Threads |-> "idle"]
    /\ incArg' = [t \in Threads |-> 0]
    /\ crashes' = crashes + 1
    /\ UNCHANGED <<mmap, base, increments>>

Increment(t) ==
    FetchAdd(t) \/ LoadVal(t) \/ StoreSeqNo(t) \/ LoadSeqNo(t) \/ StoreMap(t)

Next ==
    \/ Open
    \/ Crash
    \/ \E t \in Threads : Call(t)
    \/ \E t \in Threads : Increment(t)

Spec == Init /\ [][Next]_vars

-----------------------------------------------------------------------------
\* However the threads interleave, neither the counter nor the file nor any
\* value on its way between them runs ahead of the number of increments: a
\* number is never skipped without another one having been used twice.
NeverAhead ==
    up => /\ seqNo - base <= increments
          /\ mmap - base <= increments
          /\ \A t \in Threads :
                incPc[t] \in {"storeSeqNo", "storeMap"} => incArg[t] - base <= increments

\* Between increments the file holds the number the memory holds, so that a
\* death at such a point loses nothing (setSeqNo writes both).
SettledAgreement == up /\ AllIdle => mmap = seqNo

\* What the name incrementAndGetSeqNo and the atomic type of _seqNo say: every
\* completed increment counts. (In the domain where the int has not wrapped.)
IncrementsNotLost ==
    up /\ AllIdle /\ base + increments <= IntMax => seqNo = base + increments

\* The number in the file goes back only where the int wraps: before that, no
\* restart and no increment returns to a number that was given out (without
\* resetSeqNo). After it a restart does: Restored takes a negative number for none
\* and starts over at BeginSeqNo, which is not a step back in the file.
FileRegressesOnlyOnWrap ==
    [][mmap' < mmap => mmap = IntMax /\ mmap' = -IntMax - 1]_vars
=============================================================================
