------------------------- MODULE FixSendPath_proofs --------------------------
(***************************************************************************)
(* Theorems about FixSendPath, for any set of sending threads, any bounds  *)
(* and any file. What SeqNoMemoryMap_proofs shows of the store is used     *)
(* here through StoreProofs: the send path takes only steps of the store.  *)
(***************************************************************************)
EXTENDS FixSendPath, FiniteSetTheorems, TLAPS

StoreProofs == INSTANCE SeqNoMemoryMap_proofs

\* Both instances of the store are the same store.
LEMMA SameConstants == StoreProofs!StoreConstants
  BY SendAssumption
     DEF Store!StoreConstants, StoreProofs!StoreConstants, Store!IntRange, StoreProofs!IntRange

LEMMA SameTypes == Store!TypeOK <=> StoreProofs!TypeOK
  BY DEF Store!TypeOK, StoreProofs!TypeOK, Store!IntRange, StoreProofs!IntRange,
         Store!IncPcs, StoreProofs!IncPcs

LEMMA SameInit == Store!Init <=> StoreProofs!Init
  BY DEF Store!Init, StoreProofs!Init

LEMMA SameOpen == Store!Open <=> StoreProofs!Open
  BY DEF Store!Open, StoreProofs!Open, Store!Opened, StoreProofs!Opened,
         Store!Restored, StoreProofs!Restored

LEMMA SameCrash == Store!Crash <=> StoreProofs!Crash
  BY DEF Store!Crash, StoreProofs!Crash

LEMMA SameCall ==
    ASSUME NEW t PROVE Store!Call(t) <=> StoreProofs!Call(t)
  BY DEF Store!Call, StoreProofs!Call, Store!AllIdle, StoreProofs!AllIdle

LEMMA SameIncrement ==
    ASSUME NEW t PROVE Store!Increment(t) <=> StoreProofs!Increment(t)
  BY DEF Store!Increment, StoreProofs!Increment, Store!FetchAdd, StoreProofs!FetchAdd,
         Store!Wrap, StoreProofs!Wrap, Store!LoadVal, StoreProofs!LoadVal,
         Store!StoreSeqNo, StoreProofs!StoreSeqNo, Store!LoadSeqNo, StoreProofs!LoadSeqNo,
         Store!StoreMap, StoreProofs!StoreMap

\* Every step of the send path is a step of the store or leaves it alone.
LEMMA StoreStep == [Next]_vars => [StoreProofs!Next]_(StoreProofs!vars)
<1> SUFFICES ASSUME [Next]_vars PROVE StoreProofs!Next \/ UNCHANGED StoreProofs!vars
  OBVIOUS
<1>1. ASSUME UNCHANGED storeVars PROVE UNCHANGED StoreProofs!vars
  BY <1>1 DEF storeVars, StoreProofs!vars
<1>2. CASE Construct
  BY <1>2, SameOpen DEF Construct, StoreProofs!Next
<1>3. CASE Crash
  BY <1>3, SameCrash DEF Crash, StoreProofs!Next
<1>4. ASSUME NEW t \in Threads, Stamp(t) PROVE StoreProofs!Next
  BY <1>4, SameCall DEF Stamp, StoreProofs!Next
<1>5. ASSUME NEW t \in Threads, IncrementStep(t) PROVE StoreProofs!Next
  BY <1>5, SameIncrement DEF IncrementStep, StoreProofs!Next
<1>6. ASSUME NEW t \in Threads, BeginSend(t) \/ IsRunning(t) \/ Write(t) \/ Return(t)
      PROVE  UNCHANGED storeVars
  BY <1>6, Zenon DEF BeginSend, IsRunning, Write, Return
<1>7. TimerExpires \/ Start \/ Resolved \/ Connected \/ PeerResets \/ FinishWrite
         \/ UNCHANGED vars => UNCHANGED storeVars
  BY Zenon DEF TimerExpires, Start, Resolved, Connected, PeerResets, FinishWrite, vars
<1> QED
  BY <1>1, <1>2, <1>3, <1>4, <1>5, <1>6, <1>7 DEF Next, Send

-----------------------------------------------------------------------------
\* Everyone idle, nothing stamped.
LEMMA RestTyped ==
    /\ <<>> \in Seq(Writes) /\ <<>> \in Seq(Handed)
    /\ 0 \in Store!IntRange
    /\ [t \in Threads |-> "idle"] \in [Threads -> Pcs]
    /\ [t \in Threads |-> 0] \in [Threads -> Store!IntRange]
<1>1. 0 \in Store!IntRange
  BY SendAssumption DEF Store!StoreConstants, Store!IntRange
<1>2. "idle" \in Pcs
  BY Zenon DEF Pcs
<1>3. <<>> \in Seq(Writes) /\ <<>> \in Seq(Handed)
  OBVIOUS
<1> QED
  BY <1>1, <1>2, <1>3, Zenon

\* The initial states are typed.
LEMMA TypeInit == Init => TypeOK
<1> SUFFICES ASSUME Init PROVE TypeOK
  OBVIOUS
<1>1. Store!TypeOK
  BY StoreProofs!TypeInit, SameConstants, SameInit, SameTypes DEF Init
<1>2. pc \in [Threads -> Pcs] /\ stamp \in [Threads -> Store!IntRange]
  BY RestTyped, Zenon DEF Init
<1>3. /\ hbArmed = FALSE /\ alive = FALSE /\ sock = "closed" /\ writes = <<>>
      /\ garbled = FALSE /\ handed = <<>> /\ dropped = 0
  BY Zenon DEF Init
<1> QED
  BY <1>1, <1>2, <1>3, RestTyped, Zenon DEF TypeOK

\* A thread that moves on is at a label again.
LEMMA GotoTyped ==
    ASSUME TypeOK, NEW t \in Threads, NEW label \in Pcs, Goto(t, label)
    PROVE  pc' \in [Threads -> Pcs]
  BY DEF TypeOK, Goto

\* A message given to the socket is one.
LEMMA GiveTyped ==
    ASSUME TypeOK, NEW t \in Threads, Give(t)
    PROVE  handed' \in Seq(Handed)
<1>1. stamp[t] \in Store!IntRange /\ crashes \in Nat
  BY DEF TypeOK, Store!TypeOK
<1>2. [seq |-> stamp[t], epoch |-> crashes] \in Handed
  BY <1>1 DEF Handed
<1> QED
  BY <1>2 DEF TypeOK, Give

\* Every step keeps the types.
LEMMA TypeStep == TypeOK /\ [Next]_vars => TypeOK'
<1> SUFFICES ASSUME TypeOK, [Next]_vars PROVE TypeOK'
  OBVIOUS
<1>0. Store!TypeOK'
  <2>1. StoreProofs!TypeOK'
    BY StoreStep, StoreProofs!TypeStep, SameConstants, SameTypes DEF TypeOK
  <2>2. Store!TypeOK' <=> StoreProofs!TypeOK'
    BY DEF Store!TypeOK, StoreProofs!TypeOK, Store!IntRange, StoreProofs!IntRange,
           Store!IncPcs, StoreProofs!IncPcs
  <2> QED
    BY <2>1, <2>2
<1>1. CASE Construct
  BY <1>0, <1>1, SendAssumption DEF Construct, TypeOK
<1>2. CASE TimerExpires
  BY <1>0, <1>2, GotoTyped, SendAssumption DEF TimerExpires, TypeOK, Pcs
<1>3. ASSUME NEW t \in Threads, BeginSend(t) PROVE TypeOK'
  BY <1>0, <1>3, GotoTyped DEF BeginSend, TypeOK, Pcs
<1>4. ASSUME NEW t \in Threads, Stamp(t) PROVE TypeOK'
  <2>1. seqNo \in Store!IntRange
    BY DEF TypeOK, Store!TypeOK
  <2> QED
    BY <1>0, <1>4, <2>1, GotoTyped DEF Stamp, TypeOK, Pcs
<1>5. ASSUME NEW t \in Threads, IncrementStep(t) PROVE TypeOK'
  BY <1>0, <1>5, GotoTyped DEF IncrementStep, TypeOK, Pcs
<1>6. ASSUME NEW t \in Threads, IsRunning(t) PROVE TypeOK'
  BY <1>0, <1>6, GotoTyped DEF IsRunning, TypeOK, Pcs
<1>7. ASSUME NEW t \in Threads, Write(t) PROVE TypeOK'
  <2>1. pc' \in [Threads -> Pcs]
    BY <1>7, GotoTyped DEF Write, Pcs
  <2>2. handed' \in Seq(Handed)
    BY <1>7, GiveTyped DEF Write, TypeOK
  <2>3. [from |-> t, buf |-> "live"] \in Writes
    BY DEF Writes
  <2>4. writes' \in Seq(Writes)
    <3>1. writes \in Seq(Writes) /\ (UNCHANGED writes \/ writes' = Append(writes, [from |-> t, buf |-> "live"]))
      BY <1>7, Zenon DEF Write, TypeOK
    <3> QED
      BY <3>1, <2>3
  <2> QED
    BY <1>0, <1>7, <2>1, <2>2, <2>4 DEF Write, TypeOK
<1>8. ASSUME NEW t \in Threads, Return(t) PROVE TypeOK'
  <2>1. pc' \in [Threads -> Pcs]
    BY <1>8, GotoTyped DEF Return, Pcs
  <2>2. stamp' \in [Threads -> Store!IntRange]
    BY <1>8, RestTyped DEF Return, TypeOK
  <2>3. [from |-> t, buf |-> "dangling"] \in Writes
    BY DEF Writes
  <2>4. writes' \in Seq(Writes)
    BY <1>8, <2>3 DEF Return, TypeOK
  <2> QED
    BY <1>0, <1>8, <2>1, <2>2, <2>4 DEF Return, TypeOK
<1>9. CASE Start \/ Resolved \/ Connected \/ PeerResets
  BY <1>0, <1>9 DEF Start, Resolved, Connected, PeerResets, TypeOK
<1>10. CASE FinishWrite
  <2>1. garbled' = garbled \/ garbled' = TRUE
    BY <1>10, Zenon DEF FinishWrite
  <2>2. garbled' \in BOOLEAN
    BY <2>1 DEF TypeOK
  <2>3. writes # <<>> /\ writes' = Tail(writes)
    BY <1>10, Zenon DEF FinishWrite
  <2>4. writes' \in Seq(Writes)
    BY <2>3 DEF TypeOK
  <2>5. UNCHANGED <<storeVars, pc, stamp, hbArmed, alive, sock, handed, dropped>>
    BY <1>10, Zenon DEF FinishWrite
  <2> QED
    BY <1>0, <2>2, <2>4, <2>5 DEF TypeOK
<1>11. CASE Crash
  <2>1. pc' \in [Threads -> Pcs] /\ stamp' \in [Threads -> Store!IntRange]
    BY <1>11, RestTyped, Zenon DEF Crash
  <2>2. /\ hbArmed' = FALSE /\ alive' = FALSE /\ sock' = "closed" /\ writes' = <<>>
        /\ UNCHANGED <<garbled, handed, dropped>>
    BY <1>11, Zenon DEF Crash
  <2> QED
    BY <1>0, <2>1, <2>2, RestTyped, Zenon DEF TypeOK
<1>12. CASE UNCHANGED vars
  BY <1>0, <1>12 DEF vars, TypeOK, storeVars
<1> QED
  BY <1>1, <1>2, <1>3, <1>4, <1>5, <1>6, <1>7, <1>8, <1>9, <1>10, <1>11, <1>12
     DEF Next, Send

\* Every variable of the send path and of the store below it keeps its type,
\* in every interleaving and over every death of the process.
THEOREM SendTypeCorrect == Spec => []TypeOK
  BY TypeInit, TypeStep, PTL DEF Spec
-----------------------------------------------------------------------------
(* Nothing on the wire is ahead of the increments, whoever overlaps whom. *)

\* A thread is in the increment of the store while convertToBuffer calls it.
InStep ==
    /\ ~up => Quiet
    /\ \A t \in Threads : pc[t] = "increment" <=> incPc[t] # "idle"

\* A process is numbered by the deaths before it.
Epochs ==
    \A i \in DOMAIN handed :
        /\ handed[i].epoch <= crashes
        /\ ~up => handed[i].epoch < crashes

\* A stamped number is one the counter had, and once its increment is made, one
\* that the counter is past.
StampBehind ==
    \A t \in Threads :
        /\ pc[t] = "increment" => stamp[t] - base <= increments
        /\ pc[t] = "increment" /\ incPc[t] # "fetchAdd" => stamp[t] - base < increments
        /\ pc[t] \in {"isRunning", "write"} => stamp[t] - base < increments

WireInv ==
    TypeOK /\ StoreProofs!AheadInv /\ InStep /\ Epochs /\ StampBehind /\ WireNeverAhead

\* What one access of the increment does to the bookkeeping.
LEMMA IncrementEffect ==
    ASSUME TypeOK, NEW t \in Threads, Store!Increment(t)
    PROVE  /\ UNCHANGED <<up, base, crashes>>
           /\ incPc[t] = "fetchAdd" => increments' = increments + 1
           /\ incPc[t] # "fetchAdd" => increments' = increments
           /\ incPc[t] # "idle"
           /\ incPc'[t] = "idle" <=> incPc[t] = "storeMap"
           /\ incPc'[t] # "fetchAdd"
           /\ \A u \in Threads : u # t => incPc'[u] = incPc[u]
<1>1. incPc \in [Threads -> Store!IncPcs] /\ incPc[t] \in Store!IncPcs
  BY DEF TypeOK, Store!TypeOK
<1>2. CASE Store!FetchAdd(t)
  BY <1>1, <1>2 DEF Store!FetchAdd
<1>3. CASE Store!LoadVal(t)
  BY <1>1, <1>3 DEF Store!LoadVal
<1>4. CASE Store!StoreSeqNo(t)
  BY <1>1, <1>4 DEF Store!StoreSeqNo
<1>5. CASE Store!LoadSeqNo(t)
  BY <1>1, <1>5 DEF Store!LoadSeqNo
<1>6. CASE Store!StoreMap(t)
  BY <1>1, <1>6 DEF Store!StoreMap
<1> QED
  BY <1>2, <1>3, <1>4, <1>5, <1>6 DEF Store!Increment

\* What a start, a death and a call do to it.
LEMMA CallEffect ==
    ASSUME TypeOK, NEW t \in Threads, Store!Call(t)
    PROVE  /\ up
           /\ UNCHANGED <<up, mmap, seqNo, incArg, base, increments, crashes>>
           /\ incPc[t] = "idle" /\ incPc'[t] = "fetchAdd"
           /\ \A u \in Threads : u # t => incPc'[u] = incPc[u]
  BY DEF TypeOK, Store!TypeOK, Store!Call

LEMMA CrashEffect ==
    ASSUME Crash
    PROVE  /\ up /\ ~up' /\ crashes' = crashes + 1
           /\ UNCHANGED <<mmap, handed>>
           /\ \A t \in Threads : pc'[t] = "idle" /\ incPc'[t] = "idle"
  BY Zenon DEF Crash, Store!Crash

LEMMA GotoEffect ==
    ASSUME TypeOK, NEW t \in Threads, NEW label, Goto(t, label)
    PROVE  pc'[t] = label /\ \A u \in Threads : u # t => pc'[u] = pc[u]
  BY DEF TypeOK, Goto

\* What is appended to handed.
LEMMA GiveEffect ==
    ASSUME TypeOK, NEW t \in Threads, Give(t)
    PROVE  /\ Len(handed) \in Nat
           /\ DOMAIN handed = 1 .. Len(handed)
           /\ DOMAIN handed' = 1 .. Len(handed) + 1
           /\ handed'[Len(handed) + 1] = [seq |-> stamp[t], epoch |-> crashes]
           /\ \A i \in DOMAIN handed : handed'[i] = handed[i] /\ handed[i] \in Handed
<1>1. handed \in Seq(Handed)
  BY DEF TypeOK
<1> QED
  BY <1>1 DEF Give

\* The numbers, as integers.
LEMMA Numbers ==
    ASSUME TypeOK
    PROVE  /\ base \in Int /\ seqNo \in Int /\ mmap \in Int /\ increments \in Nat /\ crashes \in Nat
           /\ \A t \in Threads : stamp[t] \in Int
           /\ \A i \in DOMAIN handed : handed[i].seq \in Int /\ handed[i].epoch \in Nat
<1>1. \A n \in Store!IntRange : n \in Int
  BY SendAssumption DEF Store!StoreConstants, Store!IntRange
<1>2. \A i \in DOMAIN handed : handed[i] \in Handed
  BY DEF TypeOK
<1> QED
  BY <1>1, <1>2 DEF TypeOK, Store!TypeOK, Handed

\* It starts with nobody sending.
LEMMA WireInit == Init => WireInv
<1> SUFFICES ASSUME Init PROVE WireInv
  OBVIOUS
<1>1. TypeOK /\ StoreProofs!AheadInv
  BY TypeInit, StoreProofs!AheadInit, SameConstants, SameInit DEF Init
<1>2. handed = <<>> /\ DOMAIN handed = {}
  BY DEF Init
<1>3. \A t \in Threads : pc[t] = "idle" /\ incPc[t] = "idle"
  BY Zenon DEF Init, Store!Init
<1>4. InStep /\ StampBehind
  BY <1>3 DEF InStep, StampBehind, Quiet
<1> QED
  BY <1>1, <1>2, <1>4 DEF WireInv, Epochs, WireNeverAhead

\* A step that changes neither handed nor the store's bookkeeping.
LEMMA WireKept ==
    ASSUME WireInv, UNCHANGED <<up, base, increments, crashes, incPc, handed>>,
           NEW t \in Threads,
           \A u \in Threads : u # t => pc'[u] = pc[u] /\ stamp'[u] = stamp[u],
           up \/ pc'[t] = "idle",
           pc[t] # "increment", pc'[t] # "increment",
           pc'[t] \in {"isRunning", "write"} => pc[t] \in {"isRunning", "write"} /\ stamp'[t] = stamp[t]
    PROVE  InStep' /\ Epochs' /\ StampBehind' /\ WireNeverAhead'
<1>1. InStep'
  BY DEF WireInv, InStep, Quiet
<1>2. Epochs' /\ WireNeverAhead'
  BY DEF WireInv, Epochs, WireNeverAhead
<1>3. StampBehind'
  BY DEF WireInv, StampBehind
<1> QED
  BY <1>1, <1>2, <1>3

\* Every step of every thread keeps it.
LEMMA WireStep == WireInv /\ [Next]_vars => WireInv'
<1> SUFFICES ASSUME WireInv, [Next]_vars
             PROVE  InStep' /\ Epochs' /\ StampBehind' /\ WireNeverAhead'
  BY TypeStep, StoreStep, StoreProofs!AheadStep, SameConstants DEF WireInv
<1>0. TypeOK /\ TypeOK' /\ InStep /\ Epochs /\ StampBehind /\ WireNeverAhead
  BY TypeStep DEF WireInv
<1>1. CASE Construct
  <2>1. ~up /\ UNCHANGED <<incPc, crashes, pc, stamp, handed>>
    BY <1>1, Zenon DEF Construct, Store!Open
  <2> QED
    BY <1>0, <2>1, Numbers DEF InStep, Quiet, Epochs, StampBehind, WireNeverAhead
<1>2. CASE TimerExpires
  <2>1. /\ up /\ pc[Timer] = "idle" /\ Goto(Timer, "stamp") /\ Timer \in Threads
        /\ UNCHANGED <<up, base, increments, crashes, incPc, handed, stamp>>
    BY <1>2, SendAssumption, Zenon DEF TimerExpires, MayBegin, storeVars
  <2> QED
    BY <1>0, <2>1, GotoEffect, WireKept
<1>3. ASSUME NEW t \in Threads, BeginSend(t)
      PROVE  InStep' /\ Epochs' /\ StampBehind' /\ WireNeverAhead'
  <2>1. /\ up /\ pc[t] = "idle" /\ Goto(t, "stamp")
        /\ UNCHANGED <<up, base, increments, crashes, incPc, handed, stamp>>
    BY <1>3, Zenon DEF BeginSend, MayBegin, storeVars
  <2> QED
    BY <1>0, <2>1, GotoEffect, WireKept
<1>4. ASSUME NEW t \in Threads, Stamp(t)
      PROVE  InStep' /\ Epochs' /\ StampBehind' /\ WireNeverAhead'
  <2>1. /\ pc[t] = "stamp" /\ Goto(t, "increment") /\ Store!Call(t) /\ UNCHANGED handed
        /\ stamp' = [stamp EXCEPT ![t] = seqNo]
    BY <1>4, Zenon DEF Stamp
  <2>2. stamp'[t] = seqNo /\ \A u \in Threads : u # t => stamp'[u] = stamp[u]
    BY <1>0, <2>1 DEF TypeOK
  <2>3. up /\ seqNo - base <= increments
    BY <1>0, <2>1, CallEffect DEF WireInv, StoreProofs!AheadInv, StoreProofs!NeverAhead
  <2>4. pc'[t] = "increment" /\ \A u \in Threads : u # t => pc'[u] = pc[u]
    BY <1>0, <2>1, GotoEffect
  <2>5. InStep'
    BY <1>0, <2>1, <2>3, <2>4, CallEffect DEF InStep, Quiet
  <2>6. Epochs' /\ WireNeverAhead'
    BY <1>0, <2>1, CallEffect DEF Epochs, WireNeverAhead
  <2>7. StampBehind'
    BY <1>0, <2>1, <2>2, <2>3, <2>4, CallEffect DEF StampBehind
  <2> QED
    BY <2>5, <2>6, <2>7
<1>5. ASSUME NEW t \in Threads, IncrementStep(t)
      PROVE  InStep' /\ Epochs' /\ StampBehind' /\ WireNeverAhead'
  <2>1. /\ pc[t] = "increment" /\ Store!Increment(t) /\ UNCHANGED <<stamp, handed>>
        /\ Goto(t, IF incPc[t] = "storeMap" THEN "isRunning" ELSE "increment")
    BY <1>5, Zenon DEF IncrementStep
  <2>2. up
    BY <1>0, <2>1 DEF InStep, Quiet
  <2>3. increments' \in Int /\ increments <= increments'
    BY <1>0, <2>1, IncrementEffect, Numbers
  <2>4. /\ pc'[t] = IF incPc[t] = "storeMap" THEN "isRunning" ELSE "increment"
        /\ \A u \in Threads : u # t => pc'[u] = pc[u]
    BY <1>0, <2>1, GotoEffect
  <2>5. InStep'
    BY <1>0, <2>1, <2>2, <2>4, IncrementEffect DEF InStep, Quiet
  <2>6. Epochs' /\ WireNeverAhead'
    BY <1>0, <2>1, <2>3, IncrementEffect, Numbers DEF Epochs, WireNeverAhead
  <2>7. StampBehind'
    BY <1>0, <2>1, <2>3, <2>4, IncrementEffect, Numbers DEF StampBehind
  <2> QED
    BY <2>5, <2>6, <2>7
<1>6. ASSUME NEW t \in Threads, IsRunning(t)
      PROVE  InStep' /\ Epochs' /\ StampBehind' /\ WireNeverAhead'
  <2>1. /\ pc[t] = "isRunning" /\ (Goto(t, "write") \/ Goto(t, "return"))
        /\ UNCHANGED <<up, base, increments, crashes, incPc, handed, stamp>>
    BY <1>6, Zenon DEF IsRunning, storeVars
  <2>2. up
    BY <1>0, <2>1 DEF InStep, Quiet
  <2> QED
    BY <1>0, <2>1, <2>2, GotoEffect, WireKept
<1>7. ASSUME NEW t \in Threads, Write(t)
      PROVE  InStep' /\ Epochs' /\ StampBehind' /\ WireNeverAhead'
  <2>1. /\ pc[t] = "write" /\ Goto(t, "return") /\ (UNCHANGED handed \/ Give(t))
        /\ UNCHANGED <<up, base, increments, crashes, incPc, stamp>>
    BY <1>7, Zenon DEF Write, storeVars
  <2>2. up
    BY <1>0, <2>1 DEF InStep, Quiet
  <2>3. CASE UNCHANGED handed
    BY <1>0, <2>1, <2>2, <2>3, GotoEffect, WireKept
  <2>4. CASE Give(t)
    <3>1. InStep' /\ StampBehind'
      BY <1>0, <2>1, <2>2, GotoEffect DEF InStep, Quiet, StampBehind
    <3>2. \A i \in DOMAIN handed' : \/ i \in DOMAIN handed /\ handed'[i] = handed[i]
                                    \/ handed'[i] = [seq |-> stamp[t], epoch |-> crashes]
      <4> SUFFICES ASSUME NEW i \in DOMAIN handed'
                   PROVE  \/ i \in DOMAIN handed /\ handed'[i] = handed[i]
                          \/ handed'[i] = [seq |-> stamp[t], epoch |-> crashes]
        OBVIOUS
      <4>1. /\ Len(handed) \in Nat
            /\ DOMAIN handed = 1 .. Len(handed)
            /\ DOMAIN handed' = 1 .. Len(handed) + 1
        BY <1>0, <2>4, GiveEffect, Zenon
      <4>2. i \in DOMAIN handed \/ i = Len(handed) + 1
        BY <4>1
      <4> QED
        BY <1>0, <2>4, <4>2, GiveEffect, Zenon
    <3>3. stamp[t] - base < increments
      BY <1>0, <2>1 DEF StampBehind
    <3> QED
      BY <1>0, <2>1, <2>2, <3>1, <3>2, <3>3, Numbers DEF Epochs, WireNeverAhead
  <2> QED
    BY <2>1, <2>3, <2>4
<1>8. ASSUME NEW t \in Threads, Return(t)
      PROVE  InStep' /\ Epochs' /\ StampBehind' /\ WireNeverAhead'
  <2>1. /\ pc[t] = "return" /\ Goto(t, "idle") /\ stamp' = [stamp EXCEPT ![t] = 0]
        /\ UNCHANGED <<up, base, increments, crashes, incPc, handed>>
    BY <1>8, Zenon DEF Return, storeVars
  <2>2. \A u \in Threads : u # t => stamp'[u] = stamp[u]
    BY <1>0, <2>1 DEF TypeOK
  <2> QED
    BY <1>0, <2>1, <2>2, GotoEffect, WireKept
<1>9. CASE Start \/ Resolved \/ Connected \/ PeerResets \/ FinishWrite \/ UNCHANGED vars
  <2>1. UNCHANGED <<up, base, increments, crashes, incPc, handed, pc, stamp>>
    BY <1>9, Zenon DEF Start, Resolved, Connected, PeerResets, FinishWrite, vars, storeVars
  <2> QED
    BY <1>0, <2>1 DEF InStep, Quiet, Epochs, StampBehind, WireNeverAhead
<1>10. CASE Crash
  <2>1. InStep' /\ StampBehind'
    BY <1>10, CrashEffect DEF InStep, Quiet, StampBehind
  <2> QED
    BY <1>0, <1>10, <2>1, CrashEffect, Numbers DEF Epochs, WireNeverAhead
<1> QED
  BY <1>1, <1>2, <1>3, <1>4, <1>5, <1>6, <1>7, <1>8, <1>9, <1>10 DEF Next, Send

\* However many threads send at the same time, no message reaches the socket with
\* a number that the increments of its process have not passed.
THEOREM WireNeverAheadCorrect == Spec => []WireNeverAhead
<1>1. WireInv => WireNeverAhead
  BY DEF WireInv
<1> QED
  BY <1>1, WireInit, WireStep, PTL DEF Spec

\* ... and below them the store never runs ahead either: what SeqNoMemoryMap_proofs
\* shows of it holds here, because the send path takes only steps of the store.
THEOREM StoreNeverAheadCorrect == Spec => []StoreNeverAhead
<1>1. WireInv => StoreNeverAhead
  BY DEF WireInv, StoreProofs!AheadInv, StoreProofs!NeverAhead, StoreNeverAhead, Store!NeverAhead
<1> QED
  BY <1>1, WireInit, WireStep, PTL DEF Spec

-----------------------------------------------------------------------------
(* When sends do not overlap, numbers increase over all lives of the process. *)

OneSender == \A t, u \in Threads : pc[t] # "idle" /\ pc[u] # "idle" => t = u

\* The file holds the number of the message being sent until the last access of
\* the increment, and the one after it from then on.
Stages ==
    \A t \in Threads :
        /\ pc[t] = "stamp" => seqNo < IntMax
        /\ pc[t] = "increment" => 0 <= stamp[t] /\ stamp[t] < IntMax /\ mmap = stamp[t]
        /\ pc[t] \in {"isRunning", "write"} => 0 <= stamp[t] /\ mmap = stamp[t] + 1

\* A file that holds 0 is one of a session that begins with 0.
NotNegative == up => 0 <= mmap /\ (mmap = 0 => BeginSeqNo = 0)

\* The messages the next one is numbered after.
Current(i) == ResetSeqNo => handed[i].epoch = crashes

\* What was handed to the socket is below the file, also when the process has
\* died, and below the number of the message being sent.
Fresh ==
    \A i \in DOMAIN handed :
        Current(i) => /\ 0 <= handed[i].seq
                      /\ handed[i].seq < mmap
                      /\ \A t \in Threads : Holding(t) => handed[i].seq < stamp[t]

SerialSendInv ==
    /\ WireInv
    /\ StoreProofs!SerialInv
    /\ OneSender
    /\ Stages
    /\ NotNegative
    /\ Fresh
    /\ StrictlyIncreasing

\* The last access of an increment raises the file by one, the others leave it.
LEMMA IncrementOnFile ==
    ASSUME SerialSendInv, NEW t \in Threads, Store!Increment(t), mmap < IntMax
    PROVE  mmap' = IF incPc[t] = "storeMap" THEN mmap + 1 ELSE mmap
<1>1. TypeOK /\ mmap \in Int /\ IntMax \in Int
  BY Numbers, SendAssumption DEF SerialSendInv, WireInv, Store!StoreConstants
<1>2. CASE Store!StoreMap(t)
  <2>1. incPc[t] = "storeMap" /\ mmap' = incArg[t]
    BY <1>2, Zenon DEF Store!StoreMap
  <2>2. incArg[t] = StoreProofs!Wrap(mmap + 1)
    BY <2>1 DEF SerialSendInv, StoreProofs!SerialInv, StoreProofs!CounterAndFile, StoreProofs!IncPcs
  <2> QED
    BY <1>1, <2>1, <2>2 DEF StoreProofs!Wrap
<1>3. CASE Store!FetchAdd(t) \/ Store!LoadVal(t) \/ Store!StoreSeqNo(t) \/ Store!LoadSeqNo(t)
  <2>1. incPc[t] # "storeMap" /\ mmap' = mmap
    BY <1>3 DEF Store!FetchAdd, Store!LoadVal, Store!StoreSeqNo, Store!LoadSeqNo
  <2> QED
    BY <2>1
<1> QED
  BY <1>2, <1>3 DEF Store!Increment

\* Whenever nobody is in the increment, file and counter agree.
LEMMA FileIsCounter ==
    ASSUME SerialSendInv, up, \A t \in Threads : pc[t] # "increment"
    PROVE  mmap = seqNo
<1>1. StoreProofs!AllIdle
  BY DEF SerialSendInv, WireInv, InStep, StoreProofs!AllIdle
<1> QED
  BY <1>1 DEF SerialSendInv, StoreProofs!SerialInv, StoreProofs!CounterAndFile

\* It starts with nobody sending and nothing sent.
LEMMA SerialSendInit == Init => SerialSendInv
<1> SUFFICES ASSUME Init PROVE SerialSendInv
  OBVIOUS
<1>1. WireInv /\ StoreProofs!SerialInv
  BY WireInit, StoreProofs!SerialInit, SameConstants, SameInit DEF Init
<1>2. DOMAIN handed = {} /\ ~up
  BY DEF Init, Store!Init
<1>3. \A t \in Threads : pc[t] = "idle"
  BY Zenon DEF Init
<1>4. OneSender /\ Stages
  BY <1>3 DEF OneSender, Stages
<1> QED
  BY <1>1, <1>2, <1>4 DEF SerialSendInv, NotNegative, Fresh, StrictlyIncreasing

\* A step of the one sender, or of one that begins, that leaves numbers alone.
LEMMA SerialKept ==
    ASSUME SerialSendInv, UNCHANGED <<up, mmap, seqNo, crashes, handed>>,
           NEW t \in Threads,
           \A u \in Threads : u # t => pc'[u] = pc[u] /\ stamp'[u] = stamp[u],
           pc'[t] # "idle" => \A u \in Threads : u # t => pc[u] = "idle",
           pc'[t] = "stamp" => seqNo < IntMax,
           pc'[t] # "increment",
           pc'[t] \in {"isRunning", "write"} => pc[t] \in {"isRunning", "write"} /\ stamp'[t] = stamp[t]
    PROVE  OneSender' /\ Stages' /\ NotNegative' /\ Fresh' /\ StrictlyIncreasing'
<1>1. OneSender'
  BY DEF SerialSendInv, OneSender
<1>2. Stages'
  BY DEF SerialSendInv, Stages
<1>3. Fresh'
  BY DEF SerialSendInv, Fresh, Current, Holding
<1>4. NotNegative' /\ StrictlyIncreasing'
  BY DEF SerialSendInv, NotNegative, StrictlyIncreasing
<1> QED
  BY <1>1, <1>2, <1>3, <1>4

\* Every step keeps it, if sends do not overlap.
LEMMA SerialSendStep ==
    ASSUME ~Overlap
    PROVE  SerialSendInv /\ [Next]_vars => SerialSendInv'
<1> SUFFICES ASSUME SerialSendInv, [Next]_vars
             PROVE  OneSender' /\ Stages' /\ NotNegative' /\ Fresh' /\ StrictlyIncreasing'
  BY WireStep, StoreStep, StoreProofs!SerialStep, SameConstants DEF SerialSendInv
<1>0. /\ TypeOK /\ TypeOK' /\ WireInv /\ InStep /\ Epochs
      /\ OneSender /\ Stages /\ NotNegative /\ Fresh /\ StrictlyIncreasing
  BY TypeStep DEF SerialSendInv, WireInv
<1>1. CASE Construct
  <2>1. /\ ~up /\ UNCHANGED <<crashes, pc, stamp, handed>>
        /\ mmap' = Store!Opened(mmap)
    BY <1>1, Zenon DEF Construct, Store!Open
  <2>2. \A u \in Threads : pc'[u] = "idle"
    BY <1>0, <2>1 DEF InStep, Quiet
  <2>3. OneSender' /\ Stages' /\ StrictlyIncreasing'
    BY <1>0, <2>1, <2>2 DEF OneSender, Stages, StrictlyIncreasing
  <2>4. NotNegative'
    BY <2>1, SendAssumption DEF NotNegative, Store!StoreConstants, Store!Opened, Store!Restored
  <2>5. ASSUME NEW i \in DOMAIN handed, Current(i) PROVE mmap' = mmap
    <3>1. ~ResetSeqNo
      BY <1>0, <2>1, <2>5, Numbers DEF Epochs, Current
    <3>2. 0 <= handed[i].seq /\ handed[i].seq < mmap
      BY <1>0, <2>5 DEF Fresh
    <3> QED
      BY <1>0, <2>1, <3>1, <3>2, Numbers DEF Store!Opened, Store!Restored
  <2>6. Fresh'
    BY <1>0, <2>1, <2>2, <2>5 DEF Fresh, Current, Holding
  <2> QED
    BY <2>3, <2>4, <2>6
<1>2. CASE TimerExpires
  <2>1. /\ Quiet /\ seqNo < IntMax /\ Goto(Timer, "stamp") /\ Timer \in Threads
        /\ UNCHANGED <<up, mmap, seqNo, crashes, handed, stamp>>
    BY <1>2, SendAssumption, Zenon DEF TimerExpires, MayBegin, storeVars
  <2> QED
    BY <1>0, <2>1, GotoEffect, SerialKept DEF Quiet
<1>3. ASSUME NEW t \in Threads, BeginSend(t)
      PROVE  OneSender' /\ Stages' /\ NotNegative' /\ Fresh' /\ StrictlyIncreasing'
  <2>1. /\ Quiet /\ seqNo < IntMax /\ Goto(t, "stamp")
        /\ UNCHANGED <<up, mmap, seqNo, crashes, handed, stamp>>
    BY <1>3, Zenon DEF BeginSend, MayBegin, storeVars
  <2> QED
    BY <1>0, <2>1, GotoEffect, SerialKept DEF Quiet
<1>4. ASSUME NEW t \in Threads, Stamp(t)
      PROVE  OneSender' /\ Stages' /\ NotNegative' /\ Fresh' /\ StrictlyIncreasing'
  <2>1. /\ pc[t] = "stamp" /\ Goto(t, "increment") /\ Store!Call(t) /\ UNCHANGED handed
        /\ stamp' = [stamp EXCEPT ![t] = seqNo]
    BY <1>4, Zenon DEF Stamp
  <2>2. stamp'[t] = seqNo /\ \A u \in Threads : u # t => stamp'[u] = stamp[u]
    BY <1>0, <2>1 DEF TypeOK
  <2>3. pc'[t] = "increment" /\ \A u \in Threads : u # t => pc'[u] = pc[u]
    BY <1>0, <2>1, GotoEffect
  <2>4. \A u \in Threads : u # t => pc[u] = "idle"
    BY <1>0, <2>1 DEF OneSender
  <2>5. up /\ UNCHANGED <<up, mmap, seqNo, crashes>>
    BY <1>0, <2>1, CallEffect
  <2>6. mmap = seqNo
    BY <2>1, <2>4, <2>5, FileIsCounter
  <2>7. OneSender' /\ NotNegative' /\ StrictlyIncreasing'
    BY <1>0, <2>1, <2>3, <2>4, <2>5 DEF OneSender, NotNegative, StrictlyIncreasing
  <2>8. Stages'
    BY <1>0, <2>1, <2>2, <2>3, <2>4, <2>5, <2>6 DEF Stages, NotNegative
  <2>9. Fresh'
    BY <1>0, <2>1, <2>2, <2>3, <2>4, <2>5, <2>6 DEF Fresh, Current, Holding
  <2> QED
    BY <2>7, <2>8, <2>9
<1>5. ASSUME NEW t \in Threads, IncrementStep(t)
      PROVE  OneSender' /\ Stages' /\ NotNegative' /\ Fresh' /\ StrictlyIncreasing'
  <2>1. /\ pc[t] = "increment" /\ Store!Increment(t) /\ UNCHANGED <<stamp, handed>>
        /\ Goto(t, IF incPc[t] = "storeMap" THEN "isRunning" ELSE "increment")
    BY <1>5, Zenon DEF IncrementStep
  <2>2. UNCHANGED <<up, crashes>>
    BY <1>0, <2>1, IncrementEffect
  <2>3. /\ pc'[t] = IF incPc[t] = "storeMap" THEN "isRunning" ELSE "increment"
        /\ \A u \in Threads : u # t => pc'[u] = pc[u]
    BY <1>0, <2>1, GotoEffect
  <2>4. \A u \in Threads : u # t => pc[u] = "idle"
    BY <1>0, <2>1 DEF OneSender
  <2>5. 0 <= stamp[t] /\ stamp[t] < IntMax /\ mmap = stamp[t] /\ stamp[t] \in Int
    BY <1>0, <2>1, Numbers DEF Stages
  <2>6. mmap' = IF incPc[t] = "storeMap" THEN mmap + 1 ELSE mmap
    BY <2>1, <2>5, IncrementOnFile
  <2>7. OneSender' /\ StrictlyIncreasing'
    BY <1>0, <2>1, <2>2, <2>3, <2>4 DEF OneSender, StrictlyIncreasing
  <2>8. Stages' /\ NotNegative'
    BY <1>0, <2>1, <2>2, <2>3, <2>4, <2>5, <2>6 DEF Stages, NotNegative
  <2>9. Fresh'
    BY <1>0, <2>1, <2>2, <2>3, <2>4, <2>5, <2>6, Numbers DEF Fresh, Current, Holding
  <2> QED
    BY <2>7, <2>8, <2>9
<1>6. ASSUME NEW t \in Threads, IsRunning(t)
      PROVE  OneSender' /\ Stages' /\ NotNegative' /\ Fresh' /\ StrictlyIncreasing'
  <2>1. /\ pc[t] = "isRunning" /\ (Goto(t, "write") \/ Goto(t, "return"))
        /\ UNCHANGED <<up, mmap, seqNo, crashes, handed, stamp>>
    BY <1>6, Zenon DEF IsRunning, storeVars
  <2>2. \A u \in Threads : u # t => pc[u] = "idle"
    BY <1>0, <2>1 DEF OneSender
  <2> QED
    BY <1>0, <2>1, <2>2, GotoEffect, SerialKept
<1>7. ASSUME NEW t \in Threads, Write(t)
      PROVE  OneSender' /\ Stages' /\ NotNegative' /\ Fresh' /\ StrictlyIncreasing'
  <2>1. /\ pc[t] = "write" /\ Goto(t, "return") /\ (UNCHANGED handed \/ Give(t))
        /\ UNCHANGED <<up, mmap, seqNo, crashes, stamp>>
    BY <1>7, Zenon DEF Write, storeVars
  <2>2. \A u \in Threads : u # t => pc[u] = "idle"
    BY <1>0, <2>1 DEF OneSender
  <2>3. pc'[t] = "return" /\ \A u \in Threads : u # t => pc'[u] = pc[u]
    BY <1>0, <2>1, GotoEffect
  <2>4. CASE UNCHANGED handed
    BY <1>0, <2>1, <2>2, <2>3, <2>4, SerialKept
  <2>5. CASE Give(t)
    <3>1. OneSender' /\ Stages' /\ NotNegative'
      BY <1>0, <2>1, <2>2, <2>3 DEF OneSender, Stages, NotNegative
    <3>2. \A u \in Threads : ~Holding(u)'
      BY <2>2, <2>3 DEF Holding
    <3>3. 0 <= stamp[t] /\ mmap = stamp[t] + 1 /\ stamp[t] \in Int
      BY <1>0, <2>1, Numbers DEF Stages
    <3>4. /\ Len(handed) \in Nat
          /\ DOMAIN handed = 1 .. Len(handed)
          /\ DOMAIN handed' = 1 .. Len(handed) + 1
      BY <1>0, <2>5, GiveEffect, Zenon
    <3>5. /\ handed'[Len(handed) + 1].seq = stamp[t]
          /\ handed'[Len(handed) + 1].epoch = crashes
      <4>1. handed'[Len(handed) + 1] = [seq |-> stamp[t], epoch |-> crashes]
        BY <1>0, <2>5, GiveEffect, Zenon
      <4> QED
        BY <4>1
    <3>6. \A i \in DOMAIN handed : handed'[i] = handed[i]
      BY <1>0, <2>5, GiveEffect, Zenon
    <3>7. ASSUME NEW i \in DOMAIN handed, Current(i)
          PROVE  /\ 0 <= handed[i].seq /\ handed[i].seq < mmap
                 /\ handed[i].seq < stamp[t]
      BY <1>0, <2>1, <3>7 DEF Fresh, Holding
    <3>8. Fresh'
      <4> SUFFICES ASSUME NEW i \in DOMAIN handed', Current(i)'
                   PROVE  0 <= handed'[i].seq /\ handed'[i].seq < mmap'
        BY <3>2 DEF Fresh
      <4>1. CASE i \in DOMAIN handed
        BY <2>1, <3>6, <3>7, <4>1 DEF Current
      <4>2. CASE i = Len(handed) + 1
        BY <2>1, <3>3, <3>5, <4>2
      <4> QED
        BY <3>4, <4>1, <4>2
    <3>9. StrictlyIncreasing'
      <4> SUFFICES ASSUME NEW i \in DOMAIN handed', NEW j \in DOMAIN handed', i < j,
                          ResetSeqNo => handed'[i].epoch = handed'[j].epoch
                   PROVE  handed'[i].seq < handed'[j].seq
        BY DEF StrictlyIncreasing
      <4>1. i \in DOMAIN handed
        BY <3>4
      <4>2. CASE j \in DOMAIN handed
        BY <1>0, <3>6, <4>1, <4>2 DEF StrictlyIncreasing
      <4>3. CASE j = Len(handed) + 1
        BY <3>5, <3>6, <3>7, <4>1, <4>3 DEF Current
      <4> QED
        BY <3>4, <4>2, <4>3
    <3> QED
      BY <3>1, <3>8, <3>9
  <2> QED
    BY <2>1, <2>4, <2>5
<1>8. ASSUME NEW t \in Threads, Return(t)
      PROVE  OneSender' /\ Stages' /\ NotNegative' /\ Fresh' /\ StrictlyIncreasing'
  <2>1. /\ pc[t] = "return" /\ Goto(t, "idle") /\ stamp' = [stamp EXCEPT ![t] = 0]
        /\ UNCHANGED <<up, mmap, seqNo, crashes, handed>>
    BY <1>8, Zenon DEF Return, storeVars
  <2>2. \A u \in Threads : u # t => stamp'[u] = stamp[u]
    BY <1>0, <2>1 DEF TypeOK
  <2> QED
    BY <1>0, <2>1, <2>2, GotoEffect, SerialKept
<1>9. CASE Start \/ Resolved \/ Connected \/ PeerResets \/ FinishWrite \/ UNCHANGED vars
  <2>1. UNCHANGED <<up, mmap, seqNo, crashes, handed, pc, stamp>>
    BY <1>9, Zenon DEF Start, Resolved, Connected, PeerResets, FinishWrite, vars, storeVars
  <2> QED
    BY <1>0, <2>1 DEF OneSender, Stages, NotNegative, Fresh, Current, Holding, StrictlyIncreasing
<1>10. CASE Crash
  <2>1. /\ up /\ ~up' /\ crashes' = crashes + 1 /\ UNCHANGED <<mmap, handed>>
        /\ \A u \in Threads : pc'[u] = "idle"
    BY <1>10, CrashEffect
  <2>2. OneSender' /\ Stages' /\ NotNegative' /\ StrictlyIncreasing'
    BY <1>0, <2>1 DEF OneSender, Stages, NotNegative, StrictlyIncreasing
  <2>3. ASSUME NEW i \in DOMAIN handed, Current(i)' PROVE Current(i)
    BY <1>0, <2>1, <2>3, Numbers DEF Epochs, Current
  <2>4. Fresh'
    BY <1>0, <2>1, <2>3 DEF Fresh, Holding
  <2> QED
    BY <2>2, <2>4
<1> QED
  BY <1>1, <1>2, <1>3, <1>4, <1>5, <1>6, <1>7, <1>8, <1>9, <1>10 DEF Next, Send

\* When sends do not overlap, the numbers handed to the socket increase strictly,
\* wherever the process dies in between and however often it is started again.
THEOREM StrictlyIncreasingCorrect ==
    ASSUME ~Overlap PROVE Spec => []StrictlyIncreasing
<1>1. SerialSendInv => StrictlyIncreasing
  BY DEF SerialSendInv
<1> QED
  BY <1>1, SerialSendInit, SerialSendStep, PTL DEF Spec

-----------------------------------------------------------------------------
(* Every number a process has used was handed over or counted as dropped. *)

\* Is there a message whose number is in the file already and whose fate is open?
Pending == \E t \in Threads : pc[t] \in {"isRunning", "write"}

\* The file counts the messages given out, so that it settles with the last access
\* of an increment; between sends the counter agrees with it.
Accounts ==
    up => /\ Pending => mmap - base = Cardinality(OfThisProcess) + dropped + 1
          /\ ~Pending => mmap - base = Cardinality(OfThisProcess) + dropped

AccountInv == SerialSendInv /\ Accounts

LEMMA OfThisProcessFinite ==
    ASSUME TypeOK
    PROVE  IsFiniteSet(OfThisProcess) /\ Cardinality(OfThisProcess) \in Nat
<1>1. Len(handed) \in Nat /\ DOMAIN handed = 1 .. Len(handed)
  BY DEF TypeOK
<1>2. IsFiniteSet(1 .. Len(handed))
  BY <1>1, FS_Interval
<1>3. OfThisProcess \in SUBSET (1 .. Len(handed))
  BY <1>1 DEF OfThisProcess
<1>4. IsFiniteSet(OfThisProcess)
  BY <1>2, <1>3, FS_Subset
<1> QED
  BY <1>4, FS_CardinalityType

\* A message given to the socket is one more of this process.
LEMMA OneMoreHanded ==
    ASSUME TypeOK, UNCHANGED crashes, NEW t \in Threads, Give(t)
    PROVE  Cardinality(OfThisProcess)' = Cardinality(OfThisProcess) + 1
<1>1. /\ Len(handed) \in Nat
      /\ DOMAIN handed = 1 .. Len(handed)
      /\ DOMAIN handed' = 1 .. Len(handed) + 1
      /\ \A i \in DOMAIN handed : handed'[i] = handed[i]
  BY GiveEffect, Zenon
<1>2. handed'[Len(handed) + 1].epoch = crashes
  <2>1. handed'[Len(handed) + 1] = [seq |-> stamp[t], epoch |-> crashes]
    BY GiveEffect, Zenon
  <2> QED
    BY <2>1
<1>3. OfThisProcess' = OfThisProcess \cup {Len(handed) + 1}
  <2> SUFFICES ASSUME NEW i
               PROVE  i \in OfThisProcess' <=> i \in OfThisProcess \/ i = Len(handed) + 1
    OBVIOUS
  <2>1. i \in DOMAIN handed' <=> i \in DOMAIN handed \/ i = Len(handed) + 1
    BY <1>1
  <2>2. i \in DOMAIN handed => handed'[i].epoch = handed[i].epoch
    BY <1>1
  <2> QED
    BY <1>2, <2>1, <2>2 DEF OfThisProcess
<1>4. Len(handed) + 1 \notin OfThisProcess
  BY <1>1 DEF OfThisProcess
<1> QED
  BY <1>3, <1>4, OfThisProcessFinite, FS_AddElement

\* A step that neither takes a number nor settles the fate of one.
LEMMA AccountsKept ==
    ASSUME Accounts, UNCHANGED <<up, mmap, base, crashes, handed, dropped>>, Pending' <=> Pending
    PROVE  Accounts'
<1>1. OfThisProcess' = OfThisProcess
  BY DEF OfThisProcess
<1> QED
  BY <1>1 DEF Accounts

\* Every step keeps the accounts, if sends do not overlap.
LEMMA AccountStep ==
    ASSUME ~Overlap
    PROVE  AccountInv /\ [Next]_vars => AccountInv'
<1> SUFFICES ASSUME AccountInv, [Next]_vars PROVE Accounts'
  BY SerialSendStep DEF AccountInv
<1>0. /\ SerialSendInv /\ TypeOK /\ InStep /\ Epochs /\ OneSender /\ Stages /\ Accounts
  BY DEF AccountInv, SerialSendInv, WireInv
<1>1. CASE Construct
  <2>1. /\ ~up /\ UNCHANGED <<crashes, pc, handed>> /\ dropped' = 0
        /\ mmap' = Store!Opened(mmap) /\ base' = Store!Opened(mmap)
    BY <1>1, Zenon DEF Construct, Store!Open
  <2>2. ~Pending'
    BY <1>0, <2>1 DEF InStep, Quiet, Pending
  <2>3. OfThisProcess' = {}
    BY <1>0, <2>1, Numbers DEF Epochs, OfThisProcess
  <2>4. Cardinality(OfThisProcess)' = 0
    BY <2>3, FS_EmptySet
  <2>5. Store!Opened(mmap) \in Int
    BY <1>0, Numbers, SendAssumption DEF Store!Opened, Store!Restored, Store!StoreConstants
  <2> QED
    BY <2>1, <2>2, <2>4, <2>5 DEF Accounts
<1>2. CASE TimerExpires
  <2>1. /\ pc[Timer] = "idle" /\ Goto(Timer, "stamp") /\ Timer \in Threads
        /\ UNCHANGED <<up, mmap, base, crashes, handed, dropped>>
    BY <1>2, SendAssumption, Zenon DEF TimerExpires, storeVars
  <2>2. Pending' <=> Pending
    BY <1>0, <2>1, GotoEffect DEF Pending
  <2> QED
    BY <1>0, <2>1, <2>2, AccountsKept
<1>3. ASSUME NEW t \in Threads, BeginSend(t) PROVE Accounts'
  <2>1. /\ pc[t] = "idle" /\ Goto(t, "stamp")
        /\ UNCHANGED <<up, mmap, base, crashes, handed, dropped>>
    BY <1>3, Zenon DEF BeginSend, storeVars
  <2>2. Pending' <=> Pending
    BY <1>0, <2>1, GotoEffect DEF Pending
  <2> QED
    BY <1>0, <2>1, <2>2, AccountsKept
<1>4. ASSUME NEW t \in Threads, Stamp(t) PROVE Accounts'
  <2>1. pc[t] = "stamp" /\ Goto(t, "increment") /\ Store!Call(t) /\ UNCHANGED <<handed, dropped>>
    BY <1>4, Zenon DEF Stamp
  <2>2. UNCHANGED <<up, mmap, base, crashes>>
    BY <1>0, <2>1, CallEffect
  <2>3. Pending' <=> Pending
    BY <1>0, <2>1, GotoEffect DEF Pending
  <2> QED
    BY <1>0, <2>1, <2>2, <2>3, AccountsKept
<1>5. ASSUME NEW t \in Threads, IncrementStep(t) PROVE Accounts'
  <2>1. /\ pc[t] = "increment" /\ Store!Increment(t) /\ UNCHANGED <<handed, dropped>>
        /\ Goto(t, IF incPc[t] = "storeMap" THEN "isRunning" ELSE "increment")
    BY <1>5, Zenon DEF IncrementStep
  <2>2. UNCHANGED <<up, base, crashes>>
    BY <1>0, <2>1, IncrementEffect
  <2>3. /\ pc'[t] = IF incPc[t] = "storeMap" THEN "isRunning" ELSE "increment"
        /\ \A u \in Threads : u # t => pc'[u] = pc[u]
    BY <1>0, <2>1, GotoEffect
  <2>4. \A u \in Threads : u # t => pc[u] = "idle"
    BY <1>0, <2>1 DEF OneSender
  <2>5. ~Pending /\ (Pending' <=> incPc[t] = "storeMap")
    BY <2>1, <2>3, <2>4 DEF Pending
  <2>6. mmap < IntMax
    BY <1>0, <2>1, Numbers DEF Stages
  <2>7. mmap' = IF incPc[t] = "storeMap" THEN mmap + 1 ELSE mmap
    BY <1>0, <2>1, <2>6, IncrementOnFile
  <2>8. OfThisProcess' = OfThisProcess
    BY <2>1, <2>2 DEF OfThisProcess
  <2>9. Cardinality(OfThisProcess) \in Nat /\ dropped \in Nat
    BY <1>0, OfThisProcessFinite DEF TypeOK
  <2> QED
    BY <1>0, <2>1, <2>2, <2>5, <2>7, <2>8, <2>9, Numbers DEF Accounts
<1>6. ASSUME NEW t \in Threads, IsRunning(t) PROVE Accounts'
  <2>1. /\ pc[t] = "isRunning"
        /\ \/ Goto(t, "write") /\ dropped' = dropped
           \/ Goto(t, "return") /\ dropped' = dropped + 1
        /\ UNCHANGED <<up, mmap, base, crashes, handed>>
    BY <1>6, Zenon DEF IsRunning, storeVars
  <2>2. \A u \in Threads : u # t => pc[u] = "idle"
    BY <1>0, <2>1 DEF OneSender
  <2>3. CASE Goto(t, "write") /\ dropped' = dropped
    <3>1. Pending' <=> Pending
      BY <1>0, <2>1, <2>3, GotoEffect DEF Pending
    <3> QED
      BY <1>0, <2>1, <2>3, <3>1, AccountsKept
  <2>4. CASE Goto(t, "return") /\ dropped' = dropped + 1
    <3>1. Pending /\ ~Pending'
      BY <1>0, <2>1, <2>2, <2>4, GotoEffect DEF Pending
    <3>2. OfThisProcess' = OfThisProcess
      BY <2>1 DEF OfThisProcess
    <3>3. Cardinality(OfThisProcess) \in Nat /\ dropped \in Nat
      BY <1>0, OfThisProcessFinite DEF TypeOK
    <3> QED
      BY <1>0, <2>1, <2>4, <3>1, <3>2, <3>3, Numbers DEF Accounts
  <2> QED
    BY <2>1, <2>3, <2>4
<1>7. ASSUME NEW t \in Threads, Write(t) PROVE Accounts'
  <2>1. /\ pc[t] = "write" /\ Goto(t, "return")
        /\ \/ UNCHANGED handed /\ dropped' = dropped + 1
           \/ Give(t) /\ UNCHANGED dropped
        /\ UNCHANGED <<up, mmap, base, crashes>>
    BY <1>7, Zenon DEF Write, storeVars
  <2>2. \A u \in Threads : u # t => pc[u] = "idle"
    BY <1>0, <2>1 DEF OneSender
  <2>3. Pending /\ ~Pending'
    BY <1>0, <2>1, <2>2, GotoEffect DEF Pending
  <2>4. Cardinality(OfThisProcess) \in Nat /\ dropped \in Nat
    BY <1>0, OfThisProcessFinite DEF TypeOK
  <2>5. CASE UNCHANGED handed /\ dropped' = dropped + 1
    <3>1. OfThisProcess' = OfThisProcess
      BY <2>1, <2>5 DEF OfThisProcess
    <3> QED
      BY <1>0, <2>1, <2>3, <2>4, <2>5, <3>1, Numbers DEF Accounts
  <2>6. CASE Give(t) /\ UNCHANGED dropped
    <3>1. Cardinality(OfThisProcess)' = Cardinality(OfThisProcess) + 1
      BY <1>0, <2>1, <2>6, OneMoreHanded
    <3> QED
      BY <1>0, <2>1, <2>3, <2>4, <2>6, <3>1, Numbers DEF Accounts
  <2> QED
    BY <2>1, <2>5, <2>6
<1>8. ASSUME NEW t \in Threads, Return(t) PROVE Accounts'
  <2>1. /\ pc[t] = "return" /\ Goto(t, "idle")
        /\ UNCHANGED <<up, mmap, base, crashes, handed, dropped>>
    BY <1>8, Zenon DEF Return, storeVars
  <2>2. Pending' <=> Pending
    BY <1>0, <2>1, GotoEffect DEF Pending
  <2> QED
    BY <1>0, <2>1, <2>2, AccountsKept
<1>9. CASE Start \/ Resolved \/ Connected \/ PeerResets \/ FinishWrite \/ UNCHANGED vars
  <2>1. UNCHANGED <<up, mmap, base, crashes, handed, dropped, pc>>
    BY <1>9, Zenon DEF Start, Resolved, Connected, PeerResets, FinishWrite, vars, storeVars
  <2>2. Pending' <=> Pending
    BY <2>1 DEF Pending
  <2> QED
    BY <1>0, <2>1, <2>2, AccountsKept
<1>10. CASE Crash
  BY <1>10, CrashEffect DEF Accounts
<1> QED
  BY <1>1, <1>2, <1>3, <1>4, <1>5, <1>6, <1>7, <1>8, <1>9, <1>10 DEF Next, Send

\* When sends do not overlap, between sends each number a process has used was
\* handed to the socket or counted as dropped, wherever earlier processes died.
THEOREM NumbersAccountedForCorrect ==
    ASSUME ~Overlap PROVE Spec => []NumbersAccountedFor
<1>1. Init => AccountInv
  <2>1. ASSUME Init PROVE ~up
    BY <2>1 DEF Init, Store!Init
  <2> QED
    BY <2>1, SerialSendInit DEF AccountInv, Accounts
<1>2. AccountInv => NumbersAccountedFor
  <2> SUFFICES ASSUME AccountInv, up, Quiet
               PROVE  seqNo - base = Cardinality(OfThisProcess) + dropped
    BY DEF NumbersAccountedFor
  <2>1. ~Pending /\ \A t \in Threads : pc[t] # "increment"
    BY DEF Quiet, Pending
  <2>2. mmap = seqNo
    BY <2>1, FileIsCounter DEF AccountInv
  <2> QED
    BY <2>1, <2>2 DEF AccountInv, Accounts
<1> QED
  BY <1>1, <1>2, AccountStep, PTL DEF Spec

-----------------------------------------------------------------------------
(* FixSendPath implements SessionNumbering, if sends do not overlap. *)

\* The next number: that of the message whose fate is open, of which there is at
\* most one, or the counter's.
LEMMA NextOfHolder ==
    ASSUME OneSender, up, NEW t \in Threads, Holding(t)
    PROVE  NextNumber = stamp[t]
<1>1. \A u \in Threads : Holding(u) => u = t
  BY DEF OneSender, Holding
<1>2. (CHOOSE u \in Threads : Holding(u)) = t
  BY <1>1
<1> QED
  BY <1>2 DEF NextNumber

LEMMA NextOfHolderAfter ==
    ASSUME OneSender', up', NEW t \in Threads, Holding(t)'
    PROVE  NextNumber' = stamp'[t]
<1>1. \A u \in Threads : Holding(u)' => u = t
  BY DEF OneSender, Holding
<1>2. (CHOOSE u \in Threads : Holding(u)') = t
  BY <1>1
<1> QED
  BY <1>2 DEF NextNumber

\* The numbers handed out, when a message is added to handed.
LEMMA WireAppended ==
    ASSUME TypeOK, NEW t \in Threads, Give(t)
    PROVE  WireNumbers' = Append(WireNumbers, stamp[t])
<1>1. /\ Len(handed) \in Nat
      /\ DOMAIN handed = 1 .. Len(handed)
      /\ DOMAIN handed' = 1 .. Len(handed) + 1
  BY GiveEffect, Zenon
<1>2. handed'[Len(handed) + 1].seq = stamp[t]
  <2>1. handed'[Len(handed) + 1] = [seq |-> stamp[t], epoch |-> crashes]
    BY GiveEffect, Zenon
  <2> QED
    BY <2>1
<1>3. \A i \in DOMAIN handed : handed'[i].seq = handed[i].seq
  BY GiveEffect, Zenon
<1>4. WireNumbers \in Seq(Int) /\ Len(WireNumbers) = Len(handed)
  BY <1>1, Numbers DEF WireNumbers
<1>5. /\ WireNumbers' = [i \in 1 .. Len(handed) + 1 |-> handed'[i].seq]
      /\ WireNumbers = [i \in 1 .. Len(handed) |-> handed[i].seq]
  BY <1>1 DEF WireNumbers
<1>6. Append(WireNumbers, stamp[t]) =
        [i \in 1 .. Len(handed) + 1 |-> IF i = Len(handed) + 1 THEN stamp[t] ELSE WireNumbers[i]]
  BY <1>1, <1>4
<1>7. \A i \in 1 .. Len(handed) + 1 :
         handed'[i].seq = IF i = Len(handed) + 1 THEN stamp[t] ELSE WireNumbers[i]
  BY <1>1, <1>2, <1>3, <1>5
<1> QED
  BY <1>5, <1>6, <1>7

\* A message whose number is taken and that is now given up or handed over.
LEMMA NumberUsed ==
    ASSUME SerialSendInv, UNCHANGED <<up, seqNo>>, OneSender',
           NEW t \in Threads, pc[t] \in {"isRunning", "write"},
           pc'[t] = "return", \A u \in Threads : u # t => pc'[u] = pc[u]
    PROVE  NextNumber = stamp[t] /\ NextNumber' = NextNumber + 1
<1>1. TypeOK /\ InStep /\ OneSender /\ Stages
  BY DEF SerialSendInv, WireInv
<1>2. up
  BY <1>1 DEF InStep, Quiet
<1>3. NextNumber = stamp[t]
  BY <1>1, <1>2, NextOfHolder DEF Holding
<1>4. \A u \in Threads : u # t => pc[u] = "idle"
  BY <1>1 DEF OneSender
<1>5. NextNumber' = seqNo
  BY <1>2, <1>4 DEF NextNumber, Holding
<1>6. mmap = seqNo
  BY <1>2, <1>4, FileIsCounter
<1> QED
  BY <1>1, <1>3, <1>5, <1>6 DEF Stages

\* The initial states are initial states of a session.
LEMMA NumberingInit == Init => Numbering!Init
<1> SUFFICES ASSUME Init PROVE Numbering!Init
  OBVIOUS
<1>1. NextNumber = Store!Opened(mmap)
  BY DEF Init, Store!Init, NextNumber
<1>2. mmap \in Int /\ BeginSeqNo \in Int
  BY TypeInit, Numbers, SendAssumption DEF Store!StoreConstants
<1>3. NextNumber \in Int
  BY <1>1, <1>2 DEF Store!Opened, Store!Restored
<1>4. handed = <<>>
  BY Zenon DEF Init
<1>5. WireNumbers = <<>>
  BY <1>4 DEF WireNumbers
<1> QED
  BY <1>3, <1>5 DEF Numbering!Init

\* Every step is one of the session or none.
LEMMA NumberingStep ==
    ASSUME ~Overlap, SerialSendInv, SerialSendInv', [Next]_vars
    PROVE  [Numbering!Next]_(Numbering!vars)
<1> SUFFICES \/ UNCHANGED <<NextNumber, WireNumbers>>
             \/ NextNumber' = NextNumber + 1 /\ UNCHANGED WireNumbers
             \/ NextNumber' = NextNumber + 1 /\ WireNumbers' = Append(WireNumbers, NextNumber)
             \/ ResetSeqNo /\ NextNumber' = BeginSeqNo /\ UNCHANGED WireNumbers
  BY DEF Numbering!Next, Numbering!Transmit, Numbering!Forfeit, Numbering!Reset, Numbering!vars
<1>0. /\ TypeOK /\ InStep /\ OneSender /\ OneSender' /\ InStep' /\ Stages /\ NotNegative
      /\ mmap \in Int /\ seqNo \in Int
  BY Numbers DEF SerialSendInv, WireInv
<1>1. CASE Construct
  <2>1. /\ ~up /\ up' /\ seqNo' = Store!Opened(mmap) /\ UNCHANGED <<pc, handed>>
    BY <1>1, Zenon DEF Construct, Store!Open
  <2>2. NextNumber = Store!Opened(mmap)
    BY <2>1 DEF NextNumber
  <2>3. \A u \in Threads : pc'[u] = "idle"
    BY <1>0, <2>1 DEF InStep, Quiet
  <2>4. NextNumber' = seqNo'
    BY <2>1, <2>3 DEF NextNumber, Holding
  <2> QED
    BY <2>1, <2>2, <2>4 DEF WireNumbers
<1>2. ASSUME NEW t \in Threads, Quiet, up, Goto(t, "stamp"), UNCHANGED <<up, seqNo, handed>>
      PROVE  UNCHANGED <<NextNumber, WireNumbers>>
  <2>1. \A u \in Threads : pc[u] = "idle" /\ pc'[u] \in {"idle", "stamp"}
    BY <1>0, <1>2, GotoEffect DEF Quiet
  <2> QED
    BY <1>2, <2>1 DEF NextNumber, Holding, WireNumbers
<1>3. CASE TimerExpires
  <2>1. Timer \in Threads /\ Quiet /\ up /\ Goto(Timer, "stamp") /\ UNCHANGED <<up, seqNo, handed>>
    BY <1>3, SendAssumption, Zenon DEF TimerExpires, MayBegin, storeVars, Quiet
  <2> QED
    BY <1>2, <2>1
<1>4. ASSUME NEW t \in Threads, BeginSend(t) PROVE UNCHANGED <<NextNumber, WireNumbers>>
  <2>1. Quiet /\ up /\ Goto(t, "stamp") /\ UNCHANGED <<up, seqNo, handed>>
    BY <1>4, Zenon DEF BeginSend, MayBegin, storeVars
  <2> QED
    BY <1>2, <2>1
<1>5. ASSUME NEW t \in Threads, Stamp(t) PROVE UNCHANGED <<NextNumber, WireNumbers>>
  <2>1. /\ pc[t] = "stamp" /\ Goto(t, "increment") /\ Store!Call(t) /\ UNCHANGED handed
        /\ stamp' = [stamp EXCEPT ![t] = seqNo]
    BY <1>5, Zenon DEF Stamp
  <2>2. up /\ up' /\ pc'[t] = "increment" /\ stamp'[t] = seqNo
    BY <1>0, <2>1, GotoEffect, CallEffect DEF TypeOK
  <2>3. NextNumber = seqNo
    BY <1>0, <2>1, <2>2 DEF NextNumber, Holding, OneSender
  <2>4. NextNumber' = seqNo
    BY <1>0, <2>2, NextOfHolderAfter DEF Holding
  <2> QED
    BY <2>1, <2>3, <2>4 DEF WireNumbers
<1>6. ASSUME NEW t \in Threads, IncrementStep(t) PROVE UNCHANGED <<NextNumber, WireNumbers>>
  <2>1. /\ pc[t] = "increment" /\ Store!Increment(t) /\ UNCHANGED <<stamp, handed>>
        /\ Goto(t, IF incPc[t] = "storeMap" THEN "isRunning" ELSE "increment")
    BY <1>6, Zenon DEF IncrementStep
  <2>2. up /\ up' /\ pc'[t] \in {"increment", "isRunning"}
    BY <1>0, <2>1, GotoEffect, IncrementEffect DEF InStep, Quiet
  <2>3. NextNumber = stamp[t]
    BY <1>0, <2>1, <2>2, NextOfHolder DEF Holding
  <2>4. NextNumber' = stamp'[t]
    BY <1>0, <2>2, NextOfHolderAfter DEF Holding
  <2> QED
    BY <2>1, <2>3, <2>4 DEF WireNumbers
<1>7. ASSUME NEW t \in Threads, IsRunning(t)
      PROVE  UNCHANGED WireNumbers /\ (UNCHANGED NextNumber \/ NextNumber' = NextNumber + 1)
  <2>1. /\ pc[t] = "isRunning" /\ (Goto(t, "write") \/ Goto(t, "return"))
        /\ UNCHANGED <<up, seqNo, handed, stamp>>
    BY <1>7, Zenon DEF IsRunning, storeVars
  <2>2. up
    BY <1>0, <2>1 DEF InStep, Quiet
  <2>3. CASE Goto(t, "write")
    <3>1. NextNumber = stamp[t]
      BY <1>0, <2>1, <2>2, NextOfHolder DEF Holding
    <3>2. NextNumber' = stamp[t]
      BY <1>0, <2>1, <2>2, <2>3, GotoEffect, NextOfHolderAfter DEF Holding
    <3> QED
      BY <2>1, <3>1, <3>2 DEF WireNumbers
  <2>4. CASE Goto(t, "return")
    BY <1>0, <2>1, <2>4, GotoEffect, NumberUsed DEF WireNumbers
  <2> QED
    BY <2>1, <2>3, <2>4
<1>8. ASSUME NEW t \in Threads, Write(t)
      PROVE  /\ NextNumber' = NextNumber + 1
             /\ UNCHANGED WireNumbers \/ WireNumbers' = Append(WireNumbers, NextNumber)
  <2>1. /\ pc[t] = "write" /\ Goto(t, "return") /\ (UNCHANGED handed \/ Give(t))
        /\ UNCHANGED <<up, seqNo, stamp>>
    BY <1>8, Zenon DEF Write, storeVars
  <2>2. NextNumber = stamp[t] /\ NextNumber' = NextNumber + 1
    BY <1>0, <2>1, GotoEffect, NumberUsed
  <2> QED
    BY <1>0, <2>1, <2>2, WireAppended DEF WireNumbers
<1>9. ASSUME NEW t \in Threads, Return(t) PROVE UNCHANGED <<NextNumber, WireNumbers>>
  <2>1. /\ pc[t] = "return" /\ Goto(t, "idle") /\ UNCHANGED <<up, seqNo, handed>>
    BY <1>9, Zenon DEF Return, storeVars
  <2>2. up /\ \A u \in Threads : pc[u] \in {"idle", "return"} /\ pc'[u] = "idle"
    BY <1>0, <2>1, GotoEffect DEF InStep, Quiet, OneSender
  <2> QED
    BY <2>1, <2>2 DEF NextNumber, Holding, WireNumbers
<1>10. CASE Start \/ Resolved \/ Connected \/ PeerResets \/ FinishWrite \/ UNCHANGED vars
  <2>1. UNCHANGED <<up, mmap, seqNo, handed, pc, stamp>>
    BY <1>10, Zenon DEF Start, Resolved, Connected, PeerResets, FinishWrite, vars, storeVars
  <2> QED
    BY <2>1 DEF NextNumber, Holding, WireNumbers
<1>11. CASE Crash
  <2>1. up /\ ~up' /\ UNCHANGED <<mmap, handed>>
    BY <1>11, CrashEffect
  <2>2. NextNumber' = Store!Opened(mmap) /\ UNCHANGED WireNumbers
    BY <2>1 DEF NextNumber, WireNumbers
  <2>3. ~ResetSeqNo => NextNumber' = mmap
    BY <1>0, <2>1, <2>2 DEF Store!Opened, Store!Restored, NotNegative
  <2>4. ASSUME NEW t \in Threads, Holding(t)
        PROVE  mmap = NextNumber \/ mmap = NextNumber + 1
    BY <1>0, <2>1, <2>4, NextOfHolder DEF Holding, Stages
  <2>5. ASSUME \A t \in Threads : ~Holding(t) PROVE mmap = NextNumber
    BY <2>1, <2>5, FileIsCounter DEF NextNumber, Holding
  <2> QED
    BY <2>2, <2>3, <2>4, <2>5 DEF Store!Opened
<1> QED
  BY <1>1, <1>3, <1>4, <1>5, <1>6, <1>7, <1>8, <1>9, <1>10, <1>11 DEF Next, Send

\* Sends that do not overlap number the messages of a session as SessionNumbering
\* says: one number after the other, each handed over in order or forfeited, and
\* a death of the process forfeits one number at most.
THEOREM NumberingCorrect ==
    ASSUME ~Overlap PROVE Spec => ImplementsNumbering
<1>1. ASSUME SerialSendInv, SerialSendInv', [Next]_vars
      PROVE  [Numbering!Next]_(Numbering!vars)
  BY <1>1, NumberingStep
<1> QED
  BY <1>1, NumberingInit, SerialSendInit, SerialSendStep, PTL
     DEF Spec, ImplementsNumbering, Numbering!Spec
=============================================================================
