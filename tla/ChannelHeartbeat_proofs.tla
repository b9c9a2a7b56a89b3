----------------------- MODULE ChannelHeartbeat_proofs -----------------------
(***************************************************************************)
(* Proofs about ChannelHeartbeat: why there is one heartbeat at most, and  *)
(* why one at most is sent after the stop though nobody waits for the      *)
(* thread.                                                                 *)
(***************************************************************************)
EXTENDS ChannelHeartbeat, TLAPS

\* The constructor comes first: the thread is there once it was started, and no
\* timer before the interval was read.
ConstructorFirst ==
    /\ owner = "construct" => hb = "none"
    /\ owner \in {"construct", "interval"} => waits = 0 /\ due = 0 /\ hb \in {"none", "run"}
    /\ hb = "none" => owner = "construct"

\* Destruction takes down what is whole, and its step "stop" stops.
StopsOnce ==
    /\ torn > 0 => owner = "destroy"
    /\ Gone("stop") => stopped
    /\ stopped => owner = "destroy"

\* Only the heartbeat that was being sent goes out after the stop, and it is then past
\* the send.
LastHeartbeat == late > 0 => stopped /\ hb \in {"rearm", "run", "left"}

HbInv ==
    /\ TypeOK /\ OneHeartbeat /\ OneAfterStop
    /\ ConstructorFirst /\ StopsOnce /\ LastHeartbeat

-----------------------------------------------------------------------------
LEMMA TearDownSteps ==
    /\ Len(TearDown) = IF interval = "invalid" THEN 4 ELSE 7
    /\ interval = "invalid" => \A i \in 1 .. 4 : TearDown[i] # "stop"
    /\ interval # "invalid" => \A i \in 1 .. 7 : TearDown[i] = "stop" <=> i = 3
  BY DEF TearDown

\* A use always leaves the process in a state it may be in.
LEMMA UseType ==
    ASSUME HbInv, NEW part, Use(part)
    PROVE  /\ undefined' \in BOOLEAN
           /\ ended' \in {"no", "exception", "emptyCallback", "undefined"}
  BY DEF HbInv, TypeOK, Use

\* What is gone stays the same as long as nothing is torn down.
LEMMA GoneSame ==
    ASSUME UNCHANGED <<interval, torn>>
    PROVE  \A part : Gone(part)' <=> Gone(part)
  BY DEF Gone, TearDown

LEMMA HbInit ==
    ASSUME LifetimeAssumption, Init
    PROVE  HbInv
<1>1. ~Gone("stop")
  BY DEF Init, Gone
<1>2. TypeOK
  <2>1. stopped \in BOOLEAN /\ beat \in BOOLEAN /\ undefined \in BOOLEAN
    BY Zenon DEF Init
  <2>2. /\ interval \in Intervals /\ owner = "construct" /\ torn = 0 /\ sendCb = "unset"
        /\ waits = 0 /\ due = 0 /\ hb = "none" /\ io = "none" /\ late = 0 /\ ended = "no"
    BY Zenon DEF Init
  <2> QED
    BY <2>1, <2>2 DEF TypeOK
<1>3. OneHeartbeat /\ OneAfterStop
  BY DEF Init, OneHeartbeat, OneAfterStop, InSendHB
<1>4. ConstructorFirst /\ StopsOnce /\ LastHeartbeat
  BY <1>1 DEF Init, ConstructorFirst, StopsOnce, LastHeartbeat, InSendHB
<1> QED
  BY <1>2, <1>3, <1>4 DEF HbInv

-----------------------------------------------------------------------------
LEMMA OwnerKeeps ==
    ASSUME LifetimeAssumption, HbInv, Construct \/ ReadInterval \/ SetSend \/ SetOthers \/ Start \/ Destroy
    PROVE  HbInv'
<1> USE DEF LifetimeAssumption, HbInv, TypeOK, OneHeartbeat, OneAfterStop,
     ConstructorFirst, StopsOnce, LastHeartbeat, InSendHB,
     Running, ownerVars, timerVars
<1>0. UNCHANGED <<interval, torn>>
  BY DEF Construct, ReadInterval, SetSend, SetOthers, Start, Destroy
<1>1. Gone("stop")' <=> Gone("stop")
  BY <1>0, GoneSame
<1>2. CASE Construct
  BY <1>1, <1>2 DEF Construct
<1>3. CASE ReadInterval
  BY <1>1, <1>3 DEF ReadInterval
<1>4. CASE SetSend
  BY <1>1, <1>4 DEF SetSend
<1>5. CASE SetOthers
  BY <1>1, <1>5 DEF SetOthers
<1>6. CASE Start
  BY <1>1, <1>6 DEF Start
<1>7. CASE Destroy
  BY <1>1, <1>7 DEF Destroy
<1> QED
  BY <1>2, <1>3, <1>4, <1>5, <1>6, <1>7

LEMMA DestroyKeeps ==
    ASSUME HbInv, DestroyNext
    PROVE  HbInv'
<1> USE DEF HbInv, TypeOK, OneHeartbeat, OneAfterStop,
     ConstructorFirst, StopsOnce, LastHeartbeat, InSendHB,
     Running, timerVars
<1>1. torn' \in 0 .. 7
  BY TearDownSteps DEF DestroyNext
<1>2. TearDown' = TearDown
  BY DEF DestroyNext, TearDown
<1>3. Gone("stop")' => Gone("stop") \/ TearDown[torn + 1] = "stop"
  BY <1>2 DEF Gone, DestroyNext
<1>4. Gone("stop")' => stopped'
  BY <1>3 DEF DestroyNext
<1> QED
  BY <1>1, <1>4 DEF DestroyNext

LEMMA ThreadsKeep ==
    ASSUME HbInv,
           \/ TimerExpires \/ TakeUp \/ TestCallback \/ Visit \/ ConvertToBuffer \/ Send
           \/ Rearm \/ Leave \/ WaitOnNothing \/ Handle \/ CallChannel
    PROVE  HbInv'
<1> USE DEF TypeOK, OneHeartbeat, OneAfterStop,
     ConstructorFirst, StopsOnce, LastHeartbeat, InSendHB,
     Running, ownerVars, timerVars
<1>0. UNCHANGED <<interval, torn>>
  BY DEF TimerExpires, TakeUp, TestCallback, Visit, ConvertToBuffer, Send, Rearm, Leave,
         WaitOnNothing, Handle, CallChannel
<1>1. Gone("stop")' <=> Gone("stop")
  BY <1>0, GoneSame
<1>2. CASE TimerExpires
  <2>1. /\ waits > 0 /\ waits' = waits - 1 /\ due' = due + 1
        /\ UNCHANGED <<interval, owner, torn, sendCb, stopped, hb, io, beat, late, undefined, ended>>
    BY <1>2 DEF TimerExpires
  <2> QED
    BY <1>1, <2>1 DEF HbInv
<1>3. CASE TakeUp
  BY <1>1, <1>3, UseType DEF TakeUp, HbInv
<1>4. CASE TestCallback
  BY <1>1, <1>4, UseType DEF TestCallback, HbInv
<1>5. CASE Visit
  BY <1>1, <1>5, UseType DEF Visit, HbInv
<1>6. CASE ConvertToBuffer
  BY <1>1, <1>6, UseType DEF ConvertToBuffer, HbInv
<1>7. CASE Send
  BY <1>1, <1>7, UseType DEF Send, HbInv
<1>8. CASE Rearm
  BY <1>1, <1>8, UseType DEF Rearm, HbInv
<1>9. CASE Leave
  BY <1>1, <1>9, UseType DEF Leave, HbInv
<1>10. CASE WaitOnNothing
  BY <1>1, <1>10, UseType DEF WaitOnNothing, HbInv
<1>11. CASE Handle
  BY <1>1, <1>11, UseType DEF Handle, HbInv
<1>12. CASE CallChannel
  BY <1>1, <1>12, UseType DEF CallChannel, CallbacksSet, HbInv
<1> QED
  BY <1>2, <1>3, <1>4, <1>5, <1>6, <1>7, <1>8, <1>9, <1>10, <1>11, <1>12

\* The constructor of adaptor and Channel, sendHB on its own thread, the handlers of
\* the transport and the destruction keep the invariant, in every interleaving.
LEMMA HeartbeatInvariant ==
    ASSUME LifetimeAssumption
    PROVE  Spec => []HbInv
<1>1. Init => HbInv
  BY HbInit
<1>2. HbInv /\ [Next]_vars => HbInv'
  <2> SUFFICES ASSUME HbInv, [Next]_vars
               PROVE  HbInv'
    OBVIOUS
  <2>1. CASE OwnerStep \/ Start \/ Destroy
    BY <2>1, OwnerKeeps, DestroyKeeps DEF OwnerStep
  <2>2. CASE TimerExpires \/ AdaptorStep \/ WaitOnNothing \/ Handle \/ CallChannel
    BY <2>2, ThreadsKeep DEF AdaptorStep
  <2>3. CASE UNCHANGED vars
    <3>1. Gone("stop")' <=> Gone("stop")
      BY <2>3, GoneSame DEF vars, ownerVars
    <3> QED
      BY <2>3, <3>1 DEF vars, ownerVars, timerVars, HbInv, TypeOK, OneHeartbeat, OneAfterStop,
         ConstructorFirst, StopsOnce, LastHeartbeat, InSendHB
  <2> QED
    BY <2>1, <2>2, <2>3 DEF Next
<1> QED
  BY <1>1, <1>2, PTL DEF Spec

-----------------------------------------------------------------------------
\* Type correctness of a Channel's life.
THEOREM HeartbeatTypeCorrect ==
    ASSUME LifetimeAssumption
    PROVE  Spec => []TypeOK
<1>1. HbInv => TypeOK
  BY DEF HbInv
<1> QED
  BY <1>1, HeartbeatInvariant, PTL

\* One heartbeat is on its way at most: the timer is started by the constructor, when
\* there is none, and then only at the end of the sendHB that an expiry has begun.
THEOREM OneHeartbeatCorrect ==
    ASSUME LifetimeAssumption
    PROVE  Spec => []OneHeartbeat
<1>1. HbInv => OneHeartbeat
  BY DEF HbInv
<1> QED
  BY <1>1, HeartbeatInvariant, PTL

\* One heartbeat at most is sent after the destructor has stopped the io_service, though
\* it does not wait for the thread: run() takes no other handler up.
THEOREM OneAfterStopCorrect ==
    ASSUME LifetimeAssumption
    PROVE  Spec => []OneAfterStop
<1>1. HbInv => OneAfterStop
  BY DEF HbInv
<1> QED
  BY <1>1, HeartbeatInvariant, PTL
=============================================================================
