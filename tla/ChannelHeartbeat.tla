-------------------------- MODULE ChannelHeartbeat --------------------------
(***************************************************************************)
(* A Channel from its construction to its destruction, and the heartbeats  *)
(* in between. Three threads: the one that owns the Channel (Owner), the   *)
(* adaptor's io_service thread, which runs sendHB and is there from within *)
(* the constructor, and the transport's, which is there from start() on.   *)
(*                                                                         *)
(* What a send does to numbers and socket is the business of FixSendPath,  *)
(* the transport's handlers that of ChannelLifecycle and FixDeserialise.   *)
(* Here it matters which parts of the Channel they use, and when.          *)
(***************************************************************************)
EXTENDS Naturals, Sequences

CONSTANT Intervals   \* what heartBtInt may say: a number or not, positive or not

ASSUME LifetimeAssumption == Intervals \subseteq {"positive", "none", "invalid"}

VARIABLES
    interval,    \* the setting heartBtInt
    owner,       \* what the owner does next to the Channel
    torn,        \* how many steps of its destruction are done
    sendCb,      \* _sendMsgCallback
    stopped,     \* has the adaptor's _ioService been stopped?
    waits,       \* async_waits of _hbTimer under way
    due,         \* those that have expired and whose handler has not begun
    hb,          \* what the adaptor's thread does next
    io,          \* what the transport's thread does next
    beat,        \* history: alternates with each heartbeat handed over
    late,        \* history: heartbeats handed over after the stop
    undefined,   \* history: has the program done what C++ leaves undefined?
    ended        \* "no", or why the process has ended

ownerVars == <<owner, torn, sendCb, stopped>>
timerVars == <<waits, due>>
vars == <<interval, ownerVars, timerVars, hb, io, beat, late, undefined, ended>>

TypeOK ==
    /\ interval \in Intervals
    /\ owner \in {"construct", "interval", "setSend", "assigning", "setOthers", "ready", "destroy"}
    /\ torn \in 0 .. 7
    /\ sendCb \in {"unset", "assigning", "set"}
    /\ stopped \in BOOLEAN
    /\ waits \in 0 .. 1
    /\ due \in 0 .. 1
    /\ hb \in {"none", "run", "test", "visit", "convert", "send", "rearm", "left"}
    /\ io \in {"none", "run", "handler"}
    /\ beat \in BOOLEAN
    /\ late \in Nat
    /\ undefined \in BOOLEAN
    /\ ended \in {"no", "exception", "emptyCallback", "undefined"}

Init ==
    /\ interval \in Intervals
    /\ owner = "construct"
    /\ torn = 0
    /\ sendCb = "unset"
    /\ stopped = FALSE
    /\ waits = 0
    /\ due = 0
    /\ hb = "none"
    /\ io = "none"
    /\ beat = FALSE
    /\ late = 0
    /\ undefined = FALSE
    /\ ended = "no"

-----------------------------------------------------------------------------
\* Members are destroyed in the reverse order of their declaration: those of the
\* Channel, where the adaptor's turn comes third, and within it the body of its
\* destructor ("stop"), which does not wait for the thread, and its own members.
\* An exception out of its constructor leaves the body out, and the Channel has
\* no visitor and no helper then.
TearDown ==
    IF interval = "invalid"
    THEN <<"hbTimer", "ioService", "protocolAdaptor", "transport">>
    ELSE <<"cbHelper", "messageVisitor", "stop", "hbTimer", "ioService", "protocolAdaptor", "transport">>

Gone(part) == \E i \in 1 .. torn : TearDown[i] = part
Running == ended = "no"

\* To use a part is defined while it is there. After that it may do what it did,
\* or end the process.
Use(part) ==
    \/ ~Gone(part) /\ UNCHANGED <<undefined, ended>>
    \/ Gone(part) /\ undefined' = TRUE /\ ended' \in {"no", "undefined"}

-----------------------------------------------------------------------------
(* The owner. *)

\* The constructor of the adaptor, up to the start of its thread.
Construct ==
    /\ Running /\ owner = "construct"
    /\ owner' = "interval"
    /\ hb' = "run"
    /\ UNCHANGED <<interval, torn, sendCb, stopped, timerVars, io, beat, late, undefined, ended>>

\* lexical_cast of the interval, then the timer is started, for a positive one.
\* The exception for an invalid one is not the runtime_error main catches: the
\* process ends, or whoever catches it has what was constructed destroyed.
ReadInterval ==
    /\ Running /\ owner = "interval"
    /\ \/ /\ interval = "positive"
          /\ owner' = "setSend"
          /\ waits' = waits + 1
          /\ UNCHANGED ended
       \/ /\ interval = "none"
          /\ owner' = "setSend"
          /\ UNCHANGED <<waits, ended>>
       \/ /\ interval = "invalid"
          /\ owner' = "destroy"
          /\ ended' \in {"no", "exception"}
          /\ UNCHANGED waits
    /\ UNCHANGED <<interval, torn, sendCb, stopped, due, hb, io, beat, late, undefined>>

\* The constructor of the Channel sets the adaptor's send callback, an assignment
\* that is no single step, then the other callbacks.
SetSend ==
    /\ Running
    /\ \/ owner = "setSend" /\ owner' = "assigning" /\ sendCb' = "assigning"
       \/ owner = "assigning" /\ owner' = "setOthers" /\ sendCb' = "set"
    /\ UNCHANGED <<interval, torn, stopped, timerVars, hb, io, beat, late, undefined, ended>>

SetOthers ==
    /\ Running /\ owner = "setOthers"
    /\ owner' = "ready"
    /\ UNCHANGED <<interval, torn, sendCb, stopped, timerVars, hb, io, beat, late, undefined, ended>>

\* start(), for the first time.
MutantStart ==
    /\ Running /\ owner = "ready" /\ io = "none"
    /\ io' = "run"
    /\ waits' = IF interval = "positive" THEN waits + 1 ELSE waits
    /\ UNCHANGED <<interval, ownerVars, due, hb, beat, late, undefined, ended>>
Start ==
    /\ Running /\ owner = "ready" /\ io = "none"
    /\ io' = "run"
    /\ UNCHANGED <<interval, ownerVars, timerVars, hb, beat, late, undefined, ended>>

\* The owner destroys the Channel: in main, by an exception that leaves the try block.
Destroy ==
    /\ Running /\ owner = "ready"
    /\ owner' = "destroy"
    /\ UNCHANGED <<interval, torn, sendCb, stopped, timerVars, hb, io, beat, late, undefined, ended>>

\* One step of it. ~deadline_timer cancels its waits.
MutantDestroyNext ==
    /\ Running /\ owner = "destroy" /\ torn < Len(TearDown)
    /\ torn' = torn + 1
    /\ waits' = IF TearDown[torn + 1] = "hbTimer" THEN 0 ELSE waits
    /\ UNCHANGED <<interval, owner, sendCb, stopped, due, hb, io, beat, late, undefined, ended>>
DestroyNext ==
    /\ Running /\ owner = "destroy" /\ torn < Len(TearDown)
    /\ torn' = torn + 1
    /\ stopped' = (stopped \/ TearDown[torn + 1] = "stop")
    /\ waits' = IF TearDown[torn + 1] = "hbTimer" THEN 0 ELSE waits
    /\ UNCHANGED <<interval, owner, sendCb, due, hb, io, beat, late, undefined, ended>>

-----------------------------------------------------------------------------
(* The adaptor's thread. *)

\* The interval is over; the handler waits for the thread.
TimerExpires ==
    /\ Running /\ waits > 0
    /\ waits' = waits - 1
    /\ due' = due + 1
    /\ UNCHANGED <<interval, ownerVars, hb, io, beat, late, undefined, ended>>

\* run() takes the handler up, unless it has been stopped.
TakeUp ==
    /\ Running /\ hb = "run" /\ due > 0 /\ ~stopped
    /\ due' = due - 1
    /\ hb' = "test"
    /\ Use("ioService")
    /\ UNCHANGED <<interval, ownerVars, waits, io, beat, late>>

\* sendHB: without a callback only the timer is started again. While it is being
\* assigned the callback may look set or not, or may be called half assigned.
MutantTestCallback ==
    /\ Running /\ hb = "test"
    /\ \/ sendCb = "unset" /\ hb' = "run" /\ Use("protocolAdaptor")
       \/ sendCb = "set" /\ hb' = "visit" /\ Use("protocolAdaptor")
       \/ /\ sendCb = "assigning"
          /\ hb' \in {"rearm", "visit"}
          /\ undefined' = TRUE
          /\ ended' \in {"no", "undefined"}
    /\ UNCHANGED <<interval, ownerVars, timerVars, io, beat, late>>
TestCallback ==
    /\ Running /\ hb = "test"
    /\ \/ sendCb = "unset" /\ hb' = "rearm" /\ Use("protocolAdaptor")
       \/ sendCb = "set" /\ hb' = "visit" /\ Use("protocolAdaptor")
       \/ /\ sendCb = "assigning"
          /\ hb' \in {"rearm", "visit"}
          /\ undefined' = TRUE
          /\ ended' \in {"no", "undefined"}
    /\ UNCHANGED <<interval, ownerVars, timerVars, io, beat, late>>

\* Channel::send takes the visitor, which calls convertToBuffer.
Visit ==
    /\ Running /\ hb = "visit"
    /\ hb' = "convert"
    /\ Use("messageVisitor")
    /\ UNCHANGED <<interval, ownerVars, timerVars, io, beat, late>>

\* On a whole second substr(16, 3) throws, and out of the thread.
ConvertToBuffer ==
    /\ Running /\ hb = "convert"
    /\ hb' = "send"
    /\ \/ Use("protocolAdaptor")
       \/ ended' = "exception" /\ UNCHANGED undefined
    /\ UNCHANGED <<interval, ownerVars, timerVars, io, beat, late>>

\* _transport->send
Send ==
    /\ Running /\ hb = "send"
    /\ hb' = "rearm"
    /\ beat' = ~beat
    /\ late' = IF Gone("stop") THEN late + 1 ELSE late
    /\ Use("transport")
    /\ UNCHANGED <<interval, ownerVars, timerVars, io>>

\* The end of sendHB: the timer is started again, whether or not anything was sent.
Rearm ==
    /\ Running /\ hb = "rearm"
    /\ hb' = "run"
    /\ waits' = IF Gone("hbTimer") THEN waits ELSE waits + 1
    /\ Use("hbTimer")
    /\ UNCHANGED <<interval, ownerVars, due, io, beat, late>>

\* run() returns once it has been stopped.
Leave ==
    /\ Running /\ hb = "run" /\ stopped
    /\ hb' = "left"
    /\ Use("ioService")
    /\ UNCHANGED <<interval, ownerVars, timerVars, io, beat, late>>

\* Nobody has stopped it, and it waits in an io_service that is gone.
WaitOnNothing ==
    /\ Running /\ hb = "run" /\ ~stopped /\ Gone("ioService") /\ ~undefined
    /\ Use("ioService")
    /\ UNCHANGED <<interval, ownerVars, timerVars, hb, io, beat, late>>

-----------------------------------------------------------------------------
(* The transport's thread. Nothing ever stops it. *)

\* A handler begins in run().
Handle ==
    /\ Running /\ io = "run"
    /\ io' = "handler"
    /\ Use("transport")
    /\ UNCHANGED <<interval, ownerVars, timerVars, hb, beat, late>>

\* It calls the Channel, which uses its helper, for data the adaptor: an empty
\* callback and what deserialise or boost::get throw end the process.
CallbacksSet == owner \in {"ready", "destroy"}
MutantCallChannel ==
    /\ Running /\ io = "handler"
    /\ io' = "run"
    /\ waits' = IF interval = "positive" /\ ~Gone("hbTimer") THEN waits + 1 ELSE waits
    /\ Use("cbHelper")
    /\ UNCHANGED <<interval, ownerVars, due, hb, beat, late>>
CallChannel ==
    /\ Running /\ io = "handler"
    /\ io' = "run"
    /\ \/ CallbacksSet /\ \E part \in {"cbHelper", "protocolAdaptor"} : Use(part)
       \/ CallbacksSet /\ ended' = "exception" /\ UNCHANGED undefined
       \/ ~CallbacksSet /\ ended' = "emptyCallback" /\ UNCHANGED undefined
    /\ UNCHANGED <<interval, ownerVars, timerVars, hb, beat, late>>

-----------------------------------------------------------------------------
\* What the code of the owner does by itself; to start and to destroy is its choice.
OwnerStep == Construct \/ ReadInterval \/ SetSend \/ SetOthers \/ DestroyNext

\* sendHB and the ends of run().
AdaptorStep ==
    TakeUp \/ TestCallback \/ Visit \/ ConvertToBuffer \/ Send \/ Rearm \/ Leave

Next ==
    \/ OwnerStep \/ Start \/ Destroy
    \/ TimerExpires \/ AdaptorStep \/ WaitOnNothing
    \/ Handle \/ CallChannel

\* Time passes, and a thread that can go on does.
Fairness == WF_vars(OwnerStep) /\ WF_vars(TimerExpires) /\ WF_vars(AdaptorStep)

Spec == Init /\ [][Next]_vars /\ Fairness

-----------------------------------------------------------------------------
\* One heartbeat is on its way at most: the wait, the handler that waits for the
\* thread, or sendHB up to the point where it starts the timer again. So there
\* are never two in an interval, and no wait is lost by expires_from_now.
InSendHB == hb \in {"test", "visit", "convert", "send", "rearm"}
OneHeartbeat == waits + due + (IF InSendHB THEN 1 ELSE 0) <= 1

\* After the stop, of which nothing waits for the thread (FIXProtocolAdaptor.hpp:86-90),
\* the heartbeat that is being sent may go out, but no other one.
OneAfterStop == late <= 1

\* With a positive interval there is always another heartbeat, as long as the
\* process lives and the Channel is not destroyed: also after one that had nobody
\* to send it, because it came before the callback was set.
HeartbeatsGoOn ==
    \A b \in BOOLEAN :
        owner = "ready" /\ interval = "positive" /\ beat = b
            ~> beat # b \/ ~Running \/ owner = "destroy"

\* The adaptor's thread comes to its end after its destructor, though nobody waits
\* for it, if what it uses on the way is still there.
ThreadLeaves ==
    owner = "destroy" /\ interval # "invalid"
        ~> hb = "left" \/ ~Running \/ undefined
=============================================================================
