-------------------------- MODULE ChannelLifecycle --------------------------
(***************************************************************************)
(* The life of a Channel's connection: TcpClientTransport with its         *)
(* io_service thread, the Channel methods its handlers call, and the       *)
(* callbacks of the application they look up in the CallbackHelper.        *)
(*                                                                         *)
(* Two sides act on the transport: the application with start() and        *)
(* stop(), and the threads in runIoService() with the handlers of          *)
(* operations that have completed. The socket and the resolver are Boost's *)
(* and the system's, modelled by what the handlers see of them.            *)
(***************************************************************************)
EXTENDS Integers

CONSTANTS
    Unset,         \* no callback is registered
    HbRequired,    \* the transport's isHBReq, its own timer: never so for a Channel
    MaxStarts      \* bound: effective calls of start()

ASSUME LifecycleAssumption == HbRequired \in BOOLEAN /\ MaxStarts \in Nat

VARIABLES
    callbacks,     \* the registered callbacks
    running,       \* does the process still run?
    ioThread,      \* is _ioServiceThread set?
    hbTimer,       \* is _hbTimer set?
    alive,         \* _isAlive
    sock,          \* the socket; ended: the peer has closed; failed: by an error
    resolving,     \* resolves under way
    connects,      \* async_connects, how many by state of completion
    reads,         \* async_read_somes, how many by state of completion
    toRead,        \* threads that have called back and will now call read()
    starts,        \* history: effective calls of start(), each with a thread
    told,          \* history: how often callbacks of the application were called
    errors         \* history: calls of Channel::onError

ioVars == <<sock, resolving, connects, reads, toRead>>
appVars == <<told, errors>>
vars == <<callbacks, running, ioThread, hbTimer, alive, ioVars, starts, appVars>>

Helper == INSTANCE CallbackHelper

ConnectStates == {"pending", "ok", "error"}
ReadStates == {"pending", "data", "eof", "error"}

\* The calls that are counted; messages come without bound.
Counted == {"OnConnect", "OnDisconnect"}

TypeOK ==
    /\ Helper!TypeOK
    /\ running \in BOOLEAN
    /\ ioThread \in BOOLEAN
    /\ hbTimer \in BOOLEAN
    /\ alive \in BOOLEAN
    /\ sock \in {"closed", "connecting", "connected", "ended", "failed"}
    /\ resolving \in Nat
    /\ connects \in [ConnectStates -> Nat]
    /\ reads \in [ReadStates -> Nat]
    /\ toRead \in Nat
    /\ starts \in 0 .. MaxStarts
    /\ told \in [Counted -> Nat]
    /\ errors \in 0 .. MaxStarts

Init ==
    /\ Helper!Init
    /\ running = TRUE
    /\ ioThread = FALSE
    /\ hbTimer = FALSE
    /\ alive = FALSE
    /\ sock = "closed"
    /\ resolving = 0
    /\ connects = [s \in ConnectStates |-> 0]
    /\ reads = [s \in ReadStates |-> 0]
    /\ toRead = 0
    /\ starts = 0
    /\ told = [type \in Counted |-> 0]
    /\ errors = 0

\* One more, one less, all of one state moved to another.
Add(ops, s) == [ops EXCEPT ![s] = @ + 1]
Take(ops, s) == [ops EXCEPT ![s] = @ - 1]
Move(ops, s, t) == [ops EXCEPT ![s] = @ - 1, ![t] = @ + 1]
MoveAll(ops, s, t) == [ops EXCEPT ![s] = 0, ![t] = @ + ops[s]]

-----------------------------------------------------------------------------
(* The application. *)

\* Callbacks are registered before the channel is started, as main does.
Register(type, signature, overwrite) ==
    /\ running /\ starts = 0
    /\ Helper!Set(type, signature, overwrite)
    /\ UNCHANGED <<running, ioThread, hbTimer, alive, ioVars, starts, appVars>>

Unregister(type) ==
    /\ running /\ starts = 0
    /\ Helper!Clear(type)
    /\ UNCHANGED <<running, ioThread, hbTimer, alive, ioVars, starts, appVars>>

UnregisterAll ==
    /\ running /\ starts = 0
    /\ Helper!ClearAll
    /\ UNCHANGED <<running, ioThread, hbTimer, alive, ioVars, starts, appVars>>

\* start(): only the first call, or the first after stop(), has an effect.
Start ==
    /\ running
    /\ ~ioThread
    /\ starts < MaxStarts
    /\ starts' = starts + 1
    /\ ioThread' = TRUE
    /\ resolving' = resolving + 1
    /\ hbTimer' = (hbTimer \/ HbRequired)
    /\ alive' = TRUE
    /\ UNCHANGED <<callbacks, running, sock, connects, reads, toRead, appVars>>

\* stop(): the pointer to the thread is given up, the thread runs on: nothing in
\* run() is a point of interruption. close() cancels what waits for the socket,
\* but not a resolve. cancel() on a null _hbTimer ends the process.
Stop ==
    /\ running
    /\ ioThread
    /\ ioThread' = FALSE
    /\ sock' = "closed"
    /\ connects' = MoveAll(connects, "pending", "error")
    /\ reads' = MoveAll(reads, "pending", "error")
    /\ IF hbTimer THEN alive' = FALSE /\ UNCHANGED running
                  ELSE running' = FALSE /\ UNCHANGED alive
    /\ UNCHANGED <<callbacks, hbTimer, resolving, toRead, starts, appVars>>

-----------------------------------------------------------------------------
(* Handlers, run by any of the threads that are in runIoService(). *)

ThreadFree == running /\ toRead < starts

\* The Channel looks up the callback for type, of the signature it expects. An
\* exception that is not a runtime_error ends the process.
Tell(type) == told' = [t \in Counted |-> IF t = type THEN told[t] + 1 ELSE told[t]]
CallBack(type, signature) ==
    \/ /\ Helper!Swallowed(type)
       /\ UNCHANGED <<running, told>>
    \/ /\ Helper!Called(type, signature)
       /\ Tell(type)
       /\ UNCHANGED running
    \/ /\ Helper!BadGet(type, signature)
       /\ running' = FALSE
       /\ UNCHANGED told

OnConnect == CallBack("OnConnect", "id") /\ UNCHANGED errors

\* Channel::onError asks for the callback of OnDisconnect.
OnError == CallBack("OnDisconnect", "idAndError") /\ errors' = errors + 1

\* onDataRec(): deserialise makes a message of the data or nothing. What it or
\* setString throws leaves runIoService() and ends the process.
OnDataRec ==
    /\ \/ CallBack("OnMessage", "message")
       \/ UNCHANGED <<running, told>>
       \/ running' = FALSE /\ UNCHANGED told
    /\ UNCHANGED errors

\* resolve(): async_connect fails at once on a socket that is in use. That a name
\* is not found is only logged.
Resolve ==
    /\ ThreadFree
    /\ resolving > 0
    /\ resolving' = resolving - 1
    /\ \/ UNCHANGED <<sock, connects>>
       \/ /\ sock \in {"closed", "failed"}
          /\ sock' = "connecting"
          /\ connects' = Add(connects, "pending")
       \/ /\ sock \in {"connecting", "connected", "ended"}
          /\ connects' = Add(connects, "error")
          /\ UNCHANGED sock
    /\ UNCHANGED <<callbacks, running, ioThread, hbTimer, alive, reads, toRead, starts, appVars>>

\* connect(): the application is told, then the thread reads.
MutantConnectUntold ==
    /\ ThreadFree
    /\ connects["ok"] > 0
    /\ connects' = Take(connects, "ok")
    /\ toRead' = toRead + 1
    /\ UNCHANGED <<callbacks, running, ioThread, hbTimer, alive, sock, resolving, reads, starts, appVars>>
Connect ==
    /\ ThreadFree
    /\ connects["ok"] > 0
    /\ connects' = Take(connects, "ok")
    /\ OnConnect
    /\ toRead' = toRead + 1
    /\ UNCHANGED <<callbacks, ioThread, hbTimer, alive, sock, resolving, reads, starts>>

ConnectFails ==
    /\ ThreadFree
    /\ connects["error"] > 0
    /\ connects' = Take(connects, "error")
    /\ OnError
    /\ UNCHANGED <<callbacks, ioThread, hbTimer, alive, sock, resolving, reads, toRead, starts>>

\* read(): async_read_some.
Read ==
    /\ running
    /\ toRead > 0
    /\ toRead' = toRead - 1
    /\ reads' = Add(reads, CASE sock \in {"connecting", "connected"} -> "pending"
                             [] sock = "ended" -> "eof"
                             [] sock \in {"closed", "failed"} -> "error")
    /\ UNCHANGED <<callbacks, running, ioThread, hbTimer, alive, sock, resolving, connects, starts, appVars>>

\* asyncRead(): the data go to the Channel, then the thread reads on.
AsyncReadData ==
    /\ ThreadFree
    /\ reads["data"] > 0
    /\ reads' = Take(reads, "data")
    /\ OnDataRec
    /\ toRead' = toRead + 1
    /\ UNCHANGED <<callbacks, ioThread, hbTimer, alive, sock, resolving, connects, starts>>

\* After "End of file" the thread reads on.
MutantAsyncReadEof ==
    /\ ThreadFree
    /\ reads["eof"] > 0
    /\ reads' = Add(Take(reads, "eof"), "eof")
    /\ toRead' = toRead + 1
    /\ UNCHANGED <<callbacks, running, ioThread, hbTimer, alive, sock, resolving, connects, starts, appVars>>
AsyncReadEof ==
    /\ ThreadFree
    /\ reads["eof"] > 0
    /\ reads' = Take(reads, "eof")
    /\ toRead' = toRead + 1
    /\ UNCHANGED <<callbacks, running, ioThread, hbTimer, alive, sock, resolving, connects, starts, appVars>>

\* Any other error is told, and the thread does not read again.
MutantAsyncReadIgnores ==
    /\ ThreadFree
    /\ reads["error"] > 0
    /\ reads' = Take(reads, "error")
    /\ toRead' = toRead + 1
    /\ UNCHANGED <<callbacks, running, ioThread, hbTimer, alive, sock, resolving, connects, starts, appVars>>
MutantAsyncReadRetries ==
    /\ ThreadFree
    /\ reads["error"] > 0
    /\ reads' = Take(reads, "error")
    /\ OnError
    /\ toRead' = toRead + 1
    /\ UNCHANGED <<callbacks, ioThread, hbTimer, alive, sock, resolving, connects, starts>>
AsyncReadFails ==
    /\ ThreadFree
    /\ reads["error"] > 0
    /\ reads' = Take(reads, "error")
    /\ OnError
    /\ UNCHANGED <<callbacks, ioThread, hbTimer, alive, sock, resolving, connects, toRead, starts>>

-----------------------------------------------------------------------------
(* The peer and the network. *)

networkSame == <<callbacks, running, ioThread, hbTimer, alive, resolving, toRead, starts, appVars>>

Connected ==
    /\ running /\ connects["pending"] > 0
    /\ sock' = "connected"
    /\ connects' = Move(connects, "pending", "ok")
    /\ UNCHANGED networkSame /\ UNCHANGED reads

Refused ==
    /\ running /\ connects["pending"] > 0
    /\ sock' = "failed"
    /\ connects' = Move(connects, "pending", "error")
    /\ reads' = MoveAll(reads, "pending", "error")
    /\ UNCHANGED networkSame

DataArrives ==
    /\ running /\ sock = "connected" /\ reads["pending"] > 0
    /\ reads' = Move(reads, "pending", "data")
    /\ UNCHANGED networkSame /\ UNCHANGED <<sock, connects>>

PeerCloses ==
    /\ running /\ sock = "connected"
    /\ sock' = "ended"
    /\ reads' = MoveAll(reads, "pending", "eof")
    /\ UNCHANGED networkSame /\ UNCHANGED connects

PeerResets ==
    /\ running /\ sock \in {"connected", "ended"}
    /\ sock' = "failed"
    /\ reads' = MoveAll(reads, "pending", "error")
    /\ UNCHANGED networkSame /\ UNCHANGED connects

Next ==
    \/ \E type \in Helper!CallbackType :
          \/ \E s \in Helper!Signature, o \in BOOLEAN : Register(type, s, o)
          \/ Unregister(type)
    \/ UnregisterAll
    \/ Start
    \/ Stop
    \/ Resolve
    \/ Connect
    \/ ConnectFails
    \/ Read
    \/ AsyncReadData
    \/ AsyncReadEof
    \/ AsyncReadFails
    \/ Connected
    \/ Refused
    \/ DataArrives
    \/ PeerCloses
    \/ PeerResets

\* run() takes up what has completed, in the order of completion: none of the
\* handlers that are ready waits for ever. The peer owes nothing.
Fairness ==
    /\ WF_vars(Resolve) /\ WF_vars(Read)
    /\ SF_vars(Connect) /\ SF_vars(ConnectFails)
    /\ SF_vars(AsyncReadData) /\ SF_vars(AsyncReadEof) /\ SF_vars(AsyncReadFails)

Spec == Init /\ [][Next]_vars /\ Fairness

-----------------------------------------------------------------------------
\* All reads share _buffer: there is at most one for each effective start(), so
\* that a transport started once never has two reads write into it at a time;
\* and none for a start() whose connect or read has failed: asyncRead comes to
\* Channel::onError once and does not read again.
ReadsUnderWay == reads["pending"] + reads["data"] + reads["eof"] + reads["error"]
ReadsBounded == ReadsUnderWay + toRead + errors <= starts

\* connect() calls back before it reads: an application that registers for
\* OnConnect is told once for every chain of reads, so that no message reaches it
\* over a read whose own connection it was not told of. (After a restart an
\* earlier chain can read from the next connection: of that this says nothing.)
ConnectFirst ==
    running /\ callbacks["OnConnect"] # Unset => ReadsUnderWay + toRead <= told["OnConnect"]

\* Each connect and each read that fails comes to Channel::onError, however many
\* there are and whoever runs the handlers, unless the process ends.
ErrorsReachOnError ==
    \A n \in 1 .. MaxStarts :
        connects["error"] + reads["error"] + errors >= n ~> errors >= n \/ ~running

\* Each connection that is made, is told to an application that registers for
\* it, unless the process ends.
ConnectionsAreTold ==
    \A n \in 1 .. MaxStarts :
        connects["ok"] + told["OnConnect"] >= n /\ callbacks["OnConnect"] = "id"
            ~> told["OnConnect"] >= n \/ ~running

-----------------------------------------------------------------------------
\* The callbacks that main registers (Main.cpp:104-107).
AsMainRegisters ==
    callbacks = [OnConnect |-> "id", OnDisconnect |-> "id",
                 OnError |-> "idAndError", OnMessage |-> "message"]

\* cbHelper->set(CBHelper::OnDisconnect, onDisconnectCB) (Main.cpp:106): when the
\* peer closes the connection, the application is told.
DisconnectIsTold ==
    AsMainRegisters /\ sock = "ended" ~> told["OnDisconnect"] > 0 \/ sock # "ended" \/ ~running
=============================================================================
