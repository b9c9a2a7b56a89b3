---------------------------- MODULE FixSendPath -----------------------------
(***************************************************************************)
(* The way of a message out: Channel::send, convertToBuffer of the         *)
(* FIXProtocolAdaptor, the SeqNoMemoryMap, TcpClientTransport::send.       *)
(*                                                                         *)
(* Three kinds of threads meet here without a common lock: the threads of  *)
(* the application, the adaptor's io_service thread whose timer sends the  *)
(* heartbeats (Timer), and the transport's io_service thread, which        *)
(* connects and finishes the writes the socket did not take at once.       *)
(* Threads is the set of the first two kinds: those that call send().      *)
(***************************************************************************)
EXTENDS Integers, Sequences, FiniteSets

CONSTANTS
    Threads, BeginSeqNo, ResetSeqNo, IntMax, FileContents,
    Overlap, MaxIncrements, MaxCrashes,   \* as in SeqNoMemoryMap
    Timer,          \* the thread of Threads that sends the heartbeats
    HbEnabled       \* is heartBtInt > 0, so that the timer is started?

VARIABLES
    up, mmap, seqNo, incPc, incArg, base, increments, crashes,
    pc,         \* pc[t]: what t does next in Channel::send
    stamp,      \* stamp[t]: the number in the message t is sending
    hbArmed,    \* is the heartbeat timer waiting?
    alive,      \* the transport's _isAlive
    sock,       \* the transport's socket; broken: its peer is gone
    writes,     \* the writes the socket has yet to finish, first come first
    garbled,    \* has a message gone out with other bytes than its own?
    handed,     \* history: the messages given to the socket, in that order
    dropped     \* history: messages of this process that were not

storeVars == <<up, mmap, seqNo, incPc, incArg, base, increments, crashes>>
vars == <<storeVars, pc, stamp, hbArmed, alive, sock, writes, garbled, handed, dropped>>

Store == INSTANCE SeqNoMemoryMap

ASSUME SendAssumption ==
    /\ Store!StoreConstants
    /\ Timer \in Threads
    /\ HbEnabled \in BOOLEAN

Pcs == {"idle", "stamp", "increment", "isRunning", "write", "return"}

\* A message given to the socket, by which process, and an unfinished write: its
\* bytes are in the local buffer of a thread still in send(), or where it was.
Handed == [seq : Store!IntRange, epoch : Nat]
Writes == [from : Threads, buf : {"live", "dangling"}]

TypeOK ==
    /\ Store!TypeOK
    /\ pc \in [Threads -> Pcs]
    /\ stamp \in [Threads -> Store!IntRange]
    /\ hbArmed \in BOOLEAN
    /\ alive \in BOOLEAN
    /\ sock \in {"closed", "connecting", "connected", "broken"}
    /\ writes \in Seq(Writes)
    /\ garbled \in BOOLEAN
    /\ handed \in Seq(Handed)
    /\ dropped \in Nat

Quiet == \A t \in Threads : pc[t] = "idle"
Goto(t, label) == pc' = [pc EXCEPT ![t] = label]

Init ==
    /\ Store!Init
    /\ pc = [t \in Threads |-> "idle"]
    /\ stamp = [t \in Threads |-> 0]
    /\ hbArmed = FALSE
    /\ alive = FALSE
    /\ sock = "closed"
    /\ writes = <<>>
    /\ garbled = FALSE
    /\ handed = <<>>
    /\ dropped = 0

-----------------------------------------------------------------------------
\* The Channel is constructed: the store is opened, the timer is started.
Construct ==
    /\ Store!Open
    /\ hbArmed' = HbEnabled
    /\ dropped' = 0
    /\ UNCHANGED <<pc, stamp, alive, sock, writes, garbled, handed>>

\* Sends do not overlap unless Overlap; a session ends before the int wraps.
MayBegin == up /\ (Overlap \/ Quiet) /\ seqNo < IntMax

\* A thread of the application calls Channel::send.
BeginSend(t) ==
    /\ MayBegin
    /\ t # Timer
    /\ pc[t] = "idle"
    /\ Goto(t, "stamp")
    /\ UNCHANGED <<storeVars, stamp, hbArmed, alive, sock, writes, garbled, handed, dropped>>

\* The heartbeat timer expires: sendHB calls Channel::send.
TimerExpires ==
    /\ MayBegin
    /\ hbArmed
    /\ pc[Timer] = "idle"
    /\ hbArmed' = FALSE
    /\ Goto(Timer, "stamp")
    /\ UNCHANGED <<storeVars, stamp, alive, sock, writes, garbled, handed, dropped>>

\* convertToBuffer puts getCurrentSeqNo() into tag 34 and renders the message,
\* then calls incrementAndGetSeqNo().
MutantStamp(t) ==
    /\ pc[t] = "stamp"
    /\ stamp' = [stamp EXCEPT ![t] = Store!Wrap(seqNo + 1)]
    /\ Store!Call(t)
    /\ Goto(t, "increment")
    /\ UNCHANGED <<hbArmed, alive, sock, writes, garbled, handed, dropped>>
MutantStampHeartBeat(t) ==
    /\ pc[t] = "stamp"
    /\ stamp' = [stamp EXCEPT ![t] = seqNo]
    /\ \/ t # Timer /\ Store!Call(t) /\ Goto(t, "increment")
       \/ t = Timer /\ UNCHANGED storeVars /\ Goto(t, "isRunning")
    /\ UNCHANGED <<hbArmed, alive, sock, writes, garbled, handed, dropped>>
Stamp(t) ==
    /\ pc[t] = "stamp"
    /\ stamp' = [stamp EXCEPT ![t] = seqNo]
    /\ Store!Call(t)
    /\ Goto(t, "increment")
    /\ UNCHANGED <<hbArmed, alive, sock, writes, garbled, handed, dropped>>

\* One access of incrementAndGetSeqNo(); after the last one convertToBuffer
\* returns.
IncrementStep(t) ==
    /\ pc[t] = "increment"
    /\ Store!Increment(t)
    /\ Goto(t, IF incPc[t] = "storeMap" THEN "isRunning" ELSE "increment")
    /\ UNCHANGED <<stamp, hbArmed, alive, sock, writes, garbled, handed, dropped>>

\* TcpClientTransport::send asks isRunning() and drops the message if not;
\* its number is used up all the same.
IsRunning(t) ==
    /\ pc[t] = "isRunning"
    /\ \/ /\ alive
          /\ Goto(t, "write")
          /\ UNCHANGED dropped
       \/ /\ ~alive
          /\ Goto(t, "return")
          /\ dropped' = dropped + 1
    /\ UNCHANGED <<storeVars, stamp, hbArmed, alive, sock, writes, garbled, handed>>

Give(t) == handed' = Append(handed, [seq |-> stamp[t], epoch |-> crashes])

\* async_write: an error where there is no connection, else the message is
\* taken at once, if no other is waiting, or waits behind the connect or the
\* writes that are under way. asyncWrite only reports the outcome.
Write(t) ==
    /\ pc[t] = "write"
    /\ \/ /\ sock \in {"closed", "broken"}
          /\ dropped' = dropped + 1
          /\ UNCHANGED <<writes, handed>>
       \/ /\ sock = "connected"
          /\ writes = <<>>
          /\ Give(t)
          /\ UNCHANGED <<writes, dropped>>
       \/ /\ sock \in {"connecting", "connected"}
          /\ writes' = Append(writes, [from |-> t, buf |-> "live"])
          /\ Give(t)
          /\ UNCHANGED dropped
    /\ Goto(t, "return")
    /\ UNCHANGED <<storeVars, stamp, hbArmed, alive, sock, garbled>>

\* Channel::send returns and its local Buffer is destroyed, written or not;
\* sendHB starts the timer again.
Return(t) ==
    /\ pc[t] = "return"
    /\ Goto(t, "idle")
    /\ stamp' = [stamp EXCEPT ![t] = 0]
    /\ writes' = [i \in DOMAIN writes |->
                    IF writes[i].from = t THEN [from |-> t, buf |-> "dangling"]
                                          ELSE writes[i]]
    /\ hbArmed' = (hbArmed \/ t = Timer)
    /\ UNCHANGED <<storeVars, alive, sock, garbled, handed, dropped>>

-----------------------------------------------------------------------------
\* Channel::start: the transport is alive at once, connected or not.
Start ==
    /\ up
    /\ ~alive
    /\ alive' = TRUE
    /\ UNCHANGED <<storeVars, pc, stamp, hbArmed, sock, writes, garbled, handed, dropped>>

\* The name is resolved and async_connect opens the socket.
Resolved ==
    /\ alive
    /\ sock = "closed"
    /\ sock' = "connecting"
    /\ UNCHANGED <<storeVars, pc, stamp, hbArmed, alive, writes, garbled, handed, dropped>>

\* The connect completes, with or without an error; it is not tried again.
Connected ==
    /\ sock = "connecting"
    /\ sock' \in {"connected", "broken"}
    /\ UNCHANGED <<storeVars, pc, stamp, hbArmed, alive, writes, garbled, handed, dropped>>

\* The peer resets the connection: the transport stays alive.
PeerResets ==
    /\ sock = "connected"
    /\ sock' = "broken"
    /\ UNCHANGED <<storeVars, pc, stamp, hbArmed, alive, writes, garbled, handed, dropped>>

\* The first waiting write is finished, with an error if the peer is gone.
\* What a destroyed buffer holds is undefined: the old bytes or others.
FinishWrite ==
    /\ writes # <<>>
    /\ sock \in {"connected", "broken"}
    /\ writes' = Tail(writes)
    /\ garbled' \in {garbled} \cup
          {g \in {TRUE} : sock = "connected" /\ Head(writes).buf = "dangling"}
    /\ UNCHANGED <<storeVars, pc, stamp, hbArmed, alive, sock, handed, dropped>>

\* The process dies; only the mapped file is left. Channel::stop() after start()
\* comes to this too: the Channel's transport has no timer for it to cancel.
Crash ==
    /\ Store!Crash
    /\ pc' = [t \in Threads |-> "idle"]
    /\ stamp' = [t \in Threads |-> 0]
    /\ hbArmed' = FALSE
    /\ alive' = FALSE
    /\ sock' = "closed"
    /\ writes' = <<>>
    /\ UNCHANGED <<garbled, handed, dropped>>

Send(t) ==
    BeginSend(t) \/ Stamp(t) \/ IncrementStep(t) \/ IsRunning(t) \/ Write(t) \/ Return(t)

Next ==
    \/ Construct
    \/ TimerExpires
    \/ \E t \in Threads : Send(t)
    \/ Start
    \/ Resolved
    \/ Connected
    \/ PeerResets
    \/ FinishWrite
    \/ Crash

Spec == Init /\ [][Next]_vars

-----------------------------------------------------------------------------
\* The numbers handed to the socket increase strictly, over the lives of the
\* process too: convertToBuffer has the number in the file before the message
\* reaches the transport, so no death makes a number be used twice. With
\* resetSeqNo each process counts for itself.
StrictlyIncreasing ==
    \A i, j \in DOMAIN handed :
        i < j /\ (ResetSeqNo => handed[i].epoch = handed[j].epoch)
            => handed[i].seq < handed[j].seq

\* Between sends every number a process has used was handed to the socket, once,
\* or belongs to a message that was dropped: both copies of convertToBuffer use up
\* one number for one call of TcpClientTransport::send. A write that waits counts
\* as handed; that it fails later is only logged (asyncWrite).
OfThisProcess == {i \in DOMAIN handed : handed[i].epoch = crashes}
NumbersAccountedFor ==
    up /\ Quiet => seqNo - base = Cardinality(OfThisProcess) + dropped

\* However the senders interleave, a message given to the socket has a number
\* below those the increments so far can have reached: nothing runs ahead.
WireNeverAhead ==
    \A i \in DOMAIN handed :
        handed[i].epoch = crashes => handed[i].seq - base < increments

\* The same of the store below the senders: neither the counter, nor the file a
\* death would leave, nor a value a sender carries between two accesses of the
\* increment is ahead of the increments made.
StoreNeverAhead == Store!NeverAhead

\* "Send this buf on transport" (Channel.hpp:144): what the socket takes is
\* what Channel::send has put in its buffer.
BufferSentIntact == ~garbled

-----------------------------------------------------------------------------
(***************************************************************************)
(* FixSendPath implements SessionNumbering when sends do not overlap. The  *)
(* next number is the one of the message being sent, if its number is      *)
(* taken and its fate is open, else the one in the store; while no process *)
(* runs it is the number the next process will find.                       *)
(***************************************************************************)
Holding(t) == pc[t] \in {"increment", "isRunning", "write"}

NextNumber ==
    IF ~up THEN Store!Opened(mmap)
    ELSE IF \E t \in Threads : Holding(t)
         THEN stamp[CHOOSE t \in Threads : Holding(t)]
         ELSE seqNo

WireNumbers == [i \in DOMAIN handed |-> handed[i].seq]

Numbering ==
    INSTANCE SessionNumbering
        WITH next <- NextNumber, wire <- WireNumbers,
             Begin <- BeginSeqNo, Resets <- ResetSeqNo

\* Each message takes the next number and hands it to the socket in order or
\* leaves a gap; a restart of the process repeats none and skips at most the one
\* of the message that the death cut off.
ImplementsNumbering == Numbering!Spec
=============================================================================
