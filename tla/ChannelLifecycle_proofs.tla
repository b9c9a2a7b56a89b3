----------------------- MODULE ChannelLifecycle_proofs -----------------------
(***************************************************************************)
(* Proofs about ChannelLifecycle, for any number of starts.                *)
(*                                                                         *)
(* Each effective start() sends one chain of handlers on its way: a        *)
(* resolve, then a connect, then one read after the other. The invariant   *)
(* OneChainEach counts the chains, the failed ones included; ReadsAreTold  *)
(* counts those that read against the calls of the application's OnConnect.*)
(***************************************************************************)
EXTENDS ChannelLifecycle, TLAPS

\* How many operations are under way, in any state.
Connects(ops) == ops["pending"] + ops["ok"] + ops["error"]
Reads(ops) == ops["pending"] + ops["data"] + ops["eof"] + ops["error"]

\* Whatever is under way, or has failed, was begun by a start() of its own.
OneChainEach == resolving + Connects(connects) + Reads(reads) + toRead + errors <= starts

\* A chain that reads has connected and told of it.
ReadsAreTold ==
    running /\ callbacks["OnConnect"] # Unset => Reads(reads) + toRead <= told["OnConnect"]

CountInv == TypeOK /\ OneChainEach
LifeInv == CountInv /\ ReadsAreTold

-----------------------------------------------------------------------------
(* What the helpers do to the operations under way and to their number. *)

LEMMA CountNat ==
    ASSUME NEW f \in [ConnectStates -> Nat], NEW g \in [ReadStates -> Nat]
    PROVE  /\ Connects(f) \in Nat /\ \A s \in ConnectStates : f[s] \in Nat /\ f[s] <= Connects(f)
           /\ Reads(g) \in Nat /\ \A s \in ReadStates : g[s] \in Nat /\ g[s] <= Reads(g)
  BY DEF Connects, Reads, ConnectStates, ReadStates

LEMMA AddConnects ==
    ASSUME NEW f \in [ConnectStates -> Nat], NEW s \in ConnectStates
    PROVE  /\ Add(f, s) \in [ConnectStates -> Nat]
           /\ Connects(Add(f, s)) = Connects(f) + 1
           /\ s # "pending" => Add(f, s)["pending"] = f["pending"]
  BY DEF Add, Connects, ConnectStates

LEMMA AddReads ==
    ASSUME NEW f \in [ReadStates -> Nat], NEW s \in ReadStates
    PROVE  /\ Add(f, s) \in [ReadStates -> Nat]
           /\ Reads(Add(f, s)) = Reads(f) + 1
           /\ s # "pending" => Add(f, s)["pending"] = f["pending"]
  BY DEF Add, Reads, ReadStates

LEMMA TakeConnects ==
    ASSUME NEW f \in [ConnectStates -> Nat], NEW s \in ConnectStates, f[s] > 0
    PROVE  /\ Take(f, s) \in [ConnectStates -> Nat]
           /\ Connects(Take(f, s)) = Connects(f) - 1
           /\ s # "pending" => Take(f, s)["pending"] = f["pending"]
  BY DEF Take, Connects, ConnectStates

LEMMA TakeReads ==
    ASSUME NEW f \in [ReadStates -> Nat], NEW s \in ReadStates, f[s] > 0
    PROVE  /\ Take(f, s) \in [ReadStates -> Nat]
           /\ Reads(Take(f, s)) = Reads(f) - 1
           /\ s # "pending" => Take(f, s)["pending"] = f["pending"]
  BY DEF Take, Reads, ReadStates

LEMMA MoveConnects ==
    ASSUME NEW f \in [ConnectStates -> Nat], NEW s \in ConnectStates, NEW t \in ConnectStates, s # t, f[s] > 0
    PROVE  /\ Move(f, s, t) \in [ConnectStates -> Nat]
           /\ Connects(Move(f, s, t)) = Connects(f)
  BY DEF Move, Connects, ConnectStates

LEMMA MoveReads ==
    ASSUME NEW f \in [ReadStates -> Nat], NEW s \in ReadStates, NEW t \in ReadStates, s # t, f[s] > 0
    PROVE  /\ Move(f, s, t) \in [ReadStates -> Nat]
           /\ Reads(Move(f, s, t)) = Reads(f)
  BY DEF Move, Reads, ReadStates

LEMMA MoveAllConnects ==
    ASSUME NEW f \in [ConnectStates -> Nat], NEW t \in ConnectStates, t # "pending"
    PROVE  /\ MoveAll(f, "pending", t) \in [ConnectStates -> Nat]
           /\ Connects(MoveAll(f, "pending", t)) = Connects(f)
           /\ MoveAll(f, "pending", t)["pending"] = 0
  BY DEF MoveAll, Connects, ConnectStates

LEMMA MoveAllReads ==
    ASSUME NEW f \in [ReadStates -> Nat], NEW t \in ReadStates, t # "pending"
    PROVE  /\ MoveAll(f, "pending", t) \in [ReadStates -> Nat]
           /\ Reads(MoveAll(f, "pending", t)) = Reads(f)
           /\ MoveAll(f, "pending", t)["pending"] = 0
  BY DEF MoveAll, Reads, ReadStates

\* What a look-up of a callback does, whatever it finds.
LEMMA CallBackFacts ==
    ASSUME NEW type \in Helper!CallbackType, NEW signature, TypeOK, CallBack(type, signature)
    PROVE  /\ running' \in BOOLEAN
           /\ told' \in [Counted -> Nat]
           /\ running' => running
           /\ told'["OnConnect"] >= told["OnConnect"]
           /\ running' /\ type = "OnConnect" /\ callbacks["OnConnect"] # Unset
                  => told'["OnConnect"] = told["OnConnect"] + 1
<1>t. running \in BOOLEAN /\ told \in [Counted -> Nat] /\ "OnConnect" \in Counted
  BY DEF TypeOK, Counted
<1>n. told["OnConnect"] \in Nat
  BY <1>t
<1>1. CASE Helper!Swallowed(type) /\ UNCHANGED <<running, told>>
  BY <1>1, <1>t, <1>n DEF Helper!Swallowed
<1>2. CASE Helper!Called(type, signature) /\ Tell(type) /\ UNCHANGED running
  <2>1. told' \in [Counted -> Nat]
    BY <1>2, <1>t DEF Tell
  <2>2. told'["OnConnect"] = IF "OnConnect" = type THEN told["OnConnect"] + 1 ELSE told["OnConnect"]
    BY <1>2, <1>t DEF Tell
  <2>3. QED
    BY <1>2, <1>t, <1>n, <2>1, <2>2
<1>3. CASE Helper!BadGet(type, signature) /\ running' = FALSE /\ UNCHANGED told
  <2>1. ~running' /\ running' \in BOOLEAN
    BY <1>3, Zenon
  <2>2. told' = told
    BY <1>3
  <2>3. QED
    BY <1>t, <1>n, <2>1, <2>2
<1>4. QED
  BY <1>1, <1>2, <1>3 DEF CallBack

LEMMA OnErrorFacts ==
    ASSUME TypeOK, OnError
    PROVE  /\ running' \in BOOLEAN /\ told' \in [Counted -> Nat] /\ (running' => running)
           /\ told'["OnConnect"] >= told["OnConnect"]
           /\ errors' = errors + 1
  BY CallBackFacts DEF OnError, Helper!CallbackType

LEMMA OnConnectFacts ==
    ASSUME TypeOK, OnConnect
    PROVE  /\ running' \in BOOLEAN /\ told' \in [Counted -> Nat] /\ (running' => running)
           /\ running' /\ callbacks["OnConnect"] # Unset
                  => told'["OnConnect"] = told["OnConnect"] + 1
           /\ errors' = errors
  BY CallBackFacts DEF OnConnect, Helper!CallbackType

LEMMA OnDataRecFacts ==
    ASSUME TypeOK, OnDataRec
    PROVE  /\ running' \in BOOLEAN /\ told' \in [Counted -> Nat] /\ (running' => running)
           /\ told'["OnConnect"] >= told["OnConnect"]
           /\ errors' = errors
<1>t. running \in BOOLEAN /\ told \in [Counted -> Nat] /\ told["OnConnect"] \in Nat
  BY DEF TypeOK, Counted
<1>1. CASE CallBack("OnMessage", "message") /\ UNCHANGED errors
  BY <1>1, CallBackFacts DEF Helper!CallbackType
<1>2. CASE UNCHANGED <<running, told, errors>>
  BY <1>2, <1>t
<1>3. CASE running' = FALSE /\ UNCHANGED <<told, errors>>
  <2>1. ~running' /\ running' \in BOOLEAN
    BY <1>3, Zenon
  <2>2. told' = told /\ errors' = errors
    BY <1>3
  <2>3. QED
    BY <1>t, <2>1, <2>2
<1>4. QED
  BY <1>1, <1>2, <1>3 DEF OnDataRec

-----------------------------------------------------------------------------
(* One step of each kind preserves type and number of the chains. *)

LEMMA CountStep == CountInv /\ [Next]_vars => CountInv'
<1> SUFFICES ASSUME CountInv, [Next]_vars PROVE CountInv'
  OBVIOUS
<1> USE LifecycleAssumption
<1> USE DEF CountInv, TypeOK, OneChainEach
<1>n. /\ Connects(connects) \in Nat /\ \A s \in ConnectStates : connects[s] <= Connects(connects)
      /\ Reads(reads) \in Nat /\ \A s \in ReadStates : reads[s] <= Reads(reads)
  BY CountNat
<1>1. ASSUME NEW type \in Helper!CallbackType, NEW sig \in Helper!Signature, NEW o \in BOOLEAN,
             Register(type, sig, o)
      PROVE  CountInv'
  <2>1. Helper!TypeOK'
    BY <1>1 DEF Register, Helper!Set, Helper!TypeOK
  <2>2. QED
    BY <1>1, <2>1 DEF Register, ioVars, appVars
<1>2. ASSUME NEW type \in Helper!CallbackType, Unregister(type)
      PROVE  CountInv'
  <2>1. Helper!TypeOK'
    BY <1>2 DEF Unregister, Helper!Clear, Helper!TypeOK
  <2>2. QED
    BY <1>2, <2>1 DEF Unregister, ioVars, appVars
<1>3. CASE UnregisterAll
  <2>1. Helper!TypeOK'
    BY <1>3 DEF UnregisterAll, Helper!ClearAll, Helper!TypeOK
  <2>2. QED
    BY <1>3, <2>1 DEF UnregisterAll, ioVars, appVars
<1> USE DEF Helper!TypeOK
<1>4. CASE Start
  <2>1. hbTimer' \in BOOLEAN
    BY <1>4, Zenon DEF Start, appVars
  <2>2. QED
    BY <1>4, <1>n, <2>1 DEF Start, appVars
<1>5. CASE Stop
  BY <1>5, MoveAllConnects, MoveAllReads DEF Stop, ConnectStates, ReadStates, appVars
<1>6. CASE Resolve
  <2>1. resolving' \in Nat /\ resolving' = resolving - 1
    BY <1>6 DEF Resolve, appVars
  <2>2. connects' \in [ConnectStates -> Nat] /\ Connects(connects') <= Connects(connects) + 1
    <3>1. CASE UNCHANGED connects
      BY <1>n, <3>1
    <3>2. CASE connects' = Add(connects, "pending")
      BY <1>n, <3>2, AddConnects DEF ConnectStates
    <3>3. CASE connects' = Add(connects, "error")
      BY <1>n, <3>3, AddConnects DEF ConnectStates
    <3>4. QED
      BY <1>6, <3>1, <3>2, <3>3 DEF Resolve, appVars
  <2>3. Connects(connects') \in Nat
    BY <2>2, CountNat
  <2>4. QED
    BY <1>6, <1>n, <2>1, <2>2, <2>3 DEF Resolve, appVars
<1>7. CASE Connect
  <2>1. connects' \in [ConnectStates -> Nat] /\ Connects(connects') = Connects(connects) - 1
    BY <1>7, TakeConnects DEF Connect, ConnectStates
  <2>2. running' \in BOOLEAN /\ told' \in [Counted -> Nat] /\ errors' = errors
    BY <1>7, OnConnectFacts DEF Connect
  <2>3. QED
    BY <1>7, <1>n, <2>1, <2>2 DEF Connect
<1>8. CASE ConnectFails
  <2>1. connects' \in [ConnectStates -> Nat] /\ Connects(connects') = Connects(connects) - 1
    BY <1>8, TakeConnects DEF ConnectFails, ConnectStates
  <2>2. running' \in BOOLEAN /\ told' \in [Counted -> Nat] /\ errors' = errors + 1
    BY <1>8, OnErrorFacts DEF ConnectFails
  <2>3. Connects(connects') \in Nat /\ Reads(reads') \in Nat
    BY <1>8, <2>1, CountNat DEF ConnectFails
  <2>4. errors' \in Nat /\ errors' <= starts /\ OneChainEach'
    BY <1>8, <1>n, <2>1, <2>2, <2>3 DEF ConnectFails
  <2>5. QED
    BY <1>8, <2>1, <2>2, <2>4 DEF ConnectFails
<1>9. CASE Read
  <2>1. reads' \in [ReadStates -> Nat] /\ Reads(reads') = Reads(reads) + 1
    BY <1>9, AddReads DEF Read, ReadStates
  <2>2. QED
    BY <1>9, <1>n, <2>1 DEF Read, appVars
<1>10. CASE AsyncReadData
  <2>1. reads' \in [ReadStates -> Nat] /\ Reads(reads') = Reads(reads) - 1
    BY <1>10, TakeReads DEF AsyncReadData, ReadStates
  <2>2. running' \in BOOLEAN /\ told' \in [Counted -> Nat] /\ errors' = errors
    BY <1>10, OnDataRecFacts DEF AsyncReadData
  <2>3. QED
    BY <1>10, <1>n, <2>1, <2>2 DEF AsyncReadData
<1>11. CASE AsyncReadEof
  <2>1. reads' \in [ReadStates -> Nat] /\ Reads(reads') = Reads(reads) - 1
    BY <1>11, TakeReads DEF AsyncReadEof, ReadStates
  <2>2. QED
    BY <1>11, <1>n, <2>1 DEF AsyncReadEof, appVars
<1>12. CASE AsyncReadFails
  <2>1. reads' \in [ReadStates -> Nat] /\ Reads(reads') = Reads(reads) - 1
    BY <1>12, TakeReads DEF AsyncReadFails, ReadStates
  <2>2. running' \in BOOLEAN /\ told' \in [Counted -> Nat] /\ errors' = errors + 1
    BY <1>12, OnErrorFacts DEF AsyncReadFails
  <2>3. Connects(connects') \in Nat /\ Reads(reads') \in Nat
    BY <1>12, <2>1, CountNat DEF AsyncReadFails
  <2>4. errors' \in Nat /\ errors' <= starts /\ OneChainEach'
    BY <1>12, <1>n, <2>1, <2>2, <2>3 DEF AsyncReadFails
  <2>5. QED
    BY <1>12, <2>1, <2>2, <2>4 DEF AsyncReadFails
<1>13. CASE Connected
  <2>1. connects' \in [ConnectStates -> Nat] /\ Connects(connects') = Connects(connects)
    BY <1>13, MoveConnects DEF Connected, ConnectStates
  <2>2. QED
    BY <1>13, <2>1 DEF Connected, networkSame, appVars
<1>14. CASE Refused
  <2>1. connects' \in [ConnectStates -> Nat] /\ Connects(connects') = Connects(connects)
    BY <1>14, MoveConnects DEF Refused, ConnectStates
  <2>2. reads' \in [ReadStates -> Nat] /\ Reads(reads') = Reads(reads)
    BY <1>14, MoveAllReads DEF Refused, ReadStates
  <2>3. QED
    BY <1>14, <2>1, <2>2 DEF Refused, networkSame, appVars
<1>15. CASE DataArrives
  <2>1. reads' \in [ReadStates -> Nat] /\ Reads(reads') = Reads(reads)
    BY <1>15, MoveReads DEF DataArrives, ReadStates
  <2>2. QED
    BY <1>15, <2>1 DEF DataArrives, networkSame, appVars
<1>16. CASE PeerCloses
  <2>1. reads' \in [ReadStates -> Nat] /\ Reads(reads') = Reads(reads)
    BY <1>16, MoveAllReads DEF PeerCloses, ReadStates
  <2>2. QED
    BY <1>16, <2>1 DEF PeerCloses, networkSame, appVars
<1>17. CASE PeerResets
  <2>1. reads' \in [ReadStates -> Nat] /\ Reads(reads') = Reads(reads)
    BY <1>17, MoveAllReads DEF PeerResets, ReadStates
  <2>2. QED
    BY <1>17, <2>1 DEF PeerResets, networkSame, appVars
<1>18. CASE UNCHANGED vars
  BY <1>18 DEF vars, ioVars, appVars
<1>19. QED
  BY <1>1, <1>2, <1>3, <1>4, <1>5, <1>6, <1>7, <1>8, <1>9, <1>10, <1>11, <1>12, <1>13,
     <1>14, <1>15, <1>16, <1>17, <1>18 DEF Next

-----------------------------------------------------------------------------
(* What is told, and when. *)

LEMMA ToldStep == CountInv /\ ReadsAreTold /\ [Next]_vars => ReadsAreTold'
<1> SUFFICES ASSUME CountInv, ReadsAreTold, [Next]_vars PROVE ReadsAreTold'
  OBVIOUS
<1> USE DEF ReadsAreTold
<1>n. /\ Connects(connects) \in Nat /\ \A s \in ConnectStates : connects[s] <= Connects(connects)
      /\ Reads(reads) \in Nat /\ \A s \in ReadStates : reads[s] <= Reads(reads)
  BY CountNat DEF CountInv, TypeOK
<1>t. /\ TypeOK
      /\ starts \in Nat /\ toRead \in Nat /\ resolving \in Nat /\ errors \in Nat
      /\ connects \in [ConnectStates -> Nat] /\ reads \in [ReadStates -> Nat]
      /\ told["OnConnect"] \in Nat
      /\ sock \in {"closed", "connecting", "connected", "ended", "failed"}
  BY LifecycleAssumption DEF CountInv, TypeOK, Counted
<1>z. starts = 0 => Reads(reads) + toRead <= 0
  BY <1>n, <1>t DEF CountInv, OneChainEach
<1>r. ASSUME starts = 0, UNCHANGED <<reads, toRead, told>> PROVE ReadsAreTold'
  BY <1>n, <1>r, <1>t, <1>z
<1>1. ASSUME NEW type \in Helper!CallbackType, NEW sig \in Helper!Signature, NEW o \in BOOLEAN,
             Register(type, sig, o)
      PROVE  ReadsAreTold'
  BY <1>1, <1>r DEF Register, ioVars, appVars
<1>2. ASSUME NEW type \in Helper!CallbackType, Unregister(type)
      PROVE  ReadsAreTold'
  BY <1>2, <1>r DEF Unregister, ioVars, appVars
<1>3. CASE UnregisterAll
  BY <1>3, <1>r DEF UnregisterAll, ioVars, appVars
<1>4. CASE Start
  BY <1>4 DEF Start, appVars
<1>5. CASE Stop
  <2>1. Reads(reads') = Reads(reads)
    BY <1>5, <1>t, MoveAllReads DEF Stop, ReadStates
  <2>2. running' => running
    BY <1>5 DEF Stop
  <2>3. QED
    BY <1>5, <2>1, <2>2 DEF Stop, appVars
<1>6. CASE Resolve
  BY <1>6 DEF Resolve, appVars
<1>7. CASE Connect
  <2>1. running /\ toRead' = toRead + 1 /\ reads' = reads /\ callbacks' = callbacks
    BY <1>7 DEF Connect, ThreadFree
  <2>2. running' /\ callbacks["OnConnect"] # Unset => told'["OnConnect"] = told["OnConnect"] + 1
    BY <1>7, <1>t, OnConnectFacts DEF Connect
  <2>3. QED
    BY <1>n, <1>t, <2>1, <2>2
<1>8. CASE ConnectFails
  <2>1. told'["OnConnect"] >= told["OnConnect"] /\ told'["OnConnect"] \in Nat /\ (running' => running)
    BY <1>8, <1>t, OnErrorFacts DEF ConnectFails, Counted
  <2>2. QED
    BY <1>8, <1>n, <1>t, <2>1 DEF ConnectFails
<1>9. CASE Read
  <2>1. Reads(reads') = Reads(reads) + 1
    BY <1>9, <1>t, AddReads DEF Read, ReadStates
  <2>2. /\ toRead' = toRead - 1 /\ toRead \in Nat
        /\ told' = told /\ callbacks' = callbacks /\ (running' => running)
    BY <1>9, <1>t DEF Read, appVars
  <2>3. QED
    BY <1>n, <1>t, <2>1, <2>2
<1>10. CASE AsyncReadData
  <2>1. Reads(reads') = Reads(reads) - 1
    BY <1>10, <1>t, TakeReads DEF AsyncReadData, ReadStates
  <2>2. told'["OnConnect"] >= told["OnConnect"] /\ told'["OnConnect"] \in Nat /\ (running' => running)
    BY <1>10, <1>t, OnDataRecFacts DEF AsyncReadData, Counted
  <2>3. QED
    BY <1>10, <1>n, <1>t, <2>1, <2>2 DEF AsyncReadData
<1>11. CASE AsyncReadEof
  <2>1. Reads(reads') = Reads(reads) - 1
    BY <1>11, <1>t, TakeReads DEF AsyncReadEof, ReadStates
  <2>2. QED
    BY <1>11, <1>n, <1>t, <2>1 DEF AsyncReadEof, appVars
<1>12. CASE AsyncReadFails
  <2>1. Reads(reads') = Reads(reads) - 1
    BY <1>12, <1>t, TakeReads DEF AsyncReadFails, ReadStates
  <2>2. told'["OnConnect"] >= told["OnConnect"] /\ told'["OnConnect"] \in Nat /\ (running' => running)
    BY <1>12, <1>t, OnErrorFacts DEF AsyncReadFails, Counted
  <2>3. QED
    BY <1>12, <1>n, <1>t, <2>1, <2>2 DEF AsyncReadFails
<1>13. CASE Connected
  BY <1>13 DEF Connected, networkSame, appVars
<1>14. CASE Refused
  <2>1. Reads(reads') = Reads(reads)
    BY <1>14, <1>t, MoveAllReads DEF Refused, ReadStates
  <2>2. QED
    BY <1>14, <2>1 DEF Refused, networkSame, appVars
<1>15. CASE DataArrives
  <2>1. Reads(reads') = Reads(reads)
    BY <1>15, <1>t, MoveReads DEF DataArrives, ReadStates
  <2>2. QED
    BY <1>15, <2>1 DEF DataArrives, networkSame, appVars
<1>16. CASE PeerCloses
  <2>1. Reads(reads') = Reads(reads)
    BY <1>16, <1>t, MoveAllReads DEF PeerCloses, ReadStates
  <2>2. QED
    BY <1>16, <2>1 DEF PeerCloses, networkSame, appVars
<1>17. CASE PeerResets
  <2>1. Reads(reads') = Reads(reads)
    BY <1>17, <1>t, MoveAllReads DEF PeerResets, ReadStates
  <2>2. QED
    BY <1>17, <2>1 DEF PeerResets, networkSame, appVars
<1>18. CASE UNCHANGED vars
  BY <1>18 DEF vars, ioVars, appVars
<1>19. QED
  BY <1>1, <1>2, <1>3, <1>4, <1>5, <1>6, <1>7, <1>8, <1>9, <1>10, <1>11, <1>12, <1>13,
     <1>14, <1>15, <1>16, <1>17, <1>18 DEF Next

-----------------------------------------------------------------------------
(* The theorems. *)

LEMMA LifeInitially == Init => LifeInv
<1> SUFFICES ASSUME Init PROVE LifeInv
  OBVIOUS
<1>1. Helper!TypeOK
  BY DEF Init, Helper!Init, Helper!TypeOK
<1>2. connects \in [ConnectStates -> Nat] /\ \A s \in ConnectStates : connects[s] = 0
  BY DEF Init
<1>3. reads \in [ReadStates -> Nat] /\ \A s \in ReadStates : reads[s] = 0
  BY DEF Init
<1>4. Connects(connects) = 0 /\ Reads(reads) = 0
  BY <1>2, <1>3 DEF Connects, Reads, ConnectStates, ReadStates
<1>5. CountInv
  <2>1. TypeOK
    <3>1. /\ resolving = 0 /\ toRead = 0 /\ starts = 0 /\ errors = 0 /\ sock = "closed"
          /\ told \in [Counted -> Nat]
      BY DEF Init
    <3>2. /\ running \in BOOLEAN /\ ioThread \in BOOLEAN
          /\ hbTimer \in BOOLEAN /\ alive \in BOOLEAN
      BY Zenon DEF Init
    <3>3. QED
      BY <1>1, <1>2, <1>3, <3>1, <3>2, LifecycleAssumption DEF TypeOK
  <2>2. resolving = 0 /\ toRead = 0 /\ starts = 0 /\ errors = 0
    BY DEF Init
  <2>3. OneChainEach
    BY <1>4, <2>2 DEF OneChainEach
  <2>4. QED
    BY <2>1, <2>3 DEF CountInv
<1>6. ReadsAreTold
  <2>1. toRead = 0 /\ told["OnConnect"] = 0
    BY DEF Init, Counted
  <2>2. QED
    BY <1>4, <2>1 DEF ReadsAreTold
<1>7. QED
  BY <1>5, <1>6 DEF LifeInv

\* The inductive invariant holds.
LEMMA LifeInvariant == Spec => []LifeInv
<1>1. LifeInv /\ [Next]_vars => LifeInv'
  BY CountStep, ToldStep DEF LifeInv
<1>2. QED
  BY LifeInitially, <1>1, PTL DEF Spec

\* Type correctness of the lifecycle, for any number of starts.
THEOREM LifeTypeCorrect == Spec => []TypeOK
<1>1. LifeInv => TypeOK
  BY DEF LifeInv, CountInv
<1>2. QED
  BY LifeInvariant, <1>1, PTL

\* TcpClientTransport::asyncRead reads on only where a read has ended, and not
\* where it failed, so that reads and errors are never more than effective start()s.
THEOREM ReadsBoundedCorrect == Spec => []ReadsBounded
<1>1. LifeInv => ReadsBounded
  <2> SUFFICES ASSUME LifeInv PROVE ReadsBounded
    OBVIOUS
  <2>1. Connects(connects) \in Nat /\ Reads(reads) \in Nat
    BY CountNat DEF LifeInv, CountInv, TypeOK
  <2>2. Reads(reads) + toRead + errors <= starts
    BY <2>1, LifecycleAssumption DEF LifeInv, CountInv, TypeOK, OneChainEach
  <2>3. QED
    BY <2>2 DEF ReadsBounded, ReadsUnderWay, Reads
<1>2. QED
  BY LifeInvariant, <1>1, PTL

\* TcpClientTransport::connect calls back before it reads: never are there more
\* reads than connections of which an application that registers was told.
THEOREM ConnectFirstCorrect == Spec => []ConnectFirst
<1>1. LifeInv => ConnectFirst
  BY DEF LifeInv, ReadsAreTold, ConnectFirst, Reads, ReadsUnderWay
<1>2. QED
  BY LifeInvariant, <1>1, PTL
=============================================================================
