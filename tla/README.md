# rapidChannel in TLA+

rapidChannel is a C++ library for sending and receiving FIX messages over TCP: a `Channel`
ties a transport (`TcpClientTransport`, on Boost.Asio) to a protocol adaptor
(`FIXProtocolAdaptor`), and tells the application of connections, messages and errors through
callbacks. This directory holds TLA+ modules of its parts, configurations to check them with TLC,
and theorems about them that TLAPS has checked.

Contents: 1 the system, 2 the modules, 3 what the runs show, 4 what is proved, 5 known
deviations of the code, 6 what is not modelled, 7 plan.

## 1. The system: inventory

| Component | State | Operations | Hard parts |
|---|---|---|---|
| `SeqNoMemoryMap` (`src/src/SeqNoMemoryMap.cpp`) | atomic `_seqNo`; an int mapped `MAP_SHARED` from a file | constructor (restore), `resetSeqNo`, `getCurrentSeqNo`, `incrementAndGetSeqNo` | the increment is five accesses; the process dies between any two; an int wraps |
| Send path (`Channel::send`, `FIXProtocolAdaptor::convertToBuffer`, `TcpClientTransport::send`) | `_isAlive`, the socket and its queue of writes, a `Buffer` on the stack of each caller | stamp tag 34, increment, drop or `async_write` | application threads and the heartbeat timer meet without a lock; the number is taken before the fate of the message is known; `async_write` outlives the buffer |
| Receive path (`TcpClientTransport::asyncRead`, `FIXProtocolAdaptor::deserialise`) | `_buffer`, `_remBuffer` | one call of `deserialise` for each read | TCP cuts and joins messages; offsets of one string are used on another; exceptions end the thread |
| Transport lifecycle (`TcpClientTransport`, `Channel`) | `_ioServiceThread`, `_hbTimer`, `_isAlive`, socket, operations under way | `start`, `stop`, handlers of resolve, connect, read | handlers of an earlier life run on after `stop`; every error path has to end somewhere |
| `CallbackHelper` | map from event to a `boost::variant` of functions | `set`, `get`, `clear` (two) | a callback is looked up with a signature; `bad_get` is not the exception that is caught |
| FIX message (`FixBaseMessage`, `FieldMap`, `FixField`, `FixFieldSorter`; `FIXProtocolAdaptor::convertToBuffer`) | three maps in three orders | `setField` with and without overwriting, `removeField`, `toString`, `setString`, `clear`, the conversion | length and checksum are written into the maps they are computed from; an order that is none; a message is converted twice, or half way |
| Life of a Channel and its heartbeats (`Channel`, `FIXProtocolAdaptor`) | `_hbTimer`, its io_service and thread, `_sendMsgCallback`, the order of the members | constructors, `start`, `sendHB`, destructors | the timer starts before the callbacks are set; the destructor does not join; members go while both threads run |
| Settings, `parseFromBuffer`, `ParseMessageVisitor`, `Main`, Makefiles | - | - | see section 6 |

How they interact. The application calls `Channel::send`, `start` and `stop`. `send` calls the
adaptor through the visitor of the message (which calls the store), then the transport. The
adaptor's timer calls `send` too, on a thread of the adaptor. The transport's thread runs the
handlers of Boost.Asio: they call `Channel::onConnect`, `onError`, `onDataRec`, of which the last calls
`deserialise`, which calls `Channel::onMessageReceived`. All four look the callbacks of the
application up in the `CallbackHelper`. The only lock of the library is `_startStopMutex` of the transport: `start`,
`stop` and `isRunning` hold it, each for its whole body, which is why each is one step here. `send` and the handlers
do not take it, and numbers, messages, callbacks and the timer have no lock at all.

What makes each part correct:

* store: memory and file agree whenever nobody is in the increment; each increment counts; nothing
  runs ahead; a restart does not go back to a number that was given out;
* send path: numbers on the wire increase strictly over all lives of the process; each number used up belongs to one
  message, which was handed to the socket or dropped; what the socket sends is what `send` wrote;
* receive path: messages are delivered once, in order, with their own type, none is lost;
* lifecycle: the reads that share `_buffer` are bounded; the application hears of connections,
  errors and disconnections, and of a connection before its messages;
* message: a rendering begins with 8, 9, 35, its length and checksum are right, making a message of it and
  rendering that gives it back; an object that is converted has the settings for its type, the number and the time of this
  conversion over what it had before, and nothing that nobody gave it, whatever was done with it before;
* life and heartbeats: they go on while the Channel is there, one at a time, and end with it.

`PROJECT.json` lists the hazards of this code, each at its line, with the properties aimed at it.

## 2. The modules

| Module | Models | Composed of |
|---|---|---|
| `SeqNoMemoryMap` | the store | - |
| `SessionNumbering` | abstract: what numbering promises | - |
| `FixSendPath` | the send path | INSTANCE `SeqNoMemoryMap`; refines `SessionNumbering` |
| `MessageDelivery` | abstract: what receiving promises | - |
| `FixDeserialise` | the receive path | refines `MessageDelivery` |
| `CallbackHelper` | the callbacks | - |
| `ChannelLifecycle` | transport and Channel, start to end | INSTANCE `CallbackHelper` |
| `FixFieldMap`, `FixBaseMessage` | the message | the second extends the first |
| `MessageContent` | abstract: what filling and sending a message promises | - |
| `FixConversion` | `convertToBuffer` on a message | extends `FixBaseMessage`; refines `MessageContent` |
| `ChannelHeartbeat` | construction, heartbeats, destruction of a Channel | - |
| `MC*` | constants of the runs | extend the module they name |
| `*_proofs` | theorems and proofs | extend the module they name |

**SeqNoMemoryMap.** `mmap` is the int in the file and is all that survives `Crash`; `seqNo` is the
atomic. `_seqNo.fetch_add(1); setSeqNo(_seqNo)` with the body of `setSeqNo` are the actions `FetchAdd`, `LoadVal`,
`StoreSeqNo`, `LoadSeqNo`, `StoreMap`; `incPc` and `incArg` are a thread's place among them and the
value it carries. `Open` is the constructor with `resetSeqNo()`. Ints wrap (`Wrap`) at `IntMax`.
`base` and `increments` are history. `Overlap` says whether increments may overlap: the code does not
prevent it, and what holds with it and what only without are different questions. A failing
system call in the constructor throws out of it: there is then no object, and no step.

**FixSendPath.** A thread in `Channel::send` walks through `stamp` (`getCurrentSeqNo` into tag 34 and
rendering), `increment` (one access of the store at a time), `isRunning`, `write`, `return`. The heartbeat
timer is one of the threads, started by `TimerExpires` instead of `BeginSend`; its `Return` arms the
timer again. `writes` are the `async_write`s the socket has not finished, each with the state of the
buffer it points into; `handed` is what the socket was given, the socket sending in that order.
Which writes the socket takes at once is left open. A buffer that is `dangling` may hold the old
bytes or others (`FinishWrite`).

**FixDeserialise.** The stream is a sequence of characters, and both `_remBuffer` and `buf` are
stretches of it, so that the arithmetic of `deserialise` is that of the code, on offsets. `Throws` collects the
exceptions of `lexical_cast` and `substr`, `SetStringTakes` those of `setString`; nothing catches them, so
they are `Terminate`. `lexical_cast<int>` takes a sign and refuses what is beyond an int (`IsNumber`, `Number`, `IntMax`), and an offset below 0 is a
`size_t` beyond any string. `Segmentation` says where a read may end. A message here is a string, because the
properties are about where strings are cut. Messages are any set of legal ones: `IsLegal` is what
FIX asks of a message and what `toString` renders (8, 9, 35, other fields, 10, a body length that is right), with nothing said of the
values of the other fields. Tags and the body length are digits and fit into an int: a tag beyond the int makes `setString` throw.

**ChannelLifecycle.** Operations of Boost.Asio are counted by the state of their completion
(`connects`, `reads`); a handler takes one. `toRead` counts threads that are between their callback and
the `read()` that ends the handler, so that handlers of two threads interleave there after a second
`start`. `CallBack` is a look-up with its three outcomes; `OnConnect`, `OnError` and `OnDataRec` are the methods of the Channel, the last with the exceptions
that `deserialise` and `setString` throw out of the thread. `told` and `errors` are history: how often callbacks of the application and `Channel::onError` were
called, so that a second connection or error is not mistaken for the first. `HbRequired` is `isHBReq` of the transport's constructor, which a Channel leaves
FALSE (`Channel.hpp:105`): with it `stop()` of a started transport ends the process. `Life_restart` has it TRUE, to see what a restart does.

**FixFieldMap, FixBaseMessage.** A `std::map` is the sequence of its nodes, a node has the key it was
inserted with. `PutField` is insertion under any comparison, also one that is no order, with and without overwriting;
`Find` is `std::map::find` under the same. Values are numbers standing for their digits, so that lengths and
byte sums are those of the code; a type such as "A" stands as a number, too. A new message has its type in 35 and nothing else (`Built`), as
`Logon()` and `HeartBeat()` leave it: the version comes from `fixHeader`. One message object goes through any sequence of `Set` and
`Erase` (of header, message and trailer), `Render`, `SetString`, `Clear`. `SetString` gets the last rendering, or that
without one of its first four fields: a missing 8, 9 or 35 makes it stop half way, a missing field behind them does not.

**FixConversion.** The two overloads of `convertToBuffer` are the same text. The settings are sequences of fields in the
order of `config/appSetting.xml`. `HeaderSet`, `BodySet`, `WithLogon`, `Stamped` are the
stages in their order, and `Convert` is the whole. The three ways out by an exception are actions
that leave the stages before it done: no type (`ConvertUntyped`), a tag of a `fixMessage` that is no number
(`ConvertBadTag`), a whole second (`ConvertWholeSecond`). The refinement maps the three
sorted maps to the set of their fields, without 9 and 10, and `seqNo` to `number`.

**ChannelHeartbeat.** The owner of a Channel builds it step by step (`Construct`, `ReadInterval`, `SetSend`, `SetOthers`),
starts and destroys it; `TearDown` is the order in which members are destroyed, `torn` how far it has come.
The adaptor's thread walks through `sendHB`: `TakeUp`, `TestCallback`, `Visit`, `ConvertToBuffer`, `Send`, `Rearm`. The transport's
thread alternates between `run()` and handlers. `Use(part)` says what happens when a thread
uses a part of the Channel: nothing special while it is there; afterwards `undefined` is set, and the process may go on as before or end. An assignment of `_sendMsgCallback`
takes two steps, and reading it between them is undefined, too.

## 3. The runs

| Run | Distinct states | Question and answer |
|---|---|---|
| `SeqNo_serial` | 629 | One increment at a time, an int of three bits, two deaths: memory and file agree between increments, none is lost, the file goes back only at the wrap. |
| `SeqNo_lost` | violation | Two overlapping increments can count once. |
| `Send_serial` | 726 018 | No overlapping sends, two deaths, connection comes and goes: numbers increase strictly, each belongs to one message that was handed over or dropped, the path implements `SessionNumbering`. |
| `Send_overlap` | 125 027 | Application thread and timer at once, with `resetSeqNo` and an int that wraps: no message has a number the increments have not passed, and neither memory nor file runs ahead of them. |
| `Send_dangling` | violation | A write behind the connect or another write reads a destroyed buffer. |
| `Deserialise_perMessage` | 1 593 | One message per read, four kinds of message: implements `MessageDelivery`, and every message is taken in the end. |
| `Deserialise_any` | 30 229 | Reads end at any byte: what is delivered begins where a message begins or has one field at most, no byte is delivered twice, and a read that starts clean delivers its first message whatever came before. |
| `Deserialise_coalesced` | violation | Of two messages in a read the second is not delivered. |
| `Life_restart` | 160 275 | Two starts, a stop at any moment, every registration, every behaviour of the peer: reads are bounded and end with an error, there are no more chains of reads than connections told of, each error reaches `Channel::onError`, each connection the application. |
| `Life_eof` | violation | After the peer has closed, the transport reads for ever and tells nobody. |
| `Message_lifecycle` | 53 400 | Any sequence of operations and conversions, failing ones among them, on one message: what a rendering is, and `MessageContent`. |
| `Heartbeat` | 2 135 | A Channel from construction to destruction, every kind of `heartBtInt`: one heartbeat at a time, one after the stop at most; heartbeats go on, and their thread ends. |

Each property of a passing run has a mutant, a definition with the name `Mutant...` beside the one
it replaces: a plausible bug with which TLC finds the property violated. The four violations are
findings; `PROJECT.json` has for each the lines of the code that disagree.

Bounds, and why they are enough:

* `MaxCrashes = 2` gives three lives: one that starts with no file or an old one, one that
  restores what the first left, one that restores what a restored one left. A death can come at every step.
* `MaxIncrements` 3 (5 for the wrap): two senders in the increment, and one more after them that
  would show a number used twice. `IntMax = 4` with 5 increments wraps from every start value. `FixSendPath` begins no
  send at `IntMax`; in `Send_overlap`, with `IntMax = 3`, two senders that began before it take the int over the wrap. In `Send_serial` it is out of reach.
* `Deserialise_*`: three or four messages out of kinds that differ in length, type and the presence of
  a body; a message, what remains of it, and a later message of another length are what it takes for
  offsets to go wrong. `Deserialise_any` has a message with a negative value behind a field whose tag ends in 8 (`98=0|44=-15`), which makes the code deliver
  `8=0|`, and one with a long field of such a tag and a value beyond the int (`IntMax = 127`, so that two digits are within it and 200 is not). `BufferSize` 50 there lets
  a read hold one message and a part of the next, or two short ones.
* `MaxStarts = 2`: one handler of an earlier life against one of the present. The theorems of
  section 4 hold for any number.
* `Message_lifecycle`: a message has a type (a logon, 5; one whose settings have a tag that is no number, 0) to which the application may give a third (120), so that an
  object is converted as two types, or as one after a conversion that stopped half way; it may have 34 and 98 set, erased or overwritten before and after the settings or the logon touch the
  same tags, and is rendered or converted twice (`MaxRenders = 2`), with anything in between. Values and times of one, two and
  three digits make a length that goes stale visible; the numbers 9 and 10 do the same to tag 34.
* `Heartbeat` has no bound: its states are finite in number, as `OneHeartbeat` says.

`CHECK_DEADLOCK FALSE` stands in every configuration because the models may stop: a bound is reached, the
peer is silent, the process has ended.

Fairness. `SeqNoMemoryMap`, `FixSendPath`, `FixBaseMessage` and `FixConversion` have none; their properties are safety. In
`ChannelHeartbeat` what the code of a constructor or destructor does next (`OwnerStep`), the passing of time (`TimerExpires`) and the adaptor's
thread (`AdaptorStep`) are weakly fair: they need nothing but to be scheduled. That the owner starts or destroys the Channel is not assumed, nor anything of the transport's thread. In
`ChannelLifecycle` the handlers are fair, because `io_service::run()` takes handlers from a queue in the order of
completion: `Resolve` and `Read` weakly; the handlers that need a free thread, of which there may be one too few at
times, strongly. Nothing is assumed of the peer, the network or the application. In `FixDeserialise` a read is weakly fair:
as long as one can be made, one is made (the io_service thread does nothing else), with no
fairness towards a place where it ends.

## 4. The theorems

All hold for every value of the constants that satisfies the named assumptions of the
modules (`StoreAssumption`, `SendAssumption`, `DeserialiseAssumption`, `LegalAssumption`, `LifecycleAssumption`, `MessageAssumption`,
`ConversionAssumption`, `LifetimeAssumption`): any set of threads, any width of int, any number of increments, deaths, starts, any tags, values, types
and settings, any number of renderings, any legal messages (`IsLegal`: tags and body length are digits and fit into an int), any number of them, any size of
the buffer and of the int.

| Module | Theorem | Says |
|---|---|---|
| `SeqNoMemoryMap_proofs` | `TypeCorrect` | `[]TypeOK` |
| | `NeverAheadCorrect` | `[]NeverAhead`, overlap allowed |
| | `SettledCorrect`, `IncrementsCorrect`, `RegressCorrect` | without overlap: agreement, no lost increment, file goes back only at the wrap |
| `SessionNumbering_proofs` | `NeverReusedCorrect` | the abstract session never repeats a number |
| `FixSendPath_proofs` | `SendTypeCorrect`, `WireNeverAheadCorrect`, `StoreNeverAheadCorrect` | overlap allowed |
| | `StrictlyIncreasingCorrect`, `NumbersAccountedForCorrect`, `NumberingCorrect` | without overlap: strictly increasing numbers; between sends each number taken is one message's, handed over or dropped; the refinement of `SessionNumbering` |
| `FixDeserialise_proofs` | `TypeCorrect` | what remains and what was delivered lies within what was read |
| | `CleanReadsDeliver` | a read that starts clean delivers its first message, however reads are cut |
| | `DeliveryImplemented`, `ThreadLivesOn` | one message per read: the refinement of `MessageDelivery`, and no exception |
| | `DeliveriesBegin` | what is delivered begins a message or has one field at most, and no byte is delivered twice, however reads are cut |
| `ChannelLifecycle_proofs` | `LifeTypeCorrect`, `ReadsBoundedCorrect`, `ConnectFirstCorrect` | the safety properties of the lifecycle, for any number of starts |
| `ChannelHeartbeat_proofs` | `HeartbeatTypeCorrect`, `OneHeartbeatCorrect`, `OneAfterStopCorrect` | the safety properties of a Channel's life |
| `FixFieldMap_proofs` | `HeaderOrderTotal`, `HeaderOrderBegins`, `TrailerOrderTotal`, `TrailerOrderBroken` | what the comparisons of the maps are |
| | `PutFieldKeepsMap`, `RemoveFieldGood` | setting and removing keep a map in order, under all three comparisons |
| | `PutFieldSet` | setting a field of a header or a body puts it over the set of its fields, or under it |
| `FixConversion_proofs` | `FilledGood` | setting a sequence of fields keeps a map |
| | `MessageTypeCorrect`, `HeaderFirstCorrect` | the maps stay maps; each string with a version and a type begins with 8, 9, 35 |
| | `ContentPromisedCorrect` | the refinement of `MessageContent` |
| | `BodyLengthRightCorrect`, `ChecksumRightCorrect` | length and checksum of every string are right |
| | `RoundTripCorrect` | a message made of a string is rendered to the same string |

The arguments:

*Store.* `NeverAhead` is inductive when it also speaks of what a thread carries between a load and
a store: a value loaded from `seqNo` is no further ahead than `seqNo` was, and `increments` only
grows. Without overlap, `SerialInv` says how `seqNo`, `mmap` and `incArg` are related at each of the five places in the
increment: at most one thread is in it, and the file is one behind the memory at most, from `FetchAdd` to
`StoreMap`. `SettledAgreement` alone is not inductive, as it says nothing of the places between.

*Send path.* The module instantiates the store's proofs, so that a step of the send path is a
step of the store or leaves it alone. `WireInv` adds that the place in `send` and the place in the increment are in step, that a
stamp is behind the increments once the number is taken, and that messages carry the epoch of their
process. `SerialSendInv` adds that one thread at most is sending, how its stamp is related to `seqNo` and to the file at each stage, and that every
number handed over is below the next one. For a death the file decides: before `StoreMap` the number that is
being sent is given again, and it was not handed over; after it, the file is past it. That is why the
increment has to come before the write. For the refinement each step is mapped: the write to `Transmit`, a drop or a death after `StoreMap`
to `Forfeit`, opening with `resetSeqNo` to `Reset`, everything else to a stutter.

*Receive path.* `Inv` says that `stream` is the messages sent, one behind the other (`StreamInv`), and that `rem`, `read` and the stretches
delivered lie in order (`ReadInv`). For the second, msgEndPos, the offset of another string, has to land in the new buf: if nothing
throws, `substr` has seen to it (`CallRight`); and what is delivered is at least a few bytes long, because `setString` took it (`DeliverRight`).
`TypeOK` follows, and that deliveries do not overlap.

For a read that begins with a message, the two parts of the code that look at it are followed through the bytes: the
widths of its first three fields are those `IsLegal` gives (`FrontFields`), so that the body length leads
to the "=" of the checksum field and the next SOH is the message's last (`FrontMessage`: the call throws nothing and leaves off at its end); and
`setString` finds a number before a "=" behind every SOH, 8, 9 and 35 first (`SetStringTakesMessage`). Other
tags may be anything, and values may have "=" and digits. `CleanReadsDeliver` is one such step. With one message per read every state is clean: `CleanInv` adds `rem = read`, `read` at the
end of a message and `~terminated`, and each step is `Take` or `PeerSends` of `MessageDelivery` (`DeliveryNext`). `DeliveryImplemented` assumes
that segmentation as the run does, since without it `Deserialise_coalesced` refutes it.

`DeliveriesBegin` is about reads that begin anywhere, also within a tag. `BeginInv` adds to `Inv` that each delivery begins where a message does or has one field at most (`Starts`,
which `StartsStays` as the peer sends more). Suppose a call delivers two fields from within a message. `setString` has seen to it that
the first tag reads as 8 and the second as 9 (`FirstTags`; a tag with a sign is no such number where a tag of digits stands, `TagRead`). The first field of a message has no other "=",
so that the 8 is the end of a tag of a later field (`FalseStart`), and the SOH after it is not the one behind the BeginString. But behind every other SOH of a message there is a field whose
tag is not 9, and behind the message comes the 8 of the next (`MessageFields`). That this is all that can be said of a delivery, is shown in section 5.

*Lifecycle.* Each effective `start()` begins one chain of handlers: resolve, connect, read, read, ... `OneChainEach` counts
what is under way, and what has failed, against `starts`; `ReadsBounded` follows. It is inductive only with the resolves and connects, which `ReadsBounded` leaves out. `ConnectFirst` is
`ReadsAreTold`: a chain of reads begins with a call of `OnConnect`, ends or goes on without one, and never becomes two.

*Heartbeats.* `OneHeartbeat` alone is inductive with `TypeOK`, but `OneAfterStop` has to know of the heartbeat that may still come:
`LastHeartbeat` says that a late one was the last, because from then on the thread is past its `Send` and an io_service that is
stopped takes nothing up (`StopsOnce`). `ConstructorFirst` says
that there is no wait before the interval was read, so that the constructor arms the timer once.

*Message.* `IsMap` is kept by each insertion: `UpTo` divides the nodes, by transitivity, in those before the tag or equivalent to it
and those behind, and the new node goes between them, or is the last of the first. Of a trailer this needs no order of 10, only that `Less` is
transitive and irreflexive, which it is even though `TrailerOrderBroken`. A loop over fields is a recursive function over `0 .. Len(s)`. The
library's induction cannot be instantiated by the provers at hand, so what holds all along a loop is proved
by the least index at which it would not hold (`Least`, `LoopStays`). `LoopDefined` shows in the same way that the recursive
definition has a value everywhere; the number of digits of a number (`DecimalNat`) rests on it. For `HeaderFirst`, in a map in
`header_order` with nodes 8, 9, 35 these are the first three, as every other tag is behind them (`HeaderBegins`); rendering puts 9
in, and the body and the trailer have none of the three (`HeaderFirstCorrect` assumes that the application's body and trailer tags, and the settings of the messages, have no 8 and no 35).

*Length and checksum.* `BodyLengthRightCorrect` and `ChecksumRightCorrect` assume `OwnPlaces`: no 10, 89 or 93 in header and body, no 8 or 9 in the body
and nothing but 10 in the trailer, of what the application and the settings give; what `setString` brings in is then where it belongs, too. Under
it the maps hold such tags only (`RightMaps`), whatever was done before. Three facts are needed of a
rendering. Setting 9 does not change the length of the header it is computed from (`LengthStays`: a node inserted with weight 0, or one
of weight 0 in place of another); the trailer has one node at most, its checksum, of weight 0 (`TrailerOfTen`); and the weights of the string are those of the three maps, one behind
the other, so that their sums add up (`PlacesWeighed`, from `SameStretch` on sums over equal stretches). The fields before 9 have tag 8 and no weight
(`LengthFound`), the last one is 10: what is left is what the length is of.

*Round trip.* `RoundTripCorrect` assumes `KnownPlaces`: header, body and trailer get only tags that `setString` puts there again (a header field
that it does not know would come back in the body). `FilledStretch`: filling an empty map from
fields that are in its order gives their nodes in this order, as each goes to the end (`SetAtEnd`), and fields of other maps are passed over. So the three maps come back; the length and
the checksum computed from them are the old ones, and setting what is there changes nothing (`SetAgain`).

*Content.* `ContentPromisedCorrect` assumes `KnownPlaces`, that no tag is twice among the settings of a header or of one message
(`SettingsDistinct`: of two settings with one tag the later would win, which a set of fields cannot say), and that there is a value to set.
Seen as a set of fields, a map without node 10 turns `setField` into `Over` (`PutFieldSet`, `RemoveFieldSet`: the node that is found is the one with
the tag, as keys and tags agree in `header_order` and in the natural order), and a loop of them into `Over` of all (`FilledOver`). Header
and body have no tag in common under `KnownPlaces` (`KnownMaps` is the invariant), so that the three maps together are one set with a field for
each tag (`ContentOfMaps`); `Over` is associative (`OverTwice`) and what is laid over one of the maps is laid over the whole (`OverBeside`). So
the settings, the logon's fields and the stamps, laid one after the other over two maps, are `Converted` (`ConvertedOver`). Length and checksum, which rendering
sets, are no part of the content (`LengthUnseen`). A string that `setString` takes is what is left of a rendering, and nothing else comes into the maps
(`StringAmong`, `FilledAmong`). What an exception leaves behind is what was there and some of the settings (`FailPromised`). A `setField(9)` or
`setField(10)` of the application is a stutter.

`config/appSetting.xml` (8, 49 and 56 in `fixHeader`, nothing in `fixMessage`) and the constants of `Message_lifecycle` satisfy `OwnPlaces`, `KnownPlaces` and
`SettingsDistinct`.

The messages of `MCFixDeserialise` satisfy `LegalAssumption`, which TLC evaluates in each run.

Only model-checked, being liveness: `EveryMessageTaken`, `ErrorsReachOnError`, `ConnectionsAreTold`, `HeartbeatsGoOn`, `ThreadLeaves`. Of the first,
`ThreadLivesOn` proves the half that is safety.

## 5. Known deviations of the code

The runs that end in a violation show four: lost increments, the dangling buffer, coalesced messages, the
disconnect that is not told. Met while modelling, and part of the model though no run is about them:

* A read that ends within a message in most cases ends the process: `lexical_cast` or `substr` throws out of the
  io_service thread (`FIXProtocolAdaptor.hpp:478-496`; `Terminate` in `FixDeserialise`). What `Deserialise_any` shows of such reads is safety only.
* Such a read can also deliver what nobody sent. When the front of a message was left over, and the next read begins in a tag that ends in 8, what follows can
  pass for a Logon or a HeartBeat with the single field 8: `setString` compares the first three tags with 8, 9 and 35 only as far as there are fields (`FixBaseMessage.hpp:112`).
  A long field will do, as a 58 with text; so will `98=0` when a field with a negative value is taken for the body length, as the first two fields of
  what the code looks at need not be 8 and 9: of `8=F|9=22|35=D|98=0|44=-15|58=A|10=6|`, cut within the tag 98, the code delivers `8=0|`. A string of no field gives an empty
  Logon or HeartBeat in the same way. `DeliveriesBeginMessages` leaves room for this (`AtMostOneField`), and for no more.
* `Channel::onError` (`Channel.hpp:86-97`) looks the callback up under `OnDisconnect`, with the signature of `OnError`, against `Main.cpp:107`, which registers `onErrorCB` under `OnError` to be
  told. With what `main` registers, `boost::get` throws `bad_get`, which is no `runtime_error`: any error ends the process. `OnError` of `ChannelLifecycle` is this code, and
  `ErrorsReachOnError` follows an error no further than the call of `Channel::onError`.
* `stop()` (`TcpClientTransport.cpp:51`) cancels `_hbTimer`, which is null unless the transport was built with
  `isHBReq`, and the Channel builds it without: each `Channel::stop()` after `start()` ends the process. `Life_restart` is therefore of a transport with a timer, and
  `Crash` of `FixSendPath` stands for such a stop, too.
* After a restart two threads run handlers, and a resolve or connect of the first start goes on. Two reads may then write into the one `_buffer` (`ReadsBounded` says two for two starts), and a
  chain of reads of the first start may read the first message of the second connection before the thread with its `connect()` has called `OnConnect` (`ConnectFirst` counts, and does not order these).
* `trailer_order` makes 10 equivalent to every tag (`TrailerOrderBroken`): in a trailer with 89 or 93 the
  checksum is put into their node, or they into its, and `removeField(10)` and `isSetField(10)` (`FixFieldMap.hpp:91`) find a node of another tag. `Message_lifecycle` has no trailer tag but 10.
* The checksum is not padded to three digits (`FixBaseMessage.hpp:91`), as `Main.cpp:174` would, in code that is not used.
* `getFieldIfSet` (`FixFieldMap.hpp:66-73`) assigns to a parameter that it has by value: the caller gets nothing.
* On a whole second `to_iso_string` has no fraction and `substr(16, 3)` throws (`FIXProtocolAdaptor.hpp:316`): of a heartbeat, it ends the process
  (`ConvertToBuffer`); of the application, the message stays without number and time (`ConvertWholeSecond`).
* A tag of a `fixMessage` that is no number throws `bad_lexical_cast`, which is no `runtime_error`, past the catch at
  `FIXProtocolAdaptor.hpp:294` (`ConvertBadTag`); so does a header without a type, behind the loop (`ConvertUntyped`).
* An object that is converted as one type and then gets another keeps the settings of the first type where the second has none of that tag. `Converted` of `MessageContent`
  says so (`Over` what it had), and `Message_lifecycle` converts such objects.
* Members of a Channel are destroyed in the reverse order of their declaration (`Channel.hpp:36`): the visitor, which each heartbeat
  goes through, and the callbacks before the adaptor has stopped its timer. And nothing ends the transport's thread (`TcpClientTransport.cpp:156`), so that to destroy a Channel
  that was started is undefined. No property excludes it: `ChannelHeartbeat` marks it (`undefined`), and `ThreadLeaves` is about a thread for which what it uses is still there.
* A Channel that is whole does undefined things, too: the dangling buffer, `stop()` on a null timer, and, when the timer expires while the Channel is constructed, reading `_sendMsgCallback` during its
  assignment (`TestCallback`), as the adaptor's constructor arms the timer before the Channel sets the callback (`FIXProtocolAdaptor.hpp:224`, `Channel.hpp:112`).
* A `heartBtInt` that is no number leaves the constructor as `bad_lexical_cast`, where `Channel.hpp:101` speaks of `runtime_error`; the
  adaptor's thread then runs on in an io_service that is gone (`WaitOnNothing`).
* "reset and start the HBTimer" (`FIXProtocolAdaptor.hpp:340`, `:435`) is a comment without code: a heartbeat follows the last heartbeat, not the last message.
* After the wrap of the int the file holds a number that is not positive, which the next start takes for a
  new file (`Restored`): numbers are used again, after 2^31 messages. `FileRegressesOnlyOnWrap` is about the file before the wrap and at it; going from a negative number up
  to `BeginSeqNo` is no step back in the file, though it is one in the numbers given out.

## 6. What is not modelled

* Settings (`config/appSetting.xml` and an XML library that is not in the repository): their values are the constants.
* `parseFromBuffer` and `ParseMessageVisitor`: they print and change nothing, and nothing calls them.
* Repeating groups (`FixGroup` is empty), `group_order` and the constructors of `FixFieldSorter` that take an array of tags: no caller. (They
  read an array that nothing initialises, with a tag as index; a caller would find that first.) `isAdminMessage`, `printMsg`: they change nothing.
* The transport's own heartbeat timer: its handler prints, and a Channel never asks for it. Its existence matters to `stop()` and is `hbTimer`.
* How bytes lead to an exception in `ChannelLifecycle`: there any read of data may end the process (`OnDataRec`); which do is the business of `FixDeserialise`.
* `Main.cpp`: the order in which it registers, starts and destroys is in `ChannelLifecycle` and `ChannelHeartbeat`; `evenThread` and `oddThread`, an exercise
  with a condition variable, are started by nothing.
* The data race of `stop()` closing the socket object while a handler uses it: undefined in C++, with outcomes
  beyond those of the model.
* Number and layout of log lines; Makefiles.

## 7. Plan

Done, in this order: store, send path with its abstract numbering, receive path with its abstract delivery,
lifecycle with callbacks, message; construction, heartbeats and destruction of a Channel; conversion of a message with its abstract content; proofs for
each.

Left:

1. `FixSendPath` against `ChannelLifecycle`: one transport for both, so that drops, `stop` and a second `start` meet the
   numbering in one module. Today `FixSendPath` lets the connection come and go at any moment, which is more than the transport does.
2. Proofs: what a clean read leaves for the next when reads take several messages, the part of `DeliveredInOrder` that holds.
