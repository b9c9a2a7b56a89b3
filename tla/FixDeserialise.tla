--------------------------- MODULE FixDeserialise ---------------------------
(***************************************************************************)
(* The way of a message in: the bytes the peer has sent arrive in reads of *)
(* any size (TcpClientTransport::asyncRead), each of which is handed to    *)
(* FIXProtocolAdaptor::deserialise. What one call leaves over is kept in   *)
(* _remBuffer for the next.                                                *)
(*                                                                         *)
(* The connection is one sequence of bytes, stream. The string buf of a    *)
(* call and _remBuffer are always adjacent stretches of it: _remBuffer is  *)
(* from rem to read, buf from read to the end of the new read. A stretch   *)
(* [i, j) holds the bytes i + 1 .. j of stream.                            *)
(***************************************************************************)
EXTENDS Integers, Sequences, FiniteSets

CONSTANTS
    Messages,       \* the messages a peer may send: [type, bytes]
    BufferSize,     \* the size of the transport's _buffer
    Segmentation,   \* where a read may end, see MayEnd
    IntMax,         \* the greatest int
    MaxSent         \* bound: messages the peer sends

ASSUME DeserialiseAssumption ==
    /\ Messages \subseteq [type : Seq(STRING), bytes : Seq(STRING)]
    /\ BufferSize \in Nat \ {0}
    /\ Segmentation \in {"perMessage", "coalescing", "any"}
    /\ IntMax \in Nat /\ 35 <= IntMax
    /\ MaxSent \in Nat

VARIABLES
    sent,        \* the messages the peer has sent
    stream,      \* their bytes, one after the other
    read,        \* how many of the bytes were read
    rem,         \* where _remBuffer begins
    delivered,   \* the messages given to _recMessageCallback
    terminated   \* has an exception left the io_service thread?

vars == <<sent, stream, read, rem, delivered, terminated>>

\* Where the n-th message sent ends.
End(n) ==
    LET end[k \in 0 .. n] == IF k = 0 THEN 0 ELSE end[k - 1] + Len(sent[k].bytes)
    IN  end[n]

TypeOK ==
    /\ sent \in Seq(Messages)
    /\ Len(stream) = End(Len(sent))
    /\ read \in 0 .. Len(stream)
    /\ rem \in 0 .. read
    /\ \A i \in DOMAIN delivered :
          /\ delivered[i].from \in 0 .. read
          /\ delivered[i].to \in delivered[i].from .. read
    /\ terminated \in BOOLEAN

-----------------------------------------------------------------------------
\* Strings, as stretches of stream.
Bytes(i, j) == SubSeq(stream, i + 1, j)

SOH == "|"
Digits == <<"0", "1", "2", "3", "4", "5", "6", "7", "8", "9">>
DigitValue == [d \in {Digits[n] : n \in 1 .. 10} |-> (CHOOSE n \in 1 .. 10 : Digits[n] = d) - 1]

\* find(c) of the string [i, j): an offset from i, if there is one.
Has(c, i, j) == c \in {stream[k] : k \in i + 1 .. j}
Find(c, i, j) ==
    CHOOSE k \in 0 .. j - i - 1 :
        stream[i + 1 + k] = c /\ \A l \in 0 .. k - 1 : stream[i + 1 + l] # c

\* pos + 1 for the pos of the first SOH: npos + 1 is 0.
FieldWidth(i, j) == IF Has(SOH, i, j) THEN Find(SOH, i, j) + 1 ELSE 0

\* The value in the first field of [i, j): the whole field if it has no "=".
FieldValue(i, j) ==
    LET e == IF Has(SOH, i, j) THEN i + Find(SOH, i, j) ELSE j
    IN  IF Has("=", i, e) THEN Bytes(i + Find("=", i, e) + 1, e) ELSE Bytes(i, e)

\* lexical_cast<int>: a sign, if there is one, and digits; what is beyond the range of
\* an int is no number.
AreDigits(s) == s # <<>> /\ \A k \in DOMAIN s : s[k] \in DOMAIN DigitValue
Magnitude(s) ==
    LET upTo[k \in 0 .. Len(s)] ==
            IF k = 0 THEN 0 ELSE 10 * upTo[k - 1] + DigitValue[s[k]]
    IN  upTo[Len(s)]

Signed(s) == s # <<>> /\ s[1] \in {"+", "-"}
Unsigned(s) == IF Signed(s) THEN Tail(s) ELSE s
Number(s) == IF Signed(s) /\ s[1] = "-" THEN - Magnitude(Tail(s)) ELSE Magnitude(Unsigned(s))
IsNumber(s) == AreDigits(Unsigned(s)) /\ Number(s) \in - IntMax - 1 .. IntMax

-----------------------------------------------------------------------------
(***************************************************************************)
(* What a FIX message is, which is what FixBaseMessage::toString renders   *)
(* and what peers of a FIX session send: the fields 8, 9, 35 and others,   *)
(* then 10, 9 being the bytes from its end to the beginning of 10. A tag   *)
(* and the body length are numbers of digits that fit into an int.         *)
(***************************************************************************)
\* [i, j) of b is <tag>=<value><SOH>.
FieldAt(b, i, j, tag) ==
    /\ i + Len(tag) + 1 < j
    /\ \A k \in DOMAIN tag : b[i + k] = tag[k]
    /\ b[i + Len(tag) + 1] = "="
    /\ b[j] = SOH
    /\ \A k \in i + 1 .. j - 1 : b[k] # SOH

\* [k, e) of b has digits, those of an int, and a "=" is behind them.
TagAt(b, k, e) ==
    /\ e > k
    /\ \A p \in k + 1 .. e : b[p] \in DOMAIN DigitValue
    /\ IsNumber(SubSeq(b, k + 1, e))
    /\ b[e + 1] = "="

IsLegal(m) ==
    LET b == m.bytes IN
    \E v, l, t, c \in DOMAIN b :
       /\ FieldAt(b, 0, v, <<"8">>)
       /\ \A k \in 3 .. v : b[k] # "="
       /\ FieldAt(b, v, l, <<"9">>)
       /\ IsNumber(SubSeq(b, v + 3, l - 1))
       /\ Number(SubSeq(b, v + 3, l - 1)) = c - l
       /\ FieldAt(b, l, t, <<"3", "5">>)
       /\ SubSeq(b, l + 4, t - 1) = m.type
       /\ t <= c
       /\ b[c] = SOH
       /\ \A k \in t .. c - 1 :
             b[k] = SOH =>
                \E e \in k + 1 .. c - 1 : TagAt(b, k, e) /\ Number(SubSeq(b, k + 1, e)) # 9
       /\ FieldAt(b, c, Len(b), <<"1", "0">>)

ASSUME LegalAssumption == \A m \in Messages : IsLegal(m)

-----------------------------------------------------------------------------
\* Does FixBaseMessage::setString take [i, j), or does it throw? Each field has
\* to be <number>=<value><SOH>, and the first three those of headerOrder. Nothing
\* asks for a third field, or for any.
FieldStarts(i, j) == {k \in i .. j - 1 : k = i \/ stream[k] = SOH}
Tag(k, j) == Bytes(k, k + Find("=", k, j))
MutantSetStringTakes(i, j) ==
    /\ i < j => stream[j] = SOH
    /\ \A k \in FieldStarts(i, j) : Has("=", k, j) /\ IsNumber(Tag(k, j))
SetStringTakes(i, j) ==
    /\ i < j => stream[j] = SOH
    /\ \A k \in FieldStarts(i, j) :
          /\ Has("=", k, j)
          /\ IsNumber(Tag(k, j))
          /\ LET before == Cardinality({l \in FieldStarts(i, j) : l < k})
             IN  before < 3 => Number(Tag(k, j)) = <<8, 9, 35>>[before + 1]

-----------------------------------------------------------------------------
(***************************************************************************)
(* deserialise(buf) for the buf that ends at e: the fields at the front of *)
(* _remBuffer + buf are BeginString, BodyLength and MsgType. From their    *)
(* widths and the body length comes msgEndPos, the offset of the last SOH  *)
(* of the message, which is then taken for an offset of buf. It is a       *)
(* size_t: what is below 0 is beyond any buf, but for -1, whose successor  *)
(* is 0.                                                                   *)
(***************************************************************************)
BodyLengthAt(e) == rem + FieldWidth(rem, e)
MsgTypeAt(e) == BodyLengthAt(e) + FieldWidth(BodyLengthAt(e), e)

MsgType(e) == IF MsgTypeAt(e) < e /\ BodyLengthAt(e) < e
              THEN FieldValue(MsgTypeAt(e), e) ELSE <<>>

\* The offset of the "=" of the checksum field.
ChecksumPos(e) == MsgTypeAt(e) - rem + Number(FieldValue(BodyLengthAt(e), e)) + 2

MutantMsgEndPos(e) == IF BodyLengthAt(e) = e THEN e - rem ELSE ChecksumPos(e)
MsgEndPos(e) ==
    IF BodyLengthAt(e) = e
    THEN e - rem
    ELSE ChecksumPos(e) + FieldWidth(read + ChecksumPos(e) + 1, e)

\* lexical_cast and the two substr throw; no caller catches.
MutantThrows(e) ==
    \/ /\ BodyLengthAt(e) < e
       /\ \/ ~IsNumber(FieldValue(BodyLengthAt(e), e))
          \/ ChecksumPos(e) + 1 \notin 0 .. e - read
    \/ MsgEndPos(e) + 1 >= e - read
Throws(e) ==
    \/ /\ BodyLengthAt(e) < e
       /\ \/ ~IsNumber(FieldValue(BodyLengthAt(e), e))
          \/ ChecksumPos(e) + 1 \notin 0 .. e - read
    \/ MsgEndPos(e) + 1 > e - read

KnownTypes == {<<"A">>, <<"a">>, <<"0">>}

\* The remainder and the string a Logon or a HeartBeat is made of.
Remainder(e) == read + MsgEndPos(e) + 1
Content(e) == [type |-> MsgType(e), from |-> read, to |-> Remainder(e)]

Outcome(e) ==
    IF Throws(e) THEN "terminates"
    ELSE IF MsgType(e) \notin KnownTypes THEN "passes over"
    ELSE IF SetStringTakes(read, Remainder(e)) THEN "delivers"
    ELSE "terminates"

Init ==
    /\ sent = <<>>
    /\ stream = <<>>
    /\ read = 0
    /\ rem = 0
    /\ delivered = <<>>
    /\ terminated = FALSE

\* The peer sends a message.
PeerSends(m) ==
    /\ Len(sent) < MaxSent
    /\ sent' = Append(sent, m)
    /\ stream' = stream \o m.bytes
    /\ UNCHANGED <<read, rem, delivered, terminated>>

\* A read takes what has arrived, at most a buffer full. TCP may cut and join
\* the messages at will; the better behaved connections are special cases.
MayEnd ==
    CASE Segmentation = "any" -> read + 1 .. Len(stream)
      [] Segmentation = "coalescing" -> {End(n) : n \in 1 .. Len(sent)}
      [] Segmentation = "perMessage" ->
            {End(n) : n \in {m \in 1 .. Len(sent) : End(m - 1) = read}}

Arrives(e) ==
    /\ ~terminated
    /\ e > read
    /\ e - read <= BufferSize
    /\ read' = e
    /\ UNCHANGED <<sent, stream>>

\* A Logon or a HeartBeat is made and handed on.
Deliver(e) ==
    /\ Arrives(e)
    /\ Outcome(e) = "delivers"
    /\ rem' = Remainder(e)
    /\ delivered' = Append(delivered, Content(e))
    /\ UNCHANGED terminated

\* A message of another type is passed over.
MutantPassOver(e) ==
    /\ Arrives(e)
    /\ Outcome(e) = "passes over"
    /\ UNCHANGED <<rem, delivered, terminated>>
MutantPassOverFar(e) ==
    /\ Arrives(e)
    /\ Outcome(e) = "passes over"
    /\ rem' = read + MsgEndPos(e) + 2
    /\ UNCHANGED <<delivered, terminated>>
PassOver(e) ==
    /\ Arrives(e)
    /\ Outcome(e) = "passes over"
    /\ rem' = Remainder(e)
    /\ UNCHANGED <<delivered, terminated>>

\* An exception leaves the handler and io_service::run: the process is ended.
Terminate(e) ==
    /\ Arrives(e)
    /\ Outcome(e) = "terminates"
    /\ terminated' = TRUE
    /\ UNCHANGED <<rem, delivered>>

Receive(e) == Deliver(e) \/ PassOver(e) \/ Terminate(e)

Next ==
    \/ \E m \in Messages : PeerSends(m)
    \/ \E e \in MayEnd : Receive(e)

\* The io_service thread goes on reading as long as it lives: weak fairness of
\* the reads, CanRead being where one is enabled.
CanRead == ~terminated /\ \E e \in MayEnd : e > read /\ e - read <= BufferSize
Fairness == <>[]CanRead => []<><<\E e \in MayEnd : Receive(e)>>_vars

Spec == Init /\ [][Next]_vars /\ Fairness

-----------------------------------------------------------------------------
Taken == Cardinality({n \in 1 .. Len(sent) : End(n) <= read})
IsKnown(m) == m.type \in KnownTypes
Received == [i \in DOMAIN delivered |->
                [type |-> delivered[i].type,
                 bytes |-> Bytes(delivered[i].from, delivered[i].to)]]

\* "Deserialise as per FIX protocol" (FIXProtocolAdaptor.hpp:440): the messages
\* delivered are those that were sent, as far as they were read, each with its
\* own type, in order, without loss.
DeliveredInOrder == Received = SelectSeq(SubSeq(sent, 1, Taken), IsKnown)

\* However the reads are cut, a string that a message is made of begins where one of
\* the messages sent begins, or it has a single field or none (the 8=0 of 98=0, a
\* tail of which passes for a BeginString); and no byte is in two of them, though the
\* offsets of a call are those of another string (FIXProtocolAdaptor.hpp:496).
BeginsMessage(i) == \E n \in 1 .. Len(sent) : i = End(n - 1)
AtMostOneField(i, j) == SOH \notin {stream[k] : k \in i + 1 .. j - 1}
DeliveriesBeginMessages ==
    /\ \A i \in DOMAIN delivered :
          \/ BeginsMessage(delivered[i].from)
          \/ AtMostOneField(delivered[i].from, delivered[i].to)
    /\ \A i, j \in DOMAIN delivered : i < j => delivered[i].to <= delivered[j].from

\* However the reads are cut, a read that begins with a message, when nothing
\* remains of the one before, delivers that message if all of it is there; so
\* the messages after a clean point are not affected by those before.
CleanReadDelivers ==
    [][\A n \in 1 .. Len(sent) :
          rem = read /\ End(n - 1) = read /\ End(n) <= read' /\ read' # read =>
              /\ ~terminated'
              /\ delivered' = delivered \o
                    (IF IsKnown(sent[n])
                     THEN <<[type |-> sent[n].type, from |-> read, to |-> End(n)]>>
                     ELSE <<>>)]_vars

Delivery ==
    INSTANCE MessageDelivery
        WITH taken <- Taken, delivered <- Received, Known <- IsKnown

\* As long as the reads keep the messages apart, every message taken from the
\* connection is delivered, once and in order, whatever came before it.
ImplementsDelivery == Delivery!Spec

\* ... and no message waits for ever in the connection: no legal message ends
\* the thread that reads.
EveryMessageTaken == \A n \in 1 .. MaxSent : Len(sent) >= n ~> Taken >= n
=============================================================================
