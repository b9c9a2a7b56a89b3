--------------------------- MODULE FixBaseMessage ---------------------------
(***************************************************************************)
(* FixBaseMessage: a FIX message as three FieldMaps, its rendering with    *)
(* body length and checksum (toString), and its making from a string       *)
(* (setString). One object lives through any sequence of these: it may be  *)
(* rendered, changed, made from a string and rendered again.               *)
(*                                                                         *)
(* A string is the sequence of its fields. The flags _field and            *)
(* _isValidMessage are written by setString and read by nothing.           *)
(***************************************************************************)
EXTENDS FixFieldMap

CONSTANTS
    HeaderTags, BodyTags, TrailerTags,  \* what the application sets
    Values,                             \* values it sets them to, types among them
    Types,                              \* the types of the message classes
    MaxRenders                          \* bound: renderings

ASSUME MessageAssumption ==
    /\ HeaderTags \subseteq Nat
    /\ BodyTags \subseteq Nat
    /\ TrailerTags \subseteq Nat
    /\ Values \subseteq Nat
    /\ Types \subseteq Nat
    /\ MaxRenders \in Nat

VARIABLES
    header, body, trailer,   \* the three maps
    text,                    \* the last string toString made
    renders                  \* history: how many strings were made

vars == <<header, body, trailer, text, renders>>

\* isHeaderField, isTrailerField
HeaderFields == {8, 9, 35, 49, 56, 34, 52}
TrailerFields == {93, 89, 10}

Field(tag, value) == [tag |-> tag, value |-> value]

\* Logon() and HeartBeat() set their type, and no version: that comes from fixHeader.
Built(type) == SetField("header", <<>>, Field(35, type))

Init ==
    /\ \E type \in Types : header = Built(type)
    /\ body = <<>>
    /\ trailer = <<>>
    /\ text = <<>>
    /\ renders = 0

\* setField of getMutableHeader(), of the message, and of getMutableTrailer().
Set(f, overwrite) ==
    /\ \/ /\ f.tag \in HeaderTags
          /\ header' = PutField("header", header, f, overwrite)
          /\ UNCHANGED <<body, trailer>>
       \/ /\ f.tag \in BodyTags
          /\ body' = PutField("normal", body, f, overwrite)
          /\ UNCHANGED <<header, trailer>>
       \/ /\ f.tag \in TrailerTags
          /\ trailer' = PutField("trailer", trailer, f, overwrite)
          /\ UNCHANGED <<header, body>>
    /\ UNCHANGED <<text, renders>>

\* removeField of each of them.
Erase(tag) ==
    /\ \/ /\ tag \in HeaderTags
          /\ header' = RemoveField("header", header, tag)
          /\ UNCHANGED <<body, trailer>>
       \/ /\ tag \in BodyTags
          /\ body' = RemoveField("normal", body, tag)
          /\ UNCHANGED <<header, trailer>>
       \/ /\ tag \in TrailerTags
          /\ trailer' = RemoveField("trailer", trailer, tag)
          /\ UNCHANGED <<header, body>>
    /\ UNCHANGED <<text, renders>>

\* toString of a message with maps h, b, t: body length and checksum are set, in
\* this order, then the maps are rendered.
BodyLength(h, b, t) == GetLength(h) + GetLength(b) + GetLength(t)
WithLength(h, b, t) == SetField("header", h, Field(9, BodyLength(h, b, t)))

Checksum(h, b, t) == (GetTotal(h) + GetTotal(b) + GetTotal(t)) % 256
MutantWithChecksum(h, b, t) ==
    SetField("trailer", t, Field(10, Checksum(h, b, t)))
WithChecksum(h, b, t) ==
    SetField("trailer", t, Field(10, Checksum(WithLength(h, b, t), b, t)))

Rendering(h, b, t) ==
    FieldsOf(WithLength(h, b, t)) \o FieldsOf(b) \o FieldsOf(WithChecksum(h, b, t))

RenderOf(h, b) ==
    /\ renders < MaxRenders
    /\ header' = WithLength(h, b, trailer)
    /\ body' = b
    /\ trailer' = WithChecksum(h, b, trailer)
    /\ text' = Rendering(h, b, trailer)
    /\ renders' = renders + 1
Render == RenderOf(header, body)

\* setString: clear, then each field goes into its map. It stops with an
\* exception where one of the first three is not as in headerOrder; the fields
\* before that one stay.
HeaderOrder == <<8, 9, 35>>
Wrong(s) == {n \in DOMAIN s : n <= 3 /\ s[n].tag # HeaderOrder[n]}
Taken(s) == IF Wrong(s) = {} THEN s ELSE SubSeq(s, 1, Min(Wrong(s)) - 1)

\* Those of some fields that have one of the tags are set in a map, in order.
Filled(mode, map, fields, tags) ==
    LET set[n \in 0 .. Len(fields)] ==
            IF n = 0 THEN map
            ELSE IF fields[n].tag \in tags THEN SetField(mode, set[n - 1], fields[n])
            ELSE set[n - 1]
    IN  set[Len(fields)]

BodyFields == Nat \ (HeaderFields \cup TrailerFields)
ParsedHeader(s) == Filled("header", <<>>, s, HeaderFields)
MutantParsedBody(s) == Filled("normal", <<>>, s, Nat \ HeaderFields)
ParsedBody(s) == Filled("normal", <<>>, s, BodyFields)
ParsedTrailer(s) == Filled("trailer", <<>>, s, TrailerFields)

SetString(s) ==
    /\ header' = ParsedHeader(Taken(s))
    /\ body' = ParsedBody(Taken(s))
    /\ trailer' = ParsedTrailer(Taken(s))
    /\ UNCHANGED <<text, renders>>

\* clear()
Clear ==
    /\ header' = <<>>
    /\ body' = <<>>
    /\ trailer' = <<>>
    /\ UNCHANGED <<text, renders>>

\* The strings setString may get here: the last one made, and those that differ
\* from it in a field that is missing among the three that must be in order, or next
\* to them.
Without(s, n) == SubSeq(s, 1, n - 1) \o SubSeq(s, n + 1, Len(s))
Strings == {text} \cup {Without(text, n) : n \in DOMAIN text \cap 1 .. 4}

AllTags == HeaderTags \cup BodyTags \cup TrailerTags

Next ==
    \/ \E t \in AllTags, v \in Values, overwrite \in BOOLEAN : Set(Field(t, v), overwrite)
    \/ \E t \in AllTags : Erase(t)
    \/ Render
    \/ \E s \in Strings : SetString(s)
    \/ Clear

Spec == Init /\ [][Next]_vars

-----------------------------------------------------------------------------
TypeOK ==
    /\ IsMap("header", header) /\ IsMap("normal", body) /\ IsMap("trailer", trailer)
    /\ text \in Seq(FieldType)
    /\ renders \in 0 .. MaxRenders

Tags(s) == {s[n].tag : n \in DOMAIN s}
Position(s, tag) == CHOOSE n \in DOMAIN s : s[n].tag = tag

\* "To Make sure first 3 tags should be 8,9,35" (FixFieldSorter.hpp:18): so it is in
\* every rendering of a message that has a version and a type.
HeaderFirst ==
    {8, 35} \subseteq Tags(text) =>
        Len(text) >= 3 /\ \A n \in 1 .. 3 : text[n].tag = HeaderOrder[n]

\* The body length of a rendering is the bytes between its field and the checksum
\* field, which is the last one: whatever was rendered or made before.
BodyLengthRight ==
    text # <<>> =>
        LET n == Position(text, 9) IN
        /\ text[Len(text)].tag = 10
        /\ text[n].value = SumOf([i \in 1 .. Len(text) - 1 - n |-> FieldLength(text[n + i])])

\* The checksum is the sum of all bytes before its field, modulo 256.
ChecksumRight ==
    text # <<>> =>
        text[Len(text)].value = SumOf([i \in 1 .. Len(text) - 1 |-> FieldTotal(text[i])]) % 256

\* Making a message of a rendering that has a version and a type and rendering it
\* gives the same string: setString undoes toString.
RoundTrip ==
    {8, 35} \subseteq Tags(text) =>
        Rendering(ParsedHeader(text), ParsedBody(text), ParsedTrailer(text)) = text
=============================================================================
