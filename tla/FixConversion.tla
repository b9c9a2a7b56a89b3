---------------------------- MODULE FixConversion ----------------------------
(***************************************************************************)
(* convertToBuffer of FIXProtocolAdaptor on one message object, the two    *)
(* overloads being the same text: the settings are laid over what the      *)
(* message has, then the logon's fields, the time and the number, and it   *)
(* is rendered. The object stays with the application, which may change    *)
(* it, render it or make it from a string, and have it converted again; a  *)
(* conversion may end in an exception half way.                            *)
(*                                                                         *)
(* The settings are in the order of config/appSetting.xml: fixHeader is    *)
(* before every fixMessage. The constructor has refused a fixHeader with a *)
(* tag that is no number; of a fixMessage nobody has looked at the tags.   *)
(***************************************************************************)
EXTENDS FixBaseMessage

CONSTANTS
    HeaderSettings,    \* the fields of fixHeader, in order
    MessageSettings,   \* those of fixMessage, for each type that has one
    NoNumber,          \* a tag that is not a number
    LogonType,         \* "A"
    EncryptType, HbInterval,
    Times,             \* what the clock may say
    FirstSeqNo

ASSUME ConversionAssumption ==
    /\ HeaderSettings \in Seq([tag : Nat, value : Nat])
    /\ \A type \in DOMAIN MessageSettings :
          MessageSettings[type] \in Seq([tag : Nat \cup {NoNumber}, value : Nat])
    /\ NoNumber \notin Nat
    /\ EncryptType \in Nat /\ HbInterval \in Nat
    /\ Times \subseteq Nat
    /\ FirstSeqNo \in Nat

VARIABLES seqNo   \* getCurrentSeqNo()

allVars == <<vars, seqNo>>

ConversionInit == Init /\ seqNo = FirstSeqNo

-----------------------------------------------------------------------------
\* The header once fixHeader is laid over it, and the type that is then looked up.
HeaderSet == Filled("header", header, HeaderSettings, Nat)
IsTyped == IsSetField("header", HeaderSet, 35)
MsgType == GetFieldValue("header", HeaderSet, 35)

\* The fields of the fixMessage of that type, up to a tag that is not a number.
Configured ==
    IF MsgType \in DOMAIN MessageSettings THEN MessageSettings[MsgType] ELSE <<>>
IsNumeric(fields) == \A n \in DOMAIN fields : fields[n].tag # NoNumber
Numeric(fields) ==
    LET k == CHOOSE k \in 0 .. Len(fields) :
                /\ IsNumeric(SubSeq(fields, 1, k))
                /\ k = Len(fields) \/ fields[k + 1].tag = NoNumber
    IN  SubSeq(fields, 1, k)
BodySet == Filled("normal", body, Numeric(Configured), Nat)

WithLogon(map) ==
    IF MsgType = LogonType
    THEN SetField("normal", SetField("normal", map, Field(98, EncryptType)),
                  Field(108, HbInterval))
    ELSE map

MutantStamped(h, time) ==
    PutField("header", SetField("header", h, Field(52, time)), Field(34, seqNo), FALSE)
Stamped(h, time) ==
    SetField("header", SetField("header", h, Field(52, time)), Field(34, seqNo))

Convert ==
    /\ IsTyped
    /\ IsNumeric(Configured)
    /\ \E time \in Times : RenderOf(Stamped(HeaderSet, time), WithLogon(BodySet))
    /\ seqNo' = seqNo + 1

\* A header without a type: getFieldValue(35) throws, in the loop, where it is
\* caught, and again behind it, where it is not.
ConvertUntyped ==
    /\ ~IsTyped
    /\ header' = HeaderSet
    /\ UNCHANGED <<body, trailer, text, renders, seqNo>>

\* bad_lexical_cast is no runtime_error: it leaves the function.
ConvertBadTag ==
    /\ IsTyped
    /\ ~IsNumeric(Configured)
    /\ header' = HeaderSet
    /\ body' = BodySet
    /\ UNCHANGED <<trailer, text, renders, seqNo>>

\* On a whole second to_iso_string has no fraction, and substr(16, 3) throws.
ConvertWholeSecond ==
    /\ IsTyped
    /\ IsNumeric(Configured)
    /\ header' = HeaderSet
    /\ body' = WithLogon(BodySet)
    /\ UNCHANGED <<trailer, text, renders, seqNo>>

ConversionNext ==
    \/ Next /\ UNCHANGED seqNo
    \/ Convert
    \/ ConvertUntyped
    \/ ConvertBadTag
    \/ ConvertWholeSecond

ConversionSpec == ConversionInit /\ [][ConversionNext]_allVars

-----------------------------------------------------------------------------
\* What the maps hold, and what the last string has, but length and checksum.
Content(fields) == {f \in {fields[n] : n \in DOMAIN fields} : f.tag \notin {9, 10}}

Promise == INSTANCE MessageContent WITH
    Fields <- [tag : AllTags, value : Values] \cup [tag : {35}, value : Types],
    HeaderDefaults <- Content(HeaderSettings),
    MessageDefaults <- [type \in DOMAIN MessageSettings |->
                           Content(Numeric(MessageSettings[type]))],
    LogonDefaults <- {Field(98, EncryptType), Field(108, HbInterval)},
    content <- Content(FieldsOf(header) \o FieldsOf(body) \o FieldsOf(trailer)),
    rendered <- Content(text),
    number <- seqNo

\* The three sorted maps with their settings, stamps and partial failures are the
\* set of fields that MessageContent promises: each conversion of an object that may
\* have been converted, changed or given up before carries the settings for its type,
\* the number and the time of this conversion, over the fields it had before it: of
\* those none is lost, not even the settings of another type it was converted as.
ContentPromised == Promise!Spec
=============================================================================
