---------------------------- MODULE MessageContent ----------------------------
(***************************************************************************)
(* What a message promises whoever fills and sends it: it is a set of      *)
(* fields, one for each tag, from which nothing is lost but what is        *)
(* removed or replaced, and what a conversion makes of it has exactly      *)
(* these fields: those of the settings over those it had, whoever gave     *)
(* them, the logon's over those, and over all a new number and the time.   *)
(*                                                                         *)
(* Body length and checksum are no part of the content.                    *)
(***************************************************************************)
EXTENDS Naturals

CONSTANTS
    Fields,            \* what may be set
    HeaderDefaults,    \* fields of fixHeader
    MessageDefaults,   \* fields of fixMessage, for each type that has one
    LogonType, LogonDefaults,
    Times

VARIABLES content, rendered, number

Tags(fields) == {f.tag : f \in fields}
Over(upper, lower) == upper \cup {f \in lower : f.tag \notin Tags(upper)}

Named(c) == Over(HeaderDefaults, c)
HasType(c) == 35 \in Tags(Named(c))
TypeOf(c) == (CHOOSE f \in Named(c) : f.tag = 35).value
LogonFields(type) == IF type = LogonType THEN LogonDefaults ELSE {}
MessageFields(type) ==
    IF type \in DOMAIN MessageDefaults THEN MessageDefaults[type] ELSE {}
ForType(type) == Over(LogonFields(type), MessageFields(type))
Stamps(time) == {[tag |-> 34, value |-> number], [tag |-> 52, value |-> time]}
Converted(c, time) == Over(Stamps(time), Over(ForType(TypeOf(c)), Named(c)))

Init ==
    /\ content \subseteq Fields
    /\ rendered = {}

Set(f) ==
    /\ content' = Over({f}, content)
    /\ UNCHANGED <<rendered, number>>

SetUnlessThere(f) ==
    /\ content' = Over(content, {f})
    /\ UNCHANGED <<rendered, number>>

Remove(tag) ==
    /\ content' = {f \in content : f.tag # tag}
    /\ UNCHANGED <<rendered, number>>

\* Made of what is left of a string that was rendered, or cleared.
Make ==
    /\ content' \subseteq rendered
    /\ UNCHANGED <<rendered, number>>

Render ==
    /\ rendered' = content
    /\ UNCHANGED <<content, number>>

Convert(time) ==
    /\ HasType(content)
    /\ content' = Converted(content, time)
    /\ rendered' = content'
    /\ number' = number + 1

\* A conversion that fails may leave defaults behind: no number is taken, and what
\* was given is lost only to a default.
Fail ==
    /\ Tags(content) \subseteq Tags(content')
    /\ content' \ content \subseteq
          HeaderDefaults \cup (IF HasType(content)
                              THEN LogonFields(TypeOf(content)) \cup MessageFields(TypeOf(content))
                              ELSE {})
    /\ UNCHANGED <<rendered, number>>

Next ==
    \/ \E f \in Fields : Set(f) \/ SetUnlessThere(f) \/ Remove(f.tag)
    \/ Make
    \/ Render
    \/ \E time \in Times : Convert(time)
    \/ Fail

Spec == Init /\ [][Next]_<<content, rendered, number>>
=============================================================================
