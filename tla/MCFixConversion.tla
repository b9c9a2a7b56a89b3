-------------------------- MODULE MCFixConversion --------------------------
(* Small instances of FixConversion for TLC. *)
EXTENDS FixConversion, TLC

Header == <<[tag |-> 8, value |-> 42], [tag |-> 49, value |-> 7]>>

\* Settings under the logon's own field 98, of a heartbeat, with a tag that is no
\* number, and of the type that both can be given afterwards: so an object can be
\* converted as two types, and after a conversion that failed half way.
ByType ==
    5 :> <<[tag |-> 58, value |-> 1], [tag |-> 98, value |-> 9]>> @@
    0 :> <<[tag |-> 58, value |-> 2], [tag |-> -1, value |-> 3], [tag |-> 98, value |-> 4]>> @@
    120 :> <<[tag |-> 98, value |-> 4]>>

NotANumber == -1
=============================================================================
