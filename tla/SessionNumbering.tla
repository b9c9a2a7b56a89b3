-------------------------- MODULE SessionNumbering --------------------------
(***************************************************************************)
(* What numbering the outgoing messages of a FIX session promises: numbers *)
(* are taken one after the other; each is either handed to the socket,     *)
(* once and in order, or forfeited, and a forfeited number is a gap.       *)
(* Only a session configured with resetSeqNo goes back to the first one.   *)
(***************************************************************************)
EXTENDS Integers, Sequences

CONSTANTS
    Begin,    \* the first number of a session
    Resets    \* does a start of the process go back to it?

VARIABLES
    next,     \* the number the next message gets
    wire      \* the numbers handed to the socket so far

vars == <<next, wire>>

Init ==
    /\ next \in Int
    /\ wire = <<>>

\* The next number is handed to the socket.
Transmit ==
    /\ wire' = Append(wire, next)
    /\ next' = next + 1

\* The next number is used up by a message that never reaches the socket.
Forfeit ==
    /\ next' = next + 1
    /\ UNCHANGED wire

\* The session starts over.
Reset ==
    /\ Resets
    /\ next' = Begin
    /\ UNCHANGED wire

Next == Transmit \/ Forfeit \/ Reset

Spec == Init /\ [][Next]_vars

-----------------------------------------------------------------------------
\* Without resets no number is ever handed out twice, nor out of order.
NeverReused == ~Resets => \A i, j \in DOMAIN wire : i < j => wire[i] < wire[j]

\* ... because the next number is above all numbers handed out.
NextIsFresh == ~Resets => \A i \in DOMAIN wire : wire[i] < next

\* The inductive invariant.
NumberingInv ==
    /\ next \in Int
    /\ wire \in Seq(Int)
    /\ NextIsFresh
    /\ NeverReused
=============================================================================
