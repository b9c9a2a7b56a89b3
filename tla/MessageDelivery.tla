-------------------------- MODULE MessageDelivery --------------------------
(***************************************************************************)
(* What receiving the messages of a FIX session promises: each message the *)
(* peer has sent, if its type is one the adaptor knows, is delivered once, *)
(* in the order of sending.                                                *)
(***************************************************************************)
EXTENDS Naturals, Sequences

CONSTANTS
    Messages,    \* the messages a peer may send
    Known(_)     \* is the type of this message one the adaptor knows?

VARIABLES
    sent,        \* the messages the peer has sent
    taken,       \* how many of them were taken from the connection
    delivered    \* the messages the application got

vars == <<sent, taken, delivered>>

Init == sent = <<>> /\ taken = 0 /\ delivered = <<>>

PeerSends(m) ==
    /\ sent' = Append(sent, m)
    /\ UNCHANGED <<taken, delivered>>

\* The next message is delivered, or passed over if its type is unknown.
Take ==
    /\ taken < Len(sent)
    /\ taken' = taken + 1
    /\ delivered' = IF Known(sent[taken']) THEN Append(delivered, sent[taken'])
                                           ELSE delivered
    /\ UNCHANGED sent

Next == Take \/ \E m \in Messages : PeerSends(m)

Spec == Init /\ [][Next]_vars
=============================================================================
