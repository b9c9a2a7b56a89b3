------------------------- MODULE MCChannelHeartbeat -------------------------
(* Small instances of ChannelHeartbeat for TLC. *)
EXTENDS ChannelHeartbeat, TLC
=============================================================================
