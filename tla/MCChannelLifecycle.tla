------------------------- MODULE MCChannelLifecycle -------------------------
(* Small instances of ChannelLifecycle for TLC. *)
EXTENDS ChannelLifecycle, TLC
=============================================================================
