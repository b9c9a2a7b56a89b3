--------------------------- MODULE MCFixSendPath ----------------------------
(* Small instances of FixSendPath for TLC. *)
EXTENDS FixSendPath, TLC

\* No file yet, and a file of an earlier process.
FreshOrUsed == {0, 3}
=============================================================================
