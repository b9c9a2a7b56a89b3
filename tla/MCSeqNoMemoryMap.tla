-------------------------- MODULE MCSeqNoMemoryMap --------------------------
(* Small instances of SeqNoMemoryMap for TLC. *)
EXTENDS SeqNoMemoryMap, TLC

\* No file yet, and a file of an earlier process.
FreshOrUsed == {0, 3}

\* ... and one that an earlier process left after its int had wrapped.
FreshUsedOrWrapped == {0, 3, -4}
=============================================================================
