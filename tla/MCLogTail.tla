------------------------------ MODULE MCLogTail ------------------------------
(* LogTail for TLC: lines of two pieces, so that the tailer meets half lines. *)
EXTENDS LogTail
=============================================================================
