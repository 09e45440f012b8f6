---------------------------- MODULE MC_LogFiles ----------------------------
(* Small instances of the log for TLC: its threads are alike, and no       *)
(* property that is checked is about a particular one.                     *)
EXTENDS LogFiles, TLC

ThreadSymmetry == Permutations(Threads)
=============================================================================
