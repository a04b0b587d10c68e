------------------------------ MODULE MCFileLock ------------------------------
(* FileLock for TLC: two calls, and a lockfile that may be there before them *)
(* (a record that ages, a text that is no record, or a record from a clock   *)
(* that runs ahead).                                                         *)
EXTENDS FileLock

CONSTANTS c1, c2
=============================================================================
