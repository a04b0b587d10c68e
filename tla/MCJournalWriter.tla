--------------------------- MODULE MCJournalWriter ---------------------------
(* JournalWriter for TLC: two sinks that share one process's writer, a sink  *)
(* of a second process, and one row from before the chain.  The cutoff falls *)
(* between the stamps, so that a prune may take nothing but the old row, a   *)
(* part of the chain, or everything.                                         *)
EXTENDS JournalWriter

CONSTANTS a1, a2, b1, old, s1, s2, s3, p1, p2

Stamps == [r \in Records |-> CASE r = old -> 0 [] r \in {a1, b1} -> 1 [] OTHER -> 2]
Hosts == [s \in Sinks |-> IF s = s3 THEN p2 ELSE p1]
SinkOfRecord == [r \in Records |-> CASE r = a1 -> s1 [] r = a2 -> s2 [] r = b1 -> s3 [] OTHER -> NoSink]
OneOld == <<old>>
=============================================================================
