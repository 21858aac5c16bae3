------------------------- MODULE MCInvisibleFolder --------------------------
(* An instance of InvisibleFolder for TLC: three threads and two revisions. *)
EXTENDS InvisibleFolder, TLC

CONSTANTS c1, c2, c3

Threads == Permutations(Calls)
==============================================================================
