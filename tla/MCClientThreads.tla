--------------------------- MODULE MCClientThreads ---------------------------
(****************************************************************************)
(* Instances of ClientThreads for TLC: up to three threads of one program.  *)
(****************************************************************************)
EXTENDS ClientThreads

CONSTANTS t1, t2, t3
==============================================================================
