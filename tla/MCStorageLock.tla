---------------------------- MODULE MCStorageLock ----------------------------
(****************************************************************************)
(* Instances of StorageLock for TLC: three attempts, one of which shares    *)
(* its process with another (two threads of one program).                   *)
(****************************************************************************)
EXTENDS StorageLock, TLC

CONSTANTS a1, a2, a3, p1, p2, p3

\* a1 and a3 run in one process
TwoProcesses == [a \in Attempts |-> IF a = a2 THEN p2 ELSE p1]
\* three programs
ThreeProcesses == (a1 :> p1) @@ (a2 :> p2) @@ (a3 :> p3)
==============================================================================
