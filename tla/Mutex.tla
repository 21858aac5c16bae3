-------------------------------- MODULE Mutex --------------------------------
(****************************************************************************)
(* What the storage lock of slhwid/_store.py promises its callers: a lock   *)
(* is a place that at most one holder occupies, until it breaks.            *)
(* StorageLock implements it, whatever crashes, stalls or fails, and breaks *)
(* it only where one of its windows is hit (its property ImplementsMutex).  *)
(****************************************************************************)
CONSTANT Holders
VARIABLES
  holding,     \* those inside the "with store.lock()" block
  broken       \* the lock does not exclude any more

Init == holding = {} /\ broken = FALSE

\* The caller of _acquire_lock gets the lock: nobody else has it.
Enter(h) ==
  /\ holding = {} \/ broken
  /\ holding' = holding \cup {h}
  /\ UNCHANGED broken

\* The release function of a holder has run, or a process has died with its holders.
Leave ==
  /\ holding' \subseteq holding
  /\ UNCHANGED broken

\* A lock file that was in use has been deleted.
Break ==
  /\ broken' = TRUE
  /\ holding' \subseteq holding

Next == (\E h \in Holders : Enter(h)) \/ Leave \/ Break

Spec == Init /\ [][Next]_<<holding, broken>>
==============================================================================
