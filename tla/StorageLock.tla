----------------------------- MODULE StorageLock -----------------------------
(****************************************************************************)
(* The cross-process lock file of slhwid/_store.py: _acquire_lock, the      *)
(* release function it returns, and _remove_if_unchanged, through which     *)
(* both a release and the recovery of a stale lock delete the file.         *)
(*                                                                          *)
(* An attempt is one call of _acquire_lock with its own nonce; it belongs   *)
(* to a process.  Every system call is a step of its own, so the attempts   *)
(* of several processes, and of several threads of one, interleave between  *)
(* a read of the lock file and what is done with the result.                *)
(*                                                                          *)
(* Time passes in ticks of about _LOCK_WAIT_SECONDS: Wait ticks bound an    *)
(* attempt, and Grace ticks is the age from which a lock file without a     *)
(* readable owner counts as abandoned.                                      *)
(****************************************************************************)
EXTENDS Integers, FiniteSets

CONSTANTS
  Attempts,   \* calls of _acquire_lock, each with a nonce of its own
  Pids,       \* process ids
  PidOf,      \* the process an attempt runs in
  Wait,       \* _LOCK_WAIT_SECONDS, in ticks
  Grace,      \* _UNKNOWN_LOCK_GRACE_SECONDS, in ticks
  Faults,     \* the faults this instance admits
  NoFile      \* the path does not exist

\* crash: a process dies between two steps     io: create, read or write fails
\* stall: a step may outlast a tick            share: a file cannot be unlinked
\* reuse: the id of a dead process is given    while somebody has it open
\*        to a new one
FaultKinds == {"crash", "io", "stall", "share", "reuse"}

\* by identifies the file that an attempt created; full says whether its
\* three lines are in it (an empty file does not tell whose it is).
Files == [by : Attempts, full : BOOLEAN]

ASSUME ConstantsAssumption ==
  /\ PidOf \in [Attempts -> Pids]
  /\ Wait \in Nat
  /\ Grace \in Nat \ {0}
  /\ Faults \subseteq FaultKinds
  /\ NoFile \notin Files

VARIABLES
  file,       \* the directory entry of the lock
  age,        \* ticks since the file was created, counted up to Grace
  alive,      \* whether some process has this id
  pc,         \* where each attempt is
  patience,   \* ticks left until an attempt's deadline
  seen,       \* what an attempt last read, or wrote as its own
  breach      \* history: how a lock that was in use got deleted, if ever

vars == <<file, age, alive, pc, patience, seen, breach>>

Holding == {"held", "relcheck", "relunlink"}
Exited == {"done", "timeout", "failed", "crashed"}
Acquiring == {"create", "write", "read", "judge", "recheck", "unlink", "wait"}
Labels == {"idle"} \cup Acquiring \cup Holding \cup Exited

\* Steps the code does back to back: nothing in them waits.
Brief == {"write", "judge", "recheck", "unlink"}

Own(a, full) == [by |-> a, full |-> full]

\* Equality of contents: two empty files read the same.
SameText(f, g) == f.full = g.full /\ (f.full => f.by = g.by)

Goto(a, label) == pc' = [pc EXCEPT ![a] = label]

------------------------------------------------------------------------------
Init ==
  /\ file = NoFile
  /\ age = 0
  /\ alive = [p \in Pids |-> TRUE]
  /\ pc = [a \in Attempts |-> "idle"]
  /\ patience = [a \in Attempts |-> 0]
  /\ seen = [a \in Attempts |-> NoFile]
  /\ breach = {}

Start(a) ==
  /\ pc[a] = "idle" /\ alive[PidOf[a]]
  /\ Goto(a, "create")
  /\ patience' = [patience EXCEPT ![a] = Wait]
  /\ UNCHANGED <<file, age, alive, seen, breach>>

\* Mutant of Create: the lock file is opened without O_EXCL.
CreateShared(a) ==
  /\ pc[a] = "create"
  /\ file' = Own(a, FALSE) /\ age' = 0
  /\ Goto(a, "write")
  /\ UNCHANGED <<alive, patience, seen, breach>>

\* os.open with O_CREAT | O_EXCL
Create(a) ==
  /\ pc[a] = "create"
  /\ \/ /\ file = NoFile
        /\ file' = Own(a, FALSE) /\ age' = 0
        /\ Goto(a, "write")
     \/ /\ file # NoFile
        /\ Goto(a, "read")
        /\ UNCHANGED <<file, age>>
  /\ UNCHANGED <<alive, patience, seen, breach>>

CreateFails(a) ==
  /\ "io" \in Faults /\ pc[a] = "create"
  /\ Goto(a, "failed")
  /\ UNCHANGED <<file, age, alive, patience, seen, breach>>

\* The three lines reach the file that was created, which need not be the
\* one at the path any more.
Write(a) ==
  /\ pc[a] = "write"
  /\ file' = IF file = Own(a, FALSE) THEN Own(a, TRUE) ELSE file
  /\ age' = IF file = Own(a, FALSE) THEN 0 ELSE age
  /\ Goto(a, "held")
  /\ seen' = [seen EXCEPT ![a] = Own(a, TRUE)]
  /\ UNCHANGED <<alive, patience, breach>>

\* The file was created and stays: without its lines, or, when it is a flush or the
\* close that fails, perhaps with them.
WriteFails(a) ==
  /\ "io" \in Faults /\ pc[a] = "write"
  /\ Goto(a, "failed")
  /\ \/ UNCHANGED <<file, age>>
     \/ file = Own(a, FALSE) /\ file' = Own(a, TRUE) /\ age' = 0
  /\ UNCHANGED <<alive, patience, seen, breach>>

Unreadable == file # NoFile /\ "io" \in Faults

\* Mutant of Read: a lock that is gone or cannot be read is judged as an ownerless one.
ReadUnchecked(a) ==
  /\ pc[a] = "read" /\ Goto(a, "judge")
  /\ \/ file # NoFile /\ seen' = [seen EXCEPT ![a] = file]
     \/ (file = NoFile \/ Unreadable) /\ seen' = [seen EXCEPT ![a] = NoFile]
  /\ UNCHANGED <<file, age, alive, patience, breach>>

\* _read_lock
Read(a) ==
  /\ pc[a] = "read"
  /\ \/ /\ file # NoFile
        /\ seen' = [seen EXCEPT ![a] = file]
        /\ Goto(a, "judge")
     \/ /\ file = NoFile \/ Unreadable
        /\ Goto(a, "wait")
        /\ UNCHANGED seen
  /\ UNCHANGED <<file, age, alive, patience, breach>>

\* Mutant of Stale: any lock that is old enough is stale, as for an empty one.
StaleByAge(a) == file # NoFile /\ age >= Grace

\* Mutant of Stale: only an old empty lock is stale.
StaleIfEmpty(a) == ~ seen[a].full /\ file # NoFile /\ age >= Grace

\* A complete lock is stale when its process is gone; an empty one when the
\* file that is at the path now is old enough.
Stale(a) == IF seen[a].full THEN ~ alive[PidOf[seen[a].by]]
                            ELSE file # NoFile /\ age >= Grace

Judge(a) ==
  /\ pc[a] = "judge"
  /\ Goto(a, IF Stale(a) THEN "recheck" ELSE "wait")
  /\ UNCHANGED <<file, age, alive, patience, seen, breach>>

\* _remove_if_unchanged, its read and its comparison, for a recovery (then
\* the loop goes on at os.open) and for a release.
Reread(a, from, unlink, leave) ==
  /\ pc[a] = from
  /\ \/ /\ file # NoFile
        /\ Goto(a, IF SameText(file, seen[a]) THEN unlink ELSE leave)
     \/ /\ file = NoFile \/ Unreadable
        /\ Goto(a, leave)
  /\ UNCHANGED <<file, age, alive, patience, seen, breach>>

\* Another attempt has the file open, to write it or to read it, on a system
\* that refuses to delete an open file.
Denied(a) ==
  /\ "share" \in Faults /\ file # NoFile
  /\ \E b \in Attempts \ {a} : pc[b] \in {"write", "read", "recheck", "relcheck"}

\* How unlinking what is at the path now ends a use of the lock: the file is
\* not the one that was read, or it is that of a creator still writing it.
Harm(a) ==
  IF file = NoFile THEN {}
  ELSE IF file # seen[a] THEN {"swap"}
  ELSE IF ~ file.full /\ pc[file.by] = "write" THEN {"grace"} ELSE {}

\* os.unlink(path), whatever the path names by now
Unlink(a, from, leave) ==
  /\ pc[a] = from
  /\ Goto(a, leave)
  /\ \/ file' = NoFile /\ breach' = breach \cup Harm(a)
     \/ Denied(a) /\ UNCHANGED <<file, breach>>
  /\ UNCHANGED <<age, alive, patience, seen>>

\* Mutant of WaitStep: the loop does not look at its deadline.
WaitForever(a) ==
  /\ pc[a] = "wait"
  /\ Goto(a, "create")
  /\ UNCHANGED <<file, age, alive, patience, seen, breach>>

\* The end of the loop body: deadline, then sleep.
WaitStep(a) ==
  /\ pc[a] = "wait"
  /\ Goto(a, IF patience[a] = 0 THEN "timeout" ELSE "create")
  /\ UNCHANGED <<file, age, alive, patience, seen, breach>>

\* The "with" block ends and calls the release function.
Release(a) ==
  /\ pc[a] = "held"
  /\ Goto(a, "relcheck")
  /\ UNCHANGED <<file, age, alive, patience, seen, breach>>

AcquireStep(a) ==
  \/ Create(a) \/ Write(a) \/ Read(a) \/ Judge(a)
  \/ Reread(a, "recheck", "unlink", "create") \/ Unlink(a, "unlink", "create")
  \/ WaitStep(a)

ReleaseStep(a) ==
  \/ Release(a)
  \/ Reread(a, "relcheck", "relunlink", "done") \/ Unlink(a, "relunlink", "done")

\* A process dies: its attempts end where they are.
Crash(p) ==
  /\ "crash" \in Faults /\ alive[p]
  /\ alive' = [alive EXCEPT ![p] = FALSE]
  /\ pc' = [a \in Attempts |->
              IF PidOf[a] = p /\ pc[a] \in Acquiring \cup Holding
              THEN "crashed" ELSE pc[a]]
  /\ UNCHANGED <<file, age, patience, seen, breach>>

Reuse(p) ==
  /\ "reuse" \in Faults /\ ~ alive[p]
  /\ alive' = [alive EXCEPT ![p] = TRUE]
  /\ UNCHANGED <<file, age, pc, patience, seen, breach>>

Tick ==
  /\ "stall" \in Faults \/ \A a \in Attempts : pc[a] \notin Brief
  /\ patience' = [a \in Attempts |-> IF patience[a] = 0 THEN 0 ELSE patience[a] - 1]
  /\ age' = IF age < Grace THEN age + 1 ELSE age
  /\ UNCHANGED <<file, alive, pc, seen, breach>>

Next ==
  \/ \E a \in Attempts : \/ Start(a) \/ AcquireStep(a) \/ ReleaseStep(a)
                         \/ CreateFails(a) \/ WriteFails(a)
  \/ \E p \in Pids : Crash(p) \/ Reuse(p)
  \/ Tick

Spec == Init /\ [][Next]_vars

\* A live attempt keeps running, and time passes (with "stall" among the faults
\* nothing holds time up).
FairSpec ==
  Spec /\ (\A a \in Attempts : WF_vars(AcquireStep(a))) /\ WF_vars(Tick)

------------------------------------------------------------------------------
VarsOK ==
  /\ file \in Files \cup {NoFile}
  /\ age \in 0 .. Grace
  /\ alive \in [Pids -> BOOLEAN]
  /\ pc \in [Attempts -> Labels]
  /\ patience \in [Attempts -> 0 .. Wait]
  /\ seen \in [Attempts -> Files \cup {NoFile}]
  /\ breach \subseteq {"swap", "grace"}

Holders == {a \in Attempts : pc[a] \in Holding}

\* A step that goes by what it read has read something.
SeenIsAFile == \A a \in Attempts : pc[a] \in {"judge", "recheck", "unlink"} => seen[a] # NoFile

\* What a holder last wrote, and will compare in its release, is its own complete file.
HoldersSawTheirs == \A a \in Holders : seen[a] = Own(a, TRUE)

\* Every variable has its type, also where the attempt that uses it is: what is judged,
\* compared and unlinked is a lock that was read (_store.py:107), or, in a release, the
\* attempt's own.
TypeOK == VarsOK /\ SeenIsAFile /\ HoldersSawTheirs

\* At most one attempt is inside the "with store.lock()" block.
MutualExclusion == \A a, b \in Holders : a = b

\* Whatever crashes, stalls and fails, two attempts are inside the block only
\* after one of two windows of _remove_if_unchanged and of the grace period was
\* hit: an unlink of a file that is not the one that was read, or of one whose
\* creator had not written it for Grace ticks.  There is no third way.
SafeUnlessBreached == breach = {} => MutualExclusion

\* A recovery that read a complete lock is after a lock whose attempt has ended:
\* the pid in it was dead, and a recycled pid does not bring the attempt back.
RecoversOnlyTheDead ==
  \A a \in Attempts :
    pc[a] \in {"recheck", "unlink"} /\ seen[a].full => pc[seen[a].by] \in Exited

\* A holder's own lock file is at the path for as long as it holds the lock,
\* so that no other process finds the path free (unless breached).
HolderIsOnDisk ==
  breach = {} => \A a \in Holders : file = Own(a, TRUE)

\* The lock file of a live process disappears only by the release of the
\* attempt that wrote it (unless the lock is breached in that step or before).
OnlyOwnerRemoves ==
  [][ \A b \in Attempts :
        file = Own(b, TRUE) /\ file' # file /\ breach' = {} =>
          pc[b] = "relunlink" \/ pc[b] \in Exited ]_vars

\* A call of _acquire_lock ends: it returns the lock or raises, "busy" at the
\* latest when the deadline is past, unless its process dies.
Settles ==
  \A a \in Attempts : pc[a] = "create" ~> pc[a] \in Holding \cup Exited

\* The lock of a dead process does not outlive the next attempt to take it:
\* the attempt removes it, or somebody else has.
AbandonedIsRecovered ==
  \A a, b \in Attempts :
    pc[a] = "create" /\ file = Own(b, TRUE) /\ ~ alive[PidOf[b]]
      ~> file # Own(b, TRUE) \/ pc[a] = "crashed"

\* After a release the attempt's lock file is gone.
ReleaseRemoves == \A a \in Attempts : pc[a] = "done" => file # Own(a, TRUE)

\* The lock file is a lock whatever crashes, stalls and fails: an attempt gets into the
\* block only when nobody else is in it, until a lock in use has been deleted.
Lock == INSTANCE Mutex WITH Holders <- Attempts, holding <- Holders, broken <- breach # {}
ImplementsMutex == Lock!Spec
==============================================================================
