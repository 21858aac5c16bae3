---------------------------- MODULE ClientThreads ----------------------------
(****************************************************************************)
(* The threads of one program that share a Client (client.py) in the        *)
(* "sl-hwid" mode: its _lock, the one session it prepares and caches, and   *)
(* Session.commit (slhwid/__init__.py), which runs without that lock when   *)
(* the server has accepted an authentication.                               *)
(*                                                                          *)
(* A call of a thread is an authentication, or a question or a reset that   *)
(* names the HWID as well but leads to no commit, or a request without it.  *)
(* The attributes of the session that commit reads and writes (_committed,  *)
(* _key) are read and written in steps of their own, between which other    *)
(* threads run.  The storage lock is taken here as a lock that other        *)
(* programs hold as well, each time for as long as they like; they may      *)
(* write the helper or enroll the device anew while they hold it.           *)
(****************************************************************************)
EXTENDS Integers, FiniteSets

CONSTANTS
  Threads,
  MaxCalls,     \* bound: calls of a thread
  MaxOthers,    \* bound: times another program takes the storage lock
  Nobody, Other

ASSUME ThreadsAssumption ==
  /\ MaxCalls \in Nat \ {0} /\ MaxOthers \in Nat
  /\ Nobody \notin Threads \cup {Other} /\ Other \notin Threads

VARIABLES
  lock,       \* Client._lock: the thread that holds it
  session,    \* Client._slhwid_session: its HWID, by number; 0 is None
  committed,  \* Session._committed
  key,        \* whether Session._key is there
  expected,   \* Session._expected_helper, as a version of the helper
  storeLock,  \* who holds the storage lock
  helper,     \* the version of the helper on disk: 0 is none, each write a new one
  identity,   \* the HWID that the helper on disk encodes
  pc, carried,  \* where each thread is, and the HWID of its request
  asks,       \* the threads in a call that is no authentication
  calls, others,
  raced,      \* history: a thread wiped the key of a commit under way
  excused     \* history: the storage was busy or failed a commit

client == <<lock, session, committed, key, expected>>
disk == <<storeLock, helper, identity, others>>
vars == <<client, disk, pc, carried, asks, calls, raced, excused>>

Ended == {"idle", "returned", "raised"}
Refreshing == {"mark", "enter", "compare", "refresh"}
Labels == Ended \cup Refreshing \cup {"resolve", "prepare", "post", "sent", "accepted", "check", "wipe"}

Goto(t, label) == pc' = [pc EXCEPT ![t] = label]

Init ==
  /\ lock = Nobody /\ session = 0 /\ committed = FALSE /\ key = FALSE /\ expected = 0
  /\ storeLock = Nobody /\ helper \in {0, 1} /\ identity = helper /\ others = 0
  /\ pc = [t \in Threads |-> "idle"] /\ carried = [t \in Threads |-> 0] /\ asks = {}
  /\ calls = [t \in Threads |-> 0]
  /\ raced = FALSE /\ excused = FALSE

Begins(t) ==
  /\ pc[t] \in Ended /\ calls[t] < MaxCalls
  /\ calls' = [calls EXCEPT ![t] = @ + 1]
  /\ carried' = [carried EXCEPT ![t] = 0]
  /\ UNCHANGED <<client, disk, raced, excused>>

\* authenticate_with_key or authenticate_with_password
Call(t) == Begins(t) /\ Goto(t, "resolve") /\ UNCHANGED asks

\* An expiration or a reset of the HWID; or a variable, a call of the management API or
\* a download, which do without the device.
Ask(t) == Begins(t) /\ asks' = asks \cup {t} /\ (Goto(t, "resolve") \/ Goto(t, "post"))

------------------------------------------------------------------------------
(* _prepare_slhwid, all of it under Client._lock.                            *)

\* Mutant of Resolve: each call prepares a session of its own.
ResolveAnew(t) ==
  /\ pc[t] = "resolve" /\ lock = Nobody
  /\ lock' = t /\ Goto(t, "prepare") /\ UNCHANGED carried
  /\ UNCHANGED <<session, committed, key, expected, disk, asks, calls, raced, excused>>

Resolve(t) ==
  /\ pc[t] = "resolve" /\ lock = Nobody
  /\ \/ /\ session # 0
        /\ carried' = [carried EXCEPT ![t] = session]
        /\ Goto(t, "post") /\ UNCHANGED lock
     \/ /\ session = 0
        /\ lock' = t
        /\ Goto(t, "prepare") /\ UNCHANGED carried
  /\ UNCHANGED <<session, committed, key, expected, disk, asks, calls, raced, excused>>

\* The storage lock is free; prepare recovers the identity, or enrolls one.
Prepare(t) ==
  /\ pc[t] = "prepare" /\ storeLock = Nobody
  /\ IF helper = 0 THEN helper' = 1 /\ identity' = 1 ELSE UNCHANGED <<helper, identity>>
  /\ session' = identity' /\ committed' = FALSE /\ key' = TRUE /\ expected' = helper'
  /\ carried' = [carried EXCEPT ![t] = identity']
  /\ lock' = Nobody
  /\ Goto(t, "post")
  /\ UNCHANGED <<storeLock, others, asks, calls, raced, excused>>

\* Mutant of PrepareRaises: an error leaves the lock taken.
PrepareRaisesLocked(t) ==
  /\ pc[t] = "prepare"
  /\ Goto(t, "raised")
  /\ UNCHANGED <<client, disk, carried, asks, calls, raced, excused>>

\* Busy storage, drifted hardware, a corrupt helper: nothing is cached.  An enrollment
\* may raise after its helper is on disk, from the chmod that follows the write.
PrepareRaises(t) ==
  /\ pc[t] = "prepare"
  /\ lock' = Nobody /\ asks' = asks \ {t}
  /\ Goto(t, "raised")
  /\ \/ UNCHANGED <<helper, identity>>
     \/ storeLock = Nobody /\ helper = 0 /\ helper' = 1 /\ identity' = 1
  /\ UNCHANGED <<session, committed, key, expected, storeLock, others, carried, calls, raced, excused>>

------------------------------------------------------------------------------
\* request: the http property takes Client._lock for a moment.
Post(t) ==
  /\ pc[t] = "post" /\ lock = Nobody
  /\ Goto(t, "sent")
  /\ UNCHANGED <<client, disk, carried, asks, calls, raced, excused>>

\* The server accepts or rejects, or no answer arrives before the timeout.
Answer(t) ==
  /\ pc[t] = "sent"
  /\ Goto(t, IF t \in asks THEN "returned" ELSE "accepted") \/ Goto(t, "raised")
  /\ asks' = asks \ {t}
  /\ UNCHANGED <<client, disk, carried, calls, raced, excused>>

\* _commit_slhwid reads the session under Client._lock.
FetchSession(t) ==
  /\ pc[t] = "accepted" /\ lock = Nobody
  /\ Goto(t, "check")
  /\ UNCHANGED <<client, disk, carried, asks, calls, raced, excused>>

------------------------------------------------------------------------------
(* Session.commit                                                            *)

\* A session that is committed already gives up its key, also if the commit
\* is that of another thread and not finished.
Check(t) ==
  /\ pc[t] = "check"
  /\ \/ /\ committed \/ ~ key
        /\ key' = FALSE
        /\ raced' = (raced \/ (key /\ \E u \in Threads : pc[u] \in Refreshing))
        /\ Goto(t, "returned")
     \/ /\ ~ committed /\ key
        /\ Goto(t, "mark")
        /\ UNCHANGED <<key, raced>>
  /\ UNCHANGED <<lock, session, committed, expected, disk, carried, asks, calls, excused>>

Mark(t) ==
  /\ pc[t] = "mark"
  /\ committed' = TRUE
  /\ Goto(t, "enter")
  /\ UNCHANGED <<lock, session, key, expected, disk, carried, asks, calls, raced, excused>>

Enter(t) ==
  /\ pc[t] = "enter" /\ storeLock = Nobody
  /\ storeLock' = t
  /\ Goto(t, "compare")
  /\ UNCHANGED <<client, helper, identity, others, carried, asks, calls, raced, excused>>

\* Somebody has had the storage lock for all of the time that commit waits.
EnterBusy(t) ==
  /\ pc[t] = "enter" /\ storeLock # Nobody
  /\ excused' = TRUE
  /\ Goto(t, "wipe")
  /\ UNCHANGED <<client, disk, carried, asks, calls, raced>>

\* Mutant of Compare: the comparison is the wrong way round.
CompareInverted(t) ==
  /\ pc[t] = "compare"
  /\ \/ /\ helper # expected
        /\ Goto(t, "refresh") /\ UNCHANGED storeLock
     \/ /\ helper = expected
        /\ Goto(t, "wipe") /\ storeLock' = Nobody
  /\ UNCHANGED <<client, helper, identity, others, carried, asks, calls, raced, excused>>

Compare(t) ==
  /\ pc[t] = "compare"
  /\ \/ /\ helper = expected
        /\ Goto(t, "refresh") /\ UNCHANGED storeLock
     \/ /\ helper # expected
        /\ Goto(t, "wipe") /\ storeLock' = Nobody
  /\ UNCHANGED <<client, helper, identity, others, carried, asks, calls, raced, excused>>

\* Mutant of Refresh: the storage lock is not released.
RefreshLocked(t) ==
  /\ pc[t] = "refresh"
  /\ helper' = IF key THEN helper + 1 ELSE helper
  /\ Goto(t, "wipe")
  /\ UNCHANGED <<client, storeLock, identity, others, carried, asks, calls, raced, excused>>

\* refresh_core over the key that is there by now, and the write.  The factors
\* may not suffice, and the write may fail.  Without a key refresh_core raises
\* a TypeError, which _commit_slhwid swallows.
Refresh(t) ==
  /\ pc[t] = "refresh"
  /\ \/ key /\ helper' = helper + 1 /\ UNCHANGED excused
     \/ key /\ UNCHANGED helper /\ excused' = TRUE       \* nothing is written
     \/ ~ key /\ UNCHANGED <<helper, excused>>
  /\ storeLock' = Nobody
  /\ Goto(t, "wipe")
  /\ UNCHANGED <<client, identity, others, carried, asks, calls, raced>>

\* Mutant of Wipe: the key stays after the commit.
KeepKey(t) ==
  /\ pc[t] = "wipe"
  /\ Goto(t, "returned")
  /\ UNCHANGED <<client, disk, carried, asks, calls, raced, excused>>

\* The "finally" of commit.
Wipe(t) ==
  /\ pc[t] = "wipe"
  /\ key' = FALSE
  /\ Goto(t, "returned")
  /\ UNCHANGED <<lock, session, committed, expected, disk, carried, asks, calls, raced, excused>>

------------------------------------------------------------------------------
\* Another program prepares or commits: it may write the helper, or enroll.
OtherEnters ==
  /\ storeLock = Nobody /\ others < MaxOthers
  /\ storeLock' = Other /\ others' = others + 1
  /\ UNCHANGED <<client, helper, identity, pc, carried, asks, calls, raced, excused>>

OtherLeaves ==
  /\ storeLock = Other /\ storeLock' = Nobody
  /\ \/ UNCHANGED <<helper, identity>>
     \/ helper' = helper + 1 /\ identity' = identity + 1
     \/ helper # 0 /\ helper' = helper + 1 /\ UNCHANGED identity
  /\ UNCHANGED <<client, others, pc, carried, asks, calls, raced, excused>>

Step(t) ==
  \/ Resolve(t) \/ Prepare(t) \/ PrepareRaises(t) \/ Post(t) \/ Answer(t) \/ FetchSession(t)
  \/ Check(t) \/ Mark(t) \/ Enter(t) \/ EnterBusy(t) \/ Compare(t) \/ Refresh(t) \/ Wipe(t)

Next == (\E t \in Threads : Call(t) \/ Ask(t) \/ Step(t)) \/ OtherEnters \/ OtherLeaves

\* A thread that is in a call runs on; the other program may keep its lock.
Spec == Init /\ [][Next]_vars
FairSpec == Spec /\ \A t \in Threads : WF_vars(Step(t))

------------------------------------------------------------------------------
\* Every variable has its type; a lock is held only by a thread where the code
\* is inside the block that it guards.
TypeOK ==
  /\ lock \in Threads \cup {Nobody} /\ storeLock \in Threads \cup {Nobody, Other}
  /\ session \in Nat /\ expected \in Nat /\ helper \in Nat /\ identity \in Nat
  /\ committed \in BOOLEAN /\ key \in BOOLEAN /\ raced \in BOOLEAN /\ excused \in BOOLEAN
  /\ pc \in [Threads -> Labels] /\ carried \in [Threads -> Nat] /\ asks \subseteq Threads
  /\ calls \in [Threads -> 0 .. MaxCalls] /\ others \in 0 .. MaxOthers
  /\ \A t \in Threads : /\ lock = t <=> pc[t] = "prepare"
                        /\ storeLock = t <=> pc[t] \in {"compare", "refresh"}

\* All requests of a Client that carry a HWID carry one, authentications, questions and
\* resets, whatever another program does to the store between them and whichever thread
\* prepares first.
OneHwid ==
  \A t, u \in Threads : carried[t] # 0 /\ carried[u] # 0 => carried[t] = carried[u]

Settled == \A t \in Threads : pc[t] \notin Refreshing

\* Once a commit is over, successful or not, no thread finds the key.
KeyIsGone == committed /\ (\A t \in Threads : pc[t] \notin Refreshing \cup {"wipe"}) => ~ key

\* After a commit the helper is not the one prepare read: either this session
\* re-shared it or another program has.  The exceptions are a storage that was
\* busy or failed, and a thread that took the key away meanwhile.
RefreshedUnlessRaced == committed /\ Settled /\ ~ excused /\ ~ raced => helper # expected

\* "drifted factors are quietly re-absorbed after each successful
\* authentication" (README.md), of a Client that is "Thread-safe" (client.py).
QuietlyReabsorbed == committed /\ Settled /\ ~ excused => helper # expected

\* Every call returns or raises: waiting for the lock of the Client, which
\* a prepare holds while it waits for the storage, ends.
Returns == \A t \in Threads : pc[t] \notin Ended ~> pc[t] \in Ended
==============================================================================
