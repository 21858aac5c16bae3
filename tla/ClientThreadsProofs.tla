-------------------------- MODULE ClientThreadsProofs -------------------------
(****************************************************************************)
(* Theorems about ClientThreads for any number of threads and calls: the    *)
(* types and lock discipline, one HWID for all requests, no key left after  *)
(* a commit, and no refresh lost but to the race on the key or the storage. *)
(****************************************************************************)
EXTENDS ClientThreads, TLAPS

Unprepared == Ended \cup {"resolve", "prepare"}

\* A session is prepared once, by the thread that holds the lock, and is what
\* every later request carries; before, there are only requests that ask.
SessionInv ==
  /\ lock # Nobody => session = 0
  /\ session = 0 =>
       /\ ~ committed
       /\ \A t \in Threads : pc[t] \in Unprepared \/ (t \in asks /\ pc[t] \in {"post", "sent"})
  /\ \A t \in Threads : carried[t] # 0 => carried[t] = session
  /\ helper # 0 \/ session # 0 => identity # 0

\* Unless the key was taken away or the storage failed, a commit under way has
\* the key for as long as the helper is what prepare read, and only a commit
\* under way leaves it so.
RefreshInv ==
  /\ expected <= helper
  /\ ~ excused /\ ~ raced /\ helper = expected =>
       /\ \A t \in Threads : pc[t] \in Refreshing => key
       /\ \A t \in Threads : pc[t] # "wipe"
       /\ committed => \E t \in Threads : pc[t] \in Refreshing

ThreadInv == TypeOK /\ SessionInv /\ KeyIsGone /\ RefreshInv

------------------------------------------------------------------------------
\* No thread is in a call yet.
LEMMA InitThreadInv == Init => ThreadInv
<1> SUFFICES ASSUME Init PROVE ThreadInv
  OBVIOUS
<1>1. TypeOK
  <2>1. \A t \in Threads : pc[t] = "idle" /\ lock # t /\ storeLock # t
    BY ThreadsAssumption DEF Init
  <2>2. pc \in [Threads -> Labels]
    BY DEF Init, Labels, Ended
  <2>3. helper \in Nat /\ identity \in Nat /\ calls \in [Threads -> 0 .. MaxCalls]
        /\ carried \in [Threads -> Nat] /\ others \in 0 .. MaxOthers
    BY ThreadsAssumption DEF Init
  <2> QED
    BY <2>1, <2>2, <2>3 DEF Init, TypeOK
<1>2. SessionInv /\ KeyIsGone
  BY DEF Init, SessionInv, KeyIsGone, Unprepared, Ended
<1>3. RefreshInv
  BY DEF Init, RefreshInv, Refreshing
<1> QED
  BY <1>1, <1>2, <1>3 DEF ThreadInv

\* One lemma for each action of a thread: it keeps the invariant.
\* A call begins with the lock and the session as they are.
LEMMA CallInv ==
  ASSUME ThreadInv, NEW t \in Threads, Call(t)
  PROVE  ThreadInv'
<1>1. TypeOK'
  BY ThreadsAssumption DEF ThreadInv, TypeOK, Call, Begins, Goto, client, disk, Labels, Ended, Refreshing
<1>2. SessionInv'
  BY ThreadsAssumption
  DEF ThreadInv, TypeOK, SessionInv, Call, Begins, Goto, client, disk, Unprepared, Ended, Refreshing
<1>3. KeyIsGone'
  BY DEF ThreadInv, TypeOK, SessionInv, KeyIsGone, Call, Begins, Goto, client, disk, Ended, Refreshing
<1>4. RefreshInv'
  BY DEF ThreadInv, TypeOK, SessionInv, RefreshInv, Call, Begins, Goto, client, disk, Unprepared, Ended, Refreshing
<1> QED
  BY <1>1, <1>2, <1>3, <1>4 DEF ThreadInv

\* A question begins with the lock and the session as they are.
LEMMA AskInv ==
  ASSUME ThreadInv, NEW t \in Threads, Ask(t)
  PROVE  ThreadInv'
<1>1. TypeOK'
  BY ThreadsAssumption DEF ThreadInv, TypeOK, Ask, Begins, Goto, client, disk, Labels, Ended, Refreshing
<1>2. SessionInv'
  BY ThreadsAssumption
  DEF ThreadInv, TypeOK, SessionInv, Ask, Begins, Goto, client, disk, Unprepared, Ended, Refreshing
<1>3. KeyIsGone'
  BY DEF ThreadInv, TypeOK, SessionInv, KeyIsGone, Ask, Begins, Goto, client, disk, Ended, Refreshing
<1>4. RefreshInv'
  BY DEF ThreadInv, TypeOK, SessionInv, RefreshInv, Ask, Begins, Goto, client, disk, Unprepared, Ended, Refreshing
<1> QED
  BY <1>1, <1>2, <1>3, <1>4 DEF ThreadInv

\* A thread takes the Client's lock only when it is free, or the HWID that all have.
LEMMA ResolveInv ==
  ASSUME ThreadInv, NEW t \in Threads, Resolve(t)
  PROVE  ThreadInv'
<1>1. TypeOK'
  BY ThreadsAssumption DEF ThreadInv, TypeOK, Resolve, Goto, client, disk, Labels, Ended, Refreshing
<1>2. SessionInv'
  BY ThreadsAssumption
  DEF ThreadInv, TypeOK, SessionInv, Resolve, Goto, client, disk, Unprepared, Ended, Refreshing
<1>3. KeyIsGone'
  BY DEF ThreadInv, TypeOK, SessionInv, KeyIsGone, Resolve, Goto, client, disk, Ended, Refreshing
<1>4. RefreshInv'
  BY DEF ThreadInv, TypeOK, SessionInv, RefreshInv, Resolve, Goto, client, disk, Unprepared, Ended, Refreshing
<1> QED
  BY <1>1, <1>2, <1>3, <1>4 DEF ThreadInv

\* The first session: no other thread carries a HWID or is in a commit.
LEMMA PrepareInv ==
  ASSUME ThreadInv, NEW t \in Threads, Prepare(t)
  PROVE  ThreadInv'
<1>0. /\ pc[t] = "prepare" /\ storeLock = Nobody /\ lock = t /\ session = 0 /\ ~ committed
      /\ \/ helper = 0 /\ helper' = 1 /\ identity' = 1
         \/ helper # 0 /\ helper' = helper /\ identity' = identity
      /\ session' = identity' /\ committed' = FALSE /\ key' = TRUE /\ expected' = helper'
      /\ carried' = [carried EXCEPT ![t] = identity'] /\ lock' = Nobody
      /\ pc' = [pc EXCEPT ![t] = "post"]
      /\ UNCHANGED <<storeLock, others, asks, calls, raced, excused>>
  BY ThreadsAssumption DEF ThreadInv, TypeOK, SessionInv, Prepare, Goto
<1>1. TypeOK'
  <2>1. helper' \in Nat /\ identity' \in Nat
    BY <1>0 DEF ThreadInv, TypeOK
  <2>2. pc' \in [Threads -> Labels] /\ carried' \in [Threads -> Nat]
    BY <1>0, <2>1 DEF ThreadInv, TypeOK, Labels
  <2>3. \A u \in Threads : /\ lock' = u <=> pc'[u] = "prepare"
                           /\ storeLock' = u <=> pc'[u] \in {"compare", "refresh"}
    BY <1>0, ThreadsAssumption DEF ThreadInv, TypeOK
  <2> QED
    BY <1>0, <2>1, <2>2, <2>3 DEF ThreadInv, TypeOK
<1>2. SessionInv'
  <2>1. \A u \in Threads : carried[u] = 0
    BY <1>0 DEF ThreadInv, SessionInv
  <2>2. carried'[t] = session' /\ (\A u \in Threads : u # t => carried'[u] = 0)
    BY <1>0, <2>1 DEF ThreadInv, TypeOK
  <2>3. session' # 0
    BY <1>0 DEF ThreadInv, SessionInv
  <2> QED
    BY <1>0, <2>2, <2>3 DEF SessionInv
<1>3. KeyIsGone'
  BY <1>0 DEF KeyIsGone
<1>4. RefreshInv'
  BY <1>0 DEF ThreadInv, TypeOK, SessionInv, RefreshInv, Unprepared, Ended, Refreshing
<1> QED
  BY <1>1, <1>2, <1>3, <1>4, <1>0 DEF ThreadInv

\* The lock is released, and nothing is cached.
LEMMA PrepareRaisesInv ==
  ASSUME ThreadInv, NEW t \in Threads, PrepareRaises(t)
  PROVE  ThreadInv'
<1>1. TypeOK'
  BY ThreadsAssumption DEF ThreadInv, TypeOK, PrepareRaises, Goto, client, disk, Labels, Ended, Refreshing
<1>2. SessionInv'
  BY ThreadsAssumption
  DEF ThreadInv, TypeOK, SessionInv, PrepareRaises, Goto, client, disk, Unprepared, Ended, Refreshing
<1>3. KeyIsGone'
  BY DEF ThreadInv, TypeOK, SessionInv, KeyIsGone, PrepareRaises, Goto, client, disk, Ended, Refreshing
<1>4. RefreshInv'
  BY DEF ThreadInv, TypeOK, SessionInv, RefreshInv, PrepareRaises, Goto, client, disk, Unprepared, Ended, Refreshing
<1> QED
  BY <1>1, <1>2, <1>3, <1>4 DEF ThreadInv

\* A request goes out with what it carries.
LEMMA PostInv ==
  ASSUME ThreadInv, NEW t \in Threads, Post(t)
  PROVE  ThreadInv'
<1>1. TypeOK'
  BY ThreadsAssumption DEF ThreadInv, TypeOK, Post, Goto, client, disk, Labels, Ended, Refreshing
<1>2. SessionInv'
  BY ThreadsAssumption
  DEF ThreadInv, TypeOK, SessionInv, Post, Goto, client, disk, Unprepared, Ended, Refreshing
<1>3. KeyIsGone'
  BY DEF ThreadInv, TypeOK, SessionInv, KeyIsGone, Post, Goto, client, disk, Ended, Refreshing
<1>4. RefreshInv'
  BY DEF ThreadInv, TypeOK, SessionInv, RefreshInv, Post, Goto, client, disk, Unprepared, Ended, Refreshing
<1> QED
  BY <1>1, <1>2, <1>3, <1>4 DEF ThreadInv

\* An answer changes no attribute of the session.
LEMMA AnswerInv ==
  ASSUME ThreadInv, NEW t \in Threads, Answer(t)
  PROVE  ThreadInv'
<1>1. TypeOK'
  BY ThreadsAssumption DEF ThreadInv, TypeOK, Answer, Goto, client, disk, Labels, Ended, Refreshing
<1>2. SessionInv'
  BY ThreadsAssumption
  DEF ThreadInv, TypeOK, SessionInv, Answer, Goto, client, disk, Unprepared, Ended, Refreshing
<1>3. KeyIsGone'
  BY DEF ThreadInv, TypeOK, SessionInv, KeyIsGone, Answer, Goto, client, disk, Ended, Refreshing
<1>4. RefreshInv'
  BY DEF ThreadInv, TypeOK, SessionInv, RefreshInv, Answer, Goto, client, disk, Unprepared, Ended, Refreshing
<1> QED
  BY <1>1, <1>2, <1>3, <1>4 DEF ThreadInv

\* A commit starts with the session that was prepared.
LEMMA FetchSessionInv ==
  ASSUME ThreadInv, NEW t \in Threads, FetchSession(t)
  PROVE  ThreadInv'
<1>1. TypeOK'
  BY ThreadsAssumption DEF ThreadInv, TypeOK, FetchSession, Goto, client, disk, Labels, Ended, Refreshing
<1>2. SessionInv'
  BY ThreadsAssumption
  DEF ThreadInv, TypeOK, SessionInv, FetchSession, Goto, client, disk, Unprepared, Ended, Refreshing
<1>3. KeyIsGone'
  BY DEF ThreadInv, TypeOK, SessionInv, KeyIsGone, FetchSession, Goto, client, disk, Ended, Refreshing
<1>4. RefreshInv'
  BY DEF ThreadInv, TypeOK, SessionInv, RefreshInv, FetchSession, Goto, client, disk, Unprepared, Ended, Refreshing
<1> QED
  BY <1>1, <1>2, <1>3, <1>4 DEF ThreadInv

\* A key that is taken away from a commit under way is recorded in raced.
LEMMA CheckInv ==
  ASSUME ThreadInv, NEW t \in Threads, Check(t)
  PROVE  ThreadInv'
<1>1. TypeOK'
  BY ThreadsAssumption DEF ThreadInv, TypeOK, Check, Goto, client, disk, Labels, Ended, Refreshing
<1>2. SessionInv'
  BY ThreadsAssumption
  DEF ThreadInv, TypeOK, SessionInv, Check, Goto, client, disk, Unprepared, Ended, Refreshing
<1>3. KeyIsGone'
  BY DEF ThreadInv, TypeOK, SessionInv, KeyIsGone, Check, Goto, client, disk, Ended, Refreshing
<1>4. RefreshInv'
  BY DEF ThreadInv, TypeOK, SessionInv, RefreshInv, Check, Goto, client, disk, Unprepared, Ended, Refreshing
<1> QED
  BY <1>1, <1>2, <1>3, <1>4 DEF ThreadInv

\* From here to the refresh the helper is accounted for by RefreshInv.
LEMMA MarkInv ==
  ASSUME ThreadInv, NEW t \in Threads, Mark(t)
  PROVE  ThreadInv'
<1>1. TypeOK'
  BY ThreadsAssumption DEF ThreadInv, TypeOK, Mark, Goto, client, disk, Labels, Ended, Refreshing
<1>2. SessionInv'
  BY ThreadsAssumption
  DEF ThreadInv, TypeOK, SessionInv, Mark, Goto, client, disk, Unprepared, Ended, Refreshing
<1>3. KeyIsGone'
  BY DEF ThreadInv, TypeOK, SessionInv, KeyIsGone, Mark, Goto, client, disk, Ended, Refreshing
<1>4. RefreshInv'
  BY DEF ThreadInv, TypeOK, SessionInv, RefreshInv, Mark, Goto, client, disk, Unprepared, Ended, Refreshing
<1> QED
  BY <1>1, <1>2, <1>3, <1>4 DEF ThreadInv

\* The storage lock was free.
LEMMA EnterInv ==
  ASSUME ThreadInv, NEW t \in Threads, Enter(t)
  PROVE  ThreadInv'
<1>1. TypeOK'
  BY ThreadsAssumption DEF ThreadInv, TypeOK, Enter, Goto, client, disk, Labels, Ended, Refreshing
<1>2. SessionInv'
  BY ThreadsAssumption
  DEF ThreadInv, TypeOK, SessionInv, Enter, Goto, client, disk, Unprepared, Ended, Refreshing
<1>3. KeyIsGone'
  BY DEF ThreadInv, TypeOK, SessionInv, KeyIsGone, Enter, Goto, client, disk, Ended, Refreshing
<1>4. RefreshInv'
  BY DEF ThreadInv, TypeOK, SessionInv, RefreshInv, Enter, Goto, client, disk, Unprepared, Ended, Refreshing
<1> QED
  BY <1>1, <1>2, <1>3, <1>4 DEF ThreadInv

\* A busy storage excuses the refresh.
LEMMA EnterBusyInv ==
  ASSUME ThreadInv, NEW t \in Threads, EnterBusy(t)
  PROVE  ThreadInv'
<1>1. TypeOK'
  BY ThreadsAssumption DEF ThreadInv, TypeOK, EnterBusy, Goto, client, disk, Labels, Ended, Refreshing
<1>2. SessionInv'
  BY ThreadsAssumption
  DEF ThreadInv, TypeOK, SessionInv, EnterBusy, Goto, client, disk, Unprepared, Ended, Refreshing
<1>3. KeyIsGone'
  BY DEF ThreadInv, TypeOK, SessionInv, KeyIsGone, EnterBusy, Goto, client, disk, Ended, Refreshing
<1>4. RefreshInv'
  BY DEF ThreadInv, TypeOK, SessionInv, RefreshInv, EnterBusy, Goto, client, disk, Unprepared, Ended, Refreshing
<1> QED
  BY <1>1, <1>2, <1>3, <1>4 DEF ThreadInv

\* A helper that is another than the expected one need not be refreshed.
LEMMA CompareInv ==
  ASSUME ThreadInv, NEW t \in Threads, Compare(t)
  PROVE  ThreadInv'
<1>1. TypeOK'
  BY ThreadsAssumption DEF ThreadInv, TypeOK, Compare, Goto, client, disk, Labels, Ended, Refreshing
<1>2. SessionInv'
  BY ThreadsAssumption
  DEF ThreadInv, TypeOK, SessionInv, Compare, Goto, client, disk, Unprepared, Ended, Refreshing
<1>3. KeyIsGone'
  BY DEF ThreadInv, TypeOK, SessionInv, KeyIsGone, Compare, Goto, client, disk, Ended, Refreshing
<1>4. RefreshInv'
  BY DEF ThreadInv, TypeOK, SessionInv, RefreshInv, Compare, Goto, client, disk, Unprepared, Ended, Refreshing
<1> QED
  BY <1>1, <1>2, <1>3, <1>4 DEF ThreadInv

\* With the key there, the helper becomes another than the expected one, or the failure is excused.
LEMMA RefreshStepInv ==
  ASSUME ThreadInv, NEW t \in Threads, Refresh(t)
  PROVE  ThreadInv'
<1>1. TypeOK'
  <2>1. /\ pc[t] = "refresh" /\ pc' = [pc EXCEPT ![t] = "wipe"] /\ storeLock' = Nobody
        /\ storeLock = t /\ helper' \in {helper, helper + 1} /\ excused' \in BOOLEAN
        /\ UNCHANGED <<client, identity, others, carried, asks, calls, raced>>
    BY DEF ThreadInv, TypeOK, Refresh, Goto
  <2>2. pc' \in [Threads -> Labels] /\ helper' \in Nat
    BY <2>1 DEF ThreadInv, TypeOK, Labels
  <2>3. \A u \in Threads : /\ lock' = u <=> pc'[u] = "prepare"
                           /\ storeLock' = u <=> pc'[u] \in {"compare", "refresh"}
    BY <2>1, ThreadsAssumption DEF ThreadInv, TypeOK, client
  <2> QED
    BY <2>1, <2>2, <2>3, ThreadsAssumption DEF ThreadInv, TypeOK, client
<1>2. SessionInv'
  BY ThreadsAssumption
  DEF ThreadInv, TypeOK, SessionInv, Refresh, Goto, client, disk, Unprepared, Ended, Refreshing
<1>3. KeyIsGone'
  BY DEF ThreadInv, TypeOK, SessionInv, KeyIsGone, Refresh, Goto, client, disk, Ended, Refreshing
<1>4. RefreshInv'
  BY DEF ThreadInv, TypeOK, SessionInv, RefreshInv, Refresh, Goto, client, disk, Unprepared, Ended, Refreshing
<1> QED
  BY <1>1, <1>2, <1>3, <1>4 DEF ThreadInv

\* The key is gone when a commit is over.
LEMMA WipeInv ==
  ASSUME ThreadInv, NEW t \in Threads, Wipe(t)
  PROVE  ThreadInv'
<1>1. TypeOK'
  BY ThreadsAssumption DEF ThreadInv, TypeOK, Wipe, Goto, client, disk, Labels, Ended, Refreshing
<1>2. SessionInv'
  BY ThreadsAssumption
  DEF ThreadInv, TypeOK, SessionInv, Wipe, Goto, client, disk, Unprepared, Ended, Refreshing
<1>3. KeyIsGone'
  BY DEF ThreadInv, TypeOK, SessionInv, KeyIsGone, Wipe, Goto, client, disk, Ended, Refreshing
<1>4. RefreshInv'
  BY DEF ThreadInv, TypeOK, SessionInv, RefreshInv, Wipe, Goto, client, disk, Unprepared, Ended, Refreshing
<1> QED
  BY <1>1, <1>2, <1>3, <1>4 DEF ThreadInv

\* Another program never restores an earlier version of the helper.
LEMMA OtherInv == ThreadInv /\ (OtherEnters \/ OtherLeaves \/ UNCHANGED vars) => ThreadInv'
<1> SUFFICES ASSUME ThreadInv, OtherEnters \/ OtherLeaves \/ UNCHANGED vars PROVE ThreadInv'
  OBVIOUS
<1>1. TypeOK'
  BY ThreadsAssumption DEF ThreadInv, TypeOK, OtherEnters, OtherLeaves, vars, client, disk
<1>2. SessionInv' /\ KeyIsGone'
  BY DEF ThreadInv, TypeOK, SessionInv, KeyIsGone, OtherEnters, OtherLeaves, vars, client, disk
<1>3. RefreshInv'
  BY DEF ThreadInv, TypeOK, RefreshInv, OtherEnters, OtherLeaves, vars, client, disk
<1> QED
  BY <1>1, <1>2, <1>3 DEF ThreadInv

\* Every step keeps the invariant.
LEMMA NextThreadInv == ThreadInv /\ [Next]_vars => ThreadInv'
<1> SUFFICES ASSUME ThreadInv, [Next]_vars PROVE ThreadInv'
  OBVIOUS
<1>1. ASSUME NEW t \in Threads, Step(t) PROVE ThreadInv'
  BY <1>1, ResolveInv, PrepareInv, PrepareRaisesInv, PostInv, AnswerInv, FetchSessionInv, CheckInv,
     MarkInv, EnterInv, EnterBusyInv, CompareInv, RefreshStepInv, WipeInv DEF Step
<1> QED
  BY <1>1, CallInv, AskInv, OtherInv DEF Next

------------------------------------------------------------------------------
\* The invariant holds for any number of threads and calls.
LEMMA Invariance == Spec => []ThreadInv
<1> QED
  BY InitThreadInv, NextThreadInv, PTL DEF Spec

\* The locks are held only where the code is inside their blocks (client.py:181, 201;
\* _store.py:158-164), whatever the threads of a program and other programs do.
THEOREM TypeCorrect == Spec => []TypeOK
<1>1. ThreadInv => TypeOK
  BY DEF ThreadInv
<1> QED
  BY <1>1, Invariance, PTL

\* The first thread to prepare decides on the HWID of all requests (client.py:178-196),
\* of those that ask or reset as well.
THEOREM OneHwidAlways == Spec => []OneHwid
<1>1. ThreadInv => OneHwid
  BY DEF ThreadInv, SessionInv, OneHwid
<1> QED
  BY <1>1, Invariance, PTL

\* After the "finally" of commit (slhwid/__init__.py:132-133) no thread has the key.
THEOREM KeyIsWiped == Spec => []KeyIsGone
<1>1. ThreadInv => KeyIsGone
  BY DEF ThreadInv
<1> QED
  BY <1>1, Invariance, PTL

\* After a commit the helper has been refreshed (slhwid/__init__.py:108-133), but for
\* the race and the storage faults that the two histories record.
THEOREM RefreshIsNotLost == Spec => []RefreshedUnlessRaced
<1>1. ThreadInv => RefreshedUnlessRaced
  BY DEF ThreadInv, RefreshInv, RefreshedUnlessRaced, Settled
<1> QED
  BY <1>1, Invariance, PTL
==============================================================================
