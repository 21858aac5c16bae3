------------------------ MODULE InvisibleFolderProofs ------------------------
(****************************************************************************)
(* Theorems about InvisibleFolder for any number of calls and revisions:    *)
(*   TypeCorrect     the type invariant                                     *)
(*   UpdateSafety    no update is missed                                    *)
(*   ErrorSafety     only LOCAL_FAILURE hurts the destination               *)
(*   UpdateProgress  a successful update moves the destination forward      *)
(****************************************************************************)
EXTENDS InvisibleFolder, TLAPS

\* What the end of a call and a program's death do to the types of the call's variables.
LEMMA EndTypes ==
  ASSUME TypeOK, NEW c \in Calls, NEW outcome \in Labels, End(c, outcome)
  PROVE  /\ pc' \in [Calls -> Labels] /\ mode' \in [Calls -> {"update", "file"}]
         /\ mine' \in [Calls -> 0..MaxRevision] /\ reported' \in [Calls -> 0..MaxRevision]
         /\ payload' \in [Calls -> Revisions \cup {Torn}]
  BY FolderAssumption DEF TypeOK, End, Goto

\* The bodies and the written contents have their types.
LEMMA ContentTypes ==
  ASSUME TypeOK, NEW c \in Calls
  PROVE  /\ Written(c) \subseteq Revisions \cup {NoFile, Empty, Torn}
         /\ Short(c) \cup Ruin(c) \subseteq {"overlap", "direct", "short"}
  BY DEF TypeOK, Written, Short, Ruin

\* Every step keeps the types.
LEMMA NextTypeOK == TypeOK /\ [Next]_vars => TypeOK'
<1> SUFFICES ASSUME TypeOK, [Next]_vars PROVE TypeOK'
  OBVIOUS
<1>k. Kinds \subseteq Labels /\ {"current", "returned", "idle"} \subseteq Labels
  BY DEF Labels, Ended, Kinds
<1>1. ASSUME NEW c \in Calls, Begin(c) PROVE TypeOK'
  <2>1. pc' \in [Calls -> Labels]
    BY <1>1 DEF TypeOK, Begin, Goto, Labels
  <2> QED
    BY <1>1, <2>1 DEF TypeOK, Begin, shared
<1>2. ASSUME NEW c \in Calls, Current(c) \/ MetadataFails(c) \/ DownloadFails(c) \/ OpenFails(c)
      PROVE  TypeOK'
  <2>1. PICK outcome \in Labels : End(c, outcome)
    BY <1>2, <1>k DEF Current, MetadataFails, DownloadFails, OpenFails, Kinds
  <2>2. UNCHANGED <<shared, touched>>
    BY <1>2 DEF Current, MetadataFails, DownloadFails, OpenFails
  <2> QED
    BY <2>1, <2>2, EndTypes DEF TypeOK, shared
<1>3. ASSUME NEW c \in Calls, New(c) \/ Download(c) PROVE TypeOK'
  <2>1. rev \in 0..MaxRevision /\ rev \in Revisions \cup {Torn}
    BY DEF TypeOK, Revisions
  <2>2. pc' \in [Calls -> Labels]
    BY <1>3 DEF TypeOK, New, Download, Goto, Labels
  <2>3. reported' \in [Calls -> 0..MaxRevision] /\ payload' \in [Calls -> Revisions \cup {Torn}]
    BY <1>3, <2>1 DEF TypeOK, New, Download
  <2> QED
    BY <1>3, <2>2, <2>3 DEF TypeOK, New, Download, shared
<1>4. ASSUME NEW c \in Calls, Open(c) PROVE TypeOK'
  <2>1. pc' \in [Calls -> Labels]
    BY <1>4 DEF TypeOK, Open, Goto, Labels
  <2> QED
    BY <1>4, <2>1 DEF TypeOK, Open, locals
<1>5. ASSUME NEW c \in Calls, Write(c) PROVE TypeOK'
  <2>1. pc' \in [Calls -> Labels]
    BY <1>5 DEF TypeOK, Write, Goto, Labels
  <2> QED
    BY <1>5, <2>1, ContentTypes DEF TypeOK, Write, locals
<1>6. ASSUME NEW c \in Calls, WriteDirect(c) \/ WriteFails(c) PROVE TypeOK'
  <2>1. PICK outcome \in Labels : End(c, outcome)
    BY <1>6, <1>k DEF WriteDirect, WriteFails, Kinds
  <2>2. file' \in Revisions \cup {NoFile, Empty, Torn} /\ breach' \subseteq {"overlap", "direct", "short"}
    BY <1>6, ContentTypes DEF TypeOK, WriteDirect, WriteFails
  <2>3. UNCHANGED <<rev, known, touched>>
    BY <1>6 DEF WriteDirect, WriteFails
  <2> QED
    BY <2>1, <2>2, <2>3, EndTypes DEF TypeOK
<1>7. ASSUME NEW c \in Calls, Record(c) PROVE TypeOK'
  <2>1. End(c, "returned") /\ known' = reported[c] /\ UNCHANGED <<rev, file, breach, touched>>
    BY <1>7 DEF Record
  <2>2. known' \in 0..MaxRevision
    BY <2>1 DEF TypeOK
  <2> QED
    BY <1>k, <2>1, <2>2, EndTypes DEF TypeOK
<1>8. CASE Publish
  <2>1. rev' \in Revisions
    BY <1>8, FolderAssumption DEF TypeOK, Publish, Revisions
  <2> QED
    BY <1>8, <2>1 DEF TypeOK, Publish, locals
<1>9. CASE Crash
  <2>1. file' \in Revisions \cup {NoFile, Empty, Torn}
    BY <1>9 DEF TypeOK, Crash
  <2>2. breach' \subseteq {"overlap", "direct", "short"}
    BY <1>9 DEF TypeOK, Crash, Ruin
  <2>3. /\ pc' \in [Calls -> Labels] /\ mode' \in [Calls -> {"update", "file"}]
        /\ mine' \in [Calls -> 0..MaxRevision] /\ reported' \in [Calls -> 0..MaxRevision]
        /\ payload' \in [Calls -> Revisions \cup {Torn}] /\ touched' \in [Calls -> BOOLEAN]
    BY <1>9, <1>k, FolderAssumption DEF Crash
  <2> QED
    BY <1>9, <2>1, <2>2, <2>3 DEF TypeOK, Crash
<1>10. CASE UNCHANGED vars
  BY <1>10 DEF TypeOK, vars, shared, locals
<1> QED
  BY <1>1, <1>2, <1>3, <1>4, <1>5, <1>6, <1>7, <1>8, <1>9, <1>10 DEF Next

\* The initial state has its types.
LEMMA InitTypeOK == Init => TypeOK
  BY FolderAssumption DEF Init, TypeOK, Revisions, Labels, Ended

\* The type invariant, for any number of calls and revisions (TypeOK).
THEOREM TypeCorrect == Spec => []TypeOK
  BY InitTypeOK, NextTypeOK, PTL DEF Spec

------------------------------------------------------------------------------
(* The inductive invariant. *)

Writing == {"write", "record"}

\* What a call knows: the record as it began, a newer revision than that if it updates,
\* and a content that is at least as new.  While nothing is breached the record is still
\* the one it began with once it has opened the destination, which is its own.
CallInv(c) ==
  /\ mine[c] <= rev
  /\ pc[c] \in {"metadata", "record"} => mode[c] = "update"
  /\ pc[c] \in {"download", "open"} \cup Writing /\ mode[c] = "update" =>
       mine[c] < reported[c] /\ reported[c] <= rev
  /\ pc[c] \in {"open"} \cup Writing /\ payload[c] # Torn =>
       /\ mine[c] <= payload[c] /\ payload[c] <= rev
       /\ mode[c] = "update" => reported[c] <= payload[c]
  /\ breach = {} /\ pc[c] \in Writing => mine[c] = known
  /\ breach = {} /\ pc[c] = "write" => file = Empty
  /\ breach = {} /\ pc[c] = "record" => file = payload[c] /\ payload[c] # Torn
  /\ pc[c] \in {"metadata", "download", "open"} \cup (Kinds \ {"LOCAL_FAILURE"}) => ~touched[c]

\* Without a breach one call at a time has opened the destination and not yet been recorded.
Alone == breach = {} => \A c, d \in Calls : pc[c] \in Writing /\ pc[d] \in Writing => c = d

FolderInv ==
  /\ TypeOK /\ known <= rev /\ Alone /\ NothingIsMissed
  /\ \A c \in Calls : CallInv(c)

\* The initial state satisfies the invariant.
LEMMA InitFolderInv == Init => FolderInv
  BY InitTypeOK DEF Init, FolderInv, CallInv, Alone, NothingIsMissed, Kinds, Writing

\* A step keeps what a call knows if it does not concern it: it leaves the variables of
\* the call alone and, unless there is a breach, the destination and the record that the
\* call has to itself.
LEMMA OthersKeep ==
  ASSUME TypeOK, NEW d \in Calls, CallInv(d), rev' \in Int, rev <= rev',
         pc'[d] = pc[d], mode'[d] = mode[d], mine'[d] = mine[d], reported'[d] = reported[d],
         payload'[d] = payload[d], touched'[d] = touched[d],
         breach' = {} => breach = {} /\ (pc[d] \in Writing => known' = known /\ file' = file)
  PROVE  CallInv(d)'
<1>1. mine[d] \in Int /\ reported[d] \in Int /\ payload[d] \in Int /\ rev \in Int
  BY DEF TypeOK, Revisions, Torn
<1> QED
  BY <1>1 DEF CallInv, Writing

\* A call that is over knows nothing; it has touched nothing if it raised anything
\* but LOCAL_FAILURE.
LEMMA EndKeeps ==
  ASSUME TypeOK, NEW c \in Calls, NEW outcome \in Ended, End(c, outcome), rev' = rev,
         outcome \in Kinds \ {"LOCAL_FAILURE"} => ~touched'[c]
  PROVE  CallInv(c)'
<1>1. pc'[c] = outcome /\ mine'[c] = 0
  BY DEF TypeOK, End, Goto
<1>2. rev \in Int /\ 0 <= rev
  BY DEF TypeOK, Revisions
<1> QED
  BY <1>1, <1>2 DEF CallInv, Writing, Ended, Kinds

\* A step of one call leaves the variables of the others alone.
LEMMA OthersStay ==
  ASSUME TypeOK, NEW c \in Calls, NEW d \in Calls, d # c,
         \/ Begin(c) \/ Current(c) \/ New(c) \/ MetadataFails(c) \/ Download(c) \/ DownloadFails(c)
         \/ Open(c) \/ OpenFails(c) \/ Write(c) \/ WriteDirect(c) \/ WriteFails(c) \/ Record(c)
  PROVE  /\ pc'[d] = pc[d] /\ mode'[d] = mode[d] /\ mine'[d] = mine[d] /\ reported'[d] = reported[d]
         /\ payload'[d] = payload[d] /\ touched'[d] = touched[d] /\ rev' = rev
<1>1. ASSUME NEW outcome, End(c, outcome)
      PROVE  /\ pc'[d] = pc[d] /\ mode'[d] = mode[d] /\ mine'[d] = mine[d] /\ reported'[d] = reported[d]
             /\ payload'[d] = payload[d]
  BY <1>1 DEF TypeOK, End, Goto
<1>2. CASE Begin(c) \/ New(c) \/ Download(c)
  BY <1>2 DEF TypeOK, Begin, New, Download, Goto, shared
<1>3. CASE Open(c) \/ Write(c)
  BY <1>3 DEF TypeOK, Open, Write, Goto, locals
<1>4. CASE Current(c) \/ MetadataFails(c) \/ DownloadFails(c) \/ OpenFails(c)
  BY <1>1, <1>4 DEF Current, MetadataFails, DownloadFails, OpenFails, shared
<1>5. CASE WriteDirect(c) \/ WriteFails(c) \/ Record(c)
  BY <1>1, <1>5 DEF WriteDirect, WriteFails, Record
<1> QED
  BY <1>2, <1>3, <1>4, <1>5

\* Steps of a call before it opens the destination, and ends that do not touch it,
\* leave what is shared alone.
LEMMA QuietSteps ==
  ASSUME FolderInv, TypeOK', NEW c \in Calls, UNCHANGED shared, pc[c] \notin Writing, pc'[c] \notin Writing,
         CallInv(c)',
         \A d \in Calls \ {c} : /\ pc'[d] = pc[d] /\ mode'[d] = mode[d] /\ mine'[d] = mine[d]
                               /\ reported'[d] = reported[d] /\ payload'[d] = payload[d]
                               /\ touched'[d] = touched[d]
  PROVE  FolderInv'
<1>1. TypeOK /\ rev \in Int
  BY DEF FolderInv, TypeOK, Revisions
<1>2. ASSUME NEW d \in Calls PROVE CallInv(d)'
  <2>1. CASE d = c
    BY <2>1
  <2>2. CASE d # c
    BY <1>1, <2>2, OthersKeep DEF FolderInv, shared
  <2> QED
    BY <2>1, <2>2
<1>3. Alone'
  BY <1>1 DEF FolderInv, Alone, shared
<1>4. NothingIsMissed'
  <2> SUFFICES ASSUME breach' = {}, known' = rev', file' # rev'
               PROVE  \E d \in Calls : pc'[d] = "write" /\ mode'[d] = "file"
    BY DEF NothingIsMissed
  <2>1. PICK d \in Calls : pc[d] = "write" /\ mode[d] = "file"
    BY DEF FolderInv, NothingIsMissed, shared
  <2>2. d # c
    BY <2>1 DEF Writing
  <2> QED
    BY <2>1, <2>2
<1> QED
  BY <1>2, <1>3, <1>4 DEF FolderInv, shared

\* The steps of a call up to the destination.
LEMMA NextBeforeOpen ==
  ASSUME FolderInv, TypeOK', NEW c \in Calls,
         \/ Begin(c) \/ Current(c) \/ New(c) \/ MetadataFails(c) \/ Download(c) \/ DownloadFails(c)
         \/ OpenFails(c)
  PROVE  FolderInv'
<1>1. TypeOK /\ CallInv(c) /\ rev \in Nat /\ known <= rev /\ known \in Nat
  BY DEF FolderInv, TypeOK, Revisions
<1>2. \A d \in Calls \ {c} : /\ pc'[d] = pc[d] /\ mode'[d] = mode[d] /\ mine'[d] = mine[d]
                              /\ reported'[d] = reported[d] /\ payload'[d] = payload[d]
                              /\ touched'[d] = touched[d] /\ rev' = rev
  BY <1>1, OthersStay
<1>3. UNCHANGED shared
  BY DEF Begin, Current, New, MetadataFails, Download, DownloadFails, OpenFails
<1>4. mine[c] \in Nat
  BY <1>1 DEF TypeOK
<1>5. CASE Begin(c)
  <2>1. /\ mine'[c] = known /\ ~touched'[c]
        /\ pc[c] \in Ended
        /\ \/ pc'[c] = "metadata" /\ mode'[c] = "update"
           \/ pc'[c] = "download" /\ mode'[c] = "file"
    <3>1. PICK m \in {"update", "file"} :
            /\ mode' = [mode EXCEPT ![c] = m]
            /\ pc' = [pc EXCEPT ![c] = IF m = "update" THEN "metadata" ELSE "download"]
      BY <1>5 DEF Begin, Goto
    <3>2. mine'[c] = known /\ ~touched'[c] /\ pc[c] \in Ended
      BY <1>1, <1>5 DEF TypeOK, Begin
    <3>3. pc'[c] = (IF m = "update" THEN "metadata" ELSE "download") /\ mode'[c] = m
      BY <1>1, <3>1 DEF TypeOK
    <3> QED
      BY <3>2, <3>3
  <2>2. CallInv(c)'
    BY <1>1, <1>3, <2>1 DEF CallInv, Writing, shared, Kinds
  <2> QED
    BY <1>2, <1>3, <2>1, <2>2, QuietSteps DEF Writing, Ended, Kinds
<1>6. CASE New(c)
  <2>1. /\ pc[c] = "metadata" /\ mine[c] # rev /\ reported'[c] = rev /\ pc'[c] = "download"
        /\ mine'[c] = mine[c] /\ mode'[c] = mode[c] /\ touched'[c] = touched[c]
    BY <1>1, <1>6 DEF TypeOK, New, Goto
  <2>2. CallInv(c)'
    BY <1>1, <1>3, <1>4, <2>1 DEF CallInv, Writing, shared, Kinds
  <2> QED
    BY <1>2, <1>3, <2>1, <2>2, QuietSteps DEF Writing
<1>7. CASE Download(c)
  <2>1. /\ pc[c] = "download" /\ payload'[c] \in {rev, Torn} /\ pc'[c] = "open"
        /\ mine'[c] = mine[c] /\ mode'[c] = mode[c] /\ touched'[c] = touched[c]
        /\ reported'[c] = reported[c]
    BY <1>1, <1>7 DEF TypeOK, Download, Goto
  <2>2. CallInv(c)'
    BY <1>1, <1>3, <1>4, <2>1 DEF CallInv, Writing, shared, Kinds
  <2> QED
    BY <1>2, <1>3, <2>1, <2>2, QuietSteps DEF Writing
<1>8. CASE Current(c) \/ MetadataFails(c) \/ DownloadFails(c) \/ OpenFails(c)
  <2>1. PICK outcome \in Ended : End(c, outcome)
    BY <1>8 DEF Current, MetadataFails, DownloadFails, OpenFails, Ended, Kinds
  <2>2. pc[c] \in {"metadata", "download", "open"} /\ touched' = touched
    BY <1>8 DEF Current, MetadataFails, DownloadFails, OpenFails
  <2>3. CallInv(c)'
    BY <1>1, <1>3, <2>1, <2>2, EndKeeps DEF CallInv, shared
  <2>4. pc'[c] = outcome
    BY <1>1, <2>1 DEF TypeOK, End, Goto
  <2> QED
    BY <1>2, <1>3, <2>2, <2>3, <2>4, QuietSteps DEF Writing, Ended, Kinds
<1> QED
  BY <1>5, <1>6, <1>7, <1>8

\* Opening the destination empties it; the record is behind then, or a direct call is
\* writing.
LEMMA NextOpen == ASSUME FolderInv, TypeOK', NEW c \in Calls, Open(c) PROVE FolderInv'
<1>1. TypeOK /\ CallInv(c) /\ rev \in Nat /\ known <= rev /\ known \in Nat
  BY DEF FolderInv, TypeOK, Revisions
<1>2. /\ pc[c] = "open" /\ file' = Empty /\ pc'[c] = "write" /\ UNCHANGED <<rev, known>>
      /\ mine'[c] = mine[c] /\ mode'[c] = mode[c] /\ payload'[c] = payload[c]
      /\ reported'[c] = reported[c] /\ touched'[c] = TRUE
  BY <1>1 DEF TypeOK, Open, Goto, locals
<1>3. breach' = {} => breach = {} /\ known = mine[c] /\ \A d \in Calls \ {c} : pc[d] \notin Writing
  BY DEF Open, Overlap, Writing
<1>4. CallInv(c)'
  BY <1>1, <1>2, <1>3 DEF CallInv, Writing, Kinds
<1>5. ASSUME NEW d \in Calls, d # c PROVE CallInv(d)' /\ pc'[d] = pc[d]
  BY <1>1, <1>2, <1>3, <1>5, OthersStay, OthersKeep DEF FolderInv
<1>6. Alone'
  BY <1>3, <1>5 DEF Alone
<1>7. NothingIsMissed'
  <2> SUFFICES ASSUME breach' = {}, known' = rev' PROVE pc'[c] = "write" /\ mode'[c] = "file"
    BY DEF NothingIsMissed
  <2>1. mode[c] = "update" => mine[c] < reported[c] /\ reported[c] <= rev
    BY <1>1, <1>2 DEF CallInv
  <2>2. mine[c] \in Nat /\ reported[c] \in Nat /\ mode[c] \in {"update", "file"}
    BY <1>1 DEF TypeOK
  <2> QED
    BY <1>1, <1>2, <1>3, <2>1, <2>2
<1> QED
  BY <1>1, <1>2, <1>4, <1>5, <1>6, <1>7 DEF FolderInv

\* While nothing is breached, what is written is what was downloaded.
LEMMA WriteShape ==
  ASSUME FolderInv, NEW c \in Calls, pc[c] = "write", breach = {}, file' \in Written(c)
  PROVE  file' = payload[c]
  BY DEF FolderInv, CallInv, Written

\* Writing the destination.
LEMMA NextWrite ==
  ASSUME FolderInv, TypeOK', NEW c \in Calls, Write(c) \/ WriteDirect(c) \/ WriteFails(c)
  PROVE  FolderInv'
<1>1. /\ TypeOK /\ CallInv(c) /\ rev \in Nat /\ known <= rev /\ known \in Nat
      /\ mine[c] \in Nat /\ reported[c] \in Nat /\ mode[c] \in {"update", "file"}
      /\ payload[c] \in Int
  BY DEF FolderInv, TypeOK, Revisions, Torn
<1>2. pc[c] = "write" /\ UNCHANGED <<rev, known>> /\ (breach' = {} => breach = {})
  BY DEF Write, WriteDirect, WriteFails
<1>3. \A d \in Calls \ {c} : pc'[d] = pc[d] /\ (breach = {} => pc[d] \notin Writing)
  BY <1>1, <1>2, OthersStay DEF FolderInv, Alone, Writing
<1>4. ASSUME NEW d \in Calls, d # c PROVE CallInv(d)'
  BY <1>1, <1>2, <1>3, <1>4, OthersStay, OthersKeep DEF FolderInv
<1>5. Alone'
  BY <1>2, <1>3 DEF Alone
<1>6. mode[c] = "update" /\ breach = {} => known < rev
  BY <1>1, <1>2 DEF CallInv, Writing
<1>7. CASE Write(c)
  <2>1. /\ pc'[c] = "record" /\ mode'[c] = mode[c] /\ mine'[c] = mine[c] /\ mode[c] = "update"
        /\ reported'[c] = reported[c] /\ payload'[c] = payload[c] /\ file' \in Written(c)
        /\ breach' = {} => payload[c] # Torn
    BY <1>1, <1>7 DEF TypeOK, Write, Goto, locals, Short
  <2>2. CallInv(c)'
    BY <1>1, <1>2, <2>1, WriteShape DEF CallInv, Writing, Kinds
  <2>3. NothingIsMissed'
    BY <1>1, <1>2, <1>6, <2>1 DEF NothingIsMissed
  <2> QED
    BY <1>1, <1>2, <1>4, <1>5, <2>2, <2>3 DEF FolderInv
<1>8. CASE WriteDirect(c)
  <2>1. End(c, "returned") /\ file' \in Written(c) /\ (breach' = {} => payload[c] # Torn)
    BY <1>8 DEF WriteDirect, Short
  <2>2. CallInv(c)'
    BY <1>1, <1>2, <2>1, EndKeeps DEF Ended, Kinds
  <2>3. NothingIsMissed'
    <3> SUFFICES ASSUME breach' = {}, known' = rev' PROVE file' = rev'
      BY DEF NothingIsMissed
    <3>1. mine[c] = known /\ mine[c] <= payload[c] /\ payload[c] <= rev
      BY <1>1, <1>2, <2>1 DEF CallInv, Writing
    <3>2. file' = payload[c]
      BY <1>2, <2>1, WriteShape
    <3> QED
      BY <1>1, <1>2, <3>1, <3>2
  <2> QED
    BY <1>1, <1>2, <1>4, <1>5, <2>2, <2>3 DEF FolderInv
<1>9. CASE WriteFails(c)
  <2>1. End(c, "LOCAL_FAILURE") /\ (breach' = {} => mode[c] = "update")
    BY <1>1, <1>9 DEF WriteFails, Ruin
  <2>2. CallInv(c)'
    BY <1>1, <1>2, <2>1, EndKeeps DEF Ended, Kinds
  <2>3. NothingIsMissed'
    BY <1>1, <1>2, <1>6, <2>1 DEF NothingIsMissed
  <2> QED
    BY <1>1, <1>2, <1>4, <1>5, <2>2, <2>3 DEF FolderInv
<1> QED
  BY <1>7, <1>8, <1>9

\* The record that an update leaves is not ahead of the destination.
LEMMA NextRecord == ASSUME FolderInv, TypeOK', NEW c \in Calls, Record(c) PROVE FolderInv'
<1>1. /\ TypeOK /\ CallInv(c) /\ rev \in Nat /\ known <= rev /\ known \in Nat
      /\ mine[c] \in Nat /\ reported[c] \in Nat /\ payload[c] \in Int
  BY DEF FolderInv, TypeOK, Revisions, Torn
<1>2. /\ pc[c] = "record" /\ UNCHANGED <<rev, file, breach, touched>> /\ known' = reported[c]
      /\ End(c, "returned")
  BY DEF Record
<1>3. mode[c] = "update" /\ reported[c] <= rev
  BY <1>1, <1>2 DEF CallInv, Writing
<1>4. CallInv(c)'
  BY <1>1, <1>2, EndKeeps DEF Ended, Kinds
<1>5. \A d \in Calls \ {c} : pc'[d] = pc[d] /\ (breach = {} => pc[d] \notin Writing)
  BY <1>1, <1>2, OthersStay DEF FolderInv, Alone, Writing
<1>6. ASSUME NEW d \in Calls, d # c PROVE CallInv(d)'
  BY <1>1, <1>2, <1>5, <1>6, OthersStay, OthersKeep DEF FolderInv
<1>7. Alone'
  BY <1>2, <1>5 DEF Alone
<1>8. NothingIsMissed'
  <2> SUFFICES ASSUME breach' = {}, known' = rev' PROVE file' = rev'
    BY DEF NothingIsMissed
  <2>1. file = payload[c] /\ reported[c] <= payload[c] /\ payload[c] <= rev
    BY <1>1, <1>2, <1>3 DEF CallInv, Writing
  <2> QED
    BY <1>1, <1>2, <2>1
<1> QED
  BY <1>2, <1>3, <1>4, <1>6, <1>7, <1>8 DEF FolderInv

\* The death of the program ends all calls; the one that was writing was an update, or
\* there is a breach.
LEMMA NextCrash == ASSUME FolderInv, TypeOK', Crash PROVE FolderInv'
<1>1. TypeOK /\ rev \in Nat /\ known <= rev /\ known \in Nat
  BY DEF FolderInv, TypeOK, Revisions
<1>2. /\ UNCHANGED <<rev, known>>
      /\ \A c \in Calls : pc'[c] = "idle" /\ mine'[c] = 0 /\ ~touched'[c]
      /\ breach' = {} => breach = {}
  BY DEF Crash
<1>3. Alone' /\ \A c \in Calls : CallInv(c)'
  BY <1>1, <1>2 DEF Alone, CallInv, Writing, Kinds
<1>4. NothingIsMissed'
  <2> SUFFICES ASSUME breach' = {}, known' = rev' PROVE file' = rev'
    BY DEF NothingIsMissed
  <2>1. ASSUME NEW c \in Calls, pc[c] = "write" PROVE FALSE
    <3>1. Ruin(c) = {}
      BY <2>1 DEF Crash
    <3>2. mode[c] = "update"
      BY <1>1, <3>1 DEF TypeOK, Ruin
    <3>3. mine[c] = known /\ mine[c] < reported[c] /\ reported[c] <= rev
      BY <1>2, <2>1, <3>2 DEF FolderInv, CallInv, Writing
    <3>4. mine[c] \in Nat /\ reported[c] \in Nat
      BY <1>1 DEF TypeOK
    <3> QED
      BY <1>1, <1>2, <3>3, <3>4
  <2>2. file' = file
    BY <2>1 DEF Crash
  <2> QED
    BY <1>2, <2>1, <2>2 DEF FolderInv, NothingIsMissed
<1> QED
  BY <1>1, <1>2, <1>3, <1>4 DEF FolderInv

\* Every step keeps the invariant.
LEMMA NextFolderInv == FolderInv /\ [Next]_vars => FolderInv'
<1> SUFFICES ASSUME FolderInv, [Next]_vars PROVE FolderInv'
  OBVIOUS
<1>1. TypeOK'
  BY NextTypeOK DEF FolderInv
<1>2. CASE Publish
  <2>1. /\ TypeOK /\ rev \in Nat /\ known <= rev /\ known \in Nat /\ rev' = rev + 1
        /\ UNCHANGED <<file, known, breach, locals, pc, touched>>
    BY <1>2 DEF FolderInv, TypeOK, Revisions, Publish
  <2>2. ASSUME NEW d \in Calls PROVE CallInv(d)'
    BY <2>1, OthersKeep DEF FolderInv, locals
  <2> QED
    BY <1>1, <2>1, <2>2 DEF FolderInv, Alone, NothingIsMissed, locals
<1>3. CASE UNCHANGED vars
  <2>1. \A c \in Calls : CallInv(c)'
    BY <1>3 DEF vars, shared, locals, FolderInv, CallInv
  <2> QED
    BY <1>1, <1>3, <2>1 DEF vars, shared, locals, FolderInv, Alone, NothingIsMissed
<1> QED
  BY <1>1, <1>2, <1>3, NextBeforeOpen, NextOpen, NextWrite, NextRecord, NextCrash DEF Next

\* The invariant holds throughout.
LEMMA FolderInvariant == Spec => []FolderInv
  BY InitFolderInv, NextFolderInv, PTL DEF Spec

\* No update is missed while nothing is breached (NothingIsMissed), for any number of
\* calls and revisions.
THEOREM UpdateSafety == Spec => []NothingIsMissed
<1>1. FolderInv => NothingIsMissed
  BY DEF FolderInv
<1> QED
  BY <1>1, FolderInvariant, PTL

\* A call that raised anything but LOCAL_FAILURE has not touched the destination
\* (OnlyLocalFailureHurts).
THEOREM ErrorSafety == Spec => []OnlyLocalFailureHurts
<1>1. FolderInv => OnlyLocalFailureHurts
  BY DEF FolderInv, CallInv, OnlyLocalFailureHurts
<1> QED
  BY <1>1, FolderInvariant, PTL

\* A successful update moves the destination forward (UpdatesMoveForward).
THEOREM UpdateProgress == Spec => UpdatesMoveForward
<1> DEFINE Forward ==
      \A c \in Calls :
        pc[c] = "write" /\ pc'[c] = "record" /\ breach' = {} =>
          file' \in Revisions /\ file' >= reported[c] /\ reported[c] > known
<1>1. ASSUME FolderInv, [Next]_vars PROVE Forward
  <2> SUFFICES ASSUME NEW c \in Calls, pc[c] = "write", pc'[c] = "record", breach' = {}
               PROVE  file' \in Revisions /\ file' >= reported[c] /\ reported[c] > known
    OBVIOUS
  <2>1. TypeOK /\ CallInv(c)
    BY <1>1 DEF FolderInv
  <2>2. Write(c)
    <3>1. ASSUME NEW d \in Calls, NEW outcome \in Ended, End(d, outcome) PROVE FALSE
      BY <2>1, <3>1 DEF TypeOK, End, Goto, Ended, Kinds
    <3>2. "LOCAL_FAILURE" \in Ended /\ "returned" \in Ended /\ "current" \in Ended /\ Kinds \subseteq Ended
      BY DEF Ended, Kinds
    <3>3. ASSUME NEW d \in Calls,
                 \/ Current(d) \/ MetadataFails(d) \/ DownloadFails(d) \/ OpenFails(d)
                 \/ WriteDirect(d) \/ WriteFails(d) \/ Record(d)
          PROVE  FALSE
      BY <3>1, <3>2, <3>3
      DEF Current, MetadataFails, DownloadFails, OpenFails, WriteDirect, WriteFails, Record, Kinds
    <3>4. ASSUME NEW d \in Calls, Begin(d) \/ New(d) \/ Download(d) \/ Open(d) PROVE FALSE
      BY <2>1, <3>4 DEF TypeOK, Begin, New, Download, Open, Goto
    <3>5. ASSUME NEW d \in Calls, Write(d) PROVE Write(c)
      BY <2>1, <3>5 DEF TypeOK, Write, Goto
    <3>6. ~Publish /\ ~Crash /\ ~UNCHANGED vars
      BY <2>1 DEF TypeOK, Publish, Crash, vars
    <3> QED
      BY <1>1, <3>3, <3>4, <3>5, <3>6 DEF Next
  <2>3. breach = {} /\ payload[c] # Torn /\ file' = payload[c] /\ mode[c] = "update"
    BY <1>1, <2>2, WriteShape DEF Write, Short
  <2>4. /\ payload[c] \in Revisions /\ reported[c] <= payload[c]
        /\ mine[c] = known /\ mine[c] < reported[c]
    BY <2>1, <2>3 DEF TypeOK, CallInv, Writing
  <2>5. payload[c] \in Int /\ reported[c] \in Int /\ known \in Int
    BY <2>1 DEF TypeOK, Revisions, Torn
  <2> QED
    BY <2>3, <2>4, <2>5
<1> QED
  BY <1>1, FolderInvariant, PTL DEF Spec, UpdatesMoveForward
==============================================================================
