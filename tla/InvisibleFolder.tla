--------------------------- MODULE InvisibleFolder ---------------------------
(****************************************************************************)
(* Updates of one file from Invisible Folder (invisible_folder.py):         *)
(* download_if_new asks for the revision in one request and for the content *)
(* in another, and download_to_file overwrites the destination in place.    *)
(* The application keeps the revision it was told and hands it to its next  *)
(* call.  The calls are those of the threads of one program, which may die. *)
(*                                                                          *)
(* The server is external: it publishes revisions 1, 2, ... one after       *)
(* another, each with a content of its own, which the same number stands    *)
(* for.  A download into memory touches nothing that is shared and ends     *)
(* like one that never opens the destination.                               *)
(****************************************************************************)
EXTENDS Integers

CONSTANTS
  Calls,         \* threads that call download_if_new or download_to_file
  MaxRevision    \* bound: revisions published

ASSUME FolderAssumption == MaxRevision \in Nat \ {0}

Revisions == 1..MaxRevision

\* What the destination can hold beside the content of a revision: no file, an empty
\* one, and one that is cut short or mixed from two contents.
NoFile == 0
Empty == -1
Torn == -2

VARIABLES
  rev,        \* the revision that the server has
  file,       \* the destination
  known,      \* the revision that the application has on record, 0 for none
  pc,         \* where each call is; the ErrorKind it raised, if it did
  mode,       \* "update" for download_if_new, "file" for download_to_file
  mine,       \* known_revision: the record as the call began
  reported,   \* the revision in the metadata
  payload,    \* the body of the download
  touched,    \* history: whether the call has opened the destination
  breach      \* history: "overlap" if the destination was opened while another call was
              \* about to write it, or had since the call began; "direct" if a call of
              \* download_to_file failed half-way; "short" if a body was cut short

shared == <<rev, file, known, breach>>
locals == <<mode, mine, reported, payload>>
vars == <<shared, locals, pc, touched>>

Kinds == {"CONFIGURATION", "TRANSPORT", "SERVER", "LOCAL_FAILURE"}
Ended == Kinds \cup {"idle", "current", "returned"}
Labels == Ended \cup {"metadata", "download", "open", "write", "record"}

Goto(c, label) == pc' = [pc EXCEPT ![c] = label]

\* The call is over, and its variables with it.
End(c, outcome) ==
  /\ Goto(c, outcome)
  /\ mode' = [mode EXCEPT ![c] = "update"]
  /\ mine' = [mine EXCEPT ![c] = 0]
  /\ reported' = [reported EXCEPT ![c] = 0]
  /\ payload' = [payload EXCEPT ![c] = Torn]

------------------------------------------------------------------------------
Init ==
  /\ rev = 1 /\ file = NoFile /\ known = 0 /\ breach = {}
  /\ pc = [c \in Calls |-> "idle"]
  /\ mode = [c \in Calls |-> "update"]
  /\ mine = [c \in Calls |-> 0]
  /\ reported = [c \in Calls |-> 0]
  /\ payload = [c \in Calls |-> Torn]
  /\ touched = [c \in Calls |-> FALSE]

\* The server gets another revision.
Publish ==
  /\ rev < MaxRevision /\ rev' = rev + 1
  /\ UNCHANGED <<file, known, breach, locals, pc, touched>>

\* download_if_new, or download_to_file
Begin(c) ==
  /\ pc[c] \in Ended
  /\ \E m \in {"update", "file"} :
       /\ mode' = [mode EXCEPT ![c] = m]
       /\ Goto(c, IF m = "update" THEN "metadata" ELSE "download")
  /\ mine' = [mine EXCEPT ![c] = known]
  /\ touched' = [touched EXCEPT ![c] = FALSE]
  /\ UNCHANGED <<shared, reported, payload>>

\* metadata: the prerequisites, the request, and an answer that does not parse
MetadataFails(c) ==
  /\ pc[c] = "metadata"
  /\ \E kind \in {"CONFIGURATION", "TRANSPORT", "SERVER"} : End(c, kind)
  /\ UNCHANGED <<shared, touched>>

\* The revision in __revisions is the one that the caller knows ...
Current(c) ==
  /\ pc[c] = "metadata" /\ mine[c] = rev
  /\ End(c, "current")
  /\ UNCHANGED <<shared, touched>>

\* Mutant of New: what the caller knows is not looked at.
NewAlways(c) ==
  /\ pc[c] = "metadata"
  /\ reported' = [reported EXCEPT ![c] = rev]
  /\ Goto(c, "download")
  /\ UNCHANGED <<shared, mode, mine, payload, touched>>

\* ... or another one.
New(c) ==
  /\ pc[c] = "metadata" /\ mine[c] # rev
  /\ reported' = [reported EXCEPT ![c] = rev]
  /\ Goto(c, "download")
  /\ UNCHANGED <<shared, mode, mine, payload, touched>>

\* download: the credential is only looked at here, after the metadata request.
DownloadFails(c) ==
  /\ pc[c] = "download"
  /\ \E kind \in {"CONFIGURATION", "TRANSPORT"} : End(c, kind)
  /\ UNCHANGED <<shared, touched>>

\* Mutant of Download: the destination is opened before the request.
DownloadInPlace(c) ==
  /\ pc[c] = "download"
  /\ file' = Empty /\ touched' = [touched EXCEPT ![c] = TRUE]
  /\ \/ payload' = [payload EXCEPT ![c] = rev] /\ Goto(c, "write") /\ UNCHANGED <<mode, mine, reported>>
     \/ End(c, "TRANSPORT")
  /\ UNCHANGED <<rev, known, breach>>

\* The content of the moment; a connection that ends early goes unnoticed, since
\* _read_bounded reads up to a limit and nothing is compared with the size.
Download(c) ==
  /\ pc[c] = "download"
  /\ payload' \in {[payload EXCEPT ![c] = body] : body \in {rev, Torn}}
  /\ Goto(c, "open")
  /\ UNCHANGED <<shared, mode, mine, reported, touched>>

Overlap(c) ==
  \/ known # mine[c]
  \/ \E d \in Calls \ {c} : pc[d] \in {"write", "record"}

\* Path.write_bytes opens the file, which empties it, ...
Open(c) ==
  /\ pc[c] = "open"
  /\ file' = Empty /\ touched' = [touched EXCEPT ![c] = TRUE]
  /\ breach' = breach \cup (IF Overlap(c) THEN {"overlap"} ELSE {})
  /\ Goto(c, "write")
  /\ UNCHANGED <<rev, known, locals>>

\* Mutant of OpenFails: the error of the operating system is let through.
OpenFailsUncaught(c) ==
  /\ pc[c] = "open"
  /\ End(c, "OSError")
  /\ UNCHANGED <<shared, touched>>

OpenFails(c) ==
  /\ pc[c] = "open"
  /\ End(c, "LOCAL_FAILURE")
  /\ UNCHANGED <<shared, touched>>

\* What writing from the start leaves: another call may have written more.
Written(c) == {payload[c]} \cup (IF file = Empty THEN {} ELSE {Torn})

Short(c) == IF payload[c] = Torn THEN {"short"} ELSE {}
Ruin(c) == IF mode[c] = "file" THEN {"direct"} ELSE {}

\* ... and writes it.
Write(c) ==
  /\ pc[c] = "write" /\ mode[c] = "update"
  /\ file' \in Written(c) /\ breach' = breach \cup Short(c)
  /\ Goto(c, "record")
  /\ UNCHANGED <<rev, known, locals, touched>>

WriteDirect(c) ==
  /\ pc[c] = "write" /\ mode[c] = "file"
  /\ file' \in Written(c) /\ breach' = breach \cup Short(c)
  /\ End(c, "returned")
  /\ UNCHANGED <<rev, known, touched>>

\* Mutant of WriteFails: the error is swallowed and the update counts as done.
WriteFailsQuietly(c) ==
  /\ pc[c] = "write"
  /\ file' \in {file, Torn} /\ breach' = breach \cup Ruin(c)
  /\ IF mode[c] = "update" THEN Goto(c, "record") /\ UNCHANGED locals ELSE End(c, "returned")
  /\ UNCHANGED <<rev, known, touched>>

WriteFails(c) ==
  /\ pc[c] = "write"
  /\ file' \in {file, Torn} /\ breach' = breach \cup Ruin(c)
  /\ End(c, "LOCAL_FAILURE")
  /\ UNCHANGED <<rev, known, touched>>

\* The call returns, and the application records the revision of the result.
Record(c) ==
  /\ pc[c] = "record"
  /\ known' = reported[c]
  /\ End(c, "returned")
  /\ UNCHANGED <<rev, file, breach, touched>>

\* The program dies; the record and the destination stay.
Crash ==
  LET writing == {c \in Calls : pc[c] = "write"} IN
  /\ file' \in {file} \cup (IF writing = {} THEN {} ELSE {Torn})
  /\ breach' = breach \cup UNION {Ruin(c) : c \in writing}
  /\ pc' = [c \in Calls |-> "idle"]
  /\ mode' = [c \in Calls |-> "update"]
  /\ mine' = [c \in Calls |-> 0]
  /\ reported' = [c \in Calls |-> 0]
  /\ payload' = [c \in Calls |-> Torn]
  /\ touched' = [c \in Calls |-> FALSE]
  /\ UNCHANGED <<rev, known>>

Next ==
  \/ \E c \in Calls :
       \/ Begin(c) \/ Current(c) \/ New(c) \/ MetadataFails(c) \/ Download(c) \/ DownloadFails(c)
       \/ Open(c) \/ OpenFails(c) \/ Write(c) \/ WriteDirect(c) \/ WriteFails(c) \/ Record(c)
  \/ Publish \/ Crash

Spec == Init /\ [][Next]_vars

------------------------------------------------------------------------------
\* The type invariant of InvisibleFolder.
TypeOK ==
  /\ rev \in Revisions /\ known \in 0..MaxRevision
  /\ file \in Revisions \cup {NoFile, Empty, Torn}
  /\ pc \in [Calls -> Labels]
  /\ mode \in [Calls -> {"update", "file"}]
  /\ mine \in [Calls -> 0..MaxRevision]
  /\ reported \in [Calls -> 0..MaxRevision]
  /\ payload \in [Calls -> Revisions \cup {Torn}]
  /\ touched \in [Calls -> BOOLEAN]
  /\ breach \subseteq {"overlap", "direct", "short"}

\* An update is never missed: when the record says what the server has, so that
\* download_if_new answers "not new", the destination holds it whole.  The content may
\* be newer than the revision reported with it and a failed write leaves ruins, but then
\* the record is behind the server and the next update downloads again; unless calls
\* overlapped, a direct download failed half-way or a body was cut short.
NothingIsMissed ==
  breach = {} /\ known = rev =>
    file = rev \/ \E c \in Calls : pc[c] = "write" /\ mode[c] = "file"

\* The kind of an error tells whether the destination survived: a call that raised
\* something else than LOCAL_FAILURE has not touched it.
OnlyLocalFailureHurts ==
  \A c \in Calls : pc[c] \in Kinds \ {"LOCAL_FAILURE"} => ~touched[c]

\* An update that succeeds moves the destination forward: it holds a whole content, not
\* older than the revision that is reported with it, and that is newer than the record,
\* unless calls overlapped or a body was cut short.
UpdatesMoveForward ==
  [][ \A c \in Calls :
        pc[c] = "write" /\ pc'[c] = "record" /\ breach' = {} =>
          file' \in Revisions /\ file' >= reported[c] /\ reported[c] > known ]_vars
==============================================================================
