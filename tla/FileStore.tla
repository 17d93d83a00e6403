------------------------------- MODULE FileStore -------------------------------
(***************************************************************************)
(* What the MDJ promises to those who use its files: MDJ/headers/FSManager.h *)
(* and MDJ/headers/MDJInterface.h.  A file is the sequence of its bytes; a *)
(* request happens at once and then its answer is given.                   *)
(***************************************************************************)
EXTENDS Integers, Sequences

CONSTANTS
    Paths,      \* the names files may have
    Threads,    \* the threads that serve requests
    Newline,    \* the byte a new file is filled with
    Sizes,      \* the sizes files are created with
    Writes,     \* the buffers that are written
    Lengths,    \* the amounts of bytes that are asked for
    Absent,     \* a path without a file
    Unspecified \* what is known of the files once the MDJ has been killed

VARIABLES
    files,      \* files[p]: the bytes of p
    answer      \* answer[t]: what t answers with: a code, and the bytes read

OK == 0
EXISTING_FILE == 1
METADATA_CREATE_ERROR == 2
INSUFFICIENT_SPACE == 10
METADATA_OPEN_ERROR == 11
FILE_NOT_EXISTS == 12
NOT_FOUND == 404

Known(p) == files # Unspecified /\ files[p] # Absent
Code(r) == [code |-> r, bytes |-> <<>>]
None == Code(-1)
Answers(t, r) == answer[t] = None /\ answer' = [answer EXCEPT ![t] = r]

\* The n bytes of s from offset on, or as many as there are.
Window(s, offset, n) ==
    SubSeq(s, offset + 1, IF offset + n <= Len(s) THEN offset + n ELSE Len(s))
\* The bytes of s with those of buffer from offset on.
Written(s, offset, buffer) ==
    SubSeq(s, 1, offset) \o buffer \o SubSeq(s, offset + Len(buffer) + 1, Len(s))

Check(t, p) ==
    /\ files # Unspecified
    /\ Answers(t, Code(IF Known(p) THEN 1 ELSE 0))
    /\ UNCHANGED files

Create(t, p, n) ==
    /\ files # Unspecified
    /\ IF Known(p)
         THEN Answers(t, Code(EXISTING_FILE)) /\ UNCHANGED files
         ELSE /\ Answers(t, Code(OK))
              /\ files' = [files EXCEPT ![p] = [i \in 1 .. n |-> Newline]]

Get(t, p, offset, n) ==
    /\ files # Unspecified
    /\ Answers(t, IF Known(p)
                    THEN [code |-> OK, bytes |-> Window(files[p], offset, n)]
                    ELSE Code(NOT_FOUND))
    /\ UNCHANGED files

Put(t, p, offset, buffer) ==
    /\ Known(p) /\ offset <= Len(files[p])
    /\ Answers(t, Code(OK))
    /\ files' = [files EXCEPT ![p] = Written(@, offset, buffer)]

Delete(t, p) ==
    /\ Known(p)
    /\ Answers(t, Code(OK))
    /\ files' = [files EXCEPT ![p] = Absent]

\* Put and Delete of a file that is not there.
Missing(t, p) ==
    /\ files # Unspecified /\ ~Known(p)
    /\ Answers(t, Code(FILE_NOT_EXISTS))
    /\ UNCHANGED files

\* A Create or a Put that there is no room for, or that the disk refuses.
Refuse(t) ==
    /\ files # Unspecified
    /\ \E r \in {INSUFFICIENT_SPACE, METADATA_CREATE_ERROR, METADATA_OPEN_ERROR} : Answers(t, Code(r))
    /\ UNCHANGED files

Reply(t) ==
    /\ answer[t] # None
    /\ answer' = [answer EXCEPT ![t] = None]
    /\ UNCHANGED files

\* The MDJ is killed, or falls: nothing is promised of what comes after.
Kill == files' = Unspecified /\ answer' = [t \in Threads |-> None]

Init == files = [p \in Paths |-> Absent] /\ answer = [t \in Threads |-> None]

Offsets(p) == IF Known(p) THEN 0 .. Len(files[p]) ELSE {0}
\* A step gives, or ends, the answer of one thread; or it is a kill.
Next ==
    \/ \E t \in Threads :
          /\ answer'[t] # answer[t]
          /\ \/ Refuse(t) \/ Reply(t)
             \/ \E p \in Paths :
                   \/ Check(t, p) \/ Delete(t, p) \/ Missing(t, p)
                   \/ \E n \in Sizes : Create(t, p, n)
                   \/ \E offset \in Offsets(p), n \in Lengths : Get(t, p, offset, n)
                   \/ \E offset \in Offsets(p), b \in Writes : Put(t, p, offset, b)
    \/ Kill

Spec == Init /\ [][Next]_<<files, answer>>
=============================================================================
