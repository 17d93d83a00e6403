----------------------------- MODULE MCFileSystem ------------------------------
(* Instances of FileSystem for TLC. *)
EXTENDS FileSystem, TLC

CONSTANTS p1, p2, t1, t2, nl, v1, v2

MCWrites == {<<v1, v2>>}

\* Once the MDJ has been killed nothing is promised of the answers: states that differ
\* only in them, or in what a file held before, are one state.
Seen(j) ==
    IF ~damaged \/ j.pc = "idle" THEN j
    ELSE IF j.pc = "done" THEN [pc |-> "done"]
    ELSE [j EXCEPT !.was = Absent]
View == <<up, bitmap, disk, [t \in Threads |-> Seen(job[t])], requests, history>>
Symmetry == Permutations(Paths) \cup Permutations(Threads)
=============================================================================
