--------------------------- MODULE MCSegmentation ---------------------------
(***************************************************************************)
(* Segmentation on small instances, and the loop of freeSegmentCompaction  *)
(* as it is written, against which AddFree is checked.                     *)
(***************************************************************************)
EXTENDS Segmentation, SequencesExt

Symmetry == Permutations(DTBs) \cup Permutations(Workers)

\* States that differ only in values never read again are one state: the number of an
\* entry that is not in the table, the addresses of a DTB that has ended and has no
\* request on its way.
LiveNext == [d \in DTBs |-> IF d \in known THEN next[d] ELSE 0]
LiveOpened == [d \in DTBs |-> IF status[d] = "ended" /\ d \notin pending THEN {} ELSE opened[d]]
View == <<free, known, LiveNext, segs, storage, job, releasing, dangling, crashed,
          status, pending, killed, closes, LiveOpened>>

\* list_sort with the comparator of sortFreeSegments.
sortFreeSegments(S) == SetToSortSeq(S, LAMBDA s, t : s.base < t.base)

\* The loop of freeSegmentCompaction, from index i on.
RECURSIVE freeSegmentCompaction(_, _)
freeSegmentCompaction(list, i) ==
    IF i + 1 > Len(list) THEN list
    ELSE IF End(list[i]) = list[i + 1].base
      THEN freeSegmentCompaction(
             RemoveAt([list EXCEPT ![i].limit = @ + list[i + 1].limit], i + 1), i)
      ELSE freeSegmentCompaction(list, i + 1)

\* What worker w is about to give back to the list.
GivesBack(w) == IF job[w].pc = "rest" THEN InHand(w) ELSE releasing[w]

\* Whatever a worker is about to give back, the code's add, sort and compact make of
\* the list what AddFree makes of it.
CompactionMerges ==
    \A w \in Workers : \A s \in GivesBack(w) :
        ToSet(freeSegmentCompaction(sortFreeSegments(free \cup {s}), 1)) = AddFree(free, s)
=============================================================================
