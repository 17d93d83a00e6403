-------------------------- MODULE Segmentation_proofs --------------------------
(***************************************************************************)
(* The memory of FM9 under segmentation, for any number of DTBs, workers   *)
(* and lines: the free list stays in segments that do not touch, no line   *)
(* has two owners, what is written for an open file stays in its lines,    *)
(* and no DTB has two files with one number.                               *)
(***************************************************************************)
EXTENDS Segmentation, TLAPS

-----------------------------------------------------------------------------
(***************************************************************************)
(* addFreeSegment.                                                         *)
(***************************************************************************)
\* The ends of the merged segment are its own or those of the neighbours it meets.
LEMMA MergedEnds ==
    ASSUME NEW S \in SUBSET Hole, NEW s \in Hole
    PROVE  /\ \/ Lower(S, s) = s.base /\ \A h \in S : End(h) # s.base
              \/ \E h \in S : End(h) = s.base /\ Lower(S, s) = h.base
           /\ \/ Upper(S, s) = End(s) /\ \A h \in S : h.base # End(s)
              \/ \E h \in S : h.base = End(s) /\ Upper(S, s) = End(h)
<1>1. ASSUME NEW h \in S, End(h) = s.base
      PROVE  LET g == CHOOSE g \in S : End(g) = s.base
             IN  g \in S /\ End(g) = s.base
  BY <1>1
<1>2. ASSUME NEW h \in S, h.base = End(s)
      PROVE  LET g == CHOOSE g \in S : g.base = End(s)
             IN  g \in S /\ g.base = End(s)
  BY <1>2
<1> QED BY <1>1, <1>2 DEF Lower, Upper

\* A merged segment lies in the memory and covers the segment that was added.
LEMMA MergedIsHole ==
    ASSUME NEW S \in SUBSET Hole, NEW s \in Hole
    PROVE  /\ Merged(S, s) \in Hole
           /\ Merged(S, s).base = Lower(S, s) /\ End(Merged(S, s)) = Upper(S, s)
           /\ Lower(S, s) \in Nat /\ Upper(S, s) \in Nat
           /\ Lower(S, s) <= s.base /\ End(s) <= Upper(S, s)
<1> USE BoundsAssumption DEF Hole, End
<1>1. Lower(S, s) \in 0 .. s.base
  BY MergedEnds
<1>2. Upper(S, s) \in End(s) .. Lines
  BY MergedEnds
<1> QED BY <1>1, <1>2 DEF Merged

LEMMA AddFreeType ==
    ASSUME NEW S \in SUBSET Hole, NEW s \in Hole
    PROVE  AddFree(S, s) \in SUBSET Hole
BY MergedIsHole DEF AddFree

\* What was apart from the list and from the segment added is apart from the new list.
LEMMA AddFreeApart ==
    ASSUME NEW S \in SUBSET Hole, NEW s \in Hole, NEW r,
           r.base \in Int, r.limit \in Int, r.limit > 0,
           Apart(r, s), \A h \in S : Apart(r, h)
    PROVE  \A h \in AddFree(S, s) : Apart(r, h)
<1>1. Apart(r, Merged(S, s))
  <2>1. \/ Lower(S, s) = s.base
        \/ \E h \in S : End(h) = s.base /\ Lower(S, s) = h.base
    BY MergedEnds
  <2>2. \/ Upper(S, s) = End(s)
        \/ \E h \in S : h.base = End(s) /\ Upper(S, s) = End(h)
    BY MergedEnds
  <2>3. End(r) <= Lower(S, s) \/ s.base <= r.base
    BY <2>1 DEF Apart, End, Hole
  <2>4. Upper(S, s) <= r.base \/ End(r) <= End(s)
    BY <2>2 DEF Apart, End, Hole
  <2> QED BY <2>3, <2>4, MergedIsHole DEF Apart, End, Hole
<1> QED BY <1>1 DEF AddFree

\* The list stays apart and compacted.
LEMMA AddFreeList ==
    ASSUME NEW S \in SUBSET Hole, NEW s \in Hole,
           \A h, g \in S : h = g \/ Apart(h, g),
           \A h, g \in S : End(h) # g.base,
           \A h \in S : Apart(s, h)
    PROVE  /\ \A h, g \in AddFree(S, s) : h = g \/ Apart(h, g)
           /\ \A h, g \in AddFree(S, s) : End(h) # g.base
<1> DEFINE m == Merged(S, s)
           Rest == {h \in S : End(h) # s.base /\ h.base # End(s)}
<1>0. AddFree(S, s) = Rest \cup {m} /\ m \in Hole
  BY MergedIsHole DEF AddFree
<1>1. ASSUME NEW h \in Rest
      PROVE  Apart(h, m) /\ Apart(m, h)
  <2>1. \/ Lower(S, s) = s.base
        \/ \E g \in S : End(g) = s.base /\ Lower(S, s) = g.base /\ Apart(h, g)
    BY MergedEnds
  <2>2. \/ Upper(S, s) = End(s)
        \/ \E g \in S : g.base = End(s) /\ Upper(S, s) = End(g) /\ Apart(h, g)
    BY MergedEnds
  <2>3. h \in Hole /\ Apart(s, h)
    OBVIOUS
  <2>4. End(h) <= Lower(S, s) \/ s.base <= h.base
    BY <2>1, <2>3 DEF Apart, End, Hole
  <2>5. Upper(S, s) <= h.base \/ End(h) <= End(s)
    BY <2>2, <2>3 DEF Apart, End, Hole
  <2> QED BY <2>3, <2>4, <2>5, MergedIsHole DEF Apart, End, Hole
<1>2. ASSUME NEW h \in Rest
      PROVE  End(h) # m.base /\ End(m) # h.base
  BY MergedEnds, MergedIsHole
<1>3. End(m) # m.base
  BY <1>0 DEF End, Hole
<1> QED BY <1>0, <1>1, <1>2, <1>3

-----------------------------------------------------------------------------
(***************************************************************************)
(* Type correctness.                                                       *)
(***************************************************************************)
AnyJob == {Idle} \cup OpenJob \cup RestJob \cup CloseJob \cup GotJob \cup CloseDTBJob
               \cup FlushJob \cup AsignJob

\* A worker's job is told by its pc.
LEMMA JobKinds ==
    ASSUME TypeOK, NEW w \in Workers
    PROVE  /\ job[w].pc \in Filing => job[w] \in OpenJob
           /\ job[w].pc = "rest" => job[w] \in RestJob
           /\ job[w].pc \in {"close", "back"} => job[w] \in CloseJob
           /\ job[w].pc = "got" => job[w] \in GotJob
           /\ job[w].pc \in {"remove", "release"} => job[w] \in CloseDTBJob
           /\ job[w].pc = "read" => job[w] \in FlushJob
           /\ job[w].pc = "assign" => job[w] \in AsignJob
           /\ job[w].pc \in {"idle", "rest", "close", "got", "back", "remove", "release",
                              "read", "assign"} \cup Filing
BY DEF TypeOK, Idle, OpenJob, RestJob, CloseJob, GotJob, CloseDTBJob, FlushJob, AsignJob, Filing

LEMMA ServeType ==
    ASSUME TypeOK, NEW w \in Workers, NEW j \in AnyJob, Serve(w, j)
    PROVE  job' \in [Workers -> AnyJob]
BY DEF TypeOK, Serve, AnyJob

LEMMA FailsType ==
    ASSUME TypeOK, NEW d \in DTBs, Fails(d) \/ Succeeds(d)
    PROVE  /\ status' \in [DTBs -> {"new", "running", "waiting", "ended"}]
           /\ closes' \in [DTBs -> Nat]
<1>1. status \in [DTBs -> {"new", "running", "waiting", "ended"}] /\ closes \in [DTBs -> Nat]
  BY DEF TypeOK
<1>2. CASE Fails(d)
  BY <1>1, <1>2 DEF Fails
<1>3. CASE Succeeds(d)
  <2>1. Answered(d) \in {"new", "running", "waiting", "ended"}
    BY <1>1 DEF Answered
  <2> QED BY <1>1, <1>3, <2>1 DEF Succeeds
<1> QED BY <1>2, <1>3

LEMMA TypeInit == Init => TypeOK
<1> SUFFICES ASSUME Init PROVE TypeOK
  OBVIOUS
<1>1. free \subseteq Hole
  BY BoundsAssumption DEF Init, Hole, End
<1>2. crashed \in BOOLEAN
  BY DEF Init
<1> QED BY <1>1, <1>2 DEF Init, TypeOK

LEMMA TypeNext == TypeOK /\ [Next]_vars => TypeOK'
<1> SUFFICES ASSUME TypeOK, [Next]_vars PROVE TypeOK'
  OBVIOUS
<1> USE BoundsAssumption
<1>t. TypeOK
  OBVIOUS
<1>1. ASSUME NEW d \in DTBs, AskDAM(d) PROVE TypeOK'
  BY <1>1 DEF AskDAM, TypeOK, memory
<1>2. ASSUME NEW d \in DTBs, CPU_EndDTB(d) PROVE TypeOK'
  BY <1>2, FailsType DEF CPU_EndDTB, TypeOK, memory
<1>3. ASSUME NEW d \in DTBs, CommandFinalizar(d) PROVE TypeOK'
  BY <1>3 DEF CommandFinalizar, TypeOK, memory
<1>4. ASSUME NEW d \in DTBs, EndKilled(d) PROVE TypeOK'
  BY <1>4 DEF EndKilled, TypeOK, memory
<1>5. ASSUME NEW w \in Workers, NEW d \in DTBs, NEW n \in 1 .. MaxFile, OpenRefused(w, d, n)
      PROVE  TypeOK'
  BY <1>5, FailsType DEF OpenRefused, OpenArrives, TypeOK
<1>6. ASSUME NEW w \in Workers, NEW d \in DTBs, NEW n \in 1 .. MaxFile, OpenTakes(w, d, n)
      PROVE  TypeOK'
  <2>1. PICK h \in free : /\ IsFirstFit(h, n) /\ free' = free \ {h}
                          /\ Serve(w, [pc |-> "write", dtb |-> d, lines |-> n, at |-> 0, hole |-> h])
    BY <1>6 DEF OpenTakes
  <2>2. h \in Hole /\ n <= h.limit
    BY <2>1 DEF TypeOK, IsFirstFit, Fits
  <2>3. [pc |-> "write", dtb |-> d, lines |-> n, at |-> 0, hole |-> h] \in AnyJob
    BY <2>2 DEF AnyJob, OpenJob, Filing, Hole
  <2>4. job' \in [Workers -> AnyJob]
    BY <2>1, <2>3, ServeType
  <2> QED BY <1>6, <2>1, <2>4 DEF OpenTakes, OpenArrives, TypeOK, AnyJob
<1>7. ASSUME NEW w \in Workers, OpenWrites(w) PROVE TypeOK'
  <2>1. job[w] \in OpenJob /\ job[w].at < job[w].lines
    BY <1>7, JobKinds DEF OpenWrites, Active, Filing, OpenJob
  <2> DEFINE k == [job[w] EXCEPT
                     !.at = @ + 1,
                     !.pc = IF job[w].at + 1 = job[w].lines THEN "find" ELSE "write"]
  <2>2. k \in AnyJob
    <3>1. job[w].at + 1 \in 0 .. Lines /\ job[w].at + 1 <= job[w].lines
      BY <2>1 DEF OpenJob
    <3>2. /\ k.at = job[w].at + 1 /\ k.lines = job[w].lines /\ k.hole = job[w].hole
          /\ k.pc = IF job[w].at + 1 = job[w].lines THEN "find" ELSE "write"
          /\ k \in [pc : Filing, dtb : DTBs, lines : 1 .. Lines, at : 0 .. Lines, hole : Hole]
      BY <2>1, <3>1 DEF OpenJob, Filing
    <3>3. job[w].lines <= job[w].hole.limit
      BY <2>1 DEF OpenJob
    <3>4. IF k.pc = "write" THEN k.at < k.lines ELSE k.at = k.lines
      BY <3>1, <3>2, <2>1 DEF OpenJob
    <3>5. k \in OpenJob
      BY <3>1, <3>2, <3>3, <3>4 DEF OpenJob
    <3> QED BY <3>5 DEF AnyJob
  <2>3. job' \in [Workers -> AnyJob]
    BY <1>7, <2>2, ServeType DEF OpenWrites
  <2>4. storage' \in [0 .. Lines - 1 -> DTBs \cup {Nobody}]
    BY <1>7, <2>1 DEF OpenWrites, TypeOK, OpenJob
  <2> QED BY <1>7, <2>3, <2>4 DEF OpenWrites, clients, TypeOK, AnyJob
<1>8. ASSUME NEW w \in Workers, OpenFinds(w) PROVE TypeOK'
  <2>1. job[w] \in OpenJob /\ job[w].at = job[w].lines
    BY <1>8, JobKinds DEF OpenFinds, Active, Filing, OpenJob
  <2>2. [job[w] EXCEPT !.pc = "file"] \in AnyJob
    BY <2>1 DEF AnyJob, OpenJob, Filing
  <2>3. job' \in [Workers -> AnyJob]
    BY <1>8, <2>2, ServeType DEF OpenFinds
  <2>4. known' \subseteq DTBs /\ next' \in [DTBs -> Nat] /\ dangling' \subseteq Workers
    <3>1. job[w].dtb \in DTBs
      BY <2>1 DEF OpenJob
    <3>2. \/ UNCHANGED <<known, next, dangling>>
          \/ /\ next' = [next EXCEPT ![job[w].dtb] = 0]
             /\ known' = known \cup {job[w].dtb} \/ UNCHANGED known
             /\ dangling' = dangling \cup {w} \/ UNCHANGED dangling
      BY <1>8 DEF OpenFinds
    <3>3. next \in [DTBs -> Nat] /\ known \subseteq DTBs /\ dangling \subseteq Workers
      BY DEF TypeOK
    <3>4. CASE UNCHANGED <<known, next, dangling>>
      BY <3>3, <3>4
    <3>5. CASE /\ next' = [next EXCEPT ![job[w].dtb] = 0]
               /\ known' = known \cup {job[w].dtb} \/ UNCHANGED known
               /\ dangling' = dangling \cup {w} \/ UNCHANGED dangling
      <4>1. next' \in [DTBs -> Nat]
        BY <3>1, <3>3, <3>5
      <4> QED BY <4>1, <3>1, <3>3, <3>5
    <3> QED BY <3>2, <3>4, <3>5
  <2> QED BY <1>8, <2>3, <2>4 DEF OpenFinds, clients, TypeOK, AnyJob
<1>a. ASSUME NEW w \in Workers, NEW k \in Nat, job[w].pc = "file", FilesRemainder(w, k)
      PROVE  job' \in [Workers -> AnyJob]
  <2>1. job[w] \in OpenJob
    BY <1>a, JobKinds DEF Filing
  <2>2. /\ Remainder(job[w]) \in [base : 0 .. Lines, limit : 0 .. Lines]
        /\ End(Remainder(job[w])) <= Lines
    BY <2>1 DEF Remainder, OpenJob, Hole, End
  <2>3. [pc |-> "rest", dtb |-> job[w].dtb, number |-> k, hole |-> Remainder(job[w])] \in AnyJob
    BY <2>1, <2>2 DEF AnyJob, RestJob, OpenJob
  <2> QED BY <1>a, <2>3, ServeType DEF FilesRemainder
<1>9. ASSUME NEW w \in Workers, OpenFiles(w) PROVE TypeOK'
  <2>1. job[w] \in OpenJob /\ job[w].pc = "file"
    BY <1>9, JobKinds DEF OpenFiles, Active, Filing
  <2>2. next[job[w].dtb] \in Nat
    BY <2>1 DEF TypeOK, OpenJob
  <2>3. Filed(job[w], next[job[w].dtb]) \in Segment
    BY <2>1, <2>2 DEF Filed, OpenJob, Segment, Hole, End
  <2>4. job' \in [Workers -> AnyJob]
    BY <1>9, <1>a, <2>1, <2>2 DEF OpenFiles
  <2>5. segs' \subseteq Segment /\ next' \in [DTBs -> Nat]
    BY <1>9, <2>1, <2>2, <2>3 DEF OpenFiles, TypeOK, OpenJob
  <2> QED BY <1>9, <2>4, <2>5 DEF OpenFiles, clients, TypeOK, AnyJob
<1>10. ASSUME NEW w \in Workers, OpenFilesNowhere(w) PROVE TypeOK'
  <2>1. job[w] \in OpenJob /\ job[w].pc = "file"
    BY <1>10, JobKinds DEF OpenFilesNowhere, Active, Filing
  <2>2. Taken(job[w]) \in Hole
    BY <2>1 DEF Taken, OpenJob, Hole, End
  <2>3. job' \in [Workers -> AnyJob]
    BY <1>10, <1>a, <2>1 DEF OpenFilesNowhere, Numbers, TypeOK, AnyJob
  <2>4. releasing' \in [Workers -> SUBSET Hole] /\ crashed' \in BOOLEAN
    BY <1>10, <2>2 DEF OpenFilesNowhere, TypeOK
  <2> QED BY <1>10, <2>3, <2>4 DEF OpenFilesNowhere, memory, clients, TypeOK, AnyJob
<1>b. Idle \in AnyJob
  BY DEF AnyJob
<1>11. ASSUME NEW w \in Workers, OpenReturns(w) PROVE TypeOK'
  <2>1. job[w] \in RestJob
    BY <1>11, JobKinds DEF OpenReturns, Active
  <2>2. free' \subseteq Hole
    <3>1. job[w].hole.limit # 0 => job[w].hole \in Hole
      BY <2>1 DEF RestJob, Hole, End
    <3> QED BY <1>11, <3>1, AddFreeType DEF OpenReturns, TypeOK
  <2>3. job' \in [Workers -> AnyJob]
    BY <1>11, <1>b, ServeType DEF OpenReturns
  <2>4. job[w].dtb \in DTBs /\ opened' \in [DTBs -> SUBSET Nat]
    BY <1>11, <2>1 DEF OpenReturns, TypeOK, RestJob
  <2> QED BY <1>11, <2>2, <2>3, <2>4, FailsType DEF OpenReturns, TypeOK, AnyJob
<1>12. ASSUME NEW w \in Workers, NEW d \in DTBs, NEW k \in opened[d], CloseArrives(w, d, k)
       PROVE  TypeOK'
  <2>1. [pc |-> "close", dtb |-> d, number |-> k] \in AnyJob
    BY DEF AnyJob, CloseJob, TypeOK
  <2>2. job' \in [Workers -> AnyJob]
    BY <1>12, <2>1, ServeType DEF CloseArrives, TypeOK, AnyJob
  <2>3. /\ status' \in [DTBs -> {"new", "running", "waiting", "ended"}]
        /\ closes' \in [DTBs -> Nat]
    BY <1>12, FailsType DEF CloseArrives, TypeOK
  <2> QED BY <1>12, <2>2, <2>3 DEF CloseArrives, memory, TypeOK, AnyJob
<1>d. ASSUME NEW w \in Workers, job[w].pc = "got"
      PROVE  /\ job[w] \in GotJob /\ job[w].dtb \in DTBs /\ Removed(w) \in AnyJob
             /\ job[w].found \subseteq Segment
  BY <1>d, JobKinds DEF GotJob, CloseJob, AnyJob, Removed
<1>e. \A s \in Segment : Bare(s) \in Hole
  BY DEF Segment, Hole, End, Bare
<1>13. ASSUME NEW w \in Workers, CloseGets(w) PROVE TypeOK'
  <2>1. job[w] \in CloseJob
    BY <1>13, JobKinds DEF CloseGets, Active
  <2>2. [pc |-> "got", dtb |-> job[w].dtb, number |-> job[w].number,
         found |-> Under(job[w].dtb, job[w].number)] \in AnyJob
    BY <2>1 DEF AnyJob, CloseJob, GotJob, Under, TypeOK
  <2>3. job' \in [Workers -> AnyJob] /\ crashed' \in BOOLEAN
    BY <1>13, <2>2, ServeType DEF CloseGets, TypeOK, AnyJob
  <2> QED BY <1>13, <2>3 DEF CloseGets, memory, clients, TypeOK, AnyJob
<1>26. ASSUME NEW w \in Workers, CloseRemoves(w) PROVE TypeOK'
  <2>1. job' \in [Workers -> AnyJob]
    BY <1>26, <1>d, ServeType DEF CloseRemoves, Active
  <2>2. segs' \subseteq Segment /\ releasing' \in [Workers -> SUBSET Hole]
    BY <1>26, <1>e DEF CloseRemoves, Under, TypeOK
  <2> QED BY <1>26, <2>1, <2>2 DEF CloseRemoves, clients, TypeOK, AnyJob
<1>27. ASSUME NEW w \in Workers, CloseMisses(w) PROVE TypeOK'
  <2>1. job' \in [Workers -> AnyJob] /\ job[w].dtb \in DTBs
    BY <1>27, <1>b, <1>d, ServeType DEF CloseMisses, Active
  <2> QED BY <1>27, <2>1, FailsType DEF CloseMisses, memory, TypeOK, AnyJob
<1>28. ASSUME NEW w \in Workers, CloseOvertakes(w) PROVE TypeOK'
  <2>1. job' \in [Workers -> AnyJob]
    BY <1>28, <1>d, ServeType DEF CloseOvertakes, Active
  <2>2. PICK s \in job[w].found, v \in Workers \ {w} :
           releasing' = [releasing EXCEPT ![v] = @ \ {Bare(s)}, ![w] = {Bare(s)}]
    BY <1>28 DEF CloseOvertakes
  <2>3. Bare(s) \in Hole
    BY <1>28, <1>d, <1>e DEF CloseOvertakes, Active
  <2>4. releasing' \in [Workers -> SUBSET Hole]
    BY <2>2, <2>3 DEF TypeOK
  <2> QED BY <1>28, <2>1, <2>4 DEF CloseOvertakes, memory, clients, TypeOK, AnyJob
<1>29. ASSUME NEW w \in Workers, CloseFreesTwice(w) PROVE TypeOK'
  <2>1. job' \in [Workers -> AnyJob]
    BY <1>29, <1>d, ServeType DEF CloseFreesTwice, Active
  <2>2. releasing' \in [Workers -> SUBSET Hole]
    BY <1>29, <1>d, <1>e DEF CloseFreesTwice, Active, TypeOK
  <2> QED BY <1>29, <2>1, <2>2 DEF CloseFreesTwice, memory, clients, TypeOK, AnyJob
<1>30. ASSUME NEW w \in Workers, CloseFalls(w) PROVE TypeOK'
  BY <1>30 DEF CloseFalls, memory, clients, TypeOK
<1>c. ASSUME NEW w \in Workers, NEW s \in releasing[w], Frees(w, s)
      PROVE  free' \subseteq Hole /\ releasing' \in [Workers -> SUBSET Hole]
  BY <1>c, AddFreeType DEF Frees, TypeOK
<1>14. ASSUME NEW w \in Workers, CloseFrees(w) PROVE TypeOK'
  <2>1. job[w] \in CloseJob
    BY <1>14, JobKinds DEF CloseFrees, Active
  <2>2. job' \in [Workers -> AnyJob]
    BY <1>14, <1>b, ServeType DEF CloseFrees
  <2>3. job[w].dtb \in DTBs /\ opened' \in [DTBs -> SUBSET Nat]
    BY <1>14, <2>1 DEF CloseFrees, TypeOK, CloseJob
  <2> QED BY <1>14, <1>c, <2>2, <2>3, FailsType DEF CloseFrees, Frees, TypeOK, AnyJob
<1>15. ASSUME NEW w \in Workers, NEW d \in DTBs, CloseDTBArrives(w, d) PROVE TypeOK'
  <2>1. [pc |-> "remove", dtb |-> d] \in AnyJob
    BY DEF AnyJob, CloseDTBJob
  <2>2. job' \in [Workers -> AnyJob]
    BY <1>15, <2>1, ServeType DEF CloseDTBArrives, TypeOK, AnyJob
  <2> QED BY <1>15, <2>2 DEF CloseDTBArrives, memory, TypeOK, AnyJob
<1>16. ASSUME NEW w \in Workers, CloseDTBRemoves(w) PROVE TypeOK'
  <2>1. job[w] \in CloseDTBJob
    BY <1>16, JobKinds DEF CloseDTBRemoves, Active
  <2>2. [job[w] EXCEPT !.pc = "release"] \in AnyJob
    BY <2>1 DEF AnyJob, CloseDTBJob
  <2>3. job' \in [Workers -> AnyJob]
    BY <1>16, <2>2, ServeType DEF CloseDTBRemoves, TypeOK, AnyJob
  <2>5. /\ known' \subseteq DTBs /\ segs' \subseteq Segment /\ dangling' \subseteq Workers
        /\ releasing' \in [Workers -> SUBSET Hole] /\ crashed' \in BOOLEAN
    <3>1. crashed' \in BOOLEAN
      BY <1>16 DEF CloseDTBRemoves, TypeOK
    <3>2. dangling' \subseteq Workers
      BY <1>16 DEF CloseDTBRemoves, TypeOK
    <3>3. known' \subseteq known /\ segs' \subseteq segs
      BY <1>16 DEF CloseDTBRemoves
    <3>4. {Bare(s) : s \in {t \in segs : t.dtb = job[w].dtb}} \subseteq Hole
      BY <1>e DEF TypeOK
    <3>5. releasing' \in [Workers -> SUBSET Hole]
      BY <1>16, <3>4 DEF CloseDTBRemoves, TypeOK
    <3> QED BY <3>1, <3>2, <3>3, <3>5 DEF TypeOK
  <2> QED BY <1>16, <2>3, <2>5 DEF CloseDTBRemoves, clients, TypeOK, AnyJob
<1>17. ASSUME NEW w \in Workers, CloseDTBFrees(w) PROVE TypeOK'
  BY <1>17, <1>c DEF CloseDTBFrees, Frees, TypeOK
<1>18. ASSUME NEW w \in Workers, CloseDTBEnds(w) PROVE TypeOK'
  <2>1. job' \in [Workers -> AnyJob]
    BY <1>18, <1>b, ServeType DEF CloseDTBEnds
  <2> QED BY <1>18, <2>1 DEF CloseDTBEnds, memory, clients, TypeOK, AnyJob
<1>19. ASSUME NEW w \in Workers, NEW d \in DTBs, NEW k \in opened[d], FlushArrives(w, d, k)
       PROVE  TypeOK'
  <2>1. \A s \in segs : [pc |-> "read", dtb |-> d, seg |-> s, at |-> 0, got |-> {}] \in AnyJob
    BY DEF AnyJob, FlushJob, TypeOK
  <2>2. job' \in [Workers -> AnyJob]
    BY <1>19, <2>1, ServeType DEF FlushArrives, Under, TypeOK, AnyJob
  <2>3. /\ status' \in [DTBs -> {"new", "running", "waiting", "ended"}]
        /\ closes' \in [DTBs -> Nat]
    BY <1>19, FailsType DEF FlushArrives, TypeOK
  <2> QED BY <1>19, <2>2, <2>3 DEF FlushArrives, memory, TypeOK, AnyJob
<1>20. ASSUME NEW w \in Workers, FlushReads(w) PROVE TypeOK'
  <2>1. job[w] \in FlushJob
    BY <1>20, JobKinds DEF FlushReads, Active
  <2>2. job[w].at < Lines /\ storage[job[w].seg.base + job[w].at] \in DTBs \cup {Nobody}
    BY <1>20, <2>1 DEF FlushReads, FlushJob, Segment, TypeOK
  <2>3. [job[w] EXCEPT !.at = @ + 1,
                       !.got = @ \cup {storage[job[w].seg.base + job[w].at]}] \in AnyJob
    <3>1. job[w].at + 1 \in 0 .. Lines
      BY <2>1, <2>2 DEF FlushJob
    <3>2. job[w].got \cup {storage[job[w].seg.base + job[w].at]} \in SUBSET (DTBs \cup {Nobody})
      BY <2>1, <2>2 DEF FlushJob
    <3> QED BY <2>1, <3>1, <3>2 DEF AnyJob, FlushJob
  <2>4. job' \in [Workers -> AnyJob]
    BY <1>20, <2>3, ServeType DEF FlushReads
  <2> QED BY <1>20, <2>4 DEF FlushReads, memory, clients, TypeOK, AnyJob
<1>21. ASSUME NEW w \in Workers, FlushEnds(w) PROVE TypeOK'
  <2>1. job[w] \in FlushJob
    BY <1>21, JobKinds DEF FlushEnds, Active
  <2>2. job' \in [Workers -> AnyJob]
    BY <1>21, <1>b, ServeType DEF FlushEnds
  <2>3. job[w].dtb \in DTBs
    BY <2>1 DEF FlushJob
  <2> QED BY <1>21, <2>2, <2>3, FailsType DEF FlushEnds, memory, TypeOK, AnyJob
<1>24. ASSUME NEW w \in Workers, NEW d \in DTBs, NEW k \in opened[d], AsignArrives(w, d, k)
       PROVE  TypeOK'
  <2>1. \A s \in segs : \A x \in s.base .. End(s) - 1 :
           [pc |-> "assign", dtb |-> d, line |-> x] \in AnyJob
    BY DEF AnyJob, AsignJob, TypeOK, Segment, End
  <2>2. job' \in [Workers -> AnyJob]
    BY <1>24, <2>1, ServeType DEF AsignArrives, TypeOK, AnyJob
  <2>3. /\ status' \in [DTBs -> {"new", "running", "waiting", "ended"}]
        /\ closes' \in [DTBs -> Nat]
    BY <1>24, FailsType DEF AsignArrives, TypeOK
  <2> QED BY <1>24, <2>2, <2>3 DEF AsignArrives, memory, TypeOK, AnyJob
<1>25. ASSUME NEW w \in Workers, AsignWrites(w) PROVE TypeOK'
  <2>1. job[w] \in AsignJob
    BY <1>25, JobKinds DEF AsignWrites, Active
  <2>2. job' \in [Workers -> AnyJob]
    BY <1>25, <1>b, ServeType DEF AsignWrites
  <2>3. job[w].dtb \in DTBs /\ storage' \in [0 .. Lines - 1 -> DTBs \cup {Nobody}]
    BY <1>25, <2>1 DEF AsignWrites, AsignJob, TypeOK
  <2> QED BY <1>25, <2>2, <2>3, FailsType DEF AsignWrites, TypeOK, AnyJob
<1>22. ASSUME NEW w \in Workers, Collides(w) PROVE TypeOK'
  BY <1>22 DEF Collides, memory, clients, TypeOK
<1>23. CASE UNCHANGED vars
  BY <1>23 DEF vars, memory, clients, TypeOK
<1> QED
  BY <1>1, <1>2, <1>3, <1>4, <1>5, <1>6, <1>7, <1>8, <1>9, <1>10, <1>11, <1>12, <1>13, <1>14,
     <1>15, <1>16, <1>17, <1>18, <1>19, <1>20, <1>21, <1>22, <1>23, <1>24, <1>25,
     <1>26, <1>27, <1>28, <1>29, <1>30 DEF Next, Opens

\* Every reachable state has its type: in particular, what any worker carries lies
\* inside the memory, so writeLine and readLine get a line that exists.
THEOREM TypeInvariant == Spec => []TypeOK
BY TypeInit, TypeNext, PTL DEF Spec

\* A worker that does not serve a request keeps what it holds.
LEMMA OthersHold ==
    ASSUME TypeOK, NEW w \in Workers, NEW j, Serve(w, j), NEW v \in Workers \ {w}
    PROVE  job[v]' = job[v] /\ InHand(v)' = InHand(v)
BY DEF TypeOK, Serve, InHand

\* The job served is the worker's.
LEMMA ServedJob ==
    ASSUME TypeOK, NEW w \in Workers, NEW j, Serve(w, j)
    PROVE  job[w]' = j
BY DEF TypeOK, Serve

-----------------------------------------------------------------------------
(***************************************************************************)
(* A DTB that the console has not been told to finish asks one thing at a  *)
(* time, and its memory is only released when it has ended.                *)
(***************************************************************************)
Asking == Filing \cup {"rest", "close", "got", "back", "assign", "read"}
Closing == {"remove", "release"}
Asks(w, d) == job[w].pc \in Asking /\ job[w].dtb = d
Releases(w, d) == job[w].pc \in Closing /\ job[w].dtb = d

OneRequest ==
    \A d \in DTBs \ killed :
        /\ d \in pending => status[d] = "waiting"
        /\ closes[d] > 0 => status[d] = "ended"
        /\ \A w \in Workers :
              /\ Releases(w, d) => status[d] = "ended"
              /\ Asks(w, d) => status[d] = "waiting" /\ d \notin pending
              /\ Asks(w, d) => \A v \in Workers : Asks(v, d) => v = w

\* A step of worker w's job that is about c alone.
LEMMA RequestsServe ==
    ASSUME TypeOK, OneRequest, killed' = killed, NEW w \in Workers, NEW c \in DTBs,
           NEW j, Serve(w, j), j.pc \in Asking \cup Closing => j.dtb = c,
           \A d \in DTBs \ {c} : /\ status'[d] = status[d] /\ closes'[d] = closes[d]
                                 /\ d \in pending' => d \in pending,
           c \notin killed =>
              /\ c \in pending' => status'[c] = "waiting"
              /\ closes'[c] > 0 => status'[c] = "ended"
              /\ j.pc \in Closing => status'[c] = "ended"
              /\ j.pc \in Asking => status'[c] = "waiting" /\ c \notin pending'
              /\ \A v \in Workers \ {w} :
                    /\ Releases(v, c) => status'[c] = "ended"
                    /\ Asks(v, c) => /\ status'[c] = "waiting" /\ c \notin pending'
                                     /\ j.pc \notin Asking
    PROVE  OneRequest'
<1>1. job[w]' = j /\ \A v \in Workers \ {w} : job[v]' = job[v]
  BY ServedJob, OthersHold
<1>2. Asking \cap Closing = {}
  BY DEF Asking, Closing, Filing
<1>3. ASSUME NEW d \in DTBs \ killed, d # c
      PROVE  /\ d \in pending' => status'[d] = "waiting"
             /\ closes'[d] > 0 => status'[d] = "ended"
             /\ \A u \in Workers :
                   /\ Releases(u, d)' => status'[d] = "ended"
                   /\ Asks(u, d)' => status'[d] = "waiting" /\ d \notin pending'
                   /\ Asks(u, d)' => \A v \in Workers : Asks(v, d)' => v = u
  <2>1. \A u \in Workers : /\ Releases(u, d)' => Releases(u, d)
                           /\ Asks(u, d)' => Asks(u, d)
    BY <1>1, <1>3 DEF Releases, Asks
  <2> QED BY <1>3, <2>1 DEF OneRequest
<1>4. ASSUME c \notin killed
      PROVE  /\ c \in pending' => status'[c] = "waiting"
             /\ closes'[c] > 0 => status'[c] = "ended"
             /\ \A u \in Workers :
                   /\ Releases(u, c)' => status'[c] = "ended"
                   /\ Asks(u, c)' => status'[c] = "waiting" /\ c \notin pending'
                   /\ Asks(u, c)' => \A v \in Workers : Asks(v, c)' => v = u
  <2>1. /\ Releases(w, c)' => j.pc \in Closing
        /\ Asks(w, c)' => j.pc \in Asking
        /\ \A v \in Workers \ {w} : /\ Releases(v, c)' <=> Releases(v, c)
                                    /\ Asks(v, c)' <=> Asks(v, c)
    BY <1>1 DEF Releases, Asks
  <2>2. \A u, v \in Workers \ {w} : Asks(u, c) /\ Asks(v, c) => u = v
    BY <1>4 DEF OneRequest
  <2> QED BY <1>4, <2>1, <2>2
<1> QED BY <1>3, <1>4 DEF OneRequest

\* The clients stay as they are and nobody takes up a new DTB's request.
LEMMA RequestsStay ==
    ASSUME OneRequest, UNCHANGED <<status, pending, killed, closes>>,
           \A v \in Workers, d \in DTBs : /\ Asks(v, d)' => Asks(v, d)
                                          /\ Releases(v, d)' => Releases(v, d)
    PROVE  OneRequest'
BY DEF OneRequest

LEMMA RequestsGoOn ==
    ASSUME TypeOK, OneRequest, UNCHANGED <<status, pending, killed, closes>>,
           NEW w \in Workers, NEW j, Serve(w, j),
           \/ j.pc \in Asking /\ job[w].pc \in Asking /\ j.dtb = job[w].dtb
           \/ j.pc \in Closing /\ job[w].pc \in Closing /\ j.dtb = job[w].dtb
           \/ j.pc \notin Asking \cup Closing
    PROVE  OneRequest'
<1>1. job[w]' = j /\ \A v \in Workers \ {w} : job[v]' = job[v]
  BY ServedJob, OthersHold
<1>2. Asking \cap Closing = {}
  BY DEF Asking, Closing, Filing
<1> QED BY <1>1, <1>2, RequestsStay DEF Asks, Releases

\* FM9 answers, and the DTB goes on or ends.
LEMMA RequestsAnswered ==
    ASSUME TypeOK, OneRequest, NEW w \in Workers, job[w].pc \in Asking, job[w].dtb \in DTBs,
           Serve(w, Idle), Fails(job[w].dtb) \/ Succeeds(job[w].dtb), UNCHANGED <<pending, killed>>
    PROVE  OneRequest'
<1> DEFINE c == job[w].dtb
<1>1. \A d \in DTBs \ {c} : status'[d] = status[d] /\ closes'[d] = closes[d]
  BY DEF Fails, Succeeds, TypeOK
<1>2. ASSUME c \notin killed
      PROVE  /\ status[c] = "waiting" /\ c \notin pending
             /\ \A v \in Workers \ {w} : ~Asks(v, c) /\ ~Releases(v, c)
             /\ closes'[c] > 0 => status'[c] = "ended"
  <2>1. Asks(w, c) /\ status[c] = "waiting" /\ c \notin pending
    BY <1>2 DEF OneRequest, Asks
  <2>2. \A v \in Workers \ {w} : ~Asks(v, c) /\ ~Releases(v, c)
    BY <1>2, <2>1 DEF OneRequest
  <2>3. closes[c] = 0
    <3>1. closes[c] \in Nat
      BY DEF TypeOK
    <3>2. ~(closes[c] > 0)
      BY <1>2, <2>1 DEF OneRequest
    <3> QED BY <3>1, <3>2
  <2>4. CASE Fails(c)
    BY <2>1, <2>2, <2>4 DEF Fails, TypeOK
  <2>5. CASE Succeeds(c)
    BY <2>1, <2>2, <2>3, <2>5 DEF Succeeds
  <2> QED BY <2>4, <2>5
<1>3. Idle.pc \notin Asking \cup Closing
  BY DEF Idle, Asking, Closing, Filing
<1> HIDE DEF c
<1>4. c \in DTBs
  BY DEF c
<1> QED BY <1>1, <1>2, <1>3, <1>4, RequestsServe

\* A DTB's error is told without any worker taking it up.
LEMMA RequestsFail ==
    ASSUME TypeOK, OneRequest, NEW c \in DTBs, Fails(c), UNCHANGED <<killed, job>>,
           pending' \subseteq pending, c \notin pending' \/ c \in killed,
           \A v \in Workers : c \notin killed => ~Asks(v, c)
    PROVE  OneRequest'
<1>1. \A d \in DTBs \ {c} : status'[d] = status[d] /\ closes'[d] = closes[d]
  BY DEF Fails, TypeOK
<1>2. status'[c] = "ended"
  BY DEF Fails, TypeOK
<1>3. \A v \in Workers, d \in DTBs : (Asks(v, d)' <=> Asks(v, d)) /\ (Releases(v, d)' <=> Releases(v, d))
  BY DEF Asks, Releases
<1> QED BY <1>1, <1>2, <1>3 DEF OneRequest

\* A request of a DTB that was not served yet is taken up.
LEMMA RequestsTaken ==
    ASSUME TypeOK, OneRequest, NEW w \in Workers, NEW c \in DTBs, NEW j, Serve(w, j),
           j.pc \in Asking, j.dtb = c, UNCHANGED <<killed, closes>>,
           c \in pending \/ status[c] = "running",
           pending' = pending \ {c}, status' = [status EXCEPT ![c] = "waiting"] \/ 
             (c \in pending /\ UNCHANGED status)
    PROVE  OneRequest'
<1>1. \A d \in DTBs \ {c} : status'[d] = status[d]
  BY DEF TypeOK
<1>2. ASSUME c \notin killed
      PROVE  /\ status'[c] = "waiting" /\ closes[c] = 0
             /\ \A v \in Workers : ~Asks(v, c) /\ ~Releases(v, c)
  <2>1. status[c] # "ended" /\ status'[c] = "waiting"
    BY <1>2 DEF OneRequest, TypeOK
  <2> QED BY <1>2, <2>1 DEF OneRequest, TypeOK
<1>3. j.pc \notin Closing
  BY DEF Asking, Closing, Filing
<1> QED BY <1>1, <1>2, <1>3, RequestsServe

LEMMA RequestsInit == Init => OneRequest
BY DEF Init, OneRequest, Asks, Releases, Asking, Closing, Filing, Idle

LEMMA RequestsNext == TypeOK /\ OneRequest /\ [Next]_vars => OneRequest'
<1> SUFFICES ASSUME TypeOK, OneRequest, [Next]_vars PROVE OneRequest'
  OBVIOUS
<1>a. Idle.pc \notin Asking \cup Closing /\ Filing \subseteq Asking
  BY DEF Idle, Asking, Closing, Filing
<1>s. ASSUME UNCHANGED <<status, pending, killed, closes, job>> PROVE OneRequest'
  BY <1>s, RequestsStay DEF Asks, Releases
<1>1. ASSUME NEW d \in DTBs, AskDAM(d) PROVE OneRequest'
  <2>1. \A c \in DTBs \ {d} : status'[c] = status[c] /\ (c \in pending' <=> c \in pending)
    BY <1>1 DEF AskDAM, TypeOK
  <2>2. status'[d] = "waiting" /\ status[d] \notin {"ended", "waiting"}
        /\ UNCHANGED <<job, killed, closes>>
    BY <1>1 DEF AskDAM, TypeOK
  <2>3. \A v \in Workers, c \in DTBs : (Asks(v, c)' <=> Asks(v, c)) /\ (Releases(v, c)' <=> Releases(v, c))
    BY <2>2 DEF Asks, Releases
  <2> QED BY <2>1, <2>2, <2>3 DEF OneRequest
<1>2. ASSUME NEW d \in DTBs, CPU_EndDTB(d) PROVE OneRequest'
  <2>1. /\ Fails(d) /\ UNCHANGED <<killed, job, pending>> /\ status[d] # "waiting"
    BY <1>2 DEF CPU_EndDTB
  <2>2. d \notin killed => d \notin pending /\ \A v \in Workers : ~Asks(v, d)
    BY <2>1 DEF OneRequest
  <2> QED BY <2>1, <2>2, RequestsFail
<1>3. ASSUME NEW d \in DTBs, CommandFinalizar(d) PROVE OneRequest'
  <2>1. /\ killed' = killed \cup {d} /\ UNCHANGED <<status, pending, job>>
        /\ \A c \in DTBs \ {d} : closes'[c] = closes[c]
    BY <1>3 DEF CommandFinalizar, TypeOK
  <2>2. \A v \in Workers, c \in DTBs : (Asks(v, c)' <=> Asks(v, c)) /\ (Releases(v, c)' <=> Releases(v, c))
    BY <2>1 DEF Asks, Releases
  <2> QED BY <2>1, <2>2 DEF OneRequest
<1>4. ASSUME NEW d \in DTBs, EndKilled(d) PROVE OneRequest'
  <2>1. /\ d \in killed /\ UNCHANGED <<killed, pending, job, closes>>
        /\ \A c \in DTBs \ {d} : status'[c] = status[c]
    BY <1>4 DEF EndKilled, TypeOK
  <2>2. \A v \in Workers, c \in DTBs : (Asks(v, c)' <=> Asks(v, c)) /\ (Releases(v, c)' <=> Releases(v, c))
    BY <2>1 DEF Asks, Releases
  <2> QED BY <2>1, <2>2 DEF OneRequest
<1>5. ASSUME NEW w \in Workers, NEW d \in DTBs, NEW n \in 1 .. MaxFile, OpenRefused(w, d, n)
      PROVE  OneRequest'
  <2>1. /\ Fails(d) /\ UNCHANGED <<killed, job>> /\ d \in pending /\ pending' = pending \ {d}
    BY <1>5 DEF OpenRefused, OpenArrives
  <2>2. d \notin killed => \A v \in Workers : ~Asks(v, d)
    BY <2>1 DEF OneRequest
  <2> QED BY <2>1, <2>2, RequestsFail
<1>6. ASSUME NEW w \in Workers, NEW d \in DTBs, NEW n \in 1 .. MaxFile, OpenTakes(w, d, n)
      PROVE  OneRequest'
  <2>1. PICK h \in free :
           Serve(w, [pc |-> "write", dtb |-> d, lines |-> n, at |-> 0, hole |-> h])
    BY <1>6 DEF OpenTakes
  <2> QED BY <1>6, <2>1, RequestsTaken DEF OpenTakes, OpenArrives, Asking, Filing
<1>7. ASSUME NEW w \in Workers, OpenWrites(w) PROVE OneRequest'
  <2> DEFINE j == [job[w] EXCEPT !.at = @ + 1,
                     !.pc = IF job[w].at + 1 = job[w].lines THEN "find" ELSE "write"]
  <2>1. job[w] \in OpenJob /\ Serve(w, j) /\ UNCHANGED <<status, pending, killed, closes>>
    BY <1>7, JobKinds DEF OpenWrites, Active, Filing, clients
  <2>2. j.pc \in Filing /\ job[w].pc \in Filing /\ j.dtb = job[w].dtb
    BY <2>1 DEF OpenJob, Filing
  <2> HIDE DEF j
  <2> QED BY <1>a, <2>1, <2>2, RequestsGoOn
<1>8. ASSUME NEW w \in Workers, OpenFinds(w) PROVE OneRequest'
  <2> DEFINE j == [job[w] EXCEPT !.pc = "file"]
  <2>1. job[w] \in OpenJob /\ Serve(w, j) /\ UNCHANGED <<status, pending, killed, closes>>
    BY <1>8, JobKinds DEF OpenFinds, Active, Filing, clients
  <2>2. j.pc \in Filing /\ job[w].pc \in Filing /\ j.dtb = job[w].dtb
    BY <2>1 DEF OpenJob, Filing
  <2> HIDE DEF j
  <2> QED BY <1>a, <2>1, <2>2, RequestsGoOn
<1>f. ASSUME NEW w \in Workers, NEW k, job[w].pc = "file", FilesRemainder(w, k),
             UNCHANGED <<status, pending, killed, closes>>
      PROVE  OneRequest'
  BY <1>f, RequestsGoOn DEF FilesRemainder, Asking, Filing
<1>9. ASSUME NEW w \in Workers, OpenFiles(w) PROVE OneRequest'
  BY <1>9, <1>f DEF OpenFiles, Active, clients
<1>10. ASSUME NEW w \in Workers, OpenFilesNowhere(w) PROVE OneRequest'
  BY <1>10, <1>f, <1>s DEF OpenFilesNowhere, Active, clients
<1>11. ASSUME NEW w \in Workers, OpenReturns(w) PROVE OneRequest'
  <2>1. job[w].pc \in Asking /\ job[w].dtb \in DTBs
    BY <1>11, JobKinds DEF OpenReturns, Active, RestJob, Asking
  <2> QED BY <1>11, <2>1, RequestsAnswered DEF OpenReturns
<1>t. ASSUME NEW w \in Workers, NEW d \in DTBs, NEW j, Serve(w, j), j.pc \in Asking, j.dtb = d,
             status[d] = "running", status' = [status EXCEPT ![d] = "waiting"],
             UNCHANGED <<pending, killed, closes>>
      PROVE  OneRequest'
  <2>1. \A c \in DTBs \ {d} : status'[c] = status[c] /\ closes'[c] = closes[c]
    BY <1>t DEF TypeOK
  <2>2. status'[d] = "waiting" /\ closes'[d] = closes[d]
    BY <1>t DEF TypeOK
  <2>3. d \notin killed => /\ ~(closes[d] > 0) /\ d \notin pending
                           /\ \A v \in Workers : ~Asks(v, d) /\ ~Releases(v, d)
    BY <1>t DEF OneRequest
  <2>4. j.pc \notin Closing
    BY <1>t DEF Asking, Closing, Filing
  <2> QED BY <1>t, <2>1, <2>2, <2>3, <2>4, RequestsServe
<1>u. ASSUME NEW d \in DTBs, status[d] = "running", Fails(d), UNCHANGED <<job, pending, killed>>
      PROVE  OneRequest'
  <2>1. d \notin killed => d \notin pending /\ \A v \in Workers : ~Asks(v, d)
    BY <1>u DEF OneRequest
  <2> QED BY <1>u, <2>1, RequestsFail
<1>12. ASSUME NEW w \in Workers, NEW d \in DTBs, NEW k \in opened[d], CloseArrives(w, d, k)
       PROVE  OneRequest'
  <2>1. CASE d \in known
    BY <1>12, <2>1, <1>t DEF CloseArrives, Asking
  <2>2. CASE d \notin known
    BY <1>12, <2>2, <1>u DEF CloseArrives
  <2> QED BY <2>1, <2>2
<1>13. ASSUME NEW w \in Workers, CloseGets(w) PROVE OneRequest'
  <2>1. CASE UNCHANGED job
    BY <1>13, <2>1, <1>s DEF CloseGets, clients
  <2>2. ASSUME NEW F,
               Serve(w, [pc |-> "got", dtb |-> job[w].dtb, number |-> job[w].number, found |-> F])
        PROVE  OneRequest'
    BY <1>13, <2>2, RequestsGoOn DEF CloseGets, Active, Asking, clients
  <2> QED BY <1>13, <2>1, <2>2 DEF CloseGets
<1>d. ASSUME NEW w \in Workers, job[w].pc = "got"
      PROVE  /\ job[w].pc \in Asking /\ job[w].dtb \in DTBs
             /\ Removed(w).pc \in Asking /\ Removed(w).dtb = job[w].dtb
  BY <1>d, JobKinds DEF GotJob, Asking, Removed
<1>26. ASSUME NEW w \in Workers, CloseRemoves(w) PROVE OneRequest'
  BY <1>26, <1>d, RequestsGoOn DEF CloseRemoves, Active, clients
<1>27. ASSUME NEW w \in Workers, CloseMisses(w) PROVE OneRequest'
  BY <1>27, <1>d, RequestsAnswered DEF CloseMisses, Active
<1>28. ASSUME NEW w \in Workers, CloseOvertakes(w) PROVE OneRequest'
  BY <1>28, <1>d, RequestsGoOn DEF CloseOvertakes, Active, clients
<1>29. ASSUME NEW w \in Workers, CloseFreesTwice(w) PROVE OneRequest'
  BY <1>29, <1>d, RequestsGoOn DEF CloseFreesTwice, Active, clients
<1>30. ASSUME NEW w \in Workers, CloseFalls(w) PROVE OneRequest'
  BY <1>30, <1>s DEF CloseFalls, clients
<1>14. ASSUME NEW w \in Workers, CloseFrees(w) PROVE OneRequest'
  <2>1. job[w].pc \in Asking /\ job[w].dtb \in DTBs
    BY <1>14, JobKinds DEF CloseFrees, Active, CloseJob, Asking
  <2> QED BY <1>14, <2>1, RequestsAnswered DEF CloseFrees, Frees
<1>15. ASSUME NEW w \in Workers, NEW d \in DTBs, CloseDTBArrives(w, d) PROVE OneRequest'
  <2>1. /\ closes[d] > 0 /\ closes[d] \in Nat /\ closes'[d] = closes[d] - 1
        /\ \A c \in DTBs \ {d} : closes'[c] = closes[c]
        /\ UNCHANGED <<status, pending, killed>> /\ job[w].pc = "idle"
    BY <1>15 DEF CloseDTBArrives, Active, TypeOK
  <2>2. d \notin killed => status[d] = "ended" /\ d \notin pending
                           /\ \A v \in Workers : ~Asks(v, d)
    BY <2>1 DEF OneRequest
  <2>3. CASE Serve(w, [pc |-> "remove", dtb |-> d])
    <3>1. "remove" \in Closing /\ "remove" \notin Asking
      BY DEF Asking, Closing, Filing
    <3> QED BY <2>1, <2>2, <2>3, <3>1, RequestsServe
  <2>4. CASE UNCHANGED job
    <3>1. \A v \in Workers, c \in DTBs : (Asks(v, c)' <=> Asks(v, c)) /\ (Releases(v, c)' <=> Releases(v, c))
      BY <2>4 DEF Asks, Releases
    <3> QED BY <2>1, <2>2, <3>1 DEF OneRequest
  <2> QED BY <1>15, <2>3, <2>4 DEF CloseDTBArrives
<1>16. ASSUME NEW w \in Workers, CloseDTBRemoves(w) PROVE OneRequest'
  <2>1. job[w] \in CloseDTBJob /\ UNCHANGED <<status, pending, killed, closes>>
    BY <1>16, JobKinds DEF CloseDTBRemoves, Active, clients
  <2>2. CASE UNCHANGED job
    BY <2>1, <2>2, <1>s
  <2>3. ASSUME Serve(w, [job[w] EXCEPT !.pc = "release"]) PROVE OneRequest'
    <3>1. /\ [job[w] EXCEPT !.pc = "release"].pc \in Closing /\ job[w].pc \in Closing
          /\ [job[w] EXCEPT !.pc = "release"].dtb = job[w].dtb
      BY <2>1 DEF CloseDTBJob, Closing
    <3> QED BY <2>1, <2>3, <3>1, RequestsGoOn
  <2> QED BY <1>16, <2>2, <2>3 DEF CloseDTBRemoves
<1>17. ASSUME NEW w \in Workers, CloseDTBFrees(w) PROVE OneRequest'
  BY <1>17, <1>s DEF CloseDTBFrees, Frees
<1>18. ASSUME NEW w \in Workers, CloseDTBEnds(w) PROVE OneRequest'
  BY <1>18, <1>a, RequestsGoOn DEF CloseDTBEnds, clients
<1>19. ASSUME NEW w \in Workers, NEW d \in DTBs, NEW k \in opened[d], FlushArrives(w, d, k)
       PROVE  OneRequest'
  <2>1. d \in pending /\ pending' = pending \ {d} /\ killed' = killed
    BY <1>19 DEF FlushArrives
  <2>2. ASSUME NEW s, Serve(w, [pc |-> "read", dtb |-> d, seg |-> s, at |-> 0, got |-> {}]),
               UNCHANGED <<status, closes>>
        PROVE  OneRequest'
    BY <2>1, <2>2, RequestsTaken DEF Asking
  <2>3. ASSUME Fails(d), UNCHANGED job PROVE OneRequest'
    <3>1. d \notin killed => \A v \in Workers : ~Asks(v, d)
      BY <2>1 DEF OneRequest
    <3> QED BY <2>1, <2>3, <3>1, RequestsFail
  <2> QED BY <1>19, <2>2, <2>3 DEF FlushArrives
<1>20. ASSUME NEW w \in Workers, FlushReads(w) PROVE OneRequest'
  <2> DEFINE j == [job[w] EXCEPT
                     !.at = @ + 1,
                     !.got = @ \cup {storage[job[w].seg.base + job[w].at]}]
  <2>1. /\ job[w] \in FlushJob /\ UNCHANGED <<status, pending, killed, closes>> /\ Serve(w, j)
    BY <1>20, JobKinds DEF FlushReads, Active, clients
  <2>2. j.pc = "read" /\ job[w].pc = "read" /\ j.dtb = job[w].dtb
    BY <2>1 DEF FlushJob
  <2> HIDE DEF j
  <2> QED BY <2>1, <2>2, RequestsGoOn DEF Asking
<1>21. ASSUME NEW w \in Workers, FlushEnds(w) PROVE OneRequest'
  <2>1. job[w].pc \in Asking /\ job[w].dtb \in DTBs
    BY <1>21, JobKinds DEF FlushEnds, Active, FlushJob, Asking
  <2> QED BY <1>21, <2>1, RequestsAnswered DEF FlushEnds
<1>22. ASSUME NEW w \in Workers, NEW d \in DTBs, NEW k \in opened[d], AsignArrives(w, d, k)
       PROVE  OneRequest'
  <2>1. ASSUME NEW x, Serve(w, [pc |-> "assign", dtb |-> d, line |-> x]),
               status' = [status EXCEPT ![d] = "waiting"], UNCHANGED closes
        PROVE  OneRequest'
    BY <1>22, <2>1, <1>t DEF AsignArrives, Asking
  <2>2. CASE Fails(d) /\ UNCHANGED job
    BY <1>22, <2>2, <1>u DEF AsignArrives
  <2> QED BY <1>22, <2>1, <2>2 DEF AsignArrives
<1>23. ASSUME NEW w \in Workers, AsignWrites(w) PROVE OneRequest'
  <2>1. job[w].pc \in Asking /\ job[w].dtb \in DTBs
    BY <1>23, JobKinds DEF AsignWrites, Active, AsignJob, Asking
  <2> QED BY <1>23, <2>1, RequestsAnswered DEF AsignWrites
<1>24. ASSUME NEW w \in Workers, Collides(w) PROVE OneRequest'
  BY <1>24, <1>s DEF Collides, clients
<1>25. CASE UNCHANGED vars
  BY <1>25, <1>s DEF vars, clients
<1> QED
  BY <1>1, <1>2, <1>3, <1>4, <1>5, <1>6, <1>7, <1>8, <1>9, <1>10, <1>11, <1>12, <1>13, <1>14,
     <1>15, <1>16, <1>17, <1>18, <1>19, <1>20, <1>21, <1>22, <1>23, <1>24, <1>25,
     <1>26, <1>27, <1>28, <1>29, <1>30 DEF Next, Opens

-----------------------------------------------------------------------------
(***************************************************************************)
(* No line has two owners.  The induction also needs to know that only the *)
(* workers that free segments hold segments to free.                       *)
(***************************************************************************)
OnlyFreersRelease ==
    \A w \in Workers :
        /\ job[w].pc \notin {"back", "release"} => releasing[w] = {}
        /\ job[w].pc = "back" => \E s \in Hole : releasing[w] = {s}

OwnerInv == NobodyFreesTwice /\ ListCompacted /\ OnlyFreersRelease

LEMMA HoldsType ==
    ASSUME TypeOK, NEW w \in Workers
    PROVE  Holds(w) \subseteq Hole
<1>1. releasing[w] \subseteq Hole
  BY DEF TypeOK
<1>2. InHand(w) \subseteq Hole
  <2>1. CASE job[w].pc \in Filing
    BY <2>1, JobKinds DEF InHand, OpenJob
  <2>2. CASE job[w].pc = "rest" /\ job[w].hole.limit > 0
    <3>1. job[w] \in RestJob
      BY <2>2, JobKinds
    <3>2. job[w].hole \in Hole
      BY <2>2, <3>1, BoundsAssumption DEF RestJob, Hole, End
    <3> QED BY <3>2 DEF InHand
  <2>3. CASE job[w].pc \notin Filing /\ ~(job[w].pc = "rest" /\ job[w].hole.limit > 0)
    BY <2>3 DEF InHand
  <2> QED BY <2>1, <2>2, <2>3
<1> QED BY <1>1, <1>2 DEF Holds

LEMMA OwnerInit == Init => OwnerInv
<1> SUFFICES ASSUME Init PROVE OwnerInv
  OBVIOUS
<1>1. \A w \in Workers : job[w].pc = "idle" /\ releasing[w] = {} /\ Holds(w) = {}
  BY DEF Init, Idle, Holds, InHand, Filing
<1>2. \A h, g \in free : h = g /\ End(h) # g.base
  BY BoundsAssumption DEF Init, End
<1> QED BY <1>1, <1>2 DEF Init, OwnerInv, NobodyFreesTwice, OwnersApart, ListCompacted, OnlyFreersRelease

\* A step that gives no line a new owner keeps the owners apart.
LEMMA OwnersShrink ==
    ASSUME NobodyFreesTwice, ListCompacted, free' \subseteq free, segs' \subseteq segs,
           \A w \in Workers : Holds(w)' \subseteq Holds(w)
    PROVE  NobodyFreesTwice' /\ ListCompacted'
BY DEF NobodyFreesTwice, OwnersApart, ListCompacted, Apart, End

\* A worker that gives one of the segments it holds to the list keeps them apart.
LEMMA OwnersFree ==
    ASSUME TypeOK, NobodyFreesTwice, ListCompacted, NEW w \in Workers, NEW s \in Holds(w),
           free' = AddFree(free, s), UNCHANGED segs,
           \A v \in Workers : Holds(v)' \subseteq Holds(v),
           s \notin Holds(w)'
    PROVE  NobodyFreesTwice' /\ ListCompacted'
<1>1. s \in Hole /\ free \in SUBSET Hole
  BY HoldsType DEF TypeOK
<1>2. \A h \in free : Apart(s, h)
  BY DEF NobodyFreesTwice, OwnersApart
<1>3. /\ \A h, g \in free' : h = g \/ Apart(h, g)
      /\ ListCompacted'
  <2>1. /\ \A h, g \in AddFree(free, s) : h = g \/ Apart(h, g)
        /\ \A h, g \in AddFree(free, s) : End(h) # g.base
    BY <1>1, <1>2, AddFreeList DEF NobodyFreesTwice, OwnersApart, ListCompacted
  <2> QED BY <2>1 DEF ListCompacted, End
<1>4. ASSUME NEW t \in segs
      PROVE  \A h \in free' : Apart(t, h) /\ Apart(h, t)
  <2>1. t \in Segment /\ Apart(t, s) /\ \A h \in free : Apart(t, h)
    BY DEF NobodyFreesTwice, OwnersApart, TypeOK, Apart
  <2>2. t.base \in Int /\ t.limit \in Int /\ t.limit > 0
    BY <2>1, BoundsAssumption DEF Segment
  <2>3. \A h \in AddFree(free, s) : Apart(t, h)
    BY <1>1, <2>1, <2>2, AddFreeApart
  <2> QED BY <2>3 DEF Apart
<1>5. ASSUME NEW v \in Workers, NEW r \in Holds(v)'
      PROVE  \A h \in free' : Apart(r, h)
  <2>1. r \in Holds(v) /\ ~(v = w /\ r = s)
    OBVIOUS
  <2>2. r \in Hole /\ Apart(r, s) /\ \A h \in free : Apart(r, h)
    BY <2>1, HoldsType DEF NobodyFreesTwice, OwnersApart
  <2>3. r.base \in Int /\ r.limit \in Int /\ r.limit > 0
    BY <2>2, BoundsAssumption DEF Hole
  <2>4. \A h \in AddFree(free, s) : Apart(r, h)
    BY <1>1, <2>2, <2>3, AddFreeApart
  <2> QED BY <2>4
<1> QED BY <1>3, <1>4, <1>5 DEF NobodyFreesTwice, OwnersApart, Apart, End

\* A worker that had nothing gets segments of the list or of the table, which leave it.
LEMMA OwnersTake ==
    ASSUME TypeOK, NobodyFreesTwice, ListCompacted, NEW w \in Workers, NEW T \in SUBSET segs,
           NEW H \in SUBSET free, T = {} \/ H = {},
           free' = free \ H, segs' = segs \ T,
           Holds(w)' = H \cup {Bare(s) : s \in T},
           \A v \in Workers \ {w} : Holds(v)' \subseteq Holds(v)
    PROVE  NobodyFreesTwice' /\ ListCompacted'
<1>1. ListCompacted'
  BY DEF ListCompacted, End
<1>2. /\ \A h, g \in free' : h = g \/ Apart(h, g)
      /\ \A s, t \in segs' : s = t \/ Apart(s, t)
      /\ \A h \in free', s \in segs' : Apart(h, s)
  BY DEF NobodyFreesTwice, OwnersApart
<1>3. \A s, x : Apart(s, x) <=> Apart(Bare(s), x)
  BY DEF Apart, End, Bare
<1>4. ASSUME NEW r \in Holds(w)'
      PROVE  /\ \A h \in free' : Apart(r, h)
             /\ \A s \in segs' : Apart(r, s)
             /\ \A v \in Workers : \A q \in Holds(v)' :
                   /\ (v = w /\ q = r) \/ Apart(r, q)
                   /\ (v = w /\ q = r) \/ Apart(q, r)
  <2>1. CASE r \in H
    BY <2>1, Zenon DEF NobodyFreesTwice, OwnersApart, Apart
  <2>2. CASE \E t \in T : r = Bare(t)
    <3>1. PICK t \in T : r = Bare(t)
      BY <2>2
    <3>2. /\ \A h \in free : Apart(t, h)
          /\ \A s \in segs : s = t \/ Apart(t, s)
          /\ \A v \in Workers : \A q \in Holds(v) : Apart(t, q)
      BY DEF NobodyFreesTwice, OwnersApart, Apart
    <3>3. ASSUME NEW v \in Workers, NEW q \in Holds(v)'
          PROVE  (v = w /\ q = r) \/ Apart(r, q)
      <4>1. CASE v = w
        <5>1. PICK u \in T : q = Bare(u)
          BY <4>1, <2>2
        <5>2. u = t \/ Apart(t, u)
          BY <3>2
        <5> QED BY <3>1, <4>1, <5>1, <5>2 DEF Apart, End, Bare
      <4>2. CASE v # w
        BY <3>1, <3>2, <4>2, <1>3
      <4> QED BY <4>1, <4>2
    <3>4. (\A h \in free' : Apart(r, h)) /\ (\A s \in segs' : Apart(r, s))
      BY <3>1, <3>2, <1>3
    <3> QED BY <3>3, <3>4 DEF Apart
  <2> QED BY <2>1, <2>2
<1>5. ASSUME NEW v \in Workers \ {w}, NEW r \in Holds(v)'
      PROVE  /\ \A h \in free' : Apart(r, h)
             /\ \A s \in segs' : Apart(r, s)
             /\ \A u \in Workers : \A q \in Holds(u)' : (u = v /\ q = r) \/ Apart(r, q)
  <2>1. r \in Holds(v)
    OBVIOUS
  <2>2. (\A h \in free' : Apart(r, h)) /\ (\A s \in segs' : Apart(r, s))
    BY <2>1 DEF NobodyFreesTwice, OwnersApart
  <2>3. ASSUME NEW u \in Workers, NEW q \in Holds(u)'
        PROVE  (u = v /\ q = r) \/ Apart(r, q)
    <3>1. CASE u = w
      BY <3>1, <1>4
    <3>2. CASE u # w
      BY <2>1, <3>2 DEF NobodyFreesTwice, OwnersApart
    <3> QED BY <3>1, <3>2
  <2> QED BY <2>2, <2>3
<1> QED BY <1>1, <1>2, <1>4, <1>5 DEF NobodyFreesTwice, OwnersApart, Apart, End

\* The hole that worker w holds is split: its beginning t goes to the table (A) or to
\* a worker u that frees (B), and at most the rest of it stays in the hands of w.
Splits(w, hole, t, A, B, u) ==
    /\ hole \in Holds(w) /\ t.base = hole.base
    /\ t.limit \in Int /\ 0 < t.limit /\ t.limit <= hole.limit
    /\ A \subseteq {t} /\ B \subseteq {t} /\ (A = {} \/ B = {})
    /\ u \in Workers /\ (B # {} => u # w)
    /\ free' = free /\ segs' = segs \cup A
    /\ \A r \in Holds(w)' : /\ r.base = End(t) /\ End(r) = End(hole)
                             /\ r.limit > 0 /\ r.limit \in Int
    /\ \A r, q \in Holds(w)' : r = q
    /\ \A v \in Workers \ {w} :
          Holds(v)' \subseteq Holds(v) \cup (IF v = u THEN B ELSE {})

LEMMA OwnersSplit ==
    ASSUME TypeOK, NobodyFreesTwice, ListCompacted, NEW w \in Workers,
           NEW hole, NEW t, NEW A, NEW B, NEW u, Splits(w, hole, t, A, B, u)
    PROVE  NobodyFreesTwice' /\ ListCompacted'
<1> USE DEF Splits
<1>1. hole \in Hole
  BY HoldsType
<1>2. ASSUME NEW x, Apart(hole, x), x.base \in Int, x.limit \in Int
      PROVE  Apart(t, x) /\ Apart(x, t)
  BY <1>1, <1>2 DEF Apart, End, Hole
<1>3. ASSUME NEW x, Apart(hole, x), x.base \in Int, x.limit \in Int, NEW r \in Holds(w)'
      PROVE  Apart(r, x) /\ Apart(x, r)
  BY <1>1, <1>3 DEF Apart, End, Hole
<1>4. ASSUME NEW r \in Holds(w)' PROVE Apart(r, t) /\ Apart(t, r)
  BY <1>1 DEF Apart, End, Hole
<1>5. \A x \in free \cup segs \cup UNION {Holds(v) : v \in Workers} : x.base \in Int /\ x.limit \in Int
  BY HoldsType, BoundsAssumption DEF TypeOK, Hole, Segment
<1>6. /\ \A h \in free : Apart(hole, h)
      /\ \A s \in segs : Apart(hole, s)
      /\ \A v \in Workers \ {w} : \A q \in Holds(v) : Apart(hole, q)
  BY DEF NobodyFreesTwice, OwnersApart
<1>7. /\ \A h \in free : Apart(t, h) /\ Apart(h, t)
      /\ \A s \in segs : Apart(t, s) /\ Apart(s, t)
      /\ \A v \in Workers \ {w} : \A q \in Holds(v) : Apart(t, q) /\ Apart(q, t)
  BY <1>2, <1>5, <1>6
<1>8. ASSUME NEW r \in Holds(w)'
      PROVE  /\ \A h \in free : Apart(r, h)
             /\ \A s \in segs : Apart(r, s)
             /\ \A v \in Workers \ {w} : \A q \in Holds(v) : Apart(r, q) /\ Apart(q, r)
  BY <1>3, <1>5, <1>6
<1>9. ListCompacted'
  BY DEF ListCompacted, End
<1>10. /\ \A h, g \in free' : h = g \/ Apart(h, g)
       /\ \A s, q \in segs' : s = q \/ Apart(s, q)
       /\ \A h \in free', s \in segs' : Apart(h, s)
  BY <1>7 DEF NobodyFreesTwice, OwnersApart
<1>11. ASSUME NEW v \in Workers, NEW r \in Holds(v)'
       PROVE  (\A h \in free' : Apart(r, h)) /\ (\A s \in segs' : Apart(r, s))
  <2>1. CASE v = w
    BY <2>1, <1>8, <1>4
  <2>2. CASE v # w /\ r \in Holds(v)
    BY <2>2, <1>7 DEF NobodyFreesTwice, OwnersApart
  <2>3. CASE v # w /\ r \notin Holds(v)
    <3>1. r = t /\ A = {}
      BY <2>3
    <3> QED BY <3>1, <1>7
  <2> QED BY <2>1, <2>2, <2>3
<1>12. ASSUME NEW v \in Workers, NEW r \in Holds(v)', NEW y \in Workers, NEW q \in Holds(y)'
       PROVE  (y = v /\ q = r) \/ Apart(r, q)
  <2>1. CASE v = w /\ y = w
    BY <2>1
  <2>2. CASE v = w /\ y # w
    BY <2>2, <1>8, <1>4
  <2>3. CASE v # w /\ y = w
    BY <2>3, <1>8, <1>4
  <2>4. CASE v # w /\ y # w
    <3>1. CASE r \in Holds(v) /\ q \in Holds(y)
      BY <3>1 DEF NobodyFreesTwice, OwnersApart
    <3>2. CASE r \notin Holds(v) /\ q \in Holds(y)
      BY <2>4, <3>2, <1>7
    <3>3. CASE r \in Holds(v) /\ q \notin Holds(y)
      BY <2>4, <3>3, <1>7
    <3>4. CASE r \notin Holds(v) /\ q \notin Holds(y)
      BY <2>4, <3>4
    <3> QED BY <3>1, <3>2, <3>3, <3>4
  <2> QED BY <2>1, <2>2, <2>3, <2>4
<1> QED BY <1>9, <1>10, <1>11, <1>12 DEF NobodyFreesTwice, OwnersApart, Apart, End

\* A worker takes one of the segments that another one holds.
LEMMA OwnersPass ==
    ASSUME NobodyFreesTwice, ListCompacted, UNCHANGED <<free, segs>>,
           NEW v \in Workers, NEW w \in Workers, NEW r \in Holds(v), v # w,
           Holds(w)' = {r}, Holds(v)' \subseteq Holds(v) \ {r},
           \A u \in Workers \ {v, w} : Holds(u)' \subseteq Holds(u)
    PROVE  NobodyFreesTwice' /\ ListCompacted'
<1>1. /\ \A u \in Workers \ {w} : \A q \in Holds(u)' : q \in Holds(u) /\ ~(u = v /\ q = r)
      /\ \A q \in Holds(w)' : q = r
  OBVIOUS
<1>2. ListCompacted'
  BY DEF ListCompacted, End
<1>3. ASSUME NEW u \in Workers, NEW q \in Holds(u)'
      PROVE  /\ \A h \in free' : Apart(q, h)
             /\ \A s \in segs' : Apart(q, s)
             /\ \A y \in Workers : \A x \in Holds(y)' : (y = u /\ x = q) \/ Apart(q, x)
  <2>1. CASE u = w
    <3>1. q = r
      BY <1>1, <2>1
    <3>2. ASSUME NEW y \in Workers, NEW x \in Holds(y)', y # w PROVE Apart(r, x)
      BY <1>1, <3>2, Zenon DEF NobodyFreesTwice, OwnersApart
    <3>3. \A y \in Workers : \A x \in Holds(y)' : (y = u /\ x = q) \/ Apart(q, x)
      BY <1>1, <2>1, <3>1, <3>2
    <3>4. (\A h \in free' : Apart(q, h)) /\ (\A s \in segs' : Apart(q, s))
      BY <3>1, Zenon DEF NobodyFreesTwice, OwnersApart
    <3> QED BY <3>3, <3>4
  <2>2. CASE u # w
    <3>1. q \in Holds(u) /\ ~(u = v /\ q = r)
      BY <1>1, <2>2
    <3>2. ASSUME NEW y \in Workers, NEW x \in Holds(y)'
          PROVE  (y = u /\ x = q) \/ Apart(q, x)
      <4>1. CASE y = w
        <5>1. Apart(q, r)
          BY <3>1, Zenon DEF NobodyFreesTwice, OwnersApart
        <5> QED BY <1>1, <4>1, <5>1
      <4>2. CASE y # w
        <5>1. x \in Holds(y)
          BY <1>1, <4>2
        <5> QED BY <3>1, <5>1, Zenon DEF NobodyFreesTwice, OwnersApart
      <4> QED BY <4>1, <4>2
    <3>3. (\A h \in free' : Apart(q, h)) /\ (\A s \in segs' : Apart(q, s))
      BY <3>1, Zenon DEF NobodyFreesTwice, OwnersApart
    <3> QED BY <3>2, <3>3
  <2> QED BY <2>1, <2>2
<1>4. /\ \A h, g \in free' : h = g \/ Apart(h, g)
      /\ \A s, q \in segs' : s = q \/ Apart(s, q)
      /\ \A h \in free', s \in segs' : Apart(h, s)
  BY DEF NobodyFreesTwice, OwnersApart
<1> QED BY <1>2, <1>3, <1>4 DEF NobodyFreesTwice, OwnersApart, Apart, End

\* Moving on within a request, to one that has no segment in hand, frees nothing.
LEMMA ServeKeeps ==
    ASSUME TypeOK, OwnerInv, NEW w \in Workers, NEW j, Serve(w, j),
           UNCHANGED <<free, segs, releasing>>,
           \/ j.pc \in Filing /\ job[w].pc \in Filing /\ j.hole = job[w].hole
           \/ j.pc \notin Filing \cup {"rest"},
           j.pc \notin {"back", "release"} => releasing[w] = {},
           j.pc = "back" => job[w].pc = "back"
    PROVE  OwnerInv'
<1>1. job[w]' = j /\ \A v \in Workers \ {w} : job[v]' = job[v] /\ InHand(v)' = InHand(v)
  BY ServedJob, OthersHold
<1>2. InHand(w)' \subseteq InHand(w)
  BY <1>1 DEF InHand
<1>3. \A v \in Workers : Holds(v)' \subseteq Holds(v)
  BY <1>1, <1>2 DEF Holds
<1>4. OnlyFreersRelease'
  BY <1>1 DEF OwnerInv, OnlyFreersRelease
<1> QED BY <1>3, <1>4, OwnersShrink DEF OwnerInv

\* Nothing that the owners depend on changes.
LEMMA OwnersStutter ==
    ASSUME OwnerInv, UNCHANGED <<free, segs, releasing, job>>
    PROVE  OwnerInv'
BY DEF OwnerInv, NobodyFreesTwice, OwnersApart, ListCompacted, OnlyFreersRelease, Holds, InHand, Apart, End

\* Every step but that of a close that frees its segment twice.
LEMMA OwnerNext ==
    ASSUME TypeOK, OwnerInv, [Next]_vars, \A w \in Workers : ~CloseFreesTwice(w)
    PROVE  OwnerInv'
<1>r. \A w \in Workers : /\ job[w].pc \notin {"back", "release"} => releasing[w] = {}
                         /\ job[w].pc = "back" => \E s \in Hole : releasing[w] = {s}
  BY DEF OwnerInv, OnlyFreersRelease
<1>1. ASSUME NEW d \in DTBs, AskDAM(d) \/ CPU_EndDTB(d) \/ CommandFinalizar(d) \/ EndKilled(d)
      PROVE  OwnerInv'
  BY <1>1, OwnersStutter DEF AskDAM, CPU_EndDTB, CommandFinalizar, EndKilled, memory
<1>2. ASSUME NEW w \in Workers, NEW d \in DTBs, NEW n \in 1 .. MaxFile, OpenRefused(w, d, n)
      PROVE  OwnerInv'
  BY <1>2, OwnersStutter DEF OpenRefused, OpenArrives
<1>3. ASSUME NEW w \in Workers, NEW d \in DTBs, NEW n \in 1 .. MaxFile, OpenTakes(w, d, n)
      PROVE  OwnerInv'
  <2>1. PICK h \in free : /\ free' = free \ {h}
                          /\ Serve(w, [pc |-> "write", dtb |-> d, lines |-> n, at |-> 0, hole |-> h])
    BY <1>3 DEF OpenTakes
  <2>2. /\ job[w]' = [pc |-> "write", dtb |-> d, lines |-> n, at |-> 0, hole |-> h]
        /\ \A v \in Workers \ {w} : job[v]' = job[v] /\ InHand(v)' = InHand(v)
    BY <2>1, ServedJob, OthersHold
  <2>3. UNCHANGED <<segs, releasing>> /\ job[w].pc = "idle" /\ releasing[w] = {}
    BY <1>3, <1>r DEF OpenTakes, OpenArrives, Active
  <2>4. h \in Hole /\ h.limit > 0
    BY BoundsAssumption DEF TypeOK, Hole
  <2>5. Holds(w)' = {h}
    BY <2>2, <2>3, <2>4 DEF Holds, InHand, Filing
  <2>6. \A v \in Workers \ {w} : Holds(v)' \subseteq Holds(v)
    BY <2>2, <2>3 DEF Holds
  <2>7. NobodyFreesTwice' /\ ListCompacted'
    <3> DEFINE T == {}
    <3>1. segs' = segs \ T /\ Holds(w)' = {h} \cup {Bare(s) : s \in T}
      BY <2>3, <2>5
    <3> QED BY <2>1, <2>6, <3>1, OwnersTake DEF OwnerInv
  <2>8. OnlyFreersRelease'
    BY <1>r, <2>2, <2>3 DEF OnlyFreersRelease
  <2> QED BY <2>7, <2>8 DEF OwnerInv
<1>4. ASSUME NEW w \in Workers, OpenWrites(w) PROVE OwnerInv'
  <2> DEFINE j == [job[w] EXCEPT
                     !.at = @ + 1,
                     !.pc = IF job[w].at + 1 = job[w].lines THEN "find" ELSE "write"]
  <2>1. job[w] \in OpenJob /\ job[w].pc = "write"
    BY <1>4, JobKinds DEF OpenWrites, Active, Filing
  <2>2. j.hole = job[w].hole /\ j.pc \in {"find", "write"}
    BY <2>1 DEF OpenJob
  <2>3. Serve(w, j) /\ UNCHANGED <<free, segs, releasing>> /\ releasing[w] = {}
    BY <1>4, <1>r, <2>1 DEF OpenWrites
  <2> QED BY <2>1, <2>2, <2>3, ServeKeeps DEF Filing
<1>5. ASSUME NEW w \in Workers, OpenFinds(w) PROVE OwnerInv'
  <2>1. job[w] \in OpenJob /\ job[w].pc = "find"
    BY <1>5, JobKinds DEF OpenFinds, Active, Filing
  <2>2. [job[w] EXCEPT !.pc = "file"].hole = job[w].hole /\ [job[w] EXCEPT !.pc = "file"].pc = "file"
    BY <2>1 DEF OpenJob
  <2>3. /\ Serve(w, [job[w] EXCEPT !.pc = "file"])
        /\ UNCHANGED <<free, segs, releasing>> /\ releasing[w] = {}
    BY <1>5, <1>r, <2>1 DEF OpenFinds
  <2> QED BY <2>1, <2>2, <2>3, ServeKeeps DEF Filing
<1>a. ASSUME NEW w \in Workers, NEW k, job[w].pc = "file", FilesRemainder(w, k)
      PROVE  /\ job[w] \in OpenJob /\ job[w].hole \in Holds(w) /\ releasing[w] = {}
             /\ job[w]'.pc = "rest" /\ \A v \in Workers \ {w} : job[v]' = job[v]
             /\ \A v \in Workers \ {w} : InHand(v)' = InHand(v)
             /\ InHand(w)' = IF job[w].lines = job[w].hole.limit THEN {} ELSE {Remainder(job[w])}
  <2>1. job[w] \in OpenJob /\ releasing[w] = {}
    BY <1>a, <1>r, JobKinds DEF Filing
  <2>2. job[w].hole \in Holds(w)
    BY <1>a, <2>1, BoundsAssumption DEF Holds, InHand, Filing, OpenJob, Hole
  <2>3. /\ job[w]' = [pc |-> "rest", dtb |-> job[w].dtb, number |-> k, hole |-> Remainder(job[w])]
        /\ \A v \in Workers \ {w} : job[v]' = job[v] /\ InHand(v)' = InHand(v)
    BY <1>a, ServedJob, OthersHold DEF FilesRemainder
  <2>4. Remainder(job[w]).limit > 0 <=> job[w].lines # job[w].hole.limit
    BY <2>1, BoundsAssumption DEF Remainder, OpenJob, Hole
  <2>5. job[w]'.pc = "rest" /\ job[w]'.hole = Remainder(job[w])
    BY <2>3
  <2>6. Remainder(job[w]).limit > 0 => InHand(w)' = {Remainder(job[w])}
    BY <2>5 DEF InHand, Filing
  <2>7. ~(Remainder(job[w]).limit > 0) => InHand(w)' = {}
    BY <2>5 DEF InHand, Filing
  <2> QED BY <2>1, <2>2, <2>3, <2>4, <2>5, <2>6, <2>7
<1>b. ASSUME NEW j \in OpenJob
      PROVE  /\ Remainder(j).base = j.hole.base + j.lines
             /\ End(Remainder(j)) = End(j.hole) /\ Remainder(j).limit \in Int
             /\ j.lines # j.hole.limit => Remainder(j).limit > 0
             /\ j.lines \in Int /\ 0 < j.lines /\ j.lines <= j.hole.limit
  BY BoundsAssumption DEF Remainder, OpenJob, Hole, End
<1>6. ASSUME NEW w \in Workers, OpenFiles(w) PROVE OwnerInv'
  <2> DEFINE t == Filed(job[w], next[job[w].dtb])
             A == {t}
             B == {}
  <2>1. job[w].pc = "file" /\ FilesRemainder(w, next[job[w].dtb]) /\ UNCHANGED <<free, releasing>>
    BY <1>6 DEF OpenFiles, Active
  <2>2. /\ job[w] \in OpenJob /\ job[w].hole \in Holds(w) /\ releasing[w] = {}
        /\ job[w]'.pc = "rest" /\ \A v \in Workers \ {w} : job[v]' = job[v]
        /\ \A v \in Workers \ {w} : InHand(v)' = InHand(v)
        /\ InHand(w)' = IF job[w].lines = job[w].hole.limit THEN {} ELSE {Remainder(job[w])}
    BY <1>a, <2>1
  <2>3. t.base = job[w].hole.base /\ t.limit = job[w].lines
    BY DEF Filed
  <2>4. \A r \in Holds(w)' : /\ r.base = End(t) /\ End(r) = End(job[w].hole)
                             /\ r.limit > 0 /\ r.limit \in Int
    BY <1>b, <2>1, <2>2, <2>3 DEF Holds, End
  <2>5. \A r, q \in Holds(w)' : r = q
    BY <2>1, <2>2 DEF Holds
  <2>6. \A v \in Workers \ {w} : Holds(v)' \subseteq Holds(v) \cup (IF v = w THEN B ELSE {})
    BY <2>1, <2>2 DEF Holds
  <2>7. segs' = segs \cup A
    BY <1>6 DEF OpenFiles
  <2>8. NobodyFreesTwice' /\ ListCompacted'
    <3>1. Splits(w, job[w].hole, t, A, B, w)
      BY <1>b, <2>1, <2>2, <2>3, <2>4, <2>5, <2>6, <2>7 DEF Splits
    <3> QED BY <3>1, OwnersSplit DEF OwnerInv
  <2>9. OnlyFreersRelease'
    BY <1>r, <2>1, <2>2 DEF OnlyFreersRelease
  <2> QED BY <2>8, <2>9 DEF OwnerInv
<1>7. ASSUME NEW w \in Workers, OpenFilesNowhere(w) PROVE OwnerInv'
  <2>1. job[w].pc = "file" /\ UNCHANGED <<free, segs>>
    BY <1>7 DEF OpenFilesNowhere, Active, memory
  <2>2. CASE UNCHANGED <<releasing, job>>
    BY <2>1, <2>2, OwnersStutter
  <2>3. ASSUME NEW k, FilesRemainder(w, k), NEW u \in Workers, NEW B \in SUBSET {Taken(job[w])},
               B # {} => job[u].pc = "release",
               releasing' = [releasing EXCEPT ![u] = @ \cup B]
        PROVE  OwnerInv'
    <3> DEFINE t == Taken(job[w])
               A == {}
    <3>2. /\ job[w] \in OpenJob /\ job[w].hole \in Holds(w) /\ releasing[w] = {}
          /\ job[w]'.pc = "rest" /\ \A v \in Workers \ {w} : job[v]' = job[v]
          /\ \A v \in Workers \ {w} : InHand(v)' = InHand(v)
          /\ InHand(w)' = IF job[w].lines = job[w].hole.limit THEN {} ELSE {Remainder(job[w])}
      BY <1>a, <2>1, <2>3
    <3>3. t.base = job[w].hole.base /\ t.limit = job[w].lines
      BY DEF Taken
    <3>4. B # {} => u # w
      BY <2>1, <2>3
    <3>5. \A v \in Workers : releasing'[v] = IF v = u THEN releasing[v] \cup B ELSE releasing[v]
      BY <2>3 DEF TypeOK
    <3>6. Holds(w)' = InHand(w)'
      BY <3>2, <3>4, <3>5 DEF Holds
    <3>7. /\ \A r \in Holds(w)' : /\ r.base = End(t) /\ End(r) = End(job[w].hole)
                                  /\ r.limit > 0 /\ r.limit \in Int
          /\ \A r, q \in Holds(w)' : r = q
      BY <1>b, <3>2, <3>3, <3>6 DEF End
    <3>8. \A v \in Workers \ {w} : Holds(v)' \subseteq Holds(v) \cup (IF v = u THEN B ELSE {})
      BY <3>2, <3>5 DEF Holds
    <3>9. segs' = segs \cup A
      BY <2>1
    <3>10. NobodyFreesTwice' /\ ListCompacted'
      <4>1. Splits(w, job[w].hole, t, A, B, u)
        BY <1>b, <2>1, <2>3, <3>2, <3>3, <3>4, <3>7, <3>8, <3>9 DEF Splits
      <4> QED BY <4>1, OwnersSplit DEF OwnerInv
    <3>11. OnlyFreersRelease'
      BY <1>r, <2>1, <2>3, <3>2, <3>5 DEF OnlyFreersRelease
    <3> QED BY <3>10, <3>11 DEF OwnerInv
  <2>4. ASSUME NEW k, FilesRemainder(w, k), UNCHANGED releasing PROVE OwnerInv'
    <3>1. PICK B : B = {}
      OBVIOUS
    <3>2. B \in SUBSET {Taken(job[w])} /\ (B # {} => job[w].pc = "release")
      BY <3>1
    <3>3. releasing' = [releasing EXCEPT ![w] = @ \cup B]
      BY <2>4, <3>1 DEF TypeOK
    <3> QED BY <2>3, <2>4, <3>2, <3>3
  <2>5. ASSUME NEW v \in Workers, job[v].pc = "release", NEW k, FilesRemainder(w, k),
               releasing' = [releasing EXCEPT ![v] = @ \cup {Taken(job[w])}]
        PROVE  OwnerInv'
    BY <2>3, <2>5
  <2> QED BY <1>7, <2>2, <2>4, <2>5 DEF OpenFilesNowhere
<1>8. ASSUME NEW w \in Workers, OpenReturns(w) PROVE OwnerInv'
  <2>1. /\ job[w].pc = "rest" /\ releasing[w] = {} /\ Serve(w, Idle) /\ UNCHANGED <<segs, releasing>>
        /\ free' = IF job[w].hole.limit = 0 THEN free ELSE AddFree(free, job[w].hole)
    BY <1>8, <1>r DEF OpenReturns, Active
  <2>2. job[w]' = Idle /\ \A v \in Workers \ {w} : job[v]' = job[v] /\ InHand(v)' = InHand(v)
    BY <2>1, ServedJob, OthersHold
  <2>3. Holds(w)' = {} /\ \A v \in Workers : Holds(v)' \subseteq Holds(v)
    <3>1. job[w]'.pc = "idle"
      BY <2>2 DEF Idle
    <3>2. InHand(w)' = {}
      BY <3>1 DEF InHand, Filing
    <3> QED BY <2>1, <2>2, <3>2 DEF Holds
  <2>4. OnlyFreersRelease'
    BY <1>r, <2>1, <2>2 DEF OnlyFreersRelease, Idle
  <2>5. CASE job[w].hole.limit = 0
    BY <2>1, <2>3, <2>4, <2>5, OwnersShrink DEF OwnerInv
  <2>6. CASE job[w].hole.limit # 0
    <3>1. job[w] \in RestJob
      BY <2>1, JobKinds
    <3>2. job[w].hole \in Holds(w)
      BY <2>1, <2>6, <3>1, BoundsAssumption DEF Holds, InHand, RestJob
    <3> QED BY <2>1, <2>3, <2>4, <2>6, <3>2, OwnersFree DEF OwnerInv
  <2> QED BY <2>5, <2>6
<1>9. ASSUME NEW w \in Workers, NEW d \in DTBs, NEW k \in opened[d], CloseArrives(w, d, k)
      PROVE  OwnerInv'
  <2>1. job[w].pc = "idle" /\ releasing[w] = {} /\ UNCHANGED <<free, segs, releasing>>
    BY <1>9, <1>r DEF CloseArrives, Active, memory
  <2>2. CASE Serve(w, [pc |-> "close", dtb |-> d, number |-> k])
    BY <2>1, <2>2, ServeKeeps DEF Filing
  <2>3. CASE UNCHANGED job
    BY <2>1, <2>3, OwnersStutter
  <2> QED BY <1>9, <2>2, <2>3 DEF CloseArrives
<1>i. ASSUME NEW w \in Workers, Serve(w, Idle), releasing[w] = {},
             UNCHANGED <<free, segs, releasing>>
      PROVE  OwnerInv'
  BY <1>i, ServeKeeps DEF Idle, Filing
<1>10. ASSUME NEW w \in Workers, CloseGets(w) PROVE OwnerInv'
  <2>1. job[w].pc = "close" /\ releasing[w] = {} /\ UNCHANGED <<free, segs, releasing>>
    BY <1>10, <1>r DEF CloseGets, Active, memory
  <2>2. CASE UNCHANGED job
    BY <2>1, <2>2, OwnersStutter
  <2>3. ASSUME NEW F,
               Serve(w, [pc |-> "got", dtb |-> job[w].dtb, number |-> job[w].number, found |-> F])
        PROVE  OwnerInv'
    BY <2>1, <2>3, ServeKeeps DEF Filing
  <2> QED BY <1>10, <2>2, <2>3 DEF CloseGets
<1>d. ASSUME NEW w \in Workers, job[w].pc = "got"
      PROVE  /\ releasing[w] = {} /\ InHand(w) = {}
             /\ job[w].found \subseteq Segment
  BY <1>d, <1>r, JobKinds DEF GotJob, InHand, Filing
<1>e. ASSUME NEW w \in Workers, Serve(w, Removed(w))
      PROVE  /\ job[w]'.pc = "back" /\ InHand(w)' = {}
             /\ \A v \in Workers \ {w} : job[v]' = job[v] /\ InHand(v)' = InHand(v)
  <2>1. job[w]' = Removed(w)
    BY <1>e, ServedJob
  <2>2. job[w]'.pc = "back"
    BY <2>1 DEF Removed
  <2> QED BY <1>e, <2>2, OthersHold DEF InHand, Filing
<1>23. ASSUME NEW w \in Workers, CloseRemoves(w) PROVE OwnerInv'
  <2>1. PICK s \in segs : segs' = segs \ {s} /\ releasing' = [releasing EXCEPT ![w] = {Bare(s)}]
    BY <1>23 DEF CloseRemoves, Under
  <2>2. job[w].pc = "got" /\ Serve(w, Removed(w)) /\ UNCHANGED free
    BY <1>23 DEF CloseRemoves, Active
  <2> DEFINE H == {}
             T == {s}
  <2>3. \A v \in Workers : releasing'[v] = IF v = w THEN {Bare(s)} ELSE releasing[v]
    BY <2>1 DEF TypeOK
  <2>4. Holds(w)' = H \cup {Bare(q) : q \in T}
    BY <1>e, <2>2, <2>3 DEF Holds
  <2>5. \A v \in Workers \ {w} : Holds(v)' \subseteq Holds(v)
    BY <1>e, <2>2, <2>3 DEF Holds
  <2>6. NobodyFreesTwice' /\ ListCompacted'
    <3>1. /\ T \in SUBSET segs /\ H \in SUBSET free /\ H = {}
          /\ free' = free \ H /\ segs' = segs \ T
      BY <2>1, <2>2
    <3> HIDE DEF H, T
    <3> QED BY <3>1, <2>4, <2>5, OwnersTake DEF OwnerInv
  <2>7. Bare(s) \in Hole
    BY DEF TypeOK, Segment, Hole, End, Bare
  <2>8. OnlyFreersRelease'
    BY <1>e, <1>r, <2>2, <2>3, <2>7 DEF OnlyFreersRelease
  <2> QED BY <2>6, <2>8 DEF OwnerInv
<1>24. ASSUME NEW w \in Workers, CloseMisses(w) PROVE OwnerInv'
  BY <1>24, <1>d, <1>i DEF CloseMisses, Active, memory
<1>25. ASSUME NEW w \in Workers, CloseOvertakes(w) PROVE OwnerInv'
  <2>1. job[w].pc = "got" /\ Serve(w, Removed(w)) /\ UNCHANGED <<free, segs>>
    BY <1>25 DEF CloseOvertakes, Active, memory
  <2>2. PICK s \in job[w].found, v \in Workers \ {w} :
           /\ Destroying(v, w) /\ Bare(s) \in releasing[v]
           /\ releasing' = [releasing EXCEPT ![v] = @ \ {Bare(s)}, ![w] = {Bare(s)}]
    BY <1>25 DEF CloseOvertakes
  <2>3. \A u \in Workers : releasing'[u] = IF u = w THEN {Bare(s)}
                                            ELSE IF u = v THEN releasing[v] \ {Bare(s)}
                                            ELSE releasing[u]
    BY <2>2 DEF TypeOK
  <2>4. job[v].pc = "release" /\ InHand(v) = {} /\ Bare(s) \in Hole
    BY <2>2 DEF Destroying, InHand, Filing, TypeOK
  <2>5. /\ Holds(w)' = {Bare(s)} /\ Holds(v)' \subseteq Holds(v) \ {Bare(s)}
        /\ Bare(s) \in Holds(v)
        /\ \A u \in Workers \ {v, w} : Holds(u)' \subseteq Holds(u)
    <3>1. InHand(w)' = {} /\ \A u \in Workers \ {w} : InHand(u)' = InHand(u)
      BY <1>e, <2>1
    <3>2. /\ releasing'[w] = {Bare(s)} /\ releasing'[v] = releasing[v] \ {Bare(s)}
          /\ \A u \in Workers \ {v, w} : releasing'[u] = releasing[u]
      BY <2>3
    <3>3. Holds(w)' = {Bare(s)}
      BY <3>1, <3>2 DEF Holds
    <3>4. Holds(v)' \subseteq Holds(v) \ {Bare(s)} /\ Bare(s) \in Holds(v)
      BY <2>2, <2>4, <3>1, <3>2 DEF Holds
    <3>5. \A u \in Workers \ {v, w} : Holds(u)' \subseteq Holds(u)
      BY <3>1, <3>2 DEF Holds
    <3> QED BY <3>3, <3>4, <3>5
  <2>6. NobodyFreesTwice' /\ ListCompacted'
    BY <2>1, <2>2, <2>5, OwnersPass DEF OwnerInv
  <2>7. OnlyFreersRelease'
    BY <1>e, <1>r, <2>1, <2>3, <2>4 DEF OnlyFreersRelease
  <2> QED BY <2>6, <2>7 DEF OwnerInv
<1>26. ASSUME NEW w \in Workers, CloseFalls(w) PROVE OwnerInv'
  BY <1>26, OwnersStutter DEF CloseFalls, memory
<1>c. ASSUME NEW w \in Workers, NEW s \in releasing[w], Frees(w, s), job[w].pc \in {"back", "release"},
             \/ UNCHANGED job
             \/ Serve(w, Idle)
      PROVE  NobodyFreesTwice' /\ ListCompacted'
  <2>1. /\ free' = AddFree(free, s) /\ UNCHANGED segs
        /\ \A v \in Workers : releasing'[v] = IF v = w THEN releasing[v] \ {s} ELSE releasing[v]
    BY <1>c DEF Frees, TypeOK
  <2>2. InHand(w) = {} /\ \A v \in Workers : InHand(v)' \subseteq InHand(v)
    <3>1. InHand(w) = {}
      BY <1>c DEF InHand, Filing
    <3>2. CASE UNCHANGED job
      BY <3>1, <3>2 DEF InHand
    <3>3. CASE Serve(w, Idle)
      <4>1. job[w]'.pc = "idle" /\ \A v \in Workers \ {w} : InHand(v)' = InHand(v)
        BY <3>3, ServedJob, OthersHold DEF Idle
      <4>2. InHand(w)' = {}
        BY <4>1 DEF InHand, Filing
      <4> QED BY <3>1, <4>1, <4>2
    <3> QED BY <1>c, <3>1, <3>2, <3>3
  <2>3. s \in Holds(w) /\ s \notin Holds(w)' /\ \A v \in Workers : Holds(v)' \subseteq Holds(v)
    BY <2>1, <2>2 DEF Holds
  <2> QED BY <2>1, <2>3, OwnersFree DEF OwnerInv
<1>11. ASSUME NEW w \in Workers, CloseFrees(w) PROVE OwnerInv'
  <2>1. PICK s \in releasing[w] : Frees(w, s)
    BY <1>11 DEF CloseFrees
  <2>2. job[w].pc = "back" /\ Serve(w, Idle) /\ releasing[w] = {s}
    BY <1>11, <1>r, <2>1 DEF CloseFrees, Active
  <2>3. NobodyFreesTwice' /\ ListCompacted'
    BY <1>c, <2>1, <2>2
  <2>4. \A v \in Workers : releasing'[v] = IF v = w THEN {} ELSE releasing[v]
    BY <2>1, <2>2 DEF Frees, TypeOK
  <2>5. job[w]' = Idle /\ \A v \in Workers \ {w} : job[v]' = job[v]
    BY <2>2, ServedJob, OthersHold
  <2>6. OnlyFreersRelease'
    BY <1>r, <2>4, <2>5 DEF OnlyFreersRelease, Idle
  <2> QED BY <2>3, <2>6 DEF OwnerInv
<1>12. ASSUME NEW w \in Workers, NEW d \in DTBs, CloseDTBArrives(w, d) PROVE OwnerInv'
  <2>1. job[w].pc = "idle" /\ releasing[w] = {} /\ UNCHANGED <<free, segs, releasing>>
    BY <1>12, <1>r DEF CloseDTBArrives, Active, memory
  <2>2. CASE Serve(w, [pc |-> "remove", dtb |-> d])
    BY <2>1, <2>2, ServeKeeps DEF Filing
  <2>3. CASE UNCHANGED job
    BY <2>1, <2>3, OwnersStutter
  <2> QED BY <1>12, <2>2, <2>3 DEF CloseDTBArrives
<1>13. ASSUME NEW w \in Workers, CloseDTBRemoves(w) PROVE OwnerInv'
  <2>1. job[w].pc = "remove" /\ job[w] \in CloseDTBJob /\ releasing[w] = {} /\ UNCHANGED free
    BY <1>13, <1>r, JobKinds DEF CloseDTBRemoves, Active
  <2>2. CASE UNCHANGED <<segs, releasing, job>>
    BY <2>1, <2>2, OwnersStutter
  <2> DEFINE H == {}
             T == {s \in segs : s.dtb = job[w].dtb}
             R == {Bare(s) : s \in T}
  <2>3. CASE /\ segs' = segs \ T /\ releasing' = [releasing EXCEPT ![w] = R]
             /\ Serve(w, [job[w] EXCEPT !.pc = "release"])
    <3>1. /\ job[w]'.pc = "release"
          /\ \A v \in Workers \ {w} : job[v]' = job[v] /\ InHand(v)' = InHand(v)
      BY <2>1, <2>3, ServedJob, OthersHold DEF CloseDTBJob
    <3> HIDE DEF R
    <3>2. \A v \in Workers : releasing'[v] = IF v = w THEN R ELSE releasing[v]
      BY <2>3 DEF TypeOK
    <3>3. Holds(w)' = R
      BY <3>1, <3>2 DEF Holds, InHand, Filing
    <3>4. Holds(w)' = H \cup {Bare(q) : q \in T}
      BY <3>3 DEF R
    <3>5. \A v \in Workers \ {w} : Holds(v)' \subseteq Holds(v)
      BY <3>1, <3>2 DEF Holds
    <3>6. NobodyFreesTwice' /\ ListCompacted'
      BY <2>1, <2>3, <3>4, <3>5, OwnersTake DEF OwnerInv
    <3>7. OnlyFreersRelease'
      BY <1>r, <3>1, <3>2 DEF OnlyFreersRelease
    <3> QED BY <3>6, <3>7 DEF OwnerInv
  <2> QED BY <1>13, <2>2, <2>3 DEF CloseDTBRemoves
<1>14. ASSUME NEW w \in Workers, CloseDTBFrees(w) PROVE OwnerInv'
  <2>1. PICK s \in releasing[w] : Frees(w, s)
    BY <1>14 DEF CloseDTBFrees
  <2>2. job[w].pc = "release" /\ UNCHANGED job
    BY <1>14 DEF CloseDTBFrees, Active
  <2>3. NobodyFreesTwice' /\ ListCompacted'
    BY <1>c, <2>1, <2>2
  <2>4. \A v \in Workers \ {w} : releasing'[v] = releasing[v]
    BY <2>1 DEF Frees, TypeOK
  <2>5. OnlyFreersRelease'
    BY <1>r, <2>2, <2>4 DEF OnlyFreersRelease
  <2> QED BY <2>3, <2>5 DEF OwnerInv
<1>15. ASSUME NEW w \in Workers, CloseDTBEnds(w) PROVE OwnerInv'
  BY <1>15, <1>i DEF CloseDTBEnds, memory
<1>16. ASSUME NEW w \in Workers, NEW d \in DTBs, NEW k \in opened[d], FlushArrives(w, d, k)
       PROVE  OwnerInv'
  <2>1. job[w].pc = "idle" /\ releasing[w] = {} /\ UNCHANGED <<free, segs, releasing>>
    BY <1>16, <1>r DEF FlushArrives, Active, memory
  <2>2. ASSUME NEW s, Serve(w, [pc |-> "read", dtb |-> d, seg |-> s, at |-> 0, got |-> {}])
        PROVE  OwnerInv'
    BY <2>1, <2>2, ServeKeeps DEF Filing
  <2>3. CASE UNCHANGED job
    BY <2>1, <2>3, OwnersStutter
  <2> QED BY <1>16, <2>2, <2>3 DEF FlushArrives
<1>17. ASSUME NEW w \in Workers, FlushReads(w) PROVE OwnerInv'
  <2> DEFINE j == [job[w] EXCEPT
                     !.at = @ + 1,
                     !.got = @ \cup {storage[job[w].seg.base + job[w].at]}]
  <2>1. /\ job[w].pc = "read" /\ job[w] \in FlushJob /\ releasing[w] = {}
        /\ UNCHANGED <<free, segs, releasing>> /\ Serve(w, j)
    BY <1>17, <1>r, JobKinds DEF FlushReads, Active, memory
  <2>2. j.pc = "read"
    BY <2>1 DEF FlushJob
  <2> QED BY <2>1, <2>2, ServeKeeps DEF Filing
<1>18. ASSUME NEW w \in Workers, FlushEnds(w) PROVE OwnerInv'
  BY <1>18, <1>r, <1>i DEF FlushEnds, Active, memory
<1>21. ASSUME NEW w \in Workers, NEW d \in DTBs, NEW k \in opened[d], AsignArrives(w, d, k)
       PROVE  OwnerInv'
  <2>1. job[w].pc = "idle" /\ releasing[w] = {} /\ UNCHANGED <<free, segs, releasing>>
    BY <1>21, <1>r DEF AsignArrives, Active, memory
  <2>2. ASSUME NEW x, Serve(w, [pc |-> "assign", dtb |-> d, line |-> x])
        PROVE  OwnerInv'
    BY <2>1, <2>2, ServeKeeps DEF Filing
  <2>3. CASE UNCHANGED job
    BY <2>1, <2>3, OwnersStutter
  <2> QED BY <1>21, <2>2, <2>3 DEF AsignArrives
<1>22. ASSUME NEW w \in Workers, AsignWrites(w) PROVE OwnerInv'
  BY <1>22, <1>r, <1>i DEF AsignWrites, Active
<1>19. ASSUME NEW w \in Workers, Collides(w) PROVE OwnerInv'
  BY <1>19, OwnersStutter DEF Collides, memory
<1>20. CASE UNCHANGED vars
  BY <1>20, OwnersStutter DEF vars, memory
<1> QED
  BY <1>1, <1>2, <1>3, <1>4, <1>5, <1>6, <1>7, <1>8, <1>9, <1>10, <1>11, <1>12, <1>13, <1>14,
     <1>15, <1>16, <1>17, <1>18, <1>19, <1>20, <1>21, <1>22, <1>23, <1>24, <1>25, <1>26
     DEF Next, Opens

\* Nothing happens once FM9 has crashed.
LEMMA NextUp == Next => ~crashed
<1> SUFFICES ASSUME Next, crashed PROVE FALSE
  OBVIOUS
<1>1. \A w, pc : ~Active(w, pc)
  BY DEF Active
<1>2. ASSUME NEW d \in DTBs
      PROVE  ~(AskDAM(d) \/ CPU_EndDTB(d) \/ CommandFinalizar(d) \/ EndKilled(d))
  BY DEF AskDAM, CPU_EndDTB, CommandFinalizar, EndKilled
<1>3. ASSUME NEW w \in Workers
      PROVE  ~(Opens(w) \/ OpenWrites(w) \/ OpenFinds(w) \/ OpenFiles(w) \/ OpenFilesNowhere(w)
                 \/ OpenReturns(w))
  BY <1>1, Zenon DEF Opens, OpenRefused, OpenTakes, OpenArrives, OpenWrites, OpenFinds, OpenFiles,
              OpenFilesNowhere, OpenReturns
<1>4. ASSUME NEW w \in Workers, NEW d \in DTBs, NEW k
      PROVE  ~(CloseArrives(w, d, k) \/ FlushArrives(w, d, k) \/ AsignArrives(w, d, k)
                 \/ CloseDTBArrives(w, d))
  BY <1>1, Zenon DEF CloseArrives, FlushArrives, AsignArrives, CloseDTBArrives
<1>5. ASSUME NEW w \in Workers
      PROVE  ~(CloseGets(w) \/ CloseRemoves(w) \/ CloseMisses(w) \/ CloseOvertakes(w)
                 \/ CloseFreesTwice(w) \/ CloseFalls(w) \/ CloseFrees(w))
  BY <1>1, Zenon DEF CloseGets, CloseRemoves, CloseMisses, CloseOvertakes, CloseFreesTwice, CloseFalls,
              CloseFrees
<1>6. ASSUME NEW w \in Workers
      PROVE  ~(CloseDTBRemoves(w) \/ CloseDTBFrees(w) \/ CloseDTBEnds(w) \/ FlushReads(w)
                 \/ FlushEnds(w) \/ AsignWrites(w) \/ Collides(w))
  BY <1>1, Zenon DEF CloseDTBRemoves, CloseDTBFrees, CloseDTBEnds, FlushReads, FlushEnds, AsignWrites,
              Collides
<1> QED BY <1>2, <1>3, <1>4, <1>5, <1>6 DEF Next

\* Nobody frees a segment twice until the step that ends the model does.
OwnersInv == OneOwner /\ ListCompacted /\ (crashed \/ OwnerInv)

LEMMA ApartSome ==
    ASSUME NobodyFreesTwice
    PROVE  OneOwner
BY DEF NobodyFreesTwice, OneOwner, OwnersApart

LEMMA OwnersInit == Init => OwnersInv
BY OwnerInit, ApartSome DEF OwnersInv, OwnerInv

LEMMA OwnersNext == TypeOK /\ OneRequest /\ OwnersInv /\ [Next]_vars => OwnersInv'
<1> SUFFICES ASSUME TypeOK, OneRequest, OwnersInv, [Next]_vars PROVE OwnersInv'
  OBVIOUS
<1>1. CASE UNCHANGED vars
  <2>1. UNCHANGED <<free, segs, releasing, job, crashed, killed>>
    BY <1>1 DEF vars, memory, clients
  <2>2. \A w \in Workers : (Holds(w)' = Holds(w)) /\ (Twice(w)' <=> Twice(w))
    BY <2>1 DEF Holds, InHand, Twice
  <2>3. OneOwner' /\ ListCompacted'
    BY <2>1, <2>2 DEF OwnersInv, OneOwner, OwnersApart, ListCompacted, Apart, End
  <2> QED BY <2>1, <2>3, OwnersStutter DEF OwnersInv
<1>2. CASE Next /\ \A w \in Workers : ~CloseFreesTwice(w)
  <2>1. OwnerInv'
    BY <1>2, NextUp, OwnerNext DEF OwnersInv
  <2>2. OneOwner'
    BY <2>1, Zenon DEF OwnerInv, NobodyFreesTwice, OneOwner, OwnersApart
  <2> QED BY <2>1, <2>2 DEF OwnersInv, OwnerInv
<1>3. ASSUME NEW w \in Workers, CloseFreesTwice(w) PROVE OwnersInv'
  <2>1. /\ ~crashed /\ job[w].pc = "got" /\ Serve(w, Removed(w)) /\ crashed'
        /\ UNCHANGED <<free, segs, killed>>
        /\ \E v \in Workers \ {w} : Destroying(v, w)
    BY <1>3 DEF CloseFreesTwice, Active, memory, clients
  <2>2. job[w].dtb \in killed
    <3>1. job[w].dtb \in DTBs /\ Asks(w, job[w].dtb)
      BY <2>1, JobKinds DEF GotJob, Asks, Asking
    <3>2. PICK v \in Workers : Releases(v, job[w].dtb)
      BY <2>1 DEF Destroying, Releases, Closing
    <3> QED BY <3>1, <3>2 DEF OneRequest
  <2>3. /\ job[w]' = Removed(w)
        /\ \A v \in Workers \ {w} : job[v]' = job[v] /\ InHand(v)' = InHand(v)
    BY <2>1, ServedJob, OthersHold
  <2>4. Twice(w)'
    BY <2>1, <2>2, <2>3 DEF Twice, Removed
  <2>5. \A v \in Workers \ {w} : Holds(v)' = Holds(v)
    BY <1>3, <2>3 DEF CloseFreesTwice, Holds, TypeOK
  <2>6. NobodyFreesTwice /\ ListCompacted
    BY <2>1 DEF OwnersInv, OwnerInv
  <2>7. OneOwner' /\ ListCompacted'
    BY <2>1, <2>4, <2>5, <2>6
       DEF NobodyFreesTwice, OneOwner, OwnersApart, ListCompacted, Apart, End
  <2> QED BY <2>1, <2>7 DEF OwnersInv
<1> QED BY <1>1, <1>2, <1>3

LEMMA RequestsInvariant == Spec => []OneRequest
BY RequestsInit, RequestsNext, TypeInvariant, PTL DEF Spec

LEMMA OwnersInvariant == Spec => []OwnersInv
BY OwnersInit, OwnersNext, RequestsInvariant, TypeInvariant, PTL DEF Spec

\* Whatever FM9's workers do at once, no line of the memory is in two segments of
\* the list, of the table or in the workers' hands, until a close gives back what the
\* CLOSEDTB of a DTB that the console had finished gives back too.
THEOREM OneOwnerInvariant == Spec => []OneOwner
BY OwnersInvariant, PTL DEF OwnersInv

\* The free list never holds two segments that touch.
THEOREM ListInvariant == Spec => []ListCompacted
BY OwnersInvariant, PTL DEF OwnersInv

-----------------------------------------------------------------------------
(***************************************************************************)
(* What is written stays.  A file that is being written has its first      *)
(* lines in place, and what a DTB has FM9 write to or read is its own.     *)
(***************************************************************************)
Written ==
    \A w \in Workers : job[w].pc \in Filing =>
        \A x \in job[w].hole.base .. job[w].hole.base + job[w].at - 1 : storage[x] \in {job[w].dtb} \cup killed

InUse ==
    \A w \in Workers :
        /\ job[w].pc = "assign" /\ job[w].dtb \notin killed =>
              \E s \in segs : s.dtb = job[w].dtb /\ job[w].line \in s.base .. End(s) - 1
        /\ job[w].pc = "read" /\ job[w].dtb \notin killed =>
              job[w].seg \in segs /\ job[w].seg.dtb = job[w].dtb

ContentsInv == ContentsKept /\ Written

\* What the steps of a close have in common until it gives its segment back.
ClosesOn(w) ==
    \/ CloseGets(w) \/ CloseRemoves(w) \/ CloseMisses(w)
    \/ CloseOvertakes(w) \/ CloseFreesTwice(w) \/ CloseFalls(w)

LEMMA ClosesKeep ==
    ASSUME TypeOK, NEW w \in Workers, ClosesOn(w)
    PROVE  /\ UNCHANGED <<storage, killed, known, next>> /\ ~crashed
           /\ segs' \subseteq segs
           /\ \A s \in segs \ segs' : s.dtb = job[w].dtb /\ job[w].pc = "got"
           /\ dangling \ {w} \subseteq dangling'
           /\ \A v \in Workers : job[v]' = job[v] \/ job[v]'.pc \in {"got", "back", "idle"}
           /\ job[w].pc # "file"
<1>1. ASSUME NEW j, Serve(w, j), j.pc \in {"got", "back", "idle"}
      PROVE  \A v \in Workers : job[v]' = job[v] \/ job[v]'.pc \in {"got", "back", "idle"}
  BY <1>1, ServedJob, OthersHold
<1>2. Removed(w).pc = "back" /\ Idle.pc = "idle"
  BY DEF Removed, Idle
<1>3. CASE CloseGets(w)
  <2>1. /\ UNCHANGED <<storage, killed, known, next, segs, dangling>> /\ ~crashed
        /\ job[w].pc = "close"
    BY <1>3 DEF CloseGets, Active, memory, clients
  <2>2. \/ UNCHANGED job
        \/ \E j : Serve(w, j) /\ j.pc = "got"
    BY <1>3 DEF CloseGets
  <2> QED BY <1>1, <2>1, <2>2
<1>4. CASE CloseRemoves(w)
  BY <1>1, <1>2, <1>4 DEF CloseRemoves, Active, Under, clients
<1>5. CASE CloseMisses(w)
  BY <1>1, <1>2, <1>5 DEF CloseMisses, Active, memory
<1>6. CASE CloseOvertakes(w)
  BY <1>1, <1>2, <1>6 DEF CloseOvertakes, Active, memory, clients
<1>7. CASE CloseFreesTwice(w)
  BY <1>1, <1>2, <1>7 DEF CloseFreesTwice, Active, memory, clients
<1>8. CASE CloseFalls(w)
  BY <1>8 DEF CloseFalls, Active, memory, clients
<1> QED BY <1>3, <1>4, <1>5, <1>6, <1>7, <1>8 DEF ClosesOn

\* Nothing is written, no file is filed and no request to write starts.
LEMMA ContentsStay ==
    ASSUME ContentsInv, segs' \subseteq segs, storage' = storage, killed \subseteq killed',
           \A v \in Workers : job[v]' = job[v] \/ job[v]'.pc \notin Filing
    PROVE  ContentsInv'
BY DEF ContentsInv, ContentsKept, Written, End

LEMMA ContentsServe ==
    ASSUME TypeOK, ContentsInv, segs' \subseteq segs, storage' = storage, killed' = killed,
           NEW w \in Workers, NEW j, Serve(w, j), j.pc \notin Filing
    PROVE  ContentsInv'
<1>1. \A v \in Workers : job[v]' = job[v] \/ job[v]'.pc \notin Filing
  BY ServedJob, OthersHold
<1> QED BY <1>1, ContentsStay

LEMMA ContentsSame ==
    ASSUME ContentsInv, UNCHANGED <<segs, storage, job>>, killed \subseteq killed'
    PROVE  ContentsInv'
BY DEF ContentsInv, ContentsKept, Written, End

LEMMA ContentsNext ==
    TypeOK /\ OwnersInv /\ InUse /\ ContentsInv /\ [Next]_vars => ContentsInv'
<1> SUFFICES ASSUME TypeOK, OwnersInv, InUse, ContentsInv, [Next]_vars PROVE ContentsInv'
  OBVIOUS
<1>o. ~crashed => OwnersApart(Workers)
  BY DEF OwnersInv, OwnerInv, NobodyFreesTwice
<1>1. ASSUME NEW d \in DTBs, AskDAM(d) \/ CPU_EndDTB(d) \/ CommandFinalizar(d) \/ EndKilled(d)
      PROVE  ContentsInv'
  BY <1>1, ContentsSame DEF AskDAM, CPU_EndDTB, CommandFinalizar, EndKilled, memory
<1>2. ASSUME NEW w \in Workers, NEW d \in DTBs, NEW n \in 1 .. MaxFile, OpenRefused(w, d, n)
      PROVE  ContentsInv'
  BY <1>2, ContentsSame DEF OpenRefused, OpenArrives
<1>3. ASSUME NEW w \in Workers, NEW d \in DTBs, NEW n \in 1 .. MaxFile, OpenTakes(w, d, n)
      PROVE  ContentsInv'
  <2>1. PICK h \in free :
           Serve(w, [pc |-> "write", dtb |-> d, lines |-> n, at |-> 0, hole |-> h])
    BY <1>3 DEF OpenTakes
  <2>2. /\ job[w]' = [pc |-> "write", dtb |-> d, lines |-> n, at |-> 0, hole |-> h]
        /\ \A v \in Workers \ {w} : job[v]' = job[v]
    BY <2>1, ServedJob, OthersHold
  <2>3. UNCHANGED <<segs, storage, killed>> /\ h.base \in Int
    BY <1>3 DEF OpenTakes, OpenArrives, TypeOK, Hole
  <2>4. Written'
    BY <2>2, <2>3 DEF ContentsInv, Written
  <2> QED BY <2>3, <2>4 DEF ContentsInv, ContentsKept, End
<1>4. ASSUME NEW w \in Workers, OpenWrites(w) PROVE ContentsInv'
  <2> DEFINE L == job[w].hole.base + job[w].at
             j == [job[w] EXCEPT
                     !.at = @ + 1,
                     !.pc = IF job[w].at + 1 = job[w].lines THEN "find" ELSE "write"]
  <2>1. /\ job[w] \in OpenJob /\ job[w].pc = "write" /\ job[w].at < job[w].lines
        /\ Serve(w, j) /\ UNCHANGED <<segs, killed>> /\ OwnersApart(Workers)
    BY <1>4, <1>o, JobKinds DEF OpenWrites, Active, Filing, OpenJob, clients
  <2>2. \A x \in 0 .. Lines - 1 : storage'[x] = IF x = L THEN job[w].dtb ELSE storage[x]
    BY <1>4, <2>1 DEF OpenWrites, TypeOK, OpenJob
  <2>3. /\ job[w]' = j /\ j.hole = job[w].hole /\ j.at = job[w].at + 1 /\ j.dtb = job[w].dtb
        /\ \A v \in Workers \ {w} : job[v]' = job[v]
    BY <2>1, ServedJob, OthersHold DEF OpenJob
  <2>4. /\ job[w].hole \in Hole /\ job[w].hole \in Holds(w)
        /\ L \in Int /\ job[w].hole.base <= L /\ L < End(job[w].hole)
    BY <2>1, BoundsAssumption DEF Holds, InHand, Filing, OpenJob, Hole, End
  <2>5. ASSUME NEW s \in segs, NEW x \in s.base .. End(s) - 1
        PROVE  storage'[x] \in {s.dtb} \cup killed
    <3>1. s \in Segment /\ storage[x] \in {s.dtb} \cup killed
      BY DEF TypeOK, ContentsInv, ContentsKept
    <3>2. Apart(job[w].hole, s)
      BY <2>1, <2>4 DEF OwnersApart
    <3>3. x # L /\ x \in 0 .. Lines - 1
      BY <2>4, <3>1, <3>2, BoundsAssumption DEF Apart, End, Segment, Hole
    <3> QED BY <2>2, <3>1, <3>3
  <2>6. ASSUME NEW v \in Workers \ {w}, job[v].pc \in Filing,
               NEW x \in job[v].hole.base .. job[v].hole.base + job[v].at - 1
        PROVE  storage'[x] \in {job[v].dtb} \cup killed
    <3>1. job[v] \in OpenJob /\ storage[x] \in {job[v].dtb} \cup killed
      BY <2>6, JobKinds DEF ContentsInv, Written
    <3>2. job[v].hole \in Hole /\ job[v].hole \in Holds(v)
      BY <2>6, <3>1, BoundsAssumption DEF Holds, InHand, OpenJob, Hole
    <3>3. Apart(job[w].hole, job[v].hole)
      BY <2>1, <2>4, <3>2 DEF OwnersApart
    <3>4. x # L /\ x \in 0 .. Lines - 1
      BY <2>4, <3>1, <3>2, <3>3, BoundsAssumption DEF Apart, End, OpenJob, Hole
    <3> QED BY <2>2, <3>1, <3>4
  <2>7. ASSUME NEW x \in job[w].hole.base .. job[w].hole.base + job[w].at
        PROVE  storage'[x] \in {job[w].dtb} \cup killed
    <3>1. x \in 0 .. Lines - 1
      BY <2>1, <2>4, BoundsAssumption DEF Hole, End, OpenJob
    <3>2. CASE x = L
      BY <2>2, <3>1, <3>2
    <3>3. CASE x # L
      <4>1. x \in job[w].hole.base .. job[w].hole.base + job[w].at - 1
        BY <2>1, <2>4, <3>3 DEF OpenJob, Hole
      <4>2. storage[x] \in {job[w].dtb} \cup killed
        BY <2>1, <4>1 DEF ContentsInv, Written, Filing
      <4> QED BY <2>2, <3>1, <3>3, <4>2
    <3> QED BY <3>2, <3>3
  <2>8. job[w].hole.base + j.at - 1 = job[w].hole.base + job[w].at
    BY <2>1, <2>3, <2>4 DEF OpenJob, Hole
  <2>9. ContentsKept'
    BY <2>1, <2>5 DEF ContentsKept, End
  <2> HIDE DEF j
  <2>10. Written'
    BY <2>1, <2>3, <2>6, <2>7, <2>8 DEF Written
  <2> QED BY <2>9, <2>10 DEF ContentsInv
<1>5. ASSUME NEW w \in Workers, OpenFinds(w) PROVE ContentsInv'
  <2> DEFINE j == [job[w] EXCEPT !.pc = "file"]
  <2>1. /\ job[w] \in OpenJob /\ job[w].pc \in Filing
        /\ Serve(w, j) /\ UNCHANGED <<segs, storage, killed>>
    BY <1>5, JobKinds DEF OpenFinds, Active, Filing, clients
  <2>2. /\ job[w]' = j /\ j.hole = job[w].hole /\ j.at = job[w].at /\ j.dtb = job[w].dtb
        /\ \A v \in Workers \ {w} : job[v]' = job[v]
    BY <2>1, ServedJob, OthersHold DEF OpenJob
  <2> HIDE DEF j
  <2>3. Written'
    BY <2>1, <2>2 DEF ContentsInv, Written
  <2> QED BY <2>1, <2>3 DEF ContentsInv, ContentsKept, End
<1>6. ASSUME NEW w \in Workers, OpenFiles(w) PROVE ContentsInv'
  <2> DEFINE t == Filed(job[w], next[job[w].dtb])
  <2>1. /\ job[w] \in OpenJob /\ job[w].pc = "file" /\ job[w].at = job[w].lines
        /\ segs' = segs \cup {t} /\ UNCHANGED <<storage, killed>>
        /\ FilesRemainder(w, next[job[w].dtb])
    BY <1>6, JobKinds DEF OpenFiles, Active, Filing, OpenJob, clients
  <2>2. \A x \in t.base .. End(t) - 1 : storage[x] \in {t.dtb} \cup killed
    <3>1. t.base = job[w].hole.base /\ t.dtb = job[w].dtb /\ t.limit = job[w].at
      BY <2>1 DEF Filed
    <3>2. End(t) - 1 = job[w].hole.base + job[w].at - 1
      BY <2>1, <3>1 DEF End, OpenJob, Hole
    <3>3. \A x \in job[w].hole.base .. job[w].hole.base + job[w].at - 1 :
              storage[x] \in {job[w].dtb} \cup killed
      BY <2>1 DEF ContentsInv, Written, Filing
    <3> HIDE DEF t
    <3> QED BY <3>1, <3>2, <3>3
  <2>3. ContentsKept'
    BY <2>1, <2>2 DEF ContentsInv, ContentsKept, End
  <2>4. \A v \in Workers : job[v]' = job[v] \/ job[v]'.pc \notin Filing
    BY <2>1, ServedJob, OthersHold DEF FilesRemainder, Filing
  <2>5. Written'
    BY <2>1, <2>4 DEF ContentsInv, Written
  <2> QED BY <2>3, <2>5 DEF ContentsInv
<1>7. ASSUME NEW w \in Workers, OpenFilesNowhere(w) PROVE ContentsInv'
  <2>1. UNCHANGED <<segs, storage, killed>>
    BY <1>7 DEF OpenFilesNowhere, memory, clients
  <2>2. CASE UNCHANGED job
    BY <2>1, <2>2, ContentsSame
  <2>3. ASSUME NEW k, FilesRemainder(w, k) PROVE ContentsInv'
    BY <2>1, <2>3, ContentsServe DEF FilesRemainder, Filing
  <2> QED BY <1>7, <2>2, <2>3 DEF OpenFilesNowhere
<1>i. ASSUME NEW w \in Workers, Serve(w, Idle), segs' \subseteq segs, UNCHANGED <<storage, killed>>
      PROVE  ContentsInv'
  BY <1>i, ContentsServe DEF Idle, Filing
<1>8. ASSUME NEW w \in Workers, OpenReturns(w) PROVE ContentsInv'
  BY <1>8, <1>i DEF OpenReturns
<1>9. ASSUME NEW w \in Workers, NEW d \in DTBs, NEW k \in opened[d], CloseArrives(w, d, k)
      PROVE  ContentsInv'
  <2>1. CASE Serve(w, [pc |-> "close", dtb |-> d, number |-> k])
    BY <1>9, <2>1, ContentsServe DEF CloseArrives, memory, Filing
  <2>2. CASE UNCHANGED job
    BY <1>9, <2>2, ContentsSame DEF CloseArrives, memory
  <2> QED BY <1>9, <2>1, <2>2 DEF CloseArrives
<1>10. ASSUME NEW w \in Workers, ClosesOn(w) PROVE ContentsInv'
  BY <1>10, ClosesKeep, ContentsStay DEF Filing
<1>11. ASSUME NEW w \in Workers, CloseFrees(w) PROVE ContentsInv'
  BY <1>11, <1>i DEF CloseFrees, Frees
<1>12. ASSUME NEW w \in Workers, NEW d \in DTBs, CloseDTBArrives(w, d) PROVE ContentsInv'
  <2>1. CASE Serve(w, [pc |-> "remove", dtb |-> d])
    BY <1>12, <2>1, ContentsServe DEF CloseDTBArrives, memory, Filing
  <2>2. CASE UNCHANGED job
    BY <1>12, <2>2, ContentsSame DEF CloseDTBArrives, memory
  <2> QED BY <1>12, <2>1, <2>2 DEF CloseDTBArrives
<1>13. ASSUME NEW w \in Workers, CloseDTBRemoves(w) PROVE ContentsInv'
  <2>1. job[w] \in CloseDTBJob /\ UNCHANGED <<storage, killed>> /\ segs' \subseteq segs
    BY <1>13, JobKinds DEF CloseDTBRemoves, Active, clients
  <2>2. [job[w] EXCEPT !.pc = "release"].pc \notin Filing
    BY <2>1 DEF CloseDTBJob, Filing
  <2>3. CASE Serve(w, [job[w] EXCEPT !.pc = "release"])
    BY <2>1, <2>2, <2>3, ContentsServe
  <2>4. CASE UNCHANGED <<segs, job>>
    BY <2>1, <2>4, ContentsSame
  <2> QED BY <1>13, <2>3, <2>4 DEF CloseDTBRemoves
<1>14. ASSUME NEW w \in Workers, CloseDTBFrees(w) PROVE ContentsInv'
  BY <1>14, ContentsSame DEF CloseDTBFrees, Frees
<1>15. ASSUME NEW w \in Workers, CloseDTBEnds(w) PROVE ContentsInv'
  BY <1>15, <1>i DEF CloseDTBEnds, memory, clients
<1>16. ASSUME NEW w \in Workers, NEW d \in DTBs, NEW k \in opened[d], FlushArrives(w, d, k)
       PROVE  ContentsInv'
  <2>1. ASSUME NEW s, Serve(w, [pc |-> "read", dtb |-> d, seg |-> s, at |-> 0, got |-> {}])
        PROVE  ContentsInv'
    BY <1>16, <2>1, ContentsServe DEF FlushArrives, memory, Filing
  <2>2. CASE UNCHANGED job
    BY <1>16, <2>2, ContentsSame DEF FlushArrives, memory
  <2> QED BY <1>16, <2>1, <2>2 DEF FlushArrives
<1>17. ASSUME NEW w \in Workers, FlushReads(w) PROVE ContentsInv'
  <2> DEFINE j == [job[w] EXCEPT
                     !.at = @ + 1,
                     !.got = @ \cup {storage[job[w].seg.base + job[w].at]}]
  <2>1. job[w] \in FlushJob /\ UNCHANGED <<segs, storage, killed>> /\ Serve(w, j)
    BY <1>17, JobKinds DEF FlushReads, Active, memory, clients
  <2>2. j.pc \notin Filing
    BY <2>1 DEF FlushJob, Filing
  <2> QED BY <2>1, <2>2, ContentsServe
<1>18. ASSUME NEW w \in Workers, FlushEnds(w) PROVE ContentsInv'
  BY <1>18, <1>i DEF FlushEnds, memory
<1>21. ASSUME NEW w \in Workers, NEW d \in DTBs, NEW k \in opened[d], AsignArrives(w, d, k)
       PROVE  ContentsInv'
  <2>1. ASSUME NEW x, Serve(w, [pc |-> "assign", dtb |-> d, line |-> x])
        PROVE  ContentsInv'
    BY <1>21, <2>1, ContentsServe DEF AsignArrives, memory, Filing
  <2>2. CASE UNCHANGED job
    BY <1>21, <2>2, ContentsSame DEF AsignArrives, memory
  <2> QED BY <1>21, <2>1, <2>2 DEF AsignArrives
<1>22. ASSUME NEW w \in Workers, AsignWrites(w) PROVE ContentsInv'
  <2> DEFINE d == job[w].dtb
             L == job[w].line
  <2>1. /\ job[w] \in AsignJob /\ job[w].pc = "assign" /\ L \in 0 .. Lines - 1
        /\ UNCHANGED <<segs, killed>>
        /\ \A v \in Workers : job[v]' = job[v] \/ job[v]'.pc \notin Filing
        /\ OwnersApart(Workers)
    <3>1. /\ job[w] \in AsignJob /\ job[w].pc = "assign" /\ Serve(w, Idle)
          /\ UNCHANGED <<segs, killed>> /\ OwnersApart(Workers)
      BY <1>22, <1>o, JobKinds DEF AsignWrites, Active
    <3>2. job[w]'.pc \notin Filing
      BY <3>1, ServedJob DEF Idle, Filing
    <3> QED BY <3>1, <3>2, OthersHold DEF AsignJob
  <2>2. \A x \in 0 .. Lines - 1 : storage'[x] = IF x = L THEN d ELSE storage[x]
    BY <1>22, <2>1 DEF AsignWrites, TypeOK
  <2>3. CASE d \in killed
    <3>1. \A x \in 0 .. Lines - 1 : \A o : storage[x] \in {o} \cup killed
                                            => storage'[x] \in {o} \cup killed'
      BY <2>1, <2>2, <2>3
    <3>2. ContentsKept'
      <4> SUFFICES ASSUME NEW s \in segs, NEW x \in s.base .. End(s) - 1
                   PROVE  storage'[x] \in {s.dtb} \cup killed'
        BY <2>1 DEF ContentsKept, End
      <4>1. s \in Segment /\ storage[x] \in {s.dtb} \cup killed
        BY DEF TypeOK, ContentsInv, ContentsKept
      <4>2. x \in 0 .. Lines - 1
        BY <4>1, BoundsAssumption DEF Segment, End
      <4> QED BY <3>1, <4>1, <4>2
    <3>3. Written'
      <4> SUFFICES ASSUME NEW v \in Workers, job[v]'.pc \in Filing,
                          NEW x \in job[v].hole.base .. job[v].hole.base + job[v].at - 1,
                          job[v]' = job[v]
                   PROVE  storage'[x] \in {job[v].dtb} \cup killed'
        BY <2>1 DEF Written
      <4>1. job[v] \in OpenJob /\ storage[x] \in {job[v].dtb} \cup killed
        BY JobKinds DEF ContentsInv, Written
      <4>2. x \in 0 .. Lines - 1
        BY <4>1, BoundsAssumption DEF OpenJob, Hole, End
      <4> QED BY <3>1, <4>1, <4>2
    <3> QED BY <3>2, <3>3 DEF ContentsInv
  <2>4. CASE d \notin killed
    <3>1. PICK t \in segs : t.dtb = d /\ L \in t.base .. End(t) - 1
      BY <2>1, <2>4 DEF InUse
    <3>2. ContentsKept'
      <4> SUFFICES ASSUME NEW s \in segs, NEW x \in s.base .. End(s) - 1
                   PROVE  storage'[x] \in {s.dtb} \cup killed
        BY <2>1 DEF ContentsKept, End
      <4>1. s \in Segment /\ t \in Segment /\ storage[x] \in {s.dtb} \cup killed
        BY DEF TypeOK, ContentsInv, ContentsKept
      <4>2. x \in 0 .. Lines - 1
        BY <4>1, BoundsAssumption DEF Segment, End
      <4>3. s = t \/ Apart(s, t)
        BY <2>1 DEF OwnersApart
      <4>4. x = L => s = t
        BY <3>1, <4>1, <4>3 DEF Apart, End, Segment
      <4> QED BY <2>2, <3>1, <4>1, <4>2, <4>4
    <3>3. Written'
      <4> SUFFICES ASSUME NEW v \in Workers, job[v]'.pc \in Filing,
                          NEW x \in job[v].hole.base .. job[v].hole.base + job[v].at - 1,
                          job[v]' = job[v]
                   PROVE  storage'[x] \in {job[v].dtb} \cup killed
        BY <2>1 DEF Written
      <4>1. job[v] \in OpenJob /\ storage[x] \in {job[v].dtb} \cup killed
        BY JobKinds DEF ContentsInv, Written
      <4>2. job[v].hole \in Hole /\ job[v].hole \in Holds(v)
        BY <4>1, BoundsAssumption DEF Holds, InHand, OpenJob, Hole
      <4>3. Apart(job[v].hole, t) /\ t \in Segment
        BY <2>1, <4>2 DEF OwnersApart, TypeOK
      <4>4. x # L /\ x \in 0 .. Lines - 1
        BY <3>1, <4>1, <4>2, <4>3, BoundsAssumption DEF Apart, End, OpenJob, Hole, Segment
      <4> QED BY <2>2, <4>1, <4>4
    <3> QED BY <3>2, <3>3 DEF ContentsInv
  <2> QED BY <2>3, <2>4
<1>19. ASSUME NEW w \in Workers, Collides(w) PROVE ContentsInv'
  BY <1>19, ContentsSame DEF Collides, memory, clients
<1>20. CASE UNCHANGED vars
  BY <1>20, ContentsSame DEF vars, memory, clients
<1> QED
  BY <1>1, <1>2, <1>3, <1>4, <1>5, <1>6, <1>7, <1>8, <1>9, <1>10, <1>11, <1>12, <1>13, <1>14,
     <1>15, <1>16, <1>17, <1>18, <1>19, <1>20, <1>21, <1>22 DEF Next, Opens, ClosesOn

LEMMA ContentsInit == Init => ContentsInv
BY DEF Init, ContentsInv, ContentsKept, Written, Idle, Filing

\* The same for what is used: no segment of the table that a DTB's request is
\* working on leaves the table, unless the console had the DTB finished.
InTheirHands == {"assign", "read"}

LEMMA InUseStay ==
    ASSUME InUse, killed \subseteq killed',
           \A v \in Workers : job[v]' = job[v] \/ job[v]'.pc \notin InTheirHands,
           \A s \in segs \ segs' : \A v \in Workers :
              job[v].pc \in InTheirHands /\ job[v].dtb \notin killed => job[v].dtb # s.dtb
    PROVE  InUse'
<1>1. ASSUME NEW v \in Workers, job[v]'.pc \in InTheirHands, job[v]'.dtb \notin killed'
      PROVE  /\ job[v]' = job[v] /\ job[v].dtb \notin killed
             /\ \A s \in segs : s.dtb = job[v].dtb => s \in segs'
  BY <1>1
<1> QED BY <1>1 DEF InUse, InTheirHands, End

LEMMA InUseServe ==
    ASSUME TypeOK, InUse, killed' = killed, segs \subseteq segs',
           NEW w \in Workers, NEW j, j.pc \notin InTheirHands, Serve(w, j) \/ UNCHANGED job
    PROVE  InUse'
<1>1. \A v \in Workers : job[v]' = job[v] \/ job[v]'.pc \notin InTheirHands
  BY ServedJob, OthersHold
<1> QED BY <1>1, InUseStay

LEMMA InUseNext == TypeOK /\ OneRequest /\ InUse /\ [Next]_vars => InUse'
<1> SUFFICES ASSUME TypeOK, OneRequest, InUse, [Next]_vars PROVE InUse'
  OBVIOUS
<1>o. \A w, v \in Workers :
        job[v].pc \in InTheirHands /\ job[v].dtb \in DTBs \ killed =>
          ~(job[w].pc \in {"got", "remove"} /\ job[w].dtb = job[v].dtb)
  BY DEF OneRequest, Asks, Releases, Asking, Closing, InTheirHands
<1>d. \A v \in Workers : job[v].pc \in InTheirHands => job[v].dtb \in DTBs
  BY JobKinds DEF InTheirHands, AsignJob, FlushJob
<1>1. ASSUME NEW d \in DTBs, AskDAM(d) \/ CPU_EndDTB(d) \/ CommandFinalizar(d) \/ EndKilled(d)
      PROVE  InUse'
  BY <1>1, InUseStay DEF AskDAM, CPU_EndDTB, CommandFinalizar, EndKilled, memory
<1>2. ASSUME NEW w \in Workers, NEW d \in DTBs, NEW n \in 1 .. MaxFile, OpenRefused(w, d, n)
      PROVE  InUse'
  BY <1>2, InUseStay DEF OpenRefused, OpenArrives
<1>3. ASSUME NEW w \in Workers, NEW d \in DTBs, NEW n \in 1 .. MaxFile, OpenTakes(w, d, n)
      PROVE  InUse'
  <2>1. PICK h \in free :
           Serve(w, [pc |-> "write", dtb |-> d, lines |-> n, at |-> 0, hole |-> h])
    BY <1>3 DEF OpenTakes
  <2> QED BY <1>3, <2>1, InUseServe DEF OpenTakes, OpenArrives, InTheirHands
<1>4. ASSUME NEW w \in Workers, OpenWrites(w) PROVE InUse'
  <2> DEFINE j == [job[w] EXCEPT !.at = @ + 1,
                     !.pc = IF job[w].at + 1 = job[w].lines THEN "find" ELSE "write"]
  <2>1. job[w] \in OpenJob /\ Serve(w, j) /\ UNCHANGED <<segs, killed>>
    BY <1>4, JobKinds DEF OpenWrites, Active, Filing, clients
  <2>2. j.pc \notin InTheirHands
    BY <2>1 DEF OpenJob, InTheirHands
  <2> HIDE DEF j
  <2> QED BY <2>1, <2>2, InUseServe
<1>5. ASSUME NEW w \in Workers, OpenFinds(w) PROVE InUse'
  <2>1. job[w] \in OpenJob /\ UNCHANGED <<segs, killed>>
        /\ Serve(w, [job[w] EXCEPT !.pc = "file"])
    BY <1>5, JobKinds DEF OpenFinds, Active, Filing, clients
  <2>2. [job[w] EXCEPT !.pc = "file"].pc \notin InTheirHands
    BY <2>1 DEF OpenJob, InTheirHands
  <2> QED BY <2>1, <2>2, InUseServe
<1>6. ASSUME NEW w \in Workers, OpenFiles(w) PROVE InUse'
  BY <1>6, InUseServe DEF OpenFiles, FilesRemainder, clients, InTheirHands
<1>7. ASSUME NEW w \in Workers, OpenFilesNowhere(w) PROVE InUse'
  <2>1. UNCHANGED <<segs, killed>>
    BY <1>7 DEF OpenFilesNowhere, memory, clients
  <2>2. CASE UNCHANGED job
    BY <2>1, <2>2, InUseStay
  <2>3. ASSUME NEW k, FilesRemainder(w, k) PROVE InUse'
    BY <2>1, <2>3, InUseServe DEF FilesRemainder, InTheirHands
  <2> QED BY <1>7, <2>2, <2>3 DEF OpenFilesNowhere
<1>8. ASSUME NEW w \in Workers, OpenReturns(w) PROVE InUse'
  BY <1>8, InUseServe DEF OpenReturns, Idle, InTheirHands
<1>9. ASSUME NEW w \in Workers, NEW d \in DTBs, NEW k \in opened[d], CloseArrives(w, d, k)
      PROVE  InUse'
  <2>1. CASE Serve(w, [pc |-> "close", dtb |-> d, number |-> k])
    BY <1>9, <2>1, InUseServe DEF CloseArrives, memory, InTheirHands
  <2>2. CASE UNCHANGED job
    BY <1>9, <2>2, InUseStay DEF CloseArrives, memory
  <2> QED BY <1>9, <2>1, <2>2 DEF CloseArrives
<1>10. ASSUME NEW w \in Workers, ClosesOn(w) PROVE InUse'
  <2>1. \A s \in segs \ segs' : \A v \in Workers :
           job[v].pc \in InTheirHands /\ job[v].dtb \notin killed => job[v].dtb # s.dtb
    BY <1>10, <1>o, <1>d, ClosesKeep
  <2>2. \A v \in Workers : job[v]' = job[v] \/ job[v]'.pc \notin InTheirHands
    BY <1>10, ClosesKeep DEF InTheirHands
  <2> QED BY <1>10, <2>1, <2>2, ClosesKeep, InUseStay
<1>11. ASSUME NEW w \in Workers, CloseFrees(w) PROVE InUse'
  BY <1>11, InUseServe DEF CloseFrees, Frees, Idle, InTheirHands
<1>12. ASSUME NEW w \in Workers, NEW d \in DTBs, CloseDTBArrives(w, d) PROVE InUse'
  <2>1. CASE Serve(w, [pc |-> "remove", dtb |-> d])
    BY <1>12, <2>1, InUseServe DEF CloseDTBArrives, memory, InTheirHands
  <2>2. CASE UNCHANGED job
    BY <1>12, <2>2, InUseStay DEF CloseDTBArrives, memory
  <2> QED BY <1>12, <2>1, <2>2 DEF CloseDTBArrives
<1>13. ASSUME NEW w \in Workers, CloseDTBRemoves(w) PROVE InUse'
  <2>1. /\ job[w] \in CloseDTBJob /\ job[w].pc = "remove" /\ killed' = killed
        /\ \A s \in segs \ segs' : s.dtb = job[w].dtb
    BY <1>13, JobKinds DEF CloseDTBRemoves, Active, clients
  <2>2. [job[w] EXCEPT !.pc = "release"].pc \notin InTheirHands
    BY <2>1 DEF CloseDTBJob, InTheirHands
  <2>3. \A v \in Workers : job[v]' = job[v] \/ job[v]'.pc \notin InTheirHands
    BY <1>13, <2>2, ServedJob, OthersHold DEF CloseDTBRemoves
  <2>4. \A s \in segs \ segs' : \A v \in Workers :
           job[v].pc \in InTheirHands /\ job[v].dtb \notin killed => job[v].dtb # s.dtb
    BY <1>o, <1>d, <2>1
  <2> QED BY <2>1, <2>3, <2>4, InUseStay
<1>14. ASSUME NEW w \in Workers, CloseDTBFrees(w) PROVE InUse'
  BY <1>14, InUseStay DEF CloseDTBFrees, Frees
<1>15. ASSUME NEW w \in Workers, CloseDTBEnds(w) PROVE InUse'
  BY <1>15, InUseServe DEF CloseDTBEnds, memory, clients, Idle, InTheirHands
<1>16. ASSUME NEW w \in Workers, NEW d \in DTBs, NEW k \in opened[d], FlushArrives(w, d, k)
       PROVE  InUse'
  <2>1. ASSUME NEW s \in segs, s.dtb = d,
               Serve(w, [pc |-> "read", dtb |-> d, seg |-> s, at |-> 0, got |-> {}])
        PROVE  InUse'
    <3>1. UNCHANGED <<segs, killed>>
      BY <1>16 DEF FlushArrives, memory
    <3>2. /\ job[w]' = [pc |-> "read", dtb |-> d, seg |-> s, at |-> 0, got |-> {}]
          /\ \A v \in Workers \ {w} : job[v]' = job[v]
      BY <2>1, ServedJob, OthersHold
    <3> QED BY <2>1, <3>1, <3>2 DEF InUse, End
  <2>2. CASE UNCHANGED job
    BY <1>16, <2>2, InUseStay DEF FlushArrives, memory
  <2> QED BY <1>16, <2>1, <2>2 DEF FlushArrives, Under
<1>17. ASSUME NEW w \in Workers, FlushReads(w) PROVE InUse'
  <2> DEFINE j == [job[w] EXCEPT
                     !.at = @ + 1,
                     !.got = @ \cup {storage[job[w].seg.base + job[w].at]}]
  <2>1. /\ job[w] \in FlushJob /\ job[w].pc = "read" /\ UNCHANGED <<segs, killed>> /\ Serve(w, j)
    BY <1>17, JobKinds DEF FlushReads, Active, memory, clients
  <2>2. j.pc = "read" /\ j.dtb = job[w].dtb /\ j.seg = job[w].seg
    BY <2>1 DEF FlushJob
  <2> HIDE DEF j
  <2>3. job[w]' = j /\ \A v \in Workers \ {w} : job[v]' = job[v]
    BY <2>1, ServedJob, OthersHold
  <2> QED BY <2>1, <2>2, <2>3 DEF InUse, End
<1>18. ASSUME NEW w \in Workers, FlushEnds(w) PROVE InUse'
  BY <1>18, InUseServe DEF FlushEnds, memory, Idle, InTheirHands
<1>19. ASSUME NEW w \in Workers, Collides(w) PROVE InUse'
  BY <1>19, InUseStay DEF Collides, memory, clients
<1>20. CASE UNCHANGED vars
  BY <1>20, InUseStay DEF vars, memory, clients
<1>21. ASSUME NEW w \in Workers, NEW d \in DTBs, NEW k \in opened[d], AsignArrives(w, d, k)
       PROVE  InUse'
  <2>1. ASSUME NEW s \in segs, s.dtb = d, NEW x \in s.base .. End(s) - 1,
               Serve(w, [pc |-> "assign", dtb |-> d, line |-> x])
        PROVE  InUse'
    <3>1. UNCHANGED <<segs, killed>>
      BY <1>21 DEF AsignArrives, memory
    <3>2. /\ job[w]' = [pc |-> "assign", dtb |-> d, line |-> x]
          /\ \A v \in Workers \ {w} : job[v]' = job[v]
      BY <2>1, ServedJob, OthersHold
    <3> QED BY <2>1, <3>1, <3>2 DEF InUse, End
  <2>2. CASE UNCHANGED job
    BY <1>21, <2>2, InUseStay DEF AsignArrives, memory
  <2> QED BY <1>21, <2>1, <2>2 DEF AsignArrives
<1>22. ASSUME NEW w \in Workers, AsignWrites(w) PROVE InUse'
  BY <1>22, InUseServe DEF AsignWrites, Idle, InTheirHands
<1> QED
  BY <1>1, <1>2, <1>3, <1>4, <1>5, <1>6, <1>7, <1>8, <1>9, <1>10, <1>11, <1>12, <1>13, <1>14,
     <1>15, <1>16, <1>17, <1>18, <1>19, <1>20, <1>21, <1>22 DEF Next, Opens, ClosesOn

LEMMA InUseInvariant == Spec => []InUse
<1>1. Init => InUse
  BY DEF Init, InUse, Idle
<1> QED BY <1>1, InUseNext, RequestsInvariant, TypeInvariant, PTL DEF Spec

LEMMA ContentsAlways == Spec => []ContentsInv
BY ContentsInit, ContentsNext, InUseInvariant, OwnersInvariant, TypeInvariant, PTL DEF Spec

\* What was written for an open file stays in its lines until the file is closed:
\* follows from no line having two owners, from the order in which a file's lines are
\* written and its segment is filed, and from a DTB having one request at a time.
THEOREM ContentsInvariant == Spec => []ContentsKept
BY ContentsAlways, PTL DEF ContentsInv

-----------------------------------------------------------------------------
(***************************************************************************)
(* What a flush takes.                                                     *)
(***************************************************************************)
\* No job starts with lines it has read, or reads more, but in the two actions of a flush.
LEMMA FlushStay ==
    ASSUME FlushesItsOwn, killed \subseteq killed',
           \A v \in Workers : job[v]' = job[v] \/ job[v]'.pc # "read"
    PROVE  FlushesItsOwn'
BY DEF FlushesItsOwn

LEMMA FlushServe ==
    ASSUME TypeOK, FlushesItsOwn, killed \subseteq killed', NEW w \in Workers, NEW j,
           j.pc # "read" \/ j.got = {}, Serve(w, j) \/ UNCHANGED job
    PROVE  FlushesItsOwn'
<1>1. \A v \in Workers : job[v]' = job[v] \/ job[v]'.pc # "read" \/ job[v]'.got = {}
  BY ServedJob, OthersHold
<1> QED BY <1>1 DEF FlushesItsOwn

LEMMA FlushNext ==
    TypeOK /\ InUse /\ ContentsInv /\ FlushesItsOwn /\ [Next]_vars => FlushesItsOwn'
<1> SUFFICES ASSUME TypeOK, InUse, ContentsInv, FlushesItsOwn, [Next]_vars PROVE FlushesItsOwn'
  OBVIOUS
<1>1. ASSUME NEW d \in DTBs, AskDAM(d) \/ CPU_EndDTB(d) \/ CommandFinalizar(d) \/ EndKilled(d)
      PROVE  FlushesItsOwn'
  BY <1>1, FlushStay DEF AskDAM, CPU_EndDTB, CommandFinalizar, EndKilled
<1>2. ASSUME NEW w \in Workers, NEW d \in DTBs, NEW n \in 1 .. MaxFile, OpenRefused(w, d, n)
      PROVE  FlushesItsOwn'
  BY <1>2, FlushStay DEF OpenRefused, OpenArrives
<1>3. ASSUME NEW w \in Workers, NEW d \in DTBs, NEW n \in 1 .. MaxFile, OpenTakes(w, d, n)
      PROVE  FlushesItsOwn'
  <2>1. PICK h \in free :
           Serve(w, [pc |-> "write", dtb |-> d, lines |-> n, at |-> 0, hole |-> h])
    BY <1>3 DEF OpenTakes
  <2> QED BY <1>3, <2>1, FlushServe DEF OpenTakes, OpenArrives
<1>4. ASSUME NEW w \in Workers, OpenWrites(w) PROVE FlushesItsOwn'
  <2> DEFINE j == [job[w] EXCEPT !.at = @ + 1,
                     !.pc = IF job[w].at + 1 = job[w].lines THEN "find" ELSE "write"]
  <2>1. job[w] \in OpenJob /\ Serve(w, j) /\ UNCHANGED killed
    BY <1>4, JobKinds DEF OpenWrites, Active, Filing, clients
  <2>2. j.pc # "read"
    BY <2>1 DEF OpenJob
  <2> HIDE DEF j
  <2> QED BY <2>1, <2>2, FlushServe
<1>5. ASSUME NEW w \in Workers, OpenFinds(w) PROVE FlushesItsOwn'
  <2>1. job[w] \in OpenJob /\ UNCHANGED killed /\ Serve(w, [job[w] EXCEPT !.pc = "file"])
    BY <1>5, JobKinds DEF OpenFinds, Active, Filing, clients
  <2>2. [job[w] EXCEPT !.pc = "file"].pc # "read"
    BY <2>1 DEF OpenJob
  <2> QED BY <2>1, <2>2, FlushServe
<1>6. ASSUME NEW w \in Workers, OpenFiles(w) PROVE FlushesItsOwn'
  BY <1>6, FlushServe DEF OpenFiles, FilesRemainder, clients
<1>7. ASSUME NEW w \in Workers, OpenFilesNowhere(w) PROVE FlushesItsOwn'
  <2>1. UNCHANGED killed
    BY <1>7 DEF OpenFilesNowhere, clients
  <2>2. CASE UNCHANGED job
    BY <2>1, <2>2, FlushStay
  <2>3. ASSUME NEW k, FilesRemainder(w, k) PROVE FlushesItsOwn'
    BY <2>1, <2>3, FlushServe DEF FilesRemainder
  <2> QED BY <1>7, <2>2, <2>3 DEF OpenFilesNowhere
<1>8. ASSUME NEW w \in Workers, OpenReturns(w) PROVE FlushesItsOwn'
  BY <1>8, FlushServe DEF OpenReturns, Idle
<1>9. ASSUME NEW w \in Workers, NEW d \in DTBs, NEW k \in opened[d], CloseArrives(w, d, k)
      PROVE  FlushesItsOwn'
  <2>1. CASE Serve(w, [pc |-> "close", dtb |-> d, number |-> k])
    BY <1>9, <2>1, FlushServe DEF CloseArrives
  <2>2. CASE UNCHANGED job
    BY <1>9, <2>2, FlushStay DEF CloseArrives
  <2> QED BY <1>9, <2>1, <2>2 DEF CloseArrives
<1>10. ASSUME NEW w \in Workers, ClosesOn(w) PROVE FlushesItsOwn'
  BY <1>10, ClosesKeep, FlushStay
<1>11. ASSUME NEW w \in Workers, CloseFrees(w) PROVE FlushesItsOwn'
  BY <1>11, FlushServe DEF CloseFrees, Frees, Idle
<1>12. ASSUME NEW w \in Workers, NEW d \in DTBs, CloseDTBArrives(w, d) PROVE FlushesItsOwn'
  <2>1. CASE Serve(w, [pc |-> "remove", dtb |-> d])
    BY <1>12, <2>1, FlushServe DEF CloseDTBArrives
  <2>2. CASE UNCHANGED job
    BY <1>12, <2>2, FlushStay DEF CloseDTBArrives
  <2> QED BY <1>12, <2>1, <2>2 DEF CloseDTBArrives
<1>13. ASSUME NEW w \in Workers, CloseDTBRemoves(w) PROVE FlushesItsOwn'
  <2>1. job[w] \in CloseDTBJob /\ killed' = killed
    BY <1>13, JobKinds DEF CloseDTBRemoves, Active, clients
  <2>2. [job[w] EXCEPT !.pc = "release"].pc # "read"
    BY <2>1 DEF CloseDTBJob
  <2> QED BY <1>13, <2>1, <2>2, FlushServe DEF CloseDTBRemoves
<1>14. ASSUME NEW w \in Workers, CloseDTBFrees(w) PROVE FlushesItsOwn'
  BY <1>14, FlushStay DEF CloseDTBFrees, Frees
<1>15. ASSUME NEW w \in Workers, CloseDTBEnds(w) PROVE FlushesItsOwn'
  BY <1>15, FlushServe DEF CloseDTBEnds, clients, Idle
<1>16. ASSUME NEW w \in Workers, NEW d \in DTBs, NEW k \in opened[d], FlushArrives(w, d, k)
       PROVE  FlushesItsOwn'
  <2>1. ASSUME NEW s, Serve(w, [pc |-> "read", dtb |-> d, seg |-> s, at |-> 0, got |-> {}])
        PROVE  FlushesItsOwn'
    BY <1>16, <2>1, FlushServe DEF FlushArrives
  <2>2. CASE UNCHANGED job
    BY <1>16, <2>2, FlushStay DEF FlushArrives
  <2> QED BY <1>16, <2>1, <2>2 DEF FlushArrives
<1>17. ASSUME NEW w \in Workers, FlushReads(w) PROVE FlushesItsOwn'
  <2> DEFINE x == job[w].seg.base + job[w].at
             j == [job[w] EXCEPT !.at = @ + 1, !.got = @ \cup {storage[x]}]
  <2>1. /\ job[w] \in FlushJob /\ job[w].pc = "read" /\ UNCHANGED killed /\ Serve(w, j)
        /\ \E n \in Limits(w) : job[w].at < n
    BY <1>17, JobKinds DEF FlushReads, Active, clients
  <2>2. j.dtb = job[w].dtb /\ j.got = job[w].got \cup {storage[x]}
    BY <2>1 DEF FlushJob
  <2>3. ASSUME job[w].dtb \notin killed PROVE storage[x] \in {job[w].dtb} \cup killed
    <3>1. job[w].seg \in segs /\ job[w].seg.dtb = job[w].dtb
      BY <2>1, <2>3 DEF InUse
    <3>2. job[w].at < job[w].seg.limit
      BY <2>1, <3>1 DEF Limits
    <3>3. x \in job[w].seg.base .. End(job[w].seg) - 1
      BY <2>1, <3>2 DEF FlushJob, Segment, End
    <3> QED BY <3>1, <3>3 DEF ContentsInv, ContentsKept
  <2> HIDE DEF j, x
  <2>4. job[w]' = j /\ \A v \in Workers \ {w} : job[v]' = job[v]
    BY <2>1, ServedJob, OthersHold
  <2> QED BY <2>1, <2>2, <2>3, <2>4 DEF FlushesItsOwn
<1>18. ASSUME NEW w \in Workers, FlushEnds(w) PROVE FlushesItsOwn'
  BY <1>18, FlushServe DEF FlushEnds, Idle
<1>19. ASSUME NEW w \in Workers, Collides(w) PROVE FlushesItsOwn'
  BY <1>19, FlushStay DEF Collides, clients
<1>20. CASE UNCHANGED vars
  BY <1>20, FlushStay DEF vars, clients
<1>21. ASSUME NEW w \in Workers, NEW d \in DTBs, NEW k \in opened[d], AsignArrives(w, d, k)
       PROVE  FlushesItsOwn'
  <2>1. ASSUME NEW y, Serve(w, [pc |-> "assign", dtb |-> d, line |-> y])
        PROVE  FlushesItsOwn'
    BY <1>21, <2>1, FlushServe DEF AsignArrives
  <2>2. CASE UNCHANGED job
    BY <1>21, <2>2, FlushStay DEF AsignArrives
  <2> QED BY <1>21, <2>1, <2>2 DEF AsignArrives
<1>22. ASSUME NEW w \in Workers, AsignWrites(w) PROVE FlushesItsOwn'
  BY <1>22, FlushServe DEF AsignWrites, Idle
<1> QED
  BY <1>1, <1>2, <1>3, <1>4, <1>5, <1>6, <1>7, <1>8, <1>9, <1>10, <1>11, <1>12, <1>13, <1>14,
     <1>15, <1>16, <1>17, <1>18, <1>19, <1>20, <1>21, <1>22 DEF Next, Opens, ClosesOn

\* A flush takes the contents of its own DTB's file only, although it reads the limit
\* and the lines one at a time without keeping the segment from being freed.
THEOREM FlushInvariant == Spec => []FlushesItsOwn
<1>1. Init => FlushesItsOwn
  BY DEF Init, FlushesItsOwn, Idle
<1> QED BY <1>1, FlushNext, ContentsAlways, InUseInvariant, TypeInvariant, PTL DEF Spec

-----------------------------------------------------------------------------
(***************************************************************************)
(* The numbers of the segments.  The numbers given out by an entry are     *)
(* less than its next one, and a worker files into an entry of the table   *)
(* unless it has been told otherwise.                                      *)
(***************************************************************************)
Counted == \A s \in segs : s.dtb \in known /\ s.number < next[s.dtb]
FilesInKnown ==
    ~crashed => \A w \in Workers : job[w].pc = "file" => job[w].dtb \in known \/ w \in dangling

NumbersInv == AddressesUnique /\ Counted /\ FilesInKnown

\* No segment is filed, no entry is created or removed, and no worker starts to file.
LEMMA NumbersStay ==
    ASSUME NumbersInv, segs' \subseteq segs, UNCHANGED <<known, next, dangling>>,
           crashed => crashed',
           \A v \in Workers : job[v]' = job[v] \/ job[v]'.pc # "file"
    PROVE  NumbersInv'
BY DEF NumbersInv, AddressesUnique, Counted, FilesInKnown

LEMMA NumbersServe ==
    ASSUME TypeOK, NumbersInv, segs' \subseteq segs, UNCHANGED <<known, next, dangling>>,
           crashed => crashed',
           NEW w \in Workers, NEW j, j.pc # "file", Serve(w, j) \/ UNCHANGED job
    PROVE  NumbersInv'
<1>1. \A v \in Workers : job[v]' = job[v] \/ job[v]'.pc # "file"
  BY ServedJob, OthersHold
<1> QED BY <1>1, NumbersStay

LEMMA NumbersNext == TypeOK /\ NumbersInv /\ [Next]_vars => NumbersInv'
<1> SUFFICES ASSUME TypeOK, NumbersInv, [Next]_vars PROVE NumbersInv'
  OBVIOUS
<1>1. ASSUME NEW d \in DTBs, AskDAM(d) \/ CPU_EndDTB(d) \/ CommandFinalizar(d) \/ EndKilled(d)
      PROVE  NumbersInv'
  BY <1>1, NumbersStay DEF AskDAM, CPU_EndDTB, CommandFinalizar, EndKilled, memory
<1>2. ASSUME NEW w \in Workers, NEW d \in DTBs, NEW n \in 1 .. MaxFile, OpenRefused(w, d, n)
      PROVE  NumbersInv'
  BY <1>2, NumbersStay DEF OpenRefused, OpenArrives
<1>3. ASSUME NEW w \in Workers, NEW d \in DTBs, NEW n \in 1 .. MaxFile, OpenTakes(w, d, n)
      PROVE  NumbersInv'
  <2>1. PICK h \in free :
           Serve(w, [pc |-> "write", dtb |-> d, lines |-> n, at |-> 0, hole |-> h])
    BY <1>3 DEF OpenTakes
  <2> QED BY <1>3, <2>1, NumbersServe DEF OpenTakes, OpenArrives
<1>4. ASSUME NEW w \in Workers, OpenWrites(w) PROVE NumbersInv'
  <2> DEFINE j == [job[w] EXCEPT !.at = @ + 1,
                     !.pc = IF job[w].at + 1 = job[w].lines THEN "find" ELSE "write"]
  <2>1. job[w] \in OpenJob /\ Serve(w, j) /\ UNCHANGED <<known, next, segs, dangling, crashed>>
    BY <1>4, JobKinds DEF OpenWrites, Active, Filing
  <2>2. j.pc # "file"
    BY <2>1 DEF OpenJob
  <2> HIDE DEF j
  <2> QED BY <2>1, <2>2, NumbersServe
<1>5. ASSUME NEW w \in Workers, OpenFinds(w) PROVE NumbersInv'
  <2> DEFINE d == job[w].dtb
  <2>1. /\ job[w] \in OpenJob /\ d \in DTBs /\ Serve(w, [job[w] EXCEPT !.pc = "file"])
        /\ UNCHANGED <<segs, crashed>>
    BY <1>5, JobKinds DEF OpenFinds, Active, Filing, OpenJob
  <2>2. job[w]'.dtb = d /\ \A v \in Workers \ {w} : job[v]' = job[v]
    BY <2>1, ServedJob, OthersHold DEF OpenJob
  <2>3. /\ known \subseteq known' /\ dangling \subseteq dangling'
        /\ d \in known' \/ w \in dangling'
        /\ next' = next \/ (d \notin known /\ next' = [next EXCEPT ![d] = 0])
    BY <1>5 DEF OpenFinds
  <2>4. \A s \in segs : next'[s.dtb] = next[s.dtb]
    BY <2>3 DEF NumbersInv, Counted, TypeOK
  <2> HIDE DEF d
  <2>5. Counted'
    BY <2>1, <2>3, <2>4 DEF NumbersInv, Counted
  <2>6. FilesInKnown'
    BY <2>1, <2>2, <2>3 DEF NumbersInv, FilesInKnown
  <2> QED BY <2>1, <2>5, <2>6 DEF NumbersInv, AddressesUnique
<1>6. ASSUME NEW w \in Workers, OpenFiles(w) PROVE NumbersInv'
  <2> DEFINE d == job[w].dtb
             t == Filed(job[w], next[d])
             j == [pc |-> "rest", dtb |-> d, number |-> next[d], hole |-> Remainder(job[w])]
  <2>1. /\ d \in DTBs /\ d \in known /\ next[d] \in Nat
        /\ segs' = segs \cup {t} /\ next' = [next EXCEPT ![d] = @ + 1]
        /\ Serve(w, j) /\ UNCHANGED <<known, dangling, crashed>>
    BY <1>6, JobKinds
       DEF OpenFiles, Active, Filing, OpenJob, FilesRemainder, NumbersInv, FilesInKnown, TypeOK
  <2>2. t.dtb = d /\ t.number = next[d]
    BY DEF Filed
  <2>3. j.pc = "rest"
    OBVIOUS
  <2> HIDE DEF t, d, j
  <2>4. \A s \in segs : s.number \in Nat /\ s.dtb \in known /\ s.number < next[s.dtb]
    BY DEF NumbersInv, Counted, TypeOK, Segment
  <2>5. AddressesUnique'
    BY <2>1, <2>2, <2>4 DEF NumbersInv, AddressesUnique
  <2>6. Counted'
    <3>1. \A s \in segs : next'[s.dtb] = next[s.dtb] \/ next'[s.dtb] = next[s.dtb] + 1
      BY <2>1 DEF TypeOK
    <3>2. \A s \in segs : next[s.dtb] \in Nat
      BY <2>4 DEF TypeOK
    <3>3. \A s \in segs : s.dtb \in known' /\ s.number < next'[s.dtb]
      BY <2>1, <2>4, <3>1, <3>2
    <3>4. t.dtb \in known' /\ t.number < next'[t.dtb]
      BY <2>1, <2>2 DEF TypeOK
    <3> QED BY <2>1, <3>3, <3>4 DEF Counted
  <2>7. \A v \in Workers : job[v]' = job[v] \/ job[v]'.pc = "rest"
    BY <2>1, <2>3, ServedJob, OthersHold
  <2>8. FilesInKnown'
    BY <2>1, <2>7 DEF NumbersInv, FilesInKnown
  <2> QED BY <2>5, <2>6, <2>8 DEF NumbersInv
<1>7. ASSUME NEW w \in Workers, OpenFilesNowhere(w) PROVE NumbersInv'
  <2>1. UNCHANGED <<known, next, segs>> /\ dangling' = dangling \ {w}
    BY <1>7 DEF OpenFilesNowhere, memory
  <2>2. CASE crashed'
    BY <2>1, <2>2 DEF NumbersInv, AddressesUnique, Counted, FilesInKnown
  <2>3. ASSUME NEW k, FilesRemainder(w, k), UNCHANGED crashed PROVE NumbersInv'
    <3>1. job[w]'.pc # "file" /\ \A v \in Workers \ {w} : job[v]' = job[v]
      BY <2>3, ServedJob, OthersHold DEF FilesRemainder
    <3> QED BY <2>1, <2>3, <3>1 DEF NumbersInv, AddressesUnique, Counted, FilesInKnown
  <2> QED BY <1>7, <2>2, <2>3 DEF OpenFilesNowhere
<1>8. ASSUME NEW w \in Workers, OpenReturns(w) PROVE NumbersInv'
  BY <1>8, NumbersServe DEF OpenReturns, Idle
<1>9. ASSUME NEW w \in Workers, NEW d \in DTBs, NEW k \in opened[d], CloseArrives(w, d, k)
      PROVE  NumbersInv'
  <2>1. CASE Serve(w, [pc |-> "close", dtb |-> d, number |-> k])
    BY <1>9, <2>1, NumbersServe DEF CloseArrives, memory
  <2>2. CASE UNCHANGED job
    BY <1>9, <2>2, NumbersStay DEF CloseArrives, memory
  <2> QED BY <1>9, <2>1, <2>2 DEF CloseArrives
<1>10. ASSUME NEW w \in Workers, ClosesOn(w) PROVE NumbersInv'
  BY <1>10, ClosesKeep
     DEF NumbersInv, AddressesUnique, Counted, FilesInKnown
<1>11. ASSUME NEW w \in Workers, CloseFrees(w) PROVE NumbersInv'
  BY <1>11, NumbersServe DEF CloseFrees, Frees, Idle
<1>12. ASSUME NEW w \in Workers, NEW d \in DTBs, CloseDTBArrives(w, d) PROVE NumbersInv'
  <2>1. CASE Serve(w, [pc |-> "remove", dtb |-> d])
    BY <1>12, <2>1, NumbersServe DEF CloseDTBArrives, memory
  <2>2. CASE UNCHANGED job
    BY <1>12, <2>2, NumbersStay DEF CloseDTBArrives, memory
  <2> QED BY <1>12, <2>1, <2>2 DEF CloseDTBArrives
<1>13. ASSUME NEW w \in Workers, CloseDTBRemoves(w) PROVE NumbersInv'
  <2>1. CASE crashed'
    <3>1. job[w].dtb \notin known
      BY <1>13, <2>1 DEF CloseDTBRemoves, Active
    <3>2. UNCHANGED <<known, next, segs, dangling, job>>
      BY <1>13, <3>1 DEF CloseDTBRemoves
    <3> QED BY <2>1, <3>2 DEF NumbersInv, AddressesUnique, Counted, FilesInKnown
  <2>2. CASE ~crashed'
    <3> DEFINE d == job[w].dtb
               j == [job[w] EXCEPT !.pc = "release"]
    <3>1. /\ job[w] \in CloseDTBJob /\ ~crashed /\ Serve(w, j)
          /\ known' = known \ {d} /\ UNCHANGED next
          /\ segs' = {s \in segs : s.dtb # d}
          /\ dangling' = dangling \cup
                {v \in Workers : job[v].pc \in {"file", "got"} /\ job[v].dtb = d}
      BY <1>13, <2>2, JobKinds DEF CloseDTBRemoves, Active
    <3>2. j.pc # "file"
      BY <3>1 DEF CloseDTBJob
    <3> HIDE DEF j, d
    <3>3. \A v \in Workers : job[v]' = job[v] \/ job[v]'.pc # "file"
      BY <3>1, <3>2, ServedJob, OthersHold
    <3>4. AddressesUnique' /\ Counted'
      BY <3>1 DEF NumbersInv, AddressesUnique, Counted
    <3>5. FilesInKnown'
      BY <3>1, <3>3 DEF NumbersInv, FilesInKnown
    <3> QED BY <3>4, <3>5 DEF NumbersInv
  <2> QED BY <2>1, <2>2
<1>14. ASSUME NEW w \in Workers, CloseDTBFrees(w) PROVE NumbersInv'
  BY <1>14, NumbersStay DEF CloseDTBFrees, Frees
<1>15. ASSUME NEW w \in Workers, CloseDTBEnds(w) PROVE NumbersInv'
  BY <1>15, NumbersServe DEF CloseDTBEnds, memory, Idle
<1>16. ASSUME NEW w \in Workers, NEW d \in DTBs, NEW k \in opened[d], FlushArrives(w, d, k)
       PROVE  NumbersInv'
  <2>1. ASSUME NEW s, Serve(w, [pc |-> "read", dtb |-> d, seg |-> s, at |-> 0, got |-> {}])
        PROVE  NumbersInv'
    BY <1>16, <2>1, NumbersServe DEF FlushArrives, memory
  <2>2. CASE UNCHANGED job
    BY <1>16, <2>2, NumbersStay DEF FlushArrives, memory
  <2> QED BY <1>16, <2>1, <2>2 DEF FlushArrives
<1>17. ASSUME NEW w \in Workers, FlushReads(w) PROVE NumbersInv'
  <2> DEFINE j == [job[w] EXCEPT
                     !.at = @ + 1,
                     !.got = @ \cup {storage[job[w].seg.base + job[w].at]}]
  <2>1. /\ job[w] \in FlushJob /\ UNCHANGED <<known, next, segs, dangling, crashed>>
        /\ Serve(w, j)
    BY <1>17, JobKinds DEF FlushReads, Active, memory
  <2>2. j.pc # "file"
    BY <2>1 DEF FlushJob
  <2> QED BY <2>1, <2>2, NumbersServe
<1>18. ASSUME NEW w \in Workers, FlushEnds(w) PROVE NumbersInv'
  BY <1>18, NumbersServe DEF FlushEnds, memory, Idle
<1>21. ASSUME NEW w \in Workers, NEW d \in DTBs, NEW k \in opened[d], AsignArrives(w, d, k)
       PROVE  NumbersInv'
  <2>1. ASSUME NEW x, Serve(w, [pc |-> "assign", dtb |-> d, line |-> x])
        PROVE  NumbersInv'
    BY <1>21, <2>1, NumbersServe DEF AsignArrives, memory
  <2>2. CASE UNCHANGED job
    BY <1>21, <2>2, NumbersStay DEF AsignArrives, memory
  <2> QED BY <1>21, <2>1, <2>2 DEF AsignArrives
<1>22. ASSUME NEW w \in Workers, AsignWrites(w) PROVE NumbersInv'
  BY <1>22, NumbersServe DEF AsignWrites, Idle
<1>19. ASSUME NEW w \in Workers, Collides(w) PROVE NumbersInv'
  BY <1>19, NumbersStay DEF Collides, memory
<1>20. CASE UNCHANGED vars
  BY <1>20, NumbersStay DEF vars, memory
<1> QED
  BY <1>1, <1>2, <1>3, <1>4, <1>5, <1>6, <1>7, <1>8, <1>9, <1>10, <1>11, <1>12, <1>13, <1>14,
     <1>15, <1>16, <1>17, <1>18, <1>19, <1>20, <1>21, <1>22 DEF Next, Opens, ClosesOn

\* A DTB never has two open files with one address, for any order of opens, closes
\* and releases of its memory.
THEOREM NumbersInvariant == Spec => []AddressesUnique
<1>1. Init => NumbersInv
  BY DEF Init, NumbersInv, AddressesUnique, Counted, FilesInKnown, Idle
<1>2. Spec => []NumbersInv
  BY <1>1, NumbersNext, TypeInvariant, PTL DEF Spec
<1> QED BY <1>2, PTL DEF NumbersInv
=============================================================================
