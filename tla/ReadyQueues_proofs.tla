--------------------------- MODULE ReadyQueues_proofs ---------------------------
(***************************************************************************)
(* The READY lists, for any DTBs, CPUs and settings, whenever the file is  *)
(* written and scripts are loaded: a READY DTB is once in one list, nobody *)
(* is stranded in the list of another policy, and a dispatch keeps the     *)
(* promise of the policy, except for those that a collision left behind.   *)
(*                                                                         *)
(* Rules says what a change of policy is while it is registered and        *)
(* carried out; it is inductive.  Lists says which DTBs are in the lists   *)
(* and which in the hands of a planner, and AtHome that whoever was not    *)
(* left behind is in the list that the present policy takes, or will; they *)
(* are inductive together with Rules.  What the lists do (append, remove,  *)
(* sort by the times of arrival) is proved of lists without repetitions    *)
(* first; the sorting rests on Ranking.                                    *)
(***************************************************************************)
EXTENDS ReadyQueues, TLAPS, FiniteSetTheorems, FunctionTheorems, SequenceTheorems,
        WellFoundedInduction

\* No member twice.
Once(s) == \A i, j \in 1..Len(s) : s[i] = s[j] => i = j
Listing(s) == s \in Seq(DTBs) /\ Once(s)

-----------------------------------------------------------------------------
(***************************************************************************)
(* Lists without repetitions: what is added, removed and sorted.           *)
(***************************************************************************)

\* The natural numbers are well ordered: what the first of some positions is.
Less == {p \in Nat \X Nat : p[1] < p[2]}
\* Some positions have a first one.
LEMMA LeastExists ==
  ASSUME NEW T, T \subseteq Nat, T # {}
  PROVE  Min(T) \in T /\ \A y \in T : Min(T) =< y
<1>1. IsWellFoundedOn(Less, Nat)
  <2>1. Less = OpToRel(<, Nat)
    BY Zenon DEF OpToRel, Less
  <2>2. QED  BY <2>1, NatLessThanWellFounded, Zenon
<1>2. PICK x \in T : \A y \in T : <<y, x>> \notin Less
  BY <1>1, WFMin
<1>3. ASSUME NEW y \in T PROVE x =< y
  <2>1. x \in Nat /\ y \in Nat
    OBVIOUS
  <2>2. y < x => <<y, x>> \in Less
    BY <2>1 DEF Less
  <2>3. QED  BY <1>2, <2>1, <2>2
<1>4. QED  BY <1>3 DEF Min

\* The members of a list are what is at its positions.
LEMMA MembersOf ==
  ASSUME NEW s \in Seq(DTBs)
  PROVE  /\ DOMAIN s = 1..Len(s) /\ Len(s) \in Nat
         /\ \A d : d \in ToSet(s) <=> \E i \in 1..Len(s) : s[i] = d
         /\ ToSet(s) \subseteq DTBs
         /\ s = <<>> <=> ToSet(s) = {}
<1>1. DOMAIN s = 1..Len(s) /\ Len(s) \in Nat /\ \A i \in 1..Len(s) : s[i] \in DTBs
  BY LenProperties, ElementOfSeq
<1>2. \A d : d \in ToSet(s) <=> \E i \in 1..Len(s) : s[i] = d
  BY <1>1 DEF ToSet
<1>3. s = <<>> <=> Len(s) = 0
  BY EmptySeq
<1>4. QED  BY <1>1, <1>2, <1>3

\* A member has one position, at which it is found.
LEMMA PositionOf ==
  ASSUME NEW s, Listing(s), NEW i \in 1..Len(s)
  PROVE  PositionIn(s, s[i]) = i
<1>1. s \in Seq(DTBs) /\ DOMAIN s = 1..Len(s)
  BY MembersOf DEF Listing
<1>2. \A j \in DOMAIN s : s[j] = s[i] <=> j = i
  BY <1>1 DEF Listing, Once
<1>3. QED  BY <1>1, <1>2 DEF PositionIn

\* A member is found at its position.
LEMMA PositionFound ==
  ASSUME NEW s, Listing(s), NEW d \in ToSet(s)
  PROVE  PositionIn(s, d) \in 1..Len(s) /\ s[PositionIn(s, d)] = d
<1>1. PICK i \in 1..Len(s) : s[i] = d
  BY MembersOf DEF Listing
<1>2. QED  BY <1>1, PositionOf

\* A list with one more at its end.
LEMMA AppendOf ==
  ASSUME NEW s, Listing(s), NEW d \in DTBs, d \notin ToSet(s)
  PROVE  Listing(Append(s, d)) /\ ToSet(Append(s, d)) = ToSet(s) \cup {d}
<1>1. PICK t : t = Append(s, d)
  OBVIOUS
<1>2. /\ t \in Seq(DTBs) /\ s \in Seq(DTBs) /\ Len(s) \in Nat /\ Len(t) = Len(s) + 1
      /\ \A i \in 1..Len(s) : t[i] = s[i]
      /\ t[Len(s) + 1] = d
  BY <1>1, AppendProperties, LenProperties DEF Listing
<1>3. \A i \in 1..Len(s) : s[i] # d
  BY <1>2, MembersOf
<1>4. Once(t)
  BY <1>2, <1>3 DEF Once, Listing
<1>5. \A e : e \in ToSet(t) <=> e \in ToSet(s) \cup {d}
  <2>1. \A e : e \in ToSet(t) <=> \E i \in 1..Len(t) : t[i] = e
    BY <1>2, MembersOf
  <2>2. \A e : e \in ToSet(s) <=> \E i \in 1..Len(s) : s[i] = e
    BY <1>2, MembersOf
  <2>3. QED  BY <1>2, <2>1, <2>2
<1>6. QED  BY <1>1, <1>2, <1>4, <1>5 DEF Listing

\* A list without one of its members.
LEMMA WithoutOf ==
  ASSUME NEW s, Listing(s), NEW d \in ToSet(s)
  PROVE  Listing(Without(s, d)) /\ ToSet(Without(s, d)) = ToSet(s) \ {d}
<1>1. PICK p : p = PositionIn(s, d)
  OBVIOUS
<1>2. PICK n : n = Len(s)
  OBVIOUS
<1>3. /\ s \in Seq(DTBs) /\ n \in Nat /\ p \in 1..n /\ s[p] = d
      /\ \A i \in 1..n : s[i] \in DTBs
  BY <1>1, <1>2, PositionFound, LenProperties, ElementOfSeq DEF Listing
<1>4. PICK u, v : u = SubSeq(s, 1, p - 1) /\ v = SubSeq(s, p + 1, n)
  OBVIOUS
<1>5. u \in Seq(DTBs) /\ Len(u) = p - 1 /\ \A i \in 1..p - 1 : u[i] = s[i]
  BY <1>2, <1>3, <1>4, SubSeqProperties
<1>6. v \in Seq(DTBs) /\ Len(v) = n - p /\ \A i \in 1..n - p : v[i] = s[p + i]
  BY <1>2, <1>3, <1>4, SubSeqProperties
<1>7. PICK t : t = Without(s, d)
  OBVIOUS
<1>8. t = u \o v
  BY <1>1, <1>2, <1>4, <1>7 DEF Without, RemoveAt
<1>9. /\ t \in Seq(DTBs) /\ Len(t) = n - 1
      /\ \A i \in 1..n - 1 : t[i] = IF i < p THEN s[i] ELSE s[i + 1]
  <2>1. /\ t \in Seq(DTBs) /\ Len(t) = Len(u) + Len(v)
        /\ \A i \in 1..Len(u) : t[i] = u[i]
        /\ \A i \in Len(u) + 1 .. Len(u) + Len(v) : t[i] = v[i - Len(u)]
    <3>1. /\ t \in Seq(DTBs) /\ Len(t) = Len(u) + Len(v)
          /\ \A i \in 1..Len(u) + Len(v) :
               t[i] = IF i =< Len(u) THEN u[i] ELSE v[i - Len(u)]
      BY <1>5, <1>6, <1>8, ConcatProperties
    <3>2. Len(u) \in Nat /\ Len(v) \in Nat
      BY <1>3, <1>5, <1>6
    <3>3. QED  BY <3>1, <3>2
  <2>2. Len(t) = n - 1
    BY <1>3, <1>5, <1>6, <2>1
  <2>3. ASSUME NEW i \in 1..n - 1, i < p PROVE t[i] = s[i]
    <3>1. i \in 1..p - 1
      BY <1>3, <2>3
    <3>2. t[i] = u[i]
      BY <1>5, <2>1, <3>1
    <3>3. QED  BY <1>5, <3>1, <3>2
  <2>4. ASSUME NEW i \in 1..n - 1, ~(i < p) PROVE t[i] = s[i + 1]
    <3>1. PICK m : m = i - (p - 1)
      OBVIOUS
    <3>2. /\ m \in 1..n - p /\ p + m = i + 1
          /\ i \in Len(u) + 1 .. Len(u) + Len(v) /\ i - Len(u) = m
      BY <1>3, <1>5, <1>6, <2>4, <3>1
    <3>3. t[i] = v[m]
      BY <2>1, <3>2
    <3>4. v[m] = s[p + m]
      BY <1>6, <3>2
    <3>5. QED  BY <3>2, <3>3, <3>4
  <2>5. QED  BY <2>1, <2>2, <2>3, <2>4
<1>10. \A i, j \in 1..n : s[i] = s[j] => i = j
  BY <1>2 DEF Listing, Once
<1>11. Once(t)
  <2>1. ASSUME NEW i \in 1..n - 1, NEW j \in 1..n - 1, t[i] = t[j] PROVE i = j
    <3>1. PICK k \in 1..n : k = (IF i < p THEN i ELSE i + 1) /\ t[i] = s[k]
      BY <1>3, <1>9
    <3>2. PICK m \in 1..n : m = (IF j < p THEN j ELSE j + 1) /\ t[j] = s[m]
      BY <1>3, <1>9
    <3>3. k = m
      BY <1>10, <2>1, <3>1, <3>2
    <3>4. QED  BY <1>3, <3>1, <3>2, <3>3
  <2>2. QED  BY <1>9, <2>1 DEF Once
<1>12. \A e : e \in ToSet(t) <=> e \in ToSet(s) \ {d}
  <2>1. \A e : e \in ToSet(t) <=> \E i \in 1..n - 1 : t[i] = e
    BY <1>9, MembersOf
  <2>2. \A e : e \in ToSet(s) <=> \E i \in 1..n : s[i] = e
    BY <1>2, <1>3, MembersOf
  <2>3. ASSUME NEW i \in 1..n - 1 PROVE t[i] \in ToSet(s) \ {d}
    <3>1. PICK k \in 1..n : k # p /\ t[i] = s[k]
      BY <1>3, <1>9
    <3>2. QED  BY <1>3, <1>10, <2>2, <3>1
  <2>4. ASSUME NEW k \in 1..n, s[k] # d PROVE \E i \in 1..n - 1 : t[i] = s[k]
    <3>1. k # p
      BY <1>3, <2>4
    <3>2. CASE k < p
      BY <1>3, <1>9, <3>2
    <3>3. CASE k > p
      <4>1. k - 1 \in 1..n - 1 /\ ~(k - 1 < p) /\ (k - 1) + 1 = k
        BY <1>3, <3>3
      <4>2. QED  BY <1>9, <4>1
    <3>4. QED  BY <1>3, <3>1, <3>2, <3>3
  <2>5. QED  BY <2>1, <2>2, <2>3, <2>4
<1>13. QED  BY <1>7, <1>9, <1>11, <1>12 DEF Listing

\* A list without repetitions has as many members as positions.
LEMMA MembersCounted ==
  ASSUME NEW s, Listing(s)
  PROVE  IsFiniteSet(ToSet(s)) /\ Cardinality(ToSet(s)) = Len(s)
<1>1. s \in Seq(DTBs) /\ DOMAIN s = 1..Len(s) /\ Len(s) \in Nat
  BY MembersOf DEF Listing
<1>2. PICK T : T = ToSet(s)
  OBVIOUS
<1>3. s \in [1..Len(s) -> T] /\ \A d \in T : \E i \in 1..Len(s) : s[i] = d
  <2>1. s = [i \in 1..Len(s) |-> s[i]]
    BY <1>1
  <2>2. QED  BY <1>1, <1>2, <2>1, MembersOf
<1>4. \A i, j \in 1..Len(s) : s[i] = s[j] => i = j
  BY DEF Listing, Once
<1>5. s \in Bijection(1..Len(s), T)
  BY <1>3, <1>4, Fun_IsBij
<1>6. IsFiniteSet(1..Len(s)) /\ Cardinality(1..Len(s)) = Len(s)
  BY <1>1, FS_Interval
<1>7. ExistsBijection(1..Len(s), T)
  BY <1>5 DEF ExistsBijection
<1>8. QED  BY <1>2, <1>6, <1>7, FS_Bijection

\* In a finite set with a strict order R, each place is taken by one member: the
\* one with as many before it (P[d] is what is before d).
LEMMA Ranking ==
  ASSUME NEW T, IsFiniteSet(T), NEW P \in [T -> SUBSET T],
         \A d \in T : d \notin P[d],
         \A d, e \in T : d # e => d \in P[e] \/ e \in P[d],
         \A d, e, f \in T : d \in P[e] /\ e \in P[f] => d \in P[f]
  PROVE  /\ \A d \in T : IsFiniteSet(P[d]) /\ Cardinality(P[d]) + 1 \in 1..Cardinality(T)
         /\ \A d, e \in T : Cardinality(P[d]) = Cardinality(P[e]) => d = e
         /\ \A k \in 1..Cardinality(T) : \E d \in T : Cardinality(P[d]) = k - 1
<1>1. PICK n : n = Cardinality(T)
  OBVIOUS
<1>2. n \in Nat
  BY <1>1, FS_CardinalityType
<1>3. ASSUME NEW d \in T
      PROVE  IsFiniteSet(P[d]) /\ Cardinality(P[d]) \in Nat /\ Cardinality(P[d]) + 1 \in 1..n
  <2>1. P[d] \in SUBSET (T \ {d})
    OBVIOUS
  <2>2. IsFiniteSet(T \ {d}) /\ Cardinality(T \ {d}) = n - 1
    BY <1>1, FS_RemoveElement
  <2>3. IsFiniteSet(P[d]) /\ Cardinality(P[d]) =< n - 1
    BY <2>1, <2>2, FS_Subset
  <2>4. Cardinality(P[d]) \in Nat
    BY <2>3, FS_CardinalityType
  <2>5. QED  BY <1>2, <2>3, <2>4
<1>4. ASSUME NEW d \in T, NEW e \in T, d \in P[e]
      PROVE  Cardinality(P[d]) < Cardinality(P[e])
  <2>1. P[d] \in SUBSET P[e]
    BY <1>4
  <2>2. P[d] # P[e]
    BY <1>4
  <2>3. IsFiniteSet(P[e]) /\ Cardinality(P[d]) =< Cardinality(P[e])
        /\ (Cardinality(P[e]) = Cardinality(P[d]) => P[e] = P[d])
    BY <1>3, <2>1, FS_Subset
  <2>4. Cardinality(P[d]) \in Nat /\ Cardinality(P[e]) \in Nat
    BY <1>3
  <2>5. QED  BY <2>2, <2>3, <2>4
<1>5. ASSUME NEW d \in T, NEW e \in T, Cardinality(P[d]) = Cardinality(P[e])
      PROVE  d = e
  <2>1. Cardinality(P[d]) \in Nat /\ Cardinality(P[e]) \in Nat
    BY <1>3
  <2>2. QED  BY <1>4, <1>5, <2>1
<1>6. PICK f : f = [d \in T |-> Cardinality(P[d]) + 1]
  OBVIOUS
<1>7. f \in [T -> 1..n] /\ \A d \in T : f[d] = Cardinality(P[d]) + 1
  BY <1>3, <1>6
<1>8. \A d, e \in T : f[d] = f[e] => d = e
  BY <1>3, <1>5, <1>7
<1>9. f \in Injection(T, 1..n)
  BY <1>7, <1>8, Fun_IsInj
<1>10. IsFiniteSet(1..n) /\ Cardinality(1..n) = n
  BY <1>2, FS_Interval
<1>11. f \in Surjection(T, 1..n)
  BY <1>1, <1>9, <1>10, FS_Injection
<1>12. \A k \in 1..n : \E d \in T : f[d] = k
  BY <1>11 DEF Surjection
<1>13. ASSUME NEW k \in 1..n PROVE \E d \in T : Cardinality(P[d]) = k - 1
  <2>1. PICK d \in T : f[d] = k
    BY <1>12
  <2>2. Cardinality(P[d]) \in Nat /\ Cardinality(P[d]) + 1 = k
    BY <1>3, <1>7, <2>1
  <2>3. QED  BY <2>2
<1>14. QED  BY <1>1, <1>3, <1>5, <1>13

-----------------------------------------------------------------------------
(***************************************************************************)
(* A change of policy.                                                     *)
(***************************************************************************)

Changes == (Algorithms \X Algorithms) \cup {Unaltered}

\* The parts of the types that the rest needs.
RulesTyped ==
    /\ file \in Files /\ settings \in Files
    /\ algorithmChange \in Changes
    /\ pcp \in [at : {"waits", "moves", "clears", "works", "adds"}, name : Algorithms,
                change : Changes, quantum : Nat \ {0}, dtb : DTBs \cup {None}]

\* A change that is pending leads to the present policy.
ChangePending ==
    algorithmChange # Unaltered =>
      /\ algorithmChange[2] = settings.algorithm
      /\ algorithmChange[1] # algorithmChange[2]

\* The change that the PCP carries out is one, whatever was registered since.
ChangeInHand ==
    pcp.at = "moves" => pcp.change # Unaltered /\ pcp.change[1] # pcp.change[2]

Rules == RulesTyped /\ ChangePending /\ ChangeInHand

\* The settings of a file have a policy and a quantum.
LEMMA SettingsOf ==
  ASSUME NEW s \in Files PROVE s.algorithm \in Algorithms /\ s.quantum \in Nat \ {0}
BY ReadyQueuesAssumption

\* What Rules says of the PCP, and of a change that is pending or in hand.
LEMMA PcpOf ==
  ASSUME Rules
  PROVE  /\ pcp = [at |-> pcp.at, name |-> pcp.name, change |-> pcp.change,
                   quantum |-> pcp.quantum, dtb |-> pcp.dtb]
         /\ pcp.name \in Algorithms /\ pcp.quantum \in Nat \ {0}
         /\ settings.algorithm \in Algorithms
         /\ algorithmChange # Unaltered =>
              /\ algorithmChange[1] \in Algorithms /\ algorithmChange[2] \in Algorithms
              /\ algorithmChange[1] # algorithmChange[2]
         /\ pcp.at = "moves" =>
              /\ pcp.change[1] \in Algorithms /\ pcp.change[2] \in Algorithms
              /\ pcp.change[1] # pcp.change[2]
              /\ pcp.change = <<pcp.change[1], pcp.change[2]>>
<1>1. RulesTyped /\ ChangePending /\ ChangeInHand
  BY DEF Rules
<1>2. settings.algorithm \in Algorithms
  BY <1>1, SettingsOf DEF RulesTyped
<1>3. algorithmChange # Unaltered =>
        algorithmChange[1] \in Algorithms /\ algorithmChange[2] \in Algorithms
  BY <1>1 DEF RulesTyped, Changes
<1>4. pcp.change # Unaltered =>
        /\ pcp.change[1] \in Algorithms /\ pcp.change[2] \in Algorithms
        /\ pcp.change = <<pcp.change[1], pcp.change[2]>>
  <2>1. pcp.change \in Changes
    BY <1>1 DEF RulesTyped
  <2>2. QED  BY <2>1 DEF Changes
<1>5. QED  BY <1>1, <1>2, <1>3, <1>4 DEF RulesTyped, ChangePending, ChangeInHand

\* The PCP is done, or it takes a DTB.
LEMMA DoneOf == ASSUME Rules, Done PROVE pcp'.at = "waits" /\ pcp'.dtb = None /\ pcp'.name = pcp.name
BY PcpOf DEF Done

\* It takes it to add it.
LEMMA PCPAddsOf ==
  ASSUME Rules, NEW d, PCPAdds(d)
  PROVE  pcp'.at = "adds" /\ pcp'.dtb = d /\ pcp'.name = pcp.name
BY PcpOf DEF PCPAdds

\* At the start no change is pending.
LEMMA RulesInit == ASSUME Init PROVE Rules
<1>1. settings \in Files /\ file \in Files /\ settings = file
  BY DEF Init
<1>2. file.algorithm \in Algorithms /\ file.quantum \in Nat \ {0}
  BY <1>1, SettingsOf
<1>3. QED  BY <1>1, <1>2 DEF Init, Rules, RulesTyped, ChangePending, ChangeInHand, Changes

\* The steps that register and forget no change.
LEMMA FrameKeeps ==
  ASSUME Rules, UNCHANGED <<file, rules>>,
         pcp' \in [at : {"waits", "moves", "clears", "works", "adds"}, name : Algorithms,
                   change : Changes, quantum : Nat \ {0}, dtb : DTBs \cup {None}],
         pcp' = pcp \/ pcp'.at # "moves"
  PROVE  Rules'
BY DEF Rules, RulesTyped, ChangePending, ChangeInHand, rules

\* Every step keeps the rules.
LEMMA RulesStep == ASSUME Rules, [Next]_vars PROVE Rules'
<1>1. RulesTyped
  BY DEF Rules
<1>2. ASSUME NEW s \in Files, FileIsWritten(s) PROVE Rules'
  BY <1>2 DEF FileIsWritten, rules, Rules, RulesTyped, ChangePending, ChangeInHand
<1>3. CASE ModifiedAgain
  BY <1>1, <1>3, FrameKeeps DEF ModifiedAgain, RulesTyped
<1>4. CASE UpdateSettings
  <2>1. /\ settings' = file /\ file' = file /\ pcp' = pcp
        /\ algorithmChange' = IF settings.algorithm = file.algorithm THEN Unaltered
                              ELSE <<settings.algorithm, file.algorithm>>
    BY <1>4 DEF UpdateSettings, Registered
  <2>2. settings.algorithm \in Algorithms /\ file.algorithm \in Algorithms
    BY <1>1, SettingsOf DEF RulesTyped
  <2>3. algorithmChange' \in Changes
    BY <2>1, <2>2 DEF Changes
  <2>4. ChangePending'
    BY <2>1 DEF ChangePending
  <2>5. QED  BY <1>1, <2>1, <2>3, <2>4 DEF Rules, RulesTyped, ChangeInHand
<1>5. ASSUME UNCHANGED <<file, rules, pcp>> PROVE Rules'
  BY <1>1, <1>5, FrameKeeps DEF RulesTyped
<1>6. CASE PCPCopies
  <2>1. settings.algorithm \in Algorithms /\ settings.quantum \in Nat \ {0}
    BY <1>1, SettingsOf DEF RulesTyped
  <2>2. /\ UNCHANGED <<file, settings, algorithmChange>>
        /\ pcp' = [at |-> IF algorithmChange = Unaltered THEN "works" ELSE "moves",
                   name |-> settings.algorithm, change |-> algorithmChange,
                   quantum |-> settings.quantum, dtb |-> None]
    BY <1>6 DEF PCPCopies, watch, rules
  <2>3. QED  BY <1>1, <2>1, <2>2 DEF Rules, RulesTyped, ChangePending, ChangeInHand
<1>7. CASE PCPMoves
  <2>1. pcp' = [pcp EXCEPT !.at = "clears"] /\ UNCHANGED <<file, rules>>
    BY <1>7 DEF PCPMoves, watch
  <2>2. QED  BY <1>1, <2>1, FrameKeeps DEF RulesTyped
<1>8. CASE PCPClears
  <2>1. /\ pcp' = [pcp EXCEPT !.at = "works"] /\ UNCHANGED <<file, settings>>
        /\ algorithmChange' = Unaltered
    BY <1>8 DEF PCPClears, watch
  <2>2. QED  BY <1>1, <2>1 DEF Rules, RulesTyped, ChangePending, ChangeInHand, Changes
<1>9. ASSUME Done, UNCHANGED <<file, rules>> PROVE Rules'
  <2>1. pcp' = [pcp EXCEPT !.at = "waits", !.dtb = None]
    BY <1>9 DEF Done
  <2>2. QED  BY <1>1, <1>9, <2>1, FrameKeeps DEF RulesTyped
<1>10. ASSUME NEW d \in DTBs, PCPAdds(d) PROVE Rules'
  <2>1. pcp' = [pcp EXCEPT !.at = "adds", !.dtb = d] /\ UNCHANGED <<file, rules>>
    BY <1>10 DEF PCPAdds, watch
  <2>2. QED  BY <1>1, <2>1, FrameKeeps DEF RulesTyped
<1>11. CASE PLPInserts \/ \E d \in DTBs : PLPStamps(d)
  BY <1>5, <1>11 DEF PLPInserts, PLPStamps, watch
<1>12. CASE PCPCannotSchedule \/ PCPDispatches \/ PCPInserts
  BY <1>9, <1>12 DEF PCPCannotSchedule, PCPDispatches, PCPInserts, watch
<1>13. CASE \E d \in DTBs : PCPEnds(d) \/ \E left \in Leftovers : PCPBlocks(d, left)
  BY <1>9, <1>13 DEF PCPEnds, PCPBlocks, watch
<1>14. CASE \E d \in DTBs : PCPUnlocksPreempted(d) \/ PCPUnlocks(d)
  BY <1>10, <1>14 DEF PCPUnlocksPreempted, PCPUnlocks
<1>15. CASE UNCHANGED vars
  BY <1>5, <1>15 DEF vars, watch
<1>16. QED
  BY <1>2, <1>3, <1>4, <1>6, <1>7, <1>8, <1>11, <1>12, <1>13, <1>14, <1>15 DEF Next, Releases

-----------------------------------------------------------------------------
(***************************************************************************)
(* The list of the present policy.                                         *)
(***************************************************************************)

\* The list stays the same while no change is registered, carried out or forgotten.
LEMMA HomeStays ==
  ASSUME UNCHANGED rules,
         pcp' = pcp \/ (pcp.at \notin {"moves", "clears"} /\ pcp'.at \notin {"moves", "clears"})
  PROVE  Home' = Home
BY DEF Home, rules

\* While no change is being carried out it has a policy.
LEMMA HomeOf == ASSUME Rules PROVE Home \in Algorithms \cup {None}
BY PcpOf DEF Home

\* A cycle that begins does not change it: the change in hand is the one that was pending.
LEMMA HomeAtTheStart == ASSUME Rules, PCPCopies PROVE Home' = Home
<1>1. /\ pcp.at = "waits" /\ UNCHANGED <<settings, algorithmChange>>
      /\ pcp'.at = (IF algorithmChange = Unaltered THEN "works" ELSE "moves")
      /\ pcp'.change = algorithmChange
  BY DEF PCPCopies, rules
<1>2. algorithmChange # Unaltered => algorithmChange[2] = settings.algorithm
  BY DEF Rules, ChangePending
<1>3. QED  BY <1>1, <1>2 DEF Home

\* Reading the file does not change it, or whoever is in a list is left behind.
LEMMA HomeWhenRead ==
  ASSUME Rules, UpdateSettings
  PROVE  behind \subseteq behind' /\ (Home' = Home \/ Queued \subseteq behind')
<1>1. /\ settings' = file /\ pcp' = pcp
      /\ algorithmChange' = IF settings.algorithm = file.algorithm THEN Unaltered
                            ELSE <<settings.algorithm, file.algorithm>>
      /\ behind' = IF Changing /\ ~(pcp.at \in {"moves", "clears"} /\ settings.algorithm = file.algorithm)
                   THEN behind \cup Queued ELSE behind
  BY DEF UpdateSettings, Registered
<1>2. CASE ~Changing
  BY <1>1, <1>2 DEF Changing, Home, Unaltered
<1>3. CASE pcp.at \in {"moves", "clears"} /\ settings.algorithm = file.algorithm
  BY <1>1, <1>3 DEF Home
<1>4. CASE Changing /\ ~(pcp.at \in {"moves", "clears"} /\ settings.algorithm = file.algorithm)
  BY <1>1, <1>4
<1>5. QED  BY <1>2, <1>3, <1>4

-----------------------------------------------------------------------------
(***************************************************************************)
(* The order of the own policy.                                            *)
(***************************************************************************)

\* The priority of PROPIO orders the DTBs that have arrived.
LEMMA PriorityOrders ==
  ASSUME Listing(arrived), ioOperations \in [DTBs -> Nat], NEW T, T \subseteq ToSet(arrived)
  PROVE  /\ \A d \in T : ~DescendantPriority(d, d)
         /\ \A d, e \in T : d # e => DescendantPriority(d, e) \/ DescendantPriority(e, d)
         /\ \A d, e, f \in T :
              DescendantPriority(d, e) /\ DescendantPriority(e, f) => DescendantPriority(d, f)
<1>1. T \subseteq DTBs
  BY MembersOf DEF Listing
<1>2. ASSUME NEW d \in T PROVE Position(d) \in Int /\ arrived[Position(d)] = d
  <2>1. Len(arrived) \in Nat
    BY LenProperties DEF Listing
  <2>2. QED  BY <2>1, PositionFound DEF Position
<1>3. \A d \in T : ioOperations[d] \in Int
  BY <1>1
<1>4. \A d, e \in T : d # e => Position(d) # Position(e)
  BY <1>2
<1>5. QED  BY <1>2, <1>3, <1>4 DEF DescendantPriority

\* list_sort keeps the members of a list, once each, and puts one first that nobody precedes.
LEMMA SortedOf ==
  ASSUME Listing(arrived), ioOperations \in [DTBs -> Nat],
         NEW s, Listing(s), ToSet(s) \subseteq ToSet(arrived)
  PROVE  /\ Listing(Sorted(s)) /\ ToSet(Sorted(s)) = ToSet(s)
         /\ s # <<>> => Sorted(s)[1] \in ToSet(s) /\ Ahead(s, Sorted(s)[1]) = {}
<1>1. PICK T : T = ToSet(s)
  OBVIOUS
<1>2. PICK n : n = Len(s)
  OBVIOUS
<1>3. /\ IsFiniteSet(T) /\ Cardinality(T) = n /\ n \in Nat /\ DOMAIN s = 1..n
      /\ T \subseteq DTBs /\ (s = <<>> <=> T = {})
  BY <1>1, <1>2, MembersOf, MembersCounted DEF Listing
<1>4. PICK P : P = [d \in T |-> Ahead(s, d)]
  OBVIOUS
<1>5. /\ P \in [T -> SUBSET T]
      /\ \A d \in T : P[d] = Ahead(s, d)
      /\ \A d, e \in T : e \in P[d] <=> DescendantPriority(e, d)
  BY <1>1, <1>4 DEF Ahead
<1>6. /\ \A d \in T : ~DescendantPriority(d, d)
      /\ \A d, e \in T : d # e => DescendantPriority(d, e) \/ DescendantPriority(e, d)
      /\ \A d, e, f \in T :
           DescendantPriority(d, e) /\ DescendantPriority(e, f) => DescendantPriority(d, f)
  BY <1>1, PriorityOrders
<1>7. /\ \A d \in T : d \notin P[d]
      /\ \A d, e \in T : d # e => d \in P[e] \/ e \in P[d]
      /\ \A d, e, f \in T : d \in P[e] /\ e \in P[f] => d \in P[f]
  BY <1>5, <1>6
<1>8. /\ \A d \in T : IsFiniteSet(P[d]) /\ Cardinality(P[d]) + 1 \in 1..n
      /\ \A d, e \in T : Cardinality(P[d]) = Cardinality(P[e]) => d = e
      /\ \A k \in 1..n : \E d \in T : Cardinality(P[d]) = k - 1
  BY <1>3, <1>5, <1>7, Ranking
<1>9. \A d \in T : Cardinality(P[d]) \in Nat
  BY <1>8, FS_CardinalityType
<1>10. PICK t : t = Sorted(s)
  OBVIOUS
<1>11. t = [k \in 1..n |-> CHOOSE d \in T : Cardinality(Ahead(s, d)) = k - 1]
  BY <1>1, <1>3, <1>10 DEF Sorted
<1>12. ASSUME NEW k \in 1..n PROVE t[k] \in T /\ Cardinality(P[t[k]]) = k - 1
  <2>1. \E d \in T : Cardinality(Ahead(s, d)) = k - 1
    BY <1>5, <1>8
  <2>2. t[k] = CHOOSE d \in T : Cardinality(Ahead(s, d)) = k - 1
    BY <1>11
  <2>3. t[k] \in T /\ Cardinality(Ahead(s, t[k])) = k - 1
    BY <2>1, <2>2
  <2>4. QED  BY <1>5, <2>3
<1>13. t \in Seq(DTBs) /\ Len(t) = n
  <2>1. t \in [1..n -> DTBs]
    BY <1>3, <1>11, <1>12
  <2>2. QED  BY <1>3, <2>1
<1>14. Once(t)
  <2>1. ASSUME NEW i \in 1..n, NEW j \in 1..n, t[i] = t[j] PROVE i = j
    <3>1. i - 1 = j - 1
      BY <1>12, <2>1
    <3>2. QED  BY <1>3, <3>1
  <2>2. QED  BY <1>13, <2>1 DEF Once
<1>15. \A d : d \in ToSet(t) <=> d \in T
  <2>1. \A d : d \in ToSet(t) <=> \E i \in 1..n : t[i] = d
    BY <1>13, MembersOf
  <2>2. ASSUME NEW d \in T PROVE \E i \in 1..n : t[i] = d
    <3>1. PICK k \in 1..n : k = Cardinality(P[d]) + 1
      BY <1>8
    <3>2. Cardinality(P[t[k]]) = k - 1 /\ t[k] \in T
      BY <1>12
    <3>3. Cardinality(P[d]) = k - 1
      BY <1>9, <3>1
    <3>4. t[k] = d
      BY <1>8, <3>2, <3>3
    <3>5. QED  BY <3>4
  <2>3. QED  BY <1>12, <2>1, <2>2
<1>16. ASSUME s # <<>> PROVE t[1] \in T /\ Ahead(s, t[1]) = {}
  <2>1. 1 \in 1..n
    <3>1. n # 0
      BY <1>2, <1>16, EmptySeq DEF Listing
    <3>2. QED  BY <1>3, <3>1
  <2>2. t[1] \in T /\ Cardinality(P[t[1]]) = 0
    BY <1>12, <2>1
  <2>3. P[t[1]] = {}
    BY <1>8, <2>2, FS_EmptySet
  <2>4. QED  BY <1>5, <2>2, <2>3
<1>17. QED  BY <1>1, <1>10, <1>13, <1>14, <1>15, <1>16 DEF Listing

-----------------------------------------------------------------------------
(***************************************************************************)
(* Where each DTB is.                                                      *)
(***************************************************************************)

ReadyIn(p) == {d \in DTBs : p[d] = "ready"}
InLists(r) == UNION {ToSet(r[a]) : a \in Algorithms}
Apart(r) == \A a, b \in Algorithms : a # b => ToSet(r[a]) \cap ToSet(r[b]) = {}
Neat(r) ==
    r \in [Algorithms -> Seq(DTBs)] /\ (\A a \in Algorithms : Once(r[a])) /\ Apart(r)

\* The lists r, the times of arrival x, the places p, the DTBs in the hands of a planner, and b
\* that were left behind: a READY DTB that is in no list is one of them.
ListsOK(r, x, p, hands, b) ==
    /\ Neat(r)
    /\ Listing(x) /\ ToSet(x) = ReadyIn(p)
    /\ p \in [DTBs -> {"loading", "ready", "exec", "blocked", "exit"}]
    /\ InLists(r) \subseteq ReadyIn(p) \ hands
    /\ (ReadyIn(p) \ hands) \ b \subseteq InLists(r)

\* Each planner has one READY DTB in its hands, or none, and not the same.
HandsOK ==
    /\ plp \in DTBs \cup {None}
    /\ plp # None => place[plp] = "ready"
    /\ pcp.at # "adds" => pcp.dtb = None
    /\ pcp.at = "adds" => pcp.dtb \in DTBs /\ place[pcp.dtb] = "ready" /\ pcp.dtb # plp

NumbersOK == ioOperations \in [DTBs -> Nat] /\ quantumRemainder \in [DTBs -> Nat]

Lists == ListsOK(ready, arrived, place, {plp, pcp.dtb}, behind) /\ HandsOK /\ NumbersOK

\* Whoever was not left behind is in the list of the present policy, or in the one that the PCP
\* will move to it.
AtHome == \A a \in Algorithms : \A d \in ToSet(ready[a]) \ behind : a = Home

\* A member of the lists is in one of them.
LEMMA InListsOf ==
  ASSUME NEW r PROVE \A d : d \in InLists(r) <=> \E a \in Algorithms : d \in ToSet(r[a])
BY DEF InLists

\* One list is replaced.
LEMMA ListReplaced ==
  ASSUME NEW r, Neat(r), NEW name \in Algorithms, NEW s, Listing(s),
         ToSet(s) \cap InLists(r) \subseteq ToSet(r[name])
  PROVE  /\ Neat([r EXCEPT ![name] = s])
         /\ InLists([r EXCEPT ![name] = s]) = (InLists(r) \ ToSet(r[name])) \cup ToSet(s)
<1>0. PICK z : z = [r EXCEPT ![name] = s]
  OBVIOUS
<1>1. /\ z \in [Algorithms -> Seq(DTBs)] /\ z[name] = s
      /\ \A a \in Algorithms \ {name} : z[a] = r[a]
  BY <1>0 DEF Listing, Neat
<1>2. \A a \in Algorithms : Once(z[a])
  BY <1>1 DEF Listing, Neat
<1>3. ASSUME NEW a \in Algorithms \ {name} PROVE ToSet(s) \cap ToSet(r[a]) = {}
  <2>1. ASSUME NEW d \in ToSet(s), d \in ToSet(r[a]) PROVE FALSE
    <3>1. d \in ToSet(r[name])
      BY <2>1, InListsOf
    <3>2. QED  BY <2>1, <3>1 DEF Apart, Neat
  <2>2. QED  BY <2>1
<1>4. Apart(z)
  <2>1. ASSUME NEW a \in Algorithms, NEW b \in Algorithms, a # b
        PROVE  ToSet(z[a]) \cap ToSet(z[b]) = {}
    <3>1. CASE a = name
      BY <1>1, <1>3, <2>1, <3>1
    <3>2. CASE b = name
      BY <1>1, <1>3, <2>1, <3>2
    <3>3. CASE a # name /\ b # name
      BY <1>1, <2>1, <3>3 DEF Apart, Neat
    <3>4. QED  BY <3>1, <3>2, <3>3
  <2>2. QED  BY <2>1 DEF Apart
<1>5. ASSUME NEW d
      PROVE  d \in InLists(z) <=> d \in (InLists(r) \ ToSet(r[name])) \cup ToSet(s)
  <2>1. d \in InLists(z) <=> d \in ToSet(s) \/ \E a \in Algorithms \ {name} : d \in ToSet(r[a])
    BY <1>1, InListsOf
  <2>2. d \in InLists(r) /\ d \notin ToSet(r[name])
          <=> \E a \in Algorithms \ {name} : d \in ToSet(r[a])
    <3>1. d \in InLists(r) <=> \E a \in Algorithms : d \in ToSet(r[a])
      BY InListsOf
    <3>2. \A a \in Algorithms \ {name} : d \in ToSet(r[a]) => d \notin ToSet(r[name])
      BY DEF Apart, Neat
    <3>3. QED  BY <3>1, <3>2
  <2>3. QED  BY <2>1, <2>2
<1>6. QED  BY <1>0, <1>1, <1>2, <1>4, <1>5 DEF Neat

-----------------------------------------------------------------------------
(***************************************************************************)
(* What the operations on the lists do to them.                            *)
(***************************************************************************)

\* At the start nobody is READY.
LEMMA ListsInit == ASSUME Init PROVE Lists /\ AtHome
<1>1. PICK none : none = <<>>
  OBVIOUS
<1>2. none \in Seq(DTBs) /\ Once(none) /\ ToSet(none) = {}
  BY <1>1, EmptySeq, MembersOf DEF Once
<1>3. /\ ready = [a \in Algorithms |-> none] /\ arrived = none
      /\ place = [d \in DTBs |-> "loading"]
      /\ pcp.at = "waits" /\ pcp.dtb = None /\ plp = None
  BY <1>1 DEF Init
<1>4. ready \in [Algorithms -> Seq(DTBs)] /\ \A a \in Algorithms : ready[a] = none
  BY <1>2, <1>3
<1>5. InLists(ready) = {}
  BY <1>2, <1>4, InListsOf
<1>6. ReadyIn(place) = {}
  BY <1>3 DEF ReadyIn
<1>7. Neat(ready)
  BY <1>2, <1>4 DEF Apart, Neat
<1>8. ListsOK(ready, arrived, place, {plp, pcp.dtb}, behind)
  BY <1>2, <1>3, <1>4, <1>5, <1>6, <1>7 DEF ListsOK, Listing, Neat
<1>9. HandsOK
  BY <1>3 DEF HandsOK
<1>10. NumbersOK
  BY DEF Init, NumbersOK
<1>11. AtHome
  BY <1>2, <1>4 DEF AtHome
<1>12. QED  BY <1>8, <1>9, <1>10, <1>11 DEF Lists

\* A step that moves no DTB, though it may leave some behind.
LEMMA NobodyMoves ==
  ASSUME Lists, UNCHANGED <<lists, dtbs, plp>>, behind \subseteq behind',
         pcp' = pcp \/ (pcp.at # "adds" /\ pcp'.at # "adds" /\ pcp'.dtb = None)
  PROVE  Lists'
<1>1. UNCHANGED <<ready, arrived, place, quantumRemainder, ioOperations, plp>>
  BY DEF lists, dtbs
<1>2. pcp'.dtb = pcp.dtb
  BY DEF Lists, HandsOK
<1>3. ListsOK(ready', arrived', place', {plp', pcp'.dtb}, behind')
  BY <1>1, <1>2 DEF Lists, ListsOK
<1>4. HandsOK'
  BY <1>1, <1>2 DEF Lists, HandsOK
<1>5. NumbersOK'
  BY <1>1 DEF Lists, NumbersOK
<1>6. QED  BY <1>3, <1>4, <1>5 DEF Lists

\* A DTB that was in no list comes into the hands of a planner.
LEMMA Arrives ==
  ASSUME Lists, NEW d \in DTBs, place[d] # "ready", Stamps(d),
         place' = [place EXCEPT ![d] = "ready"], UNCHANGED <<ready, behind>>,
         NEW h, h = {plp', pcp'.dtb}, \A e \in DTBs : e \in h <=> e = d \/ e \in {plp, pcp.dtb}
  PROVE  ListsOK(ready', arrived', place', h, behind')
<1>1. ListsOK(ready, arrived, place, {plp, pcp.dtb}, behind)
  BY DEF Lists
<1>2. Listing(arrived) /\ ToSet(arrived) = ReadyIn(place)
  BY <1>1 DEF ListsOK
<1>3. d \notin ToSet(arrived)
  BY <1>2 DEF ReadyIn
<1>4. Listing(arrived') /\ ToSet(arrived') = ReadyIn(place) \cup {d}
  BY <1>2, <1>3, AppendOf DEF Stamps
<1>5. place' \in [DTBs -> {"loading", "ready", "exec", "blocked", "exit"}]
  BY <1>1 DEF ListsOK
<1>6. ReadyIn(place') = ReadyIn(place) \cup {d}
  BY <1>1 DEF ReadyIn, ListsOK
<1>7. ReadyIn(place') \ h = ReadyIn(place) \ {plp, pcp.dtb}
  BY <1>1, <1>6 DEF ListsOK, ReadyIn
<1>8. QED  BY <1>1, <1>4, <1>5, <1>6, <1>7 DEF ListsOK

\* The DTB that a planner has in its hands is put in a list.
InHands(h, hands, d) == \A e \in DTBs : e \in h <=> e # d /\ e \in hands
\* Inserting it gives the list one more member, and takes it from the planner's hands.
LEMMA IsInserted ==
  ASSUME NEW hands, ListsOK(ready, arrived, place, hands, behind), NumbersOK,
         NEW d \in DTBs, d \in hands, place[d] = "ready",
         NEW name \in Algorithms, Inserts(name, d), UNCHANGED <<arrived, place>>,
         NEW h, InHands(h, hands, d)
  PROVE  /\ ListsOK(ready', arrived', place', h, behind')
         /\ \A a \in Algorithms \ {name} : ready'[a] = ready[a]
         /\ ToSet(ready'[name]) = ToSet(ready[name]) \cup {d}
<1>1. ListsOK(ready, arrived, place, hands, behind) /\ ioOperations \in [DTBs -> Nat]
  BY DEF NumbersOK
<1>2. /\ Neat(ready) /\ ready \in [Algorithms -> Seq(DTBs)]
      /\ Listing(ready[name])
      /\ Listing(arrived) /\ ToSet(arrived) = ReadyIn(place)
      /\ InLists(ready) \subseteq ReadyIn(place) \ hands
  BY <1>1 DEF ListsOK, Listing, Neat
<1>3. d \notin InLists(ready) /\ d \in ReadyIn(place)
  BY <1>2 DEF ReadyIn
<1>4. d \notin ToSet(ready[name]) /\ ToSet(ready[name]) \subseteq InLists(ready)
  BY <1>3, InListsOf
<1>5. PICK s : s = Append(ready[name], d)
  OBVIOUS
<1>6. Listing(s) /\ ToSet(s) = ToSet(ready[name]) \cup {d}
  BY <1>2, <1>4, <1>5, AppendOf
<1>7. ToSet(s) \subseteq ToSet(arrived)
  BY <1>2, <1>3, <1>4, <1>6
<1>8. PICK t : t = IF name = "PROPIO" THEN Sorted(s) ELSE s
  OBVIOUS
<1>9. Listing(t) /\ ToSet(t) = ToSet(ready[name]) \cup {d}
  BY <1>1, <1>2, <1>6, <1>7, <1>8, SortedOf
<1>10. ready' = [ready EXCEPT ![name] = t]
  BY <1>5, <1>8 DEF Inserts
<1>11. /\ Neat(ready')
       /\ InLists(ready') = (InLists(ready) \ ToSet(ready[name])) \cup ToSet(t)
  <2>1. ToSet(t) \cap InLists(ready) \subseteq ToSet(ready[name])
    BY <1>3, <1>9
  <2>2. /\ Neat([ready EXCEPT ![name] = t])
        /\ InLists([ready EXCEPT ![name] = t])
              = (InLists(ready) \ ToSet(ready[name])) \cup ToSet(t)
    <3>1. Listing(t) /\ Neat(ready)
      BY <1>2, <1>9
    <3>2. QED  BY <2>1, <3>1, ListReplaced, ZenonT(60)
  <2>3. QED  BY <1>10, <2>2, Zenon
<1>12. \A e \in ToSet(ready[name]) : e \in InLists(ready)
  BY <1>4
<1>13. Neat(ready') /\ InLists(ready') = InLists(ready) \cup {d}
  <2>1. \A e : e \in InLists(ready') <=> e \in InLists(ready) \/ e = d
    BY <1>9, <1>11, <1>12
  <2>2. QED  BY <1>11, <2>1
<1>14. \A e : e \in ReadyIn(place) \ h <=> e \in ReadyIn(place) \ hands \/ e = d
  BY <1>3 DEF ReadyIn, InHands
<1>15. behind \subseteq behind'
  BY DEF Inserts
<1>16. /\ InLists(ready') \subseteq ReadyIn(place) \ h
       /\ (ReadyIn(place) \ h) \ behind' \subseteq InLists(ready')
  <2>1. (ReadyIn(place) \ hands) \ behind \subseteq InLists(ready)
    BY <1>1 DEF ListsOK
  <2>2. QED  BY <1>2, <1>13, <1>14, <1>15, <2>1
<1>17. (\A a \in Algorithms \ {name} : ready'[a] = ready[a]) /\ ready'[name] = t
  BY <1>2, <1>10
<1>18. QED  BY <1>1, <1>2, <1>9, <1>13, <1>16, <1>17 DEF ListsOK

\* A DTB leaves its list and is READY no more.
LEMMA LeavesList ==
  ASSUME Lists, NEW name \in Algorithms, NEW d \in ToSet(ready[name]), Leaves(name, d),
         NEW p \in {"loading", "exec", "blocked", "exit"}, place' = [place EXCEPT ![d] = p]
  PROVE  /\ ListsOK(ready', arrived', place', {plp, pcp.dtb}, behind')
         /\ \A a \in Algorithms : ToSet(ready'[a]) = ToSet(ready[a]) \ {d}
         /\ d \in DTBs /\ d \notin {plp, pcp.dtb}
<1>1. ListsOK(ready, arrived, place, {plp, pcp.dtb}, behind)
  BY DEF Lists
<1>2. /\ Neat(ready) /\ ready \in [Algorithms -> Seq(DTBs)]
      /\ Listing(ready[name])
      /\ Listing(arrived) /\ ToSet(arrived) = ReadyIn(place)
      /\ InLists(ready) \subseteq ReadyIn(place) \ {plp, pcp.dtb}
      /\ (ReadyIn(place) \ {plp, pcp.dtb}) \ behind \subseteq InLists(ready)
      /\ place \in [DTBs -> {"loading", "ready", "exec", "blocked", "exit"}]
  BY <1>1 DEF ListsOK, Listing, Neat
<1>3. d \in InLists(ready)
  BY InListsOf
<1>4. d \in ReadyIn(place) /\ d \in DTBs /\ d \notin {plp, pcp.dtb} /\ d \in ToSet(arrived)
  BY <1>2, <1>3 DEF ReadyIn
<1>5. PICK t : t = Without(ready[name], d)
  OBVIOUS
<1>6. Listing(t) /\ ToSet(t) = ToSet(ready[name]) \ {d}
  BY <1>2, <1>5, WithoutOf
<1>7. ready' = [ready EXCEPT ![name] = t]
  BY <1>5 DEF Leaves
<1>8. /\ Neat(ready')
      /\ InLists(ready') = (InLists(ready) \ ToSet(ready[name])) \cup ToSet(t)
  <2>1. ToSet(t) \cap InLists(ready) \subseteq ToSet(ready[name])
    BY <1>6
  <2>2. /\ Neat([ready EXCEPT ![name] = t])
        /\ InLists([ready EXCEPT ![name] = t])
              = (InLists(ready) \ ToSet(ready[name])) \cup ToSet(t)
    BY <1>2, <1>6, <2>1, ListReplaced, ZenonT(60)
  <2>3. QED  BY <1>7, <2>2, Zenon
<1>9. ToSet(ready[name]) \subseteq InLists(ready)
  BY InListsOf
<1>10. InLists(ready') = InLists(ready) \ {d}
  BY <1>6, <1>8, <1>9
<1>11. Listing(arrived') /\ ToSet(arrived') = ToSet(arrived) \ {d}
  BY <1>2, <1>4, WithoutOf DEF Leaves
<1>12. place' \in [DTBs -> {"loading", "ready", "exec", "blocked", "exit"}]
  BY <1>2
<1>13. ReadyIn(place') = ReadyIn(place) \ {d}
  BY <1>2, <1>4 DEF ReadyIn
<1>14. ASSUME NEW a \in Algorithms PROVE ToSet(ready'[a]) = ToSet(ready[a]) \ {d}
  <2>1. CASE a = name
    BY <1>2, <1>6, <1>7, <2>1
  <2>2. CASE a # name
    <3>1. ready'[a] = ready[a]
      BY <1>2, <1>7, <2>2
    <3>2. d \notin ToSet(ready[a])
      BY <1>2, <2>2 DEF Neat, Apart
    <3>3. QED  BY <3>1, <3>2
  <2>3. QED  BY <2>1, <2>2
<1>15. behind' = behind \ {d}
  BY DEF Leaves
<1>16. /\ InLists(ready') \subseteq ReadyIn(place') \ {plp, pcp.dtb}
       /\ (ReadyIn(place') \ {plp, pcp.dtb}) \ behind' \subseteq InLists(ready')
  BY <1>2, <1>10, <1>13, <1>15
<1>17. QED  BY <1>2, <1>4, <1>8, <1>11, <1>12, <1>13, <1>14, <1>16 DEF ListsOK

\* A DTB that is not READY goes to another place where it is not.
LEMMA ElsewhereGoes ==
  ASSUME Lists, NEW d \in DTBs, place[d] # "ready", UNCHANGED <<lists, behind>>,
         NEW p \in {"loading", "exec", "blocked", "exit"}, place' = [place EXCEPT ![d] = p]
  PROVE  ListsOK(ready', arrived', place', {plp, pcp.dtb}, behind')
<1>1. ListsOK(ready, arrived, place, {plp, pcp.dtb}, behind) /\ UNCHANGED <<ready, arrived>>
  BY DEF Lists, lists
<1>2. place' \in [DTBs -> {"loading", "ready", "exec", "blocked", "exit"}]
  BY <1>1 DEF ListsOK
<1>3. ReadyIn(place') = ReadyIn(place)
  BY <1>1 DEF ReadyIn, ListsOK
<1>4. QED  BY <1>1, <1>2, <1>3 DEF ListsOK

\* The lists change hands: the old one is copied to the new one, which forgets what it had, and
\* cleaned; or, from the own policy to virtual round robin, stays while the new one is cleaned.
LEMMA MovedOf ==
  ASSUME Lists, NEW old \in Algorithms, NEW new \in Algorithms, old # new,
         ready' = Moved(<<old, new>>)
  PROVE  /\ Neat(ready') /\ InLists(ready') \subseteq InLists(ready)
         /\ <<old, new>> # <<"PROPIO", "VRR">> =>
              /\ ToSet(ready'[new]) = ToSet(ready[old]) /\ ToSet(ready'[old]) = {}
              /\ \A a \in Algorithms \ {old, new} : ready'[a] = ready[a]
<1>1. ListsOK(ready, arrived, place, {plp, pcp.dtb}, behind) /\ ioOperations \in [DTBs -> Nat]
  BY DEF Lists, NumbersOK
<1>2. /\ Neat(ready) /\ ready \in [Algorithms -> Seq(DTBs)]
      /\ Listing(ready[old])
      /\ Listing(arrived) /\ ToSet(arrived) = ReadyIn(place)
      /\ InLists(ready) \subseteq ReadyIn(place)
  BY <1>1 DEF ListsOK, Listing, Neat
<1>3. ToSet(ready[old]) \subseteq InLists(ready) /\ ToSet(ready[old]) \subseteq ToSet(arrived)
  BY <1>2, InListsOf
<1>4. PICK t : t = IF new = "PROPIO" THEN Sorted(ready[old]) ELSE ready[old]
  OBVIOUS
<1>5. Listing(t) /\ ToSet(t) = ToSet(ready[old])
  BY <1>1, <1>2, <1>3, <1>4, SortedOf
<1>6. PICK none : none = <<>>
  OBVIOUS
<1>7. Listing(none) /\ ToSet(none) = {}
  BY <1>6, EmptySeq, MembersOf DEF Listing, Once
<1>8. ASSUME NEW a \in Algorithms, NEW r, r = [ready EXCEPT ![a] = none]
      PROVE  Neat(r) /\ InLists(r) = InLists(ready) \ ToSet(ready[a])
  <2>1. ToSet(none) \cap InLists(ready) \subseteq ToSet(ready[a])
    BY <1>7
  <2>2. /\ Neat([ready EXCEPT ![a] = none])
        /\ InLists([ready EXCEPT ![a] = none])
              = (InLists(ready) \ ToSet(ready[a])) \cup ToSet(none)
    <3>1. Listing(none) /\ Neat(ready)
      BY <1>2, <1>7
    <3>2. QED  BY <2>1, <3>1, ListReplaced, ZenonT(60)
  <2>3. QED  BY <1>7, <1>8, <2>2
<1>9. CASE <<old, new>> = <<"PROPIO", "VRR">>
  <2>1. old = "PROPIO" /\ new = "VRR"
    BY <1>9
  <2>2. ready' = [[ready EXCEPT ![new] = t] EXCEPT ![new] = none]
    BY <1>4, <1>6, <2>1 DEF Moved, Copied
  <2>3. ready' = [ready EXCEPT ![new] = none]
    BY <1>2, <2>2
  <2>4. QED  BY <1>8, <1>9, <2>3
<1>10. CASE <<old, new>> # <<"PROPIO", "VRR">>
  <2>1. PICK z : z = [ready EXCEPT ![old] = none]
    OBVIOUS
  <2>2. Neat(z) /\ InLists(z) = InLists(ready) \ ToSet(ready[old])
    BY <1>8, <2>1
  <2>3. PICK y : y = [z EXCEPT ![new] = t]
    OBVIOUS
  <2>4. Neat(y) /\ InLists(y) = (InLists(z) \ ToSet(z[new])) \cup ToSet(t)
    <3>1. Listing(t) /\ Neat(z) /\ ToSet(t) \cap InLists(z) \subseteq ToSet(z[new])
      BY <1>5, <2>2
    <3>2. /\ Neat([z EXCEPT ![new] = t])
          /\ InLists([z EXCEPT ![new] = t]) = (InLists(z) \ ToSet(z[new])) \cup ToSet(t)
      BY <3>1, ListReplaced, ZenonT(60)
    <3>3. QED  BY <2>3, <3>2, Zenon
  <2>5. y = ready'
    <3>1. ready' = [[ready EXCEPT ![new] = t] EXCEPT ![old] = none]
      BY <1>4, <1>6, <1>10 DEF Moved, Copied
    <3>2. QED  BY <1>2, <2>1, <2>3, <3>1
  <2>6. InLists(ready') \subseteq InLists(ready)
    BY <1>3, <1>5, <2>2, <2>4, <2>5
  <2>7. /\ ready'[new] = t /\ ready'[old] = none
        /\ \A a \in Algorithms \ {old, new} : ready'[a] = ready[a]
    BY <1>2, <2>1, <2>3, <2>5
  <2>8. QED  BY <1>5, <1>7, <1>10, <2>4, <2>5, <2>6, <2>7
<1>11. QED  BY <1>9, <1>10

-----------------------------------------------------------------------------
(***************************************************************************)
(* What each step does to the lists.                                       *)
(***************************************************************************)

\* A write of the file moves nobody.
LEMMA FileIsWrittenLists ==
  ASSUME Rules, Lists, (\E s \in Files : FileIsWritten(s)) \/ ModifiedAgain PROVE Lists'
BY NobodyMoves DEF FileIsWritten, ModifiedAgain

\* Reading it moves nobody.
LEMMA UpdateSettingsLists == ASSUME Rules, Lists, UpdateSettings PROVE Lists'
<1>1. UNCHANGED <<lists, dtbs, plp>> /\ pcp' = pcp
  BY DEF UpdateSettings
<1>2. QED  BY <1>1, HomeWhenRead, NobodyMoves

\* The PLP takes a loaded DTB in its hands.
LEMMA PLPStampsLists ==
  ASSUME Rules, Lists, NEW d \in DTBs, PLPStamps(d) PROVE Lists'
<1>1. /\ plp = None /\ place[d] = "loading"
      /\ plp' = d /\ place' = [place EXCEPT ![d] = "ready"] /\ Stamps(d)
      /\ pcp' = pcp /\ UNCHANGED <<ready, quantumRemainder, ioOperations, behind>>
  BY DEF PLPStamps
<1>2. HandsOK /\ place \in [DTBs -> {"loading", "ready", "exec", "blocked", "exit"}]
  BY DEF Lists, ListsOK
<1>3. PICK h : h = {plp', pcp'.dtb}
  OBVIOUS
<1>4. \A e \in DTBs : e \in h <=> e = d \/ e \in {plp, pcp.dtb}
  BY <1>1, <1>3, ReadyQueuesAssumption
<1>5. ListsOK(ready', arrived', place', h, behind')
  BY <1>1, <1>3, <1>4, Arrives
<1>6. HandsOK'
  BY <1>1, <1>2 DEF HandsOK
<1>7. NumbersOK'
  BY <1>1 DEF Lists, NumbersOK
<1>8. QED  BY <1>3, <1>5, <1>6, <1>7 DEF Lists

\* The PLP puts it in the list of the policy.
LEMMA PLPInsertsLists ==
  ASSUME Rules, Lists, PLPInserts
  PROVE  /\ Lists'
         /\ \A a \in Algorithms \ {settings.algorithm} : ready'[a] = ready[a]
         /\ ToSet(ready'[settings.algorithm]) = ToSet(ready[settings.algorithm]) \cup {plp}
<1>1. /\ plp # None /\ plp' = None /\ Inserts(settings.algorithm, plp) /\ pcp' = pcp
      /\ UNCHANGED <<arrived, place, quantumRemainder, ioOperations>>
  BY DEF PLPInserts, dtbs
<1>2. /\ HandsOK /\ NumbersOK /\ plp \in DTBs /\ place[plp] = "ready"
      /\ ListsOK(ready, arrived, place, {plp, pcp.dtb}, behind)
  BY <1>1 DEF Lists, HandsOK
<1>3. PICK h : h = {plp', pcp'.dtb}
  OBVIOUS
<1>4. InHands(h, {plp, pcp.dtb}, plp)
  BY <1>1, <1>2, <1>3, ReadyQueuesAssumption DEF InHands, HandsOK
<1>5. settings.algorithm \in Algorithms
  BY PcpOf
<1>6. /\ ListsOK(ready', arrived', place', h, behind')
      /\ \A a \in Algorithms \ {settings.algorithm} : ready'[a] = ready[a]
      /\ ToSet(ready'[settings.algorithm]) = ToSet(ready[settings.algorithm]) \cup {plp}
  BY <1>1, <1>2, <1>4, <1>5, IsInserted
<1>7. HandsOK'
  BY <1>1, <1>2, ReadyQueuesAssumption DEF HandsOK
<1>8. NumbersOK'
  BY <1>1, <1>2 DEF NumbersOK
<1>9. QED  BY <1>3, <1>6, <1>7, <1>8 DEF Lists

\* A cycle that begins moves nobody.
LEMMA PCPCopiesLists == ASSUME Rules, Lists, PCPCopies PROVE Lists'
<1>1. /\ pcp.at = "waits"
      /\ pcp'.at = (IF algorithmChange = Unaltered THEN "works" ELSE "moves") /\ pcp'.dtb = None
      /\ UNCHANGED <<lists, dtbs, plp>> /\ behind' = behind
  BY DEF PCPCopies
<1>2. QED  BY <1>1, NobodyMoves

\* What the new list forgets, or MoveQueues loses, had been left behind or is.
LEMMA PCPMovesLists == ASSUME Rules, Lists, AtHome, PCPMoves PROVE Lists'
<1>1. /\ pcp.at = "moves"
      /\ ready' = Moved(pcp.change)
      /\ behind' = IF Home = None \/ pcp.change = <<"PROPIO", "VRR">>
                   THEN behind \cup Queued ELSE behind
      /\ UNCHANGED <<plp, arrived, place, quantumRemainder, ioOperations>>
  BY DEF PCPMoves, dtbs
<1>2. pcp'.at = "clears" /\ pcp'.dtb = pcp.dtb
  BY PcpOf DEF PCPMoves
<1>3. PICK old \in Algorithms, new \in Algorithms :
        old # new /\ pcp.change = <<old, new>> /\ old = pcp.change[1]
  BY <1>1, PcpOf
<1>4. /\ Neat(ready') /\ InLists(ready') \subseteq InLists(ready)
      /\ <<old, new>> # <<"PROPIO", "VRR">> => ToSet(ready'[new]) = ToSet(ready[old])
  BY <1>1, <1>3, MovedOf
<1>5. ListsOK(ready, arrived, place, {plp, pcp.dtb}, behind)
  BY DEF Lists
<1>6. InLists(ready) \ behind' \subseteq InLists(ready')
  <2>1. CASE Home = None \/ pcp.change = <<"PROPIO", "VRR">>
    BY <1>1, <2>1 DEF Queued, InLists
  <2>2. CASE ~(Home = None \/ pcp.change = <<"PROPIO", "VRR">>)
    <3>1. Home = old /\ behind' = behind
      BY <1>1, <1>3, <2>2 DEF Home
    <3>2. ASSUME NEW d \in InLists(ready) \ behind PROVE d \in InLists(ready')
      <4>1. PICK a \in Algorithms : d \in ToSet(ready[a])
        BY InListsOf
      <4>2. a = old
        BY <3>1, <3>2, <4>1 DEF AtHome
      <4>3. d \in ToSet(ready'[new])
        BY <1>3, <1>4, <2>2, <4>1, <4>2
      <4>4. QED  BY <4>3, InListsOf
    <3>3. QED  BY <3>1, <3>2
  <2>3. QED  BY <2>1, <2>2
<1>7. behind \subseteq behind'
  BY <1>1
<1>8. PICK h : h = {plp, pcp.dtb}
  OBVIOUS
<1>9. ListsOK(ready', arrived', place', h, behind')
  <2>1. /\ Listing(arrived) /\ ToSet(arrived) = ReadyIn(place)
        /\ place \in [DTBs -> {"loading", "ready", "exec", "blocked", "exit"}]
        /\ InLists(ready) \subseteq ReadyIn(place) \ h
        /\ (ReadyIn(place) \ h) \ behind \subseteq InLists(ready)
    BY <1>5, <1>8 DEF ListsOK
  <2>2. /\ InLists(ready') \subseteq ReadyIn(place) \ h
        /\ (ReadyIn(place) \ h) \ behind' \subseteq InLists(ready')
    BY <1>4, <1>6, <1>7, <2>1
  <2>3. QED  BY <1>1, <1>4, <2>1, <2>2 DEF ListsOK
<1>10. HandsOK'
  BY <1>1, <1>2 DEF Lists, HandsOK
<1>11. NumbersOK'
  BY <1>1 DEF Lists, NumbersOK
<1>12. QED  BY <1>1, <1>2, <1>8, <1>9, <1>10, <1>11 DEF Lists

\* The change is forgotten.
LEMMA PCPClearsLists == ASSUME Rules, Lists, PCPClears PROVE Lists'
<1>1. /\ pcp.at = "clears" /\ pcp'.at = "works" /\ pcp'.dtb = pcp.dtb
      /\ UNCHANGED <<lists, dtbs, plp>> /\ behind' = behind
  BY PcpOf DEF PCPClears
<1>2. pcp.dtb = None
  BY <1>1 DEF Lists, HandsOK
<1>3. QED  BY <1>1, <1>2, NobodyMoves

\* A cycle without a dispatch moves nobody.
LEMMA PCPCannotScheduleLists == ASSUME Rules, Lists, PCPCannotSchedule PROVE Lists'
<1>1. /\ pcp.at = "works" /\ pcp'.at = "waits" /\ pcp'.dtb = None
      /\ UNCHANGED <<lists, dtbs, plp>> /\ behind' = behind
  BY DoneOf DEF PCPCannotSchedule
<1>2. QED  BY <1>1, NobodyMoves

\* A DTB leaves the list of the PCP's cycle.
LEMMA LeavesLists ==
  ASSUME Rules, Lists, pcp.at = "works", Done, UNCHANGED <<plp, ioOperations>>,
         NEW d \in ToSet(ready[pcp.name]), Leaves(pcp.name, d),
         NEW p \in {"loading", "exec", "blocked", "exit"}, place' = [place EXCEPT ![d] = p],
         quantumRemainder' \in [DTBs -> Nat]
  PROVE  Lists' /\ \A a \in Algorithms : ToSet(ready'[a]) = ToSet(ready[a]) \ {d}
<1>1. pcp.name \in Algorithms
  BY PcpOf
<1>2. /\ ListsOK(ready', arrived', place', {plp, pcp.dtb}, behind')
      /\ \A a \in Algorithms : ToSet(ready'[a]) = ToSet(ready[a]) \ {d}
      /\ d \in DTBs /\ d \notin {plp, pcp.dtb}
  BY <1>1, LeavesList
<1>3. pcp'.at = "waits" /\ pcp'.dtb = None /\ pcp.dtb = None
  BY DoneOf DEF Lists, HandsOK
<1>4. HandsOK'
  BY <1>2, <1>3 DEF Lists, HandsOK, ListsOK
<1>5. NumbersOK'
  BY DEF Lists, NumbersOK
<1>6. QED  BY <1>2, <1>3, <1>4, <1>5 DEF Lists

\* The DTB that is chosen is in the list of the PCP's cycle, and nobody has priority over it.
LEMMA ChosenOf ==
  ASSUME Rules, Lists, ~NoReadyDTBs(pcp.name)
  PROVE  /\ Chosen \in ToSet(ready[pcp.name])
         /\ pcp.name = "PROPIO" => Ahead(ready["PROPIO"], Chosen) = {}
         /\ pcp.name = "VRR" =>
              \/ Heun[Chosen] # pcp.quantum
              \/ \A e \in ToSet(ready["VRR"]) : Heun[e] = pcp.quantum
<1>1. pcp.name \in Algorithms /\ "VRR" \in Algorithms
  BY PcpOf DEF Algorithms
<1>2. PICK s : s = ready[pcp.name]
  OBVIOUS
<1>3. /\ Listing(s) /\ s \in Seq(DTBs) /\ s # <<>>
      /\ ioOperations \in [DTBs -> Nat] /\ Listing(arrived)
  BY <1>1, <1>2 DEF NoReadyDTBs, Lists, NumbersOK, ListsOK, Neat, Listing
<1>4. ToSet(s) \subseteq ToSet(arrived)
  <2>1. ToSet(s) \subseteq InLists(ready)
    BY <1>1, <1>2, InListsOf
  <2>2. QED  BY <2>1 DEF Lists, ListsOK
<1>5. /\ DOMAIN s = 1..Len(s) /\ Len(s) \in Nat /\ Len(s) # 0
      /\ \A d : d \in ToSet(s) <=> \E i \in 1..Len(s) : s[i] = d
  BY <1>3, MembersOf, EmptySeq
<1>6. 1 \in 1..Len(s)
  BY <1>5
<1>7. s[1] \in ToSet(s)
  BY <1>5, <1>6
<1>8. CASE pcp.name = "RR"
  BY <1>2, <1>7, <1>8 DEF Chosen, FirstOf
<1>9. CASE pcp.name = "PROPIO"
  <2>1. Sorted(s)[1] \in ToSet(s) /\ Ahead(s, Sorted(s)[1]) = {}
    BY <1>3, <1>4, SortedOf
  <2>2. Chosen = Sorted(s)[1]
    BY <1>2, <1>9 DEF Chosen, FirstOf
  <2>3. QED  BY <1>2, <1>9, <2>1, <2>2
<1>10. CASE pcp.name = "VRR"
  <2>1. PICK T : T = AtPriorityQueue
    OBVIOUS
  <2>2. \A i : i \in T <=> i \in 1..Len(s) /\ Heun[s[i]] # pcp.quantum
    BY <1>2, <1>5, <1>10, <2>1 DEF AtPriorityQueue
  <2>3. CASE T = {}
    <3>1. Chosen = s[1]
      BY <1>2, <1>10, <2>1, <2>3 DEF Chosen, FirstOf
    <3>2. \A e \in ToSet(s) : Heun[e] = pcp.quantum
      BY <1>5, <2>2, <2>3
    <3>3. QED  BY <1>2, <1>7, <1>10, <3>1, <3>2
  <2>4. CASE T # {}
    <3>1. T \subseteq Nat
      BY <1>5, <2>2
    <3>2. Min(T) \in T
      BY <2>4, <3>1, LeastExists
    <3>3. Chosen = s[Min(T)]
      BY <1>2, <1>10, <2>1, <2>4 DEF Chosen
    <3>4. QED  BY <1>2, <1>5, <1>10, <2>2, <3>2, <3>3
  <2>5. QED  BY <2>3, <2>4
<1>11. QED  BY <1>1, <1>8, <1>9, <1>10 DEF Algorithms

\* The rest of a quantum is a number.
LEMMA HeunOf ==
  ASSUME Rules, Lists
  PROVE  /\ Heun \in [DTBs -> Nat]
         /\ \A d \in ToSet(ready["VRR"]) : Heun[d] \in 1..pcp.quantum
         /\ \A d \in ToSet(ready["VRR"]) : Heun[d] = pcp.quantum =>
              quantumRemainder[d] = 0 \/ quantumRemainder[d] >= pcp.quantum
<1>1. pcp.quantum \in Nat \ {0} /\ quantumRemainder \in [DTBs -> Nat]
  BY PcpOf DEF Lists, NumbersOK
<1>2. PICK q \in Nat \ {0} : q = pcp.quantum
  BY <1>1
<1>3. \A d \in DTBs : quantumRemainder[d] \in Nat
  BY <1>1
<1>4. \A d \in DTBs : /\ HeunMethod(quantumRemainder[d], q) \in 1..q
                      /\ HeunMethod(quantumRemainder[d], q) = q =>
                           quantumRemainder[d] = 0 \/ quantumRemainder[d] >= q
  BY <1>3 DEF HeunMethod
<1>5. /\ ready["VRR"] \in Seq(DTBs)
      /\ \A d : d \in ToSet(ready["VRR"]) <=> Contains(ready["VRR"], d)
      /\ ToSet(ready["VRR"]) \subseteq DTBs
  <2>1. ready["VRR"] \in Seq(DTBs)
    BY DEF Lists, ListsOK, Neat, Algorithms
  <2>2. QED  BY <2>1, MembersOf DEF Contains
<1>6. \A d \in DTBs : Heun[d] = IF Contains(ready["VRR"], d)
                                THEN HeunMethod(quantumRemainder[d], q) ELSE quantumRemainder[d]
  BY <1>2 DEF Heun
<1>7. \A d \in DTBs : Heun[d] \in Nat
  BY <1>3, <1>4, <1>6
<1>8. Heun = [d \in DTBs |-> Heun[d]]
  BY DEF Heun
<1>9. Heun \in [DTBs -> Nat]
  BY <1>7, <1>8
<1>10. \A d \in ToSet(ready["VRR"]) : Heun[d] = HeunMethod(quantumRemainder[d], q) /\ d \in DTBs
  BY <1>5, <1>6
<1>11. QED  BY <1>2, <1>4, <1>9, <1>10

\* The DTB that is chosen leaves its list.
LEMMA PCPDispatchesLists == ASSUME Rules, Lists, PCPDispatches PROVE Lists'
<1>1. Chosen \in ToSet(ready[pcp.name])
  BY ChosenOf DEF PCPDispatches
<1>2. PICK d : d = Chosen
  OBVIOUS
<1>3. d \in ToSet(ready[pcp.name])
  BY <1>1, <1>2
<1>4. quantumRemainder' \in [DTBs -> Nat]
  BY HeunOf, PcpOf DEF PCPDispatches, Lists, NumbersOK
<1>5. /\ pcp.at = "works" /\ Done /\ UNCHANGED <<plp, ioOperations>>
      /\ Leaves(pcp.name, d) /\ place' = [place EXCEPT ![d] = "exec"]
  BY <1>2 DEF PCPDispatches
<1>6. QED  BY <1>3, <1>4, <1>5, LeavesLists

\* A DTB that is not READY goes to another place; the lists stay.
LEMMA ElsewhereLists ==
  ASSUME Rules, Lists, NEW d \in DTBs, place[d] # "ready", UNCHANGED <<lists, behind>>,
         NEW p \in {"loading", "exec", "blocked", "exit"}, place' = [place EXCEPT ![d] = p],
         pcp.at = "works", Done, UNCHANGED <<plp, ioOperations>>,
         quantumRemainder' \in [DTBs -> Nat]
  PROVE  Lists'
<1>1. ListsOK(ready', arrived', place', {plp, pcp.dtb}, behind')
  BY ElsewhereGoes
<1>2. pcp'.at = "waits" /\ pcp'.dtb = None /\ pcp.dtb = None
  BY DoneOf DEF Lists, HandsOK
<1>3. HandsOK'
  BY <1>2 DEF Lists, HandsOK, ListsOK
<1>4. NumbersOK'
  BY DEF Lists, NumbersOK
<1>5. QED  BY <1>1, <1>2, <1>3, <1>4 DEF Lists

\* A DTB that blocks was in no list.
LEMMA PCPBlocksLists ==
  ASSUME Rules, Lists, NEW d \in DTBs, NEW left \in Leftovers, PCPBlocks(d, left) PROVE Lists'
<1>1. left \in Nat
  BY ReadyQueuesAssumption DEF Leftovers
<1>2. quantumRemainder' \in [DTBs -> Nat]
  BY <1>1 DEF PCPBlocks, Lists, NumbersOK
<1>3. /\ place[d] # "ready" /\ UNCHANGED <<lists, behind>>
      /\ place' = [place EXCEPT ![d] = "blocked"]
      /\ pcp.at = "works" /\ Done /\ UNCHANGED <<plp, ioOperations>>
  BY DEF PCPBlocks
<1>4. QED  BY <1>2, <1>3, ElsewhereLists

\* A DTB that is not READY is taken to be added.
LEMMA PCPAddsLists ==
  ASSUME Rules, Lists, NEW d \in DTBs, place[d] # "ready", pcp.at = "works", PCPAdds(d),
         NumbersOK'
  PROVE  Lists'
<1>1. /\ pcp'.at = "adds" /\ pcp'.dtb = d /\ pcp'.name = pcp.name
      /\ plp' = plp /\ place' = [place EXCEPT ![d] = "ready"] /\ Stamps(d)
      /\ UNCHANGED <<ready, behind>>
  BY PCPAddsOf DEF PCPAdds
<1>2. /\ HandsOK /\ place \in [DTBs -> {"loading", "ready", "exec", "blocked", "exit"}]
      /\ pcp.dtb = None
  BY DEF Lists, ListsOK, HandsOK
<1>3. PICK h : h = {plp', pcp'.dtb}
  OBVIOUS
<1>4. \A e \in DTBs : e \in h <=> e = d \/ e \in {plp, pcp.dtb}
  BY <1>1, <1>2, <1>3, ReadyQueuesAssumption
<1>5. ListsOK(ready', arrived', place', h, behind')
  BY <1>1, <1>3, <1>4, Arrives
<1>6. plp # None => place[plp] = "ready" /\ plp \in DTBs /\ plp # d
  BY <1>2 DEF HandsOK
<1>7. \A e \in DTBs : place'[e] = IF e = d THEN "ready" ELSE place[e]
  BY <1>1, <1>2
<1>8. HandsOK'
  <2>1. plp' \in DTBs \cup {None} /\ (plp' # None => place'[plp'] = "ready")
    BY <1>1, <1>2, <1>6, <1>7 DEF HandsOK
  <2>2. pcp'.dtb \in DTBs /\ place'[pcp'.dtb] = "ready" /\ pcp'.dtb # plp'
    BY <1>1, <1>6, <1>7, ReadyQueuesAssumption
  <2>3. QED  BY <1>1, <2>1, <2>2 DEF HandsOK
<1>9. QED  BY <1>3, <1>5, <1>8 DEF Lists

\* A DTB that is preempted or unlocked comes into the PCP's hands.
LEMMA PCPUnlocksLists ==
  ASSUME Rules, Lists, NEW d \in DTBs, PCPUnlocksPreempted(d) \/ PCPUnlocks(d) PROVE Lists'
<1>1. ioOperations \in [DTBs -> Nat] /\ quantumRemainder \in [DTBs -> Nat]
  BY DEF Lists, NumbersOK
<1>2. /\ quantumRemainder' = [quantumRemainder EXCEPT ![d] = 0] \/ UNCHANGED quantumRemainder
      /\ ioOperations' = [ioOperations EXCEPT ![d] = @ + 1] \/ UNCHANGED ioOperations
      /\ pcp.at = "works" /\ place[d] # "ready" /\ PCPAdds(d)
  BY DEF PCPUnlocksPreempted, PCPUnlocks
<1>3. NumbersOK'
  BY <1>1, <1>2 DEF NumbersOK
<1>4. QED  BY <1>2, <1>3, PCPAddsLists

\* The PCP puts it in the list of its cycle.
LEMMA PCPInsertsLists ==
  ASSUME Rules, Lists, PCPInserts
  PROVE  /\ Lists'
         /\ \A a \in Algorithms \ {pcp.name} : ready'[a] = ready[a]
         /\ ToSet(ready'[pcp.name]) = ToSet(ready[pcp.name]) \cup {pcp.dtb}
<1>1. /\ pcp.at = "adds" /\ Inserts(pcp.name, pcp.dtb) /\ plp' = plp
      /\ pcp'.at = "waits" /\ pcp'.dtb = None
      /\ UNCHANGED <<arrived, place, quantumRemainder, ioOperations>>
  BY DoneOf DEF PCPInserts, dtbs
<1>2. /\ HandsOK /\ NumbersOK /\ pcp.dtb \in DTBs /\ place[pcp.dtb] = "ready"
      /\ ListsOK(ready, arrived, place, {plp, pcp.dtb}, behind)
  BY <1>1 DEF Lists, HandsOK
<1>3. PICK h : h = {plp', pcp'.dtb}
  OBVIOUS
<1>4. InHands(h, {plp, pcp.dtb}, pcp.dtb)
  BY <1>1, <1>2, <1>3, ReadyQueuesAssumption DEF InHands, HandsOK
<1>5. pcp.name \in Algorithms
  BY PcpOf
<1>6. /\ ListsOK(ready', arrived', place', h, behind')
      /\ \A a \in Algorithms \ {pcp.name} : ready'[a] = ready[a]
      /\ ToSet(ready'[pcp.name]) = ToSet(ready[pcp.name]) \cup {pcp.dtb}
  BY <1>1, <1>2, <1>4, <1>5, IsInserted
<1>7. HandsOK'
  BY <1>1, <1>2 DEF HandsOK
<1>8. NumbersOK'
  BY <1>1, <1>2 DEF NumbersOK
<1>9. QED  BY <1>3, <1>6, <1>7, <1>8 DEF Lists

\* A DTB that ends was in no list, or leaves the list of the cycle.
LEMMA PCPEndsLists == ASSUME Rules, Lists, NEW d \in DTBs, PCPEnds(d) PROVE Lists'
<1>1. /\ pcp.at = "works" /\ Done /\ UNCHANGED <<plp, quantumRemainder, ioOperations>>
      /\ place' = [place EXCEPT ![d] = "exit"] /\ quantumRemainder' \in [DTBs -> Nat]
  BY DEF PCPEnds, Lists, NumbersOK
<1>2. CASE place[d] \in {"exec", "blocked"} /\ UNCHANGED <<lists, behind>>
  BY <1>1, <1>2, ElsewhereLists
<1>3. CASE Contains(ready[pcp.name], d) /\ Leaves(pcp.name, d)
  <2>1. d \in ToSet(ready[pcp.name])
    BY <1>3 DEF Contains, ToSet
  <2>2. QED  BY <1>1, <1>3, <2>1, LeavesLists
<1>4. QED  BY <1>2, <1>3 DEF PCPEnds

\* Every step keeps the lists.
LEMMA ListsStep == ASSUME Rules, Lists, AtHome, [Next]_vars PROVE Lists'
<1>1. CASE UNCHANGED vars
  BY <1>1, NobodyMoves DEF vars
<1>2. CASE Next
  BY <1>2, FileIsWrittenLists, UpdateSettingsLists, PLPStampsLists, PLPInsertsLists,
     PCPCopiesLists, PCPMovesLists, PCPClearsLists, PCPCannotScheduleLists, PCPDispatchesLists,
     PCPBlocksLists, PCPUnlocksLists, PCPInsertsLists, PCPEndsLists DEF Next, Releases
<1>3. QED  BY <1>1, <1>2

-----------------------------------------------------------------------------
(***************************************************************************)
(* Whoever was not left behind is at home.                                 *)
(***************************************************************************)

\* A step that gives no list a DTB, and does not change the list of the present policy.
LEMMA NobodyComes ==
  ASSUME AtHome, Home' = Home,
         \A a \in Algorithms : ToSet(ready'[a]) \ behind' \subseteq ToSet(ready[a]) \ behind
  PROVE  AtHome'
BY DEF AtHome

\* A DTB that comes to a list is at home, or left behind.
LEMMA OneComes ==
  ASSUME AtHome, Rules, NEW name \in Algorithms, NEW d, Inserts(name, d), Home' = Home,
         \A a \in Algorithms \ {name} : ready'[a] = ready[a],
         ToSet(ready'[name]) = ToSet(ready[name]) \cup {d}
  PROVE  AtHome'
<1>1. behind' = IF name = Home THEN behind ELSE behind \cup {d}
  BY DEF Inserts
<1>2. ASSUME NEW a \in Algorithms, NEW e \in ToSet(ready'[a]) \ behind' PROVE a = Home
  <2>1. CASE e \in ToSet(ready[a])
    BY <1>1, <1>2, <2>1 DEF AtHome
  <2>2. CASE e \notin ToSet(ready[a])
    <3>1. a = name /\ e = d
      BY <1>2, <2>2
    <3>2. QED  BY <1>1, <1>2, <3>1
  <2>3. QED  BY <2>1, <2>2
<1>3. QED  BY <1>2 DEF AtHome

\* A DTB that leaves its list.
LEMMA OneGoes ==
  ASSUME AtHome, Home' = Home, NEW d, behind' = behind \ {d},
         \A a \in Algorithms : ToSet(ready'[a]) = ToSet(ready[a]) \ {d}
  PROVE  AtHome'
BY NobodyComes

\* Moving the lists: the list that the policy will take becomes the list that it takes.
LEMMA PCPMovesAtHome == ASSUME Rules, Lists, AtHome, PCPMoves PROVE AtHome'
<1>1. /\ pcp.at = "moves" /\ pcp' = [pcp EXCEPT !.at = "clears"] /\ settings' = settings
      /\ ready' = Moved(pcp.change)
      /\ behind' = IF Home = None \/ pcp.change = <<"PROPIO", "VRR">>
                   THEN behind \cup Queued ELSE behind
  BY DEF PCPMoves, rules
<1>2. PICK old \in Algorithms, new \in Algorithms :
        old # new /\ pcp.change = <<old, new>> /\ old = pcp.change[1] /\ new = pcp.change[2]
  BY <1>1, PcpOf
<1>3. pcp'.at = "clears"
  BY <1>1, PcpOf
<1>4. Home' = settings.algorithm
  BY <1>1, <1>3 DEF Home
<1>5. /\ InLists(ready') \subseteq InLists(ready)
      /\ <<old, new>> # <<"PROPIO", "VRR">> =>
           /\ ToSet(ready'[old]) = {}
           /\ \A a \in Algorithms \ {old, new} : ready'[a] = ready[a]
  BY <1>1, <1>2, MovedOf
<1>6. CASE Home = None \/ pcp.change = <<"PROPIO", "VRR">>
  <2>1. \A a \in Algorithms : ToSet(ready'[a]) \subseteq behind'
    <3>1. InLists(ready) \subseteq behind'
      BY <1>1, <1>6 DEF Queued, InLists
    <3>2. QED  BY <1>5, <3>1, InListsOf
  <2>2. QED  BY <2>1 DEF AtHome
<1>7. CASE ~(Home = None \/ pcp.change = <<"PROPIO", "VRR">>)
  <2>1. Home = old /\ new = settings.algorithm /\ behind' = behind
    BY <1>1, <1>2, <1>7 DEF Home
  <2>2. ASSUME NEW a \in Algorithms, NEW e \in ToSet(ready'[a]) \ behind PROVE a = new
    <3>1. a # old
      BY <1>2, <1>5, <1>7, <2>2
    <3>2. CASE a \notin {old, new}
      <4>1. e \in ToSet(ready[a]) \ behind
        BY <1>2, <1>5, <1>7, <2>2, <3>2
      <4>2. QED  BY <2>1, <3>2, <4>1 DEF AtHome
    <3>3. QED  BY <3>1, <3>2
  <2>3. QED  BY <1>4, <2>1, <2>2 DEF AtHome
<1>8. QED  BY <1>6, <1>7

\* Every step keeps everybody at home whom it does not leave behind.
LEMMA HomeStep == ASSUME Rules, Lists, AtHome, [Next]_vars PROVE AtHome'
<1>1. ASSUME UNCHANGED <<ready, behind>>, Home' = Home PROVE AtHome'
  BY <1>1, NobodyComes
<1>2. ASSUME UNCHANGED <<ready, behind, rules>>, pcp' = pcp PROVE AtHome'
  BY <1>1, <1>2, HomeStays
<1>3. ASSUME UNCHANGED <<ready, behind, rules>>, pcp.at = "works",
             pcp'.at \in {"waits", "adds"}
      PROVE  AtHome'
  BY <1>1, <1>3, HomeStays
<1>4. CASE (\E s \in Files : FileIsWritten(s)) \/ ModifiedAgain \/ \E d \in DTBs : PLPStamps(d)
  BY <1>2, <1>4 DEF FileIsWritten, ModifiedAgain, PLPStamps, lists
<1>5. CASE UpdateSettings
  <2>1. ready' = ready /\ behind \subseteq behind' /\ (Home' = Home \/ Queued \subseteq behind')
    BY <1>5, HomeWhenRead DEF UpdateSettings, lists
  <2>2. CASE Home' = Home
    BY <2>1, <2>2, NobodyComes
  <2>3. CASE Queued \subseteq behind'
    <3>1. \A a \in Algorithms : ToSet(ready'[a]) \subseteq behind'
      BY <2>1, <2>3 DEF Queued
    <3>2. QED  BY <3>1 DEF AtHome
  <2>4. QED  BY <2>1, <2>2, <2>3
<1>6. CASE PLPInserts
  <2>1. Inserts(settings.algorithm, plp) /\ UNCHANGED rules /\ pcp' = pcp
    BY <1>6 DEF PLPInserts
  <2>2. settings.algorithm \in Algorithms
    BY PcpOf
  <2>3. QED  BY <1>6, <2>1, <2>2, PLPInsertsLists, HomeStays, OneComes
<1>7. CASE PCPCopies
  BY <1>1, <1>7, HomeAtTheStart DEF PCPCopies, lists
<1>8. CASE PCPMoves
  BY <1>8, PCPMovesAtHome
<1>9. CASE PCPClears
  <2>1. /\ pcp.at = "clears" /\ pcp'.at = "works" /\ settings' = settings
        /\ algorithmChange' = Unaltered /\ UNCHANGED <<ready, behind>>
    BY <1>9, PcpOf DEF PCPClears, lists
  <2>2. Home' = Home
    BY <2>1 DEF Home
  <2>3. QED  BY <1>1, <2>1, <2>2
<1>10. CASE PCPCannotSchedule \/ \E d \in DTBs, left \in Leftovers : PCPBlocks(d, left)
  BY <1>3, <1>10, DoneOf DEF PCPCannotSchedule, PCPBlocks, lists
<1>11. CASE \E d \in DTBs : PCPUnlocksPreempted(d) \/ PCPUnlocks(d)
  BY <1>3, <1>11, PCPAddsOf DEF PCPUnlocksPreempted, PCPUnlocks, PCPAdds
<1>12. ASSUME NEW d, NEW p \in {"exec", "exit"}, place' = [place EXCEPT ![d] = p],
              d \in ToSet(ready[pcp.name]), Leaves(pcp.name, d), pcp.at = "works", Done,
              UNCHANGED <<rules, plp, ioOperations>>, quantumRemainder' \in [DTBs -> Nat]
       PROVE  AtHome'
  <2>1. \A a \in Algorithms : ToSet(ready'[a]) = ToSet(ready[a]) \ {d}
    BY <1>12, LeavesLists
  <2>2. pcp'.at = "waits"
    BY <1>12, DoneOf
  <2>3. Home' = Home
    BY <1>12, <2>2, HomeStays
  <2>4. QED  BY <1>12, <2>1, <2>3, OneGoes DEF Leaves
<1>13. CASE PCPDispatches
  <2>1. Chosen \in ToSet(ready[pcp.name])
    BY <1>13, ChosenOf DEF PCPDispatches
  <2>2. quantumRemainder' \in [DTBs -> Nat]
    BY <1>13, HeunOf, PcpOf DEF PCPDispatches, Lists, NumbersOK
  <2>3. QED  BY <1>12, <1>13, <2>1, <2>2 DEF PCPDispatches
<1>14. CASE PCPInserts
  <2>1. Inserts(pcp.name, pcp.dtb) /\ UNCHANGED rules /\ pcp.at = "adds" /\ pcp'.at = "waits"
    BY <1>14, DoneOf DEF PCPInserts
  <2>2. pcp.name \in Algorithms
    BY PcpOf
  <2>3. Home' = Home
    BY <2>1, HomeStays
  <2>4. QED  BY <1>14, <2>1, <2>2, <2>3, PCPInsertsLists, OneComes
<1>15. ASSUME NEW d \in DTBs, PCPEnds(d) PROVE AtHome'
  <2>1. /\ pcp.at = "works" /\ Done /\ UNCHANGED <<rules, plp, ioOperations>>
        /\ place' = [place EXCEPT ![d] = "exit"] /\ quantumRemainder' \in [DTBs -> Nat]
    BY <1>15 DEF PCPEnds, Lists, NumbersOK
  <2>2. CASE UNCHANGED <<lists, behind>>
    BY <1>3, <2>1, <2>2, DoneOf DEF lists
  <2>3. CASE Contains(ready[pcp.name], d) /\ Leaves(pcp.name, d)
    <3>1. d \in ToSet(ready[pcp.name])
      BY <2>3 DEF Contains, ToSet
    <3>2. QED  BY <1>12, <2>1, <2>3, <3>1
  <2>4. QED  BY <1>15, <2>2, <2>3 DEF PCPEnds
<1>16. CASE UNCHANGED vars
  BY <1>2, <1>16 DEF vars, lists
<1>17. QED
  BY <1>4, <1>5, <1>6, <1>7, <1>8, <1>9, <1>10, <1>11, <1>13, <1>14, <1>15, <1>16
     DEF Next, Releases

\* Everybody is at home: who was not left behind is not stranded.
LEMMA AtHomeNotStranded == ASSUME Rules, AtHome PROVE NobodyStranded
<1>1. ASSUME NEW a \in Algorithms, a = Home
      PROVE  \/ a = settings.algorithm
             \/ algorithmChange = <<a, settings.algorithm>>
             \/ pcp.at = "moves" /\ pcp.change = <<a, settings.algorithm>>
  <2>1. CASE pcp.at = "moves"
    <3>1. a # None
      BY ReadyQueuesAssumption
    <3>2. a = pcp.change[1] /\ pcp.change[2] = settings.algorithm
      BY <1>1, <2>1, <3>1 DEF Home
    <3>3. QED  BY <2>1, <3>2, PcpOf
  <2>2. CASE pcp.at # "moves" /\ (pcp.at = "clears" \/ algorithmChange = Unaltered)
    BY <1>1, <2>2 DEF Home
  <2>3. CASE pcp.at \notin {"moves", "clears"} /\ algorithmChange # Unaltered
    <3>1. a = algorithmChange[1] /\ algorithmChange[2] = settings.algorithm
      BY <1>1, <2>3 DEF Home, Rules, ChangePending
    <3>2. algorithmChange \in Algorithms \X Algorithms
      BY <2>3 DEF Rules, RulesTyped, Changes
    <3>3. QED  BY <3>1, <3>2
  <2>4. QED  BY <2>1, <2>2, <2>3
<1>2. QED  BY <1>1 DEF AtHome, NobodyStranded

\* A DTB has one place in the lists if it is in one, and none otherwise.
LEMMA PlacesOf ==
  ASSUME Lists, NEW d \in DTBs
  PROVE  Cardinality(Places(d)) = IF d \in InLists(ready) THEN 1 ELSE 0
<1>1. PICK P : P = Places(d)
  OBVIOUS
<1>2. /\ Neat(ready) /\ Apart(ready)
      /\ \A a \in Algorithms : ready[a] \in Seq(DTBs) /\ Once(ready[a])
  BY DEF Lists, ListsOK, Neat
<1>3. \A a \in Algorithms : /\ DOMAIN ready[a] = 1..Len(ready[a])
                            /\ d \in ToSet(ready[a]) <=> \E i \in 1..Len(ready[a]) : ready[a][i] = d
  BY <1>2, MembersOf
<1>4. \A w : w \in P <=> \E a \in Algorithms : \E i \in 1..Len(ready[a]) :
                            ready[a][i] = d /\ w = <<a, i>>
  BY <1>1, <1>3 DEF Places
<1>5. CASE d \in InLists(ready)
  <2>1. PICK a \in Algorithms : d \in ToSet(ready[a])
    BY <1>5, InListsOf
  <2>2. PICK i \in 1..Len(ready[a]) : ready[a][i] = d
    BY <1>3, <2>1
  <2>3. ASSUME NEW b \in Algorithms, NEW j \in 1..Len(ready[b]), ready[b][j] = d
        PROVE  b = a /\ j = i
    <3>1. d \in ToSet(ready[b])
      BY <1>3, <2>3
    <3>2. b = a
      BY <1>2, <2>1, <3>1 DEF Apart
    <3>3. QED  BY <1>2, <2>2, <2>3, <3>2 DEF Once
  <2>4. P = {<<a, i>>}
    BY <1>4, <2>2, <2>3
  <2>5. QED  BY <1>1, <1>5, <2>4, FS_Singleton
<1>6. CASE d \notin InLists(ready)
  <2>1. \A a \in Algorithms : d \notin ToSet(ready[a])
    BY <1>6, InListsOf
  <2>2. P = {}
    BY <1>3, <1>4, <2>1
  <2>3. QED  BY <1>1, <1>6, <2>2, FS_EmptySet
<1>7. QED  BY <1>5, <1>6

\* Where the lists are as Lists says, a READY DTB is once in one.
LEMMA ListsHaveReadyOnce == Lists => ReadyOnce
<1> SUFFICES ASSUME Lists, NEW d \in DTBs
             PROVE  Cardinality(Places(d)) \in
                      IF d \notin Added THEN {0} ELSE IF d \in behind THEN {0, 1} ELSE {1}
  BY DEF ReadyOnce
<1>1. /\ d \in InLists(ready) => d \in Added
      /\ d \in Added /\ d \notin behind => d \in InLists(ready)
  BY DEF Lists, ListsOK, ReadyIn, Added
<1>2. Cardinality(Places(d)) = IF d \in InLists(ready) THEN 1 ELSE 0
  BY PlacesOf
<1>3. QED  BY <1>1, <1>2

\* A DTB goes to a CPU only when it is chosen.
LEMMA OnlyDispatched ==
  ASSUME Lists, [Next]_vars, NEW d \in DTBs, place[d] = "ready", place'[d] = "exec"
  PROVE  PCPDispatches /\ d = Chosen
<1>1. place \in [DTBs -> {"loading", "ready", "exec", "blocked", "exit"}]
  BY DEF Lists, ListsOK
<1>2. /\ place' # place
      /\ \A e \in DTBs, p \in {"ready", "blocked", "exit"} : place' # [place EXCEPT ![e] = p]
  BY <1>1
<1>3. PCPDispatches
  BY <1>2 DEF Next, vars, dtbs, Releases, FileIsWritten, ModifiedAgain, UpdateSettings, PLPStamps, PLPInserts,
              PCPCopies, PCPMoves, PCPClears, PCPCannotSchedule, PCPBlocks, PCPUnlocksPreempted,
              PCPUnlocks, PCPAdds, PCPInserts, PCPEnds
<1>4. QED  BY <1>1, <1>3 DEF PCPDispatches

\* Whoever the PCP takes that was not left behind is at home, and so are the others.
LEMMA AllInOneList ==
  ASSUME Rules, AtHome, NEW d \in ToSet(ready[pcp.name]) \ behind
  PROVE  Queued \ behind \subseteq ToSet(ready[pcp.name])
<1>1. pcp.name \in Algorithms
  BY PcpOf
<1>2. pcp.name = Home
  BY <1>1 DEF AtHome
<1>3. QED  BY <1>2 DEF AtHome, Queued

\* The dispatch keeps its promise.
LEMMA DispatchPromises ==
  ASSUME Rules, Lists, AtHome, PCPDispatches, Chosen \notin behind
  PROVE  Promised(Chosen)
<1>1. PICK d : d = Chosen
  OBVIOUS
<1>2. /\ pcp.at = "works" /\ pcp.name \in Algorithms /\ pcp.quantum \in Nat \ {0}
      /\ Queued \ behind \subseteq ToSet(ready[pcp.name]) /\ ~NoReadyDTBs(pcp.name)
      /\ d \in ToSet(ready[pcp.name])
  BY <1>1, AllInOneList, ChosenOf, PcpOf DEF PCPDispatches
<1>3. /\ ioOperations \in [DTBs -> Nat] /\ quantumRemainder \in [DTBs -> Nat]
      /\ Listing(arrived) /\ Queued \subseteq DTBs /\ Queued \subseteq ToSet(arrived)
  <2>1. Queued \subseteq ReadyIn(place)
    BY DEF Lists, ListsOK, Queued, InLists
  <2>2. QED  BY <2>1 DEF Lists, NumbersOK, ListsOK, ReadyIn
<1>4. d \in Queued
  BY <1>2 DEF Queued
<1>5. /\ pcp.name = "VRR" => quantumRemainder' = Heun
      /\ pcp.name # "VRR" => quantumRemainder' = [quantumRemainder EXCEPT ![d] = pcp.quantum]
  BY <1>1 DEF PCPDispatches
<1>6. quantumRemainder'[d] \in 1..pcp.quantum
  <2>1. CASE pcp.name = "VRR"
    BY <1>2, <1>4, <1>5, <2>1, HeunOf
  <2>2. CASE pcp.name # "VRR"
    <3>1. quantumRemainder'[d] = pcp.quantum
      BY <1>3, <1>4, <1>5, <2>2
    <3>2. QED  BY <1>2, <3>1
  <2>3. QED  BY <2>1, <2>2
<1>7. ASSUME pcp.name = "PROPIO", NEW e \in Queued \ behind
      PROVE  \/ ioOperations[e] < ioOperations[d]
             \/ ioOperations[e] = ioOperations[d] /\ Position(d) <= Position(e)
  <2>1. Ahead(ready["PROPIO"], d) = {}
    BY <1>1, <1>2, <1>7, ChosenOf
  <2>2. ~DescendantPriority(e, d)
    BY <1>2, <1>7, <2>1 DEF Ahead
  <2>3. Position(d) \in Nat /\ Position(e) \in Nat
    <3>1. Len(arrived) \in Nat
      BY <1>3, MembersOf DEF Listing
    <3>2. QED  BY <1>3, <1>4, <3>1, PositionFound DEF Position
  <2>4. ioOperations[d] \in Nat /\ ioOperations[e] \in Nat
    BY <1>3, <1>4
  <2>5. QED  BY <2>2, <2>3, <2>4 DEF DescendantPriority
<1>8. ASSUME pcp.name = "VRR", quantumRemainder'[d] = pcp.quantum, NEW e \in Queued \ behind
      PROVE  quantumRemainder[e] = 0 \/ quantumRemainder[e] >= pcp.quantum
  <2>1. Heun[d] = pcp.quantum
    BY <1>5, <1>8
  <2>2. \A f \in ToSet(ready["VRR"]) : Heun[f] = pcp.quantum
    BY <1>1, <1>2, <1>8, <2>1, ChosenOf
  <2>3. QED  BY <1>2, <1>8, <2>2, HeunOf
<1>9. QED  BY <1>1, <1>6, <1>7, <1>8 DEF Promised

\* Any step that takes a DTB to a CPU keeps the promise.
LEMMA PolicyStep ==
  ASSUME Rules, Lists, AtHome, [Next]_vars, NEW d \in Queued \ behind, place'[d] = "exec"
  PROVE  Promised(d)
<1>1. d \in DTBs /\ place[d] = "ready"
  <2>1. Queued \subseteq ReadyIn(place)
    BY DEF Lists, ListsOK, Queued, InLists
  <2>2. QED  BY <2>1 DEF ReadyIn
<1>2. PCPDispatches /\ d = Chosen
  BY <1>1, OnlyDispatched
<1>3. QED  BY <1>2, DispatchPromises

\* The invariant of the lists and of the changes of policy.
IInv == Rules /\ Lists /\ AtHome

\* It holds at the start and every step keeps it.
LEMMA Inductive == (Init => IInv) /\ (IInv /\ [Next]_vars => IInv')
<1>1. Init => IInv
  BY RulesInit, ListsInit DEF IInv
<1>2. IInv /\ [Next]_vars => IInv'
  BY RulesStep, ListsStep, HomeStep DEF IInv
<1>3. QED  BY <1>1, <1>2

\* A change of policy leaves no DTB in a list that nobody reads (MoveQueues, SAFA/Scheduling.c),
\* whenever the file is written and whenever a script is loaded, but for those that a collision
\* of two changes, of a change and an insertion, or the change from the own policy to virtual
\* round robin left behind.
THEOREM StrandedInvariant == Spec => []NobodyStranded
<1>1. IInv => NobodyStranded
  BY AtHomeNotStranded DEF IInv
<1>2. QED  BY <1>1, Inductive, PTL DEF Spec

\* A READY DTB is once in one of the three lists (AddToReady and MoveQueues of SAFA/Scheduling.c
\* neither lose nor copy it), unless it was left behind: a planner may have it in its hands.
THEOREM ReadyOnceInvariant == Spec => []ReadyOnce
<1>1. IInv => ReadyOnce
  BY ListsHaveReadyOnce DEF IInv
<1>2. QED  BY <1>1, Inductive, PTL DEF Spec

\* Whoever ScheduleRR, ScheduleVRR or ScheduleIOBF takes (SAFA/Scheduling.c) is whom the policy
\* promises to take among all the READY DTBs that were not left behind, with the quantum it
\* promises.
THEOREM PolicyKeptProperty == Spec => PolicyKept
<1>1. IInv /\ [Next]_vars => [\A d \in Queued \ behind : place'[d] = "exec" => Promised(d)]_vars
  BY PolicyStep DEF IInv
<1>2. QED  BY <1>1, Inductive, PTL DEF Spec, PolicyKept
=============================================================================
