--------------------------- MODULE Resources_proofs ---------------------------
(***************************************************************************)
(* What holds of the resources for any DTBs, resources, scripts and number *)
(* of "finalizar" commands: the books balance (Ledger) and a DTB waits for *)
(* one resource at a time and once (WaitsOnce), whether or not the scripts *)
(* signal only what they keep.                                             *)
(***************************************************************************)
EXTENDS Resources, TLAPS, FiniteSetTheorems, SequenceTheorems

-----------------------------------------------------------------------------
(***************************************************************************)
(* The inductive invariant.                                                *)
(***************************************************************************)

\* The executions of SignalForResource and of the handlers: the jobs and the PCP.
Running == jobs \cup {pcp}
AllCallers == Callers(Ops \cup {"EXIT"}, Places \cup {"wait", "next"})

\* The callers of a kind at a place, with a resource; InFlight counts those that run.
Are(op, at, r) == {s \in AllCallers : s.op \in op /\ s.at \in at /\ s.res = r}

\* The messages that a sentence of a script sends.
Sentences == {"WAIT", "SIGNAL", "BLOCKDTB", "EOQUANTUM"}

\* A job knows its DTB and its resource, is at a place of its handler, and has found or
\* created the resource once it is past the look-up; n is the sentence it stands for.
JobOK(j) ==
    /\ j \in Callers(Ops, Places)
    /\ j.dtb \in DTBs
    /\ j.op \in {"WAIT", "SIGNAL", "BLOCKDTB"} => j.res \in Names
    /\ j.op = "WAIT" => j.at \in {"start", "create", "take", "grant"}
    /\ j.op = "SIGNAL" => j.at \in {"start", "create", "drop", "wake", "give", "post"}
    /\ j.op = "BLOCKDTB" => j.at \in {"start", "push", "post"}
    /\ j.op \in {"EOQUANTUM", "EOFORABORT", "FINALIZAR"} => j.at \in {"start", "post"}
    /\ j.at = "give" => j.to \in DTBs
    /\ j.at = "create" => j.res \notin Known
    /\ j.at \in {"take", "grant", "drop", "wake", "give"} => j.res \in resources
    /\ j.op \in Sentences => j.n > ops[j.dtb]

\* The same of the PCP.
PcpOK ==
    /\ pcp \in Callers({"EXIT"}, {"wait", "next", "wake", "give", "post"})
    /\ pcp.at # "wait" => pcp.dtb \in DTBs
    /\ pcp.at \in {"wake", "give", "post"} => pcp.res \in resources
    /\ pcp.at = "give" => pcp.to \in DTBs

\* No two jobs stand for one sentence.
OneJobASentence ==
    \A j, k \in jobs : j.op \in Sentences /\ k.op \in Sentences
                       /\ j.dtb = k.dtb /\ j.n = k.n => j = k

\* What is counted is finite, and nobody keeps what is not in the table.
BooksOK ==
    /\ IsFiniteSet(jobs)
    /\ Known \subseteq resources
    /\ \A r \in Names : IsFiniteSet(Instances(r))
    /\ \A d \in DTBs, r \in Names : kept[d][r] > 0 => r \in resources

\* Every task of the PCP, posted or about to be, has its DTB in the list of its kind.
Occurrences(s, e) == Cardinality({i \in 1 .. Len(s) : s[i] = e})
Posting(op) == {s \in AllCallers : s.op \in op /\ s.at = "post"}
Covered(T, t, R, op, L) == Occurrences(T, t) + Cardinality(R \cap Posting(op)) <= Len(L)
TasksHaveData ==
    /\ Covered(PCPtasks, "BLOCK", Running, {"BLOCKDTB"}, toBeBlocked)
    /\ Covered(PCPtasks, "UNLOCK", Running, {"SIGNAL", "EXIT", "EOQUANTUM"}, toBeUnlocked)
    /\ Covered(PCPtasks, "END", Running, {"EOFORABORT", "FINALIZAR"}, toBeEnded)

\* A caller that holds the turn of d: what it does next with d is to let its CPU go on,
\* to queue it as a waiter, or to have it unlocked.
Holds(s, d) ==
    \/ s.op = "WAIT" /\ s.dtb = d
    \/ s.op \in {"BLOCKDTB", "EOQUANTUM"} /\ s.at = "start" /\ s.dtb = d
    \/ s.at = "give" /\ s.to = d

HeldBy(R, d)   == \E s \in R : Holds(s, d)
QueuedIn(w, d) == \E r \in Names : \E i \in 1 .. Len(w[r]) : w[r][i] = d
GoingIn(u, d)  == \E i \in 1 .. Len(u) : u[i] = d

\* In no two hands, in no two places of the queues and of the list of those to be unlocked.
OneHolder(R) == \A d \in DTBs : \A s, u \in R : Holds(s, d) /\ Holds(u, d) => s = u
OnceQueued(w) ==
    \A r, q \in Names : \A i \in 1 .. Len(w[r]), k \in 1 .. Len(w[q]) :
        w[r][i] = w[q][k] => r = q /\ i = k
OnceGoing(u) == \A i, k \in 1 .. Len(u) : u[i] = u[k] => i = k

\* Whoever has the turn of d, the ready list p, its CPU c, a caller R, a queue of waiters w
\* or the list u of those to be unlocked, nobody else has it then.
Alone(d, p, c, R, w, u) ==
    /\ p[d] = "READY" =>
         c[d] # "running" /\ ~HeldBy(R, d) /\ ~QueuedIn(w, d) /\ ~GoingIn(u, d)
    /\ c[d] = "running" => ~HeldBy(R, d) /\ ~QueuedIn(w, d) /\ ~GoingIn(u, d)
    /\ HeldBy(R, d) => ~QueuedIn(w, d) /\ ~GoingIn(u, d)
    /\ QueuedIn(w, d) => ~GoingIn(u, d)

OneTurn ==
    /\ \A d \in DTBs : Alone(d, place, cpu, Running, waiters, toBeUnlocked)
    /\ OneHolder(Running) /\ OnceQueued(waiters) /\ OnceGoing(toBeUnlocked)

StateOK ==
    /\ TypeOK /\ PcpOK
    /\ \A j \in jobs : JobOK(j)
    /\ OneJobASentence /\ BooksOK /\ TasksHaveData

ResourcesInv == StateOK /\ OneTurn /\ Ledger

-----------------------------------------------------------------------------
(***************************************************************************)
(* Counting.                                                               *)
(***************************************************************************)

\* One element gives its place to another: a part neither belongs to counts the same.
LEMMA CountUntouched ==
  ASSUME NEW C, NEW s, NEW k, NEW S, s \notin S, k \notin S
  PROVE  Cardinality(((C \ {s}) \cup {k}) \cap S) = Cardinality(C \cap S)
<1>1. ((C \ {s}) \cup {k}) \cap S = C \cap S
  OBVIOUS
<1>2. QED  BY <1>1

\* One element leaves a finite set: what a part of it counts.
LEMMA CountRemoved ==
  ASSUME NEW C, IsFiniteSet(C), NEW s \in C, NEW S
  PROVE  /\ IsFiniteSet(C \ {s})
         /\ Cardinality(C \cap S) \in Nat /\ Cardinality((C \ {s}) \cap S) \in Nat
         /\ Cardinality((C \ {s}) \cap S) = Cardinality(C \cap S) - (IF s \in S THEN 1 ELSE 0)
<1>1. IsFiniteSet(C \ {s}) /\ IsFiniteSet(C \cap S) /\ IsFiniteSet((C \ {s}) \cap S)
  BY FS_RemoveElement, FS_Intersection
<1>2. Cardinality(C \cap S) \in Nat /\ Cardinality((C \ {s}) \cap S) \in Nat
  BY <1>1, FS_CardinalityType
<1>3. CASE s \in S
  <2>1. (C \ {s}) \cap S = (C \cap S) \ {s} /\ s \in C \cap S
    BY <1>3
  <2>2. Cardinality((C \cap S) \ {s}) = Cardinality(C \cap S) - 1
    BY <1>1, <2>1, FS_RemoveElement
  <2>3. QED  BY <1>1, <1>2, <1>3, <2>1, <2>2
<1>4. CASE s \notin S
  <2>1. (C \ {s}) \cap S = C \cap S
    BY <1>4
  <2>2. Cardinality((C \ {s}) \cap S) = Cardinality(C \cap S)
    BY <2>1
  <2>3. QED  BY <1>1, <1>2, <1>4, <2>2
<1>5. QED  BY <1>3, <1>4

\* One element comes into a finite set: what a part of it counts.
LEMMA CountAdded ==
  ASSUME NEW C, IsFiniteSet(C), NEW k, NEW S
  PROVE  /\ IsFiniteSet(C \cup {k})
         /\ Cardinality(C \cap S) \in Nat /\ Cardinality((C \cup {k}) \cap S) \in Nat
         /\ k \notin S => Cardinality((C \cup {k}) \cap S) = Cardinality(C \cap S)
<1>1. IsFiniteSet(C \cup {k}) /\ IsFiniteSet(C \cap S) /\ IsFiniteSet((C \cup {k}) \cap S)
  BY FS_AddElement, FS_Intersection
<1>2. Cardinality(C \cap S) \in Nat /\ Cardinality((C \cup {k}) \cap S) \in Nat
  BY <1>1, FS_CardinalityType
<1>3. k \notin S => (C \cup {k}) \cap S = C \cap S
  OBVIOUS
<1>4. QED  BY <1>1, <1>2, <1>3

\* One element gives its place to one that was not there.
LEMMA CountSwapped ==
  ASSUME NEW C, IsFiniteSet(C), NEW s \in C, NEW k, k \notin C \ {s}, NEW S
  PROVE  Cardinality(((C \ {s}) \cup {k}) \cap S)
           = Cardinality(C \cap S) - (IF s \in S THEN 1 ELSE 0) + (IF k \in S THEN 1 ELSE 0)
<1>1. PICK E : E = C \ {s}
  OBVIOUS
<1>2. /\ IsFiniteSet(E) /\ Cardinality(C \cap S) \in Nat /\ Cardinality(E \cap S) \in Nat
      /\ Cardinality(E \cap S) = Cardinality(C \cap S) - (IF s \in S THEN 1 ELSE 0)
  BY <1>1, CountRemoved
<1>3. Cardinality((E \cup {k}) \cap S) = Cardinality(E \cap S) + (IF k \in S THEN 1 ELSE 0)
  <2>1. CASE k \in S
    <3>1. (E \cup {k}) \cap S = (E \cap S) \cup {k} /\ k \notin E \cap S
      BY <1>1, <2>1
    <3>2. IsFiniteSet(E \cap S)
      BY <1>2, FS_Intersection
    <3>3. Cardinality((E \cap S) \cup {k}) = Cardinality(E \cap S) + 1
      BY <3>1, <3>2, FS_AddElement
    <3>4. Cardinality((E \cup {k}) \cap S) = Cardinality((E \cap S) \cup {k})
      BY <3>1
    <3>5. QED  BY <2>1, <3>3, <3>4
  <2>2. CASE k \notin S
    <3>1. (E \cup {k}) \cap S = E \cap S
      BY <2>2
    <3>2. Cardinality((E \cup {k}) \cap S) = Cardinality(E \cap S)
      BY <3>1
    <3>3. QED  BY <1>2, <2>2, <3>2
  <2>3. QED  BY <2>1, <2>2
<1>4. QED
  <2>1. Cardinality((E \cup {k}) \cap S)
          = Cardinality(C \cap S) - (IF s \in S THEN 1 ELSE 0) + (IF k \in S THEN 1 ELSE 0)
    BY <1>2, <1>3
  <2>2. QED  BY <1>1, <2>1

\* One element gives its place to another, that may have been there.
LEMMA CountAtMost ==
  ASSUME NEW C, IsFiniteSet(C), NEW s \in C, NEW k, NEW S
  PROVE  Cardinality(((C \ {s}) \cup {k}) \cap S)
           <= Cardinality(C \cap S) - (IF s \in S THEN 1 ELSE 0) + (IF k \in S THEN 1 ELSE 0)
<1>1. /\ Cardinality(C \cap S) \in Nat /\ Cardinality((C \ {s}) \cap S) \in Nat
      /\ Cardinality((C \ {s}) \cap S) = Cardinality(C \cap S) - (IF s \in S THEN 1 ELSE 0)
  BY CountRemoved
<1>2. CASE k \in C \ {s}
  <2>1. (C \ {s}) \cup {k} = C \ {s}
    BY <1>2
  <2>2. Cardinality(((C \ {s}) \cup {k}) \cap S) = Cardinality((C \ {s}) \cap S)
    BY <2>1
  <2>3. QED  BY <1>1, <2>2
<1>3. CASE k \notin C \ {s}
  <2>1. Cardinality(((C \ {s}) \cup {k}) \cap S)
          = Cardinality(C \cap S) - (IF s \in S THEN 1 ELSE 0) + (IF k \in S THEN 1 ELSE 0)
    BY <1>3, CountSwapped
  <2>2. QED  BY <1>1, <2>1
<1>4. QED  BY <1>2, <1>3

\* How often something occurs in a sequence, when a value is appended to it.
LEMMA OccursAppend ==
  ASSUME NEW T, NEW s \in Seq(T), NEW x \in T, NEW e
  PROVE  /\ Occurrences(s, e) \in Nat
         /\ Occurrences(Append(s, x), e) = Occurrences(s, e) + (IF x = e THEN 1 ELSE 0)
<1> DEFINE O == {i \in 1 .. Len(s) : s[i] = e}
           a == Append(s, x)
           A == {i \in 1 .. Len(a) : a[i] = e}
<1>1. IsFiniteSet(O) /\ Cardinality(O) \in Nat
  <2>1. IsFiniteSet(1 .. Len(s)) /\ O \in SUBSET (1 .. Len(s))
    BY FS_Interval
  <2>2. QED  BY <2>1, FS_Subset, FS_CardinalityType
<1>2. /\ Len(s) \in Nat /\ Len(a) = Len(s) + 1 /\ a[Len(s) + 1] = x
      /\ \A i \in 1 .. Len(s) : a[i] = s[i]
  BY AppendProperties, LenProperties
<1>3. A = IF x = e THEN O \cup {Len(s) + 1} ELSE O
  <2> HIDE DEF a
  <2>1. 1 .. Len(a) = (1 .. Len(s)) \cup {Len(s) + 1}
    BY <1>2
  <2>2. QED  BY <1>2, <2>1
<1>4. Len(s) + 1 \notin O
  BY <1>2
<1>5. Cardinality(A) = Cardinality(O) + (IF x = e THEN 1 ELSE 0)
  <2> HIDE DEF A, O
  <2>1. CASE x = e
    <3>1. Cardinality(O \cup {Len(s) + 1}) = Cardinality(O) + 1
      BY <1>1, <1>4, FS_AddElement
    <3>2. QED  BY <1>3, <2>1, <3>1
  <2>2. CASE x # e
    <3>1. Cardinality(A) = Cardinality(O)
      BY <1>3, <2>2
    <3>2. QED  BY <1>1, <2>2, <3>1
  <2>3. QED  BY <2>1, <2>2
<1>6. QED  BY <1>1, <1>5 DEF Occurrences

\* How often something occurs in a sequence, when its head is taken.
LEMMA OccursTail ==
  ASSUME NEW T, NEW s \in Seq(T), s # <<>>, NEW e
  PROVE  /\ Occurrences(s, e) \in Nat
         /\ Occurrences(Tail(s), e) \in Nat
         /\ Occurrences(s, e) = Occurrences(Tail(s), e) + (IF Head(s) = e THEN 1 ELSE 0)
<1> DEFINE O == {i \in 1 .. Len(s) : s[i] = e}
           a == Tail(s)
           A == {i \in 1 .. Len(a) : a[i] = e}
           B == {i \in 2 .. Len(s) : s[i] = e}
           f == [i \in A |-> i + 1]
<1>1. IsFiniteSet(O) /\ Cardinality(O) \in Nat
  <2>1. IsFiniteSet(1 .. Len(s)) /\ O \in SUBSET (1 .. Len(s))
    BY FS_Interval
  <2>2. QED  BY <2>1, FS_Subset, FS_CardinalityType
<1>2. /\ Len(s) \in Nat \ {0} /\ a \in Seq(T) /\ Len(a) = Len(s) - 1 /\ s[1] = Head(s)
      /\ \A i \in 1 .. Len(a) : a[i] = s[i + 1]
  BY HeadTailProperties, LenProperties, EmptySeq
<1>3. IsFiniteSet(A) /\ Cardinality(A) \in Nat
  <2>1. IsFiniteSet(1 .. Len(a)) /\ A \in SUBSET (1 .. Len(a))
    BY <1>2, FS_Interval
  <2>2. QED  BY <2>1, FS_Subset, FS_CardinalityType
<1>4. ExistsBijection(A, B)
  <2> HIDE DEF a
  <2>1. f \in [A -> B]
    BY <1>2
  <2>2. \A i, k \in A : f[i] = f[k] => i = k
    BY <1>2
  <2>3. \A b \in B : \E i \in A : f[i] = b
    <3> TAKE b \in B
    <3>1. b - 1 \in A /\ f[b - 1] = b
      BY <1>2
    <3>2. QED  BY <3>1
  <2>4. f \in Bijection(A, B)
    BY <2>1, <2>2, <2>3 DEF Bijection, Injection, Surjection, IsInjective
  <2>5. QED  BY <2>4 DEF ExistsBijection
<1>5. IsFiniteSet(B) /\ Cardinality(B) = Cardinality(A)
  BY <1>3, <1>4, FS_Bijection
<1>6. O = IF Head(s) = e THEN B \cup {1} ELSE B
  <2>1. 1 .. Len(s) = (2 .. Len(s)) \cup {1}
    BY <1>2
  <2>2. QED  BY <1>2, <2>1
<1>7. 1 \notin B
  OBVIOUS
<1>8. Cardinality(O) = Cardinality(A) + (IF Head(s) = e THEN 1 ELSE 0)
  <2> HIDE DEF A, O, B
  <2>1. QED  BY <1>1, <1>3, <1>5, <1>6, <1>7, FS_AddElement
<1>9. QED  BY <1>1, <1>3, <1>8 DEF Occurrences

\* What occurs in a sequence occurs in it at least once.
LEMMA OccursHead ==
  ASSUME NEW T, NEW s \in Seq(T), s # <<>>
  PROVE  Occurrences(s, Head(s)) >= 1
<1>1. Occurrences(s, Head(s)) = Occurrences(Tail(s), Head(s)) + 1
      /\ Occurrences(Tail(s), Head(s)) \in Nat
  BY OccursTail
<1>2. QED  BY <1>1

\* An interval from 1, and the next one.
LEMMA IntervalGrows ==
  /\ \A n \in Nat : \A i : i \in 1 .. n + 1 <=> i \in 1 .. n \/ i = n + 1
  /\ \A n \in Nat : \A i : i \in 1 .. n - 1 <=> i \in 1 .. n /\ i # n
OBVIOUS

\* A DTB is given an instance of r: what is kept of each resource.
LEMMA KeepsMore ==
  ASSUME kept \in [DTBs -> [Names -> Nat]], NEW d \in DTBs, NEW r \in Names,
         kept' = [kept EXCEPT ![d][r] = @ + 1],
         NEW q \in Names, IsFiniteSet(Instances(q))
  PROVE  /\ IsFiniteSet(Instances(q)')
         /\ KeptOf(q) \in Nat /\ KeptOf(q)' \in Nat
         /\ KeptOf(q)' = KeptOf(q) + (IF q = r THEN 1 ELSE 0)
<1>1. CASE q = r
  <2>1. Instances(q)' = Instances(q) \cup {<<d, kept[d][r] + 1>>}
    <3>1. \A e \in DTBs : kept'[e][q] = IF e = d THEN kept[d][r] + 1 ELSE kept[e][q]
      BY <1>1
    <3>2. kept[d][r] \in Nat
      OBVIOUS
    <3>3. \A n \in Nat : \A i : i \in 1 .. n + 1 <=> i \in 1 .. n \/ i = n + 1
      BY IntervalGrows
    <3>4. QED  BY <1>1, <3>1, <3>2, <3>3 DEF Instances
  <2>2. <<d, kept[d][r] + 1>> \notin Instances(q)
    BY <1>1 DEF Instances
  <2>3. /\ IsFiniteSet(Instances(q) \cup {<<d, kept[d][r] + 1>>})
        /\ Cardinality(Instances(q) \cup {<<d, kept[d][r] + 1>>})
             = Cardinality(Instances(q)) + 1
    BY <2>2, FS_AddElement
  <2>4. Cardinality(Instances(q)) \in Nat
    BY FS_CardinalityType
  <2>5. QED  BY <1>1, <2>1, <2>3, <2>4 DEF KeptOf
<1>2. CASE q # r
  <2>1. \A e \in DTBs : kept'[e][q] = kept[e][q]
    BY <1>2
  <2>2. Instances(q)' = Instances(q)
    BY <2>1 DEF Instances
  <2>3. QED  BY <1>2, <2>2, FS_CardinalityType DEF KeptOf
<1>3. QED  BY <1>1, <1>2

\* A DTB gives one of its instances of r back: what is kept of each resource.
LEMMA KeepsLess ==
  ASSUME kept \in [DTBs -> [Names -> Nat]], NEW d \in DTBs, NEW r \in Names,
         kept[d][r] > 0, kept' = [kept EXCEPT ![d][r] = @ - 1],
         NEW q \in Names, IsFiniteSet(Instances(q))
  PROVE  /\ IsFiniteSet(Instances(q)')
         /\ KeptOf(q) \in Nat /\ KeptOf(q)' \in Nat
         /\ KeptOf(q)' = KeptOf(q) - (IF q = r THEN 1 ELSE 0)
<1>1. CASE q = r
  <2>1. Instances(q)' = Instances(q) \ {<<d, kept[d][r]>>}
    <3>1. \A e \in DTBs : kept'[e][q] = IF e = d THEN kept[d][r] - 1 ELSE kept[e][q]
      BY <1>1
    <3>2. kept[d][r] \in Nat
      OBVIOUS
    <3>3. \A n \in Nat : \A i : i \in 1 .. n - 1 <=> i \in 1 .. n /\ i # n
      BY IntervalGrows
    <3>4. QED  BY <1>1, <3>1, <3>2, <3>3 DEF Instances
  <2>2. <<d, kept[d][r]>> \in Instances(q)
    BY <1>1 DEF Instances
  <2>3. /\ IsFiniteSet(Instances(q) \ {<<d, kept[d][r]>>})
        /\ Cardinality(Instances(q) \ {<<d, kept[d][r]>>})
             = Cardinality(Instances(q)) - 1
    <3> DEFINE I == Instances(q)
               e == <<d, kept[d][r]>>
    <3> HIDE DEF I, e
    <3>1. IsFiniteSet(I) /\ e \in I
      BY <2>2 DEF I, e
    <3>2. IsFiniteSet(I \ {e}) /\ Cardinality(I \ {e}) = Cardinality(I) - 1
      BY <3>1, FS_RemoveElement
    <3>3. QED  BY <3>2 DEF I, e
  <2>4. Cardinality(Instances(q)) \in Nat /\ Cardinality(Instances(q)') \in Nat
    BY <2>1, <2>3, FS_CardinalityType
  <2>5. QED  BY <1>1, <2>1, <2>3, <2>4 DEF KeptOf
<1>2. CASE q # r
  <2>1. \A e \in DTBs : kept'[e][q] = kept[e][q]
    BY <1>2
  <2>2. Instances(q)' = Instances(q)
    BY <2>1 DEF Instances
  <2>3. QED  BY <1>2, <2>2, FS_CardinalityType DEF KeptOf
<1>3. QED  BY <1>1, <1>2

-----------------------------------------------------------------------------
(***************************************************************************)
(* SignalForResource, as its two callers execute it.                       *)
(***************************************************************************)

\* The steps of the job of a SIGNAL.
SigReturns(j) ==
    /\ j.at = "start" /\ j.res \in resources
    /\ availables' = [availables EXCEPT ![j.res] = @ + 1]
    /\ Becomes(j, "drop")
    /\ UNCHANGED <<resources, waiters, kept, toBeUnlocked, PCPtasks, supply>>
SigMisses(j) ==
    /\ j.at = "start" /\ j.res \notin resources
    /\ Becomes(j, "create")
    /\ UNCHANGED <<table, kept, toBeUnlocked, PCPtasks, supply>>
SigCreates(j) ==
    /\ j.at = "create"
    /\ AddNewResource(j.res)
    /\ Becomes(j, "drop")
    /\ UNCHANGED <<kept, toBeUnlocked, PCPtasks, supply>>
SigDropsKept(j) ==
    /\ j.at = "drop" /\ kept[j.dtb][j.res] > 0
    /\ kept' = [kept EXCEPT ![j.dtb][j.res] = @ - 1]
    /\ Becomes(j, "wake")
    /\ UNCHANGED <<table, toBeUnlocked, PCPtasks, supply>>
SigDropsNothing(j) ==
    /\ j.at = "drop"
    /\ supply' = [supply EXCEPT ![j.res] = @ + 1]
    /\ Becomes(j, "wake")
    /\ UNCHANGED <<table, kept, toBeUnlocked, PCPtasks>>
SigFindsNobody(j) ==
    /\ j.at = "wake" /\ waiters[j.res] = <<>>
    /\ Finished(j)
    /\ UNCHANGED <<table, kept, toBeUnlocked, PCPtasks, supply>>
SigWakes(j) ==
    /\ j.at = "wake" /\ waiters[j.res] # <<>>
    /\ waiters' = [waiters EXCEPT ![j.res] = Tail(@)]
    /\ jobs' = (jobs \ {j}) \cup {[j EXCEPT !.at = "give", !.to = Head(waiters[j.res])]}
    /\ UNCHANGED <<resources, availables, kept, toBeUnlocked, PCPtasks, supply>>
SigGives(j) ==
    /\ j.at = "give" /\ CanBeFound(j.to)
    /\ kept' = [kept EXCEPT ![j.to][j.res] = @ + 1]
    /\ toBeUnlocked' = Append(toBeUnlocked, j.to)
    /\ Becomes(j, "post")
    /\ UNCHANGED <<table, PCPtasks, supply>>
SigPosts(j) ==
    /\ j.at = "post"
    /\ PCPtasks' = Append(PCPtasks, "UNLOCK")
    /\ Finished(j)
    /\ UNCHANGED <<table, kept, toBeUnlocked, supply>>

\* A step of the job of a SIGNAL is one of them.
LEMMA SignalOfAJob ==
  ASSUME NEW j \in jobs, JobOK(j), Comms_CPU_SignalResource(j),
         kept \in [DTBs -> [Names -> Nat]]
  PROVE  /\ j.op = "SIGNAL" /\ j.dtb \in DTBs /\ j.res \in Names
         /\ UNCHANGED <<place, cpu, toBeBlocked, toBeEnded, pcp, failure, outside>>
         /\ \/ SigReturns(j) \/ SigMisses(j) \/ SigCreates(j) \/ SigDropsKept(j)
            \/ SigDropsNothing(j) \/ SigFindsNobody(j) \/ SigWakes(j) \/ SigGives(j)
            \/ SigPosts(j)
<1> DEFINE done == [j EXCEPT !.at = "done"]
<1>1. /\ j.op = "SIGNAL" /\ j.dtb \in DTBs /\ j.res \in Names
      /\ UNCHANGED <<place, cpu, toBeBlocked, toBeEnded, pcp, failure, outside>>
      /\ SignalForResource(j)
      /\ jobs' = (jobs \ {j}) \cup ({After(j)} \ {done})
  BY DEF JobOK, Comms_CPU_SignalResource
<1>2. \A a : [j EXCEPT !.at = a].at = a
  BY DEF JobOK, Callers
<1>3. ASSUME NEW a, a # "done", After(j) = [j EXCEPT !.at = a]
      PROVE  Becomes(j, a)
  <2>1. After(j) # done
    <3>1. [j EXCEPT !.at = a].at = a /\ [j EXCEPT !.at = "done"].at = "done"
      BY <1>2
    <3>2. QED  BY <1>3, <3>1
  <2>2. QED  BY <1>1, <1>3, <2>1 DEF Becomes
<1>4. ASSUME After(j) = done
      PROVE  Finished(j)
  BY <1>1, <1>4 DEF Finished
<1>5. CASE SignalReturns(j)
  <2>1. After(j) = [j EXCEPT !.at = "drop"]
    BY <1>1, <1>5 DEF SignalReturns, After
  <2>2. SigReturns(j)
    BY <1>1, <1>3, <1>5, <2>1 DEF SignalReturns, SigReturns
  <2>3. QED  BY <1>1, <2>2
<1>6. CASE SignalCreates(j)
  <2>1. CASE j.at = "start" /\ j.res \notin resources /\ UNCHANGED table
    <3>1. After(j) = [j EXCEPT !.at = "create"]
      BY <2>1 DEF After
    <3>2. SigMisses(j)
      BY <1>3, <1>6, <2>1, <3>1 DEF SignalCreates, SigMisses
    <3>3. QED  BY <1>1, <3>2
  <2>2. CASE j.at = "create" /\ AddNewResource(j.res)
    <3>1. After(j) = [j EXCEPT !.at = "drop"]
      BY <1>1, <2>2 DEF After
    <3>2. SigCreates(j)
      BY <1>3, <1>6, <2>2, <3>1 DEF SignalCreates, SigCreates
    <3>3. QED  BY <1>1, <3>2
  <2>3. QED  BY <1>6, <2>1, <2>2 DEF SignalCreates
<1>7. CASE SignalDrops(j)
  <2>1. After(j) = [j EXCEPT !.at = "wake"]
    BY <1>1, <1>7 DEF SignalDrops, After
  <2>2. SigDropsKept(j) \/ SigDropsNothing(j)
    BY <1>3, <1>7, <2>1 DEF SignalDrops, Keeps, SigDropsKept, SigDropsNothing
  <2>3. QED  BY <1>1, <2>2
<1>8. CASE SignalWakes(j)
  <2>1. CASE waiters[j.res] = <<>>
    <3>1. After(j) = done
      BY <1>1, <1>8, <2>1 DEF SignalWakes, After
    <3>2. SigFindsNobody(j)
      BY <1>4, <1>8, <2>1, <3>1 DEF SignalWakes, SigFindsNobody, table
    <3>3. QED  BY <1>1, <3>2
  <2>2. CASE waiters[j.res] # <<>>
    <3>1. After(j) = [j EXCEPT !.at = "give", !.to = Head(waiters[j.res])]
      BY <1>1, <1>8, <2>2 DEF SignalWakes, After
    <3>2. After(j).at = "give" /\ done.at = "done"
      BY <3>1 DEF JobOK, Callers
    <3>3. SigWakes(j)
      BY <1>1, <1>8, <2>2, <3>1, <3>2 DEF SignalWakes, SigWakes
    <3>4. QED  BY <1>1, <3>3
  <2>3. QED  BY <2>1, <2>2
<1>9. CASE SignalGives(j)
  <2>1. After(j) = [j EXCEPT !.at = "post"]
    BY <1>1, <1>9 DEF SignalGives, After
  <2>2. SigGives(j)
    BY <1>3, <1>9, <2>1 DEF SignalGives, SigGives
  <2>3. QED  BY <1>1, <2>2
<1>10. CASE SignalPosts(j)
  <2>1. After(j) = done
    BY <1>1, <1>10 DEF SignalPosts, After
  <2>2. SigPosts(j)
    BY <1>4, <1>10, <2>1 DEF SignalPosts, SigPosts
  <2>3. QED  BY <1>1, <2>2
<1>11. QED  BY <1>1, <1>5, <1>6, <1>7, <1>8, <1>9, <1>10 DEF SignalForResource

\* The steps of the PCP while it takes an ending DTB out of the system.
PcpSame == UNCHANGED <<resources, place, cpu, jobs, toBeBlocked, toBeEnded, failure,
                       outside, supply>>
PcpReturns(r) ==
    /\ pcp.at = "next" /\ kept[pcp.dtb][r] > 0
    /\ availables' = [availables EXCEPT ![r] = @ + 1]
    /\ kept' = [kept EXCEPT ![pcp.dtb][r] = @ - 1]
    /\ pcp' = [pcp EXCEPT !.at = "wake", !.res = r]
    /\ UNCHANGED <<waiters, toBeUnlocked, PCPtasks>>
PcpFindsNobody ==
    /\ pcp.at = "wake" /\ waiters[pcp.res] = <<>>
    /\ pcp' = [AtWait EXCEPT !.at = "next", !.dtb = pcp.dtb]
    /\ UNCHANGED <<waiters, availables, kept, toBeUnlocked, PCPtasks>>
PcpWakes ==
    /\ pcp.at = "wake" /\ waiters[pcp.res] # <<>>
    /\ waiters' = [waiters EXCEPT ![pcp.res] = Tail(@)]
    /\ pcp' = [pcp EXCEPT !.at = "give", !.to = Head(waiters[pcp.res])]
    /\ UNCHANGED <<availables, kept, toBeUnlocked, PCPtasks>>
PcpGives ==
    /\ pcp.at = "give" /\ CanBeFound(pcp.to)
    /\ kept' = [kept EXCEPT ![pcp.to][pcp.res] = @ + 1]
    /\ toBeUnlocked' = Append(toBeUnlocked, pcp.to)
    /\ pcp' = [pcp EXCEPT !.at = "post"]
    /\ UNCHANGED <<waiters, availables, PCPtasks>>
PcpPosts ==
    /\ pcp.at = "post"
    /\ PCPtasks' = Append(PCPtasks, "UNLOCK")
    /\ pcp' = [AtWait EXCEPT !.at = "next", !.dtb = pcp.dtb]
    /\ UNCHANGED <<waiters, availables, kept, toBeUnlocked>>

\* A step of SignalForResource in the PCP is one of them: what an ending DTB keeps is in
\* the table.
LEMMA SignalOfThePCP ==
  ASSUME StateOK, PCPSignals
  PROVE  /\ PcpSame
         /\ \/ \E r \in Names : PcpReturns(r)
            \/ PcpFindsNobody \/ PcpWakes \/ PcpGives \/ PcpPosts
<1>1. /\ pcp \in Callers({"EXIT"}, {"wait", "next", "wake", "give", "post"})
      /\ pcp.op = "EXIT"
      /\ pcp.at # "wait" => pcp.dtb \in DTBs
      /\ kept \in [DTBs -> [Names -> Nat]]
      /\ \A d \in DTBs, r \in Names : kept[d][r] > 0 => r \in resources
  BY DEF StateOK, PcpOK, TypeOK, BooksOK, Callers
<1>2. ASSUME NEW a
      PROVE  [pcp EXCEPT !.at = a].at = a
  BY <1>1 DEF Callers
<1>3. CASE \E r \in Names : /\ pcp.at = "next" /\ kept[pcp.dtb][r] > 0
                            /\ LET s == [pcp EXCEPT !.at = "start", !.res = r] IN
                                 /\ SignalForResource(s)
                                 /\ pcp' = IF After(s).at = "done"
                                             THEN [AtWait EXCEPT !.at = "next",
                                                                 !.dtb = pcp.dtb]
                                             ELSE After(s)
                            /\ UNCHANGED <<place, cpu, jobs, toBeBlocked, toBeEnded,
                                           failure, outside>>
  <2> DEFINE s(r) == [pcp EXCEPT !.at = "start", !.res = r]
  <2>1. PICK r \in Names :
           /\ pcp.at = "next" /\ kept[pcp.dtb][r] > 0
           /\ SignalForResource(s(r))
           /\ pcp' = IF After(s(r)).at = "done"
                       THEN [AtWait EXCEPT !.at = "next", !.dtb = pcp.dtb]
                       ELSE After(s(r))
           /\ UNCHANGED <<place, cpu, jobs, toBeBlocked, toBeEnded, failure, outside>>
    BY <1>3
  <2>2. /\ s(r).at = "start" /\ s(r).res = r /\ s(r).op = "EXIT" /\ s(r).dtb = pcp.dtb
        /\ r \in resources
    BY <1>1, <2>1 DEF Callers
  <2>3. After(s(r)) = [s(r) EXCEPT !.at = "wake"]
    BY <2>2 DEF After
  <2>4. [s(r) EXCEPT !.at = "wake"] = [pcp EXCEPT !.at = "wake", !.res = r]
        /\ [s(r) EXCEPT !.at = "wake"].at = "wake"
    BY <1>1 DEF Callers
  <2>5. SignalReturns(s(r))
    <3> HIDE DEF s
    <3>1. QED  BY <2>1, <2>2 DEF SignalForResource, SignalReturns, SignalCreates,
                  SignalDrops, SignalWakes, SignalGives, SignalPosts
  <2>6. PcpReturns(r) /\ PcpSame
    <3> HIDE DEF s
    <3>1. pcp' = [pcp EXCEPT !.at = "wake", !.res = r]
      BY <2>1, <2>3, <2>4
    <3>2. QED  BY <2>1, <2>2, <2>5, <3>1 DEF SignalReturns, PcpReturns, PcpSame
  <2>7. QED  BY <2>6
<1>4. CASE /\ SignalForResource(pcp)
           /\ pcp' = IF After(pcp).at = "done"
                       THEN [AtWait EXCEPT !.at = "next", !.dtb = pcp.dtb]
                       ELSE After(pcp)
           /\ UNCHANGED <<place, cpu, jobs, toBeBlocked, toBeEnded, failure, outside>>
  <2>1. pcp.at \in {"wait", "next", "wake", "give", "post"}
    BY <1>1 DEF Callers
  <2>2. pcp.at \in {"wake", "give", "post"}
    BY <1>4, <2>1 DEF SignalForResource, SignalReturns, SignalCreates, SignalDrops,
       SignalWakes, SignalGives, SignalPosts
  <2>3. CASE pcp.at = "wake" /\ waiters[pcp.res] = <<>>
    <3>1. After(pcp) = [pcp EXCEPT !.at = "done"]
      BY <2>3 DEF After
    <3>2. SignalWakes(pcp)
      BY <1>4, <2>3 DEF SignalForResource, SignalReturns, SignalCreates, SignalDrops,
         SignalWakes, SignalGives, SignalPosts
    <3>3. pcp' = [AtWait EXCEPT !.at = "next", !.dtb = pcp.dtb]
      BY <1>2, <1>4, <3>1
    <3>4. PcpFindsNobody /\ PcpSame
      BY <1>4, <2>3, <3>2, <3>3 DEF SignalWakes, PcpFindsNobody, PcpSame
    <3>5. QED  BY <3>4
  <2>4. CASE pcp.at = "wake" /\ waiters[pcp.res] # <<>>
    <3>1. After(pcp) = [pcp EXCEPT !.at = "give", !.to = Head(waiters[pcp.res])]
      BY <2>4 DEF After
    <3>2. SignalWakes(pcp)
      BY <1>4, <2>4 DEF SignalForResource, SignalReturns, SignalCreates, SignalDrops,
         SignalWakes, SignalGives, SignalPosts
    <3>3. [pcp EXCEPT !.at = "give", !.to = Head(waiters[pcp.res])].at = "give"
      BY <1>1 DEF Callers
    <3>4. pcp' = [pcp EXCEPT !.at = "give", !.to = Head(waiters[pcp.res])]
      BY <1>4, <3>1, <3>3
    <3>5. PcpWakes /\ PcpSame
      BY <1>4, <2>4, <3>2, <3>4 DEF SignalWakes, PcpWakes, PcpSame
    <3>6. QED  BY <3>5
  <2>5. CASE pcp.at = "give"
    <3>1. After(pcp) = [pcp EXCEPT !.at = "post"]
      BY <2>5 DEF After
    <3>2. SignalGives(pcp)
      BY <1>4, <2>5 DEF SignalForResource, SignalReturns, SignalCreates, SignalDrops,
         SignalWakes, SignalGives, SignalPosts
    <3>3. pcp' = [pcp EXCEPT !.at = "post"]
      BY <1>2, <1>4, <3>1
    <3>4. PcpGives /\ PcpSame
      BY <1>4, <2>5, <3>2, <3>3 DEF SignalGives, PcpGives, PcpSame, table
    <3>5. QED  BY <3>4
  <2>6. CASE pcp.at = "post"
    <3>1. After(pcp) = [pcp EXCEPT !.at = "done"]
      BY <2>6 DEF After
    <3>2. SignalPosts(pcp)
      BY <1>4, <2>6 DEF SignalForResource, SignalReturns, SignalCreates, SignalDrops,
         SignalWakes, SignalGives, SignalPosts
    <3>3. pcp' = [AtWait EXCEPT !.at = "next", !.dtb = pcp.dtb]
      BY <1>2, <1>4, <3>1
    <3>4. PcpPosts /\ PcpSame
      BY <1>4, <2>6, <3>2, <3>3 DEF SignalPosts, PcpPosts, PcpSame, table
    <3>5. QED  BY <3>4
  <2>7. QED  BY <2>2, <2>3, <2>4, <2>5, <2>6
<1>5. QED  BY <1>3, <1>4 DEF PCPSignals

-----------------------------------------------------------------------------
(***************************************************************************)
(* Types.                                                                  *)
(***************************************************************************)

\* A job that goes on to place a.
LEMMA AtPlace ==
  ASSUME NEW j, j \in Callers(Ops, Places), NEW a \in Places
  PROVE  LET k == [j EXCEPT !.at = a] IN
         /\ k \in Callers(Ops, Places)
         /\ k.op = j.op /\ k.dtb = j.dtb /\ k.res = j.res /\ k.n = j.n /\ k.at = a
         /\ k.to = j.to
BY DEF Callers

\* One job gives its place to another: the jobs keep their shape.
LEMMA JobsKeepShape ==
  ASSUME StateOK, NEW j \in jobs, NEW k,
         jobs' = (jobs \ {j}) \cup {k}, resources \subseteq resources',
         UNCHANGED ops, JobOK(k)'
  PROVE  (\A x \in jobs : JobOK(x))'
<1>1. ASSUME NEW x \in jobs
      PROVE  JobOK(x)'
  BY DEF StateOK, JobOK
<1>2. QED  BY <1>1

\* No job changes, or one ends.
LEMMA FewerJobsKeepShape ==
  ASSUME StateOK, jobs' \subseteq jobs, resources \subseteq resources', UNCHANGED ops
  PROVE  (\A x \in jobs : JobOK(x))'
<1>1. ASSUME NEW x \in jobs
      PROVE  JobOK(x)'
  BY DEF StateOK, JobOK
<1>2. QED  BY <1>1

\* The names of the steps of a WAIT that finds an instance, or does not.
WaitIsGranted(j) ==
    /\ j.op = "WAIT" /\ j.at = "take" /\ availables[j.res] > 0
    /\ availables' = [availables EXCEPT ![j.res] = @ - 1]
    /\ Becomes(j, "grant")
    /\ UNCHANGED <<resources, waiters, kept, place, cpu, data, PCPtasks, pcp, failure,
                   outside, supply>>
WaitIsRefused(j) ==
    /\ j.op = "WAIT" /\ j.at = "take"
    /\ availables' = [availables EXCEPT ![j.res] = @ - 1]
    /\ jobs' = (jobs \ {j}) \cup {Job("BLOCKDTB", j.dtb, j.res, j.n)}
    /\ cpu' = [cpu EXCEPT ![j.dtb] = "idle"]
    /\ UNCHANGED <<resources, waiters, kept, place, data, PCPtasks, pcp, failure,
                   outside, supply>>

\* A WAIT that takes an instance is granted or refused.
LEMMA WaitTakesCases ==
  ASSUME NEW j, WaitTakes(j)
  PROVE  WaitIsGranted(j) \/ WaitIsRefused(j)
BY DEF WaitTakes, WaitIsGranted, WaitIsRefused, Refuses, Refused

\* What the steps of a job that do not touch the resources have in common.
LeavesAlone(j) ==
    /\ UNCHANGED <<resources, availables, kept, place, cpu, pcp, failure, outside, supply>>
BlockQueues(j) ==
    /\ j.op = "BLOCKDTB" /\ j.at = "start"
    /\ waiters' = [waiters EXCEPT ![j.res] = Append(@, j.dtb)]
    /\ Becomes(j, "push")
    /\ UNCHANGED <<data, PCPtasks>>
BlockPushes(j) ==
    /\ j.op = "BLOCKDTB" /\ j.at = "push"
    /\ toBeBlocked' = Append(toBeBlocked, j.dtb)
    /\ Becomes(j, "post")
    /\ UNCHANGED <<waiters, toBeUnlocked, toBeEnded, PCPtasks>>
QuantumPushes(j) ==
    /\ j.op = "EOQUANTUM" /\ j.at = "start"
    /\ toBeUnlocked' = Append(toBeUnlocked, j.dtb)
    /\ Becomes(j, "post")
    /\ UNCHANGED <<waiters, toBeBlocked, toBeEnded, PCPtasks>>
EndPushes(j) ==
    /\ j.op \in {"EOFORABORT", "FINALIZAR"} /\ j.at = "start"
    /\ toBeEnded' = Append(toBeEnded, j.dtb)
    /\ Becomes(j, "post")
    /\ UNCHANGED <<waiters, toBeBlocked, toBeUnlocked, PCPtasks>>
Posts(j, t) ==
    /\ j.at = "post"
    /\ \/ j.op = "BLOCKDTB" /\ t = "BLOCK"
       \/ j.op = "EOQUANTUM" /\ t = "UNLOCK"
       \/ j.op \in {"EOFORABORT", "FINALIZAR"} /\ t = "END"
    /\ PCPtasks' = Append(PCPtasks, t)
    /\ Finished(j)
    /\ UNCHANGED <<waiters, data>>

\* The steps of the handlers that do not touch the instances of a resource.
LEMMA OtherJobs ==
  ASSUME NEW j, Comms_CPU_DTBAtDAM(j) \/ Comms_CPU_OutOfQuantum(j) \/ EndsDTB(j)
  PROVE  /\ LeavesAlone(j)
         /\ \/ BlockQueues(j) \/ BlockPushes(j) \/ QuantumPushes(j) \/ EndPushes(j)
            \/ \E t \in {"BLOCK", "UNLOCK", "END"} : Posts(j, t)
BY DEF Comms_CPU_DTBAtDAM, Comms_CPU_OutOfQuantum, EndsDTB, LeavesAlone, BlockQueues,
   BlockPushes, QuantumPushes, EndPushes, Posts, table, data, outside

\* Every step of the system is one of these.
SigFrame(j) ==
    /\ j.op = "SIGNAL"
    /\ UNCHANGED <<place, cpu, toBeBlocked, toBeEnded, pcp, failure, outside>>
SigStep(j) == \/ SigReturns(j) \/ SigMisses(j) \/ SigCreates(j) \/ SigDropsKept(j)
              \/ SigDropsNothing(j) \/ SigFindsNobody(j) \/ SigWakes(j) \/ SigGives(j)
              \/ SigPosts(j)
WaitStep(j) == \/ WaitLooksUp(j) \/ WaitCreates(j) \/ WaitIsGranted(j)
               \/ WaitIsRefused(j) \/ WaitGrants(j)
TaskStep(j) == \/ BlockQueues(j) \/ BlockPushes(j) \/ QuantumPushes(j) \/ EndPushes(j)
               \/ \E t \in {"BLOCK", "UNLOCK", "END"} : Posts(j, t)
JobStep(j) == WaitStep(j) \/ (SigFrame(j) /\ SigStep(j)) \/ (LeavesAlone(j) /\ TaskStep(j))
ExitStep == \/ \E r \in Names : PcpReturns(r)
            \/ PcpFindsNobody \/ PcpWakes \/ PcpGives \/ PcpPosts
PcpStep == \/ \E d \in DTBs : PCPDispatches(d)
           \/ PCPBlocks \/ PCPUnlocks \/ PCPEnds \/ PCPExits
           \/ PcpSame /\ ExitStep
Crash == \E f \in {"requester", "blockedDTB", "target"} : Fails(f)

\* Every step of the system is one of the named ones, or the dereference of a NULL.
LEMMA Steps ==
  ASSUME StateOK, Next
  PROVE  \/ \E j \in jobs : JobStep(j)
         \/ PcpStep
         \/ \E d \in DTBs : CPU(d) \/ CommandFinalizar(d)
         \/ Crash
<1>1. ASSUME NEW j \in jobs, Handler(j)
      PROVE  JobStep(j) \/ Crash
  <2>1. JobOK(j) /\ kept \in [DTBs -> [Names -> Nat]]
    BY DEF StateOK, TypeOK
  <2>2. CASE Comms_CPU_WaitResource(j)
    BY <2>2, WaitTakesCases DEF Comms_CPU_WaitResource, JobStep, WaitStep
  <2>3. CASE WaitFails(j) \/ SignalFails(j)
    BY <2>3 DEF WaitFails, SignalFails, Crash
  <2>4. CASE Comms_CPU_SignalResource(j)
    BY <2>1, <2>4, SignalOfAJob DEF JobStep, SigFrame, SigStep
  <2>5. CASE Comms_CPU_DTBAtDAM(j) \/ Comms_CPU_OutOfQuantum(j) \/ EndsDTB(j)
    BY <2>5, OtherJobs DEF JobStep, TaskStep
  <2>6. QED  BY <1>1, <2>2, <2>3, <2>4, <2>5 DEF Handler
<1>2. ASSUME PCP
      PROVE  PcpStep \/ Crash
  <2>1. CASE PCPSignals
    BY <2>1, SignalOfThePCP DEF PcpStep, ExitStep
  <2>2. CASE SignalFails(pcp) \/ PCPFails
    BY <2>2 DEF SignalFails, PCPFails, Crash
  <2>3. CASE (\E d \in DTBs : PCPDispatches(d)) \/ PCPBlocks \/ PCPUnlocks \/ PCPEnds \/ PCPExits
    BY <2>3 DEF PcpStep
  <2>4. QED  BY <1>2, <2>1, <2>2, <2>3 DEF PCP
<1>3. QED  BY <1>1, <1>2 DEF Next

\* What the steps of jobs leave of the types, and of the shape of the jobs and the PCP.
TypesOK == TypeOK /\ PcpOK /\ \A j \in jobs : JobOK(j)

\* A job that goes on to a place of its handler keeps its shape.
PlaceOf(j, a) ==
    /\ a \in Places \ {"give"}
    /\ j.op = "WAIT" => a \in {"take", "create", "grant"}
    /\ j.op = "SIGNAL" => a \in {"create", "drop", "wake", "post"}
    /\ j.op = "BLOCKDTB" => a \in {"push", "post"}
    /\ j.op \in {"EOQUANTUM", "EOFORABORT", "FINALIZAR"} => a = "post"
    /\ a = "create" => j.res \notin Known
    /\ a \in {"take", "grant", "drop", "wake"} => j.res \in resources'

\* A job that becomes one at such a place leaves the jobs in shape.
LEMMA BecomesKeepsShape ==
  ASSUME StateOK, NEW j \in jobs, NEW a, PlaceOf(j, a), Becomes(j, a),
         resources \subseteq resources', UNCHANGED ops
  PROVE  (\A x \in jobs : JobOK(x))'
<1>1. JobOK(j) /\ j \in Callers(Ops, Places) /\ a \in Places
  BY DEF StateOK, JobOK, PlaceOf
<1>2. PICK k : k = [j EXCEPT !.at = a]
  OBVIOUS
<1>3. /\ k \in Callers(Ops, Places)
      /\ k.op = j.op /\ k.dtb = j.dtb /\ k.res = j.res /\ k.n = j.n /\ k.at = a
  BY <1>1, <1>2, AtPlace
<1>4. JobOK(k)'
  BY <1>1, <1>3 DEF JobOK, PlaceOf, Sentences
<1>5. QED  BY <1>2, <1>4, JobsKeepShape DEF Becomes

\* What a step leaves alone has its type still.
LEMMA TypesOfWaits ==
  ASSUME StateOK, NEW j \in jobs, WaitStep(j)
  PROVE  TypesOK'
<1>1. /\ TypeOK /\ PcpOK /\ JobOK(j) /\ j \in Callers(Ops, Places)
      /\ j.dtb \in DTBs /\ j.op \in Ops /\ Known \subseteq resources
  BY DEF StateOK, JobOK, BooksOK, Callers
<1>2. ASSUME (\A x \in jobs : JobOK(x))'
      PROVE  jobs' \subseteq Callers(Ops, Places)
  BY <1>2 DEF JobOK
<1>3. CASE WaitLooksUp(j)
  <2>1. PICK a : /\ a = IF j.res \in resources THEN "take" ELSE "create"
                 /\ Becomes(j, a)
    BY <1>3 DEF WaitLooksUp
  <2>2. UNCHANGED <<resources, ops>>
    BY <1>3 DEF WaitLooksUp, table, outside
  <2>3. PlaceOf(j, a)
    BY <1>1, <1>3, <2>1, <2>2 DEF PlaceOf, Places, WaitLooksUp
  <2>4. (\A x \in jobs : JobOK(x))'
    BY <2>1, <2>2, <2>3, BecomesKeepsShape
  <2>5. TypeOK' /\ PcpOK'
    BY <1>1, <1>2, <1>3, <2>4 DEF WaitLooksUp, table, data, outside, TypeOK, PcpOK
  <2>6. QED  BY <2>4, <2>5 DEF TypesOK
<1>4. CASE WaitCreates(j)
  <2>1. Becomes(j, "take") /\ j.op = "WAIT" /\ j.res \in Names
    BY <1>1, <1>4 DEF WaitCreates, JobOK
  <2>2. resources' = resources \cup {j.res} /\ UNCHANGED ops
    BY <1>4 DEF WaitCreates, AddNewResource, outside
  <2>3. PlaceOf(j, "take")
    BY <2>1, <2>2 DEF PlaceOf, Places
  <2>4. (\A x \in jobs : JobOK(x))'
    BY <2>1, <2>2, <2>3, BecomesKeepsShape
  <2>5. /\ availables' = [availables EXCEPT ![j.res] = 1]
        /\ waiters' = [waiters EXCEPT ![j.res] = <<>>]
        /\ supply' = [supply EXCEPT ![j.res] = @ + 1]
        /\ UNCHANGED <<kept, place, cpu, data, PCPtasks, pcp, failure, outside>>
    BY <1>4 DEF WaitCreates, AddNewResource
  <2>6. /\ availables' \in [Names -> Int] /\ supply' \in [Names -> Nat]
        /\ resources' \subseteq Names
    BY <1>1, <2>1, <2>2, <2>5 DEF TypeOK
  <2>7. waiters' \in [Names -> Seq(DTBs)]
    BY <1>1, <2>1, <2>5 DEF TypeOK
  <2>8. TypeOK'
    BY <1>1, <1>2, <2>4, <2>5, <2>6, <2>7 DEF data, outside, TypeOK
  <2>9. PcpOK'
    BY <1>1, <2>2, <2>5 DEF PcpOK
  <2>10. QED  BY <2>4, <2>8, <2>9 DEF TypesOK
<1>5. CASE WaitIsGranted(j)
  <2>1. Becomes(j, "grant") /\ j.op = "WAIT" /\ j.res \in resources /\ j.res \in Names
    BY <1>1, <1>5 DEF WaitIsGranted, JobOK
  <2>2. UNCHANGED <<resources, ops>>
    BY <1>5 DEF WaitIsGranted, outside
  <2>3. PlaceOf(j, "grant")
    BY <2>1, <2>2 DEF PlaceOf, Places
  <2>4. (\A x \in jobs : JobOK(x))'
    BY <2>1, <2>2, <2>3, BecomesKeepsShape
  <2>5. availables' \in [Names -> Int]
    BY <1>1, <1>5, <2>1 DEF WaitIsGranted, TypeOK
  <2>6. TypeOK' /\ PcpOK'
    BY <1>1, <1>2, <1>5, <2>4, <2>5 DEF WaitIsGranted, data, outside, TypeOK, PcpOK
  <2>7. QED  BY <2>4, <2>6 DEF TypesOK
<1>6. CASE WaitIsRefused(j)
  <2>1. PICK k : k = Job("BLOCKDTB", j.dtb, j.res, j.n)
    OBVIOUS
  <2>2. /\ jobs' = (jobs \ {j}) \cup {k} /\ UNCHANGED <<resources, ops>>
        /\ j.op = "WAIT" /\ j.res \in Names
    BY <1>1, <1>6, <2>1 DEF WaitIsRefused, JobOK, outside
  <2>3. JobOK(k)'
    BY <1>1, <2>1, <2>2 DEF JobOK, Job, Callers, Ops, Places, Sentences
  <2>4. (\A x \in jobs : JobOK(x))'
    BY <2>2, <2>3, JobsKeepShape
  <2>5. availables' \in [Names -> Int] /\ cpu' \in [DTBs -> {"idle", "running", "asking"}]
    BY <1>1, <1>6, <2>2 DEF WaitIsRefused, TypeOK
  <2>6. TypeOK'
    BY <1>1, <1>2, <1>6, <2>2, <2>4, <2>5 DEF WaitIsRefused, data, outside, TypeOK
  <2>7. PcpOK'
    BY <1>1, <1>6, <2>2 DEF WaitIsRefused, PcpOK
  <2>8. QED  BY <2>4, <2>6, <2>7 DEF TypesOK
<1>7. CASE WaitGrants(j)
  <2>1. /\ jobs' = jobs \ {j} /\ UNCHANGED <<resources, ops>> /\ j.res \in Names
    BY <1>1, <1>7 DEF WaitGrants, Finished, JobOK, table, outside
  <2>2. (\A x \in jobs : JobOK(x))'
    BY <2>1, FewerJobsKeepShape
  <2>3. kept' \in [DTBs -> [Names -> Nat]] /\ cpu' \in [DTBs -> {"idle", "running", "asking"}]
    BY <1>1, <1>7, <2>1 DEF WaitGrants, TypeOK
  <2>4. TypeOK' /\ PcpOK'
    BY <1>1, <1>2, <1>7, <2>2, <2>3 DEF WaitGrants, table, data, outside, TypeOK, PcpOK
  <2>5. QED  BY <2>2, <2>4 DEF TypesOK
<1>8. QED  BY <1>3, <1>4, <1>5, <1>6, <1>7 DEF WaitStep

\* The same of the steps of a SIGNAL.
LEMMA TypesOfSignals ==
  ASSUME StateOK, NEW j \in jobs, SigFrame(j), SigStep(j)
  PROVE  TypesOK'
<1>1. /\ TypeOK /\ PcpOK /\ JobOK(j) /\ j \in Callers(Ops, Places)
      /\ j.dtb \in DTBs /\ j.res \in Names /\ j.op = "SIGNAL"
      /\ j.at = "create" => j.res \notin Known
      /\ j.at \in {"drop", "wake", "give"} => j.res \in resources
      /\ UNCHANGED <<place, cpu, toBeBlocked, toBeEnded, pcp, failure, outside>>
      /\ Known \subseteq resources /\ UNCHANGED ops
  BY DEF StateOK, JobOK, BooksOK, SigFrame, outside
<1>2. ASSUME (\A x \in jobs : JobOK(x))'
      PROVE  jobs' \subseteq Callers(Ops, Places)
  BY <1>2 DEF JobOK
<1>3. CASE SigReturns(j)
  <2>1. Becomes(j, "drop") /\ j.res \in resources /\ UNCHANGED resources
    BY <1>3 DEF SigReturns
  <2>2. PlaceOf(j, "drop")
    BY <1>1, <2>1 DEF PlaceOf, Places
  <2>3. (\A x \in jobs : JobOK(x))'
    BY <1>1, <2>1, <2>2, BecomesKeepsShape
  <2>4. availables' \in [Names -> Int]
    BY <1>1, <1>3 DEF SigReturns, TypeOK
  <2>5. TypeOK' /\ PcpOK'
    BY <1>1, <1>2, <1>3, <2>3, <2>4 DEF SigReturns, outside, TypeOK, PcpOK
  <2>6. QED  BY <2>3, <2>5 DEF TypesOK
<1>4. CASE SigMisses(j)
  <2>1. Becomes(j, "create") /\ j.res \notin Known /\ UNCHANGED resources
    BY <1>1, <1>4 DEF SigMisses, table
  <2>2. PlaceOf(j, "create")
    BY <1>1, <2>1 DEF PlaceOf, Places
  <2>3. (\A x \in jobs : JobOK(x))'
    BY <1>1, <2>1, <2>2, BecomesKeepsShape
  <2>4. TypeOK' /\ PcpOK'
    BY <1>1, <1>2, <1>4, <2>3 DEF SigMisses, table, outside, TypeOK, PcpOK
  <2>5. QED  BY <2>3, <2>4 DEF TypesOK
<1>5. CASE SigCreates(j)
  <2>1. Becomes(j, "drop") /\ resources' = resources \cup {j.res}
    BY <1>5 DEF SigCreates, AddNewResource
  <2>2. PlaceOf(j, "drop")
    BY <1>1, <2>1 DEF PlaceOf, Places
  <2>3. (\A x \in jobs : JobOK(x))'
    BY <1>1, <2>1, <2>2, BecomesKeepsShape
  <2>4. availables' \in [Names -> Int] /\ waiters' \in [Names -> Seq(DTBs)]
    BY <1>1, <1>5 DEF SigCreates, AddNewResource, TypeOK
  <2>5. TypeOK' /\ PcpOK'
    BY <1>1, <1>2, <1>5, <2>1, <2>3, <2>4 DEF SigCreates, outside, TypeOK, PcpOK
  <2>6. QED  BY <2>3, <2>5 DEF TypesOK
<1>6. CASE SigDropsKept(j) \/ SigDropsNothing(j)
  <2>1. Becomes(j, "wake") /\ j.res \in resources /\ UNCHANGED resources
    BY <1>1, <1>6 DEF SigDropsKept, SigDropsNothing, table
  <2>2. PlaceOf(j, "wake")
    BY <1>1, <2>1 DEF PlaceOf, Places
  <2>3. (\A x \in jobs : JobOK(x))'
    BY <1>1, <2>1, <2>2, BecomesKeepsShape
  <2>4. kept' \in [DTBs -> [Names -> Nat]] /\ supply' \in [Names -> Nat]
    <3>1. kept \in [DTBs -> [Names -> Nat]] /\ supply \in [Names -> Nat]
      BY <1>1 DEF TypeOK
    <3>2. CASE SigDropsKept(j)
      <4>1. kept' \in [DTBs -> [Names -> Nat]]
        BY <1>1, <3>1, <3>2 DEF SigDropsKept
      <4>2. QED  BY <3>1, <3>2, <4>1 DEF SigDropsKept
    <3>3. CASE SigDropsNothing(j)
      <4>1. supply' \in [Names -> Nat]
        BY <1>1, <3>1, <3>3 DEF SigDropsNothing
      <4>2. QED  BY <3>1, <3>3, <4>1 DEF SigDropsNothing
    <3>4. QED  BY <1>6, <3>2, <3>3
  <2>5. TypeOK' /\ PcpOK'
    BY <1>1, <1>2, <1>6, <2>3, <2>4 DEF SigDropsKept, SigDropsNothing, table, outside,
       TypeOK, PcpOK
  <2>6. QED  BY <2>3, <2>5 DEF TypesOK
<1>7. CASE SigFindsNobody(j)
  <2>1. jobs' \subseteq jobs /\ UNCHANGED resources
    BY <1>7 DEF SigFindsNobody, Finished, table
  <2>2. (\A x \in jobs : JobOK(x))'
    BY <1>1, <2>1, FewerJobsKeepShape
  <2>3. TypeOK' /\ PcpOK'
    BY <1>1, <1>2, <1>7, <2>2 DEF SigFindsNobody, table, outside, TypeOK, PcpOK
  <2>4. QED  BY <2>2, <2>3 DEF TypesOK
<1>8. CASE SigWakes(j)
  <2>1. /\ waiters[j.res] \in Seq(DTBs) /\ waiters[j.res] # <<>>
        /\ j.res \in resources /\ UNCHANGED resources
    BY <1>1, <1>8 DEF SigWakes, TypeOK
  <2>2. Head(waiters[j.res]) \in DTBs /\ Tail(waiters[j.res]) \in Seq(DTBs)
    BY <2>1, HeadTailProperties
  <2>3. PICK d \in DTBs : d = Head(waiters[j.res])
    BY <2>2
  <2>3a. PICK k : k = [j EXCEPT !.at = "give", !.to = d]
    OBVIOUS
  <2>4. jobs' = (jobs \ {j}) \cup {k}
    BY <1>8, <2>3, <2>3a DEF SigWakes
  <2>5. /\ k \in Callers(Ops, Places) /\ k.op = "SIGNAL" /\ k.dtb = j.dtb
        /\ k.res = j.res /\ k.n = j.n /\ k.at = "give" /\ k.to = d
    BY <1>1, <2>3, <2>3a DEF Callers, Places
  <2>6. JobOK(k)'
    BY <1>1, <2>1, <2>5 DEF JobOK, Sentences
  <2>7. (\A x \in jobs : JobOK(x))'
    BY <1>1, <2>1, <2>4, <2>6, JobsKeepShape
  <2>8. waiters' \in [Names -> Seq(DTBs)]
    BY <1>1, <1>8, <2>2 DEF SigWakes, TypeOK
  <2>9. TypeOK' /\ PcpOK'
    BY <1>1, <1>2, <1>8, <2>7, <2>8 DEF SigWakes, outside, TypeOK, PcpOK
  <2>10. QED  BY <2>7, <2>9 DEF TypesOK
<1>9. CASE SigGives(j)
  <2>1. Becomes(j, "post") /\ UNCHANGED resources /\ j.to \in DTBs
    BY <1>1, <1>9 DEF SigGives, table, JobOK
  <2>2. PlaceOf(j, "post")
    BY <1>1, <2>1 DEF PlaceOf, Places
  <2>3. (\A x \in jobs : JobOK(x))'
    BY <1>1, <2>1, <2>2, BecomesKeepsShape
  <2>4. kept' \in [DTBs -> [Names -> Nat]]
    <3>1. kept \in [DTBs -> [Names -> Nat]]
      BY <1>1 DEF TypeOK
    <3>2. QED  BY <1>1, <1>9, <2>1, <3>1 DEF SigGives
  <2>5. toBeUnlocked' \in Seq(DTBs)
    BY <1>1, <1>9, <2>1, AppendProperties DEF SigGives, TypeOK
  <2>6. TypeOK' /\ PcpOK'
    BY <1>1, <1>2, <1>9, <2>3, <2>4, <2>5 DEF SigGives, table, outside, TypeOK, PcpOK
  <2>7. QED  BY <2>3, <2>6 DEF TypesOK
<1>10. CASE SigPosts(j)
  <2>1. jobs' \subseteq jobs /\ UNCHANGED resources
    BY <1>10 DEF SigPosts, Finished, table
  <2>2. (\A x \in jobs : JobOK(x))'
    BY <1>1, <2>1, FewerJobsKeepShape
  <2>3. PCPtasks' \in Seq({"BLOCK", "UNLOCK", "END"})
    BY <1>1, <1>10, AppendProperties DEF SigPosts, TypeOK
  <2>4. TypeOK' /\ PcpOK'
    BY <1>1, <1>2, <1>10, <2>2, <2>3 DEF SigPosts, table, outside, TypeOK, PcpOK
  <2>5. QED  BY <2>2, <2>4 DEF TypesOK
<1>11. QED  BY <1>3, <1>4, <1>5, <1>6, <1>7, <1>8, <1>9, <1>10 DEF SigStep

\* The same of the steps of the other messages.
LEMMA TypesOfTasks ==
  ASSUME StateOK, NEW j \in jobs, LeavesAlone(j), TaskStep(j)
  PROVE  TypesOK'
<1>1. /\ TypeOK /\ PcpOK /\ JobOK(j) /\ j.dtb \in DTBs
      /\ UNCHANGED <<resources, availables, kept, place, cpu, pcp, failure, outside, supply>>
      /\ UNCHANGED <<ops, finalizars>>
  BY DEF StateOK, JobOK, LeavesAlone, outside
<1>2. ASSUME (\A x \in jobs : JobOK(x))'
      PROVE  jobs' \subseteq Callers(Ops, Places)
  BY <1>2 DEF JobOK
<1>3. CASE BlockQueues(j)
  <2>1. Becomes(j, "push") /\ PlaceOf(j, "push") /\ j.res \in Names
    BY <1>1, <1>3 DEF BlockQueues, PlaceOf, Places, JobOK
  <2>2. (\A x \in jobs : JobOK(x))'
    BY <1>1, <2>1, BecomesKeepsShape
  <2>3. waiters \in [Names -> Seq(DTBs)] /\ waiters[j.res] \in Seq(DTBs)
    BY <1>1, <2>1 DEF TypeOK
  <2>4. Append(waiters[j.res], j.dtb) \in Seq(DTBs)
    BY <1>1, <2>3, AppendProperties
  <2>5. waiters' \in [Names -> Seq(DTBs)]
    BY <1>3, <2>3, <2>4 DEF BlockQueues
  <2>6. TypeOK' /\ PcpOK'
    BY <1>1, <1>2, <1>3, <2>2, <2>5 DEF BlockQueues, data, TypeOK, PcpOK
  <2>7. QED  BY <2>2, <2>6 DEF TypesOK
<1>4. CASE BlockPushes(j)
  <2>1. Becomes(j, "post") /\ PlaceOf(j, "post")
    BY <1>1, <1>4 DEF BlockPushes, PlaceOf, Places, JobOK
  <2>2. (\A x \in jobs : JobOK(x))'
    BY <1>1, <2>1, BecomesKeepsShape
  <2>3. toBeBlocked' \in Seq(DTBs)
    BY <1>1, <1>4, AppendProperties DEF BlockPushes, TypeOK
  <2>4. TypeOK' /\ PcpOK'
    BY <1>1, <1>2, <1>4, <2>2, <2>3 DEF BlockPushes, TypeOK, PcpOK
  <2>5. QED  BY <2>2, <2>4 DEF TypesOK
<1>5. CASE QuantumPushes(j)
  <2>1. Becomes(j, "post") /\ PlaceOf(j, "post")
    BY <1>1, <1>5 DEF QuantumPushes, PlaceOf, Places, JobOK
  <2>2. (\A x \in jobs : JobOK(x))'
    BY <1>1, <2>1, BecomesKeepsShape
  <2>3. toBeUnlocked' \in Seq(DTBs)
    BY <1>1, <1>5, AppendProperties DEF QuantumPushes, TypeOK
  <2>4. TypeOK' /\ PcpOK'
    BY <1>1, <1>2, <1>5, <2>2, <2>3 DEF QuantumPushes, TypeOK, PcpOK
  <2>5. QED  BY <2>2, <2>4 DEF TypesOK
<1>6. CASE EndPushes(j)
  <2>1. Becomes(j, "post") /\ PlaceOf(j, "post")
    BY <1>1, <1>6 DEF EndPushes, PlaceOf, Places, JobOK
  <2>2. (\A x \in jobs : JobOK(x))'
    BY <1>1, <2>1, BecomesKeepsShape
  <2>3. toBeEnded' \in Seq(DTBs)
    BY <1>1, <1>6, AppendProperties DEF EndPushes, TypeOK
  <2>4. TypeOK' /\ PcpOK'
    BY <1>1, <1>2, <1>6, <2>2, <2>3 DEF EndPushes, TypeOK, PcpOK
  <2>5. QED  BY <2>2, <2>4 DEF TypesOK
<1>7. ASSUME NEW t \in {"BLOCK", "UNLOCK", "END"}, Posts(j, t)
      PROVE  TypesOK'
  <2>1. jobs' \subseteq jobs
    BY <1>7 DEF Posts, Finished
  <2>2. (\A x \in jobs : JobOK(x))'
    BY <1>1, <2>1, FewerJobsKeepShape
  <2>3. PCPtasks' \in Seq({"BLOCK", "UNLOCK", "END"})
    BY <1>1, <1>7, AppendProperties DEF Posts, TypeOK
  <2>4. TypeOK' /\ PcpOK'
    BY <1>1, <1>2, <1>7, <2>2, <2>3 DEF Posts, data, TypeOK, PcpOK
  <2>5. QED  BY <2>2, <2>4 DEF TypesOK
<1>8. QED  BY <1>3, <1>4, <1>5, <1>6, <1>7 DEF TaskStep

\* The PCP finds the DTB of the task it takes.
LEMMA TasksOfThePCP ==
  ASSUME StateOK, NEW t, PCPTakes(t)
  PROVE  /\ PCPtasks \in Seq({"BLOCK", "UNLOCK", "END"}) /\ PCPtasks # <<>>
         /\ Head(PCPtasks) = t /\ PCPtasks' = Tail(PCPtasks)
         /\ PCPtasks' \in Seq({"BLOCK", "UNLOCK", "END"})
         /\ t = "BLOCK" => toBeBlocked # <<>>
         /\ t = "UNLOCK" => toBeUnlocked # <<>>
         /\ t = "END" => toBeEnded # <<>>
<1>1. /\ PCPtasks \in Seq({"BLOCK", "UNLOCK", "END"}) /\ PCPtasks # <<>>
      /\ Head(PCPtasks) = t /\ PCPtasks' = Tail(PCPtasks)
      /\ TasksHaveData /\ IsFiniteSet(jobs)
      /\ toBeBlocked \in Seq(DTBs) /\ toBeUnlocked \in Seq(DTBs) /\ toBeEnded \in Seq(DTBs)
  BY DEF StateOK, TypeOK, PCPTakes, BooksOK
<1>2. PCPtasks' \in Seq({"BLOCK", "UNLOCK", "END"})
  BY <1>1, HeadTailProperties
<1>3. Occurrences(PCPtasks, t) >= 1
  BY <1>1, OccursHead
<1>4. ASSUME NEW op
      PROVE  Cardinality(Running \cap Posting(op)) \in Nat
  BY <1>1, FS_AddElement, FS_Intersection, FS_CardinalityType DEF Running
<1>5. ASSUME NEW e
      PROVE  Occurrences(PCPtasks, e) \in Nat
  BY <1>1, OccursTail
<1>6. /\ t = "BLOCK" => Len(toBeBlocked) >= 1
      /\ t = "UNLOCK" => Len(toBeUnlocked) >= 1
      /\ t = "END" => Len(toBeEnded) >= 1
  <2>1. /\ Len(toBeBlocked) \in Nat /\ Len(toBeUnlocked) \in Nat /\ Len(toBeEnded) \in Nat
    BY <1>1, LenProperties
  <2>2. /\ Cardinality(Running \cap Posting({"BLOCKDTB"})) \in Nat
        /\ Cardinality(Running \cap Posting({"SIGNAL", "EXIT", "EOQUANTUM"})) \in Nat
        /\ Cardinality(Running \cap Posting({"EOFORABORT", "FINALIZAR"})) \in Nat
    BY <1>4
  <2>3. /\ Occurrences(PCPtasks, "BLOCK") \in Nat /\ Occurrences(PCPtasks, "UNLOCK") \in Nat
        /\ Occurrences(PCPtasks, "END") \in Nat
    BY <1>5
  <2>4. TasksHaveData
    BY <1>1
  <2>5. QED  BY <1>3, <2>1, <2>2, <2>3, <2>4 DEF TasksHaveData, Covered
<1>7. QED  BY <1>1, <1>2, <1>6, EmptySeq

\* A DTB that is once in a queue is taken out of it: the others keep their order.
LEMMA TakenOut ==
  ASSUME NEW T, NEW s \in Seq(T), NEW d,
         \A i, k \in 1 .. Len(s) : s[i] = d /\ s[k] = d => i = k
  PROVE  /\ RemoveFirst(s, d) \in Seq(T)
         /\ d \notin Range(s) => RemoveFirst(s, d) = s
         /\ d \in Range(s) =>
              \E n \in 1 .. Len(s) :
                /\ s[n] = d
                /\ Len(RemoveFirst(s, d)) = Len(s) - 1
                /\ \A i \in 1 .. Len(s) - 1 :
                     RemoveFirst(s, d)[i] = s[IF i < n THEN i ELSE i + 1]
<1>1. Len(s) \in Nat /\ Range(s) = {s[i] : i \in 1 .. Len(s)}
  BY RangeEquality, LenProperties
<1>2. CASE d \notin Range(s)
  BY <1>1, <1>2 DEF RemoveFirst
<1>3. CASE d \in Range(s)
  <2>1. PICK n \in 1 .. Len(s) : s[n] = d
    BY <1>1, <1>3
  <2>2. SelectInSeq(s, LAMBDA v : v = d) = n
    <3>1. {i \in 1 .. Len(s) : s[i] = d} = {n}
      BY <2>1
    <3>2. Min({n}) = n
      BY <2>1, <1>1 DEF Min
    <3>3. QED  BY <3>1, <3>2 DEF SelectInSeq
  <2> DEFINE p == SubSeq(s, 1, n - 1)
             q == SubSeq(s, n + 1, Len(s))
  <2>3. RemoveFirst(s, d) = p \o q
    BY <2>1, <2>2 DEF RemoveFirst, RemoveAt
  <2>4. \A i \in 1 .. Len(s) : s[i] \in T
    BY ElementOfSeq
  <2>5. /\ p \in Seq(T) /\ Len(p) = n - 1 /\ \A i \in 1 .. n - 1 : p[i] = s[i]
    <3>1. n - 1 \in Int /\ \A i \in 1 .. n - 1 : s[i] \in T
      BY <1>1, <2>4
    <3>2. /\ p \in Seq(T) /\ Len(p) = IF 1 <= n - 1 THEN n - 1 - 1 + 1 ELSE 0
          /\ \A i \in 1 .. n - 1 - 1 + 1 : p[i] = s[1 + i - 1]
      BY <3>1, SubSeqProperties
    <3>3. QED  BY <1>1, <3>2
  <2>6. /\ q \in Seq(T) /\ Len(q) = Len(s) - n /\ \A i \in 1 .. Len(s) - n : q[i] = s[n + i]
    <3>1. n + 1 \in Int /\ Len(s) \in Int /\ \A i \in n + 1 .. Len(s) : s[i] \in T
      BY <1>1, <2>4
    <3>2. /\ q \in Seq(T)
          /\ Len(q) = IF n + 1 <= Len(s) THEN Len(s) - (n + 1) + 1 ELSE 0
          /\ \A i \in 1 .. Len(s) - (n + 1) + 1 : q[i] = s[n + 1 + i - 1]
      BY <3>1, SubSeqProperties
    <3>3. QED  BY <1>1, <3>2
  <2> HIDE DEF p, q
  <2>7. /\ p \o q \in Seq(T) /\ Len(p \o q) = Len(s) - 1
        /\ \A i \in 1 .. Len(s) - 1 : (p \o q)[i] = IF i <= n - 1 THEN p[i] ELSE q[i - (n - 1)]
    BY <1>1, <2>5, <2>6, ConcatProperties
  <2>8. \A i \in 1 .. Len(s) - 1 : (p \o q)[i] = s[IF i < n THEN i ELSE i + 1]
    <3> TAKE i \in 1 .. Len(s) - 1
    <3>1. CASE i < n
      BY <1>1, <2>5, <2>7, <3>1
    <3>2. CASE ~(i < n)
      <4>1. i - (n - 1) \in 1 .. Len(s) - n /\ n + (i - (n - 1)) = i + 1
        BY <1>1, <3>2
      <4>2. QED  BY <1>1, <2>6, <2>7, <3>2, <4>1
    <3>3. QED  BY <3>1, <3>2
  <2>9. QED  BY <1>3, <2>1, <2>3, <2>7, <2>8
<1>4. QED  BY <1>2, <1>3

\* The PCP's own steps.  Its place in AddToExit:
LEMMA TypesOfThePCP ==
  ASSUME StateOK, OneTurn, PcpStep
  PROVE  TypesOK'
<1>1. /\ TypeOK /\ PcpOK /\ \A j \in jobs : JobOK(j)
  BY DEF StateOK
<1>2. ASSUME UNCHANGED <<jobs, resources, ops>>
      PROVE  (\A j \in jobs : JobOK(j))' /\ jobs' \subseteq Callers(Ops, Places)
  <2>1. (\A j \in jobs : JobOK(j))'
    BY <1>2, FewerJobsKeepShape
  <2>2. QED  BY <1>1, <1>2, <2>1 DEF TypeOK
<1>3. ASSUME NEW d \in DTBs, PCPDispatches(d)
      PROVE  TypesOK'
  <2>1. (\A j \in jobs : JobOK(j))'
    BY <1>2, <1>3 DEF PCPDispatches, table, outside
  <2>2. TypeOK' /\ PcpOK'
    BY <1>1, <1>3 DEF PCPDispatches, table, data, outside, TypeOK, PcpOK
  <2>3. QED  BY <2>1, <2>2 DEF TypesOK
<1>4. CASE PCPBlocks
  <2>1. /\ PCPtasks' \in Seq({"BLOCK", "UNLOCK", "END"}) /\ toBeBlocked # <<>>
    BY <1>4, TasksOfThePCP DEF PCPBlocks
  <2>2. Head(toBeBlocked) \in DTBs /\ toBeBlocked' \in Seq(DTBs)
    BY <1>1, <1>4, <2>1, HeadTailProperties DEF PCPBlocks, TypeOK
  <2>3. (\A j \in jobs : JobOK(j))'
    BY <1>2, <1>4 DEF PCPBlocks, table, outside
  <2>4. TypeOK' /\ PcpOK'
    BY <1>1, <1>4, <2>1, <2>2 DEF PCPBlocks, table, outside, TypeOK, PcpOK
  <2>5. QED  BY <2>3, <2>4 DEF TypesOK
<1>5. CASE PCPUnlocks
  <2>1. /\ PCPtasks' \in Seq({"BLOCK", "UNLOCK", "END"}) /\ toBeUnlocked # <<>>
    BY <1>5, TasksOfThePCP DEF PCPUnlocks
  <2>2. Head(toBeUnlocked) \in DTBs /\ toBeUnlocked' \in Seq(DTBs)
    BY <1>1, <1>5, <2>1, HeadTailProperties DEF PCPUnlocks, TypeOK
  <2>3. (\A j \in jobs : JobOK(j))'
    BY <1>2, <1>5 DEF PCPUnlocks, table, outside
  <2>4. TypeOK' /\ PcpOK'
    BY <1>1, <1>5, <2>1, <2>2 DEF PCPUnlocks, table, outside, TypeOK, PcpOK
  <2>5. QED  BY <2>3, <2>4 DEF TypesOK
<1>6. CASE PCPEnds
  <2>1. /\ PCPtasks' \in Seq({"BLOCK", "UNLOCK", "END"}) /\ toBeEnded # <<>>
    BY <1>6, TasksOfThePCP DEF PCPEnds
  <2>2. Head(toBeEnded) \in DTBs /\ toBeEnded' \in Seq(DTBs)
    BY <1>1, <1>6, <2>1, HeadTailProperties DEF PCPEnds, TypeOK
  <2>3. (\A j \in jobs : JobOK(j))'
    BY <1>2, <1>6 DEF PCPEnds, table, outside
  <2>4. /\ pcp' \in Callers({"EXIT"}, {"wait", "next", "wake", "give", "post"})
        /\ pcp'.at = "next" /\ pcp'.dtb \in DTBs
    BY <1>6, <2>2 DEF PCPEnds, AtWait, Job, Callers
  <2>5. PcpOK'
    BY <2>4 DEF PcpOK
  <2>6. place' \in [DTBs -> {"READY", "EXEC", "BLOCKED", "leaving", "EXIT"}]
    BY <1>1, <1>6 DEF PCPEnds, TypeOK
  <2>7. TypeOK'
    BY <1>1, <1>6, <2>1, <2>2, <2>4, <2>6 DEF PCPEnds, table, outside, TypeOK
  <2>8. QED  BY <2>3, <2>5, <2>7 DEF TypesOK
<1>7. CASE PCPExits
  <2>1. ASSUME NEW r \in Names
        PROVE  RemoveFirst(waiters[r], pcp.dtb) \in Seq(DTBs)
    <3>1. waiters[r] \in Seq(DTBs)
      BY <1>1 DEF TypeOK
    <3>2. \A i, k \in 1 .. Len(waiters[r]) :
             waiters[r][i] = pcp.dtb /\ waiters[r][k] = pcp.dtb => i = k
      BY <1>7 DEF OneTurn, OnceQueued, PCPExits
    <3>3. QED  BY <3>1, <3>2, TakenOut
  <2>2. waiters' \in [Names -> Seq(DTBs)]
    BY <1>7, <2>1 DEF PCPExits, RemoveWaiter
  <2>3. availables' \in [Names -> Int]
    BY <1>1, <1>7 DEF PCPExits, RemoveWaiter, TypeOK
  <2>4. (\A j \in jobs : JobOK(j))'
    BY <1>2, <1>7 DEF PCPExits, outside
  <2>5. /\ pcp' \in Callers({"EXIT"}, {"wait", "next", "wake", "give", "post"})
        /\ pcp'.at = "wait"
    BY <1>7 DEF PCPExits, AtWait, Job, Callers
  <2>6. PcpOK'
    BY <2>5 DEF PcpOK
  <2>7. TypeOK'
    BY <1>1, <1>7, <2>2, <2>3, <2>5 DEF PCPExits, data, outside, TypeOK
  <2>8. QED  BY <2>4, <2>6, <2>7 DEF TypesOK
<1>8. CASE PcpSame /\ ExitStep
  <2>1. /\ pcp \in Callers({"EXIT"}, {"wait", "next", "wake", "give", "post"})
        /\ pcp.at # "wait" => pcp.dtb \in DTBs
        /\ pcp.at \in {"wake", "give", "post"} => pcp.res \in resources
        /\ resources \subseteq Names
        /\ pcp.at = "give" => pcp.to \in DTBs
        /\ kept \in [DTBs -> [Names -> Nat]]
        /\ waiters \in [Names -> Seq(DTBs)]
    BY <1>1 DEF PcpOK, TypeOK
  <2>2. (\A j \in jobs : JobOK(j))'
    BY <1>2, <1>8 DEF PcpSame, outside
  <2>3. ASSUME kept' \in [DTBs -> [Names -> Nat]], availables' \in [Names -> Int],
               waiters' \in [Names -> Seq(DTBs)], toBeUnlocked' \in Seq(DTBs),
               PCPtasks' \in Seq({"BLOCK", "UNLOCK", "END"}), PcpOK'
        PROVE  TypesOK'
    <3>1. pcp' \in Callers({"EXIT"}, {"wait", "next", "wake", "give", "post"})
      BY <2>3 DEF PcpOK
    <3>2. TypeOK'
      BY <1>1, <1>8, <2>3, <3>1 DEF PcpSame, outside, TypeOK
    <3>3. QED  BY <2>2, <2>3, <3>2 DEF TypesOK
  <2>4. ASSUME NEW x, x = [AtWait EXCEPT !.at = "next", !.dtb = pcp.dtb], pcp' = x,
               pcp.dtb \in DTBs
        PROVE  PcpOK'
    <3>1. x \in Callers({"EXIT"}, {"wait", "next", "wake", "give", "post"})
          /\ x.at = "next" /\ x.dtb \in DTBs
      BY <2>4 DEF AtWait, Job, Callers
    <3>2. QED  BY <2>4, <3>1 DEF PcpOK
  <2>5. ASSUME NEW r \in Names, PcpReturns(r)
        PROVE  TypesOK'
    <3>1. pcp.dtb \in DTBs /\ kept[pcp.dtb][r] > 0 /\ r \in resources
      BY <2>1, <2>5 DEF PcpReturns, StateOK, BooksOK
    <3>2. kept' \in [DTBs -> [Names -> Nat]]
      BY <2>1, <2>5, <3>1 DEF PcpReturns
    <3>3. availables' \in [Names -> Int]
      BY <1>1, <2>5 DEF PcpReturns, TypeOK
    <3>4. /\ pcp' \in Callers({"EXIT"}, {"wait", "next", "wake", "give", "post"})
          /\ pcp'.at = "wake" /\ pcp'.dtb = pcp.dtb /\ pcp'.res = r
      BY <2>1, <2>5 DEF PcpReturns, Callers
    <3>5. PcpOK'
      BY <1>8, <3>1, <3>4 DEF PcpOK, PcpSame
    <3>6. QED  BY <1>1, <2>3, <2>5, <3>2, <3>3, <3>5 DEF PcpReturns, TypeOK
  <2>6. CASE PcpFindsNobody
    <3>1. PcpOK'
      BY <2>1, <2>4, <2>6 DEF PcpFindsNobody
    <3>2. QED  BY <1>1, <2>3, <2>6, <3>1 DEF PcpFindsNobody, TypeOK
  <2>7. CASE PcpWakes
    <3>1. pcp.res \in resources /\ pcp.res \in Names /\ waiters[pcp.res] \in Seq(DTBs)
          /\ waiters[pcp.res] # <<>> /\ pcp.dtb \in DTBs
      BY <2>1, <2>7 DEF PcpWakes
    <3>2. Head(waiters[pcp.res]) \in DTBs /\ Tail(waiters[pcp.res]) \in Seq(DTBs)
      BY <3>1, HeadTailProperties
    <3>3. waiters' \in [Names -> Seq(DTBs)]
      BY <2>1, <2>7, <3>2 DEF PcpWakes
    <3>4. /\ pcp' \in Callers({"EXIT"}, {"wait", "next", "wake", "give", "post"})
          /\ pcp'.at = "give" /\ pcp'.dtb = pcp.dtb /\ pcp'.res = pcp.res
          /\ pcp'.to \in DTBs
      BY <2>1, <2>7, <3>2 DEF PcpWakes, Callers
    <3>5. PcpOK'
      BY <1>8, <3>1, <3>4 DEF PcpOK, PcpSame
    <3>6. QED  BY <1>1, <2>3, <2>7, <3>3, <3>5 DEF PcpWakes, TypeOK
  <2>8. CASE PcpGives
    <3>1. pcp.res \in resources /\ pcp.res \in Names /\ pcp.to \in DTBs /\ pcp.dtb \in DTBs
      BY <2>1, <2>8 DEF PcpGives
    <3>2. kept' \in [DTBs -> [Names -> Nat]]
      BY <2>1, <2>8, <3>1 DEF PcpGives
    <3>3. toBeUnlocked' \in Seq(DTBs)
      BY <1>1, <2>8, <3>1, AppendProperties DEF PcpGives, TypeOK
    <3>4. /\ pcp' \in Callers({"EXIT"}, {"wait", "next", "wake", "give", "post"})
          /\ pcp'.at = "post" /\ pcp'.dtb = pcp.dtb /\ pcp'.res = pcp.res
      BY <2>1, <2>8 DEF PcpGives, Callers
    <3>5. PcpOK'
      BY <1>8, <3>1, <3>4 DEF PcpOK, PcpSame
    <3>6. QED  BY <1>1, <2>3, <2>8, <3>2, <3>3, <3>5 DEF PcpGives, TypeOK
  <2>9. CASE PcpPosts
    <3>1. PcpOK'
      BY <2>1, <2>4, <2>9 DEF PcpPosts
    <3>2. PCPtasks' \in Seq({"BLOCK", "UNLOCK", "END"})
      BY <1>1, <2>9, AppendProperties DEF PcpPosts, TypeOK
    <3>3. QED  BY <1>1, <2>3, <2>9, <3>1, <3>2 DEF PcpPosts, TypeOK
  <2>10. QED  BY <1>8, <2>5, <2>6, <2>7, <2>8, <2>9 DEF ExitStep
<1>9. QED  BY <1>3, <1>4, <1>5, <1>6, <1>7, <1>8 DEF PcpStep

\* A CPU sends a message for the sentence it executes, the console one of its own.
LEMMA TypesOfCPUs ==
  ASSUME StateOK, NEW d \in DTBs, CPU(d) \/ CommandFinalizar(d)
  PROVE  TypesOK'
<1>1. /\ TypeOK /\ PcpOK /\ (\A j \in jobs : JobOK(j)) /\ ops \in [DTBs -> Nat]
      /\ finalizars \in 0 .. MaxFinalizar /\ MaxFinalizar \in Nat
  BY ResourcesAssumption DEF StateOK, TypeOK
<1>2. ASSUME NEW op \in Ops, NEW r, NEW n \in Nat, NEW k, k = Job(op, d, r, n),
             op \in {"WAIT", "SIGNAL"} => r \in Names,
             op # "BLOCKDTB",
             op \notin {"WAIT", "SIGNAL"} => r = NoName,
             jobs' = jobs \cup {k}, UNCHANGED resources,
             \A e \in DTBs : ops'[e] <= ops[e] /\ ops'[e] \in Nat,
             op \in Sentences => n > ops'[d]
      PROVE  (\A j \in jobs : JobOK(j))' /\ jobs' \subseteq Callers(Ops, Places)
  <2>1. k \in Callers(Ops, Places) /\ k.op = op /\ k.dtb = d /\ k.res = r /\ k.n = n
        /\ k.at = "start"
    BY <1>2 DEF Job, Callers, Places
  <2>2. JobOK(k)'
    BY <1>2, <2>1 DEF JobOK, Ops
  <2>3. ASSUME NEW x \in jobs
        PROVE  JobOK(x)'
    <3>1. JobOK(x) /\ x.dtb \in DTBs /\ x.n \in Nat /\ ops[x.dtb] \in Nat
      BY <1>1 DEF JobOK, Callers
    <3>2. ops'[x.dtb] <= ops[x.dtb] /\ ops'[x.dtb] \in Nat
      BY <1>2, <3>1
    <3>3. x.op \in Sentences => x.n > ops'[x.dtb]
      BY <3>1, <3>2 DEF JobOK
    <3>4. QED  BY <1>2, <3>1, <3>3 DEF JobOK
  <2>4. (\A j \in jobs : JobOK(j))'
    BY <1>2, <2>2, <2>3
  <2>5. QED  BY <1>2, <2>4 DEF JobOK
<1>3. ASSUME Executes(d)
      PROVE  /\ ops[d] \in Nat \ {0} /\ ops' \in [DTBs -> Nat] /\ ops[d] > ops'[d]
             /\ \A e \in DTBs : ops'[e] <= ops[e] /\ ops'[e] \in Nat
  BY <1>1, <1>3 DEF Executes
<1>4. ASSUME NEW op, NEW r, NEW s \in {"idle", "running", "asking"}, CPUSends(d, op, r, s),
             (\A j \in jobs : JobOK(j))' /\ jobs' \subseteq Callers(Ops, Places),
             ops' \in [DTBs -> Nat]
      PROVE  TypesOK'
  <2>1. TypeOK' /\ PcpOK'
    BY <1>1, <1>4 DEF CPUSends, table, data, TypeOK, PcpOK
  <2>2. QED  BY <1>4, <2>1 DEF TypesOK
<1>5. ASSUME NEW r \in Names, CommandWait(d, r)
      PROVE  TypesOK'
  <2>1. Executes(d) /\ CPUSends(d, "WAIT", r, "asking")
    BY <1>5 DEF CommandWait
  <2>2. jobs' = jobs \cup {Job("WAIT", d, r, ops[d])} /\ UNCHANGED resources
    BY <2>1 DEF CPUSends, table
  <2>3. QED  BY <1>2, <1>3, <1>4, <2>1, <2>2 DEF Ops
<1>6. ASSUME NEW r \in Names, CommandSignal(d, r)
      PROVE  TypesOK'
  <2>1. Executes(d) /\ CPUSends(d, "SIGNAL", r, "running")
    BY <1>6 DEF CommandSignal
  <2>2. jobs' = jobs \cup {Job("SIGNAL", d, r, ops[d])} /\ UNCHANGED resources
    BY <2>1 DEF CPUSends, table
  <2>3. QED  BY <1>2, <1>3, <1>4, <2>1, <2>2 DEF Ops
<1>7. CASE CPUEndsQuantum(d)
  <2>1. Executes(d) /\ CPUSends(d, "EOQUANTUM", NoName, "idle")
    BY <1>7 DEF CPUEndsQuantum
  <2>2. jobs' = jobs \cup {Job("EOQUANTUM", d, NoName, ops[d])} /\ UNCHANGED resources
    BY <2>1 DEF CPUSends, table
  <2>3. QED  BY <1>2, <1>3, <1>4, <2>1, <2>2 DEF Ops
<1>8. CASE CPU_EndDTB(d)
  <2>1. UNCHANGED ops /\ CPUSends(d, "EOFORABORT", NoName, "idle")
    BY <1>8 DEF CPU_EndDTB
  <2>2. jobs' = jobs \cup {Job("EOFORABORT", d, NoName, ops[d])} /\ UNCHANGED resources
        /\ ops[d] \in Nat
    BY <1>1, <2>1 DEF CPUSends, table
  <2>3. QED  BY <1>1, <1>2, <1>4, <2>1, <2>2 DEF Ops, Sentences
<1>9. CASE CommandFinalizar(d)
  <2>1. /\ jobs' = jobs \cup {Job("FINALIZAR", d, NoName, finalizars)} /\ UNCHANGED resources
        /\ finalizars \in Nat /\ UNCHANGED ops /\ finalizars' \in 0 .. MaxFinalizar
    BY <1>1, <1>9 DEF CommandFinalizar, table
  <2>2. (\A j \in jobs : JobOK(j))' /\ jobs' \subseteq Callers(Ops, Places)
    BY <1>1, <1>2, <2>1 DEF Ops, Sentences
  <2>3. TypeOK' /\ PcpOK'
    BY <1>1, <1>9, <2>1, <2>2 DEF CommandFinalizar, table, data, TypeOK, PcpOK
  <2>4. QED  BY <2>2, <2>3 DEF TypesOK
<1>10. QED  BY <1>5, <1>6, <1>7, <1>8, <1>9 DEF CPU

-----------------------------------------------------------------------------
(***************************************************************************)
(* What a step does to the callers, and to what is counted of them.        *)
(***************************************************************************)

Turns(s, k) ==
    /\ s \in Running /\ s \in AllCallers /\ k \in AllCallers
    /\ Running' = (Running \ {s}) \cup {k}
    /\ k \notin Running \ {s} \/ s.op \notin Sentences \cup {"EXIT"}

\* The jobs stay finite and distinct when one gives its place to the next of its sentence.
LEMMA JobTurns ==
  ASSUME StateOK, TypesOK', NEW j \in jobs, NEW k, jobs' = (jobs \ {j}) \cup {k}, UNCHANGED pcp,
         k.dtb = j.dtb, k.n = j.n, k.op = j.op \/ (j.op = "WAIT" /\ k.op = "BLOCKDTB")
  PROVE  OneJobASentence' /\ IsFiniteSet(jobs') /\ Turns(j, k)
<1>1. /\ j \in Callers(Ops, Places) /\ k \in Callers(Ops, Places)
      /\ pcp.op = "EXIT" /\ OneJobASentence /\ IsFiniteSet(jobs)
      /\ jobs \subseteq Callers(Ops, Places)
  BY DEF StateOK, TypeOK, TypesOK, PcpOK, BooksOK, Callers
<1>2. OneJobASentence'
  BY <1>1 DEF OneJobASentence, Sentences
<1>3. IsFiniteSet(jobs')
  BY <1>1, FS_AddElement, FS_RemoveElement
<1>4. j.op # "EXIT" /\ k.op # "EXIT" /\ j \in AllCallers /\ k \in AllCallers
  BY <1>1 DEF Callers, Ops, AllCallers
<1>5. Running' = (Running \ {j}) \cup {k} /\ j \in Running
  BY <1>1, <1>4 DEF Running
<1>6. j.op \in Sentences => k \notin Running \ {j}
  BY <1>1, <1>4 DEF Running, OneJobASentence, Sentences
<1>7. QED  BY <1>2, <1>3, <1>4, <1>5, <1>6 DEF Turns

\* ... and when one is done.
LEMMA JobEnds ==
  ASSUME StateOK, NEW j \in jobs, Finished(j), UNCHANGED pcp
  PROVE  /\ OneJobASentence' /\ IsFiniteSet(jobs')
         /\ j \in Running /\ j \in AllCallers /\ Running' = Running \ {j}
<1>1. /\ j \in Callers(Ops, Places) /\ pcp.op = "EXIT" /\ OneJobASentence /\ IsFiniteSet(jobs)
  BY DEF StateOK, TypeOK, PcpOK, BooksOK, Callers
<1>2. OneJobASentence' /\ IsFiniteSet(jobs')
  BY <1>1, FS_RemoveElement DEF OneJobASentence, Finished
<1>3. j.op # "EXIT" /\ j \in AllCallers
  BY <1>1 DEF Callers, Ops, AllCallers
<1>4. QED  BY <1>1, <1>2, <1>3 DEF Running, Finished

\* The PCP goes from one place to the next.
LEMMA PcpTurns ==
  ASSUME StateOK, TypesOK', UNCHANGED jobs
  PROVE  \E s, k : s = pcp /\ k = pcp' /\ Turns(s, k)
<1>1. /\ pcp \in Callers({"EXIT"}, {"wait", "next", "wake", "give", "post"})
      /\ pcp' \in Callers({"EXIT"}, {"wait", "next", "wake", "give", "post"})
      /\ jobs \subseteq Callers(Ops, Places)
  BY DEF StateOK, TypeOK, TypesOK, PcpOK
<1>2. PICK s, k : s = pcp /\ k = pcp'
  OBVIOUS
<1>3. s.op = "EXIT" /\ k.op = "EXIT" /\ s \in AllCallers /\ k \in AllCallers
  BY <1>1, <1>2 DEF Callers, AllCallers, Places
<1>4. \A j \in jobs : j.op # "EXIT"
  BY <1>1 DEF Callers, Ops
<1>5. QED  BY <1>2, <1>3, <1>4 DEF Running, Turns

\* The callers are finitely many, and each is a possible one.
LEMMA RunningIsFinite ==
  ASSUME StateOK
  PROVE  IsFiniteSet(Running) /\ Running \subseteq AllCallers
<1>1. /\ pcp \in Callers({"EXIT"}, {"wait", "next", "wake", "give", "post"})
      /\ jobs \subseteq Callers(Ops, Places) /\ IsFiniteSet(jobs)
  BY DEF StateOK, TypeOK, PcpOK, BooksOK
<1>2. Running \subseteq AllCallers
  BY <1>1 DEF Callers, AllCallers, Running, Places
<1>3. QED  BY <1>1, <1>2, FS_AddElement DEF Running

\* InFlight counts the part of the callers that are of the kind, before and after a step.
LEMMA InFlightCounts ==
  ASSUME Running \subseteq AllCallers, NEW op, NEW at, NEW r
  PROVE  InFlight(op, at, r) = Cardinality(Running \cap Are(op, at, r))
<1>1. {j \in jobs \cup {pcp} : j.op \in op /\ j.at \in at /\ j.res = r}
        = Running \cap Are(op, at, r)
  BY DEF Running, Are
<1>2. QED  BY <1>1 DEF InFlight

\* The same of the next state.
LEMMA InFlightCountsNext ==
  ASSUME Running' \subseteq AllCallers, NEW op, NEW at, NEW r
  PROVE  InFlight(op, at, r)' = Cardinality(Running' \cap Are(op, at, r))
<1>1. {j \in jobs' \cup {pcp'} : j.op \in op /\ j.at \in at /\ j.res = r}
        = Running' \cap Are(op, at, r)
  BY DEF Running, Are
<1>2. QED  BY <1>1 DEF InFlight

\* What a caller that turns changes in what is counted.
Is(s, op, at, r) == IF s.op \in op /\ s.at \in at /\ s.res = r THEN 1 ELSE 0

\* One caller gives its place to another: how many are of a kind.
LEMMA TurnCounts ==
  ASSUME StateOK, NEW s, NEW k, Turns(s, k), NEW op, NEW at, NEW r,
         op \subseteq Sentences \cup {"EXIT"}, k.op \in op => s.op \in Sentences \cup {"EXIT"}
  PROVE  /\ InFlight(op, at, r) \in Nat /\ InFlight(op, at, r)' \in Nat
         /\ InFlight(op, at, r)' = InFlight(op, at, r) - Is(s, op, at, r) + Is(k, op, at, r)
<1>1. IsFiniteSet(Running) /\ Running \subseteq AllCallers /\ Running' \subseteq AllCallers
  BY RunningIsFinite DEF Turns
<1>2. /\ s \in Running /\ Running' = (Running \ {s}) \cup {k}
      /\ s \in Are(op, at, r) <=> s.op \in op /\ s.at \in at /\ s.res = r
      /\ k \in Are(op, at, r) <=> k.op \in op /\ k.at \in at /\ k.res = r
      /\ k \notin Running \ {s} \/ (s \notin Are(op, at, r) /\ k \notin Are(op, at, r))
  BY DEF Turns, Are
<1> DEFINE A == Are(op, at, r)
           R == Running
<1>3. /\ Cardinality(R \cap A) \in Nat /\ Cardinality(((R \ {s}) \cup {k}) \cap A) \in Nat
      /\ Cardinality(((R \ {s}) \cup {k}) \cap A)
           = Cardinality(R \cap A) - (IF s \in A THEN 1 ELSE 0) + (IF k \in A THEN 1 ELSE 0)
  <2>0. IsFiniteSet(R) /\ s \in R
    BY <1>1, <1>2 DEF R
  <2> HIDE DEF A, R
  <2>1. Cardinality(R \cap A) \in Nat
    BY <2>0, FS_Intersection, FS_CardinalityType
  <2>2. Cardinality(((R \ {s}) \cup {k}) \cap A) \in Nat
    BY <2>0, FS_AddElement, FS_RemoveElement, FS_Intersection, FS_CardinalityType
  <2>3. ASSUME k \notin R \ {s}
        PROVE  Cardinality(((R \ {s}) \cup {k}) \cap A)
                 = Cardinality(R \cap A) - (IF s \in A THEN 1 ELSE 0)
                                        + (IF k \in A THEN 1 ELSE 0)
    BY <2>0, <2>3, CountSwapped
  <2>4. ASSUME s \notin A, k \notin A
        PROVE  Cardinality(((R \ {s}) \cup {k}) \cap A) = Cardinality(R \cap A)
    BY <2>4, CountUntouched
  <2>5. k \notin R \ {s} \/ (s \notin A /\ k \notin A)
    BY <1>2 DEF R, A
  <2>6. CASE k \notin R \ {s}
    BY <2>1, <2>2, <2>3, <2>6
  <2>7. CASE s \notin A /\ k \notin A
    BY <2>1, <2>2, <2>4, <2>7
  <2>8. QED  BY <2>5, <2>6, <2>7
<1>4. /\ InFlight(op, at, r) = Cardinality(R \cap A)
      /\ InFlight(op, at, r)' = Cardinality(((R \ {s}) \cup {k}) \cap A)
  BY <1>1, <1>2, InFlightCounts, InFlightCountsNext
<1>5. /\ Is(s, op, at, r) = (IF s \in A THEN 1 ELSE 0)
      /\ Is(k, op, at, r) = (IF k \in A THEN 1 ELSE 0)
  BY <1>2 DEF Is
<1>6. QED  BY <1>3, <1>4, <1>5

\* ... and one that leaves.
LEMMA LeaveCounts ==
  ASSUME StateOK, NEW s, s \in Running, s \in AllCallers, Running' = Running \ {s},
         NEW op, NEW at, NEW r
  PROVE  /\ InFlight(op, at, r) \in Nat /\ InFlight(op, at, r)' \in Nat
         /\ InFlight(op, at, r)' = InFlight(op, at, r) - Is(s, op, at, r)
<1>1. IsFiniteSet(Running) /\ Running \subseteq AllCallers /\ Running' \subseteq AllCallers
  BY RunningIsFinite
<1> DEFINE A == Are(op, at, r)
<1>2. Is(s, op, at, r) = (IF s \in A THEN 1 ELSE 0)
  BY DEF Is, Are
<1>3. /\ Cardinality(Running \cap A) \in Nat /\ Cardinality((Running \ {s}) \cap A) \in Nat
      /\ Cardinality((Running \ {s}) \cap A) = Cardinality(Running \cap A)
                                                - (IF s \in A THEN 1 ELSE 0)
  BY <1>1, CountRemoved
<1>4. /\ InFlight(op, at, r) = Cardinality(Running \cap A)
      /\ InFlight(op, at, r)' = Cardinality((Running \ {s}) \cap A)
  BY <1>1, InFlightCounts, InFlightCountsNext
<1>5. QED  BY <1>2, <1>3, <1>4

\* ... and one that comes, at the start of its handler.
LEMMA ComeCounts ==
  ASSUME StateOK, NEW k, k \in AllCallers, Running' = Running \cup {k},
         NEW op, NEW at, NEW r, Is(k, op, at, r) = 0
  PROVE  /\ InFlight(op, at, r) \in Nat
         /\ InFlight(op, at, r)' = InFlight(op, at, r)
<1>1. IsFiniteSet(Running) /\ Running \subseteq AllCallers /\ Running' \subseteq AllCallers
  BY RunningIsFinite
<1> DEFINE A == Are(op, at, r)
<1>2. k \notin A
  BY DEF Is, Are
<1>3. /\ Cardinality(Running \cap A) \in Nat
      /\ Cardinality((Running \cup {k}) \cap A) = Cardinality(Running \cap A)
  BY <1>1, <1>2, CountAdded
<1>4. /\ InFlight(op, at, r) = Cardinality(Running \cap A)
      /\ InFlight(op, at, r)' = Cardinality((Running \cup {k}) \cap A)
  BY <1>1, InFlightCounts, InFlightCountsNext
<1>5. QED  BY <1>3, <1>4

-----------------------------------------------------------------------------
(***************************************************************************)
(* The turn of a DTB.                                                      *)
(***************************************************************************)

\* A caller gives its place to another, which holds nothing but what it held or nobody did.
LEMMA HoldersTurn ==
  ASSUME NEW R, NEW s \in R, NEW k, OneHolder(R),
         \A d \in DTBs : Holds(k, d) => Holds(s, d) \/ ~HeldBy(R, d)
  PROVE  /\ OneHolder((R \ {s}) \cup {k})
         /\ \A d \in DTBs : HeldBy((R \ {s}) \cup {k}, d) => HeldBy(R, d) \/ Holds(k, d)
         /\ \A d \in DTBs :
              Holds(s, d) => HeldBy(R, d) /\ (~Holds(k, d) => ~HeldBy((R \ {s}) \cup {k}, d))
<1>1. OneHolder((R \ {s}) \cup {k})
  <2>1. ASSUME NEW d \in DTBs, NEW x \in (R \ {s}) \cup {k}, NEW u \in (R \ {s}) \cup {k},
               Holds(x, d), Holds(u, d)
        PROVE  x = u
    <3>1. ASSUME NEW y \in R \ {s}, Holds(y, d), Holds(k, d)
          PROVE  FALSE
      BY <3>1 DEF OneHolder, HeldBy
    <3>2. CASE x \in R /\ u \in R
      BY <2>1, <3>2 DEF OneHolder
    <3>3. QED  BY <2>1, <3>1, <3>2
  <2>2. QED  BY <2>1 DEF OneHolder
<1>2. QED  BY <1>1 DEF HeldBy, OneHolder

\* A caller leaves.
LEMMA HoldersLeave ==
  ASSUME NEW R, NEW s \in R, OneHolder(R)
  PROVE  /\ OneHolder(R \ {s})
         /\ \A d \in DTBs : HeldBy(R \ {s}, d) => HeldBy(R, d)
         /\ \A d \in DTBs : Holds(s, d) => HeldBy(R, d) /\ ~HeldBy(R \ {s}, d)
BY DEF HeldBy, OneHolder

\* A caller comes.
LEMMA HoldersCome ==
  ASSUME NEW R, NEW k, OneHolder(R), \A d \in DTBs : Holds(k, d) => ~HeldBy(R, d)
  PROVE  /\ OneHolder(R \cup {k})
         /\ \A d \in DTBs : HeldBy(R \cup {k}, d) => HeldBy(R, d) \/ Holds(k, d)
BY DEF HeldBy, OneHolder

\* A DTB that is in no queue goes to the end of one.
LEMMA QueueAppended ==
  ASSUME NEW w \in [Names -> Seq(DTBs)], OnceQueued(w), NEW r \in Names, NEW d \in DTBs,
         ~QueuedIn(w, d)
  PROVE  /\ OnceQueued([w EXCEPT ![r] = Append(@, d)])
         /\ \A e \in DTBs : QueuedIn([w EXCEPT ![r] = Append(@, d)], e)
                              => QueuedIn(w, e) \/ e = d
<1>1. PICK v : v = [w EXCEPT ![r] = Append(@, d)]
  OBVIOUS
<1>2. w[r] \in Seq(DTBs) /\ Len(w[r]) \in Nat
  BY LenProperties
<1>3. /\ \A q \in Names \ {r} : v[q] = w[q]
      /\ v[r] = Append(w[r], d)
  BY <1>1
<1>4. /\ Len(v[r]) = Len(w[r]) + 1 /\ v[r][Len(w[r]) + 1] = d
      /\ \A i \in 1 .. Len(w[r]) : v[r][i] = w[r][i]
  BY <1>2, <1>3, AppendProperties
<1>5. \A i : i \in 1 .. Len(w[r]) + 1 <=> i \in 1 .. Len(w[r]) \/ i = Len(w[r]) + 1
  BY <1>2, IntervalGrows
<1>6. ASSUME NEW q \in Names, NEW i \in 1 .. Len(v[q])
      PROVE  \/ i \in 1 .. Len(w[q]) /\ v[q][i] = w[q][i]
             \/ q = r /\ i = Len(w[r]) + 1 /\ v[q][i] = d
  BY <1>3, <1>4, <1>5
<1>7. \A q \in Names : \A i \in 1 .. Len(w[q]) : w[q][i] # d
  BY DEF QueuedIn
<1>8. OnceQueued(v)
  <2>1. ASSUME NEW p \in Names, NEW q \in Names, NEW i \in 1 .. Len(v[p]),
               NEW k \in 1 .. Len(v[q]), v[p][i] = v[q][k]
        PROVE  p = q /\ i = k
    <3>1. CASE i \in 1 .. Len(w[p]) /\ v[p][i] = w[p][i] /\ k \in 1 .. Len(w[q])
               /\ v[q][k] = w[q][k]
      <4>1. w[p][i] = w[q][k]
        BY <2>1, <3>1
      <4>2. QED  BY <3>1, <4>1 DEF OnceQueued
    <3>2. CASE i \in 1 .. Len(w[p]) /\ v[p][i] = w[p][i] /\ q = r /\ k = Len(w[r]) + 1
               /\ v[q][k] = d
      BY <1>7, <2>1, <3>2
    <3>3. CASE k \in 1 .. Len(w[q]) /\ v[q][k] = w[q][k] /\ p = r /\ i = Len(w[r]) + 1
               /\ v[p][i] = d
      BY <1>7, <2>1, <3>3
    <3>4. CASE p = r /\ i = Len(w[r]) + 1 /\ q = r /\ k = Len(w[r]) + 1
      BY <3>4
    <3>5. \/ i \in 1 .. Len(w[p]) /\ v[p][i] = w[p][i]
          \/ p = r /\ i = Len(w[r]) + 1 /\ v[p][i] = d
      BY <1>6
    <3>6. \/ k \in 1 .. Len(w[q]) /\ v[q][k] = w[q][k]
          \/ q = r /\ k = Len(w[r]) + 1 /\ v[q][k] = d
      BY <1>6
    <3>7. QED  BY <3>1, <3>2, <3>3, <3>4, <3>5, <3>6
  <2>2. QED  BY <2>1 DEF OnceQueued
<1>9. \A e \in DTBs : QueuedIn(v, e) => QueuedIn(w, e) \/ e = d
  BY <1>6 DEF QueuedIn
<1>10. QED  BY <1>1, <1>8, <1>9

\* The first DTB of a queue is taken out of it.
LEMMA QueueTailed ==
  ASSUME NEW w \in [Names -> Seq(DTBs)], OnceQueued(w), NEW r \in Names, w[r] # <<>>
  PROVE  /\ OnceQueued([w EXCEPT ![r] = Tail(@)])
         /\ \A e \in DTBs : QueuedIn([w EXCEPT ![r] = Tail(@)], e)
                              => QueuedIn(w, e) /\ e # Head(w[r])
         /\ Head(w[r]) \in DTBs /\ QueuedIn(w, Head(w[r]))
<1>1. PICK v, d : v = [w EXCEPT ![r] = Tail(@)] /\ d = Head(w[r])
  OBVIOUS
<1>2. /\ w[r] \in Seq(DTBs) /\ Len(w[r]) \in Nat \ {0} /\ Head(w[r]) \in DTBs
      /\ w[r][1] = d
  BY <1>1, LenProperties, EmptySeq, HeadTailProperties
<1>3. /\ \A q \in Names \ {r} : v[q] = w[q]
      /\ v[r] = Tail(w[r])
  BY <1>1
<1>4. /\ Len(v[r]) = Len(w[r]) - 1
      /\ \A i \in 1 .. Len(v[r]) : v[r][i] = w[r][i + 1]
  BY <1>2, <1>3, HeadTailProperties
<1>5. ASSUME NEW q \in Names, NEW i \in 1 .. Len(v[q]), NEW n, n = IF q = r THEN i + 1 ELSE i
      PROVE  n \in 1 .. Len(w[q]) /\ v[q][i] = w[q][n] /\ (q # r \/ n # 1)
  <2>1. CASE q # r
    BY <1>3, <1>5, <2>1
  <2>2. CASE q = r
    <3>1. i \in 1 .. Len(v[r]) /\ n = i + 1 /\ Len(w[r]) \in Nat
      BY <1>2, <1>5, <2>2
    <3>2. n \in 1 .. Len(w[r]) /\ n # 1
      BY <1>4, <3>1
    <3>3. v[r][i] = w[r][n]
      BY <1>4, <3>1
    <3>4. QED  BY <2>2, <3>2, <3>3
  <2>3. QED  BY <2>1, <2>2
<1>10. ASSUME NEW q \in Names
       PROVE  Len(v[q]) \in Int
  <2>1. CASE q = r
    BY <1>2, <1>4, <2>1
  <2>2. CASE q # r
    <3>1. v[q] = w[q] /\ w[q] \in Seq(DTBs)
      BY <1>3, <2>2
    <3>2. QED  BY <3>1, LenProperties
  <2>3. QED  BY <2>1, <2>2
<1>6. OnceQueued(v)
  <2>1. ASSUME NEW p \in Names, NEW q \in Names, NEW i \in 1 .. Len(v[p]),
               NEW k \in 1 .. Len(v[q]), v[p][i] = v[q][k]
        PROVE  p = q /\ i = k
    <3>1. PICK n, m : n = (IF p = r THEN i + 1 ELSE i) /\ m = (IF q = r THEN k + 1 ELSE k)
      OBVIOUS
    <3>2. n \in 1 .. Len(w[p]) /\ v[p][i] = w[p][n]
      BY <1>5, <3>1
    <3>3. m \in 1 .. Len(w[q]) /\ v[q][k] = w[q][m]
      BY <1>5, <3>1
    <3>4. p = q /\ n = m
      <4>1. w[p][n] = w[q][m]
        BY <2>1, <3>2, <3>3
      <4>2. QED  BY <3>2, <3>3, <4>1 DEF OnceQueued
    <3>5. i \in Int /\ k \in Int
      <4>1. Len(v[p]) \in Int /\ Len(v[q]) \in Int
        BY <1>10
      <4>2. \A b \in Int : \A x \in 1 .. b : x \in Int
        OBVIOUS
      <4>3. QED  BY <4>1, <4>2
    <3>6. QED  BY <3>1, <3>4, <3>5
  <2>2. QED  BY <2>1 DEF OnceQueued
<1>7. QueuedIn(w, d)
  BY <1>2 DEF QueuedIn
<1>8. ASSUME NEW e \in DTBs, QueuedIn(v, e)
      PROVE  QueuedIn(w, e) /\ e # d
  <2>1. PICK q \in Names : \E i \in 1 .. Len(v[q]) : v[q][i] = e
    BY <1>8 DEF QueuedIn
  <2>7. PICK i \in 1 .. Len(v[q]) : v[q][i] = e
    BY <2>1
  <2>2. PICK n : n = IF q = r THEN i + 1 ELSE i
    OBVIOUS
  <2>3. n \in 1 .. Len(w[q]) /\ w[q][n] = e /\ (q # r \/ n # 1)
    BY <1>5, <2>7, <2>2
  <2>4. 1 \in 1 .. Len(w[r])
    BY <1>2
  <2>5. e # d
    BY <1>2, <2>3, <2>4 DEF OnceQueued
  <2>6. QED  BY <2>3, <2>5 DEF QueuedIn
<1>9. QED  BY <1>1, <1>2, <1>6, <1>7, <1>8

\* A queue is emptied.
LEMMA QueueEmptied ==
  ASSUME NEW w \in [Names -> Seq(DTBs)], OnceQueued(w), NEW r \in Names
  PROVE  /\ OnceQueued([w EXCEPT ![r] = <<>>])
         /\ \A e \in DTBs : QueuedIn([w EXCEPT ![r] = <<>>], e) => QueuedIn(w, e)
<1>1. PICK v : v = [w EXCEPT ![r] = <<>>]
  OBVIOUS
<1>2. \A q \in Names : \A i \in 1 .. Len(v[q]) : q # r /\ v[q] = w[q]
  <2>1. Len(v[r]) = 0 /\ \A q \in Names \ {r} : v[q] = w[q]
    BY <1>1, EmptySeq
  <2>2. QED  BY <2>1
<1>3. OnceQueued(v) /\ \A e \in DTBs : QueuedIn(v, e) => QueuedIn(w, e)
  BY <1>2 DEF OnceQueued, QueuedIn
<1>4. QED  BY <1>1, <1>3

\* A DTB is taken out of every queue.
LEMMA QueueLeft ==
  ASSUME NEW w \in [Names -> Seq(DTBs)], OnceQueued(w), NEW d
  PROVE  /\ OnceQueued([r \in Names |-> RemoveFirst(w[r], d)])
         /\ \A e \in DTBs : QueuedIn([r \in Names |-> RemoveFirst(w[r], d)], e) => QueuedIn(w, e)
<1>1. PICK v : v = [r \in Names |-> RemoveFirst(w[r], d)]
  OBVIOUS
<1>2. ASSUME NEW q \in Names
      PROVE  \/ v[q] = w[q]
             \/ \E n \in 1 .. Len(w[q]) :
                  /\ Len(v[q]) = Len(w[q]) - 1
                  /\ \A i \in 1 .. Len(w[q]) - 1 : v[q][i] = w[q][IF i < n THEN i ELSE i + 1]
  <2>1. w[q] \in Seq(DTBs)
    OBVIOUS
  <2>2. \A i, k \in 1 .. Len(w[q]) : w[q][i] = d /\ w[q][k] = d => i = k
    BY DEF OnceQueued
  <2>3. PICK s : s = w[q]
    OBVIOUS
  <2>4. CASE d \notin Range(s)
    <3>1. RemoveFirst(s, d) = s
      BY <2>1, <2>2, <2>3, <2>4, TakenOut
    <3>2. QED  BY <1>1, <2>3, <3>1
  <2>5. CASE d \in Range(s)
    <3>1. \E n \in 1 .. Len(s) :
                /\ s[n] = d
                /\ Len(RemoveFirst(s, d)) = Len(s) - 1
                /\ \A i \in 1 .. Len(s) - 1 :
                     RemoveFirst(s, d)[i] = s[IF i < n THEN i ELSE i + 1]
      BY <2>1, <2>2, <2>3, <2>5, TakenOut
    <3>2. v[q] = RemoveFirst(s, d)
      BY <1>1, <2>3
    <3>3. QED  BY <2>3, <3>1, <3>2
  <2>6. QED  BY <2>4, <2>5
<1>3. ASSUME NEW q \in Names
      PROVE  \E n \in Nat : \A i \in 1 .. Len(v[q]) :
               /\ (IF i < n THEN i ELSE i + 1) \in 1 .. Len(w[q])
               /\ v[q][i] = w[q][IF i < n THEN i ELSE i + 1]
  <2>1. w[q] \in Seq(DTBs) /\ Len(w[q]) \in Nat
    BY LenProperties
  <2>2. CASE v[q] = w[q]
    <3>1. PICK n : n = Len(w[q]) + 1
      OBVIOUS
    <3>2. n \in Nat /\ \A i \in 1 .. Len(v[q]) :
               /\ (IF i < n THEN i ELSE i + 1) \in 1 .. Len(w[q])
               /\ v[q][i] = w[q][IF i < n THEN i ELSE i + 1]
      BY <2>1, <2>2, <3>1
    <3>3. QED  BY <3>2
  <2>3. CASE v[q] # w[q]
    <3>1. PICK n \in 1 .. Len(w[q]) :
                  /\ Len(v[q]) = Len(w[q]) - 1
                  /\ \A i \in 1 .. Len(w[q]) - 1 : v[q][i] = w[q][IF i < n THEN i ELSE i + 1]
      BY <1>2, <2>3
    <3>2. n \in Nat /\ \A i \in 1 .. Len(v[q]) :
               /\ (IF i < n THEN i ELSE i + 1) \in 1 .. Len(w[q])
               /\ v[q][i] = w[q][IF i < n THEN i ELSE i + 1]
      BY <2>1, <3>1
    <3>3. QED  BY <3>2
  <2>4. QED  BY <2>2, <2>3
<1>4. OnceQueued(v)
  <2>1. ASSUME NEW p \in Names, NEW q \in Names, NEW i \in 1 .. Len(v[p]),
               NEW k \in 1 .. Len(v[q]), v[p][i] = v[q][k]
        PROVE  p = q /\ i = k
    <3>0. PICK np \in Nat : \A x \in 1 .. Len(v[p]) :
               /\ (IF x < np THEN x ELSE x + 1) \in 1 .. Len(w[p])
               /\ v[p][x] = w[p][IF x < np THEN x ELSE x + 1]
      BY <1>3
    <3>1. PICK nq \in Nat : \A x \in 1 .. Len(v[q]) :
               /\ (IF x < nq THEN x ELSE x + 1) \in 1 .. Len(w[q])
               /\ v[q][x] = w[q][IF x < nq THEN x ELSE x + 1]
      BY <1>3
    <3>2. PICK a, b : a = (IF i < np THEN i ELSE i + 1) /\ b = (IF k < nq THEN k ELSE k + 1)
      OBVIOUS
    <3>3. a \in 1 .. Len(w[p]) /\ v[p][i] = w[p][a]
      BY <3>0, <3>2
    <3>4. b \in 1 .. Len(w[q]) /\ v[q][k] = w[q][b]
      BY <3>1, <3>2
    <3>5. p = q /\ a = b
      <4>1. w[p][a] = w[q][b]
        BY <2>1, <3>3, <3>4
      <4>2. QED  BY <3>3, <3>4, <4>1 DEF OnceQueued
    <3>6. i = k
      <4>1. PICK c : c = (IF k < np THEN k ELSE k + 1)
        OBVIOUS
      <4>2. c \in 1 .. Len(w[q]) /\ v[q][k] = w[q][c]
        BY <3>0, <3>5, <4>1
      <4>3. a = c
        <5>1. w[p][a] = w[q][c]
          BY <2>1, <3>3, <4>2
        <5>2. QED  BY <3>3, <4>2, <5>1 DEF OnceQueued
      <4>4. i \in Int /\ k \in Int
        <5>1. \A x \in Names : Len(v[x]) \in Int
          <6> TAKE x \in Names
          <6>1. Len(w[x]) \in Nat
            BY LenProperties
          <6>2. QED  BY <1>2, <6>1
        <5>2. QED  BY <5>1
      <4>5. QED  BY <3>2, <4>1, <4>3, <4>4
    <3>7. QED  BY <3>5, <3>6
  <2>2. QED  BY <2>1 DEF OnceQueued
<1>5. ASSUME NEW e \in DTBs, QueuedIn(v, e)
      PROVE  QueuedIn(w, e)
  <2>1. PICK q \in Names : \E i \in 1 .. Len(v[q]) : v[q][i] = e
    BY <1>5 DEF QueuedIn
  <2>2. PICK i \in 1 .. Len(v[q]) : v[q][i] = e
    BY <2>1
  <2>3. PICK n \in Nat : \A x \in 1 .. Len(v[q]) :
               /\ (IF x < n THEN x ELSE x + 1) \in 1 .. Len(w[q])
               /\ v[q][x] = w[q][IF x < n THEN x ELSE x + 1]
    BY <1>3
  <2>4. PICK a : a = IF i < n THEN i ELSE i + 1
    OBVIOUS
  <2>5. a \in 1 .. Len(w[q]) /\ w[q][a] = e
    BY <2>2, <2>3, <2>4
  <2>6. QED  BY <2>5 DEF QueuedIn
<1>6. QED  BY <1>1, <1>4, <1>5

\* A DTB that is not to be unlocked yet comes to the end of those that are.
LEMMA GoingAppended ==
  ASSUME NEW u \in Seq(DTBs), OnceGoing(u), NEW d \in DTBs, ~GoingIn(u, d)
  PROVE  /\ OnceGoing(Append(u, d))
         /\ \A e \in DTBs : GoingIn(Append(u, d), e) => GoingIn(u, e) \/ e = d
<1>1. PICK v : v = Append(u, d)
  OBVIOUS
<1>2. /\ Len(u) \in Nat /\ Len(v) = Len(u) + 1 /\ v[Len(u) + 1] = d
      /\ \A i \in 1 .. Len(u) : v[i] = u[i]
  BY <1>1, AppendProperties, LenProperties
<1>3. ASSUME NEW i \in 1 .. Len(v)
      PROVE  (i \in 1 .. Len(u) /\ v[i] = u[i]) \/ (i = Len(u) + 1 /\ v[i] = d)
  <2>1. i \in 1 .. Len(u) + 1
    BY <1>2
  <2>2. i \in 1 .. Len(u) \/ i = Len(u) + 1
    BY <1>2, <2>1, IntervalGrows
  <2>3. CASE i \in 1 .. Len(u)
    BY <1>2, <2>3
  <2>4. CASE i = Len(u) + 1
    BY <1>2, <2>4
  <2>5. QED  BY <2>2, <2>3, <2>4
<1>4. \A i \in 1 .. Len(u) : u[i] # d
  BY DEF GoingIn
<1>5. OnceGoing(v)
  <2>1. ASSUME NEW i \in 1 .. Len(v), NEW k \in 1 .. Len(v), v[i] = v[k]
        PROVE  i = k
    <3>1. (i \in 1 .. Len(u) /\ v[i] = u[i]) \/ (i = Len(u) + 1 /\ v[i] = d)
      BY <1>3
    <3>2. (k \in 1 .. Len(u) /\ v[k] = u[k]) \/ (k = Len(u) + 1 /\ v[k] = d)
      BY <1>3
    <3>3. QED  BY <1>4, <2>1, <3>1, <3>2 DEF OnceGoing
  <2>2. QED  BY <2>1 DEF OnceGoing
<1>6. ASSUME NEW e \in DTBs, GoingIn(v, e)
      PROVE  GoingIn(u, e) \/ e = d
  <2>1. PICK i \in 1 .. Len(v) : v[i] = e
    BY <1>6 DEF GoingIn
  <2>2. (i \in 1 .. Len(u) /\ v[i] = u[i]) \/ v[i] = d
    BY <1>3
  <2>3. QED  BY <2>1, <2>2 DEF GoingIn
<1>7. QED  BY <1>1, <1>5, <1>6

\* The first of them is unlocked.
LEMMA GoingTailed ==
  ASSUME NEW u \in Seq(DTBs), OnceGoing(u), u # <<>>
  PROVE  /\ OnceGoing(Tail(u))
         /\ \A e \in DTBs : GoingIn(Tail(u), e) => GoingIn(u, e) /\ e # Head(u)
         /\ Head(u) \in DTBs /\ GoingIn(u, Head(u))
<1>1. PICK v, d : v = Tail(u) /\ d = Head(u)
  OBVIOUS
<1>2. /\ Len(u) \in Nat \ {0} /\ d \in DTBs /\ u[1] = d
      /\ Len(v) = Len(u) - 1 /\ \A i \in 1 .. Len(v) : v[i] = u[i + 1]
  BY <1>1, LenProperties, EmptySeq, HeadTailProperties
<1>3. \A i \in 1 .. Len(v) : i + 1 \in 1 .. Len(u) /\ i + 1 # 1
  BY <1>2
<1>4. 1 \in 1 .. Len(u)
  BY <1>2
<1>5. OnceGoing(v)
  <2>1. ASSUME NEW i \in 1 .. Len(v), NEW k \in 1 .. Len(v), v[i] = v[k]
        PROVE  i = k
    <3>1. u[i + 1] = u[k + 1]
      BY <1>2, <2>1
    <3>2. i + 1 = k + 1
      BY <1>3, <3>1 DEF OnceGoing
    <3>3. QED  BY <1>2, <3>2
  <2>2. QED  BY <2>1 DEF OnceGoing
<1>6. ASSUME NEW e \in DTBs, GoingIn(v, e)
      PROVE  GoingIn(u, e) /\ e # d
  <2>1. PICK i \in 1 .. Len(v) : v[i] = e
    BY <1>6 DEF GoingIn
  <2>2. i + 1 \in 1 .. Len(u) /\ u[i + 1] = e /\ i + 1 # 1
    BY <1>2, <1>3, <2>1
  <2>3. QED  BY <1>2, <1>4, <2>2 DEF GoingIn, OnceGoing
<1>7. GoingIn(u, d)
  BY <1>2, <1>4 DEF GoingIn
<1>8. QED  BY <1>1, <1>2, <1>5, <1>6, <1>7

\* Nobody comes to have the turn of d who did not have it.
NoNewTurn(d) ==
    /\ place'[d] = "READY" => place[d] = "READY"
    /\ cpu'[d] = "running" => cpu[d] = "running"
    /\ HeldBy(Running', d) => HeldBy(Running, d)
    /\ QueuedIn(waiters', d) => QueuedIn(waiters, d)
    /\ GoingIn(toBeUnlocked', d) => GoingIn(toBeUnlocked, d)

\* A step moves the turn of a DTB into one place, or into none.
LEMMA TurnMoves ==
  ASSUME OneTurn,
         OneHolder(Running'), OnceQueued(waiters'), OnceGoing(toBeUnlocked'),
         \A d \in DTBs : \/ NoNewTurn(d)
                         \/ Alone(d, place', cpu', Running', waiters', toBeUnlocked')
  PROVE  OneTurn'
<1>1. ASSUME NEW d \in DTBs, NoNewTurn(d)
      PROVE  Alone(d, place', cpu', Running', waiters', toBeUnlocked')
  <2>1. Alone(d, place, cpu, Running, waiters, toBeUnlocked)
    BY DEF OneTurn
  <2>2. QED  BY <1>1, <2>1 DEF Alone, NoNewTurn
<1>2. \A d \in DTBs : Alone(d, place', cpu', Running', waiters', toBeUnlocked')
  BY <1>1
<1>3. QED  BY <1>2 DEF OneTurn

\* A job that goes on to place a is still its own.
LEMMA GoesOn ==
  ASSUME StateOK, TypesOK', NEW j \in jobs, NEW a \in Places, Becomes(j, a), UNCHANGED pcp
  PROVE  \E k \in AllCallers :
            /\ k.op = j.op /\ k.dtb = j.dtb /\ k.res = j.res /\ k.n = j.n /\ k.at = a
            /\ k.to = j.to /\ Turns(j, k) /\ OneJobASentence' /\ IsFiniteSet(jobs')
<1>1. j \in Callers(Ops, Places)
  BY DEF StateOK, JobOK
<1>2. PICK k : k = [j EXCEPT !.at = a]
  OBVIOUS
<1>3. /\ k \in Callers(Ops, Places)
      /\ k.op = j.op /\ k.dtb = j.dtb /\ k.res = j.res /\ k.n = j.n /\ k.at = a
      /\ k.to = j.to
  BY <1>1, <1>2, AtPlace
<1>4. jobs' = (jobs \ {j}) \cup {k}
  BY <1>2 DEF Becomes
<1>5. OneJobASentence' /\ IsFiniteSet(jobs') /\ Turns(j, k)
  BY <1>3, <1>4, JobTurns
<1>6. QED  BY <1>3, <1>5 DEF Turns

\* A job takes its next place and holds no turn it did not hold, and nothing else of the
\* turns changes, or only for the worse.
LEMMA TurnKeptBy ==
  ASSUME OneTurn, NEW s, NEW k, Turns(s, k), \A d \in DTBs : Holds(k, d) => Holds(s, d),
         \A d \in DTBs : place'[d] = "READY" => place[d] = "READY",
         \A d \in DTBs : cpu'[d] = "running" => cpu[d] = "running",
         OnceQueued(waiters'),
         \A d \in DTBs : QueuedIn(waiters', d) => QueuedIn(waiters, d),
         UNCHANGED toBeUnlocked
  PROVE  OneTurn'
<1>1. OneHolder(Running) /\ OnceGoing(toBeUnlocked')
  BY DEF OneTurn
<1>2. s \in Running /\ Running' = (Running \ {s}) \cup {k}
  BY DEF Turns
<1>3. OneHolder(Running') /\ \A d \in DTBs : HeldBy(Running', d) => HeldBy(Running, d)
  <2>1. \A d \in DTBs : Holds(s, d) => HeldBy(Running, d)
    BY <1>2 DEF HeldBy
  <2>2. QED  BY <1>1, <1>2, <2>1, HoldersTurn
<1>4. \A d \in DTBs : NoNewTurn(d)
  BY <1>3 DEF NoNewTurn
<1>5. QED  BY <1>1, <1>3, <1>4, TurnMoves

\* ... or it is done.
LEMMA TurnKeptWithout ==
  ASSUME OneTurn, NEW s, s \in Running, Running' = Running \ {s},
         UNCHANGED <<place, cpu, waiters, toBeUnlocked>>
  PROVE  OneTurn'
<1>1. OneHolder(Running) /\ OnceQueued(waiters') /\ OnceGoing(toBeUnlocked')
  BY DEF OneTurn
<1>2. OneHolder(Running') /\ \A d \in DTBs : HeldBy(Running', d) => HeldBy(Running, d)
  BY <1>1, HoldersLeave
<1>3. \A d \in DTBs : NoNewTurn(d)
  BY <1>2 DEF NoNewTurn
<1>4. QED  BY <1>1, <1>2, <1>3, TurnMoves

\* The steps of a WAIT: its DTB has its turn until it is granted, or refused and a waiter.
LEMMA TurnOfWaits ==
  ASSUME StateOK, OneTurn, TypesOK', NEW j \in jobs, WaitStep(j)
  PROVE  OneTurn'
<1>1. /\ JobOK(j) /\ j.dtb \in DTBs /\ j.op = "WAIT" /\ UNCHANGED <<pcp, place, toBeUnlocked>>
      /\ waiters \in [Names -> Seq(DTBs)] /\ cpu \in [DTBs -> {"idle", "running", "asking"}]
      /\ j.res \in Names /\ OneHolder(Running) /\ OnceQueued(waiters)
      /\ OnceGoing(toBeUnlocked)
  BY DEF StateOK, TypeOK, JobOK, OneTurn, WaitStep, WaitLooksUp, WaitCreates, WaitIsGranted,
     WaitIsRefused, WaitGrants, data
<1>2. ASSUME NEW a \in Places \ {"give"}, Becomes(j, a)
      PROVE  \E k : Turns(j, k) /\ \A d \in DTBs : Holds(k, d) => Holds(j, d)
  <2>1. PICK k \in AllCallers : k.op = j.op /\ k.dtb = j.dtb /\ k.at = a /\ Turns(j, k)
    BY <1>1, <1>2, GoesOn
  <2>2. QED  BY <1>1, <2>1 DEF Holds
<1>3. CASE WaitLooksUp(j) \/ WaitIsGranted(j)
  <2>1. /\ \E a \in Places \ {"give"} : Becomes(j, a)
        /\ UNCHANGED <<waiters, cpu>>
    BY <1>3 DEF WaitLooksUp, WaitIsGranted, table, Places
  <2>2. PICK k : Turns(j, k) /\ \A d \in DTBs : Holds(k, d) => Holds(j, d)
    BY <1>2, <2>1
  <2>3. QED  BY <1>1, <2>1, <2>2, TurnKeptBy
<1>4. CASE WaitCreates(j)
  <2>1. Becomes(j, "take") /\ UNCHANGED cpu /\ waiters' = [waiters EXCEPT ![j.res] = <<>>]
    BY <1>4 DEF WaitCreates, AddNewResource
  <2>2. PICK k : Turns(j, k) /\ \A d \in DTBs : Holds(k, d) => Holds(j, d)
    BY <1>2, <2>1 DEF Places
  <2>3. OnceQueued(waiters') /\ \A d \in DTBs : QueuedIn(waiters', d) => QueuedIn(waiters, d)
    BY <1>1, <2>1, QueueEmptied
  <2>4. QED  BY <1>1, <2>1, <2>2, <2>3, TurnKeptBy
<1>5. CASE WaitIsRefused(j)
  <2>1. PICK k : k = Job("BLOCKDTB", j.dtb, j.res, j.n)
    OBVIOUS
  <2>2. /\ jobs' = (jobs \ {j}) \cup {k} /\ k.op = "BLOCKDTB" /\ k.dtb = j.dtb /\ k.n = j.n
        /\ k.at = "start" /\ UNCHANGED waiters
    BY <1>5, <2>1 DEF WaitIsRefused, Job
  <2>3. Turns(j, k)
    BY <1>1, <2>2, JobTurns
  <2>4. \A d \in DTBs : Holds(k, d) => Holds(j, d)
    BY <1>1, <2>2 DEF Holds
  <2>5. \A d \in DTBs : cpu'[d] = "running" => cpu[d] = "running"
    BY <1>1, <1>5 DEF WaitIsRefused
  <2>6. QED  BY <1>1, <2>2, <2>3, <2>4, <2>5, TurnKeptBy
<1>6. CASE WaitGrants(j)
  <2>1. /\ Running' = Running \ {j} /\ j \in Running
        /\ UNCHANGED waiters /\ cpu' = [cpu EXCEPT ![j.dtb] = "running"]
        /\ place[j.dtb] = "EXEC"
    BY <1>1, <1>6, JobEnds DEF WaitGrants, table
  <2>2. /\ OneHolder(Running')
        /\ \A d \in DTBs : HeldBy(Running', d) => HeldBy(Running, d)
        /\ \A d \in DTBs : Holds(j, d) => HeldBy(Running, d) /\ ~HeldBy(Running', d)
    BY <1>1, <2>1, HoldersLeave
  <2>3. Holds(j, j.dtb)
    BY <1>1 DEF Holds
  <2>4. Alone(j.dtb, place, cpu, Running, waiters, toBeUnlocked)
    BY <1>1 DEF OneTurn
  <2>5. /\ place'[j.dtb] # "READY" /\ ~HeldBy(Running', j.dtb)
        /\ ~QueuedIn(waiters', j.dtb) /\ ~GoingIn(toBeUnlocked', j.dtb)
    BY <1>1, <2>1, <2>2, <2>3, <2>4 DEF Alone
  <2>6. Alone(j.dtb, place', cpu', Running', waiters', toBeUnlocked')
    BY <2>5 DEF Alone
  <2>7. \A d \in DTBs \ {j.dtb} : NoNewTurn(d)
    BY <1>1, <2>1, <2>2 DEF NoNewTurn
  <2>8. QED  BY <1>1, <2>1, <2>2, <2>6, <2>7, TurnMoves
<1>7. QED  BY <1>3, <1>4, <1>5, <1>6 DEF WaitStep

\* The steps of a SIGNAL: the turn of the waiter it wakes, until it is to be unlocked.
LEMMA TurnOfSignals ==
  ASSUME StateOK, OneTurn, TypesOK', NEW j \in jobs, SigFrame(j), SigStep(j)
  PROVE  OneTurn'
<1>1. /\ JobOK(j) /\ j.op = "SIGNAL" /\ UNCHANGED <<pcp, place, cpu>>
      /\ waiters \in [Names -> Seq(DTBs)] /\ toBeUnlocked \in Seq(DTBs)
      /\ j.res \in Names /\ OneHolder(Running) /\ OnceQueued(waiters)
      /\ OnceGoing(toBeUnlocked) /\ j \in Callers(Ops, Places)
      /\ \A d \in DTBs : Alone(d, place, cpu, Running, waiters, toBeUnlocked)
  BY DEF StateOK, TypeOK, JobOK, OneTurn, SigFrame
<1>2. ASSUME NEW a \in Places \ {"give"}, Becomes(j, a)
      PROVE  \E k : Turns(j, k) /\ \A d \in DTBs : ~Holds(k, d)
  <2>1. PICK k \in AllCallers : k.op = j.op /\ k.dtb = j.dtb /\ k.at = a /\ Turns(j, k)
    BY <1>1, <1>2, GoesOn
  <2>2. QED  BY <1>1, <2>1 DEF Holds
<1>3. CASE SigReturns(j) \/ SigMisses(j) \/ SigDropsKept(j) \/ SigDropsNothing(j)
  <2>1. /\ \E a \in Places \ {"give"} : Becomes(j, a)
        /\ UNCHANGED <<waiters, toBeUnlocked>>
    BY <1>3 DEF SigReturns, SigMisses, SigDropsKept, SigDropsNothing, table, Places
  <2>2. PICK k : Turns(j, k) /\ \A d \in DTBs : ~Holds(k, d)
    BY <1>2, <2>1
  <2>3. QED  BY <1>1, <2>1, <2>2, TurnKeptBy
<1>4. CASE SigCreates(j)
  <2>1. Becomes(j, "drop") /\ UNCHANGED toBeUnlocked
        /\ waiters' = [waiters EXCEPT ![j.res] = <<>>]
    BY <1>4 DEF SigCreates, AddNewResource
  <2>2. PICK k : Turns(j, k) /\ \A d \in DTBs : ~Holds(k, d)
    BY <1>2, <2>1 DEF Places
  <2>3. OnceQueued(waiters') /\ \A d \in DTBs : QueuedIn(waiters', d) => QueuedIn(waiters, d)
    BY <1>1, <2>1, QueueEmptied
  <2>4. QED  BY <1>1, <2>1, <2>2, <2>3, TurnKeptBy
<1>5. CASE SigFindsNobody(j) \/ SigPosts(j)
  <2>1. Finished(j) /\ UNCHANGED <<waiters, toBeUnlocked>>
    BY <1>5 DEF SigFindsNobody, SigPosts, table
  <2>2. Running' = Running \ {j} /\ j \in Running
    BY <1>1, <2>1, JobEnds
  <2>3. QED  BY <1>1, <2>1, <2>2, TurnKeptWithout
<1>6. CASE SigWakes(j)
  <2>1. PICK e, k : e = Head(waiters[j.res]) /\ k = [j EXCEPT !.at = "give", !.to = e]
    OBVIOUS
  <2>2. /\ jobs' = (jobs \ {j}) \cup {k} /\ UNCHANGED toBeUnlocked
        /\ waiters[j.res] # <<>>
        /\ waiters' = [waiters EXCEPT ![j.res] = Tail(@)]
    BY <1>6, <2>1 DEF SigWakes
  <2>3. /\ k.op = "SIGNAL" /\ k.dtb = j.dtb /\ k.n = j.n /\ k.at = "give" /\ k.to = e
    BY <1>1, <2>1 DEF Callers
  <2>4. Turns(j, k)
    BY <1>1, <2>2, <2>3, JobTurns
  <2>5. /\ OnceQueued(waiters')
        /\ \A d \in DTBs : QueuedIn(waiters', d) => QueuedIn(waiters, d) /\ d # e
        /\ e \in DTBs /\ QueuedIn(waiters, e)
    BY <1>1, <2>1, <2>2, QueueTailed
  <2>6. \A d \in DTBs : Holds(k, d) <=> d = e
    BY <2>3 DEF Holds
  <2>7. /\ place[e] # "READY" /\ cpu[e] # "running" /\ ~HeldBy(Running, e)
        /\ ~GoingIn(toBeUnlocked, e)
    BY <1>1, <2>5 DEF Alone
  <2>8. /\ OneHolder(Running')
        /\ \A d \in DTBs : HeldBy(Running', d) => HeldBy(Running, d) \/ d = e
    <3>1. j \in Running /\ Running' = (Running \ {j}) \cup {k}
      BY <2>4 DEF Turns
    <3>2. \A d \in DTBs : Holds(k, d) => Holds(j, d) \/ ~HeldBy(Running, d)
      BY <2>6, <2>7
    <3>3. QED  BY <1>1, <2>6, <3>1, <3>2, HoldersTurn
  <2>9. Alone(e, place', cpu', Running', waiters', toBeUnlocked')
    BY <1>1, <2>2, <2>5, <2>7 DEF Alone
  <2>10. \A d \in DTBs \ {e} : NoNewTurn(d)
    BY <1>1, <2>2, <2>5, <2>8 DEF NoNewTurn
  <2>11. QED  BY <1>1, <2>2, <2>5, <2>8, <2>9, <2>10, TurnMoves
<1>7. CASE SigGives(j)
  <2>1. Becomes(j, "post") /\ UNCHANGED waiters /\ toBeUnlocked' = Append(toBeUnlocked, j.to)
        /\ j.to \in DTBs /\ j.at = "give" /\ Holds(j, j.to)
    BY <1>1, <1>7 DEF SigGives, table, JobOK, Holds
  <2>2. PICK k : Turns(j, k) /\ \A d \in DTBs : ~Holds(k, d)
    BY <1>2, <2>1 DEF Places
  <2>3. j \in Running /\ Running' = (Running \ {j}) \cup {k}
    BY <2>2 DEF Turns
  <2>4. /\ OneHolder(Running') /\ HeldBy(Running, j.to) /\ ~HeldBy(Running', j.to)
        /\ \A d \in DTBs : HeldBy(Running', d) => HeldBy(Running, d)
    BY <1>1, <2>1, <2>2, <2>3, HoldersTurn
  <2>5. /\ place[j.to] # "READY" /\ cpu[j.to] # "running" /\ ~QueuedIn(waiters, j.to)
        /\ ~GoingIn(toBeUnlocked, j.to)
    BY <1>1, <2>1, <2>4 DEF Alone
  <2>6. /\ OnceGoing(toBeUnlocked')
        /\ \A d \in DTBs : GoingIn(toBeUnlocked', d) => GoingIn(toBeUnlocked, d) \/ d = j.to
    BY <1>1, <2>1, <2>5, GoingAppended
  <2>7. Alone(j.to, place', cpu', Running', waiters', toBeUnlocked')
    BY <1>1, <2>1, <2>4, <2>5 DEF Alone
  <2>8. \A d \in DTBs \ {j.to} : NoNewTurn(d)
    BY <1>1, <2>1, <2>4, <2>6 DEF NoNewTurn
  <2>9. QED  BY <1>1, <2>1, <2>4, <2>6, <2>7, <2>8, TurnMoves
<1>8. QED  BY <1>3, <1>4, <1>5, <1>6, <1>7 DEF SigStep

\* The jobs that queue a DTB and give the PCP its tasks.
LEMMA TurnOfTasks ==
  ASSUME StateOK, OneTurn, TypesOK', NEW j \in jobs, LeavesAlone(j), TaskStep(j)
  PROVE  OneTurn'
<1>1. /\ JobOK(j) /\ j.dtb \in DTBs /\ UNCHANGED <<pcp, place, cpu>>
      /\ waiters \in [Names -> Seq(DTBs)] /\ toBeUnlocked \in Seq(DTBs)
      /\ OneHolder(Running) /\ OnceQueued(waiters) /\ OnceGoing(toBeUnlocked)
      /\ \A d \in DTBs : Alone(d, place, cpu, Running, waiters, toBeUnlocked)
  BY DEF StateOK, TypeOK, JobOK, OneTurn, LeavesAlone
<1>2. ASSUME NEW a \in {"push", "post"}, Becomes(j, a), j.op # "WAIT"
      PROVE  \E k : Turns(j, k) /\ \A d \in DTBs : ~Holds(k, d)
  <2>1. a \in Places
    BY DEF Places
  <2>2. PICK k \in AllCallers : k.op = j.op /\ k.dtb = j.dtb /\ k.at = a /\ Turns(j, k)
    BY <1>1, <1>2, <2>1, GoesOn
  <2>3. QED  BY <1>2, <2>2 DEF Holds
<1>3. CASE BlockPushes(j) \/ EndPushes(j)
  <2>1. Becomes(j, "post") /\ j.op # "WAIT" /\ UNCHANGED <<waiters, toBeUnlocked>>
    BY <1>3 DEF BlockPushes, EndPushes
  <2>2. PICK k : Turns(j, k) /\ \A d \in DTBs : ~Holds(k, d)
    BY <1>2, <2>1
  <2>3. QED  BY <1>1, <2>1, <2>2, TurnKeptBy
<1>4. ASSUME NEW t \in {"BLOCK", "UNLOCK", "END"}, Posts(j, t)
      PROVE  OneTurn'
  <2>1. Finished(j) /\ UNCHANGED <<waiters, toBeUnlocked>>
    BY <1>4 DEF Posts, data
  <2>2. Running' = Running \ {j} /\ j \in Running
    BY <1>1, <2>1, JobEnds
  <2>3. QED  BY <1>1, <2>1, <2>2, TurnKeptWithout
<1>5. CASE BlockQueues(j)
  <2>1. Becomes(j, "push") /\ UNCHANGED toBeUnlocked /\ j.op # "WAIT" /\ j.res \in Names
        /\ waiters' = [waiters EXCEPT ![j.res] = Append(@, j.dtb)] /\ Holds(j, j.dtb)
    BY <1>1, <1>5 DEF BlockQueues, data, JobOK, Holds
  <2>2. PICK k : Turns(j, k) /\ \A d \in DTBs : ~Holds(k, d)
    BY <1>2, <2>1
  <2>3. j \in Running /\ Running' = (Running \ {j}) \cup {k}
    BY <2>2 DEF Turns
  <2>4. /\ OneHolder(Running') /\ HeldBy(Running, j.dtb) /\ ~HeldBy(Running', j.dtb)
        /\ \A d \in DTBs : HeldBy(Running', d) => HeldBy(Running, d)
    BY <1>1, <2>1, <2>2, <2>3, HoldersTurn
  <2>5. /\ place[j.dtb] # "READY" /\ cpu[j.dtb] # "running" /\ ~QueuedIn(waiters, j.dtb)
        /\ ~GoingIn(toBeUnlocked, j.dtb)
    BY <1>1, <2>4 DEF Alone
  <2>6. /\ OnceQueued(waiters')
        /\ \A d \in DTBs : QueuedIn(waiters', d) => QueuedIn(waiters, d) \/ d = j.dtb
    BY <1>1, <2>1, <2>5, QueueAppended
  <2>7. Alone(j.dtb, place', cpu', Running', waiters', toBeUnlocked')
    BY <1>1, <2>1, <2>4, <2>5 DEF Alone
  <2>8. \A d \in DTBs \ {j.dtb} : NoNewTurn(d)
    BY <1>1, <2>1, <2>4, <2>6 DEF NoNewTurn
  <2>9. QED  BY <1>1, <2>1, <2>4, <2>6, <2>7, <2>8, TurnMoves
<1>6. CASE QuantumPushes(j)
  <2>1. Becomes(j, "post") /\ UNCHANGED waiters /\ toBeUnlocked' = Append(toBeUnlocked, j.dtb)
        /\ j.op # "WAIT" /\ Holds(j, j.dtb)
    BY <1>6 DEF QuantumPushes, Holds
  <2>2. PICK k : Turns(j, k) /\ \A d \in DTBs : ~Holds(k, d)
    BY <1>2, <2>1
  <2>3. j \in Running /\ Running' = (Running \ {j}) \cup {k}
    BY <2>2 DEF Turns
  <2>4. /\ OneHolder(Running') /\ HeldBy(Running, j.dtb) /\ ~HeldBy(Running', j.dtb)
        /\ \A d \in DTBs : HeldBy(Running', d) => HeldBy(Running, d)
    BY <1>1, <2>1, <2>2, <2>3, HoldersTurn
  <2>5. /\ place[j.dtb] # "READY" /\ cpu[j.dtb] # "running" /\ ~QueuedIn(waiters, j.dtb)
        /\ ~GoingIn(toBeUnlocked, j.dtb)
    BY <1>1, <2>4 DEF Alone
  <2>6. /\ OnceGoing(toBeUnlocked')
        /\ \A d \in DTBs : GoingIn(toBeUnlocked', d) => GoingIn(toBeUnlocked, d) \/ d = j.dtb
    BY <1>1, <2>1, <2>5, GoingAppended
  <2>7. Alone(j.dtb, place', cpu', Running', waiters', toBeUnlocked')
    BY <1>1, <2>1, <2>4, <2>5 DEF Alone
  <2>8. \A d \in DTBs \ {j.dtb} : NoNewTurn(d)
    BY <1>1, <2>1, <2>4, <2>6 DEF NoNewTurn
  <2>9. QED  BY <1>1, <2>1, <2>4, <2>6, <2>7, <2>8, TurnMoves
<1>7. QED  BY <1>3, <1>4, <1>5, <1>6 DEF TaskStep

\* The PCP gives a DTB its turn, and moves that of a waiter it wakes like a SIGNAL.
LEMMA TurnOfThePCP ==
  ASSUME StateOK, OneTurn, TypesOK', PcpStep
  PROVE  OneTurn'
<1>1. /\ waiters \in [Names -> Seq(DTBs)] /\ toBeUnlocked \in Seq(DTBs)
      /\ OneHolder(Running) /\ OnceQueued(waiters) /\ OnceGoing(toBeUnlocked)
      /\ place \in [DTBs -> {"READY", "EXEC", "BLOCKED", "leaving", "EXIT"}]
      /\ cpu \in [DTBs -> {"idle", "running", "asking"}]
      /\ \A d \in DTBs : Alone(d, place, cpu, Running, waiters, toBeUnlocked)
      /\ pcp.op = "EXIT" /\ (pcp.at = "give" => pcp.to \in DTBs)
      /\ (pcp.at \in {"wake", "give", "post"} => pcp.res \in Names)
  BY DEF StateOK, TypeOK, PcpOK, OneTurn, Callers
<1>2. ASSUME UNCHANGED jobs, pcp'.at # "give", pcp'.op = "EXIT"
      PROVE  \E s, k : s = pcp /\ Turns(s, k) /\ \A d \in DTBs : ~Holds(k, d)
  <2>1. PICK s, k : s = pcp /\ k = pcp' /\ Turns(s, k)
    BY <1>2, PcpTurns
  <2>2. QED  BY <1>2, <2>1 DEF Holds
<1>3. ASSUME NEW d \in DTBs, PCPDispatches(d)
      PROVE  OneTurn'
  <2>1. /\ UNCHANGED <<Running, waiters, toBeUnlocked>> /\ place[d] = "READY"
        /\ place' = [place EXCEPT ![d] = "EXEC"] /\ cpu' = [cpu EXCEPT ![d] = "running"]
    BY <1>3 DEF PCPDispatches, Running, table, data
  <2>2. Alone(d, place, cpu, Running, waiters, toBeUnlocked)
    BY <1>1
  <2>3. Alone(d, place', cpu', Running', waiters', toBeUnlocked')
    BY <1>1, <2>1, <2>2 DEF Alone
  <2>4. \A e \in DTBs \ {d} : NoNewTurn(e)
    BY <1>1, <2>1 DEF NoNewTurn
  <2>5. QED  BY <1>1, <2>1, <2>3, <2>4, TurnMoves
<1>4. CASE PCPBlocks
  <2>1. /\ UNCHANGED <<Running, waiters, toBeUnlocked, cpu>>
        /\ \A e \in DTBs : place'[e] = "READY" => place[e] = "READY"
    BY <1>1, <1>4 DEF PCPBlocks, Running, table
  <2>2. \A e \in DTBs : NoNewTurn(e)
    BY <2>1 DEF NoNewTurn
  <2>3. QED  BY <1>1, <2>1, <2>2, TurnMoves
<1>5. CASE PCPUnlocks
  <2>1. PICK d : d = Head(toBeUnlocked)
    OBVIOUS
  <2>2. /\ UNCHANGED <<Running, waiters, cpu>> /\ toBeUnlocked' = Tail(toBeUnlocked)
        /\ place' = [place EXCEPT ![d] = "READY"]
    BY <1>5, <2>1 DEF PCPUnlocks, Running, table
  <2>3. toBeUnlocked # <<>>
    BY <1>5, TasksOfThePCP DEF PCPUnlocks
  <2>4. /\ OnceGoing(toBeUnlocked')
        /\ \A e \in DTBs : GoingIn(toBeUnlocked', e) => GoingIn(toBeUnlocked, e) /\ e # d
        /\ d \in DTBs /\ GoingIn(toBeUnlocked, d)
    BY <1>1, <2>1, <2>2, <2>3, GoingTailed
  <2>5. Alone(d, place, cpu, Running, waiters, toBeUnlocked)
    BY <1>1, <2>4
  <2>6. Alone(d, place', cpu', Running', waiters', toBeUnlocked')
    BY <2>2, <2>4, <2>5 DEF Alone
  <2>7. \A e \in DTBs \ {d} : NoNewTurn(e)
    BY <1>1, <2>2, <2>4 DEF NoNewTurn
  <2>8. QED  BY <1>1, <2>2, <2>4, <2>6, <2>7, TurnMoves
<1>6. CASE PCPEnds
  <2>1. /\ UNCHANGED <<jobs, waiters, toBeUnlocked, cpu>>
        /\ \A e \in DTBs : place'[e] = "READY" => place[e] = "READY"
        /\ pcp'.at # "give" /\ pcp'.op = "EXIT"
    BY <1>1, <1>6 DEF PCPEnds, table, AtWait, Job
  <2>2. PICK s, k : s = pcp /\ Turns(s, k) /\ \A d \in DTBs : ~Holds(k, d)
    BY <1>2, <2>1
  <2>3. QED  BY <1>1, <2>1, <2>2, TurnKeptBy
<1>7. CASE PCPExits
  <2>1. /\ UNCHANGED <<jobs, toBeUnlocked, cpu>>
        /\ waiters' = [r \in Names |-> RemoveFirst(waiters[r], pcp.dtb)]
        /\ \A e \in DTBs : place'[e] = "READY" => place[e] = "READY"
        /\ pcp'.at # "give" /\ pcp'.op = "EXIT"
    BY <1>1, <1>7 DEF PCPExits, RemoveWaiter, data, AtWait, Job
  <2>2. PICK s, k : s = pcp /\ Turns(s, k) /\ \A d \in DTBs : ~Holds(k, d)
    BY <1>2, <2>1
  <2>3. OnceQueued(waiters') /\ \A d \in DTBs : QueuedIn(waiters', d) => QueuedIn(waiters, d)
    BY <1>1, <2>1, QueueLeft
  <2>4. QED  BY <1>1, <2>1, <2>2, <2>3, TurnKeptBy
<1>8. CASE PcpSame /\ ExitStep
  <2>1. UNCHANGED <<jobs, place, cpu>>
    BY <1>8 DEF PcpSame
  <2>2. pcp' \in Callers({"EXIT"}, {"wait", "next", "wake", "give", "post"})
        /\ pcp \in Callers({"EXIT"}, {"wait", "next", "wake", "give", "post"})
    BY DEF TypesOK, PcpOK, StateOK
  <2>3. CASE (\E r \in Names : PcpReturns(r)) \/ PcpFindsNobody \/ PcpPosts
    <3>1. UNCHANGED <<waiters, toBeUnlocked>> /\ pcp'.at # "give" /\ pcp'.op = "EXIT"
      BY <2>2, <2>3 DEF PcpReturns, PcpFindsNobody, PcpPosts, AtWait, Job, Callers
    <3>2. PICK s, k : s = pcp /\ Turns(s, k) /\ \A d \in DTBs : ~Holds(k, d)
      BY <1>2, <2>1, <3>1
    <3>3. QED  BY <1>1, <2>1, <3>1, <3>2, TurnKeptBy
  <2>4. CASE PcpWakes
    <3>1. PICK e, s, k : e = Head(waiters[pcp.res]) /\ s = pcp /\ k = pcp' /\ Turns(s, k)
      BY <2>1, PcpTurns
    <3>2. /\ UNCHANGED toBeUnlocked /\ pcp.res \in Names /\ waiters[pcp.res] # <<>>
          /\ waiters' = [waiters EXCEPT ![pcp.res] = Tail(@)]
          /\ k.op = "EXIT" /\ k.at = "give" /\ k.to = e
      BY <1>1, <2>2, <2>4, <3>1 DEF PcpWakes, Callers
    <3>3. /\ OnceQueued(waiters')
          /\ \A d \in DTBs : QueuedIn(waiters', d) => QueuedIn(waiters, d) /\ d # e
          /\ e \in DTBs /\ QueuedIn(waiters, e)
      <4>1. PICK r : r = pcp.res
        OBVIOUS
      <4>2. /\ waiters \in [Names -> Seq(DTBs)] /\ OnceQueued(waiters) /\ r \in Names
            /\ waiters[r] # <<>> /\ waiters' = [waiters EXCEPT ![r] = Tail(@)]
            /\ e = Head(waiters[r])
        BY <1>1, <3>1, <3>2, <4>1
      <4>3. QED  BY <4>2, QueueTailed
    <3>4. \A d \in DTBs : Holds(k, d) <=> d = e
      BY <3>2 DEF Holds
    <3>5. /\ place[e] # "READY" /\ cpu[e] # "running" /\ ~HeldBy(Running, e)
          /\ ~GoingIn(toBeUnlocked, e)
      BY <1>1, <3>3 DEF Alone
    <3>6. /\ OneHolder(Running')
          /\ \A d \in DTBs : HeldBy(Running', d) => HeldBy(Running, d) \/ d = e
      <4>1. s \in Running /\ Running' = (Running \ {s}) \cup {k}
        BY <3>1 DEF Turns
      <4>2. \A d \in DTBs : Holds(k, d) => Holds(s, d) \/ ~HeldBy(Running, d)
        BY <3>4, <3>5
      <4>3. QED  BY <1>1, <3>4, <4>1, <4>2, HoldersTurn
    <3>7. Alone(e, place', cpu', Running', waiters', toBeUnlocked')
      BY <2>1, <3>2, <3>3, <3>5 DEF Alone
    <3>8. \A d \in DTBs \ {e} : NoNewTurn(d)
      BY <2>1, <3>2, <3>3, <3>6 DEF NoNewTurn
    <3>9. QED  BY <1>1, <3>2, <3>3, <3>6, <3>7, <3>8, TurnMoves
  <2>5. CASE PcpGives
    <3>1. /\ UNCHANGED waiters /\ toBeUnlocked' = Append(toBeUnlocked, pcp.to)
          /\ pcp.to \in DTBs /\ Holds(pcp, pcp.to) /\ pcp'.at # "give" /\ pcp'.op = "EXIT"
      BY <1>1, <2>2, <2>5 DEF PcpGives, Holds, Callers
    <3>2. PICK s, k : s = pcp /\ Turns(s, k) /\ \A d \in DTBs : ~Holds(k, d)
      BY <1>2, <2>1, <3>1
    <3>3. s \in Running /\ Running' = (Running \ {s}) \cup {k} /\ Holds(s, pcp.to)
      BY <3>1, <3>2 DEF Turns
    <3>4. /\ OneHolder(Running') /\ HeldBy(Running, pcp.to) /\ ~HeldBy(Running', pcp.to)
          /\ \A d \in DTBs : HeldBy(Running', d) => HeldBy(Running, d)
      BY <1>1, <3>1, <3>2, <3>3, HoldersTurn
    <3>5. /\ place[pcp.to] # "READY" /\ cpu[pcp.to] # "running"
          /\ ~QueuedIn(waiters, pcp.to) /\ ~GoingIn(toBeUnlocked, pcp.to)
      BY <1>1, <3>1, <3>4 DEF Alone
    <3>6. /\ OnceGoing(toBeUnlocked')
          /\ \A d \in DTBs : GoingIn(toBeUnlocked', d) => GoingIn(toBeUnlocked, d) \/ d = pcp.to
      BY <1>1, <3>1, <3>5, GoingAppended
    <3>7. Alone(pcp.to, place', cpu', Running', waiters', toBeUnlocked')
      BY <2>1, <3>1, <3>4, <3>5 DEF Alone
    <3>8. \A d \in DTBs \ {pcp.to} : NoNewTurn(d)
      BY <2>1, <3>1, <3>4, <3>6 DEF NoNewTurn
    <3>9. QED  BY <1>1, <3>1, <3>4, <3>6, <3>7, <3>8, TurnMoves
  <2>6. QED  BY <1>8, <2>3, <2>4, <2>5 DEF ExitStep
<1>9. QED  BY <1>3, <1>4, <1>5, <1>6, <1>7, <1>8 DEF PcpStep

\* What a CPU or the console adds: a job at its start, of a DTB whose turn it was.
NewJob(d, k) ==
    /\ k \in AllCallers /\ k.dtb = d /\ k.at = "start"
    /\ k.op \in {"WAIT", "SIGNAL", "EOQUANTUM", "EOFORABORT", "FINALIZAR"}
    /\ jobs' = jobs \cup {k} /\ Running' = Running \cup {k}
    /\ k.op \in Sentences => k.n = ops[d] /\ k.n > ops'[d]

\* A message of a CPU, or a command.
LEMMA NewJobs ==
  ASSUME StateOK, TypesOK', NEW d \in DTBs, CPU(d) \/ CommandFinalizar(d)
  PROVE  /\ UNCHANGED <<table, kept, place, toBeUnlocked, toBeBlocked, toBeEnded, PCPtasks,
                        pcp, failure, supply>>
         /\ \E k : NewJob(d, k) /\ (k.op \in {"WAIT", "EOQUANTUM"} =>
                                      cpu[d] = "running" /\ cpu'[d] # "running")
         /\ \A e \in DTBs : cpu'[e] = "running" => cpu[e] = "running"
<1>1. /\ cpu \in [DTBs -> {"idle", "running", "asking"}] /\ ops \in [DTBs -> Nat]
      /\ jobs' \subseteq Callers(Ops, Places)
  BY DEF StateOK, TypesOK, TypeOK
<1>2. ASSUME NEW op \in Ops, NEW r, NEW n, NEW k, k = Job(op, d, r, n), jobs' = jobs \cup {k},
             UNCHANGED pcp
      PROVE  /\ k \in AllCallers /\ k.dtb = d /\ k.at = "start" /\ k.op = op /\ k.n = n
             /\ Running' = Running \cup {k}
  <2>1. k \in Callers(Ops, Places)
    BY <1>1, <1>2
  <2>2. k \in AllCallers
    BY <2>1 DEF Callers, AllCallers
  <2>3. QED  BY <1>2, <2>2 DEF Job, Running
<1>3. ASSUME NEW op \in {"WAIT", "SIGNAL", "EOQUANTUM", "EOFORABORT"}, NEW r, NEW s,
             CPUSends(d, op, r, s), op # "EOFORABORT" => Executes(d),
             s = IF op = "WAIT" THEN "asking" ELSE IF op = "SIGNAL" THEN "running" ELSE "idle"
      PROVE  /\ UNCHANGED <<table, kept, place, toBeUnlocked, toBeBlocked, toBeEnded,
                            PCPtasks, pcp, failure, supply>>
             /\ \E k : NewJob(d, k) /\ (k.op \in {"WAIT", "EOQUANTUM"} =>
                                          cpu[d] = "running" /\ cpu'[d] # "running")
             /\ \A e \in DTBs : cpu'[e] = "running" => cpu[e] = "running"
  <2>1. PICK k : k = Job(op, d, r, ops[d])
    OBVIOUS
  <2>2. /\ jobs' = jobs \cup {k} /\ cpu[d] = "running" /\ cpu' = [cpu EXCEPT ![d] = s]
        /\ UNCHANGED <<table, kept, place, toBeUnlocked, toBeBlocked, toBeEnded,
                       PCPtasks, pcp, failure, supply>>
    BY <1>3, <2>1 DEF CPUSends, data
  <2>3. op \in Ops
    BY DEF Ops
  <2>4. /\ k \in AllCallers /\ k.dtb = d /\ k.at = "start" /\ k.op = op /\ k.n = ops[d]
        /\ Running' = Running \cup {k}
    BY <1>2, <2>1, <2>2, <2>3
  <2>5. op # "EOFORABORT" => ops[d] > ops'[d]
    BY <1>1, <1>3 DEF Executes
  <2>6. NewJob(d, k)
    BY <2>2, <2>4, <2>5 DEF NewJob, Sentences
  <2>7. k.op \in {"WAIT", "EOQUANTUM"} => cpu'[d] # "running"
    BY <1>1, <1>3, <2>2, <2>4
  <2>8. \A e \in DTBs : cpu'[e] = "running" => cpu[e] = "running"
    BY <1>1, <2>2
  <2>9. QED  BY <2>2, <2>6, <2>7, <2>8
<1>4. CASE CommandFinalizar(d)
  <2>1. PICK k : k = Job("FINALIZAR", d, NoName, finalizars)
    OBVIOUS
  <2>2. /\ jobs' = jobs \cup {k} /\ UNCHANGED cpu
        /\ UNCHANGED <<table, kept, place, toBeUnlocked, toBeBlocked, toBeEnded,
                       PCPtasks, pcp, failure, supply>>
    BY <1>4, <2>1 DEF CommandFinalizar, data
  <2>3. /\ k \in AllCallers /\ k.dtb = d /\ k.at = "start" /\ k.op = "FINALIZAR"
        /\ Running' = Running \cup {k}
    BY <1>2, <2>1, <2>2 DEF Ops
  <2>4. NewJob(d, k) /\ k.op \notin {"WAIT", "EOQUANTUM"}
    BY <2>2, <2>3 DEF NewJob, Sentences
  <2>5. QED  BY <2>2, <2>4
<1>5. CASE CPU(d)
  <2>1. PICK op \in {"WAIT", "SIGNAL", "EOQUANTUM", "EOFORABORT"} :
           \E r, s : /\ CPUSends(d, op, r, s) /\ (op # "EOFORABORT" => Executes(d))
                     /\ s = IF op = "WAIT" THEN "asking"
                              ELSE IF op = "SIGNAL" THEN "running" ELSE "idle"
    BY <1>5 DEF CPU, CommandWait, CommandSignal, CPUEndsQuantum, CPU_EndDTB
  <2>2. PICK r, s : /\ CPUSends(d, op, r, s) /\ (op # "EOFORABORT" => Executes(d))
                    /\ s = IF op = "WAIT" THEN "asking"
                             ELSE IF op = "SIGNAL" THEN "running" ELSE "idle"
    BY <2>1
  <2>3. QED  BY <1>3, <2>2
<1>6. QED  BY <1>4, <1>5

\* A CPU gives up the turn of its DTB to the message it sends, if that holds it.
LEMMA TurnOfCPUs ==
  ASSUME StateOK, OneTurn, TypesOK', NEW d \in DTBs, CPU(d) \/ CommandFinalizar(d)
  PROVE  OneTurn'
<1>1. /\ OneHolder(Running) /\ OnceQueued(waiters) /\ OnceGoing(toBeUnlocked)
      /\ Alone(d, place, cpu, Running, waiters, toBeUnlocked)
  BY DEF OneTurn
<1>2. /\ UNCHANGED <<waiters, place, toBeUnlocked>>
      /\ \A e \in DTBs : cpu'[e] = "running" => cpu[e] = "running"
  BY NewJobs DEF table
<1>3. PICK k : NewJob(d, k) /\ (k.op \in {"WAIT", "EOQUANTUM"} =>
                                  cpu[d] = "running" /\ cpu'[d] # "running")
  BY NewJobs
<1>4. /\ Running' = Running \cup {k}
      /\ \A e \in DTBs : Holds(k, e) => e = d /\ k.op \in {"WAIT", "EOQUANTUM"}
  BY <1>3 DEF NewJob, Holds
<1>5. CASE k.op \in {"WAIT", "EOQUANTUM"}
  <2>1. ~HeldBy(Running, d)
    BY <1>1, <1>3, <1>5 DEF Alone
  <2>2. /\ OneHolder(Running')
        /\ \A e \in DTBs : HeldBy(Running', e) => HeldBy(Running, e) \/ e = d
    BY <1>1, <1>4, <2>1, HoldersCome
  <2>3. Alone(d, place', cpu', Running', waiters', toBeUnlocked')
    BY <1>1, <1>2, <1>3, <1>5 DEF Alone
  <2>4. \A e \in DTBs \ {d} : NoNewTurn(e)
    BY <1>2, <2>2 DEF NoNewTurn
  <2>5. QED  BY <1>1, <1>2, <2>2, <2>3, <2>4, TurnMoves
<1>6. CASE k.op \notin {"WAIT", "EOQUANTUM"}
  <2>1. /\ OneHolder(Running')
        /\ \A e \in DTBs : HeldBy(Running', e) => HeldBy(Running, e)
    BY <1>1, <1>4, <1>6, HoldersCome
  <2>2. \A e \in DTBs : NoNewTurn(e)
    BY <1>2, <2>1 DEF NoNewTurn
  <2>3. QED  BY <1>1, <1>2, <2>1, <2>2, TurnMoves
<1>7. QED  BY <1>5, <1>6

-----------------------------------------------------------------------------
(***************************************************************************)
(* What is finite, and the tasks of the PCP.                               *)
(***************************************************************************)

\* What a step does to what the DTBs keep: nothing, one more or one less.
KeptStep ==
    \/ UNCHANGED kept
    \/ \E d \in DTBs, r \in Names : r \in resources /\ kept' = [kept EXCEPT ![d][r] = @ + 1]
    \/ \E d \in DTBs, r \in Names : kept[d][r] > 0 /\ kept' = [kept EXCEPT ![d][r] = @ - 1]

\* A step that takes nothing out of the table keeps what is counted finite.
LEMMA BooksKept ==
  ASSUME StateOK, IsFiniteSet(jobs'), resources \subseteq resources', KeptStep
  PROVE  BooksOK'
<1>1. /\ kept \in [DTBs -> [Names -> Nat]] /\ BooksOK
  BY DEF StateOK, TypeOK
<1>2. ASSUME NEW q \in Names
      PROVE  IsFiniteSet(Instances(q)')
  <2>1. IsFiniteSet(Instances(q))
    BY <1>1 DEF BooksOK
  <2>2. CASE UNCHANGED kept
    BY <2>1, <2>2 DEF Instances
  <2>3. ASSUME NEW d \in DTBs, NEW r \in Names, kept' = [kept EXCEPT ![d][r] = @ + 1]
        PROVE  IsFiniteSet(Instances(q)')
    BY <1>1, <2>1, <2>3, KeepsMore
  <2>4. ASSUME NEW d \in DTBs, NEW r \in Names, kept[d][r] > 0,
               kept' = [kept EXCEPT ![d][r] = @ - 1]
        PROVE  IsFiniteSet(Instances(q)')
    BY <1>1, <2>1, <2>4, KeepsLess
  <2>5. QED  BY <2>2, <2>3, <2>4 DEF KeptStep
<1>3. (\A r \in Names : IsFiniteSet(Instances(r)))'
  BY <1>2 DEF Instances
<1>4. ASSUME NEW e \in DTBs, NEW q \in Names, kept'[e][q] > 0
      PROVE  q \in resources'
  <2>1. kept[e][q] > 0 => q \in resources
    BY <1>1 DEF BooksOK
  <2>2. kept[e][q] \in Nat
    BY <1>1
  <2>3. kept[e][q] > 0 \/ q \in resources
    BY <1>1, <1>4, <2>2 DEF KeptStep
  <2>4. QED  BY <2>1, <2>3
<1>5. QED  BY <1>1, <1>3, <1>4 DEF BooksOK

\* The part of some callers that is about to post is counted.
LEMMA PostingIsFinite ==
  ASSUME NEW R, IsFiniteSet(R), NEW op
  PROVE  Cardinality(R \cap Posting(op)) \in Nat
BY FS_Intersection, FS_CardinalityType

\* A caller that turns and does not come to post, or whose DTB is put into the list.
LEMMA CoverTurn ==
  ASSUME NEW R, IsFiniteSet(R), NEW s \in R, NEW k, NEW op, NEW T, NEW t, NEW L,
         Occurrences(T, t) \in Int, Len(L) \in Int,
         k \in Posting(op) => s \in Posting(op), Covered(T, t, R, op, L)
  PROVE  Covered(T, t, (R \ {s}) \cup {k}, op, L)
<1>1. /\ Cardinality(R \cap Posting(op)) \in Nat
      /\ Cardinality(((R \ {s}) \cup {k}) \cap Posting(op)) \in Nat
  BY FS_AddElement, FS_RemoveElement, PostingIsFinite
<1>2. Cardinality(((R \ {s}) \cup {k}) \cap Posting(op))
        <= Cardinality(R \cap Posting(op)) - (IF s \in Posting(op) THEN 1 ELSE 0)
                                           + (IF k \in Posting(op) THEN 1 ELSE 0)
  BY CountAtMost
<1>3. QED  BY <1>1, <1>2 DEF Covered

\* ... or whose DTB is put into the list.
LEMMA CoverPush ==
  ASSUME NEW R, IsFiniteSet(R), NEW s \in R, NEW k, NEW op, NEW T, NEW t,
         NEW L \in Seq(DTBs), NEW d \in DTBs,
         Occurrences(T, t) \in Int, Covered(T, t, R, op, L)
  PROVE  Covered(T, t, (R \ {s}) \cup {k}, op, Append(L, d))
<1>1. /\ Cardinality(R \cap Posting(op)) \in Nat
      /\ Cardinality(((R \ {s}) \cup {k}) \cap Posting(op)) \in Nat
      /\ Len(L) \in Nat /\ Len(Append(L, d)) = Len(L) + 1
  BY FS_AddElement, FS_RemoveElement, PostingIsFinite, LenProperties, AppendProperties
<1>2. Cardinality(((R \ {s}) \cup {k}) \cap Posting(op))
        <= Cardinality(R \cap Posting(op)) - (IF s \in Posting(op) THEN 1 ELSE 0)
                                           + (IF k \in Posting(op) THEN 1 ELSE 0)
  BY CountAtMost
<1>3. QED  BY <1>1, <1>2 DEF Covered

\* A caller leaves.
LEMMA CoverLeave ==
  ASSUME NEW R, IsFiniteSet(R), NEW s \in R, NEW op, NEW T, NEW t, NEW L,
         Occurrences(T, t) \in Int, Len(L) \in Int, Covered(T, t, R, op, L)
  PROVE  Covered(T, t, R \ {s}, op, L)
<1>1. /\ Cardinality(R \cap Posting(op)) \in Nat
      /\ Cardinality((R \ {s}) \cap Posting(op)) \in Nat
      /\ Cardinality((R \ {s}) \cap Posting(op))
           = Cardinality(R \cap Posting(op)) - (IF s \in Posting(op) THEN 1 ELSE 0)
  BY CountRemoved
<1>2. QED  BY <1>1 DEF Covered

\* A caller posts its task and leaves.
LEMMA CoverPost ==
  ASSUME NEW R, IsFiniteSet(R), NEW s \in R, NEW op, NEW S, NEW T \in Seq(S), NEW x \in S,
         NEW t, NEW L, Len(L) \in Int, x = t => s \in Posting(op), Covered(T, t, R, op, L)
  PROVE  Covered(Append(T, x), t, R \ {s}, op, L)
<1>1. /\ Cardinality(R \cap Posting(op)) \in Nat
      /\ Cardinality((R \ {s}) \cap Posting(op)) \in Nat
      /\ Cardinality((R \ {s}) \cap Posting(op))
           = Cardinality(R \cap Posting(op)) - (IF s \in Posting(op) THEN 1 ELSE 0)
  BY CountRemoved
<1>2. /\ Occurrences(T, t) \in Nat
      /\ Occurrences(Append(T, x), t) = Occurrences(T, t) + (IF x = t THEN 1 ELSE 0)
  BY OccursAppend
<1>3. QED  BY <1>1, <1>2 DEF Covered

\* ... or goes on.
LEMMA CoverPostTurn ==
  ASSUME NEW R, IsFiniteSet(R), NEW s \in R, NEW k, NEW op, NEW S, NEW T \in Seq(S),
         NEW x \in S, NEW t, NEW L, Len(L) \in Int,
         x = t => s \in Posting(op), k \notin Posting(op), Covered(T, t, R, op, L)
  PROVE  Covered(Append(T, x), t, (R \ {s}) \cup {k}, op, L)
<1>1. /\ Cardinality(R \cap Posting(op)) \in Nat
      /\ Cardinality(((R \ {s}) \cup {k}) \cap Posting(op)) \in Nat
  BY FS_AddElement, FS_RemoveElement, PostingIsFinite
<1>2. Cardinality(((R \ {s}) \cup {k}) \cap Posting(op))
        <= Cardinality(R \cap Posting(op)) - (IF s \in Posting(op) THEN 1 ELSE 0)
                                           + (IF k \in Posting(op) THEN 1 ELSE 0)
  BY CountAtMost
<1>3. /\ Occurrences(T, t) \in Nat
      /\ Occurrences(Append(T, x), t) = Occurrences(T, t) + (IF x = t THEN 1 ELSE 0)
  BY OccursAppend
<1>4. QED  BY <1>1, <1>2, <1>3 DEF Covered

\* The PCP takes a task, and its DTB.
LEMMA CoverTake ==
  ASSUME NEW R, IsFiniteSet(R), NEW op, NEW S, NEW T \in Seq(S), T # <<>>, NEW t,
         NEW L \in Seq(DTBs), NEW M \in Seq(DTBs),
         IF Head(T) = t THEN L # <<>> /\ M = Tail(L) ELSE M = L, Covered(T, t, R, op, L)
  PROVE  Covered(Tail(T), t, R, op, M)
<1>1. Cardinality(R \cap Posting(op)) \in Nat
  BY PostingIsFinite
<1>2. /\ Occurrences(T, t) \in Nat /\ Occurrences(Tail(T), t) \in Nat
      /\ Occurrences(T, t) = Occurrences(Tail(T), t) + (IF Head(T) = t THEN 1 ELSE 0)
  BY OccursTail
<1>3. Len(L) \in Nat /\ (Head(T) = t => Len(M) = Len(L) - 1)
  BY LenProperties, HeadTailProperties
<1>4. QED  BY <1>1, <1>2, <1>3 DEF Covered

\* A job comes, at its start.
LEMMA CoverCome ==
  ASSUME NEW R, IsFiniteSet(R), NEW k, NEW op, k \notin Posting(op), NEW T, NEW t, NEW L,
         Covered(T, t, R, op, L)
  PROVE  Covered(T, t, R \cup {k}, op, L)
<1>1. Cardinality((R \cup {k}) \cap Posting(op)) = Cardinality(R \cap Posting(op))
  BY CountAdded
<1>2. QED  BY <1>1 DEF Covered

Tasks == {"BLOCK", "UNLOCK", "END"}

\* What the counts of the tasks are made of.
LEMMA TaskTypes ==
  ASSUME StateOK
  PROVE  /\ IsFiniteSet(Running) /\ PCPtasks \in Seq(Tasks)
         /\ toBeBlocked \in Seq(DTBs) /\ toBeUnlocked \in Seq(DTBs) /\ toBeEnded \in Seq(DTBs)
         /\ Len(toBeBlocked) \in Int /\ Len(toBeUnlocked) \in Int /\ Len(toBeEnded) \in Int
         /\ \A t : Occurrences(PCPtasks, t) \in Int
         /\ Covered(PCPtasks, "BLOCK", Running, {"BLOCKDTB"}, toBeBlocked)
         /\ Covered(PCPtasks, "UNLOCK", Running, {"SIGNAL", "EXIT", "EOQUANTUM"}, toBeUnlocked)
         /\ Covered(PCPtasks, "END", Running, {"EOFORABORT", "FINALIZAR"}, toBeEnded)
<1>1. /\ PCPtasks \in Seq(Tasks)
      /\ toBeBlocked \in Seq(DTBs) /\ toBeUnlocked \in Seq(DTBs) /\ toBeEnded \in Seq(DTBs)
      /\ TasksHaveData
  BY DEF StateOK, TypeOK, Tasks
<1>2. Len(toBeBlocked) \in Int /\ Len(toBeUnlocked) \in Int /\ Len(toBeEnded) \in Int
  BY <1>1, LenProperties
<1>3. ASSUME NEW t
      PROVE  Occurrences(PCPtasks, t) \in Int
  <2>1. {i \in 1 .. Len(PCPtasks) : PCPtasks[i] = t} \in SUBSET (1 .. Len(PCPtasks))
        /\ IsFiniteSet(1 .. Len(PCPtasks))
    BY <1>1, LenProperties, FS_Interval
  <2>2. QED  BY <2>1, FS_Subset, FS_CardinalityType DEF Occurrences
<1>4. QED  BY <1>1, <1>2, <1>3, RunningIsFinite DEF TasksHaveData

\* No task is about to be posted that was not.
LEMMA TasksTurn ==
  ASSUME StateOK, NEW s, NEW k, Turns(s, k), k.at # "post", UNCHANGED <<PCPtasks, data>>
  PROVE  TasksHaveData'
<1>1. /\ s \in Running /\ Running' = (Running \ {s}) \cup {k}
      /\ UNCHANGED <<PCPtasks, toBeBlocked, toBeUnlocked, toBeEnded>>
      /\ \A op : k \notin Posting(op)
  BY DEF Turns, Posting, data
<1>2. /\ Covered(PCPtasks, "BLOCK", Running', {"BLOCKDTB"}, toBeBlocked)
      /\ Covered(PCPtasks, "UNLOCK", Running', {"SIGNAL", "EXIT", "EOQUANTUM"}, toBeUnlocked)
      /\ Covered(PCPtasks, "END", Running', {"EOFORABORT", "FINALIZAR"}, toBeEnded)
  BY <1>1, TaskTypes, CoverTurn
<1>3. QED  BY <1>1, <1>2 DEF TasksHaveData

\* A caller leaves, and no task changes.
LEMMA TasksLeave ==
  ASSUME StateOK, NEW s, s \in Running, Running' = Running \ {s}, UNCHANGED <<PCPtasks, data>>
  PROVE  TasksHaveData'
<1>1. UNCHANGED <<PCPtasks, toBeBlocked, toBeUnlocked, toBeEnded>>
  BY DEF data
<1>2. /\ Covered(PCPtasks, "BLOCK", Running', {"BLOCKDTB"}, toBeBlocked)
      /\ Covered(PCPtasks, "UNLOCK", Running', {"SIGNAL", "EXIT", "EOQUANTUM"}, toBeUnlocked)
      /\ Covered(PCPtasks, "END", Running', {"EOFORABORT", "FINALIZAR"}, toBeEnded)
  BY TaskTypes, CoverLeave
<1>3. QED  BY <1>1, <1>2 DEF TasksHaveData

\* A DTB comes into the list of the task its caller is about to post.
LEMMA TasksPush ==
  ASSUME StateOK, NEW s, NEW k, Turns(s, k), k.at = "post", NEW d \in DTBs, UNCHANGED PCPtasks,
         \/ /\ k.op = "BLOCKDTB" /\ toBeBlocked' = Append(toBeBlocked, d)
            /\ UNCHANGED <<toBeUnlocked, toBeEnded>>
         \/ /\ k.op \in {"SIGNAL", "EXIT", "EOQUANTUM"}
            /\ toBeUnlocked' = Append(toBeUnlocked, d) /\ UNCHANGED <<toBeBlocked, toBeEnded>>
         \/ /\ k.op \in {"EOFORABORT", "FINALIZAR"} /\ toBeEnded' = Append(toBeEnded, d)
            /\ UNCHANGED <<toBeBlocked, toBeUnlocked>>
  PROVE  TasksHaveData'
<1>1. /\ s \in Running /\ Running' = (Running \ {s}) \cup {k}
      /\ \A op : k \in Posting(op) => k.op \in op
  BY DEF Turns, Posting
<1>2. Covered(PCPtasks, "BLOCK", Running', {"BLOCKDTB"}, toBeBlocked')
  <2>1. CASE k.op = "BLOCKDTB"
    <3>1. toBeBlocked' = Append(toBeBlocked, d)
      BY <2>1
    <3>2. QED  BY <1>1, <3>1, TaskTypes, CoverPush
  <2>2. CASE k.op # "BLOCKDTB"
    <3>1. UNCHANGED toBeBlocked /\ k \notin Posting({"BLOCKDTB"})
      BY <1>1, <2>2
    <3>2. QED  BY <1>1, <3>1, TaskTypes, CoverTurn
  <2>3. QED  BY <2>1, <2>2
<1>3. Covered(PCPtasks, "UNLOCK", Running', {"SIGNAL", "EXIT", "EOQUANTUM"}, toBeUnlocked')
  <2>1. CASE k.op \in {"SIGNAL", "EXIT", "EOQUANTUM"}
    <3>1. toBeUnlocked' = Append(toBeUnlocked, d)
      BY <2>1
    <3>2. QED  BY <1>1, <3>1, TaskTypes, CoverPush
  <2>2. CASE k.op \notin {"SIGNAL", "EXIT", "EOQUANTUM"}
    <3>1. UNCHANGED toBeUnlocked /\ k \notin Posting({"SIGNAL", "EXIT", "EOQUANTUM"})
      BY <1>1, <2>2
    <3>2. QED  BY <1>1, <3>1, TaskTypes, CoverTurn
  <2>3. QED  BY <2>1, <2>2
<1>4. Covered(PCPtasks, "END", Running', {"EOFORABORT", "FINALIZAR"}, toBeEnded')
  <2>1. CASE k.op \in {"EOFORABORT", "FINALIZAR"}
    <3>1. toBeEnded' = Append(toBeEnded, d)
      BY <2>1
    <3>2. QED  BY <1>1, <3>1, TaskTypes, CoverPush
  <2>2. CASE k.op \notin {"EOFORABORT", "FINALIZAR"}
    <3>1. UNCHANGED toBeEnded /\ k \notin Posting({"EOFORABORT", "FINALIZAR"})
      BY <1>1, <2>2
    <3>2. QED  BY <1>1, <3>1, TaskTypes, CoverTurn
  <2>3. QED  BY <2>1, <2>2
<1>5. QED  BY <1>2, <1>3, <1>4 DEF TasksHaveData

\* The task a caller posts.
TaskOf(s, t) ==
    \/ s.op = "BLOCKDTB" /\ t = "BLOCK"
    \/ s.op \in {"SIGNAL", "EXIT", "EOQUANTUM"} /\ t = "UNLOCK"
    \/ s.op \in {"EOFORABORT", "FINALIZAR"} /\ t = "END"

\* A caller that posts the task of its kind and leaves or goes on: the task is counted.
LEMMA TasksPost ==
  ASSUME StateOK, NEW s, s \in Running, s \in AllCallers, s.at = "post", NEW t \in Tasks,
         TaskOf(s, t), PCPtasks' = Append(PCPtasks, t), UNCHANGED data,
         Running' = Running \ {s} \/ \E k : k.at # "post" /\ Running' = (Running \ {s}) \cup {k}
  PROVE  TasksHaveData'
<1>1. /\ UNCHANGED <<toBeBlocked, toBeUnlocked, toBeEnded>>
      /\ t = "BLOCK" => s \in Posting({"BLOCKDTB"})
      /\ t = "UNLOCK" => s \in Posting({"SIGNAL", "EXIT", "EOQUANTUM"})
      /\ t = "END" => s \in Posting({"EOFORABORT", "FINALIZAR"})
  BY DEF data, Posting, TaskOf
<1>2. CASE Running' = Running \ {s}
  <2>1. /\ Covered(PCPtasks', "BLOCK", Running', {"BLOCKDTB"}, toBeBlocked)
        /\ Covered(PCPtasks', "UNLOCK", Running', {"SIGNAL", "EXIT", "EOQUANTUM"}, toBeUnlocked)
        /\ Covered(PCPtasks', "END", Running', {"EOFORABORT", "FINALIZAR"}, toBeEnded)
    BY <1>1, <1>2, TaskTypes, CoverPost
  <2>2. QED  BY <1>1, <2>1 DEF TasksHaveData
<1>3. ASSUME NEW k, k.at # "post", Running' = (Running \ {s}) \cup {k}
      PROVE  TasksHaveData'
  <2>1. \A op : k \notin Posting(op)
    BY <1>3 DEF Posting
  <2>2. /\ Covered(PCPtasks', "BLOCK", Running', {"BLOCKDTB"}, toBeBlocked)
        /\ Covered(PCPtasks', "UNLOCK", Running', {"SIGNAL", "EXIT", "EOQUANTUM"}, toBeUnlocked)
        /\ Covered(PCPtasks', "END", Running', {"EOFORABORT", "FINALIZAR"}, toBeEnded)
    BY <1>1, <1>3, <2>1, TaskTypes, CoverPostTurn
  <2>3. QED  BY <1>1, <2>2 DEF TasksHaveData
<1>4. QED  BY <1>2, <1>3

-----------------------------------------------------------------------------
(***************************************************************************)
(* Every step keeps StateOK.                                               *)
(***************************************************************************)

\* The parts of StateOK.
LEMMA StateNext ==
  ASSUME TypesOK', OneJobASentence', BooksOK', TasksHaveData'
  PROVE  StateOK'
BY DEF StateOK, TypesOK

\* The steps of a WAIT.
LEMMA StateOfWaits ==
  ASSUME StateOK, NEW j \in jobs, WaitStep(j)
  PROVE  StateOK'
<1>1. /\ JobOK(j) /\ j.dtb \in DTBs /\ j.res \in Names /\ j.op = "WAIT" /\ TypesOK'
      /\ UNCHANGED <<pcp, data, PCPtasks>> /\ resources \subseteq resources'
  BY TypesOfWaits DEF StateOK, JobOK, WaitStep, WaitLooksUp, WaitCreates, WaitIsGranted,
     WaitIsRefused, WaitGrants, AddNewResource, table
<1>2. CASE WaitLooksUp(j) \/ WaitCreates(j) \/ WaitIsGranted(j)
  <2>1. UNCHANGED kept /\ \E a \in {"take", "create", "grant"} : Becomes(j, a)
    BY <1>2 DEF WaitLooksUp, WaitCreates, WaitIsGranted
  <2>2. PICK a \in {"take", "create", "grant"} : Becomes(j, a)
    BY <2>1
  <2>3. PICK k \in AllCallers :
           k.at = a /\ Turns(j, k) /\ OneJobASentence' /\ IsFiniteSet(jobs')
    BY <1>1, <2>2, GoesOn DEF Places
  <2>4. TasksHaveData'
    BY <1>1, <2>3, TasksTurn
  <2>5. BooksOK'
    BY <1>1, <2>1, <2>3, BooksKept DEF KeptStep
  <2>6. QED  BY <1>1, <2>3, <2>4, <2>5, StateNext
<1>3. CASE WaitIsRefused(j)
  <2>1. PICK k : k = Job("BLOCKDTB", j.dtb, j.res, j.n)
    OBVIOUS
  <2>2. /\ jobs' = (jobs \ {j}) \cup {k} /\ k.op = "BLOCKDTB" /\ k.dtb = j.dtb /\ k.n = j.n
        /\ k.at = "start" /\ UNCHANGED kept
    BY <1>3, <2>1 DEF WaitIsRefused, Job
  <2>3. OneJobASentence' /\ IsFiniteSet(jobs') /\ Turns(j, k)
    BY <1>1, <2>2, JobTurns
  <2>4. TasksHaveData'
    BY <1>1, <2>2, <2>3, TasksTurn
  <2>5. BooksOK'
    BY <1>1, <2>2, <2>3, BooksKept DEF KeptStep
  <2>6. QED  BY <1>1, <2>3, <2>4, <2>5, StateNext
<1>4. CASE WaitGrants(j)
  <2>1. OneJobASentence' /\ IsFiniteSet(jobs') /\ j \in Running /\ Running' = Running \ {j}
    BY <1>1, <1>4, JobEnds DEF WaitGrants
  <2>2. KeptStep
    BY <1>1, <1>4 DEF KeptStep, WaitGrants, JobOK
  <2>3. TasksHaveData'
    BY <1>1, <2>1, TasksLeave
  <2>4. BooksOK'
    BY <1>1, <2>1, <2>2, BooksKept
  <2>5. QED  BY <1>1, <2>1, <2>3, <2>4, StateNext
<1>5. QED  BY <1>2, <1>3, <1>4 DEF WaitStep

\* The steps of a SIGNAL.
LEMMA StateOfSignals ==
  ASSUME StateOK, NEW j \in jobs, SigFrame(j), SigStep(j)
  PROVE  StateOK'
<1>1. /\ JobOK(j) /\ j.dtb \in DTBs /\ j.res \in Names /\ j.op = "SIGNAL" /\ TypesOK'
      /\ UNCHANGED <<pcp, toBeBlocked, toBeEnded>> /\ j \in Callers(Ops, Places)
  BY TypesOfSignals DEF StateOK, JobOK, SigFrame
<1>2. CASE SigReturns(j) \/ SigMisses(j) \/ SigCreates(j) \/ SigDropsKept(j) \/ SigDropsNothing(j)
  <2>1. /\ \E a \in {"create", "drop", "wake"} : Becomes(j, a)
        /\ UNCHANGED <<PCPtasks, toBeUnlocked>> /\ resources \subseteq resources'
    BY <1>2 DEF SigReturns, SigMisses, SigCreates, SigDropsKept, SigDropsNothing, table,
       AddNewResource
  <2>2. KeptStep
    BY <1>1, <1>2 DEF KeptStep, SigReturns, SigMisses, SigCreates, SigDropsKept,
       SigDropsNothing
  <2>3. PICK a \in {"create", "drop", "wake"} : Becomes(j, a)
    BY <2>1
  <2>4. PICK k \in AllCallers :
           k.at = a /\ Turns(j, k) /\ OneJobASentence' /\ IsFiniteSet(jobs')
    BY <1>1, <2>3, GoesOn DEF Places
  <2>5. TasksHaveData'
    BY <1>1, <2>1, <2>4, TasksTurn DEF data
  <2>6. BooksOK'
    BY <2>1, <2>2, <2>4, BooksKept
  <2>7. QED  BY <1>1, <2>4, <2>5, <2>6, StateNext
<1>3. CASE SigFindsNobody(j)
  <2>1. OneJobASentence' /\ IsFiniteSet(jobs') /\ j \in Running /\ Running' = Running \ {j}
        /\ UNCHANGED <<resources, kept, PCPtasks, toBeUnlocked>>
    BY <1>1, <1>3, JobEnds DEF SigFindsNobody, table
  <2>2. TasksHaveData'
    BY <1>1, <2>1, TasksLeave DEF data
  <2>3. BooksOK'
    BY <2>1, BooksKept DEF KeptStep
  <2>4. QED  BY <1>1, <2>1, <2>2, <2>3, StateNext
<1>4. CASE SigWakes(j)
  <2>1. PICK k : k = [j EXCEPT !.at = "give", !.to = Head(waiters[j.res])]
    OBVIOUS
  <2>2. /\ jobs' = (jobs \ {j}) \cup {k} /\ k.op = j.op /\ k.dtb = j.dtb /\ k.n = j.n
        /\ k.at = "give" /\ UNCHANGED <<resources, kept, PCPtasks, toBeUnlocked>>
    BY <1>1, <1>4, <2>1 DEF SigWakes, Callers
  <2>3. OneJobASentence' /\ IsFiniteSet(jobs') /\ Turns(j, k)
    BY <1>1, <2>2, JobTurns
  <2>4. TasksHaveData'
    BY <1>1, <2>2, <2>3, TasksTurn DEF data
  <2>5. BooksOK'
    BY <2>2, <2>3, BooksKept DEF KeptStep
  <2>6. QED  BY <1>1, <2>3, <2>4, <2>5, StateNext
<1>5. CASE SigGives(j)
  <2>1. /\ Becomes(j, "post") /\ j.to \in DTBs /\ toBeUnlocked' = Append(toBeUnlocked, j.to)
        /\ UNCHANGED <<resources, PCPtasks>>
    BY <1>1, <1>5 DEF SigGives, table, JobOK
  <2>2. KeptStep
    BY <1>1, <1>5 DEF KeptStep, SigGives, JobOK
  <2>3. PICK k \in AllCallers : /\ k.at = "post" /\ k.op = "SIGNAL"
                                /\ Turns(j, k) /\ OneJobASentence' /\ IsFiniteSet(jobs')
    BY <1>1, <2>1, GoesOn DEF Places
  <2>4. TasksHaveData'
    BY <1>1, <2>1, <2>3, TasksPush
  <2>5. BooksOK'
    BY <2>1, <2>2, <2>3, BooksKept
  <2>6. QED  BY <1>1, <2>3, <2>4, <2>5, StateNext
<1>6. CASE SigPosts(j)
  <2>1. /\ OneJobASentence' /\ IsFiniteSet(jobs')
        /\ j \in Running /\ j \in AllCallers /\ Running' = Running \ {j}
        /\ UNCHANGED <<resources, kept, toBeUnlocked>> /\ j.at = "post"
        /\ PCPtasks' = Append(PCPtasks, "UNLOCK")
    BY <1>1, <1>6, JobEnds DEF SigPosts, table
  <2>2. TasksHaveData'
    <3>1. TaskOf(j, "UNLOCK") /\ "UNLOCK" \in Tasks
      BY <1>1 DEF TaskOf, Tasks
    <3>2. QED  BY <1>1, <2>1, <3>1, TasksPost DEF data
  <2>3. BooksOK'
    BY <2>1, BooksKept DEF KeptStep
  <2>4. QED  BY <1>1, <2>1, <2>2, <2>3, StateNext
<1>7. QED  BY <1>2, <1>3, <1>4, <1>5, <1>6 DEF SigStep

\* The steps of the jobs that queue a DTB and give the PCP its tasks.
LEMMA StateOfTasks ==
  ASSUME StateOK, NEW j \in jobs, LeavesAlone(j), TaskStep(j)
  PROVE  StateOK'
<1>1. /\ JobOK(j) /\ j.dtb \in DTBs /\ TypesOK' /\ UNCHANGED <<pcp, kept, resources>>
  BY TypesOfTasks DEF StateOK, JobOK, LeavesAlone
<1>2. ASSUME IsFiniteSet(jobs')
      PROVE  BooksOK'
  BY <1>1, <1>2, BooksKept DEF KeptStep
<1>3. CASE BlockQueues(j)
  <2>1. Becomes(j, "push") /\ UNCHANGED <<data, PCPtasks>>
    BY <1>3 DEF BlockQueues
  <2>2. PICK k \in AllCallers :
           k.at = "push" /\ Turns(j, k) /\ OneJobASentence' /\ IsFiniteSet(jobs')
    BY <1>1, <2>1, GoesOn DEF Places
  <2>3. TasksHaveData'
    BY <2>1, <2>2, TasksTurn
  <2>4. QED  BY <1>1, <1>2, <2>2, <2>3, StateNext
<1>4. CASE BlockPushes(j) \/ QuantumPushes(j) \/ EndPushes(j)
  <2>1. Becomes(j, "post") /\ UNCHANGED PCPtasks
    BY <1>4 DEF BlockPushes, QuantumPushes, EndPushes
  <2>2. PICK k \in AllCallers : /\ k.at = "post" /\ k.op = j.op
                                /\ Turns(j, k) /\ OneJobASentence' /\ IsFiniteSet(jobs')
    BY <1>1, <2>1, GoesOn DEF Places
  <2>3. \/ /\ k.op = "BLOCKDTB" /\ toBeBlocked' = Append(toBeBlocked, j.dtb)
           /\ UNCHANGED <<toBeUnlocked, toBeEnded>>
        \/ /\ k.op \in {"SIGNAL", "EXIT", "EOQUANTUM"}
           /\ toBeUnlocked' = Append(toBeUnlocked, j.dtb)
           /\ UNCHANGED <<toBeBlocked, toBeEnded>>
        \/ /\ k.op \in {"EOFORABORT", "FINALIZAR"} /\ toBeEnded' = Append(toBeEnded, j.dtb)
           /\ UNCHANGED <<toBeBlocked, toBeUnlocked>>
    BY <1>4, <2>2 DEF BlockPushes, QuantumPushes, EndPushes
  <2>4. TasksHaveData'
    BY <1>1, <2>1, <2>2, <2>3, TasksPush
  <2>5. QED  BY <1>1, <1>2, <2>2, <2>4, StateNext
<1>5. ASSUME NEW t \in {"BLOCK", "UNLOCK", "END"}, Posts(j, t)
      PROVE  StateOK'
  <2>1. /\ OneJobASentence' /\ IsFiniteSet(jobs')
        /\ j \in Running /\ j \in AllCallers /\ Running' = Running \ {j}
        /\ UNCHANGED data /\ j.at = "post"
        /\ PCPtasks' = Append(PCPtasks, t)
    BY <1>1, <1>5, JobEnds DEF Posts
  <2>2. TaskOf(j, t) /\ t \in Tasks
    BY <1>5 DEF Posts, TaskOf, Tasks
  <2>3. TasksHaveData'
    BY <2>1, <2>2, TasksPost
  <2>4. QED  BY <1>1, <1>2, <2>1, <2>3, StateNext
<1>6. QED  BY <1>3, <1>4, <1>5 DEF TaskStep

\* The steps of the PCP.
LEMMA StateOfThePCP ==
  ASSUME StateOK, OneTurn, PcpStep
  PROVE  StateOK'
<1>1. /\ TypesOK' /\ OneJobASentence /\ IsFiniteSet(jobs)
      /\ pcp \in Callers({"EXIT"}, {"wait", "next", "wake", "give", "post"})
      /\ pcp' \in Callers({"EXIT"}, {"wait", "next", "wake", "give", "post"})
      /\ PCPtasks \in Seq(Tasks)
      /\ toBeBlocked \in Seq(DTBs) /\ toBeUnlocked \in Seq(DTBs) /\ toBeEnded \in Seq(DTBs)
      /\ toBeBlocked' \in Seq(DTBs) /\ toBeUnlocked' \in Seq(DTBs) /\ toBeEnded' \in Seq(DTBs)
  BY TypesOfThePCP DEF StateOK, BooksOK, TypesOK, TypeOK, PcpOK, Tasks
<1>2. ASSUME UNCHANGED <<jobs, resources>>, KeptStep
      PROVE  OneJobASentence' /\ BooksOK'
  <2>1. OneJobASentence'
    BY <1>1, <1>2 DEF OneJobASentence
  <2>2. QED  BY <1>1, <1>2, <2>1, BooksKept
<1>3. ASSUME NEW d \in DTBs, PCPDispatches(d)
      PROVE  StateOK'
  <2>1. UNCHANGED <<jobs, resources, kept, Running, PCPtasks, toBeBlocked, toBeUnlocked, toBeEnded>>
    BY <1>3 DEF PCPDispatches, table, data, Running
  <2>2. TasksHaveData'
    BY <2>1, TaskTypes DEF TasksHaveData
  <2>3. QED  BY <1>1, <1>2, <2>1, <2>2, StateNext DEF KeptStep
<1>4. CASE PCPBlocks \/ PCPUnlocks \/ PCPEnds
  <2>1. PICK t \in Tasks : /\ PCPTakes(t)
                           /\ t = "BLOCK" => PCPBlocks
                           /\ t = "UNLOCK" => PCPUnlocks
                           /\ t = "END" => PCPEnds
    BY <1>4 DEF PCPBlocks, PCPUnlocks, PCPEnds, Tasks
  <2>2. /\ PCPtasks # <<>> /\ Head(PCPtasks) = t /\ PCPtasks' = Tail(PCPtasks)
        /\ t = "BLOCK" => toBeBlocked # <<>>
        /\ t = "UNLOCK" => toBeUnlocked # <<>>
        /\ t = "END" => toBeEnded # <<>>
    BY <2>1, TasksOfThePCP
  <2>3. /\ IF t = "BLOCK" THEN toBeBlocked' = Tail(toBeBlocked) ELSE UNCHANGED toBeBlocked
        /\ IF t = "UNLOCK" THEN toBeUnlocked' = Tail(toBeUnlocked) ELSE UNCHANGED toBeUnlocked
        /\ IF t = "END" THEN toBeEnded' = Tail(toBeEnded) ELSE UNCHANGED toBeEnded
        /\ UNCHANGED <<jobs, resources, kept>>
    BY <2>1 DEF PCPBlocks, PCPUnlocks, PCPEnds, Tasks, table
  <2>4. /\ Covered(PCPtasks', "BLOCK", Running, {"BLOCKDTB"}, toBeBlocked')
        /\ Covered(PCPtasks', "UNLOCK", Running, {"SIGNAL", "EXIT", "EOQUANTUM"}, toBeUnlocked')
        /\ Covered(PCPtasks', "END", Running, {"EOFORABORT", "FINALIZAR"}, toBeEnded')
    <3>1. /\ IF Head(PCPtasks) = "BLOCK" THEN toBeBlocked # <<>> /\ toBeBlocked' = Tail(toBeBlocked)
                                         ELSE toBeBlocked' = toBeBlocked
          /\ IF Head(PCPtasks) = "UNLOCK" THEN toBeUnlocked # <<>> /\ toBeUnlocked' = Tail(toBeUnlocked)
                                         ELSE toBeUnlocked' = toBeUnlocked
          /\ IF Head(PCPtasks) = "END" THEN toBeEnded # <<>> /\ toBeEnded' = Tail(toBeEnded)
                                         ELSE toBeEnded' = toBeEnded
      BY <2>2, <2>3
    <3>2. QED  BY <1>1, <2>2, <3>1, TaskTypes, CoverTake
  <2>5. TasksHaveData'
    <3>1. CASE t # "END"
      <4>1. UNCHANGED Running
        BY <2>1, <3>1 DEF PCPBlocks, PCPUnlocks, Running, Tasks
      <4>2. QED  BY <2>4, <4>1 DEF TasksHaveData
    <3>2. CASE t = "END"
      <4>1. PICK s, k : s = pcp /\ k = pcp' /\ Turns(s, k)
        BY <1>1, <2>3, PcpTurns
      <4>2. k.at = "next" /\ s \in Running /\ Running' = (Running \ {s}) \cup {k}
        BY <2>1, <3>2, <4>1 DEF PCPEnds, AtWait, Job, Turns
      <4>3. \A op : k \notin Posting(op)
        BY <4>2 DEF Posting
      <4>4. /\ \A e : Occurrences(PCPtasks', e) \in Int
            /\ Len(toBeBlocked') \in Int /\ Len(toBeUnlocked') \in Int /\ Len(toBeEnded') \in Int
        BY <1>1, <2>2, OccursTail, LenProperties
      <4>5. /\ Covered(PCPtasks', "BLOCK", Running', {"BLOCKDTB"}, toBeBlocked')
            /\ Covered(PCPtasks', "UNLOCK", Running', {"SIGNAL", "EXIT", "EOQUANTUM"}, toBeUnlocked')
            /\ Covered(PCPtasks', "END", Running', {"EOFORABORT", "FINALIZAR"}, toBeEnded')
        BY <2>4, <4>2, <4>3, <4>4, RunningIsFinite, CoverTurn
      <4>6. QED  BY <4>5 DEF TasksHaveData
    <3>3. QED  BY <3>1, <3>2
  <2>6. QED  BY <1>1, <1>2, <2>3, <2>5, StateNext DEF KeptStep
<1>5. CASE PCPExits
  <2>1. UNCHANGED <<jobs, resources, kept, PCPtasks, data>> /\ pcp'.at = "wait"
    BY <1>5 DEF PCPExits, AtWait, Job
  <2>2. PICK s, k : s = pcp /\ k = pcp' /\ Turns(s, k)
    BY <1>1, <2>1, PcpTurns
  <2>3. TasksHaveData'
    BY <2>1, <2>2, TasksTurn
  <2>4. QED  BY <1>1, <1>2, <2>1, <2>3, StateNext DEF KeptStep
<1>6. CASE PcpSame /\ ExitStep
  <2>1. /\ UNCHANGED <<jobs, resources, toBeBlocked, toBeEnded>>
        /\ pcp.at # "wait" => pcp.dtb \in DTBs
        /\ pcp.at \in {"wake", "give", "post"} => pcp.res \in resources
        /\ pcp.at = "give" => pcp.to \in DTBs
        /\ resources \subseteq Names
    BY <1>6 DEF PcpSame, StateOK, PcpOK, TypeOK
  <2>2. PICK s, k : s = pcp /\ k = pcp' /\ Turns(s, k)
    BY <1>1, <2>1, PcpTurns
  <2>3. KeptStep
    BY <1>6, <2>1 DEF ExitStep, PcpReturns, PcpFindsNobody, PcpWakes, PcpGives, PcpPosts,
       KeptStep
  <2>4. CASE (\E r \in Names : PcpReturns(r)) \/ PcpFindsNobody \/ PcpWakes
    <3>1. UNCHANGED <<PCPtasks, data>> /\ k.at # "post"
      BY <1>1, <2>1, <2>2, <2>4 DEF PcpReturns, PcpFindsNobody, PcpWakes, data, Callers,
         AtWait, Job
    <3>2. TasksHaveData'
      BY <2>2, <3>1, TasksTurn
    <3>3. QED  BY <1>1, <1>2, <2>1, <2>3, <3>2, StateNext
  <2>5. CASE PcpGives
    <3>1. UNCHANGED PCPtasks /\ k.at = "post" /\ k.op = "EXIT" /\ pcp.to \in DTBs
          /\ toBeUnlocked' = Append(toBeUnlocked, pcp.to)
      BY <1>1, <2>1, <2>2, <2>5 DEF PcpGives, Callers
    <3>2. TasksHaveData'
      BY <2>1, <2>2, <3>1, TasksPush
    <3>3. QED  BY <1>1, <1>2, <2>1, <2>3, <3>2, StateNext
  <2>6. CASE PcpPosts
    <3>1. UNCHANGED data /\ k.at # "post" /\ s.at = "post" /\ s.op = "EXIT"
          /\ PCPtasks' = Append(PCPtasks, "UNLOCK")
          /\ s \in Running /\ s \in AllCallers /\ Running' = (Running \ {s}) \cup {k}
      BY <1>1, <2>1, <2>2, <2>6 DEF PcpPosts, Callers, AtWait, Job, data, Turns
    <3>2. TaskOf(s, "UNLOCK") /\ "UNLOCK" \in Tasks
      BY <3>1 DEF TaskOf, Tasks
    <3>3. TasksHaveData'
      BY <3>1, <3>2, TasksPost
    <3>4. QED  BY <1>1, <1>2, <2>1, <2>3, <3>3, StateNext
  <2>7. QED  BY <1>6, <2>4, <2>5, <2>6 DEF ExitStep
<1>7. QED  BY <1>3, <1>4, <1>5, <1>6 DEF PcpStep

\* A message of a CPU, or a command: the sentence is a new one.
LEMMA StateOfCPUs ==
  ASSUME StateOK, NEW d \in DTBs, CPU(d) \/ CommandFinalizar(d)
  PROVE  StateOK'
<1>1. /\ TypesOK' /\ OneJobASentence /\ IsFiniteSet(jobs)
      /\ \A j \in jobs : j.op \in Sentences => j.n > ops[j.dtb] /\ j.n \in Nat
      /\ ops \in [DTBs -> Nat]
  BY TypesOfCPUs DEF StateOK, BooksOK, JobOK, Callers, TypeOK
<1>2. /\ UNCHANGED <<resources, kept, PCPtasks, toBeBlocked, toBeUnlocked, toBeEnded>>
  BY <1>1, NewJobs DEF table
<1>3. PICK k : NewJob(d, k)
  BY <1>1, NewJobs
<1>4. OneJobASentence'
  <2>1. ASSUME NEW j \in jobs, j.op \in Sentences, k.op \in Sentences, j.dtb = k.dtb, j.n = k.n
        PROVE  FALSE
    BY <1>1, <1>3, <2>1 DEF NewJob
  <2>2. jobs' = jobs \cup {k}
    BY <1>3 DEF NewJob
  <2>3. QED  BY <1>1, <2>1, <2>2 DEF OneJobASentence
<1>5. IsFiniteSet(jobs')
  BY <1>1, <1>3, FS_AddElement DEF NewJob
<1>6. BooksOK'
  BY <1>2, <1>5, BooksKept DEF KeptStep
<1>7. TasksHaveData'
  <2>1. Running' = Running \cup {k} /\ \A op : k \notin Posting(op)
    BY <1>3 DEF NewJob, Posting
  <2>2. /\ Covered(PCPtasks, "BLOCK", Running', {"BLOCKDTB"}, toBeBlocked)
        /\ Covered(PCPtasks, "UNLOCK", Running', {"SIGNAL", "EXIT", "EOQUANTUM"}, toBeUnlocked)
        /\ Covered(PCPtasks, "END", Running', {"EOFORABORT", "FINALIZAR"}, toBeEnded)
    BY <2>1, TaskTypes, CoverCome
  <2>3. QED  BY <1>2, <2>2 DEF TasksHaveData
<1>8. QED  BY <1>1, <1>4, <1>6, <1>7, StateNext

-----------------------------------------------------------------------------
(***************************************************************************)
(* Every step keeps the books.                                             *)
(***************************************************************************)

\* The callers on their way with an instance of r: it was taken for them, their refusal is
\* not a waiter's yet, they hand it to a waiter, or it was returned and is still kept.
Granting(r) == InFlight({"WAIT"}, {"grant"}, r)
Owed(r)     == InFlight({"BLOCKDTB"}, {"start"}, r)
Handing(r)  == InFlight({"SIGNAL", "EXIT"}, {"give"}, r)
Dropping(r) == InFlight({"SIGNAL"}, {"drop"}, r)
Balance(r) ==
    availables[r] + KeptOf(r) + Len(waiters[r]) + Granting(r) + Owed(r) + Handing(r)
      = supply[r] + Dropping(r)

\* What they are one by one.
Grants(s, r) == Is(s, {"WAIT"}, {"grant"}, r)
Owes(s, r)   == Is(s, {"BLOCKDTB"}, {"start"}, r)
Hands(s, r)  == Is(s, {"SIGNAL", "EXIT"}, {"give"}, r)
Drops(s, r)  == Is(s, {"SIGNAL"}, {"drop"}, r)

\* The numbers of a resource.
LEMMA BalanceTypes ==
  ASSUME StateOK, NEW r \in Known
  PROVE  /\ r \in Names /\ r \in resources /\ IsFiniteSet(Instances(r))
         /\ availables[r] \in Int /\ KeptOf(r) \in Nat /\ supply[r] \in Nat
         /\ waiters[r] \in Seq(DTBs) /\ Len(waiters[r]) \in Nat
         /\ kept \in [DTBs -> [Names -> Nat]] /\ availables \in [Names -> Int]
         /\ waiters \in [Names -> Seq(DTBs)] /\ supply \in [Names -> Nat]
<1>1. /\ r \in Names /\ r \in resources /\ IsFiniteSet(Instances(r))
      /\ kept \in [DTBs -> [Names -> Nat]] /\ availables \in [Names -> Int]
      /\ waiters \in [Names -> Seq(DTBs)] /\ supply \in [Names -> Nat]
  BY ResourcesAssumption DEF StateOK, TypeOK, BooksOK
<1>2. KeptOf(r) \in Nat
  BY <1>1, FS_CardinalityType DEF KeptOf
<1>3. Len(waiters[r]) \in Nat
  BY <1>1, LenProperties
<1>4. QED  BY <1>1, <1>2, <1>3

\* A caller turns: what is on its way of a resource.
LEMMA FlightsTurn ==
  ASSUME StateOK, NEW s, NEW k, Turns(s, k), NEW r,
         k.op \in Sentences \cup {"EXIT"} => s.op \in Sentences \cup {"EXIT"}
  PROVE  /\ Granting(r) \in Nat /\ Owed(r) \in Nat /\ Handing(r) \in Nat /\ Dropping(r) \in Nat
         /\ Granting(r)' = Granting(r) - Grants(s, r) + Grants(k, r)
         /\ Owed(r)' = Owed(r) - Owes(s, r) + Owes(k, r)
         /\ Handing(r)' = Handing(r) - Hands(s, r) + Hands(k, r)
         /\ Dropping(r)' = Dropping(r) - Drops(s, r) + Drops(k, r)
<1>1. Granting(r) \in Nat /\ Granting(r)' = Granting(r) - Grants(s, r) + Grants(k, r)
  BY TurnCounts DEF Granting, Grants, Sentences
<1>2. Owed(r) \in Nat /\ Owed(r)' = Owed(r) - Owes(s, r) + Owes(k, r)
  BY TurnCounts DEF Owed, Owes, Sentences
<1>3. Handing(r) \in Nat /\ Handing(r)' = Handing(r) - Hands(s, r) + Hands(k, r)
  BY TurnCounts DEF Handing, Hands, Sentences
<1>4. Dropping(r) \in Nat /\ Dropping(r)' = Dropping(r) - Drops(s, r) + Drops(k, r)
  BY TurnCounts DEF Dropping, Drops, Sentences
<1>5. QED  BY <1>1, <1>2, <1>3, <1>4

\* A caller leaves.
LEMMA FlightsLeave ==
  ASSUME StateOK, NEW s, s \in Running, s \in AllCallers, Running' = Running \ {s}, NEW r
  PROVE  /\ Granting(r) \in Nat /\ Owed(r) \in Nat /\ Handing(r) \in Nat /\ Dropping(r) \in Nat
         /\ Granting(r)' = Granting(r) - Grants(s, r)
         /\ Owed(r)' = Owed(r) - Owes(s, r)
         /\ Handing(r)' = Handing(r) - Hands(s, r)
         /\ Dropping(r)' = Dropping(r) - Drops(s, r)
BY LeaveCounts DEF Granting, Grants, Owed, Owes, Handing, Hands, Dropping, Drops

\* A job at its start comes.
LEMMA FlightsCome ==
  ASSUME StateOK, NEW d, NEW k, NewJob(d, k), NEW r
  PROVE  /\ Granting(r) \in Nat /\ Owed(r) \in Nat /\ Handing(r) \in Nat /\ Dropping(r) \in Nat
         /\ Granting(r)' = Granting(r) /\ Owed(r)' = Owed(r)
         /\ Handing(r)' = Handing(r) /\ Dropping(r)' = Dropping(r)
<1>1. /\ Is(k, {"WAIT"}, {"grant"}, r) = 0 /\ Is(k, {"BLOCKDTB"}, {"start"}, r) = 0
      /\ Is(k, {"SIGNAL", "EXIT"}, {"give"}, r) = 0 /\ Is(k, {"SIGNAL"}, {"drop"}, r) = 0
      /\ k \in AllCallers /\ Running' = Running \cup {k}
  BY DEF NewJob, Is
<1>2. QED  BY <1>1, ComeCounts DEF Granting, Owed, Handing, Dropping

\* Nothing of a resource changes, nor what is on its way.
LEMMA BalanceKept ==
  ASSUME NEW r, Balance(r), UNCHANGED <<availables, kept, waiters, supply>>,
         Granting(r)' = Granting(r), Owed(r)' = Owed(r), Handing(r)' = Handing(r),
         Dropping(r)' = Dropping(r)
  PROVE  Balance(r)'
<1>1. KeptOf(r)' = KeptOf(r)
  BY DEF KeptOf, Instances
<1>2. QED  BY <1>1 DEF Balance

\* What a step adds to each number of the balance of r.
Moves(r, a, k, w, g, o, h, s, d) ==
    /\ availables'[r] = availables[r] + a /\ KeptOf(r)' = KeptOf(r) + k
    /\ Len(waiters'[r]) = Len(waiters[r]) + w
    /\ Granting(r)' = Granting(r) + g /\ Owed(r)' = Owed(r) + o
    /\ Handing(r)' = Handing(r) + h
    /\ supply'[r] = supply[r] + s /\ Dropping(r)' = Dropping(r) + d

\* The balance is kept if both sides of it move by the same.
LEMMA BalanceMoves ==
  ASSUME StateOK, NEW r \in Known, Balance(r),
         NEW a \in Int, NEW k \in Int, NEW w \in Int, NEW g \in Int, NEW o \in Int,
         NEW h \in Int, NEW s \in Int, NEW d \in Int,
         Moves(r, a, k, w, g, o, h, s, d), a + k + w + g + o + h = s + d
  PROVE  Balance(r)'
<1>0. /\ availables[r] \in Int /\ KeptOf(r) \in Int /\ Len(waiters[r]) \in Int
      /\ Granting(r) \in Int /\ Owed(r) \in Int /\ Handing(r) \in Int
      /\ supply[r] \in Int /\ Dropping(r) \in Int
  <2>1. ASSUME NEW op, NEW at
        PROVE  InFlight(op, at, r) \in Nat
    BY RunningIsFinite, InFlightCounts, FS_Intersection, FS_CardinalityType
  <2>2. availables[r] \in Int /\ KeptOf(r) \in Nat /\ Len(waiters[r]) \in Nat /\ supply[r] \in Nat
    BY BalanceTypes
  <2>3. QED  BY <2>1, <2>2 DEF Granting, Owed, Handing, Dropping
<1>1. PICK A \in Int : A = availables[r]
  BY <1>0
<1>2. PICK K \in Int : K = KeptOf(r)
  BY <1>0
<1>3. PICK W \in Int : W = Len(waiters[r])
  BY <1>0
<1>4. PICK G \in Int : G = Granting(r)
  BY <1>0
<1>5. PICK O \in Int : O = Owed(r)
  BY <1>0
<1>6. PICK H \in Int : H = Handing(r)
  BY <1>0
<1>7. PICK S \in Int : S = supply[r]
  BY <1>0
<1>8. PICK D \in Int : D = Dropping(r)
  BY <1>0
<1>9. A + K + W + G + O + H = S + D
  BY <1>1, <1>2, <1>3, <1>4, <1>5, <1>6, <1>7, <1>8 DEF Balance
<1>10. (A + a) + (K + k) + (W + w) + (G + g) + (O + o) + (H + h) = (S + s) + (D + d)
  BY <1>9
<1>11. /\ availables'[r] = A + a /\ KeptOf(r)' = K + k /\ Len(waiters'[r]) = W + w
       /\ Granting(r)' = G + g /\ Owed(r)' = O + o /\ Handing(r)' = H + h
       /\ supply'[r] = S + s /\ Dropping(r)' = D + d
  BY <1>1, <1>2, <1>3, <1>4, <1>5, <1>6, <1>7, <1>8 DEF Moves
<1>12. QED  BY <1>10, <1>11 DEF Balance

\* The steps of a WAIT.
LEMMA BalanceOfWaits ==
  ASSUME StateOK, TypesOK', NEW j \in jobs, WaitStep(j), NEW r \in Known, Balance(r)
  PROVE  Balance(r)'
<1>1. /\ JobOK(j) /\ j.dtb \in DTBs /\ j.res \in Names /\ j.op = "WAIT" /\ UNCHANGED pcp
      /\ j.at = "create" => j.res \notin Known
  BY DEF StateOK, JobOK, WaitStep, WaitLooksUp, WaitCreates, WaitIsGranted,
     WaitIsRefused, WaitGrants
<1>2. /\ r \in Names /\ IsFiniteSet(Instances(r))
      /\ availables[r] \in Int /\ KeptOf(r) \in Nat /\ supply[r] \in Nat
      /\ Len(waiters[r]) \in Nat
      /\ kept \in [DTBs -> [Names -> Nat]] /\ availables \in [Names -> Int]
      /\ waiters \in [Names -> Seq(DTBs)] /\ supply \in [Names -> Nat]
  BY BalanceTypes
<1>0. /\ availables[r] \in Int /\ KeptOf(r) \in Nat /\ supply[r] \in Nat
      /\ Len(waiters[r]) \in Nat
  BY <1>2
<1>3. ASSUME NEW a \in {"take", "create", "grant"}, Becomes(j, a)
      PROVE  /\ Granting(r) \in Nat /\ Owed(r) \in Nat /\ Handing(r) \in Nat /\ Dropping(r) \in Nat
             /\ Granting(r)' = Granting(r) - Grants(j, r)
                                 + (IF a = "grant" /\ j.res = r THEN 1 ELSE 0)
             /\ Owed(r)' = Owed(r) /\ Handing(r)' = Handing(r) /\ Dropping(r)' = Dropping(r)
  <2>1. PICK k \in AllCallers : k.op = j.op /\ k.res = j.res /\ k.at = a /\ Turns(j, k)
    BY <1>1, <1>3, GoesOn DEF Places
  <2>2. /\ Owes(j, r) = 0 /\ Owes(k, r) = 0 /\ Hands(j, r) = 0 /\ Hands(k, r) = 0
        /\ Drops(j, r) = 0 /\ Drops(k, r) = 0
        /\ Grants(k, r) = (IF a = "grant" /\ j.res = r THEN 1 ELSE 0)
    BY <1>1, <2>1 DEF Owes, Hands, Drops, Grants, Is
  <2>3. QED  BY <2>1, <2>2, FlightsTurn
<1>4. CASE WaitLooksUp(j)
  <2>1. PICK a \in {"take", "create"} : Becomes(j, a)
    BY <1>4 DEF WaitLooksUp
  <2>2. Grants(j, r) = 0 /\ UNCHANGED <<availables, kept, waiters, supply>>
    BY <1>4 DEF WaitLooksUp, table, Grants, Is
  <2>3. QED  BY <1>3, <2>1, <2>2, BalanceKept
<1>5. CASE WaitCreates(j)
  <2>1. /\ Becomes(j, "take") /\ Grants(j, r) = 0 /\ UNCHANGED kept /\ j.res # r
        /\ availables' = [availables EXCEPT ![j.res] = 1]
        /\ waiters' = [waiters EXCEPT ![j.res] = <<>>]
        /\ supply' = [supply EXCEPT ![j.res] = @ + 1]
    BY <1>1, <1>5 DEF WaitCreates, AddNewResource, Grants, Is
  <2>2. availables'[r] = availables[r] /\ waiters'[r] = waiters[r] /\ supply'[r] = supply[r]
    BY <1>2, <2>1
  <2>3. KeptOf(r)' = KeptOf(r)
    BY <2>1 DEF KeptOf, Instances
  <2>4. Granting(r)' = Granting(r) /\ Owed(r)' = Owed(r) /\ Handing(r)' = Handing(r)
        /\ Dropping(r)' = Dropping(r)
    BY <1>3, <2>1
  <2>5. QED  BY <2>2, <2>3, <2>4 DEF Balance
<1>6. CASE WaitIsGranted(j)
  <2>1. /\ Becomes(j, "grant") /\ Grants(j, r) = 0 /\ UNCHANGED <<kept, waiters, supply>>
        /\ availables' = [availables EXCEPT ![j.res] = @ - 1]
    BY <1>6 DEF WaitIsGranted, Grants, Is
  <2>2. availables'[r] = availables[r] - (IF j.res = r THEN 1 ELSE 0)
    BY <1>2, <2>1
  <2>3. KeptOf(r)' = KeptOf(r)
    BY <2>1 DEF KeptOf, Instances
  <2>4. /\ Granting(r) \in Nat /\ Owed(r) \in Nat /\ Handing(r) \in Nat /\ Dropping(r) \in Nat
        /\ Granting(r)' = Granting(r) + (IF j.res = r THEN 1 ELSE 0)
        /\ Owed(r)' = Owed(r) /\ Handing(r)' = Handing(r) /\ Dropping(r)' = Dropping(r)
    BY <1>3, <2>1
  <2>5. PICK x \in {0, 1} : x = IF j.res = r THEN 1 ELSE 0
    OBVIOUS
  <2>6. availables'[r] = availables[r] - x /\ Granting(r)' = Granting(r) + x
    BY <2>2, <2>4, <2>5
  <2>7. waiters'[r] = waiters[r] /\ supply'[r] = supply[r]
    BY <2>1
  <2>8. /\ Granting(r) \in Nat /\ Owed(r) \in Nat /\ Handing(r) \in Nat /\ Dropping(r) \in Nat
        /\ Owed(r)' = Owed(r) /\ Handing(r)' = Handing(r) /\ Dropping(r)' = Dropping(r)
    BY <2>4
  <2>9. Moves(r, -x, 0, 0, x, 0, 0, 0, 0)
    BY <1>0, <2>3, <2>6, <2>7, <2>8 DEF Moves
  <2>10. (-x) + 0 + 0 + x + 0 + 0 = 0 + 0
        /\ 0 \in Int /\ x \in Int /\ -x \in Int
    OBVIOUS
  <2>11. QED  BY <2>9, <2>10, BalanceMoves, Zenon
<1>7. CASE WaitIsRefused(j)
  <2>1. PICK k : k = Job("BLOCKDTB", j.dtb, j.res, j.n)
    OBVIOUS
  <2>2. /\ jobs' = (jobs \ {j}) \cup {k} /\ k.op = "BLOCKDTB" /\ k.dtb = j.dtb /\ k.n = j.n
        /\ k.at = "start" /\ k.res = j.res /\ UNCHANGED <<kept, waiters, supply>>
        /\ availables' = [availables EXCEPT ![j.res] = @ - 1] /\ j.at = "take"
    BY <1>7, <2>1 DEF WaitIsRefused, Job
  <2>3. Turns(j, k)
    BY <1>1, <2>2, JobTurns
  <2>4. /\ Owes(j, r) = 0 /\ Owes(k, r) = (IF j.res = r THEN 1 ELSE 0)
        /\ Hands(j, r) = 0 /\ Hands(k, r) = 0 /\ Drops(j, r) = 0 /\ Drops(k, r) = 0
        /\ Grants(j, r) = 0 /\ Grants(k, r) = 0
    BY <1>1, <2>2 DEF Owes, Hands, Drops, Grants, Is
  <2>5. /\ Granting(r) \in Nat /\ Owed(r) \in Nat /\ Handing(r) \in Nat /\ Dropping(r) \in Nat
        /\ Owed(r)' = Owed(r) + (IF j.res = r THEN 1 ELSE 0)
        /\ Granting(r)' = Granting(r) /\ Handing(r)' = Handing(r) /\ Dropping(r)' = Dropping(r)
    BY <1>1, <2>3, <2>4, FlightsTurn DEF Sentences
  <2>6. availables'[r] = availables[r] - (IF j.res = r THEN 1 ELSE 0)
    BY <1>2, <2>2
  <2>7. KeptOf(r)' = KeptOf(r)
    BY <2>2 DEF KeptOf, Instances
  <2>8. PICK x \in {0, 1} : x = IF j.res = r THEN 1 ELSE 0
    OBVIOUS
  <2>9. availables'[r] = availables[r] - x /\ Owed(r)' = Owed(r) + x
    BY <2>5, <2>6, <2>8
  <2>10. waiters'[r] = waiters[r] /\ supply'[r] = supply[r]
    BY <2>2
  <2>11. /\ Granting(r) \in Nat /\ Owed(r) \in Nat /\ Handing(r) \in Nat /\ Dropping(r) \in Nat
         /\ Granting(r)' = Granting(r) /\ Handing(r)' = Handing(r)
         /\ Dropping(r)' = Dropping(r)
    BY <2>5
  <2>12. Moves(r, -x, 0, 0, 0, x, 0, 0, 0)
    BY <1>0, <2>7, <2>9, <2>10, <2>11 DEF Moves
  <2>13. (-x) + 0 + 0 + 0 + x + 0 = 0 + 0
        /\ 0 \in Int /\ x \in Int /\ -x \in Int
    OBVIOUS
  <2>14. QED  BY <2>12, <2>13, BalanceMoves, Zenon
<1>8. CASE WaitGrants(j)
  <2>1. /\ Running' = Running \ {j} /\ j \in Running /\ j \in AllCallers
        /\ UNCHANGED <<availables, waiters, supply>> /\ j.at = "grant"
        /\ kept' = [kept EXCEPT ![j.dtb][j.res] = @ + 1]
    BY <1>1, <1>8, JobEnds DEF WaitGrants, table
  <2>2. PICK x \in {0, 1} : x = IF j.res = r THEN 1 ELSE 0
    OBVIOUS
  <2>3. KeptOf(r)' = KeptOf(r) + (IF r = j.res THEN 1 ELSE 0)
    BY <1>1, <1>2, <2>1, KeepsMore
  <2>4. KeptOf(r)' = KeptOf(r) + x
    BY <2>2, <2>3
  <2>5. Owes(j, r) = 0 /\ Hands(j, r) = 0 /\ Drops(j, r) = 0 /\ Grants(j, r) = x
    BY <1>1, <2>1, <2>2 DEF Owes, Hands, Drops, Grants, Is
  <2>6. /\ Granting(r) \in Nat /\ Owed(r) \in Nat /\ Handing(r) \in Nat /\ Dropping(r) \in Nat
        /\ Granting(r)' = Granting(r) - x
        /\ Owed(r)' = Owed(r) /\ Handing(r)' = Handing(r) /\ Dropping(r)' = Dropping(r)
    BY <2>1, <2>5, FlightsLeave
  <2>7. availables'[r] = availables[r] /\ waiters'[r] = waiters[r] /\ supply'[r] = supply[r]
    BY <2>1
  <2>8. Moves(r, 0, x, 0, -x, 0, 0, 0, 0)
    BY <1>0, <2>4, <2>6, <2>7 DEF Moves
  <2>9. 0 + x + 0 + (-x) + 0 + 0 = 0 + 0
        /\ 0 \in Int /\ x \in Int /\ -x \in Int
    OBVIOUS
  <2>10. QED  BY <2>8, <2>9, BalanceMoves, Zenon
<1>9. QED  BY <1>4, <1>5, <1>6, <1>7, <1>8 DEF WaitStep

\* The steps of a SIGNAL.
LEMMA BalanceOfSignals ==
  ASSUME StateOK, NEW j \in jobs, SigFrame(j), SigStep(j), NEW r \in Known, Balance(r)
  PROVE  Balance(r)'
<1>1. /\ JobOK(j) /\ j.dtb \in DTBs /\ j.res \in Names /\ j.op = "SIGNAL" /\ TypesOK'
      /\ UNCHANGED pcp /\ j \in Callers(Ops, Places)
      /\ j.at = "give" => j.to \in DTBs
      /\ j.at = "create" => j.res # r
  BY TypesOfSignals DEF StateOK, JobOK, SigFrame
<1>2. /\ r \in Names /\ IsFiniteSet(Instances(r)) /\ r \in resources
      /\ availables[r] \in Int /\ KeptOf(r) \in Nat /\ supply[r] \in Nat
      /\ waiters[r] \in Seq(DTBs) /\ Len(waiters[r]) \in Nat
      /\ kept \in [DTBs -> [Names -> Nat]] /\ availables \in [Names -> Int]
      /\ waiters \in [Names -> Seq(DTBs)] /\ supply \in [Names -> Nat]
  BY BalanceTypes
<1>0. /\ availables[r] \in Int /\ KeptOf(r) \in Nat /\ supply[r] \in Nat
      /\ Len(waiters[r]) \in Nat
  BY <1>2
<1>3. ASSUME NEW a \in {"create", "drop", "wake", "post"}, Becomes(j, a)
      PROVE  /\ Granting(r) \in Nat /\ Owed(r) \in Nat /\ Handing(r) \in Nat /\ Dropping(r) \in Nat
             /\ Granting(r)' = Granting(r) /\ Owed(r)' = Owed(r)
             /\ Handing(r)' = Handing(r) - Hands(j, r)
             /\ Dropping(r)' = Dropping(r) - Drops(j, r)
                                 + (IF a = "drop" /\ j.res = r THEN 1 ELSE 0)
  <2>1. PICK k \in AllCallers : k.op = j.op /\ k.res = j.res /\ k.at = a /\ Turns(j, k)
    BY <1>1, <1>3, GoesOn DEF Places
  <2>2. /\ Owes(j, r) = 0 /\ Owes(k, r) = 0 /\ Grants(j, r) = 0 /\ Grants(k, r) = 0
        /\ Hands(k, r) = 0 /\ Hands(j, r) \in {0, 1} /\ Drops(j, r) \in {0, 1}
        /\ Drops(k, r) = (IF a = "drop" /\ j.res = r THEN 1 ELSE 0)
    BY <1>1, <2>1 DEF Owes, Hands, Drops, Grants, Is
  <2>3. QED  BY <2>1, <2>2, FlightsTurn
<1>4. ASSUME Running' = Running \ {j}, j \in Running, j \in AllCallers, j.at \notin {"give", "drop"}
      PROVE  /\ Granting(r)' = Granting(r) /\ Owed(r)' = Owed(r)
             /\ Handing(r)' = Handing(r) /\ Dropping(r)' = Dropping(r)
  <2>1. Owes(j, r) = 0 /\ Grants(j, r) = 0 /\ Hands(j, r) = 0 /\ Drops(j, r) = 0
    BY <1>1, <1>4 DEF Owes, Hands, Drops, Grants, Is
  <2>2. QED  BY <1>4, <2>1, FlightsLeave
<1>5. PICK x \in {0, 1} : x = IF j.res = r THEN 1 ELSE 0
  OBVIOUS
<1>6. CASE SigReturns(j)
  <2>1. /\ Becomes(j, "drop") /\ UNCHANGED <<kept, waiters, supply>>
        /\ availables' = [availables EXCEPT ![j.res] = @ + 1]
        /\ Hands(j, r) = 0 /\ Drops(j, r) = 0
    BY <1>6 DEF SigReturns, Hands, Drops, Is
  <2>2. /\ Granting(r) \in Nat /\ Owed(r) \in Nat /\ Handing(r) \in Nat /\ Dropping(r) \in Nat
        /\ Granting(r)' = Granting(r) /\ Owed(r)' = Owed(r) /\ Handing(r)' = Handing(r)
        /\ Dropping(r)' = Dropping(r) + x
    BY <1>3, <1>5, <2>1
  <2>3. availables'[r] = availables[r] + x
    BY <1>2, <1>5, <2>1
  <2>4. KeptOf(r)' = KeptOf(r) /\ waiters'[r] = waiters[r] /\ supply'[r] = supply[r]
    BY <2>1 DEF KeptOf, Instances
  <2>5. Moves(r, x, 0, 0, 0, 0, 0, 0, x)
    BY <1>0, <2>2, <2>3, <2>4 DEF Moves
  <2>6. x + 0 + 0 + 0 + 0 + 0 = 0 + x
        /\ 0 \in Int /\ x \in Int
    OBVIOUS
  <2>7. QED  BY <2>5, <2>6, BalanceMoves, Zenon
<1>7. CASE SigMisses(j)
  <2>1. /\ Becomes(j, "create") /\ UNCHANGED <<availables, kept, waiters, supply>>
        /\ Hands(j, r) = 0 /\ Drops(j, r) = 0
    BY <1>7 DEF SigMisses, table, Hands, Drops, Is
  <2>2. QED  BY <1>3, <2>1, BalanceKept
<1>8. CASE SigCreates(j)
  <2>1. /\ Becomes(j, "drop") /\ UNCHANGED <<kept, supply>> /\ j.res # r
        /\ availables' = [availables EXCEPT ![j.res] = 1]
        /\ waiters' = [waiters EXCEPT ![j.res] = <<>>]
        /\ Hands(j, r) = 0 /\ Drops(j, r) = 0
    BY <1>1, <1>8 DEF SigCreates, AddNewResource, Hands, Drops, Is
  <2>2. availables'[r] = availables[r] /\ waiters'[r] = waiters[r] /\ supply'[r] = supply[r]
    BY <1>2, <2>1
  <2>3. KeptOf(r)' = KeptOf(r)
    BY <2>1 DEF KeptOf, Instances
  <2>4. Granting(r)' = Granting(r) /\ Owed(r)' = Owed(r) /\ Handing(r)' = Handing(r)
        /\ Dropping(r)' = Dropping(r)
    BY <1>3, <2>1
  <2>5. QED  BY <2>2, <2>3, <2>4 DEF Balance
<1>9. CASE SigDropsKept(j)
  <2>1. /\ Becomes(j, "wake") /\ UNCHANGED <<availables, waiters, supply>> /\ j.at = "drop"
        /\ kept[j.dtb][j.res] > 0 /\ kept' = [kept EXCEPT ![j.dtb][j.res] = @ - 1]
    BY <1>9 DEF SigDropsKept, table
  <2>2. Hands(j, r) = 0 /\ Drops(j, r) = x
    BY <1>1, <1>5, <2>1 DEF Hands, Drops, Is
  <2>3. /\ Granting(r) \in Nat /\ Owed(r) \in Nat /\ Handing(r) \in Nat /\ Dropping(r) \in Nat
        /\ Granting(r)' = Granting(r) /\ Owed(r)' = Owed(r) /\ Handing(r)' = Handing(r)
        /\ Dropping(r)' = Dropping(r) - x
    BY <1>3, <2>1, <2>2
  <2>4. KeptOf(r)' = KeptOf(r) - (IF r = j.res THEN 1 ELSE 0)
    BY <1>1, <1>2, <2>1, KeepsLess
  <2>5. KeptOf(r)' = KeptOf(r) - x
    BY <1>5, <2>4
  <2>6. availables'[r] = availables[r] /\ waiters'[r] = waiters[r] /\ supply'[r] = supply[r]
    BY <2>1
  <2>7. Moves(r, 0, -x, 0, 0, 0, 0, 0, -x)
    BY <1>0, <2>3, <2>5, <2>6 DEF Moves
  <2>8. 0 + (-x) + 0 + 0 + 0 + 0 = 0 + (-x)
        /\ 0 \in Int /\ -x \in Int
    OBVIOUS
  <2>9. QED  BY <2>7, <2>8, BalanceMoves, Zenon
<1>10. CASE SigDropsNothing(j)
  <2>1. /\ Becomes(j, "wake") /\ UNCHANGED <<availables, waiters, kept>> /\ j.at = "drop"
        /\ supply' = [supply EXCEPT ![j.res] = @ + 1]
    BY <1>10 DEF SigDropsNothing, table
  <2>2. Hands(j, r) = 0 /\ Drops(j, r) = x
    BY <1>1, <1>5, <2>1 DEF Hands, Drops, Is
  <2>3. /\ Granting(r) \in Nat /\ Owed(r) \in Nat /\ Handing(r) \in Nat /\ Dropping(r) \in Nat
        /\ Granting(r)' = Granting(r) /\ Owed(r)' = Owed(r) /\ Handing(r)' = Handing(r)
        /\ Dropping(r)' = Dropping(r) - x
    BY <1>3, <2>1, <2>2
  <2>4. supply'[r] = supply[r] + x
    BY <1>2, <1>5, <2>1
  <2>5. KeptOf(r)' = KeptOf(r) /\ waiters'[r] = waiters[r] /\ availables'[r] = availables[r]
    BY <2>1 DEF KeptOf, Instances
  <2>6. Moves(r, 0, 0, 0, 0, 0, 0, x, -x)
    BY <1>0, <2>3, <2>4, <2>5 DEF Moves
  <2>7. 0 + 0 + 0 + 0 + 0 + 0 = x + (-x)
        /\ 0 \in Int /\ x \in Int /\ -x \in Int
    OBVIOUS
  <2>8. QED  BY <2>6, <2>7, BalanceMoves, Zenon
<1>11. CASE SigFindsNobody(j) \/ SigPosts(j)
  <2>1. /\ Running' = Running \ {j} /\ j \in Running /\ j \in AllCallers
        /\ UNCHANGED <<availables, kept, waiters, supply>> /\ j.at \notin {"give", "drop"}
    BY <1>1, <1>11, JobEnds DEF SigFindsNobody, SigPosts, table
  <2>2. QED  BY <1>4, <2>1, BalanceKept
<1>12. CASE SigWakes(j)
  <2>1. PICK k : k = [j EXCEPT !.at = "give", !.to = Head(waiters[j.res])]
    OBVIOUS
  <2>2. /\ jobs' = (jobs \ {j}) \cup {k} /\ k.op = j.op /\ k.dtb = j.dtb /\ k.n = j.n
        /\ k.at = "give" /\ k.res = j.res /\ j.at = "wake"
        /\ UNCHANGED <<availables, kept, supply>> /\ waiters[j.res] # <<>>
        /\ waiters' = [waiters EXCEPT ![j.res] = Tail(@)]
    BY <1>1, <1>12, <2>1 DEF SigWakes, Callers
  <2>3. Turns(j, k)
    BY <1>1, <2>2, JobTurns
  <2>4. /\ Owes(j, r) = 0 /\ Owes(k, r) = 0 /\ Grants(j, r) = 0 /\ Grants(k, r) = 0
        /\ Drops(j, r) = 0 /\ Drops(k, r) = 0 /\ Hands(j, r) = 0 /\ Hands(k, r) = x
    BY <1>1, <1>5, <2>2 DEF Owes, Hands, Drops, Grants, Is
  <2>5. /\ Granting(r) \in Nat /\ Owed(r) \in Nat /\ Handing(r) \in Nat /\ Dropping(r) \in Nat
        /\ Granting(r)' = Granting(r) /\ Owed(r)' = Owed(r) /\ Handing(r)' = Handing(r) + x
        /\ Dropping(r)' = Dropping(r)
    BY <1>1, <2>2, <2>3, <2>4, FlightsTurn DEF Sentences
  <2>6. Len(waiters'[r]) = Len(waiters[r]) - x
    <3>1. CASE j.res = r
      <4>1. waiters[r] # <<>> /\ waiters'[r] = Tail(waiters[r])
        BY <1>2, <2>2, <3>1
      <4>2. QED  BY <1>2, <1>5, <3>1, <4>1, HeadTailProperties
    <3>2. CASE j.res # r
      <4>1. waiters'[r] = waiters[r]
        BY <1>2, <2>2, <3>2
      <4>2. QED  BY <1>0, <1>5, <3>2, <4>1
    <3>3. QED  BY <3>1, <3>2
  <2>7. KeptOf(r)' = KeptOf(r) /\ supply'[r] = supply[r] /\ availables'[r] = availables[r]
    BY <2>2 DEF KeptOf, Instances
  <2>8. Moves(r, 0, 0, -x, 0, 0, x, 0, 0)
    BY <1>0, <2>5, <2>6, <2>7 DEF Moves
  <2>9. 0 + 0 + (-x) + 0 + 0 + x = 0 + 0
        /\ 0 \in Int /\ x \in Int /\ -x \in Int
    OBVIOUS
  <2>10. QED  BY <2>8, <2>9, BalanceMoves, Zenon
<1>13. CASE SigGives(j)
  <2>1. /\ Becomes(j, "post") /\ UNCHANGED <<availables, waiters, supply>> /\ j.at = "give"
        /\ j.to \in DTBs /\ kept' = [kept EXCEPT ![j.to][j.res] = @ + 1]
    BY <1>1, <1>13 DEF SigGives, table
  <2>2. Hands(j, r) = x /\ Drops(j, r) = 0
    BY <1>1, <1>5, <2>1 DEF Hands, Drops, Is
  <2>3. /\ Granting(r) \in Nat /\ Owed(r) \in Nat /\ Handing(r) \in Nat /\ Dropping(r) \in Nat
        /\ Granting(r)' = Granting(r) /\ Owed(r)' = Owed(r) /\ Handing(r)' = Handing(r) - x
        /\ Dropping(r)' = Dropping(r)
    BY <1>3, <2>1, <2>2
  <2>4. KeptOf(r)' = KeptOf(r) + (IF r = j.res THEN 1 ELSE 0)
    BY <1>1, <1>2, <2>1, KeepsMore
  <2>5. KeptOf(r)' = KeptOf(r) + x
    BY <1>5, <2>4
  <2>6. availables'[r] = availables[r] /\ waiters'[r] = waiters[r] /\ supply'[r] = supply[r]
    BY <2>1
  <2>7. Moves(r, 0, x, 0, 0, 0, -x, 0, 0)
    BY <1>0, <2>3, <2>5, <2>6 DEF Moves
  <2>8. 0 + x + 0 + 0 + 0 + (-x) = 0 + 0
        /\ 0 \in Int /\ x \in Int /\ -x \in Int
    OBVIOUS
  <2>9. QED  BY <2>7, <2>8, BalanceMoves, Zenon
<1>14. QED  BY <1>6, <1>7, <1>8, <1>9, <1>10, <1>11, <1>12, <1>13 DEF SigStep

\* The steps of the jobs that queue a DTB and give the PCP its tasks.
LEMMA BalanceOfTasks ==
  ASSUME StateOK, NEW j \in jobs, LeavesAlone(j), TaskStep(j), NEW r \in Known, Balance(r)
  PROVE  Balance(r)'
<1>1. /\ JobOK(j) /\ j.dtb \in DTBs /\ TypesOK' /\ UNCHANGED <<pcp, kept, availables, supply>>
      /\ j.op = "BLOCKDTB" => j.res \in Names
  BY TypesOfTasks DEF StateOK, JobOK, LeavesAlone
<1>2. /\ r \in Names /\ IsFiniteSet(Instances(r))
      /\ availables[r] \in Int /\ KeptOf(r) \in Nat /\ supply[r] \in Nat
      /\ waiters[r] \in Seq(DTBs) /\ Len(waiters[r]) \in Nat
      /\ waiters \in [Names -> Seq(DTBs)]
  BY BalanceTypes
<1>0. /\ availables[r] \in Int /\ KeptOf(r) \in Nat /\ supply[r] \in Nat
      /\ Len(waiters[r]) \in Nat
  BY <1>2
<1>3. KeptOf(r)' = KeptOf(r) /\ supply'[r] = supply[r] /\ availables'[r] = availables[r]
  BY <1>1 DEF KeptOf, Instances
<1>4. CASE BlockQueues(j)
  <2>1. /\ Becomes(j, "push") /\ j.op = "BLOCKDTB" /\ j.at = "start" /\ j.res \in Names
        /\ waiters' = [waiters EXCEPT ![j.res] = Append(@, j.dtb)]
    BY <1>1, <1>4 DEF BlockQueues
  <2>2. PICK k \in AllCallers :
           k.op = j.op /\ k.res = j.res /\ k.at = "push" /\ Turns(j, k)
    BY <1>1, <2>1, GoesOn DEF Places
  <2>3. PICK x \in {0, 1} : x = IF j.res = r THEN 1 ELSE 0
    OBVIOUS
  <2>4. /\ Owes(j, r) = x /\ Owes(k, r) = 0 /\ Grants(j, r) = 0 /\ Grants(k, r) = 0
        /\ Drops(j, r) = 0 /\ Drops(k, r) = 0 /\ Hands(j, r) = 0 /\ Hands(k, r) = 0
    BY <2>1, <2>2, <2>3 DEF Owes, Hands, Drops, Grants, Is
  <2>5. /\ Granting(r) \in Nat /\ Owed(r) \in Nat /\ Handing(r) \in Nat /\ Dropping(r) \in Nat
        /\ Granting(r)' = Granting(r) /\ Owed(r)' = Owed(r) - x /\ Handing(r)' = Handing(r)
        /\ Dropping(r)' = Dropping(r)
    BY <2>2, <2>4, FlightsTurn
  <2>6. Len(waiters'[r]) = Len(waiters[r]) + x
    BY <1>1, <1>2, <2>1, <2>3, AppendProperties
  <2>7. Moves(r, 0, 0, x, 0, -x, 0, 0, 0)
    BY <1>0, <1>3, <2>5, <2>6 DEF Moves
  <2>8. 0 + 0 + x + 0 + (-x) + 0 = 0 + 0
        /\ 0 \in Int /\ x \in Int /\ -x \in Int
    OBVIOUS
  <2>9. QED  BY <2>7, <2>8, BalanceMoves, Zenon
<1>5. CASE BlockPushes(j) \/ QuantumPushes(j) \/ EndPushes(j)
  <2>1. /\ Becomes(j, "post") /\ UNCHANGED waiters
        /\ j.op \in {"BLOCKDTB", "EOQUANTUM", "EOFORABORT", "FINALIZAR"}
        /\ j.op = "BLOCKDTB" => j.at = "push"
    BY <1>5 DEF BlockPushes, QuantumPushes, EndPushes
  <2>2. PICK k \in AllCallers : k.op = j.op /\ k.at = "post" /\ Turns(j, k)
    BY <1>1, <2>1, GoesOn DEF Places
  <2>3. /\ Owes(j, r) = 0 /\ Owes(k, r) = 0 /\ Grants(j, r) = 0 /\ Grants(k, r) = 0
        /\ Drops(j, r) = 0 /\ Drops(k, r) = 0 /\ Hands(j, r) = 0 /\ Hands(k, r) = 0
    BY <2>1, <2>2 DEF Owes, Hands, Drops, Grants, Is
  <2>4. Granting(r)' = Granting(r) /\ Owed(r)' = Owed(r) /\ Handing(r)' = Handing(r)
        /\ Dropping(r)' = Dropping(r)
    <3>1. k.op \in Sentences \cup {"EXIT"} => j.op \in Sentences \cup {"EXIT"}
      BY <2>2
    <3>2. QED  BY <2>2, <2>3, <3>1, FlightsTurn
  <2>5. QED  BY <1>1, <2>1, <2>4, BalanceKept
<1>6. ASSUME NEW t \in {"BLOCK", "UNLOCK", "END"}, Posts(j, t)
      PROVE  Balance(r)'
  <2>1. /\ Running' = Running \ {j} /\ j \in Running /\ j \in AllCallers
        /\ UNCHANGED waiters /\ j.at = "post"
    BY <1>1, <1>6, JobEnds DEF Posts
  <2>2. Owes(j, r) = 0 /\ Grants(j, r) = 0 /\ Drops(j, r) = 0 /\ Hands(j, r) = 0
    BY <2>1 DEF Owes, Hands, Drops, Grants, Is
  <2>3. Granting(r)' = Granting(r) /\ Owed(r)' = Owed(r) /\ Handing(r)' = Handing(r)
        /\ Dropping(r)' = Dropping(r)
    BY <2>1, <2>2, FlightsLeave
  <2>4. QED  BY <1>1, <2>1, <2>3, BalanceKept
<1>7. QED  BY <1>4, <1>5, <1>6 DEF TaskStep

\* The steps of the PCP.
LEMMA BalanceOfThePCP ==
  ASSUME StateOK, OneTurn, PcpStep, NEW r \in Known, Balance(r)
  PROVE  Balance(r)'
<1>1. /\ TypesOK' /\ pcp.op = "EXIT" /\ pcp'.op = "EXIT"
      /\ pcp \in Callers({"EXIT"}, {"wait", "next", "wake", "give", "post"})
      /\ pcp.at # "wait" => pcp.dtb \in DTBs
      /\ pcp.at = "give" => pcp.to \in DTBs
      /\ pcp.at \in {"wake", "give"} => pcp.res \in Names
      /\ resources \subseteq Names
  BY TypesOfThePCP DEF StateOK, TypesOK, TypeOK, PcpOK, Callers
<1>2. /\ r \in Names /\ IsFiniteSet(Instances(r)) /\ r \in resources
      /\ availables[r] \in Int /\ KeptOf(r) \in Nat /\ supply[r] \in Nat
      /\ waiters[r] \in Seq(DTBs) /\ Len(waiters[r]) \in Nat
      /\ kept \in [DTBs -> [Names -> Nat]] /\ availables \in [Names -> Int]
      /\ waiters \in [Names -> Seq(DTBs)] /\ supply \in [Names -> Nat]
  BY BalanceTypes
<1>0. /\ availables[r] \in Int /\ KeptOf(r) \in Nat /\ supply[r] \in Nat
      /\ Len(waiters[r]) \in Nat
  BY <1>2
<1>3. ASSUME UNCHANGED jobs
      PROVE  /\ Granting(r) \in Nat /\ Owed(r) \in Nat /\ Handing(r) \in Nat /\ Dropping(r) \in Nat
             /\ Granting(r)' = Granting(r) /\ Owed(r)' = Owed(r) /\ Dropping(r)' = Dropping(r)
             /\ Handing(r)' = Handing(r) - (IF pcp.at = "give" /\ pcp.res = r THEN 1 ELSE 0)
                                         + (IF pcp'.at = "give" /\ pcp'.res = r THEN 1 ELSE 0)
  <2>1. PICK s, k : s = pcp /\ k = pcp' /\ Turns(s, k)
    BY <1>1, <1>3, PcpTurns
  <2>2. /\ Owes(s, r) = 0 /\ Owes(k, r) = 0 /\ Grants(s, r) = 0 /\ Grants(k, r) = 0
        /\ Drops(s, r) = 0 /\ Drops(k, r) = 0
        /\ Hands(s, r) = (IF pcp.at = "give" /\ pcp.res = r THEN 1 ELSE 0)
        /\ Hands(k, r) = (IF pcp'.at = "give" /\ pcp'.res = r THEN 1 ELSE 0)
    BY <1>1, <2>1 DEF Owes, Hands, Drops, Grants, Is
  <2>3. s.op \in Sentences \cup {"EXIT"}
    BY <1>1, <2>1
  <2>4. QED  BY <2>1, <2>2, <2>3, FlightsTurn
<1>4. ASSUME UNCHANGED <<jobs, availables, kept, waiters, supply>>,
             pcp.at # "give", pcp'.at # "give"
      PROVE  Balance(r)'
  BY <1>3, <1>4, BalanceKept
<1>5. CASE (\E d \in DTBs : PCPDispatches(d)) \/ PCPBlocks \/ PCPUnlocks \/ PCPEnds
  <2>1. UNCHANGED <<jobs, availables, kept, waiters, supply>> /\ pcp.at = "wait"
        /\ (pcp' = pcp \/ pcp'.at = "next")
    BY <1>5 DEF PCPDispatches, PCPBlocks, PCPUnlocks, PCPEnds, PCPTakes, table, AtWait, Job
  <2>2. QED  BY <1>4, <2>1
<1>6. CASE PCPExits
  <2>1. /\ UNCHANGED <<jobs, kept, supply>> /\ pcp.at = "next" /\ pcp'.at = "wait"
        /\ pcp.dtb \in DTBs
        /\ waiters' = [q \in Names |-> RemoveFirst(waiters[q], pcp.dtb)]
        /\ availables' = [q \in Names |-> availables[q] + (IF Waiting(pcp.dtb, q) THEN 1 ELSE 0)]
    BY <1>1, <1>6 DEF PCPExits, RemoveWaiter, AtWait, Job
  <2>2. PICK x \in {0, 1} : x = IF Waiting(pcp.dtb, r) THEN 1 ELSE 0
    OBVIOUS
  <2>3. /\ Granting(r) \in Nat /\ Owed(r) \in Nat /\ Handing(r) \in Nat /\ Dropping(r) \in Nat
        /\ Granting(r)' = Granting(r) /\ Owed(r)' = Owed(r) /\ Handing(r)' = Handing(r)
        /\ Dropping(r)' = Dropping(r)
    BY <1>3, <2>1
  <2>4. availables'[r] = availables[r] + x
    BY <1>2, <2>1, <2>2
  <2>5. Len(waiters'[r]) = Len(waiters[r]) - x
    <3>1. PICK w, d : w = waiters[r] /\ d = pcp.dtb
      OBVIOUS
    <3>2. w \in Seq(DTBs) /\ \A i, k \in 1 .. Len(w) : w[i] = d /\ w[k] = d => i = k
      BY <1>2, <3>1 DEF OneTurn, OnceQueued
    <3>3. Len(RemoveFirst(w, d)) = Len(w) - x
      <4>1. CASE d \notin Range(w)
        BY <1>0, <2>2, <3>1, <3>2, <4>1, TakenOut DEF Waiting
      <4>2. CASE d \in Range(w)
        BY <2>2, <3>1, <3>2, <4>2, TakenOut DEF Waiting
      <4>3. QED  BY <4>1, <4>2
    <3>4. QED  BY <1>2, <2>1, <3>1, <3>3
  <2>6. KeptOf(r)' = KeptOf(r) /\ supply'[r] = supply[r]
    BY <2>1 DEF KeptOf, Instances
  <2>7. Moves(r, x, 0, -x, 0, 0, 0, 0, 0)
    BY <1>0, <2>3, <2>4, <2>5, <2>6 DEF Moves
  <2>8. x + 0 + (-x) + 0 + 0 + 0 = 0 + 0
        /\ 0 \in Int /\ x \in Int /\ -x \in Int
    OBVIOUS
  <2>9. QED  BY <2>7, <2>8, BalanceMoves, Zenon
<1>7. CASE PcpSame /\ PcpFindsNobody
  <2>1. UNCHANGED <<jobs, availables, kept, waiters, supply>> /\ pcp.at = "wake"
        /\ pcp'.at = "next"
    BY <1>7 DEF PcpSame, PcpFindsNobody, AtWait, Job
  <2>2. QED  BY <1>4, <2>1
<1>8. CASE PcpSame /\ PcpPosts
  <2>1. UNCHANGED <<jobs, availables, kept, waiters, supply>> /\ pcp.at = "post"
        /\ pcp'.at = "next"
    BY <1>8 DEF PcpSame, PcpPosts, AtWait, Job
  <2>2. QED  BY <1>4, <2>1
<1>9. ASSUME PcpSame, NEW q \in Names, PcpReturns(q)
      PROVE  Balance(r)'
  <2>1. /\ UNCHANGED <<jobs, waiters, supply>> /\ pcp.at = "next" /\ pcp'.at = "wake"
        /\ availables' = [availables EXCEPT ![q] = @ + 1] /\ pcp.dtb \in DTBs
        /\ kept[pcp.dtb][q] > 0 /\ kept' = [kept EXCEPT ![pcp.dtb][q] = @ - 1]
    BY <1>1, <1>9 DEF PcpSame, PcpReturns, Callers
  <2>2. PICK x \in {0, 1} : x = IF r = q THEN 1 ELSE 0
    OBVIOUS
  <2>3. /\ Granting(r) \in Nat /\ Owed(r) \in Nat /\ Handing(r) \in Nat /\ Dropping(r) \in Nat
        /\ Granting(r)' = Granting(r) /\ Owed(r)' = Owed(r) /\ Handing(r)' = Handing(r)
        /\ Dropping(r)' = Dropping(r)
    BY <1>3, <2>1
  <2>4. availables'[r] = availables[r] + x
    BY <1>2, <2>1, <2>2
  <2>5. KeptOf(r)' = KeptOf(r) - (IF r = q THEN 1 ELSE 0)
    BY <1>2, <2>1, KeepsLess
  <2>6. KeptOf(r)' = KeptOf(r) - x
    BY <2>2, <2>5
  <2>7. waiters'[r] = waiters[r] /\ supply'[r] = supply[r]
    BY <2>1
  <2>8. Moves(r, x, -x, 0, 0, 0, 0, 0, 0)
    BY <1>0, <2>3, <2>4, <2>6, <2>7 DEF Moves
  <2>9. x + (-x) + 0 + 0 + 0 + 0 = 0 + 0
        /\ 0 \in Int /\ x \in Int /\ -x \in Int
    OBVIOUS
  <2>10. QED  BY <2>8, <2>9, BalanceMoves, Zenon
<1>10. CASE PcpSame /\ PcpWakes
  <2>1. /\ UNCHANGED <<jobs, availables, kept, supply>> /\ pcp.at = "wake"
        /\ pcp'.at = "give" /\ pcp'.res = pcp.res /\ pcp.res \in Names
        /\ waiters[pcp.res] # <<>> /\ waiters' = [waiters EXCEPT ![pcp.res] = Tail(@)]
    BY <1>1, <1>10 DEF PcpSame, PcpWakes, Callers
  <2>2. PICK x \in {0, 1} : x = IF pcp.res = r THEN 1 ELSE 0
    OBVIOUS
  <2>3. /\ Granting(r) \in Nat /\ Owed(r) \in Nat /\ Handing(r) \in Nat /\ Dropping(r) \in Nat
        /\ Granting(r)' = Granting(r) /\ Owed(r)' = Owed(r) /\ Handing(r)' = Handing(r) + x
        /\ Dropping(r)' = Dropping(r)
    BY <1>3, <2>1, <2>2
  <2>4. Len(waiters'[r]) = Len(waiters[r]) - x
    <3>1. CASE pcp.res = r
      <4>1. waiters[r] # <<>> /\ waiters'[r] = Tail(waiters[r])
        BY <1>2, <2>1, <3>1
      <4>2. QED  BY <1>2, <2>2, <3>1, <4>1, HeadTailProperties
    <3>2. CASE pcp.res # r
      <4>1. waiters'[r] = waiters[r]
        BY <1>2, <2>1, <3>2
      <4>2. QED  BY <1>0, <2>2, <3>2, <4>1
    <3>3. QED  BY <3>1, <3>2
  <2>5. KeptOf(r)' = KeptOf(r) /\ supply'[r] = supply[r] /\ availables'[r] = availables[r]
    BY <2>1 DEF KeptOf, Instances
  <2>6. Moves(r, 0, 0, -x, 0, 0, x, 0, 0)
    BY <1>0, <2>3, <2>4, <2>5 DEF Moves
  <2>7. 0 + 0 + (-x) + 0 + 0 + x = 0 + 0
        /\ 0 \in Int /\ x \in Int /\ -x \in Int
    OBVIOUS
  <2>8. QED  BY <2>6, <2>7, BalanceMoves, Zenon
<1>11. CASE PcpSame /\ PcpGives
  <2>1. /\ UNCHANGED <<jobs, availables, waiters, supply>> /\ pcp.at = "give"
        /\ pcp'.at = "post" /\ pcp.to \in DTBs /\ pcp.res \in Names
        /\ kept' = [kept EXCEPT ![pcp.to][pcp.res] = @ + 1]
    BY <1>1, <1>11 DEF PcpSame, PcpGives, Callers
  <2>2. PICK x \in {0, 1} : x = IF r = pcp.res THEN 1 ELSE 0
    OBVIOUS
  <2>3. /\ Granting(r) \in Nat /\ Owed(r) \in Nat /\ Handing(r) \in Nat /\ Dropping(r) \in Nat
        /\ Granting(r)' = Granting(r) /\ Owed(r)' = Owed(r) /\ Handing(r)' = Handing(r) - x
        /\ Dropping(r)' = Dropping(r)
    BY <1>3, <2>1, <2>2
  <2>4. KeptOf(r)' = KeptOf(r) + (IF r = pcp.res THEN 1 ELSE 0)
    BY <1>2, <2>1, KeepsMore
  <2>5. KeptOf(r)' = KeptOf(r) + x
    BY <2>2, <2>4
  <2>6. availables'[r] = availables[r] /\ waiters'[r] = waiters[r] /\ supply'[r] = supply[r]
    BY <2>1
  <2>7. Moves(r, 0, x, 0, 0, 0, -x, 0, 0)
    BY <1>0, <2>3, <2>5, <2>6 DEF Moves
  <2>8. 0 + x + 0 + 0 + 0 + (-x) = 0 + 0
        /\ 0 \in Int /\ x \in Int /\ -x \in Int
    OBVIOUS
  <2>9. QED  BY <2>7, <2>8, BalanceMoves, Zenon
<1>12. QED  BY <1>5, <1>6, <1>7, <1>8, <1>9, <1>10, <1>11 DEF PcpStep, ExitStep

\* A message of a CPU, or a command.
LEMMA BalanceOfCPUs ==
  ASSUME StateOK, NEW d \in DTBs, CPU(d) \/ CommandFinalizar(d), NEW r \in Known, Balance(r)
  PROVE  Balance(r)'
<1>1. TypesOK'
  BY TypesOfCPUs
<1>2. UNCHANGED <<availables, kept, waiters, supply>>
  BY <1>1, NewJobs DEF table
<1>3. PICK k : NewJob(d, k)
  BY <1>1, NewJobs
<1>4. QED  BY <1>2, <1>3, FlightsCome, BalanceKept

-----------------------------------------------------------------------------
(***************************************************************************)
(* The theorems.                                                           *)
(***************************************************************************)

\* The balance of each known resource is the ledger.
LEMMA LedgerIsBalance == Ledger <=> \A r \in Known : Balance(r)
BY DEF Ledger, Balance, Granting, Owed, Handing, Dropping

\* The same of the next state.
LEMMA LedgerNext ==
  ASSUME \A r \in Known : Balance(r)'
  PROVE  Ledger'
BY DEF Ledger, Balance, Granting, Owed, Handing, Dropping, InFlight, KeptOf, Instances

\* Nothing is out of place at first.
LEMMA ResourcesInit == Init => ResourcesInv
<1> SUFFICES ASSUME Init PROVE ResourcesInv
  OBVIOUS
<1> USE ResourcesAssumption
<1>1. AtWait = [op |-> "EXIT", dtb |-> NoDTB, res |-> NoName, n |-> 0, at |-> "wait", to |-> NoDTB]
  BY DEF AtWait, Job
<1>2. TypeOK
  <2>1. <<>> \in Seq(DTBs) /\ <<>> \in Seq({"BLOCK", "UNLOCK", "END"})
    BY EmptySeq
  <2>2. AtWait \in Callers({"EXIT"}, {"wait", "next", "wake", "give", "post"})
    BY <1>1 DEF Callers
  <2>3. QED  BY <2>1, <2>2 DEF Init, TypeOK, Callers
<1>3. PcpOK /\ \A j \in jobs : JobOK(j)
  BY <1>1, <1>2 DEF Init, PcpOK, TypeOK
<1>4. ASSUME NEW r \in Names
      PROVE  Instances(r) = {}
  <2>1. \A d \in DTBs : kept[d][r] = 0 /\ 1 .. 0 = {}
    BY DEF Init
  <2>2. QED  BY <2>1 DEF Instances
<1>5. BooksOK /\ OneJobASentence
  <2>1. IsFiniteSet({}) /\ \A r \in Names : IsFiniteSet(Instances(r))
    BY <1>4, FS_EmptySet
  <2>2. /\ jobs = {} /\ Known \subseteq resources
        /\ \A d \in DTBs, r \in Names : ~(kept[d][r] > 0)
    BY DEF Init
  <2>3. QED  BY <2>1, <2>2 DEF BooksOK, OneJobASentence
<1>6. Running = {AtWait}
  BY DEF Init, Running
<1>7. TasksHaveData
  <2>1. ASSUME NEW t
        PROVE  Occurrences(PCPtasks, t) = 0
    <3>1. {i \in 1 .. Len(PCPtasks) : PCPtasks[i] = t} = {}
      BY EmptySeq DEF Init
    <3>2. QED  BY <3>1, FS_EmptySet DEF Occurrences
  <2>2. ASSUME NEW op
        PROVE  Cardinality(Running \cap Posting(op)) = 0
    <3>1. Running \cap Posting(op) = {}
      BY <1>1, <1>6 DEF Posting
    <3>2. QED  BY <3>1, FS_EmptySet
  <2>3. Len(toBeBlocked) = 0 /\ Len(toBeUnlocked) = 0 /\ Len(toBeEnded) = 0
    BY EmptySeq DEF Init
  <2>4. ASSUME NEW t, NEW op, NEW L, Len(L) = 0
        PROVE  Covered(PCPtasks, t, Running, op, L)
    <3>1. Occurrences(PCPtasks, t) = 0 /\ Cardinality(Running \cap Posting(op)) = 0
      BY <2>1, <2>2
    <3>2. QED  BY <2>4, <3>1 DEF Covered
  <2>5. QED  BY <2>3, <2>4 DEF TasksHaveData
<1>8. OneTurn
  <2>1. \A d \in DTBs : ~HeldBy(Running, d)
    BY <1>1, <1>6 DEF HeldBy, Holds
  <2>2. \A d \in DTBs : ~QueuedIn(waiters, d) /\ ~GoingIn(toBeUnlocked, d)
    BY EmptySeq DEF Init, QueuedIn, GoingIn
  <2>3. OneHolder(Running) /\ OnceQueued(waiters) /\ OnceGoing(toBeUnlocked)
    BY <1>6, EmptySeq DEF Init, OneHolder, OnceQueued, OnceGoing
  <2>4. \A d \in DTBs : cpu[d] # "running"
    BY DEF Init
  <2>5. QED  BY <2>1, <2>2, <2>3, <2>4 DEF OneTurn, Alone
<1>9. ASSUME NEW r \in Known
      PROVE  Balance(r)
  <2>1. ASSUME NEW op, NEW at, "wait" \notin at
        PROVE  InFlight(op, at, r) = 0
    <3>1. {j \in jobs \cup {pcp} : j.op \in op /\ j.at \in at /\ j.res = r} = {}
      BY <1>1, <2>1 DEF Init
    <3>2. QED  BY <3>1, FS_EmptySet DEF InFlight
  <2>2. KeptOf(r) = 0
    BY <1>4, FS_EmptySet DEF KeptOf
  <2>3. availables[r] = 1 /\ supply[r] = 1 /\ Len(waiters[r]) = 0
    BY EmptySeq DEF Init
  <2>4. QED  BY <2>1, <2>2, <2>3 DEF Balance, Granting, Owed, Handing, Dropping
<1>10. QED  BY <1>2, <1>3, <1>5, <1>7, <1>8, <1>9, LedgerIsBalance DEF ResourcesInv, StateOK

\* Every step keeps the invariant.
LEMMA ResourcesNext == ResourcesInv /\ [Next]_vars => ResourcesInv'
<1> SUFFICES ASSUME ResourcesInv, [Next]_vars
             PROVE  ResourcesInv'
  OBVIOUS
<1>1. StateOK /\ OneTurn /\ \A r \in Known : Balance(r)
  BY LedgerIsBalance DEF ResourcesInv
<1>2. ASSUME NEW j \in jobs, WaitStep(j)
      PROVE  StateOK' /\ OneTurn' /\ \A r \in Known : Balance(r)'
  <2>1. TypesOK'
    BY <1>1, <1>2, TypesOfWaits
  <2>2. StateOK'
    BY <1>1, <1>2, StateOfWaits
  <2>3. OneTurn'
    BY <1>1, <1>2, <2>1, TurnOfWaits
  <2>4. QED  BY <1>1, <1>2, <2>1, <2>2, <2>3, BalanceOfWaits
<1>3. ASSUME NEW j \in jobs, SigFrame(j), SigStep(j)
      PROVE  StateOK' /\ OneTurn' /\ \A r \in Known : Balance(r)'
  <2>1. TypesOK'
    BY <1>1, <1>3, TypesOfSignals
  <2>2. StateOK'
    BY <1>1, <1>3, StateOfSignals
  <2>3. OneTurn'
    BY <1>1, <1>3, <2>1, TurnOfSignals
  <2>4. QED  BY <1>1, <1>3, <2>2, <2>3, BalanceOfSignals
<1>4. ASSUME NEW j \in jobs, LeavesAlone(j), TaskStep(j)
      PROVE  StateOK' /\ OneTurn' /\ \A r \in Known : Balance(r)'
  <2>1. TypesOK'
    BY <1>1, <1>4, TypesOfTasks
  <2>2. StateOK'
    BY <1>1, <1>4, StateOfTasks
  <2>3. OneTurn'
    BY <1>1, <1>4, <2>1, TurnOfTasks
  <2>4. QED  BY <1>1, <1>4, <2>2, <2>3, BalanceOfTasks
<1>5. ASSUME PcpStep
      PROVE  StateOK' /\ OneTurn' /\ \A r \in Known : Balance(r)'
  <2>1. TypesOK'
    BY <1>1, <1>5, TypesOfThePCP
  <2>2. StateOK'
    BY <1>1, <1>5, StateOfThePCP
  <2>3. OneTurn'
    BY <1>1, <1>5, <2>1, TurnOfThePCP
  <2>4. QED  BY <1>1, <1>5, <2>2, <2>3, BalanceOfThePCP
<1>6. ASSUME NEW d \in DTBs, CPU(d) \/ CommandFinalizar(d)
      PROVE  StateOK' /\ OneTurn' /\ \A r \in Known : Balance(r)'
  <2>1. TypesOK'
    BY <1>1, <1>6, TypesOfCPUs
  <2>2. StateOK'
    BY <1>1, <1>6, StateOfCPUs
  <2>3. OneTurn'
    BY <1>1, <1>6, <2>1, TurnOfCPUs
  <2>4. QED  BY <1>1, <1>6, <2>2, <2>3, BalanceOfCPUs
<1>7. ASSUME StateOK' /\ OneTurn' /\ \A r \in Known : Balance(r)'
      PROVE  ResourcesInv'
  BY <1>7, LedgerNext DEF ResourcesInv
<1>8. CASE Crash \/ UNCHANGED vars
  <2>1. UNCHANGED <<resources, availables, waiters, kept, place, cpu, jobs, toBeBlocked,
                    toBeUnlocked, toBeEnded, PCPtasks, pcp, ops, finalizars, supply>>
        /\ failure' \in {"none", "requester", "blockedDTB", "target"}
    BY <1>1, <1>8 DEF Crash, Fails, vars, table, data, outside, StateOK, TypeOK
  <2>2. TypesOK'
    BY <1>1, <2>1 DEF StateOK, TypesOK, TypeOK, PcpOK, JobOK
  <2>3. OneJobASentence' /\ TasksHaveData' /\ BooksOK'
    <3>1. OneJobASentence /\ TasksHaveData /\ BooksOK
      BY <1>1 DEF StateOK
    <3>2. OneJobASentence' /\ TasksHaveData'
      BY <2>1, <3>1 DEF OneJobASentence, TasksHaveData, Running
    <3>3. BooksOK'
      BY <1>1, <2>1, <3>1, BooksKept DEF BooksOK, KeptStep
    <3>4. QED  BY <3>2, <3>3
  <2>4. StateOK'
    BY <1>1, <2>2, <2>3, StateNext
  <2>5. OneTurn'
    <3>1. /\ place' = place /\ cpu' = cpu /\ Running' = Running /\ waiters' = waiters
          /\ toBeUnlocked' = toBeUnlocked
      BY <2>1 DEF Running
    <3>2. ASSUME NEW d \in DTBs
          PROVE  Alone(d, place, cpu, Running, waiters, toBeUnlocked)'
      <4>1. Alone(d, place, cpu, Running, waiters, toBeUnlocked)
        BY <1>1 DEF OneTurn
      <4>2. QED  BY <3>1, <4>1
    <3>3. (OneHolder(Running) /\ OnceQueued(waiters) /\ OnceGoing(toBeUnlocked))'
      BY <1>1, <3>1 DEF OneTurn
    <3>4. QED  BY <3>2, <3>3 DEF OneTurn
  <2>6. ASSUME NEW r \in Known
        PROVE  Balance(r)'
    <3>1. /\ Granting(r)' = Granting(r) /\ Owed(r)' = Owed(r) /\ Handing(r)' = Handing(r)
          /\ Dropping(r)' = Dropping(r)
      BY <2>1 DEF Granting, Owed, Handing, Dropping, InFlight
    <3>2. QED  BY <1>1, <2>1, <3>1, BalanceKept
  <2>7. QED  BY <1>7, <2>4, <2>5, <2>6
<1>9. CASE Next
  <2>1. \/ \E j \in jobs : JobStep(j)
        \/ PcpStep
        \/ \E d \in DTBs : CPU(d) \/ CommandFinalizar(d)
        \/ Crash
    BY <1>1, <1>9, Steps
  <2>2. ASSUME NEW j \in jobs, JobStep(j)
        PROVE  StateOK' /\ OneTurn' /\ \A r \in Known : Balance(r)'
    BY <1>2, <1>3, <1>4, <2>2 DEF JobStep
  <2>3. QED  BY <1>5, <1>6, <1>7, <1>8, <2>1, <2>2
<1>10. QED  BY <1>8, <1>9

\* The invariant holds of every reachable state.
LEMMA ResourcesInvariant == Spec => []ResourcesInv
<1>1. QED  BY ResourcesInit, ResourcesNext, PTL DEF Spec

\* Every variable has its type, for any DTBs, names of resources and scripts.
THEOREM TypeCorrect == Spec => []TypeOK
<1>1. ResourcesInv => TypeOK
  BY DEF ResourcesInv, StateOK
<1>2. QED  BY <1>1, ResourcesInvariant, PTL

\* The books of ResourceManager.c balance in every reachable state, however the sections of
\* waits, signals, blocks and the end of DTBs interleave and whatever the scripts signal.
THEOREM LedgerInvariant == Spec => []Ledger
<1>1. ResourcesInv => Ledger
  BY DEF ResourcesInv
<1>2. QED  BY <1>1, ResourcesInvariant, PTL

\* A queue whose elements are all different has as many as its range.
LEMMA DistinctRange ==
  ASSUME NEW T, NEW s \in Seq(T), \A i, k \in 1 .. Len(s) : s[i] = s[k] => i = k
  PROVE  Cardinality(Range(s)) = Len(s)
<1>1. Len(s) \in Nat /\ Range(s) = {s[i] : i \in 1 .. Len(s)}
  BY RangeEquality, LenProperties
<1> DEFINE f == [i \in 1 .. Len(s) |-> s[i]]
<1>2. f \in Bijection(1 .. Len(s), Range(s))
  <2>1. f \in [1 .. Len(s) -> Range(s)]
    BY <1>1
  <2>2. \A i, k \in 1 .. Len(s) : f[i] = f[k] => i = k
    OBVIOUS
  <2>3. \A v \in Range(s) : \E i \in 1 .. Len(s) : f[i] = v
    BY <1>1
  <2>4. QED  BY <2>1, <2>2, <2>3 DEF Bijection, Injection, Surjection, IsInjective
<1>3. IsFiniteSet(1 .. Len(s)) /\ Cardinality(1 .. Len(s)) = Len(s)
  <2>1. PICK n \in Nat : n = Len(s)
    BY <1>1
  <2>2. IsFiniteSet(1 .. n) /\ Cardinality(1 .. n) = IF 1 > n THEN 0 ELSE n - 1 + 1
    BY FS_Interval
  <2>3. QED  BY <2>1, <2>2
<1>4. ExistsBijection(1 .. Len(s), Range(s))
  BY <1>2 DEF ExistsBijection
<1>5. QED  BY <1>3, <1>4, FS_Bijection

\* A DTB waits for one resource at a time and once in its queue, in every reachable state:
\* the unlock that a signal posts before the PCP has blocked the DTB cannot queue it twice.
THEOREM WaitsOnceInvariant == Spec => []WaitsOnce
<1>1. ASSUME ResourcesInv
      PROVE  WaitsOnce
  <2>1. waiters \in [Names -> Seq(DTBs)] /\ OnceQueued(waiters)
    BY <1>1 DEF ResourcesInv, StateOK, TypeOK, OneTurn
  <2>2. ASSUME NEW r \in Names
        PROVE  Cardinality(Range(waiters[r])) = Len(waiters[r])
    <3>1. PICK s : s = waiters[r]
      OBVIOUS
    <3>2. s \in Seq(DTBs) /\ \A i, k \in 1 .. Len(s) : s[i] = s[k] => i = k
      BY <2>1, <3>1 DEF OnceQueued
    <3>3. QED  BY <3>1, <3>2, DistinctRange
  <2>3. ASSUME NEW d \in DTBs
        PROVE  Cardinality({r \in Names : Waiting(d, r)}) <= 1
    <3>1. ASSUME NEW r \in Names, NEW q \in Names, Waiting(d, r), Waiting(d, q)
          PROVE  r = q
      <4>1. PICK i \in 1 .. Len(waiters[r]) : waiters[r][i] = d
        BY <2>1, <3>1, RangeEquality DEF Waiting
      <4>2. PICK k \in 1 .. Len(waiters[q]) : waiters[q][k] = d
        BY <2>1, <3>1, RangeEquality DEF Waiting
      <4>3. waiters[r][i] = waiters[q][k]
        BY <4>1, <4>2
      <4>4. QED  BY <2>1, <4>3 DEF OnceQueued
    <3>2. CASE {r \in Names : Waiting(d, r)} = {}
      BY <3>2, FS_EmptySet
    <3>3. CASE {r \in Names : Waiting(d, r)} # {}
      <4>1. PICK r \in Names : {q \in Names : Waiting(d, q)} = {r}
        BY <3>1, <3>3
      <4>2. QED  BY <4>1, FS_Singleton
    <3>4. QED  BY <3>2, <3>3
  <2>4. QED  BY <2>2, <2>3 DEF WaitsOnce
<1>2. QED  BY <1>1, ResourcesInvariant, PTL
=============================================================================
