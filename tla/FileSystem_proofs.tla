--------------------------- MODULE FileSystem_proofs ---------------------------
(***************************************************************************)
(* Each block in use has one owner, for any paths, threads, blocks and     *)
(* buffers, and any number of requests, kills and calls that fail.         *)
(*                                                                         *)
(* Owners is the inductive invariant.  It says of each block that is held  *)
(* who holds it: the metadata of one file, or one thread that has reserved *)
(* it, extends a file with it, or is about to free it.                     *)
(*                                                                         *)
(* MapInv is the second.  It follows each copy of the bitmap from the      *)
(* moment it is taken to the moment it is written, and says which files it *)
(* may be older than.                                                      *)
(*                                                                         *)
(* Sound is the third, for the refinement of FileStore.  It says which     *)
(* bytes each file and each job carry, block by block, and what a job that *)
(* is under way will leave when it is answered.                            *)
(***************************************************************************)
EXTENDS FileSystem, TLAPS, NaturalsInduction, WellFoundedInduction, SequenceTheorems

\* A file is created with metadata that is neither missing nor empty.
NoMetadata == \A n, s : [size |-> n, blocks |-> s] \notin {Absent, Blank}

\* No block twice in s, but those that a start found wrong.
Distinct(s) == \A i, k \in DOMAIN s : s[i] = s[k] => i = k \/ s[i] \in astray

\* The blocks that a thread has in hand.
Reserving == {"reserve", "rollback", "save"}
InHand(t) ==
    IF job[t].pc \in Reserving THEN job[t].got
    ELSE IF job[t].pc \in {"put", "wipe"} THEN job[t].blocks ELSE <<>>
HandOf(t) == Elements(InHand(t))

\* What each file has, and what it has when only t may work on it.
Held == [p \in Paths |-> Holds(p)]
HeldBy(t, p) ==
    (IF Wiping(t, p) THEN {} ELSE BlocksOf(p)) \cup (IF Working(t, p) THEN HandOf(t) ELSE {})
Alone(t, p) == \A u \in Threads \ {t} : ~Working(u, p)

JobTyped(j) ==
    /\ j.pc \in Reserving \cup {"idle", "done", "put", "wipe", "fill", "flush", "close"}
    /\ "pc" \in DOMAIN j
    /\ j.pc \notin {"idle", "done"} => "path" \in DOMAIN j /\ j.path \in Paths
    /\ j.pc \in Reserving =>
         /\ {"op", "need", "got", "at", "code"} \subseteq DOMAIN j
         /\ j.got \in Seq(Blocks) /\ j.at \in Nat
         /\ j.pc = "save" => j.op = "create"
    /\ j.pc \in {"put", "wipe", "fill"} => "blocks" \in DOMAIN j /\ j.blocks \in Seq(Blocks)
    /\ j.pc = "put" => {"i", "from", "buffer"} \subseteq DOMAIN j
    /\ j.pc = "fill" => "left" \in DOMAIN j
    /\ j.pc = "close" => {"late", "older"} \subseteq DOMAIN j
FileTyped(p) == Saved(p) => meta[p].blocks \in Seq(Blocks) /\ Distinct(meta[p].blocks)
Typed ==
    /\ DOMAIN job = Threads /\ DOMAIN meta = Paths /\ up \in BOOLEAN
    /\ \A t \in Threads : JobTyped(job[t])
    /\ \A p \in Paths : FileTyped(p)
    /\ ~up => \A t \in Threads : job[t].pc = "idle"

OneWorker == \A t, u \in Threads, p \in Paths : Working(t, p) /\ Working(u, p) => t = u

\* What is reserved for a file is new to it, and what it is extended with begins with what it has.
HandNew(t) ==
    /\ Distinct(InHand(t))
    /\ job[t].pc \in Reserving =>
         /\ HandOf(t) \cap BlocksOf(job[t].path) \subseteq astray
         /\ job[t].op = "create" => BlocksOf(job[t].path) = {}
         /\ job[t].pc = "reserve" /\ job[t].op # "create" => Saved(job[t].path)
    /\ job[t].pc = "put" => BlocksOf(job[t].path) \subseteq HandOf(t)

OneHolder == \A p, q \in Paths : p # q => Held[p] \cap Held[q] \subseteq astray
InUse == \A p \in Paths : Held[p] \subseteq bitmap \cup astray
Found == NoMetadata => \A b \in bitmap : b \in astray \/ \E p \in Paths : b \in Held[p]

Owners ==
    /\ Typed /\ OneWorker
    /\ \A t \in Threads : HandNew(t)
    /\ up => OneHolder /\ InUse
    /\ Found

-----------------------------------------------------------------------------
\* What is in a sequence that was appended to.
LEMMA ElementsAppend ==
    ASSUME NEW S, NEW s \in Seq(S), NEW x \in S
    PROVE  Append(s, x) \in Seq(S) /\ Elements(Append(s, x)) = Elements(s) \cup {x}
<1>1. Append(s, x) \in Seq(S) /\ Len(Append(s, x)) = Len(s) + 1
  OBVIOUS
<1>2. DOMAIN Append(s, x) = 1 .. Len(s) + 1 /\ DOMAIN s = 1 .. Len(s) /\ Len(s) \in Nat
  BY <1>1
<1>3. \A i \in DOMAIN s : Append(s, x)[i] = s[i] /\ i \in DOMAIN Append(s, x)
  BY <1>2
<1>4. Append(s, x)[Len(s) + 1] = x /\ Len(s) + 1 \in DOMAIN Append(s, x)
  BY <1>2
<1>5. \A i \in DOMAIN Append(s, x) : i \in DOMAIN s \/ i = Len(s) + 1
  BY <1>2
<1> QED BY <1>1, <1>3, <1>4, <1>5 DEF Elements

\* What is in two sequences, one after the other.
LEMMA ElementsConcat ==
    ASSUME NEW S, NEW s \in Seq(S), NEW r \in Seq(S)
    PROVE  s \o r \in Seq(S) /\ Elements(s \o r) = Elements(s) \cup Elements(r)
<1>1. s \o r \in Seq(S) /\ Len(s \o r) = Len(s) + Len(r)
  OBVIOUS
<1>2. /\ DOMAIN (s \o r) = 1 .. Len(s) + Len(r) /\ DOMAIN s = 1 .. Len(s) /\ Len(s) \in Nat
      /\ DOMAIN r = 1 .. Len(r) /\ Len(r) \in Nat
  BY <1>1
<1>3. \A i \in DOMAIN s : (s \o r)[i] = s[i] /\ i \in DOMAIN (s \o r)
  BY <1>2
<1>4. \A i \in DOMAIN r : (s \o r)[Len(s) + i] = r[i] /\ Len(s) + i \in DOMAIN (s \o r)
  BY <1>2
<1>5. \A i \in DOMAIN (s \o r) : i \in DOMAIN s \/ \E k \in DOMAIN r : i = Len(s) + k
  <2> SUFFICES ASSUME NEW i \in DOMAIN (s \o r), i \notin DOMAIN s
               PROVE  \E k \in DOMAIN r : i = Len(s) + k
    OBVIOUS
  <2>1. i - Len(s) \in DOMAIN r /\ i = Len(s) + (i - Len(s))
    BY <1>2
  <2> QED BY <2>1
<1>6. Elements(s) \cup Elements(r) \subseteq Elements(s \o r)
  BY <1>3, <1>4 DEF Elements
<1>7. Elements(s \o r) \subseteq Elements(s) \cup Elements(r)
  BY <1>3, <1>4, <1>5 DEF Elements
<1> QED BY <1>1, <1>6, <1>7

\* What is in a sequence is its head and what is in its tail.
LEMMA ElementsTail ==
    ASSUME NEW S, NEW s \in Seq(S), s # <<>>
    PROVE  /\ Tail(s) \in Seq(S) /\ Head(s) \in S
           /\ Elements(s) = {Head(s)} \cup Elements(Tail(s))
<1>1. Tail(s) \in Seq(S) /\ Len(Tail(s)) = Len(s) - 1 /\ Len(s) \in Nat /\ Len(s) > 0 /\ Head(s) = s[1]
  OBVIOUS
<1>2. DOMAIN Tail(s) = 1 .. Len(s) - 1 /\ DOMAIN s = 1 .. Len(s)
  BY <1>1
<1>3. \A i \in DOMAIN Tail(s) : Tail(s)[i] = s[i + 1] /\ i + 1 \in DOMAIN s
  BY <1>1, <1>2
<1>4. 1 \in DOMAIN s /\ s[1] = Head(s) /\ Head(s) \in S
  BY <1>1, <1>2
<1>5. \A i \in DOMAIN s : i = 1 \/ \E k \in DOMAIN Tail(s) : i = k + 1
  <2> TAKE i \in DOMAIN s
  <2>1. i # 1 => i - 1 \in DOMAIN Tail(s) /\ i = (i - 1) + 1
    BY <1>2
  <2> QED BY <2>1
<1> QED BY <1>1, <1>3, <1>4, <1>5 DEF Elements

\* A block that is not in s, or that is astray, may be added.
LEMMA DistinctAppend ==
    ASSUME NEW S, NEW s \in Seq(S), Distinct(s), NEW x \in S, x \notin Elements(s) \/ x \in astray
    PROVE  Distinct(Append(s, x))
<1>1. DOMAIN Append(s, x) = 1 .. Len(s) + 1 /\ DOMAIN s = 1 .. Len(s) /\ Len(s) \in Nat
  OBVIOUS
<1>2. \A i \in DOMAIN Append(s, x) : IF i = Len(s) + 1 THEN Append(s, x)[i] = x
                                     ELSE i \in DOMAIN s /\ Append(s, x)[i] = s[i]
  BY <1>1
<1> QED BY <1>1, <1>2 DEF Distinct, Elements

\* Two sequences that have in common only blocks astray may be joined.
LEMMA DistinctConcat ==
    ASSUME NEW S, NEW s \in Seq(S), NEW r \in Seq(S), Distinct(s), Distinct(r),
           Elements(s) \cap Elements(r) \subseteq astray
    PROVE  Distinct(s \o r)
<1>1. /\ DOMAIN (s \o r) = 1 .. Len(s) + Len(r) /\ DOMAIN s = 1 .. Len(s) /\ Len(s) \in Nat
      /\ DOMAIN r = 1 .. Len(r) /\ Len(r) \in Nat
  OBVIOUS
<1>2. \A i \in DOMAIN (s \o r) : i \in Int /\ (i \in DOMAIN s => (s \o r)[i] = s[i])
  BY <1>1
<1>3. \A i \in DOMAIN (s \o r) : i \notin DOMAIN s => i - Len(s) \in DOMAIN r /\ (s \o r)[i] = r[i - Len(s)]
  BY <1>1
<1>4. \A i, k \in Int : i - Len(s) = k - Len(s) => i = k
  BY <1>1
<1> SUFFICES ASSUME NEW i \in DOMAIN (s \o r), NEW k \in DOMAIN (s \o r), (s \o r)[i] = (s \o r)[k]
             PROVE  i = k \/ (s \o r)[i] \in astray
  BY DEF Distinct
<1>5. CASE i \in DOMAIN s /\ k \in DOMAIN s
  BY <1>2, <1>5 DEF Distinct
<1>6. CASE i \notin DOMAIN s /\ k \notin DOMAIN s
  BY <1>2, <1>3, <1>4, <1>6 DEF Distinct
<1>7. CASE i \in DOMAIN s /\ k \notin DOMAIN s
  BY <1>2, <1>3, <1>7 DEF Elements
<1>8. CASE i \notin DOMAIN s /\ k \in DOMAIN s
  BY <1>2, <1>3, <1>8 DEF Elements
<1> QED BY <1>5, <1>6, <1>7, <1>8

\* The tail may have the head again only when it is astray.
LEMMA DistinctTail ==
    ASSUME NEW S, NEW s \in Seq(S), s # <<>>, Distinct(s)
    PROVE  Distinct(Tail(s)) /\ (Head(s) \in Elements(Tail(s)) => Head(s) \in astray)
<1>1. Len(Tail(s)) = Len(s) - 1 /\ Len(s) \in Nat /\ Len(s) > 0 /\ Head(s) = s[1]
  OBVIOUS
<1>2. DOMAIN Tail(s) = 1 .. Len(s) - 1 /\ DOMAIN s = 1 .. Len(s)
  BY <1>1
<1>3. \A i \in DOMAIN Tail(s) : i \in Nat /\ i + 1 # 1 /\ Tail(s)[i] = s[i + 1] /\ i + 1 \in DOMAIN s
  BY <1>1, <1>2
<1>4. 1 \in DOMAIN s
  BY <1>1, <1>2
<1>5. \A i, k \in Nat : i + 1 = k + 1 => i = k
  OBVIOUS
<1> QED BY <1>1, <1>3, <1>4, <1>5 DEF Distinct, Elements

\* The empty sequence has nothing.
LEMMA DistinctEmpty == Distinct(<<>>) /\ Elements(<<>>) = {}
BY DEF Distinct, Elements


-----------------------------------------------------------------------------
\* What a file has, block by block.
LEMMA HeldIs ==
    ASSUME NEW p \in Paths, NEW b
    PROVE  b \in Held[p] <=> \/ b \in BlocksOf(p) /\ \A t \in Threads : ~Wiping(t, p)
                            \/ \E t \in Threads : Working(t, p) /\ b \in HandOf(t)
<1>1. Held[p] = Holds(p)
  BY DEF Held
<1>2. b \in Holds(p) <=>
        \/ b \in BlocksOf(p) /\ \A t \in Threads : ~Wiping(t, p)
        \/ \E t \in Threads : Wiping(t, p) /\ b \in Elements(job[t].blocks)
        \/ \E t \in Threads : Working(t, p) /\ b \in Reserved(t)
  BY DEF Holds
<1>3. \A t \in Threads :
        (\/ Wiping(t, p) /\ b \in Elements(job[t].blocks)
         \/ Working(t, p) /\ b \in Reserved(t)) <=> Working(t, p) /\ b \in HandOf(t)
  <2> TAKE t \in Threads
  <2>1. Wiping(t, p) => HandOf(t) = Elements(job[t].blocks) /\ Reserved(t) = {} /\ Working(t, p)
    BY DEF Wiping, Working, Reserved, HandOf, InHand, Reserving
  <2>2. Working(t, p) /\ ~Wiping(t, p) => HandOf(t) = Reserved(t)
    BY DEF Wiping, Working, Reserved, HandOf, InHand, Reserving, Elements
  <2> QED BY <2>1, <2>2
<1> QED BY <1>1, <1>2, <1>3

\* The same, after a step.
LEMMA HeldIsNext ==
    ASSUME NEW p \in Paths, NEW b
    PROVE  b \in Held'[p] <=> \/ b \in BlocksOf(p)' /\ \A t \in Threads : ~Wiping(t, p)'
                             \/ \E t \in Threads : Working(t, p)' /\ b \in HandOf(t)'
<1>1. Held'[p] = Holds(p)'
  BY DEF Held
<1>2. b \in Holds(p)' <=>
        \/ b \in BlocksOf(p)' /\ \A t \in Threads : ~Wiping(t, p)'
        \/ \E t \in Threads : Wiping(t, p)' /\ b \in Elements(job'[t].blocks)
        \/ \E t \in Threads : Working(t, p)' /\ b \in Reserved(t)'
  BY DEF Holds
<1>3. \A t \in Threads :
        (\/ Wiping(t, p)' /\ b \in Elements(job'[t].blocks)
         \/ Working(t, p)' /\ b \in Reserved(t)') <=> Working(t, p)' /\ b \in HandOf(t)'
  <2> TAKE t \in Threads
  <2>1. Wiping(t, p)' => HandOf(t)' = Elements(job'[t].blocks) /\ Reserved(t)' = {} /\ Working(t, p)'
    BY DEF Wiping, Working, Reserved, HandOf, InHand, Reserving
  <2>2. Working(t, p)' /\ ~Wiping(t, p)' => HandOf(t)' = Reserved(t)'
    BY DEF Wiping, Working, Reserved, HandOf, InHand, Reserving, Elements
  <2> QED BY <2>1, <2>2
<1> QED BY <1>1, <1>2, <1>3

\* What a file has when only t may work on it.
LEMMA AloneHeld ==
    ASSUME NEW t \in Threads, NEW p \in Paths, Alone(t, p)
    PROVE  Held[p] = HeldBy(t, p)
<1>1. \A u \in Threads \ {t} : ~Wiping(u, p) /\ ~Working(u, p)
  BY DEF Alone, Wiping, Working
<1>2. \A b : b \in Held[p] <=> b \in HeldBy(t, p)
  BY <1>1, HeldIs DEF HeldBy, Wiping, Working
<1> QED BY <1>2

\* A step of t, which serves a request for p, if what the others have stays: p gains only
\* blocks that were free and are now in use, and a block is free again only when p
\* has it no longer.
LEMMA StepKeeps ==
    ASSUME Owners, NEW t \in Threads, NEW p \in Paths, up, up',
           Alone(t, p), \A q \in Paths \ {p} : ~Working(t, q) /\ ~Working(t, q)',
           DOMAIN job' = Threads, JobTyped(job'[t]), HandNew(t)',
           \A u \in Threads \ {t} :
             /\ JobTyped(job'[u]) /\ job'[u].pc = job[u].pc /\ InHand(u)' = InHand(u)
             /\ job[u].pc \notin {"idle", "done"} => job'[u].path = job[u].path
             /\ job[u].pc \in Reserving => job'[u].op = job[u].op,
           DOMAIN meta' = Paths, FileTyped(p)',
           \A q \in Paths \ {p} : meta'[q] = meta[q],
           astray \subseteq astray',
           \A b \in HeldBy(t, p)' \ HeldBy(t, p) : b \notin bitmap /\ b \in bitmap',
           bitmap \ bitmap' \subseteq astray' \cup (HeldBy(t, p) \ HeldBy(t, p)'),
           NoMetadata => bitmap' \subseteq astray' \cup HeldBy(t, p)' \cup (bitmap \ HeldBy(t, p))
    PROVE  Owners'
<1>1. \A u \in Threads \ {t} : \A q \in Paths :
        /\ Working(u, q)' <=> Working(u, q)
        /\ Wiping(u, q)' <=> Wiping(u, q)
        /\ HandOf(u)' = HandOf(u)
  BY DEF Working, Wiping, HandOf
<1>2. Alone(t, p)'
  BY <1>1 DEF Alone
<1>3. Held[p] = HeldBy(t, p) /\ Held'[p] = HeldBy(t, p)'
  <2>1. \A u \in Threads \ {t} : ~Wiping(u, p) /\ ~Working(u, p)
    BY DEF Alone, Wiping, Working
  <2>2. \A u \in Threads \ {t} : ~Wiping(u, p)' /\ ~Working(u, p)'
    BY <1>1, <2>1
  <2>3. Held[p] = HeldBy(t, p)
    BY AloneHeld
  <2>4. \A b : b \in Held'[p] <=> b \in HeldBy(t, p)'
    BY <2>2, HeldIsNext DEF HeldBy, Wiping, Working
  <2> QED BY <2>3, <2>4
<1>4. \A q \in Paths \ {p} : Held'[q] = Held[q]
  <2> TAKE q \in Paths \ {p}
  <2>1. BlocksOf(q)' = BlocksOf(q)
    BY DEF BlocksOf, Saved
  <2>2. ~Wiping(t, q) /\ ~Wiping(t, q)'
    BY DEF Wiping, Working
  <2>3. \A b : b \in Held'[q] <=> b \in Held[q]
    BY <1>1, <2>1, <2>2, HeldIs, HeldIsNext
  <2> QED BY <2>3 DEF Held
<1>5. Typed'
  <2>1. \A q \in Paths \ {p} : FileTyped(q)'
    BY DEF Owners, Typed, FileTyped, Saved, Distinct
  <2> QED BY <2>1 DEF Owners, Typed
<1>6. OneWorker'
  BY <1>1, <1>2 DEF Owners, OneWorker, Alone
<1>7. ASSUME NEW u \in Threads \ {t} PROVE HandNew(u)'
  <2>1. HandNew(u) /\ JobTyped(job[u])
    BY DEF Owners, Typed
  <2>2. job[u].pc \in Reserving \cup {"put"} =>
          /\ job[u].path \in Paths \ {p} /\ job'[u].path = job[u].path
          /\ meta'[job[u].path] = meta[job[u].path]
    BY <2>1 DEF JobTyped, Alone, Working, Reserving
  <2>3. job[u].pc \in Reserving \cup {"put"} =>
          /\ BlocksOf(job[u].path)' = BlocksOf(job[u].path)
          /\ Saved(job[u].path)' <=> Saved(job[u].path)
    BY <2>2 DEF BlocksOf, Saved
  <2>4. Distinct(InHand(u))'
    BY <2>1 DEF HandNew, Distinct
  <2> QED BY <1>1, <2>1, <2>2, <2>3, <2>4 DEF HandNew, Reserving
<1>8. OneHolder'
  BY <1>3, <1>4 DEF Owners, OneHolder, InUse
<1>9. InUse'
  BY <1>3, <1>4 DEF Owners, OneHolder, InUse
<1>10. Found'
  BY <1>3, <1>4 DEF Owners, Found, NoMetadata
<1> QED BY <1>5, <1>6, <1>7, <1>8, <1>9, <1>10 DEF Owners

\* The path that a thread works on is its own.
LEMMA Alones ==
    ASSUME Owners, NEW t \in Threads, job[t].pc \notin {"idle", "done"}
    PROVE  /\ job[t].path \in Paths /\ Working(t, job[t].path) /\ Alone(t, job[t].path)
           /\ \A q \in Paths \ {job[t].path} : ~Working(t, q)
<1>1. job[t].path \in Paths /\ Working(t, job[t].path)
  BY DEF Owners, Typed, JobTyped, Working
<1>2. Alone(t, job[t].path)
  BY <1>1 DEF Owners, OneWorker, Alone
<1> QED BY <1>1, <1>2 DEF Working

\* StepKeeps for a step that changes the job of t alone.
LEMMA GoesKeeps ==
    ASSUME Owners, NEW t \in Threads, NEW p \in Paths, up, UNCHANGED up,
           Alone(t, p), \A q \in Paths \ {p} : ~Working(t, q),
           NEW j, Goes(t, j), JobTyped(j), j.pc \notin {"idle", "done"} => j.path = p,
           HandNew(t)',
           DOMAIN meta' = Paths, FileTyped(p)',
           \A q \in Paths \ {p} : meta'[q] = meta[q],
           astray \subseteq astray',
           \A b \in HeldBy(t, p)' \ HeldBy(t, p) : b \notin bitmap /\ b \in bitmap',
           bitmap \ bitmap' \subseteq astray' \cup (HeldBy(t, p) \ HeldBy(t, p)'),
           NoMetadata => bitmap' \subseteq astray' \cup HeldBy(t, p)' \cup (bitmap \ HeldBy(t, p))
    PROVE  Owners'
<1>1. DOMAIN job' = Threads /\ job'[t] = j /\ \A u \in Threads \ {t} : job'[u] = job[u]
  BY DEF Goes, Owners, Typed
<1>2. \A q \in Paths \ {p} : ~Working(t, q)'
  BY <1>1 DEF Working
<1>3. \A u \in Threads \ {t} :
        /\ JobTyped(job'[u]) /\ job'[u].pc = job[u].pc /\ InHand(u)' = InHand(u)
        /\ job[u].pc \notin {"idle", "done"} => job'[u].path = job[u].path
        /\ job[u].pc \in Reserving => job'[u].op = job[u].op
  BY <1>1 DEF Owners, Typed, InHand
<1> QED BY <1>1, <1>2, <1>3, StepKeeps

\* The steps that change neither metadata nor bitmap, nor what the thread has in hand for p.
LEMMA HoldsOn ==
    ASSUME Owners, NEW t \in Threads, NEW p \in Paths, up,
           Alone(t, p), \A q \in Paths \ {p} : ~Working(t, q),
           NEW j, Goes(t, j), JobTyped(j), j.pc \notin {"idle", "done"} => j.path = p,
           HandNew(t)', HeldBy(t, p)' = HeldBy(t, p),
           UNCHANGED <<up, meta, bitmap, astray>>
    PROVE  Owners'
<1>1. FileTyped(p)'
  BY DEF Owners, Typed, FileTyped, Saved, Distinct
<1>2. DOMAIN meta' = Paths
  BY DEF Owners, Typed
<1>3. bitmap \subseteq astray \cup HeldBy(t, p) \cup (bitmap \ HeldBy(t, p))
  OBVIOUS
<1> QED BY <1>1, <1>2, <1>3, GoesKeeps

\* A thread that reserves, and whose request stays the same but for where it is.
LEMMA ReserveGoesOn ==
    ASSUME Owners, NEW t \in Threads, up, job[t].pc \in Reserving,
           NEW j, Goes(t, j), JobTyped(j), j.path = job[t].path, j.op = job[t].op, j.got = job[t].got,
           j.pc \in Reserving, j.pc = "reserve" => job[t].pc = "reserve",
           UNCHANGED <<up, meta, bitmap, astray>>
    PROVE  Owners'
<1> SUFFICES ASSUME NEW p \in Paths, p = job[t].path, Working(t, p), Alone(t, p),
                    \A q \in Paths \ {p} : ~Working(t, q)
             PROVE  Owners'
  BY Alones DEF Reserving
<1>1. job'[t] = j
  BY DEF Goes, Owners, Typed
<1>2. InHand(t)' = InHand(t) /\ HandOf(t)' = HandOf(t)
  BY <1>1 DEF InHand, HandOf
<1>3. BlocksOf(p)' = BlocksOf(p) /\ (Saved(p)' <=> Saved(p))
  BY DEF BlocksOf, Saved
<1>4. HandNew(t)'
  <2>1. HandNew(t)
    BY DEF Owners
  <2>2. Distinct(InHand(t))'
    BY <1>2, <2>1 DEF HandNew, Distinct
  <2> QED BY <1>1, <1>2, <1>3, <2>1, <2>2 DEF HandNew, Reserving
<1>5. HeldBy(t, p)' = HeldBy(t, p)
  BY <1>1, <1>2, <1>3 DEF HeldBy, Wiping, Working, Reserving
<1> QED BY <1>1, <1>4, <1>5, HoldsOn DEF Reserving

\* FIFA_ReserveBlockIfNotUsed takes a block that is free, or goes on to the next.
LEMMA ReserveTestsKeeps == ASSUME Owners, NEW t \in Threads, ReserveTests(t) PROVE Owners'
<1> SUFFICES ASSUME NEW p \in Paths, p = job[t].path, Working(t, p), Alone(t, p),
                    \A q \in Paths \ {p} : ~Working(t, q)
             PROVE  Owners'
  BY Alones DEF ReserveTests, At
<1>1. up /\ UNCHANGED <<up, meta, astray>> /\ job[t].pc = "reserve"
  BY DEF ReserveTests, At, disk, history
<1>2. JobTyped(job[t]) /\ HandNew(t)
  BY DEF Owners, Typed
<1>3. job[t].got \in Seq(Blocks) /\ job[t].at \in Blocks
  BY <1>1, <1>2, BoundsAssumption DEF JobTyped, Reserving, ReserveTests, Blocks
<1>4. CASE job[t].at \in bitmap
  <2> DEFINE j == [job[t] EXCEPT !.at = @ + 1]
  <2>1. Goes(t, j) /\ UNCHANGED bitmap
    BY <1>4 DEF ReserveTests
  <2>2. /\ j.pc = "reserve" /\ j.path = job[t].path /\ j.op = job[t].op /\ j.got = job[t].got
        /\ j.at = job[t].at + 1 /\ DOMAIN j = DOMAIN job[t]
    BY <1>1, <1>2 DEF JobTyped, Reserving
  <2>3. JobTyped(j)
    BY <1>1, <1>2, <2>2 DEF JobTyped, Reserving
  <2> HIDE DEF j
  <2> QED BY <1>1, <2>1, <2>2, <2>3, ReserveGoesOn DEF Reserving
<1>5. CASE job[t].at \notin bitmap
  <2> SUFFICES ASSUME NEW x \in Blocks, x = job[t].at, NEW got \in Seq(Blocks), got = job[t].got
               PROVE  Owners'
    BY <1>3
  <2> DEFINE j == [job[t] EXCEPT !.got = Append(@, x), !.at = 0]
  <2>1. Goes(t, j) /\ bitmap' = bitmap \cup {x}
    BY <1>5 DEF ReserveTests
  <2>2. /\ j.pc = "reserve" /\ j.path = p /\ j.op = job[t].op /\ j.got = Append(got, x)
        /\ j.at = 0 /\ DOMAIN j = DOMAIN job[t]
    BY <1>1, <1>2 DEF JobTyped, Reserving
  <2>3. JobTyped(j)
    BY <1>1, <1>2, <2>2, ElementsAppend DEF JobTyped, Reserving
  <2> HIDE DEF j
  <2>4. job'[t] = j
    BY <2>1 DEF Goes, Owners, Typed
  <2>5. /\ InHand(t) = got /\ InHand(t)' = Append(got, x)
        /\ HandOf(t)' = HandOf(t) \cup {x}
    <3>1. InHand(t) = got /\ InHand(t)' = Append(got, x)
      BY <1>1, <2>2, <2>4 DEF InHand, Reserving
    <3>2. HandOf(t) = Elements(got) /\ HandOf(t)' = Elements(Append(got, x))
      BY <3>1 DEF HandOf, Elements
    <3>3. Elements(Append(got, x)) = Elements(got) \cup {x}
      BY ElementsAppend
    <3> QED BY <3>1, <3>2, <3>3
  <2>6. BlocksOf(p)' = BlocksOf(p) /\ (Saved(p)' <=> Saved(p))
    BY <1>1 DEF BlocksOf, Saved
  <2>7. HeldBy(t, p) = BlocksOf(p) \cup HandOf(t) /\ HeldBy(t, p)' = HeldBy(t, p) \cup {x}
    BY <1>1, <2>2, <2>4, <2>5, <2>6 DEF HeldBy, Wiping, Working
  <2>8. x \in HeldBy(t, p) => x \in astray
    BY <1>1, <1>5, AloneHeld DEF Owners, InUse
  <2>9. HandNew(t)'
    <3>1. Distinct(Append(got, x))
      BY <1>2, <2>5, <2>7, <2>8, DistinctAppend DEF HandNew, HandOf
    <3>2. Distinct(InHand(t))'
      BY <1>1, <2>5, <3>1 DEF Distinct
    <3> QED BY <1>1, <1>2, <2>2, <2>4, <2>5, <2>6, <2>7, <2>8, <3>2 DEF HandNew, Reserving
  <2>10. FileTyped(p)' /\ DOMAIN meta' = Paths
    BY <1>1 DEF Owners, Typed, FileTyped, Saved, Distinct
  <2>11. x \notin bitmap
    BY <1>5
  <2> QED BY <1>1, <2>1, <2>2, <2>3, <2>7, <2>9, <2>10, <2>11, GoesKeeps
<1> QED BY <1>4, <1>5

\* Every block has been tested.
LEMMA ReserveFailsKeeps == ASSUME Owners, NEW t \in Threads, ReserveFails(t) PROVE Owners'
<1> DEFINE j == [job[t] EXCEPT !.pc = "rollback", !.code = INSUFFICIENT_SPACE]
<1>1. up /\ UNCHANGED <<up, meta, bitmap, astray>> /\ job[t].pc = "reserve" /\ Goes(t, j)
  BY DEF ReserveFails, At, disk, history
<1>2. JobTyped(job[t])
  BY DEF Owners, Typed
<1>3. /\ j.pc = "rollback" /\ j.path = job[t].path /\ j.op = job[t].op /\ j.got = job[t].got
      /\ j.at = job[t].at /\ DOMAIN j = DOMAIN job[t]
  BY <1>1, <1>2 DEF JobTyped, Reserving
<1>4. JobTyped(j)
  BY <1>1, <1>2, <1>3 DEF JobTyped, Reserving
<1> HIDE DEF j
<1> QED BY <1>1, <1>3, <1>4, ReserveGoesOn DEF Reserving

\* A thread that has nothing in hand for p, and lets go of nothing.
LEMMA EmptyHanded ==
    ASSUME Owners, NEW t \in Threads, NEW p \in Paths, up,
           Alone(t, p), \A q \in Paths \ {p} : ~Working(t, q),
           ~Working(t, p) \/ (~Wiping(t, p) /\ HandOf(t) = {}),
           NEW j, Goes(t, j), JobTyped(j), j.pc \notin {"idle", "done"} => j.path = p,
           j.pc \in {"idle", "done", "fill", "flush", "close"},
           UNCHANGED <<up, meta, bitmap, astray>>
    PROVE  Owners'
<1>1. job'[t] = j
  BY DEF Goes, Owners, Typed
<1>2. InHand(t)' = <<>> /\ HandOf(t)' = {}
  <2>1. InHand(t)' = <<>>
    BY <1>1 DEF InHand, Reserving
  <2> QED BY <2>1 DEF HandOf, Elements
<1>3. HandNew(t)'
  BY <1>1, <1>2 DEF HandNew, Distinct, Reserving
<1>4. BlocksOf(p)' = BlocksOf(p)
  BY DEF BlocksOf, Saved
<1>5. HeldBy(t, p)' = HeldBy(t, p)
  BY <1>1, <1>2, <1>4 DEF HeldBy, Wiping, Working
<1> QED BY <1>3, <1>5, HoldsOn

\* FIFA_FreeBlock gives back a block that was reserved, and which no file has.
LEMMA RollsBackKeeps == ASSUME Owners, NEW t \in Threads, RollsBack(t) PROVE Owners'
<1> SUFFICES ASSUME NEW p \in Paths, p = job[t].path, Working(t, p), Alone(t, p),
                    \A q \in Paths \ {p} : ~Working(t, q)
             PROVE  Owners'
  BY Alones DEF RollsBack, At
<1>1. up /\ UNCHANGED <<up, meta, astray>> /\ job[t].pc = "rollback"
  BY DEF RollsBack, At, disk, history
<1>2. JobTyped(job[t]) /\ HandNew(t)
  BY DEF Owners, Typed
<1>3. job[t].got \in Seq(Blocks)
  BY <1>1, <1>2 DEF JobTyped, Reserving
<1>4. CASE job[t].got = <<>>
  <2> DEFINE j == [pc |-> "done", code |-> job[t].code, bytes |-> <<>>]
  <2>1. Goes(t, j) /\ UNCHANGED bitmap
    BY <1>4 DEF RollsBack, Finishes
  <2>2. JobTyped(j) /\ j.pc = "done"
    BY DEF JobTyped, Reserving
  <2>3. ~Wiping(t, p) /\ HandOf(t) = {}
    BY <1>1, <1>4, DistinctEmpty DEF Wiping, HandOf, InHand, Reserving
  <2> HIDE DEF j
  <2> QED BY <1>1, <2>1, <2>2, <2>3, EmptyHanded
<1>5. CASE job[t].got # <<>>
  <2> SUFFICES ASSUME NEW got \in Seq(Blocks), got = job[t].got, got # <<>>,
                      NEW x \in Blocks, x = Head(got)
               PROVE  Owners'
    BY <1>3, <1>5, ElementsTail
  <2> DEFINE j == [job[t] EXCEPT !.got = Tail(@)]
  <2>1. Goes(t, j) /\ bitmap' = bitmap \ {x}
    BY <1>5 DEF RollsBack
  <2>2. /\ j.pc = "rollback" /\ j.path = p /\ j.op = job[t].op /\ j.got = Tail(got)
        /\ j.at = job[t].at /\ DOMAIN j = DOMAIN job[t]
    BY <1>1, <1>2 DEF JobTyped, Reserving
  <2>3. JobTyped(j)
    BY <1>1, <1>2, <2>2, ElementsTail DEF JobTyped, Reserving
  <2> HIDE DEF j
  <2>4. job'[t] = j
    BY <2>1 DEF Goes, Owners, Typed
  <2>5. /\ InHand(t) = got /\ InHand(t)' = Tail(got)
        /\ HandOf(t) = HandOf(t)' \cup {x}
    <3>1. InHand(t) = got /\ InHand(t)' = Tail(got)
      BY <1>1, <2>2, <2>4 DEF InHand, Reserving
    <3>2. HandOf(t) = Elements(got) /\ HandOf(t)' = Elements(Tail(got))
      BY <3>1 DEF HandOf, Elements
    <3>3. Elements(got) = {x} \cup Elements(Tail(got))
      BY ElementsTail
    <3> QED BY <3>1, <3>2, <3>3
  <2>6. BlocksOf(p)' = BlocksOf(p)
    BY <1>1 DEF BlocksOf, Saved
  <2>7. HeldBy(t, p) = BlocksOf(p) \cup HandOf(t) /\ HeldBy(t, p)' = BlocksOf(p) \cup HandOf(t)'
    BY <1>1, <2>2, <2>4, <2>6 DEF HeldBy, Wiping, Working
  <2>8. Distinct(Tail(got)) /\ (x \in Elements(Tail(got)) => x \in astray)
    BY <1>2, <2>5, DistinctTail DEF HandNew
  <2>9. HandOf(t) \cap BlocksOf(p) \subseteq astray
    BY <1>1, <1>2 DEF HandNew, Reserving
  <2>10. x \in HeldBy(t, p)' => x \in astray
    <3>1. HandOf(t)' = Elements(Tail(got))
      BY <2>5 DEF HandOf, Elements
    <3> QED BY <2>5, <2>7, <2>8, <2>9, <3>1
  <2>11. HandNew(t)'
    <3>1. Distinct(InHand(t))'
      BY <1>1, <2>5, <2>8 DEF Distinct
    <3> QED BY <1>1, <1>2, <2>2, <2>4, <2>5, <2>6, <2>9, <3>1 DEF HandNew, Reserving
  <2>12. FileTyped(p)' /\ DOMAIN meta' = Paths
    BY <1>1 DEF Owners, Typed, FileTyped, Saved, Distinct
  <2>13. /\ HeldBy(t, p)' \subseteq HeldBy(t, p) /\ x \in HeldBy(t, p)
         /\ HeldBy(t, p) \subseteq HeldBy(t, p)' \cup {x}
    BY <2>5, <2>7
  <2> QED BY <1>1, <2>1, <2>2, <2>3, <2>10, <2>11, <2>12, <2>13, GoesKeeps
<1> QED BY <1>4, <1>5

\* The metadata of a new file has no blocks yet.
LEMMA CreateMakesKeeps == ASSUME Owners, NEW t \in Threads, CreateMakes(t) PROVE Owners'
<1> SUFFICES ASSUME NEW p \in Paths, p = job[t].path, Working(t, p), Alone(t, p),
                    \A q \in Paths \ {p} : ~Working(t, q)
             PROVE  Owners'
  BY Alones DEF CreateMakes, Enough, At
<1>1. up /\ UNCHANGED <<up, bitmap, astray>> /\ job[t].pc = "reserve" /\ job[t].op = "create"
  BY DEF CreateMakes, Enough, At
<1>2. JobTyped(job[t]) /\ HandNew(t) /\ BlocksOf(p) = {}
  BY <1>1 DEF Owners, Typed, HandNew, Reserving
<1>3. CASE job' = [job EXCEPT ![t] = [job[t] EXCEPT !.pc = "save"]] /\ meta' = [meta EXCEPT ![p] = Blank]
  <2> DEFINE j == [job[t] EXCEPT !.pc = "save"]
  <2>1. Goes(t, j)
    BY <1>3 DEF Goes
  <2>2. /\ j.pc = "save" /\ j.path = p /\ j.op = job[t].op /\ j.got = job[t].got
        /\ j.at = job[t].at /\ DOMAIN j = DOMAIN job[t]
    BY <1>1, <1>2 DEF JobTyped, Reserving
  <2>3. JobTyped(j)
    BY <1>1, <1>2, <2>2 DEF JobTyped, Reserving
  <2> HIDE DEF j
  <2>4. job'[t] = j
    BY <2>1 DEF Goes, Owners, Typed
  <2>5. InHand(t)' = InHand(t) /\ HandOf(t)' = HandOf(t)
    BY <1>1, <2>2, <2>4 DEF InHand, HandOf, Reserving
  <2>6. DOMAIN meta' = Paths /\ meta'[p] = Blank /\ \A q \in Paths \ {p} : meta'[q] = meta[q]
    BY <1>3 DEF Owners, Typed
  <2>7. ~Saved(p)' /\ BlocksOf(p)' = {}
    BY <2>6 DEF Saved, BlocksOf
  <2>8. HeldBy(t, p)' = HeldBy(t, p)
    BY <1>1, <1>2, <2>2, <2>4, <2>5, <2>7 DEF HeldBy, Wiping, Working
  <2>9. HandNew(t)'
    <3>1. Distinct(InHand(t))'
      BY <1>1, <1>2, <2>5 DEF HandNew, Distinct
    <3> QED BY <1>1, <2>2, <2>4, <2>7, <3>1 DEF HandNew, Reserving
  <2>10. FileTyped(p)'
    BY <2>7 DEF FileTyped
  <2> QED BY <1>1, <2>1, <2>2, <2>3, <2>6, <2>8, <2>9, <2>10, GoesKeeps
<1>4. CASE Goes(t, [job[t] EXCEPT !.pc = "rollback", !.code = METADATA_CREATE_ERROR]) /\ UNCHANGED meta
  <2> DEFINE j == [job[t] EXCEPT !.pc = "rollback", !.code = METADATA_CREATE_ERROR]
  <2>1. /\ j.pc = "rollback" /\ j.path = p /\ j.op = job[t].op /\ j.got = job[t].got
        /\ j.at = job[t].at /\ DOMAIN j = DOMAIN job[t]
    BY <1>1, <1>2 DEF JobTyped, Reserving
  <2>2. JobTyped(j)
    BY <1>1, <1>2, <2>1 DEF JobTyped, Reserving
  <2>3. Goes(t, j)
    BY <1>4
  <2> HIDE DEF j
  <2> QED BY <1>1, <1>4, <2>1, <2>2, <2>3, ReserveGoesOn DEF Reserving
<1> QED BY <1>3, <1>4 DEF CreateMakes, Goes

\* The blocks that were reserved become those of the file.
LEMMA CreateSavesKeeps == ASSUME Owners, NEW t \in Threads, CreateSaves(t) PROVE Owners'
<1> SUFFICES ASSUME NEW p \in Paths, p = job[t].path, Working(t, p), Alone(t, p),
                    \A q \in Paths \ {p} : ~Working(t, q)
             PROVE  Owners'
  BY Alones DEF CreateSaves, At
<1>1. up /\ UNCHANGED <<up, bitmap, astray>> /\ job[t].pc = "save" /\ job[t].op = "create"
  BY DEF CreateSaves, At
<1>2. JobTyped(job[t]) /\ HandNew(t) /\ BlocksOf(p) = {}
  BY <1>1 DEF Owners, Typed, HandNew, Reserving
<1>3. ASSUME NEW got \in Seq(Blocks), got = job[t].got, NEW n, n = job[t].size,
             meta' = [meta EXCEPT ![p] = [size |-> n, blocks |-> got]],
             Goes(t, [pc |-> "fill", path |-> p, was |-> Absent, blocks |-> got, left |-> n])
      PROVE  Owners'
  <2> DEFINE j == [pc |-> "fill", path |-> p, was |-> Absent, blocks |-> got, left |-> n]
  <2>1. JobTyped(j) /\ j.pc = "fill" /\ j.path = p
    BY DEF JobTyped, Reserving
  <2>2. Goes(t, j)
    BY <1>3
  <2> HIDE DEF j
  <2>3. job'[t] = j
    BY <2>2 DEF Goes, Owners, Typed
  <2>4. InHand(t)' = <<>> /\ HandOf(t) = Elements(got) /\ InHand(t) = got
    BY <1>1, <1>3, <2>1, <2>3 DEF InHand, HandOf, Reserving
  <2>5. /\ DOMAIN meta' = Paths /\ meta'[p] = [size |-> n, blocks |-> got]
        /\ \A q \in Paths \ {p} : meta'[q] = meta[q]
    BY <1>3 DEF Owners, Typed
  <2>6. meta'[p].blocks = got
    BY <2>5
  <2>7. BlocksOf(p)' = IF Saved(p)' THEN Elements(got) ELSE {}
    BY <2>6 DEF BlocksOf, Elements
  <2>8. NoMetadata => Saved(p)'
    BY <2>5 DEF NoMetadata, Saved
  <2>9. HandNew(t)'
    BY <2>1, <2>3, <2>4 DEF HandNew, Distinct, Reserving
  <2>10. FileTyped(p)'
    <3>1. Distinct(got)
      BY <1>2, <2>4 DEF HandNew
    <3> QED BY <1>1, <2>6, <3>1 DEF FileTyped, Distinct
  <2>11. HeldBy(t, p) = Elements(got) /\ HeldBy(t, p)' = BlocksOf(p)'
    <3>1. HandOf(t)' = {}
      BY <2>4 DEF HandOf, Elements
    <3> QED BY <1>1, <1>2, <2>1, <2>3, <2>4, <3>1 DEF HeldBy, Wiping, Working
  <2> QED BY <1>1, <2>1, <2>2, <2>5, <2>7, <2>8, <2>9, <2>10, <2>11, GoesKeeps
<1>4. CASE Goes(t, [job[t] EXCEPT !.pc = "rollback", !.code = METADATA_OPEN_ERROR]) /\ UNCHANGED meta
  <2> DEFINE j == [job[t] EXCEPT !.pc = "rollback", !.code = METADATA_OPEN_ERROR]
  <2>1. /\ j.pc = "rollback" /\ j.path = p /\ j.op = job[t].op /\ j.got = job[t].got
        /\ j.at = job[t].at /\ DOMAIN j = DOMAIN job[t]
    BY <1>1, <1>2 DEF JobTyped, Reserving
  <2>2. JobTyped(j)
    BY <1>1, <1>2, <2>1 DEF JobTyped, Reserving
  <2>3. Goes(t, j)
    BY <1>4
  <2> HIDE DEF j
  <2> QED BY <1>1, <1>4, <2>1, <2>2, <2>3, ReserveGoesOn DEF Reserving
<1>5. job[t].got \in Seq(Blocks)
  BY <1>1, <1>2 DEF JobTyped, Reserving
<1> QED BY <1>3, <1>4, <1>5 DEF CreateSaves

\* A new file is filled.
LEMMA CreateFillsKeeps == ASSUME Owners, NEW t \in Threads, CreateFills(t) PROVE Owners'
<1> SUFFICES ASSUME NEW p \in Paths, p = job[t].path, Working(t, p), Alone(t, p),
                    \A q \in Paths \ {p} : ~Working(t, q)
             PROVE  Owners'
  BY Alones DEF CreateFills, At
<1>1. up /\ UNCHANGED <<up, meta, bitmap, astray>> /\ job[t].pc = "fill"
  BY DEF CreateFills, At, history
<1>2. JobTyped(job[t]) /\ job[t].blocks \in Seq(Blocks) /\ {"pc", "blocks", "left"} \subseteq DOMAIN job[t]
  BY <1>1 DEF Owners, Typed, JobTyped, Reserving
<1>3. ~Wiping(t, p) /\ HandOf(t) = {}
  BY <1>1, DistinctEmpty DEF Wiping, HandOf, InHand, Reserving
<1>4. CASE job[t].blocks = <<>>
  <2> DEFINE j == [pc |-> "flush", path |-> p, was |-> Absent]
  <2>1. Goes(t, j)
    BY <1>4 DEF CreateFills
  <2>2. JobTyped(j) /\ j.pc = "flush" /\ j.path = p
    BY DEF JobTyped, Reserving
  <2> HIDE DEF j
  <2> QED BY <1>1, <1>3, <2>1, <2>2, EmptyHanded
<1>5. CASE job[t].blocks # <<>>
  <2> DEFINE n == Smaller(job[t].left, BlockSize)
             j == [job[t] EXCEPT !.blocks = Tail(@), !.left = @ - n]
  <2>1. Goes(t, j)
    BY <1>5 DEF CreateFills
  <2> HIDE DEF n
  <2>2. j.pc = "fill" /\ j.path = p /\ j.blocks = Tail(job[t].blocks) /\ DOMAIN j = DOMAIN job[t]
    BY <1>1, <1>2
  <2>3. Tail(job[t].blocks) \in Seq(Blocks)
    BY <1>2, <1>5, ElementsTail
  <2> HIDE DEF j
  <2>4. JobTyped(j)
    BY <1>1, <1>2, <2>2, <2>3 DEF JobTyped, Reserving
  <2> QED BY <1>1, <1>3, <2>1, <2>2, <2>4, EmptyHanded
<1> QED BY <1>4, <1>5

\* A file is extended with what was reserved, and keeps what it has.
LEMMA WriteExtendsKeeps == ASSUME Owners, NEW t \in Threads, WriteExtends(t) PROVE Owners'
<1> SUFFICES ASSUME NEW p \in Paths, p = job[t].path, Working(t, p), Alone(t, p),
                    \A q \in Paths \ {p} : ~Working(t, q)
             PROVE  Owners'
  BY Alones DEF WriteExtends, Enough, At
<1>1. up /\ UNCHANGED <<up, meta, bitmap, astray>> /\ job[t].pc = "reserve" /\ job[t].op = "write"
  BY DEF WriteExtends, Enough, At, disk, history
<1>2. JobTyped(job[t]) /\ HandNew(t) /\ Saved(p) /\ FileTyped(p)
  BY <1>1 DEF Owners, Typed, HandNew, Reserving
<1>3. job[t].got \in Seq(Blocks) /\ meta[p].blocks \in Seq(Blocks)
  BY <1>1, <1>2 DEF JobTyped, Reserving, FileTyped
<1> SUFFICES ASSUME NEW got \in Seq(Blocks), got = job[t].got,
                    NEW own \in Seq(Blocks), own = meta[p].blocks
             PROVE  Owners'
  BY <1>3
<1> DEFINE j == PutLoop(p, job[t].was, job[t].offset + Len(job[t].buffer), own \o got,
                        job[t].offset, job[t].buffer)
<1>4. Goes(t, j)
  BY DEF WriteExtends
<1>5. j.pc = "put" /\ j.path = p /\ j.blocks = own \o got
  BY DEF PutLoop
<1>6. JobTyped(j)
  BY <1>5, ElementsConcat DEF JobTyped, Reserving, PutLoop
<1> HIDE DEF j
<1>7. job'[t] = j
  BY <1>4 DEF Goes, Owners, Typed
<1>8. InHand(t) = got /\ InHand(t)' = own \o got
  BY <1>1, <1>5, <1>7 DEF InHand, Reserving
<1>9. HandOf(t) = Elements(got) /\ HandOf(t)' = Elements(own) \cup Elements(got)
  <2>1. HandOf(t) = Elements(got) /\ HandOf(t)' = Elements(own \o got)
    BY <1>8 DEF HandOf, Elements
  <2>2. Elements(own \o got) = Elements(own) \cup Elements(got)
    BY ElementsConcat
  <2> QED BY <2>1, <2>2
<1>10. BlocksOf(p) = Elements(own) /\ BlocksOf(p)' = Elements(own)
  BY <1>1, <1>2 DEF BlocksOf, Saved, Elements
<1>11. HeldBy(t, p)' = HeldBy(t, p)
  BY <1>1, <1>5, <1>7, <1>9, <1>10 DEF HeldBy, Wiping, Working
<1>12. HandNew(t)'
  <2>1. Elements(own) \cap Elements(got) \subseteq astray
    BY <1>1, <1>2, <1>9, <1>10 DEF HandNew, Reserving
  <2>2. Distinct(own \o got)
    BY <1>2, <1>8, <2>1, DistinctConcat DEF HandNew, FileTyped
  <2>3. Distinct(InHand(t))'
    BY <1>1, <1>8, <2>2 DEF Distinct
  <2> QED BY <1>5, <1>7, <1>9, <1>10, <2>3 DEF HandNew, Reserving
<1> QED BY <1>1, <1>4, <1>5, <1>6, <1>11, <1>12, HoldsOn

\* The bytes go to the blocks of the file, which stay as they are.
LEMMA WritePutsKeeps == ASSUME Owners, NEW t \in Threads, WritePuts(t) PROVE Owners'
<1> SUFFICES ASSUME NEW p \in Paths, p = job[t].path, Working(t, p), Alone(t, p),
                    \A q \in Paths \ {p} : ~Working(t, q)
             PROVE  Owners'
  BY Alones DEF WritePuts, At
<1>1. up /\ UNCHANGED <<up, meta, bitmap, astray>> /\ job[t].pc = "put"
  BY DEF WritePuts, At, history
<1>2. JobTyped(job[t]) /\ HandNew(t)
  BY DEF Owners, Typed
<1> DEFINE tam == Fitting(job[t])
           j == [job[t] EXCEPT !.i = @ + 1, !.from = 0, !.buffer = SubSeq(@, tam + 1, Len(@))]
<1>3. Goes(t, j)
  BY DEF WritePuts
<1> HIDE DEF tam
<1>4. j.pc = "put" /\ j.path = p /\ j.blocks = job[t].blocks /\ DOMAIN j = DOMAIN job[t]
  BY <1>1, <1>2 DEF JobTyped
<1> HIDE DEF j
<1>5. JobTyped(j)
  BY <1>1, <1>2, <1>4 DEF JobTyped, Reserving
<1>6. job'[t] = j
  BY <1>3 DEF Goes, Owners, Typed
<1>7. InHand(t)' = InHand(t) /\ HandOf(t)' = HandOf(t) /\ BlocksOf(p)' = BlocksOf(p)
  BY <1>1, <1>4, <1>6 DEF InHand, HandOf, Reserving, BlocksOf, Saved
<1>8. HeldBy(t, p)' = HeldBy(t, p)
  BY <1>1, <1>4, <1>6, <1>7 DEF HeldBy, Wiping, Working
<1>9. HandNew(t)'
  <2>1. Distinct(InHand(t))'
    BY <1>1, <1>2, <1>7 DEF HandNew, Distinct
  <2> QED BY <1>1, <1>2, <1>4, <1>6, <1>7, <2>1 DEF HandNew, Reserving
<1> QED BY <1>1, <1>3, <1>4, <1>5, <1>8, <1>9, HoldsOn

\* The metadata has from now on the blocks that the thread has in hand.
LEMMA WriteSavesKeeps == ASSUME Owners, NEW t \in Threads, WriteSaves(t) PROVE Owners'
<1> SUFFICES ASSUME NEW p \in Paths, p = job[t].path, Working(t, p), Alone(t, p),
                    \A q \in Paths \ {p} : ~Working(t, q)
             PROVE  Owners'
  BY Alones DEF WriteSaves, At
<1>1. up /\ UNCHANGED <<up, bitmap, astray>> /\ job[t].pc = "put"
  BY DEF WriteSaves, At, history
<1>2. JobTyped(job[t]) /\ HandNew(t) /\ job[t].blocks \in Seq(Blocks)
  BY <1>1 DEF Owners, Typed, JobTyped, Reserving
<1> SUFFICES ASSUME NEW own \in Seq(Blocks), own = job[t].blocks, NEW n, n = job[t].size
             PROVE  Owners'
  BY <1>2
<1> DEFINE j == [pc |-> "flush", path |-> p, was |-> job[t].was]
<1>3. Goes(t, j) /\ meta' = [meta EXCEPT ![p] = [size |-> n, blocks |-> own]]
  BY DEF WriteSaves
<1>4. JobTyped(j) /\ j.pc = "flush" /\ j.path = p
  BY DEF JobTyped, Reserving
<1> HIDE DEF j
<1>5. job'[t] = j
  BY <1>3 DEF Goes, Owners, Typed
<1>6. InHand(t)' = <<>> /\ InHand(t) = own
  BY <1>1, <1>4, <1>5 DEF InHand, Reserving
<1>7. HandOf(t)' = {} /\ HandOf(t) = Elements(own)
  BY <1>6 DEF HandOf, Elements
<1>8. /\ DOMAIN meta' = Paths /\ meta'[p] = [size |-> n, blocks |-> own]
      /\ \A q \in Paths \ {p} : meta'[q] = meta[q]
  BY <1>3 DEF Owners, Typed
<1>9. meta'[p].blocks = own
  BY <1>8
<1>10. BlocksOf(p)' = IF Saved(p)' THEN Elements(own) ELSE {}
  BY <1>9 DEF BlocksOf, Elements
<1>11. NoMetadata => Saved(p)'
  BY <1>8 DEF NoMetadata, Saved
<1>12. HandNew(t)'
  BY <1>4, <1>5, <1>6 DEF HandNew, Distinct, Reserving
<1>13. FileTyped(p)'
  <2>1. Distinct(own)
    BY <1>2, <1>6 DEF HandNew
  <2> QED BY <1>1, <1>9, <2>1 DEF FileTyped, Distinct
<1>14. BlocksOf(p) \subseteq Elements(own)
  BY <1>1, <1>2, <1>7 DEF HandNew
<1>15. HeldBy(t, p) = Elements(own) /\ HeldBy(t, p)' = BlocksOf(p)'
  BY <1>1, <1>4, <1>5, <1>7, <1>14 DEF HeldBy, Wiping, Working
<1> QED BY <1>1, <1>3, <1>4, <1>8, <1>10, <1>11, <1>12, <1>13, <1>15, GoesKeeps

\* FIFA_FreeBlock gives back a block of the file that is deleted, or it stays in use for ever.
LEMMA DeleteWipesKeeps == ASSUME Owners, NEW t \in Threads, DeleteWipes(t) PROVE Owners'
<1> SUFFICES ASSUME NEW p \in Paths, p = job[t].path, Working(t, p), Alone(t, p),
                    \A q \in Paths \ {p} : ~Working(t, q)
             PROVE  Owners'
  BY Alones DEF DeleteWipes, At
<1>1. up /\ UNCHANGED <<up, meta>> /\ job[t].pc = "wipe" /\ job[t].blocks # <<>>
  BY DEF DeleteWipes, At
<1>2. JobTyped(job[t]) /\ HandNew(t) /\ job[t].blocks \in Seq(Blocks)
  BY <1>1 DEF Owners, Typed, JobTyped, Reserving
<1> SUFFICES ASSUME NEW own \in Seq(Blocks), own = job[t].blocks, own # <<>>,
                    NEW x \in Blocks, x = Head(own)
             PROVE  Owners'
  BY <1>1, <1>2, ElementsTail
<1> DEFINE j == [job[t] EXCEPT !.blocks = Tail(@)]
<1>3. /\ Goes(t, j)
      /\ \/ bitmap' = bitmap \ {x} /\ astray' = astray
         \/ bitmap' = bitmap /\ astray' = astray \cup {x}
  BY DEF DeleteWipes, history
<1>4. /\ j.pc = "wipe" /\ j.path = p /\ j.blocks = Tail(own) /\ DOMAIN j = DOMAIN job[t]
  BY <1>1, <1>2 DEF JobTyped
<1> HIDE DEF j
<1>5. JobTyped(j)
  BY <1>1, <1>2, <1>4, ElementsTail DEF JobTyped, Reserving
<1>6. job'[t] = j
  BY <1>3 DEF Goes, Owners, Typed
<1>7. InHand(t) = own /\ InHand(t)' = Tail(own)
  BY <1>1, <1>4, <1>6 DEF InHand, Reserving
<1>8. Elements(own) = {x} \cup Elements(Tail(own))
  BY ElementsTail
<1>9. Distinct(Tail(own)) /\ (x \in Elements(Tail(own)) => x \in astray)
  BY <1>2, <1>7, DistinctTail DEF HandNew
<1>10. HeldBy(t, p) = Elements(own) /\ HeldBy(t, p)' = Elements(Tail(own))
  <2>1. HandOf(t) = Elements(own) /\ HandOf(t)' = Elements(Tail(own))
    BY <1>7 DEF HandOf, Elements
  <2> QED BY <1>1, <1>4, <1>6, <2>1 DEF HeldBy, Wiping, Working
<1>11. HandNew(t)'
  <2>1. Distinct(InHand(t))'
    BY <1>3, <1>7, <1>9 DEF Distinct
  <2> QED BY <1>4, <1>6, <2>1 DEF HandNew, Reserving
<1>12. FileTyped(p)' /\ DOMAIN meta' = Paths
  BY <1>1, <1>3 DEF Owners, Typed, FileTyped, Saved, Distinct
<1>13. astray \subseteq astray' /\ bitmap \ bitmap' \subseteq {x}
  BY <1>3
<1>14. bitmap \ bitmap' \subseteq astray' \cup (HeldBy(t, p) \ HeldBy(t, p)')
  BY <1>3, <1>8, <1>9, <1>10
<1>15. bitmap' \subseteq astray' \cup HeldBy(t, p)' \cup (bitmap \ HeldBy(t, p))
  BY <1>3, <1>8, <1>10
<1>16. HeldBy(t, p)' \ HeldBy(t, p) = {}
  BY <1>8, <1>10
<1> QED BY <1>1, <1>3, <1>4, <1>5, <1>11, <1>12, <1>13, <1>14, <1>15, <1>16, GoesKeeps

\* The last of the file, with no block left.
LEMMA DeleteRemovesKeeps == ASSUME Owners, NEW t \in Threads, DeleteRemoves(t) PROVE Owners'
<1> SUFFICES ASSUME NEW p \in Paths, p = job[t].path, Working(t, p), Alone(t, p),
                    \A q \in Paths \ {p} : ~Working(t, q)
             PROVE  Owners'
  BY Alones DEF DeleteRemoves, At
<1>1. up /\ UNCHANGED <<up, bitmap, astray>> /\ job[t].pc = "wipe" /\ job[t].blocks = <<>>
  BY DEF DeleteRemoves, At, history
<1> DEFINE j == [pc |-> "flush", path |-> p, was |-> job[t].was]
<1>2. Goes(t, j) /\ meta' = [meta EXCEPT ![p] = Absent]
  BY DEF DeleteRemoves
<1>3. JobTyped(j) /\ j.pc = "flush" /\ j.path = p
  BY DEF JobTyped, Reserving
<1> HIDE DEF j
<1>4. job'[t] = j
  BY <1>2 DEF Goes, Owners, Typed
<1>5. InHand(t)' = <<>> /\ InHand(t) = <<>>
  BY <1>1, <1>3, <1>4 DEF InHand, Reserving
<1>6. HandOf(t)' = {} /\ HandOf(t) = {}
  BY <1>5 DEF HandOf, Elements
<1>7. /\ DOMAIN meta' = Paths /\ meta'[p] = Absent /\ \A q \in Paths \ {p} : meta'[q] = meta[q]
  BY <1>2 DEF Owners, Typed
<1>8. ~Saved(p)' /\ BlocksOf(p)' = {}
  BY <1>7 DEF Saved, BlocksOf
<1>9. HeldBy(t, p) = {} /\ HeldBy(t, p)' = {}
  BY <1>1, <1>3, <1>4, <1>6, <1>8 DEF HeldBy, Wiping, Working
<1>10. HandNew(t)'
  BY <1>3, <1>4, <1>5 DEF HandNew, Distinct, Reserving
<1>11. FileTyped(p)'
  BY <1>8 DEF FileTyped
<1> QED BY <1>1, <1>2, <1>3, <1>7, <1>9, <1>10, <1>11, GoesKeeps

\* The bitmap is copied to be written.
LEMMA FlushCopiesKeeps == ASSUME Owners, NEW t \in Threads, FlushCopies(t) PROVE Owners'
<1> SUFFICES ASSUME NEW p \in Paths, p = job[t].path, Working(t, p), Alone(t, p),
                    \A q \in Paths \ {p} : ~Working(t, q)
             PROVE  Owners'
  BY Alones DEF FlushCopies, At
<1>1. up /\ UNCHANGED <<up, meta, bitmap, astray>> /\ job[t].pc = "flush"
  BY DEF FlushCopies, At, history
<1> DEFINE closers == {u \in Threads : job[u].pc = "close"}
           j == [pc |-> "close", path |-> p, was |-> job[t].was, map |-> bitmap, late |-> FALSE,
                 older |-> closers]
<1>2. Goes(t, j)
  BY DEF FlushCopies
<1> HIDE DEF closers
<1>3. JobTyped(j) /\ j.pc = "close" /\ j.path = p
  BY DEF JobTyped, Reserving
<1> HIDE DEF j
<1>4. ~Wiping(t, p) /\ HandOf(t) = {}
  BY <1>1, DistinctEmpty DEF Wiping, HandOf, InHand, Reserving
<1> QED BY <1>1, <1>2, <1>3, <1>4, EmptyHanded

\* The copy is written; the others that are to write theirs learn that they are late.
LEMMA FlushClosesKeeps == ASSUME Owners, NEW t \in Threads, FlushCloses(t) PROVE Owners'
<1> SUFFICES ASSUME NEW p \in Paths, p = job[t].path, Working(t, p), Alone(t, p),
                    \A q \in Paths \ {p} : ~Working(t, q)
             PROVE  Owners'
  BY Alones DEF FlushCloses, At
<1>1. up /\ UNCHANGED <<up, meta, bitmap, astray>> /\ job[t].pc = "close"
  BY DEF FlushCloses, At
<1>2. /\ DOMAIN job' = Threads
      /\ job'[t] = [pc |-> "done", code |-> OK, bytes |-> <<>>]
  BY DEF FlushCloses
<1>3. JobTyped(job'[t]) /\ job'[t].pc = "done"
  BY <1>2 DEF JobTyped, Reserving
<1>4. ASSUME NEW u \in Threads \ {t}
      PROVE  /\ JobTyped(job'[u]) /\ job'[u].pc = job[u].pc /\ InHand(u)' = InHand(u)
             /\ job[u].pc \notin {"idle", "done"} => job'[u].path = job[u].path
             /\ job[u].pc \in Reserving => job'[u].op = job[u].op
  <2>1. JobTyped(job[u])
    BY DEF Owners, Typed
  <2>2. CASE job[u].pc = "close"
    <3> SUFFICES ASSUME NEW l, NEW o, job'[u] = [job[u] EXCEPT !.late = l, !.older = o]
                 PROVE  /\ JobTyped(job'[u]) /\ job'[u].pc = "close"
                        /\ job'[u].path = job[u].path
      BY <2>2 DEF FlushCloses, InHand, Reserving
    <3>1. job'[u].pc = "close" /\ job'[u].path = job[u].path /\ DOMAIN job'[u] = DOMAIN job[u]
      BY <2>1, <2>2 DEF JobTyped
    <3> QED BY <2>1, <2>2, <3>1 DEF JobTyped, Reserving
  <2>3. CASE job[u].pc # "close"
    <3>1. job'[u] = job[u]
      BY <2>3 DEF FlushCloses
    <3> QED BY <2>1, <3>1 DEF InHand
  <2> QED BY <2>2, <2>3
<1>5. InHand(t)' = <<>> /\ InHand(t) = <<>>
  BY <1>1, <1>3 DEF InHand, Reserving
<1>6. HandNew(t)'
  BY <1>3, <1>5 DEF HandNew, Distinct, Reserving
<1>7. HandOf(t) = {}
  BY <1>5 DEF HandOf, Elements
<1>8. BlocksOf(p)' = BlocksOf(p) /\ FileTyped(p)' /\ DOMAIN meta' = Paths
  BY <1>1 DEF Owners, Typed, FileTyped, Saved, Distinct, BlocksOf
<1>9. HeldBy(t, p)' = HeldBy(t, p)
  BY <1>1, <1>3, <1>7, <1>8 DEF HeldBy, Wiping, Working
<1>10. \A q \in Paths \ {p} : ~Working(t, q)'
  BY <1>3 DEF Working
<1>11. bitmap' \subseteq astray' \cup HeldBy(t, p)' \cup (bitmap \ HeldBy(t, p))
  BY <1>1, <1>9
<1> QED BY <1>1, <1>2, <1>3, <1>4, <1>6, <1>8, <1>9, <1>10, <1>11, StepKeeps

\* A thread that has answered is free.
LEMMA ReplyKeeps == ASSUME Owners, NEW t \in Threads, Reply(t) PROVE Owners'
<1>1. up /\ UNCHANGED <<up, meta, bitmap, astray>> /\ job[t].pc = "done" /\ Goes(t, Idle)
  BY DEF Reply, At, disk, history
<1>2. DOMAIN job' = Threads /\ job'[t] = Idle /\ \A u \in Threads \ {t} : job'[u] = job[u]
  BY <1>1 DEF Goes, Owners, Typed
<1>3. JobTyped(Idle) /\ Idle.pc = "idle"
  BY DEF JobTyped, Idle, Reserving
<1>4. \A u \in Threads : \A q \in Paths :
        /\ Working(u, q)' <=> Working(u, q)
        /\ Wiping(u, q)' <=> Wiping(u, q)
  BY <1>1, <1>2, <1>3 DEF Working, Wiping
<1>5. \A u \in Threads : InHand(u)' = InHand(u) /\ HandOf(u)' = HandOf(u)
  BY <1>1, <1>2, <1>3 DEF InHand, HandOf, Reserving
<1>6. ASSUME NEW p \in Paths PROVE Held'[p] = Held[p]
  <2>1. BlocksOf(p)' = BlocksOf(p)
    BY <1>1 DEF BlocksOf, Saved
  <2>2. \A b : b \in Held'[p] <=> b \in Held[p]
    BY <1>4, <1>5, <2>1, HeldIs, HeldIsNext
  <2> QED BY <2>2 DEF Held
<1>7. Typed'
  <2>1. \A p \in Paths : FileTyped(p)'
    BY <1>1 DEF Owners, Typed, FileTyped, Saved, Distinct
  <2> QED BY <1>1, <1>2, <1>3, <2>1 DEF Owners, Typed
<1>8. OneWorker'
  BY <1>4 DEF Owners, OneWorker
<1>9. ASSUME NEW u \in Threads PROVE HandNew(u)'
  <2>1. HandNew(u)
    BY DEF Owners
  <2>2. Distinct(InHand(u))'
    BY <1>1, <1>5, <2>1 DEF HandNew, Distinct
  <2>3. CASE u = t
    BY <1>2, <1>3, <2>2, <2>3 DEF HandNew, Reserving
  <2>4. CASE u # t
    <3>1. job'[u] = job[u] /\ HandOf(u)' = HandOf(u)
      BY <1>2, <1>5, <2>4
    <3>2. BlocksOf(job[u].path)' = BlocksOf(job[u].path) /\ (Saved(job[u].path)' <=> Saved(job[u].path))
      BY <1>1, <3>1 DEF BlocksOf, Saved
    <3> QED BY <1>1, <2>1, <2>2, <3>1, <3>2 DEF HandNew
  <2> QED BY <2>3, <2>4
<1>10. (up' => OneHolder' /\ InUse') /\ Found'
  BY <1>1, <1>6 DEF Owners, OneHolder, InUse, Found, NoMetadata
<1> QED BY <1>7, <1>8, <1>9, <1>10 DEF Owners

\* A request reaches a thread that does nothing else, for a path that is at rest.
LEMMA Arriving ==
    ASSUME Owners, NEW t \in Threads, NEW p \in Paths, Arrives(t, p)
    PROVE  up /\ Alone(t, p) /\ \A q \in Paths : ~Working(t, q)
BY DEF Arrives, At, AtRest, Alone, Working

\* A request that is answered at once.
LEMMA AnsweredKeeps ==
    ASSUME Owners, NEW t \in Threads, NEW p \in Paths, Arrives(t, p),
           NEW j, Goes(t, j), j.pc = "done", "pc" \in DOMAIN j, UNCHANGED <<up, meta, bitmap, astray>>
    PROVE  Owners'
<1>1. JobTyped(j)
  BY DEF JobTyped, Reserving
<1>2. up /\ Alone(t, p) /\ ~Working(t, p) /\ \A q \in Paths \ {p} : ~Working(t, q)
  BY Arriving
<1>3. j.pc \in {"idle", "done", "fill", "flush", "close"} /\ (j.pc \notin {"idle", "done"} => j.path = p)
  OBVIOUS
<1>4. ~Working(t, p) \/ (~Wiping(t, p) /\ HandOf(t) = {})
  BY <1>2
<1> QED BY <1>1, <1>2, <1>3, <1>4, EmptyHanded

\* The process falls: nobody has anything in hand, and the bitmap is gone.
LEMMA FallsKeeps == ASSUME Owners, Falls PROVE Owners'
<1>1. /\ ~up' /\ up' \in BOOLEAN /\ bitmap' = {} /\ UNCHANGED <<meta, astray>>
      /\ DOMAIN job' = Threads /\ \A t \in Threads : job'[t] = Idle
  BY DEF Falls, disk
<1>2. JobTyped(Idle) /\ Idle.pc = "idle"
  BY DEF JobTyped, Idle, Reserving
<1>3. \A p \in Paths : FileTyped(p)'
  BY <1>1 DEF Owners, Typed, FileTyped, Saved, Distinct
<1>4. Typed'
  BY <1>1, <1>2, <1>3 DEF Owners, Typed
<1>5. OneWorker'
  BY <1>1, <1>2 DEF OneWorker, Working
<1>6. \A t \in Threads : HandNew(t)'
  BY <1>1, <1>2 DEF HandNew, InHand, Distinct, Reserving
<1>7. Found'
  BY <1>1 DEF Found
<1> QED BY <1>1, <1>4, <1>5, <1>6, <1>7 DEF Owners

\* A new file has no blocks in hand yet.
LEMMA CreateArrivesKeeps ==
    ASSUME Owners, NEW t \in Threads, NEW p \in Paths, NEW n \in Sizes, CreateArrives(t, p, n)
    PROVE  Owners'
<1>1. Arrives(t, p) /\ UNCHANGED <<up, meta, bitmap, astray>>
  BY DEF CreateArrives, disk, history
<1>2. up /\ Alone(t, p) /\ \A q \in Paths : ~Working(t, q)
  BY <1>1, Arriving
<1>3. CASE HasFile(p)
  <2> DEFINE j == [pc |-> "done", code |-> EXISTING_FILE, bytes |-> <<>>]
  <2>1. Goes(t, j)
    BY <1>3 DEF CreateArrives, Finishes
  <2> QED BY <1>1, <2>1, AnsweredKeeps
<1>4. CASE ~HasFile(p)
  <2> DEFINE need == CeilDiv(n, BlockSize)
             j == [pc |-> "reserve", path |-> p, was |-> Absent, op |-> "create",
                   size |-> n, need |-> need, got |-> <<>>, at |-> 0, code |-> OK]
  <2>1. Goes(t, j)
    BY <1>4 DEF CreateArrives
  <2> HIDE DEF need
  <2>2. JobTyped(j) /\ j.pc = "reserve" /\ j.path = p /\ j.op = "create" /\ j.got = <<>>
    BY DEF JobTyped, Reserving
  <2> HIDE DEF j
  <2>3. job'[t] = j
    BY <2>1 DEF Goes, Owners, Typed
  <2>4. InHand(t)' = <<>>
    BY <2>2, <2>3 DEF InHand, Reserving
  <2>5. HandOf(t)' = {}
    BY <2>4 DEF HandOf, Elements
  <2>6. BlocksOf(p) = {} /\ BlocksOf(p)' = {}
    BY <1>1, <1>4 DEF BlocksOf, Saved, HasFile
  <2>7. HandNew(t)'
    BY <2>2, <2>3, <2>4, <2>5, <2>6 DEF HandNew, Distinct, Reserving
  <2>8. HeldBy(t, p)' = HeldBy(t, p)
    BY <1>2, <2>2, <2>3, <2>5, <2>6 DEF HeldBy, Wiping, Working
  <2> QED BY <1>1, <1>2, <2>1, <2>2, <2>7, <2>8, HoldsOn
<1> QED BY <1>3, <1>4

\* A file is written where it is, or blocks are to be reserved for it.
LEMMA WriteArrivesKeeps ==
    ASSUME Owners, NEW t \in Threads, NEW p \in Paths, NEW offset, NEW buffer,
           WriteArrives(t, p, offset, buffer)
    PROVE  Owners'
<1>1. Arrives(t, p) /\ UNCHANGED meta
  BY DEF WriteArrives, disk
<1>2. up /\ Alone(t, p) /\ \A q \in Paths : ~Working(t, q)
  BY <1>1, Arriving
<1> DEFINE new == NewBytes(p, offset, buffer)
           content == Content(p)
           need == CeilDiv(new, BlockSize)
           size == Larger(Size(p), offset + Len(buffer))
           j == [pc |-> "reserve", path |-> p, was |-> content, op |-> "write",
                 need |-> need, got |-> <<>>, at |-> 0,
                 offset |-> offset, buffer |-> buffer, code |-> OK]
           k == PutLoop(p, content, size, meta[p].blocks, offset, buffer)
<1>3. \/ Falls
      \/ /\ \E c : Finishes(t, c)
         /\ UNCHANGED <<up, bitmap, astray>>
      \/ Saved(p) /\ Goes(t, j) /\ UNCHANGED <<up, bitmap, astray>>
      \/ Saved(p) /\ Goes(t, k) /\ UNCHANGED <<up, bitmap, astray>>
  BY DEF WriteArrives, history
<1> HIDE DEF new, content, need, size
<1>4. ASSUME NEW c, Finishes(t, c), UNCHANGED <<up, bitmap, astray>> PROVE Owners'
  <2> DEFINE d == [pc |-> "done", code |-> c, bytes |-> <<>>]
  <2>1. Goes(t, d)
    BY <1>4 DEF Finishes
  <2> QED BY <1>1, <1>4, <2>1, AnsweredKeeps
<1>5. CASE Saved(p) /\ Goes(t, j) /\ UNCHANGED <<up, bitmap, astray>>
  <2>1. JobTyped(j) /\ j.pc = "reserve" /\ j.path = p /\ j.op = "write" /\ j.got = <<>>
    BY DEF JobTyped, Reserving
  <2> HIDE DEF j
  <2>2. job'[t] = j
    BY <1>5 DEF Goes, Owners, Typed
  <2>3. InHand(t)' = <<>>
    BY <2>1, <2>2 DEF InHand, Reserving
  <2>4. HandOf(t)' = {}
    BY <2>3 DEF HandOf, Elements
  <2>5. BlocksOf(p)' = BlocksOf(p) /\ Saved(p)'
    BY <1>1, <1>5 DEF BlocksOf, Saved
  <2>6. HandNew(t)'
    BY <2>1, <2>2, <2>3, <2>4, <2>5 DEF HandNew, Distinct, Reserving
  <2>7. HeldBy(t, p)' = HeldBy(t, p)
    BY <1>2, <2>1, <2>2, <2>4, <2>5 DEF HeldBy, Wiping, Working
  <2> QED BY <1>1, <1>2, <1>5, <2>1, <2>6, <2>7, HoldsOn
<1>6. CASE Saved(p) /\ Goes(t, k) /\ UNCHANGED <<up, bitmap, astray>>
  <2>1. meta[p].blocks \in Seq(Blocks) /\ Distinct(meta[p].blocks)
    BY <1>6 DEF Owners, Typed, FileTyped
  <2>2. JobTyped(k) /\ k.pc = "put" /\ k.path = p /\ k.blocks = meta[p].blocks
    BY <2>1 DEF JobTyped, Reserving, PutLoop
  <2> HIDE DEF k
  <2>3. job'[t] = k
    BY <1>6 DEF Goes, Owners, Typed
  <2>4. InHand(t)' = meta[p].blocks
    BY <2>2, <2>3 DEF InHand, Reserving
  <2>5. BlocksOf(p) = Elements(meta[p].blocks) /\ BlocksOf(p)' = Elements(meta[p].blocks)
    BY <1>1, <1>6 DEF BlocksOf, Saved, Elements
  <2>6. HandOf(t)' = Elements(meta[p].blocks)
    BY <2>4 DEF HandOf, Elements
  <2>7. HandNew(t)'
    <3>1. Distinct(InHand(t))'
      BY <1>6, <2>1, <2>4 DEF Distinct
    <3> QED BY <2>2, <2>3, <2>5, <2>6, <3>1 DEF HandNew, Reserving
  <2>8. HeldBy(t, p)' = HeldBy(t, p)
    BY <1>2, <2>2, <2>3, <2>5, <2>6 DEF HeldBy, Wiping, Working
  <2> QED BY <1>1, <1>2, <1>6, <2>2, <2>7, <2>8, HoldsOn
<1> QED BY <1>3, <1>4, <1>5, <1>6, FallsKeeps

\* The blocks of a file that is to be deleted are in the hands of the thread.
LEMMA DeleteArrivesKeeps ==
    ASSUME Owners, NEW t \in Threads, NEW p \in Paths, DeleteArrives(t, p)
    PROVE  Owners'
<1>1. Arrives(t, p) /\ UNCHANGED meta
  BY DEF DeleteArrives, disk
<1>2. up /\ Alone(t, p) /\ \A q \in Paths : ~Working(t, q)
  BY <1>1, Arriving
<1> DEFINE content == Content(p)
           j == [pc |-> "wipe", path |-> p, was |-> content, blocks |-> meta[p].blocks]
           d == [pc |-> "done", code |-> FILE_NOT_EXISTS, bytes |-> <<>>]
<1>3. \/ Falls
      \/ Goes(t, d) /\ UNCHANGED <<up, bitmap, astray>>
      \/ Saved(p) /\ Goes(t, j) /\ UNCHANGED <<up, bitmap, astray>>
  BY DEF DeleteArrives, history, Finishes
<1> HIDE DEF content
<1>4. CASE Goes(t, d) /\ UNCHANGED <<up, bitmap, astray>>
  BY <1>1, <1>4, AnsweredKeeps
<1>5. CASE Saved(p) /\ Goes(t, j) /\ UNCHANGED <<up, bitmap, astray>>
  <2>1. meta[p].blocks \in Seq(Blocks) /\ Distinct(meta[p].blocks)
    BY <1>5 DEF Owners, Typed, FileTyped
  <2>2. JobTyped(j) /\ j.pc = "wipe" /\ j.path = p /\ j.blocks = meta[p].blocks
    BY <2>1 DEF JobTyped, Reserving
  <2> HIDE DEF j
  <2>3. job'[t] = j
    BY <1>5 DEF Goes, Owners, Typed
  <2>4. InHand(t)' = meta[p].blocks
    BY <2>2, <2>3 DEF InHand, Reserving
  <2>5. BlocksOf(p) = Elements(meta[p].blocks)
    BY <1>5 DEF BlocksOf
  <2>6. HandOf(t)' = Elements(meta[p].blocks)
    BY <2>4 DEF HandOf, Elements
  <2>7. HandNew(t)'
    <3>1. Distinct(InHand(t))'
      BY <1>5, <2>1, <2>4 DEF Distinct
    <3> QED BY <2>2, <2>3, <3>1 DEF HandNew, Reserving
  <2>8. HeldBy(t, p)' = HeldBy(t, p)
    BY <1>2, <2>2, <2>3, <2>5, <2>6 DEF HeldBy, Wiping, Working
  <2> QED BY <1>1, <1>2, <1>5, <2>2, <2>7, <2>8, HoldsOn
<1> QED BY <1>3, <1>4, <1>5, FallsKeeps

\* A file is looked for.
LEMMA CheckArrivesKeeps ==
    ASSUME Owners, NEW t \in Threads, NEW p \in Paths, CheckArrives(t, p)
    PROVE  Owners'
<1> DEFINE j == [pc |-> "done", code |-> IF HasFile(p) THEN 1 ELSE 0, bytes |-> <<>>]
<1>1. Arrives(t, p) /\ UNCHANGED <<up, meta, bitmap, astray>> /\ Goes(t, j)
  BY DEF CheckArrives, disk, history, Finishes
<1> QED BY <1>1, AnsweredKeeps

\* A file is read.
LEMMA GetArrivesKeeps ==
    ASSUME Owners, NEW t \in Threads, NEW p \in Paths, NEW offset, NEW n, GetArrives(t, p, offset, n)
    PROVE  Owners'
<1> DEFINE read == ReadFile(meta[p].blocks, offset, n)
           j == [pc |-> "done", code |-> OK, bytes |-> read]
           d == [pc |-> "done", code |-> NOT_FOUND, bytes |-> <<>>]
<1>1. Arrives(t, p) /\ UNCHANGED meta
  BY DEF GetArrives, disk
<1>2. \/ Falls
      \/ Goes(t, d) /\ UNCHANGED <<up, bitmap, astray>>
      \/ Goes(t, j) /\ UNCHANGED <<up, bitmap, astray>>
  BY DEF GetArrives, history, Finishes
<1> HIDE DEF read
<1>3. j.pc = "done" /\ "pc" \in DOMAIN j /\ d.pc = "done" /\ "pc" \in DOMAIN d
  OBVIOUS
<1> HIDE DEF j, d
<1> QED BY <1>1, <1>2, <1>3, FallsKeeps, AnsweredKeeps

\* A start finds the files as they are; what the file of the bitmap says of their blocks, and
\* the blocks of two files, are from now on excepted.
LEMMA StartKeeps == ASSUME Owners, FIFA_Start PROVE Owners'
<1>1. up' = TRUE /\ ~up /\ UNCHANGED <<meta, job>>
  BY DEF FIFA_Start, disk
<1>2. astray' = astray \cup ((bitmap' \ Owned) \cup (Owned \ bitmap')) \cup Shared
  BY DEF FIFA_Start
<1>3. \A t \in Threads : job[t].pc = "idle" /\ job'[t].pc = "idle"
  BY <1>1 DEF Owners, Typed
<1>4. ASSUME NEW p \in Paths PROVE Held'[p] = BlocksOf(p)
  <2>1. \A t \in Threads : ~Wiping(t, p)' /\ ~Working(t, p)'
    BY <1>3 DEF Wiping, Working
  <2>2. BlocksOf(p)' = BlocksOf(p)
    BY <1>1 DEF BlocksOf, Saved
  <2>3. \A b : b \in Held'[p] <=> b \in BlocksOf(p)
    BY <2>1, <2>2, HeldIsNext
  <2> QED BY <2>3 DEF Held
<1>5. \A p \in Paths : FileTyped(p)'
  BY <1>1, <1>2 DEF Owners, Typed, FileTyped, Saved, Distinct
<1>6. Typed'
  BY <1>1, <1>5 DEF Owners, Typed
<1>7. OneWorker'
  BY <1>3 DEF OneWorker, Working
<1>8. \A t \in Threads : HandNew(t)'
  BY <1>3 DEF HandNew, InHand, Distinct, Reserving
<1>9. \A p \in Paths : BlocksOf(p) \subseteq Blocks
  <2> TAKE p \in Paths
  <2>1. Saved(p) => \A i \in DOMAIN meta[p].blocks : meta[p].blocks[i] \in Blocks
    BY DEF Owners, Typed, FileTyped
  <2> QED BY <2>1 DEF BlocksOf, Elements
<1>10. OneHolder'
  <2> SUFFICES ASSUME NEW p \in Paths, NEW q \in Paths, p # q
               PROVE  BlocksOf(p) \cap BlocksOf(q) \subseteq astray'
    BY <1>4 DEF OneHolder
  <2>1. BlocksOf(p) \cap BlocksOf(q) \subseteq Shared
    BY <1>9 DEF Shared
  <2> QED BY <1>2, <2>1
<1>11. InUse'
  <2> SUFFICES ASSUME NEW p \in Paths PROVE BlocksOf(p) \subseteq bitmap' \cup astray'
    BY <1>4 DEF InUse
  <2>1. BlocksOf(p) \subseteq Owned
    BY DEF Owned
  <2> QED BY <1>2, <2>1
<1>12. Found'
  <2> SUFFICES ASSUME NEW b \in bitmap', b \notin astray'
               PROVE  \E p \in Paths : b \in BlocksOf(p)
    BY <1>4 DEF Found
  <2>1. b \in Owned
    BY <1>2
  <2> QED BY <2>1 DEF Owned
<1> QED BY <1>6, <1>7, <1>8, <1>10, <1>11, <1>12 DEF Owners

\* The invariant holds when there are neither files nor a bitmap.
LEMMA OwnersInit == ASSUME Init PROVE Owners
<1>1. \A t \in Threads : job[t].pc = "idle" /\ JobTyped(job[t])
  BY DEF Init, Idle, JobTyped, Reserving
<1>2. \A p \in Paths : ~Saved(p)
  BY DEF Init, Saved
<1>3. Typed
  BY <1>1, <1>2 DEF Typed, FileTyped, Init
<1>4. OneWorker
  BY <1>1 DEF OneWorker, Working
<1>5. \A t \in Threads : HandNew(t)
  BY <1>1 DEF HandNew, InHand, Distinct, Reserving
<1>6. ASSUME NEW p \in Paths PROVE Held[p] = {}
  <2>1. \A b : b \notin Held[p]
    BY <1>1, <1>2, HeldIs DEF BlocksOf, Working
  <2> QED BY <2>1
<1> QED BY <1>3, <1>4, <1>5, <1>6 DEF Owners, OneHolder, InUse, Found, Init

\* Every step of a thread, of the DAM and of the process keeps the invariant.
LEMMA OwnersStep == ASSUME Owners, [Next]_vars PROVE Owners'
<1>1. ASSUME NEW t \in Threads, Step(t) PROVE Owners'
  BY <1>1, ReserveTestsKeeps, ReserveFailsKeeps, RollsBackKeeps, CreateMakesKeeps,
     CreateSavesKeeps, CreateFillsKeeps, WriteExtendsKeeps, WritePutsKeeps, WriteSavesKeeps,
     DeleteWipesKeeps, DeleteRemovesKeeps, FlushCopiesKeeps, FlushClosesKeeps, ReplyKeeps
     DEF Step
<1>2. ASSUME NEW t \in Threads, NEW p \in Paths, Request(t, p) PROVE Owners'
  BY <1>2, CreateArrivesKeeps, WriteArrivesKeeps, GetArrivesKeeps, DeleteArrivesKeeps,
     CheckArrivesKeeps DEF Request
<1>3. CASE Kill
  BY <1>3, FallsKeeps DEF Kill
<1>4. CASE FIFA_Start
  BY <1>4, StartKeeps
<1>5. CASE UNCHANGED vars
  <2>1. UNCHANGED <<up, bitmap, meta, job, astray>>
    BY <1>5 DEF vars, disk, history
  <2>2. Held' = Held
    BY <2>1 DEF Held, Holds, Wiping, Working, BlocksOf, Saved, Reserved
  <2>3. Typed' /\ OneWorker'
    BY <2>1 DEF Owners, Typed, FileTyped, Saved, Distinct, OneWorker, Working
  <2>4. \A t \in Threads : HandNew(t)'
    BY <2>1 DEF Owners, HandNew, InHand, HandOf, BlocksOf, Saved, Distinct
  <2>5. (up' => OneHolder' /\ InUse') /\ Found'
    BY <2>1, <2>2 DEF Owners, OneHolder, InUse, Found, NoMetadata
  <2> QED BY <2>3, <2>4, <2>5 DEF Owners
<1> QED BY <1>1, <1>2, <1>3, <1>4, <1>5 DEF Next

\* The invariant of all the reachable states.
THEOREM OwnersInvariant == Spec => []Owners
<1>1. Init => Owners
  BY OwnersInit
<1>2. Owners /\ [Next]_vars => Owners'
  BY OwnersStep
<1> QED BY <1>1, <1>2, PTL DEF Spec

\* No block belongs to two files, nor twice to one, and no file has a block that another may
\* take (FIFA_ReserveBlockIfNotUsed, FIFA_FreeBlock).
THEOREM SoleOwnerInvariant == Spec => []SoleOwner
<1>1. ASSUME Owners PROVE SoleOwner
  <2>1. \A p \in Paths : Held[p] = Holds(p)
    BY DEF Held
  <2> QED BY <1>1, <2>1 DEF SoleOwner, Owners, OneHolder, InUse, Typed, FileTyped, Distinct
<1> QED BY <1>1, OwnersInvariant, PTL

\* No block in use is without an owner, after any number of refused operations.
THEOREM NoBlockLostInvariant == ASSUME NoMetadata PROVE Spec => []NoBlockLost
<1>1. ASSUME Owners PROVE NoBlockLost
  <2>1. \A p \in Paths : Held[p] = Holds(p)
    BY DEF Held
  <2> DEFINE held == UNION {Holds(p) : p \in Paths}
  <2>2. ASSUME NEW b \in bitmap, b \notin astray PROVE b \in held
    <3>1. PICK p \in Paths : b \in Held[p]
      BY <1>1, <2>2 DEF Owners, Found
    <3> QED BY <2>1, <3>1
  <2>3. NoBlockLost <=> bitmap \subseteq held \cup astray
    BY DEF NoBlockLost
  <2> HIDE DEF held
  <2> QED BY <2>2, <2>3
<1> QED BY <1>1, OwnersInvariant, PTL

-----------------------------------------------------------------------------
\* A file whose blocks on disk change, or have changed and are not yet in a copy of the bitmap.
Changing == {"wipe", "fill", "flush"}
ChangedBy(u, p) == job[u].pc \in Changing /\ job[u].path = p
FlushedBy(u, p) == job[u].pc = "close" /\ job[u].path = p

\* The blocks of p are newer than the copy of t: u changes them, or has and copied the bitmap after t.
Newer(u, t, p) == ChangedBy(u, p) \/ (FlushedBy(u, p) /\ t \in job[u].older)
\* The copy of t has the blocks of p, or they are newer.
Copied(t, p) == \/ BlocksOf(p) \subseteq job[t].map \cup astray
                \/ \E u \in Threads : Newer(u, t, p)
Copies(t) ==
    job[t].pc = "close" =>
      /\ "map" \in DOMAIN job[t] /\ job[t].late \in BOOLEAN /\ t \notin job[t].older
      /\ ~job[t].late => \A p \in Paths : Copied(t, p)
\* The same of the file of the bitmap, when the last copy written was not late.
Written(p) == \/ BlocksOf(p) \subseteq mapFile \cup astray
              \/ \E u \in Threads : ChangedBy(u, p) \/ FlushedBy(u, p)
FileWritten == up /\ mapFile # Torn /\ ~outdated => \A p \in Paths : Written(p)

MapInv == FileWritten /\ \A t \in Threads : Copies(t)

\* A thread that flushes nothing: each file stays as it was, or has no blocks, or is being changed.
LEMMA QuietKeeps ==
    ASSUME Owners, MapInv, NEW t \in Threads, NEW j, Goes(t, j), up,
           UNCHANGED <<up, mapFile, outdated>>,
           astray \subseteq astray', job[t].pc # "close", j.pc # "close",
           \A p \in Paths :
             \/ BlocksOf(p)' = {}
             \/ j.pc \in Changing /\ j.path = p
             \/ BlocksOf(p)' \subseteq BlocksOf(p) /\ ~ChangedBy(t, p)
    PROVE  MapInv'
<1>1. job'[t] = j /\ \A u \in Threads \ {t} : job'[u] = job[u]
  BY DEF Goes, Owners, Typed
<1>2. \A u \in Threads, p \in Paths : /\ u # t => (ChangedBy(u, p)' <=> ChangedBy(u, p))
                                      /\ FlushedBy(u, p)' <=> FlushedBy(u, p)
  BY <1>1 DEF ChangedBy, FlushedBy
<1>3. \A p \in Paths : \/ BlocksOf(p)' = {}
                       \/ ChangedBy(t, p)'
                       \/ BlocksOf(p)' \subseteq BlocksOf(p) /\ ~ChangedBy(t, p)
  BY <1>1 DEF ChangedBy
<1>4. ASSUME NEW u \in Threads, Copies(u) PROVE Copies(u)'
  <2> SUFFICES ASSUME job'[u].pc = "close"
               PROVE  Copies(u)'
    BY DEF Copies
  <2>1. u # t /\ job'[u] = job[u]
    BY <1>1
  <2>2. ASSUME NEW p \in Paths, Copied(u, p) PROVE Copied(u, p)'
    <3>1. \A w \in Threads : FlushedBy(w, p) => w # t /\ job'[w] = job[w]
      BY <1>1 DEF FlushedBy
    <3> QED BY <1>2, <1>3, <2>1, <2>2, <3>1 DEF Copied, Newer
  <2> QED BY <1>4, <2>1, <2>2 DEF Copies
<1>5. ASSUME NEW p \in Paths, Written(p) PROVE Written(p)'
  BY <1>2, <1>3, <1>5 DEF Written
<1> QED BY <1>4, <1>5 DEF MapInv, FileWritten

\* The copy has what every file has in use, but for those that are being changed; whoever has a
\* copy already has an older one.
LEMMA FlushCopiesMap == ASSUME Owners, MapInv, NEW t \in Threads, FlushCopies(t) PROVE MapInv'
<1>1. /\ up /\ up' /\ mapFile' = Torn /\ job[t].pc = "flush" /\ job[t].path \in Paths
      /\ UNCHANGED <<meta, astray, bitmap>>
  BY DEF FlushCopies, At, history, Owners, Typed, JobTyped
<1>2. PICK j : /\ j = [pc |-> "close", path |-> job[t].path, was |-> job[t].was, map |-> bitmap,
                       late |-> FALSE, older |-> {u \in Threads : job[u].pc = "close"}]
               /\ Goes(t, j)
  BY DEF FlushCopies
<1>3. job'[t] = j /\ \A u \in Threads \ {t} : job'[u] = job[u]
  BY <1>2 DEF Goes, Owners, Typed
<1>4. /\ j.pc = "close" /\ j.path = job[t].path /\ j.map = bitmap /\ j.late = FALSE
      /\ j.older = {u \in Threads : job[u].pc = "close"} /\ "map" \in DOMAIN j
  BY <1>2
<1>5. \A p \in Paths : BlocksOf(p)' = BlocksOf(p)
  BY <1>1 DEF BlocksOf, Saved
<1>6. Copies(t)'
  <2>1. ASSUME NEW p \in Paths PROVE Copied(t, p)'
    <3>1. CASE \E u \in Threads : Wiping(u, p)
      <4>1. PICK u \in Threads : job[u].pc = "wipe" /\ job[u].path = p
        BY <3>1 DEF Wiping
      <4>2. ChangedBy(u, p)'
        BY <1>1, <1>3, <4>1 DEF ChangedBy, Changing
      <4> QED BY <4>2 DEF Copied, Newer
    <3>2. CASE \A u \in Threads : ~Wiping(u, p)
      <4>1. BlocksOf(p) \subseteq Held[p]
        BY <3>2, HeldIs
      <4>2. BlocksOf(p) \subseteq bitmap \cup astray
        BY <1>1, <4>1 DEF Owners, InUse
      <4> QED BY <1>1, <1>3, <1>4, <1>5, <4>2 DEF Copied
    <3> QED BY <3>1, <3>2
  <2> QED BY <1>1, <1>3, <1>4, <2>1 DEF Copies
<1>7. ASSUME NEW u \in Threads \ {t} PROVE Copies(u)'
  <2> SUFFICES ASSUME job[u].pc = "close" PROVE Copies(u)'
    BY <1>3 DEF Copies
  <2>1. Copies(u) /\ job'[u] = job[u]
    BY <1>3 DEF MapInv
  <2>2. u \in {w \in Threads : job[w].pc = "close"}
    OBVIOUS
  <2>3. ASSUME NEW p \in Paths, Copied(u, p) PROVE Copied(u, p)'
    <3>1. CASE \E w \in Threads : Newer(w, u, p)
      <4>1. PICK w \in Threads : Newer(w, u, p)
        BY <3>1
      <4>2. CASE w = t
        <5>1. job[t].path = p
          BY <4>1, <4>2 DEF Newer, ChangedBy, FlushedBy
        <5>2. Newer(t, u, p)'
          BY <1>3, <1>4, <5>1, <2>2 DEF Newer, FlushedBy
        <5> QED BY <5>2 DEF Copied
      <4>3. CASE w # t
        <5>1. job'[w] = job[w]
          BY <1>3, <4>3
        <5>2. Newer(w, u, p)'
          BY <4>1, <5>1 DEF Newer, ChangedBy, FlushedBy
        <5> QED BY <5>2 DEF Copied
      <4> QED BY <4>2, <4>3
    <3>2. CASE BlocksOf(p) \subseteq job[u].map \cup astray
      BY <1>1, <1>5, <2>1, <3>2 DEF Copied
    <3> QED BY <2>3, <3>1, <3>2 DEF Copied
  <2> QED BY <2>1, <2>3 DEF Copies
<1> QED BY <1>1, <1>6, <1>7 DEF MapInv, FileWritten

\* The copy that is written is that of t; those that are older are late.
LEMMA FlushClosesMap == ASSUME Owners, MapInv, NEW t \in Threads, FlushCloses(t) PROVE MapInv'
<1>1. /\ up /\ up' /\ mapFile' = job[t].map /\ job[t].pc = "close" /\ job[t].path \in Paths
      /\ outdated' = job[t].late /\ UNCHANGED <<meta, astray, bitmap>>
  BY DEF FlushCloses, At, history, Owners, Typed, JobTyped
<1>2. Copies(t)
  BY DEF MapInv
<1>3. job'[t].pc = "done"
  BY DEF FlushCloses
<1>4. \A u \in Threads \ {t} : job[u].pc # "close" => job'[u] = job[u]
  BY DEF FlushCloses
<1>5. ASSUME NEW u \in Threads \ {t}, job[u].pc = "close"
      PROVE  /\ job'[u].pc = "close" /\ job'[u].path = job[u].path
             /\ job'[u].late = (job[u].late \/ u \in job[t].older)
             /\ job'[u].older = job[u].older \ {t}
             /\ "map" \in DOMAIN job'[u] /\ job'[u].map = job[u].map
  <2>1. job'[u] = [job[u] EXCEPT !.late = @ \/ u \in job[t].older, !.older = @ \ {t}]
    BY <1>5 DEF FlushCloses
  <2>2. {"pc", "path", "map", "late", "older"} \subseteq DOMAIN job[u]
    BY <1>5 DEF MapInv, Copies, Owners, Typed, JobTyped, Reserving
  <2> QED BY <1>5, <2>1, <2>2
<1>6. \A p \in Paths : BlocksOf(p)' = BlocksOf(p)
  BY <1>1 DEF BlocksOf, Saved
<1>7. \A w \in Threads \ {t}, p \in Paths : /\ ChangedBy(w, p)' <=> ChangedBy(w, p)
                                            /\ FlushedBy(w, p)' <=> FlushedBy(w, p)
  BY <1>4, <1>5 DEF ChangedBy, FlushedBy, Changing
<1>8. \A p \in Paths : ~ChangedBy(t, p)
  BY <1>1 DEF ChangedBy, Changing
<1>9. ASSUME NEW u \in Threads PROVE Copies(u)'
  <2> SUFFICES ASSUME job'[u].pc = "close" PROVE Copies(u)'
    BY DEF Copies
  <2>1. u # t /\ job[u].pc = "close" /\ Copies(u)
    BY <1>3, <1>4 DEF MapInv
  <2>2. ASSUME ~job'[u].late, NEW p \in Paths PROVE Copied(u, p)'
    <3>1. ~job[u].late /\ u \notin job[t].older
      BY <1>5, <2>1, <2>2
    <3>2. Copied(u, p)
      BY <2>1, <3>1 DEF Copies
    <3>3. CASE BlocksOf(p) \subseteq job[u].map \cup astray
      BY <1>1, <1>5, <1>6, <2>1, <3>3 DEF Copied
    <3>4. CASE \E w \in Threads : Newer(w, u, p)
      <4>1. PICK w \in Threads : Newer(w, u, p)
        BY <3>4
      <4>2. w # t
        BY <1>8, <3>1, <4>1 DEF Newer
      <4>3. CASE ChangedBy(w, p)
        BY <1>7, <4>2, <4>3 DEF Copied, Newer
      <4>4. CASE FlushedBy(w, p) /\ u \in job[w].older
        <5>1. FlushedBy(w, p)' /\ job'[w].older = job[w].older \ {t}
          BY <1>5, <1>7, <4>2, <4>4 DEF FlushedBy
        <5>2. u \in job'[w].older
          BY <2>1, <4>4, <5>1
        <5> QED BY <5>1, <5>2 DEF Copied, Newer
      <4> QED BY <4>1, <4>3, <4>4 DEF Newer
    <3> QED BY <3>2, <3>3, <3>4 DEF Copied
  <2>3. "map" \in DOMAIN job'[u] /\ job'[u].late \in BOOLEAN /\ u \notin job'[u].older
    BY <1>5, <2>1 DEF Copies
  <2> QED BY <2>2, <2>3 DEF Copies
<1>10. ASSUME ~outdated', NEW p \in Paths PROVE Written(p)'
  <2>1. Copied(t, p)
    BY <1>1, <1>2, <1>10 DEF Copies
  <2>2. CASE BlocksOf(p) \subseteq job[t].map \cup astray
    BY <1>1, <1>6, <2>2 DEF Written
  <2>3. CASE \E w \in Threads : Newer(w, t, p)
    <3>1. PICK w \in Threads : Newer(w, t, p)
      BY <2>3
    <3>2. w # t
      BY <1>1, <1>2, <1>8, <3>1 DEF Copies, Newer
    <3> QED BY <1>7, <3>1, <3>2 DEF Written, Newer
  <2> QED BY <2>1, <2>2, <2>3 DEF Copied
<1> QED BY <1>9, <1>10 DEF MapInv, FileWritten

\* The steps that leave the metadata as they are, and the file no less changed.
LEMMA SameFilesKeep ==
    ASSUME Owners, MapInv, NEW t \in Threads, NEW j, Goes(t, j), up,
           UNCHANGED <<up, mapFile, outdated, meta>>,
           astray \subseteq astray', job[t].pc # "close", j.pc # "close",
           job[t].pc \in Changing => j.pc \in Changing /\ j.path = job[t].path
    PROVE  MapInv'
<1>1. \A p \in Paths : BlocksOf(p)' = BlocksOf(p)
  BY DEF BlocksOf, Saved
<1> QED BY <1>1, QuietKeeps DEF ChangedBy

\* The metadata of the file that t works on become others: the file has no blocks, or t has
\* changed it and is still to flush.
LEMMA NewFileKeeps ==
    ASSUME Owners, MapInv, NEW t \in Threads, NEW j, Goes(t, j), up,
           UNCHANGED <<up, mapFile, outdated, astray>>,
           job[t].pc # "close", j.pc \in Changing \cup Reserving, job[t].pc \notin {"idle", "done"},
           NEW m, meta' = [meta EXCEPT ![job[t].path] = m],
           m \in {Absent, Blank} \/ (j.pc \in Changing /\ j.path = job[t].path)
    PROVE  MapInv'
<1>1. PICK p \in Paths : p = job[t].path
  BY DEF Owners, Typed, JobTyped
<1>2. DOMAIN meta = Paths /\ meta'[p] = m
  BY <1>1 DEF Owners, Typed
<1>3. \A q \in Paths \ {p} : BlocksOf(q)' = BlocksOf(q) /\ ~ChangedBy(t, q)
  BY <1>1, <1>2 DEF BlocksOf, Saved, ChangedBy
<1>4. m \in {Absent, Blank} => BlocksOf(p)' = {}
  BY <1>2 DEF BlocksOf, Saved
<1>5. j.pc # "close"
  BY DEF Changing, Reserving
<1> QED BY <1>1, <1>3, <1>4, <1>5, QuietKeeps

\* Every step of a request.
LEMMA StepMap == ASSUME Owners, MapInv, NEW t \in Threads, Step(t) PROVE MapInv'
<1>1. JobTyped(job[t])
  BY DEF Owners, Typed
<1>2. CASE ReserveTests(t)
  <2>1. PICK j : j \in {[job[t] EXCEPT !.at = @ + 1],
                        [job[t] EXCEPT !.got = Append(@, job[t].at), !.at = 0]} /\ Goes(t, j)
    BY <1>2 DEF ReserveTests
  <2>2. job[t].pc = "reserve" /\ j.pc = job[t].pc
    BY <1>1, <1>2, <2>1 DEF ReserveTests, At, JobTyped
  <2> QED BY <1>2, <2>1, <2>2, SameFilesKeep DEF ReserveTests, At, disk, history, Changing
<1>3. CASE ReserveFails(t)
  <2>1. PICK j : j = [job[t] EXCEPT !.pc = "rollback", !.code = INSUFFICIENT_SPACE] /\ Goes(t, j)
    BY <1>3 DEF ReserveFails
  <2>2. job[t].pc = "reserve" /\ j.pc = "rollback"
    BY <1>1, <1>3, <2>1 DEF ReserveFails, At, JobTyped
  <2> QED BY <1>3, <2>1, <2>2, SameFilesKeep DEF ReserveFails, At, disk, history, Changing
<1>4. CASE RollsBack(t)
  <2>1. PICK j : /\ j \in {[pc |-> "done", code |-> job[t].code, bytes |-> <<>>],
                           [job[t] EXCEPT !.got = Tail(@)]}
                 /\ Goes(t, j)
    BY <1>4 DEF RollsBack, Finishes
  <2>2. job[t].pc = "rollback" /\ j.pc \in {"done", "rollback"}
    BY <1>1, <1>4, <2>1 DEF RollsBack, At, JobTyped
  <2> QED BY <1>4, <2>1, <2>2, SameFilesKeep DEF RollsBack, At, disk, history, Changing
<1>5. CASE CreateMakes(t)
  <2>1. job[t].pc = "reserve" /\ up /\ UNCHANGED <<up, mapFile, outdated, astray>>
    BY <1>5 DEF CreateMakes, Enough, At
  <2>2. CASE meta' = [meta EXCEPT ![job[t].path] = Blank] /\ Goes(t, [job[t] EXCEPT !.pc = "save"])
    <3>1. PICK j : j = [job[t] EXCEPT !.pc = "save"]
      OBVIOUS
    <3>2. j.pc = "save"
      BY <1>1, <3>1 DEF JobTyped
    <3> QED BY <2>1, <2>2, <3>1, <3>2, NewFileKeeps DEF Reserving
  <2>3. CASE Goes(t, [job[t] EXCEPT !.pc = "rollback", !.code = METADATA_CREATE_ERROR]) /\ UNCHANGED meta
    <3>1. PICK j : j = [job[t] EXCEPT !.pc = "rollback", !.code = METADATA_CREATE_ERROR]
      OBVIOUS
    <3>2. j.pc = "rollback"
      BY <1>1, <3>1 DEF JobTyped
    <3> QED BY <2>1, <2>3, <3>1, <3>2, SameFilesKeep DEF Changing
  <2> QED BY <1>5, <2>2, <2>3 DEF CreateMakes
<1>6. CASE CreateSaves(t)
  <2>1. job[t].pc = "save" /\ up /\ UNCHANGED <<up, mapFile, outdated, astray>>
    BY <1>6 DEF CreateSaves, At
  <2>2. CASE /\ meta' = [meta EXCEPT ![job[t].path] = [size |-> job[t].size, blocks |-> job[t].got]]
             /\ Goes(t, [pc |-> "fill", path |-> job[t].path, was |-> Absent, blocks |-> job[t].got,
                         left |-> job[t].size])
    <3>1. PICK j, m : /\ j = [pc |-> "fill", path |-> job[t].path, was |-> Absent,
                              blocks |-> job[t].got, left |-> job[t].size]
                      /\ m = [size |-> job[t].size, blocks |-> job[t].got]
      OBVIOUS
    <3>2. j.pc = "fill" /\ j.path = job[t].path
      BY <3>1
    <3>3. meta' = [meta EXCEPT ![job[t].path] = m] /\ Goes(t, j)
      BY <2>2, <3>1
    <3> QED BY <2>1, <3>2, <3>3, NewFileKeeps DEF Changing
  <2>3. CASE Goes(t, [job[t] EXCEPT !.pc = "rollback", !.code = METADATA_OPEN_ERROR]) /\ UNCHANGED meta
    <3>1. PICK j : j = [job[t] EXCEPT !.pc = "rollback", !.code = METADATA_OPEN_ERROR]
      OBVIOUS
    <3>2. j.pc = "rollback"
      BY <1>1, <3>1 DEF JobTyped
    <3> QED BY <2>1, <2>3, <3>1, <3>2, SameFilesKeep DEF Changing
  <2> QED BY <1>6, <2>2, <2>3 DEF CreateSaves
<1>7. CASE CreateFills(t)
  <2>1. job[t].pc = "fill" /\ up /\ UNCHANGED <<up, mapFile, outdated, meta, astray>>
    BY <1>7 DEF CreateFills, At, history
  <2>2. PICK j : /\ Goes(t, j)
                 /\ \/ j = [pc |-> "flush", path |-> job[t].path, was |-> Absent]
                    \/ j = [job[t] EXCEPT !.blocks = Tail(@), !.left = @ - Smaller(job[t].left, BlockSize)]
    BY <1>7 DEF CreateFills
  <2>3. {"pc", "path"} \subseteq DOMAIN job[t]
    BY <1>1, <2>1 DEF JobTyped
  <2>4. j.pc \in {"fill", "flush"} /\ j.path = job[t].path
    <3>1. CASE j = [pc |-> "flush", path |-> job[t].path, was |-> Absent]
      BY <3>1
    <3>2. CASE j = [job[t] EXCEPT !.blocks = Tail(@), !.left = @ - Smaller(job[t].left, BlockSize)]
      BY <2>1, <2>3, <3>2
    <3> QED BY <2>2, <3>1, <3>2
  <2> QED BY <2>1, <2>2, <2>4, SameFilesKeep DEF Changing
<1>8. CASE WriteExtends(t)
  <2>1. job[t].pc = "reserve" /\ up /\ UNCHANGED <<up, mapFile, outdated, meta, astray>>
    BY <1>8 DEF WriteExtends, Enough, At, disk, history
  <2>2. PICK j : /\ Goes(t, j)
                 /\ j = PutLoop(job[t].path, job[t].was, job[t].offset + Len(job[t].buffer),
                                meta[job[t].path].blocks \o job[t].got, job[t].offset, job[t].buffer)
    BY <1>8 DEF WriteExtends
  <2>3. j.pc = "put"
    BY <2>2 DEF PutLoop
  <2> QED BY <2>1, <2>2, <2>3, SameFilesKeep DEF Changing
<1>9. CASE WritePuts(t)
  <2>1. job[t].pc = "put" /\ up /\ UNCHANGED <<up, mapFile, outdated, meta, astray>>
    BY <1>9 DEF WritePuts, At, history
  <2>2. PICK j : /\ Goes(t, j)
                 /\ j = [job[t] EXCEPT !.i = @ + 1, !.from = 0,
                                       !.buffer = SubSeq(@, Fitting(job[t]) + 1, Len(@))]
    BY <1>9 DEF WritePuts
  <2>3. j.pc = "put"
    BY <1>1, <2>1, <2>2 DEF JobTyped
  <2> QED BY <2>1, <2>2, <2>3, SameFilesKeep DEF Changing
<1>10. CASE WriteSaves(t)
  <2>1. job[t].pc = "put" /\ up /\ UNCHANGED <<up, mapFile, outdated, astray>>
    BY <1>10 DEF WriteSaves, At, history
  <2>2. PICK j, m : /\ j = [pc |-> "flush", path |-> job[t].path, was |-> job[t].was]
                    /\ m = [size |-> job[t].size, blocks |-> job[t].blocks]
    OBVIOUS
  <2>3. Goes(t, j) /\ meta' = [meta EXCEPT ![job[t].path] = m]
    BY <1>10, <2>2 DEF WriteSaves
  <2>4. j.pc = "flush" /\ j.path = job[t].path
    BY <2>2
  <2> QED BY <2>1, <2>3, <2>4, NewFileKeeps DEF Changing
<1>11. CASE DeleteWipes(t)
  <2>1. job[t].pc = "wipe" /\ up /\ UNCHANGED <<up, mapFile, outdated, meta>> /\ astray \subseteq astray'
    BY <1>11 DEF DeleteWipes, At, history
  <2>2. PICK j : Goes(t, j) /\ j = [job[t] EXCEPT !.blocks = Tail(@)]
    BY <1>11 DEF DeleteWipes
  <2>3. j.pc = "wipe" /\ j.path = job[t].path
    BY <1>1, <2>1, <2>2 DEF JobTyped
  <2> QED BY <2>1, <2>2, <2>3, SameFilesKeep DEF Changing
<1>12. CASE DeleteRemoves(t)
  <2>1. job[t].pc = "wipe" /\ up /\ UNCHANGED <<up, mapFile, outdated, astray>>
    BY <1>12 DEF DeleteRemoves, At, history
  <2>2. PICK j : j = [pc |-> "flush", path |-> job[t].path, was |-> job[t].was]
    OBVIOUS
  <2>3. Goes(t, j) /\ meta' = [meta EXCEPT ![job[t].path] = Absent]
    BY <1>12, <2>2 DEF DeleteRemoves
  <2>4. j.pc = "flush" /\ j.path = job[t].path
    BY <2>2
  <2> QED BY <2>1, <2>3, <2>4, NewFileKeeps DEF Changing
<1>13. CASE Reply(t)
  <2>1. job[t].pc = "done" /\ up /\ UNCHANGED <<up, mapFile, outdated, meta, astray>> /\ Goes(t, Idle)
    BY <1>13 DEF Reply, At, disk, history
  <2>2. Idle.pc = "idle"
    BY DEF Idle
  <2> QED BY <2>1, <2>2, SameFilesKeep DEF Changing
<1> QED BY <1>2, <1>3, <1>4, <1>5, <1>6, <1>7, <1>8, <1>9, <1>10, <1>11, <1>12, <1>13,
           FlushCopiesMap, FlushClosesMap DEF Step

\* Nothing is promised while the process does not run.
LEMMA FallsMap == ASSUME Falls PROVE MapInv'
<1>1. ~up' /\ \A t \in Threads : job'[t] = Idle
  BY DEF Falls
<1>2. Idle.pc # "close"
  BY DEF Idle
<1> QED BY <1>1, <1>2 DEF MapInv, FileWritten, Copies

\* A request is taken, or is answered at once.
LEMMA ArrivesMap ==
    ASSUME Owners, MapInv, NEW t \in Threads, NEW p \in Paths, Request(t, p)
    PROVE  MapInv'
<1>1. CASE Falls
  BY <1>1, FallsMap
<1>2. CASE ~Falls
  <2>1. UNCHANGED <<mapFile, meta>> /\ job[t].pc = "idle" /\ up
    BY DEF Request, CreateArrives, WriteArrives, GetArrives, DeleteArrives, CheckArrives, Arrives, At, disk
  <2>2. UNCHANGED <<up, outdated, astray>>
    BY <1>2 DEF Request, CreateArrives, WriteArrives, GetArrives, DeleteArrives, CheckArrives, history
  <2>3. \A c : [pc |-> "done", code |-> c, bytes |-> <<>>].pc # "close"
    OBVIOUS
  <2>4. \E j : Goes(t, j) /\ j.pc # "close"
    <3>1. ASSUME NEW n, CreateArrives(t, p, n) PROVE \E j : Goes(t, j) /\ j.pc # "close"
      BY <2>3, <3>1 DEF CreateArrives, Finishes
    <3>2. ASSUME NEW o, NEW b, WriteArrives(t, p, o, b) PROVE \E j : Goes(t, j) /\ j.pc # "close"
      BY <1>2, <2>3, <3>2 DEF WriteArrives, Finishes, PutLoop
    <3>3. ASSUME NEW o, NEW n, GetArrives(t, p, o, n) PROVE \E j : Goes(t, j) /\ j.pc # "close"
      BY <1>2, <2>3, <3>3 DEF GetArrives, Finishes
    <3>4. ASSUME DeleteArrives(t, p) PROVE \E j : Goes(t, j) /\ j.pc # "close"
      BY <1>2, <2>3, <3>4 DEF DeleteArrives, Finishes
    <3>5. ASSUME CheckArrives(t, p) PROVE \E j : Goes(t, j) /\ j.pc # "close"
      BY <2>3, <3>5 DEF CheckArrives, Finishes
    <3> QED BY <3>1, <3>2, <3>3, <3>4, <3>5 DEF Request
  <2>5. PICK j : Goes(t, j) /\ j.pc # "close"
    BY <2>4
  <2> QED BY <2>1, <2>2, <2>5, SameFilesKeep DEF Changing
<1> QED BY <1>1, <1>2

\* A start notes the blocks that the file of the bitmap lacks.
LEMMA StartMap == ASSUME Owners, MapInv, FIFA_Start PROVE MapInv'
<1>1. /\ ~up /\ UNCHANGED <<mapFile, meta, job, outdated>>
  BY DEF FIFA_Start, disk
<1>2. \A t \in Threads : ~(job'[t].pc = "close")
  BY <1>1 DEF Owners, Typed
<1>3. ASSUME mapFile # Torn PROVE Owned \ mapFile \subseteq astray'
  BY <1>3 DEF FIFA_Start
<1>4. \A p \in Paths : BlocksOf(p)' = BlocksOf(p) /\ BlocksOf(p) \subseteq Owned
  BY <1>1 DEF BlocksOf, Saved, Owned
<1>5. ASSUME mapFile # Torn, NEW p \in Paths PROVE Written(p)'
  BY <1>1, <1>3, <1>4, <1>5 DEF Written
<1> QED BY <1>1, <1>2, <1>5 DEF MapInv, FileWritten, Copies

\* Every step keeps the invariant.
LEMMA MapStep == ASSUME Owners, MapInv, [Next]_vars PROVE MapInv'
<1>1. CASE Kill
  BY <1>1, FallsMap DEF Kill
<1>2. CASE UNCHANGED vars
  <2>1. UNCHANGED <<up, mapFile, meta, job, astray, outdated>>
    BY <1>2 DEF vars, disk, history
  <2>2. \A p \in Paths : BlocksOf(p)' = BlocksOf(p)
    BY <2>1 DEF BlocksOf, Saved
  <2>3. \A p \in Paths : Written(p) => Written(p)'
    BY <2>1, <2>2 DEF Written, ChangedBy, FlushedBy
  <2>4. \A t \in Threads, p \in Paths : Copied(t, p) => Copied(t, p)'
    BY <2>1, <2>2 DEF Copied, Newer, ChangedBy, FlushedBy
  <2> QED BY <2>1, <2>3, <2>4 DEF MapInv, FileWritten, Copies
<1> QED BY <1>1, <1>2, StepMap, ArrivesMap, StartMap DEF Next

\* After each answer the file of the bitmap has the blocks of every file that nobody is
\* working on, so that a restart finds them in use (FIFA_FlushBitmap), unless the last copy to be
\* written was older than one written before.
THEOREM MapSavedInvariant == Spec => []MapSaved
<1>1. ASSUME Init PROVE MapInv
  <2>1. /\ \A t \in Threads : job[t].pc = "idle"
        /\ \A p \in Paths : BlocksOf(p) = {}
    BY <1>1 DEF Init, Idle, BlocksOf, Saved
  <2> QED BY <2>1 DEF MapInv, FileWritten, Copies, Written
<1>2. ASSUME MapInv PROVE MapSaved
  <2>1. ASSUME NEW p \in Paths, AtRest(p), NEW u \in Threads PROVE ~ChangedBy(u, p) /\ ~FlushedBy(u, p)
    BY <2>1 DEF AtRest, Working, ChangedBy, FlushedBy, Changing
  <2> QED BY <1>2, <2>1 DEF MapInv, FileWritten, Written, MapSaved
<1>3. Owners /\ MapInv /\ [Next]_vars => Owners' /\ MapInv'
  BY OwnersStep, MapStep
<1> QED BY <1>1, <1>2, <1>3, OwnersInit, PTL DEF Spec

-----------------------------------------------------------------------------
\* Where block k of a file begins, from 0, and what it has of the n bytes of the file.
Start(k) == k * BlockSize
Chunk(n, k) == IF n <= Start(k) THEN 0 ELSE Smaller(BlockSize, n - Start(k))
\* s is what block k has of the bytes of c.
IsChunk(s, c, k) ==
    /\ s \in Seq(Values) /\ Len(s) = Chunk(Len(c), k)
    /\ \A o \in 1 .. Len(s) : s[o] = c[Start(k) + o]
\* The blocks bl have in d the bytes of c, one after the other, and nothing else.
Carries(d, bl, c) ==
    /\ Len(c) <= Start(Len(bl))
    /\ \A k \in 1 .. Len(bl) : IsChunk(d[bl[k]], c, k - 1)

\* A multiple is less than another by one time at least.
LEMMA Times ==
    ASSUME NEW B \in Nat \ {0}, NEW m \in Int, NEW k \in Int, m < k
    PROVE  m * B + B <= k * B /\ m * B \in Int /\ k * B \in Int
<1>1. k - m - 1 \in Nat
  OBVIOUS
<1>2. \A x, y \in Nat : x * y >= 0
  OBVIOUS
<1>3. (k - m - 1) * B >= 0
  BY <1>1, <1>2
<1> QED BY <1>3

\* Blocks follow one another.
LEMMA StartIs ==
    ASSUME NEW k \in Nat
    PROVE  /\ Start(k) \in Nat
           /\ Start(k + 1) = Start(k) + BlockSize
           /\ \A m \in Nat : m < k => Start(m) + BlockSize <= Start(k) /\ Start(m) \in Nat
<1>1. PICK B \in Nat \ {0} : B = BlockSize
  BY BoundsAssumption
<1>2. k * B \in Nat /\ (k + 1) * B = k * B + B
  BY <1>1
<1>3. \A m \in Nat : m < k => m * B + B <= k * B /\ m * B \in Nat
  BY Times
<1> QED BY <1>1, <1>2, <1>3 DEF Start

\* Quotient and rest.
LEMMA Division ==
    ASSUME NEW B \in Nat \ {0}, NEW x \in Nat
    PROVE  x \div B \in Nat /\ x % B \in 0 .. B - 1 /\ x = (x \div B) * B + (x % B)
OBVIOUS

\* There is one quotient and one rest.
LEMMA DivisionIs ==
    ASSUME NEW B \in Nat \ {0}, NEW q \in Nat, NEW r \in 0 .. B - 1
    PROVE  (q * B + r) \div B = q /\ (q * B + r) % B = r
<1>1. PICK x : x = q * B + r
  OBVIOUS
<1>2. q * B \in Nat /\ x \in Nat
  BY <1>1
<1>3. PICK d \in Nat : d = x \div B
  BY <1>2, Division
<1>4. PICK s \in 0 .. B - 1 : s = x % B
  BY <1>2, Division
<1>5. q * B + r = d * B + s
  BY <1>1, <1>2, <1>3, <1>4, Division
<1>6. ~(d < q)
  BY <1>5, Times
<1>7. ~(q < d)
  BY <1>5, Times
<1>8. d = q
  BY <1>6, <1>7
<1> QED BY <1>1, <1>3, <1>4, <1>5, <1>8

\* CeilDiv blocks have room for n bytes.
LEMMA CeilDivIs ==
    ASSUME NEW n \in Nat
    PROVE  /\ CeilDiv(n, BlockSize) \in Nat
           /\ n <= Start(CeilDiv(n, BlockSize))
<1>1. PICK B \in Nat \ {0} : B = BlockSize
  BY BoundsAssumption
<1>2. PICK x \in Nat : x = n + B - 1
  BY <1>1
<1>3. PICK q \in Nat : q = x \div B
  BY Division
<1>4. x % B \in 0 .. B - 1 /\ x = q * B + (x % B) /\ q * B \in Nat
  BY <1>3, Division
<1>5. n <= q * B
  BY <1>2, <1>4
<1> QED BY <1>1, <1>2, <1>3, <1>4, <1>5 DEF CeilDiv, Start

\* The block and the position in it of an offset.
LEMMA FirstBlockIs ==
    ASSUME NEW offset \in Nat
    PROVE  /\ FirstBlock(offset) \in Nat
           /\ FIFA_GetFirstByteFromOffset(offset) \in 0 .. BlockSize - 1
           /\ offset = Start(FirstBlock(offset)) + FIFA_GetFirstByteFromOffset(offset)
<1>1. PICK B \in Nat \ {0} : B = BlockSize
  BY BoundsAssumption
<1>2. PICK q \in Nat : q = offset \div B
  BY Division
<1>3. PICK r \in 0 .. B - 1 : r = offset % B
  BY Division
<1>4. offset = q * B + r /\ q * B \in Nat
  BY <1>2, <1>3, Division
<1>5. CASE r = 0
  <2>1. offset + B - 1 = q * B + (B - 1) /\ B - 1 \in 0 .. B - 1
    BY <1>4, <1>5
  <2>2. (q * B + (B - 1)) \div B = q
    BY <2>1, DivisionIs
  <2>3. CeilDiv(offset, BlockSize) = q
    BY <1>1, <2>1, <2>2 DEF CeilDiv
  <2> QED BY <1>1, <1>3, <1>4, <1>5, <2>3 DEF FirstBlock, FIFA_GetFirstByteFromOffset, FIFA_GetBlockFromOffset, Start
<1>6. CASE r # 0
  <2>1. offset + B - 1 = (q + 1) * B + (r - 1) /\ r - 1 \in 0 .. B - 1 /\ q + 1 \in Nat
    BY <1>4, <1>6
  <2>2. ((q + 1) * B + (r - 1)) \div B = q + 1
    BY <2>1, DivisionIs
  <2>3. CeilDiv(offset, BlockSize) = q + 1
    BY <1>1, <2>1, <2>2 DEF CeilDiv
  <2> QED BY <1>1, <1>3, <1>4, <1>6, <2>3 DEF FirstBlock, FIFA_GetFirstByteFromOffset, FIFA_GetBlockFromOffset, Start
<1> QED BY <1>5, <1>6

\* What a block has of n bytes.
LEMMA ChunkIs ==
    ASSUME NEW n \in Nat, NEW k \in Nat
    PROVE  /\ Chunk(n, k) \in 0 .. BlockSize
           /\ n <= Start(k) => Chunk(n, k) = 0
           /\ n >= Start(k) + BlockSize => Chunk(n, k) = BlockSize
           /\ Start(k) <= n /\ n <= Start(k) + BlockSize => Chunk(n, k) = n - Start(k)
<1>1. Start(k) \in Nat /\ BlockSize \in Nat \ {0}
  BY BoundsAssumption, StartIs
<1> QED BY <1>1 DEF Chunk, Smaller

\* The bytes of a sequence from one to another.
LEMMA PartOf ==
    ASSUME NEW V, NEW s \in Seq(V), NEW m \in Int, NEW n \in Int, 1 <= m, n <= Len(s)
    PROVE  /\ SubSeq(s, m, n) \in Seq(V)
           /\ Len(SubSeq(s, m, n)) = IF m <= n THEN n - m + 1 ELSE 0
           /\ \A i \in 1 .. n - m + 1 : SubSeq(s, m, n)[i] = s[m + i - 1]
<1>1. Len(s) \in Nat
  BY LenProperties
<1>2. \A i \in m .. n : s[i] \in V
  BY <1>1, ElementOfSeq
<1> QED BY <1>2, SubSeqProperties

\* w is s but for the bytes after o, which are those of b.
Overlaid(V, w, s, o, b) ==
    /\ w \in Seq(V)
    /\ Len(w) = Larger(Len(s), o + Len(b))
    /\ Len(w) \in Nat
    /\ \A i \in 1 .. Len(w) : w[i] = IF o < i /\ i <= o + Len(b) THEN b[i - o] ELSE s[i]

\* What is written has taken the place of what there was.
LEMMA WrittenIs ==
    ASSUME NEW V, NEW s \in Seq(V), NEW b \in Seq(V), NEW o \in 0 .. Len(s)
    PROVE  Overlaid(V, Store!Written(s, o, b), s, o, b)
<1> DEFINE x == SubSeq(s, 1, o)
           y == SubSeq(s, o + Len(b) + 1, Len(s))
           z == x \o b
<1>0. Len(s) \in Nat /\ Len(b) \in Nat /\ o \in Nat /\ o <= Len(s)
  BY LenProperties
<1>1. x \in Seq(V) /\ Len(x) = o /\ \A i \in 1 .. o : x[i] = s[i]
  <2>1. x \in Seq(V) /\ Len(x) = (IF 1 <= o THEN o - 1 + 1 ELSE 0)
        /\ \A i \in 1 .. o - 1 + 1 : x[i] = s[1 + i - 1]
    BY <1>0, PartOf
  <2> QED BY <1>0, <2>1
<1>2. /\ y \in Seq(V)
      /\ Len(y) = IF o + Len(b) < Len(s) THEN Len(s) - (o + Len(b)) ELSE 0
      /\ \A i \in 1 .. Len(y) : y[i] = s[o + Len(b) + i]
  <2>1. /\ y \in Seq(V)
        /\ Len(y) = (IF o + Len(b) + 1 <= Len(s) THEN Len(s) - (o + Len(b) + 1) + 1 ELSE 0)
        /\ \A i \in 1 .. Len(s) - (o + Len(b) + 1) + 1 : y[i] = s[o + Len(b) + 1 + i - 1]
    BY <1>0, PartOf
  <2> QED BY <1>0, <2>1
<1> HIDE DEF x, y
<1>3. z \in Seq(V) /\ Len(z) = o + Len(b)
  BY <1>0, <1>1, ConcatProperties
<1>4. \A i \in 1 .. o + Len(b) : z[i] = IF i <= o THEN s[i] ELSE b[i - o]
  BY <1>0, <1>1, ConcatProperties
<1> HIDE DEF z
<1>5. (z \o y) \in Seq(V) /\ Len(z \o y) = Len(z) + Len(y) /\ Len(y) \in Nat
  BY <1>2, <1>3, ConcatProperties, LenProperties
<1>6. \A i \in 1 .. Len(z) + Len(y) : (z \o y)[i] = IF i <= Len(z) THEN z[i] ELSE y[i - Len(z)]
  <2>1. z \in Seq(V) /\ y \in Seq(V)
    BY <1>2, <1>3
  <2> QED BY <2>1, ConcatProperties
<1>7. Store!Written(s, o, b) = z \o y
  BY DEF Store!Written, x, y, z
<1>8. Len(z) + Len(y) = Larger(Len(s), o + Len(b))
  <2>1. CASE o + Len(b) < Len(s)
    BY <1>0, <1>2, <1>3, <2>1 DEF Larger
  <2>2. CASE ~(o + Len(b) < Len(s))
    BY <1>0, <1>2, <1>3, <2>2 DEF Larger
  <2> QED BY <2>1, <2>2
<1>9. \A i \in 1 .. Len(z) + Len(y) : (z \o y)[i] = IF o < i /\ i <= o + Len(b) THEN b[i - o] ELSE s[i]
  <2> TAKE i \in 1 .. Len(z) + Len(y)
  <2>1. CASE i <= o
    BY <1>0, <1>3, <1>4, <1>5, <1>6, <2>1
  <2>2. CASE o < i /\ i <= o + Len(b)
    BY <1>0, <1>3, <1>4, <1>5, <1>6, <2>2
  <2>3. CASE i > o + Len(b)
    <3>1. i - Len(z) \in 1 .. Len(y) /\ i > Len(z)
      BY <1>0, <1>3, <1>5, <2>3
    <3>2. (z \o y)[i] = y[i - Len(z)] /\ y[i - Len(z)] = s[o + Len(b) + (i - Len(z))]
      BY <1>0, <1>2, <1>3, <1>5, <1>6, <3>1
    <3> QED BY <1>0, <1>3, <1>5, <2>3, <3>2
  <2> QED BY <1>0, <2>1, <2>2, <2>3
<1>10. Len(z) + Len(y) \in Nat
  BY <1>0, <1>3, <1>5
<1> QED BY <1>5, <1>7, <1>8, <1>9, <1>10 DEF Overlaid

\* Writing a buffer is writing the first part of it and then the rest.
LEMMA WrittenInParts ==
    ASSUME NEW V, NEW s \in Seq(V), NEW b \in Seq(V), NEW o \in 0 .. Len(s), NEW n \in 1 .. Len(b),
           NEW w, w = Store!Written(s, o, SubSeq(b, 1, n))
    PROVE  /\ w \in Seq(V) /\ Len(w) = Larger(Len(s), o + n) /\ o + n \in 0 .. Len(w)
           /\ Store!Written(w, o + n, SubSeq(b, n + 1, Len(b))) = Store!Written(s, o, b)
<1> DEFINE x == SubSeq(b, 1, n)
           y == SubSeq(b, n + 1, Len(b))
           v == Store!Written(w, o + n, y)
           u == Store!Written(s, o, b)
<1>0. Len(s) \in Nat /\ Len(b) \in Nat /\ o \in Nat /\ o <= Len(s) /\ n \in Nat /\ 1 <= n /\ n <= Len(b)
  BY LenProperties
<1>1. x \in Seq(V) /\ Len(x) = n /\ \A i \in 1 .. n : x[i] = b[i]
  <2>1. x \in Seq(V) /\ Len(x) = (IF 1 <= n THEN n - 1 + 1 ELSE 0)
        /\ \A i \in 1 .. n - 1 + 1 : x[i] = b[1 + i - 1]
    BY <1>0, PartOf
  <2> QED BY <1>0, <2>1
<1>2. y \in Seq(V) /\ Len(y) = Len(b) - n /\ \A i \in 1 .. Len(b) - n : y[i] = b[n + i]
  <2>1. /\ y \in Seq(V) /\ Len(y) = (IF n + 1 <= Len(b) THEN Len(b) - (n + 1) + 1 ELSE 0)
        /\ \A i \in 1 .. Len(b) - (n + 1) + 1 : y[i] = b[n + 1 + i - 1]
    BY <1>0, PartOf
  <2> QED BY <1>0, <2>1
<1> HIDE DEF x, y
<1>3. /\ w \in Seq(V) /\ Len(w) = Larger(Len(s), o + n) /\ Len(w) \in Nat
      /\ \A i \in 1 .. Len(w) : w[i] = IF o < i /\ i <= o + n THEN b[i - o] ELSE s[i]
  <2>0. w = Store!Written(s, o, x)
    BY DEF x
  <2>1. Overlaid(V, w, s, o, x)
    BY <1>1, <2>0, WrittenIs
  <2>2. ASSUME NEW i \in 1 .. Len(w), o < i, i <= o + n PROVE x[i - o] = b[i - o]
    <3>1. i - o \in 1 .. n
      BY <1>0, <2>1, <2>2 DEF Overlaid
    <3> QED BY <1>1, <3>1
  <2> QED BY <1>1, <2>1, <2>2 DEF Overlaid
<1>4. Len(w) \in Nat /\ o + n \in 0 .. Len(w)
  BY <1>0, <1>3 DEF Larger
<1>5. /\ v \in Seq(V) /\ Len(v) = Larger(Len(w), o + n + Len(y))
      /\ \A i \in 1 .. Len(v) : v[i] = IF o + n < i /\ i <= o + n + Len(y) THEN y[i - (o + n)] ELSE w[i]
  <2>1. Overlaid(V, v, w, o + n, y)
    BY <1>2, <1>3, <1>4, WrittenIs
  <2> QED BY <2>1 DEF Overlaid
<1>6. /\ u \in Seq(V) /\ Len(u) = Larger(Len(s), o + Len(b))
      /\ \A i \in 1 .. Len(u) : u[i] = IF o < i /\ i <= o + Len(b) THEN b[i - o] ELSE s[i]
  <2>1. Overlaid(V, u, s, o, b)
    BY WrittenIs
  <2> QED BY <2>1 DEF Overlaid
<1> HIDE DEF u, v
<1>7. Len(v) = Len(u) /\ Len(u) \in Nat
  <2>1. o + n + Len(y) = o + Len(b) /\ Len(w) \in Nat
    BY <1>0, <1>2, <1>3
  <2>2. Larger(Larger(Len(s), o + n), o + Len(b)) = Larger(Len(s), o + Len(b))
    BY <1>0 DEF Larger
  <2>3. Larger(Len(s), o + Len(b)) \in Nat
    BY <1>0 DEF Larger
  <2> QED BY <1>3, <1>5, <1>6, <2>1, <2>2, <2>3
<1>8. ASSUME NEW i \in 1 .. Len(u) PROVE v[i] = u[i]
  <2>1. CASE o + n < i /\ i <= o + Len(b)
    <3>1. i - (o + n) \in 1 .. Len(b) - n /\ n + (i - (o + n)) = i - o
      BY <1>0, <1>7, <2>1
    <3>2. v[i] = y[i - (o + n)]
      <4>1. i \in 1 .. Len(v) /\ o + n < i /\ i <= o + n + Len(y)
        BY <1>0, <1>2, <1>7, <2>1
      <4> QED BY <1>5, <4>1
    <3>4. y[i - (o + n)] = b[i - o]
      <4>1. PICK k \in 1 .. Len(b) - n : k = i - (o + n) /\ n + k = i - o
        BY <3>1
      <4>2. y[k] = b[n + k]
        BY <1>2
      <4> QED BY <4>1, <4>2, Zenon
    <3>3. u[i] = b[i - o]
      BY <1>0, <1>6, <1>7, <2>1
    <3> QED BY <3>2, <3>3, <3>4
  <2>2. CASE ~(o + n < i /\ i <= o + Len(b))
    <3>1. v[i] = w[i]
      BY <1>0, <1>2, <1>5, <1>7, <2>2
    <3>2. i \in 1 .. Len(w)
      BY <1>0, <1>3, <1>6, <1>7, <2>2 DEF Larger
    <3>3. i <= o + n <=> i <= o + Len(b)
      BY <1>0, <1>7, <2>2
    <3> QED BY <1>3, <1>6, <3>1, <3>2, <3>3
  <2> QED BY <2>1, <2>2
<1>9. v = u
  BY <1>5, <1>6, <1>7, <1>8, SeqEqual
<1> QED BY <1>3, <1>4, <1>9 DEF u, v, y


\* The block of the byte at i of a file, and its place in it.
LEMMA ByteIsIn ==
    ASSUME NEW m \in Nat, NEW n \in Nat, m <= Start(n), NEW x \in 0 .. m - 1
    PROVE  /\ x \div BlockSize \in 0 .. n - 1
           /\ x % BlockSize \in 0 .. BlockSize - 1
           /\ x = Start(x \div BlockSize) + (x % BlockSize)
           /\ (x % BlockSize) + 1 <= Chunk(m, x \div BlockSize)
<1>1. PICK B \in Nat \ {0} : B = BlockSize
  BY BoundsAssumption
<1>0. x \in Nat /\ x < m
  OBVIOUS
<1>2. PICK q \in Nat : q = x \div B
  BY <1>0, Division
<1>3. PICK r \in 0 .. B - 1 : r = x % B
  BY <1>0, Division
<1>4. x = Start(q) + r /\ Start(q) \in Nat /\ Start(n) \in Nat
  BY <1>0, <1>1, <1>2, <1>3, Division, StartIs DEF Start
<1>5. q < n
  <2>1. n < q => Start(n) + BlockSize <= Start(q)
    BY StartIs
  <2> QED BY <1>0, <1>1, <1>4, <2>1
<1>6. r + 1 <= Chunk(m, q)
  BY <1>0, <1>1, <1>4 DEF Chunk, Smaller
<1> QED BY <1>1, <1>2, <1>3, <1>4, <1>5, <1>6

\* The byte at i of a file with those blocks, when the blocks hold d.
ByteOf(d, blocks, i) ==
    LET k == (i \div BlockSize) + 1
        o == (i % BlockSize) + 1 IN
    IF k <= Len(blocks) /\ o <= Len(d[blocks[k]]) THEN d[blocks[k]][o] ELSE 0

\* The bytes that blocks carry are those that are found in them.
LEMMA CarriesBytes ==
    ASSUME NEW c \in Seq(Values), NEW bl \in Seq(Blocks), NEW d, Carries(d, bl, c)
    PROVE  [i \in 1 .. Len(c) |-> ByteOf(d, bl, i - 1)] = c
<1>1. Len(c) \in Nat /\ Len(bl) \in Nat /\ c = [i \in 1 .. Len(c) |-> c[i]]
  BY LenProperties
<1>2. ASSUME NEW i \in 1 .. Len(c) PROVE ByteOf(d, bl, i - 1) = c[i]
  <2>1. PICK q : q = (i - 1) \div BlockSize
    OBVIOUS
  <2>2. PICK r : r = (i - 1) % BlockSize
    OBVIOUS
  <2>3. i - 1 \in 0 .. Len(c) - 1
    BY <1>1
  <2>4. /\ q \in 0 .. Len(bl) - 1 /\ r \in 0 .. BlockSize - 1
        /\ i - 1 = Start(q) + r /\ r + 1 <= Chunk(Len(c), q)
    BY <1>1, <2>1, <2>2, <2>3, ByteIsIn DEF Carries
  <2>5. q + 1 \in 1 .. Len(bl) /\ q \in Nat /\ Start(q) \in Nat /\ (q + 1) - 1 = q
    BY <1>1, <2>4, StartIs
  <2>6. IsChunk(d[bl[q + 1]], c, q)
    BY <2>5 DEF Carries
  <2>7. r + 1 \in 1 .. Len(d[bl[q + 1]])
    BY <2>4, <2>6, LenProperties DEF IsChunk
  <2>8. d[bl[q + 1]][r + 1] = c[Start(q) + (r + 1)]
    BY <2>6, <2>7 DEF IsChunk
  <2>9. Start(q) + (r + 1) = i
    BY <2>4, <2>5
  <2>10. ByteOf(d, bl, i - 1) = d[bl[q + 1]][r + 1]
    BY <2>1, <2>2, <2>4, <2>5, <2>7, <1>1 DEF ByteOf
  <2> QED BY <2>8, <2>9, <2>10
<1> QED BY <1>1, <1>2

\* What blocks carry depends on their own bytes only.
LEMMA CarriesStays ==
    ASSUME NEW c, NEW bl, NEW d, NEW e, Carries(d, bl, c),
           \A k \in 1 .. Len(bl) : e[bl[k]] = d[bl[k]]
    PROVE  Carries(e, bl, c)
BY DEF Carries

\* A block that begins where a file ends, or after, has nothing of it.
LEMMA EmptyChunk ==
    ASSUME NEW c \in Seq(Values), NEW k \in Nat, Len(c) <= Start(k)
    PROVE  IsChunk(<<>>, c, k)
<1>1. <<>> \in Seq(Values) /\ Len(<<>>) = 0 /\ Len(c) \in Nat
  BY EmptySeq, LenProperties
<1>2. Chunk(Len(c), k) = 0
  BY <1>1, ChunkIs
<1> QED BY <1>1, <1>2 DEF IsChunk

\* Blocks that are empty follow those that carry c.
LEMMA CarriesMore ==
    ASSUME NEW c \in Seq(Values), NEW bl \in Seq(Blocks), NEW more \in Seq(Blocks), NEW d,
           Carries(d, bl, c), \A k \in 1 .. Len(more) : d[more[k]] = <<>>
    PROVE  Carries(d, bl \o more, c)
<1>1. /\ Len(c) \in Nat /\ Len(bl) \in Nat /\ Len(more) \in Nat /\ BlockSize \in Nat
      /\ Start(Len(bl)) \in Nat /\ Len(c) <= Start(Len(bl))
  BY LenProperties, BoundsAssumption, StartIs DEF Carries
<1>2. /\ Len(bl \o more) = Len(bl) + Len(more)
      /\ \A k \in 1 .. Len(bl) + Len(more) :
           (bl \o more)[k] = IF k <= Len(bl) THEN bl[k] ELSE more[k - Len(bl)]
  BY ConcatProperties
<1>3. ASSUME NEW n \in Nat, n >= Len(bl) PROVE Len(c) <= Start(n)
  <2>1. Len(bl) < n => Start(Len(bl)) + BlockSize <= Start(n)
    BY <1>1, StartIs
  <2>2. Start(n) \in Nat
    BY StartIs
  <2> QED BY <1>1, <1>3, <2>1, <2>2
<1>4. Len(bl) + Len(more) \in Nat /\ Len(bl) + Len(more) >= Len(bl)
  BY <1>1
<1>5. Len(c) <= Start(Len(bl) + Len(more))
  BY <1>3, <1>4
<1>6. ASSUME NEW k \in 1 .. Len(bl) + Len(more) PROVE IsChunk(d[(bl \o more)[k]], c, k - 1)
  <2>1. CASE k <= Len(bl)
    <3>1. (bl \o more)[k] = bl[k] /\ k \in 1 .. Len(bl)
      BY <1>1, <1>2, <2>1
    <3> QED BY <3>1 DEF Carries
  <2>2. CASE k > Len(bl)
    <3>1. k - Len(bl) \in 1 .. Len(more) /\ k - 1 \in Nat /\ k - 1 >= Len(bl)
      BY <1>1, <2>2
    <3>2. (bl \o more)[k] = more[k - Len(bl)]
      BY <1>1, <1>2, <2>2
    <3>3. IsChunk(<<>>, c, k - 1)
      BY <1>3, <3>1, EmptyChunk
    <3> QED BY <3>1, <3>2, <3>3
  <2> QED BY <1>1, <2>1, <2>2
<1> QED BY <1>2, <1>5, <1>6 DEF Carries


\* What FIFA_BlockPutContent leaves in the block it writes to.
LEMMA PutChunk ==
    ASSUME NEW c \in Seq(Values), NEW k \in Nat, NEW x, IsChunk(x, c, k),
           NEW from \in Nat, NEW s \in Seq(Values), s # <<>>, from + Len(s) <= BlockSize,
           Start(k) + from <= Len(c)
    PROVE  IsChunk(PutContent(x, from, s), Store!Written(c, Start(k) + from, s), k)
<1> DEFINE w == Store!Written(c, Start(k) + from, s)
           y == PutContent(x, from, s)
<1>1. /\ Len(c) \in Nat /\ Len(s) \in Nat /\ Len(s) > 0 /\ x \in Seq(Values) /\ Len(x) \in Nat
      /\ Start(k) \in Nat /\ BlockSize \in Nat
  BY LenProperties, EmptySeq, StartIs, BoundsAssumption DEF IsChunk
<1>2. Overlaid(Values, w, c, Start(k) + from, s)
  <2>1. Start(k) + from \in 0 .. Len(c)
    BY <1>1
  <2> QED BY <2>1, WrittenIs
<1>3. Len(x) = Chunk(Len(c), k) /\ \A o \in 1 .. Len(x) : x[o] = c[Start(k) + o]
  BY DEF IsChunk
<1>4. Larger(Len(x), from + Len(s)) \in Nat
  BY <1>1 DEF Larger
<1>5. y = [i \in 1 .. Larger(Len(x), from + Len(s)) |->
             IF from < i /\ i <= from + Len(s) THEN s[i - from]
             ELSE IF i <= Len(x) THEN x[i] ELSE 0]
  BY DEF PutContent
<1>6. /\ DOMAIN y = 1 .. Larger(Len(x), from + Len(s))
      /\ \A i \in 1 .. Larger(Len(x), from + Len(s)) :
           y[i] = IF from < i /\ i <= from + Len(s) THEN s[i - from]
                  ELSE IF i <= Len(x) THEN x[i] ELSE 0
  BY <1>5
<1> HIDE DEF y, w
<1>7. y \in Seq(Values) /\ Len(y) = Larger(Len(x), from + Len(s))
  <2>1. ASSUME NEW i \in 1 .. Larger(Len(x), from + Len(s)) PROVE y[i] \in Values
    <3>1. CASE from < i /\ i <= from + Len(s)
      <4>1. i - from \in 1 .. Len(s) /\ y[i] = s[i - from]
        BY <1>1, <1>4, <1>6, <3>1
      <4> QED BY <4>1, ElementOfSeq
    <3>2. CASE ~(from < i /\ i <= from + Len(s)) /\ i <= Len(x)
      <4>1. i \in 1 .. Len(x) /\ y[i] = x[i]
        BY <1>1, <1>4, <1>6, <3>2
      <4> QED BY <1>1, <4>1, ElementOfSeq
    <3>3. CASE ~(from < i /\ i <= from + Len(s)) /\ ~(i <= Len(x))
      <4>1. y[i] = 0
        BY <1>6, <3>3
      <4> QED BY <4>1 DEF Values
    <3> QED BY <3>1, <3>2, <3>3
  <2>2. y \in [1 .. Larger(Len(x), from + Len(s)) -> Values]
    BY <1>5, <1>6, <2>1 DEF y
  <2>3. y \in Seq(Values)
    BY <1>4, <2>2, SeqDef
  <2> QED BY <1>4, <1>6, <2>3, LenProperties
<1>8. from <= Len(x)
  BY <1>1, <1>3, ChunkIs DEF Chunk, Smaller
<1>9. Len(y) = Chunk(Len(w), k)
  <2>1. Len(w) = Larger(Len(c), Start(k) + from + Len(s))
    BY <1>2 DEF Overlaid
  <2> QED BY <1>1, <1>3, <1>7, <2>1 DEF Larger, Chunk, Smaller
<1>10. ASSUME NEW o \in 1 .. Len(y) PROVE y[o] = w[Start(k) + o] 
  <2>1. Start(k) + o \in 1 .. Len(w)
    <3>1. Start(k) + o <= Larger(Len(c), Start(k) + from + Len(s))
      BY <1>1, <1>3, <1>7 DEF Larger, Chunk, Smaller
    <3> QED BY <1>1, <1>2, <3>1 DEF Overlaid
  <2>2. PICK i \in 1 .. Len(w) : i = Start(k) + o
    BY <2>1
  <2>3. w[i] = IF Start(k) + from < i /\ i <= Start(k) + from + Len(s)
                 THEN s[i - (Start(k) + from)] ELSE c[i]
    BY <1>2 DEF Overlaid
  <2>4. CASE from < o /\ o <= from + Len(s)
    <3>1. i - (Start(k) + from) = o - from
      BY <1>1, <2>2
    <3>2. Start(k) + from < i /\ i <= Start(k) + from + Len(s)
      BY <1>1, <2>2, <2>4
    <3>3. w[i] = s[o - from]
      BY <2>3, <3>1, <3>2
    <3>4. y[o] = s[o - from]
      BY <1>6, <1>7, <2>4
    <3> QED BY <2>2, <3>3, <3>4
  <2>5. CASE ~(from < o /\ o <= from + Len(s))
    <3>1. o \in 1 .. Len(x)
      BY <1>1, <1>7, <1>8, <2>5 DEF Larger
    <3>2. ~(Start(k) + from < i /\ i <= Start(k) + from + Len(s))
      BY <1>1, <2>2, <2>5
    <3>3. w[i] = c[i]
      BY <2>3, <3>2
    <3>4. y[o] = x[o]
      BY <1>6, <1>7, <2>5, <3>1
    <3> QED BY <1>3, <2>2, <3>1, <3>3, <3>4
  <2> QED BY <2>4, <2>5
<1> QED BY <1>7, <1>9, <1>10 DEF IsChunk, y, w

\* What is written to a block leaves the others as they were.
LEMMA OtherChunk ==
    ASSUME NEW c \in Seq(Values), NEW k \in Nat, NEW m \in Nat, m # k, NEW x, IsChunk(x, c, m),
           NEW from \in Nat, NEW s \in Seq(Values), s # <<>>, from + Len(s) <= BlockSize,
           Start(k) + from <= Len(c)
    PROVE  IsChunk(x, Store!Written(c, Start(k) + from, s), m)
<1> DEFINE w == Store!Written(c, Start(k) + from, s)
<1>1. /\ Len(c) \in Nat /\ Len(s) \in Nat /\ Len(s) > 0 /\ x \in Seq(Values) /\ Len(x) \in Nat
      /\ Start(k) \in Nat /\ Start(m) \in Nat /\ BlockSize \in Nat
  BY LenProperties, EmptySeq, StartIs, BoundsAssumption DEF IsChunk
<1>2. Overlaid(Values, w, c, Start(k) + from, s)
  <2>1. Start(k) + from \in 0 .. Len(c)
    BY <1>1
  <2> QED BY <2>1, WrittenIs
<1>3. Len(x) = Chunk(Len(c), m) /\ \A o \in 1 .. Len(x) : x[o] = c[Start(m) + o]
  BY DEF IsChunk
<1>4. Start(m) + BlockSize <= Start(k) \/ Start(k) + BlockSize <= Start(m)
  <2>1. m < k \/ k < m
    OBVIOUS
  <2> QED BY <2>1, StartIs
<1> HIDE DEF w
<1>5. Len(w) = Larger(Len(c), Start(k) + from + Len(s)) /\ Len(w) \in Nat
  BY <1>2 DEF Overlaid
<1>6. Chunk(Len(w), m) = Chunk(Len(c), m)
  <2>1. CASE Len(w) = Len(c)
    BY <2>1
  <2>2. CASE Len(w) # Len(c)
    <3>1. Len(w) = Start(k) + from + Len(s) /\ Len(c) <= Len(w)
      BY <1>1, <1>5, <2>2 DEF Larger
    <3>2. CASE Start(m) + BlockSize <= Start(k)
      <4>1. Len(c) >= Start(m) + BlockSize /\ Len(w) >= Start(m) + BlockSize
        BY <1>1, <1>5, <3>1, <3>2
      <4> QED BY <1>1, <1>5, <4>1, ChunkIs
    <3>3. CASE Start(k) + BlockSize <= Start(m)
      <4>1. Len(c) <= Start(m) /\ Len(w) <= Start(m)
        BY <1>1, <1>5, <3>1, <3>3
      <4> QED BY <1>1, <1>5, <4>1, ChunkIs
    <3> QED BY <1>4, <3>2, <3>3
  <2> QED BY <2>1, <2>2
<1>7. ASSUME NEW o \in 1 .. Len(x) PROVE w[Start(m) + o] = c[Start(m) + o]
  <2>1. Start(m) + o <= Len(c) /\ o <= BlockSize
    BY <1>1, <1>3 DEF Chunk, Smaller
  <2>2. Start(m) + o \in 1 .. Len(w)
    BY <1>1, <1>5, <2>1 DEF Larger
  <2>3. ~(Start(k) + from < Start(m) + o /\ Start(m) + o <= Start(k) + from + Len(s))
    BY <1>1, <1>4, <2>1
  <2> QED BY <1>2, <2>2, <2>3 DEF Overlaid
<1> QED BY <1>1, <1>3, <1>6, <1>7 DEF IsChunk, w

\* Writing to one block, where the file ends or before, writes the bytes of the file.
LEMMA CarriesPut ==
    ASSUME NEW c \in Seq(Values), NEW bl \in Seq(Blocks), NEW d, DOMAIN d = Blocks, Carries(d, bl, c),
           \A i, m \in 1 .. Len(bl) : bl[i] = bl[m] => i = m,
           NEW k \in 0 .. Len(bl) - 1, NEW from \in Nat, NEW s \in Seq(Values), s # <<>>,
           from + Len(s) <= BlockSize, Start(k) + from <= Len(c),
           NEW e, e = [d EXCEPT ![bl[k + 1]] = PutContent(@, from, s)]
    PROVE  Carries(e, bl, Store!Written(c, Start(k) + from, s))
<1> DEFINE w == Store!Written(c, Start(k) + from, s)
<1>1. /\ Len(bl) \in Nat /\ Len(c) \in Nat /\ Len(s) \in Nat /\ BlockSize \in Nat
      /\ k \in Nat /\ Start(k) \in Nat /\ Start(Len(bl)) \in Nat
  BY LenProperties, StartIs, BoundsAssumption
<1>2. k + 1 \in 1 .. Len(bl) /\ bl[k + 1] \in Blocks
  BY <1>1, ElementOfSeq
<1>3. e[bl[k + 1]] = PutContent(d[bl[k + 1]], from, s)
  BY <1>2
<1>4. ASSUME NEW m \in 1 .. Len(bl), m # k + 1 PROVE e[bl[m]] = d[bl[m]]
  <2>1. bl[m] \in Blocks /\ bl[m] # bl[k + 1]
    BY <1>2, <1>4, ElementOfSeq
  <2> QED BY <2>1
<1>5. Overlaid(Values, w, c, Start(k) + from, s)
  <2>1. Start(k) + from \in 0 .. Len(c)
    BY <1>1
  <2> QED BY <2>1, WrittenIs
<1> HIDE DEF w
<1>6. Len(w) <= Start(Len(bl))
  <2>1. Len(w) = Larger(Len(c), Start(k) + from + Len(s))
    BY <1>5 DEF Overlaid
  <2>2. Start(k) + BlockSize <= Start(Len(bl))
    BY <1>1, StartIs
  <2>3. Len(c) <= Start(Len(bl))
    BY DEF Carries
  <2> QED BY <1>1, <2>1, <2>2, <2>3 DEF Larger
<1>7. ASSUME NEW m \in 1 .. Len(bl) PROVE IsChunk(e[bl[m]], w, m - 1)
  <2>1. IsChunk(d[bl[m]], c, m - 1) /\ m - 1 \in Nat
    BY DEF Carries
  <2>2. CASE m = k + 1
    <3>1. m - 1 = k
      BY <1>1, <2>2
    <3>2. IsChunk(PutContent(d[bl[k + 1]], from, s), w, k)
      BY <1>1, <2>1, <2>2, <3>1, PutChunk DEF w
    <3> QED BY <1>3, <2>2, <3>1, <3>2
  <2>3. CASE m # k + 1
    <3>1. m - 1 # k
      BY <1>1, <2>3
    <3>2. IsChunk(d[bl[m]], w, m - 1)
      BY <1>1, <2>1, <3>1, OtherChunk DEF w
    <3> QED BY <1>4, <2>3, <3>2
  <2> QED BY <2>2, <2>3
<1> QED BY <1>6, <1>7 DEF Carries, w

\* Some numbers have a least one.
Below == {p \in Nat \X Nat : p[1] < p[2]}

\* Some numbers have a least one.
LEMMA LeastOf ==
    ASSUME NEW T, T \subseteq Nat, T # {}
    PROVE  \E x \in T : \A y \in T : x <= y
<1>1. IsWellFoundedOn(Below, Nat)
  <2>1. Below = OpToRel(<, Nat)
    BY Zenon DEF OpToRel, Below
  <2> QED BY <2>1, NatLessThanWellFounded, Zenon
<1>2. PICK x \in T : \A y \in T : <<y, x>> \notin Below
  BY <1>1, WFMin
<1>3. ASSUME NEW y \in T PROVE x <= y
  <2>1. x \in Nat /\ y \in Nat
    OBVIOUS
  <2>2. y < x => <<y, x>> \in Below
    BY <2>1 DEF Below
  <2> QED BY <1>2, <2>1, <2>2
<1> QED BY <1>3

\* Two parts of a sequence, one after the other, are a part of it.
LEMMA PartsJoin ==
    ASSUME NEW V, NEW s \in Seq(V), NEW a \in Nat, NEW b \in Nat, NEW e \in Nat,
           a <= b, b <= e, e <= Len(s)
    PROVE  SubSeq(s, a + 1, b) \o SubSeq(s, b + 1, e) = SubSeq(s, a + 1, e)
<1> DEFINE x == SubSeq(s, a + 1, b)
           y == SubSeq(s, b + 1, e)
           z == SubSeq(s, a + 1, e)
<1>0. Len(s) \in Nat
  BY LenProperties
<1>1. x \in Seq(V) /\ Len(x) = b - a /\ \A i \in 1 .. b - a : x[i] = s[a + i]
  <2>1. /\ x \in Seq(V) /\ Len(x) = (IF a + 1 <= b THEN b - (a + 1) + 1 ELSE 0)
        /\ \A i \in 1 .. b - (a + 1) + 1 : x[i] = s[a + 1 + i - 1]
    BY <1>0, PartOf
  <2> QED BY <2>1
<1>2. y \in Seq(V) /\ Len(y) = e - b /\ \A i \in 1 .. e - b : y[i] = s[b + i]
  <2>1. /\ y \in Seq(V) /\ Len(y) = (IF b + 1 <= e THEN e - (b + 1) + 1 ELSE 0)
        /\ \A i \in 1 .. e - (b + 1) + 1 : y[i] = s[b + 1 + i - 1]
    BY <1>0, PartOf
  <2> QED BY <2>1
<1>3. z \in Seq(V) /\ Len(z) = e - a /\ \A i \in 1 .. e - a : z[i] = s[a + i]
  <2>1. /\ z \in Seq(V) /\ Len(z) = (IF a + 1 <= e THEN e - (a + 1) + 1 ELSE 0)
        /\ \A i \in 1 .. e - (a + 1) + 1 : z[i] = s[a + 1 + i - 1]
    BY <1>0, PartOf
  <2> QED BY <2>1
<1> HIDE DEF x, y, z
<1>4. x \in Seq(V) /\ y \in Seq(V)
  BY <1>1, <1>2
<1>5. /\ x \o y \in Seq(V) /\ Len(x \o y) = Len(x) + Len(y)
      /\ \A i \in 1 .. Len(x) + Len(y) : (x \o y)[i] = IF i <= Len(x) THEN x[i] ELSE y[i - Len(x)]
  BY <1>4, ConcatProperties
<1>6. Len(x \o y) = Len(z) /\ Len(z) \in Nat
  BY <1>1, <1>2, <1>3, <1>5
<1>7. ASSUME NEW i \in 1 .. Len(z) PROVE (x \o y)[i] = z[i]
  <2>1. CASE i <= b - a
    <3>1. (x \o y)[i] = x[i] /\ x[i] = s[a + i]
      BY <1>1, <1>5, <1>6, <2>1
    <3> QED BY <1>3, <1>6, <3>1
  <2>2. CASE i > b - a
    <3>1. i - (b - a) \in 1 .. e - b /\ b + (i - (b - a)) = a + i
      BY <1>3, <1>6, <2>2
    <3>2. (x \o y)[i] = y[i - (b - a)] /\ y[i - (b - a)] = s[a + i]
      BY <1>1, <1>2, <1>5, <1>6, <2>2, <3>1
    <3> QED BY <1>3, <1>6, <3>2
  <2> QED BY <1>3, <1>6, <2>1, <2>2
<1> QED BY <1>3, <1>5, <1>6, <1>7, SeqEqual DEF x, y, z

\* A part of a block is a part of the file.
SamePart(s, c, k, f, to) == SubSeq(s, f + 1, to) = SubSeq(c, Start(k) + f + 1, Start(k) + to)

\* A part of what a block has is a part of the bytes of the file, from where the block begins.
LEMMA ChunkPart ==
    ASSUME NEW c \in Seq(Values), NEW k \in Nat, NEW s, IsChunk(s, c, k),
           NEW f \in Nat, NEW to \in Nat, to <= Len(s)
    PROVE  SamePart(s, c, k, f, to)
<1> DEFINE x == SubSeq(s, f + 1, to)
           y == SubSeq(c, Start(k) + f + 1, Start(k) + to)
<1> SUFFICES x = y
  BY Zenon DEF SamePart
<1>0. /\ Len(c) \in Nat /\ Len(s) \in Nat /\ s \in Seq(Values) /\ Start(k) \in Nat
      /\ BlockSize \in Nat /\ Len(s) = Chunk(Len(c), k)
  BY LenProperties, StartIs, BoundsAssumption DEF IsChunk
<1>1. CASE to <= f
  <2>1. to < f + 1 /\ Start(k) + to < Start(k) + f + 1
    BY <1>0, <1>1
  <2> QED BY <1>0, <2>1, SubSeqEmpty
<1>2. CASE f < to
  <2>1. Start(k) + to <= Len(c)
    BY <1>0, <1>2 DEF Chunk, Smaller
  <2>2. /\ x \in Seq(Values) /\ Len(x) = (IF f + 1 <= to THEN to - (f + 1) + 1 ELSE 0)
        /\ \A i \in 1 .. to - (f + 1) + 1 : x[i] = s[f + 1 + i - 1]
    BY <1>0, PartOf
  <2> DEFINE p == Start(k) + f + 1
             q == Start(k) + to
  <2>3. p \in Nat /\ q \in Nat /\ 1 <= p /\ q <= Len(c) /\ p <= q /\ q - p + 1 = to - f
    BY <1>0, <1>2, <2>1
  <2>7. \A i \in 1 .. to - f : p + i - 1 = Start(k) + (f + i)
    BY <1>0
  <2> HIDE DEF p, q
  <2>8. /\ SubSeq(c, p, q) \in Seq(Values)
        /\ Len(SubSeq(c, p, q)) = (IF p <= q THEN q - p + 1 ELSE 0)
        /\ \A i \in 1 .. q - p + 1 : SubSeq(c, p, q)[i] = c[p + i - 1]
    BY <2>3, PartOf
  <2>9. y = SubSeq(c, p, q)
    BY DEF p, q
  <2> HIDE DEF x, y
  <2>4. Len(x) = to - f /\ Len(y) = to - f
    BY <1>0, <1>2, <2>2, <2>3, <2>8, <2>9
  <2>5. ASSUME NEW i \in 1 .. to - f PROVE x[i] = y[i]
    <3>1. i \in 1 .. to - (f + 1) + 1 /\ f + 1 + i - 1 = f + i /\ f + i \in 1 .. Len(s)
      BY <1>0, <1>2
    <3>2. x[i] = s[f + 1 + i - 1]
      BY <2>2, <3>1
    <3>3. x[i] = s[f + i] /\ f + i \in 1 .. Len(s)
      BY <3>1, <3>2, Zenon
    <3>4. y[i] = c[Start(k) + (f + i)]
      BY <2>3, <2>7, <2>8, <2>9
    <3>5. s[f + i] = c[Start(k) + (f + i)]
      BY <3>3 DEF IsChunk
    <3> QED BY <3>3, <3>4, <3>5
  <2> QED BY <2>2, <2>4, <2>5, <2>8, <2>9, SeqEqual DEF x, y
<1> QED BY <1>0, <1>1, <1>2

-----------------------------------------------------------------------------
\* The position from which block i is read, the bytes asked for until it, and what is
\* copied until each block, as FIFA_ReadFile does, from f, what was copied until the one before.
From(offset, i) == IF i = FirstBlock(offset) THEN FIFA_GetFirstByteFromOffset(offset) ELSE 0
Asked(offset, i) == (i - FirstBlock(offset) + 1) * BlockSize - FIFA_GetFirstByteFromOffset(offset)
Taken(s, offset, n, i, before) ==
    LET tam == IF Asked(offset, i) > n THEN n - Len(before) ELSE BlockSize - From(offset, i) IN
    SubSeq(s, From(offset, i) + 1, Smaller(From(offset, i) + tam, Len(s)))
Copying(bl, offset, n, f) ==
    [i \in FirstBlock(offset) - 1 .. Len(bl) - 1 |->
       IF i < FirstBlock(offset) THEN <<>>
       ELSE f[i - 1] \o Taken(data[bl[i + 1]], offset, n, i, f[i - 1])]

\* Where what is copied until block i ends.
CopyEnd(m, offset, n, i) == Smaller(Smaller(Start(i + 1), offset + n), m)

\* What is asked for until block i ends with it.
LEMMA AskedIs ==
    ASSUME NEW offset \in Nat, NEW i \in Nat, i >= FirstBlock(offset)
    PROVE  offset + Asked(offset, i) = Start(i + 1) /\ Asked(offset, i) \in Int
<1>1. PICK B \in Nat \ {0} : B = BlockSize
  BY BoundsAssumption
<1>2. PICK f \in Nat : f = FirstBlock(offset)
  BY FirstBlockIs
<1>3. PICK r \in Nat : r = FIFA_GetFirstByteFromOffset(offset)
  BY FirstBlockIs
<1>4. offset = f * B + r
  BY <1>1, <1>2, <1>3, FirstBlockIs DEF Start
<1>5. (i - f + 1) * B = (i + 1) * B - f * B /\ f * B \in Int /\ (i + 1) * B \in Int
  OBVIOUS
<1> QED BY <1>1, <1>2, <1>3, <1>4, <1>5 DEF Asked, Start

\* The same, of numbers: of m bytes, n are asked for from offset on; block i has l of
\* them, and those before E have been copied.  What is copied of the block is from f to e.
TakesUntil(m, offset, n, i) ==
    LET E == CopyEnd(m, offset, n, i - 1)
        F == CopyEnd(m, offset, n, i)
        S == Start(i)
        f == From(offset, i)
        l == Chunk(m, i)
        b == IF offset < E THEN E - offset ELSE 0
        g == IF Asked(offset, i) > n THEN n - b ELSE BlockSize - f
        e == Smaller(f + g, l) IN
    /\ E \in Nat /\ F \in Nat /\ S \in Nat /\ f \in Nat /\ e \in Nat
    /\ E <= m /\ F <= m /\ e <= l
    /\ e <= f => F = E \/ (F <= offset /\ E <= offset)
    /\ f < e => /\ F = S + e /\ offset <= S + f
                /\ E = S + f \/ (E <= offset /\ offset = S + f)

\* What is asked of a block ends where the block does, or where the reading ends.
LEMMA TakenEnds ==
    ASSUME NEW m \in Nat, NEW offset \in Nat, offset <= m, NEW n \in Nat,
           NEW i \in Nat, i >= FirstBlock(offset)
    PROVE  TakesUntil(m, offset, n, i)
<1> DEFINE E == CopyEnd(m, offset, n, i - 1)
           F == CopyEnd(m, offset, n, i)
           S == Start(i)
           f == From(offset, i)
           l == Chunk(m, i)
           b == IF offset < E THEN E - offset ELSE 0
           g == IF Asked(offset, i) > n THEN n - b ELSE BlockSize - f
           e == Smaller(f + g, l)
<1>0. /\ E = CopyEnd(m, offset, n, i - 1) /\ F = CopyEnd(m, offset, n, i)
      /\ S = Start(i) /\ f = From(offset, i) /\ l = Chunk(m, i)
      /\ g = IF Asked(offset, i) > n THEN n - b ELSE BlockSize - f
      /\ e = Smaller(f + g, l)
  OBVIOUS
<1>1. b = IF offset < E THEN E - offset ELSE 0
  OBVIOUS
<1> HIDE DEF E, F, S, f, l, b, g, e
<1>2. PICK B \in Nat \ {0} : B = BlockSize
  BY BoundsAssumption
<1>3. S \in Nat
  BY <1>0, StartIs
<1>4. Start(i + 1) = S + B
  BY <1>0, <1>2, <1>3, StartIs
<1>5. PICK A \in Int : A = Asked(offset, i) /\ offset + A = S + B
  BY <1>4, AskedIs
<1>7. PICK first \in Nat : first = FirstBlock(offset)
  BY FirstBlockIs
<1>8. f \in Nat /\ f < B /\ (i = first => S + f = offset) /\ (i # first => f = 0 /\ offset <= S)
  <2>0. PICK r \in Nat : r = FIFA_GetFirstByteFromOffset(offset) /\ r < B
    BY <1>2, FirstBlockIs
  <2>1. CASE i = first
    <3>1. f = r /\ offset = Start(first) + r
      BY <1>0, <1>7, <2>0, <2>1, FirstBlockIs DEF From
    <3> QED BY <1>0, <1>3, <1>7, <2>0, <2>1, <3>1
  <2>2. CASE i # first
    <3>1. first < i
      BY <1>7, <2>2
    <3>2. Start(first) + B <= S /\ Start(first) \in Nat
      BY <1>0, <1>2, <1>3, <3>1, StartIs
    <3>3. offset = Start(first) + r
      BY <1>7, <2>0, FirstBlockIs
    <3>4. offset <= S
      BY <1>3, <2>0, <3>2, <3>3
    <3>5. f = 0
      BY <1>0, <1>7, <2>2 DEF From
    <3> QED BY <1>2, <2>2, <3>4, <3>5
  <2> QED BY <2>1, <2>2
<1>9. /\ E \in Nat /\ E <= S /\ E <= offset + n /\ E <= m
      /\ E = S \/ E = offset + n \/ E = m
  <2>1. (i - 1) + 1 = i
    OBVIOUS
  <2> QED BY <1>0, <1>3, <2>1 DEF CopyEnd, Smaller
<1>10. /\ F \in Nat /\ F <= S + B /\ F <= offset + n /\ F <= m
       /\ F = S + B \/ F = offset + n \/ F = m
  BY <1>0, <1>3, <1>4 DEF CopyEnd, Smaller
<1>12. l = IF m <= S THEN 0 ELSE IF B < m - S THEN B ELSE m - S
  BY <1>0, <1>2 DEF Chunk, Smaller
<1>11. b \in Nat /\ l \in Nat
  BY <1>0, <1>1, <1>3, <1>9, <1>12
<1>13. g \in Nat /\ g = IF A > n THEN n - b ELSE B - f
  BY <1>0, <1>1, <1>2, <1>5, <1>8, <1>9, <1>11
<1>14. e \in Nat /\ e = IF f + g < l THEN f + g ELSE l
  BY <1>0, <1>8, <1>11, <1>13 DEF Smaller
<1>15. ASSUME e <= f PROVE F = E \/ (F <= offset /\ E <= offset)
  BY <1>1, <1>3, <1>5, <1>8, <1>9, <1>10, <1>11, <1>12, <1>13, <1>14, <1>15
<1>16. ASSUME f < e PROVE /\ F = S + e /\ offset <= S + f
                          /\ E = S + f \/ (E <= offset /\ offset = S + f)
  <2>1. S < m /\ l <= B /\ l <= m - S /\ (l = B \/ l = m - S) /\ g > 0
    BY <1>3, <1>8, <1>11, <1>12, <1>13, <1>14, <1>16
  <2>2. CASE i = first
    <3>1. S + f = offset /\ E <= offset /\ b = 0
      BY <1>0, <1>1, <1>3, <1>8, <1>9, <2>2
    <3>2. CASE A > n
      BY <1>3, <1>5, <1>8, <1>10, <1>11, <1>13, <1>14, <2>1, <3>1, <3>2
    <3>3. CASE ~(A > n)
      BY <1>3, <1>5, <1>8, <1>10, <1>11, <1>13, <1>14, <2>1, <3>1, <3>3
    <3> QED BY <3>2, <3>3
  <2>3. CASE i # first
    <3>1. f = 0 /\ offset <= S
      BY <1>0, <1>8, <2>3
    <3>2. CASE A > n
      <4>1. E = S /\ g = n + offset - S
        BY <1>1, <1>3, <1>5, <1>9, <1>11, <1>13, <2>1, <3>1, <3>2
      <4> QED BY <1>3, <1>5, <1>10, <1>11, <1>14, <2>1, <3>1, <3>2, <4>1
    <3>3. CASE ~(A > n)
      <4>1. E = S /\ g = B
        BY <1>1, <1>3, <1>5, <1>9, <1>11, <1>13, <2>1, <3>1, <3>3
      <4> QED BY <1>3, <1>5, <1>10, <1>11, <1>14, <2>1, <3>1, <3>3, <4>1
    <3> QED BY <3>2, <3>3
  <2> QED BY <2>2, <2>3
<1>17. /\ E \in Nat /\ F \in Nat /\ S \in Nat /\ f \in Nat /\ e \in Nat
       /\ E <= m /\ F <= m /\ e <= l
  BY <1>3, <1>8, <1>9, <1>10, <1>11, <1>14
<1> QED BY <1>15, <1>16, <1>17, Zenon DEF TakesUntil, E, F, S, f, l, b, g, e


\* What is copied of a block follows what was copied before.
Following(c, offset, n, i, s, before) ==
    before \o Taken(s, offset, n, i, before) = SubSeq(c, offset + 1, CopyEnd(Len(c), offset, n, i))

\* What is copied of a block goes on from what was copied of those before it.
LEMMA TakenFollows ==
    ASSUME NEW c \in Seq(Values), NEW offset \in Nat, offset <= Len(c), NEW n \in Nat,
           NEW i \in Nat, i >= FirstBlock(offset), NEW s, IsChunk(s, c, i),
           NEW before, before = SubSeq(c, offset + 1, CopyEnd(Len(c), offset, n, i - 1))
    PROVE  Following(c, offset, n, i, s, before)
<1> DEFINE m == Len(c)
           E == CopyEnd(m, offset, n, i - 1)
           F == CopyEnd(m, offset, n, i)
           S == Start(i)
           f == From(offset, i)
           l == Chunk(m, i)
           b == IF offset < E THEN E - offset ELSE 0
           g == IF Asked(offset, i) > n THEN n - b ELSE BlockSize - f
           e == Smaller(f + g, l)
           taken == Taken(s, offset, n, i, before)
<1>1. m \in Nat
  BY LenProperties
<1>2. /\ E \in Nat /\ F \in Nat /\ S \in Nat /\ f \in Nat /\ e \in Nat
      /\ E <= m /\ F <= m /\ e <= l
      /\ e <= f => F = E \/ (F <= offset /\ E <= offset)
      /\ f < e => /\ F = S + e /\ offset <= S + f
                  /\ E = S + f \/ (E <= offset /\ offset = S + f)
  <2>1. TakesUntil(m, offset, n, i)
    BY <1>1, TakenEnds
  <2> QED BY <2>1, Zenon DEF TakesUntil
<1>3. Len(s) = l
  BY DEF IsChunk
<1> HIDE DEF m, E, F, S, f, l
<1>4. /\ SubSeq(c, offset + 1, E) \in Seq(Values)
      /\ Len(SubSeq(c, offset + 1, E)) = IF offset + 1 <= E THEN E - (offset + 1) + 1 ELSE 0
  <2>1. offset + 1 \in Int /\ 1 <= offset + 1 /\ E \in Int /\ E <= Len(c)
    BY <1>2 DEF m
  <2> QED BY <2>1, PartOf
<1>5. before = SubSeq(c, offset + 1, E)
  BY DEF E, m
<1>6. before \in Seq(Values) /\ Len(before) = b
  <2>1. b = IF offset + 1 <= E THEN E - (offset + 1) + 1 ELSE 0
    BY <1>2
  <2> HIDE DEF b
  <2> QED BY <1>4, <1>5, <2>1
<1> HIDE DEF b
<1>7. taken = SubSeq(s, f + 1, e)
  BY <1>3, <1>6 DEF Taken, f
<1> HIDE DEF e, taken, g
<1>8. SubSeq(s, f + 1, e) = SubSeq(c, S + f + 1, S + e)
  <2>1. e <= Len(s)
    BY <1>2, <1>3
  <2>2. f \in Nat /\ e \in Nat
    BY <1>2
  <2>5. SamePart(s, c, i, f, e)
    BY <2>1, <2>2, ChunkPart
  <2>3. SubSeq(s, f + 1, e) = SubSeq(c, Start(i) + f + 1, Start(i) + e)
    BY <2>5, Zenon DEF SamePart
  <2>4. S = Start(i)
    BY DEF S
  <2> QED BY <2>3, <2>4, Zenon
<1>9. before \o <<>> = before
  BY <1>6, ConcatEmptySeq
<1>10. before \o taken = SubSeq(c, offset + 1, F)
  <2>1. CASE e <= f
    <3>1. taken = <<>>
      <4>1. e < f + 1 /\ f + 1 \in Int /\ e \in Int
        BY <1>2, <2>1
      <4> QED BY <1>7, <4>1, SubSeqEmpty
    <3>2. CASE F = E
      BY <1>5, <1>9, <3>1, <3>2, Zenon
    <3>3. CASE F <= offset /\ E <= offset
      <4>1. SubSeq(c, offset + 1, E) = <<>> /\ SubSeq(c, offset + 1, F) = <<>>
        <5>1. E < offset + 1 /\ F < offset + 1 /\ E \in Int /\ F \in Int /\ offset + 1 \in Int
          BY <1>2, <3>3
        <5> QED BY <5>1, SubSeqEmpty
      <4> QED BY <1>5, <1>9, <3>1, <4>1, Zenon
    <3> QED BY <1>2, <2>1, <3>2, <3>3, Zenon
  <2>2. CASE f < e
    <3>1. before = SubSeq(c, offset + 1, S + f)
      <4>1. CASE E = S + f
        BY <1>5, <4>1, Zenon
      <4>2. CASE E <= offset /\ offset = S + f
        <5>1. E < offset + 1 /\ S + f < offset + 1 /\ E \in Int /\ S + f \in Int /\ offset + 1 \in Int
          BY <1>2, <4>2
        <5>2. SubSeq(c, offset + 1, E) = <<>> /\ SubSeq(c, offset + 1, S + f) = <<>>
          BY <5>1, SubSeqEmpty
        <5> QED BY <1>5, <5>2, Zenon
      <4> QED BY <1>2, <2>2, <4>1, <4>2, Zenon
    <3>2. /\ S + f \in Nat /\ S + e \in Nat /\ offset <= S + f /\ S + f <= S + e /\ S + e <= Len(c)
          /\ F = S + e
      BY <1>2, <2>2 DEF m
    <3>3. SubSeq(c, offset + 1, S + f) \o SubSeq(c, S + f + 1, S + e) = SubSeq(c, offset + 1, S + e)
      BY <3>2, PartsJoin
    <3> QED BY <1>7, <1>8, <3>1, <3>2, <3>3, Zenon
  <2>3. e <= f \/ f < e
    BY <1>2
  <2> QED BY <2>1, <2>2, <2>3, Zenon
<1> QED BY <1>10, Zenon DEF Following, taken, F, m

\* What FIFA_ReadFile has copied is one thing.
LEMMA CopyingOne ==
    ASSUME NEW bl, Len(bl) \in Nat, NEW offset \in Nat, NEW n, NEW f, NEW g,
           f = Copying(bl, offset, n, f), g = Copying(bl, offset, n, g)
    PROVE  f = g
<1>1. PICK first \in Nat : first = FirstBlock(offset)
  BY FirstBlockIs
<1> DEFINE D == first - 1 .. Len(bl) - 1
           T == {i \in first .. Len(bl) - 1 : f[i] # g[i]}
           Y(h, i) == IF i < first THEN <<>>
                      ELSE h[i - 1] \o Taken(data[bl[i + 1]], offset, n, i, h[i - 1])
<1>2. f = [i \in D |-> Y(f, i)] /\ g = [i \in D |-> Y(g, i)]
  BY <1>1, Zenon DEF Copying
<1>3. ASSUME NEW i \in D PROVE f[i] = Y(f, i) /\ g[i] = Y(g, i)
  BY <1>2, Zenon
<1>4. T = {}
  <2>1. SUFFICES ASSUME T # {} PROVE FALSE
    OBVIOUS
  <2>2. T \subseteq Nat
    BY <1>1
  <2>3. PICK i \in T : \A y \in T : i <= y
    BY <2>1, <2>2, LeastOf
  <2>4. i \in D /\ i - 1 \in D /\ ~(i < first) /\ f[i] # g[i] /\ i \in Nat
    BY <1>1, <2>3
  <2>5. f[i - 1] = g[i - 1]
    <3>1. CASE i - 1 < first
      BY <1>3, <2>4, <3>1, Zenon
    <3>2. CASE i - 1 \in first .. Len(bl) - 1
      <4>1. i - 1 \notin T
        BY <2>3, <2>4
      <4> QED BY <3>2, <4>1
    <3> QED BY <1>1, <2>4, <3>1, <3>2
  <2>6. f[i] = Y(f, i) /\ g[i] = Y(g, i)
    BY <1>3, <2>4
  <2> QED BY <2>4, <2>5, <2>6, Zenon
<1>5. ASSUME NEW i \in D PROVE f[i] = g[i]
  <2>1. CASE i < first
    BY <1>3, <2>1, Zenon
  <2>2. CASE i \in first .. Len(bl) - 1
    BY <1>4, <2>2
  <2> QED BY <1>1, <2>1, <2>2
<1> HIDE DEF Y, D
<1> QED BY <1>2, <1>5, Zenon

\* What is copied until each block are the bytes of the file until there.
UntilBlock(bl, c, offset, n) ==
    [i \in FirstBlock(offset) - 1 .. Len(bl) - 1 |-> SubSeq(c, offset + 1, CopyEnd(Len(c), offset, n, i))]

\* The bytes of the file, up to the end of each block, satisfy the equation of the loop.
LEMMA CopyingIs ==
    ASSUME NEW c \in Seq(Values), NEW bl \in Seq(Blocks), Carries(data, bl, c),
           NEW offset \in Nat, offset <= Len(c), NEW n \in Nat,
           NEW w, w = UntilBlock(bl, c, offset, n)
    PROVE  w = Copying(bl, offset, n, w)
<1>1. PICK first \in Nat : first = FirstBlock(offset)
  BY FirstBlockIs
<1>2. Len(bl) \in Nat /\ Len(c) \in Nat
  BY LenProperties
<1> DEFINE D == first - 1 .. Len(bl) - 1
           X(i) == SubSeq(c, offset + 1, CopyEnd(Len(c), offset, n, i))
           Y(i) == IF i < first THEN <<>>
                   ELSE w[i - 1] \o Taken(data[bl[i + 1]], offset, n, i, w[i - 1])
<1>3. w = [i \in D |-> X(i)]
  BY <1>1, Zenon DEF UntilBlock
<1>4. ASSUME NEW i \in D PROVE X(i) = Y(i)
  <2>1. CASE i < first
    <3>1. i + 1 = first
      BY <1>1, <2>1
    <3>2. Start(first) \in Nat /\ Start(first) <= offset
      <4>1. PICK r \in Nat : r = FIFA_GetFirstByteFromOffset(offset)
        BY FirstBlockIs
      <4>2. offset = Start(first) + r
        BY <1>1, <4>1, FirstBlockIs
      <4>3. Start(first) \in Nat
        BY StartIs
      <4> QED BY <4>1, <4>2, <4>3
    <3> DEFINE E == CopyEnd(Len(c), offset, n, i)
    <3>3. E \in Int /\ E < offset + 1
      BY <1>2, <3>1, <3>2 DEF CopyEnd, Smaller
    <3> HIDE DEF E
    <3>4. SubSeq(c, offset + 1, E) = <<>>
      BY <3>3, SubSeqEmpty
    <3> QED BY <2>1, <3>4, Zenon DEF E
  <2>2. CASE ~(i < first)
    <3>1. i \in Nat /\ i >= FirstBlock(offset) /\ i - 1 \in D /\ i + 1 \in 1 .. Len(bl) /\ (i + 1) - 1 = i
      BY <1>1, <1>2, <2>2
    <3>2. IsChunk(data[bl[i + 1]], c, i)
      BY <3>1 DEF Carries
    <3>3. w[i - 1] = SubSeq(c, offset + 1, CopyEnd(Len(c), offset, n, i - 1))
      BY <1>3, <3>1, Zenon
    <3>4. w[i - 1] \o Taken(data[bl[i + 1]], offset, n, i, w[i - 1])
            = SubSeq(c, offset + 1, CopyEnd(Len(c), offset, n, i))
      <4>1. PICK x : x = w[i - 1]
        OBVIOUS
      <4>2. PICK s : s = data[bl[i + 1]]
        OBVIOUS
      <4>3. x = SubSeq(c, offset + 1, CopyEnd(Len(c), offset, n, i - 1)) /\ IsChunk(s, c, i)
        BY <3>2, <3>3, <4>1, <4>2, Zenon
      <4>4. Following(c, offset, n, i, s, x)
        BY <3>1, <4>3, TakenFollows
      <4> QED BY <4>1, <4>2, <4>4, Zenon DEF Following
    <3> QED BY <2>2, <3>4, Zenon
  <2> QED BY <2>1, <2>2
<1>5. w = [i \in D |-> Y(i)]
  <2> HIDE DEF X, Y, D
  <2> QED BY <1>3, <1>4, Zenon
<1> QED BY <1>1, <1>5, Zenon DEF Copying

\* What FIFA_ReadFile returns, from what it copies.
CopiedAll(bl, offset, n) == CHOOSE f : f = Copying(bl, offset, n, f)
Lasts(bl, offset, n) == {i \in FirstBlock(offset) .. Len(bl) - 1 : Asked(offset, i) >= n}

\* FIFA_ReadFile returns what was copied when it had all it was asked for.
LEMMA ReadFileAs ==
    ASSUME NEW bl, NEW offset, NEW n
    PROVE  ReadFile(bl, offset, n) =
             IF FirstBlock(offset) >= Len(bl) THEN <<>>
             ELSE IF Lasts(bl, offset, n) = {} THEN CopiedAll(bl, offset, n)[Len(bl) - 1]
             ELSE CopiedAll(bl, offset, n)[CHOOSE i \in Lasts(bl, offset, n) :
                                             \A k \in Lasts(bl, offset, n) : i <= k]
BY DEF ReadFile, CopiedAll, Lasts, Copying, Taken, From, Asked

\* What is read of a file are its bytes.
LEMMA ReadFileIs ==
    ASSUME NEW c \in Seq(Values), NEW bl \in Seq(Blocks), Carries(data, bl, c),
           NEW offset \in Nat, offset <= Len(c), NEW n \in Nat
    PROVE  ReadFile(bl, offset, n) = Store!Window(c, offset, n)
<1>1. PICK first \in Nat : first = FirstBlock(offset)
  BY FirstBlockIs
<1>2. Len(bl) \in Nat /\ Len(c) \in Nat /\ Len(c) <= Start(Len(bl)) /\ Start(Len(bl)) \in Nat
  BY LenProperties, StartIs DEF Carries
<1>3. PICK w : w = UntilBlock(bl, c, offset, n)
  OBVIOUS
<1>4. CopiedAll(bl, offset, n) = w
  <2>1. w = Copying(bl, offset, n, w)
    BY <1>3, CopyingIs
  <2>2. \A g : g = Copying(bl, offset, n, g) => g = w
    BY <1>2, <2>1, CopyingOne
  <2> QED BY <2>1, <2>2, Zenon DEF CopiedAll
<1> DEFINE L == Lasts(bl, offset, n)
           E == IF offset + n <= Len(c) THEN offset + n ELSE Len(c)
<1>5. Store!Window(c, offset, n) = SubSeq(c, offset + 1, E) /\ E \in Nat
  BY <1>2 DEF Store!Window
<1>6. \A i \in first - 1 .. Len(bl) - 1 : w[i] = SubSeq(c, offset + 1, CopyEnd(Len(c), offset, n, i))
  BY <1>1, <1>3, Zenon DEF UntilBlock
<1>7. CASE first >= Len(bl)
  <2>1. Len(c) <= offset
    <3>1. Start(Len(bl)) <= Start(first) /\ Start(first) \in Nat
      <4>1. Len(bl) < first => Start(Len(bl)) + BlockSize <= Start(first)
        BY <1>2, StartIs
      <4>2. Start(first) \in Nat /\ BlockSize \in Nat
        BY StartIs, BoundsAssumption
      <4> QED BY <1>2, <1>7, <4>1, <4>2
    <3>2. PICK r \in Nat : offset = Start(first) + r
      BY <1>1, FirstBlockIs
    <3> QED BY <1>2, <3>1, <3>2
  <2>2. E < offset + 1 /\ E \in Int /\ offset + 1 \in Int
    BY <1>2, <2>1
  <2> HIDE DEF E
  <2>3. SubSeq(c, offset + 1, E) = <<>>
    BY <2>2, SubSeqEmpty
  <2> QED BY <1>1, <1>5, <1>7, <2>3, ReadFileAs
<1>8. CASE first < Len(bl) /\ L = {}
  <2>1. ReadFile(bl, offset, n) = w[Len(bl) - 1]
    BY <1>1, <1>2, <1>4, <1>8, ReadFileAs
  <2>2. PICK i \in Nat : i = Len(bl) - 1 /\ i \in first .. Len(bl) - 1 /\ i \in first - 1 .. Len(bl) - 1 /\ i + 1 = Len(bl)
    <3>1. Len(bl) - 1 \in Nat /\ Len(bl) - 1 \in first .. Len(bl) - 1 /\ Len(bl) - 1 \in first - 1 .. Len(bl) - 1
          /\ (Len(bl) - 1) + 1 = Len(bl)
      BY <1>1, <1>2, <1>8
    <3> QED BY <3>1, Zenon
  <2>3. CopyEnd(Len(c), offset, n, i) = E
    <3>1. PICK A \in Int : A = Asked(offset, i) /\ offset + A = Start(i + 1)
      BY <1>1, <2>2, AskedIs
    <3>2. A < n
      BY <1>1, <1>8, <2>2, <3>1 DEF Lasts
    <3> QED BY <1>2, <2>2, <3>1, <3>2 DEF CopyEnd, Smaller
  <2> HIDE DEF E
  <2> QED BY <1>5, <1>6, <2>1, <2>2, <2>3, Zenon
<1>9. CASE first < Len(bl) /\ L # {}
  <2>1. L \subseteq Nat
    BY <1>1 DEF Lasts
  <2>2. PICK i : i = CHOOSE x \in L : \A k \in L : x <= k
    OBVIOUS
  <2>3. i \in L /\ i \in Nat
    <3>1. \E x \in L : \A k \in L : x <= k
      BY <1>9, <2>1, LeastOf
    <3> QED BY <2>1, <2>2, <3>1
  <2>4. ReadFile(bl, offset, n) = w[i]
    BY <1>1, <1>2, <1>4, <1>9, <2>2, ReadFileAs
  <2>5. i \in first .. Len(bl) - 1 /\ i \in first - 1 .. Len(bl) - 1 /\ Asked(offset, i) >= n
    BY <1>1, <2>3 DEF Lasts
  <2>6. CopyEnd(Len(c), offset, n, i) = E
    <3>1. PICK A \in Int : A = Asked(offset, i) /\ offset + A = Start(i + 1)
      BY <1>1, <2>3, <2>5, AskedIs
    <3> QED BY <1>2, <2>5, <3>1 DEF CopyEnd, Smaller
  <2> HIDE DEF E
  <2> QED BY <1>5, <1>6, <2>4, <2>5, <2>6, Zenon
<1> QED BY <1>1, <1>2, <1>7, <1>8, <1>9

\* A path without a file, and files nothing is known of, are not sequences nor files.
NoFiles ==
    /\ \A n, f : [i \in 1 .. n |-> f[i]] # Absent
    /\ \A f : [p \in Paths |-> f[p]] # Blank

\* No byte in the blocks of s; the metadata m and the bytes of a file that has all of c.
NoBytes(d, s) == \A k \in 1 .. Len(s) : d[s[k]] = <<>>
Whole(d, m, c) ==
    /\ m \notin {Absent, Blank} /\ m.blocks \in Seq(Blocks)
    /\ c \in Seq(Values) /\ c # <<>> /\ m.size = Len(c)
    /\ Carries(d, m.blocks, c)
RestSound(d, m) == m = Absent \/ \E c : Whole(d, m, c)

\* What a file holds after an operation on one that held was.
Newlines(n) == [i \in 1 .. n |-> Newline]
After(was, c) ==
    \/ was = Absent /\ \E n \in Sizes : c = Newlines(n)
    \/ was \in Seq(Values) /\ \E o \in 0 .. Len(was), b \in Writes : c = Store!Written(was, o, b)
EffectSound(d, m, was) ==
    \/ m = Absent /\ was \in Seq(Values)
    \/ \E c : Whole(d, m, c) /\ After(was, c)

\* A job that reserves: its file is as it was, and what it has in hand is empty.
CreateSound(j, m) ==
    /\ {"was", "size"} \subseteq DOMAIN j
    /\ j.op = "create" /\ j.was = Absent /\ j.size \in Sizes /\ j.need = CeilDiv(j.size, BlockSize)
    /\ m = IF j.pc = "save" THEN Blank ELSE Absent
    /\ j.pc = "save" => Len(j.got) = j.need
ExtendSound(j, d, m) ==
    /\ {"was", "offset", "buffer"} \subseteq DOMAIN j
    /\ j.op = "write" /\ j.pc # "save" /\ Whole(d, m, j.was)
    /\ j.offset \in 0 .. Len(j.was) /\ j.buffer \in Writes /\ j.need \in Nat
    /\ Len(j.was) < j.offset + Len(j.buffer)
    /\ j.offset + Len(j.buffer) <= Start(Len(m.blocks) + j.need)
ReserveSound(j, d, m) ==
    /\ j.got \in Seq(Blocks) /\ NoBytes(d, j.got)
    /\ j.pc = "rollback" => j.code \in {INSUFFICIENT_SPACE, METADATA_CREATE_ERROR, METADATA_OPEN_ERROR}
    /\ CreateSound(j, m) \/ ExtendSound(j, d, m)

\* A job that fills: the blocks before k have their newlines.
FillSound(j, d, m) ==
    /\ "was" \in DOMAIN j /\ j.was = Absent /\ m \notin {Absent, Blank} /\ m.blocks \in Seq(Blocks)
    /\ m.size \in Sizes /\ m.size <= Start(Len(m.blocks))
    /\ \E k \in 0 .. Len(m.blocks) :
         /\ j.blocks = SubSeq(m.blocks, k + 1, Len(m.blocks))
         /\ j.left = m.size - Smaller(Start(k), m.size)
         /\ Carries(d, m.blocks, Newlines(Smaller(Start(k), m.size)))

\* A job that writes: its blocks carry c, and with what is left to write they will carry w.
Puts(j, c, w) ==
    IF j.buffer = <<>> THEN w = c /\ j.size = Len(c)
    ELSE LET at == Start(j.i) + j.from IN
         /\ at <= Len(c) /\ at + Len(j.buffer) <= Start(Len(j.blocks))
         /\ w = Store!Written(c, at, j.buffer)
         /\ j.size = Larger(Len(c), at + Len(j.buffer))
PutSound(j, d) ==
    /\ {"was", "size"} \subseteq DOMAIN j /\ j.was \in Seq(Values) /\ j.blocks \in Seq(Blocks) /\ j.buffer \in Seq(Values)
    /\ j.i \in Nat /\ j.from \in 0 .. BlockSize - 1
    /\ \E c, w : /\ c \in Seq(Values) /\ c # <<>> /\ Carries(d, j.blocks, c)
                 /\ After(j.was, w) /\ Puts(j, c, w)

JobSound(j, d, m) ==
    /\ j.pc \in Reserving => ReserveSound(j, d, m)
    /\ j.pc = "fill" => FillSound(j, d, m)
    /\ j.pc = "put" => PutSound(j, d)
    /\ j.pc = "wipe" => "was" \in DOMAIN j /\ j.was \in Seq(Values)
    /\ j.pc \in {"flush", "close"} => "was" \in DOMAIN j /\ EffectSound(d, m, j.was)
    /\ j.pc = "done" => j.code \in Nat

\* As long as nothing has been cut short: the blocks of the bitmap that have no owner are
\* astray, those that are free are empty, and each file and each job is sound.
Tidy ==
    /\ up /\ DOMAIN data = Blocks /\ astray \subseteq bitmap
    /\ \A p \in Paths : Held[p] \cap astray = {}
    /\ \A b \in Blocks \ bitmap : data[b] = <<>>
Sound ==
    ~damaged =>
      /\ Tidy
      /\ \A p \in Paths : AtRest(p) => RestSound(data, meta[p])
      /\ \A t \in Threads : JobSound(job[t], data, meta[job[t].path])

-----------------------------------------------------------------------------
\* A file depends on the bytes of its blocks.
LEMMA WholeStays ==
    ASSUME NEW d, NEW e, NEW m, NEW c, Whole(d, m, c), \A b \in Elements(m.blocks) : e[b] = d[b]
    PROVE  Whole(e, m, c)
<1>1. \A k \in 1 .. Len(m.blocks) : e[m.blocks[k]] = d[m.blocks[k]]
  <2>1. DOMAIN m.blocks = 1 .. Len(m.blocks)
    BY LenProperties DEF Whole
  <2> QED BY <2>1 DEF Elements
<1>2. Carries(e, m.blocks, c)
  BY <1>1, CarriesStays DEF Whole
<1> QED BY <1>2 DEF Whole

\* A file at rest depends on the bytes of its blocks.
LEMMA RestStays ==
    ASSUME NEW d, NEW e, NEW m, RestSound(d, m),
           m \notin {Absent, Blank} => \A b \in Elements(m.blocks) : e[b] = d[b]
    PROVE  RestSound(e, m)
<1>1. CASE m = Absent
  BY <1>1 DEF RestSound
<1>2. ASSUME NEW c, Whole(d, m, c) PROVE RestSound(e, m)
  <2>1. Whole(e, m, c)
    BY <1>2, WholeStays DEF Whole
  <2> QED BY <2>1 DEF RestSound
<1> QED BY <1>1, <1>2 DEF RestSound

\* A job depends on the bytes of the blocks it has in hand, and of those of its file.
LEMMA JobStays ==
    ASSUME NEW d, NEW e, NEW m, NEW j, JobSound(j, d, m),
           j.pc \in Reserving => \A b \in Elements(j.got) : e[b] = d[b],
           j.pc = "put" => \A b \in Elements(j.blocks) : e[b] = d[b],
           j.pc \in Reserving \cup {"fill", "flush", "close"} =>
             (m \notin {Absent, Blank} => \A b \in Elements(m.blocks) : e[b] = d[b])
    PROVE  JobSound(j, e, m)
<1>1. ASSUME j.pc \in Reserving PROVE ReserveSound(j, e, m)
  <2>1. ReserveSound(j, d, m)
    BY <1>1 DEF JobSound
  <2>2. NoBytes(e, j.got)
    <3>1. DOMAIN j.got = 1 .. Len(j.got)
      BY <2>1, LenProperties DEF ReserveSound
    <3> QED BY <1>1, <2>1, <3>1 DEF ReserveSound, NoBytes, Elements
  <2>3. ExtendSound(j, d, m) => ExtendSound(j, e, m)
    BY <1>1, WholeStays DEF ExtendSound, Whole
  <2> QED BY <2>1, <2>2, <2>3 DEF ReserveSound
<1>2. ASSUME j.pc = "fill" PROVE FillSound(j, e, m)
  <2>1. FillSound(j, d, m)
    BY <1>2 DEF JobSound
  <2>2. \A k \in 1 .. Len(m.blocks) : e[m.blocks[k]] = d[m.blocks[k]]
    <3>1. DOMAIN m.blocks = 1 .. Len(m.blocks)
      BY <2>1, LenProperties DEF FillSound
    <3> QED BY <1>2, <2>1, <3>1 DEF FillSound, Elements
  <2>3. \A c : Carries(d, m.blocks, c) => Carries(e, m.blocks, c)
    BY <2>2, CarriesStays
  <2> QED BY <2>1, <2>3 DEF FillSound
<1>3. ASSUME j.pc = "put" PROVE PutSound(j, e)
  <2>1. PutSound(j, d)
    BY <1>3 DEF JobSound
  <2>2. \A k \in 1 .. Len(j.blocks) : e[j.blocks[k]] = d[j.blocks[k]]
    <3>1. DOMAIN j.blocks = 1 .. Len(j.blocks)
      BY <2>1, LenProperties DEF PutSound
    <3> QED BY <1>3, <3>1 DEF Elements
  <2>3. \A c : Carries(d, j.blocks, c) => Carries(e, j.blocks, c)
    BY <2>2, CarriesStays
  <2> QED BY <2>1, <2>3, Zenon DEF PutSound
<1>4. ASSUME j.pc \in {"flush", "close"} PROVE EffectSound(e, m, j.was)
  <2>1. EffectSound(d, m, j.was)
    BY <1>4 DEF JobSound
  <2>2. \A c : Whole(d, m, c) => Whole(e, m, c)
    BY <1>4, WholeStays DEF Whole
  <2> QED BY <2>1, <2>2 DEF EffectSound
<1> QED BY <1>1, <1>2, <1>3, <1>4 DEF JobSound

\* The bytes of a file at rest.
LEMMA WholeBytes ==
    ASSUME NEW d, NEW m, NEW c, Whole(d, m, c)
    PROVE  [i \in 1 .. m.size |-> ByteOf(d, m.blocks, i - 1)] = c
<1>1. [i \in 1 .. Len(c) |-> ByteOf(d, m.blocks, i - 1)] = c
  BY CarriesBytes DEF Whole
<1> QED BY <1>1 DEF Whole

\* What a read of the whole file would give are those bytes.
LEMMA ContentIs ==
    ASSUME NEW p, NEW c, Whole(data, meta[p], c)
    PROVE  Content(p) = c
<1>1. [i \in 1 .. meta[p].size |-> ByteOf(data, meta[p].blocks, i - 1)] = c
  BY WholeBytes
<1> QED BY <1>1 DEF Whole, Content, Saved, Size, ByteAt, ByteOf

\* The same, after a step.
LEMMA ContentIsNext ==
    ASSUME NEW p, NEW c, Whole(data', meta'[p], c)
    PROVE  Content(p)' = c
<1>1. [i \in 1 .. meta'[p].size |-> ByteOf(data', meta'[p].blocks, i - 1)] = c
  BY WholeBytes
<1> QED BY <1>1 DEF Whole, Content, Saved, Size, ByteAt, ByteOf

\* What store says of a file, and answered of a thread, while nothing has been cut short.
FileOf(p) == IF AtRest(p) THEN Content(p) ELSE job[CHOOSE t \in Threads : Working(t, p)].was

\* While a thread serves a request for the file, the store has what the file held before it.
LEMMA FileIs ==
    ASSUME Owners, NEW p, NEW t \in Threads, p \in Paths, Working(t, p)
    PROVE  FileOf(p) = job[t].was
<1>1. (CHOOSE u \in Threads : Working(u, p)) = t
  BY DEF Owners, OneWorker
<1> QED BY <1>1 DEF FileOf, AtRest

\* The same, after a step.
LEMMA FileIsNext ==
    ASSUME Owners', NEW p, NEW t \in Threads, p \in Paths, Working(t, p)'
    PROVE  FileOf(p)' = job'[t].was
<1>1. \A u \in Threads : Working(u, p)' => u = t
  BY DEF Owners, OneWorker
<1>2. (CHOOSE u \in Threads : Working(u, p)') = t
  BY <1>1
<1>3. ~AtRest(p)'
  BY DEF AtRest
<1> QED BY <1>2, <1>3 DEF FileOf

\* The blocks that files have are blocks.
LEMMA HeldBlocks ==
    ASSUME Owners, NEW p \in Paths
    PROVE  Held[p] \subseteq Blocks
<1> SUFFICES ASSUME NEW b \in Held[p] PROVE b \in Blocks
  OBVIOUS
<1>1. CASE b \in BlocksOf(p)
  <2>1. Saved(p) /\ b \in Elements(meta[p].blocks) /\ meta[p].blocks \in Seq(Blocks)
    BY <1>1 DEF BlocksOf, Owners, Typed, FileTyped
  <2> QED BY <2>1, ElementOfSeq, LenProperties DEF Elements
<1>2. ASSUME NEW t \in Threads, b \in HandOf(t) PROVE b \in Blocks
  <2>1. InHand(t) \in Seq(Blocks)
    BY EmptySeq DEF InHand, Owners, Typed, JobTyped, Reserving
  <2> QED BY <1>2, <2>1, ElementOfSeq, LenProperties DEF HandOf, Elements
<1> QED BY <1>1, <1>2, HeldIs

\* A job that is served has its path, and its blocks and those of its file are held there.
LEMMA JobHolds ==
    ASSUME Owners, NEW u \in Threads, job[u].pc \notin {"idle", "done"}
    PROVE  /\ HandOf(u) \subseteq Held[job[u].path]
           /\ job[u].pc # "wipe" => BlocksOf(job[u].path) \subseteq Held[job[u].path]
<1> SUFFICES ASSUME NEW q \in Paths, q = job[u].path, Working(u, q), Alone(u, q)
             PROVE  HandOf(u) \subseteq Held[q] /\ (job[u].pc # "wipe" => BlocksOf(q) \subseteq Held[q])
  BY Alones
<1>1. HandOf(u) \subseteq Held[q]
  BY HeldIs
<1>2. ASSUME job[u].pc # "wipe" PROVE \A t \in Threads : ~Wiping(t, q)
  BY <1>2 DEF Alone, Wiping, Working
<1> QED BY <1>1, <1>2, HeldIs

\* A step of t, which serves a request for p, keeps what is sound of the other files and
\* threads if it writes to the blocks of p only.
OthersStay(t) ==
    \A u \in Threads \ {t} :
      \/ job'[u] = job[u]
      \/ /\ job[u].pc = "close" /\ job'[u].pc = "close"
         /\ job'[u].path = job[u].path /\ job'[u].was = job[u].was /\ DOMAIN job'[u] = DOMAIN job[u]

\* The general step: the blocks and the files of the others are as they were.
LEMMA SoundStep ==
    ASSUME Owners, Owners', Sound, ~damaged, NEW t \in Threads, NEW p \in Paths, up',
           Alone(t, p), \A q \in Paths \ {p} : ~Working(t, q) /\ ~Working(t, q)',
           OthersStay(t),
           \A q \in Paths \ {p} : meta'[q] = meta[q],
           DOMAIN data' = Blocks, \A b \in Blocks \ Held[p] : data'[b] = data[b],
           astray' \subseteq bitmap', astray' \subseteq astray \cup Held[p], Held'[p] \cap astray' = {},
           \A b \in Blocks \ bitmap' : data'[b] = <<>>,
           JobSound(job'[t], data', meta'[job'[t].path]),
           ~Working(t, p)' => RestSound(data', meta'[p])
    PROVE  Sound' /\ \A q \in Paths \ {p} : FileOf(q)' = FileOf(q)
<1>1. \A u \in Threads \ {t} : \A q \in Paths :
        /\ Working(u, q)' <=> Working(u, q)
        /\ Wiping(u, q)' <=> Wiping(u, q)
        /\ HandOf(u)' = HandOf(u)
  BY DEF OthersStay, Working, Wiping, HandOf, InHand, Reserving
<1>2. \A q \in Paths \ {p} : Held'[q] = Held[q]
  <2> TAKE q \in Paths \ {p}
  <2>1. BlocksOf(q)' = BlocksOf(q)
    BY DEF BlocksOf, Saved
  <2>2. ~Wiping(t, q) /\ ~Wiping(t, q)'
    BY DEF Wiping, Working
  <2>3. \A b : b \in Held'[q] <=> b \in Held[q]
    BY <1>1, <2>1, <2>2, HeldIs, HeldIsNext
  <2> QED BY <2>3 DEF Held
<1>0. Tidy /\ (\A q \in Paths : AtRest(q) => RestSound(data, meta[q]))
      /\ (\A u \in Threads : JobSound(job[u], data, meta[job[u].path]))
  BY DEF Sound
<1>3. \A q \in Paths \ {p} : Held[q] \cap Held[p] = {} /\ Held[q] \cap astray = {}
  BY <1>0 DEF Tidy, Owners, OneHolder
<1>4. \A q \in Paths \ {p} : \A b \in Held[q] : data'[b] = data[b]
  BY <1>3, HeldBlocks
<1>5. Tidy'
  BY <1>0, <1>2, <1>3 DEF Tidy
<1>6. ASSUME NEW u \in Threads \ {t} PROVE JobSound(job'[u], data', meta'[job'[u].path])
  <2>1. JobSound(job[u], data, meta[job[u].path])
    BY <1>0
  <2>2. CASE job[u].pc \in {"idle", "done"}
    <3>1. job'[u] = job[u]
      BY <2>2 DEF OthersStay
    <3> QED BY <2>1, <2>2, <3>1 DEF JobSound, Reserving
  <2>3. CASE job[u].pc \notin {"idle", "done"}
    <3>1. PICK q : q = job[u].path
      OBVIOUS
    <3>2. q \in Paths \ {p}
      BY <2>3, <3>1, Alones DEF Alone
    <3>3. HandOf(u) \subseteq Held[q] /\ (job[u].pc # "wipe" => BlocksOf(q) \subseteq Held[q])
      BY <2>3, <3>1, JobHolds
    <3>4. /\ job[u].pc \in Reserving => Elements(job[u].got) \subseteq Held[q]
          /\ job[u].pc = "put" => Elements(job[u].blocks) \subseteq Held[q]
      BY <3>3 DEF HandOf, InHand, Reserving, Elements
    <3>5. job[u].pc # "wipe" /\ meta[q] \notin {Absent, Blank} => Elements(meta[q].blocks) \subseteq Held[q]
      BY <3>3 DEF BlocksOf, Saved
    <3>6. JobSound(job[u], data', meta[q])
      BY <1>4, <2>1, <3>1, <3>2, <3>4, <3>5, JobStays DEF Reserving
    <3>7. JobSound(job'[u], data', meta[q])
      <4>1. CASE job'[u] = job[u]
        BY <3>6, <4>1
      <4>2. CASE job[u].pc = "close" /\ job'[u].pc = "close" /\ job'[u].was = job[u].was
                 /\ DOMAIN job'[u] = DOMAIN job[u]
        BY <3>6, <4>2 DEF JobSound, Reserving
      <4> QED BY <4>1, <4>2 DEF OthersStay
    <3>8. job'[u].path = q /\ meta'[q] = meta[q]
      BY <3>1, <3>2 DEF OthersStay
    <3> QED BY <3>7, <3>8
  <2> QED BY <2>2, <2>3
<1>7. ASSUME NEW q \in Paths \ {p}, AtRest(q)
      PROVE  RestSound(data, meta[q]) /\ RestSound(data', meta'[q]) /\ Content(q)' = Content(q)
  <2>1. RestSound(data, meta[q]) /\ meta'[q] = meta[q]
    BY <1>0, <1>7
  <2>2. BlocksOf(q) \subseteq Held[q]
    BY <1>7, HeldIs DEF AtRest, Wiping, Working
  <2>3. meta[q] \notin {Absent, Blank} => \A b \in Elements(meta[q].blocks) : data'[b] = data[b]
    BY <1>4, <2>2 DEF BlocksOf, Saved
  <2>4. RestSound(data', meta[q])
    BY <2>1, <2>3, RestStays
  <2>5. CASE meta[q] = Absent
    BY <2>1, <2>4, <2>5 DEF Content, Saved
  <2>6. ASSUME NEW c, Whole(data, meta[q], c) PROVE Content(q)' = Content(q)
    <3>1. Whole(data', meta'[q], c)
      <4>1. \A b \in Elements(meta[q].blocks) : data'[b] = data[b]
        BY <2>3, <2>6 DEF Whole
      <4>2. Whole(data', meta[q], c)
        BY <2>6, <4>1, WholeStays
      <4> QED BY <2>1, <4>2
    <3> QED BY <2>6, <3>1, ContentIs, ContentIsNext
  <2> QED BY <2>1, <2>4, <2>5, <2>6 DEF RestSound
<1>8. \A q \in Paths \ {p} : AtRest(q)' <=> AtRest(q)
  BY <1>1 DEF AtRest
<1>9. \A q \in Paths : AtRest(q)' => RestSound(data', meta'[q])
  BY <1>7, <1>8 DEF AtRest
<1>10. Sound'
  BY <1>5, <1>6, <1>9 DEF Sound
<1>11. ASSUME NEW q \in Paths \ {p} PROVE FileOf(q)' = FileOf(q)
  <2>1. CASE AtRest(q)
    BY <1>7, <1>8, <2>1 DEF FileOf
  <2>2. CASE ~AtRest(q)
    <3>1. PICK u \in Threads : Working(u, q)
      BY <2>2 DEF AtRest
    <3>2. u # t /\ Working(u, q)'
      BY <1>1, <3>1
    <3>3. job'[u].was = job[u].was
      BY <3>2 DEF OthersStay
    <3> QED BY <3>1, <3>2, <3>3, FileIs, FileIsNext
  <2> QED BY <2>1, <2>2
<1> QED BY <1>10, <1>11

StoreNext == [Store!Next]_<<store, answered>>

\* What a step that cuts nothing short starts from.
Ready == Owners /\ Owners' /\ Sound /\ ~damaged /\ ~damaged'
Assumed == NoMetadata /\ NoFiles /\ 0 \notin Sizes

AnswerOf(j) == IF j.pc = "done" THEN [code |-> j.code, bytes |-> j.bytes] ELSE Store!None

\* The two variables of the store, while nothing has been cut short.
LEMMA StoreIs ==
    ASSUME ~damaged
    PROVE  /\ store = [q \in Paths |-> FileOf(q)]
           /\ answered = [t \in Threads |-> AnswerOf(job[t])]
<1>1. store = [q \in Paths |-> FileOf(q)]
  BY DEF store, FileOf
<1>2. answered = [t \in Threads |-> AnswerOf(job[t])]
  BY DEF answered, AnswerOf, Store!None, Store!Code
<1> QED BY <1>1, <1>2

\* The same, after a step.
LEMMA StoreIsNext ==
    ASSUME ~damaged'
    PROVE  /\ store' = [q \in Paths |-> FileOf(q)']
           /\ answered' = [t \in Threads |-> AnswerOf(job'[t])]
<1>1. store' = [q \in Paths |-> FileOf(q)']
  BY DEF store, FileOf
<1>2. answered' = [t \in Threads |-> AnswerOf(job'[t])]
  BY DEF answered, AnswerOf, Store!None, Store!Code
<1> QED BY <1>1, <1>2

\* A step of t at p changes one file and one answer.
LEMMA StoreStep ==
    ASSUME ~damaged, ~damaged', NEW t \in Threads, NEW p \in Paths,
           \A q \in Paths \ {p} : FileOf(q)' = FileOf(q), OthersStay(t)
    PROVE  /\ store[p] = FileOf(p) /\ answered[t] = AnswerOf(job[t])
           /\ store' = [store EXCEPT ![p] = FileOf(p)']
           /\ answered' = [answered EXCEPT ![t] = AnswerOf(job'[t])]
<1>1. \A u \in Threads \ {t} : AnswerOf(job'[u]) = AnswerOf(job[u])
  BY DEF OthersStay, AnswerOf
<1>2. store[p] = FileOf(p) /\ answered[t] = AnswerOf(job[t])
  BY StoreIs
<1> DEFINE F(q) == FileOf(q)
           A(u) == AnswerOf(job[u])
<1>3. /\ store = [q \in Paths |-> F(q)] /\ store' = [q \in Paths |-> FileOf(q)']
      /\ answered = [u \in Threads |-> A(u)] /\ answered' = [u \in Threads |-> AnswerOf(job'[u])]
  BY StoreIs, StoreIsNext
<1>4. store' = [store EXCEPT ![p] = FileOf(p)']
  BY <1>3
<1>5. answered' = [answered EXCEPT ![t] = AnswerOf(job'[t])]
  <2> HIDE DEF F
  <2> QED BY <1>1, <1>3
<1> QED BY <1>2, <1>4, <1>5

\* What has been cut short is not promised any more.
LEMMA StoreLost ==
    ASSUME damaged', damaged \in BOOLEAN
    PROVE  StoreNext
<1>1. store' = Unspecified /\ answered' = [t \in Threads |-> Store!None]
  <2>1. store' = Unspecified
    BY DEF store
  <2>2. answered' = [t \in Threads |-> Store!None]
    BY DEF answered, Store!None, Store!Code
  <2> QED BY <2>1, <2>2
<1>2. Store!Kill
  BY <1>1 DEF Store!Kill, Unspecified
<1> QED BY <1>2 DEF StoreNext, Store!Next

-----------------------------------------------------------------------------
\* SoundStep for a step of a job that goes on with j, or ends with it.
WritesOwn(t, p) ==
    /\ DOMAIN data' = Blocks /\ \A b \in Blocks \ HeldBy(t, p) : data'[b] = data[b]
    /\ astray' \subseteq bitmap' /\ astray' \subseteq astray \cup HeldBy(t, p)
    /\ HeldBy(t, p)' \cap astray' = {}
    /\ \A b \in Blocks \ bitmap' : data'[b] = <<>>
OnlyAt(t, p) == Alone(t, p) /\ \A q \in Paths \ {p} : ~Working(t, q)

\* What a file has after a step of the only thread that may work on it.
LEMMA HeldNext ==
    ASSUME NEW t \in Threads, NEW p \in Paths, Alone(t, p), OthersStay(t)
    PROVE  Held'[p] = HeldBy(t, p)'
<1>1. \A u \in Threads \ {t} : ~Wiping(u, p)' /\ ~Working(u, p)'
  BY DEF Alone, OthersStay, Wiping, Working
<1>2. \A b : b \in Held'[p] <=> b \in HeldBy(t, p)'
  BY <1>1, HeldIsNext DEF HeldBy, Wiping, Working
<1> QED BY <1>2

\* A step that changes one job leaves the others as they were.
LEMMA JobIs ==
    ASSUME Owners, NEW t \in Threads, NEW j, Goes(t, j)
    PROVE  job'[t] = j /\ OthersStay(t)
BY DEF Goes, OthersStay, Owners, Typed

\* SoundStep for a step that changes the job of t alone.
LEMMA SoundGoes ==
    ASSUME Ready, NEW t \in Threads, NEW p \in Paths, UNCHANGED up, OnlyAt(t, p),
           NEW j, Goes(t, j), j.pc \notin {"idle", "done"} => j.path = p,
           \A q \in Paths \ {p} : meta'[q] = meta[q],
           WritesOwn(t, p),
           JobSound(j, data', meta'[j.path]),
           j.pc \in {"idle", "done"} => RestSound(data', meta'[p])
    PROVE  /\ Sound' /\ \A q \in Paths \ {p} : FileOf(q)' = FileOf(q)
           /\ FileOf(p)' = IF j.pc \in {"idle", "done"} THEN Content(p)' ELSE j.was
           /\ job'[t] = j /\ OthersStay(t)
<1>1. job'[t] = j /\ OthersStay(t)
  BY JobIs DEF Ready
<1>2. Held[p] = HeldBy(t, p) /\ Held'[p] = HeldBy(t, p)'
  BY <1>1, AloneHeld, HeldNext DEF OnlyAt
<1>3. \A q \in Paths \ {p} : ~Working(t, q)'
  BY <1>1 DEF Working
<1>4. Working(t, p)' <=> j.pc \notin {"idle", "done"}
  BY <1>1 DEF Working
<1>5. up'
  BY DEF Ready, Sound, Tidy
<1>6. Sound' /\ \A q \in Paths \ {p} : FileOf(q)' = FileOf(q)
  BY <1>1, <1>2, <1>3, <1>4, <1>5, SoundStep DEF Ready, OnlyAt, WritesOwn
<1>7. j.pc \notin {"idle", "done"} => FileOf(p)' = j.was
  BY <1>1, <1>4, FileIsNext DEF Ready
<1>8. j.pc \in {"idle", "done"} => FileOf(p)' = Content(p)'
  <2>1. \A u \in Threads \ {t} : ~Working(u, p)'
    BY <1>1 DEF OnlyAt, Alone, OthersStay, Working
  <2> QED BY <1>4, <2>1 DEF FileOf, AtRest
<1> QED BY <1>1, <1>6, <1>7, <1>8

\* A step in the middle of a request is not seen.
LEMMA SilentStep ==
    ASSUME Ready, NEW t \in Threads, NEW p \in Paths, UNCHANGED up,
           job[t].pc \notin {"idle", "done"}, job[t].path = p,
           NEW j, Goes(t, j), j.pc \notin {"idle", "done"}, j.path = p, j.was = job[t].was,
           \A q \in Paths \ {p} : meta'[q] = meta[q],
           WritesOwn(t, p), JobSound(j, data', meta'[p])
    PROVE  Sound' /\ StoreNext
<1>1. OnlyAt(t, p) /\ Working(t, p)
  BY Alones DEF OnlyAt, Ready
<1>2. /\ Sound' /\ \A q \in Paths \ {p} : FileOf(q)' = FileOf(q)
      /\ FileOf(p)' = j.was /\ job'[t] = j /\ OthersStay(t)
  BY <1>1, SoundGoes
<1>3. FileOf(p) = job[t].was
  BY <1>1, FileIs DEF Ready
<1>4. AnswerOf(job'[t]) = AnswerOf(job[t])
  BY <1>2 DEF AnswerOf
<1>5. store' = [store EXCEPT ![p] = store[p]] /\ answered' = [answered EXCEPT ![t] = answered[t]]
  BY <1>2, <1>3, <1>4, StoreStep DEF Ready
<1>6. store = [q \in Paths |-> store[q]] /\ answered = [u \in Threads |-> answered[u]]
  BY StoreIs DEF Ready
<1>7. UNCHANGED <<store, answered>>
  BY <1>5, <1>6
<1> QED BY <1>2, <1>7 DEF StoreNext

\* The steps that change neither the bitmap nor the blocks.
LEMMA QuietStep ==
    ASSUME Sound, ~damaged, NEW t \in Threads, NEW p \in Paths, OnlyAt(t, p),
           UNCHANGED <<bitmap, data, astray>>, HeldBy(t, p)' \subseteq HeldBy(t, p)
    PROVE  WritesOwn(t, p)
<1>1. Tidy /\ Held[p] = HeldBy(t, p)
  BY AloneHeld DEF Sound, OnlyAt
<1>2. HeldBy(t, p)' \cap astray' = {}
  BY <1>1 DEF Tidy
<1> QED BY <1>1, <1>2 DEF Tidy, WritesOwn

\* The answer that refuses an operation, or that ends a request.
LEMMA Answered ==
    ASSUME ~damaged, NoFiles, NEW t \in Threads, NEW r, r.code # -1,
           answered[t] = Store!None, answered' = [answered EXCEPT ![t] = r]
    PROVE  Store!Answers(t, r) /\ answered'[t] # answered[t] /\ store # Unspecified
<1>1. DOMAIN answered = Threads /\ store # Unspecified
  <2>1. store # Unspecified
    BY StoreIs DEF NoFiles, Unspecified
  <2> QED BY <2>1, StoreIs
<1>2. answered'[t] = r
  BY <1>1
<1>3. r # Store!None
  BY DEF Store!None, Store!Code
<1> QED BY <1>1, <1>2, <1>3 DEF Store!Answers

\* An operation that is refused changes no file.
LEMMA Refused ==
    ASSUME ~damaged, NoFiles, NEW t \in Threads,
           NEW r \in {INSUFFICIENT_SPACE, METADATA_CREATE_ERROR, METADATA_OPEN_ERROR},
           answered[t] = Store!None, answered' = [answered EXCEPT ![t] = Store!Code(r)],
           UNCHANGED store
    PROVE  StoreNext
<1>1. Store!Code(r).code = r /\ r # -1
  BY DEF Store!Code, INSUFFICIENT_SPACE, METADATA_CREATE_ERROR, METADATA_OPEN_ERROR
<1>2. Store!Answers(t, Store!Code(r)) /\ answered'[t] # answered[t] /\ store # Unspecified
  BY <1>1, Answered
<1>3. Store!Refuse(t)
  BY <1>2 DEF Store!Refuse, INSUFFICIENT_SPACE, METADATA_CREATE_ERROR, METADATA_OPEN_ERROR,
              Store!INSUFFICIENT_SPACE, Store!METADATA_CREATE_ERROR, Store!METADATA_OPEN_ERROR
<1> QED BY <1>2, <1>3 DEF StoreNext, Store!Next

-----------------------------------------------------------------------------
\* What a job that reserves goes by: it stays sound as long as what it reserves is empty.
SameReserve(j, k) ==
    /\ DOMAIN j = DOMAIN k /\ j.path = k.path /\ j.was = k.was /\ j.op = k.op /\ j.need = k.need
    /\ j.op = "create" => j.size = k.size
    /\ j.op = "write" => j.offset = k.offset /\ j.buffer = k.buffer

\* A job that goes on reserving, or gives back what it has, is as sound as it was.
LEMMA ReserveAgain ==
    ASSUME NEW j, NEW k, NEW d, NEW m, ReserveSound(k, d, m), k.pc # "save", SameReserve(j, k),
           j.pc # "save", j.got \in Seq(Blocks), NoBytes(d, j.got),
           j.pc = "rollback" => j.code \in {INSUFFICIENT_SPACE, METADATA_CREATE_ERROR, METADATA_OPEN_ERROR}
    PROVE  ReserveSound(j, d, m)
<1>1. CreateSound(k, m) => CreateSound(j, m)
  BY DEF CreateSound, SameReserve
<1>2. ExtendSound(k, d, m) => ExtendSound(j, d, m)
  BY DEF ExtendSound, SameReserve
<1> QED BY <1>1, <1>2 DEF ReserveSound

\* The job of a thread, its file and what it holds.
LEMMA Serving ==
    ASSUME Ready, NEW t \in Threads, NEW p, p = job[t].path, job[t].pc \notin {"idle", "done"}
    PROVE  /\ p \in Paths /\ OnlyAt(t, p) /\ Working(t, p)
           /\ JobTyped(job[t]) /\ JobSound(job[t], data, meta[p]) /\ HandNew(t)
           /\ Tidy /\ Held[p] = HeldBy(t, p) /\ HeldBy(t, p) \cap astray = {}
           /\ HeldBy(t, p) \subseteq bitmap /\ HeldBy(t, p) \subseteq Blocks
           /\ DOMAIN meta = Paths
<1>1. p \in Paths /\ OnlyAt(t, p) /\ Working(t, p)
  BY Alones DEF Ready, OnlyAt
<1>2. JobTyped(job[t]) /\ HandNew(t) /\ DOMAIN meta = Paths
  BY DEF Ready, Owners, Typed
<1>3. JobSound(job[t], data, meta[p]) /\ Tidy
  BY DEF Ready, Sound
<1>4. Held[p] = HeldBy(t, p)
  BY <1>1, AloneHeld DEF OnlyAt
<1>5. HeldBy(t, p) \cap astray = {}
  BY <1>1, <1>3, <1>4 DEF Tidy
<1>6. HeldBy(t, p) \subseteq bitmap
  BY <1>1, <1>3, <1>4, <1>5 DEF Tidy, Ready, Owners, InUse
<1>7. HeldBy(t, p) \subseteq Blocks
  BY <1>1, <1>4, HeldBlocks DEF Ready
<1> QED BY <1>1, <1>2, <1>3, <1>4, <1>5, <1>6, <1>7

\* One more empty block.
LEMMA NoBytesAppend ==
    ASSUME NEW d, NEW got \in Seq(Blocks), NoBytes(d, got), NEW x \in Blocks, d[x] = <<>>
    PROVE  Append(got, x) \in Seq(Blocks) /\ NoBytes(d, Append(got, x))
<1>1. /\ Append(got, x) \in Seq(Blocks) /\ Len(Append(got, x)) = Len(got) + 1 /\ Len(got) \in Nat
      /\ \A i \in 1 .. Len(got) : Append(got, x)[i] = got[i]
      /\ Append(got, x)[Len(got) + 1] = x
  BY AppendProperties, LenProperties
<1> QED BY <1>1 DEF NoBytes

\* One empty block less.
LEMMA NoBytesTail ==
    ASSUME NEW d, NEW got \in Seq(Blocks), got # <<>>, NoBytes(d, got)
    PROVE  /\ Tail(got) \in Seq(Blocks) /\ NoBytes(d, Tail(got)) /\ Head(got) \in Blocks
           /\ d[Head(got)] = <<>>
<1>1. /\ Tail(got) \in Seq(Blocks) /\ Len(Tail(got)) = Len(got) - 1 /\ Len(got) \in Nat
      /\ \A i \in 1 .. Len(Tail(got)) : Tail(got)[i] = got[i + 1]
      /\ Head(got) \in Blocks /\ Head(got) = got[1] /\ Len(got) >= 1
  BY HeadTailProperties, LenProperties, EmptySeq
<1> QED BY <1>1 DEF NoBytes

\* FIFA_ReserveBlockIfNotUsed: the block that is taken was free, so it is empty.
LEMMA ReserveTestsSound ==
    ASSUME Ready, Assumed, NEW t \in Threads, ReserveTests(t)
    PROVE  Sound' /\ StoreNext
<1>1. UNCHANGED <<up, meta, data, astray>> /\ job[t].pc = "reserve"
  BY DEF ReserveTests, At, disk, history
<1>2. PICK p : p = job[t].path
  OBVIOUS
<1>3. /\ p \in Paths /\ OnlyAt(t, p) /\ Working(t, p)
      /\ JobTyped(job[t]) /\ JobSound(job[t], data, meta[p])
      /\ Tidy /\ HeldBy(t, p) \cap astray = {}
  BY <1>1, <1>2, Serving
<1>4. ReserveSound(job[t], data, meta[p]) /\ job[t].got \in Seq(Blocks) /\ NoBytes(data, job[t].got)
  BY <1>1, <1>3 DEF JobSound, Reserving, ReserveSound
<1>5. job[t].at \in Blocks
  BY <1>1, <1>3, BoundsAssumption DEF JobTyped, Reserving, ReserveTests, Blocks
<1>6. BlocksOf(p)' = BlocksOf(p)
  BY <1>1 DEF BlocksOf, Saved
<1>7. CASE job[t].at \in bitmap
  <2> DEFINE j == [job[t] EXCEPT !.at = @ + 1]
  <2>1. Goes(t, j) /\ UNCHANGED bitmap
    BY <1>7 DEF ReserveTests
  <2>2. SameReserve(j, job[t]) /\ j.pc = "reserve" /\ j.got = job[t].got /\ j.path = p /\ j.was = job[t].was
    BY <1>1, <1>2, <1>3, <1>4 DEF JobTyped, Reserving, SameReserve, ReserveSound, CreateSound, ExtendSound
  <2> HIDE DEF j
  <2>3. JobSound(j, data', meta'[p])
    BY <1>1, <1>4, <2>2, ReserveAgain DEF JobSound, Reserving
  <2>4. job'[t] = j
    BY <2>1, JobIs DEF Ready
  <2>5. HeldBy(t, p)' \subseteq HeldBy(t, p)
    BY <1>1, <1>3, <1>6, <2>2, <2>4 DEF HeldBy, HandOf, InHand, Wiping, Working, Reserving
  <2>6. WritesOwn(t, p)
    BY <1>1, <1>3, <2>1, <2>5, QuietStep DEF Ready
  <2> QED BY <1>1, <1>2, <1>3, <2>1, <2>2, <2>3, <2>6, SilentStep
<1>8. CASE job[t].at \notin bitmap
  <2> SUFFICES ASSUME NEW x \in Blocks, x = job[t].at, NEW got \in Seq(Blocks), got = job[t].got
               PROVE  Sound' /\ StoreNext
    BY <1>4, <1>5
  <2> DEFINE j == [job[t] EXCEPT !.got = Append(@, x), !.at = 0]
  <2>1. Goes(t, j) /\ bitmap' = bitmap \cup {x}
    BY <1>8 DEF ReserveTests
  <2>2. /\ SameReserve(j, job[t]) /\ j.pc = "reserve" /\ j.got = Append(got, x) /\ j.path = p
        /\ j.was = job[t].was
    BY <1>1, <1>2, <1>3, <1>4 DEF JobTyped, Reserving, SameReserve, ReserveSound, CreateSound, ExtendSound
  <2> HIDE DEF j
  <2>3. Append(got, x) \in Seq(Blocks) /\ NoBytes(data, Append(got, x))
    BY <1>3, <1>4, <1>8, NoBytesAppend DEF Tidy
  <2>4. JobSound(j, data', meta'[p])
    BY <1>1, <1>4, <2>2, <2>3, ReserveAgain DEF JobSound, Reserving
  <2>5. job'[t] = j
    BY <2>1, JobIs DEF Ready
  <2>6. HandOf(t)' = HandOf(t) \cup {x}
    <3>1. HandOf(t) = Elements(got) /\ HandOf(t)' = Elements(Append(got, x))
      BY <1>1, <2>2, <2>5 DEF HandOf, InHand, Reserving, Elements
    <3> QED BY <3>1, ElementsAppend
  <2>7. HeldBy(t, p)' \subseteq HeldBy(t, p) \cup {x}
    BY <1>1, <1>3, <1>6, <2>2, <2>5, <2>6 DEF HeldBy, Wiping, Working, Reserving
  <2>8. WritesOwn(t, p)
    BY <1>1, <1>3, <1>8, <2>1, <2>7 DEF Tidy, WritesOwn
  <2> QED BY <1>1, <1>2, <1>3, <2>1, <2>2, <2>4, <2>8, SilentStep
<1> QED BY <1>7, <1>8

\* There are not enough free blocks.
LEMMA ReserveFailsSound ==
    ASSUME Ready, Assumed, NEW t \in Threads, ReserveFails(t)
    PROVE  Sound' /\ StoreNext
<1>1. UNCHANGED <<up, bitmap, meta, data, astray>> /\ job[t].pc = "reserve"
  BY DEF ReserveFails, At, disk, history
<1>2. PICK p : p = job[t].path
  OBVIOUS
<1>3. /\ p \in Paths /\ OnlyAt(t, p) /\ Working(t, p)
      /\ JobTyped(job[t]) /\ JobSound(job[t], data, meta[p])
  BY <1>1, <1>2, Serving
<1>4. ReserveSound(job[t], data, meta[p]) /\ job[t].got \in Seq(Blocks) /\ NoBytes(data, job[t].got)
  BY <1>1, <1>3 DEF JobSound, Reserving, ReserveSound
<1>6. BlocksOf(p)' = BlocksOf(p)
  BY <1>1 DEF BlocksOf, Saved
<1> DEFINE j == [job[t] EXCEPT !.pc = "rollback", !.code = INSUFFICIENT_SPACE]
<1>7. Goes(t, j)
  BY DEF ReserveFails
<1>8. /\ SameReserve(j, job[t]) /\ j.pc = "rollback" /\ j.got = job[t].got /\ j.path = p /\ j.was = job[t].was
      /\ j.code = INSUFFICIENT_SPACE
  BY <1>1, <1>2, <1>3, <1>4 DEF JobTyped, Reserving, SameReserve, ReserveSound, CreateSound, ExtendSound
<1> HIDE DEF j
<1>9. JobSound(j, data', meta'[p])
  BY <1>1, <1>4, <1>8, ReserveAgain DEF JobSound, Reserving
<1>10. job'[t] = j
  BY <1>7, JobIs DEF Ready
<1>11. HeldBy(t, p)' \subseteq HeldBy(t, p)
  BY <1>1, <1>3, <1>6, <1>8, <1>10 DEF HeldBy, HandOf, InHand, Wiping, Working, Reserving
<1>12. WritesOwn(t, p)
  BY <1>1, <1>3, <1>11, QuietStep DEF Ready
<1> QED BY <1>1, <1>2, <1>3, <1>7, <1>8, <1>9, <1>12, SilentStep

\* FIFA_FreeBlock on what was reserved; then the operation is refused.
LEMMA RollsBackSound ==
    ASSUME Ready, Assumed, NEW t \in Threads, RollsBack(t)
    PROVE  Sound' /\ StoreNext
<1>1. UNCHANGED <<up, meta, data, astray>> /\ job[t].pc = "rollback"
  BY DEF RollsBack, At, disk, history
<1>2. PICK p : p = job[t].path
  OBVIOUS
<1>3. /\ p \in Paths /\ OnlyAt(t, p) /\ Working(t, p)
      /\ JobTyped(job[t]) /\ JobSound(job[t], data, meta[p]) /\ HandNew(t)
      /\ Tidy /\ HeldBy(t, p) \cap astray = {} /\ HeldBy(t, p) \subseteq bitmap
  BY <1>1, <1>2, Serving
<1>4. ReserveSound(job[t], data, meta[p]) /\ job[t].got \in Seq(Blocks) /\ NoBytes(data, job[t].got)
  BY <1>1, <1>3 DEF JobSound, Reserving, ReserveSound
<1>6. BlocksOf(p)' = BlocksOf(p)
  BY <1>1 DEF BlocksOf, Saved
<1>7. CASE job[t].got # <<>>
  <2> SUFFICES ASSUME NEW got \in Seq(Blocks), got = job[t].got, got # <<>>, NoBytes(data, got),
                      NEW x, x = Head(got)
               PROVE  Sound' /\ StoreNext
    BY <1>4, <1>7
  <2> DEFINE j == [job[t] EXCEPT !.got = Tail(@)]
  <2>1. Goes(t, j) /\ bitmap' = bitmap \ {x}
    BY <1>7 DEF RollsBack
  <2>2. /\ SameReserve(j, job[t]) /\ j.pc = "rollback" /\ j.got = Tail(got) /\ j.path = p
        /\ j.was = job[t].was /\ j.code = job[t].code
    BY <1>1, <1>2, <1>3, <1>4 DEF JobTyped, Reserving, SameReserve, ReserveSound, CreateSound, ExtendSound
  <2> HIDE DEF j
  <2>3. Tail(got) \in Seq(Blocks) /\ NoBytes(data, Tail(got)) /\ x \in Blocks /\ data[x] = <<>>
    BY NoBytesTail
  <2>4. JobSound(j, data', meta'[p])
    BY <1>1, <1>4, <2>2, <2>3, ReserveAgain DEF JobSound, Reserving, ReserveSound
  <2>5. job'[t] = j
    BY <2>1, JobIs DEF Ready
  <2>6. HandOf(t) = Elements(got) /\ HandOf(t)' = Elements(Tail(got))
    BY <1>1, <2>2, <2>5 DEF HandOf, InHand, Reserving, Elements
  <2>7. Elements(got) = {x} \cup Elements(Tail(got))
    BY ElementsTail
  <2>8. /\ HeldBy(t, p) = BlocksOf(p) \cup HandOf(t)
        /\ HeldBy(t, p)' = BlocksOf(p) \cup HandOf(t)'
    BY <1>1, <1>3, <1>6, <2>2, <2>5 DEF HeldBy, Wiping, Working
  <2>9. x \in HeldBy(t, p) /\ HeldBy(t, p)' \subseteq HeldBy(t, p)
    BY <2>6, <2>7, <2>8
  <2>10. x \notin astray
    BY <1>3, <2>9
  <2>11. WritesOwn(t, p)
    BY <1>1, <1>3, <2>1, <2>3, <2>9, <2>10 DEF Tidy, WritesOwn
  <2> QED BY <1>1, <1>2, <1>3, <2>1, <2>2, <2>4, <2>11, SilentStep
<1>8. CASE job[t].got = <<>>
  <2> DEFINE j == [pc |-> "done", code |-> job[t].code, bytes |-> <<>>]
  <2>1. Goes(t, j) /\ UNCHANGED bitmap
    BY <1>8 DEF RollsBack, Finishes
  <2>2. /\ job[t].code \in {INSUFFICIENT_SPACE, METADATA_CREATE_ERROR, METADATA_OPEN_ERROR}
        /\ CreateSound(job[t], meta[p]) \/ ExtendSound(job[t], data, meta[p])
    BY <1>1, <1>4 DEF ReserveSound
  <2>3. RestSound(data, meta[p]) /\ Content(p)' = job[t].was
    <3>1. CASE CreateSound(job[t], meta[p])
      <4>1. meta[p] = Absent /\ meta'[p] = Absent /\ job[t].was = Absent
        BY <1>1, <3>1 DEF CreateSound
      <4> QED BY <4>1 DEF RestSound, Content, Saved
    <3>2. CASE ExtendSound(job[t], data, meta[p])
      <4>1. Whole(data, meta[p], job[t].was) /\ Whole(data', meta'[p], job[t].was)
        BY <1>1, <3>2 DEF ExtendSound
      <4> QED BY <4>1, ContentIsNext DEF RestSound
    <3> QED BY <2>2, <3>1, <3>2
  <2>4. AnswerOf(j) = Store!Code(job[t].code)
    BY DEF AnswerOf, Store!Code
  <2>5. j.pc = "done" /\ JobSound(j, data', meta'[j.path])
    BY <2>2 DEF JobSound, Reserving, INSUFFICIENT_SPACE, METADATA_CREATE_ERROR, METADATA_OPEN_ERROR
  <2> HIDE DEF j
  <2>6. job'[t] = j
    BY <2>1, JobIs DEF Ready
  <2>7. HandOf(t)' = {}
    BY <2>5, <2>6, DistinctEmpty DEF HandOf, InHand, Reserving
  <2>8. HeldBy(t, p)' \subseteq HeldBy(t, p)
    BY <1>1, <1>6, <2>7 DEF HeldBy, Wiping
  <2>9. WritesOwn(t, p)
    BY <1>1, <1>3, <2>1, <2>8, QuietStep DEF Ready
  <2>10. /\ Sound' /\ \A q \in Paths \ {p} : FileOf(q)' = FileOf(q)
         /\ FileOf(p)' = Content(p)' /\ OthersStay(t)
    BY <1>1, <1>3, <2>1, <2>3, <2>5, <2>9, SoundGoes
  <2>11. FileOf(p) = job[t].was
    BY <1>3, FileIs DEF Ready
  <2>12. /\ store[p] = FileOf(p) /\ answered[t] = AnswerOf(job[t])
         /\ store' = [store EXCEPT ![p] = FileOf(p)']
         /\ answered' = [answered EXCEPT ![t] = AnswerOf(j)]
    BY <1>3, <2>6, <2>10, StoreStep DEF Ready
  <2>13. answered[t] = Store!None
    BY <1>1, <2>12 DEF AnswerOf
  <2>14. UNCHANGED store
    <3>1. store = [q \in Paths |-> store[q]]
      BY StoreIs DEF Ready
    <3>2. store' = [store EXCEPT ![p] = store[p]]
      BY <2>3, <2>10, <2>11, <2>12
    <3> QED BY <3>1, <3>2
  <2>15. answered' = [answered EXCEPT ![t] = Store!Code(job[t].code)]
    BY <2>4, <2>12
  <2> QED BY <2>2, <2>10, <2>13, <2>14, <2>15, Refused DEF Ready, Assumed
<1> QED BY <1>7, <1>8

\* The metadata is created, or cannot be.
LEMMA CreateMakesSound ==
    ASSUME Ready, Assumed, NEW t \in Threads, CreateMakes(t)
    PROVE  Sound' /\ StoreNext
<1>1. /\ UNCHANGED <<up, bitmap, data, astray>> /\ job[t].pc = "reserve" /\ job[t].op = "create"
      /\ Len(job[t].got) = job[t].need
  BY DEF CreateMakes, Enough, At
<1>2. PICK p : p = job[t].path
  OBVIOUS
<1>3. /\ p \in Paths /\ OnlyAt(t, p) /\ Working(t, p)
      /\ JobTyped(job[t]) /\ JobSound(job[t], data, meta[p]) /\ DOMAIN meta = Paths
  BY <1>1, <1>2, Serving
<1>4. ReserveSound(job[t], data, meta[p]) /\ job[t].got \in Seq(Blocks) /\ NoBytes(data, job[t].got)
  BY <1>1, <1>3 DEF JobSound, Reserving, ReserveSound
<1>5. CreateSound(job[t], meta[p])
  BY <1>1, <1>4 DEF ReserveSound, ExtendSound
<1>6. CASE Goes(t, [job[t] EXCEPT !.pc = "save"]) /\ meta' = [meta EXCEPT ![p] = Blank]
  <2> DEFINE j == [job[t] EXCEPT !.pc = "save"]
  <2>1. Goes(t, j)
    BY <1>6
  <2>2. /\ SameReserve(j, job[t]) /\ j.pc = "save" /\ j.got = job[t].got /\ j.path = p /\ j.was = job[t].was
    BY <1>1, <1>2, <1>3, <1>5 DEF JobTyped, Reserving, SameReserve, CreateSound
  <2> HIDE DEF j
  <2>3. meta'[p] = Blank /\ \A q \in Paths \ {p} : meta'[q] = meta[q]
    BY <1>3, <1>6
  <2>4. CreateSound(j, meta'[p])
    BY <1>1, <1>5, <2>2, <2>3 DEF CreateSound, SameReserve
  <2>5. JobSound(j, data', meta'[p])
    BY <1>1, <1>4, <2>2, <2>4 DEF JobSound, Reserving, ReserveSound
  <2>6. job'[t] = j
    BY <2>1, JobIs DEF Ready
  <2>7. BlocksOf(p)' = {}
    BY <2>3 DEF BlocksOf, Saved
  <2>8. HeldBy(t, p)' \subseteq HeldBy(t, p)
    BY <1>1, <1>3, <2>2, <2>6, <2>7 DEF HeldBy, HandOf, InHand, Wiping, Working, Reserving
  <2>9. WritesOwn(t, p)
    BY <1>1, <1>3, <2>8, QuietStep DEF Ready
  <2> QED BY <1>1, <1>2, <1>3, <2>1, <2>2, <2>3, <2>5, <2>9, SilentStep
<1>7. CASE Goes(t, [job[t] EXCEPT !.pc = "rollback", !.code = METADATA_CREATE_ERROR]) /\ UNCHANGED meta
  <2> DEFINE j == [job[t] EXCEPT !.pc = "rollback", !.code = METADATA_CREATE_ERROR]
  <2>1. Goes(t, j)
    BY <1>7
  <2>2. /\ SameReserve(j, job[t]) /\ j.pc = "rollback" /\ j.got = job[t].got /\ j.path = p /\ j.was = job[t].was
        /\ j.code = METADATA_CREATE_ERROR
    BY <1>1, <1>2, <1>3, <1>5 DEF JobTyped, Reserving, SameReserve, CreateSound
  <2> HIDE DEF j
  <2>3. JobSound(j, data', meta'[p])
    BY <1>1, <1>4, <1>7, <2>2, ReserveAgain DEF JobSound, Reserving
  <2>4. job'[t] = j
    BY <2>1, JobIs DEF Ready
  <2>5. BlocksOf(p)' = BlocksOf(p)
    BY <1>7 DEF BlocksOf, Saved
  <2>6. HeldBy(t, p)' \subseteq HeldBy(t, p)
    BY <1>1, <1>3, <2>2, <2>4, <2>5 DEF HeldBy, HandOf, InHand, Wiping, Working, Reserving
  <2>7. WritesOwn(t, p)
    BY <1>1, <1>3, <2>6, QuietStep DEF Ready
  <2> QED BY <1>1, <1>2, <1>3, <1>7, <2>1, <2>2, <2>3, <2>7, SilentStep
<1> QED BY <1>2, <1>6, <1>7 DEF CreateMakes

-----------------------------------------------------------------------------

\* The bytes of a new file.
LEMMA NewlinesAre ==
    ASSUME NEW n \in Nat
    PROVE  /\ Newlines(n) \in Seq(Values) /\ Len(Newlines(n)) = n
           /\ \A i \in 1 .. n : Newlines(n)[i] = Newline
           /\ n = 0 <=> Newlines(n) = <<>>
<1>1. Newline \in Values
  BY DEF Values
<1>2. Newlines(n) \in Seq(Values) /\ Len(Newlines(n)) = n
  BY <1>1 DEF Newlines
<1>3. Newlines(n) = <<>> <=> Len(Newlines(n)) = 0
  BY <1>2, EmptySeq
<1> QED BY <1>2, <1>3 DEF Newlines

\* The size and the blocks are set: the file is there, and has no bytes yet.
LEMMA CreateSavesSound ==
    ASSUME Ready, Assumed, NEW t \in Threads, CreateSaves(t)
    PROVE  Sound' /\ StoreNext
<1>1. /\ UNCHANGED <<up, bitmap, data, astray>> /\ job[t].pc = "save" /\ job[t].op = "create"
  BY DEF CreateSaves, At
<1>2. PICK p : p = job[t].path
  OBVIOUS
<1>3. /\ p \in Paths /\ OnlyAt(t, p) /\ Working(t, p) /\ JobSound(job[t], data, meta[p]) /\ DOMAIN meta = Paths
  BY <1>1, <1>2, Serving
<1>4. ReserveSound(job[t], data, meta[p]) /\ CreateSound(job[t], meta[p])
  BY <1>1, <1>3 DEF JobSound, Reserving, ReserveSound, ExtendSound
<1> SUFFICES ASSUME NEW got \in Seq(Blocks), got = job[t].got, NEW n \in Sizes, n = job[t].size,
                    n \in Nat, NoBytes(data, got), n <= Start(Len(got))
             PROVE  Sound' /\ StoreNext
  <2>1. job[t].size \in Nat
    BY <1>4, BoundsAssumption DEF CreateSound
  <2>2. job[t].size <= Start(Len(job[t].got))
    BY <1>1, <1>4, <2>1, CeilDivIs DEF CreateSound
  <2> QED BY <1>4, <2>1, <2>2 DEF ReserveSound, CreateSound
<1> DEFINE m == [size |-> n, blocks |-> got]
           j == [pc |-> "fill", path |-> p, was |-> Absent, blocks |-> got, left |-> n]
<1>5. /\ meta' = [meta EXCEPT ![p] = m] /\ Goes(t, j)
  <2>1. damaged' # TRUE
    BY DEF Ready
  <2> QED BY <1>2, <2>1 DEF CreateSaves
<1>6. meta'[p] = m /\ \A q \in Paths \ {p} : meta'[q] = meta[q]
  BY <1>3, <1>5
<1>7. /\ j.pc = "fill" /\ j.path = p /\ j.was = Absent /\ j.blocks = got /\ j.left = n /\ "was" \in DOMAIN j
      /\ m \notin {Absent, Blank} /\ m.size = n /\ m.blocks = got
  BY DEF Assumed, NoMetadata
<1>8. job[t].was = Absent
  BY <1>4 DEF CreateSound
<1> HIDE DEF m, j
<1>9. FillSound(j, data, m)
  <2>1. Len(got) \in Nat /\ Smaller(Start(0), n) = 0 /\ Newlines(0) = <<>> /\ 0 \in 0 .. Len(got)
    <3>1. Start(0) = 0
      BY BoundsAssumption DEF Start
    <3> QED BY <3>1, LenProperties, NewlinesAre DEF Smaller
  <2>2. got = SubSeq(got, 0 + 1, Len(got))
    BY <2>1
  <2>3. Carries(data, got, <<>>)
    <3>1. Len(<<>>) = 0 /\ <<>> \in Seq(Values) /\ Start(Len(got)) \in Nat
      BY <2>1, EmptySeq, StartIs
    <3>2. ASSUME NEW k \in 1 .. Len(got) PROVE IsChunk(data[got[k]], <<>>, k - 1)
      <4>1. k - 1 \in Nat
        BY <2>1
      <4>2. data[got[k]] = <<>>
        BY DEF NoBytes
      <4>3. PICK x \in Nat : x = k - 1
        BY <4>1
      <4>4. Len(<<>>) <= Start(x)
        BY <3>1, StartIs
      <4>5. IsChunk(<<>>, <<>>, x)
        BY <3>1, <4>4, EmptyChunk
      <4> QED BY <4>2, <4>3, <4>5, Zenon
    <3> QED BY <3>1, <3>2 DEF Carries
  <2>4. n - Smaller(Start(0), n) = n
    BY <2>1
  <2> QED BY <1>7, <2>1, <2>2, <2>3, <2>4 DEF FillSound
<1>10. JobSound(j, data', meta'[p])
  BY <1>1, <1>6, <1>7, <1>9 DEF JobSound, Reserving
<1>11. job'[t] = j
  BY <1>5, JobIs DEF Ready
<1>12. HeldBy(t, p)' \subseteq HeldBy(t, p)
  <2>1. HandOf(t) = Elements(got) /\ HandOf(t)' = {}
    BY <1>1, <1>7, <1>11, DistinctEmpty DEF HandOf, InHand, Reserving, Elements
  <2>2. BlocksOf(p)' \subseteq Elements(got)
    BY <1>6, <1>7 DEF BlocksOf, Elements
  <2> QED BY <1>3, <2>1, <2>2 DEF HeldBy
<1>13. WritesOwn(t, p)
  BY <1>1, <1>3, <1>12, QuietStep DEF Ready
<1> QED BY <1>1, <1>2, <1>3, <1>5, <1>6, <1>7, <1>8, <1>10, <1>13, SilentStep

\* Newlines after newlines.
LEMMA NewlinesMore ==
    ASSUME NEW m \in Nat, NEW n \in Nat
    PROVE  Store!Written(Newlines(m), m, Newlines(n)) = Newlines(m + n)
<1> DEFINE x == Newlines(m)
           y == Newlines(n)
           z == Newlines(m + n)
           w == Store!Written(x, m, y)
<1>1. /\ x \in Seq(Values) /\ Len(x) = m /\ \A i \in 1 .. m : x[i] = Newline
  BY NewlinesAre
<1>2. /\ y \in Seq(Values) /\ Len(y) = n /\ \A i \in 1 .. n : y[i] = Newline
  BY NewlinesAre
<1>3. /\ z \in Seq(Values) /\ Len(z) = m + n /\ \A i \in 1 .. m + n : z[i] = Newline
  BY NewlinesAre
<1> HIDE DEF x, y, z
<1>4. Overlaid(Values, w, x, m, y)
  <2>1. m \in 0 .. Len(x)
    BY <1>1
  <2> QED BY <1>1, <1>2, <2>1, WrittenIs
<1> HIDE DEF w
<1>5. /\ w \in Seq(Values) /\ Len(w) = m + n
      /\ \A i \in 1 .. Len(w) : w[i] = IF m < i /\ i <= m + n THEN y[i - m] ELSE x[i]
  BY <1>1, <1>2, <1>4 DEF Overlaid, Larger
<1>6. ASSUME NEW i \in 1 .. m + n PROVE w[i] = z[i]
  <2>1. CASE m < i
    <3>1. i - m \in 1 .. n
      BY <2>1
    <3> QED BY <1>2, <1>3, <1>5, <2>1, <3>1
  <2>2. CASE ~(m < i)
    BY <1>1, <1>3, <1>5, <2>2
  <2> QED BY <2>1, <2>2
<1> QED BY <1>3, <1>5, <1>6, SeqEqual DEF w, x, y, z

\* What is left of the blocks after k of them.
IsSuffix(r, s, k) == r = SubSeq(s, k + 1, Len(s))

\* The first of the blocks that are left is the one after those filled, and then there is one less.
LEMMA SuffixOf ==
    ASSUME NEW V, NEW s \in Seq(V), NEW k \in 0 .. Len(s), NEW r, IsSuffix(r, s, k)
    PROVE  /\ r \in Seq(V) /\ (r = <<>> <=> k = Len(s))
           /\ r # <<>> => /\ k + 1 \in 1 .. Len(s) /\ Head(r) = s[k + 1] /\ s[k + 1] \in V
                          /\ IsSuffix(Tail(r), s, k + 1)
<1> USE DEF IsSuffix
<1>0. Len(s) \in Nat /\ k \in Nat
  BY LenProperties
<1>1. /\ r \in Seq(V) /\ Len(r) = Len(s) - k
      /\ \A i \in 1 .. Len(s) - k : r[i] = s[k + i]
  <2>1. /\ r \in Seq(V) /\ Len(r) = (IF k + 1 <= Len(s) THEN Len(s) - (k + 1) + 1 ELSE 0)
        /\ \A i \in 1 .. Len(s) - (k + 1) + 1 : r[i] = s[k + 1 + i - 1]
    BY <1>0, PartOf
  <2> QED BY <1>0, <2>1
<1>2. r = <<>> <=> k = Len(s)
  <2>1. r = <<>> <=> Len(r) = 0
    BY <1>1, EmptySeq
  <2> QED BY <1>0, <1>1, <2>1
<1>3. ASSUME r # <<>>
      PROVE  /\ k + 1 \in 1 .. Len(s) /\ Head(r) = s[k + 1] /\ s[k + 1] \in V
             /\ Tail(r) = SubSeq(s, k + 1 + 1, Len(s))
  <2>1. k + 1 \in 1 .. Len(s) /\ k < Len(s)
    BY <1>0, <1>2, <1>3
  <2>2. /\ Tail(r) \in Seq(V) /\ Len(Tail(r)) = Len(r) - 1
        /\ \A i \in 1 .. Len(Tail(r)) : Tail(r)[i] = r[i + 1]
        /\ Head(r) = r[1]
    BY <1>1, <1>3, HeadTailProperties
  <2>3. Head(r) = s[k + 1] /\ s[k + 1] \in V
    BY <1>0, <1>1, <2>1, <2>2, ElementOfSeq
  <2> DEFINE y == SubSeq(s, k + 1 + 1, Len(s))
  <2>4. /\ y \in Seq(V) /\ Len(y) = Len(s) - k - 1
        /\ \A i \in 1 .. Len(s) - k - 1 : y[i] = s[k + 1 + i]
    <3>1. /\ y \in Seq(V) /\ Len(y) = (IF k + 1 + 1 <= Len(s) THEN Len(s) - (k + 1 + 1) + 1 ELSE 0)
          /\ \A i \in 1 .. Len(s) - (k + 1 + 1) + 1 : y[i] = s[k + 1 + 1 + i - 1]
      BY <1>0, PartOf
    <3> QED BY <1>0, <2>1, <3>1
  <2> HIDE DEF y
  <2>5. Len(Tail(r)) = Len(s) - k - 1
    BY <1>0, <1>1, <2>1, <2>2
  <2>6. ASSUME NEW i \in 1 .. Len(s) - k - 1 PROVE Tail(r)[i] = y[i]
    <3>1. Tail(r)[i] = r[i + 1] /\ i + 1 \in 1 .. Len(s) - k /\ k + (i + 1) = k + 1 + i
      BY <1>0, <2>2, <2>5
    <3> QED BY <1>1, <2>4, <3>1
  <2>7. Tail(r) = y
    BY <2>2, <2>4, <2>5, <2>6, SeqEqual
  <2> QED BY <2>1, <2>3, <2>7 DEF y
<1> QED BY <1>1, <1>2, <1>3

\* Writing nothing.
LEMMA PutNothing ==
    ASSUME NEW s \in Seq(Values)
    PROVE  PutContent(s, 0, <<>>) = s
<1>1. Len(s) \in Nat /\ Len(<<>>) = 0 /\ s = [i \in 1 .. Len(s) |-> s[i]]
  BY LenProperties, EmptySeq
<1>2. Larger(Len(s), 0 + Len(<<>>)) = Len(s)
  BY <1>1 DEF Larger
<1>3. \A i \in 1 .. Len(s) : ~(0 < i /\ i <= 0 + Len(<<>>)) /\ i <= Len(s)
  BY <1>1
<1> QED BY <1>1, <1>2, <1>3 DEF PutContent

\* An empty buffer changes no byte.
LEMMA WrittenNothing ==
    ASSUME NEW s \in Seq(Values), NEW o \in 0 .. Len(s)
    PROVE  Store!Written(s, o, <<>>) = s
<1> DEFINE w == Store!Written(s, o, <<>>)
<1>0. Len(s) \in Nat /\ <<>> \in Seq(Values) /\ Len(<<>>) = 0
  BY LenProperties, EmptySeq
<1>1. Overlaid(Values, w, s, o, <<>>)
  BY <1>0, WrittenIs
<1> HIDE DEF w
<1>2. /\ w \in Seq(Values) /\ Len(w) = Len(s) /\ \A i \in 1 .. Len(w) : w[i] = s[i]
  BY <1>0, <1>1 DEF Overlaid, Larger
<1> QED BY <1>2, SeqEqual DEF w

\* A write to a block of the file, in what stays the same otherwise.
LEMMA OwnWrite ==
    ASSUME Ready, NEW t \in Threads, NEW p, p = job[t].path, job[t].pc \notin {"idle", "done"},
           NEW b \in HeldBy(t, p), NEW s, data' = [data EXCEPT ![b] = s],
           UNCHANGED <<bitmap, astray>>, HeldBy(t, p)' \subseteq HeldBy(t, p)
    PROVE  WritesOwn(t, p)
<1>1. Tidy /\ HeldBy(t, p) \cap astray = {} /\ HeldBy(t, p) \subseteq bitmap
  BY Serving
<1>2. DOMAIN data' = Blocks /\ \A x \in Blocks : x # b => data'[x] = data[x]
  BY <1>1 DEF Tidy
<1> QED BY <1>1, <1>2 DEF Tidy, WritesOwn

\* The blocks of a sequence that a thread or a file has are not repeated.
LEMMA AllDistinct ==
    ASSUME NEW s \in Seq(Blocks), Distinct(s), Elements(s) \cap astray = {}
    PROVE  \A i, k \in 1 .. Len(s) : s[i] = s[k] => i = k
<1>1. DOMAIN s = 1 .. Len(s)
  BY LenProperties
<1> QED BY <1>1 DEF Distinct, Elements

\* How much of n bytes is filled after one more block.
LEMMA FilledMore ==
    ASSUME NEW n \in Nat, NEW k \in Nat, NEW x, x = Smaller(Start(k), n),
           NEW y, y = Smaller(n - x, BlockSize)
    PROVE  /\ x \in Nat /\ y \in 0 .. BlockSize /\ x + y = Smaller(Start(k + 1), n)
           /\ y # 0 => x = Start(k)
<1>1. Start(k) \in Nat /\ BlockSize \in Nat /\ Start(k + 1) = Start(k) + BlockSize
  BY StartIs, BoundsAssumption
<1> QED BY <1>1 DEF Smaller

\* The next block is filled, or the file is complete.
LEMMA CreateFillsSound ==
    ASSUME Ready, Assumed, NEW t \in Threads, CreateFills(t)
    PROVE  Sound' /\ StoreNext
<1>1. UNCHANGED <<up, bitmap, meta, astray>> /\ job[t].pc = "fill"
  BY DEF CreateFills, At, history
<1>2. PICK p : p = job[t].path
  OBVIOUS
<1>3. /\ p \in Paths /\ OnlyAt(t, p) /\ Working(t, p) /\ JobTyped(job[t])
      /\ JobSound(job[t], data, meta[p]) /\ Tidy /\ HeldBy(t, p) \cap astray = {}
  BY <1>1, <1>2, Serving
<1>4. FillSound(job[t], data, meta[p])
  BY <1>1, <1>3 DEF JobSound
<1> SUFFICES ASSUME NEW bl \in Seq(Blocks), bl = meta[p].blocks, NEW n \in Nat, n = meta[p].size,
                    NEW k \in 0 .. Len(bl), n <= Start(Len(bl)), n \in Sizes,
                    NEW r, r = job[t].blocks, IsSuffix(r, bl, k),
                    NEW x, x = Smaller(Start(k), n), job[t].left = n - x,
                    Carries(data, bl, Newlines(x))
             PROVE  Sound' /\ StoreNext
  BY <1>4, BoundsAssumption DEF FillSound, IsSuffix
<1>5. Saved(p) /\ Saved(p)' /\ meta[p] \notin {Absent, Blank} /\ job[t].was = Absent /\ "was" \in DOMAIN job[t]
  BY <1>1, <1>4 DEF FillSound, Saved
<1>6. BlocksOf(p) = Elements(bl) /\ BlocksOf(p)' = Elements(bl)
  BY <1>1, <1>5 DEF BlocksOf, Elements
<1>7. HeldBy(t, p) = Elements(bl)
  <2>1. HandOf(t) = {}
    BY <1>1, DistinctEmpty DEF HandOf, InHand, Reserving
  <2> QED BY <1>1, <1>6, <2>1 DEF HeldBy, Wiping
<1>8. k \in Nat /\ Len(bl) \in Nat
  BY LenProperties
<1> DEFINE y == Smaller(job[t].left, BlockSize)
<1>9. /\ r = <<>> <=> k = Len(bl)
      /\ r # <<>> => /\ k + 1 \in 1 .. Len(bl) /\ Head(r) = bl[k + 1] /\ bl[k + 1] \in Blocks
                     /\ IsSuffix(Tail(r), bl, k + 1)
  BY SuffixOf
<1>10. CASE r = <<>>
  <2> DEFINE j == [pc |-> "flush", path |-> p, was |-> Absent]
  <2>1. Goes(t, j) /\ UNCHANGED data
    BY <1>2, <1>10 DEF CreateFills
  <2>2. j.pc = "flush" /\ j.path = p /\ j.was = Absent /\ "was" \in DOMAIN j
    OBVIOUS
  <2> HIDE DEF j
  <2>3. EffectSound(data, meta[p], Absent)
    <3>1. x = n
      <4>1. Start(k) \in Nat /\ k = Len(bl)
        BY <1>8, <1>9, <1>10, StartIs
      <4> QED BY <4>1 DEF Smaller
    <3>2. n # 0
      BY DEF Assumed
    <3>3. Newlines(n) \in Seq(Values) /\ Len(Newlines(n)) = n /\ Newlines(n) # <<>>
      BY <3>2, NewlinesAre
    <3>4. Whole(data, meta[p], Newlines(n))
      BY <1>5, <3>1, <3>3 DEF Whole
    <3>5. After(Absent, Newlines(n))
      BY DEF After
    <3> QED BY <3>4, <3>5 DEF EffectSound
  <2>4. JobSound(j, data', meta'[p])
    BY <1>1, <2>1, <2>2, <2>3 DEF JobSound, Reserving
  <2>5. job'[t] = j
    BY <2>1, JobIs DEF Ready
  <2>6. HeldBy(t, p)' \subseteq HeldBy(t, p)
    <3>1. HandOf(t)' = {}
      BY <2>2, <2>5, DistinctEmpty DEF HandOf, InHand, Reserving
    <3> QED BY <1>6, <1>7, <3>1 DEF HeldBy
  <2>7. WritesOwn(t, p)
    BY <1>1, <1>3, <2>1, <2>6, QuietStep DEF Ready
  <2> QED BY <1>1, <1>2, <1>3, <1>5, <2>1, <2>2, <2>4, <2>7, SilentStep
<1>11. CASE r # <<>>
  <2> DEFINE b == bl[k + 1]
             j == [job[t] EXCEPT !.blocks = Tail(@), !.left = @ - y]
  <2>1. Goes(t, j) /\ data' = [data EXCEPT ![b] = PutContent(@, 0, Newlines(y))]
    BY <1>9, <1>11 DEF CreateFills, Newlines
  <2>2. /\ j.pc = "fill" /\ j.path = p /\ j.was = Absent /\ "was" \in DOMAIN j
        /\ j.blocks = Tail(r) /\ j.left = job[t].left - y
    BY <1>1, <1>2, <1>3, <1>5 DEF JobTyped
  <2>3. /\ x \in Nat /\ y \in 0 .. BlockSize /\ x + y = Smaller(Start(k + 1), n)
        /\ y # 0 => x = Start(k)
    <3>1. y = Smaller(n - x, BlockSize)
      OBVIOUS
    <3> HIDE DEF y
    <3> QED BY <1>8, <3>1, FilledMore
  <2> HIDE DEF j
  <2>4. y \in Nat /\ x + y \in Nat /\ BlockSize \in Nat
    BY <2>3, BoundsAssumption
  <2> HIDE DEF y
  <2>5. b \in Elements(bl) /\ b \in Blocks /\ k + 1 \in 1 .. Len(bl)
    <3>1. k + 1 \in DOMAIN bl
      BY <1>9, <1>11, LenProperties
    <3> QED BY <1>9, <1>11, <3>1 DEF Elements
  <2>6. Carries(data', bl, Newlines(x + y))
    <3>1. CASE y = 0
      <4>1. IsChunk(data[b], Newlines(x), k)
        <5>1. IsChunk(data[bl[k + 1]], Newlines(x), (k + 1) - 1)
          BY <2>5 DEF Carries
        <5>2. (k + 1) - 1 = k
          BY <1>8
        <5> QED BY <5>1, <5>2
      <4>2. PutContent(data[b], 0, Newlines(y)) = data[b]
        BY <3>1, <4>1, NewlinesAre, PutNothing DEF IsChunk
      <4>3. \A i \in 1 .. Len(bl) : data'[bl[i]] = data[bl[i]]
        <5>1. data' = [data EXCEPT ![b] = data[b]]
          BY <2>1, <4>2
        <5> HIDE DEF b
        <5> QED BY <5>1, <1>3, ElementOfSeq DEF Tidy
      <4>4. x + y = x
        BY <2>3, <3>1
      <4> QED BY <4>3, <4>4, CarriesStays
    <3>2. CASE y # 0
      <4>1. /\ Newlines(x) \in Seq(Values) /\ Newlines(y) \in Seq(Values) /\ Newlines(y) # <<>>
            /\ Len(Newlines(y)) = y /\ Len(Newlines(x)) = x
        BY <2>3, <2>4, <3>2, NewlinesAre
      <4>2. \A i, m \in 1 .. Len(bl) : bl[i] = bl[m] => i = m
        <5>1. Distinct(bl)
          BY <1>3, <1>5 DEF Ready, Owners, Typed, FileTyped
        <5> QED BY <1>3, <1>7, <5>1, AllDistinct
      <4>3. x = Start(k) + 0 /\ 0 + y <= BlockSize /\ k \in 0 .. Len(bl) - 1 /\ DOMAIN data = Blocks
        BY <1>3, <1>8, <2>3, <2>4, <2>5, <3>2 DEF Tidy
      <4>4. Start(k) + 0 <= Len(Newlines(x)) /\ 0 + Len(Newlines(y)) <= BlockSize
        BY <2>3, <4>1, <4>3
      <4>5. Carries(data', bl, Store!Written(Newlines(x), Start(k) + 0, Newlines(y)))
        BY <2>1, <4>1, <4>2, <4>3, <4>4, CarriesPut
      <4> QED BY <2>3, <2>4, <4>3, <4>5, NewlinesMore
    <3> QED BY <3>1, <3>2
  <2>7. FillSound(j, data', meta[p])
    <3>1. k + 1 \in 0 .. Len(bl)
      BY <1>8, <2>5
    <3>2. n - x - y = n - (x + y)
      BY <2>3, <2>4
    <3>3. j.blocks = SubSeq(bl, (k + 1) + 1, Len(bl)) /\ j.left = n - Smaller(Start(k + 1), n)
      BY <1>9, <1>11, <2>2, <2>3, <3>2 DEF IsSuffix
    <3> QED BY <1>5, <2>2, <2>3, <2>6, <3>1, <3>3 DEF FillSound
  <2>8. JobSound(j, data', meta'[p])
    BY <1>1, <2>2, <2>7 DEF JobSound, Reserving
  <2>9. job'[t] = j
    BY <2>1, JobIs DEF Ready
  <2>10. HeldBy(t, p)' \subseteq HeldBy(t, p)
    <3>1. HandOf(t)' = {}
      BY <2>2, <2>9, DistinctEmpty DEF HandOf, InHand, Reserving
    <3> QED BY <1>6, <1>7, <3>1 DEF HeldBy
  <2>11. WritesOwn(t, p)
    BY <1>1, <1>2, <1>7, <2>1, <2>5, <2>10, OwnWrite
  <2> QED BY <1>1, <1>2, <1>3, <1>5, <2>1, <2>2, <2>8, <2>11, SilentStep
<1> QED BY <1>10, <1>11

\* The buffers that are written are sequences of values.
LEMMA WritesAre ==
    ASSUME NEW b \in Writes
    PROVE  b \in Seq(Values)
<1>1. b \in Seq(Elements(b)) /\ Elements(b) \subseteq Values
  BY BoundsAssumption DEF Elements, Values
<1>2. b \in [1 .. Len(b) -> Elements(b)] /\ Len(b) \in Nat
  BY <1>1, LenProperties
<1>3. b \in [1 .. Len(b) -> Values]
  <2>1. PICK D : D = 1 .. Len(b)
    OBVIOUS
  <2> QED BY <1>1, <1>2
<1> QED BY <1>2, <1>3, SeqDef

\* The loop of a write begins: what it will leave is what is written.
LEMMA PutLoopSound ==
    ASSUME NEW c \in Seq(Values), c # <<>>, NEW bl \in Seq(Blocks), Carries(data, bl, c),
           NEW o \in 0 .. Len(c), NEW b \in Writes, o + Len(b) <= Start(Len(bl)),
           NEW p, NEW size, size = Larger(Len(c), o + Len(b)),
           NEW j, j = PutLoop(p, c, size, bl, o, b)
    PROVE  PutSound(j, data)
<1>1. /\ j.was = c /\ j.blocks = bl /\ j.buffer = b /\ j.i = FirstBlock(o)
      /\ j.from = FIFA_GetFirstByteFromOffset(o) /\ j.size = size /\ {"was", "size"} \subseteq DOMAIN j
  BY DEF PutLoop
<1>2. Len(c) \in Nat /\ o \in Nat /\ b \in Seq(Values) /\ Len(b) \in Nat
  BY LenProperties, WritesAre
<1>3. /\ FirstBlock(o) \in Nat /\ FIFA_GetFirstByteFromOffset(o) \in 0 .. BlockSize - 1
      /\ o = Start(FirstBlock(o)) + FIFA_GetFirstByteFromOffset(o)
  BY <1>2, FirstBlockIs
<1>4. PICK w : w = Store!Written(c, o, b)
  OBVIOUS
<1>5. After(c, w)
  BY <1>4 DEF After
<1>6. Puts(j, c, w)
  <2>1. CASE b = <<>>
    <3>1. w = c
      BY <1>4, <2>1, WrittenNothing
    <3>2. Len(b) = 0
      BY <2>1, EmptySeq
    <3> HIDE <2>1
    <3>3. Larger(Len(c), o + Len(b)) = Len(c)
      BY <1>2, <3>2 DEF Larger
    <3> QED BY <1>1, <2>1, <3>1, <3>3 DEF Puts
  <2>2. CASE b # <<>>
    BY <1>1, <1>2, <1>3, <1>4, <2>2 DEF Puts
  <2> QED BY <2>1, <2>2
<1> QED BY <1>1, <1>2, <1>3, <1>5, <1>6 DEF PutSound

\* The blocks reserved follow those the file has.
LEMMA WriteExtendsSound ==
    ASSUME Ready, Assumed, NEW t \in Threads, WriteExtends(t)
    PROVE  Sound' /\ StoreNext
<1>1. /\ UNCHANGED <<up, bitmap, meta, data, astray>> /\ job[t].pc = "reserve" /\ job[t].op = "write"
      /\ Len(job[t].got) = job[t].need
  BY DEF WriteExtends, Enough, At, disk, history
<1>2. PICK p : p = job[t].path
  OBVIOUS
<1>3. /\ p \in Paths /\ OnlyAt(t, p) /\ Working(t, p) /\ JobSound(job[t], data, meta[p])
  BY <1>1, <1>2, Serving
<1>4. ReserveSound(job[t], data, meta[p]) /\ ExtendSound(job[t], data, meta[p])
  BY <1>1, <1>3 DEF JobSound, Reserving, ReserveSound, CreateSound
<1> SUFFICES ASSUME NEW got \in Seq(Blocks), got = job[t].got, NoBytes(data, got),
                    NEW bl \in Seq(Blocks), bl = meta[p].blocks,
                    NEW c \in Seq(Values), c = job[t].was, c # <<>>, Carries(data, bl, c),
                    NEW o \in 0 .. Len(c), o = job[t].offset, NEW b \in Writes, b = job[t].buffer,
                    Len(c) < o + Len(b), o + Len(b) <= Start(Len(bl) + Len(got))
             PROVE  Sound' /\ StoreNext
  BY <1>1, <1>4 DEF ReserveSound, ExtendSound, Whole
<1>5. Saved(p) /\ Saved(p)'
  BY <1>1, <1>4 DEF ExtendSound, Whole, Saved
<1> DEFINE n == o + Len(b)
           all == bl \o got
           j == PutLoop(p, c, n, all, o, b)
<1>6. Goes(t, j)
  BY <1>2 DEF WriteExtends
<1>7. j.pc = "put" /\ j.path = p /\ j.was = c /\ j.blocks = all
  BY DEF PutLoop
<1>8. all \in Seq(Blocks) /\ Len(all) = Len(bl) + Len(got) /\ Elements(all) = Elements(bl) \cup Elements(got)
  BY ConcatProperties, ElementsConcat
<1>9. Carries(data, all, c)
  BY CarriesMore DEF NoBytes
<1>10. n = Larger(Len(c), n)
  <2>1. Len(c) \in Nat /\ Len(b) \in Nat /\ o \in Nat
    BY LenProperties, WritesAre
  <2> QED BY <2>1 DEF Larger
<1>11. PutSound(j, data)
  <2>1. o + Len(b) <= Start(Len(all))
    BY <1>8
  <2> HIDE DEF all
  <2>2. n = Larger(Len(c), o + Len(b))
    BY <1>10
  <2> HIDE DEF n
  <2>3. PICK k : k = j
    OBVIOUS
  <2>4. k = PutLoop(p, c, n, all, o, b)
    BY <2>3
  <2>5. PutSound(k, data)
    BY <1>8, <1>9, <2>1, <2>2, <2>4, PutLoopSound
  <2> QED BY <2>3, <2>5
<1> HIDE DEF j, n, all
<1>12. JobSound(j, data', meta'[p])
  BY <1>1, <1>7, <1>11 DEF JobSound, Reserving
<1>13. job'[t] = j
  BY <1>6, JobIs DEF Ready
<1>14. HeldBy(t, p)' \subseteq HeldBy(t, p)
  <2>1. HandOf(t) = Elements(got) /\ HandOf(t)' = Elements(all)
    BY <1>1, <1>7, <1>13 DEF HandOf, InHand, Reserving, Elements
  <2>2. BlocksOf(p) = Elements(bl) /\ BlocksOf(p)' = Elements(bl)
    BY <1>1, <1>5 DEF BlocksOf, Elements
  <2> QED BY <1>1, <1>3, <1>8, <2>1, <2>2 DEF HeldBy, Wiping
<1>15. WritesOwn(t, p)
  BY <1>1, <1>3, <1>14, QuietStep DEF Ready
<1> QED BY <1>1, <1>2, <1>3, <1>6, <1>7, <1>12, <1>15, SilentStep

\* One more block is written, of numbers: what is left then starts at the next block.
Fits(y, from, n) == y = Smaller(BlockSize - from, n)
PutsTo(k, from, y, n) ==
    /\ y \in 1 .. n /\ from + y <= BlockSize
    /\ y # n => Start(k) + from + y = Start(k + 1)

\* How far one more block goes: to the end of the buffer, or of the block.
LEMMA PutOn ==
    ASSUME NEW k \in Nat, NEW from \in 0 .. BlockSize - 1, NEW n \in Nat \ {0},
           NEW y, Fits(y, from, n)
    PROVE  PutsTo(k, from, y, n)
<1> USE DEF Fits, PutsTo
<1>1. Start(k) \in Nat /\ BlockSize \in Nat /\ Start(k + 1) = Start(k) + BlockSize
  BY StartIs, BoundsAssumption
<1> QED BY <1>1 DEF Smaller

\* What a job that writes has left after one more block.
Leaves(w, c, at, b) == w = Store!Written(c, at, b)
Ends(size, c, at, b) == size = Larger(Len(c), at + Len(b))
PutsRest(w, size, x, at, b, y, r) ==
    /\ x \in Seq(Values) /\ x # <<>> /\ r \in Seq(Values)
    /\ r = <<>> => y = Len(b) /\ x = w /\ size = Len(x)
    /\ r # <<>> => /\ y # Len(b) /\ at + y <= Len(x) /\ at + y + Len(r) = at + Len(b)
                   /\ Leaves(w, x, at + y, r) /\ Ends(size, x, at + y, r)

\* What is left to write gives what the whole buffer would have given.
LEMMA PutsOn ==
    ASSUME NEW c \in Seq(Values), NEW at \in 0 .. Len(c), NEW b \in Seq(Values), NEW y \in 1 .. Len(b),
           NEW size, Ends(size, c, at, b), NEW w, Leaves(w, c, at, b),
           NEW x, Leaves(x, c, at, SubSeq(b, 1, y)), NEW r, IsSuffix(r, b, y)
    PROVE  PutsRest(w, size, x, at, b, y, r)
<1> SUFFICES ASSUME size = Larger(Len(c), at + Len(b)), w = Store!Written(c, at, b),
                    x = Store!Written(c, at, SubSeq(b, 1, y)), r = SubSeq(b, y + 1, Len(b))
             PROVE  /\ x \in Seq(Values) /\ x # <<>> /\ r \in Seq(Values)
                    /\ r = <<>> => y = Len(b) /\ x = Store!Written(c, at, b) /\ size = Len(x)
                    /\ r # <<>> => /\ y # Len(b) /\ at + y <= Len(x) /\ at + y + Len(r) = at + Len(b)
                                   /\ Store!Written(x, at + y, r) = Store!Written(c, at, b)
                                   /\ size = Larger(Len(x), at + y + Len(r))
  BY Zenon DEF PutsRest, Leaves, Ends, IsSuffix
<1>0. Len(c) \in Nat /\ Len(b) \in Nat /\ at \in Nat /\ y \in Nat /\ 1 <= y /\ y <= Len(b) /\ at <= Len(c)
  BY LenProperties
<1>1. /\ x \in Seq(Values) /\ Len(x) = Larger(Len(c), at + y) /\ at + y \in 0 .. Len(x)
      /\ Store!Written(x, at + y, r) = Store!Written(c, at, b)
  BY WrittenInParts
<1>2. r \in Seq(Values) /\ Len(r) = Len(b) - y
  <2>1. r \in Seq(Values) /\ Len(r) = IF y + 1 <= Len(b) THEN Len(b) - (y + 1) + 1 ELSE 0
    BY <1>0, PartOf
  <2> QED BY <1>0, <2>1
<1>3. r = <<>> <=> Len(r) = 0
  BY <1>2, EmptySeq
<1>4. Len(x) \in Nat /\ Len(x) > 0
  BY <1>0, <1>1 DEF Larger
<1>5. x # <<>>
  BY <1>4, EmptySeq
<1>6. ASSUME r = <<>> PROVE y = Len(b) /\ x = Store!Written(c, at, b) /\ size = Len(x)
  <2>1. y = Len(b)
    BY <1>0, <1>2, <1>3, <1>6
  <2>2. Store!Written(x, at + y, r) = x
    BY <1>1, <1>6, WrittenNothing
  <2> QED BY <1>1, <2>1, <2>2
<1>7. ASSUME r # <<>> PROVE /\ y # Len(b) /\ at + y <= Len(x) /\ at + y + Len(r) = at + Len(b)
                            /\ size = Larger(Len(x), at + y + Len(r))
  <2>1. y < Len(b) /\ Len(r) \in Nat
    BY <1>0, <1>2, <1>3, <1>7
  <2>2. PICK lx \in Nat : lx = Len(x)
    BY <1>4
  <2>3. PICK lr \in Nat : lr = Len(r)
    BY <2>1
  <2>4. PICK lb \in Nat : lb = Len(b)
    BY <1>0
  <2>5. at + y <= lx
    BY <1>0, <1>1, <2>2
  <2>6. lr = lb - y
    BY <1>2, <2>3, <2>4
  <2>7. at + y + lr = at + lb
    BY <1>0, <2>6
  <2>8. lx = Larger(Len(c), at + y)
    BY <1>1, <2>2
  <2>9. Larger(lx, at + y + lr) = Larger(Len(c), at + lb)
    <3>1. y < lb
      BY <2>1, <2>4
    <3>2. PICK lc \in Nat : lc = Len(c)
      BY <1>0
    <3>3. lx = Larger(lc, at + y)
      BY <2>8, <3>2
    <3>4. Larger(lx, at + lb) = Larger(lc, at + lb)
      BY <1>0, <3>1, <3>3 DEF Larger
    <3> QED BY <2>7, <3>2, <3>4
  <2>10. at + y <= Len(x) /\ at + y + Len(r) = at + Len(b)
    BY <2>2, <2>3, <2>4, <2>5, <2>7
  <2>11. size = Larger(Len(x), at + y + Len(r))
    BY <2>2, <2>3, <2>4, <2>9
  <2>12. y # Len(b)
    BY <1>0, <2>1
  <2> QED BY <2>10, <2>11, <2>12
<1> QED BY <1>1, <1>2, <1>5, <1>6, <1>7

\* The next block is written.
LEMMA WritePutsSound ==
    ASSUME Ready, Assumed, NEW t \in Threads, WritePuts(t)
    PROVE  Sound' /\ StoreNext
<1>1. /\ UNCHANGED <<up, bitmap, meta, astray>> /\ job[t].pc = "put" /\ job[t].i < Len(job[t].blocks)
      /\ job[t].buffer # <<>>
  BY DEF WritePuts, At, history
<1>2. PICK p : p = job[t].path
  OBVIOUS
<1>3. /\ p \in Paths /\ OnlyAt(t, p) /\ Working(t, p) /\ JobTyped(job[t]) /\ HandNew(t)
      /\ JobSound(job[t], data, meta[p]) /\ Tidy /\ HeldBy(t, p) \cap astray = {}
  BY <1>1, <1>2, Serving
<1>4. PutSound(job[t], data)
  BY <1>1, <1>3 DEF JobSound
<1>5. PICK c, w : /\ c \in Seq(Values) /\ c # <<>> /\ Carries(data, job[t].blocks, c)
                  /\ After(job[t].was, w) /\ Puts(job[t], c, w)
  BY <1>4, Zenon DEF PutSound
<1>a. PICK bl \in Seq(Blocks) : bl = job[t].blocks
  BY <1>4 DEF PutSound
<1>b. PICK b \in Seq(Values) : b = job[t].buffer
  BY <1>4 DEF PutSound
<1>k. PICK k \in Nat : k = job[t].i
  BY <1>4 DEF PutSound
<1>f. PICK from \in 0 .. BlockSize - 1 : from = job[t].from
  BY <1>4 DEF PutSound
<1>n. /\ Len(bl) \in Nat /\ Len(b) \in Nat \ {0} /\ Len(c) \in Nat /\ Start(k) \in Nat
      /\ BlockSize \in Nat /\ from \in Nat
  <2>1. Len(bl) \in Nat /\ Len(b) \in Nat /\ Len(c) \in Nat
    BY <1>5, LenProperties
  <2>2. Len(b) # 0
    BY <1>1, <1>b, EmptySeq
  <2>3. Start(k) \in Nat /\ BlockSize \in Nat
    BY StartIs, BoundsAssumption
  <2>4. from \in Nat
    BY <1>f, <2>3
  <2> QED BY <2>1, <2>2, <2>3, <2>4
<1>i. k + 1 \in 1 .. Len(bl) /\ k \in 0 .. Len(bl) - 1
  BY <1>1, <1>a, <1>k, <1>n
<1>p. PICK at \in Nat : at = Start(k) + from
  BY <1>n
<1>q. PICK size : size = job[t].size
  OBVIOUS
<1>r. /\ at <= Len(c) /\ at + Len(b) <= Start(Len(bl)) /\ Leaves(w, c, at, b) /\ Ends(size, c, at, b)
  BY <1>1, <1>5, <1>a, <1>b, <1>k, <1>f, <1>p, <1>q DEF Puts, Leaves, Ends
<1>s. at \in 0 .. Len(c)
  BY <1>n, <1>p, <1>r
<1>6. /\ job[t].was \in Seq(Values) /\ {"was", "size"} \subseteq DOMAIN job[t]
  BY <1>4 DEF PutSound
<1>8. PICK y \in Nat : y = Smaller(BlockSize - from, Len(b)) /\ PutsTo(k, from, y, Len(b))
  <2>1. PICK y : Fits(y, from, Len(b))
    BY DEF Fits
  <2>2. PutsTo(k, from, y, Len(b))
    BY <1>k, <1>f, <1>n, <2>1, PutOn
  <2>3. y \in Nat
    BY <1>n, <2>2 DEF PutsTo
  <2> QED BY <2>1, <2>2, <2>3 DEF Fits
<1>9. /\ y \in 1 .. Len(b) /\ from + y <= BlockSize
      /\ y # Len(b) => Start(k) + from + y = Start(k + 1)
  BY <1>8 DEF PutsTo
<1>10. PICK s : s = SubSeq(b, 1, y)
  OBVIOUS
<1>11. PICK r : r = SubSeq(b, y + 1, Len(b))
  OBVIOUS
<1>12. PICK x : x = Store!Written(c, at, s)
  OBVIOUS
<1>14. /\ x \in Seq(Values) /\ x # <<>> /\ r \in Seq(Values)
       /\ r = <<>> => y = Len(b) /\ x = w /\ size = Len(x)
       /\ r # <<>> => /\ y # Len(b) /\ at + y <= Len(x) /\ at + y + Len(r) = at + Len(b)
                      /\ w = Store!Written(x, at + y, r)
                      /\ size = Larger(Len(x), at + y + Len(r))
  <2>1. Ends(size, c, at, b) /\ Leaves(x, c, at, SubSeq(b, 1, y)) /\ IsSuffix(r, b, y)
    BY <1>10, <1>11, <1>12, <1>r DEF Leaves, IsSuffix
  <2>2. PutsRest(w, size, x, at, b, y, r)
    BY <1>5, <1>9, <1>b, <1>r, <1>s, <2>1, PutsOn
  <2> QED BY <2>2 DEF PutsRest, Leaves, Ends
<1>15. s \in Seq(Values) /\ Len(s) = y /\ s # <<>>
  <2>1. s \in Seq(Values) /\ Len(s) = IF 1 <= y THEN y - 1 + 1 ELSE 0
    BY <1>9, <1>10, <1>b, <1>n, PartOf
  <2>2. Len(s) = y /\ y # 0
    BY <1>9, <2>1
  <2> QED BY <2>1, <2>2, EmptySeq
<1> DEFINE j == [job[t] EXCEPT !.i = @ + 1, !.from = 0, !.buffer = r]
           h == bl[k + 1]
<1>16. Goes(t, j) /\ data' = [data EXCEPT ![h] = PutContent(@, from, s)]
  BY <1>8, <1>10, <1>11, <1>a, <1>b, <1>k, <1>f DEF WritePuts, Fitting
<1>17. /\ j.pc = "put" /\ j.path = p /\ j.was = job[t].was /\ j.blocks = bl /\ j.i = k + 1 /\ j.from = 0
       /\ j.buffer = r /\ j.size = size /\ {"was", "size"} \subseteq DOMAIN j
  BY <1>1, <1>2, <1>3, <1>6, <1>a, <1>k, <1>q DEF JobTyped
<1> HIDE DEF j
<1>18. HeldBy(t, p)' = HeldBy(t, p) /\ HandOf(t) = Elements(bl) /\ HandOf(t) \subseteq HeldBy(t, p)
  <2>1. job'[t] = j
    BY <1>16, JobIs DEF Ready
  <2>2. HandOf(t) = Elements(bl) /\ HandOf(t)' = Elements(bl)
    BY <1>1, <1>17, <1>a, <2>1 DEF HandOf, InHand, Reserving, Elements
  <2>3. BlocksOf(p)' = BlocksOf(p)
    BY <1>1 DEF BlocksOf, Saved
  <2> QED BY <1>1, <1>3, <1>17, <2>1, <2>2, <2>3 DEF HeldBy, Wiping, Working
<1>19. h \in Elements(bl)
  BY <1>a, <1>i, LenProperties DEF Elements
<1>20. WritesOwn(t, p)
  <2>1. h \in HeldBy(t, p) /\ job[t].pc \notin {"idle", "done"}
    BY <1>1, <1>18, <1>19
  <2>2. PICK v : v = PutContent(data[h], from, s)
    OBVIOUS
  <2>3. data' = [data EXCEPT ![h] = v]
    BY <1>16, <2>2
  <2> HIDE DEF h
  <2> QED BY <1>1, <1>2, <1>18, <2>1, <2>3, OwnWrite
<1>21. Carries(data', bl, x)
  <2>1. \A i, m \in 1 .. Len(bl) : bl[i] = bl[m] => i = m
    <3>1. Distinct(bl)
      BY <1>1, <1>3, <1>a DEF HandNew, InHand, Reserving
    <3>2. Elements(bl) \cap astray = {}
      BY <1>3, <1>18
    <3> QED BY <1>a, <3>1, <3>2, AllDistinct
  <2>2. from \in Nat /\ from + Len(s) <= BlockSize /\ Start(k) + from <= Len(c)
    BY <1>9, <1>15, <1>n, <1>p, <1>r
  <2>3. DOMAIN data = Blocks
    BY <1>3 DEF Tidy
  <2>4. Carries(data', bl, Store!Written(c, Start(k) + from, s))
    BY <1>5, <1>15, <1>16, <1>a, <1>i, <2>1, <2>2, <2>3, CarriesPut
  <2> QED BY <1>12, <1>p, <2>4
<1>22. Puts(j, x, w)
  <2>1. CASE r = <<>>
    BY <1>14, <1>17, <2>1 DEF Puts
  <2>2. CASE r # <<>>
    <3>1. Start(k + 1) + 0 = at + y
      <4>1. Start(k + 1) = Start(k) + from + y
        BY <1>9, <1>14, <2>2
      <4> QED BY <1>8, <1>n, <1>p, <4>1
    <3>2. at + y <= Len(x) /\ at + y + Len(r) <= Start(Len(bl))
      BY <1>14, <1>r, <2>2
    <3> QED BY <1>14, <1>17, <2>2, <3>1, <3>2, Zenon DEF Puts
  <2> QED BY <2>1, <2>2
<1>23. PutSound(j, data')
  <2>1. k + 1 \in Nat /\ 0 \in 0 .. BlockSize - 1
    BY <1>k, BoundsAssumption
  <2> QED BY <1>5, <1>6, <1>14, <1>17, <1>21, <1>22, <1>a, <2>1 DEF PutSound
<1>24. JobSound(j, data', meta'[p])
  BY <1>17, <1>23 DEF JobSound, Reserving
<1> QED BY <1>1, <1>2, <1>3, <1>16, <1>17, <1>20, <1>24, SilentStep

\* Nothing is left to write: the metadata is saved.
LEMMA WriteSavesSound ==
    ASSUME Ready, Assumed, NEW t \in Threads, WriteSaves(t)
    PROVE  Sound' /\ StoreNext
<1>1. /\ UNCHANGED <<up, bitmap, data, astray>> /\ job[t].pc = "put"
      /\ job[t].buffer = <<>> \/ job[t].i >= Len(job[t].blocks)
  BY DEF WriteSaves, At, history
<1>2. PICK p : p = job[t].path
  OBVIOUS
<1>3. /\ p \in Paths /\ OnlyAt(t, p) /\ Working(t, p) /\ DOMAIN meta = Paths
      /\ JobSound(job[t], data, meta[p])
  BY <1>1, <1>2, Serving
<1>4. PutSound(job[t], data)
  BY <1>1, <1>3 DEF JobSound
<1>5. PICK c, w : /\ c \in Seq(Values) /\ c # <<>> /\ Carries(data, job[t].blocks, c)
                  /\ After(job[t].was, w) /\ Puts(job[t], c, w)
  BY <1>4, Zenon DEF PutSound
<1>6. /\ job[t].blocks \in Seq(Blocks) /\ job[t].buffer \in Seq(Values)
      /\ job[t].i \in Nat /\ job[t].from \in 0 .. BlockSize - 1
  BY <1>4 DEF PutSound
<1>7. job[t].buffer = <<>>
  <2> SUFFICES ASSUME job[t].buffer # <<>> PROVE FALSE
    OBVIOUS
  <2>1. Start(job[t].i) + job[t].from + Len(job[t].buffer) <= Start(Len(job[t].blocks))
    BY <1>5 DEF Puts
  <2>2. Len(job[t].buffer) \in Nat /\ Len(job[t].buffer) # 0 /\ Len(job[t].blocks) \in Nat
    BY <1>6, LenProperties, EmptySeq
  <2>3. PICK n \in Nat : n = Len(job[t].blocks)
    BY <2>2
  <2>4. PICK k \in Nat : k = job[t].i
    BY <1>6
  <2>5. k >= n
    BY <1>1, <2>3, <2>4
  <2>6. Start(n) <= Start(k) /\ Start(n) \in Nat /\ Start(k) \in Nat
    <3>1. n < k => Start(n) + BlockSize <= Start(k)
      BY StartIs
    <3>2. Start(n) \in Nat /\ Start(k) \in Nat /\ BlockSize \in Nat
      BY StartIs, BoundsAssumption
    <3> QED BY <2>5, <3>1, <3>2
  <2> QED BY <1>6, <2>1, <2>2, <2>3, <2>4, <2>6
<1>8. w = c /\ job[t].size = Len(c)
  BY <1>5, <1>7 DEF Puts
<1> DEFINE m == [size |-> job[t].size, blocks |-> job[t].blocks]
           j == [pc |-> "flush", path |-> p, was |-> job[t].was]
<1>9. Goes(t, j) /\ meta' = [meta EXCEPT ![p] = m]
  BY <1>2 DEF WriteSaves
<1>10. meta'[p] = m /\ \A q \in Paths \ {p} : meta'[q] = meta[q]
  BY <1>3, <1>9
<1>11. /\ j.pc = "flush" /\ j.path = p /\ j.was = job[t].was /\ "was" \in DOMAIN j
       /\ m \notin {Absent, Blank} /\ m.size = Len(c) /\ m.blocks = job[t].blocks
  BY <1>8 DEF Assumed, NoMetadata
<1> HIDE DEF m, j
<1>12. Whole(data, m, c)
  BY <1>5, <1>6, <1>11 DEF Whole
<1>13. JobSound(j, data', meta'[p])
  <2>1. EffectSound(data', meta'[p], j.was)
    BY <1>1, <1>5, <1>8, <1>10, <1>11, <1>12 DEF EffectSound
  <2> QED BY <1>11, <2>1 DEF JobSound, Reserving
<1>14. HeldBy(t, p)' \subseteq HeldBy(t, p)
  <2>1. job'[t] = j
    BY <1>9, JobIs DEF Ready
  <2>2. HandOf(t) = Elements(job[t].blocks) /\ HandOf(t)' = {}
    BY <1>1, <1>11, <2>1, DistinctEmpty DEF HandOf, InHand, Reserving, Elements
  <2>3. BlocksOf(p)' \subseteq Elements(job[t].blocks)
    BY <1>10, <1>11 DEF BlocksOf, Elements
  <2> QED BY <1>3, <2>2, <2>3 DEF HeldBy
<1>15. WritesOwn(t, p)
  BY <1>1, <1>3, <1>14, QuietStep DEF Ready
<1> QED BY <1>1, <1>2, <1>3, <1>9, <1>10, <1>11, <1>13, <1>15, SilentStep

\* The block is emptied and given back, or stays in use for ever.
LEMMA DeleteWipesSound ==
    ASSUME Ready, Assumed, NEW t \in Threads, DeleteWipes(t)
    PROVE  Sound' /\ StoreNext
<1>1. UNCHANGED <<up, meta>> /\ job[t].pc = "wipe" /\ job[t].blocks # <<>>
  BY DEF DeleteWipes, At
<1>2. PICK p : p = job[t].path
  OBVIOUS
<1>3. /\ p \in Paths /\ OnlyAt(t, p) /\ Working(t, p)
      /\ JobTyped(job[t]) /\ JobSound(job[t], data, meta[p]) /\ HandNew(t)
      /\ Tidy /\ HeldBy(t, p) \cap astray = {}
      /\ HeldBy(t, p) \subseteq bitmap /\ HeldBy(t, p) \subseteq Blocks
  BY <1>1, <1>2, Serving
<1>4. job[t].blocks \in Seq(Blocks) /\ "was" \in DOMAIN job[t] /\ job[t].was \in Seq(Values)
  BY <1>1, <1>3 DEF JobTyped, JobSound
<1> SUFFICES ASSUME NEW own \in Seq(Blocks), own = job[t].blocks, own # <<>>, NEW x, x = Head(own)
             PROVE  Sound' /\ StoreNext
  BY <1>1, <1>4
<1> DEFINE j == [job[t] EXCEPT !.blocks = Tail(@)]
<1>5. /\ Goes(t, j)
      /\ \/ bitmap' = bitmap \ {x} /\ astray' = astray /\ data' = [data EXCEPT ![x] = <<>>]
         \/ bitmap' = bitmap /\ astray' = astray \cup {x} /\ data' = data
  BY DEF DeleteWipes, history
<1>6. /\ j.pc = "wipe" /\ j.path = p /\ j.blocks = Tail(own) /\ j.was = job[t].was /\ DOMAIN j = DOMAIN job[t]
  BY <1>1, <1>2, <1>3, <1>4 DEF JobTyped
<1> HIDE DEF j
<1>7. JobSound(j, data', meta'[p])
  BY <1>1, <1>4, <1>6 DEF JobSound, Reserving
<1>8. job'[t] = j
  BY <1>5, JobIs DEF Ready
<1>9. HandOf(t) = Elements(own) /\ HandOf(t)' = Elements(Tail(own))
  BY <1>1, <1>6, <1>8 DEF HandOf, InHand, Reserving, Elements
<1>10. HeldBy(t, p) = Elements(own) /\ HeldBy(t, p)' = Elements(Tail(own))
  BY <1>1, <1>2, <1>3, <1>6, <1>8, <1>9 DEF HeldBy, Wiping, Working
<1>11. Elements(own) = {x} \cup Elements(Tail(own))
  BY ElementsTail
<1>12. x \notin Elements(Tail(own)) /\ x \in HeldBy(t, p)
  <2>1. Distinct(own)
    BY <1>1, <1>3 DEF HandNew, InHand, Reserving
  <2>2. x \in Elements(Tail(own)) => x \in astray
    BY <2>1, DistinctTail
  <2> QED BY <1>3, <1>10, <1>11, <2>2
<1>13. x \notin astray /\ x \in Blocks /\ x \in bitmap
  BY <1>3, <1>12
<1>14. HeldBy(t, p)' \subseteq HeldBy(t, p) \ {x}
  BY <1>10, <1>11, <1>12
<1>15. WritesOwn(t, p)
  <2>1. CASE bitmap' = bitmap \ {x} /\ astray' = astray /\ data' = [data EXCEPT ![x] = <<>>]
    <3>1. DOMAIN data' = Blocks /\ data'[x] = <<>> /\ \A b \in Blocks \ {x} : data'[b] = data[b]
      BY <1>3, <1>13, <2>1 DEF Tidy
    <3> QED BY <1>3, <1>12, <1>13, <1>14, <2>1, <3>1 DEF Tidy, WritesOwn
  <2>2. CASE bitmap' = bitmap /\ astray' = astray \cup {x} /\ data' = data
    BY <1>3, <1>12, <1>13, <1>14, <2>2 DEF Tidy, WritesOwn
  <2> QED BY <1>5, <2>1, <2>2
<1> QED BY <1>1, <1>2, <1>3, <1>5, <1>6, <1>7, <1>15, SilentStep

\* The metadata is removed.
LEMMA DeleteRemovesSound ==
    ASSUME Ready, Assumed, NEW t \in Threads, DeleteRemoves(t)
    PROVE  Sound' /\ StoreNext
<1>1. UNCHANGED <<up, bitmap, data, astray>> /\ job[t].pc = "wipe" /\ job[t].blocks = <<>>
  BY DEF DeleteRemoves, At, history
<1>2. PICK p : p = job[t].path
  OBVIOUS
<1>3. /\ p \in Paths /\ OnlyAt(t, p) /\ Working(t, p) /\ DOMAIN meta = Paths
      /\ JobSound(job[t], data, meta[p])
  BY <1>1, <1>2, Serving
<1>4. job[t].was \in Seq(Values)
  BY <1>1, <1>3 DEF JobSound
<1> DEFINE j == [pc |-> "flush", path |-> p, was |-> job[t].was]
<1>5. Goes(t, j) /\ meta' = [meta EXCEPT ![p] = Absent]
  BY <1>2 DEF DeleteRemoves
<1>6. meta'[p] = Absent /\ \A q \in Paths \ {p} : meta'[q] = meta[q]
  BY <1>3, <1>5
<1>7. j.pc = "flush" /\ j.path = p /\ j.was = job[t].was /\ "was" \in DOMAIN j
  OBVIOUS
<1> HIDE DEF j
<1>8. JobSound(j, data', meta'[p])
  <2>1. EffectSound(data', meta'[p], j.was)
    BY <1>4, <1>6, <1>7 DEF EffectSound
  <2> QED BY <1>7, <2>1 DEF JobSound, Reserving
<1>9. HeldBy(t, p)' \subseteq HeldBy(t, p)
  <2>1. job'[t] = j
    BY <1>5, JobIs DEF Ready
  <2>2. HandOf(t)' = {}
    BY <1>7, <2>1, DistinctEmpty DEF HandOf, InHand, Reserving
  <2>3. BlocksOf(p)' = {}
    BY <1>6 DEF BlocksOf, Saved
  <2> QED BY <2>2, <2>3 DEF HeldBy
<1>10. WritesOwn(t, p)
  BY <1>1, <1>3, <1>9, QuietStep DEF Ready
<1> QED BY <1>1, <1>2, <1>3, <1>5, <1>6, <1>7, <1>8, <1>10, SilentStep

-----------------------------------------------------------------------------
\* The bitmap is copied.
LEMMA FlushCopiesSound ==
    ASSUME Ready, Assumed, NEW t \in Threads, FlushCopies(t)
    PROVE  Sound' /\ StoreNext
<1>1. UNCHANGED <<up, bitmap, meta, data, astray>> /\ job[t].pc = "flush"
  BY DEF FlushCopies, At, history
<1>2. PICK p : p = job[t].path
  OBVIOUS
<1>3. /\ p \in Paths /\ OnlyAt(t, p) /\ Working(t, p) /\ JobSound(job[t], data, meta[p])
  BY <1>1, <1>2, Serving
<1>4. EffectSound(data, meta[p], job[t].was)
  BY <1>1, <1>3 DEF JobSound
<1> DEFINE closers == {u \in Threads : job[u].pc = "close"}
           j == [pc |-> "close", path |-> p, was |-> job[t].was, map |-> bitmap, late |-> FALSE,
                 older |-> closers]
<1>5. Goes(t, j)
  BY <1>2 DEF FlushCopies
<1> HIDE DEF closers
<1>6. j.pc = "close" /\ j.path = p /\ j.was = job[t].was /\ "was" \in DOMAIN j
  OBVIOUS
<1> HIDE DEF j
<1>7. JobSound(j, data', meta'[p])
  BY <1>1, <1>4, <1>6 DEF JobSound, Reserving
<1>8. HeldBy(t, p)' \subseteq HeldBy(t, p)
  <2>1. job'[t] = j
    BY <1>5, JobIs DEF Ready
  <2>2. HandOf(t)' = {}
    BY <1>6, <2>1, DistinctEmpty DEF HandOf, InHand, Reserving
  <2>3. BlocksOf(p)' = BlocksOf(p)
    BY <1>1 DEF BlocksOf, Saved
  <2> QED BY <1>1, <2>2, <2>3 DEF HeldBy, Wiping
<1>9. WritesOwn(t, p)
  BY <1>1, <1>3, <1>8, QuietStep DEF Ready
<1> QED BY <1>1, <1>2, <1>3, <1>5, <1>6, <1>7, <1>9, SilentStep

\* What an operation has done to the store, once it is answered.
LEMMA EffectIs ==
    ASSUME ~damaged, NoFiles, NEW t \in Threads, NEW p \in Paths, NEW m, NEW was,
           EffectSound(data', meta'[p], was),
           store[p] = was, store' = [store EXCEPT ![p] = Content(p)'],
           answered[t] = Store!None, answered' = [answered EXCEPT ![t] = Store!Code(OK)]
    PROVE  StoreNext
<1>1. Store!Code(OK).code = OK /\ OK # -1 /\ OK = Store!OK
  BY DEF Store!Code, OK, Store!OK
<1>2. Store!Answers(t, Store!Code(Store!OK)) /\ answered'[t] # answered[t] /\ store # Unspecified
  BY <1>1, Answered
<1>3. ASSUME NEW s \in Seq(Values) PROVE s # Absent
  <2>1. Len(s) \in Nat /\ s = [i \in 1 .. Len(s) |-> s[i]]
    BY LenProperties
  <2>2. [i \in 1 .. Len(s) |-> s[i]] # Absent
    BY Zenon DEF NoFiles
  <2> QED BY <2>1, <2>2
<1>4. CASE meta'[p] = Absent /\ was \in Seq(Values)
  <2>1. Content(p)' = Absent
    BY <1>4 DEF Content, Saved
  <2>2. Store!Delete(t, p)
    BY <1>2, <1>3, <1>4, <2>1 DEF Store!Delete, Store!Known
  <2> QED BY <1>2, <2>2 DEF StoreNext, Store!Next
<1>5. ASSUME NEW c, Whole(data', meta'[p], c), After(was, c) PROVE StoreNext
  <2>1. Content(p)' = c
    BY <1>5, ContentIsNext
  <2>2. CASE was = Absent /\ \E n \in Sizes : c = Newlines(n)
    <3>1. PICK n \in Sizes : c = Newlines(n)
      BY <2>2
    <3>2. store' = [store EXCEPT ![p] = [i \in 1 .. n |-> Newline]]
      BY <2>1, <3>1 DEF Newlines
    <3>3. Store!Create(t, p, n)
      BY <1>2, <2>2, <3>2 DEF Store!Create, Store!Known
    <3> QED BY <1>2, <3>3 DEF StoreNext, Store!Next
  <2>3. CASE was \in Seq(Values) /\ \E o \in 0 .. Len(was), b \in Writes : c = Store!Written(was, o, b)
    <3>1. PICK o \in 0 .. Len(was), b \in Writes : c = Store!Written(was, o, b)
      BY <2>3
    <3>2. Store!Known(p)
      BY <1>2, <1>3, <2>3 DEF Store!Known
    <3>3. o <= Len(store[p]) /\ o \in Store!Offsets(p)
      <4>1. Len(was) \in Nat
        BY <2>3, LenProperties
      <4> QED BY <3>1, <3>2, <4>1 DEF Store!Offsets
    <3>4. store' = [store EXCEPT ![p] = Store!Written(@, o, b)]
      BY <2>1, <3>1
    <3>5. Store!Put(t, p, o, b)
      BY <1>2, <3>2, <3>3, <3>4 DEF Store!Put
    <3> QED BY <1>2, <3>3, <3>5 DEF StoreNext, Store!Next
  <2> QED BY <1>5, <2>2, <2>3 DEF After
<1> QED BY <1>4, <1>5 DEF EffectSound

\* The copy is written and the operation is answered.
LEMMA FlushClosesSound ==
    ASSUME Ready, Assumed, NEW t \in Threads, FlushCloses(t)
    PROVE  Sound' /\ StoreNext
<1>1. /\ UNCHANGED <<up, bitmap, meta, data, astray>> /\ job[t].pc = "close" /\ up
      /\ job'[t] = [pc |-> "done", code |-> OK, bytes |-> <<>>]
  BY DEF FlushCloses, At
<1>2. PICK p : p = job[t].path
  OBVIOUS
<1>3. /\ p \in Paths /\ OnlyAt(t, p) /\ Working(t, p) /\ JobSound(job[t], data, meta[p])
      /\ Tidy /\ Held[p] = HeldBy(t, p)
  BY <1>1, <1>2, Serving
<1>4. EffectSound(data', meta'[p], job[t].was)
  BY <1>1, <1>3 DEF JobSound
<1> DEFINE j == [pc |-> "done", code |-> OK, bytes |-> <<>>]
<1>5. j.pc = "done" /\ j.code = OK /\ AnswerOf(j) = Store!Code(OK) /\ job'[t] = j
  BY <1>1 DEF AnswerOf, Store!Code
<1> HIDE DEF j
<1>6. OthersStay(t)
  <2> SUFFICES ASSUME NEW u \in Threads \ {t}, job[u].pc = "close"
               PROVE  /\ job'[u].pc = "close" /\ job'[u].path = job[u].path /\ job'[u].was = job[u].was
                      /\ DOMAIN job'[u] = DOMAIN job[u]
    BY DEF FlushCloses, OthersStay
  <2>1. PICK l, o : job'[u] = [job[u] EXCEPT !.late = l, !.older = o]
    BY DEF FlushCloses
  <2>2. JobTyped(job[u]) /\ "was" \in DOMAIN job[u]
    BY DEF Ready, Owners, Typed, Sound, JobSound
  <2> QED BY <2>1, <2>2 DEF JobTyped
<1>7. Held'[p] \subseteq Held[p]
  <2>1. HandOf(t)' = {} /\ BlocksOf(p)' = BlocksOf(p) /\ ~Wiping(t, p)
    BY <1>1, <1>5, DistinctEmpty DEF HandOf, InHand, Reserving, BlocksOf, Saved, Wiping
  <2>2. HeldBy(t, p)' \subseteq HeldBy(t, p)
    BY <2>1 DEF HeldBy
  <2>3. Held'[p] = HeldBy(t, p)'
    BY <1>3, <1>6, HeldNext DEF OnlyAt
  <2> QED BY <1>3, <2>2, <2>3
<1>8. RestSound(data', meta'[p])
  BY <1>4 DEF EffectSound, RestSound
<1>9. \A q \in Paths : ~Working(t, q)'
  BY <1>5 DEF Working
<1>10. JobSound(job'[t], data', meta'[job'[t].path])
  BY <1>5 DEF JobSound, Reserving, OK
<1>11. /\ DOMAIN data' = Blocks /\ astray' \subseteq bitmap' /\ astray' \subseteq astray \cup Held[p]
       /\ Held'[p] \cap astray' = {} /\ \A b \in Blocks \ bitmap' : data'[b] = <<>>
  BY <1>1, <1>3, <1>7 DEF Tidy
<1>12. Sound' /\ \A q \in Paths \ {p} : FileOf(q)' = FileOf(q)
  BY <1>1, <1>3, <1>6, <1>8, <1>9, <1>10, <1>11, SoundStep DEF Ready, OnlyAt
<1>13. FileOf(p) = job[t].was
  BY <1>3, FileIs DEF Ready
<1>14. FileOf(p)' = Content(p)'
  <2>1. AtRest(p)'
    BY <1>3, <1>6, <1>9 DEF OnlyAt, Alone, OthersStay, AtRest, Working
  <2> QED BY <2>1 DEF FileOf
<1>15. /\ store[p] = FileOf(p) /\ answered[t] = AnswerOf(job[t])
       /\ store' = [store EXCEPT ![p] = FileOf(p)']
       /\ answered' = [answered EXCEPT ![t] = AnswerOf(job'[t])]
  BY <1>3, <1>6, <1>12, StoreStep DEF Ready
<1>16. answered[t] = Store!None /\ answered' = [answered EXCEPT ![t] = Store!Code(OK)]
  BY <1>1, <1>5, <1>15 DEF AnswerOf
<1>17. store[p] = job[t].was /\ store' = [store EXCEPT ![p] = Content(p)']
  BY <1>13, <1>14, <1>15
<1>18. StoreNext
  BY <1>3, <1>4, <1>16, <1>17, EffectIs DEF Ready, Assumed
<1> QED BY <1>12, <1>18

\* The answer is sent.
LEMMA ReplySound ==
    ASSUME Ready, Assumed, NEW t \in Threads, Reply(t)
    PROVE  Sound' /\ StoreNext
<1>1. UNCHANGED <<up, bitmap, meta, data, astray>> /\ job[t].pc = "done" /\ Goes(t, Idle) /\ up
  BY DEF Reply, At, disk, history
<1>2. job'[t] = Idle /\ OthersStay(t) /\ Idle.pc = "idle"
  BY <1>1, JobIs DEF Ready, Idle
<1>3. /\ Tidy /\ \A p \in Paths : AtRest(p) => RestSound(data, meta[p])
      /\ \A u \in Threads : JobSound(job[u], data, meta[job[u].path])
  BY DEF Ready, Sound
<1>4. \A u \in Threads \ {t} : job'[u] = job[u]
  BY <1>1 DEF Goes, Ready, Owners, Typed
<1>5. \A u \in Threads : \A q \in Paths :
        /\ Working(u, q)' <=> Working(u, q)
        /\ Wiping(u, q)' <=> Wiping(u, q)
  BY <1>1, <1>2, <1>4 DEF Working, Wiping
<1>6. \A u \in Threads : HandOf(u)' = HandOf(u)
  BY <1>1, <1>2, <1>4 DEF InHand, HandOf, Reserving
<1>7. ASSUME NEW q \in Paths PROVE Held'[q] = Held[q]
  <2>1. BlocksOf(q)' = BlocksOf(q)
    BY <1>1 DEF BlocksOf, Saved
  <2>2. \A b : b \in Held'[q] <=> b \in Held[q]
    BY <1>5, <1>6, <2>1, HeldIs, HeldIsNext
  <2> QED BY <2>2 DEF Held
<1>8. Tidy'
  BY <1>1, <1>3, <1>7 DEF Tidy
<1>9. \A q \in Paths : AtRest(q)' <=> AtRest(q)
  BY <1>5 DEF AtRest
<1>10. \A u \in Threads : JobSound(job'[u], data', meta'[job'[u].path])
  <2> TAKE u \in Threads
  <2>1. CASE u = t
    BY <1>2, <2>1 DEF JobSound, Reserving
  <2>2. CASE u # t
    BY <1>1, <1>3, <1>4, <2>2
  <2> QED BY <2>1, <2>2
<1>11. Sound'
  BY <1>1, <1>3, <1>8, <1>9, <1>10 DEF Sound
<1>12. UNCHANGED store
  <2>1. \A q \in Paths : FileOf(q)' = FileOf(q)
    <3> TAKE q \in Paths
    <3>1. CASE AtRest(q)
      <4>1. Content(q)' = Content(q)
        BY <1>1 DEF Content, Saved, Size, ByteAt
      <4> QED BY <1>9, <3>1, <4>1 DEF FileOf
    <3>2. CASE ~AtRest(q)
      <4>1. PICK u \in Threads : Working(u, q)
        BY <3>2 DEF AtRest
      <4>2. u # t /\ Working(u, q)'
        BY <1>1, <1>5, <4>1 DEF Working
      <4> QED BY <1>4, <4>1, <4>2, FileIs, FileIsNext DEF Ready
    <3> QED BY <3>1, <3>2
  <2>2. store = [q \in Paths |-> FileOf(q)] /\ store' = [q \in Paths |-> FileOf(q)']
    BY StoreIs, StoreIsNext DEF Ready
  <2> DEFINE F(q) == FileOf(q)
             G(q) == FileOf(q)'
  <2>3. store = [q \in Paths |-> F(q)] /\ store' = [q \in Paths |-> G(q)] /\ \A q \in Paths : G(q) = F(q)
    BY <2>1, <2>2
  <2> HIDE DEF F, G
  <2> QED BY <2>3
<1>13. answered' = [answered EXCEPT ![t] = Store!None]
  <2>1. \A u \in Threads \ {t} : AnswerOf(job'[u]) = AnswerOf(job[u])
    BY <1>4
  <2>2. AnswerOf(job'[t]) = Store!None
    BY <1>2 DEF AnswerOf
  <2>3. /\ answered = [u \in Threads |-> AnswerOf(job[u])]
        /\ answered' = [u \in Threads |-> AnswerOf(job'[u])]
    BY StoreIs, StoreIsNext DEF Ready
  <2> QED BY <2>1, <2>2, <2>3
<1>14. answered[t] # Store!None /\ answered'[t] = Store!None
  <2>1. DOMAIN answered = Threads /\ answered[t] = AnswerOf(job[t])
    BY StoreIs DEF Ready
  <2>2. AnswerOf(job[t]).code = job[t].code /\ job[t].code \in Nat
    BY <1>1, <1>3 DEF AnswerOf, JobSound
  <2>3. Store!None.code = -1
    BY DEF Store!None, Store!Code
  <2>4. AnswerOf(job[t]) # Store!None
    BY <2>2, <2>3
  <2> QED BY <1>13, <2>1, <2>4
<1>15. Store!Reply(t) /\ answered'[t] # answered[t]
  BY <1>12, <1>13, <1>14 DEF Store!Reply
<1> QED BY <1>11, <1>15 DEF StoreNext, Store!Next

\* The file of a request that arrives is at rest, and there is nothing to answer yet.
LEMMA Arrived ==
    ASSUME Ready, Assumed, NEW t \in Threads, NEW p \in Paths, Arrives(t, p)
    PROVE  /\ job[t].pc = "idle" /\ OnlyAt(t, p) /\ Tidy /\ HeldBy(t, p) = BlocksOf(p)
           /\ RestSound(data, meta[p]) /\ store[p] = Content(p) /\ answered[t] = Store!None
           /\ FileOf(p) = Content(p)
<1>1. job[t].pc = "idle" /\ AtRest(p) /\ OnlyAt(t, p)
  BY Arriving DEF Ready, OnlyAt, Arrives, At
<1>2. Tidy /\ RestSound(data, meta[p])
  BY <1>1 DEF Ready, Sound
<1>3. HeldBy(t, p) = BlocksOf(p)
  BY <1>1 DEF HeldBy, Wiping, Working
<1>4. FileOf(p) = Content(p)
  BY <1>1 DEF FileOf
<1>5. store[p] = FileOf(p) /\ answered[t] = AnswerOf(job[t])
  BY StoreIs DEF Ready
<1>6. AnswerOf(job[t]) = Store!None
  BY <1>1 DEF AnswerOf
<1> QED BY <1>1, <1>2, <1>3, <1>4, <1>5, <1>6

\* A file that is there is one of the store, with its bytes.
LEMMA FileThere ==
    ASSUME Assumed, NEW p \in Paths, RestSound(data, meta[p]), HasFile(p)
    PROVE  \E c : Whole(data, meta[p], c) /\ Content(p) = c /\ c # Absent /\ Saved(p)
<1>1. PICK c : Whole(data, meta[p], c)
  BY DEF RestSound, HasFile
<1>2. Content(p) = c
  BY <1>1, ContentIs
<1>3. c \in Seq(Values) /\ Saved(p)
  BY <1>1 DEF Whole, Saved
<1>4. Len(c) \in Nat /\ c = [i \in 1 .. Len(c) |-> c[i]]
  BY <1>3, LenProperties
<1>5. [i \in 1 .. Len(c) |-> c[i]] # Absent
  BY Zenon DEF Assumed, NoFiles
<1> QED BY <1>1, <1>2, <1>3, <1>4, <1>5

\* The store knows the files that have metadata.
LEMMA FileKnown ==
    ASSUME Ready, Assumed, NEW t \in Threads, NEW p \in Paths, Arrives(t, p)
    PROVE  Store!Known(p) <=> HasFile(p)
<1>1. RestSound(data, meta[p]) /\ store[p] = Content(p)
  BY Arrived
<1>2. store # Unspecified
  BY StoreIs DEF Ready, Assumed, NoFiles, Unspecified
<1>3. HasFile(p) => Content(p) # Absent
  BY <1>1, FileThere
<1>4. ~HasFile(p) => Content(p) = Absent
  BY DEF HasFile, Content, Saved
<1> QED BY <1>1, <1>2, <1>3, <1>4 DEF Store!Known

\* A request that is answered at once.
LEMMA AnswersAtOnce ==
    ASSUME Ready, Assumed, NEW t \in Threads, NEW p \in Paths, Arrives(t, p),
           UNCHANGED <<up, bitmap, meta, data, astray>>,
           NEW j, Goes(t, j), j.pc = "done", j.code \in Nat
    PROVE  /\ Sound' /\ UNCHANGED store /\ Store!Answers(t, [code |-> j.code, bytes |-> j.bytes])
           /\ answered'[t] # answered[t] /\ store # Unspecified
           /\ answered[t] = Store!None
           /\ answered' = [answered EXCEPT ![t] = [code |-> j.code, bytes |-> j.bytes]]
<1>1. /\ job[t].pc = "idle" /\ OnlyAt(t, p) /\ HeldBy(t, p) = BlocksOf(p)
      /\ RestSound(data, meta[p]) /\ store[p] = Content(p) /\ answered[t] = Store!None
      /\ FileOf(p) = Content(p)
  BY Arrived
<1>2. job'[t] = j
  BY JobIs DEF Ready
<1>3. HandOf(t)' = {}
  BY <1>2, DistinctEmpty DEF HandOf, InHand, Reserving
<1>4. BlocksOf(p)' = BlocksOf(p) /\ Content(p)' = Content(p)
  BY DEF BlocksOf, Content, Saved, Size, ByteAt
<1>5. HeldBy(t, p)' \subseteq HeldBy(t, p)
  BY <1>1, <1>3, <1>4 DEF HeldBy
<1>6. WritesOwn(t, p)
  BY <1>1, <1>5, QuietStep DEF Ready
<1>7. JobSound(j, data', meta'[j.path])
  BY DEF JobSound, Reserving
<1>8. /\ Sound' /\ \A q \in Paths \ {p} : FileOf(q)' = FileOf(q)
      /\ FileOf(p)' = Content(p)' /\ OthersStay(t)
  BY <1>1, <1>6, <1>7, SoundGoes
<1>9. /\ store' = [store EXCEPT ![p] = FileOf(p)']
      /\ answered' = [answered EXCEPT ![t] = AnswerOf(j)]
  BY <1>2, <1>8, StoreStep DEF Ready
<1>10. UNCHANGED store
  <2>1. store = [q \in Paths |-> store[q]]
    BY StoreIs DEF Ready
  <2>2. store' = [store EXCEPT ![p] = store[p]]
    BY <1>1, <1>4, <1>8, <1>9
  <2> QED BY <2>1, <2>2
<1>11. PICK r : r = [code |-> j.code, bytes |-> j.bytes]
  OBVIOUS
<1>12. r.code # -1 /\ AnswerOf(j) = r
  BY <1>11 DEF AnswerOf
<1>13. answered' = [answered EXCEPT ![t] = r]
  BY <1>9, <1>12
<1>14. Store!Answers(t, r) /\ answered'[t] # answered[t] /\ store # Unspecified
  BY <1>1, <1>12, <1>13, Answered DEF Ready, Assumed
<1> QED BY <1>1, <1>8, <1>10, <1>11, <1>13, <1>14

\* A request that is begun.
LEMMA BeginsUnseen ==
    ASSUME Ready, Assumed, NEW t \in Threads, NEW p \in Paths, Arrives(t, p),
           UNCHANGED <<up, bitmap, meta, data, astray>>,
           NEW j, Goes(t, j), j.pc \notin {"idle", "done"}, j.path = p, j.was = Content(p),
           JobSound(j, data, meta[p]),
           j.pc \in Reserving => j.got = <<>>,
           j.pc \in {"put", "wipe"} => Saved(p) /\ j.blocks = meta[p].blocks
    PROVE  Sound' /\ StoreNext
<1>1. /\ job[t].pc = "idle" /\ OnlyAt(t, p) /\ HeldBy(t, p) = BlocksOf(p)
      /\ store[p] = Content(p) /\ answered[t] = Store!None
  BY Arrived
<1>2. job'[t] = j
  BY JobIs DEF Ready
<1>3. HandOf(t)' \subseteq BlocksOf(p)
  <2>1. CASE j.pc \in {"put", "wipe"}
    BY <1>2, <2>1 DEF HandOf, InHand, Reserving, BlocksOf, Elements
  <2>2. CASE j.pc \notin {"put", "wipe"}
    BY <1>2, <2>2, DistinctEmpty DEF HandOf, InHand, Reserving
  <2> QED BY <2>1, <2>2
<1>4. BlocksOf(p)' = BlocksOf(p)
  BY DEF BlocksOf, Saved
<1>5. HeldBy(t, p)' \subseteq HeldBy(t, p)
  BY <1>1, <1>3, <1>4 DEF HeldBy
<1>6. WritesOwn(t, p)
  BY <1>1, <1>5, QuietStep DEF Ready
<1>7. /\ Sound' /\ \A q \in Paths \ {p} : FileOf(q)' = FileOf(q)
      /\ FileOf(p)' = j.was /\ OthersStay(t)
  BY <1>1, <1>6, SoundGoes
<1>8. /\ store' = [store EXCEPT ![p] = FileOf(p)']
      /\ answered' = [answered EXCEPT ![t] = AnswerOf(j)]
  BY <1>2, <1>7, StoreStep DEF Ready
<1>9. AnswerOf(j) = Store!None
  BY DEF AnswerOf
<1>10. store' = [store EXCEPT ![p] = store[p]] /\ answered' = [answered EXCEPT ![t] = answered[t]]
  BY <1>1, <1>7, <1>8, <1>9
<1>11. store = [q \in Paths |-> store[q]] /\ answered = [u \in Threads |-> answered[u]]
  BY StoreIs DEF Ready
<1>12. UNCHANGED <<store, answered>>
  BY <1>10, <1>11
<1> QED BY <1>7, <1>12 DEF StoreNext

-----------------------------------------------------------------------------

\* FIFA_CreateFile refuses a path that is taken, or begins to reserve.
LEMMA CreateArrivesSound ==
    ASSUME Ready, Assumed, NEW t \in Threads, NEW p \in Paths, NEW n \in Sizes, CreateArrives(t, p, n)
    PROVE  Sound' /\ StoreNext
<1>1. Arrives(t, p) /\ UNCHANGED <<up, bitmap, meta, data, astray>>
  BY DEF CreateArrives, disk, history
<1>2. CASE HasFile(p)
  <2>1. PICK j : j = [pc |-> "done", code |-> EXISTING_FILE, bytes |-> <<>>]
    OBVIOUS
  <2>2. Goes(t, j) /\ j.pc = "done" /\ j.code = EXISTING_FILE /\ j.bytes = <<>> /\ EXISTING_FILE \in Nat
    BY <1>2, <2>1 DEF CreateArrives, Finishes, EXISTING_FILE
  <2>3. /\ Sound' /\ UNCHANGED store /\ Store!Answers(t, [code |-> EXISTING_FILE, bytes |-> <<>>])
        /\ answered'[t] # answered[t] /\ store # Unspecified
    BY <1>1, <2>2, AnswersAtOnce
  <2>4. Store!Known(p)
    BY <1>1, <1>2, FileKnown
  <2>5. Store!Create(t, p, n)
    BY <2>3, <2>4 DEF Store!Create, Store!Code, EXISTING_FILE, Store!EXISTING_FILE
  <2> QED BY <2>3, <2>5 DEF StoreNext, Store!Next
<1>3. CASE ~HasFile(p)
  <2> DEFINE j == [pc |-> "reserve", path |-> p, was |-> Absent, op |-> "create",
                   size |-> n, need |-> CeilDiv(n, BlockSize), got |-> <<>>, at |-> 0, code |-> OK]
  <2>1. Goes(t, j)
    BY <1>3 DEF CreateArrives
  <2>2. /\ j.pc = "reserve" /\ j.path = p /\ j.was = Absent /\ j.op = "create" /\ j.size = n
        /\ j.need = CeilDiv(n, BlockSize) /\ j.got = <<>> /\ {"was", "size"} \subseteq DOMAIN j
    OBVIOUS
  <2> HIDE DEF j
  <2>3. meta[p] = Absent /\ Content(p) = Absent
    BY <1>3 DEF HasFile, Content, Saved
  <2>4. CreateSound(j, meta[p])
    BY <2>2, <2>3 DEF CreateSound
  <2>5. <<>> \in Seq(Blocks) /\ NoBytes(data, <<>>)
    BY EmptySeq DEF NoBytes
  <2>6. JobSound(j, data, meta[p])
    BY <2>2, <2>4, <2>5 DEF JobSound, Reserving, ReserveSound
  <2> QED BY <1>1, <2>1, <2>2, <2>3, <2>6, BeginsUnseen
<1> QED BY <1>2, <1>3

\* A file that is not there is not written, nor deleted.
LEMMA MissingSound ==
    ASSUME Ready, Assumed, NEW t \in Threads, NEW p \in Paths, Arrives(t, p), ~HasFile(p),
           UNCHANGED <<up, bitmap, meta, data, astray>>, Finishes(t, FILE_NOT_EXISTS)
    PROVE  Sound' /\ StoreNext
<1>1. PICK j : j = [pc |-> "done", code |-> FILE_NOT_EXISTS, bytes |-> <<>>]
  OBVIOUS
<1>2. Goes(t, j) /\ j.pc = "done" /\ j.code = FILE_NOT_EXISTS /\ j.bytes = <<>> /\ FILE_NOT_EXISTS \in Nat
  BY <1>1 DEF Finishes, FILE_NOT_EXISTS
<1>3. /\ Sound' /\ UNCHANGED store /\ Store!Answers(t, [code |-> FILE_NOT_EXISTS, bytes |-> <<>>])
      /\ answered'[t] # answered[t] /\ store # Unspecified
  BY <1>2, AnswersAtOnce
<1>4. ~Store!Known(p)
  BY FileKnown
<1>5. Store!Missing(t, p)
  BY <1>3, <1>4 DEF Store!Missing, Store!Code, FILE_NOT_EXISTS, Store!FILE_NOT_EXISTS
<1> QED BY <1>3, <1>5 DEF StoreNext, Store!Next

\* FIFA_DeleteFile begins with the blocks that the metadata has.
LEMMA DeleteArrivesSound ==
    ASSUME Ready, Assumed, NEW t \in Threads, NEW p \in Paths, DeleteArrives(t, p)
    PROVE  Sound' /\ StoreNext
<1>1. Arrives(t, p) /\ UNCHANGED <<meta, data>>
  BY DEF DeleteArrives, disk
<1>2. CASE ~HasFile(p) /\ Finishes(t, FILE_NOT_EXISTS) /\ UNCHANGED <<up, bitmap, history>>
  BY <1>1, <1>2, MissingSound DEF history
<1>3. CASE Falls
  BY <1>3 DEF Falls, Ready
<1>4. CASE /\ Saved(p) /\ UNCHANGED <<up, bitmap, history>>
           /\ Goes(t, [pc |-> "wipe", path |-> p, was |-> Content(p), blocks |-> meta[p].blocks])
  <2>1. PICK j : j = [pc |-> "wipe", path |-> p, was |-> Content(p), blocks |-> meta[p].blocks]
    OBVIOUS
  <2>2. /\ Goes(t, j) /\ j.pc = "wipe" /\ j.path = p /\ j.was = Content(p) /\ j.blocks = meta[p].blocks
        /\ "was" \in DOMAIN j
    BY <1>4, <2>1
  <2>3. Content(p) \in Seq(Values)
    BY <1>1, <1>4, Arrived, FileThere DEF Whole, HasFile, Saved
  <2>4. JobSound(j, data, meta[p])
    BY <2>2, <2>3 DEF JobSound, Reserving
  <2>5. j.pc \notin Reserving
    BY <2>2 DEF Reserving
  <2> QED BY <1>1, <1>4, <2>2, <2>4, <2>5, BeginsUnseen DEF history
<1> QED BY <1>2, <1>3, <1>4 DEF DeleteArrives

\* FIFA_IsFileValid tells whether there is a file.
LEMMA CheckArrivesSound ==
    ASSUME Ready, Assumed, NEW t \in Threads, NEW p \in Paths, CheckArrives(t, p)
    PROVE  Sound' /\ StoreNext
<1>1. Arrives(t, p) /\ UNCHANGED <<up, bitmap, meta, data, astray>>
  BY DEF CheckArrives, disk, history
<1>2. PICK x \in Nat : x = IF HasFile(p) THEN 1 ELSE 0
  OBVIOUS
<1>3. PICK j : j = [pc |-> "done", code |-> x, bytes |-> <<>>]
  OBVIOUS
<1>4. Goes(t, j) /\ j.pc = "done" /\ j.code = x /\ j.bytes = <<>>
  BY <1>2, <1>3 DEF CheckArrives, Finishes
<1>5. /\ Sound' /\ UNCHANGED store /\ Store!Answers(t, [code |-> x, bytes |-> <<>>])
      /\ answered'[t] # answered[t] /\ store # Unspecified
  BY <1>1, <1>2, <1>4, AnswersAtOnce
<1>6. Store!Known(p) <=> HasFile(p)
  BY <1>1, FileKnown
<1>7. Store!Check(t, p)
  BY <1>2, <1>5, <1>6 DEF Store!Check, Store!Code
<1> QED BY <1>5, <1>7 DEF StoreNext, Store!Next

\* FIFA_ReadFile answers with the bytes that the store has, wherever its blocks are.
LEMMA GetArrivesSound ==
    ASSUME Ready, Assumed, NEW t \in Threads, NEW p \in Paths, NEW o \in Offsets(p), NEW n \in Lengths,
           GetArrives(t, p, o, n)
    PROVE  Sound' /\ StoreNext
<1>1. Arrives(t, p) /\ UNCHANGED <<meta, data>>
  BY DEF GetArrives, disk
<1>2. Store!Known(p) <=> HasFile(p)
  BY <1>1, FileKnown
<1>3. CASE Falls
  BY <1>3 DEF Falls, Ready
<1>4. CASE ~HasFile(p) /\ Finishes(t, NOT_FOUND) /\ UNCHANGED <<up, bitmap, history>>
  <2>1. PICK j : j = [pc |-> "done", code |-> NOT_FOUND, bytes |-> <<>>]
    OBVIOUS
  <2>2. Goes(t, j) /\ j.pc = "done" /\ j.code = NOT_FOUND /\ j.bytes = <<>> /\ NOT_FOUND \in Nat
    BY <1>4, <2>1 DEF Finishes, NOT_FOUND
  <2>3. /\ Sound' /\ UNCHANGED store /\ Store!Answers(t, [code |-> NOT_FOUND, bytes |-> <<>>])
        /\ answered'[t] # answered[t] /\ store # Unspecified
    BY <1>1, <1>4, <2>2, AnswersAtOnce DEF history
  <2>4. o \in Store!Offsets(p)
    BY <1>2, <1>4 DEF Offsets, Saved, HasFile, Store!Offsets
  <2>5. Store!Get(t, p, o, n)
    BY <1>2, <1>4, <2>3 DEF Store!Get, Store!Code, NOT_FOUND, Store!NOT_FOUND
  <2> QED BY <2>3, <2>4, <2>5 DEF StoreNext, Store!Next
<1>5. CASE /\ Saved(p) /\ UNCHANGED <<up, bitmap, history>>
           /\ Goes(t, [pc |-> "done", code |-> OK, bytes |-> ReadFile(meta[p].blocks, o, n)])
  <2>1. PICK j : j = [pc |-> "done", code |-> OK, bytes |-> ReadFile(meta[p].blocks, o, n)]
    OBVIOUS
  <2>2. /\ Goes(t, j) /\ j.pc = "done" /\ j.code = OK /\ OK \in Nat
        /\ j.bytes = ReadFile(meta[p].blocks, o, n)
    BY <1>5, <2>1 DEF OK
  <2>3. /\ Sound' /\ UNCHANGED store /\ Store!Answers(t, [code |-> OK, bytes |-> j.bytes])
        /\ answered'[t] # answered[t] /\ store # Unspecified
    BY <1>1, <1>5, <2>2, AnswersAtOnce DEF history
  <2>4. HasFile(p) /\ RestSound(data, meta[p]) /\ store[p] = Content(p)
    BY <1>1, <1>5, Arrived DEF HasFile, Saved
  <2>5. PICK c : Whole(data, meta[p], c) /\ Content(p) = c
    BY <2>4, FileThere
  <2>6. c \in Seq(Values) /\ meta[p].blocks \in Seq(Blocks) /\ Carries(data, meta[p].blocks, c) /\ Size(p) = Len(c)
    BY <2>5 DEF Whole, Size
  <2>7. Len(c) \in Nat /\ o \in 0 .. Len(c) /\ n \in Nat
    BY <1>5, <2>6, LenProperties, BoundsAssumption DEF Offsets
  <2>8. j.bytes = Store!Window(c, o, n)
    BY <2>2, <2>6, <2>7, ReadFileIs
  <2>9. o \in Store!Offsets(p)
    BY <1>2, <2>4, <2>5, <2>7 DEF Store!Offsets
  <2>10. Store!Get(t, p, o, n)
    BY <1>2, <2>3, <2>4, <2>5, <2>8 DEF Store!Get, OK, Store!OK
  <2> QED BY <2>3, <2>9, <2>10 DEF StoreNext, Store!Next
<1> QED BY <1>3, <1>4, <1>5 DEF GetArrives

-----------------------------------------------------------------------------
\* There is room in n blocks more for what does not fit in a file.
LEMMA RoomInMore ==
    ASSUME NEW k \in Nat, NEW size \in Nat, NEW end \in Nat, size < end, size <= Start(k),
           NEW need, need = CeilDiv(end - size, BlockSize)
    PROVE  need \in Nat /\ end <= Start(k + need)
<1>1. PICK x \in Nat : x = end - size
  OBVIOUS
<1>2. need \in Nat /\ x <= Start(need)
  BY <1>1, CeilDivIs
<1>3. PICK B \in Nat : B = BlockSize
  BY BoundsAssumption
<1>4. (k + need) * B = k * B + need * B
  BY <1>2
<1>5. Start(k + need) = Start(k) + Start(need) /\ Start(k) \in Nat /\ Start(need) \in Nat
  BY <1>2, <1>3, <1>4, StartIs DEF Start
<1> QED BY <1>1, <1>2, <1>5

\* What is written fits in the blocks of a file that has one, or takes more of them.
LEMMA RoomInLast ==
    ASSUME NEW k \in Nat, NEW size \in Nat \ {0}, NEW end \in Nat, size <= Start(k),
           ~(end - size > 0 /\ end - size > Larger(k, 1) * BlockSize - size)
    PROVE  end <= Start(k)
<1>1. PICK B \in Nat : B = BlockSize
  BY BoundsAssumption
<1>2. Start(k) = k * B /\ Start(k) \in Nat /\ k # 0
  <2>1. Start(0) = 0
    BY BoundsAssumption DEF Start
  <2> QED BY <1>1, <2>1, StartIs DEF Start
<1>3. Larger(k, 1) = k
  BY <1>2 DEF Larger
<1>4. PICK x \in Nat : x = k * B
  BY <1>2
<1>5. ~(end - size > 0 /\ end - size > x - size)
  BY <1>1, <1>3, <1>4
<1> QED BY <1>2, <1>4, <1>5

\* FIFA_WriteFile reserves what does not fit in the last block, or writes at once.
LEMMA WriteArrivesSound ==
    ASSUME Ready, Assumed, NEW t \in Threads, NEW p \in Paths, NEW o \in Offsets(p), NEW b \in Writes,
           WriteArrives(t, p, o, b)
    PROVE  Sound' /\ StoreNext
<1>1. Arrives(t, p) /\ UNCHANGED <<meta, data>>
  BY DEF WriteArrives, disk
<1>2. CASE ~HasFile(p) /\ Finishes(t, FILE_NOT_EXISTS) /\ UNCHANGED <<up, bitmap, history>>
  BY <1>1, <1>2, MissingSound DEF history
<1>3. CASE Falls
  BY <1>3 DEF Falls, Ready
<1>4. CASE Finishes(t, METADATA_OPEN_ERROR) /\ UNCHANGED <<up, bitmap, damaged, astray, outdated>>
  <2>1. PICK j : j = [pc |-> "done", code |-> METADATA_OPEN_ERROR, bytes |-> <<>>]
    OBVIOUS
  <2>2. /\ Goes(t, j) /\ j.pc = "done" /\ j.code = METADATA_OPEN_ERROR /\ j.bytes = <<>>
        /\ METADATA_OPEN_ERROR \in Nat
    BY <1>4, <2>1 DEF Finishes, METADATA_OPEN_ERROR
  <2>3. /\ Sound' /\ UNCHANGED store /\ answered[t] = Store!None
        /\ answered' = [answered EXCEPT ![t] = [code |-> METADATA_OPEN_ERROR, bytes |-> <<>>]]
    BY <1>1, <1>4, <2>2, AnswersAtOnce
  <2>4. StoreNext
    BY <2>3, Refused DEF Ready, Assumed, Store!Code
  <2> QED BY <2>3, <2>4
<1>5. ASSUME Saved(p), UNCHANGED <<up, bitmap, history>>,
             NEW new, new = NewBytes(p, o, b),
             IF new > 0 /\ new > AvailableSpaceInLastBlock(p)
               THEN Goes(t, [pc |-> "reserve", path |-> p, was |-> Content(p), op |-> "write",
                             need |-> CeilDiv(new, BlockSize), got |-> <<>>, at |-> 0,
                             offset |-> o, buffer |-> b, code |-> OK])
               ELSE Goes(t, PutLoop(p, Content(p), Larger(Size(p), o + Len(b)),
                                    meta[p].blocks, o, b))
      PROVE  Sound' /\ StoreNext
  <2>1. HasFile(p) /\ RestSound(data, meta[p])
    BY <1>1, <1>5, Arrived DEF HasFile, Saved
  <2>2. PICK c : Whole(data, meta[p], c) /\ Content(p) = c
    BY <2>1, FileThere
  <2>3. PICK bl \in Seq(Blocks) : bl = meta[p].blocks
    BY <2>2 DEF Whole
  <2>4. /\ c \in Seq(Values) /\ c # <<>> /\ Carries(data, bl, c) /\ Size(p) = Len(c)
        /\ Len(c) <= Start(Len(bl))
    BY <2>2, <2>3 DEF Whole, Size, Carries
  <2>5. PICK size \in Nat \ {0} : size = Len(c)
    BY <2>4, LenProperties, EmptySeq
  <2>6. PICK k \in Nat : k = Len(bl)
    BY LenProperties
  <2>7. o \in 0 .. size
    BY <1>5, <2>4, <2>5 DEF Offsets
  <2>8. PICK end \in Nat : end = o + Len(b)
    BY <2>7, WritesAre, LenProperties
  <2>9. new = end - size /\ AvailableSpaceInLastBlock(p) = Larger(k, 1) * BlockSize - size
    <3>1. Size(p) = size /\ Len(meta[p].blocks) = k
      BY <2>3, <2>4, <2>5, <2>6
    <3>2. NewBytes(p, o, b) = end - size
      <4>1. NewBytes(p, o, b) = o + (Len(b) - size)
        BY <3>1, Zenon DEF NewBytes
      <4>2. PICK n \in Nat : n = Len(b)
        BY WritesAre, LenProperties
      <4>3. o + (n - size) = end - size
        BY <2>7, <2>8, <4>2
      <4> QED BY <4>1, <4>2, <4>3, Zenon
    <3>3. AvailableSpaceInLastBlock(p) = Larger(k, 1) * BlockSize - size
      BY <3>1, Zenon DEF AvailableSpaceInLastBlock
    <3> QED BY <1>5, <3>2, <3>3
  <2>10. UNCHANGED <<up, bitmap, meta, data, astray>>
    BY <1>1, <1>5 DEF history
  <2>11. CASE new > 0 /\ new > AvailableSpaceInLastBlock(p)
    <3>1. PICK need : need = CeilDiv(new, BlockSize)
      OBVIOUS
    <3>2. size < end
      BY <2>5, <2>8, <2>9, <2>11
    <3>3. need \in Nat /\ end <= Start(k + need)
      BY <2>4, <2>5, <2>6, <2>9, <3>1, <3>2, RoomInMore
    <3>4. PICK j : j = [pc |-> "reserve", path |-> p, was |-> c, op |-> "write",
                        need |-> need, got |-> <<>>, at |-> 0, offset |-> o, buffer |-> b, code |-> OK]
      OBVIOUS
    <3>5. Goes(t, j)
      BY <1>5, <2>2, <2>11, <3>1, <3>4
    <3>6. /\ j.pc = "reserve" /\ j.path = p /\ j.was = c /\ j.op = "write" /\ j.need = need
          /\ j.got = <<>> /\ j.offset = o /\ j.buffer = b
          /\ {"was", "offset", "buffer"} \subseteq DOMAIN j
      BY <3>4
    <3>7. ExtendSound(j, data, meta[p])
      <4>1. Len(c) < o + Len(b) /\ o + Len(b) <= Start(Len(meta[p].blocks) + need) /\ o \in 0 .. Len(c)
        BY <2>3, <2>5, <2>6, <2>7, <2>8, <3>2, <3>3
      <4> QED BY <2>2, <3>3, <3>6, <4>1 DEF ExtendSound
    <3>8. <<>> \in Seq(Blocks) /\ NoBytes(data, <<>>)
      BY EmptySeq DEF NoBytes
    <3>9. JobSound(j, data, meta[p])
      BY <3>6, <3>7, <3>8 DEF JobSound, Reserving, ReserveSound
    <3> QED BY <1>1, <2>2, <2>10, <3>5, <3>6, <3>9, BeginsUnseen
  <2>12. CASE ~(new > 0 /\ new > AvailableSpaceInLastBlock(p))
    <3>1. end <= Start(k)
      BY <2>4, <2>5, <2>6, <2>9, <2>12, RoomInLast
    <3>2. PICK s : s = Larger(Len(c), o + Len(b))
      OBVIOUS
    <3>3. PICK j : j = PutLoop(p, c, s, bl, o, b)
      OBVIOUS
    <3>4. Goes(t, j)
      BY <1>5, <2>2, <2>3, <2>4, <2>12, <3>2, <3>3
    <3>5. PutSound(j, data)
      BY <2>4, <2>5, <2>6, <2>7, <2>8, <3>1, <3>2, <3>3, PutLoopSound
    <3>6. j.pc = "put" /\ j.path = p /\ j.was = c /\ j.blocks = bl
      BY <3>3 DEF PutLoop
    <3>7. JobSound(j, data, meta[p])
      BY <3>5, <3>6 DEF JobSound, Reserving
    <3>8. j.pc \notin Reserving
      BY <3>6 DEF Reserving
    <3> QED BY <1>1, <1>5, <2>2, <2>3, <2>10, <3>4, <3>6, <3>7, <3>8, BeginsUnseen
  <2> QED BY <2>11, <2>12
<1> QED BY <1>2, <1>3, <1>4, <1>5 DEF WriteArrives

-----------------------------------------------------------------------------
\* The invariant of the refinement.
StoreInv == Owners /\ Sound /\ damaged \in BOOLEAN

\* What has been cut short stays so.
LEMMA DamageStays ==
    ASSUME [Next]_vars, damaged \in BOOLEAN
    PROVE  damaged' \in BOOLEAN /\ (damaged => damaged')
<1>1. CASE UNCHANGED vars
  BY <1>1 DEF vars, history
<1>2. ASSUME NEW t \in Threads, Step(t) PROVE damaged' \in BOOLEAN /\ (damaged => damaged')
  BY <1>2 DEF Step, history, ReserveTests, ReserveFails, RollsBack, CreateMakes, CreateSaves, CreateFills,
              WriteExtends, WritePuts, WriteSaves, DeleteWipes, DeleteRemoves, FlushCopies, FlushCloses,
              Reply
<1>3. ASSUME NEW t \in Threads, NEW p \in Paths, Request(t, p)
      PROVE  damaged' \in BOOLEAN /\ (damaged => damaged')
  BY <1>3 DEF Request, history, Falls, CreateArrives, WriteArrives, GetArrives, DeleteArrives, CheckArrives
<1>4. CASE Kill \/ FIFA_Start
  BY <1>4 DEF Kill, Falls, FIFA_Start, history
<1> QED BY <1>1, <1>2, <1>3, <1>4 DEF Next

\* Every step of a request keeps the invariant and is one of the store, or none.
LEMMA StepSound ==
    ASSUME Ready, Assumed, NEW t \in Threads, Step(t)
    PROVE  Sound' /\ StoreNext
<1>1. CASE ReserveTests(t) \/ ReserveFails(t) \/ RollsBack(t)
  BY <1>1, ReserveTestsSound, ReserveFailsSound, RollsBackSound
<1>2. CASE CreateMakes(t) \/ CreateSaves(t) \/ CreateFills(t)
  BY <1>2, CreateMakesSound, CreateSavesSound, CreateFillsSound
<1>3. CASE WriteExtends(t) \/ WritePuts(t) \/ WriteSaves(t)
  BY <1>3, WriteExtendsSound, WritePutsSound, WriteSavesSound
<1>4. CASE DeleteWipes(t) \/ DeleteRemoves(t)
  BY <1>4, DeleteWipesSound, DeleteRemovesSound
<1>5. CASE FlushCopies(t) \/ FlushCloses(t) \/ Reply(t)
  BY <1>5, FlushCopiesSound, FlushClosesSound, ReplySound
<1> QED BY <1>1, <1>2, <1>3, <1>4, <1>5 DEF Step

\* So does every request that comes.
LEMMA RequestSound ==
    ASSUME Ready, Assumed, NEW t \in Threads, NEW p \in Paths, Request(t, p)
    PROVE  Sound' /\ StoreNext
<1>1. ASSUME NEW n \in Sizes, CreateArrives(t, p, n) PROVE Sound' /\ StoreNext
  BY <1>1, CreateArrivesSound
<1>2. ASSUME NEW o \in Offsets(p), NEW b \in Writes, WriteArrives(t, p, o, b) PROVE Sound' /\ StoreNext
  BY <1>2, WriteArrivesSound
<1>3. ASSUME NEW o \in Offsets(p), NEW n \in Lengths, GetArrives(t, p, o, n) PROVE Sound' /\ StoreNext
  BY <1>3, GetArrivesSound
<1> QED BY <1>1, <1>2, <1>3, DeleteArrivesSound, CheckArrivesSound DEF Request

\* So does a step that changes nothing.
LEMMA NothingSound ==
    ASSUME Ready, UNCHANGED vars
    PROVE  Sound' /\ StoreNext
<1>1. UNCHANGED <<up, bitmap, meta, data, job, astray, damaged>>
  BY DEF vars, disk, history
<1>2. Sound'
  <2>1. \A p \in Paths : (AtRest(p)' <=> AtRest(p)) /\ Held'[p] = Held[p]
    BY <1>1 DEF AtRest, Working, Held, Holds, Wiping, Reserved, BlocksOf, Saved
  <2> QED BY <1>1, <2>1 DEF Ready, Sound, Tidy
<1>3. UNCHANGED <<store, answered>>
  BY <1>1 DEF store, answered, AtRest, Working, Content, Saved, Size, ByteAt
<1> QED BY <1>2, <1>3 DEF StoreNext

\* The invariant is kept, and every step is one of the store, or none.
LEMMA StoreInvStep ==
    ASSUME Assumed, StoreInv, [Next]_vars
    PROVE  StoreInv' /\ StoreNext
<1>1. Owners' /\ damaged' \in BOOLEAN /\ (damaged => damaged')
  BY OwnersStep, DamageStays DEF StoreInv
<1>2. CASE damaged'
  <2>1. Sound'
    BY <1>2 DEF Sound
  <2> QED BY <1>1, <1>2, <2>1, StoreLost DEF StoreInv
<1>3. CASE ~damaged'
  <2>1. Ready
    BY <1>1, <1>3 DEF Ready, StoreInv
  <2>2. up
    BY <2>1 DEF Ready, Sound, Tidy
  <2>3. ~Kill /\ ~FIFA_Start
    BY <1>3, <2>2 DEF Kill, Falls, FIFA_Start
  <2>4. Sound' /\ StoreNext
    BY <2>1, <2>3, StepSound, RequestSound, NothingSound DEF Next
  <2> QED BY <1>1, <2>4 DEF StoreInv
<1> QED BY <1>2, <1>3

\* No files at the start, and nothing to answer.
LEMMA StoreInvInit ==
    ASSUME Assumed, Init
    PROVE  StoreInv /\ Store!Init
<1>1. Owners /\ damaged = FALSE
  BY OwnersInit DEF Init
<1>2. /\ up /\ bitmap = {} /\ astray = {} /\ \A p \in Paths : meta[p] = Absent
      /\ data = [b \in Blocks |-> <<>>] /\ \A t \in Threads : job[t] = Idle
  BY DEF Init
<1>3. Tidy
  BY <1>2 DEF Tidy
<1>4. \A p \in Paths : RestSound(data, meta[p])
  BY <1>2 DEF RestSound
<1>5. \A t \in Threads : JobSound(job[t], data, meta[job[t].path]) /\ job[t].pc = "idle"
  BY <1>2 DEF JobSound, Idle, Reserving
<1>6. Sound
  BY <1>3, <1>4, <1>5 DEF Sound
<1>7. store = [p \in Paths |-> Absent]
  <2>1. \A p \in Paths : AtRest(p) /\ Content(p) = Absent
    BY <1>2, <1>5 DEF AtRest, Working, Content, Saved
  <2> QED BY <1>1, <2>1 DEF store
<1>8. answered = [t \in Threads |-> Store!None]
  BY <1>5 DEF answered, Store!None, Store!Code
<1> QED BY <1>1, <1>6, <1>7, <1>8 DEF StoreInv, Store!Init

\* The file system of the MDJ implements the store of files: whatever is created, extended,
\* written, read and deleted at the same time, wherever the blocks are, each operation takes
\* effect at once when it is answered, and what is read are the bytes written before
\* (FIFA_CreateFile, FIFA_WriteFile, FIFA_ReadFile, FIFA_DeleteFile).  No file is created
\* without bytes: a write to one may lose what does not fit in the block it lacks.
THEOREM StoreRefinement ==
    ASSUME NoMetadata, NoFiles, 0 \notin Sizes
    PROVE  Spec => StoreImplemented
<1>1. Assumed
  BY DEF Assumed
<1>2. Init => StoreInv /\ Store!Init
  BY <1>1, StoreInvInit
<1>3. StoreInv /\ [Next]_vars => StoreInv' /\ [Store!Next]_<<store, answered>>
  BY <1>1, StoreInvStep DEF StoreNext
<1> QED BY <1>2, <1>3, PTL DEF Spec, StoreImplemented, Store!Spec
=============================================================================
