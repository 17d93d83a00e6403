------------------------------ MODULE Paging_proofs ------------------------------
(***************************************************************************)
(* FM9's memory in pages: each frame has one owner, and what a DTB has     *)
(* written is what it reads, for any DTBs, workers, frames and lines.      *)
(*                                                                         *)
(* All of it holds while the pages can be told apart (PagesAreTold), which *)
(* once lost does not come back.  Good is the inductive invariant then.    *)
(* OneRequest is the discipline of the clients.  Entries says whose entry  *)
(* has left the table.  Owned says in which one place each frame is; with  *)
(* the inverted table a frame is in a file because the table says so, and  *)
(* that rests on how the pages of an entry are numbered (Paged, PagedJob). *)
(* Contents says what the lines of the files hold, and those that have     *)
(* been written for a file before it is filed.                             *)
(***************************************************************************)
EXTENDS Paging, TLAPS

-----------------------------------------------------------------------------
\* Files: a segment has one frame for each of its pages.
OneToOne(s) == \A i, k \in DOMAIN s : s[i] = s[k] => i = k
FileRec == [dtb : DTBs, lines : Nat, pages : Nat, number : Nat, frames : Seq(Frames)]
IsFile(g) == g \in FileRec /\ (mode = "SPA" => Len(g.frames) = g.pages /\ OneToOne(g.frames))
\* No two of a DTB have one number.
Numbering(F) == \A g, h \in F : g.dtb = h.dtb /\ g.number = h.number => g = h

\* The requests, by how far they are.
Values == DTBs \cup {Nobody}
Lines == 0 .. NFrames * FrameLines - 1
OpenJob(j) ==
    /\ j \in [pc : {"write", "entry", "file"}, dtb : DTBs, lines : Nat, frames : Seq(Frames),
              at : Nat, first : Nat]
    /\ OneToOne(j.frames) /\ j.at <= Len(j.frames) /\ (j.pc = "file" <=> j.at = Len(j.frames))
    /\ j.pc = "entry" => mode = "TPI"
FreeJob(j) ==
    /\ j \in [pc : {"free"}, dtb : DTBs, files : SUBSET FileRec, at : Nat, all : BOOLEAN,
              number : Nat]
    /\ Numbering(j.files) /\ \A g \in j.files : IsFile(g) /\ g.dtb = j.dtb
ReadJob(j) ==
    /\ j \in [pc : {"read"}, dtb : DTBs, file : FileRec, at : Nat, got : SUBSET Values]
    /\ IsFile(j.file)
IsJob(j) ==
    \/ j = Idle
    \/ j \in [pc : {"check", "take"}, dtb : DTBs, lines : Nat]
    \/ OpenJob(j)
    \/ j \in [pc : {"close"}, dtb : DTBs, number : Nat]
    \/ FreeJob(j)
    \/ ReadJob(j)
    \/ j \in [pc : {"assign", "ask"}, dtb : DTBs, line : Lines]
    \/ j \in [pc : {"told"}, dtb : DTBs, got : SUBSET Values]

\* What the variables hold.
MemoryTyped ==
    /\ mode \in {"SPA", "TPI"} /\ free \in Seq(Frames)
    /\ ipt \in [Frames -> [dtb : Values, page : Nat]] /\ storage \in [Lines -> Values]
TablesTyped ==
    /\ known \subseteq DTBs /\ next \in [DTBs -> Nat]
    /\ (\A g \in files : IsFile(g) /\ g.dtb \in known) /\ Numbering(files)
JobsTyped == job = [w \in Workers |-> job[w]] /\ \A w \in Workers : IsJob(job[w])
ClientsTyped ==
    /\ status \in [DTBs -> {"new", "running", "waiting", "ended"}]
    /\ closes \in [DTBs -> Nat] /\ opened \in [DTBs -> SUBSET Nat] /\ pending \subseteq DTBs
Typed == MemoryTyped /\ TablesTyped /\ JobsTyped /\ ClientsTyped

\* A DTB waits for one answer at a time; the CLOSEDTBs of one that the console does not
\* end come when it has.
Serves(w, d) == job[w].pc # "idle" /\ job[w].dtb = d /\ ~(job[w].pc = "free" /\ job[w].all)
Served(d) == \E w \in Workers : Serves(w, d)
Asked(d) == d \in pending \/ Served(d)
One(d) ==
    /\ Asked(d) => status[d] \in {"waiting", "ended"}
    /\ d \in pending => ~Served(d)
    /\ \A v, w \in Workers : Serves(v, d) /\ Serves(w, d) => v = w
    /\ d \notin killed /\ closes[d] > 0 => status[d] = "ended" /\ ~Asked(d)
OneRequest == \A d \in DTBs : One(d)

\* The entry that a worker works with is in the table, unless it dangles.
WithEntry(w) == job[w].pc \in {"check", "take", "write", "entry", "file", "close"}
Entries ==
    /\ dangling \subseteq Workers
    /\ \A w \in Workers :
         /\ w \in dangling => WithEntry(w)
         /\ w \notin dangling /\ WithEntry(w) => job[w].dtb \in known

\* Where a frame is: no frame is in two places, nor twice in the list.
At(f, kind, x) ==
    \/ kind = "free" /\ x = 0 /\ f \in Elements(free)
    \/ kind = "lost" /\ x = 0 /\ f \in lost
    \/ kind = "file" /\ x \in files /\ f \in FramesOf(x)
    \/ kind = "hand" /\ x \in Workers /\ f \in InHand(x)
Apart == OneToOne(free) /\ \A f, k, l, x, y : At(f, k, x) /\ At(f, l, y) => k = l /\ x = y
\* The files that a worker frees have no frame twice that is not free yet.
FreesApart(w) ==
    job[w].pc = "free" =>
      \A g, h \in job[w].files : \A i \in Rest(w, g), k \in Rest(w, h), f \in Frames :
        f \in FrameAt(g, i) /\ f \in FrameAt(h, k) => g = h /\ i = k

\* The pages of the inverted table, while no entry was made again: those of an entry are
\* numbered by its next, and a file being opened has the last of them.
Below(g) == g.dtb \in known => g.number + g.pages <= next[g.dtb]
Older(g) == g.dtb \in known \cup removed
Paged ==
    /\ known \cap removed = {}
    /\ \A f \in Frames :
         /\ ipt[f].dtb \in DTBs => ipt[f].dtb \in known \cup removed
         /\ ipt[f].dtb \in known => ipt[f].page < next[ipt[f].dtb]
    /\ \A g \in files : Below(g)
PagedJob(w) ==
    /\ job[w].pc = "free" => \A g \in job[w].files : Below(g) /\ Older(g)
    /\ w \notin dangling /\ Opening(w) =>
         /\ next[job[w].dtb] = job[w].first + job[w].at
         /\ \A i \in 1 .. job[w].at :
              EntriesOf(job[w].dtb, job[w].first + i - 1) = {job[w].frames[i]}
Owned ==
    /\ Apart /\ (mode = "TPI" => Paged)
    /\ \A w \in Workers : FreesApart(w) /\ (mode = "TPI" => PagedJob(w))

\* What the lines hold: those of a file, and those that were written for a file that is
\* being opened.
Behaves(d) == d \notin killed \cup strays
OwnLines(f, d) == \A x \in LinesOf(f) : storage[x] \in {d} \cup killed \cup strays
FilesKept == \A g \in files : \A f \in FramesOf(g) : OwnLines(f, g.dtb)
Written(w) == IF job[w].pc = "entry" THEN job[w].at + 1 ELSE job[w].at
OpenKept(w) ==
    Opening(w) => \A i \in 1 .. Written(w) : OwnLines(job[w].frames[i], job[w].dtb)
\* What a DTB that behaves asks for is still there: the line, the file that is read.
LineKept(w) ==
    job[w].pc \in {"assign", "ask"} /\ Behaves(job[w].dtb) =>
      \E g \in files : \E f \in FramesOf(g) : g.dtb = job[w].dtb /\ job[w].line \in LinesOf(f)
ReadKept(w) ==
    job[w].pc = "read" /\ Behaves(job[w].dtb) =>
      job[w].file \in files /\ job[w].file.dtb = job[w].dtb
GotKept(w) ==
    job[w].pc \in {"read", "told"} /\ Behaves(job[w].dtb) =>
      job[w].got \subseteq {job[w].dtb} \cup killed \cup strays
JobKept(w) == OpenKept(w) /\ LineKept(w) /\ ReadKept(w) /\ GotKept(w)
Contents == FilesKept /\ \A w \in Workers : JobKept(w)

\* While the pages are told apart, all of it holds.
Good == Typed /\ OneRequest /\ Entries /\ Owned /\ Contents
PagingInv == PagesAreTold => Good

\* The request that a worker goes on with.
LEMMA JobBecomes ==
  ASSUME JobsTyped, NEW w \in Workers, NEW j, Goes(w, j)
  PROVE  /\ job'[w] = j /\ \A v \in Workers : v # w => job'[v] = job[v]
         /\ job' = [v \in Workers |-> job'[v]]
<1>1. PICK old : old = [v \in Workers |-> job[v]]
  OBVIOUS
<1>2. job' = [old EXCEPT ![w] = j] /\ \A v \in Workers : old[v] = job[v]
  BY <1>1 DEF JobsTyped, Goes
<1>3. DOMAIN old = Workers
  BY <1>1
<1>4. job' = [v \in Workers |-> IF v = w THEN j ELSE old[v]]
  BY <1>2, <1>3
<1>5. job' = [v \in Workers |-> job'[v]]
  BY <1>4
<1> QED BY <1>2, <1>4, <1>5

\* What a file or a request is does not change while the mode does not.
LEMMA KindsStay ==
  ASSUME mode' = mode
  PROVE  /\ \A g : IsFile(g)' <=> IsFile(g)
         /\ \A j : OpenJob(j)' <=> OpenJob(j)
         /\ \A j : FreeJob(j)' <=> FreeJob(j)
         /\ \A j : ReadJob(j)' <=> ReadJob(j)
         /\ \A j : IsJob(j)' <=> IsJob(j)
<1>1. \A g : IsFile(g)' <=> IsFile(g)
  BY DEF IsFile
<1>2. \A j : OpenJob(j)' <=> OpenJob(j)
  BY DEF OpenJob
<1>3. \A j : FreeJob(j)' <=> FreeJob(j)
  BY <1>1 DEF FreeJob
<1>4. \A j : ReadJob(j)' <=> ReadJob(j)
  BY <1>1 DEF ReadJob
<1>5. \A j : IsJob(j)' <=> IsJob(j)
  BY <1>2, <1>3, <1>4 DEF IsJob
<1> QED BY <1>1, <1>2, <1>3, <1>4, <1>5

\* The requests keep their type when the one that changes has it.
LEMMA JobStays ==
  ASSUME JobsTyped, mode' = mode, NEW w \in Workers, NEW j, Goes(w, j), IsJob(j)
  PROVE  JobsTyped'
<1>1. \A v \in Workers : IsJob(job'[v])
  BY JobBecomes DEF JobsTyped
<1> QED BY <1>1, JobBecomes, KindsStay DEF JobsTyped

\* What is said to a DTB changes it alone.
LEMMA ClientIs ==
  ASSUME ClientsTyped, NEW d \in DTBs
  PROVE  /\ Fails(d) => status'[d] = "ended" /\ closes'[d] = closes[d] + 1 /\ opened'[d] = {}
         /\ Returns(d) => status'[d] = Answered(d) /\ closes'[d] = closes[d]
         /\ Waits(d) => status'[d] = "waiting" /\ closes'[d] = closes[d] /\ opened'[d] = opened[d]
         /\ Fails(d) \/ Returns(d) \/ Waits(d) =>
              \A e \in DTBs : e # d => status'[e] = status[e] /\ closes'[e] = closes[e]
BY DEF ClientsTyped, Fails, Ends, Returns, Waits

\* What the DTBs have keeps its type.
LEMMA ClientStays ==
  ASSUME ClientsTyped, pending' \subseteq DTBs
  PROVE  /\ \A d \in DTBs : Fails(d) => ClientsTyped'
         /\ \A d \in DTBs : Waits(d) => ClientsTyped'
         /\ \A d \in DTBs : Succeeds(d) => ClientsTyped'
         /\ UNCHANGED <<status, closes, opened>> => ClientsTyped'
         /\ \A d \in DTBs, S \in SUBSET Nat :
              Returns(d) /\ opened' = [opened EXCEPT ![d] = S] => ClientsTyped'
<1>1. ASSUME NEW d \in DTBs, Fails(d) PROVE ClientsTyped'
  BY <1>1 DEF ClientsTyped, Fails, Ends
<1>2. ASSUME NEW d \in DTBs, Waits(d) PROVE ClientsTyped'
  BY <1>2 DEF ClientsTyped, Waits
<1>3. ASSUME NEW d \in DTBs, Returns(d)
      PROVE  status' \in [DTBs -> {"new", "running", "waiting", "ended"}] /\ closes' = closes
  <2>1. Answered(d) \in {"new", "running", "waiting", "ended"}
    BY DEF ClientsTyped, Answered
  <2> QED BY <1>3, <2>1 DEF ClientsTyped, Returns
<1>4. ASSUME NEW d \in DTBs, Succeeds(d) PROVE ClientsTyped'
  BY <1>3, <1>4 DEF ClientsTyped, Succeeds
<1>5. ASSUME NEW d \in DTBs, NEW S \in SUBSET Nat, Returns(d), opened' = [opened EXCEPT ![d] = S]
      PROVE  ClientsTyped'
  BY <1>3, <1>5 DEF ClientsTyped
<1>6. UNCHANGED <<status, closes, opened>> => ClientsTyped'
  BY DEF ClientsTyped
<1> QED BY <1>1, <1>2, <1>4, <1>5, <1>6

\* What a step leaves alone keeps its type.
LEMMA TypesStay ==
  ASSUME Typed
  PROVE  /\ UNCHANGED <<mode, free, ipt, storage>> => MemoryTyped'
         /\ UNCHANGED <<mode, known, next, files>> => TablesTyped'
         /\ UNCHANGED <<mode, job>> => JobsTyped'
<1>1. UNCHANGED <<mode, free, ipt, storage>> => MemoryTyped'
  BY DEF Typed, MemoryTyped
<1>2. UNCHANGED <<mode, known, next, files>> => TablesTyped'
  BY KindsStay DEF Typed, TablesTyped, Numbering
<1>3. UNCHANGED <<mode, job>> => JobsTyped'
  BY KindsStay DEF Typed, JobsTyped
<1> QED BY <1>1, <1>2, <1>3

\* Frames needed, a number.
LEMMA Needed == ASSUME NEW n \in Nat PROVE FramesNeeded(n) \in Nat
<1>1. FrameLines \in Nat /\ FrameLines > 0
  BY BoundsAssumption
<1>2. n \div FrameLines \in Nat
  BY <1>1
<1> QED BY <1>2 DEF FramesNeeded

\* The frames that are taken and those that are left.
LEMMA TakenIs ==
  ASSUME NEW n \in Nat, free \in Seq(Frames), NEW t, t = Taken(n)
  PROVE  /\ t.taken \in Seq(Frames) /\ t.left \in Seq(Frames)
         /\ OneToOne(free) => OneToOne(t.taken) /\ OneToOne(t.left)
         /\ Elements(t.taken) \subseteq Elements(free) /\ Elements(t.left) \subseteq Elements(free)
         /\ OneToOne(free) => Elements(t.taken) \cap Elements(t.left) = {}
<1> DEFINE k == Smaller(n, Len(free))
<1>1. k \in Nat /\ k <= Len(free) /\ Len(free) \in Nat
  BY DEF Smaller
<1> HIDE DEF k
<1>2. PICK a, b : a = t.taken /\ b = t.left
  OBVIOUS
<1>3. a = SubSeq(free, 1, k) /\ b = SubSeq(free, k + 1, Len(free))
  BY <1>2 DEF Taken, k
<1>4. a \in Seq(Frames) /\ Len(a) = k /\ \A i \in 1 .. k : a[i] = free[i]
  BY <1>1, <1>3
<1>5. b \in Seq(Frames) /\ Len(b) = Len(free) - k /\ \A i \in 1 .. Len(free) - k : b[i] = free[k + i]
  BY <1>1, <1>3
<1>6. DOMAIN a = 1 .. k /\ DOMAIN b = 1 .. Len(free) - k /\ DOMAIN free = 1 .. Len(free)
  BY <1>1, <1>4, <1>5
<1>7. \A i \in DOMAIN a : i \in DOMAIN free /\ a[i] = free[i]
  BY <1>1, <1>4, <1>6
<1>8. \A i \in DOMAIN b : k + i \in DOMAIN free /\ b[i] = free[k + i] /\ i \in Nat
  BY <1>1, <1>5, <1>6
<1>9. ASSUME OneToOne(free) PROVE OneToOne(a) /\ OneToOne(b) /\ Elements(a) \cap Elements(b) = {}
  <2>1. OneToOne(a)
    BY <1>7, <1>9 DEF OneToOne
  <2>2. OneToOne(b)
    <3>1. \A i, m \in DOMAIN b : k + i = k + m => i = m
      BY <1>1, <1>8
    <3> QED BY <1>8, <1>9, <3>1 DEF OneToOne
  <2>3. \A i \in DOMAIN a, m \in DOMAIN b : a[i] # b[m]
    <3>1. \A i \in DOMAIN a, m \in DOMAIN b : i # k + m
      BY <1>1, <1>6
    <3> QED BY <1>7, <1>8, <1>9, <3>1 DEF OneToOne
  <2> QED BY <2>1, <2>2, <2>3 DEF Elements
<1>10. Elements(a) \subseteq Elements(free) /\ Elements(b) \subseteq Elements(free)
  BY <1>7, <1>8 DEF Elements
<1> QED BY <1>2, <1>4, <1>5, <1>9, <1>10

\* A number of lines is at most one of so many times as much.
LEMMA Multiples ==
  ASSUME NEW a \in Nat, NEW b \in Nat, NEW n \in Nat, a < b
  PROVE  a * n + n <= b * n /\ a * n \in Nat /\ b * n \in Nat
<1>1. PICK c \in Nat : b = a + 1 + c
  <2>1. b - a - 1 \in Nat /\ b = a + 1 + (b - a - 1)
    OBVIOUS
  <2> QED BY <2>1
<1>2. b * n = a * n + n + c * n
  BY <1>1
<1>3. c * n \in Nat /\ a * n \in Nat /\ b * n \in Nat
  OBVIOUS
<1> QED BY <1>2, <1>3

\* The lines of the frames are lines of the storage, and no two frames have one.
LEMMA FrameLinesAre ==
  /\ \A f \in Frames : LinesOf(f) \subseteq Lines
  /\ \A f, g \in Frames : LinesOf(f) \cap LinesOf(g) # {} => f = g
  /\ \A f \in Frames, o \in Nat : f * FrameLines + (o % FrameLines) \in LinesOf(f)
<1>1. FrameLines \in Nat /\ FrameLines > 0 /\ NFrames \in Nat
  BY BoundsAssumption
<1>2. \A f \in Frames : f \in Nat /\ f < NFrames
  BY <1>1 DEF Frames
<1>3. ASSUME NEW f \in Frames, NEW x \in LinesOf(f) PROVE x \in Lines
  <2>1. f * FrameLines + FrameLines <= NFrames * FrameLines /\ f * FrameLines \in Nat
    BY <1>1, <1>2, Multiples
  <2>2. NFrames * FrameLines \in Nat
    BY <1>1, <1>2, Multiples
  <2> QED BY <1>1, <2>1, <2>2 DEF LinesOf, Lines
<1>4. ASSUME NEW f \in Frames, NEW g \in Frames, NEW x \in LinesOf(f), x \in LinesOf(g) PROVE ~(f < g)
  <2> SUFFICES ASSUME f < g PROVE FALSE
    OBVIOUS
  <2>1. f * FrameLines + FrameLines <= g * FrameLines /\ f * FrameLines \in Nat /\ g * FrameLines \in Nat
    BY <1>1, <1>2, Multiples
  <2> QED BY <1>1, <1>4, <2>1 DEF LinesOf
<1>5. ASSUME NEW f \in Frames, NEW g \in Frames, LinesOf(f) \cap LinesOf(g) # {} PROVE f = g
  <2>1. PICK x : x \in LinesOf(f) /\ x \in LinesOf(g)
    BY <1>5
  <2>2. ~(f < g) /\ ~(g < f)
    BY <1>4, <2>1
  <2> QED BY <1>2, <2>2
<1>6. ASSUME NEW f \in Frames, NEW o \in Nat PROVE f * FrameLines + (o % FrameLines) \in LinesOf(f)
  <2>1. o % FrameLines \in 0 .. FrameLines - 1
    BY <1>1
  <2>2. f * FrameLines \in Nat
    BY <1>1, <1>2
  <2> QED BY <1>1, <2>1, <2>2 DEF LinesOf
<1> QED BY <1>3, <1>5, <1>6

\* The request that a worker has, of each kind.
LEMMA Kinds ==
  ASSUME JobsTyped, NEW w \in Workers
  PROVE  /\ job[w].pc = "idle" => job[w] = Idle
         /\ job[w].pc \in {"check", "take"} => job[w] \in [pc : {"check", "take"}, dtb : DTBs, lines : Nat]
         /\ job[w].pc \in {"write", "entry", "file"} => OpenJob(job[w])
         /\ job[w].pc = "close" => job[w] \in [pc : {"close"}, dtb : DTBs, number : Nat]
         /\ job[w].pc = "free" => FreeJob(job[w])
         /\ job[w].pc = "read" => ReadJob(job[w])
         /\ job[w].pc \in {"assign", "ask"} => job[w] \in [pc : {"assign", "ask"}, dtb : DTBs, line : Lines]
         /\ job[w].pc = "told" => job[w] \in [pc : {"told"}, dtb : DTBs, got : SUBSET Values]
         /\ job[w].pc # "idle" => job[w].dtb \in DTBs
<1>1. IsJob(job[w])
  BY DEF JobsTyped
<1>2. Idle.pc = "idle"
  BY DEF Idle
<1> QED BY <1>1, <1>2 DEF IsJob, OpenJob, FreeJob, ReadJob

\* A DTB that a step is not about keeps its request, or has its entry released.
LEMMA OneStays ==
  ASSUME NEW d \in DTBs, One(d), closes[d] \in Nat, closes'[d] \in Nat,
         status'[d] = status[d], closes'[d] <= closes[d],
         d \in pending' <=> d \in pending, d \in killed => d \in killed',
         \A v \in Workers : Serves(v, d)' => Serves(v, d)
  PROVE  One(d)'
<1>1. closes'[d] > 0 => closes[d] > 0
  OBVIOUS
<1>2. Served(d)' => Served(d)
  BY DEF Served
<1>3. Asked(d)' => Asked(d)
  BY <1>2 DEF Asked
<1> QED BY <1>1, <1>2, <1>3 DEF One

\* A worker goes on with the request it serves.
LEMMA GoesOn ==
  ASSUME Typed, OneRequest, NEW w \in Workers, NEW j, Goes(w, j), job[w].pc # "idle", j.dtb = job[w].dtb,
         j.pc # "idle", j.pc = "free" /\ j.all <=> job[w].pc = "free" /\ job[w].all,
         UNCHANGED <<status, closes, pending, killed>>
  PROVE  OneRequest'
<1>1. job'[w] = j /\ \A v \in Workers : v # w => job'[v] = job[v]
  BY JobBecomes DEF Typed
<1>2. \A v \in Workers, d \in DTBs : Serves(v, d)' <=> Serves(v, d)
  <2>1. \A d \in DTBs : Serves(w, d)' <=> Serves(w, d)
    BY <1>1 DEF Serves
  <2>2. \A v \in Workers, d \in DTBs : v # w => (Serves(v, d)' <=> Serves(v, d))
    BY <1>1 DEF Serves
  <2> QED BY <2>1, <2>2
<1>3. ASSUME NEW d \in DTBs PROVE One(d)'
  <2>1. closes[d] \in Nat
    BY DEF Typed, ClientsTyped
  <2> QED BY <1>2, <2>1, OneStays DEF OneRequest
<1> QED BY <1>3 DEF OneRequest

\* A worker that is left without a request serves nobody.
LEMMA NobodyServed ==
  ASSUME JobsTyped, NEW w \in Workers, Goes(w, Idle)
  PROVE  \A d : /\ ~Serves(w, d)'
                /\ \A v \in Workers : v # w => (Serves(v, d)' <=> Serves(v, d))
<1>1. job'[w] = Idle /\ \A v \in Workers : v # w => job'[v] = job[v]
  BY JobBecomes
<1> QED BY <1>1 DEF Serves, Idle

\* A worker answers the DTB whose request it serves.
LEMMA Replies ==
  ASSUME Typed, OneRequest, NEW w \in Workers, NEW d \in DTBs, Serves(w, d), Goes(w, Idle),
         Fails(d) \/ Returns(d), UNCHANGED <<pending, killed>>
  PROVE  OneRequest'
<1>1. \A e : ~Serves(w, e)' /\ \A v \in Workers : v # w => (Serves(v, e)' <=> Serves(v, e))
  BY NobodyServed DEF Typed
<1>2. One(d)
  BY DEF OneRequest
<1>3. ~Asked(d)'
  BY <1>1, <1>2 DEF Asked, Served, One
<1>4. closes[d] > 0 /\ d \notin killed => FALSE
  BY <1>2 DEF One, Asked, Served
<1>5. One(d)'
  <2>1. Fails(d) => status'[d] = "ended"
    BY ClientIs DEF Typed
  <2>2. Returns(d) => closes'[d] = closes[d]
    BY ClientIs DEF Typed
  <2>3. d \notin killed' /\ closes'[d] > 0 => status'[d] = "ended"
    BY <1>4, <2>1, <2>2
  <2>4. \A v, u \in Workers : Serves(v, d)' /\ Serves(u, d)' => v = u
    BY <1>1, <1>2 DEF One
  <2> QED BY <1>3, <2>3, <2>4 DEF One, Asked
<1>6. ASSUME NEW e \in DTBs, e # d PROVE One(e)'
  <2>1. status'[e] = status[e] /\ closes'[e] = closes[e] /\ closes[e] \in Nat
    BY <1>6, ClientIs DEF Typed, ClientsTyped
  <2>2. \A v \in Workers : Serves(v, e)' => Serves(v, e)
    BY <1>1
  <2> QED BY <2>1, <2>2, OneStays DEF OneRequest
<1> QED BY <1>5, <1>6 DEF OneRequest

\* A worker begins to serve a request: that of DAM, or that of the CPU.
LEMMA Begins ==
  ASSUME Typed, OneRequest, NEW w \in Workers, NEW d \in DTBs, NEW j, Goes(w, j), job[w].pc = "idle",
         j.dtb = d, j.pc \notin {"idle", "free"}, killed' = killed,
         \/ d \in pending /\ pending' = pending \ {d} /\ UNCHANGED <<status, closes>>
         \/ status[d] = "running" /\ Waits(d) /\ pending' = pending
  PROVE  OneRequest'
<1>1. job'[w] = j /\ \A v \in Workers : v # w => job'[v] = job[v]
  BY JobBecomes DEF Typed
<1>2. One(d)
  BY DEF OneRequest
<1>3. ~Served(d) /\ (closes[d] > 0 /\ d \notin killed => FALSE)
  BY <1>2 DEF One, Asked
<1>4. \A v \in Workers : v # w => ~Serves(v, d)'
  BY <1>1, <1>3 DEF Served, Serves
<1>5. status'[d] \in {"waiting", "ended"} /\ closes'[d] = closes[d] /\ d \notin pending'
  <2>1. CASE d \in pending /\ pending' = pending \ {d} /\ UNCHANGED <<status, closes>>
    BY <1>2, <2>1 DEF One, Asked
  <2>2. CASE status[d] = "running" /\ Waits(d) /\ pending' = pending
    <3>1. d \notin pending
      BY <1>2, <2>2 DEF One, Asked
    <3> QED BY <2>2, <3>1, ClientIs DEF Typed
  <2> QED BY <2>1, <2>2
<1>6. One(d)'
  <2>1. \A v, u \in Workers : Serves(v, d)' /\ Serves(u, d)' => v = u
    BY <1>4
  <2> QED BY <1>3, <1>5, <2>1 DEF One
<1>7. ASSUME NEW e \in DTBs, e # d PROVE One(e)'
  <2>1. status'[e] = status[e] /\ closes'[e] = closes[e] /\ closes[e] \in Nat
    BY <1>7, ClientIs DEF Typed, ClientsTyped
  <2>2. \A v \in Workers : Serves(v, e)' => Serves(v, e)
    BY <1>1, <1>7 DEF Serves
  <2>3. e \in pending' <=> e \in pending
    BY <1>7
  <2> QED BY <2>1, <2>2, <2>3, OneStays DEF OneRequest
<1> QED BY <1>6, <1>7 DEF OneRequest

\* A request is refused when it arrives.
LEMMA Refused ==
  ASSUME Typed, OneRequest, NEW d \in DTBs, job' = job, Fails(d), killed' = killed,
         \/ d \in pending /\ pending' = pending \ {d}
         \/ status[d] = "running" /\ pending' = pending
  PROVE  OneRequest'
<1>1. \A v, e : Serves(v, e)' <=> Serves(v, e)
  BY DEF Serves
<1>2. One(d)
  BY DEF OneRequest
<1>3. ~Asked(d)'
  BY <1>1, <1>2 DEF One, Asked, Served
<1>4. status'[d] = "ended" /\ \A e \in DTBs : e # d => status'[e] = status[e] /\ closes'[e] = closes[e]
  BY ClientIs DEF Typed
<1>5. One(d)'
  BY <1>1, <1>2, <1>3, <1>4 DEF One, Asked
<1>6. ASSUME NEW e \in DTBs, e # d PROVE One(e)'
  <2>1. status'[e] = status[e] /\ closes'[e] = closes[e] /\ closes[e] \in Nat
    BY <1>4, <1>6 DEF Typed, ClientsTyped
  <2>2. e \in pending' <=> e \in pending
    BY <1>6
  <2> QED BY <1>1, <2>1, <2>2, OneStays DEF OneRequest
<1> QED BY <1>5, <1>6 DEF OneRequest

\* The entries of the other workers stay.
LEMMA EntriesStay ==
  ASSUME Typed, Entries, NEW w \in Workers, NEW j, Goes(w, j), known \subseteq known',
         dangling' \subseteq dangling, \A v \in dangling : v # w => v \in dangling',
         w \in dangling' => j.pc \in {"check", "take", "write", "entry", "file", "close"},
         w \notin dangling' /\ j.pc \in {"check", "take", "write", "entry", "file", "close"} => j.dtb \in known'
  PROVE  Entries'
<1>1. job'[w] = j /\ \A v \in Workers : v # w => job'[v] = job[v]
  BY JobBecomes DEF Typed
<1>2. dangling' \subseteq Workers
  BY DEF Entries
<1>3. ASSUME NEW v \in Workers, v # w
      PROVE  /\ v \in dangling' => WithEntry(v)'
             /\ v \notin dangling' /\ WithEntry(v)' => job'[v].dtb \in known'
  BY <1>1, <1>3 DEF Entries, WithEntry
<1>4. (w \in dangling' => WithEntry(w)') /\ (w \notin dangling' /\ WithEntry(w)' => job'[w].dtb \in known')
  BY <1>1 DEF WithEntry
<1> QED BY <1>2, <1>3, <1>4 DEF Entries

\* Where pages are looked for is said by the mode and the inverted table.
LEMMA FramesHold ==
  ASSUME UNCHANGED <<mode, ipt>>
  PROVE  /\ \A g, i : FrameAt(g, i)' = FrameAt(g, i)
         /\ \A g : FramesOf(g)' = FramesOf(g)
         /\ \A d, p : EntriesOf(d, p)' = EntriesOf(d, p)
<1>1. \A d, p : EntriesOf(d, p)' = EntriesOf(d, p)
  BY DEF EntriesOf
<1>2. \A f, d, p : IsFrameOfPage(f, d, p)' <=> IsFrameOfPage(f, d, p)
  BY <1>1 DEF IsFrameOfPage
<1>3. \A g, i : FrameAt(g, i)' = FrameAt(g, i)
  BY <1>2 DEF FrameAt
<1>4. \A g : FramesOf(g)' = FramesOf(g)
  BY <1>3 DEF FramesOf
<1> QED BY <1>1, <1>3, <1>4

\* The frames of a file are those of its pages.
LEMMA FramesAre ==
  ASSUME mode \in {"SPA", "TPI"}, NEW g, IsFile(g)
  PROVE  /\ FramesOf(g) \subseteq Frames
         /\ \A f : f \in FramesOf(g) <=> \E i \in 0 .. g.pages - 1 : f \in FrameAt(g, i)
<1>1. g.pages \in Nat /\ g.frames \in Seq(Frames)
  BY DEF IsFile, FileRec
<1>2. CASE mode = "SPA"
  <2>1. Len(g.frames) = g.pages /\ DOMAIN g.frames = 1 .. g.pages
    BY <1>1, <1>2 DEF IsFile
  <2>2. \A i : FrameAt(g, i) = {g.frames[i + 1]}
    BY <1>2 DEF FrameAt
  <2>3. FramesOf(g) = {g.frames[i] : i \in 1 .. g.pages}
    BY <1>2, <2>1 DEF FramesOf, Elements
  <2>4. \A f : f \in FramesOf(g) => f \in Frames
    BY <1>1, <2>1, <2>3
  <2>5. ASSUME NEW f, f \in FramesOf(g) PROVE \E i \in 0 .. g.pages - 1 : f \in FrameAt(g, i)
    <3>1. PICK k \in 1 .. g.pages : f = g.frames[k]
      BY <2>3, <2>5
    <3>2. k - 1 \in 0 .. g.pages - 1 /\ (k - 1) + 1 = k
      BY <1>1
    <3>3. f \in FrameAt(g, k - 1)
      BY <2>2, <3>1, <3>2
    <3> QED BY <3>2, <3>3
  <2>6. ASSUME NEW f, NEW i \in 0 .. g.pages - 1, f \in FrameAt(g, i) PROVE f \in FramesOf(g)
    <3>1. i + 1 \in 1 .. g.pages
      BY <1>1
    <3> QED BY <2>2, <2>3, <2>6, <3>1
  <2> QED BY <2>4, <2>5, <2>6
<1>3. CASE mode = "TPI"
  <2>1. FramesOf(g) = UNION {FrameAt(g, i) : i \in 0 .. g.pages - 1}
    BY <1>3 DEF FramesOf
  <2>2. \A f : f \in FramesOf(g) <=> \E i \in 0 .. g.pages - 1 : f \in FrameAt(g, i)
    BY <2>1
  <2>3. \A i : FrameAt(g, i) \subseteq Frames
    BY <1>3 DEF FrameAt
  <2> QED BY <2>2, <2>3
<1> QED BY <1>2, <1>3

\* What a worker has in hand.
LEMMA HandIs ==
  ASSUME NEW w
  PROVE  /\ Opening(w) => InHand(w) = Elements(job[w].frames)
         /\ job[w].pc = "free" =>
              \A f : f \in InHand(w) <=> \E g \in job[w].files : \E i \in Rest(w, g) : f \in FrameAt(g, i)
         /\ ~Opening(w) /\ job[w].pc # "free" => InHand(w) = {}
<1>1. Opening(w) => job[w].pc # "free"
  BY DEF Opening
<1>2. ASSUME job[w].pc = "free"
      PROVE  InHand(w) = UNION {UNION {FrameAt(g, i) : i \in Rest(w, g)} : g \in job[w].files}
  BY <1>1, <1>2 DEF InHand
<1>3. ASSUME job[w].pc = "free", NEW f
      PROVE  f \in InHand(w) <=> \E g \in job[w].files : \E i \in Rest(w, g) : f \in FrameAt(g, i)
  <2>1. f \in InHand(w) <=> \E g \in job[w].files : f \in UNION {FrameAt(g, i) : i \in Rest(w, g)}
    BY <1>2, <1>3
  <2>2. \A g : f \in UNION {FrameAt(g, i) : i \in Rest(w, g)} <=> \E i \in Rest(w, g) : f \in FrameAt(g, i)
    OBVIOUS
  <2> QED BY <2>1, <2>2
<1> QED BY <1>1, <1>3 DEF InHand

\* A worker whose request stays keeps what it has in hand.
LEMMA HandsHold ==
  ASSUME UNCHANGED <<mode, ipt>>, NEW v, job'[v] = job[v]
  PROVE  /\ InHand(v)' = InHand(v)
         /\ FreesApart(v)' <=> FreesApart(v)
         /\ Opening(v)' <=> Opening(v)
<1>1. \A g, i : FrameAt(g, i)' = FrameAt(g, i)
  BY FramesHold
<1>2. \A g : Rest(v, g)' = Rest(v, g)
  BY DEF Rest
<1>3. Opening(v)' <=> Opening(v)
  BY DEF Opening
<1> DEFINE Left(g) == UNION {FrameAt(g, i) : i \in Rest(v, g)}
<1>a. \A g : Left(g)' = Left(g)
  BY <1>1, <1>2
<1>b. InHand(v) = IF Opening(v) THEN Elements(job[v].frames)
                  ELSE IF job[v].pc = "free" THEN UNION {Left(g) : g \in job[v].files} ELSE {}
  BY DEF InHand
<1>c. InHand(v)' = IF Opening(v)' THEN Elements(job'[v].frames)
                  ELSE IF job'[v].pc = "free" THEN UNION {Left(g)' : g \in job'[v].files} ELSE {}
  BY DEF InHand
<1> HIDE DEF Left
<1>d. UNION {Left(g)' : g \in job'[v].files} = UNION {Left(g) : g \in job[v].files}
  BY <1>a
<1>4. InHand(v)' = InHand(v)
  BY <1>3, <1>b, <1>c, <1>d DEF Elements
<1>5. FreesApart(v)' <=> FreesApart(v)
  BY <1>1, <1>2 DEF FreesApart
<1> QED BY <1>3, <1>4, <1>5

\* The places of a frame that a step of w leaves alone.
LEMMA PlacesHold ==
  ASSUME JobsTyped, UNCHANGED <<mode, ipt>>, NEW w \in Workers, NEW j, Goes(w, j)
  PROVE  /\ \A f, v : v # w => (At(f, "hand", v)' <=> At(f, "hand", v))
         /\ \A f, g : g \in files => (At(f, "file", g)' => At(f, "file", g))
         /\ \A f, x : free' = free => (At(f, "free", x)' <=> At(f, "free", x))
         /\ \A f, x : lost' = lost => (At(f, "lost", x)' <=> At(f, "lost", x))
<1>1. \A v \in Workers : v # w => job'[v] = job[v]
  BY JobBecomes
<1>2. \A v \in Workers : v # w => InHand(v)' = InHand(v)
  BY <1>1, HandsHold
<1>3. \A f, v : v # w => (At(f, "hand", v)' <=> At(f, "hand", v))
  BY <1>2 DEF At
<1>4. \A f, g : g \in files => (At(f, "file", g)' => At(f, "file", g))
  BY FramesHold DEF At
<1>5. \A f, x : free' = free => (At(f, "free", x)' <=> At(f, "free", x))
  BY DEF At
<1>6. \A f, x : lost' = lost => (At(f, "lost", x)' <=> At(f, "lost", x))
  BY DEF At
<1> QED BY <1>3, <1>4, <1>5, <1>6

\* A frame that is moved leaves the place it was in.
LEMMA Moves ==
  ASSUME Apart, OneToOne(free)', NEW kind, NEW place,
         \A f, k, x : At(f, k, x)' =>
            \/ At(f, k, x)
            \/ k = kind /\ x = place /\ \E l, y : At(f, l, y) /\ ~At(f, l, y)'
  PROVE  Apart'
<1>1. ASSUME NEW f, NEW k, NEW l, NEW x, NEW y, At(f, k, x)', At(f, l, y)' PROVE k = l /\ x = y
  BY <1>1 DEF Apart
<1> QED BY <1>1 DEF Apart

\* The frames stay apart when a step moves none.
LEMMA ApartStays ==
  ASSUME Typed, Apart, UNCHANGED <<mode, ipt, free>>, lost' = lost, files' \subseteq files,
         NEW w \in Workers, NEW j, Goes(w, j), InHand(w)' \subseteq InHand(w)
  PROVE  Apart'
<1>1. OneToOne(free)'
  BY DEF Apart, OneToOne
<1>2. \A f : At(f, "hand", w)' => At(f, "hand", w)
  BY DEF At
<1>3. \A f, g : At(f, "file", g)' => g \in files
  BY DEF At
<1>4. \A f, k, x : At(f, k, x)' => k \in {"free", "lost", "file", "hand"}
  BY DEF At
<1>5. /\ \A f, v : v # w => (At(f, "hand", v)' => At(f, "hand", v))
      /\ \A f, g : g \in files => (At(f, "file", g)' => At(f, "file", g))
      /\ \A f, x : At(f, "free", x)' => At(f, "free", x)
      /\ \A f, x : At(f, "lost", x)' => At(f, "lost", x)
  BY PlacesHold DEF Typed
<1>6. \A f, k, x : At(f, k, x)' => At(f, k, x)
  BY <1>2, <1>3, <1>4, <1>5
<1> QED BY <1>1, <1>6, Moves

\* The pages stay numbered when an entry leaves the table or a new one is made.
LEMMA PagedStays ==
  ASSUME Typed, Entries, Owned, mode = "TPI", ipt' = ipt, \A g \in files' : g \in files \/ Below(g)',
         known' \subseteq DTBs, known' \cap removed' = {},
         known \cup removed \subseteq known' \cup removed',
         \A e \in known' : e \in known \/ e \notin known \cup removed,
         \A e \in known \cap known' : next'[e] = next[e]
  PROVE  /\ Paged'
         /\ \A v \in Workers :
              /\ job'[v] = job[v]
              /\ v \notin dangling' => v \notin dangling
              /\ v \notin dangling' /\ Opening(v) => job[v].dtb \in known'
              => PagedJob(v)'
<1>1. Paged
  BY DEF Owned
<1>2. \A g : Below(g) /\ (g.dtb \in known' => g.dtb \in known) => Below(g)'
  BY DEF Below
<1>5. \A f \in Frames : ipt[f].dtb \in DTBs => ipt[f].dtb \in known' \cup removed'
  BY <1>1 DEF Paged
<1>6. Paged'
  <2>1. \A f \in Frames : ipt[f].dtb \in known' /\ ipt[f].dtb \in DTBs => ipt[f].page < next'[ipt[f].dtb]
    BY <1>1 DEF Paged
  <2>2. \A g \in files : Below(g)'
    BY <1>1, <1>2 DEF Paged, Typed, TablesTyped
  <2>3. \A f \in Frames : ipt[f].dtb \in known' => ipt[f].dtb \in DTBs
    OBVIOUS
  <2> QED BY <1>5, <2>1, <2>2, <2>3 DEF Paged
<1>7. ASSUME NEW v \in Workers, job'[v] = job[v], v \notin dangling' => v \notin dangling,
             v \notin dangling' /\ Opening(v) => job[v].dtb \in known'
      PROVE  PagedJob(v)'
  <2>1. PagedJob(v)
    BY DEF Owned
  <2>2. ASSUME job[v].pc = "free", NEW g \in job[v].files PROVE Below(g)' /\ Older(g)'
    <3>1. Below(g) /\ Older(g)
      BY <2>1, <2>2 DEF PagedJob
    <3> QED BY <1>2, <3>1 DEF Older
  <2>3. ASSUME v \notin dangling', Opening(v)
        PROVE  /\ next'[job[v].dtb] = job[v].first + job[v].at
               /\ \A i \in 1 .. job[v].at :
                    EntriesOf(job[v].dtb, job[v].first + i - 1)' = {job[v].frames[i]}
    <3>1. job[v].dtb \in known /\ job[v].dtb \in known'
      BY <1>7, <2>3 DEF Entries, WithEntry, Opening
    <3>2. \A i : EntriesOf(job[v].dtb, job[v].first + i - 1)' = EntriesOf(job[v].dtb, job[v].first + i - 1)
      BY <1>7 DEF EntriesOf
    <3> QED BY <1>7, <2>1, <2>3, <3>1, <3>2 DEF PagedJob
  <2>4. Opening(v)' <=> Opening(v)
    BY <1>7 DEF Opening
  <2> QED BY <1>7, <2>2, <2>3, <2>4 DEF PagedJob
<1> QED BY <1>6, <1>7

\* A step whose worker ends with nothing in hand leaves every frame where it is.
LEMMA OwnedStays ==
  ASSUME Typed, Entries, Owned, UNCHANGED <<mode, ipt, free, removed>>, lost' = lost, files' \subseteq files,
         NEW w \in Workers, NEW j, Goes(w, j), j.pc \notin {"write", "entry", "file", "free"},
         known \subseteq known', known' \subseteq DTBs, \A e \in known : next'[e] = next[e],
         mode = "TPI" => \A e \in known' : e \in known \/ e \notin known \cup removed,
         \A v \in Workers : v # w => (v \in dangling' <=> v \in dangling)
  PROVE  Owned'
<1>1. job'[w] = j /\ \A v \in Workers : v # w => job'[v] = job[v]
  BY JobBecomes DEF Typed
<1>2. ~Opening(w)' /\ job'[w].pc # "free"
  BY <1>1 DEF Opening
<1>3. InHand(w)' = {} /\ FreesApart(w)' /\ PagedJob(w)'
  BY <1>2 DEF InHand, FreesApart, PagedJob
<1>4. Apart'
  BY <1>3, ApartStays DEF Owned
<1>5. \A v \in Workers : v # w => FreesApart(v)'
  BY <1>1, HandsHold DEF Owned
<1>6. ASSUME mode = "TPI" PROVE Paged' /\ \A v \in Workers : v # w => PagedJob(v)'
  <2>1. known' \cap removed' = {}
    BY <1>6 DEF Owned, Paged
  <2>2. \A v \in Workers : v # w /\ v \notin dangling' /\ Opening(v) => job[v].dtb \in known'
    BY DEF Entries, WithEntry, Opening
  <2>3. \A v \in Workers : v # w => (v \notin dangling' => v \notin dangling)
    OBVIOUS
  <2>4. Paged' /\ \A v \in Workers :
              /\ job'[v] = job[v]
              /\ v \notin dangling' => v \notin dangling
              /\ v \notin dangling' /\ Opening(v) => job[v].dtb \in known'
              => PagedJob(v)'
    BY <1>6, <2>1, PagedStays
  <2> QED BY <1>1, <2>2, <2>3, <2>4
<1> QED BY <1>3, <1>4, <1>5, <1>6 DEF Owned

\* The lines of a frame stay its owner's while nobody writes them.
LEMMA OwnLinesStay ==
  ASSUME killed \subseteq killed', strays \subseteq strays', NEW f, NEW d,
         \A x \in LinesOf(f) : storage'[x] = storage[x], OwnLines(f, d)
  PROVE  OwnLines(f, d)'
BY DEF OwnLines

\* A worker without lines or files has none to keep.
LEMMA NothingKept ==
  ASSUME NEW w, job'[w].pc \notin {"write", "entry", "file", "assign", "ask", "read", "told"}
  PROVE  JobKept(w)'
BY DEF JobKept, OpenKept, LineKept, ReadKept, GotKept, Opening

\* What a request relies on stays, when its lines and the files of its DTB do.
LEMMA JobKeeps ==
  ASSUME NEW v, JobKept(v), job'[v] = job[v], killed \subseteq killed', strays \subseteq strays',
         Opening(v) => \A i \in 1 .. Written(v) :
            OwnLines(job[v].frames[i], job[v].dtb) => OwnLines(job[v].frames[i], job[v].dtb)',
         job[v].pc \in {"assign", "ask", "read"} /\ Behaves(job[v].dtb) /\ Behaves(job[v].dtb)' =>
            \A g \in files : g.dtb = job[v].dtb => g \in files' /\ FramesOf(g)' = FramesOf(g)
  PROVE  JobKept(v)'
<1>2. OpenKept(v)'
  <2>1. (Opening(v)' <=> Opening(v)) /\ Written(v)' = Written(v)
    BY DEF Opening, Written
  <2>2. ASSUME Opening(v), NEW i \in 1 .. Written(v) PROVE OwnLines(job[v].frames[i], job[v].dtb)'
    BY <2>2 DEF JobKept, OpenKept
  <2> QED BY <2>1, <2>2 DEF OpenKept
<1>3. LineKept(v)'
  <2> SUFFICES ASSUME job'[v].pc \in {"assign", "ask"}, job[v].dtb \notin killed' \cup strays'
               PROVE  \E g \in files' : \E f \in FramesOf(g)' : g.dtb = job'[v].dtb /\ job'[v].line \in LinesOf(f)
    BY DEF LineKept, Behaves
  <2>1. Behaves(job[v].dtb)' /\ Behaves(job[v].dtb)
    BY DEF Behaves
  <2>2. PICK g \in files : \E f \in FramesOf(g) : g.dtb = job[v].dtb /\ job[v].line \in LinesOf(f)
    BY <2>1 DEF JobKept, LineKept
  <2>3. g \in files' /\ FramesOf(g)' = FramesOf(g)
    BY <2>1, <2>2
  <2> QED BY <2>2, <2>3
<1>4. ReadKept(v)'
  <2> SUFFICES ASSUME job'[v].pc = "read", job[v].dtb \notin killed' \cup strays'
               PROVE  job'[v].file \in files' /\ job'[v].file.dtb = job'[v].dtb
    BY DEF ReadKept, Behaves
  <2>1. Behaves(job[v].dtb)' /\ Behaves(job[v].dtb)
    BY DEF Behaves
  <2> QED BY <2>1 DEF JobKept, ReadKept
<1>5. GotKept(v)'
  <2> SUFFICES ASSUME job'[v].pc \in {"read", "told"}, job[v].dtb \notin killed' \cup strays'
               PROVE  job'[v].got \subseteq {job'[v].dtb} \cup killed' \cup strays'
    BY DEF GotKept, Behaves
  <2>1. Behaves(job[v].dtb)
    BY DEF Behaves
  <2> QED BY <2>1 DEF JobKept, GotKept
<1> QED BY <1>2, <1>3, <1>4, <1>5 DEF JobKept

\* What the lines hold stays when no line is written and no file leaves.
LEMMA ContentsStay ==
  ASSUME JobsTyped, Contents, UNCHANGED <<mode, ipt, storage>>,
         killed \subseteq killed', strays \subseteq strays',
         \A g \in files' : g \in files \/ \A f \in FramesOf(g) : OwnLines(f, g.dtb),
         NEW w \in Workers, NEW j, Goes(w, j), JobKept(w)',
         \A v \in Workers : v # w /\ job[v].pc \in {"assign", "ask", "read"} /\ Behaves(job[v].dtb) =>
            \A g \in files : g.dtb = job[v].dtb => g \in files'
  PROVE  Contents'
<1>1. \A f, d : OwnLines(f, d) => OwnLines(f, d)'
  BY OwnLinesStay
<1>2. \A g : FramesOf(g)' = FramesOf(g)
  BY FramesHold
<1>3. FilesKept'
  BY <1>1, <1>2 DEF Contents, FilesKept
<1>4. ASSUME NEW v \in Workers, v # w PROVE JobKept(v)'
  <2>1. job'[v] = job[v] /\ JobKept(v)
    BY <1>4, JobBecomes DEF Contents
  <2>2. \A i \in 1 .. Written(v) :
            OwnLines(job[v].frames[i], job[v].dtb) => OwnLines(job[v].frames[i], job[v].dtb)'
    <3>1. PICK fs, d : fs = job[v].frames /\ d = job[v].dtb
      OBVIOUS
    <3>2. \A i : OwnLines(fs[i], d) => OwnLines(fs[i], d)'
      BY <1>1
    <3>3. job'[v].frames = fs /\ job'[v].dtb = d
      BY <2>1, <3>1
    <3> QED BY <3>1, <3>2, <3>3 DEF OwnLines
  <2>3. job[v].pc \in {"assign", "ask", "read"} /\ Behaves(job[v].dtb) /\ Behaves(job[v].dtb)' =>
            \A g \in files : g.dtb = job[v].dtb => g \in files' /\ FramesOf(g)' = FramesOf(g)
    BY <1>2, <1>4
  <2> QED BY <2>1, <2>2, <2>3, JobKeeps
<1> QED BY <1>3, <1>4 DEF Contents

\* A step that changes none of the memory and ends with nothing in hand.
LEMMA QuietStep ==
  ASSUME Good, UNCHANGED <<memory, removed, killed>>, lost' = lost, strays \subseteq strays',
         NEW w \in Workers, NEW j, Goes(w, j), j.pc \notin {"write", "entry", "file", "free"},
         \A v \in Workers : v # w => (v \in dangling' <=> v \in dangling), JobKept(w)'
  PROVE  Owned' /\ Contents'
<1>1. UNCHANGED <<mode, free, ipt, known, next, files, storage, killed, removed>>
  BY DEF memory, tables
<1>2. known' \subseteq DTBs
  BY <1>1 DEF Good, Typed, TablesTyped
<1>3. Owned'
  <2>1. \A e \in known' : e \in known \/ e \notin known \cup removed
    BY <1>1
  <2> QED BY <1>1, <1>2, <2>1, OwnedStays DEF Good
<1>4. Contents'
  BY <1>1, ContentsStay DEF Good, Typed
<1> QED BY <1>3, <1>4

\* A step that changes only what the DTBs know.
LEMMA StillStep ==
  ASSUME Owned, Contents, UNCHANGED <<memory, job, dangling, lost, removed>>,
         killed \subseteq killed', strays \subseteq strays'
  PROVE  Owned' /\ Contents'
<1>1. UNCHANGED <<mode, free, ipt, known, next, files, storage, job, dangling, lost, removed>>
  BY DEF memory, tables
<1>2. \A g, i : FrameAt(g, i)' = FrameAt(g, i)
  BY <1>1, FramesHold
<1>3. \A g : FramesOf(g)' = FramesOf(g)
  BY <1>1, FramesHold
<1>4. \A v : InHand(v)' = InHand(v) /\ (FreesApart(v)' <=> FreesApart(v)) /\ (Opening(v)' <=> Opening(v))
  BY <1>1, HandsHold
<1>5. Apart'
  <2>1. \A f, k, x : At(f, k, x)' <=> At(f, k, x)
    BY <1>1, <1>3, <1>4 DEF At, Elements
  <2> QED BY <1>1, <2>1 DEF Owned, Apart, OneToOne
<1>6. \A g : (Below(g)' <=> Below(g)) /\ (Older(g)' <=> Older(g))
  BY <1>1 DEF Below, Older
<1>7. \A d, p : EntriesOf(d, p)' = EntriesOf(d, p)
  BY <1>1 DEF EntriesOf
<1>8. Paged' <=> Paged
  BY <1>1, <1>6 DEF Paged
<1>9. ASSUME NEW v PROVE PagedJob(v)' <=> PagedJob(v)
  <2>1. \A i : EntriesOf(job[v].dtb, job[v].first + i - 1)' = EntriesOf(job[v].dtb, job[v].first + i - 1)
    BY <1>1 DEF EntriesOf
  <2> QED BY <1>1, <1>4, <1>6, <2>1 DEF PagedJob
<1>10. Owned'
  BY <1>1, <1>4, <1>5, <1>8, <1>9 DEF Owned
<1>11. \A f, d : OwnLines(f, d) => OwnLines(f, d)'
  BY <1>1, OwnLinesStay
<1>12. FilesKept'
  BY <1>1, <1>3, <1>11 DEF Contents, FilesKept
<1>13. ASSUME NEW v \in Workers PROVE JobKept(v)'
  <2>1. JobKept(v) /\ job'[v] = job[v]
    BY <1>1 DEF Contents
  <2>2. \A i \in 1 .. Written(v) :
            OwnLines(job[v].frames[i], job[v].dtb) => OwnLines(job[v].frames[i], job[v].dtb)'
    <3>1. PICK fs, d : fs = job[v].frames /\ d = job[v].dtb
      OBVIOUS
    <3>2. \A i : OwnLines(fs[i], d) => OwnLines(fs[i], d)'
      BY <1>11
    <3>3. job'[v].frames = fs /\ job'[v].dtb = d
      BY <2>1, <3>1
    <3> QED BY <3>1, <3>2, <3>3 DEF OwnLines
  <2>3. \A g \in files : g \in files' /\ FramesOf(g)' = FramesOf(g)
    BY <1>1, <1>3
  <2> QED BY <2>1, <2>2, <2>3, JobKeeps
<1> QED BY <1>10, <1>12, <1>13 DEF Contents

\* The DTBs, CPU, DAM and the console change nothing of FM9.
LEMMA GoodClients ==
  ASSUME Good, NEW d \in DTBs, AskDAM(d) \/ CPU_EndDTB(d) \/ CommandFinalizar(d) \/ EndKilled(d)
  PROVE  Good'
<1> USE DEF Good
<1>1. UNCHANGED <<mode, free, ipt, storage, known, next, files, job, dangling, lost, removed>>
  BY DEF AskDAM, CPU_EndDTB, CommandFinalizar, EndKilled, memory, tables, faults
<1>2. killed \subseteq killed' /\ strays' = strays /\ pending' \subseteq DTBs
  BY DEF AskDAM, CPU_EndDTB, CommandFinalizar, EndKilled, Typed, ClientsTyped
<1>3. ClientsTyped'
  <2>1. CASE AskDAM(d) \/ CPU_EndDTB(d)
    BY <1>2, <2>1, ClientStays DEF AskDAM, CPU_EndDTB, Typed
  <2>2. CASE CommandFinalizar(d)
    BY <2>2 DEF CommandFinalizar, Typed, ClientsTyped
  <2>3. CASE EndKilled(d)
    BY <2>3 DEF EndKilled, Ends, Typed, ClientsTyped
  <2> QED BY <2>1, <2>2, <2>3
<1>4. Typed'
  BY <1>1, <1>3, TypesStay DEF Typed
<1>5. Owned' /\ Contents'
  BY <1>1, <1>2, StillStep DEF memory, tables
<1>6. Entries'
  BY <1>1 DEF Entries, WithEntry
<1>7. \A v, e : Serves(v, e)' <=> Serves(v, e)
  BY <1>1 DEF Serves
<1>8. \A e : Served(e)' <=> Served(e)
  BY <1>7 DEF Served
<1>9. One(d) /\ closes[d] \in Nat /\ DOMAIN closes = DTBs /\ DOMAIN status = DTBs
  BY DEF OneRequest, Typed, ClientsTyped
<1>10. One(d)'
  <2>1. CASE AskDAM(d)
    <3>1. status'[d] = "waiting" /\ closes' = closes /\ killed' = killed
      BY <1>9, <2>1 DEF AskDAM, Waits
    <3>2. ~Asked(d) /\ status[d] # "ended"
      BY <1>9, <2>1 DEF AskDAM, One
    <3> QED BY <1>7, <1>8, <1>9, <3>1, <3>2 DEF One, Asked
  <2>2. CASE CPU_EndDTB(d)
    <3>1. status'[d] = "ended" /\ UNCHANGED <<pending, killed>>
      BY <1>9, <2>2 DEF CPU_EndDTB, Fails, Ends
    <3>2. ~Asked(d)
      BY <1>9, <2>2 DEF CPU_EndDTB, One
    <3> QED BY <1>7, <1>8, <1>9, <3>1, <3>2 DEF One, Asked
  <2>3. CASE CommandFinalizar(d)
    <3>1. d \in killed' /\ UNCHANGED <<status, pending>>
      BY <2>3 DEF CommandFinalizar
    <3> QED BY <1>7, <1>8, <1>9, <3>1 DEF One, Asked
  <2>4. CASE EndKilled(d)
    <3>1. d \in killed' /\ status'[d] = "ended" /\ UNCHANGED pending
      BY <1>9, <2>4 DEF EndKilled, Ends
    <3> QED BY <1>7, <1>8, <1>9, <3>1 DEF One, Asked
  <2> QED BY <2>1, <2>2, <2>3, <2>4
<1>11. ASSUME NEW e \in DTBs, e # d PROVE One(e)'
  <2>1. /\ status'[e] = status[e] /\ closes'[e] = closes[e] /\ closes[e] \in Nat
        /\ e \in pending' <=> e \in pending
    BY <1>11 DEF AskDAM, CPU_EndDTB, CommandFinalizar, EndKilled, Waits, Fails, Ends, Typed, ClientsTyped
  <2> QED BY <1>2, <1>7, <2>1, OneStays DEF OneRequest
<1>12. OneRequest'
  BY <1>10, <1>11 DEF OneRequest
<1> QED BY <1>4, <1>5, <1>6, <1>12

\* getFreeFrames finds too few frames, or goes on.
LEMMA GoodChecks == ASSUME Good, NEW w \in Workers, OpenChecks(w) PROVE Good'
<1> USE DEF Good
<1>1. job[w] \in [pc : {"check", "take"}, dtb : DTBs, lines : Nat] /\ job[w].pc = "check"
  BY Kinds DEF OpenChecks, Active, Typed
<1>2. PICK d \in DTBs : d = job[w].dtb
  BY <1>1
<1>3. Serves(w, d)
  BY <1>1, <1>2 DEF Serves
<1>4. /\ UNCHANGED <<memory, lost, removed, pending, killed, strays>>
      /\ UNCHANGED <<mode, free, ipt, storage, known, next, files>>
  BY DEF OpenChecks, memory, tables
<1>5. pending' \subseteq DTBs
  BY <1>4 DEF Typed, ClientsTyped
<1>6. CASE Len(free) < FramesNeeded(job[w].lines)
  <2>1. Fails(d) /\ Goes(w, Idle) /\ dangling' = dangling \ {w}
    BY <1>2, <1>6 DEF OpenChecks
  <2>2. Typed'
    BY <1>4, <1>5, <2>1, ClientStays, TypesStay, JobStays DEF Typed, IsJob
  <2>3. OneRequest'
    BY <1>3, <1>4, <2>1, Replies
  <2>4. Idle.pc = "idle"
    BY DEF Idle
  <2>5. Entries'
    BY <1>4, <2>1, <2>4, EntriesStay
  <2>6. JobKept(w)'
    BY <2>1, <2>4, JobBecomes, NothingKept DEF Typed
  <2>7. Owned' /\ Contents'
    BY <1>4, <2>1, <2>4, <2>6, QuietStep
  <2> QED BY <2>2, <2>3, <2>5, <2>7
<1>7. CASE ~(Len(free) < FramesNeeded(job[w].lines))
  <2>1. PICK j : j = [job[w] EXCEPT !.pc = "take"]
    OBVIOUS
  <2>2. Goes(w, j) /\ UNCHANGED <<status, closes, opened, dangling>>
    BY <1>7, <2>1 DEF OpenChecks
  <2>3. j \in [pc : {"check", "take"}, dtb : DTBs, lines : Nat] /\ j.pc = "take" /\ j.dtb = d
    BY <1>1, <1>2, <2>1
  <2>4. Typed'
    BY <1>4, <1>5, <2>2, <2>3, ClientStays, TypesStay, JobStays DEF Typed, IsJob
  <2>5. OneRequest'
    BY <1>1, <1>2, <1>4, <2>2, <2>3, GoesOn
  <2>6. w \notin dangling => job[w].dtb \in known
    BY <1>1 DEF Entries, WithEntry
  <2>7. Entries'
    BY <1>2, <1>4, <2>2, <2>3, <2>6, EntriesStay
  <2>8. JobKept(w)'
    BY <2>2, <2>3, JobBecomes, NothingKept DEF Typed
  <2>9. Owned' /\ Contents'
    BY <1>4, <2>2, <2>3, <2>8, QuietStep
  <2> QED BY <2>4, <2>5, <2>7, <2>9
<1> QED BY <1>6, <1>7

\* FM9_Close finds the entry of the DTB, or not.
LEMMA GoodCloseFinds ==
  ASSUME Good, NEW w \in Workers, NEW d \in DTBs, NEW k \in opened[d], CloseFinds(w, d, k)
  PROVE  Good'
<1> USE DEF Good
<1>1. job[w].pc = "idle" /\ status[d] = "running" /\ k \in Nat
  BY DEF CloseFinds, Active, Typed, ClientsTyped
<1>2. /\ UNCHANGED <<memory, dangling, lost, removed, pending, killed, strays>>
      /\ UNCHANGED <<mode, free, ipt, storage, known, next, files>>
  BY DEF CloseFinds, memory, tables, faults
<1>3. pending' \subseteq DTBs
  BY <1>2 DEF Typed, ClientsTyped
<1>4. CASE d \in known
  <2>1. PICK j : j = [pc |-> "close", dtb |-> d, number |-> k]
    OBVIOUS
  <2>2. Goes(w, j) /\ Waits(d)
    BY <1>4, <2>1 DEF CloseFinds
  <2>3. j \in [pc : {"close"}, dtb : DTBs, number : Nat] /\ j.pc = "close" /\ j.dtb = d
    BY <1>1, <2>1
  <2>4. Typed'
    BY <1>2, <1>3, <2>2, <2>3, ClientStays, TypesStay, JobStays DEF Typed, IsJob
  <2>5. OneRequest'
    BY <1>1, <1>2, <2>2, <2>3, Begins
  <2>6. w \notin dangling
    BY <1>1 DEF Entries, WithEntry
  <2>7. Entries'
    BY <1>2, <1>4, <2>2, <2>3, <2>6, EntriesStay
  <2>8. JobKept(w)'
    BY <2>2, <2>3, JobBecomes, NothingKept DEF Typed
  <2>9. Owned' /\ Contents'
    BY <1>2, <2>2, <2>3, <2>8, QuietStep
  <2> QED BY <2>4, <2>5, <2>7, <2>9
<1>5. CASE d \notin known
  <2>1. Fails(d) /\ job' = job
    BY <1>5 DEF CloseFinds
  <2>2. Typed'
    BY <1>2, <1>3, <2>1, ClientStays, TypesStay DEF Typed
  <2>3. OneRequest'
    BY <1>1, <1>2, <2>1, Refused
  <2>4. Entries'
    BY <1>2, <2>1 DEF Entries, WithEntry
  <2>5. Owned' /\ Contents'
    BY <1>2, <2>1, StillStep
  <2> QED BY <2>2, <2>3, <2>4, <2>5
<1> QED BY <1>4, <1>5

\* The end of a close, or of the release of an entry.
LEMMA GoodFreesEnd == ASSUME Good, NEW w \in Workers, FreesEnd(w) PROVE Good'
<1> USE DEF Good
<1>1. FreeJob(job[w]) /\ job[w].pc = "free" /\ Goes(w, Idle)
  BY Kinds DEF FreesEnd, Active, Typed
<1>2. PICK d \in DTBs : d = job[w].dtb
  BY <1>1 DEF FreeJob
<1>3. /\ UNCHANGED <<memory, dangling, lost, removed, pending, killed, strays>>
      /\ UNCHANGED <<mode, free, ipt, storage, known, next, files>>
  BY DEF FreesEnd, memory, tables, faults
<1>4. pending' \subseteq DTBs
  BY <1>3 DEF Typed, ClientsTyped
<1>5. Idle.pc = "idle"
  BY DEF Idle
<1>6. w \notin dangling
  BY <1>1 DEF Entries, WithEntry
<1>7. Entries'
  BY <1>1, <1>3, <1>5, <1>6, EntriesStay
<1>8. JobKept(w)'
  BY <1>1, <1>5, JobBecomes, NothingKept DEF Typed
<1>9. Owned' /\ Contents'
  BY <1>1, <1>3, <1>5, <1>8, QuietStep
<1>10. ClientsTyped' /\ OneRequest'
  <2>1. CASE job[w].all
    <3>1. UNCHANGED <<status, closes, opened>>
      BY <2>1 DEF FreesEnd
    <3>2. \A e : ~Serves(w, e)
      BY <1>1, <2>1 DEF Serves
    <3>3. \A e : \A v \in Workers : Serves(v, e)' => Serves(v, e)
      BY <1>1, <3>2, NobodyServed DEF Typed
    <3>4. ASSUME NEW e \in DTBs PROVE One(e)'
      <4>1. closes[e] \in Nat
        BY DEF Typed, ClientsTyped
      <4> QED BY <1>3, <3>1, <3>3, <4>1, OneStays DEF OneRequest
    <3> QED BY <1>4, <3>1, <3>4, ClientStays DEF OneRequest, Typed
  <2>2. CASE ~job[w].all
    <3>1. Returns(d) /\ opened' = [opened EXCEPT ![d] = @ \ {job[w].number}]
      BY <1>2, <2>2 DEF FreesEnd
    <3>2. Serves(w, d)
      BY <1>1, <1>2, <2>2 DEF Serves
    <3>3. PICK S : S = opened[d] \ {job[w].number}
      OBVIOUS
    <3>4. S \in SUBSET Nat /\ opened' = [opened EXCEPT ![d] = S]
      BY <3>1, <3>3 DEF Typed, ClientsTyped
    <3> QED BY <1>1, <1>3, <1>4, <3>1, <3>2, <3>4, ClientStays, Replies DEF Typed
  <2> QED BY <2>1, <2>2
<1>11. Typed'
  BY <1>1, <1>3, <1>10, TypesStay, JobStays DEF Typed, IsJob
<1> QED BY <1>7, <1>9, <1>10, <1>11

\* FM9_Open finds the entry of the DTB, or makes one: its first, while the pages of the
\* inverted table are to be told apart.
LEMMA GoodOpenFinds ==
  ASSUME Good, NEW w \in Workers, NEW d \in DTBs, NEW n \in Nat, OpenFinds(w, d, n), PagesAreTold'
  PROVE  Good'
<1> USE DEF Good
<1>1. /\ job[w].pc = "idle" /\ d \in pending /\ pending' = pending \ {d} /\ known' = known \cup {d}
      /\ again' = IF d \in known THEN again ELSE again \cup ({d} \cap removed)
      /\ UNCHANGED <<mode, free, ipt, next, files, storage, dangling, lost, removed,
                   status, killed, closes, opened, strays>>
  BY DEF OpenFinds, Active
<1>2. PICK j : j = [pc |-> "check", dtb |-> d, lines |-> n]
  OBVIOUS
<1>3. Goes(w, j)
  BY <1>2 DEF OpenFinds
<1>4. j \in [pc : {"check", "take"}, dtb : DTBs, lines : Nat] /\ j.pc = "check" /\ j.dtb = d
  BY <1>2
<1>5. pending' \subseteq DTBs
  BY <1>1 DEF Typed, ClientsTyped
<1>6. MemoryTyped' /\ ClientsTyped'
  BY <1>1, <1>5, TypesStay, ClientStays DEF Typed
<1>7. TablesTyped'
  <2>1. \A g : IsFile(g)' <=> IsFile(g)
    BY <1>1, KindsStay
  <2> QED BY <1>1, <2>1 DEF Typed, TablesTyped, Numbering
<1>8. JobsTyped'
  BY <1>1, <1>3, <1>4, JobStays DEF Typed, IsJob
<1>9. OneRequest'
  BY <1>1, <1>3, <1>4, Begins
<1>10. w \notin dangling
  BY <1>1 DEF Entries, WithEntry
<1>11. Entries'
  BY <1>1, <1>3, <1>4, <1>10, EntriesStay
<1>12. JobKept(w)'
  BY <1>3, <1>4, JobBecomes, NothingKept DEF Typed
<1>13. mode = "TPI" => d \in known \/ d \notin removed
  BY <1>1 DEF PagesAreTold
<1>14. Owned'
  <2>1. mode = "TPI" => \A e \in known' : e \in known \/ e \notin known \cup removed
    BY <1>1, <1>13
  <2>2. known' \subseteq DTBs /\ known \subseteq known' /\ \A e \in known : next'[e] = next[e]
    BY <1>1, <1>7 DEF TablesTyped
  <2>3. \A v \in Workers : v # w => (v \in dangling' <=> v \in dangling)
    BY <1>1
  <2> QED BY <1>1, <1>3, <1>4, <2>1, <2>2, <2>3, OwnedStays
<1>15. Contents'
  BY <1>1, <1>3, <1>12, ContentsStay DEF Typed
<1> QED BY <1>6, <1>7, <1>8, <1>9, <1>11, <1>14, <1>15 DEF Typed

\* FM9_Flush finds the file, or not.
LEMMA GoodFlushFinds ==
  ASSUME Good, NEW w \in Workers, NEW d \in DTBs, NEW k \in opened[d], FlushFinds(w, d, k)
  PROVE  Good'
<1> USE DEF Good
<1>1. job[w].pc = "idle" /\ d \in pending /\ pending' = pending \ {d}
  BY DEF FlushFinds, Active
<1>2. /\ UNCHANGED <<memory, dangling, lost, removed, killed, strays>>
      /\ UNCHANGED <<mode, free, ipt, storage, known, next, files>>
  BY DEF FlushFinds, memory, tables, faults
<1>3. pending' \subseteq DTBs
  BY <1>1 DEF Typed, ClientsTyped
<1>4. ASSUME Fails(d), job' = job PROVE Good'
  <2>1. Typed'
    BY <1>2, <1>3, <1>4, ClientStays, TypesStay DEF Typed
  <2>2. OneRequest'
    BY <1>1, <1>2, <1>4, Refused
  <2>3. Entries'
    BY <1>2, <1>4 DEF Entries, WithEntry
  <2>4. Owned' /\ Contents'
    BY <1>2, <1>4, StillStep
  <2> QED BY <2>1, <2>2, <2>3, <2>4
<1>5. ASSUME NEW g \in files, g.dtb = d, UNCHANGED <<status, closes, opened>>,
             Goes(w, [pc |-> "read", dtb |-> d, file |-> g, at |-> 0, got |-> {}])
      PROVE  Good'
  <2>1. PICK j : j = [pc |-> "read", dtb |-> d, file |-> g, at |-> 0, got |-> {}]
    OBVIOUS
  <2>2. Goes(w, j) /\ j.pc = "read" /\ j.dtb = d /\ j.file = g /\ j.got = {}
    BY <1>5, <2>1
  <2>3. IsFile(g) /\ g \in FileRec
    BY DEF Typed, TablesTyped, IsFile
  <2>4. ReadJob(j)
    BY <2>1, <2>3 DEF ReadJob
  <2>5. Typed'
    BY <1>2, <1>3, <1>5, <2>2, <2>4, ClientStays, TypesStay, JobStays DEF Typed, IsJob
  <2>6. OneRequest'
    BY <1>1, <1>2, <1>5, <2>2, Begins
  <2>7. w \notin dangling
    BY <1>1 DEF Entries, WithEntry
  <2>8. Entries'
    BY <1>2, <2>2, <2>7, EntriesStay
  <2>9. job'[w] = j
    BY <2>2, JobBecomes DEF Typed
  <2>10. JobKept(w)'
    BY <1>2, <1>5, <2>2, <2>9 DEF JobKept, OpenKept, LineKept, ReadKept, GotKept, Opening
  <2>11. Owned' /\ Contents'
    BY <1>2, <2>2, <2>10, QuietStep
  <2> QED BY <2>5, <2>6, <2>8, <2>11
<1>6. \/ Fails(d) /\ job' = job
      \/ /\ UNCHANGED <<status, closes, opened>>
         /\ \E g \in files : g.dtb = d /\ Goes(w, [pc |-> "read", dtb |-> d, file |-> g, at |-> 0, got |-> {}])
  BY DEF FlushFinds
<1> QED BY <1>4, <1>5, <1>6

\* The frames that are read are frames, and those of the file while it is filed.
LEMMA ReadFramesAre ==
  ASSUME Typed, NEW w \in Workers, job[w].pc = "read", job[w].at < job[w].file.pages
  PROVE  /\ ReadFrames(w) \subseteq Frames
         /\ job[w].file \in files => ReadFrames(w) \subseteq FramesOf(job[w].file)
<1>1. ReadJob(job[w])
  BY Kinds DEF Typed
<1>2. PICK g : g = job[w].file
  OBVIOUS
<1>3. IsFile(g) /\ job[w].at \in 0 .. g.pages - 1 /\ mode \in {"SPA", "TPI"}
  BY <1>1, <1>2 DEF ReadJob, IsFile, FileRec, Typed, MemoryTyped
<1>4. FrameAt(g, job[w].at) \subseteq FramesOf(g) /\ FramesOf(g) \subseteq Frames
  BY <1>3, FramesAre
<1> QED BY <1>2, <1>4 DEF ReadFrames

\* readFrame of the next page of a file.
LEMMA GoodFlushReads == ASSUME Good, NEW w \in Workers, FlushReads(w) PROVE Good'
<1> USE DEF Good
<1>1. job[w].pc = "read" /\ ReadJob(job[w]) /\ job[w].at < job[w].file.pages
  BY Kinds DEF FlushReads, Active, Typed
<1>2. UNCHANGED <<memory, dangling, lost, removed, pending, killed, strays, status, closes, opened>>
      /\ UNCHANGED <<mode, free, ipt, storage, known, next, files>>
  BY DEF FlushReads, memory, tables, faults, clients
<1>3. PICK f \in ReadFrames(w) :
        Goes(w, [job[w] EXCEPT !.at = @ + 1, !.got = @ \cup {storage[x] : x \in LinesOf(f)}])
  BY DEF FlushReads
<1>4. PICK j : j = [job[w] EXCEPT !.at = @ + 1, !.got = @ \cup {storage[x] : x \in LinesOf(f)}]
  OBVIOUS
<1>5. f \in Frames /\ (job[w].file \in files => f \in FramesOf(job[w].file))
  BY <1>1, <1>3, ReadFramesAre
<1>6. \A x \in LinesOf(f) : storage[x] \in Values
  BY <1>5, FrameLinesAre DEF Typed, MemoryTyped
<1>7. /\ ReadJob(j) /\ j.pc = "read" /\ j.dtb = job[w].dtb /\ j.file = job[w].file
      /\ j.got = job[w].got \cup {storage[x] : x \in LinesOf(f)}
  <2>1. PICK S : S = {storage[x] : x \in LinesOf(f)}
    OBVIOUS
  <2>2. S \in SUBSET Values
    BY <1>6, <2>1
  <2>3. j = [job[w] EXCEPT !.at = @ + 1, !.got = @ \cup S]
    BY <1>4, <2>1
  <2>4. /\ j \in [pc : {"read"}, dtb : DTBs, file : FileRec, at : Nat, got : SUBSET Values]
        /\ j.file = job[w].file /\ j.dtb = job[w].dtb /\ j.got = job[w].got \cup S
    <3>1. job[w] \in [pc : {"read"}, dtb : DTBs, file : FileRec, at : Nat, got : SUBSET Values]
      BY <1>1 DEF ReadJob
    <3>2. PICK a, T : a = job[w].at + 1 /\ T = job[w].got \cup S
      OBVIOUS
    <3>3. a \in Nat /\ T \in SUBSET Values
      BY <2>2, <3>1, <3>2
    <3>4. j = [job[w] EXCEPT !.at = a, !.got = T]
      BY <2>3, <3>2
    <3> QED BY <3>1, <3>2, <3>3, <3>4
  <2> QED BY <1>1, <2>1, <2>4 DEF ReadJob
<1>8. Goes(w, j)
  BY <1>3, <1>4
<1>9. pending' \subseteq DTBs
  BY <1>2 DEF Typed, ClientsTyped
<1>10. Typed'
  BY <1>2, <1>7, <1>8, <1>9, ClientStays, TypesStay, JobStays DEF Typed, IsJob
<1>11. OneRequest'
  BY <1>1, <1>2, <1>7, <1>8, GoesOn
<1>12. w \notin dangling
  BY <1>1 DEF Entries, WithEntry
<1>13. Entries'
  BY <1>2, <1>7, <1>8, <1>12, EntriesStay
<1>14. job'[w] = j /\ JobKept(w)
  BY <1>8, JobBecomes DEF Typed, Contents
<1>15. JobKept(w)'
  <2>1. ReadKept(w)'
    BY <1>1, <1>2, <1>7, <1>14 DEF JobKept, ReadKept, Behaves
  <2>2. GotKept(w)'
    <3> SUFFICES ASSUME job[w].dtb \notin killed \cup strays
                 PROVE  j.got \subseteq {job[w].dtb} \cup killed \cup strays
      BY <1>2, <1>7, <1>14 DEF GotKept, Behaves
    <3>1. job[w].file \in files /\ job[w].file.dtb = job[w].dtb
      BY <1>1, <1>14 DEF JobKept, ReadKept, Behaves
    <3>2. OwnLines(f, job[w].file.dtb)
      BY <1>5, <3>1 DEF Contents, FilesKept
    <3>3. job[w].got \subseteq {job[w].dtb} \cup killed \cup strays
      BY <1>1, <1>14 DEF JobKept, GotKept, Behaves
    <3> QED BY <1>7, <3>1, <3>2, <3>3 DEF OwnLines
  <2>3. OpenKept(w)' /\ LineKept(w)'
    BY <1>7, <1>14 DEF OpenKept, LineKept, Opening
  <2> QED BY <2>1, <2>2, <2>3 DEF JobKept
<1>16. Owned' /\ Contents'
  BY <1>2, <1>7, <1>8, <1>15, QuietStep
<1> QED BY <1>10, <1>11, <1>13, <1>16

\* The DTB is answered, and the worker is free again.
LEMMA GoodAnswers ==
  ASSUME Good, NEW w \in Workers, job[w].pc \in {"read", "told"}, Goes(w, Idle),
         Succeeds(job[w].dtb) \/ Fails(job[w].dtb), UNCHANGED <<memory, faults, pending, killed, strays>>
  PROVE  Good'
<1> USE DEF Good
<1>1. PICK d \in DTBs : d = job[w].dtb
  BY Kinds DEF Typed
<1>2. UNCHANGED <<mode, free, ipt, storage, known, next, files, dangling, lost, removed>>
  BY DEF memory, tables, faults
<1>3. pending' \subseteq DTBs
  BY DEF Typed, ClientsTyped
<1>4. Idle.pc = "idle"
  BY DEF Idle
<1>5. Typed'
  BY <1>1, <1>2, <1>3, ClientStays, TypesStay, JobStays DEF Typed, IsJob
<1>6. Serves(w, d)
  BY <1>1 DEF Serves
<1>7. Fails(d) \/ Returns(d)
  BY <1>1 DEF Succeeds
<1>8. OneRequest'
  BY <1>6, <1>7, Replies
<1>9. w \notin dangling
  BY DEF Entries, WithEntry
<1>10. Entries'
  BY <1>2, <1>4, <1>9, EntriesStay
<1>11. JobKept(w)'
  BY <1>4, JobBecomes, NothingKept DEF Typed
<1>12. Owned' /\ Contents'
  BY <1>2, <1>4, <1>11, QuietStep
<1> QED BY <1>5, <1>8, <1>10, <1>12

\* The end of a flush, and the answer of a line.
LEMMA GoodFlushEnds == ASSUME Good, NEW w \in Workers, FlushEnds(w) \/ Told(w) PROVE Good'
<1>1. CASE FlushEnds(w)
  BY <1>1, GoodAnswers DEF FlushEnds, Active
<1>2. CASE Told(w)
  BY <1>2, GoodAnswers DEF Told, Active
<1> QED BY <1>1, <1>2

\* A frame of a file is nowhere else, nor is one that a worker has in hand.
LEMMA FileApart ==
  ASSUME Apart, NEW f
  PROVE  /\ \A g \in files : f \in FramesOf(g) =>
              /\ f \notin Elements(free) /\ f \notin lost /\ \A v \in Workers : f \notin InHand(v)
              /\ \A h \in files : f \in FramesOf(h) => h = g
         /\ \A w \in Workers : f \in InHand(w) =>
              /\ f \notin Elements(free) /\ f \notin lost /\ \A v \in Workers : f \in InHand(v) => v = w
              /\ \A h \in files : f \notin FramesOf(h)
         /\ ~(f \in Elements(free) /\ f \in lost)
<1>1. \A k, l, x, y : At(f, k, x) /\ At(f, l, y) => k = l /\ x = y
  BY DEF Apart
<1>2. /\ \A g \in files : f \in FramesOf(g) => At(f, "file", g)
      /\ \A w \in Workers : f \in InHand(w) => At(f, "hand", w)
      /\ f \in Elements(free) => At(f, "free", 0)
      /\ f \in lost => At(f, "lost", 0)
  BY DEF At
<1> QED BY <1>1, <1>2

\* The frames of a file that is being opened are in hand.
LEMMA OpenFrames ==
  ASSUME Typed, NEW v \in Workers, Opening(v)
  PROVE  /\ OpenJob(job[v]) /\ Written(v) <= Len(job[v].frames) /\ Written(v) \in Nat
         /\ job[v].pc # "file" => job[v].at + 1 <= Len(job[v].frames)
         /\ \A i \in 1 .. Len(job[v].frames) : job[v].frames[i] \in Frames /\ job[v].frames[i] \in InHand(v)
<1>1. OpenJob(job[v])
  BY Kinds DEF Typed, Opening
<1>2. /\ job[v].at \in Nat /\ job[v].frames \in Seq(Frames) /\ job[v].at <= Len(job[v].frames)
      /\ job[v].pc = "file" <=> job[v].at = Len(job[v].frames)
  BY <1>1 DEF OpenJob
<1>3. Len(job[v].frames) \in Nat /\ DOMAIN job[v].frames = 1 .. Len(job[v].frames)
  BY <1>2
<1>4. InHand(v) = Elements(job[v].frames)
  BY HandIs
<1>5. job[v].pc # "file" => job[v].at + 1 <= Len(job[v].frames)
  BY <1>2, <1>3
<1>6. Written(v) <= Len(job[v].frames) /\ Written(v) \in Nat
  BY <1>2, <1>5 DEF Written
<1>7. \A i \in 1 .. Len(job[v].frames) : job[v].frames[i] \in Frames /\ job[v].frames[i] \in InHand(v)
  BY <1>2, <1>3, <1>4 DEF Elements
<1> QED BY <1>1, <1>5, <1>6, <1>7

\* What addressTranslation finds is a line; and one of a file of the DTB, unless it is past
\* the end of it.
LEMMA TranslationIs ==
  ASSUME Typed, NEW d, NEW k \in Nat, NEW o \in Nat, NEW x \in Translation(d, k, o)
  PROVE  /\ x \in Lines
         /\ mode = "SPA" \/ ~Past(d, k, o) =>
              \E g \in files : \E f \in FramesOf(g) : g.dtb = d /\ x \in LinesOf(f)
<1>1. FrameLines \in Nat /\ FrameLines > 0
  BY BoundsAssumption
<1>2. PICK p \in Nat : p = o \div FrameLines
  BY <1>1
<1>3. mode \in {"SPA", "TPI"}
  BY DEF Typed, MemoryTyped
<1>4. CASE mode = "TPI"
  <2>1. PICK f \in Frames : IsFrameOfPage(f, d, k + p) /\ x = f * FrameLines + (o % FrameLines)
    BY <1>2, <1>4 DEF Translation
  <2>2. x \in LinesOf(f)
    BY <2>1, FrameLinesAre
  <2>3. ASSUME ~Past(d, k, o) PROVE \E g \in files : \E h \in FramesOf(g) : g.dtb = d /\ x \in LinesOf(h)
    <3>1. PICK g \in files : g.dtb = d /\ g.number = k /\ p < g.pages
      BY <1>2, <2>3 DEF Past
    <3>2. IsFile(g) /\ g.pages \in Nat
      BY DEF Typed, TablesTyped, IsFile, FileRec
    <3>3. f \in FrameAt(g, p)
      BY <1>4, <2>1, <3>1 DEF FrameAt
    <3>4. p \in 0 .. g.pages - 1
      BY <3>1, <3>2
    <3>5. f \in FramesOf(g)
      BY <1>3, <3>2, <3>3, <3>4, FramesAre
    <3> QED BY <2>2, <3>1, <3>5
  <2> QED BY <1>4, <2>2, <2>3, FrameLinesAre
<1>5. CASE mode = "SPA"
  <2>1. PICK g \in files : g.dtb = d /\ p < g.pages /\ x = g.frames[p + 1] * FrameLines + (o % FrameLines)
    BY <1>2, <1>5 DEF Translation
  <2>2. IsFile(g) /\ g.pages \in Nat
    BY DEF Typed, TablesTyped, IsFile, FileRec
  <2>3. PICK f : f = g.frames[p + 1]
    OBVIOUS
  <2>4. f \in FrameAt(g, p)
    BY <1>5, <2>3 DEF FrameAt
  <2>5. p \in 0 .. g.pages - 1
    BY <2>1, <2>2
  <2>6. f \in FramesOf(g) /\ f \in Frames
    BY <1>3, <2>2, <2>4, <2>5, FramesAre
  <2>7. x \in LinesOf(f)
    BY <2>1, <2>3, <2>6, FrameLinesAre
  <2> QED BY <2>1, <2>6, <2>7, FrameLinesAre
<1> QED BY <1>3, <1>4, <1>5

\* The line of an address is looked for, and found or not.
LEMMA GoodLineFinds ==
  ASSUME Good, NEW w \in Workers, NEW d \in DTBs, NEW k \in opened[d], NEW o \in Nat, NEW pc,
         pc \in {"assign", "ask"}, LineFinds(w, d, k, o, pc)
  PROVE  Good'
<1> USE DEF Good
<1>1. job[w].pc = "idle" /\ status[d] = "running" /\ k \in Nat
  BY DEF LineFinds, Active, Typed, ClientsTyped
<1>2. /\ UNCHANGED <<memory, dangling, lost, removed, pending, killed>>
      /\ UNCHANGED <<mode, free, ipt, storage, known, next, files>>
  BY DEF LineFinds, memory, tables, faults
<1>3. pending' \subseteq DTBs
  BY <1>2 DEF Typed, ClientsTyped
<1>4. CASE Translation(d, k, o) # {}
  <2>1. PICK x \in Translation(d, k, o) : Goes(w, [pc |-> pc, dtb |-> d, line |-> x])
    BY <1>4 DEF LineFinds
  <2>2. Waits(d) /\ strays' = IF mode = "TPI" /\ Past(d, k, o) THEN strays \cup {d} ELSE strays
    BY <1>4 DEF LineFinds
  <2>3. PICK j : j = [pc |-> pc, dtb |-> d, line |-> x]
    OBVIOUS
  <2>4. x \in Lines /\ (mode = "SPA" \/ ~Past(d, k, o) =>
              \E g \in files : \E f \in FramesOf(g) : g.dtb = d /\ x \in LinesOf(f))
    BY <1>1, <2>1, TranslationIs
  <2>5. /\ Goes(w, j) /\ j \in [pc : {"assign", "ask"}, dtb : DTBs, line : Lines]
        /\ j.pc \in {"assign", "ask"} /\ j.dtb = d /\ j.line = x
    BY <2>1, <2>3, <2>4
  <2>6. Typed'
    BY <1>2, <1>3, <2>2, <2>5, ClientStays, TypesStay, JobStays DEF Typed, IsJob
  <2>7. OneRequest'
    BY <1>1, <1>2, <2>2, <2>5, Begins
  <2>8. w \notin dangling
    BY <1>1 DEF Entries, WithEntry
  <2>9. Entries'
    BY <1>2, <2>5, <2>8, EntriesStay
  <2>10. job'[w] = j
    BY <2>5, JobBecomes DEF Typed
  <2>11. LineKept(w)'
    <3>1. ASSUME d \notin strays' PROVE mode = "SPA" \/ ~Past(d, k, o)
      BY <2>2, <3>1 DEF Typed, MemoryTyped
    <3>2. ASSUME d \notin strays' PROVE \E g \in files' : \E f \in FramesOf(g)' : g.dtb = d /\ x \in LinesOf(f)
      <4>1. \A g : FramesOf(g)' = FramesOf(g)
        BY <1>2, FramesHold
      <4> QED BY <1>2, <2>4, <3>1, <3>2, <4>1
    <3> QED BY <2>5, <2>10, <3>2 DEF LineKept, Behaves
  <2>12. JobKept(w)'
    BY <2>5, <2>10, <2>11 DEF JobKept, OpenKept, ReadKept, GotKept, Opening
  <2>13. strays \subseteq strays'
    BY <2>2
  <2>14. Owned' /\ Contents'
    BY <1>2, <2>5, <2>12, <2>13, QuietStep
  <2> QED BY <2>6, <2>7, <2>9, <2>14
<1>5. CASE Translation(d, k, o) = {}
  <2>1. Fails(d) /\ UNCHANGED <<job, strays>>
    BY <1>5 DEF LineFinds
  <2>2. Typed'
    BY <1>2, <1>3, <2>1, ClientStays, TypesStay DEF Typed
  <2>3. OneRequest'
    BY <1>1, <1>2, <2>1, Refused
  <2>4. Entries'
    BY <1>2, <2>1 DEF Entries, WithEntry
  <2>5. Owned' /\ Contents'
    BY <1>2, <2>1, StillStep
  <2> QED BY <2>2, <2>3, <2>4, <2>5
<1> QED BY <1>4, <1>5

\* readLine.
LEMMA GoodAskReads == ASSUME Good, NEW w \in Workers, AskReads(w) PROVE Good'
<1> USE DEF Good
<1>1. job[w].pc = "ask" /\ job[w] \in [pc : {"assign", "ask"}, dtb : DTBs, line : Lines]
  BY Kinds DEF AskReads, Active, Typed
<1>2. UNCHANGED <<memory, dangling, lost, removed, pending, killed, strays, status, closes, opened>>
      /\ UNCHANGED <<mode, free, ipt, storage, known, next, files>>
  BY DEF AskReads, memory, tables, faults, clients
<1>3. pending' \subseteq DTBs
  BY <1>2 DEF Typed, ClientsTyped
<1>4. PICK j : j = [pc |-> "told", dtb |-> job[w].dtb, got |-> {storage[job[w].line]}]
  OBVIOUS
<1>5. Goes(w, j)
  BY <1>4 DEF AskReads
<1>6. storage[job[w].line] \in Values
  BY <1>1 DEF Typed, MemoryTyped
<1>7. /\ j \in [pc : {"told"}, dtb : DTBs, got : SUBSET Values] /\ j.pc = "told" /\ j.dtb = job[w].dtb
      /\ j.got = {storage[job[w].line]}
  BY <1>1, <1>4, <1>6
<1>8. Typed'
  BY <1>2, <1>3, <1>5, <1>7, ClientStays, TypesStay, JobStays DEF Typed, IsJob
<1>9. OneRequest'
  BY <1>1, <1>2, <1>5, <1>7, GoesOn
<1>10. w \notin dangling
  BY <1>1 DEF Entries, WithEntry
<1>11. Entries'
  BY <1>2, <1>5, <1>7, <1>10, EntriesStay
<1>12. job'[w] = j /\ JobKept(w)
  BY <1>5, JobBecomes DEF Typed, Contents
<1>13. GotKept(w)'
  <2> SUFFICES ASSUME job[w].dtb \notin killed \cup strays
               PROVE  storage[job[w].line] \in {job[w].dtb} \cup killed \cup strays
    BY <1>2, <1>7, <1>12 DEF GotKept, Behaves
  <2>1. PICK g \in files : \E f \in FramesOf(g) : g.dtb = job[w].dtb /\ job[w].line \in LinesOf(f)
    BY <1>1, <1>12 DEF JobKept, LineKept, Behaves
  <2>2. PICK f \in FramesOf(g) : g.dtb = job[w].dtb /\ job[w].line \in LinesOf(f)
    BY <2>1
  <2>3. OwnLines(f, g.dtb)
    BY DEF Contents, FilesKept
  <2> QED BY <2>2, <2>3 DEF OwnLines
<1>14. JobKept(w)'
  BY <1>7, <1>12, <1>13 DEF JobKept, OpenKept, LineKept, ReadKept, Opening
<1>15. Owned' /\ Contents'
  BY <1>2, <1>5, <1>7, <1>14, QuietStep
<1> QED BY <1>8, <1>9, <1>11, <1>15

\* Lines may be written that are those of no other's file.
LEMMA ContentsWrite ==
  ASSUME JobsTyped, Contents, UNCHANGED <<mode, ipt, files, killed, strays>>,
         NEW w \in Workers, NEW j, Goes(w, j), JobKept(w)',
         \A g \in files : \A f \in FramesOf(g) : OwnLines(f, g.dtb) => OwnLines(f, g.dtb)',
         \A v \in Workers : v # w /\ Opening(v) => \A i \in 1 .. Written(v) : \A f, d :
            f = job[v].frames[i] /\ d = job[v].dtb /\ OwnLines(f, d) => OwnLines(f, d)'
  PROVE  Contents'
<1>1. \A g : FramesOf(g)' = FramesOf(g)
  BY FramesHold
<1>2. FilesKept'
  BY <1>1 DEF Contents, FilesKept
<1>3. ASSUME NEW v \in Workers, v # w PROVE JobKept(v)'
  <2>1. job'[v] = job[v] /\ JobKept(v)
    BY <1>3, JobBecomes DEF Contents
  <2>2. Opening(v) => \A i \in 1 .. Written(v) :
            OwnLines(job[v].frames[i], job[v].dtb) => OwnLines(job[v].frames[i], job[v].dtb)'
    <3>1. PICK fs, d : fs = job[v].frames /\ d = job[v].dtb
      OBVIOUS
    <3>2. Opening(v) => \A i \in 1 .. Written(v) : OwnLines(fs[i], d) => OwnLines(fs[i], d)'
      BY <1>3, <3>1
    <3>3. job'[v].frames = fs /\ job'[v].dtb = d
      BY <2>1, <3>1
    <3> QED BY <3>1, <3>2, <3>3 DEF OwnLines
  <2>3. job[v].pc \in {"assign", "ask", "read"} /\ Behaves(job[v].dtb) /\ Behaves(job[v].dtb)' =>
            \A g \in files : g.dtb = job[v].dtb => g \in files' /\ FramesOf(g)' = FramesOf(g)
    BY <1>1
  <2> QED BY <2>1, <2>2, <2>3, JobKeeps
<1> QED BY <1>2, <1>3 DEF Contents

\* What the other workers have stays, when the tables do.
LEMMA OthersOwn ==
  ASSUME Typed, Entries, Owned, UNCHANGED <<mode, ipt, known, removed>>,
         mode = "TPI" => next' = next /\ \A g \in files' : g \in files \/ Below(g)',
         NEW w \in Workers, NEW j, Goes(w, j),
         \A v \in Workers : v # w => (v \in dangling' <=> v \in dangling)
  PROVE  /\ \A v \in Workers : v # w => FreesApart(v)'
         /\ mode = "TPI" => Paged' /\ \A v \in Workers : v # w => PagedJob(v)'
<1>1. \A v \in Workers : v # w => job'[v] = job[v]
  BY JobBecomes DEF Typed
<1>2. \A v \in Workers : v # w => FreesApart(v)'
  BY <1>1, HandsHold DEF Owned
<1>3. ASSUME mode = "TPI" PROVE Paged' /\ \A v \in Workers : v # w => PagedJob(v)'
  <2>1. known' \cap removed' = {} /\ known' \subseteq DTBs /\ known \cup removed \subseteq known' \cup removed'
    BY <1>3 DEF Owned, Paged, Typed, TablesTyped
  <2>2. /\ \A e \in known' : e \in known \/ e \notin known \cup removed
        /\ \A e \in known \cap known' : next'[e] = next[e]
    BY <1>3
  <2>3. \A v \in Workers : v # w /\ v \notin dangling' /\ Opening(v) => job[v].dtb \in known'
    BY DEF Entries, WithEntry, Opening
  <2>4. Paged' /\ \A v \in Workers :
              /\ job'[v] = job[v]
              /\ v \notin dangling' => v \notin dangling
              /\ v \notin dangling' /\ Opening(v) => job[v].dtb \in known'
              => PagedJob(v)'
    BY <1>3, <2>1, <2>2, PagedStays
  <2> QED BY <1>1, <2>3, <2>4
<1> QED BY <1>2, <1>3

\* writeLine: a DTB that behaves writes in a file of its own.
LEMMA GoodAsignWrites == ASSUME Good, NEW w \in Workers, AsignWrites(w) PROVE Good'
<1> USE DEF Good
<1>1. job[w].pc = "assign" /\ job[w] \in [pc : {"assign", "ask"}, dtb : DTBs, line : Lines]
  BY Kinds DEF AsignWrites, Active, Typed
<1>2. PICK d \in DTBs, l \in Lines : d = job[w].dtb /\ l = job[w].line
  BY <1>1
<1>3. UNCHANGED <<mode, free, ipt, known, next, files, dangling, lost, removed, pending, killed, strays>>
  BY DEF AsignWrites, tables, faults
<1>4. storage' = [storage EXCEPT ![l] = d] /\ Succeeds(d) /\ Goes(w, Idle)
  BY <1>2 DEF AsignWrites
<1>5. pending' \subseteq DTBs
  BY <1>3 DEF Typed, ClientsTyped
<1>6. storage' \in [Lines -> Values] /\ storage'[l] = d /\ \A x : x # l => storage'[x] = storage[x]
  BY <1>4 DEF Typed, MemoryTyped, Values
<1>7. MemoryTyped'
  BY <1>3, <1>6 DEF Typed, MemoryTyped
<1>8. Idle.pc = "idle"
  BY DEF Idle
<1>9. Typed'
  BY <1>3, <1>4, <1>5, <1>7, ClientStays, TypesStay, JobStays DEF Typed, IsJob
<1>10. Serves(w, d)
  BY <1>1, <1>2 DEF Serves
<1>11. OneRequest'
  BY <1>3, <1>4, <1>10, Replies DEF Succeeds
<1>12. w \notin dangling
  BY <1>1 DEF Entries, WithEntry
<1>13. Entries'
  BY <1>3, <1>4, <1>8, <1>12, EntriesStay
<1>14. Owned'
  <2>1. known' \subseteq DTBs /\ \A e \in known' : e \in known \/ e \notin known \cup removed
    BY <1>3, <1>9 DEF Typed, TablesTyped
  <2> QED BY <1>3, <1>4, <1>8, <2>1, OwnedStays
<1>15. JobKept(w)'
  BY <1>4, <1>8, JobBecomes, NothingKept DEF Typed
<1>16. \A f, e : OwnLines(f, e) /\ (l \in LinesOf(f) => d \in {e} \cup killed \cup strays) => OwnLines(f, e)'
  BY <1>3, <1>6 DEF OwnLines
<1>17. ASSUME d \notin killed \cup strays
       PROVE  \E g0 \in files : \E f0 \in FramesOf(g0) : g0.dtb = d /\ f0 \in Frames /\ l \in LinesOf(f0)
  <2>1. JobKept(w)
    BY DEF Contents
  <2>2. PICK g0 \in files : \E f0 \in FramesOf(g0) : g0.dtb = job[w].dtb /\ job[w].line \in LinesOf(f0)
    BY <1>1, <1>2, <1>17, <2>1 DEF JobKept, LineKept, Behaves
  <2>3. FramesOf(g0) \subseteq Frames
    BY FramesAre DEF Typed, TablesTyped, MemoryTyped
  <2> QED BY <1>2, <2>2, <2>3
<1>18. ASSUME NEW g \in files, NEW f \in FramesOf(g) PROVE OwnLines(f, g.dtb) => OwnLines(f, g.dtb)'
  <2>1. f \in Frames
    BY FramesAre DEF Typed, TablesTyped, MemoryTyped
  <2>2. l \in LinesOf(f) => d \in {g.dtb} \cup killed \cup strays
    <3> SUFFICES ASSUME l \in LinesOf(f), d \notin killed \cup strays PROVE d = g.dtb
      OBVIOUS
    <3>1. PICK g0 \in files, f0 \in Frames : f0 \in FramesOf(g0) /\ g0.dtb = d /\ l \in LinesOf(f0)
      BY <1>17
    <3>2. f = f0
      BY <2>1, <3>1, FrameLinesAre
    <3> QED BY <3>1, <3>2, FileApart DEF Owned
  <2> QED BY <1>16, <2>2
<1>19. ASSUME NEW v \in Workers, Opening(v), NEW i \in 1 .. Written(v), NEW f, NEW e,
              f = job[v].frames[i], OwnLines(f, e)
       PROVE  OwnLines(f, e)'
  <2>1. f \in Frames /\ f \in InHand(v)
    <3>1. i \in 1 .. Len(job[v].frames)
      BY <1>19, OpenFrames DEF OpenJob
    <3> QED BY <1>19, <3>1, OpenFrames
  <2>2. l \in LinesOf(f) => d \in {e} \cup killed \cup strays
    <3> SUFFICES ASSUME l \in LinesOf(f), d \notin killed \cup strays PROVE FALSE
      OBVIOUS
    <3>1. PICK g0 \in files, f0 \in Frames : f0 \in FramesOf(g0) /\ g0.dtb = d /\ l \in LinesOf(f0)
      BY <1>17
    <3>2. f = f0
      BY <2>1, <3>1, FrameLinesAre
    <3> QED BY <2>1, <3>1, <3>2, FileApart DEF Owned
  <2> QED BY <1>16, <1>19, <2>2
<1>20. Contents'
  BY <1>3, <1>4, <1>15, <1>18, <1>19, ContentsWrite DEF Typed
<1> QED BY <1>9, <1>11, <1>13, <1>14, <1>20

\* writeFrame: the frame is in the hands of the worker, so nobody else's file is written.
LEMMA GoodOpenWrites == ASSUME Good, NEW w \in Workers, OpenWrites(w) PROVE Good'
<1> USE DEF Good
<1>1. job[w].pc = "write" /\ OpenJob(job[w]) /\ Opening(w)
  BY Kinds DEF OpenWrites, Active, Typed, Opening
<1>2. PICK d, fs, a, n : d = job[w].dtb /\ fs = job[w].frames /\ a = job[w].at /\ n = Len(fs)
  OBVIOUS
<1>3. d \in DTBs /\ fs \in Seq(Frames) /\ a \in Nat /\ n \in Nat /\ a < n
  BY <1>1, <1>2 DEF OpenJob
<1>4. PICK f : f = fs[a + 1]
  OBVIOUS
<1>5. f \in Frames /\ f \in InHand(w)
  BY <1>1, <1>2, <1>3, <1>4, OpenFrames
<1>6. UNCHANGED <<mode, free, ipt, known, next, files, dangling, lost, removed, pending, killed, strays, status,
                  closes, opened>>
  BY DEF OpenWrites, tables, faults, clients
<1>7. storage' = [x \in DOMAIN storage |-> IF x \in LinesOf(f) THEN d ELSE storage[x]]
  BY <1>2, <1>4 DEF OpenWrites
<1>8. PICK j : /\ Goes(w, j)
               /\ j = IF mode = "TPI" THEN [job[w] EXCEPT !.pc = "entry"]
                      ELSE [job[w] EXCEPT !.at = @ + 1, !.pc = IF a + 1 = n THEN "file" ELSE "write"]
  BY <1>2 DEF OpenWrites
<1>9. /\ OpenJob(j) /\ j.dtb = d /\ j.frames = fs /\ j.first = job[w].first
      /\ mode = "TPI" => j.pc = "entry" /\ j.at = a
      /\ mode # "TPI" => j.pc \in {"file", "write"} /\ j.at = a + 1
  <2>1. CASE mode = "TPI"
    BY <1>1, <1>2, <1>3, <1>8, <2>1 DEF OpenJob
  <2>2. CASE mode # "TPI"
    <3>1. j = [job[w] EXCEPT !.at = a + 1, !.pc = IF a + 1 = n THEN "file" ELSE "write"]
      BY <1>2, <1>8, <2>2
    <3>2. PICK pc, b : pc = (IF a + 1 = n THEN "file" ELSE "write") /\ b = a + 1
      OBVIOUS
    <3>3. pc \in {"write", "file"} /\ b \in Nat /\ b <= n /\ (pc = "file" <=> b = n)
      BY <1>3, <3>2
    <3>4. j = [job[w] EXCEPT !.at = b, !.pc = pc]
      BY <3>1, <3>2
    <3>5. /\ j \in [pc : {"write", "entry", "file"}, dtb : DTBs, lines : Nat, frames : Seq(Frames),
                    at : Nat, first : Nat]
          /\ j.pc = pc /\ j.at = b /\ j.frames = fs /\ j.dtb = d /\ j.first = job[w].first
      <4>1. job[w] \in [pc : {"write", "entry", "file"}, dtb : DTBs, lines : Nat, frames : Seq(Frames),
                    at : Nat, first : Nat]
        BY <1>1 DEF OpenJob
      <4> QED BY <1>2, <3>3, <3>4, <4>1
    <3>6. OpenJob(j)
      BY <1>1, <1>2, <3>3, <3>5 DEF OpenJob
    <3> QED BY <2>2, <3>2, <3>3, <3>5, <3>6
  <2> QED BY <2>1, <2>2
<1>10. pending' \subseteq DTBs
  BY <1>6 DEF Typed, ClientsTyped
<1>11. /\ storage' \in [Lines -> Values]
       /\ \A x \in Lines : storage'[x] = IF x \in LinesOf(f) THEN d ELSE storage[x]
  BY <1>3, <1>7 DEF Typed, MemoryTyped, Values
<1>12. MemoryTyped'
  BY <1>6, <1>11 DEF Typed, MemoryTyped
<1>13. Typed'
  BY <1>6, <1>8, <1>9, <1>10, <1>12, ClientStays, TypesStay, JobStays DEF Typed, IsJob
<1>14. j.pc \in {"write", "entry", "file"}
  BY <1>9
<1>15. OneRequest'
  BY <1>1, <1>2, <1>6, <1>8, <1>9, <1>14, GoesOn
<1>16. w \notin dangling => d \in known
  BY <1>1, <1>2 DEF Entries, WithEntry
<1>17. Entries'
  <2>1. known' = known /\ dangling' = dangling
    BY <1>6
  <2>2. /\ w \in dangling' => j.pc \in {"check", "take", "write", "entry", "file", "close"}
        /\ w \notin dangling' => j.dtb \in known'
    BY <1>9, <1>14, <1>16, <2>1
  <2> QED BY <1>8, <2>1, <2>2, EntriesStay
<1>18. job'[w] = j /\ JobKept(w)
  BY <1>8, JobBecomes DEF Typed, Contents
<1>19. Opening(w)' /\ InHand(w)' = InHand(w)
  <2>1. Opening(w)'
    BY <1>14, <1>18 DEF Opening
  <2> QED BY <1>1, <1>2, <1>9, <1>18, <2>1 DEF InHand, Elements
<1>20. Owned'
  <2>1. Apart'
    BY <1>6, <1>8, <1>19, ApartStays DEF Owned
  <2>2. FreesApart(w)'
    BY <1>14, <1>18 DEF FreesApart
  <2>3. ASSUME mode = "TPI" PROVE PagedJob(w)'
    <3>1. PagedJob(w)
      BY <2>3 DEF Owned
    <3>2. \A e, p : EntriesOf(e, p)' = EntriesOf(e, p)
      BY <1>6, FramesHold
    <3>3. ASSUME w \notin dangling
          PROVE  next[d] = j.first + j.at /\ \A i \in 1 .. j.at : EntriesOf(d, j.first + i - 1) = {fs[i]}
      BY <1>1, <1>2, <1>9, <2>3, <3>1, <3>3 DEF PagedJob
    <3>4. ASSUME w \notin dangling PROVE \A i \in 1 .. j.at : EntriesOf(d, j.first + i - 1)' = {fs[i]}
      BY <3>2, <3>3, <3>4
    <3>5. job'[w].dtb = d /\ job'[w].frames = fs /\ job'[w].first = j.first /\ job'[w].at = j.at
      BY <1>9, <1>18
    <3>6. ASSUME w \notin dangling
          PROVE  \A i \in 1 .. j.at : EntriesOf(job[w].dtb, job[w].first + i - 1)' = {fs[i]}
      BY <3>4, <3>5, <3>6 DEF EntriesOf
    <3> QED BY <1>6, <1>14, <1>18, <3>3, <3>5, <3>6 DEF PagedJob
  <2>4. /\ \A v \in Workers : v # w => FreesApart(v)'
        /\ mode = "TPI" => Paged' /\ \A v \in Workers : v # w => PagedJob(v)'
    BY <1>6, <1>8, OthersOwn
  <2> QED BY <1>6, <2>1, <2>2, <2>3, <2>4 DEF Owned
<1>21. \A h, e : h \in Frames /\ h # f /\ OwnLines(h, e) => OwnLines(h, e)'
  <2>1. ASSUME NEW h \in Frames, h # f, NEW x \in LinesOf(h) PROVE storage'[x] = storage[x]
    BY <1>5, <1>11, <2>1, FrameLinesAre
  <2> QED BY <1>6, <2>1, OwnLinesStay
<1>22. \A h : h \in Frames /\ OwnLines(h, d) => OwnLines(h, d)'
  <2>1. ASSUME NEW h \in Frames, OwnLines(h, d), NEW x \in LinesOf(h)
        PROVE  storage'[x] = d \/ storage'[x] = storage[x]
    BY <1>11, FrameLinesAre
  <2> QED BY <1>6, <2>1 DEF OwnLines
<1>23. OwnLines(f, d)'
  <2>1. \A x \in LinesOf(f) : storage'[x] = d
    BY <1>5, <1>11, FrameLinesAre
  <2> QED BY <2>1 DEF OwnLines
<1>24. JobKept(w)'
  <2>1. \A i \in 1 .. a : OwnLines(fs[i], d)'
    <3>1. \A i \in 1 .. a : OwnLines(fs[i], d)
      BY <1>1, <1>2, <1>18 DEF JobKept, OpenKept, Written
    <3>2. \A i \in 1 .. a : fs[i] \in Frames
      BY <1>2, <1>3
    <3> QED BY <1>22, <3>1, <3>2
  <2>2. \A i \in 1 .. a + 1 : OwnLines(fs[i], d)'
    <3>1. OwnLines(fs[a + 1], d)'
      BY <1>4, <1>23
    <3>2. \A i \in 1 .. a + 1 : i \in 1 .. a \/ i = a + 1
      BY <1>3
    <3> QED BY <2>1, <3>1, <3>2
  <2>3. Written(w)' = a + 1
    BY <1>9, <1>18 DEF Written
  <2>4. OpenKept(w)'
    BY <1>9, <1>18, <2>2, <2>3 DEF OpenKept, OwnLines
  <2> QED BY <1>14, <1>18, <2>4 DEF JobKept, LineKept, ReadKept, GotKept
<1>25. ASSUME NEW g \in files, NEW h \in FramesOf(g) PROVE OwnLines(h, g.dtb) => OwnLines(h, g.dtb)'
  <2>1. h \in Frames
    BY FramesAre DEF Typed, TablesTyped, MemoryTyped
  <2>2. h # f
    BY <1>5, FileApart DEF Owned
  <2> QED BY <1>21, <2>1, <2>2
<1>26. ASSUME NEW v \in Workers, v # w, Opening(v), NEW i \in 1 .. Written(v), NEW h, NEW e,
              h = job[v].frames[i], OwnLines(h, e)
       PROVE  OwnLines(h, e)'
  <2>1. i \in 1 .. Len(job[v].frames)
    BY <1>26, OpenFrames DEF OpenJob
  <2>2. h \in Frames /\ h \in InHand(v)
    BY <1>26, <2>1, OpenFrames
  <2>3. h # f
    BY <1>5, <1>26, <2>2, FileApart DEF Owned
  <2> QED BY <1>21, <1>26, <2>2, <2>3
<1>27. Contents'
  BY <1>6, <1>8, <1>24, <1>25, <1>26, ContentsWrite DEF Typed
<1> QED BY <1>13, <1>15, <1>17, <1>20, <1>27

\* The frames that are free are those that stay and those that are taken.
LEMMA GoodOpenTakes == ASSUME Good, NEW w \in Workers, OpenTakes(w) PROVE Good'
<1> USE DEF Good
<1>1. job[w].pc = "take" /\ job[w] \in [pc : {"check", "take"}, dtb : DTBs, lines : Nat]
  BY Kinds DEF OpenTakes, Active, Typed
<1>2. PICK d \in DTBs, n \in Nat : d = job[w].dtb /\ n = FramesNeeded(job[w].lines)
  BY <1>1, Needed
<1>3. PICK t : t = Taken(n)
  OBVIOUS
<1>4. PICK j : j = [pc |-> IF t.taken = <<>> THEN "file" ELSE "write", dtb |-> job[w].dtb,
                    lines |-> job[w].lines, frames |-> t.taken, at |-> 0, first |-> next[job[w].dtb]]
  OBVIOUS
<1>5. free' = t.left /\ Goes(w, j)
  BY <1>2, <1>3, <1>4 DEF OpenTakes
<1>6. UNCHANGED <<mode, ipt, known, next, files, storage, dangling, lost, removed, pending, killed, strays,
                  status, closes, opened>>
  BY DEF OpenTakes, tables, faults, clients
<1>7. /\ t.taken \in Seq(Frames) /\ t.left \in Seq(Frames) /\ OneToOne(t.taken) /\ OneToOne(t.left)
      /\ Elements(t.left) \subseteq Elements(free) /\ Elements(t.taken) \subseteq Elements(free)
      /\ Elements(t.taken) \cap Elements(t.left) = {}
  BY <1>2, <1>3, TakenIs DEF Typed, MemoryTyped, Owned, Apart
<1>8. /\ j.pc \in {"write", "file"} /\ j.dtb = d /\ j.frames = t.taken /\ j.at = 0 /\ j.first = next[d]
      /\ j.lines \in Nat /\ next[d] \in Nat
  BY <1>1, <1>2, <1>4 DEF Typed, TablesTyped
<1>9. j.pc = "file" <=> 0 = Len(t.taken)
  <2>1. t.taken = <<>> <=> Len(t.taken) = 0
    BY <1>7
  <2> QED BY <1>4, <2>1
<1>10. OpenJob(j)
  <2>1. j \in [pc : {"write", "entry", "file"}, dtb : DTBs, lines : Nat, frames : Seq(Frames),
              at : Nat, first : Nat]
    <3>1. PICK pc \in {"write", "file"}, m \in Nat, fs \in Seq(Frames), b \in Nat :
            j = [pc |-> pc, dtb |-> d, lines |-> m, frames |-> fs, at |-> 0, first |-> b]
      BY <1>1, <1>2, <1>4, <1>7, <1>8
    <3> QED BY <3>1
  <2>2. Len(t.taken) \in Nat
    BY <1>7
  <2> QED BY <1>7, <1>8, <1>9, <2>1, <2>2 DEF OpenJob
<1>11. pending' \subseteq DTBs
  BY <1>6 DEF Typed, ClientsTyped
<1>12. MemoryTyped'
  BY <1>5, <1>6, <1>7 DEF Typed, MemoryTyped
<1>13. Typed'
  BY <1>5, <1>6, <1>10, <1>11, <1>12, ClientStays, TypesStay, JobStays DEF Typed, IsJob
<1>14. OneRequest'
  BY <1>1, <1>2, <1>5, <1>6, <1>8, GoesOn
<1>15. w \notin dangling => d \in known
  BY <1>1, <1>2 DEF Entries, WithEntry
<1>16. Entries'
  <2>1. known' = known /\ dangling' = dangling
    BY <1>6
  <2>2. /\ w \in dangling' => j.pc \in {"check", "take", "write", "entry", "file", "close"}
        /\ w \notin dangling' => j.dtb \in known'
    BY <1>8, <1>15, <2>1
  <2> QED BY <1>5, <2>1, <2>2, EntriesStay
<1>17. job'[w] = j /\ JobsTyped
  BY <1>5, JobBecomes DEF Typed
<1>18. Opening(w)' /\ InHand(w)' = Elements(t.taken)
  <2>1. Opening(w)'
    BY <1>8, <1>17 DEF Opening
  <2> QED BY <1>8, <1>17, <2>1 DEF InHand, Elements
<1>19. Apart'
  <2>1. OneToOne(free)'
    BY <1>5, <1>7 DEF OneToOne
  <2>2. \A f, x : At(f, "free", x)' <=> x = 0 /\ f \in Elements(t.left)
    BY <1>5 DEF At, Elements
  <2>3. \A f : At(f, "hand", w)' => f \in Elements(t.taken)
    BY <1>18 DEF At
  <2>4. \A f, k, x : At(f, k, x)' =>
            \/ At(f, k, x)
            \/ k = "hand" /\ x = w /\ \E l, y : At(f, l, y) /\ ~At(f, l, y)'
    <3>1. \A f, k, x : At(f, k, x)' => k \in {"free", "lost", "file", "hand"}
      BY DEF At
    <3>2. \A f, x : At(f, "free", x)' => At(f, "free", x)
      BY <1>7, <2>2 DEF At
    <3>3. \A f, x : At(f, "lost", x)' => At(f, "lost", x)
      BY <1>5, <1>6, <1>17, PlacesHold
    <3>4. \A f, x : At(f, "file", x)' => At(f, "file", x)
      BY <1>6, FramesHold DEF At
    <3>5. \A f, x : x # w /\ At(f, "hand", x)' => At(f, "hand", x)
      BY <1>5, <1>6, <1>17, PlacesHold
    <3>6. \A f : At(f, "hand", w)' => At(f, "free", 0) /\ ~At(f, "free", 0)'
      BY <1>7, <2>2, <2>3 DEF At
    <3>7. \A f, x : At(f, "hand", x)' => At(f, "hand", x) \/ (x = w /\ \E l, y : At(f, l, y) /\ ~At(f, l, y)')
      BY <3>5, <3>6
    <3> QED BY <3>1, <3>2, <3>3, <3>4, <3>7
  <2> QED BY <2>1, <2>4, Moves DEF Owned
<1>20. FreesApart(w)'
  BY <1>8, <1>17 DEF FreesApart
<1>21. PagedJob(w)'
  BY <1>6, <1>8, <1>17 DEF PagedJob
<1>22. Owned'
  BY <1>5, <1>6, <1>19, <1>20, <1>21, OthersOwn DEF Owned
<1>23. JobKept(w)'
  <2>1. OpenKept(w)'
    BY <1>8, <1>17 DEF OpenKept, Written
  <2> QED BY <1>8, <1>17, <2>1 DEF JobKept, LineKept, ReadKept, GotKept
<1>24. Contents'
  BY <1>5, <1>6, <1>23, ContentsStay DEF Typed
<1> QED BY <1>13, <1>14, <1>16, <1>22, <1>24

\* A file that is filed in an entry already freed takes its frames with it.
LEMMA GoodOpenFilesNowhere ==
  ASSUME Good, NEW w \in Workers, OpenFilesNowhere(w), PagesAreTold'
  PROVE  Good'
<1> USE DEF Good
<1>1. job[w].pc = "file" /\ OpenJob(job[w]) /\ Opening(w)
  BY Kinds DEF OpenFilesNowhere, Active, Typed, Opening
<1>2. PICK d \in DTBs : d = job[w].dtb
  BY <1>1 DEF OpenJob
<1>3. ~crashed'
  BY DEF PagesAreTold
<1>4. /\ lost' = lost \cup Elements(job[w].frames) /\ dangling' = dangling \ {w}
      /\ Succeeds(d) /\ Goes(w, Idle)
  BY <1>2, <1>3 DEF OpenFilesNowhere
<1>5. UNCHANGED <<mode, free, ipt, known, next, files, storage, removed, pending, killed, strays>>
  BY DEF OpenFilesNowhere, memory, tables
<1>6. pending' \subseteq DTBs
  BY <1>5 DEF Typed, ClientsTyped
<1>7. Idle.pc = "idle"
  BY DEF Idle
<1>8. Typed'
  BY <1>4, <1>5, <1>6, ClientStays, TypesStay, JobStays DEF Typed, IsJob
<1>9. Serves(w, d)
  BY <1>1, <1>2 DEF Serves
<1>10. OneRequest'
  BY <1>4, <1>5, <1>9, Replies DEF Succeeds
<1>11. Entries'
  BY <1>4, <1>5, <1>7, EntriesStay
<1>12. job'[w] = Idle /\ JobsTyped
  BY <1>4, JobBecomes DEF Typed
<1>13. InHand(w) = Elements(job[w].frames) /\ InHand(w)' = {} /\ FreesApart(w)' /\ PagedJob(w)'
  <2>1. ~Opening(w)' /\ job'[w].pc # "free"
    BY <1>7, <1>12 DEF Opening
  <2> QED BY <1>1, <2>1, HandIs DEF InHand, FreesApart, PagedJob
<1>14. Apart'
  <2>1. OneToOne(free)'
    BY <1>5 DEF Owned, Apart, OneToOne
  <2>2. \A f, x : At(f, "hand", x)' => x # w /\ At(f, "hand", x)
    <3>1. \A f : ~At(f, "hand", w)'
      BY <1>13 DEF At
    <3> QED BY <1>4, <1>5, <1>12, <3>1, PlacesHold
  <2>3. \A f, x : At(f, "lost", x)' => x = 0 /\ (At(f, "lost", 0) \/ (At(f, "hand", w) /\ ~At(f, "hand", w)'))
    <3>1. \A f, x : At(f, "lost", x)' => x = 0 /\ (f \in lost \/ f \in InHand(w))
      BY <1>4, <1>13 DEF At
    <3> QED BY <2>2, <3>1 DEF At
  <2>4. \A f, k, x : At(f, k, x)' =>
            \/ At(f, k, x)
            \/ k = "lost" /\ x = 0 /\ \E l, y : At(f, l, y) /\ ~At(f, l, y)'
    <3>1. \A f, k, x : At(f, k, x)' => k \in {"free", "lost", "file", "hand"}
      BY DEF At
    <3>2. \A f, x : At(f, "free", x)' => At(f, "free", x)
      BY <1>4, <1>5, <1>12, PlacesHold
    <3>3. \A f, x : At(f, "file", x)' => At(f, "file", x)
      BY <1>5, FramesHold DEF At
    <3>4. \A f, x : At(f, "lost", x)' =>
            At(f, "lost", x) \/ (x = 0 /\ \E l, y : At(f, l, y) /\ ~At(f, l, y)')
      BY <2>3
    <3> QED BY <2>2, <3>1, <3>2, <3>3, <3>4
  <2> QED BY <2>1, <2>4, Moves DEF Owned
<1>15. Owned'
  BY <1>4, <1>5, <1>13, <1>14, OthersOwn DEF Owned
<1>16. JobKept(w)'
  BY <1>7, <1>12, NothingKept
<1>17. Contents'
  BY <1>4, <1>5, <1>16, ContentsStay DEF Typed
<1> QED BY <1>8, <1>10, <1>11, <1>15, <1>17

\* No frame is that of two pages of a file.
LEMMA PagesApart ==
  ASSUME mode \in {"SPA", "TPI"}, ipt \in [Frames -> [dtb : Values, page : Nat]], NEW g, IsFile(g),
         NEW i \in 0 .. g.pages - 1, NEW k \in 0 .. g.pages - 1, NEW f \in Frames,
         f \in FrameAt(g, i), f \in FrameAt(g, k)
  PROVE  i = k
<1>1. g.pages \in Nat /\ g.number \in Nat /\ g.frames \in Seq(Frames)
  BY DEF IsFile, FileRec
<1>2. CASE mode = "SPA"
  <2>1. g.frames[i + 1] = g.frames[k + 1]
    BY <1>2 DEF FrameAt
  <2>2. DOMAIN g.frames = 1 .. g.pages
    BY <1>1, <1>2 DEF IsFile
  <2>3. i + 1 \in DOMAIN g.frames /\ k + 1 \in DOMAIN g.frames
    BY <1>1, <2>2
  <2>4. i + 1 = k + 1
    BY <1>2, <2>1, <2>3 DEF IsFile, OneToOne
  <2> QED BY <2>4
<1>3. CASE mode = "TPI"
  <2>1. ipt[f] = [dtb |-> g.dtb, page |-> g.number + i] /\ ipt[f] = [dtb |-> g.dtb, page |-> g.number + k]
    BY <1>3 DEF FrameAt, IsFrameOfPage, EntriesOf
  <2>2. g.number + i = g.number + k
    BY <2>1
  <2> QED BY <1>1, <2>2
<1> QED BY <1>2, <1>3

\* Files that leave their entry to be freed take their frames to the worker that frees them.
LEMMA TakesFiles ==
  ASSUME Typed, Apart, UNCHANGED <<mode, ipt, free>>, lost' = lost, NEW F \in SUBSET files, files' = files \ F,
         NEW w \in Workers, NEW j, Goes(w, j), j.pc = "free", j.files = F, j.at = 0
  PROVE  Apart' /\ FreesApart(w)'
<1>1. job'[w] = j
  BY JobBecomes DEF Typed
<1>2. \A g : Rest(w, g)' = 0 .. g.pages - 1
  BY <1>1 DEF Rest
<1>3. \A g, i : FrameAt(g, i)' = FrameAt(g, i)
  BY FramesHold
<1>4. \A g \in files : /\ IsFile(g) /\ FramesOf(g) \subseteq Frames
                       /\ \A i \in 0 .. g.pages - 1 : FrameAt(g, i) \subseteq FramesOf(g)
  <2>1. ASSUME NEW g \in files
        PROVE  /\ IsFile(g) /\ FramesOf(g) \subseteq Frames
               /\ \A i \in 0 .. g.pages - 1 : FrameAt(g, i) \subseteq FramesOf(g)
    <3>1. IsFile(g) /\ mode \in {"SPA", "TPI"}
      BY DEF Typed, TablesTyped, MemoryTyped
    <3> QED BY <3>1, FramesAre
  <2> QED BY <2>1
<1>5. \A f : f \in InHand(w)' => \E g \in F : f \in FramesOf(g)
  <2>1. ~Opening(w)' /\ job'[w].pc = "free"
    BY <1>1 DEF Opening
  <2> DEFINE Left(g) == UNION {FrameAt(g, i) : i \in 0 .. g.pages - 1}
  <2>2. \A g \in files : \A f \in Left(g) : f \in FramesOf(g)
    BY <1>4
  <2>3. InHand(w)' = UNION {UNION {FrameAt(g, i)' : i \in Rest(w, g)'} : g \in job'[w].files}
    BY <2>1 DEF InHand
  <2>4. \A g : UNION {FrameAt(g, i)' : i \in Rest(w, g)'} = Left(g)
    BY <1>2, <1>3
  <2> HIDE DEF Left
  <2>5. \A f \in InHand(w)' : \E g \in F : f \in Left(g)
    BY <1>1, <2>3, <2>4
  <2> QED BY <2>2, <2>5
<1>6. OneToOne(free)'
  BY DEF Apart, OneToOne
<1>7. \A f, k, x : At(f, k, x)' =>
            \/ At(f, k, x)
            \/ k = "hand" /\ x = w /\ \E l, y : At(f, l, y) /\ ~At(f, l, y)'
  <2>1. \A f, k, x : At(f, k, x)' => k \in {"free", "lost", "file", "hand"}
    BY DEF At
  <2>2. \A f, x : (At(f, "free", x)' => At(f, "free", x)) /\ (At(f, "lost", x)' => At(f, "lost", x))
    BY PlacesHold DEF Typed
  <2>3. \A f, x : At(f, "file", x)' => At(f, "file", x)
    BY FramesHold DEF At
  <2>4. \A f, x : x # w /\ At(f, "hand", x)' => At(f, "hand", x)
    BY PlacesHold DEF Typed
  <2>5. \A f : At(f, "hand", w)' => \E y : At(f, "file", y) /\ ~At(f, "file", y)'
    <3>1. ASSUME NEW f, At(f, "hand", w)' PROVE \E y : At(f, "file", y) /\ ~At(f, "file", y)'
      <4>1. PICK g \in F : f \in FramesOf(g)
        BY <1>5, <3>1 DEF At
      <4>2. At(f, "file", g) /\ ~At(f, "file", g)'
        BY <4>1 DEF At
      <4> QED BY <4>2
    <3> QED BY <3>1
  <2>6. \A f, x : At(f, "hand", x)' => At(f, "hand", x) \/ (x = w /\ \E l, y : At(f, l, y) /\ ~At(f, l, y)')
    BY <2>4, <2>5
  <2> QED BY <2>1, <2>2, <2>3, <2>6
<1>8. Apart'
  BY <1>6, <1>7, Moves
<1>9. FreesApart(w)'
  <2>1. ASSUME NEW g \in F, NEW h \in F, NEW i \in 0 .. g.pages - 1, NEW k \in 0 .. h.pages - 1,
               NEW f \in Frames, f \in FrameAt(g, i), f \in FrameAt(h, k)
        PROVE  g = h /\ i = k
    <3>1. f \in FramesOf(g) /\ f \in FramesOf(h) /\ IsFile(g)
      BY <1>4, <2>1
    <3>2. g = h
      BY <3>1, FileApart
    <3>3. i = k
      BY <2>1, <3>1, <3>2, PagesApart DEF Typed, MemoryTyped
    <3> QED BY <3>2, <3>3
  <2>2. ASSUME NEW g \in job'[w].files, NEW h \in job'[w].files, NEW i \in Rest(w, g)', NEW k \in Rest(w, h)',
               NEW f \in Frames, f \in FrameAt(g, i)', f \in FrameAt(h, k)'
        PROVE  g = h /\ i = k
    <3>1. g \in F /\ h \in F /\ i \in 0 .. g.pages - 1 /\ k \in 0 .. h.pages - 1
      BY <1>1, <1>2, <2>2
    <3>2. f \in FrameAt(g, i) /\ f \in FrameAt(h, k)
      BY <1>3, <2>2
    <3> QED BY <2>1, <3>1, <3>2
  <2> QED BY <2>2 DEF FreesApart
<1> QED BY <1>8, <1>9

\* The file of a close leaves its entry.
LEMMA GoodCloseRemoves ==
  ASSUME Good, NEW w \in Workers, CloseRemoves(w), PagesAreTold'
  PROVE  Good'
<1> USE DEF Good
<1>1. job[w].pc = "close" /\ job[w] \in [pc : {"close"}, dtb : DTBs, number : Nat]
  BY Kinds DEF CloseRemoves, Active, Typed
<1>2. PICK d \in DTBs, n \in Nat : d = job[w].dtb /\ n = job[w].number
  BY <1>1
<1>3. Serves(w, d)
  BY <1>1, <1>2 DEF Serves
<1>4. PICK F : F = {g \in files : g.dtb = d /\ g.number = n}
  OBVIOUS
<1>5. UNCHANGED <<mode, free, ipt, known, next, storage, lost, removed, pending, killed, strays>>
  BY DEF CloseRemoves
<1>6. pending' \subseteq DTBs
  BY <1>5 DEF Typed, ClientsTyped
<1>7. ASSUME w \notin dangling, files' = files \ F, UNCHANGED <<dangling, status, closes, opened>>,
             Goes(w, [pc |-> "free", dtb |-> d, files |-> F, at |-> 0, all |-> FALSE, number |-> n])
      PROVE  Good'
  <2>1. PICK j : j = [pc |-> "free", dtb |-> d, files |-> F, at |-> 0, all |-> FALSE, number |-> n]
    OBVIOUS
  <2>2. Goes(w, j) /\ j.pc = "free" /\ j.dtb = d /\ j.files = F /\ j.at = 0 /\ ~j.all
    BY <1>7, <2>1
  <2>3. F \subseteq files /\ F \subseteq FileRec /\ \A g \in F : IsFile(g) /\ g.dtb = d
    BY <1>4 DEF Typed, TablesTyped, IsFile
  <2>4. FreeJob(j)
    <3>1. j \in [pc : {"free"}, dtb : DTBs, files : SUBSET FileRec, at : Nat, all : BOOLEAN, number : Nat]
      <4>1. F \in SUBSET FileRec
        BY <2>3
      <4> QED BY <1>2, <2>1, <4>1
    <3>2. Numbering(F)
      BY <2>3 DEF Numbering, Typed, TablesTyped
    <3> QED BY <2>2, <2>3, <3>1, <3>2 DEF FreeJob
  <2>5. TablesTyped'
    <3>1. \A g : IsFile(g)' <=> IsFile(g)
      BY <1>5, KindsStay
    <3> QED BY <1>5, <1>7, <3>1 DEF Typed, TablesTyped, Numbering
  <2>6. Typed'
    BY <1>5, <1>6, <1>7, <2>2, <2>4, <2>5, ClientStays, TypesStay, JobStays DEF Typed, IsJob
  <2>7. OneRequest'
    BY <1>1, <1>2, <1>5, <1>7, <2>2, GoesOn
  <2>8. Entries'
    <3>1. known' = known /\ dangling' = dangling
      BY <1>5, <1>7
    <3> QED BY <1>7, <2>2, <3>1, EntriesStay
  <2>9. job'[w] = j /\ \A v \in Workers : v # w => job'[v] = job[v]
    BY <2>2, JobBecomes DEF Typed
  <2>10. Apart' /\ FreesApart(w)'
    <3>1. F \in SUBSET files
      BY <2>3
    <3> QED BY <1>5, <1>7, <2>2, <3>1, TakesFiles DEF Owned
  <2>11. ASSUME mode = "TPI" PROVE PagedJob(w)'
    <3>1. \A g \in F : Below(g)' /\ Older(g)'
      <4>1. \A g \in files : Below(g) /\ g.dtb \in known
        BY <2>11 DEF Owned, Paged, Typed, TablesTyped
      <4> QED BY <1>5, <2>3, <4>1 DEF Below, Older
    <3>2. ~Opening(w)'
      BY <2>2, <2>9 DEF Opening
    <3> QED BY <2>2, <2>9, <3>1, <3>2 DEF PagedJob
  <2>12. files' \subseteq files
    BY <1>7
  <2>13. Owned'
    BY <1>5, <1>7, <2>2, <2>10, <2>11, <2>12, OthersOwn DEF Owned
  <2>14. JobKept(w)'
    BY <2>2, <2>9, NothingKept
  <2>15. ASSUME NEW v \in Workers, v # w, job[v].pc \in {"assign", "ask", "read"},
                NEW g \in files, g.dtb = job[v].dtb
         PROVE  g \in files'
    <3>1. job[v].dtb # d
      <4> SUFFICES ASSUME job[v].dtb = d PROVE FALSE
        OBVIOUS
      <4>1. Serves(v, d)
        BY <2>15 DEF Serves
      <4> QED BY <1>3, <2>15, <4>1 DEF OneRequest, One
    <3> QED BY <1>4, <1>7, <2>15, <3>1
  <2>16. Contents'
    BY <1>5, <2>2, <2>12, <2>14, <2>15, ContentsStay DEF Typed
  <2> QED BY <2>6, <2>7, <2>8, <2>13, <2>16
<1>8. ASSUME Fails(d), Goes(w, Idle), dangling' = dangling \ {w}, files' = files
      PROVE  Good'
  <2>1. Idle.pc = "idle"
    BY DEF Idle
  <2>2. UNCHANGED memory
    BY <1>5, <1>8 DEF memory, tables
  <2>3. Typed'
    BY <1>5, <1>6, <1>8, ClientStays, TypesStay, JobStays DEF Typed, IsJob
  <2>4. OneRequest'
    BY <1>3, <1>5, <1>8, Replies
  <2>5. Entries'
    BY <1>5, <1>8, <2>1, EntriesStay
  <2>6. JobKept(w)'
    BY <1>8, <2>1, JobBecomes, NothingKept DEF Typed
  <2>7. Owned' /\ Contents'
    BY <1>5, <1>8, <2>1, <2>2, <2>6, QuietStep
  <2> QED BY <2>3, <2>4, <2>5, <2>7
<1>9. ~crashed'
  BY DEF PagesAreTold
<1>10. \/ /\ w \notin dangling /\ files' = files \ F /\ UNCHANGED <<dangling, status, closes, opened>>
          /\ Goes(w, [pc |-> "free", dtb |-> d, files |-> F, at |-> 0, all |-> FALSE, number |-> n])
       \/ Fails(d) /\ Goes(w, Idle) /\ dangling' = dangling \ {w} /\ files' = files
  BY <1>2, <1>4, <1>9 DEF CloseRemoves, Removed
<1> QED BY <1>7, <1>8, <1>10

\* The entry of a DTB leaves the table: nobody that behaves waits for anything of it.
LEMMA GoodCloseDTBRemoves ==
  ASSUME Good, NEW w \in Workers, NEW d \in DTBs, CloseDTBRemoves(w, d)
  PROVE  Good'
<1> USE DEF Good
<1>1. /\ job[w].pc = "idle" /\ closes[d] > 0 /\ closes' = [closes EXCEPT ![d] = @ - 1]
      /\ known' = known \ {d} /\ next' = [next EXCEPT ![d] = 0] /\ files' = {g \in files : g.dtb # d}
      /\ UNCHANGED <<mode, free, ipt, storage, lost, status, pending, killed, opened, strays>>
  BY DEF CloseDTBRemoves, Active
<1>2. job[w] = Idle /\ w \notin dangling
  BY <1>1, Kinds DEF Entries, WithEntry, Typed
<1>3. ClientsTyped' /\ MemoryTyped'
  BY <1>1, TypesStay DEF Typed, ClientsTyped
<1>4. /\ known' \subseteq DTBs /\ next'[d] = 0 /\ \A e \in DTBs : e # d => next'[e] = next[e]
      /\ next' \in [DTBs -> Nat]
  BY <1>1 DEF Typed, TablesTyped
<1>5. TablesTyped'
  <2>1. \A g : IsFile(g)' <=> IsFile(g)
    BY <1>1, KindsStay
  <2> QED BY <1>1, <1>4, <2>1 DEF Typed, TablesTyped, Numbering
<1>6. /\ \A e \in DTBs : closes[e] \in Nat /\ closes'[e] \in Nat /\ closes'[e] <= closes[e]
  BY <1>1 DEF Typed, ClientsTyped
<1>7. ASSUME NEW v \in Workers, job[v].pc \in {"assign", "ask", "read"}, Behaves(job[v].dtb)
      PROVE  job[v].dtb # d
  <2> SUFFICES ASSUME job[v].dtb = d PROVE FALSE
    OBVIOUS
  <2>1. Serves(v, d)
    BY <1>7 DEF Serves
  <2>2. d \notin killed
    BY <1>7 DEF Behaves
  <2> QED BY <1>1, <2>1, <2>2 DEF OneRequest, One, Asked, Served
<1>8. CASE d \in known
  <2>1. PICK F : F = {g \in files : g.dtb = d}
    OBVIOUS
  <2>2. PICK j : j = [pc |-> "free", dtb |-> d, files |-> F, at |-> 0, all |-> TRUE, number |-> 0]
    OBVIOUS
  <2>3. /\ Goes(w, j) /\ removed' = removed \cup {d}
        /\ dangling' = dangling \cup
             {v \in Workers : job[v].pc \in {"check", "take", "write", "entry", "file", "close"} /\ job[v].dtb = d}
    BY <1>8, <2>1, <2>2 DEF CloseDTBRemoves
  <2>4. j.pc = "free" /\ j.dtb = d /\ j.files = F /\ j.at = 0 /\ j.all
    BY <2>2
  <2>5. F \in SUBSET files /\ F \in SUBSET FileRec /\ \A g \in F : IsFile(g) /\ g.dtb = d
    BY <2>1 DEF Typed, TablesTyped, IsFile
  <2>6. FreeJob(j)
    <3>1. j \in [pc : {"free"}, dtb : DTBs, files : SUBSET FileRec, at : Nat, all : BOOLEAN, number : Nat]
      BY <2>2, <2>5
    <3>2. Numbering(F)
      BY <2>5 DEF Numbering, Typed, TablesTyped
    <3> QED BY <2>4, <2>5, <3>1, <3>2 DEF FreeJob
  <2>7. JobsTyped'
    BY <1>1, <2>3, <2>6, JobStays DEF Typed, IsJob
  <2>8. job'[w] = j /\ \A v \in Workers : v # w => job'[v] = job[v]
    BY <2>3, JobBecomes DEF Typed
  <2>9. OneRequest'
    <3>1. \A e : ~Serves(w, e)'
      BY <2>4, <2>8 DEF Serves
    <3>2. \A e : \A v \in Workers : Serves(v, e)' => Serves(v, e)
      BY <2>8, <3>1 DEF Serves
    <3>3. ASSUME NEW e \in DTBs PROVE One(e)'
      BY <1>1, <1>6, <3>2, OneStays DEF OneRequest
    <3> QED BY <3>3 DEF OneRequest
  <2>10. \A v \in Workers : v \in dangling' <=> v \in dangling \/ (WithEntry(v) /\ job[v].dtb = d)
    BY <2>3 DEF WithEntry
  <2>11. Entries'
    <3>1. dangling' \subseteq Workers
      BY <2>3 DEF Entries
    <3>2. ~WithEntry(w) /\ ~WithEntry(w)'
      BY <1>1, <2>4, <2>8 DEF WithEntry
    <3>3. w \notin dangling'
      BY <1>2, <2>10, <3>2
    <3>4. ASSUME NEW v \in Workers, v # w
          PROVE  /\ v \in dangling' => WithEntry(v)'
                 /\ v \notin dangling' /\ WithEntry(v)' => job'[v].dtb \in known'
      <4>1. job'[v] = job[v] /\ (WithEntry(v)' <=> WithEntry(v))
        BY <2>8, <3>4 DEF WithEntry
      <4> QED BY <1>1, <2>10, <4>1 DEF Entries
    <3> QED BY <3>1, <3>2, <3>3, <3>4 DEF Entries
  <2>12. files' = files \ F /\ files' \subseteq files
    BY <1>1, <2>1
  <2>13. Apart' /\ FreesApart(w)'
    BY <1>1, <2>3, <2>4, <2>5, <2>12, TakesFiles DEF Owned
  <2>14. \A v \in Workers : v # w => FreesApart(v)'
    BY <1>1, <2>8, HandsHold DEF Owned
  <2>15. ASSUME mode = "TPI" PROVE Paged' /\ \A v \in Workers : PagedJob(v)'
    <3>1. known' \cap removed' = {} /\ known \cup removed \subseteq known' \cup removed'
      BY <1>1, <2>3, <2>15 DEF Owned, Paged
    <3>2. /\ \A e \in known' : e \in known \/ e \notin known \cup removed
          /\ \A e \in known \cap known' : next'[e] = next[e]
      BY <1>1, <1>4
    <3>3. \A v \in Workers : v # w /\ v \notin dangling' /\ Opening(v) => job[v].dtb \in known'
      BY <2>8, <2>11 DEF Entries, WithEntry, Opening
    <3>4. \A v \in Workers : v \notin dangling' => v \notin dangling
      BY <2>10
    <3>5. Paged' /\ \A v \in Workers :
              /\ job'[v] = job[v]
              /\ v \notin dangling' => v \notin dangling
              /\ v \notin dangling' /\ Opening(v) => job[v].dtb \in known'
              => PagedJob(v)'
      BY <1>1, <1>4, <2>12, <2>15, <3>1, <3>2, PagedStays
    <3>6. PagedJob(w)'
      <4>1. \A g \in F : Below(g)' /\ Older(g)'
        BY <1>1, <2>3, <2>5 DEF Below, Older
      <4>2. ~Opening(w)'
        BY <2>4, <2>8 DEF Opening
      <4> QED BY <2>4, <2>8, <4>1, <4>2 DEF PagedJob
    <3> QED BY <2>8, <3>3, <3>4, <3>5, <3>6
  <2>16. Owned'
    BY <1>1, <2>13, <2>14, <2>15 DEF Owned
  <2>17. JobKept(w)'
    BY <2>4, <2>8, NothingKept
  <2>18. Contents'
    <3>1. \A v \in Workers : v # w /\ job[v].pc \in {"assign", "ask", "read"} /\ Behaves(job[v].dtb) =>
            \A g \in files : g.dtb = job[v].dtb => g \in files'
      BY <1>1, <1>7
    <3> QED BY <1>1, <2>3, <2>12, <2>17, <3>1, ContentsStay DEF Typed
  <2> QED BY <1>3, <1>5, <2>7, <2>9, <2>11, <2>16, <2>18 DEF Typed
<1>9. CASE d \notin known
  <2>1. UNCHANGED <<job, removed, dangling>>
    BY <1>9 DEF CloseDTBRemoves
  <2>2. files' = files /\ known' = known
    BY <1>1, <1>9 DEF Typed, TablesTyped
  <2>3. Goes(w, Idle)
    <3>1. PICK old : old = [v \in Workers |-> job[v]]
      OBVIOUS
    <3>2. job = old /\ DOMAIN old = Workers /\ old[w] = Idle
      BY <1>2, <3>1 DEF Typed, JobsTyped
    <3>3. [old EXCEPT ![w] = Idle] = old
      BY <3>1, <3>2
    <3> QED BY <2>1, <3>2, <3>3 DEF Goes
  <2>4. JobsTyped'
    BY <1>1, <2>1, TypesStay
  <2>5. Entries'
    BY <2>1, <2>2 DEF Entries, WithEntry
  <2>6. OneRequest'
    <3>1. \A e, v : Serves(v, e)' <=> Serves(v, e)
      BY <2>1 DEF Serves
    <3>2. ASSUME NEW e \in DTBs PROVE One(e)'
      BY <1>1, <1>6, <3>1, OneStays DEF OneRequest
    <3> QED BY <3>2 DEF OneRequest
  <2>7. Idle.pc = "idle"
    BY DEF Idle
  <2>8. \A e \in known : next'[e] = next[e]
    BY <1>4, <1>9 DEF Typed, TablesTyped
  <2>9. \A e \in known' : e \in known
    BY <2>2
  <2>10. Owned'
    BY <1>1, <1>4, <2>1, <2>2, <2>3, <2>7, <2>8, <2>9, OwnedStays
  <2>11. JobKept(w)'
    BY <1>1, <2>1, NothingKept
  <2>12. Contents'
    BY <1>1, <2>2, <2>3, <2>11, ContentsStay DEF Typed
  <2> QED BY <1>3, <1>5, <2>4, <2>5, <2>6, <2>10, <2>12 DEF Typed
<1> QED BY <1>8, <1>9

\* A file that is freed leaves the request.
LEMMA FreeJobLess ==
  ASSUME NEW r, r \in [pc : {"free"}, dtb : DTBs, files : SUBSET FileRec, at : Nat, all : BOOLEAN, number : Nat],
         NEW H, H \in SUBSET FileRec, NEW j, j = [r EXCEPT !.at = 0, !.files = H]
  PROVE  /\ j \in [pc : {"free"}, dtb : DTBs, files : SUBSET FileRec, at : Nat, all : BOOLEAN, number : Nat]
         /\ j.pc = "free" /\ j.dtb = r.dtb /\ j.all = r.all /\ j.files = H /\ j.at = 0
<1>1. PICK S : S = SUBSET FileRec
  OBVIOUS
<1>2. r \in [pc : {"free"}, dtb : DTBs, files : S, at : Nat, all : BOOLEAN, number : Nat] /\ H \in S
  BY <1>1
<1>3. j = [pc |-> r.pc, dtb |-> r.dtb, files |-> H, at |-> 0, all |-> r.all, number |-> r.number]
  BY <1>2
<1> QED BY <1>1, <1>2, <1>3

\* A frame that is given back is no longer in hand.
LEMMA FreesOne ==
  ASSUME Typed, NEW w \in Workers, FreesApart(w), UNCHANGED <<mode, ipt>>, FreeJob(job[w]), job[w].pc = "free",
         NEW g \in job[w].files, job[w].at > 0 => g.number = job[w].number, job[w].at < g.pages,
         NEW f \in Frames, f \in FrameAt(g, job[w].at), NEW j, job'[w] = j,
         j = IF job[w].at + 1 < g.pages THEN [job[w] EXCEPT !.at = @ + 1, !.number = g.number]
             ELSE [job[w] EXCEPT !.at = 0, !.files = @ \ {g}]
  PROVE  /\ FreeJob(j) /\ j.pc = "free" /\ j.dtb = job[w].dtb /\ j.all = job[w].all
         /\ j.files \subseteq job[w].files
         /\ f \in InHand(w) /\ InHand(w)' \subseteq InHand(w) \ {f} /\ FreesApart(w)'
<1>1. PICK a, F, n : a = job[w].at /\ F = job[w].files /\ n = job[w].number
  OBVIOUS
<1>2. /\ job[w] \in [pc : {"free"}, dtb : DTBs, files : SUBSET FileRec, at : Nat, all : BOOLEAN, number : Nat]
      /\ Numbering(F) /\ \A h \in F : IsFile(h) /\ h.dtb = job[w].dtb
  BY <1>1 DEF FreeJob
<1>3. a \in Nat /\ F \in SUBSET FileRec /\ n \in Nat
  BY <1>1, <1>2
<1>4. \A h \in F : h.pages \in Nat /\ h.number \in Nat
  BY <1>3 DEF FileRec
<1>5. \A h \in F : h # g => h.number # g.number
  BY <1>1, <1>2 DEF Numbering
<1>6. /\ j.pc = "free" /\ j.dtb = job[w].dtb /\ j.all = job[w].all /\ j.files \subseteq F /\ FreeJob(j)
      /\ a + 1 < g.pages => j.at = a + 1 /\ j.number = g.number
      /\ ~(a + 1 < g.pages) => j.at = 0 /\ j.files = F \ {g}
  <2>1. CASE a + 1 < g.pages
    <3>1. PICK b \in Nat, m \in Nat : b = a + 1 /\ m = g.number
      BY <1>1, <1>3, <1>4
    <3>2. j = [job[w] EXCEPT !.at = b, !.number = m]
      BY <1>1, <2>1, <3>1
    <3>3. /\ j \in [pc : {"free"}, dtb : DTBs, files : SUBSET FileRec, at : Nat, all : BOOLEAN, number : Nat]
          /\ j.pc = "free" /\ j.dtb = job[w].dtb /\ j.all = job[w].all
          /\ j.files = F /\ j.at = b /\ j.number = m
      BY <1>1, <1>2, <3>2
    <3> QED BY <1>2, <2>1, <3>1, <3>3 DEF FreeJob
  <2>2. CASE ~(a + 1 < g.pages)
    <3>1. PICK H : H = F \ {g}
      OBVIOUS
    <3>2. H \in SUBSET FileRec /\ H \subseteq F
      BY <1>3, <3>1
    <3>3. j = [job[w] EXCEPT !.at = 0, !.files = H]
      BY <1>1, <2>2, <3>1
    <3>4. /\ j \in [pc : {"free"}, dtb : DTBs, files : SUBSET FileRec, at : Nat, all : BOOLEAN, number : Nat]
          /\ j.pc = "free" /\ j.dtb = job[w].dtb /\ j.all = job[w].all /\ j.files = H /\ j.at = 0
      <4>1. PICK r : r = job[w]
        OBVIOUS
      <4>2. r \in [pc : {"free"}, dtb : DTBs, files : SUBSET FileRec, at : Nat, all : BOOLEAN, number : Nat]
        BY <1>2, <4>1
      <4>3. j = [r EXCEPT !.at = 0, !.files = H]
        BY <3>3, <4>1
      <4>4. H \in SUBSET FileRec
        BY <3>2
      <4>5. /\ j \in [pc : {"free"}, dtb : DTBs, files : SUBSET FileRec, at : Nat, all : BOOLEAN, number : Nat]
            /\ j.pc = "free" /\ j.dtb = r.dtb /\ j.all = r.all /\ j.files = H /\ j.at = 0
        BY ONLY <4>2, <4>3, <4>4, FreeJobLess
      <4> QED BY <4>1, <4>5
    <3>5. Numbering(H)
      BY <1>2, <3>2 DEF Numbering
    <3>6. FreeJob(j)
      BY <1>2, <3>2, <3>4, <3>5 DEF FreeJob
    <3> QED BY <2>2, <3>1, <3>2, <3>4, <3>6
  <2> QED BY <2>1, <2>2
<1>7. Rest(w, g) = a .. g.pages - 1 /\ a \in Rest(w, g)
  <2>1. a > 0 \/ a = 0
    BY <1>3
  <2> QED BY <1>1, <1>3, <1>4, <2>1 DEF Rest
<1>8. \A h \in F : h # g => Rest(w, h) = 0 .. h.pages - 1
  BY <1>1, <1>5 DEF Rest
<1>9. \A h \in j.files : Rest(w, h)' \subseteq Rest(w, h) /\ (h = g => a \notin Rest(w, h)')
  <2>1. ASSUME NEW h \in j.files, h # g PROVE Rest(w, h)' = 0 .. h.pages - 1
    <3>1. h.number # g.number
      BY <1>5, <1>6, <2>1
    <3> QED BY <1>6, <3>1 DEF Rest
  <2>2. ASSUME NEW h \in j.files, h = g PROVE Rest(w, h)' = a + 1 .. g.pages - 1
    <3>1. a + 1 < g.pages
      BY <1>6, <2>2
    <3>2. j.at = a + 1 /\ j.number = g.number /\ a + 1 > 0
      BY <1>3, <1>6, <3>1
    <3> QED BY <2>2, <3>2 DEF Rest
  <2>3. a + 1 .. g.pages - 1 \subseteq a .. g.pages - 1 /\ a \notin a + 1 .. g.pages - 1
    BY <1>1, <1>3, <1>4
  <2> QED BY <1>6, <1>7, <1>8, <2>1, <2>2, <2>3
<1>10. \A h, i : FrameAt(h, i)' = FrameAt(h, i)
  BY FramesHold
<1>11. \A x : x \in InHand(w) <=> \E h \in F : \E i \in Rest(w, h) : x \in FrameAt(h, i)
  BY <1>1, HandIs
<1>12. f \in InHand(w)
  BY <1>1, <1>7, <1>11
<1>13. \A x \in InHand(w)' : \E h \in j.files : \E i \in Rest(w, h)' : x \in FrameAt(h, i)
  <2>1. ~Opening(w)' /\ job'[w].pc = "free"
    BY <1>6 DEF Opening
  <2>2. InHand(w)' = UNION {UNION {FrameAt(h, i)' : i \in Rest(w, h)'} : h \in job'[w].files}
    BY <2>1 DEF InHand
  <2> DEFINE Left(h) == UNION {FrameAt(h, i)' : i \in Rest(w, h)'}
  <2>3. \A h : \A x \in Left(h) : \E i \in Rest(w, h)' : x \in FrameAt(h, i)
    BY <1>10
  <2>4. InHand(w)' = UNION {Left(h) : h \in j.files}
    BY <2>2
  <2> HIDE DEF Left
  <2> QED BY <2>3, <2>4
<1>14. ASSUME NEW h \in j.files, NEW i \in Rest(w, h)' PROVE f \notin FrameAt(h, i)
  <2> SUFFICES ASSUME f \in FrameAt(h, i) PROVE FALSE
    OBVIOUS
  <2>1. h \in job[w].files /\ i \in Rest(w, h) /\ a \in Rest(w, g)
    BY <1>1, <1>6, <1>7, <1>9
  <2>2. h = g /\ i = a
    BY <1>1, <2>1 DEF FreesApart
  <2> QED BY <1>9, <1>14, <2>2
<1>15. InHand(w)' \subseteq InHand(w) \ {f}
  BY <1>6, <1>9, <1>11, <1>13, <1>14
<1>16. FreesApart(w)'
  <2>1. ASSUME NEW h \in job'[w].files, NEW k \in job'[w].files, NEW i \in Rest(w, h)', NEW l \in Rest(w, k)',
               NEW x \in Frames, x \in FrameAt(h, i)', x \in FrameAt(k, l)'
        PROVE  h = k /\ i = l
    <3>1. h \in job[w].files /\ k \in job[w].files /\ i \in Rest(w, h) /\ l \in Rest(w, k)
      BY <1>1, <1>6, <1>9
    <3>2. x \in FrameAt(h, i) /\ x \in FrameAt(k, l)
      BY <1>10, <2>1
    <3> QED BY <3>1, <3>2 DEF FreesApart
  <2> QED BY <2>1 DEF FreesApart
<1> QED BY <1>1, <1>6, <1>12, <1>15, <1>16

\* What is appended to a sequence.
LEMMA Appended ==
  ASSUME NEW S, NEW s \in Seq(S), NEW e \in S
  PROVE  /\ Append(s, e) \in Seq(S) /\ Elements(Append(s, e)) = Elements(s) \cup {e}
         /\ OneToOne(s) /\ e \notin Elements(s) => OneToOne(Append(s, e))
<1>1. PICK t, n : t = Append(s, e) /\ n = Len(s)
  OBVIOUS
<1>2. /\ t \in Seq(S) /\ n \in Nat /\ DOMAIN s = 1 .. n /\ DOMAIN t = 1 .. n + 1 /\ t[n + 1] = e
      /\ \A i \in 1 .. n : t[i] = s[i]
  BY <1>1
<1>3. \A i : i \in DOMAIN t <=> i \in DOMAIN s \/ i = n + 1
  BY <1>2
<1>4. \A x : x \in Elements(t) <=> x \in Elements(s) \/ x = e
  BY <1>2, <1>3 DEF Elements
<1>5. ASSUME OneToOne(s), e \notin Elements(s) PROVE OneToOne(t)
  <2>1. \A i \in DOMAIN s : s[i] # e
    BY <1>5 DEF Elements
  <2> QED BY <1>2, <1>3, <1>5, <2>1 DEF OneToOne
<1> QED BY <1>1, <1>2, <1>4, <1>5

\* addFreeFrame.
LEMMA GoodFrees == ASSUME Good, NEW w \in Workers, Frees(w) PROVE Good'
<1> USE DEF Good
<1>1. job[w].pc = "free" /\ FreeJob(job[w])
  BY Kinds DEF Frees, Active, Typed
<1>2. UNCHANGED <<mode, ipt, known, next, files, storage, dangling, lost, removed, pending, killed, strays,
                  status, closes, opened>>
  BY ZenonT(60) DEF Frees, tables, faults, clients
<1>3. PICK g \in job[w].files :
        /\ job[w].at > 0 => g.number = job[w].number
        /\ \E f \in Frames : FreesPage(w, g, f)
        /\ Goes(w, IF job[w].at + 1 < g.pages
                     THEN [job[w] EXCEPT !.at = @ + 1, !.number = g.number]
                     ELSE [job[w] EXCEPT !.at = 0, !.files = @ \ {g}])
  BY DEF Frees
<1>4. PICK f \in Frames : job[w].at < g.pages /\ f \in FrameAt(g, job[w].at) /\ free' = Append(free, f)
  BY <1>3 DEF FreesPage
<1>5. PICK j : j = IF job[w].at + 1 < g.pages
                     THEN [job[w] EXCEPT !.at = @ + 1, !.number = g.number]
                     ELSE [job[w] EXCEPT !.at = 0, !.files = @ \ {g}]
  OBVIOUS
<1>6. Goes(w, j)
  BY <1>3, <1>5
<1>7. job'[w] = j
  <2>1. JobsTyped
    BY Zenon DEF Typed
  <2> QED BY <1>6, <2>1, JobBecomes
<1>8. /\ FreeJob(j) /\ j.pc = "free" /\ j.dtb = job[w].dtb /\ j.all = job[w].all
      /\ j.files \subseteq job[w].files
      /\ f \in InHand(w) /\ InHand(w)' \subseteq InHand(w) \ {f} /\ FreesApart(w)'
  <2>1. FreesApart(w)
    BY DEF Owned
  <2> QED BY <1>1, <1>2, <1>3, <1>4, <1>5, <1>7, <2>1, FreesOne
<1>9. f \notin Elements(free)
  BY <1>8, FileApart DEF Owned
<1>10. free' \in Seq(Frames) /\ Elements(free') = Elements(free) \cup {f} /\ OneToOne(free')
  <2>1. free \in Seq(Frames) /\ OneToOne(free)
    BY DEF Typed, MemoryTyped, Owned, Apart
  <2> QED BY <1>4, <1>9, <2>1, Appended
<1>11. pending' \subseteq DTBs
  BY <1>2 DEF Typed, ClientsTyped
<1>12. MemoryTyped'
  BY <1>2, <1>10 DEF Typed, MemoryTyped
<1>13. Typed'
  BY <1>2, <1>6, <1>8, <1>11, <1>12, ClientStays, TypesStay, JobStays DEF Typed, IsJob
<1>14. OneRequest'
  BY <1>1, <1>2, <1>6, <1>8, GoesOn
<1>15. w \notin dangling
  BY <1>1 DEF Entries, WithEntry
<1>16. Entries'
  BY <1>2, <1>6, <1>8, <1>15, EntriesStay
<1>17. Apart'
  <2>1. OneToOne(free)'
    BY <1>10 DEF OneToOne
  <2>2. \A x : At(x, "hand", w)' => At(x, "hand", w) /\ x # f
    BY <1>8 DEF At
  <2>3. \A x, k, y : At(x, k, y)' =>
            \/ At(x, k, y)
            \/ k = "free" /\ y = 0 /\ \E l, z : At(x, l, z) /\ ~At(x, l, z)'
    <3>1. \A x, k, y : At(x, k, y)' => k \in {"free", "lost", "file", "hand"}
      BY DEF At
    <3>2. \A x, y : At(x, "lost", y)' => At(x, "lost", y)
      BY <1>2, <1>6, PlacesHold DEF Typed
    <3>3. \A x, y : At(x, "file", y)' => At(x, "file", y)
      BY <1>2, FramesHold DEF At
    <3>4. \A x, y : At(x, "hand", y)' => At(x, "hand", y)
      BY <1>2, <1>6, <2>2, PlacesHold DEF Typed
    <3>5. At(f, "hand", w) /\ ~At(f, "hand", w)'
      BY <1>8, <2>2 DEF At
    <3>6. \A x, y : At(x, "free", y)' => At(x, "free", y) \/ (y = 0 /\ x = f)
      BY <1>10 DEF At, Elements
    <3>7. \A x, y : At(x, "free", y)' => At(x, "free", y) \/ (y = 0 /\ \E l, z : At(x, l, z) /\ ~At(x, l, z)')
      BY <3>5, <3>6
    <3> QED BY <3>1, <3>2, <3>3, <3>4, <3>7
  <2> QED BY <2>1, <2>3, Moves DEF Owned
<1>18. ASSUME mode = "TPI" PROVE PagedJob(w)'
  <2>1. \A h \in job[w].files : Below(h) /\ Older(h)
    BY <1>1, <1>18 DEF Owned, PagedJob
  <2>2. \A h \in j.files : Below(h)' /\ Older(h)'
    BY <1>2, <1>8, <2>1 DEF Below, Older
  <2>3. ~Opening(w)'
    BY <1>7, <1>8 DEF Opening
  <2> QED BY <1>7, <2>2, <2>3 DEF PagedJob
<1>19. Owned'
  BY <1>2, <1>6, <1>8, <1>17, <1>18, OthersOwn DEF Owned
<1>20. JobKept(w)'
  BY <1>7, <1>8, NothingKept
<1>21. Contents'
  BY <1>2, <1>6, <1>20, ContentsStay DEF Typed
<1> QED BY <1>13, <1>14, <1>16, <1>19, <1>21

\* What a worker that frees files has in hand after a step.
LEMMA HandAfter ==
  ASSUME NEW w, job'[w].pc = "free"
  PROVE  \A f : f \in InHand(w)' <=>
                \E g \in job'[w].files : \E i \in Rest(w, g)' : f \in FrameAt(g, i)'
<1>1. ~Opening(w)'
  BY DEF Opening
<1>2. InHand(w)' = UNION {UNION {FrameAt(g, i)' : i \in Rest(w, g)'} : g \in job'[w].files}
  BY <1>1 DEF InHand
<1>3. ASSUME NEW f
      PROVE  f \in InHand(w)' <=>
               \E g \in job'[w].files : \E i \in Rest(w, g)' : f \in FrameAt(g, i)'
  <2>1. f \in InHand(w)' <=> \E g \in job'[w].files : f \in UNION {FrameAt(g, i)' : i \in Rest(w, g)'}
    BY <1>2
  <2>2. \A g : f \in UNION {FrameAt(g, i)' : i \in Rest(w, g)'} <=>
                \E i \in Rest(w, g)' : f \in FrameAt(g, i)'
    OBVIOUS
  <2> QED BY <2>1, <2>2
<1> QED BY <1>3

\* What the two workers have once one has overtaken the other.
Overtaken(v, w, g) ==
    /\ FreeJob(job'[v]) /\ job'[v].pc = "free" /\ job'[v].all /\ job'[v].dtb = job[v].dtb
    /\ job'[v].files = job[v].files \ {g} /\ job'[v].at = job[v].at
    /\ job'[v].number = job[v].number
    /\ FreeJob(job'[w]) /\ job'[w].pc = "free" /\ ~job'[w].all /\ job'[w].dtb = job[w].dtb
    /\ job'[w].files = {g} /\ job'[w].at = 0

\* The file that a close takes out of the hands of the worker that frees the entry.
LEMMA OvertakesIs ==
  ASSUME JobsTyped, NEW w \in Workers, NEW v \in Workers, v # w, NEW g \in job[v].files,
         FreeJob(job[v]), job[v].all, job[w] \in [pc : {"close"}, dtb : DTBs, number : Nat],
         job[v].dtb = job[w].dtb, mode' = mode,
         job' = [job EXCEPT ![v].files = @ \ {g}, ![w] = Removed(w, {g})]
  PROVE  /\ \A x \in Workers : x # v /\ x # w => job'[x] = job[x]
         /\ job' = [x \in Workers |-> job'[x]]
         /\ Overtaken(v, w, g)
<1>1. PICK old : old = [x \in Workers |-> job[x]]
  OBVIOUS
<1>2. PICK jv, jw, F : jv = job[v] /\ jw = Removed(w, {g}) /\ F = job[v].files
  OBVIOUS
<1>3. job = old /\ DOMAIN old = Workers /\ \A x \in Workers : old[x] = job[x]
  BY <1>1 DEF JobsTyped
<1>4. job' = [x \in Workers |-> IF x = w THEN jw ELSE IF x = v THEN [jv EXCEPT !.files = F \ {g}] ELSE job[x]]
  BY <1>2, <1>3
<1>5. job'[w] = jw /\ job'[v] = [jv EXCEPT !.files = F \ {g}]
  BY <1>4
<1>6. \A x \in Workers : x # v /\ x # w => job'[x] = job[x]
  BY <1>4
<1>7. job' = [x \in Workers |-> job'[x]]
  BY <1>4
<1>8. PICK S : S = SUBSET FileRec
  OBVIOUS
<1>9. jv \in [pc : {"free"}, dtb : DTBs, files : S, at : Nat, all : BOOLEAN, number : Nat] /\ jv.files = F
  BY <1>2, <1>8 DEF FreeJob
<1>10. F \in SUBSET FileRec /\ Numbering(F) /\ \A h \in F : IsFile(h) /\ h.dtb = jv.dtb
  BY <1>2, <1>8, <1>9 DEF FreeJob
<1>11. PICK H : H = F \ {g}
  OBVIOUS
<1>12. H \in S /\ Numbering(H) /\ \A h \in H : IsFile(h) /\ h.dtb = jv.dtb
  BY <1>8, <1>10, <1>11 DEF Numbering
<1>13. PICK j : j = job'[v]
  OBVIOUS
<1>14. j = [pc |-> jv.pc, dtb |-> jv.dtb, files |-> H, at |-> jv.at, all |-> jv.all, number |-> jv.number]
  <2>1. j = [jv EXCEPT !.files = H]
    BY <1>5, <1>11, <1>13
  <2>2. DOMAIN jv = {"pc", "dtb", "files", "at", "all", "number"}
    BY <1>9
  <2> QED BY <2>1, <2>2
<1>15. /\ j \in [pc : {"free"}, dtb : DTBs, files : S, at : Nat, all : BOOLEAN, number : Nat]
       /\ j.pc = "free" /\ j.all = jv.all /\ j.dtb = jv.dtb /\ j.files = H /\ j.at = jv.at
       /\ j.number = jv.number
  BY <1>9, <1>12, <1>14
<1>16. FreeJob(j)
  BY <1>8, <1>12, <1>15 DEF FreeJob
<1>17. g \in F /\ {g} \in S
  BY <1>2, <1>8, <1>10
<1>18. PICK d, n : d = job[w].dtb /\ n = job[w].number
  OBVIOUS
<1>19. d \in DTBs /\ n \in Nat /\ d = jv.dtb
  BY <1>2, <1>18
<1>20. jw = [pc |-> "free", dtb |-> d, files |-> {g}, at |-> 0, all |-> FALSE, number |-> n]
  BY <1>2, <1>18 DEF Removed
<1>21. PICK G : G = {g}
  OBVIOUS
<1>22. /\ jw \in [pc : {"free"}, dtb : DTBs, files : S, at : Nat, all : BOOLEAN, number : Nat]
       /\ jw.pc = "free" /\ ~jw.all /\ jw.dtb = d /\ jw.files = G /\ jw.at = 0
  BY <1>17, <1>19, <1>20, <1>21
<1>23. Numbering(G) /\ \A h \in G : IsFile(h) /\ h.dtb = d
  BY <1>10, <1>17, <1>19, <1>21 DEF Numbering
<1>24. FreeJob(jw)
  BY <1>8, <1>22, <1>23 DEF FreeJob
<1>25. FreeJob(job'[v]) /\ FreeJob(job'[w])
  BY <1>5, <1>13, <1>16, <1>24
<1>26. Overtaken(v, w, g)
  BY <1>2, <1>5, <1>11, <1>13, <1>15, <1>18, <1>21, <1>22, <1>25 DEF Overtaken
<1> QED BY <1>6, <1>7, <1>26

\* A close finds its file in the entry that another worker is freeing.
LEMMA GoodCloseOvertakes == ASSUME Good, NEW w \in Workers, CloseOvertakes(w) PROVE Good'
<1> USE DEF Good
<1>1. job[w].pc = "close" /\ job[w] \in [pc : {"close"}, dtb : DTBs, number : Nat]
  BY Kinds DEF CloseOvertakes, Active, Typed
<1>2. PICK v \in Workers :
        /\ v # w /\ Destroying(v, w)
        /\ \E g \in job[v].files :
              /\ g.number = job[w].number /\ StillIn(v, g)
              /\ job' = [job EXCEPT ![v].files = @ \ {g}, ![w] = Removed(w, {g})]
  BY DEF CloseOvertakes
<1>3. PICK g \in job[v].files :
        StillIn(v, g) /\ job' = [job EXCEPT ![v].files = @ \ {g}, ![w] = Removed(w, {g})]
  BY <1>2
<1>4. job[v].pc = "free" /\ job[v].all /\ job[v].dtb = job[w].dtb /\ FreeJob(job[v])
  BY <1>2, Kinds DEF Destroying, Typed
<1>5. /\ UNCHANGED <<memory, lost, removed, status, closes, opened, pending, killed, strays>>
      /\ UNCHANGED <<mode, free, ipt, storage, known, next, files>>
      /\ dangling' = dangling \ {w}
  BY DEF CloseOvertakes, memory, tables, clients
<1>o. /\ \A x \in Workers : x # v /\ x # w => job'[x] = job[x]
      /\ job' = [x \in Workers |-> job'[x]]
      /\ Overtaken(v, w, g)
  BY <1>1, <1>2, <1>3, <1>4, <1>5, OvertakesIs DEF Typed
<1>6. /\ \A x \in Workers : x # v /\ x # w => job'[x] = job[x]
      /\ job' = [x \in Workers |-> job'[x]]
  BY <1>o
<1>7. /\ FreeJob(job'[v]) /\ job'[v].pc = "free" /\ job'[v].all /\ job'[v].dtb = job[v].dtb
      /\ job'[v].files = job[v].files \ {g} /\ job'[v].at = job[v].at /\ job'[v].number = job[v].number
  BY <1>o DEF Overtaken
<1>8. /\ FreeJob(job'[w]) /\ job'[w].pc = "free" /\ ~job'[w].all /\ job'[w].dtb = job[w].dtb
      /\ job'[w].files = {g} /\ job'[w].at = 0
  BY <1>o DEF Overtaken
<1>9. Typed'
  <2>1. \A x \in Workers : IsJob(job'[x])
    BY <1>6, <1>7, <1>8 DEF IsJob, Typed, JobsTyped
  <2>2. JobsTyped'
    BY <1>5, <1>6, <2>1, KindsStay DEF JobsTyped
  <2>3. pending' \subseteq DTBs
    BY <1>5 DEF Typed, ClientsTyped
  <2> QED BY <1>5, <2>2, <2>3, ClientStays, TypesStay DEF Typed
<1>10. OneRequest'
  <2>1. \A e : (Serves(v, e)' <=> Serves(v, e)) /\ (Serves(w, e)' <=> Serves(w, e))
    BY <1>1, <1>4, <1>7, <1>8 DEF Serves
  <2>2. \A x \in Workers : \A e : Serves(x, e)' <=> Serves(x, e)
    BY <1>6, <2>1 DEF Serves
  <2>3. ASSUME NEW e \in DTBs PROVE One(e)'
    <3>1. closes[e] \in Nat
      BY DEF Typed, ClientsTyped
    <3> QED BY <1>5, <2>2, <3>1, OneStays DEF OneRequest
  <2> QED BY <2>3 DEF OneRequest
<1>11. Entries'
  <2>1. ~WithEntry(v)' /\ ~WithEntry(w)' /\ ~WithEntry(v)
    BY <1>4, <1>7, <1>8 DEF WithEntry
  <2>2. v \notin dangling' /\ w \notin dangling' /\ dangling' \subseteq Workers
    BY <1>5, <2>1 DEF Entries
  <2>3. ASSUME NEW x \in Workers, x # v, x # w
        PROVE  /\ x \in dangling' => WithEntry(x)'
               /\ x \notin dangling' /\ WithEntry(x)' => job'[x].dtb \in known'
    BY <1>5, <1>6, <2>3 DEF Entries, WithEntry
  <2> QED BY <2>1, <2>2, <2>3 DEF Entries
<1>12. /\ \A h, i : FrameAt(h, i)' = FrameAt(h, i)
       /\ \A h : FramesOf(h)' = FramesOf(h)
       /\ \A d, p : EntriesOf(d, p)' = EntriesOf(d, p)
  BY <1>5, FramesHold
<1>13. /\ \A h \in job[v].files : Rest(v, h)' = Rest(v, h)
       /\ Rest(v, g) = 0 .. g.pages - 1 /\ Rest(w, g)' = 0 .. g.pages - 1
  BY <1>3, <1>7, <1>8 DEF Rest, StillIn
<1>14. /\ \A f : f \in InHand(v) <=> \E h \in job[v].files : \E i \in Rest(v, h) : f \in FrameAt(h, i)
       /\ \A f : f \in InHand(v)' <=> \E h \in job[v].files \ {g} : \E i \in Rest(v, h) : f \in FrameAt(h, i)
       /\ \A f : f \in InHand(w)' <=> \E i \in 0 .. g.pages - 1 : f \in FrameAt(g, i)
  <2>1. \A f : f \in InHand(v) <=> \E h \in job[v].files : \E i \in Rest(v, h) : f \in FrameAt(h, i)
    BY <1>4, HandIs
  <2>2. \A f : f \in InHand(v)' <=>
                \E h \in job[v].files \ {g} : \E i \in Rest(v, h) : f \in FrameAt(h, i)
    <3>1. \A f : f \in InHand(v)' <=>
                  \E h \in job'[v].files : \E i \in Rest(v, h)' : f \in FrameAt(h, i)'
      BY <1>7, HandAfter
    <3>2. \A h \in job[v].files \ {g} : Rest(v, h)' = Rest(v, h)
      BY <1>13
    <3> QED BY <1>7, <1>12, <3>1, <3>2
  <2>3. \A f : f \in InHand(w)' <=> \E i \in 0 .. g.pages - 1 : f \in FrameAt(g, i)
    <3>1. \A f : f \in InHand(w)' <=>
                  \E h \in job'[w].files : \E i \in Rest(w, h)' : f \in FrameAt(h, i)'
      BY <1>8, HandAfter
    <3> QED BY <1>8, <1>12, <1>13, <3>1
  <2> QED BY <2>1, <2>2, <2>3
<1>15. FreesApart(v) /\ FreesApart(v)' /\ FreesApart(w)'
  <2>1. FreesApart(v)
    BY DEF Owned
  <2>2. \A i, k \in Rest(v, g), f \in Frames : f \in FrameAt(g, i) /\ f \in FrameAt(g, k) => i = k
    BY <1>4, <2>1 DEF FreesApart
  <2>3. FreesApart(v)'
    <3>1. \A h \in job'[v].files : h \in job[v].files /\ Rest(v, h)' = Rest(v, h)
      BY <1>7, <1>13
    <3> QED BY <1>4, <1>12, <2>1, <3>1 DEF FreesApart
  <2>4. FreesApart(w)'
    BY <1>8, <1>12, <1>13, <2>2 DEF FreesApart
  <2> QED BY <2>1, <2>3, <2>4
<1>16. ASSUME NEW x \in Workers, x # v, x # w
       PROVE  InHand(x)' = InHand(x) /\ (FreesApart(x)' <=> FreesApart(x)) /\ (Opening(x)' <=> Opening(x))
  BY <1>5, <1>6, <1>16, HandsHold
<1>17. Apart'
  <2>1. OneToOne(free)'
    BY <1>5 DEF Owned, Apart, OneToOne
  <2>2. ASSUME NEW f, NEW k, NEW x, At(f, k, x)', k # "hand" PROVE At(f, k, x)
    BY <1>5, <1>12, <2>2 DEF At, Elements
  <2>3. ASSUME NEW f, NEW x, At(f, "hand", x)', x # w PROVE At(f, "hand", x)
    <3>1. x \in Workers /\ f \in InHand(x)'
      BY <2>3 DEF At
    <3>2. f \in InHand(x)
      BY <1>14, <1>16, <2>3, <3>1
    <3> QED BY <3>1, <3>2 DEF At
  <2>4. ASSUME NEW f, At(f, "hand", w)' PROVE At(f, "hand", v) /\ ~At(f, "hand", v)'
    <3>1. f \in InHand(w)'
      BY <2>4 DEF At
    <3>2. PICK i \in 0 .. g.pages - 1 : f \in FrameAt(g, i)
      BY <1>14, <3>1
    <3>3. f \in InHand(v) /\ i \in Rest(v, g)
      BY <1>13, <1>14, <3>2
    <3>4. f \in Frames
      <4>1. IsFile(g) /\ mode \in {"SPA", "TPI"}
        BY <1>4 DEF FreeJob, Typed, MemoryTyped
      <4> QED BY <3>2, <4>1, FramesAre
    <3>5. ~\E h \in job[v].files \ {g} : \E k \in Rest(v, h) : f \in FrameAt(h, k)
      BY <1>4, <1>15, <3>2, <3>3, <3>4 DEF FreesApart
    <3> QED BY <1>14, <3>3, <3>5 DEF At
  <2>5. \A f, k, x : At(f, k, x)' =>
          \/ At(f, k, x)
          \/ k = "hand" /\ x = w /\ \E l, y : At(f, l, y) /\ ~At(f, l, y)'
    BY <2>2, <2>3, <2>4
  <2> QED BY <2>1, <2>5, Moves DEF Owned
<1>18. \A h : (Below(h)' <=> Below(h)) /\ (Older(h)' <=> Older(h))
  BY <1>5 DEF Below, Older
<1>19. ASSUME mode = "TPI" PROVE Paged' /\ \A x \in Workers : PagedJob(x)'
  <2>1. Paged'
    BY <1>5, <1>18, <1>19 DEF Owned, Paged
  <2>2. \A h \in job[v].files : Below(h) /\ Older(h)
    BY <1>4, <1>19 DEF Owned, PagedJob
  <2>3. ~Opening(v)' /\ ~Opening(w)'
    BY <1>7, <1>8 DEF Opening
  <2>4. PagedJob(v)' /\ PagedJob(w)'
    BY <1>7, <1>8, <1>18, <2>2, <2>3 DEF PagedJob
  <2>5. ASSUME NEW x \in Workers, x # v, x # w PROVE PagedJob(x)'
    <3>1. \A i : EntriesOf(job[x].dtb, job[x].first + i - 1)' = EntriesOf(job[x].dtb, job[x].first + i - 1)
      BY <1>5, <1>6, <2>5 DEF EntriesOf
    <3>2. PagedJob(x) /\ job'[x] = job[x] /\ next' = next /\ (x \in dangling' <=> x \in dangling)
      BY <1>5, <1>6, <1>19, <2>5 DEF Owned
    <3> QED BY <1>16, <1>18, <2>5, <3>1, <3>2 DEF PagedJob
  <2> QED BY <2>1, <2>4, <2>5
<1>20. Owned'
  BY <1>5, <1>15, <1>16, <1>17, <1>19 DEF Owned
<1>21. \A f, d : OwnLines(f, d) => OwnLines(f, d)'
  BY <1>5, OwnLinesStay
<1>22. FilesKept'
  BY <1>5, <1>12, <1>21 DEF Contents, FilesKept
<1>23. ASSUME NEW x \in Workers PROVE JobKept(x)'
  <2>1. CASE x = v \/ x = w
    BY <1>7, <1>8, <2>1, NothingKept
  <2>2. CASE x # v /\ x # w
    <3>1. JobKept(x) /\ job'[x] = job[x]
      BY <1>6, <2>2 DEF Contents
    <3>2. \A i \in 1 .. Written(x) :
              OwnLines(job[x].frames[i], job[x].dtb) => OwnLines(job[x].frames[i], job[x].dtb)'
      <4>1. PICK fs, d : fs = job[x].frames /\ d = job[x].dtb
        OBVIOUS
      <4>2. \A i : OwnLines(fs[i], d) => OwnLines(fs[i], d)'
        BY <1>21
      <4>3. job'[x].frames = fs /\ job'[x].dtb = d
        BY <3>1, <4>1
      <4> QED BY <4>1, <4>2, <4>3 DEF OwnLines
    <3>3. \A h \in files : h \in files' /\ FramesOf(h)' = FramesOf(h)
      BY <1>5, <1>12
    <3> QED BY <1>5, <3>1, <3>2, <3>3, JobKeeps
  <2> QED BY <2>1, <2>2
<1> QED BY <1>9, <1>10, <1>11, <1>20, <1>22, <1>23 DEF Contents

\* A page put in the table at a frame that was that of no other page that is looked for.
LEMMA PageMoves ==
  ASSUME ipt \in [Frames -> [dtb : Values, page : Nat]], NEW f \in Frames, NEW d \in DTBs, NEW p \in Nat,
         ipt' = [ipt EXCEPT ![f] = [dtb |-> d, page |-> p]], EntriesOf(d, p) = {}
  PROVE  /\ EntriesOf(d, p)' = {f}
         /\ \A e, q : ~(e = d /\ q = p) => EntriesOf(e, q)' = EntriesOf(e, q) \ {f}
         /\ \A e, q : ~(e = d /\ q = p) /\ ~IsFrameOfPage(f, e, q) =>
               \A x : IsFrameOfPage(x, e, q)' <=> IsFrameOfPage(x, e, q)
<1>1. ipt'[f] = [dtb |-> d, page |-> p] /\ \A x \in Frames : x # f => ipt'[x] = ipt[x]
  OBVIOUS
<1>2. EntriesOf(d, p)' = {f}
  BY <1>1 DEF EntriesOf
<1>3. ASSUME NEW e, NEW q, ~(e = d /\ q = p) PROVE EntriesOf(e, q)' = EntriesOf(e, q) \ {f}
  <2>1. [dtb |-> d, page |-> p] # [dtb |-> e, page |-> q]
    <3> SUFFICES ASSUME [dtb |-> d, page |-> p] = [dtb |-> e, page |-> q] PROVE FALSE
      OBVIOUS
    <3>1. [dtb |-> d, page |-> p].dtb = [dtb |-> e, page |-> q].dtb /\ [dtb |-> d, page |-> p].page = [dtb |-> e, page |-> q].page
      OBVIOUS
    <3> QED BY <1>3, <3>1
  <2>2. f \notin EntriesOf(e, q)'
    BY <1>1, <2>1 DEF EntriesOf
  <2> QED BY <1>1, <2>2 DEF EntriesOf
<1>4. ASSUME NEW e, NEW q, ~(e = d /\ q = p), ~IsFrameOfPage(f, e, q), NEW x
      PROVE  IsFrameOfPage(x, e, q)' <=> IsFrameOfPage(x, e, q)
  <2>1. EntriesOf(e, q) \subseteq Int /\ f \in Int
    BY DEF EntriesOf, Frames
  <2>2. PICK E : E = EntriesOf(e, q)
    OBVIOUS
  <2>3. IsFrameOfPage(x, e, q) <=> x \in E /\ \A h \in E : x <= h
    BY <2>2 DEF IsFrameOfPage
  <2>4. IsFrameOfPage(x, e, q)' <=> x \in E \ {f} /\ \A h \in E \ {f} : x <= h
    BY <1>3, <1>4, <2>2 DEF IsFrameOfPage
  <2>5. f \in E => \E h \in E : h < f
    BY <1>4, <2>1, <2>2 DEF IsFrameOfPage
  <2>6. x \in E /\ (\A h \in E : x <= h) => x # f
    BY <2>1, <2>2, <2>5
  <2>7. x \in E \ {f} /\ (\A h \in E \ {f} : x <= h) => \A h \in E : x <= h
    BY <2>1, <2>2, <2>5
  <2> QED BY <2>3, <2>4, <2>6, <2>7
<1> QED BY <1>2, <1>3, <1>4

\* updateIPTable gives a frame that is in hand the next page of the entry.
LEMMA MapsIs ==
  ASSUME Good, NEW w \in Workers, OpenMaps(w), PagesAreTold'
  PROVE  /\ mode = "TPI" /\ job[w].pc = "entry" /\ OpenJob(job[w]) /\ w \notin dangling /\ job[w].dtb \in known
         /\ job[w].at + 1 <= Len(job[w].frames)
         /\ ipt' = [ipt EXCEPT ![job[w].frames[job[w].at + 1]] = [dtb |-> job[w].dtb, page |-> next[job[w].dtb]]]
         /\ next' = [next EXCEPT ![job[w].dtb] = @ + 1]
         /\ UNCHANGED <<mode, free, known, files, storage, dangling, lost, removed, pending, killed, strays,
                        status, closes, opened>>
<1> USE DEF Good
<1>1. job[w].pc = "entry" /\ OpenJob(job[w])
  BY Kinds DEF OpenMaps, Active, Typed
<1>2. mode = "TPI"
  BY <1>1 DEF OpenJob
<1>3. UNCHANGED <<mode, free, known, files, storage, dangling, lost, removed, pending, killed, strays, status,
                  closes, opened>>
  BY DEF OpenMaps, clients
<1>4. again' = {}
  BY <1>2, <1>3 DEF PagesAreTold
<1>5. w \notin dangling
  BY <1>4 DEF OpenMaps
<1>6. /\ ipt' = [ipt EXCEPT ![job[w].frames[job[w].at + 1]] = [dtb |-> job[w].dtb, page |-> next[job[w].dtb]]]
      /\ next' = [next EXCEPT ![job[w].dtb] = @ + 1]
  BY <1>5 DEF OpenMaps, Numbered
<1>7. job[w].dtb \in known
  BY <1>1, <1>5 DEF Entries, WithEntry
<1>8. job[w].at + 1 <= Len(job[w].frames)
  BY <1>1, OpenFrames DEF Opening
<1> QED BY <1>1, <1>2, <1>3, <1>5, <1>6, <1>7, <1>8

\* The next page is put in the table: no page that anybody looks for is moved.
LEMMA GoodOpenMaps ==
  ASSUME Good, NEW w \in Workers, OpenMaps(w), PagesAreTold'
  PROVE  Good'
<1> USE DEF Good
<1>1. /\ mode = "TPI" /\ job[w].pc = "entry" /\ OpenJob(job[w]) /\ w \notin dangling /\ job[w].dtb \in known
      /\ job[w].at + 1 <= Len(job[w].frames)
      /\ ipt' = [ipt EXCEPT ![job[w].frames[job[w].at + 1]] = [dtb |-> job[w].dtb, page |-> next[job[w].dtb]]]
      /\ next' = [next EXCEPT ![job[w].dtb] = @ + 1]
  BY MapsIs
<1>2. UNCHANGED <<mode, free, known, files, storage, dangling, lost, removed, pending, killed, strays, status,
                  closes, opened>>
  BY MapsIs
<1>3. PICK d, fs, a, n, b : /\ d = job[w].dtb /\ fs = job[w].frames /\ a = job[w].at
                            /\ n = Len(fs) /\ b = job[w].first
  OBVIOUS
<1>4. /\ d \in DTBs /\ d \in known /\ fs \in Seq(Frames) /\ a \in Nat /\ n \in Nat /\ a + 1 <= n /\ b \in Nat
      /\ OneToOne(fs) /\ DOMAIN fs = 1 .. n
  BY <1>1, <1>3 DEF OpenJob
<1>5. PICK f, p : f = fs[a + 1] /\ p = next[d]
  OBVIOUS
<1>6. Opening(w)
  BY <1>1 DEF Opening
<1>7. /\ f \in Frames /\ f \in InHand(w) /\ \A i \in 1 .. n : fs[i] \in Frames /\ fs[i] \in InHand(w)
  BY <1>3, <1>4, <1>5, <1>6, OpenFrames
<1>8. p \in Nat /\ next \in [DTBs -> Nat] /\ ipt \in [Frames -> [dtb : Values, page : Nat]]
  BY <1>4, <1>5 DEF Typed, TablesTyped, MemoryTyped
<1>9. ipt' = [ipt EXCEPT ![f] = [dtb |-> d, page |-> p]] /\ next' = [next EXCEPT ![d] = p + 1]
  BY <1>1, <1>3, <1>5
<1>10. next' \in [DTBs -> Nat] /\ next'[d] = p + 1 /\ \A e \in DTBs : e # d => next'[e] = next[e]
  BY <1>4, <1>8, <1>9
<1>11. /\ ipt' \in [Frames -> [dtb : Values, page : Nat]] /\ ipt'[f] = [dtb |-> d, page |-> p]
       /\ \A x \in Frames : x # f => ipt'[x] = ipt[x]
  <2>1. PICK e : e = [dtb |-> d, page |-> p]
    OBVIOUS
  <2>2. e \in [dtb : Values, page : Nat]
    BY <1>4, <1>8, <2>1 DEF Values
  <2> QED BY <1>7, <1>8, <1>9, <2>1, <2>2
<1>12. PICK j : j = [job[w] EXCEPT !.at = @ + 1, !.pc = IF a + 1 = n THEN "file" ELSE "write"]
  OBVIOUS
<1>13. Goes(w, j)
  BY <1>3, <1>12 DEF OpenMaps
<1>14. /\ OpenJob(j) /\ j.dtb = d /\ j.frames = fs /\ j.first = b /\ j.at = a + 1 /\ j.pc \in {"file", "write"}
  <2>1. PICK pc, m : pc = (IF a + 1 = n THEN "file" ELSE "write") /\ m = a + 1
    OBVIOUS
  <2>2. pc \in {"write", "file"} /\ m \in Nat /\ m <= n /\ (pc = "file" <=> m = n)
    BY <1>4, <2>1
  <2>3. j = [job[w] EXCEPT !.at = m, !.pc = pc]
    BY <1>3, <1>12, <2>1
  <2>4. /\ j \in [pc : {"write", "entry", "file"}, dtb : DTBs, lines : Nat, frames : Seq(Frames),
                  at : Nat, first : Nat]
        /\ j.pc = pc /\ j.at = m /\ j.frames = fs /\ j.dtb = d /\ j.first = b
    <3>1. job[w] \in [pc : {"write", "entry", "file"}, dtb : DTBs, lines : Nat, frames : Seq(Frames),
                  at : Nat, first : Nat]
      BY <1>1 DEF OpenJob
    <3> QED BY <1>3, <2>2, <2>3, <3>1
  <2>5. OpenJob(j)
    BY <1>3, <1>4, <2>2, <2>4 DEF OpenJob
  <2> QED BY <2>1, <2>2, <2>4, <2>5
<1>15. pending' \subseteq DTBs
  BY <1>2 DEF Typed, ClientsTyped
<1>16. MemoryTyped'
  BY <1>2, <1>11 DEF Typed, MemoryTyped
<1>17. TablesTyped'
  <2>1. \A g : IsFile(g)' <=> IsFile(g)
    BY <1>2, KindsStay
  <2> QED BY <1>2, <1>10, <2>1 DEF Typed, TablesTyped, Numbering
<1>18. Typed'
  BY <1>2, <1>13, <1>14, <1>15, <1>16, <1>17, ClientStays, JobStays DEF Typed, IsJob
<1>19. OneRequest'
  BY <1>1, <1>2, <1>3, <1>13, <1>14, GoesOn
<1>20. Entries'
  <2>1. known' = known /\ dangling' = dangling
    BY <1>2
  <2> QED BY <1>1, <1>4, <1>13, <1>14, <2>1, EntriesStay
<1>21. job'[w] = j /\ \A v \in Workers : v # w => job'[v] = job[v]
  BY <1>13, JobBecomes DEF Typed
<1>22. Paged /\ \A v \in Workers : PagedJob(v)
  BY <1>1 DEF Owned
<1>23. EntriesOf(d, p) = {}
  <2>1. ASSUME NEW x \in Frames, ipt[x] = [dtb |-> d, page |-> p] PROVE FALSE
    <3>1. ipt[x].dtb = d /\ ipt[x].page = p
      BY <2>1
    <3>2. p < next[d]
      BY <1>4, <1>22, <3>1 DEF Paged
    <3> QED BY <1>5, <1>8, <3>2
  <2> QED BY <2>1 DEF EntriesOf
<1>24. /\ EntriesOf(d, p)' = {f}
       /\ \A e, q : ~(e = d /\ q = p) => EntriesOf(e, q)' = EntriesOf(e, q) \ {f}
       /\ \A e, q : ~(e = d /\ q = p) /\ ~IsFrameOfPage(f, e, q) =>
               \A x : IsFrameOfPage(x, e, q)' <=> IsFrameOfPage(x, e, q)
  BY <1>4, <1>7, <1>8, <1>9, <1>23, PageMoves
\* The pages of the files, and those that are to be freed, stay where they are.
<1>25. ASSUME NEW g, g.number \in Nat, g.pages \in Nat, Below(g),
              NEW i \in 0 .. g.pages - 1, f \notin FrameAt(g, i)
       PROVE  FrameAt(g, i)' = FrameAt(g, i)
  <2>1. FrameAt(g, i) = {x \in Frames : IsFrameOfPage(x, g.dtb, g.number + i)}
    BY <1>1 DEF FrameAt
  <2>2. FrameAt(g, i)' = {x \in Frames : IsFrameOfPage(x, g.dtb, g.number + i)'}
    BY <1>1, <1>2 DEF FrameAt
  <2>3. ~IsFrameOfPage(f, g.dtb, g.number + i)
    BY <1>7, <1>25, <2>1
  <2>4. ~(g.dtb = d /\ g.number + i = p)
    <3>1. g.dtb = d => g.number + g.pages <= p
      BY <1>4, <1>5, <1>25 DEF Below
    <3> QED BY <1>8, <1>25, <3>1
  <2>5. \A x : IsFrameOfPage(x, g.dtb, g.number + i)' <=> IsFrameOfPage(x, g.dtb, g.number + i)
    BY <1>24, <2>3, <2>4
  <2> QED BY <2>1, <2>2, <2>5
<1>26. ASSUME NEW g \in files PROVE FramesOf(g)' = FramesOf(g)
  <2>1. IsFile(g) /\ g.number \in Nat /\ g.pages \in Nat /\ Below(g)
    BY <1>22 DEF Typed, TablesTyped, IsFile, FileRec, Paged
  <2>2. f \notin FramesOf(g)
    BY <1>7, FileApart DEF Owned
  <2>3. \A i \in 0 .. g.pages - 1 : FrameAt(g, i)' = FrameAt(g, i)
    BY <1>1, <1>25, <2>1, <2>2, FramesAre
  <2>4. FramesOf(g) = UNION {FrameAt(g, i) : i \in 0 .. g.pages - 1}
    BY <1>1 DEF FramesOf
  <2>5. FramesOf(g)' = UNION {FrameAt(g, i)' : i \in 0 .. g.pages - 1}
    BY <1>1, <1>2 DEF FramesOf
  <2> QED BY <2>3, <2>4, <2>5
<1>27. ASSUME NEW v \in Workers, v # w, job[v].pc = "free", NEW g \in job[v].files, NEW i \in Rest(v, g)
       PROVE  FrameAt(g, i)' = FrameAt(g, i)
  <2>1. FreeJob(job[v])
    BY <1>27, Kinds DEF Typed
  <2>2. IsFile(g) /\ g.number \in Nat /\ g.pages \in Nat /\ job[v].at \in Nat
    BY <2>1 DEF FreeJob, IsFile, FileRec
  <2>3. Below(g)
    BY <1>22, <1>27 DEF PagedJob
  <2>4. i \in 0 .. g.pages - 1
    BY <2>2 DEF Rest
  <2>5. f \notin InHand(v)
    BY <1>7, <1>27, FileApart DEF Owned
  <2>6. f \notin FrameAt(g, i)
    BY <1>27, <2>5, HandIs
  <2> QED BY <1>25, <2>2, <2>3, <2>4, <2>6
<1>28. ASSUME NEW v \in Workers, v # w PROVE InHand(v)' = InHand(v) /\ FreesApart(v)'
  <2>1. job'[v] = job[v] /\ (Opening(v)' <=> Opening(v)) /\ \A g : Rest(v, g)' = Rest(v, g)
    BY <1>21, <1>28 DEF Opening, Rest
  <2>2. FreesApart(v)
    BY DEF Owned
  <2>3. FreesApart(v)'
    <3>1. ASSUME job[v].pc = "free", NEW g \in job[v].files, NEW h \in job[v].files, NEW i \in Rest(v, g),
                 NEW k \in Rest(v, h), NEW x \in Frames, x \in FrameAt(g, i)', x \in FrameAt(h, k)'
          PROVE  g = h /\ i = k
      <4>1. x \in FrameAt(g, i) /\ x \in FrameAt(h, k)
        BY <1>27, <1>28, <3>1
      <4> QED BY <2>2, <3>1, <4>1 DEF FreesApart
    <3> QED BY <2>1, <3>1 DEF FreesApart
  <2>4. CASE Opening(v)
    BY <2>1, <2>3, <2>4 DEF InHand, Elements
  <2>5. CASE ~Opening(v) /\ job[v].pc # "free"
    BY <2>1, <2>3, <2>5 DEF InHand
  <2>6. CASE ~Opening(v) /\ job[v].pc = "free"
    <3>1. InHand(v) = UNION {UNION {FrameAt(g, i) : i \in Rest(v, g)} : g \in job[v].files}
      BY <2>6 DEF InHand
    <3>2. InHand(v)' = UNION {UNION {FrameAt(g, i)' : i \in Rest(v, g)'} : g \in job'[v].files}
      BY <2>1, <2>6 DEF InHand
    <3>3. \A g \in job[v].files :
            UNION {FrameAt(g, i)' : i \in Rest(v, g)'} = UNION {FrameAt(g, i) : i \in Rest(v, g)}
      <4>1. ASSUME NEW g \in job[v].files
            PROVE  UNION {FrameAt(g, i)' : i \in Rest(v, g)'} = UNION {FrameAt(g, i) : i \in Rest(v, g)}
        <5>1. Rest(v, g)' = Rest(v, g) /\ \A i \in Rest(v, g) : FrameAt(g, i)' = FrameAt(g, i)
          BY <1>27, <1>28, <2>1, <2>6
        <5> QED BY <5>1
      <4> QED BY <4>1
    <3> DEFINE Old(g) == UNION {FrameAt(g, i) : i \in Rest(v, g)}
    <3> DEFINE New(g) == UNION {FrameAt(g, i)' : i \in Rest(v, g)'}
    <3>4. InHand(v) = UNION {Old(g) : g \in job[v].files} /\ InHand(v)' = UNION {New(g) : g \in job[v].files}
      BY <2>1, <3>1, <3>2
    <3>5. \A g \in job[v].files : New(g) = Old(g)
      BY <3>3
    <3> HIDE DEF Old, New
    <3>6. InHand(v)' = InHand(v)
      BY <3>4, <3>5
    <3> QED BY <2>3, <3>6
  <2> QED BY <2>3, <2>4, <2>5, <2>6
<1>29. Opening(w)' /\ InHand(w)' = InHand(w) /\ FreesApart(w)'
  <2>1. Opening(w)' /\ job'[w].pc # "free"
    BY <1>14, <1>21 DEF Opening
  <2> QED BY <1>3, <1>6, <1>14, <1>21, <2>1 DEF InHand, Elements, FreesApart
<1>30. Apart'
  <2>1. OneToOne(free)'
    BY <1>2 DEF Owned, Apart, OneToOne
  <2>2. \A v \in Workers : InHand(v)' = InHand(v)
    BY <1>28, <1>29
  <2>3. \A x, k, y : At(x, k, y)' => At(x, k, y)
    BY <1>2, <1>26, <2>2 DEF At, Elements
  <2> QED BY <2>1, <2>3, Moves DEF Owned
<1>31. \A g : Below(g) /\ g.number \in Nat /\ g.pages \in Nat => Below(g)'
  <2>1. \A e \in DTBs : next[e] \in Nat /\ next'[e] \in Nat /\ next[e] <= next'[e]
    BY <1>4, <1>5, <1>8, <1>10
  <2>2. ASSUME NEW g, Below(g), g.number \in Nat, g.pages \in Nat, g.dtb \in known
        PROVE  g.number + g.pages <= next'[g.dtb]
    <3>1. g.dtb \in DTBs /\ g.number + g.pages <= next[g.dtb]
      BY <2>2 DEF Below, Typed, TablesTyped
    <3>2. PICK m : m = g.number + g.pages
      OBVIOUS
    <3>3. m \in Nat
      BY <2>2, <3>2
    <3> QED BY <2>1, <3>1, <3>2, <3>3
  <2> QED BY <1>2, <2>2 DEF Below
<1>32. Paged'
  <2>1. known' \cap removed' = {}
    BY <1>2, <1>22 DEF Paged
  <2>2. ASSUME NEW x \in Frames, ipt'[x].dtb \in DTBs PROVE ipt'[x].dtb \in known' \cup removed'
    BY <1>2, <1>4, <1>11, <1>22, <2>2 DEF Paged
  <2>3. ASSUME NEW x \in Frames, ipt'[x].dtb \in known' PROVE ipt'[x].page < next'[ipt'[x].dtb]
    <3>1. CASE x = f
      BY <1>8, <1>10, <1>11, <3>1
    <3>2. CASE x # f
      <4>1. ipt'[x] = ipt[x] /\ ipt[x].dtb \in known /\ ipt[x].page \in Nat
        BY <1>2, <1>8, <1>11, <2>3, <3>2
      <4>2. ipt[x].page < next[ipt[x].dtb] /\ ipt[x].dtb \in DTBs
        BY <1>22, <4>1 DEF Paged, Typed, TablesTyped
      <4>3. next'[ipt[x].dtb] \in Nat /\ next[ipt[x].dtb] <= next'[ipt[x].dtb]
        BY <1>5, <1>8, <1>10, <4>2
      <4>4. next[ipt[x].dtb] \in Nat
        BY <1>8, <4>2
      <4> QED BY <4>1, <4>2, <4>3, <4>4
    <3> QED BY <3>1, <3>2
  <2>4. ASSUME NEW g \in files PROVE Below(g)'
    BY <1>22, <1>31 DEF Paged, Typed, TablesTyped, IsFile, FileRec
  <2> QED BY <1>2, <2>1, <2>2, <2>3, <2>4 DEF Paged
<1>33. ASSUME NEW v \in Workers, v # w PROVE PagedJob(v)'
  <2>1. job'[v] = job[v] /\ PagedJob(v) /\ (Opening(v)' <=> Opening(v))
    BY <1>21, <1>22, <1>33 DEF Opening
  <2>2. ASSUME job[v].pc = "free", NEW g \in job[v].files PROVE Below(g)' /\ Older(g)'
    <3>1. Below(g) /\ Older(g)
      BY <2>1, <2>2 DEF PagedJob
    <3>2. FreeJob(job[v])
      BY <2>2, Kinds DEF Typed
    <3>3. g.number \in Nat /\ g.pages \in Nat
      BY <3>2 DEF FreeJob, FileRec
    <3> QED BY <1>2, <1>31, <3>1, <3>3 DEF Older
  <2>3. ASSUME v \notin dangling, Opening(v)
        PROVE  /\ next'[job[v].dtb] = job[v].first + job[v].at
               /\ \A i \in 1 .. job[v].at : EntriesOf(job[v].dtb, job[v].first + i - 1)' = {job[v].frames[i]}
    <3>1. OpenJob(job[v]) /\ job[v].dtb \in DTBs /\ job[v].at <= Len(job[v].frames) /\ job[v].at \in Nat
      BY <2>3, Kinds DEF OpenJob, Opening, Typed
    <3>2. job[v].dtb # d
      <4> SUFFICES ASSUME job[v].dtb = d PROVE FALSE
        OBVIOUS
      <4>1. Serves(v, d) /\ Serves(w, d)
        BY <1>1, <1>3, <2>3 DEF Serves, Opening
      <4> QED BY <1>4, <1>33, <4>1 DEF OneRequest, One
    <3>3. next[job[v].dtb] = job[v].first + job[v].at
      BY <2>1, <2>3 DEF PagedJob
    <3>4. next'[job[v].dtb] = next[job[v].dtb]
      BY <1>10, <3>1, <3>2
    <3>5. ASSUME NEW i \in 1 .. job[v].at
          PROVE  EntriesOf(job[v].dtb, job[v].first + i - 1)' = {job[v].frames[i]}
      <4>1. PICK e, q, x : e = job[v].dtb /\ q = job[v].first + i - 1 /\ x = job[v].frames[i]
        OBVIOUS
      <4>2. EntriesOf(e, q) = {x}
        BY <2>1, <2>3, <4>1 DEF PagedJob
      <4>3. Len(job[v].frames) \in Nat
        BY <3>1 DEF OpenJob
      <4>4. i \in 1 .. Len(job[v].frames)
        BY <3>1, <4>3
      <4>5. x \in InHand(v)
        BY <2>3, <4>1, <4>4, OpenFrames
      <4>6. x # f
        BY <1>7, <1>33, <4>5, FileApart DEF Owned
      <4>7. EntriesOf(e, q)' = {x}
        BY <1>24, <3>2, <4>1, <4>2, <4>6
      <4>8. job'[v].dtb = e /\ job'[v].first + i - 1 = q
        BY <2>1, <4>1
      <4> QED BY <4>1, <4>7, <4>8 DEF EntriesOf
    <3> QED BY <3>3, <3>4, <3>5
  <2> QED BY <1>2, <2>1, <2>2, <2>3 DEF PagedJob
<1>34. PagedJob(w)'
  <2>1. next[d] = b + a /\ \A i \in 1 .. a : EntriesOf(d, b + i - 1) = {fs[i]}
    BY <1>1, <1>3, <1>6, <1>22 DEF PagedJob
  <2>2. next'[d] = b + (a + 1)
    BY <1>4, <1>5, <1>10, <2>1
  <2>3. ASSUME NEW i \in 1 .. a + 1 PROVE EntriesOf(d, b + i - 1)' = {fs[i]}
    <3>1. CASE i = a + 1
      <4>1. b + i - 1 = p /\ fs[i] = f
        BY <1>4, <1>5, <2>1, <3>1
      <4> QED BY <1>24, <4>1
    <3>2. CASE i # a + 1
      <4>1. i \in 1 .. a /\ b + i - 1 # p
        BY <1>4, <1>5, <2>1, <3>2
      <4>2. i \in DOMAIN fs /\ a + 1 \in DOMAIN fs
        BY <1>4, <4>1
      <4>3. fs[i] # f
        BY <1>4, <1>5, <3>2, <4>2 DEF OneToOne
      <4> QED BY <1>24, <2>1, <4>1, <4>3
    <3> QED BY <3>1, <3>2
  <2>4. job'[w].dtb = d /\ job'[w].frames = fs /\ job'[w].first = b /\ job'[w].at = a + 1 /\ job'[w].pc # "free"
    BY <1>14, <1>21
  <2>5. \A i \in 1 .. job'[w].at : EntriesOf(job[w].dtb, job[w].first + i - 1)' = {job'[w].frames[i]}
    BY <2>3, <2>4 DEF EntriesOf
  <2> QED BY <2>2, <2>4, <2>5 DEF PagedJob
<1>35. Owned'
  BY <1>28, <1>29, <1>30, <1>32, <1>33, <1>34 DEF Owned
<1>36. \A h, e : OwnLines(h, e) => OwnLines(h, e)'
  BY <1>2, OwnLinesStay
<1>37. FilesKept'
  BY <1>2, <1>26, <1>36 DEF Contents, FilesKept
<1>38. ASSUME NEW v \in Workers, v # w PROVE JobKept(v)'
  <2>1. job'[v] = job[v] /\ JobKept(v)
    BY <1>21, <1>38 DEF Contents
  <2>2. \A i \in 1 .. Written(v) :
            OwnLines(job[v].frames[i], job[v].dtb) => OwnLines(job[v].frames[i], job[v].dtb)'
    <3>1. PICK gs, e : gs = job[v].frames /\ e = job[v].dtb
      OBVIOUS
    <3>2. \A i : OwnLines(gs[i], e) => OwnLines(gs[i], e)'
      BY <1>36
    <3>3. job'[v].frames = gs /\ job'[v].dtb = e
      BY <2>1, <3>1
    <3> QED BY <3>1, <3>2, <3>3 DEF OwnLines
  <2>3. \A g \in files : g \in files' /\ FramesOf(g)' = FramesOf(g)
    BY <1>2, <1>26
  <2> QED BY <1>2, <2>1, <2>2, <2>3, JobKeeps
<1>39. JobKept(w)'
  <2>1. JobKept(w) /\ Written(w) = a + 1 /\ Written(w)' = a + 1
    BY <1>1, <1>3, <1>14, <1>21 DEF Contents, Written
  <2>2. \A i \in 1 .. a + 1 : OwnLines(fs[i], d)
    BY <1>3, <1>6, <2>1 DEF JobKept, OpenKept
  <2>3. \A i \in 1 .. a + 1 : OwnLines(fs[i], d)'
    BY <1>36, <2>2
  <2>4. OpenKept(w)'
    BY <1>14, <1>21, <2>1, <2>3 DEF OpenKept, OwnLines
  <2> QED BY <1>14, <1>21, <2>4 DEF JobKept, LineKept, ReadKept, GotKept
<1>40. Contents'
  BY <1>37, <1>38, <1>39 DEF Contents
<1> QED BY <1>18, <1>19, <1>20, <1>35, <1>40

\* The file that is filed: its frames are those that the worker had in hand.
LEMMA FileIs ==
  ASSUME Good, NEW w \in Workers, job[w].pc = "file", w \notin dangling, NEW new, new = File(w)
  PROVE  /\ new \in FileRec /\ IsFile(new) /\ new.dtb = job[w].dtb /\ new.dtb \in DTBs /\ new.dtb \in known
         /\ FramesOf(new) \subseteq InHand(w)
         /\ \A f \in FramesOf(new) : OwnLines(f, new.dtb)
         /\ mode = "TPI" => new.number + new.pages <= next[new.dtb]
<1> USE DEF Good
<1>1. OpenJob(job[w]) /\ Opening(w)
  BY Kinds DEF Typed, Opening
<1>2. PICK d, fs, n, b, a : /\ d = job[w].dtb /\ fs = job[w].frames
                            /\ n = Len(fs) /\ b = job[w].first /\ a = job[w].at
  OBVIOUS
<1>3. /\ d \in DTBs /\ fs \in Seq(Frames) /\ n \in Nat /\ b \in Nat /\ a = n /\ job[w].lines \in Nat
      /\ OneToOne(fs) /\ DOMAIN fs = 1 .. n
  BY <1>1, <1>2 DEF OpenJob
<1>4. d \in known /\ next[d] \in Nat /\ mode \in {"SPA", "TPI"}
  BY <1>2, <1>3 DEF Entries, WithEntry, Typed, TablesTyped, MemoryTyped
<1>5. PICK k, gs : k = (IF mode = "SPA" THEN next[d] ELSE b) /\ gs = (IF mode = "SPA" THEN fs ELSE <<>>)
  OBVIOUS
<1>6. k \in Nat /\ gs \in Seq(Frames)
  BY <1>3, <1>4, <1>5
<1>7. new = [dtb |-> d, lines |-> job[w].lines, pages |-> n, number |-> k, frames |-> gs]
  BY <1>2, <1>5 DEF File
<1>8. new \in FileRec /\ new.dtb = d /\ new.pages = n /\ new.number = k /\ new.frames = gs
  BY <1>3, <1>6, <1>7 DEF FileRec
<1>9. IsFile(new)
  BY <1>2, <1>3, <1>5, <1>8 DEF IsFile
<1>10. Elements(fs) = InHand(w) /\ \A i \in 1 .. n : fs[i] \in InHand(w)
  BY <1>1, <1>2, <1>3, HandIs DEF Elements
<1>11. mode = "TPI" => next[d] = b + n /\ \A i \in 1 .. n : EntriesOf(d, b + i - 1) = {fs[i]}
  BY <1>1, <1>2, <1>3 DEF Owned, PagedJob
<1>12. ASSUME NEW f \in FramesOf(new) PROVE \E i \in 1 .. n : f = fs[i]
  <2>1. CASE mode = "SPA"
    BY <1>3, <1>5, <1>8, <1>12, <2>1 DEF FramesOf, Elements
  <2>2. CASE mode = "TPI"
    <3>1. PICK m \in 0 .. n - 1 : f \in FrameAt(new, m)
      BY <1>4, <1>8, <1>9, <1>12, FramesAre
    <3>2. f \in EntriesOf(d, b + m)
      BY <1>5, <1>8, <2>2, <3>1 DEF FrameAt, IsFrameOfPage
    <3>3. m + 1 \in 1 .. n /\ b + (m + 1) - 1 = b + m
      BY <1>3
    <3>4. EntriesOf(d, b + m) = {fs[m + 1]}
      BY <1>11, <2>2, <3>3
    <3> QED BY <3>2, <3>3, <3>4
  <2> QED BY <1>4, <2>1, <2>2
<1>13. \A i \in 1 .. n : OwnLines(fs[i], d)
  <2>1. OpenKept(w) /\ Written(w) = n
    BY <1>2, <1>3 DEF Contents, JobKept, Written
  <2> QED BY <1>1, <1>2, <2>1 DEF OpenKept
<1>14. mode = "TPI" => new.number + new.pages <= next[new.dtb]
  BY <1>3, <1>5, <1>8, <1>11
<1> QED BY <1>2, <1>3, <1>4, <1>8, <1>9, <1>10, <1>12, <1>13, <1>14

\* The file is filed with the frames that the worker had in hand.
LEMMA GoodOpenFiles == ASSUME Good, NEW w \in Workers, OpenFiles(w) PROVE Good'
<1> USE DEF Good
<1>1. job[w].pc = "file" /\ w \notin dangling /\ Opening(w) /\ OpenJob(job[w])
  BY Kinds DEF OpenFiles, Active, Typed, Opening
<1>2. PICK d, new : d = job[w].dtb /\ new = File(w)
  OBVIOUS
<1>3. /\ new \in FileRec /\ IsFile(new) /\ new.dtb = d /\ d \in DTBs /\ d \in known
      /\ FramesOf(new) \subseteq InHand(w) /\ \A f \in FramesOf(new) : OwnLines(f, d)
      /\ mode = "TPI" => new.number + new.pages <= next[d]
  BY <1>1, <1>2, FileIs
<1>4. new.number \in Nat
  BY <1>3 DEF FileRec
<1>5. /\ files' = {g \in files : g.dtb # d \/ g.number # new.number} \cup {new}
      /\ next' = IF mode = "SPA" THEN [next EXCEPT ![d] = @ + 1] ELSE next
      /\ opened' = [opened EXCEPT ![d] = IF status[d] = "ended" THEN {} ELSE @ \cup {new.number}]
      /\ Returns(d) /\ Goes(w, Idle)
  BY <1>2 DEF OpenFiles
<1>6. UNCHANGED <<mode, free, ipt, known, storage, dangling, lost, removed, pending, killed, strays>>
  BY DEF OpenFiles, faults
<1>7. Idle.pc = "idle"
  BY DEF Idle
<1>8. pending' \subseteq DTBs
  BY <1>6 DEF Typed, ClientsTyped
<1>9. ClientsTyped'
  <2>1. PICK S : S = (IF status[d] = "ended" THEN {} ELSE opened[d] \cup {new.number})
    OBVIOUS
  <2>2. S \in SUBSET Nat
    BY <1>3, <1>4, <2>1 DEF Typed, ClientsTyped
  <2>3. opened' = [opened EXCEPT ![d] = S]
    BY <1>5, <2>1
  <2> QED BY <1>3, <1>5, <1>8, <2>2, <2>3, ClientStays DEF Typed
<1>10. TablesTyped'
  <2>1. next' \in [DTBs -> Nat]
    BY <1>3, <1>5 DEF Typed, TablesTyped
  <2>2. \A g \in files' : IsFile(g)' /\ g.dtb \in known'
    BY <1>3, <1>5, <1>6, KindsStay DEF Typed, TablesTyped
  <2>3. Numbering(files')
    BY <1>3, <1>5 DEF Typed, TablesTyped, Numbering
  <2> QED BY <1>6, <2>1, <2>2, <2>3 DEF Typed, TablesTyped, Numbering
<1>11. Typed'
  BY <1>5, <1>6, <1>9, <1>10, TypesStay, JobStays DEF Typed, IsJob
<1>12. Serves(w, d)
  BY <1>1, <1>2 DEF Serves
<1>13. OneRequest'
  BY <1>3, <1>5, <1>6, <1>12, Replies
<1>14. Entries'
  BY <1>1, <1>5, <1>6, <1>7, EntriesStay
<1>15. job'[w] = Idle /\ JobsTyped
  BY <1>5, JobBecomes DEF Typed
<1>16. InHand(w)' = {} /\ FreesApart(w)' /\ PagedJob(w)'
  <2>1. ~Opening(w)' /\ job'[w].pc # "free"
    BY <1>7, <1>15 DEF Opening
  <2> QED BY <2>1 DEF InHand, FreesApart, PagedJob
<1>17. Apart'
  <2>1. OneToOne(free)'
    BY <1>6 DEF Owned, Apart, OneToOne
  <2>2. \A f, x : At(f, "hand", x)' => At(f, "hand", x)
    <3>1. \A f : ~At(f, "hand", w)'
      BY <1>16 DEF At
    <3> QED BY <1>5, <1>6, <1>15, <3>1, PlacesHold
  <2>3. \A f, x : At(f, "file", x)' =>
            At(f, "file", x) \/ (x = new /\ \E l, y : At(f, l, y) /\ ~At(f, l, y)')
    <3>1. ASSUME NEW f, NEW x, At(f, "file", x)', x # new PROVE At(f, "file", x)
      BY <1>5, <1>6, <3>1, FramesHold DEF At
    <3>2. ASSUME NEW f, At(f, "file", new)' PROVE At(f, "hand", w) /\ ~At(f, "hand", w)'
      <4>1. f \in FramesOf(new)
        BY <1>6, <3>2, FramesHold DEF At
      <4> QED BY <1>3, <1>16, <4>1 DEF At
    <3> QED BY <3>1, <3>2
  <2>4. \A f, k, x : At(f, k, x)' =>
            \/ At(f, k, x)
            \/ k = "file" /\ x = new /\ \E l, y : At(f, l, y) /\ ~At(f, l, y)'
    <3>1. \A f, k, x : At(f, k, x)' => k \in {"free", "lost", "file", "hand"}
      BY DEF At
    <3>2. \A f, x : At(f, "free", x)' => At(f, "free", x)
      BY <1>5, <1>6, <1>15, PlacesHold
    <3>3. \A f, x : At(f, "lost", x)' => At(f, "lost", x)
      BY <1>5, <1>6, <1>15, PlacesHold
    <3> QED BY <2>2, <2>3, <3>1, <3>2, <3>3
  <2> QED BY <2>1, <2>4, Moves DEF Owned
<1>18. /\ \A v \in Workers : v # w => FreesApart(v)'
       /\ mode = "TPI" => Paged' /\ \A v \in Workers : v # w => PagedJob(v)'
  <2>1. ASSUME mode = "TPI" PROVE next' = next /\ \A g \in files' : g \in files \/ Below(g)'
    <3>1. next' = next
      BY <1>5, <2>1
    <3>2. Below(new)'
      BY <1>3, <2>1, <3>1 DEF Below
    <3> QED BY <1>5, <3>1, <3>2
  <2> QED BY <1>5, <1>6, <2>1, OthersOwn
<1>19. Owned'
  <2>1. mode' = mode
    BY <1>6
  <2> QED BY <1>16, <1>17, <1>18, <2>1 DEF Owned
<1>20. JobKept(w)'
  BY <1>7, <1>15, NothingKept
<1>21. \A g \in files' : g \in files \/ \A f \in FramesOf(g) : OwnLines(f, g.dtb)
  BY <1>3, <1>5
<1>22. ASSUME NEW v \in Workers, v # w, job[v].pc \in {"assign", "ask", "read"},
              NEW g \in files, g.dtb = job[v].dtb
       PROVE  g \in files'
  <2>1. Serves(v, job[v].dtb) /\ job[v].dtb \in DTBs
    BY <1>22, Kinds DEF Serves, Typed
  <2>2. job[v].dtb # d
    BY <1>3, <1>12, <1>22, <2>1 DEF OneRequest, One
  <2> QED BY <1>5, <1>22, <2>2
<1>23. Contents'
  BY <1>5, <1>6, <1>20, <1>21, <1>22, ContentsStay DEF Typed
<1> QED BY <1>11, <1>13, <1>14, <1>19, <1>23

\* At the start every frame is free and no line was written.
LEMMA GoodInit == ASSUME Init PROVE Good
<1>1. NFrames \in Nat /\ FrameLines \in Nat
  BY BoundsAssumption
<1>2. /\ mode \in {"SPA", "TPI"} /\ free = [i \in 1 .. NFrames |-> i - 1] /\ ipt = [f \in Frames |-> NoPage]
      /\ known = {} /\ next = [d \in DTBs |-> 0] /\ files = {} /\ storage = [x \in Lines |-> Nobody]
      /\ job = [w \in Workers |-> Idle] /\ dangling = {} /\ lost = {} /\ removed = {}
      /\ status = [d \in DTBs |-> "new"] /\ pending = {}
      /\ closes = [d \in DTBs |-> 0] /\ opened = [d \in DTBs |-> {}]
  BY DEF Init, Lines
<1>3. \A i \in 1 .. NFrames : i - 1 \in Frames
  BY <1>1 DEF Frames
<1>4. free \in Seq(Frames) /\ OneToOne(free)
  <2>1. free \in [1 .. NFrames -> Frames]
    BY <1>2, <1>3
  <2>2. free \in Seq(Frames)
    BY <1>1, <2>1
  <2>3. DOMAIN free = 1 .. NFrames /\ \A i \in 1 .. NFrames : free[i] = i - 1
    BY <1>2
  <2> QED BY <1>1, <2>2, <2>3 DEF OneToOne
<1>5. \A f \in Frames : ipt[f] = NoPage
  BY <1>2
<1>6. MemoryTyped
  <2>1. NoPage \in [dtb : Values, page : Nat]
    BY DEF NoPage, Values
  <2>2. Nobody \in Values
    BY DEF Values
  <2> QED BY <1>2, <1>4, <2>1, <2>2 DEF MemoryTyped
<1>7. TablesTyped
  BY <1>2 DEF TablesTyped, Numbering
<1>8. Idle.pc = "idle" /\ \A w \in Workers : job[w] = Idle
  BY <1>2 DEF Idle
<1>9. JobsTyped
  <2>1. job = [w \in Workers |-> job[w]]
    BY <1>2
  <2> QED BY <1>8, <2>1 DEF JobsTyped, IsJob
<1>10. ClientsTyped
  BY <1>2 DEF ClientsTyped
<1>11. \A w \in Workers : \A d : ~Serves(w, d)
  BY <1>8 DEF Serves
<1>12. OneRequest
  <2>1. \A d \in DTBs : status[d] = "new" /\ closes[d] = 0 /\ ~Asked(d)
    BY <1>2, <1>11 DEF Asked, Served
  <2>2. ASSUME NEW d \in DTBs PROVE One(d)
    <3>1. ~Asked(d) /\ ~Served(d) /\ ~(closes[d] > 0)
      BY <2>1 DEF Asked
    <3>2. \A v, w \in Workers : Serves(v, d) /\ Serves(w, d) => v = w
      BY <1>11
    <3>3. d \notin pending
      BY <1>2
    <3> QED BY <3>1, <3>2, <3>3 DEF One
  <2> QED BY <2>2 DEF OneRequest
<1>13. Entries
  BY <1>2, <1>8 DEF Entries, WithEntry
<1>14. \A w \in Workers : ~Opening(w) /\ InHand(w) = {} /\ FreesApart(w) /\ PagedJob(w) /\ JobKept(w)
  <2>1. \A w \in Workers : ~Opening(w)
    BY <1>8 DEF Opening
  <2>2. \A w \in Workers : InHand(w) = {}
    BY <1>8, <2>1, HandIs
  <2> QED BY <1>8, <2>1, <2>2 DEF FreesApart, PagedJob, JobKept, OpenKept, LineKept, ReadKept, GotKept
<1>15. Apart
  BY <1>2, <1>4, <1>14 DEF Apart, At
<1>16. Paged
  <2>1. NoPage.dtb \notin DTBs
    BY BoundsAssumption DEF NoPage
  <2> QED BY <1>2, <1>5, <2>1 DEF Paged
<1>17. Owned
  BY <1>14, <1>15, <1>16 DEF Owned
<1>18. Contents
  BY <1>2, <1>14 DEF Contents, FilesKept
<1> QED BY <1>6, <1>7, <1>9, <1>10, <1>12, <1>13, <1>17, <1>18 DEF Good, Typed

\* A step that changes nothing.
LEMMA GoodStutter == ASSUME Good, UNCHANGED vars PROVE Good'
<1> USE DEF Good
<1>1. UNCHANGED <<mode, free, ipt, known, next, files, storage, job, dangling, lost, removed>>
  BY DEF vars, memory, tables, faults
<1>2. UNCHANGED <<status, pending, killed, closes, opened, strays>>
  BY DEF vars, clients
<1>3. pending' \subseteq DTBs
  BY <1>2 DEF Typed, ClientsTyped
<1>4. Typed'
  BY <1>1, <1>2, <1>3, ClientStays, TypesStay DEF Typed
<1>5. \A v, e : Serves(v, e)' <=> Serves(v, e)
  BY <1>1 DEF Serves
<1>6. OneRequest'
  BY <1>2, <1>5 DEF OneRequest, One, Asked, Served
<1>7. Entries'
  BY <1>1 DEF Entries, WithEntry
<1>8. Owned' /\ Contents'
  BY <1>1, <1>2, StillStep DEF memory, tables
<1> QED BY <1>4, <1>6, <1>7, <1>8

\* Once FM9 has fallen it stays so, and what was numbered again remains so.
LEMMA StaysTold == ASSUME [Next]_vars, PagesAreTold' PROVE PagesAreTold
<1>1. CASE UNCHANGED vars
  BY <1>1 DEF vars, memory, faults, PagesAreTold
<1>2. CASE Next
  <2>1. ASSUME ~crashed, mode' = mode, again \subseteq again' PROVE PagesAreTold
    BY <2>1 DEF PagesAreTold
  <2>2. ASSUME NEW d \in DTBs, AskDAM(d) \/ CPU_EndDTB(d) \/ CommandFinalizar(d) \/ EndKilled(d)
        PROVE  PagesAreTold
    BY <2>1, <2>2 DEF AskDAM, CPU_EndDTB, CommandFinalizar, EndKilled, memory, faults
  <2>3. ASSUME NEW w \in Workers, NEW d \in DTBs, Opens(w, d) \/ CloseDTBRemoves(w, d)
        PROVE  PagesAreTold
    BY <2>1, <2>3 DEF Opens, OpenFinds, CloseDTBRemoves, Active
  <2>4. ASSUME NEW w \in Workers, NEW d \in DTBs, NEW k \in opened[d],
               CloseFinds(w, d, k) \/ FlushFinds(w, d, k)
        PROVE  PagesAreTold
    BY <2>1, <2>4 DEF CloseFinds, FlushFinds, Active, memory, faults
  <2>5. ASSUME NEW w \in Workers, NEW d, NEW k, NEW o, NEW pc, LineFinds(w, d, k, o, pc)
        PROVE  PagesAreTold
    BY <2>1, <2>5 DEF LineFinds, Active, memory, faults
  <2>6. ASSUME NEW w \in Workers,
               OpenChecks(w) \/ OpenTakes(w) \/ OpenWrites(w) \/ OpenFiles(w) \/ OpenFilesNowhere(w)
        PROVE  PagesAreTold
    BY <2>1, <2>6 DEF OpenChecks, OpenTakes, OpenWrites, OpenFiles, OpenFilesNowhere, Active, memory, faults
  <2>7. ASSUME NEW w \in Workers, OpenMaps(w) PROVE PagesAreTold
    <3>1. again \subseteq again' /\ ~crashed /\ mode' = mode
      BY <2>7, ZenonT(30) DEF OpenMaps, Active
    <3> QED BY <2>1, <3>1
  <2>8. ASSUME NEW w \in Workers,
               \/ CloseRemoves(w) \/ CloseOvertakes(w) \/ CloseFreesTwice(w)
               \/ Frees(w) \/ FreesEnd(w)
        PROVE  PagesAreTold
    BY <2>1, <2>8 DEF CloseRemoves, CloseOvertakes, CloseFreesTwice, Frees, FreesEnd, Active, memory, faults
  <2>9. ASSUME NEW w \in Workers, FlushReads(w) \/ FlushEnds(w) \/ AsignWrites(w) \/ AskReads(w) \/ Told(w)
        PROVE  PagesAreTold
    BY <2>1, <2>9 DEF FlushReads, FlushEnds, AsignWrites, AskReads, Told, Active, memory, faults
  <2> QED BY <1>2, <2>2, <2>3, <2>4, <2>5, <2>6, <2>7, <2>8, <2>9 DEF Next
<1> QED BY <1>1, <1>2

\* Every step keeps what holds while the pages are told apart.
LEMMA GoodStep == ASSUME Good, [Next]_vars, PagesAreTold' PROVE Good'
<1>1. CASE UNCHANGED vars
  BY <1>1, GoodStutter
<1>2. CASE Next
  <2>1. ASSUME NEW d \in DTBs, AskDAM(d) \/ CPU_EndDTB(d) \/ CommandFinalizar(d) \/ EndKilled(d) PROVE Good'
    BY <2>1, GoodClients
  <2>2. ASSUME NEW w \in Workers, NEW d \in DTBs, Opens(w, d) PROVE Good'
    <3>1. PICK n \in 1 .. MaxLines : OpenFinds(w, d, n)
      BY <2>2 DEF Opens
    <3>2. n \in Nat
      BY BoundsAssumption
    <3> QED BY <3>1, <3>2, GoodOpenFinds
  <2>3. ASSUME NEW w \in Workers, NEW d \in DTBs, CloseDTBRemoves(w, d) PROVE Good'
    BY <2>3, GoodCloseDTBRemoves
  <2>4. ASSUME NEW w \in Workers, NEW d \in DTBs, NEW k \in opened[d], CloseFinds(w, d, k) PROVE Good'
    BY <2>4, GoodCloseFinds
  <2>5. ASSUME NEW w \in Workers, NEW d \in DTBs, NEW k \in opened[d], FlushFinds(w, d, k) PROVE Good'
    BY <2>5, GoodFlushFinds
  <2>6. ASSUME NEW w \in Workers, NEW d \in DTBs, NEW k \in opened[d], NEW o \in 0 .. MaxLines - 1,
               NEW pc \in {"assign", "ask"}, LineFinds(w, d, k, o, pc)
        PROVE  Good'
    <3>1. o \in Nat
      BY BoundsAssumption
    <3> QED BY <2>6, <3>1, GoodLineFinds
  <2>7. ASSUME NEW w \in Workers,
               OpenChecks(w) \/ OpenTakes(w) \/ OpenWrites(w) \/ OpenMaps(w)
               \/ OpenFiles(w) \/ OpenFilesNowhere(w)
        PROVE  Good'
    BY <2>7, GoodChecks, GoodOpenTakes, GoodOpenWrites, GoodOpenMaps, GoodOpenFiles, GoodOpenFilesNowhere
  <2>8. ASSUME NEW w \in Workers,
               \/ CloseRemoves(w) \/ CloseOvertakes(w) \/ CloseFreesTwice(w)
               \/ Frees(w) \/ FreesEnd(w)
        PROVE  Good'
    <3>1. ~CloseFreesTwice(w)
      BY DEF PagesAreTold, CloseFreesTwice
    <3> QED BY <2>8, <3>1, GoodCloseRemoves, GoodCloseOvertakes, GoodFrees, GoodFreesEnd
  <2>9. ASSUME NEW w \in Workers, FlushReads(w) \/ FlushEnds(w) \/ AsignWrites(w) \/ AskReads(w) \/ Told(w)
        PROVE  Good'
    BY <2>9, GoodFlushReads, GoodFlushEnds, GoodAsignWrites, GoodAskReads
  <2> QED BY <1>2, <2>1, <2>2, <2>3, <2>4, <2>5, <2>6, <2>7, <2>8, <2>9 DEF Next
<1> QED BY <1>1, <1>2

\* The inductive invariant.
LEMMA PagingInvHolds == Spec => []PagingInv
<1>1. Init => PagingInv
  BY GoodInit DEF PagingInv
<1>2. PagingInv /\ [Next]_vars => PagingInv'
  <2>1. ASSUME PagingInv, [Next]_vars, PagesAreTold' PROVE Good'
    <3>1. PagesAreTold
      BY <2>1, StaysTold
    <3> QED BY <2>1, <3>1, GoodStep DEF PagingInv
  <2> QED BY <2>1 DEF PagingInv
<1> QED BY <1>1, <1>2, PTL DEF Spec

\* FrameOwner: two DTBs never get one frame of FM9's memory, whether it is free, in a file,
\* in the hands of a worker that opens or frees one, or lost.
THEOREM FramesAreOwned == Spec => []FrameOwner
<1>1. PagingInv => FrameOwner
  <2> SUFFICES ASSUME PagingInv, PagesAreTold PROVE FrameOwner
    BY DEF FrameOwner
  <2>1. Apart
    BY DEF PagingInv, Good, Owned
  <2>2. \A i, k \in DOMAIN free : free[i] = free[k] => i = k
    BY <2>1 DEF Apart, OneToOne
  <2>3. ASSUME NEW g \in files
        PROVE  /\ FramesOf(g) \cap (Elements(free) \cup lost) = {}
               /\ \A h \in files \ {g} : FramesOf(g) \cap FramesOf(h) = {}
               /\ \A w \in Workers : FramesOf(g) \cap InHand(w) = {}
    BY <2>1, FileApart
  <2>4. ASSUME NEW w \in Workers
        PROVE  /\ InHand(w) \cap (Elements(free) \cup lost) = {}
               /\ \A v \in Workers \ {w} : InHand(w) \cap InHand(v) = {}
    BY <2>1, FileApart
  <2> QED BY <2>2, <2>3, <2>4 DEF FrameOwner
<1> QED BY <1>1, PagingInvHolds, PTL

\* ContentsKept: what a DTB has written in its files stays, while the console finishes nobody
\* and nobody asks for a line past the end of a file.
THEOREM ContentsAreKept == Spec => []ContentsKept
<1>1. PagingInv => ContentsKept
  BY DEF PagingInv, Good, Contents, FilesKept, OwnLines, ContentsKept
<1> QED BY <1>1, PagingInvHolds, PTL

\* HandsItsOwn: what FM9 reads for a DTB is its own, on the same terms.
THEOREM HandsTheirOwn == Spec => []HandsItsOwn
<1>1. PagingInv => HandsItsOwn
  BY DEF PagingInv, Good, Contents, JobKept, GotKept, Behaves, HandsItsOwn
<1> QED BY <1>1, PagingInvHolds, PTL
=============================================================================
