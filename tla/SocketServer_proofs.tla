-------------------------- MODULE SocketServer_proofs --------------------------
(***************************************************************************)
(* What holds of FM9's server for any threads, connections and lengths of  *)
(* conversations, whoever hangs up and whenever it is told to quit: a      *)
(* conversation stays in one job, which gets its packets in order, and     *)
(* nobody uses the pool once it is freed.                                  *)
(***************************************************************************)
EXTENDS SocketServer, TLAPS, SequenceTheorems

-----------------------------------------------------------------------------
(***************************************************************************)
(* The inductive invariant.                                                *)
(***************************************************************************)

\* The types of what the proofs follow; the numbers of the packets are not bounded.
Numbered == [n : Nat, of : Nat]
Jobs == [client : Clients, p : Numbered] \cup {Quit}
Places == {At(p) : p \in {"loop", "enter", "wait", "awake", "gone"}}
            \cup [at : {"run"}, job : Jobs]
Talks == {Silent} \cup [at : {"reserve", "mark", "reply", "wake", "sleep", "answer"},
                        got : Seq(Numbered)]
PeerStates == {[at |-> p] : p \in {"new", "connecting", "connected", "answered", "closed",
                              "reset", "gone"}}
            \cup [at : {"asking"}, p : Numbered]
Typed ==
    /\ queue \in Seq(Jobs) /\ thread \in [Threads -> Places] /\ talk \in [Threads -> Talks]
    /\ connections \subseteq Clients /\ isWaitingForData \in [Clients -> BOOLEAN]
    /\ arriveData \in [Clients -> Numbered] /\ waitForData \in [Clients -> Nat]
    /\ peer \in [Clients -> PeerStates] /\ inbox \in [Clients -> Seq(Numbered)]
    /\ replies \in [Clients -> Nat] /\ loop \in {"select", "ended"}

\* The pool ends after the server, and no thread waits while it has a job.
PoolOK == (terminate => loop = "ended") /\ NobodySleepsOnAJob

\* A job of c, in the queue q or in the hands w of the threads.
Of(j, c) == ~IsQuit(j) /\ j.client = c
Does(h, c) == h.at = "run" /\ Of(h.job, c)
InQueue(q, c) == \E i \in 1 .. Len(q) : Of(q[i], c)
AtWork(w, c) == \E t \in Threads : Does(w[t], c)
OneJob(q, w, c) ==
    /\ \A i, k \in 1 .. Len(q) : Of(q[i], c) /\ Of(q[k], c) => i = k
    /\ \A t, u \in Threads : Does(w[t], c) /\ Does(w[u], c) => t = u
    /\ InQueue(q, c) => ~AtWork(w, c)

\* What there is of a client: its other end, the packets on their way, the replies on
\* theirs, its flag, data and semaphore, and whether the server runs.
View(c) == [end |-> peer[c], in |-> inbox[c], replied |-> replies[c],
            flag |-> isWaitingForData[c], data |-> arriveData[c], sem |-> waitForData[c],
            loop |-> loop]

\* A client that has begun, and if it has not hung up waits for r replies to packet p.
Began == {"asking", "closed", "reset", "gone"}
Expects(v, p, r) ==
    v.end.at \in Began /\ (v.end.at = "asking" => v.end.p = p /\ v.replied = r)
Fresh(v) == v.sem > 0 /\ v.data # Null

\* It has asked nothing, or its first packet is on the way.
Before(v) ==
    /\ v.flag = FALSE /\ v.sem = 0 /\ v.replied = 0
    /\ \/ v.end.at \in {"new", "connecting", "connected", "closed", "reset"} /\ v.in = <<>>
       \/ \E k \in 1 .. MaxPackets :
            /\ v.end.at \in {"asking", "closed"} /\ v.in = <<Packet(1, k)>>
            /\ v.end.at = "asking" => v.end.p = Packet(1, k)

\* Its job, of packet p, has not begun.
Waits(p, v) ==
    /\ \E k \in 1 .. MaxPackets : p = Packet(1, k)
    /\ v.flag = FALSE /\ v.sem = 0 /\ v.in = <<>> /\ Expects(v, p, 0)

\* The job has m of the k packets, and nothing is on the way to it, ...
Holds(at, m, k, v) ==
    /\ \/ at \in {"reserve", "mark", "reply"} /\ m < k
       \/ at = "answer" /\ m = k
    /\ v.in = <<>> /\ ~Fresh(v) /\ Expects(v, Packet(m, k), 0)
    /\ v.end.at = "asking" /\ v.loop = "select" =>
         v.sem = 0 /\ (at = "reply" => v.flag = TRUE)

\* ... or the server has ended, or the next packet is asked for, on its way, or there.
Stuck(m, k, v) ==
    /\ v.loop = "ended" /\ ~Fresh(v) /\ v.end.at \in Began
    /\ v.end.at = "asking" =>
         v.replied = 0 \/ (v.replied = 1 /\ v.end.p = Packet(m, k))
Asked(m, k, v) ==
    /\ v.in = <<>> /\ ~Fresh(v) /\ Expects(v, Packet(m, k), 1)
    /\ v.end.at = "asking" => v.flag = TRUE /\ v.sem = 0
Sent(m, k, v) ==
    /\ v.in = <<Packet(m + 1, k)>> /\ v.sem = 0 /\ v.flag = TRUE
    /\ v.end.at \in {"asking", "closed"} /\ Expects(v, Packet(m + 1, k), 0)
Arrived(m, k, v) ==
    v.in = <<>> /\ v.sem = 1 /\ v.data = Packet(m + 1, k) /\ Expects(v, Packet(m + 1, k), 0)
Listening(at, m, k, v) ==
    /\ at \in {"wake", "sleep"} /\ m < k
    /\ Stuck(m, k, v) \/ Asked(m, k, v) \/ Sent(m, k, v) \/ Arrived(m, k, v)
Converses(x, v) ==
    \E k \in 2 .. MaxPackets :
      /\ Len(x.got) \in 1 .. k
      /\ \A i \in 1 .. Len(x.got) : x.got[i] = Packet(i, k)
      /\ Holds(x.at, Len(x.got), k, v) \/ Listening(x.at, Len(x.got), k, v)

\* Its job is done, or was thrown away when the pool was freed.
After(v) ==
    /\ v.in = <<>> /\ v.end.at \in Began \cup {"answered"}
    /\ v.end.at = "asking" =>
         (v.replied = 1 /\ IsLast(v.end.p)) \/ (v.loop = "ended" /\ v.replied = 0)

\* A client, as it is seen with the queue q and the threads w, which talk as in x.
Served(c, v, q, w, x) ==
    /\ OneJob(q, w, c)
    /\ ~InQueue(q, c) /\ ~AtWork(w, c) => Before(v) \/ After(v)
    /\ \A i \in 1 .. Len(q) : Of(q[i], c) => Waits(q[i].p, v)
    /\ \A t \in Threads : Does(w[t], c) =>
         IF x[t].at = "none" THEN Waits(w[t].job.p, v) ELSE Converses(x[t], v)

Listed(c) ==
    loop = "select" /\ peer[c].at \notin {"new", "connecting", "gone"} => c \in connections

\* Only a thread that runs the job of a client talks.
Talkers(w, x) == \A t \in Threads : x[t].at # "none" => w[t].at = "run" /\ ~IsQuit(w[t].job)

ServerInv ==
    /\ Typed /\ PoolOK /\ Talkers(thread, talk)
    /\ \A c \in Clients : Listed(c) /\ Served(c, View(c), queue, thread, talk)

-----------------------------------------------------------------------------
(***************************************************************************)
(* What a client does at its end, and the server to its record of it.      *)
(***************************************************************************)

\* The place of a conversation: what there is of a job that has m of the k packets.
Place(at, m, k, v) == Holds(at, m, k, v) \/ Listening(at, m, k, v)

\* What is true of a client as it was seen is true of it as it is seen now.
Keeps(v, z) ==
    /\ Before(v) \/ After(v) => Before(z) \/ After(z)
    /\ \A p : Waits(p, v) => Waits(p, z)
    /\ \A at : \A k \in 2 .. MaxPackets : \A m \in 1 .. k : Place(at, m, k, v) => Place(at, m, k, z)

\* A conversation keeps its place.
LEMMA ConversesKept ==
  ASSUME NEW v, NEW z, Keeps(v, z), NEW x, Converses(x, v)
  PROVE  Converses(x, z)
<1>1. PICK k \in 2 .. MaxPackets :
         /\ Len(x.got) \in 1 .. k
         /\ \A i \in 1 .. Len(x.got) : x.got[i] = Packet(i, k)
         /\ Holds(x.at, Len(x.got), k, v) \/ Listening(x.at, Len(x.got), k, v)
  BY DEF Converses
<1>2. Place(x.at, Len(x.got), k, v)
  BY <1>1 DEF Place
<1>3. Place(x.at, Len(x.got), k, z)
  BY <1>1, <1>2 DEF Keeps
<1>4. QED  BY <1>1, <1>3 DEF Converses, Place

\* A client that is not seen to change.
LEMMA KeepsSame == ASSUME NEW v PROVE Keeps(v, v)
BY DEF Keeps

\* It connects, or is accepted.
LEMMA KeepsConnects ==
  ASSUME NEW v, NEW z, v.end.at \in {"new", "connecting"},
         z.end.at \in {"connecting", "connected"}, z.in = v.in, z.replied = v.replied,
         z.flag = v.flag, z.data = v.data, z.sem = v.sem, z.loop = v.loop
  PROVE  Keeps(v, z)
<1>1. Before(v) \/ After(v) => Before(z)
  BY DEF Before, After, Began
<1>2. \A p : ~Waits(p, v)
  BY DEF Waits, Expects, Began
<1>3. \A at : \A k \in 2 .. MaxPackets : \A m \in 1 .. k : ~Place(at, m, k, v)
  BY DEF Place, Holds, Listening, Stuck, Asked, Sent, Arrived, Expects, Began
<1>4. QED  BY <1>1, <1>2, <1>3 DEF Keeps

\* It sends its first packet.
LEMMA KeepsAsks ==
  ASSUME NEW v, NEW z, NEW n \in 1 .. MaxPackets, v.end.at = "connected",
         z.end = [at |-> "asking", p |-> Packet(1, n)], z.in = Append(v.in, Packet(1, n)),
         z.replied = v.replied, z.flag = v.flag, z.data = v.data, z.sem = v.sem, z.loop = v.loop
  PROVE  Keeps(v, z)
<1>1. Before(v) \/ After(v) => Before(z)
  <2>1. CASE Before(v)
    <3>1. v.in = <<>>
      BY <2>1 DEF Before
    <3>2. Append(<<>>, Packet(1, n)) = <<Packet(1, n)>>
      OBVIOUS
    <3>3. z.in = <<Packet(1, n)>>
      BY <3>1, <3>2
    <3>4. z.end.at = "asking" /\ z.end.p = Packet(1, n)
      OBVIOUS
    <3>5. z.flag = FALSE /\ z.sem = 0 /\ z.replied = 0
      BY <2>1 DEF Before
    <3>6. QED  BY <3>3, <3>4, <3>5 DEF Before
  <2>2. QED  BY <2>1 DEF After, Began
<1>2. \A p : ~Waits(p, v)
  BY DEF Waits, Expects, Began
<1>3. \A at : \A k \in 2 .. MaxPackets : \A m \in 1 .. k : ~Place(at, m, k, v)
  BY DEF Place, Holds, Listening, Stuck, Asked, Sent, Arrived, Expects, Began
<1>4. QED  BY <1>1, <1>2, <1>3 DEF Keeps

\* It has its answer: that was the last packet, or it sends the next.
LEMMA KeepsGoesOn ==
  ASSUME NEW v, NEW z, v.end.at = "asking", v.replied > 0, v.replied \in Nat,
         v.end.p \in Numbered,
         z.replied = v.replied - 1, z.flag = v.flag, z.data = v.data, z.sem = v.sem,
         z.loop = v.loop,
         \/ /\ IsLast(v.end.p) /\ z.end = [at |-> "answered"] /\ z.in = v.in
         \/ /\ ~IsLast(v.end.p)
            /\ z.end = [at |-> "asking", p |-> Packet(v.end.p.n + 1, v.end.p.of)]
            /\ z.in = Append(v.in, Packet(v.end.p.n + 1, v.end.p.of))
  PROVE  Keeps(v, z)
<1>1. Before(v) \/ After(v) => After(z)
  BY DEF Before, After, Began
<1>2. \A p : ~Waits(p, v)
  BY DEF Waits, Expects, Began
<1>3. ASSUME NEW at, NEW k \in 2 .. MaxPackets, NEW m \in 1 .. k, Place(at, m, k, v)
      PROVE  Place(at, m, k, z)
  <2>1. ~Holds(at, m, k, v)
    BY DEF Holds, Expects
  <2>2. ~Sent(m, k, v) /\ ~Arrived(m, k, v)
    BY DEF Sent, Arrived, Expects
  <2>3. at \in {"wake", "sleep"} /\ m < k /\ (Stuck(m, k, v) \/ Asked(m, k, v))
    BY <1>3, <2>1, <2>2 DEF Place, Listening
  <2>4. v.end.p = Packet(m, k) /\ v.replied = 1
    BY <2>3 DEF Stuck, Asked, Expects
  <2>5. ~IsLast(v.end.p) /\ v.end.p.n = m /\ v.end.p.of = k
    BY <2>3, <2>4 DEF IsLast, Packet
  <2>6. /\ z.end.at = "asking" /\ z.end.p = Packet(m + 1, k) /\ z.replied = 0
        /\ z.in = Append(v.in, Packet(m + 1, k))
    BY <2>4, <2>5
  <2>7. CASE Stuck(m, k, v)
    BY <2>3, <2>6, <2>7 DEF Place, Listening, Stuck, Began, Fresh
  <2>8. CASE Asked(m, k, v)
    <3>1. z.in = <<Packet(m + 1, k)>>
      BY <2>6, <2>8 DEF Asked
    <3>2. Sent(m, k, z)
      BY <2>6, <2>8, <3>1 DEF Sent, Asked, Expects, Began
    <3>3. QED  BY <2>3, <3>2 DEF Place, Listening
  <2>9. QED  BY <2>3, <2>7, <2>8
<1>4. QED  BY <1>1, <1>2, <1>3 DEF Keeps

\* It hangs up.
LEMMA KeepsHangsUp ==
  ASSUME NEW v, NEW z, v.end.at \in {"answered", "connected", "asking"},
         z.end = [at |-> "closed"], z.in = v.in, z.replied = v.replied,
         z.flag = v.flag, z.data = v.data, z.sem = v.sem, z.loop = v.loop
  PROVE  Keeps(v, z)
<1>1. Before(v) \/ After(v) => Before(z) \/ After(z)
  BY DEF Before, After, Began
<1>2. \A p : Waits(p, v) => Waits(p, z)
  BY DEF Waits, Expects, Began
<1>3. ASSUME NEW at, NEW k \in 2 .. MaxPackets, NEW m \in 1 .. k, Place(at, m, k, v)
      PROVE  Place(at, m, k, z)
  BY <1>3 DEF Place, Holds, Listening, Stuck, Asked, Sent, Arrived, Expects, Began, Fresh
<1>4. QED  BY <1>1, <1>2, <1>3 DEF Keeps

\* It falls.
LEMMA KeepsResets ==
  ASSUME NEW v, NEW z, v.end.at \in {"connected", "asking"},
         z.end = [at |-> "reset"], z.in = <<>>, z.replied = v.replied,
         z.flag = v.flag, z.data = v.data, z.sem = v.sem, z.loop = v.loop
  PROVE  Keeps(v, z)
<1>1. Before(v) \/ After(v) => Before(z) \/ After(z)
  BY DEF Before, After, Began
<1>2. \A p : Waits(p, v) => Waits(p, z)
  BY DEF Waits, Expects, Began
<1>3. ASSUME NEW at, NEW k \in 2 .. MaxPackets, NEW m \in 1 .. k, Place(at, m, k, v)
      PROVE  Place(at, m, k, z)
  <2>1. CASE Holds(at, m, k, v)
    BY <2>1 DEF Place, Holds, Expects, Began, Fresh
  <2>2. CASE /\ at \in {"wake", "sleep"} /\ m < k
             /\ Stuck(m, k, v) \/ Asked(m, k, v) \/ Sent(m, k, v)
    <3>1. Asked(m, k, z)
      BY <2>2 DEF Stuck, Asked, Sent, Expects, Began, Fresh
    <3>2. QED  BY <3>1, <2>2 DEF Place, Listening
  <2>3. CASE at \in {"wake", "sleep"} /\ m < k /\ Arrived(m, k, v)
    <3>1. Arrived(m, k, z)
      BY <2>3 DEF Arrived, Expects, Began
    <3>2. QED  BY <2>3, <3>1 DEF Place, Listening
  <2>4. QED  BY <1>3, <2>1, <2>2, <2>3 DEF Place, Listening
<1>4. QED  BY <1>1, <1>2, <1>3 DEF Keeps

\* The end of the server: whoever waits is woken with NULL, and nobody is reserved any more.
LEMMA KeepsEnds ==
  ASSUME NEW v, NEW z, v.sem \in Nat, z.end = v.end, z.in = v.in,
         z.replied = v.replied, z.flag = FALSE, z.loop = "ended",
         \/ v.flag = TRUE /\ z.data = Null /\ z.sem = v.sem + 1
         \/ z.data = v.data /\ z.sem = v.sem
  PROVE  Keeps(v, z)
<1>1. Before(v) \/ After(v) => Before(z) \/ After(z)
  BY DEF Before, After, Began
<1>2. \A p : Waits(p, v) => Waits(p, z)
  BY DEF Waits, Expects, Began
<1>3. ASSUME NEW at, NEW k \in 2 .. MaxPackets, NEW m \in 1 .. k, Place(at, m, k, v)
      PROVE  Place(at, m, k, z)
  <2>1. CASE Holds(at, m, k, v)
    BY <2>1 DEF Place, Holds, Expects, Began, Fresh
  <2>2. CASE /\ at \in {"wake", "sleep"} /\ m < k
             /\ Stuck(m, k, v) \/ Asked(m, k, v) \/ Sent(m, k, v)
    <3>1. Stuck(m, k, z)
      BY <2>2 DEF Stuck, Asked, Sent, Expects, Began, Fresh
    <3>2. QED  BY <3>1, <2>2 DEF Place, Listening
  <2>3. CASE at \in {"wake", "sleep"} /\ m < k /\ Arrived(m, k, v)
    <3>1. Arrived(m, k, z) \/ Stuck(m, k, z)
      BY <2>3 DEF Arrived, Stuck, Expects, Began, Fresh
    <3>2. QED  BY <2>3, <3>1 DEF Place, Listening
  <2>4. QED  BY <1>3, <2>1, <2>2, <2>3 DEF Place, Listening
<1>4. QED  BY <1>1, <1>2, <1>3 DEF Keeps

-----------------------------------------------------------------------------
(***************************************************************************)
(* What a turn of the server does to the client it is about.               *)
(***************************************************************************)

\* A packet for the job that waits on it.
LEMMA KeepsReceives ==
  ASSUME NEW v, NEW z, v.flag = TRUE, v.in # <<>>, v.loop = "select",
         z.end = v.end, z.in = Tail(v.in), z.replied = v.replied, z.flag = FALSE,
         z.data = Head(v.in), z.sem = v.sem + 1, z.loop = v.loop
  PROVE  Keeps(v, z)
<1>1. ~Before(v) /\ ~After(v)
  BY DEF Before, After
<1>2. \A p : ~Waits(p, v)
  BY DEF Waits
<1>3. ASSUME NEW at, NEW k \in 2 .. MaxPackets, NEW m \in 1 .. k, Place(at, m, k, v)
      PROVE  Place(at, m, k, z)
  <2>1. ~Holds(at, m, k, v) /\ ~Stuck(m, k, v) /\ ~Asked(m, k, v) /\ ~Arrived(m, k, v)
    BY DEF Holds, Stuck, Asked, Arrived
  <2>2. at \in {"wake", "sleep"} /\ m < k /\ Sent(m, k, v)
    BY <1>3, <2>1 DEF Place, Listening
  <2>3. v.in = <<Packet(m + 1, k)>>
    BY <2>2 DEF Sent
  <2>4. Head(<<Packet(m + 1, k)>>) = Packet(m + 1, k) /\ Tail(<<Packet(m + 1, k)>>) = <<>>
    OBVIOUS
  <2>5. z.data = Packet(m + 1, k) /\ z.in = <<>>
    BY <2>3, <2>4
  <2>6. Arrived(m, k, z)
    BY <2>2, <2>5 DEF Arrived, Sent, Expects
  <2>7. QED  BY <2>2, <2>6 DEF Place, Listening
<1>4. QED  BY <1>1, <1>2, <1>3 DEF Keeps

\* A packet nobody waits for is the first of its client.
LEMMA FirstReceived ==
  ASSUME NEW v, NEW z, v.flag = FALSE, v.in # <<>>,
         z.end = v.end, z.in = Tail(v.in), z.replied = v.replied, z.flag = v.flag,
         z.data = v.data, z.sem = v.sem, z.loop = v.loop
  PROVE  /\ \A p : ~Waits(p, v)
         /\ v.loop = "select" => \A x : ~Converses(x, v)
         /\ Before(v) \/ After(v) =>
              /\ \E k \in 1 .. MaxPackets : Head(v.in) = Packet(1, k)
              /\ Waits(Head(v.in), z)
<1>1. \A p : ~Waits(p, v)
  BY DEF Waits
<1>2. ASSUME v.loop = "select", NEW x, Converses(x, v)  PROVE FALSE
  <2>1. PICK k \in 2 .. MaxPackets :
          Holds(x.at, Len(x.got), k, v) \/ Listening(x.at, Len(x.got), k, v)
    BY <1>2 DEF Converses
  <2>2. QED  BY <1>2, <2>1 DEF Holds, Listening, Stuck, Asked, Sent, Arrived
<1>3. ASSUME Before(v) \/ After(v)
      PROVE  /\ \E k \in 1 .. MaxPackets : Head(v.in) = Packet(1, k)
             /\ Waits(Head(v.in), z)
  <2>1. Before(v)
    BY <1>3 DEF After
  <2>2. PICK k \in 1 .. MaxPackets :
          /\ v.end.at \in {"asking", "closed"} /\ v.in = <<Packet(1, k)>>
          /\ v.end.at = "asking" => v.end.p = Packet(1, k)
    BY <2>1 DEF Before
  <2>3. Head(<<Packet(1, k)>>) = Packet(1, k) /\ Tail(<<Packet(1, k)>>) = <<>>
    OBVIOUS
  <2>4. Head(v.in) = Packet(1, k) /\ z.in = <<>>
    BY <2>2, <2>3
  <2>5. Expects(z, Packet(1, k), 0)
    BY <2>1, <2>2 DEF Expects, Before, Began
  <2>6. Waits(Packet(1, k), z)
    BY <2>1, <2>4, <2>5 DEF Waits, Before
  <2>7. QED  BY <2>4, <2>6
<1>4. QED  BY <1>1, <1>2, <1>3

\* The other end is closed, or the read fails: who waits gets NULL.
LEMMA KeepsHangs ==
  ASSUME NEW v, NEW z, v.sem \in Nat, v.flag \in BOOLEAN, v.loop = "select",
         \/ v.end.at = "closed" /\ v.in = <<>> /\ z.end = [at |-> "gone"]
         \/ v.end.at = "reset" /\ z.end = [at |-> "closed"],
         z.in = v.in, z.replied = v.replied, z.flag = FALSE, z.loop = v.loop,
         \/ v.flag = TRUE /\ z.data = Null /\ z.sem = v.sem + 1
         \/ v.flag = FALSE /\ z.data = v.data /\ z.sem = v.sem
  PROVE  Keeps(v, z)
<1>1. Before(v) \/ After(v) => Before(z) \/ After(z)
  BY DEF Before, After, Began
<1>2. \A p : Waits(p, v) => Waits(p, z)
  BY DEF Waits, Expects, Began
<1>3. ASSUME NEW at, NEW k \in 2 .. MaxPackets, NEW m \in 1 .. k, Place(at, m, k, v)
      PROVE  Place(at, m, k, z)
  <2>1. CASE Holds(at, m, k, v)
    BY <2>1 DEF Place, Holds, Expects, Began, Fresh
  <2>2. CASE at \in {"wake", "sleep"} /\ m < k /\ Asked(m, k, v)
    <3>1. Asked(m, k, z)
      BY <2>2 DEF Asked, Expects, Began, Fresh
    <3>2. QED  BY <3>1, <2>2 DEF Place, Listening
  <2>3. CASE at \in {"wake", "sleep"} /\ m < k /\ Arrived(m, k, v)
    <3>1. Arrived(m, k, z) \/ Asked(m, k, z)
      BY <2>3 DEF Arrived, Asked, Expects, Began, Fresh
    <3>2. QED  BY <2>3, <3>1 DEF Place, Listening
  <2>4. ~Stuck(m, k, v) /\ ~Sent(m, k, v)
    <3>1. <<Packet(m + 1, k)>> # <<>>
      OBVIOUS
    <3>2. QED  BY <3>1 DEF Stuck, Sent
  <2>5. QED  BY <1>3, <2>1, <2>2, <2>3, <2>4 DEF Place, Listening
<1>4. QED  BY <1>1, <1>2, <1>3 DEF Keeps

-----------------------------------------------------------------------------
(***************************************************************************)
(* What a job does to its client.                                          *)
(***************************************************************************)

\* The view of a client to whom a reply is sent, which one who has gone does not get.
Told(v, z) ==
    /\ z.end = v.end /\ z.in = v.in /\ z.flag = v.flag /\ z.data = v.data /\ z.sem = v.sem
    /\ z.loop = v.loop
    /\ z.replied = IF v.end.at = "asking" THEN v.replied + 1 ELSE v.replied

\* A job of one packet is done.
LEMMA AnswersView ==
  ASSUME NEW v, NEW z, Told(v, z), NEW p, Waits(p, v), p.of = 1
  PROVE  After(z)
<1>1. PICK k \in 1 .. MaxPackets : p = Packet(1, k)
  BY DEF Waits
<1>2. IsLast(p)
  BY <1>1 DEF Packet, IsLast
<1>3. z.in = <<>> /\ z.end.at \in Began
  BY DEF Waits, Expects, Told
<1>4. z.end.at = "asking" => z.replied = 1 /\ z.end.p = p
  BY DEF Waits, Expects, Told
<1>5. QED  BY <1>2, <1>3, <1>4 DEF After

\* FM9_Open begins with the first packet.
LEMMA BeginsView ==
  ASSUME NEW v, NEW p, Waits(p, v), p.of > 1
  PROVE  Converses([at |-> "reserve", got |-> <<p>>], v)
<1> DEFINE x == [at |-> "reserve", got |-> <<p>>]
<1>1. PICK k \in 1 .. MaxPackets : p = Packet(1, k)
  BY DEF Waits
<1>2. p.of = k
  BY <1>1 DEF Packet
<1>3. k \in 2 .. MaxPackets
  BY <1>2
<1>4. x.at = "reserve" /\ x.got = <<p>>
  OBVIOUS
<1>5. Len(<<p>>) = 1 /\ <<p>>[1] = p
  OBVIOUS
<1>6. Len(x.got) = 1 /\ x.got[1] = Packet(1, k)
  BY <1>1, <1>4, <1>5
<1>7. Holds("reserve", 1, k, v)
  BY <1>1, <1>3 DEF Waits, Holds, Expects, Fresh
<1> HIDE DEF x
<1>8. Converses(x, v)
  BY <1>3, <1>4, <1>6, <1>7 DEF Converses
<1>9. QED  BY <1>8 DEF x

\* A conversation that moves on with the packets it has: its place is all that changes.
LEMMA MovesOn ==
  ASSUME NEW v, NEW z, NEW x, NEW y, Converses(x, v), y.got = x.got,
         \A k \in 2 .. MaxPackets : \A m \in 1 .. k : Place(x.at, m, k, v) => Place(y.at, m, k, z)
  PROVE  Converses(y, z)
<1>1. PICK k \in 2 .. MaxPackets :
         /\ Len(x.got) \in 1 .. k
         /\ \A i \in 1 .. Len(x.got) : x.got[i] = Packet(i, k)
         /\ Holds(x.at, Len(x.got), k, v) \/ Listening(x.at, Len(x.got), k, v)
  BY DEF Converses
<1>2. Place(y.at, Len(x.got), k, z)
  BY <1>1 DEF Place
<1>3. QED  BY <1>1, <1>2 DEF Converses, Place

\* It has found its client.
LEMMA ReservesView ==
  ASSUME NEW v, NEW k \in Nat, NEW m \in Nat, Place("reserve", m, k, v)
  PROVE  Place("mark", m, k, v)
BY DEF Place, Holds, Listening

\* It has marked its socket.
LEMMA MarksView ==
  ASSUME NEW v, NEW z, NEW k \in Nat, NEW m \in Nat, Place("mark", m, k, v),
         z.end = v.end, z.in = v.in, z.replied = v.replied, z.flag = TRUE, z.data = v.data,
         z.sem = v.sem, z.loop = v.loop
  PROVE  Place("reply", m, k, z)
BY DEF Place, Holds, Listening, Expects, Fresh

\* It has acknowledged its packet, and the next may come.
LEMMA AcknowledgesView ==
  ASSUME NEW v, NEW z, NEW k \in Nat, NEW m \in Nat, Place("reply", m, k, v), Told(v, z),
         v.loop \in {"select", "ended"}
  PROVE  Place("wake", m, k, z)
<1>1. Holds("reply", m, k, v)
  BY DEF Place, Listening
<1>2. m < k /\ z.in = <<>> /\ ~Fresh(z) /\ Expects(z, Packet(m, k), 1)
  BY <1>1 DEF Holds, Told, Expects, Fresh
<1>3. CASE v.loop = "ended"
  <2>1. Stuck(m, k, z)
    BY <1>2, <1>3 DEF Stuck, Expects, Told
  <2>2. QED  BY <1>2, <2>1 DEF Place, Listening
<1>4. CASE v.loop = "select"
  <2>1. Asked(m, k, z)
    BY <1>1, <1>2, <1>4 DEF Asked, Holds, Told
  <2>2. QED  BY <1>2, <2>1 DEF Place, Listening
<1>5. QED  BY <1>3, <1>4

\* It sleeps until the next comes.
LEMMA ListensView ==
  ASSUME NEW v, NEW z, NEW k \in Nat, NEW m \in Nat, Place("wake", m, k, v),
         z.end = v.end, z.in = v.in, z.replied = v.replied, z.flag = TRUE, z.data = v.data,
         z.sem = v.sem, z.loop = v.loop
  PROVE  Place("sleep", m, k, z)
<1>1. m < k
  BY DEF Place, Holds, Listening
<1>2. Stuck(m, k, v) => Stuck(m, k, z)
  BY DEF Stuck, Fresh
<1>3. Asked(m, k, v) => Asked(m, k, z)
  BY DEF Asked, Expects, Fresh
<1>4. Sent(m, k, v) => Sent(m, k, z)
  BY DEF Sent, Expects
<1>5. Arrived(m, k, v) => Arrived(m, k, z)
  BY DEF Arrived, Expects
<1>6. QED  BY <1>1, <1>2, <1>3, <1>4, <1>5 DEF Place, Listening, Holds

\* A packet has come: the job takes it, and there is one less to come.
LEMMA HearsView ==
  ASSUME NEW v, NEW z, NEW x, Converses(x, v), x.at = "sleep", v.sem \in Nat, v.sem > 0,
         v.data # Null, x.got \in Seq(Numbered), v.data \in Numbered,
         z.end = v.end, z.in = v.in, z.replied = v.replied, z.flag = v.flag, z.data = v.data,
         z.sem = v.sem - 1, z.loop = v.loop
  PROVE  Converses([at |-> IF IsLast(v.data) THEN "answer" ELSE "reserve",
                    got |-> Append(x.got, v.data)], z)
<1> DEFINE y == [at |-> IF IsLast(v.data) THEN "answer" ELSE "reserve",
                 got |-> Append(x.got, v.data)]
<1>1. PICK k \in 2 .. MaxPackets :
         /\ Len(x.got) \in 1 .. k
         /\ \A i \in 1 .. Len(x.got) : x.got[i] = Packet(i, k)
         /\ Holds(x.at, Len(x.got), k, v) \/ Listening(x.at, Len(x.got), k, v)
  BY DEF Converses
<1>2. PICK m \in Nat : m = Len(x.got)
  BY <1>1
<1>3. Holds("sleep", m, k, v) \/ Listening("sleep", m, k, v)
  BY <1>1, <1>2
<1>4. m < k /\ Arrived(m, k, v)
  BY <1>3 DEF Holds, Listening, Stuck, Asked, Sent, Fresh
<1>5. v.data = Packet(m + 1, k)
  BY <1>4 DEF Arrived
<1>6. IsLast(v.data) <=> m + 1 = k
  BY <1>5 DEF IsLast, Packet
<1>7. /\ Len(Append(x.got, v.data)) = m + 1
      /\ \A i \in 1 .. m : Append(x.got, v.data)[i] = x.got[i]
      /\ Append(x.got, v.data)[m + 1] = v.data
  BY <1>2, AppendProperties
<1>8. y.got = Append(x.got, v.data) /\ y.at = IF m + 1 = k THEN "answer" ELSE "reserve"
  BY <1>6
<1> HIDE DEF y
<1>9. Len(y.got) = m + 1 /\ Len(y.got) \in 1 .. k
  BY <1>4, <1>7, <1>8
<1>10. \A i \in 1 .. Len(y.got) : y.got[i] = Packet(i, k)
  <2>1. TAKE i \in 1 .. Len(y.got)
  <2>2. CASE i = m + 1
    BY <2>2, <1>5, <1>7, <1>8
  <2>3. CASE i \in 1 .. m
    BY <2>3, <1>1, <1>2, <1>7, <1>8
  <2>4. QED  BY <2>2, <2>3, <1>9
<1>11. Holds(y.at, m + 1, k, z)
  <2>1. z.in = <<>> /\ z.sem = 0 /\ Expects(z, Packet(m + 1, k), 0)
    BY <1>4 DEF Arrived, Expects
  <2>2. (y.at = "reserve" /\ m + 1 < k) \/ (y.at = "answer" /\ m + 1 = k)
    BY <1>4, <1>8
  <2>3. QED  BY <2>1, <2>2 DEF Holds, Fresh
<1>12. Converses(y, z)
  BY <1>9, <1>10, <1>11 DEF Converses
<1>13. QED  BY <1>12 DEF y

\* NULL has come, which nobody follows any further.
LEMMA FallsView ==
  ASSUME NEW v, NEW z, NEW x, Converses(x, v), x.at = "sleep", v.sem \in Nat, v.sem > 0,
         v.data = Null,
         z.end = v.end, z.in = v.in, z.replied = v.replied, z.flag = v.flag, z.data = v.data,
         z.sem = v.sem - 1, z.loop = v.loop
  PROVE  Converses(x, z)
<1>1. ASSUME NEW k \in 2 .. MaxPackets, NEW m \in 1 .. k, Place("sleep", m, k, v)
      PROVE  Place("sleep", m, k, z)
  <2>1. m < k /\ ~Holds("sleep", m, k, v) /\ Listening("sleep", m, k, v)
    BY <1>1 DEF Place, Holds, Listening
  <2>2. ~Sent(m, k, v)
    BY DEF Sent
  <2>3. Packet(m + 1, k) # Null
    BY DEF Packet, Null
  <2>4. ~Arrived(m, k, v)
    BY <2>3 DEF Arrived
  <2>5. Stuck(m, k, v) => Stuck(m, k, z)
    BY DEF Stuck, Fresh
  <2>6. Asked(m, k, v) => Asked(m, k, z)
    BY DEF Asked, Fresh, Expects
  <2>7. QED  BY <2>1, <2>2, <2>4, <2>5, <2>6 DEF Listening, Place
<1>2. QED  BY <1>1, MovesOn

\* All the packets are there: the answer is sent.
LEMMA ConcludesView ==
  ASSUME NEW v, NEW z, NEW x, Converses(x, v), x.at = "answer", Told(v, z)
  PROVE  After(z)
<1>1. PICK k \in 2 .. MaxPackets :
         /\ Len(x.got) \in 1 .. k
         /\ Holds(x.at, Len(x.got), k, v) \/ Listening(x.at, Len(x.got), k, v)
  BY DEF Converses
<1>2. PICK m \in 1 .. k : m = Len(x.got)
  BY <1>1
<1>3. Holds("answer", m, k, v)
  BY <1>1, <1>2 DEF Listening
<1>4. m = k /\ z.in = <<>> /\ Expects(z, Packet(k, k), 1)
  BY <1>3 DEF Holds, Expects, Told
<1>5. IsLast(Packet(k, k))
  BY DEF IsLast, Packet
<1>6. QED  BY <1>4, <1>5 DEF After, Expects

\* Its client is not in the list any more: it has gone.
LEMMA GoneView ==
  ASSUME NEW v, NEW x, Converses(x, v), x.at = "reserve",
         v.end.at \in {"new", "connecting", "gone"}
  PROVE  After(v)
<1>1. PICK k \in 2 .. MaxPackets :
         Holds(x.at, Len(x.got), k, v) \/ Listening(x.at, Len(x.got), k, v)
  BY DEF Converses
<1>2. Holds("reserve", Len(x.got), k, v)
  BY <1>1 DEF Listening
<1>3. QED  BY <1>2 DEF Holds, Expects, Began, After

\* What the server threw away it does not answer.
LEMMA ThrownAway ==
  ASSUME NEW v, NEW p, Waits(p, v), v.loop = "ended"
  PROVE  After(v)
BY DEF Waits, Expects, After

-----------------------------------------------------------------------------
(***************************************************************************)
(* The jobs, the queue and the threads, for one client.                    *)
(***************************************************************************)

\* What the server and the clients do changes the view alone.
LEMMA ServedKept ==
  ASSUME NEW c, NEW v, NEW z, NEW q, NEW w, NEW x, Served(c, v, q, w, x), Keeps(v, z)
  PROVE  Served(c, z, q, w, x)
<1>1. OneJob(q, w, c)
  BY DEF Served
<1>2. ~InQueue(q, c) /\ ~AtWork(w, c) => Before(z) \/ After(z)
  BY DEF Served, Keeps
<1>3. \A i \in 1 .. Len(q) : Of(q[i], c) => Waits(q[i].p, z)
  BY DEF Served, Keeps
<1>4. ASSUME NEW t \in Threads, Does(w[t], c)
      PROVE  IF x[t].at = "none" THEN Waits(w[t].job.p, z) ELSE Converses(x[t], z)
  <2>1. CASE x[t].at = "none"
    BY <1>4, <2>1 DEF Served, Keeps
  <2>2. CASE x[t].at # "none"
    <3>1. Converses(x[t], v)
      BY <1>4, <2>2 DEF Served
    <3>2. Converses(x[t], z)
      BY <3>1, ConversesKept
    <3>3. QED  BY <2>2, <3>2
  <2>3. QED  BY <2>1, <2>2
<1>5. QED  BY <1>1, <1>2, <1>3, <1>4 DEF Served

\* A job that is run is the only one of its client.
LEMMA OnlyJob ==
  ASSUME NEW c, NEW v, NEW q, NEW w, NEW x, Served(c, v, q, w, x),
         NEW t \in Threads, Does(w[t], c)
  PROVE  ~InQueue(q, c) /\ \A u \in Threads : Does(w[u], c) => u = t
BY DEF Served, OneJob, AtWork

\* The job moves on.
LEMMA ServedTalks ==
  ASSUME NEW c, NEW v, NEW z, NEW q, NEW w, NEW x, NEW y, Served(c, v, q, w, x),
         NEW t \in Threads, Does(w[t], c), y[t].at # "none", Converses(y[t], z)
  PROVE  Served(c, z, q, w, y)
<1>1. ~InQueue(q, c) /\ AtWork(w, c) /\ \A u \in Threads : Does(w[u], c) => u = t
  BY OnlyJob DEF AtWork
<1>2. \A i \in 1 .. Len(q) : ~Of(q[i], c)
  BY <1>1 DEF InQueue
<1>3. OneJob(q, w, c)
  BY DEF Served
<1>4. QED  BY <1>1, <1>2, <1>3 DEF Served

\* It is done.
LEMMA ServedLeaves ==
  ASSUME NEW c, NEW v, NEW z, NEW q, NEW w, NEW w2, NEW x, NEW y, Served(c, v, q, w, x),
         NEW t \in Threads, Does(w[t], c), w2[t].at # "run",
         \A u \in Threads \ {t} : w2[u] = w[u], After(z)
  PROVE  Served(c, z, q, w2, y)
<1>1. ~InQueue(q, c) /\ \A u \in Threads : Does(w[u], c) => u = t
  BY OnlyJob
<1>2. \A i \in 1 .. Len(q) : ~Of(q[i], c)
  BY <1>1 DEF InQueue
<1>3. \A u \in Threads : ~Does(w2[u], c)
  BY <1>1 DEF Does
<1>4. OneJob(q, w2, c)
  BY <1>1, <1>2, <1>3 DEF OneJob
<1>5. QED  BY <1>2, <1>3, <1>4 DEF Served

\* A thread that does not work for the client, before or after.
LEMMA ServedAside ==
  ASSUME NEW c, NEW v, NEW q, NEW w, NEW w2, NEW x, NEW y, Served(c, v, q, w, x),
         NEW t \in Threads, ~Does(w[t], c), ~Does(w2[t], c),
         \A u \in Threads \ {t} : w2[u] = w[u] /\ y[u] = x[u]
  PROVE  Served(c, v, q, w2, y)
<1>1. \A u \in Threads : Does(w2[u], c) <=> Does(w[u], c)
  OBVIOUS
<1>2. \A u \in Threads : Does(w2[u], c) => w2[u] = w[u] /\ y[u] = x[u]
  OBVIOUS
<1>3. OneJob(q, w2, c)
  BY <1>1 DEF Served, OneJob, AtWork
<1>4. ~InQueue(q, c) /\ ~AtWork(w2, c) => Before(v) \/ After(v)
  BY <1>1 DEF Served, AtWork
<1>5. \A i \in 1 .. Len(q) : Of(q[i], c) => Waits(q[i].p, v)
  BY DEF Served
<1>6. ASSUME NEW u \in Threads, Does(w2[u], c)
      PROVE  IF y[u].at = "none" THEN Waits(w2[u].job.p, v) ELSE Converses(y[u], v)
  <2>1. Does(w[u], c) /\ w2[u] = w[u] /\ y[u] = x[u]
    BY <1>1, <1>2, <1>6
  <2>2. IF x[u].at = "none" THEN Waits(w[u].job.p, v) ELSE Converses(x[u], v)
    BY <2>1 DEF Served
  <2>3. QED  BY <2>1, <2>2
<1>7. QED  BY <1>3, <1>4, <1>5, <1>6 DEF Served

\* Threads that come and go without a job.
LEMMA ServedIdles ==
  ASSUME NEW c, NEW v, NEW q, NEW w, NEW w2, NEW x, Served(c, v, q, w, x),
         \A u \in Threads : w[u].at = "run" \/ w2[u].at = "run" => w2[u] = w[u]
  PROVE  Served(c, v, q, w2, x)
<1>1. \A u \in Threads : Does(w2[u], c) <=> Does(w[u], c)
  BY DEF Does
<1>2. \A u \in Threads : Does(w2[u], c) => w2[u] = w[u]
  BY DEF Does
<1>3. OneJob(q, w2, c)
  BY <1>1 DEF Served, OneJob, AtWork
<1>4. ~InQueue(q, c) /\ ~AtWork(w2, c) => Before(v) \/ After(v)
  BY <1>1 DEF Served, AtWork
<1>5. \A i \in 1 .. Len(q) : Of(q[i], c) => Waits(q[i].p, v)
  BY DEF Served
<1>6. ASSUME NEW u \in Threads, Does(w2[u], c)
      PROVE  IF x[u].at = "none" THEN Waits(w2[u].job.p, v) ELSE Converses(x[u], v)
  <2>1. Does(w[u], c) /\ w2[u] = w[u]
    BY <1>1, <1>2, <1>6
  <2>2. IF x[u].at = "none" THEN Waits(w[u].job.p, v) ELSE Converses(x[u], v)
    BY <2>1 DEF Served
  <2>3. QED  BY <2>1, <2>2
<1>7. QED  BY <1>3, <1>4, <1>5, <1>6 DEF Served

\* A thread takes the first job of the queue.
LEMMA ServedTakes ==
  ASSUME NEW c, NEW v, NEW q \in Seq(Jobs), NEW w, NEW w2, NEW x, Served(c, v, q, w, x),
         q # <<>>, NEW t \in Threads, w[t].at # "run", x[t].at = "none",
         w2[t].at = "run", w2[t].job = Head(q), \A u \in Threads \ {t} : w2[u] = w[u]
  PROVE  Served(c, v, Tail(q), w2, x)
<1>1. PICK n \in Nat : n = Len(q)
  OBVIOUS
<1>2. /\ n > 0 /\ Head(q) = q[1] /\ Len(Tail(q)) = n - 1
      /\ \A i \in 1 .. Len(Tail(q)) : Tail(q)[i] = q[i + 1]
  BY <1>1, HeadTailProperties
<1>3. PICK r : r = Tail(q)
  OBVIOUS
<1>4. Len(r) = n - 1 /\ \A i \in 1 .. n - 1 : r[i] = q[i + 1] /\ i + 1 \in 1 .. n
  BY <1>1, <1>2, <1>3
<1>5. \A u \in Threads \ {t} : Does(w2[u], c) <=> Does(w[u], c)
  OBVIOUS
<1>6. ~Does(w[t], c)
  BY DEF Does
<1>7. Does(w2[t], c) <=> Of(q[1], c)
  BY <1>2 DEF Does
<1>8. OneJob(q, w, c) /\ 1 \in 1 .. n
  BY <1>2 DEF Served
<1>9. Of(q[1], c) => (\A i \in 1 .. n - 1 : ~Of(r[i], c)) /\ ~AtWork(w, c)
  <2>1. ASSUME Of(q[1], c), NEW i \in 1 .. n - 1, Of(r[i], c)  PROVE FALSE
    <3>1. Of(q[i + 1], c) /\ i + 1 \in 1 .. n
      BY <1>4, <2>1
    <3>2. 1 = i + 1
      BY <1>1, <1>8, <2>1, <3>1 DEF OneJob
    <3>3. QED  BY <3>2
  <2>2. Of(q[1], c) => InQueue(q, c)
    BY <1>1, <1>8 DEF InQueue
  <2>3. QED  BY <2>1, <2>2, <1>8 DEF OneJob
<1>10. InQueue(r, c) => InQueue(q, c)
  BY <1>1, <1>4 DEF InQueue
<1>11. OneJob(r, w2, c)
  <2>1. ASSUME NEW i \in 1 .. Len(r), NEW k \in 1 .. Len(r), Of(r[i], c), Of(r[k], c)
        PROVE  i = k
    <3>1. Of(q[i + 1], c) /\ Of(q[k + 1], c) /\ i + 1 \in 1 .. Len(q) /\ k + 1 \in 1 .. Len(q)
      BY <1>1, <1>4, <2>1
    <3>2. i + 1 = k + 1
      BY <1>8, <3>1 DEF OneJob
    <3>3. QED  BY <1>4, <3>2
  <2>2. ASSUME NEW a \in Threads, NEW b \in Threads, Does(w2[a], c), Does(w2[b], c)
        PROVE  a = b
    <3>1. CASE Of(q[1], c)
      BY <3>1, <1>5, <1>9, <2>2 DEF AtWork
    <3>2. CASE ~Of(q[1], c)
      <4>1. a # t /\ b # t
        BY <3>2, <1>7, <2>2
      <4>2. Does(w[a], c) /\ Does(w[b], c)
        BY <4>1, <1>5, <2>2
      <4>3. QED  BY <4>2, <1>8 DEF OneJob
    <3>3. QED  BY <3>1, <3>2
  <2>3. InQueue(r, c) => ~AtWork(w2, c)
    <3>1. CASE Of(q[1], c)
      BY <3>1, <1>4, <1>9 DEF InQueue
    <3>2. CASE ~Of(q[1], c)
      BY <3>2, <1>5, <1>7, <1>8, <1>10 DEF OneJob, AtWork
    <3>3. QED  BY <3>1, <3>2
  <2>4. QED  BY <2>1, <2>2, <2>3 DEF OneJob
<1>12. ASSUME ~InQueue(r, c), ~AtWork(w2, c)
       PROVE  Before(v) \/ After(v)
  <2>1. ~Of(q[1], c)
    BY <1>7, <1>12 DEF AtWork
  <2>2. ~AtWork(w, c)
    BY <1>5, <1>6, <1>12 DEF AtWork
  <2>3. \A i \in 1 .. n : ~Of(q[i], c)
    <3>1. TAKE i \in 1 .. n
    <3>2. CASE i = 1
      BY <3>2, <2>1
    <3>3. CASE i # 1
      <4>1. i - 1 \in 1 .. n - 1 /\ (i - 1) + 1 = i
        BY <3>3
      <4>2. r[i - 1] = q[i]
        BY <4>1, <1>4
      <4>3. ~Of(r[i - 1], c)
        BY <4>1, <1>4, <1>12 DEF InQueue
      <4>4. QED  BY <4>2, <4>3
    <3>4. QED  BY <3>2, <3>3
  <2>4. ~InQueue(q, c)
    BY <1>1, <2>3 DEF InQueue
  <2>5. QED  BY <2>2, <2>4 DEF Served
<1>13. \A i \in 1 .. Len(r) : Of(r[i], c) => Waits(r[i].p, v)
  BY <1>1, <1>4 DEF Served
<1>14. ASSUME NEW u \in Threads, Does(w2[u], c)
       PROVE  IF x[u].at = "none" THEN Waits(w2[u].job.p, v) ELSE Converses(x[u], v)
  <2>1. CASE u = t
    <3>1. Of(q[1], c) /\ w2[u].job.p = q[1].p
      BY <1>2, <1>7, <1>14, <2>1
    <3>2. Waits(q[1].p, v)
      BY <3>1, <1>1, <1>8 DEF Served
    <3>3. QED  BY <3>1, <3>2, <2>1
  <2>2. CASE u # t
    <3>1. Does(w[u], c) /\ w2[u] = w[u]
      BY <1>5, <1>14, <2>2
    <3>2. IF x[u].at = "none" THEN Waits(w[u].job.p, v) ELSE Converses(x[u], v)
      BY <3>1 DEF Served
    <3>3. QED  BY <3>1, <3>2
  <2>3. QED  BY <2>1, <2>2
<1>15. Served(c, v, r, w2, x)
  BY <1>11, <1>12, <1>13, <1>14 DEF Served
<1>16. QED  BY <1>3, <1>15

\* A job of another client, or the console's, is put in the queue.
LEMMA ServedBehind ==
  ASSUME NEW c, NEW v, NEW q \in Seq(Jobs), NEW w, NEW x, Served(c, v, q, w, x),
         NEW j \in Jobs, ~Of(j, c)
  PROVE  Served(c, v, Append(q, j), w, x)
<1>1. PICK n \in Nat : n = Len(q)
  OBVIOUS
<1>2. PICK r : r = Append(q, j)
  OBVIOUS
<1>3. Len(r) = n + 1 /\ (\A i \in 1 .. n : r[i] = q[i]) /\ r[n + 1] = j
  BY <1>1, <1>2, AppendProperties
<1>4. \A i \in 1 .. Len(r) : Of(r[i], c) => i \in 1 .. Len(q) /\ r[i] = q[i]
  <2>1. TAKE i \in 1 .. Len(r)
  <2>2. CASE i = n + 1
    BY <2>2, <1>3
  <2>3. CASE i \in 1 .. n
    BY <2>3, <1>1, <1>3
  <2>4. QED  BY <2>2, <2>3, <1>3
<1>5. \A i \in 1 .. Len(q) : i \in 1 .. Len(r) /\ r[i] = q[i]
  BY <1>1, <1>3
<1>6. InQueue(r, c) <=> InQueue(q, c)
  BY <1>4, <1>5 DEF InQueue
<1>7. OneJob(q, w, c)
  BY DEF Served
<1>8. \A i, k \in 1 .. Len(r) : Of(r[i], c) /\ Of(r[k], c) => i = k
  BY <1>4, <1>7 DEF OneJob
<1>9. OneJob(r, w, c)
  BY <1>6, <1>7, <1>8 DEF OneJob
<1>10. \A i \in 1 .. Len(r) : Of(r[i], c) => Waits(r[i].p, v)
  BY <1>4 DEF Served
<1>11. Served(c, v, r, w, x)
  BY <1>6, <1>9, <1>10 DEF Served
<1>12. QED  BY <1>2, <1>11

\* The job of a client that had none.
LEMMA ServedComes ==
  ASSUME NEW c, NEW z, NEW q \in Seq(Jobs), NEW w, NEW x, NEW j \in Jobs, Of(j, c),
         ~InQueue(q, c), ~AtWork(w, c), Waits(j.p, z)
  PROVE  Served(c, z, Append(q, j), w, x)
<1>1. PICK n \in Nat : n = Len(q)
  OBVIOUS
<1>2. PICK r : r = Append(q, j)
  OBVIOUS
<1>3. Len(r) = n + 1 /\ (\A i \in 1 .. n : r[i] = q[i]) /\ r[n + 1] = j
  BY <1>1, <1>2, AppendProperties
<1>4. \A i \in 1 .. Len(r) : Of(r[i], c) => i = n + 1
  <2>1. TAKE i \in 1 .. Len(r)
  <2>2. CASE i \in 1 .. n
    BY <2>2, <1>1, <1>3 DEF InQueue
  <2>3. QED  BY <2>2, <1>3
<1>5. InQueue(r, c)
  BY <1>3 DEF InQueue
<1>6. \A u \in Threads : ~Does(w[u], c)
  BY DEF AtWork
<1>7. OneJob(r, w, c)
  BY <1>4, <1>6 DEF OneJob, AtWork
<1>8. \A i \in 1 .. Len(r) : Of(r[i], c) => Waits(r[i].p, z)
  BY <1>3, <1>4
<1>9. Served(c, z, r, w, x)
  BY <1>5, <1>6, <1>7, <1>8 DEF Served
<1>10. QED  BY <1>2, <1>9

\* The jobs that were left in the queue are thrown away.
LEMMA ServedCleared ==
  ASSUME NEW c, NEW v, NEW q, NEW w, NEW x, Served(c, v, q, w, x), v.loop = "ended"
  PROVE  Served(c, v, <<>>, w, x)
<1>1. Len(<<>>) = 0
  OBVIOUS
<1>2. ~InQueue(<<>>, c) /\ OneJob(<<>>, w, c)
  BY <1>1 DEF InQueue, OneJob, Served
<1>3. ASSUME ~AtWork(w, c)  PROVE Before(v) \/ After(v)
  <2>1. CASE InQueue(q, c)
    <3>1. PICK i \in 1 .. Len(q) : Of(q[i], c)
      BY <2>1 DEF InQueue
    <3>2. Waits(q[i].p, v)
      BY <3>1 DEF Served
    <3>3. QED  BY <3>2, ThrownAway
  <2>2. QED  BY <1>3, <2>1 DEF Served
<1>4. \A i \in 1 .. Len(<<>>) : Of(<<>>[i], c) => Waits(<<>>[i].p, v)
  BY <1>1
<1>5. QED  BY <1>2, <1>3, <1>4 DEF Served

-----------------------------------------------------------------------------
(***************************************************************************)
(* The types.                                                              *)
(***************************************************************************)

\* What a thread is doing.
LEMMA PlaceTypes ==
  /\ \A p \in {"loop", "enter", "wait", "awake", "gone"} : At(p) \in Places /\ At(p).at = p
  /\ \A j \in Jobs : [at |-> "run", job |-> j] \in Places
  /\ \A w \in Places : /\ w.at \in {"loop", "enter", "wait", "awake", "gone", "run"}
                       /\ w.at = "run" => w.job \in Jobs
BY DEF Places, At

\* The jobs: the console's, or one of a client.
LEMMA JobTypes ==
  /\ Quit \in Jobs /\ IsQuit(Quit)
  /\ \A j \in Jobs : ~IsQuit(j) => j.client \in Clients /\ j.p \in Numbered
  /\ \A c \in Clients : \A p \in Numbered :
       /\ [client |-> c, p |-> p] \in Jobs
       /\ p.n > 0 => ~IsQuit([client |-> c, p |-> p])
BY DEF Jobs, Quit, IsQuit, Nothing, Numbered

\* What a thread says of its job.
LEMMA TalkTypes ==
  /\ Silent \in Talks /\ Silent.at = "none"
  /\ \A x \in Talks : x.at # "none" =>
       /\ x.got \in Seq(Numbered)
       /\ \A p \in {"reserve", "mark", "reply", "wake", "sleep", "answer"} :
            /\ [x EXCEPT !.at = p] \in Talks
            /\ [x EXCEPT !.at = p].at = p /\ [x EXCEPT !.at = p].got = x.got
  /\ \A p \in {"reserve", "answer"} : \A s \in Seq(Numbered) : [at |-> p, got |-> s] \in Talks
BY DEF Talks, Silent

\* What a client is doing at its end.
LEMMA PeerTypes ==
  /\ \A p \in {"new", "connecting", "connected", "answered", "closed", "reset", "gone"} :
       [at |-> p] \in PeerStates
  /\ \A p \in Numbered : [at |-> "asking", p |-> p] \in PeerStates
  /\ \A e \in PeerStates : e.at = "asking" => e.p \in Numbered
BY DEF PeerStates

\* The packets.
LEMMA PacketTypes ==
  /\ Nothing \in Numbered /\ Null \in Numbered
  /\ \A n, k \in Nat : /\ Packet(n, k) \in Numbered
                       /\ Packet(n, k).n = n /\ Packet(n, k).of = k
BY DEF Nothing, Null, Packet, Numbered

\* The threads that wait are woken.
LEMMA BroadcastTypes ==
  ASSUME thread \in [Threads -> Places]
  PROVE  /\ Broadcast \in [Threads -> Places]
         /\ \A u \in Threads :
              /\ thread[u].at = "run" \/ Broadcast[u].at = "run" => Broadcast[u] = thread[u]
              /\ thread[u].at = "gone" => Broadcast[u].at = "gone"
BY PlaceTypes DEF Broadcast

\* The end of a turn of the server.
LEMMA EndsTypes ==
  ASSUME NEW flags \in [Clients -> BOOLEAN], NEW data \in [Clients -> Numbered],
         NEW sems \in [Clients -> Nat], NEW left \in SUBSET Clients,
         loop \in {"select", "ended"}, EndsTurn(flags, data, sems, left)
  PROVE  /\ connections' \subseteq Clients /\ isWaitingForData' \in [Clients -> BOOLEAN]
         /\ arriveData' \in [Clients -> Numbered] /\ waitForData' \in [Clients -> Nat]
         /\ loop' \in {"select", "ended"} /\ (loop = "ended" => loop' = "ended")
         /\ loop' = "select" => connections' = left
<1>1. connections' \subseteq Clients
  BY DEF EndsTurn
<1>2. isWaitingForData' \in [Clients -> BOOLEAN]
  BY DEF EndsTurn
<1>3. arriveData' \in [Clients -> Numbered]
  BY PacketTypes DEF EndsTurn
<1>4. waitForData' \in [Clients -> Nat]
  BY DEF EndsTurn
<1>5. QED  BY <1>1, <1>2, <1>3, <1>4 DEF EndsTurn

-----------------------------------------------------------------------------
(***************************************************************************)
(* The steps of the clients and of the server: every client stays served.  *)
(***************************************************************************)

\* Two views that agree.
LEMMA KeepsAlike ==
  ASSUME NEW v, NEW z, z.end = v.end, z.in = v.in, z.replied = v.replied,
         z.flag = v.flag, z.data = v.data, z.sem = v.sem, z.loop = v.loop
  PROVE  Keeps(v, z)
<1>1. Before(v) \/ After(v) => Before(z) \/ After(z)
  BY DEF Before, After
<1>2. \A p : Waits(p, v) => Waits(p, z)
  BY DEF Waits, Expects
<1>3. ASSUME NEW at, NEW k \in 2 .. MaxPackets, NEW m \in 1 .. k, Place(at, m, k, v)
      PROVE  Place(at, m, k, z)
  BY <1>3 DEF Place, Holds, Listening, Stuck, Asked, Sent, Arrived, Expects, Fresh
<1>4. QED  BY <1>1, <1>2, <1>3 DEF Keeps

\* What a client does at its end.
LEMMA ClientsServed ==
  ASSUME ServerInv, NEW c \in Clients, NEW d \in Clients,
         Connects(c) \/ Asks(c) \/ GoesOn(c) \/ HangsUp(c) \/ Resets(c) \/ Accepts(c)
  PROVE  Served(d, View(d)', queue', thread', talk')
<1>1. PICK v : v = View(d)
  OBVIOUS
<1>2. PICK z : z = View(d)'
  OBVIOUS
<1>3. /\ v.end = peer[d] /\ v.in = inbox[d] /\ v.replied = replies[d] /\ v.loop = loop
      /\ v.flag = isWaitingForData[d] /\ v.data = arriveData[d] /\ v.sem = waitForData[d]
  BY <1>1 DEF View
<1>4. /\ z.end = peer'[d] /\ z.in = inbox'[d] /\ z.replied = replies'[d] /\ z.loop = loop'
      /\ z.flag = isWaitingForData'[d] /\ z.data = arriveData'[d] /\ z.sem = waitForData'[d]
  BY <1>2 DEF View
<1>5. /\ queue' = queue /\ thread' = thread /\ talk' = talk
      /\ isWaitingForData' = isWaitingForData /\ arriveData' = arriveData
      /\ waitForData' = waitForData /\ loop' = loop
  BY DEF Connects, Asks, GoesOn, HangsUp, Resets, Accepts, pool, server
<1>6. /\ peer \in [Clients -> PeerStates] /\ inbox \in [Clients -> Seq(Numbered)]
      /\ replies \in [Clients -> Nat]
  BY DEF ServerInv, Typed
<1>7. z.flag = v.flag /\ z.data = v.data /\ z.sem = v.sem /\ z.loop = v.loop
  BY <1>3, <1>4, <1>5
<1>8. Keeps(v, z)
  <2>1. CASE d # c
    <3>1. z.end = v.end /\ z.in = v.in /\ z.replied = v.replied
      BY <1>3, <1>4, <1>6, <2>1
         DEF Connects, Asks, GoesOn, HangsUp, Resets, Accepts, peers
    <3>2. QED  BY <1>7, <3>1, KeepsAlike
  <2>2. CASE d = c
    <3>1. CASE Connects(c) \/ Accepts(c)
      <4>1. v.end.at \in {"new", "connecting"} /\ z.end.at \in {"connecting", "connected"}
        BY <3>1, <2>2, <1>3, <1>4, <1>6 DEF Connects, Accepts
      <4>2. z.in = v.in /\ z.replied = v.replied
        BY <3>1, <2>2, <1>3, <1>4 DEF Connects, Accepts
      <4>3. QED  BY <1>7, <4>1, <4>2, KeepsConnects
    <3>2. CASE Asks(c)
      <4>1. PICK n \in {1, MaxPackets} :
              /\ peer' = [peer EXCEPT ![c] = [at |-> "asking", p |-> Packet(1, n)]]
              /\ inbox' = [inbox EXCEPT ![c] = Append(@, Packet(1, n))]
        BY <3>2 DEF Asks
      <4>2. n \in 1 .. MaxPackets
        BY ServerAssumption
      <4>3. v.end.at = "connected" /\ z.replied = v.replied
        BY <3>2, <2>2, <1>3, <1>4 DEF Asks
      <4>4. /\ z.end = [at |-> "asking", p |-> Packet(1, n)]
            /\ z.in = Append(v.in, Packet(1, n))
        BY <4>1, <2>2, <1>3, <1>4, <1>6
      <4>5. QED  BY <1>7, <4>2, <4>3, <4>4, KeepsAsks
    <3>3. CASE GoesOn(c)
      <4>1. v.end.at = "asking" /\ v.replied > 0 /\ v.replied \in Nat
        BY <3>3, <2>2, <1>3, <1>6 DEF GoesOn
      <4>2. v.end.p \in Numbered
        BY <4>1, <1>3, <1>6, PeerTypes
      <4>3. z.replied = v.replied - 1
        BY <3>3, <2>2, <1>3, <1>4, <1>6 DEF GoesOn
      <4>4. \/ /\ IsLast(v.end.p) /\ z.end = [at |-> "answered"] /\ z.in = v.in
            \/ /\ ~IsLast(v.end.p)
               /\ z.end = [at |-> "asking", p |-> Packet(v.end.p.n + 1, v.end.p.of)]
               /\ z.in = Append(v.in, Packet(v.end.p.n + 1, v.end.p.of))
        BY <3>3, <2>2, <1>3, <1>4, <1>6 DEF GoesOn
      <4>5. QED  BY <1>7, <4>1, <4>2, <4>3, <4>4, KeepsGoesOn
    <3>4. CASE HangsUp(c)
      <4>1. v.end.at \in {"answered", "connected", "asking"} /\ z.end = [at |-> "closed"]
        BY <3>4, <2>2, <1>3, <1>4, <1>6 DEF HangsUp
      <4>2. z.in = v.in /\ z.replied = v.replied
        BY <3>4, <2>2, <1>3, <1>4 DEF HangsUp
      <4>3. QED  BY <1>7, <4>1, <4>2, KeepsHangsUp
    <3>5. CASE Resets(c)
      <4>1. v.end.at \in {"connected", "asking"} /\ z.end = [at |-> "reset"] /\ z.in = <<>>
        BY <3>5, <2>2, <1>3, <1>4, <1>6 DEF Resets
      <4>2. z.replied = v.replied
        BY <3>5, <2>2, <1>3, <1>4 DEF Resets
      <4>3. QED  BY <1>7, <4>1, <4>2, KeepsResets
    <3>6. QED  BY <3>1, <3>2, <3>3, <3>4, <3>5
  <2>3. QED  BY <2>1, <2>2
<1>9. Served(d, v, queue, thread, talk)
  BY <1>1 DEF ServerInv
<1>10. Served(d, z, queue, thread, talk)
  BY <1>8, <1>9, ServedKept
<1>11. QED  BY <1>2, <1>5, <1>10

\* What the end of a turn does to a client that was seen as y before it.
LEMMA EndsSeen ==
  ASSUME NEW flags \in [Clients -> BOOLEAN], NEW data, NEW sems \in [Clients -> Nat],
         NEW left, EndsTurn(flags, data, sems, left), NEW d \in Clients, NEW y,
         y.end = peer'[d], y.in = inbox'[d], y.replied = replies'[d], y.flag = flags[d],
         y.data = data[d], y.sem = sems[d], y.loop = loop
  PROVE  Keeps(y, View(d)')
<1>1. PICK z : z = View(d)'
  OBVIOUS
<1>2. /\ z.end = peer'[d] /\ z.in = inbox'[d] /\ z.replied = replies'[d] /\ z.loop = loop'
      /\ z.flag = isWaitingForData'[d] /\ z.data = arriveData'[d] /\ z.sem = waitForData'[d]
  BY <1>1 DEF View
<1>3. CASE closeAll
  <2>1. z.flag = FALSE /\ z.loop = "ended"
    BY <1>2, <1>3 DEF EndsTurn
  <2>2. \/ y.flag = TRUE /\ z.data = Null /\ z.sem = y.sem + 1
        \/ z.data = y.data /\ z.sem = y.sem
    BY <1>2, <1>3 DEF EndsTurn
  <2>3. y.flag \in BOOLEAN /\ y.sem \in Nat
    OBVIOUS
  <2>4. z.end = y.end /\ z.in = y.in /\ z.replied = y.replied
    BY <1>2
  <2>5. Keeps(y, z)
    <3>1. CASE y.flag = TRUE /\ z.data = Null /\ z.sem = y.sem + 1
      BY <2>1, <2>3, <2>4, <3>1, KeepsEnds
    <3>2. CASE z.data = y.data /\ z.sem = y.sem
      BY <2>1, <2>3, <2>4, <3>2, KeepsEnds
    <3>3. QED  BY <2>2, <3>1, <3>2
  <2>6. QED  BY <1>1, <2>5
<1>4. CASE ~closeAll
  <2>1. /\ z.flag = y.flag /\ z.loop = y.loop /\ z.data = y.data /\ z.sem = y.sem
        /\ z.end = y.end /\ z.in = y.in /\ z.replied = y.replied
    BY <1>2, <1>4 DEF EndsTurn
  <2>2. Keeps(y, z)
    BY <2>1, KeepsAlike
  <2>3. QED  BY <1>1, <2>2
<1>5. QED  BY <1>3, <1>4

\* One after the other.
LEMMA KeepsTwice ==
  ASSUME NEW v, NEW y, NEW z, Keeps(v, y), Keeps(y, z)
  PROVE  Keeps(v, z)
BY DEF Keeps

\* A turn that ends, seen by a client it was not about.
LEMMA OthersSeen ==
  ASSUME Typed, NEW flags \in [Clients -> BOOLEAN], NEW data, NEW sems \in [Clients -> Nat],
         NEW left, EndsTurn(flags, data, sems, left), NEW d \in Clients,
         peer'[d] = peer[d], inbox'[d] = inbox[d], replies'[d] = replies[d],
         flags[d] = isWaitingForData[d], data[d] = arriveData[d], sems[d] = waitForData[d]
  PROVE  Keeps(View(d), View(d)')
<1>1. PICK v : v = View(d)
  OBVIOUS
<1>2. /\ v.end = peer[d] /\ v.in = inbox[d] /\ v.replied = replies[d] /\ v.loop = loop
      /\ v.flag = isWaitingForData[d] /\ v.data = arriveData[d] /\ v.sem = waitForData[d]
  BY <1>1 DEF View
<1>3. Keeps(v, View(d)')
  BY <1>2, EndsSeen
<1>4. QED  BY <1>1, <1>3

\* The records with which a turn about c ends.
LEMMA TurnsEnd ==
  ASSUME Typed, NEW c \in Clients, NEW p \in Numbered, NEW left \in SUBSET Clients,
         IF isWaitingForData[c]
           THEN EndsTurn([isWaitingForData EXCEPT ![c] = FALSE], [arriveData EXCEPT ![c] = p],
                         [waitForData EXCEPT ![c] = @ + 1], left)
           ELSE EndsTurn(isWaitingForData, arriveData, waitForData, left)
  PROVE  \E flags \in [Clients -> BOOLEAN], data \in [Clients -> Numbered],
            sems \in [Clients -> Nat] :
           /\ EndsTurn(flags, data, sems, left)
           /\ \A d \in Clients \ {c} : /\ flags[d] = isWaitingForData[d]
                                       /\ data[d] = arriveData[d] /\ sems[d] = waitForData[d]
           /\ flags[c] = FALSE
           /\ \/ isWaitingForData[c] = TRUE /\ data[c] = p /\ sems[c] = waitForData[c] + 1
              \/ /\ isWaitingForData[c] = FALSE
                 /\ data[c] = arriveData[c] /\ sems[c] = waitForData[c]
<1>1. /\ isWaitingForData \in [Clients -> BOOLEAN] /\ arriveData \in [Clients -> Numbered]
      /\ waitForData \in [Clients -> Nat]
  BY DEF Typed
<1>2. CASE isWaitingForData[c]
  <2>1. PICK flags : flags = [isWaitingForData EXCEPT ![c] = FALSE]
    OBVIOUS
  <2>2. PICK data : data = [arriveData EXCEPT ![c] = p]
    OBVIOUS
  <2>3. PICK sems : sems = [waitForData EXCEPT ![c] = @ + 1]
    OBVIOUS
  <2>4. EndsTurn(flags, data, sems, left)
    BY <1>2, <2>1, <2>2, <2>3
  <2>5. /\ flags \in [Clients -> BOOLEAN] /\ flags[c] = FALSE
        /\ \A d \in Clients \ {c} : flags[d] = isWaitingForData[d]
    BY <1>1, <2>1
  <2>6. /\ data \in [Clients -> Numbered] /\ data[c] = p
        /\ \A d \in Clients \ {c} : data[d] = arriveData[d]
    BY <1>1, <2>2
  <2>7. /\ sems \in [Clients -> Nat] /\ sems[c] = waitForData[c] + 1
        /\ \A d \in Clients \ {c} : sems[d] = waitForData[d]
    BY <1>1, <2>3
  <2>8. isWaitingForData[c] = TRUE
    BY <1>1, <1>2
  <2>9. QED  BY <2>4, <2>5, <2>6, <2>7, <2>8
<1>3. CASE ~isWaitingForData[c]
  <2>1. isWaitingForData[c] = FALSE
    BY <1>1, <1>3
  <2>2. EndsTurn(isWaitingForData, arriveData, waitForData, left)
    BY <1>3
  <2>3. QED  BY <1>1, <2>1, <2>2
<1>4. QED  BY <1>2, <1>3

\* A packet for a job that waits.
LEMMA ReservedServed ==
  ASSUME ServerInv, NEW c \in Clients, NEW d \in Clients, Receives(c), isWaitingForData[c]
  PROVE  Served(d, View(d)', queue', thread', talk')
<1>1. Typed /\ connections \in SUBSET Clients /\ inbox \in [Clients -> Seq(Numbered)]
  BY DEF ServerInv, Typed
<1>2. /\ c \in connections /\ inbox[c] # <<>> /\ inbox' = [inbox EXCEPT ![c] = Tail(@)]
      /\ queue' = queue /\ thread' = thread /\ talk' = talk /\ peer' = peer
      /\ replies' = replies /\ loop = "select"
  BY DEF Receives, Selects
<1>3. PICK p \in Numbered : p = Head(inbox[c])
  BY <1>1, <1>2, HeadTailProperties
<1>4. EndsTurn([isWaitingForData EXCEPT ![c] = FALSE], [arriveData EXCEPT ![c] = p],
               [waitForData EXCEPT ![c] = @ + 1], connections)
  BY <1>3 DEF Receives, Posts
<1>5. PICK flags \in [Clients -> BOOLEAN], data \in [Clients -> Numbered],
           sems \in [Clients -> Nat] :
        /\ EndsTurn(flags, data, sems, connections)
        /\ \A e \in Clients \ {c} : /\ flags[e] = isWaitingForData[e]
                                    /\ data[e] = arriveData[e] /\ sems[e] = waitForData[e]
        /\ flags[c] = FALSE
        /\ \/ isWaitingForData[c] = TRUE /\ data[c] = p /\ sems[c] = waitForData[c] + 1
           \/ /\ isWaitingForData[c] = FALSE
              /\ data[c] = arriveData[c] /\ sems[c] = waitForData[c]
  BY <1>1, <1>4, TurnsEnd
<1>6. PICK v : v = View(d)
  OBVIOUS
<1>7. /\ v.end = peer[d] /\ v.in = inbox[d] /\ v.replied = replies[d] /\ v.loop = loop
      /\ v.flag = isWaitingForData[d] /\ v.data = arriveData[d] /\ v.sem = waitForData[d]
  BY <1>6 DEF View
<1>8. Keeps(v, View(d)')
  <2>1. CASE d # c
    <3>1. inbox'[d] = inbox[d]
      BY <1>1, <1>2, <2>1
    <3>2. Keeps(View(d), View(d)')
      BY <1>1, <1>2, <1>5, <2>1, <3>1, OthersSeen
    <3>3. QED  BY <1>6, <3>2
  <2>2. CASE d = c
    <3>1. PICK y : y = [end |-> v.end, in |-> Tail(v.in), replied |-> v.replied,
                        flag |-> FALSE, data |-> p, sem |-> v.sem + 1, loop |-> v.loop]
      OBVIOUS
    <3>2. /\ y.end = v.end /\ y.in = Tail(v.in) /\ y.replied = v.replied /\ y.flag = FALSE
          /\ y.data = p /\ y.sem = v.sem + 1 /\ y.loop = v.loop
      BY <3>1
    <3>3. v.flag = TRUE
      BY <1>5, <1>7, <2>2
    <3>4. v.in # <<>> /\ v.loop = "select" /\ p = Head(v.in)
      BY <1>2, <1>3, <1>7, <2>2
    <3>5. Keeps(v, y)
      BY <3>2, <3>3, <3>4, KeepsReceives
    <3>6. inbox'[c] = Tail(inbox[c])
      BY <1>1, <1>2
    <3>7. /\ y.end = peer'[d] /\ y.in = inbox'[d] /\ y.replied = replies'[d]
          /\ y.flag = flags[d] /\ y.data = data[d] /\ y.sem = sems[d] /\ y.loop = loop
      <4>1. y.end = peer'[d] /\ y.replied = replies'[d] /\ y.loop = loop
        BY <1>2, <1>7, <3>2
      <4>2. y.in = inbox'[d]
        BY <1>7, <2>2, <3>2, <3>6
      <4>3. y.flag = flags[d] /\ y.data = data[d] /\ y.sem = sems[d]
        BY <1>5, <1>7, <2>2, <3>2, <3>3
      <4>4. QED  BY <4>1, <4>2, <4>3
    <3>8. Keeps(y, View(d)')
      BY <1>5, <3>7, EndsSeen
    <3>9. PICK z : z = View(d)'
      OBVIOUS
    <3>10. Keeps(v, z)
      BY <3>5, <3>8, <3>9, KeepsTwice
    <3>11. QED  BY <3>9, <3>10
  <2>3. QED  BY <2>1, <2>2
<1>9. PICK z : z = View(d)'
  OBVIOUS
<1>10. Served(d, v, queue, thread, talk)
  BY <1>6 DEF ServerInv
<1>11. Served(d, z, queue, thread, talk)
  BY <1>8, <1>9, <1>10, ServedKept
<1>12. QED  BY <1>2, <1>9, <1>11

\* A packet that nobody waits for becomes a job, of a client that had none.
LEMMA FirstServed ==
  ASSUME ServerInv, NEW c \in Clients, NEW d \in Clients, Receives(c), ~isWaitingForData[c]
  PROVE  /\ Served(d, View(d)', queue', thread', talk')
         /\ \E j \in Jobs : queue' = Append(queue, j)
         /\ thread' = Broadcast
<1>1. /\ Typed /\ connections \in SUBSET Clients /\ inbox \in [Clients -> Seq(Numbered)]
      /\ arriveData \in [Clients -> Numbered] /\ waitForData \in [Clients -> Nat]
      /\ isWaitingForData \in [Clients -> BOOLEAN] /\ queue \in Seq(Jobs)
      /\ thread \in [Threads -> Places]
  BY DEF ServerInv, Typed
<1>2. /\ c \in connections /\ inbox[c] # <<>> /\ inbox' = [inbox EXCEPT ![c] = Tail(@)]
      /\ talk' = talk /\ peer' = peer /\ replies' = replies /\ loop = "select"
  BY DEF Receives, Selects
<1>3. PICK p \in Numbered : p = Head(inbox[c])
  BY <1>1, <1>2, HeadTailProperties
<1>4. EndsTurn(isWaitingForData, arriveData, waitForData, connections) /\ Arrives(c, p)
  BY <1>3 DEF Receives, Posts
<1>5. isWaitingForData[c] = FALSE
  BY <1>1
<1>6. PICK v : v = View(c)
  OBVIOUS
<1>7. /\ v.end = peer[c] /\ v.in = inbox[c] /\ v.replied = replies[c] /\ v.loop = loop
      /\ v.flag = isWaitingForData[c] /\ v.data = arriveData[c] /\ v.sem = waitForData[c]
  BY <1>6 DEF View
<1>8. PICK y : y = [end |-> v.end, in |-> Tail(v.in), replied |-> v.replied,
                    flag |-> v.flag, data |-> v.data, sem |-> v.sem, loop |-> v.loop]
  OBVIOUS
<1>9. /\ y.end = v.end /\ y.in = Tail(v.in) /\ y.replied = v.replied /\ y.flag = v.flag
      /\ y.data = v.data /\ y.sem = v.sem /\ y.loop = v.loop
  BY <1>8
<1>10. Served(c, v, queue, thread, talk)
  BY <1>6 DEF ServerInv
<1>11. /\ \A r : ~Waits(r, v)
       /\ \A x : ~Converses(x, v)
       /\ Before(v) \/ After(v) =>
            (\E k \in 1 .. MaxPackets : p = Packet(1, k)) /\ Waits(p, y)
  <2>1. v.flag = FALSE /\ v.in # <<>> /\ v.loop = "select" /\ p = Head(v.in)
    BY <1>2, <1>3, <1>5, <1>7
  <2>2. QED  BY <2>1, <1>9, FirstReceived
<1>12. ~InQueue(queue, c) /\ ~AtWork(thread, c)
  BY <1>10, <1>11 DEF Served, InQueue, AtWork
<1>13. Before(v) \/ After(v)
  BY <1>10, <1>12 DEF Served
<1>14. PICK k \in 1 .. MaxPackets : p = Packet(1, k)
  BY <1>11, <1>13
<1>15. Waits(p, y)
  BY <1>11, <1>13
<1>16. p.n = 1 /\ p.of = k
  BY <1>14, PacketTypes
<1>17. ~(IsLast(p) /\ p.of > 1)
  BY <1>16 DEF IsLast
<1>18. ~terminate
  BY <1>2 DEF ServerInv, PoolOK
<1>19. PICK j : j = [client |-> c, p |-> p]
  OBVIOUS
<1>20. queue' = Append(queue, j) /\ thread' = Broadcast
  BY <1>4, <1>17, <1>18, <1>19 DEF Arrives, ThreadPool_AddJob, Wakened
<1>21. j \in Jobs /\ ~IsQuit(j) /\ j.client = c /\ j.p = p
  BY <1>16, <1>19, JobTypes
<1>22. \A u \in Threads :
          thread[u].at = "run" \/ Broadcast[u].at = "run" => Broadcast[u] = thread[u]
  BY <1>1, BroadcastTypes
<1>23. PICK z : z = View(d)'
  OBVIOUS
<1>24. Served(d, z, Append(queue, j), thread, talk)
  <2>1. CASE d = c
    <3>1. inbox'[c] = Tail(inbox[c])
      BY <1>1, <1>2
    <3>2. /\ y.end = peer'[c] /\ y.in = inbox'[c] /\ y.replied = replies'[c]
          /\ y.flag = isWaitingForData[c] /\ y.data = arriveData[c]
          /\ y.sem = waitForData[c] /\ y.loop = loop
      BY <1>2, <1>7, <1>9, <3>1
    <3>3. Keeps(y, z)
      BY <1>1, <1>4, <1>23, <2>1, <3>2, EndsSeen
    <3>4. Waits(j.p, z)
      BY <1>15, <1>21, <3>3 DEF Keeps
    <3>5. Of(j, c)
      BY <1>21 DEF Of
    <3>6. Served(c, z, Append(queue, j), thread, talk)
      BY <1>1, <1>12, <1>21, <3>4, <3>5, ServedComes
    <3>7. QED  BY <2>1, <3>6
  <2>2. CASE d # c
    <3>1. inbox'[d] = inbox[d]
      BY <1>1, <1>2, <2>2
    <3>2. Keeps(View(d), View(d)')
      BY <1>1, <1>2, <1>4, <3>1, OthersSeen
    <3>3. PICK o : o = View(d)
      OBVIOUS
    <3>4. Served(d, o, queue, thread, talk)
      BY <3>3 DEF ServerInv
    <3>5. Served(d, z, queue, thread, talk)
      BY <1>23, <3>2, <3>3, <3>4, ServedKept
    <3>6. ~Of(j, d)
      BY <1>21, <2>2 DEF Of
    <3>7. QED  BY <1>1, <1>21, <3>5, <3>6, ServedBehind
  <2>3. QED  BY <2>1, <2>2
<1>25. PICK w : w = Broadcast
  OBVIOUS
<1>26. Served(d, z, Append(queue, j), w, talk)
  BY <1>22, <1>24, <1>25, ServedIdles
<1>27. QED  BY <1>2, <1>20, <1>21, <1>23, <1>25, <1>26

\* The other end is closed, or the read fails.
LEMMA HangsServed ==
  ASSUME ServerInv, NEW c \in Clients, NEW d \in Clients, Disconnects(c) \/ ReceiveFails(c)
  PROVE  Served(d, View(d)', queue', thread', talk')
<1>1. /\ Typed /\ connections \in SUBSET Clients /\ peer \in [Clients -> PeerStates]
      /\ isWaitingForData \in [Clients -> BOOLEAN] /\ waitForData \in [Clients -> Nat]
  BY DEF ServerInv, Typed
<1>2. /\ queue' = queue /\ thread' = thread /\ talk' = talk /\ inbox' = inbox
      /\ replies' = replies /\ loop = "select"
  BY DEF Disconnects, ReceiveFails, Selects, pool
<1>3. \/ /\ peer[c].at = "closed" /\ inbox[c] = <<>>
         /\ peer' = [peer EXCEPT ![c] = [at |-> "gone"]]
      \/ peer[c].at = "reset" /\ peer' = [peer EXCEPT ![c] = [at |-> "closed"]]
  BY DEF Disconnects, ReceiveFails
<1>4. PICK p \in Numbered : p = Null
  BY PacketTypes
<1>5. PICK left \in SUBSET Clients :
        IF isWaitingForData[c]
          THEN EndsTurn([isWaitingForData EXCEPT ![c] = FALSE], [arriveData EXCEPT ![c] = p],
                        [waitForData EXCEPT ![c] = @ + 1], left)
          ELSE EndsTurn(isWaitingForData, arriveData, waitForData, left)
  <2>1. CASE Disconnects(c)
    <3>1. connections \ {c} \in SUBSET Clients
      BY <1>1
    <3>2. QED  BY <1>4, <2>1, <3>1 DEF Disconnects, Hangs
  <2>2. CASE ReceiveFails(c)
    BY <1>1, <1>4, <2>2 DEF ReceiveFails, Posts
  <2>3. QED  BY <2>1, <2>2
<1>6. PICK flags \in [Clients -> BOOLEAN], data \in [Clients -> Numbered],
           sems \in [Clients -> Nat] :
        /\ EndsTurn(flags, data, sems, left)
        /\ \A e \in Clients \ {c} : /\ flags[e] = isWaitingForData[e]
                                    /\ data[e] = arriveData[e] /\ sems[e] = waitForData[e]
        /\ flags[c] = FALSE
        /\ \/ isWaitingForData[c] = TRUE /\ data[c] = p /\ sems[c] = waitForData[c] + 1
           \/ /\ isWaitingForData[c] = FALSE
              /\ data[c] = arriveData[c] /\ sems[c] = waitForData[c]
  BY <1>1, <1>5, TurnsEnd
<1>7. PICK v : v = View(d)
  OBVIOUS
<1>8. /\ v.end = peer[d] /\ v.in = inbox[d] /\ v.replied = replies[d] /\ v.loop = loop
      /\ v.flag = isWaitingForData[d] /\ v.data = arriveData[d] /\ v.sem = waitForData[d]
  BY <1>7 DEF View
<1>9. Keeps(v, View(d)')
  <2>1. CASE d # c
    <3>1. peer'[d] = peer[d]
      BY <1>1, <1>3, <2>1
    <3>2. Keeps(View(d), View(d)')
      BY <1>1, <1>2, <1>6, <2>1, <3>1, OthersSeen
    <3>3. QED  BY <1>7, <3>2
  <2>2. CASE d = c
    <3>1. PICK y : y = [end |-> peer'[c], in |-> v.in, replied |-> v.replied,
                        flag |-> FALSE, data |-> data[c], sem |-> sems[c], loop |-> v.loop]
      OBVIOUS
    <3>2. /\ y.end = peer'[c] /\ y.in = v.in /\ y.replied = v.replied /\ y.flag = FALSE
          /\ y.data = data[c] /\ y.sem = sems[c] /\ y.loop = v.loop
      BY <3>1
    <3>3. \/ v.end.at = "closed" /\ v.in = <<>> /\ y.end = [at |-> "gone"]
          \/ v.end.at = "reset" /\ y.end = [at |-> "closed"]
      BY <1>1, <1>3, <1>8, <2>2, <3>2
    <3>4. \/ v.flag = TRUE /\ y.data = Null /\ y.sem = v.sem + 1
          \/ v.flag = FALSE /\ y.data = v.data /\ y.sem = v.sem
      BY <1>4, <1>6, <1>8, <2>2, <3>2
    <3>5. v.sem \in Nat /\ v.flag \in BOOLEAN /\ v.loop = "select"
      BY <1>1, <1>2, <1>8
    <3>6. Keeps(v, y)
      BY <3>2, <3>3, <3>4, <3>5, KeepsHangs
    <3>7. /\ y.end = peer'[d] /\ y.in = inbox'[d] /\ y.replied = replies'[d]
          /\ y.flag = flags[d] /\ y.data = data[d] /\ y.sem = sems[d] /\ y.loop = loop
      BY <1>2, <1>6, <1>8, <2>2, <3>2
    <3>8. Keeps(y, View(d)')
      BY <1>6, <3>7, EndsSeen
    <3>9. PICK z : z = View(d)'
      OBVIOUS
    <3>10. Keeps(v, z)
      BY <3>6, <3>8, <3>9, KeepsTwice
    <3>11. QED  BY <3>9, <3>10
  <2>3. QED  BY <2>1, <2>2
<1>10. PICK z : z = View(d)'
  OBVIOUS
<1>11. Served(d, v, queue, thread, talk)
  BY <1>7 DEF ServerInv
<1>12. Served(d, z, queue, thread, talk)
  BY <1>9, <1>10, <1>11, ServedKept
<1>13. QED  BY <1>2, <1>10, <1>12

\* The view of a client of which nothing changes.
LEMMA SameView ==
  ASSUME NEW d \in Clients, UNCHANGED <<isWaitingForData, arriveData, waitForData, loop>>,
         peer'[d] = peer[d], inbox'[d] = inbox[d], replies'[d] = replies[d]
  PROVE  View(d)' = View(d)
BY DEF View

\* The console's line is put in the queue.
LEMMA QuitServed ==
  ASSUME ServerInv, NEW d \in Clients, ReadsQuit
  PROVE  Served(d, View(d)', queue', thread', talk')
<1>1. queue \in Seq(Jobs) /\ thread \in [Threads -> Places]
  BY DEF ServerInv, Typed
<1>2. ~terminate
  BY DEF ServerInv, PoolOK, ReadsQuit, Selects
<1>3. queue' = Append(queue, Quit) /\ thread' = Broadcast /\ talk' = talk
  BY <1>2 DEF ReadsQuit, ThreadPool_AddJob, Wakened
<1>4. View(d)' = View(d)
  BY SameView DEF ReadsQuit, server, peers
<1>5. PICK v : v = View(d)
  OBVIOUS
<1>6. Served(d, v, queue, thread, talk)
  BY <1>5 DEF ServerInv
<1>7. Quit \in Jobs /\ ~Of(Quit, d)
  BY JobTypes DEF Of
<1>8. Served(d, v, Append(queue, Quit), thread, talk)
  BY <1>1, <1>6, <1>7, ServedBehind
<1>9. PICK w : w = Broadcast
  OBVIOUS
<1>10. \A u \in Threads : thread[u].at = "run" \/ w[u].at = "run" => w[u] = thread[u]
  BY <1>1, <1>9, BroadcastTypes
<1>11. Served(d, v, Append(queue, Quit), w, talk)
  BY <1>8, <1>10, ServedIdles
<1>12. QED  BY <1>3, <1>4, <1>5, <1>9, <1>11

-----------------------------------------------------------------------------
(***************************************************************************)
(* The steps of the pool and of the jobs: every client stays served.       *)
(***************************************************************************)

\* How a thread of the pool moves when it has no job: without one still, or with the first.
LEMMA PoolMoves ==
  ASSUME Typed, NEW t \in Threads, PoolStep(t)
  PROVE  /\ thread[t].at \in {"loop", "enter", "awake"}
         /\ terminate' = terminate /\ owner' = owner
         /\ \/ /\ queue' = queue
               /\ \E p \in {"loop", "enter", "wait", "gone"} :
                    thread' = [thread EXCEPT ![t] = At(p)]
            \/ /\ queue # <<>> /\ queue' = Tail(queue)
               /\ thread' = [thread EXCEPT ![t] = [at |-> "run", job |-> Head(queue)]]
<1>1. CASE Tests(t)
  BY <1>1 DEF Tests
<1>2. CASE Enters(t)
  BY <1>2 DEF Enters, Takes
<1>3. CASE Wakes(t)
  BY <1>3 DEF Wakes, Takes
<1>4. QED  BY <1>1, <1>2, <1>3 DEF PoolStep

\* A thread of the pool without a job.
LEMMA PoolServed ==
  ASSUME ServerInv, NEW t \in Threads, NEW d \in Clients, ThreadTurn(t)
  PROVE  Served(d, View(d)', queue', thread', talk')
<1>1. Typed /\ queue \in Seq(Jobs) /\ thread \in [Threads -> Places]
  BY DEF ServerInv, Typed
<1>2. talk' = talk /\ View(d)' = View(d) /\ PoolStep(t)
  BY SameView DEF ThreadTurn, server, peers
<1>3. PICK v : v = View(d)
  OBVIOUS
<1>4. Served(d, v, queue, thread, talk)
  BY <1>3 DEF ServerInv
<1>5. thread[t].at # "run" /\ talk[t].at = "none"
  BY <1>1, <1>2, PoolMoves DEF ServerInv, Talkers
<1>6. PICK w : w = thread'
  OBVIOUS
<1>7. CASE \E p \in {"loop", "enter", "wait", "gone"} : thread' = [thread EXCEPT ![t] = At(p)]
  <2>1. PICK p \in {"loop", "enter", "wait", "gone"} : thread' = [thread EXCEPT ![t] = At(p)]
    BY <1>7
  <2>2. \A u \in Threads \ {t} : w[u] = thread[u]
    BY <1>1, <1>6, <2>1
  <2>3. w[t] = At(p)
    BY <1>1, <1>6, <2>1
  <2>4. w[t].at # "run"
    BY <2>3 DEF At
  <2>5. Served(d, v, queue, w, talk)
    BY <1>4, <1>5, <2>2, <2>4, ServedIdles
  <2>6. CASE queue' = queue
    BY <1>2, <1>3, <1>6, <2>5, <2>6
  <2>7. CASE thread' = [thread EXCEPT ![t] = [at |-> "run", job |-> Head(queue)]]
    BY <1>1, <1>6, <2>4, <2>7
  <2>8. QED  BY <1>1, <1>2, <2>6, <2>7, PoolMoves
<1>8. CASE /\ queue # <<>> /\ queue' = Tail(queue)
           /\ thread' = [thread EXCEPT ![t] = [at |-> "run", job |-> Head(queue)]]
  <2>1. \A u \in Threads \ {t} : w[u] = thread[u]
    BY <1>1, <1>6, <1>8
  <2>2. w[t].at = "run" /\ w[t].job = Head(queue)
    BY <1>1, <1>6, <1>8
  <2>3. Served(d, v, Tail(queue), w, talk)
    BY <1>1, <1>4, <1>5, <1>8, <2>1, <2>2, ServedTakes
  <2>4. QED  BY <1>2, <1>3, <1>6, <1>8, <2>3
<1>9. QED  BY <1>1, <1>2, <1>7, <1>8, PoolMoves

\* The end of the pool.
LEMMA FreesServed ==
  ASSUME ServerInv, NEW d \in Clients, Frees
  PROVE  Served(d, View(d)', queue', thread', talk')
<1>1. thread \in [Threads -> Places]
  BY DEF ServerInv, Typed
<1>2. talk' = talk /\ View(d)' = View(d) /\ loop = "ended"
  BY SameView DEF Frees, server, peers
<1>3. PICK v : v = View(d)
  OBVIOUS
<1>4. Served(d, v, queue, thread, talk)
  BY <1>3 DEF ServerInv
<1>5. v.loop = "ended"
  BY <1>2, <1>3 DEF View
<1>6. CASE ThreadPool_ExitWhenPossibleAsync
  <2>1. PICK w : w = Broadcast
    OBVIOUS
  <2>2. \A u \in Threads : thread[u].at = "run" \/ w[u].at = "run" => w[u] = thread[u]
    BY <1>1, <2>1, BroadcastTypes
  <2>3. Served(d, v, queue, w, talk)
    BY <1>4, <2>2, ServedIdles
  <2>4. queue' = queue /\ thread' = w
    BY <1>6, <2>1 DEF ThreadPool_ExitWhenPossibleAsync
  <2>5. QED  BY <1>2, <1>3, <2>3, <2>4
<1>7. CASE ThreadPool_ClearPendingJobs
  <2>1. queue' = <<>> /\ thread' = thread
    BY <1>7 DEF ThreadPool_ClearPendingJobs
  <2>2. Served(d, v, <<>>, thread, talk)
    BY <1>4, <1>5, ServedCleared
  <2>3. QED  BY <1>2, <1>3, <2>1, <2>2
<1>8. QED  BY <1>6, <1>7 DEF Frees

\* Whoever talks runs the job of a client.
LEMMA ClientOf ==
  ASSUME ServerInv, NEW t \in Threads, Running(t), ~IsQuit(thread[t].job)
  PROVE  /\ Client(t) \in Clients /\ Does(thread[t], Client(t))
         /\ \A d \in Clients \ {Client(t)} : ~Does(thread[t], d)
<1>1. thread[t] \in Places /\ thread[t].at = "run"
  BY DEF ServerInv, Typed, Running
<1>2. thread[t].job \in Jobs
  BY <1>1, PlaceTypes
<1>3. Client(t) \in Clients /\ Client(t) = thread[t].job.client
  BY <1>2, JobTypes DEF Client
<1>4. QED  BY <1>1, <1>3 DEF Does, Of

\* The console's line is carried out.
LEMMA CommandServed ==
  ASSUME ServerInv, NEW t \in Threads, NEW d \in Clients, CommandQuit(t)
  PROVE  Served(d, View(d)', queue', thread', talk')
<1>1. thread \in [Threads -> Places] /\ talk \in [Threads -> Talks]
  BY DEF ServerInv, Typed
<1>2. View(d)' = View(d)
  BY SameView DEF CommandQuit, peers
<1>3. PICK v : v = View(d)
  OBVIOUS
<1>4. PICK w : w = thread'
  OBVIOUS
<1>5. PICK x : x = talk'
  OBVIOUS
<1>6. /\ IsQuit(thread[t].job) /\ queue' = queue
      /\ thread' = [thread EXCEPT ![t] = At("loop")] /\ talk' = [talk EXCEPT ![t] = Silent]
  BY DEF CommandQuit, Leaves, Returns, Says
<1>7. \A u \in Threads \ {t} : w[u] = thread[u] /\ x[u] = talk[u]
  BY <1>1, <1>4, <1>5, <1>6
<1>8. w[t].at = "loop"
  BY <1>1, <1>4, <1>6 DEF At
<1>9. ~Does(thread[t], d) /\ ~Does(w[t], d)
  BY <1>6, <1>8 DEF Does, Of
<1>10. Served(d, v, queue, thread, talk)
  BY <1>3 DEF ServerInv
<1>11. Served(d, v, queue, w, x)
  BY <1>7, <1>9, <1>10, ServedAside
<1>12. QED  BY <1>2, <1>3, <1>4, <1>5, <1>6, <1>11

\* What the invariant says of a job that is run.
LEMMA JobKnown ==
  ASSUME ServerInv, NEW t \in Threads, Running(t)
  PROVE  /\ talk[t].at # "none" => /\ ~IsQuit(thread[t].job)
                                   /\ Converses(talk[t], View(Client(t)))
         /\ talk[t].at = "none" /\ ~IsQuit(thread[t].job) =>
              Waits(thread[t].job.p, View(Client(t)))
<1>1. talk[t].at # "none" => ~IsQuit(thread[t].job)
  BY DEF ServerInv, Talkers
<1>2. ASSUME ~IsQuit(thread[t].job)
      PROVE  IF talk[t].at = "none" THEN Waits(thread[t].job.p, View(Client(t)))
                                    ELSE Converses(talk[t], View(Client(t)))
  <2>1. Client(t) \in Clients /\ Does(thread[t], Client(t))
    BY <1>2, ClientOf
  <2>2. PICK c \in Clients : c = Client(t)
    BY <2>1
  <2>3. Served(c, View(c), queue, thread, talk)
    BY <2>2 DEF ServerInv
  <2>4. IF talk[t].at = "none" THEN Waits(thread[t].job.p, View(c))
                               ELSE Converses(talk[t], View(c))
    BY <2>1, <2>2, <2>3 DEF Served
  <2>5. QED  BY <2>2, <2>4
<1>3. QED  BY <1>1, <1>2

\* A job that moves on and is right about its client keeps every client served.
LEMMA JobMoves ==
  ASSUME ServerInv, NEW t \in Threads, NEW d \in Clients, NEW s, NEW v, NEW z, v = View(d),
         Running(t), ~IsQuit(thread[t].job), s.at # "none",
         talk' = [talk EXCEPT ![t] = s], queue' = queue, thread' = thread,
         d # Client(t) => z = v, d = Client(t) => Converses(s, z)
  PROVE  Served(d, z, queue', thread', talk')
<1>1. Served(d, v, queue, thread, talk)
  BY DEF ServerInv
<1>2. PICK x : x = talk'
  OBVIOUS
<1>3. x[t] = s /\ \A u \in Threads \ {t} : x[u] = talk[u]
  BY <1>2 DEF ServerInv, Typed
<1>4. CASE d = Client(t)
  <2>1. Does(thread[t], d)
    BY <1>4, ClientOf
  <2>2. Served(d, z, queue, thread, x)
    BY <1>1, <1>3, <1>4, <2>1, ServedTalks
  <2>3. QED  BY <1>2, <2>2
<1>5. CASE d # Client(t)
  <2>1. ~Does(thread[t], d)
    BY <1>5, ClientOf
  <2>2. Served(d, v, queue, thread, x)
    BY <1>1, <1>3, <2>1, ServedAside
  <2>3. QED  BY <1>2, <1>5, <2>2
<1>6. QED  BY <1>4, <1>5

\* So does one that ends and leaves its client as it should.
LEMMA JobEnds ==
  ASSUME ServerInv, NEW t \in Threads, NEW d \in Clients, NEW v, NEW z, v = View(d),
         Running(t), ~IsQuit(thread[t].job), Leaves(t), queue' = queue,
         d # Client(t) => z = v, d = Client(t) => After(z)
  PROVE  Served(d, z, queue', thread', talk')
<1>1. Served(d, v, queue, thread, talk)
  BY DEF ServerInv
<1>2. PICK x : x = talk'
  OBVIOUS
<1>3. PICK w : w = thread'
  OBVIOUS
<1>4. \A u \in Threads \ {t} : x[u] = talk[u] /\ w[u] = thread[u]
  BY <1>2, <1>3 DEF ServerInv, Typed, Leaves, Returns, Says
<1>5. w[t] = At("loop")
  BY <1>3 DEF ServerInv, Typed, Leaves, Returns
<1>6. w[t].at # "run"
  BY <1>5 DEF At
<1>7. CASE d = Client(t)
  <2>1. Does(thread[t], d)
    BY <1>7, ClientOf
  <2>2. Served(d, z, queue, w, x)
    BY <1>1, <1>4, <1>6, <1>7, <2>1, ServedLeaves
  <2>3. QED  BY <1>2, <1>3, <2>2
<1>8. CASE d # Client(t)
  <2>1. ~Does(thread[t], d) /\ ~Does(w[t], d)
    BY <1>6, <1>8, ClientOf DEF Does
  <2>2. Served(d, v, queue, w, x)
    BY <1>1, <1>4, <2>1, ServedAside
  <2>3. QED  BY <1>2, <1>3, <1>8, <2>2
<1>9. QED  BY <1>7, <1>8

\* The views of the clients when a reply is sent to one.
LEMMA RepliedViews ==
  ASSUME ServerInv, NEW c \in Clients, NEW d \in Clients, Replied(c),
         UNCHANGED <<isWaitingForData, arriveData, waitForData, loop, peer, inbox>>
  PROVE  /\ d # c => View(d)' = View(d)
         /\ d = c => Told(View(d), View(d)')
<1>1. replies \in [Clients -> Nat]
  BY DEF ServerInv, Typed
<1>2. CASE d # c
  <2>1. replies'[d] = replies[d]
    BY <1>1, <1>2 DEF Replied
  <2>2. QED  BY <1>2, <2>1, SameView
<1>3. CASE d = c
  <2>1. replies'[d] = IF peer[d].at = "asking" THEN replies[d] + 1 ELSE replies[d]
    BY <1>1, <1>3 DEF Replied
  <2>2. PICK v : v = View(d)
    OBVIOUS
  <2>3. PICK z : z = View(d)'
    OBVIOUS
  <2>4. /\ v.end = peer[d] /\ v.in = inbox[d] /\ v.replied = replies[d] /\ v.loop = loop
        /\ v.flag = isWaitingForData[d] /\ v.data = arriveData[d] /\ v.sem = waitForData[d]
    BY <2>2 DEF View
  <2>5. /\ z.end = peer'[d] /\ z.in = inbox'[d] /\ z.replied = replies'[d] /\ z.loop = loop'
        /\ z.flag = isWaitingForData'[d] /\ z.data = arriveData'[d]
        /\ z.sem = waitForData'[d]
    BY <2>3 DEF View
  <2>6. Told(v, z)
    BY <2>1, <2>4, <2>5 DEF Told
  <2>7. QED  BY <1>3, <2>2, <2>3, <2>6
<1>4. QED  BY <1>2, <1>3

\* The jobs that send the answer.
LEMMA AnswersServed ==
  ASSUME ServerInv, NEW t \in Threads, NEW d \in Clients, Answers(t) \/ Concludes(t)
  PROVE  Served(d, View(d)', queue', thread', talk')
<1>1. /\ Running(t) /\ Replied(Client(t)) /\ Leaves(t) /\ queue' = queue
      /\ UNCHANGED <<isWaitingForData, arriveData, waitForData, loop, peer, inbox>>
  BY DEF Answers, Concludes, Doing, server
<1>2. ~IsQuit(thread[t].job)
  BY JobKnown DEF Answers, Concludes, Doing
<1>3. PICK c \in Clients : c = Client(t)
  BY <1>1, <1>2, ClientOf
<1>4. PICK v : v = View(d)
  OBVIOUS
<1>5. PICK z : z = View(d)'
  OBVIOUS
<1>6. (d # c => z = v) /\ (d = c => Told(v, z))
  BY <1>1, <1>3, <1>4, <1>5, RepliedViews
<1>7. d = c => After(z)
  <2>1. CASE Answers(t)
    <3>1. d = c => Waits(thread[t].job.p, v)
      BY <1>1, <1>2, <1>3, <1>4, <2>1, JobKnown DEF Answers, Doing
    <3>2. thread[t].job.p.of = 1
      BY <2>1 DEF Answers
    <3>3. QED  BY <1>6, <3>1, <3>2, AnswersView
  <2>2. CASE Concludes(t)
    <3>1. talk[t].at = "answer"
      BY <2>2 DEF Concludes, Doing
    <3>2. d = c => Converses(talk[t], v)
      BY <1>1, <1>3, <1>4, <3>1, JobKnown
    <3>3. PICK x : x = talk[t]
      OBVIOUS
    <3>4. QED  BY <1>6, <3>1, <3>2, <3>3, ConcludesView
  <2>3. QED  BY <2>1, <2>2
<1>8. Served(d, z, queue', thread', talk')
  BY <1>1, <1>2, <1>3, <1>4, <1>6, <1>7, JobEnds
<1>9. QED  BY <1>5, <1>8

\* FM9_Open begins.
LEMMA BeginsServed ==
  ASSUME ServerInv, NEW t \in Threads, NEW d \in Clients, Begins(t)
  PROVE  Served(d, View(d)', queue', thread', talk')
<1>1. /\ Running(t) /\ ~IsQuit(thread[t].job) /\ queue' = queue /\ thread' = thread
      /\ talk[t].at = "none" /\ thread[t].job.p.of > 1
  BY DEF Begins, Doing, pool
<1>2. View(d)' = View(d)
  BY SameView DEF Begins, server, peers
<1>3. PICK v : v = View(d)
  OBVIOUS
<1>4. PICK p : p = thread[t].job.p
  OBVIOUS
<1>5. PICK s : s = [at |-> "reserve", got |-> <<p>>]
  OBVIOUS
<1>6. talk' = [talk EXCEPT ![t] = s] /\ s.at # "none"
  BY <1>4, <1>5 DEF Begins, Says
<1>7. d = Client(t) => Converses(s, v)
  BY <1>1, <1>3, <1>4, <1>5, JobKnown, BeginsView
<1>8. Served(d, v, queue', thread', talk')
  BY <1>1, <1>3, <1>6, <1>7, JobMoves
<1>9. QED  BY <1>2, <1>3, <1>8

\* It looks for its client.
LEMMA ReservesServed ==
  ASSUME ServerInv, NEW t \in Threads, NEW d \in Clients, Reserves(t)
  PROVE  Served(d, View(d)', queue', thread', talk')
<1>1. /\ Running(t) /\ queue' = queue /\ talk[t].at = "reserve" /\ loop = "select"
      /\ talk \in [Threads -> Talks]
  BY DEF Reserves, Doing, ServerInv, Typed
<1>2. View(d)' = View(d)
  BY SameView DEF Reserves, server, peers
<1>3. PICK v : v = View(d)
  OBVIOUS
<1>4. PICK x \in Talks : x = talk[t]
  BY <1>1
<1>5. ~IsQuit(thread[t].job) /\ (d = Client(t) => Converses(x, v))
  BY <1>1, <1>3, <1>4, JobKnown
<1>6. CASE Client(t) \in connections
  <2>1. PICK s : s = [x EXCEPT !.at = "mark"]
    OBVIOUS
  <2>2. s.at = "mark" /\ s.got = x.got
    BY <1>1, <1>4, <2>1, TalkTypes
  <2>3. talk' = [talk EXCEPT ![t] = s] /\ thread' = thread
    BY <1>4, <1>6, <2>1 DEF Reserves, Says
  <2>4. \A k \in 2 .. MaxPackets : \A m \in 1 .. k : Place(x.at, m, k, v) => Place(s.at, m, k, v)
    BY <1>1, <1>4, <2>2, ReservesView
  <2>5. d = Client(t) => Converses(s, v)
    BY <1>5, <2>2, <2>4, MovesOn
  <2>6. Served(d, v, queue', thread', talk')
    BY <1>1, <1>3, <1>5, <2>2, <2>3, <2>5, JobMoves
  <2>7. QED  BY <1>2, <1>3, <2>6
<1>7. CASE Client(t) \notin connections
  <2>1. Leaves(t)
    BY <1>7 DEF Reserves
  <2>2. ASSUME d = Client(t)  PROVE After(v)
    <3>1. peer[d].at \in {"new", "connecting", "gone"}
      BY <1>1, <1>7, <2>2 DEF ServerInv, Listed
    <3>2. v.end = peer[d]
      BY <1>3 DEF View
    <3>3. QED  BY <1>1, <1>4, <1>5, <2>2, <3>1, <3>2, GoneView
  <2>3. Served(d, v, queue', thread', talk')
    BY <1>1, <1>3, <1>5, <2>1, <2>2, JobEnds
  <2>4. QED  BY <1>2, <1>3, <2>3
<1>8. QED  BY <1>6, <1>7

\* It marks its socket, or says that it listens on it.
LEMMA MarksServed ==
  ASSUME ServerInv, NEW t \in Threads, NEW d \in Clients, NEW from, NEW to,
         \/ from = "mark" /\ to = "reply"
         \/ from = "wake" /\ to = "sleep",
         Running(t), talk[t].at = from, Says(t, [talk[t] EXCEPT !.at = to]),
         isWaitingForData' = [isWaitingForData EXCEPT ![Client(t)] = TRUE],
         UNCHANGED <<queue, thread, arriveData, waitForData, loop, peer, inbox, replies>>
  PROVE  Served(d, View(d)', queue', thread', talk')
<1>1. talk \in [Threads -> Talks] /\ isWaitingForData \in [Clients -> BOOLEAN]
  BY DEF ServerInv, Typed
<1>2. PICK v : v = View(d)
  OBVIOUS
<1>3. PICK z : z = View(d)'
  OBVIOUS
<1>4. /\ v.end = peer[d] /\ v.in = inbox[d] /\ v.replied = replies[d] /\ v.loop = loop
      /\ v.flag = isWaitingForData[d] /\ v.data = arriveData[d] /\ v.sem = waitForData[d]
  BY <1>2 DEF View
<1>5. /\ z.end = peer'[d] /\ z.in = inbox'[d] /\ z.replied = replies'[d] /\ z.loop = loop'
      /\ z.flag = isWaitingForData'[d] /\ z.data = arriveData'[d]
      /\ z.sem = waitForData'[d]
  BY <1>3 DEF View
<1>6. PICK x \in Talks : x = talk[t]
  BY <1>1
<1>7. ~IsQuit(thread[t].job) /\ (d = Client(t) => Converses(x, v))
  BY <1>2, <1>6, JobKnown
<1>8. d # Client(t) => z = v
  <2>1. ASSUME d # Client(t)  PROVE View(d)' = View(d)
    <3>1. isWaitingForData'[d] = isWaitingForData[d]
      BY <1>1, <2>1
    <3>2. QED  BY <3>1 DEF View
  <2>2. QED  BY <1>2, <1>3, <2>1
<1>9. PICK s : s = [x EXCEPT !.at = to]
  OBVIOUS
<1>10. s.at = to /\ s.got = x.got /\ talk' = [talk EXCEPT ![t] = s]
  BY <1>6, <1>9, TalkTypes DEF Says
<1>11. ASSUME d = Client(t)  PROVE Converses(s, z)
  <2>1. z.flag = TRUE
    BY <1>1, <1>5, <1>11
  <2>2. /\ z.end = v.end /\ z.in = v.in /\ z.replied = v.replied /\ z.data = v.data
        /\ z.sem = v.sem /\ z.loop = v.loop
    BY <1>4, <1>5
  <2>3. ASSUME NEW k \in 2 .. MaxPackets, NEW m \in 1 .. k, Place(x.at, m, k, v)
        PROVE  Place(s.at, m, k, z)
    <3>1. k \in Nat /\ m \in Nat
      OBVIOUS
    <3>2. CASE from = "mark" /\ to = "reply"
      BY <1>6, <1>10, <2>1, <2>2, <2>3, <3>1, <3>2, MarksView
    <3>3. CASE from = "wake" /\ to = "sleep"
      BY <1>6, <1>10, <2>1, <2>2, <2>3, <3>1, <3>3, ListensView
    <3>4. QED  BY <3>2, <3>3
  <2>4. QED  BY <1>7, <1>10, <1>11, <2>3, MovesOn
<1>12. Served(d, z, queue', thread', talk')
  BY <1>2, <1>7, <1>8, <1>10, <1>11, JobMoves
<1>13. QED  BY <1>3, <1>12

\* It acknowledges its packet.
LEMMA AcknowledgesServed ==
  ASSUME ServerInv, NEW t \in Threads, NEW d \in Clients, Acknowledges(t)
  PROVE  Served(d, View(d)', queue', thread', talk')
<1>1. /\ Running(t) /\ Replied(Client(t)) /\ queue' = queue /\ thread' = thread
      /\ UNCHANGED <<isWaitingForData, arriveData, waitForData, loop, peer, inbox>>
      /\ talk[t].at = "reply" /\ talk \in [Threads -> Talks] /\ loop \in {"select", "ended"}
  BY DEF Acknowledges, Doing, server, pool, ServerInv, Typed
<1>2. ~IsQuit(thread[t].job)
  BY <1>1, JobKnown
<1>3. PICK c \in Clients : c = Client(t)
  BY <1>1, <1>2, ClientOf
<1>4. PICK v : v = View(d)
  OBVIOUS
<1>5. PICK z : z = View(d)'
  OBVIOUS
<1>6. (d # c => z = v) /\ (d = c => Told(v, z))
  BY <1>1, <1>3, <1>4, <1>5, RepliedViews
<1>7. PICK x \in Talks : x = talk[t]
  BY <1>1
<1>8. d = c => Converses(x, v)
  BY <1>1, <1>3, <1>4, <1>7, JobKnown
<1>9. PICK s : s = [x EXCEPT !.at = "wake"]
  OBVIOUS
<1>10. s.at = "wake" /\ s.got = x.got /\ talk' = [talk EXCEPT ![t] = s]
  BY <1>1, <1>7, <1>9, TalkTypes DEF Acknowledges, Says
<1>11. ASSUME d = c  PROVE Converses(s, z)
  <2>1. v.loop \in {"select", "ended"}
    BY <1>1, <1>4 DEF View
  <2>2. \A k \in 2 .. MaxPackets : \A m \in 1 .. k : Place(x.at, m, k, v) => Place(s.at, m, k, z)
    BY <1>1, <1>6, <1>7, <1>10, <1>11, <2>1, AcknowledgesView
  <2>3. QED  BY <1>8, <1>10, <1>11, <2>2, MovesOn
<1>12. Served(d, z, queue', thread', talk')
  BY <1>1, <1>2, <1>3, <1>4, <1>6, <1>10, <1>11, JobMoves
<1>13. QED  BY <1>5, <1>12

\* It takes what has come.
LEMMA HearsServed ==
  ASSUME ServerInv, NEW t \in Threads, NEW d \in Clients, Hears(t)
  PROVE  Served(d, View(d)', queue', thread', talk')
<1>1. /\ Running(t) /\ queue' = queue /\ thread' = thread /\ talk[t].at = "sleep"
      /\ UNCHANGED <<isWaitingForData, arriveData, loop, peer, inbox, replies>>
      /\ waitForData[Client(t)] > 0
      /\ waitForData' = [waitForData EXCEPT ![Client(t)] = @ - 1]
  BY DEF Hears, Doing, pool, peers
<1>2. /\ talk \in [Threads -> Talks] /\ waitForData \in [Clients -> Nat]
      /\ arriveData \in [Clients -> Numbered]
  BY DEF ServerInv, Typed
<1>3. PICK v : v = View(d)
  OBVIOUS
<1>4. PICK z : z = View(d)'
  OBVIOUS
<1>5. /\ v.end = peer[d] /\ v.in = inbox[d] /\ v.replied = replies[d] /\ v.loop = loop
      /\ v.flag = isWaitingForData[d] /\ v.data = arriveData[d] /\ v.sem = waitForData[d]
  BY <1>3 DEF View
<1>6. /\ z.end = peer'[d] /\ z.in = inbox'[d] /\ z.replied = replies'[d] /\ z.loop = loop'
      /\ z.flag = isWaitingForData'[d] /\ z.data = arriveData'[d]
      /\ z.sem = waitForData'[d]
  BY <1>4 DEF View
<1>7. PICK x \in Talks : x = talk[t]
  BY <1>2
<1>8. ~IsQuit(thread[t].job) /\ (d = Client(t) => Converses(x, v))
  BY <1>1, <1>3, <1>7, JobKnown
<1>9. d # Client(t) => z = v
  <2>1. ASSUME d # Client(t)  PROVE View(d)' = View(d)
    <3>1. waitForData'[d] = waitForData[d]
      BY <1>1, <1>2, <2>1
    <3>2. QED  BY <1>1, <3>1 DEF View
  <2>2. QED  BY <1>3, <1>4, <2>1
<1>10. d = Client(t) => z.sem = v.sem - 1 /\ v.sem > 0 /\ v.sem \in Nat
  BY <1>1, <1>2, <1>5, <1>6
<1>11. /\ z.end = v.end /\ z.in = v.in /\ z.replied = v.replied /\ z.flag = v.flag
       /\ z.data = v.data /\ z.loop = v.loop /\ v.data \in Numbered
  BY <1>1, <1>2, <1>5, <1>6
<1>12. x.at = "sleep" /\ x.got \in Seq(Numbered)
  BY <1>1, <1>7, TalkTypes
<1>13. CASE arriveData[Client(t)] = Null
  <2>1. talk' = talk /\ talk' = [talk EXCEPT ![t] = x]
    BY <1>2, <1>7, <1>13 DEF Hears
  <2>2. ASSUME d = Client(t)  PROVE Converses(x, z)
    BY <1>5, <1>8, <1>10, <1>11, <1>12, <1>13, <2>2, FallsView
  <2>3. Served(d, z, queue', thread', talk')
    BY <1>1, <1>3, <1>8, <1>9, <1>12, <2>1, <2>2, JobMoves
  <2>4. QED  BY <1>4, <2>3
<1>14. CASE arriveData[Client(t)] # Null
  <2>1. PICK p : p = arriveData[Client(t)]
    OBVIOUS
  <2>2. PICK s : s = [at |-> IF IsLast(p) THEN "answer" ELSE "reserve",
                      got |-> Append(x.got, p)]
    OBVIOUS
  <2>3. talk' = [talk EXCEPT ![t] = s]
    BY <1>7, <1>14, <2>1, <2>2 DEF Hears, Says
  <2>4. s.at # "none"
    BY <2>2
  <2>5. ASSUME d = Client(t)  PROVE Converses(s, z)
    <3>1. v.data = p /\ v.data # Null
      BY <1>5, <1>14, <2>1, <2>5
    <3>2. QED  BY <1>8, <1>10, <1>11, <1>12, <2>2, <2>5, <3>1, HearsView
  <2>6. Served(d, z, queue', thread', talk')
    BY <1>1, <1>3, <1>8, <1>9, <2>3, <2>4, <2>5, JobMoves
  <2>7. QED  BY <1>4, <2>6
<1>15. QED  BY <1>13, <1>14

\* It says that it listens, or follows the NULL of a client that is not in the list.
LEMMA ListensServed ==
  ASSUME ServerInv, NEW t \in Threads, NEW d \in Clients, Listens(t)
  PROVE  Served(d, View(d)', queue', thread', talk')
<1>1. /\ Running(t) /\ talk[t].at = "wake"
      /\ UNCHANGED <<queue, thread, arriveData, waitForData, loop, peer, inbox, replies>>
  BY DEF Listens, Doing, pool, peers
<1>2. CASE Client(t) \in connections
  BY <1>1, <1>2, MarksServed DEF Listens
<1>3. CASE Client(t) \notin connections
  <2>1. talk' = talk /\ isWaitingForData' = isWaitingForData
    BY <1>3 DEF Listens
  <2>2. View(d)' = View(d)
    BY <1>1, <2>1, SameView
  <2>3. PICK v : v = View(d)
    OBVIOUS
  <2>4. Served(d, v, queue, thread, talk)
    BY <2>3 DEF ServerInv
  <2>5. QED  BY <1>1, <2>1, <2>2, <2>3, <2>4
<1>4. QED  BY <1>2, <1>3

\* Nothing but what falls changes.
LEMMA StillServed ==
  ASSUME ServerInv, NEW d \in Clients, UNCHANGED <<pool, server, talk, peers>>
  PROVE  Served(d, View(d)', queue', thread', talk')
<1>1. View(d)' = View(d)
  BY SameView DEF server, peers
<1>2. PICK v : v = View(d)
  OBVIOUS
<1>3. Served(d, v, queue, thread, talk)
  BY <1>2 DEF ServerInv
<1>4. QED  BY <1>1, <1>2, <1>3 DEF pool

\* Every step keeps every client served.
LEMMA ServedPreserved ==
  ASSUME ServerInv, NEW d \in Clients, [Next]_vars
  PROVE  Served(d, View(d)', queue', thread', talk')
<1>1. ASSUME NEW c \in Clients,
             Connects(c) \/ Asks(c) \/ GoesOn(c) \/ HangsUp(c) \/ Resets(c)
      PROVE  Served(d, View(d)', queue', thread', talk')
  BY <1>1, ClientsServed
<1>2. ASSUME NEW c \in Clients, ServerTurn(c)
      PROVE  Served(d, View(d)', queue', thread', talk')
  <2>1. CASE Accepts(c)
    BY <2>1, ClientsServed
  <2>2. CASE Receives(c)
    BY <2>2, ReservedServed, FirstServed
  <2>3. CASE Disconnects(c) \/ ReceiveFails(c)
    BY <2>3, HangsServed
  <2>4. QED  BY <1>2, <2>1, <2>2, <2>3 DEF ServerTurn
<1>3. ASSUME NEW t \in Threads, ThreadTurn(t)
      PROVE  Served(d, View(d)', queue', thread', talk')
  BY <1>3, PoolServed
<1>4. ASSUME NEW t \in Threads, JobStep(t)
      PROVE  Served(d, View(d)', queue', thread', talk')
  <2>1. CASE CommandQuit(t)
    BY <2>1, CommandServed
  <2>2. CASE Answers(t) \/ Concludes(t)
    BY <2>2, AnswersServed
  <2>3. CASE Begins(t)
    BY <2>3, BeginsServed
  <2>4. CASE Reserves(t)
    BY <2>4, ReservesServed
  <2>5. CASE Marks(t)
    BY <2>5, MarksServed DEF Marks, Marked, Doing, pool, peers
  <2>6. CASE Acknowledges(t)
    BY <2>6, AcknowledgesServed
  <2>7. CASE Listens(t)
    BY <2>7, ListensServed
  <2>8. CASE Hears(t)
    BY <2>8, HearsServed
  <2>9. CASE Falls(t)
    BY <2>9, StillServed DEF Falls
  <2>10. QED  BY <1>4, <2>1, <2>2, <2>3, <2>4, <2>5, <2>6, <2>7, <2>8, <2>9 DEF JobStep
<1>5. CASE ReadsQuit
  BY <1>5, QuitServed
<1>6. CASE Frees
  BY <1>6, FreesServed
<1>7. CASE UNCHANGED vars
  BY <1>7, StillServed DEF vars
<1>8. QED  BY <1>1, <1>2, <1>3, <1>4, <1>5, <1>6, <1>7 DEF Next

-----------------------------------------------------------------------------
(***************************************************************************)
(* The rest of the invariant.                                              *)
(***************************************************************************)

\* A new job wakes the threads that wait, and takes nothing from the pool.
LEMMA AddTypes ==
  ASSUME Typed, NEW j \in Jobs, ThreadPool_AddJob(j)
  PROVE  /\ queue' \in Seq(Jobs) /\ thread' \in [Threads -> Places]
         /\ \A u \in Threads : /\ thread[u].at = "run" => thread'[u] = thread[u]
                               /\ thread[u].at = "gone" => thread'[u].at = "gone"
<1>1. CASE terminate
  BY <1>1 DEF ThreadPool_AddJob, Typed
<1>2. CASE ~terminate
  <2>1. queue' = Append(queue, j) /\ thread' = Broadcast
    BY <1>2 DEF ThreadPool_AddJob, Wakened
  <2>2. queue' \in Seq(Jobs)
    BY <2>1, AppendProperties DEF Typed
  <2>3. thread \in [Threads -> Places]
    BY DEF Typed
  <2>4. QED  BY <2>1, <2>2, <2>3, BroadcastTypes
<1>3. QED  BY <1>1, <1>2

\* What the clients do keeps the types.
LEMMA ClientTypes ==
  ASSUME Typed, NEW c \in Clients,
         Connects(c) \/ Asks(c) \/ GoesOn(c) \/ HangsUp(c) \/ Resets(c)
  PROVE  Typed'
<1>1. /\ peer \in [Clients -> PeerStates] /\ inbox \in [Clients -> Seq(Numbered)]
      /\ replies \in [Clients -> Nat]
  BY DEF Typed
<1>2. peer' \in [Clients -> PeerStates] /\ inbox' \in [Clients -> Seq(Numbered)]
  <2>1. CASE Connects(c) \/ HangsUp(c) \/ Resets(c)
    <3>1. PICK p \in {"connecting", "closed", "reset"} : peer' = [peer EXCEPT ![c] = [at |-> p]]
      BY <2>1 DEF Connects, HangsUp, Resets
    <3>2. [at |-> p] \in PeerStates
      BY PeerTypes
    <3>3. inbox' = inbox \/ inbox' = [inbox EXCEPT ![c] = <<>>]
      BY <2>1 DEF Connects, HangsUp, Resets
    <3>4. inbox' \in [Clients -> Seq(Numbered)]
      <4>1. <<>> \in Seq(Numbered)
        OBVIOUS
      <4>2. PICK q \in Seq(Numbered) : q = <<>>
        BY <4>1
      <4>3. inbox' = inbox \/ inbox' = [inbox EXCEPT ![c] = q]
        BY <3>3, <4>2
      <4>4. QED  BY <1>1, <4>3
    <3>5. peer' \in [Clients -> PeerStates]
      BY <1>1, <3>1, <3>2
    <3>6. QED  BY <3>4, <3>5
  <2>2. CASE Asks(c)
    <3>1. PICK k \in {1, MaxPackets} :
            /\ peer' = [peer EXCEPT ![c] = [at |-> "asking", p |-> Packet(1, k)]]
            /\ inbox' = [inbox EXCEPT ![c] = Append(@, Packet(1, k))]
      BY <2>2 DEF Asks
    <3>2. PICK q : q = Packet(1, k)
      OBVIOUS
    <3>3. q \in Numbered
      BY <3>2, ServerAssumption, PacketTypes
    <3>4. [at |-> "asking", p |-> q] \in PeerStates /\ Append(inbox[c], q) \in Seq(Numbered)
      BY <1>1, <3>3, PeerTypes, AppendProperties
    <3>5. QED  BY <1>1, <3>1, <3>2, <3>4
  <2>3. CASE GoesOn(c)
    <3>1. peer[c].p \in Numbered
      BY <1>1, <2>3, PeerTypes DEF GoesOn
    <3>2. PICK q : q = Packet(peer[c].p.n + 1, peer[c].p.of)
      OBVIOUS
    <3>3. q \in Numbered
      <4>1. PICK e \in Numbered : e = peer[c].p
        BY <3>1
      <4>2. e.n + 1 \in Nat /\ e.of \in Nat
        BY DEF Numbered
      <4>3. QED  BY <3>2, <4>1, <4>2, PacketTypes
    <3>4. [at |-> "asking", p |-> q] \in PeerStates /\ Append(inbox[c], q) \in Seq(Numbered)
      BY <1>1, <3>3, PeerTypes, AppendProperties
    <3>5. \/ peer' = [peer EXCEPT ![c] = [at |-> "answered"]] /\ inbox' = inbox
          \/ /\ peer' = [peer EXCEPT ![c] = [at |-> "asking", p |-> q]]
             /\ inbox' = [inbox EXCEPT ![c] = Append(@, q)]
      BY <2>3, <3>2 DEF GoesOn
    <3>6. [at |-> "answered"] \in PeerStates
      BY PeerTypes
    <3>7. QED  BY <1>1, <3>4, <3>5, <3>6
  <2>4. QED  BY <2>1, <2>2, <2>3
<1>3. replies' \in [Clients -> Nat]
  BY <1>1 DEF Connects, Asks, GoesOn, HangsUp, Resets
<1>4. UNCHANGED <<queue, thread, talk, connections, isWaitingForData, arriveData,
                  waitForData, loop>>
  BY DEF Connects, Asks, GoesOn, HangsUp, Resets, pool, server
<1>5. QED  BY <1>2, <1>3, <1>4 DEF Typed

\* So does a turn of the server.
LEMMA TurnTypes ==
  ASSUME Typed, NEW c \in Clients, ServerTurn(c)
  PROVE  Typed'
<1>1. /\ peer \in [Clients -> PeerStates] /\ inbox \in [Clients -> Seq(Numbered)]
      /\ connections \in SUBSET Clients /\ loop \in {"select", "ended"}
  BY DEF Typed
<1>2. CASE Accepts(c)
  BY <1>1, <1>2, PeerTypes DEF Accepts, Typed, pool
<1>3. ASSUME NEW p \in Numbered, NEW left \in SUBSET Clients,
             IF isWaitingForData[c]
               THEN EndsTurn([isWaitingForData EXCEPT ![c] = FALSE],
                             [arriveData EXCEPT ![c] = p],
                             [waitForData EXCEPT ![c] = @ + 1], left)
               ELSE EndsTurn(isWaitingForData, arriveData, waitForData, left)
      PROVE  /\ connections' \subseteq Clients /\ isWaitingForData' \in [Clients -> BOOLEAN]
             /\ arriveData' \in [Clients -> Numbered] /\ waitForData' \in [Clients -> Nat]
             /\ loop' \in {"select", "ended"}
  <2>1. PICK flags \in [Clients -> BOOLEAN], data \in [Clients -> Numbered],
             sems \in [Clients -> Nat] : EndsTurn(flags, data, sems, left)
    BY <1>3, TurnsEnd
  <2>2. QED  BY <1>1, <2>1, EndsTypes
<1>4. CASE Receives(c)
  <2>1. inbox[c] # <<>> /\ inbox[c] \in Seq(Numbered)
    BY <1>1, <1>4 DEF Receives
  <2>2. PICK p \in Numbered : p = Head(inbox[c])
    BY <2>1, HeadTailProperties
  <2>3. Tail(inbox[c]) \in Seq(Numbered)
    BY <2>1, HeadTailProperties
  <2>4. inbox' \in [Clients -> Seq(Numbered)]
    BY <1>1, <1>4, <2>3 DEF Receives
  <2>5. IF isWaitingForData[c]
          THEN EndsTurn([isWaitingForData EXCEPT ![c] = FALSE], [arriveData EXCEPT ![c] = p],
                        [waitForData EXCEPT ![c] = @ + 1], connections)
          ELSE EndsTurn(isWaitingForData, arriveData, waitForData, connections)
    BY <1>4, <2>2 DEF Receives, Posts
  <2>6. queue' \in Seq(Jobs) /\ thread' \in [Threads -> Places]
    <3>1. CASE queue' = queue /\ thread' = thread
      BY <3>1 DEF Typed
    <3>2. CASE ThreadPool_AddJob([client |-> c, p |-> p])
      BY <3>2, JobTypes, AddTypes
    <3>3. QED  BY <1>4, <2>2, <3>1, <3>2 DEF Receives, Arrives
  <2>7. UNCHANGED <<talk, peer, replies>>
    BY <1>4 DEF Receives
  <2>8. QED  BY <1>1, <1>3, <2>4, <2>5, <2>6, <2>7 DEF Typed
<1>5. CASE Disconnects(c) \/ ReceiveFails(c)
  <2>1. peer' \in [Clients -> PeerStates]
    BY <1>1, <1>5, PeerTypes DEF Disconnects, ReceiveFails
  <2>2. PICK p \in Numbered : p = Null
    BY PacketTypes
  <2>3. PICK left \in SUBSET Clients :
          IF isWaitingForData[c]
            THEN EndsTurn([isWaitingForData EXCEPT ![c] = FALSE], [arriveData EXCEPT ![c] = p],
                          [waitForData EXCEPT ![c] = @ + 1], left)
            ELSE EndsTurn(isWaitingForData, arriveData, waitForData, left)
    <3>1. CASE Disconnects(c)
      <4>1. connections \ {c} \in SUBSET Clients
        BY <1>1
      <4>2. QED  BY <2>2, <3>1, <4>1 DEF Disconnects, Hangs
    <3>2. CASE ReceiveFails(c)
      BY <1>1, <2>2, <3>2 DEF ReceiveFails, Posts
    <3>3. QED  BY <1>5, <3>1, <3>2
  <2>4. UNCHANGED <<queue, thread, talk, inbox, replies>>
    BY <1>5 DEF Disconnects, ReceiveFails, pool
  <2>5. QED  BY <1>3, <2>1, <2>3, <2>4 DEF Typed
<1>6. QED  BY <1>2, <1>4, <1>5 DEF ServerTurn

\* So does a step of a job.
LEMMA JobStepTypes ==
  ASSUME ServerInv, NEW t \in Threads, JobStep(t)
  PROVE  Typed'
<1>1. /\ talk \in [Threads -> Talks] /\ thread \in [Threads -> Places]
      /\ isWaitingForData \in [Clients -> BOOLEAN] /\ waitForData \in [Clients -> Nat]
      /\ replies \in [Clients -> Nat] /\ arriveData \in [Clients -> Numbered] /\ Typed
  BY DEF ServerInv, Typed
<1>2. ASSUME Leaves(t)
      PROVE  thread' \in [Threads -> Places] /\ talk' \in [Threads -> Talks]
  BY <1>1, <1>2, PlaceTypes, TalkTypes DEF Leaves, Returns, Says
<1>3. ASSUME NEW c \in Clients, Replied(c)  PROVE replies' \in [Clients -> Nat]
  BY <1>1, <1>3 DEF Replied
<1>4. ASSUME NEW p \in {"mark", "reply", "wake", "sleep"}, talk[t].at # "none",
             Says(t, [talk[t] EXCEPT !.at = p])
      PROVE  talk' \in [Threads -> Talks]
  <2>1. PICK s : s = [talk[t] EXCEPT !.at = p]
    OBVIOUS
  <2>2. s \in Talks
    BY <1>1, <1>4, <2>1, TalkTypes
  <2>3. QED  BY <1>1, <1>4, <2>1, <2>2 DEF Says
<1>5. ASSUME Running(t), talk[t].at # "none" \/ ~IsQuit(thread[t].job)
      PROVE  Client(t) \in Clients
  BY <1>5, JobKnown, ClientOf
<1>6. CASE CommandQuit(t)
  BY <1>1, <1>2, <1>6 DEF CommandQuit, Typed, peers
<1>7. CASE Answers(t) \/ Concludes(t)
  <2>1. Client(t) \in Clients
    BY <1>5, <1>7 DEF Answers, Concludes, Doing
  <2>2. QED  BY <1>1, <1>2, <1>3, <1>7, <2>1 DEF Answers, Concludes, Typed, server
<1>8. CASE Begins(t)
  <2>1. thread[t].job \in Jobs /\ ~IsQuit(thread[t].job)
    BY <1>1, <1>8, PlaceTypes DEF Begins, Doing, Running
  <2>2. PICK p \in Numbered : p = thread[t].job.p
    BY <2>1, JobTypes
  <2>3. PICK g : g = <<p>>
    OBVIOUS
  <2>4. g \in Seq(Numbered)
    BY <2>3
  <2>5. [at |-> "reserve", got |-> g] \in Talks
    BY <2>4, TalkTypes
  <2>6. talk' \in [Threads -> Talks]
    BY <1>1, <1>8, <2>2, <2>3, <2>5 DEF Begins, Says
  <2>7. QED  BY <1>1, <1>8, <2>6 DEF Begins, Typed, pool, server, peers
<1>9. CASE Reserves(t)
  <2>1. thread' \in [Threads -> Places] /\ talk' \in [Threads -> Talks]
    BY <1>1, <1>2, <1>4, <1>9 DEF Reserves, Doing
  <2>2. QED  BY <1>1, <1>9, <2>1 DEF Reserves, Typed, server, peers
<1>10. CASE Marks(t)
  <2>1. isWaitingForData' \in [Clients -> BOOLEAN]
    BY <1>1, <1>10 DEF Marks, Marked
  <2>2. talk' \in [Threads -> Talks]
    BY <1>4, <1>10 DEF Marks, Doing
  <2>3. QED  BY <1>1, <1>10, <2>1, <2>2 DEF Marks, Typed, pool, peers
<1>11. CASE Acknowledges(t)
  <2>1. Client(t) \in Clients
    BY <1>5, <1>11 DEF Acknowledges, Doing
  <2>2. talk' \in [Threads -> Talks]
    BY <1>4, <1>11 DEF Acknowledges, Doing
  <2>3. QED  BY <1>1, <1>3, <1>11, <2>1, <2>2 DEF Acknowledges, Typed, pool, server
<1>12. CASE Listens(t)
  <2>1. isWaitingForData' \in [Clients -> BOOLEAN]
    BY <1>1, <1>12 DEF Listens
  <2>2. talk' \in [Threads -> Talks]
    BY <1>1, <1>4, <1>12 DEF Listens, Doing
  <2>3. QED  BY <1>1, <1>12, <2>1, <2>2 DEF Listens, Typed, pool, peers
<1>13. CASE Hears(t)
  <2>1. Client(t) \in Clients /\ waitForData[Client(t)] > 0
    BY <1>5, <1>13 DEF Hears, Doing
  <2>2. waitForData' \in [Clients -> Nat]
    BY <1>1, <1>13, <2>1 DEF Hears
  <2>3. PICK p \in Numbered : p = arriveData[Client(t)]
    BY <1>1, <2>1
  <2>4. PICK g : g = Append(talk[t].got, p)
    OBVIOUS
  <2>5. g \in Seq(Numbered)
    BY <1>1, <1>13, <2>4, TalkTypes, AppendProperties DEF Hears, Doing
  <2>6. talk' \in [Threads -> Talks]
    <3>1. CASE talk' = talk
      BY <1>1, <3>1
    <3>2. CASE Says(t, [at |-> IF IsLast(p) THEN "answer" ELSE "reserve", got |-> g])
      <4>1. PICK a \in {"reserve", "answer"} :
              Says(t, [at |-> a, got |-> g])
        BY <3>2
      <4>2. [at |-> a, got |-> g] \in Talks
        BY <2>5, TalkTypes
      <4>3. QED  BY <1>1, <4>1, <4>2 DEF Says
    <3>3. QED  BY <1>13, <2>3, <2>4, <3>1, <3>2 DEF Hears
  <2>7. QED  BY <1>1, <1>13, <2>2, <2>6 DEF Hears, Typed, pool, peers
<1>14. CASE Falls(t)
  BY <1>1, <1>14 DEF Falls, Typed, pool, server, peers
<1>15. QED  BY <1>6, <1>7, <1>8, <1>9, <1>10, <1>11, <1>12, <1>13, <1>14 DEF JobStep

\* Every step keeps the types.
LEMMA TypedPreserved ==
  ASSUME ServerInv, [Next]_vars
  PROVE  Typed'
<1>1. /\ Typed /\ queue \in Seq(Jobs) /\ thread \in [Threads -> Places]
      /\ talk \in [Threads -> Talks]
  BY DEF ServerInv, Typed
<1>2. ASSUME NEW c \in Clients,
             \/ Connects(c) \/ Asks(c) \/ GoesOn(c) \/ HangsUp(c) \/ Resets(c)
             \/ ServerTurn(c)
      PROVE  Typed'
  BY <1>1, <1>2, ClientTypes, TurnTypes
<1>3. ASSUME NEW t \in Threads, ThreadTurn(t)  PROVE Typed'
  <2>1. queue # <<>> => Head(queue) \in Jobs /\ Tail(queue) \in Seq(Jobs)
    BY <1>1, HeadTailProperties
  <2>2. CASE /\ queue' = queue
             /\ \E p \in {"loop", "enter", "wait", "gone"} :
                  thread' = [thread EXCEPT ![t] = At(p)]
    BY <1>1, <1>3, <2>2, PlaceTypes DEF ThreadTurn, Typed, server, peers
  <2>3. CASE /\ queue # <<>> /\ queue' = Tail(queue)
             /\ thread' = [thread EXCEPT ![t] = [at |-> "run", job |-> Head(queue)]]
    <3>1. PICK w \in Places : w = [at |-> "run", job |-> Head(queue)]
      BY <2>1, <2>3, PlaceTypes
    <3>2. thread' \in [Threads -> Places]
      BY <1>1, <2>3, <3>1
    <3>3. queue' \in Seq(Jobs)
      BY <2>1, <2>3
    <3>4. QED  BY <1>1, <1>3, <3>2, <3>3 DEF ThreadTurn, Typed, server, peers
  <2>4. QED  BY <1>1, <1>3, <2>2, <2>3, PoolMoves DEF ThreadTurn
<1>4. ASSUME NEW t \in Threads, JobStep(t)  PROVE Typed'
  BY <1>4, JobStepTypes
<1>5. CASE ReadsQuit
  <2>1. queue' \in Seq(Jobs) /\ thread' \in [Threads -> Places]
    BY <1>1, <1>5, JobTypes, AddTypes DEF ReadsQuit
  <2>2. QED  BY <1>1, <1>5, <2>1 DEF ReadsQuit, Typed, server, peers
<1>6. CASE Frees
  <2>1. queue' \in Seq(Jobs) /\ thread' \in [Threads -> Places]
    <3>1. /\ queue' = queue \/ queue' = <<>>
          /\ thread' = thread \/ thread' = Broadcast
      BY <1>6 DEF Frees, ThreadPool_ExitWhenPossibleAsync, ThreadPool_ClearPendingJobs
    <3>2. Broadcast \in [Threads -> Places]
      BY <1>1, BroadcastTypes
    <3>3. <<>> \in Seq(Jobs)
      OBVIOUS
    <3>4. QED  BY <1>1, <3>1, <3>2, <3>3
  <2>2. QED  BY <1>1, <1>6, <2>1 DEF Frees, Typed, server, peers
<1>7. CASE UNCHANGED vars
  BY <1>1, <1>7 DEF vars, pool, server, peers, Typed
<1>8. QED  BY <1>2, <1>3, <1>4, <1>5, <1>6, <1>7 DEF Next

\* Nothing but a step of the pool or of a job changes what a thread that runs does, and
\* only the end of the pool stops it from being used.
LEMMA ThreadsMove ==
  ASSUME ServerInv, [Next]_vars
  PROVE  Talkers(thread', talk')
<1>1. /\ thread \in [Threads -> Places] /\ talk \in [Threads -> Talks] /\ Typed
      /\ Talkers(thread, talk) /\ inbox \in [Clients -> Seq(Numbered)]
  BY DEF ServerInv, Typed
<1>2. ASSUME talk' = talk, NEW j \in Jobs, ThreadPool_AddJob(j)
      PROVE  Talkers(thread', talk')
  BY <1>1, <1>2, AddTypes DEF Talkers
<1>3. ASSUME thread' = thread, talk' = talk
      PROVE  Talkers(thread', talk')
  BY <1>1, <1>3
<1>4. ASSUME NEW t \in Threads, Running(t), Leaves(t)
      PROVE  Talkers(thread', talk')
  <2>1. /\ \A u \in Threads \ {t} : thread'[u] = thread[u] /\ talk'[u] = talk[u]
        /\ talk'[t] = Silent
    BY <1>1, <1>4 DEF Leaves, Returns, Says
  <2>2. thread[t].at = "run"
    BY <1>4 DEF Running
  <2>4. talk'[t].at = "none"
    BY <2>1, TalkTypes
  <2>5. Talkers(thread', talk')
    BY <1>1, <2>1, <2>4 DEF Talkers
  <2>6. QED  BY <2>5
<1>5. ASSUME NEW t \in Threads, NEW s, Running(t), ~IsQuit(thread[t].job), Says(t, s),
             thread' = thread
      PROVE  Talkers(thread', talk')
  <2>1. \A u \in Threads \ {t} : talk'[u] = talk[u]
    BY <1>1, <1>5 DEF Says
  <2>2. QED  BY <1>1, <1>5, <2>1 DEF Talkers, Running
<1>6. ASSUME NEW c \in Clients,
             Connects(c) \/ Asks(c) \/ GoesOn(c) \/ HangsUp(c) \/ Resets(c)
      PROVE  thread' = thread /\ talk' = talk
  BY <1>6 DEF Connects, Asks, GoesOn, HangsUp, Resets, pool
<1>7. ASSUME NEW c \in Clients, ServerTurn(c)
      PROVE  /\ talk' = talk
             /\ thread' = thread \/ \E j \in Jobs : ThreadPool_AddJob(j)
  <2>1. CASE Receives(c)
    <3>1. PICK p \in Numbered : p = Head(inbox[c])
      BY <1>1, <2>1, HeadTailProperties DEF Receives
    <3>2. [client |-> c, p |-> p] \in Jobs
      BY JobTypes
    <3>3. QED  BY <2>1, <3>1, <3>2 DEF Receives, Arrives
  <2>2. QED  BY <1>7, <2>1 DEF ServerTurn, Accepts, Disconnects, ReceiveFails, pool
<1>8. ASSUME NEW t \in Threads, ThreadTurn(t)
      PROVE  Talkers(thread', talk')
  <2>1. talk' = talk /\ PoolStep(t)
    BY <1>8 DEF ThreadTurn
  <2>2. thread[t].at \in {"loop", "enter", "awake"}
    BY <1>1, <2>1, PoolMoves
  <2>3. \A u \in Threads \ {t} : thread'[u] = thread[u]
    BY <1>1, <2>1, PoolMoves
  <2>4. talk[t].at = "none"
    BY <1>1, <2>2 DEF Talkers
  <2>5. QED  BY <1>1, <2>1, <2>2, <2>3, <2>4 DEF Talkers
<1>9. ASSUME NEW t \in Threads, JobStep(t)
      PROVE  \/ Running(t) /\ Leaves(t)
             \/ /\ Running(t) /\ ~IsQuit(thread[t].job) /\ thread' = thread
                /\ \E s : Says(t, s)
             \/ thread' = thread /\ talk' = talk
  <2>1. ASSUME Running(t), talk[t].at # "none"  PROVE ~IsQuit(thread[t].job)
    BY <2>1, JobKnown
  <2>2. CASE CommandQuit(t) \/ Answers(t) \/ Concludes(t)
    BY <2>2 DEF CommandQuit, Answers, Concludes, Doing
  <2>3. CASE Begins(t)
    BY <2>3 DEF Begins, Doing, pool
  <2>4. CASE Reserves(t)
    BY <2>1, <2>4 DEF Reserves, Doing
  <2>5. CASE Marks(t)
    BY <2>1, <2>5 DEF Marks, Doing, pool
  <2>6. CASE Acknowledges(t)
    BY <2>1, <2>6 DEF Acknowledges, Doing, pool
  <2>7. CASE Listens(t)
    BY <2>1, <2>7 DEF Listens, Doing, pool
  <2>8. CASE Hears(t)
    BY <2>1, <2>8 DEF Hears, Doing, pool
  <2>9. CASE Falls(t)
    BY <2>9 DEF Falls, pool
  <2>10. QED  BY <1>9, <2>2, <2>3, <2>4, <2>5, <2>6, <2>7, <2>8, <2>9 DEF JobStep
<1>10. CASE ReadsQuit
  BY <1>2, <1>10, JobTypes DEF ReadsQuit
<1>11. CASE Frees
  <2>1. talk' = talk /\ (thread' = thread \/ thread' = Broadcast)
    BY <1>11 DEF Frees, ThreadPool_ExitWhenPossibleAsync, ThreadPool_ClearPendingJobs
  <2>2. CASE thread' = Broadcast
    BY <1>1, <2>1, <2>2, BroadcastTypes DEF Talkers
  <2>3. QED  BY <1>3, <2>1, <2>2
<1>12. CASE UNCHANGED vars
  BY <1>3, <1>12 DEF vars, pool
<1>13. QED
  BY <1>2, <1>3, <1>4, <1>5, <1>6, <1>7, <1>8, <1>9, <1>10, <1>11, <1>12 DEF Next

\* A thread waits only with the queue empty, and whoever fills it wakes all of them.
LEMMA NobodySleeps ==
  ASSUME ServerInv, [Next]_vars
  PROVE  NobodySleepsOnAJob'
<1>1. /\ Typed /\ thread \in [Threads -> Places] /\ inbox \in [Clients -> Seq(Numbered)]
      /\ queue # <<>> => \A u \in Threads : thread[u].at # "wait"
  BY DEF ServerInv, PoolOK, Typed, NobodySleepsOnAJob
<1>2. ASSUME thread' = Broadcast  PROVE NobodySleepsOnAJob'
  <2>1. \A u \in Threads : Broadcast[u].at # "wait"
    BY DEF Broadcast, At
  <2>2. QED  BY <1>2, <2>1 DEF NobodySleepsOnAJob
<1>3. ASSUME UNCHANGED <<queue, thread>>  PROVE NobodySleepsOnAJob'
  BY <1>1, <1>3 DEF NobodySleepsOnAJob
<1>4. ASSUME NEW j, ThreadPool_AddJob(j)  PROVE NobodySleepsOnAJob'
  BY <1>2, <1>3, <1>4 DEF ThreadPool_AddJob, Wakened
<1>5. ASSUME NEW t \in Threads, NEW p, thread' = [thread EXCEPT ![t] = p],
             p.at # "wait" \/ queue' = <<>>, queue' # <<>> => queue # <<>>
      PROVE  NobodySleepsOnAJob'
  BY <1>1, <1>5 DEF NobodySleepsOnAJob
<1>6. ASSUME NEW c \in Clients,
             Connects(c) \/ Asks(c) \/ GoesOn(c) \/ HangsUp(c) \/ Resets(c)
      PROVE  UNCHANGED <<queue, thread>>
  BY <1>6 DEF Connects, Asks, GoesOn, HangsUp, Resets, pool
<1>7. ASSUME NEW c \in Clients, ServerTurn(c)
      PROVE  UNCHANGED <<queue, thread>> \/ \E j : ThreadPool_AddJob(j)
  BY <1>7 DEF ServerTurn, Accepts, Receives, Arrives, Disconnects, ReceiveFails, pool
<1>8. ASSUME NEW t \in Threads, ThreadTurn(t)  PROVE NobodySleepsOnAJob'
  <2>1. Tests(t) \/ Enters(t) \/ Wakes(t)
    BY <1>8 DEF ThreadTurn, PoolStep
  <2>2. ASSUME Takes(t)  PROVE NobodySleepsOnAJob'
    <3>1. At("gone").at = "gone" /\ At("loop").at = "loop"
      BY DEF At
    <3>2. \E p : thread' = [thread EXCEPT ![t] = p] /\ p.at # "wait"
      BY <2>2, <3>1 DEF Takes
    <3>3. queue' # <<>> => queue # <<>>
      BY <2>2 DEF Takes
    <3>4. QED  BY <1>5, <3>2, <3>3
  <2>3. CASE Tests(t)
    <3>1. PICK q : q = IF terminate THEN "gone" ELSE "enter"
      OBVIOUS
    <3>2. queue' = queue /\ thread' = [thread EXCEPT ![t] = At(q)]
      BY <2>3, <3>1 DEF Tests
    <3>3. At(q).at = q /\ q # "wait"
      BY <3>1 DEF At
    <3>4. QED  BY <1>5, <3>2, <3>3
  <2>4. CASE Enters(t) /\ queue = <<>>
    <3>1. queue' = <<>> /\ thread' = [thread EXCEPT ![t] = At("wait")]
      BY <2>4 DEF Enters
    <3>2. QED  BY <1>5, <3>1
  <2>5. CASE (Enters(t) /\ queue # <<>>) \/ Wakes(t)
    BY <2>2, <2>5 DEF Enters, Wakes
  <2>6. QED  BY <2>1, <2>3, <2>4, <2>5
<1>9. ASSUME NEW t \in Threads, JobStep(t)
      PROVE  UNCHANGED <<queue, thread>> \/ (queue' = queue /\ Returns(t))
  BY <1>9 DEF JobStep, CommandQuit, Answers, Begins, Reserves, Marks, Acknowledges,
              Listens, Hears, Concludes, Falls, Leaves, pool
<1>10. ASSUME NEW t \in Threads, queue' = queue, Returns(t)  PROVE NobodySleepsOnAJob'
  <2>1. At("loop").at # "wait"
    BY DEF At
  <2>2. QED  BY <1>5, <1>10, <2>1 DEF Returns
<1>11. CASE ReadsQuit
  BY <1>4, <1>11 DEF ReadsQuit
<1>12. CASE Frees
  <2>1. CASE ThreadPool_ExitWhenPossibleAsync
    BY <1>2, <2>1 DEF ThreadPool_ExitWhenPossibleAsync
  <2>2. CASE ThreadPool_ClearPendingJobs
    BY <2>2 DEF ThreadPool_ClearPendingJobs, NobodySleepsOnAJob
  <2>3. QED  BY <1>12, <2>1, <2>2 DEF Frees
<1>13. CASE UNCHANGED vars
  BY <1>3, <1>13 DEF vars, pool
<1>14. QED
  BY <1>3, <1>4, <1>6, <1>7, <1>8, <1>9, <1>10, <1>11, <1>12, <1>13 DEF Next

\* The pool ends after the server has.
LEMMA PoolPreserved ==
  ASSUME ServerInv, [Next]_vars
  PROVE  PoolOK'
<1>1. /\ terminate => loop = "ended"
      /\ loop \in {"select", "ended"} /\ Typed
  BY DEF ServerInv, PoolOK, Typed
<1>n. NobodySleepsOnAJob'
  BY NobodySleeps
<1>2. CASE Frees
  <2>1. loop' = "ended"
    BY <1>2 DEF Frees, server
  <2>2. QED  BY <1>n, <2>1 DEF PoolOK
<1>3. ASSUME terminate' = terminate, loop = "ended" => loop' = "ended"
      PROVE  PoolOK'
  BY <1>1, <1>n, <1>3 DEF PoolOK
<1>4. ASSUME NEW c \in Clients,
             Connects(c) \/ Asks(c) \/ GoesOn(c) \/ HangsUp(c) \/ Resets(c)
      PROVE  terminate' = terminate /\ loop' = loop
  BY <1>4 DEF Connects, Asks, GoesOn, HangsUp, Resets, pool, server
<1>5. ASSUME NEW c \in Clients, ServerTurn(c)
      PROVE  terminate' = terminate /\ loop = "select"
  BY <1>5 DEF ServerTurn, Accepts, Receives, Disconnects, ReceiveFails, Selects, pool
<1>6. ASSUME NEW t \in Threads, ThreadTurn(t)
      PROVE  terminate' = terminate /\ loop' = loop
  BY <1>1, <1>6, PoolMoves DEF ThreadTurn, server
<1>7. ASSUME NEW t \in Threads, JobStep(t)
      PROVE  terminate' = terminate /\ loop' = loop
  BY <1>7 DEF JobStep, CommandQuit, Answers, Begins, Reserves, Marks, Acknowledges,
              Listens, Hears, Concludes, Falls, pool, server
<1>8. CASE ReadsQuit
  <2>1. terminate' = terminate /\ loop' = loop
    BY <1>8 DEF ReadsQuit, server
  <2>2. QED  BY <1>3, <2>1
<1>9. CASE UNCHANGED vars
  <2>1. terminate' = terminate /\ loop' = loop
    BY <1>9 DEF vars, pool, server
  <2>2. QED  BY <1>3, <2>1
<1>10. QED  BY <1>2, <1>3, <1>4, <1>5, <1>6, <1>7, <1>8, <1>9 DEF Next

\* A client the server has accepted stays in its list until it is gone.
LEMMA ListedPreserved ==
  ASSUME ServerInv, [Next]_vars, NEW d \in Clients
  PROVE  Listed(d)'
<1>1. /\ Typed /\ peer \in [Clients -> PeerStates] /\ connections \in SUBSET Clients
      /\ Listed(d)
  BY DEF ServerInv, Typed
<1>2. ASSUME UNCHANGED <<peer, connections, loop>>  PROVE Listed(d)'
  BY <1>1, <1>2 DEF Listed
<1>3. ASSUME NEW c \in Clients,
             Connects(c) \/ Asks(c) \/ GoesOn(c) \/ HangsUp(c) \/ Resets(c)
      PROVE  Listed(d)'
  <2>1. connections' = connections /\ loop' = loop
    BY <1>3 DEF Connects, Asks, GoesOn, HangsUp, Resets, server
  <2>2. CASE Connects(c)
    BY <1>1, <2>1, <2>2 DEF Connects, Listed
  <2>3. ASSUME Asks(c) \/ GoesOn(c) \/ HangsUp(c) \/ Resets(c)
        PROVE  /\ peer[c].at \in {"connected", "asking", "answered"}
               /\ \E e : peer' = [peer EXCEPT ![c] = e]
    BY <2>3 DEF Asks, GoesOn, HangsUp, Resets
  <2>4. CASE Asks(c) \/ GoesOn(c) \/ HangsUp(c) \/ Resets(c)
    BY <1>1, <2>1, <2>3, <2>4 DEF Listed
  <2>5. QED  BY <1>3, <2>2, <2>4
<1>4. ASSUME NEW c \in Clients, ServerTurn(c)  PROVE Listed(d)'
  <2>1. CASE Accepts(c)
    BY <1>1, <2>1 DEF Accepts, Listed, Selects
  <2>2. ASSUME NEW p \in Numbered, NEW left \in SUBSET Clients,
               IF isWaitingForData[c]
                 THEN EndsTurn([isWaitingForData EXCEPT ![c] = FALSE],
                               [arriveData EXCEPT ![c] = p],
                               [waitForData EXCEPT ![c] = @ + 1], left)
                 ELSE EndsTurn(isWaitingForData, arriveData, waitForData, left)
        PROVE  loop' = "select" => connections' = left
    BY <2>2 DEF EndsTurn
  <2>3. loop = "select"
    BY <1>4 DEF ServerTurn, Accepts, Receives, Disconnects, ReceiveFails, Selects
  <2>4. CASE Receives(c)
    <3>1. loop' = "select" => connections' = connections
      BY <2>4 DEF Receives, Posts, EndsTurn
    <3>2. peer' = peer
      BY <2>4 DEF Receives
    <3>3. QED  BY <1>1, <2>3, <3>1, <3>2 DEF Listed
  <2>5. CASE Disconnects(c)
    <3>1. loop' = "select" => connections' = connections \ {c}
      BY <2>5 DEF Disconnects, Hangs, EndsTurn
    <3>2. peer' = [peer EXCEPT ![c] = [at |-> "gone"]]
      BY <2>5 DEF Disconnects
    <3>3. QED  BY <1>1, <2>3, <3>1, <3>2 DEF Listed
  <2>6. CASE ReceiveFails(c)
    <3>1. loop' = "select" => connections' = connections
      BY <2>6 DEF ReceiveFails, Posts, EndsTurn
    <3>2. c \in connections /\ peer' = [peer EXCEPT ![c] = [at |-> "closed"]]
      BY <2>6 DEF ReceiveFails
    <3>3. QED  BY <1>1, <2>3, <3>1, <3>2 DEF Listed
  <2>7. QED  BY <1>4, <2>1, <2>4, <2>5, <2>6 DEF ServerTurn
<1>5. ASSUME NEW t \in Threads, ThreadTurn(t) \/ JobStep(t)
      PROVE  UNCHANGED <<peer, connections, loop>>
  BY <1>5 DEF ThreadTurn, JobStep, CommandQuit, Answers, Begins, Reserves, Marks,
              Acknowledges, Listens, Hears, Concludes, Falls, server, peers
<1>6. CASE ReadsQuit \/ Frees \/ UNCHANGED vars
  BY <1>2, <1>6 DEF ReadsQuit, Frees, vars, server, peers
<1>7. QED  BY <1>2, <1>3, <1>4, <1>5, <1>6 DEF Next

-----------------------------------------------------------------------------
(***************************************************************************)
(* The theorems.                                                           *)
(***************************************************************************)

\* Nobody has connected, the queue is empty and the threads have nothing to do.
LEMMA ServerInit == Init => ServerInv
<1> SUFFICES ASSUME Init PROVE ServerInv
  OBVIOUS
<1>1. /\ queue = <<>> /\ terminate = FALSE /\ thread = [t \in Threads |-> At("loop")]
      /\ owner = "using" /\ connections = {} /\ isWaitingForData = [c \in Clients |-> FALSE]
      /\ arriveData = [c \in Clients |-> Nothing] /\ waitForData = [c \in Clients |-> 0]
      /\ loop = "select" /\ talk = [t \in Threads |-> Silent]
      /\ peer = [c \in Clients |-> [at |-> "new"]] /\ inbox = [c \in Clients |-> <<>>]
      /\ replies = [c \in Clients |-> 0]
  BY DEF Init, PoolInit
<1>2. \A t \in Threads : thread[t].at = "loop" /\ talk[t].at = "none"
  BY <1>1, TalkTypes DEF At
<1>3. Typed
  <2>1. At("loop") \in Places /\ Silent \in Talks /\ Nothing \in Numbered
    BY PlaceTypes, TalkTypes, PacketTypes
  <2>2. [at |-> "new"] \in PeerStates
    BY PeerTypes
  <2>3. <<>> \in Seq(Jobs) /\ <<>> \in Seq(Numbered)
    OBVIOUS
  <2>4. thread \in [Threads -> Places] /\ talk \in [Threads -> Talks]
    BY <1>1, <2>1
  <2>5. peer \in [Clients -> PeerStates]
    BY <1>1, <2>2
  <2>6. inbox \in [Clients -> Seq(Numbered)]
    BY <1>1, <2>3
  <2>7. arriveData \in [Clients -> Numbered]
    BY <1>1, <2>1
  <2>8. QED  BY <1>1, <2>3, <2>4, <2>5, <2>6, <2>7 DEF Typed
<1>4. PoolOK /\ Talkers(thread, talk)
  BY <1>1, <1>2 DEF PoolOK, NobodySleepsOnAJob, Talkers
<1>5. ASSUME NEW c \in Clients
      PROVE  Listed(c) /\ Served(c, View(c), queue, thread, talk)
  <2>1. Listed(c)
    BY <1>1 DEF Listed
  <2>2. PICK v : v = View(c)
    OBVIOUS
  <2>3. /\ v.end.at = "new" /\ v.in = <<>> /\ v.replied = 0 /\ v.flag = FALSE /\ v.sem = 0
    BY <1>1, <2>2 DEF View
  <2>4. Before(v)
    BY <2>3 DEF Before
  <2>5. \A t \in Threads : ~Does(thread[t], c)
    BY <1>2 DEF Does
  <2>6. Len(queue) = 0
    BY <1>1
  <2>7. Served(c, v, queue, thread, talk)
    BY <2>4, <2>5, <2>6 DEF Served, OneJob, InQueue, AtWork
  <2>8. QED  BY <2>1, <2>2, <2>7
<1>6. QED  BY <1>3, <1>4, <1>5 DEF ServerInv

\* The invariant is kept by every step.
LEMMA ServerNext ==
  ASSUME ServerInv, [Next]_vars
  PROVE  ServerInv'
<1>1. Typed' /\ PoolOK' /\ Talkers(thread', talk')
  BY TypedPreserved, PoolPreserved, ThreadsMove
<1>2. ASSUME NEW c \in Clients
      PROVE  Listed(c)' /\ Served(c, View(c)', queue', thread', talk')
  BY ListedPreserved, ServedPreserved
<1>3. QED  BY <1>1, <1>2 DEF ServerInv

\* A conversation stays in one job, which gets its packets in order and no others.
LEMMA Whole == ServerInv => ConversationsStayWhole
<1> SUFFICES ASSUME ServerInv, NEW t \in Threads, Talking(t)
             PROVE  /\ \A i \in DOMAIN talk[t].got : talk[t].got[i].n = i
                    /\ \A u \in Threads \ {t} : Talking(u) => Client(u) # Client(t)
  BY DEF ConversationsStayWhole
<1>1. ASSUME NEW u \in Threads, Talking(u)
      PROVE  /\ talk[u].at # "none" /\ Running(u) /\ ~IsQuit(thread[u].job)
  BY <1>1 DEF Talking, ServerInv, Talkers, Running
<1>2. PICK x : x = talk[t]
  OBVIOUS
<1>3. x.got \in Seq(Numbered)
  BY <1>1, <1>2, TalkTypes DEF ServerInv, Typed
<1>4. \A i \in 1 .. Len(x.got) : x.got[i].n = i
  <2>1. PICK v : v = View(Client(t))
    OBVIOUS
  <2>2. Converses(x, v)
    BY <1>1, <1>2, <2>1, JobKnown
  <2>3. PICK k \in 2 .. MaxPackets : \A i \in 1 .. Len(x.got) : x.got[i] = Packet(i, k)
    BY <2>2 DEF Converses
  <2>4. \A i : Packet(i, k).n = i
    BY DEF Packet
  <2>5. QED  BY <2>3, <2>4
<1>5. \A i \in DOMAIN x.got : x.got[i].n = i
  BY <1>3, <1>4
<1>6. ASSUME NEW u \in Threads \ {t}, Talking(u), Client(u) = Client(t)  PROVE FALSE
  <2>1. PICK c \in Clients : c = Client(t)
    BY <1>1, ClientOf
  <2>2. Does(thread[t], c) /\ Does(thread[u], c)
    BY <1>1, <1>6, <2>1, ClientOf
  <2>3. OneJob(queue, thread, c)
    BY DEF ServerInv, Served
  <2>4. t = u
    BY <2>2, <2>3 DEF OneJob
  <2>5. QED  BY <2>4
<1>7. QED  BY <1>2, <1>5, <1>6

\* The inductive invariant of the server and its pool.
THEOREM ServerInvariant == Spec => []ServerInv
<1>1. ServerInv /\ [Next]_vars => ServerInv'
  BY ServerNext
<1>2. QED  BY ServerInit, <1>1, PTL DEF Spec

\* A conversation of FM9_Open with its client is never split between two jobs, nor are its
\* packets lost, taken twice or taken in another order, however many clients there are,
\* however long the conversations, and whoever hangs up or quits.
THEOREM ConversationsInvariant == Spec => []ConversationsStayWhole
BY ServerInvariant, Whole, PTL

\* A job that has been added is never left to threads that sleep, however many threads, jobs
\* and clients there are.
THEOREM AwakeInvariant == Spec => []NobodySleepsOnAJob
<1>1. ServerInv => NobodySleepsOnAJob
  BY DEF ServerInv, PoolOK
<1>2. QED  BY ServerInvariant, <1>1, PTL
================================================================================
