----------------------------- MODULE SocketServer ------------------------------
(***************************************************************************)
(* kemmens/SocketServer.c with kemmens/ThreadPool.c, as FM9 uses them: the *)
(* thread of SocketServer_ListenForConnection turns a packet into a job of *)
(* the pool, unless a job has reserved the socket: then it hands the       *)
(* packet to it.  The jobs are those of FM9_Server.c; one that takes       *)
(* several packets is a conversation, as FM9_Open has with DAM_SendToFM9.  *)
(*                                                                         *)
(* A packet is [n, of]: the n-th of the conversation's `of', the last one  *)
(* being the empty one.  A client is a connection: DAM connects anew for   *)
(* each request and the descriptors of the old ones are never closed.      *)
(***************************************************************************)
EXTENDS ThreadPool, FiniteSets

CONSTANTS
    Clients,    \* the connections that ever exist
    MaxPackets, \* bound: the packets of a conversation
    MaxKills,   \* bound: the clients that hang up before they are answered
    Quits       \* may the console say "quit"?

ASSUME ServerAssumption ==
    MaxPackets \in Nat \ {0} /\ MaxKills \in Nat /\ Quits \in BOOLEAN

VARIABLES
    connections,      \* the clients in the list of connections
    isWaitingForData, \* isWaitingForData[c]
    arriveData,       \* arriveData[c]: a packet, Nothing or Null
    waitForData,      \* waitForData[c]: the semaphore
    loop,             \* the server's thread: "select" or "ended"
    closeAll,
    talk,             \* talk[t]: where thread t is in its job, and what it got
    peer,             \* peer[c]: what the client at the other end does
    inbox,            \* inbox[c]: the packets it has sent
    replies,          \* replies[c]: what FM9 has sent it
    killed,           \* the clients that hung up before they were answered
    fallen            \* a job followed a NULL pointer, or used a freed client

server == <<connections, isWaitingForData, arriveData, waitForData, loop, closeAll>>
peers == <<peer, inbox, replies, killed>>
vars == <<pool, server, talk, peers, fallen>>

Nothing == [n |-> 0, of |-> 0]
Null == [n |-> 0, of |-> 1]
Silent == [at |-> "none"]
Quit == [p |-> Nothing]
IsQuit(j) == j.p = Nothing
Packet(n, k) == [n |-> n, of |-> k]
IsLast(p) == p.n = p.of
Freed(c) == peer[c].at = "gone" \/ loop = "ended"
Up == ~fallen

(***************************************************************************)
(* The clients, of whom nothing is followed once FM9 has fallen.           *)
(***************************************************************************)
Connects(c) ==
    /\ Up /\ peer[c].at = "new"
    /\ peer' = [peer EXCEPT ![c] = [at |-> "connecting"]]
    /\ UNCHANGED <<pool, server, talk, inbox, replies, killed, fallen>>

\* The first packet of a request.
Asks(c) ==
    /\ Up /\ peer[c].at = "connected"
    /\ \E k \in {1, MaxPackets} :
         /\ peer' = [peer EXCEPT ![c] = [at |-> "asking", p |-> Packet(1, k)]]
         /\ inbox' = [inbox EXCEPT ![c] = Append(@, Packet(1, k))]
    /\ UNCHANGED <<pool, server, talk, replies, killed, fallen>>

\* FM9's reply has come: the next packet, or that was the answer.
GoesOn(c) ==
    /\ Up /\ peer[c].at = "asking" /\ replies[c] > 0
    /\ replies' = [replies EXCEPT ![c] = @ - 1]
    /\ LET p == peer[c].p
           q == Packet(p.n + 1, p.of) IN
         IF IsLast(p)
           THEN /\ peer' = [peer EXCEPT ![c] = [at |-> "answered"]]
                /\ UNCHANGED inbox
           ELSE /\ peer' = [peer EXCEPT ![c] = [at |-> "asking", p |-> q]]
                /\ inbox' = [inbox EXCEPT ![c] = Append(@, q)]
    /\ UNCHANGED <<pool, server, talk, killed, fallen>>

HangsUp(c) ==
    /\ Up
    /\ \/ peer[c].at = "answered" /\ UNCHANGED killed
       \/ /\ peer[c].at \in {"connected", "asking"} /\ Cardinality(killed) < MaxKills
          /\ killed' = killed \cup {c}
    /\ peer' = [peer EXCEPT ![c] = [at |-> "closed"]]
    /\ UNCHANGED <<pool, server, talk, inbox, replies, fallen>>

\* A client whose machine falls: the server's next read fails before it sees the end.
Resets(c) ==
    /\ Up /\ peer[c].at \in {"connected", "asking"} /\ Cardinality(killed) < MaxKills
    /\ killed' = killed \cup {c}
    /\ peer' = [peer EXCEPT ![c] = [at |-> "reset"]]
    /\ inbox' = [inbox EXCEPT ![c] = <<>>]
    /\ UNCHANGED <<pool, server, talk, replies, fallen>>

(***************************************************************************)
(* SocketServer_ListenForConnection: a turn of its loop.                   *)
(***************************************************************************)
Selects == Up /\ loop = "select"

\* At the end of a turn.
\* TerminateAllConnections wakes the jobs that wait and frees every client.
EndsTurn(flags, data, sems, left) ==
    /\ connections' = IF closeAll THEN {} ELSE left
    /\ loop' = IF closeAll THEN "ended" ELSE loop
    /\ isWaitingForData' = IF closeAll THEN [c \in Clients |-> FALSE] ELSE flags
    /\ arriveData' = [c \in Clients |-> IF closeAll /\ c \in left /\ flags[c] THEN Null ELSE data[c]]
    /\ waitForData' = [c \in Clients |->
                         IF closeAll /\ c \in left /\ flags[c] THEN sems[c] + 1 ELSE sems[c]]
    /\ UNCHANGED closeAll

\* After it has accepted a client the server does not look at closeAll.
Accepts(c) ==
    /\ Selects /\ peer[c].at = "connecting"
    /\ connections' = connections \cup {c}
    /\ peer' = [peer EXCEPT ![c] = [at |-> "connected"]]
    /\ UNCHANGED <<pool, isWaitingForData, arriveData, waitForData, loop, closeAll,
                   talk, inbox, replies, killed, fallen>>

\* What wakes the job that waits on c, if one does.
Posts(c, data) ==
    IF isWaitingForData[c]
      THEN EndsTurn([isWaitingForData EXCEPT ![c] = FALSE], [arriveData EXCEPT ![c] = data],
                    [waitForData EXCEPT ![c] = @ + 1], connections)
      ELSE EndsTurn(isWaitingForData, arriveData, waitForData, connections)

\* OnPacketArrived: the last packet of a conversation is of no type it knows.
Arrives(c, p) ==
    IF IsLast(p) /\ p.of > 1 THEN UNCHANGED <<queue, thread>>
    ELSE ThreadPool_AddJob([client |-> c, p |-> p])

\* A packet is for the job that waits, or a job.
Receives(c) ==
    /\ Selects /\ c \in connections /\ inbox[c] # <<>>
    /\ inbox' = [inbox EXCEPT ![c] = Tail(@)]
    /\ Posts(c, Head(inbox[c]))
    /\ IF isWaitingForData[c] THEN UNCHANGED <<queue, thread>> ELSE Arrives(c, Head(inbox[c]))
    /\ UNCHANGED <<terminate, owner, talk, peer, replies, killed, fallen>>

\* The other end is closed: the job that waits gets NULL, the client is freed.
Hangs(c) ==
    IF isWaitingForData[c]
      THEN EndsTurn([isWaitingForData EXCEPT ![c] = FALSE], [arriveData EXCEPT ![c] = Null],
                    [waitForData EXCEPT ![c] = @ + 1], connections \ {c})
      ELSE EndsTurn(isWaitingForData, arriveData, waitForData, connections \ {c})
Disconnects(c) ==
    /\ Selects /\ c \in connections /\ peer[c].at = "closed" /\ inbox[c] = <<>>
    /\ Hangs(c)
    /\ peer' = [peer EXCEPT ![c] = [at |-> "gone"]]
    /\ UNCHANGED <<pool, talk, inbox, replies, killed, fallen>>

\* The read fails: the job that waits gets NULL, the client stays.
ReceiveFails(c) ==
    /\ Selects /\ c \in connections /\ peer[c].at = "reset"
    /\ Posts(c, Null)
    /\ peer' = [peer EXCEPT ![c] = [at |-> "closed"]]
    /\ UNCHANGED <<pool, talk, inbox, replies, killed, fallen>>

\* The console's line is a job too.
ReadsQuit ==
    /\ Selects /\ Quits /\ ~closeAll
    /\ \A i \in DOMAIN queue : ~IsQuit(queue[i])
    /\ \A t \in Threads : Running(t) => ~IsQuit(thread[t].job)
    /\ ThreadPool_AddJob(Quit)
    /\ UNCHANGED <<terminate, owner, server, talk, peers, fallen>>

(***************************************************************************)
(* The jobs.                                                               *)
(***************************************************************************)
Doing(t, place) == Up /\ Running(t) /\ talk[t].at = place
Says(t, s) == talk' = [talk EXCEPT ![t] = s]
Client(t) == thread[t].job.client
Replied(c) == replies' = IF peer[c].at = "asking" THEN [replies EXCEPT ![c] = @ + 1] ELSE replies
Leaves(t) == Returns(t) /\ Says(t, Silent)

CommandQuit(t) ==
    /\ Doing(t, "none") /\ IsQuit(thread[t].job)
    /\ closeAll' = TRUE
    /\ Leaves(t)
    /\ UNCHANGED <<queue, terminate, owner, connections, isWaitingForData, arriveData,
                   waitForData, loop, peers, fallen>>

\* A request of one packet: the job sends the answer.
Answers(t) ==
    /\ Doing(t, "none") /\ ~IsQuit(thread[t].job) /\ thread[t].job.p.of = 1
    /\ Replied(Client(t))
    /\ Leaves(t)
    /\ UNCHANGED <<queue, terminate, owner, server, peer, inbox, killed, fallen>>

\* FM9_Open begins with the packet of the job.
Begins(t) ==
    /\ Doing(t, "none") /\ ~IsQuit(thread[t].job) /\ thread[t].job.p.of > 1
    /\ Says(t, [at |-> "reserve", got |-> <<thread[t].job.p>>])
    /\ UNCHANGED <<pool, server, peers, fallen>>

\* SocketServer_ReserveSocket looks for the client under the lock...
Reserves(t) ==
    /\ Doing(t, "reserve") /\ loop = "select"
    /\ IF Client(t) \in connections
         THEN Says(t, [talk[t] EXCEPT !.at = "mark"]) /\ UNCHANGED thread
         ELSE Leaves(t)
    /\ UNCHANGED <<queue, terminate, owner, server, peers, fallen>>

\* MUTANT of Marked: the socket is not reserved.
MarkedNot(c) == UNCHANGED isWaitingForData
\* ...and sets its flag outside it.
Marked(c) == isWaitingForData' = [isWaitingForData EXCEPT ![c] = TRUE]
Marks(t) ==
    /\ Doing(t, "mark") /\ ~Freed(Client(t))
    /\ Marked(Client(t))
    /\ Says(t, [talk[t] EXCEPT !.at = "reply"])
    /\ UNCHANGED <<pool, connections, arriveData, waitForData, loop, closeAll, peers, fallen>>

\* The packet is acknowledged.
Acknowledges(t) ==
    /\ Doing(t, "reply")
    /\ Replied(Client(t))
    /\ Says(t, [talk[t] EXCEPT !.at = "wake"])
    /\ UNCHANGED <<pool, server, peer, inbox, killed, fallen>>

\* SocketServer_WakeMeUpWhenDataIsAvailableOn sets the flag again under the lock; for a
\* client that is gone it returns NULL, which FM9_Open follows.
Listens(t) ==
    /\ Doing(t, "wake") /\ loop = "select"
    /\ IF Client(t) \in connections
         THEN /\ isWaitingForData' = [isWaitingForData EXCEPT ![Client(t)] = TRUE]
              /\ Says(t, [talk[t] EXCEPT !.at = "sleep"])
              /\ UNCHANGED fallen
         ELSE fallen' = TRUE /\ UNCHANGED <<isWaitingForData, talk>>
    /\ UNCHANGED <<pool, connections, arriveData, waitForData, loop, closeAll, peers>>

\* sem_wait returns and FM9_Open takes what is in arriveData.
Hears(t) ==
    LET c == Client(t) IN
    /\ Doing(t, "sleep") /\ waitForData[c] > 0
    /\ waitForData' = [waitForData EXCEPT ![c] = @ - 1]
    /\ IF arriveData[c] = Null
         THEN fallen' = TRUE /\ UNCHANGED talk
         ELSE /\ UNCHANGED fallen
              /\ Says(t, [at |-> IF IsLast(arriveData[c]) THEN "answer" ELSE "reserve",
                          got |-> Append(talk[t].got, arriveData[c])])
    /\ UNCHANGED <<pool, connections, isWaitingForData, arriveData, loop, closeAll, peers>>

\* All the packets are there: FM9 does what was asked and sends its answer.
Concludes(t) ==
    /\ Doing(t, "answer")
    /\ Replied(Client(t))
    /\ Leaves(t)
    /\ UNCHANGED <<queue, terminate, owner, server, peer, inbox, killed, fallen>>

\* A job that is about to use a client, or the list, that the server has freed.
Falls(t) ==
    /\ \/ Doing(t, "mark") /\ Freed(Client(t))
       \/ (Doing(t, "reserve") \/ Doing(t, "wake")) /\ loop = "ended"
       \/ Doing(t, "sleep") /\ Freed(Client(t)) /\ waitForData[Client(t)] > 0
    /\ fallen' = TRUE
    /\ UNCHANGED <<pool, server, talk, peers>>

JobStep(t) ==
    \/ CommandQuit(t) \/ Answers(t) \/ Begins(t) \/ Reserves(t) \/ Marks(t)
    \/ Acknowledges(t) \/ Listens(t) \/ Hears(t) \/ Concludes(t) \/ Falls(t)

(***************************************************************************)
(* main: once the server has ended, the pool is freed.                     *)
(***************************************************************************)
Frees ==
    /\ Up /\ loop = "ended"
    /\ ThreadPool_ExitWhenPossibleAsync \/ ThreadPool_ClearPendingJobs
    /\ UNCHANGED <<server, talk, peers, fallen>>

-----------------------------------------------------------------------------
Init ==
    /\ PoolInit
    /\ connections = {} /\ isWaitingForData = [c \in Clients |-> FALSE]
    /\ arriveData = [c \in Clients |-> Nothing] /\ waitForData = [c \in Clients |-> 0]
    /\ loop = "select" /\ closeAll = FALSE
    /\ talk = [t \in Threads |-> Silent]
    /\ peer = [c \in Clients |-> [at |-> "new"]] /\ inbox = [c \in Clients |-> <<>>]
    /\ replies = [c \in Clients |-> 0] /\ killed = {}
    /\ fallen = FALSE

ServerTurn(c) == Accepts(c) \/ Receives(c) \/ Disconnects(c) \/ ReceiveFails(c)
ThreadTurn(t) == Up /\ PoolStep(t) /\ UNCHANGED <<server, talk, peers, fallen>>

Next ==
    \/ \E c \in Clients : \/ Connects(c) \/ Asks(c) \/ GoesOn(c) \/ HangsUp(c)
                          \/ Resets(c) \/ ServerTurn(c)
    \/ \E t \in Threads : ThreadTurn(t) \/ JobStep(t)
    \/ ReadsQuit \/ Frees

Spec == Init /\ [][Next]_vars

\* The threads run, select serves every socket that is ready, the peers go on with what
\* they began: nobody has to ask, hang up or quit.
Fairness ==
    /\ \A c \in Clients : WF_vars(GoesOn(c)) /\ WF_vars(ServerTurn(c))
    /\ \A t \in Threads : WF_vars(ThreadTurn(t)) /\ WF_vars(JobStep(t))
    /\ WF_vars(Frees)

FairSpec == Spec /\ Fairness

-----------------------------------------------------------------------------
Packets == [n : 0 .. MaxPackets, of : 0 .. MaxPackets]

\* The types of the state; a read that fails and the end that follows may both post.
TypeOK ==
    /\ connections \subseteq Clients
    /\ isWaitingForData \in [Clients -> BOOLEAN]
    /\ arriveData \in [Clients -> Packets] /\ waitForData \in [Clients -> 0 .. 2]
    /\ loop \in {"select", "ended"} /\ closeAll \in BOOLEAN
    /\ \A t \in Threads :
         /\ thread[t].at \in {"loop", "enter", "wait", "awake", "run", "gone"}
         /\ talk[t].at \in {"none", "reserve", "mark", "reply", "wake", "sleep", "answer"}
         /\ talk[t].at # "none" => Running(t)
    /\ \A c \in Clients : peer[c].at \in {"new", "connecting", "connected", "asking",
                                         "answered", "closed", "reset", "gone"}
    /\ replies \in [Clients -> 0 .. 1]
    /\ owner \in {"using", "joining", "freed"} /\ fallen \in BOOLEAN

Talking(t) == talk[t].at # "none"

\* A conversation stays in one job: the job gets the packets of its client one after the
\* other, none twice and none of them by another job.
ConversationsStayWhole ==
    \A t \in Threads : Talking(t) =>
      /\ \A i \in DOMAIN talk[t].got : talk[t].got[i].n = i
      /\ \A u \in Threads \ {t} : Talking(u) => Client(u) # Client(t)

\* No wake-up is lost: while there is a job in the queue no thread waits for one, whoever
\* was between its test of the queue and its wait when the job was added.
NobodySleepsOnAJob == queue # <<>> => \A t \in Threads : thread[t].at # "wait"

\* Everybody who asks is answered, however many ask at once, unless they hang up or FM9
\* falls or is told to quit.
EverybodyIsAnswered ==
    \A c \in Clients : peer[c].at = "asking" ~> peer[c].at # "asking" \/ fallen \/ closeAll

\* A client that hangs up never makes the server fall.
HangingUpIsHarmless == ~fallen

\* kemmens/ThreadPool.h:77: a pool that is told to end waits for its threads and ends.
ThePoolEnds == terminate ~> (owner = "freed" \/ fallen)
=============================================================================
