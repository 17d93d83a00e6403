------------------------------ MODULE ThreadPool -------------------------------
(***************************************************************************)
(* kemmens/ThreadPool.c: the threads of a pool, the queue of its jobs and  *)
(* the thread that ends it with ThreadPool_FreeGracefully.  What is under  *)
(* the pool's lock is one step; terminate_all is also read outside it.     *)
(*                                                                         *)
(* What a job does is the business of the module that extends this one.    *)
(***************************************************************************)
EXTENDS Naturals, Sequences

CONSTANTS
    Threads,    \* the threads of the pool
    Detached    \* detached: nobody can wait for them

ASSUME PoolAssumption == Detached \in BOOLEAN

VARIABLES
    queue,      \* jobs
    terminate,  \* terminate_all
    thread,     \* thread[t]: where it is in ThreadPool_BasicOperation, and its job
    owner       \* the thread that owns the pool: "using", "joining" or "freed"

pool == <<queue, terminate, thread, owner>>

At(place) == [at |-> place]
Running(t) == thread[t].at = "run"

\* pthread_cond_broadcast: the threads that wait compete for the lock again.
Broadcast == [t \in Threads |-> IF thread[t].at = "wait" THEN At("awake") ELSE thread[t]]

\* MUTANT of Wakened: the condition is not signalled.
NobodyWakened == UNCHANGED thread
Wakened == thread' = Broadcast

\* A job that comes once the pool is ending is left alone.
ThreadPool_AddJob(j) ==
    IF terminate THEN UNCHANGED <<queue, thread>>
    ELSE queue' = Append(queue, j) /\ Wakened

(***************************************************************************)
(* ThreadPool_BasicOperation.                                              *)
(***************************************************************************)
\* while(!terminate_all), read before the lock is taken.
Tests(t) ==
    /\ thread[t].at = "loop"
    /\ thread' = [thread EXCEPT ![t] = At(IF terminate THEN "gone" ELSE "enter")]
    /\ UNCHANGED <<queue, terminate, owner>>

\* With the lock and no reason to wait any more: leave, take the first job, or loop.
Takes(t) ==
    IF terminate
      THEN thread' = [thread EXCEPT ![t] = At("gone")] /\ UNCHANGED queue
      ELSE IF queue = <<>>
             THEN thread' = [thread EXCEPT ![t] = At("loop")] /\ UNCHANGED queue
             ELSE /\ thread' = [thread EXCEPT ![t] = [at |-> "run", job |-> Head(queue)]]
                  /\ queue' = Tail(queue)

\* It waits if there are no jobs, whatever terminate_all is by now.
Enters(t) ==
    /\ thread[t].at = "enter"
    /\ IF queue = <<>>
         THEN thread' = [thread EXCEPT ![t] = At("wait")] /\ UNCHANGED queue
         ELSE Takes(t)
    /\ UNCHANGED <<terminate, owner>>

Wakes(t) ==
    /\ thread[t].at = "awake"
    /\ Takes(t)
    /\ UNCHANGED <<terminate, owner>>

\* The job's function has returned.
Returns(t) == thread' = [thread EXCEPT ![t] = At("loop")]

(***************************************************************************)
(* ThreadPool_FreeGracefully: ThreadPool_ExitWhenPossibleAsync, then       *)
(* ThreadPool_JoinAllThreads, ThreadPool_ClearPendingJobs and free.        *)
(***************************************************************************)
ThreadPool_ExitWhenPossibleAsync ==
    /\ owner = "using"
    /\ terminate' = TRUE /\ thread' = Broadcast
    /\ owner' = "joining"
    /\ UNCHANGED queue

\* ThreadPool_JoinAllThreads waits for them, unless they are detached.
Joined == Detached \/ \A t \in Threads : thread[t].at = "gone"
ThreadPool_ClearPendingJobs ==
    /\ owner = "joining" /\ Joined
    /\ queue' = <<>>
    /\ owner' = "freed"
    /\ UNCHANGED <<terminate, thread>>

\* What a detached thread does to a pool that has been freed is not followed.
PoolStep(t) == owner # "freed" /\ (Tests(t) \/ Enters(t) \/ Wakes(t))

PoolInit ==
    /\ queue = <<>> /\ terminate = FALSE
    /\ thread = [t \in Threads |-> At("loop")]
    /\ owner = "using"
=============================================================================
