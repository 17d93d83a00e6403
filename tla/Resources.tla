------------------------------ MODULE Resources ------------------------------
(***************************************************************************)
(* The resources of SAFA (src/SAFA/ResourceManager.c): counting semaphores *)
(* that scripts take with "wait" and give back with "signal".              *)
(*                                                                         *)
(* Every message of a CPU is a job of a pool of threads.  A refused wait   *)
(* is only remembered by the CPU: it answers with a BLOCKDTB that names    *)
(* the resource, and the job of that message puts the DTB in the queue of  *)
(* waiters.  A signal first returns the instance, then takes the resource  *)
(* out of those its DTB keeps, and only then looks for a waiter: three     *)
(* critical sections, between which any other job may run.                 *)
(*                                                                         *)
(* Abstracted: admission, the DAM and the choice of a CPU (every DTB has   *)
(* one; module Scheduling models them).  Restriction: a critical section   *)
(* of tableMutex is one step, although the unlock of line 164, the second  *)
(* one of the same lock, may release the lock of another thread.           *)
(***************************************************************************)
EXTENDS Integers, Sequences, FiniteSets, SequencesExt

CONSTANTS
    DTBs,         \* ids of the DTBs, all READY at first
    Names,        \* names of resources
    Known,        \* the names in the table at first, with one free instance
    MaxOps,       \* BOUND: sentences each script executes before it ends
    MaxFinalizar, \* BOUND: number of "finalizar" commands
    Balanced      \* do scripts signal only what they keep?

ASSUME ResourcesAssumption ==
    /\ IsFiniteSet(DTBs) /\ IsFiniteSet(Names)
    /\ Known \subseteq Names
    /\ MaxOps \in [DTBs -> Nat] /\ MaxFinalizar \in Nat
    /\ Balanced \in BOOLEAN

VARIABLES
    resources,   \* the names in the table
    availables,  \* free instances of each; negative: refused waits
    waiters,     \* FIFO of ids of each
    kept,        \* resourcesKept of each DTB: how many of each resource
    place,       \* the list each DTB is in
    cpu,         \* what the CPU of each DTB does
    jobs,        \* messages and commands not yet fully handled
    toBeBlocked, toBeUnlocked, toBeEnded, PCPtasks,
    pcp,         \* the PCP in AddToExit: the DTB, and the resource it signals
    failure,     \* the NULL that was dereferenced
    ops,         \* sentences left in each script
    finalizars,  \* "finalizar" commands still to be typed
    supply       \* history: instances of each resource brought into being

table   == <<resources, availables, waiters>>
data    == <<toBeBlocked, toBeUnlocked, toBeEnded>>
outside == <<ops, finalizars>>
vars == <<table, kept, place, cpu, jobs, data, PCPtasks, pcp, failure, outside,
          supply>>

NoName == "none"
NoDTB == 0
Job(op, d, r, n) ==
    [op |-> op, dtb |-> d, res |-> r, n |-> n, at |-> "start", to |-> NoDTB]
AtWait == [Job("EXIT", NoDTB, NoName, 0) EXCEPT !.at = "wait"]

Init ==
    /\ resources = Known
    /\ availables = [r \in Names |-> IF r \in Known THEN 1 ELSE 0]
    /\ waiters = [r \in Names |-> <<>>]
    /\ kept = [d \in DTBs |-> [r \in Names |-> 0]]
    /\ place = [d \in DTBs |-> "READY"]
    /\ cpu = [d \in DTBs |-> "idle"]
    /\ jobs = {}
    /\ toBeBlocked = <<>> /\ toBeUnlocked = <<>> /\ toBeEnded = <<>>
    /\ PCPtasks = <<>>
    /\ pcp = AtWait
    /\ failure = "none"
    /\ ops = MaxOps
    /\ finalizars = MaxFinalizar
    /\ supply = [r \in Names |-> IF r \in Known THEN 1 ELSE 0]

Becomes(j, at) == jobs' = (jobs \ {j}) \cup {[j EXCEPT !.at = at]}
Finished(j) == jobs' = jobs \ {j}

\* The NULL of a failed search is dereferenced, or exit(-1) is called.
Fails(f) ==
    /\ failure' = f
    /\ UNCHANGED <<table, kept, place, cpu, jobs, data, PCPtasks, pcp, outside,
                   supply>>

-----------------------------------------------------------------------------
(* SignalForResource, called by the job of a SIGNAL and, for every resource *)
(* an ending DTB keeps, by the PCP.  s is the caller's place in it, a job or *)
(* pcp; After(s) is the next one, "done" when the function returns.         *)

\* AddNewResource: dictionary_putMAESTRO destroys what it replaces.
AddNewResource(r) ==
    /\ resources' = resources \cup {r}
    /\ availables' = [availables EXCEPT ![r] = 1]
    /\ waiters' = [waiters EXCEPT ![r] = <<>>]

\* DTBs are searched for in EXEC, in BLOCKED and, if READY, in the list of
\* another policy, where they are not.
CanBeFound(d) == place[d] \in {"EXEC", "BLOCKED"}

After(s) ==
    CASE s.at = "start" /\ s.res \notin resources -> [s EXCEPT !.at = "create"]
      [] s.at = "create" \/ (s.at = "start" /\ s.res \in resources) ->
            [s EXCEPT !.at = IF s.op = "SIGNAL" THEN "drop" ELSE "wake"]
      [] s.at = "drop"                     -> [s EXCEPT !.at = "wake"]
      [] s.at = "wake" /\ waiters[s.res] # <<>> ->
            [s EXCEPT !.at = "give", !.to = Head(waiters[s.res])]
      [] s.at = "give"                     -> [s EXCEPT !.at = "post"]
      [] OTHER                             -> [s EXCEPT !.at = "done"]

\* Return the instance ...
SignalReturns(s) ==
    /\ s.at = "start"
    /\ s.res \in resources
    /\ availables' = [availables EXCEPT ![s.res] = @ + 1]
    /\ kept' = IF s.op = "EXIT" THEN [kept EXCEPT ![s.dtb][s.res] = @ - 1]
                                ELSE kept
    /\ UNCHANGED <<resources, waiters, toBeUnlocked, PCPtasks, supply>>

\* ... or, in another section, create the resource with that instance.
SignalCreates(s) ==
    /\ \/ s.at = "start" /\ s.res \notin resources /\ UNCHANGED table
       \/ s.at = "create" /\ AddNewResource(s.res)
    /\ UNCHANGED <<kept, toBeUnlocked, PCPtasks, supply>>

Keeps(d, r) == kept[d][r] > 0

\* Take one of it out of what the DTB keeps, if it keeps any.
SignalDrops(s) ==
    /\ s.at = "drop"
    /\ CanBeFound(s.dtb)
    /\ IF Keeps(s.dtb, s.res)
       THEN kept' = [kept EXCEPT ![s.dtb][s.res] = @ - 1] /\ UNCHANGED supply
       ELSE supply' = [supply EXCEPT ![s.res] = @ + 1] /\ UNCHANGED kept
    /\ UNCHANGED <<table, toBeUnlocked, PCPtasks>>

\* Pop the first waiter, if there is one ...
SignalWakes(s) ==
    /\ s.at = "wake"
    /\ waiters' = IF waiters[s.res] = <<>> THEN waiters
                  ELSE [waiters EXCEPT ![s.res] = Tail(@)]
    /\ UNCHANGED <<resources, availables, kept, toBeUnlocked, PCPtasks, supply>>

\* ... give it the instance and have the PCP unlock it.
SignalGives(s) ==
    /\ s.at = "give"
    /\ CanBeFound(s.to)
    /\ kept' = [kept EXCEPT ![s.to][s.res] = @ + 1]
    /\ toBeUnlocked' = Append(toBeUnlocked, s.to)
    /\ UNCHANGED <<table, PCPtasks, supply>>

SignalPosts(s) ==
    /\ s.at = "post"
    /\ PCPtasks' = Append(PCPtasks, "UNLOCK")
    /\ UNCHANGED <<table, kept, toBeUnlocked, supply>>

SignalForResource(s) == \/ SignalReturns(s) \/ SignalCreates(s)
                        \/ SignalDrops(s)   \/ SignalWakes(s)
                        \/ SignalGives(s)   \/ SignalPosts(s)

SignalFails(s) ==
    \/ s.at = "drop" /\ ~CanBeFound(s.dtb) /\ Fails("requester")
    \/ s.at = "give" /\ ~CanBeFound(s.to) /\ Fails("blockedDTB")

-----------------------------------------------------------------------------
(* The handlers of the messages of the CPUs, and "finalizar".              *)

Comms_CPU_SignalResource(j) ==
    /\ j.op = "SIGNAL"
    /\ SignalForResource(j)
    /\ jobs' = (jobs \ {j}) \cup ({After(j)} \ {[j EXCEPT !.at = "done"]})
    /\ UNCHANGED <<place, cpu, toBeBlocked, toBeEnded, pcp, failure, outside>>

\* WaitForResource: the name is looked up, and added in another section ...
WaitLooksUp(j) ==
    /\ j.op = "WAIT" /\ j.at = "start"
    /\ Becomes(j, IF j.res \in resources THEN "take" ELSE "create")
    /\ UNCHANGED <<table, kept, place, cpu, data, PCPtasks, pcp, failure,
                   outside, supply>>

WaitCreates(j) ==
    /\ j.op = "WAIT" /\ j.at = "create"
    /\ AddNewResource(j.res)
    /\ supply' = [supply EXCEPT ![j.res] = @ + 1]
    /\ Becomes(j, "take")
    /\ UNCHANGED <<kept, place, cpu, data, PCPtasks, pcp, failure, outside>>

\* The CPU answers a refusal with a BLOCKDTB.
Refused(j) ==
    /\ jobs' = (jobs \ {j}) \cup {Job("BLOCKDTB", j.dtb, j.res, j.n)}
    /\ cpu' = [cpu EXCEPT ![j.dtb] = "idle"]

\* MUTANT of Refuses: the DTB is queued here too, as the comment of line 208 says.
RefusesAndQueues(j) ==
    Refused(j) /\ waiters' = [waiters EXCEPT ![j.res] = Append(@, j.dtb)]
Refuses(j) == Refused(j) /\ UNCHANGED waiters

\* ... and an instance is taken.
WaitTakes(j) ==
    /\ j.op = "WAIT" /\ j.at = "take"
    /\ availables' = [availables EXCEPT ![j.res] = @ - 1]
    /\ \/ /\ availables[j.res] > 0
          /\ Becomes(j, "grant")
          /\ UNCHANGED <<cpu, waiters>>
       \/ /\ availables[j.res] <= 0
          /\ Refuses(j)
    /\ UNCHANGED <<resources, kept, place, data, PCPtasks, pcp, failure, outside,
                   supply>>

\* The requester is searched for in EXEC only.
WaitGrants(j) ==
    /\ j.op = "WAIT" /\ j.at = "grant"
    /\ place[j.dtb] = "EXEC"
    /\ kept' = [kept EXCEPT ![j.dtb][j.res] = @ + 1]
    /\ cpu' = [cpu EXCEPT ![j.dtb] = "running"]
    /\ Finished(j)
    /\ UNCHANGED <<table, place, data, PCPtasks, pcp, failure, outside, supply>>

WaitFails(j) ==
    /\ j.op = "WAIT" /\ j.at = "grant"
    /\ place[j.dtb] # "EXEC"
    /\ Fails("requester")

Comms_CPU_WaitResource(j) == \/ WaitLooksUp(j) \/ WaitCreates(j)
                             \/ WaitTakes(j)   \/ WaitGrants(j)

\* BLOCKDTB after a refused wait: into the queue of waiters, then the task.
Comms_CPU_DTBAtDAM(j) ==
    /\ j.op = "BLOCKDTB"
    /\ \/ /\ j.at = "start"
          /\ waiters' = [waiters EXCEPT ![j.res] = Append(@, j.dtb)]
          /\ Becomes(j, "push")
          /\ UNCHANGED <<toBeBlocked, PCPtasks>>
       \/ /\ j.at = "push"
          /\ toBeBlocked' = Append(toBeBlocked, j.dtb)
          /\ Becomes(j, "post")
          /\ UNCHANGED <<waiters, PCPtasks>>
       \/ /\ j.at = "post"
          /\ PCPtasks' = Append(PCPtasks, "BLOCK")
          /\ Finished(j)
          /\ UNCHANGED <<waiters, toBeBlocked>>
    /\ UNCHANGED <<resources, availables, kept, place, cpu, toBeUnlocked,
                   toBeEnded, pcp, failure, outside, supply>>

Comms_CPU_OutOfQuantum(j) ==
    /\ j.op = "EOQUANTUM"
    /\ \/ /\ j.at = "start"
          /\ toBeUnlocked' = Append(toBeUnlocked, j.dtb)
          /\ Becomes(j, "post")
          /\ UNCHANGED PCPtasks
       \/ /\ j.at = "post"
          /\ PCPtasks' = Append(PCPtasks, "UNLOCK")
          /\ Finished(j)
          /\ UNCHANGED toBeUnlocked
    /\ UNCHANGED <<table, kept, place, cpu, toBeBlocked, toBeEnded, pcp, failure,
                   outside, supply>>

\* EOFORABORT of a CPU, and "finalizar" (which takes a CPU, not modelled here).
EndsDTB(j) ==
    /\ j.op \in {"EOFORABORT", "FINALIZAR"}
    /\ \/ /\ j.at = "start"
          /\ toBeEnded' = Append(toBeEnded, j.dtb)
          /\ Becomes(j, "post")
          /\ UNCHANGED PCPtasks
       \/ /\ j.at = "post"
          /\ PCPtasks' = Append(PCPtasks, "END")
          /\ Finished(j)
          /\ UNCHANGED toBeEnded
    /\ UNCHANGED <<table, kept, place, cpu, toBeBlocked, toBeUnlocked, pcp,
                   failure, outside, supply>>

Handler(j) == \/ Comms_CPU_WaitResource(j) \/ WaitFails(j)
              \/ Comms_CPU_SignalResource(j) \/ SignalFails(j)
              \/ Comms_CPU_DTBAtDAM(j) \/ Comms_CPU_OutOfQuantum(j) \/ EndsDTB(j)

-----------------------------------------------------------------------------
(* The short-term planner.                                                 *)

PCPTakes(t) ==
    /\ pcp.at = "wait"
    /\ PCPtasks # <<>>
    /\ Head(PCPtasks) = t
    /\ PCPtasks' = Tail(PCPtasks)

\* PCP_TASK_NORMAL_SCHEDULE, whenever it succeeds.
PCPDispatches(d) ==
    /\ pcp.at = "wait"
    /\ place[d] = "READY"
    /\ place' = [place EXCEPT ![d] = "EXEC"]
    /\ cpu' = [cpu EXCEPT ![d] = "running"]
    /\ UNCHANGED <<table, kept, jobs, data, PCPtasks, pcp, failure, outside,
                   supply>>

PCPBlocks ==
    /\ PCPTakes("BLOCK")
    /\ place[Head(toBeBlocked)] = "EXEC"
    /\ place' = [place EXCEPT ![Head(toBeBlocked)] = "BLOCKED"]
    /\ toBeBlocked' = Tail(toBeBlocked)
    /\ UNCHANGED <<table, kept, cpu, jobs, toBeUnlocked, toBeEnded, pcp, failure,
                   outside, supply>>

PCPUnlocks ==
    /\ PCPTakes("UNLOCK")
    /\ place[Head(toBeUnlocked)] \in {"EXEC", "BLOCKED"}
    /\ place' = [place EXCEPT ![Head(toBeUnlocked)] = "READY"]
    /\ toBeUnlocked' = Tail(toBeUnlocked)
    /\ UNCHANGED <<table, kept, cpu, jobs, toBeBlocked, toBeEnded, pcp, failure,
                   outside, supply>>

\* PCP_TASK_END_DTB: out of its list, then AddToExit, ...
PCPEnds ==
    /\ PCPTakes("END")
    /\ place[Head(toBeEnded)] \in {"BLOCKED", "READY", "EXEC"}
    /\ place' = [place EXCEPT ![Head(toBeEnded)] = "leaving"]
    /\ toBeEnded' = Tail(toBeEnded)
    /\ pcp' = [AtWait EXCEPT !.at = "next", !.dtb = Head(toBeEnded)]
    /\ UNCHANGED <<table, kept, cpu, jobs, toBeBlocked, toBeUnlocked, failure,
                   outside, supply>>

PCPFails ==
    /\ pcp.at = "wait"
    /\ PCPtasks # <<>>
    /\ \/ Head(PCPtasks) = "BLOCK" /\ place[Head(toBeBlocked)] # "EXEC"
       \/ Head(PCPtasks) = "UNLOCK" /\ ~CanBeFound(Head(toBeUnlocked))
       \/ Head(PCPtasks) = "END" /\ place[Head(toBeEnded)] \in {"leaving", "EXIT"}
    /\ Fails("target")

\* ... which signals what the DTB keeps, one after the other, ...
PCPSignals ==
    \E s \in {pcp} \cup {[pcp EXCEPT !.at = "start", !.res = r] :
                            r \in {r \in Names : pcp.at = "next"
                                                 /\ kept[pcp.dtb][r] > 0}} :
       /\ SignalForResource(s)
       /\ pcp' = IF After(s).at = "done" THEN [AtWait EXCEPT !.at = "next",
                                                             !.dtb = pcp.dtb]
                                         ELSE After(s)
       /\ UNCHANGED <<place, cpu, jobs, toBeBlocked, toBeEnded, failure, outside>>

Waiting(d, r) == d \in Range(waiters[r])

\* MUTANT of RemoveWaiter: the refused wait is still counted.
RemoveWaiterOnly(d) ==
    /\ waiters' = [r \in Names |-> RemoveFirst(waiters[r], d)]
    /\ UNCHANGED availables

\* ... and takes the DTB out of every queue of waiters.
RemoveWaiter(d) ==
    /\ waiters' = [r \in Names |-> RemoveFirst(waiters[r], d)]
    /\ availables' =
          [r \in Names |-> availables[r] + (IF Waiting(d, r) THEN 1 ELSE 0)]

PCPExits ==
    /\ pcp.at = "next"
    /\ \A r \in Names : kept[pcp.dtb][r] = 0
    /\ RemoveWaiter(pcp.dtb)
    /\ place' = [place EXCEPT ![pcp.dtb] = "EXIT"]
    /\ pcp' = AtWait
    /\ UNCHANGED <<resources, kept, cpu, jobs, data, PCPtasks, failure, outside,
                   supply>>

PCP == \/ \E d \in DTBs : PCPDispatches(d)
       \/ PCPBlocks \/ PCPUnlocks \/ PCPEnds \/ PCPFails
       \/ PCPSignals \/ SignalFails(pcp) \/ PCPExits

-----------------------------------------------------------------------------
(* The CPUs, which execute the scripts, and the console.                   *)

Signalling(d, r) ==
    Cardinality({j \in jobs : j.op = "SIGNAL" /\ j.dtb = d /\ j.res = r
                              /\ j.at \in {"start", "drop"}})

\* The next sentence of d sends a message; the CPU is then in state s.
CPUSends(d, op, r, s) ==
    /\ cpu[d] = "running"
    /\ cpu' = [cpu EXCEPT ![d] = s]
    /\ jobs' = jobs \cup {Job(op, d, r, ops[d])}
    /\ UNCHANGED <<table, kept, place, data, PCPtasks, pcp, failure, finalizars,
                   supply>>

Executes(d) == ops[d] > 0 /\ ops' = [ops EXCEPT ![d] = @ - 1]

CommandWait(d, r)   == Executes(d) /\ CPUSends(d, "WAIT", r, "asking")
CommandSignal(d, r) ==
    /\ Balanced => kept[d][r] > Signalling(d, r)
    /\ Executes(d)
    /\ CPUSends(d, "SIGNAL", r, "running")
CPUEndsQuantum(d)   == Executes(d) /\ CPUSends(d, "EOQUANTUM", NoName, "idle")
CPU_EndDTB(d)       == CPUSends(d, "EOFORABORT", NoName, "idle") /\ UNCHANGED ops

CommandFinalizar(d) ==
    /\ finalizars > 0
    /\ finalizars' = finalizars - 1
    /\ jobs' = jobs \cup {Job("FINALIZAR", d, NoName, finalizars)}
    /\ UNCHANGED <<table, kept, place, cpu, data, PCPtasks, pcp, failure, ops,
                   supply>>

CPU(d) == \/ \E r \in Names : CommandWait(d, r) \/ CommandSignal(d, r)
          \/ CPUEndsQuantum(d) \/ CPU_EndDTB(d)

Next ==
    /\ failure = "none"
    /\ \/ \E j \in jobs : Handler(j)
       \/ PCP
       \/ \E d \in DTBs : CPU(d) \/ CommandFinalizar(d)

Spec == Init /\ [][Next]_vars

-----------------------------------------------------------------------------
(* Properties.                                                             *)

Ops == {"WAIT", "SIGNAL", "BLOCKDTB", "EOQUANTUM", "EOFORABORT", "FINALIZAR"}
Places == {"start", "take", "create", "grant", "drop", "wake", "give", "push",
           "post"}
Callers(opset, at) ==
    [op : opset, dtb : DTBs \cup {NoDTB}, res : Names \cup {NoName}, n : Nat,
     at : at, to : DTBs \cup {NoDTB}]

\* The type of every variable.
TypeOK ==
    /\ resources \subseteq Names
    /\ availables \in [Names -> Int]
    /\ waiters \in [Names -> Seq(DTBs)]
    /\ kept \in [DTBs -> [Names -> Nat]]
    /\ place \in [DTBs -> {"READY", "EXEC", "BLOCKED", "leaving", "EXIT"}]
    /\ cpu \in [DTBs -> {"idle", "running", "asking"}]
    /\ jobs \subseteq Callers(Ops, Places)
    /\ toBeBlocked \in Seq(DTBs) /\ toBeUnlocked \in Seq(DTBs)
    /\ toBeEnded \in Seq(DTBs)
    /\ PCPtasks \in Seq({"BLOCK", "UNLOCK", "END"})
    /\ pcp \in Callers({"EXIT"}, {"wait", "next", "wake", "give", "post"})
    /\ failure \in {"none", "requester", "blockedDTB", "target"}
    /\ ops \in [DTBs -> Nat] /\ finalizars \in 0..MaxFinalizar
    /\ supply \in [Names -> Nat]

\* Callers of kind op that are at a place of at with resource r.
InFlight(op, at, r) ==
    Cardinality({j \in jobs \cup {pcp} : j.op \in op /\ j.at \in at /\ j.res = r})

\* The instances of r the DTBs keep, told apart by their order: <<d, i>>.
Instances(r) == UNION {{d} \X (1 .. kept[d][r]) : d \in DTBs}
KeptOf(r) == Cardinality(Instances(r))

\* The books balance: at every moment of every interleaving, the instances that
\* are free, kept or on their way to a DTB, and the refused waits, which are
\* owed one, add up to those that were brought into being.
Ledger ==
    \A r \in Known :
        availables[r] + KeptOf(r) + Len(waiters[r])
          + InFlight({"WAIT"}, {"grant"}, r)
          + InFlight({"BLOCKDTB"}, {"start"}, r)
          + InFlight({"SIGNAL", "EXIT"}, {"give"}, r)
        = supply[r] + InFlight({"SIGNAL"}, {"drop"}, r)

\* A DTB waits for one resource at a time and once, even if its wait is granted
\* before the PCP has blocked it.
WaitsOnce ==
    /\ \A r \in Names : Cardinality(Range(waiters[r])) = Len(waiters[r])
    /\ \A d \in DTBs : Cardinality({r \in Names : Waiting(d, r)}) <= 1

-----------------------------------------------------------------------------
(* What the comments of the code say and its executions contradict.        *)

\* The DTBs that have been given r and have not signalled it.
Keepers(r) == {d \in DTBs : kept[d][r] > Signalling(d, r)}

\* ResourceManager.h: a resource has one instance when it is created, and a DTB
\* that waits when none is free is blocked: if scripts signal only what they
\* keep, no two DTBs keep it.
OneKeeper == Balanced => \A r \in Names : Cardinality(Keepers(r)) <= 1

\* ResourceManager.h: a signal moves the first blocked DTB to READY, so that no
\* DTB waits for a resource that has a free instance nobody is handing over.
NoLostWakeup ==
    \A r \in Names :
        availables[r] >= 0 /\ InFlight({"SIGNAL", "EXIT"}, {"drop", "wake"}, r) = 0
            => waiters[r] = <<>>
=============================================================================
