# A verification project for S-AFA, CPU, DAM, FM9 and MDJ

The repository is a distributed simulation of an operating system: five
processes that talk over sockets, written in C on top of a small library of
threads and sockets (`kemmens`). This directory holds TLA+ models of its parts,
TLC runs that check them on small instances, and TLAPS proofs of what holds for
every size.

    Scheduling.tla          the scheduler of SAFA: planners, handlers, console
    DTBLifecycle.tla        what the scheduler promises: the states of a DTB
    MCScheduling.tla        instances of Scheduling for TLC (Scheduling_*.cfg)
    Scheduling_proofs.tla   types; the lifecycle; bookings; the counter; the loads of the dummy;
                            every task has its datum and finds its DTB; no dispatch is forgotten
    ReadyQueues.tla         the READY lists of SAFA, the policies and their change
    MCReadyQueues.tla       its instances (ReadyQueues*.cfg)
    ReadyQueues_proofs.tla  who is stranded, lost or copied by a change of policy; each policy keeps its promise
    Resources.tla           wait and signal: the resource manager of SAFA
    MCResources.tla         instances of Resources for TLC (Resources*.cfg)
    Resources_proofs.tla    the books of the resources balance; a DTB waits once
    Operations.tla          a script's operations across CPU, SAFA, DAM, MDJ and FM9
    MCOperations.tla        its instances (Operations*.cfg)
    Operations_proofs.tla   reports, tables, answers and memory stay in step; transfers are whole
    FileSystem.tla          FIFA, the file system of the MDJ
    FileStore.tla           what the MDJ promises: a store of files
    MCFileSystem.tla        instances of FileSystem (FileSystem*.cfg)
    FileSystem_proofs.tla   the owners of the blocks, the file of the bitmap, and that FileStore is implemented
    Segmentation.tla        the memory of FM9 under segmentation
    MCSegmentation.tla      its instances (Segmentation*.cfg) and the compaction loop
    Segmentation_proofs.tla its invariants
    Paging.tla              the memory of FM9 in pages, segmented or inverted
    MCPaging.tla            its instances (Paging*.cfg)
    Paging_proofs.tla       each frame has one owner; a DTB reads what it has written
    ThreadPool.tla          kemmens: the pool of threads
    SocketServer.tla        kemmens: the socket server, as FM9 uses it
    MCSocketServer.tla      its instances (SocketServer.cfg, Server_*.cfg)
    SocketServer_proofs.tla conversations stay whole; no wake-up of the pool is lost
    PROJECT.json            runs, mutants, source map, findings, hazards, theorems

How to run: `tlc -config Scheduling_ordered.cfg MCScheduling.tla`, and
`tlapm Scheduling_proofs.tla`. Section 11 lists the configurations that are not
among the runs.

## 1. The system

| component | state | operations | talks to |
|---|---|---|---|
| SAFA, long-term planner (PLP thread) | NEW, `beingDummied`, `inMemoryAmount`, `nextID`, the dummy DTB | create a DTB per script, admit the first of NEW by sending the dummy to load it, move a loaded DTB to READY | its task queue `PLPtasks` with `scriptsQueue`, `dummiedQueue` |
| SAFA, short-term planner (PCP thread) | READY (one list per policy), EXEC, BLOCKED, EXIT | dispatch to an idle CPU, load and free the dummy, block, unlock, end | its task queue `PCPtasks` with `toBeBlocked`, `toBeUnlocked`, `toBeEnded` |
| SAFA, handlers (a pool of 20 threads) | - | one job per message of a CPU or of the DAM: free the CPU, push a datum, post a task | both task queues, CPU registry, resources |
| SAFA, CPU registry | list of CPUs, each idle or busy | add, remove, mark busy, free | planners, handlers, console |
| SAFA, resources | table name -> instances, waiters | wait, signal, give back at the end of a DTB | handlers, PCP, the DTBs' `resourcesKept` |
| SAFA, console | - | `ejecutar`, `finalizar`, `status`, `metricas`, `salir` | task queues, CPU registry |
| SAFA, settings | policy, quantum, degree, delay; `algorithmChange` | reread on inotify; the PCP moves READY between the lists of the policies | PCP |
| CPU | - | execute a DTB line by line until quantum, block or end; execute the dummy | SAFA, DAM, FM9 |
| DAM | - | load, flush, create, delete: copy between MDJ and FM9 in chunks, report to SAFA | CPU, SAFA, MDJ, FM9 |
| FM9 | lines of memory; segments, pages or an inverted table; files being received | write, read a line, read a file, close a file or a DTB | CPU, DAM |
| MDJ | blocks, bitmap, metadata files | validate, create, read, write, delete | DAM |
| kemmens: socket server | set of sockets, who waits for which | hand an arrived packet to a handler or to a waiting thread | every server process |
| kemmens: thread pool | FIFO of jobs | add, clear, free | SAFA, DAM, FM9 |
| Configurator | - | rewrites the files of settings | SAFA |

A script is created as a DTB in NEW. The PLP admits it when fewer than
`multiprogramacion` DTBs are in memory and the dummy is free: the dummy, a DTB
with the id of the one it loads, goes through READY and EXEC like any other. Its
CPU asks the DAM to load the script and tells SAFA that the dummy can be freed;
when the DAM reports the load, the DTB goes to READY. A DTB in EXEC leaves its
CPU with one message: end of quantum, block (for the DAM or for a resource), or
end. The DAM's answer unlocks or ends a blocked DTB.

What is hard about it:

* **Two planners and a pool.** A handler pushes a datum, then posts a task; the
  planner takes a task, then pops one datum. Twenty threads handle messages in
  any order; the CPU sends to the DAM before it tells SAFA that the dummy left
  (`CPU/bibliotecaCPU.c:62-64`), so the DAM's answer can overtake its message.
* **Dropped tasks.** A task that finds nothing to do is dropped, never retried:
  whoever makes it possible later must post another one.
* **One dummy, many lists.** Searches by id also find the dummy.
* **Unlocked counters.** `inMemoryAmount` is written by both planners.
* **`finalizar`** may name any DTB in any state at any moment; it borrows an idle
  CPU and waits, in its own thread, for an answer on the CPU's socket.
* **Resources.** Waits and signals are jobs of the pool; a refused wait is queued
  only when the CPU has answered it.
* **Partial failures** of transfers and of the file system; memory and blocks that
  run out; files that are loaded while their DTB is ended.

What would make each component correct: no DTB lost or in two lists, the dummy
loading one DTB at a time, the degree respected, every task with its datum and
its target, no forgotten admission or dispatch, every script ended (planners);
no executing CPU taken for idle (registry); instances conserved, one keeper per
instance, no wait for a free instance (resources); a DTB of the old policy never
stranded (settings); each line in one segment, a reader gets its own lines
(FM9); each block in one file, failed operations leave nothing behind (MDJ); one
answer per request (DAM); each packet to exactly one reader (socket server);
each job run once, orderly stop (pool).

## 2. Scheduling

One action per task of a planner, per step of a handler, per console command and
per message of a CPU or the DAM. Lists whose order nothing depends on are sets
of ids; NEW and the queues are sequences.

| code | model |
|---|---|
| `PlanificadorLargoPlazo`, `Scheduling.c:419-581` | `PLP...`; `PLPTakesDummy` and `PLPAdmits` are the two halves of an admission, between which the PCP runs: the first loads `inMemoryAmount`, the second stores it plus one |
| `PlanificadorCortoPlazo`, `Scheduling.c:584-965` | `PCP...`; `PCPCanSchedule` sees an idle CPU, `PCPDispatches` takes it later; `PCPEnds` and `PCPEnded` load and store `inMemoryAmount` |
| `dummyDTB` | `dummy` (id and status) and `dummyIn`, how many nodes of each list point to it; searches by id match it (`DummyHasId`) unless they look at `initialized`, as the unlock does |
| `Communication.c` | `Comms_...(j)`: "start" frees the CPU and pushes the datum, "post" posts the task |
| NULL dereference, `exit(-1)` | `failure` names it and the process stops |
| `CommandFinalizar` | `CommandFinalizar` pushes the id, `...TakesCPU` marks a CPU as busy, `...Posts` frees it and posts the task |
| `SocketServer_WakeMeUpWhenDataIsAvailableOn` | `deaf`: when the answer to `finalizar` arrived before that call, the CPU's next message reaches no handler; the choice is nondeterministic |
| CPU and DAM processes | `running`, `dam`: they answer in any order after any delay, with success or error; `Overtaking` says whether a DAM's answer may be handled before the CPU's message about the same operation |

Steps are merged only where no other thread can tell: pushing a datum with the
release of the CPU; SetDummy with the insertion in `beingDummied`; the search of
a list with the removal. Named restrictions: a CPU does not disconnect while a
`finalizar` waits for its answer; a CPU sends one message per execution; which
DTB of READY a policy picks is left open (it is in `ReadyQueues`); BLOCKED, which the code reads without
a mutex, is never corrupted.

`DTBLifecycle` is the promise: a DTB is unborn, NEW, DUMMYING, READY, EXEC,
BLOCKED or EXIT; they are created and admitted in the order of their ids, and
none leaves EXIT. `Lifecycle == INSTANCE DTBLifecycle WITH status <- StatusOf`
maps the lists to those states; a DTB in the hand of the PLP is DUMMYING.

### Runs

| run | instance | shows |
|---|---|---|
| ordered | 2 CPUs, degree 2, 2 scripts with one burst, no `finalizar`, answers in order | `DummyLoadsOne`; `EmptyIsNotFull` (lost updates of the counter never block admission for good); `TargetsAreFound` (no NULL, no exit); `NoLostAdmission`, `NoLostDispatch` (who can be served has a task pending); under `FairSpec`, `EveryScriptEnds` |
| console | 1 CPU that may disconnect, degree 1, 2 scripts, one `finalizar` of any id, answers overtaking | `OnePlace`; `EveryTaskHasItsDatum`; `NoDoubleBooking`; `ImplementsLifecycle` |

Why the bounds suffice: two scripts are enough for one to be loaded while the
other is ended (the only pair that races on `inMemoryAmount`), and for two DTBs
to compete for a CPU; two CPUs for both to be busy, or one idle while the other
speaks; one burst for a script to block, be unlocked and come back; one
`finalizar` hits each of the states of a DTB at each moment. The bounds cap the environment only (`MaxDTB`, `MaxBursts`, `MaxFinalizar`); every
queue and counter of the code is unbounded in the model. The runs do not check
deadlock: when the console is silent, the scripts have ended or the process has
failed, nothing is left to do.

Fairness (`FairSpec`): weak fairness of the PLP, of the PCP, of the pool as a
whole, of each executing CPU and of the DAM. Each is a thread or process in a
loop that blocks on a semaphore or socket only; nothing obliges the console to
type, or a CPU to connect or to disconnect.

The same model shows other failures, each an action of its own: the idle CPU
that `ExistsIdleCPU` saw is taken by a `finalizar` (`PCPDispatchFails`); a DTB
ended while the DAM works for it makes the unlock exit (`PCPUnlockFails`);
`finalizar` of the id the dummy carries, 0 included, ends the dummy
(`EndsDummy`) and nothing can be loaded any more; a second DTB may be in
`beingDummied` because the dummy is freed before the load is reported; a DTB that
was READY before the first CPU connected waits for a task nobody posts.

## 3. ReadyQueues

`ReadyQueues` models what `Scheduling` leaves open: the three READY lists (one
per policy), the policies themselves, and the change of policy while SAFA runs.
The tasks of the planners are abstracted: a cycle of the PCP does any task that
the DTBs allow (who posts them is in `Scheduling`), and a message of a CPU and
its task are one step.

| code | model |
|---|---|
| `MonitorConfigFile`, `UpdateSettings`, `RegisterAlgorithmChange` (`Settings.c`) | `FileIsWritten` and `ModifiedAgain` (a save fires two events, `Settings.c:137`; one read takes all there are), `UpdateSettings`, `Registered`: a later event overwrites the change that is pending |
| start of a PCP cycle, `MoveQueues` | `PCPCopies` (under `mutexSettings`), `PCPMoves`, `PCPClears` (`algorithmChange` is cleared without the mutex, `Scheduling.c:639`) |
| `list_copy`, `queue_to_list`, `list_to_queue` (`Utils.c`) | `Copied`: the target is cleaned first |
| `AddToReady` of either planner | `...Stamps` then `...Inserts`: the time of arrival is taken before `mutexREADY` |
| `ScheduleRR`, `ScheduleVRR`, `ScheduleIOBF`, `HeunMethod`, `DescendantPriority` | `Chosen`, `Heun`, `AtPriorityQueue`, `Sorted` |
| `PCP_TASK_BLOCK_DTB`, `..._UNLOCK_DTB`, `..._END_DTB` | `PCPBlocks` with what is left of the quantum, `PCPUnlocksPreempted`, `PCPUnlocks`, `PCPEnds` |

Nobody waits for a change to be carried out: the file is saved at any moment, as
it was or otherwise, and the PLP adds a loaded DTB to the list of the policy of
that moment (`Scheduling.c:561`). The code loses and strands DTBs then, and the
model does too: `MoveQueues` cleans the new list before it fills it, so what
somebody put there first is lost; a second event sets `algorithmChange` to
UNALTERED before the lists were moved; from PROPIO to VRR the list that was just
filled is cleaned. The run **ready_change** and two configurations of section 11 end in
these (`ReadyQueues_lost`, `ReadyQueues_stranded`). `behind` is a history
variable, read by no guard: it marks the DTBs that such a collision left behind,
when it happens (an event while a change is registered or in the hands of the PCP,
an insertion elsewhere than at `Home`, a move to what is not the present policy any
more). The other properties say what holds of everybody else: `ReadyOnce`,
`NobodyStranded`, `PolicyKept`, `EverybodyRuns`. A DTB is marked no longer when it
leaves the lists.

| run | instance | shows |
|---|---|---|
| ready | 2 DTBs, 1 CPU, RR, VRR and PROPIO, quanta 1 and 2, two saves of the file, one operation per DTB, fairness | `ReadyOnce`, `NobodyStranded`, `PolicyKept`, `EverybodyRuns` |
| ready_change (violated) | 2 DTBs, 2 saves, every change | `OldListIsEmpty` |

Two saves are four events: a change, its repetition, a change back or a second one,
with the PCP anywhere in between. Two DTBs are one in a list and one that a planner
inserts, runs or blocks, or two that the policy has to choose from. `ReadyQueues_order.cfg`
checks `PolicyKept` with three, two in a list while one runs, and one save (1.9 million states, no violation). `EverybodyRuns` is checked for one of the DTBs, which are all
alike, and excepts PROPIO, which starves whoever does few operations, by design.
Fairness (`FairSpec`): the monitor, the PLP in the middle of an insertion and the
PCP go on; a CPU gives a DTB back at last; and each task of the PCP is followed by
a scheduling task in a FIFO queue, hence strong fairness of the dispatch, which
other tasks may disable in between.

## 4. Resources

`Resources` models `ResourceManager.c`, the handlers that call it and
`AddToExit`. A semaphore is a name in the table with `availables` and `waiters`;
`kept` is the DTB's `resourcesKept`. `SignalForResource(s)` is written once, for
the place `s` of its caller: the job of a SIGNAL, or the PCP giving back what an
ending DTB keeps. Its critical sections are steps of their own: return (or
create), drop, wake, give, post. `WaitForResource` looks up, creates, takes and
grants. A refused wait becomes the BLOCKDTB that names the resource, whose
handler makes the DTB a waiter, pushes the datum and posts the task, in three
steps. `supply` is a history variable: the instances a resource has, one when it
is created and one more for each signal of a DTB that does not keep it.

| run | instance | shows |
|---|---|---|
| resources | 2 DTBs with 2 and 1 sentences, one known and one unknown resource, a `finalizar` | `Ledger` (free, kept, owed and in-flight instances add up to those that exist); `WaitsOnce` |
| wakeup (violated) | 2 DTBs, one resource | `NoLostWakeup` |

`Ledger` is stated for the known resources: two first waits on an unknown one may
both create it, and the second entry replaces the first. The finding: in
**wakeup**, the signal comes between the refusal and the BLOCKDTB, wakes nobody,
and the DTB waits for an instance that is free.

Two DTBs are enough for every pair of calls to overlap. A script of two sentences can wait and signal, of one only
wait or only signal. Not modelled: two unlocks of `tableMutex` in a row (lines
120 and 164), which may release another thread's lock: a critical section is one
step. A search of a DTB and the use of what it finds are one step.

## 5. Operations

`Operations` follows an operation across the system: the CPU executes a script
and blocks the DTB at SAFA, asks the DAM, which moves a file between MDJ and FM9
in chunks and answers SAFA. SAFA is reduced to where a DTB is and to its table of
open files, MDJ to its files, FM9 to the files that a DTB has in memory; their
replies come at once (each has a module of its own). The messages of a CPU about an end
or a quantum are handled at once: nobody else speaks of that DTB then.

| code | model |
|---|---|
| BLOCKDTB and BLOCKDUMMY, from a CPU's send to the planner | `Blocks` and `BlocksDummy` leave `unread[c]`; `HandlesBlockDTB` and `HandlesBlockDummy` are the handler and the task it posts. In between the CPU asks the DAM, which may work and answer |
| searches by id of the planners | `Moves`: a DTB that is not in the list where it is looked for makes SAFA follow NULL or exit (`fallen`), and SAFA does nothing any more |
| loop of `CPU/main.c` | `Dispatches`, then `ExecutesLine`, a command, `EndsQuantum` or `EndsScript`; the quantum and the program counter move before the line is executed |
| commands of `bibliotecaCPU.c` | `CommandAbrir`, `...Flush`, `...Crear`, `...Borrar` (SAFA is told, then the DAM), `CommandAsignar`, `CommandClose`, `CommandFails` |
| `executeDummy` | `ExecutesDummy`, `BlocksDummy`: the DAM is told first |
| `DAMInterface.c` | `Takes`, `ChecksFile`, `DAM_ReadFile` (a chunk), `DAM_SendToFM9`, `DAM_ReadFileFromFM9`, `DAM_Flush` (a chunk), `DAM_Crear`, `DAM_Borrar`, `DAM_ErrorOperacion` |
| `SocketCommons_SendData` on `socketSAFA` | `SendsHeader`, `SendsBody` on `wire`; `SAFAReceives` reads one and then the other |
| CLOSEDTB | `closing`, `FM9_CloseDTB` |

`cpu[c].said` counts the reports to SAFA since the last dispatch. `CommandClose`
that FM9 refuses ends the DTB but leaves `commandResult` as it was
(`bibliotecaCPU.c:500-513`), so the CPU goes on; `OneReport` shows that this is
reached only for DTBs the console has ended. Restrictions: the scripts exclude
each other on a path (that is what wait and signal are for); a file that is
deleted while the DAM reads it would be asked for again for ever, and for an
empty file FM9 never sends the answer that the DAM waits for, so no file is
empty. A thread of the DAM is stopped between the two sends of a message only
where `Preempted` says so. Waits and signals are in `Resources`.

| run | instance | shows |
|---|---|---|
| operations | 2 DTBs, 1 CPU, 1 path, 2 threads of the DAM, quantum 2, chunks of 2, files of 3 lines, scripts of 3 lines, one `finalizar`, fairness | `OneReport`, `TablesAgree`, `ToldBeforeAsked`, `FallsAreProvoked`, `EndedIsReleased`, `TransfersAreWhole`, `EveryScriptEnds` |
| operations_mixed (violated) | the same without `finalizar` and fairness, threads stopped anywhere | `MessagesDoNotMix` |

A file of three lines in chunks of two has a full chunk and a short one; a script
of three lines crosses a quantum of two, and can open, change and flush or close;
two DTBs make two threads of the DAM work at once, on two loads too: the dummy
is free again when its BLOCKDUMMY has been handled (`DummyHas`). `Operations_cpus.cfg` checks the
invariants with two CPUs, where a DTB may be dispatched while what it said before is still
unread (2 million states, no violation).

SAFA may handle the answer of the DAM before the BLOCKDTB of the operation
(`Operations_overtaken`, section 11). It then moves the DTB from EXEC to READY, and the
BLOCKDTB later blocks it for ever, or makes SAFA fall. `overtaken` is a history variable that
marks such DTBs; they and those that the console ended (`Exempt`) are promised
nothing, and `FallsAreProvoked` says that without them SAFA never falls. What the lists do when the dummy and a
DTB of the same id are both in EXEC is in `Scheduling`; here a DTB that is dispatched while the dummy still has its
id is `overtaken`. `EveryScriptEnds` excepts a fall and these DTBs. Fairness:
the threads of the CPUs, of DAM and of FM9, SAFA's handlers and planners go on;
nobody must type `finalizar`.

## 6. FileSystem

`FileSystem` models FIFA (`MDJ/FSManager.c`) and its handlers. A request is the
`job` of a thread; a step is what it does under `bitmapLock`, or one call that
changes a file on disk, so the process can be killed between any two of them.

| code | model |
|---|---|
| `FSBitMap`, the bitmap's file | `bitmap`, `mapFile` (`Torn` between `fopen` and `fclose`) |
| metadata, blocks | `meta` (`Blank` between `fopen` and `config_save`), `data`, byte by byte |
| `FIFA_ReserveBlocks` | `ReserveTests` (a bit), `ReserveFails`, `RollsBack` (a block) |
| `FIFA_CreateFile` | `CreateArrives`, `CreateMakes`, `CreateSaves`, `CreateFills` (a block) |
| `FIFA_WriteFile` | `WriteArrives`, `WriteExtends`, `WritePuts` (a block), `WriteSaves` |
| `FIFA_DeleteFile` | `DeleteArrives`, `DeleteWipes` (a block), `DeleteRemoves` |
| `FIFA_FlushBitmap` | `FlushCopies` (under the lock), `FlushCloses` |
| `FIFA_ReadFile`, `FIFA_IsFileValid` | `GetArrives`, `CheckArrives`: one step |
| a kill, a failing `fopen`, a restart | `Kill`, `Fault`, `FIFA_Start` |

`FileStore` is the promise: a file is the sequence of its bytes, a request happens
at once and is answered. `StoreImplemented` is `Store!Spec` under a mapping that
shows a file as it was until its job is answered; after a kill, or a create that
cannot read its own metadata back, nothing is promised (`damaged`).

`astray` are the blocks whose bit a start, or a delete that cannot open a block,
has made wrong: the code saves the bitmap after the metadata, or loads whatever
`malloc` returns from an empty file, and nothing repairs it; `outdated` says that
a copy of the bitmap was written over a newer one. `SoleOwner`, `NoBlockLost` and
`MapSaved` except just these.

| run | instance | shows |
|---|---|---|
| files | 2 paths, 2 threads, 3 blocks of 2 bytes, sizes 1 and 3, buffers of 2 bytes at any offset, 4 requests, 1 fault | `SoleOwner`, `NoBlockLost`, `MapSaved`, `StoreImplemented` |

Three blocks of two bytes: a file of three bytes fills one block and a half, the
second one of that size does not fit; an offset is inside a block, at its border
and at the end of the file. Four requests create two files, change one and read
it, in two threads; one fault hits each moment. No two requests work on one path
at once: the scripts exclude each other. Paths and threads are interchangeable;
`VIEW` forgets what a job answers once nothing is promised of the answers.

## 7. Segmentation

`Segmentation` models `FM9/Segmentation.c` with the handlers of
`FM9Interface.c` that reach it. A request is the `job` of a worker of FM9's pool
(two threads, `FM9_Server.c:109`); a step of a job is one critical section, or
one use of a structure outside any.

| code | model |
|---|---|
| `freeSegments` | `free`, a set of `[base, limit]`: the list is ordered by base, and no two bases are equal |
| `segmentsPerDTBTable`, `t_segments` | `known` (keys), `next` (`nextSegmentNumber`), `segs` (segments with DTB and number) |
| `storage` | for each line, the DTB whose data was written there last |
| `FM9_Open`, `writeData_SEG` | `OpenRefused`, or `OpenTakes` (first fit, the whole free segment leaves the list), `OpenWrites` (one line per step), `OpenFinds` (the DTB's entry), `OpenFiles`, `OpenReturns` (the rest goes back) |
| `FM9_Close`, `closeFile_SEG` | `CloseArrives`, `CloseGets` (the entry, line 213), `CloseRemoves` or `CloseMisses` (the segment, 218-222), `CloseFrees`; with a CLOSEDTB of the same entry at work `CloseOvertakes`, `CloseFreesTwice` or `CloseFalls` |
| `FM9_CloseDTB`, `closeDTBFiles_SEG` | `CloseDTBArrives`, `CloseDTBRemoves`, `CloseDTBFrees` (one segment per step), `CloseDTBEnds` |
| `FM9_Flush`, `readData_SEG` | `FlushArrives`, `FlushReads` (one line per step, reading the limit again), `FlushEnds` |
| `FM9_AsignLine` | `AsignArrives` (translation), `AsignWrites` |
| `addFreeSegment` | `AddFree`: merge with the neighbours; `CompactionMerges` holds it to the loop of `freeSegmentCompaction`, written as in the code in `MCSegmentation` |

The environment is what the other processes do: a DTB has one request at a time
with FM9 (its CPU or the DAM waits for the answer), and ends by asking for its
memory (`CPU_EndDTB`, `DAM_ErrorOperacion`); the console's `finalizar` has a CPU
ask for it whatever the DTB is doing. An entry that leaves the table under a
worker makes that worker `dangling`: filing into it is then lost, joins what is
being released, or crashes FM9. `dictionary_remove` runs without a lock
(`Segmentation.c:238`): while a worker is inside it, another's look-up may crash
(`Collides`) and an entry put may be lost. A close keeps the entry it has looked
up while a CLOSEDTB takes the entry out of the table and destroys it
(238-244): it may miss the segment, take it before the destroyer does
(`CloseOvertakes`), find it although the destroyer has put it in the free list or
is about to (`CloseFreesTwice`), or use an entry that was freed (`CloseFalls`). In
the last two nothing more is followed (`crashed`): the list, the entry or both are
corrupted. A merge of the twice released segment is not modelled for that reason. Coarser than the
code: the three look-ups of a flush are one step. Files of zero lines do not reach FM9, because the
DAM sends no OPEN for them.

| run | instance | shows |
|---|---|---|
| segments | 2 DTBs, 2 workers, 3 lines, files of 1 or 2 lines, 2 numbers per entry, one DTB finished by the console | the six invariants |

Three lines make a hole split, leave a rest, and be merged from below, from above
and from both sides; two workers are what FM9 has; a DTB with two files and one
with one are needed for a number or a line to be used twice. A file of two lines
is interrupted between its writes. `finalizar` of one DTB hits each moment of
each request; with both finished, `ContentsKept` and `FlushesItsOwn` would promise
nothing. Symmetry of DTBs and workers is used for the invariants only. No
fairness is assumed: all properties are about safety, and a run may stop when all
DTBs have ended or FM9 has crashed.

`OneOwner` speaks of all that the workers hold, except the segment that such a close
gives back a second time, which happens only to a DTB that the console finished in the
middle of its close. `ContentsKept` and `FlushesItsOwn` make an exception for DTBs the console has
finished: an `asignar` translates its address, the DTB's lines are released and
given to another, and the write lands there. The run uses a `VIEW` that forgets
two values nobody reads again: the number kept by an entry that left the table,
and the addresses of a DTB that has ended and has no request on its way.

## 8. Paging

`Paging` models the paged modes of FM9: `Paging.c` with `PagedSegmentation.c`
(SPA) or `InvertedPageTable.c` (TPI), chosen by `mode` at the start; the two share
the allocation of frames and the handlers. Clients are those of `Segmentation`.

| code | model |
|---|---|
| `framesLibres`, `IPTable` | `free`, `ipt` (nobody clears its entries) |
| tables of DTBs | `known`, `next`, `files`; an entry that leaves the table under a worker makes it `dangling` |
| `writeData_SPA`, `_TPI` | `OpenFinds`, `OpenChecks` (counts outside the lock), `OpenTakes`, `OpenWrites`, `OpenMaps` (TPI: a page), `OpenFiles`, `OpenFilesNowhere` |
| `closeFile_...`, `closeDTBFiles_...` | `CloseFinds`, `CloseRemoves`, `CloseDTBRemoves`, `Frees` (a page), `FreesEnd`; a close whose entry a CLOSEDTB has taken away fails, takes the file before the destroyer (`CloseOvertakes`), or frees what the destroyer frees (`CloseFreesTwice`, which ends the model) |
| `readData_...`, `FM9_AsignLine`, `FM9_AskForLine` | `FlushFinds`, `FlushReads`, `FlushEnds`; `LineFinds`, `AsignWrites`, `AskReads`, `Told` |

| run | instance | shows |
|---|---|---|
| pages | 2 DTBs, 2 workers, 2 frames of 1 line, files of 1 or 2 lines, 2 pages or files per DTB, one `finalizar`, both modes | `FrameOwner`, `ContentsKept`, `HandsItsOwn`, `EntriesStand` |

Two frames are enough for one file of two pages, or two of one, and for the
request that does not fit; two workers for two files that count the free frames at
once. Under TPI a DTB whose entry was removed and made again numbers its pages
from 0 once more, and the inverted table, whose entries are never cleared, cannot
tell the new pages from the old ones (`freeFrames` may even search for ever for a
page that is in no entry): the properties are stated while `PagesAreTold`, which
fails only after a `finalizar` or a crash. It never holds again once it has
failed, so the run takes it for its `CONSTRAINT`: the states it cuts off satisfy
the properties by their form, except `EntriesStand`, which `PagesAreTold` does not
guard: the entries that are made again, or taken away under a worker, are only those of DTBs that the console
finished. A request for a line past the end of a file is
accepted under TPI (`strays`), and reaches the next frame.

## 9. SocketServer and ThreadPool

`ThreadPool` models `kemmens/ThreadPool.c`: the queue, the threads between their
test and their wait, the announced end, the joining and the freeing of the pool.
`Detached` is the argument of `ThreadPool_CreatePool`: a detached pool is freed
without joining (`Joined`). Every pool of this code is made with FALSE.
`SocketServer` extends it with the select loop of `kemmens/SocketServer.c` and the
jobs of `FM9_Server.c` and `FM9_Open`, the one server with conversations of
several packets.

| code | model |
|---|---|
| `SocketServer_ListenForConnection` | a turn for one socket: `Accepts`, `Receives`, `Disconnects`, `ReceiveFails`; `EndsTurn` looks at `closeAll` |
| `SocketServer_ReserveSocket`, `SocketServer_WakeMeUpWhenDataIsAvailableOn` | `Reserves` (under the lock), `Marks` (outside it), `Acknowledges`, `Listens`, `Hears` |
| handlers | `Answers` (one packet), `Begins` ... `Concludes` (a conversation) |
| "quit" | `ReadsQuit`, a job like any other, `CommandQuit`, then `Frees` in `main` |
| a client | `Connects`, `Asks`, `GoesOn`, `HangsUp`, `Resets` |

`fallen`: a job followed a NULL packet (`FM9Interface.c:205`) or used a client
that was freed; FM9 does nothing any more. The descriptors of closed connections
are never closed (`SocketServer.c:226`), so a client is never reused. "quit" is
seen at the end of the turn of a socket that was served, not when it is typed.

| run | instance | shows |
|---|---|---|
| server | 2 threads, 2 clients, requests of 1 packet or 3, one client that hangs up or falls, "quit" | `ConversationsStayWhole`, `NobodySleepsOnAJob`; with fairness `EverybodyIsAnswered` |

FM9 has two threads; two clients occupy both with conversations, or leave one for
the other; three packets are a first, a middle and a last one. Fairness: the
threads run, `select` serves a socket that stays ready, a client goes on with what
it began; nobody must ask, hang up or quit.

## 10. What is proved

Of the scheduler, with `SchedulingAssumption` only (CPUs any set, the bounds any naturals):

* `TypeInvariant`: `Spec => []TypeOK`. Inductive as it stands, one step per
  action, with `TypeFrame` for the parts an action leaves alone. It is
  proved for every value of the constants, as those of `Segmentation` and `Resources`
  are, and is in no run.
* `PlaceInvariant`: `Spec => []OnePlace`. `OnePlace` needs `TypeOK` and nothing
  more: each list operation moves an id between two disjoint sets.
* `Refinement`: `Spec => ImplementsLifecycle`. Under `TypeOK /\ OnePlace` every
  action maps to one of `DTBLifecycle` or to a stutter (`StatusOf` is a function
  of the lists only because they are disjoint).
* `BookingInvariant`: `Spec => []NoDoubleBooking`. It is not inductive: a CPU that
  is not busy must also have no message on its way, or the handler would free it
  while it executes again. `Booked` adds that each CPU has at most one of: an
  execution, an unhandled message, a `finalizar`.
* `RoomInvariant`: `Spec => []EmptyIsNotFull`, if `Degree > 0` (a degree of 0 admits
  nobody, and the memory is then full from the start). The two threads do lose
  updates, and the counter may drift in both directions. `Room` bounds the drift:
  the PLP stores the value it has loaded plus one, and loaded it only if it was
  below `Degree`, so that the counter exceeds the DTBs in memory (`Held`) by less than
  `Degree` after every admission, whatever it overwrites; and an end, which stores
  one less than it loaded, takes one DTB out of memory at most.

The other invariants of the scheduler are proved under `~Overtaking`: SAFA handles the message of a CPU
about an operation before the answer of the DAM to it. The code does not
oblige them to come in that order (two sockets, a pool of threads), and without it
`DummyLoadsOne` is false: the search that section 11 describes (`Scheduling_overtaken`) sets the
dummy free before its load is over. `Overtaking` is a constant of the model,
the runs have it both ways, and each of these theorems says so in its statement.

* `LoadsInvariant`: `Spec => []DummyLoadsOne`. The invariant is `SchedulerInv`. `Fresh` says
  of every id in a message, a CPU, the DAM or a queue how far its DTB has got: one
  that loads has been taken from NEW, one that is answered has been told
  to the PCP, one that executes has begun. No DTB goes back (`OnwardNext`, which
  needs only `OnePlace`), so what was said stays true. `LoadsInv` counts the places of a load: in the hand of the
  PLP, in a task, in READY, on a CPU, in a message. A step moves it
  from one to the next, and the unlock cannot take the dummy for a DTB (`BlocksNoDummy`), since the
  id it carries has not begun to execute.
* `AdmissionInvariant`: `Spec => []NoLostAdmission`, from `SchedulerInv`: the PLP has just looked, or
  the dummy is free again, or a DTB has ended, and the last two post a task. The dummy cannot be free
  at the moment in which the PLP admits a DTB, by `DummyLoadsOne`.
* `DatumInvariant`: `Spec => []EveryTaskHasItsDatum`. Each handler pushes one datum and then
  posts one task, and each task pops one. That the counts agree rests on the
  messages being different, for `jobs` is a set: `Numbers` (each burst of a DTB has a number, less
  than those before), `LoadIds` (the dummy carries the id of the DTB it loads until a CPU has run it), `OneTurn` (a DTB is in
  one place only: READY, a CPU, the DAM, a message or the queue of the unlocks), `AnsweredOnce` (the
  DAM answers once) and `NoTwins` (two messages that differ in nothing but their
  progress are one). The hypothesis `~Overtaking` is needed for the last only: when two loads
  overlap, the CPUs send two equal messages, which the model merges and the code
  does not. Run **console** checks the property with answers that overtake.
* `DispatchInvariant`: `Spec => []NoLostDispatch`, with the further hypotheses that the
  CPUs are finitely many (they are counted) and all connected from the start: a CPU that connects posts
  no task, so a DTB that was READY before it waits until somebody posts one, as section 2 says.
  The property is not inductive. `Dispatch` counts also what will be READY: the DTBs that the DAM has loaded, and
  those that an unlock or a load of the dummy is about to make READY, against the tasks that plan, all the
  ones that end with a plan included. Either side of a step
  moves by as much as the other (`Balance`), and a plan is dropped only when there is no idle CPU or nobody is READY.
* `TargetsInvariant`: `Spec => []TargetsAreFound`, with the further hypotheses that nobody types
  `finalizar` and no CPU disconnects, as in run **ordered**: with either, the idle CPU that `ExistsIdleCPU` saw
  may be gone, and a `finalizar` may end the DTB a task is about (section 2). `TargetsInv` says that one thing at most is under way for a DTB. Its claims
  (`ClaimsHold`) are the CPU that runs it, the request the DAM works on, the message that unlocks,
  ends or has loaded it, and the datum this pushes; the claim passes from one to the next and implies the list
  the DTB is in. A block goes beside the DAM's request (`BlocksHold`):
  the DTB is in EXEC until it is taken, and the DAM answers only after it. A load of the dummy
  is asked for once (`LoadsOnce`), and a CPU that was seen idle stays idle (`Spare`).

Of the READY lists, with `ReadyQueuesAssumption` only (any DTBs, CPUs, settings and
number of saves, each of two events, and insertions at any moment):

* `StrandedInvariant`: `Spec => []NobodyStranded`. The invariant is `Rules /\ Lists /\ AtHome`.
  `Rules` follows a change from the file to `algorithmChange` and to the PCP that moves the
  DTBs; `AtHome` says that whoever is in a list and was not left behind is in `Home`: the
  present list, or the one that the PCP is still to move to it. Each step that makes this false for
  somebody marks them, and the proof is that no other step does.
* `ReadyOnceInvariant`: `Spec => []ReadyOnce`. The invariant `Lists` says that the lists have no DTB
  twice, are apart, and hold only READY DTBs that no planner has in its hands, and all of those that
  were not left behind; the times of arrival are those of all READY DTBs. `MoveQueues` and the sorting of the own
  policy keep that (`MovedOf`, `SortedOf`): whoever was in the list that is filled is dropped, and is
  behind by `AtHome`.
* `PolicyKeptProperty`: `Spec => PolicyKept`. Those who were not left behind are all in the list that
  the PCP looks at (`AllInOneList`, from `AtHome`), so the first of that list by the
  priority of the own policy is the first of all. That `list_sort` puts somebody first
  and loses nobody is `Ranking`: in a finite set with a strict order each rank is
  taken by one member. The first of the DTBs with a rest of their quantum exists because
  the positions are well ordered (`LeastExists`), and what it gets is `HeunOf`.

Of the resources, with `ResourcesAssumption` only (finitely many DTBs and names of
resources; any scripts, any number of `finalizar`, and scripts that signal what they
do not keep as well as scripts that do not):

* `TypeCorrect`, `LedgerInvariant` and `WaitsOnceInvariant`: `TypeOK`, `Ledger` and
  `WaitsOnce`, from the inductive invariant `ResourcesInv`. `Ledger` counts the callers
  that are between two critical sections, and it is only kept by a step if the step
  does to `jobs`, `availables`, `kept` and `waiters` what it says: that a caller past
  the look-up has its resource in the table (`JobOK`), that a new message is not one
  that is already there (`OneJobASentence`; `jobs` is a set), and that the datum
  that a task of the PCP takes is there (`TasksHaveData`, which counts the tasks
  against the lists). `OneTurn` follows a DTB: whoever of the READY list, its CPU, a caller, a
  queue of waiters or the list of those to be unlocked has it, nobody else does; that it
  waits once is a part of it. The proof showed two cases of `After` to overlap for a
  signal whose resource is not in the table, where CHOOSE may take either; they now
  exclude each other.

Of the operations, with `OperationsAssumption` only (the script is not a path that
a script opens; any DTBs, CPUs, paths, quantum, transfer size and number of DTBs that
the console ends):

* `CrossingInvariant`: `Spec => []Crossing`, the inductive invariant. For each DTB that
  the console has not ended and no answer has overtaken it says in whose hands it is: one CPU executes it or is
  about to ask the DAM (`OneCPU`), or one job of the DAM serves it (`OneJob`), or
  one message on the way to SAFA answers it (`OneAnswer`), never two of them; and
  which files it has in FM9, by its table and by what is in those hands
  (`OneTable`). `OneRelease` says that its memory is released when it is over.
  While a BLOCKDTB is unread, all this is said of where the DTB will be, and with which
  table, when it has been handled (`Where`, `Table`), and `OneNotice` says that it can be handled.
* `ReportInvariant`, `TablesInvariant`, `ToldInvariant`, `FallsInvariant` and `ReleaseInvariant`:
  `OneReport`, `TablesAgree`, `ToldBeforeAsked`, `FallsAreProvoked` and `EndedIsReleased` from it. None of
  them is inductive: a DTB is told to SAFA before the DAM answers only because the CPU sends
  in that order, and the table is right when the answer is
  filed only because nothing else has touched it since. They do not
  need the scripts to exclude each other on a path (`Exclusive`). With `Preempted` they
  speak of SAFA only until two messages are mixed: it reads no more after that.
* `TransfersInvariant`: `Spec => []TransfersAreWhole`, from `Crossing /\ Transfers`. `Moved`
  says of a request under way what it has carried: a beginning of the file of the MDJ while it
  reads, all of it when it stores; and while it writes, that the file of the MDJ already has the
  first `n` lines. This is kept by the steps of the others only because no two requests are
  about one file (`PathsApart`), which is where `Exclusive` is needed: with two requests on a path
  one could overwrite, or delete, what the other has half moved. The scripts themselves are read by several
  requests at once, and nobody writes them. The memory of a DTB that the console has ended
  may go at any moment, so `Moved` says of it only what is on the disk.

Of the file system, with `BoundsAssumption` only (at least one block, of at least one
byte; sizes and lengths that are naturals, buffers that are sequences; any paths and
threads, any number of requests, kills and calls that fail):

* `OwnersInvariant`: `Spec => []Owners`, the inductive invariant. Each path is worked on
  by one thread (`OneWorker`); what a thread has reserved is not yet in the file it
  is for, and what a file is extended with begins with what it has (`HandNew`); the
  metadata and the hands of the threads have no block twice and none in common
  (`OneHolder`), all that they have is in use (`InUse`), and all that is in use they
  have (`Found`), but for the blocks `astray`. One lemma, `StepKeeps`, says what a
  step may do: a path gains only blocks that were free, and a block is free again
  only when its path has it no longer; each action is shown to be such a step.
* `SoleOwnerInvariant`: `Spec => []SoleOwner`, from it.
* `NoBlockLostInvariant`: `NoMetadata => (Spec => []NoBlockLost)`. The hypothesis says that
  the values for missing and empty metadata are not metadata with blocks.
* `MapSavedInvariant`: `Spec => []MapSaved`, from `Owners /\ MapInv`. `MapSaved` speaks of
  the file of the bitmap once it is written, and `MapInv` of each copy between `fopen` and
  `fclose` too (`Copies`): it has the blocks of every file (by `InUse`, for it was taken under
  `bitmapLock`), but for the files that are being changed and those whose thread has copied the bitmap
  after it (`Newer`). When such a thread writes first, the older copy is late, and is excepted.

* `StoreRefinement`: `Spec => StoreImplemented`, if `NoMetadata`, `NoFiles` and
  `0 \notin Sizes`. The first two say that the values for a path without a file, for
  empty metadata and for files nothing is known of are not themselves files; the last is
  needed, for a file without blocks counts as having room for one (section 11). The
  invariant is `StoreInv`, `Owners` with `Sound`. `Carries` relates the blocks to
  the bytes: block `k` has the bytes of the file from `k * BlockSize` on, as far as the
  file goes, and nothing after them. A file at rest carries its content (`Whole`); a job that
  writes says what its blocks carry now and that with the rest of its buffer they will carry what
  the request asked for (`Puts`); a job that fills has so many newlines (`FillSound`); one that
  reserves has only empty blocks (`ReserveSound`), since a block that is free has no
  bytes (`Tidy`). Since the blocks that two jobs hold are apart
  (`Owners`), a write of one leaves what the others carry (`SoundStep`), and the steps of a request are
  stutters until the one that answers it, which is one of `FileStore` (`EffectIs`).
  `CarriesPut` is `FIFA_BlockPutContent`, one block of a write. `ReadFileIs` is the loop of `FIFA_ReadFile`, a recursive
  function: what it has copied after each block is the beginning of the window asked for
  (`CopyingIs`), and two functions that satisfy the equation of the loop are equal, since there would be
  a first block at which they differ (`CopyingOne`). After a kill in the middle of
  something, the store promises nothing (`StoreLost`), as in the run.

Of FM9's segmentation, with `BoundsAssumption` only (at least one line, the bounds
naturals; any sets of DTBs and workers):

* `TypeInvariant`: `Spec => []TypeOK`, which includes that what a worker carries
  lies inside the memory. It needs that `AddFree` gives segments of the memory
  (`MergedIsHole`).
* `OneOwnerInvariant` and `ListInvariant`, from
  `OwnerInv == NobodyFreesTwice /\ ListCompacted /\ OnlyFreersRelease`, which every step keeps but
  `CloseFreesTwice`, after which FM9 does nothing more: merging keeps what
  was apart from the list apart (`AddFreeApart`) only if the list was compacted,
  so the two are proved together; the last part says that only workers that free
  segments hold any to free. That the segment given back twice is of a DTB that the console finished
  is by `OneRequest`, below: no CLOSEDTB of another DTB comes while its close is served.
* `ContentsInvariant`. `Written` adds that a file being written has its first lines
  in place, `InUse` that the line of an `asignar` and the segment of a flush are
  still the DTB's own. `InUse` follows from `OneRequest`, the discipline of the
  clients: a DTB that was not finished by the console has one request at a time,
  and its memory is released only after it has ended.
* `FlushInvariant`, from `InUse` and `ContentsKept`.
* `NumbersInvariant`: `Spec => []AddressesUnique`. `Counted` adds that the numbers in
  use are below `next` of an entry in the table, and `FilesInKnown` that a worker
  about to file is either dangling or has its entry in the table.

Of FM9's pages, with `BoundsAssumption` only (at least one frame, of at least one line, the
bounds naturals, and `Nobody` not a DTB; any sets of DTBs and workers, both modes), and
`PagesAreTold` as the hypothesis that each of the properties has:

* `FramesAreOwned`, `ContentsAreKept` and `HandsTheirOwn`: `Spec => []FrameOwner`,
  `[]ContentsKept` and `[]HandsItsOwn`, from `PagingInv == PagesAreTold => Good`. A
  step that ends while the pages are told apart began so (`StaysTold`), so that each
  action is shown to keep `Good`, with `PagesAreTold'` where it matters.
* `Apart`, a part of `Owned`, says that a frame is in one place: the list, a file, the hands of a worker, or lost. Under
  SPA a file has its frames in a list. Under TPI they are those that `IPTable` gives
  for its pages, so that a step that changes the table might move frames of files that
  nobody touches. `OpenMaps` moves none: the page it writes is `next`
  of the entry, above every page in the table and in a file (`Paged`), and the frame it writes
  it for was in hand, hence in no file. That the file finally has just the frames that the
  worker took follows from `PagedJob`: page `first + i` is in frame `i` and nowhere else. This is what breaks when an entry
  is made again and the numbers begin at 0.
* `FreesApart` says the same of a worker that frees its files page by page, without
  a list of what it has already given back; `Frees` looks pages up in a table that still has
  all of them.
* `Contents`: the lines of a file, and of the frames that were written for one being opened,
  are its DTB's. A write reaches no other file by `Apart`. What is read stays until it was read by
  `OneRequest`, the discipline of the clients again: another worker may remove the files of a DTB
  only for a request of that DTB or because the console ended it.

Of the server, with `ServerAssumption` only (conversations of at least one packet; any
threads, clients, lengths, and number of clients that hang up or fall, with "quit" or
without):

* `ServerInvariant`: `Spec => []ServerInv`, the inductive invariant, one `View` for each
  client: its other end, what is on the way in each direction, and its flag, data and
  semaphore. A client has at most one job, in the queue or in a thread (`OneJob`). If
  it has none, it has asked nothing or is served (`Before`, `After`); if its job is in the
  queue, it waits (`Waits`); if a thread does it, the thread either has the packet that
  was last sent (`Holds`) or has asked for the next one, and that is asked for, on its
  way or in `arriveData` (`Asked`, `Sent`, `Arrived`), unless the server has ended (`Stuck`).
* `ConversationsInvariant`: `ConversationsStayWhole`, from it. The packet of a
  conversation may become a new job only if the flag is not set when it is received;
  the code sets the flag outside the lock, so this rests on the client: it sends the
  next packet after the reply, and the reply comes after the flag.
* `AwakeInvariant`: `NobodySleepsOnAJob`, from `PoolOK`: a thread waits only if the queue was empty
  when it looked, under the lock, and whoever adds a job wakes all.

Model-checked only: `CompactionMerges` (its reference is recursive); `EntriesStand`; and the liveness
properties (`EverybodyIsAnswered` among them), which are beyond the prover.

## 11. Findings, and configurations that end in a violation

Three runs are findings, each against a comment of the code: **wakeup**,
**operations_mixed** (the threads of the DAM share the connection with SAFA and a
message is two sends) and **ready_change** (`MoveQueues` cleans the wrong list).
These configurations are not runs; TLC ends each with a counterexample, which
shows a case that the runs' properties except or that no comment speaks of:

| configuration | violated | because |
|---|---|---|
| `ReadyQueues_lost` | `WaitsSomewhere` | the PLP adds a DTB to the list of the new policy while the change is pending, and `MoveQueues` drops it: READY and in no list. `Scheduling.c:559` speaks of being isolated from a simultaneous change, and 162 of the mutex of the lists as the guard against it |
| `ReadyQueues_stranded` | `NobodyPassedOver` | the second event of a save finds the policy already read, sets `algorithmChange` to UNALTERED before the PCP has moved the lists (`Settings.c:44`, 137), and the DTBs stay in the old one |
| `Operations_overtaken` | `AnswersFindTheDTB` | SAFA reads the answer of the DAM before the BLOCKDTB of the CPU, on another socket: the DTB is still in EXEC, and the BLOCKDTB finds it no more. `Communication.c:45` and 86 count on the opposite |
| `Scheduling_degree` | `DegreeRespected` | `inMemoryAmount++` and `--` in two threads lose an update: one DTB too many is admitted |
| `Scheduling_end_new` | `NewDTBCanBeEnded` | `finalizar` of a DTB of NEW dereferences NULL |
| `Scheduling_overtaken` | `BlockMovesTheDTB` | a DTB that is dispatched before the dummy is freed blocks, and the search by id finds the dummy |
| `Resources_keepers` | `OneKeeper` | a signal gives an instance to a waiter that another DTB has taken in between |
| `Segmentation_refused` | `RefusedForLack` | while a file is written, the whole segment it is cut from is out of the list |
| `Segmentation_twice` | `NobodyFreesTwice` | a close has the entry of a DTB that the console finished, and gives back the segment that CLOSEDTB gives back: it is twice in the free list |
| `Paging_short` | `EnoughFrames` | the free frames are counted outside the lock: a file gets fewer than it needs |
| `FileSystem_empty` | `StoresWhatItAccepts` | a file without blocks counts as having room for one |
| `Server_ends` | `ThePoolEnds` | a thread that has tested `terminate_all` waits for a condition that was signalled in between, and is never joined, although `kemmens/ThreadPool.h:77` says that the threads are waited for |
| `Server_falls` | `HangingUpIsHarmless` | a client that hangs up in a conversation makes FM9 follow NULL |

## 12. What is left

Everything planned is modelled. What is worth adding: an allocator of lines that `Segmentation`
and `Paging` both implement.

Not modelled: parsing, serialization, logging and the formats of files, which have
no state of their own (what they compute is part of the actions that call them);
the metrics and the commands that only print; the console of the MDJ; the
Configurator, which only rewrites files of settings; two unlocks of `tableMutex` in
a row; what happens to the DTB of a CPU that disconnects, of which the code says
nothing (the disconnection itself is in `Scheduling`).
