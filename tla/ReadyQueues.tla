------------------------------ MODULE ReadyQueues ------------------------------
(***************************************************************************)
(* The three READY lists of SAFA, one for each policy, and the change of   *)
(* policy (SAFA/Settings.c; MoveQueues, AddToReady and the Schedule...     *)
(* functions of SAFA/Scheduling.c).                                        *)
(*                                                                         *)
(* Three threads: the monitor rereads the file of settings when inotify    *)
(* reports a write, and registers the change of policy; the short-term     *)
(* planner copies the settings at the start of a cycle, moves the lists if *)
(* the policy changed, and then does its task; the long-term planner puts  *)
(* a loaded DTB in the list of the policy of that moment.                  *)
(*                                                                         *)
(* Scheduling has the tasks of the planners and who posts them; here a     *)
(* cycle does any task that the DTBs allow, and a CPU's message and its    *)
(* task are one step.                                                      *)
(***************************************************************************)
EXTENDS Integers, Sequences, FiniteSets, SequencesExt

CONSTANTS
    DTBs,
    None,      \* no DTB
    CPUs,      \* how many CPUs there are
    Files,     \* what the file of settings may hold
    Watched,   \* the DTBs of EverybodyRuns: all of them are alike
    MaxEdits,  \* bound: how often the file is written
    MaxIO      \* bound: the file operations of a DTB

Algorithms == {"RR", "VRR", "PROPIO"}
Unaltered == <<>>

ASSUME ReadyQueuesAssumption ==
    /\ None \notin DTBs \cup Algorithms /\ CPUs \in Nat \ {0} /\ MaxEdits \in Nat /\ MaxIO \in Nat
    /\ Files \subseteq [algorithm : Algorithms, quantum : Nat \ {0}]

VARIABLES
    file, notified,    \* the file of settings; an inotify event not yet read
    again,             \* is the second event of the last save still to come?
    settings,          \* what SAFA read
    algorithmChange,   \* <<prior, latter>>, or Unaltered
    plp,               \* the DTB that the PLP adds, with mutexSettings locked
    pcp,               \* the PCP: where it is, schedulingRules, the DTB it adds
    ready,             \* READYqueue_RR, _VRR and _Own
    arrived,           \* the READY DTBs by arrivalAtREADYtime
    place, quantumRemainder, ioOperations,
    edits,
    behind             \* history: the READY DTBs that a collision left behind

watch == <<file, notified, again, edits>>
rules == <<settings, algorithmChange>>
dtbs == <<place, quantumRemainder, ioOperations>>
lists == <<ready, arrived>>
vars == <<watch, rules, plp, pcp, lists, dtbs, behind>>

Init ==
    /\ file \in Files /\ settings = file
    /\ notified = FALSE /\ again = FALSE /\ edits = 0
    /\ algorithmChange = Unaltered
    /\ plp = None
    /\ pcp = [at |-> "waits", name |-> file.algorithm, change |-> Unaltered,
              quantum |-> file.quantum, dtb |-> None]
    /\ ready = [a \in Algorithms |-> <<>>]
    /\ arrived = <<>>
    /\ place = [d \in DTBs |-> "loading"]
    /\ quantumRemainder = [d \in DTBs |-> 0]
    /\ ioOperations = [d \in DTBs |-> 0]
    /\ behind = {}

--------------------------------------------------------------------------------
\* Who is left behind (read by the properties, tested by no action).

\* The list whose DTBs the present policy takes, or will once the PCP has moved
\* it; none while the PCP carries out a change that is not to the present policy.
Home ==
    CASE pcp.at = "moves"  -> IF pcp.change[2] = settings.algorithm THEN pcp.change[1] ELSE None
      [] pcp.at = "clears" -> settings.algorithm
      [] OTHER -> IF algorithmChange = Unaltered THEN settings.algorithm ELSE algorithmChange[1]

Queued == UNION {ToSet(ready[a]) : a \in Algorithms}

\* The PCP is still to carry out, or to forget, a change.
Changing == algorithmChange # Unaltered \/ pcp.at \in {"moves", "clears"}

--------------------------------------------------------------------------------
\* The file of settings and its monitor.

\* The administrator saves the file, at any moment: an editor may save it as it
\* was, and modifies it twice.
FileIsWritten(s) ==
    /\ edits < MaxEdits
    /\ file' = s /\ notified' = TRUE /\ again' = TRUE /\ edits' = edits + 1
    /\ UNCHANGED <<rules, plp, pcp, lists, dtbs, behind>>

ModifiedAgain ==
    /\ again
    /\ notified' = TRUE /\ again' = FALSE
    /\ UNCHANGED <<file, edits, rules, plp, pcp, lists, dtbs, behind>>

\* MUTANT of Registered: the prior policy is looked at after it was replaced.
RegisteredLate(prior, latter) == Unaltered

Registered(prior, latter) ==
    IF prior = latter THEN Unaltered ELSE <<prior, latter>>

\* MonitorConfigFile: one read takes all the events there are.  A change that is
\* pending is overwritten, by Unaltered if the policy is the one already read.
\* Whoever is in a list then is left behind, unless the PCP has that change in
\* hand and the policy stays.
UpdateSettings ==
    /\ notified /\ plp = None
    /\ notified' = FALSE
    /\ settings' = file
    /\ algorithmChange' = Registered(settings.algorithm, file.algorithm)
    /\ behind' = IF Changing /\ ~(pcp.at \in {"moves", "clears"} /\ settings.algorithm = file.algorithm)
                 THEN behind \cup Queued ELSE behind
    /\ UNCHANGED <<file, again, edits, plp, pcp, lists, dtbs>>

--------------------------------------------------------------------------------
\* The lists.

PositionIn(list, d) == CHOOSE i \in DOMAIN list : list[i] = d
Position(d) == PositionIn(arrived, d)

\* MUTANT of DescendantPriority: the fewest operations first.
AscendantPriority(d, e) ==
    \/ ioOperations[d] < ioOperations[e]
    \/ ioOperations[d] = ioOperations[e] /\ Position(d) < Position(e)

DescendantPriority(d, e) ==
    \/ ioOperations[d] > ioOperations[e]
    \/ ioOperations[d] = ioOperations[e] /\ Position(d) < Position(e)

\* list_sort: each goes after as many as have priority over it.
Ahead(list, d) == {e \in ToSet(list) : DescendantPriority(e, d)}
Sorted(list) ==
    [n \in DOMAIN list |->
        CHOOSE d \in ToSet(list) : Cardinality(Ahead(list, d)) = n - 1]

Without(list, d) == RemoveAt(list, PositionIn(list, d))

\* AddToReady in two steps, the time of arrival being taken before mutexREADY.
Stamps(d) == arrived' = Append(arrived, d)

\* Into whatever list the caller names; elsewhere than at Home it is left behind.
Inserts(name, d) ==
    /\ ready' = [ready EXCEPT ![name] =
                    IF name = "PROPIO" THEN Sorted(Append(@, d)) ELSE Append(@, d)]
    /\ behind' = IF name = Home THEN behind ELSE behind \cup {d}

Leaves(name, d) ==
    /\ behind' = behind \ {d}
    /\ ready' = [ready EXCEPT ![name] = Without(@, d)]
    /\ arrived' = Without(arrived, d)

\* list_copy, queue_to_list and list_to_queue drop what the target held.
Copied(change) ==
    [ready EXCEPT ![change[2]] =
        IF change[2] = "PROPIO" THEN Sorted(ready[change[1]]) ELSE ready[change[1]]]

\* MUTANT of Moved: the list of the prior policy is not cleaned.
MovedNotCleaned(change) == Copied(change)

\* From PROPIO to VRR, the list that is cleaned is the one that was filled.
Moved(change) ==
    LET cleaned == IF change = <<"PROPIO", "VRR">> THEN "VRR" ELSE change[1]
    IN  [Copied(change) EXCEPT ![cleaned] = <<>>]

--------------------------------------------------------------------------------
\* The PLP: PLP_TASK_INITIALIZE_DTB.

PLPStamps(d) ==
    /\ plp = None /\ place[d] = "loading"
    /\ plp' = d
    /\ place' = [place EXCEPT ![d] = "ready"]
    /\ Stamps(d)
    /\ UNCHANGED <<watch, rules, pcp, ready, quantumRemainder, ioOperations, behind>>

PLPInserts ==
    /\ plp # None
    /\ plp' = None
    /\ Inserts(settings.algorithm, plp)
    /\ UNCHANGED <<watch, rules, pcp, arrived, dtbs>>

--------------------------------------------------------------------------------
\* The PCP.

\* The copy of the settings at the start of a cycle.
PCPCopies ==
    /\ pcp.at = "waits" /\ plp = None
    /\ pcp' = [at |-> IF algorithmChange = Unaltered THEN "works" ELSE "moves",
               name |-> settings.algorithm, change |-> algorithmChange,
               quantum |-> settings.quantum, dtb |-> None]
    /\ UNCHANGED <<watch, rules, plp, lists, dtbs, behind>>

\* Who is in a list is left behind if the change is not to the present policy, or
\* its case of MoveQueues loses the list.
PCPMoves ==
    /\ pcp.at = "moves"
    /\ ready' = Moved(pcp.change)
    /\ behind' = IF Home = None \/ pcp.change = <<"PROPIO", "VRR">>
                 THEN behind \cup Queued ELSE behind
    /\ pcp' = [pcp EXCEPT !.at = "clears"]
    /\ UNCHANGED <<watch, rules, plp, arrived, dtbs>>

\* Without mutexSettings.
PCPClears ==
    /\ pcp.at = "clears"
    /\ algorithmChange' = Unaltered
    /\ pcp' = [pcp EXCEPT !.at = "works"]
    /\ UNCHANGED <<watch, settings, plp, lists, dtbs, behind>>

Done == pcp' = [pcp EXCEPT !.at = "waits", !.dtb = None]

In(p) == {d \in DTBs : place[d] = p}
NoReadyDTBs(name) == ready[name] = <<>>
NoIdleCPU == Cardinality(In("exec")) >= CPUs

PCPCannotSchedule ==
    /\ pcp.at = "works" /\ (NoIdleCPU \/ NoReadyDTBs(pcp.name))
    /\ Done
    /\ UNCHANGED <<watch, rules, plp, lists, dtbs, behind>>

HeunMethod(left, max) == IF left = 0 \/ left > max THEN max ELSE left

\* MUTANT of FirstOf: the last that came.
LastOf(list) == list[Len(list)]

FirstOf(list) == list[1]

Heun == [d \in DTBs |-> IF Contains(ready["VRR"], d)
                        THEN HeunMethod(quantumRemainder[d], pcp.quantum)
                        ELSE quantumRemainder[d]]

AtPriorityQueue == {i \in DOMAIN ready["VRR"] : Heun[ready["VRR"][i]] # pcp.quantum}

\* ScheduleRR, ScheduleVRR, ScheduleIOBF: the DTB they take.
Chosen ==
    CASE pcp.name = "RR"     -> FirstOf(ready["RR"])
      [] pcp.name = "PROPIO" -> FirstOf(Sorted(ready["PROPIO"]))
      [] pcp.name = "VRR"    -> IF AtPriorityQueue = {} THEN FirstOf(ready["VRR"])
                                ELSE ready["VRR"][Min(AtPriorityQueue)]

PCPDispatches ==
    /\ pcp.at = "works" /\ ~NoIdleCPU /\ ~NoReadyDTBs(pcp.name)
    /\ Leaves(pcp.name, Chosen)
    /\ place' = [place EXCEPT ![Chosen] = "exec"]
    /\ quantumRemainder' = IF pcp.name = "VRR" THEN Heun
                           ELSE [quantumRemainder EXCEPT ![Chosen] = pcp.quantum]
    /\ Done
    /\ UNCHANGED <<watch, rules, plp, ioOperations>>

\* PCP_TASK_BLOCK_DTB: a CPU ran at least one line.
PCPBlocks(d, left) ==
    /\ pcp.at = "works" /\ place[d] = "exec" /\ left < quantumRemainder[d]
    /\ place' = [place EXCEPT ![d] = "blocked"]
    /\ quantumRemainder' = [quantumRemainder EXCEPT ![d] = left]
    /\ Done
    /\ UNCHANGED <<watch, rules, plp, lists, ioOperations, behind>>

PCPAdds(d) ==
    /\ place' = [place EXCEPT ![d] = "ready"]
    /\ Stamps(d)
    /\ pcp' = [pcp EXCEPT !.at = "adds", !.dtb = d]
    /\ UNCHANGED <<watch, rules, plp, ready, behind>>

\* PCP_TASK_UNLOCK_DTB at the end of a quantum.
PCPUnlocksPreempted(d) ==
    /\ pcp.at = "works" /\ place[d] = "exec"
    /\ quantumRemainder' = [quantumRemainder EXCEPT ![d] = 0]
    /\ UNCHANGED ioOperations
    /\ PCPAdds(d)

\* PCP_TASK_UNLOCK_DTB of a blocked DTB: `increaseIO` is set after an operation
\* on a file, and has no value after a signal.
PCPUnlocks(d) ==
    /\ pcp.at = "works" /\ place[d] = "blocked"
    /\ \/ /\ ioOperations[d] < MaxIO
          /\ ioOperations' = [ioOperations EXCEPT ![d] = @ + 1]
       \/ UNCHANGED ioOperations
    /\ UNCHANGED quantumRemainder
    /\ PCPAdds(d)

PCPInserts ==
    /\ pcp.at = "adds"
    /\ Inserts(pcp.name, pcp.dtb)
    /\ Done
    /\ UNCHANGED <<watch, rules, plp, arrived, dtbs>>

\* PCP_TASK_END_DTB, of a DTB that the PCP finds.
PCPEnds(d) ==
    /\ pcp.at = "works"
    /\ \/ place[d] \in {"exec", "blocked"} /\ UNCHANGED <<lists, behind>>
       \/ Contains(ready[pcp.name], d) /\ Leaves(pcp.name, d)
    /\ place' = [place EXCEPT ![d] = "exit"]
    /\ Done
    /\ UNCHANGED <<watch, rules, plp, quantumRemainder, ioOperations>>

Leftovers == UNION {0..s.quantum : s \in Files}

Releases(d) == (\E left \in Leftovers : PCPBlocks(d, left)) \/ PCPUnlocksPreempted(d)

Next ==
    \/ \E s \in Files : FileIsWritten(s)
    \/ ModifiedAgain \/ UpdateSettings
    \/ \E d \in DTBs : PLPStamps(d) \/ Releases(d) \/ PCPUnlocks(d) \/ PCPEnds(d)
    \/ PLPInserts
    \/ PCPCopies \/ PCPMoves \/ PCPClears \/ PCPCannotSchedule \/ PCPDispatches
    \/ PCPInserts

Spec == Init /\ [][Next]_vars

PCPGoesOn == PCPCopies \/ PCPMoves \/ PCPClears \/ PCPInserts \/ PCPCannotSchedule

\* The threads go on; the CPU never keeps a DTB for ever; every task of the PCP is
\* followed by a PCP_TASK_NORMAL_SCHEDULE, in a FIFO queue.
FairSpec ==
    /\ Spec
    /\ WF_vars(UpdateSettings) /\ WF_vars(PLPInserts) /\ WF_vars(PCPGoesOn)
    /\ SF_vars(PCPDispatches)
    /\ SF_vars(\E d \in DTBs : Releases(d) \/ (place[d] = "exec" /\ PCPEnds(d)))

--------------------------------------------------------------------------------
\* Properties.

\* Types.
TypeOK ==
    /\ file \in Files /\ settings \in Files
    /\ notified \in BOOLEAN /\ again \in BOOLEAN /\ behind \subseteq DTBs /\ edits \in 0..MaxEdits
    /\ algorithmChange \in (Algorithms \X Algorithms) \cup {Unaltered}
    /\ plp \in DTBs \cup {None}
    /\ pcp \in [at : {"waits", "moves", "clears", "works", "adds"}, name : Algorithms,
                change : (Algorithms \X Algorithms) \cup {Unaltered},
                quantum : Nat \ {0}, dtb : DTBs \cup {None}]
    /\ DOMAIN ready = Algorithms
    /\ \A a \in Algorithms : ready[a] \in Seq(DTBs)
    /\ arrived \in Seq(DTBs)
    /\ place \in [DTBs -> {"loading", "ready", "exec", "blocked", "exit"}]
    /\ quantumRemainder \in [DTBs -> Leftovers] /\ ioOperations \in [DTBs -> 0..MaxIO]

Places(d) == UNION {{<<a, i>> : i \in {j \in DOMAIN ready[a] : ready[a][j] = d}} : a \in Algorithms}

Added == {d \in DTBs : place[d] = "ready"} \ {plp, pcp.dtb}

\* A READY DTB is once in one list, and nobody else is in any: neither an orderly
\* change of policy nor the sorting of a list loses a DTB or copies it.  One that
\* a collision left behind may be in no list (WaitsSomewhere), but never in two.
ReadyOnce ==
    \A d \in DTBs : Cardinality(Places(d)) \in
        IF d \notin Added THEN {0} ELSE IF d \in behind THEN {0, 1} ELSE {1}

\* Nobody but those left behind is in the list of another policy, unless the PCP
\* is still to move that list to the list of the present one.
NobodyStranded ==
    \A a \in Algorithms : \A d \in ToSet(ready[a]) \ behind :
        \/ a = settings.algorithm
        \/ algorithmChange = <<a, settings.algorithm>>
        \/ pcp.at = "moves" /\ pcp.change = <<a, settings.algorithm>>

\* "Mutexeo las settings para tomar el algoritmo en ese momento y aislarme de un
\* cambio en simultaneo" (Scheduling.c:559): the DTB that a planner has put in the
\* list of the policy of that moment is in some list.
WaitsSomewhere == Added \subseteq Queued

\* "Luego de la mudanza, dejo en UNALTERED de manera que en la proxima iteracion ya
\* sepa que no hubo cambio (a menos que inotify lo registre)" (Scheduling.c:631-632):
\* when no change is registered nor being carried out, nobody is in the list of
\* another policy.
NobodyPassedOver == ~Changing => Queued \subseteq ToSet(ready[settings.algorithm])

\* The promise of the policy to the DTB that is dispatched, and to the others.
Promised(d) ==
    /\ quantumRemainder'[d] \in 1..pcp.quantum
    /\ pcp.name = "PROPIO" => \A e \in Queued \ behind :
         \/ ioOperations[e] < ioOperations[d]
         \/ ioOperations[e] = ioOperations[d] /\ Position(d) <= Position(e)
    /\ pcp.name = "VRR" /\ quantumRemainder'[d] = pcp.quantum =>
         \A e \in Queued \ behind : quantumRemainder[e] = 0 \/ quantumRemainder[e] >= pcp.quantum

\* A dispatch keeps the promise of the policy with respect to every READY DTB,
\* whatever list it waits in, except those left behind: with PROPIO nobody has done
\* more operations, or as many and came earlier; with VRR a DTB with a rest of its
\* quantum goes before those with none; and a DTB never gets more than the quantum,
\* or nothing.
PolicyKept == [][\A d \in Queued \ behind : place'[d] = "exec" => Promised(d)]_vars

\* A READY DTB is not READY for ever unless PROPIO, which may starve it, is the
\* policy again and again, or a collision leaves it behind: the rests of quantum of
\* VRR do not starve anybody, and no orderly change of policy does.
EverybodyRuns ==
    \A d \in Watched : place[d] = "ready" ~>
        (place[d] # "ready" \/ settings.algorithm = "PROPIO" \/ d \in behind)

\* "deja vacia la cola antigua" (Scheduling.h:399): after a change of policy the
\* list of the prior policy is empty.
OldListIsEmpty == pcp.at = "clears" => ready[pcp.change[1]] = <<>>
================================================================================
