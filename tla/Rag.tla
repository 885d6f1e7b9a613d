--------------------------------- MODULE Rag ---------------------------------
(* The resource-allocation graph of kernel/proc.c: res_wait(), res_acquire()  *)
(* and res_release() as their comments say they are called, and the search    *)
(* and recovery of check_deadlock(), which reads the table slot by slot       *)
(* without a lock.  Nothing in the kernel calls the three functions yet, so   *)
(* the resources themselves are external: one is granted when no process      *)
(* holds it.                                                                  *)
EXTENDS Integers, Sequences, FiniteSets, SequencesExt

CONSTANTS NPROC, NRES,
          Energies    \* the energy_consumed of the processes, one of these

ASSUME RagAssumption ==
  /\ NPROC \in Nat \ {0} /\ NRES \in Nat \ {0}
  /\ \A e \in Energies : DOMAIN e = 1..NPROC /\ \A p \in 1..NPROC : e[p] \in Nat

Procs == 1..NPROC
Resources == 1..NRES
None == 0                 \* no process, and -1 for a resource

VARIABLES
  state, killed, holding, waiting, \* p->state, killed, holding_res[], waiting_res
  energy,                          \* p->energy_consumed
  alone,                           \* the check runs on the only hart, interrupts off
  cpc, slot, visited, cur, res, i, \* check_deadlock() and its locals; i is the
                                   \* index of find_holder()
  deadlocked, victim,
  stood                            \* history: the processes that have been in a
                                   \* deadlock since the check began

table == <<state, killed, holding, waiting>>
locals == <<alone, cpc, slot, visited, cur, res, i, deadlocked, victim>>
vars == <<table, energy, locals, stood>>

Held(r) == \E p \in Procs : r \in holding[p]

(* Who p waits for. *)
WaitsFor(p) == {q \in Procs : waiting[p] # None /\ state[q] # "UNUSED" /\ waiting[p] \in holding[q]}

(* The processes of the cycles of the graph, by definition. *)
InCycle ==
  UNION {S \in SUBSET {p \in Procs : state[p] # "UNUSED"} :
           UNION {WaitsFor(p) : p \in S} = S /\ \A p \in S : WaitsFor(p) # {}}

Init ==
  /\ state = [p \in Procs |-> "RUNNING"]
  /\ killed = [p \in Procs |-> FALSE]
  /\ holding = [p \in Procs |-> {}]
  /\ waiting = [p \in Procs |-> None]
  /\ energy \in Energies
  /\ alone = FALSE /\ cpc = "idle" /\ slot = 1 /\ visited = <<>> /\ cur = None /\ res = None /\ i = 1
  /\ deadlocked = {} /\ victim = None
  /\ stood = {}

-----------------------------------------------------------------------------
(* Processes.  A step of the table also brings the history up to date. *)
Client == ~alone /\ UNCHANGED <<energy, locals>> /\ stood' = stood \cap InCycle'

Active(p) == state[p] = "RUNNING" /\ ~killed[p]

(* res_wait(), and the sleep if the resource is taken. *)
ResWait(p) ==
  /\ Active(p) /\ waiting[p] = None
  /\ \E r \in Resources :
       /\ waiting' = [waiting EXCEPT ![p] = r]
       /\ state' = [state EXCEPT ![p] = IF Held(r) THEN "SLEEPING" ELSE @]
  /\ UNCHANGED <<killed, holding>> /\ Client

(* res_acquire(), once the resource is free. *)
ResAcquire(p) ==
  /\ state[p] \in {"RUNNING", "SLEEPING"} /\ ~killed[p]
  /\ waiting[p] # None /\ ~Held(waiting[p])
  /\ holding' = [holding EXCEPT ![p] = @ \cup {waiting[p]}]
  /\ waiting' = [waiting EXCEPT ![p] = None]
  /\ state' = [state EXCEPT ![p] = "RUNNING"]
  /\ UNCHANGED killed /\ Client

(* res_release() *)
ResRelease(p) ==
  /\ Active(p) /\ waiting[p] = None
  /\ \E r \in holding[p] : holding' = [holding EXCEPT ![p] = @ \ {r}]
  /\ UNCHANGED <<state, killed, waiting>> /\ Client

(* kexit(), which leaves the graph alone; then freeproc(); then allocproc(). *)
Exit(p) ==
  /\ state[p] = "RUNNING" /\ waiting[p] = None
  /\ state' = [state EXCEPT ![p] = "ZOMBIE"]
  /\ UNCHANGED <<killed, holding, waiting>> /\ Client

FreeProc(p) ==
  /\ state[p] = "ZOMBIE"
  /\ state' = [state EXCEPT ![p] = "UNUSED"]
  /\ killed' = [killed EXCEPT ![p] = FALSE]
  /\ holding' = [holding EXCEPT ![p] = {}]
  /\ waiting' = [waiting EXCEPT ![p] = None]
  /\ Client

AllocProc(p) ==
  /\ state[p] = "UNUSED"
  /\ state' = [state EXCEPT ![p] = "RUNNING"]
  /\ holding' = [holding EXCEPT ![p] = {}]
  /\ waiting' = [waiting EXCEPT ![p] = None]
  /\ UNCHANGED killed /\ Client

ClientStep ==
  \E p \in Procs : \/ ResWait(p) \/ ResAcquire(p) \/ ResRelease(p)
                   \/ Exit(p) \/ FreeProc(p) \/ AllocProc(p)

-----------------------------------------------------------------------------
(* check_deadlock(): from usertrap(), which on a single hart makes it atomic, *)
(* or from the system call, which is preemptible.                             *)
Begin ==
  /\ cpc = "idle" /\ alone' \in BOOLEAN
  /\ cpc' = "slot" /\ slot' = 1 /\ stood' = InCycle
  /\ UNCHANGED <<table, energy, visited, cur, res, i, deadlocked, victim>>

(* Mutant: the last slot is left out. *)
NextSlotEarly ==
  /\ IF slot + 1 >= NPROC THEN cpc' = "none" /\ slot' = slot
                          ELSE cpc' = "slot" /\ slot' = slot + 1
  /\ visited' = <<>> /\ cur' = None /\ res' = None

(* Back to the outer loop, and out of it after the last slot. *)
NextSlot ==
  /\ IF slot = NPROC THEN cpc' = "none" /\ slot' = slot
                     ELSE cpc' = "slot" /\ slot' = slot + 1
  /\ visited' = <<>> /\ cur' = None /\ res' = None

(* The outer loop: is this slot waiting for anything? *)
Slot ==
  /\ cpc = "slot"
  /\ IF state[slot] = "UNUSED" \/ waiting[slot] = None
     THEN NextSlot
     ELSE /\ cpc' = "walk" /\ visited' = <<>> /\ cur' = slot
          /\ UNCHANGED <<slot, res>>
  /\ UNCHANGED <<table, energy, alone, i, deadlocked, victim, stood>>

(* The chain ends. *)
ChainEnds == IF cur = None THEN TRUE ELSE waiting[cur] = None

GoOn(seen) ==
  /\ visited' = Append(seen, cur) /\ res' = waiting[cur] /\ i' = 1
  /\ cpc' = "resid"
  /\ UNCHANGED <<slot, cur, deadlocked>>

(* Mutant: the processes that lead to the cycle count as deadlocked. *)
WalkTakesAll ==
  /\ cpc = "walk"
  /\ IF ChainEnds
     THEN NextSlot /\ UNCHANGED <<deadlocked, i>>
     ELSE IF cur \in ToSet(visited)
     THEN /\ deadlocked' = ToSet(visited)
          /\ cpc' = "victim"
          /\ UNCHANGED <<slot, visited, cur, res, i>>
     ELSE GoOn(visited)
  /\ UNCHANGED <<table, energy, alone, victim, stood>>

(* It ends, comes back to a process seen before, or goes on. *)
Walk ==
  /\ cpc = "walk"
  /\ IF ChainEnds \/ (cur \notin ToSet(visited) /\ Len(visited) >= NPROC)
     THEN NextSlot /\ UNCHANGED <<deadlocked, i>>
     ELSE IF cur \in ToSet(visited)
     THEN LET first == CHOOSE k \in DOMAIN visited : visited[k] = cur
          IN /\ deadlocked' = {visited[j] : j \in first..Len(visited)}
             /\ cpc' = "victim"
             /\ UNCHANGED <<slot, visited, cur, res, i>>
     ELSE GoOn(visited)
  /\ UNCHANGED <<table, energy, alone, victim, stood>>

(* res_id: the value just tested, or waiting_res loaded once more. *)
ResId ==
  /\ cpc = "resid"
  /\ res' \in {res, waiting[cur]}
  /\ cpc' = "find"
  /\ UNCHANGED <<table, energy, alone, slot, visited, cur, i, deadlocked, victim, stood>>

(* find_holder(), one slot.  holding_res[-1] is the in_deadlock before it,    *)
(* which is 0 for a process that waits for no sleeplock.                      *)
FindHolder ==
  /\ cpc = "find"
  /\ IF state[i] # "UNUSED" /\ res \in holding[i]
     THEN cur' = i /\ cpc' = "walk" /\ UNCHANGED i
     ELSE IF i = NPROC
     THEN cur' = None /\ cpc' = "walk" /\ UNCHANGED i
     ELSE i' = i + 1 /\ UNCHANGED <<cur, cpc>>
  /\ UNCHANGED <<table, energy, alone, slot, visited, res, deadlocked, victim, stood>>

(* The first of the cycle, in the order of the walk, with the highest energy. *)
PickVictim ==
  /\ cpc = "victim"
  /\ LET cycle == SelectSeq(visited, LAMBDA p : p \in deadlocked)
         best == CHOOSE k \in DOMAIN cycle :
                   /\ \A j \in DOMAIN cycle : energy[cycle[j]] <= energy[cycle[k]]
                   /\ \A j \in 1..k-1 : energy[cycle[j]] < energy[cycle[k]]
     IN victim' = cycle[best]
  /\ cpc' = "kill"
  /\ UNCHANGED <<table, energy, alone, slot, visited, cur, res, i, deadlocked, stood>>

Reset ==
  /\ alone' = FALSE /\ cpc' = "idle" /\ slot' = 1 /\ visited' = <<>> /\ cur' = None /\ res' = None /\ i' = 1
  /\ deadlocked' = {} /\ victim' = None /\ stood' = {}

(* Mutant: the victim is killed with its resources. *)
KillOnly ==
  /\ cpc = "kill"
  /\ killed' = [killed EXCEPT ![victim] = TRUE]
  /\ UNCHANGED <<state, holding, waiting, energy>>
  /\ Reset

(* Under victim->lock: its resources, its wait, killed, and the wakeup. *)
Kill ==
  /\ cpc = "kill"
  /\ holding' = [holding EXCEPT ![victim] = {}]
  /\ waiting' = [waiting EXCEPT ![victim] = None]
  /\ killed' = [killed EXCEPT ![victim] = TRUE]
  /\ state' = [state EXCEPT ![victim] = IF @ = "SLEEPING" THEN "RUNNING" ELSE @]
  /\ UNCHANGED energy
  /\ Reset

(* return 0 *)
NoDeadlock == cpc = "none" /\ Reset /\ UNCHANGED <<table, energy>>

CheckStep == Slot \/ Walk \/ ResId \/ FindHolder \/ PickVictim \/ Kill \/ NoDeadlock

Next == ClientStep \/ Begin \/ CheckStep

Spec == Init /\ [][Next]_vars

-----------------------------------------------------------------------------
TypeOK ==
  /\ state \in [Procs -> {"RUNNING", "SLEEPING", "ZOMBIE", "UNUSED"}]
  /\ killed \in [Procs -> BOOLEAN]
  /\ holding \in [Procs -> SUBSET Resources]
  /\ waiting \in [Procs -> Resources \cup {None}]
  /\ cpc \in {"idle", "slot", "walk", "resid", "find", "victim", "kill", "none"}
  /\ slot \in Procs /\ cur \in Procs \cup {None} /\ res \in Resources \cup {None} /\ i \in Procs
  /\ Len(visited) <= NPROC /\ ToSet(visited) \subseteq Procs
  /\ deadlocked \subseteq Procs /\ victim \in Procs \cup {None}

(* The timer's check_deadlock() on one hart kills only a process of a cycle,  *)
(* the one with the highest energy_consumed of that cycle.                    *)
VictimDeadlocked ==
  cpc = "kill" /\ alone => victim \in InCycle /\ \A p \in deadlocked : energy[p] <= energy[victim]

(* The victim is in a deadlock at the moment it is killed: what the lock-free *)
(* reads of find_holder() cannot give.                                        *)
KillsOnlyDeadlocked == cpc = "kill" => victim \in InCycle

(* check_deadlock() does not return 0 while processes that were deadlocked    *)
(* when it began still are, however the other processes move under its walk;  *)
(* and the walk stays within the list of processes it has seen.               *)
DeadlockFound == TypeOK /\ (cpc = "none" => stood = {})

(* Its recovery frees every process of the cycle it found.                    *)
KillBreaksCycle == [][cpc = "kill" /\ alone => deadlocked \cap InCycle' = {}]_vars
=============================================================================
