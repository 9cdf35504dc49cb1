-------------------------- MODULE PerCpuBoot_proofs --------------------------
(***************************************************************************)
(* The cores from reset to their timers, for every number of CPUs: no CPU  *)
(* is used before its own data are there, and a timer fires once and not   *)
(* early, or is cancelled on its CPU, or is still in its list.             *)
(*                                                                         *)
(* The barriers of the start-up count, so the argument is that each        *)
(* counter is the size of the set of those that have passed; and that a    *)
(* thread which has been pinned is nowhere but on its own core.  What      *)
(* carries the proof about timers is that tokens are unique, so that a     *)
(* cancel finds no other timer, and that a list is there before the first  *)
(* registration, so that init_percpu loses none.                           *)
(***************************************************************************)
EXTENDS PerCpuBoot, FiniteSetTheorems, TLAPS

-----------------------------------------------------------------------------
(* The start-up of the CPUs.                                               *)

SecondaryPcs == {"off", "entry", "entered", "wait_inited", "run_idle"}
MainUp == {"vmm_init", "create", "vmm_start", "started", "panic"}
PrimaryPcs == {"rust_main", "starting", "wait_entered", "wait_inited", "spawning"} \cup MainUp
Up == {"run_idle", "spawning"} \cup MainUp

\* The CPUs that have added themselves to INITED_CPUS.
Counted == {c \in CPUS : pc[c] \notin {"off", "entry", "entered", "rust_main", "starting", "wait_entered"}}

\* The first barrier, is_init_ok.
Barrier ==
    /\ pc \in [CPUS -> SecondaryPcs \cup PrimaryPcs]
    /\ \A c \in CPUS : pc[c] \in IF c = PRIMARY THEN PrimaryPcs ELSE SecondaryPcs
    /\ next_cpu \in Nat
    /\ \A c \in CPUS : c >= next_cpu /\ c # PRIMARY => pc[c] = "off"
    /\ INITED_CPUS = Cardinality(Counted)
    /\ \A c \in CPUS : pc[c] \in Up => Counted = CPUS
    /\ irqs \subseteq Counted

\* The task a CPU runs is in slot 0, the ones of its queue behind it.
Slot(c, i) == IF i = 0 THEN current[c] ELSE run_queue[c][i]
Slots(c) == 0 .. Len(run_queue[c])

ThreadPcs == {"none", "spawned", "pinned", "timer", "enabled", "done"}
Tasks == CPUS \cup {Main, Idle}

\* A thread is in one slot, and from the time it is pinned in one of its own core.
InOneSlot ==
    \A c, d \in CPUS : \A i \in Slots(c), j \in Slots(d) :
      Slot(c, i) \in CPUS /\ Slot(c, i) = Slot(d, j) => c = d /\ i = j
OnOwnCore ==
    \A c \in CPUS : \A i \in Slots(c) : \A t \in CPUS :
      Slot(c, i) = t => thread[t] # "none" /\ (thread[t] \in {"pinned", "timer", "enabled"} => c = t)

TaskPlaces ==
    /\ current \in [CPUS -> Tasks]
    /\ run_queue \in [CPUS -> Seq(Tasks)]
    /\ thread \in [CPUS -> ThreadPcs]
    /\ \A c \in CPUS : run_queue[c] # << >> => Counted = CPUS
    /\ InOneSlot /\ OnOwnCore

Done == {t \in CPUS : thread[t] = "done"}

\* The second barrier, the wait for CORES.
Cores ==
    /\ CORES = Cardinality(Done)
    /\ DOMAIN TIMER_LIST \subseteq CPUS /\ AXVM_PER_CPU \subseteq CPUS
    /\ \A t \in CPUS : thread[t] \in {"timer", "enabled", "done"} => t \in DOMAIN TIMER_LIST
    /\ \A t \in CPUS : thread[t] \in {"enabled", "done"} => t \in AXVM_PER_CPU
    /\ pc[PRIMARY] \in MainUp => Done = CPUS
    /\ guest \subseteq CPUS /\ (guest # {} => Started)

BootInv == Barrier /\ TaskPlaces /\ Cores

-----------------------------------------------------------------------------
(* Counting.                                                               *)

\* There are CPU_COUNT CPUs, the primary one among them.
LEMMA CpusFinite == IsFiniteSet(CPUS) /\ Cardinality(CPUS) = CPU_COUNT /\ CPUS \subseteq Nat /\ PRIMARY \in CPUS
  <1>1. CPU_COUNT \in Nat \ {0}
    BY TimerAssumption
  <1>2. IsFiniteSet(CPUS) /\ Cardinality(CPUS) = CPU_COUNT
    BY <1>1, FS_Interval DEF CPUS
  <1> QED
    BY <1>1, <1>2, CpuAssumption DEF CPUS

\* As many CPUs as there are: all of them (is_init_ok, and the wait for CORES).
LEMMA CountsAll ==
    ASSUME NEW S \in SUBSET CPUS, Cardinality(S) = CPU_COUNT
    PROVE  S = CPUS
  BY Zenon, CpusFinite, FS_Subset

\* One more CPU passes and is counted.
LEMMA CountsOne ==
    ASSUME NEW S \in SUBSET CPUS, NEW x \in CPUS, x \notin S
    PROVE  Cardinality(S \cup {x}) = Cardinality(S) + 1
  <1>1. IsFiniteSet(S)
    BY Zenon, CpusFinite, FS_Subset
  <1> QED
    BY <1>1, FS_AddElement

-----------------------------------------------------------------------------
(* The first barrier.                                                      *)

\* At reset nobody is counted.
LEMMA BarrierInit == CoreInit => Barrier
  <1> SUFFICES ASSUME CoreInit PROVE Barrier
    OBVIOUS
  <1> USE CpusFinite DEF CoreInit, BootInit
  <1>1. Counted = {}
    BY DEF Counted
  <1>2. Cardinality({}) = 0
    BY FS_EmptySet
  <1> QED
    BY <1>1, <1>2 DEF Barrier, SecondaryPcs, PrimaryPcs, MainUp, Up

\* Every step keeps the count of rust_main and rust_main_secondary exact, and lets
\* a CPU past it only when all are counted.
LEMMA BarrierStep ==
    ASSUME Barrier, [CoreNext]_coreVars
    PROVE  Barrier' /\ Counted \subseteq Counted'
  <1> USE CpusFinite DEF SecondaryPcs, PrimaryPcs, MainUp, Up
  <1>0. ASSUME UNCHANGED <<pc, next_cpu, INITED_CPUS, irqs>>
        PROVE  Barrier' /\ Counted \subseteq Counted'
    <2>1. Counted' = Counted
      BY <1>0 DEF Counted
    <2> QED
      BY <1>0, <2>1 DEF Barrier
  <1>1. CASE rust_main
    <2>1. Counted' = Counted
      BY <1>1 DEF rust_main, Goto, Counted, Barrier
    <2> QED
      BY <1>1, <2>1 DEF rust_main, Goto, Barrier
  <1>2. CASE start_secondary_cpus
    <2>1. CASE next_cpu # PRIMARY /\ logic_cpu_id < CPU_COUNT - 1
      <3>1. next_cpu \in CPUS /\ pc[next_cpu] = "off" /\ pc[PRIMARY] = "starting"
        BY <1>2, <2>1, TimerAssumption DEF start_secondary_cpus, Barrier, CPUS
      <3>2. pc' = [pc EXCEPT ![next_cpu] = "entry", ![PRIMARY] = "wait_entered"] /\ next_cpu' = next_cpu + 1
        BY <1>2, <2>1 DEF start_secondary_cpus
      <3>3. Counted' = Counted
        BY Zenon, <2>1, <3>1, <3>2 DEF Counted, Barrier
      <3> QED
        BY <1>2, <2>1, <3>1, <3>2, <3>3 DEF start_secondary_cpus, Barrier
    <2>2. CASE ~(next_cpu # PRIMARY /\ logic_cpu_id < CPU_COUNT - 1)
      <3>1. Counted' = Counted
        BY <1>2, <2>2 DEF start_secondary_cpus, Counted
      <3> QED
        BY <1>2, <2>2, <3>1 DEF start_secondary_cpus, Barrier
    <2> QED
      BY <2>1, <2>2
  <1>3. CASE WaitEntered
    <2>1. Counted' = Counted
      BY <1>3 DEF WaitEntered, Goto, Counted, Barrier
    <2> QED
      BY <1>3, <2>1 DEF WaitEntered, Goto, Barrier
  <1>4. CASE init_interrupt
    <2>1. Counted' = Counted \cup {PRIMARY} /\ PRIMARY \notin Counted
      BY <1>4 DEF init_interrupt, Goto, Counted, Barrier
    <2>2. Cardinality(Counted') = Cardinality(Counted) + 1
      BY <2>1, CountsOne DEF Counted
    <2>3. \A c \in CPUS : pc'[c] \in Up => pc[c] \in Up
      BY <1>4 DEF init_interrupt, Goto, Barrier
    <2>4. Counted' \subseteq CPUS
      BY DEF Counted
    <2> QED
      BY <1>4, <2>1, <2>2, <2>3, <2>4 DEF init_interrupt, Goto, Barrier
  <1>5. ASSUME NEW c \in CPUS, EnterSecondary(c)
        PROVE  Barrier' /\ Counted \subseteq Counted'
    <2>1. Counted' = Counted
      BY <1>5 DEF EnterSecondary, Goto, Counted, Barrier
    <2> QED
      BY <1>5, <2>1 DEF EnterSecondary, Goto, Barrier
  <1>6. ASSUME NEW c \in CPUS, rust_main_secondary(c)
        PROVE  Barrier' /\ Counted \subseteq Counted'
    <2>1. Counted' = Counted \cup {c} /\ c \notin Counted
      BY <1>6 DEF rust_main_secondary, Goto, Counted, Barrier
    <2>2. Cardinality(Counted') = Cardinality(Counted) + 1
      BY <2>1, CountsOne DEF Counted
    <2>3. \A d \in CPUS : pc'[d] \in Up => pc[d] \in Up
      BY <1>6 DEF rust_main_secondary, Goto, Barrier
    <2>4. Counted' \subseteq CPUS
      BY DEF Counted
    <2> QED
      BY <1>6, <2>1, <2>2, <2>3, <2>4 DEF rust_main_secondary, Goto, Barrier
  <1>7. ASSUME NEW c \in CPUS, InitOk(c)
        PROVE  Barrier' /\ Counted \subseteq Counted'
    <2>1. Counted' = Counted
      BY <1>7 DEF InitOk, Goto, Counted, Barrier
    <2>2. Counted = CPUS
      BY Zenon, <1>7, CountsAll DEF InitOk, is_init_ok, Barrier, Counted
    <2> QED
      BY <1>7, <2>1, <2>2 DEF InitOk, Goto, Barrier
  <1>8. CASE WaitCores
    <2>1. CASE CORES = CPU_COUNT
      <3>1. Counted' = Counted
        BY Zenon, <1>8, <2>1 DEF WaitCores, Goto, Counted, Barrier
      <3> QED
        BY <1>8, <2>1, <3>1 DEF WaitCores, Goto, Barrier
    <2> QED
      BY <1>0, <1>8, <2>1 DEF WaitCores
  <1>9. CASE MainGoesOn /\ UNCHANGED <<next_cpu, logic_cpu_id, ENTERED_CPUS, INITED_CPUS, irqs, taskVars, timerVars>>
    <2>1. Counted' = Counted
      BY <1>9 DEF MainGoesOn, Goto, Counted, Barrier
    <2> QED
      BY <1>9, <2>1 DEF MainGoesOn, Goto, Barrier
  <1>10. ASSUME NEW c \in CPUS, CpuStep(c)
         PROVE  Barrier' /\ Counted \subseteq Counted'
    BY <1>0, <1>1, <1>2, <1>3, <1>4, <1>5, <1>6, <1>7, <1>8, <1>10
       DEF CpuStep, SpawnThread, Dispatch, runtimeVars
  <1>11. ASSUME NEW t \in Threads, ThreadStep(t)
         PROVE  Barrier' /\ Counted \subseteq Counted'
    BY <1>0, <1>11 DEF ThreadStep, set_affinity, hardware_enable, CountCore, init_timer_percpu, runtimeVars
  <1> QED
    BY <1>0, <1>9, <1>10, <1>11 DEF CoreNext, BootStep, BootNext, TimersRun, coreVars, bootVars, runtimeVars

-----------------------------------------------------------------------------
(* The threads of enable_virtualization.                                   *)

\* At reset no thread is anywhere.
LEMMA PlacesInit == CoreInit => TaskPlaces
  BY CpusFinite DEF CoreInit, BootInit, TaskPlaces, InOneSlot, OnOwnCore, Slot, Slots, Tasks, ThreadPcs, Threads, Idle, Main

\* The next task of a queue moves up, and the others behind it.
LEMMA QueueShift ==
    ASSUME NEW q \in Seq(Tasks)
    PROVE  /\ NextTask(q) \in Tasks /\ OtherTasks(q) \in Seq(Tasks)
           /\ OtherTasks(q) # << >> => q # << >>
           /\ \A i \in 0 .. Len(OtherTasks(q)) :
                LET s == IF i = 0 THEN NextTask(q) ELSE OtherTasks(q)[i]
                IN  s \in CPUS => i + 1 \in 1 .. Len(q) /\ s = q[i + 1]
  BY CpusFinite DEF NextTask, OtherTasks, Tasks, Idle

\* A task is put at the end of a queue.
LEMMA QueueAppend ==
    ASSUME NEW q \in Seq(Tasks), NEW t \in Tasks
    PROVE  /\ Append(q, t) \in Seq(Tasks) /\ Len(Append(q, t)) = Len(q) + 1
           /\ \A i \in 1 .. Len(q) + 1 : Append(q, t)[i] = IF i = Len(q) + 1 THEN t ELSE q[i]
  OBVIOUS

\* No step of a CPU or of the scheduler has a thread twice, loses track of a pinned
\* one, or puts a task on a CPU whose scheduler is not there.
LEMMA PlacesStep ==
    ASSUME Barrier, TaskPlaces, [CoreNext]_coreVars
    PROVE  TaskPlaces'
  <1> USE CpusFinite
  <1>a. Counted \subseteq Counted' /\ Counted' \subseteq CPUS
    BY BarrierStep DEF Counted
  <1>b. Counted = CPUS => Counted' = CPUS
    BY Zenon, <1>a
  <1>c. ASSUME NEW c \in CPUS, pc[c] \in {"run_idle", "spawning"}
        PROVE  Counted' = CPUS
    BY Zenon, <1>a, <1>c DEF Barrier, Up
  <1>0. ASSUME UNCHANGED <<current, run_queue, thread>>
        PROVE  TaskPlaces'
    <2>1. InOneSlot'
      BY <1>0 DEF TaskPlaces, InOneSlot, Slot, Slots
    <2>2. OnOwnCore'
      BY <1>0 DEF TaskPlaces, OnOwnCore, Slot, Slots
    <2> QED
      BY <1>0, <1>b, <2>1, <2>2 DEF TaskPlaces
  <1>1. CASE rust_main
    <2>1. current' = [current EXCEPT ![PRIMARY] = Main] /\ UNCHANGED <<run_queue, thread>>
      BY <1>1 DEF rust_main
    <2> QED
      BY SMTT(30), <2>1, <1>b DEF TaskPlaces, InOneSlot, OnOwnCore, Slot, Slots, Tasks, Main
  <1>2. CASE SpawnThread
    <2>1. PICK t \in CPUS, c \in CPUS :
            /\ thread[t] = "none"
            /\ thread' = [thread EXCEPT ![t] = "spawned"]
            /\ run_queue' = [run_queue EXCEPT ![c] = Append(@, t)]
      BY Zenon, <1>2 DEF SpawnThread, Threads
    <2>2. Counted' = CPUS /\ current' = current
      BY <1>2, <1>c DEF SpawnThread
    <2>3. t \in Tasks /\ run_queue[c] \in Seq(Tasks)
      BY DEF Tasks, TaskPlaces
    <2>4. \A d \in CPUS : \A i \in Slots(d)' :
            \/ d = c /\ i = Len(run_queue[c]) + 1 /\ Slot(d, i)' = t
            \/ i \in Slots(d) /\ Slot(d, i)' = Slot(d, i)
      BY <2>1, <2>2, <2>3, QueueAppend DEF Slots, Slot, TaskPlaces
    <2>5. \A d \in CPUS : \A i \in Slots(d) : Slot(d, i) # t
      BY <2>1 DEF TaskPlaces, OnOwnCore
    <2>6. /\ run_queue' \in [CPUS -> Seq(Tasks)]
          /\ thread' \in [CPUS -> ThreadPcs]
          /\ \A u \in CPUS : u # t => thread'[u] = thread[u]
          /\ thread'[t] = "spawned"
      BY <2>1, <2>3, QueueAppend DEF TaskPlaces, ThreadPcs
    <2>7. InOneSlot'
      BY <2>4, <2>5 DEF TaskPlaces, InOneSlot
    <2>8. OnOwnCore'
      <3> SUFFICES ASSUME NEW d \in CPUS, NEW i \in Slots(d)', NEW u \in CPUS, Slot(d, i)' = u
                   PROVE  thread'[u] # "none" /\ (thread'[u] \in {"pinned", "timer", "enabled"} => d = u)
        BY DEF OnOwnCore
      <3>1. CASE u = t
        BY <2>6, <3>1
      <3>2. CASE u # t
        <4>1. i \in Slots(d) /\ Slot(d, i) = u
          BY <2>4, <3>2
        <4> QED
          BY ZenonT(40), <2>6, <3>2, <4>1 DEF TaskPlaces, OnOwnCore
      <3> QED
        BY <3>1, <3>2
    <2> QED
      BY <2>2, <2>6, <2>7, <2>8 DEF TaskPlaces
  <1>3. CASE WaitCores
    <2>1. CASE CORES = CPU_COUNT
      BY <1>0, <1>3, <2>1 DEF WaitCores
    <2>2. CASE CORES # CPU_COUNT
      <3> DEFINE q == run_queue[PRIMARY]
                 r == Append(q, Main)
      <3>1. /\ current[PRIMARY] = Main
            /\ current' = [current EXCEPT ![PRIMARY] = Head(r)]
            /\ run_queue' = [run_queue EXCEPT ![PRIMARY] = Tail(r)]
            /\ thread' = thread
        BY <1>3, <2>2 DEF WaitCores, yield_now
      <3>2. Counted' = CPUS
        BY <1>3, <1>c DEF WaitCores
      <3>3. q \in Seq(Tasks) /\ Main \in Tasks /\ Main \notin CPUS
        BY DEF TaskPlaces, Tasks, Main
      <3>4. /\ r \in Seq(Tasks) /\ r # << >> /\ Len(r) = Len(q) + 1
            /\ \A i \in 1 .. Len(q) + 1 : r[i] = IF i = Len(q) + 1 THEN Main ELSE q[i]
        BY <3>3, QueueAppend
      <3>5. /\ Head(r) \in Tasks /\ Head(r) = r[1]
            /\ Tail(r) \in Seq(Tasks) /\ Len(Tail(r)) = Len(q)
            /\ \A i \in 1 .. Len(q) : Tail(r)[i] = r[i + 1]
        BY <3>4
      <3>6. current' \in [CPUS -> Tasks] /\ run_queue' \in [CPUS -> Seq(Tasks)]
        BY <3>1, <3>5 DEF TaskPlaces
      <3>7. \A d \in CPUS : \A i \in Slots(d)' : Slot(d, i)' \in CPUS =>
              LET k == IF d = PRIMARY THEN i + 1 ELSE i
              IN  k \in Slots(d) /\ Slot(d, k) = Slot(d, i)'
        BY <3>1, <3>3, <3>4, <3>5 DEF Slots, Slot, TaskPlaces
      <3>8. \A d \in CPUS : Slots(d)' \subseteq Int
        BY DEF Slots
      <3>9. InOneSlot'
        BY <3>7, <3>8 DEF TaskPlaces, InOneSlot
      <3>10. OnOwnCore'
        BY <3>1, <3>7 DEF TaskPlaces, OnOwnCore
      <3> QED
        BY <3>1, <3>2, <3>6, <3>9, <3>10 DEF TaskPlaces
    <2> QED
      BY <2>1, <2>2
  <1>4. ASSUME NEW c \in CPUS, Dispatch(c)
        PROVE  TaskPlaces'
    <2>1. /\ run_queue[c] # << >>
          /\ current' = [current EXCEPT ![c] = NextTask(run_queue[c])]
          /\ run_queue' = [run_queue EXCEPT ![c] = OtherTasks(run_queue[c])]
          /\ thread' = thread
      BY <1>4 DEF Dispatch, NextTask, OtherTasks
    <2>2. Counted' = CPUS
      BY <1>4, <1>c DEF Dispatch
    <2>3. \A d \in CPUS : \A i \in Slots(d)' : Slot(d, i)' \in CPUS =>
            LET k == IF d = c THEN i + 1 ELSE i
            IN  k \in Slots(d) /\ Slot(d, k) = Slot(d, i)'
      BY <2>1, QueueShift DEF Slots, Slot, TaskPlaces
    <2>4. current' \in [CPUS -> Tasks] /\ run_queue' \in [CPUS -> Seq(Tasks)]
      BY <2>1, QueueShift DEF TaskPlaces
    <2>5. \A d \in CPUS : Slots(d)' \subseteq Int
      BY DEF Slots
    <2>6. InOneSlot'
      BY <2>3, <2>5 DEF TaskPlaces, InOneSlot
    <2>7. OnOwnCore'
      BY <2>1, <2>3 DEF TaskPlaces, OnOwnCore
    <2> QED
      BY <2>1, <2>2, <2>4, <2>6, <2>7 DEF TaskPlaces
  <1>5. ASSUME NEW t \in CPUS, set_affinity(t)
        PROVE  TaskPlaces'
    <2>1. PICK c \in CPUS :
            /\ Runs(t, c) /\ thread[t] = "spawned"
            /\ thread' = [thread EXCEPT ![t] = "pinned"]
            /\ IF c = t THEN UNCHANGED <<current, run_queue>>
               ELSE /\ current' = [current EXCEPT ![c] = NextTask(run_queue[c])]
                    /\ run_queue' = [run_queue EXCEPT ![c] = OtherTasks(@), ![t] = Append(@, t)]
      BY <1>5 DEF set_affinity
    <2>2. Counted' = CPUS /\ 0 \in Slots(c) /\ Slot(c, 0) = t
      BY <2>1, <1>c DEF Runs, Slots, Slot, TaskPlaces
    <2>3. \A d \in CPUS : \A i \in Slots(d) : Slot(d, i) = t => d = c /\ i = 0
      BY <2>2 DEF TaskPlaces, InOneSlot
    <2>4. /\ thread' \in [CPUS -> ThreadPcs]
          /\ \A u \in CPUS : u # t => thread'[u] = thread[u]
          /\ thread'[t] = "pinned"
      BY <2>1 DEF TaskPlaces, ThreadPcs
    <2>5. CASE c = t
      <3>1. UNCHANGED <<current, run_queue>>
        BY <2>1, <2>5
      <3>2. \A d \in CPUS : Slots(d)' = Slots(d) /\ \A i \in Slots(d) : Slot(d, i)' = Slot(d, i)
        BY <3>1 DEF Slots, Slot
      <3>3. InOneSlot'
        BY <3>2 DEF TaskPlaces, InOneSlot
      <3>4. OnOwnCore'
        BY <2>3, <2>4, <2>5, <3>2 DEF TaskPlaces, OnOwnCore
      <3> QED
        BY <2>2, <2>4, <3>1, <3>3, <3>4 DEF TaskPlaces
    <2>6. CASE c # t
      <3> DEFINE n == Len(run_queue[t]) + 1
      <3>1. /\ current' = [current EXCEPT ![c] = NextTask(run_queue[c])]
            /\ run_queue' = [run_queue EXCEPT ![c] = OtherTasks(run_queue[c]), ![t] = Append(run_queue[t], t)]
        BY <2>1, <2>6
      <3>2. t \in Tasks /\ run_queue[c] \in Seq(Tasks) /\ run_queue[t] \in Seq(Tasks)
        BY DEF Tasks, TaskPlaces
      <3>3. current' \in [CPUS -> Tasks] /\ run_queue' \in [CPUS -> Seq(Tasks)]
        BY <3>1, <3>2, QueueShift, QueueAppend DEF TaskPlaces
      <3>4. /\ current'[c] = NextTask(run_queue[c]) /\ run_queue'[c] = OtherTasks(run_queue[c])
            /\ current'[t] = current[t] /\ run_queue'[t] = Append(run_queue[t], t)
            /\ \A d \in CPUS \ {c, t} : current'[d] = current[d] /\ run_queue'[d] = run_queue[d]
        BY <2>6, <3>1 DEF TaskPlaces
      <3>5. \A i \in Slots(c)' : Slot(c, i)' \in CPUS => i + 1 \in Slots(c) /\ Slot(c, i + 1) = Slot(c, i)'
        BY <3>2, <3>4, QueueShift DEF Slots, Slot
      <3>6. \A i \in Slots(t)' : \/ i = n /\ Slot(t, i)' = t
                                 \/ i \in Slots(t) /\ i # n /\ Slot(t, i)' = Slot(t, i)
        BY <3>2, <3>4, QueueAppend DEF Slots, Slot
      <3>7. \A d \in CPUS \ {c, t} : \A i \in Slots(d)' : i \in Slots(d) /\ Slot(d, i)' = Slot(d, i)
        BY Zenon, <3>4 DEF Slots, Slot
      <3>8. \A d \in CPUS : Slots(d)' \subseteq Nat
        BY DEF Slots
      <3>9. \A d \in CPUS : \A i \in Slots(d)' : Slot(d, i)' = t => d = t /\ i = n
        BY <2>3, <3>5, <3>6, <3>7, <3>8, <2>6
      <3>10. \A d \in CPUS : \A i \in Slots(d)' : Slot(d, i)' \in CPUS /\ Slot(d, i)' # t =>
               LET k == IF d = c THEN i + 1 ELSE i
               IN  k \in Slots(d) /\ Slot(d, k) = Slot(d, i)'
        BY <3>5, <3>6, <3>7, <2>6
      <3>11. InOneSlot'
        <4> SUFFICES ASSUME NEW d \in CPUS, NEW e \in CPUS, NEW i \in Slots(d)', NEW j \in Slots(e)',
                            Slot(d, i)' \in CPUS, Slot(d, i)' = Slot(e, j)'
                     PROVE  d = e /\ i = j
          BY DEF InOneSlot
        <4>1. CASE Slot(d, i)' = t
          BY Zenon, <3>9, <4>1
        <4>2. CASE Slot(d, i)' # t
          BY SMTT(30), <3>8, <3>10, <4>2 DEF TaskPlaces, InOneSlot
        <4> QED
          BY <4>1, <4>2
      <3>12. OnOwnCore'
        BY SMTT(30), <2>4, <3>9, <3>10 DEF TaskPlaces, OnOwnCore
      <3> QED
        BY <2>2, <2>4, <3>3, <3>11, <3>12 DEF TaskPlaces
    <2> QED
      BY <2>5, <2>6
  <1>6. ASSUME NEW t \in CPUS, init_timer_percpu(t) \/ hardware_enable(t)
        PROVE  TaskPlaces'
    <2>1. PICK to \in {"timer", "enabled"} :
            /\ thread[t] \in {"pinned", "timer"}
            /\ thread' = [thread EXCEPT ![t] = to]
            /\ UNCHANGED <<current, run_queue>>
      BY <1>6 DEF init_timer_percpu, hardware_enable
    <2>2. /\ thread' \in [CPUS -> ThreadPcs]
          /\ \A u \in CPUS : u # t => thread'[u] = thread[u]
          /\ thread'[t] # "none"
      BY <2>1 DEF TaskPlaces, ThreadPcs
    <2>3. \A d \in CPUS : Slots(d)' = Slots(d) /\ \A i \in Slots(d) : Slot(d, i)' = Slot(d, i)
      BY <2>1 DEF Slots, Slot
    <2>4. InOneSlot'
      BY <2>3 DEF TaskPlaces, InOneSlot
    <2>5. OnOwnCore'
      <3> SUFFICES ASSUME NEW d \in CPUS, NEW i \in Slots(d), NEW u \in CPUS, Slot(d, i) = u
                   PROVE  thread'[u] # "none" /\ (thread'[u] \in {"pinned", "timer", "enabled"} => d = u)
        BY <2>3 DEF OnOwnCore
      <3>1. thread[u] # "none" /\ (thread[u] \in {"pinned", "timer", "enabled"} => d = u)
        BY DEF TaskPlaces, OnOwnCore
      <3>2. CASE u = t
        BY <2>1, <2>2, <3>1, <3>2
      <3>3. CASE u # t
        BY <2>2, <3>1, <3>3
      <3> QED
        BY <3>2, <3>3
    <2> QED
      BY <1>b, <2>1, <2>2, <2>4, <2>5 DEF TaskPlaces
  <1>7. ASSUME NEW t \in CPUS, CountCore(t)
        PROVE  TaskPlaces'
    <2>1. PICK c \in CPUS :
            /\ Runs(t, c)
            /\ thread' = [thread EXCEPT ![t] = "done"]
            /\ current' = [current EXCEPT ![c] = NextTask(run_queue[c])]
            /\ run_queue' = [run_queue EXCEPT ![c] = OtherTasks(run_queue[c])]
      BY Zenon, <1>7 DEF CountCore
    <2>2. Counted' = CPUS
      BY <2>1, <1>c DEF Runs
    <2>3. \A d \in CPUS : \A i \in Slots(d)' : Slot(d, i)' \in CPUS =>
            LET k == IF d = c THEN i + 1 ELSE i
            IN  k \in Slots(d) /\ Slot(d, k) = Slot(d, i)'
      BY <2>1, QueueShift DEF Slots, Slot, TaskPlaces
    <2>4. current' \in [CPUS -> Tasks] /\ run_queue' \in [CPUS -> Seq(Tasks)]
      BY <2>1, QueueShift DEF TaskPlaces
    <2>5. \A d \in CPUS : Slots(d)' \subseteq Int
      BY DEF Slots
    <2>6. /\ thread' \in [CPUS -> ThreadPcs]
          /\ \A u \in CPUS : u # t => thread'[u] = thread[u]
          /\ thread'[t] = "done"
      BY <2>1 DEF TaskPlaces, ThreadPcs
    <2>7. InOneSlot'
      BY SMTT(30), <2>3, <2>5 DEF TaskPlaces, InOneSlot
    <2>8. OnOwnCore'
      BY SMTT(30), <2>3, <2>6 DEF TaskPlaces, OnOwnCore
    <2> QED
      BY <2>2, <2>4, <2>6, <2>7, <2>8 DEF TaskPlaces
  <1>8. ASSUME NEW c \in CPUS, CpuStep(c)
        PROVE  TaskPlaces'
    BY <1>0, <1>1, <1>2, <1>3, <1>4, <1>8
       DEF CpuStep, start_secondary_cpus, WaitEntered, init_interrupt, EnterSecondary, rust_main_secondary,
           InitOk, taskVars
  <1>9. ASSUME NEW t \in CPUS, ThreadStep(t)
        PROVE  TaskPlaces'
    BY <1>5, <1>6, <1>7, <1>9 DEF ThreadStep
  <1> QED
    BY <1>0, <1>8, <1>9 DEF CoreNext, BootStep, BootNext, Threads, TimersRun, coreVars, bootVars, taskVars

-----------------------------------------------------------------------------
(* The second barrier.                                                     *)

\* At reset no core is set up.
LEMMA CoresInit == CoreInit => Cores
  <1> SUFFICES ASSUME CoreInit PROVE Cores
    OBVIOUS
  <1> USE CpusFinite DEF CoreInit, BootInit, TimerInit
  <1>1. Done = {} /\ Cardinality({}) = 0
    BY FS_EmptySet DEF Done, Threads
  <1>2. DOMAIN TIMER_LIST = {}
    OBVIOUS
  <1> QED
    BY <1>1, <1>2 DEF Cores, Threads, MainUp

\* A thread counts its own core, once and last; so main goes on only when all
\* cores are set up, and vCPUs run after that.
LEMMA CoresStep ==
    ASSUME BootInv, [CoreNext]_coreVars
    PROVE  Cores'
  <1> USE CpusFinite
  <1>1. ASSUME NEW t \in CPUS, NEW c \in CPUS, Runs(t, c), thread[t] \in {"pinned", "timer", "enabled"}
        PROVE  c = t
    <2>1. 0 \in Slots(c) /\ Slot(c, 0) = t
      BY <1>1 DEF Runs, Slots, Slot, BootInv, TaskPlaces
    <2> QED
      BY <1>1, <2>1 DEF BootInv, TaskPlaces, OnOwnCore
  <1>2. ASSUME UNCHANGED <<thread, CORES, AXVM_PER_CPU, guest>>,
               DOMAIN TIMER_LIST' = DOMAIN TIMER_LIST,
               pc'[PRIMARY] \in MainUp => pc[PRIMARY] \in MainUp,
               Started => Started'
        PROVE  Cores'
    <2>1. Done' = Done
      BY <1>2 DEF Done
    <2> QED
      BY <1>2, <2>1 DEF BootInv, Cores
  <1>3. ASSUME NEW t \in CPUS, NEW c \in CPUS, NEW to \in ThreadPcs, Runs(t, c), thread[t] # "done", to # "done",
               thread' = [thread EXCEPT ![t] = to],
               UNCHANGED <<CORES, guest, pc>>,
               DOMAIN TIMER_LIST' = DOMAIN TIMER_LIST \cup (IF to = "timer" THEN {t} ELSE {}),
               AXVM_PER_CPU' = AXVM_PER_CPU \cup (IF to = "enabled" THEN {t} ELSE {}),
               to = "enabled" => thread[t] = "timer"
        PROVE  Cores'
    <2>1. Done' = Done
      BY <1>3 DEF Done, BootInv, TaskPlaces
    <2>2. /\ thread'[t] = to
          /\ \A u \in CPUS : u # t => thread'[u] = thread[u]
      BY <1>3 DEF BootInv, TaskPlaces
    <2>3. \A u \in CPUS : thread'[u] \in {"timer", "enabled", "done"} => u \in DOMAIN TIMER_LIST'
      BY <1>3, <2>2 DEF BootInv, Cores
    <2>4. \A u \in CPUS : thread'[u] \in {"enabled", "done"} => u \in AXVM_PER_CPU'
      BY <1>3, <2>2 DEF BootInv, Cores
    <2> QED
      BY <1>3, <2>1, <2>3, <2>4 DEF BootInv, Cores, Started
  <1>4. CASE SpawnThread /\ UNCHANGED <<TIMER_LIST, guest>>
    <2>1. PICK t \in CPUS : thread[t] = "none" /\ thread' = [thread EXCEPT ![t] = "spawned"]
      BY Zenon, <1>4 DEF SpawnThread, Threads
    <2>2. /\ thread'[t] = "spawned"
          /\ \A u \in CPUS : u # t => thread'[u] = thread[u]
      BY <2>1 DEF BootInv, TaskPlaces
    <2>3. Done' = Done
      BY <2>1, <2>2 DEF Done
    <2> QED
      BY <1>4, <2>2, <2>3 DEF SpawnThread, runtimeVars, BootInv, Cores, Started
  <1>5. CASE WaitCores /\ UNCHANGED <<TIMER_LIST, guest>>
    <2>1. CASE CORES = CPU_COUNT
      <3>1. Done = CPUS
        BY Zenon, <2>1, CountsAll DEF BootInv, Cores, Done
      <3>2. Done' = Done /\ ~Started
        BY <1>5 DEF WaitCores, Done, Started
      <3> QED
        BY <1>5, <3>1, <3>2 DEF WaitCores, BootInv, Cores
    <2>2. CASE CORES # CPU_COUNT
      BY <1>2, <1>5, <2>2 DEF WaitCores, Started
    <2> QED
      BY <2>1, <2>2
  <1>6. ASSUME NEW c \in CPUS, CpuStep(c), guest' = guest
        PROVE  Cores'
    <2>1. UNCHANGED TIMER_LIST
      BY <1>6 DEF CpuStep
    <2>2. ASSUME UNCHANGED <<thread, CORES, AXVM_PER_CPU>>,
                 pc'[PRIMARY] \in MainUp => pc[PRIMARY] \in MainUp,
                 pc[PRIMARY] = "started" => pc'[PRIMARY] = "started"
          PROVE  Cores'
      BY <1>2, <1>6, <2>1, <2>2 DEF Started
    <2>3. CASE Dispatch(c)
      BY <2>2, <2>3 DEF Dispatch, runtimeVars
    <2>4. CASE rust_main \/ start_secondary_cpus \/ WaitEntered \/ init_interrupt
      <3>1. CASE rust_main
        BY <2>2, <3>1 DEF rust_main, Goto, MainUp, BootInv, Barrier
      <3>2. CASE start_secondary_cpus
        BY <2>2, <3>2 DEF start_secondary_cpus, MainUp, taskVars, BootInv, Barrier
      <3>3. CASE WaitEntered \/ init_interrupt
        BY Zenon, <2>2, <3>3 DEF WaitEntered, init_interrupt, Goto, MainUp, taskVars, BootInv, Barrier
      <3> QED
        BY <2>4, <3>1, <3>2, <3>3
    <2>5. CASE EnterSecondary(c) \/ rust_main_secondary(c) \/ InitOk(c)
      BY <2>2, <2>5 DEF EnterSecondary, rust_main_secondary, InitOk, Goto, MainUp, taskVars, BootInv, Barrier
    <2> QED
      BY <1>4, <1>5, <1>6, <2>1, <2>3, <2>4, <2>5 DEF CpuStep
  <1>7. ASSUME NEW t \in CPUS, ThreadStep(t), guest' = guest
        PROVE  Cores'
    <2>1. CASE set_affinity(t) /\ UNCHANGED TIMER_LIST
      BY Zenon, <1>3, <1>7, <2>1 DEF set_affinity, runtimeVars, ThreadPcs
    <2>2. CASE init_timer_percpu(t)
      <3>1. PICK c \in CPUS : /\ Runs(t, c) /\ thread[t] = "pinned"
                              /\ init_percpu(c)
                              /\ thread' = [thread EXCEPT ![t] = "timer"]
                              /\ UNCHANGED <<runtimeVars, CORES, AXVM_PER_CPU>>
        BY <2>2 DEF init_timer_percpu
      <3>2. c = t
        BY ZenonT(40), <1>1, <3>1
      <3>3. DOMAIN TIMER_LIST' = DOMAIN TIMER_LIST \cup {t}
        BY <3>1, <3>2 DEF init_percpu
      <3> QED
        BY Zenon, <1>3, <1>7, <3>1, <3>3 DEF runtimeVars, ThreadPcs
    <2>3. CASE hardware_enable(t) /\ UNCHANGED TIMER_LIST
      BY Zenon, <1>1, <1>3, <1>7, <2>3 DEF hardware_enable, runtimeVars, ThreadPcs
    <2>4. CASE CountCore(t) /\ UNCHANGED TIMER_LIST
      <3>1. /\ thread[t] = "enabled" /\ thread' = [thread EXCEPT ![t] = "done"] /\ CORES' = CORES + 1
            /\ UNCHANGED <<pc, AXVM_PER_CPU>>
        BY <2>4 DEF CountCore, runtimeVars
      <3>2. Done' = Done \cup {t} /\ t \notin Done
        BY <3>1 DEF Done, BootInv, TaskPlaces
      <3>3. Cardinality(Done') = Cardinality(Done) + 1
        BY <3>2, CountsOne DEF Done
      <3>4. /\ thread'[t] = "done"
            /\ \A u \in CPUS : u # t => thread'[u] = thread[u]
        BY <3>1 DEF BootInv, TaskPlaces
      <3>5. Done' \subseteq CPUS
        BY DEF Done
      <3> QED
        BY <1>7, <2>4, <3>1, <3>2, <3>3, <3>4, <3>5 DEF BootInv, Cores, Started
    <2> QED
      BY <1>7, <2>1, <2>2, <2>3, <2>4 DEF ThreadStep
  <1>8. CASE MainGoesOn /\ UNCHANGED <<taskVars, timerVars>>
    BY <1>2, <1>8 DEF MainGoesOn, MainUp, Started, taskVars, timerVars
  <1>9. CASE TimersRun
    <2>1. DOMAIN TIMER_LIST' = DOMAIN TIMER_LIST
      BY <1>9 DEF TimersRun, Tick, TimerStep, Register, register_timer, cancel_timer, Check, check_events,
                  RunCallback, EndCheck, HaltVcpu, RunVcpu
    <2>2. guest' \subseteq CPUS
      BY <1>9 DEF TimersRun, Tick, TimerStep, Register, cancel_timer, Check, check_events,
                  RunCallback, EndCheck, HaltVcpu, RunVcpu, BootInv, Cores
    <2>3. Started /\ Started' /\ Done' = Done
      BY <1>9 DEF TimersRun, Started, runtimeVars, taskVars, Done
    <2> QED
      BY <1>9, <2>1, <2>2, <2>3 DEF TimersRun, runtimeVars, taskVars, BootInv, Cores
  <1>10. CASE UNCHANGED coreVars
    BY <1>2, <1>10 DEF coreVars, bootVars, runtimeVars, taskVars, timerVars, Started
  <1> QED
    BY <1>6, <1>7, <1>8, <1>9, <1>10 DEF CoreNext, BootStep, BootNext, Threads

-----------------------------------------------------------------------------
(* The invariant and the theorem.                                          *)

\* The three parts together are inductive.
LEMMA BootInvariant == CoreSpec => []BootInv
  <1>1. CoreInit => BootInv
    BY BarrierInit, PlacesInit, CoresInit DEF BootInv
  <1>2. BootInv /\ [CoreNext]_coreVars => BootInv'
    BY BarrierStep, PlacesStep, CoresStep DEF BootInv
  <1> QED
    BY <1>1, <1>2, PTL DEF CoreSpec

\* For any number of CPUs and any order of their steps, and on whatever CPUs the
\* threads are spawned, no CPU is used before its own data are there.
THEOREM BootSafe == CoreSpec => []NoEarlyUse
  <1>1. BootInv => NoEarlyUse
    <2> SUFFICES ASSUME BootInv PROVE NoEarlyUse
      OBVIOUS
    <2>1. Counted \subseteq Scheduling
      BY DEF Counted, Scheduling
    <2>2. pc[PRIMARY] \in MainUp => DOMAIN TIMER_LIST = CPUS /\ AXVM_PER_CPU = CPUS
      BY DEF BootInv, Cores, Done
    <2>3. guest \subseteq (DOMAIN TIMER_LIST \cap AXVM_PER_CPU)
      BY <2>2 DEF BootInv, Cores, Started, MainUp
    <2>4. \A c \in CPUS : run_queue[c] # << >> => c \in Scheduling
      BY ZenonT(40), <2>1 DEF BootInv, TaskPlaces
    <2> QED
      BY <2>1, <2>2, <2>3, <2>4 DEF NoEarlyUse, BootInv, Barrier, MainUp
  <1> QED
    BY <1>1, BootInvariant, PTL

-----------------------------------------------------------------------------
(* Timers.                                                                 *)

Event == [token : Nat, deadline : Nat, id : Nat]
RegistrationType ==
    [cpu : CPUS, token : Nat, deadline : Nat, state : {"armed", "fired", "cancelled"}, fires : Nat]

\* The lists T against the registrations A, with the next token and the time.
Consistent(T, A, token, time) ==
    /\ token \in Nat /\ time \in Nat
    /\ A \in Seq(RegistrationType)
    /\ \A c \in DOMAIN T : \A e \in T[c] :
         /\ e \in Event /\ e.id \in 1 .. Len(A)
         /\ c = A[e.id].cpu /\ A[e.id].state = "armed"
         /\ e.token = A[e.id].token /\ e.deadline = A[e.id].deadline
    /\ \A n \in 1 .. Len(A) :
         /\ A[n].cpu \in DOMAIN T /\ A[n].token < token
         /\ A[n].state = "armed" => \E e \in T[A[n].cpu] : e.id = n
         /\ A[n].fires = IF A[n].state = "fired" THEN 1 ELSE 0
         /\ A[n].state = "fired" => A[n].deadline <= time
    /\ \A m, n \in 1 .. Len(A) : A[m].token = A[n].token => m = n

\* The registration a, cancelled or fired.
Closed(a, r, time) ==
    /\ r \in RegistrationType
    /\ r.cpu = a.cpu /\ r.token = a.token /\ r.deadline = a.deadline
    /\ \/ r.state = "cancelled" /\ r.fires = 0
       \/ r.state = "fired" /\ r.fires = 1 /\ r.deadline <= time

TimerInv ==
    /\ Consistent(TIMER_LIST, armed, TOKEN, now)
    /\ checking \in [CPUS -> Int]
    /\ \A c \in CPUS : checking[c] <= now

-----------------------------------------------------------------------------
(* What the operations on a list keep.                                     *)

\* register_timer: the new event has a token of its own.
LEMMA RegisterKeeps ==
    ASSUME NEW T, NEW A, NEW token, NEW time, Consistent(T, A, token, time),
           NEW c \in CPUS, c \in DOMAIN T, NEW deadline \in Nat, NEW U, NEW B,
           U = [T EXCEPT ![c] = T[c] \cup {[token |-> token, deadline |-> deadline, id |-> Len(A) + 1]}],
           B = Append(A, [cpu |-> c, token |-> token, deadline |-> deadline, state |-> "armed", fires |-> 0])
    PROVE  Consistent(U, B, token + 1, time)
  <1> DEFINE event == [token |-> token, deadline |-> deadline, id |-> Len(A) + 1]
             reg == [cpu |-> c, token |-> token, deadline |-> deadline, state |-> "armed", fires |-> 0]
             N == Len(A) + 1
  <1>1. token \in Nat /\ time \in Nat /\ A \in Seq(RegistrationType) /\ Len(A) \in Nat
    BY DEF Consistent
  <1>2. event \in Event /\ event.id = N /\ event.token = token /\ event.deadline = deadline
    BY <1>1 DEF Event
  <1>3. /\ reg \in RegistrationType
        /\ reg.cpu = c /\ reg.token = token /\ reg.deadline = deadline /\ reg.state = "armed" /\ reg.fires = 0
    BY <1>1 DEF RegistrationType
  <1>u. U = [T EXCEPT ![c] = T[c] \cup {event}] /\ B = Append(A, reg)
    OBVIOUS
  <1> HIDE DEF event, reg
  <1>4. /\ B \in Seq(RegistrationType) /\ Len(B) = N
        /\ B[N] = reg /\ \A n \in 1 .. Len(A) : B[n] = A[n]
    BY <1>1, <1>3, <1>u
  <1>5. /\ DOMAIN U = DOMAIN T /\ U[c] = T[c] \cup {event}
        /\ \A d \in DOMAIN T : T[d] \subseteq U[d] /\ (d # c => U[d] = T[d])
    BY Zenon, <1>u
  <1>6. \A d \in DOMAIN U : \A e \in U[d] :
          /\ e \in Event /\ e.id \in 1 .. Len(B)
          /\ d = B[e.id].cpu /\ B[e.id].state = "armed"
          /\ e.token = B[e.id].token /\ e.deadline = B[e.id].deadline
    <2> TAKE d \in DOMAIN U
    <2> TAKE e \in U[d]
    <2>1. CASE d = c /\ e = event
      BY SMTT(30), <1>1, <1>2, <1>3, <1>4, <2>1
    <2>2. CASE e \in T[d]
      <3>1. /\ e \in Event /\ e.id \in 1 .. Len(A)
            /\ d = A[e.id].cpu /\ A[e.id].state = "armed"
            /\ e.token = A[e.id].token /\ e.deadline = A[e.id].deadline
        BY ZenonT(40), <1>5, <2>2 DEF Consistent
      <3> QED
        BY SMTT(30), <1>1, <1>4, <3>1
    <2> QED
      BY <1>5, <2>1, <2>2
  <1>7. \A n \in 1 .. Len(B) :
          /\ B[n].cpu \in DOMAIN U /\ B[n].token < token + 1
          /\ B[n].state = "armed" => \E e \in U[B[n].cpu] : e.id = n
          /\ B[n].fires = IF B[n].state = "fired" THEN 1 ELSE 0
          /\ B[n].state = "fired" => B[n].deadline <= time
    <2> TAKE n \in 1 .. Len(B)
    <2>1. CASE n = N
      BY SMTT(30), <1>1, <1>2, <1>3, <1>4, <1>5, <2>1
    <2>2. CASE n \in 1 .. Len(A)
      <3>1. /\ A[n].cpu \in DOMAIN T /\ A[n].token < token
            /\ A[n].state = "armed" => \E e \in T[A[n].cpu] : e.id = n
            /\ A[n].fires = IF A[n].state = "fired" THEN 1 ELSE 0
            /\ A[n].state = "fired" => A[n].deadline <= time
        BY <2>2 DEF Consistent
      <3>2. A[n].token \in Nat
        <4>1. A[n] \in RegistrationType
          BY <1>1, <2>2
        <4> QED
          BY <4>1 DEF RegistrationType
      <3>3. B[n] = A[n]
        BY Zenon, <1>4, <2>2
      <3>4. A[n].state = "armed" => \E e \in U[A[n].cpu] : e.id = n
        BY <1>5, <3>1
      <3>5. A[n].token < token + 1
        BY SMTT(30), <1>1, <3>1, <3>2
      <3> QED
        BY Zenon, <1>5, <3>1, <3>3, <3>4, <3>5
    <2> QED
      BY SMTT(30), <1>1, <1>4, <2>1, <2>2
  <1>8. \A m, n \in 1 .. Len(B) : B[m].token = B[n].token => m = n
    <2>1. \A n \in 1 .. Len(A) : B[n].token < token
      BY Zenon, <1>4 DEF Consistent
    <2>2. \A m, n \in 1 .. Len(A) : B[m].token = B[n].token => m = n
      BY ZenonT(40), <1>4 DEF Consistent
    <2> QED
      BY SMTT(30), <1>1, <1>3, <1>4, <2>1, <2>2
  <1>9. token + 1 \in Nat /\ time \in Nat /\ B \in Seq(RegistrationType)
    BY ONLY <1>1, <1>4
  <1> QED
    BY ZenonT(40), <1>6, <1>7, <1>8, <1>9 DEF Consistent

\* An event leaves its list, as cancel_timer and expire_one take it out, and its
\* registration is closed: every other timer stays where it is.
LEMMA RemoveKeeps ==
    ASSUME NEW T, NEW A, NEW token, NEW time, Consistent(T, A, token, time),
           NEW c \in DOMAIN T, NEW e \in T[c], NEW U, U = [T EXCEPT ![c] = T[c] \ {e}],
           NEW r, Closed(A[e.id], r, time), NEW B, B = [A EXCEPT ![e.id] = r]
    PROVE  Consistent(U, B, token, time)
  <1>1. /\ token \in Nat /\ time \in Nat /\ A \in Seq(RegistrationType) /\ Len(A) \in Nat
        /\ e \in Event /\ e.id \in 1 .. Len(A) /\ c = A[e.id].cpu
    BY DEF Consistent
  <1>2. /\ DOMAIN U = DOMAIN T /\ U[c] = T[c] \ {e}
        /\ \A d \in DOMAIN T : U[d] \subseteq T[d] /\ (d # c => U[d] = T[d])
    OBVIOUS
  <1>b. /\ B \in Seq(RegistrationType) /\ Len(B) = Len(A) /\ B[e.id] = r
        /\ \A n \in 1 .. Len(A) : n # e.id => B[n] = A[n]
    BY <1>1 DEF Closed
  <1>3. \A d \in DOMAIN T : \A f \in U[d] : f.id # e.id
    <2> SUFFICES ASSUME NEW d \in DOMAIN T, NEW f \in U[d], f.id = e.id
                 PROVE  FALSE
      OBVIOUS
    <2>1. f \in T[d] /\ f \in Event
      BY <1>2 DEF Consistent
    <2>2. d = c /\ f.token = e.token /\ f.deadline = e.deadline
      BY <2>1 DEF Consistent
    <2>3. f = e
      BY SMTT(30), <1>1, <2>1, <2>2 DEF Event
    <2> QED
      BY <1>2, <2>2, <2>3
  <1>4. \A d \in DOMAIN U : \A f \in U[d] :
          /\ f \in Event /\ f.id \in 1 .. Len(B)
          /\ d = B[f.id].cpu /\ B[f.id].state = "armed"
          /\ f.token = B[f.id].token /\ f.deadline = B[f.id].deadline
    BY SMTT(30), <1>2, <1>3, <1>b DEF Consistent
  <1>5. \A n \in 1 .. Len(B) :
          /\ B[n].cpu \in DOMAIN U /\ B[n].token < token
          /\ B[n].state = "armed" => \E f \in U[B[n].cpu] : f.id = n
          /\ B[n].fires = IF B[n].state = "fired" THEN 1 ELSE 0
          /\ B[n].state = "fired" => B[n].deadline <= time
    <2> TAKE n \in 1 .. Len(B)
    <2>1. CASE n = e.id
      BY SMTT(30), <1>1, <1>2, <1>b, <2>1 DEF Consistent, Closed
    <2>2. CASE n # e.id
      <3>1. B[n] = A[n]
        BY <1>b, <2>2
      <3>2. ASSUME A[n].state = "armed"
            PROVE  \E f \in U[A[n].cpu] : f.id = n
        <4>1. PICK f \in T[A[n].cpu] : f.id = n
          BY Zenon, <1>b, <3>2 DEF Consistent
        <4>2. f \in U[A[n].cpu]
          BY Zenon, <1>2, <1>b, <2>2, <4>1 DEF Consistent
        <4> QED
          BY <4>1, <4>2
      <3> QED
        BY <1>2, <1>b, <3>1, <3>2 DEF Consistent
    <2> QED
      BY ZenonT(40), <2>1, <2>2
  <1>6. \A m, n \in 1 .. Len(B) : B[m].token = B[n].token => m = n
    <2>1. \A n \in 1 .. Len(B) : B[n].token = A[n].token
      BY <1>b DEF Closed
    <2> QED
      BY <1>b, <2>1 DEF Consistent
  <1> QED
    BY <1>1, <1>4, <1>5, <1>6, <1>b DEF Consistent

\* At most one event has a registration's token (cancel_timer takes out all that do).
LEMMA OneOfToken ==
    ASSUME NEW T, NEW A, NEW token, NEW time, Consistent(T, A, token, time),
           NEW c \in DOMAIN T, NEW n \in 1 .. Len(A)
    PROVE  /\ \A e \in T[c] : e.token = A[n].token <=> e.id = n
           /\ \A e, f \in T[c] : e.id = f.id => e = f
  <1>1. \A e \in T[c] : /\ e \in Event /\ e.id \in 1 .. Len(A)
                        /\ e.token = A[e.id].token /\ e.deadline = A[e.id].deadline
    BY DEF Consistent
  <1>2. \A e \in T[c] : e.token = A[n].token <=> e.id = n
    BY <1>1 DEF Consistent
  <1>3. \A e, f \in T[c] : e.id = f.id => e = f
    BY SMTT(30), <1>1 DEF Event
  <1> QED
    BY ZenonT(40), <1>2, <1>3

\* The properties of timers follow.
LEMMA ConsistentExact == TimerInv => TimersExact
  BY DEF TimerInv, Consistent, TimersExact

-----------------------------------------------------------------------------
(* The steps.                                                              *)

\* Before the first registration.
LEMMA TimerInvInit == CoreInit => TimerInv
  BY CpusFinite DEF CoreInit, TimerInit, TimerInv, Consistent, NotChecking

\* A step on the timers of one CPU.
LEMMA TimerStepKeeps ==
    ASSUME TimerInv, NEW c \in CPUS, DOMAIN TIMER_LIST = CPUS, TimerStep(c)
    PROVE  TimerInv'
  <1> USE TimerAssumption
  <1>a. /\ Consistent(TIMER_LIST, armed, TOKEN, now)
        /\ armed \in Seq(RegistrationType) /\ Len(armed) \in Nat /\ TOKEN \in Nat /\ now \in Nat
        /\ checking \in [CPUS -> Int] /\ \A d \in CPUS : checking[d] <= now
    BY DEF TimerInv, Consistent
  <1>1. CASE Register(c)
    <2>1. PICK deadline \in 0 .. MaxTime :
            /\ register_timer(c, deadline, TIMER_LIST[c])
            /\ armed' = Append(armed, Registration(c, deadline))
      BY <1>1 DEF Register
    <2>2. Consistent(TIMER_LIST', armed', TOKEN', now)
      <3>1. /\ TIMER_LIST' = [TIMER_LIST EXCEPT ![c] = TIMER_LIST[c] \cup
                                {[token |-> TOKEN, deadline |-> deadline, id |-> Len(armed) + 1]}]
            /\ TOKEN' = TOKEN + 1
            /\ armed' = Append(armed, [cpu |-> c, token |-> TOKEN, deadline |-> deadline,
                                       state |-> "armed", fires |-> 0])
        BY <2>1 DEF register_timer, Registration
      <3>2. deadline \in Nat
        OBVIOUS
      <3> QED
        BY ZenonT(40), <1>a, <3>1, <3>2, RegisterKeeps
    <2> QED
      BY Zenon, <1>1, <1>a, <2>2 DEF Register, TimerInv
  <1>2. CASE cancel_timer(c)
    <2>1. PICK n \in 1 .. Len(armed) :
            /\ TIMER_LIST' = [TIMER_LIST EXCEPT ![c] = @ \ {e \in TIMER_LIST[c] : e.token = armed[n].token}]
            /\ armed' = IF armed[n].cpu = c /\ armed[n].state = "armed"
                        THEN [armed EXCEPT ![n].state = "cancelled"] ELSE armed
      BY ZenonT(40), <1>2 DEF cancel_timer
    <2>2. /\ \A e \in TIMER_LIST[c] : e.token = armed[n].token <=> e.id = n
          /\ \A e, f \in TIMER_LIST[c] : e.id = f.id => e = f
      BY <1>a, OneOfToken
    <2>3. UNCHANGED <<TOKEN, now, checking, guest>>
      BY <1>2 DEF cancel_timer
    <2>4. CASE armed[n].cpu = c /\ armed[n].state = "armed"
      <3>1. PICK e \in TIMER_LIST[c] : e.id = n
        BY <1>a, <2>4 DEF Consistent
      <3>2. TIMER_LIST' = [TIMER_LIST EXCEPT ![c] = TIMER_LIST[c] \ {e}]
        BY Zenon, <2>1, <2>2, <3>1
      <3>3. armed[n].fires = 0
        BY <1>a, <2>4 DEF Consistent
      <3>a. PICK to \in {"fired", "cancelled"} : to = "cancelled"
        OBVIOUS
      <3>b. PICK k \in Nat : k = 0
        OBVIOUS
      <3>4. PICK r : r = [armed[n] EXCEPT !.state = to, !.fires = k]
        OBVIOUS
      <3>5. Consistent(TIMER_LIST', armed', TOKEN, now)
        <4>1. armed[n] \in RegistrationType
          BY <1>a
        <4>2. /\ r \in RegistrationType
              /\ r.cpu = armed[n].cpu /\ r.token = armed[n].token /\ r.deadline = armed[n].deadline
              /\ r.state = "cancelled" /\ r.fires = 0
          <5>1. r.state = to /\ r.fires = k /\ r \in RegistrationType
                /\ r.cpu = armed[n].cpu /\ r.token = armed[n].token /\ r.deadline = armed[n].deadline
            BY Zenon, <3>4, <4>1 DEF RegistrationType
          <5> QED
            BY <3>a, <3>b, <5>1
        <4>3. [armed[n] EXCEPT !.state = "cancelled"] = r
          <5>1. [armed[n] EXCEPT !.state = to] = r
            BY Zenon, <3>3, <3>b, <3>4, <4>1 DEF RegistrationType
          <5> QED
            BY <3>a, <5>1
        <4>4. armed' = [armed EXCEPT ![e.id] = r]
          BY Zenon, <2>1, <2>4, <3>1, <4>3
        <4> QED
          <5>1. Closed(armed[e.id], r, now)
            BY Zenon, <3>1, <4>2 DEF Closed
          <5> QED
            BY ZenonT(40), <1>a, <3>1, <3>2, <4>4, <5>1, RemoveKeeps
      <3> QED
        BY ZenonT(40), <1>a, <2>3, <3>5 DEF TimerInv
    <2>5. CASE ~(armed[n].cpu = c /\ armed[n].state = "armed")
      <3>1. \A e \in TIMER_LIST[c] : e.id # n
        BY <1>a, <2>5 DEF Consistent
      <3>2. {e \in TIMER_LIST[c] : e.token = armed[n].token} = {}
        BY <2>2, <3>1
      <3>3. armed' = armed /\ DOMAIN TIMER_LIST' = CPUS /\ \A d \in CPUS : TIMER_LIST'[d] = TIMER_LIST[d]
        BY ZenonT(40), <2>1, <2>5, <3>2
      <3>4. Consistent(TIMER_LIST', armed', TOKEN, now)
        BY <1>a, <3>3 DEF Consistent
      <3> QED
        BY ZenonT(40), <1>a, <2>3, <3>4 DEF TimerInv
    <2> QED
      BY <2>4, <2>5
  <1>3. CASE check_events(c)
    <2>1. checking' = [checking EXCEPT ![c] = now] /\ UNCHANGED <<TIMER_LIST, armed, TOKEN, now>>
      BY <1>3 DEF check_events
    <2>2. checking' \in [CPUS -> Int] /\ \A d \in CPUS : checking'[d] <= now
      BY ONLY <1>a, <2>1, SMTT(30)
    <2> QED
      BY Zenon, <1>a, <2>1, <2>2 DEF TimerInv
  <1>4. CASE EndCheck(c)
    BY <1>4, <1>a DEF EndCheck, TimerInv, NotChecking
  <1>5. CASE RunCallback(c)
    <2>1. PICK e \in expire_one(TIMER_LIST[c], checking[c]) :
            \/ /\ TIMER_LIST' = [TIMER_LIST EXCEPT ![c] = @ \ {e}]
               /\ armed' = Fired(e.id)
               /\ UNCHANGED TOKEN
            \/ \E deadline \in 0 .. MaxTime :
                 /\ register_timer(c, deadline, TIMER_LIST[c] \ {e})
                 /\ armed' = Append(Fired(e.id), Registration(c, deadline))
      BY ZenonT(40), <1>5 DEF RunCallback
    <2>2. /\ e \in TIMER_LIST[c] /\ e \in Event /\ e.id \in 1 .. Len(armed)
          /\ armed[e.id].fires = 0 /\ e.deadline = armed[e.id].deadline /\ e.deadline <= now
      <3>1. e \in TIMER_LIST[c] /\ e.deadline <= checking[c]
        BY Zenon, <2>1 DEF expire_one
      <3>2. /\ e \in Event /\ e.id \in 1 .. Len(armed)
            /\ armed[e.id].state = "armed" /\ e.deadline = armed[e.id].deadline
        BY ZenonT(40), <1>a, <3>1 DEF Consistent
      <3>3. armed[e.id].fires = IF armed[e.id].state = "fired" THEN 1 ELSE 0
        BY Zenon, <1>a, <3>2 DEF Consistent
      <3>4. e.deadline \in Nat /\ checking[c] \in Int /\ checking[c] <= now /\ now \in Nat
        <4>1. e.deadline \in Nat
          BY <3>2 DEF Event
        <4>2. checking[c] \in Int /\ checking[c] <= now
          BY Zenon, <1>a
        <4>3. now \in Nat
          BY Zenon, <1>a DEF Consistent
        <4> QED
          BY Zenon, <4>1, <4>2, <4>3
      <3>5. armed[e.id].fires = 0
        BY ONLY <3>2, <3>3
      <3>6. e.deadline <= now
        BY ONLY <3>1, <3>4
      <3> QED
        BY Zenon, <3>1, <3>2, <3>5, <3>6
    <2>3. PICK L : L = [TIMER_LIST EXCEPT ![c] = TIMER_LIST[c] \ {e}]
      BY Zenon
    <2>t. PICK to \in {"fired", "cancelled"} : to = "fired"
      BY Zenon
    <2>k. PICK k \in Nat : k = armed[e.id].fires + 1
      BY <2>2
    <2>4. PICK r : r = [armed[e.id] EXCEPT !.state = to, !.fires = k]
      OBVIOUS
    <2>b. PICK B : B = [armed EXCEPT ![e.id] = r]
      BY Zenon
    <2>5. armed[e.id] \in RegistrationType
      BY SMTT(30), <1>a, <2>2
    <2>f. Fired(e.id) = B
      <3>1. Ran(armed[e.id]) = r
        BY Zenon, <2>t, <2>k, <2>4 DEF Ran
      <3> QED
        BY <2>b, <3>1 DEF Fired
    <2>r. /\ r \in RegistrationType
          /\ r.cpu = armed[e.id].cpu /\ r.token = armed[e.id].token /\ r.deadline = armed[e.id].deadline
          /\ r.state = "fired" /\ r.fires = 1
      <3>1. /\ r \in RegistrationType /\ r.state = to /\ r.fires = k
            /\ r.cpu = armed[e.id].cpu /\ r.token = armed[e.id].token /\ r.deadline = armed[e.id].deadline
        BY Zenon, <2>4, <2>5 DEF RegistrationType
      <3> QED
        BY <2>2, <2>t, <2>k, <3>1
    <2>c. Consistent(L, B, TOKEN, now) /\ Len(B) = Len(armed)
      <3>1. Len(B) = Len(armed)
        BY SMTT(30), <1>a, <2>b
      <3>2. r.deadline <= now
        BY Zenon, <2>2, <2>r
      <3>3. c \in DOMAIN TIMER_LIST /\ e \in TIMER_LIST[c]
        BY Zenon, <2>2
      <3>4. Closed(armed[e.id], r, now)
        BY <2>r, <3>2 DEF Closed
      <3>5. Consistent(L, B, TOKEN, now)
        BY Zenon, <1>a, <2>3, <2>b, <3>3, <3>4, RemoveKeeps
      <3> QED
        BY <3>1, <3>5
    <2>6. Consistent(TIMER_LIST', armed', TOKEN', now)
      <3>1. CASE /\ TIMER_LIST' = [TIMER_LIST EXCEPT ![c] = @ \ {e}]
                 /\ armed' = Fired(e.id)
                 /\ UNCHANGED TOKEN
        BY <2>3, <2>f, <2>c, <3>1
      <3>2. ASSUME NEW deadline \in 0 .. MaxTime, register_timer(c, deadline, TIMER_LIST[c] \ {e}),
                   armed' = Append(Fired(e.id), Registration(c, deadline))
            PROVE  Consistent(TIMER_LIST', armed', TOKEN', now)
        <4> DEFINE event == [token |-> TOKEN, deadline |-> deadline, id |-> Len(B) + 1]
        <4>1. c \in DOMAIN L /\ L[c] = TIMER_LIST[c] \ {e}
          BY <2>3
        <4>2. TIMER_LIST' = [L EXCEPT ![c] = L[c] \cup {event}] /\ TOKEN' = TOKEN + 1
          BY ZenonT(40), <2>3, <2>c, <3>2, <4>1 DEF register_timer
        <4>3. armed' = Append(B, [cpu |-> c, token |-> TOKEN, deadline |-> deadline,
                                  state |-> "armed", fires |-> 0])
          BY <2>f, <3>2 DEF Registration
        <4>4. deadline \in Nat
          BY <3>2
        <4> QED
          BY Zenon, <2>c, <4>1, <4>2, <4>3, <4>4, RegisterKeeps
      <3> QED
        BY ZenonT(40), <2>1, <3>1, <3>2
    <2>7. checking' = [checking EXCEPT ![c] = now] /\ now' = now
      BY <1>5 DEF RunCallback
    <2> QED
      BY <1>a, <2>6, <2>7 DEF TimerInv
  <1>6. CASE HaltVcpu(c) \/ RunVcpu(c)
    BY <1>6, <1>a DEF HaltVcpu, RunVcpu, TimerInv
  <1> QED
    BY ZenonT(40), <1>1, <1>2, <1>3, <1>4, <1>5, <1>6 DEF TimerStep, Check

\* The start-up of a CPU, main and the clock.
LEMMA TimerInvStep ==
    ASSUME TimerInv, BootInv, [CoreNext]_coreVars
    PROVE  TimerInv'
  <1>a. /\ Consistent(TIMER_LIST, armed, TOKEN, now)
        /\ armed \in Seq(RegistrationType) /\ now \in Nat
        /\ checking \in [CPUS -> Int] /\ \A d \in CPUS : checking[d] <= now
    BY DEF TimerInv, Consistent
  <1>0. ASSUME UNCHANGED timerVars
        PROVE  TimerInv'
    BY <1>0 DEF timerVars, TimerInv
  <1>1. ASSUME NEW c \in CPUS, init_percpu(c), UNCHANGED <<TOKEN, now, checking, guest, armed>>
        PROVE  TimerInv'
    <2>1. /\ c \notin DOMAIN TIMER_LIST /\ DOMAIN TIMER_LIST' = DOMAIN TIMER_LIST \cup {c}
          /\ TIMER_LIST'[c] = {} /\ \A d \in DOMAIN TIMER_LIST : TIMER_LIST'[d] = TIMER_LIST[d]
      BY Zenon, <1>1 DEF init_percpu
    <2>2. Consistent(TIMER_LIST', armed, TOKEN, now)
      BY <1>a, <2>1 DEF Consistent
    <2> QED
      BY <1>1, <1>a, <2>2 DEF TimerInv
  <1>2. CASE TimersRun
    <2>1. DOMAIN TIMER_LIST = CPUS
      BY Zenon, <1>2, CpusFinite DEF TimersRun, Started, BootInv, Cores, MainUp, Done
    <2>2. CASE Tick
      <3>1. now' = now + 1 /\ UNCHANGED <<TOKEN, TIMER_LIST, checking, guest, armed>>
        BY <2>2 DEF Tick
      <3>2. \A n \in 1 .. Len(armed) : armed[n].deadline \in Nat
        <4>1. \A n \in 1 .. Len(armed) : armed[n] \in RegistrationType
          BY SMTT(30), <1>a
        <4> QED
          BY <4>1 DEF RegistrationType
      <3>3. \A n \in 1 .. Len(armed) : armed[n].state = "fired" => armed[n].deadline <= now + 1
        BY SMTT(30), <1>a, <3>2 DEF Consistent
      <3>4. Consistent(TIMER_LIST, armed, TOKEN, now + 1)
        BY <1>a, <3>3 DEF Consistent
      <3> QED
        BY <1>a, <3>1, <3>4 DEF TimerInv
    <2> QED
      BY <1>2, <2>1, <2>2, TimerStepKeeps DEF TimersRun
  <1>3. CASE BootStep
    <2>1. ASSUME NEW c \in CPUS, CpuStep(c), UNCHANGED <<TOKEN, now, checking, guest, armed, strays>>
          PROVE  TimerInv'
      BY <1>0, <2>1 DEF CpuStep, timerVars
    <2>2. ASSUME NEW t \in CPUS, ThreadStep(t), UNCHANGED <<TOKEN, now, checking, guest, armed, strays>>
          PROVE  TimerInv'
      BY <1>0, <1>1, <2>2 DEF ThreadStep, init_timer_percpu, timerVars
    <2> QED
      BY <1>3, <2>1, <2>2 DEF BootStep, BootNext, Threads
  <1> QED
    BY Zenon, <1>0, <1>2, <1>3 DEF CoreNext, coreVars

\* For any number of CPUs and timers and any order of registrations, cancels,
\* interrupts and ticks, a timer fires once and not early, or is cancelled on its
\* own CPU, or waits in the list of its CPU; of one that was cancelled on another
\* CPU, that it fires once at most and not early.
THEOREM TimersCorrect == CoreSpec => []TimersExact
  <1>1. TimerInv /\ BootInv /\ [CoreNext]_coreVars => TimerInv'
    BY TimerInvStep
  <1> QED
    BY <1>1, TimerInvInit, BootInvariant, ConsistentExact, PTL DEF CoreSpec
=============================================================================
