----------------------------- MODULE PerCpuBoot -----------------------------
(***************************************************************************)
(* From reset to virtualization on every core.  rust_main of               *)
(* modules/axruntime runs on the primary CPU, starts the others one by one *)
(* and waits for them; then main calls enable_virtualization               *)
(* (kernel/src/hal/mod.rs), which gives every core a thread that sets it   *)
(* up, and waits for the threads.  Tasks are scheduled cooperatively: a    *)
(* CPU runs one until it yields, migrates or ends.                         *)
(***************************************************************************)
EXTENDS Timer

CONSTANTS PRIMARY,     \* the CPU that rust_main runs on
          MAX_CPU_NUM  \* one more than there are boot stacks

ASSUME CpuAssumption == PRIMARY \in CPUS /\ MAX_CPU_NUM \in Nat /\ CPU_COUNT <= MAX_CPU_NUM

Main == -1
Idle == -2
Threads == CPUS  \* the thread that sets up a core

VARIABLES pc,            \* where each CPU is in rust_main or rust_main_secondary
          next_cpu,      \* the loop variable of start_secondary_cpus
          logic_cpu_id,
          ENTERED_CPUS,
          INITED_CPUS,
          irqs,          \* the CPUs with interrupts enabled
          current,       \* the task each CPU runs
          run_queue,     \* the run queue of each CPU
          thread,        \* where each thread is in enable_virtualization
          CORES,
          AXVM_PER_CPU   \* the cores with virtualization enabled

runtimeVars == <<pc, next_cpu, logic_cpu_id, ENTERED_CPUS, INITED_CPUS, irqs>>
taskVars == <<current, run_queue, thread, CORES, AXVM_PER_CPU>>
bootVars == <<runtimeVars, taskVars, TIMER_LIST>>

BootInit ==
    /\ pc = [c \in CPUS |-> IF c = PRIMARY THEN "rust_main" ELSE "off"]
    /\ next_cpu = 0 /\ logic_cpu_id = 0
    /\ ENTERED_CPUS = 1 /\ INITED_CPUS = 0
    /\ irqs = {}
    /\ current = [c \in CPUS |-> Idle]
    /\ run_queue = [c \in CPUS |-> << >>]
    /\ thread = [t \in Threads |-> "none"]
    /\ CORES = 0
    /\ AXVM_PER_CPU = {}

Goto(c, to) == pc' = [pc EXCEPT ![c] = to]

-----------------------------------------------------------------------------
(* modules/axruntime: lib.rs and mp.rs.                                    *)

\* rust_main up to start_secondary_cpus: memory, scheduler, drivers and file
\* systems of the primary CPU, which from now on runs the main task.
rust_main ==
    /\ pc[PRIMARY] = "rust_main"
    /\ Goto(PRIMARY, "starting")
    /\ current' = [current EXCEPT ![PRIMARY] = Main]
    /\ UNCHANGED <<next_cpu, logic_cpu_id, ENTERED_CPUS, INITED_CPUS, irqs, run_queue, thread, CORES, AXVM_PER_CPU>>

\* One round of the loop, up to the wait; cpu_boot sends the CPU to its entry.
start_secondary_cpus ==
    /\ pc[PRIMARY] = "starting" /\ next_cpu < CPU_COUNT
    /\ next_cpu' = next_cpu + 1
    /\ IF next_cpu # PRIMARY /\ logic_cpu_id < CPU_COUNT - 1
       THEN /\ pc' = [pc EXCEPT ![next_cpu] = "entry", ![PRIMARY] = "wait_entered"]
            /\ logic_cpu_id' = logic_cpu_id + 1
       ELSE UNCHANGED <<pc, logic_cpu_id>>
    /\ UNCHANGED <<ENTERED_CPUS, INITED_CPUS, irqs, taskVars>>

WaitEntered ==
    /\ pc[PRIMARY] = "wait_entered"
    /\ ENTERED_CPUS > logic_cpu_id
    /\ Goto(PRIMARY, "starting")
    /\ UNCHANGED <<next_cpu, logic_cpu_id, ENTERED_CPUS, INITED_CPUS, irqs, taskVars>>

\* init_interrupt, the constructors and the count.
init_interrupt ==
    /\ pc[PRIMARY] = "starting" /\ next_cpu = CPU_COUNT
    /\ irqs' = irqs \cup {PRIMARY}
    /\ INITED_CPUS' = INITED_CPUS + 1
    /\ Goto(PRIMARY, "wait_inited")
    /\ UNCHANGED <<next_cpu, logic_cpu_id, ENTERED_CPUS, taskVars>>

\* rust_main_secondary: the CPU's own data, then the count.
EnterSecondary(c) ==
    /\ pc[c] = "entry"
    /\ ENTERED_CPUS' = ENTERED_CPUS + 1
    /\ Goto(c, "entered")
    /\ UNCHANGED <<next_cpu, logic_cpu_id, INITED_CPUS, irqs, taskVars>>

\* Memory management and scheduler of the CPU, then the other count.
rust_main_secondary(c) ==
    /\ pc[c] = "entered"
    /\ INITED_CPUS' = INITED_CPUS + 1
    /\ Goto(c, "wait_inited")
    /\ UNCHANGED <<next_cpu, logic_cpu_id, ENTERED_CPUS, irqs, taskVars>>

\* Mutant: the primary CPU does not wait for itself.
is_init_ok_Early == INITED_CPUS >= CPU_COUNT - 1

is_init_ok == INITED_CPUS = CPU_COUNT

\* The end of the wait: main on the primary, interrupts and run_idle elsewhere.
InitOk(c) ==
    /\ pc[c] = "wait_inited" /\ is_init_ok
    /\ Goto(c, IF c = PRIMARY THEN "spawning" ELSE "run_idle")
    /\ irqs' = irqs \cup {c}
    /\ UNCHANGED <<next_cpu, logic_cpu_id, ENTERED_CPUS, INITED_CPUS, taskVars>>

-----------------------------------------------------------------------------
(* kernel/src/hal/mod.rs: enable_virtualization.  The scheduler is external. *)

\* The CPUs whose scheduler is initialised.
Scheduling == {c \in CPUS : pc[c] \notin {"off", "entry", "entered", "rust_main"}}

\* What a CPU does when its task gives it up: the next one of its queue.
NextTask(q) == IF q = << >> THEN Idle ELSE Head(q)
OtherTasks(q) == IF q = << >> THEN q ELSE Tail(q)

\* A new thread is put on the queue of any CPU.
SpawnThread ==
    /\ pc[PRIMARY] = "spawning" /\ current[PRIMARY] = Main
    /\ \E t \in Threads, c \in CPUS :
         /\ thread[t] = "none" /\ \A u \in Threads : u < t => thread[u] # "none"
         /\ thread' = [thread EXCEPT ![t] = "spawned"]
         /\ run_queue' = [run_queue EXCEPT ![c] = Append(@, t)]
    /\ UNCHANGED <<runtimeVars, current, CORES, AXVM_PER_CPU>>

\* Mutant: main spins instead of giving the CPU to the threads.
yield_now_Spin(c) == UNCHANGED <<current, run_queue>>

yield_now(c) ==
    /\ current' = [current EXCEPT ![c] = Head(Append(run_queue[c], current[c]))]
    /\ run_queue' = [run_queue EXCEPT ![c] = Tail(Append(@, current[c]))]

AllSpawned == \A t \in Threads : thread[t] # "none"

\* The wait for all cores: main goes on, or another task does.
WaitCores ==
    /\ pc[PRIMARY] = "spawning" /\ AllSpawned /\ current[PRIMARY] = Main
    /\ IF CORES = CPU_COUNT THEN Goto(PRIMARY, "vmm_init") /\ UNCHANGED <<current, run_queue>>
                            ELSE yield_now(PRIMARY) /\ UNCHANGED pc
    /\ UNCHANGED <<next_cpu, logic_cpu_id, ENTERED_CPUS, INITED_CPUS, irqs, thread, CORES, AXVM_PER_CPU>>

\* An idle CPU takes the next task; run_idle comes back to it at every tick.
Dispatch(c) ==
    /\ current[c] = Idle /\ run_queue[c] # << >> /\ pc[c] \in {"run_idle", "spawning"}
    /\ current' = [current EXCEPT ![c] = Head(run_queue[c])]
    /\ run_queue' = [run_queue EXCEPT ![c] = Tail(@)]
    /\ UNCHANGED <<runtimeVars, thread, CORES, AXVM_PER_CPU>>

Runs(t, c) == current[c] = t /\ pc[c] \in {"run_idle", "spawning"}

\* ax_set_current_affinity moves the thread to its own core.
set_affinity(t) ==
    \E c \in CPUS :
      /\ Runs(t, c) /\ thread[t] = "spawned"
      /\ thread' = [thread EXCEPT ![t] = "pinned"]
      /\ IF c = t THEN UNCHANGED <<current, run_queue>>
         ELSE /\ current' = [current EXCEPT ![c] = NextTask(run_queue[c])]
              /\ run_queue' = [run_queue EXCEPT ![c] = OtherTasks(@), ![t] = Append(@, t)]
      /\ UNCHANGED <<runtimeVars, CORES, AXVM_PER_CPU>>

\* init_timer_percpu on the core the thread runs on.
init_timer_percpu(t) ==
    \E c \in CPUS :
      /\ Runs(t, c) /\ thread[t] = "pinned"
      /\ init_percpu(c)
      /\ thread' = [thread EXCEPT ![t] = "timer"]
      /\ UNCHANGED <<runtimeVars, current, run_queue, CORES, AXVM_PER_CPU>>

\* init and hardware_enable of the core's AXVM_PER_CPU.
hardware_enable(t) ==
    \E c \in CPUS :
      /\ Runs(t, c) /\ thread[t] = "timer"
      /\ AXVM_PER_CPU' = AXVM_PER_CPU \cup {c}
      /\ thread' = [thread EXCEPT ![t] = "enabled"]
      /\ UNCHANGED <<runtimeVars, current, run_queue, CORES>>

\* The count, and the end of the thread.
CountCore(t) ==
    \E c \in CPUS :
      /\ Runs(t, c) /\ thread[t] = "enabled"
      /\ CORES' = CORES + 1
      /\ thread' = [thread EXCEPT ![t] = "done"]
      /\ current' = [current EXCEPT ![c] = NextTask(run_queue[c])]
      /\ run_queue' = [run_queue EXCEPT ![c] = OtherTasks(@)]
      /\ UNCHANGED <<runtimeVars, AXVM_PER_CPU>>

CpuStep(c) ==
    /\ \/ c = PRIMARY /\ (rust_main \/ start_secondary_cpus \/ WaitEntered \/ init_interrupt
                          \/ SpawnThread \/ WaitCores)
       \/ EnterSecondary(c) \/ rust_main_secondary(c) \/ InitOk(c) \/ Dispatch(c)
    /\ UNCHANGED TIMER_LIST

ThreadStep(t) ==
    \/ (set_affinity(t) \/ hardware_enable(t) \/ CountCore(t)) /\ UNCHANGED TIMER_LIST
    \/ init_timer_percpu(t)

BootNext == (\E c \in CPUS : CpuStep(c)) \/ (\E t \in Threads : ThreadStep(t))

\* Every CPU goes on, in rust_main and with the task it runs.
BootFairness ==
    /\ \A c \in CPUS : WF_bootVars(CpuStep(c))
    /\ \A t \in Threads : WF_bootVars(ThreadStep(t))

-----------------------------------------------------------------------------
(* The cores under main of kernel/src/main.rs, seen from its program       *)
(* counter: what vmm::init and vmm::start do otherwise is in the module    *)
(* HypervisorBoot.                                                         *)

MainGoesOn ==
    /\ pc[PRIMARY] \in {"vmm_init", "create", "vmm_start"}
    /\ \E to \in {"create", "vmm_start", "panic", "started"} : Goto(PRIMARY, to)

Started == pc[PRIMARY] = "started"

BootStep == BootNext /\ UNCHANGED <<TOKEN, now, checking, guest, armed, strays>>
TimersRun == Started /\ (Tick \/ \E c \in CPUS : TimerStep(c)) /\ UNCHANGED <<runtimeVars, taskVars>>

CoreInit == BootInit /\ TimerInit
CoreNext ==
    \/ BootStep
    \/ MainGoesOn /\ UNCHANGED <<next_cpu, logic_cpu_id, ENTERED_CPUS, INITED_CPUS, irqs, taskVars, timerVars>>
    \/ TimersRun

coreVars == <<bootVars, timerVars>>
CoreSpec == CoreInit /\ [][CoreNext]_coreVars

\* No CPU takes interrupts, is given a task or runs a vCPU before its own data
\* are there: the barriers of rust_main and enable_virtualization are enough.
NoEarlyUse ==
    /\ \A c \in CPUS : run_queue[c] # << >> => c \in Scheduling
    /\ irqs \subseteq Scheduling
    /\ guest \subseteq (DOMAIN TIMER_LIST \cap AXVM_PER_CPU)
    /\ pc[PRIMARY] \in {"vmm_init", "create", "vmm_start", "started"} =>
         DOMAIN TIMER_LIST = CPUS /\ AXVM_PER_CPU = CPUS
=============================================================================
