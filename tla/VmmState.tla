------------------------------ MODULE VmmState ------------------------------
(***************************************************************************)
(* The state shared by the VMM main thread (which becomes the shell) and   *)
(* the vCPU tasks, and the primitives of kernel/src/vmm/vcpus.rs on it:    *)
(* the map VM_VCPU_TASK_WAIT_QUEUE of VMVCpus entries, the wait queue and  *)
(* the counter each entry holds, the list of VMs and RUNNING_VM_COUNT.     *)
(*                                                                         *)
(* A vCPU task is a member of Task, used once.  An entry of the map is     *)
(* named by the primary task it was created with, so that a task asleep in *)
(* the queue of an entry that was replaced or removed can be told from one *)
(* asleep in the queue of the current entry.                               *)
(***************************************************************************)
EXTENDS Integers, FiniteSets

CONSTANTS VM,         \* VM ids
          Vcpu,       \* vCPU ids of every VM
          Task,       \* the tasks that can be spawned in a behaviour (bound)
          NoTask      \* "no entry", "no queue"

ASSUME VMAssumption == VM # {} /\ VM \subseteq Nat \ {0}
ASSUME VcpuAssumption == 0 \in Vcpu /\ Vcpu \subseteq Nat
ASSUME TaskAssumption == IsFiniteSet(Task) /\ NoTask \notin Task

VARIABLES
    status,     \* status[v]: axvm::VMStatus of VM v
    listed,     \* GLOBAL_VM_LIST
    entry,      \* entry[v]: the VMVCpus of v in VM_VCPU_TASK_WAIT_QUEUE
    taskList,   \* taskList[v]: its vcpu_task_list
    count,      \* count[v]: its running_halting_vcpu_count
    runningVMs, \* RUNNING_VM_COUNT; -1 stands for the wrapped usize::MAX
    vmOf,       \* vmOf[t], vcpuOf[t]: the VCpuTask extension of task t
    vcpuOf,
    spawnee,    \* spawnee[t]: the task t has spawned and not yet put on the list
    pc,         \* pc[t]: where task t is in vcpu_run
    home,       \* home[t]: the entry whose queue t's wait call uses
    asleep,     \* tasks blocked in a wait queue
    sh,         \* main thread: init, start, then the shell
    panic       \* why the hypervisor panicked, or "none"

vmVars == <<status, listed>>
queueVars == <<entry, taskList, count>>
taskVars == <<vmOf, vcpuOf, spawnee, pc, home, asleep>>
vars == <<status, listed, entry, taskList, count, runningVMs,
          vmOf, vcpuOf, spawnee, pc, home, asleep, sh, panic>>

VMStatus == {"Loading", "Loaded", "Running", "Suspended", "Stopping", "Stopped"}

Entries == Task \cup {NoTask}

\* Points of vcpu_run at which a task touches shared state.
TaskPc == {"unused", "spawned", "waitRunning", "marking", "guest", "halted",
           "down", "adding", "checkSuspend", "waitResume", "checkStop",
           "exiting", "lastExit", "subCount", "wakeVmm", "done"}

\* Between mark_vcpu_running and mark_vcpu_exiting.
CountedPc == {"guest", "halted", "down", "adding", "checkSuspend",
              "waitResume", "checkStop", "exiting"}

TasksOf(v) == {t \in Task : pc[t] # "unused" /\ vmOf[t] = v}
Counted(v) == {t \in TasksOf(v) : pc[t] \in CountedPc}

-----------------------------------------------------------------------------
(* VM_VCPU_TASK_WAIT_QUEUE and the wait queue of an entry.                 *)

\* A panic stops the machine: the step that panics changes nothing else.
Panic(why) ==
    /\ panic' = why
    /\ UNCHANGED <<vmVars, queueVars, taskVars, runningVMs, sh>>

\* The tasks a notify on the current entry of v can wake.
Waiters(v) == {t \in asleep : entry[v] # NoTask /\ home[t] = entry[v]}

\* Mutants: a notify that wakes nobody.
NotifyOne_Lost(v) == UNCHANGED asleep
NotifyAll_Lost(v) == UNCHANGED asleep

\* WaitQueue::notify_one wakes one waiter if there is one, notify_all every one.
NotifyOne(v) ==
    IF Waiters(v) = {}
      THEN UNCHANGED asleep
      ELSE \E t \in Waiters(v) : asleep' = asleep \ {t}

NotifyAll(v) == asleep' = asleep \ Waiters(v)

\* A task spawned for vCPU c of v: alloc_vcpu_task ends in spawn_task, so the
\* task is ready to run at once.
SpareTask == {t \in Task : pc[t] = "unused"}
NewTask == CHOOSE t \in SpareTask : TRUE

Spawn(t, v, c) ==
    /\ vmOf' = [vmOf EXCEPT ![t] = v]
    /\ vcpuOf' = [vcpuOf EXCEPT ![t] = c]

\* wait(vm_id): block until notified.  `next' is where the task will resume.
WaitCall(t, next) ==
    IF entry[vmOf[t]] = NoTask
      THEN Panic("noEntry")
      ELSE /\ home' = [home EXCEPT ![t] = entry[vmOf[t]]]
           /\ asleep' = asleep \cup {t}
           /\ pc' = [pc EXCEPT ![t] = next]
           /\ UNCHANGED <<vmVars, queueVars, vmOf, vcpuOf, spawnee, runningVMs,
                          sh, panic>>

\* wait_for(vm_id, condition): the entry is looked up once, then the queue it
\* holds is used for every check of the condition.
WaitFor(t, condition, next) ==
    LET e == IF home[t] = NoTask THEN entry[vmOf[t]] ELSE home[t]
    IN  /\ t \notin asleep
        /\ IF e = NoTask
             THEN Panic("noEntry")
             ELSE /\ IF condition
                       THEN /\ home' = [home EXCEPT ![t] = NoTask]
                            /\ pc' = [pc EXCEPT ![t] = next]
                            /\ UNCHANGED asleep
                       ELSE /\ home' = [home EXCEPT ![t] = e]
                            /\ asleep' = asleep \cup {t}
                            /\ UNCHANGED pc
                  /\ UNCHANGED <<vmVars, queueVars, vmOf, vcpuOf, spawnee,
                                 runningVMs, sh, panic>>

-----------------------------------------------------------------------------
(* The part of axvm::AxVM the VMM relies on (external).                    *)

running(v) == status[v] = "Running"
suspending(v) == status[v] = "Suspended"
stopping(v) == status[v] = "Stopping"

set_vm_status(v, s) == status' = [status EXCEPT ![v] = s]

\* The VM object lives as long as the list, a started task or the shell's
\* delete holds a strong reference; a task's extension holds a weak one.
Alive(v) ==
    \/ v \in listed
    \/ sh.vm = v /\ sh.pc \in {"deleteCleanup", "deleteJoin"}
    \/ \E t \in TasksOf(v) : pc[t] \notin {"spawned", "done"}
=============================================================================
