----------------------------- MODULE VmLifecycle -----------------------------
(***************************************************************************)
(* The VM life cycle: the main thread (VmShell) and the vCPU tasks         *)
(* (VcpuRun) over the state they share (VmmState).                         *)
(***************************************************************************)
EXTENDS VcpuRun, VmShell

Init ==
    /\ status = [v \in VM |-> IF v \in BootVMs THEN "Loaded" ELSE "Loading"]
    /\ listed = BootVMs
    /\ entry = [v \in VM |-> NoTask]
    /\ taskList = [v \in VM |-> {}]
    /\ count = [v \in VM |-> 0]
    /\ runningVMs = 0
    /\ vmOf = [t \in Task |-> CHOOSE v \in VM : TRUE]
    /\ vcpuOf = [t \in Task |-> 0]
    /\ spawnee = [t \in Task |-> NoTask]
    /\ pc = [t \in Task |-> "unused"]
    /\ home = [t \in Task |-> NoTask]
    /\ asleep = {}
    /\ ShellInit
    /\ panic = "none"

\* A panic of any task is fatal to the hypervisor.
Next ==
    /\ panic = "none"
    /\ \/ MainStep
       \/ TypeCommand
       \/ \E t \in Task : vcpu_run(t)

Spec == Init /\ [][Next]_vars

\* The scheduler runs every ready task, and a vCPU in the guest exits again
\* (timer interrupts exit to the VMM); the operator need not type anything.
Fairness ==
    /\ WF_vars(panic = "none" /\ MainStep)
    /\ \A t \in Task : WF_vars(panic = "none" /\ vcpu_run(t))

FairSpec == Spec /\ Fairness

-----------------------------------------------------------------------------
(* Safety.                                                                 *)

PanicCause == {"none", "noEntry", "vmDropped", "shutdownFailed", "noSuchCpu",
               "vcpuNotFree", "setEntry", "ipiToAll", "ipiToVcpu"}

\* A vCPU that is about to add a task has spawned it.
SpawneeTypeOK ==
    /\ spawnee \in [Task -> Entries]
    /\ \A t \in Task : pc[t] = "adding" => spawnee[t] # NoTask

\* Types of the shared state of the VMM (vmm/mod.rs, vmm/vcpus.rs, vm_list.rs).
TypeOK ==
    /\ status \in [VM -> VMStatus]
    /\ listed \subseteq VM
    /\ entry \in [VM -> Entries]
    /\ taskList \in [VM -> SUBSET Task]
    /\ count \in [VM -> Int]
    /\ runningVMs \in Int
    /\ vmOf \in [Task -> VM]
    /\ vcpuOf \in [Task -> Vcpu]
    /\ SpawneeTypeOK
    /\ pc \in [Task -> TaskPc]
    /\ home \in [Task -> Entries]
    /\ asleep \subseteq Task
    /\ ShellTypeOK
    /\ panic \in PanicCause

\* Stopped is final: once the last vCPU has set Stopped, no task of the VM is
\* left between mark_vcpu_running and mark_vcpu_exiting, so `vm show' is right
\* to say that all vCPU tasks of a stopped VM have exited.
StoppedMeansExited ==
    \A v \in VM : status[v] = "Stopped" => Counted(v) = {}

\* running_halting_vcpu_count of the VM's entry is the number of its tasks
\* between mark_vcpu_running and mark_vcpu_exiting, so "was 1" in
\* mark_vcpu_exiting identifies the last one.
CountExact ==
    \A v \in VM : entry[v] # NoTask => count[v] = Cardinality(Counted(v))

\* A VM with a vCPU past its start and not yet through sub_running_vm_count is
\* counted in RUNNING_VM_COUNT, except between its boot and the add that
\* follows: the counter may wrap below zero there and nowhere else.
Executing(v) ==
    \E t \in TasksOf(v) :
        pc[t] \in CountedPc \cup {"marking", "lastExit", "subCount"}

RunningCovered ==
    Cardinality({v \in VM : Executing(v)})
        <= runningVMs + (IF sh.pc \in {"notify", "add"} THEN 1 ELSE 0)

\* vmm::start returns to main only when every VM it booted is Stopped and has no
\* vCPU left in the guest ("Do not exit until all VMs are stopped").
VmmReturnsWhenStopped ==
    [][sh.pc = "vmmWait" /\ sh'.pc = "idle" =>
         \A v \in BootVMs : status[v] = "Stopped" /\ Counted(v) = {}]_vars

\* vCPU tasks are done only with the VM declared Stopped by one of them: the
\* decrement that finds the count at 1 is never missed.
NoMissedStop ==
    \A v \in VM :
        /\ TasksOf(v) # {}
        /\ \A t \in TasksOf(v) : pc[t] = "done"
        => status[v] = "Stopped"

\* Every task of a listed VM that has started, on whatever CPU, is on the list
\* that cleanup_vm_vcpus will join, or the thread that spawned it is about to
\* put it there: the main thread in setup_vm_primary_vcpu, a vCPU in vcpu_on.
\* No other task can be left behind by a cleanup.
TasksJoinable ==
    \A t \in Task :
        /\ pc[t] \in CountedPc \cup {"waitRunning", "marking"}
        /\ vmOf[t] \in listed
        => \/ entry[vmOf[t]] # NoTask /\ t \in taskList[vmOf[t]]
           \/ sh.pc = "insert" /\ sh.task = t
           \/ \E u \in Task : spawnee[u] = t /\ vmOf[u] = vmOf[t]

\* After notify_primary_vcpu the primary task of the entry is awake ("It will
\* be woken up by notify_primary_vcpu()").
NotifiedPrimaryAwake ==
    sh.pc = "add" => entry[sh.vm] \notin asleep

\* cleanup_vm_vcpus removes the entry of a VM only after all its vCPU threads
\* have exited, as its documentation requires.
CleanupAfterExit ==
    [][\A v \in VM : entry[v] # NoTask /\ entry'[v] = NoTask =>
         \A t \in TasksOf(v) : pc[t] = "done"]_vars

\* VM_VCPU_TASK_WAIT_QUEUE.get(..).unwrap() and the upgrade of a task's weak VM
\* reference fail in two cases only: for the first primary of a VM that another
\* CPU starts before setup_vm_primary_vcpu has inserted its entry, and for the
\* tasks of a VM that was deleted under them.  All other panics are answers to
\* an exit of the guest.
NoLostEntry ==
    panic \in {"noEntry", "vmDropped"} =>
        \/ sh.pc = "insert" /\ entry[sh.vm] = NoTask
        \/ \E t \in Task : pc[t] \notin {"unused", "done"} /\ vmOf[t] \notin listed

\* The status of each VM follows the life cycle its guards intend, although
\* commands run between the step in which the last vCPU sees Stopping and the
\* one in which it writes Stopped.
Intended == INSTANCE VmStatus
FollowsLifecycle == Intended!Spec

\* A VM that is stopping can only become Stopped, as the transition table of
\* doc/shell.md says: no command that checked the status earlier takes it back.
StoppingBecomesStopped ==
    [][\A v \in VM : stopping(v) /\ status'[v] # status[v]
                       => status'[v] = "Stopped"]_vars

-----------------------------------------------------------------------------
(* Liveness.                                                               *)

\* A VM told to stop, with a vCPU started and none asleep, reaches Stopped.
StopCompletes ==
    \A v \in VM :
        stopping(v) /\ Counted(v) # {} /\ TasksOf(v) \cap asleep = {}
            ~> status[v] = "Stopped"

\* Stopping a VM wakes its suspended vCPUs, so it reaches Stopped.
StopWakesSuspended ==
    \A v \in VM : stopping(v) /\ Counted(v) # {} ~> status[v] = "Stopped"

\* The primary vCPU of a booted VM enters the guest, unless the VM is suspended
\* or stopped before it gets there.
BootRuns ==
    \A t \in Task :
        sh.pc = "notify" /\ entry[sh.vm] = t
            ~> pc[t] = "guest" \/ ~running(vmOf[t])

\* A resume wakes every vCPU of the VM that sleeps for it.
ResumeWakes ==
    \A t \in Task :
        pc[t] = "waitResume" /\ sh.pc = "resumeNotify" /\ sh.vm = vmOf[t]
            ~> pc[t] = "guest" \/ suspending(vmOf[t])

\* Once every boot VM has given up its share of RUNNING_VM_COUNT the main
\* thread goes on to the shell: the wake-up of the VMM queue is not lost.
VmmReturns ==
    (/\ sh.phase = "start" /\ sh.todo = {}
     /\ \A v \in BootVMs : \A t \in TasksOf(v) : pc[t] \in {"wakeVmm", "done"})
        ~> (sh.phase = "shell" \/ panic # "none")
=============================================================================
