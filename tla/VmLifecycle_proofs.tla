------------------------- MODULE VmLifecycle_proofs -------------------------
(***************************************************************************)
(* Type correctness of VmLifecycle, for every instance, and what each step *)
(* of the main thread and of a vCPU task changes, field by field, so that  *)
(* the proofs about VmLifecycle need not look into the actions again.      *)
(* Then safety for any number of VMs, vCPUs and tasks: which look-ups of   *)
(* the VMM fail, that every task can be joined, that the counter of an     *)
(* entry is exact and that no stop is missed, each under the conditions on *)
(* the commands and the guests that its theorem names.                     *)
(***************************************************************************)
EXTENDS VmLifecycle, FiniteSetTheorems, TLAPS

\* The task that is spawned next is an unused one.
LEMMA NewTaskType == SpareTask # {} => NewTask \in Task /\ pc[NewTask] = "unused"
  BY DEF SpareTask, NewTask

\* The types hold at the start.
LEMMA InitType == Init => TypeOK
<1> SUFFICES ASSUME Init PROVE TypeOK
  OBVIOUS
<1>1. (CHOOSE v \in VM : TRUE) \in VM
  BY VMAssumption
<1>2. ShellTypeOK
  BY SMTT(30), <1>1, BootVMsAssumption, BoundsAssumption DEF Init, ShellInit, ShellTypeOK, ShellState, ShPc, Entries
<1> QED
  BY <1>1, <1>2, BootVMsAssumption, VcpuAssumption
  DEF Init, TypeOK, SpawneeTypeOK, VMStatus, Entries, TaskPc, PanicCause

\* A step that makes no task about to add another keeps the types of spawnee.
LEMMA SpawneeSame ==
  ASSUME SpawneeTypeOK, spawnee' = spawnee,
         \A u \in Task : pc'[u] = "adding" => pc[u] = "adding"
  PROVE  SpawneeTypeOK'
  BY Zenon DEF SpawneeTypeOK

\* A vCPU task that spawns another remembers it until it has added it.
LEMMA SpawneeTask == ASSUME TypeOK, NEW t \in Task, vcpu_run(t) PROVE SpawneeTypeOK'
<1>0. SpawneeTypeOK /\ pc \in [Task -> TaskPc]
  BY Zenon DEF TypeOK
<1>1. ASSUME spawnee' = spawnee, pc' = pc PROVE SpawneeTypeOK'
  BY Zenon, <1>0, <1>1, SpawneeSame
<1>2. ASSUME NEW q, q # "adding", spawnee' = spawnee, pc' = [pc EXCEPT ![t] = q]
      PROVE  SpawneeTypeOK'
  <2>1. \A u \in Task : pc'[u] = IF u = t THEN q ELSE pc[u]
    BY Zenon, <1>0, <1>2
  <2> QED
    BY Zenon, <1>0, <1>2, <2>1, SpawneeSame
<1>3. ASSUME NEW why, Panic(why) PROVE SpawneeTypeOK'
  BY Zenon, <1>1, <1>3 DEF Panic, taskVars
<1>4. CASE Start(t) \/ WaitRunning(t) \/ mark_vcpu_running(t)
  BY Zenon, <1>1, <1>2, <1>3, <1>4 DEF Start, WaitRunning, WaitFor, mark_vcpu_running, Goto
<1>5. CASE ResumableExit(t) \/ Halt(t) \/ CpuDown(t) \/ WaitReturns(t)
  BY Zenon, <1>2, <1>3, <1>5 DEF ResumableExit, Halt, CpuDown, WaitCall, WaitReturns, Goto
<1>6. CASE CpuUp(t)
  <2>1. ASSUME NEW c \in Vcpu, vcpu_on(t, c) PROVE SpawneeTypeOK'
    <3>1. CASE SpareTask # {} /\ pc' = [pc EXCEPT ![t] = "adding", ![NewTask] = "spawned"]
                /\ spawnee' = [spawnee EXCEPT ![t] = NewTask]
      <4>1. NewTask \in Task /\ NewTask # NoTask
        BY Zenon, <3>1, NewTaskType, TaskAssumption
      <4>2. \A u \in Task : /\ pc'[u] = "adding" => u = t \/ pc[u] = "adding"
                            /\ spawnee'[u] = IF u = t THEN NewTask ELSE spawnee[u]
        BY <1>0, <3>1, <4>1 DEF SpawneeTypeOK
      <4>3. spawnee' \in [Task -> Entries]
        BY Zenon, <1>0, <3>1, <4>1 DEF SpawneeTypeOK, Entries
      <4> QED
        BY Zenon, <1>0, <4>1, <4>2, <4>3 DEF SpawneeTypeOK
    <3> QED
      BY Zenon, <1>3, <2>1, <3>1 DEF vcpu_on
  <2> QED
    BY Zenon, <1>3, <1>6, <2>1 DEF CpuUp
<1>7. CASE AddVcpuTask(t)
  <2>1. CASE entry[vmOf[t]] = NoTask
    BY Zenon, <1>3, <1>7, <2>1 DEF AddVcpuTask
  <2>2. CASE entry[vmOf[t]] # NoTask
    <3>1. pc' = [pc EXCEPT ![t] = "checkSuspend"] /\ spawnee' = [spawnee EXCEPT ![t] = NoTask]
      BY Zenon, <1>7, <2>2 DEF AddVcpuTask, Goto
    <3> QED
      BY <1>0, <3>1 DEF SpawneeTypeOK, Entries
  <2> QED BY Zenon, <2>1, <2>2
<1>8. CASE SendIPI(t) \/ ShutdownExit(t)
  BY Zenon, <1>2, <1>3, <1>8 DEF SendIPI, inject_interrupt_to_vcpu, ShutdownExit, Goto
<1>9. CASE CheckSuspend(t) \/ WaitResume(t) \/ CheckStop(t)
  BY Zenon, <1>1, <1>2, <1>3, <1>9 DEF CheckSuspend, WaitResume, WaitFor, CheckStop
<1>10. CASE mark_vcpu_exiting(t)
  BY Zenon, <1>2, <1>3, <1>10 DEF mark_vcpu_exiting
<1>11. CASE SetStopped(t) \/ sub_running_vm_count(t) \/ WakeVmm(t)
  BY Zenon, <1>2, <1>11 DEF SetStopped, sub_running_vm_count, WakeVmm, Goto
<1> QED
  BY ZenonT(30), <1>4, <1>5, <1>6, <1>7, <1>8, <1>9, <1>10, <1>11 DEF vcpu_run

\* A step of a vCPU task keeps the types.
LEMMA TaskStepType == ASSUME TypeOK, NEW t \in Task, vcpu_run(t) PROVE TypeOK'
<1> USE SpawneeTask DEF TypeOK, ShellTypeOK
<1>1. ASSUME NEW why \in PanicCause, Panic(why) PROVE TypeOK'
  BY <1>1 DEF Panic, vmVars, queueVars, taskVars
<1>2. ASSUME NEW next \in TaskPc, WaitCall(t, next) PROVE TypeOK'
  <2>1. CASE entry[vmOf[t]] = NoTask
    BY <1>1, <1>2, <2>1 DEF WaitCall, PanicCause
  <2>2. CASE entry[vmOf[t]] # NoTask
    BY <1>2, <2>2 DEF WaitCall, vmVars, queueVars
  <2> QED BY <2>1, <2>2
<1>3. ASSUME NEW c \in BOOLEAN, NEW next \in TaskPc, WaitFor(t, c, next) PROVE TypeOK'
  <2> DEFINE e == IF home[t] = NoTask THEN entry[vmOf[t]] ELSE home[t]
  <2>1. e \in Entries
    OBVIOUS
  <2>2. CASE e = NoTask
    BY <1>1, <1>3, <2>2 DEF WaitFor, PanicCause
  <2>3. CASE e # NoTask
    BY ZenonT(40), <1>3, <2>1, <2>3 DEF WaitFor, vmVars, queueVars, Entries
  <2> QED BY <2>2, <2>3
<1>4. CASE Start(t)
  BY <1>1, <1>4 DEF Start, Goto, vmVars, queueVars, TaskPc, PanicCause
<1>5. CASE WaitRunning(t)
  BY ZenonT(30), <1>3, <1>5 DEF WaitRunning, running, TaskPc
<1>6. CASE mark_vcpu_running(t)
  BY <1>1, <1>6 DEF mark_vcpu_running, Goto, vmVars, TaskPc, PanicCause
<1>7. CASE ResumableExit(t)
  BY <1>7 DEF ResumableExit, Goto, vmVars, queueVars, TaskPc
<1>8. CASE Halt(t)
  BY <1>2, <1>8 DEF Halt, TaskPc
<1>9. CASE CpuDown(t)
  BY <1>2, <1>9 DEF CpuDown, TaskPc
<1>10. CASE WaitReturns(t)
  BY <1>10 DEF WaitReturns, vmVars, queueVars, TaskPc, Entries
<1>11. CASE CpuUp(t)
  <2>1. ASSUME NEW c \in Vcpu, vcpu_on(t, c) PROVE TypeOK'
    <3>1. CASE Panic("vcpuNotFree") \/ Panic("setEntry")
      BY Zenon, <1>1, <3>1 DEF PanicCause
    <3>2. CASE SpareTask # {} /\ Spawn(NewTask, vmOf[t], c)
               /\ pc' = [pc EXCEPT ![t] = "adding", ![NewTask] = "spawned"]
               /\ UNCHANGED <<vmVars, queueVars, home, asleep, runningVMs, sh, panic>>
      <4>1. NewTask \in Task
        BY Zenon, <3>2, NewTaskType
      <4> QED
        BY <3>2, <4>1 DEF Spawn, vmVars, queueVars, TaskPc
    <3> QED BY Zenon, <2>1, <3>1, <3>2 DEF vcpu_on
  <2> QED
    BY Zenon, <1>1, <1>11, <2>1 DEF CpuUp, PanicCause
<1>20. CASE AddVcpuTask(t)
  <2>1. CASE entry[vmOf[t]] = NoTask
    BY Zenon, <1>1, <1>20, <2>1 DEF AddVcpuTask, PanicCause
  <2>2. CASE entry[vmOf[t]] # NoTask
    <3>1. spawnee[t] \in Task
      BY Zenon, <1>20 DEF AddVcpuTask, SpawneeTypeOK, Entries
    <3> QED
      BY <1>20, <2>2, <3>1 DEF AddVcpuTask, Goto, add_vcpu_task, vmVars, TaskPc
  <2> QED BY Zenon, <2>1, <2>2
<1>21. CASE SendIPI(t)
  BY Zenon, <1>1, <1>21 DEF SendIPI, inject_interrupt_to_vcpu, PanicCause
<1>12. CASE ShutdownExit(t)
  BY <1>1, <1>12 DEF ShutdownExit, Goto, set_vm_status, queueVars, TaskPc, VMStatus, PanicCause
<1>13. CASE CheckSuspend(t)
  BY <1>13 DEF CheckSuspend, vmVars, queueVars, TaskPc
<1>14. CASE WaitResume(t)
  BY ZenonT(30), <1>3, <1>14 DEF WaitResume, suspending, TaskPc
<1>15. CASE CheckStop(t)
  BY <1>15 DEF CheckStop, vmVars, queueVars, TaskPc
<1>16. CASE mark_vcpu_exiting(t)
  BY <1>1, <1>16 DEF mark_vcpu_exiting, AfterExit, WasLast, vmVars, TaskPc, PanicCause
<1>17. CASE SetStopped(t)
  BY <1>17 DEF SetStopped, Goto, set_vm_status, queueVars, TaskPc, VMStatus
<1>18. CASE sub_running_vm_count(t)
  BY <1>18 DEF sub_running_vm_count, Goto, vmVars, queueVars, TaskPc
<1>19. CASE WakeVmm(t)
  <2>1. ShellTypeOK'
    BY SMTT(30), <1>19 DEF WakeVmm, wake, ShellState, ShPc
  <2> QED
    BY <1>19, <2>1 DEF WakeVmm, Goto, vmVars, queueVars, TaskPc
<1> QED
  BY ZenonT(30), <1>4, <1>5, <1>6, <1>7, <1>8, <1>9, <1>10, <1>11, <1>12, <1>13, <1>14,
     <1>15, <1>16, <1>17, <1>18, <1>19, <1>20, <1>21 DEF vcpu_run

\* The main thread spawns no task for a vCPU.
LEMMA SpawneeMain == ASSUME TypeOK, MainStep \/ TypeCommand PROVE SpawneeTypeOK'
<1>0. SpawneeTypeOK /\ pc \in [Task -> TaskPc]
  BY Zenon DEF TypeOK
<1>1. ASSUME spawnee' = spawnee, pc' = pc PROVE SpawneeTypeOK'
  BY Zenon, <1>0, <1>1, SpawneeSame
<1>2. CASE SetupSpawn
  <2>1. \A u \in Task : pc'[u] = "adding" => pc[u] = "adding"
    BY <1>0, <1>2, NewTaskType DEF SetupSpawn
  <2> QED
    BY Zenon, <1>0, <1>2, <2>1, SpawneeSame DEF SetupSpawn
<1>3. CASE InitNext \/ StartNext \/ VmmWait \/ start_single_vm \/ stop_vm_by_id
           \/ restart_vm_by_id \/ RestartPoll \/ suspend_vm_by_id \/ resume_vm_by_id
           \/ vm_delete \/ delete_vm_by_id \/ DeleteJoin \/ (\E c, first : Command(c, first))
  <2>1. OnlySh
    BY Zenon, <1>3 DEF InitNext, StartNext, VmmWait, start_single_vm, stop_vm_by_id,
       restart_vm_by_id, RestartPoll, suspend_vm_by_id, resume_vm_by_id, vm_delete,
       delete_vm_by_id, DeleteJoin, Command
  <2> QED
    BY Zenon, <1>1, <2>1 DEF OnlySh, taskVars
<1>4. CASE Boot \/ StopShutdown \/ SuspendSet \/ ResumeSet \/ DeleteStopping
           \/ DeleteShutdown \/ DeleteStopped
  <2>1. StatusAndSh
    BY Zenon, <1>4 DEF Boot, StopShutdown, SuspendSet, ResumeSet, DeleteStopping,
       DeleteShutdown, DeleteStopped
  <2> QED
    BY Zenon, <1>1, <2>1 DEF StatusAndSh, taskVars
<1>5. CASE SetupInsert \/ add_running_vm_count \/ remove_vm \/ cleanup_vm_vcpus \/ vm_create
  BY Zenon, <1>1, <1>5 DEF SetupInsert, add_running_vm_count, remove_vm, cleanup_vm_vcpus,
     vm_create, taskVars
<1>6. CASE notify_primary_vcpu \/ notify_all_vcpus
  BY Zenon, <1>1, <1>6 DEF notify_primary_vcpu, notify_all_vcpus, Panic, taskVars
<1> QED
  BY ZenonT(40), <1>2, <1>3, <1>4, <1>5, <1>6 DEF MainStep, TypeCommand, vm_start, vm_stop,
     vm_restart, vm_suspend, vm_resume

\* A step of the main thread keeps the types.
LEMMA MainStepType == ASSUME TypeOK, MainStep PROVE TypeOK'
<1> USE SpawneeMain DEF TypeOK, ShellTypeOK
<1>1. Finish \in ShellState /\ Finish.pc = "idle"
  <2>1. ASSUME NEW r \in BOOLEAN, NEW f \in BOOLEAN, NEW n \in 0 .. MaxPoll
        PROVE  LET end == [sh EXCEPT !.pc = "idle", !.restart = r, !.force = f,
                                     !.poll = n, !.task = NoTask, !.join = {}]
               IN  end \in ShellState /\ end.pc = "idle"
    BY ZenonT(30) DEF ShellState, ShPc, Entries
  <2>2. 0 \in 0 .. MaxPoll
    BY BoundsAssumption
  <2> QED
    BY <2>1, <2>2, Zenon DEF Finish
<1>2. CASE InitNext
  <2>1. ShellTypeOK'
    <3>1. CASE sh.todo = {}
      <4>1. sh' = [sh EXCEPT !.pc = "start", !.phase = "start", !.todo = listed]
        BY <1>2, <3>1, Zenon DEF InitNext
      <4> QED
        BY ZenonT(30), <4>1 DEF ShellState, ShPc
    <3>2. CASE sh.todo # {}
      <4>1. PICK v \in sh.todo : sh' = [sh EXCEPT !.pc = "setup", !.vm = v, !.todo = @ \ {v}]
        BY <1>2, <3>2, Zenon DEF InitNext
      <4> QED
        BY ZenonT(30), <4>1 DEF ShellState, ShPc
    <3> QED BY <3>1, <3>2
  <2> QED
    BY ZenonT(30), <2>1, <1>2 DEF InitNext, OnlySh, vmVars, queueVars, taskVars
<1>3. CASE StartNext
  <2>1. ShellTypeOK'
    <3>1. CASE sh.todo = {}
      BY <1>3, <3>1 DEF StartNext, ShellState, ShPc
    <3>2. CASE sh.todo # {}
      <4>1. PICK v \in sh.todo : sh' = [sh EXCEPT !.pc = "boot", !.vm = v, !.todo = @ \ {v}]
        BY <1>3, <3>2, Zenon DEF StartNext
      <4> QED
        BY ZenonT(30), <4>1 DEF ShellState, ShPc
    <3> QED BY <3>1, <3>2
  <2> QED
    BY ZenonT(30), <2>1, <1>3 DEF StartNext, OnlySh, vmVars, queueVars, taskVars
<1>4. CASE SetupSpawn
  <2>1. NewTask \in Task
    BY <1>4, NewTaskType DEF SetupSpawn
  <2>2. ShellTypeOK'
    BY ZenonT(30), <1>1, <2>1, <1>4 DEF SetupSpawn, ShellState, ShPc, Entries
  <2> QED
    BY <2>1, <2>2, <1>4, VcpuAssumption DEF SetupSpawn, Spawn, vmVars, queueVars, TaskPc, ShellState
<1>5. CASE SetupInsert
  <2>1. ShellTypeOK'
    BY ZenonT(30), <1>1, <1>5 DEF SetupInsert, ShellState, ShPc, Entries
  <2> QED
    BY <2>1, <1>5 DEF SetupInsert, vmVars, taskVars, ShellState
<1>6. CASE Boot
  <2>1. ShellTypeOK'
    BY <1>1, <1>6 DEF Boot, ShGoto, ShellState, ShPc, Entries
  <2> QED
    BY <2>1, <1>6 DEF Boot, set_vm_status, StatusAndSh, queueVars, taskVars, ShellState, VMStatus
<1>7. CASE notify_primary_vcpu
  <2>1. CASE entry[sh.vm] = NoTask
    BY <1>7, <2>1 DEF notify_primary_vcpu, Panic, vmVars, queueVars, taskVars, PanicCause
  <2>2. CASE entry[sh.vm] # NoTask
    <3>1. ShellTypeOK'
      BY <1>7, <2>2 DEF notify_primary_vcpu, ShGoto, ShellState, ShPc
    <3> QED
      BY <1>7, <2>2, <3>1 DEF notify_primary_vcpu, NotifyOne, Waiters, vmVars, queueVars
  <2> QED BY <2>1, <2>2
<1>8. CASE add_running_vm_count
  <2>1. ShellTypeOK'
    BY <1>1, <1>8 DEF add_running_vm_count, ShellState, ShPc, Entries
  <2> QED
    BY <2>1, <1>8 DEF add_running_vm_count, CountUp, vmVars, queueVars, taskVars
<1>9. CASE VmmWait
  <2>1. ShellTypeOK'
    BY ZenonT(30), <1>1, <1>9 DEF VmmWait, ShellState, ShPc, Entries
  <2> QED
    BY <2>1, <1>9 DEF VmmWait, OnlySh, vmVars, queueVars, taskVars
<1>10. CASE start_single_vm
  <2>1. ShellTypeOK'
    BY <1>1, <1>10 DEF start_single_vm, ShellState, ShPc, Entries
  <2> QED
    BY <2>1, <1>10 DEF start_single_vm, OnlySh, vmVars, queueVars, taskVars
<1>11. CASE stop_vm_by_id
  <2>1. ShellTypeOK'
    BY SMTT(30), <1>1, <1>11 DEF stop_vm_by_id, ShellState, ShPc, Entries
  <2> QED
    BY <2>1, <1>11 DEF stop_vm_by_id, OnlySh, vmVars, queueVars, taskVars
<1>12. CASE StopShutdown
  <2>1. ShellTypeOK'
    BY Zenon, <1>1, <1>12 DEF StopShutdown, ShellState, ShPc, Entries
  <2> QED
    BY <2>1, <1>12 DEF StopShutdown, set_vm_status, StatusAndSh, queueVars, taskVars, ShellState, VMStatus
<1>13. CASE restart_vm_by_id
  <2>1. ShellTypeOK'
    BY Zenon, <1>1, <1>13 DEF restart_vm_by_id, ShellState, ShPc, Entries
  <2> QED
    BY <2>1, <1>13 DEF restart_vm_by_id, OnlySh, vmVars, queueVars, taskVars
<1>14. CASE RestartPoll
  <2>1. ShellTypeOK'
    BY SMTT(30), <1>1, BoundsAssumption, <1>14 DEF RestartPoll, PollAgain, ShellState, ShPc, Entries
  <2> QED
    BY <2>1, <1>14 DEF RestartPoll, OnlySh, vmVars, queueVars, taskVars
<1>15. CASE suspend_vm_by_id
  <2>1. ShellTypeOK'
    BY <1>1, <1>15 DEF suspend_vm_by_id, ShellState, ShPc, Entries
  <2> QED
    BY <2>1, <1>15 DEF suspend_vm_by_id, OnlySh, vmVars, queueVars, taskVars
<1>16. CASE SuspendSet
  <2>1. ShellTypeOK'
    BY <1>1, <1>16 DEF SuspendSet, ShellState, ShPc, Entries
  <2> QED
    BY <2>1, <1>16 DEF SuspendSet, set_vm_status, StatusAndSh, queueVars, taskVars, ShellState, VMStatus
<1>17. CASE resume_vm_by_id
  <2>1. ShellTypeOK'
    BY <1>1, <1>17 DEF resume_vm_by_id, ShellState, ShPc, Entries
  <2> QED
    BY <2>1, <1>17 DEF resume_vm_by_id, OnlySh, vmVars, queueVars, taskVars
<1>18. CASE ResumeSet
  <2>1. ShellTypeOK'
    BY <1>1, <1>18 DEF ResumeSet, ShGoto, ShellState, ShPc, Entries
  <2> QED
    BY <2>1, <1>18 DEF ResumeSet, set_vm_status, StatusAndSh, queueVars, taskVars, ShellState, VMStatus
<1>19. CASE notify_all_vcpus
  <2>1. ShellTypeOK'
    BY <1>1, <1>19 DEF notify_all_vcpus, ShellState, ShPc, Entries
  <2> QED
    BY <2>1, <1>19 DEF notify_all_vcpus, NotifyAll, Waiters, vmVars, queueVars
<1>20. CASE vm_delete
  <2>1. ShellTypeOK'
    BY Zenon, <1>1, <1>20 DEF vm_delete, ShellState, ShPc, Entries
  <2> QED
    BY <2>1, <1>20 DEF vm_delete, OnlySh, vmVars, queueVars, taskVars
<1>21. CASE delete_vm_by_id
  <2>1. ShellTypeOK'
    BY SMTT(30), <1>1, <1>21 DEF delete_vm_by_id, DeleteBranch, ShellState, ShPc, Entries
  <2> QED
    BY <2>1, <1>21 DEF delete_vm_by_id, OnlySh, vmVars, queueVars, taskVars
<1>22. CASE DeleteStopping
  <2>1. ShellTypeOK'
    BY <1>1, <1>22 DEF DeleteStopping, ShGoto, ShellState, ShPc, Entries
  <2> QED
    BY <2>1, <1>22 DEF DeleteStopping, set_vm_status, StatusAndSh, queueVars, taskVars, ShellState, VMStatus
<1>23. CASE DeleteShutdown
  <2>1. ShellTypeOK'
    BY Zenon, <1>1, <1>23 DEF DeleteShutdown, ShGoto, ShellState, ShPc, Entries
  <2> QED
    BY <2>1, <1>23 DEF DeleteShutdown, set_vm_status, StatusAndSh, queueVars, taskVars, ShellState, VMStatus
<1>24. CASE DeleteStopped
  <2>1. ShellTypeOK'
    BY <1>1, <1>24 DEF DeleteStopped, ShGoto, ShellState, ShPc, Entries
  <2> QED
    BY <2>1, <1>24 DEF DeleteStopped, set_vm_status, StatusAndSh, queueVars, taskVars, ShellState, VMStatus
<1>25. CASE remove_vm
  <2>1. ShellTypeOK'
    BY Zenon, <1>1, <1>25 DEF remove_vm, ShGoto, ShellState, ShPc, Entries
  <2> QED
    BY <2>1, <1>25 DEF remove_vm, queueVars, taskVars
<1>26. CASE cleanup_vm_vcpus
  <2>1. ShellTypeOK'
    BY ZenonT(30), <1>1, <1>26 DEF cleanup_vm_vcpus, ShellState, ShPc, Entries
  <2> QED
    BY <2>1, <1>26 DEF cleanup_vm_vcpus, vmVars, taskVars, Entries, ShellState
<1>27. CASE DeleteJoin
  <2>1. ShellTypeOK'
    BY <1>1, <1>27 DEF DeleteJoin, ShellState, ShPc, Entries
  <2> QED
    BY <2>1, <1>27 DEF DeleteJoin, OnlySh, vmVars, queueVars, taskVars
<1> QED
  BY ZenonT(30), <1>2, <1>3, <1>4, <1>5, <1>6, <1>7, <1>8, <1>9, <1>10, <1>11, <1>12, 
     <1>13, <1>14, <1>15, <1>16, <1>17, <1>18, <1>19, <1>20, <1>21, <1>22, <1>23, 
     <1>24, <1>25, <1>26, <1>27 DEF MainStep

\* Typing a command keeps the types.
LEMMA TypeCommandType == ASSUME TypeOK, TypeCommand PROVE TypeOK'
<1> USE SpawneeMain DEF TypeOK, ShellTypeOK
<1>1. ASSUME NEW c, NEW first \in ShPc \ {"insert"}, Command(c, first) PROVE TypeOK'
  <2>1. PICK v \in listed, f \in ForceFlags :
          sh' = [sh EXCEPT !.pc = first, !.vm = v, !.restart = (c = "restart"),
                           !.force = f, !.commands = @ + 1]
    BY <1>1, Zenon DEF Command
  <2>2. PICK r \in BOOLEAN : r = (c = "restart")
    BY Zenon
  <2>3. PICK n \in 0 .. MaxCommands : n = sh.commands + 1
    BY <1>1, BoundsAssumption DEF Command, ShellState
  <2>4. sh' = [sh EXCEPT !.pc = first, !.vm = v, !.restart = r, !.force = f, !.commands = n]
    BY <2>1, <2>2, <2>3, Zenon
  <2>5. sh' \in ShellState /\ sh'.pc # "insert"
    BY ZenonT(30), <2>4, CommandsAssumption DEF ShellState
  <2> QED
    BY <1>1, <2>5 DEF Command, OnlySh, vmVars, queueVars, taskVars
<1>2. CASE vm_create
  <2>1. ShellTypeOK'
    BY <1>2, BoundsAssumption DEF vm_create, ShellState
  <2> QED
    BY <1>2, <2>1 DEF vm_create, set_vm_status, queueVars, taskVars, VMStatus
<1> QED
  BY <1>1, <1>2 DEF TypeCommand, vm_start, vm_stop, vm_restart, vm_suspend, vm_resume,
                   ShPc

\* The shared state of the VMM keeps its types, whatever the numbers of VMs,
\* vCPUs and tasks and whatever the guests and the operator do.  In particular
\* vm restart polls at most MaxPoll times.
THEOREM TypeCorrect == Spec => []TypeOK
<1>1. Init => TypeOK
  BY InitType
<1>2. TypeOK /\ [Next]_vars => TypeOK'
  <2> SUFFICES ASSUME TypeOK, [Next]_vars PROVE TypeOK'
    OBVIOUS
  <2>1. CASE Next
    BY <2>1, MainStepType, TypeCommandType, TaskStepType DEF Next
  <2>2. CASE UNCHANGED vars
    BY <2>2 DEF TypeOK, ShellTypeOK, SpawneeTypeOK, vars
  <2> QED BY <2>1, <2>2
<1> QED
  BY <1>1, <1>2, PTL DEF Spec

-----------------------------------------------------------------------------
(* What a step of the main thread changes.                                 *)

\* Only the state of the main thread itself changes.
MainOnly ==
    UNCHANGED <<status, listed, entry, taskList, count, runningVMs, vmOf,
                spawnee, pc, home, asleep, panic>>

\* The main thread stays in its loop and with its VM; the flags of the command
\* are kept or cleared.
SameVm ==
    /\ sh'.phase = sh.phase /\ sh'.vm = sh.vm /\ sh'.todo = sh.todo
    /\ (sh'.restart => sh.restart) /\ (sh'.force => sh.force)

InitEnds ==
    /\ sh.pc = "init" /\ sh.todo = {}
    /\ sh'.pc = "start" /\ sh'.phase = "start" /\ sh'.todo = listed
    /\ sh'.vm = sh.vm /\ sh'.restart = sh.restart /\ sh'.force = sh.force
    /\ MainOnly

\* The loop of vmm::init or of vmm::start takes its next VM.
Takes(from, to) ==
    /\ sh.pc = from /\ sh'.pc = to
    /\ sh'.vm \in sh.todo /\ sh'.todo = sh.todo \ {sh'.vm}
    /\ sh'.phase = sh.phase /\ sh'.restart = sh.restart /\ sh'.force = sh.force
    /\ MainOnly

StartEnds ==
    /\ sh.pc = "start" /\ sh.todo = {} /\ sh'.pc = "vmmWait"
    /\ SameVm /\ MainOnly

Spawns ==
    /\ sh.pc = "setup" /\ sh'.pc = "insert" /\ SameVm
    /\ sh'.task \in Task /\ pc[sh'.task] = "unused"
    /\ \A u \in Task : /\ pc'[u] = IF u = sh'.task THEN "spawned" ELSE pc[u]
                       /\ vmOf'[u] = IF u = sh'.task THEN sh.vm ELSE vmOf[u]
    /\ UNCHANGED <<status, listed, entry, taskList, count, runningVMs, spawnee,
                   home, asleep, panic>>

Inserts ==
    /\ sh.pc = "insert" /\ SameVm
    /\ sh'.pc = IF sh.phase = "init" THEN "init" ELSE "boot"
    /\ \A v \in VM : /\ entry'[v] = IF v = sh.vm THEN sh.task ELSE entry[v]
                     /\ taskList'[v] = IF v = sh.vm THEN {sh.task} ELSE taskList[v]
                     /\ count'[v] = IF v = sh.vm THEN 0 ELSE count[v]
    /\ UNCHANGED <<status, listed, runningVMs, vmOf, spawnee, pc, home, asleep,
                   panic>>

\* The main thread sets the status of its VM to s.
Sets(s) ==
    /\ SameVm
    /\ \A v \in VM : status'[v] = IF v = sh.vm THEN s ELSE status[v]
    /\ UNCHANGED <<listed, entry, taskList, count, runningVMs, vmOf, spawnee,
                   pc, home, asleep, panic>>

Boots == sh.pc = "boot" /\ sh'.pc = "notify" /\ Sets("Running")

Notifies ==
    /\ sh.pc = "notify" /\ sh'.pc = "add" /\ SameVm
    /\ entry[sh.vm] # NoTask
    /\ \/ Waiters(sh.vm) = {} /\ asleep' = asleep
       \/ \E w \in Waiters(sh.vm) : asleep' = asleep \ {w}
    /\ UNCHANGED <<status, listed, entry, taskList, count, runningVMs, vmOf,
                   spawnee, pc, home, panic>>

Adds ==
    /\ sh.pc = "add" /\ SameVm
    /\ sh'.pc = IF sh.phase = "start" THEN "start" ELSE "idle"
    /\ runningVMs' = runningVMs + 1
    /\ UNCHANGED <<status, listed, entry, taskList, count, vmOf, spawnee, pc,
                   home, asleep, panic>>

Waits ==
    /\ sh.pc = "vmmWait" /\ MainOnly
    /\ sh'.vm = sh.vm /\ sh'.todo = sh.todo
    /\ sh'.restart = sh.restart /\ sh'.force = sh.force
    /\ \/ runningVMs = 0 /\ sh'.pc = "idle" /\ sh'.phase = "shell"
       \/ sh'.pc = "vmmAsleep" /\ sh'.phase = sh.phase

\* A command looks at the status of its VM and goes on, or ends.
CheckPc == {"startCheck", "stopCheck", "restartCheck", "restartPoll",
            "suspendCheck", "resumeCheck", "deleteCheck", "deleteJoin"}

Decides ==
    /\ SameVm /\ MainOnly
    /\ \/ sh.pc \in CheckPc /\ sh'.pc = "idle"
       \/ sh.pc = "startCheck" /\ sh'.pc = "setup" /\ can_start_vm(status[sh.vm])
       \/ sh.pc = "stopCheck" /\ sh'.pc = "shutdown" /\ can_stop_vm(status[sh.vm], sh.force)
       \/ sh.pc = "stopCheck" /\ sh'.pc = "restartPoll" /\ sh.restart
       \/ sh.pc = "restartCheck" /\ sh'.pc \in {"startCheck", "stopCheck"}
       \/ sh.pc = "restartPoll" /\ sh'.pc \in {"startCheck", "restartPoll"}
       \/ sh.pc = "suspendCheck" /\ sh'.pc = "suspendSet" /\ status[sh.vm] = "Running"
       \/ sh.pc = "resumeCheck" /\ sh'.pc = "resumeSet" /\ status[sh.vm] = "Suspended"
       \/ sh.pc = "deleteCheck" /\ sh'.pc = "deleteRead"
       \/ sh.pc = "deleteRead" /\ sh'.pc \in {"deleteStopping", "deleteRemove"}
       \/ sh.pc = "deleteRead" /\ sh'.pc = "deleteStopped" /\ status[sh.vm] = "Loaded"

ShutsDown ==
    /\ sh.pc = "shutdown" /\ Sets("Stopping")
    /\ \/ sh'.pc = "restartPoll" /\ sh.restart
       \/ sh'.pc = "idle"

Suspends == sh.pc = "suspendSet" /\ sh'.pc = "idle" /\ Sets("Suspended")
Resumes == sh.pc = "resumeSet" /\ sh'.pc = "resumeNotify" /\ Sets("Running")

DeleteSets ==
    \/ sh.pc = "deleteStopping" /\ sh'.pc = "deleteShutdown" /\ Sets("Stopping")
    \/ sh.pc = "deleteShutdown" /\ sh'.pc = "deleteRemove" /\ Sets("Stopping")
    \/ sh.pc = "deleteStopped" /\ sh'.pc = "deleteRemove" /\ Sets("Stopped")

NotifiesAll ==
    /\ sh.pc = "resumeNotify" /\ sh'.pc = "idle" /\ SameVm
    /\ asleep' \subseteq asleep
    /\ UNCHANGED <<status, listed, entry, taskList, count, runningVMs, vmOf,
                   spawnee, pc, home, panic>>

Removes ==
    /\ sh.pc = "deleteRemove" /\ sh'.pc = "deleteCleanup" /\ SameVm
    /\ listed' = listed \ {sh.vm}
    /\ UNCHANGED <<status, entry, taskList, count, runningVMs, vmOf, spawnee,
                   pc, home, asleep, panic>>

CleansUp ==
    /\ sh.pc = "deleteCleanup" /\ sh'.pc = "deleteJoin" /\ SameVm
    /\ \A v \in VM : /\ entry'[v] = IF v = sh.vm THEN NoTask ELSE entry[v]
                     /\ taskList'[v] = IF v = sh.vm THEN {} ELSE taskList[v]
                     /\ count'[v] = IF v = sh.vm THEN 0 ELSE count[v]
    /\ UNCHANGED <<status, listed, runningVMs, vmOf, spawnee, pc, home, asleep,
                   panic>>

NotifyPanics ==
    /\ sh.pc = "notify" /\ entry[sh.vm] = NoTask /\ panic' = "noEntry"
    /\ UNCHANGED <<status, listed, entry, taskList, count, runningVMs, vmOf,
                   spawnee, pc, home, asleep, sh>>

\* The operator types command c, whose first step is `first'.
Types(c, first) ==
    /\ c \in Commands
    /\ sh.pc = "idle" /\ sh'.pc = first
    /\ sh'.vm \in listed /\ sh'.phase = sh.phase /\ sh'.todo = sh.todo
    /\ (sh'.restart => c = "restart") /\ sh'.force \in ForceFlags
    /\ MainOnly

Creates ==
    /\ sh.pc = "idle" /\ sh'.pc = "idle" /\ SameVm
    /\ \E w \in VM \ listed :
         /\ status[w] = "Loading" /\ listed' = listed \cup {w}
         /\ \A v \in VM : status'[v] = IF v = w THEN "Loaded" ELSE status[v]
    /\ UNCHANGED <<entry, taskList, count, runningVMs, vmOf, spawnee, pc, home,
                   asleep, panic>>

\* What a step of the main thread changes.
LEMMA MainView ==
  ASSUME TypeOK, MainStep
  PROVE  \/ InitEnds \/ Takes("init", "setup") \/ Takes("start", "boot") \/ StartEnds
         \/ Spawns \/ Inserts \/ Boots \/ Notifies \/ NotifyPanics \/ Adds \/ Waits
         \/ Decides \/ ShutsDown \/ Suspends \/ Resumes \/ NotifiesAll
         \/ DeleteSets \/ Removes \/ CleansUp
<1> USE DEF TypeOK, ShellTypeOK
<1>0. OnlySh => MainOnly
  BY Zenon DEF OnlySh, MainOnly, vmVars, queueVars, taskVars
<1>1. ASSUME sh' = Finish PROVE sh'.pc = "idle" /\ SameVm
  BY <1>1 DEF Finish, ShellState, SameVm
<1>2. ASSUME NEW q, sh' = [sh EXCEPT !.pc = q] PROVE sh'.pc = q /\ SameVm
  BY <1>2 DEF ShellState, SameVm
<1>3. ASSUME NEW s, set_vm_status(sh.vm, s), StatusAndSh, SameVm PROVE Sets(s)
  BY <1>3 DEF set_vm_status, StatusAndSh, Sets, queueVars, taskVars, ShellState
<1>4. CASE InitNext
  <2>1. CASE sh.todo = {}
    <3>1. sh.pc = "init" /\ sh' = [sh EXCEPT !.pc = "start", !.phase = "start", !.todo = listed]
      BY <1>4, <2>1, ZenonT(40) DEF InitNext
    <3> QED
      BY <1>0, <1>4, <2>1, <3>1 DEF InitNext, InitEnds, ShellState
  <2>2. CASE sh.todo # {}
    <3>1. PICK v \in sh.todo : sh' = [sh EXCEPT !.pc = "setup", !.vm = v, !.todo = @ \ {v}]
      BY <1>4, <2>2, Zenon DEF InitNext
    <3> QED
      BY Zenon, <1>0, <1>4, <3>1 DEF InitNext, Takes, ShellState
  <2> QED BY <2>1, <2>2
<1>5. CASE StartNext
  <2>1. CASE sh.todo = {}
    BY ZenonT(40), <1>0, <1>2, <1>5, <2>1 DEF StartNext, StartEnds
  <2>2. CASE sh.todo # {}
    <3>1. PICK v \in sh.todo : sh' = [sh EXCEPT !.pc = "boot", !.vm = v, !.todo = @ \ {v}]
      BY <1>5, <2>2, Zenon DEF StartNext
    <3> QED
      BY Zenon, <1>0, <1>5, <3>1 DEF StartNext, Takes, ShellState
  <2> QED BY <2>1, <2>2
<1>6. CASE SetupSpawn
  <2>1. PICK n \in Task : n = NewTask /\ pc[n] = "unused"
    BY <1>6, NewTaskType DEF SetupSpawn
  <2>2. sh.pc = "setup" /\ sh'.pc = "insert" /\ sh'.task = n /\ SameVm
    BY <1>6, <2>1 DEF SetupSpawn, SameVm, ShellState
  <2>3. \A u \in Task : /\ pc'[u] = IF u = n THEN "spawned" ELSE pc[u]
                        /\ vmOf'[u] = IF u = n THEN sh.vm ELSE vmOf[u]
    BY <1>6, <2>1 DEF SetupSpawn, Spawn
  <2>4. Spawns
    BY <1>6, <2>1, <2>2, <2>3 DEF SetupSpawn, Spawns, vmVars, queueVars
  <2> QED BY <2>4
<1>7. CASE SetupInsert
  <2>1. /\ sh.pc = "insert" /\ SameVm
        /\ sh'.pc = IF sh.phase = "init" THEN "init" ELSE "boot"
    BY <1>7 DEF SetupInsert, SameVm, ShellState
  <2>2. Inserts
    BY <1>7, <2>1 DEF SetupInsert, Inserts, vmVars, taskVars, ShellState
  <2> QED BY <2>2
<1>8. CASE Boot
  BY Zenon, <1>2, <1>3, <1>8 DEF Boot, ShGoto, Boots
<1>9. CASE notify_primary_vcpu
  <2>1. CASE entry[sh.vm] = NoTask
    BY <1>9, <2>1 DEF notify_primary_vcpu, Panic, NotifyPanics, vmVars, queueVars, taskVars
  <2>2. CASE entry[sh.vm] # NoTask
    <3>1. sh.pc = "notify" /\ sh'.pc = "add" /\ SameVm
      BY Zenon, <1>2, <1>9, <2>2 DEF notify_primary_vcpu, ShGoto
    <3>2. \/ Waiters(sh.vm) = {} /\ asleep' = asleep
          \/ \E w \in Waiters(sh.vm) : asleep' = asleep \ {w}
      BY <1>9, <2>2, Zenon DEF notify_primary_vcpu, NotifyOne
    <3>3. Notifies
      BY <1>9, <2>2, <3>1, <3>2, Zenon DEF notify_primary_vcpu, Notifies, vmVars, queueVars
    <3> QED BY <3>3
  <2> QED BY <2>1, <2>2
<1>10. CASE add_running_vm_count
  <2>1. sh.pc = "add" /\ SameVm /\ sh'.pc = IF sh.phase = "start" THEN "start" ELSE "idle"
    BY Zenon, <1>1, <1>2, <1>10 DEF add_running_vm_count
  <2> QED
    BY <1>10, <2>1 DEF add_running_vm_count, CountUp, Adds, vmVars, queueVars, taskVars
<1>11. CASE VmmWait
  BY <1>0, <1>11 DEF VmmWait, AllStopped, Waits, ShellState
<1>12. CASE start_single_vm
  BY Zenon, <1>0, <1>1, <1>2, <1>12 DEF start_single_vm, Decides, CheckPc
<1>13. CASE stop_vm_by_id
  BY Zenon, <1>0, <1>1, <1>2, <1>13 DEF stop_vm_by_id, Decides, CheckPc
<1>14. CASE StopShutdown
  <2>1. Sets("Stopping")
    <3>1. SameVm
      BY Zenon, <1>1, <1>2, <1>14 DEF StopShutdown
    <3>2. status' = [status EXCEPT ![sh.vm] = "Stopping"]
      BY <1>14 DEF StopShutdown, stopping, set_vm_status, ShellState
    <3> QED
      BY Zenon, <1>3, <1>14, <3>1, <3>2 DEF StopShutdown, set_vm_status
  <2> QED
    BY <1>1, <1>2, <1>14, <2>1 DEF StopShutdown, ShutsDown
<1>15. CASE restart_vm_by_id
  BY Zenon, <1>0, <1>1, <1>2, <1>15 DEF restart_vm_by_id, Decides, CheckPc
<1>16. CASE RestartPoll
  <2>1. ASSUME sh' = [sh EXCEPT !.poll = @ + 1] PROVE sh'.pc = sh.pc /\ SameVm
    BY <2>1 DEF SameVm, ShellState
  <2> QED
    BY Zenon, <1>0, <1>1, <1>2, <1>16, <2>1 DEF RestartPoll, Decides, CheckPc
<1>17. CASE suspend_vm_by_id
  BY Zenon, <1>0, <1>1, <1>2, <1>17 DEF suspend_vm_by_id, can_suspend_vm, Decides, CheckPc
<1>18. CASE SuspendSet
  BY <1>1, <1>3, <1>18 DEF SuspendSet, Suspends
<1>19. CASE resume_vm_by_id
  BY Zenon, <1>0, <1>1, <1>2, <1>19 DEF resume_vm_by_id, can_resume_vm, Decides, CheckPc
<1>20. CASE ResumeSet
  BY Zenon, <1>2, <1>3, <1>20 DEF ResumeSet, ShGoto, Resumes
<1>21. CASE notify_all_vcpus
  BY <1>1, <1>21 DEF notify_all_vcpus, NotifyAll, NotifiesAll, vmVars, queueVars
<1>22. CASE vm_delete
  BY ZenonT(40), <1>0, <1>1, <1>2, <1>22 DEF vm_delete, Decides, CheckPc
<1>23. CASE delete_vm_by_id
  BY Zenon, <1>0, <1>2, <1>23 DEF delete_vm_by_id, DeleteBranch, Decides
<1>24. CASE DeleteStopping
  BY Zenon, <1>2, <1>3, <1>24 DEF DeleteStopping, ShGoto, DeleteSets
<1>25. CASE DeleteShutdown
  <2>1. Sets("Stopping")
    <3>1. SameVm
      BY Zenon, <1>2, <1>25 DEF DeleteShutdown, ShGoto
    <3>2. status' = [status EXCEPT ![sh.vm] = "Stopping"]
      BY <1>25 DEF DeleteShutdown, stopping, set_vm_status, ShellState
    <3> QED
      BY Zenon, <1>3, <1>25, <3>1, <3>2 DEF DeleteShutdown, set_vm_status
  <2> QED
    BY <1>2, <1>25, <2>1 DEF DeleteShutdown, ShGoto, DeleteSets
<1>26. CASE DeleteStopped
  BY Zenon, <1>2, <1>3, <1>26 DEF DeleteStopped, ShGoto, DeleteSets
<1>27. CASE remove_vm
  BY Zenon, <1>2, <1>27 DEF remove_vm, ShGoto, Removes, queueVars, taskVars
<1>28. CASE cleanup_vm_vcpus
  <2>1. sh.pc = "deleteCleanup" /\ sh'.pc = "deleteJoin" /\ SameVm
    BY <1>28 DEF cleanup_vm_vcpus, SameVm, ShellState
  <2> QED
    BY <1>28, <2>1 DEF cleanup_vm_vcpus, CleansUp, vmVars, taskVars, ShellState
<1>29. CASE DeleteJoin
  BY <1>0, <1>1, <1>29 DEF DeleteJoin, Decides, CheckPc
<1> QED
  BY <1>4, <1>5, <1>6, <1>7, <1>8, <1>9, <1>10, <1>11, <1>12, <1>13, <1>14, <1>15,
     <1>16, <1>17, <1>18, <1>19, <1>20, <1>21, <1>22, <1>23, <1>24, <1>25, <1>26,
     <1>27, <1>28, <1>29, ZenonT(30) DEF MainStep

\* What typing a command changes.
LEMMA CommandView ==
  ASSUME TypeOK, TypeCommand
  PROVE  \/ Creates \/ Types("start", "startCheck") \/ Types("stop", "stopCheck")
         \/ Types("restart", "restartCheck") \/ Types("suspend", "suspendCheck")
         \/ Types("resume", "resumeCheck") \/ Types("delete", "deleteCheck")
<1> USE DEF TypeOK, ShellTypeOK
<1>1. ASSUME NEW c, NEW first, Command(c, first) PROVE Types(c, first)
  <2>1. PICK v \in listed, f \in ForceFlags :
          sh' = [sh EXCEPT !.pc = first, !.vm = v, !.restart = (c = "restart"),
                           !.force = f, !.commands = @ + 1]
    BY <1>1, Zenon DEF Command
  <2>2. /\ sh'.pc = first /\ sh'.vm = v /\ sh'.restart = (c = "restart")
        /\ sh'.force = f /\ sh'.phase = sh.phase /\ sh'.todo = sh.todo
    BY <2>1 DEF ShellState
  <2> QED
    BY <1>1, <2>2, Zenon DEF Command, Types, OnlySh, MainOnly, vmVars, queueVars, taskVars
<1>2. CASE vm_create
  <2>1. PICK w \in VM \ listed : /\ status[w] = "Loading" /\ listed' = listed \cup {w}
                                 /\ status' = [status EXCEPT ![w] = "Loaded"]
    BY <1>2, Zenon DEF vm_create, set_vm_status
  <2>2. sh.pc = "idle" /\ sh'.pc = "idle" /\ SameVm
    BY <1>2 DEF vm_create, SameVm, ShellState
  <2>3. \A v \in VM : status'[v] = IF v = w THEN "Loaded" ELSE status[v]
    BY <2>1
  <2> QED
    BY <1>2, <2>1, <2>2, <2>3, Zenon DEF vm_create, Creates, queueVars, taskVars
<1> QED
  BY <1>1, <1>2, Zenon DEF TypeCommand, vm_start, vm_stop, vm_restart, vm_suspend, vm_resume

-----------------------------------------------------------------------------
(* What a step of a vCPU task changes.                                     *)

\* An exit of the guest that the VMM cannot serve.
GuestPanic(why) ==
    \/ why = "shutdownFailed" /\ GuestExits \cap {"SystemDown", "Err"} # {}
    \/ why \in {"noSuchCpu", "vcpuNotFree", "setEntry"} /\ "CpuUp" \in GuestExits
    \/ why \in {"ipiToAll", "ipiToVcpu"} /\ "SendIPI" \in GuestExits

\* The task panics: it is started after its VM was dropped, looks up an entry
\* that is not there, or cannot serve an exit of the guest.
TaskPanics(t) ==
    /\ \/ panic' = "vmDropped" /\ pc[t] = "spawned" /\ vmOf[t] \notin listed
       \/ /\ panic' = "noEntry" /\ entry[vmOf[t]] = NoTask
          /\ pc[t] \in CountedPc \cup {"waitRunning", "marking"}
       \/ GuestPanic(panic')
    /\ UNCHANGED <<status, listed, entry, taskList, count, runningVMs, vmOf,
                   spawnee, pc, home, asleep, sh>>

\* The task goes to q and nothing but its own queue state changes with it.
Goes(t, q) ==
    /\ \A u \in Task : /\ pc'[u] = IF u = t THEN q ELSE pc[u]
                       /\ u # t => home'[u] = home[u]
    /\ UNCHANGED <<status, listed, entry, taskList, count, runningVMs, vmOf,
                   spawnee, sh, panic>>

Starts(t) ==
    /\ pc[t] = "spawned" /\ (RemoteVcpu \/ sh.pc # "insert")
    /\ Goes(t, "waitRunning") /\ UNCHANGED <<home, asleep>>

\* The condition of a wait_for holds, so the task goes on.
Proceeds(t) ==
    /\ \/ pc[t] = "waitRunning" /\ status[vmOf[t]] = "Running" /\ Goes(t, "marking")
       \/ pc[t] = "waitResume" /\ status[vmOf[t]] # "Suspended" /\ Goes(t, "guest")
    /\ t \notin asleep /\ home'[t] = NoTask /\ asleep' = asleep

\* It does not, so the task blocks in the queue of its entry.
Blocks(t) ==
    /\ \/ pc[t] = "waitRunning" /\ status[vmOf[t]] # "Running"
       \/ pc[t] = "waitResume" /\ status[vmOf[t]] = "Suspended"
    /\ Goes(t, pc[t])
    /\ home'[t] # NoTask
    /\ home'[t] = IF home[t] = NoTask THEN entry[vmOf[t]] ELSE home[t]
    /\ asleep' = asleep \cup {t}

\* The guest halts, or powers its vCPU down.
Halts(t) ==
    /\ GuestExits \cap {"Halt", "CpuDown"} # {}
    /\ pc[t] = "guest" /\ (Goes(t, "halted") \/ Goes(t, "down"))

\* The task goes on inside its loop.
Loops(t) ==
    /\ \/ pc[t] = "guest" /\ Goes(t, "checkSuspend") /\ home' = home
       \/ pc[t] \in {"halted", "down"} /\ Goes(t, "checkSuspend") /\ home'[t] = NoTask
       \/ pc[t] = "checkSuspend" /\ Goes(t, "waitResume") /\ home' = home
       \/ pc[t] = "checkSuspend" /\ Goes(t, "checkStop") /\ home' = home
       \/ pc[t] = "checkStop" /\ Goes(t, "guest") /\ home' = home
       \/ /\ pc[t] = "checkStop" /\ status[vmOf[t]] = "Stopping"
          /\ Goes(t, "exiting") /\ home' = home
    /\ asleep' = asleep

Marks(t) ==
    /\ pc[t] = "marking" /\ entry[vmOf[t]] # NoTask
    /\ \A u \in Task : pc'[u] = IF u = t THEN "guest" ELSE pc[u]
    /\ \A v \in VM : count'[v] = IF v = vmOf[t] THEN count[v] + 1 ELSE count[v]
    /\ UNCHANGED <<status, listed, entry, taskList, runningVMs, vmOf, spawnee,
                   home, asleep, sh, panic>>

\* The guest powers on another vCPU: t has spawned its task n ...
PowersOn(t, n) ==
    /\ "CpuUp" \in GuestExits
    /\ pc[t] = "guest" /\ pc[n] = "unused"
    /\ \A u \in Task : /\ pc'[u] = IF u = n THEN "spawned"
                                   ELSE IF u = t THEN "adding" ELSE pc[u]
                       /\ vmOf'[u] = IF u = n THEN vmOf[t] ELSE vmOf[u]
                       /\ spawnee'[u] = IF u = t THEN n ELSE spawnee[u]
    /\ UNCHANGED <<status, listed, entry, taskList, count, runningVMs, home,
                   asleep, sh, panic>>

\* ... and puts it on the list of the VM.
AddsTask(t) ==
    /\ pc[t] = "adding" /\ entry[vmOf[t]] # NoTask
    /\ \A u \in Task : /\ pc'[u] = IF u = t THEN "checkSuspend" ELSE pc[u]
                       /\ spawnee'[u] = IF u = t THEN NoTask ELSE spawnee[u]
    /\ \A v \in VM : taskList'[v] = IF v = vmOf[t] THEN taskList[v] \cup {spawnee[t]}
                                                   ELSE taskList[v]
    /\ UNCHANGED <<status, listed, entry, count, runningVMs, vmOf, home, asleep,
                   sh, panic>>

\* The task sets the status of its VM to s and goes to q.
SetsStatus(t, s, q) ==
    /\ \A u \in Task : pc'[u] = IF u = t THEN q ELSE pc[u]
    /\ \A v \in VM : status'[v] = IF v = vmOf[t] THEN s ELSE status[v]
    /\ UNCHANGED <<listed, entry, taskList, count, runningVMs, vmOf, spawnee,
                   home, asleep, sh, panic>>

GuestShutsDown(t) ==
    /\ GuestExits \cap {"SystemDown", "Err"} # {}
    /\ pc[t] = "guest" /\ SetsStatus(t, "Stopping", "checkSuspend")

Exits(t) ==
    /\ pc[t] = "exiting" /\ entry[vmOf[t]] # NoTask
    /\ \A u \in Task :
         pc'[u] = IF u # t THEN pc[u]
                  ELSE IF count[vmOf[t]] = 1 THEN "lastExit" ELSE "done"
    /\ \A v \in VM : count'[v] = IF v = vmOf[t] THEN count[v] - 1 ELSE count[v]
    /\ UNCHANGED <<status, listed, entry, taskList, runningVMs, vmOf, spawnee,
                   home, asleep, sh, panic>>

DeclaresStopped(t) == pc[t] = "lastExit" /\ SetsStatus(t, "Stopped", "subCount")

Subtracts(t) ==
    /\ pc[t] = "subCount"
    /\ \A u \in Task : pc'[u] = IF u = t THEN "wakeVmm" ELSE pc[u]
    /\ runningVMs' = runningVMs - 1
    /\ UNCHANGED <<status, listed, entry, taskList, count, vmOf, spawnee, home,
                   asleep, sh, panic>>

Wakes(t) ==
    /\ pc[t] = "wakeVmm"
    /\ \A u \in Task : pc'[u] = IF u = t THEN "done" ELSE pc[u]
    /\ SameVm /\ sh'.task = sh.task
    /\ \/ sh'.pc = sh.pc
       \/ sh.pc = "vmmAsleep" /\ sh'.pc = "vmmWait"
    /\ UNCHANGED <<status, listed, entry, taskList, count, runningVMs, vmOf,
                   spawnee, home, asleep, panic>>

\* What a step of a vCPU task changes.
LEMMA TaskView ==
  ASSUME TypeOK, NEW t \in Task, vcpu_run(t)
  PROVE  \/ TaskPanics(t) \/ Starts(t) \/ Proceeds(t) \/ Blocks(t) \/ Halts(t) \/ Loops(t)
         \/ Marks(t) \/ (\E n \in Task : PowersOn(t, n)) \/ AddsTask(t) \/ GuestShutsDown(t)
         \/ Exits(t) \/ DeclaresStopped(t) \/ Subtracts(t) \/ Wakes(t)
<1> USE DEF TypeOK, ShellTypeOK
<1>1. ASSUME NEW q, pc' = [pc EXCEPT ![t] = q], UNCHANGED <<home, asleep, vmOf, spawnee, runningVMs, sh, panic>>,
             UNCHANGED <<vmVars, queueVars>>
      PROVE  Goes(t, q)
  BY <1>1 DEF Goes, vmVars, queueVars
<1>2. ASSUME NEW q, WaitCall(t, q) PROVE TaskPanics(t) \/ Goes(t, q) \/ pc[t] # "guest"
  <2>1. CASE entry[vmOf[t]] = NoTask
    BY <1>2, <2>1 DEF WaitCall, Panic, TaskPanics, CountedPc, vmVars, queueVars, taskVars
  <2>2. CASE entry[vmOf[t]] # NoTask
    BY Zenon, <1>2, <2>2 DEF WaitCall, Goes, vmVars, queueVars
  <2> QED BY <2>1, <2>2
<1>3. ASSUME NEW c \in BOOLEAN, NEW q, WaitFor(t, c, q), pc[t] \in {"waitRunning", "waitResume"}
      PROVE  \/ TaskPanics(t)
             \/ c /\ Goes(t, q) /\ t \notin asleep /\ home'[t] = NoTask /\ asleep' = asleep
             \/ /\ ~c /\ Goes(t, pc[t])
                /\ home'[t] # NoTask
                /\ home'[t] = IF home[t] = NoTask THEN entry[vmOf[t]] ELSE home[t]
                /\ asleep' = asleep \cup {t}
  <2> DEFINE e == IF home[t] = NoTask THEN entry[vmOf[t]] ELSE home[t]
  <2>1. CASE e = NoTask
    <3>1. entry[vmOf[t]] = NoTask
      BY <2>1
    <3> QED
      BY <1>3, <2>1, <3>1 DEF WaitFor, Panic, TaskPanics, CountedPc, vmVars, queueVars, taskVars
  <2>2. CASE e # NoTask /\ c
    BY Zenon, <1>3, <2>2 DEF WaitFor, Goes, vmVars, queueVars
  <2>3. CASE e # NoTask /\ ~c
    BY Zenon, <1>3, <2>3 DEF WaitFor, Goes, vmVars, queueVars
  <2> QED BY Zenon, <2>1, <2>2, <2>3
<1>4. CASE Start(t)
  <2>1. CASE Alive(vmOf[t])
    BY Zenon, <1>1, <1>4, <2>1 DEF Start, Goto, Starts
  <2>2. CASE ~Alive(vmOf[t])
    BY ZenonT(40), <1>4, <2>2 DEF Start, Alive, Panic, TaskPanics, vmVars, queueVars, taskVars
  <2> QED BY <2>1, <2>2
<1>5. CASE WaitRunning(t)
  <2>1. PICK c \in BOOLEAN : c <=> running(vmOf[t])
    BY Zenon DEF running
  <2>2. WaitFor(t, c, "marking") /\ pc[t] = "waitRunning"
    BY <1>5, <2>1 DEF WaitRunning, WaitFor
  <2> QED
    BY <1>3, <2>1, <2>2 DEF running, Proceeds, Blocks
<1>6. CASE mark_vcpu_running(t)
  <2>1. CASE entry[vmOf[t]] = NoTask
    BY ZenonT(40), <1>6, <2>1 DEF mark_vcpu_running, Panic, TaskPanics, vmVars, queueVars, taskVars
  <2>2. CASE entry[vmOf[t]] # NoTask
    BY <1>6, <2>2 DEF mark_vcpu_running, Goto, Marks, vmVars
  <2> QED BY Zenon, <2>1, <2>2
<1>7. CASE ResumableExit(t)
  BY Zenon, <1>1, <1>7 DEF ResumableExit, Goto, Loops
<1>8. CASE Halt(t)
  BY <1>2, <1>8 DEF Halt, Halts
<1>9. CASE CpuDown(t)
  BY <1>2, <1>9 DEF CpuDown, Halts
<1>10. CASE WaitReturns(t)
  <2>1. pc[t] \in {"halted", "down"} /\ home'[t] = NoTask /\ asleep' = asleep
    BY <1>10 DEF WaitReturns
  <2>2. Goes(t, "checkSuspend")
    BY <1>10 DEF WaitReturns, Goes, vmVars, queueVars
  <2> QED
    BY <2>1, <2>2, Zenon DEF Loops
<1>20. ASSUME NEW why, Panic(why), GuestPanic(why) PROVE TaskPanics(t)
  BY Zenon, <1>20 DEF Panic, TaskPanics, vmVars, queueVars, taskVars
<1>11. CASE CpuUp(t)
  <2>1. ASSUME NEW c \in Vcpu, vcpu_on(t, c) PROVE TaskPanics(t) \/ \E n \in Task : PowersOn(t, n)
    <3>1. CASE Panic("vcpuNotFree") \/ Panic("setEntry")
      BY Zenon, <1>11, <1>20, <3>1 DEF CpuUp, GuestPanic
    <3>2. CASE SpareTask # {} /\ Spawn(NewTask, vmOf[t], c)
               /\ pc' = [pc EXCEPT ![t] = "adding", ![NewTask] = "spawned"]
               /\ spawnee' = [spawnee EXCEPT ![t] = NewTask]
               /\ UNCHANGED <<vmVars, queueVars, home, asleep, runningVMs, sh, panic>>
      <4>1. PICK n \in Task : n = NewTask /\ pc[n] = "unused"
        BY Zenon, <3>2, NewTaskType
      <4>2. pc[t] = "guest" /\ "CpuUp" \in GuestExits /\ spawnee \in [Task -> Entries]
        BY Zenon, <1>11 DEF CpuUp, SpawneeTypeOK
      <4>3. \A u \in Task : /\ pc'[u] = IF u = n THEN "spawned"
                                        ELSE IF u = t THEN "adding" ELSE pc[u]
                            /\ vmOf'[u] = IF u = n THEN vmOf[t] ELSE vmOf[u]
        BY <3>2, <4>1, <4>2 DEF Spawn
      <4>4. \A u \in Task : spawnee'[u] = IF u = t THEN n ELSE spawnee[u]
        BY Zenon, <3>2, <4>1, <4>2
      <4>5. UNCHANGED <<status, listed, entry, taskList, count, runningVMs, home, asleep, sh, panic>>
        BY Zenon, <3>2 DEF vmVars, queueVars
      <4>6. PowersOn(t, n)
        BY Zenon, <4>1, <4>2, <4>3, <4>4, <4>5 DEF PowersOn
      <4> QED BY Zenon, <4>6
    <3> QED BY Zenon, <2>1, <3>1, <3>2 DEF vcpu_on
  <2> QED
    BY Zenon, <1>11, <1>20, <2>1 DEF CpuUp, GuestPanic
<1>21. CASE AddVcpuTask(t)
  <2>1. CASE entry[vmOf[t]] = NoTask
    BY Zenon, <1>21, <2>1 DEF AddVcpuTask, Panic, TaskPanics, CountedPc, vmVars, queueVars, taskVars
  <2>2. CASE entry[vmOf[t]] # NoTask
    <3>1. pc[t] = "adding" /\ spawnee \in [Task -> Entries]
      BY Zenon, <1>21 DEF AddVcpuTask, SpawneeTypeOK
    <3>2. /\ pc' = [pc EXCEPT ![t] = "checkSuspend"]
          /\ taskList' = [taskList EXCEPT ![vmOf[t]] = @ \cup {spawnee[t]}]
          /\ spawnee' = [spawnee EXCEPT ![t] = NoTask]
          /\ UNCHANGED <<status, listed, entry, count, runningVMs, vmOf, home, asleep, sh, panic>>
      BY Zenon, <1>21, <2>2 DEF AddVcpuTask, Goto, add_vcpu_task, vmVars
    <3>3. \A u \in Task : /\ pc'[u] = IF u = t THEN "checkSuspend" ELSE pc[u]
                          /\ spawnee'[u] = IF u = t THEN NoTask ELSE spawnee[u]
      BY Zenon, <3>1, <3>2
    <3>4. \A v \in VM : taskList'[v] = IF v = vmOf[t] THEN taskList[v] \cup {spawnee[t]}
                                                      ELSE taskList[v]
      BY Zenon, <3>2
    <3> QED
      BY Zenon, <2>2, <3>1, <3>2, <3>3, <3>4 DEF AddsTask
  <2> QED BY Zenon, <2>1, <2>2
<1>22. CASE SendIPI(t)
  <2>1. CASE Panic("noEntry") /\ entry[vmOf[t]] = NoTask
    BY Zenon, <1>22, <2>1 DEF SendIPI, Panic, TaskPanics, CountedPc, vmVars, queueVars, taskVars
  <2>2. CASE Panic("ipiToAll") \/ Panic("ipiToVcpu")
    BY Zenon, <1>20, <1>22, <2>2 DEF SendIPI, GuestPanic
  <2> QED
    BY Zenon, <1>22, <2>1, <2>2 DEF SendIPI, inject_interrupt_to_vcpu
<1>12. CASE ShutdownExit(t)
  <2>1. CASE stopping(vmOf[t])
    BY Zenon, <1>12, <1>20, <2>1 DEF ShutdownExit, GuestPanic
  <2>2. CASE ~stopping(vmOf[t])
    BY Zenon, <1>12, <2>2 DEF ShutdownExit, Goto, set_vm_status, GuestShutsDown, SetsStatus, queueVars
  <2> QED BY <2>1, <2>2
<1>13. CASE CheckSuspend(t)
  BY Zenon, <1>1, <1>13 DEF CheckSuspend, Loops
<1>14. CASE WaitResume(t)
  <2>1. PICK c \in BOOLEAN : c <=> ~suspending(vmOf[t])
    BY Zenon DEF suspending
  <2>2. WaitFor(t, c, "guest") /\ pc[t] = "waitResume"
    BY <1>14, <2>1 DEF WaitResume, WaitFor
  <2> QED
    BY Zenon, <1>3, <2>1, <2>2 DEF suspending, Proceeds, Blocks
<1>15. CASE CheckStop(t)
  BY ZenonT(40), <1>1, <1>15 DEF CheckStop, stopping, Loops
<1>16. CASE mark_vcpu_exiting(t)
  <2>1. CASE entry[vmOf[t]] = NoTask
    BY Zenon, <1>16, <2>1 DEF mark_vcpu_exiting, Panic, TaskPanics, CountedPc, vmVars, queueVars, taskVars
  <2>2. CASE entry[vmOf[t]] # NoTask
    BY <1>16, <2>2 DEF mark_vcpu_exiting, WasLast, AfterExit, Exits, vmVars
  <2> QED BY <2>1, <2>2
<1>17. CASE SetStopped(t)
  BY <1>17 DEF SetStopped, Goto, set_vm_status, DeclaresStopped, SetsStatus, queueVars
<1>18. CASE sub_running_vm_count(t)
  BY <1>18 DEF sub_running_vm_count, Goto, Subtracts, vmVars, queueVars
<1>19. CASE WakeVmm(t)
  <2>1. /\ SameVm /\ sh'.task = sh.task
        /\ \/ sh'.pc = sh.pc
           \/ sh.pc = "vmmAsleep" /\ sh'.pc = "vmmWait"
    BY <1>19 DEF WakeVmm, wake, SameVm, ShellState
  <2> QED
    BY <1>19, <2>1 DEF WakeVmm, Goto, Wakes, vmVars, queueVars
<1> QED
  BY <1>4, <1>5, <1>6, <1>7, <1>8, <1>9, <1>10, <1>11, <1>12, <1>13, <1>14,
     <1>15, <1>16, <1>17, <1>18, <1>19, <1>21, <1>22, ZenonT(30) DEF vcpu_run

-----------------------------------------------------------------------------
(* What the main thread knows.                                             *)

\* The program counters of each phase of the main thread.
PhasePc ==
    /\ sh.phase = "init" => sh.pc \in {"init", "setup", "insert"}
    /\ sh.phase = "start" => sh.pc \in {"start", "boot", "notify", "add",
                                        "vmmWait", "vmmAsleep"}
    /\ sh.phase = "shell" => sh.pc \notin {"init", "start", "vmmWait", "vmmAsleep"}

LoadingHasNoTask ==
    \A t \in Task : pc[t] # "unused" => status[vmOf[t]] # "Loading"

\* vmm::init has still to set up the VMs of todo, which have no task.
InitLoop ==
    sh.phase = "init" =>
        /\ \A v \in VM : v \in listed <=> status[v] = "Loaded"
        /\ sh.todo \subseteq listed
        /\ \A t \in Task : pc[t] # "unused" => vmOf[t] \notin sh.todo
        /\ sh.pc \in {"setup", "insert"} => sh.vm \in listed \ sh.todo

\* The points at which the main thread sets up or boots a VM.
SetupPc == {"setup", "insert", "boot", "notify", "add"}

DeletePc == {"deleteCheck", "deleteRead", "deleteStopping", "deleteShutdown",
             "deleteStopped", "deleteRemove", "deleteCleanup", "deleteJoin"}

\* A VM that is set up has been created, and so has every VM with a task; the
\* task of `insert' is the one spawned for the VM; a VM is out of the list
\* before its entry is taken out of the map.
Ordered ==
    /\ sh.phase = "init" => \A v \in sh.todo : status[v] # "Loading"
    /\ sh.pc = "setup" => status[sh.vm] # "Loading"
    /\ sh.pc = "insert" => pc[sh.task] # "unused" /\ vmOf[sh.task] = sh.vm
    /\ sh.pc = "deleteCleanup" => sh.vm \notin listed

\* Only commands the operator uses are under way.
Allowed ==
    /\ sh.pc \in DeletePc => "delete" \in Commands
    /\ sh.restart \/ sh.pc \in {"restartCheck", "restartPoll"} => "restart" \in Commands
    /\ sh.pc = "startCheck" \/ (sh.phase = "shell" /\ sh.pc \in SetupPc)
          => Commands \cap {"start", "restart"} # {}
    /\ sh.pc \in {"stopCheck", "shutdown"} => Commands \cap {"stop", "restart"} # {}
    /\ sh.pc \in {"suspendCheck", "suspendSet"} => "suspend" \in Commands
    /\ sh.pc \in {"resumeCheck", "resumeSet", "resumeNotify"} => "resume" \in Commands
    /\ sh.force => TRUE \in ForceFlags

\* A vCPU remembers the task it has spawned only until it has added it, and
\* only a guest that powers on vCPUs makes it do so.
Powering ==
    \A t \in Task : /\ pc[t] = "adding" => "CpuUp" \in GuestExits
                    /\ spawnee[t] # NoTask => pc[t] = "adding"

MainInv == PhasePc /\ LoadingHasNoTask /\ Ordered /\ Allowed /\ Powering

-----------------------------------------------------------------------------
(* Entries: the tasks of a listed VM find its entry, but for the moment    *)
(* between the spawn of its first primary and the insert of the entry.     *)

EntryInv ==
    /\ \A t \in Task : pc[t] # "unused" /\ vmOf[t] \in listed =>
         entry[vmOf[t]] # NoTask \/ (sh.pc = "insert" /\ sh.vm = vmOf[t])
    /\ sh.phase = "init" =>
         \A v \in listed \ sh.todo :
            entry[v] # NoTask \/ (sh.pc \in {"setup", "insert"} /\ sh.vm = v)
    /\ sh.phase = "start" => sh.todo \subseteq listed /\ \A v \in listed : entry[v] # NoTask
    /\ sh.pc \in {"boot", "notify", "add"} => entry[sh.vm] # NoTask

\* Without delete, and with vCPU tasks that run only when their spawner waits:
\* the VM of every task is listed, and no task of a VM without an entry has
\* started.
LocalInv ==
    /\ \A t \in Task : pc[t] # "unused" => vmOf[t] \in listed
    /\ sh.phase = "init" => sh.todo \subseteq listed
    /\ sh.phase = "start" => sh.todo \subseteq listed
    /\ sh.pc \notin {"init", "start", "vmmWait", "vmmAsleep", "idle"} => sh.vm \in listed
    /\ sh.pc = "insert" /\ entry[sh.vm] = NoTask =>
         \A t \in Task : pc[t] # "unused" /\ vmOf[t] = sh.vm => pc[t] = "spawned"

-----------------------------------------------------------------------------
(* Join lists.                                                             *)

\* Not yet through mark_vcpu_exiting.
JoinPc == CountedPc \cup {"spawned", "waitRunning", "marking"}

\* The spawner of the task has still to put it on the list of its VM: the main
\* thread, or a vCPU of the same VM.
AboutToInsert(t) == sh.pc = "insert" /\ sh.task = t
BeingAdded(t) == \E u \in Task : spawnee[u] = t /\ vmOf[u] = vmOf[t]

JoinInv ==
    \A t \in Task :
        pc[t] \in JoinPc /\ vmOf[t] \in listed
        => \/ entry[vmOf[t]] # NoTask /\ t \in taskList[vmOf[t]]
           \/ AboutToInsert(t)
           \/ BeingAdded(t)

\* The VM being set up has no task but the one spawned for it.
FreshSetup ==
    sh.pc = "insert" => \A t \in Task : pc[t] \in JoinPc /\ vmOf[t] = sh.vm => t = sh.task

-----------------------------------------------------------------------------
(* Without start and restart a VM is set up once, by vmm::init.            *)

OnceInv ==
    /\ InitLoop
    /\ sh.pc = "setup" => \A t \in Task : pc[t] # "unused" => vmOf[t] # sh.vm
    /\ sh.pc = "insert" => \A t \in Task : pc[t] # "unused" /\ vmOf[t] = sh.vm => t = sh.task
    /\ \A t \in Task : status[vmOf[t]] = "Loaded"
                         => pc[t] \in {"unused", "spawned", "waitRunning"}
    /\ sh.phase = "start" => \A v \in sh.todo : status[v] = "Loaded"
    /\ sh.phase = "start" /\ sh.pc = "boot"
          => status[sh.vm] = "Loaded" /\ sh.vm \notin sh.todo

\* Past the declaration of the VM as stopped, or past the point where that was
\* left to another vCPU.
EndedPc == {"subCount", "wakeVmm", "done"}

\* When all vCPU tasks of a VM have ended, one of them has declared it stopped.
StopDeclared ==
    \A v \in VM :
        (\E t \in Task : pc[t] # "unused" /\ vmOf[t] = v)
        /\ (\A t \in Task : pc[t] # "unused" /\ vmOf[t] = v => pc[t] \in EndedPc)
        => status[v] = "Stopped"

-----------------------------------------------------------------------------
(* Most steps of a vCPU task move nothing but the task.                    *)

\* Task t goes on, before mark_vcpu_exiting and after its start.
Moves(t) ==
    /\ pc[t] \in JoinPc /\ pc'[t] \in JoinPc \ {"spawned"}
    /\ pc[t] = "spawned" => RemoteVcpu \/ sh.pc # "insert"
    /\ pc[t] \in {"spawned", "waitRunning"}
         => pc'[t] = "waitRunning" \/ status[vmOf[t]] = "Running"
    /\ \A u \in Task : u # t => pc'[u] = pc[u]
    /\ UNCHANGED <<status, listed, entry, taskList, vmOf, spawnee, sh, panic>>

\* The steps that are such moves.
LEMMA TaskMoves ==
  ASSUME NEW t \in Task,
         Starts(t) \/ Proceeds(t) \/ Blocks(t) \/ Halts(t) \/ Loops(t) \/ Marks(t)
  PROVE  Moves(t)
<1>0. ASSUME NEW p, NEW q, pc[t] = p, Goes(t, q), p \in JoinPc, q \in JoinPc \ {"spawned"},
             p = "spawned" => RemoteVcpu \/ sh.pc # "insert",
             p \in {"spawned", "waitRunning"} => q = "waitRunning" \/ status[vmOf[t]] = "Running"
      PROVE  Moves(t)
  BY Zenon, <1>0 DEF Goes, Moves
<1> USE DEF JoinPc, CountedPc
<1>1. CASE Starts(t)
  BY Zenon, <1>0, <1>1 DEF Starts
<1>2. CASE Proceeds(t)
  BY Zenon, <1>0, <1>2 DEF Proceeds
<1>3. CASE Blocks(t)
  BY Zenon, <1>0, <1>3 DEF Blocks
<1>4. CASE Halts(t)
  BY Zenon, <1>0, <1>4 DEF Halts
<1>5. CASE Loops(t)
  BY Zenon, <1>0, <1>5 DEF Loops
<1>6. CASE Marks(t)
  BY Zenon, <1>6 DEF Marks, Moves
<1> QED
  BY Zenon, <1>1, <1>2, <1>3, <1>4, <1>5, <1>6

-----------------------------------------------------------------------------
(* MainInv holds in every instance.                                        *)

\* The main thread starts in init.
LEMMA MainInvInit == Init => MainInv
<1> SUFFICES ASSUME Init PROVE MainInv
  BY Zenon
<1>1. /\ \A t \in Task : pc[t] = "unused"
      /\ \A v \in BootVMs : status[v] = "Loaded"
      /\ sh.pc = "init" /\ sh.phase = "init" /\ sh.todo = BootVMs
      /\ ~sh.restart /\ ~sh.force
      /\ \A t \in Task : spawnee[t] = NoTask
  BY Zenon, BootVMsAssumption DEF Init, ShellInit
<1> QED
  BY Zenon, <1>1 DEF MainInv, PhasePc, LoadingHasNoTask, Ordered, Allowed, Powering, SetupPc,
                     DeletePc

\* A step of the main thread or of the operator keeps MainInv.
LEMMA MainInvMain == ASSUME TypeOK, MainInv, MainStep \/ TypeCommand PROVE MainInv'
<1> USE DEF MainInv
<1>0. /\ sh.vm \in VM /\ sh.phase \in {"init", "start", "shell"}
      /\ vmOf \in [Task -> VM]
  BY Zenon DEF TypeOK, ShellTypeOK, ShellState
<1>9. ASSUME UNCHANGED <<pc, spawnee>> PROVE Powering'
  BY Zenon, <1>9 DEF Powering
<1>1. CASE InitEnds \/ Takes("init", "setup") \/ Takes("start", "boot") \/ StartEnds
  <2>1. PhasePc' /\ LoadingHasNoTask'
    BY Zenon, <1>0, <1>1 DEF InitEnds, Takes, StartEnds, SameVm, MainOnly, PhasePc, LoadingHasNoTask
  <2>2. Ordered'
    BY Zenon, <1>0, <1>1 DEF InitEnds, Takes, StartEnds, SameVm, MainOnly, PhasePc, Ordered
  <2>3. Allowed'
    BY Zenon, <1>0, <1>1 DEF InitEnds, Takes, StartEnds, SameVm, MainOnly, PhasePc, Allowed,
                     SetupPc, DeletePc
  <2>4. Powering'
    BY Zenon, <1>1, <1>9 DEF InitEnds, Takes, StartEnds, MainOnly
  <2> QED BY Zenon, <2>1, <2>2, <2>3, <2>4
<1>2. CASE Spawns \/ Inserts
  <2>1. PhasePc' /\ LoadingHasNoTask'
    <3>1. CASE Spawns
      <4>1. /\ sh.pc = "setup" /\ sh'.pc = "insert" /\ sh'.phase = sh.phase /\ status' = status
            /\ sh'.task \in Task /\ vmOf'[sh'.task] = sh.vm
            /\ \A u \in Task : u # sh'.task => vmOf'[u] = vmOf[u] /\ pc'[u] = pc[u]
        BY Zenon, <3>1 DEF Spawns, SameVm
      <4>2. status[sh.vm] # "Loading"
        BY Zenon, <4>1 DEF Ordered
      <4>3. \A u \in Task : pc'[u] # "unused" => status[vmOf'[u]] # "Loading"
        BY Zenon, <4>1, <4>2 DEF LoadingHasNoTask
      <4> QED
        BY Zenon, <1>0, <4>1, <4>3 DEF PhasePc, LoadingHasNoTask
    <3>2. CASE Inserts
      <4>1. /\ sh.pc = "insert" /\ sh'.phase = sh.phase
            /\ sh'.pc = IF sh.phase = "init" THEN "init" ELSE "boot"
            /\ UNCHANGED <<status, vmOf, pc>>
        BY Zenon, <3>2 DEF Inserts, SameVm
      <4> QED
        BY Zenon, <1>0, <4>1 DEF PhasePc, LoadingHasNoTask
    <3> QED BY Zenon, <1>2, <3>1, <3>2
  <2>2. Ordered'
    BY ZenonT(40), <1>0, <1>2 DEF Spawns, Inserts, SameVm, PhasePc, Ordered
  <2>3. Allowed'
    BY ZenonT(40), <1>0, <1>2 DEF Spawns, Inserts, SameVm, PhasePc, Allowed, SetupPc, DeletePc
  <2>4. Powering'
    BY Zenon, <1>2 DEF Spawns, Inserts, Powering
  <2> QED BY Zenon, <2>1, <2>2, <2>3, <2>4
<1>3. CASE Boots \/ ShutsDown \/ Suspends \/ Resumes \/ DeleteSets
  <2>1. PhasePc' /\ LoadingHasNoTask'
    BY ZenonT(40), <1>0, <1>3 DEF Boots, ShutsDown, Suspends, Resumes, DeleteSets, Sets, SameVm,
                     PhasePc, LoadingHasNoTask
  <2>2. Ordered'
    BY Zenon, <1>0, <1>3 DEF Boots, ShutsDown, Suspends, Resumes, DeleteSets, Sets, SameVm,
                     PhasePc, Ordered
  <2>3. Allowed'
    BY Zenon, <1>0, <1>3 DEF Boots, ShutsDown, Suspends, Resumes, DeleteSets, Sets, SameVm,
                     PhasePc, Allowed, SetupPc, DeletePc
  <2>4. Powering'
    BY Zenon, <1>3, <1>9 DEF Boots, ShutsDown, Suspends, Resumes, DeleteSets, Sets
  <2> QED BY Zenon, <2>1, <2>2, <2>3, <2>4
<1>4. CASE Notifies \/ NotifyPanics \/ Adds \/ Waits \/ NotifiesAll
  <2>1. PhasePc' /\ LoadingHasNoTask'
    BY Zenon, <1>0, <1>4 DEF Notifies, NotifyPanics, Adds, Waits, NotifiesAll, SameVm, MainOnly,
                     PhasePc, LoadingHasNoTask
  <2>2. Ordered'
    BY Zenon, <1>0, <1>4 DEF Notifies, NotifyPanics, Adds, Waits, NotifiesAll, SameVm, MainOnly,
                     PhasePc, Ordered
  <2>3. Allowed'
    BY Zenon, <1>0, <1>4 DEF Notifies, NotifyPanics, Adds, Waits, NotifiesAll, SameVm, MainOnly,
                     PhasePc, Allowed, SetupPc, DeletePc
  <2>4. Powering'
    BY Zenon, <1>4, <1>9 DEF Notifies, NotifyPanics, Adds, Waits, NotifiesAll, MainOnly
  <2> QED BY Zenon, <2>1, <2>2, <2>3, <2>4
<1>5. CASE Decides
  <2>1. PhasePc' /\ LoadingHasNoTask'
    BY Zenon, <1>0, <1>5 DEF Decides, CheckPc, SameVm, MainOnly, PhasePc, LoadingHasNoTask
  <2>2. Ordered'
    BY Zenon, <1>0, <1>5 DEF Decides, CheckPc, can_start_vm, SameVm, MainOnly, PhasePc, Ordered
  <2>3. Allowed'
    BY ZenonT(40), <1>0, <1>5 DEF Decides, CheckPc, SameVm, MainOnly, PhasePc, Allowed,
                     SetupPc, DeletePc
  <2>4. Powering'
    BY ZenonT(40), <1>5, <1>9 DEF Decides, MainOnly
  <2> QED BY Zenon, <2>1, <2>2, <2>3, <2>4
<1>6. CASE Removes \/ CleansUp
  <2>1. PhasePc' /\ LoadingHasNoTask'
    BY <1>0, <1>6 DEF Removes, CleansUp, SameVm, PhasePc, LoadingHasNoTask
  <2>2. Ordered'
    BY Zenon, <1>0, <1>6 DEF Removes, CleansUp, SameVm, PhasePc, Ordered
  <2>3. Allowed'
    BY Zenon, <1>0, <1>6 DEF Removes, CleansUp, SameVm, PhasePc, Allowed, SetupPc, DeletePc
  <2>4. Powering'
    BY Zenon, <1>6, <1>9 DEF Removes, CleansUp
  <2> QED BY Zenon, <2>1, <2>2, <2>3, <2>4
<1>7. CASE Creates
  <2>1. PhasePc' /\ LoadingHasNoTask'
    BY ZenonT(40), <1>0, <1>7 DEF Creates, SameVm, PhasePc, LoadingHasNoTask
  <2>2. Ordered' /\ Allowed'
    BY Zenon, <1>0, <1>7 DEF Creates, SameVm, PhasePc, Ordered, Allowed, SetupPc, DeletePc
  <2>3. Powering'
    BY Zenon, <1>7, <1>9 DEF Creates
  <2> QED BY Zenon, <2>1, <2>2, <2>3
<1>8. ASSUME NEW c, NEW first, Types(c, first),
             <<c, first>> \in {<<"start", "startCheck">>, <<"stop", "stopCheck">>,
                               <<"restart", "restartCheck">>, <<"suspend", "suspendCheck">>,
                               <<"resume", "resumeCheck">>, <<"delete", "deleteCheck">>}
      PROVE  MainInv'
  <2>1. PhasePc' /\ LoadingHasNoTask'
    BY Zenon, <1>0, <1>8 DEF Types, MainOnly, PhasePc, LoadingHasNoTask
  <2>2. Ordered'
    BY Zenon, <1>0, <1>8 DEF Types, MainOnly, PhasePc, Ordered
  <2>3. Allowed'
    BY Zenon, <1>0, <1>8 DEF Types, MainOnly, PhasePc, Allowed, SetupPc, DeletePc
  <2>4. Powering'
    BY Zenon, <1>8, <1>9 DEF Types, MainOnly
  <2> QED BY Zenon, <2>1, <2>2, <2>3, <2>4
<1> QED
  BY ZenonT(40), <1>1, <1>2, <1>3, <1>4, <1>5, <1>6, <1>7, <1>8, MainView, CommandView

\* A step of a vCPU task keeps MainInv.
LEMMA MainInvTask == ASSUME TypeOK, MainInv, NEW t \in Task, vcpu_run(t) PROVE MainInv'
<1> USE DEF MainInv
<1>0. /\ sh.vm \in VM /\ sh.phase \in {"init", "start", "shell"}
      /\ vmOf \in [Task -> VM] /\ (sh.pc = "insert" => sh.task \in Task)
      /\ sh.todo \subseteq VM
  BY Zenon DEF TypeOK, ShellTypeOK, ShellState
<1>1. /\ \A u \in Task : pc'[u] = "unused" => pc[u] = "unused"
      /\ \A u \in Task : /\ pc[u] # "unused" => vmOf'[u] = vmOf[u]
                         /\ pc'[u] # "unused" /\ pc[u] = "unused" =>
                              vmOf'[u] = vmOf[t] /\ pc[t] # "unused"
      /\ \A v \in VM : status[v] # "Loading" => status'[v] # "Loading"
      /\ listed' = listed
      /\ sh' = sh \/ Wakes(t)
  <2>1. CASE TaskPanics(t)
    BY Zenon, <2>1 DEF TaskPanics
  <2>2. CASE Starts(t) \/ Proceeds(t) \/ Blocks(t)
    BY Zenon, <2>2 DEF Starts, Proceeds, Blocks, Goes
  <2>3. CASE Halts(t) \/ Loops(t)
    BY Zenon, <2>3 DEF Halts, Loops, Goes
  <2>4. CASE Marks(t) \/ Exits(t) \/ Subtracts(t)
    BY Zenon, <2>4 DEF Marks, Exits, Subtracts
  <2>5. CASE GuestShutsDown(t) \/ DeclaresStopped(t)
    BY Zenon, <2>5 DEF GuestShutsDown, DeclaresStopped, SetsStatus
  <2>6. CASE \E n \in Task : PowersOn(t, n)
    BY Zenon, <2>6 DEF PowersOn
  <2>7. CASE Wakes(t)
    BY Zenon, <2>7 DEF Wakes
  <2>8. CASE AddsTask(t)
    BY Zenon, <2>8 DEF AddsTask
  <2> QED
    BY ZenonT(40), <2>1, <2>2, <2>3, <2>4, <2>5, <2>6, <2>7, <2>8, TaskView
<1>2. PhasePc' /\ Allowed'
  BY ZenonT(40), <1>0, <1>1 DEF Wakes, SameVm, PhasePc, Allowed, SetupPc, DeletePc
<1>3. LoadingHasNoTask'
  BY ZenonT(40), <1>0, <1>1 DEF LoadingHasNoTask
<1>4. Ordered'
  BY <1>0, <1>1 DEF Ordered, Wakes, SameVm
<1>5. Powering'
  <2>0. ASSUME UNCHANGED spawnee, \A u \in Task : pc'[u] = "adding" <=> pc[u] = "adding"
        PROVE  Powering'
    BY Zenon, <2>0 DEF Powering
  <2>1. CASE TaskPanics(t)
    BY Zenon, <2>0, <2>1 DEF TaskPanics
  <2>2. CASE Starts(t) \/ Proceeds(t) \/ Blocks(t)
    BY Zenon, <2>0, <2>2 DEF Starts, Proceeds, Blocks, Goes
  <2>3. CASE Halts(t) \/ Loops(t)
    BY Zenon, <2>0, <2>3 DEF Halts, Loops, Goes
  <2>4. CASE Marks(t) \/ Exits(t) \/ Subtracts(t) \/ Wakes(t)
    BY Zenon, <2>0, <2>4 DEF Marks, Exits, Subtracts, Wakes
  <2>5. CASE GuestShutsDown(t) \/ DeclaresStopped(t)
    BY Zenon, <2>0, <2>5 DEF GuestShutsDown, DeclaresStopped, SetsStatus
  <2>6. CASE \E n \in Task : PowersOn(t, n)
    BY Zenon, <2>6 DEF PowersOn, Powering
  <2>7. CASE AddsTask(t)
    BY Zenon, <2>7 DEF AddsTask, Powering
  <2> QED
    BY ZenonT(40), <2>1, <2>2, <2>3, <2>4, <2>5, <2>6, <2>7, TaskView
<1> QED
  BY Zenon, <1>2, <1>3, <1>4, <1>5

\* MainInv holds whatever the guests and the operator do.
LEMMA MainInvCorrect == Spec => [](TypeOK /\ MainInv)
<1>1. Init => TypeOK /\ MainInv
  BY Zenon, InitType, MainInvInit
<1>2. TypeOK /\ MainInv /\ [Next]_vars => (TypeOK /\ MainInv)'
  <2> SUFFICES ASSUME TypeOK, MainInv, [Next]_vars PROVE TypeOK' /\ MainInv'
    BY Zenon
  <2>1. CASE Next
    BY Zenon, <2>1, MainStepType, TypeCommandType, TaskStepType, MainInvMain, MainInvTask DEF Next
  <2>2. CASE UNCHANGED vars
    <3>1. TypeOK'
      BY Zenon, <2>2 DEF TypeOK, ShellTypeOK, SpawneeTypeOK, vars
    <3>2. PhasePc' /\ LoadingHasNoTask'
      BY Zenon, <2>2 DEF vars, MainInv, PhasePc, LoadingHasNoTask
    <3>3. Ordered' /\ Allowed' /\ Powering'
      BY ZenonT(40), <2>2 DEF vars, MainInv, Ordered, Allowed, Powering
    <3> QED BY Zenon, <3>1, <3>2, <3>3 DEF MainInv
  <2> QED BY Zenon, <2>1, <2>2
<1> QED
  BY <1>1, <1>2, PTL DEF Spec

-----------------------------------------------------------------------------
(* Which look-ups of an entry fail.                                        *)

\* At the start there is no task to have an entry.
LEMMA EntryInit == Init => EntryInv /\ LocalInv
<1> SUFFICES ASSUME Init PROVE EntryInv /\ LocalInv
  BY Zenon
<1>1. /\ \A t \in Task : pc[t] = "unused"
      /\ sh.pc = "init" /\ sh.phase = "init" /\ sh.todo = listed
  BY Zenon DEF Init, ShellInit
<1> QED
  BY Zenon, <1>1 DEF EntryInv, LocalInv

\* A step of the main thread keeps EntryInv and finds the entry it needs.
LEMMA EntryMain ==
  ASSUME TypeOK, MainInv, EntryInv, MainStep \/ TypeCommand
  PROVE  EntryInv' /\ panic' = panic
<1>0. /\ sh.vm \in VM /\ sh.phase \in {"init", "start", "shell"}
      /\ vmOf \in [Task -> VM] /\ listed \subseteq VM /\ NoTask \notin Task
      /\ (sh.pc = "insert" => sh.task \in Task)
      /\ PhasePc /\ LoadingHasNoTask
      /\ (sh.pc = "deleteCleanup" => sh.vm \notin listed)
  BY Zenon, TaskAssumption DEF TypeOK, ShellTypeOK, ShellState, MainInv, Ordered
<1>1. CASE InitEnds \/ Takes("init", "setup") \/ Takes("start", "boot") \/ StartEnds
  BY ZenonT(40), <1>0, <1>1 DEF InitEnds, Takes, StartEnds, SameVm, MainOnly, PhasePc, EntryInv
<1>2. CASE Spawns
  BY ZenonT(40), <1>0, <1>2 DEF Spawns, SameVm, PhasePc, EntryInv
<1>3. CASE Inserts
  <2>1. /\ sh.pc = "insert" /\ sh'.phase = sh.phase /\ sh'.vm = sh.vm /\ sh'.todo = sh.todo
        /\ sh'.pc = IF sh.phase = "init" THEN "init" ELSE "boot"
        /\ UNCHANGED <<listed, vmOf, pc, panic>>
        /\ \A v \in VM : entry'[v] = IF v = sh.vm THEN sh.task ELSE entry[v]
    BY Zenon, <1>3 DEF Inserts, SameVm
  <2>2. /\ entry'[sh.vm] # NoTask /\ sh.phase # "start"
        /\ \A v \in VM : entry[v] # NoTask => entry'[v] # NoTask
    BY Zenon, <1>0, <2>1 DEF PhasePc
  <2>3. \A t \in Task : pc[t] # "unused" /\ vmOf[t] \in listed => entry'[vmOf[t]] # NoTask
    BY Zenon, <1>0, <2>1, <2>2 DEF EntryInv
  <2>4. sh.phase = "init" => \A v \in listed \ sh.todo : entry'[v] # NoTask
    BY ZenonT(40), <1>0, <2>1, <2>2 DEF EntryInv
  <2> QED
    BY Zenon, <1>0, <2>1, <2>2, <2>3, <2>4 DEF EntryInv
<1>4. CASE Boots \/ ShutsDown \/ Suspends \/ Resumes \/ DeleteSets
  BY ZenonT(40), <1>0, <1>4 DEF Boots, ShutsDown, Suspends, Resumes, DeleteSets, Sets, SameVm,
                   PhasePc, EntryInv
<1>5. CASE Notifies \/ NotifyPanics \/ Adds \/ Waits \/ NotifiesAll
  BY Zenon, <1>0, <1>5 DEF Notifies, NotifyPanics, Adds, Waits, NotifiesAll, SameVm, MainOnly,
                   PhasePc, EntryInv
<1>6. CASE Decides
  BY Zenon, <1>0, <1>6 DEF Decides, CheckPc, SameVm, MainOnly, PhasePc, EntryInv
<1>7. CASE Removes
  BY Zenon, <1>0, <1>7 DEF Removes, SameVm, PhasePc, EntryInv
<1>8. CASE CleansUp
  BY Zenon, <1>0, <1>8 DEF CleansUp, SameVm, PhasePc, EntryInv
<1>9. CASE Creates
  BY Zenon, <1>0, <1>9 DEF Creates, SameVm, PhasePc, LoadingHasNoTask, EntryInv
<1>10. ASSUME NEW c, NEW first \in CheckPc, Types(c, first) PROVE EntryInv' /\ panic' = panic
  BY Zenon, <1>0, <1>10 DEF Types, CheckPc, MainOnly, PhasePc, EntryInv
<1> QED
  BY ZenonT(40), <1>1, <1>2, <1>3, <1>4, <1>5, <1>6, <1>7, <1>8, <1>9, <1>10, MainView,
     CommandView DEF CheckPc

\* Most steps of a vCPU task change none of the variables these invariants are
\* about except the program counter of the task, and only Start leaves
\* "spawned".
TaskMoved(t) ==
    /\ pc[t] # "unused" /\ \A u \in Task : u # t => pc'[u] = pc[u]
    /\ pc[t] = "spawned" => RemoteVcpu \/ sh.pc # "insert"
    /\ UNCHANGED <<listed, entry, vmOf, panic>>
    /\ sh' = sh \/ (SameVm /\ (sh'.pc = sh.pc \/ (sh.pc = "vmmAsleep" /\ sh'.pc = "vmmWait")))

\* The task spawns a task for another vCPU of its VM.
TaskSpawned(t, n) ==
    /\ pc[t] = "guest" /\ pc[n] = "unused" /\ pc'[n] = "spawned" /\ vmOf'[n] = vmOf[t]
    /\ pc'[t] = "adding"
    /\ \A u \in Task : u # n => vmOf'[u] = vmOf[u]
    /\ \A u \in Task : u # n /\ u # t => pc'[u] = pc[u]
    /\ UNCHANGED <<listed, entry, sh, panic>>

\* All steps of a vCPU task, for these invariants.
LEMMA TaskMovedOr ==
  ASSUME TypeOK, NEW t \in Task, vcpu_run(t)
  PROVE  TaskPanics(t) \/ TaskMoved(t) \/ \E n \in Task : TaskSpawned(t, n)
<1>1. CASE Moves(t)
  BY Zenon, <1>1 DEF Moves, TaskMoved, JoinPc, CountedPc
<1>2. CASE Exits(t) \/ Subtracts(t) \/ AddsTask(t)
  BY Zenon, <1>2 DEF Exits, Subtracts, AddsTask, TaskMoved
<1>3. CASE GuestShutsDown(t) \/ DeclaresStopped(t)
  BY Zenon, <1>3 DEF GuestShutsDown, DeclaresStopped, SetsStatus, TaskMoved
<1>4. CASE Wakes(t)
  BY Zenon, <1>4 DEF Wakes, TaskMoved
<1>5. ASSUME NEW n \in Task, PowersOn(t, n) PROVE TaskSpawned(t, n)
  BY Zenon, <1>5 DEF PowersOn, TaskSpawned
<1> QED
  BY ZenonT(40), <1>1, <1>2, <1>3, <1>4, <1>5, TaskView, TaskMoves

\* A step of a vCPU task keeps EntryInv; only a task of a VM that is not listed
\* or has no entry yet fails to find its VM and its entry.
LEMMA EntryTask ==
  ASSUME TypeOK, MainInv, EntryInv, NEW t \in Task, vcpu_run(t)
  PROVE  /\ EntryInv'
         /\ \/ panic' = panic \/ GuestPanic(panic')
            \/ UNCHANGED <<pc, vmOf, listed, sh, entry>> /\ pc[t] \notin {"unused", "done"}
               /\ \/ vmOf[t] \notin listed
                  \/ /\ sh.pc = "insert" /\ sh.vm = vmOf[t] /\ entry[sh.vm] = NoTask
                     /\ pc[t] # "spawned"
<1>0. vmOf \in [Task -> VM]
  BY Zenon DEF TypeOK
<1>1. CASE TaskPanics(t)
  <2>1. UNCHANGED <<pc, vmOf, listed, sh, entry>>
    BY Zenon, <1>1 DEF TaskPanics
  <2>2. EntryInv'
    BY Zenon, <2>1 DEF EntryInv
  <2>3. \/ GuestPanic(panic')
        \/ pc[t] = "spawned" /\ vmOf[t] \notin listed
        \/ entry[vmOf[t]] = NoTask /\ pc[t] \in CountedPc \cup {"waitRunning", "marking"}
    BY Zenon, <1>1 DEF TaskPanics
  <2>4. CASE entry[vmOf[t]] = NoTask /\ pc[t] \in CountedPc \cup {"waitRunning", "marking"}
    <3>1. pc[t] \notin {"unused", "spawned", "done"}
      BY Zenon, <2>4 DEF CountedPc
    <3>2. vmOf[t] \notin listed \/ (sh.pc = "insert" /\ sh.vm = vmOf[t])
      BY Zenon, <2>4, <3>1 DEF EntryInv
    <3> QED
      BY Zenon, <2>1, <2>2, <2>4, <3>1, <3>2
  <2> QED
    BY Zenon, <2>1, <2>2, <2>3, <2>4
<1>2. CASE TaskMoved(t)
  <2>1. /\ \A u \in Task : pc'[u] # "unused" => pc[u] # "unused"
        /\ UNCHANGED <<listed, entry, vmOf, panic>>
        /\ sh'.vm = sh.vm /\ sh'.phase = sh.phase /\ sh'.todo = sh.todo
        /\ \/ sh'.pc = sh.pc
           \/ sh.pc = "vmmAsleep" /\ sh'.pc = "vmmWait"
    BY Zenon, <1>2 DEF TaskMoved, SameVm
  <2> QED
    BY Zenon, <2>1 DEF EntryInv
<1>3. ASSUME NEW n \in Task, TaskSpawned(t, n) PROVE EntryInv' /\ panic' = panic
  <2>1. UNCHANGED <<listed, entry, sh, panic>>
    BY Zenon, <1>3 DEF TaskSpawned
  <2>2. ASSUME NEW u \in Task, pc'[u] # "unused", vmOf'[u] \in listed
        PROVE  entry[vmOf'[u]] # NoTask \/ (sh.pc = "insert" /\ sh.vm = vmOf'[u])
    <3>1. PICK w \in Task : pc[w] # "unused" /\ vmOf[w] = vmOf'[u]
      BY Zenon, <1>3, <2>2 DEF TaskSpawned
    <3> QED
      BY Zenon, <2>2, <3>1 DEF EntryInv
  <2> QED
    BY Zenon, <2>1, <2>2 DEF EntryInv
<1> QED
  BY Zenon, <1>1, <1>2, <1>3, TaskMovedOr DEF TaskMoved

\* EntryInv holds whatever the guests and the operator do.
LEMMA EntryCorrect == Spec => []EntryInv
<1>1. TypeOK /\ MainInv /\ EntryInv /\ [Next]_vars => EntryInv'
  <2> SUFFICES ASSUME TypeOK, MainInv, EntryInv, [Next]_vars PROVE EntryInv'
    BY Zenon
  <2>1. CASE MainStep \/ TypeCommand
    BY Zenon, <2>1, EntryMain
  <2>2. CASE \E t \in Task : vcpu_run(t)
    BY Zenon, <2>2, EntryTask
  <2>3. CASE UNCHANGED vars
    BY Zenon, <2>3 DEF vars, EntryInv
  <2> QED
    BY Zenon, <2>1, <2>2, <2>3 DEF Next
<1> QED
  BY <1>1, EntryInit, MainInvCorrect, PTL DEF Spec

\* Whatever the guests and the operator do, with any number of VMs, vCPUs and
\* CPUs: a look-up in VM_VCPU_TASK_WAIT_QUEUE or the upgrade of a task's weak
\* reference to its VM fails only for the first primary of a VM that another
\* CPU starts before its entry is inserted, or in a task of a VM that was
\* deleted under it.
THEOREM NoLostEntryCorrect == Spec => []NoLostEntry
<1>1. Init => NoLostEntry
  BY Zenon DEF Init, NoLostEntry
<1>2. TypeOK /\ MainInv /\ EntryInv /\ NoLostEntry /\ [Next]_vars => NoLostEntry'
  <2> SUFFICES ASSUME TypeOK, MainInv, EntryInv, NoLostEntry, [Next]_vars PROVE NoLostEntry'
    BY Zenon
  <2>1. CASE panic = "none" /\ (MainStep \/ TypeCommand)
    BY Zenon, <2>1, EntryMain DEF NoLostEntry
  <2>2. ASSUME panic = "none", NEW t \in Task, vcpu_run(t) PROVE NoLostEntry'
    <3>1. CASE panic' = panic \/ GuestPanic(panic')
      BY Zenon, <2>2, <3>1 DEF NoLostEntry, GuestPanic
    <3>2. CASE /\ UNCHANGED <<pc, vmOf, listed, sh, entry>> /\ pc[t] \notin {"unused", "done"}
               /\ vmOf[t] \notin listed \/ (sh.pc = "insert" /\ entry[sh.vm] = NoTask)
      BY Zenon, <3>2 DEF NoLostEntry
    <3> QED
      BY Zenon, <2>2, <3>1, <3>2, EntryTask
  <2>3. CASE UNCHANGED vars
    BY Zenon, <2>3 DEF vars, NoLostEntry
  <2> QED
    BY Zenon, <2>1, <2>2, <2>3 DEF Next
<1> QED
  BY <1>1, <1>2, EntryCorrect, MainInvCorrect, PTL DEF Spec

-----------------------------------------------------------------------------
(* Where every panic is an answer to the guest.                            *)

\* A step of the main thread keeps LocalInv.
LEMMA LocalMain ==
  ASSUME "delete" \notin Commands, TypeOK, MainInv, EntryInv, LocalInv,
         MainStep \/ TypeCommand
  PROVE  LocalInv'
<1>0. /\ sh.vm \in VM /\ sh.phase \in {"init", "start", "shell"}
      /\ vmOf \in [Task -> VM] /\ listed \subseteq VM
      /\ PhasePc /\ sh.pc \notin DeletePc
  BY Zenon DEF TypeOK, ShellTypeOK, ShellState, MainInv, Allowed
<1>1. CASE InitEnds \/ Takes("init", "setup") \/ Takes("start", "boot") \/ StartEnds
  BY ZenonT(40), <1>0, <1>1 DEF InitEnds, Takes, StartEnds, SameVm, MainOnly, PhasePc, LocalInv
<1>2. CASE Spawns
  <2>1. /\ sh.pc = "setup" /\ sh'.pc = "insert" /\ sh'.phase = sh.phase /\ sh'.vm = sh.vm
        /\ sh'.todo = sh.todo /\ UNCHANGED <<listed, entry>>
    BY Zenon, <1>2 DEF Spawns, SameVm
  <2>2. PICK n \in Task : /\ pc'[n] = "spawned" /\ vmOf'[n] = sh.vm
                          /\ \A u \in Task : u # n => pc'[u] = pc[u] /\ vmOf'[u] = vmOf[u]
    BY Zenon, <1>2 DEF Spawns
  <2>3. sh.vm \in listed
    BY Zenon, <2>1 DEF LocalInv
  <2>4. entry[sh.vm] = NoTask => \A u \in Task : pc[u] # "unused" => vmOf[u] # sh.vm
    BY Zenon, <2>1, <2>3 DEF EntryInv
  <2>5. \A u \in Task : pc'[u] # "unused" => vmOf'[u] \in listed
    BY Zenon, <2>2, <2>3 DEF LocalInv
  <2>6. entry[sh.vm] = NoTask =>
          \A u \in Task : pc'[u] # "unused" /\ vmOf'[u] = sh.vm => pc'[u] = "spawned"
    BY Zenon, <2>2, <2>4
  <2> QED
    BY Zenon, <2>1, <2>3, <2>5, <2>6 DEF LocalInv
<1>3. CASE Inserts
  BY ZenonT(40), <1>0, <1>3 DEF Inserts, SameVm, PhasePc, LocalInv
<1>4. CASE Boots \/ ShutsDown \/ Suspends \/ Resumes
  BY ZenonT(40), <1>0, <1>4 DEF Boots, ShutsDown, Suspends, Resumes, Sets, SameVm, PhasePc, LocalInv
<1>5. CASE Notifies \/ NotifyPanics \/ Adds \/ Waits \/ NotifiesAll
  BY Zenon, <1>0, <1>5 DEF Notifies, NotifyPanics, Adds, Waits, NotifiesAll, SameVm, MainOnly,
                   PhasePc, LocalInv
<1>6. CASE Decides
  BY Zenon, <1>0, <1>6 DEF Decides, CheckPc, SameVm, MainOnly, PhasePc, LocalInv
<1>7. CASE DeleteSets \/ Removes \/ CleansUp
  BY Zenon, <1>0, <1>7 DEF DeleteSets, Removes, CleansUp, DeletePc
<1>8. CASE Creates
  BY Zenon, <1>0, <1>8 DEF Creates, SameVm, PhasePc, LocalInv
<1>9. ASSUME NEW c, NEW first \in CheckPc, Types(c, first) PROVE LocalInv'
  BY Zenon, <1>0, <1>9 DEF Types, CheckPc, MainOnly, PhasePc, LocalInv
<1> QED
  BY ZenonT(40), <1>1, <1>2, <1>3, <1>4, <1>5, <1>6, <1>7, <1>8, <1>9, MainView, CommandView
  DEF CheckPc

\* A step of a vCPU task keeps LocalInv.
LEMMA LocalTask ==
  ASSUME RemoteVcpu = FALSE, TypeOK, MainInv, LocalInv, NEW t \in Task, vcpu_run(t)
  PROVE  LocalInv'
<1>1. CASE TaskPanics(t)
  BY Zenon, <1>1 DEF TaskPanics, LocalInv
<1>2. CASE TaskMoved(t)
  <2>1. /\ \A u \in Task : pc'[u] # "unused" => pc[u] # "unused"
        /\ UNCHANGED <<listed, entry, vmOf>>
        /\ sh'.vm = sh.vm /\ sh'.phase = sh.phase /\ sh'.todo = sh.todo
        /\ \/ sh'.pc = sh.pc
           \/ sh.pc = "vmmAsleep" /\ sh'.pc = "vmmWait"
    BY Zenon, <1>2 DEF TaskMoved, SameVm
  <2>2. sh.pc = "insert" => pc[t] # "spawned" /\ pc[t] # "unused"
                             /\ \A u \in Task : u # t => pc'[u] = pc[u]
    BY Zenon, <1>2 DEF TaskMoved
  <2>3. sh'.pc = "insert" /\ entry'[sh'.vm] = NoTask =>
          \A u \in Task : pc'[u] # "unused" /\ vmOf'[u] = sh'.vm => pc'[u] = "spawned"
    BY Zenon, <2>1, <2>2 DEF LocalInv
  <2> QED
    BY Zenon, <2>1, <2>3 DEF LocalInv
<1>3. ASSUME NEW n \in Task, TaskSpawned(t, n) PROVE LocalInv'
  <2>1. vmOf[t] \in listed
    BY Zenon, <1>3 DEF TaskSpawned, LocalInv
  <2>2. sh.pc = "insert" /\ entry[sh.vm] = NoTask => vmOf[t] # sh.vm
    BY Zenon, <1>3 DEF TaskSpawned, LocalInv
  <2>3. \A u \in Task : pc'[u] # "unused" => vmOf'[u] \in listed
    BY Zenon, <1>3, <2>1 DEF TaskSpawned, LocalInv
  <2>4. n # t /\ vmOf'[t] = vmOf[t]
    BY Zenon, <1>3 DEF TaskSpawned
  <2>5. sh.pc = "insert" /\ entry[sh.vm] = NoTask =>
          \A u \in Task : pc'[u] # "unused" /\ vmOf'[u] = sh.vm => pc'[u] = "spawned"
    BY Zenon, <1>3, <2>2, <2>4 DEF TaskSpawned, LocalInv
  <2> QED
    BY Zenon, <1>3, <2>3, <2>5 DEF TaskSpawned, LocalInv
<1> QED
  BY Zenon, <1>1, <1>2, <1>3, TaskMovedOr

\* Without delete, and with vCPU tasks that run only when their spawner waits,
\* the VMM panics only in answer to an exit of a guest that it cannot serve: a
\* shutdown of a VM that is already stopping, a power-on of a CPU that is not
\* there, that is running, or whose entry point is refused, and an interrupt
\* sent to another vCPU.  Every look-up of an entry and of a VM succeeds,
\* whatever the number of VMs and vCPUs.
THEOREM OnlyGuestPanics ==
  ASSUME RemoteVcpu = FALSE, "delete" \notin Commands
  PROVE  Spec => [](panic = "none" \/ GuestPanic(panic))
<1> DEFINE Safe == panic = "none" \/ GuestPanic(panic)
<1>1. Init => LocalInv /\ Safe
  BY Zenon, EntryInit DEF Init
<1>2. TypeOK /\ MainInv /\ EntryInv /\ LocalInv /\ Safe /\ [Next]_vars => LocalInv' /\ Safe'
  <2> SUFFICES ASSUME TypeOK, MainInv, EntryInv, LocalInv, Safe, [Next]_vars
               PROVE  LocalInv' /\ Safe'
    BY Zenon
  <2>1. CASE MainStep \/ TypeCommand
    <3>1. panic' = panic
      BY Zenon, <2>1, EntryMain
    <3> QED
      BY Zenon, <2>1, <3>1, LocalMain DEF GuestPanic
  <2>2. ASSUME NEW t \in Task, vcpu_run(t) PROVE LocalInv' /\ Safe'
    <3>1. LocalInv'
      BY Zenon, <2>2, LocalTask
    <3>2. pc[t] # "unused" =>
            vmOf[t] \in listed /\ (sh.pc = "insert" /\ sh.vm = vmOf[t] /\ entry[sh.vm] = NoTask
                                    => pc[t] = "spawned")
      BY Zenon DEF LocalInv
    <3>3. panic' = panic \/ GuestPanic(panic')
      BY Zenon, <2>2, <3>2, EntryTask
    <3> QED
      BY Zenon, <3>1, <3>3 DEF GuestPanic
  <2>3. CASE UNCHANGED vars
    BY Zenon, <2>3 DEF vars, LocalInv, GuestPanic
  <2> QED
    BY Zenon, <2>1, <2>2, <2>3 DEF Next
<1> QED
  BY <1>1, <1>2, EntryCorrect, MainInvCorrect, PTL DEF Spec

-----------------------------------------------------------------------------
(* Every task of a listed VM can be joined.                                *)

\* A step that leaves the lists and what is being added alone.
LEMMA JoinSame ==
  ASSUME JoinInv, vmOf \in [Task -> VM], UNCHANGED <<entry, taskList, vmOf, spawnee>>,
         \A t \in Task : pc'[t] \in JoinPc /\ vmOf[t] \in listed' =>
                            pc[t] \in JoinPc /\ vmOf[t] \in listed,
         \A t \in Task : AboutToInsert(t) => AboutToInsert(t)'
  PROVE  JoinInv'
<1> SUFFICES ASSUME NEW t \in Task, pc'[t] \in JoinPc, vmOf'[t] \in listed'
             PROVE  \/ entry'[vmOf'[t]] # NoTask /\ t \in taskList'[vmOf'[t]]
                    \/ AboutToInsert(t)' \/ BeingAdded(t)'
  BY Zenon DEF JoinInv
<1>0. vmOf'[t] = vmOf[t] /\ pc[t] \in JoinPc /\ vmOf[t] \in listed
  BY Zenon
<1>1. \/ entry[vmOf[t]] # NoTask /\ t \in taskList[vmOf[t]]
      \/ AboutToInsert(t) \/ BeingAdded(t)
  BY ONLY JoinInv, <1>0, t \in Task, Zenon DEF JoinInv
<1>2. BeingAdded(t) => BeingAdded(t)'
  BY Zenon DEF BeingAdded
<1>3. AboutToInsert(t) => AboutToInsert(t)'
  BY Zenon
<1>4. entry[vmOf[t]] # NoTask /\ t \in taskList[vmOf[t]] =>
        entry'[vmOf'[t]] # NoTask /\ t \in taskList'[vmOf'[t]]
  BY Zenon
<1> QED
  BY ONLY <1>1, <1>2, <1>3, <1>4, Zenon

\* A step of the main thread keeps JoinInv.
LEMMA JoinMain ==
  ASSUME TypeOK, MainInv, JoinInv, FreshSetup, MainStep \/ TypeCommand
  PROVE  JoinInv'
<1>0. /\ sh.vm \in VM /\ vmOf \in [Task -> VM] /\ NoTask \notin Task
      /\ (sh.pc = "insert" => sh.task \in Task /\ vmOf[sh.task] = sh.vm)
      /\ LoadingHasNoTask /\ (sh.pc = "deleteCleanup" => sh.vm \notin listed)
      /\ "unused" \notin JoinPc
  BY Zenon, TaskAssumption DEF TypeOK, ShellTypeOK, ShellState, MainInv, Ordered, JoinPc, CountedPc
<1>1. ASSUME MainOnly, sh.pc # "insert" PROVE JoinInv'
  BY Zenon, <1>0, <1>1, JoinSame DEF MainOnly, AboutToInsert
<1>2. CASE InitEnds \/ Takes("init", "setup") \/ Takes("start", "boot") \/ StartEnds
  BY Zenon, <1>1, <1>2 DEF InitEnds, Takes, StartEnds
<1>3. CASE Spawns
  <2>1. PICK n \in Task : /\ sh.pc = "setup" /\ sh'.pc = "insert" /\ sh'.task = n
                          /\ pc[n] = "unused" /\ vmOf'[n] = sh.vm
                          /\ \A u \in Task : u # n => pc'[u] = pc[u] /\ vmOf'[u] = vmOf[u]
                          /\ UNCHANGED <<listed, entry, taskList, spawnee>>
    BY Zenon, <1>3 DEF Spawns
  <2>2. spawnee[n] = NoTask
    BY Zenon, <2>1 DEF MainInv, Powering
  <2> SUFFICES ASSUME NEW t \in Task, pc'[t] \in JoinPc, vmOf'[t] \in listed, t # n
               PROVE  \/ entry[vmOf[t]] # NoTask /\ t \in taskList[vmOf[t]]
                      \/ BeingAdded(t)'
    BY Zenon, <2>1 DEF JoinInv, AboutToInsert
  <2>3. \/ entry[vmOf[t]] # NoTask /\ t \in taskList[vmOf[t]]
        \/ BeingAdded(t)
    BY Zenon, <2>1 DEF JoinInv, AboutToInsert
  <2>4. ASSUME NEW u \in Task, spawnee[u] = t, vmOf[u] = vmOf[t] PROVE BeingAdded(t)'
    <3>1. u # n
      BY Zenon, <1>0, <2>2, <2>4
    <3> QED
      BY Zenon, <2>1, <2>4, <3>1 DEF BeingAdded
  <2> QED
    BY Zenon, <2>3, <2>4 DEF BeingAdded
<1>4. CASE Inserts
  <2>1. /\ sh.pc = "insert" /\ sh'.pc # "insert" /\ UNCHANGED <<listed, vmOf, pc, spawnee>>
        /\ \A v \in VM : /\ entry'[v] = IF v = sh.vm THEN sh.task ELSE entry[v]
                         /\ taskList'[v] = IF v = sh.vm THEN {sh.task} ELSE taskList[v]
    BY Zenon, <1>4 DEF Inserts
  <2> SUFFICES ASSUME NEW t \in Task, pc[t] \in JoinPc, vmOf[t] \in listed
               PROVE  \/ entry'[vmOf[t]] # NoTask /\ t \in taskList'[vmOf[t]]
                      \/ BeingAdded(t)'
    BY Zenon, <2>1 DEF JoinInv
  <2>2. CASE vmOf[t] = sh.vm
    <3>1. t = sh.task
      BY Zenon, <2>1, <2>2 DEF FreshSetup
    <3> QED
      BY Zenon, <1>0, <2>1, <2>2, <3>1
  <2>3. CASE vmOf[t] # sh.vm
    <3>1. \/ entry[vmOf[t]] # NoTask /\ t \in taskList[vmOf[t]]
          \/ BeingAdded(t)
      BY Zenon, <1>0, <2>1, <2>3 DEF JoinInv, AboutToInsert
    <3>2. BeingAdded(t) => BeingAdded(t)'
      BY Zenon, <2>1 DEF BeingAdded
    <3>3. entry'[vmOf[t]] = entry[vmOf[t]] /\ taskList'[vmOf[t]] = taskList[vmOf[t]]
      BY Zenon, <1>0, <2>1, <2>3
    <3> QED
      BY Zenon, <3>1, <3>2, <3>3
  <2> QED BY Zenon, <2>2, <2>3
<1>5. CASE Boots \/ ShutsDown \/ Suspends \/ Resumes \/ DeleteSets
  <2>1. sh.pc # "insert" /\ UNCHANGED <<listed, entry, taskList, vmOf, spawnee, pc>>
    BY Zenon, <1>5 DEF Boots, ShutsDown, Suspends, Resumes, DeleteSets, Sets
  <2> QED
    BY Zenon, <1>0, <2>1, JoinSame DEF AboutToInsert
<1>6. CASE Notifies \/ NotifyPanics \/ Adds \/ Waits \/ NotifiesAll
  <2>1. sh.pc # "insert" /\ UNCHANGED <<listed, entry, taskList, vmOf, spawnee, pc>>
    BY Zenon, <1>6 DEF Notifies, NotifyPanics, Adds, Waits, NotifiesAll, MainOnly
  <2> QED
    BY Zenon, <1>0, <2>1, JoinSame DEF AboutToInsert
<1>7. CASE Decides
  BY Zenon, <1>1, <1>7 DEF Decides, CheckPc
<1>8. CASE Removes
  BY Zenon, <1>0, <1>8, JoinSame DEF Removes, AboutToInsert
<1>9. CASE CleansUp
  <2>1. /\ sh.pc = "deleteCleanup" /\ UNCHANGED <<listed, vmOf, pc, spawnee>>
        /\ \A v \in VM : v # sh.vm => entry'[v] = entry[v] /\ taskList'[v] = taskList[v]
    BY Zenon, <1>9 DEF CleansUp
  <2> SUFFICES ASSUME NEW t \in Task, pc[t] \in JoinPc, vmOf[t] \in listed
               PROVE  \/ entry'[vmOf[t]] # NoTask /\ t \in taskList'[vmOf[t]]
                      \/ BeingAdded(t)'
    BY Zenon, <2>1 DEF JoinInv
  <2>2. entry'[vmOf[t]] = entry[vmOf[t]] /\ taskList'[vmOf[t]] = taskList[vmOf[t]]
    BY Zenon, <1>0, <2>1
  <2>3. BeingAdded(t) => BeingAdded(t)'
    BY Zenon, <2>1 DEF BeingAdded
  <2> QED
    BY Zenon, <2>1, <2>2, <2>3 DEF JoinInv, AboutToInsert
<1>10. CASE Creates
  <2>1. PICK w \in VM \ listed : status[w] = "Loading" /\ listed' = listed \cup {w}
    BY Zenon, <1>10 DEF Creates
  <2>2. \A t \in Task : pc[t] \in JoinPc => vmOf[t] # w
    BY Zenon, <1>0, <2>1 DEF LoadingHasNoTask
  <2> QED
    BY Zenon, <1>0, <1>10, <2>1, <2>2, JoinSame DEF Creates, AboutToInsert
<1>11. ASSUME NEW c, NEW first \in CheckPc, Types(c, first) PROVE JoinInv'
  BY Zenon, <1>1, <1>11 DEF Types
<1> QED
  BY ZenonT(40), <1>2, <1>3, <1>4, <1>5, <1>6, <1>7, <1>8, <1>9, <1>10, <1>11, MainView,
     CommandView DEF CheckPc

\* A step of a vCPU task keeps JoinInv.
LEMMA JoinTask ==
  ASSUME TypeOK, MainInv, JoinInv, NEW t \in Task, vcpu_run(t)
  PROVE  JoinInv'
<1>0. vmOf \in [Task -> VM] /\ NoTask \notin Task
  BY Zenon, TaskAssumption DEF TypeOK
<1>1. CASE TaskPanics(t)
  BY Zenon, <1>0, <1>1, JoinSame DEF TaskPanics, AboutToInsert
<1>2. CASE Moves(t)
  BY Zenon, <1>0, <1>2, JoinSame DEF Moves, AboutToInsert
<1>3. CASE Exits(t) \/ Subtracts(t)
  BY Zenon, <1>0, <1>3, JoinSame DEF Exits, Subtracts, AboutToInsert, JoinPc, CountedPc
<1>4. CASE GuestShutsDown(t) \/ DeclaresStopped(t)
  BY Zenon, <1>0, <1>4, JoinSame
  DEF GuestShutsDown, DeclaresStopped, SetsStatus, AboutToInsert, JoinPc, CountedPc
<1>5. CASE Wakes(t)
  BY Zenon, <1>0, <1>5, JoinSame DEF Wakes, AboutToInsert, JoinPc, CountedPc
<1>6. ASSUME NEW n \in Task, PowersOn(t, n) PROVE JoinInv'
  <2>1. /\ n # t /\ pc[t] = "guest" /\ pc[n] = "unused"
        /\ UNCHANGED <<sh, listed, entry, taskList>>
        /\ vmOf'[n] = vmOf[t] /\ spawnee'[t] = n
        /\ \A u \in Task : u # n => vmOf'[u] = vmOf[u]
        /\ \A u \in Task : u # t => spawnee'[u] = spawnee[u]
        /\ \A u \in Task : u # n /\ u # t => pc'[u] = pc[u]
    BY Zenon, <1>6 DEF PowersOn
  <2>2. spawnee[t] = NoTask /\ spawnee[n] = NoTask
    BY Zenon, <2>1 DEF MainInv, Powering
  <2>3. BeingAdded(n)'
    BY Zenon, <2>1 DEF BeingAdded
  <2> SUFFICES ASSUME NEW u \in Task, u # n, pc'[u] \in JoinPc, vmOf'[u] \in listed
               PROVE  \/ entry[vmOf[u]] # NoTask /\ u \in taskList[vmOf[u]]
                      \/ AboutToInsert(u)' \/ BeingAdded(u)'
    BY Zenon, <2>1, <2>3 DEF JoinInv
  <2>4. pc[u] \in JoinPc /\ vmOf[u] \in listed
    BY Zenon, <2>1 DEF JoinPc, CountedPc
  <2>5. \/ entry[vmOf[u]] # NoTask /\ u \in taskList[vmOf[u]]
        \/ AboutToInsert(u) \/ BeingAdded(u)
    BY Zenon, <2>4 DEF JoinInv
  <2>6. AboutToInsert(u) => AboutToInsert(u)'
    BY Zenon, <2>1 DEF AboutToInsert
  <2>7. ASSUME NEW w \in Task, spawnee[w] = u, vmOf[w] = vmOf[u] PROVE BeingAdded(u)'
    <3>1. w # t /\ w # n
      BY Zenon, <1>0, <2>2, <2>7
    <3> QED
      BY Zenon, <2>1, <2>7, <3>1 DEF BeingAdded
  <2> QED
    BY Zenon, <2>5, <2>6, <2>7 DEF BeingAdded
<1>7. CASE AddsTask(t)
  <2>1. /\ pc[t] = "adding" /\ entry[vmOf[t]] # NoTask
        /\ UNCHANGED <<sh, listed, entry, vmOf>>
        /\ \A u \in Task : u # t => pc'[u] = pc[u] /\ spawnee'[u] = spawnee[u]
        /\ \A v \in VM : taskList[v] \subseteq taskList'[v]
        /\ spawnee[t] \in taskList'[vmOf[t]]
    BY Zenon, <1>0, <1>7 DEF AddsTask
  <2> SUFFICES ASSUME NEW u \in Task, pc'[u] \in JoinPc, vmOf[u] \in listed
               PROVE  \/ entry[vmOf[u]] # NoTask /\ u \in taskList'[vmOf[u]]
                      \/ AboutToInsert(u)' \/ BeingAdded(u)'
    BY Zenon, <2>1 DEF JoinInv
  <2>2. pc[u] \in JoinPc
    BY Zenon, <2>1 DEF JoinPc, CountedPc
  <2>3. \/ entry[vmOf[u]] # NoTask /\ u \in taskList[vmOf[u]]
        \/ AboutToInsert(u) \/ BeingAdded(u)
    BY Zenon, <2>2 DEF JoinInv
  <2>4. AboutToInsert(u) => AboutToInsert(u)'
    BY Zenon, <2>1 DEF AboutToInsert
  <2>5. ASSUME NEW w \in Task, spawnee[w] = u, vmOf[w] = vmOf[u]
        PROVE  BeingAdded(u)' \/ (entry[vmOf[u]] # NoTask /\ u \in taskList'[vmOf[u]])
    BY Zenon, <2>1, <2>5 DEF BeingAdded
  <2> QED
    BY Zenon, <1>0, <2>1, <2>3, <2>4, <2>5 DEF BeingAdded
<1> QED
  BY ZenonT(40), <1>1, <1>2, <1>3, <1>4, <1>5, <1>6, <1>7, TaskView, TaskMoves

\* JoinInv is kept and implies TasksJoinable where a VM is set up only when no
\* other task of it is left.
LEMMA JoinStep ==
  ASSUME TypeOK, MainInv, JoinInv, FreshSetup, [Next]_vars
  PROVE  JoinInv'
<1>1. CASE MainStep \/ TypeCommand
  BY Zenon, <1>1, JoinMain
<1>2. CASE \E t \in Task : vcpu_run(t)
  BY Zenon, <1>2, JoinTask
<1>3. CASE UNCHANGED vars
  BY Zenon, <1>3 DEF vars, JoinInv, AboutToInsert, BeingAdded
<1> QED
  BY Zenon, <1>1, <1>2, <1>3 DEF Next

\* At the start there is no task to join.
LEMMA JoinInit == Init => JoinInv
<1> SUFFICES ASSUME Init PROVE JoinInv
  OBVIOUS
<1>1. \A t \in Task : pc[t] = "unused"
  BY Zenon DEF Init
<1> QED
  BY Zenon, <1>1 DEF JoinInv, JoinPc, CountedPc

\* JoinInv is what cleanup_vm_vcpus needs.
LEMMA Joinable == JoinInv => TasksJoinable
  BY Zenon DEF JoinInv, JoinPc, AboutToInsert, BeingAdded, TasksJoinable

-----------------------------------------------------------------------------
(* Without start and restart, guests with any number of vCPUs.             *)

\* At the start every VM is still to be set up.
LEMMA OnceInit == Init => OnceInv
<1> SUFFICES ASSUME Init PROVE OnceInv
  OBVIOUS
<1>1. \A t \in Task : pc[t] = "unused"
  BY Zenon DEF Init
<1>2. /\ sh.pc = "init" /\ sh.phase = "init" /\ sh.todo = listed
      /\ \A v \in VM : v \in listed <=> status[v] = "Loaded"
  BY Zenon, BootVMsAssumption DEF Init, ShellInit
<1> QED
  BY Zenon, <1>1, <1>2 DEF OnceInv, InitLoop

\* A step of the main thread keeps OnceInv.
LEMMA OnceMain ==
  ASSUME Commands \cap {"start", "restart"} = {}, TypeOK, MainInv, OnceInv,
         MainStep \/ TypeCommand
  PROVE  OnceInv'
<1>0. /\ sh.vm \in VM /\ sh.phase \in {"init", "start", "shell"}
      /\ vmOf \in [Task -> VM] /\ listed \subseteq VM /\ sh.todo \subseteq VM
      /\ (sh.pc = "insert" => sh.task \in Task)
      /\ PhasePc /\ LoadingHasNoTask
      /\ sh.phase = "shell" => sh.pc \notin SetupPc \cup {"startCheck"}
      /\ sh.pc \notin {"restartCheck", "restartPoll"}
  BY Zenon DEF TypeOK, ShellTypeOK, ShellState, MainInv, Allowed
<1> USE DEF OnceInv, InitLoop, PhasePc
<1>1. CASE InitEnds \/ Takes("init", "setup") \/ Takes("start", "boot") \/ StartEnds
  <2>1. CASE InitEnds
    <3>1. /\ sh.pc = "init" /\ sh'.pc = "start" /\ sh'.phase = "start" /\ sh'.todo = listed
          /\ UNCHANGED <<status, pc, vmOf>>
      BY Zenon, <2>1 DEF InitEnds, MainOnly
    <3>2. sh.phase = "init"
      BY Zenon, <1>0, <3>1 DEF SetupPc
    <3> QED
      BY Zenon, <1>0, <3>1, <3>2
  <2>2. CASE StartEnds
    <3>1. /\ sh'.pc = "vmmWait" /\ sh'.phase = sh.phase /\ sh'.todo = sh.todo /\ sh.pc = "start"
          /\ UNCHANGED <<status, pc, vmOf>>
      BY Zenon, <2>2 DEF StartEnds, SameVm, MainOnly
    <3>2. sh.phase = "start"
      BY Zenon, <1>0, <3>1
    <3> QED
      BY Zenon, <1>0, <3>1, <3>2
  <2>3. CASE Takes("init", "setup")
    <3>1. /\ sh'.pc = "setup" /\ sh'.phase = sh.phase /\ sh.pc = "init"
          /\ sh'.vm \in sh.todo /\ sh'.todo = sh.todo \ {sh'.vm}
          /\ UNCHANGED <<status, listed, pc, vmOf>>
      BY Zenon, <2>3 DEF Takes, MainOnly
    <3>2. sh.phase = "init"
      BY Zenon, <1>0, <3>1
    <3> QED
      BY Zenon, <1>0, <3>1, <3>2
  <2>4. CASE Takes("start", "boot")
    <3>1. /\ sh'.pc = "boot" /\ sh'.phase = sh.phase /\ sh.pc = "start"
          /\ sh'.vm \in sh.todo /\ sh'.todo = sh.todo \ {sh'.vm}
          /\ UNCHANGED <<status, listed, pc, vmOf>>
      BY Zenon, <2>4 DEF Takes, MainOnly
    <3>2. sh.phase = "start"
      BY Zenon, <1>0, <3>1
    <3> QED
      BY Zenon, <1>0, <3>1, <3>2
  <2> HIDE DEF OnceInv
  <2> QED
    BY Zenon, <1>1, <2>1, <2>2, <2>3, <2>4
<1>2. CASE Spawns
  <2>1. /\ sh.pc = "setup" /\ sh'.pc = "insert" /\ sh'.phase = sh.phase /\ sh'.vm = sh.vm
        /\ sh'.todo = sh.todo /\ sh'.task \in Task /\ UNCHANGED <<status, listed>>
        /\ pc'[sh'.task] = "spawned" /\ vmOf'[sh'.task] = sh.vm
        /\ \A u \in Task : u # sh'.task => pc'[u] = pc[u] /\ vmOf'[u] = vmOf[u]
    BY Zenon, <1>2 DEF Spawns, SameVm
  <2>2. sh.phase = "init"
    BY Zenon, <1>0, <2>1 DEF SetupPc
  <2>3. sh.vm \in listed \ sh.todo
    BY Zenon, <2>1, <2>2
  <2>4. \A u \in Task : pc'[u] # "unused" => vmOf'[u] \notin sh.todo
    BY Zenon, <2>1, <2>2, <2>3
  <2>5. \A u \in Task : pc[u] # "unused" => vmOf[u] # sh.vm
    BY Zenon, <2>1
  <2>6. \A u \in Task : status[vmOf'[u]] = "Loaded" => pc'[u] \in {"unused", "spawned", "waitRunning"}
    BY ZenonT(40), <2>1
  <2>7. sh.todo \subseteq listed /\ \A v \in VM : v \in listed <=> status[v] = "Loaded"
    BY Zenon, <2>2
  <2> HIDE DEF OnceInv
  <2>8. \A u \in Task : pc'[u] # "unused" /\ vmOf'[u] = sh.vm => u = sh'.task
    BY Zenon, <2>1, <2>5
  <2>9. InitLoop'
    <3>1. /\ \A v \in VM : v \in listed' <=> status'[v] = "Loaded"
          /\ sh'.todo \subseteq listed' /\ sh'.vm \in listed' \ sh'.todo
      BY Zenon, <2>1, <2>3, <2>7
    <3>2. \A u \in Task : pc'[u] # "unused" => vmOf'[u] \notin sh'.todo
      BY Zenon, <2>1, <2>4
    <3> QED BY Zenon, <3>1, <3>2
  <2> HIDE DEF InitLoop
  <2>10. /\ sh'.pc # "setup" /\ sh'.phase # "start"
         /\ \A u \in Task : pc'[u] # "unused" /\ vmOf'[u] = sh'.vm => u = sh'.task
         /\ \A u \in Task : status'[vmOf'[u]] = "Loaded"
                             => pc'[u] \in {"unused", "spawned", "waitRunning"}
    BY Zenon, <2>1, <2>2, <2>6, <2>8
  <2> QED
    BY Zenon, <2>9, <2>10 DEF OnceInv
<1>3. CASE Inserts
  BY ZenonT(40), <1>0, <1>3 DEF Inserts, SameVm, SetupPc
<1>4. CASE Boots
  <2>1. /\ sh.pc = "boot" /\ sh'.pc = "notify" /\ sh'.phase = sh.phase /\ sh'.todo = sh.todo
        /\ UNCHANGED <<pc, vmOf>>
        /\ \A v \in VM : status'[v] = IF v = sh.vm THEN "Running" ELSE status[v]
    BY Zenon, <1>4 DEF Boots, Sets, SameVm
  <2>2. sh.phase = "start"
    BY Zenon, <1>0, <2>1 DEF SetupPc
  <2>3. \A v \in VM : status'[v] = "Loaded" => status[v] = "Loaded"
    BY Zenon, <2>1
  <2>4. \A v \in sh.todo : status'[v] = "Loaded"
    BY ZenonT(40), <1>0, <2>1, <2>2
  <2> QED
    BY ZenonT(40), <1>0, <2>1, <2>2, <2>3, <2>4
<1>5. CASE ShutsDown \/ Suspends \/ Resumes \/ DeleteSets
  <2>1. PICK s \in {"Stopping", "Stopped", "Suspended", "Running"} : Sets(s)
    BY Zenon, <1>5 DEF ShutsDown, Suspends, Resumes, DeleteSets
  <2>2. /\ sh.pc \in {"shutdown", "suspendSet", "resumeSet", "deleteStopping", "deleteShutdown", "deleteStopped"}
        /\ sh'.pc \in {"idle", "restartPoll", "resumeNotify", "deleteShutdown", "deleteRemove"}
    BY Zenon, <1>5 DEF ShutsDown, Suspends, Resumes, DeleteSets
  <2>3. sh.phase = "shell" /\ sh'.pc \notin {"setup", "insert"}
    BY Zenon, <1>0, <2>2 DEF PhasePc
  <2>4. /\ sh'.phase = sh.phase /\ pc' = pc /\ vmOf' = vmOf
        /\ \A v \in VM : status'[v] = "Loaded" => status[v] = "Loaded"
    BY Zenon, <2>1 DEF Sets, SameVm
  <2> QED
    BY Zenon, <1>0, <2>3, <2>4
<1>6. CASE Notifies \/ NotifyPanics \/ Adds \/ Waits \/ NotifiesAll
  BY ZenonT(40), <1>0, <1>6 DEF Notifies, NotifyPanics, Adds, Waits, NotifiesAll, SameVm, MainOnly
<1>7. CASE Decides
  BY Zenon, <1>0, <1>7 DEF Decides, CheckPc, SameVm, MainOnly
<1>8. CASE Removes \/ CleansUp
  BY ZenonT(40), <1>0, <1>8 DEF Removes, CleansUp, SameVm
<1>9. CASE Creates
  BY <1>0, <1>9 DEF Creates, SameVm, LoadingHasNoTask
<1>10. ASSUME NEW c, NEW first \in CheckPc, Types(c, first) PROVE OnceInv'
  BY Zenon, <1>0, <1>10 DEF Types, CheckPc, MainOnly
<1> QED
  BY ZenonT(40), <1>1, <1>2, <1>3, <1>4, <1>5, <1>6, <1>7, <1>8, <1>9, <1>10, MainView, CommandView
  DEF CheckPc

\* A step of a vCPU task keeps OnceInv.
LEMMA OnceTask ==
  ASSUME Commands \cap {"start", "restart"} = {}, TypeOK, MainInv, OnceInv,
         NEW t \in Task, vcpu_run(t)
  PROVE  OnceInv'
<1>0. /\ vmOf \in [Task -> VM] /\ listed \subseteq VM /\ sh.vm \in VM
      /\ sh.todo \subseteq VM
      /\ (sh.pc = "insert" => sh.task \in Task)
      /\ sh.pc \in {"setup", "insert"} => sh.phase = "init"
  BY Zenon DEF TypeOK, ShellTypeOK, ShellState, MainInv, PhasePc, Allowed, SetupPc
<1> USE DEF OnceInv, InitLoop
<1>1. CASE TaskPanics(t)
  BY Zenon, <1>1 DEF TaskPanics
<1>2. ASSUME pc[t] # "unused", \A u \in Task : u # t => pc'[u] = pc[u],
             pc'[t] \in {"spawned", "waitRunning"} \/ status[vmOf[t]] # "Loaded",
             UNCHANGED <<status, listed, vmOf, sh>>
      PROVE  OnceInv'
  <2>1. \A u \in Task : /\ pc'[u] # "unused" => pc[u] # "unused"
                        /\ status[vmOf[u]] = "Loaded" => pc'[u] \in {"unused", "spawned", "waitRunning"}
    BY Zenon, <1>2
  <2>2. InitLoop'
    BY Zenon, <1>2, <2>1
  <2> QED
    BY Zenon, <1>2, <2>1, <2>2
<1>3. CASE Moves(t)
  <2>1. pc[t] \in {"spawned", "waitRunning"} \/ status[vmOf[t]] # "Loaded"
    BY Zenon, <1>3 DEF Moves, JoinPc, CountedPc
  <2> QED
    BY Zenon, <1>2, <1>3, <2>1 DEF Moves, JoinPc, CountedPc
<1>8. CASE Exits(t)
  BY Zenon, <1>2, <1>8 DEF Exits
<1>4. CASE Subtracts(t) \/ AddsTask(t)
  BY ZenonT(40), <1>2, <1>4 DEF Subtracts, AddsTask
<1>5. CASE GuestShutsDown(t) \/ DeclaresStopped(t)
  <2>1. /\ pc[t] \in {"guest", "lastExit"} /\ pc'[t] \in {"checkSuspend", "subCount"}
        /\ status'[vmOf[t]] \in {"Stopping", "Stopped"}
        /\ \A u \in Task : u # t => pc'[u] = pc[u]
        /\ \A v \in VM : v # vmOf[t] => status'[v] = status[v]
        /\ UNCHANGED <<listed, vmOf, sh>>
    BY Zenon, <1>0, <1>5 DEF GuestShutsDown, DeclaresStopped, SetsStatus
  <2>2. status[vmOf[t]] # "Loaded" /\ status'[vmOf[t]] # "Loaded"
    BY Zenon, <2>1
  <2>3. \A v \in VM : status'[v] = "Loaded" <=> status[v] = "Loaded"
    BY Zenon, <2>1, <2>2
  <2>4. \A u \in Task : /\ pc'[u] # "unused" => pc[u] # "unused"
                        /\ status[vmOf[u]] = "Loaded" => pc'[u] = pc[u]
    BY Zenon, <2>1, <2>2
  <2> QED
    BY ZenonT(40), <1>0, <2>1, <2>3, <2>4
<1>6. ASSUME NEW n \in Task, PowersOn(t, n) PROVE OnceInv'
  <2>1. /\ n # t /\ pc[t] = "guest" /\ UNCHANGED <<status, listed, sh>>
        /\ pc'[n] = "spawned" /\ vmOf'[n] = vmOf[t]
        /\ \A u \in Task \ {n} : /\ vmOf'[u] = vmOf[u]
                                 /\ pc'[u] = IF u = t THEN "adding" ELSE pc[u]
    BY Zenon, <1>0, <1>6 DEF PowersOn
  <2>2. status[vmOf[t]] # "Loaded" /\ vmOf[t] \in VM
    BY Zenon, <1>0, <2>1
  <2>3. sh.phase = "init" => vmOf[t] \notin listed /\ vmOf[t] \notin sh.todo
    BY ZenonT(40), <2>1, <2>2
  <2>4. InitLoop'
    BY <1>0, <2>1, <2>3
  <2>5. \A u \in Task : status'[vmOf'[u]] = "Loaded"
                          => pc'[u] \in {"unused", "spawned", "waitRunning"}
    BY Zenon, <2>1, <2>2
  <2>6. sh.pc \in {"setup", "insert"} => vmOf[t] # sh.vm
    BY ZenonT(40), <1>0, <2>3
  <2> QED
    BY SMTT(30), <1>0, <2>1, <2>4, <2>5, <2>6
<1>7. CASE Wakes(t)
  BY <1>0, <1>7 DEF Wakes, SameVm
<1> QED
  BY ZenonT(40), <1>1, <1>3, <1>4, <1>5, <1>6, <1>7, <1>8, TaskView, TaskMoves

\* OnceInv holds where the operator does not start or restart a VM.
LEMMA OnceCorrect ==
  ASSUME Commands \cap {"start", "restart"} = {} PROVE Spec => []OnceInv
<1>1. TypeOK /\ MainInv /\ OnceInv /\ [Next]_vars => OnceInv'
  <2> SUFFICES ASSUME TypeOK, MainInv, OnceInv, [Next]_vars PROVE OnceInv'
    BY Zenon
  <2>1. CASE MainStep \/ TypeCommand
    BY Zenon, <2>1, OnceMain
  <2>2. CASE \E t \in Task : vcpu_run(t)
    BY Zenon, <2>2, OnceTask
  <2>3. CASE UNCHANGED vars
    BY Zenon, <2>3 DEF vars, OnceInv, InitLoop
  <2> QED
    BY Zenon, <2>1, <2>2, <2>3 DEF Next
<1> QED
  BY <1>1, OnceInit, MainInvCorrect, PTL DEF Spec

\* Guests with any number of vCPUs: unless the operator starts a VM again, every
\* started task of a listed VM finds its entry and is on the list that
\* cleanup_vm_vcpus joins, or its spawner is about to put it there.  This holds
\* for secondary vCPUs that the guest powered on, on whatever CPU they start.
THEOREM SmpTasksJoinable ==
  ASSUME Commands \cap {"start", "restart"} = {}
  PROVE  Spec => []TasksJoinable
<1>1. OnceInv => FreshSetup
  BY Zenon DEF OnceInv, FreshSetup, JoinPc, CountedPc
<1>2. TypeOK /\ MainInv /\ OnceInv /\ JoinInv /\ [Next]_vars => JoinInv'
  BY Zenon, <1>1, JoinStep
<1> QED
  BY <1>2, JoinInit, Joinable, MainInvCorrect, OnceCorrect, PTL DEF Spec

-----------------------------------------------------------------------------
(* The counter of an entry, guests with any number of vCPUs.               *)

\* Only what is between mark_vcpu_running and mark_vcpu_exiting is counted.
LEMMA CountedIs ==
  ASSUME NEW v PROVE Counted(v) = {t \in Task : pc[t] \in CountedPc /\ vmOf[t] = v}
  BY Zenon DEF Counted, TasksOf, CountedPc

\* The counted tasks of a VM are finitely many.
LEMMA CountedFinite == ASSUME NEW v PROVE IsFiniteSet(Counted(v))
<1>1. Counted(v) \subseteq Task
  BY Zenon DEF Counted, TasksOf
<1> QED
  BY Zenon, <1>1, FS_Subset, TaskAssumption

\* A step that leaves the entries, their counters and the counted tasks alone.
LEMMA CountSame ==
  ASSUME CountExact, UNCHANGED <<entry, count>>,
         \A u \in Task : /\ pc'[u] \in CountedPc <=> pc[u] \in CountedPc
                         /\ pc[u] \in CountedPc => vmOf'[u] = vmOf[u]
  PROVE  CountExact'
<1> SUFFICES ASSUME NEW v \in VM, entry[v] # NoTask
             PROVE  count[v] = Cardinality(Counted(v)')
  BY Zenon DEF CountExact
<1>1. Counted(v)' = {t \in Task : pc'[t] \in CountedPc /\ vmOf'[t] = v}
  BY Zenon DEF Counted, TasksOf, CountedPc
<1>2. Counted(v)' = Counted(v)
  BY Zenon, <1>1, CountedIs
<1> QED
  BY Zenon, <1>2 DEF CountExact

\* Without start and restart the counter of an entry stays exact.
LEMMA CountStep ==
  ASSUME Commands \cap {"start", "restart"} = {}, TypeOK, MainInv, OnceInv, CountExact,
         [Next]_vars
  PROVE  CountExact'
<1>0. /\ sh.vm \in VM /\ vmOf \in [Task -> VM] /\ count \in [VM -> Int]
      /\ (sh.pc = "insert" => sh.phase = "init")
  BY Zenon DEF TypeOK, ShellTypeOK, ShellState, MainInv, PhasePc, Allowed, SetupPc
<1>1. ASSUME UNCHANGED <<entry, count, vmOf, pc>> PROVE CountExact'
  BY Zenon, <1>1, CountSame
<1>2. CASE MainStep \/ TypeCommand
  <2>1. CASE Spawns
    BY Zenon, <2>1, CountSame DEF Spawns, CountedPc
  <2>2. CASE Inserts
    <3> SUFFICES ASSUME NEW v \in VM, entry'[v] # NoTask
                 PROVE  count'[v] = Cardinality(Counted(v)')
      BY Zenon DEF CountExact
    <3>1. Counted(v)' = Counted(v)
      BY Zenon, <2>2 DEF Inserts, Counted, TasksOf
    <3>2. CASE v = sh.vm
      <4>1. status[v] = "Loaded"
        BY Zenon, <1>0, <2>2, <3>2 DEF Inserts, OnceInv, InitLoop
      <4>2. Counted(v) = {}
        BY <4>1, CountedIs DEF OnceInv, CountedPc
      <4> QED
        BY Zenon, <2>2, <3>1, <3>2, <4>2, FS_EmptySet DEF Inserts
    <3>3. CASE v # sh.vm
      BY Zenon, <2>2, <3>1, <3>3 DEF Inserts, CountExact
    <3> QED BY Zenon, <3>2, <3>3
  <2>3. CASE CleansUp
    <3> SUFFICES ASSUME NEW v \in VM, entry'[v] # NoTask
                 PROVE  count'[v] = Cardinality(Counted(v)')
      BY DEF CountExact
    <3>1. Counted(v)' = Counted(v)
      BY Zenon, <2>3 DEF CleansUp, Counted, TasksOf
    <3> QED
      BY Zenon, <2>3, <3>1 DEF CleansUp, CountExact
  <2>4. CASE InitEnds \/ Takes("init", "setup") \/ Takes("start", "boot") \/ StartEnds
    BY Zenon, <1>1, <2>4 DEF InitEnds, Takes, StartEnds, MainOnly
  <2>5. CASE Boots \/ ShutsDown \/ Suspends \/ Resumes \/ DeleteSets
    BY Zenon, <1>1, <2>5 DEF Boots, ShutsDown, Suspends, Resumes, DeleteSets, Sets
  <2>6. CASE Notifies \/ NotifyPanics \/ Adds \/ Waits \/ NotifiesAll
    BY Zenon, <1>1, <2>6 DEF Notifies, NotifyPanics, Adds, Waits, NotifiesAll, MainOnly
  <2>7. CASE Decides \/ Removes \/ Creates
    BY Zenon, <1>1, <2>7 DEF Decides, Removes, Creates, MainOnly
  <2>8. ASSUME NEW c, NEW first, Types(c, first) PROVE CountExact'
    BY Zenon, <1>1, <2>8 DEF Types, MainOnly
  <2> QED
    BY ZenonT(40), <1>2, <2>1, <2>2, <2>3, <2>4, <2>5, <2>6, <2>7, <2>8, MainView, CommandView
<1>3. ASSUME NEW t \in Task, vcpu_run(t) PROVE CountExact'
  <2>1. CASE Marks(t)
    <3> SUFFICES ASSUME NEW v \in VM, entry'[v] # NoTask
                 PROVE  count'[v] = Cardinality(Counted(v)')
      BY Zenon DEF CountExact
    <3>1. Counted(v)' = {u \in Task : pc'[u] \in CountedPc /\ vmOf'[u] = v}
      BY Zenon DEF Counted, TasksOf, CountedPc
    <3>2. CASE v = vmOf[t]
      <4>1. Counted(v)' = Counted(v) \cup {t} /\ t \notin Counted(v)
        BY ZenonT(40), <2>1, <3>1, <3>2, CountedIs DEF Marks, CountedPc
      <4>2. Cardinality(Counted(v)') = Cardinality(Counted(v)) + 1
        BY Zenon, <4>1, CountedFinite, FS_AddElement
      <4> QED
        BY Zenon, <1>0, <2>1, <3>2, <4>2 DEF Marks, CountExact
    <3>3. CASE v # vmOf[t]
      <4>1. Counted(v)' = Counted(v)
        BY Zenon, <2>1, <3>1, <3>3, CountedIs DEF Marks, CountedPc
      <4> QED
        BY Zenon, <2>1, <3>3, <4>1 DEF Marks, CountExact
    <3> QED BY Zenon, <3>2, <3>3
  <2>2. CASE Exits(t)
    <3> SUFFICES ASSUME NEW v \in VM, entry'[v] # NoTask
                 PROVE  count'[v] = Cardinality(Counted(v)')
      BY DEF CountExact
    <3>1. Counted(v)' = {u \in Task : pc'[u] \in CountedPc /\ vmOf'[u] = v}
      BY DEF Counted, TasksOf, CountedPc
    <3>2. CASE v = vmOf[t]
      <4>1. Counted(v)' = Counted(v) \ {t} /\ t \in Counted(v)
        BY <2>2, <3>1, <3>2, CountedIs DEF Exits, CountedPc
      <4>2. Cardinality(Counted(v)') = Cardinality(Counted(v)) - 1
        BY Zenon, <4>1, CountedFinite, FS_RemoveElement
      <4> QED
        BY ZenonT(40), <1>0, <2>2, <3>2, <4>2 DEF Exits, CountExact
    <3>3. CASE v # vmOf[t]
      <4>1. Counted(v)' = Counted(v)
        BY SMTT(30), <2>2, <3>1, <3>3, CountedIs DEF Exits, CountedPc
      <4> QED
        BY ZenonT(40), <2>2, <3>3, <4>1 DEF Exits, CountExact
    <3> QED BY <3>2, <3>3
  <2>3. CASE TaskPanics(t)
    BY Zenon, <1>1, <2>3 DEF TaskPanics
  <2>4. CASE Starts(t) \/ Proceeds(t) \/ Blocks(t)
    BY Zenon, <2>4, CountSame DEF Starts, Proceeds, Blocks, Goes, CountedPc
  <2>5. CASE Halts(t) \/ Loops(t)
    BY Zenon, <2>5, CountSame DEF Halts, Loops, Goes, CountedPc
  <2>6. CASE GuestShutsDown(t) \/ DeclaresStopped(t)
    BY Zenon, <2>6, CountSame DEF GuestShutsDown, DeclaresStopped, SetsStatus, CountedPc
  <2>7. CASE Subtracts(t) \/ Wakes(t)
    BY Zenon, <2>7, CountSame DEF Subtracts, Wakes, CountedPc
  <2>8. ASSUME NEW n \in Task, PowersOn(t, n) PROVE CountExact'
    BY Zenon, <2>8, CountSame DEF PowersOn, CountedPc
  <2>9. CASE AddsTask(t)
    BY Zenon, <2>9, CountSame DEF AddsTask, CountedPc
  <2> QED
    BY ZenonT(40), <1>3, <2>1, <2>2, <2>3, <2>4, <2>5, <2>6, <2>7, <2>8, <2>9, TaskView
<1>4. CASE UNCHANGED vars
  BY Zenon, <1>1, <1>4 DEF vars
<1> QED
  BY Zenon, <1>2, <1>3, <1>4 DEF Next

\* Guests with any number of vCPUs: unless the operator starts a VM again,
\* running_halting_vcpu_count of every entry is the number of the VM's vCPU
\* tasks between mark_vcpu_running and mark_vcpu_exiting, in particular while
\* vCPUs are powered on and off.
THEOREM SmpCountExact ==
  ASSUME Commands \cap {"start", "restart"} = {} PROVE Spec => []CountExact
<1>1. Init => CountExact
  BY ZenonT(40) DEF Init, CountExact
<1>2. TypeOK /\ MainInv /\ OnceInv /\ CountExact /\ [Next]_vars => CountExact'
  BY Zenon, CountStep
<1> QED
  BY <1>1, <1>2, MainInvCorrect, OnceCorrect, PTL DEF Spec

-----------------------------------------------------------------------------
(* The last vCPU always declares its VM stopped.                           *)

\* A vCPU that is not the last to exit leaves another one counted.
LEMMA NotTheLast ==
  ASSUME CountExact, NEW t \in Task, vmOf[t] \in VM, pc[t] \in CountedPc,
         entry[vmOf[t]] # NoTask, count[vmOf[t]] # 1
  PROVE  \E u \in Task : u # t /\ pc[u] \in CountedPc /\ vmOf[u] = vmOf[t]
<1>1. t \in Counted(vmOf[t])
  BY Zenon, CountedIs
<1>2. Counted(vmOf[t]) # {t}
  BY Zenon, FS_Singleton DEF CountExact
<1>3. PICK u \in Counted(vmOf[t]) : u # t
  BY Zenon, <1>1, <1>2
<1> QED
  BY Zenon, <1>3, CountedIs

\* StopDeclared is kept when the operator only creates VMs.
LEMMA StopDeclaredStep ==
  ASSUME Commands \subseteq {"create"}, TypeOK, MainInv, OnceInv, CountExact, StopDeclared,
         [Next]_vars
  PROVE  StopDeclared'
<1>0. /\ sh.vm \in VM /\ sh.phase \in {"init", "start", "shell"} /\ vmOf \in [Task -> VM]
      /\ LoadingHasNoTask
      /\ sh.pc = "boot" => status[sh.vm] = "Loaded"
      /\ sh.pc \notin {"shutdown", "suspendSet", "resumeSet"} \cup DeletePc
  BY DEF TypeOK, ShellTypeOK, ShellState, MainInv, PhasePc, Allowed, SetupPc, OnceInv
<1>1. ASSUME UNCHANGED <<status, vmOf, pc>> PROVE StopDeclared'
  BY Zenon, <1>1 DEF StopDeclared
<1>2. CASE MainStep \/ TypeCommand
  <2>1. CASE Spawns
    <3>1. PICK n \in Task : /\ pc[n] = "unused" /\ pc'[n] = "spawned" /\ vmOf'[n] = sh.vm
                            /\ \A u \in Task : u # n => pc'[u] = pc[u] /\ vmOf'[u] = vmOf[u]
      BY Zenon, <2>1 DEF Spawns
    <3>2. status' = status
      BY Zenon, <2>1 DEF Spawns
    <3> SUFFICES ASSUME NEW v \in VM,
                        \E u \in Task : pc'[u] # "unused" /\ vmOf'[u] = v,
                        \A u \in Task : pc'[u] # "unused" /\ vmOf'[u] = v => pc'[u] \in EndedPc
                 PROVE  status[v] = "Stopped"
      BY Zenon, <3>2 DEF StopDeclared
    <3>3. v # sh.vm
      BY Zenon, <3>1 DEF EndedPc
    <3>4. \A u \in Task : pc[u] # "unused" /\ vmOf[u] = v => u # n /\ pc[u] \in EndedPc
      BY Zenon, <3>1
    <3>5. \E u \in Task : pc[u] # "unused" /\ vmOf[u] = v
      BY ZenonT(40), <3>1, <3>3
    <3> QED
      BY Zenon, <3>4, <3>5 DEF StopDeclared
  <2>2. CASE Boots
    BY <1>0, <2>2 DEF Boots, Sets, StopDeclared, OnceInv, EndedPc
  <2>3. CASE ShutsDown \/ Suspends \/ Resumes \/ DeleteSets \/ Removes \/ CleansUp
    BY Zenon, <1>0, <2>3 DEF ShutsDown, Suspends, Resumes, DeleteSets, Removes, CleansUp, DeletePc
  <2>4. CASE InitEnds \/ Takes("init", "setup") \/ Takes("start", "boot") \/ StartEnds
    BY Zenon, <1>1, <2>4 DEF InitEnds, Takes, StartEnds, MainOnly
  <2>5. CASE Notifies \/ NotifyPanics \/ Adds \/ Waits \/ NotifiesAll
    BY Zenon, <1>1, <2>5 DEF Notifies, NotifyPanics, Adds, Waits, NotifiesAll, MainOnly
  <2>6. CASE Decides \/ Inserts
    BY ZenonT(40), <1>1, <2>6 DEF Decides, Inserts, MainOnly
  <2>7. CASE Creates
    BY <1>0, <2>7 DEF Creates, StopDeclared, LoadingHasNoTask
  <2>8. ASSUME NEW c, NEW first, Types(c, first) PROVE StopDeclared'
    BY Zenon, <1>1, <2>8 DEF Types, MainOnly
  <2> QED
    BY ZenonT(40), <1>2, <2>1, <2>2, <2>3, <2>4, <2>5, <2>6, <2>7, <2>8, MainView, CommandView
<1>3. ASSUME NEW t \in Task, vcpu_run(t) PROVE StopDeclared'
  <2>0. vmOf[t] \in VM
    BY Zenon, <1>0
  <2>1. CASE TaskPanics(t)
    BY Zenon, <1>1, <2>1 DEF TaskPanics
  <2>2. CASE Moves(t)
    <3>1. pc[t] \notin EndedPc \cup {"unused"} /\ pc'[t] \notin EndedPc \cup {"unused"}
      BY ZenonT(40), <2>2 DEF Moves, JoinPc, CountedPc, EndedPc
    <3> QED
      BY Zenon, <2>0, <2>2, <3>1 DEF Moves, StopDeclared
  <2>5. CASE GuestShutsDown(t) \/ DeclaresStopped(t)
    <3>1. /\ pc[t] # "unused" /\ vmOf' = vmOf
          /\ pc'[t] = "checkSuspend" \/ status'[vmOf[t]] = "Stopped"
          /\ \A u \in Task : u # t => pc'[u] = pc[u]
          /\ \A v \in VM : v # vmOf[t] => status'[v] = status[v]
      BY Zenon, <2>0, <2>5 DEF GuestShutsDown, DeclaresStopped, SetsStatus
    <3> SUFFICES ASSUME NEW v \in VM,
                        \E u \in Task : pc'[u] # "unused" /\ vmOf'[u] = v,
                        \A u \in Task : pc'[u] # "unused" /\ vmOf'[u] = v => pc'[u] \in EndedPc
                 PROVE  status'[v] = "Stopped"
      BY Zenon DEF StopDeclared
    <3>2. CASE v = vmOf[t]
      BY Zenon, <3>1, <3>2 DEF EndedPc
    <3>3. CASE v # vmOf[t]
      <4>1. \A u \in Task : vmOf[u] = v => pc'[u] = pc[u] /\ vmOf'[u] = v
        BY Zenon, <3>1, <3>3
      <4>2. \E u \in Task : pc[u] # "unused" /\ vmOf[u] = v
        BY Zenon, <3>1, <4>1
      <4>3. \A u \in Task : pc[u] # "unused" /\ vmOf[u] = v => pc[u] \in EndedPc
        BY Zenon, <4>1
      <4> QED
        BY Zenon, <3>1, <3>3, <4>2, <4>3 DEF StopDeclared
    <3> QED BY Zenon, <3>2, <3>3
  <2>6. ASSUME NEW n \in Task, PowersOn(t, n) PROVE StopDeclared'
    BY <2>0, <2>6 DEF PowersOn, StopDeclared, EndedPc
  <2>7. CASE Exits(t)
    <3>1. CASE count[vmOf[t]] = 1
      <4>1. /\ pc[t] # "unused" /\ pc'[t] = "lastExit" /\ UNCHANGED <<vmOf, status>>
            /\ \A u \in Task : u # t => pc'[u] = pc[u]
        BY Zenon, <2>7, <3>1 DEF Exits
      <4> QED
        BY Zenon, <2>0, <4>1 DEF StopDeclared, EndedPc
    <3>2. CASE count[vmOf[t]] # 1
      <4>1. PICK u \in Task : u # t /\ pc[u] \in CountedPc /\ vmOf[u] = vmOf[t]
        BY Zenon, <2>0, <2>7, <3>2, NotTheLast DEF Exits, CountedPc
      <4>2. pc'[u] \in CountedPc /\ vmOf'[u] = vmOf[t]
        BY ZenonT(40), <2>7, <4>1 DEF Exits
      <4>3. /\ pc[t] # "unused" /\ UNCHANGED <<vmOf, status>>
            /\ \A w \in Task : w # t => pc'[w] = pc[w]
        BY Zenon, <2>7 DEF Exits
      <4> SUFFICES ASSUME NEW v \in VM,
                          \E w \in Task : pc'[w] # "unused" /\ vmOf'[w] = v,
                          \A w \in Task : pc'[w] # "unused" /\ vmOf'[w] = v => pc'[w] \in EndedPc
                   PROVE  status[v] = "Stopped"
        BY Zenon, <4>3 DEF StopDeclared
      <4>4. v # vmOf[t]
        BY Zenon, <4>2 DEF EndedPc, CountedPc
      <4>5. \A w \in Task : vmOf[w] = v => pc'[w] = pc[w] /\ vmOf'[w] = v
        BY Zenon, <4>3, <4>4
      <4>6. \E w \in Task : pc[w] # "unused" /\ vmOf[w] = v
        BY Zenon, <4>3, <4>5
      <4>7. \A w \in Task : pc[w] # "unused" /\ vmOf[w] = v => pc[w] \in EndedPc
        BY Zenon, <4>5
      <4> QED
        BY Zenon, <4>6, <4>7 DEF StopDeclared
    <3> QED BY ZenonT(40), <3>1, <3>2
  <2>8. CASE Subtracts(t) \/ Wakes(t)
    BY <2>0, <2>8 DEF Subtracts, Wakes, StopDeclared, EndedPc
  <2>9. CASE AddsTask(t)
    BY <2>0, <2>9 DEF AddsTask, StopDeclared, EndedPc
  <2> QED
    BY ZenonT(40), <1>3, <2>1, <2>2, <2>5, <2>6, <2>7, <2>8, <2>9, TaskView, TaskMoves
<1>4. CASE UNCHANGED vars
  BY Zenon, <1>1, <1>4 DEF vars
<1> QED
  BY ZenonT(40), <1>2, <1>3, <1>4 DEF Next

\* Guests with any number of vCPUs that the operator leaves alone: when all vCPU
\* tasks of a VM are done the VM is Stopped, so exactly the last of them has
\* found the counter at 1 in mark_vcpu_exiting, however the exits interleave
\* with vCPUs that are powered on and with shutdowns.
THEOREM SmpNoMissedStop ==
  ASSUME Commands \subseteq {"create"} PROVE Spec => []NoMissedStop
<1>0. Commands \cap {"start", "restart"} = {}
  BY Zenon
<1>1. Init => StopDeclared
  BY Zenon DEF Init, StopDeclared
<1>2. TypeOK /\ MainInv /\ OnceInv /\ CountExact /\ StopDeclared /\ [Next]_vars => StopDeclared'
  BY Zenon, StopDeclaredStep
<1>3. StopDeclared => NoMissedStop
  BY Zenon DEF StopDeclared, NoMissedStop, TasksOf, EndedPc
<1> QED
  BY <1>0, <1>1, <1>2, <1>3, MainInvCorrect, OnceCorrect, SmpCountExact, PTL DEF Spec

=============================================================================
