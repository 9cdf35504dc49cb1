------------------------------- MODULE VcpuRun -------------------------------
(***************************************************************************)
(* One vCPU task: vcpu_run of kernel/src/vmm/vcpus.rs, one action per      *)
(* access to shared state.  The guest chooses the exit reason; GuestExits  *)
(* names the reasons, other than the ones that only resume the guest, that *)
(* guests of the instance use.                                             *)
(***************************************************************************)
EXTENDS VmmState

CONSTANTS GuestExits,   \* subset of AllGuestExits
          RemoteVcpu    \* TRUE: vCPU tasks run on other CPUs than their spawner and
                        \* can start before the code that spawned them goes on

AllGuestExits == {"Halt", "CpuDown", "CpuUp", "SystemDown", "SendIPI", "Err"}

\* A guest that powers on vCPUs can power one on twice; run_vcpu then fails to
\* bind it for one of its two tasks.
ASSUME GuestExitsAssumption ==
    /\ GuestExits \subseteq AllGuestExits
    /\ "CpuUp" \in GuestExits => "Err" \in GuestExits
ASSUME RemoteVcpuAssumption == RemoteVcpu \in BOOLEAN

Goto(t, from, to) ==
    /\ pc[t] = from
    /\ pc' = [pc EXCEPT ![t] = to]

-----------------------------------------------------------------------------
\* The weak reference of the task extension is upgraded; then the boot delay.
\* With the FIFO scheduler a task of its spawner's own CPU runs only once the
\* spawner blocks or waits, never between its spawn and its insert.
Start(t) ==
    /\ pc[t] = "spawned"
    /\ RemoteVcpu \/ (sh.pc # "insert" /\ \A u \in Task : spawnee[u] # t)
    /\ IF Alive(vmOf[t])
         THEN /\ Goto(t, "spawned", "waitRunning")
              /\ UNCHANGED <<vmVars, queueVars, vmOf, vcpuOf, spawnee, home,
                             asleep, runningVMs, sh, panic>>
         ELSE Panic("vmDropped")

WaitRunning(t) ==
    /\ pc[t] = "waitRunning"
    /\ WaitFor(t, running(vmOf[t]), "marking")

mark_vcpu_running(t) ==
    /\ pc[t] = "marking"
    /\ IF entry[vmOf[t]] = NoTask
         THEN Panic("noEntry")
         ELSE /\ Goto(t, "marking", "guest")
              /\ count' = [count EXCEPT ![vmOf[t]] = @ + 1]
              /\ UNCHANGED <<vmVars, entry, taskList, vmOf, vcpuOf, spawnee,
                             home, asleep, runningVMs, sh, panic>>

-----------------------------------------------------------------------------
(* Exit reasons.                                                           *)

\* Hypercall, FailEntry, ExternalInterrupt, Nothing, unhandled exits, and SendIPI
\* of a vCPU to itself.
ResumableExit(t) ==
    /\ Goto(t, "guest", "checkSuspend")
    /\ UNCHANGED <<vmVars, queueVars, vmOf, vcpuOf, spawnee, home, asleep,
                   runningVMs, sh, panic>>

Halt(t) ==
    /\ "Halt" \in GuestExits
    /\ pc[t] = "guest"
    /\ WaitCall(t, "halted")

CpuDown(t) ==
    /\ "CpuDown" \in GuestExits
    /\ pc[t] = "guest"
    /\ WaitCall(t, "down")

WaitReturns(t) ==
    /\ pc[t] \in {"halted", "down"}
    /\ t \notin asleep
    /\ pc' = [pc EXCEPT ![t] = "checkSuspend"]
    /\ home' = [home EXCEPT ![t] = NoTask]
    /\ UNCHANGED <<vmVars, queueVars, vmOf, vcpuOf, spawnee, asleep,
                   runningVMs, sh, panic>>

\* Mutant: the secondary task is not put on the list.
add_vcpu_task_Dropped(list, t) == list

add_vcpu_task(list, t) == list \cup {t}

\* vcpu_on up to the spawn.  VCpuState::Free is asserted: a task of the vCPU that
\* is in the guest, or just about to enter it, has bound it or not yet.
\* set_entry is the library's and can refuse the entry point.
vcpu_on(t, c) ==
    \/ /\ \E u \in TasksOf(vmOf[t]) \ {t} : vcpuOf[u] = c /\ pc[u] = "guest"
       /\ Panic("vcpuNotFree")
    \/ Panic("setEntry")
    \/ /\ SpareTask # {}
       /\ Spawn(NewTask, vmOf[t], c)
       /\ pc' = [pc EXCEPT ![t] = "adding", ![NewTask] = "spawned"]
       /\ spawnee' = [spawnee EXCEPT ![t] = NewTask]
       /\ UNCHANGED <<vmVars, queueVars, home, asleep, runningVMs, sh, panic>>

\* A target that is no physical CPU of the VM's configuration panics.
CpuUp(t) ==
    /\ "CpuUp" \in GuestExits
    /\ pc[t] = "guest"
    /\ Panic("noSuchCpu") \/ \E c \in Vcpu : vcpu_on(t, c)

\* The end of vcpu_on looks the VM's entry up and puts the new task on its list.
AddVcpuTask(t) ==
    /\ pc[t] = "adding"
    /\ IF entry[vmOf[t]] = NoTask
         THEN Panic("noEntry")
         ELSE /\ Goto(t, "adding", "checkSuspend")
              /\ taskList' = [taskList EXCEPT ![vmOf[t]] = add_vcpu_task(@, spawnee[t])]
              /\ spawnee' = [spawnee EXCEPT ![t] = NoTask]
              /\ UNCHANGED <<vmVars, entry, count, vmOf, vcpuOf, home, asleep,
                             runningVMs, sh, panic>>

\* An interrupt for another vCPU goes through axvm to with_vm_and_vcpu_on_pcpu:
\* with_vcpu_task unwraps the entry; without a task of that index on the list
\* it answers NotFound, which vcpu_run unwraps, and with one it is unimplemented.
inject_interrupt_to_vcpu(t) ==
    Panic(IF entry[vmOf[t]] = NoTask THEN "noEntry" ELSE "ipiToVcpu")

\* SendIPI to all CPUs is unimplemented.
SendIPI(t) ==
    /\ "SendIPI" \in GuestExits
    /\ pc[t] = "guest"
    /\ Panic("ipiToAll") \/ inject_interrupt_to_vcpu(t)

\* vm.shutdown().expect(..), after SystemDown and after an error of run_vcpu.
ShutdownExit(t) ==
    /\ GuestExits \cap {"SystemDown", "Err"} # {}
    /\ pc[t] = "guest"
    /\ IF stopping(vmOf[t])
         THEN Panic("shutdownFailed")
         ELSE /\ Goto(t, "guest", "checkSuspend")
              /\ set_vm_status(vmOf[t], "Stopping")
              /\ UNCHANGED <<listed, queueVars, vmOf, vcpuOf, spawnee, home,
                             asleep, runningVMs, sh, panic>>

-----------------------------------------------------------------------------
(* After the exit: suspend and stop.                                       *)

\* Mutant: a stopping VM also takes the suspend path, whose `continue' skips
\* the stop check.
CheckSuspend_TooWide(t) ==
    /\ pc[t] = "checkSuspend"
    /\ pc' = [pc EXCEPT ![t] = IF suspending(vmOf[t]) \/ stopping(vmOf[t])
                                 THEN "waitResume" ELSE "checkStop"]
    /\ UNCHANGED <<vmVars, queueVars, vmOf, vcpuOf, spawnee, home, asleep,
                   runningVMs, sh, panic>>

CheckSuspend(t) ==
    /\ pc[t] = "checkSuspend"
    /\ pc' = [pc EXCEPT ![t] = IF suspending(vmOf[t]) THEN "waitResume"
                                                      ELSE "checkStop"]
    /\ UNCHANGED <<vmVars, queueVars, vmOf, vcpuOf, spawnee, home, asleep,
                   runningVMs, sh, panic>>

\* `continue' goes back to the guest without the stop check.
WaitResume(t) ==
    /\ pc[t] = "waitResume"
    /\ WaitFor(t, ~suspending(vmOf[t]), "guest")

CheckStop(t) ==
    /\ pc[t] = "checkStop"
    /\ pc' = [pc EXCEPT ![t] = IF stopping(vmOf[t]) THEN "exiting" ELSE "guest"]
    /\ UNCHANGED <<vmVars, queueVars, vmOf, vcpuOf, spawnee, home, asleep,
                   runningVMs, sh, panic>>

\* Mutants: the last vCPU is looked for after the decrement; a vCPU that is not
\* the last leaves the counter alone.
WasLast_AfterSub(n) == n = 0
AfterExit_OnlyLast(n) == IF n = 1 THEN 0 ELSE n

\* fetch_sub(1) == 1
WasLast(n) == n = 1
AfterExit(n) == n - 1

mark_vcpu_exiting(t) ==
    /\ pc[t] = "exiting"
    /\ IF entry[vmOf[t]] = NoTask
         THEN Panic("noEntry")
         ELSE /\ pc' = [pc EXCEPT ![t] = IF WasLast(count[vmOf[t]])
                                                 THEN "lastExit" ELSE "done"]
              /\ count' = [count EXCEPT ![vmOf[t]] = AfterExit(@)]
              /\ UNCHANGED <<vmVars, entry, taskList, vmOf, vcpuOf, spawnee,
                             home, asleep, runningVMs, sh, panic>>

SetStopped(t) ==
    /\ Goto(t, "lastExit", "subCount")
    /\ set_vm_status(vmOf[t], "Stopped")
    /\ UNCHANGED <<listed, queueVars, vmOf, vcpuOf, spawnee, home, asleep,
                   runningVMs, sh, panic>>

sub_running_vm_count(t) ==
    /\ Goto(t, "subCount", "wakeVmm")
    /\ runningVMs' = runningVMs - 1
    /\ UNCHANGED <<vmVars, queueVars, vmOf, vcpuOf, spawnee, home, asleep, sh,
                   panic>>

\* Mutant: the wake-up of the VMM's queue is missing.
wake_Missing(p) == p

wake(p) == IF p = "vmmAsleep" THEN "vmmWait" ELSE p

WakeVmm(t) ==
    /\ Goto(t, "wakeVmm", "done")
    /\ sh' = [sh EXCEPT !.pc = wake(@)]
    /\ UNCHANGED <<vmVars, queueVars, vmOf, vcpuOf, spawnee, home, asleep,
                   runningVMs, panic>>

vcpu_run(t) ==
    \/ Start(t) \/ WaitRunning(t) \/ mark_vcpu_running(t)
    \/ ResumableExit(t) \/ Halt(t) \/ CpuDown(t) \/ WaitReturns(t) \/ CpuUp(t)
    \/ AddVcpuTask(t) \/ SendIPI(t) \/ ShutdownExit(t)
    \/ CheckSuspend(t) \/ WaitResume(t) \/ CheckStop(t)
    \/ mark_vcpu_exiting(t) \/ SetStopped(t) \/ sub_running_vm_count(t)
    \/ WakeVmm(t)
=============================================================================
