------------------------------- MODULE VmShell -------------------------------
(***************************************************************************)
(* The VMM main thread: vmm::init and vmm::start (kernel/src/vmm/mod.rs),  *)
(* then, once every VM has stopped, the shell and its `vm' commands        *)
(* (kernel/src/shell/command/vm.rs).  The thread is sequential; a command  *)
(* is a sequence of steps, and the vCPU tasks run between any two of them. *)
(* In particular a command reads the status in one step and acts on what   *)
(* it read in a later one.                                                 *)
(***************************************************************************)
EXTENDS VmmState

CONSTANTS BootVMs,     \* VMs with a configuration at boot
          Commands,    \* the commands the operator uses
          ForceFlags,  \* the values of the --force flag the operator uses
          MaxCommands, \* commands in a behaviour (bound)
          MaxPoll      \* polls of vm restart for Stopped (50 in the code)

AllCommands == {"create", "start", "stop", "restart", "suspend", "resume",
                "delete"}

ASSUME BootVMsAssumption == BootVMs \subseteq VM
ASSUME CommandsAssumption == Commands \subseteq AllCommands /\ ForceFlags \subseteq BOOLEAN
ASSUME BoundsAssumption == MaxCommands \in Nat /\ MaxPoll \in Nat

\* Points of the main thread at which it touches shared state.
ShPc == {"init", "setup", "insert", "start", "boot", "notify", "add",
         "vmmWait", "vmmAsleep", "idle", "startCheck", "stopCheck", "shutdown",
         "restartCheck", "restartPoll", "suspendCheck", "suspendSet",
         "resumeCheck", "resumeSet", "resumeNotify", "deleteCheck",
         "deleteRead", "deleteStopping", "deleteShutdown", "deleteStopped",
         "deleteRemove", "deleteCleanup", "deleteJoin"}

\* phase: the caller of setup_vm_primary_vcpu and boot; todo: VMs its loop has
\* left; task: the task spawned by setup; restart: inside vm restart; force:
\* the --force flag; join: the task list cleanup_vm_vcpus took out of the map.
ShellState == [pc : ShPc, phase : {"init", "start", "shell"}, vm : VM,
               todo : SUBSET VM, task : Entries, restart : BOOLEAN,
               force : BOOLEAN, poll : 0 .. MaxPoll, join : SUBSET Task,
               commands : 0 .. MaxCommands]

ShellTypeOK == sh \in ShellState /\ (sh.pc = "insert" => sh.task \in Task)

ShellInit ==
    sh = [pc |-> "init", phase |-> "init", vm |-> CHOOSE v \in VM : TRUE,
          todo |-> BootVMs, task |-> NoTask, restart |-> FALSE, force |-> FALSE,
          poll |-> 0, join |-> {}, commands |-> 0]

\* The main thread goes from one point to the next and changes nothing else
\* of its own state.
ShGoto(from, to) ==
    /\ sh.pc = from
    /\ sh' = [sh EXCEPT !.pc = to]

\* The end of a command.
Finish == [sh EXCEPT !.pc = "idle", !.restart = FALSE, !.force = FALSE,
                     !.poll = 0, !.task = NoTask, !.join = {}]

OnlySh == UNCHANGED <<vmVars, queueVars, taskVars, runningVMs, panic>>
StatusAndSh == UNCHANGED <<listed, queueVars, taskVars, runningVMs, panic>>

-----------------------------------------------------------------------------
(* Setting up and booting one VM, used by vmm::init, vmm::start and the    *)
(* start command.                                                          *)

\* The loops of init and start go through the VMs in the order of their ids.
InitNext ==
    /\ sh.pc = "init"
    /\ IF sh.todo = {}
         THEN sh' = [sh EXCEPT !.pc = "start", !.phase = "start", !.todo = listed]
         ELSE \E v \in sh.todo :
                /\ \A w \in sh.todo : v <= w
                /\ sh' = [sh EXCEPT !.pc = "setup", !.vm = v, !.todo = @ \ {v}]
    /\ OnlySh

StartNext ==
    /\ sh.pc = "start"
    /\ IF sh.todo = {}
         THEN sh' = [sh EXCEPT !.pc = "vmmWait"]
         ELSE \E v \in sh.todo :
                /\ \A w \in sh.todo : v <= w
                /\ sh' = [sh EXCEPT !.pc = "boot", !.vm = v, !.todo = @ \ {v}]
    /\ OnlySh

\* setup_vm_primary_vcpu spawns the task first ...
SetupSpawn ==
    /\ sh.pc = "setup"
    /\ SpareTask # {}
    /\ Spawn(NewTask, sh.vm, 0)
    /\ pc' = [pc EXCEPT ![NewTask] = "spawned"]
    /\ sh' = [sh EXCEPT !.pc = "insert", !.task = NewTask]
    /\ UNCHANGED <<vmVars, queueVars, spawnee, home, asleep, runningVMs,
                   panic>>

\* ... and then inserts its entry, replacing the VM's previous one.
SetupInsert ==
    /\ sh.pc = "insert"
    /\ entry' = [entry EXCEPT ![sh.vm] = sh.task]
    /\ taskList' = [taskList EXCEPT ![sh.vm] = {sh.task}]
    /\ count' = [count EXCEPT ![sh.vm] = 0]
    /\ sh' = [sh EXCEPT !.pc = IF sh.phase = "init" THEN "init" ELSE "boot",
                        !.task = NoTask]
    /\ UNCHANGED <<vmVars, taskVars, runningVMs, panic>>

\* boot() fails only for a VM that is running, which neither caller passes it.
Boot ==
    /\ ShGoto("boot", "notify")
    /\ ~running(sh.vm)
    /\ set_vm_status(sh.vm, "Running")
    /\ StatusAndSh

\* Mutant: the VM is booted and its vCPU is not notified.
notify_primary_vcpu_Missing ==
    /\ ShGoto("notify", "add")
    /\ OnlySh

notify_primary_vcpu ==
    /\ sh.pc = "notify"
    /\ IF entry[sh.vm] = NoTask
         THEN Panic("noEntry")
         ELSE /\ NotifyOne(sh.vm)
              /\ ShGoto("notify", "add")
              /\ UNCHANGED <<vmVars, queueVars, vmOf, vcpuOf, spawnee, pc,
                             home, runningVMs, panic>>

\* Mutant: the start command does not count the VM.
CountUp_NotShell == IF sh.phase = "shell" THEN runningVMs ELSE runningVMs + 1

CountUp == runningVMs + 1

add_running_vm_count ==
    /\ sh.pc = "add"
    /\ runningVMs' = CountUp
    /\ sh' = IF sh.phase = "start" THEN [sh EXCEPT !.pc = "start"] ELSE Finish
    /\ UNCHANGED <<vmVars, queueVars, taskVars, panic>>

\* Mutant: off by one.
AllStopped_OffByOne == runningVMs <= 1

AllStopped == runningVMs = 0

\* The wait at the end of vmm::start; when it returns main runs console_init.
VmmWait ==
    /\ sh.pc = "vmmWait"
    /\ sh' = IF AllStopped THEN [sh EXCEPT !.pc = "idle", !.phase = "shell"]
                         ELSE [sh EXCEPT !.pc = "vmmAsleep"]
    /\ OnlySh

-----------------------------------------------------------------------------
(* Shell commands.                                                         *)

\* Mutant: a stopping VM may be resumed.
can_resume_vm_Stopping(s) == s \in {"Suspended", "Stopping"}

can_start_vm(s) == s \in {"Loaded", "Stopped"}
can_stop_vm(s, force) ==
    s \in {"Running", "Suspended", "Loading", "Loaded"} \/ (s = "Stopping" /\ force)
can_suspend_vm(s) == s = "Running"
can_resume_vm(s) == s = "Suspended"

\* The operator types a command on a VM of the list.
Command(c, first) ==
    /\ c \in Commands
    /\ sh.pc = "idle"
    /\ sh.commands < MaxCommands
    /\ \E v \in listed, force \in ForceFlags :
         sh' = [sh EXCEPT !.pc = first, !.vm = v, !.restart = (c = "restart"),
                          !.force = force, !.commands = @ + 1]
    /\ OnlySh

vm_start == Command("start", "startCheck")
vm_stop == Command("stop", "stopCheck")
vm_restart == Command("restart", "restartCheck")
vm_suspend == Command("suspend", "suspendCheck")
vm_resume == Command("resume", "resumeCheck")

\* vm create: init_guest_vm builds the VM, pushes it and sets Loaded.  Each id
\* is created once in a behaviour (bound): its old tasks would share it.
vm_create ==
    /\ "create" \in Commands
    /\ sh.pc = "idle"
    /\ sh.commands < MaxCommands
    /\ \E v \in VM \ listed :
         /\ status[v] = "Loading"
         /\ set_vm_status(v, "Loaded")
         /\ listed' = listed \cup {v}
    /\ sh' = [sh EXCEPT !.commands = @ + 1]
    /\ UNCHANGED <<queueVars, taskVars, runningVMs, panic>>

\* Mutant: the VM is booted without setting up its primary vCPU again.
start_single_vm_NoSetup ==
    /\ sh.pc = "startCheck"
    /\ sh' = IF can_start_vm(status[sh.vm]) THEN [sh EXCEPT !.pc = "boot"]
                                            ELSE Finish
    /\ OnlySh

start_single_vm ==
    /\ sh.pc = "startCheck"
    /\ sh' = IF can_start_vm(status[sh.vm]) THEN [sh EXCEPT !.pc = "setup"]
                                            ELSE Finish
    /\ OnlySh

stop_vm_by_id ==
    /\ sh.pc = "stopCheck"
    /\ sh' = IF can_stop_vm(status[sh.vm], sh.force)
               THEN [sh EXCEPT !.pc = "shutdown"]
               ELSE IF sh.restart THEN [sh EXCEPT !.pc = "restartPoll"] ELSE Finish
    /\ OnlySh

\* vm.shutdown() fails for a VM that is already stopping; the command reports it.
StopShutdown ==
    /\ sh.pc = "shutdown"
    /\ IF stopping(sh.vm) THEN UNCHANGED status ELSE set_vm_status(sh.vm, "Stopping")
    /\ sh' = IF sh.restart THEN [sh EXCEPT !.pc = "restartPoll"] ELSE Finish
    /\ StatusAndSh

restart_vm_by_id ==
    /\ sh.pc = "restartCheck"
    /\ sh' = CASE status[sh.vm] \in {"Stopped", "Loaded"} ->
                    [sh EXCEPT !.pc = "startCheck"]
               [] status[sh.vm] \in {"Suspended", "Running"} ->
                    [sh EXCEPT !.pc = "stopCheck"]
               [] OTHER -> Finish
    /\ OnlySh

\* Mutant: the poll has no timeout.
PollAgain_Forever == TRUE

\* iterations += 1, and on again unless that was the last one.
PollAgain == sh.poll + 1 < MaxPoll

RestartPoll ==
    /\ sh.pc = "restartPoll"
    /\ sh' = CASE status[sh.vm] = "Stopped" -> [sh EXCEPT !.pc = "startCheck"]
               [] status[sh.vm] = "Stopping" /\ PollAgain ->
                    [sh EXCEPT !.poll = @ + 1]
               [] OTHER -> Finish
    /\ OnlySh

suspend_vm_by_id ==
    /\ sh.pc = "suspendCheck"
    /\ sh' = IF can_suspend_vm(status[sh.vm]) THEN [sh EXCEPT !.pc = "suspendSet"]
                                              ELSE Finish
    /\ OnlySh

\* The wait for the vCPUs that follows changes no state.
SuspendSet ==
    /\ sh.pc = "suspendSet"
    /\ set_vm_status(sh.vm, "Suspended")
    /\ sh' = Finish
    /\ StatusAndSh

resume_vm_by_id ==
    /\ sh.pc = "resumeCheck"
    /\ sh' = IF can_resume_vm(status[sh.vm]) THEN [sh EXCEPT !.pc = "resumeSet"]
                                             ELSE Finish
    /\ OnlySh

ResumeSet ==
    /\ ShGoto("resumeSet", "resumeNotify")
    /\ set_vm_status(sh.vm, "Running")
    /\ StatusAndSh

notify_all_vcpus ==
    /\ sh.pc = "resumeNotify"
    /\ NotifyAll(sh.vm)
    /\ sh' = Finish
    /\ UNCHANGED <<vmVars, queueVars, vmOf, vcpuOf, spawnee, pc, home,
                   runningVMs, panic>>

-----------------------------------------------------------------------------
(* vm delete.                                                              *)

vm_delete ==
    /\ sh.pc = "deleteCheck"
    /\ sh' = IF status[sh.vm] = "Stopped" \/ sh.force
               THEN [sh EXCEPT !.pc = "deleteRead"]
               ELSE Finish
    /\ OnlySh

\* Mutant: a suspended VM is taken for one that never ran.
DeleteBranch_Suspended(s) ==
    CASE s \in {"Running", "Stopping"} -> "deleteStopping"
      [] s \in {"Loaded", "Suspended"} -> "deleteStopped"
      [] OTHER -> "deleteRemove"

DeleteBranch(s) ==
    CASE s \in {"Running", "Suspended", "Stopping"} -> "deleteStopping"
      [] s = "Loaded" -> "deleteStopped"
      [] OTHER -> "deleteRemove"

\* delete_vm_by_id reads the status again and acts on it.
delete_vm_by_id ==
    /\ sh.pc = "deleteRead"
    /\ sh' = [sh EXCEPT !.pc = DeleteBranch(status[sh.vm])]
    /\ OnlySh

DeleteStopping ==
    /\ ShGoto("deleteStopping", "deleteShutdown")
    /\ set_vm_status(sh.vm, "Stopping")
    /\ StatusAndSh

DeleteShutdown ==
    /\ ShGoto("deleteShutdown", "deleteRemove")
    /\ IF stopping(sh.vm) THEN UNCHANGED status ELSE set_vm_status(sh.vm, "Stopping")
    /\ StatusAndSh

DeleteStopped ==
    /\ ShGoto("deleteStopped", "deleteRemove")
    /\ set_vm_status(sh.vm, "Stopped")
    /\ StatusAndSh

remove_vm ==
    /\ ShGoto("deleteRemove", "deleteCleanup")
    /\ listed' = listed \ {sh.vm}
    /\ UNCHANGED <<status, queueVars, taskVars, runningVMs, panic>>

\* cleanup_vm_vcpus takes the entry out of the map ...
cleanup_vm_vcpus ==
    /\ sh.pc = "deleteCleanup"
    /\ sh' = [sh EXCEPT !.pc = "deleteJoin", !.join = taskList[sh.vm]]
    /\ entry' = [entry EXCEPT ![sh.vm] = NoTask]
    /\ taskList' = [taskList EXCEPT ![sh.vm] = {}]
    /\ count' = [count EXCEPT ![sh.vm] = 0]
    /\ UNCHANGED <<vmVars, taskVars, runningVMs, panic>>

\* ... and joins its tasks.
DeleteJoin ==
    /\ sh.pc = "deleteJoin"
    /\ \A t \in sh.join : pc[t] = "done"
    /\ sh' = Finish
    /\ OnlySh

-----------------------------------------------------------------------------
\* What the thread does once it runs; typing a command is the operator's choice.
MainStep ==
    \/ InitNext \/ StartNext \/ SetupSpawn \/ SetupInsert \/ Boot
    \/ notify_primary_vcpu \/ add_running_vm_count \/ VmmWait
    \/ start_single_vm \/ stop_vm_by_id \/ StopShutdown
    \/ restart_vm_by_id \/ RestartPoll
    \/ suspend_vm_by_id \/ SuspendSet
    \/ resume_vm_by_id \/ ResumeSet \/ notify_all_vcpus
    \/ vm_delete \/ delete_vm_by_id \/ DeleteStopping \/ DeleteShutdown
    \/ DeleteStopped \/ remove_vm \/ cleanup_vm_vcpus \/ DeleteJoin

TypeCommand ==
    \/ vm_create \/ vm_start \/ vm_stop \/ vm_restart \/ vm_suspend \/ vm_resume
    \/ Command("delete", "deleteCheck")
=============================================================================
