-------------------------- MODULE VmOneVcpu_proofs --------------------------
(***************************************************************************)
(* Guests that run only their primary vCPU, since they power on no other:  *)
(* any number of VMs, tasks and commands.  UniInv is the inductive         *)
(* invariant of the VM, its one task and its entry.  From it follow that   *)
(* Stopped means exited and that the counter of the entry is exact; that   *)
(* RUNNING_VM_COUNT covers every VM, so that vmm::start returns only when  *)
(* all VMs are stopped; that notify_primary_vcpu wakes the primary vCPU;   *)
(* that every task can be joined; and that the status follows the life     *)
(* cycle of VmStatus.                                                      *)
(***************************************************************************)
EXTENDS VmLifecycle_proofs

-----------------------------------------------------------------------------
(* The inductive invariant for guests that run only their primary vCPU.    *)

\* Before the task has declared its VM stopped.
LivePc == CountedPc \cup {"spawned", "waitRunning", "marking", "lastExit"}

\* A VM has at most one task that has not declared it stopped.
OneLive ==
    \A t, u \in Task :
        pc[t] \in LivePc /\ pc[u] \in LivePc /\ vmOf[t] = vmOf[u] => t = u

\* The task of a VM that is not started waits before its guest ...
AtRest ==
    \A t \in Task :
        pc[t] \in LivePc /\ status[vmOf[t]] \in {"Loaded", "Stopped"}
            => pc[t] \in {"spawned", "waitRunning"}

\* ... and is there only while the main thread is about to boot the VM.
LiveHasBoot ==
    \A t \in Task :
        /\ pc[t] \in LivePc
        /\ \/ status[vmOf[t]] = "Stopped"
           \/ status[vmOf[t]] = "Loaded" /\ sh.phase = "shell"
        => sh.vm = vmOf[t] /\ sh.pc \in {"insert", "boot"}

\* What the main thread has made sure of before it acts on its VM.
ChecksHold ==
    /\ sh.pc \in {"setup", "insert", "boot"} => status[sh.vm] \in {"Loaded", "Stopped"}
    /\ sh.pc = "setup" => \A t \in Task : pc[t] \in LivePc => vmOf[t] # sh.vm
    /\ sh.pc = "deleteStopped" => status[sh.vm] = "Loaded"

\* vmm::start has still to boot the VMs of todo, and only those are Loaded.
StartLoop ==
    sh.phase = "start" =>
        /\ \A v \in VM : status[v] = "Loaded"
                           <=> v \in sh.todo \/ (sh.pc = "boot" /\ sh.vm = v)
        /\ sh.pc = "boot" => sh.vm \notin sh.todo
        /\ sh.pc \in {"vmmWait", "vmmAsleep"} => sh.todo = {}

HasCounted(v) == \E t \in Task : pc[t] \in CountedPc /\ vmOf[t] = v

\* The counter of an entry says whether its one vCPU is in its loop.
CountIsOne ==
    \A v \in VM : entry[v] # NoTask => count[v] = IF HasCounted(v) THEN 1 ELSE 0

UniInv ==
    OneLive /\ AtRest /\ LiveHasBoot /\ ChecksHold /\ InitLoop /\ StartLoop /\ CountIsOne

-----------------------------------------------------------------------------
(* UniInv holds in every state of a system with such guests.               *)

\* UniInv holds at the start.
LEMMA UniInit == Init => UniInv
<1> SUFFICES ASSUME Init PROVE UniInv
  BY Zenon
<1>1. \A t \in Task : pc[t] = "unused"
  BY Zenon DEF Init
<1>2. /\ sh.pc = "init" /\ sh.phase = "init" /\ sh.todo = listed
      /\ \A v \in VM : v \in listed <=> status[v] = "Loaded"
      /\ \A v \in VM : entry[v] = NoTask
  BY Zenon, BootVMsAssumption DEF Init, ShellInit
<1> QED
  BY Zenon, <1>1, <1>2 DEF UniInv, OneLive, AtRest, LiveHasBoot, ChecksHold, InitLoop,
     StartLoop,
     CountIsOne, LivePc, CountedPc

\* A guest that powers on no vCPU neither spawns nor adds a task.
LEMMA NoPowerOn ==
  ASSUME "CpuUp" \notin GuestExits, MainInv, NEW t \in Task
  PROVE  ~AddsTask(t) /\ \A n \in Task : ~PowersOn(t, n)
  BY Zenon DEF MainInv, Powering, PowersOn, AddsTask

\* A step of a vCPU task keeps UniInv.
LEMMA UniTask ==
  ASSUME "CpuUp" \notin GuestExits, TypeOK, MainInv, UniInv, NEW t \in Task,
         vcpu_run(t)
  PROVE  UniInv'
<1>0. /\ vmOf \in [Task -> VM] /\ vmOf[t] \in VM /\ sh.vm \in VM /\ sh.todo \subseteq VM
      /\ listed \subseteq VM /\ count \in [VM -> Int]
  BY Zenon DEF TypeOK, ShellTypeOK, ShellState
<1> USE DEF UniInv
<1>1. ASSUME UNCHANGED <<status, listed, entry, count, vmOf, sh>>,
             NEW q \in LivePc, pc[t] \in LivePc,
             \A u \in Task : pc'[u] = IF u = t THEN q ELSE pc[u],
             pc[t] \in CountedPc <=> q \in CountedPc,
             status[vmOf[t]] \in {"Loaded", "Stopped"} => q \in {"spawned", "waitRunning"}
      PROVE  UniInv'
  <2>1. OneLive' /\ AtRest' /\ LiveHasBoot'
    BY Zenon, <1>0, <1>1 DEF OneLive, AtRest, LiveHasBoot
  <2>2. ChecksHold' /\ StartLoop'
    BY Zenon, <1>1 DEF ChecksHold, StartLoop
  <2>3. InitLoop'
    BY Zenon, <1>0, <1>1 DEF InitLoop, LivePc, CountedPc
  <2>4. CountIsOne'
    BY <1>1 DEF CountIsOne, HasCounted
  <2> QED
    BY Zenon, <2>1, <2>2, <2>3, <2>4
<1>2. pc[t] \in CountedPc \cup {"marking", "lastExit"} => status[vmOf[t]] \notin {"Loaded", "Stopped"}
  BY Zenon DEF AtRest, LivePc, CountedPc
<1>3. CASE TaskPanics(t)
  <2>1. UNCHANGED <<status, listed, entry, count, vmOf, pc, sh>>
    BY Zenon, <1>3 DEF TaskPanics
  <2>2. OneLive' /\ AtRest' /\ LiveHasBoot' /\ ChecksHold'
    BY Zenon, <2>1 DEF OneLive, AtRest, LiveHasBoot, ChecksHold
  <2>3. InitLoop' /\ StartLoop' /\ CountIsOne'
    BY ZenonT(40), <2>1 DEF InitLoop, StartLoop, CountIsOne, HasCounted
  <2> QED
    BY Zenon, <2>2, <2>3
<1>4. CASE Starts(t) \/ Proceeds(t) \/ Blocks(t)
  BY Zenon, <1>0, <1>1, <1>2, <1>4 DEF Starts, Proceeds, Blocks, Goes, LivePc, CountedPc
<1>5. CASE Halts(t) \/ Loops(t)
  BY <1>0, <1>1, <1>2, <1>5 DEF Halts, Loops, Goes, LivePc, CountedPc
<1>6. CASE Marks(t)
  <2>1. /\ pc[t] = "marking" /\ UNCHANGED <<status, listed, entry, vmOf, sh>>
        /\ \A u \in Task : pc'[u] = IF u = t THEN "guest" ELSE pc[u]
        /\ \A v \in VM : count'[v] = IF v = vmOf[t] THEN count[v] + 1 ELSE count[v]
    BY Zenon, <1>6 DEF Marks
  <2>2. OneLive' /\ AtRest' /\ LiveHasBoot'
    BY <1>0, <1>2, <2>1 DEF OneLive, AtRest, LiveHasBoot, LivePc, CountedPc
  <2>3. ChecksHold' /\ StartLoop'
    BY Zenon, <2>1 DEF ChecksHold, StartLoop, LivePc
  <2>4. InitLoop'
    BY Zenon, <2>1 DEF InitLoop
  <2>5. CountIsOne'
    <3>1. ~HasCounted(vmOf[t]) /\ HasCounted(vmOf[t])'
      BY Zenon, <2>1 DEF OneLive, HasCounted, LivePc, CountedPc
    <3>2. \A v \in VM \ {vmOf[t]} : HasCounted(v)' <=> HasCounted(v)
      BY Zenon, <2>1 DEF HasCounted, CountedPc
    <3> QED
      BY <1>0, <2>1, <3>1, <3>2 DEF CountIsOne
  <2> QED
    BY Zenon, <2>2, <2>3, <2>4, <2>5
<1>7. CASE GuestShutsDown(t)
  <2>1. /\ pc[t] = "guest" /\ UNCHANGED <<listed, entry, count, vmOf, sh>>
        /\ \A u \in Task : pc'[u] = IF u = t THEN "checkSuspend" ELSE pc[u]
        /\ \A v \in VM : status'[v] = IF v = vmOf[t] THEN "Stopping" ELSE status[v]
    BY Zenon, <1>7 DEF GuestShutsDown, SetsStatus
  <2>2. status[vmOf[t]] \notin {"Loaded", "Stopped"}
    BY Zenon, <1>2, <2>1 DEF CountedPc
  <2>3. OneLive' /\ AtRest' /\ LiveHasBoot'
    BY <1>0, <2>1, <2>2 DEF OneLive, AtRest, LiveHasBoot, LivePc, CountedPc
  <2>4. ChecksHold' /\ StartLoop'
    BY ZenonT(40), <1>0, <2>1, <2>2 DEF ChecksHold, StartLoop, LivePc, CountedPc
  <2>5. InitLoop' /\ CountIsOne'
    BY <1>0, <2>1, <2>2 DEF InitLoop, CountIsOne, HasCounted, CountedPc
  <2> QED
    BY Zenon, <2>3, <2>4, <2>5
<1>8. CASE Exits(t)
  <2>1. HasCounted(vmOf[t]) /\ entry[vmOf[t]] # NoTask
    BY Zenon, <1>8 DEF Exits, HasCounted, CountedPc
  <2>2. count[vmOf[t]] = 1
    BY Zenon, <1>0, <2>1 DEF CountIsOne
  <2>3. /\ pc[t] = "exiting" /\ UNCHANGED <<status, listed, entry, vmOf, sh>>
        /\ \A u \in Task : pc'[u] = IF u = t THEN "lastExit" ELSE pc[u]
        /\ \A v \in VM : count'[v] = IF v = vmOf[t] THEN 0 ELSE count[v]
    BY <1>8, <2>2 DEF Exits
  <2>4. OneLive' /\ AtRest' /\ LiveHasBoot'
    BY <1>0, <1>2, <2>3 DEF OneLive, AtRest, LiveHasBoot, LivePc, CountedPc
  <2>5. ChecksHold' /\ StartLoop'
    BY Zenon, <2>3 DEF ChecksHold, StartLoop, LivePc, CountedPc
  <2>6. InitLoop'
    BY Zenon, <2>3 DEF InitLoop
  <2>7. CountIsOne'
    <3>1. ~HasCounted(vmOf[t])'
      BY Zenon, <2>3 DEF OneLive, HasCounted, LivePc, CountedPc
    <3>2. \A v \in VM \ {vmOf[t]} : HasCounted(v)' <=> HasCounted(v)
      BY Zenon, <2>3 DEF HasCounted, CountedPc
    <3> QED
      BY Zenon, <1>0, <2>3, <3>1, <3>2 DEF CountIsOne
  <2> QED
    BY <2>4, <2>5, <2>6, <2>7
<1>9. CASE DeclaresStopped(t)
  <2>1. /\ pc[t] = "lastExit" /\ UNCHANGED <<listed, entry, count, vmOf, sh>>
        /\ \A u \in Task : pc'[u] = IF u = t THEN "subCount" ELSE pc[u]
        /\ \A v \in VM : status'[v] = IF v = vmOf[t] THEN "Stopped" ELSE status[v]
    BY Zenon, <1>9 DEF DeclaresStopped, SetsStatus
  <2>2. status[vmOf[t]] \notin {"Loaded", "Stopped"}
    BY Zenon, <1>2, <2>1
  <2>3. OneLive' /\ AtRest' /\ LiveHasBoot'
    BY <1>0, <2>1, <2>2 DEF OneLive, AtRest, LiveHasBoot, LivePc, CountedPc
  <2>4. ChecksHold' /\ StartLoop'
    BY Zenon, <1>0, <2>1, <2>2 DEF ChecksHold, StartLoop, LivePc, CountedPc
  <2>5. InitLoop' /\ CountIsOne'
    BY SMTT(30), <1>0, <2>1, <2>2 DEF InitLoop, CountIsOne, HasCounted, CountedPc
  <2> QED
    BY <2>3, <2>4, <2>5
<1>10. CASE Subtracts(t) \/ Wakes(t)
  <2>1. /\ pc[t] \in {"subCount", "wakeVmm"} /\ pc'[t] \in {"wakeVmm", "done"}
        /\ \A u \in Task : u # t => pc'[u] = pc[u]
        /\ UNCHANGED <<status, listed, entry, count, vmOf>>
        /\ sh'.vm = sh.vm /\ sh'.phase = sh.phase /\ sh'.todo = sh.todo
        /\ \/ sh'.pc = sh.pc
           \/ sh.pc = "vmmAsleep" /\ sh'.pc = "vmmWait"
    BY Zenon, <1>10 DEF Subtracts, Wakes, SameVm
  <2>2. OneLive' /\ AtRest' /\ LiveHasBoot'
    BY <2>1 DEF OneLive, AtRest, LiveHasBoot, LivePc, CountedPc
  <2>3. ChecksHold' /\ StartLoop'
    BY Zenon, <2>1 DEF ChecksHold, StartLoop, LivePc, CountedPc
  <2>4. InitLoop' /\ CountIsOne'
    BY <2>1 DEF InitLoop, CountIsOne, HasCounted, CountedPc
  <2> QED
    BY <2>2, <2>3, <2>4
<1> QED
  BY Zenon, <1>3, <1>4, <1>5, <1>6, <1>7, <1>8, <1>9, <1>10, TaskView, NoPowerOn

\* A step of the main thread or of the operator keeps UniInv.
LEMMA UniMain == ASSUME TypeOK, MainInv, UniInv, MainStep \/ TypeCommand PROVE UniInv'
<1>0. /\ vmOf \in [Task -> VM] /\ sh.vm \in VM /\ sh.todo \subseteq VM
      /\ sh.phase \in {"init", "start", "shell"} /\ listed \subseteq VM
      /\ PhasePc /\ LoadingHasNoTask /\ "unused" \notin LivePc
      /\ sh.pc = "insert" => sh.task \in Task
  BY Zenon DEF TypeOK, ShellTypeOK, ShellState, MainInv, LivePc, CountedPc
<1> USE DEF UniInv, PhasePc
<1>1. CASE InitEnds \/ Takes("init", "setup") \/ Takes("start", "boot") \/ StartEnds
  <2>1. OneLive' /\ AtRest' /\ LiveHasBoot'
    BY Zenon, <1>0, <1>1 DEF InitEnds, Takes, StartEnds, SameVm, MainOnly, OneLive, AtRest,
       LiveHasBoot
  <2>2. ChecksHold'
    BY Zenon, <1>0, <1>1 DEF InitEnds, Takes, StartEnds, SameVm, MainOnly, ChecksHold,
       InitLoop, StartLoop
  <2>3. InitLoop' /\ StartLoop'
    BY ZenonT(40), <1>0, <1>1 DEF InitEnds, Takes, StartEnds, SameVm, MainOnly, InitLoop, StartLoop
  <2>4. CountIsOne'
    BY <1>1 DEF InitEnds, Takes, StartEnds, SameVm, MainOnly, CountIsOne, HasCounted
  <2> QED
    BY Zenon, <2>1, <2>2, <2>3, <2>4
<1>2. CASE Spawns
  <2>1. OneLive' /\ AtRest' /\ LiveHasBoot'
    BY SMTT(30), <1>0, <1>2 DEF Spawns, SameVm, OneLive, AtRest, LiveHasBoot, ChecksHold
  <2>2. ChecksHold' /\ InitLoop' /\ StartLoop'
    BY <1>0, <1>2 DEF Spawns, SameVm, ChecksHold, InitLoop, StartLoop
  <2>3. CountIsOne'
    BY <1>2 DEF Spawns, CountIsOne, HasCounted, CountedPc
  <2> QED
    BY Zenon, <2>1, <2>2, <2>3
<1>3. CASE Inserts
  <2>1. OneLive' /\ AtRest' /\ LiveHasBoot'
    BY Zenon, <1>0, <1>3 DEF Inserts, SameVm, OneLive, AtRest, LiveHasBoot, InitLoop
  <2>2. ChecksHold' /\ InitLoop' /\ StartLoop'
    BY Zenon, <1>0, <1>3 DEF Inserts, SameVm, ChecksHold, InitLoop, StartLoop
  <2>3. CountIsOne'
    BY SMTT(30), <1>0, <1>3 DEF Inserts, CountIsOne, HasCounted, AtRest, ChecksHold, LivePc, CountedPc
  <2> QED
    BY <2>1, <2>2, <2>3
<1>4. CASE Boots
  <2>1. OneLive' /\ AtRest' /\ LiveHasBoot'
    BY SMTT(30), <1>0, <1>4 DEF Boots, Sets, SameVm, OneLive, AtRest, LiveHasBoot
  <2>2. ChecksHold' /\ InitLoop' /\ StartLoop'
    BY <1>0, <1>4 DEF Boots, Sets, SameVm, ChecksHold, InitLoop, StartLoop
  <2>3. CountIsOne'
    BY Zenon, <1>4 DEF Boots, Sets, CountIsOne, HasCounted
  <2> QED
    BY <2>1, <2>2, <2>3
<1>5. CASE ShutsDown \/ Suspends \/ Resumes \/ DeleteSets
  <2>1. OneLive' /\ AtRest' /\ LiveHasBoot'
    <3>1. sh.pc \notin {"insert", "boot"} /\ (sh.pc = "deleteStopped" => sh.phase = "shell")
      BY Zenon, <1>0, <1>5 DEF ShutsDown, Suspends, Resumes, DeleteSets
    <3>2. ASSUME NEW s \in {"Stopping", "Suspended", "Running"}, Sets(s)
          PROVE  OneLive' /\ AtRest' /\ LiveHasBoot'
      BY ZenonT(40), <1>0, <3>1, <3>2 DEF Sets, SameVm, OneLive, AtRest, LiveHasBoot
    <3>3. ASSUME sh.pc = "deleteStopped", Sets("Stopped")
          PROVE  OneLive' /\ AtRest' /\ LiveHasBoot'
      BY <1>0, <3>1, <3>3 DEF Sets, SameVm, OneLive, AtRest, LiveHasBoot, ChecksHold
    <3> QED
      BY <1>5, <3>2, <3>3, Zenon DEF ShutsDown, Suspends, Resumes, DeleteSets
  <2>2. ChecksHold' /\ InitLoop' /\ StartLoop'
    BY ZenonT(40), <1>0, <1>5 DEF ShutsDown, Suspends, Resumes, DeleteSets, Sets, SameVm, ChecksHold,
                     InitLoop, StartLoop
  <2>3. CountIsOne'
    BY <1>5 DEF ShutsDown, Suspends, Resumes, DeleteSets, Sets, CountIsOne, HasCounted
  <2> QED
    BY <2>1, <2>2, <2>3
<1>6. CASE Notifies \/ NotifyPanics \/ Adds \/ NotifiesAll
  <2>1. OneLive' /\ AtRest' /\ LiveHasBoot'
    BY Zenon, <1>0, <1>6 DEF Notifies, NotifyPanics, Adds, NotifiesAll, SameVm, OneLive,
       AtRest, LiveHasBoot
  <2>2. ChecksHold' /\ InitLoop' /\ StartLoop'
    BY Zenon, <1>0, <1>6 DEF Notifies, NotifyPanics, Adds, NotifiesAll, SameVm, ChecksHold,
       InitLoop, StartLoop
  <2>3. CountIsOne'
    BY ZenonT(40), <1>6 DEF Notifies, NotifyPanics, Adds, NotifiesAll, CountIsOne, HasCounted
  <2> QED
    BY <2>1, <2>2, <2>3
<1>7. CASE Waits
  <2>1. OneLive' /\ AtRest' /\ LiveHasBoot'
    BY Zenon, <1>0, <1>7 DEF Waits, MainOnly, OneLive, AtRest, LiveHasBoot, StartLoop
  <2>2. ChecksHold' /\ InitLoop' /\ StartLoop'
    BY Zenon, <1>0, <1>7 DEF Waits, MainOnly, ChecksHold, InitLoop, StartLoop
  <2>3. CountIsOne'
    BY ZenonT(40), <1>7 DEF Waits, MainOnly, CountIsOne, HasCounted
  <2> QED
    BY <2>1, <2>2, <2>3
<1>8. CASE Decides
  <2>1. OneLive' /\ AtRest' /\ LiveHasBoot'
    BY Zenon, <1>0, <1>8 DEF Decides, CheckPc, SameVm, MainOnly, OneLive, AtRest, LiveHasBoot
  <2>2. ChecksHold'
    BY ZenonT(40), <1>0, <1>8 DEF Decides, CheckPc, can_start_vm, SameVm, MainOnly, ChecksHold,
       LiveHasBoot
  <2>3. InitLoop' /\ StartLoop' /\ CountIsOne'
    BY ZenonT(40), <1>0, <1>8 DEF Decides, CheckPc, SameVm, MainOnly, InitLoop, StartLoop, CountIsOne,
       HasCounted
  <2> QED
    BY Zenon, <2>1, <2>2, <2>3
<1>9. CASE Removes \/ CleansUp
  <2>1. OneLive' /\ AtRest' /\ LiveHasBoot'
    BY <1>0, <1>9 DEF Removes, CleansUp, SameVm, OneLive, AtRest, LiveHasBoot
  <2>2. ChecksHold' /\ InitLoop' /\ StartLoop'
    BY Zenon, <1>0, <1>9 DEF Removes, CleansUp, SameVm, ChecksHold, InitLoop, StartLoop
  <2>3. CountIsOne'
    BY SMTT(30), <1>9 DEF Removes, CleansUp, CountIsOne, HasCounted
  <2> QED
    BY <2>1, <2>2, <2>3
<1>10. CASE Creates
  <2>1. OneLive' /\ AtRest' /\ LiveHasBoot'
    BY <1>0, <1>10 DEF Creates, SameVm, OneLive, AtRest, LiveHasBoot, LoadingHasNoTask
  <2>2. ChecksHold' /\ InitLoop' /\ StartLoop'
    BY Zenon, <1>0, <1>10 DEF Creates, SameVm, ChecksHold, InitLoop, StartLoop
  <2>3. CountIsOne'
    BY ZenonT(40), <1>10 DEF Creates, CountIsOne, HasCounted
  <2> QED
    BY <2>1, <2>2, <2>3
<1>11. ASSUME NEW c, NEW first \in CheckPc, Types(c, first) PROVE UniInv'
  <2>1. OneLive' /\ AtRest' /\ LiveHasBoot'
    BY Zenon, <1>0, <1>11 DEF Types, CheckPc, MainOnly, OneLive, AtRest, LiveHasBoot
  <2>2. ChecksHold' /\ InitLoop' /\ StartLoop'
    BY Zenon, <1>0, <1>11 DEF Types, CheckPc, MainOnly, ChecksHold, InitLoop, StartLoop
  <2>3. CountIsOne'
    BY Zenon, <1>11 DEF Types, MainOnly, CountIsOne, HasCounted
  <2> QED
    BY Zenon, <2>1, <2>2, <2>3
<1> QED
  BY ZenonT(40), <1>1, <1>2, <1>3, <1>4, <1>5, <1>6, <1>7, <1>8, <1>9, <1>10, <1>11, MainView,
     CommandView
  DEF CheckPc

\* UniInv holds always.
LEMMA UniCorrect == ASSUME "CpuUp" \notin GuestExits PROVE Spec => [](TypeOK /\ MainInv /\ UniInv)
<1>1. TypeOK /\ MainInv /\ UniInv /\ [Next]_vars => UniInv'
  <2> SUFFICES ASSUME TypeOK, MainInv, UniInv, [Next]_vars PROVE UniInv'
    BY Zenon
  <2>1. CASE MainStep \/ TypeCommand
    BY Zenon, <2>1, UniMain
  <2>2. CASE \E t \in Task : vcpu_run(t)
    BY Zenon, <2>2, UniTask
  <2>3. CASE UNCHANGED vars
    BY <2>3 DEF vars, UniInv, OneLive, AtRest, LiveHasBoot, ChecksHold, InitLoop, StartLoop,
       CountIsOne, HasCounted
  <2> QED
    BY Zenon, <2>1, <2>2, <2>3 DEF Next
<1> QED
  BY <1>1, UniInit, MainInvCorrect, PTL DEF Spec

\* With guests that run one vCPU, a VM is Stopped only when none of its tasks is
\* between mark_vcpu_running and mark_vcpu_exiting, through any sequence of
\* boots, stops, restarts, suspends, resumes and deletes of any number of VMs.
THEOREM UniStoppedMeansExited == ASSUME "CpuUp" \notin GuestExits PROVE Spec => []StoppedMeansExited
<1>1. TypeOK /\ UniInv => StoppedMeansExited
  BY Zenon DEF TypeOK, UniInv, AtRest, LivePc, CountedPc, StoppedMeansExited, Counted, TasksOf
<1> QED
  BY <1>1, UniCorrect, PTL

\* With guests that run one vCPU running_halting_vcpu_count is exact, so the vCPU that
\* exits always finds itself the last and declares its VM stopped.
THEOREM UniCountExact == ASSUME "CpuUp" \notin GuestExits PROVE Spec => []CountExact
<1>1. ASSUME TypeOK, UniInv, NEW v \in VM, entry[v] # NoTask
      PROVE  count[v] = Cardinality(Counted(v))
  <2>1. CASE HasCounted(v)
    <3>1. PICK t \in Task : pc[t] \in CountedPc /\ vmOf[t] = v
      BY Zenon, <2>1 DEF HasCounted
    <3>2. Counted(v) = {t}
      BY Zenon, <1>1, <3>1 DEF UniInv, OneLive, LivePc, Counted, TasksOf, CountedPc
    <3>3. Cardinality(Counted(v)) = 1
      BY ZenonT(30), <3>2, FS_Singleton
    <3> QED
      BY Zenon, <1>1, <2>1, <3>3 DEF UniInv, CountIsOne
  <2>2. CASE ~HasCounted(v)
    <3>1. Counted(v) = {}
      BY Zenon, <2>2 DEF HasCounted, Counted, TasksOf
    <3>2. Cardinality(Counted(v)) = 0
      BY Zenon, <3>1, FS_EmptySet
    <3> QED
      BY Zenon, <1>1, <2>2, <3>2 DEF UniInv, CountIsOne
  <2> QED BY Zenon, <2>1, <2>2
<1>2. TypeOK /\ UniInv => CountExact
  BY Zenon, <1>1 DEF CountExact
<1> QED
  BY <1>2, UniCorrect, PTL

\* The task whose entry is not yet in the map has not declared its VM stopped.
InsertLive == sh.pc = "insert" => pc[sh.task] \in LivePc

\* InsertLive holds always: the VM is not started, so its task waits.
LEMMA InsertStep ==
  ASSUME "CpuUp" \notin GuestExits, TypeOK, MainInv, UniInv, InsertLive, [Next]_vars
  PROVE  InsertLive'
<1> USE DEF InsertLive
<1>1. CASE MainStep \/ TypeCommand
  <2>1. sh'.pc = "insert" => sh.pc = "setup" /\ sh'.task \in Task /\ pc'[sh'.task] = "spawned"
    BY ZenonT(40), <1>1, MainView, CommandView
    DEF InitEnds, Takes, StartEnds, Spawns, Inserts, Boots, Notifies, NotifyPanics, Adds,
        Waits, Decides, CheckPc, ShutsDown, Suspends, Resumes, NotifiesAll, DeleteSets,
        Removes, CleansUp, Creates, Types
  <2> QED
    BY Zenon, <2>1 DEF LivePc
<1>2. ASSUME NEW t \in Task, vcpu_run(t), sh'.pc = "insert" PROVE pc'[sh'.task] \in LivePc
  <2>1. sh.pc = "insert" /\ sh'.task = sh.task
    BY Zenon, <1>2, TaskView, NoPowerOn
    DEF TaskPanics, Starts, Proceeds, Blocks, Halts, Loops, Goes, Marks, SetsStatus,
        GuestShutsDown, Exits, DeclaresStopped, Subtracts, Wakes, SameVm
  <2>2. sh.task \in Task /\ pc[sh.task] \in {"spawned", "waitRunning"}
    BY Zenon, <2>1 DEF TypeOK, ShellTypeOK, MainInv, Ordered, UniInv, AtRest, ChecksHold
  <2>3. CASE t # sh.task
    <3>1. pc'[sh.task] = pc[sh.task]
      BY Zenon, <1>2, <2>2, <2>3, TaskView, NoPowerOn
      DEF TaskPanics, Starts, Proceeds, Blocks, Halts, Loops, Goes, Marks, SetsStatus,
          GuestShutsDown, Exits, DeclaresStopped, Subtracts, Wakes
    <3> QED
      BY Zenon, <2>1, <2>2, <3>1 DEF LivePc
  <2>4. CASE t = sh.task
    <3>1. TaskPanics(t) \/ Starts(t) \/ Proceeds(t) \/ Blocks(t)
      BY Zenon, <1>2, <2>2, <2>4, TaskView, NoPowerOn
      DEF Halts, Loops, Marks, GuestShutsDown, Exits, DeclaresStopped, Subtracts, Wakes
    <3>2. pc'[t] \in {"spawned", "waitRunning", "marking"}
      BY Zenon, <2>2, <2>4, <3>1 DEF TaskPanics, Starts, Proceeds, Blocks, Goes
    <3> QED
      BY Zenon, <2>1, <2>4, <3>2 DEF LivePc
  <2> QED BY Zenon, <2>3, <2>4
<1>3. CASE UNCHANGED vars
  BY Zenon, <1>3 DEF vars
<1> QED
  BY Zenon, <1>1, <1>2, <1>3 DEF Next

\* So the VM being set up has no other task to join.
LEMMA InsertFresh == ASSUME TypeOK, MainInv, UniInv, InsertLive PROVE FreshSetup
  BY Zenon DEF TypeOK, ShellTypeOK, UniInv, OneLive, LivePc, MainInv, Ordered, InsertLive,
     JoinPc, FreshSetup

\* With guests that power on no vCPU, every task that has started and whose VM
\* is listed is on the list that cleanup_vm_vcpus joins, or its spawner is about
\* to put it there, through any sequence of commands.
THEOREM UniTasksJoinable ==
  ASSUME "CpuUp" \notin GuestExits PROVE Spec => []TasksJoinable
<1>1. Init => InsertLive
  <2> SUFFICES ASSUME Init PROVE InsertLive
    OBVIOUS
  <2>1. sh.pc = "init"
    BY Zenon DEF Init, ShellInit
  <2> QED
    BY Zenon, <2>1 DEF InsertLive
<1>2. TypeOK /\ UniInv /\ MainInv /\ InsertLive /\ JoinInv /\ [Next]_vars
        => InsertLive' /\ JoinInv'
  <2> SUFFICES ASSUME TypeOK, UniInv, MainInv, InsertLive, JoinInv, [Next]_vars
               PROVE  InsertLive' /\ JoinInv'
    BY Zenon
  <2>1. InsertLive'
    BY ONLY "CpuUp" \notin GuestExits, TypeOK, MainInv, UniInv, InsertLive, [Next]_vars,
       InsertStep, Zenon
  <2>2. FreshSetup
    BY Zenon, InsertFresh
  <2>3. JoinInv'
    BY ONLY TypeOK, MainInv, JoinInv, <2>2, [Next]_vars, JoinStep, Zenon
  <2> QED BY Zenon, <2>1, <2>3
<1> QED
  BY <1>1, <1>2, JoinInit, Joinable, UniCorrect, PTL DEF Spec

-----------------------------------------------------------------------------
(* RUNNING_VM_COUNT.                                                       *)

\* The tasks that will still go through sub_running_vm_count.
DueTasks ==
    {t \in Task : \/ pc[t] = "subCount"
                  \/ pc[t] \in LivePc /\ status[vmOf[t]] \notin {"Loaded", "Stopped"}}

\* 1 between the boot of a VM and the add that counts it.
CountPending == IF sh.pc \in {"notify", "add"} THEN 1 ELSE 0

DueCovered ==
    Cardinality(DueTasks) <= runningVMs + CountPending

HasLive(v) == \E t \in Task : pc[t] \in LivePc /\ vmOf[t] = v

\* Until vmm::start returns, every VM it has to boot has a task that has not
\* declared it stopped, or is Stopped.
BootedLive ==
    /\ sh.phase # "shell" => listed = BootVMs
    /\ sh.phase = "init" => \A v \in listed \ sh.todo :
                              HasLive(v) \/ (sh.pc = "setup" /\ sh.vm = v)
    /\ sh.phase = "start" => \A v \in BootVMs : status[v] = "Stopped" \/ HasLive(v)

\* The tasks that have still to subtract are finitely many.
LEMMA DueFinite == IsFiniteSet(DueTasks) /\ Cardinality(DueTasks) \in Nat
<1>1. DueTasks \subseteq Task
  BY Zenon DEF DueTasks
<1> QED
  BY Zenon, <1>1, FS_Subset, FS_CardinalityType, TaskAssumption

\* A step that makes no further task due and does not count.
LEMMA DueFewer ==
  ASSUME TypeOK, DueCovered, DueTasks' \subseteq DueTasks, runningVMs' = runningVMs,
         CountPending' = CountPending
  PROVE  DueCovered'
<1>1. Cardinality(DueTasks') \in Nat /\ Cardinality(DueTasks') <= Cardinality(DueTasks)
  BY Zenon, DueFinite, FS_Subset, FS_CardinalityType
<1>2. runningVMs \in Int /\ CountPending \in Int
  BY DEF TypeOK, CountPending
<1> QED
  BY <1>1, <1>2, DueFinite DEF DueCovered

\* A step of the main thread keeps DueCovered.
LEMMA DueMain ==
  ASSUME TypeOK, MainInv, UniInv, DueCovered, MainStep \/ TypeCommand
  PROVE  DueCovered'
<1>0. /\ vmOf \in [Task -> VM] /\ sh.vm \in VM /\ runningVMs \in Int
      /\ PhasePc /\ LoadingHasNoTask /\ "unused" \notin LivePc
      /\ sh.phase \in {"init", "start", "shell"}
      /\ LiveHasBoot /\ AtRest /\ ChecksHold
  BY Zenon DEF TypeOK, ShellTypeOK, ShellState, MainInv, UniInv, LivePc, CountedPc
<1>1. ASSUME UNCHANGED <<status, vmOf, pc>> PROVE DueTasks' = DueTasks
  BY Zenon, <1>1 DEF DueTasks
<1>2. CASE InitEnds \/ Takes("init", "setup") \/ Takes("start", "boot") \/ StartEnds
  BY Zenon, <1>1, <1>2, DueFewer DEF InitEnds, Takes, StartEnds, MainOnly, CountPending
<1>3. CASE Spawns
  <2>1. DueTasks' \subseteq DueTasks
    BY Zenon, <1>0, <1>3 DEF Spawns, DueTasks, ChecksHold
  <2> QED
    BY Zenon, <1>3, <2>1, DueFewer DEF Spawns, CountPending
<1>4. CASE Inserts \/ Decides
  BY Zenon, <1>1, <1>4, DueFewer DEF Inserts, Decides, CheckPc, MainOnly, CountPending
<1>5. CASE Boots
  <2>1. runningVMs' = runningVMs /\ CountPending = 0 /\ CountPending' = 1
    BY Zenon, <1>5 DEF Boots, Sets, CountPending
  <2>2. CASE HasLive(sh.vm)
    <3>1. PICK t \in Task : pc[t] \in LivePc /\ vmOf[t] = sh.vm
      BY Zenon, <2>2 DEF HasLive
    <3>2. DueTasks' \subseteq DueTasks \cup {t}
      BY Zenon, <1>0, <1>5, <3>1 DEF Boots, Sets, DueTasks, UniInv, OneLive
    <3>3. /\ IsFiniteSet(DueTasks \cup {t})
          /\ Cardinality(DueTasks \cup {t}) <= Cardinality(DueTasks) + 1
      BY DueFinite, FS_AddElement
    <3>4. /\ Cardinality(DueTasks') <= Cardinality(DueTasks \cup {t})
          /\ Cardinality(DueTasks') \in Nat /\ Cardinality(DueTasks \cup {t}) \in Nat
      BY Zenon, <3>2, <3>3, FS_Subset, FS_CardinalityType
    <3> QED
      BY SMTT(30), <1>0, <2>1, <3>3, <3>4, DueFinite DEF DueCovered
  <2>3. CASE ~HasLive(sh.vm)
    <3>1. DueTasks' \subseteq DueTasks
      BY Zenon, <1>0, <1>5, <2>3 DEF Boots, Sets, DueTasks, HasLive
    <3>2. Cardinality(DueTasks') \in Nat /\ Cardinality(DueTasks') <= Cardinality(DueTasks)
      BY Zenon, <3>1, DueFinite, FS_Subset, FS_CardinalityType
    <3> QED
      BY SMTT(30), <1>0, <2>1, <3>2, DueFinite DEF DueCovered
  <2> QED BY Zenon, <2>2, <2>3
<1>6. CASE ShutsDown \/ Suspends \/ Resumes \/ DeleteSets
  <2>1. DueTasks' \subseteq DueTasks
    BY Zenon, <1>0, <1>6 DEF ShutsDown, Suspends, Resumes, DeleteSets, Sets, DueTasks,
       LiveHasBoot,
                     ChecksHold, PhasePc
  <2> QED
    BY Zenon, <1>6, <2>1, DueFewer DEF ShutsDown, Suspends, Resumes, DeleteSets, Sets,
       CountPending
<1>7. CASE Notifies \/ NotifyPanics \/ Waits \/ NotifiesAll
  BY Zenon, <1>1, <1>7, DueFewer DEF Notifies, NotifyPanics, Waits, NotifiesAll, MainOnly,
     CountPending
<1>8. CASE Adds
  <2>1. DueTasks' = DueTasks
    BY Zenon, <1>1, <1>8 DEF Adds
  <2>2. CountPending = 1 /\ CountPending' = 0 /\ runningVMs' = runningVMs + 1
    BY Zenon, <1>8 DEF Adds, CountPending
  <2> QED
    BY SMTT(30), <1>0, <2>1, <2>2, DueFinite DEF DueCovered
<1>9. CASE Removes \/ CleansUp
  BY Zenon, <1>1, <1>9, DueFewer DEF Removes, CleansUp, CountPending
<1>10. CASE Creates
  <2>1. DueTasks' \subseteq DueTasks
    BY Zenon, <1>0, <1>10 DEF Creates, DueTasks, LoadingHasNoTask
  <2> QED
    BY Zenon, <1>10, <2>1, DueFewer DEF Creates, CountPending
<1>11. ASSUME NEW c, NEW first \in CheckPc, Types(c, first) PROVE DueCovered'
  BY Zenon, <1>1, <1>11, DueFewer DEF Types, CheckPc, MainOnly, CountPending
<1> QED
  BY ZenonT(40), <1>2, <1>3, <1>4, <1>5, <1>6, <1>7, <1>8, <1>9, <1>10, <1>11, MainView, CommandView
  DEF CheckPc

\* A step of a vCPU task keeps DueCovered.
LEMMA DueTask ==
  ASSUME "CpuUp" \notin GuestExits, TypeOK, MainInv, UniInv, DueCovered, NEW t \in Task, vcpu_run(t)
  PROVE  DueCovered'
<1>0. vmOf \in [Task -> VM] /\ runningVMs \in Int /\ AtRest /\ CountIsOne /\ OneLive
  BY Zenon DEF TypeOK, UniInv
<1> USE DEF LivePc, CountedPc
<1>1. CASE TaskPanics(t) \/ Wakes(t)
  <2>1. DueTasks' \subseteq DueTasks
    BY Zenon, <1>1 DEF TaskPanics, Wakes, DueTasks
  <2> QED
    BY Zenon, <1>1, <2>1, DueFewer DEF TaskPanics, Wakes, CountPending
<1>2. CASE Starts(t) \/ Proceeds(t) \/ Blocks(t)
  <2>1. DueTasks' \subseteq DueTasks
    BY Zenon, <1>0, <1>2 DEF Starts, Proceeds, Blocks, Goes, DueTasks
  <2> QED
    BY Zenon, <1>2, <2>1, DueFewer DEF Starts, Proceeds, Blocks, Goes, CountPending
<1>3. CASE Halts(t) \/ Loops(t)
  <2>1. DueTasks' \subseteq DueTasks
    BY ZenonT(40), <1>0, <1>3 DEF Halts, Loops, Goes, DueTasks
  <2> QED
    BY Zenon, <1>3, <2>1, DueFewer DEF Halts, Loops, Goes, CountPending
<1>4. CASE Marks(t) \/ Exits(t)
  <2>1. DueTasks' \subseteq DueTasks
    BY Zenon, <1>0, <1>4 DEF Marks, Exits, DueTasks
  <2> QED
    BY Zenon, <1>4, <2>1, DueFewer DEF Marks, Exits, CountPending
<1>5. CASE GuestShutsDown(t) \/ DeclaresStopped(t)
  <2>1. DueTasks' \subseteq DueTasks
    BY <1>0, <1>5 DEF GuestShutsDown, DeclaresStopped, SetsStatus, DueTasks, AtRest, OneLive
  <2> QED
    BY ZenonT(40), <1>5, <2>1, DueFewer DEF GuestShutsDown, DeclaresStopped, SetsStatus, CountPending
<1>6. CASE Subtracts(t)
  <2>1. DueTasks' = DueTasks \ {t} /\ t \in DueTasks
    BY Zenon, <1>6 DEF Subtracts, DueTasks
  <2>2. Cardinality(DueTasks') = Cardinality(DueTasks) - 1
    BY ZenonT(40), <2>1, DueFinite, FS_RemoveElement
  <2>3. CountPending' = CountPending /\ CountPending \in Int /\ runningVMs' = runningVMs - 1
    BY <1>6 DEF Subtracts, CountPending
  <2> QED
    BY SMTT(30), <1>0, <2>2, <2>3, DueFinite DEF DueCovered
<1> QED
  BY ZenonT(40), <1>1, <1>2, <1>3, <1>4, <1>5, <1>6, TaskView, NoPowerOn

\* RUNNING_VM_COUNT covers the tasks that have still to subtract.
LEMMA DueCorrect == ASSUME "CpuUp" \notin GuestExits PROVE Spec => []DueCovered
<1>1. Init => DueCovered
  <2> SUFFICES ASSUME Init PROVE DueCovered
    BY Zenon
  <2>1. DueTasks = {} /\ runningVMs = 0 /\ CountPending \in {0, 1}
    BY Zenon DEF Init, DueTasks, LivePc, CountedPc, CountPending
  <2> QED
    BY <2>1, FS_EmptySet DEF DueCovered
<1>2. TypeOK /\ MainInv /\ UniInv /\ DueCovered /\ [Next]_vars => DueCovered'
  <2> SUFFICES ASSUME TypeOK, MainInv, UniInv, DueCovered, [Next]_vars PROVE DueCovered'
    BY Zenon
  <2>1. CASE MainStep \/ TypeCommand
    BY Zenon, <2>1, DueMain
  <2>2. CASE \E t \in Task : vcpu_run(t)
    BY Zenon, <2>2, DueTask
  <2>3. CASE UNCHANGED vars
    BY Zenon, <2>3 DEF vars, DueCovered, DueTasks, CountPending
  <2> QED
    BY Zenon, <2>1, <2>2, <2>3 DEF Next
<1> QED
  BY <1>1, <1>2, UniCorrect, PTL DEF Spec

\* With guests that run one vCPU, RUNNING_VM_COUNT covers every VM whose vCPU is past
\* its start and has not yet given its count back.
THEOREM UniRunningCovered == ASSUME "CpuUp" \notin GuestExits PROVE Spec => []RunningCovered
<1>1. TypeOK /\ UniInv /\ DueCovered => RunningCovered
  <2> SUFFICES ASSUME TypeOK, UniInv, DueCovered PROVE RunningCovered
    BY Zenon
  <2> DEFINE V == {v \in VM : Executing(v)}
             S == {t \in DueTasks : vmOf[t] \in V}
             f == [t \in S |-> vmOf[t]]
  <2>1. ASSUME NEW v \in V PROVE \E t \in S : vmOf[t] = v
    <3>1. PICK t \in Task : /\ vmOf[t] = v
                            /\ pc[t] \in CountedPc \cup {"marking", "lastExit", "subCount"}
      BY <2>1, Zenon DEF Executing, TasksOf
    <3>2. t \in DueTasks
      BY Zenon, <3>1 DEF DueTasks, UniInv, AtRest, LivePc, CountedPc
    <3> QED
      BY Zenon, <3>1, <3>2
  <2>2. f \in Surjection(S, V)
    BY Zenon, <2>1 DEF Surjection
  <2>3. IsFiniteSet(S) /\ Cardinality(S) <= Cardinality(DueTasks) /\ Cardinality(S) \in Nat
    BY Zenon, DueFinite, FS_Subset, FS_CardinalityType
  <2>4. Cardinality(V) <= Cardinality(S) /\ Cardinality(V) \in Nat
    <3> HIDE DEF f, S, V
    <3> QED
      BY ZenonT(40), <2>2, <2>3, FS_Surjection, FS_CardinalityType
  <2>5. runningVMs \in Int /\ CountPending \in Int
    BY DEF TypeOK, CountPending
  <2> HIDE DEF S, f
  <2> QED
    BY SMTT(30), <2>3, <2>4, <2>5, DueFinite DEF DueCovered, RunningCovered, CountPending
<1> QED
  BY <1>1, UniCorrect, DueCorrect, PTL

\* A step of the main thread keeps BootedLive.
LEMMA BootedMain ==
  ASSUME TypeOK, MainInv, UniInv, BootedLive, MainStep \/ TypeCommand
  PROVE  BootedLive'
<1>0. /\ vmOf \in [Task -> VM] /\ sh.vm \in VM /\ sh.todo \subseteq VM /\ BootVMs \subseteq VM
      /\ listed \subseteq VM /\ PhasePc /\ LoadingHasNoTask /\ "unused" \notin LivePc
      /\ sh.phase \in {"init", "start", "shell"} /\ "spawned" \in LivePc
  BY Zenon, BootVMsAssumption DEF TypeOK, ShellTypeOK, ShellState, MainInv, LivePc, CountedPc
<1>1. ASSUME UNCHANGED <<vmOf, pc>> PROVE \A v : HasLive(v)' <=> HasLive(v)
  BY Zenon, <1>1 DEF HasLive
<1>2. CASE InitEnds \/ Takes("init", "setup") \/ Takes("start", "boot") \/ StartEnds
  BY Zenon, <1>0, <1>1, <1>2 DEF InitEnds, Takes, StartEnds, MainOnly, SameVm, BootedLive,
     PhasePc
<1>3. CASE Spawns
  <2>1. HasLive(sh.vm)' /\ \A v \in VM : HasLive(v) => HasLive(v)'
    BY <1>0, <1>3 DEF Spawns, SameVm, HasLive
  <2> QED
    BY ZenonT(40), <1>0, <1>3, <2>1 DEF Spawns, SameVm, BootedLive, PhasePc
<1>4. CASE Inserts \/ Decides
  BY Zenon, <1>0, <1>1, <1>4 DEF Inserts, Decides, CheckPc, MainOnly, SameVm, BootedLive,
     PhasePc
<1>5. CASE Boots
  BY ZenonT(40), <1>0, <1>1, <1>5 DEF Boots, Sets, SameVm, BootedLive, PhasePc, UniInv, ChecksHold,
     StartLoop
<1>6. CASE ShutsDown \/ Suspends \/ Resumes \/ DeleteSets
  BY Zenon, <1>0, <1>1, <1>6 DEF ShutsDown, Suspends, Resumes, DeleteSets, Sets, SameVm,
     BootedLive, PhasePc
<1>7. CASE Notifies \/ NotifyPanics \/ Waits \/ NotifiesAll
  BY Zenon, <1>0, <1>1, <1>7 DEF Notifies, NotifyPanics, Waits, NotifiesAll, MainOnly, SameVm,
     BootedLive, PhasePc
<1>8. CASE Adds \/ Removes \/ CleansUp
  BY Zenon, <1>0, <1>1, <1>8 DEF Adds, Removes, CleansUp, SameVm, BootedLive, PhasePc
<1>9. CASE Creates
  BY Zenon, <1>0, <1>1, <1>9 DEF Creates, SameVm, BootedLive, PhasePc
<1>10. ASSUME NEW c, NEW first \in CheckPc, Types(c, first) PROVE BootedLive'
  BY Zenon, <1>0, <1>1, <1>10 DEF Types, CheckPc, MainOnly, BootedLive, PhasePc
<1> QED
  BY ZenonT(40), <1>2, <1>3, <1>4, <1>5, <1>6, <1>7, <1>8, <1>9, <1>10, MainView,
     CommandView DEF CheckPc

\* A step of a vCPU task keeps BootedLive.
LEMMA BootedTask ==
  ASSUME "CpuUp" \notin GuestExits, TypeOK, MainInv, UniInv, BootedLive,
         NEW t \in Task, vcpu_run(t)
  PROVE  BootedLive'
<1>0. vmOf \in [Task -> VM] /\ sh.vm \in VM /\ BootVMs \subseteq VM /\ listed \subseteq VM
  BY Zenon, BootVMsAssumption DEF TypeOK, ShellTypeOK, ShellState
<1> USE DEF LivePc, CountedPc
<1>1. ASSUME UNCHANGED <<listed, vmOf, sh>>,
             \A v \in VM : status[v] = "Stopped" => status'[v] = "Stopped",
             \A v \in VM : HasLive(v) => HasLive(v)' \/ (status'[v] = "Stopped" /\ status[v] # "Loaded")
      PROVE  BootedLive'
  BY Zenon, <1>0, <1>1 DEF BootedLive, UniInv, InitLoop
<1>2. CASE TaskPanics(t) \/ Wakes(t)
  <2>1. \A v \in VM : HasLive(v) => HasLive(v)'
    BY Zenon, <1>2 DEF TaskPanics, Wakes, HasLive
  <2>2. CASE TaskPanics(t)
    BY Zenon, <1>1, <2>1, <2>2 DEF TaskPanics
  <2>3. CASE Wakes(t)
    BY Zenon, <1>0, <2>1, <2>3 DEF Wakes, SameVm, BootedLive
  <2> QED BY Zenon, <1>2, <2>2, <2>3
<1>3. CASE Starts(t) \/ Proceeds(t) \/ Blocks(t)
  <2>1. \A v \in VM : HasLive(v) => HasLive(v)'
    BY Zenon, <1>3 DEF Starts, Proceeds, Blocks, Goes, HasLive
  <2> QED
    BY Zenon, <1>1, <1>3, <2>1 DEF Starts, Proceeds, Blocks, Goes
<1>4. CASE Halts(t) \/ Loops(t)
  <2>1. \A v \in VM : HasLive(v) => HasLive(v)'
    BY Zenon, <1>4 DEF Halts, Loops, Goes, HasLive
  <2> QED
    BY Zenon, <1>1, <1>4, <2>1 DEF Halts, Loops, Goes
<1>5. CASE Marks(t) \/ GuestShutsDown(t)
  <2>1. \A v \in VM : HasLive(v) => HasLive(v)'
    BY Zenon, <1>5 DEF Marks, GuestShutsDown, SetsStatus, HasLive
  <2>2. status[vmOf[t]] # "Stopped"
    BY Zenon, <1>5 DEF Marks, GuestShutsDown, SetsStatus, UniInv, AtRest
  <2> QED
    BY Zenon, <1>0, <1>1, <1>5, <2>1, <2>2 DEF Marks, GuestShutsDown, SetsStatus
<1>6. CASE Exits(t)
  <2>1. count[vmOf[t]] = 1
    BY Zenon, <1>0, <1>6 DEF Exits, UniInv, CountIsOne, HasCounted
  <2>2. \A v \in VM : HasLive(v) => HasLive(v)'
    BY Zenon, <1>6, <2>1 DEF Exits, HasLive
  <2> QED
    BY Zenon, <1>1, <1>6, <2>2 DEF Exits
<1>7. CASE DeclaresStopped(t)
  <2>1. status[vmOf[t]] # "Loaded"
    BY Zenon, <1>7 DEF DeclaresStopped, UniInv, AtRest
  <2>2. \A v \in VM \ {vmOf[t]} : HasLive(v) => HasLive(v)'
    BY Zenon, <1>7 DEF DeclaresStopped, SetsStatus, HasLive
  <2> QED
    BY ZenonT(40), <1>0, <1>1, <1>7, <2>1, <2>2 DEF DeclaresStopped, SetsStatus
<1>8. CASE Subtracts(t)
  <2>1. \A v \in VM : HasLive(v) => HasLive(v)'
    BY ZenonT(40), <1>8 DEF Subtracts, HasLive
  <2> QED
    BY Zenon, <1>1, <1>8, <2>1 DEF Subtracts
<1> QED
  BY ZenonT(40), <1>2, <1>3, <1>4, <1>5, <1>6, <1>7, <1>8, TaskView, NoPowerOn

\* BootedLive holds always.
LEMMA BootedCorrect == ASSUME "CpuUp" \notin GuestExits PROVE Spec => []BootedLive
<1>1. Init => BootedLive
  BY DEF Init, ShellInit, BootedLive
<1>2. TypeOK /\ MainInv /\ UniInv /\ BootedLive /\ [Next]_vars => BootedLive'
  <2> SUFFICES ASSUME TypeOK, MainInv, UniInv, BootedLive, [Next]_vars PROVE BootedLive'
    OBVIOUS
  <2>1. CASE MainStep \/ TypeCommand
    BY <2>1, BootedMain
  <2>2. CASE \E t \in Task : vcpu_run(t)
    BY <2>2, BootedTask
  <2>3. CASE UNCHANGED vars
    BY Zenon, <2>3 DEF vars, BootedLive, HasLive
  <2> QED
    BY <2>1, <2>2, <2>3 DEF Next
<1> QED
  BY <1>1, <1>2, UniCorrect, PTL DEF Spec

\* With guests that run one vCPU, vmm::start returns to main only when every VM it
\* booted is Stopped and has no vCPU left in the guest.
THEOREM UniVmmReturnsWhenStopped ==
  ASSUME "CpuUp" \notin GuestExits PROVE Spec => VmmReturnsWhenStopped
<1> DEFINE Returns == sh.pc = "vmmWait" /\ sh'.pc = "idle" =>
                        \A v \in BootVMs : status[v] = "Stopped" /\ Counted(v) = {}
<1>1. TypeOK /\ MainInv /\ UniInv /\ DueCovered /\ BootedLive /\ [Next]_vars => Returns
  <2> SUFFICES ASSUME TypeOK, MainInv, UniInv, DueCovered, BootedLive, [Next]_vars,
                      sh.pc = "vmmWait", sh'.pc = "idle", NEW v \in BootVMs
               PROVE  status[v] = "Stopped" /\ Counted(v) = {}
    BY Zenon
  <2>0. v \in VM /\ sh.phase = "start"
    BY Zenon, BootVMsAssumption DEF TypeOK, ShellTypeOK, ShellState, MainInv, PhasePc
  <2>1. runningVMs = 0
    <3>1. CASE MainStep \/ TypeCommand
      BY Zenon, <3>1, MainView, CommandView
      DEF InitEnds, Takes, StartEnds, Spawns, Inserts, Boots, Notifies, NotifyPanics, Adds,
          Waits, Decides, CheckPc, ShutsDown, Suspends, Resumes, NotifiesAll, DeleteSets,
          Removes, CleansUp, Creates, Types
    <3>2. ASSUME NEW t \in Task, vcpu_run(t) PROVE FALSE
      BY Zenon, <3>2, TaskView
      DEF TaskPanics, Starts, Proceeds, Blocks, Halts, Loops, Goes, Marks, PowersOn, AddsTask,
          SetsStatus, GuestShutsDown, Exits, DeclaresStopped, Subtracts, Wakes
    <3> QED
      BY Zenon, <3>1, <3>2 DEF Next, vars
  <2>2. DueTasks = {}
    BY SMTT(30), <2>1, DueFinite, FS_EmptySet DEF DueCovered, CountPending
  <2>3. status[v] = "Stopped"
    <3>1. status[v] # "Loaded"
      BY Zenon, <2>0 DEF UniInv, StartLoop
    <3> QED
      BY <2>0, <2>2, <3>1 DEF BootedLive, HasLive, DueTasks
  <2>4. Counted(v) = {}
    BY Zenon, <2>3 DEF UniInv, AtRest, LivePc, CountedPc, Counted, TasksOf
  <2> QED BY Zenon, <2>3, <2>4
<1> QED
  BY <1>1, UniCorrect, DueCorrect, BootedCorrect, PTL DEF Spec, VmmReturnsWhenStopped

-----------------------------------------------------------------------------
(* The queue of an entry.                                                  *)

\* The one task of a VM only ever waits in the queue of its own entry, and a
\* task of a VM that has just been booted has no reason to wait.
HomeOwn ==
    \A t \in Task : /\ pc[t] \notin {"halted", "down"}
                    /\ home[t] \in {NoTask, t} /\ (t \in asleep => home[t] = t)

EntryOfTask ==
    \A t \in Task : pc[t] \in LivePc => entry[vmOf[t]] \in {t, NoTask} \/ AboutToInsert(t)

TaskOfEntry ==
    \A v \in VM : entry[v] # NoTask => vmOf[entry[v]] = v /\ pc[entry[v]] # "unused"

BootedRuns ==
    sh.pc \in {"notify", "add"} =>
        /\ status[sh.vm] # "Suspended"
        /\ \A t \in Task : pc[t] \in {"spawned", "waitRunning"} /\ vmOf[t] = sh.vm
                             => status[sh.vm] = "Running"

HomeInv == HomeOwn /\ EntryOfTask /\ TaskOfEntry /\ BootedRuns

\* Its entry is in the map before the task starts.
InsertSpawned == sh.pc = "insert" => pc[sh.task] = "spawned"

AwakeInv == InsertSpawned /\ HomeInv /\ NotifiedPrimaryAwake

\* AwakeInv holds at the start.
LEMMA AwakeInit == Init => AwakeInv
<1> SUFFICES ASSUME Init PROVE AwakeInv
  BY Zenon
<1>1. /\ \A t \in Task : pc[t] = "unused" /\ home[t] = NoTask
      /\ sh.pc = "init" /\ asleep = {} /\ \A v \in VM : entry[v] = NoTask
  BY Zenon DEF Init, ShellInit
<1> QED
  BY Zenon, <1>1 DEF AwakeInv, InsertSpawned, HomeInv, HomeOwn, EntryOfTask, TaskOfEntry,
     BootedRuns, NotifiedPrimaryAwake, LivePc, CountedPc

\* A step of the main thread keeps HomeInv and NotifiedPrimaryAwake.
LEMMA AwakeMain ==
  ASSUME TypeOK, MainInv, UniInv, AwakeInv, MainStep \/ TypeCommand
  PROVE  HomeInv' /\ NotifiedPrimaryAwake'
<1>0. /\ vmOf \in [Task -> VM] /\ sh.vm \in VM /\ NoTask \notin Task /\ asleep \subseteq Task
      /\ (\A v \in VM : entry[v] \in Task \cup {NoTask})
      /\ (sh.pc = "insert" => sh.task \in Task /\ pc[sh.task] = "spawned" /\ vmOf[sh.task] = sh.vm)
      /\ LoadingHasNoTask /\ "unused" \notin LivePc /\ "spawned" \in LivePc /\ OneLive
  BY ZenonT(40), TaskAssumption
  DEF TypeOK, ShellTypeOK, ShellState, Entries, MainInv, Ordered, UniInv, AwakeInv,
      InsertSpawned, LivePc, CountedPc
<1> USE DEF AwakeInv, HomeInv
<1>1. CASE InitEnds \/ Takes("init", "setup") \/ Takes("start", "boot") \/ StartEnds
  <2>1. sh.pc # "insert" /\ sh'.pc \notin {"insert", "notify", "add"}
    BY Zenon, <1>1 DEF InitEnds, Takes, StartEnds
  <2>2. UNCHANGED <<vmOf, pc, home, asleep, entry>>
    BY Zenon, <1>1 DEF InitEnds, Takes, StartEnds, MainOnly
  <2>3. HomeOwn' /\ EntryOfTask' /\ TaskOfEntry'
    BY Zenon, <2>1, <2>2 DEF HomeOwn, EntryOfTask, TaskOfEntry, AboutToInsert
  <2> QED
    BY Zenon, <2>1, <2>3 DEF BootedRuns, NotifiedPrimaryAwake
<1>2. CASE Spawns
  <2>1. /\ sh.pc = "setup" /\ sh'.pc = "insert" /\ sh'.vm = sh.vm /\ sh'.task \in Task
        /\ pc[sh'.task] = "unused" /\ UNCHANGED <<home, asleep, entry>>
        /\ pc'[sh'.task] = "spawned" /\ vmOf'[sh'.task] = sh.vm
        /\ \A u \in Task : u # sh'.task => pc'[u] = pc[u] /\ vmOf'[u] = vmOf[u]
    BY Zenon, <1>2 DEF Spawns, SameVm
  <2>2. HomeOwn'
    BY Zenon, <2>1 DEF HomeOwn
  <2>3. EntryOfTask'
    BY Zenon, <2>1 DEF EntryOfTask, AboutToInsert
  <2>4. TaskOfEntry'
    BY Zenon, <1>0, <2>1 DEF TaskOfEntry
  <2> QED
    BY Zenon, <2>1, <2>2, <2>3, <2>4 DEF BootedRuns, NotifiedPrimaryAwake
<1>3. CASE Inserts
  <2>1. /\ sh.pc = "insert" /\ sh'.pc \in {"init", "boot"}
        /\ UNCHANGED <<vmOf, pc, home, asleep>>
        /\ entry'[sh.vm] = sh.task /\ \A v \in VM : v # sh.vm => entry'[v] = entry[v]
    BY Zenon, <1>0, <1>3 DEF Inserts
  <2>2. \A t \in Task : pc[t] \in LivePc /\ vmOf[t] = sh.vm => t = sh.task
    BY Zenon, <1>0, <2>1 DEF OneLive
  <2>3. HomeOwn'
    BY Zenon, <2>1 DEF HomeOwn
  <2>4. EntryOfTask'
    <3> SUFFICES ASSUME NEW t \in Task, pc[t] \in LivePc PROVE entry'[vmOf[t]] \in {t, NoTask}
      BY Zenon, <2>1 DEF EntryOfTask
    <3>1. CASE vmOf[t] = sh.vm
      BY Zenon, <2>1, <2>2, <3>1
    <3>2. CASE vmOf[t] # sh.vm
      BY Zenon, <1>0, <2>1, <3>2 DEF EntryOfTask, AboutToInsert
    <3> QED BY Zenon, <3>1, <3>2
  <2>5. TaskOfEntry'
    BY Zenon, <1>0, <2>1 DEF TaskOfEntry
  <2> QED
    BY Zenon, <2>1, <2>3, <2>4, <2>5 DEF BootedRuns, NotifiedPrimaryAwake
<1> USE DEF HomeOwn, EntryOfTask, TaskOfEntry, BootedRuns, NotifiedPrimaryAwake, AboutToInsert
<1>4. CASE Boots
  BY ZenonT(40), <1>0, <1>4 DEF Boots, Sets, SameVm
<1>5. CASE Notifies
  <2>1. \A w \in Task : w \in Waiters(sh.vm) <=> w \in asleep /\ w = entry[sh.vm]
    BY Zenon, <1>0, <1>5 DEF Notifies, Waiters
  <2>2. asleep' \subseteq asleep /\ entry[sh.vm] \notin asleep'
    BY ZenonT(40), <1>0, <1>5, <2>1 DEF Notifies, Waiters
  <2> QED
    BY <1>0, <1>5, <2>2 DEF Notifies, SameVm
<1>6. CASE NotifyPanics \/ Adds \/ Waits \/ NotifiesAll
  BY <1>0, <1>6 DEF NotifyPanics, Adds, Waits, NotifiesAll, MainOnly, SameVm
<1>7. CASE Decides
  BY ZenonT(40), <1>0, <1>7 DEF Decides, CheckPc, MainOnly, SameVm
<1>8. CASE ShutsDown \/ Suspends \/ Resumes \/ DeleteSets
  <2>1. sh.pc # "insert" /\ sh'.pc \notin {"insert", "notify", "add"}
    BY Zenon, <1>8 DEF ShutsDown, Suspends, Resumes, DeleteSets
  <2>2. UNCHANGED <<vmOf, pc, home, asleep, entry>>
    BY ZenonT(40), <1>8 DEF ShutsDown, Suspends, Resumes, DeleteSets, Sets
  <2> QED
    BY Zenon, <2>1, <2>2
<1>9. CASE Removes \/ CleansUp
  BY <1>0, <1>9 DEF Removes, CleansUp, SameVm
<1>10. CASE Creates
  BY Zenon, <1>0, <1>10 DEF Creates, SameVm
<1>11. ASSUME NEW c, NEW first \in CheckPc, Types(c, first)
       PROVE  HomeInv' /\ NotifiedPrimaryAwake'
  BY Zenon, <1>0, <1>11 DEF Types, CheckPc, MainOnly
<1> QED
  BY ZenonT(40), <1>1, <1>2, <1>3, <1>4, <1>5, <1>6, <1>7, <1>8, <1>9, <1>10, <1>11, MainView,
     CommandView
  DEF CheckPc

\* A step of a vCPU task keeps them.
LEMMA AwakeTask ==
  ASSUME "CpuUp" \notin GuestExits, RemoteVcpu = FALSE, GuestExits \cap {"Halt", "CpuDown"} = {},
         TypeOK, MainInv, UniInv, AwakeInv, NEW t \in Task, vcpu_run(t)
  PROVE  HomeInv' /\ NotifiedPrimaryAwake'
<1>0. /\ vmOf \in [Task -> VM] /\ sh.vm \in VM /\ NoTask \notin Task /\ asleep \subseteq Task
      /\ (\A v \in VM : entry[v] \in Task \cup {NoTask})
      /\ (sh.pc = "insert" => sh.task \in Task) /\ OneLive
  BY Zenon, TaskAssumption DEF TypeOK, ShellTypeOK, ShellState, Entries, UniInv
<1> USE DEF AwakeInv, HomeInv
<1>1. CASE TaskPanics(t)
  <2>1. UNCHANGED <<status, entry, vmOf, pc, home, asleep, sh>>
    BY Zenon, <1>1 DEF TaskPanics
  <2>2. HomeOwn' /\ EntryOfTask' /\ TaskOfEntry'
    BY Zenon, <2>1 DEF HomeOwn, EntryOfTask, TaskOfEntry, AboutToInsert
  <2> QED
    BY Zenon, <2>1, <2>2 DEF BootedRuns, NotifiedPrimaryAwake
<1>8. ASSUME NEW q, q \notin {"unused", "spawned", "halted", "down"}, pc[t] # "unused",
             q \in LivePc => pc[t] \in LivePc,
             q = "waitRunning" => pc[t] = "spawned",
             pc[t] = "spawned" => sh.pc # "insert",
             \A u \in Task : pc'[u] = IF u = t THEN q ELSE pc[u],
             \A u \in Task : home'[u] = home[u] \/ (home'[u] = NoTask /\ u \notin asleep),
             UNCHANGED <<status, entry, vmOf, asleep, sh>>
      PROVE  HomeInv' /\ NotifiedPrimaryAwake'
  <2>1. /\ pc'[t] = q /\ \A u \in Task : u # t => pc'[u] = pc[u]
        /\ UNCHANGED <<status, entry, vmOf, asleep, sh>>
    BY Zenon, <1>8
  <2>2. HomeOwn'
    BY Zenon, <1>8, <2>1 DEF HomeOwn
  <2>3. EntryOfTask'
    <3> SUFFICES ASSUME NEW u \in Task, pc'[u] \in LivePc
                 PROVE  entry[vmOf[u]] \in {u, NoTask} \/ AboutToInsert(u)'
      BY Zenon, <2>1 DEF EntryOfTask
    <3>1. pc[u] \in LivePc
      BY Zenon, <1>8, <2>1
    <3>2. entry[vmOf[u]] \in {u, NoTask} \/ AboutToInsert(u)
      BY Zenon, <3>1 DEF EntryOfTask
    <3>3. AboutToInsert(u) => AboutToInsert(u)'
      BY Zenon, <2>1 DEF AboutToInsert
    <3> QED
      BY Zenon, <3>2, <3>3
  <2>4. TaskOfEntry'
    <3>1. \A u \in Task : pc[u] # "unused" => pc'[u] # "unused"
      BY Zenon, <1>8, <2>1
    <3>2. \A v \in VM : entry[v] # NoTask => entry[v] \in Task
      BY Zenon, <1>0
    <3>3. UNCHANGED <<entry, vmOf>>
      BY Zenon, <2>1
    <3> QED
      BY Zenon, <3>1, <3>2, <3>3 DEF TaskOfEntry
  <2>5. BootedRuns'
    BY Zenon, <1>8, <2>1 DEF BootedRuns
  <2> QED
    BY Zenon, <2>1, <2>2, <2>3, <2>4, <2>5 DEF NotifiedPrimaryAwake
<1> HIDE DEF HomeInv
<1>2. CASE Starts(t) \/ Proceeds(t)
  <2>1. CASE Starts(t)
    <3>1. /\ pc[t] = "spawned" /\ sh.pc # "insert" /\ UNCHANGED <<home, asleep>>
          /\ Goes(t, "waitRunning")
      BY Zenon, <2>1 DEF Starts
    <3> QED
      BY Zenon, <1>8, <3>1 DEF Goes, LivePc
  <2>2. CASE Proceeds(t)
    <3>1. PICK q \in {"marking", "guest"} : Goes(t, q) /\ pc[t] \in {"waitRunning", "waitResume"}
      BY Zenon, <2>2 DEF Proceeds
    <3>2. t \notin asleep /\ home'[t] = NoTask /\ asleep' = asleep
      BY Zenon, <2>2 DEF Proceeds
    <3>3. pc[t] \in LivePc
      BY Zenon, <3>1 DEF LivePc, CountedPc
    <3> QED
      BY Zenon, <1>8, <3>1, <3>2, <3>3 DEF Goes
  <2> QED BY Zenon, <1>2, <2>1, <2>2
<1>3. CASE Blocks(t)
  <2>0. HomeOwn /\ EntryOfTask /\ TaskOfEntry /\ BootedRuns
    BY Zenon DEF HomeInv
  <2>1. entry[vmOf[t]] \in {t, NoTask}
    <3>1. pc[t] \in LivePc \ {"spawned"}
      BY Zenon, <1>3 DEF Blocks, LivePc, CountedPc
    <3> QED
      BY Zenon, <1>0, <2>0, <3>1 DEF EntryOfTask, AboutToInsert, InsertSpawned
  <2>2. home'[t] = t
    BY Zenon, <2>0, <1>3, <2>1 DEF Blocks, HomeOwn
  <2>3. sh.pc = "add" => entry[sh.vm] # t
    <3> SUFFICES ASSUME sh.pc = "add", entry[sh.vm] = t PROVE FALSE
      BY Zenon
    <3>1. vmOf[t] = sh.vm
      BY Zenon, <1>0, <2>0 DEF TaskOfEntry
    <3>2. /\ status[sh.vm] # "Suspended"
          /\ pc[t] \in {"spawned", "waitRunning"} => status[sh.vm] = "Running"
      BY Zenon, <2>0, <3>1 DEF BootedRuns
    <3> QED
      BY Zenon, <1>3, <3>1, <3>2 DEF Blocks
  <2>4. /\ \A u \in Task : pc'[u] = pc[u] /\ (u # t => home'[u] = home[u])
        /\ asleep' = asleep \cup {t} /\ UNCHANGED <<status, entry, vmOf, sh>>
    BY Zenon, <1>3 DEF Blocks, Goes
  <2>5. HomeOwn'
    BY Zenon, <2>0, <2>2, <2>4 DEF HomeOwn
  <2>6. EntryOfTask'
    BY Zenon, <2>0, <2>4 DEF EntryOfTask, AboutToInsert
  <2>7. TaskOfEntry'
    BY Zenon, <1>0, <2>0, <2>4 DEF TaskOfEntry
  <2>8. BootedRuns'
    BY Zenon, <2>0, <2>4 DEF BootedRuns
  <2>9. NotifiedPrimaryAwake'
    BY Zenon, <2>3, <2>4 DEF NotifiedPrimaryAwake
  <2> QED BY Zenon, <2>5, <2>6, <2>7, <2>8, <2>9 DEF HomeInv
<1>4. CASE Halts(t) \/ Loops(t)
  <2>1. Loops(t) /\ pc[t] \notin {"halted", "down"}
    BY Zenon, <1>4 DEF Halts, HomeInv, HomeOwn
  <2>2. PICK q \in {"checkSuspend", "waitResume", "checkStop", "guest", "exiting"} :
          Goes(t, q) /\ home' = home /\ pc[t] \in {"guest", "checkSuspend", "checkStop"}
    BY Zenon, <2>1 DEF Loops
  <2>3. asleep' = asleep /\ pc[t] \in LivePc
    BY Zenon, <2>1, <2>2 DEF Loops, LivePc, CountedPc
  <2> QED
    BY Zenon, <1>8, <2>2, <2>3 DEF Goes
<1>5. CASE Marks(t) \/ Exits(t) \/ Subtracts(t)
  <2>1. PICK q \in {"guest", "lastExit", "done", "wakeVmm"} :
          \A u \in Task : pc'[u] = IF u = t THEN q ELSE pc[u]
    <3>1. CASE Marks(t)
      BY Zenon, <3>1 DEF Marks
    <3>2. CASE Exits(t)
      BY SMTT(30), <3>2 DEF Exits
    <3>3. CASE Subtracts(t)
      BY Zenon, <3>3 DEF Subtracts
    <3> QED BY Zenon, <1>5, <3>1, <3>2, <3>3
  <2>2. UNCHANGED <<status, entry, vmOf, home, asleep, sh>> /\ pc[t] \notin {"unused", "spawned"}
    BY Zenon, <1>5 DEF Marks, Exits, Subtracts
  <2>3. q \in LivePc => pc[t] \in LivePc
    BY ZenonT(40), <1>5, <2>1 DEF Marks, Exits, Subtracts, LivePc, CountedPc
  <2> QED
    BY Zenon, <1>8, <2>1, <2>2, <2>3
<1>6. CASE GuestShutsDown(t) \/ DeclaresStopped(t)
  <2>0. HomeOwn /\ EntryOfTask /\ TaskOfEntry /\ BootedRuns /\ NotifiedPrimaryAwake
    BY Zenon DEF HomeInv
  <2>1. \A u \in Task : pc[u] \in {"spawned", "waitRunning"} => vmOf[u] # vmOf[t]
    BY ZenonT(40), <1>0, <1>6 DEF GuestShutsDown, DeclaresStopped, OneLive, LivePc, CountedPc
  <2>2. /\ pc[t] \in {"guest", "lastExit"} /\ pc'[t] \in {"checkSuspend", "subCount"}
        /\ status'[vmOf[t]] \in {"Stopping", "Stopped"}
        /\ \A u \in Task : u # t => pc'[u] = pc[u]
        /\ \A v \in VM : v # vmOf[t] => status'[v] = status[v]
        /\ UNCHANGED <<entry, vmOf, home, asleep, sh>>
    BY Zenon, <1>0, <1>6 DEF GuestShutsDown, DeclaresStopped, SetsStatus
  <2>3. pc[t] \in LivePc
    BY Zenon, <2>2 DEF LivePc, CountedPc
  <2>4. HomeOwn'
    BY Zenon, <2>0, <2>2 DEF HomeOwn
  <2>5. EntryOfTask'
    <3> SUFFICES ASSUME NEW u \in Task, pc'[u] \in LivePc
                 PROVE  entry[vmOf[u]] \in {u, NoTask} \/ AboutToInsert(u)'
      BY Zenon, <2>2 DEF EntryOfTask
    <3>1. pc[u] \in LivePc
      BY Zenon, <2>2, <2>3
    <3>2. entry[vmOf[u]] \in {u, NoTask} \/ AboutToInsert(u)
      BY Zenon, <2>0, <3>1 DEF EntryOfTask
    <3>3. AboutToInsert(u) => AboutToInsert(u)'
      BY Zenon, <2>2 DEF AboutToInsert
    <3> QED
      BY Zenon, <3>2, <3>3
  <2>6. TaskOfEntry'
    <3>1. \A u \in Task : pc[u] # "unused" => pc'[u] # "unused"
      BY Zenon, <2>2
    <3>2. \A v \in VM : entry[v] # NoTask => entry[v] \in Task
      BY Zenon, <1>0
    <3>3. UNCHANGED <<entry, vmOf>>
      BY Zenon, <2>2
    <3> QED
      BY Zenon, <2>0, <3>1, <3>2, <3>3 DEF TaskOfEntry
  <2>7. BootedRuns'
    <3> SUFFICES ASSUME sh.pc \in {"notify", "add"}
                 PROVE  /\ status'[sh.vm] # "Suspended"
                        /\ \A u \in Task : pc'[u] \in {"spawned", "waitRunning"} /\ vmOf[u] = sh.vm
                                             => status'[sh.vm] = "Running"
      BY Zenon, <2>2 DEF BootedRuns
    <3>1. CASE sh.vm = vmOf[t]
      BY Zenon, <2>1, <2>2, <3>1
    <3>2. CASE sh.vm # vmOf[t]
      BY Zenon, <1>0, <2>0, <2>2, <3>2 DEF BootedRuns
    <3> QED BY Zenon, <3>1, <3>2
  <2> QED
    BY Zenon, <2>0, <2>2, <2>4, <2>5, <2>6, <2>7 DEF NotifiedPrimaryAwake, HomeInv
<1>7. CASE Wakes(t)
  <2>1. /\ pc[t] = "wakeVmm" /\ pc'[t] = "done" /\ \A u \in Task : u # t => pc'[u] = pc[u]
        /\ UNCHANGED <<status, entry, vmOf, home, asleep>> /\ sh'.vm = sh.vm /\ sh'.task = sh.task
        /\ sh'.pc = sh.pc \/ (sh.pc = "vmmAsleep" /\ sh'.pc = "vmmWait")
    BY Zenon, <1>7 DEF Wakes, SameVm
  <2>2. HomeOwn' /\ TaskOfEntry'
    BY Zenon, <1>0, <2>1 DEF HomeInv, HomeOwn, TaskOfEntry
  <2>3. EntryOfTask'
    <3>1. "done" \notin LivePc
      BY Zenon DEF LivePc, CountedPc
    <3> QED
      BY Zenon, <2>1, <3>1 DEF HomeInv, EntryOfTask, AboutToInsert
  <2>4. BootedRuns' /\ NotifiedPrimaryAwake'
    BY Zenon, <2>1 DEF HomeInv, BootedRuns, NotifiedPrimaryAwake
  <2> QED BY Zenon, <2>2, <2>3, <2>4 DEF HomeInv
<1> QED
  BY ZenonT(40), <1>1, <1>2, <1>3, <1>4, <1>5, <1>6, <1>7, TaskView, NoPowerOn

\* With guests that run one vCPU and neither halt nor power it down, and tasks
\* that do not start before their entry is in the map, the primary vCPU of a VM
\* is awake after notify_primary_vcpu, whatever the commands.
THEOREM UniNotifiedPrimaryAwake ==
  ASSUME "CpuUp" \notin GuestExits, RemoteVcpu = FALSE, GuestExits \cap {"Halt", "CpuDown"} = {}
  PROVE  Spec => []NotifiedPrimaryAwake
<1>1. TypeOK /\ MainInv /\ UniInv /\ AwakeInv /\ [Next]_vars => AwakeInv'
  <2> SUFFICES ASSUME TypeOK, MainInv, UniInv, AwakeInv, [Next]_vars PROVE AwakeInv'
    BY Zenon
  <2>2. InsertSpawned'
    <3>1. CASE MainStep \/ TypeCommand
      BY ZenonT(40), <3>1, MainView, CommandView
      DEF InitEnds, Takes, StartEnds, Spawns, Inserts, Boots, Notifies, NotifyPanics, Adds,
          Waits, Decides, CheckPc, ShutsDown, Suspends, Resumes, NotifiesAll, DeleteSets,
          Removes, CleansUp, Creates, Types, InsertSpawned
    <3>2. ASSUME NEW t \in Task, vcpu_run(t) PROVE InsertSpawned'
      <4>1. /\ sh'.pc = "insert" => /\ sh.pc = "insert" /\ sh'.task = sh.task
                                    /\ pc[t] = "spawned" => pc'[t] = "spawned"
            /\ \A u \in Task : u # t => pc'[u] = pc[u]
        BY ZenonT(40), <3>2, TaskView, NoPowerOn
        DEF TaskPanics, Starts, Proceeds, Blocks, Halts, Loops, Goes, Marks, SetsStatus,
            GuestShutsDown, Exits, DeclaresStopped, Subtracts, Wakes, SameVm
      <4> QED
        BY Zenon, <4>1 DEF AwakeInv, InsertSpawned, TypeOK, ShellTypeOK, MainInv, Ordered
    <3> QED
      BY Zenon, <3>1, <3>2 DEF Next, vars, AwakeInv, InsertSpawned
  <2>3. CASE MainStep \/ TypeCommand
    BY Zenon, <2>2, <2>3, AwakeMain DEF AwakeInv
  <2>4. CASE \E t \in Task : vcpu_run(t)
    BY Zenon, <2>2, <2>4, AwakeTask DEF AwakeInv
  <2>5. CASE UNCHANGED vars
    BY Zenon, <2>2, <2>5 DEF vars, AwakeInv, HomeInv, HomeOwn, EntryOfTask, TaskOfEntry,
       BootedRuns, NotifiedPrimaryAwake, AboutToInsert
  <2> QED
    BY Zenon, <2>3, <2>4, <2>5 DEF Next
<1>2. AwakeInv => NotifiedPrimaryAwake
  BY Zenon DEF AwakeInv
<1> QED
  BY <1>1, <1>2, AwakeInit, UniCorrect, PTL DEF Spec

-----------------------------------------------------------------------------
(* The status, for guests that do not shut down by themselves and an       *)
(* operator who neither deletes nor forces a stop.                         *)

\* The status that a task or a command has read is still there when it acts.
CheckedStatus ==
    /\ \A t \in Task : pc[t] \in {"exiting", "lastExit"} => status[vmOf[t]] = "Stopping"
    /\ sh.pc = "suspendSet" => status[sh.vm] = "Running"
    /\ sh.pc = "resumeSet" => status[sh.vm] = "Suspended"
    /\ sh.pc = "shutdown" => status[sh.vm] \in {"Loading", "Loaded", "Running", "Suspended"}

\* At the start nothing has been checked.
LEMMA CheckedInit == Init => CheckedStatus
<1> SUFFICES ASSUME Init PROVE CheckedStatus
  OBVIOUS
<1>1. (\A t \in Task : pc[t] = "unused") /\ sh.pc = "init"
  BY Zenon DEF Init, ShellInit
<1> QED
  BY Zenon, <1>1 DEF CheckedStatus

\* A function that is changed at one point.
LEMMA SetAt ==
  ASSUME status \in [VM -> VMStatus], status' \in [VM -> VMStatus], NEW w \in VM, NEW s,
         \A v \in VM : status'[v] = IF v = w THEN s ELSE status[v]
  PROVE  status' = [status EXCEPT ![w] = s]
  BY Zenon

\* A step of the main thread keeps CheckedStatus and is a step of VmStatus.
LEMMA CheckedMain ==
  ASSUME "delete" \notin Commands, TRUE \notin ForceFlags,
         TypeOK, TypeOK', MainInv, UniInv, CheckedStatus, MainStep \/ TypeCommand
  PROVE  CheckedStatus' /\ [Intended!Next]_status
<1>0. /\ vmOf \in [Task -> VM] /\ sh.vm \in VM /\ sh.force = FALSE /\ sh.pc \notin DeletePc
      /\ LoadingHasNoTask /\ AtRest /\ ChecksHold /\ sh'.vm \in VM
      /\ status \in [VM -> VMStatus] /\ status' \in [VM -> VMStatus]
  BY Zenon DEF TypeOK, ShellTypeOK, ShellState, MainInv, Allowed, UniInv
<1> USE DEF CheckedStatus
<1>1. CASE InitEnds \/ Takes("init", "setup") \/ Takes("start", "boot") \/ StartEnds
  BY ZenonT(40), <1>0, <1>1 DEF InitEnds, Takes, StartEnds, MainOnly, SameVm
<1>2. CASE Spawns \/ Inserts
  BY <1>0, <1>2 DEF Spawns, Inserts, SameVm
<1>3. CASE Boots
  <2>1. status[sh.vm] \in {"Loaded", "Stopped"} /\ status' = [status EXCEPT ![sh.vm] = "Running"]
    BY <1>0, <1>3, SetAt DEF Boots, Sets, ChecksHold
  <2>2. CheckedStatus'
    BY Zenon, <1>0, <1>3, <2>1 DEF Boots, Sets, SameVm
  <2> QED
    BY ZenonT(40), <1>0, <2>1, <2>2 DEF Intended!Next, Intended!Start, Intended!Move
<1>4. CASE Notifies \/ NotifyPanics \/ Adds \/ Waits \/ NotifiesAll
  BY Zenon, <1>0, <1>4 DEF Notifies, NotifyPanics, Adds, Waits, NotifiesAll, MainOnly, SameVm
<1>5. CASE Decides
  BY Zenon, <1>0, <1>5 DEF Decides, CheckPc, MainOnly, SameVm, can_stop_vm
<1>6. CASE ShutsDown
  <2>1. status' = [status EXCEPT ![sh.vm] = "Stopping"]
    BY Zenon, <1>0, <1>6, SetAt DEF ShutsDown, Sets
  <2>2. CheckedStatus'
    BY Zenon, <1>0, <1>6, <2>1 DEF ShutsDown, Sets, SameVm
  <2> QED
    BY ZenonT(40), <1>0, <1>6, <2>1, <2>2 DEF ShutsDown, Intended!Next, Intended!Stop, Intended!Move
<1>7. CASE Suspends
  <2>1. status' = [status EXCEPT ![sh.vm] = "Suspended"]
    BY Zenon, <1>0, <1>7, SetAt DEF Suspends, Sets
  <2>2. CheckedStatus'
    BY Zenon, <1>0, <1>7, <2>1 DEF Suspends, Sets, SameVm
  <2> QED
    BY Zenon, <1>0, <1>7, <2>1, <2>2 DEF Suspends, Intended!Next, Intended!Suspend,
       Intended!Move
<1>8. CASE Resumes
  <2>1. status' = [status EXCEPT ![sh.vm] = "Running"]
    BY Zenon, <1>0, <1>8, SetAt DEF Resumes, Sets
  <2>2. CheckedStatus'
    BY Zenon, <1>0, <1>8, <2>1 DEF Resumes, Sets, SameVm
  <2> QED
    BY Zenon, <1>0, <1>8, <2>1, <2>2 DEF Resumes, Intended!Next, Intended!Resume, Intended!Move
<1>9. CASE DeleteSets \/ Removes \/ CleansUp
  BY Zenon, <1>0, <1>9 DEF DeleteSets, Removes, CleansUp, DeletePc
<1>10. CASE Creates
  <2>1. PICK w \in VM : /\ status[w] = "Loading" /\ sh'.pc = "idle" /\ UNCHANGED <<pc, vmOf>>
                        /\ \A v \in VM : status'[v] = IF v = w THEN "Loaded" ELSE status[v]
    BY Zenon, <1>10 DEF Creates
  <2>2. status' = [status EXCEPT ![w] = "Loaded"]
    BY Zenon, <1>0, <2>1, SetAt
  <2>3. CheckedStatus'
    BY Zenon, <1>0, <2>1
  <2> QED
    BY ZenonT(40), <1>0, <2>1, <2>2, <2>3 DEF Intended!Next, Intended!Create, Intended!Move
<1>11. ASSUME NEW c, NEW first \in CheckPc, Types(c, first)
       PROVE  CheckedStatus' /\ [Intended!Next]_status
  BY Zenon, <1>0, <1>11 DEF Types, CheckPc, MainOnly
<1> QED
  BY ZenonT(40), <1>1, <1>2, <1>3, <1>4, <1>5, <1>6, <1>7, <1>8, <1>9, <1>10, <1>11, MainView,
     CommandView
  DEF CheckPc

\* A step of a vCPU task keeps CheckedStatus and is a step of VmStatus.
LEMMA CheckedTask ==
  ASSUME "CpuUp" \notin GuestExits, GuestExits \cap {"SystemDown", "Err"} = {},
         TypeOK, TypeOK', MainInv, UniInv, CheckedStatus, NEW t \in Task, vcpu_run(t)
  PROVE  CheckedStatus' /\ [Intended!Next]_status
<1>0. /\ vmOf \in [Task -> VM] /\ vmOf[t] \in VM /\ sh.vm \in VM /\ OneLive
      /\ status \in [VM -> VMStatus] /\ status' \in [VM -> VMStatus]
  BY Zenon DEF TypeOK, ShellTypeOK, ShellState, UniInv
<1> USE DEF CheckedStatus
<1>1. CASE TaskPanics(t)
  BY Zenon, <1>0, <1>1 DEF TaskPanics
<1>2. CASE Starts(t) \/ Proceeds(t) \/ Blocks(t)
  BY Zenon, <1>0, <1>2 DEF Starts, Proceeds, Blocks, Goes
<1>3. CASE Halts(t) \/ Loops(t)
  BY Zenon, <1>0, <1>3 DEF Halts, Loops, Goes
<1>4. CASE Marks(t) \/ Exits(t) \/ Subtracts(t)
  BY Zenon, <1>0, <1>4 DEF Marks, Exits, Subtracts
<1>5. CASE GuestShutsDown(t)
  BY Zenon, <1>5 DEF GuestShutsDown
<1>6. CASE DeclaresStopped(t)
  <2>1. status[vmOf[t]] = "Stopping" /\ status' = [status EXCEPT ![vmOf[t]] = "Stopped"]
    <3>1. pc[t] = "lastExit" /\ \A v \in VM : status'[v] = IF v = vmOf[t] THEN "Stopped" ELSE status[v]
      BY Zenon, <1>6 DEF DeclaresStopped, SetsStatus
    <3>2. status[vmOf[t]] = "Stopping"
      BY Zenon, <3>1
    <3> HIDE DEF CheckedStatus
    <3> QED BY Zenon, <1>0, <3>1, <3>2, SetAt
  <2>2. CheckedStatus'
    <3>1. /\ pc[t] = "lastExit" /\ pc'[t] = "subCount" /\ UNCHANGED <<vmOf, sh>>
          /\ \A u \in Task : u # t => pc'[u] = pc[u]
          /\ \A v \in VM : v # vmOf[t] => status'[v] = status[v]
      BY Zenon, <1>6 DEF DeclaresStopped, SetsStatus
    <3>2. \A u \in Task : pc[u] \in {"exiting", "lastExit"} /\ vmOf[u] = vmOf[t] => u = t
      BY Zenon, <1>0, <3>1 DEF OneLive, LivePc, CountedPc
    <3>3. \A u \in Task : pc'[u] \in {"exiting", "lastExit"} => status'[vmOf[u]] = "Stopping"
      BY Zenon, <1>0, <3>1, <3>2
    <3>4. sh.pc \in {"suspendSet", "resumeSet", "shutdown"} => status'[sh.vm] = status[sh.vm]
      BY Zenon, <1>0, <2>1, <3>1
    <3> QED
      BY Zenon, <3>1, <3>3, <3>4
  <2> QED
    BY ZenonT(40), <1>0, <2>1, <2>2 DEF Intended!Next, Intended!LastVcpuExits, Intended!Move
<1>7. CASE Wakes(t)
  BY Zenon, <1>0, <1>7 DEF Wakes, SameVm
<1> QED
  BY ZenonT(40), <1>1, <1>2, <1>3, <1>4, <1>5, <1>6, <1>7, TaskView, NoPowerOn

\* With guests that run one vCPU and do not shut down by themselves, and neither
\* delete nor forced stops, the status of every VM follows the life cycle that
\* the guards of the commands intend, although check and change are two steps.
THEOREM UniFollowsLifecycle ==
  ASSUME "CpuUp" \notin GuestExits, GuestExits \cap {"SystemDown", "Err"} = {},
         "delete" \notin Commands, TRUE \notin ForceFlags
  PROVE  Spec => FollowsLifecycle
<1>1. Init => Intended!Init
  BY Zenon, BootVMsAssumption DEF Init, Intended!Init
<1>2. TypeOK /\ TypeOK' /\ MainInv /\ UniInv /\ CheckedStatus /\ [Next]_vars
        => CheckedStatus' /\ [Intended!Next]_status
  <2> SUFFICES ASSUME TypeOK, TypeOK', MainInv, UniInv, CheckedStatus, [Next]_vars
               PROVE  CheckedStatus' /\ [Intended!Next]_status
    BY Zenon
  <2>1. CASE MainStep \/ TypeCommand
    BY Zenon, <2>1, CheckedMain
  <2>2. CASE \E t \in Task : vcpu_run(t)
    BY Zenon, <2>2, CheckedTask
  <2>3. CASE UNCHANGED vars
    BY Zenon, <2>3 DEF vars, CheckedStatus
  <2> QED
    BY Zenon, <2>1, <2>2, <2>3 DEF Next
<1> QED
  BY <1>1, <1>2, CheckedInit, UniCorrect, PTL DEF Spec, FollowsLifecycle, Intended!Spec

\* Under the same conditions a VM that is stopping can only become Stopped.
THEOREM UniStoppingBecomesStopped ==
  ASSUME "CpuUp" \notin GuestExits, GuestExits \cap {"SystemDown", "Err"} = {},
         "delete" \notin Commands, TRUE \notin ForceFlags
  PROVE  Spec => StoppingBecomesStopped
<1> DEFINE Kept == \A v \in VM : stopping(v) /\ status'[v] # status[v] => status'[v] = "Stopped"
<1>1. TypeOK /\ [Intended!Next]_status => Kept
  <2> SUFFICES ASSUME TypeOK, [Intended!Next]_status, NEW v \in VM, status[v] = "Stopping",
                      status'[v] # status[v]
               PROVE  status'[v] = "Stopped"
    BY Zenon DEF stopping
  <2>1. PICK w \in VM : \/ Intended!Create(w) \/ Intended!Start(w) \/ Intended!Suspend(w)
                        \/ Intended!Resume(w) \/ Intended!Stop(w) \/ Intended!LastVcpuExits(w)
    BY Zenon DEF Intended!Next
  <2> QED
    BY Zenon, <2>1 DEF TypeOK, Intended!Create, Intended!Start, Intended!Suspend,
       Intended!Resume,
       Intended!Stop, Intended!LastVcpuExits, Intended!Move
<1>2. Spec => [][Intended!Next]_status
  BY UniFollowsLifecycle, PTL DEF FollowsLifecycle, Intended!Spec
<1>3. [Next]_vars /\ Kept => [Kept]_vars
  BY Zenon
<1> QED
  BY <1>1, <1>2, <1>3, TypeCorrect, PTL DEF StoppingBecomesStopped, Spec

=============================================================================
