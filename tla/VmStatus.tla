------------------------------ MODULE VmStatus ------------------------------
(***************************************************************************)
(* The life cycle of the VMs as the guards can_start_vm, can_stop_vm,      *)
(* can_suspend_vm and can_resume_vm of kernel/src/shell/command/vm.rs      *)
(* intend it: every transition is checked and made in one step.            *)
(***************************************************************************)
CONSTANT VM
VARIABLE status

Init == status \in [VM -> {"Loading", "Loaded"}]

Move(v, from, to) ==
    /\ status[v] \in from
    /\ status' = [status EXCEPT ![v] = to]

Create(v) == Move(v, {"Loading"}, "Loaded")
Start(v) == Move(v, {"Loaded", "Stopped"}, "Running")
Suspend(v) == Move(v, {"Running"}, "Suspended")
Resume(v) == Move(v, {"Suspended"}, "Running")
Stop(v) == Move(v, {"Loading", "Loaded", "Running", "Suspended"}, "Stopping")
LastVcpuExits(v) == Move(v, {"Stopping"}, "Stopped")

Next ==
    \E v \in VM : \/ Create(v) \/ Start(v) \/ Suspend(v)
                  \/ Resume(v) \/ Stop(v) \/ LastVcpuExits(v)

Spec == Init /\ [][Next]_status
=============================================================================
