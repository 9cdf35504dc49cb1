--------------------------- MODULE HypervisorBoot ---------------------------
(***************************************************************************)
(* main of kernel/src/main.rs: the cores are set up, the guest is created, *)
(* and from then on vCPUs run and use the timers of their CPUs.            *)
(*                                                                         *)
(* A host is its device tree with what is known of the hardware otherwise: *)
(* needs[k] are the nodes the device of node k cannot work without, and    *)
(* cpus the hardware ids of the cores in the order of their numbers.       *)
(***************************************************************************)
EXTENDS PerCpuBoot, GuestImages

CONSTANTS Configs, Hosts

ASSUME ConfigsAssumption == \A C \in Configs : IsConfig(C)

NoGuest == << >>

VARIABLES machine,  \* the configuration and the host
          created   \* the guest init_guest_vm made, until main starts it

vars == <<coreVars, machine, created>>

Init ==
    /\ CoreInit
    /\ machine = NoGuest /\ created = NoGuest

\* vmm::init: the configuration is taken from the file system or the static ones.
\* One round of the loop; another guest would share nothing with this one.
init_guest_vms ==
    /\ pc[PRIMARY] = "vmm_init"
    /\ \E C \in Configs, H \in Hosts : machine' = [C |-> C, H |-> H]
    /\ Goto(PRIMARY, "create")
    /\ UNCHANGED <<next_cpu, logic_cpu_id, ENTERED_CPUS, INITED_CPUS, irqs, taskVars, timerVars, created>>

\* The VM of the configuration: every failure is an expect or an unwrap.
Create(G) == created' = G /\ Goto(PRIMARY, IF G.ok THEN "vmm_start" ELSE "panic")
create_guest ==
    /\ pc[PRIMARY] = "create"
    /\ Create(init_guest_vm(machine.C, machine.H.nodes))
    /\ UNCHANGED <<next_cpu, logic_cpu_id, ENTERED_CPUS, INITED_CPUS, irqs, taskVars, timerVars, machine>>

\* vmm::start: the vCPUs may run, and main waits for the end of all VMs.
start ==
    /\ pc[PRIMARY] = "vmm_start"
    /\ Goto(PRIMARY, "started")
    /\ machine' = NoGuest /\ created' = NoGuest
    /\ UNCHANGED <<next_cpu, logic_cpu_id, ENTERED_CPUS, INITED_CPUS, irqs, taskVars, timerVars>>

MainStep == init_guest_vms \/ create_guest \/ start

Next ==
    \/ BootStep /\ UNCHANGED <<machine, created>>
    \/ MainStep
    \/ TimersRun /\ UNCHANGED <<machine, created>>

\* Every CPU goes on; once main has started the guests the clock does too, and host
\* interrupts keep coming on a CPU whose vCPU runs.
Fairness ==
    /\ BootFairness /\ WF_pc(MainGoesOn)
    /\ WF_timerVars(Started /\ Tick)
    /\ \A c \in CPUS : WF_timerVars(Started /\ Check(c))

Spec == Init /\ [][Next]_vars /\ Fairness

-----------------------------------------------------------------------------
(* Start-up.                                                               *)

\* Main comes to its end, whatever CPUs the threads are spawned on: the wait for
\* the cores gives the primary CPU to the threads that need it.
BootCompletes == <>(pc[PRIMARY] \in {"started", "panic"})

-----------------------------------------------------------------------------
(* Timers.                                                                 *)

Armed(n) == n <= Len(armed) /\ armed[n].state = "armed"

\* A timer fires or is cancelled, unless its CPU stops running vCPUs again and
\* again: the exits of its vCPUs are the only ones that look at its list.
DueTimersFire == \A n \in 1 .. MaxTimers : []<>(~Armed(n) \/ armed[n].cpu \notin guest)

-----------------------------------------------------------------------------
(* The guest, against what the configuration and the hardware call for.    *)
(* Nodes are told apart by their place in the tree, paths by the names on  *)
(* each level, and no phandle is looked at.                                *)

Ancestors(T, k) == {j \in 1 .. k - 1 : \A m \in j + 1 .. k : T[m].level > T[j].level}
Descendants(T, k) == {m \in k + 1 .. Len(T) : k \in Ancestors(T, m)}
PathOf(T, k) ==
    [l \in 2 .. T[k].level |-> T[CHOOSE j \in Ancestors(T, k) \cup {k} : T[j].level = l].name]
Named(T, p) == {k \in 1 .. Len(T) : PathOf(T, k) = [l \in 2 .. Len(p) + 1 |-> p[l - 1]]}
Subtree(T, ks) == ks \cup UNION {Descendants(T, k) : k \in ks}
Upward(T, ks) == ks \cup UNION {Ancestors(T, k) : k \in ks}

IsMemory(n) == StartsWith(n.name, <<"memory">>)
CpusOf(T) == {k \in 1 .. Len(T) : T[k].level >= 2 /\ PathOf(T, k)[2] = <<"cpus">>}
OtherCpu(T, ids) ==
    {k \in CpusOf(T) : T[k].level = 3 /\ StartsWith(T[k].name, <<"cpu", "@">>) /\ T[k].reg[1].address \notin ids}

Asked(C, H) == Subtree(H.nodes, UNION {Named(H.nodes, C.devices[i].path) : i \in 1 .. Len(C.devices)})
Excluded(C, H) == Subtree(H.nodes, UNION {Named(H.nodes, p) : p \in C.excluded})

\* What is asked for with all it needs, and all that needs.
Needed(C, H) ==
    LET With(ks) == ks \cup UNION {H.needs[k] : k \in ks}
        more[n \in 0 .. Len(H.nodes)] == IF n = 0 THEN Asked(C, H) ELSE With(more[n - 1])
    IN  more[Len(H.nodes)]

Listed(C, H) == (Needed(C, H) \ Excluded(C, H)) \ {1}

\* The nodes of the host that belong in the guest's tree.
Wanted(C, H) ==
    {1} \cup ((CpusOf(H.nodes) \ OtherCpu(H.nodes, ToSet(C.ids))) \cup
              Upward(H.nodes, Subtree(H.nodes, Listed(C, H) \ CpusOf(H.nodes))))

Paths(T, ks) == {PathOf(T, k) : k \in ks}
MemoryPath == [l \in {2} |-> <<"memory">>]

Expected(C, H) ==
    {MemoryPath} \cup
    IF C.provided = << >> THEN Paths(H.nodes, {k \in Wanted(C, H) : ~IsMemory(H.nodes[k])})
    ELSE Paths(C.provided, {k \in 1 .. Len(C.provided) \ CpusOf(C.provided) : ~IsMemory(C.provided[k])})
         \cup Paths(H.nodes, CpusOf(H.nodes) \ OtherCpu(H.nodes, ToSet(C.ids)))

\* Memory nodes have no children, the configured devices are there, and none below
\* one that stays is excluded.
Plain(C, H) ==
    /\ \A T \in {H.nodes, C.provided} : \A k \in 1 .. Len(T) : IsMemory(T[k]) => Descendants(T, k) = {}
    /\ \A i \in 1 .. Len(C.devices) : Named(H.nodes, C.devices[i].path) # {}
    /\ Excluded(C, H) \cap Subtree(H.nodes, Listed(C, H)) = {}

\* The guest's tree has the configured devices with all that they need, the way to
\* them and what is below them, the configured CPUs and the guest's memory, each
\* once, and nothing else; each vCPU is bound to its configured core; and no memory
\* of a host device outside the tree is mapped into the guest.
GuestHardware ==
    (created # NoGuest /\ created.ok /\ Plain(machine.C, machine.H)) =>
      LET C == machine.C
          H == machine.H
          T == created.dtb
          there == Paths(T, 1 .. Len(T))
      IN  /\ there = Expected(C, H) /\ Cardinality(there) = Len(T)
          /\ \A k \in 1 .. Len(T) : IsMemory(T[k]) => T[k].reg = <<Reg(C.main.gpa, C.main.size)>>
          /\ ToSet(C.ids) \subseteq ToSet(H.cpus) =>
               /\ Len(created.cpu_sets) = Len(C.ids)
               /\ \A v \in 1 .. Len(C.ids) : H.cpus[created.cpu_sets[v] + 1] = C.ids[v]
          /\ (C.provided = << >> /\ \A i \in 1 .. Len(C.devices) : C.devices[i].length = 0) =>
               \A k \in 1 .. Len(H.nodes) : (PathOf(H.nodes, k) \notin there /\ ~IsMemory(H.nodes[k])) =>
                 \A r \in 1 .. Len(H.nodes[k].reg) :
                   \A g \in created.regions :
                     g.base_hpa # H.nodes[k].reg[r].address \/ g.length # H.nodes[k].reg[r].size

\* Where the images of a configuration are meant to be.  The BIOS of an
\* identity-mapped guest has the first ALIGN units and the kernel follows it.
KernelPlace(C) ==
    IF ~C.main.identical THEN C.kernel.addr ELSE C.main.gpa + IF C.bios.size > 0 THEN ALIGN ELSE 0
TreePlace(C, size) ==
    IF C.dtb_load # NoAddr /\ ~C.main.identical THEN Units(C.dtb_load, size)
    ELSE LET top == C.main.gpa + IF C.main.size < DTB_LIMIT THEN C.main.size ELSE DTB_LIMIT
         IN  top - size - ALIGN + 1 .. top - 1
Places(C, size) ==
    [kernel |-> Units(KernelPlace(C), C.kernel.size), bios |-> Units(C.bios.addr, C.bios.size),
     ramdisk |-> Units(C.ramdisk.addr, C.ramdisk.size), dtb |-> TreePlace(C, size)]

\* All images are there, with addresses in the memory and room for each.
Fits(C, size) ==
    /\ C.absent = {}
    /\ (C.bios.size > 0) = (C.bios.addr # NoAddr) /\ (C.ramdisk.size > 0) = (C.ramdisk.addr # NoAddr)
    /\ LET P == Places(C, size)
       IN  /\ \A x, y \in DOMAIN P : x # y => P[x] \cap P[y] = {}
           /\ \A x \in DOMAIN P : P[x] \subseteq Units(C.main.gpa, C.main.size)

\* The exclusions leave at least as many devices as were configured: with overflow
\* checks the code panics on the count of the added ones otherwise.
EnoughLeft(C, H) == C.provided # << >> \/ Cardinality(Listed(C, H)) >= Len(C.devices)

Whole(what, addr, size) ==
    \A u \in Units(addr, size) : u \in DOMAIN created.memory /\ created.memory[u] = <<what, u - addr>>

\* A guest whose images fit is created without a panic, with every image whole in
\* its memory: no later image, the device tree included, overwrites an earlier one,
\* its entry is the kernel's and the tree is at the address the guest is given.
BootImagesWhole ==
    (/\ created # NoGuest /\ Plain(machine.C, machine.H) /\ EnoughLeft(machine.C, machine.H)
     /\ IsInjective(machine.H.cpus)
     /\ Fits(machine.C, Cardinality(Expected(machine.C, machine.H)))) =>
      LET C == machine.C
      IN  /\ created.ok
          /\ Whole("kernel", KernelPlace(C), C.kernel.size)
          /\ Whole("bios", C.bios.addr, C.bios.size) /\ Whole("ramdisk", C.ramdisk.addr, C.ramdisk.size)
          /\ Whole("dtb", created.dtb_gpa, Len(created.dtb))
          /\ created.entry = IF C.main.identical THEN KernelPlace(C) ELSE C.entry
=============================================================================
