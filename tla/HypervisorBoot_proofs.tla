------------------------ MODULE HypervisorBoot_proofs ------------------------
(***************************************************************************)
(* From reset to a running guest: what the cores guarantee, whatever guest *)
(* main makes, and the images of that guest, for every configuration.      *)
(* Each image is followed to its place in the memory of the guest, and     *)
(* stays there because the places of the others are disjoint from it.      *)
(***************************************************************************)
EXTENDS HypervisorBoot, PerCpuBoot_proofs

-----------------------------------------------------------------------------
(* The whole start-up.                                                     *)

\* What main does about the guests is, for the cores and their timers, the
\* step of its program counter.
LEMMA MainIsCore ==
    ASSUME MainStep
    PROVE  /\ MainGoesOn
           /\ UNCHANGED <<next_cpu, logic_cpu_id, ENTERED_CPUS, INITED_CPUS, irqs, taskVars, timerVars>>
  <1>1. CASE init_guest_vms
    BY <1>1 DEF init_guest_vms, MainGoesOn
  <1>2. CASE create_guest
    <2>1. PICK to \in {"vmm_start", "panic"} : Goto(PRIMARY, to)
      BY <1>2 DEF create_guest, Create
    <2> QED
      BY SMTT(30), <1>2, <2>1 DEF create_guest, MainGoesOn
  <1>3. CASE start
    BY <1>3 DEF start, MainGoesOn
  <1> QED
    BY SMTT(30), <1>1, <1>2, <1>3 DEF MainStep

\* The start-up with its guests is, seen from the cores, CoreSpec: init_guest_vms,
\* create_guest and start of main are steps of MainGoesOn, and no other step
\* looks at the guest that is being made.
THEOREM BootRefinesCores == Spec => CoreSpec
  <1>1. Init => CoreInit
    BY DEF Init
  <1>2. [Next]_vars => [CoreNext]_coreVars
    <2> SUFFICES ASSUME [Next]_vars
                 PROVE  [CoreNext]_coreVars
      OBVIOUS
    <2>1. CASE MainStep
      BY SMTT(30), <2>1, MainIsCore DEF CoreNext
    <2>2. CASE UNCHANGED vars
      BY <2>2 DEF vars
    <2> QED
      BY SMTT(30), <2>1, <2>2 DEF Next, CoreNext
  <1> QED
    BY <1>1, <1>2, PTL DEF Spec, CoreSpec

\* From power-on until guests run, whatever guest main makes, no CPU takes
\* interrupts, is given a task or runs a vCPU before its own data are there.
THEOREM BootNoEarlyUse == Spec => []NoEarlyUse
  BY BootRefinesCores, BootSafe, PTL

\* The timers of a hypervisor that has booted by itself: each fires once and
\* not early, or is cancelled on its CPU, or waits in its list; one that was
\* cancelled on another CPU fires once at most and not early.
THEOREM BootTimersExact == Spec => []TimersExact
  BY BootRefinesCores, TimersCorrect, PTL

-----------------------------------------------------------------------------
(* The images of a guest.                                                  *)

\* G is the guest X with the tree dtb at gpa, and nothing has failed.
IsGuest(G, X, dtb, gpa) ==
    G \in [ok : {TRUE}, dtb : {dtb}, cpu_sets : {X.cpu_sets}, regions : {X.regions}, spis : {X.spis},
           memory : {G.memory}, kernel_gpa : {X.kernel_gpa}, entry : {X.entry}, dtb_gpa : {gpa}]

InMemory(M, what, addr, size) ==
    \A u \in Units(addr, size) : u \in DOMAIN M /\ M[u] = <<what, u - addr>>

\* M has everything of L that is not at addr .. addr + size - 1.
Keeps(L, M, addr, size) ==
    \A w, a, s : InMemory(L, w, a, s) /\ Units(a, s) \cap Units(addr, size) = {} => InMemory(M, w, a, s)

\* A copied image is whole, and the rest of the memory is as it was.
LEMMA CopiedWhole ==
    ASSUME NEW M, NEW what, NEW addr, NEW size
    PROVE  /\ InMemory(Copied(M, what, addr, size), what, addr, size)
           /\ Keeps(M, Copied(M, what, addr, size), addr, size)
  <1>1. InMemory(Copied(M, what, addr, size), what, addr, size)
    BY DEF InMemory, Copied
  <1>2. ASSUME NEW w, NEW a, NEW s, InMemory(M, w, a, s), Units(a, s) \cap Units(addr, size) = {}
        PROVE  InMemory(Copied(M, what, addr, size), w, a, s)
    BY <1>2 DEF InMemory, Copied
  <1> QED
    BY SMTT(30), <1>1, <1>2 DEF Keeps

\* An image that is in the guest's memory is copied to its place.
LEMMA ImageLoaded ==
    ASSUME NEW G, NEW C, NEW X, NEW dtb, NEW gpa, NEW what, NEW addr, NEW size,
           IsGuest(G, X, dtb, gpa), get_image_load_region(C, addr, size),
           NEW L, L = load_vm_image_from_memory(G, C, what, addr, size)
    PROVE  /\ IsGuest(L, X, dtb, gpa)
           /\ InMemory(L.memory, what, addr, size)
           /\ Keeps(G.memory, L.memory, addr, size)
  <1>1. G.ok
    BY Zenon DEF IsGuest
  <1> DEFINE M == Copied(G.memory, what, addr, size)
  <1>2. L = [G EXCEPT !.memory = M]
    BY <1>1 DEF load_vm_image_from_memory
  <1> HIDE DEF M
  <1>3. L.memory = M
    BY <1>2 DEF IsGuest
  <1>4. IsGuest(L, X, dtb, gpa)
    BY ZenonT(40), <1>2, <1>3 DEF IsGuest
  <1> QED
    BY SMTT(30), <1>3, <1>4, CopiedWhole DEF M

\* The same for an image that the configuration may leave out.
LEMMA OptionalLoaded ==
    ASSUME NEW G, NEW C, NEW X, NEW dtb, NEW gpa, NEW what, NEW image,
           IsGuest(G, X, dtb, gpa), C.absent = {}, image.size \in Nat, image.addr \in Int,
           image.size # 0 => get_image_load_region(C, image.addr, image.size),
           NEW L \in {OptionalFromMemory(G, C, what, image), OptionalFile(G, C, what, image)}
    PROVE  /\ IsGuest(L, X, dtb, gpa)
           /\ InMemory(L.memory, what, image.addr, image.size)
           /\ Keeps(G.memory, L.memory, image.addr, image.size)
  <1>1. CASE image.size = 0
    <2>1. L = G
      BY SMTT(30), <1>1 DEF OptionalFromMemory, OptionalFile
    <2>2. Units(image.addr, image.size) = {}
      BY SMTT(30), <1>1 DEF Units
    <2> QED
      BY SMTT(30), <2>1, <2>2 DEF InMemory, Keeps
  <1>2. CASE image.size # 0
    <2>1. L = load_vm_image_from_memory(G, C, what, image.addr, image.size)
      BY <1>2 DEF OptionalFromMemory, OptionalFile, load_vm_image
    <2> QED
      BY SMTT(30), <1>2, <2>1, ImageLoaded
  <1> QED
    BY SMTT(30), <1>1, <1>2

\* Rounding down to a multiple of ALIGN takes off less than ALIGN.
LEMMA AlignDown ==
    ASSUME NEW x \in Int
    PROVE  align_down(x) \in Int /\ align_down(x) <= x /\ x < align_down(x) + ALIGN
  <1> DEFINE q == x \div ALIGN
  <1>1. q \in Int /\ x = ALIGN * q + (x % ALIGN) /\ (x % ALIGN) \in 0 .. ALIGN - 1
    BY SizesAssumption
  <1>2. q * ALIGN = ALIGN * q /\ ALIGN * q \in Int
    BY SMTT(30), <1>1, SizesAssumption
  <1> HIDE DEF q
  <1>3. align_down(x) = q * ALIGN
    BY DEF align_down, q
  <1> QED
    BY SMTT(30), <1>1, <1>2, <1>3, SizesAssumption

\* The tree comes to lie inside the room that is meant for it, so in the memory
\* if that is.
LEMMA TreePlaced ==
    ASSUME NEW C, IsConfig(C), NEW size \in Nat \ {0},
           TreePlace(C, size) \subseteq Units(C.main.gpa, C.main.size)
    PROVE  /\ Units(calculate_dtb_load_addr(C, size), size) \subseteq TreePlace(C, size)
           /\ get_image_load_region(C, calculate_dtb_load_addr(C, size), size)
  <1> DEFINE addr == calculate_dtb_load_addr(C, size)
  <1>1. CASE C.dtb_load # NoAddr /\ ~C.main.identical
    <2>1. addr = C.dtb_load /\ TreePlace(C, size) = Units(addr, size)
      BY SMTT(30), <1>1 DEF calculate_dtb_load_addr, TreePlace
    <2> HIDE DEF addr
    <2>2. get_image_load_region(C, addr, size)
      BY SMTT(30), <1>1, <2>1 DEF get_image_load_region
    <2> QED
      BY SMTT(30), <2>1, <2>2 DEF addr
  <1>2. CASE ~(C.dtb_load # NoAddr /\ ~C.main.identical)
    <2> DEFINE top == C.main.gpa + (IF C.main.size < DTB_LIMIT THEN C.main.size ELSE DTB_LIMIT)
    <2>1. top \in Nat
      BY SMTT(30), SizesAssumption DEF IsConfig
    <2>2. TreePlace(C, size) = top - size - ALIGN + 1 .. top - 1
      BY SMTT(30), <1>2 DEF TreePlace
    <2>3. addr = align_down(top - size)
      <3> DEFINE memory == IF C.main.size < DTB_LIMIT THEN C.main.size ELSE DTB_LIMIT
      <3>1. memory \in Nat /\ C.main.gpa \in Nat
        BY SMTT(30), SizesAssumption DEF IsConfig
      <3>2. addr = align_down(C.main.gpa + memory - size)
        BY SMTT(30), <1>2 DEF calculate_dtb_load_addr
      <3> HIDE DEF memory
      <3>3. C.main.gpa + memory - size = (C.main.gpa + memory) - size
        BY SMTT(30), <3>1
      <3> QED
        BY SMTT(30), <3>2, <3>3 DEF memory
    <2> HIDE DEF top
    <2>4. addr \in Int /\ addr <= top - size /\ top - size < addr + ALIGN
      BY SMTT(30), <2>1, <2>3, AlignDown
    <2> HIDE DEF addr
    <2>5. Units(addr, size) \subseteq TreePlace(C, size)
      BY SMTT(30), <2>1, <2>2, <2>4, SizesAssumption DEF Units
    <2>6. addr \in TreePlace(C, size)
      BY SMTT(30), <2>1, <2>2, <2>4, SizesAssumption
    <2>7. addr # NoAddr
      BY <2>6 DEF Units, IsConfig, NoAddr
    <2>8. get_image_load_region(C, addr, size)
      BY <2>5, <2>7, ZenonT(40) DEF get_image_load_region
    <2> QED
      BY SMTT(30), <2>5, <2>8 DEF addr
  <1> QED
    BY SMTT(30), <1>1, <1>2

\* update_fdt puts the tree of memory and devices to its place.
LEMMA TreeLoaded ==
    ASSUME NEW G, NEW C, NEW X, NEW dtb, IsGuest(G, X, dtb, NoAddr), IsConfig(C),
           NEW tree, tree = updated_fdt(dtb, <<C.main>>), tree.ok, Len(tree.nodes) \in Nat \ {0},
           TreePlace(C, Len(tree.nodes)) \subseteq Units(C.main.gpa, C.main.size),
           NEW gpa, gpa = calculate_dtb_load_addr(C, Len(tree.nodes)),
           NEW L, L = update_fdt(G, C)
    PROVE  /\ IsGuest(L, X, tree.nodes, gpa)
           /\ InMemory(L.memory, "dtb", gpa, Len(tree.nodes))
           /\ Keeps(G.memory, L.memory, gpa, Len(tree.nodes))
  <1>1. G.ok /\ G.dtb = dtb
    BY Zenon DEF IsGuest
  <1> DEFINE H == [G EXCEPT !.dtb = tree.nodes, !.dtb_gpa = gpa]
  <1>2. L = load_vm_image_from_memory(H, C, "dtb", gpa, Len(tree.nodes))
    BY SMTT(30), <1>1 DEF update_fdt, PlaceTree, LoadTree
  <1>3. H.memory = G.memory
    BY DEF IsGuest
  <1>4. IsGuest(H, X, tree.nodes, gpa)
    BY ZenonT(40), <1>3 DEF IsGuest
  <1>5. get_image_load_region(C, gpa, Len(tree.nodes))
    BY SMTT(30), TreePlaced
  <1> HIDE DEF H
  <1>6. /\ IsGuest(L, X, tree.nodes, gpa)
        /\ InMemory(L.memory, "dtb", gpa, Len(tree.nodes))
        /\ Keeps(H.memory, L.memory, gpa, Len(tree.nodes))
    BY SMTT(30), <1>2, <1>4, <1>5, ImageLoaded
  <1> QED
    BY SMTT(30), <1>3, <1>6

\* The places of the images, taken apart.
LEMMA Apart ==
    ASSUME NEW C, NEW size, Fits(C, size)
    PROVE  LET K == Units(KernelPlace(C), C.kernel.size)
               B == Units(C.bios.addr, C.bios.size)
               R == Units(C.ramdisk.addr, C.ramdisk.size)
               T == TreePlace(C, size)
               main == Units(C.main.gpa, C.main.size)
           IN  /\ K \cap B = {} /\ K \cap R = {} /\ K \cap T = {} /\ B \cap R = {} /\ B \cap T = {} /\ R \cap T = {}
               /\ K \subseteq main /\ B \subseteq main /\ R \subseteq main /\ T \subseteq main
  <1> DEFINE P == Places(C, size)
             main == Units(C.main.gpa, C.main.size)
  <1>1. /\ DOMAIN P = {"kernel", "bios", "ramdisk", "dtb"}
        /\ P["kernel"] = Units(KernelPlace(C), C.kernel.size)
        /\ P["bios"] = Units(C.bios.addr, C.bios.size)
        /\ P["ramdisk"] = Units(C.ramdisk.addr, C.ramdisk.size)
        /\ P["dtb"] = TreePlace(C, size)
    BY DEF Places
  <1>2. /\ \A x, y \in DOMAIN P : x # y => P[x] \cap P[y] = {}
        /\ \A x \in DOMAIN P : P[x] \subseteq main
    BY SMTT(30) DEF Fits
  <1> HIDE DEF P, main
  <1> QED
    BY SMTT(30), <1>1, <1>2 DEF main

\* The guest as handle_fdt_operations leaves it, and its tree after update_fdt.
Begun(C, host) == handle_fdt_operations(C, host, config_guest_address(C))
FinalTree(C, host) == updated_fdt(Begun(C, host).dtb, <<C.main>>)

\* The images of a configuration, for a tree that was made.
LEMMA ImagesLoaded ==
    ASSUME NEW C, NEW host, IsConfig(C), Begun(C, host).ok, FinalTree(C, host).ok,
           NEW n \in Nat \ {0}, n = Len(FinalTree(C, host).nodes), Fits(C, n),
           NEW G, G = init_guest_vm(C, host)
    PROVE  /\ G.ok /\ G.dtb = FinalTree(C, host).nodes
           /\ G.dtb_gpa = calculate_dtb_load_addr(C, n)
           /\ G.entry = IF C.main.identical THEN KernelPlace(C) ELSE C.entry
           /\ InMemory(G.memory, "kernel", KernelPlace(C), C.kernel.size)
           /\ InMemory(G.memory, "bios", C.bios.addr, C.bios.size)
           /\ InMemory(G.memory, "ramdisk", C.ramdisk.addr, C.ramdisk.size)
           /\ InMemory(G.memory, "dtb", G.dtb_gpa, n)
  <1> DEFINE X == Begun(C, host)
             tree == FinalTree(C, host)
             gpa == calculate_dtb_load_addr(C, n)
             K == Units(KernelPlace(C), C.kernel.size)
             B == Units(C.bios.addr, C.bios.size)
             R == Units(C.ramdisk.addr, C.ramdisk.size)
             T == TreePlace(C, n)
             D == Units(gpa, n)
             main == Units(C.main.gpa, C.main.size)
  <1>1. /\ K \cap B = {} /\ K \cap R = {} /\ K \cap T = {} /\ B \cap R = {} /\ B \cap T = {} /\ R \cap T = {}
        /\ K \subseteq main /\ B \subseteq main /\ R \subseteq main /\ T \subseteq main
    BY ZenonT(40), Apart
  <1>2. /\ C.absent = {}
        /\ (C.bios.size > 0) = (C.bios.addr # NoAddr) /\ (C.ramdisk.size > 0) = (C.ramdisk.addr # NoAddr)
    BY DEF Fits
  <1>3. /\ X.kernel_gpa = KernelPlace(C)
        /\ X.entry = IF C.main.identical THEN KernelPlace(C) ELSE C.entry
    <2>1. (C.bios.addr # NoAddr) = (C.bios.size > 0)
      BY SMTT(30), <1>2
    <2> DEFINE addrs == config_guest_address(C)
    <2>2. X.kernel_gpa = addrs.kernel /\ X.entry = addrs.entry
      BY SMTT(30) DEF Begun, handle_fdt_operations, NewGuest
    <2>3. /\ addrs.kernel = KernelPlace(C)
          /\ addrs.entry = IF C.main.identical THEN KernelPlace(C) ELSE C.entry
      BY SMTT(30), <2>1 DEF config_guest_address, KernelPlace
    <2> QED
      BY SMTT(30), <2>2, <2>3
  <1>4. IsGuest(X, X, X.dtb, NoAddr)
    BY Zenon DEF IsGuest, Begun, handle_fdt_operations, NewGuest
  <1>5. /\ get_image_load_region(C, X.kernel_gpa, C.kernel.size)
        /\ C.bios.size # 0 => get_image_load_region(C, C.bios.addr, C.bios.size)
        /\ C.ramdisk.size # 0 => get_image_load_region(C, C.ramdisk.addr, C.ramdisk.size)
    <2>1. KernelPlace(C) \in Nat
      BY SMTT(30), SizesAssumption DEF KernelPlace, IsConfig
    <2>2. KernelPlace(C) # NoAddr
      BY SMTT(30), <2>1 DEF NoAddr
    <2>3. /\ C.bios.size # 0 => C.bios.addr # NoAddr
          /\ C.ramdisk.size # 0 => C.ramdisk.addr # NoAddr
      BY SMTT(30), <1>2 DEF IsConfig
    <2> QED
      BY <1>1, <1>3, <2>2, <2>3, ZenonT(40) DEF get_image_load_region
  <1>6. D \subseteq T
    BY SMTT(30), <1>1, TreePlaced
  <1>7. D \cap K = {} /\ D \cap B = {} /\ D \cap R = {}
    BY SMTT(30), <1>1, <1>6
  <1>8. /\ C.bios.size \in Nat /\ C.bios.addr \in Int
        /\ C.ramdisk.size \in Nat /\ C.ramdisk.addr \in Int
    BY DEF IsConfig, NoAddr
  <1>9. tree = updated_fdt(X.dtb, <<C.main>>) /\ tree.ok /\ Len(tree.nodes) = n
    BY DEF FinalTree
  <1> HIDE DEF X, tree
  <1>10. CASE C.location = "memory"
    <2> DEFINE G1 == load_vm_image_from_memory(X, C, "kernel", X.kernel_gpa, C.kernel.size)
               G2 == update_fdt(G1, C)
               G3 == OptionalFromMemory(G2, C, "bios", C.bios)
    <2>0. G = OptionalFromMemory(G3, C, "ramdisk", C.ramdisk)
      BY SMTT(30), <1>10 DEF init_guest_vm, load, load_vm_images_from_memory, X, Begun
    <2> HIDE DEF G1, G2, G3
    <2>1. IsGuest(G1, X, X.dtb, NoAddr) /\ InMemory(G1.memory, "kernel", X.kernel_gpa, C.kernel.size)
      BY SMTT(30), <1>4, <1>5, ImageLoaded DEF G1
    <2>2. IsGuest(G2, X, tree.nodes, gpa) /\ InMemory(G2.memory, "dtb", gpa, n) /\ Keeps(G1.memory, G2.memory, gpa, n)
      BY SMTT(30), <1>1, <1>9, <2>1, TreeLoaded DEF G2
    <2>3. /\ IsGuest(G3, X, tree.nodes, gpa) /\ InMemory(G3.memory, "bios", C.bios.addr, C.bios.size)
          /\ Keeps(G2.memory, G3.memory, C.bios.addr, C.bios.size)
      BY ZenonT(40), <1>2, <1>5, <1>8, <2>2, OptionalLoaded DEF G3
    <2>4. /\ IsGuest(G, X, tree.nodes, gpa) /\ InMemory(G.memory, "ramdisk", C.ramdisk.addr, C.ramdisk.size)
          /\ Keeps(G3.memory, G.memory, C.ramdisk.addr, C.ramdisk.size)
      BY ZenonT(40), <1>2, <1>5, <1>8, <2>0, <2>3, OptionalLoaded
    <2>5. InMemory(G.memory, "kernel", KernelPlace(C), C.kernel.size)
      BY ZenonT(40), <1>1, <1>3, <1>7, <2>1, <2>2, <2>3, <2>4 DEF Keeps
    <2>6. InMemory(G.memory, "dtb", gpa, n)
      BY ZenonT(40), <1>7, <2>2, <2>3, <2>4 DEF Keeps
    <2>7. InMemory(G.memory, "bios", C.bios.addr, C.bios.size)
      BY ZenonT(40), <1>1, <2>3, <2>4 DEF Keeps
    <2> QED
      BY ZenonT(40), <1>3, <2>4, <2>5, <2>6, <2>7 DEF IsGuest, tree
  <1>11. CASE C.location # "memory"
    <2> DEFINE G1 == load_vm_image(X, C, "kernel", X.kernel_gpa, C.kernel.size)
               G2 == OptionalFile(G1, C, "bios", C.bios)
               G3 == OptionalFile(G2, C, "ramdisk", C.ramdisk)
    <2>0. G = update_fdt(G3, C)
      BY SMTT(30), <1>11 DEF init_guest_vm, load, load_vm_images_from_filesystem, X, Begun
    <2>a. G1 = load_vm_image_from_memory(X, C, "kernel", X.kernel_gpa, C.kernel.size)
      BY SMTT(30), <1>2 DEF load_vm_image
    <2> HIDE DEF G1, G2, G3
    <2>1. IsGuest(G1, X, X.dtb, NoAddr) /\ InMemory(G1.memory, "kernel", X.kernel_gpa, C.kernel.size)
      BY SMTT(30), <1>4, <1>5, <2>a, ImageLoaded
    <2>2. /\ IsGuest(G2, X, X.dtb, NoAddr) /\ InMemory(G2.memory, "bios", C.bios.addr, C.bios.size)
          /\ Keeps(G1.memory, G2.memory, C.bios.addr, C.bios.size)
      BY <1>2, <1>5, <1>8, <2>1, OptionalLoaded, ZenonT(40) DEF G2
    <2>3. /\ IsGuest(G3, X, X.dtb, NoAddr) /\ InMemory(G3.memory, "ramdisk", C.ramdisk.addr, C.ramdisk.size)
          /\ Keeps(G2.memory, G3.memory, C.ramdisk.addr, C.ramdisk.size)
      BY <1>2, <1>5, <1>8, <2>2, OptionalLoaded, ZenonT(40) DEF G3
    <2>4. IsGuest(G, X, tree.nodes, gpa) /\ InMemory(G.memory, "dtb", gpa, n) /\ Keeps(G3.memory, G.memory, gpa, n)
      BY ZenonT(40), <1>1, <1>9, <2>0, <2>3, TreeLoaded
    <2>5. InMemory(G.memory, "kernel", KernelPlace(C), C.kernel.size)
      BY ZenonT(40), <1>1, <1>3, <1>7, <2>1, <2>2, <2>3, <2>4 DEF Keeps
    <2>6. InMemory(G.memory, "bios", C.bios.addr, C.bios.size)
      BY ZenonT(40), <1>1, <1>7, <2>2, <2>3, <2>4 DEF Keeps
    <2>7. InMemory(G.memory, "ramdisk", C.ramdisk.addr, C.ramdisk.size)
      BY SMTT(30), <1>7, <2>3, <2>4 DEF Keeps
    <2> QED
      BY ZenonT(40), <1>3, <2>4, <2>5, <2>6, <2>7 DEF IsGuest, tree
  <1> QED
    BY SMTT(30), <1>10, <1>11

\* The tree of the guest that is being created was made without an error, and is
\* as large as the one that the configuration and the host call for.
TreeMade ==
    LET C == machine.C
        host == machine.H.nodes
    IN  /\ Begun(C, host).ok /\ FinalTree(C, host).ok
        /\ Len(FinalTree(C, host).nodes) \in Nat \ {0}
        /\ Len(FinalTree(C, host).nodes) = Cardinality(Expected(C, machine.H))

\* main holds a guest only between its creation and its start, and it is the one
\* that init_guest_vm makes of the machine.
IsMachine == \E C \in Configs, H \in Hosts : machine = [C |-> C, H |-> H]
GuestInv ==
    /\ pc[PRIMARY] = "create" => IsMachine
    /\ created # NoGuest =>
         /\ pc[PRIMARY] \in {"vmm_start", "panic"}
         /\ IsMachine /\ created = init_guest_vm(machine.C, machine.H.nodes)

\* The start-up of the cores does not move main once it creates guests.
LEMMA MainStays ==
    ASSUME Barrier, BootStep
    PROVE  /\ pc[PRIMARY] \in {"create", "vmm_start", "panic"} => pc'[PRIMARY] = pc[PRIMARY]
           /\ pc'[PRIMARY] = "create" => pc[PRIMARY] = "create"
  <1>0. PRIMARY \in DOMAIN pc /\ PRIMARY \in CPUS
    BY SMTT(30), CpusFinite DEF Barrier
  <1>1. ASSUME UNCHANGED pc
        PROVE  pc'[PRIMARY] = pc[PRIMARY]
    BY SMTT(30), <1>1
  <1>2. CASE rust_main \/ WaitEntered \/ init_interrupt
    BY SMTT(30), <1>0, <1>2 DEF rust_main, WaitEntered, init_interrupt, Goto
  <1>3. CASE start_secondary_cpus
    BY SMTT(30), <1>0, <1>1, <1>3 DEF start_secondary_cpus
  <1>4. CASE WaitCores
    BY SMTT(30), <1>0, <1>1, <1>4 DEF WaitCores, Goto
  <1>5. ASSUME NEW c \in CPUS, EnterSecondary(c) \/ rust_main_secondary(c) \/ InitOk(c)
        PROVE  /\ pc[PRIMARY] \in {"create", "vmm_start", "panic"} => pc'[PRIMARY] = pc[PRIMARY]
               /\ pc'[PRIMARY] = "create" => pc[PRIMARY] = "create"
    BY SMTT(30), <1>0, <1>5 DEF EnterSecondary, rust_main_secondary, InitOk, Goto
  <1>6. ASSUME NEW c \in CPUS, SpawnThread \/ Dispatch(c) \/ ThreadStep(c)
        PROVE  UNCHANGED pc
    BY SMTT(30), <1>6 DEF SpawnThread, Dispatch, ThreadStep, set_affinity, hardware_enable, CountCore,
                init_timer_percpu, runtimeVars
  <1> QED
    BY SMTT(30), <1>0, <1>1, <1>2, <1>3, <1>4, <1>5, <1>6 DEF BootStep, BootNext, CpuStep, Threads

\* Only create_guest changes the guest.
LEMMA GuestInvStep ==
    ASSUME GuestInv, Barrier, [Next]_vars
    PROVE  GuestInv'
  <1>0. PRIMARY \in DOMAIN pc
    BY SMTT(30), CpusFinite DEF Barrier
  <1>1. ASSUME UNCHANGED <<machine, created>>, UNCHANGED pc
        PROVE  GuestInv'
    BY SMTT(30), <1>1 DEF GuestInv, IsMachine
  <1>2. CASE BootStep /\ UNCHANGED <<machine, created>>
    BY SMTT(30), <1>2, MainStays DEF GuestInv, IsMachine
  <1>3. CASE TimersRun /\ UNCHANGED <<machine, created>>
    BY SMTT(30), <1>1, <1>3 DEF TimersRun, runtimeVars
  <1>4. CASE init_guest_vms
    BY SMTT(30), <1>0, <1>4 DEF init_guest_vms, GuestInv, IsMachine, Goto
  <1>5. CASE create_guest
    <2>1. /\ IsMachine /\ machine' = machine
          /\ created' = init_guest_vm(machine.C, machine.H.nodes)
          /\ pc'[PRIMARY] \in {"vmm_start", "panic"}
      BY SMTT(30), <1>0, <1>5 DEF create_guest, Create, GuestInv, Goto
    <2> QED
      BY SMTT(30), <2>1 DEF GuestInv, IsMachine
  <1>6. CASE start
    BY SMTT(30), <1>0, <1>6 DEF start, GuestInv, Goto
  <1>7. CASE UNCHANGED vars
    BY SMTT(30), <1>1, <1>7 DEF vars, coreVars, bootVars, runtimeVars
  <1> QED
    BY SMTT(30), <1>2, <1>3, <1>4, <1>5, <1>6, <1>7 DEF Next, MainStep

\* For every configuration and every host, ALIGN and DTB_LIMIT: a guest whose tree
\* was made and whose images fit is created without a panic, and every image is
\* whole where it is meant to be.  The two orders of loading, the rounding down
\* of the tree's address and the images that are left out make no difference.
THEOREM ImagesWhole == Spec => [](TreeMade => BootImagesWhole)
  <1>1. Init => GuestInv
    BY SMTT(30), CpusFinite DEF Init, CoreInit, BootInit, GuestInv
  <1>2. GuestInv /\ Barrier /\ [Next]_vars => GuestInv'
    BY GuestInvStep
  <1>3. Spec => []Barrier
    BY BootRefinesCores, BootInvariant, PTL DEF BootInv
  <1>4. GuestInv => (TreeMade => BootImagesWhole)
    <2> DEFINE C == machine.C
               H == machine.H
               n == Cardinality(Expected(C, H))
               K == KernelPlace(C)
    <2> SUFFICES ASSUME GuestInv, TreeMade, created # NoGuest, Fits(C, n)
                 PROVE  /\ created.ok
                        /\ Whole("kernel", K, C.kernel.size)
                        /\ Whole("bios", C.bios.addr, C.bios.size)
                        /\ Whole("ramdisk", C.ramdisk.addr, C.ramdisk.size)
                        /\ Whole("dtb", created.dtb_gpa, Len(created.dtb))
                        /\ created.entry = IF C.main.identical THEN K ELSE C.entry
      BY DEF BootImagesWhole
    <2>1. IsConfig(C) /\ created = init_guest_vm(C, H.nodes)
      BY SMTT(30), ConfigsAssumption DEF GuestInv, IsMachine
    <2>2. /\ Begun(C, H.nodes).ok /\ FinalTree(C, H.nodes).ok
          /\ n \in Nat \ {0} /\ n = Len(FinalTree(C, H.nodes).nodes)
      BY SMTT(30) DEF TreeMade
    <2> HIDE DEF C, H, n
    <2>3. /\ created.ok /\ created.dtb = FinalTree(C, H.nodes).nodes
          /\ created.entry = IF C.main.identical THEN K ELSE C.entry
          /\ InMemory(created.memory, "kernel", K, C.kernel.size)
          /\ InMemory(created.memory, "bios", C.bios.addr, C.bios.size)
          /\ InMemory(created.memory, "ramdisk", C.ramdisk.addr, C.ramdisk.size)
          /\ InMemory(created.memory, "dtb", created.dtb_gpa, n)
      BY SMTT(30), <2>1, <2>2, ImagesLoaded
    <2> QED
      BY SMTT(30), <2>2, <2>3 DEF Whole, InMemory
  <1> QED
    BY <1>1, <1>2, <1>3, <1>4, PTL DEF Spec
=============================================================================
