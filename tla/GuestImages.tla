----------------------------- MODULE GuestImages -----------------------------
(***************************************************************************)
(* The creation of a guest by init_guest_vm, kernel/src/vmm/config.rs: its *)
(* device tree, its memory, the addresses of its images and the loading of *)
(* the images, kernel/src/vmm/images/mod.rs.                               *)
(*                                                                         *)
(* A configuration gives the ids of the physical CPUs, the devices and the *)
(* excluded devices, the provided tree (none: empty), the place of the     *)
(* images ("memory" or "fs", and the files that are absent), the main      *)
(* memory, and for each image its size (0: not configured) and load        *)
(* address.  Addresses count units of memory; a tree takes one for each    *)
(* node.                                                                   *)
(***************************************************************************)
EXTENDS GuestFdt

CONSTANTS ALIGN,     \* 2 MB
          DTB_LIMIT  \* 512 MB: the tree is put below this offset

ASSUME SizesAssumption == /\ ALIGN \in Nat \ {0}
                          /\ DTB_LIMIT \in Nat

NoAddr == -1

\* What a configuration has.  The kernel's address is always given; the others
\* are NoAddr if they are not.
IsConfig(C) ==
    /\ C.main.gpa \in Nat /\ C.main.size \in Nat
    /\ C.kernel.addr \in Nat /\ C.kernel.size \in Nat
    /\ C.bios.addr \in Nat \cup {NoAddr} /\ C.bios.size \in Nat
    /\ C.ramdisk.addr \in Nat \cup {NoAddr} /\ C.ramdisk.size \in Nat
    /\ C.dtb_load \in Nat \cup {NoAddr}

Units(addr, size) == addr .. addr + size - 1

-----------------------------------------------------------------------------
(* fdt/mod.rs.                                                             *)

\* The tree file is opened only when one is configured; unwrap.
get_developer_provided_dtb(C) == ~(C.location = "fs" /\ C.provided # << >> /\ "dtb" \in C.absent)

setup_guest_fdt_from_vmm(C, host) ==
    LET paths == [k \in 1 .. Len(C.devices) |-> C.devices[k].path]
        names == find_all_passthrough_devices(ToSet(paths), C.excluded, host)
    IN  [crate_guest_fdt(host, names, ToSet(C.ids)) EXCEPT !.ok = @ /\ ~CountUnderflows(paths, names)]

update_provided_fdt(nodes, host, C) == update_cpu_node(nodes, host, ToSet(C.ids))

\* The tree that is put in the cache.
GuestTree(C, host) ==
    IF C.provided # << >> THEN update_provided_fdt(C.provided, host, C) ELSE setup_guest_fdt_from_vmm(C, host)

\* The guest with its tree, its CPUs and the devices that are read off the tree.
NewGuest(C, cpus, dtb, addrs) ==
    [ok |-> cpus.ok /\ get_developer_provided_dtb(C) /\ dtb.ok,
     dtb |-> dtb.nodes, cpu_sets |-> cpus.sets,
     regions |-> parse_passthrough_devices_address(C.devices, dtb.nodes) \cup {FakeNode},
     spis |-> parse_vm_interrupt(dtb.nodes),
     memory |-> << >>, kernel_gpa |-> addrs.kernel, entry |-> addrs.entry, dtb_gpa |-> NoAddr]

handle_fdt_operations(C, host, addrs) ==
    NewGuest(C, set_phys_cpu_sets(C.ids, host), GuestTree(C, host), addrs)

-----------------------------------------------------------------------------
(* Addresses.                                                              *)

\* Mutant: no room is left for the BIOS.
config_guest_address_NoBios(C) ==
    IF C.main.identical THEN [kernel |-> C.main.gpa, entry |-> C.main.gpa]
    ELSE [kernel |-> C.kernel.addr, entry |-> C.entry]

\* In an identity-mapped memory the kernel goes to its beginning, behind the BIOS.
config_guest_address(C) ==
    LET addr == C.main.gpa + IF C.bios.addr # NoAddr THEN ALIGN ELSE 0
    IN  IF C.main.identical THEN [kernel |-> addr, entry |-> addr]
        ELSE [kernel |-> C.kernel.addr, entry |-> C.entry]

align_down(addr) == (addr \div ALIGN) * ALIGN

\* A tree too large for the memory gives an address below it (or below zero),
\* where the loading fails.
calculate_dtb_load_addr(C, fdt_size) ==
    LET memory == IF C.main.size < DTB_LIMIT THEN C.main.size ELSE DTB_LIMIT
    IN  IF C.dtb_load # NoAddr /\ ~C.main.identical THEN C.dtb_load
        ELSE align_down(C.main.gpa + memory - fdt_size)

-----------------------------------------------------------------------------
(* Images.  G is the guest being created; after a failure, which expect or *)
(* unwrap turns into a panic, nothing more happens to it.                  *)

\* external: AxVM::get_image_load_region, for a range in the guest's memory.
get_image_load_region(C, addr, size) ==
    addr # NoAddr /\ Units(addr, size) \subseteq Units(C.main.gpa, C.main.size)

\* The memory with an image copied to its place.
Copied(memory, what, addr, size) ==
    [u \in DOMAIN memory \cup Units(addr, size) |->
       IF u \in Units(addr, size) THEN <<what, u - addr>> ELSE memory[u]]

load_vm_image_from_memory(G, C, what, addr, size) ==
    IF ~G.ok THEN G
    ELSE IF ~get_image_load_region(C, addr, size) THEN [G EXCEPT !.ok = FALSE]
    ELSE [G EXCEPT !.memory = Copied(G.memory, what, addr, size)]

\* The file is opened first.
load_vm_image(G, C, what, addr, size) ==
    IF what \in C.absent THEN [G EXCEPT !.ok = FALSE]
    ELSE load_vm_image_from_memory(G, C, what, addr, size)

\* update_fdt with the cached tree.
LoadTree(G, C, new, addr) ==
    IF ~new.ok THEN [G EXCEPT !.ok = FALSE]
    ELSE load_vm_image_from_memory([G EXCEPT !.dtb = new.nodes, !.dtb_gpa = addr], C,
                                   "dtb", addr, Len(new.nodes))
PlaceTree(G, C, new) == LoadTree(G, C, new, calculate_dtb_load_addr(C, Len(new.nodes)))
update_fdt(G, C) == IF ~G.ok THEN G ELSE PlaceTree(G, C, updated_fdt(G.dtb, <<C.main>>))

\* A BIOS or ramdisk that the configuration may leave out.
OptionalFromMemory(G, C, what, image) ==
    IF image.size = 0 THEN G ELSE load_vm_image_from_memory(G, C, what, image.addr, image.size)
OptionalFile(G, C, what, image) ==
    IF image.size = 0 THEN G ELSE load_vm_image(G, C, what, image.addr, image.size)

\* Kernel, device tree, BIOS and ramdisk, in this order.
load_vm_images_from_memory(G, C) ==
    OptionalFromMemory(
      OptionalFromMemory(
        update_fdt(load_vm_image_from_memory(G, C, "kernel", G.kernel_gpa, C.kernel.size), C),
        C, "bios", C.bios),
      C, "ramdisk", C.ramdisk)

\* Kernel, BIOS, ramdisk and device tree, in this order.
load_vm_images_from_filesystem(G, C) ==
    update_fdt(
      OptionalFile(
        OptionalFile(
          load_vm_image(G, C, "kernel", G.kernel_gpa, C.kernel.size),
          C, "bios", C.bios),
        C, "ramdisk", C.ramdisk),
      C)

\* ImageLoader::load.
load(G, C) ==
    IF C.location = "memory" THEN load_vm_images_from_memory(G, C)
    ELSE load_vm_images_from_filesystem(G, C)

init_guest_vm(C, host) == load(handle_fdt_operations(C, host, config_guest_address(C)), C)
=============================================================================
