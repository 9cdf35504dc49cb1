------------------------------ MODULE GuestFdt ------------------------------
(***************************************************************************)
(* The device tree of a guest, kernel/src/vmm/fdt: which nodes of the      *)
(* host's tree a configuration passes through (device.rs), the tree that   *)
(* is written from them, or from a tree the developer provides (create.rs) *)
(* and the addresses, interrupts and CPUs that are read off it (parser.rs).*)
(*                                                                         *)
(* A tree is the sequence of its nodes in document order, each with its    *)
(* level; the root has level 1.  A name is a sequence of parts, so that    *)
(* starts_with is a prefix of parts.  A path is the sequence of names      *)
(* below the root.                                                         *)
(***************************************************************************)
EXTENDS Integers, Sequences, SequencesExt, FiniteSets, TLC

Root == <<"/">>

Node(name, level) ==
    [name |-> name, level |-> level, phandle |-> 0, cells |-> << >>, props |-> << >>,
     reg |-> << >>, ranges |-> << >>, interrupts |-> << >>]

Reg(address, size) == [address |-> address, size |-> size]

StartsWith(name, prefix) == IsPrefix(prefix, name)

Indices(nodes) == [i \in 1 .. Len(nodes) |-> i]
NodeSet(nodes) == {nodes[i] : i \in 1 .. Len(nodes)}

-----------------------------------------------------------------------------
(* Paths and phandles.                                                     *)

\* The stack of names is cut to the node's level and the name is pushed.
PushName(stack, node) ==
    IF node.level = 1 THEN << >>
    ELSE Append(SubSeq(stack, 1, IF Len(stack) < node.level - 2 THEN Len(stack) ELSE node.level - 2),
                node.name)

build_node_path(nodes, i) == FoldLeft(PushName, << >>, SubSeq(nodes, 1, i))

\* All nodes with their paths; two nodes of one path are both there.
build_optimized_node_cache(nodes) ==
    {[path |-> build_node_path(nodes, i), node |-> nodes[i]] : i \in 1 .. Len(nodes)}

Below(p, q) == IsStrictPrefix(q, p)

get_descendant_nodes_by_path(cache, p) == {e.path : e \in {x \in cache : Below(x.path, p)}}

\* A later node with the same phandle replaces an earlier one.
build_phandle_map(nodes) ==
    LET handled == {i \in 1 .. Len(nodes) : nodes[i].phandle # 0}
        Last1(h) == CHOOSE i \in handled : /\ nodes[i].phandle = h
                                           /\ \A j \in handled : nodes[j].phandle = h => j <= i
    IN  [h \in {nodes[i].phandle : i \in handled} |->
           [path |-> build_node_path(nodes, Last1(h)), cells |-> nodes[Last1(h)].cells]]

\* Properties that end in -gpios, -gpio or -supply, or contain cells, are represented
\* by one each.
CellsProperty ==
    [q \in {"clocks", "assigned-clocks"} |-> "#clock-cells"] @@ ("resets" :> "#reset-cells")
    @@ ("power-domains" :> "#power-domain-cells") @@ ("phys" :> "#phy-cells")
    @@ [q \in {"interrupts", "interrupts-extended"} |-> "#interrupt-cells"]
    @@ [q \in {"gpios", "reset-gpios", "reset-gpio"} |-> "#gpio-cells"] @@ ("dmas" :> "#dma-cells")
    @@ ("thermal-sensors" :> "#thermal-sensor-cells") @@ ("sound-dai" :> "#sound-dai-cells")
    @@ ("mboxes" :> "#mbox-cells") @@ ("pwms" :> "#pwm-cells")

get_cells_count_for_property(prop, cells) ==
    IF prop \in DOMAIN CellsProperty /\ CellsProperty[prop] \in DOMAIN cells
    THEN cells[CellsProperty[prop]] ELSE 0

PHANDLE_PROPERTIES ==
    {"clocks", "power-domains", "phys", "resets", "dmas", "thermal-sensors", "mboxes", "assigned-clocks",
     "interrupt-parent", "phy-handle", "msi-parent", "memory-region", "syscon", "regmap", "iommus",
     "interconnects", "nvmem-cells", "sound-dai", "pinctrl-0", "pinctrl-1", "pinctrl-2", "pinctrl-3", "pinctrl-4"}

is_phandle_property(prop) ==
    prop \in PHANDLE_PROPERTIES \cup {"vcc-supply", "gpios", "reset-gpios", "reset-gpio", "mac-cells"}

\* Mutant: the specifier cells after a phandle are not skipped.
parse_phandle_property_with_cells_NoSkip(values, prop, map) ==
    {values[i] : i \in 1 .. Len(values)} \cap DOMAIN map

\* The phandles of a property: a value that is none is skipped alone, one that
\* is takes its specifiers with it, and one whose specifiers are cut off ends it.
parse_phandle_property_with_cells(values, prop, map) ==
    LET from[i \in 1 .. Len(values) + 1] ==
          IF i > Len(values) THEN {}
          ELSE IF values[i] \notin DOMAIN map THEN from[i + 1]
          ELSE LET n == get_cells_count_for_property(prop, map[values[i]].cells)
               IN  IF i + n <= Len(values) THEN {values[i]} \cup from[i + n + 1] ELSE {}
    IN  from[1]

parse_phandle_property(values, prop, map) ==
    {map[h].path : h \in parse_phandle_property_with_cells(values, prop, map)}

find_device_dependencies(p, map, cache) ==
    UNION {UNION {parse_phandle_property(e.node.props[prop], prop, map) :
                    prop \in {q \in DOMAIN e.node.props : is_phandle_property(q)}} :
             e \in {x \in cache : x.path = p}}

-----------------------------------------------------------------------------
(* find_all_passthrough_devices.                                           *)

\* Phase 2, the work queue.  A round of the loop: a path is taken off, and those of
\* its dependencies that are new are added to the names and to the queue.
Process(work, map, cache) ==
    LET p == CHOOSE q \in work.queue : TRUE
        new == find_device_dependencies(p, map, cache) \ work.names
    IN  [queue |-> (work.queue \ {p}) \cup new, names |-> work.names \cup new]

\* The loop ends, since a round adds to the names or only shortens the queue.
Dependencies(configured, map, cache) ==
    LET paths == configured \cup {e.path : e \in cache}
        names[work \in [queue : SUBSET paths, names : SUBSET paths]] ==
          IF work.queue = {} THEN work.names ELSE names[Process(work, map, cache)]
    IN  names[[queue |-> configured, names |-> configured]]

WithDescendants(cache, paths) ==
    paths \cup UNION {get_descendant_nodes_by_path(cache, p) : p \in paths}

\* The result as a set: only membership in it matters later.
find_all_passthrough_devices(passthrough, excluded, nodes) ==
    LET cache == build_optimized_node_cache(nodes)
        map == build_phandle_map(nodes)
        configured == WithDescendants(cache, passthrough)
        all == Dependencies(configured, map, cache)
    IN  (all \ WithDescendants(cache, excluded)) \ {<< >>}

\* The number of devices that were added is the final one less the configured one;
\* the subtraction is checked where overflow checks are on.  A device that is
\* configured twice is in both numbers twice.
CountUnderflows(paths, names) ==
    LET kept == SelectSeq(paths, LAMBDA p : p \in names)
    IN  Len(kept) + Cardinality(names \ ToSet(paths)) < Len(paths)

-----------------------------------------------------------------------------
(* create.rs.  W is a tree being written: what is there, the number of open *)
(* nodes and previous_node_level.                                          *)

NewWriter == [out |-> << >>, depth |-> 0, previous |-> 0]

\* begin_node with the node's properties.
BeginNode(W, node) ==
    [out |-> Append(W.out, [node EXCEPT !.level = W.depth + 1]),
     depth |-> W.depth + 1, previous |-> node.level]

handle_node_level_change(W, level) ==
    LET n == W.previous - level + 1
    IN  [W EXCEPT !.depth = IF level > W.previous THEN @ ELSE IF @ < n THEN 0 ELSE @ - n]

WriteNode(W, node) == BeginNode(handle_node_level_change(W, node.level), node)

\* The last nodes are closed; assert_eq!(previous_node_level, 0).
Finish(W) == [ok |-> W.previous = W.depth, nodes |-> W.out]

is_descendant_of_passthrough_device(p, level, names) ==
    \E q \in names : Below(p, q) /\ level > Len(q)

is_ancestor_of_passthrough_device(p, names) == \E q \in names : Below(q, p)

IsCpus(p) == p # << >> /\ StartsWith(p[1], <<"cpus">>)

determine_node_action(node, p, names) ==
    IF node.name = Root THEN "RootNode"
    ELSE IF StartsWith(node.name, <<"memory">>) THEN "Skip"
    ELSE IF IsCpus(p) THEN "CpuNode"
    ELSE IF \/ p \in names
            \/ is_descendant_of_passthrough_device(p, node.level, names)
            \/ is_ancestor_of_passthrough_device(p, names) THEN "Include"
    ELSE "Skip"

\* Below /cpus/cpu@ only nodes whose first address is one of the ids.
need_cpu_node(ids, node, p) ==
    \/ ~(Len(p) >= 2 /\ p[1] = <<"cpus">> /\ StartsWith(p[2], <<"cpu", "@">>))
    \/ /\ node.reg # << >>
       /\ node.reg[1].address \in ids

crate_guest_fdt(nodes, names, ids) ==
    LET Step(W, i) ==
          LET p == build_node_path(nodes, i)
              action == determine_node_action(nodes[i], p, names)
          IN  IF action = "RootNode" THEN BeginNode(W, nodes[i])
              ELSE IF action = "Skip" \/ (action = "CpuNode" /\ ~need_cpu_node(ids, nodes[i], p)) THEN W
              ELSE WriteNode(W, nodes[i])
    IN  Finish(FoldLeft(Step, NewWriter, Indices(nodes)))

\* The provided tree without its /cpus, then the host's /cpus.
update_cpu_node(nodes, host, ids) ==
    LET Provided(W, i) ==
          IF nodes[i].name = Root THEN BeginNode(W, nodes[i])
          ELSE IF IsCpus(build_node_path(nodes, i)) THEN W ELSE WriteNode(W, nodes[i])
        Host(W, i) ==
          LET p == build_node_path(host, i)
          IN  IF IsCpus(p) /\ need_cpu_node(ids, host[i], p) THEN WriteNode(W, host[i]) ELSE W
    IN  Finish(FoldLeft(Host, FoldLeft(Provided, NewWriter, Indices(nodes)), Indices(host)))

\* The initrd of the host is dropped and the root file system made writable.  The
\* boot arguments are words (no two "ro" in a row); replace finds " ro " between two.
Chosen(node) ==
    LET kept == DOMAIN node.props \ {"linux,initrd-start", "linux,initrd-end"}
    IN  IF node.name # <<"chosen">> THEN node
        ELSE [node EXCEPT !.props = [q \in kept |->
                IF q # "bootargs" THEN node.props[q]
                ELSE [k \in 1 .. Len(node.props[q]) |->
                        IF node.props[q][k] = "ro" /\ k \in 2 .. Len(node.props[q]) - 1 THEN "rw" ELSE node.props[q][k]]]]

add_memory_node(regions) ==
    [Node(<<"memory">>, 2) EXCEPT !.reg = [k \in 1 .. Len(regions) |-> Reg(regions[k].gpa, regions[k].size)]]

\* update_fdt up to the choice of the address: the memory node is written when
\* the closing of the last nodes comes to level 1.
updated_fdt(nodes, regions) ==
    LET Step(W, i) ==
          IF nodes[i].name = Root THEN BeginNode(W, nodes[i])
          ELSE IF StartsWith(nodes[i].name, <<"memory">>) THEN W
          ELSE WriteNode(W, Chosen(nodes[i]))
        end == FoldLeft(Step, NewWriter, Indices(nodes))
    IN  [Finish(end) EXCEPT !.nodes =
           IF end.previous >= 2 /\ end.previous <= end.depth + 1 THEN Append(@, add_memory_node(regions)) ELSE @]

-----------------------------------------------------------------------------
(* parser.rs.                                                              *)

\* The first addresses of the nodes find_nodes("/cpus/cpu") returns.
CpuAddresses(nodes) ==
    LET IsCpu(i) == LET p == build_node_path(nodes, i)
                    IN  /\ Len(p) = 2 /\ p[1] = <<"cpus">> /\ StartsWith(p[2], <<"cpu">>)
                        /\ nodes[i].reg # << >>
        cpus == SelectSeq(Indices(nodes), IsCpu)
    IN  [k \in 1 .. Len(cpus) |-> nodes[cpus[k]].reg[1].address]

\* The CPU index of every id; an id that is not in the tree is left out.  Two
\* CPUs of one address are a panic.
CpuSets(ids, cpus) ==
    LET known == SelectSeq(ids, LAMBDA id : Contains(cpus, id))
    IN  [ok |-> IsInjective(cpus), sets |-> [k \in 1 .. Len(known) |-> SelectInSeq(cpus, LAMBDA a : a = known[k]) - 1]]

set_phys_cpu_sets(ids, nodes) == CpuSets(ids, CpuAddresses(nodes))

\* A range of guest addresses and where it is in the host's memory.
Region(gpa, hpa, length) == [base_gpa |-> gpa, base_hpa |-> hpa, length |-> length]

add_device_address_config(base, size) == IF size = 0 THEN {} ELSE {Region(base, base, size)}

add_pci_ranges_config(range) ==
    IF range.size = 0 THEN {} ELSE {Region(range.address, range.address, range.size)}

NodeRegions(node) ==
    UNION {add_device_address_config(node.reg[k].address, node.reg[k].size) : k \in 1 .. Len(node.reg)}
    \cup IF Contains(node.name, "pci")
         THEN UNION {add_pci_ranges_config(node.ranges[k]) : k \in 1 .. Len(node.ranges)} ELSE {}

\* If the first configured device has a length they all stay, each with a second
\* region at the host address that equals its guest address; else the addresses of
\* every node of the guest's tree replace them.
parse_passthrough_devices_address(devices, nodes) ==
    IF devices # << >> /\ devices[1].length # 0
    THEN UNION {{Region(devices[k].base_gpa, devices[k].base_hpa, devices[k].length)}
                \cup add_device_address_config(devices[k].base_gpa, devices[k].length) : k \in 1 .. Len(devices)}
    ELSE UNION {NodeRegions(n) :
                  n \in {x \in NodeSet(nodes) : x.name # Root /\ ~StartsWith(x.name, <<"memory">>)}}

\* The shared interrupts of the nodes that are no interrupt controllers.
parse_vm_interrupt(nodes) ==
    LET Spis(n) == {n.interrupts[k].id : k \in {j \in 1 .. Len(n.interrupts) : n.interrupts[j].spi}}
    IN  UNION {Spis(n) : n \in {x \in NodeSet(nodes) :
                  \A part \in {"memory", "interrupt-controller", "intc", "its"} : ~StartsWith(x.name, <<part>>)}}

\* The region parse_vm_interrupt adds for every guest.
FakeNode == Region(0, 0, 2)
=============================================================================
