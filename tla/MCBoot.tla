------------------------------- MODULE MCBoot -------------------------------
(***************************************************************************)
(* Small device trees and guest configurations for the start-up model.     *)
(***************************************************************************)
EXTENDS HypervisorBoot

Cpu(id, address) == [Node(<<"cpu", "@", id>>, 3) EXCEPT !.reg = <<Reg(address, 0)>>]
Spi(id) == [spi |-> TRUE, id |-> id]
Ppi(id) == [spi |-> FALSE, id |-> id]

Chosen0 == [Node(<<"chosen">>, 2) EXCEPT !.props =
              ("bootargs" :> <<"root", "ro", "quiet">>) @@ ("linux,initrd-start" :> <<9>>)]
Clk == [Node(<<"clk">>, 2) EXCEPT !.phandle = 1, !.cells = "#clock-cells" :> 1, !.props = "clocks" :> <<2>>]
Osc == [Node(<<"osc">>, 2) EXCEPT !.phandle = 2]
Uart == [Node(<<"uart">>, 3) EXCEPT !.phandle = 5, !.reg = <<Reg(100, 4)>>, !.interrupts = <<Spi(7), Ppi(3)>>,
           !.props = ("clocks" :> <<1, 3>>) @@ ("interrupt-parent" :> <<4>>)]
Gpio == [Node(<<"gpio">>, 3) EXCEPT !.phandle = 3, !.reg = <<Reg(110, 4)>>]
Pcie == [Node(<<"pcie">>, 3) EXCEPT !.name = <<"pci", "e@">>, !.reg = <<Reg(120, 4)>>, !.ranges = <<Reg(130, 4)>>]
Intc == [Node(<<"intc">>, 2) EXCEPT !.phandle = 4, !.reg = <<Reg(140, 4)>>, !.interrupts = <<Spi(9)>>]

\* 1 /, 2 chosen, 3 cpus, 4 cpu-map, 5 cpu@0, 6 cpu@4, 7 memory, 8 clk, 9 osc, 10 soc, 11 uart,
\* 12 bt, 13 gpio, 14 pcie, 15 intc.  The uart's clock is output 3 of clk.
Board ==
    [nodes |-> <<Node(Root, 1), Chosen0, Node(<<"cpus">>, 2), Node(<<"cpu", "-map">>, 3), Cpu("0", 0),
                 Cpu("4", 4), Node(<<"memory">>, 2), Clk, Osc, Node(<<"soc">>, 2), Uart,
                 Node(<<"bt">>, 4), Gpio, Pcie, Intc>>,
     needs |-> [k \in 1 .. 15 |-> IF k = 11 THEN {8, 15} ELSE IF k = 8 THEN {9} ELSE {}],
     cpus |-> <<0, 4>>]

\* The CPUs come last, and a memory controller has a child.
CpusLast ==
    [nodes |-> <<Node(Root, 1), Node(<<"soc">>, 2), Gpio, Node(<<"memory", "-controller">>, 2),
                 Node(<<"bank">>, 3), Node(<<"cpus">>, 2), Cpu("4", 4), Cpu("0", 0)>>,
     needs |-> [k \in 1 .. 8 |-> {}], cpus |-> <<4, 0>>]

\* The CPUs come last.
Reversed ==
    [nodes |-> <<Node(Root, 1), Node(<<"soc">>, 2), Gpio, Node(<<"cpus">>, 2), Cpu("4", 4), Cpu("0", 0)>>,
     needs |-> [k \in 1 .. 6 |-> {}], cpus |-> <<4, 0>>]

\* Two CPUs of one address.
Twice == [Reversed EXCEPT !.nodes[6] = Cpu("4", 4), !.cpus = <<4, 4>>]

MCHosts == {Board, CpusLast, Reversed, Twice}

Dev(path) == [path |-> path, base_gpa |-> 0, base_hpa |-> 0, length |-> 0]
soc == <<"soc">>
uart == <<"uart">>

Base ==
    [ids |-> <<0>>, devices |-> <<Dev(<<soc, uart>>)>>, excluded |-> {}, provided |-> << >>,
     location |-> "memory", absent |-> {}, main |-> [gpa |-> 8, size |-> 40, identical |-> FALSE],
     kernel |-> [addr |-> 12, size |-> 4], entry |-> 12,
     bios |-> [addr |-> NoAddr, size |-> 0], ramdisk |-> [addr |-> NoAddr, size |-> 0], dtb_load |-> NoAddr]

Identical(C) == [C EXCEPT !.main.identical = TRUE]
WithBios(C) == [C EXCEPT !.bios = [addr |-> 8, size |-> 3]]
WithRamdisk(C) == [C EXCEPT !.ramdisk = [addr |-> 17, size |-> 3]]
FromFiles(C) == [C EXCEPT !.location = "fs"]

Trees ==
    {Base, [Base EXCEPT !.devices = << >>], [Base EXCEPT !.devices = <<Dev(<< >>)>>],
     [Base EXCEPT !.devices = <<Dev(<<soc>>)>>, !.ids = <<4, 0>>],
     [Base EXCEPT !.devices = <<Dev(<<soc>>)>>, !.excluded = {<<soc, uart>>}],
     [Base EXCEPT !.excluded = {<<<<"osc">>>>}], [Base EXCEPT !.excluded = {<<soc>>}],
     [Base EXCEPT !.devices = <<Dev(<<soc, uart, <<"bt">>>>)>>, !.ids = <<4>>],
     [Base EXCEPT !.devices = <<Dev(<<soc, <<"gpio">>>>), Dev(<<soc, <<"pci", "e@">>>>)>>, !.ids = <<9, 4>>],
     [Base EXCEPT !.devices = <<Dev(<<soc, <<"gpio">>>>)>>, !.ids = <<0, 4>>],
     [Base EXCEPT !.devices = <<Dev(<<soc, <<"gpio">>>>)>>, !.excluded = {<<soc>>}],
     [Base EXCEPT !.devices = <<[path |-> <<soc, uart>>, base_gpa |-> 40, base_hpa |-> 100, length |-> 4]>>],
     [Base EXCEPT !.provided = <<Node(Root, 1), Node(<<"cpus">>, 2), Cpu("9", 9), Node(<<"memory">>, 2),
                                 [Uart EXCEPT !.level = 2]>>],
     [Base EXCEPT !.provided = <<Node(Root, 1), Node(soc, 2), Uart, Chosen0>>, !.ids = <<4, 0>>]}

Images ==
    {Identical(Base), WithBios(Base), WithBios(Identical(Base)), WithRamdisk(WithBios(Identical(Base))),
     WithRamdisk(Base), FromFiles(WithRamdisk(WithBios(Identical(Base)))), FromFiles(WithBios(Base)),
     [WithRamdisk(Base) EXCEPT !.dtb_load = 22], [WithRamdisk(Base) EXCEPT !.ramdisk.addr = NoAddr],
     [FromFiles(WithBios(Base)) EXCEPT !.absent = {"bios"}],
     [FromFiles(Base) EXCEPT !.absent = {"dtb"}, !.provided = <<Node(Root, 1), Node(soc, 2)>>],
     [Base EXCEPT !.main.size = 8, !.kernel.size = 2, !.kernel.addr = 8],
     [Base EXCEPT !.main.gpa = 0, !.main.size = 60, !.kernel.addr = 0]}

MCConfigs == Trees \cup Images
=============================================================================
