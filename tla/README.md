# A TLA+ model of AxVisor

AxVisor is a type-1 hypervisor built on the ArceOS unikernel. This directory
holds TLA+ modules translated from its source, TLC configurations that check
them on small instances, and TLAPS proofs of their main invariants for every
value of the constants. `PROJECT.json` lists components, runs, the mapping from
definitions to source lines, hazards, findings and theorems.

Paths below are relative to `kernel/src` unless they start with `modules/`.

## Inventory

| Component | State | Operations | What is hard | What makes it correct |
|---|---|---|---|---|
| vCPU tasks (`vmm/vcpus.rs`, `task.rs`) | map of `VMVCpus` (wait queue, task list, counter) per VM; the point of `vcpu_run` each task is at | spawn, wait, notify, mark running/exiting, the exits of `vcpu_run` | tasks of one VM and the shell interleave; wake-ups can be lost; entries are replaced and removed under sleeping tasks | the counter is exact, exactly the last vCPU declares `Stopped`, no task is stranded |
| VMM (`vmm/mod.rs`, `main.rs`) | `RUNNING_VM_COUNT`, the `VMM` queue | `init`, `start`, add/sub | add after notify, wait against wake | `start` returns when, and only when, all VMs have stopped |
| `vm` commands (`shell/command/vm.rs`), VM list (`vmm/vm_list.rs`) | `VMStatus` of each VM, `GLOBAL_VM_LIST` | create, start, stop, restart, suspend, resume, delete | check-then-act on a status that vCPU tasks write too; timeouts; forced deletion | the status follows the life cycle of `doc/shell.md`; commands take effect |
| IVC (`vmm/ivc.rs`, `vmm/hvc.rs`) | table of channels, second-stage mappings, frames | publish, unpublish, subscribe, unsubscribe | each hypercall is several steps, failures half way, channels replaced while used | a frame has one owner; no mapping outlives its channel |
| Console (`shell/mod.rs`, `shell/command/history.rs`) | line buffer, cursor, escape state, history, screen | one per key | index arithmetic, stale bytes, position in a history that changes | in bounds, buffer and screen agree, the loops edit the line |
| Command parser (`shell/command/mod.rs`) | none | tokenise, find the command, parse options | quoting and options at the edges | a line means what its author quoted and wrote |
| Timers (`vmm/timer.rs`) | a timer list per CPU, the token counter | register, cancel, check | lists reached from one CPU only, callbacks that register, vCPUs that stop | a timer fires once and not early, or was cancelled |
| Per-CPU start (`hal/mod.rs`, `modules/axruntime`) | counters of started, initialised and enabled cores; run queues | start secondary CPUs, wait, enable virtualization | barriers built from counters, threads that migrate, a waiting thread on a CPU others need | no core is used before it is set up; the boot ends |
| Guest configuration and images (`vmm/config.rs`, `vmm/images`) | the guest's memory and addresses | place and load each image | addresses that depend on each other, order of loading | every image is whole when the guest starts |
| Device trees (`vmm/fdt`) | the tree being built | select nodes, rewrite CPU, memory and chosen nodes, read off regions | closure over parents, children and phandles with variable cells | the guest has the hardware it was configured with, and no other |
| File system (`modules/axfs`) | mount table, current directory, block cursors | scan, mount, lookup, open, rename, read and write blocks | prefix matching, operations in several steps, partial blocks | paths reach the file they name; bytes go where they should |
| File commands (`shell/command/base.rs`) | none of their own | cd, ls, cat, echo, mkdir, touch, rm, cp, mv | recursion over directories that change, steps that fail half way | nothing is lost, and what was not done is reported |
| Architecture, drivers, platform | hardware registers | - | - | not modelled: hardware |

Interactions. The main thread runs `init`, `start` and then the shell. It
spawns one task per primary vCPU; vCPU tasks spawn secondaries (`CpuUp`). They
share the map of entries, the status of each VM and `RUNNING_VM_COUNT`. The
wait queue of an entry carries notifies from the main thread to tasks, the
`VMM` queue carries the wake of the last vCPU to the main thread. Hypercalls run
in the vCPU tasks and share the channel table. Before all this `rust_main`
starts the CPUs and mounts the file systems, `enable_virtualization` sets up
each core, timer list included, and `init` creates each guest with its device
tree and images; vCPU exits then drive the timers of their CPU.

## Modules

| Module | Role |
|---|---|
| `VmmState` | shared state of the life cycle and the primitives on it: wait, `wait_for`, notify, spawn |
| `VcpuRun` | one vCPU task: an action for every access of `vcpu_run` to shared state |
| `VmShell` | the main thread: init, start, the `vm` commands |
| `VmLifecycle` | the composition, its properties and fairness |
| `VmStatus` | abstract specification: the life cycle in which each guard and its write are one step |
| `Ivc` | the channel table and the hypercalls |
| `CommandHistory` | the shell history as operators |
| `Console` | the line editor over a fixed buffer |
| `LineEditor` | abstract specification: an editor over a sequence |
| `Tokenizer` | how a line is cut into tokens, and what a user types for given tokens |
| `CommandParser` | the command tree and the parser as operators |
| `Timer` | the timers of each CPU |
| `PerCpuBoot` | start-up of the CPUs and of virtualization, over `Timer` |
| `GuestFdt` | the device tree of a guest |
| `GuestImages` | `init_guest_vm`: memory, addresses, loading |
| `HypervisorBoot` | `main`: the composition of the four above, with its properties |
| `Partitions` | partition scan and choice of the root |
| `BlockIo` | block input and output, one device block a step |
| `FsAdapters` | the operations of the FAT, ext4 and RAM file systems as their adapters show them |
| `Vfs` | mounts, lookup, current directory, opening |
| `FileCommands` | the file commands of the shell |
| `Rootfs` | the composition from power-on to the shell, with its properties; a file command returns some file systems and an error |
| `Storage` | `Rootfs` with the file commands, and their properties |
| `MCVmLifecycle`, `MCIvc`, `MCConsole`, `MCBoot`, `MCFiles` | instances for TLC |
| `VmLifecycle_proofs`, `VmOneVcpu_proofs`, `Ivc_proofs`, `Console_proofs`, `PerCpuBoot_proofs`, `HypervisorBoot_proofs`, `BlockIo_proofs`, `Rootfs_proofs` | theorems |

Operators whose comment begins with "Mutant" are deliberate faults. They are in
no next-state relation; each stands beside the definition it corrupts and shows
which fault a property detects.

### Life cycle

`status`, `listed`, `entry`, `taskList`, `count`, `runningVMs` are `VMStatus`,
`GLOBAL_VM_LIST`, `VM_VCPU_TASK_WAIT_QUEUE` with the fields of its entries, and
`RUNNING_VM_COUNT`. An entry is named by the primary task it was created with,
which tells the queue of a replaced entry from the current one. `pc[t]` is the
point of `vcpu_run` task `t` is at, `home[t]` the entry whose queue its wait
uses, `asleep` the blocked tasks. `sh` is the local state of the main thread.
`spawnee[t]` is the secondary that task `t` has spawned in `vcpu_on` and not yet
put on the list. A panic (`unwrap`, `expect`, `assert`, `unimplemented`) sets
`panic` to its cause and stops the system.

A command reads a status in one step and writes in a later one, as the code
does, so vCPU tasks run between the two. Where the code reads, tests and acts
on shared state under one lock or in one atomic instruction it is one step.

Assumed about code outside the repository (external in the map): `AxVM::boot`,
`shutdown` (fails when already stopping), `set_vm_status`; a wait queue checks
its condition and goes to sleep atomically with respect to notifies; tasks are
scheduled FIFO and without preemption on their CPU. `RemoteVcpu` says whether
vCPU tasks run on other CPUs than the main thread, and so may start before the
code that spawned them goes on; this is so for the primary, between its spawn and
the insertion of its entry, and for secondaries, between the two halves of
`vcpu_on` (`vcpu_on`, `AddVcpuTask`).

A guest may make any exit that `GuestExits` lists, also one that the VMM cannot
serve. `CpuUp` panics when the target is no CPU of the configuration, when a task
of that vCPU is in the guest (the `assert` on `VCpuState::Free`; `run_vcpu` is one
stay in the guest, in which the vCPU may or may not be bound yet, so both outcomes
are possible) and when `set_entry` refuses (external). `SendIPI` panics: to all CPUs
it is `unimplemented`, and for another vCPU `with_vm_and_vcpu_on_pcpu` either does
not find its task, which the caller unwraps, or is `unimplemented`
(`vmm/mod.rs:128`); an IPI of a vCPU to itself stays in the guest. A second
`shutdown()` of a VM fails its `expect`. Exits that change nothing shared are a
stay in the guest.

### IVC

Each operation of the table holds its lock and is one step; a hypercall is a
sequence of them with the allocation, mapping and unmapping between. `careful`
is fixed at the start of a behaviour: careful guests make one hypercall at a
time, publish unused keys, unpublish what they published, subscribe once and
pass writable pointers; others do anything. Exhausted host memory is a possible
outcome of every allocation and mapping.

### Console

One action per key in each input state. Bytes are `Char` (valid UTF-8 alone) or
`Raw` (valid nowhere), which is what `from_utf8(..).unwrap_or("")` tells apart.
The screen is the text after the prompt and the cursor column.

The parser is a set of operators over lines, which are sequences of symbols (a
blank, a quote, a backslash, a dash, an equals sign, a letter, a word). `QuotingRoundTrip` and
`ParsedAsMeant` compare it with lines built from what they should mean, for
every command of the tree. The parser has no state, so both are evaluated only at
the empty prompt the shell starts with. A quoted empty token (`""`) yields no token and so
cannot be given to a command.

### Boot, timers and guests

`pc[c]` is where CPU `c` is in `rust_main` or `rust_main_secondary`;
`ENTERED_CPUS`, `INITED_CPUS` and `CORES` are the counters of the barriers;
`current` and `run_queue` are the scheduler, which puts a new thread on any CPU,
moves it when it sets its affinity and switches only when a task yields or ends
(external). `TIMER_LIST` has a list for each CPU that has called `init_once`.
`armed` is a history variable with the registrations in their order. Each round
of the loop of `check_events` is a step, since the lock is free between them and
a callback may register again. `strays` is another history variable, with the timers
for which `cancel_timer` was called on another CPU than their own while they waited.

A host device tree is the sequence of its nodes in document order with their
levels, as the library iterates over it; a name is a sequence of parts, so that
`starts_with` is a prefix. `init_guest_vm` is one operator that returns the
guest: its tree, regions, CPU masks, load addresses and memory, or that it
panicked; guests are created one after the other by one thread and share
nothing. A guest has one memory region, and `VM::new`, the allocation of its memory,
`vm.init` and the reading of an image header succeed: their `expect`s and `panic`s
(`vmm/config.rs:159-205`) depend on code outside the repository and are not
modelled. Memory is counted in units, of which `ALIGN` make 2 MB. `GuestHardware`
states the result without phandles: a host says for each node which others its
device needs. `BootImagesWhole` states where images are meant to be and requires
that they fit there.

Assumed: `CPU_COUNT <= MAX_CPU_NUM` (`modules/axruntime/src/mp.rs` has
`MAX_CPU_NUM - 1` boot stacks and indexes them without a test), and that the id
of the primary CPU is below `cpu_count()`.

### Storage

`ScanDisk` reads the partition table. `Probe` starts one of the requests that are
made while file systems are opened, and each `BlockStep` is one call of
`read_one` or `write_one` in the loop of its caller: the ext4 block device, the
FAT stream or the scan. `init_rootfs_with_partitions` then chooses the root by
the boot arguments and mounts the other partitions, `/proc` and `/sys`;
`init_rootfs_with_ramfs` is the case without partitions. A panic on the way ends in
the phase `panic`: no block device, a device whose blocks are not of 512 bytes, a
table entry whose size underflows, a detected file system that does not open, and a
virtual file system that cannot be mounted. After `StartShell` each
command is one step (`RunCommand`, `do_cd`), since one thread runs them all.
`Rootfs` has all of this but what a file command computes: its `RootfsSpec` lets
`CommandReturns` take any result, and `Storage` gives it the result of `Run`.
Commands are operators that thread the file systems through their calls and stop
where the code does, so a failure half way leaves what was done. A file system
has a capacity that makes writes fail. The FAT, ext4 and RAM file system
libraries are external: modelled from what the adapters ask of them. Each file
system has a set `stuck` of nodes that its library fails to remove or truncate: the
FAT adapter passes the error on, the ext4 adapter drops it
(`modules/axfs/src/fs/ext4fs.rs:251-269`, `:457-470`). `..` in a path is modelled
for `cd` only.

`MoveKeepsData`, `CopyFaithful` and `RemoveComplete` are invariants that apply
every `mv`, `cp` and `rm` of the instance to the state; the commands that were
run make the states.

## Runs

| Run | Instance | Checks |
|---|---|---|
| `lifecycle_up` | 2 VMs, 1 vCPU, 4 tasks on other CPUs, all commands with and without `--force`, 3 commands | `TypeOK`, `StoppedMeansExited`, `RunningCovered`, `NoLostEntry`, `VmmReturnsWhenStopped`, `VmmReturns` |
| `lifecycle_smp` | 1 VM, 3 vCPUs, 3 tasks on other CPUs, every exit, no commands | `CountExact`, `NoMissedStop`, `TasksJoinable` |
| `lifecycle_live` | 1 VM, 1 vCPU, 6 commands without `--force`, vCPU tasks on the VMM's CPU | `NotifiedPrimaryAwake`, `FollowsLifecycle`, `BootRuns`, `ResumeWakes`, `StopCompletes` |
| `lifecycle_vmm_returns` | 2 VMs, 2 vCPUs | `VmmReturnsWhenStopped` fails |
| `lifecycle_delete` | forced deletion | `CleanupAfterExit` fails |
| `lifecycle_stop_suspended` | stop of a suspended VM | `StopWakesSuspended` fails |
| `lifecycle_stale_check` | 1 VM on another CPU that shuts itself down | `StoppingBecomesStopped` fails |
| `ivc` | 2 VMs with 2 vCPUs, 1 key, 2 frames, 2 regions per VM | `TypeOK`, `FrameOwnership`, `UnpublishedHasSubscriber`, `NoStaleMapping` |
| `ivc_unpublish` | 2 VMs with 1 vCPU | `UnpublishKeepsSubscribed` fails |
| `console` | 4-byte buffer, 3 bytes, history of 2; lines of up to two arguments for every command | `InBounds`, `CleanTail`, `HistoryOK`, `ScreenMatches`, `EditsLine`, `QuotingRoundTrip`, `ParsedAsMeant` |
| `files` | 19 disks, 9 boot arguments, 25 command lines and 5 directories, 2 commands and any number of `cd` | `IoExact`, `IoCompletes`, `RootAsNamed`, `MountsReachable`, `BootPanics`, `RelativeIsAbsolute`, `MoveKeepsData`, `CopyFaithful`, `RemoveComplete` |
| `boot` | 3 CPUs of which CPU 1 is the primary, 4 host trees, 27 configurations, 2 timers, 1 tick | `NoEarlyUse`, `BootCompletes`, `TimersExact`, `DueTimersFire`, `GuestHardware`, `BootImagesWhole` |

Bounds. Three commands cover create-start-stop and any check-then-act pair
followed by a third command; six cover start, suspend, resume, stop and restart
of a fresh VM. Four tasks allow two starts of each of two VMs; three tasks allow
three vCPUs, or two of which one is powered down and on again. In `ivc` two frames and two regions let a key be
published, replaced and subscribed to in the same behaviour. A four-byte buffer
has an empty, a partly filled and a full line with the cursor at either end and
inside; a history of two overflows on the third command. `MaxPoll` stands for
the 50 polls of `vm restart`.

In `files` two commands are a change and a second one that meets its result. A
device block has 2 bytes, an ext4 block 4 and the directory iterator 2 entries,
so that requests begin and end inside blocks, take several of them, and a
directory of three entries needs a second fetch. The disks have no table, a
table with holes, equal labels, labels that are prefixes of each other or that
collide with a virtual file system, table entries that are too short, unreadable or
end before they start, no file system, one that does not open as the root or beside
it, nodes that cannot be removed, a small capacity, large device blocks, and no
device at all.

In `boot` three CPUs have one before and one after the primary in the loop that
starts them, and threads that are spawned on a core that is not theirs. Two
timers can be on one CPU or on two, one can be registered by the other's
callback and one be cancelled with the other's token. The trees have the CPUs
first or last, a two-step dependency, a specifier that equals a phandle, two CPUs
of one address, and a memory node with a child.

Deadlock is not checked in the life cycle (all VMs may be stopped and the
operator idle), in `ivc` (the regions of a guest are used up) and in `boot` (a
panic stops the machine). It is in `console` and `files`.

Fairness (`lifecycle_up`, `lifecycle_live`, `lifecycle_stop_suspended`): weak
fairness of the main thread and of every vCPU task. The scheduler runs every
ready task, and a guest leaves to the VMM at every timer interrupt. Typing a
command is the operator's choice and is not fair. In `files` the loops over
device blocks are fair. In `boot` every CPU and every thread goes on, main does,
the clock does, and a CPU whose vCPU runs keeps getting host interrupts; nothing
makes a halted vCPU run again, and `DueTimersFire` does not ask for it.

### What the five failing runs show

- `lifecycle_vmm_returns`: a vCPU is counted only after its wait for `Running`.
  A secondary that is spawned but not counted when the primary exits makes the
  VM `Stopped`, and subtracted, twice; `vmm::start` returns while another VM
  runs ("Do not exit until all VMs are stopped", `vmm/mod.rs:68`).
- `lifecycle_delete`: `vm delete --force` removes the entry of a VM whose
  tasks have only been told to stop (`vmm/vcpus.rs:241`).
- `lifecycle_stop_suspended`: stopping a suspended VM wakes nobody
  (`shell/command/vm.rs:367`).
- `lifecycle_stale_check`: `vm suspend` sets `Suspended` over the `Stopping` a
  guest wrote after the check (`doc/shell.md:441`); the shutdown is lost.
- `ivc_unpublish`: a second unpublish drops a channel with subscribers
  (`vmm/ivc.rs:36`).

These behaviours bound what the passing runs can establish. `lifecycle_smp` has
no commands: a restart replaces the entry, and its count, while a secondary of
the previous start may be left. Its guests make every exit, and the panics these
cause end a behaviour. `lifecycle_live` has no `--force` and no guest
that shuts itself down, since either lets a command overwrite a status written
after its check, and keeps vCPU tasks on the CPU of the main thread, since on
another CPU a task can look for its entry before it is inserted. `lifecycle_up`
has all of these and checks what holds in spite of them; its `NoLostEntry` names the
two cases in which a task finds no entry or no VM, and excludes any other.

### Disagreements the properties leave out

The models have these behaviours. Here the code does not do what a comment or a
document says of it; the property named leaves the case out, so that it holds says
nothing in favour of the code there.

- A timer cancelled on another CPU. `vmm/timer.rs:53` calls the token "A unique token
  that can be used to cancel this timer later" and `vmm/timer.rs:72` says "Cancels a
  timer with the specified token", but `cancel_timer` (`vmm/timer.rs:76-80`) searches
  the list of the calling CPU only: on any other CPU than the one that registered the
  timer it finds nothing, reports nothing, and the timer fires. `TimersExact` says of
  such a timer (`strays`) only that it does not fire twice or early; it neither asks
  that it stays armed nor that it is gone.
- `rm -d` on ext4. `shell/command/base.rs:673` documents the flag as "Remove empty
  directories" and `modules/axfs/src/api/mod.rs:73` `remove_dir` as "Removes an empty
  directory.", but neither the command nor the ext4 adapter looks for entries, and the
  library's call for directories removes them with their contents. `RemoveComplete`
  excepts the directories of an ext4 file system under `--dir` (`InFullDir`); on FAT
  the directory stays and an error is shown.
- Removals that ext4 does not do. The ext4 adapter drops the results of its library's
  removals (`modules/axfs/src/fs/ext4fs.rs:251-269`), and of its truncation
  (`modules/axfs/src/fs/ext4fs.rs:457-470`): `rm` then shows no error and the file is
  still there. `RemoveComplete` excepts the nodes that the library fails to remove
  (`NotRemoved`), and `CopyFaithful` and `MoveKeepsData` those that it fails to
  truncate (`NotTruncated`); FAT passes these errors on, and nothing is excepted.
- An excluded device below a passed-through one stays in the guest's tree:
  `vmm/fdt/device.rs:152` takes it off the list, and
  `is_descendant_of_passthrough_device` (`vmm/fdt/create.rs:151`) brings it back.
  `doc/FDT_Configuration_Guide.md:148` says that excluded nodes and their
  descendants are removed from the guest's tree. `GuestHardware` excludes the
  case (`Plain`), and memory nodes with children and devices that the host lacks.
- `/dev/sdaN` counts the listed partitions, not the slots of the table
  (`modules/axfs/src/lib.rs:192`): past a slot that is unused, without a name or
  unreadable it picks a later partition than the one named. `RootAsNamed`, and with it
  the theorem `RootChosen`, leaves device paths past such a slot out (`NoHole`); labels
  and UUIDs are not affected.

### Other behaviours met while modelling

The models have these behaviours too; properties exclude them where named.

- Only exits of vCPUs look at a timer list (`vmm/vcpus.rs:472`): `DueTimersFire`
  excludes CPUs without a running vCPU.
- `vmm/fdt/device.rs:168` subtracts the number of configured devices from that of the
  devices left when the excluded ones and the root are taken off. When fewer are left
  the guest's creation panics in a build with overflow checks (`CountUnderflows`), and
  only a log message is wrong in one without. `BootImagesWhole` excludes the case (`EnoughLeft`).
- `NoStaleMapping` exempts the hypercall that is about to unmap: unpublish and
  unsubscribe free the frame before they unmap it (`vmm/hvc.rs:78`), so there is a
  window in which a VM has access to a frame that is free or another's.
- `rename` removes the destination before it looks at the source
  (`modules/axfs/src/root.rs:553`), so `mv` of a missing file removes the
  destination and `mv a a` the file. `cp a a` truncates it
  (`shell/command/base.rs:529`). `MoveKeepsData` and `CopyFaithful` speak
  of the files of the source and exclude overlapping names.
- `mv` into a directory builds the new name from the first entry of the
  destination, and with several sources unwraps `read_dir` of a source that may
  be a file (`shell/command/base.rs:418`).
- Without a supported file system `initialize_with_partitions` only warns, and
  the fallback of `modules/axfs/src/root.rs:397` is not reached (phase `noroot`).
- `find_best_mount` compares prefixes without a boundary: `/data` on the root is
  looked up in a file system mounted at `/d` (`modules/axfs/src/root.rs:120`).
- The loops of the ext4 block device repeat a transfer of zero bytes for ever
  (`modules/axfs/src/fs/ext4fs.rs:511`); `IoCompletes` asks only for requests
  inside what `total_blocks` offers.
- A table entry that ends before it starts underflows the partition's size
  (`modules/axfs/src/partition.rs:217-219`), which panics in a build with overflow
  checks. That is what the model does; the wrapped size of a build without them is
  not modelled, and neither are block addresses of 2^55 and more, whose byte
  addresses overflow.

## Proofs

Checked by `tlapm` with Z3, Zenon and LS4.

`VmLifecycle_proofs`
: `TypeCorrect`, for all constants: `TypeOK` is inductive once it says that the
  task in hand at `insert` exists. The module also proves what each action does
  to one VM and one task (`TaskView`, `MainView`, `CommandView`); the invariants
  are shown preserved from these views. The other theorems hold for any number
  of VMs, vCPUs, tasks and commands. Each names the commands and the guests it is
  about, because without the condition it is false.
  - `NoLostEntryCorrect` (`NoLostEntry`), for all constants, all commands, remote
    vCPUs and all guests. `EntryInv` says that every task has the entry of its VM,
    unless the VM is not listed any more or the main thread has spawned the VM's first
    primary and is about to insert the entry; each unwrap of a step is one of these.
  - `OnlyGuestPanics`: without `delete`, and with vCPU tasks that cannot start
    before their entry is inserted (`RemoteVcpu = FALSE`), every panic answers a guest
    exit (`GuestPanic`): `shutdown()` of a VM that is stopping already, `CpuUp` of a CPU
    that is not there or not free or with an entry point that is refused, `SendIPI` to
    another vCPU or to all. It names no property of a run: what it says of these
    guests is which panics they cannot cause.
  - `SmpTasksJoinable` (unless VMs are started again), on whatever CPUs the tasks
    start: `JoinInv` says that a task which is not through `mark_vcpu_exiting` is on
    its VM's list, or about to be put there by the main thread or by the vCPU task
    that is between the halves of `vcpu_on` with it in hand; it is inductive because a
    VM that is set up has no other task (`FreshSetup`).
  - `SmpCountExact` (unless VMs are started again): `OnceInv` says that a VM is
    set up once, by `init`, so that its entry and its count are never replaced
    under a running task.
  - `SmpNoMissedStop` (VMs that the operator leaves alone): `StopDeclared` says
    that a VM is `Stopped` as soon as all its tasks are past their exit; it
    follows from the exact count that the last to leave finds it at 1. A command
    that checked the status before the last exit and writes its own after it
    would overwrite `Stopped`.

`VmOneVcpu_proofs`
: one vCPU per VM and guests without `CpuUp`, any number of VMs, tasks and commands.
  `CpuUp` is left out because a vCPU that names itself as the target gets a second
  task: it is `Free` while its exit is handled, so the `assert` in `vcpu_on` passes.
  - `UniStoppedMeansExited` and `UniCountExact`. The invariants are not
    inductive: what makes the count exact is that a VM has at most one task that
    has not declared it stopped, and that a start begins only when it has none.
    `UniInv` says so: `OneLive` (at most one live task per VM), `AtRest` (the
    live task of a VM that is `Loaded` or `Stopped` has not entered the guest),
    `LiveHasBoot` (and then the main thread is about to boot it), `ChecksHold`
    (what the main thread checked before a setup or boot still holds, since only
    it starts VMs), `InitLoop` and `StartLoop` (the loops of `init` and `start`),
    and `CountIsOne` (the counter of an entry is 1 exactly while the VM's task is
    in its loop). With two vCPUs `StoppedMeansExited` is false, as the
    counterexample of `lifecycle_vmm_returns` shows.
  - `UniTasksJoinable`, starts, restarts and deletes included (with
    `RemoteVcpu = FALSE`): `UniInv` gives `FreshSetup`.
  - `UniRunningCovered` and `UniVmmReturnsWhenStopped`. `RunningCovered` counts
    the VMs that execute, which is not inductive: a VM that waits to be booted
    will subtract too. `DueCovered` counts instead the tasks that have still to
    go through `sub_running_vm_count`; each step of a task or of the main thread
    changes both sides alike, and the map from these tasks to their VMs covers
    the VMs that execute. When the count is zero there is no such task, and
    `BootedLive` (a VM to be booted is `Stopped` or has a live task) leaves only
    `Stopped`.
  - `UniNotifiedPrimaryAwake`, for guests that neither halt nor power their CPU
    down and `RemoteVcpu = FALSE`: `HomeInv` says that the task of a VM waits
    only in the queue of its own entry, and that a VM just booted is `Running`
    as long as its task waits for that. A halted guest may sleep again before the
    main thread goes on, so the condition is needed.
  - `UniFollowsLifecycle`: the VMM implements `VmStatus`, for guests that do not
    shut down by themselves and an operator who neither deletes nor forces a stop.
    The commands check a status and write another in a later step; `CheckedStatus`
    says that the status they have read is still there. With a guest that shuts
    down it is not (`lifecycle_stale_check`). `UniStoppingBecomesStopped` follows
    from the refinement.

`Ivc_proofs`
: `IvcTypeCorrect`, `IvcUnpublished`, `IvcFrameOwnership`, for all constants and
  all guests. `IvcInv` adds to the types what a hypercall in flight holds
  (`CallsHold`), that a channel in the table has a frame, that a frame has at
  most one owner (`OneOwner`) and that a frame without owner is free
  (`NoLeak`). `TableStep` and `CallStep` treat the two kinds of steps once.
  `IvcNoStaleMapping`, for careful guests: every mapping is accounted for by a
  channel or by a hypercall in flight (`Accounted`); this needs that a VM makes
  one hypercall at a time, that a publish is of a key not in the table, that a
  subscription is recorded between its two steps, and that
  `alloc_ivc_channel` gives out fresh regions (`CarefulParts`).
  `IvcUnpublishKeepsSubscribed` when all guests are careful; `ivc_unpublish`
  shows that it fails otherwise.

`Console_proofs`
: `ConsoleInBounds`, `ConsoleCleanTail`, `ConsoleHistory`, for every buffer size,
  history size and set of bytes. The conjunction is inductive: a recalled
  command fits because the history holds only lines that did. From it follow
  `ConsoleScreen`, that the characters and cursor movements sent after each key
  leave the terminal showing the line, and `ConsoleEditsLine`, that the console
  implements `LineEditor`: the lemmas on `Bytes` say what inserting, deleting and
  recalling in the fixed buffer are on the line as a sequence.
  `QuotedTokens`: tokens of any number and length, over any set of symbols, are
  what `tokenize` returns for the line on which each is typed between quotes.
  `SymbolScanned` and `TokenScanned` say what one quoted symbol and one quoted
  token do to the state of the loop; the theorem is induction over the tokens.

`BlockIo_proofs`
: `BlockIoExact`, for every block size, device and set of partitions whose entries
  cover a block or more. `IoInv` relates the position of a request, with its
  block and offset, to the bytes moved so far, so that each call continues where
  the one before ended, a partial block at either end included.
  `BlockIoAdvances`: each step of a request in range completes it or moves at
  least a byte, the safety half of `IoCompletes`. Both are about `IoSpec`, any
  sequence of requests on a device.

`Rootfs_proofs`
: for every set of disks, partition tables, boot arguments, directories and
  commands. `RootfsInv` says for each phase of the boot what it has established:
  the listed partitions are entries of the disk's table, the root is what
  `find_root_filesystem` makes of the argument (`RootInv`), the names in the mount
  table are distinct (`MountInv`), and the current directory is
  where its path leads (`DirAgrees`).
  - `RootChosen` (`RootAsNamed`): `NamedIsRoot` follows the forms of `root=`
    through the search for a partition. A device path past a slot that is not listed
    is left out, because there the code takes another partition.
  - `MountsFound` (`MountsReachable`): with distinct names the longest prefix of a
    mount point is the mount point itself.
  - `PanicsExplained` (`BootPanics`): `MountStep` says when `mount` fails, and
    `VirtualMounted` that nothing else makes mounting `/proc` and `/sys` fail;
    the partitions mounted before them are followed through their loop
    (`OthersMounted`), in which a file system that does not open panics. With the
    device, the table and the root these are all the panics of the boot.
  - `PathsAgree` (`RelativeIsAbsolute`): `RelativeRoute` says that a lookup below
    a directory is a lookup of the joined path. What a file command does to the
    file systems does not matter, since the lookup reads only the mount table.
  - `RootfsRequests`: the boot implements `IoSpec`, its requests being on the
    entries of the disk's table or on the whole disk. `RootfsIoExact` and
    `RootfsIoAdvances` follow.

  The theorems are about `RootfsSpec`. That `Storage` implements it can be read
  off its `Next`, whose `RunCommand` is `CommandReturns` of a particular result;
  it is no theorem because `FileCommands` has recursive operators, beside which
  nothing can be proved. The `files` run checks the properties on `Storage`.

`PerCpuBoot_proofs`
: `BootSafe`: `NoEarlyUse`, for every number of CPUs and every primary CPU.
  `NoEarlyUse` speaks of cores and the code only counts, so `BootInv` says what
  the counters count: `INITED_CPUS` is the size of the set of CPUs past their
  count (`Barrier`), `CORES` the size of the set of threads that are done
  (`Cores`); and that a thread is in one place, from its pinning on in one of its
  own core (`Places`), so that the threads set up different cores.
  `TimersCorrect`: `TimersExact`, for every number of CPUs, timers and ticks.
  `TimerInv` adds that tokens are unique, so that a cancel finds no other timer,
  that an armed timer is in its list, one that was cancelled elsewhere included,
  and that the time a check has read is not in the future; `BootInv` gives that
  no list is made anew after a registration. Both are about `CoreSpec`, the cores
  and timers with `main` reduced to its program counter (`MainGoesOn`).

`HypervisorBoot_proofs`
: `BootRefinesCores`: the start-up with its guests implements `CoreSpec`, since
  what `main` does about guests is a step of its program counter. So
  `BootNoEarlyUse` and `BootTimersExact` hold of it. `ImagesWhole`, for every
  configuration, host, alignment and size limit: when the device tree was made, a
  guest whose images fit is created without a panic and `BootImagesWhole` holds.
  Each loading puts its image where it is meant to be (`ImageLoaded`,
  `TreeLoaded`, with the tree's address rounded down in `TreePlaced`) and leaves
  the others, whose places are disjoint, alone (`Apart`). `GuestInv` says that the
  guest in `created` is the one `init_guest_vm` makes. The hypothesis
  `TreeMade` says that the tree was made and has as many nodes as the host's
  description asks for; the `boot` run checks `BootImagesWhole` without it on its
  hosts, and that the tree has the right nodes (`GuestHardware`).

Loops over a table, a path or a line are recursive functions in the modules proved
about. What they compute is shown by induction over their rounds: the
values they go through are one function for all loops of a module (`Loop`,
`UnfoldingExists`), and the induction hypothesis is the set of the rounds after
which it holds, because the prover has no induction over formulas.

Assumptions are the `ASSUME`s of the modules: finite non-empty sets, positive
VM ids, a vCPU 0, sizes that are positive, a primary CPU among the CPUs; a table
entry that does not end before it begins (`DisksAssumption`), a file system that
has a root directory, paths made of names (`FilesAssumption`), configurations
with the fields of the code's type (`ConfigsAssumption`). TLC evaluates each of
them on the instances.

Only model-checked: liveness (`VmmReturns`, `BootRuns`, `ResumeWakes`,
`StopCompletes`, `BootCompletes`, `DueTimersFire`, `IoCompletes`), which is
outside the prover's reach; `ParsedAsMeant`, which speaks of each command of a
given tree and of bounded lines; `GuestHardware`, a closure over the phandles of a
tree; and `CopyFaithful`, `MoveKeepsData` and `RemoveComplete`, whose commands walk
directories with recursive operators. `QuotingRoundTrip` is itself about bounded
tokens; `QuotedTokens` states it for all. `CleanupAfterExit` and `StopWakesSuspended` are false of the code.

## Not modelled

Registers of devices and interrupt controllers, drivers, boot assembly, page
tables below `map_region`, allocators, the content of images, the header of a
Linux image, TOML parsing, the flattened encoding of device trees, the FAT, ext4
and RAM file system libraries, file operations the shell does not use (seeking,
truncation, permissions of open files), log output, and the build tools in
`xtask`. Accesses to the unsynchronised map `Queue` are modelled as atomic: a data
race on it has no outcomes to enumerate. The boot delay of `vcpu_run` is a delay only.
