------------------------------- MODULE Rootfs -------------------------------
(***************************************************************************)
(* The file systems from power-on to the shell: init_filesystems of        *)
(* modules/axfs scans the disk, reads it, chooses the root file system and *)
(* mounts the others; the shell then changes its directory and runs file   *)
(* commands, of which this module knows only that they return some file    *)
(* systems and an error.                                                   *)
(***************************************************************************)
EXTENDS Partitions, BlockIo, Vfs

CONSTANTS BootArgs,  \* the root= arguments
          Commands,  \* the command lines the shell is given
          Dirs,      \* the arguments of cd
          MaxCmds    \* a bound on the commands that are run

\* A file system that is found has a root directory; /dev/sdaN has a number; and
\* paths are made of names.
ASSUME FilesAssumption ==
    /\ \A d \in Disks : \A b \in DOMAIN d.fs_at :
         d.fs_at[b].fat \/ d.fs_at[b].ext4 =>
           << >> \in DOMAIN d.fs_at[b].nodes /\ d.fs_at[b].nodes[<< >>] = Dir
    /\ \A a \in BootArgs : a.form \in {"/dev/sda", "/dev/mmcblk"} => a.value \in Int
    /\ \A p \in Dirs : p.comps \in Seq(Seq(STRING))
    /\ \A c \in Commands : \A i \in 1 .. Len(c.args) : c.args[i].comps \in Seq(Seq(STRING))

VARIABLES phase, disk, arg, parts, cmds

bootVars == <<disk, arg, parts>>
fsVars == <<fss, main, mounts, cwd>>
vars == <<phase, bootVars, cmds, ioVars, fsVars>>

PartFs(i) == <<"part", i>>
Proc == <<"proc", 0>>
Sys == <<"sys", 0>>
Ram == <<"ram", 0>>

NoArg == [form |-> ""]
NoDisk == [blocks |-> 0]

Init ==
    /\ phase = "scan"
    /\ disk \in Disks
    /\ arg = NoArg
    /\ parts = << >>
    /\ dev = [b \in 1 .. disk.blocks * BLOCK_SIZE |-> Old(b)]
    /\ io = Idle
    /\ fss = << >> /\ main = Ram /\ mounts = << >>
    /\ cwd = [node |-> Node(Ram, << >>), path |-> << >>]
    /\ cmds = 0

-----------------------------------------------------------------------------
(* init_filesystems.                                                       *)

\* take_one() finds a block device, and Disk::new one with blocks of BLOCK_SIZE.
DiskUsable == disk.found /\ disk.block_size = BLOCK_SIZE

\* No such device, or a size that a build with overflow checks cannot compute.
ScanPanics ==
    /\ phase = "scan" /\ (~DiskUsable \/ SizeOverflows(disk))
    /\ phase' = "panic"
    /\ UNCHANGED <<bootVars, cmds, ioVars, fsVars>>

\* initialize_with_partitions goes on only if some file system is supported.
ScanDisk ==
    /\ phase = "scan" /\ DiskUsable /\ ~SizeOverflows(disk)
    /\ parts' = scan_gpt_partitions(disk)
    /\ phase' = IF parts' = << >> THEN "ramfs"
                ELSE IF find_first_supported_partition(parts') = 0 THEN "noroot" ELSE "probe"
    /\ UNCHANGED <<disk, arg, cmds, ioVars, fsVars>>

\* Requests of up to two blocks, of the library that owns the partition or of
\* the scan, the ones across the end of the partition included.
Requests(i) ==
    LET p == parts[i]
        ops == {"read", "write"}
    IN  {ScanRequest(pos, n) : pos \in 0 .. BLOCK_SIZE, n \in {1, BLOCK_SIZE, 2 * BLOCK_SIZE + 1}}
        \cup CASE p.filesystem_type = "Ext4" ->
                    {Ext4Request(p, op, b, n) : op \in ops, b \in 0 .. total_blocks(p), n \in 1 .. 2}
               [] p.filesystem_type = "Fat" ->
                    {FatRequest(p, op, pos, n) :
                       op \in ops, pos \in 0 .. size(p), n \in {1, BLOCK_SIZE + 1}}
               [] OTHER -> {}

\* The reads and writes made while file systems are opened, one of them.
Probe ==
    /\ phase = "probe"
    /\ \E i \in 1 .. Len(parts) : \E r \in Requests(i) : Start(r)
    /\ phase' = "io"
    /\ UNCHANGED <<bootVars, cmds, fsVars>>

BlockStep ==
    /\ phase = "io"
    /\ IoStep
    /\ UNCHANGED <<phase, bootVars, cmds, fsVars>>

\* procfs and sysfs of mounts.rs.
Tree(dirs, files, data) ==
    [q \in dirs \cup files |-> IF q \in dirs THEN Dir ELSE IF q \in data THEN "text" ELSE EmptyFile]
Chain(names) == {[j \in 1 .. k |-> <<names[j]>>] : k \in 0 .. Len(names)}
File(names) == [j \in 1 .. Len(names) |-> <<names[j]>>]
procfs ==
    LET data == {File(<<"sys", "net", "core", "somaxconn">>),
                 File(<<"sys", "vm", "overcommit_memory">>)}
    IN  Tree(Chain(<<"sys", "net", "core">>) \cup Chain(<<"sys", "vm">>) \cup Chain(<<"self">>),
             data \cup {File(<<"self", "stat">>)}, data)
sysfs ==
    LET data == {File(<<"kernel", "mm", "transparent_hugepage", "enabled">>),
                 File(<<"devices", "system", "clocksource", "clocksource0", "current_clocksource">>)}
    IN  Tree(Chain(<<"kernel", "mm", "transparent_hugepage">>)
               \cup Chain(<<"devices", "system", "clocksource", "clocksource0">>), data, data)

RamFs(nodes) == [kind |-> "ram", cap |-> 100, nodes |-> nodes, stuck |-> {}]
WithVirtualFs(F) ==
    [fs \in DOMAIN F \cup {Proc, Sys} |->
       CASE fs = Proc -> RamFs(procfs) [] fs = Sys -> RamFs(sysfs) [] OTHER -> F[fs]]

\* create_filesystem_for_partition: the library may refuse a file system whose
\* signature was found, and the boot panics then.
Opens(p) == disk.fs_at[p.start_lba].opens
Unopened == "Unopened"
PartitionFs(p) ==
    [kind |-> IF p.filesystem_type = "Fat" THEN "fat" ELSE "ext4",
     cap |-> disk.fs_at[p.start_lba].cap, nodes |-> disk.fs_at[p.start_lba].nodes,
     stuck |-> disk.fs_at[p.start_lba].stuck]

\* The mount point is made if it is not there, and must be there then.
MountAt(S, made, at, name, fs) ==
    IF made.err # Ok THEN [S EXCEPT !.err = made.err]
    ELSE IF ~Exists(made.F, at) THEN [S EXCEPT !.F = made.F, !.err = "NotFound"]
    ELSE [S EXCEPT !.F = made.F, !.mounts = Append(@, [name |-> name, fs |-> fs]), !.err = Ok]
MakeAndMount(S, at, name, fs) == MountAt(S, fs_create(S.F, at, Dir), at, name, fs)

\* Mutant: the mount point must not be there yet.
mount_Fresh(S, name, fs) ==
    IF Exists(S.F, Node(S.main, <<name>>)) THEN [S EXCEPT !.err = "InvalidInput"]
    ELSE MakeAndMount(S, Node(S.main, <<name>>), name, fs)

\* RootDirectory::mount on the file systems and mount table of S.
mount(S, name, fs) ==
    IF \E i \in 1 .. Len(S.mounts) : S.mounts[i].name = name THEN [S EXCEPT !.err = "InvalidInput"]
    ELSE MakeAndMount(S, Node(S.main, <<name>>), name, fs)

MountName(p) == IF ContainsStr(p.name, <<"boot">>) THEN <<"boot">> ELSE p.name

MountIn(S, made, name, fs) == IF made.err # Ok THEN S ELSE mount([S EXCEPT !.F = made.F], name, fs)
MountNamed(S, name, fs) == MountIn(S, fs_create(S.F, Node(S.main, <<name>>), Dir), name, fs)
mount_single_partition(S, i) ==
    IF Opens(parts[i]) THEN MountNamed(S, MountName(parts[i]), PartFs(i))
    ELSE [S EXCEPT !.err = Unopened]

\* mount_additional_partitions makes /boot, whether or not it is used.
MountOther(root, S, i) ==
    IF S.err # Unopened /\ i # root /\ Supported(parts[i]) THEN mount_single_partition(S, i)
    ELSE S
MakeBoot(S) == [S EXCEPT !.F = fs_create(S.F, Node(S.main, <<<<"boot">>>>), Dir).F]
mount_additional_partitions(S, root) ==
    LET T[i \in 0 .. Len(parts)] == IF i = 0 THEN MakeBoot(S) ELSE MountOther(root, T[i - 1], i)
    IN  T[Len(parts)]

\* mount_virtual_fs panics if /proc or /sys cannot be mounted.
mount_sys(S) == IF S.err # Ok THEN S ELSE mount(S, <<"sys">>, Sys)
mount_virtual_fs(S) == IF S.err = Unopened THEN S ELSE mount_sys(mount(S, <<"proc">>, Proc))

\* The end of init_rootfs_with_partitions and of init_rootfs_with_ramfs.
RootIs(S) ==
    /\ phase' = IF S.err = Ok THEN "mounted" ELSE "panic"
    /\ fss' = S.F /\ main' = S.main /\ mounts' = S.mounts
    /\ cwd' = [node |-> [root |-> TRUE, fs |-> S.main, path |-> << >>], path |-> << >>]
    /\ io' = Idle /\ dev' = << >>
    /\ UNCHANGED <<disk, parts, cmds>>
Mounted(S) == RootIs(mount_virtual_fs(S))

Bare(F, fs) == [F |-> WithVirtualFs(F), main |-> fs, mounts |-> << >>, err |-> Ok]

\* initialize_with_partitions and init_rootfs_with_partitions: the partition the
\* boot arguments ask for, if there is such a one, becomes the root.
init_rootfs_with_partitions ==
    /\ phase = "io" /\ ~Busy
    /\ arg' \in BootArgs
    /\ LET root == find_root_filesystem(parts, find_root_partition(parts, parse_root_spec(arg')))
           ids == {i \in 1 .. Len(parts) : Supported(parts[i])}
           F == [fs \in {PartFs(i) : i \in ids} |-> PartitionFs(parts[fs[2]])]
           S == Bare(F, PartFs(root))
       IN  IF Opens(parts[root]) THEN Mounted(mount_additional_partitions(S, root))
           ELSE RootIs([S EXCEPT !.err = Unopened])

init_rootfs_with_ramfs ==
    /\ phase = "ramfs"
    /\ UNCHANGED arg
    /\ Mounted(Bare([fs \in {Ram} |-> RamFs([q \in {<< >>} |-> Dir])], Ram))

\* init_filesystems returns, and the table and the boot arguments are gone.
StartShell ==
    /\ phase = "mounted"
    /\ phase' = "shell"
    /\ disk' = NoDisk /\ arg' = NoArg /\ parts' = << >>
    /\ UNCHANGED <<cmds, ioVars, fsVars>>

-----------------------------------------------------------------------------
(* The shell.                                                              *)

\* A command has run: it leaves the file systems r.F, and ends with r.err.
CommandReturns(r) ==
    /\ phase = "shell" /\ cmds < MaxCmds
    /\ fss' = r.F
    /\ phase' = IF r.err = "Panic" THEN "panic" ELSE phase
    /\ cmds' = cmds + 1
    /\ UNCHANGED <<bootVars, ioVars, main, mounts, cwd>>

do_cd(p) ==
    /\ phase = "shell"
    /\ IF CanEnter(fss, p) THEN SetCurrentDir(p) ELSE UNCHANGED cwd
    /\ UNCHANGED <<phase, bootVars, cmds, ioVars, fss, main, mounts>>

\* After a panic, or without a root file system, nothing more happens here.
Stopped == phase \in {"panic", "noroot"} /\ UNCHANGED vars

RootfsStep ==
    \/ ScanPanics \/ ScanDisk \/ Probe \/ BlockStep
    \/ init_rootfs_with_partitions \/ init_rootfs_with_ramfs \/ StartShell
    \/ \E p \in Dirs : do_cd(p)
    \/ Stopped

\* With commands that may leave any file systems behind.
RootfsSpec == Init /\ [][RootfsStep \/ \E r : CommandReturns(r)]_vars

-----------------------------------------------------------------------------
(* Properties of the boot.                                                 *)

\* The partition that root= names: /dev/sdaN is slot N of the table, and an
\* identifier is the one of a partition with a supported file system.
Named(p) ==
    CASE arg.form \in {"/dev/sda", "/dev/mmcblk"} -> p.index + 1 = arg.value
      [] arg.form = "PARTUUID=" -> ContainsStr(p.guid, arg.value)
      [] arg.form = "UUID=" -> p.uuid # NoId /\ p.uuid = arg.value
      [] arg.form = "PARTLABEL=" -> p.name = arg.value
      [] OTHER -> FALSE

\* The slots up to the one a device path names are listed, all of them: in use,
\* named and readable.
NoHole ==
    arg.form \in {"/dev/sda", "/dev/mmcblk"} =>
      \A i \in 1 .. Len(parts) : parts[i].index + 1 <= arg.value => parts[i].index = i - 1

\* When some partition with a supported file system is the one root= names, the
\* root file system is on such a partition.  The number in /dev/sdaN counts the
\* listed partitions, so a device path must not be past a hole of the table.
RootAsNamed ==
    (phase = "mounted" /\ NoHole /\ \E i \in 1 .. Len(parts) : Supported(parts[i]) /\ Named(parts[i]))
      => Named(parts[main[2]])

\* Every mounted file system is what a lookup of its mount point finds: no two
\* share a directory, and none is hidden by another with a shorter name.
MountsReachable ==
    phase \in {"mounted", "shell"} =>
      \A i \in 1 .. Len(mounts) : Route(<<mounts[i].name>>) = Node(mounts[i].fs, << >>)

\* Booting panics only if there is no block device with blocks of 512 bytes, if
\* an entry of the table ends before it starts, if a file system that was found
\* does not open, if a partition takes the name of a virtual file system, or if
\* the root file system has no room for their mount points.
BootPanics ==
    (phase = "panic" /\ disk # NoDisk) =>
      \/ ~DiskUsable \/ SizeOverflows(disk)
      \/ \E i \in 1 .. Len(parts) : Supported(parts[i]) /\ ~Opens(parts[i])
      \/ \E i \in 1 .. Len(parts) : MountName(parts[i]) \in {<<"proc">>, <<"sys">>}
      \/ IsFull(fss, main)
      \/ \E name \in {<<"proc">>, <<"sys">>} :
           Exists(fss, Node(main, <<name>>)) /\ ~IsDir(fss, Node(main, <<name>>))

-----------------------------------------------------------------------------
(* The shell's paths.                                                      *)

InShell == phase = "shell"

\* A relative path names the same node as the absolute path that the current
\* directory's path and it make: CURRENT_DIR and CURRENT_DIR_PATH agree, mount
\* points included.
RelativeIsAbsolute ==
    InShell => \A c \in Commands : \A i \in 1 .. Len(c.args) :
      LET p == c.args[i]
      IN  ~p.abs => Target(p) = Route(cwd.path \o p.comps)
=============================================================================
