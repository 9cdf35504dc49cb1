----------------------------- MODULE Partitions -----------------------------
(***************************************************************************)
(* Partition discovery of modules/axfs (partition.rs) and the choice of    *)
(* the root partition from the kernel's boot arguments (lib.rs).  A disk   *)
(* is its number of blocks, the GPT entries if it has a table, and what    *)
(* the first sectors at a block address say about a file system.  Names    *)
(* and identifiers are sequences of fragments, upper-cased.                *)
(***************************************************************************)
EXTENDS Integers, Sequences, FiniteSetsExt

CONSTANTS Disks,      \* the disks the system may find: see MCFiles
          SUPER_LAST  \* last block of the ext4 superblock that is read, 5

\* Names are sequences of fragments.  An entry of the table is readable or not.
\* Block addresses are small enough to have byte addresses of 64 bits.
ASSUME DisksAssumption ==
    \A d \in Disks :
      /\ d.blocks \in Nat
      /\ d.gpt \in Seq([read : BOOLEAN, used : BOOLEAN, name : Seq(STRING), guid : Seq(STRING),
                        start_lba : Nat, end_lba : Nat])

None == "None"
NoId == << >>
NotANumber == -1

Supported(p) == p.filesystem_type # None

-----------------------------------------------------------------------------
(* partition.rs                                                            *)

\* Signatures in the boot sector, and the magic number in the superblock, for
\* which read_exact goes SUPER_LAST blocks past the first block.
is_fat_filesystem(disk, start_lba) == disk.fs_at[start_lba].fat
is_ext4_filesystem(disk, start_lba) ==
    start_lba + SUPER_LAST < disk.blocks /\ disk.fs_at[start_lba].ext4

\* FAT is looked for before ext4; a sector that cannot be read shows neither.
detect_filesystem_type(disk, start_lba) ==
    IF start_lba >= disk.blocks \/ start_lba \notin DOMAIN disk.fs_at THEN None
    ELSE IF is_fat_filesystem(disk, start_lba) THEN "Fat"
    ELSE IF is_ext4_filesystem(disk, start_lba) THEN "Ext4"
    ELSE None

\* The UUID of the superblock or the volume id of the boot sector, in hexadecimal.
read_ext4_uuid(disk, start_lba) == disk.fs_at[start_lba].uuid
read_fat32_uuid(disk, start_lba) == disk.fs_at[start_lba].volume_id
read_filesystem_uuid_simple(disk, start_lba, type) ==
    CASE type = "Ext4" -> read_ext4_uuid(disk, start_lba)
      [] type = "Fat" -> read_fat32_uuid(disk, start_lba)
      [] type = None -> NoId

\* An entry that can be read, is in use and has a name becomes a partition; i is
\* the slot of the table.
GptPartition(disk, i) ==
    LET e == disk.gpt[i]
        type == detect_filesystem_type(disk, e.start_lba)
    IN  [index |-> i - 1, name |-> e.name, guid |-> e.guid,
         uuid |-> read_filesystem_uuid_simple(disk, e.start_lba, type),
         start_lba |-> e.start_lba, end_lba |-> e.end_lba, filesystem_type |-> type]

Listed(e) == e.read /\ e.used /\ e.name # << >>

\* The header is at block 1 and carries the signature; entries shorter than
\* 128 bytes are passed over one by one.
ReadEntry(disk, found, i) ==
    IF Listed(disk.gpt[i]) THEN Append(found, GptPartition(disk, i)) ELSE found
ReadEntries(disk, n) ==
    LET found[i \in 0 .. n] == IF i = 0 THEN << >> ELSE ReadEntry(disk, found[i - 1], i)
    IN  found[n]
HasTable(disk) == disk.blocks >= 2 /\ disk.has_gpt /\ disk.gpt_entry_size >= 128
parse_gpt_partitions(disk) ==
    IF HasTable(disk) THEN ReadEntries(disk, Len(disk.gpt)) ELSE << >>

\* ending_lba - starting_lba, of every entry in use, named or not, overflows.
SizeOverflows(disk) ==
    HasTable(disk) /\ \E i \in 1 .. Len(disk.gpt) :
      LET e == disk.gpt[i] IN e.read /\ e.used /\ e.end_lba < e.start_lba

\* Without a table the whole disk is one partition.
WholeDisk(disk) ==
    [index |-> 0, name |-> <<"disk">>, guid |-> <<"0">>, uuid |-> NoId,
     start_lba |-> 0, end_lba |-> disk.blocks,
     filesystem_type |-> detect_filesystem_type(disk, 0)]

scan_gpt_partitions(disk) ==
    IF disk.blocks = 0 THEN << >>
    ELSE IF parse_gpt_partitions(disk) # << >> THEN parse_gpt_partitions(disk)
    ELSE << WholeDisk(disk) >>

-----------------------------------------------------------------------------
(* lib.rs: the root= argument.  /dev/sdaN and /dev/mmcblkXpN count from 1. *)

RootSpec(field, value) == [field |-> field, value |-> value]
NoSpec == RootSpec("none", 0)

\* The number at the end of the path is NotANumber if it does not parse.
parse_device_path(num) == IF num > 0 THEN RootSpec("partition_index", num - 1) ELSE NoSpec
parse_mmcblk_path(num) == IF num > 0 THEN RootSpec("partition_index", num - 1) ELSE NoSpec

parse_root_spec(arg) ==
    CASE arg.form = "/dev/sda" -> parse_device_path(arg.value)
      [] arg.form = "/dev/mmcblk" -> parse_mmcblk_path(arg.value)
      [] arg.form = "PARTUUID=" -> RootSpec("partuuid", arg.value)
      [] arg.form = "UUID=" -> RootSpec("uuid", arg.value)
      [] arg.form = "PARTLABEL=" -> RootSpec("partlabel", arg.value)
      [] OTHER -> NoSpec

\* str::contains.
ContainsStr(s, t) == \E i \in 0 .. Len(s) - Len(t) : SubSeq(s, i + 1, i + Len(t)) = t

\* Mutant: a partition without a supported file system may match.
Matches_Unsupported(p, spec) ==
    CASE spec.field = "partuuid" -> ContainsStr(p.guid, spec.value)
      [] spec.field = "uuid" -> p.uuid # NoId /\ p.uuid = spec.value
      [] spec.field = "partlabel" -> p.name = spec.value
      [] OTHER -> FALSE

Matches(p, spec) ==
    /\ Supported(p)
    /\ CASE spec.field = "partuuid" -> ContainsStr(p.guid, spec.value)
         [] spec.field = "uuid" -> p.uuid # NoId /\ p.uuid = spec.value
         [] spec.field = "partlabel" -> p.name = spec.value
         [] OTHER -> FALSE

\* A search of the partitions, fits the places of those that will do: it ends
\* with the first of them, or with 0.
FirstPart(fits) == IF fits = {} THEN 0 ELSE Min(fits)

find_root_partition(parts, spec) ==
    IF spec.field = "partition_index"
      THEN IF spec.value < Len(parts) THEN spec.value + 1 ELSE 0
      ELSE FirstPart({i \in 1 .. Len(parts) : Matches(parts[i], spec)})

\* root.rs: the partition asked for if its file system is supported, and the
\* first supported one otherwise.
try_use_specified_partition(parts, wanted) ==
    IF wanted # 0 /\ Supported(parts[wanted]) THEN wanted ELSE 0
find_first_supported_partition(parts) ==
    FirstPart({i \in 1 .. Len(parts) : Supported(parts[i])})
find_root_filesystem(parts, wanted) ==
    IF try_use_specified_partition(parts, wanted) # 0 THEN wanted
    ELSE find_first_supported_partition(parts)
=============================================================================
