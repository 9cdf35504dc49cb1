------------------------------- MODULE MCFiles -------------------------------
(***************************************************************************)
(* Small disks, boot arguments and command lines for the storage model.    *)
(***************************************************************************)
EXTENDS Storage

f == <<"f">>
g == <<"g">>
h == <<"h">>
d == <<"d">>
data == <<"d", "ata">>
boot == <<"boot">>

MCData == {"text", "a", "b", Mixed}

\* Contents of file systems: nothing, a file and a directory with two files, and
\* a directory with more entries than the iterator reads at a time.
Nothing == << >> :> Dir
Some == Nothing @@ (<<f>> :> "a") @@ (<<d>> :> Dir) @@ (<<d, f>> :> "b") @@ (<<d, g>> :> EmptyFile)
Many == Some @@ (<<d, h>> :> "a") @@ (<<<<"proc">>>> :> Dir)

Fs(fat, ext4, id, cap, nodes) ==
    [fat |-> fat, ext4 |-> ext4, uuid |-> id, volume_id |-> id, cap |-> cap, nodes |-> nodes,
     opens |-> TRUE, stuck |-> {}]
Ext4(uuid, cap, nodes) == Fs(FALSE, TRUE, uuid, cap, nodes)
Fat(uuid, cap, nodes) == Fs(TRUE, FALSE, uuid, cap, nodes)
Other == Fs(FALSE, FALSE, << >>, 0, << >>)

Entry(name, guid, first, last) ==
    [read |-> TRUE, used |-> TRUE, name |-> name, guid |-> guid, start_lba |-> first, end_lba |-> last]
Hole == [Entry(<<"x">>, <<"9">>, 0, 0) EXCEPT !.used = FALSE]

Disk(blocks, fs_at) ==
    [found |-> TRUE, block_size |-> BLOCK_SIZE, blocks |-> blocks, has_gpt |-> FALSE, gpt |-> << >>,
     gpt_entry_size |-> 128, fs_at |-> fs_at]
Gpt(blocks, gpt, fs_at) == [Disk(blocks, fs_at) EXCEPT !.has_gpt = TRUE, !.gpt = gpt]

Empty == Disk(0, 0 :> Other)
Bare4 == Disk(4, 0 :> Ext4(<<"A">>, 9, Some))
BareFat == Disk(4, 0 :> Fat(<<"A">>, 100, Many))
RootBoot == Gpt(9, <<Entry(<<"root">>, <<"1", "2">>, 2, 4), Entry(boot, <<"1", "3">>, 5, 7)>>,
                (2 :> Ext4(<<"A">>, 100, Some)) @@ (5 :> Fat(<<"B">>, 5, Nothing)))
Prefix == Gpt(9, <<Entry(<<"r">>, <<"1">>, 2, 3), Entry(d, <<"2">>, 4, 5), Entry(data, <<"3">>, 6, 8)>>,
              (2 :> Fat(<<"A">>, 100, Nothing)) @@ (4 :> Ext4(<<"B">>, 6, Nothing @@ (<<f>> :> "a")))
                @@ (6 :> Ext4(<<"C">>, 100, Some)))
Holes == Gpt(9, <<Hole, Entry(<<"r">>, <<"1">>, 2, 3), Entry(<<"x">>, <<"2">>, 4, 5)>>,
             (2 :> Ext4(<<"A">>, 100, Nothing)) @@ (4 :> Ext4(<<"B">>, 100, Nothing)))
Labels == Gpt(9, <<Entry(<<"r">>, <<"1">>, 2, 3), Entry(<<"x">>, <<"2">>, 4, 5), Entry(<<"x">>, <<"3">>, 6, 8)>>,
              (2 :> Ext4(<<"A">>, 100, Nothing)) @@ (4 :> Other) @@ (6 :> Fat(<<"B">>, 100, Nothing)))
ProcLabel == Gpt(9, <<Entry(<<"r">>, <<"1">>, 2, 3), Entry(<<"proc">>, <<"2">>, 4, 5)>>,
                 (2 :> Ext4(<<"A">>, 100, Nothing)) @@ (4 :> Ext4(<<"B">>, 100, Nothing)))
TwoBoots == Gpt(9, <<Entry(boot, <<"1">>, 2, 3), Entry(<<"r">>, <<"2">>, 4, 5), Entry(<<"efi-", "boot">>, <<"3">>, 6, 8)>>,
                (2 :> Fat(<<"A">>, 100, Nothing)) @@ (4 :> Ext4(<<"B">>, 100, Nothing))
                  @@ (6 :> Fat(<<"C">>, 100, Nothing)))
Unknown == Gpt(9, <<Entry(<<"x">>, <<"1">>, 2, 3), Entry(<<"y">>, <<"2">>, 8, 8)>>,
               (2 :> Other) @@ (8 :> Ext4(<<"A">>, 9, Nothing)))
Short == [RootBoot EXCEPT !.gpt_entry_size = 64]

NoDevice == [Empty EXCEPT !.found = FALSE]
LargeBlocks == [Bare4 EXCEPT !.block_size = 2 * BLOCK_SIZE]
Reversed == [RootBoot EXCEPT !.gpt[2].end_lba = 4]
Unreadable == [Prefix EXCEPT !.gpt[1].read = FALSE]
Broken(b) == [RootBoot EXCEPT !.fs_at[b].opens = FALSE]
Damaged == [RootBoot EXCEPT !.fs_at[2].stuck = {<<f>>, <<d, g>>},
                            !.fs_at[5] = [Ext4(<<"B">>, 12, Some) EXCEPT !.stuck = {<<f>>}]]
DamagedFat == [BareFat EXCEPT !.fs_at[0].stuck = {<<f>>, <<d, f>>}]

MCDisks == {Empty, Bare4, BareFat, RootBoot, Prefix, Holes, Labels, ProcLabel, TwoBoots, Unknown, Short,
            NoDevice, LargeBlocks, Reversed, Unreadable, Broken(2), Broken(5), Damaged, DamagedFat}

MCBootArgs ==
    {NoArg, [form |-> "/dev/sda", value |-> NotANumber], [form |-> "/dev/sda", value |-> 0],
     [form |-> "/dev/mmcblk", value |-> 2], [form |-> "/dev/sda", value |-> 4],
     [form |-> "PARTUUID=", value |-> <<"3">>], [form |-> "UUID=", value |-> <<"B">>],
     [form |-> "PARTLABEL=", value |-> <<"x">>], [form |-> "PARTLABEL=", value |-> <<"y">>]}

Rel(comps) == Path(FALSE, comps)
Abs(comps) == Path(TRUE, comps)
Cmd(name, flags, args) == [name |-> name, flags |-> flags, args |-> args, text |-> "b"]

Slash(p) == [p EXCEPT !.slash = TRUE]

MCCommands ==
    {Cmd("ls", {}, << >>), Cmd("ls", {}, <<Rel(<<d>>), Slash(Rel(<<f>>))>>), Cmd("cat", {}, <<Rel(<<f>>), Rel(<<d>>)>>),
     Cmd("echo", {}, <<Rel(<<g>>)>>), Cmd("echo", {}, <<Abs(<<boot, f>>)>>),
     Cmd("mkdir", {}, <<Rel(<<h>>), Abs(<<boot, d>>)>>), Cmd("mkdir", {"parents"}, <<Rel(<<d, h>>)>>),
     Cmd("touch", {}, <<Rel(<<d, h>>), Slash(Rel(<<f>>))>>),
     Cmd("rm", {}, <<Rel(<<f>>), Rel(<<d>>)>>), Cmd("rm", {"dir"}, <<Rel(<<h>>)>>),
     Cmd("rm", {"recursive"}, <<Rel(<<d>>)>>), Cmd("rm", {"recursive", "force"}, <<Abs(<<data>>), Rel(<<h>>)>>),
     Cmd("cp", {}, <<Rel(<<f>>), Rel(<<g>>)>>), Cmd("cp", {"recursive"}, <<Rel(<<d>>), Rel(<<h>>)>>),
     Cmd("cp", {"recursive"}, <<Abs(<<d>>), Abs(<<boot, h>>)>>), Cmd("cp", {}, <<Rel(<<d>>), Rel(<<h>>)>>),
     Cmd("cp", {}, <<Rel(<<f>>)>>),
     Cmd("mv", {}, <<Rel(<<f>>), Rel(<<g>>)>>), Cmd("mv", {}, <<Rel(<<f>>), Rel(<<d>>)>>),
     Cmd("mv", {}, <<Rel(<<d>>), Rel(<<h>>)>>), Cmd("mv", {}, <<Abs(<<d, f>>), Abs(<<boot, f>>)>>),
     Cmd("mv", {}, <<Rel(<<f>>), Abs(<<h>>)>>), Cmd("mv", {}, <<Abs(<<d>>), Abs(<<boot, g>>)>>),
     Cmd("mv", {}, <<Rel(<<d>>), Rel(<<f>>), Rel(<<h>>)>>), Cmd("mv", {}, <<Rel(<<d>>), Rel(<<h>>), Rel(<<h>>)>>)}

MCDirs == {Abs(<< >>), Rel(<<d>>), Abs(<<boot>>), Abs(<<data>>), Rel(<<<<"..">>, d>>)}
=============================================================================
