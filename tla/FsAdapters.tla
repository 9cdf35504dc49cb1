------------------------------ MODULE FsAdapters ------------------------------
(***************************************************************************)
(* The file systems of modules/axfs as the adapters of their libraries     *)
(* show them: fs/ext4fs.rs, fs/fatfs.rs and the RAM file system, which is  *)
(* a library of its own.  A file system maps the paths it holds to Dir or  *)
(* to the contents of a file; cap bounds its entries and written files,    *)
(* and stuck are the paths that its library fails to remove or to truncate *)
(* (a damaged entry, an error of the device).                              *)
(* An operation takes the file systems F and returns them with an error    *)
(* code, [F, err].  A node n is a path of one file system.                 *)
(***************************************************************************)
EXTENDS Integers, Sequences, FiniteSetsExt

CONSTANTS Data,       \* contents of a file that is not empty
          DIRENT_BUF  \* entries the iterator ReadDir reads at a time, 31

Ok == "Ok"
Dir == "dir"
EmptyFile == "empty"
Mixed == "mixed"  \* new contents, and after them the end of the old ones

Ret(F, err) == [F |-> F, err |-> err]

\* `?': what follows happens only without an error.
Then(r, Op(_)) == IF r.err # Ok THEN r ELSE Op(r.F)
Check(F, err, Op(_)) == Then(Ret(F, err), Op)
\* The first error of two.
OrElse(err, next) == IF err # Ok THEN err ELSE next
Node(fs, path) == [root |-> FALSE, fs |-> fs, path |-> path]

\* str::starts_with, on paths too, and the path of the directory a path is in.
Begins(s, t) == Len(s) <= Len(t) /\ SubSeq(t, 1, Len(s)) = s
Parent(path) == SubSeq(path, 1, Len(path) - 1)

Exists(F, n) == n.path \in DOMAIN F[n.fs].nodes
IsDir(F, n) == Exists(F, n) /\ F[n.fs].nodes[n.path] = Dir
Below(F, n) == {q \in DOMAIN F[n.fs].nodes : Begins(n.path, q)}
Kind(F, n) == F[n.fs].kind
Stuck(F, n) == n.path \in F[n.fs].stuck
IsFull(F, fs) ==
    LET t == F[fs].nodes
    IN  Cardinality(DOMAIN t) + Cardinality({q \in DOMAIN t : t[q] \in Data}) > F[fs].cap

Put(F, n, content) ==
    [F EXCEPT ![n.fs].nodes = [q \in DOMAIN @ \cup {n.path} |->
                                 IF q = n.path THEN content ELSE @[q]]]
Drop(F, n, gone) ==
    [F EXCEPT ![n.fs].nodes = [q \in DOMAIN @ \ gone |-> @[q]]]

ParentIsDir(F, n) == n.path # << >> /\ IsDir(F, Node(n.fs, Parent(n.path)))

-----------------------------------------------------------------------------
(* get_attr: every node of ext4 and FAT has 0o755, files of the RAM file   *)
(* system have 0o666.                                                      *)

ext4_perm == {"r", "w", "x"}
fat_perm == {"r", "w", "x"}
ram_perm(F, n) == IF IsDir(F, n) THEN {"r", "w", "x"} ELSE {"r", "w"}
Perm(F, n) == CASE Kind(F, n) = "ext4" -> ext4_perm
                [] Kind(F, n) = "fat" -> fat_perm
                [] Kind(F, n) = "ram" -> ram_perm(F, n)

-----------------------------------------------------------------------------
(* lookup: a RAM file system descends from node to node.                   *)

ThroughFile(F, n) ==
    \E i \in 1 .. Len(n.path) - 1 :
      LET up == Node(n.fs, SubSeq(n.path, 1, i)) IN Exists(F, up) /\ ~IsDir(F, up)

ext4_lookup(F, n) == IF Exists(F, n) THEN Ok ELSE "NotFound"
fat_lookup(F, n) == IF Exists(F, n) THEN Ok ELSE "NotFound"
ram_lookup(F, n) ==
    IF Exists(F, n) THEN Ok ELSE IF ThroughFile(F, n) THEN "NotADirectory" ELSE "NotFound"
fs_lookup(F, n) == CASE Kind(F, n) = "ext4" -> ext4_lookup(F, n)
                     [] Kind(F, n) = "fat" -> fat_lookup(F, n)
                     [] Kind(F, n) = "ram" -> ram_lookup(F, n)

-----------------------------------------------------------------------------
(* create: the ext4 adapter does not look at what mkdir and mkfile return. *)

\* What a library answers for a node that is not there.
Refusal(F, n) == IF ~ParentIsDir(F, n) THEN "NotFound"
                 ELSE IF IsFull(F, n.fs) THEN "StorageFull" ELSE Ok
Created(F, n, content) ==
    IF ~Exists(F, n) /\ Refusal(F, n) = Ok THEN Put(F, n, content) ELSE F

ext4_create(F, n, content) == Ret(Created(F, n, content), Ok)
fat_create(F, n, content) ==
    Ret(Created(F, n, content),
        IF n.path = << >> THEN Ok
        ELSE IF ~Exists(F, n) THEN Refusal(F, n)
        ELSE IF IsDir(F, n) = (content = Dir) THEN Ok ELSE "InvalidInput")
ram_create(F, n, content) ==
    Ret(Created(F, n, content), IF n.path = << >> THEN Ok
                                ELSE IF Exists(F, n) THEN "AlreadyExists" ELSE Refusal(F, n))
fs_create(F, n, content) == CASE Kind(F, n) = "ext4" -> ext4_create(F, n, content)
                              [] Kind(F, n) = "fat" -> fat_create(F, n, content)
                              [] Kind(F, n) = "ram" -> ram_create(F, n, content)

-----------------------------------------------------------------------------
(* remove: ext4 deletes a directory with what it holds, the others only an *)
(* empty one.  The ext4 adapter does not look at what delete_dir and       *)
(* unlink return.                                                          *)

\* What cannot be removed stays, with the directories it is in.
Staying(F, n) ==
    {q \in Below(F, n) : \E r \in Below(F, n) : r \in F[n.fs].stuck /\ Begins(q, r)}
ext4_remove(F, n) ==
    IF Exists(F, n) THEN Ret(Drop(F, n, Below(F, n) \ Staying(F, n)), Ok) ELSE Ret(F, "NotFound")

\* Mutant: what the library says about the removal is not looked at.
fat_remove_Ignored(F, n) ==
    IF Exists(F, n) /\ Below(F, n) = {n.path} /\ ~Stuck(F, n) THEN Ret(Drop(F, n, {n.path}), Ok)
    ELSE Ret(F, Ok)

fat_remove(F, n) ==
    IF ~Exists(F, n) THEN Ret(F, "NotFound")
    ELSE IF Stuck(F, n) THEN Ret(F, "Io")
    ELSE IF Below(F, n) # {n.path} THEN Ret(F, "DirectoryNotEmpty")
    ELSE Ret(Drop(F, n, {n.path}), Ok)
ram_remove(F, n) ==
    IF ~Exists(F, n) THEN Ret(F, "NotFound")
    ELSE IF Below(F, n) # {n.path} THEN Ret(F, "DirectoryNotEmpty")
    ELSE Ret(Drop(F, n, {n.path}), Ok)
fs_remove(F, n) == CASE Kind(F, n) = "ext4" -> ext4_remove(F, n)
                     [] Kind(F, n) = "fat" -> fat_remove(F, n)
                     [] Kind(F, n) = "ram" -> ram_remove(F, n)

-----------------------------------------------------------------------------
(* rename, below a directory.  The ext4 adapter does not look at what mv   *)
(* returns, and a RAM file system has the default of VfsNodeOps.           *)

\* The tree with everything below src put below dst.
Moved(F, src, dst) ==
    LET t == F[src.fs].nodes
        new == {dst.path \o SubSeq(q, Len(src.path) + 1, Len(q)) : q \in Below(F, src)}
        old(q) == src.path \o SubSeq(q, Len(dst.path) + 1, Len(q))
    IN  [F EXCEPT ![src.fs].nodes = [q \in (DOMAIN t \ Below(F, src)) \cup new |->
                                       IF q \in new THEN t[old(q)] ELSE t[q]]]
MoveRefusal(F, src, dst) ==
    IF ~Exists(F, src) \/ ~ParentIsDir(F, dst) THEN "NotFound"
    ELSE IF Exists(F, dst) THEN "AlreadyExists"
    ELSE IF Begins(src.path, dst.path) THEN "InvalidInput" ELSE Ok
Renamed(F, src, dst) == IF MoveRefusal(F, src, dst) = Ok THEN Moved(F, src, dst) ELSE F

ext4_rename(F, src, dst) == Ret(Renamed(F, src, dst), Ok)
fat_rename(F, src, dst) == Ret(Renamed(F, src, dst), MoveRefusal(F, src, dst))
fs_rename(F, src, dst) == CASE Kind(F, src) = "ext4" -> ext4_rename(F, src, dst)
                            [] Kind(F, src) = "fat" -> fat_rename(F, src, dst)
                            [] Kind(F, src) = "ram" -> Ret(F, "Unsupported")

-----------------------------------------------------------------------------
(* Contents: a file is read, and after a truncation written, as a whole.   *)
(* If the truncation failed, the end of the old contents is still there.   *)

ext4_read(F, n) == F[n.fs].nodes[n.path]
fat_read(F, n) == F[n.fs].nodes[n.path]
ram_read(F, n) == F[n.fs].nodes[n.path]
fs_read(F, n) == CASE Kind(F, n) = "ext4" -> ext4_read(F, n)
                   [] Kind(F, n) = "fat" -> fat_read(F, n)
                   [] Kind(F, n) = "ram" -> ram_read(F, n)

Overwritten(F, n, content) ==
    IF F[n.fs].nodes[n.path] \in {EmptyFile, content} THEN content ELSE Mixed
NoRoom(F, n, content) == content \in Data /\ IsFull(F, n.fs)

ext4_write(F, n, content) ==
    IF NoRoom(F, n, content) THEN Ret(F, "Io")
    ELSE Ret(Put(F, n, Overwritten(F, n, content)), Ok)
fat_write(F, n, content) ==
    IF NoRoom(F, n, content) THEN Ret(F, "StorageFull") ELSE Ret(Put(F, n, content), Ok)
ram_write(F, n, content) == Ret(Put(F, n, content), Ok)
fs_write(F, n, content) == CASE Kind(F, n) = "ext4" -> ext4_write(F, n, content)
                             [] Kind(F, n) = "fat" -> fat_write(F, n, content)
                             [] Kind(F, n) = "ram" -> ram_write(F, n, content)

\* truncate(0): the ext4 adapter drops the result.
ext4_truncate(F, n) == Ret(IF Stuck(F, n) THEN F ELSE Put(F, n, EmptyFile), Ok)
fat_truncate(F, n) == IF Stuck(F, n) THEN Ret(F, "Io") ELSE Ret(Put(F, n, EmptyFile), Ok)
fs_truncate(F, n) == CASE Kind(F, n) = "ext4" -> ext4_truncate(F, n)
                       [] Kind(F, n) = "fat" -> fat_truncate(F, n)
                       [] Kind(F, n) = "ram" -> ram_write(F, n, EmptyFile)

-----------------------------------------------------------------------------
(* read_dir, in a fixed order of the names.  A FAT directory below the     *)
(* root begins with "." and "..", the ext4 adapter takes them out.         *)

Dots == <<<<".">>, <<"..">>>>
Children(F, n) ==
    LET names == {q[Len(q)] : q \in {r \in Below(F, n) : Len(r) = Len(n.path) + 1}}
    IN  CHOOSE s \in [1 .. Cardinality(names) -> names] : IsInjective(s)
ext4_entries(F, n) == Children(F, n)
fat_entries(F, n) == IF n.path = << >> THEN Children(F, n) ELSE Dots \o Children(F, n)
ram_entries(F, n) == Dots \o Children(F, n)
fs_entries(F, n) == CASE Kind(F, n) = "ext4" -> ext4_entries(F, n)
                      [] Kind(F, n) = "fat" -> fat_entries(F, n)
                      [] Kind(F, n) = "ram" -> ram_entries(F, n)

\* The entries from start on, at most DIRENT_BUF of them.
fs_read_dir(F, n, start) ==
    LET all == fs_entries(F, n)
    IN  SubSeq(all, start + 1, Min({start + DIRENT_BUF, Len(all)}))
=============================================================================
