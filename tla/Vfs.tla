--------------------------------- MODULE Vfs ---------------------------------
(***************************************************************************)
(* The file system layer of modules/axfs: the root directory with its      *)
(* mount table and the current directory (root.rs), and the opening of     *)
(* files (fops.rs).  A name is a sequence of fragments, so that one name   *)
(* can begin another; a path has the components between its slashes.       *)
(***************************************************************************)
EXTENDS FsAdapters

VARIABLES fss,     \* the file systems: [kind, cap, nodes]
          main,    \* the file system mounted at /
          mounts,  \* the mount table: a sequence of [name, fs]
          cwd      \* CURRENT_DIR and CURRENT_DIR_PATH: [node, path]

\* The root directory itself, which is a node of no file system.
ROOT_DIR == [root |-> TRUE, fs |-> main, path |-> << >>]

\* A path as it is written: absolute or not, and with a slash at its end or not.
Path(abs, comps) == [abs |-> abs, comps |-> comps, slash |-> FALSE]
Join(p, name) == Path(p.abs, Append(p.comps, name))

-----------------------------------------------------------------------------
(* root.rs: RootDirectory.                                                 *)

\* Mutant: any mount point whose name begins the path may serve it.
find_best_mount_Any(comps) ==
    LET fits == {i \in 1 .. Len(mounts) : comps # << >> /\ Begins(mounts[i].name, comps[1])}
    IN  IF fits = {} THEN 0 ELSE Min(fits)

Longest(fits) ==
    IF fits = {} THEN 0
    ELSE CHOOSE i \in fits : \A j \in fits : Len(mounts[j].name) <= Len(mounts[i].name)

\* The longest mount point that the path begins with, compared as strings.
find_best_mount(comps) ==
    Longest({i \in 1 .. Len(mounts) : comps # << >> /\ Begins(mounts[i].name, comps[1])})

\* The path without the mount point it begins with.
Rest(comps, name) ==
    LET rest == SubSeq(comps[1], Len(name) + 1, Len(comps[1]))
    IN  IF rest = << >> THEN Tail(comps) ELSE <<rest>> \o Tail(comps)

\* lookup_mounted_fs: the file system and the rest of the path.
RouteBy(comps, i) ==
    IF i = 0 THEN Node(main, comps) ELSE Node(mounts[i].fs, Rest(comps, mounts[i].name))
Route(comps) == RouteBy(comps, find_best_mount(comps))

parent_node_of(p) == IF p.abs THEN ROOT_DIR ELSE cwd.node
From(dir, comps) == IF dir.root THEN Route(comps) ELSE Node(dir.fs, dir.path \o comps)
Target(p) == From(parent_node_of(p), p.comps)

\* RootDirectory::create and remove: the empty rest is a mount point or /.
node_create(F, p, content) ==
    IF parent_node_of(p).root /\ Target(p).path = << >> THEN Ret(F, Ok)
    ELSE fs_create(F, Target(p), content)
node_remove(F, p) ==
    IF parent_node_of(p).root /\ Target(p).path = << >> THEN Ret(F, "PermissionDenied")
    ELSE fs_remove(F, Target(p))

\* CURRENT_DIR_PATH with the path appended, canonicalized.
PushComponent(path, c) ==
    IF c # <<"..">> THEN Append(path, c) ELSE IF path = << >> THEN path ELSE Parent(path)
canonicalize(comps) ==
    LET path[n \in 0 .. Len(comps)] == IF n = 0 THEN << >> ELSE PushComponent(path[n - 1], comps[n])
    IN  path[Len(comps)]
absolute_path(p) == canonicalize(IF p.abs THEN p.comps ELSE cwd.path \o p.comps)

is_mount_point(comps) == Len(comps) = 1 /\ \E i \in 1 .. Len(mounts) : mounts[i].name = comps[1]

lookup_node(F, n, slash) ==
    OrElse(fs_lookup(F, n), IF slash /\ ~IsDir(F, n) THEN "NotADirectory" ELSE Ok)
lookup(F, p) == lookup_node(F, Target(p), p.slash)

create_file(F, p) ==
    IF p.slash THEN Ret(F, "NotADirectory")
    ELSE Then(node_create(F, p, EmptyFile), LAMBDA G : Ret(G, fs_lookup(G, Target(p))))

CreateUnless(F, p, found) ==
    IF found = "NotFound" THEN node_create(F, p, Dir)
    ELSE Ret(F, IF found = Ok THEN "AlreadyExists" ELSE found)
create_dir(F, p) == CreateUnless(F, p, lookup(F, p))

Writable(F, n) == IF "w" \in Perm(F, n) THEN Ok ELSE "PermissionDenied"

MayRemoveFile(F, n, slash) ==
    OrElse(lookup_node(F, n, slash), IF IsDir(F, n) THEN "IsADirectory" ELSE Writable(F, n))
remove_file(F, p) ==
    Check(F, MayRemoveFile(F, Target(p), p.slash), LAMBDA G : node_remove(G, p))

MayRemoveDir(F, n, slash) ==
    OrElse(lookup_node(F, n, slash), IF IsDir(F, n) THEN Writable(F, n) ELSE "NotADirectory")
remove_dir(F, p) ==
    IF p.comps = << >> THEN Ret(F, IF p.abs THEN "DirectoryNotEmpty" ELSE "InvalidInput")
    ELSE IF is_mount_point(absolute_path(p)) THEN Ret(F, "PermissionDenied")
    ELSE Check(F, MayRemoveDir(F, Target(p), p.slash), LAMBDA G : node_remove(G, p))

\* RootDirectory has no rename of its own.
node_rename(F, dir, old, new) ==
    IF dir.root THEN Ret(F, "Unsupported")
    ELSE fs_rename(F, Node(dir.fs, dir.path \o old), Node(dir.fs, dir.path \o new))

\* rename: an existing destination is removed first.
rename(F, old, new) ==
    Then(IF fs_lookup(F, Target(new)) = Ok THEN remove_file(F, new) ELSE Ret(F, Ok),
         LAMBDA G : node_rename(G, parent_node_of(old), old.comps, new.comps))

\* Mutant: the node is looked up from the path as it was typed.
SetCurrentDir_Typed(p) ==
    LET comps == absolute_path(p)
    IN  cwd' = IF comps = << >> THEN [node |-> ROOT_DIR, path |-> << >>]
               ELSE [node |-> Target(p), path |-> comps]

SetCurrentDir(p) ==
    LET comps == absolute_path(p)
    IN  cwd' = IF comps = << >> THEN [node |-> ROOT_DIR, path |-> << >>]
               ELSE [node |-> Route(comps), path |-> comps]

\* set_current_dir: what the path names must be a directory.
CanEnter(F, p) ==
    LET comps == absolute_path(p)
    IN  comps = << >> \/ (IsDir(F, Route(comps)) /\ "x" \in Perm(F, Route(comps)))

-----------------------------------------------------------------------------
(* fops.rs: OpenOptions and File.                                          *)

is_valid(opts) ==
    /\ opts \cap {"read", "write", "append"} # {}
    /\ opts \cap {"write", "append"} = {} => opts \cap {"truncate", "create", "create_new"} = {}
    /\ "append" \in opts => ("truncate" \in opts => "create_new" \in opts)

Cap(opts) == (IF "read" \in opts THEN {"r"} ELSE {})
             \cup (IF opts \cap {"write", "append"} # {} THEN {"w"} ELSE {})

\* File::_open_at: the file is found or made, and then may be opened or not.
Found(F, p, opts, found) ==
    IF found = "NotFound" /\ opts \cap {"create", "create_new"} # {} THEN create_file(F, p)
    ELSE Ret(F, IF found = Ok /\ "create_new" \in opts THEN "AlreadyExists" ELSE found)
Opened(F, n, opts) ==
    IF IsDir(F, n) /\ opts \ {"read"} # {} THEN Ret(F, "IsADirectory")
    ELSE IF ~(Cap(opts) \subseteq Perm(F, n)) THEN Ret(F, "PermissionDenied")
    ELSE IF "truncate" \in opts THEN fs_truncate(F, n)
    ELSE Ret(F, Ok)
open(F, p, opts) ==
    IF ~is_valid(opts) THEN Ret(F, "InvalidInput")
    ELSE Then(Found(F, p, opts, lookup(F, p)), LAMBDA G : Opened(G, Target(p), opts))

\* The calls of api/mod.rs the shell makes.
OpenRead(F, p) == open(F, p, {"read"})
OpenCreate(F, p) == open(F, p, {"write", "create", "truncate"})
metadata(F, p) == OpenRead(F, p).err

\* Directory::_open_dir_at.
MayRead(F, n) ==
    IF ~IsDir(F, n) THEN "NotADirectory" ELSE IF "r" \notin Perm(F, n) THEN "PermissionDenied" ELSE Ok
open_dir(F, p) == OrElse(lookup(F, p), MayRead(F, Target(p)))
=============================================================================
