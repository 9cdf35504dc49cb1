---------------------------- MODULE FileCommands ----------------------------
(***************************************************************************)
(* The file commands of the shell, kernel/src/shell/command/base.rs.  A    *)
(* command is a name, flags and arguments; Run is what it does to the file *)
(* systems and the first error it prints.  read_dir returns an iterator    *)
(* that fetches DIRENT_BUF entries at a time from the directory as it then *)
(* is, by the number of entries already fetched.                           *)
(***************************************************************************)
EXTENDS Vfs, SequencesExt

IsDot(name) == name \in {Dots[1], Dots[2]}
Child(dir, name) == Node(dir.fs, Append(dir.path, name))

\* A loop over arguments or entries that stops at an error (`?').
TryEach(F, seq, Op(_, _)) ==
    FoldLeft(LAMBDA acc, x : IF acc.err # Ok THEN acc ELSE Op(acc.F, x), Ret(F, Ok), seq)

\* A loop that prints an error and goes on.
ForEach(F, seq, Op(_, _)) ==
    FoldLeft(LAMBDA acc, x : LET r == Op(acc.F, x)
                             IN  Ret(r.F, IF acc.err # Ok THEN acc.err ELSE r.err),
             Ret(F, Ok), seq)

\* ReadDir: what the iterator returns when the directory does not change.
Entries(F, p) ==
    IF ~IsDir(F, Target(p)) THEN << >>
    ELSE SelectSeq(fs_entries(F, Target(p)), LAMBDA name : ~IsDot(name))

-----------------------------------------------------------------------------
(* Commands that only look; they return the error they print.              *)

list_one(F, p) ==
    OrElse(metadata(F, p), IF IsDir(F, Target(p)) THEN open_dir(F, p) ELSE Ok)
do_ls(F, c) == ForEach(F, IF c.args = << >> THEN <<Path(FALSE, << >>)>> ELSE c.args,
                       LAMBDA G, p : Ret(G, list_one(G, p)))

\* A directory can be opened, and reading it fails.
cat_one(F, p) ==
    OrElse(OpenRead(F, p).err, IF IsDir(F, Target(p)) THEN "IsADirectory" ELSE Ok)
do_cat(F, c) == ForEach(F, c.args, LAMBDA G, p : Ret(G, cat_one(G, p)))

-----------------------------------------------------------------------------
(* Helpers that walk directories.                                          *)

RECURSIVE remove_dir_recursive(_, _), remove_entries(_, _, _, _)

remove_dir_recursive(F, p) ==
    Check(F, open_dir(F, p), LAMBDA G : remove_entries(G, p, Target(p), 0))

remove_entries(F, p, dir, idx) ==
    LET chunk == fs_read_dir(F, dir, idx)
        rm(G, name) == IF IsDot(name) THEN Ret(G, Ok)
                       ELSE IF IsDir(F, Child(dir, name)) THEN remove_dir_recursive(G, Join(p, name))
                       ELSE remove_file(G, Join(p, name))
    IN  IF chunk = << >> THEN remove_dir(F, p)
        ELSE Then(TryEach(F, chunk, rm), LAMBDA G : remove_entries(G, p, dir, idx + Len(chunk)))

\* Mutant: what write_all returns is not looked at.
write_all_Ignored(F, n, bytes) == Ret(IF bytes = EmptyFile THEN F ELSE fs_write(F, n, bytes).F, Ok)

\* The loop of copy_file; nothing is written of an empty file.
write_all(F, n, bytes) == IF bytes = EmptyFile THEN Ret(F, Ok) ELSE fs_write(F, n, bytes)

\* The destination is opened, and truncated, before the source is read.
copy_file(F, src, dst) ==
    Check(F, OpenRead(F, src).err, LAMBDA G :
      Then(OpenCreate(G, dst), LAMBDA H : write_all(H, Target(dst), fs_read(H, Target(src)))))

RECURSIVE copy_dir_recursive(_, _, _), copy_entries(_, _, _, _, _)

copy_dir_recursive(F, src, dst) ==
    Then(create_dir(F, dst), LAMBDA G :
      Check(G, open_dir(G, src), LAMBDA H : copy_entries(H, src, dst, Target(src), 0)))

copy_entries(F, src, dst, dir, idx) ==
    LET chunk == fs_read_dir(F, dir, idx)
        cp(G, name) == IF IsDot(name) THEN Ret(G, Ok)
                       ELSE IF IsDir(F, Child(dir, name)) THEN
                              copy_dir_recursive(G, Join(src, name), Join(dst, name))
                       ELSE copy_file(G, Join(src, name), Join(dst, name))
    IN  IF chunk = << >> THEN Ret(F, Ok)
        ELSE Then(TryEach(F, chunk, cp), LAMBDA G : copy_entries(G, src, dst, dir, idx + Len(chunk)))

\* Mutant: the source is removed even if the copy failed.
Copied_Always(r) == TRUE

Copied(r) == r.err = Ok

\* The source is removed once it is copied.
copy_and_remove(F, src, dst) ==
    IF IsDir(F, Target(src))
      THEN LET r == copy_dir_recursive(F, src, dst)
           IN  IF Copied(r) THEN remove_dir_recursive(r.F, src) ELSE r
      ELSE LET r == copy_file(F, src, dst)
           IN  IF Copied(r) THEN remove_file(r.F, src) ELSE r

Otherwise(r, Op(_)) == IF r.err = Ok THEN r ELSE Op(r.F)

\* rename, or copy and remove if that fails for any reason.
move_file_or_dir(F, src, dst) ==
    Otherwise(rename(F, src, dst), LAMBDA G :
      Check(G, metadata(G, src), LAMBDA H : copy_and_remove(H, src, dst)))

-----------------------------------------------------------------------------
(* The command handlers.                                                   *)

\* echo TEXT > FILE, the redirection of do_echo.
do_echo(F, c) ==
    Then(OpenCreate(F, c.args[1]), LAMBDA G : fs_write(G, Target(c.args[1]), c.text))

\* create_dir_all is not supported.
do_mkdir(F, c) ==
    ForEach(F, c.args, LAMBDA G, p : IF "parents" \in c.flags THEN Ret(G, "Unsupported")
                                     ELSE create_dir(G, p))

do_touch(F, c) == ForEach(F, c.args, OpenCreate)

rm_found(F, p, flags) ==
    IF ~IsDir(F, Target(p)) THEN remove_file(F, p)
    ELSE IF "recursive" \in flags THEN remove_dir_recursive(F, p)
    ELSE IF "dir" \in flags THEN remove_dir(F, p)
    ELSE Ret(F, "Unsupported")
rm_one(F, p, flags) == Check(F, metadata(F, p), LAMBDA G : rm_found(G, p, flags))

\* With --force no error is printed.
Silenced(r, flags) == Ret(r.F, IF "force" \in flags THEN Ok ELSE r.err)
do_rm(F, c) == Silenced(ForEach(F, c.args, LAMBDA G, p : rm_one(G, p, c.flags)), c.flags)

cp_found(F, src, dst, flags) ==
    IF ~IsDir(F, Target(src)) THEN copy_file(F, src, dst)
    ELSE IF "recursive" \in flags THEN copy_dir_recursive(F, src, dst)
    ELSE Ret(F, "Unsupported")
do_cp(F, c) ==
    IF Len(c.args) < 2 THEN Ret(F, "missing operand")
    ELSE Check(F, metadata(F, c.args[1]), LAMBDA G : cp_found(G, c.args[1], c.args[2], c.flags))

\* The name do_mv makes up for a file in directory dest: dest twice, and the
\* first entry of the directory it lists.
MovedName(F, listed, dest) ==
    Path(dest.abs, dest.comps \o dest.comps \o <<Head(Entries(F, listed))>>)

\* mv SOURCE DEST.
mv_two(F, src, dest) ==
    LET inDir == metadata(F, dest) = Ok /\ IsDir(F, Target(dest))
    IN  IF inDir /\ Entries(F, dest) = << >> THEN Ret(F, "invalid source path")
        ELSE move_file_or_dir(F, src, IF inDir THEN MovedName(F, dest, dest) ELSE dest)

\* mv SOURCE... DIRECTORY goes on after an error of a move, but not after these
\* two: read_dir(source).unwrap() panics on a source that is not a directory.
\* The answer is the error that ends it, or else the first one it prints.
Ended(err) == err \in {"Panic", "invalid source path"}
mv_one(F, src, dest) ==
    IF open_dir(F, src) # Ok THEN Ret(F, "Panic")
    ELSE IF Entries(F, src) = << >> THEN Ret(F, "invalid source path")
    ELSE move_file_or_dir(F, src, MovedName(F, src, dest))
AfterMove(err, step) == IF Ended(step.err) THEN step ELSE Ret(step.F, OrElse(err, step.err))
mv_many(F, sources, dest) ==
    Check(F, OrElse(metadata(F, dest), IF IsDir(F, Target(dest)) THEN Ok ELSE "not a directory"),
          LAMBDA G : FoldLeft(LAMBDA acc, src : IF Ended(acc.err) THEN acc ELSE AfterMove(acc.err, mv_one(acc.F, src, dest)),
                              Ret(G, Ok), sources))

do_mv(F, c) ==
    IF Len(c.args) < 2 THEN Ret(F, "missing operand")
    ELSE IF Len(c.args) = 2 THEN mv_two(F, c.args[1], c.args[2])
    ELSE mv_many(F, Front(c.args), Last(c.args))

Run(F, c) ==
    CASE c.name = "ls" -> do_ls(F, c)
      [] c.name = "cat" -> do_cat(F, c)
      [] c.name = "echo" -> do_echo(F, c)
      [] c.name = "mkdir" -> do_mkdir(F, c)
      [] c.name = "touch" -> do_touch(F, c)
      [] c.name = "rm" -> do_rm(F, c)
      [] c.name = "cp" -> do_cp(F, c)
      [] c.name = "mv" -> do_mv(F, c)
=============================================================================
