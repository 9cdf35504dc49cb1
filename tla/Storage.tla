------------------------------- MODULE Storage -------------------------------
(***************************************************************************)
(* The storage side of the hypervisor: the file systems are set up, then   *)
(* the shell runs file commands one after the other.                       *)
(***************************************************************************)
EXTENDS Rootfs, FileCommands

RunCommand(c) == CommandReturns(Run(fss, c))

\* Each step is one of RootfsSpec, with the file systems that Run computes.
Next == RootfsStep \/ \E c \in Commands : RunCommand(c)

Spec == Init /\ [][Next]_vars /\ WF_vars(BlockStep)

-----------------------------------------------------------------------------
(* Properties of the commands, for every command in every state.           *)

Files(F, n) == {q \in Below(F, n) : F[n.fs].nodes[q] # Dir}
Holds(F, n, content) == Exists(F, n) /\ F[n.fs].nodes[n.path] = content
Under(n, m) == n.fs = m.fs /\ Begins(n.path, m.path)
Image(n, m, q) == Node(m.fs, m.path \o SubSeq(q, Len(n.path) + 1, Len(q)))

\* A file on ext4 that cannot be truncated: the adapter does not say so, and what
\* is then written over it is followed by the end of the old contents.
NotTruncated(n) == Kind(fss, n) = "ext4" /\ Stuck(fss, n) /\ Exists(fss, n)

\* Where a moved file may be found.
MovedDest(dest) ==
    IF IsDir(fss, Target(dest)) /\ Entries(fss, dest) # << >> THEN MovedName(fss, dest, dest) ELSE dest
MovedTo(dest) == {Target(dest), Node(cwd.node.fs, cwd.node.path \o dest.comps)}

Move(src, places, after) ==
    (\A n \in places : ~Under(src, n) /\ ~Under(n, src)) =>
      \A q \in Files(fss, src) :
        LET content == fss[src.fs].nodes[q]
        IN  \/ Holds(after, Node(src.fs, q), content)
            \/ \E n \in places : \/ Holds(after, Image(src, n, q), content)
                                 \/ NotTruncated(Image(src, n, q))

\* mv of two names loses no file: afterwards each file below the source is
\* where it was, or below the destination, or at the place below the current
\* directory where a rename by the file system library puts it.  Exceptions:
\* source and destination overlap, or the file is copied over one that ext4
\* does not truncate.
MoveKeepsData ==
    InShell => \A c \in {d \in Commands : d.name = "mv" /\ Len(d.args) = 2} :
      Move(Target(c.args[1]), MovedTo(MovedDest(c.args[2])), do_mv(fss, c).F)

Copy(src, dst, r) ==
    (r.err = Ok /\ ~Under(src, dst) /\ ~Under(dst, src)) =>
      \A q \in Files(fss, src) :
        LET content == fss[src.fs].nodes[q]
        IN  /\ Holds(r.F, Node(src.fs, q), content)
            /\ Holds(r.F, Image(src, dst, q), content) \/ NotTruncated(Image(src, dst, q))

\* cp without an error leaves the source as it was and a copy of each of its
\* files at the destination, unless the two overlap.  A file that is copied over
\* one that ext4 does not truncate is the exception.
CopyFaithful ==
    InShell => \A c \in {d \in Commands : d.name = "cp" /\ Len(d.args) = 2} :
      Copy(Target(c.args[1]), Target(c.args[2]), do_cp(fss, c))

\* What rm is asked to remove: with --recursive what is below an argument, and
\* otherwise the argument only, which is a file or an empty directory.
ToRemove(args, flags, n) ==
    \E i \in 1 .. Len(args) : /\ Under(Target(args[i]), n)
                              /\ "recursive" \in flags \/ Target(args[i]).path = n.path
\* What rm --dir removes besides, against its help, from a directory of ext4.
InFullDir(args, flags, n) ==
    /\ "dir" \in flags /\ Kind(fss, n) = "ext4"
    /\ \E i \in 1 .. Len(args) : Under(Target(args[i]), n)
\* What the ext4 library fails to remove, which the adapter does not say.
NotRemoved(n) == Kind(fss, n) = "ext4" /\ n.path \in Staying(fss, n)

Removal(args, flags, r) ==
    \A fs \in DOMAIN fss : \A q \in DOMAIN fss[fs].nodes :
      LET n == Node(fs, q)
      IN  IF ToRemove(args, flags, n)
          THEN (r.err = Ok /\ "force" \notin flags) => (~Exists(r.F, n) \/ NotRemoved(n))
          ELSE Exists(r.F, n) \/ InFullDir(args, flags, n)

\* rm without an error leaves nothing of what it was asked to remove, except what
\* the ext4 library failed to remove, and takes away nothing else: without
\* --recursive no directory with something in it, ext4 under --dir excepted.
\* With --force, errors are not shown and only the second part holds.
RemoveComplete ==
    InShell => \A c \in {d \in Commands : d.name = "rm"} : Removal(c.args, c.flags, do_rm(fss, c))
=============================================================================
