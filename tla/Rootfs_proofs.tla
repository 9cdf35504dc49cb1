--------------------------- MODULE Rootfs_proofs ---------------------------
(***************************************************************************)
(* The root file system, for every disk, partition table, boot argument    *)
(* and set of commands: the root is a partition that root= names when it   *)
(* names a supported one and no device path is past a hole of the table;   *)
(* the lookup finds every mount point; booting panics for the reasons that *)
(* BootPanics lists only; relative paths mean the absolute ones below the  *)
(* current directory; and the block requests of the boot are those of      *)
(* IoSpec, so that they are exact.                                         *)
(*                                                                         *)
(* The loops over the components of a path, over the partition table and   *)
(* over the partitions to mount are recursive functions.  What they        *)
(* compute is shown by induction over their rounds; the induction          *)
(* hypothesis is the set of the numbers it holds for.                      *)
(***************************************************************************)
EXTENDS Rootfs, BlockIo_proofs, WellFoundedInduction

-----------------------------------------------------------------------------
(* Induction over the numbers.                                             *)

\* The order of the numbers.
Less == {ss \in Nat \X Nat : ss[1] < ss[2]}

\* It is well founded.
LEMMA LessWellFounded == IsWellFoundedOn(Less, Nat)
  BY NatLessThanWellFounded DEF OpToRel, Less

\* A set of numbers that is not empty has a least one.
LEMMA LeastNat ==
    ASSUME NEW T, T \subseteq Nat, T # {}
    PROVE  \E x \in T : \A y \in T : x <= y
  <1>1. PICK x \in T : \A y \in T : ~(<<y, x>> \in Less)
    BY Zenon, LessWellFounded, WFMin
  <1>2. \A y \in T : ~(y < x)
    BY Zenon, <1>1 DEF Less
  <1> QED
    BY <1>2

\* What holds for 0, and for n + 1 if it holds for n, holds for all numbers.
LEMMA Induction ==
    ASSUME NEW T, 0 \in T, \A n \in Nat : n \in T => n + 1 \in T
    PROVE  Nat \subseteq T
  <1> SUFFICES ASSUME Nat \ T # {} PROVE FALSE
    OBVIOUS
  <1>1. PICK x \in Nat \ T : \A y \in Nat \ T : x <= y
    <2>1. Nat \ T \subseteq Nat
      OBVIOUS
    <2> QED
      BY Zenon, <2>1, LeastNat
  <1>2. x # 0 /\ x - 1 \in Nat /\ x - 1 + 1 = x
    BY <1>1
  <1>3. x - 1 \in T
    BY <1>1, <1>2
  <1> QED
    BY <1>1, <1>2, <1>3

\* The same up to a bound.
LEMMA BoundedInduction ==
    ASSUME NEW N \in Nat, NEW T, 0 \in T, \A n \in 0 .. N - 1 : n \in T => n + 1 \in T
    PROVE  0 .. N \subseteq T
  <1> DEFINE U == {n \in Nat : n <= N => n \in T}
  <1>1. 0 \in U
    OBVIOUS
  <1>2. \A n \in Nat : n \in U => n + 1 \in U
    OBVIOUS
  <1>3. Nat \subseteq U
    <2> HIDE DEF U
    <2> QED
      BY <1>1, <1>2, Induction
  <1> QED
    BY <1>3

\* The least element as the library chooses it.
LEMMA MinLeast ==
    ASSUME NEW T, T \subseteq Nat, T # {}
    PROVE  Min(T) \in T /\ \A y \in T : Min(T) <= y
  BY Zenon, LeastNat DEF Min

-----------------------------------------------------------------------------
(* Loops.  The three loops of the model, as one operator, so that the      *)
(* values they go through are shown to exist once.                         *)

\* One step of the loop op.
Loop(op, acc, n) ==
    CASE op.loop = "path" -> PushComponent(acc, op.comps[n])
      [] op.loop = "table" -> ReadEntry(op.disk, acc, n)
      [] OTHER -> MountOther(op.root, acc, n)

\* The values after each of the first n rounds of a loop.
Unfolds(op, base, n, h) ==
    h = [k \in 0 .. n |-> IF k = 0 THEN base ELSE Loop(op, h[k - 1], k)]

\* There are such values for every n.
LEMMA UnfoldingExists ==
    ASSUME NEW op, NEW base
    PROVE  \A n \in Nat : \E h : Unfolds(op, base, n, h)
  <1> DEFINE T == {n \in Nat : \E h : Unfolds(op, base, n, h)}
  <1>1. 0 \in T
    <2> DEFINE h == [k \in 0 .. 0 |-> base]
    <2>1. Unfolds(op, base, 0, h)
      BY DEF Unfolds
    <2> QED
      BY <2>1
  <1>2. ASSUME NEW n \in Nat, NEW f, Unfolds(op, base, n, f)
        PROVE  \E h : Unfolds(op, base, n + 1, h)
    <2> DEFINE h == [k \in 0 .. n + 1 |-> IF k = n + 1 THEN Loop(op, f[n], n + 1) ELSE f[k]]
    <2>1. ASSUME NEW k \in 0 .. n + 1
          PROVE  h[k] = IF k = 0 THEN base ELSE Loop(op, h[k - 1], k)
      <3>1. CASE k = n + 1
        <4>1. h[k - 1] = f[n] /\ k # 0
          BY <3>1
        <4> QED
          BY <3>1, <4>1
      <3>2. CASE k # n + 1
        <4>1. k \in 0 .. n /\ h[k] = f[k] /\ (k # 0 => h[k - 1] = f[k - 1])
          BY <3>2
        <4>2. f[k] = IF k = 0 THEN base ELSE Loop(op, f[k - 1], k)
          BY <1>2, <4>1 DEF Unfolds
        <4> QED
          BY <4>1, <4>2
      <3> QED
        BY <3>1, <3>2
    <2>2. h = [k \in 0 .. n + 1 |-> h[k]]
      OBVIOUS
    <2> HIDE DEF h
    <2>3. Unfolds(op, base, n + 1, h)
      BY Zenon, <2>1, <2>2 DEF Unfolds
    <2> QED
      BY <2>3
  <1>3. \A n \in Nat : n \in T => n + 1 \in T
    BY <1>2
  <1> HIDE DEF T
  <1>4. Nat \subseteq T
    BY <1>1, <1>3, Induction
  <1> QED
    BY <1>4 DEF T

\* canonicalize pushes the components of a path one by one.
LEMMA PathFold ==
    ASSUME NEW S, NEW seq \in Seq(S), NEW n \in Nat, n = Len(seq)
    PROVE  \E c : /\ c[0] = << >> /\ c[n] = canonicalize(seq)
                  /\ \A k \in 0 .. n - 1 : c[k + 1] = PushComponent(c[k], seq[k + 1])
  <1> DEFINE op == [loop |-> "path", comps |-> seq]
             U(f) == f = [k \in 0 .. n |-> IF k = 0 THEN << >> ELSE PushComponent(f[k - 1], seq[k])]
             h == CHOOSE f : U(f)
  <1>1. canonicalize(seq) = h[n]
    BY DEF canonicalize
  <1>2. \A acc, k : Loop(op, acc, k) = PushComponent(acc, seq[k])
    BY DEF Loop
  <1> HIDE DEF op
  <1>3. \E f : U(f)
    <2>1. PICK f : Unfolds(op, << >>, n, f)
      BY UnfoldingExists, Zenon
    <2>2. \A k \in 0 .. n : (IF k = 0 THEN << >> ELSE Loop(op, f[k - 1], k))
                             = IF k = 0 THEN << >> ELSE PushComponent(f[k - 1], seq[k])
      BY <1>2
    <2>3. U(f)
      BY <2>1, <2>2 DEF Unfolds
    <2> QED
      BY <2>3, Zenon
  <1> HIDE DEF U
  <1>4. U(h)
    BY <1>3
  <1> HIDE DEF h
  <1>5. h[0] = << >> /\ \A k \in 0 .. n - 1 : h[k + 1] = PushComponent(h[k], seq[k + 1])
    BY <1>4 DEF U
  <1> QED
    BY <1>1, <1>5

\* The scan reads the entries of the partition table one by one.
LEMMA TableFold ==
    ASSUME NEW d, NEW n \in Nat
    PROVE  \E c : /\ c[0] = << >> /\ c[n] = ReadEntries(d, n)
                  /\ \A k \in 0 .. n - 1 : c[k + 1] = ReadEntry(d, c[k], k + 1)
  <1> DEFINE op == [loop |-> "table", disk |-> d]
             U(f) == f = [k \in 0 .. n |-> IF k = 0 THEN << >> ELSE ReadEntry(d, f[k - 1], k)]
             h == CHOOSE f : U(f)
  <1>1. ReadEntries(d, n) = h[n]
    BY DEF ReadEntries
  <1>2. \A acc, k : Loop(op, acc, k) = ReadEntry(d, acc, k)
    BY DEF Loop
  <1> HIDE DEF op
  <1>3. \E f : U(f)
    <2>1. PICK f : Unfolds(op, << >>, n, f)
      BY UnfoldingExists, Zenon
    <2>2. \A k \in 0 .. n : (IF k = 0 THEN << >> ELSE Loop(op, f[k - 1], k))
                             = IF k = 0 THEN << >> ELSE ReadEntry(d, f[k - 1], k)
      BY <1>2
    <2>3. U(f)
      BY <2>1, <2>2 DEF Unfolds
    <2> QED
      BY <2>3, Zenon
  <1> HIDE DEF U
  <1>4. U(h)
    BY <1>3
  <1> HIDE DEF h
  <1>5. h[0] = << >> /\ \A k \in 0 .. n - 1 : h[k + 1] = ReadEntry(d, h[k], k + 1)
    BY <1>4 DEF U
  <1> QED
    BY <1>1, <1>5

\* mount_additional_partitions mounts the partitions one by one.
LEMMA MountFold ==
    ASSUME NEW S, NEW root, NEW n \in Nat, n = Len(parts)
    PROVE  \E c : /\ c[0] = MakeBoot(S) /\ c[n] = mount_additional_partitions(S, root)
                  /\ \A k \in 0 .. n - 1 : c[k + 1] = MountOther(root, c[k], k + 1)
  <1> DEFINE op == [loop |-> "mount", root |-> root]
             base == MakeBoot(S)
             U(f) == f = [k \in 0 .. n |-> IF k = 0 THEN base ELSE MountOther(root, f[k - 1], k)]
             h == CHOOSE f : U(f)
  <1>1. mount_additional_partitions(S, root) = h[n]
    BY DEF mount_additional_partitions
  <1>2. \A acc, k : Loop(op, acc, k) = MountOther(root, acc, k)
    BY DEF Loop
  <1> HIDE DEF op, base
  <1>3. \E f : U(f)
    <2>1. PICK f : Unfolds(op, base, n, f)
      BY UnfoldingExists, Zenon
    <2>2. \A k \in 0 .. n : (IF k = 0 THEN base ELSE Loop(op, f[k - 1], k))
                             = IF k = 0 THEN base ELSE MountOther(root, f[k - 1], k)
      BY <1>2
    <2>3. U(f)
      BY <2>1, <2>2 DEF Unfolds
    <2> QED
      BY <2>3, Zenon
  <1> HIDE DEF U
  <1>4. U(h)
    BY <1>3
  <1> HIDE DEF h
  <1>5. h[0] = base /\ \A k \in 0 .. n - 1 : h[k + 1] = MountOther(root, h[k], k + 1)
    BY <1>4 DEF U
  <1> QED
    BY <1>1, <1>5 DEF base

-----------------------------------------------------------------------------
(* Paths.                                                                  *)

\* canonicalize makes a path of the names it is given.
LEMMA CanonicalSeq ==
    ASSUME NEW S, NEW comps \in Seq(S)
    PROVE  canonicalize(comps) \in Seq(S)
  <1>0. PICK n \in Nat : n = Len(comps)
    OBVIOUS
  <1>1. PICK c : /\ c[0] = << >> /\ c[n] = canonicalize(comps)
                 /\ \A k \in 0 .. n - 1 : c[k + 1] = PushComponent(c[k], comps[k + 1])
    BY <1>0, PathFold
  <1> DEFINE T == {k \in 0 .. n : c[k] \in Seq(S)}
  <1>2. 0 \in T
    <2>1. << >> \in Seq(S) /\ 0 \in 0 .. n
      OBVIOUS
    <2> QED
      BY Zenon, <1>1, <2>1
  <1>3. ASSUME NEW k \in 0 .. n - 1, k \in T
        PROVE  k + 1 \in T
    <2>1. c[k + 1] = PushComponent(c[k], comps[k + 1]) /\ c[k] \in Seq(S) /\ comps[k + 1] \in S
      BY <1>0, <1>1, <1>3
    <2>2. ASSUME NEW p \in Seq(S), NEW x \in S
          PROVE  PushComponent(p, x) \in Seq(S)
      BY DEF PushComponent, Parent
    <2>3. k + 1 \in 0 .. n
      OBVIOUS
    <2> QED
      BY Zenon, <2>1, <2>2, <2>3
  <1> HIDE DEF T
  <1>4. 0 .. n \subseteq T
    BY <1>2, <1>3, BoundedInduction
  <1> QED
    BY <1>1, <1>4 DEF T

-----------------------------------------------------------------------------
(* The partition table.                                                    *)

\* The partitions a scan of the disk may list: none ends before it starts.
Sized(e) == Listed(e) /\ e.start_lba <= e.end_lba
PartsOf(d) ==
    {GptPartition(d, i) : i \in {j \in 1 .. Len(d.gpt) : Sized(d.gpt[j])}} \cup {WholeDisk(d)}

\* The fragments of names.  (The provers do not know that a literal is a string.)
Frag == STRING \cup {"disk", "boot", "proc", "sys"}

\* A sequence over a set is one over every larger set.
LEMMA Longer ==
    ASSUME NEW S, NEW T, S \subseteq T, NEW s \in Seq(S)
    PROVE  s \in Seq(T)
  OBVIOUS

\* A sequence of one element.
LEMMA Singleton ==
    ASSUME NEW S, NEW x \in S
    PROVE  <<x>> \in Seq(S)
  OBVIOUS

\* An entry of the table.
LEMMA EntryIs ==
    ASSUME NEW d \in Disks, NEW i \in 1 .. Len(d.gpt)
    PROVE  /\ d.gpt[i].read \in BOOLEAN /\ d.gpt[i].used \in BOOLEAN /\ d.gpt[i].name \in Seq(STRING)
           /\ d.gpt[i].start_lba \in Nat /\ d.gpt[i].end_lba \in Nat
  <1> DEFINE E == [read : BOOLEAN, used : BOOLEAN, name : Seq(STRING), guid : Seq(STRING),
                   start_lba : Nat, end_lba : Nat]
  <1>1. d.gpt \in Seq(E)
    BY DisksAssumption
  <1>2. d.gpt[i] \in E
    <2> HIDE DEF E
    <2> QED
      BY <1>1
  <1> QED
    BY <1>2

\* The scan lists partitions of the disk it reads, if it can compute their sizes.
LEMMA ScannedParts ==
    ASSUME NEW d \in Disks, ~SizeOverflows(d)
    PROVE  scan_gpt_partitions(d) \in Seq(PartsOf(d))
  <1> DEFINE S == PartsOf(d)
  <1>0. PICK n \in Nat : n = Len(d.gpt)
    BY DisksAssumption
  <1>1. ASSUME HasTable(d)
        PROVE  ReadEntries(d, n) \in Seq(S)
    <2>1. PICK c : /\ c[0] = << >> /\ c[n] = ReadEntries(d, n)
                   /\ \A k \in 0 .. n - 1 : c[k + 1] = ReadEntry(d, c[k], k + 1)
      BY TableFold
    <2> DEFINE T == {k \in 0 .. n : c[k] \in Seq(S)}
    <2>2. 0 \in T
      <3>1. << >> \in Seq(S) /\ 0 \in 0 .. n
        OBVIOUS
      <3> QED
        BY Zenon, <2>1, <3>1
    <2>3. ASSUME NEW k \in 0 .. n - 1, k \in T
          PROVE  k + 1 \in T
      <3>1. c[k + 1] = ReadEntry(d, c[k], k + 1) /\ c[k] \in Seq(S) /\ k + 1 \in 1 .. n /\ k + 1 \in 0 .. n
        BY <2>1, <2>3
      <3>2. Listed(d.gpt[k + 1]) => GptPartition(d, k + 1) \in S
        <4>1. Listed(d.gpt[k + 1]) => d.gpt[k + 1].start_lba <= d.gpt[k + 1].end_lba
          BY <1>0, <1>1, <3>1, EntryIs DEF SizeOverflows, Listed
        <4> QED
          BY <1>0, <3>1, <4>1 DEF PartsOf, Sized
      <3> HIDE DEF S
      <3>3. ASSUME NEW p \in Seq(S), NEW x
            PROVE  x \in S => Append(p, x) \in Seq(S)
        OBVIOUS
      <3>4. c[k + 1] \in Seq(S)
        BY <3>1, <3>2, <3>3 DEF ReadEntry
      <3> QED
        BY <3>1, <3>4
    <2> HIDE DEF T
    <2>4. 0 .. n \subseteq T
      BY <2>2, <2>3, BoundedInduction
    <2> QED
      BY <2>1, <2>4 DEF T
  <1>2. WholeDisk(d) \in S
    BY DEF PartsOf
  <1> HIDE DEF S
  <1>3. << >> \in Seq(S) /\ <<WholeDisk(d)>> \in Seq(S)
    BY <1>2
  <1> QED
    BY <1>0, <1>1, <1>3 DEF scan_gpt_partitions, parse_gpt_partitions, S

\* What is known of a partition that the scan lists.
LEMMA PartitionIs ==
    ASSUME NEW d \in Disks, NEW p \in PartsOf(d)
    PROVE  /\ p.name \in Seq(Frag)
           /\ p.start_lba \in Nat /\ p.end_lba \in Nat /\ p.start_lba <= p.end_lba
           /\ p.filesystem_type = detect_filesystem_type(d, p.start_lba)
  <1>1. CASE p = WholeDisk(d)
    <2>1. d.blocks \in Nat
      BY DisksAssumption
    <2>2. <<"disk">> \in Seq(Frag)
      BY Singleton DEF Frag
    <2> QED
      BY <1>1, <2>1, <2>2 DEF WholeDisk
  <1>2. ASSUME NEW i \in 1 .. Len(d.gpt), Sized(d.gpt[i]), p = GptPartition(d, i)
        PROVE  /\ p.name \in Seq(Frag)
               /\ p.start_lba \in Nat /\ p.end_lba \in Nat /\ p.start_lba <= p.end_lba
               /\ p.filesystem_type = detect_filesystem_type(d, p.start_lba)
    <2>1. /\ d.gpt[i].name \in Seq(STRING) /\ d.gpt[i].start_lba \in Nat /\ d.gpt[i].end_lba \in Nat
          /\ d.gpt[i].start_lba <= d.gpt[i].end_lba
      BY <1>2, EntryIs DEF Sized
    <2>3. d.gpt[i].name \in Seq(Frag)
      BY <2>1, Longer DEF Frag
    <2>2. /\ p.name = d.gpt[i].name /\ p.start_lba = d.gpt[i].start_lba /\ p.end_lba = d.gpt[i].end_lba
          /\ p.filesystem_type = detect_filesystem_type(d, d.gpt[i].start_lba)
      BY <1>2 DEF GptPartition
    <2> QED
      BY <2>1, <2>2, <2>3
  <1> QED
    BY <1>1, <1>2 DEF PartsOf

\* A supported file system has a root directory.
LEMMA RootDirectory ==
    ASSUME NEW d \in Disks, NEW p \in PartsOf(d), Supported(p)
    PROVE  /\ << >> \in DOMAIN d.fs_at[p.start_lba].nodes
           /\ d.fs_at[p.start_lba].nodes[<< >>] = Dir
  <1>1. detect_filesystem_type(d, p.start_lba) # None
    BY PartitionIs DEF Supported
  <1>2. /\ p.start_lba \in DOMAIN d.fs_at
        /\ d.fs_at[p.start_lba].fat \/ d.fs_at[p.start_lba].ext4
    BY <1>1 DEF detect_filesystem_type, is_fat_filesystem, is_ext4_filesystem
  <1> QED
    BY <1>2, FilesAssumption

-----------------------------------------------------------------------------
(* Mounting.                                                               *)

FsIds == {PartFs(i) : i \in Nat} \cup {Proc, Sys, Ram}
MountEntry == [name : Seq(Frag), fs : FsIds]

\* m is a file system of one of the kinds K, and has a root directory.
Rooted(F, m, K) ==
    /\ m \in DOMAIN F
    /\ F[m] \in [kind : K, cap : {F[m].cap}, nodes : {F[m].nodes}, stuck : {F[m].stuck}]
    /\ << >> \in DOMAIN F[m].nodes /\ F[m].nodes[<< >>] = Dir

Distinct(ms) == \A i, j \in 1 .. Len(ms) : ms[i].name = ms[j].name => i = j

\* A state of the file systems while they are mounted below m.
Good(S, m, K) ==
    /\ S \in [F : {S.F}, main : {m}, mounts : Seq(MountEntry), err : {S.err}]
    /\ Rooted(S.F, m, K)
    /\ Distinct(S.mounts)

\* Why the directory of that name cannot be a new mount point of m.
Refused(F, m, name) ==
    \/ IsFull(F, m)
    \/ Exists(F, Node(m, <<name>>)) /\ (~IsDir(F, Node(m, <<name>>)) \/ F[m].kind = "ram")

\* What the creation of a directory of that name in m leaves, and returns.
MadeFrom(F, r, m, K, name) ==
    /\ Rooted(r.F, m, K)
    /\ DOMAIN r.F[m].nodes \subseteq DOMAIN F[m].nodes \cup {<<name>>}
    /\ r.F[m].kind = F[m].kind
    /\ r.err # Unopened
    /\ \/ r.err = Ok /\ Exists(r.F, Node(m, <<name>>))
       \/ r.F = F /\ Refused(F, m, name)

\* create makes the directory, or says why it does not.
LEMMA DirMade ==
    ASSUME NEW F, NEW m, NEW K, K \subseteq {"ext4", "fat", "ram"}, Rooted(F, m, K), NEW name
    PROVE  MadeFrom(F, fs_create(F, Node(m, <<name>>), Dir), m, K, name)
  <1> DEFINE at == Node(m, <<name>>)
             made == Created(F, at, Dir)
             r == fs_create(F, at, Dir)
  <1>1. at.path = <<name>> /\ at.fs = m
    BY DEF Node
  <1>2. <<name>> # << >> /\ Parent(<<name>>) = << >>
    BY DEF Parent
  <1>3. ParentIsDir(F, at)
    BY SMTT(30), <1>1, <1>2 DEF ParentIsDir, IsDir, Exists, Node, Rooted
  <1>4. CASE ~Exists(F, at) /\ ~IsFull(F, m)
    <2>1. made = Put(F, at, Dir) /\ Refusal(F, at) = Ok
      BY <1>1, <1>3, <1>4 DEF Created, Refusal
    <2>2. /\ DOMAIN made = DOMAIN F
          /\ made[m] = [F[m] EXCEPT !.nodes = [q \in DOMAIN F[m].nodes \cup {<<name>>} |->
                                                IF q = <<name>> THEN Dir ELSE F[m].nodes[q]]]
      <3> HIDE DEF at, made
      <3> QED
        BY <1>1, <2>1 DEF Put, Rooted
    <2> DEFINE N == [q \in DOMAIN F[m].nodes \cup {<<name>>} |->
                       IF q = <<name>> THEN Dir ELSE F[m].nodes[q]]
    <2>3. << >> \in DOMAIN N /\ N[<< >>] = Dir /\ DOMAIN N = DOMAIN F[m].nodes \cup {<<name>>}
      BY <1>2 DEF Rooted
    <2> HIDE DEF N
    <2>4. /\ made[m] \in [kind : K, cap : {F[m].cap}, nodes : {N}, stuck : {F[m].stuck}]
          /\ made[m].kind = F[m].kind /\ made[m].nodes = N
          /\ made[m].cap = F[m].cap /\ made[m].stuck = F[m].stuck
      <3> HIDE DEF made, at
      <3> QED
        BY <2>2 DEF Rooted, N
    <2>5. Rooted(made, m, K) /\ Exists(made, at)
      <3> HIDE DEF made, at
      <3> QED
        BY <1>1, <2>2, <2>3, <2>4 DEF Rooted, Exists
    <2>6. r.F = made /\ r.err = Ok
      <3> HIDE DEF made
      <3>1. Kind(F, at) \in {"ext4", "fat", "ram"}
        BY Zenon, <1>1 DEF Kind, Rooted
      <3> HIDE DEF at
      <3> QED
        BY SMTT(30), <1>1, <1>2, <1>4, <2>1, <3>1
        DEF fs_create, ext4_create, fat_create, ram_create, Ret, made
    <2> HIDE DEF made, at, r
    <2>7. Rooted(r.F, m, K) /\ DOMAIN r.F[m].nodes \subseteq DOMAIN F[m].nodes \cup {<<name>>}
          /\ r.F[m].kind = F[m].kind /\ r.err = Ok /\ Exists(r.F, at)
      BY SMTT(30), <2>3, <2>4, <2>5, <2>6
    <2>8. r.err # Unopened
      BY <2>6 DEF Ok, Unopened
    <2> QED
      BY <2>7, <2>8 DEF r, at, MadeFrom
  <1>5. CASE Exists(F, at) \/ IsFull(F, m)
    <2>1. made = F
      BY <1>1, <1>3, <1>5 DEF Created, Refusal, Ok
    <2>2. Kind(F, at) \in {"ext4", "fat", "ram"} /\ Kind(F, at) = F[m].kind
      BY Zenon, <1>1 DEF Kind, Rooted
    <2>3. r.F = F
      <3> HIDE DEF made, at
      <3> QED
        BY <2>1, <2>2 DEF fs_create, ext4_create, fat_create, ram_create, Ret, made
    <2>4. (r.err = Ok /\ Exists(F, at)) \/ Refused(F, m, name)
      <3>1. CASE IsFull(F, m) \/ ~IsDir(F, at) \/ F[m].kind = "ram"
        BY <1>5, <3>1 DEF Refused
      <3>2. CASE IsDir(F, at) /\ F[m].kind # "ram"
        <4> HIDE DEF at
        <4> QED
          BY SMTT(30), <1>1, <1>2, <2>2, <3>2 DEF IsDir, fs_create, ext4_create, fat_create, Ret, r
      <3> QED
        BY <3>1, <3>2
    <2>5. r.err # Unopened
      <3>1. r.err \in {Ok, "InvalidInput", "AlreadyExists", Refusal(F, at)}
        <4> HIDE DEF made, at
        <4> QED
          BY <2>1, <2>2 DEF fs_create, ext4_create, fat_create, ram_create, Ret, made
      <3>2. Refusal(F, at) \in {Ok, "NotFound", "StorageFull"}
        BY DEF Refusal
      <3> HIDE DEF r, at
      <3> QED
        BY <3>1, <3>2 DEF Ok, Unopened
    <2> HIDE DEF made, at, r
    <2> QED
      BY <2>3, <2>4, <2>5 DEF r, at, MadeFrom
  <1> QED
    BY <1>4, <1>5

\* What mount leaves of the file systems.
Kept(S, T, m, K, name) ==
    /\ Good(T, m, K)
    /\ DOMAIN T.F[m].nodes \subseteq DOMAIN S.F[m].nodes \cup {<<name>>}
    /\ T.F[m].kind = S.F[m].kind

\* mount adds the mount point at the end of the table and makes its directory, or
\* leaves both alone: the name is taken, or the directory is refused.
LEMMA MountStep ==
    ASSUME NEW S, NEW m, NEW K, K \subseteq {"ext4", "fat", "ram"}, Good(S, m, K),
           NEW name \in Seq(Frag), NEW fs \in FsIds
    PROVE  LET T == mount(S, name, fs)
           IN  /\ Kept(S, T, m, K, name) /\ T.err # Unopened
               /\ \/ T.err = Ok /\ T.mounts = Append(S.mounts, [name |-> name, fs |-> fs])
                  \/ /\ T.err # Ok /\ T.mounts = S.mounts /\ T.F = S.F
                     /\ \/ \E i \in 1 .. Len(S.mounts) : S.mounts[i].name = name
                        \/ Refused(T.F, m, name)
  <1> DEFINE T == mount(S, name, fs)
             at == Node(m, <<name>>)
             r == fs_create(S.F, at, Dir)
             entry == [name |-> name, fs |-> fs]
  <1>0. /\ S \in [F : {S.F}, main : {m}, mounts : Seq(MountEntry), err : {S.err}]
        /\ S.main = m /\ S.mounts \in Seq(MountEntry) /\ Rooted(S.F, m, K) /\ Distinct(S.mounts)
    BY DEF Good
  <1>1. CASE \E i \in 1 .. Len(S.mounts) : S.mounts[i].name = name
    <2>1. T = [S EXCEPT !.err = "InvalidInput"]
      BY <1>1 DEF mount
    <2> HIDE DEF T
    <2>2. T \in [F : {S.F}, main : {m}, mounts : {S.mounts}, err : {"InvalidInput"}]
      BY <1>0, <2>1
    <2>3. /\ T \in [F : {T.F}, main : {m}, mounts : Seq(MountEntry), err : {T.err}]
          /\ T.F = S.F /\ T.mounts = S.mounts /\ T.err # Ok /\ T.err # Unopened
      BY <1>0, <2>2 DEF Ok, Unopened
    <2>4. Kept(S, T, m, K, name)
      BY ZenonT(40), <1>0, <2>3 DEF Kept, Good
    <2> QED
      BY <1>1, <2>3, <2>4 DEF T
  <1>2. CASE ~ \E i \in 1 .. Len(S.mounts) : S.mounts[i].name = name
    <2>0. /\ Rooted(r.F, m, K)
          /\ DOMAIN r.F[m].nodes \subseteq DOMAIN S.F[m].nodes \cup {<<name>>}
          /\ r.F[m].kind = S.F[m].kind /\ r.err # Unopened
          /\ \/ r.err = Ok /\ Exists(r.F, at)
             \/ r.F = S.F /\ Refused(S.F, m, name)
      <3>1. MadeFrom(S.F, r, m, K, name)
        BY <1>0, DirMade, Zenon
      <3> HIDE DEF r
      <3> QED
        BY <3>1 DEF MadeFrom
    <2>1. T = MountAt(S, r, at, name, fs)
      BY <1>0, <1>2 DEF mount, MakeAndMount
    <2> HIDE DEF T, r, at
    <2>2. CASE r.err # Ok
      <3>1. T = [S EXCEPT !.err = r.err]
        BY <2>1, <2>2 DEF MountAt
      <3>2. T \in [F : {S.F}, main : {m}, mounts : {S.mounts}, err : {r.err}]
        BY <1>0, <3>1
      <3>3. /\ T \in [F : {T.F}, main : {m}, mounts : Seq(MountEntry), err : {T.err}]
            /\ T.F = S.F /\ T.mounts = S.mounts /\ T.err # Ok /\ T.err # Unopened
        BY SMTT(30), <1>0, <2>0, <2>2, <3>2
      <3>4. Kept(S, T, m, K, name)
        BY <1>0, <3>3 DEF Kept, Good
      <3>5. Refused(T.F, m, name)
        BY SMTT(30), <2>0, <2>2, <3>3
      <3> QED
        BY <3>3, <3>4, <3>5 DEF T
    <2>3. CASE r.err = Ok /\ ~Exists(r.F, at)
      <3>1. T = [S EXCEPT !.F = r.F, !.err = "NotFound"]
        BY <2>1, <2>3 DEF MountAt
      <3>2. T \in [F : {r.F}, main : {m}, mounts : {S.mounts}, err : {"NotFound"}]
        BY Zenon, <1>0, <3>1
      <3>3. /\ T \in [F : {T.F}, main : {m}, mounts : Seq(MountEntry), err : {T.err}]
            /\ T.F = r.F /\ T.mounts = S.mounts /\ T.err # Ok /\ T.err # Unopened
        BY <1>0, <3>2 DEF Ok, Unopened
      <3>4. Kept(S, T, m, K, name)
        BY <1>0, <2>0, <3>3 DEF Kept, Good
      <3>5. Refused(T.F, m, name) /\ T.F = S.F
        BY <2>0, <2>3, <3>3
      <3> QED
        BY <3>3, <3>4, <3>5 DEF T
    <2>4. CASE r.err = Ok /\ Exists(r.F, at)
      <3> DEFINE ms == Append(S.mounts, entry)
      <3>1. T = [S EXCEPT !.F = r.F, !.mounts = ms, !.err = Ok]
        BY <2>1, <2>4 DEF MountAt
      <3>2. entry \in MountEntry /\ entry.name = name
        BY DEF MountEntry
      <3> HIDE DEF entry
      <3>3. /\ ms \in Seq(MountEntry) /\ Len(ms) = Len(S.mounts) + 1 /\ ms[Len(S.mounts) + 1] = entry
            /\ \A i \in 1 .. Len(S.mounts) : ms[i] = S.mounts[i]
            /\ Len(S.mounts) \in Nat
        BY <1>0, <3>2
      <3>4. Distinct(ms)
        BY <1>0, <1>2, <3>2, <3>3 DEF Distinct
      <3> HIDE DEF ms
      <3>5. T \in [F : {r.F}, main : {m}, mounts : {ms}, err : {Ok}]
        BY Zenon, <1>0, <3>1
      <3>6. /\ T \in [F : {T.F}, main : {m}, mounts : Seq(MountEntry), err : {T.err}]
            /\ T.F = r.F /\ T.mounts = ms /\ T.err = Ok /\ T.err # Unopened
        BY <3>3, <3>5 DEF Ok, Unopened
      <3>7. Kept(S, T, m, K, name)
        BY ZenonT(40), <2>0, <3>4, <3>6 DEF Kept, Good
      <3> QED
        BY <3>6, <3>7 DEF T, ms, entry
    <2> QED
      BY ZenonT(40), <2>2, <2>3, <2>4
  <1> QED
    BY <1>1, <1>2

\* mount_single_partition adds the mount point, or leaves the table alone.
LEMMA MountNamedStep ==
    ASSUME NEW S, NEW m, NEW K, K \subseteq {"ext4", "fat", "ram"}, Good(S, m, K),
           NEW name \in Seq(Frag), NEW fs \in FsIds
    PROVE  LET T == MountNamed(S, name, fs)
           IN  /\ Good(T, m, K) /\ (T.err = Unopened => S.err = Unopened)
               /\ \/ T.mounts = S.mounts
                  \/ T.mounts = Append(S.mounts, [name |-> name, fs |-> fs])
  <1> DEFINE T == MountNamed(S, name, fs)
             r == fs_create(S.F, Node(m, <<name>>), Dir)
             U == [S EXCEPT !.F = r.F]
  <1>0. /\ S \in [F : {S.F}, main : {m}, mounts : Seq(MountEntry), err : {S.err}]
        /\ S.main = m /\ S.mounts \in Seq(MountEntry) /\ Rooted(S.F, m, K) /\ Distinct(S.mounts)
    BY DEF Good
  <1>1. Rooted(r.F, m, K)
    <2>1. MadeFrom(S.F, r, m, K, name)
      BY <1>0, DirMade, Zenon
    <2> HIDE DEF r
    <2> QED
      BY <2>1 DEF MadeFrom
  <1>2. T = MountIn(S, r, name, fs)
    BY <1>0 DEF MountNamed
  <1> HIDE DEF r, T
  <1>3. Good(U, m, K) /\ U.mounts = S.mounts
    <2>1. U \in [F : {r.F}, main : {m}, mounts : {S.mounts}, err : {S.err}]
      BY <1>0
    <2> HIDE DEF U
    <2>2. /\ U \in [F : {U.F}, main : {m}, mounts : Seq(MountEntry), err : {U.err}]
          /\ U.F = r.F /\ U.mounts = S.mounts
      BY <1>0, <2>1
    <2> QED
      BY <1>0, <1>1, <2>2 DEF Good
  <1>4. T = S \/ T = mount(U, name, fs)
    BY <1>2 DEF MountIn
  <1> HIDE DEF U
  <1>5. /\ Good(mount(U, name, fs), m, K) /\ mount(U, name, fs).err # Unopened
        /\ \/ mount(U, name, fs).mounts = U.mounts
           \/ mount(U, name, fs).mounts = Append(U.mounts, [name |-> name, fs |-> fs])
    BY ZenonT(40), <1>3, MountStep DEF Kept
  <1> QED
    BY SMTT(30), <1>3, <1>4, <1>5 DEF T

\* Every mount point of ms has its name from N.
NamesFrom(ms, N) == \A j \in 1 .. Len(ms) : ms[j].name \in N

\* A mount point more brings its own name only.
LEMMA NamesAppend ==
    ASSUME NEW N, NEW ms \in Seq(MountEntry), NamesFrom(ms, N), NEW name \in Seq(Frag), NEW fs \in FsIds
    PROVE  NamesFrom(Append(ms, [name |-> name, fs |-> fs]), N \cup {name})
  <1> DEFINE e == [name |-> name, fs |-> fs]
  <1>1. e \in MountEntry /\ e.name = name
    BY DEF MountEntry
  <1> HIDE DEF e
  <1>2. /\ Len(Append(ms, e)) = Len(ms) + 1 /\ Append(ms, e)[Len(ms) + 1] = e
        /\ \A j \in 1 .. Len(ms) : Append(ms, e)[j] = ms[j]
    BY <1>1
  <1>3. NamesFrom(Append(ms, e), N \cup {name})
    BY <1>1, <1>2 DEF NamesFrom
  <1> QED
    BY <1>3 DEF e

\* The names that the partitions have as mount points.
PartNames == {MountName(parts[i]) : i \in 1 .. Len(parts)}

\* A file system was found that does not open.
Unopenable == \E i \in 1 .. Len(parts) : Supported(parts[i]) /\ ~Opens(parts[i])

\* The mount points of the other partitions have the names of partitions.
LEMMA OthersMounted ==
    ASSUME NEW S, NEW m, NEW K, K \subseteq {"ext4", "fat", "ram"}, Good(S, m, K), S.mounts = << >>, S.err = Ok,
           Len(parts) \in Nat, \A i \in 1 .. Len(parts) : parts[i].name \in Seq(Frag), NEW root
    PROVE  LET T == mount_additional_partitions(S, root)
           IN  Good(T, m, K) /\ NamesFrom(T.mounts, PartNames) /\ (T.err = Unopened => Unopenable)
  <1> DEFINE n == Len(parts)
             Q(T) == Good(T, m, K) /\ NamesFrom(T.mounts, PartNames) /\ (T.err = Unopened => Unopenable)
  <1>1. PICK c : /\ c[0] = MakeBoot(S) /\ c[n] = mount_additional_partitions(S, root)
                 /\ \A k \in 0 .. n - 1 : c[k + 1] = MountOther(root, c[k], k + 1)
    <2>1. n \in Nat /\ n = Len(parts)
      OBVIOUS
    <2> HIDE DEF n
    <2> QED
      BY ONLY <2>1, MountFold, SMTT(30)
  <1>2. Q(MakeBoot(S))
    <2> DEFINE r == fs_create(S.F, Node(m, <<<<"boot">>>>), Dir)
               U == [S EXCEPT !.F = r.F]
    <2>0. /\ S \in [F : {S.F}, main : {m}, mounts : Seq(MountEntry), err : {S.err}]
          /\ S.main = m /\ Rooted(S.F, m, K)
      BY DEF Good
    <2>1. Rooted(r.F, m, K)
      <3>1. MadeFrom(S.F, r, m, K, <<"boot">>)
        BY <2>0, DirMade, Zenon
      <3> HIDE DEF r
      <3> QED
        BY <3>1 DEF MadeFrom
    <2>2. MakeBoot(S) = U
      BY <2>0 DEF MakeBoot
    <2> HIDE DEF r
    <2>3. U \in [F : {r.F}, main : {m}, mounts : {S.mounts}, err : {S.err}]
      BY <2>0
    <2> HIDE DEF U
    <2>4. /\ U \in [F : {U.F}, main : {m}, mounts : Seq(MountEntry), err : {U.err}]
          /\ U.F = r.F /\ U.mounts = << >> /\ U.err # Unopened
      BY <2>0, <2>3 DEF Ok, Unopened
    <2>5. Distinct(<< >>) /\ NamesFrom(<< >>, PartNames)
      BY DEF Distinct, NamesFrom
    <2> QED
      BY <2>1, <2>2, <2>4, <2>5 DEF Good
  <1>3. ASSUME NEW T, Q(T), NEW i \in 1 .. n
        PROVE  Q(MountOther(root, T, i))
    <2> DEFINE name == MountName(parts[i])
               V == MountNamed(T, name, PartFs(i))
    <2>1. name \in Seq(Frag) /\ name \in PartNames
      <3>1. <<"boot">> \in Seq(Frag)
        BY Singleton DEF Frag
      <3> QED
        BY <3>1 DEF MountName, PartNames
    <2>2. PartFs(i) \in FsIds
      BY DEF FsIds
    <2> HIDE DEF name
    <2>3. /\ Good(V, m, K) /\ (V.err = Unopened => T.err = Unopened)
          /\ \/ V.mounts = T.mounts
             \/ V.mounts = Append(T.mounts, [name |-> name, fs |-> PartFs(i)])
      BY Zenon, <1>3, <2>1, <2>2, MountNamedStep
    <2>4. T.mounts \in Seq(MountEntry)
      BY <1>3 DEF Good
    <2>5. NamesFrom(Append(T.mounts, [name |-> name, fs |-> PartFs(i)]), PartNames)
      <3>1. PartNames \cup {name} = PartNames
        BY <2>1
      <3>2. NamesFrom(T.mounts, PartNames)
        BY Zenon, <1>3
      <3>3. NamesFrom(Append(T.mounts, [name |-> name, fs |-> PartFs(i)]), PartNames \cup {name})
        BY ONLY <2>1, <2>2, <2>4, <3>2, NamesAppend, Zenon
      <3> QED
        BY ONLY <3>1, <3>3, Zenon
    <2>6. Q(V)
      BY ZenonT(40), <1>3, <2>3, <2>5
    <2>7. ASSUME Supported(parts[i]), ~Opens(parts[i])
          PROVE  Q([T EXCEPT !.err = Unopened])
      <3> DEFINE W == [T EXCEPT !.err = Unopened]
      <3>1. T \in [F : {T.F}, main : {m}, mounts : Seq(MountEntry), err : {T.err}]
        BY <1>3 DEF Good
      <3>2. /\ W \in [F : {T.F}, main : {m}, mounts : Seq(MountEntry), err : {Unopened}]
            /\ W.F = T.F /\ W.mounts = T.mounts /\ W.err = Unopened
        BY <3>1
      <3> HIDE DEF W
      <3>3. Good(W, m, K)
        BY <1>3, <3>2 DEF Good
      <3>4. Unopenable
        BY Zenon, <2>7 DEF Unopenable
      <3>5. Q(W)
        BY ZenonT(40), <1>3, <3>2, <3>3, <3>4
      <3> QED
        BY <3>5 DEF W
    <2>8. \/ MountOther(root, T, i) = V \/ MountOther(root, T, i) = T
          \/ /\ Supported(parts[i]) /\ ~Opens(parts[i])
             /\ MountOther(root, T, i) = [T EXCEPT !.err = Unopened]
      BY DEF MountOther, mount_single_partition, name
    <2> HIDE DEF Q, V
    <2> QED
      BY ZenonT(40), <1>3, <2>6, <2>7, <2>8
  <1> HIDE DEF Q
  <1> DEFINE D == {k \in 0 .. n : Q(c[k])}
  <1>4. 0 \in D
    BY SMTT(30), <1>1, <1>2
  <1>5. ASSUME NEW k \in 0 .. n - 1, k \in D
        PROVE  k + 1 \in D
    <2>1. k + 1 \in 1 .. n /\ k + 1 \in 0 .. n /\ c[k + 1] = MountOther(root, c[k], k + 1) /\ Q(c[k])
      BY <1>1, <1>5
    <2> QED
      BY SMTT(30), <2>1, <1>3
  <1> HIDE DEF D
  <1>6. 0 .. n \subseteq D
    BY Zenon, <1>4, <1>5, BoundedInduction
  <1>7. Q(c[n])
    BY <1>6 DEF D
  <1> QED
    BY <1>1, <1>7 DEF Q

\* The reasons for which /proc or /sys cannot be mounted.
Unmountable(F, m, N) ==
    \/ {<<"proc">>, <<"sys">>} \cap N # {}
    \/ IsFull(F, m)
    \/ \E name \in {<<"proc">>, <<"sys">>} :
         Exists(F, Node(m, <<name>>)) /\ ~IsDir(F, Node(m, <<name>>))

\* The file system and the path of a node.
LEMMA NodeIs ==
    ASSUME NEW fs, NEW path
    PROVE  Node(fs, path).fs = fs /\ Node(fs, path).path = path
  BY DEF Node

\* mount_virtual_fs fails for one of these reasons only.
LEMMA VirtualMounted ==
    ASSUME NEW S, S.err # Unopened, NEW m, NEW K, K \subseteq {"ext4", "fat", "ram"}, Good(S, m, K),
           NEW N, NamesFrom(S.mounts, N),
           S.F[m].kind = "ram" => DOMAIN S.F[m].nodes \subseteq {<< >>}
    PROVE  LET T == mount_virtual_fs(S)
           IN  Good(T, m, K) /\ (T.err # Ok => Unmountable(T.F, m, N))
  <1> DEFINE p == <<"proc">>
             y == <<"sys">>
             U == mount(S, p, Proc)
             T == mount(U, y, Sys)
  <1>1. p \in Seq(Frag) /\ y \in Seq(Frag) /\ p # y /\ Proc \in FsIds /\ Sys \in FsIds
    BY Singleton DEF Frag, FsIds
  <1>2. <<p>> # << >> /\ <<y>> # << >> /\ <<p>> # <<y>>
    BY <1>1
  <1> DEFINE Failed(V, W, M, name) ==
               /\ W.err # Ok /\ W.F = V.F
               /\ (\E j \in 1 .. Len(M) : M[j].name = name) \/ Refused(W.F, m, name)
  <1> HIDE DEF p, y, U, T, Failed
  <1>3. /\ Kept(S, U, m, K, p)
        /\ \/ U.err = Ok /\ U.mounts = Append(S.mounts, [name |-> p, fs |-> Proc])
           \/ Failed(S, U, S.mounts, p)
    BY Zenon, <1>1, MountStep DEF U, Failed
  <1>4. S.mounts \in Seq(MountEntry)
    BY DEF Good
  <1>5. CASE U.err # Ok
    <2>1. Good(U, m, K)
      BY <1>3 DEF Kept
    <2>2. (\E j \in 1 .. Len(S.mounts) : S.mounts[j].name = p) => p \in N
      BY DEF NamesFrom
    <2>3. U.F[m].kind = "ram" => ~Exists(U.F, Node(m, <<p>>))
      <3>1. U.F = S.F
        BY <1>3, <1>5 DEF Failed
      <3>2. U.F[m].kind = "ram" => DOMAIN U.F[m].nodes \subseteq {<< >>}
        BY Zenon, <3>1
      <3> QED
        BY ONLY <1>2, <3>2, NodeIs, SMTT(30) DEF Exists
    <2>4. Unmountable(U.F, m, N)
      <3>1. \/ p \in N \/ IsFull(U.F, m)
            \/ Exists(U.F, Node(m, <<p>>)) /\ ~IsDir(U.F, Node(m, <<p>>))
        BY ZenonT(40), <1>3, <1>5, <2>2, <2>3 DEF Failed, Refused
      <3> QED
        BY Zenon, <3>1 DEF Unmountable, p
    <2>5. mount_virtual_fs(S) = U
      BY ZenonT(40), <1>5 DEF mount_virtual_fs, mount_sys, U, p
    <2> QED
      BY ZenonT(40), <2>1, <2>4, <2>5
  <1>6. CASE U.err = Ok
    <2>0. Good(U, m, K) /\ U.mounts = Append(S.mounts, [name |-> p, fs |-> Proc])
      BY <1>3, <1>6 DEF Kept, Failed
    <2>1. /\ Kept(U, T, m, K, y)
          /\ \/ T.err = Ok /\ T.mounts = Append(U.mounts, [name |-> y, fs |-> Sys])
             \/ Failed(U, T, U.mounts, y)
      BY ZenonT(40), <1>1, <2>0, MountStep DEF T, Failed
    <2>2. NamesFrom(U.mounts, N \cup {p})
      <3>1. NamesFrom(Append(S.mounts, [name |-> p, fs |-> Proc]), N \cup {p})
        BY Zenon, <1>1, <1>4, NamesAppend
      <3> QED
        BY Zenon, <2>0, <3>1
    <2>3. (\E j \in 1 .. Len(U.mounts) : U.mounts[j].name = y) => y \in N
      BY SMTT(30), <1>1, <2>2 DEF NamesFrom
    <2>4. ASSUME T.F = U.F, T.F[m].kind = "ram"
          PROVE  ~Exists(T.F, Node(m, <<y>>))
      <3>1. U.F[m].kind = S.F[m].kind /\ DOMAIN U.F[m].nodes \subseteq DOMAIN S.F[m].nodes \cup {<<p>>}
        BY <1>3 DEF Kept
      <3>2. DOMAIN T.F[m].nodes \subseteq {<< >>} \cup {<<p>>}
        BY Zenon, <2>4, <3>1
      <3> QED
        BY ONLY <1>2, <3>2, NodeIs, SMTT(30) DEF Exists
    <2>5. T.err # Ok => Unmountable(T.F, m, N)
      <3>1. \/ T.err = Ok \/ y \in N \/ IsFull(T.F, m)
            \/ Exists(T.F, Node(m, <<y>>)) /\ ~IsDir(T.F, Node(m, <<y>>))
        BY ZenonT(40), <2>1, <2>3, <2>4 DEF Failed, Refused
      <3> QED
        BY ZenonT(40), <3>1 DEF Unmountable, y
    <2>6. mount_virtual_fs(S) = T
      BY <1>6 DEF mount_virtual_fs, mount_sys, U, T, p, y
    <2> QED
      BY ZenonT(40), <2>1, <2>5, <2>6 DEF Kept
  <1> QED
    BY <1>5, <1>6

-----------------------------------------------------------------------------
(* Looking up paths.                                                       *)

\* An element of a sequence.
LEMMA Element ==
    ASSUME NEW S, NEW s \in Seq(S), NEW j \in 1 .. Len(s)
    PROVE  s[j] \in S
  OBVIOUS

\* A prefix as long as the whole is the whole.
LEMMA PrefixIs ==
    ASSUME NEW S, NEW s \in Seq(S), NEW t \in Seq(S)
    PROVE  /\ Len(s) \in Nat /\ Len(t) \in Nat
           /\ Begins(s, t) => Len(s) <= Len(t) /\ (Len(s) = Len(t) => s = t)
           /\ s = t => Begins(s, t)
  <1>1. SubSeq(s, 1, Len(s)) = s /\ SubSeq(t, 1, Len(t)) = t /\ Len(s) \in Nat /\ Len(t) \in Nat
    OBVIOUS
  <1>2. ASSUME Begins(s, t)
        PROVE  Len(s) <= Len(t) /\ (Len(s) = Len(t) => s = t)
    BY Zenon, <1>1, <1>2 DEF Begins
  <1>3. ASSUME s = t
        PROVE  Begins(s, t)
    BY <1>1, <1>3 DEF Begins
  <1> QED
    BY Zenon, <1>1, <1>2, <1>3

\* The longest mount point that fits the name of a mount point is that one.
LEMMA MountFound ==
    ASSUME mounts \in Seq(MountEntry), Distinct(mounts), NEW i \in 1 .. Len(mounts)
    PROVE  Route(<<mounts[i].name>>) = Node(mounts[i].fs, << >>)
  <1> DEFINE n == mounts[i].name
             fits == {j \in 1 .. Len(mounts) : Begins(mounts[j].name, n)}
             Best(k) == k \in fits /\ \A j \in fits : Len(mounts[j].name) <= Len(mounts[k].name)
  <1>1. \A j \in 1 .. Len(mounts) : mounts[j].name \in Seq(Frag)
    <2>1. \A e \in MountEntry : e.name \in Seq(Frag)
      BY DEF MountEntry
    <2> QED
      BY <2>1, Element
  <1>2. n \in Seq(Frag) /\ Len(n) \in Nat
    BY <1>1
  <1> HIDE DEF n
  <1>3. ASSUME NEW s \in Seq(Frag)
        PROVE  /\ Begins(s, n) => Len(s) <= Len(n) /\ (Len(s) = Len(n) => s = n)
               /\ s = n => Begins(s, n)
    BY <1>2, PrefixIs
  <1>4. Best(i)
    BY <1>1, <1>2, <1>3 DEF n
  <1>5. ASSUME NEW k, Best(k)
        PROVE  k = i
    <2>1. k \in 1 .. Len(mounts) /\ mounts[k].name \in Seq(Frag) /\ Begins(mounts[k].name, n)
      BY SMTT(30), <1>1, <1>5
    <2>2. Len(mounts[k].name) \in Nat /\ Len(n) <= Len(mounts[k].name)
      BY SMTT(30), <1>4, <1>5, <2>1 DEF n
    <2>3. mounts[k].name = n
      BY SMTT(30), <1>2, <1>3, <2>1, <2>2
    <2> QED
      BY <2>1, <2>3 DEF Distinct, n
  <1>6. find_best_mount(<<n>>) = Longest(fits)
    <2>1. <<n>> # << >> /\ <<n>>[1] = n
      OBVIOUS
    <2> QED
      BY <2>1 DEF find_best_mount
  <1>7. Longest(fits) = i
    <2>1. fits # {} /\ Longest(fits) = CHOOSE k \in fits : \A j \in fits : Len(mounts[j].name) <= Len(mounts[k].name)
      BY Zenon, <1>4 DEF Longest
    <2>2. Best(Longest(fits))
      <3> HIDE DEF fits
      <3> QED
        BY Zenon, <1>4, <2>1
    <2> QED
      BY <1>5, <2>2
  <1>8. Rest(<<n>>, n) = << >>
    <2>1. <<n>>[1] = n /\ SubSeq(n, Len(n) + 1, Len(n)) = << >> /\ Tail(<<n>>) = << >>
      BY <1>2
    <2> QED
      BY <2>1 DEF Rest
  <1>9. Route(<<n>>) = Node(mounts[i].fs, << >>)
    <2>1. i # 0
      OBVIOUS
    <2> QED
      BY SMTT(30), <1>6, <1>7, <1>8, <2>1 DEF Route, RouteBy, n
  <1> QED
    BY <1>9 DEF n

\* CURRENT_DIR is the node of CURRENT_DIR_PATH.
DirAgrees ==
    /\ cwd.path \in Seq(Seq(STRING))
    /\ cwd.node = IF cwd.path = << >> THEN ROOT_DIR ELSE Route(cwd.path)

\* Appending leaves the first component of a path alone.
LEMMA Joined ==
    ASSUME NEW S, NEW path \in Seq(S), path # << >>, NEW comps \in Seq(S)
    PROVE  /\ path \o comps # << >> /\ (path \o comps)[1] = path[1]
           /\ Tail(path \o comps) = Tail(path) \o comps
  OBVIOUS

\* What is left of a path below a mount point, when components are appended.
LEMMA RestAppended ==
    ASSUME NEW S, NEW path \in Seq(S), path # << >>, NEW comps \in Seq(S), NEW name
    PROVE  Rest(path \o comps, name) = Rest(path, name) \o comps
  <1>1. (path \o comps)[1] = path[1] /\ Tail(path \o comps) = Tail(path) \o comps
    BY Joined
  <1>2. Tail(path) \in Seq(S)
    OBVIOUS
  <1>3. ASSUME NEW x
        PROVE  <<x>> \o (Tail(path) \o comps) = (<<x>> \o Tail(path)) \o comps
    <2> DEFINE X == S \cup {x}
    <2>1. <<x>> \in Seq(X) /\ Tail(path) \in Seq(X) /\ comps \in Seq(X)
      BY <1>2
    <2> HIDE DEF X
    <2> QED
      BY <2>1
  <1> QED
    BY SMTT(30), <1>1, <1>3 DEF Rest

\* A relative path leads to where the path of the current directory followed by it does.
LEMMA RelativeRoute ==
    ASSUME DirAgrees, NEW p, ~p.abs, p.comps \in Seq(Seq(STRING))
    PROVE  Target(p) = Route(cwd.path \o p.comps)
  <1>1. CASE cwd.path = << >>
    <2>1. cwd.path \o p.comps = p.comps
      BY <1>1
    <2>2. cwd.node = ROOT_DIR /\ ROOT_DIR.root
      BY <1>1 DEF DirAgrees, ROOT_DIR
    <2> QED
      BY <2>1, <2>2 DEF Target, From, parent_node_of
  <1>2. CASE cwd.path # << >>
    <2> DEFINE path == cwd.path
               comps == p.comps
               i == find_best_mount(path)
    <2>1. path \in Seq(Seq(STRING)) /\ cwd.node = Route(path)
      BY <1>2 DEF DirAgrees
    <2>2. path \o comps # << >> /\ (path \o comps)[1] = path[1]
      <3>1. path # << >> /\ path \in Seq(Seq(STRING)) /\ comps \in Seq(Seq(STRING))
        BY <1>2, <2>1
      <3> HIDE DEF path, comps
      <3> QED
        BY <3>1, Joined
    <2>3. find_best_mount(path \o comps) = i
      BY Zenon, <1>2, <2>2 DEF find_best_mount
    <2>4. Rest(path \o comps, mounts[i].name) = Rest(path, mounts[i].name) \o comps
      <3> HIDE DEF path, i
      <3> QED
        BY ZenonT(40), <1>2, <2>1, RestAppended DEF path
    <2>5. Target(p) = Node(Route(path).fs, Route(path).path \o comps)
      BY <2>1 DEF Target, From, parent_node_of, Route, RouteBy, Node
    <2> HIDE DEF i
    <2>6. Route(path) = RouteBy(path, i) /\ Route(path \o comps) = RouteBy(path \o comps, i)
      BY <2>3 DEF Route, i
    <2>7. CASE i = 0
      <3>1. Route(path) = Node(main, path) /\ Route(path \o comps) = Node(main, path \o comps)
        BY SMTT(30), <2>6, <2>7 DEF RouteBy
      <3>2. Route(path).fs = main /\ Route(path).path = path
        BY <3>1, NodeIs
      <3> QED
        BY Zenon, <2>5, <3>1, <3>2
    <2>8. CASE i # 0
      <3>1. Route(path) = Node(mounts[i].fs, Rest(path, mounts[i].name))
        BY SMTT(30), <2>6, <2>8 DEF RouteBy
      <3>2. Route(path \o comps) = Node(mounts[i].fs, Rest(path, mounts[i].name) \o comps)
        BY SMTT(30), <2>4, <2>6, <2>8 DEF RouteBy
      <3>3. Route(path).fs = mounts[i].fs /\ Route(path).path = Rest(path, mounts[i].name)
        BY <3>1, NodeIs
      <3> QED
        BY Zenon, <2>5, <3>2, <3>3
    <2> QED
      BY <2>7, <2>8
  <1> QED
    BY <1>1, <1>2

-----------------------------------------------------------------------------
(* The choice of the root.                                                 *)

\* The first partition that matches.
FirstMatching(ps, spec) == FirstPart({i \in 1 .. Len(ps) : Matches(ps[i], spec)})

\* It is 0, or the place of a partition that matches.
LEMMA FirstMatch ==
    ASSUME NEW S, NEW ps \in Seq(S), NEW spec
    PROVE  LET r == FirstMatching(ps, spec)
           IN  \/ r = 0 /\ \A i \in 1 .. Len(ps) : ~Matches(ps[i], spec)
               \/ r \in 1 .. Len(ps) /\ Matches(ps[r], spec)
  <1> DEFINE I == {i \in 1 .. Len(ps) : Matches(ps[i], spec)}
             r == FirstMatching(ps, spec)
  <1>1. r = IF I = {} THEN 0 ELSE Min(I)
    BY Zenon DEF FirstMatching, FirstPart
  <1>2. I \subseteq Nat
    OBVIOUS
  <1>3. I # {} => Min(I) \in I
    <2> HIDE DEF I
    <2> QED
      BY Zenon, <1>2, MinLeast
  <1> HIDE DEF r
  <1>4. \/ r = 0 /\ \A i \in 1 .. Len(ps) : ~Matches(ps[i], spec)
        \/ r \in 1 .. Len(ps) /\ Matches(ps[r], spec)
    BY Zenon, <1>1, <1>3
  <1> QED
    BY <1>4 DEF r

\* find_first_supported_partition finds a supported one if there is one.
LEMMA FirstSupported ==
    ASSUME NEW S, NEW ps \in Seq(S)
    PROVE  LET r == find_first_supported_partition(ps)
           IN  \/ r = 0 /\ \A i \in 1 .. Len(ps) : ~Supported(ps[i])
               \/ r \in 1 .. Len(ps) /\ Supported(ps[r])
  <1> DEFINE I == {i \in 1 .. Len(ps) : Supported(ps[i])}
             r == find_first_supported_partition(ps)
  <1>1. r = IF I = {} THEN 0 ELSE Min(I)
    BY Zenon DEF find_first_supported_partition, FirstPart
  <1>2. I \subseteq Nat
    OBVIOUS
  <1>3. I # {} => Min(I) \in I
    <2> HIDE DEF I
    <2> QED
      BY Zenon, <1>2, MinLeast
  <1> HIDE DEF r
  <1>4. \/ r = 0 /\ \A i \in 1 .. Len(ps) : ~Supported(ps[i])
        \/ r \in 1 .. Len(ps) /\ Supported(ps[r])
    BY Zenon, <1>1, <1>3
  <1> QED
    BY <1>4 DEF r

\* The partition that the argument asks for.
Wanted(ps, a) == find_root_partition(ps, parse_root_spec(a))

\* It is 0 or the place of a partition.
LEMMA WantedIs ==
    ASSUME NEW S, NEW ps \in Seq(S), NEW a \in BootArgs
    PROVE  Wanted(ps, a) = 0 \/ Wanted(ps, a) \in 1 .. Len(ps)
  <1> DEFINE spec == parse_root_spec(a)
  <1>1. CASE spec.field = "partition_index"
    <2>1. spec.value \in Nat
      <3>1. CASE a.form \in {"/dev/sda", "/dev/mmcblk"}
        <4>1. a.value \in Int
          BY <3>1, FilesAssumption
        <4>2. a.value > 0 /\ spec = RootSpec("partition_index", a.value - 1)
          BY <1>1, <3>1 DEF parse_root_spec, parse_device_path, parse_mmcblk_path, NoSpec, RootSpec
        <4> QED
          BY <4>1, <4>2 DEF RootSpec
      <3>2. CASE a.form \notin {"/dev/sda", "/dev/mmcblk"}
        BY <1>1, <3>2 DEF parse_root_spec, NoSpec, RootSpec
      <3> QED
        BY <3>1, <3>2
    <2> HIDE DEF spec
    <2>2. find_root_partition(ps, spec) = IF spec.value < Len(ps) THEN spec.value + 1 ELSE 0
      BY <1>1 DEF find_root_partition
    <2>3. Len(ps) \in Nat
      OBVIOUS
    <2> QED
      BY <2>1, <2>2, <2>3 DEF Wanted, spec
  <1>2. CASE spec.field # "partition_index"
    <2>1. Wanted(ps, a) = FirstMatching(ps, spec)
      BY <1>2 DEF Wanted, find_root_partition, FirstMatching
    <2> HIDE DEF spec
    <2> QED
      BY Zenon, <2>1, FirstMatch
  <1> QED
    BY <1>1, <1>2

\* The root is a supported partition whenever one is listed.
LEMMA RootFound ==
    ASSUME NEW S, NEW ps \in Seq(S), NEW a \in BootArgs, find_first_supported_partition(ps) # 0
    PROVE  LET r == find_root_filesystem(ps, Wanted(ps, a))
           IN  r \in 1 .. Len(ps) /\ Supported(ps[r])
  <1> DEFINE w == Wanted(ps, a)
             f == find_first_supported_partition(ps)
  <1>1. w = 0 \/ w \in 1 .. Len(ps)
    BY Zenon, WantedIs
  <1>2. f \in 1 .. Len(ps) /\ Supported(ps[f])
    BY Zenon, FirstSupported
  <1>3. find_root_filesystem(ps, w) = IF w # 0 /\ Supported(ps[w]) THEN w ELSE f
    BY <1>1 DEF find_root_filesystem, try_use_specified_partition
  <1> HIDE DEF w, f
  <1> QED
    BY <1>1, <1>2, <1>3 DEF w

\* What root= asks for is what is named.
LEMMA NamedIsRoot ==
    ASSUME NEW S, parts \in Seq(S), arg \in BootArgs, NoHole,
           NEW i \in 1 .. Len(parts), Supported(parts[i]), Named(parts[i])
    PROVE  Named(parts[find_root_filesystem(parts, Wanted(parts, arg))])
  <1> DEFINE spec == parse_root_spec(arg)
             w == Wanted(parts, arg)
  <1>0. Len(parts) \in Nat
    OBVIOUS
  <1>1. ASSUME w # 0, Supported(parts[w]), Named(parts[w])
        PROVE  Named(parts[find_root_filesystem(parts, w)])
    BY <1>1 DEF find_root_filesystem, try_use_specified_partition
  <1>2. CASE arg.form \in {"/dev/sda", "/dev/mmcblk"}
    <2>1. arg.value = i
      <3>1. parts[i].index + 1 = arg.value /\ arg.value \in Int
        BY <1>2, FilesAssumption DEF Named
      <3>2. parts[i].index + 1 <= arg.value
        BY ONLY <3>1
      <3>3. parts[i].index = i - 1
        BY Zenon, <1>2, <3>2 DEF NoHole
      <3> QED
        BY <3>1, <3>3
    <2>2. spec = RootSpec("partition_index", i - 1)
      BY <1>2, <2>1 DEF parse_root_spec, parse_device_path, parse_mmcblk_path
    <2>3. w = i
      <3>1. spec.field = "partition_index" /\ spec.value = i - 1
        BY <2>2 DEF RootSpec
      <3> HIDE DEF spec
      <3>2. w = IF spec.value < Len(parts) THEN spec.value + 1 ELSE 0
        BY <3>1 DEF find_root_partition, Wanted, spec
      <3> QED
        BY SMTT(30), <1>0, <3>1, <3>2
    <2>4. i # 0
      OBVIOUS
    <2> HIDE DEF w
    <2> QED
      BY SMTT(30), <1>1, <2>3, <2>4 DEF w
  <1>3. CASE arg.form \in {"PARTUUID=", "UUID=", "PARTLABEL="}
    <2>1. /\ spec.field # "partition_index"
          /\ \A p : Matches(p, spec) <=> Supported(p) /\ Named(p)
      BY <1>3 DEF parse_root_spec, RootSpec, Matches, Named
    <2> HIDE DEF spec
    <2>2. w = FirstMatching(parts, spec)
      BY <2>1 DEF Wanted, find_root_partition, FirstMatching, spec
    <2>3. w \in 1 .. Len(parts) /\ Matches(parts[w], spec)
      BY Zenon, <2>1, <2>2, FirstMatch
    <2> HIDE DEF w
    <2>4. w # 0 /\ Supported(parts[w]) /\ Named(parts[w])
      BY SMTT(30), <1>0, <2>1, <2>3
    <2> QED
      BY SMTT(30), <1>1, <2>4 DEF w
  <1>4. CASE arg.form \notin {"/dev/sda", "/dev/mmcblk", "PARTUUID=", "UUID=", "PARTLABEL="}
    BY <1>4 DEF Named
  <1> QED
    BY <1>2, <1>3, <1>4

-----------------------------------------------------------------------------
(* The states that RootIs is given.                                        *)

\* Before anything is mounted the table is empty.
LEMMA BareIs ==
    ASSUME NEW F, NEW m, NEW K, Rooted(WithVirtualFs(F), m, K)
    PROVE  LET S == Bare(F, m)
           IN  Good(S, m, K) /\ S.mounts = << >> /\ S.F = WithVirtualFs(F) /\ S.err = Ok
  <1> DEFINE S == Bare(F, m)
  <1>1. /\ S \in [F : {S.F}, main : {m}, mounts : Seq(MountEntry), err : {S.err}]
        /\ S.mounts = << >> /\ S.F = WithVirtualFs(F) /\ S.err = Ok
    BY DEF Bare
  <1>2. Distinct(<< >>)
    BY DEF Distinct
  <1> HIDE DEF S
  <1>3. Good(S, m, K) /\ S.mounts = << >> /\ S.F = WithVirtualFs(F) /\ S.err = Ok
    BY <1>1, <1>2 DEF Good
  <1> QED
    BY <1>3 DEF S

\* /proc and /sys do not replace other file systems.
LEMMA OtherFs ==
    ASSUME NEW F, NEW m \in DOMAIN F, m # Proc, m # Sys
    PROVE  m \in DOMAIN WithVirtualFs(F) /\ WithVirtualFs(F)[m] = F[m]
  BY DEF WithVirtualFs

\* What init_rootfs_with_partitions and init_rootfs_with_ramfs mount.
BootFs(ps) ==
    [fs \in {PartFs(i) : i \in {j \in 1 .. Len(ps) : Supported(ps[j])}} |-> PartitionFs(ps[fs[2]])]
Mountable(T, m) ==
    /\ T.main = m /\ T.mounts \in Seq(MountEntry) /\ Distinct(T.mounts)
    /\ T.err # Ok => Unopenable \/ Unmountable(T.F, m, PartNames)

\* The state that init_rootfs_with_partitions starts from.
BootBare(root) == Bare(BootFs(parts), PartFs(root))

\* init_rootfs_with_partitions leaves a mount table, or a reason to panic.
LEMMA PartitionsMounted ==
    ASSUME disk \in Disks, parts \in Seq(PartsOf(disk)), NEW root \in 1 .. Len(parts), Supported(parts[root])
    PROVE  /\ Mountable(mount_virtual_fs(mount_additional_partitions(BootBare(root), root)), PartFs(root))
           /\ ~Opens(parts[root]) => Mountable([BootBare(root) EXCEPT !.err = Unopened], PartFs(root))
  <1> DEFINE m == PartFs(root)
             F == BootFs(parts)
             K == {"ext4", "fat"}
             S == mount_additional_partitions(Bare(F, m), root)
  <1>1. m \in DOMAIN F /\ m # Proc /\ m # Sys /\ m[2] = root
    BY DEF BootFs, PartFs, Proc, Sys
  <1>2. F[m] = PartitionFs(parts[root])
    BY <1>1 DEF BootFs
  <1>3. parts[root] \in PartsOf(disk)
    BY SMTT(30), Element
  <1>4. Rooted(WithVirtualFs(F), m, K)
    <2>1. m \in DOMAIN WithVirtualFs(F) /\ WithVirtualFs(F)[m] = PartitionFs(parts[root])
      BY ZenonT(40), <1>1, <1>2, OtherFs
    <2> DEFINE d == PartitionFs(parts[root])
    <2>2. /\ d \in [kind : K, cap : {d.cap}, nodes : {d.nodes}, stuck : {d.stuck}]
          /\ d.nodes = disk.fs_at[parts[root].start_lba].nodes
      BY SMTT(30) DEF PartitionFs
    <2>3. << >> \in DOMAIN d.nodes /\ d.nodes[<< >>] = Dir
      BY <1>3, <2>2, RootDirectory
    <2> HIDE DEF d, K
    <2> QED
      BY <2>1, <2>2, <2>3 DEF Rooted, d
  <1>5. K \subseteq {"ext4", "fat", "ram"}
    OBVIOUS
  <1>6. Len(parts) \in Nat /\ \A i \in 1 .. Len(parts) : parts[i].name \in Seq(Frag)
    BY Element, PartitionIs
  <1> HIDE DEF m, F
  <1>0. Good(Bare(F, m), m, K) /\ Bare(F, m).mounts = << >> /\ Bare(F, m).err = Ok
    BY Zenon, <1>4, BareIs
  <1>7. Good(S, m, K) /\ NamesFrom(S.mounts, PartNames) /\ (S.err = Unopened => Unopenable)
    <2> HIDE DEF K
    <2> QED
      BY Zenon, <1>0, <1>5, <1>6, OthersMounted
  <1>8. S.F[m].kind # "ram"
    BY <1>7 DEF Good, Rooted
  <1> DEFINE T == mount_virtual_fs(S)
  <1> HIDE DEF K, S
  <1>9. Good(T, m, K) /\ (T.err # Ok => Unopenable \/ Unmountable(T.F, m, PartNames))
    <2>1. CASE S.err = Unopened
      <3>1. T = S
        BY <2>1 DEF mount_virtual_fs
      <3> HIDE DEF T
      <3> QED
        BY SMTT(30), <1>7, <2>1, <3>1
    <2>2. CASE S.err # Unopened
      BY Zenon, <1>5, <1>7, <1>8, <2>2, VirtualMounted
    <2> QED
      BY <2>1, <2>2
  <1>10. Mountable(T, m)
    BY <1>9 DEF Good, Mountable
  <1>11. ASSUME ~Opens(parts[root])
         PROVE  Mountable([Bare(F, m) EXCEPT !.err = Unopened], m)
    <2> DEFINE W == [Bare(F, m) EXCEPT !.err = Unopened]
    <2>1. W.main = m /\ W.mounts = << >>
      BY DEF Bare
    <2>2. Unopenable
      BY Zenon, <1>11 DEF Unopenable
    <2>3. << >> \in Seq(MountEntry) /\ Distinct(<< >>)
      BY DEF Distinct
    <2> HIDE DEF W
    <2>4. Mountable(W, m)
      BY SMTT(30), <2>1, <2>2, <2>3 DEF Mountable
    <2> QED
      BY <2>4 DEF W
  <1>12. /\ Mountable(mount_virtual_fs(mount_additional_partitions(Bare(F, m), root)), m)
         /\ ~Opens(parts[root]) => Mountable([Bare(F, m) EXCEPT !.err = Unopened], m)
    BY Zenon, <1>10, <1>11 DEF T, S
  <1> QED
    BY Zenon, <1>12 DEF m, F, BootBare

\* The root without a disk.
RamRoot == [fs \in {Ram} |-> RamFs([q \in {<< >>} |-> Dir])]

\* init_rootfs_with_ramfs leaves a mount table, or a reason to panic.
LEMMA RamMounted == Mountable(mount_virtual_fs(Bare(RamRoot, Ram)), Ram)
  <1> DEFINE m == Ram
             K == {"ram"}
             S == Bare(RamRoot, m)
             N == [q \in {<< >>} |-> Dir]
  <1>1. m \in DOMAIN RamRoot /\ m # Proc /\ m # Sys /\ RamRoot[m] = RamFs(N)
    BY DEF RamRoot, Ram, Proc, Sys
  <1>2. << >> \in DOMAIN N /\ N[<< >>] = Dir /\ DOMAIN N = {<< >>}
    OBVIOUS
  <1> HIDE DEF N
  <1>3. m \in DOMAIN WithVirtualFs(RamRoot) /\ WithVirtualFs(RamRoot)[m] = RamFs(N)
    BY Zenon, <1>1, OtherFs
  <1>4. Rooted(WithVirtualFs(RamRoot), m, K)
    BY <1>2, <1>3 DEF Rooted, RamFs
  <1>5. Good(S, m, K) /\ S.mounts = << >> /\ S.F = WithVirtualFs(RamRoot) /\ S.err # Unopened
    <2>1. Good(S, m, K) /\ S.mounts = << >> /\ S.F = WithVirtualFs(RamRoot) /\ S.err = Ok
      BY ZenonT(40), <1>4, BareIs
    <2>2. Ok # Unopened
      BY DEF Ok, Unopened
    <2> QED
      BY Zenon, <2>1, <2>2
  <1>6. DOMAIN S.F[m].nodes \subseteq {<< >>}
    BY SMTT(30), <1>2, <1>3, <1>5 DEF RamFs
  <1>7. NamesFrom(S.mounts, PartNames)
    BY <1>5 DEF NamesFrom
  <1>8. K \subseteq {"ext4", "fat", "ram"}
    OBVIOUS
  <1> DEFINE T == mount_virtual_fs(S)
  <1> HIDE DEF K, S, m
  <1>9. Good(T, m, K) /\ (T.err # Ok => Unmountable(T.F, m, PartNames))
    BY ZenonT(40), <1>5, <1>6, <1>7, <1>8, VirtualMounted
  <1>10. Mountable(T, m)
    BY <1>9 DEF Good, Mountable
  <1> QED
    BY <1>10 DEF T, S, m

-----------------------------------------------------------------------------
(* The invariant.                                                          *)

\* The phases before the shell.
Booting == {"scan", "ramfs", "noroot", "probe", "io", "mounted"}

\* The root and the mount table, and what holds of them in each phase.
RootInv ==
    parts = << >> \/ (arg \in BootArgs /\ main = PartFs(find_root_filesystem(parts, Wanted(parts, arg))))
MountInv == mounts \in Seq(MountEntry) /\ Distinct(mounts)

\* The scan panics.
Panicky == ~DiskUsable \/ SizeOverflows(disk)

RootfsInv ==
    /\ phase \in Booting \cup {"panic", "shell"}
    /\ phase \in Booting => disk \in Disks /\ parts \in Seq(PartsOf(disk))
    /\ phase = "ramfs" => parts = << >>
    /\ phase = "shell" => disk = NoDisk
    /\ phase = "panic" => disk = NoDisk \/ Panicky \/ Unopenable \/ Unmountable(fss, main, PartNames)
    /\ phase \in {"scan", "ramfs", "noroot", "probe"} => io = Idle
    /\ phase \in {"probe", "io"} => find_first_supported_partition(parts) # 0
    /\ phase = "mounted" => RootInv
    /\ phase \in {"mounted", "shell"} => MountInv /\ DirAgrees

\* The lookup depends on the mount table and on the root only.
RouteIn(root, table, comps) ==
    LET fits == {i \in 1 .. Len(table) : comps # << >> /\ Begins(table[i].name, comps[1])}
        i == IF fits = {} THEN 0
             ELSE CHOOSE k \in fits : \A j \in fits : Len(table[j].name) <= Len(table[k].name)
    IN  IF i = 0 THEN Node(root, comps) ELSE Node(table[i].fs, Rest(comps, table[i].name))

\* A step that leaves root, mounts and current directory alone.
LEMMA ShellStays ==
    ASSUME main' = main, mounts' = mounts, cwd' = cwd, MountInv, DirAgrees
    PROVE  (MountInv /\ DirAgrees)'
  <1>1. MountInv'
    BY DEF MountInv
  <1>2. DirAgrees'
    <2>1. Route(cwd.path)' = Route(cwd.path)
      <3>1. Route(cwd.path)' = RouteIn(main', mounts', cwd'.path)
        BY Zenon DEF Route, RouteBy, find_best_mount, Longest, RouteIn
      <3>2. Route(cwd.path) = RouteIn(main, mounts, cwd.path)
        BY Zenon DEF Route, RouteBy, find_best_mount, Longest, RouteIn
      <3> QED
        BY Zenon, <3>1, <3>2
    <2> QED
      BY <2>1 DEF DirAgrees, ROOT_DIR
  <1> QED
    BY <1>1, <1>2

\* It holds before the scan,
LEMMA RootfsInvInit == Init => RootfsInv
  <1> SUFFICES ASSUME Init PROVE RootfsInv
    OBVIOUS
  <1>1. phase = "scan" /\ disk \in Disks /\ parts = << >> /\ io = Idle
    BY DEF Init
  <1>2. parts \in Seq(PartsOf(disk))
    BY SMTT(30), <1>1
  <1> QED
    BY <1>1, <1>2 DEF RootfsInv, Booting

\* RootIs, given what mounting may lead to.
LEMMA RootIsKeeps ==
    ASSUME RootfsInv, phase \in {"ramfs", "io"}, NEW T, NEW m, Mountable(T, m), RootIs(T),
           parts = << >> \/ (arg' \in BootArgs /\ m = PartFs(find_root_filesystem(parts, Wanted(parts, arg'))))
    PROVE  RootfsInv'
  <1>1. /\ phase' = IF T.err = Ok THEN "mounted" ELSE "panic"
        /\ fss' = T.F /\ main' = m /\ mounts' = T.mounts /\ disk' = disk /\ parts' = parts
        /\ cwd' = [node |-> [root |-> TRUE, fs |-> m, path |-> << >>], path |-> << >>]
    BY DEF RootIs, Mountable
  <1>2. disk \in Disks /\ parts \in Seq(PartsOf(disk))
    BY DEF RootfsInv, Booting
  <1>3. DirAgrees'
    <2>1. cwd'.path = << >> /\ cwd'.node = ROOT_DIR'
      BY SMTT(30), <1>1 DEF ROOT_DIR
    <2> QED
      BY SMTT(30), <2>1 DEF DirAgrees
  <1>4. MountInv'
    BY <1>1 DEF MountInv, Mountable
  <1>5. RootInv'
    BY ZenonT(40), <1>1 DEF RootInv
  <1>6. PartNames' = PartNames
    BY <1>1 DEF PartNames, MountName
  <1>8. Unopenable' <=> Unopenable
    BY Zenon, <1>1 DEF Unopenable, Opens
  <1>7. T.err # Ok => (Unopenable \/ Unmountable(fss, main, PartNames))'
    BY Zenon, <1>1, <1>6, <1>8 DEF Mountable, Unmountable
  <1> QED
    BY SMTT(30), <1>1, <1>2, <1>3, <1>4, <1>5, <1>7 DEF RootfsInv, Booting

\* every step of the boot and every command that returns keeps it,
LEMMA RootfsInvStep == RootfsInv /\ [RootfsStep \/ \E r : CommandReturns(r)]_vars => RootfsInv'
  <1> SUFFICES ASSUME RootfsInv, [RootfsStep \/ \E r : CommandReturns(r)]_vars
               PROVE  RootfsInv'
    OBVIOUS
  <1>1. CASE ScanDisk
    <2>1. /\ disk \in Disks /\ io = Idle /\ disk' = disk /\ io' = io
          /\ parts' = scan_gpt_partitions(disk) /\ ~SizeOverflows(disk)
          /\ phase' = IF parts' = << >> THEN "ramfs"
                      ELSE IF find_first_supported_partition(parts') = 0 THEN "noroot" ELSE "probe"
      BY <1>1 DEF ScanDisk, RootfsInv, Booting, ioVars
    <2>2. parts' \in Seq(PartsOf(disk)')
      <3>1. PartsOf(disk)' = PartsOf(disk)
        BY <2>1 DEF PartsOf
      <3>2. scan_gpt_partitions(disk) \in Seq(PartsOf(disk))
        BY Zenon, <2>1, ScannedParts
      <3> QED
        BY ZenonT(40), <2>1, <3>1, <3>2
    <2>3. phase' = "probe" => find_first_supported_partition(parts)' # 0
      BY <2>1
    <2> QED
      BY SMTT(30), <2>1, <2>2, <2>3 DEF RootfsInv, Booting
  <1>2. CASE Probe
    <2>1. phase = "probe" /\ phase' = "io" /\ disk' = disk /\ parts' = parts
      BY SMTT(30), <1>2 DEF Probe, bootVars
    <2> QED
      BY <2>1 DEF RootfsInv, Booting
  <1>3. CASE BlockStep
    <2>1. phase = "io" /\ phase' = "io" /\ disk' = disk /\ parts' = parts
      BY <1>3 DEF BlockStep, bootVars
    <2> QED
      BY <2>1 DEF RootfsInv, Booting
  <1>4. CASE init_rootfs_with_partitions
    <2> DEFINE root == find_root_filesystem(parts, Wanted(parts, arg'))
               S == mount_virtual_fs(mount_additional_partitions(BootBare(root), root))
               W == [BootBare(root) EXCEPT !.err = Unopened]
    <2>1. /\ phase = "io" /\ arg' \in BootArgs
          /\ RootIs(S) \/ (~Opens(parts[root]) /\ RootIs(W))
      BY Zenon, <1>4 DEF init_rootfs_with_partitions, Mounted, BootBare, BootFs, Wanted
    <2>2. disk \in Disks /\ parts \in Seq(PartsOf(disk)) /\ find_first_supported_partition(parts) # 0
      BY <2>1 DEF RootfsInv, Booting
    <2>3. root \in 1 .. Len(parts) /\ Supported(parts[root])
      BY Zenon, <2>1, <2>2, RootFound
    <2>4. Mountable(S, PartFs(root)) /\ (~Opens(parts[root]) => Mountable(W, PartFs(root)))
      <3> HIDE DEF root
      <3> QED
        BY Zenon, <2>2, <2>3, PartitionsMounted
    <2> HIDE DEF S, W
    <2> QED
      BY Zenon, <2>1, <2>4, RootIsKeeps
  <1>5. CASE init_rootfs_with_ramfs
    <2> DEFINE S == mount_virtual_fs(Bare(RamRoot, Ram))
    <2>1. phase = "ramfs" /\ RootIs(S)
      BY Zenon, <1>5 DEF init_rootfs_with_ramfs, Mounted, RamRoot
    <2>2. parts = << >>
      BY <2>1 DEF RootfsInv
    <2>3. Mountable(S, Ram)
      BY RamMounted
    <2> HIDE DEF S
    <2> QED
      BY ZenonT(40), <2>1, <2>2, <2>3, RootIsKeeps
  <1>6. CASE StartShell
    <2>1. /\ phase = "mounted" /\ phase' = "shell" /\ disk' = NoDisk
          /\ main' = main /\ mounts' = mounts /\ cwd' = cwd
      BY <1>6 DEF StartShell, fsVars
    <2>2. (MountInv /\ DirAgrees)'
      BY ZenonT(40), <2>1, ShellStays DEF RootfsInv
    <2> QED
      BY <2>1, <2>2 DEF RootfsInv, Booting
  <1>7. ASSUME NEW p \in Dirs, do_cd(p)
        PROVE  RootfsInv'
    <2>1. /\ phase = "shell" /\ phase' = "shell" /\ disk' = disk /\ main' = main /\ mounts' = mounts
          /\ SetCurrentDir(p) \/ UNCHANGED cwd
      BY <1>7 DEF do_cd, bootVars
    <2>2. MountInv /\ DirAgrees /\ disk = NoDisk
      BY <2>1 DEF RootfsInv
    <2>3. MountInv'
      BY <2>1, <2>2 DEF MountInv
    <2>4. ASSUME UNCHANGED cwd
          PROVE  DirAgrees'
      BY ZenonT(40), <2>1, <2>2, <2>4, ShellStays
    <2>5. ASSUME SetCurrentDir(p)
          PROVE  DirAgrees'
      <3> DEFINE comps == absolute_path(p)
      <3>1. comps \in Seq(Seq(STRING))
        <4>1. cwd.path \in Seq(Seq(STRING)) /\ p.comps \in Seq(Seq(STRING))
          BY SMTT(30), <2>2, FilesAssumption DEF DirAgrees
        <4>2. cwd.path \o p.comps \in Seq(Seq(STRING))
          BY Zenon, <4>1, ConcatProperties
        <4>3. (IF p.abs THEN p.comps ELSE cwd.path \o p.comps) \in Seq(Seq(STRING))
          BY ZenonT(40), <4>1, <4>2
        <4> QED
          BY SMTT(30), <4>3, CanonicalSeq DEF absolute_path
      <3>2. cwd' = IF comps = << >> THEN [node |-> ROOT_DIR, path |-> << >>]
                   ELSE [node |-> Route(comps), path |-> comps]
        BY <2>5 DEF SetCurrentDir
      <3> HIDE DEF comps
      <3>3. cwd'.path = comps /\ cwd'.node = IF comps = << >> THEN ROOT_DIR ELSE Route(comps)
        BY <3>2
      <3>4. Route(cwd.path)' = Route(comps)
        <4>1. Route(cwd.path)' = RouteIn(main', mounts', cwd'.path)
          BY Zenon DEF Route, RouteBy, find_best_mount, Longest, RouteIn
        <4>2. Route(comps) = RouteIn(main, mounts, comps)
          BY Zenon DEF Route, RouteBy, find_best_mount, Longest, RouteIn
        <4> QED
          BY Zenon, <2>1, <3>3, <4>1, <4>2
      <3>5. ROOT_DIR' = ROOT_DIR
        BY <2>1 DEF ROOT_DIR
      <3> QED
        BY SMTT(30), <3>1, <3>3, <3>4, <3>5 DEF DirAgrees
    <2>6. DirAgrees'
      BY Zenon, <2>1, <2>4, <2>5
    <2> QED
      BY SMTT(30), <2>1, <2>2, <2>3, <2>6 DEF RootfsInv, Booting
  <1>8. ASSUME NEW r, CommandReturns(r)
        PROVE  RootfsInv'
    <2>1. /\ phase = "shell" /\ phase' \in {"panic", "shell"} /\ disk' = disk
          /\ main' = main /\ mounts' = mounts /\ cwd' = cwd
      BY <1>8 DEF CommandReturns, bootVars
    <2>2. MountInv /\ DirAgrees /\ disk = NoDisk
      BY <2>1 DEF RootfsInv
    <2>3. (MountInv /\ DirAgrees)'
      BY Zenon, <2>1, <2>2, ShellStays
    <2> QED
      BY SMTT(30), <2>1, <2>2, <2>3 DEF RootfsInv, Booting
  <1>9. CASE UNCHANGED vars
    <2>1. /\ phase' = phase /\ disk' = disk /\ parts' = parts /\ arg' = arg /\ io' = io
          /\ fss' = fss /\ main' = main /\ mounts' = mounts /\ cwd' = cwd
      BY <1>9 DEF vars, bootVars, ioVars, fsVars
    <2>2. MountInv /\ DirAgrees => (MountInv /\ DirAgrees)'
      BY Zenon, <2>1, ShellStays
    <2>3. RootInv => RootInv'
      BY Zenon, <2>1 DEF RootInv
    <2>4. PartNames' = PartNames
      BY <2>1 DEF PartNames, MountName
    <2>5. Unmountable(fss, main, PartNames) => Unmountable(fss, main, PartNames)'
      BY Zenon, <2>1, <2>4 DEF Unmountable
    <2>6. (Panicky => Panicky') /\ (Unopenable => Unopenable')
      BY Zenon, <2>1 DEF Panicky, DiskUsable, Unopenable, Opens
    <2> QED
      BY SMTT(30), <2>1, <2>2, <2>3, <2>5, <2>6 DEF RootfsInv, Booting
  <1>10. CASE ScanPanics
    <2>1. phase' = "panic" /\ disk' = disk /\ Panicky
      BY <1>10 DEF ScanPanics, bootVars, Panicky
    <2>2. Panicky'
      BY Zenon, <2>1 DEF Panicky, DiskUsable
    <2> QED
      BY SMTT(30), <2>1, <2>2 DEF RootfsInv, Booting
  <1> QED
    BY ZenonT(40), <1>1, <1>2, <1>3, <1>4, <1>5, <1>6, <1>7, <1>8, <1>9, <1>10 DEF RootfsStep, Stopped

\* and so it always holds.
LEMMA RootfsInvariant == RootfsSpec => []RootfsInv
  BY RootfsInvInit, RootfsInvStep, PTL DEF RootfsSpec

\* When root= names partitions with a supported file system, the root is one,
\* for every table and every form of the argument but one: the number of a
\* device path counts the listed partitions, so that past a hole of the table
\* it is another slot's.
THEOREM RootChosen == RootfsSpec => []RootAsNamed
  <1>1. RootfsInv => RootAsNamed
    <2> SUFFICES ASSUME RootfsInv, phase = "mounted", NoHole,
                        NEW i \in 1 .. Len(parts), Supported(parts[i]), Named(parts[i])
                 PROVE  Named(parts[main[2]])
      BY Zenon DEF RootAsNamed
    <2>1. parts \in Seq(PartsOf(disk)) /\ RootInv
      BY DEF RootfsInv, Booting
    <2>2. arg \in BootArgs /\ main[2] = find_root_filesystem(parts, Wanted(parts, arg))
      BY SMTT(30), <2>1 DEF RootInv, PartFs
    <2> QED
      BY Zenon, <2>1, <2>2, NamedIsRoot
  <1> QED
    BY <1>1, RootfsInvariant, PTL

\* A lookup of a mount point finds the file system that is mounted there.
THEOREM MountsFound == RootfsSpec => []MountsReachable
  <1>1. RootfsInv => MountsReachable
    BY Zenon, MountFound DEF RootfsInv, MountInv, MountsReachable
  <1> QED
    BY <1>1, RootfsInvariant, PTL

\* Booting panics only in the scan, for a device it cannot use or a size it
\* cannot compute, for a file system that does not open, or for want of a mount
\* point of /proc and /sys.
THEOREM PanicsExplained == RootfsSpec => []BootPanics
  <1>1. RootfsInv => BootPanics
    <2> SUFFICES ASSUME Panicky \/ Unopenable \/ Unmountable(fss, main, PartNames) PROVE BootPanics
      BY Zenon DEF RootfsInv, BootPanics
    <2> QED
      BY Zenon DEF Panicky, Unopenable, Unmountable, PartNames, BootPanics
  <1> QED
    BY <1>1, RootfsInvariant, PTL

\* Relative paths are the absolute ones below the current directory.
THEOREM PathsAgree == RootfsSpec => []RelativeIsAbsolute
  <1>1. RootfsInv => RelativeIsAbsolute
    <2> SUFFICES ASSUME DirAgrees, NEW c \in Commands, NEW i \in 1 .. Len(c.args), ~c.args[i].abs
                 PROVE  Target(c.args[i]) = Route(cwd.path \o c.args[i].comps)
      BY Zenon DEF RootfsInv, InShell, RelativeIsAbsolute
    <2>1. c.args[i].comps \in Seq(Seq(STRING))
      BY Zenon, FilesAssumption
    <2> QED
      BY Zenon, <2>1, RelativeRoute
  <1> QED
    BY <1>1, RootfsInvariant, PTL

-----------------------------------------------------------------------------
(* The block requests of the boot.                                         *)

\* The partitions of all disks.
AllParts == UNION {PartsOf(d) : d \in Disks}

\* Each covers at least one block.
LEMMA AllPartsAre == \A p \in AllParts : IsPart(p)
  BY PartitionIs DEF AllParts, IsPart

\* The device without bytes, between requests.
LEMMA NoBytesLabelled == Labelled(<< >>)
  <1>1. << >> = [b \in 1 .. 0 * BLOCK_SIZE |-> Old(b)]
    <2>1. 0 * BLOCK_SIZE = 0
      BY BlockAssumption
    <2> QED
      BY <2>1
  <1> QED
    BY <1>1 DEF Labelled

\* The requests of the boot are requests of IoSpec.
LEMMA RequestsRequested ==
    ASSUME NEW i \in 1 .. Len(parts), parts[i] \in AllParts, NEW r \in Requests(i)
    PROVE  r \in Requested(AllParts)
  <1>1. BLOCK_SIZE \in Nat /\ \A x, y : y \in 0 .. x => y \in Nat
    BY SMTT(30), BlockAssumption
  <1> DEFINE p == parts[i]
  <1>2. CASE r \in {ScanRequest(pos, n) : pos \in 0 .. BLOCK_SIZE, n \in {1, BLOCK_SIZE, 2 * BLOCK_SIZE + 1}}
    <2>1. PICK pos \in 0 .. BLOCK_SIZE, n \in {1, BLOCK_SIZE, 2 * BLOCK_SIZE + 1} : r = ScanRequest(pos, n)
      BY <1>2
    <2>2. pos \in Nat /\ n \in Nat
      BY SMTT(30), <1>1
    <2> QED
      BY SMTT(30), <2>1, <2>2 DEF Requested
  <1>3. CASE r \in {Ext4Request(p, op, b, n) : op \in {"read", "write"}, b \in 0 .. total_blocks(p), n \in 1 .. 2}
    <2>1. PICK op \in {"read", "write"}, b \in 0 .. total_blocks(p), n \in 1 .. 2 : r = Ext4Request(p, op, b, n)
      BY <1>3
    <2>2. b \in Nat /\ n \in Nat
      BY <1>1
    <2> QED
      BY SMTT(30), <2>1, <2>2 DEF Requested
  <1>4. CASE r \in {FatRequest(p, op, pos, n) :
                      op \in {"read", "write"}, pos \in 0 .. size(p), n \in {1, BLOCK_SIZE + 1}}
    <2>1. PICK op \in {"read", "write"}, pos \in 0 .. size(p), n \in {1, BLOCK_SIZE + 1} : r = FatRequest(p, op, pos, n)
      BY <1>4
    <2>2. pos \in Nat /\ n \in Nat
      BY <1>1
    <2> QED
      BY SMTT(30), <2>1, <2>2 DEF Requested
  <1> QED
    BY SMTT(30), <1>2, <1>3, <1>4 DEF Requests

\* The boot makes block requests one after the other, each on a partition of
\* the table of a disk or on the disk itself: it implements IoSpec.
THEOREM RootfsRequests == RootfsSpec => IoSpec(AllParts)
  <1>1. Init => IoInit
    <2> SUFFICES ASSUME Init PROVE IoInit
      OBVIOUS
    <2>1. disk.blocks \in Nat
      BY DisksAssumption DEF Init
    <2> QED
      BY ZenonT(40), <2>1 DEF Init, IoInit, Labelled
  <1>2. RootfsInv /\ [RootfsStep \/ \E r : CommandReturns(r)]_vars => [IoNext(AllParts)]_ioVars
    <2> SUFFICES ASSUME RootfsInv, [RootfsStep \/ \E r : CommandReturns(r)]_vars
                 PROVE  [IoNext(AllParts)]_ioVars
      OBVIOUS
    <2>1. CASE Probe
      <3>0. PICK i \in 1 .. Len(parts) : (\E r \in Requests(i) : Start(r)) /\ phase = "probe"
        BY Zenon, <2>1 DEF Probe
      <3>1. PICK r \in Requests(i) : Start(r) /\ phase = "probe"
        BY Zenon, <3>0
      <3>2. io = Idle /\ disk \in Disks /\ parts \in Seq(PartsOf(disk))
        BY <3>1 DEF RootfsInv, Booting
      <3>3. parts[i] \in AllParts
        BY <3>2, Element DEF AllParts
      <3>4. r \in Requested(AllParts)
        BY Zenon, <3>3, RequestsRequested
      <3> QED
        BY Zenon, <3>1, <3>2, <3>4 DEF IoNext
    <2>2. CASE BlockStep
      BY Zenon, <2>2 DEF BlockStep, IoNext
    <2>3. ASSUME NEW S, RootIs(S)
          PROVE  Relabel
      BY Zenon, <2>3, NoBytesLabelled DEF RootIs, Relabel
    <2>4. CASE init_rootfs_with_partitions \/ init_rootfs_with_ramfs
      BY Zenon, <2>3, <2>4 DEF init_rootfs_with_partitions, init_rootfs_with_ramfs, Mounted, IoNext
    <2>5. CASE \/ ScanPanics \/ ScanDisk \/ StartShell \/ Stopped \/ \E p \in Dirs : do_cd(p)
               \/ \E r : CommandReturns(r) \/ UNCHANGED vars
      BY Zenon, <2>5 DEF ScanPanics, ScanDisk, StartShell, Stopped, do_cd, CommandReturns, vars
    <2> QED
      BY ZenonT(40), <2>1, <2>2, <2>4, <2>5 DEF RootfsStep
  <1> QED
    BY <1>1, <1>2, RootfsInvariant, PTL DEF RootfsSpec, IoSpec

\* What the boot reads and writes is exactly the bytes its requests name.
THEOREM RootfsIoExact == RootfsSpec => []IoExact
  <1>1. IoSpec(AllParts) => []IoExact
    BY Zenon, AllPartsAre, BlockIoExact
  <1> QED
    BY <1>1, RootfsRequests, PTL

\* A request of the boot inside its partition and on the disk does not spin.
THEOREM RootfsIoAdvances == RootfsSpec => IoAdvances
  <1>1. IoSpec(AllParts) => IoAdvances
    BY Zenon, AllPartsAre, BlockIoAdvances
  <1> QED
    BY <1>1, RootfsRequests, PTL
====
