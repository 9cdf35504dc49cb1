--------------------------- MODULE BlockIo_proofs ---------------------------
(***************************************************************************)
(* Block requests, for every block size, device and partition: they move   *)
(* exactly the bytes they name, and a request that lies inside its         *)
(* partition and on the device is served in full, in calls that each move  *)
(* at least one byte.                                                      *)
(***************************************************************************)
EXTENDS BlockIo, SequenceTheorems, TLAPS

-----------------------------------------------------------------------------
(* Requests on a device, one after the other.                              *)

\* An entry of the partition table covers at least one block.
IsPart(p) == p.start_lba \in Nat /\ p.end_lba \in Nat /\ p.start_lba <= p.end_lba

\* The calls that the libraries and the scan make on the partitions Parts.
Requested(Parts) ==
    {ScanRequest(pos, n) : pos \in Nat, n \in Nat}
    \cup {Ext4Request(p, op, id, n) :
            p \in Parts, op \in {"read", "write"}, id \in Nat, n \in Nat}
    \cup {FatRequest(p, op, pos, n) :
            p \in Parts, op \in {"read", "write"}, pos \in Nat, n \in Nat}

\* A device of any number of blocks, its bytes labelled by where they are.
Labelled(d) == \E k \in Nat : d = [b \in 1 .. k * BLOCK_SIZE |-> Old(b)]

IoInit == io = Idle /\ Labelled(dev)

\* Before the next request the bytes are labelled anew.
Relabel == io' = Idle /\ Labelled(dev')

IoNext(Parts) ==
    \/ io = Idle /\ \E r \in Requested(Parts) : Start(r)
    \/ IoStep
    \/ Relabel

IoSpec(Parts) == IoInit /\ [][IoNext(Parts)]_ioVars

-----------------------------------------------------------------------------
(* Division.                                                               *)

\* Multiples of d are at least d apart.
LEMMA NextMultiple ==
  ASSUME NEW d \in Nat \ {0}, NEW a \in Nat, NEW b \in Nat, a < b
  PROVE  d * a + d <= d * b
<1>1. PICK c \in Nat : b = a + 1 + c
  <2>1. b - a - 1 \in Nat /\ b = a + 1 + (b - a - 1)
    OBVIOUS
  <2> QED BY <2>1
<1>2. d * b = d * a + d + d * c
  BY <1>1
<1>3. d * c \in Nat /\ d * a \in Nat /\ d * b \in Nat
  OBVIOUS
<1> QED
  BY <1>2, <1>3

\* Quotient and remainder are unique.
LEMMA DivUnique ==
  ASSUME NEW x \in Nat, NEW d \in Nat \ {0}, NEW q \in Nat, NEW r \in 0 .. d - 1, x = d * q + r
  PROVE  x \div d = q
<1> DEFINE p == x \div d
<1>1. p \in Nat /\ x = d * p + (x % d) /\ (x % d) \in 0 .. d - 1
  OBVIOUS
<1>2. d * p \in Nat /\ d * q \in Nat
  BY <1>1
<1>3. ~(p < q) /\ ~(q < p)
  BY <1>1, <1>2, NextMultiple
<1> HIDE DEF p
<1>4. p = q
  BY <1>1, <1>3
<1> QED BY <1>4 DEF p

\* Whole blocks more are as many blocks more.
LEMMA DivAdd ==
  ASSUME NEW a \in Nat, NEW n \in Nat, NEW d \in Nat \ {0}
  PROVE  (a + n * d) \div d = (a \div d) + n
<1> DEFINE p == a \div d
           r == a % d
<1>1. p \in Nat /\ r \in 0 .. d - 1 /\ a = d * p + r
  OBVIOUS
<1> HIDE DEF p, r
<1>2. a + n * d = d * (p + n) + r /\ p + n \in Nat /\ a + n * d \in Nat
  BY <1>1
<1> QED
  BY Zenon, <1>1, <1>2, DivUnique DEF p

\* Rounding down and multiplying again does not get above the start.
LEMMA DivTimes ==
  ASSUME NEW a \in Nat, NEW d \in Nat \ {0}, NEW m \in Nat, m <= a \div d
  PROVE  m * d <= a
<1> DEFINE p == a \div d
<1>1. p \in Nat /\ d * p <= a
  OBVIOUS
<1> HIDE DEF p
<1>2. m = p \/ m < p
  BY <1>1 DEF p
<1>3. m * d = d * m /\ d * m \in Nat /\ d * p \in Nat
  BY <1>1
<1> QED
  BY <1>1, <1>2, <1>3, NextMultiple

-----------------------------------------------------------------------------
(* Chunks and blocks.                                                      *)

\* A chunk is not empty, not longer than asked for, and ends in its block.
LEMMA ChunkBounds ==
  ASSUME NEW pos \in Nat, NEW len \in Nat \ {0}
  PROVE  /\ DiskChunk(pos, len) \in Nat \ {0}
         /\ DiskChunk(pos, len) <= len
         /\ DiskChunk(pos, len) <= BLOCK_SIZE - (pos % BLOCK_SIZE)
<1>1. (pos % BLOCK_SIZE) \in 0 .. BLOCK_SIZE - 1
  BY BlockAssumption
<1> QED
  BY <1>1, BlockAssumption DEF DiskChunk, Least

\* What ends in a block that the device has ends on the device.
LEMMA BlockFits ==
  ASSUME NEW pos \in Nat, NEW len \in Nat, NEW n \in Nat,
         pos \div BLOCK_SIZE < len \div BLOCK_SIZE, n <= BLOCK_SIZE - (pos % BLOCK_SIZE)
  PROVE  pos + n <= len
<1> DEFINE q == pos \div BLOCK_SIZE
           k == len \div BLOCK_SIZE
<1>1. q \in Nat /\ pos = BLOCK_SIZE * q + (pos % BLOCK_SIZE) /\ (pos % BLOCK_SIZE) \in Nat
  BY BlockAssumption
<1>2. k \in Nat /\ len >= BLOCK_SIZE * k
  BY BlockAssumption
<1>3. pos + n <= BLOCK_SIZE * q + BLOCK_SIZE
  BY <1>1, BlockAssumption
<1>4. BLOCK_SIZE * q + BLOCK_SIZE <= BLOCK_SIZE * k
  BY <1>1, <1>2, NextMultiple, BlockAssumption
<1> HIDE DEF q, k
<1> QED
  BY <1>1, <1>2, <1>3, <1>4, BlockAssumption

-----------------------------------------------------------------------------
(* The inductive invariant.                                                *)

IoRequests(Parts) ==
    [status : {"busy", "done", "short", "error"}, caller : {"ext4", "fat", "scan"},
     op : {"read", "write"}, part : Parts \cup {[start_lba |-> 0, end_lba |-> 0]},
     from : Nat, pos : Nat, want : Nat, done : Nat, buf : Seq(Int)]

\* Where on the device the request begins.
AbsFrom(r) == IF r.caller = "scan" THEN r.from ELSE r.part.start_lba * BLOCK_SIZE + r.from

\* The bytes moved so far are where the request says, and on the device.
MovedOK ==
    /\ io.pos = io.from + io.done
    /\ io.done # 0 => AbsFrom(io) + io.done <= Len(dev)
    /\ io.op = "read" => io.buf = SubSeq(dev, AbsFrom(io) + 1, AbsFrom(io) + io.done)
    /\ io.op = "write" =>
         \A b \in 1 .. Len(dev) :
             dev[b] = IF AbsFrom(io) < b /\ b <= AbsFrom(io) + io.done
                        THEN Written(b - AbsFrom(io) - 1) ELSE Old(b)

IoInv(Parts) ==
    /\ dev \in Seq(Int)
    /\ \/ io = Idle /\ Labelled(dev)
       \/ io \in IoRequests(Parts) /\ MovedOK

\* A partition, and the disk as read_exact sees it, has a place and a size.
LEMMA PartFacts ==
  ASSUME NEW Parts, \A p \in Parts : IsPart(p),
         NEW p \in Parts \cup {[start_lba |-> 0, end_lba |-> 0]}
  PROVE  /\ p.start_lba \in Nat /\ p.start_lba * BLOCK_SIZE \in Nat
         /\ size(p) \in Nat \ {0}
<1>1. p.start_lba \in Nat /\ p.end_lba - p.start_lba + 1 \in Nat \ {0}
  BY DEF IsPart
<1>2. ASSUME NEW a \in Nat \ {0} PROVE a * BLOCK_SIZE \in Nat \ {0}
  BY BlockAssumption
<1> QED
  BY <1>1, <1>2, BlockAssumption DEF size

\* The place on the disk of a request moves with the bytes that are done.
LEMMA AbsFacts ==
  ASSUME NEW Parts, \A p \in Parts : IsPart(p), NEW r \in IoRequests(Parts), r.pos = r.from + r.done
  PROVE  /\ AbsFrom(r) \in Nat /\ AbsPos(r) = AbsFrom(r) + r.done
         /\ AbsPos([r EXCEPT !.pos = r.from]) = AbsFrom(r)
<1>1. r.part.start_lba * BLOCK_SIZE \in Nat
  BY PartFacts DEF IoRequests
<1> QED
  BY SMTT(30), <1>1 DEF IoRequests, AbsFrom, AbsPos

\* A fresh device is a sequence of bytes.
LEMMA LabelledSeq == ASSUME NEW d, Labelled(d) PROVE d \in Seq(Int)
<1>1. PICK n \in Nat : d = [b \in 1 .. n |-> Old(b)]
  BY BlockAssumption DEF Labelled
<1>2. \A b \in 1 .. n : Old(b) \in Int
  BY DEF Old
<1> QED
  BY <1>1, <1>2

\* A request begins with nothing moved.
LEMMA StartMoved ==
  ASSUME NEW Parts, \A p \in Parts : IsPart(p), IoInv(Parts), io = Idle,
         NEW r \in Requested(Parts), Start(r)
  PROVE  IoInv(Parts)'
<1>1. /\ r \in IoRequests(Parts) /\ r.pos = r.from /\ r.done = 0 /\ r.buf = << >>
  <2> DEFINE None == [start_lba |-> 0, end_lba |-> 0]
  <2>1. ASSUME NEW c \in {"ext4", "fat", "scan"}, NEW op \in {"read", "write"},
               NEW p \in Parts \cup {None}, NEW pos \in Nat, NEW n \in Nat
        PROVE  /\ Request(c, op, p, pos, n) \in IoRequests(Parts)
               /\ Request(c, op, p, pos, n).pos = Request(c, op, p, pos, n).from
               /\ Request(c, op, p, pos, n).done = 0 /\ Request(c, op, p, pos, n).buf = << >>
    BY DEF Request, IoRequests
  <2>2. ASSUME NEW p \in Parts, NEW pos \in Nat PROVE Clamp(p, pos) \in Nat
    BY PartFacts DEF Clamp, Least
  <2>3. ASSUME NEW n \in Nat PROVE n * EXT4_BLOCK_SIZE \in Nat
    BY BlockAssumption
  <2>4. CASE \E pos \in Nat, n \in Nat : r = ScanRequest(pos, n)
    <3>1. PICK pos \in Nat, n \in Nat : r = Request("scan", "read", None, pos, n)
      BY <2>4 DEF ScanRequest
    <3> HIDE DEF None
    <3> QED
      BY ZenonT(40), <2>1, <3>1
  <2>5. CASE \E p \in Parts, op \in {"read", "write"}, id \in Nat, n \in Nat :
               r = Ext4Request(p, op, id, n)
    <3>1. PICK p \in Parts, op \in {"read", "write"}, id \in Nat, n \in Nat :
            r = Request("ext4", op, p, Clamp(p, id * EXT4_BLOCK_SIZE), n * EXT4_BLOCK_SIZE)
      BY <2>5 DEF Ext4Request
    <3> DEFINE at == Clamp(p, id * EXT4_BLOCK_SIZE)
               len == n * EXT4_BLOCK_SIZE
    <3>2. at \in Nat /\ len \in Nat
      BY <2>2, <2>3
    <3> HIDE DEF None, at, len
    <3> QED
      BY SMTT(30), <2>1, <3>1, <3>2 DEF at, len
  <2>6. CASE \E p \in Parts, op \in {"read", "write"}, pos \in Nat, n \in Nat :
               r = FatRequest(p, op, pos, n)
    <3>1. PICK p \in Parts, op \in {"read", "write"}, pos \in Nat, n \in Nat :
            r = Request("fat", op, p, Clamp(p, pos), n)
      BY <2>6 DEF FatRequest
    <3>2. Clamp(p, pos) \in Nat
      BY <2>2
    <3> HIDE DEF None
    <3> QED
      BY <2>1, <3>1, <3>2
  <2> QED
    BY <2>4, <2>5, <2>6 DEF Requested
<1>2. io' = r /\ dev' = dev /\ dev \in Seq(Int)
  BY DEF Start, IoInv
<1>3. PICK n \in Nat : dev = [b \in 1 .. n |-> Old(b)]
  <2>1. Idle \notin IoRequests(Parts)
    <3>1. \A q \in IoRequests(Parts) : q.status # "idle"
      BY DEF IoRequests
    <3>2. Idle.status = "idle"
      BY DEF Idle
    <3> QED BY <3>1, <3>2
  <2> QED
    BY <2>1, BlockAssumption DEF IoInv, Labelled
<1>4. AbsFrom(r) \in Nat /\ r.from \in Nat
  <2>1. r.from \in Nat
    BY <1>1 DEF IoRequests
  <2>2. r.pos = r.from + r.done
    BY <1>1, <2>1
  <2> QED
    BY Zenon, <1>1, <2>1, <2>2, AbsFacts
<1>5. SubSeq(dev, AbsFrom(r) + 1, AbsFrom(r)) = << >>
  BY <1>4, SubSeqEmpty
<1>6. AbsFrom(r) + r.done = AbsFrom(r)
  BY <1>1, <1>4
<1>7. MovedOK'
  <2>1. \A b \in 1 .. Len(dev) : dev[b] = Old(b) /\ ~(AbsFrom(r) < b /\ b <= AbsFrom(r))
    BY <1>3, <1>4
  <2>2. AbsFrom(io)' = AbsFrom(r)
    BY <1>2 DEF AbsFrom
  <2>3. /\ r.pos = r.from + r.done /\ r.done = 0
        /\ r.buf = SubSeq(dev, AbsFrom(r) + 1, AbsFrom(r) + r.done)
    BY <1>1, <1>4, <1>5, <1>6
  <2>4. \A b \in 1 .. Len(dev) :
          dev[b] = IF AbsFrom(r) < b /\ b <= AbsFrom(r) + r.done
                     THEN Written(b - AbsFrom(r) - 1) ELSE Old(b)
    BY <1>6, <2>1
  <2> QED
    BY <1>2, <2>2, <2>3, <2>4, Zenon DEF MovedOK
<1> QED
  BY <1>1, <1>2, <1>7 DEF IoInv

\* One call on a block that the device has moves some of the bytes still wanted.
LEMMA ChunkMoved ==
  ASSUME NEW Parts, \A p \in Parts : IsPart(p), dev \in Seq(Int), io \in IoRequests(Parts), MovedOK,
         OneBlock, ~(AbsPos(io) \div BLOCK_SIZE >= num_blocks)
  PROVE  \E n \in Nat \ {0} : /\ Transfer(n) /\ n <= io.want - io.done
                              /\ AbsPos(io) + n <= Len(dev)
<1> DEFINE abs == AbsPos(io)
           rest == Remaining(io)
           n == DiskChunk(abs, rest)
<1>0. io.pos \in Nat /\ io.done \in Nat /\ io.want \in Nat /\ Len(dev) \in Nat
  BY DEF IoRequests
<1>1. abs \in Nat
  <2>1. AbsFrom(io) \in Nat /\ AbsPos(io) = AbsFrom(io) + io.done
    BY Zenon, AbsFacts DEF MovedOK
  <2> QED
    BY <1>0, <2>1
<1>2. rest \in Nat \ {0} /\ rest <= io.want - io.done
  <2>1. size(io.part) \in Nat
    BY PartFacts DEF IoRequests
  <2> QED
    BY <1>0, <2>1 DEF OneBlock, Remaining, Least
<1>3. Transfer(n)
  BY DEF OneBlock
<1>4. abs \div BLOCK_SIZE < Len(dev) \div BLOCK_SIZE
  <2>1. abs \div BLOCK_SIZE \in Int /\ Len(dev) \div BLOCK_SIZE \in Int
    BY <1>0, <1>1, BlockAssumption
  <2> QED
    BY <2>1 DEF num_blocks
<1> HIDE DEF abs, rest
<1>5. n \in Nat \ {0} /\ n <= rest /\ n <= BLOCK_SIZE - (abs % BLOCK_SIZE)
  BY Zenon, <1>1, <1>2, ChunkBounds
<1> HIDE DEF n
<1>6. abs + n <= Len(dev)
  BY <1>0, <1>1, <1>4, <1>5, BlockFits
<1>7. n \in Nat \ {0} /\ n <= rest
  BY <1>5
<1>8. n <= io.want - io.done
  BY <1>0, <1>2, <1>7
<1> QED
  BY <1>3, <1>6, <1>7, <1>8 DEF abs

\* Where n more bytes lie, after d from position a on.
LEMMA Window ==
  ASSUME NEW a \in Nat, NEW d \in Nat, NEW n \in Nat
  PROVE  /\ a + (d + n) = (a + d) + n
         /\ \A len \in Nat : (a + d) + n <= len =>
              /\ a + 1 \in 1 .. len + 1 /\ a + d \in (a + 1) - 1 .. len
              /\ (a + d) + n \in (a + d) .. len
         /\ \A b \in Int : /\ Written(d + b - (a + d) - 1) = Written(b - a - 1)
                           /\ a + d < b => a < b
                           /\ ~(a + d < b) => b <= a + d /\ b <= (a + d) + n
  BY DEF Written

\* One call that reaches the device moves the next bytes, and they are there.
LEMMA BlockMoved ==
  ASSUME NEW Parts, \A p \in Parts : IsPart(p), dev \in Seq(Int), io \in IoRequests(Parts), MovedOK,
         OneBlock
  PROVE  IoInv(Parts)'
<1>0. /\ io.pos \in Nat /\ io.from \in Nat /\ io.done \in Nat /\ io.want \in Nat
      /\ io.op \in {"read", "write"} /\ io.buf \in Seq(Int) /\ Len(dev) \in Nat
  BY DEF IoRequests
<1>1. AbsFrom(io) \in Nat /\ AbsPos(io) = AbsFrom(io) + io.done
  BY Zenon, AbsFacts DEF MovedOK
<1>2. CASE AbsPos(io) \div BLOCK_SIZE >= num_blocks
  <2>1. io' = [io EXCEPT !.status = "error"] /\ dev' = dev
    BY <1>2 DEF OneBlock
  <2>2. /\ io' \in IoRequests(Parts) /\ io'.pos = io.pos /\ io'.from = io.from
        /\ io'.done = io.done /\ io'.op = io.op /\ io'.buf = io.buf
        /\ io'.caller = io.caller /\ io'.part = io.part
    BY Zenon, <2>1 DEF IoRequests
  <2>3. AbsFrom(io)' = AbsFrom(io)
    BY <2>2 DEF AbsFrom
  <2>4. MovedOK'
    BY <2>1, <2>2, <2>3, Zenon DEF MovedOK
  <2> QED
    BY <2>1, <2>2, <2>4 DEF IoInv
<1>3. CASE ~(AbsPos(io) \div BLOCK_SIZE >= num_blocks)
  <2> DEFINE abs == AbsPos(io)
  <2>0. abs \in Nat /\ abs = AbsFrom(io) + io.done
    BY <1>0, <1>1
  <2>1. PICK n \in Nat : Transfer(n) /\ abs + n <= Len(dev)
    BY <1>3, ChunkMoved
  <2>2. n \in Nat /\ abs + n <= Len(dev)
    BY <2>1
  <2> DEFINE moved == SubSeq(dev, abs + 1, abs + n)
  <2>3. moved \in Seq(Int)
    BY SMTT(30), <2>0, <2>2, SubSeqProperties
  <2> HIDE DEF moved
  <2>4. /\ io' \in IoRequests(Parts) /\ io'.pos = io.pos + n /\ io'.from = io.from
        /\ io'.done = io.done + n /\ io'.op = io.op
        /\ io'.caller = io.caller /\ io'.part = io.part
        /\ io'.buf = IF io.op = "read" THEN io.buf \o moved ELSE io.buf
    <3>1. io' = [io EXCEPT !.pos = @ + n, !.done = @ + n,
                           !.buf = IF io.op = "read" THEN @ \o moved ELSE @]
      BY <2>1, Zenon DEF Transfer, moved
    <3>2. io.pos + n \in Nat /\ io.done + n \in Nat /\ io.buf \o moved \in Seq(Int)
      BY SMTT(30), <1>0, <2>2, <2>3
    <3> QED
      BY Zenon, <1>0, <3>1, <3>2 DEF IoRequests
  <2>5. AbsFrom(io)' = AbsFrom(io)
    BY <2>4 DEF AbsFrom
  <2>6. /\ io'.pos = io'.from + io'.done
        /\ AbsFrom(io) + io'.done = abs + n
    <3>1. io.pos = io.from + io.done
      BY DEF MovedOK
    <3> HIDE DEF abs
    <3>2. io.from + (io.done + n) = (io.from + io.done) + n
      BY <1>0, <2>2, Window
    <3>3. AbsFrom(io) + (io.done + n) = (AbsFrom(io) + io.done) + n
      BY <1>0, <1>1, <2>2, Window
    <3> QED
      BY <2>0, <2>4, <3>1, <3>2, <3>3, Zenon
  <2>7. /\ io.done \in Nat /\ Len(dev) \in Nat /\ AbsFrom(io) \in Nat
        /\ AbsFrom(io) <= abs /\ abs <= abs + n
    <3> HIDE DEF abs
    <3> QED BY SMTT(30), <1>0, <1>1, <2>0, <2>2
  <2>8. CASE io.op = "read"
    <3>1. dev' = dev
      BY <2>1, <2>8 DEF Transfer
    <3> HIDE DEF abs
    <3>2. io.buf = SubSeq(dev, AbsFrom(io) + 1, abs)
      BY <2>0, <2>8 DEF MovedOK
    <3>3. io'.buf = SubSeq(dev, AbsFrom(io) + 1, abs + n)
      <4>1. /\ AbsFrom(io) + 1 \in 1 .. Len(dev) + 1
            /\ abs \in (AbsFrom(io) + 1) - 1 .. Len(dev)
            /\ abs + n \in abs .. Len(dev)
        BY Zenon, <2>0, <2>2, <2>7, Window
      <4>2. SubSeq(dev, AbsFrom(io) + 1, abs) \o moved = SubSeq(dev, AbsFrom(io) + 1, abs + n)
        BY Zenon, <4>1, ConcatAdjacentSubSeq DEF moved
      <4> QED
        BY Zenon, <2>4, <2>8, <3>2, <4>2
    <3>4. MovedOK'
      BY Zenon, <2>2, <2>4, <2>5, <2>6, <2>8, <3>1, <3>3 DEF MovedOK
    <3> QED
      BY <2>4, <3>1, <3>4 DEF IoInv
  <2>9. CASE io.op = "write"
    <3>1. dev' = [b \in 1 .. Len(dev) |->
                    IF abs < b /\ b <= abs + n THEN Written(io.done + b - abs - 1) ELSE dev[b]]
      BY <2>1, <2>9 DEF Transfer
    <3> HIDE DEF abs
    <3>2. dev' \in Seq(Int) /\ Len(dev') = Len(dev)
      <4>1. \A b \in 1 .. Len(dev) :
              (IF abs < b /\ b <= abs + n THEN Written(io.done + b - abs - 1) ELSE dev[b]) \in Int
        <5> SUFFICES ASSUME NEW b \in 1 .. Len(dev)
                     PROVE  Written(io.done + b - abs - 1) \in Int /\ dev[b] \in Int
          OBVIOUS
        <5>1. b \in Int /\ dev[b] \in Int
          BY <2>7
        <5>2. ASSUME NEW i \in Int, NEW j \in Int, NEW k \in Int PROVE Written(i + j - k - 1) \in Int
          BY DEF Written
        <5>3. io.done \in Int /\ abs \in Int
          BY <2>0, <2>7
        <5> QED
          BY <5>1, <5>2, <5>3, Zenon
      <4> QED
        BY <1>0, <3>1, <4>1
    <3>3. \A b \in 1 .. Len(dev) :
            dev'[b] = IF AbsFrom(io) < b /\ b <= abs + n
                        THEN Written(b - AbsFrom(io) - 1) ELSE Old(b)
      <4> SUFFICES ASSUME NEW b \in 1 .. Len(dev)
                   PROVE  dev'[b] = IF AbsFrom(io) < b /\ b <= abs + n
                                      THEN Written(b - AbsFrom(io) - 1) ELSE Old(b)
        OBVIOUS
      <4>1. dev'[b] = IF abs < b /\ b <= abs + n THEN Written(io.done + b - abs - 1) ELSE dev[b]
        BY <3>1
      <4>2. dev[b] = IF AbsFrom(io) < b /\ b <= abs THEN Written(b - AbsFrom(io) - 1) ELSE Old(b)
        BY <2>0, <2>9 DEF MovedOK
      <4> QED
        <5>1. b \in Int
          BY <2>7
        <5>2. ASSUME abs < b, b <= abs + n
              PROVE  Written(io.done + b - abs - 1) = Written(b - AbsFrom(io) - 1) /\ AbsFrom(io) < b
          <6>1. /\ Written(io.done + b - (AbsFrom(io) + io.done) - 1) = Written(b - AbsFrom(io) - 1)
                /\ AbsFrom(io) + io.done < b => AbsFrom(io) < b
            BY SMTT(30), <2>2, <2>7, <5>1, Window
          <6> QED
            BY <2>0, <5>2, <6>1, Zenon
        <5>3. ASSUME ~(abs < b) PROVE b <= abs /\ b <= abs + n
          BY <2>0, <2>2, <5>1, <5>3
        <5>4. ASSUME abs < b, ~(b <= abs + n) PROVE ~(b <= abs)
          BY <2>0, <2>2, <5>1, <5>4
        <5> QED
          BY <4>1, <4>2, <5>2, <5>3, <5>4, Zenon
    <3>4. MovedOK'
      BY <2>2, <2>4, <2>5, <2>6, <2>9, <3>2, <3>3 DEF MovedOK
    <3> QED
      BY <2>4, <3>2, <3>4 DEF IoInv
  <2> QED
    BY <1>0, <2>8, <2>9
<1> QED
  BY <1>2, <1>3

\* The inductive invariant of block requests.
LEMMA IoInvariant ==
  ASSUME NEW Parts, \A p \in Parts : IsPart(p)
  PROVE  IoSpec(Parts) => []IoInv(Parts)
<1>1. IoInit => IoInv(Parts)
  BY LabelledSeq DEF IoInit, IoInv
<1>2. IoInv(Parts) /\ [IoNext(Parts)]_ioVars => IoInv(Parts)'
  <2> SUFFICES ASSUME IoInv(Parts), [IoNext(Parts)]_ioVars PROVE IoInv(Parts)'
    OBVIOUS
  <2>1. CASE io = Idle /\ \E r \in Requested(Parts) : Start(r)
    BY <2>1, StartMoved
  <2>2. CASE IoStep
    <3>1. io \in IoRequests(Parts) /\ MovedOK /\ dev \in Seq(Int)
      <4>1. io # Idle
        BY <2>2 DEF IoStep, LoopDone, EndOfPartition, OneBlock, Busy, Idle
      <4> QED
        BY <4>1 DEF IoInv
    <3>2. CASE OneBlock
      BY <3>1, <3>2, BlockMoved
    <3>3. ASSUME NEW s \in {"done", "short"}, io' = [io EXCEPT !.status = s], dev' = dev
          PROVE  IoInv(Parts)'
      <4>1. /\ io' \in IoRequests(Parts) /\ io'.pos = io.pos /\ io'.from = io.from
            /\ io'.done = io.done /\ io'.op = io.op /\ io'.buf = io.buf
            /\ io'.caller = io.caller /\ io'.part = io.part
        BY Zenon, <3>1, <3>3 DEF IoRequests
      <4>2. AbsFrom(io)' = AbsFrom(io)
        BY <4>1 DEF AbsFrom
      <4>3. MovedOK'
        BY <3>1, <3>3, <4>1, <4>2, Zenon DEF MovedOK
      <4> QED
        BY <3>1, <3>3, <4>1, <4>3 DEF IoInv
    <3>4. CASE LoopDone \/ EndOfPartition
      <4>1. CASE io' = io /\ dev' = dev
        BY <3>1, <4>1 DEF IoInv, MovedOK, AbsFrom
      <4> QED
        BY SMTT(30), <3>3, <3>4, <4>1 DEF LoopDone, EndOfPartition
    <3> QED
      BY <2>2, <3>2, <3>4 DEF IoStep
  <2>3. CASE Relabel
    BY <2>3, LabelledSeq DEF Relabel, IoInv, Idle
  <2>4. CASE UNCHANGED ioVars
    BY <2>4 DEF ioVars, IoInv, MovedOK, AbsFrom
  <2> QED
    BY <2>1, <2>2, <2>3, <2>4 DEF IoNext
<1> QED
  BY <1>1, <1>2, PTL DEF IoSpec

\* On every device and for every set of partitions, whatever their place and
\* size, what a request of the ext4 or FAT library or of the partition scan has
\* moved so far is exactly the bytes from its position on: reads return them in
\* order and writes change no other byte of the device.
THEOREM BlockIoExact ==
  ASSUME NEW Parts, \A p \in Parts : IsPart(p)
  PROVE  IoSpec(Parts) => []IoExact
<1>1. IoInv(Parts) => IoExact
  <2> SUFFICES ASSUME IoInv(Parts), io.status # "idle" PROVE IoExact
    BY DEF IoExact
  <2>1. io \in IoRequests(Parts) /\ MovedOK
    BY DEF IoInv, Idle
  <2>2. AbsPos([io EXCEPT !.pos = io.from]) = AbsFrom(io) /\ io.op \in {"read", "write"}
    BY Zenon, <2>1, AbsFacts DEF MovedOK, IoRequests
  <2> QED
    BY <2>1, <2>2 DEF IoExact, MovedOK
<1> QED
  BY <1>1, IoInvariant, PTL

-----------------------------------------------------------------------------
(* Requests in range.                                                      *)

\* A device has whole blocks; the ext4 library asks for whole blocks of its
\* own, from a block boundary or from the end of the partition.
ShapeOK ==
    /\ \E k \in Nat : Len(dev) = k * BLOCK_SIZE
    /\ io # Idle =>
         /\ io.done <= io.want
         /\ io.caller = "ext4" =>
              \E n, id \in Nat : /\ io.want = n * EXT4_BLOCK_SIZE
                                 /\ io.from \in {id * EXT4_BLOCK_SIZE, size(io.part)}

\* A request inside its partition and on the device ends in success or moves at
\* least one byte in each call of read_one or write_one.
IoAdvances ==
    [][IoStep /\ InRange(io) =>
         \/ io'.status = "done" /\ io'.done = io.want
         \/ io'.status = "busy" /\ io.done < io'.done /\ io'.done <= io.want]_ioVars

\* A fresh device has whole blocks.
LEMMA LabelledLen ==
  ASSUME NEW d, Labelled(d) PROVE \E k \in Nat : Len(d) = k * BLOCK_SIZE
<1>1. PICK k \in Nat : d = [b \in 1 .. k * BLOCK_SIZE |-> Old(b)]
  BY DEF Labelled
<1>2. k * BLOCK_SIZE \in Nat
  BY BlockAssumption
<1>3. Len(d) = k * BLOCK_SIZE
  BY <1>1, <1>2
<1> QED BY <1>3

\* Requests change neither the size of the device nor their own bounds.
LEMMA ShapeCorrect ==
  ASSUME NEW Parts, \A p \in Parts : IsPart(p)
  PROVE  IoSpec(Parts) => []ShapeOK
<1>1. IoInit => ShapeOK
  BY LabelledLen DEF IoInit, ShapeOK
<1>2. IoInv(Parts) /\ ShapeOK /\ [IoNext(Parts)]_ioVars => ShapeOK'
  <2> SUFFICES ASSUME IoInv(Parts), ShapeOK, [IoNext(Parts)]_ioVars PROVE ShapeOK'
    OBVIOUS
  <2>1. CASE io = Idle /\ \E r \in Requested(Parts) : Start(r)
    <3>1. PICK r \in Requested(Parts) : io' = r /\ dev' = dev
      BY <2>1 DEF Start
    <3>2. /\ r.done <= r.want
          /\ r.caller = "ext4" =>
               \E n, id \in Nat : /\ r.want = n * EXT4_BLOCK_SIZE
                                  /\ r.from \in {id * EXT4_BLOCK_SIZE, size(r.part)}
      <4>1. CASE \E pos \in Nat, n \in Nat : r = ScanRequest(pos, n)
        BY <4>1 DEF ScanRequest, Request
      <4>2. CASE \E p \in Parts, op \in {"read", "write"}, pos \in Nat, n \in Nat :
                   r = FatRequest(p, op, pos, n)
        BY <4>2 DEF FatRequest, Request
      <4>3. CASE \E p \in Parts, op \in {"read", "write"}, id \in Nat, n \in Nat :
                   r = Ext4Request(p, op, id, n)
        <5>1. PICK p \in Parts, op \in {"read", "write"}, id \in Nat, n \in Nat :
                r = Ext4Request(p, op, id, n)
          BY <4>3
        <5>2. r.done = 0 /\ r.want = n * EXT4_BLOCK_SIZE /\ r.part = p
              /\ r.from = Clamp(p, id * EXT4_BLOCK_SIZE)
          BY <5>1 DEF Ext4Request, Request
        <5>3. n * EXT4_BLOCK_SIZE \in Nat
          BY BlockAssumption
        <5>4. r.from \in {id * EXT4_BLOCK_SIZE, size(r.part)}
          BY <5>2 DEF Clamp, Least
        <5>5. r.done <= r.want
          BY <5>2, <5>3
        <5> QED
          BY <5>2, <5>4, <5>5, Zenon
      <4> QED
        BY <4>1, <4>2, <4>3 DEF Requested
    <3> QED
      BY <3>1, <3>2, Zenon DEF ShapeOK
  <2>2. CASE IoStep
    <3>1. io \in IoRequests(Parts) /\ MovedOK /\ dev \in Seq(Int) /\ io # Idle
      <4>1. io # Idle
        BY <2>2 DEF IoStep, LoopDone, EndOfPartition, OneBlock, Busy, Idle
      <4> QED
        BY <4>1 DEF IoInv
    <3>2. ASSUME Len(dev') = Len(dev), io'.want = io.want, io'.from = io.from,
                 io'.part = io.part, io'.caller = io.caller, io'.done <= io.want
          PROVE  ShapeOK'
      BY <3>1, <3>2, Zenon DEF ShapeOK
    <3>3. ASSUME NEW s, io' = [io EXCEPT !.status = s], dev' = dev PROVE ShapeOK'
      BY <3>1, <3>2, <3>3 DEF IoRequests, ShapeOK
    <3>4. CASE LoopDone
      BY <3>3, <3>4 DEF LoopDone
    <3>5. CASE EndOfPartition
      <4>1. CASE io' = io
        BY <3>1, <3>2, <3>5, <4>1 DEF EndOfPartition, ShapeOK
      <4> QED
        BY <3>3, <3>5, <4>1 DEF EndOfPartition
    <3>6. CASE OneBlock
      <4>1. CASE AbsPos(io) \div BLOCK_SIZE >= num_blocks
        BY <3>3, <3>6, <4>1 DEF OneBlock
      <4>2. CASE ~(AbsPos(io) \div BLOCK_SIZE >= num_blocks)
        <5>1. PICK n \in Nat \ {0} : Transfer(n) /\ n <= io.want - io.done
          BY <3>1, <3>6, <4>2, ChunkMoved
        <5>2. Len(dev') = Len(dev)
          BY <3>1, <5>1 DEF Transfer
        <5>3. /\ io'.want = io.want /\ io'.from = io.from /\ io'.part = io.part
              /\ io'.caller = io.caller /\ io'.done = io.done + n
          BY <3>1, <5>1 DEF Transfer, IoRequests
        <5>4. io.done \in Nat /\ io.want \in Nat
          BY <3>1 DEF IoRequests
        <5> QED
          BY <3>2, <5>1, <5>2, <5>3, <5>4
      <4> QED BY <4>1, <4>2
    <3> QED
      BY <2>2, <3>4, <3>5, <3>6 DEF IoStep
  <2>3. CASE Relabel
    BY <2>3, LabelledLen DEF Relabel, ShapeOK
  <2>4. CASE UNCHANGED ioVars
    BY <2>4 DEF ioVars, ShapeOK
  <2> QED
    BY <2>1, <2>2, <2>3, <2>4 DEF IoNext
<1> QED
  BY <1>1, <1>2, IoInvariant, PTL DEF IoSpec

\* A request in range that is not done has not reached the end of its partition.
LEMMA InPartition ==
  ASSUME NEW Parts, \A p \in Parts : IsPart(p), io \in IoRequests(Parts), MovedOK, ShapeOK,
         io # Idle, InRange(io), io.done < io.want, io.caller # "scan"
  PROVE  io.pos < size(io.part)
<1> DEFINE sz == size(io.part)
           E == EXT4_BLOCK_SIZE
<1>0. /\ io.pos \in Nat /\ io.from \in Nat /\ io.done \in Nat /\ io.want \in Nat
      /\ io.pos = io.from + io.done /\ sz \in Nat /\ E \in Nat \ {0}
  BY PartFacts, BlockAssumption DEF IoRequests, MovedOK
<1>1. io.from + io.want <= sz
  <2>1. CASE io.caller = "fat"
    BY <2>1 DEF InRange
  <2>2. CASE io.caller = "ext4"
    <3>1. PICK n \in Nat, id \in Nat : io.want = n * E /\ io.from \in {id * E, sz}
      BY <2>2 DEF ShapeOK
    <3>2. (io.from + io.want) \div E <= sz \div E
      BY <2>2 DEF InRange, total_blocks
    <3> HIDE DEF sz, E
    <3>3. CASE io.from = sz
      <4>1. (sz + n * E) \div E = (sz \div E) + n /\ sz \div E \in Nat
        <5>1. (sz + n * E) \div E = (sz \div E) + n
          BY Zenon, <1>0, DivAdd
        <5>2. sz \div E \in Nat
          BY <1>0
        <5> QED BY <5>1, <5>2
      <4>2. n = 0
        BY <3>1, <3>2, <3>3, <4>1
      <4>3. io.want = 0
        BY <1>0, <3>1, <4>2
      <4> QED
        BY <1>0, <4>3
    <3>4. CASE io.from = id * E
      <4>1. id * E \in Nat /\ (id * E) + (n * E) = (id + n) * E /\ id + n \in Nat
        BY <1>0
      <4>2. (0 + (id + n) * E) \div E = (0 \div E) + (id + n) /\ 0 \div E = 0
        BY <1>0, <4>1, DivAdd
      <4>3. io.from + io.want = (id + n) * E /\ ((id + n) * E) \in Nat
        BY <1>0, <3>1, <3>4, <4>1
      <4>4. id + n <= sz \div E
        <5> DEFINE m == id + n
        <5>1. m \in Nat /\ (m * E) \div E = m
          BY <1>0, <4>1, <4>2, <4>3
        <5>2. (m * E) \div E <= sz \div E
          BY <3>2, <4>3
        <5> HIDE DEF m
        <5>3. m <= sz \div E
          BY <5>1, <5>2
        <5> QED BY <5>3 DEF m
      <4> QED
        BY Zenon, <1>0, <4>1, <4>3, <4>4, DivTimes
    <3> QED
      BY <3>1, <3>3, <3>4
  <2> QED
    BY <2>1, <2>2 DEF IoRequests
<1> HIDE DEF sz
<1> QED
  BY <1>0, <1>1 DEF sz

\* A request in range that is not done has not reached the end of the device.
LEMMA OnDevice ==
  ASSUME NEW Parts, \A p \in Parts : IsPart(p), dev \in Seq(Int), io \in IoRequests(Parts),
         MovedOK, ShapeOK, InRange(io), io.done < io.want
  PROVE  ~(AbsPos(io) \div BLOCK_SIZE >= num_blocks)
<1>0. io.done \in Nat /\ io.want \in Nat
  BY DEF IoRequests
<1>1. /\ AbsFrom(io) \in Nat /\ AbsPos(io) = AbsFrom(io) + io.done
      /\ AbsPos([io EXCEPT !.pos = io.from]) = AbsFrom(io)
  BY SMTT(30), AbsFacts DEF MovedOK
<1>2. PICK k \in Nat : Len(dev) = k * BLOCK_SIZE
  BY DEF ShapeOK
<1>3. AbsFrom(io) + io.want <= k * BLOCK_SIZE
  BY <1>1, <1>2 DEF InRange
<1> DEFINE abs == AbsPos(io)
           q == abs \div BLOCK_SIZE
<1>4. abs \in Nat /\ abs < k * BLOCK_SIZE
  <2>1. k * BLOCK_SIZE \in Nat
    BY BlockAssumption
  <2> QED
    BY <1>0, <1>1, <1>3, <2>1
<1>5. num_blocks = k
  <2>1. (0 + k * BLOCK_SIZE) \div BLOCK_SIZE = (0 \div BLOCK_SIZE) + k /\ 0 \div BLOCK_SIZE = 0
    BY BlockAssumption, DivAdd
  <2>2. 0 + k * BLOCK_SIZE = k * BLOCK_SIZE
    BY BlockAssumption
  <2> QED
    BY <1>2, <2>1, <2>2 DEF num_blocks
<1> HIDE DEF abs
<1>6. q \in Nat
  BY <1>4, BlockAssumption
<1>7. ASSUME k <= q PROVE FALSE
  BY <1>4, <1>7, BlockAssumption, DivTimes
<1> HIDE DEF q
<1> QED
  BY <1>5, <1>6, <1>7 DEF abs, q

\* A request inside its partition and on the device, whatever the block sizes
\* and the partitions, is served in full: no call fails, stops short or moves
\* nothing, so the loops of the ext4 block device do not spin on a count of zero.
THEOREM BlockIoAdvances ==
  ASSUME NEW Parts, \A p \in Parts : IsPart(p)
  PROVE  IoSpec(Parts) => IoAdvances
<1> DEFINE Advances == IoStep /\ InRange(io) =>
                         \/ io'.status = "done" /\ io'.done = io.want
                         \/ io'.status = "busy" /\ io.done < io'.done /\ io'.done <= io.want
<1>1. IoInv(Parts) /\ ShapeOK => Advances
  <2> SUFFICES ASSUME IoInv(Parts), ShapeOK, IoStep, InRange(io)
               PROVE  \/ io'.status = "done" /\ io'.done = io.want
                      \/ io'.status = "busy" /\ io.done < io'.done /\ io'.done <= io.want
    OBVIOUS
  <2>1. io \in IoRequests(Parts) /\ MovedOK /\ dev \in Seq(Int) /\ io # Idle /\ io.status = "busy"
    <3>1. io # Idle /\ io.status = "busy"
      BY DEF IoStep, LoopDone, EndOfPartition, OneBlock, Busy, Idle
    <3> QED
      BY <3>1 DEF IoInv
  <2>2. io.done \in Nat /\ io.want \in Nat /\ io.pos \in Nat /\ size(io.part) \in Nat
    BY <2>1, PartFacts DEF IoRequests
  <2>3. CASE LoopDone
    <3>1. io.done = io.want
      BY <2>1, <2>2, <2>3 DEF LoopDone, ShapeOK
    <3> QED
      BY <2>1, <2>3, <3>1 DEF LoopDone, IoRequests
  <2>4. CASE EndOfPartition
    BY <2>1, <2>2, <2>4, InPartition DEF EndOfPartition
  <2>5. CASE OneBlock
    <3>1. ~(AbsPos(io) \div BLOCK_SIZE >= num_blocks)
      BY <2>1, <2>5, OnDevice DEF OneBlock
    <3>2. PICK n \in Nat \ {0} : Transfer(n) /\ n <= io.want - io.done
      BY <2>1, <2>5, <3>1, ChunkMoved
    <3>3. io'.status = io.status /\ io'.done = io.done + n
      BY <2>1, <3>2 DEF Transfer, IoRequests
    <3> QED
      BY <2>1, <2>2, <3>2, <3>3
  <2> QED
    BY <2>3, <2>4, <2>5 DEF IoStep
<1> QED
  BY <1>1, IoInvariant, ShapeCorrect, PTL DEF IoAdvances

=============================================================================
