------------------------------- MODULE BlockIo -------------------------------
(***************************************************************************)
(* Block input and output of modules/axfs: the cursors of Disk and         *)
(* Partition (dev.rs) and the loops that drive them, the block device of   *)
(* the ext4 library (fs/ext4fs.rs), the byte stream of the FAT library     *)
(* (fs/fatfs.rs) and read_exact of the partition scan (partition.rs).      *)
(* One step is one call of read_one or write_one.                          *)
(***************************************************************************)
EXTENDS Integers, Sequences

CONSTANTS BLOCK_SIZE,       \* bytes of a device block, 512
          EXT4_BLOCK_SIZE   \* bytes of a block of the ext4 library, 4096

ASSUME BlockAssumption ==
    /\ BLOCK_SIZE \in Nat \ {0}
    /\ EXT4_BLOCK_SIZE \in Nat \ {0}

VARIABLES dev,  \* the bytes of the device
          io    \* the request under way

ioVars == <<dev, io>>

Least(a, b) == IF a < b THEN a ELSE b

\* Byte b of the device at first, and byte i of a buffer to be written.
Old(b) == -b
Written(i) == i + 1

Idle == [status |-> "idle"]
Busy == io.status = "busy"

num_blocks == Len(dev) \div BLOCK_SIZE

-----------------------------------------------------------------------------
(* Partition and Disk.                                                     *)

size(part) == (part.end_lba - part.start_lba + 1) * BLOCK_SIZE

\* Partition::set_position.
Clamp(part, pos) == Least(pos, size(part))

\* Mutant: a partly filled block at the end counts as a whole one.
total_blocks_Ceil(part) == (size(part) + EXT4_BLOCK_SIZE - 1) \div EXT4_BLOCK_SIZE

total_blocks(part) == size(part) \div EXT4_BLOCK_SIZE

\* Disk::read_one and write_one move a whole block from a block boundary, and
\* otherwise at most the rest of the block the cursor is in.
DiskChunk(pos, len) ==
    IF (pos % BLOCK_SIZE) = 0 /\ len >= BLOCK_SIZE
      THEN BLOCK_SIZE
      ELSE Least(len, BLOCK_SIZE - (pos % BLOCK_SIZE))

\* Partition::read_one and write_one cut the buffer at the end of the
\* partition; read_exact has the Disk itself.
Remaining(r) == IF r.caller = "scan" THEN r.want - r.done
                ELSE Least(r.want - r.done, size(r.part) - r.pos)
AbsPos(r) == IF r.caller = "scan" THEN r.pos ELSE r.part.start_lba * BLOCK_SIZE + r.pos

-----------------------------------------------------------------------------
(* The callers' requests.                                                  *)

Request(caller, op, part, pos, want) ==
    [status |-> "busy", caller |-> caller, op |-> op, part |-> part,
     from |-> pos, pos |-> pos, want |-> want, done |-> 0, buf |-> << >>]

\* rsext4::BlockDevice read and write: count blocks from block_id on.
Ext4Request(part, op, block_id, count) ==
    Request("ext4", op, part, Clamp(part, block_id * EXT4_BLOCK_SIZE),
            count * EXT4_BLOCK_SIZE)

\* fatfs Seek::seek, then Read::read or Write::write of a buffer.
FatRequest(part, op, pos, len) == Request("fat", op, part, Clamp(part, pos), len)

\* Disk::set_position, then read_exact.
ScanRequest(pos, len) == Request("scan", "read", [start_lba |-> 0, end_lba |-> 0], pos, len)

Start(r) ==
    /\ ~Busy
    /\ io' = r
    /\ UNCHANGED dev

\* The loop ends once the buffer is done.
LoopDone ==
    /\ Busy
    /\ io.done >= io.want
    /\ io' = [io EXCEPT !.status = "done"]
    /\ UNCHANGED dev

\* read_one and write_one return Ok(0) at the end of the partition.  The
\* stream of the FAT library breaks off; the ext4 loops only count bytes and
\* call again, with the same outcome.
EndOfPartition ==
    /\ Busy
    /\ io.done < io.want
    /\ io.caller # "scan"
    /\ io.pos >= size(io.part)
    /\ io' = IF io.caller = "fat" THEN [io EXCEPT !.status = "short"] ELSE io
    /\ UNCHANGED dev

\* Mutant: the partition's own cursor is used as the position on the disk.
Transfer_Relative(n) ==
    /\ dev' = IF io.op = "read" THEN dev
              ELSE [b \in 1 .. Len(dev) |->
                      IF io.pos < b /\ b <= io.pos + n
                        THEN Written(io.done + b - io.pos - 1) ELSE dev[b]]
    /\ io' = [io EXCEPT !.pos = @ + n, !.done = @ + n,
                        !.buf = IF io.op = "read"
                                  THEN @ \o SubSeq(dev, io.pos + 1, io.pos + n) ELSE @]

\* n bytes go between the buffer and the disk, and both cursors move on.
Transfer(n) ==
    LET abs == AbsPos(io)
    IN  /\ dev' = IF io.op = "read" THEN dev
                  ELSE [b \in 1 .. Len(dev) |->
                          IF abs < b /\ b <= abs + n
                            THEN Written(io.done + b - abs - 1) ELSE dev[b]]
        /\ io' = [io EXCEPT !.pos = @ + n, !.done = @ + n,
                            !.buf = IF io.op = "read"
                                      THEN @ \o SubSeq(dev, abs + 1, abs + n) ELSE @]

\* One call that reaches the device, which refuses a block it does not have.
OneBlock ==
    /\ Busy
    /\ io.done < io.want
    /\ io.caller = "scan" \/ io.pos < size(io.part)
    /\ IF AbsPos(io) \div BLOCK_SIZE >= num_blocks
         THEN io' = [io EXCEPT !.status = "error"] /\ UNCHANGED dev
         ELSE Transfer(DiskChunk(AbsPos(io), Remaining(io)))

IoStep == LoopDone \/ EndOfPartition \/ OneBlock

-----------------------------------------------------------------------------
\* The request lies inside its partition and on the device: for ext4 what
\* total_blocks offers the library.
InRange(r) ==
    /\ AbsPos([r EXCEPT !.pos = r.from]) + r.want <= Len(dev)
    /\ r.caller = "fat" => r.from + r.want <= size(r.part)
    /\ r.caller = "ext4" =>
         (r.from + r.want) \div EXT4_BLOCK_SIZE <= total_blocks(r.part)

\* What a request has moved so far is exactly the bytes from its position on,
\* in order: reads return them and writes change no other byte of the device.
IoExact ==
    io.status # "idle" =>
      LET abs == AbsPos([io EXCEPT !.pos = io.from])
          moved == SubSeq(dev, abs + 1, abs + io.done)
      IN  IF io.op = "read" THEN io.buf = moved
          ELSE \A b \in 1 .. Len(dev) :
                 dev[b] = IF abs < b /\ b <= abs + io.done THEN Written(b - abs - 1)
                                                             ELSE Old(b)

\* Every request inside its partition completes: the loops of the ext4 block
\* device, which do not look at a count of zero, never spin on one.
IoCompletes == (Busy /\ InRange(io)) ~> (io.status = "done")
=============================================================================
