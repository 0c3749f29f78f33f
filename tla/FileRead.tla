------------------------------ MODULE FileRead ------------------------------
(***************************************************************************)
(* Reading a regular file: file_read and read_data (filesystem.c) on one   *)
(* open file descriptor.  The file system image is read-only, so other     *)
(* processes and other descriptors cannot interfere; read_data is stepped  *)
(* block by block because that is how it copies.                           *)
(*                                                                         *)
(* An inode holds the size of the file and PerInode block numbers.  A      *)
(* block number that is not one of the image's NumBlocks blocks names      *)
(* memory behind the image.                                                *)
(***************************************************************************)
EXTENDS Integers, Sequences

CONSTANTS
    BlockSize,      \* BLOCKSIZE
    NumInodes,      \* num_inodes
    NumBlocks,      \* num_d_blocks
    PerInode,       \* block numbers that fit into an inode
    Byte,           \* the values of a byte
    Behind,         \* what a block behind the image holds
    Images,         \* the images considered
    Lengths,        \* the lengths that programs ask for
    Word,           \* 2^32: file_pos is a uint32_t
    MaxReads        \* bound: reads between two opens

Inode == 0 .. (NumInodes - 1)
Index == 0 .. (PerInode - 1)
Block == [0 .. (BlockSize - 1) -> Byte]
Image == [size : [Inode -> 0 .. (PerInode * BlockSize)],
          block : [Inode -> [Index -> Nat]],
          data : [0 .. (NumBlocks - 1) -> Block]]

ASSUME SizeAssumption ==
    /\ BlockSize \in Nat \ {0}
    /\ NumInodes \in Nat \ {0}
    /\ NumBlocks \in Nat
    /\ PerInode \in Nat
ASSUME WordAssumption == Word \in Nat /\ PerInode * BlockSize < Word
ASSUME ImageAssumption == Images \subseteq Image /\ Behind \in Block
ASSUME LengthAssumption == Lengths \subseteq Nat
ASSUME ReadsAssumption == MaxReads \in Nat

VARIABLES
    image,      \* the file system in memory
    inode,      \* files[fd].inode
    file_pos,   \* files[fd].file_pos
    pc,         \* where read_data is
    length,     \* its argument
    d_block_idx_offset,
    bytes_to_copy,
    buf,        \* the bytes copied by this call
    res,        \* what the last call returned
    seen,       \* history: all bytes returned since the file was opened
    reads       \* counter for the bound

vars == <<image, inode, file_pos, pc, length, d_block_idx_offset, bytes_to_copy, buf,
          res, seen, reads>>

Init ==
    /\ image \in Images
    /\ inode \in Inode
    /\ file_pos = 0
    /\ pc = "idle"
    /\ length = 0
    /\ d_block_idx_offset = 0
    /\ bytes_to_copy = 0
    /\ buf = <<>>
    /\ res = 0
    /\ seen = <<>>
    /\ reads = 0

Size == image.size[inode]

\* Fault: a read ends at the end of its first block.
real_length_Block ==
    LET left == BlockSize - (file_pos % BlockSize)
        n    == IF Size - file_pos < length THEN Size - file_pos ELSE length
    IN  IF left < n THEN left ELSE n

\* real_length: what is asked for, cut at the end of the file.
real_length == IF Size - file_pos < length THEN Size - file_pos ELSE length

BlockNo(i) == image.block[inode][i]
Contents(b) == IF b < NumBlocks THEN image.data[b] ELSE Behind

\* memcpy of n bytes from byte `from` of block b.
Copied(b, from, n) == [j \in 1 .. n |-> Contents(b)[from + j - 1]]

-----------------------------------------------------------------------------
\* open: a new descriptor for file i.
Open(i) ==
    /\ pc = "idle"
    /\ inode' = i
    /\ file_pos' = 0
    /\ seen' = <<>>
    /\ reads' = 0
    /\ UNCHANGED <<image, pc, length, d_block_idx_offset, bytes_to_copy, buf, res>>

\* read_data returns r with `got` in the buffer, and file_read adds r to
\* file_pos, also when r is -1.
Return(r, got) ==
    /\ pc' = "idle"
    /\ res' = r
    /\ file_pos' = (file_pos + r) % Word
    /\ buf' = got
    /\ seen' = IF r = -1 THEN seen ELSE seen \o got
    /\ UNCHANGED <<image, inode>>

\* The call, up to the check of the inode and of the offset.
FileRead(n) ==
    /\ pc = "idle"
    /\ reads < MaxReads
    /\ reads' = reads + 1
    /\ length' = n
    /\ \/ /\ inode >= NumInodes - 1
          /\ Return(-1, <<>>)
          /\ UNCHANGED <<d_block_idx_offset, bytes_to_copy>>
       \/ /\ inode < NumInodes - 1
          /\ file_pos >= Size
          /\ Return(0, <<>>)
          /\ UNCHANGED <<d_block_idx_offset, bytes_to_copy>>
       \/ /\ inode < NumInodes - 1
          /\ file_pos < Size
          /\ pc' = "first"
          /\ buf' = <<>>
          /\ d_block_idx_offset' = file_pos \div BlockSize
          /\ UNCHANGED <<image, inode, file_pos, bytes_to_copy, res, seen>>

\* Fault: the read starts again at a block number that the code rejects.
BadBlock_Retries ==
    /\ \/ pc = "first" /\ BlockNo(d_block_idx_offset) > NumBlocks
       \/ /\ pc = "rest"
          /\ bytes_to_copy > BlockSize
          /\ BlockNo(d_block_idx_offset + 1) > NumBlocks
    /\ pc' = "first"
    /\ buf' = <<>>
    /\ d_block_idx_offset' = file_pos \div BlockSize
    /\ UNCHANGED <<image, inode, file_pos, length, bytes_to_copy, res, seen, reads>>

\* A block number that the code rejects; the bytes copied so far stay.
BadBlock ==
    /\ \/ pc = "first" /\ BlockNo(d_block_idx_offset) > NumBlocks
       \/ /\ pc = "rest"
          /\ bytes_to_copy > BlockSize
          /\ BlockNo(d_block_idx_offset + 1) > NumBlocks
    /\ Return(-1, buf)
    /\ UNCHANGED <<length, d_block_idx_offset, bytes_to_copy, reads>>

\* Fault: the first block is always copied from its start.
StartByte_Zero == 0

\* d_block_byte_offset: where the read starts in its first block.
StartByte == file_pos % BlockSize

\* All that is wanted lies in the first block.
FirstBlockOnly ==
    /\ pc = "first"
    /\ BlockNo(d_block_idx_offset) <= NumBlocks
    /\ BlockSize - StartByte >= real_length
    /\ Return(real_length, Copied(BlockNo(d_block_idx_offset), StartByte, real_length))
    /\ UNCHANGED <<length, d_block_idx_offset, bytes_to_copy, reads>>

\* The rest of the first block; more blocks follow.
FirstBlock ==
    /\ pc = "first"
    /\ BlockNo(d_block_idx_offset) <= NumBlocks
    /\ BlockSize - StartByte < real_length
    /\ pc' = "rest"
    /\ buf' = Copied(BlockNo(d_block_idx_offset), StartByte, BlockSize - StartByte)
    /\ bytes_to_copy' = real_length - (BlockSize - StartByte)
    /\ UNCHANGED <<image, inode, file_pos, length, d_block_idx_offset, res, seen, reads>>

\* A whole block in the middle.
WholeBlock ==
    /\ pc = "rest"
    /\ bytes_to_copy > BlockSize
    /\ BlockNo(d_block_idx_offset + 1) <= NumBlocks
    /\ bytes_to_copy' = bytes_to_copy - BlockSize
    /\ d_block_idx_offset' = d_block_idx_offset + 1
    /\ buf' = buf \o Copied(BlockNo(d_block_idx_offset + 1), 0, BlockSize)
    /\ UNCHANGED <<image, inode, file_pos, pc, length, res, seen, reads>>

\* The last block, whose number is not checked.
LastBlock ==
    /\ pc = "rest"
    /\ bytes_to_copy <= BlockSize
    /\ d_block_idx_offset' = d_block_idx_offset + 1
    /\ bytes_to_copy' = 0
    /\ Return(real_length,
              buf \o Copied(BlockNo(d_block_idx_offset + 1), 0, bytes_to_copy))
    /\ UNCHANGED <<length, reads>>

ReadStep == BadBlock \/ FirstBlockOnly \/ FirstBlock \/ WholeBlock \/ LastBlock

Next ==
    \/ \E i \in Inode : Open(i)
    \/ \E n \in Lengths : FileRead(n)
    \/ ReadStep

Spec == Init /\ [][Next]_vars

\* read_data is code that runs on whenever its process has the CPU.
FairSpec == Spec /\ WF_vars(ReadStep)

-----------------------------------------------------------------------------
\* Types; file_pos stays a uint32_t, also when a failed read adds -1 to it.
TypeOK ==
    /\ image \in Images
    /\ inode \in Inode
    /\ file_pos \in 0 .. (Word - 1)
    /\ pc \in {"idle", "first", "rest"}
    /\ length \in Nat
    /\ d_block_idx_offset \in Nat
    /\ bytes_to_copy \in Nat
    /\ buf \in Seq(Byte)
    /\ res \in Int
    /\ seen \in Seq(Byte)
    /\ reads \in 0 .. MaxReads

\* Every block of the open file lies in the image.
Sound == \A i \in Index : i * BlockSize < Size => BlockNo(i) < NumBlocks

\* An open file that read_data accepts and whose blocks are in the image.
Readable == Sound /\ inode < NumInodes - 1

\* Byte k of the open file.
FileByte(k) == Contents(BlockNo(k \div BlockSize))[k % BlockSize]

\* file_read called again and again returns the bytes of the file in order,
\* none twice and none left out, whatever the lengths and however they fall
\* on the blocks.
SequentialReads ==
    Readable =>
        /\ file_pos = Len(seen)
        /\ file_pos <= Size
        /\ \A k \in 1 .. Len(seen) : seen[k] = FileByte(k - 1)

\* A read returns fewer bytes than asked for only at the end of the file.
ShortOnlyAtEnd ==
    [][Readable /\ file_pos' > file_pos =>
          file_pos' - file_pos = length' \/ file_pos' = Size]_vars

\* read_data never runs out of blocks and ends.
ReadTerminates == pc = "first" ~> pc = "idle"
=============================================================================
