--------------------------- MODULE FileRead_proofs ---------------------------
(***************************************************************************)
(* Proofs about FileRead: for every image, block size and sequence of      *)
(* reads, file_read returns the file's bytes in order.                     *)
(***************************************************************************)
EXTENDS FileRead, TLAPS

(***************************************************************************)
(* Arithmetic of blocks.                                                   *)
(***************************************************************************)
\* The quotient and the remainder of q * b + r.
LEMMA Split ==
    ASSUME NEW b \in Nat \ {0}, NEW q \in Nat, NEW r \in 0 .. (b - 1)
    PROVE  (q * b + r) \div b = q /\ (q * b + r) % b = r
  BY Z3

\* Every number is its quotient times b plus its remainder.
LEMMA Join ==
    ASSUME NEW b \in Nat \ {0}, NEW k \in Nat
    PROVE  /\ k = (k \div b) * b + (k % b)
           /\ k \div b \in Nat
           /\ k % b \in 0 .. (b - 1)
  BY Z3

\* A block that starts before byte n * b is one of the first n.
LEMMA Before ==
    ASSUME NEW b \in Nat \ {0}, NEW q \in Nat, NEW n \in Nat, q * b < n * b
    PROVE  q < n
  BY Z3

\* A number below b is its own remainder.
LEMMA Small ==
    ASSUME NEW b \in Nat \ {0}, NEW r \in 0 .. (b - 1)
    PROVE  r % b = r
  BY Z3

(***************************************************************************)
(* Bytes of the image.                                                     *)
(***************************************************************************)
LEMMA ContentsType ==
    ASSUME TypeOK, NEW b \in Nat
    PROVE  Contents(b) \in Block
  <1>1. image \in Image
    BY ImageAssumption DEF TypeOK
  <1>2. image.data \in [0 .. (NumBlocks - 1) -> Block]
    BY <1>1 DEF Image
  <1>3. CASE b < NumBlocks
    <2>1. b \in 0 .. (NumBlocks - 1)
      BY <1>3, SizeAssumption
    <2> QED BY <1>2, <1>3, <2>1 DEF Contents
  <1>4. CASE ~(b < NumBlocks)
    BY <1>4, ImageAssumption DEF Contents
  <1> QED BY <1>3, <1>4

\* The size of the open file and the block numbers of its inode.
LEMMA InodeType ==
    ASSUME TypeOK
    PROVE  /\ Size \in Nat
           /\ Size <= PerInode * BlockSize
           /\ PerInode * BlockSize \in Nat
           /\ \A i \in Index : BlockNo(i) \in Nat
  <1>1. image \in Image /\ inode \in Inode
    BY ImageAssumption DEF TypeOK
  <1>2. PerInode * BlockSize \in Nat
    BY SizeAssumption
  <1>3. image.size \in [Inode -> 0 .. (PerInode * BlockSize)]
    BY <1>1 DEF Image
  <1>4. image.block \in [Inode -> [Index -> Nat]]
    BY <1>1 DEF Image
  <1>5. Size \in 0 .. (PerInode * BlockSize)
    BY <1>1, <1>3 DEF Size
  <1>6. \A i \in Index : BlockNo(i) \in Nat
    BY <1>1, <1>4 DEF BlockNo
  <1> QED BY <1>2, <1>5, <1>6

\* A block that starts inside the file has a number in the inode.
LEMMA IndexInside ==
    ASSUME TypeOK, NEW q \in Nat, q * BlockSize < Size
    PROVE  q \in Index /\ BlockNo(q) \in Nat
  <1>1. q * BlockSize < PerInode * BlockSize
    <2>1. q * BlockSize \in Nat
      BY SizeAssumption
    <2> QED BY <2>1, InodeType
  <1>2. q < PerInode
    BY <1>1, Before, SizeAssumption
  <1>3. q \in Index
    BY <1>2, SizeAssumption DEF Index
  <1> QED BY <1>3, InodeType

\* What memcpy copies out of one block.
LEMMA CopiedBytes ==
    ASSUME TypeOK, NEW b \in Nat, NEW from \in Nat, NEW n \in Nat, from + n <= BlockSize
    PROVE  /\ Copied(b, from, n) \in Seq(Byte)
           /\ Len(Copied(b, from, n)) = n
           /\ \A j \in 1 .. n : Copied(b, from, n)[j] = Contents(b)[from + j - 1]
  <1>1. Contents(b) \in [0 .. (BlockSize - 1) -> Byte]
    BY ContentsType DEF Block
  <1>2. \A j \in 1 .. n : Contents(b)[from + j - 1] \in Byte
    <2>1. TAKE j \in 1 .. n
    <2>2. from + j - 1 \in 0 .. (BlockSize - 1)
      BY SizeAssumption
    <2> QED BY <1>1, <2>2
  <1>3. Copied(b, from, n) \in [1 .. n -> Byte]
    BY <1>2 DEF Copied
  <1> QED BY <1>3 DEF Copied

\* Byte r of block q is byte q * BlockSize + r of the file.
LEMMA BlockBytes ==
    ASSUME NEW q \in Nat, NEW r \in 0 .. (BlockSize - 1)
    PROVE  FileByte(q * BlockSize + r) = Contents(BlockNo(q))[r]
  BY Split, SizeAssumption DEF FileByte

\* What appending one sequence of bytes to another gives.
LEMMA Appended ==
    ASSUME NEW s \in Seq(Byte), NEW c \in Seq(Byte)
    PROVE  /\ s \o c \in Seq(Byte)
           /\ Len(s \o c) = Len(s) + Len(c)
           /\ \A k \in 1 .. Len(s) : (s \o c)[k] = s[k]
           /\ \A k \in (Len(s) + 1) .. (Len(s) + Len(c)) : (s \o c)[k] = c[k - Len(s)]
  OBVIOUS

-----------------------------------------------------------------------------
(***************************************************************************)
(* The inductive invariant.  While read_data runs, the file position has   *)
(* not moved yet and the buffer holds the bytes from it up to the end of a *)
(* block; bytes_to_copy is what is still missing.                          *)
(***************************************************************************)
InFirst ==
    pc = "first" =>
        /\ inode < NumInodes - 1
        /\ file_pos < Size
        /\ d_block_idx_offset = file_pos \div BlockSize

InRest ==
    pc = "rest" =>
        /\ inode < NumInodes - 1
        /\ file_pos < Size
        /\ bytes_to_copy > 0
        /\ Len(buf) + bytes_to_copy = real_length
        /\ file_pos + Len(buf) = (d_block_idx_offset + 1) * BlockSize
        /\ \A k \in 1 .. Len(buf) : buf[k] = FileByte(file_pos + k - 1)

IInv == TypeOK /\ InFirst /\ InRest /\ SequentialReads

\* What a read at a position inside the file can want.
LEMMA LengthType ==
    ASSUME TypeOK, file_pos < Size
    PROVE  /\ real_length \in Nat
           /\ real_length <= length
           /\ file_pos + real_length <= Size
           /\ real_length = length \/ file_pos + real_length = Size
  <1>1. Size \in Nat /\ file_pos \in Nat /\ length \in Nat
    BY InodeType, WordAssumption DEF TypeOK
  <1> QED BY <1>1 DEF real_length

\* Returning n right bytes: the position moves on by n and the bytes returned
\* so far are still the file from its start.
LEMMA ReturnKeeps ==
    ASSUME TypeOK, SequentialReads, NEW n \in Nat, NEW got \in Seq(Byte), Len(got) = n,
           file_pos + n <= Size,
           \A k \in 1 .. n : got[k] = FileByte(file_pos + k - 1),
           Return(n, got)
    PROVE  /\ file_pos' \in 0 .. (Word - 1)
           /\ seen' \in Seq(Byte)
           /\ SequentialReads'
  <1>1. Size \in Nat /\ Size < Word /\ file_pos \in Nat /\ Word \in Nat
    BY InodeType, WordAssumption DEF TypeOK
  <1>2. file_pos + n \in 0 .. (Word - 1)
    BY <1>1
  <1>3. file_pos' = file_pos + n
    <2>1. file_pos' = (file_pos + n) % Word
      BY DEF Return
    <2>2. Word \in Nat \ {0}
      BY <1>1
    <2> QED BY <1>2, <2>1, <2>2, Small
  <1>4. seen' = seen \o got /\ image' = image /\ inode' = inode
    BY DEF Return
  <1>5. seen \in Seq(Byte)
    BY DEF TypeOK
  <1>6. Size' = Size /\ Sound' = Sound /\ Readable' = Readable
    BY <1>4 DEF Size, Sound, Readable, BlockNo
  <1>7. \A k : FileByte(k)' = FileByte(k)
    BY <1>4 DEF FileByte, Contents, BlockNo
  <1>8. SequentialReads'
    <2>1. SUFFICES ASSUME Readable
                   PROVE  /\ file_pos' = Len(seen')
                          /\ file_pos' <= Size
                          /\ \A k \in 1 .. Len(seen') : seen'[k] = FileByte(k - 1)
      BY <1>6, <1>7 DEF SequentialReads
    <2>2. file_pos = Len(seen) /\ \A k \in 1 .. Len(seen) : seen[k] = FileByte(k - 1)
      BY <2>1 DEF SequentialReads
    <2>3. Len(seen') = Len(seen) + n
      <3>1. Len(seen \o got) = Len(seen) + Len(got)
        BY <1>5
      <3> QED BY <3>1, <1>4
    <2>4. \A k \in 1 .. (Len(seen) + n) : seen'[k] = FileByte(k - 1)
      <3>1. TAKE k \in 1 .. (Len(seen) + n)
      <3>2. CASE k <= Len(seen)
        BY <1>4, <1>5, <2>2, <3>2
      <3>3. CASE k > Len(seen)
        <4>1. k - Len(seen) \in 1 .. n /\ seen'[k] = got[k - Len(seen)]
          BY <1>4, <1>5, <3>3
        <4>2. file_pos + (k - Len(seen)) - 1 = k - 1
          BY <2>2, <1>1, <3>1
        <4> QED BY <4>1, <4>2
      <3> QED BY <3>2, <3>3
    <2> QED BY <1>2, <1>3, <2>2, <2>3, <2>4
  <1> QED BY <1>2, <1>3, <1>4, <1>5, <1>8

\* The file has no readable bytes for a read that returns -1.
LEMMA RejectKeeps ==
    ASSUME TypeOK, NEW got \in Seq(Byte), ~Readable, Return(-1, got)
    PROVE  /\ file_pos' \in 0 .. (Word - 1)
           /\ seen' \in Seq(Byte)
           /\ SequentialReads'
  <1>1. image' = image /\ inode' = inode /\ seen' = seen /\ file_pos' = (file_pos - 1) % Word
    BY DEF Return, TypeOK
  <1>2. Readable' = Readable
    BY <1>1 DEF Readable, Sound, Size, BlockNo
  <1>3. file_pos \in Int /\ Word \in Nat /\ Word > 0
    BY WordAssumption DEF TypeOK
  <1> QED BY <1>1, <1>2, <1>3 DEF SequentialReads, TypeOK

-----------------------------------------------------------------------------
\* The initial states satisfy the inductive invariant.
LEMMA InitHolds ==
    ASSUME Init
    PROVE  IInv
  <1>1. inode \in Inode /\ image \in Images /\ file_pos = 0 /\ seen = <<>> /\ pc = "idle"
    BY DEF Init
  <1>2. TypeOK
    <2>1. 0 \in 0 .. (Word - 1)
      <3>1. PerInode * BlockSize \in Nat
        BY SizeAssumption
      <3> QED BY <3>1, WordAssumption
    <2> QED BY <2>1, ReadsAssumption DEF Init, TypeOK
  <1>3. SequentialReads
    <2>1. Size \in Nat
      BY <1>2, InodeType
    <2> QED BY <1>1, <2>1 DEF SequentialReads
  <1> QED BY <1>1, <1>2, <1>3 DEF IInv, InFirst, InRest

\* Steps that leave the file, its position and the bytes returned alone.
LEMMA SameFile ==
    ASSUME UNCHANGED <<image, inode, file_pos, seen>>
    PROVE  /\ Size' = Size
           /\ SequentialReads' = SequentialReads
           /\ \A k : FileByte(k)' = FileByte(k)
           /\ \A i : BlockNo(i)' = BlockNo(i)
  <1>1. Size' = Size /\ (\A i : BlockNo(i)' = BlockNo(i)) /\ \A b : Contents(b)' = Contents(b)
    BY DEF Size, BlockNo, Contents
  <1>2. \A k : FileByte(k)' = FileByte(k)
    BY <1>1 DEF FileByte, Contents, BlockNo
  <1>3. Readable' = Readable
    BY <1>1 DEF Readable, Sound, Size, BlockNo
  <1> QED BY <1>1, <1>2, <1>3 DEF SequentialReads

\* open starts at position 0 with nothing seen.
LEMMA OpenKeeps ==
    ASSUME IInv, NEW i \in Inode, Open(i)
    PROVE  IInv'
  <1>1. TypeOK'
    <2>1. 0 \in 0 .. (Word - 1)
      BY WordAssumption DEF IInv, TypeOK
    <2> QED BY <2>1, ReadsAssumption DEF IInv, TypeOK, Open
  <1>2. Size' \in Nat
    <2>1. image' \in Image /\ inode' \in Inode
      BY <1>1, ImageAssumption DEF TypeOK
    <2>2. PerInode * BlockSize \in Nat
      BY SizeAssumption
    <2>3. image'.size \in [Inode -> 0 .. (PerInode * BlockSize)]
      BY <2>1 DEF Image
    <2>4. image'.size[inode'] \in 0 .. (PerInode * BlockSize)
      BY <2>1, <2>3
    <2> QED BY <2>2, <2>4 DEF Size
  <1>3. SequentialReads'
    BY <1>2 DEF SequentialReads, Open
  <1> QED BY <1>1, <1>3 DEF IInv, InFirst, InRest, Open

\* The call of file_read: an early return moves nothing, or the copy starts at the block of file_pos.
LEMMA FileReadKeeps ==
    ASSUME IInv, NEW n \in Lengths, FileRead(n)
    PROVE  IInv'
  <1> USE DEF IInv
  <1>1. n \in Nat /\ reads' \in 0 .. MaxReads
    BY LengthAssumption, ReadsAssumption DEF FileRead, TypeOK
  <1>2. CASE /\ inode >= NumInodes - 1
             /\ Return(-1, <<>>)
             /\ UNCHANGED <<d_block_idx_offset, bytes_to_copy>>
    <2>1. ~Readable
      BY <1>2, SizeAssumption DEF Readable, TypeOK, Inode
    <2>2. <<>> \in Seq(Byte)
      OBVIOUS
    <2>3. file_pos' \in 0 .. (Word - 1) /\ seen' \in Seq(Byte) /\ SequentialReads'
      BY <1>2, <2>1, <2>2, RejectKeeps
    <2>4. TypeOK' /\ pc' = "idle"
      BY <1>1, <1>2, <2>3 DEF TypeOK, Return, FileRead
    <2> QED BY <2>3, <2>4 DEF InFirst, InRest
  <1>3. CASE /\ file_pos >= Size
             /\ Return(0, <<>>)
             /\ UNCHANGED <<d_block_idx_offset, bytes_to_copy>>
    <2>1. file_pos' = file_pos /\ seen' = seen
      <3>1. file_pos' = (file_pos + 0) % Word /\ seen' = seen \o <<>>
        BY <1>3 DEF Return
      <3>2. Word \in Nat \ {0} /\ file_pos \in 0 .. (Word - 1)
        BY WordAssumption DEF TypeOK
      <3>3. file_pos + 0 = file_pos /\ seen \o <<>> = seen
        BY <3>2 DEF TypeOK
      <3> QED BY <3>1, <3>2, <3>3, Small
    <2>2. UNCHANGED <<image, inode, file_pos, seen>> /\ pc' = "idle"
      BY <1>3, <2>1 DEF Return
    <2>3. SequentialReads'
      BY <2>2, SameFile
    <2>4. TypeOK'
      BY <1>1, <1>3, <2>2 DEF TypeOK, Return, FileRead
    <2> QED BY <2>2, <2>3, <2>4 DEF InFirst, InRest
  <1>4. CASE /\ inode < NumInodes - 1
             /\ file_pos < Size
             /\ pc' = "first"
             /\ buf' = <<>>
             /\ d_block_idx_offset' = file_pos \div BlockSize
             /\ UNCHANGED <<image, inode, file_pos, bytes_to_copy, res, seen>>
    <2>1. SequentialReads' /\ Size' = Size
      BY <1>4, SameFile
    <2>2. file_pos \div BlockSize \in Nat
      <3>1. file_pos \in Nat
        BY WordAssumption DEF TypeOK
      <3> QED BY <3>1, Join, SizeAssumption
    <2>3. TypeOK'
      BY <1>1, <1>4, <2>2 DEF TypeOK, FileRead
    <2> QED BY <1>4, <2>1, <2>3 DEF InFirst, InRest
  <1> QED BY <1>2, <1>3, <1>4 DEF FileRead

\* The first block: it starts at or before the position, inside the file.
LEMMA FirstFacts ==
    ASSUME IInv, pc = "first"
    PROVE  /\ StartByte \in 0 .. (BlockSize - 1)
           /\ file_pos = d_block_idx_offset * BlockSize + StartByte
           /\ d_block_idx_offset * BlockSize < Size
           /\ d_block_idx_offset \in Index
           /\ BlockNo(d_block_idx_offset) \in Nat
  <1>1. file_pos \in Nat /\ Size \in Nat /\ file_pos < Size
    BY InodeType, WordAssumption DEF IInv, TypeOK, InFirst
  <1>2. d_block_idx_offset = file_pos \div BlockSize /\ d_block_idx_offset \in Nat
    BY DEF IInv, TypeOK, InFirst
  <1>3. /\ file_pos = d_block_idx_offset * BlockSize + StartByte
        /\ StartByte \in 0 .. (BlockSize - 1)
    BY <1>1, <1>2, Join, SizeAssumption DEF StartByte
  <1>4. d_block_idx_offset * BlockSize < Size
    <2>1. d_block_idx_offset * BlockSize \in Nat
      BY <1>2, SizeAssumption
    <2> QED BY <1>1, <1>3, <2>1, SizeAssumption
  <1> QED BY <1>2, <1>3, <1>4, IndexInside DEF IInv

\* The next block starts where the buffer ends, inside the file.
LEMMA RestFacts ==
    ASSUME IInv, pc = "rest"
    PROVE  /\ file_pos + Len(buf) = (d_block_idx_offset + 1) * BlockSize
           /\ (d_block_idx_offset + 1) * BlockSize < Size
           /\ d_block_idx_offset + 1 \in Index
           /\ BlockNo(d_block_idx_offset + 1) \in Nat
           /\ bytes_to_copy \in Nat \ {0}
           /\ real_length \in Nat
           /\ Len(buf) + bytes_to_copy = real_length
           /\ file_pos + real_length <= Size
           /\ buf \in Seq(Byte)
           /\ file_pos \in Nat
  <1>1. /\ TypeOK
        /\ file_pos < Size
        /\ bytes_to_copy > 0
        /\ Len(buf) + bytes_to_copy = real_length
        /\ file_pos + Len(buf) = (d_block_idx_offset + 1) * BlockSize
    BY DEF IInv, InRest
  <1>2. real_length \in Nat /\ file_pos + real_length <= Size
    BY <1>1, LengthType
  <1>3. /\ file_pos \in Nat /\ Size \in Nat /\ bytes_to_copy \in Nat /\ buf \in Seq(Byte)
        /\ Len(buf) \in Nat /\ d_block_idx_offset + 1 \in Nat
    BY <1>1, InodeType, WordAssumption DEF TypeOK
  <1>4. (d_block_idx_offset + 1) * BlockSize < Size
    <2>1. file_pos + Len(buf) < Size
      BY <1>1, <1>2, <1>3
    <2> QED BY <1>1, <2>1
  <1>5. d_block_idx_offset + 1 \in Index /\ BlockNo(d_block_idx_offset + 1) \in Nat
    BY <1>1, <1>3, <1>4, IndexInside
  <1> QED BY <1>1, <1>2, <1>3, <1>4, <1>5

\* The first block's bytes, copied from the position on.
LEMMA FirstCopied ==
    ASSUME IInv, pc = "first", NEW n \in Nat, StartByte + n <= BlockSize
    PROVE  LET c == Copied(BlockNo(d_block_idx_offset), StartByte, n)
           IN  /\ c \in Seq(Byte)
               /\ Len(c) = n
               /\ \A k \in 1 .. Len(c) : c[k] = FileByte(file_pos + k - 1)
  <1> DEFINE c == Copied(BlockNo(d_block_idx_offset), StartByte, n)
  <1>1. /\ TypeOK
        /\ StartByte \in Nat
        /\ BlockNo(d_block_idx_offset) \in Nat
        /\ d_block_idx_offset \in Nat
        /\ file_pos \in Nat
        /\ file_pos = d_block_idx_offset * BlockSize + StartByte
    BY FirstFacts, WordAssumption DEF IInv, TypeOK
  <1>2. c \in Seq(Byte) /\ Len(c) = n
    BY <1>1, CopiedBytes
  <1>3. ASSUME NEW k \in 1 .. n
        PROVE  c[k] = FileByte(file_pos + k - 1)
    <2>1. c[k] = Contents(BlockNo(d_block_idx_offset))[StartByte + k - 1]
      BY DEF Copied
    <2>2. StartByte + k - 1 \in 0 .. (BlockSize - 1)
      BY <1>1, SizeAssumption
    <2>3. PICK m \in Nat : m = d_block_idx_offset * BlockSize
      BY <1>1, SizeAssumption
    <2>4. file_pos + k - 1 = m + (StartByte + k - 1)
      BY <1>1, <2>3
    <2> QED BY <1>1, <2>1, <2>2, <2>3, <2>4, BlockBytes
  <1> QED BY <1>2, <1>3

\* A block number that the code rejects is met in unreadable files only.
LEMMA BadBlockUnreadable ==
    ASSUME IInv, BadBlock
    PROVE  ~Readable
  <1>1. CASE pc = "first" /\ BlockNo(d_block_idx_offset) > NumBlocks
    <2>1. /\ d_block_idx_offset \in Index
          /\ d_block_idx_offset * BlockSize < Size
          /\ BlockNo(d_block_idx_offset) \in Nat
      BY <1>1, FirstFacts
    <2>2. ~(BlockNo(d_block_idx_offset) < NumBlocks)
      BY <1>1, <2>1, SizeAssumption
    <2> QED BY <2>1, <2>2 DEF Readable, Sound
  <1>2. CASE pc = "rest" /\ BlockNo(d_block_idx_offset + 1) > NumBlocks
    <2>1. /\ d_block_idx_offset + 1 \in Index
          /\ (d_block_idx_offset + 1) * BlockSize < Size
          /\ BlockNo(d_block_idx_offset + 1) \in Nat
      BY <1>2, RestFacts
    <2>2. ~(BlockNo(d_block_idx_offset + 1) < NumBlocks)
      BY <1>2, <2>1, SizeAssumption
    <2> QED BY <2>1, <2>2 DEF Readable, Sound
  <1> QED BY <1>1, <1>2 DEF BadBlock

\* The error return on a bad block number preserves the invariant.
LEMMA BadBlockKeeps ==
    ASSUME IInv, BadBlock
    PROVE  IInv'
  <1> USE DEF IInv
  <1>1. ~Readable
    BY BadBlockUnreadable
  <1>2. buf \in Seq(Byte) /\ Return(-1, buf)
    BY DEF BadBlock, TypeOK
  <1>3. file_pos' \in 0 .. (Word - 1) /\ seen' \in Seq(Byte) /\ SequentialReads'
    BY <1>1, <1>2, RejectKeeps
  <1>4. TypeOK' /\ pc' = "idle"
    BY <1>2, <1>3 DEF TypeOK, Return, BadBlock
  <1> QED BY <1>3, <1>4 DEF InFirst, InRest

\* A call that returns n right bytes preserves the invariant.
LEMMA EndKeeps ==
    ASSUME IInv, NEW n \in Nat, NEW got \in Seq(Byte), Len(got) = n,
           file_pos + n <= Size,
           \A k \in 1 .. n : got[k] = FileByte(file_pos + k - 1),
           Return(n, got),
           length' \in Nat, d_block_idx_offset' \in Nat, bytes_to_copy' \in Nat,
           reads' = reads
    PROVE  IInv'
  <1> USE DEF IInv
  <1>1. file_pos' \in 0 .. (Word - 1) /\ seen' \in Seq(Byte) /\ SequentialReads'
    BY ReturnKeeps
  <1>2. TypeOK' /\ pc' = "idle"
    BY <1>1 DEF TypeOK, Return
  <1> QED BY <1>1, <1>2 DEF InFirst, InRest

\* The read ends inside its first block.
LEMMA FirstBlockOnlyKeeps ==
    ASSUME IInv, FirstBlockOnly
    PROVE  IInv'
  <1> DEFINE c == Copied(BlockNo(d_block_idx_offset), StartByte, real_length)
  <1>1. /\ pc = "first"
        /\ BlockSize - StartByte >= real_length
        /\ Return(real_length, c)
        /\ UNCHANGED <<length, d_block_idx_offset, bytes_to_copy, reads>>
    BY DEF FirstBlockOnly
  <1>2. TypeOK /\ file_pos < Size
    BY <1>1 DEF IInv, InFirst
  <1>3. real_length \in Nat /\ file_pos + real_length <= Size
    BY <1>2, LengthType
  <1>4. StartByte + real_length <= BlockSize
    BY <1>1, <1>3, FirstFacts, SizeAssumption
  <1>5. /\ c \in Seq(Byte)
        /\ Len(c) = real_length
        /\ \A k \in 1 .. Len(c) : c[k] = FileByte(file_pos + k - 1)
    BY <1>1, <1>3, <1>4, FirstCopied
  <1>6. length' \in Nat /\ d_block_idx_offset' \in Nat /\ bytes_to_copy' \in Nat
    BY <1>1, <1>2 DEF TypeOK
  <1> HIDE DEF c
  <1> QED BY <1>1, <1>3, <1>5, <1>6, EndKeeps

\* The rest of the first block is copied and the loop starts on a block boundary.
LEMMA FirstBlockKeeps ==
    ASSUME IInv, FirstBlock
    PROVE  IInv'
  <1> DEFINE n == BlockSize - StartByte
             c == Copied(BlockNo(d_block_idx_offset), StartByte, n)
  <1>1. /\ pc = "first"
        /\ n < real_length
        /\ pc' = "rest"
        /\ buf' = c
        /\ bytes_to_copy' = real_length - n
        /\ UNCHANGED <<image, inode, file_pos, length, d_block_idx_offset, res, seen, reads>>
    BY DEF FirstBlock
  <1>2. TypeOK /\ file_pos < Size /\ inode < NumInodes - 1 /\ SequentialReads
    BY <1>1 DEF IInv, InFirst
  <1>3. real_length \in Nat
    BY <1>2, LengthType
  <1>4. n \in Nat /\ StartByte + n <= BlockSize /\ StartByte \in Nat
    BY <1>1, FirstFacts, SizeAssumption
  <1>5. /\ c \in Seq(Byte)
        /\ Len(c) = n
        /\ \A k \in 1 .. Len(c) : c[k] = FileByte(file_pos + k - 1)
    BY <1>1, <1>4, FirstCopied
  <1> HIDE DEF c
  <1>6. /\ Size' = Size /\ SequentialReads'
        /\ \A k : FileByte(k)' = FileByte(k)
    BY <1>1, <1>2, SameFile
  <1>7. TypeOK'
    BY <1>1, <1>2, <1>3, <1>4, <1>5 DEF TypeOK
  <1>8. real_length' = real_length
    BY <1>1, <1>6 DEF real_length
  <1>9. bytes_to_copy' > 0 /\ Len(buf') + bytes_to_copy' = real_length
    BY <1>1, <1>3, <1>4, <1>5
  <1>10. file_pos + n = (d_block_idx_offset + 1) * BlockSize
    <2>1. file_pos = d_block_idx_offset * BlockSize + StartByte
      BY <1>1, FirstFacts
    <2>2. d_block_idx_offset \in Nat
      BY <1>2 DEF TypeOK
    <2>3. d_block_idx_offset * BlockSize + BlockSize = (d_block_idx_offset + 1) * BlockSize
      BY <2>2, SizeAssumption, Z3
    <2>4. PICK m \in Nat : m = d_block_idx_offset * BlockSize
      BY <2>2, SizeAssumption
    <2>5. file_pos + n = m + BlockSize
      BY <1>4, <2>1, <2>4, SizeAssumption
    <2> QED BY <2>3, <2>4, <2>5
  <1>11. InRest'
    BY <1>1, <1>2, <1>5, <1>6, <1>8, <1>9, <1>10 DEF InRest
  <1> QED BY <1>1, <1>6, <1>7, <1>11 DEF IInv, InFirst

\* A piece of the next block, copied behind the buffer, continues the file.
LEMMA RestCopied ==
    ASSUME IInv, pc = "rest", NEW n \in Nat, n <= BlockSize,
           NEW STATE t, t = buf \o Copied(BlockNo(d_block_idx_offset + 1), 0, n)
    PROVE  /\ t \in Seq(Byte)
           /\ Len(t) = Len(buf) + n
           /\ \A k \in 1 .. Len(t) : t[k] = FileByte(file_pos + k - 1)
  <1> DEFINE q == d_block_idx_offset + 1
             c == Copied(BlockNo(q), 0, n)
  <1>1. /\ TypeOK
        /\ buf \in Seq(Byte)
        /\ file_pos \in Nat
        /\ \A k \in 1 .. Len(buf) : buf[k] = FileByte(file_pos + k - 1)
        /\ BlockNo(q) \in Nat
        /\ file_pos + Len(buf) = q * BlockSize
    BY RestFacts DEF IInv, InRest
  <1>2. q \in Nat
    BY <1>1 DEF TypeOK
  <1>3. /\ c \in Seq(Byte) /\ Len(c) = n
        /\ \A j \in 1 .. n : c[j] = Contents(BlockNo(q))[0 + j - 1]
    <2>1. 0 \in Nat /\ 0 + n <= BlockSize
      BY SizeAssumption
    <2> QED BY <1>1, <2>1, CopiedBytes
  <1>4. t = buf \o c
    OBVIOUS
  <1> HIDE DEF c, q
  <1>5. /\ t \in Seq(Byte)
        /\ Len(t) = Len(buf) + n
        /\ \A k \in 1 .. Len(buf) : t[k] = buf[k]
        /\ \A k \in (Len(buf) + 1) .. (Len(buf) + n) : t[k] = c[k - Len(buf)]
    <2>1. /\ buf \o c \in Seq(Byte)
          /\ Len(buf \o c) = Len(buf) + Len(c)
          /\ \A k \in 1 .. Len(buf) : (buf \o c)[k] = buf[k]
          /\ \A k \in (Len(buf) + 1) .. (Len(buf) + Len(c)) :
                (buf \o c)[k] = c[k - Len(buf)]
      BY <1>1, <1>3, Appended, Zenon
    <2> QED BY <1>3, <1>4, <2>1, Zenon
  <1>6. ASSUME NEW k \in 1 .. (Len(buf) + n)
        PROVE  t[k] = FileByte(file_pos + k - 1)
    <2>0. Len(buf) \in Nat /\ k \in Nat
      BY <1>1
    <2>1. CASE k <= Len(buf)
      BY <1>1, <1>5, <2>0, <2>1
    <2>2. CASE k > Len(buf)
      <3>1. /\ k - Len(buf) \in 1 .. n
            /\ k \in (Len(buf) + 1) .. (Len(buf) + n)
        BY <2>0, <2>2
      <3> DEFINE r == (k - Len(buf)) - 1
      <3>2. r \in 0 .. (BlockSize - 1) /\ 0 + (k - Len(buf)) - 1 = r
        BY <2>0, <3>1, SizeAssumption
      <3>3. t[k] = Contents(BlockNo(q))[r]
        <4>1. t[k] = c[k - Len(buf)]
          BY <1>5, <3>1
        <4>2. c[k - Len(buf)] = Contents(BlockNo(q))[0 + (k - Len(buf)) - 1]
          BY <1>3, <3>1
        <4> QED BY <3>2, <4>1, <4>2
      <3>4. PICK m \in Nat : m = q * BlockSize
        BY <1>2, SizeAssumption
      <3>5. file_pos + k - 1 = m + r
        BY <1>1, <2>0, <3>4
      <3>6. FileByte(m + r) = Contents(BlockNo(q))[r]
        BY <1>2, <3>2, <3>4, BlockBytes
      <3> HIDE DEF r
      <3> QED BY <3>3, <3>5, <3>6, Zenon
    <2>3. k <= Len(buf) \/ k > Len(buf)
      BY <2>0
    <2> QED BY <2>1, <2>2, <2>3, Zenon
  <1> QED BY <1>5, <1>6

\* A whole block is copied and the next boundary is reached.
LEMMA WholeBlockKeeps ==
    ASSUME IInv, WholeBlock
    PROVE  IInv'
  <1> DEFINE t == buf \o Copied(BlockNo(d_block_idx_offset + 1), 0, BlockSize)
  <1>1. /\ pc = "rest"
        /\ bytes_to_copy > BlockSize
        /\ bytes_to_copy' = bytes_to_copy - BlockSize
        /\ d_block_idx_offset' = d_block_idx_offset + 1
        /\ buf' = t
        /\ UNCHANGED <<image, inode, file_pos, pc, length, res, seen, reads>>
    BY DEF WholeBlock
  <1>2. /\ TypeOK /\ file_pos < Size /\ inode < NumInodes - 1 /\ SequentialReads
        /\ Len(buf) + bytes_to_copy = real_length
        /\ file_pos + Len(buf) = (d_block_idx_offset + 1) * BlockSize
    BY <1>1 DEF IInv, InRest
  <1>3. BlockSize \in Nat /\ BlockSize <= BlockSize
    BY SizeAssumption
  <1>4. /\ t \in Seq(Byte)
        /\ Len(t) = Len(buf) + BlockSize
        /\ \A k \in 1 .. Len(t) : t[k] = FileByte(file_pos + k - 1)
    BY <1>1, <1>3, RestCopied
  <1> HIDE DEF t
  <1>5. /\ Size' = Size /\ SequentialReads'
        /\ \A k : FileByte(k)' = FileByte(k)
    BY <1>1, <1>2, SameFile
  <1>6. /\ d_block_idx_offset \in Nat /\ bytes_to_copy \in Nat /\ Len(buf) \in Nat
        /\ file_pos \in Nat
    BY <1>2, WordAssumption DEF TypeOK
  <1>7. TypeOK'
    BY <1>1, <1>2, <1>3, <1>4, <1>6 DEF TypeOK
  <1>8. real_length' = real_length
    BY <1>1, <1>5 DEF real_length
  <1>9. bytes_to_copy' > 0 /\ Len(buf') + bytes_to_copy' = real_length
    BY <1>1, <1>2, <1>3, <1>4, <1>6
  <1>10. file_pos + Len(buf') = (d_block_idx_offset' + 1) * BlockSize
    <2>1. PICK m \in Nat : m = (d_block_idx_offset + 1) * BlockSize
      BY <1>6, <1>3
    <2>2. (d_block_idx_offset' + 1) * BlockSize = (d_block_idx_offset + 1) * BlockSize + BlockSize
      BY <1>1, <1>3, <1>6, Z3
    <2>3. file_pos + (Len(buf) + BlockSize) = m + BlockSize
      BY <1>2, <1>3, <1>6, <2>1
    <2> QED BY <1>1, <1>4, <2>1, <2>2, <2>3
  <1>11. InRest'
    BY <1>1, <1>2, <1>4, <1>5, <1>8, <1>9, <1>10 DEF InRest
  <1> QED BY <1>1, <1>5, <1>7, <1>11 DEF IInv, InFirst

\* The last, partial or full, block is copied and the read returns.
LEMMA LastBlockKeeps ==
    ASSUME IInv, LastBlock
    PROVE  IInv'
  <1> DEFINE t == buf \o Copied(BlockNo(d_block_idx_offset + 1), 0, bytes_to_copy)
  <1>1. /\ pc = "rest"
        /\ bytes_to_copy <= BlockSize
        /\ d_block_idx_offset' = d_block_idx_offset + 1
        /\ bytes_to_copy' = 0
        /\ Return(real_length, t)
        /\ UNCHANGED <<length, reads>>
    BY DEF LastBlock
  <1>2. /\ bytes_to_copy \in Nat
        /\ real_length \in Nat
        /\ Len(buf) + bytes_to_copy = real_length
        /\ file_pos + real_length <= Size
    BY <1>1, RestFacts
  <1>3. /\ t \in Seq(Byte)
        /\ Len(t) = Len(buf) + bytes_to_copy
        /\ \A k \in 1 .. Len(t) : t[k] = FileByte(file_pos + k - 1)
    BY <1>1, <1>2, RestCopied
  <1>4. length' \in Nat /\ d_block_idx_offset' \in Nat /\ bytes_to_copy' \in Nat
    BY <1>1 DEF IInv, TypeOK
  <1> HIDE DEF t
  <1>5. Len(t) = real_length /\ \A k \in 1 .. real_length : t[k] = FileByte(file_pos + k - 1)
    BY <1>2, <1>3
  <1> QED BY <1>1, <1>2, <1>3, <1>4, <1>5, EndKeeps

\* A step that changes nothing.
LEMMA StutterKeeps ==
    ASSUME IInv, UNCHANGED vars
    PROVE  IInv'
  <1>1. UNCHANGED <<image, inode, file_pos, seen>>
    BY DEF vars
  <1>2. TypeOK' /\ SequentialReads'
    BY <1>1, SameFile DEF IInv, TypeOK, vars
  <1>3. /\ Size' = Size /\ \A k : FileByte(k)' = FileByte(k)
    BY <1>1, SameFile
  <1>4. real_length' = real_length
    BY <1>3 DEF real_length, vars
  <1>5. InFirst'
    BY <1>3 DEF IInv, InFirst, vars
  <1>6. InRest'
    BY <1>3, <1>4 DEF IInv, InRest, vars
  <1> QED BY <1>2, <1>5, <1>6 DEF IInv

\* Every step keeps the inductive invariant.
LEMMA NextKeeps ==
    ASSUME IInv, [Next]_vars
    PROVE  IInv'
  <1>1. ASSUME NEW i \in Inode, Open(i) PROVE IInv'
    BY <1>1, OpenKeeps
  <1>2. ASSUME NEW n \in Lengths, FileRead(n) PROVE IInv'
    BY <1>2, FileReadKeeps
  <1>3. CASE ReadStep
    BY <1>3, BadBlockKeeps, FirstBlockOnlyKeeps, FirstBlockKeeps, WholeBlockKeeps,
       LastBlockKeeps DEF ReadStep
  <1>4. CASE UNCHANGED vars
    BY <1>4, StutterKeeps
  <1> QED BY <1>1, <1>2, <1>3, <1>4 DEF Next

\* The descriptor and the locals of read_data keep their types; in particular
\* file_pos stays a uint32_t (file_read).
THEOREM ReadTypes == Spec => []TypeOK
  <1>1. Init => IInv
    BY InitHolds
  <1>2. IInv /\ [Next]_vars => IInv'
    BY NextKeeps
  <1>3. IInv => TypeOK
    BY DEF IInv
  <1> QED BY <1>1, <1>2, <1>3, PTL DEF Spec

\* file_read returns the bytes of the file in order, for every image, block
\* size, file and sequence of lengths (file_read and read_data).
THEOREM ReadsAreSequential == Spec => []SequentialReads
  <1>1. Init => IInv
    BY InitHolds
  <1>2. IInv /\ [Next]_vars => IInv'
    BY NextKeeps
  <1>3. IInv => SequentialReads
    BY DEF IInv
  <1> QED BY <1>1, <1>2, <1>3, PTL DEF Spec

-----------------------------------------------------------------------------
(***************************************************************************)
(* Short reads.                                                            *)
(***************************************************************************)
\* What one step may do to the position of a readable file.
FullOrEnd ==
    Readable /\ file_pos' > file_pos =>
        file_pos' - file_pos = length' \/ file_pos' = Size

\* A read that returns real_length bytes returns all that was asked for or
\* ends at the end of the file.
LEMMA ReturnFull ==
    ASSUME IInv, file_pos < Size, NEW got, Return(real_length, got), length' = length
    PROVE  FullOrEnd
  <1>1. /\ real_length \in Nat
        /\ file_pos + real_length <= Size
        /\ real_length = length \/ file_pos + real_length = Size
    BY LengthType DEF IInv
  <1>2. Size \in Nat /\ Size < Word /\ file_pos \in Nat /\ Word \in Nat \ {0}
    BY InodeType, WordAssumption DEF IInv, TypeOK
  <1>3. file_pos' = file_pos + real_length
    <2>1. file_pos' = (file_pos + real_length) % Word
      BY DEF Return
    <2>2. file_pos + real_length \in 0 .. (Word - 1)
      BY <1>1, <1>2
    <2> QED BY <1>2, <2>1, <2>2, Small
  <1> QED BY <1>1, <1>2, <1>3 DEF FullOrEnd

\* The call itself moves the position of no readable file.
LEMMA CallFull ==
    ASSUME IInv, NEW n \in Lengths, FileRead(n)
    PROVE  FullOrEnd
  <1>1. CASE inode >= NumInodes - 1
    <2>1. ~(inode < NumInodes - 1)
      BY <1>1, SizeAssumption DEF IInv, TypeOK, Inode
    <2> QED BY <2>1 DEF FullOrEnd, Readable
  <1>2. file_pos \in 0 .. (Word - 1) /\ Word \in Nat \ {0}
    BY WordAssumption DEF IInv, TypeOK
  <1>3. CASE Return(0, <<>>)
    <2>1. file_pos' = (file_pos + 0) % Word
      BY <1>3 DEF Return
    <2>2. file_pos + 0 = file_pos
      BY <1>2
    <2>3. file_pos' = file_pos
      BY <1>2, <2>1, <2>2, Small
    <2> QED BY <1>2, <2>3 DEF FullOrEnd
  <1>4. CASE file_pos' = file_pos
    BY <1>2, <1>4 DEF FullOrEnd
  <1> QED BY <1>1, <1>3, <1>4 DEF FileRead

\* Every step.
LEMMA NextFull ==
    ASSUME IInv, [Next]_vars
    PROVE  FullOrEnd
  <1>1. file_pos \in Nat
    BY WordAssumption DEF IInv, TypeOK
  <1>2. ASSUME file_pos' = file_pos PROVE FullOrEnd
    BY <1>1, <1>2 DEF FullOrEnd
  <1>3. ASSUME NEW i \in Inode, Open(i) PROVE FullOrEnd
    BY <1>1, <1>3 DEF Open, FullOrEnd
  <1>4. ASSUME NEW n \in Lengths, FileRead(n) PROVE FullOrEnd
    BY <1>4, CallFull
  <1>5. CASE BadBlock
    BY <1>5, BadBlockUnreadable DEF FullOrEnd
  <1>6. CASE FirstBlockOnly
    BY <1>6, ReturnFull DEF FirstBlockOnly, IInv, InFirst
  <1>7. CASE LastBlock
    BY <1>7, ReturnFull DEF LastBlock, IInv, InRest
  <1>8. CASE FirstBlock \/ WholeBlock \/ UNCHANGED vars
    BY <1>2, <1>8 DEF FirstBlock, WholeBlock, vars
  <1> QED BY <1>3, <1>4, <1>5, <1>6, <1>7, <1>8 DEF Next, ReadStep

\* A read of a readable file returns fewer bytes than asked for only when it
\* reaches the end of the file, however the request falls on the blocks
\* (read_data's cut of the length and its three copy loops).
THEOREM FullReads == Spec => ShortOnlyAtEnd
  <1>1. Init => IInv
    BY InitHolds
  <1>2. IInv /\ [Next]_vars => IInv'
    BY NextKeeps
  <1>3. IInv /\ [Next]_vars =>
            [Readable /\ file_pos' > file_pos =>
                file_pos' - file_pos = length' \/ file_pos' = Size]_vars
    BY NextFull DEF FullOrEnd
  <1> QED BY <1>1, <1>2, <1>3, PTL DEF Spec, ShortOnlyAtEnd

-----------------------------------------------------------------------------
(***************************************************************************)
(* Progress.  ReadTerminates needs fairness and stays with TLC; that a     *)
(* read cannot go on for ever does not.                                    *)
(***************************************************************************)
\* The bytes that a read under way has still to copy.
Left == IF pc = "first" THEN real_length ELSE bytes_to_copy

\* A step of a read ends it or leaves less to copy.
ReadShrinks == pc # "idle" => pc' = "idle" \/ Left' \in 0 .. (Left - 1)

LEMMA NextShrinks ==
    ASSUME IInv, Next
    PROVE  ReadShrinks
  <1>1. SUFFICES ASSUME ReadStep PROVE ReadShrinks
    BY DEF Next, Open, FileRead, ReadShrinks
  <1>2. CASE BadBlock \/ FirstBlockOnly \/ LastBlock
    BY <1>2 DEF BadBlock, FirstBlockOnly, LastBlock, Return, ReadShrinks
  <1>3. CASE FirstBlock
    <2>1. pc = "first" /\ pc' = "rest" /\ BlockSize - StartByte < real_length
          /\ bytes_to_copy' = real_length - (BlockSize - StartByte)
      BY <1>3 DEF FirstBlock
    <2>2. StartByte \in 0 .. (BlockSize - 1) /\ BlockSize \in Nat
      BY <2>1, FirstFacts, SizeAssumption
    <2>3. real_length \in Nat
      BY <2>1, LengthType DEF IInv, InFirst
    <2>4. bytes_to_copy' \in 0 .. (real_length - 1)
      BY <2>1, <2>2, <2>3
    <2> QED BY <2>1, <2>4 DEF Left, ReadShrinks
  <1>4. CASE WholeBlock
    <2>1. pc = "rest" /\ pc' = "rest" /\ bytes_to_copy > BlockSize
          /\ bytes_to_copy' = bytes_to_copy - BlockSize
      BY <1>4 DEF WholeBlock
    <2>2. bytes_to_copy \in Nat /\ BlockSize \in Nat \ {0}
      BY SizeAssumption DEF IInv, TypeOK
    <2>3. bytes_to_copy' \in 0 .. (bytes_to_copy - 1)
      BY <2>1, <2>2
    <2> QED BY <2>1, <2>3 DEF Left, ReadShrinks
  <1> QED BY <1>1, <1>2, <1>3, <1>4 DEF ReadStep

\* Once read_data copies, every step of it returns or lowers the bytes it has
\* still to copy, for every image, sound or not, and all sizes: neither the step
\* from block to block nor a bad block makes its loops run on (filesystem.c
\* read_data).
THEOREM ReadsProgress == Spec => [][ReadShrinks]_vars
  <1>1. Init => IInv
    BY InitHolds
  <1>2. IInv /\ [Next]_vars => IInv'
    BY NextKeeps
  <1>3. IInv /\ [Next]_vars => [ReadShrinks]_vars
    BY NextShrinks
  <1> QED BY <1>1, <1>2, <1>3, PTL DEF Spec
=============================================================================
