----------------------------- MODULE MCFileRead -----------------------------
(* Instances of FileRead for TLC: blocks of two bytes, every byte different. *)
EXTENDS FileRead

MCByte   == 0 .. 11
MCBehind == [j \in 0 .. 1 |-> 11]

\* Files 0 and 1 with their sizes and blocks, file 2 (the last inode) with one
\* byte; the blocks of a file are scattered.
MCImage(s0, s1, blocks0) ==
    [size  |-> [i \in 0 .. 2 |-> <<s0, s1, 1>>[i + 1]],
     block |-> [i \in 0 .. 2 |-> <<blocks0, [j \in 0 .. 3 |-> 1], [j \in 0 .. 3 |-> 2]>>[i + 1]],
     data  |-> [b \in 0 .. 4 |-> [j \in 0 .. 1 |-> 2 * b + j]]]

Scattered == [j \in 0 .. 3 |-> <<4, 0, 3, 2>>[j + 1]]
\* A block number that read_data rejects, as the third block.
Broken == [j \in 0 .. 3 |-> <<4, 0, 6, 2>>[j + 1]]

MCImages == {MCImage(s0, s1, Scattered) : s0 \in 0 .. 8, s1 \in {0, 2}}
            \cup {MCImage(8, 1, Broken)}
=============================================================================
