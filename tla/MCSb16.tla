------------------------------- MODULE MCSb16 -------------------------------
(* Instances of Sb16 for TLC: halves of two units, sound files of 1 to 8 units,
   an empty one, one whose first bytes are not RIFF, one that has a block
   that cannot be read and one whose inode is refused.  Inode 0 is the file
   of 3 units. *)
EXTENDS Sb16

MCSize == [f \in File |->
               CASE f = 0 -> 3 [] f = 10 -> 0 [] f = 11 -> 6 [] f = 12 -> 7 [] OTHER -> f]
MCBroken == [f \in File |-> IF f = 11 THEN {5} ELSE {}]

\* Nothing is claimed after a race: behaviours are followed up to it.
NoRace == ~raced
=============================================================================
