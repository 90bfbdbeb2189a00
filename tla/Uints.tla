-------------------------------- MODULE Uints -------------------------------
(* The widths of the integers an archive is made of (unaligned.rs).          *)
EXTENDS Integers

CONSTANTS
  M24,  \* 2^24, the values of a u24
  M32   \* 2^32, the values of a u32

ASSUME UintsAssumption ==
  /\ M24 \in Nat \ {0}
  /\ M32 \in Nat /\ M32 > 1 /\ M32 % 2 = 0

M64 == M32 * M32
=============================================================================
