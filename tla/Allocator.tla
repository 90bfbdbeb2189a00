----------------------------- MODULE Allocator -----------------------------
(* The arithmetic of AlignedBufferAllocator (filesystem/aligned.rs:222-322). *)
(* Its free buffers are the bits of one usize; a word is written here as the *)
(* set of the bits that are set, so that "and" is the intersection, "or" the *)
(* union, and the difference of a word and a part of it that of the sets.    *)
EXTENDS Integers

(* trailing_zeros of a word that is not zero.                                *)
trailing_zeros(word) == CHOOSE i \in word : \A j \in word : i <= j

(* checked_sub(1) of a word that is not zero: the lowest bit goes, the zeros *)
(* below it are set.                                                         *)
MinusOne(word) ==
  (word \ {trailing_zeros(word)}) \cup 0..(trailing_zeros(word) - 1)

(* Variant: without the "and", so that the zeros below the bit stay set.     *)
WithoutLowest_NoMask(word) == MinusOne(word)

(* alloc: the word that is left.                                             *)
WithoutLowest(word) == word \cap MinusOne(word)

(* alloc: the buffer handed out, from the bit that went.                     *)
Handed(word) == trailing_zeros(word \ WithoutLowest(word))

(* free of buffers one after another: each sets its bit again.               *)
WithBits(word, buffers) == word \cup buffers
=============================================================================
