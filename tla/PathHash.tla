------------------------------ MODULE PathHash ------------------------------
(* The hash that archives store instead of a path (hash.rs, hash/mad.rs): a  *)
(* polynomial over the normalized bytes, computed four bytes at a time.  A   *)
(* path is the sequence of its bytes.  The type of the hash is a parameter   *)
(* as in the code: T.PRIME is its prime, and its arithmetic wraps at T.M.    *)
EXTENDS Integers, Sequences, SequencesExt, FiniteSetsExt

N == 4  \* bytes per chunk
Slash == 47
Backslash == 92
Colon == 58

normalize(c) == IF c \in 65..90 THEN c + 32 ELSE IF c = Backslash THEN Slash ELSE c

(* What is left of a path without root and leading separator; paths of less  *)
(* than two bytes have no hash.                                              *)
WithoutRoot(s) ==
  LET colons == {i \in DOMAIN s : s[i] = Colon}
  IN  IF colons = {} THEN s ELSE SubSeq(s, Min(colons) + 1, Len(s))

HasHash(s) == Len(WithoutRoot(s)) >= 2

normalize_suffix(s) ==
  LET rest == WithoutRoot(s)
  IN  IF rest[1] \in {Slash, Backslash} THEN Tail(rest) ELSE rest

-----------------------------------------------------------------------------
(* mad_hash32 and mad_hash64: one byte at a time.                            *)
HashStep(T, hash, c) == (hash * T.PRIME + normalize(c)) % T.M
hash_bytes(T, init, bytes) ==
  LET upto[n \in 0..Len(bytes)] ==
        IF n = 0 THEN init ELSE HashStep(T, upto[n - 1], bytes[n])
  IN  upto[Len(bytes)]

(* POWERS and POWERN: powers[N] = 1, powers[1] = PRIME^(N - 1).              *)
POWERS(T) ==
  LET power[n \in 0..N] == IF n = 0 THEN 1 % T.M ELSE (T.PRIME * power[n - 1]) % T.M
  IN  power

(* A bug: the powers in the order of the bytes.                              *)
DotProduct_Ascending(T, chunk) ==
  LET upto[n \in 0..N] ==
        IF n = 0 THEN 0 ELSE (upto[n - 1] + normalize(chunk[n]) * POWERS(T)[n - 1]) % T.M
  IN  upto[N]

DotProduct(T, chunk) ==
  LET upto[n \in 0..N] ==
        IF n = 0 THEN 0 ELSE (upto[n - 1] + normalize(chunk[n]) * POWERS(T)[N - n]) % T.M
  IN  upto[N]

(* mad_hash: the whole chunks, then what remains of the bytes.               *)
mad_hash(T, init, bytes) ==
  LET chunks == Len(bytes) \div N
      Chunk(j) == SubSeq(bytes, N * (j - 1) + 1, N * j)
      upto[j \in 0..chunks] ==
        IF j = 0 THEN init
        ELSE (upto[j - 1] * POWERS(T)[N] + DotProduct(T, Chunk(j))) % T.M
  IN  hash_bytes(T, upto[chunks], SubSeq(bytes, N * chunks + 1, Len(bytes)))

hash_path(T, s) == mad_hash(T, hash_bytes(T, 0, <<Slash>>), normalize_suffix(s))
=============================================================================
